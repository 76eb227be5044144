---------------------------- MODULE MongoOutbox ----------------------------
(***************************************************************************)
(* The leased Outbox in MongoDB (storage/mongo): documents appended inside *)
(* the host's transaction, claimed one FindOneAndUpdate at a time, settled *)
(* by fenced updates.  A claim loop that fails half way returns what it    *)
(* has with the error, and relay.Run drops it: only the lease brings those *)
(* documents back.  wait and lease are ticks of the server's clock left.   *)
(***************************************************************************)
EXTENDS Integers, FiniteSets

CONSTANTS
    Docs, Prints,       \* identities; fingerprints of contents
    Txs, Workers,       \* host transactions; relays
    Limit, Lease,       \* arguments of ClaimDue
    MaxFaults           \* bound on errors, crashes, rot and lapsed claims

MongoOutboxAssumption == {Limit, Lease} \subseteq Nat \ {0} /\ MaxFaults \in Nat

VARIABLES
    doc,        \* the collection
    tx,         \* host transactions and what Append told them
    worker,     \* claim loops: pc, iterations, claims, the corrupt one in hand
    claims,     \* history: claims granted per document
    faults

vars == <<doc, tx, worker, claims, faults>>

None == "none"
Fault == faults < MaxFaults /\ faults' = faults + 1
NoDoc == [state |-> "absent", print |-> None, intact |-> TRUE, token |-> 0, version |-> 0,
          attempts |-> 0, failures |-> 0, wait |-> 0, lease |-> 0]
NoTx == [pc |-> "idle", doc |-> None, print |-> None, wrote |-> FALSE]
Idle == [pc |-> "idle", i |-> 0, held |-> {}, corrupt |-> {}]

Init ==
    /\ doc = [d \in Docs |-> NoDoc] /\ tx = [t \in Txs |-> NoTx]
    /\ worker = [w \in Workers |-> Idle] /\ claims = [d \in Docs |-> 0] /\ faults = 0

-----------------------------------------------------------------------------
(* Append in the host's transaction *)

\* Defective: the stored fingerprint is not compared.
AppendUncompared(t, d, p) ==
    /\ tx[t].pc = "idle"
    /\ LET other == \E u \in Txs : tx[u].pc = "open" /\ tx[u].doc = d /\ tx[u].wrote
       IN  tx' = [tx EXCEPT ![t] = [pc |-> IF other THEN "failed" ELSE "open", doc |-> d, print |-> p,
                                    wrote |-> doc[d].state = "absent"]]
    /\ UNCHANGED <<doc, worker, claims, faults>>

\* $setOnInsert and the read that follows it: a document another open transaction
\* inserted is a write conflict, other content is ErrConflict.
Append(t, d, p) ==
    /\ tx[t].pc = "idle"
    /\ LET other == \E u \in Txs : tx[u].pc = "open" /\ tx[u].doc = d /\ tx[u].wrote
           differs == doc[d].state # "absent" /\ doc[d].print # p
       IN  tx' = [tx EXCEPT ![t] = [pc |-> IF other \/ differs THEN "failed" ELSE "open", doc |-> d,
                                    print |-> p, wrote |-> doc[d].state = "absent"]]
    /\ UNCHANGED <<doc, worker, claims, faults>>

\* The host ends its transaction; a new document is due at once or after a tick.
EndTx(t) ==
    /\ tx[t].pc \in {"open", "failed"}
    /\ \/ /\ tx[t].pc = "open" /\ tx' = [tx EXCEPT ![t].pc = "committed"]
          /\ \E due \in 0..1 : doc' = IF tx[t].wrote
                THEN [doc EXCEPT ![tx[t].doc] = [NoDoc EXCEPT !.state = "pending", !.print = tx[t].print,
                                                              !.wait = due]]
                ELSE doc
       \/ tx' = [tx EXCEPT ![t].pc = "aborted"] /\ UNCHANGED doc
    /\ UNCHANGED <<worker, claims, faults>>

-----------------------------------------------------------------------------
(* ClaimDue *)

\* Defective: the lease of a publishing document is not compared.
DueIgnoringLease(d) == doc[d].state \in {"pending", "retry_wait", "publishing"}

\* Defective: documents in publishing are never due.
DueWithoutRecovery(d) == doc[d].state \in {"pending", "retry_wait"} /\ doc[d].wait = 0

\* The filter: next_attempt_at has come, and the lease of a publishing one has ended.
Due(d) ==
    /\ doc[d].state \in {"pending", "retry_wait", "publishing"} /\ doc[d].wait = 0
    /\ doc[d].state = "publishing" => doc[d].lease = 0

ClaimBegin(w) ==
    /\ worker[w].pc = "idle" /\ worker' = [worker EXCEPT ![w].pc = "claiming"]
    /\ UNCHANGED <<doc, tx, claims, faults>>

claimed(d) == [doc[d] EXCEPT !.state = "publishing", !.token = doc[d].version + 1,
                             !.version = @ + 1, !.attempts = @ + 1, !.wait = Lease, !.lease = Lease]
claimOf(d) == [doc |-> d, token |-> claimed(d).token, version |-> claimed(d).version,
               lease |-> Lease, write |-> None]

\* Defective: one claim more than the limit.
FindOneAndUpdateOver(w) ==
    /\ worker[w].pc = "claiming" /\ worker[w].i <= Limit /\ worker[w].corrupt = {}
    /\ \E d \in {e \in Docs : Due(e)} :
          /\ doc' = [doc EXCEPT ![d] = claimed(d)] /\ claims' = [claims EXCEPT ![d] = @ + 1]
          /\ worker' = [worker EXCEPT ![w].i = @ + 1, ![w].held = @ \cup {claimOf(d)}]
    /\ UNCHANGED <<tx, faults>>

\* One FindOneAndUpdate; content that does not match is to be quarantined next.
FindOneAndUpdate(w) ==
    /\ worker[w].pc = "claiming" /\ worker[w].i < Limit /\ worker[w].corrupt = {}
    /\ \E d \in {e \in Docs : Due(e)} :
          /\ doc' = [doc EXCEPT ![d] = claimed(d)] /\ claims' = [claims EXCEPT ![d] = @ + 1]
          /\ worker' = [worker EXCEPT ![w].i = @ + 1,
                            ![w].held = IF doc[d].intact THEN @ \cup {claimOf(d)} ELSE @,
                            ![w].corrupt = IF doc[d].intact THEN {} ELSE {claimOf(d)}]
    /\ UNCHANGED <<tx, faults>>

\* The answer is lost, or the update was not made: the claims are returned with the
\* error, and relay.Run returns the error alone.
ClaimFails(w) ==
    /\ worker[w].pc = "claiming" /\ worker[w].i < Limit /\ worker[w].corrupt = {} /\ Fault
    /\ \/ UNCHANGED <<doc, claims>>
       \/ \E d \in {e \in Docs : Due(e)} : doc' = [doc EXCEPT ![d] = claimed(d)]
                                           /\ claims' = [claims EXCEPT ![d] = @ + 1]
    /\ worker' = [worker EXCEPT ![w] = Idle] /\ UNCHANGED tx

\* The batch is full, or nothing is due.
ClaimEnds(w) ==
    /\ worker[w].pc = "claiming" /\ worker[w].corrupt = {}
    /\ worker[w].i = Limit \/ ~ \E d \in Docs : Due(d)
    /\ worker' = [worker EXCEPT ![w].pc = "delivering"] /\ UNCHANGED <<doc, tx, claims, faults>>

-----------------------------------------------------------------------------
(* Settlement *)

\* Defective: the version is left as it was.
settledKeepingVersion(d, st) ==
    [doc[d] EXCEPT !.state = st, !.token = 0, !.lease = 0,
        !.failures = IF st = "published" THEN @ ELSE @ + 1, !.wait = IF st = "retry_wait" THEN 1 ELSE @]

settled(d, st) ==
    [doc[d] EXCEPT !.state = st, !.token = 0, !.lease = 0, !.version = @ + 1,
        !.failures = IF st = "published" THEN @ ELSE @ + 1, !.wait = IF st = "retry_wait" THEN 1 ELSE @]

\* The fence of update.
matches(c) ==
    /\ doc[c.doc].token = c.token /\ doc[c.doc].version = c.version
    /\ doc[c.doc].state = "publishing" /\ doc[c.doc].lease > 0

\* A stale claim matches nothing: ErrStaleClaim.
update(c, st) == doc' = IF matches(c) THEN [doc EXCEPT ![c.doc] = settled(c.doc, st)] ELSE doc

\* ClaimDue quarantines invalid content; an error, a stale claim included, ends it.
QuarantineCorrupt(w) ==
    \E c \in worker[w].corrupt :
        /\ update(c, "quarantined")
        /\ worker' = [worker EXCEPT ![w] = IF matches(c) THEN [@ EXCEPT !.corrupt = {}] ELSE Idle]
        /\ UNCHANGED <<tx, claims, faults>>

\* The publish of a claim ends, confirmed or not: Confirm, Retry or Quarantine follows.
Publish(w) ==
    /\ worker[w].pc = "delivering"
    /\ \E c \in worker[w].held, st \in {"published", "retry_wait", "quarantined"} :
          /\ c.write = None
          /\ IF st = "published" THEN UNCHANGED faults ELSE Fault
          /\ worker' = [worker EXCEPT ![w].held = (@ \ {c}) \cup {[c EXCEPT !.write = st]}]
    /\ UNCHANGED <<doc, tx, claims>>

\* The settlement is written, or fails and is left to the lease.
Settle(w) ==
    \E c \in worker[w].held :
        /\ c.write # None
        /\ worker' = [worker EXCEPT ![w].held = @ \ {c}]
        /\ \/ update(c, c.write) /\ UNCHANGED faults
           \/ Fault /\ UNCHANGED doc
        /\ UNCHANGED <<tx, claims>>

BatchDone(w) ==
    /\ worker[w].pc = "delivering" /\ worker[w].held = {}
    /\ worker' = [worker EXCEPT ![w] = Idle] /\ UNCHANGED <<doc, tx, claims, faults>>

-----------------------------------------------------------------------------
(* Environment *)

Crash(w) ==
    /\ worker[w].pc # "idle" /\ Fault
    /\ worker' = [worker EXCEPT ![w] = Idle] /\ UNCHANGED <<doc, tx, claims>>

\* The stored content changes outside the SDK.
Rot(d) ==
    /\ doc[d].state # "absent" /\ doc[d].intact /\ Fault
    /\ doc' = [doc EXCEPT ![d].intact = FALSE] /\ UNCHANGED <<tx, worker, claims>>

less(n) == IF n = 0 THEN 0 ELSE n - 1

\* The server's clock; a worker that is overtaken by it is a fault.
Tick ==
    LET hold == UNION {worker[w].held \cup worker[w].corrupt : w \in Workers}
        aged(S) == {[c EXCEPT !.lease = less(@)] : c \in S}
    IN  /\ \E d \in Docs : doc[d].wait + doc[d].lease > 0
        /\ IF \E c \in hold : c.lease = 1 THEN Fault ELSE UNCHANGED faults
        /\ doc' = [d \in Docs |-> [doc[d] EXCEPT !.wait = less(@), !.lease = less(@)]]
        /\ worker' = [w \in Workers |-> [worker[w] EXCEPT !.held = aged(@), !.corrupt = aged(@)]]
        /\ UNCHANGED <<tx, claims>>

WorkerStep(w) ==
    \/ ClaimBegin(w) \/ FindOneAndUpdate(w) \/ ClaimFails(w) \/ ClaimEnds(w)
    \/ QuarantineCorrupt(w) \/ Publish(w) \/ Settle(w) \/ BatchDone(w)

Next ==
    \/ \E t \in Txs : EndTx(t) \/ \E d \in Docs, p \in Prints : Append(t, d, p)
    \/ \E w \in Workers : WorkerStep(w) \/ Crash(w)
    \/ Tick \/ \E d \in Docs : Rot(d)

Spec == Init /\ [][Next]_vars

\* Relays are run, time passes.
Fairness == WF_vars(Tick) /\ \A w \in Workers : WF_vars(WorkerStep(w)) /\ SF_vars(FindOneAndUpdate(w))

FairSpec == Spec /\ Fairness

-----------------------------------------------------------------------------
(* Properties *)

TypeOK ==
    /\ \A d \in Docs : doc[d].state \in {"absent", "pending", "retry_wait", "publishing",
                                         "published", "quarantined"}
    /\ \A w \in Workers : worker[w].i \in 0..Limit /\ Cardinality(worker[w].held) <= Limit
    /\ faults \in 0..MaxFaults

\* The lease excludes: no two claims of a document run at the same time, whichever
\* workers made them and whatever became of their claim loops.
OneHolder ==
    \A d \in Docs, v, w \in Workers :
        \A b \in worker[v].held, c \in worker[w].held :
            b.doc = d /\ c.doc = d /\ b.lease > 0 /\ c.lease > 0 => v = w /\ b = c

\* version moves with every claim and every settlement and with nothing else, so
\* that a version names one state of the document; attempts counts the claims.
VersionAccounts ==
    \A d \in Docs :
        LET over == doc[d].failures + (IF doc[d].state = "published" THEN 1 ELSE 0)
        IN  /\ doc[d].attempts = claims[d]
            /\ doc[d].version = claims[d] + over

\* Append told the host nil and the host committed: the stored document has the
\* content the host appended, whichever transaction inserted it.
CommittedIsStored ==
    \A t \in Txs : tx[t].pc = "committed" =>
        doc[tx[t].doc].state # "absent" /\ doc[tx[t].doc].print = tx[t].print

\* Every committed document is published or quarantined in the end: a claim that was
\* made and never returned, or dropped with an error, is found again by its lease.
EventuallySettled ==
    \A d \in Docs : doc[d].state = "pending" ~> doc[d].state \in {"published", "quarantined"}
=============================================================================

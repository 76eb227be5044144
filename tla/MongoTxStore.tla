---------------------------- MODULE MongoTxStore ----------------------------
(***************************************************************************)
(* The transaction store in MongoDB (storage/transaction/mongo).  An       *)
(* execution and its witnesses are one document.  Single-document updates  *)
(* wait for a transaction that has written the document; transactions read *)
(* from a snapshot and fail with a write conflict when what they write was *)
(* written since, by a session still open or committed.  The store is      *)
(* shown to implement the operations of TxStore, on which the protocol and *)
(* its proofs rest.                                                        *)
(***************************************************************************)
EXTENDS Integers, FiniteSets

CONSTANTS
    Requests, NumBranches, MaxFence,
    Sessions,       \* sessions of the hosts and of the store's own transactions
    HalfOutcomes, FinalOutcomes,    \* receipts that are recorded
    Batch,          \* the limit ReconcileOnce is called with
    MaxStarts       \* bound: sessions begun

MongoTxAssumption ==
    /\ HalfOutcomes \subseteq {"prepared", "rejected", "unknown"}
    /\ FinalOutcomes \subseteq {"commit", "rollback", "unknown"} /\ MaxStarts \in Nat /\ Batch \in Nat \ {0}

Branches == 1..NumBranches
Executions == Requests \X (1..MaxFence)

VARIABLES
    root,       \* rm_tx_request: active_execution, by fence, 0 without a document
    ex,         \* rm_tx_execution
    sess,       \* sessions: kind, stage, what they read, wrote, and what changed since
    found,      \* expired executions ReconcileOnce has yet to abort
    granted,    \* history: callers that received the capability, by execution
    starts

vars == <<root, ex, sess, found, granted, starts>>

NoDoc == [state |-> "absent", started |-> FALSE, live |-> FALSE, version |-> 0,
          wit |-> [b \in Branches |-> "absent"], half |-> [b \in Branches |-> "not_attempted"],
          final |-> [b \in Branches |-> "not_attempted"]]
Closed == [kind |-> "none", stage |-> "closed", e |-> <<>>, version |-> 0, wrote |-> {}, stale |-> {}]

Init ==
    /\ root = [q \in Requests |-> 0] /\ ex = [e \in Executions |-> NoDoc]
    /\ sess = [s \in Sessions |-> Closed] /\ found = {}
    /\ granted = [e \in Executions |-> 0] /\ starts = 0

-----------------------------------------------------------------------------
(* Documents, snapshots and conflicts; a request is a document too *)

all(D, st) == \A b \in Branches : D.wit[b] = st
entered(D, st) == [D EXCEPT !.state = st, !.wit = [b \in Branches |-> st]]
locked(d) == \E s \in Sessions : d \in sess[s].wrote
conflict(s, D) == D \cap sess[s].stale # {} \/ \E d \in D : locked(d)

\* Sessions that are open, with the documents of D written under their snapshots.
aged(S, D) == [s \in Sessions |-> IF S[s].stage = "closed" THEN S[s]
                                  ELSE [S[s] EXCEPT !.stale = @ \cup D]]

\* A single-document update outside any transaction.
updateOne(e, D) ==
    /\ ~locked(e) /\ ex' = [ex EXCEPT ![e] = D] /\ sess' = aged(sess, {e})

\* protocolTx, or the host's WithTransaction: the snapshot of an open session.
begin(s, kind, stage, e) ==
    /\ sess[s].stage = "closed" /\ starts < MaxStarts /\ starts' = starts + 1
    /\ sess' = [sess EXCEPT ![s] = [Closed EXCEPT !.kind = kind, !.stage = stage, !.e = e]]

-----------------------------------------------------------------------------
(* Reserve, Retry and Replan *)

\* newDoc: the witnesses are prepared and the lease runs from the server's clock.
newDoc == [entered(NoDoc, "prepared") EXCEPT !.live = TRUE]

\* lookupIn finds the request: the reservation without a capability.
Reserve(s, q) ==
    /\ begin(s, "reserve", IF root[q] = 0 THEN "write" ELSE "closed", <<q, 1>>)
    /\ UNCHANGED <<root, ex, found, granted>>

\* Evidence, one per reference of the plan.
Evidence(e, b) == <<ex[e].state, ex[e].wit[b]>>

\* Defective: the bound of the fence is off by one.
advanceOverflow(s, e) ==
    /\ root[e[1]] = e[2] /\ e[2] <= MaxFence
    /\ \A b \in Branches : Evidence(e, b) = <<"aborted", "aborted">>
    /\ begin(s, "advance", "write", <<e[1], e[2] + 1>>)
    /\ UNCHANGED <<root, ex, found, granted>>

\* The previous execution is the active one, and every branch of it aborted.
advance(s, e) ==
    /\ root[e[1]] = e[2] /\ e[2] < MaxFence
    /\ \A b \in Branches : Evidence(e, b) = <<"aborted", "aborted">>
    /\ begin(s, "advance", "write", <<e[1], e[2] + 1>>)
    /\ UNCHANGED <<root, ex, found, granted>>

\* Defective: the documents are written whatever was written since the snapshot.
InsertBlindly(s) ==
    /\ sess[s].kind \in {"reserve", "advance"} /\ sess[s].stage = "write"
    /\ sess' = [sess EXCEPT ![s].stage = "commit", ![s].wrote = {sess[s].e, sess[s].e[1]}]
    /\ UNCHANGED <<root, ex, found, granted, starts>>

\* The request and the execution are written, or a conflict, a duplicate key or a
\* request that has moved on ends the transaction.
Insert(s) ==
    LET D == {sess[s].e, sess[s].e[1]}
    IN  /\ sess[s].kind \in {"reserve", "advance"} /\ sess[s].stage = "write"
        /\ sess' = [sess EXCEPT ![s] = IF conflict(s, D) THEN Closed
                                       ELSE [@ EXCEPT !.stage = "commit", !.wrote = D]]
        /\ UNCHANGED <<root, ex, found, granted, starts>>

\* COMMIT of a reservation; the answer, with the capability, may be lost.
CommitInsert(s) ==
    LET e == sess[s].e
    IN  /\ sess[s].kind \in {"reserve", "advance"} /\ sess[s].stage = "commit"
        /\ root' = [root EXCEPT ![e[1]] = e[2]] /\ ex' = [ex EXCEPT ![e] = newDoc]
        /\ sess' = aged([sess EXCEPT ![s] = Closed], {e, e[1]})
        /\ \E n \in 0..1 : granted' = [granted EXCEPT ![e] = @ + n]
        /\ UNCHANGED <<found, starts>>

-----------------------------------------------------------------------------
(* Single-document updates *)

\* The owner's filters hold the token of the execution.
BeginPrepare(e) ==
    /\ granted[e] > 0 /\ ex[e].state = "prepared" /\ ~ex[e].started /\ ex[e].live
    /\ updateOne(e, [ex[e] EXCEPT !.started = TRUE])
    /\ UNCHANGED <<root, found, granted, starts>>

\* Defective: a document that a transaction has written is not waited for.
abortUnlocked(e) ==
    /\ ex[e].state = "prepared" /\ all(ex[e], "prepared")
    /\ ex' = [ex EXCEPT ![e] = entered(ex[e], "aborted")] /\ UNCHANGED sess

abort(e) ==
    /\ ex[e].state = "prepared" /\ all(ex[e], "prepared")
    /\ updateOne(e, [entered(ex[e], "aborted") EXCEPT !.version = @ + 1])

Abort(e) == granted[e] > 0 /\ abort(e) /\ UNCHANGED <<root, found, granted, starts>>

\* SetLimit: the Batch documents of D whose leases ended first, or all of D; the order
\* in which leases end is left open.
limited(D) == {F \in SUBSET D : Cardinality(F) <= Batch /\ (F = D \/ Cardinality(F) = Batch)}

\* Defective: executions that were admitted to the broker are left to their owner.
ReconcileFindUnstarted ==
    /\ found = {}
    /\ found' \in limited({e \in Executions : ex[e].state = "prepared" /\ ~ex[e].live /\ ~ex[e].started})
    /\ found' # {} /\ UNCHANGED <<root, ex, sess, granted, starts>>

\* ReconcileOnce: what is expired is read once, and aborted one by one later.
ReconcileFind ==
    /\ found = {} /\ found' \in limited({e \in Executions : ex[e].state = "prepared" /\ ~ex[e].live})
    /\ found' # {} /\ UNCHANGED <<root, ex, sess, granted, starts>>

ReconcileAbort(e) ==
    /\ e \in found /\ found' = found \ {e} /\ ~ locked(e)
    /\ IF ex[e].state = "prepared" /\ ~ex[e].live THEN abort(e) ELSE UNCHANGED <<ex, sess>>
    /\ UNCHANGED <<root, granted, starts>>

\* A document that does not decode, or an update that fails, ends ReconcileOnce: what it
\* had found after it is left to the next call.
ReconcileFails ==
    /\ found # {} /\ found' = {} /\ UNCHANGED <<root, ex, sess, granted, starts>>

\* Defective: a late unknown outcome replaces a positive one.
receiptFilterAny(old, new) == old \in {"not_attempted", "unknown", new} \/ new = "unknown"

\* The filter of a receipt: nothing on record, unknown, or the same outcome.
receiptFilter(old, new) == old \in {"not_attempted", "unknown", new}

RecordHalf(e, b, h) ==
    /\ granted[e] > 0 /\ ex[e].state = "prepared" /\ ex[e].wit[b] = "prepared" /\ receiptFilter(ex[e].half[b], h)
    /\ updateOne(e, [ex[e] EXCEPT !.half[b] = h]) /\ UNCHANGED <<root, found, granted, starts>>

\* The states a final outcome may be recorded in.
vouched(f) == CASE f = "commit" -> {"committed"} [] f = "rollback" -> {"aborted"}
                [] OTHER -> {"committed", "aborted"}

RecordFinal(e, b, f) ==
    /\ granted[e] > 0 /\ ex[e].state \in vouched(f) /\ ex[e].wit[b] = ex[e].state /\ receiptFilter(ex[e].final[b], f)
    /\ updateOne(e, [ex[e] EXCEPT !.final[b] = f]) /\ UNCHANGED <<root, found, granted, starts>>

\* RecordRecoveryFinal reads in a snapshot and writes under it: a conflict ends it.
RecoveryRead(s, e, b, f) ==
    /\ f # "unknown" /\ ex[e].state \in vouched(f) /\ ex[e].wit[b] = ex[e].state
    /\ receiptFilter(ex[e].final[b], f) /\ ex[e].final[b] # f
    /\ begin(s, "recovery", "write", <<e, b, f>>) /\ UNCHANGED <<root, ex, found, granted>>

RecoveryWrite(s) ==
    LET e == sess[s].e[1]
    IN  /\ sess[s].kind = "recovery" /\ sess[s].stage = "write"
        /\ IF conflict(s, {e}) THEN UNCHANGED ex /\ sess' = [sess EXCEPT ![s] = Closed]
           ELSE /\ ex' = [ex EXCEPT ![e].final[sess[s].e[2]] = sess[s].e[3]]
                /\ sess' = [aged(sess, {e}) EXCEPT ![s] = Closed]
        /\ UNCHANGED <<root, found, granted, starts>>

-----------------------------------------------------------------------------
(* The guard in the host's transaction *)

HostBegins(s, e) ==
    /\ granted[e] > 0 /\ begin(s, "host", "open", e) /\ UNCHANGED <<root, ex, found, granted>>

\* Bind: guard_version is advanced under the snapshot, which makes any other
\* writer wait, or this transaction conflict.
Bind(s) ==
    LET e == sess[s].e
    IN  /\ sess[s].kind = "host" /\ sess[s].stage = "open"
        /\ sess' = [sess EXCEPT ![s] =
              IF ~conflict(s, {e}) /\ ex[e].state = "prepared" /\ ex[e].live /\ all(ex[e], "prepared")
              THEN [@ EXCEPT !.stage = "bound", !.wrote = {e}, !.version = ex[e].version + 1]
              ELSE Closed]
        /\ UNCHANGED <<root, ex, found, granted, starts>>

\* state, token and guard_version still match: nobody else can have written them.
CommitWitness(s) ==
    /\ sess[s].stage = "bound" /\ ex[sess[s].e].state = "prepared"
    /\ ex[sess[s].e].version + 1 = sess[s].version
    /\ sess' = [sess EXCEPT ![s].stage = "staged"] /\ UNCHANGED <<root, ex, found, granted, starts>>

HostCommitSent(s) ==
    /\ sess[s].stage = "staged" /\ sess' = [sess EXCEPT ![s].stage = "committing"]
    /\ UNCHANGED <<root, ex, found, granted, starts>>

HostCommitDone(s) ==
    LET e == sess[s].e
    IN  /\ sess[s].stage = "committing"
        /\ ex' = [ex EXCEPT ![e] = [entered(@, "committed") EXCEPT !.version = sess[s].version]]
        /\ sess' = aged([sess EXCEPT ![s] = Closed], {e}) /\ UNCHANGED <<root, found, granted, starts>>

\* Any session ends without its commit: error, timeout, crash, or the host's will.
SessionEnds(s) ==
    /\ sess[s].stage # "closed" /\ sess' = [sess EXCEPT ![s] = Closed]
    /\ UNCHANGED <<root, ex, found, granted, starts>>

\* The server's clock passes lease_until.
Expire(e) ==
    /\ ex[e].live /\ ex' = [ex EXCEPT ![e].live = FALSE]
    /\ UNCHANGED <<root, sess, found, granted, starts>>

-----------------------------------------------------------------------------
SessionStep(s) ==
    \/ Insert(s) \/ CommitInsert(s) \/ RecoveryWrite(s) \/ Bind(s) \/ CommitWitness(s)
    \/ HostCommitSent(s) \/ HostCommitDone(s) \/ SessionEnds(s)

Next ==
    \/ \E s \in Sessions : SessionStep(s) \/ \E q \in Requests : Reserve(s, q)
    \/ \E s \in Sessions, e \in Executions :
          \/ advance(s, e) \/ HostBegins(s, e)
          \/ \E b \in Branches, f \in FinalOutcomes : RecoveryRead(s, e, b, f)
    \/ \E e \in Executions :
          \/ BeginPrepare(e) \/ Abort(e) \/ ReconcileAbort(e) \/ Expire(e)
          \/ \E b \in Branches : \/ \E h \in HalfOutcomes : RecordHalf(e, b, h)
                                 \/ \E f \in FinalOutcomes : RecordFinal(e, b, f)
    \/ ReconcileFind \/ ReconcileFails

Spec == Init /\ [][Next]_vars

\* Sessions end (protocolTx has five seconds, the host a deadline), leases run out
\* and the reconciler is run; it does not fail before the same execution every time.
Fairness ==
    /\ WF_vars(ReconcileFind) /\ \A s \in Sessions : WF_vars(SessionStep(s))
    /\ \A e \in Executions : WF_vars(Expire(e)) /\ SF_vars(ReconcileAbort(e))

FairSpec == Spec /\ Fairness

-----------------------------------------------------------------------------
(* Properties *)

TypeOK ==
    /\ root \in [Requests -> 0..MaxFence] /\ starts \in 0..MaxStarts /\ found \subseteq Executions
    /\ \A s \in Sessions : sess[s].stage \in {"closed", "open", "write", "commit", "bound",
                                              "staged", "committing"}

\* The state of the host's transaction on an execution, as TxStore has it.
hostTxOf(e) ==
    IF \E s \in Sessions : sess[s].kind = "host" /\ e \in sess[s].wrote
    THEN (CHOOSE r \in {sess[s] : s \in Sessions} : r.kind = "host" /\ e \in r.wrote).stage
    ELSE "none"

Store == INSTANCE TxStore WITH
    active <- root,
    state <- [e \in Executions |-> ex[e].state],
    started <- {e \in Executions : ex[e].started},
    live <- {e \in Executions : ex[e].live},
    wit <- [s \in Executions \X Branches |-> ex[s[1]].wit[s[2]]],
    half <- [s \in Executions \X Branches |-> ex[s[1]].half[s[2]]],
    final <- [s \in Executions \X Branches |-> ex[s[1]].final[s[2]]],
    hostTx <- [e \in Executions |-> hostTxOf(e)]

StoreStep ==
    \/ \E q \in Requests : Store!Reserve(q)
    \/ \E e \in Executions :
          \/ Store!Advance(e) \/ Store!BeginPrepare(e) \/ Store!Abort(e) \/ Store!Expire(e)
          \/ Store!Bind(e) \/ Store!CommitWitness(e)
          \/ Store!HostCommitSent(e) \/ Store!HostCommitDone(e) \/ Store!HostRolledBack(e)
          \/ \E b \in Branches : \/ \E h \in HalfOutcomes : Store!RecordHalf(e, b, h)
                                 \/ \E f \in FinalOutcomes : Store!RecordFinal(e, b, f)

\* The documents, seen as the rows of TxStore, start and change only as one of its
\* operations changes them: snapshots and conflicts give what row locks give.
RefinesTxStore == Store!StoreInit /\ [][StoreStep]_(Store!storeVars)

\* A capability is handed out once per execution, however many callers race to
\* reserve or advance the request.
OneCapability == \A e \in Executions : granted[e] <= 1

\* Every execution is decided once its lease is over: no session keeps it prepared.
ExpiredAreDecided ==
    \A e \in Executions : ex[e].state = "prepared" ~> ex[e].state \in {"committed", "aborted"}
=============================================================================

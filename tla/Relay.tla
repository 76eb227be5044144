------------------------------- MODULE Relay -------------------------------
(***************************************************************************)
(* relay.Relay processes over one leased Outbox: each Run claims a bounded *)
(* batch, delivers the claims concurrently, settles every one with its own *)
(* fenced write, and starts over.  Several relays share the table; one may *)
(* be cancelled, crash and be started again by its host.                   *)
(*                                                                         *)
(* claim[t] is the life of the claim that drew token t.  A settlement is   *)
(* two steps, because the lease comparison uses the timestamp at which the *)
(* statement started while the row is read when its lock is granted.  A    *)
(* statement whose caller timed out or died ("abandoned") may still run.   *)
(*                                                                         *)
(* slips counts everything that goes wrong: crashes, lost replies, slow    *)
(* steps that outlive a lease, locked rows a scan skips, publishes that    *)
(* are not confirmed, rot, cancellations.  Bounding it by MaxSlips bounds  *)
(* the model and states the condition under which delivery is promised at  *)
(* all.                                                                    *)
(***************************************************************************)
EXTENDS OutboxStore

CONSTANTS
  Relays,        \* relay instances
  Concurrency,   \* Config.Concurrency: claims of one batch
  MaxSlips,      \* bound on slips
  MaxReplays     \* bound on host authorizations to replay

ASSUME RelayAssumption ==
  /\ Concurrency \in Nat \ {0}
  /\ MaxSlips \in Nat
  /\ MaxReplays \in Nat

VARIABLES
  run,           \* where each relay's Run stands
  cancelled,     \* whether its context is done
  claim,         \* the claims, by token
  accepted,      \* messages the broker took (external)
  authorized,    \* <<record, version>> replay decisions of the host
  ledger,        \* history: settlements, lapsed claims and replays per record
  slips

vars == <<row, drawn, run, cancelled, claim, accepted, authorized, ledger, slips>>

\* Stages in which the relay still works on the claim, and in which a
\* statement of the claim may still reach the table.
Working == {"claimed", "publishing", "taken", "settling", "writing"}

Live == Working \cup {"abandoned"}

Writes == {"none", "confirm", "retry", "quarantine"}

Claim ==
  [stage: Live \cup {"none"}, relay: Relays \cup {"none"}, rec: Records \cup {"none"},
   version: Nat, lease: Nat, write: Writes, stamp: BOOLEAN]

NoClaim ==
  [stage |-> "none", relay |-> "none", rec |-> "none", version |-> 0, lease |-> 0,
   write |-> "none", stamp |-> FALSE]

AtStage(c, stage) == [c EXCEPT !.stage = stage]

History == [settled: Nat, lapsed: Nat, rotten: Nat, replays: Nat]

NoHistory == [settled |-> 0, lapsed |-> 0, rotten |-> 0, replays |-> 0]

Replayed(h) == [h EXCEPT !.replays = @ + 1]

SettledOnceMore(h) == [h EXCEPT !.settled = @ + 1]

RunStates == {"stopped", "scanning", "delivering", "delivering_full", "waiting"}

TypeOK ==
  /\ row \in [Records -> Row]
  /\ drawn \in 0 .. MaxClaims
  /\ run \in [Relays -> RunStates]
  /\ cancelled \in [Relays -> BOOLEAN]
  /\ claim \in [Tokens -> Claim]
  /\ accepted \in SUBSET Records
  /\ authorized \in SUBSET (Records \X Nat)
  /\ ledger \in [Records -> History]
  /\ slips \in 0 .. MaxSlips

Init ==
  /\ StoreInit
  /\ run = [w \in Relays |-> "stopped"]
  /\ cancelled = [w \in Relays |-> FALSE]
  /\ claim = [t \in Tokens |-> NoClaim]
  /\ accepted = {}
  /\ authorized = {}
  /\ ledger = [r \in Records |-> NoHistory]
  /\ slips = 0

Slip == slips < MaxSlips /\ slips' = slips + 1

Owned(w, stages) == {t \in Tokens : claim[t].relay = w /\ claim[t].stage \in stages}

----------------------------------------------------------------------------
\* The host around the SDK.

\* The host transaction with an Append commits.
HostAppend(r) ==
  /\ \E wait \in Delays : Append(r, wait)
  /\ UNCHANGED <<run, cancelled, claim, accepted, authorized, ledger, slips>>

\* The host decides to replay a confirmed row it has read.
HostAuthorize(r) ==
  /\ row[r].state = "published"
  /\ Cardinality(authorized) < MaxReplays
  /\ authorized' = authorized \cup {<<r, row[r].version>>}
  /\ UNCHANGED <<row, drawn, run, cancelled, claim, accepted, ledger, slips>>

\* The host transaction that carries out a decision commits.  The decision is
\* kept: a host that lost the reply submits it again.
HostRequeue(r, version) ==
  /\ <<r, version>> \in authorized
  /\ RequeueConfirmed(r, version)
  /\ ledger' = [ledger EXCEPT ![r] = Replayed(@)]
  /\ UNCHANGED <<run, cancelled, claim, accepted, authorized, slips>>

\* The supervisor calls Run with a fresh context.
Start(w) ==
  /\ run[w] = "stopped"
  /\ run' = [run EXCEPT ![w] = "scanning"]
  /\ cancelled' = [cancelled EXCEPT ![w] = FALSE]
  /\ UNCHANGED <<row, drawn, claim, accepted, authorized, ledger, slips>>

\* The context of a running Run is cancelled.
Cancel(w) ==
  /\ run[w] # "stopped"
  /\ ~cancelled[w]
  /\ Slip
  /\ cancelled' = [cancelled EXCEPT ![w] = TRUE]
  /\ UNCHANGED <<row, drawn, run, claim, accepted, authorized, ledger>>

----------------------------------------------------------------------------
\* Run.

\* What the claiming transaction can select: due rows up to the limit.  Rows
\* whose due time has passed are equally due in this model.
Batches == {b \in SUBSET {r \in Records : Due(r)} : Cardinality(b) <= Concurrency}

\* It leaves room for a due row: somebody held the lock (SKIP LOCKED).
Skipped(batch) ==
  /\ Cardinality(batch) < Concurrency
  /\ \E r \in Records \ batch : Due(r)

\* History of a claiming transaction: expired claims it takes over, and
\* corrupt rows it sets aside.
Tally(batch, good) ==
  [r \in Records |->
     [ledger[r] EXCEPT
        !.lapsed = @ + (IF r \in batch /\ row[r].state = "publishing" THEN 1 ELSE 0),
        !.rotten = @ + (IF r \in batch \ good THEN 1 ELSE 0)]]

Granted(w, r, l) ==
  [NoClaim EXCEPT !.stage = "claimed", !.relay = w, !.rec = r,
                  !.version = row[r].version + 1, !.lease = l]

\* The claims a transaction hands to relay w.
Handed(w, good, tok, l) ==
  [t \in Tokens |->
     IF \E r \in good : tok[r] = t
     THEN Granted(w, CHOOSE r \in good : tok[r] = t, l)
     ELSE claim[t]]

\* ClaimDue commits and its claims arrive; the lease may already have run down
\* if the transaction was slow.
Scan(w) ==
  /\ run[w] = "scanning"
  /\ ~cancelled[w]
  /\ \E batch \in Batches, l \in 0 .. Lease :
       LET good == {r \in batch : row[r].intact} IN
       /\ drawn + Cardinality(good) <= MaxClaims
       /\ IF l < Lease \/ Skipped(batch) THEN Slip ELSE UNCHANGED slips
       /\ \E tok \in FreshTokens(good) :
            /\ ClaimDue(batch, good, tok, l)
            /\ claim' = Handed(w, good, tok, l)
       /\ ledger' = Tally(batch, good)
       /\ run' = [run EXCEPT ![w] = IF Cardinality(good) = Concurrency
                                    THEN "delivering_full" ELSE "delivering"]
  /\ UNCHANGED <<cancelled, accepted, authorized>>

\* ClaimDue fails and Run returns.  The transaction rolled back, or committed
\* while the reply was lost: then nobody holds the claims.
ScanFails(w) ==
  /\ run[w] = "scanning"
  /\ ~cancelled[w]
  /\ Slip
  /\ run' = [run EXCEPT ![w] = "stopped"]
  /\ \/ UNCHANGED <<row, drawn, ledger>>
     \/ \E batch \in Batches :
          LET good == {r \in batch : row[r].intact} IN
          /\ drawn + Cardinality(good) <= MaxClaims
          /\ \E tok \in FreshTokens(good) : ClaimDue(batch, good, tok, Lease)
          /\ ledger' = Tally(batch, good)
  /\ UNCHANGED <<cancelled, claim, accepted, authorized>>

\* A delivery goroutine starts, unless the context is done by then.
Launch(t) ==
  /\ claim[t].stage = "claimed"
  /\ ~cancelled[claim[t].relay]
  /\ claim' = [claim EXCEPT ![t] = AtStage(@, "publishing")]
  /\ UNCHANGED <<row, drawn, run, cancelled, accepted, authorized, ledger, slips>>

\* All launched deliveries of the batch are over (wg.Wait).  Claims that were
\* not launched before the cancellation are dropped, their leases left to run
\* out.
BatchDone(w) ==
  /\ run[w] \in {"delivering", "delivering_full"}
  /\ Owned(w, Working \ {"claimed"}) = {}
  /\ Owned(w, {"claimed"}) # {} => cancelled[w]
  /\ run' = [run EXCEPT ![w] = IF cancelled[w] THEN "stopped"
                               ELSE IF @ = "delivering_full" THEN "scanning"
                               ELSE "waiting"]
  /\ claim' = [t \in Tokens |-> IF t \in Owned(w, {"claimed"}) THEN NoClaim ELSE claim[t]]
  /\ UNCHANGED <<row, drawn, cancelled, accepted, authorized, ledger, slips>>

\* The poll timer fires or a wake hint arrives.
Poll(w) ==
  /\ run[w] = "waiting"
  /\ run' = [run EXCEPT ![w] = "scanning"]
  /\ UNCHANGED <<row, drawn, cancelled, claim, accepted, authorized, ledger, slips>>

\* Run sees its context done and returns.
Return(w) ==
  /\ run[w] \in {"scanning", "waiting"}
  /\ cancelled[w]
  /\ run' = [run EXCEPT ![w] = "stopped"]
  /\ UNCHANGED <<row, drawn, cancelled, claim, accepted, authorized, ledger, slips>>

\* The process dies.  A statement on its way may still reach the database.
Crash(w) ==
  /\ run[w] # "stopped"
  /\ Slip
  /\ run' = [run EXCEPT ![w] = "stopped"]
  /\ claim' = [t \in Tokens |->
                 IF t \in Owned(w, {"writing"}) THEN AtStage(claim[t], "abandoned")
                 ELSE IF t \in Owned(w, Working) THEN NoClaim
                 ELSE claim[t]]
  /\ UNCHANGED <<row, drawn, cancelled, accepted, authorized, ledger>>

----------------------------------------------------------------------------
\* deliver.

\* The broker takes the message of a publish in flight.
BrokerAccept(t) ==
  /\ claim[t].stage = "publishing"
  /\ claim' = [claim EXCEPT ![t] = AtStage(@, "taken")]
  /\ accepted' = accepted \cup {claim[t].rec}
  /\ UNCHANGED <<row, drawn, run, cancelled, authorized, ledger, slips>>

Settling(c, write) == [c EXCEPT !.stage = "settling", !.write = write]

\* Publish returns.  Confirmed needs the broker's acceptance of this very
\* publish, Rejected its refusal; Unknown says nothing.
PublishConfirmed(t) ==
  /\ claim[t].stage = "taken"
  /\ claim' = [claim EXCEPT ![t] = Settling(@, "confirm")]
  /\ UNCHANGED <<row, drawn, run, cancelled, accepted, authorized, ledger, slips>>

\* Defective variants of PublishUnconfirmed: an outcome outside the enumeration
\* is passed on; an Unknown counts as delivered.
PublishUnnormalized(t) ==
  /\ claim[t].stage \in {"publishing", "taken"}
  /\ Slip
  /\ \E write \in {"retry", "quarantine", "unset"} :
       claim' = [claim EXCEPT ![t] = Settling(@, write)]
  /\ UNCHANGED <<row, drawn, run, cancelled, accepted, authorized, ledger>>

PublishUnknownConfirms(t) ==
  /\ claim[t].stage \in {"publishing", "taken"}
  /\ Slip
  /\ claim' = [claim EXCEPT ![t] = Settling(@, "confirm")]
  /\ UNCHANGED <<row, drawn, run, cancelled, accepted, authorized, ledger>>

\* The host policy answers a Rejected or an Unknown with a delay, with
\* quarantine, or with neither: then nothing is written.  Whether the outcome
\* was Rejected or Unknown only changes the error code.
PublishUnconfirmed(t) ==
  /\ claim[t].stage \in {"publishing", "taken"}
  /\ Slip
  /\ \/ \E write \in {"retry", "quarantine"} :
          claim' = [claim EXCEPT ![t] = Settling(@, write)]
     \/ claim' = [claim EXCEPT ![t] = NoClaim]
  /\ UNCHANGED <<row, drawn, run, cancelled, accepted, authorized, ledger>>

Writing(c, stamp) == [c EXCEPT !.stage = "writing", !.stamp = stamp]

\* The settlement statement starts: its timestamp is fixed now.
StartWrite(t) ==
  /\ claim[t].stage = "settling"
  /\ claim' = [claim EXCEPT ![t] = Writing(@, row[claim[t].rec].lease > 0)]
  /\ UNCHANGED <<row, drawn, run, cancelled, accepted, authorized, ledger, slips>>

\* The row a settlement of claim c leaves behind.
Outcome(c, delay) ==
  CASE c.write = "confirm" -> ConfirmRow(row[c.rec])
    [] c.write = "retry" -> RetryRow(row[c.rec], delay)
    [] OTHER -> QuarantineRow(row[c.rec])

\* The statement runs, for a waiting caller or for one that is gone.
Write(t) ==
  LET c == claim[t] IN
  /\ c.stage \in {"writing", "abandoned"}
  /\ \E delay \in Delays : Update(c.rec, t, c.version, c.stamp, Outcome(c, delay))
  /\ claim' = [claim EXCEPT ![t] = NoClaim]
  /\ ledger' = IF Matches(c.rec, t, c.version, c.stamp)
               THEN [ledger EXCEPT ![c.rec] = SettledOnceMore(@)] ELSE ledger
  /\ UNCHANGED <<run, cancelled, accepted, authorized, slips>>

\* The write times out; the statement is still on its way.
WriteTimeout(t) ==
  /\ claim[t].stage = "writing"
  /\ Slip
  /\ claim' = [claim EXCEPT ![t] = AtStage(@, "abandoned")]
  /\ UNCHANGED <<row, drawn, run, cancelled, accepted, authorized, ledger>>

\* An abandoned statement never runs.
WriteLost(t) ==
  /\ claim[t].stage = "abandoned"
  /\ claim' = [claim EXCEPT ![t] = NoClaim]
  /\ UNCHANGED <<row, drawn, run, cancelled, accepted, authorized, ledger, slips>>

----------------------------------------------------------------------------
\* The environment.

TickedClaim(c) == [c EXCEPT !.lease = Ticked(@)]

\* A tick that ends the lease of a claim a relay still works on means that the
\* relay was slow: New requires Lease > PublishTimeout + WriteTimeout.
Tick ==
  /\ \E r \in Records : row[r].wait > 0 \/ row[r].lease > 0
  /\ IF \E t \in Tokens : claim[t].stage \in Working /\ claim[t].lease = 1
     THEN Slip ELSE UNCHANGED slips
  /\ StoreTick
  /\ claim' = [t \in Tokens |-> TickedClaim(claim[t])]
  /\ UNCHANGED <<run, cancelled, accepted, authorized, ledger>>

Damage(r) ==
  /\ Slip
  /\ Rot(r)
  /\ UNCHANGED <<run, cancelled, claim, accepted, authorized, ledger>>

Deliver(t) ==
  \/ Launch(t)
  \/ BrokerAccept(t)
  \/ PublishConfirmed(t)
  \/ StartWrite(t)
  \/ Write(t)

RelayStep(w) ==
  \/ Start(w)
  \/ Scan(w)
  \/ BatchDone(w)
  \/ Poll(w)
  \/ Return(w)

Next ==
  \/ \E r \in Records : HostAppend(r) \/ HostAuthorize(r) \/ Damage(r)
  \/ \E a \in authorized : HostRequeue(a[1], a[2])
  \/ \E w \in Relays : RelayStep(w) \/ Cancel(w) \/ ScanFails(w) \/ Crash(w)
  \/ \E t \in Tokens : Deliver(t) \/ PublishUnconfirmed(t) \/ WriteTimeout(t) \/ WriteLost(t)
  \/ Tick

Spec == Init /\ [][Next]_vars

\* Goroutines, the poll timer, the supervisor and the clock keep going; what
\* goes wrong is never required to happen.
FairSpec ==
  /\ Spec
  /\ WF_vars(Tick)
  /\ \A w \in Relays : WF_vars(RelayStep(w))
  /\ \A t \in Tokens : WF_vars(Deliver(t))

----------------------------------------------------------------------------
\* Two claims of one record never both have lease left, wherever their owners
\* and their statements are: ClaimDue hands a row out again only once the
\* database clock has passed lease_until.
ExclusiveLease ==
  \A t, u \in Tokens :
    (t # u /\ claim[t].stage \in Live /\ claim[u].stage \in Live /\ claim[t].rec = claim[u].rec)
      => claim[t].lease = 0 \/ claim[u].lease = 0

\* transport_confirmed_at is evidence: a record carries it only if the broker
\* accepted its message, across crashes, takeovers and late writes.
ConfirmedWasAccepted ==
  \A r \in Records : row[r].confirmed => r \in accepted

\* The counters of a row account for its whole history.  attempt_count: every
\* claim was settled once, lapsed once, or is outstanding.  failure_count: only
\* fenced settlements and corruption raise it, so late writes of old holders
\* spend none of the budget.  version: each change of ownership moved it by one.
CountersAccount ==
  \A r \in Records :
    LET x == row[r]  h == ledger[r]
        open == IF x.state = "publishing" THEN 1 ELSE 0 IN
    /\ x.attempts = h.settled + h.lapsed + open
    /\ x.failures <= h.settled + h.rotten
    /\ x.version = x.attempts + h.settled + h.rotten + h.replays

\* One authorization replays its record at most once, however often the host
\* submits it: the expected version is consumed by the first.
ReplayOncePerAuthorization ==
  \A r \in Records :
    ledger[r].replays <= Cardinality({a \in authorized : a[1] = r})

\* A quarantined row is never touched by a relay again, and a published one
\* only leaves that state through an authorization for its very version.
TerminalUntilAuthorized ==
  [][\A r \in Records :
       /\ row[r].state = "quarantined" => row'[r].state = "quarantined"
       /\ row[r].state = "published" /\ row'[r].state # "published"
            => <<r, row[r].version>> \in authorized]_vars

\* With finitely many slips every appended record is eventually published or
\* quarantined: claims dropped by cancellation, crash or a lost reply come back
\* by lease, and a corrupt row does not starve the rows behind it.
EventuallySettled ==
  \A r \in Records :
    row[r].state \in {"pending", "retry_wait", "publishing"}
      ~> row[r].state \in {"published", "quarantined"}
=============================================================================

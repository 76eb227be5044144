------------------------------- MODULE TxStore -------------------------------
(***************************************************************************)
(* The durable side of transactional publishing (storage/transaction):     *)
(* one row per request naming its active execution, one row per execution  *)
(* and one witness row per branch of it, in the host's own database.       *)
(*                                                                         *)
(* An execution is a pair <<request, fence>>; a slot <<execution, branch>> *)
(* stands for a witness row.  The variables hold committed values.  What a *)
(* host root transaction has written and not committed is hostTx: from     *)
(* Bind until its end it owns the execution row, and every statement that  *)
(* writes the row or locks it waits (hostTx[e] = "none" in its guard).     *)
(*                                                                         *)
(* The operators are the committed transactions of the store and constrain *)
(* the store's variables only.                                             *)
(***************************************************************************)
EXTENDS Integers

CONSTANTS
  Requests,     \* request identities (owner, scope, idempotency key)
  NumBranches,  \* branches of a plan, 1 .. NumBranches
  MaxFence      \* bound: executions of one request (MaxFence of the code is 2^63 - 1)

ASSUME TxAssumption ==
  /\ Requests # {}
  /\ NumBranches \in Nat \ {0}
  /\ MaxFence \in Nat \ {0}

VARIABLES
  active,       \* the fence of a request's active execution, 0 without a row
  state,        \* rm_tx_execution.state
  started,      \* executions with prepare_started
  live,         \* executions whose lease_until the database clock has not reached
  wit,          \* rm_tx_witness.state
  half,         \* rm_tx_witness.half_outcome
  final,        \* rm_tx_witness.final_outcome
  hostTx        \* the host root transaction on the execution row

storeVars == <<active, state, started, live, wit, half, final, hostTx>>

Branches == 1 .. NumBranches

Fences == 1 .. MaxFence

Executions == Requests \X Fences

Slots == Executions \X Branches

States == {"absent", "prepared", "committed", "aborted"}

Halves == {"not_attempted", "prepared", "rejected", "unknown"}

Finals == {"not_attempted", "commit", "rollback", "unknown"}

\* none; Bind holds the row; CommitWitness has staged every witness; COMMIT is
\* on its way and its outcome not known to the host.
HostTx == {"none", "bound", "staged", "committing"}

StoreTypeOK ==
  /\ active \in [Requests -> 0 .. MaxFence]
  /\ state \in [Executions -> States]
  /\ started \in SUBSET Executions
  /\ live \in SUBSET Executions
  /\ wit \in [Slots -> States]
  /\ half \in [Slots -> Halves]
  /\ final \in [Slots -> Finals]
  /\ hostTx \in [Executions -> HostTx]

StoreInit ==
  /\ active = [q \in Requests |-> 0]
  /\ state = [e \in Executions |-> "absent"]
  /\ started = {}
  /\ live = {}
  /\ wit = [s \in Slots |-> "absent"]
  /\ half = [s \in Slots |-> "not_attempted"]
  /\ final = [s \in Slots |-> "not_attempted"]
  /\ hostTx = [e \in Executions |-> "none"]

----------------------------------------------------------------------------
\* Both ends of an execution write the execution row and all its witnesses.
Enter(e, s) ==
  /\ state' = [state EXCEPT ![e] = s]
  /\ wit' = [w \in Slots |-> IF w[1] = e THEN s ELSE wit[w]]

\* Rows of a new execution, its lease running.
NewExecution(e) ==
  /\ active' = [active EXCEPT ![e[1]] = e[2]]
  /\ Enter(e, "prepared")
  /\ live' = live \cup {e}
  /\ UNCHANGED <<started, half, final, hostTx>>

\* The first request under an identity; a duplicate finds the row and gets no
\* capability.
Reserve(q) ==
  /\ active[q] = 0
  /\ NewExecution(<<q, 1>>)

\* Defective variant of Advance: an expired lease passes for an abort.
AdvanceExpired(e) ==
  /\ active[e[1]] = e[2]
  /\ e[2] < MaxFence
  /\ e \notin live
  /\ NewExecution(<<e[1], e[2] + 1>>)

\* A host-authorized successor of exactly this execution: it must be the active
\* one and durably aborted, in its row and in every witness.
Advance(e) ==
  /\ active[e[1]] = e[2]
  /\ e[2] < MaxFence
  /\ state[e] = "aborted"
  /\ \A b \in Branches : wit[<<e, b>>] = "aborted"
  /\ NewExecution(<<e[1], e[2] + 1>>)

\* Defective variant of CanBegin: a second start is not refused.
CanBeginAgain(e) == state[e] = "prepared" /\ e \in live /\ hostTx[e] = "none"

\* The one-shot admission of an execution to the broker.
CanBegin(e) == state[e] = "prepared" /\ e \notin started /\ e \in live /\ hostTx[e] = "none"

BeginPrepare(e) ==
  /\ CanBegin(e)
  /\ started' = started \cup {e}
  /\ UNCHANGED <<active, state, live, wit, half, final, hostTx>>

\* Defective variant of CanAbort: the row lock of the host transaction is not
\* waited for.
CanAbortUnguarded(e) == state[e] = "prepared"

\* Abort by the owner, or by the reconciler once the lease has run out.
CanAbort(e) ==
  /\ state[e] = "prepared"
  /\ hostTx[e] = "none"
  /\ \A b \in Branches : wit[<<e, b>>] = "prepared"

Abort(e) ==
  /\ CanAbort(e)
  /\ Enter(e, "aborted")
  /\ UNCHANGED <<active, started, live, half, final, hostTx>>

----------------------------------------------------------------------------
\* The guard in the host root transaction.
CanBind(e) ==
  /\ state[e] = "prepared"
  /\ e \in live
  /\ hostTx[e] = "none"
  /\ \A b \in Branches : wit[<<e, b>>] = "prepared"

Bind(e) ==
  /\ CanBind(e)
  /\ hostTx' = [hostTx EXCEPT ![e] = "bound"]
  /\ UNCHANGED <<active, state, started, live, wit, half, final>>

\* Everything is staged in the host transaction; the lease is not looked at
\* again.
CommitWitness(e) ==
  /\ hostTx[e] = "bound"
  /\ \A b \in Branches : wit[<<e, b>>] = "prepared"
  /\ state[e] = "prepared"
  /\ hostTx' = [hostTx EXCEPT ![e] = "staged"]
  /\ UNCHANGED <<active, state, started, live, wit, half, final>>

\* The host sends COMMIT; the database carries it out, or ends the transaction
\* without it (rollback, lost session).
HostCommitSent(e) ==
  /\ hostTx[e] = "staged"
  /\ hostTx' = [hostTx EXCEPT ![e] = "committing"]
  /\ UNCHANGED <<active, state, started, live, wit, half, final>>

HostCommitDone(e) ==
  /\ hostTx[e] = "committing"
  /\ hostTx' = [hostTx EXCEPT ![e] = "none"]
  /\ Enter(e, "committed")
  /\ UNCHANGED <<active, started, live, half, final>>

HostRolledBack(e) ==
  /\ hostTx[e] # "none"
  /\ hostTx' = [hostTx EXCEPT ![e] = "none"]
  /\ UNCHANGED <<active, state, started, live, wit, half, final>>

----------------------------------------------------------------------------
\* Audit receipts.  A positive receipt is never replaced by another value.
CanRecordHalf(e, b, h) ==
  /\ hostTx[e] = "none"
  /\ state[e] = "prepared"
  /\ wit[<<e, b>>] = state[e]
  /\ half[<<e, b>>] \in {"not_attempted", "unknown", h}

RecordHalf(e, b, h) ==
  /\ CanRecordHalf(e, b, h)
  /\ half' = [half EXCEPT ![<<e, b>>] = h]
  /\ UNCHANGED <<active, state, started, live, wit, final, hostTx>>

\* The state a final outcome vouches for.
Vouches(f, s) ==
  /\ f = "commit" => s = "committed"
  /\ f = "rollback" => s = "aborted"

\* Defective variant of CanRecordFinal: the receipt on record is not looked at.
CanOverwriteFinal(e, b, f) ==
  /\ hostTx[e] = "none"
  /\ state[e] \in {"committed", "aborted"}
  /\ wit[<<e, b>>] = state[e]
  /\ Vouches(f, state[e])

CanRecordFinal(e, b, f) ==
  /\ hostTx[e] = "none"
  /\ state[e] \in {"committed", "aborted"}
  /\ wit[<<e, b>>] = state[e]
  /\ Vouches(f, state[e])
  /\ final[<<e, b>>] \in {"not_attempted", "unknown", f}

\* RecordFinal of the owner, and RecordRecoveryFinal of a check that holds no
\* capability: the same conditions on the rows.
RecordFinal(e, b, f) ==
  /\ CanRecordFinal(e, b, f)
  /\ final' = [final EXCEPT ![<<e, b>>] = f]
  /\ UNCHANGED <<active, state, started, live, wit, half, hostTx>>

\* The database clock passes lease_until.
Expire(e) ==
  /\ e \in live
  /\ live' = live \ {e}
  /\ UNCHANGED <<active, state, started, wit, half, final, hostTx>>

----------------------------------------------------------------------------
\* Defective variant of Resolve: no proof of commitment counts as an abort.
ResolveAbsence(s, w) == IF s = "committed" /\ w = "committed" THEN "committed" ELSE "aborted"

\* Defective variant of Resolve: a prepared execution passes for an outcome.
ResolveAnyState(s, w) == IF s = w THEN s ELSE "unknown"

\* Defective variant of Resolve: a committed execution is not recognised.
ResolveAbortsOnly(s, w) == IF s = "aborted" /\ w = "aborted" THEN s ELSE "unknown"

\* What one read of an execution row and a witness row proves.
Resolve(s, w) ==
  IF s = w /\ s \in {"committed", "aborted"} THEN s ELSE "unknown"

\* A fresh committed read of both rows of a slot (Evidence, then Resolve).
Evidence(e, b) == Resolve(state[e], wit[<<e, b>>])
=============================================================================

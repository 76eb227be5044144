----------------------------- MODULE SqlTxStore -----------------------------
(***************************************************************************)
(* The transaction store of the Python SDK (transaction_mysql.py), one     *)
(* statement at a time.  Every method is a session that runs statements,   *)
(* each of which locks rows, looks at their committed values and goes on   *)
(* or raises (which rolls back); COMMIT applies what was written.  A task  *)
(* may be cancelled at any await.  The store is shown to implement the     *)
(* operations of TxStore, and its methods never to wait for one another in *)
(* a cycle.                                                                *)
(***************************************************************************)
EXTENDS Integers, Sequences, FiniteSets

CONSTANTS
    Requests, NumBranches, MaxFence,
    Sessions,                       \* database sessions
    HalfOutcomes, FinalOutcomes,    \* receipts that are recorded
    Batch,                          \* the limit of reconcile_once
    MaxStarts                       \* bound: sessions begun

SqlTxAssumption ==
    /\ HalfOutcomes \subseteq {"prepared", "rejected", "unknown"}
    /\ FinalOutcomes \subseteq {"commit", "rollback", "unknown"} /\ MaxStarts \in Nat /\ Batch \in Nat \ {0}

Branches == 1..NumBranches
Executions == Requests \X (1..MaxFence)

VARIABLES
    root,       \* rm_tx_request: active_execution, by fence, 0 without a row
    ex,         \* rm_tx_execution, with its rm_tx_witness rows
    sess,       \* sessions: method, its arguments, statements done, rows locked
    found,      \* expired executions reconcile_once has yet to abort
    granted,    \* history: callers that received the capability, by execution
    starts

vars == <<root, ex, sess, found, granted, starts>>

NoRow == [state |-> "absent", started |-> FALSE, live |-> FALSE,
          wit |-> [b \in Branches |-> "absent"], half |-> [b \in Branches |-> "not_attempted"],
          final |-> [b \in Branches |-> "not_attempted"]]
Closed == [op |-> "none", e |-> <<>>, b |-> 0, val |-> "", i |-> 0, locks |-> {}, sent |-> FALSE]

Init ==
    /\ root = [q \in Requests |-> 0] /\ ex = [e \in Executions |-> NoRow]
    /\ sess = [s \in Sessions |-> Closed] /\ found = {}
    /\ granted = [e \in Executions |-> 0] /\ starts = 0

-----------------------------------------------------------------------------
(* The statements of each method: the rows they lock, what they look at, and *)
(* what COMMIT makes of the session                                          *)

W(e) == {<<e, b>> : b \in Branches}
all(e, st) == \A b \in Branches : ex[e].wit[b] = st
entered(D, st) == [D EXCEPT !.state = st, !.wit = [b \in Branches |-> st]]

\* Defective: the witnesses are aborted before the execution row.
rowsWitnessFirst(r) ==
    CASE r.op = "reserve" -> <<{r.e[1]}, {r.e}, W(r.e)>>
      [] r.op = "advance" -> <<{r.e[1]}, {<<r.e[1], r.e[2] + 1>>}, W(<<r.e[1], r.e[2] + 1>>)>>
      [] r.op = "begin_prepare" -> <<{r.e}>>
      [] r.op \in {"abort", "expired"} -> <<W(r.e), {r.e}>>
      [] r.op \in {"half", "final"} -> <<{r.e}, {<<r.e, r.b>>}>>
      [] r.op = "host" -> <<{r.e}, W(r.e), {r.e}>>

\* Execution row before witness rows, everywhere; commit_witness writes the
\* witnesses first, under the lock that bind took.
rows(r) ==
    CASE r.op = "reserve" -> <<{r.e[1]}, {r.e}, W(r.e)>>
      [] r.op = "advance" -> <<{r.e[1]}, {<<r.e[1], r.e[2] + 1>>}, W(<<r.e[1], r.e[2] + 1>>)>>
      [] r.op = "begin_prepare" -> <<{r.e}>>
      [] r.op \in {"abort", "expired"} -> <<{r.e}, W(r.e)>>
      [] r.op \in {"half", "final"} -> <<{r.e}, {<<r.e, r.b>>}>>
      [] r.op = "host" -> <<{r.e}, W(r.e), {r.e}>>

\* Defective: a duplicate key does not end the reservation.
unreservedAny(q) == TRUE

\* The insert of the request; error 1062 sends the caller to lookup.
unreserved(q) == root[q] = 0

\* _lookup under the lock of the request, then _evidence of every branch.
mayAdvance(e) == /\ root[e[1]] = e[2] /\ e[2] < MaxFence /\ ex[e].state = "aborted"
                 /\ all(e, "aborted")

receiptStands(old, new) == old \in {"not_attempted", "unknown", new}

\* Defective: the outcome on record is not looked at.
mayRecordAny(r) ==
    LET st == ex[r.e].state
    IN  /\ ex[r.e].wit[r.b] = st
        /\ IF r.op = "half" THEN st = "prepared" ELSE st \in {"committed", "aborted"}

\* _receipt and record_recovery_final: what the locked rows must say.
mayRecord(r) ==
    LET st == ex[r.e].state
    IN  /\ ex[r.e].wit[r.b] = st
        /\ IF r.op = "half" THEN st = "prepared" /\ receiptStands(ex[r.e].half[r.b], r.val)
           ELSE /\ st \in {"committed", "aborted"} /\ receiptStands(ex[r.e].final[r.b], r.val)
                /\ r.val = "commit" => st = "committed"
                /\ r.val = "rollback" => st = "aborted"

\* Defective: the state is not compared when the host binds.
bindableAnyState(e) == ex[e].live

\* bind: the update of guard_version and the reads that follow it.
bindable(e) == ex[e].state = "prepared" /\ ex[e].live /\ all(e, "prepared")

\* Statement n of r finds what it requires.
check(r, n) ==
    CASE r.op = "reserve" -> unreserved(r.e[1])
      [] r.op = "advance" -> n > 1 \/ mayAdvance(r.e)
      [] r.op = "begin_prepare" -> ex[r.e].state = "prepared" /\ ~ex[r.e].started /\ ex[r.e].live
      [] r.op = "abort" -> IF n = 1 THEN ex[r.e].state = "prepared" ELSE all(r.e, "prepared")
      [] r.op = "expired" -> IF n = 1 THEN ex[r.e].state = "prepared" /\ ~ex[r.e].live
                             ELSE all(r.e, "prepared")
      [] r.op \in {"half", "final"} -> n = 1 \/ mayRecord(r)
      [] r.op = "host" -> IF n = 1 THEN bindable(r.e)
                          ELSE IF n = 2 THEN all(r.e, "prepared") ELSE ex[r.e].state = "prepared"

\* _insert: the execution and its witnesses, under a lease from the database's clock.
inserted(e) == /\ root' = [root EXCEPT ![e[1]] = e[2]]
               /\ ex' = [ex EXCEPT ![e] = [entered(NoRow, "prepared") EXCEPT !.live = TRUE]]
               /\ \E n \in 0..1 : granted' = [granted EXCEPT ![e] = @ + n]

apply(r) ==
    \/ r.op = "reserve" /\ inserted(r.e)
    \/ r.op = "advance" /\ inserted(<<r.e[1], r.e[2] + 1>>)
    \/ /\ r.op \notin {"reserve", "advance"} /\ UNCHANGED <<root, granted>>
       /\ ex' = [ex EXCEPT ![r.e] =
            CASE r.op = "begin_prepare" -> [@ EXCEPT !.started = TRUE]
              [] r.op \in {"abort", "expired"} -> entered(@, "aborted")
              [] r.op = "host" -> entered(@, "committed")
              [] r.op = "half" -> [@ EXCEPT !.half[r.b] = r.val]
              [] r.op = "final" -> [@ EXCEPT !.final[r.b] = r.val]]

-----------------------------------------------------------------------------
(* Sessions *)

begin(s, op, e, b, val) ==
    /\ sess[s].op = "none" /\ starts < MaxStarts /\ starts' = starts + 1
    /\ sess' = [sess EXCEPT ![s] = [Closed EXCEPT !.op = op, !.e = e, !.b = b, !.val = val]]
    /\ UNCHANGED <<root, ex, granted>>

reserve(s, q) == begin(s, "reserve", <<q, 1>>, 0, "") /\ UNCHANGED found
\* retry and replan.
advance(s, e) == granted[e] > 0 /\ begin(s, "advance", e, 0, "") /\ UNCHANGED found
begin_prepare(s, e) == granted[e] > 0 /\ begin(s, "begin_prepare", e, 0, "") /\ UNCHANGED found
abort(s, e) == granted[e] > 0 /\ begin(s, "abort", e, 0, "") /\ UNCHANGED found
record_half(s, e, b, h) == granted[e] > 0 /\ begin(s, "half", e, b, h) /\ UNCHANGED found
record_final(s, e, b, f) == granted[e] > 0 /\ begin(s, "final", e, b, f) /\ UNCHANGED found
\* No capability is needed; an outcome that is on record is left alone.
record_recovery_final(s, e, b, f) ==
    /\ f # "unknown" /\ ex[e].state # "absent" /\ begin(s, "final", e, b, f) /\ UNCHANGED found
bind(s, e) == granted[e] > 0 /\ begin(s, "host", e, 0, "") /\ UNCHANGED found

\* LIMIT: the Batch rows of R whose leases ended first, or all of R.
limited(R) == {F \in SUBSET R : Cardinality(F) <= Batch /\ (F = R \/ Cardinality(F) = Batch)}

\* reconcile_once reads what is expired in one session, and aborts each in another.
reconcile_once ==
    /\ found = {} /\ found' \in limited({e \in Executions : ex[e].state = "prepared" /\ ~ex[e].live})
    /\ found' # {} /\ UNCHANGED <<root, ex, sess, granted, starts>>
reconcileNext(s, e) ==
    /\ e \in found /\ found' = found \ {e}
    /\ IF starts < MaxStarts THEN begin(s, "expired", e, 0, "")
       ELSE UNCHANGED <<root, ex, sess, granted, starts>>

\* An abort that raises ends reconcile_once; the rest is left to the next call.
reconcileRaises ==
    /\ found # {} /\ found' = {} /\ UNCHANGED <<root, ex, sess, granted, starts>>

\* The rows a session would lock next, and the sessions it waits for.
wanted(s) == IF sess[s].op = "none" \/ sess[s].i = Len(rows(sess[s])) THEN {}
             ELSE rows(sess[s])[sess[s].i + 1]
\* Defective: the rows are read without a lock.
waitsForNone(s) == {}

waitsFor(s) == {t \in Sessions \ {s} : wanted(s) \cap sess[t].locks # {}}

\* db.execute: waits for the locks, then goes on or raises.
Statement(s) ==
    /\ wanted(s) # {} /\ waitsFor(s) = {}
    /\ sess' = [sess EXCEPT ![s] = IF check(@, @.i + 1)
                                   THEN [@ EXCEPT !.i = @ + 1, !.locks = @ \cup wanted(s)] ELSE Closed]
    /\ UNCHANGED <<root, ex, found, granted, starts>>

\* The host sends COMMIT itself and may stop waiting for it.
CommitSent(s) ==
    /\ sess[s].op = "host" /\ wanted(s) = {} /\ ~sess[s].sent
    /\ sess' = [sess EXCEPT ![s].sent = TRUE] /\ UNCHANGED <<root, ex, found, granted, starts>>

Commit(s) ==
    /\ sess[s].op # "none" /\ wanted(s) = {} /\ (sess[s].op = "host" => sess[s].sent)
    /\ apply(sess[s]) /\ sess' = [sess EXCEPT ![s] = Closed] /\ UNCHANGED <<found, starts>>

\* Cancelled, timed out, disconnected, or rolled back by the host.
Rollback(s) ==
    /\ sess[s].op # "none" /\ sess' = [sess EXCEPT ![s] = Closed]
    /\ UNCHANGED <<root, ex, found, granted, starts>>

\* The database's clock passes lease_until.
Expire(e) ==
    /\ ex[e].live /\ ex' = [ex EXCEPT ![e].live = FALSE]
    /\ UNCHANGED <<root, sess, found, granted, starts>>

SessionStep(s) == Statement(s) \/ CommitSent(s) \/ Commit(s) \/ Rollback(s)

Next ==
    \/ \E s \in Sessions : SessionStep(s) \/ \E q \in Requests : reserve(s, q)
    \/ \E s \in Sessions, e \in Executions :
          \/ advance(s, e) \/ begin_prepare(s, e) \/ abort(s, e) \/ bind(s, e) \/ reconcileNext(s, e)
          \/ \E b \in Branches :
                \/ \E h \in HalfOutcomes : record_half(s, e, b, h)
                \/ \E f \in FinalOutcomes : record_final(s, e, b, f) \/ record_recovery_final(s, e, b, f)
    \/ reconcile_once \/ reconcileRaises \/ \E e \in Executions : Expire(e)

Spec == Init /\ [][Next]_vars

-----------------------------------------------------------------------------
(* Properties *)

TypeOK ==
    /\ root \in [Requests -> 0..MaxFence] /\ starts \in 0..MaxStarts /\ found \subseteq Executions
    /\ \A s, t \in Sessions : s # t => sess[s].locks \cap sess[t].locks = {}
    /\ \A s \in Sessions : sess[s].i \in 0..3

\* No two sessions wait for each other for the rows they lock exclusively, in the order
\* of rows: the store's own transactions and the host's.  The shared lock that InnoDB
\* gives an INSERT which meets a duplicate key is outside the model.
NoLockCycle == \A s, t \in Sessions : s # t => ~(t \in waitsFor(s) /\ s \in waitsFor(t))

\* A capability is handed out once per execution, however many callers race.
OneCapability == \A e \in Executions : granted[e] <= 1

\* The state of the host's transaction on an execution, as TxStore has it.
hostStage(r) == IF r.i < 3 THEN "bound" ELSE IF r.sent THEN "committing" ELSE "staged"
hostTxOf(e) ==
    LET H == {r \in {sess[s] : s \in Sessions} : r.op = "host" /\ e \in r.locks}
    IN  IF H = {} THEN "none" ELSE hostStage(CHOOSE r \in H : TRUE)

Store == INSTANCE TxStore WITH
    active <- root,
    state <- [e \in Executions |-> ex[e].state],
    started <- {e \in Executions : ex[e].started},
    live <- {e \in Executions : ex[e].live},
    wit <- [w \in Executions \X Branches |-> ex[w[1]].wit[w[2]]],
    half <- [w \in Executions \X Branches |-> ex[w[1]].half[w[2]]],
    final <- [w \in Executions \X Branches |-> ex[w[1]].final[w[2]]],
    hostTx <- [e \in Executions |-> hostTxOf(e)]

\* The lease is looked at by the UPDATE of begin_prepare, and may run out before
\* its COMMIT; the row is locked in between.
BeginLate(e) ==
    /\ ~ex[e].live /\ ~ex[e].started /\ ex[e].state = "prepared"
    /\ \E s \in Sessions : sess[s].op = "begin_prepare" /\ e \in sess[s].locks
    /\ ex' = [ex EXCEPT ![e].started = TRUE] /\ UNCHANGED root

StoreStep ==
    \/ \E q \in Requests : Store!Reserve(q)
    \/ \E e \in Executions :
          \/ BeginLate(e)
          \/ Store!Advance(e) \/ Store!BeginPrepare(e) \/ Store!Abort(e) \/ Store!Expire(e)
          \/ Store!Bind(e) \/ Store!CommitWitness(e)
          \/ Store!HostCommitSent(e) \/ Store!HostCommitDone(e) \/ Store!HostRolledBack(e)
          \/ \E b \in Branches : \/ \E h \in HalfOutcomes : Store!RecordHalf(e, b, h)
                                 \/ \E f \in FinalOutcomes : Store!RecordFinal(e, b, f)

\* Statement by statement, the methods implement the operations of TxStore: what a
\* method looked at still holds when it commits.
RefinesTxStore == Store!StoreInit /\ [][StoreStep]_(Store!storeVars)
=============================================================================

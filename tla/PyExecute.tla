------------------------------ MODULE PyExecute ------------------------------
(***************************************************************************)
(* TransactionalSender.execute of the Python SDK (rocketmq_transaction.py) *)
(* as the asyncio task it is: every await is a step, the caller may be     *)
(* cancelled at any of them, and the local executor is a task of its own   *)
(* that is cancelled when the caller is or when the lease ends, and still  *)
(* awaited.  The task, the store and the broker are shown to implement     *)
(* TxProtocol.                                                             *)
(***************************************************************************)
EXTENDS TxStore, Sequences, FiniteSets

CONSTANTS Tasks     \* slots for owned tasks, in this process or in others

VARIABLES
    caps, ran, sends, held, calls, ended,   \* as in TxProtocol
    task

vars == <<storeVars, caps, ran, sends, held, calls, ended, task>>
broker == <<sends, held, calls, ended>>

NoTask == [at |-> "idle", e |-> CHOOSE e \in Executions : TRUE, i |-> 1, handles |-> {}, proof |-> <<>>,
           why |-> "stale", reported |-> "unknown", local |-> "not_started", decision |-> "none",
           cancelled |-> FALSE]

Init ==
    /\ StoreInit /\ caps = {} /\ ran = {} /\ sends = {} /\ held = {} /\ calls = {} /\ ended = {}
    /\ task = [p \in Tasks |-> NoTask]

put(p, t) == task' = [task EXCEPT ![p] = t]
goto(p, at) == put(p, [task[p] EXCEPT !.at = at])
proving(t, why) == [t EXCEPT !.at = "proof", !.why = why, !.proof = <<>>]
finalizing(t, d) == [t EXCEPT !.at = "finalize", !.i = 1, !.decision = d]
\* A call of the store has no effect as far as the task can tell: it raised.
raised == UNCHANGED storeVars

-----------------------------------------------------------------------------
(* The task *)

\* begin_prepare.  A stale execution is looked into, any other error is raised,
\* also one that hides an admission.
begin(p, e) ==
    LET t == [NoTask EXCEPT !.at = "halves", !.e = e]
    IN  /\ task[p].at = "idle" /\ e \in caps
        /\ \/ BeginPrepare(e) /\ (put(p, t) \/ UNCHANGED task)
           \/ hostTx[e] = "none" /\ ~CanBegin(e) /\ UNCHANGED storeVars /\ put(p, proving(t, "stale"))
        /\ UNCHANGED <<caps, ran, broker>>

\* The caller is cancelled: the shielded task learns it from the event.
cancel(p) ==
    /\ task[p].at \notin {"idle", "returned"} /\ ~task[p].cancelled
    /\ put(p, [task[p] EXCEPT !.cancelled = TRUE]) /\ UNCHANGED <<storeVars, caps, ran, broker>>

\* The head of the loop, and the look at the event after it.
nextHalf(p) ==
    LET t == task[p]
    IN  /\ t.at = "halves" /\ UNCHANGED <<storeVars, caps, held, calls, ended>>
        /\ IF t.cancelled THEN goto(p, "unstarted") /\ UNCHANGED <<sends, ran>>
           ELSE IF t.i <= NumBranches
           THEN goto(p, "half") /\ sends' = sends \cup {<<t.e, t.i>>} /\ UNCHANGED ran
           ELSE goto(p, "local") /\ ran' = ran \cup {t.e} /\ UNCHANGED sends

\* _prepare returns or raises; the receipt is recorded, or that raises.
halfReturns(p) ==
    LET t == task[p]  s == <<t.e, t.i>>
        with == [t EXCEPT !.handles = @ \cup {t.i}]
    IN  /\ t.at = "half" /\ UNCHANGED <<caps, ran, held, calls, ended>>
        /\ \/ /\ s \in held /\ UNCHANGED sends
              /\ \/ RecordHalf(t.e, t.i, "prepared") /\ put(p, [with EXCEPT !.at = "halves", !.i = t.i + 1])
                 \/ (RecordHalf(t.e, t.i, "prepared") \/ raised) /\ put(p, [with EXCEPT !.at = "unstarted"])
           \/ /\ s \notin held /\ sends' = sends \ {s} /\ goto(p, "unstarted")
              /\ (RecordHalf(t.e, t.i, "rejected") \/ raised)
           \/ /\ UNCHANGED sends /\ goto(p, "unstarted")
              /\ (RecordHalf(t.e, t.i, "unknown") \/ raised)

\* abort_unstarted: aborted here, by somebody else (the proof), or not at all.
abort_unstarted(p) ==
    LET t == task[p]
    IN  /\ t.at = "unstarted" /\ UNCHANGED <<caps, ran, broker>>
        /\ \/ Abort(t.e) /\ (put(p, finalizing(t, "rollback")) \/ goto(p, "returned"))
           \/ raised /\ goto(p, "returned")
           \/ hostTx[t.e] = "none" /\ state[t.e] # "prepared" /\ raised /\ put(p, proving(t, "unstarted"))

\* The host's unit of work, running in local_task.
unitOfWork(p) ==
    /\ task[p].at \in {"local", "stopping"} /\ UNCHANGED <<task, caps, ran, broker>>
    /\ Bind(task[p].e) \/ CommitWitness(task[p].e) \/ HostCommitSent(task[p].e)

\* Defective: the wait has no timeout.
stopLocalOnCancel(p) ==
    /\ task[p].at = "local" /\ task[p].cancelled
    /\ goto(p, "stopping") /\ UNCHANGED <<storeVars, caps, ran, broker>>

\* asyncio.wait ends with the event or the lease: local_task.cancel(), which asks.
\* TxStore does not follow the lease of a decided execution: it may be over.
stopLocal(p) ==
    /\ task[p].at = "local"
    /\ task[p].cancelled \/ task[p].e \notin live \/ state[task[p].e] # "prepared"
    /\ goto(p, "stopping") /\ UNCHANGED <<storeVars, caps, ran, broker>>

\* Defective: the cancelled local_task is not awaited.
localReturnsUnawaited(p) ==
    /\ \/ task[p].at = "stopping"
       \/ task[p].at = "local" /\ hostTx[task[p].e] \in {"none", "committing"}
    /\ \E r \in {"committed", "aborted", "unknown"} : put(p, [proving(task[p], "local") EXCEPT !.reported = r])
    /\ UNCHANGED <<storeVars, caps, ran, broker>>

\* await local_task: it returns something, or raises; its transaction is over or
\* the database is still working on the COMMIT.
localReturns(p) ==
    /\ task[p].at \in {"local", "stopping"} /\ hostTx[task[p].e] \in {"none", "committing"}
    /\ \E r \in {"committed", "aborted", "unknown"} : put(p, [proving(task[p], "local") EXCEPT !.reported = r])
    /\ UNCHANGED <<storeVars, caps, ran, broker>>

decide_local(ev) == IF ev = {"committed"} THEN "committed" ELSE IF ev = {"aborted"} THEN "aborted" ELSE "unknown"

\* Defective: without a proof, the executor's report is the result.
provedOrReported(t, k) ==
    CASE t.why = "stale" -> [t EXCEPT !.at = "returned", !.local = k]
      [] t.why = "unstarted" -> IF k = "aborted" THEN finalizing(t, "rollback") ELSE [t EXCEPT !.at = "returned"]
      [] t.why = "local" /\ k = "unknown" ->
            [t EXCEPT !.local = t.reported, !.at = IF t.reported = "aborted" THEN "abort_reported" ELSE "returned"]
      [] t.why = "local" /\ k # "unknown" ->
            [finalizing(t, IF k = "committed" THEN "commit" ELSE "rollback") EXCEPT !.local = k]

\* What follows a proof.
proved(t, k) ==
    CASE t.why = "stale" -> [t EXCEPT !.at = "returned", !.local = k]
      [] t.why = "unstarted" -> IF k = "aborted" THEN finalizing(t, "rollback") ELSE [t EXCEPT !.at = "returned"]
      [] t.why = "local" /\ k = "unknown" ->
            [t EXCEPT !.local = k, !.at = IF t.reported = "aborted" THEN "abort_reported" ELSE "returned"]
      [] t.why = "local" /\ k # "unknown" ->
            [finalizing(t, IF k = "committed" THEN "commit" ELSE "rollback") EXCEPT !.local = k]

\* _proof: one read per reference; a failure of any leaves the outcome unknown.
prove(p) ==
    LET t == task[p]
        seen == Append(t.proof, Evidence(t.e, Len(t.proof) + 1))
    IN  /\ t.at = "proof" /\ UNCHANGED <<storeVars, caps, ran, broker>>
        /\ \/ put(p, proved(t, "unknown"))
           \/ Len(seen) < NumBranches /\ put(p, [t EXCEPT !.proof = seen])
           \/ Len(seen) = NumBranches /\ put(p, proved(t, decide_local({seen[b] : b \in Branches})))

abortReported(p) ==
    LET t == task[p]
    IN  /\ t.at = "abort_reported" /\ UNCHANGED <<caps, ran, broker>>
        /\ \/ Abort(t.e) /\ (put(p, [finalizing(t, "rollback") EXCEPT !.local = "aborted"]) \/ goto(p, "returned"))
           \/ raised /\ goto(p, "returned")

callOf(t) == <<<<t.e, t.i>>, t.decision, "owner">>

\* finalize: handles in order; without one the branch is passed over.
finalize(p) ==
    LET t == task[p]
    IN  /\ t.at = "finalize" /\ UNCHANGED <<storeVars, caps, ran, sends, held, ended>>
        /\ IF t.i \in t.handles THEN goto(p, "final") /\ calls' = calls \cup {callOf(t)}
           ELSE goto(p, "returned") /\ UNCHANGED calls

finalReturns(p) ==
    LET t == task[p]
    IN  /\ t.at = "final" /\ put(p, [t EXCEPT !.at = "finalize", !.i = t.i + 1])
        /\ \/ callOf(t) \in ended /\ RecordFinal(t.e, t.i, t.decision)
           \/ RecordFinal(t.e, t.i, "unknown")
           \/ raised
        /\ UNCHANGED <<caps, ran, broker>>

leave(p) == task[p].at = "returned" /\ put(p, NoTask) /\ UNCHANGED <<storeVars, caps, ran, broker>>
crash(p) == task[p].at \notin {"idle", "returned"} /\ put(p, NoTask) /\ UNCHANGED <<storeVars, caps, ran, broker>>

-----------------------------------------------------------------------------
(* The operation of TxProtocol that a task amounts to *)

knownOf(t) == CASE t.decision = "commit" -> "committed" [] t.decision = "rollback" -> "aborted"
                [] t.decision = "none" -> IF t.local = "not_started" THEN "unknown" ELSE t.local
stageOf(t) == CASE t.at \in {"halves"} -> "send" [] t.at = "half" -> "sent" [] t.at = "unstarted" -> "abort"
                [] t.at \in {"local", "stopping"} -> "local" [] t.at = "final" -> "ending"
                [] t.at = "returned" -> "done" [] OTHER -> t.at
OpOf(t) ==
    LET n == Cardinality(t.handles)
        base == [stage |-> stageOf(t), e |-> t.e, i |-> 1, n |-> n, reported |-> "unknown",
                 known |-> "unknown", why |-> "stale"]
    IN  CASE t.at = "idle" \/ (t.at = "returned" /\ knownOf(t) = "unknown") ->
                [base EXCEPT !.stage = "idle", !.e = NoTask.e, !.n = 0]
          [] t.at \in {"halves", "half", "unstarted"} -> [base EXCEPT !.i = t.i]
          [] t.at \in {"local", "stopping", "abort_reported"} -> base
          [] t.at = "proof" ->
                [base EXCEPT !.i = Len(t.proof) + 1, !.why = t.why, !.reported = t.reported,
                             !.known = decide_local({t.proof[b] : b \in DOMAIN t.proof})]
          [] t.at \in {"finalize", "final"} -> [base EXCEPT !.i = t.i, !.known = knownOf(t)]
          [] t.at = "returned" /\ knownOf(t) # "unknown" -> [base EXCEPT !.n = 0, !.known = knownOf(t)]

P == INSTANCE TxProtocol WITH Ops <- Tasks, op <- [p \in Tasks |-> OpOf(task[p])]

\* The rest of the system is that of TxProtocol; _check and _recovery_confirmed
\* run on the host's loop, beside the tasks.
reserve(q) == UNCHANGED task /\ P!HostReserve(q)
check(s) == UNCHANGED task /\ P!Check(s)
recovery_confirmed(c) == UNCHANGED task /\ P!AfterRecovery(c)
maintain(e) == UNCHANGED task /\ P!Reconcile(e)
Outside ==
    \/ \E e \in Executions : UNCHANGED task /\ (P!DatabaseEnds(e) \/ P!LeaseEnds(e))
    \/ \E s \in Slots : UNCHANGED task /\ P!HalfArrives(s)
    \/ \E c \in P!Calls : UNCHANGED task /\ P!EndArrives(c)

taskStep(p) ==
    \/ nextHalf(p) \/ halfReturns(p) \/ abort_unstarted(p) \/ stopLocal(p)
    \/ prove(p) \/ abortReported(p) \/ finalize(p) \/ finalReturns(p)
localStep(p) == unitOfWork(p) \/ localReturns(p)

Next ==
    \/ \E p \in Tasks : taskStep(p) \/ localStep(p) \/ cancel(p) \/ leave(p) \/ crash(p) \/ \E e \in Executions : begin(p, e)
    \/ \E q \in Requests : reserve(q)
    \/ \E s \in Slots : check(s)
    \/ \E c \in P!Calls : recovery_confirmed(c)
    \/ \E e \in Executions : maintain(e)
    \/ Outside

Spec == Init /\ [][Next]_vars

\* RPCs and store calls have deadlines; a unit of work that is cancelled returns in
\* the end, one that is not may hang; leases end, and so do database transactions.
Fairness ==
    /\ \A p \in Tasks : WF_vars(taskStep(p)) /\ SF_vars(task[p].at = "stopping" /\ localReturns(p))
    /\ \A e \in Executions : WF_vars(UNCHANGED task /\ P!LeaseEnds(e)) /\ WF_vars(UNCHANGED task /\ P!DatabaseEnds(e))

FairSpec == Spec /\ Fairness

-----------------------------------------------------------------------------
(* Properties *)

Ats == {"idle", "halves", "half", "unstarted", "local", "stopping", "proof", "abort_reported", "finalize",
        "final", "returned"}
TypeOK ==
    /\ StoreTypeOK /\ caps \subseteq Executions /\ sends \subseteq Slots /\ calls \subseteq P!Calls
    /\ \A p \in Tasks : /\ task[p].at \in Ats /\ task[p].i \in 1..NumBranches + 1
                        /\ task[p].handles \subseteq Branches /\ Len(task[p].proof) <= NumBranches

\* What a task says of the business transaction is so: an outcome is the one in the
\* database, and halves are committed only under one.
ResultTruth ==
    \A p \in Tasks : task[p].at \in {"finalize", "final", "returned"} =>
        /\ task[p].local \in {"committed", "aborted"} => state[task[p].e] = task[p].local
        /\ task[p].decision = "commit" => task[p].local = "committed"

\* The asyncio task, its cancellation and the awaited local task implement the
\* operation of TxProtocol, and with it everything shown there.
RefinesTxProtocol == P!Spec

\* An execution that is under way returns, also when the caller is cancelled or the
\* executor does not react: the lease ends, the executor is stopped and awaited.
ExecuteReturns == \A p \in Tasks : (task[p].at # "idle") ~> (task[p].at \in {"idle", "returned"})
=============================================================================

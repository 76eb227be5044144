------------------------------- MODULE PySender -------------------------------
(***************************************************************************)
(* The runtime of the Python TransactionalSender (rocketmq_transaction.py  *)
(* and RecoveryPool of _rocketmq_transaction_driver.py): one host loop, on *)
(* which start, admission, owned operations, maintenance and the close     *)
(* task interleave at their awaits, and the threads of the recovery pool,  *)
(* which ask the loop for evidence and hold their slot until the audit of  *)
(* the confirmed answer is over.                                           *)
(***************************************************************************)
EXTENDS Naturals, FiniteSets

CONSTANTS
    Callers,                \* calls of reserve, retry, replan or execute
    Checks,                 \* commands to recover an orphaned transaction
    Sends, Workers, Waiting,    \* limits.sends, check_workers, check_queue
    MaxFaults               \* bound: failures of the database, and of the client's shutdown

PySenderAssumption ==
    /\ Sends \in Nat \ {0} /\ Workers \in Nat \ {0} /\ Waiting \in Nat /\ MaxFaults \in Nat

VARIABLES
    rt,         \* start, started, stopping, healthy, stopped, client
    available,  \* the event of admission
    call,       \* stage of each call
    check,      \* stage of each command
    pool,       \* closing, and the futures that drain waits for
    maint,      \* stage of the maintenance task
    closer,     \* stage of the close task
    faults

vars == <<rt, available, call, check, pool, maint, closer, faults>>

Init ==
    /\ rt = [start |-> "new", started |-> FALSE, stopping |-> FALSE, healthy |-> FALSE,
             stopped |-> FALSE, client |-> "none"]
    /\ available = TRUE /\ call = [c \in Callers |-> "idle"] /\ check = [k \in Checks |-> "idle"]
    /\ pool = [closing |-> FALSE, drain |-> {}]
    /\ maint = "none" /\ closer = "none" /\ faults = 0

active == Cardinality({c \in Callers : call[c] = "owned"})
futures == {k \in Checks : check[k] \in {"queued", "asking", "ending", "audit"}}
running == {k \in Checks : check[k] \in {"asking", "ending", "audit"}}
\* An await of the database: it answers, or it fails.
database(ok) == IF ok THEN UNCHANGED faults ELSE faults < MaxFaults /\ faults' = faults + 1

ready == rt.started /\ ~rt.stopping /\ rt.healthy /\ Cardinality(futures) < Workers + Waiting

-----------------------------------------------------------------------------
(* start *)

start ==
    /\ rt.start = "new" /\ ~rt.stopping /\ rt' = [rt EXCEPT !.start = "validate"]
    /\ UNCHANGED <<available, call, check, pool, maint, closer, faults>>

ensureClose == closer' = IF closer = "none" THEN "start" ELSE closer

\* Defective: a start that fails or is cancelled only stops admission.
startRaisesOnly ==
    /\ rt.start \in {"validate", "create", "failed"} /\ ~rt.stopping
    /\ rt' = [rt EXCEPT !.stopping = TRUE] /\ available' = TRUE
    /\ UNCHANGED <<call, check, pool, maint, closer, faults>>

\* start raises, or its caller is cancelled: the start task goes on by itself.
startRaises ==
    /\ rt.start \in {"validate", "create", "failed"} /\ closer = "none"
    /\ rt' = [rt EXCEPT !.stopping = TRUE] /\ available' = TRUE /\ ensureClose
    /\ UNCHANGED <<call, check, pool, maint, faults>>

startValidates(ok) ==
    /\ rt.start = "validate" /\ database(ok)
    /\ rt' = IF ok THEN [rt EXCEPT !.start = "create"] ELSE [rt EXCEPT !.start = "failed"]
    /\ UNCHANGED <<available, call, check, pool, maint, closer>>

\* create, on a thread: the client exists before its startup, routes and settings
\* are known to have succeeded, and receives commands from then on.
createClient ==
    /\ rt.start = "create" /\ rt.client = "none" /\ rt' = [rt EXCEPT !.client = "running"]
    /\ UNCHANGED <<available, call, check, pool, maint, closer, faults>>

startEnds(ok) ==
    /\ rt.start = "create" /\ rt.client # "none"
    /\ IF ok THEN /\ rt' = [rt EXCEPT !.start = "done", !.started = TRUE, !.healthy = TRUE]
                  /\ maint' = (IF rt.stopping THEN maint ELSE "waiting") /\ UNCHANGED available
       ELSE /\ rt' = [rt EXCEPT !.start = "failed", !.stopping = TRUE] /\ available' = TRUE
            /\ UNCHANGED maint
    /\ UNCHANGED <<call, check, pool, closer, faults>>

-----------------------------------------------------------------------------
(* Admission and owned operations *)

callBegins(c) ==
    /\ call[c] = "idle" /\ rt.start # "new" /\ call' = [call EXCEPT ![c] = "admit"]
    /\ UNCHANGED <<rt, available, check, pool, maint, closer, faults>>

\* _admit between two awaits, and _own, which follows without one.
admit(c) ==
    /\ call[c] \in {"admit", "waiting"} /\ (call[c] = "waiting" => available)
    /\ call' = [call EXCEPT ![c] = IF active >= Sends /\ ~rt.stopping THEN "waiting"
                                   ELSE IF ready THEN "owned" ELSE "refused"]
    /\ available' = (available /\ ~(call'[c] = "owned" /\ active + 1 >= Sends))
    /\ UNCHANGED <<rt, check, pool, maint, closer, faults>>

callCancelled(c) ==
    /\ call[c] = "waiting" /\ call' = [call EXCEPT ![c] = "refused"]
    /\ UNCHANGED <<rt, available, check, pool, maint, closer, faults>>

\* Defective: the event is set only by the last operation.
completeLast(c, ok) ==
    /\ call[c] = "owned" /\ database(ok) /\ call' = [call EXCEPT ![c] = "done"]
    /\ available' = (available \/ active = 1) /\ rt' = [rt EXCEPT !.healthy = @ /\ ok]
    /\ UNCHANGED <<check, pool, maint, closer>>

\* Defective: the event is not set.
completeSilently(c, ok) ==
    /\ call[c] = "owned" /\ database(ok) /\ call' = [call EXCEPT ![c] = "done"]
    /\ rt' = [rt EXCEPT !.healthy = @ /\ ok] /\ UNCHANGED <<available, check, pool, maint, closer>>

\* The operation, whose caller may be gone, ends: its callback gives the place back.
complete(c, ok) ==
    /\ call[c] = "owned" /\ database(ok) /\ call' = [call EXCEPT ![c] = "done"]
    /\ available' = TRUE /\ rt' = [rt EXCEPT !.healthy = @ /\ ok]
    /\ UNCHANGED <<check, pool, maint, closer>>

-----------------------------------------------------------------------------
(* The recovery pool *)

\* submit, under the lock of the pool.
admits(closing) == ~closing /\ Cardinality(futures) < Workers + Waiting

\* on_recover_orphaned_transaction_command, on the client's I/O thread.
submit(k) ==
    /\ check[k] = "idle" /\ rt.client = "running"
    /\ check' = [check EXCEPT ![k] = IF admits(pool.closing) THEN "queued" ELSE "rejected"]
    /\ UNCHANGED <<rt, available, call, pool, maint, closer, faults>>

runCheck(k) ==
    /\ check[k] = "queued" /\ Cardinality(running) < Workers
    /\ check' = [check EXCEPT ![k] = "asking"]
    /\ UNCHANGED <<rt, available, call, pool, maint, closer, faults>>

\* checker on the host loop: a decision leads to the RPC, anything else ends it.
asked(k, ok) ==
    /\ check[k] = "asking" /\ database(ok)
    /\ \E d \in {"ending", "done"} : /\ d = "ending" => ok
                                     /\ check' = [check EXCEPT ![k] = d]
    /\ rt' = [rt EXCEPT !.healthy = @ /\ ok] /\ UNCHANGED <<available, call, pool, maint, closer>>

\* end_transaction: acknowledged, or the worker raises.
ended(k) ==
    /\ check[k] = "ending" /\ \E a \in {"audit", "done"} : check' = [check EXCEPT ![k] = a]
    /\ UNCHANGED <<rt, available, call, pool, maint, closer, faults>>

\* recovered on the host loop; its failure clears the health flag.
audited(k, ok) ==
    /\ check[k] = "audit" /\ database(ok) /\ check' = [check EXCEPT ![k] = "done"]
    /\ rt' = [rt EXCEPT !.healthy = @ /\ ok] /\ UNCHANGED <<available, call, pool, maint, closer>>

-----------------------------------------------------------------------------
(* Maintenance *)

tick ==
    /\ maint = "waiting" /\ closer # "maint" /\ maint' = "working"
    /\ UNCHANGED <<rt, available, call, check, pool, closer, faults>>

\* Defective: an exception is not caught and ends the task.
tickEndsOnce(ok) ==
    /\ maint = "working" /\ database(ok) /\ maint' = (IF ok THEN "waiting" ELSE "exited")
    /\ rt' = [rt EXCEPT !.healthy = ok] /\ UNCHANGED <<available, call, check, pool, closer>>

\* validate and reconcile_once; the flag is raised after both.
tickEnds(ok) ==
    /\ maint = "working" /\ database(ok) /\ maint' = "waiting"
    /\ rt' = [rt EXCEPT !.healthy = ok] /\ UNCHANGED <<available, call, check, pool, closer>>

maintStops ==
    /\ maint = "waiting" /\ closer = "maint" /\ maint' = "exited"
    /\ UNCHANGED <<rt, available, call, check, pool, closer, faults>>

-----------------------------------------------------------------------------
(* stop_admission, close and the close task *)

stop_admission ==
    /\ ~rt.stopping /\ rt' = [rt EXCEPT !.stopping = TRUE] /\ available' = TRUE
    /\ UNCHANGED <<call, check, pool, maint, closer, faults>>

\* close: a caller whose grace runs out leaves the close task running.
close ==
    /\ closer = "none" /\ rt' = [rt EXCEPT !.stopping = TRUE] /\ available' = TRUE /\ ensureClose
    /\ UNCHANGED <<call, check, pool, maint, faults>>

\* Defective: the drain of the pool waits for the running checks only.
drainRunning == running

drainSet == futures

\* The awaits of _close, in order.
closeStep ==
    /\ \/ closer = "start" /\ rt.start \in {"new", "done", "failed"} /\ closer' = "ops" /\ UNCHANGED <<pool, rt>>
       \/ closer = "ops" /\ active = 0 /\ closer' = "maint" /\ UNCHANGED <<pool, rt>>
       \/ /\ closer = "maint" /\ maint \in {"none", "exited"} /\ closer' = "pool"
          /\ pool' = [closing |-> TRUE, drain |-> drainSet] /\ UNCHANGED rt
       \/ closer = "pool" /\ pool.drain \cap futures = {} /\ closer' = "client" /\ UNCHANGED <<pool, rt>>
       \/ /\ closer = "client" /\ closer' = "done" /\ UNCHANGED pool
          /\ rt' = [rt EXCEPT !.started = FALSE, !.stopped = TRUE,
                              !.client = IF @ = "none" THEN @ ELSE "closed"]
    /\ UNCHANGED <<available, call, check, maint, faults>>

\* client.shutdown raises: the close task ends with its exception, for this and for every
\* later close, and the sender is neither marked as stopped nor as not started.
shutdownRaises ==
    /\ closer = "client" /\ rt.client # "none" /\ database(FALSE) /\ closer' = "raised"
    /\ UNCHANGED <<rt, available, call, check, pool, maint>>

Terminated == closer \in {"done", "raised"} /\ UNCHANGED vars

startStep == createClient \/ \E ok \in BOOLEAN : startValidates(ok) \/ startEnds(ok)
checkStep(k) == runCheck(k) \/ ended(k) \/ \E ok \in BOOLEAN : asked(k, ok) \/ audited(k, ok)
ends(c) == \E ok \in BOOLEAN : complete(c, ok)
maintStep == maintStops \/ \E ok \in BOOLEAN : tickEnds(ok)

Next ==
    \/ start \/ startRaises \/ startStep \/ stop_admission \/ close \/ closeStep \/ shutdownRaises
    \/ \E c \in Callers : callBegins(c) \/ admit(c) \/ callCancelled(c) \/ ends(c)
    \/ \E k \in Checks : submit(k) \/ checkStep(k)
    \/ tick \/ maintStep \/ Terminated

Spec == Init /\ [][Next]_vars

\* The loop and the threads run; the database and RPCs have deadlines; an owned
\* operation ends (PyExecute); the maintenance interval passes.
Fairness ==
    /\ WF_vars(startStep) /\ WF_vars(startRaises /\ rt.start = "failed") /\ WF_vars(tick) /\ WF_vars(maintStep)
    /\ WF_vars(closeStep) /\ \A c \in Callers : WF_vars(ends(c)) /\ WF_vars(admit(c))
    /\ \A k \in Checks : WF_vars(checkStep(k))
FairSpec == Spec /\ Fairness

-----------------------------------------------------------------------------
(* Properties *)

TypeOK ==
    /\ call \in [Callers -> {"idle", "admit", "waiting", "owned", "done", "refused"}] /\ active <= Sends
    /\ check \in [Checks -> {"idle", "queued", "asking", "ending", "audit", "done", "rejected"}]
    /\ Cardinality(futures) <= Workers + Waiting
    /\ maint \in {"none", "waiting", "working", "exited"}
    /\ closer \in {"none", "start", "ops", "maint", "pool", "client", "done", "raised"}

\* The event of admission is clear only while every place is taken and the sender
\* is open: no caller sleeps beside a free place or through a stop.
NoSleepBesideSlot == ~available => active = Sends /\ ~rt.stopping

\* The client is shut down after everything that uses it, and the host's database is
\* left alone from then on: no operation, maintenance, check or audit is left, and a
\* start cut short by its caller has come to its end.
ClosedIsQuiet ==
    closer \in {"client", "done", "raised"} =>
        /\ active = 0 /\ futures = {} /\ maint \in {"none", "exited"} /\ rt.start \in {"new", "done", "failed"}

\* A start that fails or is given up leaves nothing behind: the client is shut down,
\* unless the shutdown itself raises.
AbandonedStartCloses ==
    (rt.start = "failed" \/ closer # "none") ~>
        (closer = "raised" \/ (rt.stopped /\ rt.client # "running"))

\* A command that was admitted ends, also while the sender closes; a waiting caller
\* is let in or refused.
AdmittedEnd ==
    /\ \A k \in Checks : (check[k] = "queued") ~> (check[k] = "done")
    /\ \A c \in Callers : (call[c] = "waiting") ~> (call[c] # "waiting")

\* Once the database works again the sender becomes ready again, unless it stops,
\* however late failures of older calls clear the flag.
HealthRecovers == (rt.started /\ ~rt.healthy) ~> (rt.healthy \/ rt.stopping)
=============================================================================

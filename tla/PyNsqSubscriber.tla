--------------------------- MODULE PyNsqSubscriber ---------------------------
(***************************************************************************)
(* NSQSubscriber of the Python SDK (nsq.py): two readers of one event      *)
(* loop, a task for each delivery, the failed handoff to the failure       *)
(* topic, and start and stop.  nsqd pushes messages, counts attempts,      *)
(* gives a message that times out to the same connection again, and obeys  *)
(* FIN and REQ only for messages in flight to the connection they come     *)
(* from.  There is no bound on the tasks but nsqd's in-flight limit.       *)
(***************************************************************************)
EXTENDS Naturals, FiniteSets

CONSTANTS
    Msgs,           \* messages of the business topic
    Undecodable,    \* those that do not decode
    Oversized,      \* those whose failure record would exceed NSQ_MAX_BYTES
    Tasks,          \* names for tasks of the event loop
    MaxAttempts,    \* max_attempts
    Overlap,        \* whether the host may call stop before start has returned
    MaxFaults       \* bound: timeouts, lost connections, failing callbacks and
                    \* publishes, restarts, readers that do not close in time

PyNsqAssumption ==
    /\ Undecodable \subseteq Msgs /\ Oversized \subseteq Msgs \ Undecodable
    /\ MaxAttempts \in Nat \ {0} /\ Overlap \in BOOLEAN /\ MaxFaults \in Nat

VARIABLES
    nsqd,       \* of each topic and message: where it is, attempts, failure records included
    reader,     \* the reader of each topic, and the number of its connection
    task,       \* _handle of each task
    sub,        \* start and stop
    accepted,   \* messages whose handler has committed
    audited,    \* messages a failed or invalid handler has made durable
    runs,       \* history: deliveries given to the handler
    faults

vars == <<nsqd, reader, task, sub, accepted, audited, runs, faults>>

Topics == {"business", "failure"}
idle == [at |-> "idle", topic |-> "business", msg |-> "none", conn |-> 0, att |-> 0]
live == {t \in Tasks : task[t].at # "idle"}

Init ==
    /\ nsqd = [k \in Topics |-> [m \in Msgs |-> [at |-> IF k = "business" THEN "queued" ELSE "none", att |-> 0]]]
    /\ reader = [k \in Topics |-> [at |-> "none", conn |-> 0]]
    /\ task = [t \in Tasks |-> idle]
    /\ sub = [start |-> "new", stop |-> "none", closing |-> FALSE, stopped |-> FALSE]
    /\ accepted = {} /\ audited = {} /\ runs = [m \in Msgs |-> 0] /\ faults = 0

fault == faults < MaxFaults /\ faults' = faults + 1

-----------------------------------------------------------------------------
(* nsqd and the readers' connections *)

timeout(k, m) ==
    /\ nsqd[k][m].at = "inflight" /\ fault /\ nsqd' = [nsqd EXCEPT ![k][m].at = "queued"]
    /\ UNCHANGED <<reader, task, sub, accepted, audited, runs>>

\* What is in flight to a connection that goes away is queued again.
requeued(k) == [m \in Msgs |-> [nsqd[k][m] EXCEPT !.at = IF @ = "inflight" THEN "queued" ELSE @]]

\* The reader connects again.
reconnects(k) == /\ nsqd' = [nsqd EXCEPT ![k] = requeued(k)]
                 /\ reader' = [reader EXCEPT ![k].conn = @ + 1]

connectionLost(k) ==
    /\ reader[k].at = "open" /\ fault /\ reconnects(k)
    /\ UNCHANGED <<task, sub, accepted, audited, runs>>

\* FIN or REQ of a delivery.  nsqd answers one for a message that is no longer in flight
\* with an error, and _on_connection_error closes the connection.
respond(t, to) ==
    LET k == task[t].topic  m == task[t].msg IN
    IF reader[k].at # "open" \/ task[t].conn # reader[k].conn THEN UNCHANGED <<nsqd, reader>>
    ELSE IF nsqd[k][m].at = "inflight" THEN nsqd' = [nsqd EXCEPT ![k][m].at = to] /\ UNCHANGED reader
    ELSE reconnects(k)

-----------------------------------------------------------------------------
(* dispatch and _handle *)

\* Defective: the handler runs beyond the budget.
stageUnbounded(k, m) ==
    IF k = "failure" THEN "record" ELSE IF m \in Undecodable THEN "quarantine" ELSE "handler"

\* The branch of _handle a delivery takes.
stage(k, m) ==
    IF k = "failure" THEN "record" ELSE IF m \in Undecodable THEN "quarantine"
    ELSE IF nsqd[k][m].att + 1 > MaxAttempts THEN "handoff" ELSE "handler"

arrives(k, m) == /\ reader[k].at \in {"open", "closing"} /\ nsqd[k][m].at = "queued"
                 /\ nsqd' = [nsqd EXCEPT ![k][m] = [at |-> "inflight", att |-> @.att + 1]]

create_task(k, m) ==
    /\ Tasks \ live # {}
    /\ task' = [task EXCEPT ![CHOOSE t \in Tasks \ live : TRUE] =
                   [at |-> stage(k, m), topic |-> k, msg |-> m,
                    conn |-> reader[k].conn, att |-> nsqd[k][m].att + 1]]
    /\ runs' = [runs EXCEPT ![m] = IF stage(k, m) = "handler" THEN @ + 1 ELSE @]

\* A delivery that comes after RDY 0 is left unsettled.
dispatch(k, m) ==
    /\ arrives(k, m) /\ IF sub.closing THEN UNCHANGED <<task, runs>> ELSE create_task(k, m)
    /\ UNCHANGED <<reader, sub, accepted, audited, faults>>

ends(t) == task' = [task EXCEPT ![t] = idle]

becomes(t, to) == task' = [task EXCEPT ![t].at = to]

\* The handler commits; what it then returns or raises is another matter.
commits(t) ==
    /\ task[t].at = "handler" /\ task[t].msg \notin accepted /\ accepted' = accepted \cup {task[t].msg}
    /\ UNCHANGED <<nsqd, reader, task, sub, audited, runs, faults>>

handlerReturns(t) ==
    /\ task[t].at = "handler" /\ task[t].msg \in accepted /\ becomes(t, "finish")
    /\ UNCHANGED <<nsqd, reader, sub, accepted, audited, runs, faults>>

handlerRaises(t) ==
    /\ task[t].at = "handler" /\ becomes(t, IF task[t].att >= MaxAttempts THEN "handoff" ELSE "requeue")
    /\ UNCHANGED <<nsqd, reader, sub, accepted, audited, runs, faults>>

\* failed_handler for a failure record, invalid_handler for a message that does not decode
\* or has no record that fits: it commits and returns, or it raises.
records(t) ==
    /\ task[t].at \in {"quarantine", "record"} \/ (task[t].at = "handoff" /\ task[t].msg \in Oversized)
    /\ \/ audited' = audited \cup {task[t].msg} /\ becomes(t, "finish") /\ UNCHANGED faults
       \/ fault /\ audited' \in {audited, audited \cup {task[t].msg}} /\ becomes(t, "requeue")
    /\ UNCHANGED <<nsqd, reader, sub, accepted, runs>>

\* nsqd holds one more copy of the failure record; one in flight stands for both.
stored(m) == [nsqd EXCEPT !["failure"][m].at = IF @ = "inflight" THEN @ ELSE "queued"]

\* Defective: an unknown outcome of the publish finishes the message.
handoffUnconfirmed(t) ==
    /\ task[t].at = "handoff" /\ task[t].msg \notin Oversized /\ becomes(t, "finish")
    /\ \/ nsqd' = stored(task[t].msg) /\ UNCHANGED faults
       \/ fault /\ nsqd' \in {nsqd, stored(task[t].msg)}
    /\ UNCHANGED <<reader, sub, accepted, audited, runs>>

\* _handoff: failure_ready, and a publish that must be CONFIRMED; an unknown one may have
\* stored the record.
handoff(t) ==
    /\ task[t].at = "handoff" /\ task[t].msg \notin Oversized
    /\ \/ nsqd' = stored(task[t].msg) /\ becomes(t, "finish") /\ UNCHANGED faults
       \/ fault /\ nsqd' \in {nsqd, stored(task[t].msg)} /\ becomes(t, "requeue")
    /\ UNCHANGED <<reader, sub, accepted, audited, runs>>

\* Defective: only success is answered.
settleFinishOnly(t) ==
    /\ task[t].at \in {"finish", "requeue"} /\ ends(t)
    /\ IF task[t].at = "finish" THEN respond(t, "finished") ELSE UNCHANGED <<nsqd, reader>>
    /\ UNCHANGED <<sub, accepted, audited, runs, faults>>

\* raw.finish or raw.requeue.
settle(t) ==
    /\ task[t].at \in {"finish", "requeue"} /\ ends(t)
    /\ respond(t, IF task[t].at = "finish" THEN "finished" ELSE "queued")
    /\ UNCHANGED <<sub, accepted, audited, runs, faults>>

-----------------------------------------------------------------------------
(* start and stop *)

\* The failure reader is opened, then each failure channel made ready, then the business
\* reader is opened; every step awaits.
startFailure ==
    /\ \/ sub.start = "new" /\ UNCHANGED faults
       \/ sub.start \in {"returned", "failed"} /\ sub.stop = "returned" /\ fault
    /\ sub' = [start |-> "channels", stop |-> "none", closing |-> FALSE, stopped |-> FALSE]
    /\ reader' = [reader EXCEPT !["failure"] = [at |-> "open", conn |-> @.conn + 1]]
    /\ UNCHANGED <<nsqd, task, accepted, audited, runs>>

startBusiness ==
    /\ sub.start = "channels" /\ sub' = [sub EXCEPT !.start = "business"]
    /\ reader' = [reader EXCEPT !["business"] = [at |-> "open", conn |-> @.conn + 1]]
    /\ UNCHANGED <<nsqd, task, accepted, audited, runs, faults>>

startReturns ==
    /\ sub.start = "business" /\ reader["business"].at = "open" /\ sub' = [sub EXCEPT !.start = "returned"]
    /\ UNCHANGED <<nsqd, reader, task, accepted, audited, runs, faults>>

beginStop == [sub EXCEPT !.closing = TRUE, !.stop = "waiting"]

\* A reader that does not get ready, a failing failure_ready, a cancelled start: stop(0).
startFails ==
    /\ sub.start \in {"channels", "business"} /\ sub.stop \in {"none", "returned"} /\ fault
    /\ sub' = [beginStop EXCEPT !.start = "failed"]
    /\ UNCHANGED <<nsqd, reader, task, accepted, audited, runs>>

stop ==
    /\ sub.start \in {"returned", "failed"} \/ (Overlap /\ sub.start \in {"channels", "business"})
    /\ sub.stop \in {"none", "raised", "late"} /\ sub' = beginStop
    /\ UNCHANGED <<nsqd, reader, task, accepted, audited, runs, faults>>

cancelled(left) == [t \in Tasks |-> IF t \in left THEN task[t] ELSE idle]

\* Defective: the readers are closed under handlers that suppress their cancellation.
stopWaitsForcing ==
    /\ sub.stop = "waiting" /\ sub' = [sub EXCEPT !.stop = "closing"]
    /\ \E left \in SUBSET live : task' = cancelled(left)
    /\ UNCHANGED <<nsqd, reader, accepted, audited, runs, faults>>

\* The tasks end within the grace or are cancelled, which settles nothing; a callback
\* that suppresses it makes stop raise and keeps the readers.
stopWaits ==
    /\ sub.stop = "waiting"
    /\ \E left \in SUBSET live :
         /\ task' = cancelled(left)
         /\ sub' = [sub EXCEPT !.stop = IF left = {} THEN "closing" ELSE "raised"]
    /\ UNCHANGED <<nsqd, reader, accepted, audited, runs, faults>>

\* Defective: only the business reader is closed.
stopClosesBusiness ==
    /\ sub.stop = "closing" /\ sub' = [sub EXCEPT !.stop = "returned", !.stopped = TRUE]
    /\ reader' = [reader EXCEPT !["business"].at = IF @ = "open" THEN "closed" ELSE @]
    /\ nsqd' = [nsqd EXCEPT !["business"] = requeued("business")]
    /\ UNCHANGED <<task, accepted, audited, runs, faults>>

\* The readers that are in _readers now are closed and their connections end.
stopCloses ==
    /\ sub.stop = "closing" /\ sub' = [sub EXCEPT !.stop = "returned", !.stopped = TRUE]
    /\ reader' = [k \in Topics |-> [reader[k] EXCEPT !.at = IF @ \in {"open", "closing"} THEN "closed" ELSE @]]
    /\ nsqd' = [k \in Topics |-> requeued(k)]
    /\ UNCHANGED <<task, accepted, audited, runs, faults>>

\* A reader has not closed when the budget of stop is over: stop raises, keeps the
\* readers in _readers, does not set _stopped, and can be called again.
stopClosesLate ==
    /\ sub.stop = "closing" /\ fault /\ sub' = [sub EXCEPT !.stop = "late"]
    /\ reader' = [k \in Topics |-> [reader[k] EXCEPT !.at = IF @ = "open" THEN "closing" ELSE @]]
    /\ UNCHANGED <<nsqd, task, accepted, audited, runs>>

\* A reader that was told to close does so by itself.
readerCloses(k) ==
    /\ reader[k].at = "closing" /\ reader' = [reader EXCEPT ![k].at = "closed"]
    /\ nsqd' = [nsqd EXCEPT ![k] = requeued(k)]
    /\ UNCHANGED <<task, sub, accepted, audited, runs, faults>>

-----------------------------------------------------------------------------

taskStep(t) == commits(t) \/ handlerReturns(t) \/ records(t) \/ handoff(t) \/ settle(t)

Next ==
    \/ \E k \in Topics : connectionLost(k) \/ readerCloses(k) \/ \E m \in Msgs : timeout(k, m) \/ dispatch(k, m)
    \/ \E t \in Tasks : taskStep(t) \/ handlerRaises(t)
    \/ startFailure \/ startBusiness \/ startReturns \/ startFails
    \/ stop \/ stopWaits \/ stopCloses \/ stopClosesLate

Spec == Init /\ [][Next]_vars

\* nsqd delivers what is queued, the event loop runs every task, callbacks end, and
\* nsqd's timeouts are not relied upon.
Fairness ==
    /\ WF_vars(startFailure) /\ WF_vars(startBusiness) /\ WF_vars(startReturns)
    /\ WF_vars(stopWaits) /\ WF_vars(stopCloses)
    /\ \A k \in Topics, m \in Msgs : WF_vars(dispatch(k, m))
    /\ \A t \in Tasks : WF_vars(taskStep(t) \/ handlerRaises(t))

FairSpec == Spec /\ Fairness

-----------------------------------------------------------------------------
(* Properties *)

\* A message nsqd has forgotten is accepted by the host, quarantined, or has its failure
\* record; and a failure record nsqd has forgotten is durable with the host.
NothingLost ==
    \A m \in Msgs :
        /\ nsqd["business"][m].at = "finished" => m \in accepted \cup audited \/ nsqd["failure"][m].at # "none"
        /\ nsqd["failure"][m].at = "finished" => m \in audited

\* max_attempts: the handler is not run more often, through timeouts, lost connections
\* and handoffs that have to be repeated.
BudgetHolds == \A m \in Msgs : runs[m] <= MaxAttempts

\* "Never ... close resources beneath an unknown active commit": once stop has decided to
\* close the readers, no handler runs.
ReadersOutliveHandlers == sub.stop \in {"closing", "late", "returned"} => live = {}

\* "停自己的读者和任务": when wait and stop have returned, the subscriber holds no reader
\* and no task.
StoppedIsQuiet == sub.stopped => live = {} /\ \A k \in Topics : reader[k].at \in {"none", "closed"}

\* The subscriber answers every delivery itself: unless it stops, each message is
\* finished and each failure record audited without nsqd's timeouts.
EventuallySettled ==
    /\ \A m \in Msgs : (sub.start = "returned") ~> (nsqd["business"][m].at = "finished" \/ sub.closing)
    /\ \A m \in Msgs : (nsqd["failure"][m].at = "queued") ~> (m \in audited \/ sub.closing)
=============================================================================

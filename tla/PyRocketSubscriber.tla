-------------------------- MODULE PyRocketSubscriber --------------------------
(***************************************************************************)
(* RocketMQSubscriber (Python, rocketmq.py): a poller that reserves a slot *)
(* before it receives, a task for each message with its renewer, a lock    *)
(* between the two, and stop.  Blocking driver calls run on threads and go *)
(* on when the task that waits for them is cancelled.  The broker hides a  *)
(* delivered message until its invisible time ends and obeys ACK and       *)
(* change_invisible_duration only for the latest delivery.                 *)
(***************************************************************************)
EXTENDS Naturals, FiniteSets

CONSTANTS
    Msgs, Undecodable,
    Tasks,          \* names for tasks of _handle
    MaxInFlight,    \* Config.max_in_flight
    MaxAttempts,    \* max_attempts
    MaxFaults       \* bound: failing calls and callbacks, timeouts, lapses under a handler

PyRocketSubscriberAssumption ==
    Undecodable \subseteq Msgs /\ MaxInFlight \in Nat \ {0} /\ MaxAttempts \in Nat \ {0} /\ MaxFaults \in Nat

VARIABLES
    broker,     \* of each message: ready, hidden, acked; delivery attempts
    poll,       \* the poller and the message its receive holds
    task,       \* _handle: stage, message, attempt, renewer, whether done is set
    stop,       \* stage of stop; closing and failure
    accepted,   \* messages whose handler has committed
    audited,    \* messages failed_handler or invalid_handler has made durable
    runs,       \* history: deliveries given to the handler
    faults

vars == <<broker, poll, task, stop, accepted, audited, runs, faults>>

idle == [at |-> "idle", msg |-> "none", att |-> 0, renew |-> "off", calls |-> {}]
live == {t \in Tasks : task[t].at \notin {"idle", "left"}}

\* A slot is held by every task, and by the poller from acquire until it has created the
\* task or released it.
slots == MaxInFlight - Cardinality(live) - (IF poll.at = "receive" THEN 1 ELSE 0)

Init ==
    /\ broker = [m \in Msgs |-> [at |-> "ready", att |-> 0]]
    /\ poll = [at |-> "loop", thread |-> "none", msg |-> "none"]
    /\ task = [t \in Tasks |-> idle]
    /\ stop = [at |-> "none", closing |-> FALSE, failed |-> FALSE]
    /\ accepted = {} /\ audited = {} /\ runs = [m \in Msgs |-> 0] /\ faults = 0

fault == faults < MaxFaults /\ faults' = faults + 1

-----------------------------------------------------------------------------
(* The broker *)

held(m) == (\E t \in live : task[t].msg = m /\ task[t].att = broker[m].att)
           \/ (poll.thread = "got" /\ poll.msg = m)

\* The invisible time ends: sooner or later when nobody holds the message, and by a fault
\* under a handler whose renewals come too late.
lapse(m) ==
    /\ broker[m].at = "hidden" /\ broker' = [broker EXCEPT ![m].at = "ready"]
    /\ IF held(m) THEN fault ELSE UNCHANGED faults
    /\ UNCHANGED <<poll, task, stop, accepted, audited, runs>>

current(t) == broker[task[t].msg].att = task[t].att /\ broker[task[t].msg].at = "hidden"

-----------------------------------------------------------------------------
(* _poll *)

\* Defective: the slot is reserved when a message has come.
reserveLate ==
    /\ poll.at = "loop" /\ ~stop.closing /\ poll.thread = "none"
    /\ poll' = [poll EXCEPT !.at = "receive", !.thread = "running"]
    /\ UNCHANGED <<broker, task, stop, accepted, audited, runs, faults>>

reserve ==
    /\ poll.at = "loop" /\ ~stop.closing /\ slots > 0
    /\ poll' = [poll EXCEPT !.at = "receive", !.thread = "running"]
    /\ UNCHANGED <<broker, task, stop, accepted, audited, runs, faults>>

\* client.receive on its thread: a message, nothing, or an error.
receive ==
    /\ poll.thread = "running"
    /\ \/ \E m \in Msgs :
            /\ broker[m].at = "ready" /\ broker' = [broker EXCEPT ![m] = [at |-> "hidden", att |-> @.att + 1]]
            /\ poll' = [poll EXCEPT !.thread = "got", !.msg = m] /\ UNCHANGED faults
       \/ (\A m \in Msgs : broker[m].at # "ready") /\ poll' = [poll EXCEPT !.thread = "empty"] /\ UNCHANGED <<broker, faults>>
       \/ fault /\ poll' = [poll EXCEPT !.thread = "error"] /\ UNCHANGED broker
    /\ UNCHANGED <<task, stop, accepted, audited, runs>>

\* Defective: the handler runs beyond the budget.
stageUnbounded(m) == IF m \in Undecodable THEN "quarantine" ELSE "handler"

stage(m) ==
    IF m \in Undecodable THEN "quarantine" ELSE IF broker[m].att > MaxAttempts THEN "failed" ELSE "handler"

created ==
    \E t \in Tasks :
        /\ task[t].at = "idle"
        /\ task' = [task EXCEPT ![t] = [at |-> stage(poll.msg), msg |-> poll.msg,
                                        att |-> broker[poll.msg].att, renew |-> "sleep", calls |-> {}]]
        /\ runs' = [runs EXCEPT ![poll.msg] = IF stage(poll.msg) = "handler" THEN @ + 1 ELSE @]

\* Defective: an empty answer ends the poller without a report.
receivedOnce ==
    /\ poll.thread \in {"got", "empty", "error"}
    /\ poll' = [at |-> IF poll.at # "receive" THEN poll.at ELSE IF poll.thread # "got" THEN "ended" ELSE "loop",
                thread |-> "none", msg |-> "none"]
    /\ stop' = [stop EXCEPT !.failed = @ \/ (poll.at = "receive" /\ poll.thread = "error")]
    /\ IF poll.at = "receive" /\ poll.thread = "got" THEN created ELSE UNCHANGED <<task, runs>>
    /\ UNCHANGED <<broker, accepted, audited, faults>>

\* The answer: a task takes the slot over, an empty answer gives it back, an error ends
\* the poller and is reported.  A poller that was cancelled drops what the thread brings.
received ==
    /\ poll.thread \in {"got", "empty", "error"}
    /\ poll' = [at |-> IF poll.at # "receive" THEN poll.at ELSE IF poll.thread = "error" THEN "ended" ELSE "loop",
                thread |-> "none", msg |-> "none"]
    /\ stop' = [stop EXCEPT !.failed = @ \/ (poll.at = "receive" /\ poll.thread = "error")]
    /\ IF poll.at = "receive" /\ poll.thread = "got" THEN created ELSE UNCHANGED <<task, runs>>
    /\ UNCHANGED <<broker, accepted, audited, faults>>

\* while not closing.
pollEnds ==
    /\ poll.at = "loop" /\ stop.closing /\ poll' = [poll EXCEPT !.at = "ended"]
    /\ UNCHANGED <<broker, task, stop, accepted, audited, runs, faults>>

-----------------------------------------------------------------------------
(* _handle *)

becomes(t, to) == task' = [task EXCEPT ![t].at = to]

commits(t) ==
    /\ task[t].at = "handler" /\ task[t].msg \notin accepted /\ accepted' = accepted \cup {task[t].msg}
    /\ UNCHANGED <<broker, poll, task, stop, audited, runs, faults>>

handlerReturns(t) ==
    /\ task[t].at = "handler" /\ task[t].msg \in accepted /\ becomes(t, "ack")
    /\ UNCHANGED <<broker, poll, stop, accepted, audited, runs, faults>>

handlerRaises(t) ==
    /\ task[t].at = "handler" /\ becomes(t, IF task[t].att >= MaxAttempts THEN "failed" ELSE "retry")
    /\ UNCHANGED <<broker, poll, stop, accepted, audited, runs, faults>>

\* Defective: a failing audit does not keep the message from its ACK.
auditsAnyway(t) ==
    /\ task[t].at \in {"quarantine", "failed"}
    /\ \/ audited' = audited \cup {task[t].msg} /\ UNCHANGED faults
       \/ fault /\ UNCHANGED audited
    /\ becomes(t, "ack") /\ UNCHANGED <<broker, poll, stop, accepted, runs>>

\* invalid_handler or _failed: it commits and returns, or it raises.
audits(t) ==
    /\ task[t].at \in {"quarantine", "failed"}
    /\ \/ audited' = audited \cup {task[t].msg} /\ becomes(t, "ack") /\ UNCHANGED faults
       \/ fault /\ audited' \in {audited, audited \cup {task[t].msg}} /\ becomes(t, "retry")
    /\ UNCHANGED <<broker, poll, stop, accepted, runs>>

\* The lock is held by a renewal in its call or by the settlement in its own.
free(t) == task[t].renew # "call" /\ task[t].at \notin {"acking", "retrying"}

\* Defective: the settlement does not take the lock.
settleUnlocked(t) ==
    /\ task[t].at \in {"ack", "retry"}
    /\ task' = [task EXCEPT ![t].at = IF @ = "ack" THEN "acking" ELSE "retrying",
                            ![t].calls = @ \cup {task[t].at}]
    /\ UNCHANGED <<broker, poll, stop, accepted, audited, runs, faults>>

\* The ACK, or the shorter invisible time of a retry, is sent under the lock.
settleBegins(t) ==
    /\ task[t].at \in {"ack", "retry"} /\ free(t)
    /\ task' = [task EXCEPT ![t].at = IF @ = "ack" THEN "acking" ELSE "retrying",
                            ![t].calls = @ \cup {task[t].at}]
    /\ UNCHANGED <<broker, poll, stop, accepted, audited, runs, faults>>

ends(t) == task' = [task EXCEPT ![t].at = "end", ![t].renew = "off"]

awaits == [ack |-> "acking", retry |-> "retrying", renew |-> "none"]

\* The thread of a call reaches the broker; a task that waits for it goes on.
threadEnds(t, c) ==
    /\ c \in task[t].calls
    /\ broker' = IF c = "ack" /\ current(t) THEN [broker EXCEPT ![task[t].msg].at = "acked"] ELSE broker
    /\ task' = IF task[t].at = "left" /\ task[t].calls = {c} THEN [task EXCEPT ![t] = idle]
               ELSE [task EXCEPT ![t].calls = @ \ {c}, ![t].at = IF @ = awaits[c] THEN "end" ELSE @,
                                 ![t].renew = IF c = "renew" /\ @ = "call" THEN "sleep" ELSE @]
    /\ UNCHANGED <<poll, stop, accepted, audited, runs, faults>>

\* The ACK fails, the source or the checksum is wrong, or handler_timeout ends a wait, of
\* a thread that goes on: the retry follows.  A failing retry ends the task with an error.
settleFails(t) ==
    /\ fault
    /\ \/ /\ task[t].at \in {"handler", "quarantine", "failed", "ack", "acking"} /\ UNCHANGED stop
          /\ \E gone \in SUBSET {"ack"} : task' = [task EXCEPT ![t].at = "retry", ![t].calls = @ \ gone]
       \/ task[t].at = "retrying" /\ ends(t) /\ stop' = [stop EXCEPT !.failed = TRUE]
    /\ UNCHANGED <<broker, poll, accepted, audited, runs>>

\* renew: after a third of the invisible time, under the lock, unless done.
renew(t) ==
    /\ task[t].renew = "sleep" /\ task[t].at \notin {"end", "left"} /\ free(t)
    /\ task' = [task EXCEPT ![t].renew = "call", ![t].calls = @ \cup {"renew"}]
    /\ UNCHANGED <<broker, poll, stop, accepted, audited, runs, faults>>

\* A renewal that fails reports and cancels the task, which then settles nothing unless
\* the handler suppresses the cancellation.
renewFails(t) ==
    /\ task[t].renew = "call" /\ task[t].at \notin {"end", "left"} /\ fault
    /\ \E to \in {"end"} \cup ({task[t].at} \cap {"handler"}) :
         task' = [task EXCEPT ![t].at = to, ![t].renew = "off", ![t].calls = @ \ {"renew"}]
    /\ stop' = [stop EXCEPT !.failed = TRUE]
    /\ UNCHANGED <<broker, poll, accepted, audited, runs>>

\* finally: done is set and the renewer cancelled; _completed gives the slot back.  Threads
\* the task has left behind stay in the driver's pending calls.
completed(t) ==
    /\ task[t].at = "end"
    /\ task' = [task EXCEPT ![t] = IF @.calls = {} THEN idle ELSE [@ EXCEPT !.at = "left", !.renew = "off"]]
    /\ UNCHANGED <<broker, poll, stop, accepted, audited, runs, faults>>

-----------------------------------------------------------------------------
(* stop *)

stopBegins ==
    /\ stop.at \in {"none", "raised"} /\ stop' = [stop EXCEPT !.at = "tasks", !.closing = TRUE]
    /\ poll' = [poll EXCEPT !.at = "ended"]
    /\ UNCHANGED <<broker, task, accepted, audited, runs, faults>>

\* The driver calls that run on a thread.
calls == {t \in Tasks : task[t].calls # {}} \cup {p \in {"poll"} : poll.thread # "none"}

\* Defective: the pending calls of the driver are not gathered.
stopReturnsEarly ==
    /\ stop.at = "tasks" /\ live = {} /\ stop' = [stop EXCEPT !.at = "returned"]
    /\ UNCHANGED <<broker, poll, task, accepted, audited, runs, faults>>

\* The tasks are gathered, then the driver's pending calls, then the client is shut down.
stopReturns ==
    /\ stop.at = "tasks" /\ live = {} /\ calls = {} /\ stop' = [stop EXCEPT !.at = "returned"]
    /\ UNCHANGED <<broker, poll, task, accepted, audited, runs, faults>>

stopTimeout ==
    /\ stop.at = "tasks" /\ fault /\ stop' = [stop EXCEPT !.at = "raised"]
    /\ UNCHANGED <<broker, poll, task, accepted, audited, runs>>

-----------------------------------------------------------------------------

threadStep(t) == \E c \in {"ack", "retry", "renew"} : threadEnds(t, c)
taskStep(t) == commits(t) \/ handlerReturns(t) \/ audits(t) \/ settleBegins(t) \/ completed(t)
pollStep == reserve \/ receive \/ received \/ pollEnds

Next ==
    \/ pollStep \/ stopBegins \/ stopReturns \/ stopTimeout
    \/ \E m \in Msgs : lapse(m)
    \/ \E t \in Tasks : taskStep(t) \/ threadStep(t) \/ handlerRaises(t) \/ settleFails(t) \/ renew(t) \/ renewFails(t)

Spec == Init /\ [][Next]_vars

\* Threads and callbacks end, the event loop runs every task, invisible times end, and
\* asyncio.Lock serves its waiters in turn.
Fairness ==
    /\ WF_vars(pollStep) /\ WF_vars(stopReturns)
    /\ \A m \in Msgs : WF_vars(lapse(m) /\ ~held(m))
    /\ \A t \in Tasks : /\ WF_vars(taskStep(t) \/ handlerRaises(t)) /\ WF_vars(threadStep(t))
                       /\ SF_vars(settleBegins(t))

FairSpec == Spec /\ Fairness

-----------------------------------------------------------------------------
(* Properties *)

\* A message the broker counts as consumed was accepted, or audited when its attempts
\* were exhausted or it did not decode.
NothingLost == \A m \in Msgs : broker[m].at = "acked" => m \in accepted \cup audited

\* max_attempts bounds the runs of the handler.
BudgetHolds == \A m \in Msgs : runs[m] <= MaxAttempts

\* Slots are reserved before a receive: no more handlers than max_in_flight, and a message
\* that was received finds its task without waiting.
SlotsHold == Cardinality(live) + (IF poll.at = "receive" THEN 1 ELSE 0) <= MaxInFlight

\* No renewal is sent for a delivery that has been settled or given up.
RenewalsEnd == \A t \in Tasks : task[t].at = "end" => task[t].renew # "call"

\* After stop has returned nothing runs: no handler, no driver call.
StoppedIsQuiet == stop.at = "returned" => live = {} /\ calls = {}

\* Unless the subscriber stops or reports a failure, every message is consumed in the
\* end, through lapses, retries and dropped answers.
EventuallyConsumed == \A m \in Msgs : <>(broker[m].at = "acked" \/ stop.closing \/ stop.failed)
=============================================================================

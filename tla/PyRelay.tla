------------------------------- MODULE PyRelay -------------------------------
(***************************************************************************)
(* The durable outbox of the Python SDK: PeriodicRelay (relay.py) runs the *)
(* host's attempt, which scans the pending table (sqlalchemy.py) and       *)
(* settles each row with deliver_durable (delivery.py).  Hosts append rows *)
(* in their own transactions, hint with notify, and start and stop the     *)
(* relay from tasks of the one event loop.                                 *)
(***************************************************************************)
EXTENDS Naturals, FiniteSets

CONSTANTS
    Rows,       \* event_id of outbox rows
    Limit,      \* the limit of a scan
    Hosts,      \* host tasks that start and stop the relay
    MaxLoops,   \* bound: tasks start creates
    MaxFaults   \* bound: deliveries that fail, settlements that fail, timeouts of stop

PyRelayAssumption == Limit \in Nat \ {0} /\ MaxLoops \in Nat /\ MaxFaults \in Nat

Loops == 1..MaxLoops

VARIABLES
    row,        \* none, pending (available_at has come), later, delivered
    accepted,   \* rows the receiver holds durably
    notified,   \* history: committed rows hinted since the last scan began
    relay,      \* _task (0 for None), _stop, _wake
    loop,       \* _run of each task: stage and the rows of the attempt
    host,       \* stage of each host task, and the task its stop awaits
    faults

vars == <<row, accepted, notified, relay, loop, host, faults>>

Init ==
    /\ row = [r \in Rows |-> "none"] /\ accepted = {} /\ notified = {}
    /\ relay = [task |-> 0, stop |-> FALSE, wake |-> FALSE]
    /\ loop = [t \in Loops |-> [at |-> "none", batch |-> {}]]
    /\ host = [h \in Hosts |-> [at |-> "idle", task |-> 0]] /\ faults = 0

fault == faults < MaxFaults /\ faults' = faults + 1

-----------------------------------------------------------------------------
(* Appends *)

\* append in the host's transaction, and its COMMIT.
append(r) ==
    /\ row[r] = "none" /\ row' = [row EXCEPT ![r] = "pending"]
    /\ UNCHANGED <<accepted, notified, relay, loop, host, faults>>

notify(r) ==
    /\ row[r] = "pending" /\ relay.task # 0 /\ r \notin notified
    /\ relay' = [relay EXCEPT !.wake = TRUE] /\ notified' = notified \cup {r}
    /\ UNCHANGED <<row, accepted, loop, host, faults>>

-----------------------------------------------------------------------------
(* start and stop *)

start(h) ==
    /\ host[h].at = "idle" /\ relay.task = 0
    /\ \E t \in Loops : /\ loop[t].at = "none" /\ \A u \in Loops : u < t => loop[u].at # "none"
                        /\ loop' = [loop EXCEPT ![t].at = "top"]
                        /\ relay' = [relay EXCEPT !.task = t, !.stop = FALSE]
    /\ UNCHANGED <<row, accepted, notified, host, faults>>

\* Defective: the loop is woken and not told to stop.
stopWakingOnly(h) ==
    /\ host[h].at = "idle" /\ relay.task # 0 /\ relay' = [relay EXCEPT !.wake = TRUE]
    /\ host' = [host EXCEPT ![h] = [at |-> "stopping", task |-> relay.task]]
    /\ UNCHANGED <<row, accepted, notified, loop, faults>>

stop(h) ==
    /\ host[h].at = "idle" /\ relay.task # 0
    /\ relay' = [relay EXCEPT !.stop = TRUE, !.wake = TRUE]
    /\ host' = [host EXCEPT ![h] = [at |-> "stopping", task |-> relay.task]]
    /\ UNCHANGED <<row, accepted, notified, loop, faults>>

\* The grace is over, or the caller is cancelled: the task is cancelled and awaited.
stopTimeout(h) ==
    /\ host[h].at = "stopping" /\ loop[host[h].task].at # "ended" /\ fault
    /\ host' = [host EXCEPT ![h].at = "cancelling"]
    /\ UNCHANGED <<row, accepted, notified, relay, loop>>

stopEnds(h) ==
    /\ host[h].at \in {"stopping", "cancelling"} /\ loop[host[h].task].at = "ended"
    /\ relay' = [relay EXCEPT !.task = 0] /\ host' = [host EXCEPT ![h] = [at |-> "idle", task |-> 0]]
    /\ UNCHANGED <<row, accepted, notified, loop, faults>>

-----------------------------------------------------------------------------
(* _run *)

due == {r \in Rows : row[r] = "pending"}

\* LIMIT: the rows of R that were available first, or all of R; the order in which rows
\* become available is left open.
limited(R) == {B \in SUBSET R : Cardinality(B) <= Limit /\ (B = R \/ Cardinality(B) = Limit)}

\* The loop condition, the clearing of the hint, then the scan of the attempt.
top(t) ==
    /\ loop[t].at = "top"
    /\ IF relay.stop THEN loop' = [loop EXCEPT ![t].at = "ended"] /\ UNCHANGED <<relay, notified>>
       ELSE /\ loop' = [loop EXCEPT ![t].at = "scan"] /\ relay' = [relay EXCEPT !.wake = FALSE]
            /\ UNCHANGED notified
    /\ UNCHANGED <<row, accepted, host, faults>>

\* Defective: the scan leaves out rows that were attempted before.
pendingFresh(t) ==
    /\ loop[t].at = "scan"
    /\ \E B \in limited(due \ accepted) : loop' = [loop EXCEPT ![t] = [at |-> "attempt", batch |-> B]]
    /\ notified' = {} /\ UNCHANGED <<row, accepted, relay, host, faults>>

pending(t) ==
    /\ loop[t].at = "scan"
    /\ \E B \in limited(due) : loop' = [loop EXCEPT ![t] = [at |-> "attempt", batch |-> B]]
    /\ notified' = {} /\ UNCHANGED <<row, accepted, relay, host, faults>>

\* The UPDATE of a settlement passes over a row that is delivered.
settled(r, to) == IF row[r] = "delivered" THEN row ELSE [row EXCEPT ![r] = to]

\* Defective: an attempt whose answer is lost counts as delivered.
deliverOptimistic(t, r) ==
    /\ loop[t].at = "attempt" /\ r \in loop[t].batch /\ loop' = [loop EXCEPT ![t].batch = @ \ {r}]
    /\ \/ accepted' = accepted \cup {r} /\ UNCHANGED faults
       \/ fault /\ UNCHANGED accepted
    /\ row' = settled(r, "delivered")
    /\ UNCHANGED <<notified, relay, host>>

\* deliver_durable: the receiver's answer decides; it may have accepted all the same.
deliver_durable(t, r) ==
    /\ loop[t].at = "attempt" /\ r \in loop[t].batch /\ loop' = [loop EXCEPT ![t].batch = @ \ {r}]
    /\ \/ accepted' = accepted \cup {r} /\ row' = settled(r, "delivered") /\ UNCHANGED faults
       \/ fault /\ accepted' \in {accepted, accepted \cup {r}} /\ row' = settled(r, "later")
    /\ UNCHANGED <<notified, relay, host>>

\* The settlement fails after the answer, or the task is cancelled at an await: the
\* attempt raises and the task ends with what was committed.
attemptRaises(t) ==
    /\ loop[t].at \in {"scan", "attempt"} /\ loop' = [loop EXCEPT ![t] = [at |-> "ended", batch |-> {}]]
    /\ \/ fault
       \/ (\E h \in Hosts : host[h] = [at |-> "cancelling", task |-> t]) /\ UNCHANGED faults
    /\ accepted' \in {accepted} \cup {accepted \cup {r} : r \in loop[t].batch}
    /\ UNCHANGED <<row, notified, relay, host>>

\* Defective: the hint is cleared after the attempt.
attemptEndsClearing(t) ==
    /\ loop[t].at = "attempt" /\ loop[t].batch = {}
    /\ loop' = [loop EXCEPT ![t].at = IF relay.stop THEN "ended" ELSE "wait"]
    /\ relay' = [relay EXCEPT !.wake = FALSE] /\ UNCHANGED <<row, accepted, notified, host, faults>>

attemptEnds(t) ==
    /\ loop[t].at = "attempt" /\ loop[t].batch = {}
    /\ loop' = [loop EXCEPT ![t].at = IF relay.stop THEN "ended" ELSE "wait"]
    /\ UNCHANGED <<row, accepted, notified, relay, host, faults>>

\* The hint, or the poll interval.
wakes(t) ==
    /\ loop[t].at = "wait" /\ loop' = [loop EXCEPT ![t].at = "top"]
    /\ UNCHANGED <<row, accepted, notified, relay, host, faults>>

\* available_at comes.
backoffEnds(r) ==
    /\ row[r] = "later" /\ row' = [row EXCEPT ![r] = "pending"]
    /\ UNCHANGED <<accepted, notified, relay, loop, host, faults>>

loopStep(t) == top(t) \/ pending(t) \/ attemptEnds(t) \/ wakes(t) \/ \E r \in Rows : deliver_durable(t, r)
hostStep(h) == start(h) \/ stop(h) \/ stopTimeout(h) \/ stopEnds(h)

Next ==
    \/ \E r \in Rows : append(r) \/ notify(r) \/ backoffEnds(r)
    \/ \E h \in Hosts : hostStep(h)
    \/ \E t \in Loops : loopStep(t) \/ attemptRaises(t)

Spec == Init /\ [][Next]_vars

\* The event loop runs every task, the interval and the back-off pass, and a receiver
\* that is asked often enough answers (MaxFaults).
Fairness ==
    /\ \A t \in Loops : WF_vars(loopStep(t))
    /\ \A h \in Hosts : WF_vars(stopEnds(h)) /\ \A r \in Rows : WF_vars(backoffEnds(r))

FairSpec == Spec /\ Fairness

-----------------------------------------------------------------------------
(* Properties *)

\* deliver_durable: a row is marked delivered only when the receiver holds it.
DeliveredIsAccepted == \A r \in Rows : row[r] = "delivered" => r \in accepted

\* notify is a hint, but one given while the relay runs is not lost to it: the loop
\* does not sleep with the event clear over a hint that came after its last scan began.
NoSleepOverHint ==
    \A t \in Loops : loop[t].at = "wait" /\ relay.task = t /\ ~relay.wake => notified = {}

\* "Optional single-loop scheduler": there is one loop at a time.
SingleLoop == Cardinality({t \in Loops : loop[t].at \notin {"none", "ended"}}) <= 1

\* The durable scan is authoritative: a committed row is delivered, without any hint,
\* unless the relay is stopped or its task has died of an exception.
EventuallyDelivered ==
    \A r \in Rows :
        (row[r] \in {"pending", "later"}) ~>
            (row[r] = "delivered" \/ relay.task = 0 \/ loop[relay.task].at = "ended")

\* stop returns.
StopReturns == \A h \in Hosts : (host[h].at # "idle") ~> (host[h].at = "idle")
=============================================================================

-------------------------- MODULE PyRocketPublisher --------------------------
(***************************************************************************)
(* RocketMQPublisher and its _Driver (Python, rocketmq.py).  Blocking      *)
(* calls of the RocketMQ client run on threads; the gate counts threads,   *)
(* not callers, so a caller that times out leaves its slot to its thread.  *)
(* stop drains the calls it finds, shuts the client down on one more       *)
(* thread and gives up after its grace; the host may call it again.        *)
(***************************************************************************)
EXTENDS Naturals, FiniteSets

CONSTANTS
    Callers,        \* tasks that publish, each one message
    MaxInFlight,    \* Config.max_in_flight
    MaxFaults       \* bound: timeouts and failing sends, a failing start or shutdown

PyRocketPublisherAssumption == MaxInFlight \in Nat \ {0} /\ MaxFaults \in Nat

VARIABLES
    driver,     \* client, executor, closing, stopped
    start,      \* stage of start
    close,      \* stage of close and the calls it gathers
    caller,     \* stage of each publish
    thread,     \* driver calls: of each caller, of start and of close
    result,     \* what each publish returned
    stored,     \* messages the broker holds
    faults

vars == <<driver, start, close, caller, thread, result, stored, faults>>

Calls == Callers \cup {"create", "shutdown"}
pending == {c \in Calls : thread[c] # "none"}
gate == MaxInFlight - Cardinality(pending)
publishing == MaxInFlight - Cardinality({c \in Callers : caller[c] \in {"gate", "call"}})

Init ==
    /\ driver = [client |-> "none", executor |-> FALSE, closing |-> FALSE, stopped |-> FALSE]
    /\ start = "new" /\ close = [at |-> "none", gather |-> {}]
    /\ caller = [c \in Callers |-> "new"] /\ thread = [c \in Calls |-> "none"]
    /\ result = [c \in Callers |-> "none"] /\ stored = {} /\ faults = 0

fault == faults < MaxFaults /\ faults' = faults + 1

-----------------------------------------------------------------------------
(* start *)

begin ==
    /\ start = "new" /\ ~driver.closing
    /\ driver' = [driver EXCEPT !.executor = TRUE] /\ start' = "create"
    /\ thread' = [thread EXCEPT !["create"] = "running"]
    /\ UNCHANGED <<close, caller, result, stored, faults>>

\* The client is constructed, started, and has its routes and the server's settings, or
\* one of these fails.
create ==
    /\ thread["create"] = "running" /\ thread' = [thread EXCEPT !["create"] = "none"]
    /\ \/ driver' = [driver EXCEPT !.client = "open"] /\ start' = "started" /\ UNCHANGED faults
       \/ fault /\ driver' \in {driver, [driver EXCEPT !.client = "open"]} /\ start' = "failed"
    /\ UNCHANGED <<close, caller, result, stored>>

-----------------------------------------------------------------------------
(* publish *)

publish(c) ==
    /\ caller[c] = "new" /\ start = "started"
    /\ IF driver.client = "open" /\ ~driver.closing
       THEN caller' = [caller EXCEPT ![c] = "publishing"] /\ UNCHANGED result
       ELSE caller' = [caller EXCEPT ![c] = "returned"] /\ result' = [result EXCEPT ![c] = "raised"]
    /\ UNCHANGED <<driver, start, close, thread, stored, faults>>

\* async with self._publishing, and the look at the executor before the gate.
acquire(c) ==
    /\ caller[c] = "publishing" /\ publishing > 0
    /\ IF driver.executor THEN caller' = [caller EXCEPT ![c] = "gate"] /\ UNCHANGED result
       ELSE caller' = [caller EXCEPT ![c] = "returned"] /\ result' = [result EXCEPT ![c] = "unknown"]
    /\ UNCHANGED <<driver, start, close, thread, stored, faults>>

\* Defective: the gate is not asked.
callUngated(c) ==
    /\ caller[c] = "gate" /\ caller' = [caller EXCEPT ![c] = "call"]
    /\ thread' = [thread EXCEPT ![c] = "running"]
    /\ UNCHANGED <<driver, start, close, result, stored, faults>>

\* The gate is acquired and the send goes to a thread, of the default executor when
\* close has taken the driver's away meanwhile.
call(c) ==
    /\ caller[c] = "gate" /\ gate > 0 /\ caller' = [caller EXCEPT ![c] = "call"]
    /\ thread' = [thread EXCEPT ![c] = "running"]
    /\ UNCHANGED <<driver, start, close, result, stored, faults>>

\* client.send on its thread: a receipt, an error that may hide a stored message, a code
\* that says the broker refused, or no client any more.
send(c) ==
    /\ thread[c] = "running"
    /\ \/ driver.client = "open" /\ stored' = stored \cup {c} /\ thread' = [thread EXCEPT ![c] = "receipt"] /\ UNCHANGED faults
       \/ fault /\ stored' \in {stored, stored \cup {c}} /\ thread' = [thread EXCEPT ![c] = "error"]
       \/ fault /\ UNCHANGED stored /\ thread' = [thread EXCEPT ![c] = "refused"]
       \/ driver.client # "open" /\ thread' = [thread EXCEPT ![c] = "error"] /\ UNCHANGED <<stored, faults>>
    /\ UNCHANGED <<driver, start, close, caller, result>>

outcome == [receipt |-> "confirmed", error |-> "unknown", refused |-> "rejected"]

\* Defective: a call that ended without an error is a confirmation.
completeConfirming(c) ==
    /\ thread[c] \in DOMAIN outcome /\ thread' = [thread EXCEPT ![c] = "none"]
    /\ IF caller[c] = "call"
       THEN /\ caller' = [caller EXCEPT ![c] = "returned"]
            /\ result' = [result EXCEPT ![c] = "confirmed"]
       ELSE UNCHANGED <<caller, result>>
    /\ UNCHANGED <<driver, start, close, stored, faults>>

\* complete: the slot is free, and the caller, if it still waits, has the outcome.
complete(c) ==
    /\ thread[c] \in DOMAIN outcome /\ thread' = [thread EXCEPT ![c] = "none"]
    /\ IF caller[c] = "call"
       THEN /\ caller' = [caller EXCEPT ![c] = "returned"]
            /\ result' = [result EXCEPT ![c] = outcome[thread[c]]]
       ELSE UNCHANGED <<caller, result>>
    /\ UNCHANGED <<driver, start, close, stored, faults>>

\* asyncio.timeout, or a cancelled caller: _publishing is released, the gate is not.
timeout(c) ==
    /\ caller[c] \in {"publishing", "gate", "call"} /\ fault
    /\ caller' = [caller EXCEPT ![c] = "returned"] /\ result' = [result EXCEPT ![c] = "unknown"]
    /\ UNCHANGED <<driver, start, close, thread, stored>>

-----------------------------------------------------------------------------
(* stop *)

\* stop by the host, which may come while start waits, or by a start that failed; one at a
\* time.
stop ==
    /\ start # "new" /\ ~driver.stopped /\ close.at \in {"none", "raised"}
    /\ driver' = [driver EXCEPT !.closing = TRUE] /\ close' = [at |-> "gather", gather |-> pending]
    /\ UNCHANGED <<start, caller, thread, result, stored, faults>>

\* The calls the gather holds; a call that came later is not among them.
gathered ==
    /\ close.at = "gather"
    /\ close' = [close EXCEPT !.gather = @ \cap pending, !.at = IF close.gather \cap pending = {} THEN "shutdown" ELSE @]
    /\ close' # close
    /\ UNCHANGED <<driver, start, caller, thread, result, stored, faults>>

shutdown ==
    /\ close.at = "shutdown"
    /\ IF driver.client = "none" THEN close' = [close EXCEPT !.at = "executor"] /\ UNCHANGED thread
       ELSE /\ gate > 0 /\ thread["shutdown"] = "none"
            /\ thread' = [thread EXCEPT !["shutdown"] = "running"] /\ close' = [close EXCEPT !.at = "called"]
    /\ UNCHANGED <<driver, start, caller, result, stored, faults>>

\* client.shutdown on its thread; a close that still waits for it goes on, or raises what
\* the shutdown raised and keeps the client and the executor.
shutdownEnds ==
    /\ thread["shutdown"] = "running" /\ thread' = [thread EXCEPT !["shutdown"] = "none"]
    /\ \/ close.at # "called" /\ UNCHANGED <<close, driver, faults>>
       \/ /\ close.at = "called" /\ close' = [close EXCEPT !.at = "executor"]
          /\ driver' = [driver EXCEPT !.client = "none"] /\ UNCHANGED faults
       \/ close.at = "called" /\ fault /\ close' = [at |-> "raised", gather |-> {}] /\ UNCHANGED driver
    /\ UNCHANGED <<start, caller, result, stored>>

\* Defective: the slot of a close that timed out is not waited for again.
stopTimeoutForgetting ==
    /\ close.at \in {"gather", "shutdown", "called"} /\ fault /\ close' = [at |-> "given up", gather |-> {}]
    /\ UNCHANGED <<driver, start, caller, thread, result, stored>>

stopTimeout ==
    /\ close.at \in {"gather", "shutdown", "called"} /\ fault /\ close' = [at |-> "raised", gather |-> {}]
    /\ UNCHANGED <<driver, start, caller, thread, result, stored>>

stopReturns ==
    /\ close.at = "executor" /\ close' = [close EXCEPT !.at = "returned"]
    /\ driver' = [driver EXCEPT !.executor = FALSE, !.stopped = TRUE]
    /\ UNCHANGED <<start, caller, thread, result, stored, faults>>

-----------------------------------------------------------------------------

callerStep(c) == publish(c) \/ acquire(c) \/ call(c) \/ send(c) \/ complete(c)
closeStep == gathered \/ shutdown \/ shutdownEnds \/ stopReturns

Next ==
    \/ begin \/ create \/ stop \/ closeStep \/ stopTimeout
    \/ \E c \in Callers : callerStep(c) \/ timeout(c)

Spec == Init /\ [][Next]_vars

\* Threads end, the event loop runs every task, and a host repeats a stop that raised.
Fairness ==
    /\ WF_vars(create) /\ WF_vars(closeStep) /\ WF_vars(stop /\ driver.closing)
    /\ \A c \in Callers : WF_vars(callerStep(c))

FairSpec == Spec /\ Fairness

-----------------------------------------------------------------------------
(* Properties *)

\* A publish that reports CONFIRMED has its message with the broker, timeouts and a
\* shutdown in the middle of the send included.
ConfirmedIsStored == \A c \in Callers : result[c] = "confirmed" => c \in stored

\* "The driver gate retains the real slot if this caller times out": the threads of
\* abandoned calls count, and the pool is never asked for more than it has.
CapacityHolds == Cardinality(pending) <= MaxInFlight

\* A stop that is repeated until it returns sets stopped, whatever sends it met.
StopCompletes == driver.closing ~> driver.stopped
=============================================================================

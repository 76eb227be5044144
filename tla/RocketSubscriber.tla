-------------------------- MODULE RocketSubscriber --------------------------
(***************************************************************************)
(* The RocketMQ subscriber (transport/rocketmq/subscriber.go): pollers that*)
(* reserve slots before they receive, one handle goroutine per message     *)
(* with its dispatch goroutine, the renewal of invisibility that races     *)
(* settlement, and Subscribe against retryable Close calls.                *)
(* Every call under delivery.mu is one step: the mutex spans the RPC.      *)
(***************************************************************************)
EXTENDS Integers, FiniteSets, FiniteSetsExt

CONSTANTS
    Msgs, Bad,      \* messages; the undecodable ones
    Groups,         \* consumer groups, one Subscribe call each
    Closers,        \* calls of Close
    Tasks,          \* names for handle goroutines
    MaxInFlight, MaxBatch, MaxAttempts,
    MaxFaults       \* bound on lost answers, stalls, timeouts and failing audits

RocketAssumption ==
    /\ MaxInFlight \in 1..Cardinality(Tasks) /\ MaxBatch \in Nat \ {0}
    /\ MaxAttempts \in Nat \ {0} /\ MaxFaults \in Nat /\ Bad \subseteq Msgs
    /\ "free" \notin Groups /\ "none" \notin Tasks

VARIABLES
    broker,     \* per message: state, the task with its live receipt handle, window, attempt
    group,      \* per group: its consumer, its poller and the slots reserved
    task,       \* per handle goroutine; last: it was received with the last attempt
    sub,        \* stopping, drained, shutdown of the Subscriber; the holder of mu
    closer,     \* stage of each Close call
    accepted, recorded,     \* messages the host took, or recorded as failed
    faults

vars == <<broker, group, task, sub, closer, accepted, recorded, faults>>
host == <<accepted, recorded>>
calls == <<sub, closer>>

idle == [msg |-> "none", stage |-> "idle", ended |-> FALSE, waiting |-> FALSE,
         settled |-> "no", ok |-> FALSE, last |-> FALSE]
Busy == {t \in Tasks : task[t].stage # "idle"}
Used == MapThenSumSet(LAMBDA g : group[g].batch, Groups) + Cardinality(Busy)
Holds(t) == task[t].stage # "idle" /\ broker[task[t].msg].holder = t
Fault == faults < MaxFaults /\ faults' = faults + 1
Min2(a, b) == IF a < b THEN a ELSE b

Init ==
    /\ broker = [m \in Msgs |-> [state |-> "visible", holder |-> "none", window |-> "long", attempt |-> 0]]
    /\ group = [g \in Groups |-> [consumer |-> "none", poller |-> "none", batch |-> 0]]
    /\ task = [t \in Tasks |-> idle]
    /\ sub = [stopping |-> FALSE, mu |-> "free", drained |-> "no", shutdown |-> "no"]
    /\ closer = [k \in Closers |-> "idle"]
    /\ accepted = {} /\ recorded = {} /\ faults = 0

-----------------------------------------------------------------------------
(* Subscribe and the poll loop *)

\* Subscribe holds mu while it connects.
Subscribe(g) ==
    /\ sub.mu = "free" /\ ~sub.stopping /\ group[g].consumer = "none"
    /\ sub' = [sub EXCEPT !.mu = g]
    /\ UNCHANGED <<broker, group, task, closer, host, faults>>

Subscribed(g) ==
    /\ sub.mu = g
    /\ sub' = [sub EXCEPT !.mu = "free"]
    /\ \/ group' = [group EXCEPT ![g].consumer = "open", ![g].poller = "top"] /\ UNCHANGED faults
       \/ Fault /\ UNCHANGED group
    /\ UNCHANGED <<broker, task, closer, host>>

\* Mutant: the poller asks for a whole batch whatever is free.
ReserveBatch(g) ==
    /\ group[g].poller = "top" /\ Used < MaxInFlight
    /\ group' = [group EXCEPT ![g].poller = "receive", ![g].batch = MaxBatch]
    /\ UNCHANGED <<broker, task, calls, host, faults>>

\* One slot is waited for, the others only taken when free.
Reserve(g) ==
    /\ group[g].poller = "top" /\ Used < MaxInFlight
    /\ group' = [group EXCEPT ![g].poller = "receive",
                              ![g].batch = Min2(MaxBatch, MaxInFlight - Used)]
    /\ UNCHANGED <<broker, task, calls, host, faults>>

\* The first stage of a new dispatch: past the limit only the audit is called.
FirstStage(m) ==
    LET n == broker[m].attempt + 1
    IN  IF n > MaxAttempts THEN "failing"
        ELSE IF m \notin Bad THEN "handling"
        ELSE IF n >= MaxAttempts THEN "failing" ELSE "done"

\* The attempt a new delivery is received with is the last one, or beyond it.
IsLast(m) == broker[m].attempt + 1 >= MaxAttempts

\* receiveMessage of the driver's simple consumer: the messages of S become invisible
\* for others, each with the receipt handle of the task at[m]; "none" when the stream,
\* its status or the deadline failed, and what was read of it is dropped.
receiveMessage(S, at) ==
    [m \in Msgs |-> IF m \in S
        THEN [state |-> "held", holder |-> at[m], window |-> "long",
              attempt |-> Min2(broker[m].attempt + 1, MaxAttempts + 1)]
        ELSE broker[m]]

\* Receive returns messages: unused slots are freed, each message gets a handler,
\* whether or not the subscriber was stopped meanwhile.
Receive(g) ==
    /\ group[g].poller = "receive"
    /\ \E S \in SUBSET {m \in Msgs : broker[m].state = "visible"} :
       \E at \in [S -> Tasks \ Busy] :
          /\ S # {} /\ Cardinality(S) <= group[g].batch
          /\ \A m, n \in S : m # n => at[m] # at[n]
          /\ broker' = receiveMessage(S, at)
          /\ task' = [t \in Tasks |-> IF \E m \in S : at[m] = t
                THEN LET m == CHOOSE m \in S : at[m] = t
                     IN  [idle EXCEPT !.msg = m, !.stage = FirstStage(m),
                                      !.last = IsLast(m)]
                ELSE task[t]]
    /\ group' = [group EXCEPT ![g].poller = "top", ![g].batch = 0]
    /\ UNCHANGED <<calls, host, faults>>

\* Nothing, or an error; an answer may be lost with messages in it.
ReceiveNothing(g) ==
    /\ group[g].poller = "receive"
    /\ \/ UNCHANGED <<broker, faults>>
       \/ \E m \in Msgs :
             /\ broker[m].state = "visible" /\ Fault
             /\ broker' = receiveMessage({m}, [n \in {m} |-> "none"])
    /\ group' = [group EXCEPT ![g].poller = IF sub.stopping THEN "dead" ELSE "top", ![g].batch = 0]
    /\ UNCHANGED <<task, calls, host>>

PollerStops(g) ==
    /\ group[g].poller = "top" /\ sub.stopping
    /\ group' = [group EXCEPT ![g].poller = "dead"]
    /\ UNCHANGED <<broker, task, calls, host, faults>>

-----------------------------------------------------------------------------
(* Settlement: broker calls with the receipt handle of the task *)

\* Ack of the simple consumer returns nil for every answer, a refusal of the broker or
\* of a handle that is not its own included; an error comes from the network.
Ack(t, ok) ==
    LET m == task[t].msg
        acked == [broker EXCEPT ![m].state = "acked", ![m].holder = "none"]
    IN  IF Holds(t)
        THEN \/ ok /\ broker' = acked /\ UNCHANGED faults
             \/ Fault /\ broker' = broker
             \/ ~ok /\ Fault /\ broker' = acked
        ELSE ok /\ UNCHANGED <<broker, faults>>

\* ChangeInvisibleDuration has no context; a lost answer loses the new handle, and a
\* refusal overwrites the old one.
changeInvisibleDuration(t, w, ok) ==
    LET m == task[t].msg
        lost(v) == [broker EXCEPT ![m].window = v, ![m].holder = "none"]
    IN  IF Holds(t)
        THEN \/ ok /\ broker' = [broker EXCEPT ![m].window = w] /\ UNCHANGED faults
             \/ ~ok /\ Fault /\ broker' \in {broker, lost(broker[m].window), lost(w)}
        ELSE ~ok /\ UNCHANGED <<broker, faults>>

\* delivery.Ack, which looks at its context first, and delivery.Nack.
AckCall(t, ok) == IF task[t].ended THEN ~ok /\ UNCHANGED <<broker, faults>> ELSE Ack(t, ok)
NackCall(t, ok) == changeInvisibleDuration(t, "retry", ok)

settle(t, how, ok) == IF how = "ack" THEN AckCall(t, ok) ELSE NackCall(t, ok)

-----------------------------------------------------------------------------
(* dispatch: the host's handler and its failure audit *)

HandlerAccepts(t) ==
    /\ task[t].stage = "handling"
    /\ accepted' = accepted \cup {task[t].msg}
    /\ task' = [task EXCEPT ![t].ok = TRUE]
    /\ UNCHANGED <<broker, group, calls, recorded, faults>>

\* The handler settles by itself: Ack once it accepted, Nack if it did not.
HandlerSettles(t) ==
    /\ task[t].stage = "handling" /\ task[t].settled = "no"
    /\ \E ok \in BOOLEAN :
          LET how == IF task[t].ok THEN "ack" ELSE "nack"
          IN  /\ settle(t, how, ok)
              /\ task' = [task EXCEPT ![t].settled = IF ok THEN how ELSE @]
    /\ UNCHANGED <<group, calls, host>>

\* Mutant: every error goes to the audit.
HandlerReturnsAuditing(t) ==
    /\ task[t].stage = "handling"
    /\ task' = [task EXCEPT ![t].stage =
          IF ~task[t].ok /\ task[t].settled = "no" THEN "failing" ELSE "done"]
    /\ UNCHANGED <<broker, group, calls, host, faults>>

\* An error at the limit, by the attempt this delivery was received with, goes to the
\* audit unless the handler settled.
HandlerReturns(t) ==
    /\ task[t].stage = "handling"
    /\ task' = [task EXCEPT ![t].stage =
          IF ~task[t].ok /\ task[t].last /\ task[t].settled = "no"
          THEN "failing" ELSE "done"]
    /\ UNCHANGED <<broker, group, calls, host, faults>>

\* Mutant: an audit that did not commit counts as done.
FailedSwallows(t) ==
    /\ task[t].stage = "failing"
    /\ \/ recorded' = recorded \cup {task[t].msg} /\ UNCHANGED faults
       \/ Fault /\ UNCHANGED recorded
    /\ task' = [task EXCEPT ![t].stage = "done", ![t].ok = TRUE]
    /\ UNCHANGED <<broker, group, calls, accepted>>

\* failed returns nil only after it committed.
Failed(t) ==
    /\ task[t].stage = "failing"
    /\ \/ /\ recorded' = recorded \cup {task[t].msg} /\ UNCHANGED faults
          /\ task' = [task EXCEPT ![t].stage = "done", ![t].ok = TRUE]
       \/ /\ Fault /\ UNCHANGED recorded
          /\ task' = [task EXCEPT ![t].stage = "done", ![t].ok = FALSE]
    /\ UNCHANGED <<broker, group, calls, accepted>>

-----------------------------------------------------------------------------
(* handle: the select over done, ctx.Done and the renewal ticker *)

\* Mutant: the slot is kept until the settlement succeeds.
HandleDoneStuck(t) ==
    /\ task[t].stage = "done" /\ ~task[t].waiting
    /\ \/ task[t].settled # "no" /\ UNCHANGED <<broker, faults>>
       \/ task[t].settled = "no" /\ settle(t, IF task[t].ok THEN "ack" ELSE "nack", TRUE)
    /\ task' = [task EXCEPT ![t] = idle]
    /\ UNCHANGED <<group, calls, host>>

\* Settles if the handler did not, and frees the slot whatever the answer.
HandleDone(t) ==
    /\ task[t].stage = "done" /\ ~task[t].waiting
    /\ \/ task[t].settled # "no" /\ UNCHANGED <<broker, faults>>
       \/ /\ task[t].settled = "no"
          /\ \E ok \in BOOLEAN : settle(t, IF task[t].ok THEN "ack" ELSE "nack", ok)
    /\ task' = [task EXCEPT ![t] = idle]
    /\ UNCHANGED <<group, calls, host>>

\* HandlerTimeout, or the delivery context of the host.
ContextEnds(t) ==
    /\ t \in Busy /\ ~task[t].ended /\ Fault
    /\ task' = [task EXCEPT ![t].ended = TRUE]
    /\ UNCHANGED <<broker, group, calls, host>>

HandleCanceled(t) ==
    /\ t \in Busy /\ task[t].ended /\ ~task[t].waiting
    /\ task' = [task EXCEPT ![t].waiting = TRUE]
    /\ UNCHANGED <<broker, group, calls, host, faults>>

\* Mutant: the slot of an abandoned delivery is not freed.
HandleAbandonsSlot(t) ==
    /\ task[t].stage = "done" /\ task[t].waiting /\ FALSE
    /\ UNCHANGED vars

\* The slot is freed only when the host returned, and nothing is settled.
HandleAbandons(t) ==
    /\ task[t].stage = "done" /\ task[t].waiting
    /\ task' = [task EXCEPT ![t] = idle]
    /\ UNCHANGED <<broker, group, calls, host, faults>>

\* Mutant: the ticker renews a delivery that is settled already.
RenewSettled(t) ==
    /\ t \in Busy /\ ~task[t].waiting /\ ~task[t].ended
    /\ \E ok \in BOOLEAN :
          /\ changeInvisibleDuration(t, "long", ok)
          /\ task' = [task EXCEPT ![t].ended = ~ok]
    /\ UNCHANGED <<group, calls, host>>

\* A failed renewal cancels the context of the handler.
Renew(t) ==
    /\ t \in Busy /\ ~task[t].waiting /\ ~task[t].ended /\ task[t].settled = "no"
    /\ \E ok \in BOOLEAN :
          /\ changeInvisibleDuration(t, "long", ok)
          /\ task' = [task EXCEPT ![t].ended = ~ok]
    /\ UNCHANGED <<group, calls, host>>

\* The broker shows a message again; under a live handler only after a stall.
Lapse(m) ==
    /\ broker[m].state = "held"
    /\ IF \E t \in Tasks : task[t].msg = m /\ Holds(t) THEN Fault ELSE UNCHANGED faults
    /\ broker' = [broker EXCEPT ![m].state = "visible", ![m].holder = "none"]
    /\ UNCHANGED <<group, task, calls, host>>

-----------------------------------------------------------------------------
(* Close *)

Close(k) ==
    /\ closer[k] = "idle" /\ sub.mu = "free"
    /\ sub' = [sub EXCEPT !.stopping = TRUE, !.drained = IF @ = "no" THEN "pollers" ELSE @]
    /\ closer' = [closer EXCEPT ![k] = "draining"]
    /\ UNCHANGED <<broker, group, task, host, faults>>

\* The goroutine of drainOnce: pollers.Wait, then handlers.Wait.
DrainPollers ==
    /\ sub.drained = "pollers"
    /\ \A g \in Groups : group[g].poller \in {"none", "dead"}
    /\ sub' = [sub EXCEPT !.drained = "handlers"]
    /\ UNCHANGED <<broker, group, task, closer, host, faults>>

\* Mutant: Close does not wait for the handlers.
DrainHandlersSkipped ==
    /\ sub.drained = "handlers"
    /\ sub' = [sub EXCEPT !.drained = "yes"]
    /\ UNCHANGED <<broker, group, task, closer, host, faults>>

DrainHandlers ==
    /\ sub.drained = "handlers" /\ Busy = {}
    /\ sub' = [sub EXCEPT !.drained = "yes"]
    /\ UNCHANGED <<broker, group, task, closer, host, faults>>

Drained(k) ==
    /\ closer[k] = "draining" /\ sub.drained = "yes"
    /\ sub' = [sub EXCEPT !.shutdown = IF @ = "no" THEN "going" ELSE @]
    /\ closer' = [closer EXCEPT ![k] = "stopping"]
    /\ UNCHANGED <<broker, group, task, host, faults>>

\* The goroutine of shutdownOnce.
Shutdown ==
    /\ sub.shutdown = "going" /\ sub.mu = "free"
    /\ group' = [g \in Groups |-> IF group[g].consumer = "open"
                                  THEN [group[g] EXCEPT !.consumer = "stopped"] ELSE group[g]]
    /\ sub' = [sub EXCEPT !.shutdown = "done"]
    /\ UNCHANGED <<broker, task, closer, host, faults>>

Closed(k) ==
    /\ closer[k] = "stopping" /\ sub.shutdown = "done"
    /\ closer' = [closer EXCEPT ![k] = "ok"]
    /\ UNCHANGED <<broker, group, task, sub, host, faults>>

CloseTimeout(k) ==
    /\ closer[k] \in {"draining", "stopping"}
    /\ closer' = [closer EXCEPT ![k] = "timeout"]
    /\ UNCHANGED <<broker, group, task, sub, host, faults>>

-----------------------------------------------------------------------------
PollStep(g) == Subscribed(g) \/ Reserve(g) \/ Receive(g) \/ ReceiveNothing(g) \/ PollerStops(g)
HostStep(t) == HandlerReturns(t) \/ Failed(t)
HandleStep(t) == HandleDone(t) \/ HandleCanceled(t) \/ HandleAbandons(t)
CloseStep == DrainPollers \/ DrainHandlers \/ Shutdown \/ \E k \in Closers : Drained(k) \/ Closed(k)
Finished == /\ \A k \in Closers : closer[k] \in {"ok", "timeout"}
            /\ UNCHANGED vars

Next ==
    \/ \E g \in Groups : Subscribe(g) \/ PollStep(g)
    \/ \E t \in Tasks : \/ HandlerAccepts(t) \/ HandlerSettles(t) \/ HostStep(t)
                        \/ HandleStep(t) \/ ContextEnds(t) \/ Renew(t)
    \/ \E m \in Msgs : Lapse(m)
    \/ \E k \in Closers : Close(k) \/ CloseTimeout(k)
    \/ CloseStep \/ Finished

Spec == Init /\ [][Next]_vars

\* Goroutines run, the host's handler and audit return, invisibility ends, and a
\* message that stays visible is received: receives do not fail for ever.
Fairness ==
    /\ WF_vars(CloseStep)
    /\ \A g \in Groups : WF_vars(Subscribe(g)) /\ WF_vars(PollStep(g)) /\ SF_vars(Receive(g))
    /\ \A t \in Tasks : WF_vars(HostStep(t)) /\ WF_vars(HandleStep(t))
    /\ \A m \in Msgs : WF_vars(Lapse(m))

FairSpec == Spec /\ Fairness

-----------------------------------------------------------------------------
(* Properties *)

\* Stages, and "invisible messages never accumulate behind a local work queue":
\* what was asked for and what is handled fit into MaxInFlight.
TypeOK ==
    /\ \A m \in Msgs : /\ broker[m].state \in {"visible", "held", "acked"}
                       /\ broker[m].holder \in Tasks \cup {"none"}
                       /\ broker[m].attempt \in 0..(MaxAttempts + 1)
    /\ \A t \in Tasks : /\ task[t].stage \in {"idle", "handling", "failing", "done"}
                        /\ task[t].settled \in {"no", "ack", "nack"}
    /\ Used \in 0..MaxInFlight /\ faults \in 0..MaxFaults

\* "Failure to commit never authorizes Ack": a message leaves the broker only
\* when the host accepted it or its failure was recorded.
NothingLost == \A m \in Msgs : broker[m].state = "acked" => m \in accepted \cup recorded

\* A renewal never takes back the retry delay of a delivery that was nacked.
NackHolds ==
    \A t \in Tasks : task[t].settled = "nack" /\ Holds(t) => broker[task[t].msg].window = "retry"

\* A message is recorded as failed only once the broker has counted its last attempt:
\* each delivery judges by the attempt it was received with, however deliveries overlap.
AuditAtLimit == \A m \in recorded : broker[m].attempt >= MaxAttempts

\* Close "first ends receives, then drains actual host handlers": nil means no
\* poller, handler or consumer is left.
ClosedIsQuiet ==
    (\E k \in Closers : closer[k] = "ok") =>
        /\ Busy = {}
        /\ \A g \in Groups : group[g].consumer # "open" /\ group[g].poller \in {"none", "dead"}

\* A Close that does not time out ends, whatever was received meanwhile.
CloseEnds == \A k \in Closers : closer[k] = "draining" ~> closer[k] \in {"ok", "timeout"}

\* A message is acknowledged in the end, through redeliveries, lost answers,
\* expired handlers and failing audits, unless the subscriber is closed.
EventuallyAcked == \A m \in Msgs : <>(broker[m].state = "acked" \/ sub.stopping)
=============================================================================

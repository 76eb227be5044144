---------------------------- MODULE PushConsumer ----------------------------
(***************************************************************************)
(* The driver's push consumer: process queues with their receive loops     *)
(* (process_queue.go), the scan of assignments and the shutdown order      *)
(* (push_consumer.go), the standard and FIFO consume services              *)
(* (consumer_service.go) and the thread pool (simple_thread_pool.go).      *)
(* A view is one delivery of a message; the lite variants are left out.    *)
(***************************************************************************)
EXTENDS Integers, Sequences, FiniteSets, SequencesExt, FiniteSetsExt

CONSTANTS
    Msgs, MQs,              \* messages; message queues of the topic
    QueueOf,                \* the message queue of each message
    Corrupted,              \* messages whose body fails its digest
    Pqs, Views,             \* names of process queues and of deliveries
    Fifo,                   \* FIFO consume service, or the standard one
    MaxCacheMessageCount,   \* also the size of the pool's task queue
    ReceiveBatchSize, ThreadCount, MaxAttempts,
    MaxFaults               \* bound on errors, lapses and changes of assignment

PushAssumption ==
    /\ QueueOf \in [Msgs -> MQs] /\ Corrupted \subseteq Msgs /\ Fifo \in BOOLEAN
    /\ {MaxCacheMessageCount, ReceiveBatchSize, ThreadCount, MaxAttempts} \subseteq Nat \ {0}

VARIABLES
    broker,     \* per message: "visible", "held", "acked" or "dlq"; the view with its handle
    assigned,   \* message queues the server assigns to this client
    pq,         \* process queues: mq, dropped, cached count, stage of the receive loop
    table,      \* processQueueTable
    scanning,   \* a scan of the assignments is under way
    view,       \* deliveries: message, process queue, stage, result, rest of its batch
    tasks,      \* the pool's task channel
    pc,         \* stopping, pool, on, and the stage of GracefulStop
    consumed,   \* messages the listener succeeded on
    faults

vars == <<broker, assigned, pq, table, scanning, view, tasks, pc, consumed, faults>>
loops == <<assigned, pq, table, scanning>>

None == "none"
Fault == faults < MaxFaults /\ faults' = faults + 1
NewPq == [mq |-> None, dropped |-> FALSE, cached |-> 0, loop |-> "none"]
NewView == [msg |-> None, pq |-> None, stage |-> "unused", rest |-> <<>>, attempt |-> 0]
queueSize == Cardinality({q \in MQs : table[q] # None})
isRunning == ~pc.stopping /\ pc.on

Init ==
    /\ broker = [m \in Msgs |-> [state |-> "visible", holder |-> None, attempt |-> 0]]
    /\ assigned = MQs /\ table = [q \in MQs |-> None] /\ scanning = FALSE
    /\ pq = [p \in Pqs |-> NewPq] /\ view = [v \in Views |-> NewView] /\ tasks = <<>>
    /\ pc = [stopping |-> FALSE, on |-> TRUE, pool |-> "running", stop |-> "no"]
    /\ consumed = {} /\ faults = 0

-----------------------------------------------------------------------------
(* Assignments *)

\* The server rebalances.
Rebalance ==
    /\ Fault /\ \E A \in SUBSET MQs : A # assigned /\ assigned' = A
    /\ UNCHANGED <<broker, pq, table, scanning, view, tasks, pc, consumed>>

\* "When stopping in progress, return directly": looked at once, at the start.
ScanBegin ==
    /\ ~scanning /\ ~pc.stopping /\ pc.on
    /\ scanning' = TRUE
    /\ UNCHANGED <<broker, assigned, pq, table, view, tasks, pc, consumed, faults>>

\* A process queue is idle for long only while its loop waits to submit.
expired(p) == pq[p].loop = "submit"

\* Mutant: a dropped queue stays in the table.
syncProcessQueueKeeping(latest, old) ==
    LET live == {q \in latest : table[q] # None /\ q \notin old}
        fresh == {p \in Pqs : \/ pq[p].mq = None
                              \/ /\ pq[p].dropped /\ pq[p].loop = "none"
                                 /\ \A v \in Views : view[v].pq # p}
        new == CHOOSE f \in [latest \ live -> fresh] :
                  \A q, r \in latest \ live : q # r => f[q] # f[r]
    IN    /\ table' = [q \in MQs |-> IF table[q] # None THEN table[q]
                                     ELSE IF q \in latest THEN new[q] ELSE None]
          /\ pq' = [p \in Pqs |->
                IF \E q \in latest \ live : table[q] = None /\ new[q] = p
                THEN [NewPq EXCEPT !.mq = CHOOSE q \in latest \ live : new[q] = p, !.loop = "start"]
                ELSE IF \E q \in MQs : table[q] = p /\ q \notin live
                THEN [pq[p] EXCEPT !.dropped = TRUE] ELSE pq[p]]

\* syncProcessQueue: drops what is not in latest or in old, creates what is missing.
syncProcessQueue(latest, old) ==
    LET live == {q \in latest : table[q] # None /\ q \notin old}
        fresh == {p \in Pqs : \/ pq[p].mq = None
                              \/ /\ pq[p].dropped /\ pq[p].loop = "none"
                                 /\ \A v \in Views : view[v].pq # p}
        new == CHOOSE f \in [latest \ live -> fresh] :
                  \A q, r \in latest \ live : q # r => f[q] # f[r]
    IN    /\ table' = [q \in MQs |-> IF q \in live THEN table[q]
                                     ELSE IF q \in latest THEN new[q] ELSE None]
          /\ pq' = [p \in Pqs |->
                IF \E q \in latest \ live : new[q] = p
                THEN [NewPq EXCEPT !.mq = CHOOSE q \in latest \ live : new[q] = p, !.loop = "start"]
                ELSE IF \E q \in MQs : table[q] = p /\ q \notin live
                THEN [pq[p] EXCEPT !.dropped = TRUE] ELSE pq[p]]

\* A failed query leaves newest nil and is synced like an empty assignment.
scanAssignments ==
    /\ scanning /\ scanning' = FALSE
    /\ \/ syncProcessQueue(assigned, {}) /\ UNCHANGED faults
       \/ /\ Fault
          /\ \/ syncProcessQueue({}, {})
             \/ \E q \in MQs : /\ table[q] # None /\ expired(table[q])
                               /\ syncProcessQueue(assigned, {q})
    /\ UNCHANGED <<broker, assigned, view, tasks, pc, consumed>>

-----------------------------------------------------------------------------
(* The receive loop of a process queue *)

goto(p, l) == pq' = [pq EXCEPT ![p].loop = l]
threshold == IF queueSize = 0 THEN 0 ELSE Max({1, MaxCacheMessageCount \div queueSize})
isCacheFull(p) == threshold <= pq[p].cached
getReceptionBatchSize(p) == Min({Max({threshold - pq[p].cached, 1}), ReceiveBatchSize})

\* A new queue, or the timer of receiveMessageLater: neither looks at dropped.
receiveMessageImmediately(p) ==
    /\ pq[p].loop \in {"start", "later"}
    /\ goto(p, IF isRunning THEN "checked" ELSE "none")
    /\ UNCHANGED <<broker, assigned, table, scanning, view, tasks, pc, consumed, faults>>

\* The request is counted and sent some time after isRunning was looked at.
SendReceive(p) ==
    /\ pq[p].loop = "checked" /\ goto(p, "request")
    /\ UNCHANGED <<broker, assigned, table, scanning, view, tasks, pc, consumed, faults>>

\* receiveMessage of the consumer: what the response stream may carry; if the stream
\* or its final status fails, what was read of it is dropped.
streamed(p) == {m \in Msgs : QueueOf[m] = pq[p].mq /\ broker[m].state = "visible"}

\* onReceiveMessageResult: the messages are cached and offered to the pool in order.
onReceiveMessageResult(p) ==
    /\ pq[p].loop = "request" /\ pc.on
    /\ \E S \in SUBSET streamed(p) :
       \E at \in [S -> {v \in Views : view[v].stage = "unused"}], order \in SetToSeqs(S) :
          /\ S # {} /\ Cardinality(S) <= getReceptionBatchSize(p)
          /\ \A m, n \in S : m # n => at[m] # at[n]
          /\ broker' = [m \in Msgs |-> IF m \in S
                THEN [state |-> "held", holder |-> at[m], attempt |-> Min({broker[m].attempt + 1, MaxAttempts})]
                ELSE broker[m]]
          /\ view' = [v \in Views |-> IF \E m \in S : at[m] = v
                THEN LET m == CHOOSE m \in S : at[m] = v
                         i == CHOOSE i \in DOMAIN order : order[i] = m
                     IN  [msg |-> m, pq |-> p, attempt |-> Min({broker[m].attempt + 1, MaxAttempts}),
                          stage |-> IF Fifo /\ i > 1 THEN "waiting" ELSE "offered",
                          rest |-> IF Fifo /\ i < Len(order) THEN <<at[order[i + 1]]>> ELSE <<>>]
                ELSE view[v]]
          /\ pq' = [pq EXCEPT ![p].loop = "submit", ![p].cached = @ + Cardinality(S)]
    /\ UNCHANGED <<assigned, table, scanning, tasks, pc, consumed, faults>>

\* MESSAGE_NOT_FOUND: tried again later.
ReceiveNothing(p) ==
    /\ pq[p].loop = "request" /\ goto(p, "later")
    /\ UNCHANGED <<broker, assigned, table, scanning, view, tasks, pc, consumed, faults>>

\* Any other error: tried again later; messages may be lost on the way.
onReceiveMessageException(p) ==
    /\ pq[p].loop = "request" /\ goto(p, "later")
    /\ IF pc.on THEN Fault ELSE UNCHANGED faults
    /\ broker' \in {broker} \cup {[broker EXCEPT ![m].state = "held"] :
                                     m \in {n \in streamed(p) : pc.on}}
    /\ UNCHANGED <<assigned, table, scanning, view, tasks, pc, consumed>>

\* receiveMessage, once the batch is submitted: dropped and full are looked at here.
receiveMessage(p) ==
    /\ pq[p].loop = "submit"
    /\ ~ \E v \in Views : view[v].pq = p /\ view[v].stage = "offered"
    /\ goto(p, IF pq[p].dropped THEN "none"
               ELSE IF isCacheFull(p) THEN "later"
               ELSE IF isRunning THEN "checked" ELSE "none")
    /\ UNCHANGED <<broker, assigned, table, scanning, view, tasks, pc, consumed, faults>>

-----------------------------------------------------------------------------
(* The thread pool and the consume services *)

\* Threads taken: those in the listener, and those that offer the next of a batch.
busy == Cardinality({v \in Views : view[v].stage \in {"running", "next"}})

\* Mutant: Submit does not wait for room in the task channel.
SubmitUnbounded(v) ==
    /\ view[v].stage \in {"offered", "next"} /\ view[v].msg \notin Corrupted
    /\ IF pc.pool # "running"
       THEN view' = [view EXCEPT ![v].stage = "gone"] /\ UNCHANGED tasks
       ELSE tasks' = Append(tasks, v) /\ view' = [view EXCEPT ![v].stage = "queued"]
    /\ UNCHANGED <<broker, loops, pc, consumed, faults>>

\* Submit: refused once the pool is shut down, otherwise waits for room.
Submit(v) ==
    /\ view[v].stage \in {"offered", "next"} /\ view[v].msg \notin Corrupted
    /\ IF pc.pool # "running"
       THEN view' = [view EXCEPT ![v].stage = "gone"] /\ UNCHANGED tasks
       ELSE /\ Len(tasks) < MaxCacheMessageCount
            /\ tasks' = Append(tasks, v)
            /\ view' = [view EXCEPT ![v].stage = "queued"]
    /\ UNCHANGED <<broker, loops, pc, consumed, faults>>

\* A worker takes a task, the remaining ones too when the pool shuts down.
RunTask ==
    /\ tasks # <<>> /\ busy < ThreadCount /\ pc.pool # "closed"
    /\ tasks' = Tail(tasks)
    /\ view' = [view EXCEPT ![Head(tasks)].stage = "running"]
    /\ UNCHANGED <<broker, loops, pc, consumed, faults>>

\* consumeIteratively: the next message of the batch, offered by this worker, or by
\* the receive loop after a corrupted one.
continued(V, v) ==
    IF view[v].rest = <<>> THEN V
    ELSE [V EXCEPT ![Head(view[v].rest)].stage =
                        IF view[v].stage = "offered" THEN "offered" ELSE "next"]

\* Mutant: FIFO failures are acknowledged when the attempts are used up.
eraseStageAcking(v, ok) ==
    CASE ok -> "ack"
      [] ~ok /\ ~Fifo -> "nack"
      [] ~ok /\ Fifo /\ view[v].attempt < MaxAttempts -> "retry"
      [] OTHER -> "ack"

\* eraseMessage and eraseFifoMessage: what follows a result of the listener.
eraseStage(v, ok) ==
    CASE ok -> "ack"
      [] ~ok /\ ~Fifo -> "nack"
      [] ~ok /\ Fifo /\ view[v].attempt < MaxAttempts -> "retry"
      [] OTHER -> "dlq"

\* The listener returns, or panics; the next of the batch follows at once, a
\* retry of this one after its delay.
ListenerReturns(v) ==
    /\ view[v].stage = "running"
    /\ \E ok \in BOOLEAN :
          /\ consumed' = IF ok THEN consumed \cup {view[v].msg} ELSE consumed
          /\ LET st == eraseStage(v, ok)
             IN  view' = continued([view EXCEPT ![v].stage = st, ![v].rest = <<>>,
                                     ![v].attempt = IF st = "retry" THEN @ + 1 ELSE @], v)
    /\ UNCHANGED <<broker, loops, tasks, pc, faults>>

\* A corrupted message is not consumed: nacked, or forwarded by the FIFO service.
discardMessage(v) ==
    /\ view[v].stage \in {"offered", "next"} /\ view[v].msg \in Corrupted
    /\ view' = continued([view EXCEPT ![v].stage = IF Fifo THEN "dlq" ELSE "nack", ![v].rest = <<>>], v)
    /\ UNCHANGED <<broker, loops, tasks, pc, consumed, faults>>

\* consumeWithDuration: a FIFO retry is submitted by its timer.
RetryTimer(v) ==
    /\ view[v].stage = "retry"
    /\ IF pc.pool # "running"
       THEN view' = [view EXCEPT ![v].stage = "gone"] /\ UNCHANGED tasks
       ELSE /\ Len(tasks) < MaxCacheMessageCount
            /\ tasks' = Append(tasks, v) /\ view' = [view EXCEPT ![v].stage = "queued"]
    /\ UNCHANGED <<broker, loops, pc, consumed, faults>>

-----------------------------------------------------------------------------
(* Settlement, repeated every second until the broker answers *)

valid(v) == broker[view[v].msg].holder = v

\* Mutant: an invalid receipt handle does not evict the message.
SettledLeaking(v, st, effect) ==
    /\ view[v].stage = st /\ pc.on
    /\ broker' = IF valid(v) THEN [broker EXCEPT ![view[v].msg] = effect] ELSE broker
    /\ view' = [view EXCEPT ![v].stage = "over"]
    /\ pq' = IF valid(v) THEN [pq EXCEPT ![view[v].pq].cached = @ - 1] ELSE pq
    /\ UNCHANGED <<assigned, table, scanning, tasks, pc, consumed, faults>>

\* Mutant: an invalid receipt handle is retried like any error.
SettledStubborn(v, st, effect) ==
    /\ view[v].stage = st /\ pc.on /\ valid(v)
    /\ broker' = [broker EXCEPT ![view[v].msg] = effect]
    /\ view' = [view EXCEPT ![v].stage = "over"]
    /\ pq' = [pq EXCEPT ![view[v].pq].cached = @ - 1]
    /\ UNCHANGED <<assigned, table, scanning, tasks, pc, consumed, faults>>

\* The callback of a settlement that is not tried again: the message is evicted.  An
\* invalid receipt handle changes nothing at the broker.
Settled(v, st, effect) ==
    /\ view[v].stage = st /\ pc.on
    /\ broker' = IF valid(v) THEN [broker EXCEPT ![view[v].msg] = effect] ELSE broker
    /\ view' = [view EXCEPT ![v].stage = "over"]
    /\ pq' = [pq EXCEPT ![view[v].pq].cached = @ - 1]
    /\ UNCHANGED <<assigned, table, scanning, tasks, pc, consumed, faults>>

\* What the broker keeps of the message after the request of each kind.
ack0 == [state |-> "acked", holder |-> None, attempt |-> 0]
changeInvisibleDuration0(v) == [broker[view[v].msg] EXCEPT !.state = "visible", !.holder = None]
forwardMessageToDeadLetterQueue0 == [state |-> "dlq", holder |-> None, attempt |-> 0]

\* ack0 gives the answer back as it came: OK and an invalid handle end the acknowledgement.
ackMessage(v) == Settled(v, "ack", ack0)
\* changeInvisibleDuration0 makes an error of every answer but OK, so that an invalid
\* handle is tried again every second; the branch that would forgive it is not reached.
changeInvisibleDuration(v) ==
    view[v].stage = "nack" /\ valid(v) /\ Settled(v, "nack", changeInvisibleDuration0(v))
\* Only OK ends the forwarding, too.
forwardToDeadLetterQueue(v) ==
    view[v].stage = "dlq" /\ valid(v) /\ Settled(v, "dlq", forwardMessageToDeadLetterQueue0)

\* The name of a delivery that is over is used again.
Forget(v) ==
    /\ view[v].stage = "over"
    /\ view' = [view EXCEPT ![v] = NewView]
    /\ UNCHANGED <<broker, loops, tasks, pc, consumed, faults>>

\* Invisibility ends; while the message is worked on only after a stall.
Lapse(m) ==
    /\ broker[m].state = "held"
    /\ IF broker[m].holder # None /\ view[broker[m].holder].stage \notin {"gone", "over"}
       THEN Fault ELSE UNCHANGED faults
    /\ broker' = [broker EXCEPT ![m].state = "visible", ![m].holder = None]
    /\ UNCHANGED <<loops, view, tasks, pc, consumed>>

-----------------------------------------------------------------------------
(* GracefulStop *)

stopStep(from, to) ==
    /\ pc.stop = from /\ pc' = to
    /\ UNCHANGED <<broker, loops, view, tasks, consumed, faults>>

GracefulStop == stopStep("no", [pc EXCEPT !.stopping = TRUE, !.stop = "receives"])

\* Until no request is in flight, or the long polling and request timeouts have
\* passed; an empty answer is never counted down, so the timeout may come first.
waitingReceiveRequestFinished == stopStep("receives", [pc EXCEPT !.stop = "pool"])

ShutdownPool == stopStep("pool", [pc EXCEPT !.pool = "draining", !.stop = "drain"])

\* Mutant: Shutdown does not wait for the workers.
PoolDrainedEarly == stopStep("drain", [pc EXCEPT !.pool = "closed", !.stop = "off"])

\* waitGroup.Wait: the workers complete what was accepted.
PoolDrained ==
    /\ tasks = <<>> /\ busy = 0
    /\ stopStep("drain", [pc EXCEPT !.pool = "closed", !.stop = "off"])

\* A second for the acknowledgements, then the client.
StopClient == stopStep("off", [pc EXCEPT !.on = FALSE, !.stop = "done"])

-----------------------------------------------------------------------------
LoopStep(p) ==
    \/ receiveMessageImmediately(p) \/ SendReceive(p) \/ onReceiveMessageResult(p)
    \/ ReceiveNothing(p) \/ onReceiveMessageException(p) \/ receiveMessage(p)
Settle(v) == ackMessage(v) \/ changeInvisibleDuration(v) \/ forwardToDeadLetterQueue(v)
ViewStep(v) == Submit(v) \/ ListenerReturns(v) \/ discardMessage(v) \/ RetryTimer(v) \/ Settle(v)
StopStep == waitingReceiveRequestFinished \/ ShutdownPool \/ PoolDrained \/ StopClient
Stopped == pc.stop = "done" /\ UNCHANGED vars

Next ==
    \/ Rebalance \/ ScanBegin \/ scanAssignments \/ RunTask
    \/ \E p \in Pqs : LoopStep(p)
    \/ \E v \in Views : ViewStep(v) \/ Forget(v)
    \/ \E m \in Msgs : Lapse(m)
    \/ GracefulStop \/ StopStep \/ Stopped

Spec == Init /\ [][Next]_vars

\* Timers fire, goroutines run, the listener returns, long polls end.
Fairness ==
    /\ WF_vars(ScanBegin) /\ WF_vars(scanAssignments) /\ WF_vars(RunTask) /\ WF_vars(StopStep)
    /\ \A p \in Pqs : WF_vars(LoopStep(p)) /\ SF_vars(onReceiveMessageResult(p))
    /\ \A v \in Views : WF_vars(ViewStep(v)) /\ WF_vars(Forget(v))
    /\ \A m \in Msgs : WF_vars(Lapse(m))

FairSpec == Spec /\ Fairness
-----------------------------------------------------------------------------
(* Properties *)

\* Stages, the size of the task channel and the threads of the pool.
TypeOK ==
    /\ \A m \in Msgs : /\ broker[m].state \in {"visible", "held", "acked", "dlq"}
                       /\ broker[m].attempt \in 0..MaxAttempts
    /\ \A p \in Pqs : pq[p].loop \in {"none", "start", "checked", "request", "submit", "later"}
    /\ Len(tasks) <= MaxCacheMessageCount /\ busy <= ThreadCount
    /\ pc.pool \in {"running", "draining", "closed"} /\ faults \in 0..MaxFaults

\* A message is acknowledged only if the listener once succeeded on it, through
\* retries, stale deliveries and receipt handles that lapsed; only the FIFO
\* service forwards to the dead letter queue.
AckedIsConsumed ==
    \A m \in Msgs : /\ broker[m].state = "acked" => m \in consumed
                    /\ broker[m].state = "dlq" => Fifo

\* The cached count of a process queue is the number of its deliveries that are
\* not over: a delivery is evicted once, when its settlement ends, and one that is
\* refused by the pool or tried again for ever keeps its place.
CacheCount ==
    \A p \in Pqs : pq[p].cached =
        Cardinality({v \in Views : view[v].pq = p /\ view[v].stage \notin {"unused", "over"}})

\* Shutdown waits for "all message consumption finished": the listener is not
\* called after it, though messages still arrive from requests in flight.
NoListenerAfterStop == pc.stop \in {"off", "done"} => busy = 0 /\ tasks = <<>>

\* GracefulStop: "when begin shutdown, do not send any new receive request".
NoNewReceive ==
    [][pc.stopping => \A p \in Pqs : pq'[p].loop = "request" => pq[p].loop = "request"]_vars

\* An assigned queue is received from, now or later, through failed queries that
\* drop every queue, rebalancing and queues that expire under a slow listener.
QueueServed ==
    \A q \in MQs : []<>(\/ q \notin assigned \/ pc.stopping
                        \/ table[q] # None /\ pq[table[q]].loop # "none")

\* The settlements that no answer of the broker ends.
stuck(v) == view[v].stage \in {"nack", "dlq"} /\ ~valid(v)

\* A delivery ends: settled, or refused by a pool that was shut down, or left to
\* its invisibility when the client stops; only a nack or a forwarding whose receipt
\* handle has lapsed goes on, and an acknowledgement whose handle lapsed does not.
DeliveryEnds ==
    \A v \in Views : view[v].stage = "offered" ~>
        view[v].stage \in {"over", "unused", "gone"} \/ stuck(v) \/ pc.stopping

\* "Failed to change invisible duration due to the invalid receipt handle, forgive to
\* retry": a nack whose handle has lapsed is given up, as an acknowledgement is.
NackForgiven ==
    \A v \in Views : view[v].stage = "nack" /\ ~valid(v) ~> view[v].stage # "nack" \/ pc.stopping
=============================================================================

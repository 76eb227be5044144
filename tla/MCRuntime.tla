----------------------------- MODULE MCRuntime -----------------------------
(***************************************************************************)
(* The transactional runtimes of both SDKs and the RocketMQ driver for     *)
(* model checking: the driver's producer (extended here), its client and   *)
(* its push consumer, the Go sender's lifecycle, and Python's sender and   *)
(* relay.  They share no state, so the initial state says which of them takes the  *)
(* steps, and the state spaces add up.  MCProgress asks for liveness.      *)
(***************************************************************************)
EXTENDS DriverProducer

VARIABLES
    part,       \* the component that takes the steps
    table, conn, session, loop, telem, client, cfaults,
    broker, assigned, pq, qtable, scanning, view, tasks, pc, consumed, qfaults,
    start, startErr, started, stopping, checksClosing, dbHealthy, stopped, backend, caller, queue,
    worker, check, maint, batch, closer, dbUp, outages, expired, locked,
    rt, available, call, ycheck, pool, ymaint, ycloser, yfaults,
    row, accepted, notified, relay, lloop, host, lfaults

clientVars == <<table, conn, session, loop, telem, client, cfaults>>
pushVars == <<broker, assigned, pq, qtable, scanning, view, tasks, pc, consumed, qfaults>>
lifeVars == <<start, startErr, started, stopping, checksClosing, dbHealthy, stopped, backend, caller,
              queue, worker, check, maint, batch, closer, dbUp, outages, expired, locked>>
senderVars == <<rt, available, call, ycheck, pool, ymaint, ycloser, yfaults>>
relayVars == <<row, accepted, notified, relay, lloop, host, lfaults>>

Client == INSTANCE DriverClient WITH
        Endpoints <- {"e1", "e2"}, Loops <- {"heartbeat", "routes"}, MaxConns <- 4, MaxFaults <- 1,
        faults <- cfaults

\* The two services run on the same variables.
Push == INSTANCE PushConsumer WITH
        Msgs <- {"m1", "m2"}, MQs <- {"q1"}, QueueOf <- [m \in {"m1", "m2"} |-> "q1"],
        Corrupted <- {"m2"}, Pqs <- {"p1", "p2"}, Views <- {"v1", "v2"}, Fifo <- FALSE,
        MaxCacheMessageCount <- 1, ReceiveBatchSize <- 2, ThreadCount <- 1, MaxAttempts <- 2,
        MaxFaults <- 1, table <- qtable, faults <- qfaults
PushFifo == INSTANCE PushConsumer WITH
        Msgs <- {"m1", "m2"}, MQs <- {"q1"}, QueueOf <- [m \in {"m1", "m2"} |-> "q1"],
        Corrupted <- {"m2"}, Pqs <- {"p1", "p2"}, Views <- {"v1", "v2"}, Fifo <- TRUE,
        MaxCacheMessageCount <- 2, ReceiveBatchSize <- 2, ThreadCount <- 1, MaxAttempts <- 2,
        MaxFaults <- 1, table <- qtable, faults <- qfaults

Life == INSTANCE SenderLifecycle WITH
        Callers <- {"c1", "c2"}, Checks <- {"k1", "k2"}, Workers <- {"w1"}, Sends <- 1,
        CheckQueue <- 1, Execs <- {}, ReconcileBatch <- 1, MaxOutages <- 1

Sender == INSTANCE PySender WITH
        Callers <- {"c1", "c2", "c3"}, Checks <- {"k1", "k2"}, Sends <- 2, Workers <- 1, Waiting <- 1,
        MaxFaults <- 1, check <- ycheck, maint <- ymaint, closer <- ycloser, faults <- yfaults

Relay == INSTANCE PyRelay WITH
        Rows <- {"r1", "r2"}, Limit <- 1, Hosts <- {"h1"}, MaxLoops <- 2, MaxFaults <- 2,
        loop <- lloop, faults <- lfaults

ASSUME Constants ==
    /\ Client!DriverClientAssumption /\ Push!PushAssumption /\ PushFifo!PushAssumption
    /\ Life!LifecycleAssumption /\ Sender!PySenderAssumption /\ Relay!PyRelayAssumption

RuntimeInit ==
    /\ part \in {"producer", "client", "push", "fifo", "lifecycle", "sender", "relay"}
    /\ Init /\ Client!Init /\ Life!Init /\ Sender!Init /\ Relay!Init
    /\ IF part = "fifo" THEN PushFifo!Init ELSE Push!Init

\* The producer, the client and the relay are at rest when their calls have ended;
\* the others must always have a step to take.
Rest == part \in {"producer", "client", "relay"}
        /\ UNCHANGED <<vars, clientVars, pushVars, lifeVars, senderVars, relayVars>>

RuntimeNext ==
    /\ UNCHANGED part
    /\ \/ part = "producer" /\ Next /\ UNCHANGED <<clientVars, pushVars, lifeVars, senderVars, relayVars>>
       \/ part = "client" /\ Client!Next /\ UNCHANGED <<vars, pushVars, lifeVars, senderVars, relayVars>>
       \/ part = "push" /\ Push!Next /\ UNCHANGED <<vars, clientVars, lifeVars, senderVars, relayVars>>
       \/ part = "fifo" /\ PushFifo!Next /\ UNCHANGED <<vars, clientVars, lifeVars, senderVars, relayVars>>
       \/ part = "lifecycle" /\ Life!Next /\ UNCHANGED <<vars, clientVars, pushVars, senderVars, relayVars>>
       \/ part = "sender" /\ Sender!Next /\ UNCHANGED <<vars, clientVars, pushVars, lifeVars, relayVars>>
       \/ part = "relay" /\ Relay!Next /\ UNCHANGED <<vars, clientVars, pushVars, lifeVars, senderVars>>
       \/ Rest

RuntimeSpec ==
    RuntimeInit /\ [][RuntimeNext]_<<part, vars, clientVars, pushVars, lifeVars, senderVars, relayVars>>

-----------------------------------------------------------------------------
(* Properties, besides those of DriverProducer *)

\* A delivery is accounted for: the push consumer counts as cached exactly what it has
\* not evicted, and evicts nothing twice; its task queue keeps its size, it acknowledges only what the listener succeeded on, Python's
\* relay marks a row delivered only when the receiver holds it, and the senders admit
\* no more calls and check-backs than they have slots and queue for.
DeliveryAccounted ==
    /\ part = "push" => Push!TypeOK /\ Push!CacheCount /\ Push!AckedIsConsumed
    /\ part = "fifo" => PushFifo!TypeOK /\ PushFifo!CacheCount /\ PushFifo!AckedIsConsumed
    /\ part = "relay" => Relay!DeliveredIsAccepted
    /\ part = "lifecycle" => Life!TypeOK
    /\ part = "sender" => Sender!TypeOK

\* A shutdown that reports its end leaves nothing alive behind: no connection of the
\* client comes back, no listener runs, and the senders have drained calls, then
\* maintenance, then check-backs, then the driver.
StoppedIsQuiet == /\ part = "client" => Client!NothingRecreated
                  /\ part = "push" => Push!NoListenerAfterStop
                  /\ part = "fifo" => PushFifo!NoListenerAfterStop
                  /\ part = "lifecycle" => Life!DrainsInOrder /\ Life!StoppedIsQuiet
                  /\ part = "sender" => Sender!ClosedIsQuiet

\* No wakeup is lost on an asyncio event that one task clears and another sets: a
\* caller of the sender does not sleep beside a free slot, nor the relay over a notify.
NoLostWakeup == /\ part = "sender" => Sender!NoSleepBesideSlot
                /\ part = "relay" => Relay!NoSleepOverHint
=============================================================================

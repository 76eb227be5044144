----------------------------- MODULE MCProgress -----------------------------
(***************************************************************************)
(* Liveness of the components, each on a small instance of its own.  They  *)
(* share no state, so the initial state says which of them takes the       *)
(* steps, and the state spaces add up.  A property holds of a component    *)
(* under that component's fairness, which is its module's Fairness with    *)
(* part = ... in front of every action (part never changes): TLC need not  *)
(* look at a component's actions in the states of the others.              *)
(***************************************************************************)
EXTENDS Naturals

CONSTANTS Request, Request2     \* the requests of the transaction store

VARIABLES
    part,       \* the component that takes the steps
    nsqd, attempts, task, causes, accepted, copies, audited, runs, answers, faults,
    mu, stopping, running, pc, todo, business, failure, handler, hmu, hclosing, hstopping, drained,
    producer, sending, ending, stopper, deliveries,
    prep, topic, channel, late, backlog, got, due, vfaults,
    ynsqd, reader, ytask, sub, yaccepted, yaudited, yruns, yfaults,
    broker, group, rtask, rsub, closer, raccepted, recorded, rfaults,
    call, send, pub, inner, bcloser, stored, starts,
    qbroker, assigned, pq, table, scanning, view, tasks, qpc, consumed, qfaults,
    zbroker, poll, ztask, stop, zaccepted, zaudited, zruns, zfaults,
    driver, start, close, caller, thread, result, sstored, sfaults,
    stage, eattempts, edue, out, published, transit, eaccepted, rearms, slips,
    doc, tx, worker, claims, mfaults,
    root, ex, sess, found, granted, xstarts,
    row, laccepted, notified, relay, loop, host, lfaults,
    active, state, started, live, wit, half, final, hostTx, caps, ran, sends, held, calls, ended,
    xtask,
    fstart, startErr, fstarted, fstopping, checksClosing, dbHealthy, stopped, backend, fcaller,
    queue, fworker, check, maint, batch, fcloser, dbUp, outages, expired, locked,
    gstart, gstartErr, gstarted, gstopping, gchecksClosing, gdbHealthy, gstopped, gbackend, gcaller,
    gqueue, gworker, gcheck, gmaint, gbatch, gcloser, gdbUp, goutages, gexpired, glocked,
    rt, available, dcall, dcheck, pool, dmaint, dcloser, dfaults,
    ctable, conn, session, cloop, telem, client, cfaults,
    psend, handle, pfinal, settings, pcopies, phalf, pfaults

nsqVars == <<nsqd, attempts, task, causes, accepted, copies, audited, runs, answers, faults>>
ownerVars == <<mu, stopping, running, pc, todo, business, failure, handler, hmu, hclosing,
               hstopping, drained, producer, sending, ending, stopper, deliveries>>
provVars == <<prep, topic, channel, late, backlog, got, due, vfaults>>
pyNsqVars == <<ynsqd, reader, ytask, sub, yaccepted, yaudited, yruns, yfaults>>
rocketVars == <<broker, group, rtask, rsub, closer, raccepted, recorded, rfaults>>
pubVars == <<call, send, pub, inner, bcloser, stored, starts>>
pushVars == <<qbroker, assigned, pq, table, scanning, view, tasks, qpc, consumed, qfaults>>
pyRocketVars == <<zbroker, poll, ztask, stop, zaccepted, zaudited, zruns, zfaults>>
pyPubVars == <<driver, start, close, caller, thread, result, sstored, sfaults>>
receiptVars == <<stage, eattempts, edue, out, published, transit, eaccepted, rearms, slips>>
mongoVars == <<doc, tx, worker, claims, mfaults>>
txVars == <<root, ex, sess, found, granted, xstarts>>
relayVars == <<row, laccepted, notified, relay, loop, host, lfaults>>
executeVars == <<active, state, started, live, wit, half, final, hostTx, caps, ran, sends, held,
                 calls, ended, xtask>>
lifeVars == <<fstart, startErr, fstarted, fstopping, checksClosing, dbHealthy, stopped, backend,
              fcaller, queue, fworker, check, maint, batch, fcloser, dbUp, outages, expired, locked>>
reconcilerVars == <<gstart, gstartErr, gstarted, gstopping, gchecksClosing, gdbHealthy, gstopped,
                    gbackend, gcaller, gqueue, gworker, gcheck, gmaint, gbatch, gcloser, gdbUp, goutages,
                    gexpired, glocked>>
senderVars == <<rt, available, dcall, dcheck, pool, dmaint, dcloser, dfaults>>
clientVars == <<ctable, conn, session, cloop, telem, client, cfaults>>
producerVars == <<psend, handle, pfinal, settings, pcopies, phalf, pfaults>>
nsqGroup == <<nsqVars, ownerVars, provVars, pyNsqVars>>
rocketGroup == <<rocketVars, pubVars, pushVars, pyRocketVars, pyPubVars>>
storeGroup == <<receiptVars, mongoVars, txVars, relayVars>>
hostGroup == <<executeVars, lifeVars, reconcilerVars, senderVars, clientVars, producerVars>>

Nsq == INSTANCE NsqSubscription WITH
        Msgs <- {"m1", "m2"}, Undecodable <- {"m2"}, Procs <- {"p1"}, Tasks <- {<<"p1", "w1">>},
        MaxAttempts <- 2, MaxFaults <- 1
Owner == INSTANCE NsqSubscriber WITH
        Subs <- {"s1"}, Handlers <- {"h1"}, Closers <- {"c1", "c2"}, MaxInFlight <- 1, MaxDeliveries <- 2
Prov == INSTANCE NsqProvisioning WITH
        Hosts <- {"worker", "audit"}, N <- 1, MaxFaults <- 2,
        faults <- vfaults
PyNsq == INSTANCE PyNsqSubscriber WITH
        Msgs <- {"m1"}, Undecodable <- {}, Oversized <- {}, Tasks <- {"t1", "t2"}, MaxAttempts <- 1,
        Overlap <- FALSE, MaxFaults <- 1,
        nsqd <- ynsqd, task <- ytask, accepted <- yaccepted, audited <- yaudited, runs <- yruns,
        faults <- yfaults
Rocket == INSTANCE RocketSubscriber WITH
        Msgs <- {"m1"}, Bad <- {}, Groups <- {"g1"}, Closers <- {"c1"}, Tasks <- {"t1", "t2"},
        MaxInFlight <- 1, MaxBatch <- 2, MaxAttempts <- 1, MaxFaults <- 2,
        task <- rtask, sub <- rsub, accepted <- raccepted, faults <- rfaults
Pub == INSTANCE RocketPublisher WITH
        Calls <- {"c1"}, Closers <- {"k1", "k2"}, MaxInFlight <- 1, DriverAttempts <- 2, MaxStarts <- 1,
        closer <- bcloser
Managed == INSTANCE NsqPublisher WITH
        Calls <- {"c1"}, Closers <- {"k1", "k2"}, MaxInFlight <- 1, DriverAttempts <- 1, MaxStarts <- 0,
        closer <- bcloser
Push == INSTANCE PushConsumer WITH
        Msgs <- {"m1"}, MQs <- {"q1"}, QueueOf <- [m \in {"m1"} |-> "q1"], Corrupted <- {},
        Pqs <- {"p1", "p2"}, Views <- {"v1"}, Fifo <- FALSE, MaxCacheMessageCount <- 1,
        ReceiveBatchSize <- 1, ThreadCount <- 1, MaxAttempts <- 2, MaxFaults <- 1,
        broker <- qbroker, pc <- qpc, faults <- qfaults
PyRocket == INSTANCE PyRocketSubscriber WITH
        Msgs <- {"m1"}, Undecodable <- {}, Tasks <- {"t1", "t2"}, MaxInFlight <- 2, MaxAttempts <- 2,
        MaxFaults <- 1,
        broker <- zbroker, task <- ztask, accepted <- zaccepted, audited <- zaudited, runs <- zruns,
        faults <- zfaults
PyPub == INSTANCE PyRocketPublisher WITH
        Callers <- {"c1", "c2"}, MaxInFlight <- 1, MaxFaults <- 1,
        stored <- sstored, faults <- sfaults
Receipt == INSTANCE ReceiptOutbox WITH
        Msgs <- {1, 2}, Ordered <- {1, 2}, NeedsReceipt <- {1}, Senders <- {"s1"}, Limit <- 2,
        MaxRearms <- 1, MaxAttempts <- 2, MaxSlips <- 2,
        attempts <- eattempts, due <- edue, accepted <- eaccepted
Mongo == INSTANCE MongoOutbox WITH
        Docs <- {"d1", "d2"}, Prints <- {"a"}, Txs <- {"t1", "t2"}, Workers <- {"w1"}, Limit <- 2,
        Lease <- 1, MaxFaults <- 1,
        faults <- mfaults
Tx == INSTANCE MongoTxStore WITH
        Requests <- {Request, Request2}, NumBranches <- 1, MaxFence <- 1, Sessions <- {"s1", "s2"},
        HalfOutcomes <- {}, FinalOutcomes <- {}, Batch <- 1, MaxStarts <- 3,
        starts <- xstarts
Relay == INSTANCE PyRelay WITH
        Rows <- {"r1", "r2"}, Limit <- 1, Hosts <- {"h1"}, MaxLoops <- 2, MaxFaults <- 1,
        accepted <- laccepted, faults <- lfaults
Execute == INSTANCE PyExecute WITH
        Requests <- {Request}, NumBranches <- 1, MaxFence <- 1, Tasks <- {"p1"},
        task <- xtask
Life == INSTANCE SenderLifecycle WITH
        Callers <- {"c1"}, Checks <- {"k1", "k2"}, Workers <- {"w1"}, Sends <- 1, CheckQueue <- 1,
        Execs <- {}, ReconcileBatch <- 1, MaxOutages <- 0,
        start <- fstart, started <- fstarted, stopping <- fstopping, caller <- fcaller, worker <-
        fworker, closer <- fcloser
Reconciler == INSTANCE SenderLifecycle WITH
        Callers <- {}, Checks <- {"k1"}, Workers <- {"w1"}, Sends <- 1, CheckQueue <- 1,
        Execs <- {1, 2}, ReconcileBatch <- 1, MaxOutages <- 1,
        start <- gstart, startErr <- gstartErr, started <- gstarted, stopping <- gstopping,
        checksClosing <- gchecksClosing, dbHealthy <- gdbHealthy, stopped <- gstopped,
        backend <- gbackend, caller <- gcaller, queue <- gqueue, worker <- gworker, check <- gcheck,
        maint <- gmaint, batch <- gbatch, closer <- gcloser, dbUp <- gdbUp, outages <- goutages,
        expired <- gexpired, locked <- glocked
Sender == INSTANCE PySender WITH
        Callers <- {"c1", "c2"}, Checks <- {"k1"}, Sends <- 1, Workers <- 1, Waiting <- 1, MaxFaults <- 1,
        call <- dcall, check <- dcheck, maint <- dmaint, closer <- dcloser, faults <- dfaults
Client == INSTANCE DriverClient WITH
        Endpoints <- {"e1"}, Loops <- {"heartbeat", "routes"}, MaxConns <- 4, MaxFaults <- 1,
        table <- ctable, loop <- cloop, faults <- cfaults
Producer == INSTANCE DriverProducer WITH
        Sends <- {"s1", "s2"}, Handles <- {"h1", "h2"}, Transactional <- TRUE, Attributes <- {},
        ServerAttempts <- 2, MaxFaults <- 3,
        send <- psend, final <- pfinal, copies <- pcopies, half <- phalf, faults <- pfaults

ASSUME Constants ==
    /\ Nsq!NsqAssumption /\ Owner!SubscriberAssumption /\ Prov!ProvisioningAssumption
    /\ PyNsq!PyNsqAssumption /\ Rocket!RocketAssumption /\ Pub!PublisherAssumption
    /\ Managed!PublisherAssumption /\ Push!PushAssumption /\ PyRocket!PyRocketSubscriberAssumption
    /\ PyPub!PyRocketPublisherAssumption /\ Mongo!MongoOutboxAssumption /\ Tx!MongoTxAssumption
    /\ Relay!PyRelayAssumption /\ Life!LifecycleAssumption /\ Reconciler!LifecycleAssumption
    /\ Sender!PySenderAssumption /\ Client!DriverClientAssumption

Init ==
    /\ part \in {"nsq", "owner", "provisioner", "pynsq", "rocket", "publisher", "managed", "push",
                 "pyrocket", "pypublisher", "receipt", "mongo", "mongotx", "relay",
                 "execute", "lifecycle", "reconciler", "sender", "client",
                 "producer"}
    /\ Nsq!Init /\ Owner!Init /\ Prov!Init /\ PyNsq!Init
    /\ Rocket!Init /\ Push!Init /\ PyRocket!Init /\ PyPub!Init
    /\ Receipt!Init /\ Mongo!Init /\ Tx!Init /\ Relay!Init
    /\ Execute!Init /\ Sender!Init /\ Client!Init /\ Producer!Init
    /\ IF part = "managed" THEN Managed!NewManagedPublisher ELSE Pub!Init
    /\ Life!Init /\ Reconciler!Init /\ (part # "reconciler" => glocked = {})

NsqNext ==
    \/ part = "nsq" /\ Nsq!Next /\ UNCHANGED <<ownerVars, provVars, pyNsqVars>>
    \/ part = "owner" /\ Owner!Next /\ UNCHANGED <<nsqVars, provVars, pyNsqVars>>
    \/ part = "provisioner" /\ Prov!Next /\ UNCHANGED <<nsqVars, ownerVars, pyNsqVars>>
    \/ part = "pynsq" /\ PyNsq!Next /\ UNCHANGED <<nsqVars, ownerVars, provVars>>

RocketNext ==
    \/ part = "rocket" /\ Rocket!Next /\ UNCHANGED <<pubVars, pushVars, pyRocketVars, pyPubVars>>
    \/ part = "publisher" /\ Pub!Next /\ UNCHANGED <<rocketVars, pushVars, pyRocketVars, pyPubVars>>
    \/ part = "managed" /\ Managed!NsqNext /\ UNCHANGED <<rocketVars, pushVars, pyRocketVars, pyPubVars>>
    \/ part = "push" /\ Push!Next /\ UNCHANGED <<rocketVars, pubVars, pyRocketVars, pyPubVars>>
    \/ part = "pyrocket" /\ PyRocket!Next /\ UNCHANGED <<rocketVars, pubVars, pushVars, pyPubVars>>
    \/ part = "pypublisher" /\ PyPub!Next /\ UNCHANGED <<rocketVars, pubVars, pushVars, pyRocketVars>>

StoreNext ==
    \/ part = "receipt" /\ Receipt!Next /\ UNCHANGED <<mongoVars, txVars, relayVars>>
    \/ part = "mongo" /\ Mongo!Next /\ UNCHANGED <<receiptVars, txVars, relayVars>>
    \/ part = "mongotx" /\ Tx!Next /\ UNCHANGED <<receiptVars, mongoVars, relayVars>>
    \/ part = "relay" /\ Relay!Next /\ UNCHANGED <<receiptVars, mongoVars, txVars>>

HostNext ==
    \/ part = "execute" /\ Execute!Next /\ UNCHANGED <<lifeVars, reconcilerVars, senderVars, clientVars, producerVars>>
    \/ part = "lifecycle" /\ Life!Next /\ UNCHANGED <<executeVars, reconcilerVars, senderVars, clientVars, producerVars>>
    \/ part = "reconciler" /\ Reconciler!Next /\ UNCHANGED <<executeVars, lifeVars, senderVars, clientVars, producerVars>>
    \/ part = "sender" /\ Sender!Next /\ UNCHANGED <<executeVars, lifeVars, reconcilerVars, clientVars, producerVars>>
    \/ part = "client" /\ Client!Next /\ UNCHANGED <<executeVars, lifeVars, reconcilerVars, senderVars, producerVars>>
    \/ part = "producer" /\ Producer!Next /\ UNCHANGED <<executeVars, lifeVars, reconcilerVars, senderVars, clientVars>>

Next ==
    /\ UNCHANGED part
    /\ \/ NsqNext /\ UNCHANGED <<rocketGroup, storeGroup, hostGroup>>
       \/ RocketNext /\ UNCHANGED <<nsqGroup, storeGroup, hostGroup>>
       \/ StoreNext /\ UNCHANGED <<nsqGroup, rocketGroup, hostGroup>>
       \/ HostNext /\ UNCHANGED <<nsqGroup, rocketGroup, storeGroup>>

Spec == Init /\ [][Next]_<<part, nsqGroup, rocketGroup, storeGroup, hostGroup>>

-----------------------------------------------------------------------------
(* Fairness; the comments above Fairness in the modules say what justifies it. *)

NsqFairness ==
    /\ WF_nsqVars(part = "nsq" /\ Nsq!TaskStep(<<"p1", "w1">>))
    /\ \A m \in {"m1", "m2"} : /\ WF_nsqVars(part = "nsq" /\ Nsq!HandleFailure(m))
                               /\ WF_nsqVars(part = "nsq" /\ Nsq!HandleBusiness(<<"p1", "w1">>, m))

OwnerFairness ==
    /\ \A c \in Owner!Calls : WF_ownerVars(part = "owner" /\ Owner!CallStep(c))
    /\ WF_ownerVars(part = "owner" /\ Owner!HandlerStep("h1"))
    /\ WF_ownerVars(part = "owner" /\ Owner!GoroutineStep("s1"))

ProvFairness ==
    /\ \A h \in {"worker", "audit"} : /\ WF_provVars(part = "provisioner" /\ Prov!EnsureChannel(h))
                                      /\ WF_provVars(part = "provisioner" /\ Prov!ensure(h))

PyNsqFairness ==
    /\ WF_pyNsqVars(part = "pynsq" /\ PyNsq!startFailure)
    /\ WF_pyNsqVars(part = "pynsq" /\ PyNsq!startBusiness)
    /\ WF_pyNsqVars(part = "pynsq" /\ PyNsq!startReturns)
    /\ WF_pyNsqVars(part = "pynsq" /\ PyNsq!stopWaits)
    /\ WF_pyNsqVars(part = "pynsq" /\ PyNsq!stopCloses)
    /\ \A k \in PyNsq!Topics : WF_pyNsqVars(part = "pynsq" /\ PyNsq!dispatch(k, "m1"))
    /\ \A t \in {"t1", "t2"} : WF_pyNsqVars(part = "pynsq" /\ (PyNsq!taskStep(t) \/ PyNsq!handlerRaises(t)))

RocketFairness ==
    /\ WF_rocketVars(part = "rocket" /\ Rocket!CloseStep)
    /\ WF_rocketVars(part = "rocket" /\ Rocket!Subscribe("g1"))
    /\ WF_rocketVars(part = "rocket" /\ Rocket!PollStep("g1"))
    /\ SF_rocketVars(part = "rocket" /\ Rocket!Receive("g1"))
    /\ \A t \in {"t1", "t2"} : /\ WF_rocketVars(part = "rocket" /\ Rocket!HostStep(t))
                               /\ WF_rocketVars(part = "rocket" /\ Rocket!HandleStep(t))
    /\ WF_rocketVars(part = "rocket" /\ Rocket!Lapse("m1"))

PubFairness ==
    /\ WF_pubVars(part = "publisher" /\ Pub!GracefulStop)
    /\ WF_pubVars(part = "publisher" /\ Pub!CallStep("c1"))
    /\ WF_pubVars(part = "publisher" /\ Pub!SendStep("c1"))
    /\ \A k \in {"k1", "k2"} : WF_pubVars(part = "publisher" /\ Pub!CloseStep(k))

ManagedFairness ==
    /\ WF_pubVars(part = "managed" /\ Managed!stopProducer)
    /\ WF_pubVars(part = "managed" /\ (Managed!AdmitBytes("c1") \/ Managed!CallerReturns("c1")))
    /\ WF_pubVars(part = "managed" /\ (Managed!ProducerPublish("c1") \/ Managed!SendReturns("c1")))
    /\ \A k \in {"k1", "k2"} : WF_pubVars(part = "managed" /\ Managed!CloseManaged(k))

PushFairness ==
    /\ WF_pushVars(part = "push" /\ Push!ScanBegin)
    /\ WF_pushVars(part = "push" /\ Push!scanAssignments) /\ WF_pushVars(part = "push" /\ Push!RunTask)
    /\ WF_pushVars(part = "push" /\ Push!StopStep)
    /\ \A p \in {"p1", "p2"} : /\ WF_pushVars(part = "push" /\ Push!LoopStep(p))
                               /\ SF_pushVars(part = "push" /\ Push!onReceiveMessageResult(p))
    /\ WF_pushVars(part = "push" /\ Push!ViewStep("v1"))
    /\ WF_pushVars(part = "push" /\ Push!Forget("v1")) /\ WF_pushVars(part = "push" /\ Push!Lapse("m1"))

PyRocketFairness ==
    /\ WF_pyRocketVars(part = "pyrocket" /\ PyRocket!pollStep)
    /\ WF_pyRocketVars(part = "pyrocket" /\ PyRocket!stopReturns)
    /\ WF_pyRocketVars(part = "pyrocket" /\ PyRocket!lapse("m1") /\ ~PyRocket!held("m1"))
    /\ \A t \in {"t1", "t2"} : /\ WF_pyRocketVars(part = "pyrocket" /\ (PyRocket!taskStep(t) \/ PyRocket!handlerRaises(t)))
                               /\ WF_pyRocketVars(part = "pyrocket" /\ PyRocket!threadStep(t))
                               /\ SF_pyRocketVars(part = "pyrocket" /\ PyRocket!settleBegins(t))

PyPubFairness ==
    /\ WF_pyPubVars(part = "pypublisher" /\ PyPub!create)
    /\ WF_pyPubVars(part = "pypublisher" /\ PyPub!closeStep)
    /\ WF_pyPubVars(part = "pypublisher" /\ PyPub!stop /\ driver.closing)
    /\ \A c \in {"c1", "c2"} : WF_pyPubVars(part = "pypublisher" /\ PyPub!callerStep(c))

ReceiptFairness ==
    /\ WF_receiptVars(part = "receipt" /\ Receipt!SenderStep("s1"))
    /\ \A m \in {1, 2} : /\ WF_receiptVars(part = "receipt" /\ Receipt!Wait(m))
                         /\ WF_receiptVars(part = "receipt" /\ Receipt!Accept(m))
                         /\ WF_receiptVars(part = "receipt" /\ Receipt!Confirm(m))

MongoFairness ==
    /\ WF_mongoVars(part = "mongo" /\ Mongo!Tick)
    /\ WF_mongoVars(part = "mongo" /\ Mongo!WorkerStep("w1"))
    /\ SF_mongoVars(part = "mongo" /\ Mongo!FindOneAndUpdate("w1"))

TxFairness ==
    /\ \A s \in {"s1", "s2"} : WF_txVars(part = "mongotx" /\ Tx!SessionStep(s))
    /\ WF_txVars(part = "mongotx" /\ Tx!ReconcileFind)
    /\ \A e \in Tx!Executions : /\ WF_txVars(part = "mongotx" /\ Tx!Expire(e))
                                /\ SF_txVars(part = "mongotx" /\ Tx!ReconcileAbort(e))

RelayFairness ==
    /\ \A t \in Relay!Loops : WF_relayVars(part = "relay" /\ Relay!loopStep(t))
    /\ WF_relayVars(part = "relay" /\ Relay!stopEnds("h1"))
    /\ \A r \in {"r1", "r2"} : WF_relayVars(part = "relay" /\ Relay!backoffEnds(r))

ExecuteFairness ==
    /\ WF_executeVars(part = "execute" /\ Execute!taskStep("p1"))
    /\ SF_executeVars(part = "execute" /\ xtask["p1"].at = "stopping" /\ Execute!localReturns("p1"))
    /\ \A e \in Execute!Executions : /\ WF_executeVars(part = "execute" /\ UNCHANGED xtask /\ Execute!P!LeaseEnds(e))
                                     /\ WF_executeVars(part = "execute" /\ UNCHANGED xtask /\ Execute!P!DatabaseEnds(e))

LifeFairness ==
    /\ WF_lifeVars(part = "lifecycle" /\ Life!StartStep)
    /\ WF_lifeVars(part = "lifecycle" /\ Life!MaintStep)
    /\ SF_lifeVars(part = "lifecycle" /\ Life!MaintStop)
    /\ WF_lifeVars(part = "lifecycle" /\ Life!CloserStep)
    /\ WF_lifeVars(part = "lifecycle" /\ (Life!AdmitDecide("c1") \/ Life!ReleaseSlot("c1") \/ Life!Leave("c1")))
    /\ WF_lifeVars(part = "lifecycle" /\ Life!WorkerStep("w1"))

ReconcilerFairness ==
    /\ WF_reconcilerVars(part = "reconciler" /\ Reconciler!StartStep)
    /\ WF_reconcilerVars(part = "reconciler" /\ Reconciler!MaintStep)
    /\ SF_reconcilerVars(part = "reconciler" /\ Reconciler!MaintStop)
    /\ WF_reconcilerVars(part = "reconciler" /\ Reconciler!CloserStep)
    /\ WF_reconcilerVars(part = "reconciler" /\ Reconciler!WorkerStep("w1"))
    /\ \A e \in {1, 2} : WF_reconcilerVars(part = "reconciler" /\ Reconciler!HostEnds(e))

SenderFairness ==
    /\ WF_senderVars(part = "sender" /\ Sender!startStep)
    /\ WF_senderVars(part = "sender" /\ Sender!startRaises /\ rt.start = "failed")
    /\ WF_senderVars(part = "sender" /\ Sender!tick)
    /\ WF_senderVars(part = "sender" /\ Sender!maintStep)
    /\ WF_senderVars(part = "sender" /\ Sender!closeStep)
    /\ WF_senderVars(part = "sender" /\ Sender!checkStep("k1"))
    /\ \A c \in {"c1", "c2"} : /\ WF_senderVars(part = "sender" /\ Sender!ends(c))
                               /\ WF_senderVars(part = "sender" /\ Sender!admit(c))

ClientFairness ==
    /\ WF_clientVars(part = "client" /\ Client!startUpAwaits)
    /\ WF_clientVars(part = "client" /\ Client!startUp)
    /\ WF_clientVars(part = "client" /\ Client!stopStep)
    /\ WF_clientVars(part = "client" /\ Client!sessionStep("e1"))
    /\ WF_clientVars(part = "client" /\ Client!readerStep("e1"))
    /\ \A l \in {"heartbeat", "routes"} : WF_clientVars(part = "client" /\ Client!loopStep(l, "e1"))

ProducerFairness ==
    /\ \A s \in {"s1", "s2"} : /\ WF_producerVars(part = "producer" /\ Producer!sendStep(s))
                               /\ WF_producerVars(part = "producer" /\ Producer!recover(s))
    /\ \A h \in {"h1", "h2"} : /\ WF_producerVars(part = "producer" /\ Producer!finalize(h))
                               /\ WF_producerVars(part = "producer" /\ \E d \in {"COMMIT", "ROLLBACK"} : Producer!decide(h, d))

-----------------------------------------------------------------------------
(* Properties *)

\* Every message, row or half is settled in the end: each accepted message of the
\* subscribers is accepted or durably recorded as failed, each row of the Outboxes is
\* published, confirmed or set aside, each half of the driver is resolved.
EventuallySettled ==
    /\ part = "nsq" /\ NsqFairness => Nsq!EventuallySettled
    /\ part = "pynsq" /\ PyNsqFairness => PyNsq!EventuallySettled
    /\ part = "rocket" /\ RocketFairness => Rocket!EventuallyAcked
    /\ part = "pyrocket" /\ PyRocketFairness => PyRocket!EventuallyConsumed
    /\ part = "receipt" /\ ReceiptFairness => Receipt!EventuallyClosed
    /\ part = "mongo" /\ MongoFairness => Mongo!EventuallySettled
    /\ part = "relay" /\ RelayFairness => Relay!EventuallyDelivered
    /\ part = "producer" /\ ProducerFairness => Producer!EveryHalfResolved

\* What was begun ends: a Close or stop that is not given up returns, whatever it found
\* under way, the driver client's unless a connection was dropped under its stream; a
\* check the driver was told is taken is answered; no caller waits for a slot for ever;
\* an Execute under way returns; and an execution whose lease is over is decided, though
\* a row locked by a host delays the reconciler.
BegunEnds ==
    /\ part = "owner" /\ OwnerFairness => Owner!CloseEnds
    /\ part = "rocket" /\ RocketFairness => Rocket!CloseEnds
    /\ part = "publisher" /\ PubFairness => Pub!CloseEnds
    /\ part = "managed" /\ ManagedFairness => Managed!CloseEnds
    /\ part = "pypublisher" /\ PyPubFairness => PyPub!StopCompletes
    /\ part = "relay" /\ RelayFairness => Relay!StopReturns
    /\ part = "lifecycle" /\ LifeFairness => Life!CloseTerminates /\ Life!AcceptedChecksAnswered
    /\ part = "sender" /\ SenderFairness => Sender!AbandonedStartCloses /\ Sender!AdmittedEnd
    /\ part = "client" /\ ClientFairness => Client!StopEndsIfTracked
    /\ part = "execute" /\ ExecuteFairness => Execute!ExecuteReturns
    /\ part = "reconciler" /\ ReconcilerFairness => Reconciler!ExpiredDecided
    /\ part = "mongotx" /\ TxFairness => Tx!ExpiredAreDecided

\* Service comes back after a failure: health and readiness follow the database, though
\* the flag is written by tasks that looked at it earlier; the client listens on its
\* stream, an assigned queue has a receive loop and a delivery ends, unless its nack
\* has a handle that lapsed; every host gets its channel, through outages of the nsqd
\* nodes.
ServesAgain ==
    /\ part = "reconciler" /\ ReconcilerFairness => Reconciler!HealthFollows
    /\ part = "sender" /\ SenderFairness => Sender!HealthRecovers
    /\ part = "client" /\ ClientFairness => Client!ListensAgain
    /\ part = "push" /\ PushFairness => Push!QueueServed /\ Push!DeliveryEnds
    /\ part = "provisioner" /\ ProvFairness => Prov!EventuallyPrepared

\* The push consumer alone, with its fairness.
PushFairSpec == part = "push" /\ Spec /\ PushFairness

\* "Failed to change invisible duration due to the invalid receipt handle, forgive to
\* retry": a nack whose receipt handle has lapsed is given up, as an acknowledgement is.
NackForgiven == Push!NackForgiven
=============================================================================

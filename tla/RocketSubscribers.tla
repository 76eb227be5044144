-------------------------- MODULE RocketSubscribers --------------------------
(***************************************************************************)
(* The RocketMQ subscribers of the Go SDK and of the Python SDK.           *)
(***************************************************************************)
EXTENDS Naturals, FiniteSets

CONSTANTS
    RocketMsgs, RocketBad, RocketGroups, RocketClosers, RocketTasks, RocketInFlight, RocketBatch,
    RocketAttempts, RocketFaults,
    PyRocketMsgs, PyRocketUndecodable, PyRocketTasks, PyRocketInFlight, PyRocketAttempts, PyRocketFaults

VARIABLES
    broker, group, rtask, sub, rcloser, raccepted, recorded, rfaults,
    zbroker, poll, ztask, stop, zaccepted, zaudited, zruns, zfaults

Rocket == INSTANCE RocketSubscriber WITH
        Msgs <- RocketMsgs, Bad <- RocketBad, Groups <- RocketGroups, Closers <- RocketClosers,
        Tasks <- RocketTasks, MaxInFlight <- RocketInFlight, MaxBatch <- RocketBatch,
        MaxAttempts <- RocketAttempts, MaxFaults <- RocketFaults,
        task <- rtask, closer <- rcloser, accepted <- raccepted, faults <- rfaults

PyRocket == INSTANCE PyRocketSubscriber WITH
        Msgs <- PyRocketMsgs, Undecodable <- PyRocketUndecodable, Tasks <- PyRocketTasks,
        MaxInFlight <- PyRocketInFlight, MaxAttempts <- PyRocketAttempts, MaxFaults <- PyRocketFaults,
        broker <- zbroker, task <- ztask, accepted <- zaccepted, audited <- zaudited, runs <- zruns,
        faults <- zfaults

ASSUME RocketSubscribersAssumption ==
    Rocket!RocketAssumption /\ PyRocket!PyRocketSubscriberAssumption

rocketVars == <<broker, group, rtask, sub, rcloser, raccepted, recorded, rfaults>>
pyRocketVars == <<zbroker, poll, ztask, stop, zaccepted, zaudited, zruns, zfaults>>
=============================================================================

--------------------------- MODULE NsqSubscribers ---------------------------
(***************************************************************************)
(* The parts of the NSQ subscribers that own something they must release:  *)
(* the registrations of the Go SDK with their consumers and handoff        *)
(* producers, and the Python subscriber with its readers and handlers.     *)
(***************************************************************************)
EXTENDS Naturals, FiniteSets

CONSTANTS
    Subs, Handlers, OwnerClosers, HandoffSlots, MaxDeliveries,
    PyNsqMsgs, PyNsqUndecodable, PyNsqOversized, PyNsqTasks, PyNsqAttempts, PyNsqOverlap, PyNsqFaults

VARIABLES
    mu, stopping, running, pc, todo, business, failure, handler, hmu, hclosing, hstopping, drained,
    producer, sending, ending, stopper, deliveries,
    ynsqd, reader, ytask, ysub, yaccepted, yaudited, yruns, yfaults

Owner == INSTANCE NsqSubscriber WITH Closers <- OwnerClosers, MaxInFlight <- HandoffSlots

PyNsq == INSTANCE PyNsqSubscriber WITH
        Msgs <- PyNsqMsgs, Undecodable <- PyNsqUndecodable, Oversized <- PyNsqOversized,
        Tasks <- PyNsqTasks, MaxAttempts <- PyNsqAttempts, Overlap <- PyNsqOverlap,
        MaxFaults <- PyNsqFaults,
        nsqd <- ynsqd, task <- ytask, sub <- ysub, accepted <- yaccepted, audited <- yaudited,
        runs <- yruns, faults <- yfaults

ASSUME NsqSubscribersAssumption ==
    Owner!SubscriberAssumption /\ PyNsq!PyNsqAssumption

ownerVars == <<mu, stopping, running, pc, todo, business, failure, handler, hmu, hclosing, hstopping,
               drained, producer, sending, ending, stopper, deliveries>>
pyNsqVars == <<ynsqd, reader, ytask, ysub, yaccepted, yaudited, yruns, yfaults>>
=============================================================================

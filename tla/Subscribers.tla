----------------------------- MODULE Subscribers -----------------------------
(***************************************************************************)
(* The subscribers of both SDKs and what they promise together.  They      *)
(* share no state, so one of them takes the steps, as the initial state    *)
(* says.                                                                   *)
(***************************************************************************)
EXTENDS NsqSubscribers, RocketSubscribers

CONSTANTS NsqMsgs, NsqUndecodable, NsqProcs, NsqTasks, NsqAttempts, NsqFaults

VARIABLES
    subPart,    \* the subscriber that takes the steps
    nsqd, attempts, task, causes, accepted, copies, audited, runs, answers, faults

Nsq == INSTANCE NsqSubscription WITH
        Msgs <- NsqMsgs, Undecodable <- NsqUndecodable, Procs <- NsqProcs, Tasks <- NsqTasks,
        MaxAttempts <- NsqAttempts, MaxFaults <- NsqFaults

ASSUME SubscribersAssumption == Nsq!NsqAssumption

nsqVars == <<nsqd, attempts, task, causes, accepted, copies, audited, runs, answers, faults>>

subVars == <<subPart, nsqVars, ownerVars, rocketVars, pyNsqVars, pyRocketVars>>

SubParts == {"nsq", "owner", "rocket", "pynsq", "pyrocket"}

SubInit ==
    /\ subPart \in SubParts
    /\ Nsq!Init /\ Owner!Init /\ Rocket!Init /\ PyNsq!Init /\ PyRocket!Init

SubNext ==
    /\ UNCHANGED subPart
    /\ \/ subPart = "nsq" /\ Nsq!Next /\ UNCHANGED <<ownerVars, rocketVars, pyNsqVars, pyRocketVars>>
       \/ subPart = "owner" /\ Owner!Next /\ UNCHANGED <<nsqVars, rocketVars, pyNsqVars, pyRocketVars>>
       \/ subPart = "rocket" /\ Rocket!Next /\ UNCHANGED <<nsqVars, ownerVars, pyNsqVars, pyRocketVars>>
       \/ subPart = "pynsq" /\ PyNsq!Next /\ UNCHANGED <<nsqVars, ownerVars, rocketVars, pyRocketVars>>
       \/ subPart = "pyrocket" /\ PyRocket!Next /\ UNCHANGED <<nsqVars, ownerVars, rocketVars, pyNsqVars>>

SubSpec == SubInit /\ [][SubNext]_subVars

-----------------------------------------------------------------------------
(* Properties *)

\* A message leaves the broker only accepted by the host or durably recorded as
\* failed: in the NSQ and RocketMQ subscribers of both SDKs, whatever times out,
\* crashes, is redelivered or is answered late.
NothingLost == /\ subPart = "nsq" => Nsq!NothingLost
               /\ subPart = "rocket" => Rocket!NothingLost
               /\ subPart = "pynsq" => PyNsq!NothingLost
               /\ subPart = "pyrocket" => PyRocket!NothingLost

\* The attempt budget is the channel's or the group's, not a process's: no handler
\* gets a delivery beyond MaxAttempts, and what is audited as failed had them all.
BudgetHolds == /\ subPart = "nsq" => Nsq!BudgetHolds
               /\ subPart = "rocket" => Rocket!AuditAtLimit
               /\ subPart = "pynsq" => PyNsq!BudgetHolds
               /\ subPart = "pyrocket" => PyRocket!BudgetHolds

\* A delivery is settled once: at most one of the racing settlers answers nsqd, and
\* in RocketMQ no renewal of invisibility undoes or outlives the settlement.
OneSettlement == /\ subPart = "nsq" => Nsq!OneAnswer
                 /\ subPart = "rocket" => Rocket!NackHolds
                 /\ subPart = "pyrocket" => PyRocket!RenewalsEnd

\* A Close or stop that reports success leaves no consumer, poller, handler, reader or
\* driver call behind, and no handler or send loses the reader or producer it works on.
ClosesAfterWork ==
    /\ subPart = "owner" => Owner!ClosedIsQuiet /\ Owner!SendsHaveProducer
    /\ subPart = "rocket" => Rocket!ClosedIsQuiet
    /\ subPart = "pynsq" => PyNsq!StoppedIsQuiet /\ PyNsq!ReadersOutliveHandlers
    /\ subPart = "pyrocket" => PyRocket!StoppedIsQuiet
=============================================================================

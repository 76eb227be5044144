-------------------------- MODULE SubscriberProofs --------------------------
(***************************************************************************)
(* The inductive invariant of the life of an NSQ message, and what the     *)
(* subscribers of both SDKs promise together, from it and from the         *)
(* invariants of NsqSubscriberProofs and RocketSubscriberProofs.           *)
(***************************************************************************)
EXTENDS Subscribers, NsqSubscriberProofs, RocketSubscriberProofs

(* NsqSubscription *)

\* The stages of a handler of an NSQ delivery and of the settlers it races with.
NsqSteps == {"idle", "host", "ack", "nack", "ready", "publish", "handed", "settled"}
NsqCalls == {"none", "run", "ack", "nack"}
NsqTask == [msg : NsqMsgs \cup {"none"}, att : Nat,
            step : NsqSteps, call : [Nsq!Settlers -> NsqCalls]]

\* What the variables of NsqSubscription range over.
NsqTypes ==
    /\ nsqd \in [NsqMsgs -> NsqProcs \cup {"queued", "finished"}]
    /\ attempts \in [NsqMsgs -> Nat]
    /\ task \in [NsqTasks -> NsqTask]
    /\ copies \in [NsqMsgs -> Nat]
    /\ runs \in [NsqMsgs -> Nat]
    /\ answers \in [NsqTasks -> Nat]

\* What a handler has established by its stage: an Ack stands for a message the host
\* accepted, a finished handoff for a failure copy or an audit.
NsqHandling ==
    \A t \in NsqTasks :
        /\ task[t].step # "idle" => task[t].msg \in NsqMsgs
        /\ task[t].step = "ack" => task[t].msg \in accepted
        /\ \A g \in Nsq!Settlers : task[t].call[g] = "ack" => task[t].msg \in accepted
        /\ task[t].step = "handed" => copies[task[t].msg] > 0 \/ task[t].msg \in audited

\* No answer went to nsqd before the delivery was settled, and none after the first.
NsqAnswered ==
    \A t \in NsqTasks :
        /\ task[t].step \notin {"idle", "settled"} => answers[t] = 0
        /\ answers[t] <= 1

\* Every run of the host consumed an attempt nsqd counted.
NsqCounted ==
    \A m \in NsqMsgs :
        /\ runs[m] <= attempts[m]
        /\ runs[m] <= NsqAttempts
        /\ m \in NsqUndecodable => runs[m] = 0

\* The inductive invariant of NsqSubscription.
NsqInv == NsqTypes /\ NsqHandling /\ NsqAnswered /\ NsqCounted /\ Nsq!NothingLost

\* The updates of a task: its stage, one settler, or the choice of one settler.
Stepped(x, v) == [x EXCEPT !.step = v]
Called(x, g, how) == [x EXCEPT !.call[g] = how]
Chosen(x, v) == [x EXCEPT !.step = v, !.call = [o \in Nsq!Settlers |-> "none"]]

\* Updates of a task give a task, and change the field they name only.
LEMMA NsqRecords ==
  ASSUME NEW x \in NsqTask
  PROVE  /\ \A v \in NsqSteps :
              /\ Stepped(x, v) \in NsqTask /\ Stepped(x, v).step = v
              /\ Stepped(x, v).msg = x.msg /\ Stepped(x, v).call = x.call
              /\ Chosen(x, v) \in NsqTask /\ Chosen(x, v).step = v /\ Chosen(x, v).msg = x.msg
              /\ \A o \in Nsq!Settlers : Chosen(x, v).call[o] = "none"
         /\ \A g \in Nsq!Settlers, how \in NsqCalls :
              /\ Called(x, g, how) \in NsqTask /\ Called(x, g, how).step = x.step
              /\ Called(x, g, how).msg = x.msg /\ Called(x, g, how).call[g] = how
              /\ \A o \in Nsq!Settlers : o # g => Called(x, g, how).call[o] = x.call[o]
<1>1. ASSUME NEW v \in NsqSteps
      PROVE  /\ Stepped(x, v) \in NsqTask /\ Stepped(x, v).step = v
             /\ Stepped(x, v).msg = x.msg /\ Stepped(x, v).call = x.call
  BY Zenon DEF NsqTask, Stepped
<1>2. ASSUME NEW v \in NsqSteps
      PROVE  /\ Chosen(x, v) \in NsqTask /\ Chosen(x, v).step = v /\ Chosen(x, v).msg = x.msg
             /\ \A o \in Nsq!Settlers : Chosen(x, v).call[o] = "none"
  <2>1. [o \in Nsq!Settlers |-> "none"] \in [Nsq!Settlers -> NsqCalls]
    BY Zenon DEF NsqCalls
  <2> QED
    BY Zenon, <2>1 DEF NsqTask, Chosen
<1>3. ASSUME NEW g \in Nsq!Settlers, NEW how \in NsqCalls
      PROVE  /\ Called(x, g, how) \in NsqTask /\ Called(x, g, how).step = x.step
             /\ Called(x, g, how).msg = x.msg /\ Called(x, g, how).call[g] = how
             /\ \A o \in Nsq!Settlers : o # g => Called(x, g, how).call[o] = x.call[o]
  BY Zenon DEF NsqTask, Called
<1> QED
  BY Zenon, <1>1, <1>2, <1>3

\* Every step of NsqSubscription keeps the invariant: deliveries, settlers, handoffs,
\* timeouts of nsqd and crashes.
LEMMA NsqStep == NsqInv /\ [Nsq!Next]_Nsq!vars => NsqInv'
<1> SUFFICES ASSUME NsqInv, [Nsq!Next]_Nsq!vars PROVE NsqInv'
  BY Zenon
<1> USE SubscribersAssumption DEF NsqInv, NsqTypes, NsqHandling, NsqAnswered, NsqCounted, Nsq!NothingLost, Nsq!NsqAssumption
<1>1. ASSUME NEW t \in NsqTasks, NEW m \in NsqMsgs, Nsq!HandleBusiness(t, m) PROVE NsqInv'
  BY <1>1 DEF Nsq!HandleBusiness, NsqTask, NsqSteps, NsqCalls, Nsq!idle
<1>2. ASSUME NEW t \in NsqTasks, NEW g \in Nsq!Settlers, NEW how \in {"ack", "nack"}, Nsq!Decide(t, g, how) PROVE NsqInv'
  <2>1. task' = [task EXCEPT ![t] = Called(task[t], g, how)]
    BY Zenon, <1>2 DEF Nsq!Decide, Called
  <2>2. /\ task[t] \in NsqTask /\ task[t].step = "host" /\ (how = "ack" => task[t].msg \in accepted)
        /\ UNCHANGED <<nsqd, attempts, accepted, copies, audited, runs, answers>>
    BY Zenon, <1>2 DEF Nsq!Decide, Nsq!hostVars
  <2>3. /\ task' \in [NsqTasks -> NsqTask]
        /\ task'[t].step = task[t].step /\ task'[t].msg = task[t].msg /\ task'[t].call[g] = how
        /\ \A o \in Nsq!Settlers : o # g => task'[t].call[o] = task[t].call[o]
        /\ \A u \in NsqTasks : u # t => task'[u] = task[u]
    <3>1. how \in NsqCalls
      BY Zenon DEF NsqCalls
    <3>2. /\ Called(task[t], g, how) \in NsqTask /\ Called(task[t], g, how).step = task[t].step
          /\ Called(task[t], g, how).msg = task[t].msg /\ Called(task[t], g, how).call[g] = how
          /\ \A o \in Nsq!Settlers : o # g => Called(task[t], g, how).call[o] = task[t].call[o]
      BY SMT, <3>1, <2>2, NsqRecords
    <3> QED
      BY Zenon, <2>1, <2>2, <3>2
  <2>4. \A u \in NsqTasks, o \in Nsq!Settlers : task'[u].call[o] = "ack" => task'[u].msg \in accepted
    BY <2>2, <2>3
  <2> QED
    BY Zenon, <2>2, <2>3, <2>4
<1>3. ASSUME NEW t \in NsqTasks, NEW g \in Nsq!Settlers, Nsq!settle(t, g) PROVE NsqInv'
  <2>1. task' = [task EXCEPT ![t] = Chosen(task[t], task[t].call[g])]
    BY Zenon, <1>3 DEF Nsq!settle, Chosen
  <2>2. /\ task[t] \in NsqTask /\ task[t].step = "host" /\ task[t].call[g] \in {"ack", "nack"}
        /\ UNCHANGED <<nsqd, attempts, accepted, copies, audited, runs, answers>>
    BY Zenon, <1>3 DEF Nsq!settle, Nsq!hostVars
  <2>3. /\ task' \in [NsqTasks -> NsqTask]
        /\ task'[t].step = task[t].call[g] /\ task'[t].msg = task[t].msg
        /\ \A o \in Nsq!Settlers : task'[t].call[o] = "none"
        /\ \A u \in NsqTasks : u # t => task'[u] = task[u]
    BY <2>1, <2>2, NsqRecords DEF NsqSteps
  <2> QED
    BY <2>2, <2>3
<1>4. ASSUME NEW t \in NsqTasks, Nsq!Ack(t) \/ Nsq!HandoffFinish(t) PROVE NsqInv'
  <2>1. task' = [task EXCEPT ![t] = Stepped(task[t], "settled")]
    BY Zenon, <1>4 DEF Nsq!Ack, Nsq!HandoffFinish, Stepped
  <2> QED
    BY <1>4, <2>1, NsqRecords DEF Nsq!Ack, Nsq!HandoffFinish, Nsq!Respond, Nsq!hostVars, NsqSteps
<1>5. ASSUME NEW t \in NsqTasks, Nsq!fail(t) \/ Nsq!HandoffReady(t) PROVE NsqInv'
  <2>1. \E v \in {"ready", "publish", "settled"} :
          /\ task' = [task EXCEPT ![t] = Stepped(task[t], v)]
          /\ \/ v # "settled" /\ UNCHANGED <<nsqd, answers>>
             \/ v = "settled" /\ Nsq!Respond(t, "queued")
    BY Zenon, <1>5 DEF Nsq!fail, Nsq!HandoffReady, Stepped
  <2> QED
    BY <1>5, <2>1, NsqRecords DEF Nsq!fail, Nsq!HandoffReady, Nsq!Respond, Nsq!hostVars, NsqSteps
<1>6. ASSUME NEW t \in NsqTasks, Nsq!HandoffConfirmed(t) PROVE NsqInv'
  <2>1. task' = [task EXCEPT ![t] = Stepped(task[t], "handed")]
    BY Zenon, <1>6 DEF Nsq!HandoffConfirmed, Stepped
  <2> QED
    BY <1>6, <2>1, NsqRecords DEF Nsq!HandoffConfirmed, NsqSteps
<1>7. ASSUME NEW t \in NsqTasks, Nsq!HandoffUnknown(t) PROVE NsqInv'
  <2>1. task' = [task EXCEPT ![t] = Stepped(task[t], "settled")]
    BY Zenon, <1>7 DEF Nsq!HandoffUnknown, Stepped
  <2> QED
    BY <1>7, <2>1, NsqRecords DEF Nsq!HandoffUnknown, Nsq!Respond, NsqSteps
<1>8. ASSUME NEW t \in NsqTasks, Nsq!leave(t) \/ Nsq!HostAccepts(t) PROVE NsqInv'
  <2>1. CASE Nsq!leave(t)
    BY Zenon, <2>1 DEF Nsq!leave, Nsq!hostVars, NsqTask, NsqSteps, NsqCalls, Nsq!idle
  <2>2. CASE Nsq!HostAccepts(t)
    BY Zenon, <2>2 DEF Nsq!HostAccepts
  <2> QED
    BY Zenon, <1>8, <2>1, <2>2
<1>9. ASSUME NEW m \in NsqMsgs, Nsq!Timeout(m) \/ Nsq!HandleFailure(m) PROVE NsqInv'
  BY <1>9 DEF Nsq!Timeout, Nsq!HandleFailure, Nsq!hostVars
<1>10. ASSUME NEW p \in NsqProcs, Nsq!Crash(p) PROVE NsqInv'
  BY Zenon, <1>10 DEF Nsq!Crash, Nsq!hostVars, NsqTask, NsqSteps, NsqCalls, Nsq!idle
<1>11. CASE UNCHANGED Nsq!vars
  BY Zenon, <1>11 DEF Nsq!vars
<1> HIDE DEF NsqInv
<1>12. ASSUME NEW t \in NsqTasks, Nsq!TaskStep(t) PROVE NsqInv'
  BY Zenon, <1>12, <1>2, <1>3, <1>4, <1>5, <1>6, <1>8 DEF Nsq!TaskStep
<1> QED
  BY Zenon, <1>1, <1>7, <1>8, <1>9, <1>10, <1>11, <1>12 DEF Nsq!Next, Nsq!Done

\* The invariant holds before the first delivery.
LEMMA NsqStart == Nsq!Init => NsqInv
<1> SUFFICES ASSUME Nsq!Init PROVE NsqInv
  BY Zenon
<1> QED
  BY SubscribersAssumption DEF Nsq!Init, NsqInv, NsqTypes, NsqHandling, NsqAnswered, NsqCounted, Nsq!NothingLost,
     Nsq!NsqAssumption, NsqTask, NsqSteps, NsqCalls, Nsq!idle

-----------------------------------------------------------------------------
(* The subscribers together *)

\* The subscriber that takes the steps satisfies its invariant.
SubInv ==
    /\ subPart \in SubParts
    /\ subPart = "nsq" => NsqInv
    /\ subPart = "owner" => OwnerInv
    /\ subPart = "rocket" => RocketInv
    /\ subPart = "pynsq" => PyNsqInv
    /\ subPart = "pyrocket" => PyRocketInv

\* Every step of the subscriber that takes the steps keeps its invariant.
LEMMA SubStep == SubInv /\ [SubNext]_subVars => SubInv'
<1> SUFFICES ASSUME SubInv, [SubNext]_subVars PROVE SubInv'
  OBVIOUS
<1>1. subPart' = subPart
  BY Zenon DEF SubNext, subVars
<1>2. CASE subPart = "nsq"
  <2>1. [Nsq!Next]_Nsq!vars
    BY Zenon, <1>2 DEF SubNext, subVars, nsqVars, Nsq!vars
  <2> QED
    BY <1>1, <1>2, <2>1, NsqStep DEF SubInv
<1>3. CASE subPart = "rocket"
  <2>1. [Rocket!Next]_Rocket!vars
    BY Zenon, <1>3 DEF SubNext, subVars, rocketVars, Rocket!vars
  <2> QED
    BY <1>1, <1>3, <2>1, RocketStep DEF SubInv
<1>4. CASE subPart = "pynsq"
  <2>1. [PyNsq!Next]_PyNsq!vars
    BY Zenon, <1>4 DEF SubNext, subVars, pyNsqVars, PyNsq!vars
  <2> QED
    BY <1>1, <1>4, <2>1, PyNsqStep DEF SubInv
<1>5. CASE subPart = "pyrocket"
  <2>1. [PyRocket!Next]_PyRocket!vars
    BY Zenon, <1>5 DEF SubNext, subVars, pyRocketVars, PyRocket!vars
  <2> QED
    BY <1>1, <1>5, <2>1, PyRocketStep DEF SubInv
<1>6. CASE subPart = "owner"
  <2>1. [Owner!Next]_Owner!vars
    BY Zenon, <1>6 DEF SubNext, subVars, ownerVars, Owner!vars, Owner!regVars, Owner!consumers,
       Owner!handoff
  <2> QED
    BY <1>1, <1>6, <2>1, OwnerStep DEF SubInv
<1> QED
  BY <1>2, <1>3, <1>4, <1>5, <1>6 DEF SubInv, SubParts

\* Whichever subscriber runs, its invariant is inductive.
THEOREM SubscribersInvariant == SubSpec => []SubInv
<1>1. SubInit => SubInv
  BY NsqStart, OwnerStart, RocketStart, PyNsqStart, PyRocketStart DEF SubInit, SubInv
<1> QED
  BY <1>1, SubStep, PTL DEF SubSpec

\* A message leaves the broker only accepted or durably recorded as failed, in all four
\* subscribers.
THEOREM SubscribersLoseNothing == SubSpec => []NothingLost
<1>1. SubInv => NothingLost
  BY Zenon DEF SubInv, NothingLost, NsqInv, RocketInv, PyNsqInv, PyRocketInv
<1> QED
  BY <1>1, SubscribersInvariant, PTL

\* No handler gets a delivery beyond MaxAttempts, and what is audited as failed had them
\* all.
THEOREM SubscribersKeepBudget == SubSpec => []BudgetHolds
<1>1. NsqInv => Nsq!BudgetHolds
  BY SubscribersAssumption DEF NsqInv, NsqCounted, Nsq!BudgetHolds, Nsq!NsqAssumption
<1>2. PyNsqInv => PyNsq!BudgetHolds
  BY Zenon DEF PyNsqInv, PyNsqCounted, PyNsq!BudgetHolds
<1>3. PyRocketInv => PyRocket!BudgetHolds
  BY Zenon DEF PyRocketInv, PyRocketPolling, PyRocket!BudgetHolds
<1>4. SubInv => BudgetHolds
  BY Zenon, <1>1, <1>2, <1>3 DEF SubInv, BudgetHolds, RocketInv
<1> QED
  BY <1>4, SubscribersInvariant, PTL

\* A delivery is settled at most once, and no renewal undoes a settlement.
THEOREM SubscribersSettleOnce == SubSpec => []OneSettlement
<1>1. NsqInv => Nsq!OneAnswer
  BY Zenon DEF NsqInv, NsqAnswered, Nsq!OneAnswer
<1>2. PyRocketInv => PyRocket!RenewalsEnd
  BY DEF PyRocketInv, PyRocketHandling, PyRocketHandles, PyRocket!RenewalsEnd
<1>3. SubInv => OneSettlement
  BY Zenon, <1>1, <1>2 DEF SubInv, OneSettlement, RocketInv
<1> QED
  BY <1>3, SubscribersInvariant, PTL

\* Close and stop report success with nothing left behind.  For the Python NSQ subscriber
\* this takes a host that calls stop after start has returned: a start that is still
\* opening readers can open one behind the stop.
THEOREM SubscribersCloseAfterWork == ~PyNsqOverlap /\ SubSpec => []ClosesAfterWork
<1>1. RocketInv => Rocket!ClosedIsQuiet
  BY DEF RocketInv, RocketClosing, Rocket!ClosedIsQuiet
<1>2. PyNsqInv /\ ~PyNsqOverlap => PyNsq!StoppedIsQuiet /\ PyNsq!ReadersOutliveHandlers
  BY DEF PyNsqInv, PyNsqStopping, PyNsq!StoppedIsQuiet, PyNsq!ReadersOutliveHandlers
<1>3. PyRocketInv => PyRocket!StoppedIsQuiet
  BY DEF PyRocketInv, PyRocketStopping, PyRocket!StoppedIsQuiet
<1>4. SubInv /\ ~PyNsqOverlap => ClosesAfterWork
  BY Zenon, <1>1, <1>2, <1>3, OwnerPromises DEF SubInv, ClosesAfterWork
<1>5. CASE ~PyNsqOverlap
  <2>1. SubInv => ClosesAfterWork
    BY <1>4, <1>5
  <2> QED
    BY <2>1, SubscribersInvariant, PTL
<1> QED
  BY <1>5

\* Even when start and stop overlap, no reader of the Python NSQ subscriber is closed
\* under a handler.
THEOREM PyNsqReadersOutliveHandlers == SubSpec => [](subPart = "pynsq" => PyNsq!ReadersOutliveHandlers)
<1>1. SubInv => (subPart = "pynsq" => PyNsq!ReadersOutliveHandlers)
  BY DEF SubInv, PyNsqInv, PyNsqStopping, PyNsq!ReadersOutliveHandlers
<1> QED
  BY <1>1, SubscribersInvariant, PTL

\* Two registrations of one topic and channel never coexist in a Go NSQ subscriber,
\* whatever a failed one left behind.
THEOREM OneRegistrationAtATime == SubSpec => [](subPart = "owner" => Owner!OneRegistration)
<1>1. SubInv => (subPart = "owner" => Owner!OneRegistration)
  BY Zenon, OwnerPromises DEF SubInv
<1> QED
  BY <1>1, SubscribersInvariant, PTL
=============================================================================

--------------------------- MODULE NsqSubscription ---------------------------
(***************************************************************************)
(* The settlement of NSQ deliveries (transport/nsq/subscription.go): the   *)
(* business handler with its two possible settlers, the attempt budget,    *)
(* the failed handoff to the failure topic and the failure handler.  nsqd  *)
(* counts attempts, redelivers after a timeout or a lost connection, and   *)
(* obeys FIN and REQ only from the process a message is in flight to.      *)
(***************************************************************************)
EXTENDS Naturals, FiniteSets

CONSTANTS
    Msgs,           \* messages of the business topic
    Undecodable,    \* those whose envelope does not decode
    Procs,          \* processes that subscribe to the channel
    Tasks,          \* their concurrent handlers: <<process, worker>>
    MaxAttempts,    \* SubscriptionConfig.MaxAttempts
    MaxFaults       \* bound on timeouts, crashes and failed or unknown handoffs

NsqAssumption ==
    /\ Undecodable \subseteq Msgs
    /\ \A t \in Tasks : t[1] \in Procs
    /\ Procs \cap {"queued", "finished"} = {}
    /\ MaxAttempts \in Nat \ {0} /\ MaxFaults \in Nat

VARIABLES
    nsqd,       \* where nsqd has each message: "queued", a process, "finished"
    attempts,   \* nsqd's attempts of each message
    task,       \* the delivery each worker of each process handles
    causes,     \* Subscription.causes of each process
    accepted,   \* messages the host durably accepted
    copies,     \* failure records nsqd holds for each message
    audited,    \* failure records the failed handler made durable
    runs,       \* history: deliveries handed to the business handler
    answers,    \* history: FIN and REQ of the delivery of each worker
    faults

vars == <<nsqd, attempts, task, causes, accepted, copies, audited, runs, answers, faults>>
hostVars == <<accepted, copies, audited, runs>>

Settlers == {"handler", "helper"}   \* goroutines that may settle a delivery
idle == [msg |-> "none", att |-> 0, step |-> "idle", call |-> [g \in Settlers |-> "none"]]

Fault == faults < MaxFaults /\ faults' = faults + 1

Init ==
    /\ nsqd = [m \in Msgs |-> "queued"]
    /\ attempts = [m \in Msgs |-> 0]
    /\ task = [t \in Tasks |-> idle]
    /\ causes = [p \in Procs |-> {}]
    /\ accepted = {} /\ audited = {}
    /\ copies = [m \in Msgs |-> 0]
    /\ runs = [m \in Msgs |-> 0]
    /\ answers = [t \in Tasks |-> 0]
    /\ faults = 0

-----------------------------------------------------------------------------
(* nsqd *)

\* The response of a delivery; one that no longer owns the message fails.
Respond(t, to) ==
    /\ nsqd' = [nsqd EXCEPT ![task[t].msg] = IF @ = t[1] THEN to ELSE @]
    /\ answers' = [answers EXCEPT ![t] = @ + 1]

\* The message timeout, or a lost connection.
Timeout(m) ==
    /\ nsqd[m] \in Procs
    /\ Fault
    /\ nsqd' = [nsqd EXCEPT ![m] = "queued"]
    /\ UNCHANGED <<attempts, task, causes, hostVars, answers>>

Crash(p) ==
    /\ \E t \in Tasks : t[1] = p /\ task[t] # idle
    /\ Fault
    /\ task' = [t \in Tasks |-> IF t[1] = p THEN idle ELSE task[t]]
    /\ nsqd' = [m \in Msgs |-> IF nsqd[m] = p THEN "queued" ELSE nsqd[m]]
    /\ causes' = [causes EXCEPT ![p] = {}]
    /\ UNCHANGED <<attempts, hostVars, answers>>

-----------------------------------------------------------------------------
(* HandleBusiness and the delivery's settlement *)

\* Mutant: a delivery beyond the budget runs the handler as well.
HandleBusinessUnbounded(t, m) ==
    /\ task[t] = idle /\ nsqd[m] = "queued"
    /\ nsqd' = [nsqd EXCEPT ![m] = t[1]]
    /\ attempts' = [attempts EXCEPT ![m] = @ + 1]
    /\ answers' = [answers EXCEPT ![t] = 0]
    /\ LET toHost == m \notin Undecodable
       IN  /\ task' = [task EXCEPT ![t] =
                [msg |-> m, att |-> attempts[m] + 1, step |-> IF toHost THEN "host" ELSE "nack",
                 call |-> [g \in Settlers |-> IF toHost THEN "run" ELSE "none"]]]
           /\ runs' = [runs EXCEPT ![m] = IF toHost THEN @ + 1 ELSE @]
    /\ UNCHANGED <<causes, accepted, copies, audited, faults>>

\* nsqd delivers; undecodable or exhausted messages skip the handler.
HandleBusiness(t, m) ==
    /\ task[t] = idle /\ nsqd[m] = "queued"
    /\ nsqd' = [nsqd EXCEPT ![m] = t[1]]
    /\ attempts' = [attempts EXCEPT ![m] = @ + 1]
    /\ answers' = [answers EXCEPT ![t] = 0]
    /\ LET toHost == m \notin Undecodable /\ attempts[m] + 1 <= MaxAttempts
       IN  /\ task' = [task EXCEPT ![t] =
                [msg |-> m, att |-> attempts[m] + 1, step |-> IF toHost THEN "host" ELSE "nack",
                 call |-> [g \in Settlers |-> IF toHost THEN "run" ELSE "none"]]]
           /\ runs' = [runs EXCEPT ![m] = IF toHost THEN @ + 1 ELSE @]
    /\ UNCHANGED <<causes, accepted, copies, audited, faults>>

\* The host makes the message durable; only then may it acknowledge.
HostAccepts(t) ==
    /\ task[t].step = "host"
    /\ accepted' = accepted \cup {task[t].msg}
    /\ accepted' # accepted
    /\ UNCHANGED <<nsqd, attempts, task, causes, copies, audited, runs, answers, faults>>

\* The handler returns nil or an error, or a goroutine of the host calls Ack
\* or Nack.
Decide(t, g, how) ==
    /\ task[t].call[g] = "run" /\ task[t].step = "host"
    /\ how = "ack" => task[t].msg \in accepted
    /\ task' = [task EXCEPT ![t].call[g] = how]
    /\ UNCHANGED <<nsqd, attempts, causes, hostVars, answers, faults>>

\* Mutant: the second settler settles as well.
SettleAgain(t, g) ==
    /\ task[t].call[g] \in {"ack", "nack"}
    /\ task[t].step \in {"host", "settled"}
    /\ task' = [task EXCEPT ![t].step = task[t].call[g], ![t].call[g] = "none"]
    /\ UNCHANGED <<nsqd, attempts, causes, hostVars, answers, faults>>

\* The first to settle; the others find done set and wait for its result, which
\* is all the handler's return still has to do.
settle(t, g) ==
    /\ task[t].call[g] \in {"ack", "nack"}
    /\ task[t].step = "host"
    /\ task' = [task EXCEPT ![t].step = task[t].call[g],
                            ![t].call = [o \in Settlers |-> "none"]]
    /\ UNCHANGED <<nsqd, attempts, causes, hostVars, answers, faults>>

forget(t) == causes' = [causes EXCEPT ![t[1]] = @ \ {task[t].msg}]
remember(t) == causes' = [causes EXCEPT ![t[1]] = @ \cup {task[t].msg}]

Ack(t) ==
    /\ task[t].step = "ack"
    /\ forget(t)
    /\ Respond(t, "finished")
    /\ task' = [task EXCEPT ![t].step = "settled"]
    /\ UNCHANGED <<attempts, hostVars, faults>>

\* Mutant: the last attempt of the budget is requeued, not handed off.
failLate(t) ==
    /\ task[t].step = "nack"
    /\ remember(t)
    /\ IF task[t].att <= MaxAttempts
       THEN /\ Respond(t, "queued")
            /\ task' = [task EXCEPT ![t].step = "settled"]
       ELSE /\ task' = [task EXCEPT ![t].step = "ready"]
            /\ UNCHANGED <<nsqd, answers>>
    /\ UNCHANGED <<attempts, hostVars, faults>>

\* Nack: remember the cause, requeue within the budget, else hand off.
fail(t) ==
    /\ task[t].step = "nack"
    /\ remember(t)
    /\ IF task[t].att < MaxAttempts
       THEN /\ Respond(t, "queued")
            /\ task' = [task EXCEPT ![t].step = "settled"]
       ELSE /\ task' = [task EXCEPT ![t].step = "ready"]
            /\ UNCHANGED <<nsqd, answers>>
    /\ UNCHANGED <<attempts, hostVars, faults>>

\* Handoff.Ready, then Handoff.Publish; both may fail, and an unconfirmed
\* publish may have reached the failure topic.
HandoffReady(t) ==
    /\ task[t].step = "ready"
    /\ \/ /\ task' = [task EXCEPT ![t].step = "publish"]
          /\ UNCHANGED <<nsqd, answers, faults>>
       \/ /\ Fault
          /\ Respond(t, "queued")
          /\ task' = [task EXCEPT ![t].step = "settled"]
    /\ UNCHANGED <<attempts, causes, hostVars>>

HandoffConfirmed(t) ==
    /\ task[t].step = "publish"
    /\ copies' = [copies EXCEPT ![task[t].msg] = @ + 1]
    /\ task' = [task EXCEPT ![t].step = "handed"]
    /\ UNCHANGED <<nsqd, attempts, causes, accepted, audited, runs, answers, faults>>

\* Mutant: an unconfirmed handoff finishes the original.
HandoffUnknownFinishes(t) ==
    /\ task[t].step = "publish"
    /\ Fault
    /\ \/ copies' = [copies EXCEPT ![task[t].msg] = @ + 1]
       \/ UNCHANGED copies
    /\ Respond(t, "finished")
    /\ task' = [task EXCEPT ![t].step = "settled"]
    /\ UNCHANGED <<attempts, causes, accepted, audited, runs>>

HandoffUnknown(t) ==
    /\ task[t].step = "publish"
    /\ Fault
    /\ \/ copies' = [copies EXCEPT ![task[t].msg] = @ + 1]
       \/ UNCHANGED copies
    /\ Respond(t, "queued")
    /\ task' = [task EXCEPT ![t].step = "settled"]
    /\ UNCHANGED <<attempts, causes, accepted, audited, runs>>

HandoffFinish(t) ==
    /\ task[t].step = "handed"
    /\ forget(t)
    /\ Respond(t, "finished")
    /\ task' = [task EXCEPT ![t].step = "settled"]
    /\ UNCHANGED <<attempts, hostVars, faults>>

\* HandleBusiness returns once the settlement is done and, if a helper settled,
\* the handler has returned; a helper that settles later finds it done.
leave(t) ==
    /\ task[t].step = "settled"
    /\ task' = [task EXCEPT ![t] = idle]
    /\ UNCHANGED <<nsqd, attempts, causes, hostVars, answers, faults>>

-----------------------------------------------------------------------------
(* HandleFailure *)

\* Mutant: the failure record is finished before the failed handler ran.
HandleFailureEagerly(m) ==
    /\ copies[m] > 0
    /\ \/ /\ audited' = audited \cup {m}
          /\ copies' = [copies EXCEPT ![m] = @ - 1]
          /\ UNCHANGED faults
       \/ /\ Fault
          /\ copies' = [copies EXCEPT ![m] = @ - 1]
          /\ UNCHANGED audited
    /\ UNCHANGED <<nsqd, attempts, task, causes, accepted, runs, answers>>

\* The failed handler makes the record durable and FIN follows; a lost FIN or
\* a crash in between leaves the record for another delivery, an error requeues.
HandleFailure(m) ==
    /\ copies[m] > 0
    /\ \/ /\ audited' = audited \cup {m}
          /\ copies' = [copies EXCEPT ![m] = @ - 1]
          /\ UNCHANGED faults
       \/ /\ Fault
          /\ audited' \in {audited, audited \cup {m}}
          /\ UNCHANGED copies
    /\ UNCHANGED <<nsqd, attempts, task, causes, accepted, runs, answers>>

TaskStep(t) ==
    \/ \E g \in Settlers : settle(t, g) \/ \E how \in {"ack", "nack"} : Decide(t, g, how)
    \/ Ack(t) \/ fail(t) \/ HandoffReady(t) \/ HandoffConfirmed(t) \/ HandoffFinish(t) \/ leave(t)

Done ==
    /\ \A m \in Msgs : nsqd[m] = "finished" /\ copies[m] = 0
    /\ \A t \in Tasks : task[t] = idle
    /\ UNCHANGED vars

Next ==
    \/ \E t \in Tasks :
          \/ TaskStep(t) \/ HostAccepts(t) \/ HandoffUnknown(t)
          \/ \E m \in Msgs : HandleBusiness(t, m)
    \/ \E m \in Msgs : Timeout(m) \/ HandleFailure(m)
    \/ \E p \in Procs : Crash(p)
    \/ Done

Spec == Init /\ [][Next]_vars

\* Goroutines run, handlers return, nsqd delivers what is queued.
Fairness ==
    /\ \A t \in Tasks : WF_vars(TaskStep(t))
    /\ \A m \in Msgs : WF_vars(HandleFailure(m)) /\ WF_vars(\E t \in Tasks : HandleBusiness(t, m))

FairSpec == Spec /\ Fairness

-----------------------------------------------------------------------------
(* Properties *)

\* The state of nsqd, the deliveries and the remembered causes.
TypeOK ==
    /\ nsqd \in [Msgs -> Procs \cup {"queued", "finished"}]
    /\ attempts \in [Msgs -> 0..(MaxAttempts + MaxFaults)]
    /\ \A t \in Tasks :
          /\ task[t].msg \in Msgs \cup {"none"}
          /\ task[t].step \in {"idle", "host", "ack", "nack", "ready", "publish", "handed", "settled"}
          /\ task[t].call \in [Settlers -> {"none", "run", "ack", "nack"}]
    /\ causes \in [Procs -> SUBSET Msgs]
    /\ accepted \subseteq Msgs /\ audited \subseteq Msgs
    /\ copies \in [Msgs -> Nat]
    /\ faults \in 0..MaxFaults

\* "The original is finished only after the handoff is confirmed": whatever
\* times out, crashes, is redelivered or answered twice, a message nsqd dropped
\* was accepted by the host, or its failure record is on the broker or durable.
NothingLost ==
    \A m \in Msgs : nsqd[m] = "finished" => m \in accepted \/ copies[m] > 0 \/ m \in audited

\* The budget is the channel's, not the process's: over all processes and
\* restarts the business handler sees a message at most MaxAttempts times,
\* and never one that does not decode.
BudgetHolds ==
    /\ \A m \in Msgs : runs[m] <= MaxAttempts
    /\ \A m \in Undecodable : runs[m] = 0

\* Handler and helper settle a delivery together once: one FIN or REQ.
OneAnswer == \A t \in Tasks : answers[t] <= 1

\* Every message is accepted by the host or durably recorded as failed, and
\* leaves the broker.
EventuallySettled ==
    \A m \in Msgs : <>(nsqd[m] = "finished" /\ copies[m] = 0 /\ (m \in accepted \/ m \in audited))
=============================================================================

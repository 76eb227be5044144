----------------------- MODULE RocketSubscriberProofs -----------------------
(***************************************************************************)
(* The inductive invariants of the RocketMQ subscribers, for every set of  *)
(* messages, groups, tasks and closers and every limit, and that every     *)
(* step keeps them.                                                        *)
(***************************************************************************)
EXTENDS RocketSubscribers, TLAPS

(* RocketSubscriber *)

\* What a delivery and a message of the RocketMQ subscriber look like.
RocketTask == [msg : RocketMsgs \cup {"none"}, stage : {"idle", "handling", "failing", "done"},
               ended : BOOLEAN, waiting : BOOLEAN, settled : {"no", "ack", "nack"}, ok : BOOLEAN,
               last : BOOLEAN]

RocketMessage == [state : {"visible", "held", "acked"}, holder : RocketTasks \cup {"none"},
                  window : {"long", "retry"}, attempt : 0..(RocketAttempts + 1)]

\* What the variables of RocketSubscriber range over, its groups apart.
RocketTypes ==
    /\ broker \in [RocketMsgs -> RocketMessage]
    /\ rtask \in [RocketTasks -> RocketTask]
    /\ sub \in [stopping : BOOLEAN, mu : RocketGroups \cup {"free"},
                drained : {"no", "pollers", "handlers", "yes"}, shutdown : {"no", "going", "done"}]
    /\ rcloser \in [RocketClosers -> {"idle", "draining", "stopping", "ok", "timeout"}]

\* What a delivery has established: success stands for an accepted or recorded message,
\* the last attempt and the audit of a failure for a message at its limit.
RocketHandling ==
    \A t \in RocketTasks :
        /\ rtask[t].stage # "idle" => rtask[t].msg \in RocketMsgs
        /\ rtask[t].ok => rtask[t].msg \in raccepted \cup recorded
        /\ rtask[t].stage = "failing" \/ (rtask[t].stage # "idle" /\ rtask[t].last) => broker[rtask[t].msg].attempt >= RocketAttempts
        /\ rtask[t].stage = "idle" => rtask[t] = Rocket!idle

\* The batches the pollers hold, whatever they are.
RocketBatches == {group[g].batch : g \in RocketGroups}
RocketPoller(B) == [consumer : {"none", "open", "stopped"}, poller : {"none", "top", "receive", "dead"}, batch : B]

\* The stages of the consumers and pollers.
RocketGroup == group \in [RocketGroups -> RocketPoller(RocketBatches)]

\* How far Close has come: stopping, the pollers, the handlers, the consumers.
RocketClosing ==
    /\ sub.drained # "no" => sub.stopping
    /\ sub.stopping => sub.mu = "free"
    /\ sub.drained \in {"handlers", "yes"} =>
          \A g \in RocketGroups : group[g].poller \in {"none", "dead"}
    /\ sub.drained = "yes" => Rocket!Busy = {}
    /\ sub.shutdown # "no" => sub.drained = "yes"
    /\ sub.shutdown = "done" => \A g \in RocketGroups : group[g].consumer # "open"
    /\ \A k \in RocketClosers : rcloser[k] = "ok" => sub.shutdown = "done"

\* The inductive invariant of RocketSubscriber.
RocketInv ==
    /\ RocketTypes /\ RocketHandling /\ RocketGroup /\ RocketClosing
    /\ recorded \subseteq RocketMsgs
    /\ Rocket!NothingLost /\ Rocket!NackHolds /\ Rocket!AuditAtLimit

\* What the broker makes of a message: acknowledged, its invisibility changed, given
\* to nobody any more, visible again.
Acked(x) == [x EXCEPT !.state = "acked", !.holder = "none"]
Windowed(x, w) == [x EXCEPT !.window = w]
Unheld(x, w) == [x EXCEPT !.window = w, !.holder = "none"]
Lapsed(x) == [x EXCEPT !.state = "visible", !.holder = "none"]

\* These give messages again, and keep what they do not name.
LEMMA RocketMessagesTyped ==
  ASSUME NEW x \in RocketMessage
  PROVE  /\ LET y == Acked(x) IN y \in RocketMessage /\ y.holder = "none" /\ y.attempt = x.attempt
         /\ LET y == Lapsed(x)
            IN  y \in RocketMessage /\ y.state = "visible" /\ y.holder = "none" /\ y.attempt = x.attempt
         /\ \A w \in {"long", "retry"} :
              LET y == Windowed(x, w)
              IN  /\ y \in RocketMessage /\ y.state = x.state /\ y.holder = x.holder
                  /\ y.attempt = x.attempt /\ y.window = w
         /\ \A w \in {"long", "retry"} :
              LET y == Unheld(x, w)
              IN  y \in RocketMessage /\ y.state = x.state /\ y.holder = "none" /\ y.attempt = x.attempt
<1>1. LET y == Acked(x) IN y \in RocketMessage /\ y.holder = "none" /\ y.attempt = x.attempt
  BY Zenon DEF RocketMessage, Acked
<1>2. LET y == Lapsed(x)
      IN  y \in RocketMessage /\ y.state = "visible" /\ y.holder = "none" /\ y.attempt = x.attempt
  BY Zenon DEF RocketMessage, Lapsed
<1>3. ASSUME NEW w \in {"long", "retry"}
      PROVE  LET y == Windowed(x, w)
             IN  /\ y \in RocketMessage /\ y.state = x.state /\ y.holder = x.holder
                 /\ y.attempt = x.attempt /\ y.window = w
  BY Zenon DEF RocketMessage, Windowed
<1>4. ASSUME NEW w \in {"long", "retry"}
      PROVE  LET y == Unheld(x, w)
             IN  y \in RocketMessage /\ y.state = x.state /\ y.holder = "none" /\ y.attempt = x.attempt
  BY Zenon DEF RocketMessage, Unheld
<1> QED
  BY Zenon, <1>1, <1>2, <1>3, <1>4

\* What a broker call with the receipt handle of task t may do: it changes only the
\* message of the task, and its window only while the task holds it.
Handled(t, acks, renews) ==
    /\ broker' \in [RocketMsgs -> RocketMessage]
    /\ \A m \in RocketMsgs :
          /\ broker'[m].attempt = broker[m].attempt
          /\ broker'[m].state = "acked" => broker[m].state = "acked" \/ (acks /\ m = rtask[t].msg)
          /\ broker'[m].holder # "none" => broker'[m].holder = broker[m].holder
          /\ \/ broker'[m].holder = "none" \/ broker'[m].window = broker[m].window
             \/ renews /\ broker'[m].holder = t /\ m = rtask[t].msg

\* Ack acknowledges the message of the delivery, and only before its context ended.
LEMMA RocketAck ==
  ASSUME NEW t \in RocketTasks, NEW ok \in BOOLEAN, broker \in [RocketMsgs -> RocketMessage],
         rtask[t].msg \in RocketMsgs, Rocket!AckCall(t, ok)
  PROVE  Handled(t, ~rtask[t].ended, FALSE)
<1> DEFINE m == rtask[t].msg
<1>1. broker' = broker \/ (broker' = [broker EXCEPT ![m] = Acked(broker[m])] /\ ~rtask[t].ended)
  BY Zenon DEF Rocket!AckCall, Rocket!Ack, Acked
<1>2. broker[m] \in RocketMessage
  BY Zenon
<1> QED
  BY <1>1, <1>2, RocketMessagesTyped DEF Handled

\* ChangeInvisibleDuration sets the window of a message the delivery still holds.
LEMMA RocketChange ==
  ASSUME NEW t \in RocketTasks, NEW ok \in BOOLEAN, NEW w \in {"long", "retry"},
         broker \in [RocketMsgs -> RocketMessage], rtask[t].msg \in RocketMsgs,
         Rocket!changeInvisibleDuration(t, w, ok)
  PROVE  /\ Handled(t, FALSE, ok)
         /\ ok => broker'[rtask[t].msg].holder = t /\ broker'[rtask[t].msg].window = w
<1> DEFINE m == rtask[t].msg
<1>1. \/ broker' = broker /\ ~ok
      \/ ok /\ broker[m].holder = t /\ broker' = [broker EXCEPT ![m] = Windowed(broker[m], w)]
      \/ ~ok /\ broker' = [broker EXCEPT ![m] = Unheld(broker[m], broker[m].window)]
      \/ ~ok /\ broker' = [broker EXCEPT ![m] = Unheld(broker[m], w)]
  BY Zenon DEF Rocket!changeInvisibleDuration, Rocket!Holds, Windowed, Unheld
<1>2. broker[m] \in RocketMessage /\ broker[m].window \in {"long", "retry"}
  BY Zenon DEF RocketMessage
<1> QED
  BY <1>1, <1>2, RocketMessagesTyped DEF Handled

\* A group with another stage.
Polled(x, c, p, b) == [x EXCEPT !.consumer = c, !.poller = p, !.batch = b]

\* A poller that goes on leaves the groups what they are.
LEMMA RocketPolled ==
  ASSUME RocketGroup, NEW g \in RocketGroups,
         NEW c \in {"none", "open", "stopped"}, NEW p \in {"none", "top", "receive", "dead"}, NEW b,
         group' = [group EXCEPT ![g] = Polled(group[g], c, p, b)]
  PROVE  /\ RocketGroup'
         /\ group'[g].consumer = c /\ group'[g].poller = p
         /\ \A h \in RocketGroups : h # g => group'[h] = group[h]
<1> DEFINE B == RocketBatches \cup {b}
<1>1. \A h \in RocketGroups : group[h] \in RocketPoller(B)
  BY Zenon DEF RocketGroup, RocketPoller
<1>2. /\ Polled(group[g], c, p, b) \in RocketPoller(B)
      /\ Polled(group[g], c, p, b).consumer = c /\ Polled(group[g], c, p, b).poller = p
  <2> HIDE DEF B
  <2>1. b \in B
    BY Zenon DEF B
  <2> QED
    BY Zenon, <1>1, <2>1 DEF Polled, RocketPoller
<1>3. group' \in [RocketGroups -> RocketPoller(B)]
  BY Zenon, <1>1, <1>2 DEF RocketGroup
<1>4. \A h \in RocketGroups : group'[h] \in RocketPoller(RocketBatches')
  BY Zenon, <1>3 DEF RocketPoller, RocketBatches
<1> QED
  BY Zenon, <1>2, <1>3, <1>4 DEF RocketGroup

\* A delivery that goes on, settles or ends keeps the invariant if what it establishes
\* is so and if its message is acknowledged only after success.
LEMMA RocketTaskMove ==
  ASSUME RocketInv, NEW t \in RocketTasks, NEW x \in RocketTask, NEW acks \in BOOLEAN, NEW renews \in BOOLEAN,
         rtask[t].stage # "idle", rtask' = [rtask EXCEPT ![t] = x],
         x.stage = "idle" => x = Rocket!idle,
         x.stage # "idle" => x.msg = rtask[t].msg,
         x.stage = "failing" => broker[rtask[t].msg].attempt >= RocketAttempts, x.last => rtask[t].last,
         raccepted \subseteq raccepted', recorded \subseteq recorded', recorded' \subseteq recorded \cup {rtask[t].msg},
         recorded' # recorded => broker[rtask[t].msg].attempt >= RocketAttempts,
         x.ok => x.msg \in raccepted' \cup recorded',
         Handled(t, acks, renews), acks => rtask[t].ok,
         x.stage # "idle" /\ x.settled = "nack" /\ broker'[x.msg].holder = t => broker'[x.msg].window = "retry",
         UNCHANGED <<group, sub, rcloser>>
  PROVE  RocketInv'
<1> USE DEF RocketInv, RocketTypes
<1>1. /\ rtask'[t] = x /\ \A u \in RocketTasks : u # t => rtask'[u] = rtask[u]
      /\ rtask' \in [RocketTasks -> RocketTask]
      /\ rtask[t].msg \in RocketMsgs
  BY Zenon DEF RocketHandling
<1>2. RocketTypes'
  BY Zenon, <1>1 DEF Handled
<1>3. RocketHandling'
  BY <1>1 DEF RocketHandling, Handled
<1>4. RocketGroup' /\ RocketClosing'
  BY <1>1 DEF RocketGroup, RocketBatches, RocketClosing, Rocket!Busy
<1>5. recorded' \subseteq RocketMsgs /\ Rocket!NothingLost' /\ Rocket!AuditAtLimit'
  BY <1>1 DEF Rocket!NothingLost, Rocket!AuditAtLimit, Handled, RocketHandling
<1>6. Rocket!NackHolds'
  <2> SUFFICES ASSUME NEW u \in RocketTasks, rtask'[u].settled = "nack", rtask'[u].stage # "idle",
                      broker'[rtask'[u].msg].holder = u
               PROVE  broker'[rtask'[u].msg].window = "retry"
    BY Zenon DEF Rocket!NackHolds, Rocket!Holds
  <2>1. CASE u = t
    BY Zenon, <1>1, <2>1
  <2>2. CASE u # t
    <3>1. rtask[u].msg \in RocketMsgs /\ u # "none"
      BY Zenon, <1>1, <2>2, RocketSubscribersAssumption DEF RocketHandling, Rocket!RocketAssumption
    <3> QED
      BY <1>1, <2>2, <3>1 DEF Rocket!NackHolds, Rocket!Holds, Handled
  <2> QED
    BY Zenon, <2>1, <2>2
<1> QED
  BY Zenon, <1>2, <1>3, <1>4, <1>5, <1>6

\* The host accepts or returns, the failure is audited, the context ends.
LEMMA RocketHandlerStep ==
  ASSUME RocketInv, NEW t \in RocketTasks,
         \/ Rocket!HandlerAccepts(t) \/ Rocket!HandlerReturns(t) \/ Rocket!Failed(t)
         \/ Rocket!HandleCanceled(t) \/ Rocket!ContextEnds(t) \/ Rocket!HandleAbandons(t)
  PROVE  RocketInv'
<1>1. /\ rtask \in [RocketTasks -> RocketTask] /\ rtask[t] \in RocketTask
      /\ rtask[t].ok \in BOOLEAN /\ rtask[t].stage \in {"idle", "handling", "failing", "done"}
      /\ rtask[t].stage # "idle" => rtask[t].msg \in RocketMsgs
      /\ rtask[t].ok => rtask[t].msg \in raccepted \cup recorded
      /\ rtask[t].stage = "failing" \/ (rtask[t].stage # "idle" /\ rtask[t].last) => broker[rtask[t].msg].attempt >= RocketAttempts
      /\ Rocket!NackHolds /\ broker \in [RocketMsgs -> RocketMessage]
  BY Zenon DEF RocketInv, RocketTypes, RocketTask, RocketHandling
<1>2. broker' = broker => Handled(t, FALSE, FALSE)
  BY Zenon, <1>1 DEF Handled
<1>3. UNCHANGED <<broker, group, sub, rcloser>>
  BY Zenon DEF Rocket!HandlerAccepts, Rocket!HandlerReturns, Rocket!Failed, Rocket!HandleCanceled,
     Rocket!ContextEnds, Rocket!HandleAbandons, Rocket!calls, Rocket!host
<1>4. CASE Rocket!HandlerAccepts(t)
  <2> DEFINE x == [rtask[t] EXCEPT !.ok = TRUE]
  <2>1. rtask' = [rtask EXCEPT ![t] = x]
    BY Zenon, <1>4 DEF Rocket!HandlerAccepts
  <2>2. x \in RocketTask /\ x.stage = rtask[t].stage /\ x.msg = rtask[t].msg /\ x.last = rtask[t].last /\ x.settled = rtask[t].settled
    BY Zenon, <1>1 DEF RocketTask
  <2> HIDE DEF x
  <2> QED
    BY Zenon, <2>1, <2>2, <1>4, <1>1, <1>2, <1>3, RocketTaskMove DEF Rocket!HandlerAccepts, Rocket!NackHolds, Rocket!Holds
<1>5. CASE Rocket!HandlerReturns(t)
  <2> DEFINE x == [rtask[t] EXCEPT !.stage =
                 IF ~rtask[t].ok /\ rtask[t].last /\ rtask[t].settled = "no"
                 THEN "failing" ELSE "done"]
  <2>1. rtask' = [rtask EXCEPT ![t] = x]
    BY Zenon, <1>5 DEF Rocket!HandlerReturns
  <2>2. /\ x \in RocketTask /\ x.ok = rtask[t].ok /\ x.msg = rtask[t].msg /\ x.last = rtask[t].last /\ x.settled = rtask[t].settled
        /\ x.stage \in {"failing", "done"}
        /\ x.stage = "failing" => broker[rtask[t].msg].attempt >= RocketAttempts
    <3>1. rtask[t].stage = "handling"
      BY Zenon, <1>5 DEF Rocket!HandlerReturns
    <3> QED
      BY Zenon, <1>1, <3>1 DEF RocketTask
  <2> HIDE DEF x
  <2> QED
    BY Zenon, <2>1, <2>2, <1>5, <1>1, <1>2, <1>3, RocketTaskMove DEF Rocket!HandlerReturns, Rocket!NackHolds, Rocket!Holds, Rocket!host
<1>6. CASE Rocket!Failed(t)
  <2>1. PICK b \in BOOLEAN : /\ rtask' = [rtask EXCEPT ![t] = [rtask[t] EXCEPT !.stage = "done", !.ok = b]]
                             /\ \/ b /\ recorded' = recorded \cup {rtask[t].msg}
                                \/ ~b /\ recorded' = recorded
    BY Zenon, <1>6 DEF Rocket!Failed
  <2> DEFINE x == [rtask[t] EXCEPT !.stage = "done", !.ok = b]
  <2>2. x \in RocketTask /\ x.stage = "done" /\ x.ok = b /\ x.msg = rtask[t].msg /\ x.last = rtask[t].last /\ x.settled = rtask[t].settled
    BY Zenon, <1>1 DEF RocketTask
  <2>3. rtask' = [rtask EXCEPT ![t] = x]
    BY Zenon, <2>1
  <2> HIDE DEF x
  <2> QED
    BY ZenonT(40), <2>1, <2>2, <2>3, <1>6, <1>1, <1>2, <1>3, RocketTaskMove DEF Rocket!Failed, Rocket!NackHolds, Rocket!Holds
<1>7. CASE Rocket!HandleCanceled(t)
  <2> DEFINE x == [rtask[t] EXCEPT !.waiting = TRUE]
  <2>1. rtask' = [rtask EXCEPT ![t] = x]
    BY Zenon, <1>7 DEF Rocket!HandleCanceled
  <2>2. /\ x \in RocketTask /\ x.stage = rtask[t].stage /\ x.ok = rtask[t].ok
        /\ x.msg = rtask[t].msg /\ x.last = rtask[t].last /\ x.settled = rtask[t].settled
    BY Zenon, <1>1 DEF RocketTask
  <2> HIDE DEF x
  <2> QED
    BY Zenon, <2>1, <2>2, <1>7, <1>1, <1>2, <1>3, RocketTaskMove DEF Rocket!HandleCanceled, Rocket!NackHolds, Rocket!Holds, Rocket!Busy, Rocket!host
<1>8. CASE Rocket!ContextEnds(t)
  <2> DEFINE x == [rtask[t] EXCEPT !.ended = TRUE]
  <2>1. rtask' = [rtask EXCEPT ![t] = x]
    BY Zenon, <1>8 DEF Rocket!ContextEnds
  <2>2. /\ x \in RocketTask /\ x.stage = rtask[t].stage /\ x.ok = rtask[t].ok
        /\ x.msg = rtask[t].msg /\ x.last = rtask[t].last /\ x.settled = rtask[t].settled
    BY Zenon, <1>1 DEF RocketTask
  <2> HIDE DEF x
  <2> QED
    BY Zenon, <2>1, <2>2, <1>8, <1>1, <1>2, <1>3, RocketTaskMove DEF Rocket!ContextEnds, Rocket!NackHolds, Rocket!Holds, Rocket!Busy, Rocket!host
<1>9. CASE Rocket!HandleAbandons(t)
  BY Zenon, <1>9, <1>1, <1>2, <1>3, RocketTaskMove DEF Rocket!HandleAbandons, Rocket!idle, Rocket!host, RocketTask
<1> QED
  BY Zenon, <1>4, <1>5, <1>6, <1>7, <1>8, <1>9

\* Ack, Nack and the renewals of the invisibility.
LEMMA RocketSettleStep ==
  ASSUME RocketInv, NEW t \in RocketTasks,
         Rocket!HandlerSettles(t) \/ Rocket!HandleDone(t) \/ Rocket!Renew(t)
  PROVE  RocketInv'
<1>1. /\ rtask \in [RocketTasks -> RocketTask] /\ rtask[t] \in RocketTask
      /\ rtask[t].ok \in BOOLEAN /\ rtask[t].ended \in BOOLEAN /\ rtask[t].stage # "idle"
      /\ rtask[t].msg \in RocketMsgs /\ broker \in [RocketMsgs -> RocketMessage]
      /\ rtask[t].ok => rtask[t].msg \in raccepted \cup recorded
      /\ rtask[t].stage = "failing" \/ (rtask[t].stage # "idle" /\ rtask[t].last) => broker[rtask[t].msg].attempt >= RocketAttempts
  BY Zenon DEF RocketInv, RocketTypes, RocketTask, RocketHandling, Rocket!HandlerSettles, Rocket!HandleDone,
         Rocket!Renew, Rocket!Busy
<1>2. UNCHANGED <<group, sub, rcloser, raccepted, recorded>>
  BY Zenon DEF Rocket!HandlerSettles, Rocket!HandleDone, Rocket!Renew, Rocket!calls, Rocket!host
<1>3. CASE Rocket!HandlerSettles(t)
  <2> DEFINE how == IF rtask[t].ok THEN "ack" ELSE "nack"
  <2>1. PICK ok \in BOOLEAN : /\ Rocket!settle(t, how, ok)
                              /\ rtask' = [rtask EXCEPT ![t] = [rtask[t] EXCEPT !.settled = IF ok THEN how ELSE rtask[t].settled]]
    BY Zenon, <1>3 DEF Rocket!HandlerSettles
  <2> DEFINE x == [rtask[t] EXCEPT !.settled = IF ok THEN how ELSE rtask[t].settled]
  <2>2. /\ x \in RocketTask /\ x.stage = rtask[t].stage /\ x.ok = rtask[t].ok /\ x.msg = rtask[t].msg /\ x.last = rtask[t].last
        /\ x.settled = "nack" => ok /\ ~rtask[t].ok
    <3>1. (IF ok THEN how ELSE rtask[t].settled) \in {"no", "ack", "nack"}
      BY Zenon, <1>1 DEF RocketTask
    <3>2. (IF ok THEN how ELSE rtask[t].settled) = "nack" => ok /\ ~rtask[t].ok
      BY Zenon, <1>3 DEF Rocket!HandlerSettles
    <3> HIDE DEF how
    <3> QED
      BY Zenon, <1>1, <3>1, <3>2 DEF RocketTask
  <2>3. rtask' = [rtask EXCEPT ![t] = x]
    BY Zenon, <2>1
  <2> HIDE DEF x
  <2>4. CASE rtask[t].ok
    <3>1. Handled(t, ~rtask[t].ended, FALSE)
      BY Zenon, <2>1, <2>4, <1>1, RocketAck DEF Rocket!settle
    <3> QED
      BY Zenon, <2>2, <2>3, <2>4, <3>1, <1>1, <1>2, RocketTaskMove
  <2>5. CASE ~rtask[t].ok
    <3>1. Rocket!changeInvisibleDuration(t, "retry", ok)
      BY Zenon, <2>1, <2>5 DEF Rocket!settle, Rocket!NackCall
    <3>2. Handled(t, FALSE, ok) /\ (ok => broker'[rtask[t].msg].window = "retry")
      BY Zenon, <3>1, <1>1, RocketChange
    <3> QED
      BY Zenon, <2>2, <2>3, <2>5, <3>2, <1>1, <1>2, RocketTaskMove
  <2> QED
    BY Zenon, <2>4, <2>5
<1>4. CASE Rocket!HandleDone(t)
  <2>1. /\ rtask' = [rtask EXCEPT ![t] = Rocket!idle]
        /\ Rocket!idle \in RocketTask /\ Rocket!idle.stage = "idle" /\ ~Rocket!idle.ok /\ ~Rocket!idle.last
    BY Zenon, <1>4 DEF Rocket!HandleDone, Rocket!idle, RocketTask
  <2>2. CASE broker' = broker
    <3>1. Handled(t, FALSE, FALSE)
      BY Zenon, <1>1, <2>2 DEF Handled
    <3> QED
      BY Zenon, <2>1, <3>1, <1>1, <1>2, RocketTaskMove
  <2>3. ASSUME NEW ok \in BOOLEAN, rtask[t].ok, Rocket!AckCall(t, ok) PROVE RocketInv'
    <3>1. Handled(t, ~rtask[t].ended, FALSE)
      BY Zenon, <2>3, <1>1, RocketAck
    <3> QED
      BY Zenon, <2>1, <2>3, <3>1, <1>1, <1>2, RocketTaskMove
  <2>4. ASSUME NEW ok \in BOOLEAN, Rocket!changeInvisibleDuration(t, "retry", ok) PROVE RocketInv'
    <3>1. Handled(t, FALSE, ok)
      BY Zenon, <2>4, <1>1, RocketChange
    <3> QED
      BY Zenon, <2>1, <3>1, <1>1, <1>2, RocketTaskMove
  <2> QED
    BY Zenon, <2>2, <2>3, <2>4, <1>4 DEF Rocket!HandleDone, Rocket!settle, Rocket!NackCall
<1>5. CASE Rocket!Renew(t)
  <2>1. PICK ok \in BOOLEAN : /\ Rocket!changeInvisibleDuration(t, "long", ok)
                              /\ rtask' = [rtask EXCEPT ![t] = [rtask[t] EXCEPT !.ended = ~ok]]
    BY Zenon, <1>5 DEF Rocket!Renew
  <2> DEFINE x == [rtask[t] EXCEPT !.ended = ~ok]
  <2>2. /\ x \in RocketTask /\ x.stage = rtask[t].stage /\ x.ok = rtask[t].ok /\ x.msg = rtask[t].msg /\ x.last = rtask[t].last
        /\ x.settled = "no"
    <3>1. rtask[t].settled = "no"
      BY Zenon, <1>5 DEF Rocket!Renew
    <3> QED
      BY Zenon, <1>1, <3>1 DEF RocketTask
  <2>3. rtask' = [rtask EXCEPT ![t] = x]
    BY Zenon, <2>1
  <2> HIDE DEF x
  <2>4. Handled(t, FALSE, ok)
    BY Zenon, <2>1, <1>1, RocketChange
  <2> QED
    BY Zenon, <2>2, <2>3, <2>4, <1>1, <1>2, RocketTaskMove
<1> QED
  BY Zenon, <1>3, <1>4, <1>5

\* A poller receives a batch: each message becomes the delivery of one handler.
LEMMA RocketReceive ==
  ASSUME RocketInv, NEW g \in RocketGroups, Rocket!Receive(g)
  PROVE  RocketInv'
<1>t. /\ broker \in [RocketMsgs -> RocketMessage] /\ rtask \in [RocketTasks -> RocketTask]
      /\ RocketGroup /\ RocketClosing /\ RocketHandling
      /\ recorded \subseteq RocketMsgs /\ Rocket!NothingLost /\ Rocket!NackHolds /\ Rocket!AuditAtLimit
  BY Zenon DEF RocketInv, RocketTypes
<1>0. PICK S \in SUBSET {m \in RocketMsgs : broker[m].state = "visible"} :
        \E at \in [S -> RocketTasks \ Rocket!Busy] :
           /\ \A m, n \in S : m # n => at[m] # at[n]
           /\ broker' = Rocket!receiveMessage(S, at)
           /\ rtask' = [t \in RocketTasks |-> IF \E m \in S : at[m] = t
                 THEN LET m == CHOOSE m \in S : at[m] = t
                      IN  [Rocket!idle EXCEPT !.msg = m, !.stage = Rocket!FirstStage(m), !.last = Rocket!IsLast(m)]
                 ELSE rtask[t]]
  BY ZenonT(40) DEF Rocket!Receive
<1>1. PICK at \in [S -> RocketTasks \ Rocket!Busy] :
        /\ \A m, n \in S : m # n => at[m] # at[n]
        /\ broker' = Rocket!receiveMessage(S, at)
        /\ rtask' = [t \in RocketTasks |-> IF \E m \in S : at[m] = t
              THEN LET m == CHOOSE m \in S : at[m] = t
                   IN  [Rocket!idle EXCEPT !.msg = m, !.stage = Rocket!FirstStage(m), !.last = Rocket!IsLast(m)]
              ELSE rtask[t]]
  BY Zenon, <1>0
<1>2. \A m \in RocketMsgs :
        /\ broker'[m] \in RocketMessage
        /\ broker[m].attempt >= RocketAttempts => broker'[m].attempt >= RocketAttempts
        /\ IF m \in S THEN /\ broker'[m].state = "held" /\ broker'[m].holder = at[m]
                           /\ Rocket!FirstStage(m) = "failing" \/ Rocket!IsLast(m) => broker'[m].attempt >= RocketAttempts
                      ELSE broker'[m] = broker[m]
  <2> SUFFICES ASSUME NEW m \in RocketMsgs
               PROVE  /\ broker'[m] \in RocketMessage
                      /\ broker[m].attempt >= RocketAttempts => broker'[m].attempt >= RocketAttempts
                      /\ IF m \in S THEN /\ broker'[m].state = "held" /\ broker'[m].holder = at[m]
                                         /\ Rocket!FirstStage(m) = "failing" \/ Rocket!IsLast(m) => broker'[m].attempt >= RocketAttempts
                                    ELSE broker'[m] = broker[m]
    BY Zenon
  <2>1. broker[m] \in RocketMessage /\ broker[m].attempt \in 0..(RocketAttempts + 1) /\ RocketAttempts \in Nat \ {0}
    BY Zenon, <1>t, RocketSubscribersAssumption DEF Rocket!RocketAssumption, RocketMessage
  <2>2. CASE m \in S
    <3> DEFINE a == Rocket!Min2(broker[m].attempt + 1, RocketAttempts + 1)
    <3>1. a \in 0..(RocketAttempts + 1) /\ (broker[m].attempt >= RocketAttempts => a >= RocketAttempts)
      BY <2>1 DEF Rocket!Min2
    <3>2. Rocket!FirstStage(m) = "failing" \/ Rocket!IsLast(m) => a >= RocketAttempts
      BY <2>1 DEF Rocket!Min2, Rocket!FirstStage, Rocket!IsLast
    <3>3. broker'[m] = [state |-> "held", holder |-> at[m], window |-> "long", attempt |-> a]
      BY Zenon, <1>1, <2>2 DEF Rocket!receiveMessage
    <3> HIDE DEF a
    <3> QED
      BY <3>1, <3>2, <3>3, <2>2 DEF RocketMessage
  <2>3. CASE m \notin S
    <3>1. broker'[m] = broker[m]
      BY Zenon, <1>1, <2>3 DEF Rocket!receiveMessage
    <3> QED
      BY Zenon, <2>1, <2>3, <3>1
  <2> QED
    BY Zenon, <2>2, <2>3
<1>3. \A t \in RocketTasks :
        \/ rtask'[t] = rtask[t] /\ \A m \in S : at[m] # t
        \/ /\ rtask[t].stage = "idle" /\ rtask'[t] \in RocketTask
           /\ rtask'[t].msg \in S /\ rtask'[t].stage = Rocket!FirstStage(rtask'[t].msg) /\ rtask'[t].stage # "idle"
           /\ ~rtask'[t].ok /\ rtask'[t].settled = "no" /\ (rtask'[t].last => Rocket!IsLast(rtask'[t].msg))
  <2> SUFFICES ASSUME NEW t \in RocketTasks
               PROVE  \/ rtask'[t] = rtask[t] /\ \A m \in S : at[m] # t
                      \/ /\ rtask[t].stage = "idle" /\ rtask'[t] \in RocketTask
                         /\ rtask'[t].msg \in S /\ rtask'[t].stage = Rocket!FirstStage(rtask'[t].msg)
                         /\ rtask'[t].stage # "idle" /\ ~rtask'[t].ok /\ rtask'[t].settled = "no"
                         /\ rtask'[t].last => Rocket!IsLast(rtask'[t].msg)
    BY Zenon
  <2>1. CASE \E n \in S : at[n] = t
    <3> DEFINE m == CHOOSE m \in S : at[m] = t
    <3>1. m \in S
      BY Zenon, <2>1
    <3>2. Rocket!FirstStage(m) \in {"handling", "failing", "done"} /\ Rocket!IsLast(m) \in BOOLEAN
      <4>1. Rocket!FirstStage(m) \in {"handling", "failing", "done"}
        BY Zenon DEF Rocket!FirstStage
      <4>2. Rocket!IsLast(m) \in BOOLEAN
        BY DEF Rocket!IsLast
      <4> QED
        BY Zenon, <4>1, <4>2
    <3>3. rtask'[t] = [Rocket!idle EXCEPT !.msg = m, !.stage = Rocket!FirstStage(m), !.last = Rocket!IsLast(m)]
      BY Zenon, <1>1, <2>1
    <3>4. rtask[t].stage = "idle" /\ m \in RocketMsgs \cup {"none"}
      BY Zenon, <1>1, <2>1, <3>1 DEF Rocket!Busy
    <3> HIDE DEF m
    <3> QED
      <4>1. Rocket!idle \in RocketTask /\ ~Rocket!idle.ok /\ Rocket!idle.settled = "no"
        BY Zenon DEF Rocket!idle, RocketTask
      <4>2. /\ rtask'[t] \in RocketTask /\ rtask'[t].msg = m /\ rtask'[t].stage = Rocket!FirstStage(m)
            /\ rtask'[t].ok = Rocket!idle.ok /\ rtask'[t].settled = Rocket!idle.settled
            /\ rtask'[t].last = Rocket!IsLast(m)
        BY Zenon, <3>1, <3>2, <3>3, <3>4, <4>1 DEF RocketTask
      <4> QED
        BY Zenon, <3>1, <3>2, <3>4, <4>1, <4>2
  <2>2. CASE ~\E n \in S : at[n] = t
    BY Zenon, <1>1, <2>2
  <2> QED
    BY Zenon, <2>1, <2>2
<1>4. /\ RocketGroup' /\ group'[g].consumer = group[g].consumer /\ group'[g].poller = "top" /\ group[g].poller = "receive"
      /\ \A h \in RocketGroups : h # g => group'[h] = group[h]
  <2>1. group' = [group EXCEPT ![g] = Polled(group[g], group[g].consumer, "top", 0)]
    BY Zenon, <1>t DEF Rocket!Receive, Polled, RocketGroup, RocketPoller
  <2>2. group[g].consumer \in {"none", "open", "stopped"} /\ group[g].poller = "receive"
    BY Zenon, <1>t DEF RocketGroup, RocketPoller, Rocket!Receive
  <2> QED
    BY Zenon, <1>t, <2>1, <2>2, RocketPolled
<1>5. /\ sub.drained \notin {"handlers", "yes"} /\ sub.shutdown = "no"
      /\ UNCHANGED <<sub, rcloser, raccepted, recorded>>
  BY Zenon, <1>t, <1>4 DEF Rocket!Receive, Rocket!calls, Rocket!host, RocketClosing
<1>6. RocketTypes'
  <2>1. broker' = [m \in RocketMsgs |-> broker'[m]] /\ rtask' = [t \in RocketTasks |-> rtask'[t]]
    BY Zenon, <1>1 DEF Rocket!receiveMessage
  <2>2. \A t \in RocketTasks : rtask'[t] \in RocketTask
    BY Zenon, <1>3, <1>t
  <2> QED
    BY Zenon, <1>2, <1>5, <2>1, <2>2 DEF RocketTypes, RocketInv
<1>7. RocketHandling'
  <2> SUFFICES ASSUME NEW t \in RocketTasks
               PROVE  /\ rtask'[t].stage # "idle" => rtask'[t].msg \in RocketMsgs
                      /\ rtask'[t].ok => rtask'[t].msg \in raccepted \cup recorded
                      /\ rtask'[t].stage = "failing" \/ (rtask'[t].stage # "idle" /\ rtask'[t].last) => broker'[rtask'[t].msg].attempt >= RocketAttempts
                      /\ rtask'[t].stage = "idle" => rtask'[t] = Rocket!idle
    BY Zenon, <1>5 DEF RocketHandling
  <2>1. CASE rtask'[t] = rtask[t]
    BY Zenon, <2>1, <1>t, <1>2 DEF RocketHandling
  <2>2. CASE rtask'[t] # rtask[t]
    BY Zenon, <2>2, <1>2, <1>3
  <2> QED
    BY Zenon, <2>1, <2>2
<1>8. RocketClosing'
  BY Zenon, <1>t, <1>4, <1>5 DEF RocketClosing
<1>9. Rocket!NothingLost' /\ Rocket!AuditAtLimit'
  BY Zenon, <1>t, <1>2, <1>5 DEF Rocket!NothingLost, Rocket!AuditAtLimit
<1>10. Rocket!NackHolds'
  <2> SUFFICES ASSUME NEW u \in RocketTasks, rtask'[u].settled = "nack", rtask'[u].stage # "idle",
                      broker'[rtask'[u].msg].holder = u
               PROVE  broker'[rtask'[u].msg].window = "retry"
    BY Zenon DEF Rocket!NackHolds, Rocket!Holds
  <2>1. rtask'[u] = rtask[u] /\ \A m \in S : at[m] # u
    BY Zenon, <1>3
  <2>2. rtask[u].msg \in RocketMsgs
    BY Zenon, <1>t, <2>1 DEF RocketHandling
  <2>3. broker'[rtask[u].msg] = broker[rtask[u].msg]
    BY Zenon, <1>2, <2>1, <2>2
  <2> QED
    BY Zenon, <1>t, <2>1, <2>3 DEF Rocket!NackHolds, Rocket!Holds
<1> QED
  BY Zenon, <1>t, <1>4, <1>5, <1>6, <1>7, <1>8, <1>9, <1>10 DEF RocketInv

\* A poller starts, reserves slots, receives nothing, stops.
LEMMA RocketPollStep ==
  ASSUME RocketInv, NEW g \in RocketGroups,
         \/ Rocket!Subscribe(g) \/ Rocket!Subscribed(g) \/ Rocket!Reserve(g)
         \/ Rocket!ReceiveNothing(g) \/ Rocket!PollerStops(g)
  PROVE  RocketInv'
<1>t. /\ broker \in [RocketMsgs -> RocketMessage] /\ rtask \in [RocketTasks -> RocketTask]
      /\ RocketTypes /\ RocketGroup /\ RocketClosing /\ RocketHandling
      /\ group[g].consumer \in {"none", "open", "stopped"}
      /\ "free" \notin RocketGroups /\ "none" \notin RocketTasks
  BY Zenon, RocketSubscribersAssumption DEF RocketInv, RocketTypes, RocketGroup, RocketPoller, Rocket!RocketAssumption
<1>1. UNCHANGED <<rtask, rcloser, raccepted, recorded>>
  BY Zenon DEF Rocket!Subscribe, Rocket!Subscribed, Rocket!Reserve, Rocket!ReceiveNothing, Rocket!PollerStops,
     Rocket!calls, Rocket!host
<1>2. ASSUME UNCHANGED broker, RocketGroup', RocketClosing', sub' \in [stopping : BOOLEAN,
                mu : RocketGroups \cup {"free"}, drained : {"no", "pollers", "handlers", "yes"},
                shutdown : {"no", "going", "done"}]
      PROVE  RocketInv'
  BY Zenon, <1>1, <1>2 DEF RocketInv, RocketTypes, RocketHandling, Rocket!NothingLost, Rocket!NackHolds, Rocket!Holds,
     Rocket!AuditAtLimit
<1>3. CASE Rocket!Subscribe(g)
  BY <1>t, <1>1, <1>2, <1>3 DEF Rocket!Subscribe, RocketTypes, RocketGroup, RocketBatches, RocketClosing, Rocket!Busy
<1>4. CASE Rocket!Subscribed(g)
  <2>1. sub' = [sub EXCEPT !.mu = "free"] /\ ~sub.stopping /\ UNCHANGED broker
    BY Zenon, <1>t, <1>4 DEF Rocket!Subscribed, RocketClosing
  <2>2. CASE group' = group
    BY <1>t, <1>1, <1>2, <2>1, <2>2 DEF RocketTypes, RocketGroup, RocketBatches, RocketClosing, Rocket!Busy
  <2>3. CASE group' # group
    <3>1. group' = [group EXCEPT ![g] = Polled(group[g], "open", "top", group[g].batch)]
      BY Zenon, <1>t, <1>4, <2>3 DEF Rocket!Subscribed, Polled, RocketGroup, RocketPoller
    <3>2. RocketGroup'
      BY Zenon, <1>t, <3>1, RocketPolled
    <3> QED
      BY Zenon, <1>t, <1>1, <1>2, <2>1, <3>2 DEF RocketTypes, RocketClosing
  <2> QED
    BY Zenon, <2>2, <2>3
<1>5. CASE Rocket!Reserve(g)
  <2> DEFINE b == Rocket!Min2(RocketBatch, RocketInFlight - Rocket!Used)
  <2>1. UNCHANGED <<sub, broker>> /\ group[g].poller = "top"
    BY Zenon, <1>5 DEF Rocket!Reserve, Rocket!calls
  <2>2. group' = [group EXCEPT ![g] = [group[g] EXCEPT !.poller = "receive", !.batch = b]]
    BY Zenon, <1>5 DEF Rocket!Reserve
  <2> HIDE DEF b
  <2>3. group' = [group EXCEPT ![g] = Polled(group[g], group[g].consumer, "receive", b)]
    BY Zenon, <1>t, <2>2 DEF Polled, RocketGroup, RocketPoller
  <2>4. /\ RocketGroup' /\ group'[g].consumer = group[g].consumer
        /\ \A h \in RocketGroups : h # g => group'[h] = group[h]
    BY Zenon, <1>t, <2>3, RocketPolled
  <2> QED
    BY Zenon, <1>t, <1>1, <1>2, <2>1, <2>4 DEF RocketTypes, RocketClosing
<1>6. CASE Rocket!PollerStops(g)
  <2>1. UNCHANGED <<sub, broker>> /\ group[g].poller = "top"
    BY Zenon, <1>6 DEF Rocket!PollerStops, Rocket!calls
  <2>2. group' = [group EXCEPT ![g] = Polled(group[g], group[g].consumer, "dead", group[g].batch)]
    BY Zenon, <1>t, <1>6 DEF Rocket!PollerStops, Polled, RocketGroup, RocketPoller
  <2>3. /\ RocketGroup' /\ group'[g].consumer = group[g].consumer /\ group'[g].poller = "dead"
        /\ \A h \in RocketGroups : h # g => group'[h] = group[h]
    BY Zenon, <1>t, <2>2, RocketPolled
  <2> QED
    BY Zenon, <1>t, <1>1, <1>2, <2>1, <2>3 DEF RocketTypes, RocketClosing
<1>7. CASE Rocket!ReceiveNothing(g)
  <2>1. UNCHANGED sub /\ group[g].poller = "receive"
    BY Zenon, <1>7 DEF Rocket!ReceiveNothing, Rocket!calls
  <2>2. group' = [group EXCEPT ![g] = Polled(group[g], group[g].consumer, IF sub.stopping THEN "dead" ELSE "top", 0)]
    BY Zenon, <1>t, <1>7 DEF Rocket!ReceiveNothing, Polled, RocketGroup, RocketPoller
  <2>3. /\ RocketGroup' /\ group'[g].consumer = group[g].consumer
        /\ \A h \in RocketGroups : h # g => group'[h] = group[h]
    <3>1. (IF sub.stopping THEN "dead" ELSE "top") \in {"none", "top", "receive", "dead"}
      BY Zenon
    <3> QED
      BY Zenon, <1>t, <2>2, <3>1, RocketPolled
  <2>4. RocketClosing'
    BY Zenon, <1>t, <1>1, <2>1, <2>3 DEF RocketClosing
  <2>5. CASE broker' = broker
    BY Zenon, <1>t, <1>1, <1>2, <2>1, <2>3, <2>4, <2>5 DEF RocketTypes
  <2>6. CASE broker' # broker
    <3>1. PICK m \in RocketMsgs :
               /\ broker[m].state = "visible"
               /\ broker' = Rocket!receiveMessage({m}, [n \in {m} |-> "none"])
      BY Zenon, <1>7, <2>6 DEF Rocket!ReceiveNothing
    <3> DEFINE a == Rocket!Min2(broker[m].attempt + 1, RocketAttempts + 1)
    <3>2. a \in 0..(RocketAttempts + 1) /\ (broker[m].attempt >= RocketAttempts => a >= RocketAttempts)
      <4>1. broker[m].attempt \in 0..(RocketAttempts + 1) /\ RocketAttempts \in Nat \ {0}
        BY Zenon, <1>t, RocketSubscribersAssumption DEF Rocket!RocketAssumption, RocketMessage
      <4> QED
        BY <4>1 DEF Rocket!Min2
    <3>3. broker' = [broker EXCEPT ![m] = [state |-> "held", holder |-> "none", window |-> "long", attempt |-> a]]
      BY Zenon, <3>1, <1>t DEF Rocket!receiveMessage
    <3> HIDE DEF a
    <3>4. /\ broker' \in [RocketMsgs -> RocketMessage]
          /\ broker'[m].holder = "none" /\ broker'[m].state = "held" /\ broker'[m].attempt = a
          /\ \A n \in RocketMsgs : n # m => broker'[n] = broker[n]
      BY Zenon, <1>t, <3>2, <3>3 DEF RocketMessage
    <3>5. RocketTypes' /\ RocketHandling'
      BY Zenon, <1>t, <1>1, <2>1, <3>2, <3>4 DEF RocketTypes, RocketHandling
    <3>6. Rocket!NothingLost' /\ Rocket!AuditAtLimit'
      BY Zenon, <1>1, <3>2, <3>4 DEF RocketInv, Rocket!NothingLost, Rocket!AuditAtLimit
    <3>7. Rocket!NackHolds'
      BY Zenon, <1>t, <1>1, <3>4 DEF RocketInv, Rocket!NackHolds, Rocket!Holds, RocketHandling
    <3> QED
      BY Zenon, <1>1, <2>3, <2>4, <3>5, <3>6, <3>7 DEF RocketInv
  <2> QED
    BY Zenon, <2>5, <2>6
<1> QED
  BY Zenon, <1>3, <1>4, <1>5, <1>6, <1>7

\* The invisibility of a message ends, and the broker may deliver it again.
LEMMA RocketLapse ==
  ASSUME RocketInv, NEW m \in RocketMsgs, Rocket!Lapse(m)
  PROVE  RocketInv'
<1>1. /\ broker \in [RocketMsgs -> RocketMessage] /\ broker[m] \in RocketMessage /\ "none" \notin RocketTasks
      /\ UNCHANGED <<group, rtask, sub, rcloser, raccepted, recorded>>
  BY Zenon, RocketSubscribersAssumption DEF RocketInv, RocketTypes, Rocket!Lapse, Rocket!calls, Rocket!host, Rocket!RocketAssumption
<1>2. broker' = [broker EXCEPT ![m] = Lapsed(broker[m])]
  BY Zenon DEF Rocket!Lapse, Lapsed
<1>3. /\ broker' \in [RocketMsgs -> RocketMessage]
      /\ \A n \in RocketMsgs : /\ broker'[n].attempt = broker[n].attempt
                               /\ broker'[n] = broker[n] \/ (broker'[n].holder = "none" /\ broker'[n].state = "visible")
  <2>1. /\ Lapsed(broker[m]) \in RocketMessage /\ Lapsed(broker[m]).state = "visible"
        /\ Lapsed(broker[m]).holder = "none" /\ Lapsed(broker[m]).attempt = broker[m].attempt
    BY Zenon, <1>1, RocketMessagesTyped
  <2> QED
    BY Zenon, <1>1, <1>2, <2>1
<1>4. RocketTypes' /\ RocketHandling' /\ RocketGroup' /\ RocketClosing'
  <2>1. RocketTypes' /\ RocketHandling'
    BY Zenon, <1>1, <1>3 DEF RocketInv, RocketTypes, RocketHandling
  <2>2. RocketGroup' /\ RocketClosing'
    BY Zenon, <1>1 DEF RocketInv, RocketGroup, RocketBatches, RocketClosing, Rocket!Busy
  <2> QED
    BY Zenon, <2>1, <2>2
<1>5. recorded' \subseteq RocketMsgs /\ Rocket!NothingLost' /\ Rocket!AuditAtLimit'
  BY Zenon, <1>1, <1>3 DEF RocketInv, Rocket!NothingLost, Rocket!AuditAtLimit
<1>6. Rocket!NackHolds'
  BY Zenon, <1>1, <1>3 DEF RocketInv, Rocket!NackHolds, Rocket!Holds, RocketHandling
<1> QED
  BY Zenon, <1>4, <1>5, <1>6 DEF RocketInv

\* Close drains the pollers, then the handlers, then shuts the consumers down.
LEMMA RocketCloseStep ==
  ASSUME RocketInv, Rocket!CloseStep \/ \E k \in RocketClosers : Rocket!Close(k) \/ Rocket!CloseTimeout(k)
  PROVE  RocketInv'
<1>1. UNCHANGED <<broker, rtask, raccepted, recorded>>
  BY Zenon DEF Rocket!CloseStep, Rocket!DrainPollers, Rocket!DrainHandlers, Rocket!Shutdown, Rocket!Drained,
     Rocket!Closed, Rocket!Close, Rocket!CloseTimeout, Rocket!host
<1>2. /\ RocketHandling' /\ recorded' \subseteq RocketMsgs
      /\ Rocket!NothingLost' /\ Rocket!NackHolds' /\ Rocket!AuditAtLimit'
  BY Zenon, <1>1 DEF RocketInv, RocketHandling, Rocket!NothingLost, Rocket!NackHolds, Rocket!Holds, Rocket!AuditAtLimit
<1> USE DEF RocketTypes, RocketClosing
<1>3. RocketTypes /\ RocketGroup /\ RocketClosing
  BY Zenon DEF RocketInv
<1>4. CASE Rocket!DrainPollers \/ Rocket!DrainHandlers
  BY <1>1, <1>2, <1>3, <1>4 DEF RocketInv, Rocket!DrainPollers, Rocket!DrainHandlers, RocketGroup, RocketBatches, Rocket!Busy
<1>5. ASSUME NEW k \in RocketClosers, Rocket!Drained(k) \/ Rocket!Closed(k) \/ Rocket!CloseTimeout(k) \/ Rocket!Close(k)
      PROVE  RocketInv'
  <2>1. RocketGroup' /\ UNCHANGED <<group, rtask>>
    BY <1>3, <1>5 DEF RocketGroup, RocketBatches, Rocket!Drained, Rocket!Closed, Rocket!CloseTimeout, Rocket!Close
  <2>2. RocketTypes'
    BY Zenon, <1>1, <1>3, <1>5 DEF Rocket!Drained, Rocket!Closed, Rocket!CloseTimeout, Rocket!Close
  <2>3. RocketClosing'
    <3>1. CASE Rocket!Drained(k)
      BY <1>3, <2>1, <3>1 DEF Rocket!Drained, Rocket!Busy
    <3>2. CASE Rocket!Close(k)
      BY <1>3, <2>1, <3>2 DEF Rocket!Close, Rocket!Busy
    <3>3. CASE Rocket!Closed(k)
      BY <1>3, <2>1, <3>3 DEF Rocket!Closed, Rocket!Busy
    <3>4. CASE Rocket!CloseTimeout(k)
      BY <1>3, <2>1, <3>4 DEF Rocket!CloseTimeout, Rocket!Busy
    <3> QED
      BY Zenon, <1>5, <3>1, <3>2, <3>3, <3>4
  <2> QED
    BY Zenon, <1>2, <2>1, <2>2, <2>3 DEF RocketInv
<1>6. CASE Rocket!Shutdown
  <2>1. /\ sub' = [sub EXCEPT !.shutdown = "done"] /\ UNCHANGED rcloser /\ sub.shutdown = "going"
        /\ group' = [g \in RocketGroups |-> IF group[g].consumer = "open"
                                  THEN [group[g] EXCEPT !.consumer = "stopped"] ELSE group[g]]
    BY Zenon, <1>6 DEF Rocket!Shutdown
  <2>2. \A g \in RocketGroups :
          /\ group'[g] \in RocketPoller(RocketBatches) /\ group'[g].batch = group[g].batch
          /\ group'[g].poller = group[g].poller /\ group'[g].consumer # "open"
    <3> SUFFICES ASSUME NEW g \in RocketGroups
                 PROVE  /\ group'[g] \in RocketPoller(RocketBatches) /\ group'[g].batch = group[g].batch
                        /\ group'[g].poller = group[g].poller /\ group'[g].consumer # "open"
      BY Zenon
    <3> DEFINE x == [group[g] EXCEPT !.consumer = "stopped"]
    <3>1. group[g] \in RocketPoller(RocketBatches)
      BY Zenon, <1>3 DEF RocketGroup
    <3>2. x \in RocketPoller(RocketBatches) /\ x.batch = group[g].batch /\ x.poller = group[g].poller /\ x.consumer = "stopped"
      BY Zenon, <3>1 DEF RocketPoller
    <3>3. group'[g] = IF group[g].consumer = "open" THEN x ELSE group[g]
      BY Zenon, <2>1
    <3> HIDE DEF x
    <3> QED
      BY Zenon, <3>1, <3>2, <3>3
  <2>3. RocketBatches' = RocketBatches /\ group' \in [RocketGroups -> RocketPoller(RocketBatches)]
    BY Zenon, <2>1, <2>2 DEF RocketBatches
  <2>4. RocketTypes' /\ RocketClosing'
    BY Zenon, <1>1, <1>3, <2>1, <2>2 DEF Rocket!Busy
  <2> QED
    BY Zenon, <1>2, <2>3, <2>4 DEF RocketInv, RocketGroup
<1> QED
  BY Zenon, <1>4, <1>5, <1>6 DEF Rocket!CloseStep

\* The invariant holds before the first Subscribe.
LEMMA RocketStart == Rocket!Init => RocketInv
<1> SUFFICES ASSUME Rocket!Init PROVE RocketInv
  BY Zenon
<1>1. RocketTypes /\ RocketHandling /\ RocketClosing
  BY RocketSubscribersAssumption DEF Rocket!Init, RocketTypes, RocketHandling, RocketClosing, RocketTask, RocketMessage,
     Rocket!RocketAssumption, Rocket!idle, Rocket!Busy
<1>2. RocketGroup
  BY Zenon DEF Rocket!Init, RocketGroup, RocketPoller, RocketBatches
<1>3. /\ recorded \subseteq RocketMsgs /\ Rocket!NothingLost /\ Rocket!NackHolds /\ Rocket!AuditAtLimit
  BY Zenon DEF Rocket!Init, Rocket!NothingLost, Rocket!NackHolds, Rocket!AuditAtLimit, Rocket!Holds, Rocket!idle
<1> QED
  BY Zenon, <1>1, <1>2, <1>3 DEF RocketInv

\* Every step of RocketSubscriber keeps the invariant.
LEMMA RocketStep == RocketInv /\ [Rocket!Next]_Rocket!vars => RocketInv'
<1> SUFFICES ASSUME RocketInv, [Rocket!Next]_Rocket!vars PROVE RocketInv'
  BY Zenon
<1>1. CASE UNCHANGED Rocket!vars
  <2>1. RocketTypes' /\ RocketHandling' /\ RocketClosing' /\ recorded' \subseteq RocketMsgs
    BY Zenon, <1>1 DEF Rocket!vars, RocketInv, RocketTypes, RocketHandling, RocketClosing, Rocket!Busy
  <2>2. RocketGroup'
    BY Zenon, <1>1 DEF Rocket!vars, RocketInv, RocketGroup, RocketBatches
  <2>3. Rocket!NothingLost' /\ Rocket!NackHolds' /\ Rocket!AuditAtLimit'
    BY Zenon, <1>1 DEF Rocket!vars, RocketInv, Rocket!NothingLost, Rocket!NackHolds, Rocket!Holds, Rocket!AuditAtLimit
  <2> QED
    BY Zenon, <2>1, <2>2, <2>3 DEF RocketInv
<1>2. ASSUME NEW g \in RocketGroups, Rocket!Subscribe(g) \/ Rocket!PollStep(g) PROVE RocketInv'
  BY Zenon, <1>2, RocketReceive, RocketPollStep DEF Rocket!PollStep
<1>3. ASSUME NEW t \in RocketTasks, \/ Rocket!HandlerAccepts(t) \/ Rocket!HandlerSettles(t) \/ Rocket!HostStep(t)
                                    \/ Rocket!HandleStep(t) \/ Rocket!ContextEnds(t) \/ Rocket!Renew(t)
      PROVE  RocketInv'
  BY Zenon, <1>3, RocketHandlerStep, RocketSettleStep DEF Rocket!HostStep, Rocket!HandleStep
<1> QED
  BY Zenon, <1>1, <1>2, <1>3, RocketLapse, RocketCloseStep DEF Rocket!Next, Rocket!Finished

-----------------------------------------------------------------------------
(* PyRocketSubscriber *)

\* The stages of a handler task, its calls of the driver, and the messages of the broker.
PyRocketCalls == {"ack", "retry", "renew"}
PyRocketStages == {"idle", "handler", "quarantine", "failed", "ack", "retry", "acking", "retrying", "end", "left"}
PyRocketTask == [at : PyRocketStages, msg : PyRocketMsgs \cup {"none"}, att : Nat, renew : {"off", "sleep", "call"},
                 calls : SUBSET PyRocketCalls]
PyRocketEntry == [at : {"ready", "hidden", "acked"}, att : Nat]

\* What the variables of PyRocketSubscriber range over.
PyRocketTypes ==
    /\ zbroker \in [PyRocketMsgs -> PyRocketEntry]
    /\ poll \in [at : {"loop", "receive", "ended"}, thread : {"none", "running", "got", "empty", "error"},
                 msg : PyRocketMsgs \cup {"none"}]
    /\ ztask \in [PyRocketTasks -> PyRocketTask]
    /\ stop \in [at : {"none", "tasks", "raised", "returned"}, closing : BOOLEAN, failed : BOOLEAN]
    /\ zruns \in [PyRocketMsgs -> Nat]

\* What a handler task has established: an Ack, running on its thread too, stands for an
\* accepted or audited message; after the settlement began no renewal is called.
PyRocketHandles(t) ==
    /\ ztask[t].at # "idle" => ztask[t].msg \in PyRocketMsgs
    /\ ztask[t].at = "idle" => ztask[t].calls = {} /\ ztask[t].renew = "off"
    /\ ztask[t].at \in {"ack", "acking"} \/ "ack" \in ztask[t].calls =>
          ztask[t].msg \in zaccepted \cup zaudited
    /\ ztask[t].at \in {"acking", "retrying", "end", "left"} => ztask[t].renew # "call"

\* So has every task.
PyRocketHandling == \A t \in PyRocketTasks : PyRocketHandles(t)

\* A message the poller holds has an attempt that no run consumed yet.
PyRocketPolling ==
    /\ poll.at = "loop" => poll.thread = "none"
    /\ poll.thread = "got" => poll.msg \in PyRocketMsgs
    /\ \A m \in PyRocketMsgs :
          /\ zruns[m] <= PyRocketAttempts
          /\ zruns[m] <= zbroker[m].att
          /\ poll.thread = "got" /\ poll.msg = m => zruns[m] < zbroker[m].att

\* stop waits for the poller first; when it returned no task and no thread is left.
PyRocketStopping ==
    /\ stop.at # "none" => poll.at = "ended"
    /\ stop.at = "returned" => PyRocket!live = {} /\ PyRocket!calls = {}

\* The inductive invariant of PyRocketSubscriber.
PyRocketInv ==
    PyRocketTypes /\ PyRocketHandling /\ PyRocketPolling /\ PyRocketStopping /\ PyRocket!NothingLost

\* A task that goes on keeps the invariant if what it establishes is so and if only
\* accepted or audited messages are acknowledged.
LEMMA PyRocketTaskMove ==
  ASSUME PyRocketInv, NEW t \in PyRocketTasks, NEW x \in PyRocketTask,
         ztask' = [ztask EXCEPT ![t] = x], PyRocketHandles(t)',
         t \in PyRocket!live \/ ztask[t].calls # {},
         zbroker' \in [PyRocketMsgs -> PyRocketEntry],
         \A m \in PyRocketMsgs : /\ zbroker'[m].att = zbroker[m].att
                                 /\ zbroker'[m].at = "acked" => zbroker[m].at = "acked" \/ m \in zaccepted \cup zaudited,
         stop' = stop \/ stop' = [stop EXCEPT !.failed = TRUE],
         zaccepted \subseteq zaccepted', zaudited \subseteq zaudited', UNCHANGED <<poll, zruns>>
  PROVE  PyRocketInv'
<1>1. PyRocketTypes'
  BY Zenon DEF PyRocketInv, PyRocketTypes
<1>2. PyRocketHandling'
  <2> SUFFICES ASSUME NEW u \in PyRocketTasks, u # t PROVE PyRocketHandles(u)'
    BY Zenon DEF PyRocketHandling
  <2>1. ztask'[u] = ztask[u] /\ PyRocketHandles(u)
    BY DEF PyRocketInv, PyRocketTypes, PyRocketHandling
  <2> QED
    BY <2>1 DEF PyRocketHandles
<1>3. PyRocketPolling'
  BY DEF PyRocketInv, PyRocketPolling
<1>4. PyRocketStopping'
  BY DEF PyRocketInv, PyRocketTypes, PyRocketStopping, PyRocket!live, PyRocket!calls
<1>5. PyRocket!NothingLost'
  BY DEF PyRocketInv, PyRocket!NothingLost
<1> QED
  BY <1>1, <1>2, <1>3, <1>4, <1>5 DEF PyRocketInv

\* The host commits, returns or raises; the failure is audited.
LEMMA PyRocketHandlerStep ==
  ASSUME PyRocketInv, NEW t \in PyRocketTasks,
         \/ PyRocket!commits(t) \/ PyRocket!handlerReturns(t) \/ PyRocket!handlerRaises(t) \/ PyRocket!audits(t)
  PROVE  PyRocketInv'
<1>1. /\ ztask \in [PyRocketTasks -> PyRocketTask] /\ PyRocketHandles(t) /\ ztask[t] \in PyRocketTask
      /\ t \in PyRocket!live /\ ztask[t].msg \in PyRocketMsgs
      /\ zbroker \in [PyRocketMsgs -> PyRocketEntry] /\ UNCHANGED <<zbroker, stop, poll, zruns>>
      /\ zaccepted \subseteq zaccepted' /\ zaudited \subseteq zaudited'
  BY DEF PyRocketInv, PyRocketTypes, PyRocketHandling, PyRocketHandles, PyRocket!commits, PyRocket!handlerReturns,
         PyRocket!handlerRaises, PyRocket!audits, PyRocket!live
<1>2. ASSUME NEW v \in {"ack", "retry", "failed"}, PyRocket!becomes(t, v),
             v = "ack" => ztask[t].msg \in zaccepted' \cup zaudited'
      PROVE  PyRocketInv'
  <2> DEFINE x == [ztask[t] EXCEPT !.at = v]
  <2>1. v \in PyRocketStages
    BY DEF PyRocketStages
  <2>2. x \in PyRocketTask /\ x.at = v /\ x.msg = ztask[t].msg /\ x.calls = ztask[t].calls
    BY Zenon, <1>1, <2>1 DEF PyRocketTask
  <2>3. ztask' = [ztask EXCEPT ![t] = x]
    BY Zenon, <1>2 DEF PyRocket!becomes
  <2> HIDE DEF x
  <2>4. PyRocketHandles(t)'
    BY <1>1, <1>2, <2>2, <2>3 DEF PyRocketHandles
  <2> QED
    BY Zenon, <1>1, <2>2, <2>3, <2>4, PyRocketTaskMove
<1>3. CASE PyRocket!commits(t)
  <2>1. ztask' = [ztask EXCEPT ![t] = ztask[t]] /\ PyRocketHandles(t)'
    BY <1>1, <1>3 DEF PyRocket!commits, PyRocketHandles
  <2> QED
    BY Zenon, <1>1, <2>1, PyRocketTaskMove
<1> QED
  BY <1>1, <1>2, <1>3 DEF PyRocket!handlerReturns, PyRocket!handlerRaises, PyRocket!audits

\* The settlement begins or fails; the renewal calls and fails.
LEMMA PyRocketSettleStep ==
  ASSUME PyRocketInv, NEW t \in PyRocketTasks,
         PyRocket!settleBegins(t) \/ PyRocket!settleFails(t) \/ PyRocket!renew(t) \/ PyRocket!renewFails(t)
  PROVE  PyRocketInv'
<1>1. /\ ztask \in [PyRocketTasks -> PyRocketTask] /\ PyRocketHandles(t) /\ ztask[t] \in PyRocketTask
      /\ ztask[t].calls \in SUBSET PyRocketCalls
      /\ zbroker \in [PyRocketMsgs -> PyRocketEntry] /\ UNCHANGED <<zbroker, poll, zaccepted, zaudited, zruns>>
  BY DEF PyRocketInv, PyRocketTypes, PyRocketHandling, PyRocketTask, PyRocket!settleBegins, PyRocket!settleFails,
         PyRocket!renew, PyRocket!renewFails
<1>2. CASE PyRocket!settleBegins(t)
  <2> DEFINE v == IF ztask[t].at = "ack" THEN "acking" ELSE "retrying"
             c == ztask[t].calls \cup {ztask[t].at}
             x == [ztask[t] EXCEPT !.at = v, !.calls = c]
  <2>1. v \in PyRocketStages /\ c \in SUBSET PyRocketCalls
    BY <1>1, <1>2 DEF PyRocketStages, PyRocketCalls, PyRocket!settleBegins
  <2>2. /\ ztask' = [ztask EXCEPT ![t] = x] /\ UNCHANGED stop
        /\ ztask[t].at \in {"ack", "retry"} /\ ztask[t].renew # "call"
    BY Zenon, <1>2 DEF PyRocket!settleBegins, PyRocket!free
  <2> HIDE DEF v, c
  <2>3. x \in PyRocketTask /\ x.at = v /\ x.msg = ztask[t].msg /\ x.calls = c /\ x.renew = ztask[t].renew
    BY Zenon, <1>1, <2>1 DEF PyRocketTask
  <2> HIDE DEF x
  <2>4. PyRocketHandles(t)' /\ t \in PyRocket!live
    BY <1>1, <2>2, <2>3 DEF PyRocketHandles, PyRocket!live, v, c
  <2> QED
    BY Zenon, <1>1, <2>2, <2>3, <2>4, PyRocketTaskMove
<1>3. CASE PyRocket!settleFails(t)
  <2>1. ASSUME NEW gone \in SUBSET {"ack"}, ztask[t].at \in {"handler", "quarantine", "failed", "ack", "acking"},
               ztask' = [ztask EXCEPT ![t] = [ztask[t] EXCEPT !.at = "retry", !.calls = ztask[t].calls \ gone]], UNCHANGED stop
        PROVE  PyRocketInv'
    <3> DEFINE c == ztask[t].calls \ gone
               x == [ztask[t] EXCEPT !.at = "retry", !.calls = c]
    <3>1. c \in SUBSET PyRocketCalls /\ "retry" \in PyRocketStages /\ c \subseteq ztask[t].calls
      BY <1>1 DEF PyRocketStages
    <3>2. ztask' = [ztask EXCEPT ![t] = x]
      BY <2>1
    <3> HIDE DEF c
    <3>3. x \in PyRocketTask /\ x.at = "retry" /\ x.msg = ztask[t].msg /\ x.calls = c
      BY Zenon, <1>1, <3>1 DEF PyRocketTask
    <3> HIDE DEF x
    <3>4. PyRocketHandles(t)' /\ t \in PyRocket!live
      BY <1>1, <2>1, <3>1, <3>2, <3>3 DEF PyRocketHandles, PyRocket!live
    <3> QED
      BY Zenon, <1>1, <2>1, <3>2, <3>3, <3>4, PyRocketTaskMove
  <2>2. CASE ztask[t].at = "retrying" /\ PyRocket!ends(t) /\ stop' = [stop EXCEPT !.failed = TRUE]
    <3> DEFINE x == [ztask[t] EXCEPT !.at = "end", !.renew = "off"]
    <3>1. x \in PyRocketTask /\ x.at = "end" /\ x.msg = ztask[t].msg /\ x.calls = ztask[t].calls /\ x.renew = "off"
      BY Zenon, <1>1 DEF PyRocketTask, PyRocketStages
    <3>2. ztask' = [ztask EXCEPT ![t] = x]
      BY Zenon, <2>2 DEF PyRocket!ends
    <3> HIDE DEF x
    <3>3. PyRocketHandles(t)' /\ t \in PyRocket!live
      BY <1>1, <2>2, <3>1, <3>2 DEF PyRocketHandles, PyRocket!live
    <3> QED
      BY Zenon, <1>1, <2>2, <3>1, <3>2, <3>3, PyRocketTaskMove
  <2> QED
    BY Zenon, <1>3, <2>1, <2>2 DEF PyRocket!settleFails
<1>4. CASE PyRocket!renew(t)
  <2> DEFINE c == ztask[t].calls \cup {"renew"}
             x == [ztask[t] EXCEPT !.renew = "call", !.calls = c]
  <2>1. c \in SUBSET PyRocketCalls
    BY <1>1 DEF PyRocketCalls
  <2>2. /\ ztask' = [ztask EXCEPT ![t] = x] /\ UNCHANGED stop /\ ztask[t].renew = "sleep"
        /\ ztask[t].at \notin {"end", "left", "acking", "retrying"}
    BY Zenon, <1>4 DEF PyRocket!renew, PyRocket!free
  <2> HIDE DEF c
  <2>3. x \in PyRocketTask /\ x.at = ztask[t].at /\ x.msg = ztask[t].msg /\ x.calls = c
    BY Zenon, <1>1, <2>1 DEF PyRocketTask
  <2> HIDE DEF x
  <2>4. PyRocketHandles(t)' /\ t \in PyRocket!live
    BY <1>1, <2>2, <2>3 DEF PyRocketHandles, PyRocket!live, c
  <2> QED
    BY Zenon, <1>1, <2>2, <2>3, <2>4, PyRocketTaskMove
<1>5. CASE PyRocket!renewFails(t)
  <2>1. PICK to \in {"end"} \cup ({ztask[t].at} \cap {"handler"}) :
          ztask' = [ztask EXCEPT ![t] = [ztask[t] EXCEPT !.at = to, !.renew = "off", !.calls = ztask[t].calls \ {"renew"}]]
    BY ZenonT(40), <1>5 DEF PyRocket!renewFails
  <2> DEFINE c == ztask[t].calls \ {"renew"}
             x == [ztask[t] EXCEPT !.at = to, !.renew = "off", !.calls = c]
  <2>2. c \in SUBSET PyRocketCalls /\ to \in PyRocketStages /\ to \in {"end", "handler"} /\ c \subseteq ztask[t].calls
    BY <1>1 DEF PyRocketStages
  <2>3. /\ ztask' = [ztask EXCEPT ![t] = x] /\ stop' = [stop EXCEPT !.failed = TRUE]
        /\ ztask[t].renew = "call" /\ ztask[t].at \notin {"end", "left"}
    BY Zenon, <1>5, <2>1 DEF PyRocket!renewFails
  <2> HIDE DEF c
  <2>4. x \in PyRocketTask /\ x.at = to /\ x.msg = ztask[t].msg /\ x.calls = c /\ x.renew = "off"
    BY Zenon, <1>1, <2>2 DEF PyRocketTask
  <2> HIDE DEF x
  <2>5. PyRocketHandles(t)' /\ t \in PyRocket!live
    BY <1>1, <2>2, <2>3, <2>4 DEF PyRocketHandles, PyRocket!live
  <2> QED
    BY Zenon, <1>1, <2>3, <2>4, <2>5, PyRocketTaskMove
<1> QED
  BY <1>2, <1>3, <1>4, <1>5

\* A task that ended is as good as new.
LEMMA PyRocketIdle ==
  ASSUME PyRocketTypes, NEW t \in PyRocketTasks, ztask' = [ztask EXCEPT ![t] = PyRocket!idle]
  PROVE  PyRocket!idle \in PyRocketTask /\ PyRocketHandles(t)'
BY DEF PyRocketTypes, PyRocket!idle, PyRocketTask, PyRocketStages, PyRocketHandles

\* A call of the driver ends on its thread, waited for or not.
LEMMA PyRocketThreadStep ==
  ASSUME PyRocketInv, NEW t \in PyRocketTasks, NEW call \in PyRocketCalls, PyRocket!threadEnds(t, call)
  PROVE  PyRocketInv'
<1>1. /\ PyRocketTypes /\ ztask \in [PyRocketTasks -> PyRocketTask] /\ PyRocketHandles(t) /\ ztask[t] \in PyRocketTask
      /\ ztask[t].calls \in SUBSET PyRocketCalls /\ ztask[t].at \in PyRocketStages /\ ztask[t].msg \in PyRocketMsgs
      /\ ztask[t].renew \in {"off", "sleep", "call"}
      /\ zbroker \in [PyRocketMsgs -> PyRocketEntry] /\ UNCHANGED <<stop, poll, zaccepted, zaudited, zruns>>
      /\ call \in ztask[t].calls
  BY DEF PyRocketInv, PyRocketTypes, PyRocketHandling, PyRocketHandles, PyRocketTask, PyRocket!threadEnds
<1>2. /\ zbroker' \in [PyRocketMsgs -> PyRocketEntry]
      /\ \A m \in PyRocketMsgs :
            /\ zbroker'[m].att = zbroker[m].att
            /\ zbroker'[m].at = "acked" => zbroker[m].at = "acked" \/ m \in zaccepted \cup zaudited
  <2> DEFINE x == [zbroker[ztask[t].msg] EXCEPT !.at = "acked"]
  <2>1. zbroker' = zbroker \/ (call = "ack" /\ zbroker' = [zbroker EXCEPT ![ztask[t].msg] = x])
    BY Zenon DEF PyRocket!threadEnds
  <2>2. zbroker[ztask[t].msg] \in PyRocketEntry
    BY <1>1
  <2>3. x \in PyRocketEntry /\ x.att = zbroker[ztask[t].msg].att
    BY Zenon, <2>2 DEF PyRocketEntry
  <2> HIDE DEF x
  <2> QED
    BY <1>1, <2>1, <2>3 DEF PyRocketHandles
<1>3. CASE ztask' = [ztask EXCEPT ![t] = PyRocket!idle]
  BY Zenon, <1>1, <1>2, <1>3, PyRocketIdle, PyRocketTaskMove
<1>4. CASE ztask' # [ztask EXCEPT ![t] = PyRocket!idle]
  <2> DEFINE c == ztask[t].calls \ {call}
             v == IF ztask[t].at = PyRocket!awaits[call] THEN "end" ELSE ztask[t].at
             r == IF call = "renew" /\ ztask[t].renew = "call" THEN "sleep" ELSE ztask[t].renew
             x == [ztask[t] EXCEPT !.calls = c, !.at = v, !.renew = r]
  <2>1. ztask' = [ztask EXCEPT ![t] = x]
    BY Zenon, <1>4 DEF PyRocket!threadEnds
  <2>2. /\ c \in SUBSET PyRocketCalls /\ c \subseteq ztask[t].calls
        /\ v \in PyRocketStages /\ (v = ztask[t].at \/ (v = "end" /\ ztask[t].at \in {"acking", "retrying"}))
        /\ r \in {"off", "sleep", "call"} /\ (r = "call" => ztask[t].renew = "call")
    BY <1>1 DEF PyRocketStages, PyRocketCalls, PyRocket!awaits
  <2> HIDE DEF c, v, r
  <2>3. x \in PyRocketTask /\ x.at = v /\ x.msg = ztask[t].msg /\ x.calls = c /\ x.renew = r
    BY Zenon, <1>1, <2>2 DEF PyRocketTask
  <2> HIDE DEF x
  <2>4. PyRocketHandles(t)'
    BY <1>1, <2>1, <2>2, <2>3 DEF PyRocketHandles
  <2> QED
    BY Zenon, <1>1, <1>2, <2>1, <2>3, <2>4, PyRocketTaskMove
<1> QED
  BY <1>3, <1>4

\* A task ends when its calls of the driver have.
LEMMA PyRocketCompleted ==
  ASSUME PyRocketInv, NEW t \in PyRocketTasks, PyRocket!completed(t)
  PROVE  PyRocketInv'
<1>1. /\ PyRocketTypes /\ ztask \in [PyRocketTasks -> PyRocketTask] /\ PyRocketHandles(t) /\ ztask[t] \in PyRocketTask
      /\ zbroker \in [PyRocketMsgs -> PyRocketEntry]
      /\ UNCHANGED <<zbroker, stop, poll, zaccepted, zaudited, zruns>>
      /\ ztask[t].at = "end" /\ t \in PyRocket!live
  BY DEF PyRocketInv, PyRocketTypes, PyRocketHandling, PyRocket!live, PyRocket!completed
<1>2. CASE ztask' = [ztask EXCEPT ![t] = PyRocket!idle]
  BY Zenon, <1>1, <1>2, PyRocketIdle, PyRocketTaskMove
<1>3. CASE ztask' # [ztask EXCEPT ![t] = PyRocket!idle]
  <2> DEFINE x == [ztask[t] EXCEPT !.at = "left", !.renew = "off"]
  <2>1. ztask' = [ztask EXCEPT ![t] = x]
    BY Zenon, <1>3 DEF PyRocket!completed
  <2>2. x \in PyRocketTask /\ x.at = "left" /\ x.msg = ztask[t].msg /\ x.calls = ztask[t].calls /\ x.renew = "off"
    BY Zenon, <1>1 DEF PyRocketTask, PyRocketStages
  <2> HIDE DEF x
  <2>3. PyRocketHandles(t)'
    BY <1>1, <2>1, <2>2 DEF PyRocketHandles
  <2> QED
    BY Zenon, <1>1, <2>1, <2>2, <2>3, PyRocketTaskMove
<1> QED
  BY <1>2, <1>3

\* The poller reserves a slot, receives, ends; the invisibility of a message ends.
LEMMA PyRocketPollStep ==
  ASSUME PyRocketInv, PyRocket!reserve \/ PyRocket!receive \/ PyRocket!pollEnds \/ \E m \in PyRocketMsgs : PyRocket!lapse(m)
  PROVE  PyRocketInv'
<1>1. /\ PyRocketTypes /\ PyRocketHandling /\ PyRocketPolling /\ PyRocketStopping /\ PyRocket!NothingLost
      /\ UNCHANGED <<ztask, stop, zaccepted, zaudited, zruns>>
  BY Zenon DEF PyRocketInv, PyRocket!reserve, PyRocket!receive, PyRocket!pollEnds, PyRocket!lapse
<1>2. PyRocketHandling'
  BY <1>1 DEF PyRocketHandling, PyRocketHandles
<1>3. CASE PyRocket!reserve \/ PyRocket!pollEnds
  <2>1. UNCHANGED zbroker
    BY <1>3 DEF PyRocket!reserve, PyRocket!pollEnds
  <2>2. PyRocketTypes' /\ PyRocketPolling' /\ PyRocketStopping'
    BY Zenon, <1>1, <1>3, <2>1 DEF PyRocketTypes, PyRocketPolling, PyRocketStopping, PyRocket!reserve, PyRocket!pollEnds,
       PyRocket!live, PyRocket!calls
  <2> QED
    BY <1>1, <1>2, <2>1, <2>2 DEF PyRocketInv, PyRocket!NothingLost
<1>4. ASSUME NEW m \in PyRocketMsgs, PyRocket!lapse(m) PROVE PyRocketInv'
  <2> DEFINE x == [zbroker[m] EXCEPT !.at = "ready"]
  <2>1. zbroker[m] \in PyRocketEntry /\ UNCHANGED poll
    BY <1>1, <1>4 DEF PyRocketTypes, PyRocket!lapse
  <2>2. x \in PyRocketEntry /\ x.at = "ready" /\ x.att = zbroker[m].att
    BY Zenon, <2>1 DEF PyRocketEntry
  <2>3. zbroker' = [zbroker EXCEPT ![m] = x]
    BY Zenon, <1>4 DEF PyRocket!lapse
  <2> HIDE DEF x
  <2>4. PyRocketTypes' /\ PyRocketPolling' /\ PyRocketStopping'
    BY <1>1, <2>1, <2>2, <2>3 DEF PyRocketTypes, PyRocketPolling, PyRocketStopping, PyRocket!live, PyRocket!calls
  <2> QED
    BY <1>1, <1>2, <2>2, <2>3, <2>4 DEF PyRocketInv, PyRocket!NothingLost, PyRocketTypes
<1>5. CASE PyRocket!receive
  <2>1. poll.thread = "running" /\ "poll" \in PyRocket!calls
    BY Zenon, <1>5 DEF PyRocket!receive, PyRocket!calls
  <2>2. stop.at # "returned" /\ poll.at # "loop"
    BY <1>1, <2>1 DEF PyRocketStopping, PyRocketPolling
  <2>3. CASE zbroker' = zbroker
    <3>1. PICK w \in {"empty", "error"} : poll' = [poll EXCEPT !.thread = w]
      <4>1. ASSUME NEW m \in PyRocketMsgs,
                   zbroker' = [zbroker EXCEPT ![m] = [at |-> "hidden", att |-> zbroker[m].att + 1]]
            PROVE  FALSE
        <5>1. zbroker[m].att \in Nat /\ zbroker'[m].att = zbroker[m].att + 1
          BY <1>1, <4>1 DEF PyRocketTypes, PyRocketEntry
        <5> QED
          BY <2>3, <5>1
      <4> QED
        BY Zenon, <1>5, <4>1 DEF PyRocket!receive
    <3>2. PyRocketTypes' /\ PyRocketPolling' /\ PyRocketStopping'
      BY <1>1, <2>2, <2>3, <3>1 DEF PyRocketTypes, PyRocketPolling, PyRocketStopping
    <3> QED
      BY <1>1, <1>2, <2>3, <3>2 DEF PyRocketInv, PyRocket!NothingLost
  <2>4. CASE zbroker' # zbroker
    <3>1. PICK m \in PyRocketMsgs :
            /\ zbroker' = [zbroker EXCEPT ![m] = [at |-> "hidden", att |-> zbroker[m].att + 1]]
            /\ poll' = [poll EXCEPT !.thread = "got", !.msg = m]
      BY Zenon, <1>5, <2>4 DEF PyRocket!receive
    <3>2. zbroker[m].att \in Nat /\ zruns[m] \in Nat
      BY <1>1 DEF PyRocketTypes, PyRocketEntry
    <3>3. PyRocketTypes' /\ PyRocketStopping'
      <4>1. [at |-> "hidden", att |-> zbroker[m].att + 1] \in PyRocketEntry
        BY <3>2 DEF PyRocketEntry
      <4>2. PyRocketTypes'
        BY Zenon, <1>1, <3>1, <4>1 DEF PyRocketTypes
      <4> QED
        BY <1>1, <2>2, <3>1, <4>2 DEF PyRocketTypes, PyRocketStopping
    <3>4. PyRocketPolling'
      BY <1>1, <2>2, <3>1, <3>2 DEF PyRocketTypes, PyRocketPolling
    <3> QED
      BY <1>1, <1>2, <3>1, <3>3, <3>4 DEF PyRocketInv, PyRocket!NothingLost, PyRocketTypes
  <2> QED
    BY <2>3, <2>4
<1> QED
  BY <1>3, <1>4, <1>5

\* What the poller received goes to a task, or is left to the broker.
LEMMA PyRocketReceived ==
  ASSUME PyRocketInv, PyRocket!received
  PROVE  PyRocketInv'
<1>1. /\ PyRocketTypes /\ PyRocketHandling /\ PyRocketPolling /\ PyRocketStopping /\ PyRocket!NothingLost
      /\ UNCHANGED <<zbroker, zaccepted, zaudited>>
      /\ poll.thread \in {"got", "empty", "error"} /\ "poll" \in PyRocket!calls
  BY DEF PyRocketInv, PyRocket!received, PyRocket!calls
<1>2. stop.at # "returned" /\ poll.at # "loop"
  BY <1>1 DEF PyRocketStopping, PyRocketPolling
<1>3. /\ poll' \in [at : {"loop", "receive", "ended"}, thread : {"none", "running", "got", "empty", "error"},
                    msg : PyRocketMsgs \cup {"none"}]
      /\ poll'.thread = "none" /\ (poll.at = "ended" => poll'.at = "ended")
  BY <1>1 DEF PyRocket!received, PyRocketTypes
<1>4. /\ stop' \in [at : {"none", "tasks", "raised", "returned"}, closing : BOOLEAN, failed : BOOLEAN]
      /\ stop'.at = stop.at
  BY Zenon, <1>1 DEF PyRocket!received, PyRocketTypes
<1>5. PyRocketStopping' /\ PyRocket!NothingLost'
  BY <1>1, <1>2, <1>3, <1>4 DEF PyRocketStopping, PyRocket!NothingLost
<1>6. CASE UNCHANGED <<ztask, zruns>>
  <2>1. PyRocketTypes' /\ PyRocketHandling' /\ PyRocketPolling'
    BY <1>1, <1>3, <1>4, <1>6 DEF PyRocketTypes, PyRocketHandling, PyRocketHandles, PyRocketPolling
  <2> QED
    BY <1>5, <2>1 DEF PyRocketInv
<1>7. CASE poll.thread = "got" /\ PyRocket!created
  <2> DEFINE m == poll.msg  w == PyRocket!stage(m)
             x == [at |-> w, msg |-> m, att |-> zbroker[m].att, renew |-> "sleep", calls |-> {}]
  <2>1. PICK t \in PyRocketTasks :
          /\ ztask[t].at = "idle" /\ ztask' = [ztask EXCEPT ![t] = x]
          /\ zruns' = [zruns EXCEPT ![m] = IF w = "handler" THEN zruns[m] + 1 ELSE zruns[m]]
    BY Zenon, <1>7 DEF PyRocket!created
  <2>2. /\ m \in PyRocketMsgs /\ zbroker[m].att \in Nat /\ zruns[m] \in Nat /\ zruns[m] < zbroker[m].att
        /\ w \in {"quarantine", "failed", "handler"} /\ (w = "handler" => zbroker[m].att <= PyRocketAttempts)
        /\ PyRocketAttempts \in Nat
    BY <1>1, <1>7, RocketSubscribersAssumption DEF PyRocketPolling, PyRocketTypes, PyRocketEntry, PyRocket!stage,
       PyRocket!PyRocketSubscriberAssumption
  <2> HIDE DEF w
  <2>3. x \in PyRocketTask /\ x.at = w /\ x.msg = m /\ x.calls = {} /\ x.renew = "sleep"
    BY <2>2 DEF PyRocketTask, PyRocketStages
  <2> HIDE DEF x
  <2>4. PyRocketTypes'
    BY <1>1, <1>3, <1>4, <2>1, <2>2, <2>3 DEF PyRocketTypes
  <2>5. PyRocketHandling'
    <3> SUFFICES ASSUME NEW u \in PyRocketTasks PROVE PyRocketHandles(u)'
      BY Zenon DEF PyRocketHandling
    <3>1. CASE u = t
      <4>1. ztask'[u] = x
        BY <1>1, <2>1, <3>1 DEF PyRocketTypes
      <4> QED
        BY <2>2, <2>3, <4>1 DEF PyRocketHandles
    <3>2. CASE u # t
      <4>1. ztask'[u] = ztask[u] /\ PyRocketHandles(u)
        BY <1>1, <2>1, <3>2 DEF PyRocketTypes, PyRocketHandling
      <4> QED
        BY <1>1, <4>1 DEF PyRocketHandles
    <3> QED
      BY <3>1, <3>2
  <2>6. PyRocketPolling'
    <3>1. \A n \in PyRocketMsgs : zruns[n] \in Nat /\ zruns'[n] = IF n = m /\ w = "handler" THEN zruns[n] + 1 ELSE zruns[n]
      BY <1>1, <2>1, <2>2 DEF PyRocketTypes
    <3>2. \A n \in PyRocketMsgs : zruns'[n] <= PyRocketAttempts /\ zruns'[n] <= zbroker[n].att
      <4> SUFFICES ASSUME NEW n \in PyRocketMsgs
                   PROVE  zruns'[n] <= PyRocketAttempts /\ zruns'[n] <= zbroker[n].att
        OBVIOUS
      <4>1. zbroker[n].att \in Nat /\ zruns[n] <= PyRocketAttempts /\ zruns[n] <= zbroker[n].att
        BY <1>1 DEF PyRocketTypes, PyRocketEntry, PyRocketPolling
      <4> QED
        BY <2>2, <3>1, <4>1
    <3> QED
      BY <1>1, <1>3, <3>2 DEF PyRocketPolling
  <2> QED
    BY <1>5, <2>4, <2>5, <2>6 DEF PyRocketInv
<1> QED
  BY Zenon, <1>6, <1>7 DEF PyRocket!received

\* The steps of stop.
LEMMA PyRocketStopStep ==
  ASSUME PyRocketInv, PyRocket!stopBegins \/ PyRocket!stopReturns \/ PyRocket!stopTimeout
  PROVE  PyRocketInv'
<1>1. /\ PyRocketTypes /\ PyRocketHandling /\ PyRocketPolling /\ PyRocketStopping /\ PyRocket!NothingLost
      /\ UNCHANGED <<zbroker, ztask, zaccepted, zaudited, zruns>>
  BY DEF PyRocketInv, PyRocket!stopBegins, PyRocket!stopReturns, PyRocket!stopTimeout
<1>2. PyRocketHandling' /\ PyRocket!NothingLost'
  BY <1>1 DEF PyRocketHandling, PyRocketHandles, PyRocket!NothingLost
<1>3. PyRocketTypes' /\ PyRocketPolling'
  BY Zenon, <1>1 DEF PyRocketTypes, PyRocketPolling, PyRocket!stopBegins, PyRocket!stopReturns, PyRocket!stopTimeout
<1>4. PyRocketStopping'
  BY Zenon, <1>1 DEF PyRocketTypes, PyRocketStopping, PyRocket!stopBegins, PyRocket!stopReturns, PyRocket!stopTimeout,
     PyRocket!live, PyRocket!calls
<1> QED
  BY <1>2, <1>3, <1>4 DEF PyRocketInv

\* The invariant holds before start.
LEMMA PyRocketStart == PyRocket!Init => PyRocketInv
<1> SUFFICES ASSUME PyRocket!Init PROVE PyRocketInv
  OBVIOUS
<1>1. PyRocketTypes /\ PyRocketPolling /\ PyRocketStopping /\ PyRocket!NothingLost
  BY RocketSubscribersAssumption DEF PyRocket!Init, PyRocketTypes, PyRocketTask, PyRocketStages, PyRocketEntry, PyRocket!idle,
     PyRocketPolling, PyRocketStopping, PyRocket!NothingLost, PyRocket!PyRocketSubscriberAssumption
<1>2. PyRocketHandling
  BY DEF PyRocket!Init, PyRocketHandling, PyRocketHandles, PyRocket!idle
<1> QED
  BY <1>1, <1>2 DEF PyRocketInv

\* Every step of PyRocketSubscriber keeps the invariant.
LEMMA PyRocketStep == PyRocketInv /\ [PyRocket!Next]_PyRocket!vars => PyRocketInv'
<1> SUFFICES ASSUME PyRocketInv, [PyRocket!Next]_PyRocket!vars PROVE PyRocketInv'
  OBVIOUS
<1>1. CASE UNCHANGED PyRocket!vars
  BY <1>1 DEF PyRocket!vars, PyRocketInv, PyRocketTypes, PyRocketHandling, PyRocketHandles, PyRocketPolling,
     PyRocketStopping, PyRocket!NothingLost, PyRocket!live, PyRocket!calls
<1>2. ASSUME NEW t \in PyRocketTasks, PyRocket!taskStep(t) PROVE PyRocketInv'
  BY Zenon, <1>2, PyRocketHandlerStep, PyRocketSettleStep, PyRocketCompleted DEF PyRocket!taskStep
<1>3. ASSUME NEW t \in PyRocketTasks, PyRocket!threadStep(t) PROVE PyRocketInv'
  BY <1>3, PyRocketThreadStep DEF PyRocket!threadStep, PyRocketCalls
<1>4. ASSUME NEW t \in PyRocketTasks,
             PyRocket!handlerRaises(t) \/ PyRocket!settleFails(t) \/ PyRocket!renew(t) \/ PyRocket!renewFails(t)
      PROVE  PyRocketInv'
  BY Zenon, <1>4, PyRocketHandlerStep, PyRocketSettleStep
<1> QED
  BY Zenon, <1>1, <1>2, <1>3, <1>4, PyRocketPollStep, PyRocketReceived, PyRocketStopStep
     DEF PyRocket!Next, PyRocket!pollStep
=============================================================================

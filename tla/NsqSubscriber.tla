---------------------------- MODULE NsqSubscriber ----------------------------
(***************************************************************************)
(* Who owns what in an NSQ subscriber (transport/nsq/subscriber.go) and in *)
(* the DirectHandoff of each registration (handoff_transport.go): Subscribe*)
(* calls for one topic and channel, handlers that hand failed messages     *)
(* off, and retryable Close calls whose contexts may expire.  A consumer's *)
(* StopChan closes when its handlers are through, or by force after 30 s.  *)
(***************************************************************************)
EXTENDS Naturals, FiniteSets

CONSTANTS
    Subs,           \* calls of Subscribe, all for the same topic and channel
    Handlers,       \* concurrent handler goroutines
    Closers,        \* calls of Close
    MaxInFlight,    \* send slots of a DirectHandoff
    MaxDeliveries   \* bound on the handlers started

SubscriberAssumption ==
    /\ MaxInFlight \in Nat \ {0} /\ MaxDeliveries \in Nat
    /\ IsFiniteSet(Handlers)
    /\ Subs \cap Closers = {} /\ {"free", "none"} \cap Subs = {}     \* names in the model

VARIABLES
    mu,             \* holder of Subscriber.mu
    stopping,       \* Subscriber.stopping
    running,        \* Subscriber.running, and with it identities
    pc,             \* stage of each Subscribe or Close call
    todo,           \* registrations a Close call still has to see stopped
    business, failure,      \* consumers: "none", "open", "stopping", "stopped"
    handler,        \* stage and registration of each handler
    hmu,            \* DirectHandoff.mu is held by a handler in Ready
    hclosing, hstopping, drained,   \* flags of each DirectHandoff
    producer,       \* its producer: "none", "open", "stopped"
    sending,        \* its sends inside the driver, each with a slot
    ending,         \* sends that gave the slot back and still count as active
    stopper,        \* stopOnce and stopDone
    deliveries

regVars == <<mu, stopping, running, pc, todo>>
consumers == <<business, failure>>
handoff == <<hmu, hclosing, hstopping, drained, producer, sending, ending, stopper>>
vars == <<regVars, consumers, handler, handoff, deliveries>>

Calls == Subs \cup Closers
idle == [sub |-> "none", step |-> "idle", of |-> "none"]
Active(i) == {h \in Handlers : handler[h].sub = i}
Slots(i) == sending[i] + Cardinality({h \in Active(i) : handler[h].step = "slot"})
active(i) == sending[i] + ending[i]

Init ==
    /\ mu = "free" /\ stopping = FALSE /\ running = {}
    /\ pc = [c \in Calls |-> "idle"]
    /\ todo = [c \in Calls |-> {}]
    /\ business = [i \in Subs |-> "none"] /\ failure = [i \in Subs |-> "none"]
    /\ handler = [h \in Handlers |-> idle]
    /\ hmu = [i \in Subs |-> FALSE]
    /\ hclosing = [i \in Subs |-> FALSE] /\ hstopping = [i \in Subs |-> FALSE]
    /\ drained = [i \in Subs |-> FALSE]
    /\ producer = [i \in Subs |-> "none"]
    /\ sending = [i \in Subs |-> 0] /\ ending = [i \in Subs |-> 0]
    /\ stopper = [i \in Subs |-> "none"]
    /\ deliveries = 0

goto(c, l) == pc' = [pc EXCEPT ![c] = l]

-----------------------------------------------------------------------------
(* Subscribe *)

Subscribe(i) ==
    /\ pc[i] = "idle" /\ ~stopping
    /\ goto(i, "lock")
    /\ UNCHANGED <<mu, stopping, running, todo, consumers, handler, handoff, deliveries>>

\* Mutant: stopping is not looked at again under the lock.
RegisterWithoutRecheck(i) ==
    /\ pc[i] = "lock" /\ mu = "free"
    /\ IF running # {}
       THEN goto(i, "failed") /\ UNCHANGED mu
       ELSE goto(i, "failure") /\ mu' = i
    /\ UNCHANGED <<stopping, running, todo, consumers, handler, handoff, deliveries>>

\* Mutant: only a registration that succeeded is a duplicate.
RegisterOverLeftovers(i) ==
    /\ pc[i] = "lock" /\ mu = "free"
    /\ IF stopping \/ \E j \in running : pc[j] = "registered"
       THEN goto(i, "failed") /\ UNCHANGED mu
       ELSE goto(i, "failure") /\ mu' = i
    /\ UNCHANGED <<stopping, running, todo, consumers, handler, handoff, deliveries>>

\* lockWithContext, the second look at stopping, the duplicate check.
Register(i) ==
    /\ pc[i] = "lock" /\ mu = "free"
    /\ IF stopping \/ running # {}
       THEN goto(i, "failed") /\ UNCHANGED mu
       ELSE goto(i, "failure") /\ mu' = i
    /\ UNCHANGED <<stopping, running, todo, consumers, handler, handoff, deliveries>>

\* The failure consumer is connected before the business consumer.
ConnectFailure(i) ==
    /\ pc[i] = "failure"
    /\ \/ failure' = [failure EXCEPT ![i] = "open"] /\ goto(i, "business")
       \/ goto(i, "cleanup") /\ UNCHANGED failure
    /\ UNCHANGED <<mu, stopping, running, todo, business, handler, handoff, deliveries>>

ConnectBusiness(i) ==
    /\ pc[i] = "business"
    /\ \/ business' = [business EXCEPT ![i] = "open"] /\ goto(i, "connected")
       \/ goto(i, "cleanup") /\ UNCHANGED business
    /\ UNCHANGED <<mu, stopping, running, todo, failure, handler, handoff, deliveries>>

\* The last look at stopping and at the context.
Registered(i) ==
    /\ pc[i] = "connected"
    /\ \/ /\ ~stopping
          /\ running' = running \cup {i} /\ mu' = "free"
          /\ goto(i, "registered")
       \/ goto(i, "cleanup") /\ UNCHANGED <<running, mu>>
    /\ UNCHANGED <<stopping, todo, consumers, handler, handoff, deliveries>>

\* Consumer.Stop; one that never connected has no handler to wait for.
stop(consumer) ==
    CASE consumer = "none" -> "stopped"
      [] consumer = "open" -> "stopping"
      [] OTHER             -> consumer

\* cleanupPartial stops both consumers and waits for them as Close does.
CleanupPartial(i) ==
    /\ pc[i] = "cleanup"
    /\ business' = [business EXCEPT ![i] = stop(@)]
    /\ failure' = [failure EXCEPT ![i] = stop(@)]
    /\ todo' = [todo EXCEPT ![i] = {i}]
    /\ goto(i, "consumers")
    /\ UNCHANGED <<mu, stopping, running, handler, handoff, deliveries>>

Waiting == {"consumers", "idle?", "hlock", "hdrain", "hstop"}

\* Out of time: the registration is kept for a later Close; the handoff may
\* have been told to close.
CleanupGivesUp(i) ==
    /\ pc[i] \in Waiting /\ i \in Subs
    /\ hclosing' \in {hclosing, [hclosing EXCEPT ![i] = TRUE]}
    /\ running' = running \cup {i}
    /\ mu' = "free" /\ goto(i, "failed")
    /\ UNCHANGED <<stopping, todo, consumers, handler, hmu, hstopping, drained, producer,
                   sending, ending, stopper, deliveries>>

-----------------------------------------------------------------------------
(* Close *)

Close(k) ==
    /\ pc[k] = "idle"
    /\ stopping' = TRUE
    /\ goto(k, "lock")
    /\ UNCHANGED <<mu, running, todo, consumers, handler, handoff, deliveries>>

\* A snapshot of running under the lock; every consumer is told to stop.
CloseStop(k) ==
    /\ pc[k] = "lock" /\ mu = "free"
    /\ todo' = [todo EXCEPT ![k] = running]
    /\ business' = [i \in Subs |-> IF i \in running THEN stop(business[i]) ELSE business[i]]
    /\ failure' = [i \in Subs |-> IF i \in running THEN stop(failure[i]) ELSE failure[i]]
    /\ goto(k, IF running = {} THEN "ok" ELSE "consumers")
    /\ UNCHANGED <<mu, stopping, running, handler, handoff, deliveries>>

\* The context of Close expires; the caller may close again.
CloseTimeout(k) ==
    /\ pc[k] \in Waiting \cup {"lock"} /\ k \in Closers
    /\ goto(k, "timeout")
    /\ UNCHANGED <<mu, stopping, running, todo, consumers, handler, handoff, deliveries>>

\* waitConsumer for both, then WaitIdle, of one registration.
WaitConsumers(c, i) ==
    /\ pc[c] = "consumers" /\ i \in todo[c]
    /\ business[i] = "stopped" /\ failure[i] = "stopped"
    /\ goto(c, "idle?")
    /\ UNCHANGED <<mu, stopping, running, todo, consumers, handler, handoff, deliveries>>

WaitIdle(c, i) ==
    /\ pc[c] = "idle?" /\ i \in todo[c]
    /\ Active(i) = {}
    /\ hclosing' = [hclosing EXCEPT ![i] = TRUE]
    /\ goto(c, "hlock")
    /\ UNCHANGED <<mu, stopping, running, todo, consumers, handler, hmu, hstopping, drained,
                   producer, sending, ending, stopper, deliveries>>

-----------------------------------------------------------------------------
(* DirectHandoff *)

\* Mutant: Close takes the handoff for drained without counting its sends.
HandoffCloseUncounted(c, i) ==
    /\ pc[c] = "hlock" /\ i \in todo[c] /\ ~hmu[i]
    /\ hstopping' = [hstopping EXCEPT ![i] = TRUE]
    /\ drained' = [drained EXCEPT ![i] = TRUE]
    /\ goto(c, "hdrain")
    /\ UNCHANGED <<mu, stopping, running, todo, consumers, handler, hmu, hclosing, producer,
                   sending, ending, stopper, deliveries>>

\* Close: admission ends under the lock; drained is closed if nothing is active.
HandoffClose(c, i) ==
    /\ pc[c] = "hlock" /\ i \in todo[c] /\ ~hmu[i]
    /\ hstopping' = [hstopping EXCEPT ![i] = TRUE]
    /\ drained' = [drained EXCEPT ![i] = @ \/ (~hstopping[i] /\ active(i) = 0)]
    /\ goto(c, "hdrain")
    /\ UNCHANGED <<mu, stopping, running, todo, consumers, handler, hmu, hclosing, producer,
                   sending, ending, stopper, deliveries>>

HandoffDrained(c, i) ==
    /\ pc[c] = "hdrain" /\ i \in todo[c] /\ drained[i]
    /\ stopper' = [stopper EXCEPT ![i] = IF @ = "none" THEN "stopping" ELSE @]
    /\ goto(c, "hstop")
    /\ UNCHANGED <<mu, stopping, running, todo, consumers, handler, hmu, hclosing, hstopping,
                   drained, producer, sending, ending, deliveries>>

\* The goroutine of stopOnce.
StopProducers(i) ==
    /\ stopper[i] = "stopping"
    /\ producer' = [producer EXCEPT ![i] = IF @ = "open" THEN "stopped" ELSE @]
    /\ stopper' = [stopper EXCEPT ![i] = "done"]
    /\ UNCHANGED <<regVars, consumers, handler, hmu, hclosing, hstopping, drained, sending, ending,
                   deliveries>>

HandoffClosed(c, i) ==
    /\ pc[c] = "hstop" /\ i \in todo[c] /\ stopper[i] = "done"
    /\ todo' = [todo EXCEPT ![c] = @ \ {i}]
    /\ goto(c, IF todo'[c] # {} THEN "consumers" ELSE IF c \in Closers THEN "ok" ELSE "failed")
    /\ mu' = IF c \in Subs THEN "free" ELSE mu
    /\ UNCHANGED <<stopping, running, consumers, handler, handoff, deliveries>>

\* StopChan: the handlers are through, or 30 s have passed.
ConsumerStops(i) ==
    /\ \/ business[i] = "stopping" /\ business' = [business EXCEPT ![i] = "stopped"] /\ UNCHANGED failure
       \/ failure[i] = "stopping" /\ failure' = [failure EXCEPT ![i] = "stopped"] /\ UNCHANGED business
    /\ UNCHANGED <<regVars, handler, handoff, deliveries>>

\* A consumer that is not stopped yet starts a handler; enter.
Deliver(h, i) ==
    /\ handler[h] = idle /\ deliveries < MaxDeliveries
    /\ \E of \in {"business", "failure"} :
          /\ (IF of = "business" THEN business[i] ELSE failure[i]) \in {"open", "stopping"}
          /\ handler' = [handler EXCEPT ![h] = [sub |-> i, step |-> "run", of |-> of]]
    /\ deliveries' = deliveries + 1
    /\ UNCHANGED <<regVars, consumers, handoff>>

\* A handler hands off at most once, and returns.
Leave(h) ==
    /\ handler[h].step \in {"run", "end"}
    /\ handler' = [handler EXCEPT ![h] = idle]
    /\ UNCHANGED <<regVars, consumers, handoff, deliveries>>

step(h, l) == handler' = [handler EXCEPT ![h].step = l]

\* Ready: refused when closing, serialized by the lock.
Ready(h) ==
    /\ handler[h].step = "run" /\ handler[h].of = "business"
    /\ LET i == handler[h].sub
       IN  /\ ~hclosing[i] /\ ~hmu[i] /\ ~hstopping[i]
           /\ hmu' = [hmu EXCEPT ![i] = TRUE]
    /\ step(h, "connecting")
    /\ UNCHANGED <<regVars, consumers, hclosing, hstopping, drained, producer, sending, ending,
                   stopper, deliveries>>

\* The failure consumer is connected to the source, the producer created.
ReadyConnect(h) ==
    /\ handler[h].step = "connecting"
    /\ LET i == handler[h].sub
       IN  \/ /\ ~hclosing[i]
              /\ step(h, "producing")
              /\ UNCHANGED hmu
           \/ /\ step(h, "end")
              /\ hmu' = [hmu EXCEPT ![i] = FALSE]
    /\ UNCHANGED <<regVars, consumers, hclosing, hstopping, drained, producer, sending, ending,
                   stopper, deliveries>>

ReadyProduce(h) ==
    /\ handler[h].step = "producing"
    /\ LET i == handler[h].sub
       IN  /\ hmu' = [hmu EXCEPT ![i] = FALSE]
           /\ \/ /\ producer' = [producer EXCEPT ![i] = IF @ = "none" THEN "open" ELSE @]
                 /\ step(h, IF hclosing[i] THEN "end" ELSE "publish")
              \/ step(h, "end") /\ producer[i] = "none" /\ UNCHANGED producer
    /\ UNCHANGED <<regVars, consumers, hclosing, hstopping, drained, sending, ending, stopper,
                   deliveries>>

\* Mutant: a handler goes on without a slot.
PublishSlotUnbounded(h) ==
    /\ handler[h].step = "publish"
    /\ step(h, "slot")
    /\ UNCHANGED <<regVars, consumers, handoff, deliveries>>

\* Publish waits for a slot, closing or not once it has looked at closing.
PublishSlot(h) ==
    /\ handler[h].step = "publish"
    /\ \/ Slots(handler[h].sub) < MaxInFlight /\ step(h, "slot")
       \/ step(h, "end")
    /\ UNCHANGED <<regVars, consumers, handoff, deliveries>>

\* Under the lock: a send is admitted only while the handoff is open.
PublishAdmit(h) ==
    /\ handler[h].step = "slot"
    /\ LET i == handler[h].sub
       IN  /\ ~hmu[i]
           /\ IF hclosing[i] \/ hstopping[i] \/ producer[i] = "none"
              THEN step(h, "end") /\ UNCHANGED sending
              ELSE step(h, "sending") /\ sending' = [sending EXCEPT ![i] = @ + 1]
    /\ UNCHANGED <<regVars, consumers, hmu, hclosing, hstopping, drained, producer, ending, stopper,
                   deliveries>>

\* The caller has its answer, or its context expired while the send goes on.
PublishReturn(h) ==
    /\ handler[h].step = "sending"
    /\ step(h, "end")
    /\ UNCHANGED <<regVars, consumers, handoff, deliveries>>

\* The send returns from the driver and frees its slot, then stops being active.
SendReturns(i) ==
    /\ sending[i] > 0
    /\ sending' = [sending EXCEPT ![i] = @ - 1]
    /\ ending' = [ending EXCEPT ![i] = @ + 1]
    /\ UNCHANGED <<regVars, consumers, handler, hmu, hclosing, hstopping, drained, producer, stopper,
                   deliveries>>

\* Mutant: the last send of a closing handoff does not close drained.
SendEndsSilently(i) ==
    /\ ending[i] > 0 /\ ~hmu[i]
    /\ ending' = [ending EXCEPT ![i] = @ - 1]
    /\ UNCHANGED <<regVars, consumers, handler, hmu, hclosing, hstopping, drained, producer, sending,
                   stopper, deliveries>>

SendEnds(i) ==
    /\ ending[i] > 0 /\ ~hmu[i]
    /\ ending' = [ending EXCEPT ![i] = @ - 1]
    /\ drained' = [drained EXCEPT ![i] = @ \/ (hstopping[i] /\ active(i) = 1)]
    /\ UNCHANGED <<regVars, consumers, handler, hmu, hclosing, hstopping, producer, sending, stopper,
                   deliveries>>

HandlerStep(h) ==
    \/ Leave(h) \/ ReadyConnect(h) \/ ReadyProduce(h) \/ PublishSlot(h) \/ PublishAdmit(h)
    \/ PublishReturn(h)

CallStep(c) ==
    \/ \E i \in Subs : \/ WaitConsumers(c, i) \/ WaitIdle(c, i) \/ HandoffClose(c, i)
                       \/ HandoffDrained(c, i) \/ HandoffClosed(c, i)
    \/ c \in Closers /\ CloseStop(c)
    \/ /\ c \in Subs
       /\ Register(c) \/ ConnectFailure(c) \/ ConnectBusiness(c) \/ Registered(c) \/ CleanupPartial(c)

GoroutineStep(i) == ConsumerStops(i) \/ StopProducers(i) \/ SendReturns(i) \/ SendEnds(i)

Quiescent ==
    /\ \A c \in Calls : pc[c] \in {"ok", "timeout", "registered", "failed"} \/ (c \in Subs /\ stopping)
    /\ UNCHANGED vars

Next ==
    \/ \E i \in Subs : Subscribe(i) \/ CleanupGivesUp(i) \/ GoroutineStep(i)
    \/ \E k \in Closers : Close(k) \/ CloseTimeout(k)
    \/ \E c \in Calls : CallStep(c)
    \/ \E h \in Handlers : Ready(h) \/ HandlerStep(h) \/ \E i \in Subs : Deliver(h, i)
    \/ Quiescent

Spec == Init /\ [][Next]_vars

\* Goroutines run; dials, sends and handlers end, as their bounded timeouts say.
Fairness ==
    /\ \A c \in Calls : WF_vars(CallStep(c))
    /\ \A h \in Handlers : WF_vars(HandlerStep(h))
    /\ \A i \in Subs : WF_vars(GoroutineStep(i))

FairSpec == Spec /\ Fairness

-----------------------------------------------------------------------------
(* Properties *)

\* Locks, flags, consumers and counters.
TypeOK ==
    /\ mu \in Subs \cup {"free"} /\ stopping \in BOOLEAN /\ running \subseteq Subs
    /\ todo \in [Calls -> SUBSET Subs]
    /\ \A i \in Subs :
          /\ {business[i], failure[i]} \subseteq {"none", "open", "stopping", "stopped"}
          /\ {hmu[i], hclosing[i], hstopping[i], drained[i]} \subseteq BOOLEAN
          /\ sending[i] \in 0..MaxInFlight /\ ending[i] \in Nat
          /\ producer[i] \in {"none", "open", "stopped"}

Quiet(i) ==
    /\ business[i] \in {"none", "stopped"} /\ failure[i] \in {"none", "stopped"}
    /\ Active(i) = {} /\ active(i) = 0 /\ producer[i] # "open"

\* Close "stops admission and waits for actual handlers and sends": once it
\* returned nil, no consumer, handler, send or producer of any registration is
\* alive, registrations that were under way or half failed included.
ClosedIsQuiet == (\E k \in Closers : pc[k] = "ok") => \A i \in Subs : Quiet(i)

\* Two registrations of one topic and channel never coexist, whatever a failed
\* one left behind: all but one are quiet.
OneRegistration == \A i, j \in Subs : Quiet(i) \/ Quiet(j) \/ i = j

\* No send uses a producer that was stopped under it.
SendsHaveProducer == \A i \in Subs : sending[i] > 0 => producer[i] = "open"

\* A Close whose context does not expire returns, however many were given up
\* before it.
CloseEnds == \A k \in Closers : pc[k] = "lock" ~> pc[k] \in {"ok", "timeout"}
=============================================================================

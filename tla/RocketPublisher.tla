--------------------------- MODULE RocketPublisher ---------------------------
(***************************************************************************)
(* The RocketMQ publisher (transport/rocketmq/publisher.go): callers whose *)
(* contexts may end while the driver's send goes on, the slots and the     *)
(* active count those sends keep, and Start, Drain, Close and Interrupt.   *)
(***************************************************************************)
EXTENDS Naturals, FiniteSets

CONSTANTS
    Calls,          \* calls of publish, each with a message of its own
    Closers,        \* calls of Close or Interrupt
    MaxInFlight,
    DriverAttempts, \* most attempts of the driver's send: the server's settings say
                    \* how many, whatever the publisher asked for (DriverProducer)
    MaxStarts       \* bound on calls of Start

PublisherAssumption == {MaxInFlight, DriverAttempts} \subseteq Nat \ {0} /\ MaxStarts \in Nat

VARIABLES
    call,       \* stage of each call, and the outcome it returned
    send,       \* its goroutine: "none", "driver", "answered", "freed", "over"; the answer
                \* and the attempts the driver took for it
    pub,        \* started, stopping, drained, closing of the Publisher
    inner,      \* the producer: "none", "open", "stopped"
    closer,     \* stage of each Close or Interrupt
    stored,     \* calls whose message the broker has
    starts

vars == <<call, send, pub, inner, closer, stored, starts>>

Slots == {c \in Calls : call[c].step = "slot" \/ send[c].step \in {"driver", "answered"}}
active == {c \in Calls : send[c].step \in {"driver", "answered", "freed"}}

Init ==
    /\ call = [c \in Calls |-> [step |-> "idle", out |-> "none"]]
    /\ send = [c \in Calls |-> [step |-> "none", out |-> "none", attempts |-> 0]]
    /\ pub = [started |-> FALSE, stopping |-> FALSE, drained |-> FALSE, closing |-> "no"]
    /\ inner = "none" /\ closer = [k \in Closers |-> "idle"]
    /\ stored = {} /\ starts = 0

\* Mutant: Start does not look at stopping.
StartLate ==
    /\ starts < MaxStarts /\ ~pub.started
    /\ starts' = starts + 1
    /\ inner' = "open" /\ pub' = [pub EXCEPT !.started = TRUE]
    /\ UNCHANGED <<call, send, closer, stored>>

\* Start runs under mu; a failed one stops what it made and may be repeated.
Start ==
    /\ starts < MaxStarts /\ ~pub.stopping /\ ~pub.started
    /\ starts' = starts + 1
    /\ \/ inner' = "open" /\ pub' = [pub EXCEPT !.started = TRUE]
       \/ UNCHANGED <<inner, pub>>
    /\ UNCHANGED <<call, send, closer, stored>>

returns(c, out) == call' = [call EXCEPT ![c] = [step |-> "returned", out |-> out]]

\* Mutant: the slots do not limit.
publishUnlimited(c) ==
    /\ call[c].step = "idle"
    /\ returns(c, "Unknown") \/ call' = [call EXCEPT ![c].step = "slot"]
    /\ UNCHANGED <<send, pub, inner, closer, stored, starts>>

\* Routes and sizes are refused first; then a slot, the context or stop.
publish(c) ==
    /\ call[c].step = "idle"
    /\ \/ returns(c, "Rejected")
       \/ returns(c, "Unknown")
       \/ Cardinality(Slots) < MaxInFlight /\ call' = [call EXCEPT ![c].step = "slot"]
    /\ UNCHANGED <<send, pub, inner, closer, stored, starts>>

\* Mutant: the slot is enough, stopping is not looked at again.
AdmitUnchecked(c) ==
    /\ call[c].step = "slot"
    /\ IF ~pub.started
       THEN returns(c, "Unknown") /\ UNCHANGED send
       ELSE /\ call' = [call EXCEPT ![c].step = "waiting"]
            /\ send' = [send EXCEPT ![c].step = "driver"]
    /\ UNCHANGED <<pub, inner, closer, stored, starts>>

\* Under mu: a send is started only while the publisher is open.
Admit(c) ==
    /\ call[c].step = "slot"
    /\ \/ returns(c, "Unknown") /\ UNCHANGED send
       \/ /\ pub.started /\ ~pub.stopping
          /\ call' = [call EXCEPT ![c].step = "waiting"]
          /\ send' = [send EXCEPT ![c].step = "driver"]
    /\ UNCHANGED <<pub, inner, closer, stored, starts>>

answered(c, out, n) ==
    send' = [send EXCEPT ![c] = [step |-> "answered", out |-> out, attempts |-> n]]

\* Mutant: any status of the broker rejects.
SendRejecting(c) ==
    /\ send[c].step = "driver"
    /\ \E out \in {"Confirmed", "Rejected"}, S \in {stored, stored \cup {c}}, n \in 1..DriverAttempts :
          /\ out = "Confirmed" => c \in S
          /\ stored' = S /\ answered(c, out, n)
    /\ UNCHANGED <<call, pub, inner, closer, starts>>

\* Confirmed needs a receipt with an id, Rejected a client status of the broker, which an
\* attempt before the last one does not have to have met.
Send(c) ==
    /\ send[c].step = "driver"
    /\ \E out \in {"Confirmed", "Rejected", "Unknown"}, S \in {stored, stored \cup {c}}, n \in 1..DriverAttempts :
          /\ out = "Confirmed" => c \in S
          /\ (out = "Rejected" /\ n = 1) => c \notin S
          /\ stored' = S /\ answered(c, out, n)
    /\ UNCHANGED <<call, pub, inner, closer, starts>>

\* The caller takes the answer, or its context ended first.
Return(c) ==
    /\ call[c].step = "waiting"
    /\ \/ send[c].step \in {"answered", "freed", "over"} /\ returns(c, send[c].out)
       \/ returns(c, "Unknown")
    /\ UNCHANGED <<send, pub, inner, closer, stored, starts>>

FreeSlot(c) ==
    /\ send[c].step = "answered"
    /\ send' = [send EXCEPT ![c].step = "freed"]
    /\ UNCHANGED <<call, pub, inner, closer, stored, starts>>

\* Mutant: the last send does not tell a drain that came meanwhile.
SendEndsSilently(c) ==
    /\ send[c].step = "freed"
    /\ send' = [send EXCEPT ![c].step = "over"]
    /\ UNCHANGED <<call, pub, inner, closer, stored, starts>>

SendEnds(c) ==
    /\ send[c].step = "freed"
    /\ send' = [send EXCEPT ![c].step = "over"]
    /\ pub' = [pub EXCEPT !.drained = @ \/ (pub.stopping /\ active = {c})]
    /\ UNCHANGED <<call, inner, closer, stored, starts>>

stopped == [pub EXCEPT !.stopping = TRUE, !.drained = @ \/ (~pub.stopping /\ active = {})]
startClose(p) == [p EXCEPT !.closing = IF @ = "no" THEN "going" ELSE @]

Drain(k) ==
    /\ closer[k] = "idle"
    /\ pub' = stopped
    /\ closer' = [closer EXCEPT ![k] = "draining"]
    /\ UNCHANGED <<call, send, inner, stored, starts>>

\* Mutant: Close stops the driver before the sends are through.
CloseEagerly(k) ==
    /\ closer[k] = "draining"
    /\ pub' = startClose(pub)
    /\ closer' = [closer EXCEPT ![k] = "closing"]
    /\ UNCHANGED <<call, send, inner, stored, starts>>

Close(k) ==
    /\ closer[k] = "draining" /\ pub.drained
    /\ pub' = startClose(pub)
    /\ closer' = [closer EXCEPT ![k] = "closing"]
    /\ UNCHANGED <<call, send, inner, stored, starts>>

Closed(k) ==
    /\ closer[k] = "closing" /\ pub.closing = "done"
    /\ closer' = [closer EXCEPT ![k] = "ok"]
    /\ UNCHANGED <<call, send, pub, inner, stored, starts>>

CloseTimeout(k) ==
    /\ closer[k] \in {"draining", "closing"}
    /\ closer' = [closer EXCEPT ![k] = "timeout"]
    /\ UNCHANGED <<call, send, pub, inner, stored, starts>>

\* The forced path: the driver is stopped under its sends.
Interrupt(k) ==
    /\ closer[k] = "idle"
    /\ pub' = startClose(stopped)
    /\ closer' = [closer EXCEPT ![k] = "interrupted"]
    /\ UNCHANGED <<call, send, inner, stored, starts>>

\* The goroutine of closeOnce.
GracefulStop ==
    /\ pub.closing = "going"
    /\ inner' = IF inner = "open" THEN "stopped" ELSE inner
    /\ pub' = [pub EXCEPT !.closing = "done"]
    /\ UNCHANGED <<call, send, closer, stored, starts>>

CallStep(c) == Admit(c) \/ Return(c)
SendStep(c) == Send(c) \/ FreeSlot(c) \/ SendEnds(c)
CloseStep(k) == Close(k) \/ Closed(k)
Finished == /\ \A c \in Calls : call[c].step = "returned"
            /\ \A k \in Closers : closer[k] \in {"ok", "timeout", "interrupted"}
            /\ UNCHANGED vars

Next ==
    \/ Start \/ GracefulStop \/ Finished
    \/ \E c \in Calls : publish(c) \/ CallStep(c) \/ SendStep(c)
    \/ \E k \in Closers : Drain(k) \/ Interrupt(k) \/ CloseTimeout(k) \/ CloseStep(k)

Spec == Init /\ [][Next]_vars

\* Goroutines run, and the driver's bounded request timeout ends every send.
Fairness ==
    /\ WF_vars(GracefulStop)
    /\ \A c \in Calls : WF_vars(CallStep(c)) /\ WF_vars(SendStep(c))
    /\ \A k \in Closers : WF_vars(CloseStep(k))

FairSpec == Spec /\ Fairness

-----------------------------------------------------------------------------
(* Properties *)

\* Stages, and no more sends inside the driver than slots.
TypeOK ==
    /\ inner \in {"none", "open", "stopped"} /\ stored \subseteq Calls
    /\ {pub.started, pub.stopping, pub.drained} \subseteq BOOLEAN
    /\ Cardinality(Slots) <= MaxInFlight /\ starts \in 0..MaxStarts

\* What a caller was told holds of the broker for good, though the send of a call can
\* outlive the caller: Confirmed is stored, and Rejected is not, unless the driver tried
\* more than once, as the server's settings may have it: an attempt that failed may have
\* stored the message the last one was refused for.
OutcomeIsTrue ==
    \A c \in Calls : /\ call[c].out = "Confirmed" => c \in stored
                     /\ (call[c].out = "Rejected" /\ c \in stored) => send[c].attempts > 1

\* A drained publisher sends nothing, and no later call gets into the driver.
DrainedIsQuiet == pub.drained => active = {}

\* A nil Close leaves no send and no producer, the one of a late Start included.
ClosedIsQuiet == (\E k \in Closers : closer[k] = "ok") => active = {} /\ inner # "open"

\* The driver is stopped under a send only by Interrupt.
StoppedUnderSend ==
    (inner = "stopped" /\ active # {}) => \E k \in Closers : closer[k] = "interrupted"

\* A Close that does not time out ends, after an Interrupt too.
CloseEnds == \A k \in Closers : closer[k] = "draining" ~> closer[k] \in {"ok", "timeout"}
=============================================================================

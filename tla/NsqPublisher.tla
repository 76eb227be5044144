---------------------------- MODULE NsqPublisher ----------------------------
(***************************************************************************)
(* The NSQ publishers (transport/nsq/publisher.go, managed_publisher.go)   *)
(* follow the protocol of RocketPublisher; this module says where they     *)
(* differ.  The producer is connected by the constructor, the driver's     *)
(* answer is never a rejection, and a Publisher that borrows its producer  *)
(* is only drained: its host stops the producer to interrupt it.           *)
(***************************************************************************)
EXTENDS RocketPublisher

\* newPublisher, and the ping: made connected, or not at all.
NewManagedPublisher ==
    /\ call = [c \in Calls |-> [step |-> "idle", out |-> "none"]]
    /\ send = [c \in Calls |-> [step |-> "none", out |-> "none", attempts |-> 0]]
    /\ pub = [started |-> TRUE, stopping |-> FALSE, drained |-> FALSE, closing |-> "no"]
    /\ inner = "open" /\ closer = [k \in Closers |-> "idle"]
    /\ stored = {} /\ starts = 0

\* Publish and PublishRaw refuse what has no route, topic or body.
PublishRejects(c) ==
    /\ call[c].step = "idle" /\ returns(c, "Rejected")
    /\ UNCHANGED <<send, pub, inner, closer, stored, starts>>

\* A slot, or stop, or the end of the context.
publishBytes(c) ==
    /\ call[c].step = "idle"
    /\ \/ returns(c, "Unknown")
       \/ Cardinality(Slots) < MaxInFlight /\ call' = [call EXCEPT ![c].step = "slot"]
    /\ UNCHANGED <<send, pub, inner, closer, stored, starts>>

AdmitBytes(c) == Admit(c)

\* Mutant: an error of the driver is taken for a rejection.
ProducerPublishRejecting(c) ==
    /\ send[c].step = "driver"
    /\ \E out \in {"Confirmed", "Rejected"}, S \in {stored, stored \cup {c}} :
          /\ out = "Confirmed" => c \in S
          /\ stored' = S /\ answered(c, out, 1)
    /\ UNCHANGED <<call, pub, inner, closer, starts>>

\* The driver's call, one attempt: nil means nsqd has the message, an error means nothing.
ProducerPublish(c) ==
    /\ send[c].step = "driver"
    /\ \E out \in {"Confirmed", "Unknown"}, S \in {stored, stored \cup {c}} :
          /\ out = "Confirmed" => c \in S
          /\ stored' = S /\ answered(c, out, 1)
    /\ UNCHANGED <<call, pub, inner, closer, starts>>

\* Mutant: the last send does not close drained.
SendReturnsSilently(c) == FreeSlot(c) \/ SendEndsSilently(c)

\* The slot first, then active and, after the last one, drained.
SendReturns(c) == FreeSlot(c) \/ SendEnds(c)

CallerReturns(c) == Return(c)

\* Mutant: drained is closed at once.
beginDrainAtOnce(k) ==
    /\ closer[k] = "idle"
    /\ pub' = [pub EXCEPT !.stopping = TRUE, !.drained = TRUE]
    /\ closer' = [closer EXCEPT ![k] = "draining"]
    /\ UNCHANGED <<call, send, inner, stored, starts>>

beginDrain(k) == Drain(k)

\* Mutant: a Close that finds the stop under way does not wait for it.
CloseManagedHasty(k) ==
    \/ Close(k)
    \/ /\ closer[k] = "closing"
       /\ closer' = [closer EXCEPT ![k] = "ok"]
       /\ UNCHANGED <<call, send, pub, inner, stored, starts>>

CloseManaged(k) == Close(k) \/ Closed(k)
InterruptManaged(k) == Interrupt(k)
stopProducer == GracefulStop

NsqNext ==
    \/ stopProducer \/ Finished
    \/ \E c \in Calls : \/ PublishRejects(c) \/ publishBytes(c) \/ AdmitBytes(c)
                        \/ ProducerPublish(c) \/ SendReturns(c) \/ CallerReturns(c)
    \/ \E k \in Closers : beginDrain(k) \/ CloseManaged(k) \/ CloseTimeout(k) \/ InterruptManaged(k)

\* As for RocketMQ: the driver's dial, read and write timeouts end every send.
NsqFairness ==
    /\ WF_vars(stopProducer)
    /\ \A c \in Calls : /\ WF_vars(AdmitBytes(c) \/ CallerReturns(c))
                        /\ WF_vars(ProducerPublish(c) \/ SendReturns(c))
    /\ \A k \in Closers : WF_vars(CloseManaged(k))

NsqSpec == NewManagedPublisher /\ [][NsqNext]_vars /\ NsqFairness
=============================================================================

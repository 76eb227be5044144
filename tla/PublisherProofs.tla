--------------------------- MODULE PublisherProofs ---------------------------
(***************************************************************************)
(* What the publishers of both SDKs promise, proved for every number of    *)
(* calls, closers, hosts, nodes and callers.                               *)
(*                                                                         *)
(* The argument for the Go publishers counts sends, not calls: a send that *)
(* outlives its call keeps its slot and stays active, so that drained says *)
(* no send is in the driver, and the driver is stopped only after it.  The *)
(* provisioner's says that channels are never taken away, so a loop that   *)
(* has passed a node need not look at it again.  The Python publisher's    *)
(* counts threads at the gate.                                             *)
(***************************************************************************)
EXTENDS Publishers, FiniteSetTheorems, TLAPS

-----------------------------------------------------------------------------
(* RocketMQ and NSQ publishers (Go) *)

\* What a publish or a send ended with.
PubOuts == {"none", "Confirmed", "Rejected", "Unknown"}
PubCall == [step : {"idle", "slot", "waiting", "returned"}, out : PubOuts]
PubSend == [step : {"none", "driver", "answered", "freed", "over"}, out : PubOuts, attempts : Nat]
PubFlags == [started : BOOLEAN, stopping : BOOLEAN, drained : BOOLEAN, closing : {"no", "going", "done"}]

\* PubCalls, sends, flags and closers of the Go publishers range over these.
PubTypes ==
    /\ call \in [PubCalls -> PubCall] /\ send \in [PubCalls -> PubSend] /\ pub \in PubFlags
    /\ closer \in [Closers -> {"idle", "draining", "closing", "ok", "timeout", "interrupted"}]
    /\ inner \in {"none", "open", "stopped"} /\ stored \subseteq PubCalls /\ starts \in 0..MaxStarts

\* The tokens of the slots channel that are taken, by calls and by sends that
\* outlived their calls, are at most MaxInFlight.
PubSlots == IsFiniteSet(Pub!Slots) /\ Cardinality(Pub!Slots) <= MaxInFlight

\* A call that was not admitted has no send, a send that has not been answered left
\* nothing with the broker, and what the answer says of the broker is so.
PubTruth(c) ==
    /\ call[c].step \in {"idle", "slot"} => send[c].step = "none" /\ call[c].out = "none"
    /\ send[c].step \in {"none", "driver"} => c \notin stored /\ send[c].out = "none"
    /\ send[c].out = "Confirmed" => c \in stored
    /\ (send[c].out = "Rejected" /\ c \in stored) => send[c].attempts > 1
    /\ call[c].out = "Confirmed" => c \in stored
    /\ call[c].out = "Rejected" => send[c].step # "driver" /\ (c \in stored => send[c].attempts > 1)

\* A Close that got past the drain found it complete, and one that returned nil the
\* driver stopped.
PubCloser(k) ==
    /\ closer[k] \in {"closing", "ok"} => pub.drained /\ pub.closing # "no"
    /\ closer[k] = "ok" => pub.closing = "done"

\* drained is closed when no send is left and stays so; the driver is stopped after the
\* drain, or because an Interrupt said so; a Start that comes late leaves no producer open.
PubStop ==
    /\ pub.drained => pub.stopping /\ \A c \in PubCalls : send[c].step \in {"none", "over"}
    /\ pub.closing # "no" => pub.stopping /\ (pub.drained \/ \E k \in Closers : closer[k] = "interrupted")
    /\ inner = "stopped" => pub.closing # "no"
    /\ pub.closing = "done" => inner # "open"

\* The inductive invariant of the Go publishers, RocketMQ and managed NSQ.
PubInv ==
    /\ PubTypes /\ PubSlots /\ PubStop
    /\ \A c \in PubCalls : PubTruth(c)
    /\ \A k \in Closers : PubCloser(k)

\* The publisher's Cardinality is the one of FiniteSets.
LEMMA PubCardinality == \A S : Pub!Cardinality(S) = Cardinality(S)
  BY Zenon DEF Pub!Cardinality, Cardinality, Pub!IsFiniteSet, IsFiniteSet

\* NewPublisher, unstarted or connected, satisfies the invariant.
LEMMA PubStart == PublishersAssumption /\ (Pub!Init \/ Pub!NewManagedPublisher) => PubInv
<1> SUFFICES ASSUME PublishersAssumption, Pub!Init \/ Pub!NewManagedPublisher PROVE PubInv
  OBVIOUS
<1>1. MaxInFlight \in Nat /\ MaxStarts \in Nat
  BY DEF PublishersAssumption, Pub!PublisherAssumption
<1>2. /\ call = [c \in PubCalls |-> [step |-> "idle", out |-> "none"]]
      /\ send = [c \in PubCalls |-> [step |-> "none", out |-> "none", attempts |-> 0]]
      /\ \E b \in BOOLEAN : pub = [started |-> b, stopping |-> FALSE, drained |-> FALSE, closing |-> "no"]
      /\ inner \in {"none", "open"} /\ closer = [k \in Closers |-> "idle"]
      /\ stored = {} /\ starts = 0
  BY Zenon DEF Pub!Init, Pub!NewManagedPublisher
<1>3. PubTypes
  BY <1>1, <1>2 DEF PubTypes, PubOuts, PubCall, PubSend, PubFlags
<1>4. PubStop
  BY <1>2 DEF PubStop
<1>5. (\A c \in PubCalls : PubTruth(c)) /\ \A k \in Closers : PubCloser(k)
  BY <1>2 DEF PubTruth, PubCloser
<1>6. Pub!Slots = {}
  BY <1>2 DEF Pub!Slots
<1> QED BY <1>1, <1>3, <1>4, <1>5, <1>6, FS_EmptySet DEF PubInv, PubSlots

\* A step of a publish or of its send goroutine; a step of Drain, Close or Interrupt.
PubCallStep(c) ==
    \/ Pub!publish(c) \/ Pub!Admit(c) \/ Pub!Return(c) \/ Pub!Send(c) \/ Pub!FreeSlot(c) \/ Pub!SendEnds(c)

PubCloserStep(k) ==
    \/ Pub!Drain(k) \/ Pub!Interrupt(k) \/ Pub!CloseTimeout(k) \/ Pub!Close(k) \/ Pub!Closed(k)

\* A step of either publisher is one of RocketPublisher's: what the NSQ publisher does
\* differently is a case of what the RocketMQ publisher may do.
LEMMA PubSteps ==
    ASSUME [Pub!Next]_(Pub!vars) \/ [Pub!NsqNext]_(Pub!vars)
    PROVE  \/ Pub!Start \/ Pub!GracefulStop \/ UNCHANGED Pub!vars
           \/ \E c \in PubCalls : PubCallStep(c)
           \/ \E k \in Closers : PubCloserStep(k)
<1>1. ASSUME NEW c \in PubCalls, Pub!ProducerPublish(c) PROVE Pub!Send(c)
  BY <1>1, PublishersAssumption DEF Pub!ProducerPublish, Pub!Send, PublishersAssumption, Pub!PublisherAssumption
<1>2. ASSUME NEW c \in PubCalls, Pub!PublishRejects(c) \/ Pub!publishBytes(c) PROVE Pub!publish(c)
  BY <1>2, Zenon DEF Pub!PublishRejects, Pub!publishBytes, Pub!publish
<1>3. CASE Pub!Next
  BY <1>3, Zenon DEF Pub!Next, Pub!Finished, Pub!CallStep, Pub!SendStep, Pub!CloseStep, PubCallStep, PubCloserStep
<1>4. CASE Pub!NsqNext
  BY <1>1, <1>2, <1>4, Zenon DEF Pub!NsqNext, Pub!Finished, Pub!AdmitBytes, Pub!SendReturns, Pub!CallerReturns,
     Pub!beginDrain, Pub!CloseManaged, Pub!InterruptManaged, Pub!stopProducer, PubCallStep, PubCloserStep
<1> QED BY <1>3, <1>4

\* Every step keeps the types.
LEMMA PubTypesKept ==
    ASSUME PubTypes, PublishersAssumption,
           \/ Pub!Start \/ Pub!GracefulStop \/ UNCHANGED Pub!vars
           \/ \E c \in PubCalls : PubCallStep(c)
           \/ \E k \in Closers : PubCloserStep(k)
    PROVE  PubTypes'
<1> USE DEF PubTypes
<1>0. MaxStarts \in Nat
  BY DEF PublishersAssumption, Pub!PublisherAssumption
<1>1. CASE Pub!Start
  <2>1. starts' \in 0..MaxStarts
    BY <1>0, <1>1 DEF Pub!Start
  <2>2. pub' \in PubFlags /\ inner' \in {"none", "open", "stopped"} /\ UNCHANGED <<call, send, closer, stored>>
    BY <1>1, Zenon DEF Pub!Start, PubFlags
  <2> QED BY <2>1, <2>2
<1>2. CASE Pub!GracefulStop
  BY <1>2 DEF Pub!GracefulStop, PubFlags
<1>3. CASE UNCHANGED Pub!vars
  BY <1>3 DEF Pub!vars
<1>4. ASSUME NEW c \in PubCalls, PubCallStep(c) PROVE PubTypes'
  <2>1. CASE Pub!publish(c)
    BY <2>1 DEF Pub!publish, Pub!returns, PubCall, PubOuts
  <2>2. CASE Pub!Admit(c)
    <3>1. CASE Pub!returns(c, "Unknown") /\ UNCHANGED send
      BY <2>2, <3>1 DEF Pub!Admit, Pub!returns, PubCall, PubOuts
    <3>2. CASE /\ call' = [call EXCEPT ![c].step = "waiting"]
               /\ send' = [send EXCEPT ![c].step = "driver"]
      <4>1. call' \in [PubCalls -> PubCall]
        BY <3>2, Zenon DEF PubCall
      <4>2. send' \in [PubCalls -> PubSend]
        BY <3>2, Zenon DEF PubSend
      <4> QED BY <2>2, <4>1, <4>2, Zenon DEF Pub!Admit
    <3> QED BY <2>2, <3>1, <3>2, Zenon DEF Pub!Admit
  <2>3. CASE Pub!Return(c)
    BY <2>3 DEF Pub!Return, Pub!returns, PubCall, PubSend, PubOuts
  <2>4. CASE Pub!Send(c)
    BY <2>4 DEF Pub!Send, Pub!answered, PubSend, PubOuts
  <2>5. CASE Pub!FreeSlot(c)
    BY <2>5 DEF Pub!FreeSlot, PubSend
  <2>6. CASE Pub!SendEnds(c)
    BY <2>6 DEF Pub!SendEnds, PubSend, PubFlags
  <2> QED BY <1>4, <2>1, <2>2, <2>3, <2>4, <2>5, <2>6 DEF PubCallStep
<1>5. ASSUME NEW k \in Closers, PubCloserStep(k) PROVE PubTypes'
  BY Zenon, <1>5 DEF PubCloserStep, Pub!Drain, Pub!Interrupt, Pub!CloseTimeout, Pub!Close, Pub!Closed, Pub!stopped,
     Pub!startClose, PubFlags
<1> QED BY <1>1, <1>2, <1>3, <1>4, <1>5

\* Every step of a publish or its send keeps what was told true.
LEMMA PubTruthKept ==
    ASSUME PubTypes, \A c \in PubCalls : PubTruth(c), NEW d \in PubCalls, PubCallStep(d)
    PROVE  \A c \in PubCalls : PubTruth(c)'
<1> USE DEF PubTypes, PubTruth, PubCall, PubSend
<1>1. CASE Pub!publish(d)
  <2>1. /\ \A c \in PubCalls \ {d} : call'[c] = call[c]
        /\ call'[d].step \in {"slot", "returned"} /\ call'[d].out \in {"none", "Rejected", "Unknown"}
        /\ call'[d].step = "slot" => call'[d].out = "none"
        /\ call[d].step = "idle" /\ UNCHANGED <<send, stored>>
    <3> HIDE DEF PubTruth
    <3>1. call[d].step = "idle" /\ UNCHANGED <<send, stored>> /\ call[d].out = "none" /\ call \in [PubCalls -> PubCall]
      BY <1>1, Zenon DEF Pub!publish, PubTruth
    <3>2. CASE Pub!returns(d, "Rejected") \/ Pub!returns(d, "Unknown")
      BY <3>1, <3>2 DEF Pub!returns
    <3>3. CASE call' = [call EXCEPT ![d].step = "slot"]
      <4> DEFINE x == [call[d] EXCEPT !.step = "slot"]
      <4>1. x.step = "slot" /\ x.out = "none"
        BY <3>1, Zenon DEF PubCall
      <4>2. call' = [call EXCEPT ![d] = x]
        BY <3>3, Zenon
      <4> HIDE DEF x
      <4> QED BY <3>1, <4>1, <4>2
    <3> QED BY <1>1, <3>1, <3>2, <3>3, Zenon DEF Pub!publish
  <2> QED BY <2>1
<1>2. CASE Pub!Admit(d)
  BY <1>2 DEF Pub!Admit, Pub!returns
<1>3. CASE Pub!Return(d)
  BY <1>3 DEF Pub!Return, Pub!returns
<1>4. CASE Pub!Send(d)
  BY <1>4 DEF Pub!Send, Pub!answered
<1>5. CASE Pub!FreeSlot(d)
  BY <1>5 DEF Pub!FreeSlot
<1>6. CASE Pub!SendEnds(d)
  BY <1>6 DEF Pub!SendEnds
<1> QED BY <1>1, <1>2, <1>3, <1>4, <1>5, <1>6 DEF PubCallStep

\* Every step keeps the order of drain and stop: sends are counted out before drained is
\* closed, and no send is admitted after stopping.
LEMMA PubStopKept ==
    ASSUME PubTypes, PubTypes', PubStop, \A k \in Closers : PubCloser(k), \A c \in PubCalls : PubTruth(c),
           \/ Pub!Start \/ Pub!GracefulStop \/ UNCHANGED Pub!vars
           \/ \E c \in PubCalls : PubCallStep(c)
           \/ \E k \in Closers : PubCloserStep(k)
    PROVE  PubStop' /\ \A k \in Closers : PubCloser(k)'
<1> USE DEF PubTypes, PubStop, PubCloser, PubFlags
<1>1. CASE Pub!Start
  BY <1>1 DEF Pub!Start
<1>2. CASE Pub!GracefulStop
  BY <1>2 DEF Pub!GracefulStop
<1>3. CASE UNCHANGED Pub!vars
  BY <1>3 DEF Pub!vars
<1>4. ASSUME NEW c \in PubCalls, PubCallStep(c) PROVE PubStop' /\ \A k \in Closers : PubCloser(k)'
  <2>1. CASE Pub!publish(c) \/ Pub!Return(c)
    BY <2>1 DEF Pub!publish, Pub!Return
  <2>2. CASE Pub!Admit(c)
    BY <2>2 DEF Pub!Admit, PubSend
  <2>3. CASE Pub!Send(c)
    BY <2>3 DEF Pub!Send, Pub!answered, PubSend
  <2>4. CASE Pub!FreeSlot(c)
    BY <2>4 DEF Pub!FreeSlot, PubSend
  <2>5. CASE Pub!SendEnds(c)
    BY <2>5 DEF Pub!SendEnds, Pub!active, PubSend
  <2> QED BY <1>4, <2>1, <2>2, <2>3, <2>4, <2>5, Zenon DEF PubCallStep
<1>5. ASSUME NEW k \in Closers, PubCloserStep(k) PROVE PubStop' /\ \A j \in Closers : PubCloser(j)'
  <2>1. CASE Pub!Drain(k)
    BY <2>1 DEF Pub!Drain, Pub!stopped, Pub!active, PubSend
  <2>2. CASE Pub!Interrupt(k)
    BY <2>2 DEF Pub!Interrupt, Pub!stopped, Pub!startClose, Pub!active, PubSend
  <2>3. CASE Pub!CloseTimeout(k)
    BY <2>3 DEF Pub!CloseTimeout
  <2>4. CASE Pub!Close(k)
    BY <2>4 DEF Pub!Close, Pub!startClose
  <2>5. CASE Pub!Closed(k)
    BY <2>5 DEF Pub!Closed
  <2> QED BY <1>5, <2>1, <2>2, <2>3, <2>4, <2>5, Zenon DEF PubCloserStep
<1> QED BY <1>1, <1>2, <1>3, <1>4, <1>5, Zenon

\* No step takes a slot beyond MaxInFlight: only publish takes one, and only a free one.
LEMMA PubSlotsKept ==
    ASSUME PubTypes, PubSlots, PublishersAssumption, \A c \in PubCalls : PubTruth(c),
           \/ Pub!Start \/ Pub!GracefulStop \/ UNCHANGED Pub!vars
           \/ \E c \in PubCalls : PubCallStep(c)
           \/ \E k \in Closers : PubCloserStep(k)
    PROVE  PubSlots'
<1>1. MaxInFlight \in Nat
  BY DEF PublishersAssumption, Pub!PublisherAssumption
<1>2. ASSUME Pub!Slots' \subseteq Pub!Slots PROVE PubSlots'
  <2>1. IsFiniteSet(Pub!Slots') /\ Cardinality(Pub!Slots') <= Cardinality(Pub!Slots)
    BY <1>2, FS_Subset DEF PubSlots
  <2>2. Cardinality(Pub!Slots') \in Nat /\ Cardinality(Pub!Slots) \in Nat
    BY <2>1, FS_CardinalityType DEF PubSlots
  <2> QED BY <1>1, <2>1, <2>2 DEF PubSlots
<1>3. ASSUME NEW c \in PubCalls, Pub!publish(c), Cardinality(Pub!Slots) < MaxInFlight PROVE PubSlots'
  <2>1. Pub!Slots' \subseteq Pub!Slots \cup {c}
    BY <1>3 DEF Pub!publish, Pub!returns, Pub!Slots, PubTypes
  <2>2. IsFiniteSet(Pub!Slots \cup {c}) /\ Cardinality(Pub!Slots \cup {c}) <= Cardinality(Pub!Slots) + 1
    <3>1. IsFiniteSet(Pub!Slots) /\ Cardinality(Pub!Slots) \in Nat
      BY FS_CardinalityType DEF PubSlots
    <3>2. /\ IsFiniteSet(Pub!Slots \cup {c})
          /\ \/ Cardinality(Pub!Slots \cup {c}) = Cardinality(Pub!Slots)
             \/ Cardinality(Pub!Slots \cup {c}) = Cardinality(Pub!Slots) + 1
      BY <3>1, FS_AddElement, Zenon
    <3> QED BY <3>1, <3>2
  <2>3. IsFiniteSet(Pub!Slots') /\ Cardinality(Pub!Slots') <= Cardinality(Pub!Slots \cup {c})
    BY <2>1, <2>2, FS_Subset
  <2>4. Cardinality(Pub!Slots') \in Nat /\ Cardinality(Pub!Slots) \in Nat /\ Cardinality(Pub!Slots \cup {c}) \in Nat
    BY <2>2, <2>3, FS_CardinalityType DEF PubSlots
  <2> QED BY <1>1, <1>3, <2>2, <2>3, <2>4 DEF PubSlots
<1>4. ASSUME NEW c \in PubCalls, PubCallStep(c), ~(Pub!publish(c) /\ Cardinality(Pub!Slots) < MaxInFlight)
      PROVE Pub!Slots' \subseteq Pub!Slots
  <2> USE DEF PubTypes, PubCall, PubSend, Pub!Slots
  <2>1. CASE Pub!publish(c)
    <3>1. UNCHANGED send /\ \E out \in {"Rejected", "Unknown"} : Pub!returns(c, out)
      BY <1>4, <2>1, PubCardinality, Zenon DEF Pub!publish
    <3> QED BY <3>1 DEF Pub!returns
  <2>2. CASE Pub!Admit(c)
    BY <2>2 DEF Pub!Admit, Pub!returns
  <2>3. CASE Pub!Return(c)
    BY <2>3 DEF Pub!Return, Pub!returns
  <2>4. CASE Pub!Send(c)
    BY <2>4 DEF Pub!Send, Pub!answered
  <2>5. CASE Pub!FreeSlot(c)
    BY <2>5 DEF Pub!FreeSlot
  <2>6. CASE Pub!SendEnds(c)
    BY <2>6 DEF Pub!SendEnds
  <2> QED BY <1>4, <2>1, <2>2, <2>3, <2>4, <2>5, <2>6, Zenon DEF PubCallStep
<1>5. ASSUME UNCHANGED <<call, send>> PROVE Pub!Slots' \subseteq Pub!Slots
  BY <1>5 DEF Pub!Slots
<1>6. CASE Pub!Start \/ Pub!GracefulStop \/ UNCHANGED Pub!vars
  BY <1>2, <1>5, <1>6 DEF Pub!Start, Pub!GracefulStop, Pub!vars
<1>7. CASE \E k \in Closers : PubCloserStep(k)
  BY <1>2, <1>5, <1>7 DEF PubCloserStep, Pub!Drain, Pub!Interrupt, Pub!CloseTimeout, Pub!Close, Pub!Closed
<1> QED BY <1>2, <1>3, <1>4, <1>6, <1>7, Zenon

\* Every step of either Go publisher keeps the invariant.
LEMMA PubKept ==
    PublishersAssumption /\ PubInv /\ ([Pub!Next]_(Pub!vars) \/ [Pub!NsqNext]_(Pub!vars)) => PubInv'
<1> SUFFICES ASSUME PublishersAssumption, PubInv, [Pub!Next]_(Pub!vars) \/ [Pub!NsqNext]_(Pub!vars) PROVE PubInv'
  OBVIOUS
<1>1. \/ Pub!Start \/ Pub!GracefulStop \/ UNCHANGED Pub!vars
      \/ \E c \in PubCalls : PubCallStep(c)
      \/ \E k \in Closers : PubCloserStep(k)
  BY PubSteps, Zenon
<1>2. /\ PubTypes /\ PubSlots /\ PubStop
      /\ \A c \in PubCalls : PubTruth(c)
      /\ \A k \in Closers : PubCloser(k)
  BY Zenon DEF PubInv
<1>3. PubTypes' /\ PubSlots'
  BY <1>1, <1>2, PubTypesKept, PubSlotsKept, Zenon
<1>4. PubStop' /\ \A k \in Closers : PubCloser(k)'
  BY <1>1, <1>2, <1>3, PubStopKept, Zenon
<1>5. ASSUME UNCHANGED <<call, send, stored>> PROVE \A c \in PubCalls : PubTruth(c)'
  BY <1>2, <1>5 DEF PubTruth
<1>6. \A c \in PubCalls : PubTruth(c)'
  <2>1. CASE Pub!Start \/ Pub!GracefulStop \/ UNCHANGED Pub!vars
    BY <1>5, <2>1 DEF Pub!Start, Pub!GracefulStop, Pub!vars
  <2>2. CASE \E k \in Closers : PubCloserStep(k)
    BY <1>5, <2>2 DEF PubCloserStep, Pub!Drain, Pub!Interrupt, Pub!CloseTimeout, Pub!Close, Pub!Closed
  <2>3. CASE \E c \in PubCalls : PubCallStep(c)
    BY <1>2, <2>3, PubTruthKept, Zenon
  <2> QED BY <1>1, <2>1, <2>2, <2>3
<1> QED BY <1>3, <1>4, <1>6, Zenon DEF PubInv

-----------------------------------------------------------------------------
(* Provisioner *)

\* The stages of EnsureChannel.
ProvLoops == {"none", "failed", "topic", "channel", "done"}

\* PubCalls, nodes and messages of the provisioner range over these.
ProvTypes ==
    /\ prep \in [Hosts -> [loop : ProvLoops, i : 1..Nsqds]]
    /\ topic \subseteq 1..Nsqds /\ channel \in [1..Nsqds -> SUBSET Hosts]
    /\ late \subseteq {"topic", "channel"} \X (1..Nsqds) \X Hosts
    /\ backlog \in [1..Nsqds -> SUBSET Hosts]
    /\ got \in [1..Nsqds -> SUBSET (Hosts \X Hosts)]
    /\ due \subseteq (1..Nsqds) \X Hosts \X Hosts

\* A host whose EnsureChannel returned has its channel on every node, and one in the
\* second loop on every node the loop has passed.
ProvPrepared(h) ==
    /\ prep[h].loop = "done" => \A n \in 1..Nsqds : h \in channel[n]
    /\ prep[h].loop = "channel" => \A n \in 1..Nsqds : n < prep[h].i => h \in channel[n]

\* The inductive invariant of provisioning: the messages due to a host are in its channel.
ProvInv ==
    /\ ProvTypes
    /\ \A h \in Hosts : ProvPrepared(h)
    /\ \A n \in 1..Nsqds, m \in Hosts, h \in Hosts : <<n, m, h>> \in due => <<m, h>> \in got[n]

\* Nothing is prepared at first.
LEMMA ProvStart == PublishersAssumption /\ Prov!Init => ProvInv
<1>1. ASSUME PublishersAssumption PROVE Nsqds \in Nat \ {0} /\ 1 \in 1..Nsqds
  BY <1>1 DEF PublishersAssumption, Prov!ProvisioningAssumption
<1> QED BY <1>1 DEF Prov!Init, Prov!Nodes, ProvInv, ProvTypes, ProvPrepared, ProvLoops

\* A create request, in time or late, removes no channel and no message.
LEMMA ProvCreate ==
    ASSUME ProvInv, NEW path \in {"topic", "channel"}, NEW n \in 1..Nsqds, NEW h \in Hosts,
           Prov!create(path, n, h), UNCHANGED due
    PROVE  /\ topic' \subseteq 1..Nsqds /\ channel' \in [1..Nsqds -> SUBSET Hosts]
           /\ backlog' \in [1..Nsqds -> SUBSET Hosts]
           /\ got' \in [1..Nsqds -> SUBSET (Hosts \X Hosts)]
           /\ \A k \in 1..Nsqds : channel[k] \subseteq channel'[k] /\ got[k] \subseteq got'[k]
           /\ path = "channel" => h \in channel'[n]
<1> USE DEF ProvInv, ProvTypes
<1>1. CASE path = "topic"
  BY Zenon, <1>1 DEF Prov!create, Prov!createTopic
<1>2. CASE path = "channel"
  <2> DEFINE pairs == {<<m, h>> : m \in backlog[n]}
  <2>1. pairs \subseteq Hosts \X Hosts
    OBVIOUS
  <2>2. /\ channel' = [channel EXCEPT ![n] = channel[n] \cup {h}]
        /\ got' = [got EXCEPT ![n] = got[n] \cup pairs]
        /\ backlog' = [backlog EXCEPT ![n] = {}] /\ UNCHANGED topic
    BY <1>2, Zenon DEF Prov!create, Prov!createChannel
  <2> HIDE DEF pairs
  <2> QED BY <2>1, <2>2
<1> QED BY <1>1, <1>2

\* Every step of hosts and nodes keeps the invariant.
LEMMA ProvStep == PublishersAssumption /\ ProvInv /\ [Prov!Next]_(Prov!vars) => ProvInv'
<1> SUFFICES ASSUME PublishersAssumption, ProvInv, [Prov!Next]_(Prov!vars) PROVE ProvInv'
  OBVIOUS
<1>1. Nsqds \in Nat \ {0} /\ 1 \in 1..Nsqds
  BY DEF PublishersAssumption, Prov!ProvisioningAssumption
<1>2. CASE UNCHANGED Prov!vars
  BY <1>2 DEF Prov!vars, ProvInv, ProvTypes, ProvPrepared
<1>3. ASSUME NEW h \in Hosts, Prov!EnsureChannel(h) PROVE ProvInv'
  BY <1>1, <1>3 DEF Prov!EnsureChannel, Prov!nodes, ProvInv, ProvTypes, ProvPrepared, ProvLoops
<1>4. ASSUME NEW h \in Hosts, Prov!ensure(h) PROVE ProvInv'
  <2> DEFINE path == prep[h].loop
             n == prep[h].i
  <2>1. path \in {"topic", "channel"} /\ n \in 1..Nsqds /\ Prov!create(path, n, h) /\ UNCHANGED <<late, due>>
    BY <1>4 DEF Prov!ensure, ProvInv, ProvTypes
  <2> DEFINE next == IF n < Nsqds THEN [loop |-> path, i |-> n + 1]
                     ELSE IF path = "topic" THEN [loop |-> "channel", i |-> 1] ELSE [loop |-> "done", i |-> n]
  <2>2. prep' = [prep EXCEPT ![h] = next]
    BY <1>4, Zenon DEF Prov!ensure, Prov!advance
  <2>3. next \in [loop : ProvLoops, i : 1..Nsqds]
    BY <1>1, <2>1 DEF ProvLoops
  <2>4. ProvTypes'
    BY <2>1, <2>2, <2>3, ProvCreate DEF ProvInv, ProvTypes
  <2>5. \A g \in Hosts : ProvPrepared(g)'
    <3>1. ASSUME NEW g \in Hosts \ {h} PROVE ProvPrepared(g)'
      BY <2>1, <2>2, <3>1, ProvCreate DEF ProvInv, ProvTypes, ProvPrepared
    <3>2. ProvPrepared(h)'
      <4>1. prep'[h] = next
        BY <2>2 DEF ProvInv, ProvTypes
      <4>2. \A k \in 1..Nsqds : channel[k] \subseteq channel'[k]
        BY <2>1, ProvCreate
      <4>3. path = "channel" => h \in channel'[n] /\ \A k \in 1..Nsqds : k < n => h \in channel[k]
        BY <2>1, ProvCreate DEF ProvInv, ProvPrepared
      <4> QED BY <1>1, <2>1, <4>1, <4>2, <4>3 DEF ProvPrepared
    <3> QED BY <3>1, <3>2
  <2>6. \A k \in 1..Nsqds, m \in Hosts, g \in Hosts : <<k, m, g>> \in due' => <<m, g>> \in got'[k]
    BY <2>1, ProvCreate DEF ProvInv
  <2> QED BY <2>4, <2>5, <2>6 DEF ProvInv
<1>5. ASSUME NEW h \in Hosts, Prov!ensureFails(h) PROVE ProvInv'
  <2> DEFINE x == [prep[h] EXCEPT !.loop = "failed"]
  <2>1. x \in [loop : ProvLoops, i : 1..Nsqds] /\ x.loop = "failed"
    BY Zenon DEF ProvInv, ProvTypes, ProvLoops
  <2>2. prep' = [prep EXCEPT ![h] = x]
    BY <1>5, Zenon DEF Prov!ensureFails
  <2> HIDE DEF x
  <2>3. prep[h].i \in 1..Nsqds
    BY DEF ProvInv, ProvTypes
  <2>4. prep' \in [Hosts -> [loop : ProvLoops, i : 1..Nsqds]] /\ prep'[h] = x /\ \A g \in Hosts : g # h => prep'[g] = prep[g]
    BY <2>1, <2>2 DEF ProvInv, ProvTypes
  <2>5. late' \subseteq {"topic", "channel"} \X (1..Nsqds) \X Hosts
    BY <1>5, <2>3 DEF Prov!ensureFails, Prov!nodes, ProvInv, ProvTypes
  <2>6. UNCHANGED <<topic, channel, backlog, got, due>>
    BY <1>5, Zenon DEF Prov!ensureFails, Prov!nodes
  <2>7. ProvTypes'
    BY Zenon, <2>4, <2>5, <2>6 DEF ProvInv, ProvTypes
  <2>8. \A g \in Hosts : ProvPrepared(g)'
    BY <2>1, <2>4, <2>6 DEF ProvInv, ProvPrepared
  <2> QED BY Zenon, <2>6, <2>7, <2>8 DEF ProvInv
<1>6. ASSUME Prov!carriedOut PROVE ProvInv'
  <2>1. PICK r \in late : Prov!create(r[1], r[2], r[3]) /\ late' = late \ {r} /\ UNCHANGED <<prep, due, failures>>
    BY <1>6 DEF Prov!carriedOut
  <2>2. r[1] \in {"topic", "channel"} /\ r[2] \in 1..Nsqds /\ r[3] \in Hosts
    BY <2>1 DEF ProvInv, ProvTypes
  <2> QED BY Zenon, <2>1, <2>2, ProvCreate DEF ProvInv, ProvTypes, ProvPrepared
<1>7. ASSUME NEW m \in Hosts, NEW n \in 1..Nsqds, Prov!Publish(m, n) PROVE ProvInv'
  <2>1. Prov!ready \subseteq channel[n] /\ m \in Prov!ready
    BY <1>7 DEF Prov!ready, Prov!Publish, ProvInv, ProvPrepared
  <2>2. channel[n] # {}
    BY <2>1
  <2>3. /\ got' = [got EXCEPT ![n] = @ \cup {<<m, h>> : h \in channel[n]}]
        /\ due' = due \cup {<<n, m, h>> : h \in Prov!ready}
        /\ topic' = topic \cup {n}
        /\ UNCHANGED <<prep, channel, late, backlog>>
    BY <1>7, <2>2 DEF Prov!Publish
  <2>4. ProvTypes'
    BY <2>1, <2>3 DEF ProvInv, ProvTypes
  <2>5. \A h \in Hosts : ProvPrepared(h)'
    BY <2>3 DEF ProvInv, ProvPrepared
  <2>6. \A k \in 1..Nsqds, p \in Hosts, h \in Hosts : <<k, p, h>> \in due' => <<p, h>> \in got'[k]
    BY <2>1, <2>3 DEF ProvInv, ProvTypes
  <2> QED BY <2>4, <2>5, <2>6 DEF ProvInv
<1> QED BY <1>2, <1>3, <1>4, <1>5, <1>6, <1>7 DEF Prov!Next, Prov!Nodes

\* What is due to a prepared host is in its channel.
LEMMA ProvKept == ProvInv => Prov!FirstPublishKept
  BY DEF ProvInv, ProvTypes, Prov!FirstPublishKept

-----------------------------------------------------------------------------
(* RocketMQ publisher (Python) *)

\* A caller that was told CONFIRMED, or will be, has its message with the broker.
PyPubInv ==
    /\ thread \in [PyCallers \cup {"create", "shutdown"} -> {"none", "running", "receipt", "error", "refused"}]
    /\ result \in [PyCallers -> {"none", "raised", "unknown", "confirmed", "rejected"}]
    /\ \A c \in PyCallers : thread[c] = "receipt" \/ result[c] = "confirmed" => c \in pstored

\* The Python publisher before start satisfies the invariant.
LEMMA PyPubStart == PyPub!Init => PyPubInv
  BY DEF PyPub!Init, PyPub!Calls, PyPubInv

\* Every step of the Python publisher keeps what it told its callers true.
LEMMA PyPubStep == PublishersAssumption /\ PyPubInv /\ [PyPub!Next]_(PyPub!vars) => PyPubInv'
<1> SUFFICES ASSUME PublishersAssumption, PyPubInv, [PyPub!Next]_(PyPub!vars) PROVE PyPubInv'
  OBVIOUS
<1> USE DEF PyPubInv
<1>1. CASE UNCHANGED <<thread, result, pstored>>
  BY <1>1
<1>2. CASE PyPub!begin \/ PyPub!create \/ PyPub!shutdown \/ PyPub!shutdownEnds
  BY <1>2 DEF PyPub!begin, PyPub!create, PyPub!shutdown, PyPub!shutdownEnds
<1>3. CASE PyPub!stop \/ PyPub!gathered \/ PyPub!stopTimeout \/ PyPub!stopReturns \/ UNCHANGED PyPub!vars
  BY <1>1, <1>3, Zenon DEF PyPub!stop, PyPub!gathered, PyPub!stopTimeout, PyPub!stopReturns, PyPub!vars
<1>4. ASSUME NEW c \in PyCallers, PyPub!publish(c) \/ PyPub!acquire(c) \/ PyPub!call(c) \/ PyPub!timeout(c)
      PROVE  PyPubInv'
  BY <1>4 DEF PyPub!publish, PyPub!acquire, PyPub!call, PyPub!timeout
<1>5. ASSUME NEW c \in PyCallers, PyPub!send(c) PROVE PyPubInv'
  BY <1>5 DEF PyPub!send
<1>6. ASSUME NEW c \in PyCallers, PyPub!complete(c) PROVE PyPubInv'
  <2>1. /\ thread[c] \in {"receipt", "error", "refused"}
        /\ PyPub!outcome[thread[c]] \in {"unknown", "confirmed", "rejected"}
        /\ PyPub!outcome[thread[c]] = "confirmed" => thread[c] = "receipt"
    BY <1>6 DEF PyPub!complete, PyPub!outcome
  <2> QED BY <1>6, <2>1 DEF PyPub!complete
<1> QED BY <1>2, <1>3, <1>4, <1>5, <1>6, Zenon DEF PyPub!Next, PyPub!closeStep, PyPub!callerStep

\* The calls that hold the gate are the threads that run, at most max_in_flight; before
\* start there are none.
PyPubGate ==
    /\ IsFiniteSet(PyPub!pending) /\ Cardinality(PyPub!pending) <= PyInFlight
    /\ start = "new" => PyPub!pending = {} /\ close.at = "none" /\ \A c \in PyCallers : caller[c] = "new"

\* The Python publisher's Cardinality is the one of FiniteSets.
LEMMA PyPubCardinality == \A S : PyPub!Cardinality(S) = Cardinality(S)
  BY Zenon DEF PyPub!Cardinality, Cardinality, PyPub!IsFiniteSet, IsFiniteSet

\* The gate is free before start.
LEMMA PyPubGateStart == PublishersAssumption /\ PyPub!Init => PyPubGate
<1> SUFFICES ASSUME PublishersAssumption, PyPub!Init PROVE PyPubGate
  OBVIOUS
<1>1. PyPub!pending = {}
  BY DEF PyPub!Init, PyPub!pending, PyPub!Calls
<1>2. PyInFlight \in Nat
  BY DEF PublishersAssumption, PyPub!PyRocketPublisherAssumption
<1> QED BY <1>1, <1>2, FS_EmptySet DEF PyPubGate, PyPub!Init

\* A call joins the threads only through the gate, and a caller that gives up leaves its
\* thread counted.
LEMMA PyPubGateStep == PublishersAssumption /\ PyPubInv /\ PyPubGate /\ [PyPub!Next]_(PyPub!vars) => PyPubGate'
<1> SUFFICES ASSUME PublishersAssumption, PyPubInv, PyPubGate, [PyPub!Next]_(PyPub!vars) PROVE PyPubGate'
  OBVIOUS
<1> DEFINE B == PyPub!pending
<1>1. /\ PyInFlight \in Nat \ {0} /\ IsFiniteSet(B) /\ Cardinality(B) \in Nat /\ Cardinality(B) <= PyInFlight
      /\ thread \in [PyPub!Calls -> {"none", "running", "receipt", "error", "refused"}]
  BY FS_CardinalityType DEF PublishersAssumption, PyPub!PyRocketPublisherAssumption, PyPubGate, PyPubInv, PyPub!Calls
<1>2. ASSUME B' \subseteq B PROVE IsFiniteSet(B') /\ Cardinality(B') <= PyInFlight
  <2>1. IsFiniteSet(B') /\ Cardinality(B') <= Cardinality(B)
    BY <1>1, <1>2, FS_Subset
  <2>2. Cardinality(B') \in Nat
    BY <2>1, FS_CardinalityType
  <2> QED BY <1>1, <2>1, <2>2
<1>3. ASSUME NEW c \in PyPub!Calls, thread' = [thread EXCEPT ![c] = "running"], Cardinality(B) < PyInFlight
      PROVE  IsFiniteSet(B') /\ Cardinality(B') <= PyInFlight
  <2>1. B' = B \cup {c}
    BY <1>1, <1>3 DEF PyPub!pending
  <2>2. /\ IsFiniteSet(B \cup {c})
        /\ Cardinality(B \cup {c}) = Cardinality(B) \/ Cardinality(B \cup {c}) = Cardinality(B) + 1
    BY <1>1, FS_AddElement, Zenon
  <2> QED BY <1>1, <1>3, <2>1, <2>2
<1>4. PyPub!gate > 0 => Cardinality(B) < PyInFlight
  BY <1>1, PyPubCardinality DEF PyPub!gate
<1>5. ASSUME UNCHANGED thread PROVE B' \subseteq B
  BY <1>5 DEF PyPub!pending
<1>6. ASSUME NEW c \in PyPub!Calls, NEW v, thread[c] # "none", thread' = [thread EXCEPT ![c] = v]
      PROVE  B' \subseteq B
  BY <1>1, <1>6 DEF PyPub!pending
<1>7. "create" \in PyPub!Calls /\ "shutdown" \in PyPub!Calls /\ PyCallers \subseteq PyPub!Calls
  BY DEF PyPub!Calls
<1>8. CASE PyPub!begin
  <2>1. B = {} /\ start' = "create"
    BY <1>8 DEF PyPub!begin, PyPubGate
  <2>2. Cardinality(B) = 0
    BY <2>1, FS_EmptySet
  <2>3. Cardinality(B) < PyInFlight
    BY <1>1, <2>2
  <2>4. thread' = [thread EXCEPT !["create"] = "running"]
    BY <1>8 DEF PyPub!begin
  <2>5. start' # "new"
    BY <2>1
  <2> QED BY Zenon, <1>3, <1>7, <2>3, <2>4, <2>5 DEF PyPubGate
<1>9. CASE PyPub!create
  <2>1. B' \subseteq B /\ start' # "new"
    BY Zenon, <1>1, <1>6, <1>7, <1>9 DEF PyPub!create
  <2> QED BY <1>2, <2>1 DEF PyPubGate
<1>10. CASE PyPub!stop \/ PyPub!stopTimeout \/ PyPub!gathered \/ PyPub!stopReturns
  <2>1. UNCHANGED <<thread, start>> /\ start # "new"
    BY <1>10 DEF PyPub!stop, PyPub!stopTimeout, PyPub!gathered, PyPub!stopReturns, PyPubGate
  <2> QED BY <1>2, <1>5, <2>1 DEF PyPubGate
<1>11. CASE PyPub!shutdown
  <2>1. start' # "new"
    BY <1>11 DEF PyPub!shutdown, PyPubGate
  <2>2. CASE UNCHANGED thread
    BY <1>2, <1>5, <2>1, <2>2 DEF PyPubGate
  <2>3. CASE PyPub!gate > 0 /\ thread' = [thread EXCEPT !["shutdown"] = "running"]
    BY Zenon, <1>3, <1>4, <1>7, <2>1, <2>3 DEF PyPubGate
  <2> QED BY <1>11, <2>2, <2>3 DEF PyPub!shutdown
<1>12. CASE PyPub!shutdownEnds
  <2>1. "shutdown" \in B
    BY <1>7, <1>12 DEF PyPub!shutdownEnds, PyPub!pending
  <2>2. start' # "new"
    BY <1>12, <2>1 DEF PyPub!shutdownEnds, PyPubGate
  <2> QED BY Zenon, <1>2, <1>6, <1>7, <1>12, <2>2 DEF PyPub!shutdownEnds, PyPubGate
<1>13. ASSUME NEW c \in PyCallers, PyPub!publish(c) \/ PyPub!acquire(c) \/ PyPub!timeout(c) PROVE PyPubGate'
  <2>1. UNCHANGED <<thread, start>> /\ start # "new"
    BY <1>13 DEF PyPub!publish, PyPub!acquire, PyPub!timeout, PyPubGate
  <2> QED BY <1>2, <1>5, <2>1 DEF PyPubGate
<1>14. ASSUME NEW c \in PyCallers, PyPub!call(c) PROVE PyPubGate'
  <2>1. start' # "new"
    BY <1>14 DEF PyPub!call, PyPubGate
  <2> QED BY Zenon, <1>3, <1>4, <1>7, <1>14, <2>1 DEF PyPub!call, PyPubGate
<1>15. ASSUME NEW c \in PyCallers, PyPub!send(c) \/ PyPub!complete(c) PROVE PyPubGate'
  <2>1. thread[c] # "none" /\ UNCHANGED start /\ \E v : thread' = [thread EXCEPT ![c] = v]
    BY <1>15 DEF PyPub!send, PyPub!complete, PyPub!outcome
  <2>2. c \in B
    BY <1>7, <2>1 DEF PyPub!pending
  <2>3. start # "new"
    BY <2>2 DEF PyPubGate
  <2> QED BY Zenon, <1>2, <1>6, <1>7, <2>1, <2>3 DEF PyPubGate
<1>16. CASE UNCHANGED PyPub!vars
  BY <1>2, <1>5, <1>16 DEF PyPub!vars, PyPubGate, PyPub!pending
<1> QED BY <1>8, <1>9, <1>10, <1>11, <1>12, <1>13, <1>14, <1>15, <1>16, Zenon
        DEF PyPub!Next, PyPub!closeStep, PyPub!callerStep

-----------------------------------------------------------------------------
(* All of them *)

\* The part that takes the steps satisfies its invariant.
PublishersInv ==
    /\ pubPart \in PubParts
    /\ pubPart \in {"publisher", "managed"} => PubInv
    /\ pubPart = "provisioner" => ProvInv
    /\ pubPart = "pypublisher" => PyPubInv /\ PyPubGate

\* Whichever publisher or provisioner runs, its invariant is inductive.
THEOREM PublishersInvariant == PubSpec => []PublishersInv
<1>1. PubInit => PublishersInv
  <2> SUFFICES ASSUME PubInit PROVE PublishersInv
    OBVIOUS
  <2>1. pubPart \in PubParts /\ (Pub!Init \/ Pub!NewManagedPublisher) /\ Prov!Init /\ PyPub!Init
    BY Zenon DEF PubInit
  <2> QED BY Zenon, <2>1, PublishersAssumption, PubStart, ProvStart, PyPubStart, PyPubGateStart DEF PublishersInv
<1>2. PublishersInv /\ [PubNext]_pubVars => PublishersInv'
  <2> SUFFICES ASSUME PublishersInv, [PubNext]_pubVars PROVE PublishersInv'
    OBVIOUS
  <2>1. pubPart' = pubPart
    BY Zenon DEF PubNext, pubVars
  <2>2. CASE pubPart \in {"publisher", "managed"}
    <3>1. [Pub!Next]_(Pub!vars) \/ [Pub!NsqNext]_(Pub!vars)
      BY <2>2 DEF PubNext, pubVars, publisherVars, Pub!vars
    <3>2. PubInv'
      BY Zenon, <2>2, <3>1, PublishersAssumption, PubKept DEF PublishersInv
    <3> QED BY <2>1, <2>2, <3>2 DEF PublishersInv
  <2>3. CASE pubPart = "provisioner"
    <3>1. [Prov!Next]_(Prov!vars)
      BY <2>3 DEF PubNext, pubVars, provVars, Prov!vars
    <3>2. ProvInv'
      BY Zenon, <2>3, <3>1, PublishersAssumption, ProvStep DEF PublishersInv
    <3> QED BY <2>1, <2>3, <3>2 DEF PublishersInv
  <2>4. CASE pubPart = "pypublisher"
    <3>1. [PyPub!Next]_(PyPub!vars)
      BY <2>4 DEF PubNext, pubVars, pyPubVars, PyPub!vars
    <3>2. PyPubInv' /\ PyPubGate'
      BY Zenon, <2>4, <3>1, PublishersAssumption, PyPubStep, PyPubGateStep DEF PublishersInv
    <3> QED BY <2>1, <2>4, <3>2 DEF PublishersInv
  <2> QED BY <2>2, <2>3, <2>4 DEF PublishersInv, PubParts
<1> QED BY <1>1, <1>2, PTL DEF PubSpec

\* What a publish reported, and what EnsureChannel's success promises, stays true of the
\* broker for good, however often the server's settings let the driver try: a message
\* reported Rejected is stored only if the driver did try more than once.
THEOREM PublishersTellTheTruth == PubSpec => []OutcomeIsTrue
<1>1. PubInv => Pub!OutcomeIsTrue
  BY DEF PubInv, PubTruth, Pub!OutcomeIsTrue
<1>2. PyPubInv => PyPub!ConfirmedIsStored
  BY DEF PyPubInv, PyPub!ConfirmedIsStored
<1>3. PublishersInv => OutcomeIsTrue
  BY Zenon, <1>1, <1>2, ProvKept DEF PublishersInv, OutcomeIsTrue
<1> QED BY <1>3, PublishersInvariant, PTL

\* Drain and Close report success with no send left, and no driver is stopped under a
\* send but by Interrupt.
THEOREM PublishersDrainBeforeStop == PubSpec => []DrainsBeforeStop
<1>1. PubInv => Pub!DrainedIsQuiet
  BY DEF PubInv, PubStop, Pub!DrainedIsQuiet, Pub!active
<1>2. PubInv => Pub!StoppedUnderSend
  BY DEF PubInv, PubStop, Pub!StoppedUnderSend, Pub!active
<1>3. PubInv => Pub!ClosedIsQuiet
  BY DEF PubInv, PubTypes, PubStop, PubCloser, Pub!ClosedIsQuiet, Pub!active
<1>4. PublishersInv => DrainsBeforeStop
  BY Zenon, <1>1, <1>2, <1>3 DEF PublishersInv, DrainsBeforeStop
<1> QED BY <1>4, PublishersInvariant, PTL

\* Sends of the Go publishers and threads of the Python publisher stay within
\* MaxInFlight, those whose callers gave up included.
THEOREM PublishersWithinSlots ==
  PubSpec => [](/\ ~(pubPart \in {"publisher", "managed"}) \/ Cardinality(Pub!Slots) <= MaxInFlight
                /\ ~(pubPart = "pypublisher") \/ PyPub!CapacityHolds)
<1>1. PublishersInv => /\ ~(pubPart \in {"publisher", "managed"}) \/ Cardinality(Pub!Slots) <= MaxInFlight
                       /\ ~(pubPart = "pypublisher") \/ PyPub!CapacityHolds
  <2>1. PyPubGate => PyPub!CapacityHolds
    BY PyPubCardinality DEF PyPubGate, PyPub!CapacityHolds
  <2> QED BY <2>1 DEF PublishersInv, PubInv, PubSlots
<1> QED BY <1>1, PublishersInvariant, PTL
=============================================================================

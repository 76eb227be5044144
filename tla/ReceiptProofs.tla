---------------------------- MODULE ReceiptProofs ----------------------------
(***************************************************************************)
(* The receipt Outbox for any messages, senders and bounds: a confirmed    *)
(* row has its evidence, ordered messages go out in order, and a closed    *)
(* row stays closed.  Neither of the first two is inductive: a sender      *)
(* acts on a copy of a row it read earlier, so the invariant says what     *)
(* such a copy stands for whatever became of the row.                      *)
(***************************************************************************)
EXTENDS ReceiptOutbox, TLAPS

\* A copy a sender holds was read when the older messages were taken over, and
\* PUB OK means the broker has it.
CopiesInOrder ==
    \A s \in Senders, m \in Msgs :
        /\ (out[s][m] # "none" /\ m \in Ordered) => \A o \in Older(m) : Evidence(o)
        /\ out[s][m] = "ok" => m \in published

IInv == TypeOK /\ ConfirmedIsEvidence /\ AggregateOrder /\ CopiesInOrder

rowStep(m) == Stage(m) \/ Hold(m) \/ Confirm(m) \/ RearmAck(m) \/ Wait(m) \/ BrokerLoses(m) \/ Accept(m)
sendStep(s, m) == PublishOK(s, m) \/ Published(s, m) \/ Retry(s, m) \/ PublishUnknown(s, m)

\* The next-state relation, one disjunct for each kind of step.
LEMMA NextCases ==
    ASSUME [Next]_vars
    PROVE  \/ \E m \in Msgs : rowStep(m)
           \/ \E s \in Senders : Pending(s) \/ Crash(s) \/ \E m \in Msgs : sendStep(s, m)
           \/ UNCHANGED vars
  BY Zenon DEF Next, SenderStep, Idle, rowStep, sendStep

\* Older messages are messages.
LEMMA OlderAreMsgs == \A m \in Msgs : Older(m) \subseteq Msgs
  BY ReceiptAssumption DEF Older

\* An Outbox without messages in flight satisfies the invariant.
LEMMA InitInv == Init => IInv
  BY OlderAreMsgs DEF Init, IInv, TypeOK, ConfirmedIsEvidence, AggregateOrder, CopiesInOrder

\* No step takes evidence back.
LEMMA EvidenceStays ==
    ASSUME TypeOK, published \subseteq published', accepted \subseteq accepted'
    PROVE  \A m \in Msgs : Evidence(m) => Evidence(m)'
  BY DEF Evidence

\* A sender's settlement or the host's rearm keeps the types of the row.
LEMMA RowType ==
    ASSUME TypeOK, NEW m \in Msgs, MarkPublished(m) \/ MarkRetry(m) \/ MarkRearmed(m)
    PROVE  /\ stage' \in [Msgs -> {"absent", "staged", "awaiting_receipt", "confirmed", "held"}]
           /\ attempts' \in [Msgs -> Nat]
           /\ due' \in [Msgs -> BOOLEAN]
<1> USE DEF TypeOK, rowVars
<1>1. CASE MarkPublished(m)
  <2>1. CASE stage[m] \in {"confirmed", "held"} BY <1>1, <2>1 DEF MarkPublished
  <2>2. CASE stage[m] \notin {"confirmed", "held"}
    <3>1. attempts[m] + 1 \in Nat
      OBVIOUS
    <3> QED BY Zenon, <1>1, <2>2, <3>1 DEF MarkPublished
  <2> QED BY <2>1, <2>2
<1>2. CASE MarkRetry(m)
  <2>1. CASE stage[m] \in {"confirmed", "held"} BY <1>2, <2>1 DEF MarkRetry
  <2>2. CASE stage[m] \notin {"confirmed", "held"}
    <3>1. attempts[m] + 1 \in Nat
      OBVIOUS
    <3> QED BY Zenon, <1>2, <2>2, <3>1 DEF MarkRetry
  <2> QED BY <2>1, <2>2
<1>3. CASE MarkRearmed(m)
  <2>1. CASE stage[m] = "held" BY <1>3, <2>1 DEF MarkRearmed
  <2>2. CASE stage[m] # "held" BY <1>3, <2>2 DEF MarkRearmed
  <2> QED BY <2>1, <2>2
<1> QED BY <1>1, <1>2, <1>3

\* Every operation keeps the types.
LEMMA TypeStep == TypeOK /\ [Next]_vars => TypeOK'
<1> SUFFICES ASSUME TypeOK, [Next]_vars PROVE TypeOK'
  OBVIOUS
<1>1. ASSUME NEW m \in Msgs, rowStep(m) PROVE TypeOK'
  <2>1. CASE Stage(m) BY <2>1 DEF Stage, TypeOK
  <2>2. CASE Hold(m) BY <2>2, ReceiptAssumption DEF Hold, Slip, MarkHeld, TypeOK
  <2>3. CASE Confirm(m) BY <2>3 DEF Confirm, TypeOK
  <2>4. CASE RearmAck(m) BY <2>4, RowType, ReceiptAssumption DEF RearmAck, TypeOK
  <2>5. CASE Wait(m) BY <2>5 DEF Wait, TypeOK
  <2>6. CASE BrokerLoses(m) BY <2>6, ReceiptAssumption DEF BrokerLoses, Slip, rowVars, TypeOK
  <2>7. CASE Accept(m) BY <2>7 DEF Accept, rowVars, TypeOK
  <2> QED BY <1>1, <2>1, <2>2, <2>3, <2>4, <2>5, <2>6, <2>7 DEF rowStep
<1>2. ASSUME NEW s \in Senders, NEW m \in Msgs, sendStep(s, m) PROVE TypeOK'
  <2>1. CASE PublishOK(s, m) BY <2>1 DEF PublishOK, rowVars, TypeOK
  <2>2. CASE Published(s, m) BY <2>2, RowType DEF Published, TypeOK
  <2>3. CASE Retry(s, m) BY <2>3, RowType DEF Retry, TypeOK
  <2>4. CASE PublishUnknown(s, m) 
    <3>1. slips' \in Nat
      BY <2>4 DEF PublishUnknown, Slip, TypeOK
    <3>2. published' \subseteq Msgs /\ transit' \subseteq published' /\ accepted' \subseteq published'
      BY <2>4 DEF PublishUnknown, TypeOK
    <3> QED BY <2>4, <3>1, <3>2 DEF PublishUnknown, rowVars, TypeOK
  <2> QED BY <1>2, <2>1, <2>2, <2>3, <2>4 DEF sendStep
<1>3. ASSUME NEW s \in Senders, Pending(s) PROVE TypeOK'
  BY <1>3 DEF Pending, rowVars, TypeOK
<1>4. ASSUME NEW s \in Senders, Crash(s) PROVE TypeOK'
  BY <1>4, ReceiptAssumption DEF Crash, Slip, rowVars, TypeOK
<1>5. CASE UNCHANGED vars
  BY <1>5 DEF vars, TypeOK
<1> QED BY <1>1, <1>2, <1>3, <1>4, <1>5, NextCases

\* A row becomes confirmed by a receipt, or a final ACK by PUB OK.
LEMMA ConfirmedStep ==
    ASSUME IInv, [Next]_vars, NEW n \in Msgs, stage'[n] = "confirmed"
    PROVE  Evidence(n)'
<1> USE DEF Evidence
<1>0. TypeOK /\ (stage[n] = "confirmed" => Evidence(n))
  BY DEF IInv, ConfirmedIsEvidence
<1>1. ASSUME NEW m \in Msgs, rowStep(m) PROVE Evidence(n)'
  <2>1. CASE Stage(m) BY <1>0, <2>1 DEF Stage, TypeOK
  <2>2. CASE Hold(m) BY <1>0, <2>2 DEF Hold, MarkHeld, TypeOK
  <2>3. CASE Confirm(m) BY <1>0, <2>3 DEF Confirm, TypeOK
  <2>4. CASE RearmAck(m) BY <1>0, <2>4 DEF RearmAck, MarkRearmed, rowVars, TypeOK
  <2>5. CASE Wait(m) BY <1>0, <2>5 DEF Wait
  <2>6. CASE BrokerLoses(m) BY <1>0, <2>6 DEF BrokerLoses, rowVars
  <2>7. CASE Accept(m) BY <1>0, <2>7 DEF Accept, rowVars
  <2> QED BY <1>1, <2>1, <2>2, <2>3, <2>4, <2>5, <2>6, <2>7 DEF rowStep
<1>2. ASSUME NEW s \in Senders, NEW m \in Msgs, sendStep(s, m) PROVE Evidence(n)'
  <2>1. CASE PublishOK(s, m) BY <1>0, <2>1 DEF PublishOK, rowVars
  <2>2. CASE Published(s, m)
    <3>1. m \in published
      BY <2>2 DEF IInv, CopiesInOrder, Published
    <3> QED BY <1>0, <2>2, <3>1 DEF Published, MarkPublished, rowVars, TypeOK
  <2>3. CASE Retry(s, m) BY <1>0, <2>3 DEF Retry, MarkRetry, rowVars
  <2>4. CASE PublishUnknown(s, m) BY <1>0, <2>4 DEF PublishUnknown, rowVars
  <2> QED BY <1>2, <2>1, <2>2, <2>3, <2>4 DEF sendStep
<1>3. ASSUME NEW s \in Senders, Pending(s) \/ Crash(s) PROVE Evidence(n)'
  BY <1>0, <1>3 DEF Pending, Crash, rowVars
<1>4. CASE UNCHANGED vars
  BY <1>0, <1>4 DEF vars
<1> QED BY <1>1, <1>2, <1>3, <1>4, NextCases

\* What the broker or the receiver took over it has for good.
LEMMA EvidenceGrows ==
    ASSUME TypeOK, [Next]_vars
    PROVE  published \subseteq published' /\ accepted \subseteq accepted'
<1>1. ASSUME NEW m \in Msgs, rowStep(m) PROVE published \subseteq published' /\ accepted \subseteq accepted'
  BY <1>1 DEF rowStep, Stage, Hold, Confirm, RearmAck, Wait, BrokerLoses, Accept
<1>2. ASSUME NEW s \in Senders, NEW m \in Msgs, sendStep(s, m)
      PROVE  published \subseteq published' /\ accepted \subseteq accepted'
  BY <1>2 DEF sendStep, PublishOK, Published, Retry, PublishUnknown
<1>3. ASSUME NEW s \in Senders, Pending(s) \/ Crash(s)
      PROVE  published \subseteq published' /\ accepted \subseteq accepted'
  BY <1>3 DEF Pending, Crash
<1>4. CASE UNCHANGED vars
  BY <1>4 DEF vars
<1> QED BY <1>1, <1>2, <1>3, <1>4, NextCases

\* A sender gets a copy by a scan and PUB OK from the broker, which gets a
\* message only from a sender with a copy.
LEMMA CopyStep ==
    ASSUME TypeOK, [Next]_vars, NEW n \in Msgs
    PROVE  /\ \A r \in Senders : out'[r][n] # "none" => out[r][n] # "none" \/ n \in PendingRows
           /\ \A r \in Senders : out'[r][n] = "ok" => out[r][n] = "ok" \/ n \in published'
           /\ n \in published' => n \in published \/ \E r \in Senders : out[r][n] # "none"
<1> DEFINE Goal ==
      /\ \A r \in Senders : out'[r][n] # "none" => out[r][n] # "none" \/ n \in PendingRows
      /\ \A r \in Senders : out'[r][n] = "ok" => out[r][n] = "ok" \/ n \in published'
      /\ n \in published' => n \in published \/ \E r \in Senders : out[r][n] # "none"
<1>1. ASSUME NEW m \in Msgs, rowStep(m) PROVE Goal
  BY <1>1 DEF rowStep, Stage, Hold, Confirm, RearmAck, Wait, BrokerLoses, Accept
<1>2. ASSUME NEW s \in Senders, NEW m \in Msgs, sendStep(s, m) PROVE Goal
  <2>1. CASE PublishOK(s, m) BY <2>1 DEF PublishOK, TypeOK
  <2>2. CASE Published(s, m) BY <2>2 DEF Published, TypeOK
  <2>3. CASE Retry(s, m) BY <2>3 DEF Retry, TypeOK
  <2>4. CASE PublishUnknown(s, m) BY <2>4 DEF PublishUnknown, TypeOK
  <2> QED BY <1>2, <2>1, <2>2, <2>3, <2>4 DEF sendStep
<1>3. ASSUME NEW s \in Senders, Pending(s) PROVE Goal
  BY <1>3 DEF Pending, TypeOK
<1>4. ASSUME NEW s \in Senders, Crash(s) PROVE Goal
  BY <1>4 DEF Crash, TypeOK
<1>5. CASE UNCHANGED vars
  BY <1>5 DEF vars
<1> QED BY <1>1, <1>2, <1>3, <1>4, <1>5, NextCases

\* Every operation of senders, receipts and the host keeps the invariant.
LEMMA StepInv == IInv /\ [Next]_vars => IInv'
<1> SUFFICES ASSUME IInv, [Next]_vars PROVE IInv'
  OBVIOUS
<1>0. TypeOK /\ TypeOK'
  BY TypeStep DEF IInv
<1>1. \A m \in Msgs : Evidence(m) => Evidence(m)'
  BY <1>0, EvidenceGrows, EvidenceStays
<1>2. ConfirmedIsEvidence'
  BY ConfirmedStep DEF ConfirmedIsEvidence
<1>3. ASSUME NEW m \in Msgs, m \in Ordered, m \in PendingRows \/ \E s \in Senders : out[s][m] # "none"
      PROVE  \A o \in Older(m) : Evidence(o)'
  <2>1. CASE m \in PendingRows
    BY <1>1, <1>3, <2>1, OlderAreMsgs DEF PendingRows, IInv, ConfirmedIsEvidence
  <2>2. CASE \E s \in Senders : out[s][m] # "none"
    BY <1>1, <1>3, <2>2, OlderAreMsgs DEF IInv, CopiesInOrder
  <2> QED BY <1>3, <2>1, <2>2
<1>4. CopiesInOrder'
  <2> SUFFICES ASSUME NEW s \in Senders, NEW m \in Msgs
               PROVE  /\ out'[s][m] # "none" /\ m \in Ordered => \A o \in Older(m) : Evidence(o)'
                      /\ out'[s][m] = "ok" => m \in published'
    BY Zenon DEF CopiesInOrder, Older
  <2>1. out'[s][m] # "none" /\ m \in Ordered => \A o \in Older(m) : Evidence(o)'
    BY Zenon, <1>0, <1>3, CopyStep
  <2>2. out'[s][m] = "ok" => m \in published'
    BY <1>0, CopyStep, EvidenceGrows DEF IInv, CopiesInOrder
  <2> QED BY <2>1, <2>2
<1>5. AggregateOrder'
  <2> SUFFICES ASSUME NEW n \in published' \cap Ordered
               PROVE  \A o \in Older(n) : Evidence(o)'
    BY Zenon DEF AggregateOrder, Older
  <2>1. n \in Msgs /\ n \in Ordered
    BY ReceiptAssumption
  <2>2. CASE n \in published
    BY <1>1, <2>1, <2>2, OlderAreMsgs DEF IInv, AggregateOrder
  <2>3. CASE n \notin published
    BY <1>0, <1>3, <2>1, <2>3, CopyStep
  <2> QED BY <2>2, <2>3
<1> QED BY <1>0, <1>2, <1>4, <1>5 DEF IInv

\* The inductive invariant holds in every state of the receipt Outbox, for any
\* messages, aggregates and senders.
THEOREM Invariance == Spec => []IInv
  BY InitInv, StepInv, PTL DEF Spec

\* The rows, the senders' copies and the broker keep their types.
THEOREM ReceiptTypes == Spec => []TypeOK
<1>1. IInv => TypeOK
  BY DEF IInv
<1> QED BY <1>1, Invariance, PTL

\* No sender, however late, confirms a row that needs the receiver's receipt
\* without it.
THEOREM ReceiptConfirmed == Spec => []ConfirmedIsEvidence
<1>1. IInv => ConfirmedIsEvidence
  BY DEF IInv
<1> QED BY <1>1, Invariance, PTL

\* The ordered messages of an aggregate reach the broker in their order, for
\* any number of senders that read the same rows.
THEOREM ReceiptOrder == Spec => []AggregateOrder
<1>1. IInv => AggregateOrder
  BY DEF IInv
<1> QED BY <1>1, Invariance, PTL

\* A row closed by a receipt or held by the host.
closedKept(m) ==
    /\ stage[m] = "confirmed" /\ m \in NeedsReceipt => stage'[m] = "confirmed"
    /\ stage[m] = "held" => stage'[m] = "held" \/ (stage'[m] = "confirmed" /\ m \in accepted)

\* No operation reopens a row confirmed by its receipt, and a held row is left
\* only for confirmed, with the receipt.
LEMMA ClosedStep ==
    ASSUME TypeOK, [Next]_vars, NEW n \in Msgs
    PROVE  closedKept(n)
<1> USE DEF closedKept
<1>1. ASSUME NEW m \in Msgs, rowStep(m) PROVE closedKept(n)
  <2>1. CASE Stage(m) BY <2>1 DEF Stage, TypeOK
  <2>2. CASE Hold(m) BY <2>2 DEF Hold, MarkHeld, TypeOK
  <2>3. CASE Confirm(m) BY <2>3 DEF Confirm, TypeOK
  <2>4. CASE RearmAck(m) BY <2>4 DEF RearmAck, MarkRearmed, rowVars, TypeOK
  <2>5. CASE Wait(m) \/ BrokerLoses(m) \/ Accept(m)
    BY <2>5 DEF Wait, BrokerLoses, Accept, rowVars
  <2> QED BY <1>1, <2>1, <2>2, <2>3, <2>4, <2>5 DEF rowStep
<1>2. ASSUME NEW s \in Senders, NEW m \in Msgs, sendStep(s, m) PROVE closedKept(n)
  <2>1. CASE Published(s, m) BY <2>1 DEF Published, MarkPublished, rowVars, TypeOK
  <2>2. CASE Retry(s, m) BY <2>2 DEF Retry, MarkRetry, rowVars, TypeOK
  <2>3. CASE PublishOK(s, m) \/ PublishUnknown(s, m)
    BY <2>3 DEF PublishOK, PublishUnknown, rowVars
  <2> QED BY <1>2, <2>1, <2>2, <2>3 DEF sendStep
<1>3. ASSUME NEW s \in Senders, Pending(s) \/ Crash(s) PROVE closedKept(n)
  BY <1>3 DEF Pending, Crash, rowVars
<1>4. CASE UNCHANGED vars
  BY <1>4 DEF vars
<1> QED BY <1>1, <1>2, <1>3, <1>4, NextCases

\* Late PUB callbacks, retries, holds and rearms never reopen a closed row.
THEOREM ReceiptClosed == Spec => ClosedStaysClosed
<1>1. IInv /\ [Next]_vars => [\A m \in Msgs : closedKept(m)]_vars
  BY ClosedStep DEF IInv
<1>2. [\A m \in Msgs : closedKept(m)]_vars <=>
        [\A m \in Msgs :
            /\ stage[m] = "confirmed" /\ m \in NeedsReceipt => stage'[m] = "confirmed"
            /\ stage[m] = "held" => stage'[m] = "held" \/ (stage'[m] = "confirmed" /\ m \in accepted)]_vars
  BY DEF closedKept
<1> QED BY <1>1, <1>2, Invariance, PTL DEF Spec, ClosedStaysClosed
=============================================================================

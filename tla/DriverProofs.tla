----------------------------- MODULE DriverProofs -----------------------------
(***************************************************************************)
(* The driver's producer for any sends, transactions, server settings and  *)
(* number of faults: a half is resolved as its own transaction decided,    *)
(* and a half reported as rejected was never stored.                       *)
(***************************************************************************)
EXTENDS DriverProducer, TLAPS

Stages == {"idle", "check", "add", "publishing", "receipt", "over"}
Outcomes == {"none", "Confirmed", "Rejected", "Unknown", "Prepared"}

SendType == [at : Stages, h : Handles, set : SUBSET Attributes, attempt : Nat \ {0}, out : Outcomes]
HandleType == [messages : SUBSET Sends, receipts : SUBSET Sends, leaked : Nat]
FinalType == [decision : {"none", "COMMIT", "ROLLBACK"}, todo : SUBSET Sends]
HalfType == {"none", "half", "COMMIT", "ROLLBACK"}

TypeInv ==
    /\ send \in [Sends -> SendType]
    /\ handle \in [Handles -> HandleType]
    /\ final \in [Handles -> FinalType]
    /\ copies \in [Sends -> Nat] /\ half \in [Sends -> HalfType]

\* What belongs to a transaction: a send enters one when it begins and never
\* changes it, and only a decided transaction ends receipts.
Belongs(h, s) == send[s].at # "idle" /\ send[s].h = h

MembersInv ==
    /\ \A s \in Sends : half[s] # "none" => send[s].at # "idle"
    /\ \A h \in Handles : \A s \in handle[h].receipts : Belongs(h, s)
    /\ \A h \in Handles : \A s \in final[h].todo : Belongs(h, s) /\ final[h].decision # "none"

\* A half has one attempt: before it nothing is stored and nothing reported, and
\* after it only the outcome is written.
AttemptInv ==
    \A s \in Sends :
        /\ send[s].at # "over" => send[s].out = "none"
        /\ send[s].at \notin {"receipt", "over"} => copies[s] = 0
        /\ send[s].out = "Rejected" => copies[s] = 0

IInv == TypeInv /\ MembersInv /\ ResolvedAsDecided

\* A producer that has sent nothing satisfies the invariant.
LEMMA InitInv == Init => IInv
<1> SUFFICES ASSUME Init PROVE IInv
  OBVIOUS
<1>1. (CHOOSE h \in Handles : TRUE) \in Handles
  BY DriverProducerAssumption
<1>2. TypeInv
  BY <1>1 DEF Init, TypeInv, Stages, Outcomes, SendType, HandleType, FinalType, HalfType
<1>3. MembersInv /\ ResolvedAsDecided
  BY DEF Init, MembersInv, ResolvedAsDecided
<1> QED BY <1>2, <1>3 DEF IInv

\* Updates of the fields of a record keep its type.
LEMMA SendUpdates ==
    ASSUME send \in [Sends -> SendType], NEW s \in Sends, NEW st \in Stages
    PROVE  /\ [send EXCEPT ![s].at = st] \in [Sends -> SendType]
           /\ [send EXCEPT ![s].attempt = @ + 1] \in [Sends -> SendType]
           /\ \A o \in Outcomes : [send EXCEPT ![s].at = st, ![s].out = o] \in [Sends -> SendType]
           /\ \A h \in Handles, set \in SUBSET Attributes :
                 [send EXCEPT ![s].at = st, ![s].h = h, ![s].set = set] \in [Sends -> SendType]
<1>1. send[s].attempt + 1 \in Nat \ {0}
  BY DEF SendType
<1> QED BY Zenon, <1>1 DEF SendType

\* Updates of the fields of a transaction handle keep its type.
LEMMA HandleUpdates ==
    ASSUME handle \in [Handles -> HandleType], NEW h \in Handles, NEW s \in Sends
    PROVE  /\ [handle EXCEPT ![h].leaked = @ + 1] \in [Handles -> HandleType]
           /\ [handle EXCEPT ![h].messages = @ \cup {s}] \in [Handles -> HandleType]
           /\ [handle EXCEPT ![h].receipts = @ \cup {s}] \in [Handles -> HandleType]
<1>1. handle[h].leaked + 1 \in Nat
  BY DEF HandleType
<1>2. handle[h].messages \cup {s} \in SUBSET Sends /\ handle[h].receipts \cup {s} \in SUBSET Sends
  BY DEF HandleType
<1> QED BY Zenon, <1>1, <1>2 DEF HandleType

\* The transitions of a send keep the type of its record.
LEMMA SendSteps ==
    ASSUME TypeInv, NEW s \in Sends
    PROVE  /\ \A st \in Stages : becomes(s, st) => send' \in [Sends -> SendType]
           /\ \A o \in Outcomes : ends(s, o) => send' \in [Sends -> SendType]
<1>1. "over" \in Stages
  BY DEF Stages
<1>2. ASSUME NEW st \in Stages, becomes(s, st) PROVE send' \in [Sends -> SendType]
  BY Zenon, <1>2, SendUpdates DEF becomes, TypeInv
<1>3. ASSUME NEW o \in Outcomes, ends(s, o) PROVE send' \in [Sends -> SendType]
  BY Zenon, <1>1, <1>3, SendUpdates DEF ends, TypeInv
<1> QED BY <1>2, <1>3

\* Updates of the fields of a finalization keep its type.
LEMMA FinalUpdates ==
    ASSUME final \in [Handles -> FinalType], NEW h \in Handles, NEW t \in SUBSET Sends
    PROVE  /\ [final EXCEPT ![h].todo = t] \in [Handles -> FinalType]
           /\ \A d \in {"COMMIT", "ROLLBACK"} :
                 [final EXCEPT ![h] = [decision |-> d, todo |-> t]] \in [Handles -> FinalType]
  BY Zenon DEF FinalType

\* Every step of producer, broker and server settings keeps the types.
LEMMA TypeStep == TypeInv /\ [Next]_vars => TypeInv'
<1> SUFFICES ASSUME TypeInv, [Next]_vars PROVE TypeInv'
  OBVIOUS
<1> USE DEF TypeInv
<1>0. /\ \A s \in Sends : send[s].h \in Handles
      /\ \A h \in Handles : final[h].todo \subseteq Sends /\ handle[h].receipts \subseteq Sends
      /\ \A h \in Handles : final[h].decision \in {"none", "COMMIT", "ROLLBACK"}
  BY DEF SendType, FinalType, HandleType
<1>1. CASE applySettingsCommand BY <1>1 DEF applySettingsCommand
<1>2. ASSUME NEW s \in Sends, NEW h \in Handles, NEW set \in SUBSET Attributes, begin(s, h, set)
      PROVE  TypeInv'
  <2>1. {"check", "publishing"} \subseteq Stages
    BY DEF Stages
  <2> QED BY Zenon, <1>2, <2>1, SendUpdates DEF begin
<1>3. ASSUME NEW s \in Sends, tryAddMessageCheck(s) PROVE TypeInv'
  <2>1. "add" \in Stages /\ "over" \in Stages /\ "Unknown" \in Outcomes
    BY DEF Stages, Outcomes
  <2>2. \/ ends(s, "Unknown") /\ handle' = [handle EXCEPT ![send[s].h].leaked = @ + 1]
        \/ becomes(s, "add") /\ UNCHANGED handle
    BY Zenon, <1>3 DEF tryAddMessageCheck
  <2>3. handle' \in [Handles -> HandleType]
    <3>1. CASE UNCHANGED handle
      BY <3>1
    <3>2. CASE handle' = [handle EXCEPT ![send[s].h].leaked = @ + 1]
      BY Zenon, <1>0, <3>2, HandleUpdates
    <3> QED BY Zenon, <2>2, <3>1, <3>2
  <2>4. send' \in [Sends -> SendType]
    BY Zenon, <2>1, <2>2, SendSteps
  <2> QED BY Zenon, <1>3, <2>3, <2>4 DEF tryAddMessageCheck
<1>4. ASSUME NEW s \in Sends, tryAddMessage(s) PROVE TypeInv'
  <2>1. "publishing" \in Stages /\ "over" \in Stages /\ "Unknown" \in Outcomes
    BY DEF Stages, Outcomes
  <2>2. \/ ends(s, "Unknown") /\ UNCHANGED handle
        \/ becomes(s, "publishing") /\ handle' = [handle EXCEPT ![send[s].h].messages = @ \cup {s}]
    BY Zenon, <1>4 DEF tryAddMessage
  <2>3. handle' \in [Handles -> HandleType]
    <3>1. CASE UNCHANGED handle
      BY <3>1
    <3>2. CASE handle' = [handle EXCEPT ![send[s].h].messages = @ \cup {s}]
      BY Zenon, <1>0, <3>2, HandleUpdates
    <3> QED BY Zenon, <2>2, <3>1, <3>2
  <2>4. send' \in [Sends -> SendType]
    BY Zenon, <2>1, <2>2, SendSteps
  <2> QED BY Zenon, <1>4, <2>3, <2>4 DEF tryAddMessage
<1>5. ASSUME NEW s \in Sends, send1(s) PROVE TypeInv'
  <2>1. /\ "receipt" \in Stages /\ "over" \in Stages
        /\ "Unknown" \in Outcomes /\ "Confirmed" \in Outcomes /\ "Rejected" \in Outcomes
    BY DEF Stages, Outcomes
  <2>2. send' \in [Sends -> SendType]
    <3>1. \/ becomes(s, "receipt") \/ send' = [send EXCEPT ![s].attempt = @ + 1]
          \/ ends(s, "Unknown") \/ ends(s, "Confirmed") \/ ends(s, "Rejected")
      BY <1>5 DEF send1
    <3>2. CASE send' = [send EXCEPT ![s].attempt = @ + 1]
      BY Zenon, <2>1, <3>2, SendUpdates
    <3> QED BY Zenon, <2>1, <3>1, <3>2, SendSteps
  <2>3. copies' \in [Sends -> Nat]
    BY <1>5 DEF send1
  <2>4. half' \in [Sends -> HalfType]
    BY <1>5 DEF send1, HalfType
  <2> QED BY <1>5, <2>2, <2>3, <2>4 DEF send1
<1>6. ASSUME NEW s \in Sends, tryAddReceipt(s) PROVE TypeInv'
  <2>1. "over" \in Stages /\ "Prepared" \in Outcomes
    BY DEF Stages, Outcomes
  <2> QED BY Zenon, <1>0, <1>6, <2>1, SendUpdates, HandleUpdates DEF tryAddReceipt, ends
<1>7. ASSUME NEW s \in Sends, send0Fails(s) PROVE TypeInv'
  <2>1. "over" \in Stages /\ "Unknown" \in Outcomes
    BY DEF Stages, Outcomes
  <2> QED BY Zenon, <1>7, <2>1, SendUpdates DEF send0Fails, ends
<1>8. ASSUME NEW s \in Sends, recover(s) PROVE TypeInv'
  BY <1>0, <1>8 DEF recover, resolves, HalfType
<1>9. ASSUME NEW h \in Handles, finalize(h) PROVE TypeInv'
  <2>1. PICK s \in final[h].todo, ok \in BOOLEAN :
          /\ resolves(s, final[h].decision) \/ UNCHANGED half
          /\ final' = [final EXCEPT ![h].todo = IF ok THEN @ \ {s} ELSE {}]
          /\ UNCHANGED <<send, handle, settings, copies>>
    BY Zenon, <1>9 DEF finalize
  <2>2. final' \in [Handles -> FinalType]
    <3>1. (IF ok THEN final[h].todo \ {s} ELSE {}) \in SUBSET Sends
      BY <1>0
    <3>2. final' = [final EXCEPT ![h].todo = (IF ok THEN final[h].todo \ {s} ELSE {})]
      BY Zenon, <2>1
    <3> QED BY Zenon, <3>1, <3>2, FinalUpdates
  <2>3. half' \in [Sends -> HalfType]
    BY <1>0, <2>1 DEF resolves, HalfType
  <2> QED BY <2>1, <2>2, <2>3
<1>10. ASSUME NEW h \in Handles, NEW d \in {"COMMIT", "ROLLBACK"}, decide(h, d) PROVE TypeInv'
  BY Zenon, <1>0, <1>10, FinalUpdates DEF decide
<1>11. CASE UNCHANGED vars
  BY <1>11 DEF vars
<1> QED
  BY Zenon, <1>1, <1>2, <1>3, <1>4, <1>5, <1>6, <1>7, <1>8, <1>9, <1>10, <1>11 DEF Next, sendStep

\* A send that began stays in its transaction.
stays(n) == send[n].at # "idle" => send'[n].at # "idle" /\ send'[n].h = send[n].h

LEMMA SendStays ==
    ASSUME TypeInv, [Next]_vars, NEW n \in Sends
    PROVE  stays(n)
<1> USE DEF stays, TypeInv, SendType
<1>1. ASSUME NEW s \in Sends, NEW st \in Stages \ {"idle"}, becomes(s, st) PROVE stays(n)
  BY <1>1 DEF becomes
<1>2. ASSUME NEW s \in Sends, NEW o \in Outcomes, ends(s, o) PROVE stays(n)
  BY <1>2 DEF ends
<1>3. {"check", "add", "publishing", "receipt"} \subseteq Stages \ {"idle"} /\ {"Confirmed", "Rejected", "Unknown", "Prepared"} \subseteq Outcomes
  BY DEF Stages, Outcomes
<1>4. CASE UNCHANGED send
  BY <1>4
<1>5. ASSUME NEW s \in Sends, NEW h \in Handles, NEW set \in SUBSET Attributes, begin(s, h, set)
      PROVE  stays(n)
  BY <1>5 DEF begin
<1>6. ASSUME NEW s \in Sends, tryAddMessageCheck(s) \/ tryAddMessage(s) \/ tryAddReceipt(s) \/ send0Fails(s)
      PROVE  stays(n)
  <2>1. \/ becomes(s, "add") \/ becomes(s, "publishing") \/ ends(s, "Unknown") \/ ends(s, "Prepared")
    BY Zenon, <1>6 DEF tryAddMessageCheck, tryAddMessage, tryAddReceipt, send0Fails
  <2> QED BY <1>1, <1>2, <1>3, <2>1
<1>7. ASSUME NEW s \in Sends, send1(s) PROVE stays(n)
  <2>1. \/ becomes(s, "receipt") \/ send' = [send EXCEPT ![s].attempt = @ + 1]
        \/ ends(s, "Unknown") \/ ends(s, "Confirmed") \/ ends(s, "Rejected")
    BY <1>7 DEF send1
  <2>2. CASE send' = [send EXCEPT ![s].attempt = @ + 1]
    BY <2>2
  <2> QED BY <1>1, <1>2, <1>3, <2>1, <2>2
<1>8. CASE \/ applySettingsCommand \/ \E s \in Sends : recover(s)
           \/ \E h \in Handles : finalize(h) \/ \E d \in {"COMMIT", "ROLLBACK"} : decide(h, d)
  <2>1. UNCHANGED send
    BY Zenon, <1>8 DEF applySettingsCommand, recover, finalize, decide
  <2> QED BY <1>4, <2>1
<1>9. CASE UNCHANGED vars
  BY <1>4, <1>9 DEF vars
<1> QED BY Zenon, <1>5, <1>6, <1>7, <1>8, <1>9 DEF Next, sendStep

\* What one step may do to a half, to the receipts and to a decision.
halfMove(n) ==
    \/ half'[n] = half[n]
    \/ half[n] = "none" /\ half'[n] = "half" /\ send'[n].at # "idle"
    \/ half[n] = "half" /\ half'[n] = final[send[n].h].decision
receiptMove(h) == \A n \in handle'[h].receipts : n \in handle[h].receipts \/ (send'[n].at # "idle" /\ send'[n].h = h)
finalMove(h) ==
    \/ final'[h].decision = final[h].decision /\ final'[h].todo \subseteq final[h].todo
    \/ final[h].decision = "none" /\ final'[h].decision # "none" /\ final'[h].todo = handle[h].receipts

Moves ==
    /\ \A n \in Sends : halfMove(n)
    /\ \A h \in Handles : receiptMove(h) /\ finalMove(h)

\* Every step moves sends, receipts and finalizations only forward.
LEMMA StepMoves == IInv /\ [Next]_vars => Moves
<1> SUFFICES ASSUME IInv, [Next]_vars PROVE Moves
  OBVIOUS
<1>0. TypeInv /\ MembersInv
  BY DEF IInv
<1> USE DEF Moves, halfMove, receiptMove, finalMove
<1>1. CASE UNCHANGED <<handle, final, half>>
  BY <1>1
<1>2. CASE applySettingsCommand \/ (\E s \in Sends : send0Fails(s)) \/ UNCHANGED vars
  BY <1>1, <1>2 DEF applySettingsCommand, send0Fails, vars
<1>3. ASSUME NEW s \in Sends, NEW h \in Handles, NEW set \in SUBSET Attributes, begin(s, h, set)
      PROVE  Moves
  BY <1>1, <1>3 DEF begin
<1>4. ASSUME NEW s \in Sends, tryAddMessageCheck(s) \/ tryAddMessage(s) PROVE Moves
  <2>1. UNCHANGED <<final, half>>
    BY <1>4 DEF tryAddMessageCheck, tryAddMessage
  <2>2. \/ UNCHANGED handle
        \/ handle' = [handle EXCEPT ![send[s].h].leaked = @ + 1]
        \/ handle' = [handle EXCEPT ![send[s].h].messages = @ \cup {s}]
    BY Zenon, <1>4 DEF tryAddMessageCheck, tryAddMessage
  <2>3. \A h \in Handles : handle'[h].receipts = handle[h].receipts
    <3>1. CASE handle' = [handle EXCEPT ![send[s].h].leaked = @ + 1]
      BY <1>0, <3>1 DEF TypeInv, HandleType
    <3>2. CASE handle' = [handle EXCEPT ![send[s].h].messages = @ \cup {s}]
      BY <1>0, <3>2 DEF TypeInv, HandleType
    <3> QED BY <2>2, <3>1, <3>2
  <2> QED BY <2>1, <2>3
<1>5. ASSUME NEW s \in Sends, send1(s) PROVE Moves
  <2>1. UNCHANGED <<handle, final>>
    BY <1>5 DEF send1
  <2>2. \A n \in Sends : half'[n] = half[n] \/ (n = s /\ half[n] = "none" /\ half'[n] = "half")
    BY <1>0, <1>5 DEF send1, TypeInv
  <2>3. send'[s].at # "idle"
    BY <1>0, <1>5, SendStays DEF send1, stays
  <2> QED BY <2>1, <2>2, <2>3
<1>6. ASSUME NEW s \in Sends, tryAddReceipt(s) PROVE Moves
  <2>1. handle' = [handle EXCEPT ![send[s].h].receipts = @ \cup {s}] /\ UNCHANGED <<final, half>>
    BY Zenon, <1>6 DEF tryAddReceipt
  <2>2. \A h \in Handles : \A n \in handle'[h].receipts : n \in handle[h].receipts \/ (n = s /\ h = send[s].h)
    BY <1>0, <2>1 DEF TypeInv, HandleType
  <2>3. send'[s].at # "idle" /\ send'[s].h = send[s].h
    BY <1>0, <1>6, SendStays DEF tryAddReceipt, stays
  <2> QED BY <2>1, <2>2, <2>3
<1>7. ASSUME NEW s \in Sends, recover(s) PROVE Moves
  BY <1>0, <1>7 DEF recover, resolves, TypeInv
<1>8. ASSUME NEW h \in Handles, finalize(h) PROVE Moves
  <2>1. PICK s \in final[h].todo, ok \in BOOLEAN :
          /\ (half[s] = "half" /\ resolves(s, final[h].decision)) \/ UNCHANGED half
          /\ final' = [final EXCEPT ![h].todo = IF ok THEN @ \ {s} ELSE {}]
          /\ UNCHANGED <<send, handle, settings, copies>>
    BY Zenon, <1>8 DEF finalize
  <2>2. s \in Sends /\ send[s].h = h
    BY <1>0, <2>1 DEF MembersInv, Belongs, TypeInv, FinalType
  <2>3. \A n \in Sends : halfMove(n)
    <3>1. CASE half[s] = "half" /\ resolves(s, final[h].decision)
      BY <1>0, <2>2, <3>1 DEF resolves, TypeInv
    <3> QED BY <2>1, <3>1
  <2>4. \A i \in Handles : finalMove(i)
    BY <1>0, <2>1 DEF TypeInv, FinalType
  <2> QED BY <2>1, <2>3, <2>4
<1>9. ASSUME NEW h \in Handles, NEW d \in {"COMMIT", "ROLLBACK"}, decide(h, d) PROVE Moves
  <2>1. \A i \in Handles : finalMove(i)
    BY <1>0, <1>9 DEF decide, TypeInv
  <2> QED BY <1>9, <2>1 DEF decide
<1> QED BY Zenon, <1>2, <1>3, <1>4, <1>5, <1>6, <1>7, <1>8, <1>9 DEF Next, sendStep

\* Every step keeps the invariant behind HalfResolution.
LEMMA StepInv == IInv /\ [Next]_vars => IInv'
<1> SUFFICES ASSUME IInv, [Next]_vars PROVE IInv'
  OBVIOUS
<1>1. TypeInv /\ TypeInv' /\ Moves
  BY TypeStep, StepMoves DEF IInv
<1>2. \A n \in Sends : stays(n)
  BY <1>1, SendStays
<1>3. \A n \in Sends : send[n].h \in Handles
  BY <1>1 DEF TypeInv, SendType
<1>4. MembersInv'
  <2>1. \A n \in Sends : half'[n] # "none" => send'[n].at # "idle"
    BY <1>1, <1>2 DEF IInv, MembersInv, Moves, halfMove, stays, TypeInv
  <2>2. ASSUME NEW h \in Handles, NEW n \in handle'[h].receipts PROVE Belongs(h, n)'
    <3>1. n \in Sends
      BY <1>1, <2>2 DEF TypeInv, HandleType
    <3> QED BY <1>1, <1>2, <2>2, <3>1 DEF IInv, MembersInv, Moves, receiptMove, stays, Belongs
  <2>3. ASSUME NEW h \in Handles, NEW n \in final'[h].todo
        PROVE  Belongs(h, n)' /\ final'[h].decision # "none"
    <3>1. n \in Sends
      BY <1>1, <2>3 DEF TypeInv, FinalType
    <3> QED BY <1>1, <1>2, <2>3, <3>1 DEF IInv, MembersInv, Moves, finalMove, stays, Belongs
  <2> QED BY Zenon, <2>1, <2>2, <2>3 DEF MembersInv
<1>5. ResolvedAsDecided'
  <2> SUFFICES ASSUME NEW n \in Sends, half'[n] \in {"COMMIT", "ROLLBACK"}
               PROVE  half'[n] = final'[send'[n].h].decision
    BY Zenon DEF ResolvedAsDecided
  <2>1. half[n] # "none" /\ half'[n] = final[send[n].h].decision
    BY <1>1 DEF IInv, ResolvedAsDecided, Moves, halfMove
  <2>2. send'[n].h = send[n].h
    BY <1>2, <2>1 DEF IInv, MembersInv, stays
  <2>3. final'[send[n].h].decision = final[send[n].h].decision
    BY <1>1, <1>3, <2>1 DEF Moves, finalMove
  <2> QED BY <2>1, <2>2, <2>3
<1> QED BY <1>1, <1>4, <1>5 DEF IInv

\* CommitContext, RollBackContext and the answers to the broker's checks, in any
\* order: a half is resolved as its own transaction decided.
THEOREM HalfResolution == Spec => []ResolvedAsDecided
<1>1. IInv => ResolvedAsDecided
  BY DEF IInv
<1> QED BY <1>1, InitInv, StepInv, PTL DEF Spec

\* A transactional send makes one attempt: an answer that refuses it is the answer
\* to the only request there was.
LEMMA AttemptStep == Transactional /\ TypeInv /\ AttemptInv /\ [Next]_vars => AttemptInv'
<1> SUFFICES ASSUME Transactional, TypeInv, AttemptInv, [Next]_vars, NEW n \in Sends
             PROVE  /\ send'[n].at # "over" => send'[n].out = "none"
                    /\ send'[n].at \notin {"receipt", "over"} => copies'[n] = 0
                    /\ send'[n].out = "Rejected" => copies'[n] = 0
  BY DEF AttemptInv
<1> DEFINE Goal ==
      /\ send'[n].at # "over" => send'[n].out = "none"
      /\ send'[n].at \notin {"receipt", "over"} => copies'[n] = 0
      /\ send'[n].out = "Rejected" => copies'[n] = 0
<1> USE DEF AttemptInv, TypeInv, SendType
<1>1. CASE UNCHANGED <<send, copies>>
  BY <1>1
<1>2. ASSUME NEW s \in Sends, NEW h \in Handles, NEW set \in SUBSET Attributes, begin(s, h, set) PROVE Goal
  BY <1>2 DEF begin
<1>3. ASSUME NEW s \in Sends, tryAddMessageCheck(s) \/ tryAddMessage(s) PROVE Goal
  <2>1. UNCHANGED copies /\ send[s].at \in {"check", "add"}
    BY <1>3 DEF tryAddMessageCheck, tryAddMessage
  <2>2. becomes(s, "add") \/ becomes(s, "publishing") \/ ends(s, "Unknown")
    BY Zenon, <1>3 DEF tryAddMessageCheck, tryAddMessage
  <2>3. CASE ends(s, "Unknown") BY <2>1, <2>3 DEF ends
  <2>4. CASE becomes(s, "add") BY <2>1, <2>4 DEF becomes
  <2>5. CASE becomes(s, "publishing") BY <2>1, <2>5 DEF becomes
  <2> QED BY <2>2, <2>3, <2>4, <2>5
<1>4. ASSUME NEW s \in Sends, tryAddReceipt(s) \/ send0Fails(s) PROVE Goal
  <2>1. UNCHANGED copies /\ (ends(s, "Prepared") \/ ends(s, "Unknown"))
    BY <1>4 DEF tryAddReceipt, send0Fails
  <2> QED BY <2>1 DEF ends
<1>5. ASSUME NEW s \in Sends, send1(s) PROVE Goal
  <2>1. ~(send[s].attempt < maxAttempts)
    BY DEF maxAttempts
  <2>2. \/ becomes(s, "receipt") \/ ends(s, "Unknown")
        \/ ends(s, "Rejected") /\ copies'[s] = copies[s]
    BY <1>5, <2>1 DEF send1
  <2>3. send[s].at = "publishing" /\ \A o \in Sends \ {s} : copies'[o] = copies[o]
    BY <1>5 DEF send1
  <2>4. CASE becomes(s, "receipt") BY <2>3, <2>4 DEF becomes
  <2>5. CASE ends(s, "Unknown") BY <2>3, <2>5 DEF ends
  <2>6. CASE ends(s, "Rejected") /\ copies'[s] = copies[s] BY <2>3, <2>6 DEF ends
  <2> QED BY <2>2, <2>4, <2>5, <2>6
<1>6. CASE \/ applySettingsCommand \/ \E s \in Sends : recover(s)
           \/ \E h \in Handles : finalize(h) \/ \E d \in {"COMMIT", "ROLLBACK"} : decide(h, d)
  <2>1. UNCHANGED <<send, copies>>
    BY Zenon, <1>6 DEF applySettingsCommand, recover, finalize, decide
  <2> QED BY <1>1, <2>1
<1>7. CASE UNCHANGED vars
  BY <1>1, <1>7 DEF vars
<1> QED BY Zenon, <1>2, <1>3, <1>4, <1>5, <1>6, <1>7 DEF Next, sendStep

\* For transaction messages, whatever attempts the server's settings ask for: a
\* half whose send was refused is not at the broker, so its transaction may be
\* decided without it.
THEOREM RefusedHalf == ASSUME Transactional PROVE Spec => []RejectedIsAbsent
<1>1. Init => AttemptInv
  BY DEF Init, AttemptInv
<1>2. AttemptInv => RejectedIsAbsent
  BY DEF AttemptInv, RejectedIsAbsent
<1>3. TypeInv /\ AttemptInv /\ [Next]_vars => AttemptInv'
  BY AttemptStep
<1>4. Init => TypeInv
  BY InitInv DEF IInv
<1> QED BY <1>1, <1>2, <1>3, <1>4, TypeStep, PTL DEF Spec
=============================================================================

------------------------------- MODULE TxProofs -------------------------------
(***************************************************************************)
(* Theorems about TxProtocol for every set of requests and operations and  *)
(* any number of branches and fences.  What an operation has established   *)
(* by its stage is undone by no step of another operation, of the host, of *)
(* the broker or of recovery (OpsStep); the invariant is therefore         *)
(* inductive, and the safety properties follow from it.  The first part    *)
(* says what one step may move: the store keeps its own invariant whatever *)
(* transaction commits, an operation only passes between known stages, and *)
(* the broker only gains halves, calls and ends.                           *)
(*                                                                         *)
(* The inductive invariant says of the store that witness                  *)
(* rows mirror their execution, that a host transaction holds its row, and *)
(* that every fence but the active one is aborted (StoreInv); of an        *)
(* operation what it has established by its stage (OpsOK, OneOwner); and   *)
(* of the two together that an executor runs on held halves (Confirmed)    *)
(* and that receipts follow admission (Unattempted, Arrived).              *)
(***************************************************************************)
EXTENDS TxProtocol, TLAPS

\* Witness rows always say what their execution row says.
Rows == \A e \in Executions : \A b \in Branches : wit[<<e, b>>] = state[e]

\* A host transaction is open only on a prepared execution.
Locks == \A e \in Executions : hostTx[e] # "none" => state[e] = "prepared"

\* Executions before the active one were aborted, those after it do not exist.
Lineage ==
  \A e \in Executions :
    /\ e[2] < active[e[1]] => state[e] = "aborted"
    /\ e[2] > active[e[1]] <=> state[e] = "absent"

StoreInv == StoreTypeOK /\ Rows /\ Locks /\ Lineage

\* The committed transactions of the store.
StoreNext ==
  \/ \E q \in Requests : Reserve(q)
  \/ \E e \in Executions : Advance(e) \/ BeginPrepare(e) \/ Abort(e) \/ Expire(e)
  \/ \E e \in Executions : Bind(e) \/ CommitWitness(e) \/ HostCommitSent(e)
  \/ \E e \in Executions : HostCommitDone(e) \/ HostRolledBack(e)
  \/ \E e \in Executions, b \in Branches, h \in Halves : RecordHalf(e, b, h)
  \/ \E e \in Executions, b \in Branches, f \in Finals : RecordFinal(e, b, f)

\* What an operation has established by the time it reaches a stage, given the
\* admitted executions sd, the executors run rn, the halves held hd, the half
\* receipts hf and the execution states st.
OpHolds(o, sd, rn, hd, hf, st) ==
  /\ o.stage \in {"send", "sent"} =>
       /\ o.e \in sd
       /\ o.e \notin rn
       /\ \A b \in Branches : b < o.i => <<o.e, b>> \in hd
       /\ \A b \in Branches : b >= o.i => hf[<<o.e, b>>] = "not_attempted"
  /\ o.stage = "local" => o.e \in rn
  /\ o.stage \in {"sent", "proof", "ending"} => o.i \in Branches
  /\ o.stage \in {"finalize", "ending", "done"} => o.known # "unknown"
  /\ o.stage \in {"send", "sent", "abort", "local", "abort_reported"} => o.known = "unknown"
  /\ o.known # "unknown" => (o.stage = "proof" /\ o.i = 1) \/ st[o.e] = o.known

OpsOK == \A p \in Ops : OpHolds(op[p], started, ran, held, half, state)

\* An execution is in the hands of one operation at most until its local
\* executor has run.
OneOwner ==
  \A p, r \in Ops :
    /\ op[p].stage \in {"send", "sent"}
    /\ op[r].stage \in {"send", "sent"}
    /\ op[p].e = op[r].e
    => p = r

\* A local executor runs after every half is held, and nothing commits without
\* it.
Confirmed ==
  /\ ran \subseteq started
  /\ \A e \in ran : \A b \in Branches : <<e, b>> \in held
  /\ \A e \in Executions : hostTx[e] # "none" \/ state[e] = "committed" => e \in ran

\* No half receipt exists before the execution is admitted to the broker.
Unattempted ==
  \A e \in Executions : e \notin started =>
    \A b \in Branches : half[<<e, b>>] = "not_attempted"

\* Arrivals were sent.
Arrived == held \subseteq sends /\ ended \subseteq calls

\* The whole inductive invariant.
TxInv ==
  /\ TypeOK
  /\ StoreInv
  /\ OpsOK
  /\ OneOwner
  /\ Confirmed
  /\ Unattempted
  /\ Arrived
  /\ DecisionsAgree
  /\ AuditTruth

----------------------------------------------------------------------------
\* A slot is an execution and a branch of it.
LEMMA SlotPairs ==
  /\ \A e \in Executions, b \in Branches : <<e, b>> \in Slots
  /\ \A s \in Slots : s[1] \in Executions /\ s[2] \in Branches /\ s = <<s[1], s[2]>>
  /\ \A e \in Executions : e[1] \in Requests /\ e[2] \in Fences /\ e = <<e[1], e[2]>>
  /\ \A q \in Requests, f \in Fences : <<q, f>> \in Executions
BY DEF Slots, Executions

\* Writing both ends of an execution keeps its rows in agreement.
LEMMA EnterRows ==
  ASSUME StoreTypeOK, Rows, NEW e \in Executions, NEW s \in States, Enter(e, s)
  PROVE  /\ state' \in [Executions -> States]
         /\ wit' \in [Slots -> States]
         /\ Rows'
         /\ state'[e] = s
         /\ \A x \in Executions : x # e => state'[x] = state[x]
<1>1. state' \in [Executions -> States] /\ state'[e] = s
  BY Zenon DEF Enter, StoreTypeOK
<1>2. \A x \in Executions : x # e => state'[x] = state[x]
  BY Zenon DEF Enter, StoreTypeOK
<1>3. wit' \in [Slots -> States]
  BY Zenon DEF Enter, StoreTypeOK
<1>4. ASSUME NEW x \in Executions, NEW b \in Branches
      PROVE  wit'[<<x, b>>] = state'[x]
  <2>1. <<x, b>> \in Slots /\ <<x, b>>[1] = x
    BY Zenon, SlotPairs
  <2>2. wit'[<<x, b>>] = IF x = e THEN s ELSE wit[<<x, b>>]
    BY Zenon, <2>1 DEF Enter
  <2> QED
    BY Zenon, <1>1, <1>2, <2>2 DEF Rows
<1> QED
  BY Zenon, <1>1, <1>2, <1>3, <1>4 DEF Rows

\* A new execution is the successor of the active one.
LEMMA NewExecutionKeeps ==
  ASSUME StoreInv, NEW q \in Requests, NEW f \in Fences, active[q] = f - 1,
         f > 1 => state[<<q, f - 1>>] = "aborted", NewExecution(<<q, f>>)
  PROVE  StoreInv'
<1> DEFINE e == <<q, f>>
<1>0. e \in Executions /\ e[1] = q /\ e[2] = f /\ "prepared" \in States
  BY Zenon, SlotPairs DEF States
<1>1. /\ Enter(e, "prepared")
      /\ active' = [active EXCEPT ![q] = f]
      /\ live' = live \cup {e}
      /\ UNCHANGED <<started, half, final, hostTx>>
  BY Zenon, <1>0 DEF NewExecution
<1>2. /\ state' \in [Executions -> States] /\ wit' \in [Slots -> States] /\ Rows'
      /\ state'[e] = "prepared"
      /\ \A x \in Executions : x # e => state'[x] = state[x]
  BY Zenon, <1>0, <1>1, EnterRows DEF StoreInv
<1>3. f \in 0 .. MaxFence /\ f \in Nat
  BY TxAssumption DEF Fences, TxAssumption
<1>4. StoreTypeOK'
  BY Zenon, <1>0, <1>1, <1>2, <1>3 DEF StoreTypeOK, StoreInv
<1>5. state[e] = "absent"
  BY <1>0, <1>3 DEF StoreInv, Lineage
<1>6. Locks'
  BY Zenon, <1>1, <1>2, <1>5 DEF StoreInv, Locks
<1>7. ASSUME NEW x \in Executions
      PROVE  /\ x[2] < active'[x[1]] => state'[x] = "aborted"
             /\ x[2] > active'[x[1]] <=> state'[x] = "absent"
  <2>1. x[1] \in Requests /\ x[2] \in Fences /\ x[2] \in Nat /\ x = <<x[1], x[2]>>
    BY SlotPairs DEF Fences
  <2>2. active[x[1]] \in Nat
    BY <2>1 DEF StoreInv, StoreTypeOK
  <2>3. CASE x[1] # q
    BY <1>1, <1>2, <2>1, <2>3 DEF StoreInv, StoreTypeOK, Lineage
  <2>4. CASE x[1] = q
    <3>1. active'[x[1]] = f
      BY Zenon, <1>1, <2>4 DEF StoreInv, StoreTypeOK
    <3>2. CASE x[2] = f
      BY <1>2, <2>1, <2>4, <3>1, <3>2, <1>3
    <3>3. CASE x[2] > f
      <4>1. x # e /\ state[x] = "absent"
        BY <1>3, <2>1, <2>4, <3>3 DEF StoreInv, Lineage
      <4> QED
        BY <1>2, <1>3, <2>1, <3>1, <3>3, <4>1
    <3>4. CASE x[2] < f
      <4>1. x # e
        BY <1>3, <2>1, <3>4
      <4>2. state[x] = "aborted"
        <5>1. CASE x[2] = f - 1
          <6>1. x = <<q, f - 1>> /\ f > 1
            BY <2>1, <2>4, <5>1, <1>3 DEF Fences
          <6> QED
            BY Zenon, <6>1
        <5>2. CASE x[2] < f - 1
          BY Zenon, <2>4, <5>2 DEF StoreInv, Lineage
        <5> QED
          BY <3>4, <5>1, <5>2, <1>3, <2>1
      <4> QED
        BY <1>2, <1>3, <2>1, <3>1, <3>4, <4>1, <4>2
    <3> QED
      BY <3>2, <3>3, <3>4, <1>3, <2>1
  <2> QED
    BY Zenon, <2>3, <2>4
<1>8. Lineage'
  BY Zenon, <1>7 DEF Lineage
<1> QED
  BY Zenon, <1>2, <1>4, <1>6, <1>8 DEF StoreInv

\* A decision on the active execution keeps the lineage.
LEMMA DecidedKeeps ==
  ASSUME StoreInv, NEW e \in Executions, NEW s \in {"committed", "aborted"},
         state[e] = "prepared", Enter(e, s), UNCHANGED active
  PROVE  Lineage' /\ Rows' /\ state' \in [Executions -> States] /\ wit' \in [Slots -> States]
<1>1. s \in States
  BY Zenon DEF States
<1>2. /\ state' \in [Executions -> States] /\ wit' \in [Slots -> States] /\ Rows'
      /\ state'[e] = s
      /\ \A x \in Executions : x # e => state'[x] = state[x]
  BY Zenon, <1>1, EnterRows DEF StoreInv
<1>3. ~(e[2] < active[e[1]]) /\ ~(e[2] > active[e[1]])
  BY Zenon DEF StoreInv, Lineage
<1> QED
  BY Zenon, <1>2, <1>3 DEF StoreInv, Lineage

\* Every transaction of the store keeps its invariant.
LEMMA StoreStep ==
  ASSUME StoreInv, StoreNext \/ UNCHANGED storeVars
  PROVE  StoreInv'
<1>1. CASE UNCHANGED storeVars
  BY Zenon, <1>1 DEF storeVars, StoreInv, StoreTypeOK, Rows, Locks, Lineage
<1>2. ASSUME NEW q \in Requests, Reserve(q)
      PROVE  StoreInv'
  <2>1. 1 \in Fences /\ active[q] = 1 - 1
    BY <1>2, TxAssumption DEF Reserve, Fences, TxAssumption
  <2>2. ~(1 > 1) /\ NewExecution(<<q, 1>>)
    BY <1>2 DEF Reserve
  <2> QED
    BY Zenon, <2>1, <2>2, NewExecutionKeeps
<1>3. ASSUME NEW e \in Executions, Advance(e)
      PROVE  StoreInv'
  <2>1. e[1] \in Requests /\ e[2] \in Fences /\ e = <<e[1], e[2]>>
    BY Zenon, SlotPairs
  <2>2. e[2] + 1 \in Fences /\ active[e[1]] = (e[2] + 1) - 1
    BY <1>3, <2>1, TxAssumption DEF Advance, Fences, TxAssumption
  <2>3. state[<<e[1], (e[2] + 1) - 1>>] = "aborted"
    BY <1>3, <2>1 DEF Advance, Fences
  <2> QED
    BY Zenon, <1>3, <2>1, <2>2, <2>3, NewExecutionKeeps DEF Advance
<1>4. ASSUME NEW e \in Executions, BeginPrepare(e)
      PROVE  StoreInv'
  BY Zenon, <1>4 DEF BeginPrepare, StoreInv, StoreTypeOK, Rows, Locks, Lineage
<1>5. ASSUME NEW e \in Executions, Abort(e)
      PROVE  StoreInv'
  <2>1. /\ state[e] = "prepared" /\ hostTx[e] = "none" /\ Enter(e, "aborted")
        /\ UNCHANGED <<active, started, live, half, final, hostTx>>
    BY Zenon, <1>5 DEF Abort, CanAbort
  <2>2. Lineage' /\ Rows' /\ state' \in [Executions -> States] /\ wit' \in [Slots -> States]
    BY Zenon, <2>1, DecidedKeeps
  <2>3. Locks'
    BY Zenon, <2>1, EnterRows DEF StoreInv, Locks, States
  <2> QED
    BY Zenon, <2>1, <2>2, <2>3 DEF StoreInv, StoreTypeOK
<1>6. ASSUME NEW e \in Executions, Expire(e)
      PROVE  StoreInv'
  BY Zenon, <1>6 DEF Expire, StoreInv, StoreTypeOK, Rows, Locks, Lineage
<1>7. ASSUME NEW e \in Executions, Bind(e) \/ CommitWitness(e) \/ HostCommitSent(e) \/ HostRolledBack(e)
      PROVE  StoreInv'
  <2>1. UNCHANGED <<active, state, started, live, wit, half, final>>
    BY Zenon, <1>7 DEF Bind, CommitWitness, HostCommitSent, HostRolledBack
  <2>2. hostTx' \in [Executions -> HostTx]
    BY Zenon, <1>7 DEF Bind, CommitWitness, HostCommitSent, HostRolledBack, StoreInv, StoreTypeOK, HostTx
  <2>3. Locks'
    BY Zenon, <1>7, <2>1 DEF Bind, CanBind, CommitWitness, HostCommitSent, HostRolledBack, StoreInv, StoreTypeOK, Locks
  <2> QED
    BY Zenon, <2>1, <2>2, <2>3 DEF StoreInv, StoreTypeOK, Rows, Lineage
<1>8. ASSUME NEW e \in Executions, HostCommitDone(e)
      PROVE  StoreInv'
  <2>1. /\ hostTx[e] = "committing" /\ Enter(e, "committed")
        /\ hostTx' = [hostTx EXCEPT ![e] = "none"]
        /\ UNCHANGED <<active, started, live, half, final>>
    BY Zenon, <1>8 DEF HostCommitDone
  <2>2. state[e] = "prepared"
    BY Zenon, <2>1 DEF StoreInv, Locks
  <2>3. Lineage' /\ Rows' /\ state' \in [Executions -> States] /\ wit' \in [Slots -> States]
    BY Zenon, <2>1, <2>2, DecidedKeeps
  <2>4. hostTx' \in [Executions -> HostTx]
    BY Zenon, <2>1 DEF StoreInv, StoreTypeOK, HostTx
  <2>5. Locks'
    BY Zenon, <2>1, EnterRows DEF StoreInv, StoreTypeOK, Locks, States
  <2> QED
    BY Zenon, <2>1, <2>3, <2>4, <2>5 DEF StoreInv, StoreTypeOK
<1>9. ASSUME NEW e \in Executions, NEW b \in Branches, NEW h \in Halves, RecordHalf(e, b, h)
      PROVE  StoreInv'
  BY Zenon, <1>9 DEF RecordHalf, StoreInv, StoreTypeOK, Rows, Locks, Lineage
<1>10. ASSUME NEW e \in Executions, NEW b \in Branches, NEW f \in Finals, RecordFinal(e, b, f)
       PROVE  StoreInv'
  BY Zenon, <1>10 DEF RecordFinal, StoreInv, StoreTypeOK, Rows, Locks, Lineage
<1> QED
  BY Zenon, <1>1, <1>2, <1>3, <1>4, <1>5, <1>6, <1>7, <1>8, <1>9, <1>10 DEF StoreNext

----------------------------------------------------------------------------
\* Decisions stand, admissions are not taken back, and only Bind opens a host
\* transaction.
LEMMA StoreMoves ==
  ASSUME StoreInv, StoreNext \/ UNCHANGED storeVars
  PROVE  /\ started \subseteq started'
         /\ \A e \in Executions : state[e] \in {"committed", "aborted"} => state'[e] = state[e]
         /\ \A e \in Executions : hostTx'[e] # "none" \/ state'[e] = "committed" =>
              hostTx[e] # "none" \/ state[e] = "committed" \/ Bind(e)
<1> USE DEF StoreInv, StoreTypeOK
<1>1. CASE UNCHANGED storeVars
  BY Zenon, <1>1 DEF storeVars
<1>2. ASSUME NEW x \in Executions, state[x] \notin {"committed", "aborted"}, NewExecution(x)
      PROVE  /\ UNCHANGED <<started, hostTx>>
             /\ state' = [state EXCEPT ![x] = "prepared"]
  BY Zenon, <1>2 DEF NewExecution, Enter
<1>3. ASSUME NEW q \in Requests, Reserve(q)
      PROVE  /\ UNCHANGED <<started, hostTx>>
             /\ \E x \in Executions : state[x] = "absent" /\ state' = [state EXCEPT ![x] = "prepared"]
  <2>0. 1 \in Fences
    BY TxAssumption DEF Fences, TxAssumption
  <2>1. <<q, 1>> \in Executions /\ <<q, 1>>[1] = q /\ <<q, 1>>[2] = 1
    BY Zenon, <2>0 DEF Executions
  <2>2. state[<<q, 1>>] = "absent"
    BY <1>3, <2>1 DEF Reserve, Lineage
  <2> QED
    BY Zenon, <1>2, <1>3, <2>1, <2>2 DEF Reserve
<1>4. ASSUME NEW e \in Executions, Advance(e)
      PROVE  /\ UNCHANGED <<started, hostTx>>
             /\ \E x \in Executions : state[x] = "absent" /\ state' = [state EXCEPT ![x] = "prepared"]
  <2> DEFINE x == <<e[1], e[2] + 1>>
  <2>1. e[1] \in Requests /\ e[2] \in Fences
    BY Zenon, SlotPairs
  <2>2. x \in Executions /\ x[1] = e[1] /\ x[2] = e[2] + 1 /\ e[2] \in Nat
    BY <1>4, <2>1, TxAssumption, SlotPairs DEF Advance, Fences, TxAssumption
  <2>3. state[x] = "absent"
    BY <1>4, <2>2 DEF Advance, Lineage
  <2>4. NewExecution(x)
    BY Zenon, <1>4 DEF Advance
  <2> QED
    BY Zenon, <1>2, <2>2, <2>3, <2>4
<1>5. ASSUME NEW e \in Executions, BeginPrepare(e) \/ Expire(e)
      PROVE  started \subseteq started' /\ UNCHANGED <<state, hostTx>>
  BY Zenon, <1>5 DEF BeginPrepare, Expire
<1>6. ASSUME NEW e \in Executions, Abort(e)
      PROVE  /\ UNCHANGED <<started, hostTx>>
             /\ state[e] = "prepared"
             /\ state' = [state EXCEPT ![e] = "aborted"]
  BY Zenon, <1>6 DEF Abort, CanAbort, Enter
<1>7. ASSUME NEW e \in Executions, HostCommitDone(e)
      PROVE  /\ UNCHANGED started
             /\ hostTx[e] # "none"
             /\ state[e] = "prepared"
             /\ state' = [state EXCEPT ![e] = "committed"]
             /\ hostTx' = [hostTx EXCEPT ![e] = "none"]
  BY Zenon, <1>7 DEF HostCommitDone, Enter, Locks
<1>8. ASSUME NEW e \in Executions, CommitWitness(e) \/ HostCommitSent(e) \/ HostRolledBack(e)
      PROVE  /\ UNCHANGED <<started, state>>
             /\ hostTx[e] # "none"
             /\ \A x \in Executions : x # e => hostTx'[x] = hostTx[x]
  BY Zenon, <1>8 DEF CommitWitness, HostCommitSent, HostRolledBack
<1>9. ASSUME NEW e \in Executions, Bind(e)
      PROVE  /\ UNCHANGED <<started, state>>
             /\ \A x \in Executions : x # e => hostTx'[x] = hostTx[x]
  BY Zenon, <1>9 DEF Bind
<1>10. ASSUME NEW e \in Executions, NEW b \in Branches, NEW h, RecordHalf(e, b, h) \/ RecordFinal(e, b, h)
       PROVE  UNCHANGED <<started, state, hostTx>>
  BY Zenon, <1>10 DEF RecordHalf, RecordFinal
<1>11. CASE \E q \in Requests : Reserve(q)
  BY Zenon, <1>3, <1>11
<1>12. CASE \E e \in Executions : Advance(e)
  BY Zenon, <1>4, <1>12
<1>13. CASE \E e \in Executions : BeginPrepare(e) \/ Expire(e)
  BY Zenon, <1>5, <1>13
<1>14. CASE \E e \in Executions : Abort(e)
  BY Zenon, <1>6, <1>14
<1>15. CASE \E e \in Executions : HostCommitDone(e)
  BY Zenon, <1>7, <1>15
<1>16. CASE \E e \in Executions : CommitWitness(e) \/ HostCommitSent(e) \/ HostRolledBack(e)
  BY Zenon, <1>8, <1>16
<1>17. CASE \E e \in Executions : Bind(e)
  BY Zenon, <1>9, <1>17
<1>18. CASE \E e \in Executions, b \in Branches, h \in Halves \cup Finals : RecordHalf(e, b, h) \/ RecordFinal(e, b, h)
  BY Zenon, <1>10, <1>18
<1> QED
  BY Zenon, <1>1, <1>11, <1>12, <1>13, <1>14, <1>15, <1>16, <1>17, <1>18 DEF StoreNext

\* The forms an operation takes are operations.
LEMMA OpForms ==
  ASSUME NEW o \in Op
  PROVE  /\ \A e \in Executions, g \in Stages : Fresh(e, g) \in Op
         /\ Idle \in Op
         /\ \A g \in Stages, i \in 1 .. NumBranches + 1 : At(o, g, i) \in Op
         /\ \A k \in Known : Done(o, k) \in Op
         /\ \A y \in {"stale", "local", "unstarted"} : ProofOf(o, y) \in Op
         /\ \A n \in 0 .. NumBranches : Abandoned(o, n) \in Op
         /\ \A k \in Known : Reported(o, k) \in Op
         /\ \A k \in Known : Finalizing(o, k) \in Op
         /\ AbortingReported(o) \in Op
<1>1. 1 \in 1 .. NumBranches + 1 /\ 0 \in 0 .. NumBranches
  BY TxAssumption DEF TxAssumption
<1>2. \A x \in Executions, h \in Stages : Fresh(x, h) \in Op
  BY <1>1, Zenon DEF Fresh, Op, Known
<1>3. (CHOOSE x \in Executions : TRUE) \in Executions
  <2>1. o.e \in Executions
    BY Zenon DEF Op
  <2> QED
    BY Zenon, <2>1
<1>4. Idle \in Op
  BY <1>2, <1>3, Zenon DEF Idle, Stages
<1>5. \A g \in Stages, i \in 1 .. NumBranches + 1 : At(o, g, i) \in Op
  BY Zenon DEF At, Op
<1>6. o.e \in Executions /\ o.n \in 0 .. NumBranches
  BY Zenon DEF Op
<1>7. Fresh(o.e, "done") \in Op /\ Fresh(o.e, "finalize") \in Op /\ Fresh(o.e, "abort_reported") \in Op
  BY <1>2, <1>6, Zenon DEF Stages
<1>8. \A k \in Known : Done(o, k) \in Op
  BY <1>4, <1>7, Zenon DEF Done, Op
<1>9. \A y \in {"stale", "local", "unstarted"} : ProofOf(o, y) \in Op
  BY <1>1, Zenon DEF ProofOf, Op, Stages
<1>10. \A n \in 0 .. NumBranches : Abandoned(o, n) \in Op
  BY Zenon DEF Abandoned, Op, Stages
<1>11. \A k \in Known : Reported(o, k) \in Op
  <2>1. ProofOf(o, "local") \in Op
    BY <1>1, Zenon DEF ProofOf, Op, Stages
  <2> QED
    BY <2>1, Zenon DEF Reported, Op
<1>12. \A k \in Known : Finalizing(o, k) \in Op
  BY <1>6, <1>7, Zenon DEF Finalizing, Op
<1>13. AbortingReported(o) \in Op
  BY <1>6, <1>7, Zenon DEF AbortingReported, Op
<1> QED
  BY Zenon, <1>2, <1>4, <1>5, <1>8, <1>9, <1>10, <1>11, <1>12, <1>13

\* The two forms that count on.
LEMMA OpForward ==
  ASSUME NEW o \in Op, NEW k \in Known, o.i \in Branches
  PROVE  /\ Prepared(o) \in Op
         /\ o.i + 1 \in 1 .. NumBranches + 1
         /\ o.i < NumBranches => Read(o, k) \in Op /\ o.i + 1 \in Branches
<1>1. o.i + 1 \in 1 .. NumBranches + 1 /\ o.i \in 0 .. NumBranches
  BY TxAssumption DEF Branches, TxAssumption
<1>2. Prepared(o) \in Op
  BY <1>1, Zenon DEF Prepared, Op, Stages
<1>3. Read(o, k) \in Op
  BY <1>1, Zenon DEF Read, Op
<1>4. o.i < NumBranches => o.i + 1 \in Branches
  BY TxAssumption DEF Branches, TxAssumption
<1> QED
  BY Zenon, <1>1, <1>2, <1>3, <1>4

\* What their fields hold.
LEMMA OpFields ==
  ASSUME NEW o \in Op
  PROVE  /\ \A e, g : /\ Fresh(e, g).stage = g /\ Fresh(e, g).e = e
                      /\ Fresh(e, g).i = 1 /\ Fresh(e, g).known = "unknown"
         /\ Idle.stage = "idle" /\ Idle.known = "unknown"
         /\ \A g, i : /\ At(o, g, i).stage = g /\ At(o, g, i).e = o.e
                      /\ At(o, g, i).i = i /\ At(o, g, i).known = o.known
         /\ Done(o, "unknown") = Idle
         /\ \A k : k # "unknown" => Done(o, k).stage = "done" /\ Done(o, k).e = o.e /\ Done(o, k).known = k
         /\ \A y : ProofOf(o, y).stage = "proof" /\ ProofOf(o, y).e = o.e /\ ProofOf(o, y).i = 1
         /\ \A k : Reported(o, k).stage = "proof" /\ Reported(o, k).e = o.e /\ Reported(o, k).i = 1
         /\ \A n : Abandoned(o, n).stage = "abort" /\ Abandoned(o, n).e = o.e /\ Abandoned(o, n).known = o.known
         /\ Prepared(o).stage = "send" /\ Prepared(o).e = o.e /\ Prepared(o).i = o.i + 1 /\ Prepared(o).known = o.known
         /\ \A k : /\ Read(o, k).stage = o.stage /\ Read(o, k).e = o.e
                   /\ Read(o, k).i = o.i + 1 /\ Read(o, k).known = k
         /\ \A k : Finalizing(o, k).stage = "finalize" /\ Finalizing(o, k).e = o.e /\ Finalizing(o, k).known = k
         /\ AbortingReported(o).stage = "abort_reported" /\ AbortingReported(o).known = "unknown"
<1>1. \A e, g : /\ Fresh(e, g).stage = g /\ Fresh(e, g).e = e
               /\ Fresh(e, g).i = 1 /\ Fresh(e, g).known = "unknown"
  BY Zenon DEF Fresh
<1>2. Idle.stage = "idle" /\ Idle.known = "unknown"
  BY Zenon DEF Idle, Fresh
<1>3. \A g, i : /\ At(o, g, i).stage = g /\ At(o, g, i).e = o.e
               /\ At(o, g, i).i = i /\ At(o, g, i).known = o.known
  BY Zenon DEF At, Op
<1>4. Done(o, "unknown") = Idle
  BY Zenon DEF Done
<1>5. \A k : k # "unknown" => Done(o, k).stage = "done" /\ Done(o, k).e = o.e /\ Done(o, k).known = k
  BY Zenon DEF Done, Fresh
<1>6. \A y : ProofOf(o, y).stage = "proof" /\ ProofOf(o, y).e = o.e /\ ProofOf(o, y).i = 1
  BY Zenon DEF ProofOf, Op
<1>7. \A k : Reported(o, k).stage = "proof" /\ Reported(o, k).e = o.e /\ Reported(o, k).i = 1
  BY Zenon DEF Reported, ProofOf, Op
<1>8. \A n : Abandoned(o, n).stage = "abort" /\ Abandoned(o, n).e = o.e /\ Abandoned(o, n).known = o.known
  BY Zenon DEF Abandoned, Op
<1>9. Prepared(o).stage = "send" /\ Prepared(o).e = o.e /\ Prepared(o).i = o.i + 1 /\ Prepared(o).known = o.known
  BY Zenon DEF Prepared, Op
<1>10. \A k : /\ Read(o, k).stage = o.stage /\ Read(o, k).e = o.e
             /\ Read(o, k).i = o.i + 1 /\ Read(o, k).known = k
  BY Zenon DEF Read, Op
<1>11. \A k : Finalizing(o, k).stage = "finalize" /\ Finalizing(o, k).e = o.e /\ Finalizing(o, k).known = k
  BY Zenon DEF Finalizing, Fresh
<1>12. AbortingReported(o).stage = "abort_reported" /\ AbortingReported(o).known = "unknown"
  BY Zenon DEF AbortingReported, Fresh
<1> QED
  BY <1>1, <1>2, <1>3, <1>4, <1>5, <1>6, <1>7, <1>8, <1>9, <1>10, <1>11, <1>12

\* What comes of a proof: nothing, or an operation that goes by the outcome.
LEMMA ConcludedForms ==
  ASSUME NEW o \in Op, NEW k \in Known
  PROVE  /\ Concluded(o, k) \in Op
         /\ \/ Concluded(o, k).stage \in {"idle", "abort_reported"} /\ Concluded(o, k).known = "unknown"
            \/ /\ Concluded(o, k).stage \in {"done", "finalize"}
               /\ Concluded(o, k).e = o.e
               /\ Concluded(o, k).known = k
               /\ k # "unknown"
<1>1. o.why \in {"stale", "unstarted", "local"} /\ "unknown" \in Known
  BY Zenon DEF Op, Known
<1>2. /\ Done(o, k) \in Op /\ Done(o, "unknown") \in Op /\ Finalizing(o, k) \in Op
      /\ AbortingReported(o) \in Op /\ Idle \in Op
  <2>1. o.e \in Executions /\ 0 \in 0 .. NumBranches /\ 1 \in 1 .. NumBranches + 1 /\ "idle" \in Stages
    BY TxAssumption DEF Op, Stages, TxAssumption
  <2> QED
    BY Zenon, <1>1, <2>1, OpForms
<1>3. Concluded(o, k) \in {Done(o, k), Done(o, "unknown"), Finalizing(o, k), AbortingReported(o)}
  BY Zenon, <1>1 DEF Concluded
<1>4. Concluded(o, k) = Finalizing(o, k) => k # "unknown" \/ Concluded(o, k) \in {Done(o, k), AbortingReported(o)}
  <2>1. CASE o.why = "stale"
    BY Zenon, <2>1 DEF Concluded
  <2>2. CASE o.why = "unstarted"
    <3>1. k = "unknown" => Concluded(o, k) = Done(o, "unknown")
      BY Zenon, <2>2 DEF Concluded
    <3> QED
      BY Zenon, <3>1
  <2>3. CASE o.why = "local"
    BY Zenon, <2>3 DEF Concluded
  <2> QED
    BY Zenon, <1>1, <2>1, <2>2, <2>3
<1> QED
  BY <1>2, <1>3, <1>4, OpFields

----------------------------------------------------------------------------
\* The receipts a step can leave have their types.
LEMMA Receipts ==
  /\ {"prepared", "rejected", "unknown"} \subseteq Halves
  /\ "unknown" \in Finals
  /\ \A k : DecisionFor(k) \in Decisions
  /\ Decisions \subseteq Finals
BY Zenon DEF Halves, Finals, DecisionFor, Decisions

\* Every step is a transaction of the store or leaves it alone.
LEMMA NextStore ==
  ASSUME TxInv, Next
  PROVE  StoreNext \/ UNCHANGED storeVars
<1>1. ASSUME NEW q \in Requests, HostReserve(q)
      PROVE  StoreNext
  BY Zenon, <1>1 DEF HostReserve, StoreNext
<1>2. ASSUME NEW e \in Executions, HostAdvance(e) \/ DatabaseEnds(e) \/ LeaseEnds(e) \/ Reconcile(e)
      PROVE  StoreNext
  BY Zenon, <1>2 DEF HostAdvance, DatabaseEnds, LeaseEnds, Reconcile, StoreNext
<1>3. ASSUME NEW p \in Ops, NEW e \in Executions, Execute(p, e)
      PROVE  StoreNext \/ UNCHANGED storeVars
  BY Zenon, <1>3 DEF Execute, StoreNext
<1>4. ASSUME NEW p \in Ops, OpStep(p)
      PROVE  StoreNext \/ UNCHANGED storeVars
  <2>1. op[p] \in Op /\ op[p].e \in Executions
    BY Zenon DEF TxInv, TypeOK, Op
  <2>2. op[p].stage \in {"sent", "ending"} => op[p].i \in Branches
    BY Zenon DEF TxInv, OpsOK, OpHolds
  <2>3. CASE \/ SendHalf(p) \/ ContextEnds(p) \/ RunLocal(p) \/ LocalReturns(p) \/ ReadProof(p)
             \/ Finalize(p) \/ Leave(p) \/ Crash(p)
    BY Zenon, <2>3 DEF SendHalf, ContextEnds, RunLocal, LocalReturns, ReadProof, Finalize, Leave, Crash
  <2>4. CASE HalfReturns(p)
    BY Zenon, <2>1, <2>2, <2>4, Receipts DEF HalfReturns, StoreNext
  <2>5. CASE UnitOfWork(p)
    BY Zenon, <2>1, <2>5 DEF UnitOfWork, StoreNext
  <2>6. CASE AbortUnstarted(p) \/ AbortReported(p)
    BY Zenon, <2>1, <2>6 DEF AbortUnstarted, AbortReported, StoreNext
  <2>7. CASE FinalReturns(p)
    BY Zenon, <2>1, <2>2, <2>7, Receipts DEF FinalReturns, StoreNext
  <2> QED
    BY Zenon, <1>4, <2>3, <2>4, <2>5, <2>6, <2>7 DEF OpStep
<1>5. ASSUME NEW s \in Slots, HalfArrives(s) \/ Check(s)
      PROVE  UNCHANGED storeVars
  BY Zenon, <1>5 DEF HalfArrives, Check
<1>6. ASSUME NEW c \in Calls, EndArrives(c) \/ AfterRecovery(c)
      PROVE  StoreNext \/ UNCHANGED storeVars
  <2>1. c[1][1] \in Executions /\ c[1][2] \in Branches /\ c[2] \in Finals
    BY Zenon, SlotPairs, Receipts DEF Calls
  <2> QED
    BY Zenon, <1>6, <2>1 DEF EndArrives, AfterRecovery, StoreNext
<1> QED
  BY Zenon, <1>1, <1>2, <1>3, <1>4, <1>5, <1>6 DEF Next

\* The broker forgets nothing it was sent, except a half it rejected.
LEMMA BrokerMoves ==
  ASSUME TxInv, Next
  PROVE  /\ held \subseteq held'
         /\ ended \subseteq ended'
         /\ Arrived'
         /\ caps' \in SUBSET Executions
         /\ sends' \in SUBSET Slots /\ held' \in SUBSET Slots
         /\ calls' \in SUBSET Calls /\ ended' \in SUBSET Calls
<1> DEFINE Goal == /\ held \subseteq held'
                   /\ ended \subseteq ended'
                   /\ Arrived'
                   /\ sends' \in SUBSET Slots /\ held' \in SUBSET Slots
                   /\ calls' \in SUBSET Calls /\ ended' \in SUBSET Calls
<1>0. /\ held \subseteq sends /\ ended \subseteq calls
      /\ sends \in SUBSET Slots /\ held \in SUBSET Slots /\ calls \in SUBSET Calls /\ ended \in SUBSET Calls
      /\ caps \in SUBSET Executions
  BY Zenon DEF TxInv, TypeOK, Arrived
<1>1. ASSUME UNCHANGED brokerVars
      PROVE  Goal
  BY Zenon, <1>0, <1>1 DEF brokerVars, Arrived
<1>2. ASSUME NEW q \in Requests, HostReserve(q)
      PROVE  Goal /\ caps' \in SUBSET Executions
  <2>1. <<q, 1>> \in Executions
    BY SlotPairs, TxAssumption DEF Fences, TxAssumption
  <2> QED
    BY Zenon, <1>0, <1>1, <1>2, <2>1 DEF HostReserve, Delivered
<1>3. ASSUME NEW e \in Executions, HostAdvance(e)
      PROVE  Goal /\ caps' \in SUBSET Executions
  <2>1. e[1] \in Requests /\ e[2] \in Fences
    BY Zenon, SlotPairs
  <2>2. <<e[1], e[2] + 1>> \in Executions
    BY <1>3, <2>1, SlotPairs, TxAssumption DEF HostAdvance, Advance, Fences, TxAssumption
  <2> QED
    BY Zenon, <1>0, <1>1, <1>3, <2>2 DEF HostAdvance, Delivered
<1>4. ASSUME NEW e \in Executions, DatabaseEnds(e) \/ LeaseEnds(e) \/ Reconcile(e) \/ \E p \in Ops : Execute(p, e)
      PROVE  Goal /\ caps' \in SUBSET Executions
  <2>1. UNCHANGED <<caps, brokerVars>>
    BY Zenon, <1>4 DEF DatabaseEnds, LeaseEnds, Reconcile, Execute, hostVars
  <2> QED
    BY Zenon, <1>0, <1>1, <2>1
<1>5. ASSUME NEW p \in Ops, OpStep(p)
      PROVE  Goal /\ caps' \in SUBSET Executions
  <2>0. op[p] \in Op /\ op[p].e \in Executions /\ op[p].i \in 1 .. NumBranches + 1
    BY Zenon DEF TxInv, TypeOK, Op
  <2>1. CASE \/ ContextEnds(p) \/ RunLocal(p) \/ UnitOfWork(p) \/ LocalReturns(p) \/ ReadProof(p)
             \/ AbortUnstarted(p) \/ AbortReported(p) \/ FinalReturns(p) \/ Leave(p) \/ Crash(p)
    <3>1. UNCHANGED <<caps, brokerVars>>
      BY Zenon, <2>1 DEF ContextEnds, RunLocal, UnitOfWork, LocalReturns, ReadProof, AbortUnstarted,
                  AbortReported, FinalReturns, Leave, Crash, hostVars
    <3> QED
      BY Zenon, <1>0, <1>1, <3>1
  <2>2. CASE SendHalf(p)
    <3>1. <<op[p].e, op[p].i>> \in Slots
      BY <2>0, <2>2, SlotPairs DEF SendHalf, Branches
    <3>2. UNCHANGED <<caps, held, calls, ended>> /\ sends' = sends \cup {<<op[p].e, op[p].i>>}
      BY Zenon, <2>2 DEF SendHalf, hostVars
    <3> QED
      BY Zenon, <1>0, <3>1, <3>2 DEF Arrived
  <2>3. CASE HalfReturns(p)
    <3>1. /\ UNCHANGED <<caps, held, calls, ended>>
          /\ sends' = sends \/ (sends' = sends \ {<<op[p].e, op[p].i>>} /\ <<op[p].e, op[p].i>> \notin held)
      BY Zenon, <2>3 DEF HalfReturns, hostVars
    <3> QED
      BY Zenon, <1>0, <3>1 DEF Arrived
  <2>4. CASE Finalize(p)
    <3>1. UNCHANGED <<caps, sends, held, ended>>
      BY Zenon, <2>4 DEF Finalize, hostVars
    <3>2. op[p].i <= op[p].n => op[p].i \in Branches
      BY <2>0, TxAssumption DEF Op, Branches, TxAssumption
    <3>3. op[p].i <= op[p].n => FinalCall(op[p]) \in Calls
      BY Zenon, <2>0, <3>2, SlotPairs, Receipts DEF FinalCall, Calls
    <3>4. calls' = calls \/ (op[p].i <= op[p].n /\ calls' = calls \cup {FinalCall(op[p])})
      BY Zenon, <2>4 DEF Finalize
    <3> QED
      BY Zenon, <1>0, <3>1, <3>3, <3>4 DEF Arrived
  <2> QED
    BY Zenon, <1>5, <2>1, <2>2, <2>3, <2>4 DEF OpStep
<1>6. ASSUME NEW s \in Slots, HalfArrives(s)
      PROVE  Goal /\ caps' \in SUBSET Executions
  BY Zenon, <1>0, <1>6 DEF HalfArrives, Arrived, hostVars
<1>7. ASSUME NEW s \in Slots, Check(s)
      PROVE  Goal /\ caps' \in SUBSET Executions
  <2>1. \A k : <<s, DecisionFor(k), "check">> \in Calls
    BY Zenon, Receipts DEF Calls
  <2> QED
    BY Zenon, <1>0, <1>7, <2>1 DEF Check, Arrived, hostVars
<1>8. ASSUME NEW c \in Calls, EndArrives(c) \/ AfterRecovery(c)
      PROVE  Goal /\ caps' \in SUBSET Executions
  <2>1. UNCHANGED <<caps, sends, held, calls>> /\ (ended' = ended \/ (c \in calls /\ ended' = ended \cup {c}))
    BY Zenon, <1>8 DEF EndArrives, AfterRecovery, hostVars, brokerVars
  <2> QED
    BY Zenon, <1>0, <2>1 DEF Arrived
<1> QED
  BY Zenon, <1>2, <1>3, <1>4, <1>5, <1>6, <1>7, <1>8 DEF Next

-----------------------------------------------------------------------------

\* What an operation knows survives a step that neither runs its execution nor
\* leaves a half receipt for it.
LEMMA OpFrame ==
  ASSUME NEW o \in Op, OpHolds(o, started, ran, held, half, state),
         started \subseteq started', ran \subseteq ran', held \subseteq held',
         \A e \in Executions : state[e] \in {"committed", "aborted"} => state'[e] = state[e],
         o.stage \in {"send", "sent"} =>
           o.e \notin ran' /\ \A b \in Branches : half'[<<o.e, b>>] = half[<<o.e, b>>]
  PROVE  OpHolds(o, started', ran', held', half', state')
<1>1. o.e \in Executions /\ o.known \in Known
  BY Zenon DEF Op
<1>2. o.known # "unknown" /\ state[o.e] = o.known => state'[o.e] = o.known
  BY Zenon, <1>1 DEF Known
<1> QED
  BY Zenon, <1>1, <1>2 DEF OpHolds

\* A half receipt is left for one slot.
LEMMA HalfMoves ==
  ASSUME StoreTypeOK, NEW e \in Executions, NEW b \in Branches, NEW h, RecordHalf(e, b, h)
  PROVE  \A x \in Executions, d \in Branches :
           <<x, d>> # <<e, b>> => half'[<<x, d>>] = half[<<x, d>>]
BY Zenon, SlotPairs DEF RecordHalf, StoreTypeOK

\* The operations other than p, when p moves to x.
LEMMA OthersKept ==
  ASSUME TxInv, NEW p \in Ops, NEW x \in Op, Step(p, x),
         started \subseteq started', held \subseteq held',
         \A e \in Executions : state[e] \in {"committed", "aborted"} => state'[e] = state[e],
         ran' = ran \/ (ran' = ran \cup {op[p].e} /\ op[p].stage = "send"),
         half' = half \/ (op[p].stage = "sent" /\ \E h \in Halves : RecordHalf(op[p].e, op[p].i, h)),
         OpHolds(x, started', ran', held', half', state'),
         x.stage \in {"send", "sent"} =>
           \A r \in Ops : r # p /\ op[r].stage \in {"send", "sent"} => op[r].e # x.e
  PROVE  op' \in [Ops -> Op] /\ OpsOK' /\ OneOwner'
<1>1. op \in [Ops -> Op] /\ OpsOK /\ OneOwner
  BY Zenon DEF TxInv, TypeOK
<1>2. op' \in [Ops -> Op] /\ op'[p] = x /\ \A r \in Ops : r # p => op'[r] = op[r]
  BY Zenon, <1>1 DEF Step
<1>3. ASSUME NEW r \in Ops, r # p
      PROVE  OpHolds(op[r], started', ran', held', half', state')
  <2>1. op[r] \in Op /\ op[p] \in Op /\ op[r].e \in Executions /\ op[p].e \in Executions
    BY Zenon, <1>1 DEF Op
  <2>2. OpHolds(op[r], started, ran, held, half, state) /\ OpHolds(op[p], started, ran, held, half, state)
    BY Zenon, <1>1 DEF OpsOK
  <2>3. op[r].stage \in {"send", "sent"} /\ op[p].stage \in {"send", "sent"} => op[r].e # op[p].e
    BY Zenon, <1>1, <1>3 DEF OneOwner
  <2>4. op[r].stage \in {"send", "sent"} => op[r].e \notin ran'
    BY Zenon, <2>2, <2>3 DEF OpHolds
  <2>5. op[r].stage \in {"send", "sent"} => \A b \in Branches : half'[<<op[r].e, b>>] = half[<<op[r].e, b>>]
    <3>1. CASE half' = half
      BY Zenon, <3>1
    <3>2. CASE op[p].stage = "sent" /\ \E h \in Halves : RecordHalf(op[p].e, op[p].i, h)
      <4>1. PICK h \in Halves : RecordHalf(op[p].e, op[p].i, h)
        BY Zenon, <3>2
      <4>2. op[p].i \in Branches
        BY Zenon, <2>2, <3>2 DEF OpHolds
      <4>3. \A z \in Executions, d \in Branches :
              <<z, d>> # <<op[p].e, op[p].i>> => half'[<<z, d>>] = half[<<z, d>>]
        BY Zenon, <2>1, <4>1, <4>2, HalfMoves DEF TxInv, StoreInv
      <4> QED
        BY Zenon, <2>1, <2>3, <3>2, <4>3
    <3> QED
      BY Zenon, <3>1, <3>2
  <2> QED
    BY Zenon, <2>1, <2>2, <2>4, <2>5, OpFrame
<1>4. OpsOK'
  BY Zenon, <1>2, <1>3 DEF OpsOK
<1>5. OneOwner'
  BY <1>1, <1>2 DEF OneOwner
<1> QED
  BY Zenon, <1>2, <1>4, <1>5

\* The operations when none of them moves and no half receipt is left.
LEMMA AllKept ==
  ASSUME TxInv, UNCHANGED <<op, ran, half>>,
         started \subseteq started', held \subseteq held',
         \A e \in Executions : state[e] \in {"committed", "aborted"} => state'[e] = state[e]
  PROVE  op' \in [Ops -> Op] /\ OpsOK' /\ OneOwner'
<1>1. op \in [Ops -> Op] /\ OpsOK /\ OneOwner
  BY Zenon DEF TxInv, TypeOK
<1>2. ASSUME NEW r \in Ops
      PROVE  OpHolds(op[r], started', ran', held', half', state')
  <2>1. op[r] \in Op /\ OpHolds(op[r], started, ran, held, half, state)
    BY Zenon, <1>1 DEF OpsOK
  <2>2. op[r].stage \in {"send", "sent"} => op[r].e \notin ran
    BY Zenon, <2>1 DEF OpHolds
  <2> QED
    BY Zenon, <2>1, <2>2, OpFrame
<1> QED
  BY Zenon, <1>1, <1>2 DEF OpsOK, OneOwner

\* A free slot, and an operation done with its proof, know what they must.
LEMMA QuietHolds ==
  ASSUME NEW x \in Op, NEW sd, NEW rn, NEW hd, NEW hf, NEW st,
         \/ x.stage \in {"idle", "abort", "abort_reported"} /\ x.known = "unknown"
         \/ x.stage \in {"done", "finalize"} /\ x.known # "unknown" /\ st[x.e] = x.known
         \/ x.stage = "proof" /\ x.i = 1
  PROVE  OpHolds(x, sd, rn, hd, hf, st)
<1>1. 1 \in Branches
  BY TxAssumption DEF Branches, TxAssumption
<1> QED
  BY Zenon, <1>1 DEF OpHolds

\* One read of both rows of a slot proves what the execution row says.
LEMMA EvidenceProves ==
  ASSUME StoreInv, NEW e \in Executions, NEW b \in Branches
  PROVE  /\ Evidence(e, b) \in Known
         /\ Evidence(e, b) # "unknown" => state[e] = Evidence(e, b)
BY Zenon DEF StoreInv, Rows, Evidence, Resolve, Known

\* Every step leaves the operations with what they must know, and an execution
\* with one owner.
LEMMA OpsStep ==
  ASSUME TxInv, Next
  PROVE  op' \in [Ops -> Op] /\ OpsOK' /\ OneOwner'
<1> DEFINE Goal == op' \in [Ops -> Op] /\ OpsOK' /\ OneOwner'
<1>0. /\ started \subseteq started' /\ held \subseteq held'
      /\ \A e \in Executions : state[e] \in {"committed", "aborted"} => state'[e] = state[e]
  BY Zenon, NextStore, StoreMoves, BrokerMoves DEF TxInv
<1>1. ASSUME UNCHANGED <<op, ran, half>>
      PROVE  Goal
  BY Zenon, <1>0, <1>1, AllKept
<1>2. ASSUME NEW p \in Ops, NEW x \in Op, Step(p, x), UNCHANGED <<ran, half>>,
             OpHolds(x, started', ran', held', half', state'), x.stage \notin {"send", "sent"}
      PROVE  Goal
  BY Zenon, <1>0, <1>2, OthersKept
<1>3. ASSUME NEW q \in Requests, HostReserve(q)
      PROVE  Goal
  BY Zenon, <1>1, <1>3 DEF HostReserve, Reserve, NewExecution
<1>4. ASSUME NEW e \in Executions, HostAdvance(e)
      PROVE  Goal
  BY Zenon, <1>1, <1>4 DEF HostAdvance, Advance, NewExecution
<1>5. ASSUME NEW e \in Executions, DatabaseEnds(e) \/ LeaseEnds(e) \/ Reconcile(e)
      PROVE  Goal
  BY Zenon, <1>1, <1>5 DEF DatabaseEnds, HostCommitDone, HostRolledBack, LeaseEnds, Expire, Reconcile, Abort, hostVars
<1>6. ASSUME NEW s \in Slots, HalfArrives(s) \/ Check(s)
      PROVE  Goal
  BY Zenon, <1>1, <1>6 DEF HalfArrives, Check, storeVars, hostVars
<1>7. ASSUME NEW c \in Calls, EndArrives(c) \/ AfterRecovery(c)
      PROVE  Goal
  BY Zenon, <1>1, <1>7 DEF EndArrives, AfterRecovery, RecordFinal, storeVars, hostVars
<1>8. ASSUME NEW p \in Ops, NEW e \in Executions, Execute(p, e)
      PROVE  Goal
  <2> DEFINE o == Fresh(e, "send")
  <2>1. o \in Op /\ ProofOf(o, "stale") \in Op
    <3>1. 0 \in 0 .. NumBranches /\ 1 \in 1 .. NumBranches + 1 /\ "send" \in Stages /\ "unknown" \in Known
      BY TxAssumption DEF Stages, Known, TxAssumption
    <3>2. op[p] \in Op
      BY Zenon DEF TxInv, TypeOK
    <3>3. o \in Op
      BY Zenon, <3>1, <3>2, OpForms
    <3> QED
      BY Zenon, <3>1, <3>3, OpForms
  <2>2. UNCHANGED <<ran, half>>
    BY Zenon, <1>8 DEF Execute, BeginPrepare, storeVars, hostVars
  <2>3. CASE UNCHANGED op
    BY Zenon, <1>1, <2>2, <2>3
  <2>4. CASE Step(p, ProofOf(o, "stale"))
    <3>1. ProofOf(o, "stale").stage = "proof" /\ ProofOf(o, "stale").i = 1
      BY <2>1, OpFields
    <3>2. OpHolds(ProofOf(o, "stale"), started', ran', held', half', state')
      BY Zenon, <2>1, <3>1, QuietHolds
    <3> QED
      BY Zenon, <1>2, <2>1, <2>2, <2>4, <3>1, <3>2
  <2>5. CASE Step(p, o) /\ BeginPrepare(e)
    <3>1. o.stage = "send" /\ o.e = e /\ o.i = 1 /\ o.known = "unknown"
      BY <2>1, OpFields
    <3>2. e \notin started /\ e \in started' /\ state[e] = "prepared" /\ state' = state /\ half' = half /\ ran' = ran
      BY Zenon, <2>2, <2>5 DEF BeginPrepare, CanBegin
    <3>3. e \notin ran
      BY Zenon, <3>2 DEF TxInv, Confirmed
    <3>4. \A b \in Branches : half[<<e, b>>] = "not_attempted"
      BY Zenon, <3>2 DEF TxInv, Unattempted
    <3>5. \A b \in Branches : ~(b < 1)
      BY DEF Branches
    <3>6. OpHolds(o, started', ran', held', half', state')
      BY Zenon, <3>1, <3>2, <3>3, <3>4, <3>5 DEF OpHolds
    <3>7. \A r \in Ops : op[r].stage \in {"send", "sent"} => op[r].e # e
      BY Zenon, <3>2 DEF TxInv, OpsOK, OpHolds
    <3> HIDE DEF o
    <3> QED
      BY Zenon, <1>0, <2>1, <2>2, <2>5, <3>1, <3>6, <3>7, OthersKept
  <2> QED
    BY Zenon, <1>8, <2>3, <2>4, <2>5 DEF Execute
<1>9. ASSUME NEW p \in Ops, OpStep(p)
      PROVE  Goal
  <2> DEFINE o == op[p]
  <2>0. /\ o \in Op /\ OpHolds(o, started, ran, held, half, state)
        /\ o.e \in Executions /\ o.i \in 1 .. NumBranches + 1 /\ o.n \in 0 .. NumBranches /\ o.known \in Known
    BY Zenon DEF TxInv, TypeOK, OpsOK, Op
  <2>a. /\ 0 \in 0 .. NumBranches /\ 1 \in 1 .. NumBranches + 1 /\ "unknown" \in Known /\ "aborted" \in Known
        /\ {"idle", "sent", "local", "ending", "finalize"} \subseteq Stages
    BY TxAssumption DEF Stages, Known, TxAssumption
  <2>b. Idle \in Op /\ Idle.stage = "idle" /\ Idle.known = "unknown"
    BY Zenon, <2>0, <2>a, OpForms, OpFields
  <2>c. ASSUME Step(p, Idle), UNCHANGED <<ran, half>>
        PROVE  Goal
    BY Zenon, <1>2, <2>b, <2>c, QuietHolds
  <2>1. CASE SendHalf(p)
    <3>1. o.stage = "send" /\ o.i \in Branches /\ Step(p, At(o, "sent", o.i))
          /\ UNCHANGED <<ran, half, started, state>>
      BY <2>0, <2>1 DEF SendHalf, Branches, storeVars, hostVars
    <3>2. At(o, "sent", o.i) \in Op
      BY Zenon, <2>0, <2>a, OpForms
    <3>3. /\ At(o, "sent", o.i).stage = "sent" /\ At(o, "sent", o.i).e = o.e
          /\ At(o, "sent", o.i).i = o.i /\ At(o, "sent", o.i).known = o.known
      BY <2>0, OpFields
    <3>4. OpHolds(At(o, "sent", o.i), started', ran', held', half', state')
      BY Zenon, <1>0, <2>0, <3>1, <3>3 DEF OpHolds
    <3>5. \A r \in Ops : r # p /\ op[r].stage \in {"send", "sent"} => op[r].e # o.e
      BY Zenon, <3>1 DEF TxInv, OneOwner
    <3> QED
      BY Zenon, <1>0, <3>1, <3>2, <3>3, <3>4, <3>5, OthersKept
  <2>2. CASE ContextEnds(p)
    <3>1. Step(p, Abandoned(o, o.n)) /\ o.known = "unknown" /\ UNCHANGED <<ran, half>>
      BY Zenon, <2>0, <2>2 DEF ContextEnds, OpHolds, storeVars, hostVars
    <3>2. Abandoned(o, o.n) \in Op /\ Abandoned(o, o.n).stage = "abort" /\ Abandoned(o, o.n).known = "unknown"
      <4>1. Abandoned(o, o.n) \in Op
        BY Zenon, <2>0, OpForms
      <4> QED
        BY <2>0, <3>1, <4>1, OpFields
    <3> QED
      BY Zenon, <1>2, <3>1, <3>2, QuietHolds
  <2>3. CASE HalfReturns(p)
    <3>1. /\ o.stage = "sent" /\ o.i \in Branches /\ o.known = "unknown"
          /\ UNCHANGED ran
          /\ half' = half \/ \E h \in Halves : RecordHalf(o.e, o.i, h)
      BY Zenon, <2>0, <2>3, Receipts DEF HalfReturns, OpHolds, storeVars, hostVars
    <3>2. \/ \E n \in 0 .. NumBranches : Step(p, Abandoned(o, n))
          \/ Step(p, Prepared(o)) /\ <<o.e, o.i>> \in held /\ RecordHalf(o.e, o.i, "prepared")
      <4>1. o.i \in 0 .. NumBranches
        BY <3>1 DEF Branches
      <4> QED
        BY Zenon, <2>0, <2>3, <4>1 DEF HalfReturns
    <3>3. ASSUME NEW n \in 0 .. NumBranches, Step(p, Abandoned(o, n))
          PROVE  Goal
      <4>1. Abandoned(o, n) \in Op /\ Abandoned(o, n).stage = "abort" /\ Abandoned(o, n).known = "unknown"
        <5>1. Abandoned(o, n) \in Op
          BY Zenon, <2>0, OpForms
        <5> QED
          BY <2>0, <3>1, <5>1, OpFields
      <4>2. OpHolds(Abandoned(o, n), started', ran', held', half', state')
        BY Zenon, <4>1, QuietHolds
      <4> QED
        BY Zenon, <1>0, <3>1, <3>3, <4>1, <4>2, OthersKept
    <3>4. CASE Step(p, Prepared(o)) /\ <<o.e, o.i>> \in held /\ RecordHalf(o.e, o.i, "prepared")
      <4>1. Prepared(o) \in Op
        BY Zenon, <2>0, <2>a, <3>1, OpForward
      <4>2. /\ Prepared(o).stage = "send" /\ Prepared(o).e = o.e
            /\ Prepared(o).i = o.i + 1 /\ Prepared(o).known = o.known
        BY Zenon, <2>0, OpFields
      <4>3. \A d \in Branches : d # o.i => half'[<<o.e, d>>] = half[<<o.e, d>>]
        BY <2>0, <3>1, <3>4, HalfMoves DEF TxInv, StoreInv
      <4>4. \A d \in Branches : d < o.i + 1 => <<o.e, d>> \in held'
        BY <1>0, <2>0, <3>1, <3>4 DEF OpHolds, Branches
      <4>5. \A d \in Branches : d >= o.i + 1 => half'[<<o.e, d>>] = "not_attempted"
        BY <2>0, <3>1, <4>3 DEF OpHolds, Branches
      <4>6. OpHolds(Prepared(o), started', ran', held', half', state')
        BY Zenon, <1>0, <2>0, <3>1, <4>2, <4>4, <4>5 DEF OpHolds
      <4>7. \A r \in Ops : r # p /\ op[r].stage \in {"send", "sent"} => op[r].e # o.e
        BY Zenon, <3>1 DEF TxInv, OneOwner
      <4> QED
        BY Zenon, <1>0, <3>1, <3>4, <4>1, <4>2, <4>6, <4>7, OthersKept
    <3> QED
      BY Zenon, <3>2, <3>3, <3>4
  <2>4. CASE RunLocal(p)
    <3>1. o.stage = "send" /\ Step(p, At(o, "local", 1)) /\ ran' = ran \cup {o.e} /\ half' = half /\ o.known = "unknown"
      BY Zenon, <2>0, <2>4 DEF RunLocal, OpHolds, storeVars
    <3>2. At(o, "local", 1) \in Op
      BY Zenon, <2>0, <2>a, OpForms
    <3>3. At(o, "local", 1).stage = "local" /\ At(o, "local", 1).e = o.e /\ At(o, "local", 1).known = "unknown"
      BY <2>0, <3>1, OpFields
    <3>4. OpHolds(At(o, "local", 1), started', ran', held', half', state')
      BY Zenon, <3>1, <3>3 DEF OpHolds
    <3> QED
      BY Zenon, <1>0, <3>1, <3>2, <3>3, <3>4, OthersKept
  <2>5. CASE UnitOfWork(p)
    BY Zenon, <1>1, <2>5 DEF UnitOfWork, Bind, CommitWitness, HostCommitSent, hostVars
  <2>6. CASE LocalReturns(p)
    <3>1. PICK k \in Known : Step(p, Reported(o, k))
      BY Zenon, <2>6 DEF LocalReturns
    <3>2. Reported(o, k) \in Op /\ Reported(o, k).stage = "proof" /\ Reported(o, k).i = 1
      BY <2>0, <2>a, OpForms, OpFields
    <3>3. UNCHANGED <<ran, half>>
      BY Zenon, <2>6 DEF LocalReturns, storeVars, hostVars
    <3> QED
      BY Zenon, <1>2, <3>1, <3>2, <3>3, QuietHolds
  <2>7. CASE ReadProof(p)
    <3> DEFINE k == Agreed(o, Evidence(o.e, o.i))
    <3>1. o.stage = "proof" /\ o.i \in Branches /\ UNCHANGED <<ran, half, state>>
      BY Zenon, <2>0, <2>7 DEF ReadProof, OpHolds, storeVars, hostVars
    <3>2. k \in Known /\ (k # "unknown" => state[o.e] = k)
      BY Zenon, <2>0, <2>a, <3>1, EvidenceProves DEF Agreed, TxInv
    <3>3. ASSUME NEW z \in Known, z # "unknown" => state[o.e] = z, Step(p, Concluded(o, z))
          PROVE  Goal
      <4>1. /\ Concluded(o, z) \in Op
            /\ \/ Concluded(o, z).stage \in {"idle", "abort_reported"} /\ Concluded(o, z).known = "unknown"
               \/ /\ Concluded(o, z).stage \in {"done", "finalize"} /\ Concluded(o, z).known # "unknown"
                  /\ state'[Concluded(o, z).e] = Concluded(o, z).known
        BY <2>0, <3>1, <3>3, ConcludedForms
      <4>2. OpHolds(Concluded(o, z), started', ran', held', half', state')
        BY Zenon, <4>1, QuietHolds
      <4>3. Concluded(o, z).stage \notin {"send", "sent"}
        BY Zenon, <4>1
      <4> QED
        BY Zenon, <1>2, <3>1, <3>3, <4>1, <4>2, <4>3
    <3>4. CASE o.i < NumBranches /\ Step(p, Read(o, k))
      <4>1. Read(o, k) \in Op /\ o.i + 1 \in Branches
        BY Zenon, <2>0, <3>1, <3>2, <3>4, OpForward
      <4>2. Read(o, k).stage = "proof" /\ Read(o, k).e = o.e /\ Read(o, k).i = o.i + 1 /\ Read(o, k).known = k
        BY <2>0, <3>1, OpFields
      <4>3. OpHolds(Read(o, k), started', ran', held', half', state')
        BY Zenon, <3>1, <3>2, <4>1, <4>2 DEF OpHolds
      <4> QED
        BY Zenon, <1>2, <3>1, <3>4, <4>1, <4>2, <4>3
    <3>5. \/ Step(p, Concluded(o, "unknown"))
          \/ o.i < NumBranches /\ Step(p, Read(o, k))
          \/ Step(p, Concluded(o, k))
      BY Zenon, <2>7 DEF ReadProof
    <3> HIDE DEF k
    <3> QED
      BY Zenon, <2>a, <3>2, <3>3, <3>4, <3>5
  <2>8. CASE AbortUnstarted(p) \/ AbortReported(p)
    <3>1. o.stage \in {"abort", "abort_reported"} /\ o.known = "unknown" /\ UNCHANGED <<ran, half>>
      BY Zenon, <2>0, <2>8 DEF AbortUnstarted, AbortReported, Abort, OpHolds, storeVars, hostVars
    <3>2. Done(o, o.known) = Idle
      BY <2>0, <3>1, OpFields
    <3>3. \/ Step(p, Idle)
          \/ Step(p, ProofOf(o, "unstarted"))
          \/ Step(p, Finalizing(o, "aborted")) /\ Abort(o.e)
      BY Zenon, <2>8, <3>2 DEF AbortUnstarted, AbortReported
    <3>4. CASE Step(p, ProofOf(o, "unstarted"))
      <4>1. ProofOf(o, "unstarted") \in Op /\ ProofOf(o, "unstarted").stage = "proof" /\ ProofOf(o, "unstarted").i = 1
        BY <2>0, <2>a, OpForms, OpFields
      <4> QED
        BY Zenon, <1>2, <3>1, <3>4, <4>1, QuietHolds
    <3>5. CASE Step(p, Finalizing(o, "aborted")) /\ Abort(o.e)
      <4>1. state'[o.e] = "aborted"
        BY Zenon, <2>0, <3>5 DEF Abort, Enter, TxInv, TypeOK, StoreTypeOK
      <4>2. /\ Finalizing(o, "aborted") \in Op /\ Finalizing(o, "aborted").stage = "finalize"
            /\ Finalizing(o, "aborted").e = o.e /\ Finalizing(o, "aborted").known = "aborted"
        <5>1. Finalizing(o, "aborted") \in Op
          BY Zenon, <2>0, <2>a, OpForms
        <5> QED
          BY <2>0, <5>1, OpFields
      <4>3. OpHolds(Finalizing(o, "aborted"), started', ran', held', half', state')
        BY Zenon, <4>1, <4>2, QuietHolds
      <4> QED
        BY Zenon, <1>2, <3>1, <3>5, <4>2, <4>3
    <3> QED
      BY Zenon, <2>c, <3>1, <3>3, <3>4, <3>5
  <2>9. CASE Finalize(p)
    <3>1. /\ o.stage = "finalize" /\ o.known # "unknown" /\ state[o.e] = o.known
          /\ UNCHANGED <<ran, half, state>>
      BY Zenon, <2>0, <2>9 DEF Finalize, OpHolds, storeVars, hostVars
    <3>2. CASE o.i <= o.n /\ Step(p, At(o, "ending", o.i))
      <4>0. At(o, "ending", o.i) \in Op
        BY Zenon, <2>0, <2>a, OpForms
      <4>1. At(o, "ending", o.i) \in Op /\ o.i \in Branches
        BY <2>0, <3>2, <4>0, TxAssumption DEF Branches, TxAssumption
      <4>2. /\ At(o, "ending", o.i).stage = "ending" /\ At(o, "ending", o.i).e = o.e
            /\ At(o, "ending", o.i).i = o.i /\ At(o, "ending", o.i).known = o.known
        BY <2>0, OpFields
      <4>3. OpHolds(At(o, "ending", o.i), started', ran', held', half', state')
        BY Zenon, <3>1, <4>1, <4>2 DEF OpHolds
      <4> QED
        BY Zenon, <1>2, <3>1, <3>2, <4>1, <4>2, <4>3
    <3>3. CASE Step(p, Done(o, o.known))
      <4>1. Done(o, o.known) \in Op
        BY Zenon, <2>0, <2>a, OpForms
      <4>2. Done(o, o.known).stage = "done" /\ Done(o, o.known).e = o.e /\ Done(o, o.known).known = o.known
        BY <2>0, <3>1, OpFields
      <4>3. OpHolds(Done(o, o.known), started', ran', held', half', state')
        BY Zenon, <3>1, <4>1, <4>2, QuietHolds
      <4> QED
        BY Zenon, <1>2, <3>1, <3>3, <4>1, <4>2, <4>3
    <3> QED
      BY Zenon, <2>9, <3>2, <3>3 DEF Finalize
  <2>10. CASE FinalReturns(p)
    <3>1. /\ o.stage = "ending" /\ o.i \in Branches /\ o.known # "unknown" /\ state[o.e] = o.known
          /\ Step(p, At(o, "finalize", o.i + 1)) /\ UNCHANGED <<ran, half, state>>
      BY Zenon, <2>0, <2>10 DEF FinalReturns, RecordFinal, OpHolds, storeVars, hostVars
    <3>2. o.i + 1 \in 1 .. NumBranches + 1
      BY Zenon, <2>0, <2>a, <3>1, OpForward
    <3>3. At(o, "finalize", o.i + 1) \in Op
      BY Zenon, <2>0, <2>a, <3>2, OpForms
    <3>4. /\ At(o, "finalize", o.i + 1).stage = "finalize" /\ At(o, "finalize", o.i + 1).e = o.e
          /\ At(o, "finalize", o.i + 1).known = o.known
      BY <2>0, OpFields
    <3>5. OpHolds(At(o, "finalize", o.i + 1), started', ran', held', half', state')
      BY Zenon, <3>1, <3>3, <3>4, QuietHolds
    <3> QED
      BY Zenon, <1>2, <3>1, <3>3, <3>4, <3>5
  <2>11. CASE Leave(p) \/ Crash(p)
    BY Zenon, <2>c, <2>11 DEF Leave, Crash, storeVars, hostVars
  <2> QED
    BY Zenon, <1>9, <2>1, <2>2, <2>3, <2>4, <2>5, <2>6, <2>7, <2>8, <2>9, <2>10, <2>11 DEF OpStep
<1> QED
  BY Zenon, <1>3, <1>4, <1>5, <1>6, <1>7, <1>8, <1>9 DEF Next

----------------------------------------------------------------------------
\* A host transaction is opened by the unit of work of an operation.
LEMMA BoundByExecutor ==
  ASSUME TxInv, Next, NEW e \in Executions, hostTx[e] = "none", hostTx'[e] = "bound"
  PROVE  \E p \in Ops : op[p].stage = "local" /\ op[p].e = e
<1> USE DEF TxInv, TypeOK, StoreTypeOK
<1>1. ASSUME UNCHANGED hostTx
      PROVE  FALSE
  BY Zenon, <1>1
<1>2. ASSUME NEW q \in Requests, HostReserve(q)
      PROVE  FALSE
  BY Zenon, <1>1, <1>2 DEF HostReserve, Reserve, NewExecution
<1>3. ASSUME NEW x \in Executions, HostAdvance(x) \/ LeaseEnds(x) \/ Reconcile(x)
      PROVE  FALSE
  BY Zenon, <1>1, <1>3 DEF HostAdvance, Advance, NewExecution, LeaseEnds, Expire, Reconcile, Abort
<1>4. ASSUME NEW x \in Executions, DatabaseEnds(x)
      PROVE  FALSE
  BY Zenon, <1>4 DEF DatabaseEnds, HostCommitDone, HostRolledBack
<1>5. ASSUME NEW p \in Ops, NEW x \in Executions, Execute(p, x)
      PROVE  FALSE
  BY Zenon, <1>1, <1>5 DEF Execute, BeginPrepare, storeVars
<1>6. ASSUME NEW p \in Ops, OpStep(p)
      PROVE  op[p].stage = "local" /\ op[p].e = e
  <2>0. op[p].e \in Executions
    BY Zenon DEF Op
  <2>1. CASE UnitOfWork(p)
    BY Zenon, <2>0, <2>1 DEF UnitOfWork, Bind, CommitWitness, HostCommitSent
  <2>2. CASE ~UnitOfWork(p)
    <3>1. UNCHANGED hostTx
      BY Zenon, <1>6, <2>2 DEF OpStep, SendHalf, ContextEnds, HalfReturns, RecordHalf, RunLocal, LocalReturns, ReadProof,
                        AbortUnstarted, AbortReported, Abort, Finalize, FinalReturns, RecordFinal, Leave, Crash, storeVars
    <3> QED
      BY Zenon, <1>1, <3>1
  <2> QED
    BY Zenon, <2>1, <2>2
<1>7. ASSUME NEW s \in Slots, HalfArrives(s) \/ Check(s)
      PROVE  FALSE
  BY Zenon, <1>1, <1>7 DEF HalfArrives, Check, storeVars
<1>8. ASSUME NEW c \in Calls, EndArrives(c) \/ AfterRecovery(c)
      PROVE  FALSE
  BY Zenon, <1>1, <1>8 DEF EndArrives, AfterRecovery, RecordFinal, storeVars
<1> QED
  BY Zenon, <1>2, <1>3, <1>4, <1>5, <1>6, <1>7, <1>8 DEF Next

\* Executors run after every half is held, and nothing commits without one.
LEMMA ConfirmedStep ==
  ASSUME TxInv, Next
  PROVE  Confirmed' /\ ran' \in SUBSET Executions
<1>0. /\ started \subseteq started' /\ held \subseteq held'
      /\ \A e \in Executions : hostTx'[e] # "none" \/ state'[e] = "committed" =>
           hostTx[e] # "none" \/ state[e] = "committed" \/ Bind(e)
  BY Zenon, NextStore, StoreMoves, BrokerMoves DEF TxInv
<1>1. /\ ran \subseteq started /\ ran \in SUBSET Executions
      /\ \A e \in ran : \A b \in Branches : <<e, b>> \in held
      /\ \A e \in Executions : hostTx[e] # "none" \/ state[e] = "committed" => e \in ran
  BY Zenon DEF TxInv, TypeOK, Confirmed
<1>2. ASSUME NEW p \in Ops, RunLocal(p)
      PROVE  /\ op[p].e \in started /\ op[p].e \in Executions
             /\ \A b \in Branches : <<op[p].e, b>> \in held
             /\ ran' = ran \cup {op[p].e}
  <2>1. /\ op[p].e \in Executions /\ OpHolds(op[p], started, ran, held, half, state)
        /\ op[p].stage = "send" /\ op[p].i = NumBranches + 1
    BY Zenon, <1>2 DEF TxInv, TypeOK, OpsOK, Op, RunLocal
  <2>2. \A b \in Branches : b < op[p].i
    BY <2>1, TxAssumption DEF Branches, TxAssumption
  <2> QED
    BY Zenon, <1>2, <2>1, <2>2 DEF OpHolds, RunLocal
<1>3. \/ ran' = ran
      \/ \E p \in Ops : RunLocal(p)
  BY Zenon DEF Next, OpStep, HostReserve, HostAdvance, DatabaseEnds, LeaseEnds, Reconcile, Execute, SendHalf,
         ContextEnds, HalfReturns, UnitOfWork, LocalReturns, ReadProof, AbortUnstarted, AbortReported,
         Finalize, FinalReturns, Leave, Crash, HalfArrives, Check, EndArrives, AfterRecovery, hostVars
<1>4. ASSUME NEW e \in Executions, Bind(e)
      PROVE  e \in ran
  <2>1. hostTx'[e] = "bound" /\ hostTx[e] = "none"
    BY Zenon, <1>4 DEF Bind, CanBind, TxInv, TypeOK, StoreTypeOK
  <2>2. \E p \in Ops : op[p].stage = "local" /\ op[p].e = e
    BY Zenon, <2>1, BoundByExecutor
  <2> QED
    BY Zenon, <2>2 DEF TxInv, OpsOK, OpHolds
<1> QED
  BY Zenon, <1>0, <1>1, <1>2, <1>3, <1>4 DEF Confirmed

----------------------------------------------------------------------------
\* Where half receipts come from: the operation whose Prepare returned, and only
\* for what the broker did with that half.
LEMMA HalfReceipts ==
  ASSUME TxInv, Next
  PROVE  \/ half' = half
         \/ \E p \in Ops, h \in Halves :
              /\ op[p].stage = "sent"
              /\ RecordHalf(op[p].e, op[p].i, h)
              /\ h = "prepared" => <<op[p].e, op[p].i>> \in held
              /\ h = "rejected" => <<op[p].e, op[p].i>> \notin sends'
              /\ h # "rejected" => sends' = sends
              /\ sends' \subseteq sends
<1>1. ASSUME NEW q \in Requests, HostReserve(q)
      PROVE  half' = half
  BY Zenon, <1>1 DEF HostReserve, Reserve, NewExecution
<1>2. ASSUME NEW e \in Executions, HostAdvance(e) \/ DatabaseEnds(e) \/ LeaseEnds(e) \/ Reconcile(e)
      PROVE  half' = half
  BY Zenon, <1>2 DEF HostAdvance, Advance, NewExecution, DatabaseEnds, HostCommitDone, HostRolledBack,
              LeaseEnds, Expire, Reconcile, Abort
<1>3. ASSUME NEW p \in Ops, NEW e \in Executions, Execute(p, e)
      PROVE  half' = half
  BY Zenon, <1>3 DEF Execute, BeginPrepare, storeVars
<1>4. ASSUME NEW p \in Ops, OpStep(p), ~HalfReturns(p)
      PROVE  half' = half
  BY Zenon, <1>4 DEF OpStep, SendHalf, ContextEnds, RunLocal, UnitOfWork, Bind, CommitWitness, HostCommitSent,
              LocalReturns, ReadProof, AbortUnstarted, AbortReported, Abort, Finalize, FinalReturns,
              RecordFinal, Leave, Crash, storeVars
<1>5. ASSUME NEW p \in Ops, HalfReturns(p)
      PROVE  \/ half' = half
             \/ \E h \in Halves :
                  /\ op[p].stage = "sent"
                  /\ RecordHalf(op[p].e, op[p].i, h)
                  /\ h = "prepared" => <<op[p].e, op[p].i>> \in held
                  /\ h = "rejected" => <<op[p].e, op[p].i>> \notin sends'
                  /\ h # "rejected" => sends' = sends
                  /\ sends' \subseteq sends
  BY Zenon, <1>5, Receipts DEF HalfReturns, storeVars
<1>6. ASSUME NEW s \in Slots, HalfArrives(s) \/ Check(s)
      PROVE  half' = half
  BY Zenon, <1>6 DEF HalfArrives, Check, storeVars
<1>7. ASSUME NEW c \in Calls, EndArrives(c) \/ AfterRecovery(c)
      PROVE  half' = half
  BY Zenon, <1>7 DEF EndArrives, AfterRecovery, RecordFinal, storeVars
<1> QED
  BY Zenon, <1>1, <1>2, <1>3, <1>4, <1>5, <1>6, <1>7 DEF Next

\* Where final receipts come from: an end request that was carried out, or an
\* unknown result.
LEMMA FinalReceipts ==
  ASSUME TxInv, Next
  PROVE  \/ final' = final
         \/ \E e \in Executions, b \in Branches, f \in Finals :
              /\ RecordFinal(e, b, f)
              /\ f = "unknown" \/ \E w \in {"owner", "check"} : <<<<e, b>>, f, w>> \in ended
<1>1. ASSUME NEW q \in Requests, HostReserve(q)
      PROVE  final' = final
  BY Zenon, <1>1 DEF HostReserve, Reserve, NewExecution
<1>2. ASSUME NEW e \in Executions, HostAdvance(e) \/ DatabaseEnds(e) \/ LeaseEnds(e) \/ Reconcile(e)
      PROVE  final' = final
  BY Zenon, <1>2 DEF HostAdvance, Advance, NewExecution, DatabaseEnds, HostCommitDone, HostRolledBack,
              LeaseEnds, Expire, Reconcile, Abort
<1>3. ASSUME NEW p \in Ops, NEW e \in Executions, Execute(p, e)
      PROVE  final' = final
  BY Zenon, <1>3 DEF Execute, BeginPrepare, storeVars
<1>4. ASSUME NEW p \in Ops, OpStep(p), ~FinalReturns(p)
      PROVE  final' = final
  BY Zenon, <1>4 DEF OpStep, SendHalf, ContextEnds, RunLocal, UnitOfWork, Bind, CommitWitness, HostCommitSent,
              LocalReturns, ReadProof, AbortUnstarted, AbortReported, Abort, Finalize, HalfReturns,
              RecordHalf, Leave, Crash, storeVars
<1>5. ASSUME NEW p \in Ops, FinalReturns(p)
      PROVE  \/ final' = final
             \/ \E f \in Finals :
                  /\ RecordFinal(op[p].e, op[p].i, f)
                  /\ f = "unknown" \/ \E w \in {"owner", "check"} : <<<<op[p].e, op[p].i>>, f, w>> \in ended
                  /\ op[p].e \in Executions /\ op[p].i \in Branches
  <2>1. op[p].e \in Executions /\ op[p].i \in Branches
    BY Zenon, <1>5 DEF TxInv, TypeOK, OpsOK, OpHolds, Op, FinalReturns
  <2>2. DecisionFor(op[p].known) \in Finals
    BY Zenon, Receipts
  <2>3. \/ final' = final
        \/ /\ <<<<op[p].e, op[p].i>>, DecisionFor(op[p].known), "owner">> \in ended
           /\ RecordFinal(op[p].e, op[p].i, DecisionFor(op[p].known))
        \/ RecordFinal(op[p].e, op[p].i, "unknown")
    BY Zenon, <1>5 DEF FinalReturns, FinalCall, storeVars
  <2> QED
    BY Zenon, <2>1, <2>2, <2>3, Receipts
<1>6. ASSUME NEW s \in Slots, HalfArrives(s) \/ Check(s)
      PROVE  final' = final
  BY Zenon, <1>6 DEF HalfArrives, Check, storeVars
<1>7. ASSUME NEW c \in Calls, EndArrives(c)
      PROVE  final' = final
  BY Zenon, <1>7 DEF EndArrives, storeVars
<1>8. ASSUME NEW c \in Calls, AfterRecovery(c)
      PROVE  /\ RecordFinal(c[1][1], c[1][2], c[2])
             /\ c[1][1] \in Executions /\ c[1][2] \in Branches /\ c[2] \in Finals
             /\ <<<<c[1][1], c[1][2]>>, c[2], "check">> \in ended
  <2>1. c[1] \in Slots /\ c[2] \in Decisions /\ c = <<c[1], c[2], c[3]>>
    BY DEF Calls
  <2>2. c[1][1] \in Executions /\ c[1][2] \in Branches /\ c[1] = <<c[1][1], c[1][2]>>
    BY Zenon, <2>1, SlotPairs
  <2> QED
    BY Zenon, <1>8, <2>1, <2>2, Receipts DEF AfterRecovery
<1> QED
  BY Zenon, <1>1, <1>2, <1>3, <1>4, <1>5, <1>6, <1>7, <1>8 DEF Next

\* A half is sent for a slot without a receipt.
LEMMA Sending ==
  ASSUME TxInv, Next, NEW s \in Slots, s \in sends', s \notin sends
  PROVE  half[s] = "not_attempted" /\ half' = half
<1>1. \E p \in Ops : SendHalf(p)
  BY Zenon DEF Next, OpStep, HostReserve, HostAdvance, DatabaseEnds, LeaseEnds, Reconcile, Execute, RunLocal,
         ContextEnds, HalfReturns, UnitOfWork, LocalReturns, ReadProof, AbortUnstarted, AbortReported,
         Finalize, FinalReturns, Leave, Crash, HalfArrives, Check, EndArrives, AfterRecovery, brokerVars
<1>2. PICK p \in Ops : SendHalf(p)
  BY Zenon, <1>1
<1>3. /\ op[p].stage = "send" /\ op[p].i <= NumBranches /\ op[p].i \in 1 .. NumBranches + 1
      /\ OpHolds(op[p], started, ran, held, half, state)
      /\ s = <<op[p].e, op[p].i>> /\ half' = half
  BY Zenon, <1>2 DEF SendHalf, storeVars, TxInv, TypeOK, Op, OpsOK
<1>4. op[p].i \in Branches /\ op[p].i >= op[p].i
  BY <1>3, TxAssumption DEF Branches, TxAssumption
<1> QED
  BY Zenon, <1>3, <1>4 DEF OpHolds

\* Receipts stay true, and positive ones stay.
LEMMA AuditStep ==
  ASSUME TxInv, Next
  PROVE  /\ AuditTruth'
         /\ \A s \in Slots :
              /\ half[s] \in {"prepared", "rejected"} => half'[s] = half[s]
              /\ final[s] \in Decisions => final'[s] = final[s]
<1>0. /\ held \subseteq held' /\ ended \subseteq ended' /\ held' \subseteq sends' /\ held \subseteq sends
      /\ half \in [Slots -> Halves] /\ final \in [Slots -> Finals]
  BY Zenon, BrokerMoves DEF Arrived, TxInv, TypeOK, StoreTypeOK
<1>1. ASSUME NEW s \in Slots
      PROVE  /\ half[s] \in {"prepared", "rejected"} => half'[s] = half[s]
             /\ half'[s] = "prepared" => s \in held'
             /\ half'[s] = "rejected" => s \notin sends' \cup held'
  <2>1. /\ half[s] = "prepared" => s \in held
        /\ half[s] = "rejected" => s \notin sends
    BY Zenon DEF TxInv, AuditTruth
  <2>2. half[s] = "rejected" => s \notin sends'
    BY Zenon, <2>1, Sending
  <2>3. CASE half' = half
    BY Zenon, <1>0, <2>1, <2>2, <2>3
  <2>4. ASSUME NEW p \in Ops, NEW h \in Halves, op[p].stage = "sent", RecordHalf(op[p].e, op[p].i, h),
               h = "prepared" => <<op[p].e, op[p].i>> \in held,
               h = "rejected" => <<op[p].e, op[p].i>> \notin sends'
        PROVE  /\ half[s] \in {"prepared", "rejected"} => half'[s] = half[s]
               /\ half'[s] = "prepared" => s \in held'
               /\ half'[s] = "rejected" => s \notin sends' \cup held'
    <3>1. <<op[p].e, op[p].i>> \in Slots
      BY Zenon, <2>4, SlotPairs DEF TxInv, TypeOK, Op, OpsOK, OpHolds
    <3>2. CASE s = <<op[p].e, op[p].i>>
      <4>1. half'[s] = h /\ half[s] \in {"not_attempted", "unknown", h}
        BY Zenon, <1>0, <2>4, <3>1, <3>2 DEF RecordHalf, CanRecordHalf
      <4> QED
        BY Zenon, <1>0, <2>4, <3>2, <4>1
    <3>3. CASE s # <<op[p].e, op[p].i>>
      <4>1. half'[s] = half[s]
        BY Zenon, <1>0, <2>4, <3>3 DEF RecordHalf
      <4> QED
        BY Zenon, <1>0, <2>1, <2>2, <4>1
    <3> QED
      BY Zenon, <3>2, <3>3
  <2> QED
    BY Zenon, <2>3, <2>4, HalfReceipts
<1>2. ASSUME NEW s \in Slots
      PROVE  /\ final[s] \in Decisions => final'[s] = final[s]
             /\ final'[s] \in Decisions => \E w \in {"owner", "check"} : <<s, final'[s], w>> \in ended'
  <2>1. final[s] \in Decisions => \E w \in {"owner", "check"} : <<s, final[s], w>> \in ended
    BY Zenon DEF TxInv, AuditTruth
  <2>2. CASE final' = final
    BY Zenon, <1>0, <2>1, <2>2
  <2>3. ASSUME NEW e \in Executions, NEW b \in Branches, NEW f \in Finals, RecordFinal(e, b, f),
               f = "unknown" \/ \E w \in {"owner", "check"} : <<<<e, b>>, f, w>> \in ended
        PROVE  /\ final[s] \in Decisions => final'[s] = final[s]
               /\ final'[s] \in Decisions => \E w \in {"owner", "check"} : <<s, final'[s], w>> \in ended'
    <3>1. <<e, b>> \in Slots
      BY Zenon, SlotPairs
    <3>2. CASE s = <<e, b>>
      <4>1. final'[s] = f /\ final[s] \in {"not_attempted", "unknown", f}
        BY Zenon, <1>0, <2>3, <3>1, <3>2 DEF RecordFinal, CanRecordFinal
      <4> QED
        BY Zenon, <1>0, <2>3, <3>2, <4>1 DEF Decisions
    <3>3. CASE s # <<e, b>>
      <4>1. final'[s] = final[s]
        BY Zenon, <1>0, <2>3, <3>3 DEF RecordFinal
      <4> QED
        BY Zenon, <1>0, <2>1, <4>1
    <3> QED
      BY Zenon, <3>2, <3>3
  <2> QED
    BY Zenon, <2>2, <2>3, FinalReceipts
<1> QED
  BY Zenon, <1>1, <1>2 DEF AuditTruth

\* An execution that was not admitted has no half receipt.
LEMMA UnattemptedStep ==
  ASSUME TxInv, Next
  PROVE  Unattempted'
<1>0. started \subseteq started'
  BY Zenon, NextStore, StoreMoves DEF TxInv
<1>1. CASE half' = half
  BY Zenon, <1>0, <1>1 DEF TxInv, Unattempted
<1>2. ASSUME NEW p \in Ops, NEW h \in Halves, op[p].stage = "sent", RecordHalf(op[p].e, op[p].i, h)
      PROVE  Unattempted'
  <2>1. op[p].e \in Executions /\ op[p].e \in started /\ op[p].i \in Branches
    BY Zenon, <1>2 DEF TxInv, TypeOK, Op, OpsOK, OpHolds
  <2>2. \A x \in Executions, d \in Branches :
          <<x, d>> # <<op[p].e, op[p].i>> => half'[<<x, d>>] = half[<<x, d>>]
    BY Zenon, <1>2, <2>1, HalfMoves DEF TxInv, StoreInv
  <2> QED
    BY Zenon, <1>0, <2>1, <2>2 DEF TxInv, Unattempted
<1> QED
  BY Zenon, <1>1, <1>2, HalfReceipts

\* Requests to end a message go by what is durable, and that does not change.
LEMMA DecisionsStep ==
  ASSUME TxInv, Next
  PROVE  DecisionsAgree'
<1> DEFINE Right(c) == state[c[1][1]] = IF c[2] = "commit" THEN "committed" ELSE "aborted"
<1>0. \A e \in Executions : state[e] \in {"committed", "aborted"} => state'[e] = state[e]
  BY Zenon, NextStore, StoreMoves DEF TxInv
<1>1. ASSUME NEW p \in Ops, Finalize(p), op[p].i <= op[p].n
      PROVE  Right(FinalCall(op[p]))
  <2>1. op[p].known \in {"committed", "aborted"} /\ state[op[p].e] = op[p].known
    BY Zenon, <1>1 DEF Finalize, TxInv, TypeOK, Op, OpsOK, OpHolds, Known
  <2> QED
    BY Zenon, <2>1 DEF FinalCall, DecisionFor
<1>2. ASSUME NEW s \in Slots, Check(s)
      PROVE  /\ calls' = calls \cup {<<s, DecisionFor(Evidence(s[1], s[2])), "check">>}
             /\ Right(<<s, DecisionFor(Evidence(s[1], s[2])), "check">>)
  <2>1. s[1] \in Executions /\ s[2] \in Branches
    BY Zenon, SlotPairs
  <2>2. Evidence(s[1], s[2]) \in {"committed", "aborted"} /\ state[s[1]] = Evidence(s[1], s[2])
    BY Zenon, <1>2, <2>1, EvidenceProves DEF Check, TxInv, Known
  <2> QED
    BY Zenon, <1>2, <2>2 DEF Check, DecisionFor
<1>3. \/ calls' = calls
      \/ \E p \in Ops : Finalize(p) /\ op[p].i <= op[p].n /\ calls' = calls \cup {FinalCall(op[p])}
      \/ \E s \in Slots : Check(s)
  BY Zenon DEF Next, OpStep, HostReserve, HostAdvance, DatabaseEnds, LeaseEnds, Reconcile, Execute, SendHalf, RunLocal,
         ContextEnds, HalfReturns, UnitOfWork, LocalReturns, ReadProof, AbortUnstarted, AbortReported,
         Finalize, FinalReturns, Leave, Crash, HalfArrives, EndArrives, AfterRecovery, brokerVars
<1>4. \A c \in calls' : Right(c)
  <2>1. \A c \in calls : Right(c)
    BY Zenon DEF TxInv, DecisionsAgree
  <2>2. CASE calls' = calls
    BY Zenon, <2>1, <2>2
  <2>3. CASE \E p \in Ops : Finalize(p) /\ op[p].i <= op[p].n /\ calls' = calls \cup {FinalCall(op[p])}
    <3>1. PICK p \in Ops : Finalize(p) /\ op[p].i <= op[p].n /\ calls' = calls \cup {FinalCall(op[p])}
      BY Zenon, <2>3
    <3>2. Right(FinalCall(op[p]))
      BY Zenon, <1>1, <3>1
    <3> HIDE DEF Right
    <3> QED
      BY Zenon, <2>1, <3>1, <3>2
  <2>4. CASE \E s \in Slots : Check(s)
    <3>1. PICK s \in Slots : Check(s)
      BY Zenon, <2>4
    <3> DEFINE c == <<s, DecisionFor(Evidence(s[1], s[2])), "check">>
    <3>2. calls' = calls \cup {c} /\ Right(c)
      BY Zenon, <1>2, <3>1
    <3> HIDE DEF Right, c
    <3> QED
      BY Zenon, <2>1, <3>2
  <2> QED
    BY Zenon, <1>3, <2>2, <2>3, <2>4
<1>5. ASSUME NEW c \in calls'
      PROVE  state'[c[1][1]] = IF c[2] = "commit" THEN "committed" ELSE "aborted"
  <2>1. c[1][1] \in Executions
    BY Zenon, BrokerMoves, SlotPairs DEF Calls
  <2> QED
    BY Zenon, <1>0, <1>4, <2>1
<1> QED
  BY Zenon, <1>5 DEF DecisionsAgree

----------------------------------------------------------------------------
\* The empty database and idle slots satisfy the invariant.
LEMMA InitHolds ==
  Init => TxInv
<1> SUFFICES ASSUME Init
             PROVE  TxInv
  OBVIOUS
<1>1. StoreTypeOK
  BY TxAssumption DEF Init, StoreInit, StoreTypeOK, States, Halves, Finals, HostTx, TxAssumption
<1>2. Idle \in Op /\ Idle.stage = "idle" /\ Idle.known = "unknown"
  <2>1. \E q \in Requests : <<q, 1>> \in Executions
    BY TxAssumption, SlotPairs DEF Fences, TxAssumption
  <2>2. (CHOOSE x \in Executions : TRUE) \in Executions
    BY Zenon, <2>1
  <2>3. 1 \in 1 .. NumBranches + 1 /\ 0 \in 0 .. NumBranches
    BY TxAssumption DEF TxAssumption
  <2>4. Idle \in Op
    BY <2>2, <2>3, Zenon DEF Idle, Fresh, Op, Stages, Known
  <2> QED
    BY Zenon, <2>4, OpFields
<1>3. op \in [Ops -> Op] /\ \A p \in Ops : op[p] = Idle
  BY Zenon, <1>2 DEF Init
<1>4. TypeOK
  BY Zenon, <1>1, <1>3 DEF Init, TypeOK
<1>5. Rows /\ Locks /\ Unattempted
  BY Zenon, SlotPairs DEF Init, StoreInit, Rows, Locks, Unattempted
<1>6. Lineage
  BY SlotPairs DEF Init, StoreInit, Lineage, Fences
<1>7. OpsOK
  BY Zenon, <1>2, <1>3, QuietHolds DEF OpsOK
<1>8. OneOwner
  BY Zenon, <1>2, <1>3 DEF OneOwner
<1>9. Confirmed /\ Arrived /\ DecisionsAgree
  BY Zenon DEF Init, StoreInit, Confirmed, Arrived, DecisionsAgree
<1>10. AuditTruth
  BY Zenon DEF Init, StoreInit, AuditTruth, Decisions
<1> QED
  BY Zenon, <1>1, <1>4, <1>5, <1>6, <1>7, <1>8, <1>9, <1>10 DEF TxInv, StoreInv

\* Every step keeps the invariant.
LEMMA NextHolds ==
  ASSUME TxInv, Next
  PROVE  TxInv'
<1>1. StoreInv'
  BY Zenon, NextStore, StoreStep DEF TxInv
<1>2. TypeOK'
  BY Zenon, <1>1, OpsStep, ConfirmedStep, BrokerMoves DEF TypeOK, StoreInv
<1> QED
  BY Zenon, <1>1, <1>2, OpsStep, ConfirmedStep, UnattemptedStep, BrokerMoves, DecisionsStep, AuditStep DEF TxInv

\* A step that changes nothing keeps it too.
LEMMA StutterHolds ==
  ASSUME TxInv, UNCHANGED vars
  PROVE  TxInv'
<1>1. TypeOK'
  BY Zenon DEF vars, TxInv, TypeOK, StoreTypeOK
<1>2. StoreInv'
  BY Zenon DEF vars, TxInv, StoreInv, StoreTypeOK, Rows, Locks, Lineage
<1>3. OpsOK' /\ OneOwner'
  BY Zenon DEF vars, TxInv, OpsOK, OneOwner
<1>4. Confirmed' /\ Unattempted' /\ Arrived' /\ DecisionsAgree' /\ AuditTruth'
  BY Zenon DEF vars, TxInv, Confirmed, Unattempted, Arrived, DecisionsAgree, AuditTruth
<1> QED
  BY Zenon, <1>1, <1>2, <1>3, <1>4 DEF TxInv

\* The executor is entered from the stage after the last confirmed half.
LEMMA BecomesLocal ==
  ASSUME TxInv, Next, NEW p \in Ops, op'[p].stage = "local", op[p].stage # "local"
  PROVE  op[p].stage = "send"
<1>0. op \in [Ops -> Op] /\ \A r \in Ops : op[r] \in Op
  BY Zenon DEF TxInv, TypeOK
<1>1. ASSUME NEW r \in Ops, NEW x, Step(r, x), x.stage # "local"
      PROVE  FALSE
  BY Zenon, <1>0, <1>1 DEF Step
<1>2. ASSUME UNCHANGED op
      PROVE  FALSE
  BY Zenon, <1>2
<1>3. ASSUME NEW q \in Requests, HostReserve(q)
      PROVE  FALSE
  BY Zenon, <1>2, <1>3 DEF HostReserve
<1>4. ASSUME NEW e \in Executions, HostAdvance(e) \/ DatabaseEnds(e) \/ LeaseEnds(e) \/ Reconcile(e)
      PROVE  FALSE
  BY Zenon, <1>2, <1>4 DEF HostAdvance, DatabaseEnds, LeaseEnds, Reconcile
<1>5. ASSUME NEW s \in Slots, HalfArrives(s) \/ Check(s)
      PROVE  FALSE
  BY Zenon, <1>2, <1>5 DEF HalfArrives, Check
<1>6. ASSUME NEW c \in Calls, EndArrives(c) \/ AfterRecovery(c)
      PROVE  FALSE
  BY Zenon, <1>2, <1>6 DEF EndArrives, AfterRecovery
<1>7. ASSUME NEW r \in Ops, NEW e \in Executions, Execute(r, e)
      PROVE  FALSE
  <2>1. Fresh(e, "send").stage = "send" /\ Fresh(e, "send") \in Op
    BY <1>0, OpFields, OpForms DEF Stages
  <2>2. ProofOf(Fresh(e, "send"), "stale").stage = "proof"
    BY <2>1, OpFields
  <2> QED
    BY Zenon, <1>1, <1>2, <1>7, <2>1, <2>2 DEF Execute
<1>8. ASSUME NEW r \in Ops, OpStep(r), ~RunLocal(r)
      PROVE  FALSE
  <2> DEFINE o == op[r]
  <2>0. o \in Op /\ o.known \in Known
    BY Zenon, <1>0 DEF Op
  <2>1. /\ Idle.stage = "idle"
        /\ \A n : Abandoned(o, n).stage = "abort"
        /\ \A k : Reported(o, k).stage = "proof" /\ Finalizing(o, k).stage = "finalize" /\ Read(o, k).stage = o.stage
        /\ \A y : ProofOf(o, y).stage = "proof"
        /\ \A g, i : At(o, g, i).stage = g
        /\ Prepared(o).stage = "send"
    BY <2>0, OpFields
  <2>2. Done(o, o.known).stage \in {"idle", "done"}
    BY <2>0, OpFields
  <2>3. \A k \in Known : Concluded(o, k).stage # "local"
    BY Zenon, <2>0, ConcludedForms
  <2>4. CASE SendHalf(r) \/ ContextEnds(r) \/ Leave(r) \/ Crash(r) \/ Finalize(r) \/ FinalReturns(r)
    BY <1>1, <2>1, <2>2, <2>4 DEF SendHalf, ContextEnds, Leave, Crash, Finalize, FinalReturns
  <2>5. CASE HalfReturns(r)
    BY Zenon, <1>1, <2>1, <2>5 DEF HalfReturns
  <2>6. CASE UnitOfWork(r)
    BY Zenon, <1>2, <2>6 DEF UnitOfWork
  <2>7. CASE LocalReturns(r)
    BY Zenon, <1>1, <2>1, <2>7 DEF LocalReturns
  <2>8. CASE ReadProof(r)
    <3> DEFINE k == Agreed(o, Evidence(o.e, o.i))
    <3>1. o.stage = "proof" /\ o.i \in Branches /\ o.e \in Executions
      BY Zenon, <2>8 DEF ReadProof, TxInv, TypeOK, OpsOK, OpHolds, Op
    <3>2. k \in Known /\ "unknown" \in Known
      BY Zenon, <2>0, <3>1, EvidenceProves DEF Agreed, TxInv, Known
    <3>3. Step(r, Concluded(o, "unknown")) \/ Step(r, Read(o, k)) \/ Step(r, Concluded(o, k))
      BY Zenon, <2>8 DEF ReadProof
    <3> HIDE DEF k
    <3> QED
      BY Zenon, <1>1, <2>1, <2>3, <3>1, <3>2, <3>3
  <2>9. CASE AbortUnstarted(r) \/ AbortReported(r)
    BY Zenon, <1>1, <2>1, <2>2, <2>9 DEF AbortUnstarted, AbortReported
  <2> QED
    BY Zenon, <1>8, <2>4, <2>5, <2>6, <2>7, <2>8, <2>9 DEF OpStep
<1>9. ASSUME NEW r \in Ops, RunLocal(r)
      PROVE  op[p].stage = "send"
  BY Zenon, <1>0, <1>9 DEF RunLocal, Step
<1> QED
  BY Zenon, <1>3, <1>4, <1>5, <1>6, <1>7, <1>8, <1>9 DEF Next

\* The inductive invariant holds of every behaviour of transactional publishing
\* (Execute, the guard, the check-back, the reconciler and Retry/Replan).
THEOREM TxInvariant ==
  Spec => []TxInv
<1>1. TxInv /\ [Next]_vars => TxInv'
  BY Zenon, NextHolds, StutterHolds
<1> QED
  BY <1>1, InitHolds, PTL DEF Spec

\* The variables of the store and of the protocol keep their types.
THEOREM TypeCorrect ==
  Spec => []TypeOK
BY TxInvariant, PTL DEF TxInv

\* The broker is told to commit or roll back only what is durably so, by the
\* owner (finalize) and by a check (checkMessage).
THEOREM DecisionsSound ==
  Spec => []DecisionsAgree
BY TxInvariant, PTL DEF TxInv

\* Audit receipts (RecordHalf, RecordFinal, RecordRecoveryFinal) are true of the
\* broker.
THEOREM AuditsTrue ==
  Spec => []AuditTruth
BY TxInvariant, PTL DEF TxInv

\* A request has at most one committed execution (advance).
THEOREM AtMostOneCommit ==
  Spec => []BusinessOnce
<1>1. TxInv => BusinessOnce
  <2> SUFFICES ASSUME TxInv, NEW q \in Requests, NEW f \in Fences, NEW g \in Fences,
                      f < g, state[<<q, g>>] # "absent"
               PROVE  state[<<q, f>>] = "aborted"
    BY Zenon DEF BusinessOnce
  <2>1. /\ <<q, f>> \in Executions /\ <<q, g>> \in Executions
        /\ <<q, f>>[1] = q /\ <<q, f>>[2] = f /\ <<q, g>>[1] = q /\ <<q, g>>[2] = g
    BY Zenon, SlotPairs
  <2>2. f \in Nat /\ g \in Nat /\ active[q] \in Nat
    BY DEF Fences, TxInv, TypeOK, StoreTypeOK
  <2>3. ~(g > active[q])
    BY Zenon, <2>1 DEF TxInv, StoreInv, Lineage
  <2>4. f < active[q]
    BY <2>2, <2>3
  <2> QED
    BY Zenon, <2>1, <2>4 DEF TxInv, StoreInv, Lineage
<1> QED
  BY <1>1, TxInvariant, PTL

\* A business commit finds every half of its plan at the broker (execute runs the
\* local executor after the last confirmed half).
THEOREM CommitsAreHeld ==
  Spec => []CommittedHasHalves
<1>1. TxInv => CommittedHasHalves
  BY Zenon DEF TxInv, Confirmed, CommittedHasHalves
<1> QED
  BY <1>1, TxInvariant, PTL

\* What an operation reports and finalizes by is in the database (localProof).
THEOREM ResultsProved ==
  Spec => []ResultProved
<1>1. TxInv => ResultProved
  BY Zenon DEF TxInv, OpsOK, OpHolds, ResultProved
<1> QED
  BY <1>1, TxInvariant, PTL

\* The local executor is invoked at most once per execution (BeginPrepare).
THEOREM ExecutorOnce ==
  Spec => LocalRunsOnce
<1> DEFINE Once == \A p \in Ops : op'[p].stage = "local" /\ op[p].stage # "local" => op[p].e \notin ran
<1>1. TxInv /\ [Next]_vars => [Once]_vars
  <2> SUFFICES ASSUME TxInv, Next, NEW p \in Ops, op'[p].stage = "local", op[p].stage # "local"
               PROVE  op[p].e \notin ran
    OBVIOUS
  <2>1. op[p].stage = "send"
    BY Zenon, BecomesLocal
  <2> QED
    BY Zenon, <2>1 DEF TxInv, OpsOK, OpHolds
<1> QED
  BY <1>1, TxInvariant, PTL DEF Spec, LocalRunsOnce

\* Positive receipts are final (the previous-receipt test of RecordHalf,
\* RecordFinal and RecordRecoveryFinal).
THEOREM ReceiptsStand ==
  Spec => AuditsStand
<1> DEFINE Stand == \A s \in Slots :
                      /\ half[s] \in {"prepared", "rejected"} => half'[s] = half[s]
                      /\ final[s] \in Decisions => final'[s] = final[s]
<1>1. TxInv /\ [Next]_vars => [Stand]_vars
  BY Zenon, AuditStep
<1> QED
  BY <1>1, TxInvariant, PTL DEF Spec, AuditsStand

----------------------------------------------------------------------------
\* TxProtocol implements AtomicPublish: an execution is the abstract outcome it
\* has in the database, and a message is visible (dropped) once the broker has
\* carried out some request to commit it (roll it back).  A request on its way
\* to the broker names what the database says, and the database never takes a
\* decision back.

\* The committed transactions of the store change an execution state in the two
\* ways the promise allows.
LEMMA StateMoves ==
  ASSUME StoreInv, StoreNext \/ UNCHANGED storeVars
  PROVE  \/ state' = state
         \/ \E e \in Executions :
              /\ state[e] = "absent"
              /\ \A f \in Fences : f < e[2] => state[<<e[1], f>>] = "aborted"
              /\ state' = [state EXCEPT ![e] = "prepared"]
         \/ \E e \in Executions : \E d \in {"committed", "aborted"} :
              state[e] = "prepared" /\ state' = [state EXCEPT ![e] = d]
<1> DEFINE Opens(e) == /\ state[e] = "absent"
                       /\ \A f \in Fences : f < e[2] => state[<<e[1], f>>] = "aborted"
                       /\ state' = [state EXCEPT ![e] = "prepared"]
<1>1. CASE UNCHANGED storeVars
  BY <1>1 DEF storeVars
<1>2. ASSUME NEW q \in Requests, Reserve(q)
      PROVE  \E e \in Executions : Opens(e)
  <2> DEFINE e == <<q, 1>>
  <2>1. e \in Executions /\ e[1] = q /\ e[2] = 1
    BY TxAssumption, SlotPairs DEF Fences, TxAssumption
  <2>2. state[e] = "absent"
    BY <1>2, <2>1 DEF Reserve, StoreInv, Lineage
  <2>3. \A f \in Fences : ~(f < 1)
    BY DEF Fences
  <2>4. state' = [state EXCEPT ![e] = "prepared"]
    BY <1>2 DEF Reserve, NewExecution, Enter
  <2> HIDE DEF e
  <2>5. Opens(e)
    BY <2>1, <2>2, <2>3, <2>4
  <2> QED
    BY <2>1, <2>5
<1>3. ASSUME NEW x \in Executions, Advance(x)
      PROVE  \E e \in Executions : Opens(e)
  <2> DEFINE e == <<x[1], x[2] + 1>>
  <2>0. x[1] \in Requests /\ x[2] \in Fences /\ x[2] \in Nat /\ x[2] + 1 \in Fences /\ active[x[1]] = x[2]
    BY <1>3, SlotPairs, TxAssumption DEF Advance, Fences, TxAssumption
  <2>1. e \in Executions /\ e[1] = x[1] /\ e[2] = x[2] + 1 /\ e[2] > active[e[1]]
    BY <2>0, SlotPairs
  <2>2. state[e] = "absent"
    BY <2>1 DEF StoreInv, Lineage
  <2>3. ASSUME NEW f \in Fences, f < x[2] + 1
        PROVE  state[<<x[1], f>>] = "aborted"
    <3>1. <<x[1], f>> \in Executions /\ <<x[1], f>>[1] = x[1] /\ <<x[1], f>>[2] = f
      BY <2>0, SlotPairs
    <3>2. f < x[2] \/ f = x[2]
      BY <2>0, <2>3 DEF Fences
    <3>3. CASE f = x[2]
      BY <1>3, <3>3, SlotPairs DEF Advance
    <3>4. CASE f < x[2]
      BY <2>0, <3>1, <3>4 DEF StoreInv, Lineage
    <3> QED
      BY <3>2, <3>3, <3>4
  <2>4. state' = [state EXCEPT ![e] = "prepared"]
    BY <1>3 DEF Advance, NewExecution, Enter
  <2> HIDE DEF e
  <2>5. Opens(e)
    BY <2>1, <2>2, <2>3, <2>4
  <2> QED
    BY <2>1, <2>5
<1>4. ASSUME NEW e \in Executions, Abort(e)
      PROVE  state[e] = "prepared" /\ state' = [state EXCEPT ![e] = "aborted"]
  BY <1>4 DEF Abort, CanAbort, Enter
<1>5. ASSUME NEW e \in Executions, HostCommitDone(e)
      PROVE  state[e] = "prepared" /\ state' = [state EXCEPT ![e] = "committed"]
  BY <1>5 DEF HostCommitDone, Enter, StoreInv, Locks
<1>6. ASSUME NEW e \in Executions,
             \/ BeginPrepare(e) \/ Expire(e) \/ Bind(e) \/ CommitWitness(e)
             \/ HostCommitSent(e) \/ HostRolledBack(e)
             \/ \E b \in Branches, h \in Halves : RecordHalf(e, b, h)
             \/ \E b \in Branches, f \in Finals : RecordFinal(e, b, f)
      PROVE  state' = state
  BY <1>6 DEF BeginPrepare, Expire, Bind, CommitWitness, HostCommitSent, HostRolledBack, RecordHalf, RecordFinal
<1> HIDE DEF Opens
<1>7. ASSUME StoreNext
      PROVE  \/ state' = state
             \/ \E e \in Executions : Opens(e)
             \/ \E e \in Executions : \E d \in {"committed", "aborted"} :
                  state[e] = "prepared" /\ state' = [state EXCEPT ![e] = d]
  BY <1>2, <1>3, <1>4, <1>5, <1>6, <1>7 DEF StoreNext
<1> QED
  BY <1>1, <1>7 DEF Opens

\* Only an arriving end request changes what the broker has carried out, and it
\* changes nothing in the database.
LEMMA EndedOnlyByArrival ==
  ASSUME Next
  PROVE  ended' = ended \/ \E c \in Calls : EndArrives(c) /\ state' = state
<1>1. ASSUME NEW q \in Requests, HostReserve(q)
      PROVE  ended' = ended
  BY <1>1 DEF HostReserve, brokerVars
<1>2. ASSUME NEW e \in Executions, HostAdvance(e) \/ DatabaseEnds(e) \/ LeaseEnds(e) \/ Reconcile(e)
      PROVE  ended' = ended
  BY <1>2 DEF HostAdvance, DatabaseEnds, LeaseEnds, Reconcile, brokerVars
<1>3. ASSUME NEW p \in Ops, NEW e \in Executions, Execute(p, e)
      PROVE  ended' = ended
  BY <1>3 DEF Execute, brokerVars
<1>4. ASSUME NEW p \in Ops, OpStep(p)
      PROVE  ended' = ended
  BY <1>4 DEF OpStep, SendHalf, ContextEnds, HalfReturns, RunLocal, UnitOfWork, LocalReturns, ReadProof,
              AbortUnstarted, AbortReported, Finalize, FinalReturns, Leave, Crash, brokerVars
<1>5. ASSUME NEW s \in Slots, HalfArrives(s) \/ Check(s)
      PROVE  ended' = ended
  BY <1>5 DEF HalfArrives, Check
<1>6. ASSUME NEW c \in Calls, AfterRecovery(c)
      PROVE  ended' = ended
  BY <1>6 DEF AfterRecovery, brokerVars
<1>7. ASSUME NEW c \in Calls, EndArrives(c)
      PROVE  EndArrives(c) /\ state' = state
  BY <1>7 DEF EndArrives, storeVars
<1> QED
  BY <1>1, <1>2, <1>3, <1>4, <1>5, <1>6, <1>7 DEF Next

\* What is ended one way is so decided in the database.
LEMMA EndedAgrees ==
  ASSUME TxInv
  PROVE  /\ \A s \in Ended("commit") : s \in Slots /\ state[s[1]] = "committed"
         /\ \A s \in Ended("rollback") : s \in Slots /\ state[s[1]] = "aborted"
BY DEF TxInv, Arrived, DecisionsAgree, Ended

\* An arriving end request makes its message visible, drops it, or repeats what
\* was done.
LEMMA ArrivalMaps ==
  ASSUME TxInv, NEW c \in Calls, EndArrives(c), state' = state
  PROVE  \E s \in Slots : Abstract!APublish(s) \/ Abstract!ADrop(s)
<1> DEFINE s == c[1]
<1>1. /\ s \in Slots /\ c[2] \in Decisions /\ c[3] \in {"owner", "check"} /\ c = <<s, c[2], c[3]>>
      /\ c \in calls /\ ended' = ended \cup {c}
  BY DEF Calls, EndArrives
<1>2. state[s[1]] = IF c[2] = "commit" THEN "committed" ELSE "aborted"
  BY <1>1 DEF TxInv, DecisionsAgree
<1>3. ASSUME NEW d \in Decisions
      PROVE  Ended(d)' = IF d = c[2] THEN Ended(d) \cup {s} ELSE Ended(d)
  <2>1. \A x \in Slots, w \in {"owner", "check"} : <<x, d, w>> = c <=> x = s /\ d = c[2] /\ w = c[3]
    BY <1>1
  <2> HIDE DEF s
  <2>2. \A x \in Slots, w \in {"owner", "check"} :
          <<x, d, w>> \in ended' <=> <<x, d, w>> \in ended \/ (x = s /\ d = c[2] /\ w = c[3])
    BY <1>1, <2>1
  <2>3. \A x \in Slots : x \in Ended(d)' <=> x \in Ended(d) \/ (x = s /\ d = c[2])
    BY <1>1, <2>2 DEF Ended
  <2>4. Ended(d) \subseteq Slots /\ Ended(d)' \subseteq Slots
    BY DEF Ended
  <2> QED
    BY <1>1, <2>3, <2>4
<1> HIDE DEF s
<1>4. "commit" \in Decisions /\ "rollback" \in Decisions /\ "commit" # "rollback"
  BY DEF Decisions
<1>5. CASE c[2] = "commit"
  <2>1. s \notin Ended("rollback")
    BY <1>2, <1>5, EndedAgrees
  <2>2. Ended("commit")' = Ended("commit") \cup {s} /\ Ended("rollback")' = Ended("rollback")
    BY <1>3, <1>4, <1>5
  <2>3. Abstract!APublish(s)
    BY <1>2, <1>5, <2>1, <2>2 DEF Abstract!APublish
  <2> QED
    BY <1>1, <2>3
<1>6. CASE c[2] = "rollback"
  <2>1. s \notin Ended("commit")
    BY <1>2, <1>4, <1>6, EndedAgrees
  <2>2. Ended("rollback")' = Ended("rollback") \cup {s} /\ Ended("commit")' = Ended("commit")
    BY <1>3, <1>4, <1>6
  <2>3. Abstract!ADrop(s)
    BY <1>2, <1>4, <1>6, <2>1, <2>2 DEF Abstract!ADrop
  <2> QED
    BY <1>1, <2>3
<1> QED
  BY <1>1, <1>5, <1>6 DEF Decisions

\* Every step of the protocol is a step of the promise or invisible to it.
LEMMA StepMaps ==
  ASSUME TxInv, Next
  PROVE  Abstract!ANext \/ UNCHANGED Abstract!avars
<1>0. Abstract!AExecutions = Executions /\ Abstract!ASlots = Slots
  BY DEF Abstract!AExecutions, Abstract!ASlots, Executions, Slots
<1>1. CASE \E c \in Calls : EndArrives(c) /\ state' = state
  BY <1>0, <1>1, ArrivalMaps DEF Abstract!ANext
<1>2. CASE ended' = ended
  <2>1. Ended("commit")' = Ended("commit") /\ Ended("rollback")' = Ended("rollback")
    BY <1>2 DEF Ended
  <2>2. StoreInv /\ (StoreNext \/ UNCHANGED storeVars)
    BY NextStore DEF TxInv
  <2>3. CASE state' = state
    BY <2>1, <2>3 DEF Abstract!avars
  <2>4. CASE \E e \in Executions :
               /\ state[e] = "absent"
               /\ \A f \in Fences : f < e[2] => state[<<e[1], f>>] = "aborted"
               /\ state' = [state EXCEPT ![e] = "prepared"]
    BY <1>0, <2>1, <2>4 DEF Abstract!ANext, Abstract!AOpen
  <2>5. CASE \E e \in Executions : \E d \in {"committed", "aborted"} :
               state[e] = "prepared" /\ state' = [state EXCEPT ![e] = d]
    BY <1>0, <2>1, <2>5 DEF Abstract!ANext, Abstract!ADecide
  <2> QED
    BY <2>2, <2>3, <2>4, <2>5, StateMoves
<1> QED
  BY <1>1, <1>2, EndedOnlyByArrival

\* Transactional publishing keeps its promise: the sender, the guard, the broker,
\* the checks, the reconciler and the retries together implement AtomicPublish.
THEOREM Refinement ==
  Spec => PublishesAtomically
<1>1. Init => Abstract!AInit
  BY DEF Init, StoreInit, Abstract!AInit, Abstract!AExecutions, Executions, Ended
<1>2. TxInv /\ [Next]_vars => [Abstract!ANext]_(Abstract!avars)
  <2>1. ASSUME UNCHANGED vars
        PROVE  UNCHANGED Abstract!avars
    BY <2>1 DEF vars, Abstract!avars, Ended
  <2> QED
    BY <2>1, StepMaps
<1> QED
  BY <1>1, <1>2, TxInvariant, PTL DEF Spec, PublishesAtomically, Abstract!ASpec
=============================================================================

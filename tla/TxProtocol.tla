------------------------------ MODULE TxProtocol ------------------------------
(***************************************************************************)
(* Transactional publishing end to end: the sender's owned operation       *)
(* (transport/rocketmq TransactionalSender.Execute), the host's unit of    *)
(* work under the store's guard, the broker's half messages and its        *)
(* check-back, the reconciler and host-authorized retries.                 *)
(*                                                                         *)
(* Every database call of an operation may fail without effect, or fail    *)
(* after its effect (the reply to COMMIT is lost), and the process may     *)
(* crash between any two steps.  Broker requests are sets that only grow:  *)
(* a request sent may arrive at any later time, or never, also after its   *)
(* sender has given up on it.                                              *)
(***************************************************************************)
EXTENDS TxStore

CONSTANTS Ops  \* slots for owned operations, each in a process of its own

VARIABLES
  caps,    \* executions whose capability (token) the host received
  op,      \* the operation in each slot
  ran,     \* executions whose local executor was invoked
  sends,   \* half messages sent and not positively rejected: slots
  held,    \* half messages the broker holds: slots
  calls,   \* end-of-transaction requests sent: <<slot, decision, sender>>
  ended    \* those the broker has carried out

vars == <<active, state, started, live, wit, half, final, hostTx,
          caps, op, ran, sends, held, calls, ended>>

hostVars == <<caps, ran>>

brokerVars == <<sends, held, calls, ended>>

Stages == {"idle", "send", "sent", "abort", "local", "proof",
           "abort_reported", "finalize", "ending", "done"}

Known == {"unknown", "committed", "aborted"}

\* i: the branch at hand; n: branches 1..n have a handle; reported: what the
\* local executor said; known: what localProof or Abort has established;
\* why: what localProof was called for.
Op == [stage : Stages, e : Executions, i : 1 .. NumBranches + 1, n : 0 .. NumBranches,
       reported : Known, known : Known, why : {"stale", "local", "unstarted"}]

Decisions == {"commit", "rollback"}

Calls == Slots \X Decisions \X {"owner", "check"}

DecisionFor(k) == IF k = "committed" THEN "commit" ELSE "rollback"

\* One type invariant for the variables of both modules.
TypeOK ==
  /\ StoreTypeOK
  /\ caps \in SUBSET Executions
  /\ op \in [Ops -> Op]
  /\ ran \in SUBSET Executions
  /\ sends \in SUBSET Slots
  /\ held \in SUBSET Slots
  /\ calls \in SUBSET Calls
  /\ ended \in SUBSET Calls

Fresh(e, stage) ==
  [stage |-> stage, e |-> e, i |-> 1, n |-> 0,
   reported |-> "unknown", known |-> "unknown", why |-> "stale"]

\* A free slot; the execution in it means nothing.
Idle == Fresh(CHOOSE e \in Executions : TRUE, "idle")

Init ==
  /\ StoreInit
  /\ caps = {}
  /\ op = [p \in Ops |-> Idle]
  /\ ran = {}
  /\ sends = {}
  /\ held = {}
  /\ calls = {}
  /\ ended = {}

Step(p, o) == op' = [op EXCEPT ![p] = o]

----------------------------------------------------------------------------
\* Requests of the host.  The capability is in the reply, and a reply can be
\* lost.
Delivered(e) == caps' = caps \/ caps' = caps \cup {e}

HostReserve(q) ==
  /\ Reserve(q)
  /\ Delivered(<<q, 1>>)
  /\ UNCHANGED <<op, ran, brokerVars>>

HostAdvance(e) ==
  /\ Advance(e)
  /\ Delivered(<<e[1], e[2] + 1>>)
  /\ UNCHANGED <<op, ran, brokerVars>>

----------------------------------------------------------------------------
\* The operation.
At(o, stage, i) == [o EXCEPT !.stage = stage, !.i = i]

\* The operation returns with what it knows of the execution (one abandoned
\* before its executor ran knows of the abort and reports "not started");
\* knowing nothing frees the slot at once.
Done(o, k) == IF k = "unknown" THEN Idle ELSE [Fresh(o.e, "done") EXCEPT !.known = k]

ProofOf(o, why) == [o EXCEPT !.stage = "proof", !.i = 1, !.why = why]

Prepared(o) == [o EXCEPT !.stage = "send", !.i = o.i + 1, !.n = o.i]

\* Abandoned before the local executor ran, with handles for branches 1..n.
Abandoned(o, n) == [o EXCEPT !.stage = "abort", !.n = n]

Reported(o, r) == [ProofOf(o, "local") EXCEPT !.reported = r]

Read(o, k) == [o EXCEPT !.i = o.i + 1, !.known = k]

\* Branches 1..n are finalized by what is known of the execution.
Finalizing(o, k) == [Fresh(o.e, "finalize") EXCEPT !.n = o.n, !.known = k]

\* Execute with a capability the host holds, up to the answer of BeginPrepare.
\* A refusal is looked into; an error may hide an admission nobody will use.
Execute(p, e) ==
  LET o == Fresh(e, "send")
  IN  /\ op[p].stage = "idle"
      /\ e \in caps
      /\ \/ BeginPrepare(e) /\ (Step(p, o) \/ UNCHANGED op)
         \/ /\ hostTx[e] = "none"
            /\ ~CanBegin(e)
            /\ UNCHANGED storeVars
            /\ Step(p, ProofOf(o, "stale"))
      /\ UNCHANGED <<hostVars, brokerVars>>

SendHalf(p) ==
  LET o == op[p]
  IN  /\ o.stage = "send"
      /\ o.i <= NumBranches
      /\ Step(p, At(o, "sent", o.i))
      /\ sends' = sends \cup {<<o.e, o.i>>}
      /\ UNCHANGED <<storeVars, hostVars, held, calls, ended>>

\* The caller's context ends before the next half, or before the executor.
ContextEnds(p) ==
  /\ op[p].stage = "send"
  /\ Step(p, Abandoned(op[p], op[p].n))
  /\ UNCHANGED <<storeVars, hostVars, brokerVars>>

\* Defective variant of HalfReturns: an unaudited or unconfirmed half does not
\* stop the operation.
HalfReturnsUnconfirmed(p) ==
  LET o == op[p]
  IN  /\ o.stage = "sent"
      /\ UNCHANGED storeVars
      /\ Step(p, Prepared(o))
      /\ UNCHANGED <<hostVars, brokerVars>>

\* Prepare returns and its receipt is audited.  A handle comes with a confirmed
\* half only; without the audit the operation is abandoned all the same.
HalfReturns(p) ==
  LET o == op[p]
      slot == <<o.e, o.i>>
  IN  /\ o.stage = "sent"
      /\ \/ /\ slot \in held
            /\ \/ RecordHalf(o.e, o.i, "prepared") /\ (Step(p, Prepared(o)) \/ Step(p, Abandoned(o, o.i)))
               \/ UNCHANGED storeVars /\ Step(p, Abandoned(o, o.i))
            /\ UNCHANGED sends
         \/ /\ slot \notin held
            /\ RecordHalf(o.e, o.i, "rejected") \/ UNCHANGED storeVars
            /\ Step(p, Abandoned(o, o.n))
            /\ sends' = sends \ {slot}
         \/ /\ RecordHalf(o.e, o.i, "unknown") \/ UNCHANGED storeVars
            /\ Step(p, Abandoned(o, o.n))
            /\ UNCHANGED sends
      /\ UNCHANGED <<hostVars, held, calls, ended>>

\* Every half is confirmed: the host's unit of work is invoked.
RunLocal(p) ==
  LET o == op[p]
  IN  /\ o.stage = "send"
      /\ o.i = NumBranches + 1
      /\ Step(p, At(o, "local", 1))
      /\ ran' = ran \cup {o.e}
      /\ UNCHANGED <<storeVars, caps, brokerVars>>

\* Its steps: the guard, the witnesses and the root COMMIT.
UnitOfWork(p) ==
  /\ op[p].stage = "local"
  /\ Bind(op[p].e) \/ CommitWitness(op[p].e) \/ HostCommitSent(op[p].e)
  /\ UNCHANGED <<op, hostVars, brokerVars>>

\* Its return, possibly while the database still works on COMMIT.  What it
\* reports need not be what happened.
LocalReturns(p) ==
  LET o == op[p]
  IN  /\ o.stage = "local"
      /\ hostTx[o.e] \in {"none", "committing"}
      /\ \E r \in Known : Step(p, Reported(o, r))
      /\ UNCHANGED <<storeVars, hostVars, brokerVars>>

AbortingReported(o) == [Fresh(o.e, "abort_reported") EXCEPT !.n = o.n]

\* What the caller of localProof does with its answer.
Concluded(o, k) ==
  CASE o.why = "stale" -> Done(o, k)
    [] o.why = "unstarted" -> IF k = "aborted" THEN Finalizing(o, k) ELSE Done(o, "unknown")
    [] o.why = "local" /\ k # "unknown" -> Finalizing(o, k)
    [] o.why = "local" /\ k = "unknown" -> IF o.reported = "aborted" THEN AbortingReported(o)
                                           ELSE Done(o, k)

\* DecideLocal over the evidence read so far: every branch must agree.
Agreed(o, k) == IF o.i = 1 \/ o.known = k THEN k ELSE "unknown"

\* Defective variant of ReadProof: the executor's report is taken for the
\* outcome.
ReadProofFromReport(p) ==
  LET o == op[p]
  IN  /\ o.stage = "proof"
      /\ Step(p, Concluded(o, IF o.why = "local" THEN o.reported ELSE "unknown"))
      /\ UNCHANGED <<storeVars, hostVars, brokerVars>>

\* localProof: one fresh read per branch, any failure leaves it unknown.
ReadProof(p) ==
  LET o == op[p]
      k == Agreed(o, Evidence(o.e, o.i))
  IN  /\ o.stage = "proof"
      /\ \/ Step(p, Concluded(o, "unknown"))
         \/ o.i < NumBranches /\ Step(p, Read(o, k))
         \/ o.i = NumBranches /\ Step(p, Concluded(o, k))
      /\ UNCHANGED <<storeVars, hostVars, brokerVars>>

AbortUnstarted(p) ==
  LET o == op[p]
  IN  /\ o.stage = "abort"
      /\ \/ Abort(o.e) /\ (Step(p, Finalizing(o, "aborted")) \/ Step(p, Done(o, o.known)))
         \/ UNCHANGED storeVars /\ Step(p, Done(o, o.known))
         \/ /\ hostTx[o.e] = "none"
            /\ state[o.e] # "prepared"
            /\ UNCHANGED storeVars
            /\ Step(p, ProofOf(o, "unstarted"))
      /\ UNCHANGED <<hostVars, brokerVars>>

AbortReported(p) ==
  LET o == op[p]
  IN  /\ o.stage = "abort_reported"
      /\ \/ Abort(o.e) /\ (Step(p, Finalizing(o, "aborted")) \/ Step(p, Done(o, o.known)))
         \/ UNCHANGED storeVars /\ Step(p, Done(o, o.known))
      /\ UNCHANGED <<hostVars, brokerVars>>

FinalCall(o) == <<<<o.e, o.i>>, DecisionFor(o.known), "owner">>

Finalize(p) ==
  LET o == op[p]
  IN  /\ o.stage = "finalize"
      /\ IF o.i <= o.n
         THEN Step(p, At(o, "ending", o.i)) /\ calls' = calls \cup {FinalCall(o)}
         ELSE Step(p, Done(o, o.known)) /\ UNCHANGED calls
      /\ UNCHANGED <<storeVars, hostVars, sends, held, ended>>

\* Defective variant of FinalReturns: a request without an answer is audited as
\* confirmed.
FinalReturnsOptimistic(p) ==
  LET o == op[p]
  IN  /\ o.stage = "ending"
      /\ RecordFinal(o.e, o.i, DecisionFor(o.known)) \/ UNCHANGED storeVars
      /\ Step(p, At(o, "finalize", o.i + 1))
      /\ UNCHANGED <<hostVars, brokerVars>>

\* The request returns and its receipt is audited; the next branch follows
\* whatever came of this one.
FinalReturns(p) ==
  LET o == op[p]
  IN  /\ o.stage = "ending"
      /\ \/ FinalCall(o) \in ended /\ RecordFinal(o.e, o.i, DecisionFor(o.known))
         \/ RecordFinal(o.e, o.i, "unknown")
         \/ UNCHANGED storeVars
      /\ Step(p, At(o, "finalize", o.i + 1))
      /\ UNCHANGED <<hostVars, brokerVars>>

\* The operation has returned and its slot is free; or its process stopped (or a
\* callback panicked) at any point, and a host transaction it had open is left
\* to the database.
Leave(p) ==
  /\ op[p].stage = "done"
  /\ Step(p, Idle)
  /\ UNCHANGED <<storeVars, hostVars, brokerVars>>

Crash(p) ==
  /\ op[p].stage \notin {"idle", "done"}
  /\ Step(p, Idle)
  /\ UNCHANGED <<storeVars, hostVars, brokerVars>>

----------------------------------------------------------------------------
\* The database, the broker, and the sender's background work.
DatabaseEnds(e) ==
  /\ HostCommitDone(e) \/ HostRolledBack(e)
  /\ UNCHANGED <<hostVars, op, brokerVars>>

\* The lease of a decided execution is never looked at again.
LeaseEnds(e) ==
  /\ state[e] = "prepared"
  /\ Expire(e)
  /\ UNCHANGED <<hostVars, op, brokerVars>>

\* Defective variant of Reconcile: an execution that was admitted to the broker
\* is left to its owner.
ReconcileUnstarted(e) ==
  /\ e \notin live
  /\ e \notin started
  /\ Abort(e)
  /\ UNCHANGED <<hostVars, op, brokerVars>>

Reconcile(e) ==
  /\ e \notin live
  /\ Abort(e)
  /\ UNCHANGED <<hostVars, op, brokerVars>>

HalfArrives(s) ==
  /\ s \in sends \ held
  /\ held' = held \cup {s}
  /\ UNCHANGED <<storeVars, hostVars, op, sends, calls, ended>>

EndArrives(c) ==
  /\ c \in calls \ ended
  /\ ended' = ended \cup {c}
  /\ UNCHANGED <<storeVars, hostVars, op, sends, held, calls>>

\* The broker asks about a half it holds; the sender answers from one fresh
\* read.  An unknown answer ends nothing and the broker asks again.
Check(s) ==
  LET k == Evidence(s[1], s[2])
  IN  /\ s \in held
      /\ k # "unknown"
      /\ calls' = calls \cup {<<s, DecisionFor(k), "check">>}
      /\ UNCHANGED <<storeVars, hostVars, op, sends, held, ended>>

\* A check whose request was confirmed leaves a receipt.
AfterRecovery(c) ==
  /\ c \in ended
  /\ c[3] = "check"
  /\ RecordFinal(c[1][1], c[1][2], c[2])
  /\ UNCHANGED <<hostVars, op, brokerVars>>

----------------------------------------------------------------------------
OpStep(p) ==
  \/ SendHalf(p) \/ ContextEnds(p) \/ HalfReturns(p) \/ RunLocal(p)
  \/ UnitOfWork(p) \/ LocalReturns(p) \/ ReadProof(p) \/ AbortUnstarted(p)
  \/ AbortReported(p) \/ Finalize(p) \/ FinalReturns(p) \/ Leave(p) \/ Crash(p)

Next ==
  \/ \E q \in Requests : HostReserve(q)
  \/ \E e \in Executions : HostAdvance(e) \/ DatabaseEnds(e) \/ LeaseEnds(e) \/ Reconcile(e)
  \/ \E p \in Ops : OpStep(p) \/ \E e \in Executions : Execute(p, e)
  \/ \E s \in Slots : HalfArrives(s) \/ Check(s)
  \/ \E c \in Calls : EndArrives(c) \/ AfterRecovery(c)

Spec == Init /\ [][Next]_vars

\* Leases run out and the reconciler runs on every tick; the broker asks about a
\* half for as long as it holds it and one of its end requests gets through;
\* the database ends every root transaction (the unit of work has a deadline).
\* Nothing is assumed of the operations, which may stop at any point.
FairSpec ==
  /\ Spec
  /\ \A e \in Executions : WF_vars(DatabaseEnds(e)) /\ WF_vars(LeaseEnds(e)) /\ WF_vars(Reconcile(e))
  /\ \A s \in Slots : WF_vars(Check(s))
  /\ \A c \in Calls : WF_vars(EndArrives(c))

----------------------------------------------------------------------------
\* The broker is never told to commit a message of an execution that is not
\* durably committed, nor to roll back one that is not durably aborted, by the
\* owner or by a check, however late the request is sent.
DecisionsAgree ==
  \A c \in calls : state[c[1][1]] = IF c[2] = "commit" THEN "committed" ELSE "aborted"

\* A request has a further execution only after every earlier one was durably
\* aborted, so at most one of its executions ever commits, however retries race
\* with a late COMMIT, an expired lease or the reconciler.
BusinessOnce ==
  \A q \in Requests : \A f, g \in Fences :
    f < g /\ state[<<q, g>>] # "absent" => state[<<q, f>>] = "aborted"

\* A business commit never happens before the broker holds every half of its
\* plan: there is always a message left for the check-back to make visible.
CommittedHasHalves ==
  \A e \in Executions : state[e] = "committed" => \A b \in Branches : <<e, b>> \in held

\* Positive audit receipts tell the truth about the broker: a prepared half is
\* held, a rejected one will never be, a confirmed end was carried out.
AuditTruth ==
  \A s \in Slots :
    /\ half[s] = "prepared" => s \in held
    /\ half[s] = "rejected" => s \notin sends \cup held
    /\ final[s] \in Decisions => \E w \in {"owner", "check"} : <<s, final[s], w>> \in ended

\* An outcome an operation reports or finalizes by is the one in the database,
\* whatever the local executor reported and however the reads of localProof
\* interleave with the host's COMMIT and the reconciler.
ResultProved ==
  \A p \in Ops :
    op[p].stage \in {"finalize", "ending", "done"} /\ op[p].known # "unknown"
      => state[op[p].e] = op[p].known

\* The host's unit of work is invoked at most once per execution, also when
\* Execute is called twice with one capability or again after a crash.
LocalRunsOnce ==
  [][\A p \in Ops : op'[p].stage = "local" /\ op[p].stage # "local" => op[p].e \notin ran]_vars

\* A positive receipt is final: neither the owner's late unknown result nor a
\* repeated check replaces it.
AuditsStand ==
  [][\A s \in Slots :
       /\ half[s] \in {"prepared", "rejected"} => half'[s] = half[s]
       /\ final[s] \in Decisions => final'[s] = final[s]]_vars

Ended(d) == {s \in Slots : \E w \in {"owner", "check"} : <<s, d, w>> \in ended}

Abstract == INSTANCE AtomicPublish WITH
  outcome <- state, visible <- Ended("commit"), dropped <- Ended("rollback")

\* The protocol keeps the promise of transactional publishing: one decision per
\* execution, at most one committed execution per request, messages visible
\* only after the business commit and dropped only after a durable abort.
PublishesAtomically == Abstract!ASpec

\* Every half message the broker holds is ended: no orphan stays, whatever
\* became of the operation that sent it.
HalvesResolved ==
  \A s \in Slots : s \in held ~> s \in Ended("commit") \cup Ended("rollback")

\* Every message of a committed execution becomes visible, with no help from the
\* operation that committed it.
CommittedPublished ==
  \A e \in Executions : state[e] = "committed" ~> \A b \in Branches : <<e, b>> \in Ended("commit")
=============================================================================

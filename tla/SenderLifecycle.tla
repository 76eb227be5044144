--------------------------- MODULE SenderLifecycle ---------------------------
(***************************************************************************)
(* The runtime of TransactionalSender: admission slots, the wait groups,   *)
(* the bounded check queue with its workers, the maintenance loop with its *)
(* ordered reconciliation, Start, StopAdmission and the drain of           *)
(* closeAsync (transport/rocketmq/transaction_lifecycle.go).  What an      *)
(* admitted operation does with broker and database is TxProtocol.         *)
(***************************************************************************)
EXTENDS Naturals, FiniteSets, Sequences, SequencesExt

CONSTANTS
    Callers,        \* calls of Execute, Reserve, Retry or Replan
    Checks,         \* check-backs the broker dispatches
    Workers,        \* goroutines of checkWorker
    Sends,          \* Limits.Sends
    CheckQueue,     \* Limits.CheckQueue
    Execs,          \* prepared executions, numbered in the order of lease_until
    ReconcileBatch, \* Limits.ReconcileBatch
    MaxOutages      \* bound on database outages

LifecycleAssumption ==
    /\ Sends \in Nat \ {0}
    /\ CheckQueue \in Nat
    /\ ReconcileBatch \in Nat \ {0}
    /\ MaxOutages \in Nat
    /\ Execs \subseteq Nat
    /\ IsFiniteSet(Callers) /\ IsFiniteSet(Workers)

VARIABLES
    start,          \* where Start stands
    startErr,       \* Start met an error
    started, stopping, checksClosing, dbHealthy, stopped,
    backend,        \* transactionBackend: none, starting, open, failed, closed
    caller,         \* stage of each admitted or waiting call
    queue,          \* the channel checks
    worker,         \* stage of each checkWorker
    check,          \* what became of each dispatched check, or the worker that runs it
    maint,          \* stage of the maintain goroutine
    batch,          \* executions the running ReconcileOnce has read
    closer,         \* stage of the goroutine of closeAsync
    dbUp, outages,  \* environment: the database answers
    expired,        \* prepared executions whose lease has lapsed
    locked          \* of those, rows locked by a host transaction

flags == <<started, stopping, checksClosing, dbHealthy, stopped>>
startVars == <<start, startErr, backend>>
checkVars == <<queue, worker, check>>
maintVars == <<maint, batch>>
env == <<dbUp, outages, expired, locked>>
vars == <<flags, startVars, caller, checkVars, maintVars, closer, env>>

InSlot == {c \in Callers : caller[c] \in {"slot", "admitted"}}
InGroup == {c \in Callers : caller[c] \in {"admitted", "leaving"}}
Running == {w \in Workers : worker[w] = "running"}

Init ==
    /\ start = "new" /\ startErr = FALSE
    /\ started = FALSE /\ stopping = FALSE /\ checksClosing = FALSE
    /\ dbHealthy = FALSE /\ stopped = FALSE
    /\ backend = "none"
    /\ caller = [c \in Callers |-> "idle"]
    /\ queue = <<>>
    /\ worker = [w \in Workers |-> "none"]
    /\ check = [k \in Checks |-> "idle"]
    /\ maint = "none" /\ batch = <<>>
    /\ closer = "none"
    /\ dbUp = TRUE /\ outages = 0
    /\ expired = Execs /\ locked \in SUBSET Execs

-----------------------------------------------------------------------------
(* Start *)

\* Start under the mutex: only once, and never after StopAdmission.
StartBegin ==
    /\ start = "new" /\ ~stopping
    /\ start' = "validating"
    /\ UNCHANGED <<startErr, backend, flags, caller, checkVars, maintVars, closer, env>>

\* Validate; the workers start before the backend that feeds them.
StartValidate ==
    /\ start = "validating"
    /\ IF dbUp
       THEN /\ start' = "building" /\ startErr' = FALSE
            /\ worker' = [w \in Workers |-> "idle"]
       ELSE /\ start' = "finishing" /\ startErr' = TRUE
            /\ UNCHANGED worker
    /\ UNCHANGED <<backend, flags, caller, queue, check, maintVars, closer, env>>

\* The factory fails, or hands over a backend whose Start is then called.
StartBuild ==
    /\ start = "building"
    /\ \/ start' = "opening" /\ backend' = "starting" /\ UNCHANGED startErr
       \/ start' = "finishing" /\ startErr' = TRUE /\ UNCHANGED backend
    /\ UNCHANGED <<flags, caller, checkVars, maintVars, closer, env>>

StartOpen ==
    /\ start = "opening"
    /\ start' = "finishing"
    /\ \/ backend' = "open" /\ UNCHANGED startErr
       \/ backend' = "failed" /\ startErr' = TRUE
    /\ UNCHANGED <<flags, caller, checkVars, maintVars, closer, env>>

\* Mutant: a failed Start returns before close(startDone).
StartFinishLeavingStartDone ==
    /\ start = "finishing"
    /\ start' = IF startErr THEN "finishing" ELSE "done"
    /\ started' = ~startErr /\ dbHealthy' = ~startErr
    /\ maint' = IF startErr \/ stopping THEN maint ELSE "waiting"
    /\ IF startErr \/ stopping
       THEN stopping' = TRUE /\ closer' = IF closer = "none" THEN "start" ELSE closer
       ELSE UNCHANGED <<stopping, closer>>
    /\ UNCHANGED <<startErr, backend, checksClosing, stopped, caller, checkVars, batch, env>>

\* The flags, the maintain goroutine unless stopping, close(startDone); after
\* an error or a stop meanwhile, StopAdmission and closeAsync.
StartFinish ==
    /\ start = "finishing"
    /\ start' = "done"
    /\ started' = ~startErr /\ dbHealthy' = ~startErr
    /\ maint' = IF startErr \/ stopping THEN maint ELSE "waiting"
    /\ IF startErr \/ stopping
       THEN stopping' = TRUE /\ closer' = IF closer = "none" THEN "start" ELSE closer
       ELSE UNCHANGED <<stopping, closer>>
    /\ UNCHANGED <<startErr, backend, checksClosing, stopped, caller, checkVars, batch, env>>

-----------------------------------------------------------------------------
(* Admission *)

Call(c) ==
    /\ caller[c] = "idle"
    /\ caller' = [caller EXCEPT ![c] = "waiting"]
    /\ UNCHANGED <<flags, startVars, checkVars, maintVars, closer, env>>

\* The three cases of admit's select: a slot, sendStop, the caller's context.
AdmitSlot(c) ==
    /\ caller[c] = "waiting"
    /\ Cardinality(InSlot) < Sends
    /\ caller' = [caller EXCEPT ![c] = "slot"]
    /\ UNCHANGED <<flags, startVars, checkVars, maintVars, closer, env>>

AdmitStopped(c) ==
    /\ caller[c] = "waiting" /\ stopping
    /\ caller' = [caller EXCEPT ![c] = "refused"]
    /\ UNCHANGED <<flags, startVars, checkVars, maintVars, closer, env>>

AdmitCanceled(c) ==
    /\ caller[c] = "waiting"
    /\ caller' = [caller EXCEPT ![c] = "refused"]
    /\ UNCHANGED <<flags, startVars, checkVars, maintVars, closer, env>>

\* Mutant: admission trusts the select and does not look at stopping again.
ReadyWithoutStop ==
    /\ started /\ dbHealthy
    /\ Cardinality(Running) + Len(queue) < Cardinality(Workers) + CheckQueue

Ready ==
    /\ started /\ ~stopping /\ dbHealthy
    /\ Cardinality(Running) + Len(queue) < Cardinality(Workers) + CheckQueue

\* The second look under the mutex; sendWG.Add happens in the same section.
AdmitDecide(c) ==
    /\ caller[c] = "slot"
    /\ caller' = [caller EXCEPT ![c] = IF Ready THEN "admitted" ELSE "refused"]
    /\ UNCHANGED <<flags, startVars, checkVars, maintVars, closer, env>>

\* A store call of an admitted operation fails (storeError).
StoreError(c) ==
    /\ caller[c] = "admitted" /\ ~dbUp
    /\ dbHealthy' = FALSE
    /\ UNCHANGED <<started, stopping, checksClosing, stopped, startVars, caller,
                   checkVars, maintVars, closer, env>>

\* The deferred release: first the slot, then sendWG.Done.
ReleaseSlot(c) ==
    /\ caller[c] = "admitted"
    /\ caller' = [caller EXCEPT ![c] = "leaving"]
    /\ UNCHANGED <<flags, startVars, checkVars, maintVars, closer, env>>

Leave(c) ==
    /\ caller[c] = "leaving"
    /\ caller' = [caller EXCEPT ![c] = "returned"]
    /\ UNCHANGED <<flags, startVars, checkVars, maintVars, closer, env>>

-----------------------------------------------------------------------------
(* Check-backs *)

\* Mutant: dispatch reports a check as taken although the queue is full.
DispatchDropping(k) ==
    /\ check[k] = "idle" /\ backend \in {"starting", "open"}
    /\ check' = [check EXCEPT ![k] = IF checksClosing THEN "rejected" ELSE "queued"]
    /\ queue' = IF ~checksClosing /\ Len(queue) < CheckQueue THEN Append(queue, k) ELSE queue
    /\ UNCHANGED <<flags, startVars, caller, worker, maintVars, closer, env>>

\* Mutant: the channel is made one larger than the limit.
DispatchOversized(k) ==
    /\ check[k] = "idle" /\ backend \in {"starting", "open"}
    /\ IF ~checksClosing /\ Len(queue) <= CheckQueue
       THEN queue' = Append(queue, k) /\ check' = [check EXCEPT ![k] = "queued"]
       ELSE UNCHANGED queue /\ check' = [check EXCEPT ![k] = "rejected"]
    /\ UNCHANGED <<flags, startVars, caller, worker, maintVars, closer, env>>

\* The driver may dispatch from the moment its Start is called until it is
\* closed.  The buffered send never blocks; a full or closing queue rejects.
Dispatch(k) ==
    /\ check[k] = "idle" /\ backend \in {"starting", "open"}
    /\ IF ~checksClosing /\ Len(queue) < CheckQueue
       THEN queue' = Append(queue, k) /\ check' = [check EXCEPT ![k] = "queued"]
       ELSE UNCHANGED queue /\ check' = [check EXCEPT ![k] = "rejected"]
    /\ UNCHANGED <<flags, startVars, caller, worker, maintVars, closer, env>>

\* range s.checks; RunningChecks is raised a moment later, in runCheckWork.
Take(w) ==
    /\ worker[w] = "idle" /\ queue # <<>>
    /\ worker' = [worker EXCEPT ![w] = "taken"]
    /\ check' = [check EXCEPT ![Head(queue)] = w]
    /\ queue' = Tail(queue)
    /\ UNCHANGED <<flags, startVars, caller, maintVars, closer, env>>

RunWork(w) ==
    /\ worker[w] = "taken"
    /\ worker' = [worker EXCEPT ![w] = "running"]
    /\ UNCHANGED <<flags, startVars, caller, queue, check, maintVars, closer, env>>

\* The evidence read and the answer; a failed read, and a panic, clear
\* dbHealthy.
FinishWork(w) ==
    /\ worker[w] = "running"
    /\ worker' = [worker EXCEPT ![w] = "idle"]
    /\ check' = [k \in Checks |-> IF check[k] = w THEN "answered" ELSE check[k]]
    /\ dbHealthy' \in {dbHealthy /\ dbUp, FALSE}
    /\ UNCHANGED <<started, stopping, checksClosing, stopped, startVars, caller, queue,
                   maintVars, closer, env>>

\* The range loop ends when the channel is closed and drained.
WorkerExit(w) ==
    /\ worker[w] = "idle" /\ checksClosing /\ queue = <<>>
    /\ worker' = [worker EXCEPT ![w] = "exited"]
    /\ UNCHANGED <<flags, startVars, caller, queue, check, maintVars, closer, env>>

-----------------------------------------------------------------------------
(* Maintenance *)

\* A tick: Validate reads the database; the flag is written a moment later.
MaintValidate ==
    /\ maint = "waiting"
    /\ maint' = IF dbUp THEN "valid" ELSE "invalid"
    /\ UNCHANGED <<flags, startVars, caller, checkVars, batch, closer, env>>

\* Mutant: only a success is written to the flag.
MaintHealthOptimistic ==
    /\ maint \in {"valid", "invalid"}
    /\ dbHealthy' = (dbHealthy \/ maint = "valid")
    /\ maint' = IF maint = "valid" THEN "scan" ELSE "waiting"
    /\ UNCHANGED <<started, stopping, checksClosing, stopped, startVars, caller, checkVars,
                   batch, closer, env>>

MaintHealth ==
    /\ maint \in {"valid", "invalid"}
    /\ dbHealthy' = (maint = "valid")
    /\ maint' = IF maint = "valid" THEN "scan" ELSE "waiting"
    /\ UNCHANGED <<started, stopping, checksClosing, stopped, startVars, caller, checkVars,
                   batch, closer, env>>

\* ReconcileOnce reads the oldest expired executions, at most a batch of them.
Oldest == LET s == SetToSortSeq(expired, <) IN SubSeq(s, 1, IF Len(s) < ReconcileBatch THEN Len(s) ELSE ReconcileBatch)

ReconcileScan ==
    /\ maint = "scan"
    /\ IF dbUp THEN maint' = "abort" /\ batch' = Oldest
               ELSE maint' = "waiting" /\ batch' = <<>>
    /\ UNCHANGED <<flags, startVars, caller, checkVars, closer, env>>

\* Mutant: a failing ReconcileOnce ends the maintain goroutine.
ReconcileAbortGivingUp ==
    /\ maint = "abort" /\ batch # <<>>
    /\ IF dbUp /\ Head(batch) \notin locked
       THEN expired' = expired \ {Head(batch)} /\ batch' = Tail(batch) /\ UNCHANGED maint
       ELSE maint' = "exited" /\ batch' = <<>> /\ UNCHANGED expired
    /\ UNCHANGED <<flags, startVars, caller, checkVars, closer, dbUp, outages, locked>>

\* One abort of the batch.  A row locked by a host transaction runs into the
\* deadline, as does a database that is down: the first error ends the batch.
ReconcileAbort ==
    /\ maint = "abort" /\ batch # <<>>
    /\ IF dbUp /\ Head(batch) \notin locked
       THEN expired' = expired \ {Head(batch)} /\ batch' = Tail(batch) /\ UNCHANGED maint
       ELSE maint' = "waiting" /\ batch' = <<>> /\ UNCHANGED expired
    /\ UNCHANGED <<flags, startVars, caller, checkVars, closer, dbUp, outages, locked>>

ReconcileDone ==
    /\ maint = "abort" /\ batch = <<>>
    /\ maint' = "waiting"
    /\ UNCHANGED <<flags, startVars, caller, checkVars, batch, closer, env>>

MaintStop ==
    /\ maint = "waiting" /\ closer = "maintaining"
    /\ maint' = "exited"
    /\ UNCHANGED <<flags, startVars, caller, checkVars, batch, closer, env>>

-----------------------------------------------------------------------------
(* StopAdmission, Close and the goroutine of closeAsync *)

StopAdmission ==
    /\ ~stopping
    /\ stopping' = TRUE
    /\ UNCHANGED <<started, checksClosing, dbHealthy, stopped, startVars, caller, checkVars,
                   maintVars, closer, env>>

Close ==
    /\ closer = "none"
    /\ stopping' = TRUE
    /\ closer' = "start"
    /\ UNCHANGED <<started, checksClosing, dbHealthy, stopped, startVars, caller, checkVars,
                   maintVars, env>>

\* <-startDone: closed from the beginning, and again while Start runs.
CloseAwaitStart ==
    /\ closer = "start" /\ start \in {"new", "done"}
    /\ closer' = "sends"
    /\ UNCHANGED <<flags, startVars, caller, checkVars, maintVars, env>>

\* sendWG.Wait returns, close(maintStop).
CloseAwaitSends ==
    /\ closer = "sends" /\ InGroup = {}
    /\ closer' = "maintaining"
    /\ UNCHANGED <<flags, startVars, caller, checkVars, maintVars, env>>

\* <-maintDone, then checksClosing and close(checks) in one section.
CloseAwaitMaint ==
    /\ closer = "maintaining" /\ maint \in {"none", "exited"}
    /\ checksClosing' = TRUE
    /\ closer' = "workers"
    /\ UNCHANGED <<started, stopping, dbHealthy, stopped, startVars, caller, checkVars,
                   maintVars, env>>

\* Mutant: the backend is closed without checkWG.Wait.
CloseBackendEarly ==
    /\ closer = "workers"
    /\ backend' = IF backend = "open" THEN "closed" ELSE backend
    /\ closer' = "backend"
    /\ UNCHANGED <<flags, start, startErr, caller, checkVars, maintVars, env>>

\* checkWG.Wait, then backend.Close, which does nothing unless it was started.
CloseBackend ==
    /\ closer = "workers"
    /\ \A w \in Workers : worker[w] \in {"none", "exited"}
    /\ backend' = IF backend = "open" THEN "closed" ELSE backend
    /\ closer' = "backend"
    /\ UNCHANGED <<flags, start, startErr, caller, checkVars, maintVars, env>>

CloseDone ==
    /\ closer = "backend"
    /\ closer' = "done"
    /\ stopped' = TRUE /\ started' = FALSE
    /\ UNCHANGED <<stopping, checksClosing, dbHealthy, startVars, caller, checkVars, maintVars, env>>

-----------------------------------------------------------------------------
(* Environment *)

DatabaseFails ==
    /\ dbUp /\ outages < MaxOutages
    /\ dbUp' = FALSE /\ outages' = outages + 1
    /\ UNCHANGED <<flags, startVars, caller, checkVars, maintVars, closer, expired, locked>>

DatabaseRecovers ==
    /\ ~dbUp
    /\ dbUp' = TRUE
    /\ UNCHANGED <<flags, startVars, caller, checkVars, maintVars, closer, outages, expired, locked>>

\* A host transaction ends: its execution is committed, or open for the abort.
HostEnds(e) ==
    /\ e \in locked
    /\ locked' = locked \ {e}
    /\ expired' \in {expired, expired \ {e}}
    /\ UNCHANGED <<flags, startVars, caller, checkVars, maintVars, closer, dbUp, outages>>

Terminated == stopped /\ UNCHANGED vars

CallerStep(c) ==
    \/ AdmitSlot(c) \/ AdmitStopped(c) \/ AdmitCanceled(c) \/ AdmitDecide(c)
    \/ ReleaseSlot(c) \/ Leave(c)
WorkerStep(w) == Take(w) \/ RunWork(w) \/ FinishWork(w) \/ WorkerExit(w)
StartStep == StartValidate \/ StartBuild \/ StartOpen \/ StartFinish
MaintStep ==
    \/ MaintValidate \/ MaintHealth \/ ReconcileScan \/ ReconcileAbort \/ ReconcileDone
CloserStep ==
    \/ CloseAwaitStart \/ CloseAwaitSends \/ CloseAwaitMaint \/ CloseBackend \/ CloseDone

Next ==
    \/ StartBegin \/ StartStep
    \/ \E c \in Callers : Call(c) \/ CallerStep(c) \/ StoreError(c)
    \/ \E k \in Checks : Dispatch(k)
    \/ \E w \in Workers : WorkerStep(w)
    \/ MaintStep \/ MaintStop
    \/ StopAdmission \/ Close \/ CloserStep
    \/ DatabaseFails \/ DatabaseRecovers
    \/ \E e \in Execs : HostEnds(e)
    \/ Terminated

Spec == Init /\ [][Next]_vars

\* Every goroutine runs; calls have deadlines, so an admitted operation leaves;
\* host transactions end.  Nobody has to call Start, Close or the SDK, and the
\* database may stay down.  The select of maintain picks maintStop in the end.
Fairness ==
    /\ WF_vars(StartStep) /\ WF_vars(MaintStep) /\ SF_vars(MaintStop) /\ WF_vars(CloserStep)
    /\ \A c \in Callers : WF_vars(AdmitDecide(c) \/ ReleaseSlot(c) \/ Leave(c))
    /\ \A w \in Workers : WF_vars(WorkerStep(w))
    /\ \A e \in Execs : WF_vars(HostEnds(e))

FairSpec == Spec /\ Fairness

-----------------------------------------------------------------------------
(* Properties *)

\* The stages of all goroutines and the flags.
TypeOK ==
    /\ start \in {"new", "validating", "building", "opening", "finishing", "done"}
    /\ startErr \in BOOLEAN
    /\ started \in BOOLEAN /\ stopping \in BOOLEAN /\ checksClosing \in BOOLEAN
    /\ dbHealthy \in BOOLEAN /\ stopped \in BOOLEAN
    /\ backend \in {"none", "starting", "open", "failed", "closed"}
    /\ caller \in [Callers -> {"idle", "waiting", "slot", "admitted", "leaving", "refused", "returned"}]
    /\ queue \in Seq(Checks) /\ Len(queue) <= CheckQueue
    /\ worker \in [Workers -> {"none", "idle", "taken", "running", "exited"}]
    /\ check \in [Checks -> {"idle", "queued", "answered", "rejected"} \cup Workers]
    /\ maint \in {"none", "waiting", "valid", "invalid", "scan", "abort", "exited"}
    /\ batch \in Seq(Execs)
    /\ closer \in {"none", "start", "sends", "maintaining", "workers", "backend", "done"}
    /\ dbUp \in BOOLEAN /\ outages \in Nat
    /\ expired \subseteq Execs /\ locked \subseteq Execs

\* closeAsync drains in order.  Once sendWG.Wait has returned no operation is
\* counted any more (sendWG.Add never races with Wait); the check channel is
\* closed only after maintenance ended; and when the backend is closed no
\* operation, maintenance step or check that could use it is left.
DrainsInOrder ==
    /\ closer \in {"maintaining", "workers", "backend", "done"} =>
           stopping /\ start \in {"new", "done"} /\ InGroup = {}
    /\ checksClosing => maint \in {"none", "exited"}
    /\ backend = "closed" => queue = <<>> /\ \A w \in Workers : worker[w] = "exited"

\* When Stopped is reported nothing of the runtime is alive or can come to
\* life again: no worker, no maintain goroutine, no Start still under way, no
\* open backend, no accepted check left unanswered.
StoppedIsQuiet ==
    stopped =>
        /\ start \in {"new", "done"} /\ ~started
        /\ \A w \in Workers : worker[w] \in {"none", "exited"}
        /\ maint \in {"none", "exited"}
        /\ backend \notin {"starting", "open"}
        /\ InGroup = {}
        /\ \A k \in Checks : check[k] \in {"idle", "answered", "rejected"}

\* A check the driver was told is taken is answered, even if Close starts
\* while it waits in the queue: a closed channel is drained, not discarded.
AcceptedChecksAnswered ==
    \A k \in Checks : (check[k] = "queued") ~> (check[k] = "answered")

\* Once begun, the drain of closeAsync ends, whatever Start, the callers, the
\* checks and the database are doing.
CloseTerminates == (closer # "none") ~> stopped

\* maintain may overwrite dbHealthy with an old Validate result, but if the
\* database stays down the sender stays unready in the end, and if it stays up
\* the flag recovers, unless the sender stops.
HealthFollows ==
    /\ <>[](~dbUp) => <>[](~Ready)
    /\ <>[]dbUp => []<>(dbHealthy \/ maint \in {"none", "exited"})

\* ReconcileOnce stops at the first failure of its ordered batch.  An old
\* execution locked by its host holds the younger ones up, but only until the
\* host transaction ends: every expired execution is decided, or the sender
\* stops, or the database stays down.
ExpiredDecided ==
    \A e \in Execs :
        (maint # "none" /\ e \in expired) ~> (e \notin expired \/ stopping \/ ~dbUp)
=============================================================================

# Verification of reliable-messaging

This directory holds TLA+ specifications of the `reliable-messaging` SDK, TLC
configurations that check them on small instances, and proofs checked by TLAPS
that hold for every instance. `PROJECT.json` is the index: it links each
definition to the source lines it models and lists runs, mutants, hazards and
theorems.

## The system

The SDK moves messages from a host's database transaction to a broker, and from
a broker to a host's handler, without a distributed transaction. It has two
ways out and two ways in.

| Part | Source | What it keeps | What it does |
|---|---|---|---|
| Leased Outbox | `storage/mysql`, `storage/mongo`, `outbox` | a row per message: state, token, version, lease, counters | `Append` in the host's transaction; `ClaimDue`; `Confirm`, `Retry`, `Quarantine`, each fenced by token, version, state and lease on the database clock; `RequeueConfirmed` by host authorization |
| Relay | `relay` | one batch of claims per `Run` | claims, publishes concurrently, settles each claim, polls |
| Transaction store | `storage/transaction/mysql`, `.../mongo`, `transaction` | request, execution and witness rows, a receipt per branch | `Reserve`, `Retry`/`Replan`, `BeginPrepare`, `Bind`/`CommitWitness` in the host's root transaction, `Abort`, `ReconcileOnce`, `Evidence`, `RecordHalf`, `RecordFinal`, `RecordRecoveryFinal` |
| Transactional sender | `transport/rocketmq/transaction_*.go` | owned operations, admission slots, check queue | half messages, local executor, proof, end of transaction, check-back, reconciliation, drain |
| Receipt Outbox | `delivery/mysql` | a staged message per identity, ordered by aggregate | `Pending`, `Published`, `Confirm`, `Retry`, `Hold`, `RearmAck` |
| NSQ transport | `transport/nsq` | active deliveries, remembered causes, producers per address | settlement once, attempts limit, failed handoff, drain |
| RocketMQ transport | `transport/rocketmq/{publisher,subscriber}.go` | slots, deliveries, invisibility | receive, renew, settle, drain |
| RocketMQ driver | `transport/rocketmq/internal/driver` | connections, telemetry sessions, transaction handles, process queues | send with attempts, end and recover transactions, push consumption, start and stop |
| Routing, catalog | `transport/routing*.go`, `catalog` | configuration | validation at start |
| Formats | `message`, `wire`, `transaction/*codec.go` | none | encodings, digests, protection |
| Observation | `internal/transactionobservation`, `outbox/status*.go` | none | read-only counts |
| Signaling | `signaling` | none | lossy wake hints over Redis |
| Python SDK | `python/src/reliable_messaging` | as above | asyncio counterparts of all of it |

What makes it hard: several relays and senders share the tables; every call to
the database or the broker can fail before or after its effect; a statement
outlives the caller that gave up on it; a half message or an end request
arrives after its sender is gone; the host's COMMIT is still in flight when its
executor returns; leases lapse while work continues. `PROJECT.json` lists these
hazards at the lines where they bite.

## Modules

```
OutboxStore <- Relay <- MCRelay                     (runs relay_*)
                 ^
                 +-- RelayProofs                    (theorems)

TxStore <- TxProtocol <- MCTx                       (runs tx_*)
              |   ^
              |   +-- TxProofs                      (theorems)
              +------ AtomicPublish (INSTANCE)

ReceiptOutbox <- ReceiptProofs                      (theorems)
DriverProducer <- DriverProofs                      (theorems)

NsqSubscriber, PyNsqSubscriber       -> NsqSubscribers    <- NsqSubscriberProofs
RocketSubscriber, PyRocketSubscriber -> RocketSubscribers <- RocketSubscriberProofs
NsqSubscription, NsqSubscribers, RocketSubscribers -> Subscribers <- SubscriberProofs
                                                    (theorems)

RocketPublisher <- NsqPublisher, NsqProvisioning, PyRocketPublisher
                             -> Publishers <- PublisherProofs       (theorems)

Subscribers, Publishers <- MCTransports             (run transports)
MCStores, MCRuntime, MCProgress: every other component by INSTANCE
```

Every module below models one component: its state as variables, one action per
handler or per stretch of code between two points where another goroutine,
thread, task or process may come in, and the environment it needs.

| Module | Source | What takes steps beside the code |
|---|---|---|
| `OutboxStore`, `Relay` | `storage/mysql`, `relay` | two relays, host, supervisor, broker, clock |
| `MongoOutbox` | `storage/mongo` | host transactions, workers, clock, rot of stored bytes |
| `TxStore`, `TxProtocol` | `storage/transaction/mysql`, `transport/rocketmq/transaction_sender.go` | host, broker, reconciler |
| `MongoTxStore` | `storage/transaction/mongo` | sessions with snapshots, write conflicts, unknown commits |
| `SqlTxStore` | `python/.../transaction_mysql.py` | sessions with row locks, statement by statement |
| `ReceiptOutbox` | `delivery/mysql`, `python/.../durable.py` | senders with stale copies, receiver, host |
| `SenderLifecycle` | `transport/rocketmq/transaction_lifecycle.go` | callers, checks, workers, closer, database |
| `NsqSubscription` | `transport/nsq/subscription.go` | nsqd, crashes, handlers that settle from elsewhere |
| `NsqSubscriber` | `transport/nsq/subscriber.go`, `handoff_transport.go` | Subscribe and Close calls, handlers |
| `NsqPublisher` | `transport/nsq/{publisher,managed_publisher}.go` | callers, closers (over `RocketPublisher`, whose protocol it follows) |
| `NsqProvisioning` | `transport/nsq/provisioner.go` | hosts, nsqd nodes that fail, publishers |
| `RocketPublisher`, `RocketSubscriber` | `transport/rocketmq/{publisher,subscriber}.go` | callers and closers; broker, handlers, pollers |
| `DriverClient`, `DriverProducer`, `PushConsumer` | `transport/rocketmq/internal/driver` | servers, loops and readers; broker and hosts; pools, timers, scans |
| `PyRelay` | `python/.../{relay,sqlalchemy,delivery}.py` | hosts, receiver |
| `PyExecute`, `PySender` | `python/.../{rocketmq_transaction,_rocketmq_transaction_driver}.py` | cancellation at every await; callers, pool threads, closer |
| `PyNsqSubscriber`, `PyRocketPublisher`, `PyRocketSubscriber` | `python/.../{nsq,rocketmq}.py` | nsqd or broker, threads behind cancelled tasks, stop |

### OutboxStore and Relay

`OutboxStore` is the `rm_outbox` table. Each operator is one committed
statement or transaction of `storage/mysql`: `Append`, `ClaimDue` (including
the rows it quarantines because their content no longer matches the
fingerprint), `Update` for the three settlements, and `RequeueConfirmed`.
Database time is a countdown per row, `wait` until `next_attempt_at` and `lease`
until `lease_until`, and `StoreTick` lowers them. Tokens are drawn in order, so
that a fresh one differs from all earlier ones, as 16 random bytes do.

`Relay` adds the callers. `run[w]` is where `Run` stands; `claim[t]` is the life
of the claim with token `t`:

| stage | `relay.go` |
|---|---|
| `claimed` | handed out by `ClaimDue`, goroutine not started |
| `publishing`, `taken` | in `Publish`; the broker has, or has not yet, accepted |
| `settling` | outcome known, settlement not yet sent |
| `writing` | the settlement statement has its timestamp |
| `abandoned` | the caller timed out or died, the statement may still run |

A settlement is two steps because `UTC_TIMESTAMP(6)` is fixed when the statement
starts, while the row is read once its lock is granted. `ScanFails` covers a
`ClaimDue` that rolled back and one that committed without its reply. The host
(`HostAppend`, `HostAuthorize`, `HostRequeue`), the supervisor (`Start`,
`Cancel`), the broker, the clock and the decay of stored bytes (`Damage`) are the
environment. `ledger` is history that no action reads.

### TxStore, TxProtocol and AtomicPublish

`TxStore` is the three tables of `storage/transaction/mysql` and the row lock of
the host's root transaction. An execution is a pair of request and fence; a slot
is an execution with a branch. `hostTx[e]` goes `none`, `bound` (after `Bind`),
`staged` (after `CommitWitness`), `committing`, and back to `none` with or
without the commit. While it is not `none`, statements that need the row wait,
which is what their guards say. Replan and Retry are one action, `Advance`: they
differ in the plan's content only, and a further execution has a new fence in
both.

`TxProtocol` is `TransactionalSender.execute` as a program counter per
operation (`op[p].stage`), the unit of work it calls, and everything around it:

| stage | `transaction_sender.go` |
|---|---|
| `send`, `sent` | loop over the branches, before and inside `Prepare` |
| `abort` | `abortUnstarted` |
| `local` | inside the local executor |
| `proof` | `localProof`, one evidence read per step |
| `abort_reported` | `Abort` after a reported abort without proof |
| `finalize`, `ending` | loop of `finalize`, before and inside the end request |
| `done` | returned |

`sends` and `calls` are requests to the broker, `held` and `ended` what the
broker made of them. A request stays possible after its sender timed out or
crashed; a half that was positively rejected is withdrawn. `Check` is the
broker's check-back answered from one evidence read, `AfterRecovery` the receipt
it leaves, `Reconcile` one abort by `ReconcileOnce`. What the local executor
reports is arbitrary, since the code takes it for a hint only.

`AtomicPublish` is the promise: an execution is decided once, its messages are
visible only after the commit and dropped only after the abort, and a further
execution of the request opens only after the previous one was aborted.

Abstracted: message bytes, digests, plans and routes (an execution's identity
stands for them), error codes, statistics, observers, and the value of
timestamps other than their order.

### The stores below TxStore

`TxProtocol`, its runs and its proofs speak of `TxStore`, in which every
operation is one step. `MongoTxStore` and `SqlTxStore` show that two other
databases keep that promise. In Mongo an execution and its witnesses are one
document; single-document updates wait for the transaction that has written the
document, transactions read a snapshot and fail on a write conflict, and a
commit may be carried out without an answer. In `SqlTxStore` a method is a
session that locks rows one statement at a time and applies its writes at
COMMIT. `RefinesTxStore` maps both to `TxStore` (the committed rows are the
mapping) and says that every step is a step of it or changes nothing.
`PyExecute` does the same one level up: the asyncio task of `execute`, its
shielded caller, the lease and the local task implement `TxProtocol`
(`RefinesTxProtocol`), so that what is proved of the protocol holds of both
SDKs' senders.

### The transports

`NsqSubscription` is the settlement of a delivery: two possible settlers and one
answer, the attempt budget nsqd counts, the causes one process remembers and
another does not, the handoff whose answer is lost. `NsqSubscriber` is who owns
consumers and handoff producers while `Subscribe` and retryable `Close` calls
overlap. It assumes of go-nsq that no handler starts once `StopChan` is closed.
`NsqProvisioning` follows `EnsureChannel` request by request over nodes that
fail before or after the effect; nsqd keeps messages for the first channel of a
topic only while it has none.

`RocketSubscriber` has the pollers that reserve slots before they receive, the
renewals that race settlement, and the audit at the attempts limit. Both
publishers keep a slot and a count for a send their caller has given up.
`DriverAttempts` in the publishers bounds how often the driver tries for one send.
The constructor asks for 1, but the server's settings replace that
(`producer_options.go:166`), so the runs have 2 and the theorems any number; each
send remembers the attempts it took.

`PushConsumer` is the driver's own consumer; the lite variants are left out. An
acknowledgement ends with OK or with an invalid handle, since `ack0` returns the
answer as it came. A nack and a forwarding end with OK only, since their requests
make an error of every other status, which is retried (`push_consumer.go:122-128`).

What ends a component may fail too: `stopClosesLate` is a Python NSQ `stop` whose
budget ends before its readers have closed, `shutdownEnds` of `PyRocketPublisher`
and `shutdownRaises` of `PySender` a client whose shutdown raises, `ReconcileFails`
and `reconcileRaises` a batch of the reconciler cut short by an error.
`DriverClient` leaves out the heartbeat branch of a recovering session
(`client.go` 154-164), since a failed gRPC stream only fails again, assumes one
topic at start, and makes the calls of `notifyClientTermination` like those of
any loop.

### Components side by side

The composites `Subscribers`, `Publishers`, `MCTransports` (which is either of
them), `MCStores`, `MCRuntime` and `MCProgress` instantiate many components in
one specification. The components share no variables, except that two instances
of a module may use the same ones. `part` (`subPart`, `pubPart` and `side` in the
transports) is chosen by the initial state, never changes, and says whose steps
are taken; all else stays put. The state space is therefore the sum of the components' own,
and `part = "x" => X!Inv` says exactly that `X!Inv` is an invariant of component
`x`. The interaction of components that do share state is in the modules
themselves: relays with the table, senders with the store and the broker.

## Runs

| Run | Instance | Checks |
|---|---|---|
| `relay_safety` | 2 records, 2 relays, batch 2, lease 2, 2 replays, 1 slip | `TypeOK`, `ExclusiveLease`, `ConfirmedWasAccepted`, `CountersAccount`, `ReplayOncePerAuthorization`, `TerminalUntilAuthorized` |
| `relay_liveness` | 2 records, 1 relay, batch 2, 2 slips, fair | `EventuallySettled` |
| `tx_branches` | 1 request, 2 branches, 1 fence, 2 operations, fair | `TypeOK`, `CommittedHasHalves`, `AuditTruth`, `ResultProved`, `LocalRunsOnce`, `AuditsStand`, `HalvesResolved`, `CommittedPublished` |
| `tx_retry` | 1 request, 1 branch, 2 fences, 2 operations | `DecisionsAgree`, `BusinessOnce` |
| `tx_refines` | 1 request, 1 branch, 2 fences, 1 operation | `PublishesAtomically` |
| `transports` | five subscribers and four publishers | settlement, budgets, outcomes, drains; table below |
| `stores` | seven instances of the stores and of Python's `execute` | evidence, leases, refinements; table below |
| `runtime` | seven instances of the driver, the senders and Python's relay | halves, shutdown, drain order, wakeups; table below |
| `progress` | twenty small instances, each fair | liveness; table below |
| `driver_rejected` | plain sends with attempts | `RejectedIsAbsent`, violated |
| `driver_stop` | one endpoint, two calling loops, fair | `StopEnds`, violated |
| `push_nack` | the push consumer of `progress`, fair | `NackForgiven`, violated |

The relay runs show that a takeover needs a lapsed lease, that a late
settlement changes nothing and spends no budget, that a confirmation is evidence
of acceptance, that a resubmitted authorization replays nothing twice, and that
no lost claim is lost for ever. The transaction runs show that the broker hears
durable decisions only, that a business commit always has its messages on the
broker, that receipts are true and final, that a unit of work is invoked once,
that the protocol implements atomic publishing, and that recovery needs no help
from the operation that failed.

The properties of the composites say one thing of several components; each
conjunct names the component's own property, which its module states and explains.

| Property of `transports` | Says | By component |
|---|---|---|
| `NothingLost` | a message leaves the broker only accepted or durably recorded as failed | `NothingLost` of all subscribers |
| `BudgetHolds` | the attempts limit is the channel's or the group's, whichever process had the earlier deliveries; in RocketMQ a failure is audited only by a delivery at the limit | `BudgetHolds` of NSQ and Python; `AuditAtLimit` of RocketMQ |
| `OneSettlement` | a delivery is settled once, and no renewal undoes or outlives that | NSQ `OneAnswer`; RocketMQ `NackHolds`, in Python `RenewalsEnd` |
| `ClosesAfterWork` | a close or stop of a subscriber that succeeds leaves nothing running, and until then takes away nothing that is in use | `ClosedIsQuiet`, `SendsHaveProducer` of `NsqSubscriber`; `ClosedIsQuiet` of RocketMQ; in Python `StoppedIsQuiet`, `ReadersOutliveHandlers` |
| `DrainsBeforeStop` | the same of the Go publishers, whose Interrupt alone may stop a driver under a send | `DrainedIsQuiet`, `StoppedUnderSend`, `ClosedIsQuiet` |
| `OutcomeIsTrue` | what a host was told stays true of the broker, though its send may outlive it: confirmed is stored, rejected is absent unless the RocketMQ driver tried more than once | publishers `OutcomeIsTrue`, `ConfirmedIsStored`; provisioner `FirstPublishKept` |
| `WithinLimits` | one registration per topic and channel; sends, threads, deliveries and requests within their limits | `TypeOK`, `OneRegistration`, `CapacityHolds`, `SlotsHold` |

| Property of `stores` | Says | By component |
|---|---|---|
| `ConfirmedIsEvidence`, `AggregateOrder`, `ClosedStaysClosed` | confirmed on evidence; ordered messages in order; closed is closed | receipt Outbox |
| `OneHolder` | leases, capabilities and exclusive row locks exclude, and no sessions wait for these locks in a cycle | Mongo Outbox `OneHolder`, `VersionAccounts`; stores `OneCapability`; SQL store `NoLockCycle` |
| `ToldIsStored` | what the host was told is what the database holds | Mongo Outbox `CommittedIsStored`; Python `execute` `ResultTruth` |
| `RefinesTxStore` | the stores implement `TxStore` | Mongo and SQL stores |
| `RefinesTxProtocol` | `execute` implements `TxProtocol` | Python `execute` |

| Property of `runtime` | Says | By component |
|---|---|---|
| `RejectedIsAbsent`, `ResolvedAsDecided` | a rejected half is not stored; a half ends as decided | driver producer |
| `DeliveryAccounted` | the cache counts what was not evicted, and nothing is evicted twice; no ACK and no delivered row without acceptance | push consumer `TypeOK`, `CacheCount`, `AckedIsConsumed`; Python relay `DeliveredIsAccepted` |
| `StoppedIsQuiet` | stopped is stopped, and the drain keeps its order | driver client `NothingRecreated`; push consumer `NoListenerAfterStop`; senders `DrainsInOrder`, `StoppedIsQuiet`, `ClosedIsQuiet` |
| `NoLostWakeup` | no caller sleeps beside a free slot, nor the relay over a notify | Python sender `NoSleepBesideSlot`; Python relay `NoSleepOverHint` |

| Property of `progress` | Says | By component |
|---|---|---|
| `EventuallySettled` | messages, rows and halves are settled | subscribers, Outboxes, Python relay, driver producer |
| `BegunEnds` | Close and stop return; a taken check is answered, a waiting caller gets its turn, `execute` returns; an expired execution is decided although others' rows are locked | `CloseEnds`, `StopReturns` and the like; of the driver's client `StopEndsIfTracked`; `AcceptedChecksAnswered`, `AdmittedEnd`, `ExecuteReturns`; `ExpiredDecided` |
| `ServesAgain` | health follows the database, the client listens again, queues are received from again, a delivery ends unless its nack has a lapsed handle, every host gets its channels | `HealthFollows`, `HealthRecovers`, `ListensAgain`, `QueueServed`, `DeliveryEnds`, `EventuallyPrepared` |

Every property has a mutant: a variant of a modelled definition with a plausible
defect (a dropped lease test, an unfenced version, an audit that trusts a reply
that never came) under which TLC finds the property violated. The properties of
the composites have one for nearly every component they speak of.

### Where the code and its documents differ

`driver_rejected`: `NewProducer(WithMaxAttempts(1))` is overridden by the
attempts in the server's settings, so a plain send may be retried after its
answer was lost; the last attempt's client status is then reported as
`Rejected`, while the message is stored. For halves, which have one attempt, the
property holds (`runtime`, theorem `RefusedHalf`).

`driver_stop`: `deleteRpcClient` removes the entry of a target whichever
connection it holds. When two calls fail on one connection, the second removes
the new connection, which is then never closed, and `gracefulStop` waits for its
reader for ever. That is the only way: `progress` checks, with both loops,
`StopEndsIfTracked`, in which no open stream loses its place in the table.

`push_nack`: when the broker answers a nack with an invalid receipt handle,
`changeInvisibleDuration` means to "forgive to retry" (`process_queue.go:228`), but
`changeInvisibleDuration0` has made an error of that answer, and errors are
retried before the status is looked at. A delivery whose invisibility lapsed before
its nack is nacked every second until the consumer stops, and keeps its place in
the cache. `DeliveryEnds` in `ServesAgain` excepts such a nack.

The modules define five more statements of comments and error texts that the
code does not keep. No run checks them; each is an invariant TLC refutes within
seconds on the constants given.

| Definition | Constants | What the code does |
|---|---|---|
| `DriverClient!StartUpErrorSeen` (`client.go:123`) | two endpoints | another endpoint's settings may arrive before startUp looks at the error, and the first endpoint is left without a reader |
| `DriverProducer!OneMessage` (`transaction.go:129`) | two sends, one handle | two messages enter a transaction whose limit is one; the adapter of this repository sends one |
| `DriverProducer!PlainHalves` (`publishing_message.go:90`) | `Attributes = {"liteTopic"}` | a message with a liteTopic is sent as a half |
| `PushConsumer!NoNewReceive` (`push_consumer.go:506`) | as in `runtime` | a loop that looked at isRunning before GracefulStop sends its request after it |
| `PyRelay!SingleLoop` (`relay.py:26`) | two hosts | two concurrent stops, with a start between them, forget the running loop, and another start is let through |

Likewise `PyNsqSubscriber!StoppedIsQuiet` fails when `Overlap` is TRUE: `start`
does not look at `_closing` after its awaits, so that a `stop` meanwhile leaves a
reader open. The runs have `Overlap = FALSE` and one host for `PyRelay`: a host
that does not stop while it starts, and stops from one task.

### Bounds

Relay and transactions:

- `MaxSlips` bounds what goes wrong in a relay run: crashes, cancellations, lost
  replies, slow steps, skipped rows, unconfirmed publishes, rot. One is enough
  for a takeover with the old holder's statement still on its way, two for a lost
  claim whose successor fails too (`relay_liveness`). Every claim beyond a record's
  first costs a slip or a replay.
- `MaxClaims` bounds the tokens. With 2 records and 2 slips (a slip costs at most
  a batch of 2) no more than 6 are ever drawn in `relay_liveness`, and with a slip
  and 2 replays no more than 7 in `relay_safety`, so the bound cuts no behaviours
  off; `relay_safety`, which checks for deadlock, would find a relay short of tokens.
- `MaxReplays` bounds authorizations. Two let one be resubmitted after the other
  was carried out.
- `Lease` and `Delays` are in ticks; the properties tell only the order of events
  apart. `Delays` containing 0 is a retry delay that has passed by the time it is
  committed (the code refuses a delay that is not positive).
- `MaxFence` is 2 where retries matter and 1 where branches do. The code's bound
  is 2^63 - 1 and out of reach in practice.
- Relays and records are interchangeable in `relay_safety`, and operations in
  `tx_retry`, which use symmetry; runs with liveness do not.

Composites. The instances stand in the MC modules with their constants:

- `MaxFaults`, `MaxSlips`, `MaxOutages` bound crashes, lost answers, timeouts and
  failed calls per component. Where two failures have to meet (a timeout of nsqd
  and a lost handoff answer, a crash after a failed handoff) it is 2 or 3.
- Two processes with one worker and one process with two workers stand for the
  NSQ subscribers: causes are remembered per process, settlement is per worker.
- One more task than slots (`Tasks`, `Views`, `Pqs`) lets an abandoned delivery
  run beside its redelivery. The Python tasks have no bound in the code.
- Two callers beside one slot, two closers, two hosts and two sessions let every
  pair meet; three callers beside two slots in `PySender` let a wake-up go to the
  wrong one.
- `MaxStarts` in the transaction stores bounds sessions; four are a reservation,
  a bound host transaction and two that meet it. The receipts of two branches
  and two executions of one request are instances of their own.
- The receipt Outbox has `Limit = 1` in `stores`: `Pending` hands out the first
  due rows, and a larger batch is two calls of it. The theorems hold for every
  `Limit`. Python's relay has `Limit = 1` beside two rows, and the reconciler of the
  Mongo store, in `progress`, `Batch = 1` beside two requests, so that one can be
  left out; the order of the scan is abstracted to any choice of that size.
- `MaxConns` in `DriverClient` bounds connections so that every fault and one
  reconnection after it fit.

Deadlock is checked in the composites of safety; `Rest` names the components
that may come to an end. `CHECK_DEADLOCK FALSE` appears where all of a run's
components may stop: a decided request whose halves are ended has nothing left
to do, a stopped component has no steps.

### Fairness

`relay_liveness` assumes weak fairness of the clock, of each `Run` including its
restart by the supervisor, and of each delivery. Nothing that goes wrong is
fair, and it goes wrong finitely often: with storage down for ever there is
nothing to promise.

`tx_branches` assumes nothing of the operations: each may stop anywhere. It
assumes that leases end, that the reconciler reaches every expired execution
(`ExpiredDecided` in `progress` shows this of the ordered batch), that the
database ends every root transaction (the unit of work has a deadline and a lost
session is rolled back), that the broker asks about a half it holds until it is
answered, and that an end request gets through.

In `progress` a property has the form `part = "x" /\ XFairness => X!Property`.
`XFairness` is the `Fairness` of module `X` with `part = "x"` before each action,
which is the same since `part` never changes, but spares TLC the actions of `x`
in states of others. Each module comments on its own; the assumptions are of
three kinds:

- goroutines, tasks and threads that can run do run, and calls with a deadline
  return: weak fairness of every step of the code, none of any fault, of hosts
  that stop, or of callers that come;
- time passes: leases, invisible times, back-offs and intervals end;
- the other side answers when asked often enough: nsqd and the broker deliver
  what is queued (strong fairness of a receive that keeps being possible), the
  receiver accepts and its receipt is carried again and again, the broker asks
  about a half again. `asyncio.Lock` serves its waiters in turn, and the select of
  `maintain` picks `maintStop` in the end, which are strong fairness of one action
  each; so is the reconciler's abort of an execution, which says that its batches
  are not cut short, or filled with others, before that execution for ever.

## Theorems

All are for arbitrary constants that satisfy the named assumptions
(`StoreAssumption`, `RelayAssumption`, `TxAssumption`, `ReceiptAssumption`,
`DriverProducerAssumption`, `NsqSubscribersAssumption`, `RocketSubscribersAssumption`,
`SubscribersAssumption`, `PublishersAssumption`): any finite set of records, any relays, requests,
operations, branches, fences, messages, senders, sends, handles, calls, closers,
hosts and nodes. The assumptions bound the limits from below (a limit is at least
1, as the configurations check) and keep the models' names apart: a lock that is
`free` or a handler of `none` is not also a subscription, a group or a task. TLC
evaluates them on its instances.

**RelayProofs.** `ExclusiveLease` is not inductive: a claim's lease has to be
tied to its row's. The invariant `RelayInv` adds

- `Held`: a live claim with lease left is the one its row names, in state
  `publishing`, with the same lease;
- `Spent`: a token not yet drawn appears nowhere, so a fresh token is fresh;
- `Evidence`: an accepted publish, and a confirmation about to be written, stand
  for an accepted message;
- `Blank`: a row that was never appended has no history.

From it follow `TypeCorrect`, `LeaseExclusion`, `ConfirmationIsEvidence`,
`CountersExact` and the action property `TerminalRows`.

`ReplayOnce`, in the same module: however often authorizations are submitted, a
record is replayed no oftener than it was authorized. `ReplayInv` bounds the
replays of a record by the number of its authorizations that name a version the
row has left behind; versions only grow, so none of these matches again, and the
replay itself moves its own authorization among them.

**TxProofs.** The invariant `TxInv` adds

- `Rows`: a witness row says what its execution row says;
- `Locks`: a host transaction is open on a prepared execution only;
- `Lineage`: fences below the active one are aborted, those above do not exist;
- `OpsOK`: what an operation has established by its stage; in particular what it
  knows is what the database holds;
- `OneOwner`: until the executor runs, an execution is in the hands of one
  operation;
- `Confirmed`: an executor has run only on held halves, and nothing commits
  without it;
- `Unattempted`, `Arrived`: receipts follow admission, and broker events follow
  requests.

From it follow `DecisionsSound`, `AuditsTrue`, `AtMostOneCommit`,
`CommitsAreHeld`, `ResultsProved` and the action properties `ExecutorOnce` and
`ReceiptsStand`. The argument that matters: a decided execution never changes
(`DecidedKeeps`), hence every answer derived from a decided row, however old, is
still true when it is acted upon.

`Refinement`, in the same module, shows that `TxProtocol` implements
`AtomicPublish`: outcomes map to the execution rows, visible and dropped
messages to the end requests carried out. It rests on `TxInv`: a carried-out end
request was sent, so it agrees with the decision.

**ReceiptProofs.** `ReceiptTypes`, `ReceiptConfirmed`, `ReceiptOrder` and the
action property `ReceiptClosed` of the receipt Outbox. `AggregateOrder` is not
inductive: a sender publishes from a copy it read earlier, when the row may have
been another. `IInv` adds `CopiesInOrder`: whatever became of the row, a copy in a
sender's hands was read when all older messages had their evidence, and evidence
is never taken back (`EvidenceStays`).

**DriverProofs.** `HalfResolution`: a half is resolved as its own transaction
decided, through Commit, RollBack or the broker's check. `IInv` adds
`MembersInv`: receipts and the work list of a decision belong to sends that
entered that transaction, and a send never changes it. `RefusedHalf`: a half
reported as rejected is not stored, by `AttemptInv` (one attempt, nothing stored
before it). It has the hypothesis `Transactional`; without it the statement is
refuted by `driver_rejected`.

**NsqSubscriberProofs, RocketSubscriberProofs, SubscriberProofs.** Each subscriber
has an inductive invariant that every step keeps; `SubscriberProofs` concludes for
all of them. What the properties lack to be inductive is what
a goroutine or task knows by its stage:

- `NsqInv`: an `Ack` stands for a message the host accepted, a finished handoff
  for a failure copy or an audit (`NsqHandling`); no answer went to nsqd before
  the delivery was settled (`NsqAnswered`); every run of the host used up an
  attempt nsqd counted (`NsqCounted`).
- `OwnerInv` of `NsqSubscriber`: a `Subscribe` holds the lock from its second look
  at `stopping` until it registered or cleaned up, and otherwise left nothing
  alive (`OwnerSub`); a handoff is told to stop only after its consumers and
  handlers, is drained with no send left and stops its producer last
  (`OwnerHandoff`); a call that waits has seen all that comes before its stage
  (`OwnerWaits`); a `Close` that returned found the lock free with `stopping` set,
  so that no registration follows it (`OwnerClose`).
- `RocketInv`: what a delivery's holder may still do to it by its stage, what a
  poller has reserved, and what `Close` has waited for.
- `PyNsqInv`, `PyRocketInv`: the same for tasks whose driver calls outlive them.

From them follow `SubscribersLoseNothing`, `SubscribersKeepBudget`,
`SubscribersSettleOnce`, `SubscribersCloseAfterWork`, `PyNsqReadersOutliveHandlers`
and `OneRegistrationAtATime`. `SubscribersCloseAfterWork` has the hypothesis
`~PyNsqOverlap`; with an overlapping stop the statement is false, as said above,
but no handler loses its reader even then.

**PublisherProofs.** `PubInv` counts sends, not calls: a send that outlives its
call keeps its slot and stays active (`PubSlots`), so `drained` says that no send
is in the driver and none will be (`PubStop`), and an answer is true of the broker
when it is given and later (`PubTruth`, which ties a false rejection to a send of
more than one attempt). The NSQ publisher needs no proof of its
own: `PubSteps` shows each of its steps to be one of `RocketPublisher`'s.
`ProvInv` says that the channel loop has the host's channel on every node behind
it; requests that arrive late only add channels. `PyPubInv` and `PyPubGate` tie
the threads of the Python publisher to the gate. From them follow
`PublishersTellTheTruth`, `PublishersDrainBeforeStop` and `PublishersWithinSlots`,
for any `DriverAttempts`. That a rejection after several attempts may be false is
`driver_rejected`.

Only model-checked:

- all liveness properties: fairness and ENABLED are outside the prover's reach;
- `WithinLimits`, but for the parts `OneRegistrationAtATime` and
  `PublishersWithinSlots` state: the slots of the RocketMQ subscribers are sums
  over a set, which take an induction over data;
- the refinements of `TxStore` and by `PyExecute`, whose mappings go through
  sessions and asyncio tasks, and with them `OneHolder` and `ToldIsStored`;
- `DeliveryAccounted`, `StoppedIsQuiet` and `NoLostWakeup` of the driver and the
  senders.

## Not modelled

- `message`, `wire`, the transaction codecs and `protect`: encodings, digests and
  cryptography of single values. The models compare identities and contents as
  values.
- `transport/routing*.go`, `catalog` and the configuration structs: checks of one
  value at start, without state.
- `internal/transactionobservation`, `outbox/status*.go`, statistics and metrics:
  they read rows and change nothing.
- `signaling`: lossy hints over Redis. What the relays make of a hint is modelled
  (`Wake` in `Relay`, `notify` in `PyRelay`).
- NSQ lookup (the address lists): a connection that fails or succeeds stands for
  it. The NSQ publisher of `nsq.py` is one awaited call per message.
- In the driver: the simple consumer, which is a thin call and is seen through
  `RocketSubscriber`; lite push consumers; message encoding, options, logging,
  metrics. Which queue a send takes is left open: every attempt may fail.
- The writer epoch of the transaction binding is constant: changing it is a
  deployment procedure outside the SDK.
- Examples, probes, scripts and generated code.

Not stated as properties because the code promises nothing about them, though the
models have them: FIFO order across a retry of a group (`PushConsumer`), how long
GracefulStop waits once a queue was empty, receive loops of dropped queues, the
causes a process keeps for messages another one finished, and tasks beyond
`max_in_flight` in `nsq.py` when nsqd's timeout is shorter than a handler.

---------------------------- MODULE OutboxStore ----------------------------
(***************************************************************************)
(* The leased Outbox table of storage/mysql: rows appended by the host's   *)
(* own transaction, claimed under a lease by token and version, settled by *)
(* fenced conditional updates, and requeued by host authorization.         *)
(*                                                                         *)
(* Database time is kept as countdowns: row.wait is the number of ticks    *)
(* until next_attempt_at and row.lease the number until lease_until, 0     *)
(* meaning that the database clock has reached it (or that it is NULL).    *)
(* Tick is the only thing that lowers them.                                *)
(*                                                                         *)
(* Every operator below is one committed statement or transaction of the   *)
(* store; it constrains row' and drawn' and nothing else, so that a module *)
(* that owns the callers can conjoin their side.                           *)
(***************************************************************************)
EXTENDS Integers, FiniteSets

CONSTANTS
  Records,      \* outbox identities (producer, message_id, destination)
  Lease,        \* lease granted by a claim, in ticks
  Delays,       \* ticks until due that Append, or a Retry once it has run, may leave
  MaxClaims     \* bound: claims the model draws tokens for

ASSUME StoreAssumption ==
  /\ IsFiniteSet(Records)
  /\ Lease \in Nat \ {0}
  /\ Delays \subseteq Nat
  /\ MaxClaims \in Nat

VARIABLES
  row,          \* the rm_outbox table
  drawn         \* random claim tokens drawn so far; token t is the t-th one

storeVars == <<row, drawn>>

Tokens == 1 .. MaxClaims

\* claim_token IS NULL
NoToken == 0

States == {"absent", "pending", "retry_wait", "publishing", "published", "quarantined"}

Row ==
  [state: States, token: Nat, version: Nat, attempts: Nat, failures: Nat,
   wait: Nat, lease: Nat, confirmed: BOOLEAN, intact: BOOLEAN]

NoRow ==
  [state |-> "absent", token |-> NoToken, version |-> 0, attempts |-> 0,
   failures |-> 0, wait |-> 0, lease |-> 0, confirmed |-> FALSE, intact |-> TRUE]

StoreInit ==
  /\ row = [r \in Records |-> NoRow]
  /\ drawn = 0

----------------------------------------------------------------------------
AppendedRow(wait) == [NoRow EXCEPT !.state = "pending", !.wait = wait]

\* The host transaction that appended the intent commits.  A second Append of
\* the identity, with the same or with other content, leaves the row alone.
Append(r, wait) ==
  /\ row[r].state = "absent"
  /\ row' = [row EXCEPT ![r] = AppendedRow(wait)]
  /\ UNCHANGED drawn

\* Defective variants of Due: the lease of a publishing row is not compared;
\* an expired lease is not recovered; rows are due by time alone.
DueIgnoringLease(r) ==
  \/ row[r].state \in {"pending", "retry_wait"} /\ row[r].wait = 0
  \/ row[r].state = "publishing"

DueWithoutRecovery(r) ==
  row[r].state \in {"pending", "retry_wait"} /\ row[r].wait = 0

DueByTime(r) ==
  row[r].state \notin {"absent", "quarantined"} /\ row[r].wait = 0

\* The WHERE clause of ClaimDue.
Due(r) ==
  \/ row[r].state \in {"pending", "retry_wait"} /\ row[r].wait = 0
  \/ row[r].state = "publishing" /\ row[r].lease = 0

\* A due row whose content no longer matches its fingerprint is set aside.
CorruptRow(x) ==
  [x EXCEPT !.state = "quarantined", !.failures = @ + 1, !.token = NoToken,
            !.lease = 0, !.version = @ + 1]

\* A due row handed to a caller under token t, with l ticks of lease left when
\* the claim commits.
ClaimedRow(x, t, l) ==
  [x EXCEPT !.state = "publishing", !.token = t, !.lease = l, !.wait = l,
            !.version = @ + 1, !.attempts = @ + 1]

\* One claiming transaction: batch is what it selected, good the rows it hands
\* out, tok the fresh token of each, l the lease left at commit (now is read
\* when the transaction starts, so a slow one leaves less than Lease).
ClaimDue(batch, good, tok, l) ==
  /\ \A r \in batch : Due(r)
  /\ good = {r \in batch : row[r].intact}
  /\ row' = [r \in Records |->
               IF r \in good THEN ClaimedRow(row[r], tok[r], l)
               ELSE IF r \in batch THEN CorruptRow(row[r])
               ELSE row[r]]
  /\ drawn' = drawn + Cardinality(good)

\* Fresh tokens for the rows of good: injective, none drawn before.
FreshTokens(good) ==
  {tok \in [good -> {t \in Tokens : drawn < t /\ t <= drawn + Cardinality(good)}] :
     \A r, q \in good : tok[r] = tok[q] => r = q}

----------------------------------------------------------------------------
\* The fence of update: record, token, version, state, and a lease that was
\* still running at the statement's own timestamp.
Matches(r, t, version, stamp) ==
  /\ row[r].token = t
  /\ row[r].version = version
  /\ row[r].state = "publishing"
  /\ stamp

\* Defective variant of Settled: the version is left as it was.
SettledKeepingVersion(x) == [x EXCEPT !.token = NoToken, !.lease = 0]

\* What every settlement, and a replay, clears and advances.
Settled(x) == [x EXCEPT !.token = NoToken, !.lease = 0, !.version = @ + 1]

ConfirmRow(x) == [Settled(x) EXCEPT !.state = "published", !.confirmed = TRUE]

RetryRow(x, delay) ==
  [Settled(x) EXCEPT !.state = "retry_wait", !.wait = delay, !.failures = @ + 1]

QuarantineRow(x) ==
  [Settled(x) EXCEPT !.state = "quarantined", !.failures = @ + 1]

\* A conditional update runs: it settles the row of the matching claim, and
\* affects no row (ErrStaleClaim) otherwise.
Update(r, t, version, stamp, x) ==
  /\ row' = IF Matches(r, t, version, stamp) THEN [row EXCEPT ![r] = x] ELSE row
  /\ UNCHANGED drawn

RequeuedRow(x) == [Settled(x) EXCEPT !.state = "retry_wait", !.wait = 0]

\* Defective variant of RequeueConfirmed: the expected version is not compared.
RequeueAnyVersion(r, version) ==
  /\ row[r].state = "published"
  /\ row[r].confirmed
  /\ row' = [row EXCEPT ![r] = RequeuedRow(@)]
  /\ UNCHANGED drawn

\* Host-authorized replay of one confirmed row at one exact version.
RequeueConfirmed(r, version) ==
  /\ row[r].state = "published"
  /\ row[r].confirmed
  /\ row[r].version = version
  /\ row' = [row EXCEPT ![r] = RequeuedRow(@)]
  /\ UNCHANGED drawn

----------------------------------------------------------------------------
\* The database clock advances by one tick.
Ticked(n) == IF n > 0 THEN n - 1 ELSE 0

TickedRow(x) == [x EXCEPT !.wait = Ticked(@), !.lease = Ticked(@)]

StoreTick ==
  /\ row' = [r \in Records |-> TickedRow(row[r])]
  /\ UNCHANGED drawn

RottenRow(x) == [x EXCEPT !.intact = FALSE]

\* Stored bytes of a row rot outside the SDK.
Rot(r) ==
  /\ row[r].state # "absent"
  /\ row[r].intact
  /\ row' = [row EXCEPT ![r] = RottenRow(@)]
  /\ UNCHANGED drawn
=============================================================================

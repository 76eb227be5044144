---------------------------- MODULE RelayProofs ----------------------------
(***************************************************************************)
(* Theorems about Relay for every set of records and relays, every lease   *)
(* and every bound.  The inductive invariant adds to the type invariant    *)
(* which claims can still matter (Held), which tokens are used up (Spent), *)
(* what the broker's acceptance has been recorded for (Evidence), and what *)
(* an absent row looks like (Blank).  The first part says that every       *)
(* operation keeps the types of the variables, and what each statement of  *)
(* the store leaves in the fields that leases and counters rest on.        *)
(***************************************************************************)
EXTENDS Relay, FiniteSetTheorems, TLAPS

\* Live claims name a record and hold a token that was drawn.
Spent ==
  \A t \in Tokens : claim[t].stage \in Live => t <= drawn /\ claim[t].rec \in Records

\* The counters of a row can be advanced.
LEMMA RowNext ==
  ASSUME NEW x \in Row
  PROVE  /\ x.version + 1 \in Nat
         /\ x.attempts + 1 \in Nat
         /\ x.failures + 1 \in Nat
         /\ Ticked(x.wait) \in Nat
         /\ Ticked(x.lease) \in Nat
BY DEF Row, Ticked

\* Every statement of the store turns a row into a row.
LEMMA RowTypes ==
  ASSUME NEW x \in Row, NEW t \in Nat, NEW n \in Nat
  PROVE  /\ NoRow \in Row
         /\ AppendedRow(n) \in Row
         /\ CorruptRow(x) \in Row
         /\ ClaimedRow(x, t, n) \in Row
         /\ Settled(x) \in Row
         /\ ConfirmRow(x) \in Row
         /\ RetryRow(x, n) \in Row
         /\ QuarantineRow(x) \in Row
         /\ RequeuedRow(x) \in Row
         /\ TickedRow(x) \in Row
         /\ RottenRow(x) \in Row
<1>1. 0 \in Nat /\ TRUE \in BOOLEAN /\ NoToken \in Nat
  BY Zenon DEF NoToken
<1>2. {"pending", "quarantined", "publishing", "published", "retry_wait"} \subseteq States
  BY Zenon DEF States
<1>3. NoRow \in Row
  BY Zenon DEF Row, NoRow, States, NoToken
<1>4. AppendedRow(n) \in Row
  BY <1>3, Zenon DEF AppendedRow, Row, States
<1>5. CorruptRow(x) \in Row
  BY <1>1, RowNext, Zenon DEF CorruptRow, Row, States
<1>6. ClaimedRow(x, t, n) \in Row
  BY RowNext, Zenon DEF ClaimedRow, Row, States
<1>7. Settled(x) \in Row
  BY <1>1, RowNext, Zenon DEF Settled, Row
<1>8. ConfirmRow(x) \in Row
  BY <1>7, Zenon DEF ConfirmRow, Row, States
<1>9. RetryRow(x, n) \in Row
  <2>1. Settled(x).failures + 1 \in Nat
    BY Zenon, <1>7, RowNext
  <2> QED
    BY <1>7, <2>1, Zenon DEF RetryRow, Row, States
<1>10. QuarantineRow(x) \in Row
  <2>1. Settled(x).failures + 1 \in Nat
    BY Zenon, <1>7, RowNext
  <2> QED
    BY <1>7, <2>1, Zenon DEF QuarantineRow, Row, States
<1>11. RequeuedRow(x) \in Row
  BY <1>1, <1>7, Zenon DEF RequeuedRow, Row, States
<1>12. TickedRow(x) \in Row
  BY RowNext, Zenon DEF TickedRow, Row
<1>13. RottenRow(x) \in Row
  BY Zenon DEF RottenRow, Row
<1> QED
  BY Zenon, <1>3, <1>4, <1>5, <1>6, <1>7, <1>8, <1>9, <1>10, <1>11, <1>12, <1>13

\* A set of records selected by a claim has a size.
LEMMA GoodSize ==
  ASSUME NEW good \in SUBSET Records
  PROVE  Cardinality(good) \in Nat
BY Zenon, StoreAssumption, FS_Subset, FS_CardinalityType DEF StoreAssumption

\* What a claiming transaction hands out: token t goes to the one record it was
\* drawn for, and the other claims are as before.
LEMMA HandedOut ==
  ASSUME TypeOK, NEW w \in Relays, NEW good \in SUBSET Records,
         NEW tok \in FreshTokens(good), NEW l \in Nat, NEW t \in Tokens
  PROVE  \/ /\ Handed(w, good, tok, l)[t] = claim[t]
            /\ \A r \in good : tok[r] # t
         \/ \E r \in good :
              /\ tok[r] = t
              /\ t > drawn
              /\ t <= drawn + Cardinality(good)
              /\ Handed(w, good, tok, l)[t] =
                   Granted(w, r, l)
<1>1. CASE \E r \in good : tok[r] = t
  <2> DEFINE q == CHOOSE r \in good : tok[r] = t
  <2>1. q \in good /\ tok[q] = t
    BY Zenon, <1>1
  <2>2. t > drawn /\ t <= drawn + Cardinality(good)
    BY Zenon, <2>1 DEF FreshTokens
  <2>3. Handed(w, good, tok, l)[t] =
          Granted(w, q, l)
    BY Zenon, <1>1 DEF Handed
  <2> QED
    BY Zenon, <2>1, <2>2, <2>3
<1>2. CASE ~ \E r \in good : tok[r] = t
  BY Zenon, <1>2 DEF Handed
<1> QED
  BY Zenon, <1>1, <1>2

\* The claims a claiming transaction leaves are claims.
LEMMA HandedType ==
  ASSUME TypeOK, NEW w \in Relays, NEW good \in SUBSET Records,
         NEW tok \in FreshTokens(good), NEW l \in Nat
  PROVE  Handed(w, good, tok, l) \in [Tokens -> Claim]
<1>1. \A r \in Records : row[r].version + 1 \in Nat
  BY Zenon, RowNext DEF TypeOK
<1>2. NoClaim \in Claim
  BY Zenon DEF Claim, NoClaim, Live, Working, Writes
<1>3. \A r \in good :
        Granted(w, r, l) \in Claim
  BY <1>1, <1>2, Zenon DEF Granted, Claim, Live, Working
<1>4. \A t \in Tokens : Handed(w, good, tok, l)[t] \in Claim
  <2>1. SUFFICES ASSUME NEW t \in Tokens PROVE Handed(w, good, tok, l)[t] \in Claim
    OBVIOUS
  <2>2. claim[t] \in Claim
    BY Zenon DEF TypeOK
  <2>3. CASE Handed(w, good, tok, l)[t] = claim[t]
    BY Zenon, <2>2, <2>3
  <2>4. CASE Handed(w, good, tok, l)[t] # claim[t]
    <3>1. PICK r \in good :
            Handed(w, good, tok, l)[t] =
              Granted(w, r, l)
      BY <2>4, HandedOut
    <3> QED
      BY Zenon, <1>3, <3>1
  <2> QED
    BY Zenon, <2>3, <2>4
<1> QED
  BY Zenon, <1>4 DEF Handed

\* A claiming transaction keeps the table well typed.
LEMMA ClaimDueType ==
  ASSUME TypeOK, NEW batch \in SUBSET Records, NEW good \in SUBSET Records,
         NEW tok \in FreshTokens(good), NEW l \in Nat,
         ClaimDue(batch, good, tok, l), drawn + Cardinality(good) <= MaxClaims,
         ledger' = Tally(batch, good)
  PROVE  /\ row' \in [Records -> Row]
         /\ drawn' \in 0 .. MaxClaims
         /\ ledger' \in [Records -> History]
<1>1. \A r \in good : tok[r] \in Nat
  BY DEF FreshTokens, Tokens
<1>2. \A r \in Records : row[r] \in Row
  BY Zenon DEF TypeOK
<1>3. row' \in [Records -> Row]
  BY Zenon, <1>1, <1>2, RowTypes DEF ClaimDue
<1>4. drawn' \in 0 .. MaxClaims
  BY GoodSize, StoreAssumption DEF ClaimDue, TypeOK, StoreAssumption
<1>5. ASSUME NEW h \in History, NEW m \in Nat, NEW n \in Nat
      PROVE  [h EXCEPT !.lapsed = m, !.rotten = n] \in History
  BY Zenon DEF History
<1>6. \A r \in Records :
        /\ ledger[r] \in History
        /\ ledger[r].lapsed + (IF r \in batch /\ row[r].state = "publishing" THEN 1 ELSE 0) \in Nat
        /\ ledger[r].rotten + (IF r \in batch \ good THEN 1 ELSE 0) \in Nat
  BY DEF TypeOK, History
<1>7. ledger' \in [Records -> History]
  <2>1. \A r \in Records : Tally(batch, good)[r] \in History
    BY <1>5, <1>6, Zenon DEF Tally
  <2> QED
    BY Zenon, <2>1 DEF Tally
<1> QED
  BY Zenon, <1>3, <1>4, <1>7

\* One tick, and the changes deliver makes to a claim, keep claims claims.
LEMMA ClaimTypes ==
  ASSUME NEW c \in Claim, NEW s \in Live, NEW v \in Writes, NEW b \in BOOLEAN
  PROVE  /\ NoClaim \in Claim
         /\ AtStage(c, s) \in Claim
         /\ Settling(c, v) \in Claim
         /\ Writing(c, b) \in Claim
         /\ TickedClaim(c) \in Claim
<1>1. NoClaim \in Claim
  BY Zenon DEF Claim, NoClaim, Live, Working, Writes
<1>2. Ticked(c.lease) \in Nat
  BY DEF Claim, Ticked
<1> QED
  BY <1>1, <1>2, Zenon DEF Claim, AtStage, Settling, Writing, TickedClaim, Live, Working

\* The row Write leaves behind is a row.
LEMMA OutcomeType ==
  ASSUME NEW c \in Claim, c.rec \in Records, row[c.rec] \in Row, NEW delay \in Nat
  PROVE  Outcome(c, delay) \in Row
BY Zenon, RowTypes DEF Outcome

\* Every step keeps the variables well typed.
LEMMA TypeStep ==
  ASSUME TypeOK, Spent, [Next]_vars
  PROVE  TypeOK'
<1> USE StoreAssumption, RelayAssumption DEF StoreAssumption, RelayAssumption
<1>0. /\ NoClaim \in Claim
      /\ \A t \in Tokens : TickedClaim(claim[t]) \in Claim
      /\ \A t \in Tokens, s \in Live : AtStage(claim[t], s) \in Claim
      /\ \A t \in Tokens, v \in Writes : Settling(claim[t], v) \in Claim
      /\ \A t \in Tokens, b \in BOOLEAN : Writing(claim[t], b) \in Claim
  <2>1. "claimed" \in Live /\ "none" \in Writes /\ TRUE \in BOOLEAN
    BY Zenon DEF Live, Working, Writes
  <2>2. claim \in [Tokens -> Claim]
    BY Zenon DEF TypeOK
  <2>3. NoClaim \in Claim
    BY Zenon DEF Claim, NoClaim, Live, Working, Writes
  <2> QED
    BY Zenon, <2>1, <2>2, <2>3, ClaimTypes
<1>1. ASSUME NEW r \in Records, HostAppend(r) PROVE TypeOK'
  BY <1>1, RowTypes DEF HostAppend, Append, TypeOK
<1>2. ASSUME NEW r \in Records, HostAuthorize(r) PROVE TypeOK'
  <2>1. row[r].version \in Nat
    BY Zenon DEF TypeOK, Row
  <2> QED
    BY <1>2, <2>1 DEF HostAuthorize, TypeOK
<1>3. ASSUME NEW r \in Records, Damage(r) PROVE TypeOK'
  BY <1>3, RowTypes DEF Damage, Rot, Slip, TypeOK
<1>4. ASSUME NEW a \in authorized, HostRequeue(a[1], a[2]) PROVE TypeOK'
  <2>1. a[1] \in Records
    BY Zenon DEF TypeOK
  <2>2. Replayed(ledger[a[1]]) \in History
    BY <2>1 DEF TypeOK, History, Replayed
  <2>3. ledger' \in [Records -> History]
    BY Zenon, <1>4, <2>1, <2>2 DEF HostRequeue, TypeOK
  <2>4. row' \in [Records -> Row]
    BY Zenon, <1>4, <2>1, RowTypes DEF HostRequeue, RequeueConfirmed, TypeOK
  <2> QED
    BY Zenon, <1>4, <2>3, <2>4 DEF HostRequeue, RequeueConfirmed, TypeOK
<1>5. ASSUME NEW w \in Relays, Start(w) PROVE TypeOK'
  BY Zenon, <1>5 DEF Start, RunStates, TypeOK
<1>6. ASSUME NEW w \in Relays, Scan(w) PROVE TypeOK'
  <2>1. PICK batch \in Batches, l \in 0 .. Lease :
          LET good == {r \in batch : row[r].intact} IN
          /\ drawn + Cardinality(good) <= MaxClaims
          /\ IF l < Lease \/ Skipped(batch) THEN Slip ELSE UNCHANGED slips
          /\ \E tok \in FreshTokens(good) :
               /\ ClaimDue(batch, good, tok, l)
               /\ claim' = Handed(w, good, tok, l)
          /\ ledger' = Tally(batch, good)
          /\ run' = [run EXCEPT ![w] = IF Cardinality(good) = Concurrency
                                       THEN "delivering_full" ELSE "delivering"]
    BY Zenon, <1>6 DEF Scan
  <2> DEFINE good == {r \in batch : row[r].intact}
  <2>2. PICK tok \in FreshTokens(good) :
          ClaimDue(batch, good, tok, l) /\ claim' = Handed(w, good, tok, l)
    BY Zenon, <2>1
  <2>3. batch \in SUBSET Records /\ good \in SUBSET Records /\ l \in Nat
    BY DEF Batches
  <2>4. /\ row' \in [Records -> Row]
        /\ drawn' \in 0 .. MaxClaims
        /\ ledger' \in [Records -> History]
    <3> HIDE DEF good
    <3> QED BY Zenon, <2>1, <2>2, <2>3, ClaimDueType DEF good
  <2>5. claim' \in [Tokens -> Claim]
    BY Zenon, <2>2, <2>3, HandedType
  <2>6. slips' \in 0 .. MaxSlips /\ run' \in [Relays -> RunStates]
    BY <2>1 DEF Slip, TypeOK, RunStates
  <2> QED
    BY Zenon, <1>6, <2>4, <2>5, <2>6 DEF Scan, TypeOK
<1>7. ASSUME NEW w \in Relays, ScanFails(w) PROVE TypeOK'
  <2>1. CASE UNCHANGED <<row, drawn, ledger>>
    BY <1>7, <2>1 DEF ScanFails, Slip, RunStates, TypeOK
  <2>2. ASSUME NEW batch \in Batches, NEW good, good = {r \in batch : row[r].intact},
               drawn + Cardinality(good) <= MaxClaims,
               NEW tok \in FreshTokens(good), ClaimDue(batch, good, tok, Lease),
               ledger' = Tally(batch, good)
        PROVE  TypeOK'
    <3>1. batch \in SUBSET Records /\ good \in SUBSET Records /\ Lease \in Nat
      BY Zenon, <2>2 DEF Batches
    <3>2. /\ row' \in [Records -> Row]
          /\ drawn' \in 0 .. MaxClaims
          /\ ledger' \in [Records -> History]
      BY Zenon, <2>2, <3>1, ClaimDueType
    <3> QED
      BY <1>7, <3>2 DEF ScanFails, Slip, RunStates, TypeOK
  <2> QED
    BY Zenon, <1>7, <2>1, <2>2 DEF ScanFails
<1>8. ASSUME NEW t \in Tokens, Launch(t) PROVE TypeOK'
  BY Zenon, <1>8, <1>0 DEF Launch, Live, Working, Writes, TypeOK
<1>9. ASSUME NEW w \in Relays, BatchDone(w) PROVE TypeOK'
  <2>1. claim' \in [Tokens -> Claim]
    BY Zenon, <1>9, <1>0 DEF BatchDone, Live, Working, Writes, TypeOK
  <2> QED
    BY Zenon, <1>9, <2>1 DEF BatchDone, RunStates, TypeOK
<1>10. ASSUME NEW w \in Relays, Poll(w) \/ Return(w) PROVE TypeOK'
  BY Zenon, <1>10 DEF Poll, Return, RunStates, TypeOK
<1>11. ASSUME NEW w \in Relays, Crash(w) PROVE TypeOK'
  <2>1. claim' \in [Tokens -> Claim]
    BY Zenon, <1>11, <1>0 DEF Crash, Live, Working, Writes, TypeOK
  <2> QED
    BY <1>11, <2>1 DEF Crash, Slip, RunStates, TypeOK
<1>12. ASSUME NEW w \in Relays, Cancel(w) PROVE TypeOK'
  BY <1>12 DEF Cancel, Slip, TypeOK
<1>13. ASSUME NEW t \in Tokens, BrokerAccept(t) PROVE TypeOK'
  <2>1. claim' \in [Tokens -> Claim]
    BY Zenon, <1>13, <1>0 DEF BrokerAccept, Live, Working, Writes, TypeOK
  <2>2. claim[t].rec \in Records
    BY Zenon, <1>13 DEF BrokerAccept, Spent, Live, Working
  <2> QED
    BY Zenon, <1>13, <2>1, <2>2 DEF BrokerAccept, TypeOK
<1>14. ASSUME NEW t \in Tokens, PublishConfirmed(t) PROVE TypeOK'
  <2>1. claim' \in [Tokens -> Claim]
    BY Zenon, <1>14, <1>0 DEF PublishConfirmed, Live, Working, Writes, TypeOK
  <2> QED
    BY Zenon, <1>14, <2>1 DEF PublishConfirmed, TypeOK
<1>15. ASSUME NEW t \in Tokens, PublishUnconfirmed(t) PROVE TypeOK'
  <2>1. claim' \in [Tokens -> Claim]
    BY Zenon, <1>15, <1>0 DEF PublishUnconfirmed, Live, Working, Writes, TypeOK
  <2> QED
    BY <1>15, <2>1 DEF PublishUnconfirmed, Slip, TypeOK
<1>16. ASSUME NEW t \in Tokens, StartWrite(t) PROVE TypeOK'
  <2>1. claim' \in [Tokens -> Claim]
    <3> DEFINE b == row[claim[t].rec].lease > 0
    <3>1. b \in BOOLEAN
      OBVIOUS
    <3>2. claim' = [claim EXCEPT ![t] = Writing(claim[t], b)]
      BY Zenon, <1>16 DEF StartWrite
    <3>3. Writing(claim[t], b) \in Claim
      BY Zenon, <3>1, <1>0
    <3> HIDE DEF b
    <3> QED
      BY Zenon, <3>2, <3>3 DEF TypeOK
  <2> QED
    BY Zenon, <1>16, <2>1 DEF StartWrite, TypeOK
<1>17. ASSUME NEW t \in Tokens, Write(t) PROVE TypeOK'
  <2>1. claim' \in [Tokens -> Claim]
    BY Zenon, <1>17, <1>0 DEF Write, Live, Working, Writes, TypeOK
  <2>2. claim[t].rec \in Records
    BY Zenon, <1>17 DEF Write, Spent, Live, Working
  <2>3. row' \in [Records -> Row]
    BY <1>17, <2>2, OutcomeType DEF Write, Update, TypeOK
  <2>4. SettledOnceMore(ledger[claim[t].rec]) \in History
    BY <2>2 DEF TypeOK, History, SettledOnceMore
  <2>5. ledger' \in [Records -> History]
    BY Zenon, <1>17, <2>2, <2>4 DEF Write, TypeOK
  <2> QED
    BY Zenon, <1>17, <2>1, <2>3, <2>5 DEF Write, Update, TypeOK
<1>18. ASSUME NEW t \in Tokens, WriteTimeout(t) \/ WriteLost(t) PROVE TypeOK'
  <2>1. claim' \in [Tokens -> Claim]
    <3>1. CASE WriteTimeout(t)
      BY Zenon, <3>1, <1>0 DEF WriteTimeout, Live, TypeOK
    <3>2. CASE WriteLost(t)
      BY Zenon, <3>2, <1>0 DEF WriteLost, TypeOK
    <3> QED
      BY Zenon, <1>18, <3>1, <3>2
  <2> QED
    BY <1>18, <2>1 DEF WriteTimeout, WriteLost, Slip, TypeOK
<1>19. CASE Tick
  <2>1. claim' \in [Tokens -> Claim]
    BY Zenon, <1>19, <1>0 DEF Tick, Live, Working, Writes, TypeOK
  <2>2. row' \in [Records -> Row]
    BY Zenon, <1>19, RowTypes DEF Tick, StoreTick, TypeOK
  <2> QED
    BY <1>19, <2>1, <2>2 DEF Tick, StoreTick, Slip, TypeOK
<1>20. CASE UNCHANGED vars
  BY Zenon, <1>20 DEF vars, TypeOK
<1> QED
  BY Zenon, <1>1, <1>2, <1>3, <1>4, <1>5, <1>6, <1>7, <1>8, <1>9, <1>10, <1>11, <1>12, <1>13,
     <1>14, <1>15, <1>16, <1>17, <1>18, <1>19, <1>20 DEF Next, RelayStep, Deliver

----------------------------------------------------------------------------
\* What an Append leaves in the fields the accounts and the leases rest on.
LEMMA AppendedFields ==
  \A n : /\ AppendedRow(n).state = "pending"
         /\ AppendedRow(n).attempts = 0
         /\ AppendedRow(n).failures = 0
         /\ AppendedRow(n).version = 0
         /\ AppendedRow(n).confirmed = FALSE
BY Zenon DEF AppendedRow, NoRow

\* What the two updates of ClaimDue leave there.
LEMMA ClaimedFields ==
  ASSUME NEW x \in Row
  PROVE  \A t, n : /\ ClaimedRow(x, t, n).state = "publishing"
                   /\ ClaimedRow(x, t, n).attempts = x.attempts + 1
                   /\ ClaimedRow(x, t, n).failures = x.failures
                   /\ ClaimedRow(x, t, n).version = x.version + 1
                   /\ ClaimedRow(x, t, n).confirmed = x.confirmed
                   /\ ClaimedRow(x, t, n).token = t
                   /\ ClaimedRow(x, t, n).lease = n
BY Zenon DEF Row, ClaimedRow

\* What quarantining an undecodable row leaves there.
LEMMA CorruptFields ==
  ASSUME NEW x \in Row
  PROVE  /\ CorruptRow(x).state = "quarantined"
         /\ CorruptRow(x).attempts = x.attempts
         /\ CorruptRow(x).failures = x.failures + 1
         /\ CorruptRow(x).version = x.version + 1
         /\ CorruptRow(x).confirmed = x.confirmed
BY Zenon DEF Row, CorruptRow

\* What Confirm, Retry and Quarantine leave there.
LEMMA ConfirmFields ==
  ASSUME NEW x \in Row
  PROVE  /\ ConfirmRow(x).state = "published"
         /\ ConfirmRow(x).attempts = x.attempts
         /\ ConfirmRow(x).failures = x.failures
         /\ ConfirmRow(x).version = x.version + 1
BY Zenon DEF Row, Settled, ConfirmRow

\* What Retry and Quarantine leave there.
LEMMA FailedFields ==
  ASSUME NEW x \in Row
  PROVE  /\ \A n : /\ RetryRow(x, n).state = "retry_wait"
                   /\ RetryRow(x, n).attempts = x.attempts
                   /\ RetryRow(x, n).failures = x.failures + 1
                   /\ RetryRow(x, n).version = x.version + 1
                   /\ RetryRow(x, n).confirmed = x.confirmed
         /\ QuarantineRow(x).state = "quarantined"
         /\ QuarantineRow(x).attempts = x.attempts
         /\ QuarantineRow(x).failures = x.failures + 1
         /\ QuarantineRow(x).version = x.version + 1
         /\ QuarantineRow(x).confirmed = x.confirmed
BY Zenon DEF Row, Settled, RetryRow, QuarantineRow

\* What RequeueConfirmed leaves there.
LEMMA RequeuedFields ==
  ASSUME NEW x \in Row
  PROVE  /\ RequeuedRow(x).state = "retry_wait"
         /\ RequeuedRow(x).attempts = x.attempts
         /\ RequeuedRow(x).failures = x.failures
         /\ RequeuedRow(x).version = x.version + 1
         /\ RequeuedRow(x).confirmed = x.confirmed
BY Zenon DEF Row, Settled, RequeuedRow

\* The clock leaves them alone, the lease apart.
LEMMA TickedFields ==
  ASSUME NEW x \in Row
  PROVE  /\ TickedRow(x).state = x.state
         /\ TickedRow(x).attempts = x.attempts
         /\ TickedRow(x).failures = x.failures
         /\ TickedRow(x).version = x.version
         /\ TickedRow(x).confirmed = x.confirmed
         /\ TickedRow(x).token = x.token
         /\ TickedRow(x).lease = Ticked(x.lease)
BY Zenon DEF Row, TickedRow

\* Damage to the stored bytes leaves them alone.
LEMMA RottenFields ==
  ASSUME NEW x \in Row
  PROVE  /\ RottenRow(x).state = x.state
         /\ RottenRow(x).attempts = x.attempts
         /\ RottenRow(x).failures = x.failures
         /\ RottenRow(x).version = x.version
         /\ RottenRow(x).confirmed = x.confirmed
         /\ RottenRow(x).token = x.token
         /\ RottenRow(x).lease = x.lease
BY Zenon DEF Row, RottenRow

\* Counters are natural numbers.
LEMMA Counts ==
  /\ \A x \in Row : x.attempts \in Nat /\ x.failures \in Nat /\ x.version \in Nat
  /\ \A h \in History : h.settled \in Nat /\ h.lapsed \in Nat /\ h.rotten \in Nat /\ h.replays \in Nat
BY Zenon DEF Row, History

-----------------------------------------------------------------------------
(* The inductive invariant *)

\* A claim whose lease has not run out is the one its row was last given to.
Held ==
  \A t \in Tokens : claim[t].stage \in Live =>
    \/ claim[t].lease = 0
    \/ /\ row[claim[t].rec].state = "publishing"
       /\ row[claim[t].rec].token = t
       /\ row[claim[t].rec].lease = claim[t].lease

\* A publish the broker took, and a confirmation about to be written, both
\* stand for an accepted message.
Evidence ==
  \A t \in Tokens : claim[t].stage \in Live =>
    ((claim[t].stage = "taken" \/ claim[t].write = "confirm") => claim[t].rec \in accepted)

\* A row that was never appended has no history.
Blank ==
  \A r \in Records : row[r].state = "absent" =>
    /\ ledger[r].settled = 0
    /\ ledger[r].lapsed = 0
    /\ ledger[r].rotten = 0
    /\ ledger[r].replays = 0

\* The whole inductive invariant.
RelayInv ==
  /\ TypeOK
  /\ Held
  /\ Spent
  /\ Evidence
  /\ Blank
  /\ ConfirmedWasAccepted
  /\ CountersAccount

----------------------------------------------------------------------------
\* What the steps of a delivery do to its claim.
LEMMA ClaimEffects ==
  ASSUME NEW c \in Claim
  PROVE  /\ \A s : /\ AtStage(c, s).stage = s
                   /\ AtStage(c, s).rec = c.rec
                   /\ AtStage(c, s).lease = c.lease
                   /\ AtStage(c, s).write = c.write
         /\ \A v : /\ Settling(c, v).stage = "settling"
                   /\ Settling(c, v).rec = c.rec
                   /\ Settling(c, v).lease = c.lease
                   /\ Settling(c, v).write = v
         /\ \A b : /\ Writing(c, b).stage = "writing"
                   /\ Writing(c, b).rec = c.rec
                   /\ Writing(c, b).lease = c.lease
                   /\ Writing(c, b).write = c.write
         /\ TickedClaim(c).stage = c.stage
         /\ TickedClaim(c).rec = c.rec
         /\ TickedClaim(c).lease = Ticked(c.lease)
         /\ TickedClaim(c).write = c.write
BY Zenon DEF Claim, AtStage, Settling, Writing, TickedClaim

\* The claim a claiming transaction grants.
LEMMA GrantedEffects ==
  ASSUME NEW w, NEW r, NEW l
  PROVE  LET d == Granted(w, r, l) IN
           /\ d.stage = "claimed" /\ d.rec = r /\ d.lease = l
           /\ d.write = "none"
BY Zenon DEF Granted, NoClaim

\* Steps that leave the table alone and take no claim further than it may go.
LEMMA ClaimsKept ==
  ASSUME Held, Spent, Evidence, row' = row, drawn' = drawn, accepted \subseteq accepted',
         \A t \in Tokens : claim'[t].stage \in Live =>
           /\ claim[t].stage \in Live
           /\ claim'[t].rec = claim[t].rec
           /\ claim'[t].lease = claim[t].lease
           /\ claim'[t].stage = "taken" \/ claim'[t].write = "confirm"
                => \/ claim[t].stage = "taken"
                   \/ claim[t].write = "confirm"
                   \/ claim[t].rec \in accepted'
  PROVE  Held' /\ Spent' /\ Evidence'
<1>1. Held'
  BY DEF Held
<1>2. Spent'
  BY Zenon DEF Spent
<1>3. Evidence'
  BY Zenon DEF Evidence
<1> QED
  BY Zenon, <1>1, <1>2, <1>3

\* A claiming transaction takes only rows whose claims have run out.
LEMMA ClaimsClaimed ==
  ASSUME RelayInv, NEW batch \in SUBSET Records, NEW good \in SUBSET Records,
         NEW tok \in FreshTokens(good), NEW l \in Nat,
         ClaimDue(batch, good, tok, l), accepted' = accepted,
         claim' = claim \/ \E w \in Relays : claim' = Handed(w, good, tok, l)
  PROVE  Held' /\ Spent' /\ Evidence'
<1> USE DEF RelayInv
<1>1. good \subseteq batch /\ drawn' = drawn + Cardinality(good) /\ Cardinality(good) \in Nat
  BY Zenon, GoodSize DEF ClaimDue
<1>2. \A r \in Records : row[r] \in Row
  BY Zenon DEF TypeOK
<1>3. \A r \in Records : r \notin batch => row'[r] = row[r]
  BY Zenon, <1>1 DEF ClaimDue
<1>4. \A r \in good : /\ row'[r].state = "publishing"
                      /\ row'[r].token = tok[r]
                      /\ row'[r].lease = l
  <2>1. \A r \in good : row'[r] = ClaimedRow(row[r], tok[r], l) /\ tok[r] \in Nat
    BY <1>1 DEF ClaimDue, FreshTokens, Tokens
  <2> QED
    BY <1>2, <2>1, ClaimedFields
<1>5. \A t \in Tokens : claim[t].stage \in Live /\ claim[t].rec \in batch => claim[t].lease = 0
  <2>1. \A r \in batch : row[r].state = "publishing" => row[r].lease = 0
    BY Zenon DEF ClaimDue, Due
  <2> QED
    BY Zenon, <2>1 DEF Held
<1>6. \A t \in Tokens : claim'[t].stage \in Live =>
        \/ claim'[t] = claim[t] /\ claim[t].stage \in Live
        \/ \E r \in good :
             /\ tok[r] = t /\ t <= drawn' /\ claim'[t].rec = r /\ claim'[t].lease = l
             /\ claim'[t].stage = "claimed" /\ claim'[t].write = "none"
  <2>1. CASE claim' = claim
    BY Zenon, <2>1
  <2>2. ASSUME NEW w \in Relays, claim' = Handed(w, good, tok, l), NEW t \in Tokens,
               claim'[t].stage \in Live, claim'[t] # claim[t]
        PROVE  \E r \in good :
             /\ tok[r] = t /\ t <= drawn' /\ claim'[t].rec = r /\ claim'[t].lease = l
             /\ claim'[t].stage = "claimed" /\ claim'[t].write = "none"
    <3>1. TypeOK /\ Handed(w, good, tok, l)[t] # claim[t]
      BY Zenon, <2>2
    <3>2. PICK r \in good :
            /\ tok[r] = t
            /\ t <= drawn + Cardinality(good)
            /\ Handed(w, good, tok, l)[t] = Granted(w, r, l)
      BY <3>1, HandedOut
    <3>3. t <= drawn'
      BY Zenon, <1>1, <3>2
    <3>4. claim'[t] = Granted(w, r, l)
      BY Zenon, <2>2, <3>2
    <3>5. /\ claim'[t].stage = "claimed" /\ claim'[t].rec = r /\ claim'[t].lease = l
          /\ claim'[t].write = "none"
      BY <3>4, GrantedEffects
    <3> QED
      BY Zenon, <3>2, <3>3, <3>5
  <2> QED
    BY Zenon, <2>1, <2>2
<1>7. Spent'
  BY <1>1, <1>6 DEF Spent, TypeOK, Tokens
<1>8. Evidence'
  BY Zenon, <1>6 DEF Evidence
<1>9. Held'
  <2> SUFFICES ASSUME NEW t \in Tokens, claim'[t].stage \in Live
               PROVE  \/ claim'[t].lease = 0
                      \/ /\ row'[claim'[t].rec].state = "publishing"
                         /\ row'[claim'[t].rec].token = t
                         /\ row'[claim'[t].rec].lease = claim'[t].lease
    BY Zenon DEF Held
  <2>1. CASE claim'[t] = claim[t] /\ claim[t].stage \in Live
    BY <1>3, <1>5, <2>1 DEF Held, Spent
  <2>2. CASE \E r \in good : tok[r] = t /\ claim'[t].rec = r /\ claim'[t].lease = l
    BY Zenon, <1>4, <2>2
  <2> QED
    BY Zenon, <1>6, <2>1, <2>2
<1> QED
  BY Zenon, <1>7, <1>8, <1>9

\* Every step keeps the claims what they are.
LEMMA ClaimsStep ==
  ASSUME RelayInv, [Next]_vars
  PROVE  Held' /\ Spent' /\ Evidence'
<1>0. TypeOK /\ Held /\ Spent /\ Evidence
  BY Zenon DEF RelayInv
<1>a. \A t \in Tokens : claim[t] \in Claim
  BY Zenon, <1>0 DEF TypeOK
<1>b. \A r \in Records : row[r] \in Row
  BY Zenon, <1>0 DEF TypeOK
<1>1. ASSUME NEW r \in Records, claim' = claim, drawn' = drawn, accepted' = accepted,
             row[r].state # "publishing" \/ row'[r] = RottenRow(row[r]),
             \A q \in Records : q # r => row'[q] = row[q]
      PROVE  Held' /\ Spent' /\ Evidence'
  <2>1. Held'
    BY <1>0, <1>1, <1>b, RottenFields DEF Held, Spent
  <2>2. Spent' /\ Evidence'
    BY Zenon, <1>0, <1>1 DEF Spent, Evidence
  <2> QED
    BY Zenon, <2>1, <2>2
<1>2. ASSUME NEW r \in Records, HostAppend(r) \/ Damage(r)
      PROVE  Held' /\ Spent' /\ Evidence'
  <2>1. /\ claim' = claim /\ drawn' = drawn /\ accepted' = accepted
        /\ row[r].state # "publishing" \/ row'[r] = RottenRow(row[r])
        /\ \A q \in Records : q # r => row'[q] = row[q]
    BY Zenon, <1>0, <1>2 DEF HostAppend, Append, Damage, Rot, TypeOK
  <2> QED
    BY Zenon, <1>1, <2>1
<1>3. ASSUME NEW a \in authorized, HostRequeue(a[1], a[2])
      PROVE  Held' /\ Spent' /\ Evidence'
  <2>1. a[1] \in Records
    BY Zenon, <1>0 DEF TypeOK
  <2>2. /\ claim' = claim /\ drawn' = drawn /\ accepted' = accepted
        /\ row[a[1]].state # "publishing"
        /\ \A q \in Records : q # a[1] => row'[q] = row[q]
    BY Zenon, <1>0, <1>3 DEF HostRequeue, RequeueConfirmed, TypeOK
  <2> QED
    BY Zenon, <1>1, <2>1, <2>2
<1>4. CASE row' = row /\ drawn' = drawn /\ accepted' = accepted /\ claim' = claim
  BY Zenon, <1>0, <1>4 DEF Held, Spent, Evidence
<1>5. ASSUME NEW w \in Relays, Scan(w) PROVE Held' /\ Spent' /\ Evidence'
  <2>1. PICK batch \in Batches, l \in 0 .. Lease :
          \E tok \in FreshTokens({r \in batch : row[r].intact}) :
            /\ ClaimDue(batch, {r \in batch : row[r].intact}, tok, l)
            /\ claim' = Handed(w, {r \in batch : row[r].intact}, tok, l)
    BY Zenon, <1>5 DEF Scan
  <2>2. batch \in SUBSET Records /\ l \in Nat
    BY StoreAssumption DEF Batches, StoreAssumption
  <2>3. accepted' = accepted
    BY Zenon, <1>5 DEF Scan
  <2> DEFINE good == {r \in batch : row[r].intact}
  <2>4. good \in SUBSET Records
    BY Zenon, <2>2
  <2>5. PICK tok \in FreshTokens(good) :
          ClaimDue(batch, good, tok, l) /\ claim' = Handed(w, good, tok, l)
    BY Zenon, <2>1
  <2> HIDE DEF good
  <2> QED
    BY Zenon, <2>2, <2>3, <2>4, <2>5, ClaimsClaimed
<1>6. ASSUME NEW w \in Relays, ScanFails(w) PROVE Held' /\ Spent' /\ Evidence'
  <2>1. claim' = claim /\ accepted' = accepted
    BY Zenon, <1>6 DEF ScanFails
  <2>2. CASE UNCHANGED <<row, drawn, ledger>>
    BY Zenon, <1>4, <2>1, <2>2
  <2>3. ASSUME NEW batch \in Batches, NEW good, good = {r \in batch : row[r].intact},
               NEW tok \in FreshTokens(good), ClaimDue(batch, good, tok, Lease)
        PROVE  Held' /\ Spent' /\ Evidence'
    <3>1. batch \in SUBSET Records /\ good \in SUBSET Records /\ Lease \in Nat
      BY Zenon, <2>3, StoreAssumption DEF Batches, StoreAssumption
    <3> QED
      BY Zenon, <2>1, <2>3, <3>1, ClaimsClaimed
  <2> QED
    BY Zenon, <1>6, <2>2, <2>3 DEF ScanFails
<1>7. ASSUME NEW w \in Relays, BatchDone(w) \/ Crash(w) PROVE Held' /\ Spent' /\ Evidence'
  <2>1. row' = row /\ drawn' = drawn /\ accepted' = accepted
    BY Zenon, <1>7 DEF BatchDone, Crash
  <2>2. ASSUME NEW t \in Tokens
        PROVE  \/ claim'[t] = claim[t]
               \/ claim'[t] = NoClaim
               \/ /\ claim[t].stage = "writing"
                  /\ claim'[t] = AtStage(claim[t], "abandoned")
    BY Zenon, <1>7 DEF BatchDone, Crash, Owned
  <2>3. \A t \in Tokens : claim'[t].stage \in Live =>
           /\ claim[t].stage \in Live
           /\ claim'[t].rec = claim[t].rec
           /\ claim'[t].lease = claim[t].lease
           /\ claim'[t].stage = "taken" => claim[t].stage = "taken"
           /\ claim'[t].write = claim[t].write
    <3> SUFFICES ASSUME NEW t \in Tokens, claim'[t].stage \in Live
                 PROVE  /\ claim[t].stage \in Live
                        /\ claim'[t].rec = claim[t].rec
                        /\ claim'[t].lease = claim[t].lease
                        /\ claim'[t].stage = "taken" => claim[t].stage = "taken"
                        /\ claim'[t].write = claim[t].write
      OBVIOUS
    <3>1. CASE claim'[t] = claim[t]
      BY Zenon, <3>1
    <3>2. CASE claim'[t] = NoClaim
      BY <3>2 DEF NoClaim, Live, Working
    <3>3. CASE claim[t].stage = "writing" /\ claim'[t] = AtStage(claim[t], "abandoned")
      BY <1>a, <3>3, ClaimEffects DEF Live, Working
    <3> QED
      BY Zenon, <2>2, <3>1, <3>2, <3>3
  <2> QED
    BY Zenon, <1>0, <2>1, <2>3, ClaimsKept
<1>8. ASSUME NEW t \in Tokens,
             Launch(t) \/ PublishConfirmed(t) \/ PublishUnconfirmed(t) \/ StartWrite(t)
               \/ WriteTimeout(t) \/ WriteLost(t)
      PROVE  Held' /\ Spent' /\ Evidence'
  <2>1. row' = row /\ drawn' = drawn /\ accepted' = accepted /\ claim[t].stage \in Live
    BY Zenon, <1>8 DEF Launch, PublishConfirmed, PublishUnconfirmed, StartWrite, WriteTimeout,
                WriteLost, Live, Working
  <2>2. \A u \in Tokens : u # t => claim'[u] = claim[u]
    BY Zenon, <1>0, <1>8 DEF Launch, PublishConfirmed, PublishUnconfirmed, StartWrite, WriteTimeout,
                      WriteLost, TypeOK
  <2>3. \/ claim'[t] = NoClaim
        \/ \E s \in Live \ {"taken"} : claim'[t] = AtStage(claim[t], s)
        \/ \E v \in Writes : /\ claim'[t] = Settling(claim[t], v)
                             /\ v = "confirm" => claim[t].stage = "taken"
        \/ \E b : claim'[t] = Writing(claim[t], b)
    <3>1. CASE Launch(t) \/ WriteTimeout(t)
      BY Zenon, <1>0, <3>1 DEF Launch, WriteTimeout, TypeOK, Live, Working
    <3>2. CASE PublishConfirmed(t)
      BY Zenon, <1>0, <3>2 DEF PublishConfirmed, TypeOK, Writes
    <3>3. CASE PublishUnconfirmed(t)
      BY Zenon, <1>0, <3>3 DEF PublishUnconfirmed, TypeOK, Writes
    <3>4. CASE StartWrite(t)
      BY Zenon, <1>0, <3>4 DEF StartWrite, TypeOK
    <3>5. CASE WriteLost(t)
      BY Zenon, <1>0, <3>5 DEF WriteLost, TypeOK
    <3> QED
      BY Zenon, <1>8, <3>1, <3>2, <3>3, <3>4, <3>5
  <2>4. claim'[t].stage \in Live =>
           /\ claim'[t].rec = claim[t].rec
           /\ claim'[t].lease = claim[t].lease
           /\ claim'[t].stage = "taken" \/ claim'[t].write = "confirm"
                => claim[t].stage = "taken" \/ claim[t].write = "confirm"
    <3>1. NoClaim.stage \notin Live
      BY Zenon DEF NoClaim, Live, Working
    <3> QED
      BY <1>a, <2>3, <3>1, ClaimEffects
  <2> QED
    BY Zenon, <1>0, <2>1, <2>2, <2>4, ClaimsKept
<1>9. ASSUME NEW t \in Tokens, BrokerAccept(t) PROVE Held' /\ Spent' /\ Evidence'
  <2>1. /\ row' = row /\ drawn' = drawn
        /\ accepted' = accepted \cup {claim[t].rec}
        /\ claim[t].stage \in Live
        /\ claim'[t] = AtStage(claim[t], "taken")
        /\ \A u \in Tokens : u # t => claim'[u] = claim[u]
    BY Zenon, <1>0, <1>9 DEF BrokerAccept, TypeOK, Live, Working
  <2>2. /\ claim'[t].rec = claim[t].rec
        /\ claim'[t].lease = claim[t].lease
    BY <1>a, <2>1, ClaimEffects DEF Live, Working, Writes
  <2> QED
    BY Zenon, <1>0, <2>1, <2>2, ClaimsKept
<1>10. ASSUME NEW t \in Tokens, Write(t) PROVE Held' /\ Spent' /\ Evidence'
  <2>1. /\ drawn' = drawn /\ accepted' = accepted
        /\ claim'[t] = NoClaim
        /\ \A u \in Tokens : u # t => claim'[u] = claim[u]
    BY Zenon, <1>0, <1>10 DEF Write, Update, TypeOK
  <2>2. claim'[t].stage \notin Live
    BY <2>1 DEF NoClaim, Live, Working
  <2>3. \A r \in Records : row'[r] = row[r] \/ row[r].token = t
    BY Zenon, <1>0, <1>10 DEF Write, Update, Matches, TypeOK
  <2>4. Held'
    BY <1>0, <2>1, <2>2, <2>3 DEF Held, Spent
  <2>5. Spent' /\ Evidence'
    BY Zenon, <1>0, <2>1, <2>2 DEF Spent, Evidence
  <2> QED
    BY Zenon, <2>4, <2>5
<1>11. CASE Tick
  <2>1. drawn' = drawn /\ accepted' = accepted
    BY Zenon, <1>11 DEF Tick, StoreTick
  <2>2. \A t \in Tokens : /\ claim'[t].stage = claim[t].stage
                         /\ claim'[t].rec = claim[t].rec
                         /\ claim'[t].lease = Ticked(claim[t].lease)
                         /\ claim'[t].write = claim[t].write
    BY Zenon, <1>11, <1>a, ClaimEffects DEF Tick, Live, Writes
  <2>3. \A r \in Records : /\ row'[r].state = row[r].state
                          /\ row'[r].token = row[r].token
                          /\ row'[r].lease = Ticked(row[r].lease)
    BY Zenon, <1>11, <1>b, TickedFields DEF Tick, StoreTick
  <2>4. Held'
    BY <1>0, <2>2, <2>3 DEF Held, Spent, Ticked
  <2>5. Spent' /\ Evidence'
    BY Zenon, <1>0, <2>1, <2>2 DEF Spent, Evidence
  <2> QED
    BY Zenon, <2>4, <2>5
<1>12. ASSUME NEW w \in Relays, Start(w) \/ Cancel(w) \/ Poll(w) \/ Return(w)
       PROVE  Held' /\ Spent' /\ Evidence'
  BY Zenon, <1>4, <1>12 DEF Start, Cancel, Poll, Return
<1>13. ASSUME NEW r \in Records, HostAuthorize(r) PROVE Held' /\ Spent' /\ Evidence'
  BY Zenon, <1>4, <1>13 DEF HostAuthorize
<1>14. CASE UNCHANGED vars
  BY Zenon, <1>4, <1>14 DEF vars
<1> QED
  BY Zenon, <1>2, <1>3, <1>5, <1>6, <1>7, <1>8, <1>9, <1>10, <1>11, <1>12, <1>13, <1>14
     DEF Next, RelayStep, Deliver

----------------------------------------------------------------------------
\* What the history of a record gains.
LEMMA HistoryEffects ==
  ASSUME NEW h \in History
  PROVE  /\ Replayed(h).settled = h.settled /\ Replayed(h).lapsed = h.lapsed
         /\ Replayed(h).rotten = h.rotten /\ Replayed(h).replays = h.replays + 1
         /\ SettledOnceMore(h).settled = h.settled + 1 /\ SettledOnceMore(h).lapsed = h.lapsed
         /\ SettledOnceMore(h).rotten = h.rotten /\ SettledOnceMore(h).replays = h.replays
BY Zenon DEF History, Replayed, SettledOnceMore

\* What the invariants say of one record.
RowOK(x, h, taken) ==
  /\ x.state = "absent" => h.settled = 0 /\ h.lapsed = 0 /\ h.rotten = 0 /\ h.replays = 0
  /\ x.confirmed => taken
  /\ x.attempts = h.settled + h.lapsed + (IF x.state = "publishing" THEN 1 ELSE 0)
  /\ x.failures <= h.settled + h.rotten
  /\ x.version = x.attempts + h.settled + h.rotten + h.replays

\* The accounts of the rows are conjuncts of the invariant.
LEMMA RowsOK ==
  (\A r \in Records : RowOK(row[r], ledger[r], r \in accepted))
    <=> Blank /\ ConfirmedWasAccepted /\ CountersAccount
BY Zenon DEF RowOK, Blank, ConfirmedWasAccepted, CountersAccount

\* A claiming transaction keeps the accounts of every record.
LEMMA RowsClaimed ==
  ASSUME TypeOK, \A r \in Records : RowOK(row[r], ledger[r], r \in accepted),
         NEW batch \in SUBSET Records, NEW good \in SUBSET Records,
         NEW tok \in FreshTokens(good), NEW l \in Nat,
         ClaimDue(batch, good, tok, l), ledger' = Tally(batch, good), accepted' = accepted
  PROVE  \A r \in Records : RowOK(row'[r], ledger'[r], r \in accepted')
<1> SUFFICES ASSUME NEW r \in Records PROVE RowOK(row'[r], ledger'[r], r \in accepted')
  OBVIOUS
<1>1. row[r] \in Row /\ ledger[r] \in History /\ RowOK(row[r], ledger[r], r \in accepted)
  BY Zenon DEF TypeOK
<1>a. /\ row[r].attempts \in Nat /\ row[r].failures \in Nat /\ row[r].version \in Nat
      /\ ledger[r].settled \in Nat /\ ledger[r].lapsed \in Nat
      /\ ledger[r].rotten \in Nat /\ ledger[r].replays \in Nat
  BY Zenon, <1>1, Counts
<1>b. /\ row[r].state = "absent" => /\ ledger[r].settled = 0 /\ ledger[r].lapsed = 0
                                    /\ ledger[r].rotten = 0 /\ ledger[r].replays = 0
      /\ row[r].confirmed => r \in accepted
      /\ row[r].attempts = ledger[r].settled + ledger[r].lapsed
                             + (IF row[r].state = "publishing" THEN 1 ELSE 0)
      /\ row[r].failures <= ledger[r].settled + ledger[r].rotten
      /\ row[r].version = row[r].attempts + ledger[r].settled + ledger[r].rotten + ledger[r].replays
  BY Zenon, <1>1 DEF RowOK
<1>2. /\ ledger'[r].settled = ledger[r].settled
      /\ ledger'[r].replays = ledger[r].replays
      /\ ledger'[r].lapsed = ledger[r].lapsed
           + (IF r \in batch /\ row[r].state = "publishing" THEN 1 ELSE 0)
      /\ ledger'[r].rotten = ledger[r].rotten + (IF r \in batch \ good THEN 1 ELSE 0)
  BY <1>1, Zenon DEF Tally, History
<1>3. r \in batch => row[r].state # "absent"
  BY Zenon DEF ClaimDue, Due
<1>4. CASE r \in good
  <2>1. row'[r] = ClaimedRow(row[r], tok[r], l) /\ r \in batch /\ tok[r] \in Nat
    BY <1>4 DEF ClaimDue, FreshTokens, Tokens
  <2>2. /\ row'[r].state = "publishing" /\ row'[r].attempts = row[r].attempts + 1
        /\ row'[r].failures = row[r].failures /\ row'[r].version = row[r].version + 1
        /\ row'[r].confirmed = row[r].confirmed
    BY <1>1, <2>1, ClaimedFields
  <2> QED
    BY <1>a, <1>b, <1>2, <1>3, <1>4, <2>1, <2>2 DEF RowOK
<1>5. CASE r \in batch \ good
  <2>1. row'[r] = CorruptRow(row[r])
    BY Zenon, <1>5 DEF ClaimDue
  <2>2. /\ row'[r].state = "quarantined" /\ row'[r].attempts = row[r].attempts
        /\ row'[r].failures = row[r].failures + 1 /\ row'[r].version = row[r].version + 1
        /\ row'[r].confirmed = row[r].confirmed
    BY Zenon, <1>1, <2>1, CorruptFields
  <2> QED
    BY <1>a, <1>b, <1>2, <1>3, <1>5, <2>2 DEF RowOK
<1>6. CASE r \notin batch
  <2>1. row'[r] = row[r] /\ r \notin good
    BY Zenon, <1>6 DEF ClaimDue
  <2> QED
    BY <1>a, <1>b, <1>2, <1>6, <2>1 DEF RowOK
<1> QED
  BY Zenon, <1>4, <1>5, <1>6

\* Every step keeps the accounts of every record.
LEMMA RowsStep ==
  ASSUME RelayInv, TypeOK', [Next]_vars
  PROVE  Blank' /\ ConfirmedWasAccepted' /\ CountersAccount'
<1> DEFINE Goal == \A r \in Records : RowOK(row'[r], ledger'[r], r \in accepted')
<1>0. TypeOK /\ Spent /\ Evidence /\ \A r \in Records : RowOK(row[r], ledger[r], r \in accepted)
  BY Zenon, RowsOK DEF RelayInv
<1>a. \A r \in Records : row[r] \in Row /\ ledger[r] \in History
  BY Zenon, <1>0 DEF TypeOK
<1>b. \A r \in Records :
        /\ row[r].attempts \in Nat /\ row[r].failures \in Nat /\ row[r].version \in Nat
        /\ ledger[r].settled \in Nat /\ ledger[r].lapsed \in Nat
        /\ ledger[r].rotten \in Nat /\ ledger[r].replays \in Nat
  BY Zenon, <1>a, Counts
<1>1. ASSUME row' = row /\ ledger' = ledger /\ accepted \subseteq accepted' PROVE Goal
  BY Zenon, <1>0, <1>1 DEF RowOK
<1>2. ASSUME NEW r \in Records, HostAppend(r) PROVE Goal
  <2>1. PICK n \in Delays : Append(r, n)
    BY Zenon, <1>2 DEF HostAppend
  <2>2. /\ row'[r] = AppendedRow(n)
        /\ \A q \in Records : q # r => row'[q] = row[q]
        /\ ledger' = ledger /\ accepted' = accepted
        /\ row[r].state = "absent"
    BY Zenon, <1>0, <1>2, <2>1 DEF HostAppend, Append, TypeOK
  <2>3. n \in Nat
    BY Zenon, StoreAssumption DEF StoreAssumption
  <2>4. /\ row'[r].state = "pending" /\ row'[r].attempts = 0 /\ row'[r].failures = 0
        /\ row'[r].version = 0 /\ ~row'[r].confirmed
    BY Zenon, <1>a, <2>2, <2>3, AppendedFields
  <2>5. RowOK(row'[r], ledger'[r], r \in accepted')
    <3>1. /\ ledger[r].settled = 0 /\ ledger[r].lapsed = 0
          /\ ledger[r].rotten = 0 /\ ledger[r].replays = 0
      BY Zenon, <1>0, <2>2 DEF RowOK
    <3> QED
      BY <2>2, <2>4, <3>1 DEF RowOK
  <2> QED
    BY Zenon, <1>0, <2>2, <2>5
<1>3. ASSUME NEW r \in Records, Damage(r) PROVE Goal
  <2>1. /\ row'[r] = RottenRow(row[r])
        /\ \A q \in Records : q # r => row'[q] = row[q]
        /\ ledger' = ledger /\ accepted' = accepted
    BY Zenon, <1>0, <1>3 DEF Damage, Rot, TypeOK
  <2>2. /\ row'[r].state = row[r].state /\ row'[r].attempts = row[r].attempts
        /\ row'[r].failures = row[r].failures /\ row'[r].version = row[r].version
        /\ row'[r].confirmed = row[r].confirmed
    BY <1>a, <2>1, RottenFields
  <2>3. RowOK(row'[r], ledger'[r], r \in accepted')
    BY Zenon, <1>0, <1>a, <2>1, <2>2 DEF RowOK
  <2> QED
    BY Zenon, <1>0, <2>1, <2>3
<1>4. ASSUME NEW a \in authorized, HostRequeue(a[1], a[2]) PROVE Goal
  <2> DEFINE r == a[1]
  <2>1. r \in Records
    BY Zenon, <1>0 DEF TypeOK
  <2>2. /\ row'[r] = RequeuedRow(row[r])
        /\ ledger'[r] = Replayed(ledger[r])
        /\ \A q \in Records : q # r => row'[q] = row[q] /\ ledger'[q] = ledger[q]
        /\ accepted' = accepted
        /\ row[r].state = "published"
    BY Zenon, <1>0, <1>4, <2>1 DEF HostRequeue, RequeueConfirmed, TypeOK
  <2> HIDE DEF r
  <2>3. /\ row'[r].state = "retry_wait" /\ row'[r].attempts = row[r].attempts
        /\ row'[r].failures = row[r].failures /\ row'[r].version = row[r].version + 1
        /\ row'[r].confirmed = row[r].confirmed
    BY <1>a, <2>1, <2>2, RequeuedFields
  <2>4. /\ ledger'[r].settled = ledger[r].settled /\ ledger'[r].lapsed = ledger[r].lapsed
        /\ ledger'[r].rotten = ledger[r].rotten /\ ledger'[r].replays = ledger[r].replays + 1
    BY Zenon, <1>a, <2>1, <2>2, HistoryEffects
  <2>5. RowOK(row'[r], ledger'[r], r \in accepted')
    BY <1>0, <1>a, <1>b, <2>1, <2>2, <2>3, <2>4 DEF RowOK
  <2> QED
    BY Zenon, <1>0, <2>2, <2>5
<1>5. ASSUME NEW w \in Relays, Scan(w) PROVE Goal
  <2>1. PICK batch \in Batches, l \in 0 .. Lease :
          /\ \E tok \in FreshTokens({r \in batch : row[r].intact}) :
               ClaimDue(batch, {r \in batch : row[r].intact}, tok, l)
          /\ ledger' = Tally(batch, {r \in batch : row[r].intact})
    BY Zenon, <1>5 DEF Scan
  <2> DEFINE good == {r \in batch : row[r].intact}
  <2>2. batch \in SUBSET Records /\ l \in Nat /\ good \in SUBSET Records
    BY StoreAssumption DEF Batches, StoreAssumption
  <2>3. accepted' = accepted /\ ledger' = Tally(batch, good)
    BY Zenon, <1>5, <2>1 DEF Scan
  <2>4. PICK tok \in FreshTokens(good) : ClaimDue(batch, good, tok, l)
    BY Zenon, <2>1
  <2> HIDE DEF good
  <2> QED
    BY Zenon, <1>0, <2>2, <2>3, <2>4, RowsClaimed
<1>6. ASSUME NEW w \in Relays, ScanFails(w) PROVE Goal
  <2>1. accepted' = accepted
    BY Zenon, <1>6 DEF ScanFails
  <2>2. CASE UNCHANGED <<row, drawn, ledger>>
    BY Zenon, <1>0, <2>1, <2>2
  <2>3. ASSUME NEW batch \in Batches, NEW good, good = {r \in batch : row[r].intact},
               NEW tok \in FreshTokens(good), ClaimDue(batch, good, tok, Lease),
               ledger' = Tally(batch, good)
        PROVE  Goal
    <3>1. batch \in SUBSET Records /\ good \in SUBSET Records /\ Lease \in Nat
      BY Zenon, <2>3, StoreAssumption DEF Batches, StoreAssumption
    <3> QED
      BY Zenon, <1>0, <2>1, <2>3, <3>1, RowsClaimed
  <2> QED
    BY Zenon, <1>6, <2>2, <2>3 DEF ScanFails
<1>7. ASSUME NEW t \in Tokens, Write(t) PROVE Goal
  <2> DEFINE r == claim[t].rec
  <2>1. r \in Records /\ accepted' = accepted
    BY Zenon, <1>0, <1>7 DEF Write, Spent, Live, Working
  <2>2. CASE ~Matches(r, t, claim[t].version, claim[t].stamp)
    BY Zenon, <1>0, <1>7, <2>1, <2>2 DEF Write, Update
  <2>3. CASE Matches(r, t, claim[t].version, claim[t].stamp)
    <3>1. PICK n \in Delays : row' = [row EXCEPT ![r] = Outcome(claim[t], n)]
      BY Zenon, <1>7, <2>3 DEF Write, Update
    <3>2. n \in Nat
      BY Zenon, StoreAssumption DEF StoreAssumption
    <3>3. /\ row'[r] = Outcome(claim[t], n)
          /\ ledger'[r] = SettledOnceMore(ledger[r])
          /\ \A q \in Records : q # r => row'[q] = row[q] /\ ledger'[q] = ledger[q]
          /\ row[r].state = "publishing"
          /\ claim[t].stage \in Live
      BY Zenon, <1>0, <1>7, <2>1, <2>3, <3>1 DEF Write, Matches, TypeOK, Live, Working
    <3>4. \/ claim[t].write = "confirm" /\ row'[r] = ConfirmRow(row[r])
          \/ row'[r] = RetryRow(row[r], n)
          \/ row'[r] = QuarantineRow(row[r])
      BY Zenon, <3>3 DEF Outcome
    <3>5. claim[t].write = "confirm" => r \in accepted
      BY Zenon, <1>0, <3>3 DEF Evidence
    <3> HIDE DEF r
    <3>6. /\ row'[r].state \in {"published", "retry_wait", "quarantined"}
          /\ row'[r].attempts = row[r].attempts
          /\ row'[r].failures \in {row[r].failures, row[r].failures + 1}
          /\ row'[r].version = row[r].version + 1
          /\ row'[r].confirmed => row[r].confirmed \/ r \in accepted
      <4>1. CASE claim[t].write = "confirm" /\ row'[r] = ConfirmRow(row[r])
        BY Zenon, <1>a, <2>1, <3>5, <4>1, ConfirmFields
      <4>2. CASE row'[r] = RetryRow(row[r], n) \/ row'[r] = QuarantineRow(row[r])
        BY <1>a, <2>1, <4>2, FailedFields
      <4> QED
        BY Zenon, <3>4, <4>1, <4>2
    <3>7. /\ ledger'[r].settled = ledger[r].settled + 1
          /\ ledger'[r].lapsed = ledger[r].lapsed
          /\ ledger'[r].rotten = ledger[r].rotten
          /\ ledger'[r].replays = ledger[r].replays
      BY Zenon, <1>a, <2>1, <3>3, HistoryEffects
    <3>8. RowOK(row'[r], ledger'[r], r \in accepted')
      <4>1. /\ row[r].confirmed => r \in accepted
            /\ row[r].attempts = ledger[r].settled + ledger[r].lapsed + 1
            /\ row[r].failures <= ledger[r].settled + ledger[r].rotten
            /\ row[r].version = row[r].attempts + ledger[r].settled + ledger[r].rotten + ledger[r].replays
        BY Zenon, <1>0, <2>1, <3>3 DEF RowOK
      <4>2. /\ row[r].attempts \in Nat /\ row[r].failures \in Nat /\ row[r].version \in Nat
            /\ ledger[r].settled \in Nat /\ ledger[r].lapsed \in Nat
            /\ ledger[r].rotten \in Nat /\ ledger[r].replays \in Nat
        BY Zenon, <1>b, <2>1
      <4>3. accepted' = accepted
        BY Zenon, <1>7 DEF Write
      <4> QED
        BY <3>6, <3>7, <4>1, <4>2, <4>3 DEF RowOK
    <3> QED
      BY Zenon, <1>0, <2>1, <3>3, <3>8
  <2> QED
    BY Zenon, <2>2, <2>3
<1>8. ASSUME Tick PROVE Goal
  <2>1. /\ \A r \in Records : row'[r] = TickedRow(row[r])
        /\ ledger' = ledger /\ accepted' = accepted
    BY Zenon, <1>8 DEF Tick, StoreTick
  <2>2. ASSUME NEW r \in Records PROVE RowOK(row'[r], ledger'[r], r \in accepted')
    <3>1. /\ row'[r].state = row[r].state /\ row'[r].attempts = row[r].attempts
          /\ row'[r].failures = row[r].failures /\ row'[r].version = row[r].version
          /\ row'[r].confirmed = row[r].confirmed
      BY Zenon, <1>a, <2>1, TickedFields
    <3> QED
      BY Zenon, <1>0, <2>1, <3>1 DEF RowOK
  <2> QED
    BY Zenon, <2>2
<1>9. ASSUME Goal PROVE Blank' /\ ConfirmedWasAccepted' /\ CountersAccount'
  BY Zenon, <1>9 DEF RowOK, Blank, ConfirmedWasAccepted, CountersAccount
<1>10. ASSUME NEW t \in Tokens,
              Launch(t) \/ BrokerAccept(t) \/ PublishConfirmed(t) \/ PublishUnconfirmed(t)
                \/ StartWrite(t) \/ WriteTimeout(t) \/ WriteLost(t)
       PROVE  row' = row /\ ledger' = ledger /\ accepted \subseteq accepted'
  BY Zenon, <1>10 DEF Launch, BrokerAccept, PublishConfirmed, PublishUnconfirmed, StartWrite,
               WriteTimeout, WriteLost
<1>11. ASSUME NEW w \in Relays,
              Start(w) \/ Cancel(w) \/ BatchDone(w) \/ Poll(w) \/ Return(w) \/ Crash(w)
       PROVE  row' = row /\ ledger' = ledger /\ accepted \subseteq accepted'
  BY Zenon, <1>11 DEF Start, Cancel, BatchDone, Poll, Return, Crash
<1>12. ASSUME NEW r \in Records, HostAuthorize(r)
       PROVE  row' = row /\ ledger' = ledger /\ accepted \subseteq accepted'
  BY Zenon, <1>12 DEF HostAuthorize
<1>13. ASSUME UNCHANGED vars PROVE Goal
  BY Zenon, <1>1, <1>13 DEF vars
<1> HIDE DEF Goal
<1> QED
  BY Zenon, <1>1, <1>2, <1>3, <1>4, <1>5, <1>6, <1>7, <1>8, <1>9, <1>10, <1>11, <1>12, <1>13
     DEF Next, RelayStep, Deliver

----------------------------------------------------------------------------
\* Relays, crashes, takeovers, late writes and replays keep the invariant.
THEOREM RelayInvariant == Spec => []RelayInv
<1>1. Init => RelayInv
  <2> SUFFICES ASSUME Init PROVE RelayInv
    OBVIOUS
  <2>1. \A r \in Records : row[r] = NoRow /\ ledger[r] = NoHistory
    BY Zenon DEF Init, StoreInit
  <2>2. \A t \in Tokens : claim[t].stage \notin Live
    BY Zenon DEF Init, NoClaim, Live, Working
  <2>3. TypeOK
    <3>1. NoRow \in Row /\ NoClaim \in Claim /\ NoHistory \in History
      BY Zenon DEF NoRow, Row, States, NoToken, NoClaim, Claim, Live, Working, Writes,
             NoHistory, History
    <3> QED
      BY <3>1, StoreAssumption, RelayAssumption
         DEF Init, StoreInit, TypeOK, RunStates, StoreAssumption, RelayAssumption
  <2>4. Held /\ Spent /\ Evidence
    BY Zenon, <2>2 DEF Held, Spent, Evidence
  <2>5. Blank /\ ConfirmedWasAccepted /\ CountersAccount
    BY <2>1 DEF Blank, ConfirmedWasAccepted, CountersAccount, NoRow, NoHistory
  <2> QED
    BY Zenon, <2>3, <2>4, <2>5 DEF RelayInv
<1>2. RelayInv /\ [Next]_vars => RelayInv'
  <2> SUFFICES ASSUME RelayInv, [Next]_vars PROVE RelayInv'
    OBVIOUS
  <2>1. TypeOK'
    BY Zenon, TypeStep DEF RelayInv
  <2>2. Held' /\ Spent' /\ Evidence'
    BY Zenon, ClaimsStep
  <2>3. Blank' /\ ConfirmedWasAccepted' /\ CountersAccount'
    BY Zenon, <2>1, RowsStep
  <2> QED
    BY Zenon, <2>1, <2>2, <2>3 DEF RelayInv
<1> QED
  BY <1>1, <1>2, PTL DEF Spec

\* The variables of the store, the relays and the claims keep their types.
THEOREM TypeCorrect == Spec => []TypeOK
<1>1. RelayInv => TypeOK
  BY Zenon DEF RelayInv
<1> QED
  BY <1>1, RelayInvariant, PTL

\* However many relays run, crash and come back, two claims of one record never
\* both have lease left: the claim of ClaimDue is exclusive while it lasts.
THEOREM LeaseExclusion == Spec => []ExclusiveLease
<1>1. RelayInv => ExclusiveLease
  BY DEF RelayInv, Held, ExclusiveLease
<1> QED
  BY <1>1, RelayInvariant, PTL

\* transport_confirmed_at is only ever written for a message the broker took.
THEOREM ConfirmationIsEvidence == Spec => []ConfirmedWasAccepted
<1>1. RelayInv => ConfirmedWasAccepted
  BY Zenon DEF RelayInv
<1> QED
  BY <1>1, RelayInvariant, PTL

\* attempt_count, failure_count and version account for a row's whole history.
THEOREM CountersExact == Spec => []CountersAccount
<1>1. RelayInv => CountersAccount
  BY Zenon DEF RelayInv
<1> QED
  BY <1>1, RelayInvariant, PTL

\* A published or quarantined row is final for every relay; only a replay
\* authorized for its exact version reopens a published one.
THEOREM TerminalRows == Spec => TerminalUntilAuthorized
<1> DEFINE Final(r) ==
      /\ row[r].state = "quarantined" => row'[r].state = "quarantined"
      /\ row[r].state = "published" /\ row'[r].state # "published"
           => <<r, row[r].version>> \in authorized
<1>1. RelayInv /\ [Next]_vars => [\A r \in Records : Final(r)]_vars
  <2> SUFFICES ASSUME RelayInv, [Next]_vars, NEW r \in Records PROVE Final(r)
    OBVIOUS
  <2>0. TypeOK /\ row[r] \in Row
    BY Zenon DEF RelayInv, TypeOK
  <2>1. CASE row'[r] = row[r]
    BY Zenon, <2>1
  <2>2. CASE row[r].state \notin {"quarantined", "published"}
    BY Zenon, <2>2
  <2>3. ASSUME NEW batch \in SUBSET Records, NEW good \in SUBSET Records, NEW tok, NEW l,
               ClaimDue(batch, good, tok, l)
        PROVE  row'[r] = row[r] \/ row[r].state \notin {"quarantined", "published"}
    BY Zenon, <2>3 DEF ClaimDue, Due
  <2>4. ASSUME NEW q \in Records, HostAppend(q)
        PROVE  row'[r] = row[r] \/ row[r].state \notin {"quarantined", "published"}
    BY Zenon, <2>0, <2>4 DEF HostAppend, Append, TypeOK
  <2>5. ASSUME NEW q \in Records, Damage(q) PROVE Final(r)
    <3>1. row'[r] = row[r] \/ row'[r] = RottenRow(row[r])
      BY Zenon, <2>0, <2>5 DEF Damage, Rot, TypeOK
    <3> QED
      BY Zenon, <2>0, <2>1, <3>1, RottenFields
  <2>6. ASSUME Tick PROVE Final(r)
    <3>1. row'[r] = TickedRow(row[r])
      BY Zenon, <2>6 DEF Tick, StoreTick
    <3> QED
      BY Zenon, <2>0, <3>1, TickedFields
  <2>7. ASSUME NEW a \in authorized, HostRequeue(a[1], a[2]) PROVE Final(r)
    <3>1. a \in Records \X Nat /\ a = <<a[1], a[2]>>
      BY <2>0 DEF TypeOK
    <3>2. /\ row'[r] = row[r] \/ r = a[1]
          /\ row[a[1]].state = "published" /\ row[a[1]].version = a[2]
      BY Zenon, <2>0, <2>7 DEF HostRequeue, RequeueConfirmed, TypeOK
    <3> QED
      BY Zenon, <2>1, <3>1, <3>2
  <2>8. ASSUME NEW t \in Tokens, Write(t)
        PROVE  row'[r] = row[r] \/ row[r].state \notin {"quarantined", "published"}
    BY Zenon, <2>0, <2>8 DEF Write, Update, Matches, TypeOK
  <2>9. ASSUME NEW w \in Relays, Scan(w) \/ ScanFails(w)
        PROVE  row'[r] = row[r] \/ row[r].state \notin {"quarantined", "published"}
    <3>1. CASE row' = row
      BY Zenon, <3>1
    <3>2. CASE \E batch \in Batches, l \in 0 .. Lease :
                 \E tok \in FreshTokens({q \in batch : row[q].intact}) :
                   ClaimDue(batch, {q \in batch : row[q].intact}, tok, l)
      <4>1. PICK batch \in Batches, l \in 0 .. Lease :
              \E tok \in FreshTokens({q \in batch : row[q].intact}) :
                ClaimDue(batch, {q \in batch : row[q].intact}, tok, l)
        BY Zenon, <3>2
      <4>2. batch \in SUBSET Records /\ {q \in batch : row[q].intact} \in SUBSET Records
        BY Zenon DEF Batches
      <4> QED
        BY Zenon, <2>3, <4>1, <4>2
    <3>3. Lease \in 0 .. Lease
      BY StoreAssumption DEF StoreAssumption
    <3> QED
      BY Zenon, <2>9, <3>1, <3>2, <3>3 DEF Scan, ScanFails
  <2>10. ASSUME NEW t \in Tokens,
               Launch(t) \/ BrokerAccept(t) \/ PublishConfirmed(t) \/ PublishUnconfirmed(t)
                 \/ StartWrite(t) \/ WriteTimeout(t) \/ WriteLost(t)
        PROVE  row' = row
    BY Zenon, <2>10 DEF Launch, BrokerAccept, PublishConfirmed, PublishUnconfirmed, StartWrite,
                 WriteTimeout, WriteLost
  <2>11. ASSUME NEW w \in Relays,
                Start(w) \/ Cancel(w) \/ BatchDone(w) \/ Poll(w) \/ Return(w) \/ Crash(w)
         PROVE  row' = row
    BY Zenon, <2>11 DEF Start, Cancel, BatchDone, Poll, Return, Crash
  <2>12. ASSUME NEW q \in Records, HostAuthorize(q) PROVE row' = row
    BY Zenon, <2>12 DEF HostAuthorize
  <2>13. ASSUME UNCHANGED vars PROVE row' = row
    BY Zenon, <2>13 DEF vars
  <2> HIDE DEF Final
  <2> QED
    BY Zenon, <2>1, <2>2, <2>4, <2>5, <2>6, <2>7, <2>8, <2>9, <2>10, <2>11, <2>12, <2>13
       DEF Next, RelayStep, Deliver
<1> QED
  BY <1>1, RelayInvariant, PTL DEF Spec, TerminalUntilAuthorized

----------------------------------------------------------------------------
\* One authorization replays its record at most once.  The invariant counts the
\* authorizations that name a version the row has left behind: versions only
\* grow, so none of them can match again.
Consumed(r) == {a \in authorized : a[1] = r /\ a[2] < row[r].version}

ReplayInv ==
  /\ IsFiniteSet(authorized)
  /\ \A r \in Records : ledger[r].replays <= Cardinality(Consumed(r))

\* What a step does to the version and the replays of a record.
Onward(r) ==
  /\ ledger'[r].replays = ledger[r].replays
  /\ row'[r].version >= row[r].version

\* A claiming transaction replays nothing and only raises versions.
LEMMA ClaimedOnward ==
  ASSUME TypeOK, NEW r \in Records, NEW batch \in SUBSET Records, NEW good \in SUBSET Records,
         NEW tok, NEW l, ClaimDue(batch, good, tok, l), ledger' = Tally(batch, good)
  PROVE  Onward(r)
<1>1. row[r] \in Row /\ ledger[r] \in History
  BY Zenon DEF TypeOK
<1>2. ledger'[r].replays = ledger[r].replays
  BY Zenon, <1>1 DEF Tally, History
<1>3. \/ row'[r] = ClaimedRow(row[r], tok[r], l)
      \/ row'[r] = CorruptRow(row[r])
      \/ row'[r] = row[r]
  BY Zenon DEF ClaimDue
<1>4. row'[r].version = row[r].version + 1 \/ row'[r].version = row[r].version
  <2>1. CASE row'[r] = ClaimedRow(row[r], tok[r], l)
    BY <1>1, <2>1, ClaimedFields
  <2>2. CASE row'[r] = CorruptRow(row[r])
    BY <1>1, <2>2, CorruptFields
  <2> QED BY Zenon, <1>3, <2>1, <2>2
<1>5. row[r].version \in Nat
  BY Zenon, <1>1, Counts
<1> QED
  BY <1>2, <1>4, <1>5 DEF Onward

\* Every step but a replay of the record.
LEMMA StepOnward ==
  ASSUME RelayInv, [Next]_vars, NEW r \in Records
  PROVE  \/ Onward(r)
         \/ \E a \in authorized : a[1] = r /\ HostRequeue(a[1], a[2])
<1>0. TypeOK /\ Spent /\ row[r] \in Row /\ ledger[r] \in History
  BY Zenon DEF RelayInv, TypeOK
<1>a. row[r].version \in Nat
  BY Zenon, <1>0, Counts
<1>1. ASSUME row'[r].version = row[r].version, ledger'[r].replays = ledger[r].replays PROVE Onward(r)
  BY <1>1, <1>a DEF Onward
<1>2. ASSUME row'[r].version = row[r].version + 1, ledger'[r].replays = ledger[r].replays PROVE Onward(r)
  BY <1>2, <1>a DEF Onward
<1>3. ASSUME NEW q \in Records, HostAppend(q) PROVE Onward(r)
  <2>1. PICK n \in Delays : Append(q, n)
    BY Zenon, <1>3 DEF HostAppend
  <2>2. /\ row'[r] = row[r] \/ (row[r].state = "absent" /\ row'[r] = AppendedRow(n))
        /\ ledger' = ledger
    BY Zenon, <1>0, <1>3, <2>1 DEF HostAppend, Append, TypeOK
  <2>3. row[r].state = "absent" => row[r].version = 0
    <3>1. ASSUME row[r].state = "absent"
          PROVE  /\ ledger[r].settled = 0 /\ ledger[r].lapsed = 0 /\ ledger[r].rotten = 0 /\ ledger[r].replays = 0
                 /\ row[r].attempts = ledger[r].settled + ledger[r].lapsed
                      + (IF row[r].state = "publishing" THEN 1 ELSE 0)
                 /\ row[r].version = row[r].attempts + ledger[r].settled + ledger[r].rotten + ledger[r].replays
      BY Zenon, <3>1 DEF RelayInv, Blank, CountersAccount
    <3> QED BY <3>1
  <2>4. AppendedRow(n).version = 0
    BY Zenon, AppendedFields
  <2> QED BY Zenon, <1>1, <2>2, <2>3, <2>4
<1>4. ASSUME NEW q \in Records, Damage(q) PROVE Onward(r)
  <2>1. (row'[r] = row[r] \/ row'[r] = RottenRow(row[r])) /\ ledger' = ledger
    BY Zenon, <1>0, <1>4 DEF Damage, Rot, TypeOK
  <2> QED BY Zenon, <1>0, <1>1, <2>1, RottenFields
<1>5. ASSUME Tick PROVE Onward(r)
  <2>1. row'[r] = TickedRow(row[r]) /\ ledger' = ledger
    BY Zenon, <1>5 DEF Tick, StoreTick
  <2> QED BY Zenon, <1>0, <1>1, <2>1, TickedFields
<1>6. ASSUME NEW a \in authorized, HostRequeue(a[1], a[2]), a[1] # r PROVE Onward(r)
  <2>1. row'[r] = row[r] /\ ledger'[r] = ledger[r]
    BY Zenon, <1>0, <1>6 DEF HostRequeue, RequeueConfirmed, TypeOK
  <2> QED BY Zenon, <1>1, <2>1
<1>7. ASSUME NEW t \in Tokens, Write(t) PROVE Onward(r)
  <2>1. CASE row'[r] = row[r] /\ ledger'[r] = ledger[r]
    BY Zenon, <1>1, <2>1
  <2>2. ASSUME NEW n, row'[r] = Outcome(claim[t], n), claim[t].rec = r, ledger'[r] = SettledOnceMore(ledger[r])
        PROVE  Onward(r)
    <3>1. row'[r] = ConfirmRow(row[r]) \/ row'[r] = RetryRow(row[r], n) \/ row'[r] = QuarantineRow(row[r])
      BY Zenon, <2>2 DEF Outcome
    <3>2. row'[r].version = row[r].version + 1
      <4>1. CASE row'[r] = ConfirmRow(row[r])
        BY <1>0, <4>1, ConfirmFields
      <4>2. CASE row'[r] = RetryRow(row[r], n) \/ row'[r] = QuarantineRow(row[r])
        BY <1>0, <4>2, FailedFields
      <4> QED BY Zenon, <3>1, <4>1, <4>2
    <3>3. ledger'[r].replays = ledger[r].replays
      BY Zenon, <1>0, <2>2, HistoryEffects
    <3> QED BY Zenon, <1>2, <3>2, <3>3
  <2>3. CASE ~Matches(claim[t].rec, t, claim[t].version, claim[t].stamp)
    BY Zenon, <1>7, <2>1, <2>3 DEF Write, Update
  <2>4. CASE Matches(claim[t].rec, t, claim[t].version, claim[t].stamp)
    <3>1. PICK n \in Delays : row' = [row EXCEPT ![claim[t].rec] = Outcome(claim[t], n)]
      BY Zenon, <1>7, <2>4 DEF Write, Update
    <3>2. ledger' = [ledger EXCEPT ![claim[t].rec] = SettledOnceMore(@)]
      BY Zenon, <1>7, <2>4 DEF Write
    <3>3. CASE claim[t].rec = r
      BY Zenon, <1>0, <2>2, <3>1, <3>2, <3>3 DEF TypeOK
    <3>4. CASE claim[t].rec # r
      BY Zenon, <1>0, <2>1, <3>1, <3>2, <3>4 DEF TypeOK
    <3> QED BY Zenon, <3>3, <3>4
  <2> QED BY Zenon, <2>3, <2>4
<1>8. ASSUME NEW w \in Relays, Scan(w) \/ ScanFails(w) PROVE Onward(r)
  <2>1. CASE UNCHANGED <<row, ledger>>
    BY Zenon, <1>1, <2>1
  <2>2. CASE \E batch \in Batches, l \in 0 .. Lease :
               /\ \E tok \in FreshTokens({q \in batch : row[q].intact}) :
                    ClaimDue(batch, {q \in batch : row[q].intact}, tok, l)
               /\ ledger' = Tally(batch, {q \in batch : row[q].intact})
    <3>1. PICK batch \in Batches, l \in 0 .. Lease :
               /\ \E tok \in FreshTokens({q \in batch : row[q].intact}) :
                    ClaimDue(batch, {q \in batch : row[q].intact}, tok, l)
               /\ ledger' = Tally(batch, {q \in batch : row[q].intact})
      BY Zenon, <2>2
    <3>2. batch \in SUBSET Records /\ {q \in batch : row[q].intact} \in SUBSET Records
      BY Zenon DEF Batches
    <3> QED BY Zenon, <1>0, <3>1, <3>2, ClaimedOnward
  <2>3. Lease \in 0 .. Lease
    BY StoreAssumption DEF StoreAssumption
  <2> QED BY Zenon, <1>8, <2>1, <2>2, <2>3 DEF Scan, ScanFails
<1>9. ASSUME NEW t \in Tokens,
             Launch(t) \/ BrokerAccept(t) \/ PublishConfirmed(t) \/ PublishUnconfirmed(t)
               \/ StartWrite(t) \/ WriteTimeout(t) \/ WriteLost(t)
      PROVE  UNCHANGED <<row, ledger>>
  BY Zenon, <1>9 DEF Launch, BrokerAccept, PublishConfirmed, PublishUnconfirmed, StartWrite,
               WriteTimeout, WriteLost
<1>10. ASSUME NEW w \in Relays,
              Start(w) \/ Cancel(w) \/ BatchDone(w) \/ Poll(w) \/ Return(w) \/ Crash(w)
       PROVE  UNCHANGED <<row, ledger>>
  BY Zenon, <1>10 DEF Start, Cancel, BatchDone, Poll, Return, Crash
<1>11. ASSUME (\E q \in Records : HostAuthorize(q)) \/ UNCHANGED vars PROVE UNCHANGED <<row, ledger>>
  BY Zenon, <1>11 DEF HostAuthorize, vars
<1>12. ASSUME UNCHANGED <<row, ledger>> PROVE Onward(r)
  BY Zenon, <1>1, <1>12
<1> QED
  BY Zenon, <1>3, <1>4, <1>5, <1>6, <1>7, <1>8, <1>9, <1>10, <1>11, <1>12 DEF Next, RelayStep, Deliver

\* A decision is added by HostAuthorize and never taken back.
LEMMA DecisionsStay ==
  ASSUME [Next]_vars, IsFiniteSet(authorized)
  PROVE  authorized \subseteq authorized' /\ IsFiniteSet(authorized')
<1>1. ASSUME NEW r \in Records, HostAuthorize(r) PROVE authorized \subseteq authorized' /\ IsFiniteSet(authorized')
  <2>1. authorized' = authorized \cup {<<r, row[r].version>>}
    BY Zenon, <1>1 DEF HostAuthorize
  <2> QED BY <2>1, FS_AddElement
<1>2. CASE UNCHANGED authorized
  BY Zenon, <1>2
<1>3. CASE \/ \E r \in Records : HostAppend(r) \/ Damage(r)
           \/ \E a \in authorized : HostRequeue(a[1], a[2])
           \/ \E w \in Relays : RelayStep(w) \/ Cancel(w) \/ ScanFails(w) \/ Crash(w)
           \/ \E t \in Tokens : Deliver(t) \/ PublishUnconfirmed(t) \/ WriteTimeout(t) \/ WriteLost(t)
           \/ Tick \/ UNCHANGED vars
  BY Zenon, <1>2, <1>3
     DEF HostAppend, Damage, HostRequeue, RelayStep, Start, Scan, BatchDone, Poll, Return, Cancel,
         ScanFails, Crash, Deliver, Launch, BrokerAccept, PublishConfirmed, StartWrite, Write,
         PublishUnconfirmed, WriteTimeout, WriteLost, Tick, vars
<1> QED BY Zenon, <1>1, <1>3 DEF Next

\* Every step keeps the account of consumed authorizations.
LEMMA ReplayStep == RelayInv /\ RelayInv' /\ ReplayInv /\ [Next]_vars => ReplayInv'
<1> SUFFICES ASSUME RelayInv, RelayInv', ReplayInv, [Next]_vars PROVE ReplayInv'
  OBVIOUS
<1>1. authorized \subseteq authorized' /\ IsFiniteSet(authorized')
  BY Zenon, DecisionsStay DEF ReplayInv
<1>2. ASSUME NEW r \in Records PROVE ledger'[r].replays <= Cardinality(Consumed(r)')
  <2>0. /\ authorized \subseteq Records \X Nat
        /\ row[r].version \in Nat /\ row'[r].version \in Nat
        /\ ledger[r].replays \in Nat
    BY Zenon, Counts DEF RelayInv, TypeOK
  <2>1. IsFiniteSet(Consumed(r)')
    BY <1>1, FS_Subset DEF Consumed
  <2>2. Cardinality(Consumed(r)') \in Nat
    BY <2>1, FS_CardinalityType
  <2>3. CASE Onward(r)
    <3>1. Consumed(r) \subseteq Consumed(r)'
      BY <1>1, <2>0, <2>3 DEF Consumed, Onward
    <3>2. Cardinality(Consumed(r)) <= Cardinality(Consumed(r)') /\ Cardinality(Consumed(r)) \in Nat
      BY <2>1, <3>1, FS_Subset, FS_CardinalityType
    <3> QED BY <2>0, <2>2, <2>3, <3>2 DEF ReplayInv, Onward
  <2>4. ASSUME NEW a \in authorized, a[1] = r, HostRequeue(a[1], a[2])
        PROVE  ledger'[r].replays <= Cardinality(Consumed(r)')
    <3>1. row[r] \in Row /\ ledger[r] \in History /\ row \in [Records -> Row] /\ ledger \in [Records -> History]
      BY Zenon DEF RelayInv, TypeOK
    <3>2. row[r].version = a[2] /\ row'[r] = RequeuedRow(row[r]) /\ ledger'[r] = Replayed(ledger[r]) /\ authorized' = authorized
      BY Zenon, <2>4, <3>1 DEF HostRequeue, RequeueConfirmed
    <3>3. row'[r].version = row[r].version + 1 /\ ledger'[r].replays = ledger[r].replays + 1
      BY Zenon, <3>1, <3>2, RequeuedFields, HistoryEffects
    <3>4. a \in Consumed(r)' /\ a \notin Consumed(r) /\ Consumed(r) \subseteq Consumed(r)'
      BY <2>0, <2>4, <3>2, <3>3 DEF Consumed
    <3>5. Consumed(r) \cup {a} \subseteq Consumed(r)' /\ IsFiniteSet(Consumed(r))
      BY <2>1, <3>4, FS_Subset
    <3>6. /\ Cardinality(Consumed(r) \cup {a}) = Cardinality(Consumed(r)) + 1
          /\ Cardinality(Consumed(r)) \in Nat
      BY <3>4, <3>5, FS_AddElement, FS_CardinalityType
    <3>7. Cardinality(Consumed(r) \cup {a}) <= Cardinality(Consumed(r)')
      BY <2>1, <3>5, FS_Subset
    <3> QED BY <2>0, <2>2, <3>3, <3>6, <3>7 DEF ReplayInv
  <2> QED BY Zenon, <2>3, <2>4, StepOnward
<1> QED BY Zenon, <1>1, <1>2 DEF ReplayInv, Consumed

\* RequeueConfirmed consumes the version an authorization names, so the host may
\* submit it again and again: the record is replayed at most once for it.
THEOREM ReplayOnce == Spec => []ReplayOncePerAuthorization
<1>1. Init => ReplayInv
  <2> SUFFICES ASSUME Init PROVE ReplayInv
    OBVIOUS
  <2>1. \A r \in Records : ledger[r].replays = 0 /\ Consumed(r) = {}
    BY Zenon DEF Init, NoHistory, Consumed
  <2> QED BY <2>1, FS_EmptySet DEF Init, ReplayInv
<1>2. ReplayInv /\ RelayInv => ReplayOncePerAuthorization
  <2> SUFFICES ASSUME ReplayInv, RelayInv, NEW r \in Records
               PROVE  ledger[r].replays <= Cardinality({a \in authorized : a[1] = r})
    BY Zenon DEF ReplayOncePerAuthorization
  <2> DEFINE mine == {a \in authorized : a[1] = r}
  <2>1. IsFiniteSet(mine) /\ Consumed(r) \subseteq mine
    BY FS_Subset DEF ReplayInv, Consumed
  <2>2. Cardinality(Consumed(r)) <= Cardinality(mine) /\ Cardinality(mine) \in Nat
        /\ Cardinality(Consumed(r)) \in Nat
    BY <2>1, FS_Subset, FS_CardinalityType
  <2>3. ledger[r].replays \in Nat
    BY Zenon, Counts DEF RelayInv, TypeOK
  <2> QED BY <2>2, <2>3 DEF ReplayInv
<1> QED BY <1>1, <1>2, ReplayStep, RelayInvariant, PTL DEF Spec
=============================================================================

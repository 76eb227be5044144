---------------------------- MODULE ReceiptOutbox ----------------------------
(***************************************************************************)
(* The receipt Outbox (delivery/mysql/outbox.go, and its Python twin       *)
(* durable.py): PUB OK and the receiver's durable receipt are different    *)
(* stages, and the ordered messages of an aggregate go out one after the   *)
(* other.  Pending is no claim: several senders may read the same rows and *)
(* settle late.  Each operator is one host transaction on one locked row.  *)
(* All messages belong to one aggregate; a message is its                  *)
(* aggregate_sequence.                                                     *)
(***************************************************************************)
EXTENDS Naturals, FiniteSets

CONSTANTS
    Msgs,           \* messages, numbered by aggregate_sequence
    Ordered,        \* rows with ordered = 1
    NeedsReceipt,   \* rows with requires_receipt = 1; the others are final ACKs
    Senders,        \* hosts' publishing loops
    Limit,          \* batch size of Pending
    MaxRearms,      \* bound on RearmAck
    MaxAttempts,    \* bound on repeats because of a late receipt alone
    MaxSlips        \* bound on crashes, unknown outcomes, losses and holds

ASSUME ReceiptAssumption ==
    /\ Msgs \subseteq Nat /\ Ordered \subseteq Msgs /\ NeedsReceipt \subseteq Msgs
    /\ Limit \in Nat \ {0} /\ MaxRearms \in Nat /\ MaxAttempts \in Nat /\ MaxSlips \in Nat

VARIABLES
    stage,      \* stage of each row, "absent" before the host's insert
    attempts,   \* unconfirmed attempts of each row
    due,        \* available_at has passed
    out,        \* out[s][m]: what sender s is doing with the copy it read
    published,  \* messages the broker accepted at least once
    transit,    \* messages the broker still has
    accepted,   \* messages the receiver durably accepted; its receipts exist
    rearms, slips

vars == <<stage, attempts, due, out, published, transit, accepted, rearms, slips>>
rowVars == <<stage, attempts, due>>

Older(n) == {o \in Ordered : o < n}

\* The row an operation locks exists; identity and body hash always match.
locked(m) == stage[m] # "absent"

Init ==
    /\ stage = [m \in Msgs |-> "absent"]
    /\ attempts = [m \in Msgs |-> 0]
    /\ due = [m \in Msgs |-> FALSE]
    /\ out = [s \in Senders |-> [m \in Msgs |-> "none"]]
    /\ published = {} /\ transit = {} /\ accepted = {}
    /\ rearms = 0 /\ slips = 0

Slip == slips < MaxSlips /\ slips' = slips + 1

\* The host's transaction inserts a row; it holds the aggregate, so ordered
\* rows commit in the order of their sequence.
Stage(m) ==
    /\ stage[m] = "absent"
    /\ m \in Ordered => \A o \in Older(m) : stage[o] # "absent"
    /\ stage' = [stage EXCEPT ![m] = "staged"]
    /\ due' = [due EXCEPT ![m] = TRUE]
    /\ UNCHANGED <<attempts, out, published, transit, accepted, rearms, slips>>

\* Mutant: only rows not yet sent hold the younger ones back.
PendingRowsUnsent ==
    {n \in Msgs :
        /\ stage[n] \in {"staged", "awaiting_receipt"} /\ due[n]
        /\ n \in Ordered => \A o \in Older(n) : stage[o] # "staged"}

\* Mutant: a row that was sent once is never sent again.
PendingRowsOnce ==
    {n \in Msgs :
        /\ stage[n] = "staged" /\ due[n]
        /\ n \in Ordered => \A o \in Older(n) : stage[o] = "confirmed"}

PendingRows ==
    {n \in Msgs :
        /\ stage[n] \in {"staged", "awaiting_receipt"} /\ due[n]
        /\ n \in Ordered => \A o \in Older(n) : stage[o] = "confirmed"}

\* A scan: at most Limit of the pending rows, in the order of available_at,
\* which any subset of them may lead.
Pending(s) ==
    /\ \A m \in Msgs : out[s][m] = "none"
    /\ PendingRows # {}
    /\ \E b \in SUBSET PendingRows :
          /\ b # {} /\ Cardinality(b) <= Limit
          /\ out' = [out EXCEPT ![s] = [m \in Msgs |-> IF m \in b THEN "read" ELSE "none"]]
    /\ UNCHANGED <<rowVars, published, transit, accepted, rearms, slips>>

\* PUB OK, or an unknown outcome with or without effect.
PublishOK(s, m) ==
    /\ out[s][m] = "read"
    /\ out' = [out EXCEPT ![s][m] = "ok"]
    /\ published' = published \cup {m} /\ transit' = transit \cup {m}
    /\ UNCHANGED <<rowVars, accepted, rearms, slips>>

PublishUnknown(s, m) ==
    /\ out[s][m] = "read"
    /\ Slip
    /\ out' = [out EXCEPT ![s][m] = "unknown"]
    /\ \/ published' = published \cup {m} /\ transit' = transit \cup {m}
       \/ UNCHANGED <<published, transit>>
    /\ UNCHANGED <<rowVars, accepted, rearms>>

\* Mutant: PUB OK confirms every row.
PublishedConfirms(s, m) ==
    /\ out[s][m] = "ok"
    /\ out' = [out EXCEPT ![s][m] = "none"]
    /\ IF stage[m] \in {"confirmed", "held"}
       THEN UNCHANGED rowVars
       ELSE /\ stage' = [stage EXCEPT ![m] = "confirmed"]
            /\ UNCHANGED <<attempts, due>>
    /\ UNCHANGED <<published, transit, accepted, rearms, slips>>

\* Mutant: a late PUB callback reopens a row that was confirmed or held.
PublishedReopens(s, m) ==
    /\ out[s][m] = "ok"
    /\ out' = [out EXCEPT ![s][m] = "none"]
    /\ stage' = [stage EXCEPT ![m] = IF m \in NeedsReceipt THEN "awaiting_receipt" ELSE "confirmed"]
    /\ attempts' = [attempts EXCEPT ![m] = IF m \in NeedsReceipt THEN @ + 1 ELSE @]
    /\ due' = [due EXCEPT ![m] = FALSE]
    /\ UNCHANGED <<published, transit, accepted, rearms, slips>>

\* Published leaves confirmed and held rows alone.
MarkPublished(m) ==
    IF stage[m] \in {"confirmed", "held"}
    THEN UNCHANGED rowVars
    ELSE /\ stage' = [stage EXCEPT ![m] = IF m \in NeedsReceipt THEN "awaiting_receipt" ELSE "confirmed"]
         /\ attempts' = [attempts EXCEPT ![m] = IF m \in NeedsReceipt THEN @ + 1 ELSE @]
         /\ due' = [due EXCEPT ![m] = FALSE]

Published(s, m) ==
    /\ out[s][m] = "ok"
    /\ out' = [out EXCEPT ![s][m] = "none"]
    /\ MarkPublished(m)
    /\ UNCHANGED <<published, transit, accepted, rearms, slips>>

\* Retry keeps the stage and moves available_at.
MarkRetry(m) ==
    IF stage[m] \in {"confirmed", "held"}
    THEN UNCHANGED rowVars
    ELSE /\ attempts' = [attempts EXCEPT ![m] = @ + 1]
         /\ due' = [due EXCEPT ![m] = FALSE]
         /\ UNCHANGED stage

Retry(s, m) ==
    /\ out[s][m] = "unknown"
    /\ out' = [out EXCEPT ![s][m] = "none"]
    /\ MarkRetry(m)
    /\ UNCHANGED <<published, transit, accepted, rearms, slips>>

\* A host holds a row for technical reasons, at any time.
MarkHeld(m) == stage' = [stage EXCEPT ![m] = IF @ = "confirmed" THEN @ ELSE "held"]

Hold(m) ==
    /\ locked(m) /\ stage[m] # "held"
    /\ Slip
    /\ MarkHeld(m)
    /\ UNCHANGED <<attempts, due, out, published, transit, accepted, rearms>>

\* The authenticated receipt of the receiver, whenever it arrives and however
\* often; it closes a held row too.  ACKs take no receipt.
Confirm(m) ==
    /\ m \in accepted /\ m \in NeedsReceipt
    /\ locked(m) /\ stage[m] # "confirmed"
    /\ stage' = [stage EXCEPT ![m] = "confirmed"]
    /\ UNCHANGED <<attempts, due, out, published, transit, accepted, rearms, slips>>

\* A duplicate business message makes the host send its final ACK again.
MarkRearmed(m) ==
    IF stage[m] = "held"
    THEN UNCHANGED rowVars
    ELSE /\ stage' = [stage EXCEPT ![m] = "staged"]
         /\ due' = [due EXCEPT ![m] = TRUE]
         /\ UNCHANGED attempts

RearmAck(m) ==
    /\ m \notin NeedsReceipt /\ locked(m)
    /\ rearms < MaxRearms /\ rearms' = rearms + 1
    /\ MarkRearmed(m)
    /\ UNCHANGED <<out, published, transit, accepted, slips>>

\* available_at passes.
Wait(m) ==
    /\ ~due[m]
    /\ \/ stage[m] = "staged"
       \/ /\ stage[m] = "awaiting_receipt"
          /\ attempts[m] < MaxAttempts \/ m \notin transit \cup accepted
    /\ due' = [due EXCEPT ![m] = TRUE]
    /\ UNCHANGED <<stage, attempts, out, published, transit, accepted, rearms, slips>>

\* PUB OK is no durability: the broker may lose what it accepted.
BrokerLoses(m) ==
    /\ m \in transit
    /\ Slip
    /\ transit' = transit \ {m}
    /\ UNCHANGED <<rowVars, out, published, accepted, rearms>>

\* A sender dies with its batch; what it published stays published.
Crash(s) ==
    /\ \E m \in Msgs : out[s][m] # "none"
    /\ Slip
    /\ out' = [out EXCEPT ![s] = [m \in Msgs |-> "none"]]
    /\ UNCHANGED <<rowVars, published, transit, accepted, rearms>>

\* The receiver persists the message and issues a receipt.
Accept(m) ==
    /\ m \in transit /\ m \notin accepted
    /\ accepted' = accepted \cup {m}
    /\ UNCHANGED <<rowVars, out, published, transit, rearms, slips>>

SenderStep(s) ==
    \/ Pending(s)
    \/ \E m \in Msgs : PublishOK(s, m) \/ Published(s, m) \/ Retry(s, m)

Idle ==
    /\ \A m \in Msgs : stage[m] # "absent"
    /\ UNCHANGED vars

Next ==
    \/ \E m \in Msgs :
          \/ Stage(m) \/ Hold(m) \/ Confirm(m) \/ RearmAck(m) \/ Wait(m) \/ BrokerLoses(m)
          \/ Accept(m)
    \/ \E s \in Senders :
          \/ SenderStep(s) \/ Crash(s)
          \/ \E m \in Msgs : PublishUnknown(s, m)
    \/ Idle

Spec == Init /\ [][Next]_vars

\* Senders keep scanning, time passes, the receiver accepts what reaches it and
\* its receipt is carried to the host again and again.
Fairness ==
    /\ \A s \in Senders : WF_vars(SenderStep(s))
    /\ \A m \in Msgs : WF_vars(Wait(m)) /\ WF_vars(Accept(m)) /\ WF_vars(Confirm(m))

FairSpec == Spec /\ Fairness

-----------------------------------------------------------------------------
(* Properties *)

\* Rows, senders' copies and broker sets.
TypeOK ==
    /\ stage \in [Msgs -> {"absent", "staged", "awaiting_receipt", "confirmed", "held"}]
    /\ attempts \in [Msgs -> Nat]
    /\ due \in [Msgs -> BOOLEAN]
    /\ out \in [Senders -> [Msgs -> {"none", "read", "ok", "unknown"}]]
    /\ published \subseteq Msgs /\ transit \subseteq published /\ accepted \subseteq published
    /\ rearms \in Nat /\ slips \in Nat

\* What a confirmed row stands for: the receiver's durable acceptance, or for
\* a final ACK the broker's.
Evidence(m) == IF m \in NeedsReceipt THEN m \in accepted ELSE m \in published

\* "Published never confirms a message that requires the receiver's durable
\* receipt": a row is confirmed only with evidence.
ConfirmedIsEvidence == \A m \in Msgs : stage[m] = "confirmed" => Evidence(m)

\* Pending "enforces source aggregate order": whatever senders crash, settle
\* late, hold or rearm, an ordered message reaches the broker only after every
\* older ordered message of its aggregate was taken over for good.
AggregateOrder ==
    \A n \in published \cap Ordered : \A o \in Older(n) : Evidence(o)

\* Late PUB callbacks, retries and holds never reopen a row closed by a
\* receipt, and a technical hold ends only by a receipt.
ClosedStaysClosed ==
    [][\A m \in Msgs :
          /\ stage[m] = "confirmed" /\ m \in NeedsReceipt => stage'[m] = "confirmed"
          /\ stage[m] = "held" => stage'[m] = "held" \/ (stage'[m] = "confirmed" /\ m \in accepted)
      ]_vars

\* Every staged row is confirmed or held in the end, or stands behind an older
\* row of its aggregate that is held.
EventuallyClosed ==
    \A m \in Msgs :
        (stage[m] = "staged") ~>
            \/ stage[m] \in {"confirmed", "held"}
            \/ m \in Ordered /\ \E o \in Older(m) : stage[o] = "held"
=============================================================================

---------------------------- MODULE DriverProducer ----------------------------
(***************************************************************************)
(* The producer of the RocketMQ driver (producer.go, transaction.go,       *)
(* publishing_message.go): sends with their attempts, transaction handles  *)
(* with their messages and receipts, Commit and RollBack, and the checks   *)
(* the broker asks for halves it has no resolution of.  The outcome of a   *)
(* send is the one the adapters above read from its error.                 *)
(***************************************************************************)
EXTENDS Naturals, FiniteSets

CONSTANTS
    Sends,          \* calls of Send or SendWithTransaction
    Handles,        \* transactions begun
    Transactional,  \* whether the sends are SendWithTransaction
    Attributes,     \* what may be set on a message besides its topic and body
    ServerAttempts, \* attempts in the settings the server sends
    MaxFaults       \* bound: errors of calls, checks that are not admitted

ASSUME DriverProducerAssumption ==
    /\ ServerAttempts \in Nat /\ MaxFaults \in Nat /\ Transactional \in BOOLEAN
    /\ Handles # {}
    /\ Attributes \subseteq {"messageGroup", "deliveryTimestamp", "priority", "liteTopic"}

VARIABLES
    send,       \* stage of each call, its handle, message and attempt, and the outcome
    handle,     \* messages, receipts and leaked read locks of each transaction
    final,      \* its decision and the receipts Commit or RollBack has to end
    settings,   \* attempts of the retry policy
    copies,     \* times the broker stored the message of each call
    half,       \* what the broker knows of a half: none, half, COMMIT, ROLLBACK
    faults

vars == <<send, handle, final, settings, copies, half, faults>>

MAX_MESSAGE_NUM == 1
WithMaxAttempts == 1

Init ==
    /\ send = [s \in Sends |-> [at |-> "idle", h |-> CHOOSE h \in Handles : TRUE, set |-> {}, attempt |-> 1, out |-> "none"]]
    /\ handle = [h \in Handles |-> [messages |-> {}, receipts |-> {}, leaked |-> 0]]
    /\ final = [h \in Handles |-> [decision |-> "none", todo |-> {}]]
    /\ settings = WithMaxAttempts
    /\ copies = [s \in Sends |-> 0] /\ half = [s \in Sends |-> "none"] /\ faults = 0

fault == faults < MaxFaults /\ faults' = faults + 1
becomes(s, stage) == send' = [send EXCEPT ![s].at = stage]
ends(s, out) == send' = [send EXCEPT ![s].at = "over", ![s].out = out]

\* applySettingsCommand: the server's attempts replace the option's.
applySettingsCommand ==
    /\ settings # ServerAttempts /\ settings' = ServerAttempts
    /\ UNCHANGED <<send, handle, final, copies, half, faults>>

-----------------------------------------------------------------------------
(* A message joins a transaction *)

\* The setters come in any order, so priority may stand beside the others.
begin(s, h, set) ==
    /\ send[s].at = "idle" /\ final[h].decision = "none"
    /\ send' = [send EXCEPT ![s].at = IF Transactional THEN "check" ELSE "publishing", ![s].h = h, ![s].set = set]
    /\ UNCHANGED <<handle, final, settings, copies, half, faults>>

full(h) == Cardinality(handle[h].messages) > MAX_MESSAGE_NUM

\* tryAddMessage under the read lock, which a full transaction does not give back.
tryAddMessageCheck(s) ==
    LET h == send[s].h IN
    /\ send[s].at = "check"
    /\ IF full(h) THEN ends(s, "Unknown") /\ handle' = [handle EXCEPT ![h].leaked = @ + 1]
                  ELSE becomes(s, "add") /\ UNCHANGED handle
    /\ UNCHANGED <<final, settings, copies, half, faults>>

\* NewPublishingMessage: what is looked at before a message becomes a transaction message.
transactionType(set) == set \cap {"messageGroup", "deliveryTimestamp", "priority"} = {}

\* tryAddMessage under the write lock.
tryAddMessage(s) ==
    LET h == send[s].h IN
    /\ send[s].at = "add" /\ handle[h].leaked = 0
    /\ IF full(h) \/ ~transactionType(send[s].set)
       THEN ends(s, "Unknown") /\ UNCHANGED handle
       ELSE becomes(s, "publishing") /\ handle' = [handle EXCEPT ![h].messages = @ \cup {s}]
    /\ UNCHANGED <<final, settings, copies, half, faults>>

-----------------------------------------------------------------------------
(* The attempts of a send *)

\* Defective: every message type follows the retry policy.
maxAttemptsOfAll == settings

\* A half is sent once, whatever the server's settings are.
maxAttempts == IF Transactional THEN 1 ELSE settings

\* send1: a message is stored, or refused by a client status, or the call fails before or
\* after it was stored, or the answer has no identity.  Isolating the broker changes
\* nothing: both loops of TakeMessageQueues look at the queue whose turn it is.
send1(s) ==
    /\ send[s].at = "publishing"
    /\ \E answer \in {"ok", "incomplete", "refused", "failed", "late"} :
        /\ IF answer = "ok" THEN UNCHANGED faults ELSE fault
        /\ copies' = [copies EXCEPT ![s] = IF answer \in {"ok", "incomplete", "late"} THEN @ + 1 ELSE @]
        /\ half' = [half EXCEPT ![s] = IF Transactional /\ copies'[s] > 0 /\ @ = "none" THEN "half" ELSE @]
        /\ CASE answer = "ok" -> IF Transactional THEN becomes(s, "receipt") ELSE ends(s, "Confirmed")
             [] answer = "incomplete" -> ends(s, "Unknown")
             [] answer \in {"refused", "failed", "late"} ->
                  IF send[s].attempt < maxAttempts THEN send' = [send EXCEPT ![s].attempt = @ + 1]
                  ELSE ends(s, IF answer = "refused" THEN "Rejected" ELSE "Unknown")
    /\ UNCHANGED <<handle, final, settings>>

\* send0 finds no route, or the message type does not match it.
send0Fails(s) ==
    /\ send[s].at = "publishing" /\ send[s].attempt = 1 /\ fault /\ ends(s, "Unknown")
    /\ UNCHANGED <<handle, final, settings, copies, half>>

\* tryAddReceipt waits behind a writer that waits for leaked read locks.
tryAddReceipt(s) ==
    LET h == send[s].h IN
    /\ send[s].at = "receipt"
    /\ ~(handle[h].leaked > 0 /\ \E o \in Sends : send[o].at = "add" /\ send[o].h = h)
    /\ ends(s, "Prepared") /\ handle' = [handle EXCEPT ![h].receipts = @ \cup {s}]
    /\ UNCHANGED <<final, settings, copies, half, faults>>

-----------------------------------------------------------------------------
(* Commit, RollBack and the checks of the broker *)

\* The host decides once, COMMIT only when every half of it is prepared, and finalizes
\* a prepared one.
decide(h, d) ==
    LET mine == {s \in Sends : send[s].at # "idle" /\ send[s].h = h} IN
    /\ final[h].decision = "none" /\ mine # {} /\ \A s \in mine : send[s].at = "over"
    /\ d = "COMMIT" => \A s \in mine : send[s].out = "Prepared"
    /\ final' = [final EXCEPT ![h] = [decision |-> d, todo |-> handle[h].receipts]]
    /\ UNCHANGED <<send, handle, settings, copies, half, faults>>

\* Defective: a decision that is not known rolls back.
resolvesRollingBack(s, d) == half' = [half EXCEPT ![s] = IF d = "none" THEN "ROLLBACK" ELSE d]

\* endTransaction: an unspecified resolution leaves the half.
resolves(s, d) == half' = [half EXCEPT ![s] = IF d = "none" THEN @ ELSE d]

\* CommitContext, RollBackContext: the receipts in any order, up to the first error.
finalize(h) ==
    \E s \in final[h].todo, ok \in BOOLEAN :
        /\ \/ half[s] = "half" /\ resolves(s, final[h].decision)
           \/ (~ok \/ half[s] # "half") /\ UNCHANGED half
        /\ IF ok THEN UNCHANGED faults ELSE fault
        /\ final' = [final EXCEPT ![h].todo = IF ok THEN @ \ {s} ELSE {}]
        /\ UNCHANGED <<send, handle, settings, copies>>

\* Defective: a check is answered for prepared halves only.
recoverPrepared(s) ==
    /\ half[s] = "half" /\ send[s].out = "Prepared" /\ resolves(s, final[send[s].h].decision)
    /\ UNCHANGED <<send, handle, final, settings, copies, faults>>

\* onRecoverOrphanedTransactionCommand: the admitted work asks the checker and ends the
\* transaction with what it said.
recover(s) ==
    /\ half[s] = "half" /\ resolves(s, final[send[s].h].decision)
    /\ UNCHANGED <<send, handle, final, settings, copies, faults>>

-----------------------------------------------------------------------------

sendStep(s) == tryAddMessageCheck(s) \/ tryAddMessage(s) \/ send1(s) \/ tryAddReceipt(s)

Next ==
    \/ applySettingsCommand
    \/ \E s \in Sends : \/ \E h \in Handles, set \in SUBSET Attributes : begin(s, h, set)
                        \/ sendStep(s) \/ send0Fails(s) \/ recover(s)
    \/ \E h \in Handles : finalize(h) \/ \E d \in {"COMMIT", "ROLLBACK"} : decide(h, d)

Spec == Init /\ [][Next]_vars

\* Calls are bounded by the request timeout, the host decides, and the broker asks again
\* until a half is resolved.
Fairness ==
    /\ \A s \in Sends : WF_vars(sendStep(s)) /\ WF_vars(recover(s))
    /\ \A h \in Handles : WF_vars(finalize(h)) /\ WF_vars(\E d \in {"COMMIT", "ROLLBACK"} : decide(h, d))

FairSpec == Spec /\ Fairness

-----------------------------------------------------------------------------
(* Properties *)

\* A client status of the last attempt is read as a refusal: the broker has not stored
\* the message in an earlier attempt either.
RejectedIsAbsent == \A s \in Sends : send[s].out = "Rejected" => copies[s] = 0

\* A half is resolved as the host decided; a check that comes before the decision leaves
\* it as it is.
ResolvedAsDecided ==
    \A s \in Sends : half[s] \in {"COMMIT", "ROLLBACK"} => half[s] = final[send[s].h].decision

\* A half is resolved in the end, one whose answer was lost included.
EveryHalfResolved == \A s \in Sends : half[s] = "half" ~> half[s] \in {"COMMIT", "ROLLBACK"}

\* "message in transaction has exceeded the threshold: 1".
OneMessage == \A h \in Handles : Cardinality(handle[h].messages) <= MAX_MESSAGE_NUM

\* "transactional message should not set messageGroup, deliveryTimestamp, priority or
\* liteTopic": no half has one of them.
PlainHalves == \A s \in Sends : half[s] # "none" => send[s].set = {}
=============================================================================

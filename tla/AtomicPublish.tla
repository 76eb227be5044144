---------------------------- MODULE AtomicPublish ----------------------------
(***************************************************************************)
(* What transactional publishing promises to its host and to consumers.    *)
(* An execution of a request is opened, then decided once.  The messages   *)
(* of a committed execution become visible one by one, those of an aborted *)
(* one are dropped; nothing of an undecided execution is visible.  A       *)
(* request gets a further execution only after the previous one was        *)
(* aborted, so its business effect happens at most once.                   *)
(***************************************************************************)
EXTENDS Integers

CONSTANTS Requests, Branches, Fences

VARIABLES
  outcome,   \* [Requests \X Fences -> {"absent", "prepared", "committed", "aborted"}]
  visible,   \* <<execution, branch>> a consumer can receive
  dropped    \* <<execution, branch>> no consumer will ever receive

avars == <<outcome, visible, dropped>>

AExecutions == Requests \X Fences

ASlots == AExecutions \X Branches

AInit ==
  /\ outcome = [e \in AExecutions |-> "absent"]
  /\ visible = {}
  /\ dropped = {}

AOpen(e) ==
  /\ outcome[e] = "absent"
  /\ \A f \in Fences : f < e[2] => outcome[<<e[1], f>>] = "aborted"
  /\ outcome' = [outcome EXCEPT ![e] = "prepared"]
  /\ UNCHANGED <<visible, dropped>>

ADecide(e, d) ==
  /\ outcome[e] = "prepared"
  /\ outcome' = [outcome EXCEPT ![e] = d]
  /\ UNCHANGED <<visible, dropped>>

APublish(s) ==
  /\ outcome[s[1]] = "committed"
  /\ s \notin dropped
  /\ visible' = visible \cup {s}
  /\ UNCHANGED <<outcome, dropped>>

ADrop(s) ==
  /\ outcome[s[1]] = "aborted"
  /\ s \notin visible
  /\ dropped' = dropped \cup {s}
  /\ UNCHANGED <<outcome, visible>>

ANext ==
  \/ \E e \in AExecutions : AOpen(e) \/ \E d \in {"committed", "aborted"} : ADecide(e, d)
  \/ \E s \in ASlots : APublish(s) \/ ADrop(s)

ASpec == AInit /\ [][ANext]_avars
=============================================================================

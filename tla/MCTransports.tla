---------------------------- MODULE MCTransports ----------------------------
(***************************************************************************)
(* The subscribers and publishers of both SDKs for model checking: one of  *)
(* the components takes the steps, so the state spaces add up instead of   *)
(* multiplying.  MCProgress asks for their liveness.                       *)
(***************************************************************************)
EXTENDS Subscribers, Publishers

VARIABLE side   \* whether a subscriber or a publisher takes the steps

\* Two handlers of one process, and a second process.
MCNsqTasks == {<<"p1", "w1">>, <<"p1", "w2">>, <<"p2", "w1">>}

Init ==
    /\ SubInit /\ PubInit
    /\ \/ side = "subscriber" /\ pubPart = "publisher"
       \/ side = "publisher" /\ subPart = "nsq"

\* A provisioner that is done and the Python components, once stopped, may rest;
\* the others must always have a step to take.
Rest ==
    /\ IF side = "subscriber" THEN subPart \in {"pynsq", "pyrocket"} ELSE pubPart \in {"provisioner", "pypublisher"}
    /\ UNCHANGED <<subVars, pubVars>>

Next ==
    /\ UNCHANGED side
    /\ \/ side = "subscriber" /\ SubNext /\ UNCHANGED pubVars
       \/ side = "publisher" /\ PubNext /\ UNCHANGED subVars
       \/ Rest

Spec == Init /\ [][Next]_<<side, subVars, pubVars>>

-----------------------------------------------------------------------------
(* Properties *)

\* Limits hold although tasks are cancelled, time out and leave sends or threads
\* behind: one registration per topic and channel, sends and deliveries within
\* MaxInFlight, messages requested within the slots reserved.
WithinLimits ==
    /\ side = "subscriber" => /\ subPart = "nsq" => Nsq!TypeOK
                              /\ subPart = "owner" => Owner!TypeOK /\ Owner!OneRegistration
                              /\ subPart = "rocket" => Rocket!TypeOK
                              /\ subPart = "pyrocket" => PyRocket!SlotsHold
    /\ side = "publisher" => /\ pubPart \in {"publisher", "managed"} => Pub!TypeOK
                             /\ pubPart = "pypublisher" => PyPub!CapacityHolds
=============================================================================

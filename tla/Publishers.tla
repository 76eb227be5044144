----------------------------- MODULE Publishers ------------------------------
(***************************************************************************)
(* The publishers of both SDKs, the provisioning their first publish needs *)
(* and what they promise together.  They share no state, so one of them    *)
(* takes the steps, as the initial state says.  The NSQ publisher follows  *)
(* the protocol of the RocketMQ publisher and runs on the same variables.  *)
(***************************************************************************)
EXTENDS Naturals, FiniteSets

CONSTANTS
    PubCalls, Closers, MaxInFlight, DriverAttempts, MaxStarts,
    Hosts, Nsqds, MaxFailures,
    PyCallers, PyInFlight, PyFaults

VARIABLES
    pubPart,    \* the component that takes the steps
    call, send, pub, inner, closer, stored, starts,
    prep, topic, channel, late, backlog, got, due, failures,
    driver, start, close, caller, thread, result, pstored, pfaults

Pub == INSTANCE NsqPublisher WITH Calls <- PubCalls

Prov == INSTANCE NsqProvisioning WITH N <- Nsqds, MaxFaults <- MaxFailures, faults <- failures

PyPub == INSTANCE PyRocketPublisher WITH
        Callers <- PyCallers, MaxInFlight <- PyInFlight, MaxFaults <- PyFaults,
        stored <- pstored, faults <- pfaults

ASSUME PublishersAssumption ==
    /\ Pub!PublisherAssumption
    /\ Prov!ProvisioningAssumption /\ PyPub!PyRocketPublisherAssumption

publisherVars == <<call, send, pub, inner, closer, stored, starts>>
provVars == <<prep, topic, channel, late, backlog, got, due, failures>>
pyPubVars == <<driver, start, close, caller, thread, result, pstored, pfaults>>
pubVars == <<pubPart, publisherVars, provVars, pyPubVars>>

PubParts == {"publisher", "managed", "provisioner", "pypublisher"}

PubInit ==
    /\ pubPart \in PubParts
    /\ IF pubPart = "managed" THEN Pub!NewManagedPublisher ELSE Pub!Init
    /\ Prov!Init /\ PyPub!Init

PubNext ==
    /\ UNCHANGED pubPart
    /\ \/ pubPart = "publisher" /\ Pub!Next /\ UNCHANGED <<provVars, pyPubVars>>
       \/ pubPart = "managed" /\ Pub!NsqNext /\ UNCHANGED <<provVars, pyPubVars>>
       \/ pubPart = "provisioner" /\ Prov!Next /\ UNCHANGED <<publisherVars, pyPubVars>>
       \/ pubPart = "pypublisher" /\ PyPub!Next /\ UNCHANGED <<publisherVars, provVars>>

PubSpec == PubInit /\ [][PubNext]_pubVars

-----------------------------------------------------------------------------
(* Properties *)

\* What a host was told stays true of the broker, though the send may outlive its
\* caller: a confirmed message is stored, a message the Go publishers call rejected is
\* stored only if the RocketMQ driver tried more than once, and after EnsureChannel's
\* success every message published is in the host's channel.
OutcomeIsTrue == /\ pubPart \in {"publisher", "managed"} => Pub!OutcomeIsTrue
                 /\ pubPart = "pypublisher" => PyPub!ConfirmedIsStored
                 /\ pubPart = "provisioner" => Prov!FirstPublishKept

\* A Drain or Close that reports success leaves no send behind, and until then no send
\* loses the driver it works on: only Interrupt stops a driver under a send.
DrainsBeforeStop ==
    pubPart \in {"publisher", "managed"} =>
        Pub!DrainedIsQuiet /\ Pub!StoppedUnderSend /\ Pub!ClosedIsQuiet
=============================================================================

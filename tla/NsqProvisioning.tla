--------------------------- MODULE NsqProvisioning ---------------------------
(***************************************************************************)
(* Provisioner of transport/nsq/provisioner.go: hosts prepare one topic    *)
(* and a durable channel of their own on every nsqd before they publish.   *)
(* A request that failed may have been carried out, or be carried out      *)
(* later.  nsqd itself is external: PUB creates an absent topic, a message *)
(* goes to the channels there are, and waits for the first one only if     *)
(* there is none.                                                          *)
(***************************************************************************)
EXTENDS Naturals

CONSTANTS
    Hosts,          \* services, each with a channel of its own
    N,              \* nsqd nodes, the endpoints in their declared order
    MaxFaults       \* bound on requests that fail and contexts that end

ProvisioningAssumption == N \in Nat \ {0} /\ MaxFaults \in Nat

VARIABLES
    prep,       \* the call of EnsureChannel of each host: loop and endpoint
    topic,      \* nodes that have the topic
    channel,    \* channel[n]: hosts whose channel exists on node n
    late,       \* requests whose answer was lost and that are still to run
    backlog,    \* backlog[n]: messages of a topic without channels
    got,        \* got[n]: <<message, host>> that entered a channel
    due,        \* history: <<node, message, host>> published when the host was prepared
    faults

vars == <<prep, topic, channel, late, backlog, got, due, faults>>

Nodes == 1 .. N
Messages == Hosts

\* No call yet; nothing prepared.
Init ==
    /\ prep = [h \in Hosts |-> [loop |-> "none", i |-> 1]]
    /\ topic = {} /\ channel = [n \in Nodes |-> {}] /\ late = {}
    /\ backlog = [n \in Nodes |-> {}] /\ got = [n \in Nodes |-> {}] /\ due = {} /\ faults = 0

fault == faults < MaxFaults /\ faults' = faults + 1

ready == {h \in Hosts : prep[h].loop = "done"}

\* nsqd creates a topic, or a channel of a topic it has, which takes what waited.
createTopic(n) == topic' = topic \cup {n} /\ UNCHANGED <<channel, backlog, got>>

createChannel(n, h) ==
    /\ channel' = [channel EXCEPT ![n] = @ \cup {h}]
    /\ got' = [got EXCEPT ![n] = @ \cup {<<m, h>> : m \in backlog[n]}]
    /\ backlog' = [backlog EXCEPT ![n] = {}]
    /\ UNCHANGED topic

create(path, n, h) == IF path = "topic" THEN createTopic(n) ELSE n \in topic /\ createChannel(n, h)

nodes == <<topic, channel, backlog, got>>

\* Mutant: only the channel is asked for.
EnsureChannelOnly(h) ==
    /\ prep[h].loop \in {"none", "failed"}
    /\ prep' = [prep EXCEPT ![h] = [loop |-> "channel", i |-> 1]]
    /\ UNCHANGED <<nodes, late, due, faults>>

\* EnsureChannel: first the topic.  The host calls it again after an error.
EnsureChannel(h) ==
    /\ prep[h].loop \in {"none", "failed"}
    /\ prep' = [prep EXCEPT ![h] = [loop |-> "topic", i |-> 1]]
    /\ UNCHANGED <<nodes, late, due, faults>>

\* The next endpoint; after the last one of the topics the channels, on the same.
advance(h) ==
    [prep EXCEPT ![h] =
        IF @.i < N THEN [loop |-> @.loop, i |-> @.i + 1]
        ELSE IF @.loop = "topic" THEN [loop |-> "channel", i |-> 1] ELSE [loop |-> "done", i |-> @.i]]

\* A request answered with 200.
ensure(h) ==
    /\ prep[h].loop \in {"topic", "channel"}
    /\ create(prep[h].loop, prep[h].i, h)
    /\ prep' = advance(h)
    /\ UNCHANGED <<late, due, faults>>

\* Mutant: an endpoint that fails is left out.
ensureFailsOnward(h) ==
    /\ prep[h].loop \in {"topic", "channel"} /\ fault
    /\ prep' = advance(h)
    /\ UNCHANGED <<nodes, late, due>>

\* Any other answer, none within five seconds, TOPIC_NOT_FOUND or the end of the
\* context ends the call; the node may have carried the request out or still do so.
ensureFails(h) ==
    /\ prep[h].loop \in {"topic", "channel"} /\ fault
    /\ prep' = [prep EXCEPT ![h].loop = "failed"]
    /\ late' \in {late, late \cup {<<prep[h].loop, prep[h].i, h>>}}
    /\ UNCHANGED <<nodes, due>>

carriedOut ==
    \E r \in late : create(r[1], r[2], r[3]) /\ late' = late \ {r} /\ UNCHANGED <<prep, due, faults>>

\* PUB of a host that was prepared, to any declared node.
Publish(m, n) ==
    /\ m \in ready /\ ~\E h \in Hosts : <<n, m, h>> \in due
    /\ topic' = topic \cup {n} /\ due' = due \cup {<<n, m, h>> : h \in ready}
    /\ IF channel[n] = {}
       THEN backlog' = [backlog EXCEPT ![n] = @ \cup {m}] /\ UNCHANGED got
       ELSE got' = [got EXCEPT ![n] = @ \cup {<<m, h>> : h \in channel[n]}] /\ UNCHANGED backlog
    /\ UNCHANGED <<prep, channel, late, faults>>

Next ==
    \/ \E h \in Hosts : EnsureChannel(h) \/ ensure(h) \/ ensureFails(h) \/ \E n \in Nodes : Publish(h, n)
    \/ carriedOut

Spec == Init /\ [][Next]_vars

\* A host calls EnsureChannel until it succeeds, and requests are answered.
Fairness == \A h \in Hosts : WF_vars(EnsureChannel(h)) /\ WF_vars(ensure(h))

FairSpec == Spec /\ Fairness

-----------------------------------------------------------------------------
(* Properties *)

\* "creates the topic and then a durable channel before the first publish" and "a partial
\* failure is returned so the host can stop startup instead of publishing to an unprepared
\* node": a message published once a host was prepared is in its channel on that node,
\* whoever published it and whatever requests were lost or came late.
FirstPublishKept == \A d \in due : <<d[2], d[3]>> \in got[d[1]]

\* Preparation that is called again after every partial failure succeeds: no node
\* answers the second loop with TOPIC_NOT_FOUND for ever.
EventuallyPrepared == \A h \in Hosts : <>(prep[h].loop = "done")
=============================================================================

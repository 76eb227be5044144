----------------------------- MODULE DriverClient -----------------------------
(***************************************************************************)
(* The client of the RocketMQ driver (client.go, client_manager.go): one   *)
(* telemetry session with its reader for each endpoint, the table of RPC   *)
(* connections, the manager's loops, startUp and gracefulStop.  A gRPC     *)
(* stream that has failed fails for good; a connection whose transport     *)
(* breaks fails what is in flight on it with Unavailable and goes on.      *)
(***************************************************************************)
EXTENDS Naturals, FiniteSets

CONSTANTS
    Endpoints,  \* endpoints of the routes
    Loops,      \* loops of the manager that make calls (heartbeats, routes); the
                \* notifications of gracefulStop are calls like theirs
    MaxConns,   \* bound: connections made
    MaxFaults   \* bound: transport breaks, idle connections, startup deadlines

DriverClientAssumption == MaxConns \in Nat /\ MaxFaults \in Nat

VARIABLES
    table,      \* rpcClientTable: the connection of each endpoint, 0 for none
    conn,       \* connections that were made: new, open, closed
    session,    \* of each endpoint: the reader, the connection of its stream (0 for no
                \* observer), whether the stream lives, recovering
    loop,       \* the call of each loop: endpoint, connection, stage
    telem,      \* the call publish makes to open a stream, of each endpoint
    client,     \* startUp, gracefulStop, inited, startUpError
    faults

vars == <<table, conn, session, loop, telem, client, faults>>

Conns == 1..MaxConns
noCall == [at |-> "idle", on |-> 0]

Init ==
    /\ table = [e \in Endpoints |-> 0] /\ conn = [i \in Conns |-> "new"]
    /\ session = [e \in Endpoints |-> [reader |-> "none", obs |-> 0, live |-> FALSE, recovering |-> FALSE]]
    /\ loop = [l \in Loops |-> [e \in Endpoints |-> noCall]]
    /\ telem = [e \in Endpoints |-> noCall]
    /\ client = [start |-> "sync", todo |-> Endpoints, inited |-> FALSE, err |-> FALSE,
                 stop |-> "none", done |-> FALSE]
    /\ faults = 0

fault == faults < MaxFaults /\ faults' = faults + 1

-----------------------------------------------------------------------------
(* The table of connections *)

fresh(i) == conn[i] = "new" /\ \A j \in Conns : j < i => conn[j] # "new"

\* Defective: done is not looked at under the lock.
openAlways == TRUE

\* The look at done that getRpcClient takes under the table's lock.
open == ~client.done

\* getRpcClient: the connection in the table, or a new one unless the manager is closed.
getRpcClient(e, i) ==
    \/ table[e] = i /\ UNCHANGED <<table, conn>>
    \/ /\ table[e] = 0 /\ open /\ fresh(i)
       /\ table' = [table EXCEPT ![e] = i] /\ conn' = [conn EXCEPT ![i] = "open"]

\* Streams on connections that close, or break, end.
cut(gone) == [e \in Endpoints |-> [session[e] EXCEPT !.live = @ /\ session[e].obs \notin gone]]

\* deleteRpcClient: the entry of the target goes, whichever connection it is, and the
\* connection of the call is closed.
deleteRpcClient(e, i) ==
    /\ table' = [table EXCEPT ![e] = 0] /\ conn' = [conn EXCEPT ![i] = "closed"]
    /\ session' = cut({i})

clearIdleRpcClients(e) ==
    /\ table[e] # 0 /\ fault /\ deleteRpcClient(e, table[e]) /\ UNCHANGED <<loop, telem, client>>

\* The transport of a connection breaks.
break(i) ==
    LET failed(call) == IF call.at = "call" /\ call.on = i THEN [call EXCEPT !.at = "unavailable"] ELSE call IN
    /\ conn[i] = "open" /\ fault /\ session' = cut({i})
    /\ loop' = [l \in Loops |-> [e \in Endpoints |-> failed(loop[l][e])]]
    /\ telem' = [e \in Endpoints |-> failed(telem[e])]
    /\ UNCHANGED <<table, conn, client>>

-----------------------------------------------------------------------------
(* The manager's loops: heartbeats and scheduled routes *)

\* The targets are those of the routes, which startUp stores when all are synced; a
\* loop in the middle of its targets does not look at done.
looping == client.todo = {} /\ client.stop \in {"none", "clean", "loops"}

rpc(l, e) ==
    /\ looping /\ \A o \in Endpoints : loop[l][o] = noCall
    /\ \E i \in Conns : /\ getRpcClient(e, i)
                       /\ loop' = [loop EXCEPT ![l][e] = [at |-> "call", on |-> i]]
    /\ UNCHANGED <<session, telem, client, faults>>

\* The call returns, or its connection was closed under it: any other error.
rpcEnds(l, e) ==
    /\ loop[l][e].at = "call" /\ loop' = [loop EXCEPT ![l][e] = noCall]
    /\ UNCHANGED <<table, conn, session, telem, client, faults>>

handleGrpcError(l, e) ==
    /\ loop[l][e].at = "unavailable" /\ deleteRpcClient(e, loop[l][e].on)
    /\ loop' = [loop EXCEPT ![l][e] = noCall] /\ UNCHANGED <<telem, client, faults>>

-----------------------------------------------------------------------------
(* The telemetry sessions *)

\* startUp's first settings, or those of the scheduled syncSettings.
wanted(e) == \/ client.start = "sync" /\ e \in client.todo
             \/ looping

\* publish without an observer, one at a time: getDefaultClientSession has the reader
\* run, and the session's lock is held while a stream is opened.
publish(e) ==
    /\ wanted(e) /\ session[e].obs = 0 /\ \A o \in Endpoints : telem[o] = noCall
    /\ \E i \in Conns : /\ getRpcClient(e, i)
                       /\ telem' = [telem EXCEPT ![e] = [at |-> "call", on |-> i]]
    /\ session' = [session EXCEPT ![e].reader = IF @ = "none" THEN "run" ELSE @]
    /\ UNCHANGED <<loop, client, faults>>

synced(e) == client' = [client EXCEPT !.todo = @ \ {e}]
refused(e) == client' = [client EXCEPT !.start = IF @ = "sync" THEN "failed" ELSE @]

\* The stream is there and the settings are sent, or it breaks before they are.
telemetry(e) ==
    /\ telem[e].at = "call" /\ conn[telem[e].on] = "open" /\ telem' = [telem EXCEPT ![e] = noCall]
    /\ \E sent \in BOOLEAN :
        /\ session' = [session EXCEPT ![e].obs = telem[e].on, ![e].live = sent]
        /\ IF sent THEN synced(e) /\ UNCHANGED faults ELSE refused(e) /\ fault
    /\ UNCHANGED <<table, conn, loop>>

\* It cannot be opened; with Unavailable the connection is deleted.
telemetryFails(e) ==
    /\ \/ telem[e].at = "unavailable" /\ deleteRpcClient(e, telem[e].on)
       \/ telem[e].at = "call" /\ conn[telem[e].on] = "closed" /\ UNCHANGED <<table, conn, session>>
    /\ telem' = [telem EXCEPT ![e] = noCall] /\ refused(e) /\ UNCHANGED <<loop, faults>>

\* The server answers the settings: inited.  Only the first answer matters here.
settings(e) ==
    /\ session[e].reader = "run" /\ session[e].live /\ ~client.inited
    /\ client' = [client EXCEPT !.inited = TRUE]
    /\ UNCHANGED <<table, conn, session, loop, telem, faults>>

\* Defective: the second failure leaves the observer in place.
recvFailsKeeping(e) ==
    /\ session[e].reader = "run" /\ session[e].obs # 0 /\ ~session[e].live
    /\ IF ~client.inited
       THEN session' = [session EXCEPT ![e].reader = "ended"] /\ client' = [client EXCEPT !.err = TRUE]
       ELSE session' = [session EXCEPT ![e].recovering = ~@] /\ UNCHANGED client
    /\ UNCHANGED <<table, conn, loop, telem, faults>>

\* Recv fails: before inited the error goes to startUp and the reader ends; after it the
\* reader tries once more and then releases the observer.
recvFails(e) ==
    /\ session[e].reader = "run" /\ session[e].obs # 0 /\ ~session[e].live
    /\ IF ~client.inited
       THEN session' = [session EXCEPT ![e].reader = "ended"] /\ client' = [client EXCEPT !.err = TRUE]
       ELSE /\ session' = [session EXCEPT ![e].recovering = ~@, ![e].obs = IF session[e].recovering THEN 0 ELSE @]
            /\ UNCHANGED client
    /\ UNCHANGED <<table, conn, loop, telem, faults>>

\* Defective: the wait for a new observer does not look at done.
readerEndsDeaf(e) ==
    /\ session[e].reader = "run" /\ client.done /\ ~session[e].live /\ session[e].obs # 0
    /\ session' = [session EXCEPT ![e].reader = "ended"]
    /\ UNCHANGED <<table, conn, loop, telem, client, faults>>

\* done, seen at the top of the loop or in one of its waits; not in Recv.
readerEnds(e) ==
    /\ session[e].reader = "run" /\ client.done /\ ~session[e].live
    /\ session' = [session EXCEPT ![e].reader = "ended"]
    /\ UNCHANGED <<table, conn, loop, telem, client, faults>>

-----------------------------------------------------------------------------
(* startUp and gracefulStop *)

startUpAwaits ==
    /\ client.start = "sync" /\ client.todo = {} /\ client' = [client EXCEPT !.start = "await"]
    /\ UNCHANGED <<table, conn, session, loop, telem, faults>>

\* The loop that polls inited ends when it is set, startUpError or not; inited may be set
\* after the poll looked at it and before it looks at startUpError or the deadline.
startUp ==
    /\ client.start = "await"
    /\ \/ client.inited /\ client' = [client EXCEPT !.start = "started"] /\ UNCHANGED faults
       \/ client.err /\ client' = [client EXCEPT !.start = "failed"] /\ UNCHANGED faults
       \/ fault /\ client' = [client EXCEPT !.start = "failed"]
    /\ UNCHANGED <<table, conn, session, loop, telem>>

\* GracefulStop by the host, or by a start that failed.
gracefulStop ==
    /\ client.stop = "none" /\ client.start \in {"started", "failed"}
    /\ client' = [client EXCEPT !.stop = "clean", !.done = TRUE]
    /\ UNCHANGED <<table, conn, session, loop, telem, faults>>

cleaned(gone) ==
    /\ conn' = [i \in Conns |-> IF i \in gone THEN "closed" ELSE conn[i]]
    /\ table' = [e \in Endpoints |-> 0] /\ session' = cut(gone)

cleanRpcClient ==
    /\ client.stop \in {"clean", "again"}
    /\ cleaned({table[e] : e \in Endpoints} \ {0})
    /\ client' = [client EXCEPT !.stop = IF @ = "clean" THEN "loops" ELSE "sessions"]
    /\ UNCHANGED <<loop, telem, faults>>

\* loopWG.Wait: the loops, syncSettings among them, have ended their calls.
loopsJoined ==
    /\ client.stop = "loops" /\ \A e \in Endpoints : telem[e] = noCall /\ \A l \in Loops : loop[l][e] = noCall
    /\ client' = [client EXCEPT !.stop = "again"]
    /\ UNCHANGED <<table, conn, session, loop, telem, faults>>

\* sessionWG.Wait.
sessionsJoined ==
    /\ client.stop = "sessions" /\ \A e \in Endpoints : session[e].reader # "run"
    /\ client' = [client EXCEPT !.stop = "returned"]
    /\ UNCHANGED <<table, conn, session, loop, telem, faults>>

-----------------------------------------------------------------------------

loopStep(l, e) == rpcEnds(l, e) \/ handleGrpcError(l, e)
sessionStep(e) == publish(e) \/ telemetry(e) \/ telemetryFails(e)
readerStep(e) == settings(e) \/ recvFails(e) \/ readerEnds(e)
stopStep == cleanRpcClient \/ loopsJoined \/ sessionsJoined

Next ==
    \/ \E i \in Conns : break(i)
    \/ \E e \in Endpoints : clearIdleRpcClients(e) \/ sessionStep(e) \/ readerStep(e) \/ \E l \in Loops : rpc(l, e) \/ loopStep(l, e)
    \/ startUpAwaits \/ startUp \/ gracefulStop \/ stopStep

Spec == Init /\ [][Next]_vars

\* The Go scheduler runs every goroutine, calls return, and syncSettings comes round.
Fairness ==
    /\ WF_vars(startUpAwaits) /\ WF_vars(startUp) /\ WF_vars(stopStep)
    /\ \A e \in Endpoints : /\ WF_vars(sessionStep(e)) /\ WF_vars(readerStep(e))
                            /\ \A l \in Loops : WF_vars(loopStep(l, e))

FairSpec == Spec /\ Fairness

-----------------------------------------------------------------------------
(* Properties *)

\* "closed-manager connection rejection prevent[s] background resources from being
\* recreated during shutdown": once the table has been cleaned it stays empty.
NothingRecreated == client.stop \in {"loops", "again", "sessions", "returned"} => \A e \in Endpoints : table[e] = 0

\* "propagate the error to startUp() so it can return immediately": a startUp that
\* returns nil has every session's reader at work.
StartUpErrorSeen == client.start = "started" => \A e \in Endpoints : session[e].reader = "run" \/ client.done

\* After a transport break the session gets a stream again and its reader listens.
ListensAgain ==
    \A e \in Endpoints :
        (client.start = "started") ~> ((session[e].live /\ session[e].reader = "run") \/ client.done \/ \A i \in Conns : conn[i] # "new")

\* "joins owned client/session workers": GracefulStop returns.
StopEnds == client.done ~> (client.stop = "returned")

\* The connection of every stream that lives is the table's.
tracked == \A e \in Endpoints : session[e].live => table[e] = session[e].obs

\* Only a connection that was dropped from the table under an open stream can keep
\* GracefulStop: otherwise the loops and the readers, recovering or waiting for an
\* observer, see done or their closed connections, and it returns.
StopEndsIfTracked == []tracked => StopEnds
=============================================================================

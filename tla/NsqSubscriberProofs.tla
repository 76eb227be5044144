------------------------- MODULE NsqSubscriberProofs -------------------------
(***************************************************************************)
(* The inductive invariants of the NSQ subscribers, for every set of       *)
(* messages, processes, registrations and handlers and every limit, and    *)
(* that every step keeps them.                                             *)
(***************************************************************************)
EXTENDS NsqSubscribers, TLAPS

(* PyNsqSubscriber *)

\* The stages of a handler task, and what nsqd and the readers look like.
PyNsqStages == {"idle", "record", "quarantine", "handler", "handoff", "finish", "requeue"}
PyNsqTask == [at : PyNsqStages, topic : PyNsq!Topics, msg : PyNsqMsgs \cup {"none"}, conn : Nat, att : Nat]
PyNsqEntry == [at : {"none", "queued", "inflight", "finished"}, att : Nat]
PyNsqReader == [at : {"none", "open", "closing", "closed"}, conn : Nat]

\* What the variables of PyNsqSubscriber range over.
PyNsqTypes ==
    /\ ynsqd \in [PyNsq!Topics -> [PyNsqMsgs -> PyNsqEntry]]
    /\ reader \in [PyNsq!Topics -> PyNsqReader]
    /\ ytask \in [PyNsqTasks -> PyNsqTask]
    /\ ysub \in [start : {"new", "channels", "business", "returned", "failed"},
                 stop : {"none", "waiting", "raised", "closing", "late", "returned"},
                 closing : BOOLEAN, stopped : BOOLEAN]
    /\ yruns \in [PyNsqMsgs -> Nat]

\* What a handler task has established: FIN stands for an accepted or audited message,
\* or for one whose failure copy nsqd has.
PyNsqHandles(t) ==
    /\ ytask[t].at # "idle" => ytask[t].msg \in PyNsqMsgs
    /\ ytask[t].at \in {"quarantine", "handler", "handoff"} => ytask[t].topic = "business"
    /\ ytask[t].at = "record" => ytask[t].topic = "failure"
    /\ ytask[t].at = "finish" =>
          \/ ytask[t].msg \in yaudited
          \/ /\ ytask[t].topic = "business"
             /\ ytask[t].msg \in yaccepted \/ ynsqd["failure"][ytask[t].msg].at # "none"

\* So has every task.
PyNsqHandling == \A t \in PyNsqTasks : PyNsqHandles(t)

\* Every run of the host consumed an attempt nsqd counted.
PyNsqCounted ==
    \A m \in PyNsqMsgs : yruns[m] <= ynsqd["business"][m].att /\ yruns[m] <= PyNsqAttempts

\* stop closes the readers after the tasks ended; a stop that does not overlap start
\* leaves no reader open.
PyNsqStopping ==
    /\ ysub.stop # "none" => ysub.closing
    /\ ysub.stop \in {"closing", "late", "returned"} => PyNsq!live = {}
    /\ ~PyNsqOverlap =>
          /\ ysub.start \in {"new", "channels", "business"} => ysub.stop = "none" /\ ~ysub.stopped
          /\ ysub.stopped => /\ ysub.stop = "returned"
                             /\ \A k \in PyNsq!Topics : reader[k].at \in {"none", "closed"}

\* The inductive invariant of PyNsqSubscriber.
PyNsqInv == PyNsqTypes /\ PyNsqHandling /\ PyNsqCounted /\ PyNsqStopping /\ PyNsq!NothingLost

\* What nsqd does to its messages in a step: it counts attempts up, forgets no failure
\* record, and drops only the messages of F.
PyNsqKeeps(F) ==
    /\ ynsqd' \in [PyNsq!Topics -> [PyNsqMsgs -> PyNsqEntry]]
    /\ \A k \in PyNsq!Topics, m \in PyNsqMsgs :
          /\ ynsqd'[k][m].att >= ynsqd[k][m].att
          /\ ynsqd[k][m].at # "none" => ynsqd'[k][m].at # "none"
          /\ ynsqd'[k][m].at = "finished" => ynsqd[k][m].at = "finished" \/ <<k, m>> \in F

\* A step of tasks and nsqd keeps the invariant if what it finishes was accepted, audited
\* or handed off.
LEMMA PyNsqKept ==
  ASSUME PyNsqInv, NEW F, PyNsqKeeps(F),
         \A k \in PyNsq!Topics, m \in PyNsqMsgs : <<k, m>> \in F =>
             \/ m \in yaudited
             \/ k = "business" /\ (m \in yaccepted \/ ynsqd["failure"][m].at # "none"),
         reader' \in [PyNsq!Topics -> PyNsqReader],
         \A k \in PyNsq!Topics : reader'[k].at = reader[k].at \/ reader'[k].at = "closed",
         ytask' \in [PyNsqTasks -> PyNsqTask],
         \A t \in PyNsqTasks : ytask'[t] = ytask[t] \/ (ytask[t].at # "idle" /\ PyNsqHandles(t)'),
         yaccepted \subseteq yaccepted', yaudited \subseteq yaudited', UNCHANGED <<yruns, ysub>>
  PROVE  PyNsqInv'
<1>1. PyNsqTypes'
  BY Zenon DEF PyNsqInv, PyNsqTypes, PyNsqKeeps
<1>2. PyNsqHandling'
  <2> SUFFICES ASSUME NEW t \in PyNsqTasks, ytask'[t] = ytask[t] PROVE PyNsqHandles(t)'
    BY Zenon DEF PyNsqHandling
  <2>1. PyNsqHandles(t) /\ "failure" \in PyNsq!Topics
    BY Zenon DEF PyNsqInv, PyNsqHandling, PyNsq!Topics
  <2>2. \A m \in PyNsqMsgs : ynsqd["failure"][m].at # "none" => ynsqd'["failure"][m].at # "none"
    BY Zenon, <2>1 DEF PyNsqKeeps
  <2> QED
    BY Zenon, <2>1, <2>2 DEF PyNsqHandles
<1>3. PyNsqCounted'
  <2> SUFFICES ASSUME NEW m \in PyNsqMsgs
               PROVE  yruns[m] <= ynsqd'["business"][m].att /\ yruns[m] <= PyNsqAttempts
    BY Zenon DEF PyNsqCounted
  <2>1. /\ yruns[m] \in Nat /\ ynsqd["business"][m].att \in Nat /\ ynsqd'["business"][m].att \in Nat
        /\ ynsqd'["business"][m].att >= ynsqd["business"][m].att
    BY Zenon DEF PyNsqInv, PyNsqTypes, PyNsqKeeps, PyNsqEntry, PyNsq!Topics
  <2> QED
    BY <2>1 DEF PyNsqInv, PyNsqCounted
<1>4. PyNsqStopping'
  BY DEF PyNsqInv, PyNsqStopping, PyNsq!live, PyNsqHandles
<1>5. PyNsq!NothingLost'
  BY Zenon DEF PyNsqInv, PyNsq!NothingLost, PyNsqKeeps, PyNsq!Topics
<1> QED
  BY Zenon, <1>1, <1>2, <1>3, <1>4, <1>5 DEF PyNsqInv

\* FIN, REQ and a timeout change the place of one message.
LEMMA PyNsqSet ==
  ASSUME ynsqd \in [PyNsq!Topics -> [PyNsqMsgs -> PyNsqEntry]], NEW k \in PyNsq!Topics, NEW m \in PyNsqMsgs,
         NEW v \in {"queued", "inflight", "finished"}, ynsqd' = [ynsqd EXCEPT ![k][m].at = v],
         ynsqd[k][m].at = "inflight" \/ v # "finished"
  PROVE  PyNsqKeeps(IF v = "finished" THEN {<<k, m>>} ELSE {})
<1> DEFINE x == [ynsqd[k][m] EXCEPT !.at = v]
           row == [ynsqd[k] EXCEPT ![m] = x]
<1>1. x \in PyNsqEntry /\ x.at = v /\ x.att = ynsqd[k][m].att
  BY Zenon DEF PyNsqEntry
<1>2. row \in [PyNsqMsgs -> PyNsqEntry] /\ row[m] = x /\ \A n \in PyNsqMsgs : n # m => row[n] = ynsqd[k][n]
  BY Zenon, <1>1
<1>3. ynsqd' = [ynsqd EXCEPT ![k] = row]
  BY Zenon
<1> HIDE DEF x, row
<1>4. /\ ynsqd' \in [PyNsq!Topics -> [PyNsqMsgs -> PyNsqEntry]] /\ ynsqd'[k] = row
      /\ \A j \in PyNsq!Topics : j # k => ynsqd'[j] = ynsqd[j]
  BY Zenon, <1>2, <1>3
<1>5. \A j \in PyNsq!Topics, n \in PyNsqMsgs :
        /\ ynsqd[j][n].att \in Nat
        /\ ynsqd'[j][n] = ynsqd[j][n] \/ (j = k /\ n = m /\ ynsqd'[j][n] = x)
  BY <1>2, <1>4 DEF PyNsqEntry
<1> QED
  BY <1>1, <1>4, <1>5 DEF PyNsqKeeps

\* A message in another place.
Placed(x, v) == [x EXCEPT !.at = v]

\* A lost connection gives the messages in flight back.
LEMMA PyNsqRequeued ==
  ASSUME ynsqd \in [PyNsq!Topics -> [PyNsqMsgs -> PyNsqEntry]], NEW k \in PyNsq!Topics
  PROVE  /\ PyNsq!requeued(k) \in [PyNsqMsgs -> PyNsqEntry]
         /\ \A m \in PyNsqMsgs : /\ PyNsq!requeued(k)[m].att = ynsqd[k][m].att
                                 /\ ynsqd[k][m].at # "none" => PyNsq!requeued(k)[m].at # "none"
                                 /\ PyNsq!requeued(k)[m].at = "finished" => ynsqd[k][m].at = "finished"
<1>1. ASSUME NEW x \in PyNsqEntry, NEW v \in {"none", "queued", "inflight", "finished"}
      PROVE  Placed(x, v) \in PyNsqEntry /\ Placed(x, v).att = x.att /\ Placed(x, v).at = v
  BY Zenon DEF PyNsqEntry, Placed
<1>2. PyNsq!requeued(k) = [m \in PyNsqMsgs |-> Placed(ynsqd[k][m],
                              IF ynsqd[k][m].at = "inflight" THEN "queued" ELSE ynsqd[k][m].at)]
  BY Zenon DEF PyNsq!requeued, Placed
<1>3. \A m \in PyNsqMsgs : ynsqd[k][m] \in PyNsqEntry /\ ynsqd[k][m].at \in {"none", "queued", "inflight", "finished"}
  BY Zenon DEF PyNsqEntry
<1> QED
  BY <1>1, <1>2, <1>3

\* A reader that connects again does not open or close.
LEMMA PyNsqReconnects ==
  ASSUME PyNsqTypes, NEW k \in PyNsq!Topics, PyNsq!reconnects(k), NEW F
  PROVE  /\ PyNsqKeeps(F)
         /\ reader' \in [PyNsq!Topics -> PyNsqReader] /\ \A j \in PyNsq!Topics : reader'[j].at = reader[j].at
<1>1. ynsqd' = [ynsqd EXCEPT ![k] = PyNsq!requeued(k)]
  BY Zenon DEF PyNsq!reconnects
<1>2. PyNsqKeeps(F)
  <2>1. \A j \in PyNsq!Topics, n \in PyNsqMsgs : ynsqd[j][n].att \in Nat
    BY Zenon DEF PyNsqTypes, PyNsqEntry
  <2> QED
    BY <1>1, <2>1, PyNsqRequeued DEF PyNsqTypes, PyNsqKeeps
<1> DEFINE x == [reader[k] EXCEPT !.conn = reader[k].conn + 1]
<1>3. reader[k] \in PyNsqReader /\ reader[k].conn + 1 \in Nat
  BY DEF PyNsqTypes, PyNsqReader
<1>4. x \in PyNsqReader /\ x.at = reader[k].at
  BY Zenon, <1>3 DEF PyNsqReader
<1>5. reader' = [reader EXCEPT ![k] = x]
  BY Zenon DEF PyNsq!reconnects
<1> HIDE DEF x
<1> QED
  BY Zenon, <1>2, <1>4, <1>5 DEF PyNsqTypes

\* FIN and REQ, which may meet a lost connection.
LEMMA PyNsqSettles ==
  ASSUME PyNsqInv, NEW t \in PyNsqTasks, PyNsq!settle(t)
  PROVE  PyNsqInv'
<1> DEFINE k == ytask[t].topic  m == ytask[t].msg
           to == IF ytask[t].at = "finish" THEN "finished" ELSE "queued"
           F == IF to = "finished" THEN {<<k, m>>} ELSE {}
<1>1. /\ PyNsqTypes /\ PyNsqHandles(t) /\ ytask[t].at \in {"finish", "requeue"}
      /\ k \in PyNsq!Topics /\ m \in PyNsqMsgs
      /\ ytask' = [ytask EXCEPT ![t] = PyNsq!idle] /\ PyNsq!respond(t, to)
      /\ UNCHANGED <<ysub, yaccepted, yaudited, yruns>>
  BY Zenon DEF PyNsqInv, PyNsqTypes, PyNsqHandling, PyNsqHandles, PyNsqTask, PyNsq!settle, PyNsq!ends
<1>2. /\ PyNsqKeeps(F)
      /\ reader' \in [PyNsq!Topics -> PyNsqReader] /\ \A j \in PyNsq!Topics : reader'[j].at = reader[j].at
  <2>1. CASE UNCHANGED <<ynsqd, reader>>
    <3>1. \A j \in PyNsq!Topics, n \in PyNsqMsgs : ynsqd[j][n].att \in Nat
      BY Zenon, <1>1 DEF PyNsqTypes, PyNsqEntry
    <3> QED
      BY <1>1, <2>1, <3>1 DEF PyNsqTypes, PyNsqKeeps
  <2>2. CASE ynsqd' = [ynsqd EXCEPT ![k][m].at = to] /\ ynsqd[k][m].at = "inflight" /\ UNCHANGED reader
    BY Zenon, <1>1, <2>2, PyNsqSet DEF PyNsqTypes
  <2>3. CASE PyNsq!reconnects(k)
    BY Zenon, <1>1, <2>3, PyNsqReconnects
  <2> QED
    BY Zenon, <1>1, <2>1, <2>2, <2>3 DEF PyNsq!respond
<1>3. ytask' \in [PyNsqTasks -> PyNsqTask]
  BY Zenon, <1>1 DEF PyNsqTypes, PyNsqTask, PyNsqStages, PyNsq!idle, PyNsq!Topics
<1>4. \A u \in PyNsqTasks : ytask'[u] = ytask[u] \/ (ytask[u].at # "idle" /\ PyNsqHandles(u)')
  BY Zenon, <1>1 DEF PyNsqTypes, PyNsqHandles, PyNsq!idle
<1>5. \A j \in PyNsq!Topics, n \in PyNsqMsgs : <<j, n>> \in F =>
        \/ n \in yaudited
        \/ j = "business" /\ (n \in yaccepted \/ ynsqd["failure"][n].at # "none")
  BY Zenon, <1>1 DEF PyNsqHandles
<1> HIDE DEF F
<1> QED
  BY Zenon, <1>1, <1>2, <1>3, <1>4, <1>5, PyNsqKept

\* The host commits, returns or raises; the failure is recorded or handed off.
LEMMA PyNsqTaskStep ==
  ASSUME PyNsqInv, NEW t \in PyNsqTasks,
         PyNsq!commits(t) \/ PyNsq!handlerReturns(t) \/ PyNsq!handlerRaises(t) \/ PyNsq!records(t) \/ PyNsq!handoff(t)
  PROVE  PyNsqInv'
<1>1. /\ PyNsqTypes /\ PyNsqHandles(t) /\ ytask[t] \in PyNsqTask /\ ytask[t].at # "idle" /\ ytask[t].msg \in PyNsqMsgs
      /\ UNCHANGED <<reader, ysub, yruns>>
      /\ yaccepted \subseteq yaccepted' /\ yaudited \subseteq yaudited'
  BY Zenon DEF PyNsqInv, PyNsqTypes, PyNsqHandling, PyNsqHandles, PyNsq!commits, PyNsq!handlerReturns, PyNsq!handlerRaises,
         PyNsq!records, PyNsq!handoff
<1>2. PyNsqKeeps({})
  <2>1. CASE UNCHANGED ynsqd
    <3>1. \A j \in PyNsq!Topics, n \in PyNsqMsgs : ynsqd[j][n].att \in Nat
      BY Zenon, <1>1 DEF PyNsqTypes, PyNsqEntry
    <3> QED
      BY <1>1, <2>1, <3>1 DEF PyNsqTypes, PyNsqKeeps
  <2>2. CASE ynsqd' = PyNsq!stored(ytask[t].msg)
    <3> DEFINE m == ytask[t].msg
               v == IF ynsqd["failure"][m].at = "inflight" THEN "inflight" ELSE "queued"
    <3>1. ynsqd' = [ynsqd EXCEPT !["failure"][m].at = IF @ = "inflight" THEN @ ELSE "queued"]
      BY Zenon, <2>2 DEF PyNsq!stored
    <3>2. ynsqd' = [ynsqd EXCEPT !["failure"][m].at = v]
      BY Zenon, <3>1
    <3>3. v \in {"queued", "inflight"} /\ "failure" \in PyNsq!Topics
      BY Zenon DEF PyNsq!Topics
    <3> HIDE DEF v
    <3>4. PyNsqKeeps(IF v = "finished" THEN {<<"failure", m>>} ELSE {})
      BY Zenon, <1>1, <3>2, <3>3, PyNsqSet DEF PyNsqTypes
    <3> QED
      BY Zenon, <3>3, <3>4
  <2> QED
    BY Zenon, <2>1, <2>2 DEF PyNsq!commits, PyNsq!handlerReturns, PyNsq!handlerRaises, PyNsq!records, PyNsq!handoff
<1>3. ASSUME NEW v \in PyNsqStages, PyNsq!becomes(t, v), v \notin {"idle", "record"},
             v \in {"quarantine", "handler", "handoff"} => ytask[t].topic = "business",
             v = "finish" => \/ ytask[t].msg \in yaudited'
                             \/ /\ ytask[t].topic = "business"
                                /\ ytask[t].msg \in yaccepted' \/ ynsqd'["failure"][ytask[t].msg].at # "none"
      PROVE  PyNsqInv'
  <2> DEFINE x == [ytask[t] EXCEPT !.at = v]
  <2>1. x \in PyNsqTask /\ x.at = v /\ x.topic = ytask[t].topic /\ x.msg = ytask[t].msg
    BY Zenon, <1>1 DEF PyNsqTask
  <2>2. ytask' = [ytask EXCEPT ![t] = x]
    BY Zenon, <1>3 DEF PyNsq!becomes
  <2> HIDE DEF x
  <2>3. /\ ytask' \in [PyNsqTasks -> PyNsqTask] /\ ytask'[t] = x
        /\ \A u \in PyNsqTasks : u # t => ytask'[u] = ytask[u]
    BY Zenon, <1>1, <2>1, <2>2 DEF PyNsqTypes
  <2>4. PyNsqHandles(t)'
    BY Zenon, <1>1, <1>3, <2>1, <2>3 DEF PyNsqHandles
  <2> QED
    BY Zenon, <1>1, <1>2, <2>3, <2>4, PyNsqKept DEF PyNsqTypes
<1>4. CASE PyNsq!commits(t)
  BY Zenon, <1>1, <1>2, <1>4, PyNsqKept DEF PyNsqTypes, PyNsq!commits
<1>5. CASE PyNsq!handlerReturns(t)
  BY Zenon, <1>1, <1>3, <1>5 DEF PyNsq!handlerReturns, PyNsqStages, PyNsqHandles
<1>6. CASE PyNsq!handlerRaises(t)
  BY Zenon, <1>1, <1>3, <1>6 DEF PyNsq!handlerRaises, PyNsqStages, PyNsqHandles
<1>7. CASE PyNsq!records(t)
  BY Zenon, <1>1, <1>3, <1>7 DEF PyNsq!records, PyNsqStages, PyNsqHandles
<1>8. CASE PyNsq!handoff(t)
  <2>1. ytask[t].topic = "business"
    BY Zenon, <1>1, <1>8 DEF PyNsq!handoff, PyNsqHandles
  <2>2. CASE PyNsq!becomes(t, "requeue")
    BY Zenon, <1>3, <2>1, <2>2 DEF PyNsqStages
  <2>3. CASE PyNsq!becomes(t, "finish") /\ ynsqd' = PyNsq!stored(ytask[t].msg)
    <3>1. ynsqd'["failure"][ytask[t].msg].at # "none"
      <4> DEFINE m == ytask[t].msg
                 x == [ynsqd["failure"][m] EXCEPT !.at = IF ynsqd["failure"][m].at = "inflight" THEN ynsqd["failure"][m].at ELSE "queued"]
      <4>1. ynsqd["failure"][m] \in PyNsqEntry /\ "failure" \in PyNsq!Topics
        BY Zenon, <1>1 DEF PyNsqTypes, PyNsq!Topics
      <4>2. x.at = IF ynsqd["failure"][m].at = "inflight" THEN ynsqd["failure"][m].at ELSE "queued"
        BY Zenon, <4>1 DEF PyNsqEntry
      <4>3. ynsqd'["failure"][m] = x
        BY Zenon, <1>1, <2>3, <4>1 DEF PyNsqTypes, PyNsq!stored
      <4> QED
        BY <4>2, <4>3
    <3> QED
      BY Zenon, <1>3, <2>1, <2>3, <3>1 DEF PyNsqStages
  <2> QED
    BY Zenon, <1>8, <2>2, <2>3 DEF PyNsq!handoff
<1> QED
  BY Zenon, <1>4, <1>5, <1>6, <1>7, <1>8

\* nsqd loses a connection or gives a message up as timed out.
LEMMA PyNsqDaemonStep ==
  ASSUME PyNsqInv, NEW k \in PyNsq!Topics,
         PyNsq!connectionLost(k) \/ PyNsq!readerCloses(k) \/ \E m \in PyNsqMsgs : PyNsq!timeout(k, m)
  PROVE  PyNsqInv'
<1>1. PyNsqTypes /\ UNCHANGED <<ytask, ysub, yaccepted, yaudited, yruns>>
  BY Zenon DEF PyNsqInv, PyNsq!connectionLost, PyNsq!readerCloses, PyNsq!timeout
<1>2. /\ PyNsqKeeps({}) /\ reader' \in [PyNsq!Topics -> PyNsqReader]
      /\ \A j \in PyNsq!Topics : reader'[j].at = reader[j].at \/ reader'[j].at = "closed"
  <2>1. CASE PyNsq!connectionLost(k)
    BY Zenon, <1>1, <2>1, PyNsqReconnects DEF PyNsq!connectionLost
  <2>2. ASSUME NEW m \in PyNsqMsgs, PyNsq!timeout(k, m)
        PROVE  PyNsqKeeps({}) /\ UNCHANGED reader
    <3>1. ynsqd' = [ynsqd EXCEPT ![k][m].at = "queued"] /\ UNCHANGED reader
      BY Zenon, <2>2 DEF PyNsq!timeout
    <3>2. PyNsqKeeps(IF "queued" = "finished" THEN {<<k, m>>} ELSE {})
      BY Zenon, <1>1, <3>1, PyNsqSet DEF PyNsqTypes
    <3> QED
      BY Zenon, <3>1, <3>2
  <2>3. CASE PyNsq!readerCloses(k)
    <3>1. ynsqd' = [ynsqd EXCEPT ![k] = PyNsq!requeued(k)] /\ reader' = [reader EXCEPT ![k] = Placed(reader[k], "closed")]
      BY Zenon, <2>3 DEF PyNsq!readerCloses, Placed
    <3>2. \A j \in PyNsq!Topics, n \in PyNsqMsgs : ynsqd[j][n].att \in Nat
      BY Zenon, <1>1 DEF PyNsqTypes, PyNsqEntry
    <3>3. PyNsqKeeps({})
      BY <1>1, <3>1, <3>2, PyNsqRequeued DEF PyNsqTypes, PyNsqKeeps
    <3>4. Placed(reader[k], "closed") \in PyNsqReader /\ Placed(reader[k], "closed").at = "closed"
      BY Zenon, <1>1 DEF PyNsqTypes, PyNsqReader, Placed
    <3> QED
      BY Zenon, <1>1, <3>1, <3>3, <3>4 DEF PyNsqTypes
  <2> QED
    BY Zenon, <1>1, <2>1, <2>2, <2>3 DEF PyNsqTypes
<1> QED
  BY Zenon, <1>1, <1>2, PyNsqKept DEF PyNsqTypes

\* A reader dispatches a message to a task, if its attempts and its size allow it.
LEMMA PyNsqDispatch ==
  ASSUME PyNsqInv, NEW k \in PyNsq!Topics, NEW m \in PyNsqMsgs, PyNsq!dispatch(k, m)
  PROVE  PyNsqInv'
<1>1. /\ PyNsqTypes /\ PyNsqHandling /\ PyNsqCounted /\ PyNsqStopping /\ PyNsq!NothingLost
      /\ UNCHANGED <<reader, ysub, yaccepted, yaudited>>
      /\ ynsqd[k][m] \in PyNsqEntry /\ ynsqd[k][m].att \in Nat /\ ynsqd[k][m].at = "queued"
      /\ reader[k].conn \in Nat
  BY DEF PyNsqInv, PyNsqTypes, PyNsqEntry, PyNsqReader, PyNsq!dispatch, PyNsq!arrives
<1> DEFINE x == [at |-> "inflight", att |-> ynsqd[k][m].att + 1]
           row == [ynsqd[k] EXCEPT ![m] = x]
<1>2. ynsqd' = [ynsqd EXCEPT ![k] = row]
  BY Zenon DEF PyNsq!dispatch, PyNsq!arrives
<1>3. x \in PyNsqEntry /\ x.at = "inflight" /\ x.att = ynsqd[k][m].att + 1
  BY <1>1 DEF PyNsqEntry
<1>4. row \in [PyNsqMsgs -> PyNsqEntry] /\ row[m] = x /\ \A n \in PyNsqMsgs : n # m => row[n] = ynsqd[k][n]
  BY Zenon, <1>1, <1>3 DEF PyNsqTypes
<1> HIDE DEF x, row
<1>5. /\ ynsqd' \in [PyNsq!Topics -> [PyNsqMsgs -> PyNsqEntry]] /\ ynsqd'[k] = row
      /\ \A j \in PyNsq!Topics : j # k => ynsqd'[j] = ynsqd[j]
  BY Zenon, <1>1, <1>2, <1>4 DEF PyNsqTypes
<1>6. \A j \in PyNsq!Topics, n \in PyNsqMsgs :
        /\ ynsqd[j][n].att \in Nat
        /\ ynsqd'[j][n] = ynsqd[j][n] \/ (j = k /\ n = m /\ ynsqd'[j][n] = x)
  BY <1>1, <1>4, <1>5 DEF PyNsqTypes, PyNsqEntry
<1>7. PyNsqKeeps({})
  BY <1>1, <1>3, <1>5, <1>6 DEF PyNsqKeeps
<1>8. CASE ysub.closing
  <2>1. UNCHANGED <<ytask, yruns>>
    BY Zenon, <1>8 DEF PyNsq!dispatch
  <2> QED
    BY Zenon, <1>1, <1>7, <2>1, PyNsqKept DEF PyNsqTypes
<1>9. CASE ~ysub.closing
  <2> DEFINE t == CHOOSE t \in PyNsqTasks \ PyNsq!live : TRUE
             w == PyNsq!stage(k, m)
             y == [at |-> w, topic |-> k, msg |-> m, conn |-> reader[k].conn, att |-> ynsqd[k][m].att + 1]
  <2>1. /\ PyNsqTasks \ PyNsq!live # {} /\ ytask' = [ytask EXCEPT ![t] = y]
        /\ yruns' = [yruns EXCEPT ![m] = IF w = "handler" THEN yruns[m] + 1 ELSE yruns[m]]
    BY Zenon, <1>9 DEF PyNsq!dispatch, PyNsq!create_task
  <2>2. t \in PyNsqTasks \ PyNsq!live
    BY Zenon, <2>1
  <2>3. /\ w \in {"record", "quarantine", "handoff", "handler"} /\ (w = "record" => k = "failure")
        /\ w # "record" => k = "business"
        /\ w = "handler" => ynsqd["business"][m].att + 1 <= PyNsqAttempts
    BY NsqSubscribersAssumption, <1>1 DEF PyNsq!stage, PyNsq!Topics, PyNsq!PyNsqAssumption
  <2> HIDE DEF t, w
  <2>4. /\ y \in PyNsqTask /\ y.at = w /\ y.topic = k /\ y.msg = m
    BY <1>1, <2>3 DEF PyNsqTask, PyNsqStages
  <2> HIDE DEF y
  <2>5. PyNsqTypes'
    BY <1>1, <1>5, <2>1, <2>2, <2>4 DEF PyNsqTypes
  <2>6. PyNsqHandling'
    <3> SUFFICES ASSUME NEW u \in PyNsqTasks PROVE PyNsqHandles(u)'
      BY Zenon DEF PyNsqHandling
    <3>1. CASE u = t
      <4>1. ytask'[u] = y
        BY Zenon, <1>1, <2>1, <2>2, <3>1 DEF PyNsqTypes
      <4> QED
        BY Zenon, <2>3, <2>4, <4>1 DEF PyNsqHandles
    <3>2. CASE u # t
      <4>1. ytask'[u] = ytask[u] /\ PyNsqHandles(u)
        BY Zenon, <1>1, <2>1, <2>2, <3>2 DEF PyNsqTypes, PyNsqHandling
      <4>2. \A n \in PyNsqMsgs : ynsqd["failure"][n].at # "none" => ynsqd'["failure"][n].at # "none"
        BY Zenon, <1>7 DEF PyNsqKeeps, PyNsq!Topics
      <4> QED
        BY Zenon, <1>1, <4>1, <4>2 DEF PyNsqHandles
    <3> QED
      BY Zenon, <3>1, <3>2
  <2>7. PyNsqCounted'
    <3> SUFFICES ASSUME NEW n \in PyNsqMsgs
                 PROVE  yruns'[n] <= ynsqd'["business"][n].att /\ yruns'[n] <= PyNsqAttempts
      BY Zenon DEF PyNsqCounted
    <3>1. /\ yruns[n] \in Nat /\ yruns[n] <= ynsqd["business"][n].att /\ yruns[n] <= PyNsqAttempts
          /\ "business" \in PyNsq!Topics /\ ynsqd'["business"][n].att \in Nat
          /\ PyNsqAttempts \in Nat
      BY <1>1, <1>5, NsqSubscribersAssumption DEF PyNsqCounted, PyNsqTypes, PyNsq!Topics, PyNsqEntry, PyNsq!PyNsqAssumption
    <3>2. ynsqd'["business"][n] = ynsqd["business"][n] \/ (k = "business" /\ n = m /\ ynsqd'["business"][n] = x)
      BY Zenon, <1>6, <3>1
    <3>3. ynsqd["business"][n].att \in Nat
      BY Zenon, <1>6, <3>1
    <3>4. n # m => yruns'[n] = yruns[n]
      BY Zenon, <1>1, <2>1 DEF PyNsqTypes
    <3>5. n = m => yruns'[n] = IF w = "handler" THEN yruns[n] + 1 ELSE yruns[n]
      BY Zenon, <1>1, <2>1 DEF PyNsqTypes
    <3>6. n = m /\ k = "business" => ynsqd'["business"][n].att = ynsqd["business"][n].att + 1
      BY Zenon, <1>3, <1>4, <1>5, <3>1
    <3> QED
      BY <1>3, <2>3, <3>1, <3>2, <3>3, <3>4, <3>5, <3>6
  <2>8. PyNsqStopping'
    BY Zenon, <1>1, <1>9 DEF PyNsqStopping
  <2>9. PyNsq!NothingLost'
    BY Zenon, <1>1, <1>7 DEF PyNsq!NothingLost, PyNsqKeeps, PyNsq!Topics
  <2> QED
    BY Zenon, <2>5, <2>6, <2>7, <2>8, <2>9 DEF PyNsqInv
<1> QED
  BY Zenon, <1>8, <1>9

\* The steps of start and stop.
LEMMA PyNsqStartStop ==
  ASSUME PyNsqInv,
         \/ PyNsq!startFailure \/ PyNsq!startBusiness \/ PyNsq!startReturns \/ PyNsq!startFails
         \/ PyNsq!stop \/ PyNsq!stopWaits \/ PyNsq!stopCloses \/ PyNsq!stopClosesLate
  PROVE  PyNsqInv'
<1>1. /\ PyNsqTypes /\ PyNsqHandling /\ PyNsqCounted /\ PyNsqStopping /\ PyNsq!NothingLost
      /\ UNCHANGED <<yaccepted, yaudited, yruns>>
  BY Zenon DEF PyNsqInv, PyNsq!startFailure, PyNsq!startBusiness, PyNsq!startReturns, PyNsq!startFails,
         PyNsq!stop, PyNsq!stopWaits, PyNsq!stopCloses, PyNsq!stopClosesLate
<1>2. ASSUME UNCHANGED <<ynsqd, ytask>>, PyNsqTypes', PyNsqStopping' PROVE PyNsqInv'
  BY Zenon, <1>1, <1>2 DEF PyNsqInv, PyNsqHandling, PyNsqHandles, PyNsqCounted, PyNsq!NothingLost
<1>3. ASSUME NEW k \in PyNsq!Topics, reader' = [reader EXCEPT ![k] = [at |-> "open", conn |-> @.conn + 1]]
      PROVE  reader' \in [PyNsq!Topics -> PyNsqReader]
  BY <1>1, <1>3 DEF PyNsqTypes, PyNsqReader
<1>4. CASE PyNsq!startFailure
  BY Zenon, <1>1, <1>2, <1>3, <1>4 DEF PyNsq!startFailure, PyNsqTypes, PyNsqStopping, PyNsq!Topics
<1>5. CASE PyNsq!startBusiness
  BY Zenon, <1>1, <1>2, <1>3, <1>5 DEF PyNsq!startBusiness, PyNsqTypes, PyNsqStopping, PyNsq!live, PyNsq!Topics
<1>6. CASE PyNsq!startReturns
  BY Zenon, <1>1, <1>2, <1>6 DEF PyNsq!startReturns, PyNsqTypes, PyNsqStopping, PyNsq!live
<1>7. CASE PyNsq!startFails
  BY Zenon, <1>1, <1>2, <1>7 DEF PyNsq!startFails, PyNsq!beginStop, PyNsqTypes, PyNsqStopping
<1>8. CASE PyNsq!stop
  BY Zenon, <1>1, <1>2, <1>8 DEF PyNsq!stop, PyNsq!beginStop, PyNsqTypes, PyNsqStopping
<1>9. CASE PyNsq!stopWaits
  <2>1. PICK left \in SUBSET PyNsq!live :
          /\ ytask' = PyNsq!cancelled(left)
          /\ ysub' = [ysub EXCEPT !.stop = IF left = {} THEN "closing" ELSE "raised"]
    BY Zenon, <1>9 DEF PyNsq!stopWaits
  <2>2. /\ ytask' \in [PyNsqTasks -> PyNsqTask] /\ (left = {} => PyNsq!live' = {})
        /\ \A t \in PyNsqTasks : ytask'[t] = ytask[t] \/ ytask'[t] = PyNsq!idle
    BY Zenon, <1>1, <2>1 DEF PyNsqTypes, PyNsqTask, PyNsqStages, PyNsq!idle, PyNsq!cancelled, PyNsq!live, PyNsq!Topics
  <2>3. PyNsqTypes' /\ PyNsqStopping' /\ UNCHANGED <<ynsqd, reader>>
    BY Zenon, <1>1, <1>9, <2>1, <2>2 DEF PyNsqTypes, PyNsqStopping, PyNsq!stopWaits
  <2>4. PyNsqHandling'
    BY <1>1, <2>2, <2>3 DEF PyNsqHandling, PyNsqHandles, PyNsq!idle
  <2> QED
    BY Zenon, <1>1, <2>3, <2>4 DEF PyNsqInv, PyNsqCounted, PyNsq!NothingLost
<1>10. CASE PyNsq!stopCloses
  <2>1. ynsqd' = [k \in PyNsq!Topics |-> PyNsq!requeued(k)]
    BY Zenon, <1>10 DEF PyNsq!stopCloses
  <2>2. PyNsqKeeps({})
    <3>1. \A j \in PyNsq!Topics, n \in PyNsqMsgs : ynsqd[j][n].att \in Nat
      BY Zenon, <1>1 DEF PyNsqTypes, PyNsqEntry
    <3> QED
      BY <1>1, <2>1, <3>1, PyNsqRequeued DEF PyNsqTypes, PyNsqKeeps
  <2>3. /\ reader' \in [PyNsq!Topics -> PyNsqReader]
        /\ \A k \in PyNsq!Topics : reader'[k].at \in {"none", "closed"}
    <3> DEFINE v(k) == IF reader[k].at \in {"open", "closing"} THEN "closed" ELSE reader[k].at
    <3>1. reader' = [k \in PyNsq!Topics |-> Placed(reader[k], v(k))]
      BY Zenon, <1>10 DEF PyNsq!stopCloses, Placed
    <3>2. \A k \in PyNsq!Topics : reader[k] \in PyNsqReader /\ v(k) \in {"none", "closed"}
      BY Zenon, <1>1 DEF PyNsqTypes, PyNsqReader
    <3>3. \A x \in PyNsqReader, a \in {"none", "closed"} : Placed(x, a) \in PyNsqReader /\ Placed(x, a).at = a
      BY Zenon DEF PyNsqReader, Placed
    <3> HIDE DEF v
    <3>4. ASSUME NEW k \in PyNsq!Topics
          PROVE  Placed(reader[k], v(k)) \in PyNsqReader /\ Placed(reader[k], v(k)).at = v(k)
      <4>1. reader[k] \in PyNsqReader /\ v(k) \in {"none", "closed"}
        BY Zenon, <3>2
      <4> QED
        BY ZenonT(40), <3>3, <4>1
    <3>5. reader' \in [PyNsq!Topics -> PyNsqReader]
      BY Zenon, <3>1, <3>4
    <3>6. ASSUME NEW k \in PyNsq!Topics
          PROVE  reader'[k].at \in {"none", "closed"}
      <4>1. reader'[k] = Placed(reader[k], v(k))
        BY Zenon, <3>1
      <4>2. reader'[k].at = v(k)
        BY Zenon, <3>4, <4>1
      <4> QED
        BY Zenon, <3>2, <4>2
    <3> QED
      BY Zenon, <3>5, <3>6
  <2>4. /\ ysub' = [ysub EXCEPT !.stop = "returned", !.stopped = TRUE] /\ UNCHANGED ytask /\ ysub.stop = "closing"
    BY Zenon, <1>10 DEF PyNsq!stopCloses
  <2>5. PyNsqTypes' /\ PyNsqStopping'
    BY Zenon, <1>1, <2>2, <2>3, <2>4 DEF PyNsqTypes, PyNsqStopping, PyNsqKeeps, PyNsq!live
  <2>6. PyNsqHandling' /\ PyNsq!NothingLost'
    <3>1. \A n \in PyNsqMsgs : ynsqd["failure"][n].at # "none" => ynsqd'["failure"][n].at # "none"
      BY Zenon, <2>2 DEF PyNsqKeeps, PyNsq!Topics
    <3>2. PyNsqHandling'
      BY Zenon, <1>1, <2>4, <3>1 DEF PyNsqHandling, PyNsqHandles
    <3>3. PyNsq!NothingLost'
      BY Zenon, <1>1, <2>2, <3>1 DEF PyNsq!NothingLost, PyNsqKeeps, PyNsq!Topics
    <3> QED
      BY Zenon, <3>2, <3>3
  <2>7. PyNsqCounted'
    BY <1>1, <2>2 DEF PyNsqCounted, PyNsqKeeps, PyNsqTypes, PyNsqEntry, PyNsq!Topics
  <2> QED
    BY Zenon, <2>5, <2>6, <2>7 DEF PyNsqInv
<1>11. CASE PyNsq!stopClosesLate
  <2> DEFINE v(k) == IF reader[k].at = "open" THEN "closing" ELSE reader[k].at
  <2>1. /\ reader' = [k \in PyNsq!Topics |-> Placed(reader[k], v(k))] /\ ysub.stop = "closing"
        /\ ysub' = [ysub EXCEPT !.stop = "late"] /\ UNCHANGED <<ynsqd, ytask>>
    BY Zenon, <1>11 DEF PyNsq!stopClosesLate, Placed
  <2>2. \A k \in PyNsq!Topics : reader[k] \in PyNsqReader /\ v(k) \in {"none", "closing", "closed"}
    BY Zenon, <1>1 DEF PyNsqTypes, PyNsqReader
  <2>3. \A x \in PyNsqReader, a \in {"none", "closing", "closed"} : Placed(x, a) \in PyNsqReader
    BY Zenon DEF PyNsqReader, Placed
  <2> HIDE DEF v
  <2>4. reader' \in [PyNsq!Topics -> PyNsqReader]
    <3>1. \A k \in PyNsq!Topics : Placed(reader[k], v(k)) \in PyNsqReader
      BY Zenon, <2>2, <2>3
    <3> QED
      BY Zenon, <2>1, <3>1
  <2>5. PyNsqTypes' /\ PyNsqStopping'
    BY Zenon, <1>1, <2>1, <2>4 DEF PyNsqTypes, PyNsqStopping, PyNsq!live
  <2> QED
    BY Zenon, <1>2, <2>1, <2>5
<1> QED
  BY Zenon, <1>4, <1>5, <1>6, <1>7, <1>8, <1>9, <1>10, <1>11

\* The invariant holds before start.
LEMMA PyNsqStart == PyNsq!Init => PyNsqInv
<1> SUFFICES ASSUME PyNsq!Init PROVE PyNsqInv
  BY Zenon
<1>1. PyNsqTypes /\ PyNsqStopping
  BY Zenon DEF PyNsq!Init, PyNsqTypes, PyNsqTask, PyNsqStages, PyNsqEntry, PyNsqReader, PyNsq!idle, PyNsq!Topics,
     PyNsqStopping
<1>2. PyNsqHandling /\ PyNsqCounted /\ PyNsq!NothingLost
  BY NsqSubscribersAssumption DEF PyNsq!Init, PyNsqHandling, PyNsqHandles, PyNsqCounted, PyNsq!NothingLost, PyNsq!idle,
     PyNsq!Topics, PyNsq!PyNsqAssumption
<1> QED
  BY Zenon, <1>1, <1>2 DEF PyNsqInv

\* Every step of PyNsqSubscriber keeps the invariant.
LEMMA PyNsqStep == PyNsqInv /\ [PyNsq!Next]_PyNsq!vars => PyNsqInv'
<1> SUFFICES ASSUME PyNsqInv, [PyNsq!Next]_PyNsq!vars PROVE PyNsqInv'
  BY Zenon
<1>1. CASE UNCHANGED PyNsq!vars
  BY Zenon, <1>1 DEF PyNsq!vars, PyNsqInv, PyNsqTypes, PyNsqHandling, PyNsqHandles, PyNsqCounted, PyNsqStopping,
     PyNsq!NothingLost, PyNsq!live
<1>2. ASSUME NEW t \in PyNsqTasks, PyNsq!taskStep(t) \/ PyNsq!handlerRaises(t) PROVE PyNsqInv'
  BY Zenon, <1>2, PyNsqTaskStep, PyNsqSettles DEF PyNsq!taskStep
<1> QED
  BY Zenon, <1>1, <1>2, PyNsqDaemonStep, PyNsqDispatch, PyNsqStartStop DEF PyNsq!Next

-----------------------------------------------------------------------------
(* NsqSubscriber *)

\* The calls of Subscribe and Close, and their stages: those in which a call waits for the
\* consumers and the hand-off of a registration, and those in which Subscribe holds mu.
OwnerCalls == Subs \cup OwnerClosers
OwnerWaiting == {"consumers", "idle?", "hlock", "hdrain", "hstop"}
OwnerHolding == {"failure", "business", "connected", "cleanup"} \cup OwnerWaiting
\* The stages of a consumer, and what a handler goroutine works on.
OwnerConsumer == {"none", "open", "stopping", "stopped"}
OwnerHandler == [sub : Subs \cup {"none"}, of : {"none", "business", "failure"},
                 step : {"idle", "run", "connecting", "producing", "publish", "slot", "sending", "end"}]

\* What the variables of NsqSubscriber range over.
OwnerTypes ==
    /\ mu \in Subs \cup {"free"} /\ stopping \in BOOLEAN /\ running \subseteq Subs
    /\ pc \in [OwnerCalls -> {"idle", "lock", "registered", "failed", "ok", "timeout"} \cup OwnerHolding]
    /\ todo \in [OwnerCalls -> SUBSET Subs]
    /\ business \in [Subs -> OwnerConsumer] /\ failure \in [Subs -> OwnerConsumer]
    /\ handler \in [Handlers -> OwnerHandler]
    /\ hstopping \in [Subs -> BOOLEAN] /\ drained \in [Subs -> BOOLEAN]
    /\ producer \in [Subs -> {"none", "open", "stopped"}]
    /\ sending \in [Subs -> Nat] /\ ending \in [Subs -> Nat]
    /\ stopper \in [Subs -> {"none", "stopping", "done"}]

\* No handler works for the registration; both its consumers have stopped.
OwnerUnused(i) == \A h \in Handlers : handler[h].sub # i
OwnerStopped(i) == business[i] = "stopped" /\ failure[i] = "stopped"

\* Nothing of the registration runs: no consumer, handler, send or open producer.
OwnerQuiet(i) ==
    /\ business[i] \in {"none", "stopped"} /\ failure[i] \in {"none", "stopped"}
    /\ OwnerUnused(i) /\ sending[i] = 0 /\ ending[i] = 0 /\ producer[i] # "open"

\* The hand-off of a registration closes in order: it stops taking sends after the
\* consumers and handlers are gone, is drained when no send is left, and only then are its
\* producers stopped; a send that is under way has an open producer.
OwnerHandoff(i) ==
    /\ drained[i] => hstopping[i] /\ sending[i] = 0 /\ ending[i] = 0
    /\ hstopping[i] => OwnerStopped(i) /\ OwnerUnused(i)
    /\ stopper[i] # "none" => drained[i]
    /\ stopper[i] = "done" => producer[i] # "open"
    /\ producer[i] = "stopped" => stopper[i] = "done"
    /\ sending[i] > 0 => producer[i] = "open"

\* Where a call of Subscribe stands says what exists of its registration: it holds mu in
\* exactly the holding stages, and what it gave up without registering is quiet.
OwnerSub(i) ==
    /\ pc[i] \in OwnerHolding <=> mu = i
    /\ todo[i] \subseteq {i}
    /\ pc[i] = "failure" \/ (mu # i /\ i \notin running) => OwnerQuiet(i)
    /\ pc[i] \in {"idle", "lock", "failure"} => business[i] = "none" /\ failure[i] = "none"
    /\ pc[i] = "business" => business[i] = "none"
    /\ i \in running => pc[i] \in {"registered", "failed"}

\* A Close works on the registrations it found, after stopping was set; one that returned
\* nil left all of them quiet.
OwnerClose(k) ==
    /\ todo[k] \subseteq running
    /\ pc[k] # "idle" => stopping
    /\ pc[k] = "ok" => mu = "free" /\ \A i \in running : OwnerQuiet(i)

\* What a call that waits for a registration has already seen end.
OwnerWaits(c, i) ==
    /\ pc[c] \in {"idle?", "hlock", "hdrain", "hstop"} => OwnerStopped(i)
    /\ pc[c] \in {"hlock", "hdrain", "hstop"} => OwnerUnused(i)
    /\ pc[c] \in {"hdrain", "hstop"} => hstopping[i]
    /\ pc[c] = "hstop" => drained[i] /\ stopper[i] # "none"

\* While Subscribe holds mu nothing is registered, and there is one registration at most.
OwnerRunning ==
    /\ mu # "free" => running = {}
    /\ \A i, j \in running : i = j

\* The inductive invariant of NsqSubscriber.
OwnerInv ==
    /\ OwnerTypes /\ OwnerRunning
    /\ \A h \in Handlers : handler[h].step = "idle" <=> handler[h].sub = "none"
    /\ \A i \in Subs : OwnerHandoff(i) /\ OwnerSub(i)
    /\ \A k \in OwnerClosers : OwnerClose(k)
    /\ \A c \in OwnerCalls : \A i \in todo[c] : OwnerWaits(c, i)

\* It holds when the subscriber is made.
LEMMA OwnerStart == Owner!Init => OwnerInv
<1> SUFFICES ASSUME Owner!Init PROVE OwnerInv
  BY Zenon
<1> USE NsqSubscribersAssumption DEF Owner!SubscriberAssumption, Owner!Init, Owner!Calls, Owner!idle, OwnerCalls
<1>1. OwnerTypes /\ OwnerRunning
  BY Zenon DEF OwnerTypes, OwnerRunning, OwnerConsumer, OwnerHandler, OwnerHolding, OwnerWaiting
<1>2. \A h \in Handlers : handler[h].step = "idle" <=> handler[h].sub = "none"
  BY Zenon
<1>3. \A i \in Subs : OwnerHandoff(i) /\ OwnerSub(i)
  BY DEF OwnerHandoff, OwnerSub, OwnerQuiet, OwnerUnused, OwnerHolding, OwnerWaiting
<1>4. \A k \in OwnerClosers : OwnerClose(k)
  BY Zenon DEF OwnerClose
<1>5. \A c \in OwnerCalls : \A i \in todo[c] : OwnerWaits(c, i)
  BY Zenon
<1> QED BY Zenon, <1>1, <1>2, <1>3, <1>4, <1>5 DEF OwnerInv

\* Every stage of a call.
OwnerStages == {"idle", "lock", "registered", "failed", "ok", "timeout"} \cup OwnerHolding

\* What lasts of a registration in a step that does not register it.
OwnerLasts(j) ==
    /\ OwnerQuiet(j) => OwnerQuiet(j)'
    /\ OwnerStopped(j) => OwnerStopped(j)' /\ (OwnerUnused(j) => OwnerUnused(j)')
    /\ business[j] = "none" => business'[j] = "none"
    /\ failure[j] = "none" => failure'[j] = "none"
    /\ hstopping[j] => hstopping'[j]
    /\ drained[j] => drained'[j]
    /\ stopper[j] # "none" => stopper'[j] # "none"

\* The conjuncts of the invariant about calls, after the step.
OwnerCallsKept ==
    /\ OwnerRunning' /\ \A j \in Subs : OwnerSub(j)'
    /\ \A k \in OwnerClosers : OwnerClose(k)'
    /\ \A c \in OwnerCalls : \A j \in todo'[c] : OwnerWaits(c, j)'

\* A step of a consumer, handler or producer that lets everything last does not disturb the
\* calls.
LEMMA OwnerRest ==
  ASSUME OwnerInv, UNCHANGED Owner!regVars, \A j \in Subs : OwnerLasts(j)
  PROVE  OwnerCallsKept
<1>1. UNCHANGED <<mu, stopping, running, pc, todo>>
  BY Zenon DEF Owner!regVars
<1>2. OwnerRunning'
  BY Zenon, <1>1 DEF OwnerInv, OwnerRunning
<1>3. \A j \in Subs : OwnerSub(j)'
  BY Zenon, <1>1 DEF OwnerInv, OwnerSub, OwnerLasts
<1>4. \A k \in OwnerClosers : OwnerClose(k)'
  BY Zenon, <1>1 DEF OwnerInv, OwnerClose, OwnerLasts, OwnerTypes
<1>5. \A c \in OwnerCalls : \A j \in todo'[c] : OwnerWaits(c, j)'
  BY Zenon, <1>1 DEF OwnerInv, OwnerWaits, OwnerLasts, OwnerTypes
<1> QED BY Zenon, <1>2, <1>3, <1>4, <1>5 DEF OwnerCallsKept

\* The goroutines of a registration: a consumer stops, the producers are stopped, a send
\* returns or ends.
LEMMA OwnerGoroutineKeeps ==
  ASSUME OwnerInv, NEW i \in Subs, Owner!GoroutineStep(i)
  PROVE  OwnerInv'
<1> USE DEF Owner!consumers
<1>1. UNCHANGED <<Owner!regVars, handler>>
  BY Zenon DEF Owner!GoroutineStep, Owner!ConsumerStops, Owner!StopProducers, Owner!SendReturns, Owner!SendEnds
<1>2. OwnerTypes'
  BY <1>1 DEF OwnerInv, OwnerTypes, OwnerConsumer, Owner!regVars, Owner!GoroutineStep, Owner!handoff,
     Owner!ConsumerStops, Owner!StopProducers, Owner!SendReturns, Owner!SendEnds
<1>3. \A j \in Subs : OwnerHandoff(j)' /\ OwnerLasts(j)
  <2> USE <1>1 DEF OwnerInv, OwnerTypes, OwnerHandoff, OwnerLasts, OwnerQuiet, OwnerUnused, OwnerStopped
  <2>1. CASE Owner!ConsumerStops(i)
    BY <2>1 DEF Owner!ConsumerStops, Owner!handoff
  <2>2. CASE Owner!StopProducers(i)
    BY <2>2 DEF Owner!StopProducers
  <2>3. CASE Owner!SendReturns(i)
    BY <2>3 DEF Owner!SendReturns
  <2>4. CASE Owner!SendEnds(i)
    BY <2>4 DEF Owner!SendEnds, Owner!active
  <2> QED BY Zenon, <2>1, <2>2, <2>3, <2>4 DEF Owner!GoroutineStep
<1>4. OwnerCallsKept
  BY Zenon, <1>1, <1>3, OwnerRest
<1> QED BY Zenon, <1>1, <1>2, <1>3, <1>4 DEF OwnerInv, OwnerCallsKept

\* A delivery needs an open consumer, and the handler leaves in the end.
LEMMA OwnerDeliveryKeeps ==
  ASSUME OwnerInv, NEW h \in Handlers, Owner!Leave(h) \/ \E i \in Subs : Owner!Deliver(h, i)
  PROVE  OwnerInv'
<1>1. UNCHANGED <<Owner!regVars, Owner!consumers, Owner!handoff>>
  BY Zenon DEF Owner!Leave, Owner!Deliver
<1>2. PICK x \in OwnerHandler :
         /\ handler' = [handler EXCEPT ![h] = x] /\ (x.step = "idle" <=> x.sub = "none")
         /\ x.sub \in Subs => ~OwnerStopped(x.sub) /\ ~OwnerQuiet(x.sub)
  <2>1. CASE Owner!Leave(h)
    <3>1. Owner!idle \in OwnerHandler /\ Owner!idle.step = "idle" /\ Owner!idle.sub = "none" /\ "none" \notin Subs
      BY Zenon, NsqSubscribersAssumption DEF Owner!idle, OwnerHandler, Owner!SubscriberAssumption
    <3> QED BY Zenon, <2>1, <3>1 DEF Owner!Leave
  <2>2. ASSUME NEW j \in Subs, Owner!Deliver(h, j)
        PROVE  \E x \in OwnerHandler :
                  /\ handler' = [handler EXCEPT ![h] = x] /\ (x.step = "idle" <=> x.sub = "none")
                  /\ x.sub \in Subs => ~OwnerStopped(x.sub) /\ ~OwnerQuiet(x.sub)
    <3>1. PICK of \in {"business", "failure"} :
             /\ (IF of = "business" THEN business[j] ELSE failure[j]) \in {"open", "stopping"}
             /\ handler' = [handler EXCEPT ![h] = [sub |-> j, step |-> "run", of |-> of]]
      BY Zenon, <2>2 DEF Owner!Deliver
    <3> DEFINE x == [sub |-> j, step |-> "run", of |-> of]
    <3>2. x \in OwnerHandler /\ x.step = "run" /\ x.sub = j /\ j # "none"
      BY Zenon, NsqSubscribersAssumption DEF OwnerHandler, Owner!SubscriberAssumption
    <3>3. ~OwnerStopped(j) /\ ~OwnerQuiet(j)
      BY Zenon, <3>1 DEF OwnerStopped, OwnerQuiet
    <3> HIDE DEF x
    <3>4. handler' = [handler EXCEPT ![h] = x]
      BY Zenon, <3>1 DEF x
    <3> QED BY Zenon, <3>2, <3>3, <3>4
  <2> QED BY Zenon, <2>1, <2>2
<1> DEFINE i == x.sub
<1>3. \A g \in Handlers : handler'[g] = IF g = h THEN x ELSE handler[g]
  BY Zenon, <1>2 DEF OwnerInv, OwnerTypes
<1>4. OwnerTypes'
  BY Zenon, <1>1, <1>2 DEF OwnerInv, OwnerTypes, Owner!regVars, Owner!consumers, Owner!handoff
<1>5. \A g \in Handlers : handler'[g].step = "idle" <=> handler'[g].sub = "none"
  BY Zenon, <1>2, <1>3 DEF OwnerInv
<1>6. ASSUME NEW j \in Subs PROVE OwnerHandoff(j)' /\ OwnerLasts(j)
  <2>1. OwnerUnused(j) /\ j # i => OwnerUnused(j)'
    BY Zenon, <1>2, <1>3 DEF OwnerUnused
  <2>2. UNCHANGED <<business, failure, hstopping, drained, producer, sending, ending, stopper>> /\ OwnerHandoff(j)
    BY Zenon, <1>1 DEF Owner!consumers, Owner!handoff, OwnerInv
  <2>3. (OwnerStopped(j)' <=> OwnerStopped(j)) /\ (OwnerQuiet(j) /\ j # i => OwnerQuiet(j)')
    BY Zenon, <2>1, <2>2 DEF OwnerStopped, OwnerQuiet
  <2> QED BY Zenon, <1>2, <2>1, <2>2, <2>3 DEF OwnerHandoff, OwnerLasts
<1>7. OwnerCallsKept
  BY Zenon, <1>1, <1>6, OwnerRest
<1> QED BY Zenon, <1>4, <1>5, <1>6, <1>7 DEF OwnerInv, OwnerCallsKept

\* A handler that moves on, and at most opens the producer of its registration or begins a
\* send there, keeps the invariant.
LEMMA OwnerHandlerMoves ==
  ASSUME OwnerInv, NEW h \in Handlers, handler[h].step # "idle",
         NEW l \in {"connecting", "producing", "publish", "slot", "sending", "end"}, Owner!step(h, l),
         UNCHANGED <<Owner!regVars, Owner!consumers, hstopping, drained, ending, stopper>>,
         sending' \in [Subs -> Nat], producer' \in [Subs -> {"none", "open", "stopped"}],
         \A j \in Subs : j # handler[h].sub => sending'[j] = sending[j] /\ producer'[j] = producer[j],
         \A j \in Subs : j = handler[h].sub /\ sending'[j] > 0 => producer'[j] = "open",
         \A j \in Subs : j = handler[h].sub /\ producer'[j] = "stopped" => producer[j] = "stopped"
  PROVE  OwnerInv'
<1> DEFINE i == handler[h].sub
<1>1. handler \in [Handlers -> OwnerHandler] /\ OwnerTypes
  BY Zenon DEF OwnerInv, OwnerTypes
<1>2. /\ handler' \in [Handlers -> OwnerHandler]
      /\ \A g \in Handlers : handler'[g].sub = handler[g].sub /\ handler'[g].step = (IF g = h THEN l ELSE handler[g].step)
  BY <1>1 DEF Owner!step, OwnerHandler
<1>3. i \in Subs /\ \A j \in Subs : j = i => ~OwnerUnused(j)
  BY Zenon, <1>1 DEF OwnerInv, OwnerHandler, OwnerUnused
<1>4. OwnerTypes'
  BY Zenon, <1>1, <1>2 DEF OwnerTypes, Owner!regVars, Owner!consumers
<1>5. \A g \in Handlers : handler'[g].step = "idle" <=> handler'[g].sub = "none"
  BY ZenonT(40), <1>2 DEF OwnerInv
<1>6. ASSUME NEW j \in Subs PROVE OwnerHandoff(j)' /\ OwnerLasts(j)
  <2>1. OwnerUnused(j)' <=> OwnerUnused(j)
    BY Zenon, <1>2 DEF OwnerUnused
  <2>2. /\ UNCHANGED <<business, failure, hstopping, drained, ending, stopper>> /\ OwnerHandoff(j)
        /\ j # i => sending'[j] = sending[j] /\ producer'[j] = producer[j]
    BY Zenon DEF Owner!consumers, OwnerInv
  <2>3. (OwnerStopped(j)' <=> OwnerStopped(j)) /\ (OwnerQuiet(j) => OwnerQuiet(j)')
    BY Zenon, <1>3, <2>1, <2>2 DEF OwnerStopped, OwnerQuiet
  <2>4. j = i => ~hstopping[j] /\ ~drained[j] /\ stopper[j] = "none" /\ producer[j] # "stopped"
    BY Zenon, <1>3, <2>2 DEF OwnerHandoff
  <2> QED BY Zenon, <2>1, <2>2, <2>3, <2>4 DEF OwnerHandoff, OwnerLasts
<1>7. OwnerCallsKept
  BY Zenon, <1>6, OwnerRest
<1> QED BY Zenon, <1>4, <1>5, <1>6, <1>7 DEF OwnerInv, OwnerCallsKept

\* The steps of a handler that hands a failed message off: Ready, the producer, the slot and
\* the send.
LEMMA OwnerHandlerKeeps ==
  ASSUME OwnerInv, NEW h \in Handlers,
         \/ Owner!Ready(h) \/ Owner!ReadyConnect(h) \/ Owner!PublishSlot(h) \/ Owner!PublishReturn(h)
         \/ Owner!ReadyProduce(h) \/ Owner!PublishAdmit(h)
  PROVE  OwnerInv'
<1> DEFINE i == handler[h].sub
<1>a. /\ handler \in [Handlers -> OwnerHandler]
      /\ sending \in [Subs -> Nat] /\ producer \in [Subs -> {"none", "open", "stopped"}]
  BY Zenon DEF OwnerInv, OwnerTypes
<1>b. \A j \in Subs : sending[j] > 0 => producer[j] = "open"
  BY Zenon DEF OwnerInv, OwnerHandoff
<1> USE DEF Owner!handoff
<1>1. CASE Owner!Ready(h)
  BY Zenon, <1>1, <1>a, <1>b, OwnerHandlerMoves DEF Owner!Ready
<1>2. CASE Owner!ReadyConnect(h)
  <2>1. PICK l \in {"producing", "end"} : Owner!step(h, l)
    BY Zenon, <1>2 DEF Owner!ReadyConnect
  <2> QED BY Zenon, <1>2, <2>1, <1>a, <1>b, OwnerHandlerMoves DEF Owner!ReadyConnect
<1>3. CASE Owner!PublishSlot(h)
  <2>1. PICK l \in {"slot", "end"} : Owner!step(h, l)
    BY Zenon, <1>3 DEF Owner!PublishSlot
  <2> QED BY Zenon, <1>3, <2>1, <1>a, <1>b, OwnerHandlerMoves DEF Owner!PublishSlot
<1>4. CASE Owner!PublishReturn(h)
  BY Zenon, <1>4, <1>a, <1>b, OwnerHandlerMoves DEF Owner!PublishReturn
<1>c. handler[h].step # "idle" => i \in Subs /\ ~OwnerUnused(i)
  BY Zenon, <1>a DEF OwnerInv, OwnerHandler, OwnerUnused
<1>d. handler[h].step # "idle" => ~hstopping[i] /\ ~drained[i] /\ producer[i] # "stopped"
  BY Zenon, <1>c DEF OwnerInv, OwnerHandoff
<1>5. CASE Owner!ReadyProduce(h)
  <2>0. handler[h].step # "idle"
    BY Zenon, <1>5 DEF Owner!ReadyProduce
  <2>1. PICK l \in {"publish", "end"} : Owner!step(h, l)
    BY Zenon, <1>5 DEF Owner!ReadyProduce
  <2>2. producer' = producer \/ (producer' = [producer EXCEPT ![i] = "open"])
    BY Zenon, <1>5, <2>0, <1>a, <1>c, <1>d DEF Owner!ReadyProduce
  <2>3. UNCHANGED <<Owner!regVars, Owner!consumers, hstopping, drained, ending, stopper, sending>>
    BY Zenon, <1>5 DEF Owner!ReadyProduce
  <2>4. /\ producer' \in [Subs -> {"none", "open", "stopped"}] /\ sending' \in [Subs -> Nat]
        /\ \A j \in Subs : j # i => sending'[j] = sending[j] /\ producer'[j] = producer[j]
    BY <2>2, <2>3, <1>a
  <2>5. \A j \in Subs : j = i /\ sending'[j] > 0 => producer'[j] = "open"
    BY <2>2, <2>3, <1>a, <1>b
  <2>6. \A j \in Subs : j = i /\ producer'[j] = "stopped" => producer[j] = "stopped"
    BY <2>2, <2>3, <1>a
  <2> QED BY Zenon, <2>0, <2>1, <2>3, <2>4, <2>5, <2>6, OwnerHandlerMoves
<1>6. CASE Owner!PublishAdmit(h)
  <2>0. handler[h].step # "idle"
    BY Zenon, <1>6 DEF Owner!PublishAdmit
  <2>1. PICK l \in {"sending", "end"} : Owner!step(h, l)
    BY Zenon, <1>6 DEF Owner!PublishAdmit
  <2>2. sending' = sending \/ (producer[i] = "open" /\ sending' = [sending EXCEPT ![i] = @ + 1])
    BY Zenon, <1>6, <2>0, <1>a, <1>c, <1>d DEF Owner!PublishAdmit
  <2>3. UNCHANGED <<Owner!regVars, Owner!consumers, hstopping, drained, ending, stopper, producer>>
    BY Zenon, <1>6 DEF Owner!PublishAdmit
  <2>4. /\ producer' \in [Subs -> {"none", "open", "stopped"}] /\ sending' \in [Subs -> Nat]
        /\ \A j \in Subs : j # i => sending'[j] = sending[j] /\ producer'[j] = producer[j]
    BY <2>2, <2>3, <1>a
  <2>5. \A j \in Subs : j = i /\ sending'[j] > 0 => producer'[j] = "open"
    BY <2>2, <2>3, <1>a, <1>b
  <2>6. \A j \in Subs : j = i /\ producer'[j] = "stopped" => producer[j] = "stopped"
    BY <2>2, <2>3, <1>a
  <2> QED BY Zenon, <2>0, <2>1, <2>3, <2>4, <2>5, <2>6, OwnerHandlerMoves
<1> QED BY Zenon, <1>1, <1>2, <1>3, <1>4, <1>5, <1>6

\* A step that touches no consumer, handler or hand-off lets every registration last.
LEMMA OwnerFrame ==
  ASSUME OwnerInv, UNCHANGED <<business, failure, handler, hstopping, drained, producer, sending, ending, stopper>>
  PROVE  \A j \in Subs : OwnerHandoff(j)' /\ OwnerLasts(j)
  BY Zenon DEF OwnerInv, OwnerHandoff, OwnerLasts, OwnerQuiet, OwnerUnused, OwnerStopped

\* A call that only moves to its next stage keeps the invariant, when what the new stage
\* claims holds.
LEMMA OwnerWalks ==
  ASSUME OwnerInv, NEW c \in OwnerCalls, NEW l \in OwnerStages, Owner!goto(c, l),
         UNCHANGED <<mu, running, todo, handler>>, stopping => stopping', OwnerTypes',
         \A j \in Subs : OwnerHandoff(j)' /\ OwnerLasts(j),
         c \in Subs => /\ l \in OwnerHolding <=> pc[c] \in OwnerHolding
                       /\ l \notin {"idle", "failure", "business"} /\ (l = "lock" => pc[c] = "idle")
                       /\ c \in running => l \in {"registered", "failed"},
         c \in OwnerClosers => stopping' /\ l # "ok",
         \A j \in todo[c] : OwnerWaits(c, j)'
  PROVE  OwnerInv'
<1>1. /\ pc \in [OwnerCalls -> OwnerStages] /\ todo \in [OwnerCalls -> SUBSET Subs] /\ running \subseteq Subs
      /\ pc'[c] = l /\ \A d \in OwnerCalls : d # c => pc'[d] = pc[d]
  BY Zenon DEF OwnerInv, OwnerTypes, OwnerStages, Owner!goto
<1>2. OwnerRunning' /\ \A h \in Handlers : handler'[h].step = "idle" <=> handler'[h].sub = "none"
  BY Zenon DEF OwnerInv, OwnerRunning
<1>3. ASSUME NEW j \in Subs PROVE OwnerSub(j)'
  <2>1. OwnerSub(j) /\ OwnerLasts(j) /\ j \in OwnerCalls
    BY Zenon DEF OwnerInv, OwnerCalls
  <2>2. CASE j = c
    BY Zenon, <1>1, <2>1, <2>2 DEF OwnerSub, OwnerLasts
  <2>3. CASE j # c
    BY Zenon, <1>1, <2>1, <2>3 DEF OwnerSub, OwnerLasts
  <2> QED BY Zenon, <2>2, <2>3
<1>4. ASSUME NEW k \in OwnerClosers PROVE OwnerClose(k)'
  <2>1. OwnerClose(k) /\ k \in OwnerCalls /\ \A j \in running : OwnerLasts(j)
    BY Zenon, <1>1 DEF OwnerInv, OwnerCalls
  <2>2. CASE k = c
    BY Zenon, <1>1, <2>1, <2>2 DEF OwnerClose
  <2>3. CASE k # c
    BY Zenon, <1>1, <2>1, <2>3 DEF OwnerClose, OwnerLasts
  <2> QED BY Zenon, <2>2, <2>3
<1>5. ASSUME NEW d \in OwnerCalls, NEW j \in todo'[d] PROVE OwnerWaits(d, j)'
  <2>1. CASE d = c
    BY Zenon, <2>1
  <2>2. CASE d # c
    <3>1. OwnerWaits(d, j) /\ OwnerLasts(j) /\ pc'[d] = pc[d]
      BY Zenon, <1>1, <2>2 DEF OwnerInv
    <3> QED BY Zenon, <3>1 DEF OwnerWaits, OwnerLasts
  <2> QED BY Zenon, <2>1, <2>2
<1> QED BY Zenon, <1>2, <1>3, <1>4, <1>5 DEF OwnerInv

\* Subscribe is called or refused, and Close is called or times out.
LEMMA OwnerWalkKeeps ==
  ASSUME OwnerInv,
         \/ \E i \in Subs : Owner!Subscribe(i) \/ (Owner!Register(i) /\ UNCHANGED mu)
         \/ \E k \in OwnerClosers : Owner!Close(k) \/ Owner!CloseTimeout(k)
  PROVE  OwnerInv'
<1> USE DEF Owner!consumers, Owner!handoff
<1>1. ASSUME NEW c \in OwnerCalls, NEW l \in {"lock", "failed", "timeout"}, Owner!goto(c, l),
             UNCHANGED <<mu, running, todo, business, failure, handler, Owner!handoff>>,
             stopping' \in BOOLEAN, stopping => stopping',
             c \in Subs => l # "timeout" /\ pc[c] \in {"idle", "lock"} /\ (l = "lock" => pc[c] = "idle"),
             c \in OwnerClosers => stopping'
      PROVE  OwnerInv'
  <2>1. l \in OwnerStages /\ l \notin OwnerHolding
    BY Zenon DEF OwnerStages, OwnerHolding, OwnerWaiting
  <2>2. OwnerTypes'
    BY Zenon, <1>1, <2>1 DEF OwnerInv, OwnerTypes, OwnerStages, Owner!goto
  <2>3. c \in Subs => pc[c] \notin OwnerHolding /\ c \notin running
    BY Zenon, <1>1 DEF OwnerInv, OwnerSub, OwnerHolding, OwnerWaiting
  <2>4. \A j \in todo[c] : OwnerWaits(c, j)'
    BY Zenon, <1>1 DEF OwnerWaits, Owner!goto, OwnerInv, OwnerTypes
  <2>5. \A j \in Subs : OwnerHandoff(j)' /\ OwnerLasts(j)
    BY Zenon, <1>1, OwnerFrame
  <2> QED BY Zenon, <1>1, <2>1, <2>2, <2>3, <2>4, <2>5, OwnerWalks
<1>2. ASSUME NEW i \in Subs, Owner!Subscribe(i) \/ (Owner!Register(i) /\ UNCHANGED mu) PROVE OwnerInv'
  <2>1. i \in OwnerCalls /\ i \notin OwnerClosers /\ i # "free" /\ stopping \in BOOLEAN
    BY Zenon, NsqSubscribersAssumption DEF OwnerCalls, Owner!SubscriberAssumption, OwnerInv, OwnerTypes
  <2>2. CASE Owner!Subscribe(i)
    BY Zenon, <1>1, <2>1, <2>2 DEF Owner!Subscribe
  <2>3. CASE Owner!Register(i) /\ UNCHANGED mu
    BY Zenon, <1>1, <2>1, <2>3 DEF Owner!Register
  <2> QED BY Zenon, <1>2, <2>2, <2>3
<1>3. ASSUME NEW k \in OwnerClosers, Owner!Close(k) \/ Owner!CloseTimeout(k) PROVE OwnerInv'
  <2>1. k \in OwnerCalls /\ k \notin Subs /\ stopping \in BOOLEAN
    BY Zenon, NsqSubscribersAssumption DEF OwnerCalls, Owner!SubscriberAssumption, OwnerInv, OwnerTypes
  <2>2. CASE Owner!Close(k)
    BY Zenon, <1>1, <2>1, <2>2 DEF Owner!Close
  <2>3. CASE Owner!CloseTimeout(k)
    <3>1. stopping
      BY Zenon, <2>3 DEF Owner!CloseTimeout, Owner!Waiting, OwnerInv, OwnerClose
    <3> QED BY Zenon, <1>1, <2>1, <2>3, <3>1 DEF Owner!CloseTimeout
  <2> QED BY Zenon, <1>3, <2>2, <2>3
<1> QED BY Zenon, <1>2, <1>3

\* The waits of cleanup and Close: for the consumers, the handlers, the drained hand-off and
\* its producers.
LEMMA OwnerWaitKeeps ==
  ASSUME OwnerInv, NEW c \in OwnerCalls, NEW i \in Subs,
         \/ Owner!WaitConsumers(c, i) \/ Owner!WaitIdle(c, i)
         \/ Owner!HandoffClose(c, i) \/ Owner!HandoffDrained(c, i)
  PROVE  OwnerInv'
<1> USE DEF Owner!consumers, Owner!handoff
<1>1. ASSUME NEW l \in {"idle?", "hlock", "hdrain", "hstop"}, pc[c] \in OwnerWaiting, i \in todo[c], Owner!goto(c, l),
             UNCHANGED <<mu, running, todo, stopping, handler, business, failure>>, OwnerTypes',
             \A j \in Subs : OwnerHandoff(j)' /\ OwnerLasts(j), OwnerWaits(c, i)'
      PROVE  OwnerInv'
  <2>1. l \in OwnerStages /\ l \in OwnerHolding /\ pc[c] \in OwnerHolding
    BY Zenon, <1>1 DEF OwnerStages, OwnerHolding, OwnerWaiting
  <2>2. c \in Subs => c \notin running
    BY Zenon, <1>1 DEF OwnerInv, OwnerSub, OwnerWaiting
  <2>3. c \in OwnerClosers => stopping'
    BY Zenon, <1>1 DEF OwnerInv, OwnerClose, OwnerWaiting
  <2>4. \A j \in todo[c] : j = i
    <3>1. c \in Subs => todo[c] \subseteq {c}
      BY Zenon DEF OwnerInv, OwnerSub
    <3>2. c \in OwnerClosers => todo[c] \subseteq running
      BY Zenon DEF OwnerInv, OwnerClose
    <3> QED BY Zenon, <1>1, <3>1, <3>2 DEF OwnerInv, OwnerRunning, OwnerCalls
  <2>5. l \notin {"idle", "failure", "business", "lock", "ok"}
    BY Zenon, <1>1
  <2>6. \A j \in todo[c] : OwnerWaits(c, j)'
    BY Zenon, <1>1, <2>4
  <2> QED BY Zenon, <1>1, <2>1, <2>2, <2>3, <2>5, <2>6, OwnerWalks
<1>2. \A j \in todo[c] : OwnerWaits(c, j) /\ j \in Subs
  BY Zenon DEF OwnerInv, OwnerTypes
<1>3. pc' = [pc EXCEPT ![c] = pc'[c]] /\ pc[c] \in OwnerWaiting /\ i \in todo[c]
  BY Zenon DEF Owner!WaitConsumers, Owner!WaitIdle, Owner!HandoffClose, Owner!HandoffDrained, Owner!goto, OwnerWaiting, OwnerInv, OwnerTypes
<1>4. CASE Owner!WaitConsumers(c, i)
  <2>1. OwnerTypes'
    BY Zenon, <1>4 DEF Owner!WaitConsumers, Owner!goto, OwnerInv, OwnerTypes, OwnerHolding, OwnerWaiting
  <2>2. OwnerWaits(c, i)'
    BY Zenon, <1>4 DEF Owner!WaitConsumers, Owner!goto, OwnerInv, OwnerTypes, OwnerWaits, OwnerStopped
  <2> QED BY Zenon, <1>1, <1>3, <1>4, <2>1, <2>2, OwnerFrame DEF Owner!WaitConsumers
<1>5. CASE Owner!WaitIdle(c, i)
  <2>1. OwnerTypes'
    BY Zenon, <1>5 DEF Owner!WaitIdle, Owner!goto, OwnerInv, OwnerTypes, OwnerHolding, OwnerWaiting
  <2>2. OwnerWaits(c, i)'
    BY <1>2, <1>5 DEF Owner!WaitIdle, Owner!goto, Owner!Active, OwnerInv, OwnerTypes, OwnerWaits, OwnerStopped, OwnerUnused
  <2> QED BY Zenon, <1>1, <1>3, <1>5, <2>1, <2>2, OwnerFrame DEF Owner!WaitIdle
<1>6. CASE Owner!HandoffClose(c, i)
  <2>1. OwnerTypes'
    BY Zenon, <1>6 DEF Owner!HandoffClose, Owner!goto, OwnerInv, OwnerTypes, OwnerHolding, OwnerWaiting
  <2>2. OwnerWaits(c, i)'
    BY <1>2, <1>6 DEF Owner!HandoffClose, Owner!goto, OwnerInv, OwnerTypes, OwnerWaits, OwnerStopped, OwnerUnused
  <2>3. \A j \in Subs : OwnerHandoff(j)'
    BY <1>2, <1>6 DEF Owner!HandoffClose, Owner!active, OwnerInv, OwnerTypes, OwnerWaits, OwnerHandoff, OwnerStopped, OwnerUnused
  <2>4. \A j \in Subs : OwnerLasts(j)
    BY Zenon, <1>6 DEF Owner!HandoffClose, OwnerInv, OwnerTypes, OwnerLasts, OwnerQuiet, OwnerStopped, OwnerUnused
  <2> QED BY Zenon, <1>1, <1>3, <1>6, <2>1, <2>2, <2>3, <2>4 DEF Owner!HandoffClose
<1>7. CASE Owner!HandoffDrained(c, i)
  <2>1. OwnerTypes'
    BY Zenon, <1>7 DEF Owner!HandoffDrained, Owner!goto, OwnerInv, OwnerTypes, OwnerHolding, OwnerWaiting
  <2>2. OwnerWaits(c, i)'
    BY <1>2, <1>7 DEF Owner!HandoffDrained, Owner!goto, OwnerInv, OwnerTypes, OwnerWaits, OwnerStopped, OwnerUnused
  <2>3. \A j \in Subs : OwnerHandoff(j)'
    BY <1>7 DEF Owner!HandoffDrained, OwnerInv, OwnerTypes, OwnerHandoff, OwnerStopped, OwnerUnused
  <2>4. \A j \in Subs : OwnerLasts(j)
    BY Zenon, <1>7 DEF Owner!HandoffDrained, OwnerInv, OwnerTypes, OwnerLasts, OwnerQuiet, OwnerStopped, OwnerUnused
  <2> QED BY Zenon, <1>1, <1>3, <1>7, <2>1, <2>2, <2>3, <2>4 DEF Owner!HandoffDrained
<1> QED BY Zenon, <1>4, <1>5, <1>6, <1>7

\* Subscribe goes on under mu: nothing else is registered, and no other call waits for its
\* registration.
LEMMA OwnerHolds ==
  ASSUME OwnerInv, NEW i \in Subs, NEW l \in {"business", "connected", "cleanup", "consumers"}, Owner!goto(i, l),
         pc[i] \in {"failure", "business", "connected", "cleanup"},
         UNCHANGED <<mu, stopping, running, handler, Owner!handoff>>, OwnerTypes',
         l = "business" => business'[i] = "none", OwnerStopped(i) => OwnerStopped(i)',
         \A j \in Subs : j # i => business'[j] = business[j] /\ failure'[j] = failure[j],
         todo'[i] \subseteq {i}, \A d \in OwnerCalls : d # i => todo'[d] = todo[d]
  PROVE  OwnerInv'
<1> USE DEF Owner!handoff
<1>1. /\ mu = i /\ running = {} /\ i # "free" /\ i \in OwnerCalls /\ pc \in [OwnerCalls -> OwnerStages]
      /\ pc'[i] = l /\ \A d \in OwnerCalls : d # i => pc'[d] = pc[d]
  <2>1. mu = i /\ i # "free" /\ i \in OwnerCalls /\ pc \in [OwnerCalls -> OwnerStages]
    BY Zenon, NsqSubscribersAssumption DEF Owner!SubscriberAssumption, OwnerInv, OwnerTypes, OwnerSub, OwnerStages, OwnerHolding, OwnerCalls
  <2> QED BY Zenon, <2>1 DEF OwnerInv, OwnerRunning, Owner!goto
<1>2. OwnerRunning' /\ \A h \in Handlers : handler'[h].step = "idle" <=> handler'[h].sub = "none"
  BY Zenon DEF OwnerInv, OwnerRunning
<1>3. ASSUME NEW j \in Subs PROVE OwnerHandoff(j)'
  <2>1. OwnerHandoff(j) /\ (OwnerStopped(j) => OwnerStopped(j)')
    BY Zenon DEF OwnerInv, OwnerStopped
  <2> QED BY Zenon, <2>1 DEF OwnerHandoff, OwnerUnused
<1>4. ASSUME NEW j \in Subs PROVE OwnerSub(j)'
  <2>1. CASE j = i
    BY Zenon, <1>1, <2>1 DEF OwnerSub, OwnerHolding, OwnerWaiting
  <2>2. CASE j # i
    <3>1. OwnerSub(j) /\ j \in OwnerCalls
      BY Zenon DEF OwnerInv, OwnerCalls
    <3> QED BY Zenon, <1>1, <2>2, <3>1 DEF OwnerSub, OwnerQuiet, OwnerUnused
  <2> QED BY Zenon, <2>1, <2>2
<1>5. ASSUME NEW k \in OwnerClosers PROVE OwnerClose(k)'
  <2>1. OwnerClose(k) /\ k \in OwnerCalls /\ k # i
    BY Zenon, NsqSubscribersAssumption DEF Owner!SubscriberAssumption, OwnerInv, OwnerCalls
  <2> QED BY Zenon, <1>1, <2>1 DEF OwnerClose
<1>6. ASSUME NEW d \in OwnerCalls, NEW j \in todo'[d] PROVE OwnerWaits(d, j)'
  <2>1. CASE d = i
    BY Zenon, <1>1, <2>1 DEF OwnerWaits
  <2>2. CASE d # i
    <3>1. OwnerWaits(d, j) /\ j \in Subs /\ j # i
      <4>1. d \in Subs => todo[d] \subseteq {d}
        BY Zenon DEF OwnerInv, OwnerSub
      <4>2. d \in OwnerClosers => todo[d] \subseteq running
        BY Zenon DEF OwnerInv, OwnerClose
      <4>3. j \in todo[d] /\ OwnerWaits(d, j) /\ todo[d] \subseteq Subs
        BY Zenon, <2>2 DEF OwnerInv, OwnerTypes
      <4>4. j # i
        <5>1. CASE d \in Subs
          BY Zenon, <2>2, <4>1, <4>3, <5>1
        <5>2. CASE d \in OwnerClosers
          BY Zenon, <1>1, <4>2, <4>3, <5>2
        <5> QED BY Zenon, <5>1, <5>2 DEF OwnerCalls
      <4> QED BY Zenon, <4>3, <4>4
    <3> QED BY Zenon, <1>1, <2>2, <3>1 DEF OwnerWaits, OwnerStopped, OwnerUnused
  <2> QED BY Zenon, <2>1, <2>2
<1> QED BY Zenon, <1>2, <1>3, <1>4, <1>5, <1>6 DEF OwnerInv

\* Subscribe registers what it holds and gives mu back, also when cleanup gave up.
LEMMA OwnerLetsGo ==
  ASSUME OwnerInv, NEW i \in Subs, NEW l \in {"registered", "failed"}, Owner!goto(i, l),
         pc[i] \in OwnerHolding, mu' = "free", running' = running \cup {i},
         UNCHANGED <<stopping, todo, business, failure, handler, hstopping, drained, producer, sending, ending, stopper>>
  PROVE  OwnerInv'
<1>1. /\ mu = i /\ running = {} /\ running' = {i} /\ i # "free" /\ i \in OwnerCalls /\ pc \in [OwnerCalls -> OwnerStages]
      /\ pc'[i] = l /\ \A d \in OwnerCalls : d # i => pc'[d] = pc[d]
  <2>1. mu = i /\ i # "free" /\ i \in OwnerCalls /\ pc \in [OwnerCalls -> OwnerStages]
    BY Zenon, NsqSubscribersAssumption DEF Owner!SubscriberAssumption, OwnerInv, OwnerTypes, OwnerSub, OwnerStages, OwnerCalls
  <2> QED BY Zenon, <2>1 DEF OwnerInv, OwnerRunning, Owner!goto
<1>2. OwnerTypes' /\ l \notin OwnerHolding
  BY Zenon, <1>1 DEF OwnerInv, OwnerTypes, OwnerStages, Owner!goto, OwnerHolding, OwnerWaiting
<1>3. OwnerRunning' /\ \A h \in Handlers : handler'[h].step = "idle" <=> handler'[h].sub = "none"
  BY Zenon, <1>1 DEF OwnerInv, OwnerRunning
<1>4. \A j \in Subs : OwnerHandoff(j)'
  BY Zenon, OwnerFrame
<1>5. ASSUME NEW j \in Subs PROVE OwnerSub(j)'
  <2>1. OwnerSub(j) /\ j \in OwnerCalls
    BY Zenon DEF OwnerInv, OwnerCalls
  <2>2. CASE j = i
    BY Zenon, <1>1, <1>2, <2>1, <2>2 DEF OwnerSub
  <2>3. CASE j # i
    <3>1. OwnerSub(j) /\ j # "free" /\ j \in OwnerCalls
      BY Zenon, NsqSubscribersAssumption DEF Owner!SubscriberAssumption, OwnerInv, OwnerCalls
    <3> QED BY Zenon, <1>1, <2>3, <3>1 DEF OwnerSub, OwnerQuiet, OwnerUnused
  <2> QED BY Zenon, <2>2, <2>3
<1>6. ASSUME NEW k \in OwnerClosers PROVE OwnerClose(k)'
  <2>1. OwnerClose(k) /\ k \in OwnerCalls /\ k # i
    BY Zenon, NsqSubscribersAssumption DEF Owner!SubscriberAssumption, OwnerInv, OwnerCalls
  <2> QED BY Zenon, <1>1, <2>1 DEF OwnerClose
<1>7. ASSUME NEW d \in OwnerCalls, NEW j \in todo'[d] PROVE OwnerWaits(d, j)'
  <2>1. OwnerWaits(d, j)
    BY Zenon DEF OwnerInv
  <2>2. CASE d = i
    BY Zenon, <1>1, <2>2 DEF OwnerWaits
  <2>3. CASE d # i
    BY Zenon, <1>1, <2>1, <2>3 DEF OwnerWaits, OwnerStopped, OwnerUnused
  <2> QED BY Zenon, <2>2, <2>3
<1> QED BY Zenon, <1>2, <1>3, <1>4, <1>5, <1>6, <1>7 DEF OwnerInv

\* Subscribe takes mu, looks again at stopping and at what is registered, and begins.
LEMMA OwnerRegisterKeeps ==
  ASSUME OwnerInv, NEW i \in Subs, Owner!Register(i)
  PROVE  OwnerInv'
<1> USE DEF Owner!consumers, Owner!handoff
<1>1. CASE stopping \/ running # {}
  BY Zenon, <1>1, OwnerWalkKeeps DEF Owner!Register
<1>2. CASE ~(stopping \/ running # {})
  <2>1. /\ pc[i] = "lock" /\ mu = "free" /\ mu' = i /\ running = {} /\ ~stopping /\ i \in OwnerCalls /\ i # "free"
        /\ pc \in [OwnerCalls -> OwnerStages] /\ pc' = [pc EXCEPT ![i] = "failure"]
        /\ UNCHANGED <<stopping, running, todo, business, failure, handler, Owner!handoff>>
    BY Zenon, <1>2, NsqSubscribersAssumption
       DEF Owner!SubscriberAssumption, Owner!Register, Owner!goto, OwnerInv, OwnerTypes, OwnerStages, OwnerCalls
  <2>2. pc'[i] = "failure" /\ \A d \in OwnerCalls : d # i => pc'[d] = pc[d]
    BY Zenon, <2>1
  <2>3. OwnerTypes'
    BY Zenon, <2>1 DEF OwnerInv, OwnerTypes, OwnerHolding
  <2>4. OwnerRunning' /\ \A h \in Handlers : handler'[h].step = "idle" <=> handler'[h].sub = "none"
    BY Zenon, <2>1 DEF OwnerInv, OwnerRunning
  <2>5. \A j \in Subs : OwnerHandoff(j)' /\ OwnerLasts(j)
    BY Zenon, <2>1, OwnerFrame
  <2>6. ASSUME NEW j \in Subs PROVE OwnerSub(j)'
    <3>1. OwnerSub(j) /\ j \in OwnerCalls /\ j # "free"
      BY Zenon, NsqSubscribersAssumption DEF Owner!SubscriberAssumption, OwnerInv, OwnerCalls
    <3>2. CASE j = i
      BY Zenon, <2>1, <2>2, <2>5, <3>1, <3>2 DEF OwnerSub, OwnerLasts, OwnerHolding
    <3>3. CASE j # i
      BY Zenon, <2>1, <2>2, <2>5, <3>1, <3>3 DEF OwnerSub, OwnerLasts
    <3> QED BY Zenon, <3>2, <3>3
  <2>7. ASSUME NEW k \in OwnerClosers PROVE OwnerClose(k)'
    <3>1. OwnerClose(k) /\ k \in OwnerCalls /\ k # i
      BY Zenon, NsqSubscribersAssumption DEF Owner!SubscriberAssumption, OwnerInv, OwnerCalls
    <3> QED BY Zenon, <2>1, <2>2, <3>1 DEF OwnerClose
  <2>8. ASSUME NEW d \in OwnerCalls, NEW j \in todo'[d] PROVE OwnerWaits(d, j)'
    <3>1. OwnerWaits(d, j) /\ j \in Subs
      BY Zenon, <2>1 DEF OwnerInv, OwnerTypes
    <3>2. CASE d = i
      BY Zenon, <2>2, <3>2 DEF OwnerWaits
    <3>3. CASE d # i
      BY Zenon, <2>2, <2>5, <3>1, <3>3 DEF OwnerWaits, OwnerLasts
    <3> QED BY Zenon, <3>2, <3>3
  <2> QED BY Zenon, <2>3, <2>4, <2>5, <2>6, <2>7, <2>8 DEF OwnerInv
<1> QED BY Zenon, <1>1, <1>2

\* The steps of Subscribe under mu: it connects the two consumers, registers, or cleans up.
LEMMA OwnerRegistrationKeeps ==
  ASSUME OwnerInv, NEW i \in Subs,
         \/ Owner!ConnectFailure(i) \/ Owner!ConnectBusiness(i) \/ Owner!Registered(i)
         \/ Owner!CleanupPartial(i) \/ Owner!CleanupGivesUp(i)
  PROVE  OwnerInv'
<1> USE DEF Owner!consumers
<1>1. i \in OwnerCalls /\ OwnerTypes /\ OwnerSub(i)
  BY Zenon DEF OwnerInv, OwnerCalls
<1>2. CASE Owner!ConnectFailure(i)
  <2>1. OwnerTypes' /\ business[i] = "none" /\ failure[i] = "none"
    BY <1>1, <1>2 DEF Owner!ConnectFailure, Owner!goto, Owner!handoff, OwnerTypes, OwnerHolding, OwnerConsumer, OwnerSub
  <2> QED BY Zenon, <1>1, <1>2, <2>1, OwnerHolds DEF Owner!ConnectFailure, OwnerTypes, OwnerStopped, OwnerSub
<1>3. CASE Owner!ConnectBusiness(i)
  <2>1. OwnerTypes' /\ business[i] = "none"
    BY <1>1, <1>3 DEF Owner!ConnectBusiness, Owner!goto, Owner!handoff, OwnerTypes, OwnerHolding, OwnerConsumer, OwnerSub
  <2> QED BY Zenon, <1>1, <1>3, <2>1, OwnerHolds DEF Owner!ConnectBusiness, OwnerTypes, OwnerStopped, OwnerSub
<1>4. CASE Owner!Registered(i) /\ UNCHANGED <<running, mu>>
  <2>1. OwnerTypes' /\ Owner!goto(i, "cleanup")
    BY Zenon, <1>1, <1>4 DEF Owner!Registered, Owner!goto, Owner!handoff, OwnerTypes, OwnerHolding, OwnerSub
  <2> QED BY Zenon, <1>1, <1>4, <2>1, OwnerHolds DEF Owner!Registered, OwnerStopped, OwnerSub
<1>5. CASE Owner!Registered(i) /\ ~UNCHANGED <<running, mu>>
  BY Zenon, <1>1, <1>5, OwnerLetsGo DEF Owner!Registered, Owner!handoff, OwnerHolding
<1>6. CASE Owner!CleanupPartial(i)
  <2>1. OwnerTypes'
    BY Zenon, <1>1, <1>6 DEF Owner!CleanupPartial, Owner!stop, Owner!goto, Owner!handoff, OwnerTypes, OwnerHolding, OwnerWaiting, OwnerConsumer
  <2> QED BY <1>1, <1>6, <2>1, OwnerHolds DEF Owner!CleanupPartial, Owner!stop, OwnerTypes, OwnerStopped
<1>7. CASE Owner!CleanupGivesUp(i)
  BY Zenon, <1>1, <1>7, OwnerLetsGo DEF Owner!CleanupGivesUp, Owner!Waiting, OwnerHolding, OwnerWaiting
<1> QED BY Zenon, <1>2, <1>3, <1>4, <1>5, <1>6, <1>7

\* Close under mu: it stops the consumers of what is registered, and waits for them.
LEMMA OwnerCloseStopKeeps ==
  ASSUME OwnerInv, NEW k \in OwnerClosers, Owner!CloseStop(k)
  PROVE  OwnerInv'
<1>1. /\ pc[k] = "lock" /\ mu = "free" /\ k \in OwnerCalls /\ k \notin Subs
      /\ todo' = [todo EXCEPT ![k] = running] /\ Owner!goto(k, IF running = {} THEN "ok" ELSE "consumers")
      /\ UNCHANGED <<mu, stopping, running, handler, hstopping, drained, producer, sending, ending, stopper>>
      /\ todo \in [OwnerCalls -> SUBSET Subs] /\ pc \in [OwnerCalls -> OwnerStages] /\ running \subseteq Subs
  BY Zenon, NsqSubscribersAssumption DEF Owner!SubscriberAssumption, Owner!CloseStop, Owner!handoff, OwnerInv, OwnerTypes, OwnerStages, OwnerCalls
<1>2. /\ pc'[k] \in {"ok", "consumers"} /\ (pc'[k] = "ok" => running = {}) /\ todo'[k] = running
      /\ \A d \in OwnerCalls : d # k => pc'[d] = pc[d] /\ todo'[d] = todo[d]
  BY Zenon, <1>1 DEF Owner!goto
<1>3. OwnerTypes'
  BY <1>1 DEF Owner!CloseStop, Owner!goto, Owner!stop, OwnerInv, OwnerTypes, OwnerHolding, OwnerWaiting, OwnerConsumer
<1>4. OwnerRunning' /\ \A h \in Handlers : handler'[h].step = "idle" <=> handler'[h].sub = "none"
  BY Zenon, <1>1 DEF OwnerInv, OwnerRunning
<1>5. ASSUME NEW j \in Subs
      PROVE  /\ business[j] = "stopped" => business'[j] = "stopped"
             /\ failure[j] = "stopped" => failure'[j] = "stopped"
             /\ j \notin running => business'[j] = business[j] /\ failure'[j] = failure[j]
             /\ business[j] = "none" => business'[j] \in {"none", "stopped"}
             /\ failure[j] = "none" => failure'[j] \in {"none", "stopped"}
  BY Zenon DEF Owner!CloseStop, Owner!stop
<1>6. \A j \in Subs : (OwnerStopped(j) => OwnerStopped(j)') /\ (OwnerQuiet(j) => OwnerQuiet(j)')
  BY Zenon, <1>1, <1>5 DEF OwnerStopped, OwnerQuiet, OwnerUnused
<1>7. \A j \in Subs : OwnerHandoff(j)'
  BY Zenon, <1>1, <1>6 DEF OwnerInv, OwnerHandoff, OwnerUnused
<1>8. ASSUME NEW j \in Subs PROVE OwnerSub(j)'
  <2>1. OwnerSub(j) /\ j \in OwnerCalls /\ j # k
    BY Zenon, <1>1 DEF OwnerInv, OwnerCalls
  <2> QED BY Zenon, <1>1, <1>2, <1>5, <1>6, <2>1 DEF OwnerSub
<1>9. ASSUME NEW d \in OwnerClosers PROVE OwnerClose(d)'
  <2>1. OwnerClose(d) /\ OwnerClose(k) /\ d \in OwnerCalls
    BY Zenon DEF OwnerInv, OwnerCalls
  <2> QED BY Zenon, <1>1, <1>2, <1>6, <2>1 DEF OwnerClose
<1>10. ASSUME NEW d \in OwnerCalls, NEW j \in todo'[d] PROVE OwnerWaits(d, j)'
  <2>1. CASE d = k
    BY Zenon, <1>2, <2>1 DEF OwnerWaits
  <2>2. CASE d # k
    <3>1. OwnerWaits(d, j) /\ j \in Subs
      BY Zenon, <1>1, <1>2, <2>2 DEF OwnerInv
    <3> QED BY Zenon, <1>1, <1>2, <1>6, <2>2, <3>1 DEF OwnerWaits, OwnerUnused
  <2> QED BY Zenon, <2>1, <2>2
<1> QED BY Zenon, <1>3, <1>4, <1>7, <1>8, <1>9, <1>10 DEF OwnerInv

\* The last wait ends: the registration is quiet, and the call is over.
LEMMA OwnerHandoffClosedKeeps ==
  ASSUME OwnerInv, NEW c \in OwnerCalls, NEW i \in Subs, Owner!HandoffClosed(c, i)
  PROVE  OwnerInv'
<1> USE DEF Owner!consumers, Owner!handoff
<1>1. /\ pc[c] = "hstop" /\ i \in todo[c] /\ stopper[i] = "done"
      /\ UNCHANGED <<stopping, running, business, failure, handler, hstopping, drained, producer, sending, ending, stopper>>
      /\ todo \in [OwnerCalls -> SUBSET Subs] /\ pc \in [OwnerCalls -> OwnerStages]
  BY Zenon DEF Owner!HandoffClosed, OwnerInv, OwnerTypes, OwnerStages
<1>2. OwnerQuiet(i) /\ \A j \in todo[c] : j = i
  <2>1. OwnerWaits(c, i) /\ OwnerHandoff(i)
    BY Zenon, <1>1 DEF OwnerInv
  <2>2. c \in Subs => todo[c] \subseteq {c}
    BY Zenon DEF OwnerInv, OwnerSub
  <2>3. c \in OwnerClosers => todo[c] \subseteq running
    BY Zenon DEF OwnerInv, OwnerClose
  <2>4. OwnerQuiet(i)
    BY Zenon, <1>1, <2>1 DEF OwnerWaits, OwnerHandoff, OwnerQuiet, OwnerStopped
  <2> QED BY Zenon, <1>1, <2>2, <2>3, <2>4 DEF OwnerInv, OwnerRunning, OwnerCalls
<1>3. todo' = [todo EXCEPT ![c] = {}] /\ todo'[c] = {}
  BY Zenon, <1>1, <1>2 DEF Owner!HandoffClosed
<1>4. /\ pc' = [pc EXCEPT ![c] = IF c \in OwnerClosers THEN "ok" ELSE "failed"] /\ mu' = IF c \in Subs THEN "free" ELSE mu
      /\ \A d \in OwnerCalls : d # c => pc'[d] = pc[d] /\ todo'[d] = todo[d]
  BY Zenon, <1>1, <1>3 DEF Owner!HandoffClosed, Owner!goto
<1>5. OwnerTypes'
  BY Zenon, <1>1, <1>3, <1>4 DEF OwnerInv, OwnerTypes
<1>6. \A j \in Subs : OwnerHandoff(j)' /\ OwnerLasts(j)
  BY Zenon, <1>1, OwnerFrame
<1>7. OwnerRunning' /\ \A h \in Handlers : handler'[h].step = "idle" <=> handler'[h].sub = "none"
  BY Zenon, <1>1, <1>4 DEF OwnerInv, OwnerRunning
<1>8. ASSUME NEW j \in Subs PROVE OwnerSub(j)'
  <2>1. OwnerSub(j) /\ j \in OwnerCalls /\ j # "free" /\ j \notin OwnerClosers
    BY Zenon, NsqSubscribersAssumption DEF Owner!SubscriberAssumption, OwnerInv, OwnerCalls
  <2>2. ASSUME c \in Subs PROVE mu = c /\ c = i
    <3>1. OwnerSub(c) /\ pc[c] \in OwnerHolding
      BY Zenon, <1>1, <2>2 DEF OwnerInv, OwnerHolding, OwnerWaiting
    <3> QED BY Zenon, <1>1, <3>1 DEF OwnerSub
  <2>3. CASE j = c
    BY Zenon, <1>1, <1>2, <1>3, <1>4, <1>6, <2>1, <2>2, <2>3 DEF OwnerSub, OwnerLasts, OwnerHolding, OwnerWaiting
  <2>4. CASE j # c
    BY Zenon, <1>1, <1>4, <1>6, <2>1, <2>2, <2>4 DEF OwnerSub, OwnerLasts
  <2> QED BY Zenon, <2>3, <2>4
<1>9. ASSUME NEW k \in OwnerClosers PROVE OwnerClose(k)'
  <2>1. OwnerClose(k) /\ k \in OwnerCalls /\ k \notin Subs /\ running \subseteq Subs
    BY Zenon, NsqSubscribersAssumption DEF Owner!SubscriberAssumption, OwnerInv, OwnerTypes, OwnerCalls
  <2>2. c \in Subs => mu = c /\ mu # "free"
    BY Zenon, <1>1, NsqSubscribersAssumption DEF Owner!SubscriberAssumption, OwnerInv, OwnerSub, OwnerHolding, OwnerWaiting
  <2>3. c \in OwnerClosers => i \in running
    BY Zenon, <1>1 DEF OwnerInv, OwnerClose
  <2>4. CASE k = c
    <3>1. mu = "free"
      BY Zenon, <2>1, <2>3, <2>4 DEF OwnerInv, OwnerRunning
    <3>2. \A j \in running : j = i
      BY Zenon, <2>3, <2>4 DEF OwnerInv, OwnerRunning
    <3>3. \A j \in running : OwnerQuiet(j)'
      BY Zenon, <1>2, <1>6, <3>2 DEF OwnerLasts
    <3> QED BY Zenon, <1>1, <1>3, <1>4, <2>1, <2>4, <3>1, <3>3 DEF OwnerClose
  <2>5. CASE k # c
    BY Zenon, <1>1, <1>4, <1>6, <2>1, <2>2, <2>5 DEF OwnerClose, OwnerLasts
  <2> QED BY Zenon, <2>4, <2>5
<1>10. ASSUME NEW d \in OwnerCalls, NEW j \in todo'[d] PROVE OwnerWaits(d, j)'
  <2>1. d # c
    BY Zenon, <1>3
  <2>2. OwnerWaits(d, j) /\ j \in Subs
    BY Zenon, <1>1, <1>4, <2>1 DEF OwnerInv
  <2> QED BY Zenon, <1>4, <1>6, <2>1, <2>2 DEF OwnerWaits, OwnerLasts
<1> QED BY Zenon, <1>5, <1>6, <1>7, <1>8, <1>9, <1>10 DEF OwnerInv

\* Every step of NsqSubscriber keeps its invariant.
LEMMA OwnerStep == OwnerInv /\ [Owner!Next]_Owner!vars => OwnerInv'
<1> SUFFICES ASSUME OwnerInv, [Owner!Next]_Owner!vars PROVE OwnerInv'
  BY Zenon
<1>1. CASE UNCHANGED Owner!vars
  <2>1. /\ UNCHANGED <<mu, stopping, running, pc, todo, business, failure, handler>>
        /\ UNCHANGED <<hstopping, drained, producer, sending, ending, stopper>>
    BY Zenon, <1>1 DEF Owner!vars, Owner!regVars, Owner!consumers, Owner!handoff
  <2>2. OwnerTypes' /\ \A h \in Handlers : handler'[h].step = "idle" <=> handler'[h].sub = "none"
    BY Zenon, <2>1 DEF OwnerInv, OwnerTypes
  <2>3. \A j \in Subs : OwnerHandoff(j)' /\ OwnerLasts(j)
    BY Zenon, <2>1, OwnerFrame
  <2>4. OwnerCallsKept
    BY Zenon, <2>1, <2>3, OwnerRest DEF Owner!regVars
  <2> QED BY Zenon, <2>2, <2>3, <2>4 DEF OwnerInv, OwnerCallsKept
<1>2. ASSUME NEW i \in Subs, Owner!Subscribe(i) \/ Owner!CleanupGivesUp(i) \/ Owner!GoroutineStep(i)
      PROVE  OwnerInv'
  BY Zenon, <1>2, OwnerWalkKeeps, OwnerRegistrationKeeps, OwnerGoroutineKeeps
<1>3. ASSUME NEW k \in OwnerClosers, Owner!Close(k) \/ Owner!CloseTimeout(k)
      PROVE  OwnerInv'
  BY Zenon, <1>3, OwnerWalkKeeps
<1>4. ASSUME NEW c \in Owner!Calls, Owner!CallStep(c)
      PROVE  OwnerInv'
  BY Zenon, <1>4, OwnerWaitKeeps, OwnerHandoffClosedKeeps, OwnerCloseStopKeeps, OwnerRegisterKeeps,
     OwnerRegistrationKeeps DEF Owner!CallStep, Owner!Calls, OwnerCalls
<1>5. ASSUME NEW h \in Handlers, Owner!Ready(h) \/ Owner!HandlerStep(h) \/ \E i \in Subs : Owner!Deliver(h, i)
      PROVE  OwnerInv'
  BY Zenon, <1>5, OwnerDeliveryKeeps, OwnerHandlerKeeps DEF Owner!HandlerStep
<1>6. CASE Owner!Quiescent
  BY Zenon, <1>1, <1>6 DEF Owner!Quiescent
<1> QED BY Zenon, <1>1, <1>2, <1>3, <1>4, <1>5, <1>6 DEF Owner!Next

\* The invariant gives what NsqSubscriber promises: a Close that returned nil left nothing
\* behind, a send has its producer, and there is one registration.
LEMMA OwnerPromises ==
  OwnerInv => Owner!ClosedIsQuiet /\ Owner!SendsHaveProducer /\ Owner!OneRegistration
<1> SUFFICES ASSUME OwnerInv PROVE Owner!ClosedIsQuiet /\ Owner!SendsHaveProducer /\ Owner!OneRegistration
  BY Zenon
<1> USE NsqSubscribersAssumption DEF Owner!SubscriberAssumption, OwnerInv, OwnerTypes
<1>1. \A i \in Subs : OwnerQuiet(i) => Owner!Quiet(i)
  BY DEF OwnerQuiet, Owner!Quiet, OwnerUnused, Owner!Active, Owner!active
<1>2. Owner!ClosedIsQuiet
  BY <1>1 DEF Owner!ClosedIsQuiet, OwnerClose, OwnerSub
<1>3. Owner!SendsHaveProducer
  BY Zenon DEF Owner!SendsHaveProducer, OwnerHandoff
<1>4. Owner!OneRegistration
  BY <1>1 DEF Owner!OneRegistration, OwnerSub, OwnerRunning
<1> QED BY Zenon, <1>2, <1>3, <1>4
=============================================================================

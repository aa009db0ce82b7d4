--------------------------- MODULE ZkWatch_proofs ---------------------------
(***************************************************************************)
(* Proofs about ZkWatch, for any set of paths and any number of watches.   *)
(***************************************************************************)
EXTENDS ZkWatch, QueueTheorems

USE PathOfAssumption, NoWatchAssumption, BoundAssumption

-----------------------------------------------------------------------------
(***************************************************************************)
(* Type correctness.                                                       *)
(***************************************************************************)
\* A submitted request (zoo_awexists, zoo_awget, zoo_aremove_all_watches) is
\* a well-formed entry at the end of the queue.
LEMMA SubmitType ==
    ASSUME TypeOK, NEW op \in {"exists", "get", "remove"}, NEW w \in Watch, Submit(op, w)
    PROVE  /\ requests' \in Seq(Request)
           /\ requests' = Append(requests, [op |-> op, w |-> w])
           /\ conn # "cleanup"
<1>1. [op |-> op, w |-> w] \in Request
  BY DEF Request
<1> QED
  BY <1>1, PutLast DEF Submit, TypeOK

\* Every step of every thread keeps the types.
LEMMA TypeStep == TypeOK /\ [Next]_vars => TypeOK'
<1> SUFFICES ASSUME TypeOK, [Next]_vars PROVE TypeOK'
  OBVIOUS
<1>1. ASSUME NEW p \in Path, NEW type \in EventType, Trigger(p, type)
      PROVE  srvWatch' \in SUBSET Path /\ wire' \in Seq(Reply \cup WatcherEvent)
  <2>1. [op |-> "event", p |-> p, type |-> type] \in WatcherEvent
    BY DEF WatcherEvent
  <2>2. Append(wire, [op |-> "event", p |-> p, type |-> type]) \in Seq(Reply \cup WatcherEvent)
    BY <2>1, PutLast DEF TypeOK
  <2> QED
    BY <1>1, <2>2 DEF Trigger, TypeOK
<1>2. CASE OtherClients
  <2>1. ASSUME NEW p \in Path, SrvWrite(p) PROVE TypeOK'
    <3>1. srvWatch' \in SUBSET Path /\ wire' \in Seq(Reply \cup WatcherEvent)
      <4>1. (IF node[p] = Absent THEN "created" ELSE "changed") \in EventType
        BY DEF EventType
      <4> QED
        BY <2>1, <1>1, <4>1 DEF SrvWrite
    <3> QED
      BY <2>1, <3>1 DEF SrvWrite, TypeOK, client, user, told
  <2>2. ASSUME NEW p \in Path, SrvDelete(p) PROVE TypeOK'
    <3>1. srvWatch' \in SUBSET Path /\ wire' \in Seq(Reply \cup WatcherEvent)
      BY <2>2, <1>1 DEF SrvDelete, EventType
    <3> QED
      BY <2>2, <3>1 DEF SrvDelete, TypeOK, client, user, told, Absent
  <2> QED
    BY <1>2, <2>1, <2>2 DEF OtherClients
<1>3. CASE ServerStep
  <2>1. ASSUME NEW entry \in SetWatchesEntry, SrvSetWatch(entry) PROVE TypeOK'
    <3>1. entry[2] \in Path
      BY DEF SetWatchesEntry
    <3>2. ASSUME NEW type \in EventType
          PROVE  Append(wire, [op |-> "event", p |-> entry[2], type |-> type])
                    \in Seq(Reply \cup WatcherEvent)
      <4>1. [op |-> "event", p |-> entry[2], type |-> type] \in WatcherEvent
        BY <3>1 DEF WatcherEvent
      <4> QED
        BY <4>1, PutLast DEF TypeOK
    <3>3. srvWatch' \in SUBSET Path /\ wire' \in Seq(Reply \cup WatcherEvent)
      BY <2>1, <3>1, <3>2 DEF SrvSetWatch, TypeOK, EventType
    <3> QED
      BY <2>1, <3>3 DEF SrvSetWatch, TypeOK, client, user, told
  <2>2. ASSUME requests # <<>>, NEW rc \in Rc, NEW val \in Nat
        PROVE  /\ Append(wire, Answer(Head(requests), rc, val)) \in Seq(Reply \cup WatcherEvent)
               /\ Tail(requests) \in Seq(Request)
               /\ PathOf[Head(requests).w] \in Path
    <3>1. Head(requests) \in Request /\ Tail(requests) \in Seq(Request)
      BY <2>2, TakeHead DEF TypeOK
    <3>2. Answer(Head(requests), rc, val) \in Reply
      BY <3>1 DEF Answer, Reply, Request, TypeOK
    <3>3. Append(wire, Answer(Head(requests), rc, val)) \in Seq(Reply \cup WatcherEvent)
      BY <3>2, PutLast DEF TypeOK
    <3> QED
      BY <3>1, <3>3 DEF Request
  <2>3. ASSUME SrvExists PROVE TypeOK'
    <3>1. requests # <<>>
      BY <2>3 DEF SrvExists, SrvHandles
    <3>2. wire' \in Seq(Reply \cup WatcherEvent) /\ srvWatch' \in SUBSET Path
          /\ requests' \in Seq(Request)
      BY <2>2, <2>3, <3>1 DEF SrvExists, SrvHandles, Rc, TypeOK
    <3> QED
      BY <2>3, <3>2 DEF SrvExists, SrvHandles, TypeOK, client, user, told
  <2>4. ASSUME SrvGet PROVE TypeOK'
    <3>1. requests # <<>>
      BY <2>4 DEF SrvGet, SrvHandles
    <3>2. node[PathOf[Head(requests).w]] \in Nat
      BY <2>2, <3>1 DEF Rc, TypeOK
    <3>3. wire' \in Seq(Reply \cup WatcherEvent) /\ requests' \in Seq(Request)
      BY <2>2, <2>4, <3>1, <3>2 DEF SrvGet, SrvHandles, Rc
    <3> QED
      BY <2>4, <3>3 DEF SrvGet, SrvHandles, TypeOK, client, user, told
  <2>5. ASSUME SrvRemoveWatches PROVE TypeOK'
    <3>1. requests # <<>>
      BY <2>5 DEF SrvRemoveWatches, SrvHandles
    <3>2. wire' \in Seq(Reply \cup WatcherEvent) /\ srvWatch' \in SUBSET Path
          /\ requests' \in Seq(Request)
      BY <2>2, <2>5, <3>1 DEF SrvRemoveWatches, SrvHandles, Rc, TypeOK
    <3> QED
      BY <2>5, <3>2 DEF SrvRemoveWatches, SrvHandles, TypeOK, client, user, told
  <2> QED
    BY <1>3, <2>1, <2>3, <2>4, <2>5 DEF ServerStep
<1>4. CASE IoStep
  <2>1. ASSUME wire # <<>>
        PROVE  Head(wire) \in Reply \cup WatcherEvent /\ Tail(wire) \in Seq(Reply \cup WatcherEvent)
    BY <2>1, TakeHead DEF TypeOK
  <2>2. ASSUME NEW m \in Reply \cup FiredEvent
        PROVE  Append(completions, m) \in Seq(Reply \cup FiredEvent)
    BY PutLast DEF TypeOK
  <2>3. ASSUME NEW r \in Reply \cup Request PROVE Lost(r) \in Reply
    BY DEF Lost, Reply, Request, Rc
  <2>4. ASSUME IoEvent PROVE TypeOK'
    <3> DEFINE fired == (node_watchers \cup exist_watchers) \cap WatchersOn(Head(wire).p)
    <3>1. Head(wire).type \in EventType /\ Tail(wire) \in Seq(Reply \cup WatcherEvent)
      BY <2>1, <2>4 DEF IoEvent, Reply, WatcherEvent
    <3>2. [op |-> "event", ws |-> fired, type |-> Head(wire).type] \in FiredEvent
      BY <3>1 DEF FiredEvent, TypeOK
    <3>3. completions' \in Seq(Reply \cup FiredEvent)
      BY <2>2, <2>4, <3>2 DEF IoEvent, queue_completion
    <3> QED
      BY <2>4, <3>1, <3>3 DEF IoEvent, TypeOK, server, user, told
  <2>5. ASSUME IoReply PROVE TypeOK'
    <3>1. Head(wire) \in Reply /\ Tail(wire) \in Seq(Reply \cup WatcherEvent)
      BY <2>1, <2>5 DEF IoReply, WatcherEvent
    <3>2. completions' \in Seq(Reply \cup FiredEvent)
      BY <2>2, <2>5, <3>1 DEF IoReply, queue_completion
    <3>3. node_watchers' \in SUBSET Watch /\ exist_watchers' \in SUBSET Watch /\ last_zxid' \in Nat
      BY <2>5, <3>1 DEF IoReply, Reply, ActivateNode, ActivateExist, TypeOK
    <3> QED
      BY <2>5, <3>1, <3>2, <3>3 DEF IoReply, TypeOK, server, user, told
  <2>6. ASSUME IoDropMessage PROVE TypeOK'
    <3>1. Tail(wire) \in Seq(Reply \cup WatcherEvent) /\ Head(wire) \in Reply \cup WatcherEvent
      BY <2>1, <2>6 DEF IoDropMessage
    <3>2. completions' \in Seq(Reply \cup FiredEvent)
      <4>1. CASE Head(wire).op = "event"
        BY <2>6, <4>1 DEF IoDropMessage, TypeOK
      <4>2. CASE Head(wire).op # "event"
        BY <2>2, <2>3, <2>6, <3>1, <4>2 DEF IoDropMessage, WatcherEvent, queue_completion
      <4> QED
        BY <4>1, <4>2
    <3> QED
      BY <2>6, <3>1, <3>2 DEF IoDropMessage, TypeOK, server, client, user, told
  <2>7. ASSUME IoFailRequest PROVE TypeOK'
    <3>1. Head(requests) \in Request /\ Tail(requests) \in Seq(Request)
      BY <2>7, TakeHead DEF IoFailRequest, TypeOK
    <3>2. completions' \in Seq(Reply \cup FiredEvent)
      BY <2>2, <2>3, <2>7, <3>1 DEF IoFailRequest, queue_completion
    <3> QED
      BY <2>7, <3>1, <3>2 DEF IoFailRequest, TypeOK, server, client, user, told
  <2>8. ASSUME IoCleanupDone PROVE TypeOK'
    BY <2>8 DEF IoCleanupDone, TypeOK, server, client, user, told
  <2>9. ASSUME Reconnect PROVE TypeOK'
    <3>1. resync' \in SUBSET SetWatchesEntry
      BY <2>9 DEF Reconnect, SetWatchesEntry, TypeOK
    <3> QED
      BY <2>9, <3>1 DEF Reconnect, TypeOK, client, user, told
  <2> QED
    BY <1>4, <2>4, <2>5, <2>6, <2>7, <2>8, <2>9 DEF IoStep
<1>5. CASE Disconnect
  BY <1>5 DEF Disconnect, TypeOK, client, user, told
<1>6. CASE CompletionStep
  <2>1. ASSUME NEW op, Completes(op)
        PROVE  /\ Head(completions) \in Reply \cup FiredEvent
               /\ Tail(completions) \in Seq(Reply \cup FiredEvent)
               /\ op # "event" => Head(completions) \in Reply
               /\ op = "event" => Head(completions) \in FiredEvent
    <3>1. /\ Head(completions) \in Reply \cup FiredEvent
          /\ Tail(completions) \in Seq(Reply \cup FiredEvent)
      BY <2>1, TakeHead DEF Completes, TypeOK
    <3> QED
      BY <2>1, <3>1 DEF Completes, Reply, FiredEvent
  <2>2. ASSUME NEW w \in Watch, RunWatcher(w) PROVE TypeOK'
    <3>1. Head(completions) \in FiredEvent /\ Head(completions) = completions[1]
          /\ 1 \in 1 .. Len(completions)
      BY <2>1, <2>2, TakeHead DEF RunWatcher, Completes, TypeOK
    <3>2. [completions[1] EXCEPT !.ws = @ \ {w}] \in FiredEvent
      BY <3>1 DEF FiredEvent
    <3>3. completions' \in Seq(Reply \cup FiredEvent)
      <4>1. completions' = [completions EXCEPT ![1] = [completions[1] EXCEPT !.ws = @ \ {w}]]
        BY <2>2, <3>1 DEF RunWatcher
      <4> QED
        BY <3>1, <3>2, <4>1, ExceptSeq DEF TypeOK
    <3>4. requests' \in Seq(Request)
      BY <2>2, SubmitType DEF RunWatcher
    <3>5. eve' \in [Watch -> EventType \cup {"dummy"}]
      BY <2>2, <3>1 DEF RunWatcher, FiredEvent, TypeOK
    <3> QED
      BY <2>2, <3>3, <3>4, <3>5 DEF RunWatcher, TypeOK, server, client, user, told
  <2>3. ASSUME WatchersDone PROVE TypeOK'
    <3>1. completions' \in Seq(Reply \cup FiredEvent)
      BY <2>1, <2>3 DEF WatchersDone
    <3> QED
      BY <2>3, <3>1 DEF WatchersDone, TypeOK, server, client, user, told
  <2>4. ASSUME RunExists PROVE TypeOK'
    <3>1. Head(completions).w \in Watch /\ completions' \in Seq(Reply \cup FiredEvent)
      BY <2>1, <2>4 DEF RunExists, Reply
    <3>2. requests' \in Seq(Request)
      BY <2>4, <3>1, SubmitType DEF RunExists, TypeOK
    <3>3. view' \in [Watch -> Int]
      BY <2>4, <3>1 DEF RunExists, TypeOK, Deleted
    <3> QED
      BY <2>4, <3>1, <3>2, <3>3 DEF RunExists, TypeOK, server, client, user
  <2>5. ASSUME RunGet PROVE TypeOK'
    <3>1. Head(completions) \in Reply /\ completions' \in Seq(Reply \cup FiredEvent)
      BY <2>1, <2>5 DEF RunGet
    <3>2. Head(completions).w \in Watch /\ Head(completions).val \in Nat
      BY <3>1 DEF Reply
    <3>3. view' \in [Watch -> Int] /\ high' \in [Watch -> Nat]
      <4>1. CASE Head(completions).rc = "ZOK"
        <5>1. view' = [view EXCEPT ![Head(completions).w] = Head(completions).val]
          BY <2>5, <4>1 DEF RunGet
        <5>2. high' = [high EXCEPT ![Head(completions).w] =
                         IF Head(completions).val > @ THEN Head(completions).val ELSE @]
          BY <2>5, <4>1 DEF RunGet
        <5> QED
          BY <3>2, <5>1, <5>2 DEF TypeOK
      <4>2. CASE Head(completions).rc # "ZOK"
        BY <2>5, <4>2 DEF RunGet, TypeOK, told
      <4> QED
        BY <4>1, <4>2
    <3> QED
      BY <2>5, <3>1, <3>3 DEF RunGet, TypeOK, server, client, user
  <2>6. ASSUME RunRemove PROVE TypeOK'
    <3>1. Head(completions).w \in Watch /\ completions' \in Seq(Reply \cup FiredEvent)
      BY <2>1, <2>6 DEF RunRemove, Reply
    <3>2. watch_record' \in [Path -> Watch \cup {NoWatch}] /\ removed' \in SUBSET Path
      BY <2>6, <3>1 DEF RunRemove, RemovedNow, TypeOK
    <3> QED
      BY <2>6, <3>1, <3>2 DEF RunRemove, TypeOK, server, client, told
  <2> QED
    BY <1>6, <2>2, <2>3, <2>4, <2>5, <2>6 DEF CompletionStep
<1>7. ASSUME NEW w \in Watch, WatchRecord(w) PROVE TypeOK'
  BY <1>7 DEF WatchRecord, TypeOK, server, client, told
<1>8. ASSUME NEW w \in Watch, WatchSend(w) PROVE TypeOK'
  <2>1. requests' \in Seq(Request)
    BY <1>8, SubmitType DEF WatchSend
  <2> QED
    BY <1>8, <2>1 DEF WatchSend, TypeOK, server, client, told
<1>9. ASSUME NEW w \in Watch, RemoveWatches(w) PROVE TypeOK'
  <2>1. requests' \in Seq(Request)
    BY <1>9, SubmitType DEF RemoveWatches
  <2> QED
    BY <1>9, <2>1 DEF RemoveWatches, TypeOK, server, client, user, told
<1>10. CASE UNCHANGED vars
  BY <1>10 DEF vars, TypeOK, server, client, user, told
<1> QED
  BY <1>2, <1>3, <1>4, <1>5, <1>6, <1>7, <1>8, <1>9, <1>10 DEF Next

\* The types hold at first.
LEMMA TypeInit == Init => TypeOK
<1>1. ASSUME NEW S PROVE <<>> \in Seq(S)
  BY EmptySeq
<1> QED
  BY <1>1 DEF Init, TypeOK, Absent, Unheard

\* The types hold in every reachable state, for any paths, watches and bounds.
THEOREM TypeCorrect == Spec => []TypeOK
  BY TypeInit, TypeStep, PTL DEF Spec

-----------------------------------------------------------------------------
(***************************************************************************)
(* The client's watchers are backed by the server.                         *)
(***************************************************************************)
\* A new message after the others does not uncover a path, unless it comes
\* with the loss of the server's watch and is not what ends the watchers.
LEMMA CoverAppend ==
    ASSUME TypeOK, NEW m \in Reply \cup WatcherEvent, NEW p \in Path, NEW i \in Nat,
           wire' = Append(wire, m), i <= Len(wire),
           p \in srvWatch => p \in srvWatch' \/ Ends(m, p),
           CoveredAfter(i, p)
    PROVE  CoveredAfter(i, p)'
<1>1. /\ Len(wire) \in Nat
      /\ DOMAIN wire = 1 .. Len(wire)
      /\ DOMAIN wire' = 1 .. Len(wire) + 1
      /\ wire'[Len(wire) + 1] = m
      /\ \A j \in DOMAIN wire : j \in DOMAIN wire' /\ wire'[j] = wire[j]
  BY PutLast DEF TypeOK
<1>2. CASE p \in srvWatch
  <2>1. CASE p \in srvWatch'
    BY <2>1 DEF CoveredAfter
  <2>2. CASE Ends(m, p)
    <3>1. Len(wire) + 1 \in DOMAIN wire' /\ Len(wire) + 1 > i /\ Ends(wire'[Len(wire) + 1], p)
      BY <1>1, <2>2
    <3> QED
      BY <3>1 DEF CoveredAfter, Ends
  <2> QED
    BY <1>2, <2>1, <2>2
<1>3. CASE \E j \in DOMAIN wire : j > i /\ Ends(wire[j], p)
  <2>1. PICK j \in DOMAIN wire : j > i /\ Ends(wire[j], p)
    BY <1>3
  <2>2. j \in DOMAIN wire' /\ Ends(wire'[j], p)
    BY <1>1, <2>1
  <2> QED
    BY <2>1, <2>2 DEF CoveredAfter, Ends
<1> QED
  BY <1>2, <1>3 DEF CoveredAfter

\* Reading the first message uncovers no path that is covered after it, or
\* whose watchers that message does not end.
LEMMA CoverTail ==
    ASSUME TypeOK, NEW p \in Path, NEW i \in Nat, wire # <<>>,
           wire' = Tail(wire), srvWatch' = srvWatch,
           CoveredAfter(i + 1, p) \/ (i = 0 /\ CoveredAfter(0, p) /\ ~Ends(Head(wire), p))
    PROVE  CoveredAfter(i, p)'
<1>1. /\ Head(wire) = wire[1]
      /\ DOMAIN wire = 1 .. Len(wire)
      /\ Len(wire) \in Nat
      /\ \A j \in DOMAIN wire : j = 1 \/ (j - 1 \in DOMAIN Tail(wire) /\ wire[j] = Tail(wire)[j - 1])
  BY TakeHead DEF TypeOK
<1>2. CASE p \in srvWatch
  BY <1>2 DEF CoveredAfter
<1>3. CASE p \notin srvWatch
  <2>1. CASE CoveredAfter(i + 1, p)
    <3>1. PICK j \in DOMAIN wire : j > i + 1 /\ Ends(wire[j], p)
      BY <1>3, <2>1 DEF CoveredAfter
    <3>2. j - 1 \in DOMAIN wire' /\ j - 1 > i /\ Ends(wire'[j - 1], p)
      BY <1>1, <3>1
    <3> QED
      BY <3>2 DEF CoveredAfter, Ends
  <2>2. CASE i = 0 /\ CoveredAfter(0, p) /\ ~Ends(Head(wire), p)
    <3>1. PICK j \in DOMAIN wire : Ends(wire[j], p)
      BY <1>3, <2>2 DEF CoveredAfter
    <3>2. j - 1 \in DOMAIN wire' /\ j - 1 > 0 /\ Ends(wire'[j - 1], p)
      BY <1>1, <2>2, <3>1
    <3> QED
      BY <2>2, <3>2 DEF CoveredAfter, Ends
  <2> QED
    BY <2>1, <2>2
<1> QED
  BY <1>2, <1>3
\* A step that leaves the wire, the server's watches, SetWatches, the watcher
\* tables and the connection alone keeps every part of the invariant.
LEMMA CoverFrame ==
    ASSUME CoverInv, TypeOK',
           UNCHANGED <<wire, srvWatch, resync, node_watchers, exist_watchers, conn>>
    PROVE  CoverInv'
<1>1. OfflineForgets'
  BY DEF CoverInv, OfflineForgets
<1>2. AnsweredCovered'
  BY DEF CoverInv, AnsweredCovered, CoveredAfter, Ends
<1>3. ArmedCovered'
  BY DEF CoverInv, ArmedCovered, Armed, CoveredAfter, Ends
<1> QED
  BY <1>1, <1>2, <1>3 DEF CoverInv

\* The server appends a message while it keeps each watch, or gives it up for
\* a message that ends the watchers of the path.
LEMMA CoverSend ==
    ASSUME CoverInv, TypeOK', conn = "on", NEW m \in Reply \cup WatcherEvent,
           wire' = Append(wire, m),
           UNCHANGED <<conn, node_watchers, exist_watchers>>,
           \A p \in srvWatch : p \in srvWatch' \/ Ends(m, p),
           m.op = "exists" => PathOf[m.w] \in srvWatch',
           \A entry \in resync : entry \in resync' \/ Ends(m, entry[2])
    PROVE  CoverInv'
<1> USE DEF CoverInv
<1>1. /\ Len(wire) \in Nat
      /\ DOMAIN wire = 1 .. Len(wire)
      /\ DOMAIN wire' = 1 .. Len(wire) + 1
      /\ wire'[Len(wire) + 1] = m
      /\ \A j \in DOMAIN wire : j \in DOMAIN wire' /\ wire'[j] = wire[j]
  BY PutLast DEF TypeOK
<1>2. ASSUME NEW p \in Path, NEW i \in Nat, i <= Len(wire), CoveredAfter(i, p)
      PROVE  CoveredAfter(i, p)'
  BY <1>2, CoverAppend
<1>3. OfflineForgets'
  BY DEF OfflineForgets
<1>4. AnsweredCovered'
  <2> SUFFICES ASSUME NEW i \in DOMAIN wire', wire'[i].op = "exists",
                      NEW p, p = PathOf[wire'[i].w]
               PROVE  CoveredAfter(i, p)'
    BY DEF AnsweredCovered, CoveredAfter, Ends
  <2>1. CASE i = Len(wire) + 1
    BY <1>1, <2>1 DEF CoveredAfter
  <2>2. CASE i \in DOMAIN wire
    <3>1. wire'[i] = wire[i] /\ CoveredAfter(i, p)
      BY <1>1, <2>2 DEF AnsweredCovered
    <3>2. p \in Path
      <4>1. wire[i] \in Reply \cup WatcherEvent
        BY <2>2, ElementOfSeq, <1>1 DEF TypeOK
      <4> QED
        BY <4>1, <3>1 DEF Reply, WatcherEvent
    <3>3. i \in Nat /\ i <= Len(wire)
      BY <1>1, <2>2
    <3> QED
      BY <1>2, <3>1, <3>2, <3>3
  <2> QED
    BY <1>1, <2>1, <2>2
<1>5. ArmedCovered'
  <2> SUFFICES ASSUME NEW w \in Armed
               PROVE  \/ CoveredAfter(0, PathOf[w])'
                      \/ w \in node_watchers /\ <<"data", PathOf[w]>> \in resync'
                      \/ w \in exist_watchers /\ <<"exist", PathOf[w]>> \in resync'
    BY DEF ArmedCovered, Armed
  <2>1. w \in Watch /\ PathOf[w] \in Path
    BY DEF Armed, TypeOK
  <2>2. CASE CoveredAfter(0, PathOf[w])
    BY <1>1, <1>2, <2>1, <2>2
  <2>3. ASSUME NEW t \in {"data", "exist"}, <<t, PathOf[w]>> \in resync,
               <<t, PathOf[w]>> \notin resync'
        PROVE  CoveredAfter(0, PathOf[w])'
    <3>1. Ends(wire'[Len(wire) + 1], PathOf[w])
      BY <1>1, <2>3
    <3>2. Len(wire) + 1 \in DOMAIN wire' /\ Len(wire) + 1 > 0
      BY <1>1
    <3> QED
      BY <3>1, <3>2 DEF CoveredAfter, Ends
  <2> QED
    BY <2>2, <2>3 DEF ArmedCovered
<1> QED
  BY <1>3, <1>4, <1>5

\* Every step keeps the invariant: the server trades a watch for the message
\* that ends it, and the IO thread reads messages in the order they were sent.
LEMMA CoverStep == CoverInv /\ [Next]_vars => CoverInv'
<1> SUFFICES ASSUME CoverInv, [Next]_vars PROVE CoverInv'
  OBVIOUS
<1>0. TypeOK /\ TypeOK'
  BY TypeStep DEF CoverInv
<1>1. ASSUME NEW p \in Path, NEW type \in EventType, Trigger(p, type),
             UNCHANGED <<resync, conn, node_watchers, exist_watchers>>
      PROVE  CoverInv'
  <2>1. CASE p \in srvWatch
    <3> DEFINE m == [op |-> "event", p |-> p, type |-> type]
    <3>1. m \in Reply \cup WatcherEvent /\ m.op # "exists" /\ Ends(m, p)
      BY DEF WatcherEvent, Ends
    <3>2. srvWatch' = srvWatch \ {p} /\ wire' = Append(wire, m)
      BY <1>1, <2>1 DEF Trigger
    <3>3. conn = "on"
      BY <2>1 DEF CoverInv, OfflineForgets
    <3> HIDE DEF m
    <3>4. \A q \in srvWatch : q \in srvWatch' \/ Ends(m, q)
      BY <3>1, <3>2
    <3> QED
      BY <1>0, <1>1, <3>1, <3>2, <3>3, <3>4, CoverSend
  <2>2. CASE p \notin srvWatch
    BY <1>0, <1>1, <2>2, CoverFrame DEF Trigger
  <2> QED
    BY <2>1, <2>2
<1>2. CASE OtherClients
  <2>1. ASSUME NEW p \in Path, SrvWrite(p) PROVE CoverInv'
    <3>1. (IF node[p] = Absent THEN "created" ELSE "changed") \in EventType
      BY DEF EventType
    <3> QED
      BY <1>1, <2>1, <3>1 DEF SrvWrite, client
  <2>2. ASSUME NEW p \in Path, SrvDelete(p) PROVE CoverInv'
    BY <1>1, <2>2 DEF SrvDelete, client, EventType
  <2> QED
    BY <1>2, <2>1, <2>2 DEF OtherClients
<1>3. CASE ServerStep
  <2>1. ASSUME NEW entry \in SetWatchesEntry, SrvSetWatch(entry) PROVE CoverInv'
    <3>1. entry[2] \in Path /\ conn = "on" /\ resync' = resync \ {entry}
          /\ UNCHANGED <<conn, node_watchers, exist_watchers>>
      BY <2>1 DEF SrvSetWatch, SetWatchesEntry, client
    <3>2. CASE srvWatch' = srvWatch \cup {entry[2]} /\ wire' = wire
      <4>1. OfflineForgets'
        BY <3>1 DEF OfflineForgets
      <4>2. AnsweredCovered'
        BY <3>1, <3>2 DEF CoverInv, AnsweredCovered, CoveredAfter, Ends
      <4>3. ArmedCovered'
        <5> SUFFICES ASSUME NEW w \in Armed
                     PROVE  \/ CoveredAfter(0, PathOf[w])'
                            \/ w \in node_watchers /\ <<"data", PathOf[w]>> \in resync'
                            \/ w \in exist_watchers /\ <<"exist", PathOf[w]>> \in resync'
          BY <3>1 DEF ArmedCovered, Armed
        <5>1. CASE CoveredAfter(0, PathOf[w])
          BY <3>2, <5>1 DEF CoveredAfter, Ends
        <5>2. CASE PathOf[w] = entry[2]
          BY <3>2, <5>2 DEF CoveredAfter
        <5>3. CASE PathOf[w] # entry[2] /\ ~CoveredAfter(0, PathOf[w])
          <6>1. <<"data", PathOf[w]>> # entry /\ <<"exist", PathOf[w]>> # entry
            BY <5>3
          <6> QED
            BY <3>1, <5>3, <6>1 DEF CoverInv, ArmedCovered
        <5> QED
          BY <5>1, <5>2, <5>3
      <4> QED
        BY <1>0, <4>1, <4>2, <4>3 DEF CoverInv
    <3>3. CASE \E type \in EventType :
                 /\ wire' = Append(wire, [op |-> "event", p |-> entry[2], type |-> type])
                 /\ srvWatch' = srvWatch
      <4>1. PICK type \in EventType :
                 /\ wire' = Append(wire, [op |-> "event", p |-> entry[2], type |-> type])
                 /\ srvWatch' = srvWatch
        BY <3>3
      <4> DEFINE m == [op |-> "event", p |-> entry[2], type |-> type]
      <4>2. m \in Reply \cup WatcherEvent /\ m.op # "exists" /\ Ends(m, entry[2])
        BY <3>1 DEF WatcherEvent, Ends
      <4>3. wire' = Append(wire, m)
        BY <4>1
      <4> HIDE DEF m
      <4>4. \A e \in resync : e \in resync' \/ Ends(m, e[2])
        BY <3>1, <4>2
      <4> QED
        BY <1>0, <3>1, <4>1, <4>2, <4>3, <4>4, CoverSend
    <3> QED
      BY <2>1, <3>2, <3>3 DEF SrvSetWatch, EventType
  <2>2. ASSUME requests # <<>>, NEW rc \in Rc, NEW val \in Nat
        PROVE  /\ Head(requests) \in Request
               /\ Answer(Head(requests), rc, val) \in Reply
               /\ Answer(Head(requests), rc, val).op = Head(requests).op
               /\ Answer(Head(requests), rc, val).w = Head(requests).w
               /\ Answer(Head(requests), rc, val).rc = rc
    <3>1. Head(requests) \in Request
      BY <1>0, <2>2, TakeHead DEF TypeOK
    <3> QED
      BY <1>0, <3>1 DEF Answer, Reply, Request, TypeOK
  <2>3. ASSUME SrvExists PROVE CoverInv'
    <3> DEFINE p == PathOf[Head(requests).w]
    <3>1. requests # <<>> /\ conn = "on" /\ srvWatch' = srvWatch \cup {p}
          /\ UNCHANGED <<conn, resync, node_watchers, exist_watchers>>
      BY <2>3 DEF SrvExists, SrvHandles, client
    <3>2. PICK rc \in Rc : wire' = Append(wire, Answer(Head(requests), rc, 0))
      BY <2>3 DEF SrvExists, Rc
    <3> DEFINE m == Answer(Head(requests), rc, 0)
    <3>3. m \in Reply \cup WatcherEvent /\ PathOf[m.w] = p
      BY <2>2, <3>1
    <3>4. wire' = Append(wire, m)
      BY <3>2
    <3> HIDE DEF m, p
    <3> QED
      BY <1>0, <3>1, <3>3, <3>4, CoverSend
  <2>4. ASSUME SrvGet PROVE CoverInv'
    <3>1. requests # <<>> /\ conn = "on" /\ Head(requests).op = "get"
          /\ UNCHANGED <<conn, srvWatch, resync, node_watchers, exist_watchers>>
      BY <2>4 DEF SrvGet, SrvHandles, client
    <3> DEFINE val == node[PathOf[Head(requests).w]]
    <3>2. val \in Nat
      BY <1>0, <2>2, <3>1 DEF Request, TypeOK, Rc
    <3>3. PICK rc \in Rc : wire' = Append(wire, Answer(Head(requests), rc, val))
      BY <2>4 DEF SrvGet, Rc
    <3> DEFINE m == Answer(Head(requests), rc, val)
    <3>4. m \in Reply \cup WatcherEvent /\ m.op # "exists"
      BY <2>2, <3>1, <3>2
    <3>5. wire' = Append(wire, m)
      BY <3>3
    <3> HIDE DEF m
    <3> QED
      BY <1>0, <3>1, <3>4, <3>5, CoverSend
  <2>5. ASSUME SrvRemoveWatches PROVE CoverInv'
    <3> DEFINE p == PathOf[Head(requests).w]
    <3>1. requests # <<>> /\ conn = "on" /\ Head(requests).op = "remove"
          /\ srvWatch' = srvWatch \ {p}
          /\ UNCHANGED <<conn, resync, node_watchers, exist_watchers>>
      BY <2>5 DEF SrvRemoveWatches, SrvHandles, client
    <3>2. PICK rc \in Rc : /\ wire' = Append(wire, Answer(Head(requests), rc, 0))
                           /\ p \in srvWatch => rc = "ZOK"
      BY <2>5 DEF SrvRemoveWatches, Rc
    <3> DEFINE m == Answer(Head(requests), rc, 0)
    <3>3. m \in Reply \cup WatcherEvent /\ m.op = "remove" /\ PathOf[m.w] = p /\ m.rc = rc
      BY <2>2, <3>1
    <3>4. wire' = Append(wire, m)
      BY <3>2
    <3> HIDE DEF m, p
    <3>5. \A q \in srvWatch : q \in srvWatch' \/ Ends(m, q)
      BY <3>1, <3>2, <3>3 DEF Ends
    <3> QED
      BY <1>0, <3>1, <3>3, <3>4, <3>5, CoverSend
  <2> QED
    BY <1>3, <2>1, <2>3, <2>4, <2>5 DEF ServerStep
<1>4. CASE IoStep
  <2>1. ASSUME IoEvent \/ IoReply PROVE AnsweredCovered'
    <3>1. wire # <<>> /\ wire' = Tail(wire) /\ conn = "on" /\ UNCHANGED <<conn, srvWatch>>
      BY <2>1 DEF IoEvent, IoReply, server
    <3>2. \A i \in DOMAIN Tail(wire) : i \in Nat /\ i + 1 \in DOMAIN wire /\ Tail(wire)[i] = wire[i + 1]
      BY <1>0, <3>1, TakeHead DEF TypeOK
    <3> SUFFICES ASSUME NEW i \in DOMAIN wire', wire'[i].op = "exists",
                        NEW p, p = PathOf[wire'[i].w]
                 PROVE  CoveredAfter(i, p)'
      BY DEF AnsweredCovered, CoveredAfter, Ends
    <3>3. i \in Nat /\ i + 1 \in DOMAIN wire /\ wire'[i] = wire[i + 1]
      BY <3>1, <3>2
    <3>4. CoveredAfter(i + 1, p)
      BY <3>1, <3>3 DEF CoverInv, AnsweredCovered
    <3>5. p \in Path
      <4>1. wire[i + 1] \in Reply \cup WatcherEvent
        BY <1>0, <3>1, <3>3, TakeHead, ElementOfSeq DEF TypeOK
      <4> QED
        BY <3>3, <4>1 DEF Reply, WatcherEvent
    <3> QED
      BY <1>0, <3>1, <3>3, <3>4, <3>5, CoverTail
  <2>2. ASSUME IoEvent \/ IoReply, NEW w \in Armed, w \in Armed', ~Ends(Head(wire), PathOf[w]),
               w \in node_watchers => w \in node_watchers',
               w \in exist_watchers => w \in exist_watchers'
        PROVE  \/ CoveredAfter(0, PathOf[w])'
               \/ w \in node_watchers' /\ <<"data", PathOf[w]>> \in resync'
               \/ w \in exist_watchers' /\ <<"exist", PathOf[w]>> \in resync'
    <3>1. wire # <<>> /\ wire' = Tail(wire) /\ conn = "on" /\ UNCHANGED <<srvWatch, resync>>
      BY <2>2 DEF IoEvent, IoReply, server
    <3>2. PathOf[w] \in Path
      BY <1>0 DEF Armed, TypeOK
    <3>3. CoveredAfter(0, PathOf[w]) => CoveredAfter(0, PathOf[w])'
      BY <1>0, <2>2, <3>1, <3>2, CoverTail
    <3> QED
      BY <2>2, <3>1, <3>3 DEF CoverInv, ArmedCovered
  <2>3. ASSUME IoEvent PROVE CoverInv'
    <3>1. OfflineForgets'
      BY <2>3 DEF IoEvent, OfflineForgets
    <3>2. ASSUME NEW w \in Armed'
          PROVE  /\ w \in Armed
                 /\ ~Ends(Head(wire), PathOf[w])
                 /\ w \in node_watchers => w \in node_watchers'
                 /\ w \in exist_watchers => w \in exist_watchers'
      <4>1. w \in Armed /\ w \notin WatchersOn(Head(wire).p)
        BY <2>3, <3>2 DEF IoEvent, Armed
      <4>2. w \in Watch
        BY <1>0, <4>1 DEF Armed, TypeOK
      <4> QED
        BY <2>3, <4>1, <4>2 DEF IoEvent, Ends, WatchersOn
    <3>3. ArmedCovered'
      BY <2>2, <2>3, <3>2 DEF ArmedCovered
    <3> QED
      BY <1>0, <2>1, <2>3, <3>1, <3>3 DEF CoverInv
  <2>4. ASSUME IoReply PROVE CoverInv'
    <3> DEFINE m == Head(wire)
    <3>1. OfflineForgets'
      BY <2>4 DEF IoReply, OfflineForgets
    <3>2. /\ m \in Reply
          /\ wire # <<>> /\ wire' = Tail(wire) /\ srvWatch' = srvWatch /\ conn = "on"
          /\ m = wire[1] /\ 1 \in DOMAIN wire
      BY <1>0, <2>4, TakeHead DEF IoReply, TypeOK, WatcherEvent, server
    <3>3. ASSUME NEW w \in Armed', m.op = "exists", w = m.w
          PROVE  CoveredAfter(0, PathOf[w])'
      <4>1. CoveredAfter(0 + 1, PathOf[w])
        BY <3>2, <3>3 DEF CoverInv, AnsweredCovered
      <4>2. PathOf[w] \in Path
        BY <3>2, <3>3 DEF Reply
      <4> QED
        BY <1>0, <3>2, <4>1, <4>2, CoverTail
    <3>4. ASSUME NEW w \in Armed', ~(m.op = "exists" /\ w = m.w)
          PROVE  /\ w \in Armed
                 /\ ~Ends(Head(wire), PathOf[w])
                 /\ w \in node_watchers => w \in node_watchers'
                 /\ w \in exist_watchers => w \in exist_watchers'
      <4>1. w \in Armed /\ w \notin Deactivate(m)
        BY <2>4, <3>4 DEF IoReply, Armed, ActivateNode, ActivateExist
      <4>2. w \in Watch
        BY <1>0, <4>1 DEF Armed, TypeOK
      <4> QED
        BY <2>4, <4>1, <4>2 DEF IoReply, Ends, Deactivate, WatchersOn
    <3>5. ArmedCovered'
      BY <2>2, <2>4, <3>3, <3>4 DEF ArmedCovered
    <3> QED
      BY <1>0, <2>1, <2>4, <3>1, <3>5 DEF CoverInv
  <2>5. ASSUME IoDropMessage \/ IoFailRequest \/ IoCleanupDone PROVE CoverInv'
    <3>1. conn # "on" /\ conn' # "on" /\ UNCHANGED <<srvWatch, resync>>
          /\ (conn' = "off" => wire' = <<>>)
      BY <2>5 DEF IoDropMessage, IoFailRequest, IoCleanupDone, server
    <3> QED
      BY <1>0, <3>1 DEF CoverInv, OfflineForgets, AnsweredCovered, ArmedCovered
  <2>6. ASSUME Reconnect PROVE CoverInv'
    <3>1. /\ conn = "off" /\ conn' = "on" /\ wire = <<>>
          /\ UNCHANGED <<wire, srvWatch, node_watchers, exist_watchers>>
          /\ resync' = {<<"data", PathOf[w]>> : w \in node_watchers}
                         \cup {<<"exist", PathOf[w]>> : w \in exist_watchers}
      BY <2>6 DEF Reconnect, CoverInv, OfflineForgets, client
    <3>2. OfflineForgets' /\ AnsweredCovered'
      BY <3>1 DEF OfflineForgets, AnsweredCovered
    <3>3. ArmedCovered'
      BY <3>1 DEF ArmedCovered, Armed
    <3> QED
      BY <1>0, <3>2, <3>3 DEF CoverInv
  <2> QED
    BY <1>4, <2>3, <2>4, <2>5, <2>6 DEF IoStep
<1>5. CASE Disconnect
  <2>1. conn' = "cleanup" /\ srvWatch' = {} /\ resync' = {}
    BY <1>5 DEF Disconnect
  <2> QED
    BY <1>0, <2>1 DEF CoverInv, OfflineForgets, AnsweredCovered, ArmedCovered
<1>6. CASE CompletionStep
  <2>1. UNCHANGED <<wire, srvWatch, resync, node_watchers, exist_watchers, conn>>
    BY <1>6 DEF CompletionStep, RunWatcher, WatchersDone, RunExists, RunGet, RunRemove,
                server, client
  <2> QED
    BY <1>0, <2>1, CoverFrame
<1>7. ASSUME NEW w \in Watch, WatchRecord(w) \/ WatchSend(w) \/ RemoveWatches(w) PROVE CoverInv'
  <2>1. UNCHANGED <<wire, srvWatch, resync, node_watchers, exist_watchers, conn>>
    BY <1>7 DEF WatchRecord, WatchSend, RemoveWatches, server, client
  <2> QED
    BY <1>0, <2>1, CoverFrame
<1>8. CASE UNCHANGED vars
  <2>1. UNCHANGED <<wire, srvWatch, resync, node_watchers, exist_watchers, conn>>
    BY <1>8 DEF vars, server, client
  <2> QED
    BY <1>0, <2>1, CoverFrame
<1> QED
  BY <1>2, <1>3, <1>4, <1>5, <1>6, <1>7, <1>8 DEF Next

\* There is nothing to cover at first.
LEMMA CoverInit == Init => CoverInv
  BY TypeInit DEF Init, CoverInv, OfflineForgets, AnsweredCovered, ArmedCovered, Armed

\* The covering of the watches is invariant.
LEMMA CoverHolds == Spec => []CoverInv
  BY CoverInit, CoverStep, PTL DEF Spec

\* Whatever is lost, removed or re-sent, a watcher in the client's tables is
\* backed by the server: no change of a watched path goes unnoticed by the
\* client library while the connection is up.
THEOREM WatchersCovered == Spec => []ArmedCovered
<1>1. CoverInv => ArmedCovered
  BY DEF CoverInv
<1> QED
  BY <1>1, CoverHolds, PTL

=============================================================================

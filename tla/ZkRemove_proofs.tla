-------------------------- MODULE ZkRemove_proofs ---------------------------
(***************************************************************************)
(* Proofs about the end of a watch: a removal that is reported successful  *)
(* ends the chain of a watch_path call, and nothing else does while the    *)
(* connection lasts.  Until then the user is told what the node is.        *)
(***************************************************************************)
EXTENDS ZkChain_proofs

-----------------------------------------------------------------------------
(***************************************************************************)
(* What ends a watch, on the wire.                                         *)
(***************************************************************************)
EndsIn(q, p) == {i \in DOMAIN q : Ends(q[i], p)}
OneEnd(q, p) == \A i, j \in EndsIn(q, p) : i = j
EndsLast(q, p, w) == \A i \in At(q, "exists", w), j \in EndsIn(q, p) : i < j

\* For path p and watch w, queue r is queue q with e put at the end.
PutsEnd(q, r, e, p, w) ==
    /\ EndsIn(r, p) = {} <=> EndsIn(q, p) = {} /\ ~Ends(e, p)
    /\ OneEnd(q, p) /\ (Ends(e, p) => EndsIn(q, p) = {}) => OneEnd(r, p)
    /\ EndsLast(q, p, w) /\ (Match(e, "exists", w) => EndsIn(q, p) = {} /\ ~Ends(e, p))
         => EndsLast(r, p, w)

\* For path p and watch w, queue r is queue q without its first entry e.
TakesEnd(q, r, e, p, w) ==
    /\ EndsIn(q, p) = {} <=> EndsIn(r, p) = {} /\ ~Ends(e, p)
    /\ OneEnd(q, p) => OneEnd(r, p) /\ (Ends(e, p) => EndsIn(r, p) = {})
    /\ EndsLast(q, p, w) => EndsLast(r, p, w) /\ (Ends(e, p) => None(q, "exists", w))

\* An entry put at the end of a queue comes after all that ends the watch.
LEMMA PutEnd ==
    ASSUME NEW S, NEW q \in Seq(S), NEW e \in S, NEW p, NEW w
    PROVE  PutsEnd(q, Append(q, e), e, p, w)
<1>1. /\ Len(q) \in Nat
      /\ DOMAIN q = 1 .. Len(q)
      /\ DOMAIN Append(q, e) = 1 .. Len(q) + 1
      /\ Append(q, e)[Len(q) + 1] = e
      /\ \A i \in DOMAIN q : Append(q, e)[i] = q[i]
  BY PutLast
<1>2. EndsIn(Append(q, e), p) = EndsIn(q, p) \cup (IF Ends(e, p) THEN {Len(q) + 1} ELSE {})
  BY <1>1 DEF EndsIn
<1>3. At(Append(q, e), "exists", w)
        = At(q, "exists", w) \cup (IF Match(e, "exists", w) THEN {Len(q) + 1} ELSE {})
  BY <1>1 DEF At
<1>4. EndsIn(q, p) \subseteq 1 .. Len(q) /\ At(q, "exists", w) \subseteq 1 .. Len(q)
  BY <1>1 DEF EndsIn, At
<1>5. EndsIn(Append(q, e), p) = {} <=> EndsIn(q, p) = {} /\ ~Ends(e, p)
  BY <1>2
<1>6. OneEnd(q, p) /\ (Ends(e, p) => EndsIn(q, p) = {}) => OneEnd(Append(q, e), p)
  BY <1>2 DEF OneEnd
<1>7. EndsLast(q, p, w) /\ (Match(e, "exists", w) => EndsIn(q, p) = {} /\ ~Ends(e, p))
        => EndsLast(Append(q, e), p, w)
  BY <1>1, <1>2, <1>3, <1>4 DEF EndsLast
<1> QED
  BY <1>5, <1>6, <1>7 DEF PutsEnd

\* Taking the first entry of a queue.
LEMMA TakeEnd ==
    ASSUME NEW S, NEW q \in Seq(S), q # <<>>, NEW p, NEW w
    PROVE  TakesEnd(q, Tail(q), Head(q), p, w)
<1>1. /\ Head(q) = q[1]
      /\ Len(q) \in Nat
      /\ DOMAIN q = 1 .. Len(q)
      /\ 1 \in DOMAIN q
      /\ DOMAIN Tail(q) = 1 .. Len(q) - 1
      /\ \A i \in DOMAIN Tail(q) : i + 1 \in DOMAIN q /\ Tail(q)[i] = q[i + 1]
      /\ \A i \in DOMAIN q : i = 1 \/ (i - 1 \in DOMAIN Tail(q) /\ q[i] = Tail(q)[i - 1])
  BY TakeHead
<1>2. /\ \A i \in EndsIn(Tail(q), p) : i \in Nat \ {0} /\ i + 1 \in EndsIn(q, p)
      /\ \A i \in EndsIn(q, p) : i \in Nat \ {0} /\ (i = 1 \/ i - 1 \in EndsIn(Tail(q), p))
      /\ 1 \in EndsIn(q, p) <=> Ends(Head(q), p)
  BY <1>1 DEF EndsIn
<1>3. /\ \A i \in At(Tail(q), "exists", w) : i \in Nat \ {0} /\ i + 1 \in At(q, "exists", w)
      /\ \A i \in At(q, "exists", w) : i \in Nat \ {0}
  BY <1>1 DEF At
<1>4. EndsIn(q, p) = {} <=> EndsIn(Tail(q), p) = {} /\ ~Ends(Head(q), p)
  BY <1>2
<1>5. OneEnd(q, p) => OneEnd(Tail(q), p) /\ (Ends(Head(q), p) => EndsIn(Tail(q), p) = {})
  BY <1>2 DEF OneEnd
<1>6. EndsLast(q, p, w) => EndsLast(Tail(q), p, w) /\ (Ends(Head(q), p) => None(q, "exists", w))
  BY <1>2, <1>3 DEF EndsLast, None
<1> QED
  BY <1>4, <1>5, <1>6 DEF TakesEnd

-----------------------------------------------------------------------------
(***************************************************************************)
(* The only watch on its path.                                             *)
(***************************************************************************)
Alone(w) == WatchersOn(PathOf[w]) = {w}

\* The chain of w is somewhere.
Carried(w) == Requested(w) \/ Answered(w) \/ Fired(w) \/ w \in Armed

Resyncs(p) == <<"data", p>> \in resync \/ <<"exist", p>> \in resync

\* The server knows of the watch, or what ends it is unread, only while the
\* client has it in a table or will put it there before it reads the end.
Backed(w) ==
    LET p == PathOf[w]
    IN  conn = "on" =>
          /\ p \in srvWatch \/ EndsIn(wire, p) # {} => w \in Armed \/ Answered(w)
          /\ p \in srvWatch => EndsIn(wire, p) = {} /\ ~Resyncs(p)
          /\ Resyncs(p) => EndsIn(wire, p) = {}
          /\ <<"data", p>> \in resync => w \in node_watchers
          /\ <<"exist", p>> \in resync => w \in exist_watchers
          /\ OneEnd(wire, p)
          /\ EndsLast(wire, p, w)

\* The answers that report the removal of w as successful.
Removal(w) == {m \in In(completions, "remove", w) : m.rc = "ZOK"}

\* Only a watch that was sent can be removed, and then it is nowhere.
Gone(w) ==
    /\ \/ ~None(requests, "remove", w) \/ ~None(wire, "remove", w) \/ ~None(completions, "remove", w)
       => call[w] = "watching"
    /\ Removal(w) # {} \/ PathOf[w] \in removed => call[w] = "watching" /\ ~Carried(w)

EndInv == ValueInv /\ CoverInv /\ \A w \in Watch : Alone(w) => Backed(w) /\ Gone(w)

\* A removal of w is under way.
Removing(w) ==
    ~None(requests, "remove", w) \/ ~None(wire, "remove", w) \/ ~None(completions, "remove", w)

\* A step after which no more is under way than before.
LEMMA GoneFrame ==
    ASSUME NEW w \in Watch, Gone(w), Removing(w)' => Removing(w), Carried(w)' => Carried(w),
           Removal(w)' \subseteq Removal(w), removed' \subseteq removed,
           call[w] = "watching" => call'[w] = "watching"
    PROVE  Gone(w)'
  BY DEF Gone, Removing

\* The watch is the only one whose events and removals end it.
LEMMA EndsAlone ==
    ASSUME NEW w \in Watch, Alone(w), NEW v \in Watch
    PROVE  PathOf[v] = PathOf[w] <=> v = w
  BY DEF Alone, WatchersOn

\* An event is put on the wire when its watch or its SetWatches entry goes.
LEMMA EndWire ==
    ASSUME EndInv, NEW w \in Watch, Alone(w), NEW p \in Path, NEW type \in EventType,
           wire' \in {wire, Append(wire, [op |-> "event", p |-> p, type |-> type])},
           wire' # wire /\ p = PathOf[w] =>
             (p \in srvWatch \/ Resyncs(p)) /\ p \notin srvWatch' /\ ~Resyncs(p)',
           PathOf[w] \in srvWatch' =>
             \/ PathOf[w] \in srvWatch
             \/ wire' = wire /\ Resyncs(PathOf[w]) /\ ~Resyncs(PathOf[w])',
           resync' \subseteq resync,
           UNCHANGED <<conn, requests, client, completions, call, removed>>
    PROVE  Backed(w)' /\ Gone(w)'
<1> DEFINE e == [op |-> "event", p |-> p, type |-> type]
<1>1. Backed(w) /\ Gone(w) /\ TypeOK
  BY DEF EndInv, ValueInv, ChainInv
<1>2. e \in Reply \cup WatcherEvent /\ wire \in Seq(Reply \cup WatcherEvent)
  BY <1>1 DEF WatcherEvent, TypeOK
<1>3. ~Match(e, "exists", w) /\ ~Match(e, "remove", w) /\ (Ends(e, PathOf[w]) <=> p = PathOf[w])
  BY DEF Match, Ends
<1> HIDE DEF e
<1>4. Puts(wire, Append(wire, e), e, w) /\ PutsEnd(wire, Append(wire, e), e, PathOf[w], w)
  BY <1>2, PutAt, PutEnd
<1>5. CASE wire' = wire
  <2>1. Backed(w)'
    BY <1>1, <1>5 DEF Backed, Resyncs, Armed, Answered, client
  <2>2. Gone(w)'
    BY <1>1, <1>5 DEF Gone, Carried, Requested, Answered, Fired, Armed, client, Removal
  <2> QED
    BY <2>1, <2>2
<1>6. CASE wire' # wire
  <2>0. wire' = Append(wire, e)
    BY <1>6 DEF e
  <2>1. /\ None(wire', "exists", w) <=> None(wire, "exists", w)
        /\ None(wire', "remove", w) <=> None(wire, "remove", w)
        /\ EndsIn(wire', PathOf[w]) = {} <=> EndsIn(wire, PathOf[w]) = {} /\ p # PathOf[w]
        /\ OneEnd(wire, PathOf[w]) /\ (p = PathOf[w] => EndsIn(wire, PathOf[w]) = {})
             => OneEnd(wire', PathOf[w])
        /\ EndsLast(wire, PathOf[w], w) => EndsLast(wire', PathOf[w], w)
    BY <1>3, <1>4, <2>0 DEF Puts, PutsEnd, Ops
  <2>2. Backed(w)'
    BY <1>1, <1>6, <2>1 DEF Backed, Resyncs, Armed, Answered, client
  <2>3. Gone(w)'
    BY <1>1, <2>1 DEF Gone, Carried, Requested, Answered, Fired, Armed, client, Removal
  <2> QED
    BY <2>2, <2>3
<1> QED
  BY <1>5, <1>6

\* Other clients write or delete.
LEMMA EndOthers ==
    ASSUME EndInv, NEW w \in Watch, Alone(w), NEW p \in Path, SrvWrite(p) \/ SrvDelete(p)
    PROVE  Backed(w)' /\ Gone(w)'
<1>1. Backed(w) /\ (conn # "on" => srvWatch = {})
  BY DEF EndInv, CoverInv, OfflineForgets
<1>2. PICK type \in EventType :
         \/ wire' = wire /\ srvWatch' = srvWatch
         \/ /\ wire' = Append(wire, [op |-> "event", p |-> p, type |-> type])
            /\ p \in srvWatch /\ srvWatch' = srvWatch \ {p}
  BY DEF SrvWrite, SrvDelete, Trigger, EventType
<1>3. UNCHANGED <<conn, resync, requests, client, completions, call, removed>>
  BY DEF SrvWrite, SrvDelete, user
<1>4. Resyncs(p)' = Resyncs(p) /\ Resyncs(PathOf[w])' = Resyncs(PathOf[w])
  BY <1>3 DEF Resyncs
<1>5. p = PathOf[w] /\ p \in srvWatch => ~Resyncs(p)
  BY <1>1 DEF Backed
<1> QED
  BY <1>2, <1>3, <1>4, <1>5, EndWire

\* The server handles an entry of SetWatches.
LEMMA EndResync ==
    ASSUME EndInv, NEW w \in Watch, Alone(w), NEW entry \in SetWatchesEntry, SrvSetWatch(entry)
    PROVE  Backed(w)' /\ Gone(w)'
<1> DEFINE p == entry[2]
<1>1. Backed(w) /\ Single(w)
  BY DEF EndInv, ValueInv, ChainInv, Chain
<1>2. p \in Path /\ entry \in {<<"data", p>>, <<"exist", p>>}
  BY DEF SetWatchesEntry
<1>3. PICK type \in EventType :
         \/ wire' = wire /\ srvWatch' = srvWatch \cup {p}
         \/ wire' = Append(wire, [op |-> "event", p |-> p, type |-> type]) /\ srvWatch' = srvWatch
  BY DEF SrvSetWatch, EventType
<1>4. /\ conn = "on" /\ entry \in resync /\ resync' = resync \ {entry}
      /\ UNCHANGED <<conn, requests, client, completions, call, removed>>
  BY DEF SrvSetWatch, user
<1>5. p = PathOf[w] => Resyncs(p) /\ ~Resyncs(p)' /\ p \notin srvWatch
  BY <1>1, <1>2, <1>4 DEF Backed, Resyncs, Single
<1> HIDE DEF p
<1> QED
  BY <1>2, <1>3, <1>4, <1>5, EndWire

\* The server handles a request: an exists sets the watch, a remove ends it.
LEMMA EndServer ==
    ASSUME EndInv, NEW w \in Watch, Alone(w), SrvExists \/ SrvGet \/ SrvRemoveWatches
    PROVE  Backed(w)' /\ Gone(w)'
<1> DEFINE r == Head(requests)
           p == PathOf[w]
<1>1. Backed(w) /\ Gone(w) /\ Chain(w) /\ TypeOK
  BY DEF EndInv, ValueInv, ChainInv
<1>2. /\ conn = "on" /\ resync = {} /\ requests # <<>> /\ requests' = Tail(requests)
      /\ r.op \in {"exists", "get", "remove"}
      /\ UNCHANGED <<conn, resync, client, completions, call, removed>>
  BY DEF SrvExists, SrvGet, SrvRemoveWatches, SrvHandles, user
<1>3. r \in Request /\ r.w \in Watch /\ node[PathOf[r.w]] \in Nat
  BY <1>1, <1>2, First, PathOfAssumption DEF Request, TypeOK
<1>4. PICK rc \in Rc, val \in Nat :
        /\ wire' = Append(wire, Answer(r, rc, val))
        /\ r.op = "exists" => srvWatch' = srvWatch \cup {PathOf[r.w]}
        /\ r.op = "get" => srvWatch' = srvWatch
        /\ r.op = "remove" => /\ srvWatch' = srvWatch \ {PathOf[r.w]}
                              /\ rc = "ZOK" => PathOf[r.w] \in srvWatch
  BY <1>3 DEF SrvExists, SrvGet, SrvRemoveWatches, SrvHandles, Rc
<1> DEFINE m == Answer(r, rc, val)
<1>5. m \in Reply /\ m.op = r.op /\ m.w = r.w /\ m.rc = rc
  BY <1>1, <1>3 DEF Answer, Reply, Request, TypeOK
<1>6. requests \in Seq(Request) /\ wire \in Seq(Reply \cup WatcherEvent)
  BY <1>1 DEF TypeOK
<1> HIDE DEF m
<1>7. /\ Takes(requests, requests', r, w) /\ Puts(wire, wire', m, w)
      /\ PutsEnd(wire, wire', m, p, w)
  BY <1>2, <1>4, <1>5, <1>6, TakeAt, PutAt, PutEnd DEF m
<1>8. /\ \A o \in {"exists", "get", "remove"} :
            (Match(m, o, w) <=> Match(r, o, w)) /\ (Match(r, o, w) <=> r.op = o /\ r.w = w)
      /\ Ends(m, p) <=> r.op = "remove" /\ rc = "ZOK" /\ r.w = w
  BY <1>2, <1>3, <1>5, EndsAlone DEF Match, Ends
<1>9. PathOf[r.w] = p <=> r.w = w
  BY <1>3, EndsAlone
<1> HIDE DEF r, p
<1>10. /\ Match(r, "exists", w) => Requested(w)
       /\ Requested(w)' => Requested(w)
       /\ Answered(w)' <=> Answered(w) \/ Match(r, "exists", w)
       /\ Removing(w)' => Removing(w)
  BY <1>2, <1>7, <1>8 DEF Takes, Puts, Ops, Requested, Answered, Removing
<1>11. Gone(w)'
  <2>1. Carried(w)' => Carried(w)
    BY <1>2, <1>10 DEF Carried, Fired, Armed, client
  <2>2. Removal(w)' = Removal(w)
    BY <1>2 DEF Removal
  <2> QED
    BY <1>1, <1>2, <1>10, <2>1, <2>2, GoneFrame
<1>12. Requested(w) => w \notin Armed /\ ~Answered(w) /\ p \notin srvWatch /\ EndsIn(wire, p) = {}
  BY <1>1, <1>2 DEF Chain, Single, Backed, p
<1>13. p \in srvWatch' <=> \/ p \in srvWatch /\ ~Match(r, "remove", w)
                           \/ Match(r, "exists", w)
  BY <1>2, <1>4, <1>8, <1>9
<1>14. EndsIn(wire', p) = {} <=> EndsIn(wire, p) = {} /\ ~Ends(m, p)
  BY <1>7 DEF PutsEnd
<1>15. Ends(m, p) => p \in srvWatch /\ Match(r, "remove", w)
  BY <1>4, <1>8, <1>9
<1>16. p \in srvWatch => EndsIn(wire, p) = {} /\ (w \in Armed \/ Answered(w))
  BY <1>1, <1>2 DEF Backed, p
<1>17. ~Match(r, "exists", w) \/ ~Match(r, "remove", w)
  BY <1>8
<1>18. OneEnd(wire', p) /\ EndsLast(wire', p, w)
  BY <1>1, <1>2, <1>7, <1>8, <1>10, <1>12, <1>15, <1>16, <1>17 DEF PutsEnd, Backed, p
<1>19. ~Resyncs(p)' /\ Armed' = Armed /\ resync' = {}
  BY <1>2 DEF Resyncs, Armed, client
<1>20. p \in srvWatch' \/ EndsIn(wire', p) # {} => w \in Armed \/ Answered(w)'
  BY <1>1, <1>2, <1>10, <1>13, <1>14, <1>15, <1>16 DEF Backed, p
<1>21. p \in srvWatch' => EndsIn(wire', p) = {}
  BY <1>10, <1>12, <1>13, <1>14, <1>15, <1>16, <1>17
<1>22. Backed(w)'
  BY <1>18, <1>19, <1>20, <1>21 DEF Backed, p
<1> QED
  BY <1>11, <1>22


\* The answer to a request is read: an exists arms the watch, a successful
\* remove disarms it.
LEMMA EndReply ==
    ASSUME EndInv, NEW w \in Watch, Alone(w), IoReply
    PROVE  Backed(w)' /\ Gone(w)'
<1> DEFINE m == Head(wire)
           p == PathOf[w]
<1>1. Backed(w) /\ Gone(w) /\ Chain(w) /\ LostEnds(w) /\ TypeOK
  BY DEF EndInv, ValueInv, Values, ChainInv
<1>2. /\ conn = "on" /\ wire # <<>> /\ m.op # "event" /\ wire' = Tail(wire)
      /\ completions' = Append(completions, m)
      /\ node_watchers' = (node_watchers \cup ActivateNode(m)) \ Deactivate(m)
      /\ exist_watchers' = (exist_watchers \cup ActivateExist(m)) \ Deactivate(m)
      /\ UNCHANGED <<srvWatch, resync, conn, requests, call, removed>>
  BY DEF IoReply, queue_completion, server, user
<1>3. m \in Reply /\ m.w \in Watch /\ m.op \in {"exists", "get", "remove"}
  BY <1>1, <1>2, First DEF Reply
<1>4. wire \in Seq(Reply \cup WatcherEvent) /\ completions \in Seq(Reply \cup FiredEvent)
  BY <1>1 DEF TypeOK
<1>5. /\ Takes(wire, wire', m, w) /\ TakesEnd(wire, wire', m, p, w)
      /\ Puts(completions, completions', m, w)
      /\ Gains(completions, completions', m, w) /\ Gains(wire', wire, m, w)
  BY <1>2, <1>3, <1>4, TakeAt, TakeEnd, TakeIn, PutAt, PutIn
<1>6. /\ \A o \in {"exists", "get", "remove"} : Match(m, o, w) <=> m.op = o /\ m.w = w
      /\ Ends(m, p) <=> m.op = "remove" /\ m.rc = "ZOK" /\ m.w = w
      /\ ~Match(m, "event", w)
  BY <1>2, <1>3, EndsAlone DEF Match, Ends
<1>7. w \in Deactivate(m) <=> Ends(m, p)
  BY <1>3, <1>6, EndsAlone DEF Deactivate, WatchersOn
<1>8. Match(m, "exists", w) => w \in ActivateNode(m) \cup ActivateExist(m)
  <2>1. Match(m, "exists", w) => m.rc \in {"ZOK", "ZNONODE"}
    BY <1>1, <1>5 DEF Gains, LostEnds
  <2> QED
    BY <1>6, <2>1 DEF ActivateNode, ActivateExist
<1>9. w \in ActivateNode(m) \cup ActivateExist(m) => Match(m, "exists", w)
  BY <1>6 DEF ActivateNode, ActivateExist
<1> HIDE DEF m, p
<1>10. /\ Answered(w) <=> Answered(w)' \/ Match(m, "exists", w)
       /\ Requested(w)' <=> Requested(w)
       /\ Fired(w)' <=> Fired(w)
       /\ Removing(w)' => Removing(w)
       /\ Match(m, "remove", w) => Removing(w)
  BY <1>2, <1>5, <1>6 DEF Takes, Puts, Ops, Answered, Requested, Fired, Removing
<1>11. /\ w \in Armed' <=> (w \in Armed \/ Match(m, "exists", w)) /\ ~Ends(m, p)
       /\ w \in node_watchers /\ ~Ends(m, p) => w \in node_watchers'
       /\ w \in exist_watchers /\ ~Ends(m, p) => w \in exist_watchers'
  BY <1>2, <1>7, <1>8, <1>9 DEF Armed
<1>12. CASE Ends(m, p)
  <2>1. /\ p \notin srvWatch /\ ~Resyncs(p) /\ EndsIn(wire', p) = {}
        /\ ~Answered(w) /\ w \in Armed
    BY <1>1, <1>2, <1>5, <1>12 DEF Backed, TakesEnd, Answered, p
  <2>2. ~Requested(w) /\ ~Fired(w)
    BY <1>1, <2>1 DEF Chain, Single
  <2>3. ~Carried(w)' /\ call'[w] = "watching"
    BY <1>1, <1>2, <1>6, <1>10, <1>11, <1>12, <2>1, <2>2 DEF Carried, Gone, Removing
  <2>4. OneEnd(wire', p) /\ EndsLast(wire', p, w)
    BY <2>1 DEF OneEnd, EndsLast
  <2>5. Backed(w)'
    BY <1>2, <2>1, <2>4 DEF Backed, Resyncs, p
  <2> QED
    BY <2>3, <2>5 DEF Gone
<1>13. CASE ~Ends(m, p)
  <2>1. Carried(w)' => Carried(w)
    BY <1>10, <1>11 DEF Carried
  <2>2. Removal(w)' \subseteq Removal(w)
    BY <1>5, <1>6, <1>13 DEF Gains, Removal
  <2>3. Gone(w)'
    BY <1>1, <1>2, <1>10, <2>1, <2>2, GoneFrame
  <2>4. /\ EndsIn(wire', p) = {} <=> EndsIn(wire, p) = {}
        /\ OneEnd(wire, p) => OneEnd(wire', p)
        /\ EndsLast(wire, p, w) => EndsLast(wire', p, w)
    BY <1>5, <1>13 DEF TakesEnd
  <2>5. Backed(w)'
    BY <1>1, <1>2, <1>10, <1>11, <1>13, <2>4 DEF Backed, Resyncs, p
  <2> QED
    BY <2>3, <2>5
<1> QED
  BY <1>12, <1>13

\* An event is read.
LEMMA EndEvent ==
    ASSUME EndInv, NEW w \in Watch, Alone(w), IoEvent
    PROVE  Backed(w)' /\ Gone(w)'
<1> DEFINE e == Head(wire)
           p == PathOf[w]
           fired == (node_watchers \cup exist_watchers) \cap WatchersOn(e.p)
           c == [op |-> "event", ws |-> fired, type |-> e.type]
<1>1. Backed(w) /\ Gone(w) /\ Chain(w) /\ TypeOK
  BY DEF EndInv, ValueInv, ChainInv
<1>2. /\ conn = "on" /\ wire # <<>> /\ e.op = "event" /\ wire' = Tail(wire)
      /\ completions' = Append(completions, c)
      /\ node_watchers' = node_watchers \ fired
      /\ exist_watchers' = exist_watchers \ fired
      /\ UNCHANGED <<srvWatch, resync, conn, requests, call, removed>>
  BY DEF IoEvent, queue_completion, server, user
<1>3. e \in WatcherEvent /\ c \in FiredEvent
  BY <1>1, <1>2, First DEF FiredEvent, WatcherEvent, TypeOK
<1>4. wire \in Seq(Reply \cup WatcherEvent) /\ completions \in Seq(Reply \cup FiredEvent)
  BY <1>1 DEF TypeOK
<1>5. /\ \A o \in {"exists", "get", "remove"} : ~Match(e, o, w) /\ ~Match(c, o, w)
      /\ Ends(e, p) <=> e.p = p
      /\ Match(c, "event", w) <=> w \in fired
  BY <1>2 DEF Match, Ends
<1>6. w \in fired <=> w \in Armed /\ Ends(e, p)
  BY <1>5 DEF WatchersOn, Armed
<1> HIDE DEF c, e, p, fired
<1>7. /\ Takes(wire, wire', e, w) /\ TakesEnd(wire, wire', e, p, w)
      /\ Puts(completions, completions', c, w)
      /\ Gains(completions, completions', c, w)
  BY <1>2, <1>3, <1>4, TakeAt, TakeEnd, TakeIn, PutAt, PutIn DEF e
<1>8. /\ Answered(w)' <=> Answered(w)
      /\ Requested(w)' <=> Requested(w)
      /\ Fired(w)' => Fired(w) \/ w \in Armed
      /\ Removing(w)' <=> Removing(w)
      /\ Removal(w)' = Removal(w)
  BY <1>2, <1>5, <1>6, <1>7 DEF Takes, Puts, Gains, Ops, Answered, Requested, Fired, Removing, Removal
<1>9. /\ w \in node_watchers' <=> w \in node_watchers /\ ~(w \in Armed /\ Ends(e, p))
      /\ w \in exist_watchers' <=> w \in exist_watchers /\ ~(w \in Armed /\ Ends(e, p))
      /\ w \in Armed' <=> w \in Armed /\ ~Ends(e, p)
  BY <1>2, <1>6 DEF Armed
<1>10. Gone(w)'
  <2>1. Carried(w)' => Carried(w)
    BY <1>8, <1>9 DEF Carried
  <2> QED
    BY <1>1, <1>2, <1>8, <2>1, GoneFrame
<1>11. CASE Ends(e, p)
  <2>1. p \notin srvWatch /\ ~Resyncs(p) /\ EndsIn(wire', p) = {}
    BY <1>1, <1>2, <1>7, <1>11 DEF Backed, TakesEnd, p
  <2>2. OneEnd(wire', p) /\ EndsLast(wire', p, w)
    BY <2>1 DEF OneEnd, EndsLast
  <2> QED
    BY <1>2, <1>10, <2>1, <2>2 DEF Backed, Resyncs, p
<1>12. CASE ~Ends(e, p)
  <2>1. /\ EndsIn(wire', p) = {} <=> EndsIn(wire, p) = {}
        /\ OneEnd(wire, p) => OneEnd(wire', p)
        /\ EndsLast(wire, p, w) => EndsLast(wire', p, w)
    BY <1>7, <1>12 DEF TakesEnd
  <2>2. Backed(w)'
    BY <1>1, <1>2, <1>8, <1>9, <1>12, <2>1 DEF Backed, Resyncs, p
  <2> QED
    BY <1>10, <2>2
<1> QED
  BY <1>11, <1>12


\* A lost connection: what was under way fails, and nothing is reported
\* removed.
LEMMA EndLoss ==
    ASSUME EndInv, NEW w \in Watch, Alone(w), IoDropMessage \/ IoFailRequest
    PROVE  Backed(w)' /\ Gone(w)'
<1>1. Gone(w) /\ TypeOK
  BY DEF EndInv, ValueInv, ChainInv
<1>2. /\ conn' = "cleanup" /\ UNCHANGED <<client, call, removed>>
  BY DEF IoDropMessage, IoFailRequest, user
<1>3. Backed(w)'
  BY <1>2 DEF Backed
<1>4. /\ requests \in Seq(Request) /\ wire \in Seq(Reply \cup WatcherEvent)
      /\ completions \in Seq(Reply \cup FiredEvent)
  BY <1>1 DEF TypeOK
<1>5. ASSUME NEW a, NEW m, m = Lost(a), m \in Reply, a.op # "event",
             completions' = Append(completions, m),
             \/ Takes(requests, requests', a, w) /\ wire' = wire
             \/ Takes(wire, wire', a, w) /\ requests' = requests
      PROVE  Gone(w)'
  <2>1. Puts(completions, completions', m, w) /\ Gains(completions, completions', m, w)
    BY <1>4, <1>5, PutAt, PutIn
  <2>2. /\ \A o \in {"exists", "get", "remove"} : Match(m, o, w) <=> Match(a, o, w)
        /\ ~Match(m, "event", w)
        /\ m.rc = "ZCONNECTIONLOSS"
    BY <1>5 DEF Match, Lost
  <2>3. Removing(w)' => Removing(w)
    BY <1>5, <2>1, <2>2 DEF Takes, Puts, Ops, Removing
  <2>4. Carried(w)' => Carried(w)
    BY <1>2, <1>5, <2>1, <2>2 DEF Takes, Puts, Ops, Carried, Requested, Answered, Fired, Armed, client
  <2>5. Removal(w)' \subseteq Removal(w)
    BY <2>1, <2>2 DEF Gains, Removal
  <2> QED
    BY <1>1, <1>2, <2>3, <2>4, <2>5, GoneFrame
<1>6. CASE IoFailRequest
  <2>1. /\ requests # <<>> /\ requests' = Tail(requests) /\ wire' = wire
        /\ completions' = Append(completions, Lost(Head(requests)))
    BY <1>6 DEF IoFailRequest, queue_completion
  <2>2. Head(requests) \in Request
    BY <1>1, <2>1, First
  <2>3. Lost(Head(requests)) \in Reply /\ Head(requests).op # "event"
    BY <2>2 DEF Lost, Reply, Request, Rc
  <2>4. Takes(requests, requests', Head(requests), w)
    BY <1>4, <2>1, TakeAt
  <2> QED
    BY <1>3, <1>5, <2>1, <2>3, <2>4
<1>7. CASE IoDropMessage /\ Head(wire).op # "event"
  <2>1. /\ wire # <<>> /\ wire' = Tail(wire) /\ requests' = requests
        /\ completions' = Append(completions, Lost(Head(wire)))
    BY <1>7 DEF IoDropMessage, queue_completion
  <2>2. Head(wire) \in Reply
    BY <1>1, <1>7, <2>1, First
  <2>3. Lost(Head(wire)) \in Reply
    BY <2>2 DEF Lost, Reply, Rc
  <2>4. Takes(wire, wire', Head(wire), w)
    BY <1>4, <2>1, TakeAt
  <2> QED
    BY <1>3, <1>5, <1>7, <2>1, <2>3, <2>4
<1>8. CASE IoDropMessage /\ Head(wire).op = "event"
  <2>1. wire # <<>> /\ wire' = Tail(wire) /\ UNCHANGED <<requests, completions>>
    BY <1>8 DEF IoDropMessage
  <2>2. Takes(wire, wire', Head(wire), w)
    BY <1>4, <2>1, TakeAt
  <2>3. (Removing(w)' => Removing(w)) /\ (Carried(w)' => Carried(w)) /\ Removal(w)' = Removal(w)
    BY <1>2, <2>1, <2>2 DEF Takes, Ops, Removing, Carried, Requested, Answered, Fired, Armed, client,
      Removal
  <2> QED
    BY <1>1, <1>2, <1>3, <2>3, GoneFrame
<1> QED
  BY <1>6, <1>7, <1>8

\* The connection goes and comes back: SetWatches repeats what the tables hold.
LEMMA EndConnection ==
    ASSUME EndInv, NEW w \in Watch, Alone(w), IoCleanupDone \/ Reconnect \/ Disconnect
    PROVE  Backed(w)' /\ Gone(w)'
<1>1. Gone(w) /\ Single(w)
  BY DEF EndInv, ValueInv, ChainInv, Chain
<1>2. UNCHANGED <<requests, wire, client, completions, call, removed>>
  BY DEF IoCleanupDone, Reconnect, Disconnect, user
<1>3. Gone(w)'
  BY <1>1, <1>2 DEF Gone, Carried, Requested, Answered, Fired, Armed, client, Removal
<1>4. CASE IoCleanupDone \/ Disconnect
  BY <1>3, <1>4 DEF IoCleanupDone, Disconnect, Backed
<1>5. CASE Reconnect
  <2>1. wire' = <<>> /\ srvWatch' = {}
    BY <1>5 DEF Reconnect, EndInv, CoverInv, OfflineForgets
  <2>2. EndsIn(wire', PathOf[w]) = {}
    BY <2>1 DEF EndsIn
  <2>3. OneEnd(wire', PathOf[w]) /\ EndsLast(wire', PathOf[w], w)
    BY <2>2 DEF OneEnd, EndsLast
  <2>4. /\ <<"data", PathOf[w]>> \in resync' => w \in node_watchers
        /\ <<"exist", PathOf[w]>> \in resync' => w \in exist_watchers
    <3>1. node_watchers \subseteq Watch /\ exist_watchers \subseteq Watch
      BY DEF EndInv, ValueInv, ChainInv, TypeOK
    <3>2. resync' = {<<"data", PathOf[v]>> : v \in node_watchers}
                      \cup {<<"exist", PathOf[v]>> : v \in exist_watchers}
      BY <1>5 DEF Reconnect
    <3> QED
      BY <3>1, <3>2, EndsAlone
  <2> QED
    BY <1>2, <1>3, <2>1, <2>2, <2>3, <2>4 DEF Backed, Resyncs, client
<1> QED
  BY <1>4, <1>5


\* Steps of the completion thread and of users leave the server, the wire and
\* the tables alone.
LEMMA BackedFrame ==
    ASSUME NEW w, Backed(w), UNCHANGED <<conn, srvWatch, resync, wire, client>>
    PROVE  Backed(w)'
  BY DEF Backed, Resyncs, Armed, Answered, client

\* wfn of watch v: its event is exchanged for an exists.
LEMMA EndWatcher ==
    ASSUME EndInv, NEW w \in Watch, Alone(w), NEW v \in Watch, RunWatcher(v)
    PROVE  Backed(w)' /\ Gone(w)'
<1> DEFINE r == [op |-> "exists", w |-> v]
<1>1. Backed(w) /\ Gone(w) /\ TypeOK
  BY DEF EndInv, ValueInv, ChainInv
<1>2. /\ completions # <<>> /\ Head(completions).op = "event" /\ v \in Head(completions).ws
      /\ completions' = [completions EXCEPT ![1].ws = @ \ {v}]
      /\ requests' = Append(requests, r)
      /\ UNCHANGED <<conn, srvWatch, resync, wire, client, call, removed>>
  BY DEF RunWatcher, Completes, Submit, server, user
<1>3. r \in Request /\ requests \in Seq(Request) /\ completions \in Seq(Reply \cup FiredEvent)
  BY <1>1 DEF Request, TypeOK
<1>4. Head(completions) \in FiredEvent
  BY <1>1, <1>2, First
<1>5. Delivers(completions, completions', v, w) /\ Opened(completions, completions')
  <2>1. Delivers(completions, completions', v, w)
    BY <1>2, <1>3, <1>4, DeliverAt
  <2>2. Opened(completions, completions')
    BY <1>2, <1>3, <1>4, DeliverHead
  <2> QED
    BY <2>1, <2>2
<1>6. In(completions', "remove", w) = In(completions, "remove", w)
  <2>1. At(completions', "remove", w) = At(completions, "remove", w)
    BY <1>5 DEF Opened, At, Match
  <2>2. \A i \in At(completions, "remove", w) : completions'[i] = completions[i]
    BY <1>5 DEF Opened, At, Match
  <2> QED
    BY <2>1, <2>2 DEF In
<1>7. (Fired(w)' => Fired(w)) /\ (v = w => Fired(w))
  BY <1>5 DEF Delivers, Fired, None
<1>8. Puts(requests, requests', r, w)
  BY <1>2, <1>3, PutAt
<1>9. (Match(r, "exists", w) <=> v = w) /\ ~Match(r, "remove", w)
  BY DEF Match
<1> HIDE DEF r
<1>10. /\ Requested(w)' => Requested(w) \/ v = w
       /\ None(requests', "remove", w) <=> None(requests, "remove", w)
  BY <1>8, <1>9 DEF Puts, Ops, Requested
<1>11. Carried(w)' => Carried(w)
  BY <1>2, <1>7, <1>10 DEF Carried, Answered, Armed, client
<1>12. (Removing(w)' => Removing(w)) /\ Removal(w)' = Removal(w)
  BY <1>2, <1>6, <1>10, NoneIn DEF Removing, Removal
<1>13. Gone(w)'
  BY <1>1, <1>2, <1>11, <1>12, GoneFrame
<1> QED
  BY <1>1, <1>2, <1>13, BackedFrame

\* A completion is taken from the queue; the one of a successful remove says
\* that the watch is gone.
LEMMA EndTake ==
    ASSUME EndInv, NEW w \in Watch, Alone(w), WatchersDone \/ RunExists \/ RunGet \/ RunRemove
    PROVE  Backed(w)' /\ Gone(w)'
<1> DEFINE c == Head(completions)
           r == [op |-> "get", w |-> c.w]
<1>1. Backed(w) /\ Gone(w) /\ TypeOK
  BY DEF EndInv, ValueInv, ChainInv
<1>2. /\ completions # <<>> /\ completions' = Tail(completions)
      /\ UNCHANGED <<conn, srvWatch, resync, wire, client, call>>
      /\ requests' = requests \/ (c.op = "exists" /\ requests' = Append(requests, r))
      /\ removed' = removed \/ (c.op = "remove" /\ removed' = removed \cup RemovedNow(c))
  BY DEF WatchersDone, RunExists, RunGet, RunRemove, Completes, Submit, server, user
<1>3. requests \in Seq(Request) /\ completions \in Seq(Reply \cup FiredEvent)
  BY <1>1 DEF TypeOK
<1>4. Takes(completions, completions', c, w) /\ Gains(completions', completions, c, w)
  BY <1>2, <1>3, TakeAt, TakeIn
<1>5. c.op = "exists" \/ c.op = "remove" => c \in Reply
  BY <1>1, <1>2, First
<1> HIDE DEF c
<1>6. /\ Requested(w)' <=> Requested(w)
      /\ None(requests', "remove", w) <=> None(requests, "remove", w)
  <2>1. CASE requests' = requests
    BY <2>1 DEF Requested
  <2>2. CASE c.op = "exists" /\ requests' = Append(requests, r)
    <3>1. r \in Request
      BY <1>5, <2>2 DEF Request, Reply
    <3>2. Puts(requests, requests', r, w)
      BY <1>3, <2>2, <3>1, PutAt
    <3>3. ~Match(r, "exists", w) /\ ~Match(r, "remove", w)
      BY DEF Match
    <3> QED
      BY <3>2, <3>3 DEF Puts, Ops, Requested
  <2> QED
    BY <1>2, <2>1, <2>2
<1>7. /\ Removing(w)' => Removing(w)
      /\ Carried(w)' => Carried(w)
      /\ Removal(w)' \subseteq Removal(w)
  BY <1>2, <1>4, <1>6 DEF Takes, Gains, Ops, Removing, Carried, Answered, Fired, Armed, client, Removal
<1>8. PathOf[w] \in removed' => PathOf[w] \in removed \/ Removal(w) # {}
  <2>1. ASSUME c.op = "remove", PathOf[w] \in RemovedNow(c) PROVE c \in Removal(w)
    <3>1. c.w = w /\ c.rc = "ZOK"
      BY <1>5, <2>1, EndsAlone DEF RemovedNow, Reply
    <3> QED
      BY <1>4, <2>1, <3>1 DEF Gains, Match, Removal
  <2> QED
    BY <1>2, <2>1
<1>9. Gone(w)'
  BY <1>1, <1>2, <1>7, <1>8 DEF Gone, Removing
<1> QED
  BY <1>1, <1>2, <1>9, BackedFrame

\* The user's calls: a watch starts once, and only a started one is removed.
LEMMA EndUser ==
    ASSUME EndInv, NEW w \in Watch, Alone(w), NEW v \in Watch,
           WatchRecord(v) \/ WatchSend(v) \/ RemoveWatches(v)
    PROVE  Backed(w)' /\ Gone(w)'
<1>1. Backed(w) /\ Gone(w) /\ Chain(w) /\ TypeOK
  BY DEF EndInv, ValueInv, ChainInv
<1>2. UNCHANGED <<conn, srvWatch, resync, wire, client, completions>>
  BY DEF WatchRecord, WatchSend, RemoveWatches, server
<1>3. Backed(w)'
  BY <1>1, <1>2, BackedFrame
<1>4. CASE WatchRecord(v)
  <2>1. /\ UNCHANGED requests /\ removed' \subseteq removed
        /\ call[w] = "watching" => call'[w] = "watching"
    BY <1>1, <1>4 DEF WatchRecord, TypeOK
  <2>2. (Removing(w)' => Removing(w)) /\ (Carried(w)' => Carried(w)) /\ Removal(w)' = Removal(w)
    BY <1>2, <2>1 DEF Removing, Carried, Requested, Answered, Fired, Armed, client, Removal
  <2> QED
    BY <1>1, <1>3, <2>1, <2>2, GoneFrame
<1>5. CASE WatchSend(v) \/ RemoveWatches(v)
  <2>1. PICK o \in {"exists", "remove"} :
          /\ requests' = Append(requests, [op |-> o, w |-> v])
          /\ o = "exists" => call[v] = "recorded"
          /\ o = "remove" => call[v] = "watching"
          /\ call[w] = "watching" => call'[w] = "watching"
          /\ UNCHANGED removed
    BY <1>1, <1>5 DEF WatchSend, RemoveWatches, Submit, user, TypeOK
  <2> DEFINE r == [op |-> o, w |-> v]
  <2>2. r \in Request /\ requests \in Seq(Request)
    BY <1>1 DEF Request, TypeOK
  <2>3. Puts(requests, requests', r, w)
    BY <2>1, <2>2, PutAt
  <2>4. /\ Match(r, "exists", w) => v = w /\ o = "exists"
        /\ Match(r, "remove", w) => v = w /\ o = "remove"
    BY DEF Match
  <2> HIDE DEF r
  <2>5. /\ Requested(w)' => Requested(w) \/ call[w] = "recorded"
        /\ ~None(requests', "remove", w) => ~None(requests, "remove", w) \/ call[w] = "watching"
    BY <2>1, <2>3, <2>4 DEF Puts, Ops, Requested
  <2>6. Carried(w)' => Carried(w) \/ call[w] = "recorded"
    BY <1>2, <2>5 DEF Carried, Answered, Fired, Armed, client
  <2> QED
    BY <1>1, <1>2, <1>3, <2>1, <2>5, <2>6 DEF Gone, Removal
<1> QED
  BY <1>4, <1>5

\* Every step keeps the only watch of a path backed, and a removed one gone.
LEMMA EndStep == EndInv /\ [Next]_vars => EndInv'
<1> SUFFICES ASSUME EndInv, [Next]_vars PROVE EndInv'
  OBVIOUS
<1>1. ValueInv' /\ CoverInv'
  BY ValuesStep, CoverStep DEF EndInv
<1> SUFFICES ASSUME NEW w \in Watch, Alone(w) PROVE Backed(w)' /\ Gone(w)'
  BY <1>1 DEF EndInv, Alone, WatchersOn
<1>2. CASE OtherClients
  BY <1>2, EndOthers DEF OtherClients
<1>3. CASE ServerStep
  BY <1>3, EndResync, EndServer DEF ServerStep
<1>4. CASE IoStep \/ Disconnect
  BY <1>4, EndReply, EndEvent, EndLoss, EndConnection DEF IoStep
<1>5. CASE CompletionStep
  BY <1>5, EndWatcher, EndTake DEF CompletionStep
<1>6. ASSUME NEW v \in Watch, WatchRecord(v) \/ WatchSend(v) \/ RemoveWatches(v)
      PROVE  Backed(w)' /\ Gone(w)'
  BY <1>6, EndUser
<1>7. CASE UNCHANGED vars
  <2>1. UNCHANGED <<conn, srvWatch, resync, wire, client, completions, requests, call, removed>>
    BY <1>7 DEF vars, server, user
  <2> QED
    BY <2>1 DEF EndInv, Backed, Gone, Resyncs, Carried, Requested, Answered, Fired, Armed, client, Removal
<1> QED
  BY <1>2, <1>3, <1>4, <1>5, <1>6, <1>7 DEF Next

\* Where the carriers of a watch are.
LEMMA CarriedBy == ASSUME NEW w PROVE Carried(w) <=> Carriers(w) # {}
<1>1. Carriers(w) # {} =>
         \/ At(requests, "exists", w) # {} \/ At(wire, "exists", w) # {}
         \/ w \in Armed \/ At(completions, "event", w) # {}
  BY DEF Carriers, At, Match, Armed
<1>2. ASSUME NEW i \in At(requests, "exists", w) PROVE <<"requested", i>> \in Carriers(w)
  BY DEF Carriers, At, Match
<1>3. ASSUME NEW i \in At(wire, "exists", w) PROVE <<"answered", i>> \in Carriers(w)
  BY DEF Carriers, At, Match
<1>4. ASSUME NEW i \in At(completions, "event", w) PROVE <<"fired", i>> \in Carriers(w)
  BY DEF Carriers, At, Match
<1>5. w \in node_watchers => <<"node", 0>> \in Carriers(w)
  BY DEF Carriers
<1>6. w \in exist_watchers => <<"exist", 0>> \in Carriers(w)
  BY DEF Carriers
<1> QED
  BY <1>1, <1>2, <1>3, <1>4, <1>5, <1>6 DEF Carried, Requested, Answered, Fired, Armed, None

\* The end of a watch is in order at first.
LEMMA EndInit == Init => EndInv
<1> SUFFICES ASSUME Init PROVE EndInv
  OBVIOUS
<1>1. ValueInv /\ CoverInv
  BY ValuesInit, CoverInit
<1>2. ASSUME NEW w \in Watch PROVE Backed(w) /\ Gone(w)
  <2>1. \A o : None(requests, o, w) /\ None(wire, o, w) /\ None(completions, o, w)
    BY EmptyAt DEF Init
  <2>2. Removal(w) = {} /\ EndsIn(wire, PathOf[w]) = {}
    BY <2>1, NoneIn DEF Removal, EndsIn, Init
  <2>3. srvWatch = {} /\ resync = {} /\ removed = {}
    BY DEF Init
  <2> QED
    BY <2>1, <2>2, <2>3 DEF Backed, Gone, Resyncs, OneEnd, EndsLast
<1> QED
  BY <1>1, <1>2 DEF EndInv

\* A removal that is reported successful ends the chain of the only watch on
\* its path, in every reachable state: no request, watcher table or queued
\* event starts it again (async_remove_watches, config_monitor.hpp:364).
THEOREM RemoveEnds == Spec => []RemoveEndsChain
<1>1. EndInv => RemoveEndsChain
  <2> SUFFICES ASSUME EndInv, NEW w \in Watch, PathOf[w] \in removed, Alone(w)
               PROVE  Carriers(w) = {}
    BY DEF RemoveEndsChain, Alone
  <2>1. ~Carried(w)
    BY DEF EndInv, Gone
  <2> QED
    BY <2>1, CarriedBy
<1> QED
  BY <1>1, EndInit, EndStep, PTL DEF Spec


-----------------------------------------------------------------------------
(***************************************************************************)
(* The chain goes on while nobody removes the watch.                       *)
(***************************************************************************)
NoRemove(q) == \A i \in DOMAIN q : q[i].op # "remove"

AliveInv ==
    /\ ValueInv /\ CalmInv
    /\ NoRemove(requests) /\ NoRemove(wire)
    /\ \A w \in Watch : Watching(w) => Carried(w)

\* A queue without removals keeps without them.
LEMMA RemoveFree ==
    ASSUME NEW S, NEW q \in Seq(S), NoRemove(q)
    PROVE  /\ \A e \in S : e.op # "remove" => NoRemove(Append(q, e))
           /\ q # <<>> => NoRemove(Tail(q)) /\ Head(q).op # "remove"
<1>1. ASSUME NEW e \in S, e.op # "remove" PROVE NoRemove(Append(q, e))
  BY <1>1, PutLast DEF NoRemove
<1>2. ASSUME q # <<>> PROVE NoRemove(Tail(q)) /\ Head(q).op # "remove"
  <2>1. /\ Head(q) = q[1] /\ 1 \in DOMAIN q
        /\ \A i \in DOMAIN Tail(q) : i + 1 \in DOMAIN q /\ Tail(q)[i] = q[i + 1]
    BY <1>2, TakeHead
  <2> QED
    BY <2>1 DEF NoRemove
<1> QED
  BY <1>1, <1>2

\* The server's steps hand the chain on.
LEMMA AliveServer ==
    ASSUME AliveInv, ServerStep, NEW w \in Watch, Watching(w)
    PROVE  Carried(w)'
<1> DEFINE r == Head(requests)
<1>1. Carried(w) /\ TypeOK
  BY DEF AliveInv, ValueInv, ChainInv
<1>2. /\ requests # <<>> /\ requests' = Tail(requests) /\ UNCHANGED <<client, completions>>
      /\ r.op \in {"exists", "get", "remove"}
      /\ \E rc \in Rc : \E val \in {0, node[PathOf[r.w]]} : wire' = Append(wire, Answer(r, rc, val))
  BY DEF ServerStep, SrvSetWatch, SrvExists, SrvGet, SrvRemoveWatches, SrvHandles, AliveInv, CalmInv, Rc
<1>3. r \in Request
  BY <1>1, <1>2, First
<1>4. node[PathOf[r.w]] \in Nat
  BY <1>1, <1>3, PathOfAssumption DEF Request, TypeOK
<1>5. PICK rc \in Rc, val \in Nat : wire' = Append(wire, Answer(r, rc, val))
  BY <1>2, <1>4
<1> DEFINE m == Answer(r, rc, val)
<1>6. m \in Reply /\ m.op = r.op /\ m.w = r.w
  BY <1>1, <1>3 DEF Answer, Reply, Request, TypeOK
<1>7. requests \in Seq(Request) /\ wire \in Seq(Reply \cup WatcherEvent)
  BY <1>1 DEF TypeOK
<1> HIDE DEF m, r
<1>8. Takes(requests, requests', r, w) /\ Puts(wire, wire', m, w)
  BY <1>2, <1>5, <1>6, <1>7, TakeAt, PutAt DEF m, r
<1>9. Match(m, "exists", w) <=> Match(r, "exists", w)
  BY <1>6 DEF Match
<1> QED
  BY <1>1, <1>2, <1>8, <1>9 DEF Takes, Puts, Ops, Carried, Requested, Answered, Fired, Armed, client

\* The IO thread hands the chain on: an answered exists arms the watch, an
\* event takes it from the table to the queue.
LEMMA AliveIo ==
    ASSUME AliveInv, IoReply \/ IoEvent, NEW w \in Watch, Watching(w)
    PROVE  Carried(w)'
<1> DEFINE m == Head(wire)
           fired == (node_watchers \cup exist_watchers) \cap WatchersOn(m.p)
<1>1. Carried(w) /\ LostEnds(w) /\ TypeOK
  BY DEF AliveInv, ValueInv, Values, ChainInv
<1>2. wire # <<>> /\ wire' = Tail(wire) /\ requests' = requests
  BY DEF IoReply, IoEvent
<1>3. wire \in Seq(Reply \cup WatcherEvent) /\ completions \in Seq(Reply \cup FiredEvent)
  BY <1>1 DEF TypeOK
<1>4. /\ Takes(wire, wire', m, w) /\ Gains(wire', wire, m, w)
      /\ m.op # "remove"
  BY <1>2, <1>3, TakeAt, TakeIn, RemoveFree DEF AliveInv
<1>5. CASE IoReply
  <2>1. /\ m.op # "event" /\ completions' = Append(completions, m)
        /\ node_watchers' = (node_watchers \cup ActivateNode(m)) \ Deactivate(m)
        /\ exist_watchers' = (exist_watchers \cup ActivateExist(m)) \ Deactivate(m)
    BY <1>5 DEF IoReply, queue_completion
  <2>2. m \in Reply
    BY <1>1, <1>2, <2>1, First
  <2>3. Deactivate(m) = {}
    BY <1>4 DEF Deactivate
  <2>4. Match(m, "exists", w) => w \in ActivateNode(m) \cup ActivateExist(m)
    <3>1. Match(m, "exists", w) => m.rc \in {"ZOK", "ZNONODE"}
      BY <1>1, <1>4 DEF Gains, LostEnds
    <3> QED
      BY <3>1 DEF Match, ActivateNode, ActivateExist
  <2>5. Puts(completions, completions', m, w)
    BY <1>3, <2>1, <2>2, PutAt
  <2> HIDE DEF m
  <2>6. /\ w \in Armed \/ Match(m, "exists", w) => w \in Armed'
        /\ Fired(w) => Fired(w)'
        /\ Answered(w) => Answered(w)' \/ Match(m, "exists", w)
    BY <1>4, <2>1, <2>3, <2>4, <2>5 DEF Armed, Fired, Answered, Takes, Puts, Ops
  <2> QED
    BY <1>1, <1>2, <1>4, <2>6 DEF Carried, Requested
<1>6. CASE IoEvent
  <2> DEFINE c == [op |-> "event", ws |-> fired, type |-> m.type]
  <2>1. /\ m.op = "event" /\ completions' = Append(completions, c)
        /\ node_watchers' = node_watchers \ fired
        /\ exist_watchers' = exist_watchers \ fired
    BY <1>6 DEF IoEvent, queue_completion
  <2>2. c \in FiredEvent
    BY <1>1, <1>2, <2>1, First DEF FiredEvent, WatcherEvent, TypeOK
  <2>3. (Match(c, "event", w) <=> w \in fired) /\ ~Match(m, "exists", w)
    BY <2>1 DEF Match
  <2> HIDE DEF c, m, fired
  <2>4. Puts(completions, completions', c, w)
    BY <1>3, <2>1, <2>2, PutAt
  <2>5. /\ w \in Armed => w \in Armed' \/ w \in fired
        /\ Fired(w) \/ w \in fired => Fired(w)'
        /\ Answered(w) => Answered(w)'
    BY <1>4, <2>1, <2>3, <2>4 DEF Armed, Fired, Answered, Takes, Puts, Ops
  <2> QED
    BY <1>1, <1>2, <1>4, <2>5 DEF Carried, Requested
<1> QED
  BY <1>5, <1>6

\* The completion thread hands the chain on: a delivered event becomes an
\* exists, an event is dropped when it has been delivered to all.
LEMMA AliveCompletion ==
    ASSUME AliveInv, CompletionStep, NEW w \in Watch, Watching(w)
    PROVE  Carried(w)'
<1> DEFINE c == Head(completions)
<1>1. Carried(w) /\ Single(w) /\ TypeOK
  BY DEF AliveInv, ValueInv, ChainInv, Chain
<1>2. requests \in Seq(Request) /\ completions \in Seq(Reply \cup FiredEvent)
  BY <1>1 DEF TypeOK
<1>3. completions # <<>> /\ UNCHANGED <<wire, client>>
  BY DEF CompletionStep, RunWatcher, WatchersDone, RunExists, RunGet, RunRemove, Completes
<1>4. ASSUME NEW v \in Watch, RunWatcher(v) PROVE Carried(w)'
  <2> DEFINE r == [op |-> "exists", w |-> v]
  <2>1. /\ c.op = "event" /\ v \in c.ws /\ completions' = [completions EXCEPT ![1].ws = @ \ {v}]
        /\ requests' = Append(requests, r)
    BY <1>4 DEF RunWatcher, Completes, Submit
  <2>2. r \in Request
    BY DEF Request
  <2>3. c \in FiredEvent
    BY <1>1, <1>3, <2>1, First
  <2>4. Match(r, "exists", w) <=> v = w
    BY DEF Match
  <2> HIDE DEF r
  <2>5. Puts(requests, requests', r, w)
    BY <1>2, <2>1, <2>2, PutAt
  <2>6. Opened(completions, completions')
    BY <1>2, <1>3, <2>1, <2>3, DeliverHead
  <2>7. v # w /\ Fired(w) => Fired(w)'
    <3>1. ASSUME v # w, NEW i \in At(completions, "event", w) PROVE i \in At(completions', "event", w)
      <4>1. i \in DOMAIN completions /\ Match(completions[i], "event", w)
        BY <3>1 DEF At
      <4>2. CASE i # 1
        BY <4>1, <4>2, <2>6 DEF Opened, At
      <4>3. CASE i = 1
        <5>1. c = completions[1]
          BY <1>2, <1>3, TakeHead
        <5>2. completions'[1].ws = completions[1].ws \ {v}
          BY <2>1, <2>3, <4>1, <4>3, <5>1 DEF FiredEvent
        <5> QED
          BY <2>6, <3>1, <4>1, <4>3, <5>2 DEF Opened, At, Match
      <4> QED
        BY <4>2, <4>3
    <3> QED
      BY <3>1 DEF Fired, None
  <2>8. Requested(w) \/ v = w => Requested(w)'
    BY <2>4, <2>5 DEF Puts, Ops, Requested
  <2> QED
    BY <1>1, <1>3, <2>5, <2>7, <2>8 DEF Carried, Answered, Armed, client
<1>5. CASE WatchersDone \/ RunExists \/ RunGet \/ RunRemove
  <2> DEFINE r == [op |-> "get", w |-> c.w]
  <2>1. /\ completions' = Tail(completions)
        /\ requests' = requests \/ (c.op = "exists" /\ requests' = Append(requests, r))
        /\ c.op = "event" => c.ws = {}
    BY <1>5 DEF WatchersDone, RunExists, RunGet, RunRemove, Completes, Submit
  <2>2. Takes(completions, completions', c, w) /\ ~Match(c, "event", w)
    BY <1>2, <1>3, <2>1, TakeAt DEF Match
  <2>3. c.op = "exists" => r \in Request
    BY <1>1, <1>3, First DEF Reply, Request
  <2> HIDE DEF c
  <2>4. Requested(w) => Requested(w)'
    <3>1. CASE requests' = requests
      BY <3>1 DEF Requested
    <3>2. CASE c.op = "exists" /\ requests' = Append(requests, r)
      <4> HIDE DEF r
      <4>1. Puts(requests, requests', r, w)
        BY <1>2, <2>3, <3>2, PutAt
      <4> QED
        BY <4>1 DEF Puts, Ops, Requested
    <3> QED
      BY <2>1, <3>1, <3>2
  <2>5. Fired(w) => Fired(w)'
    BY <2>2 DEF Takes, Ops, Fired
  <2> QED
    BY <1>1, <1>3, <2>4, <2>5 DEF Carried, Answered, Armed, client
<1> QED
  BY <1>4, <1>5 DEF CompletionStep


\* Nobody asks for a removal where none is allowed.
LEMMA RemoveFreeStep ==
    ASSUME TypeOK, NoRemove(requests), NoRemove(wire), "remove" \notin Allowed, [Next]_vars
    PROVE  NoRemove(requests)' /\ NoRemove(wire)'
<1>1. /\ requests \in Seq(Request) /\ wire \in Seq(Reply \cup WatcherEvent)
      /\ completions \in Seq(Reply \cup FiredEvent)
  BY DEF TypeOK
<1>2. ASSUME NEW e \in WatcherEvent, wire' \in {wire, Append(wire, e)}, UNCHANGED requests
      PROVE  NoRemove(requests)' /\ NoRemove(wire)'
  <2>1. e.op # "remove"
    BY DEF WatcherEvent
  <2> QED
    BY <1>1, <1>2, <2>1, RemoveFree
<1>3. ASSUME NEW p \in Path, SrvWrite(p) \/ SrvDelete(p) PROVE NoRemove(requests)' /\ NoRemove(wire)'
  <2>1. PICK type \in EventType :
           wire' \in {wire, Append(wire, [op |-> "event", p |-> p, type |-> type])}
    BY <1>3 DEF SrvWrite, SrvDelete, Trigger, EventType
  <2>2. [op |-> "event", p |-> p, type |-> type] \in WatcherEvent
    BY DEF WatcherEvent
  <2> QED
    BY <1>2, <1>3, <2>1, <2>2 DEF SrvWrite, SrvDelete
<1>4. ASSUME NEW entry \in SetWatchesEntry, SrvSetWatch(entry)
      PROVE  NoRemove(requests)' /\ NoRemove(wire)'
  <2>1. PICK type \in EventType :
           wire' \in {wire, Append(wire, [op |-> "event", p |-> entry[2], type |-> type])}
    BY <1>4 DEF SrvSetWatch, EventType
  <2>2. [op |-> "event", p |-> entry[2], type |-> type] \in WatcherEvent
    BY DEF WatcherEvent, SetWatchesEntry
  <2> QED
    BY <1>2, <1>4, <2>1, <2>2 DEF SrvSetWatch
<1>5. CASE SrvExists \/ SrvGet \/ SrvRemoveWatches
  <2> DEFINE r == Head(requests)
  <2>1. requests # <<>> /\ requests' = Tail(requests)
    BY <1>5 DEF SrvExists, SrvGet, SrvRemoveWatches, SrvHandles
  <2>2. r \in Request /\ node[PathOf[r.w]] \in Nat
    BY <2>1, First, PathOfAssumption DEF Request, TypeOK
  <2>3. PICK rc \in Rc, val \in Nat : wire' = Append(wire, Answer(r, rc, val))
    BY <1>5, <2>2 DEF SrvExists, SrvGet, SrvRemoveWatches, SrvHandles, Rc
  <2>4. Answer(r, rc, val) \in Reply /\ Answer(r, rc, val).op = r.op
    BY <2>2 DEF Answer, Reply, Request, TypeOK
  <2>5. NoRemove(requests)' /\ r.op # "remove"
    BY <1>1, <2>1, RemoveFree
  <2> QED
    BY <1>1, <2>3, <2>4, <2>5, RemoveFree
<1>6. CASE IoEvent \/ IoReply \/ IoDropMessage \/ IoFailRequest
  <2>1. /\ wire' = wire \/ (wire # <<>> /\ wire' = Tail(wire))
        /\ requests' = requests \/ (requests # <<>> /\ requests' = Tail(requests))
    BY <1>6 DEF IoEvent, IoReply, IoDropMessage, IoFailRequest
  <2> QED
    BY <1>1, <2>1, RemoveFree
<1>7. ASSUME NEW o \in {"exists", "get"}, NEW v \in Watch, Submit(o, v), UNCHANGED wire
      PROVE  NoRemove(requests)' /\ NoRemove(wire)'
  <2>1. [op |-> o, w |-> v] \in Request /\ [op |-> o, w |-> v].op # "remove"
    BY DEF Request
  <2>2. requests' = Append(requests, [op |-> o, w |-> v])
    BY <1>7 DEF Submit
  <2>3. NoRemove(Append(requests, [op |-> o, w |-> v]))
    BY <1>1, <2>1, RemoveFree
  <2> QED
    BY <1>7, <2>2, <2>3
<1>8. CASE RunExists
  <2>1. completions # <<>> /\ Head(completions).op = "exists" /\ UNCHANGED wire
    BY <1>8 DEF RunExists, Completes
  <2>2. Head(completions).w \in Watch
    BY <2>1, First DEF Reply
  <2>3. requests' = requests \/ Submit("get", Head(completions).w)
    BY <1>8 DEF RunExists
  <2> QED
    BY <1>7, <2>1, <2>2, <2>3
<1>9. ASSUME NEW v \in Watch, RunWatcher(v) \/ WatchSend(v)
      PROVE  NoRemove(requests)' /\ NoRemove(wire)'
  BY <1>7, <1>9 DEF RunWatcher, WatchSend
<1>10. CASE UNCHANGED <<requests, wire>>
  BY <1>10
<1> QED
  BY <1>3, <1>4, <1>5, <1>6, <1>8, <1>9, <1>10 DEF Next, OtherClients, ServerStep, IoStep, IoCleanupDone,
    Reconnect, Disconnect, CompletionStep, WatchersDone, RunGet, RunRemove, WatchRecord, RemoveWatches, vars

\* Every step hands the chain on.
LEMMA AliveStep ==
    ASSUME AliveInv, [Next]_vars, "loss" \notin Allowed, "remove" \notin Allowed
    PROVE  AliveInv'
<1>0. TypeOK /\ ValueInv /\ CalmInv /\ NoRemove(requests) /\ NoRemove(wire)
  BY DEF AliveInv, ValueInv, ChainInv
<1>1. ValueInv' /\ CalmInv' /\ NoRemove(requests)' /\ NoRemove(wire)'
  BY <1>0, ValuesStep, CalmStep, RemoveFreeStep
<1> SUFFICES ASSUME NEW w \in Watch, Watching(w)' PROVE Carried(w)'
  BY <1>1 DEF AliveInv
<1>2. CASE ~Watching(w)
  <2>1. PICK v \in Watch : WatchRecord(v) \/ WatchSend(v)
    BY <1>2 DEF Watching, Next, OtherClients, SrvWrite, SrvDelete, ServerStep, SrvSetWatch, SrvExists,
      SrvGet, SrvRemoveWatches, SrvHandles, IoStep, IoEvent, IoReply, IoDropMessage, IoFailRequest,
      IoCleanupDone, Reconnect, Disconnect, CompletionStep, RunWatcher, WatchersDone, RunExists, RunGet,
      RunRemove, RemoveWatches, vars, user
  <2>2. WatchSend(w)
    BY <1>0, <1>2, <2>1 DEF Watching, WatchRecord, WatchSend, TypeOK
  <2> DEFINE r == [op |-> "exists", w |-> w]
  <2>3. requests' = Append(requests, r) /\ r \in Request /\ requests \in Seq(Request) /\ Match(r, "exists", w)
    BY <1>0, <2>2 DEF WatchSend, Submit, Request, Match, TypeOK
  <2> HIDE DEF r
  <2>4. Puts(requests, requests', r, w)
    BY <2>3, PutAt
  <2> QED
    BY <2>3, <2>4 DEF Puts, Ops, Carried, Requested
<1>3. CASE Watching(w)
  <2>1. Carried(w)
    BY <1>3 DEF AliveInv
  <2>2. CASE ServerStep
    BY <1>3, <2>2, AliveServer
  <2>3. CASE IoReply \/ IoEvent
    BY <1>3, <2>3, AliveIo
  <2>4. CASE CompletionStep
    BY <1>3, <2>4, AliveCompletion
  <2>5. CASE OtherClients
    <3>1. /\ UNCHANGED <<requests, client, completions>>
          /\ \E e \in WatcherEvent : wire' \in {wire, Append(wire, e)}
      <4>1. ASSUME NEW p \in Path, NEW type \in EventType
            PROVE  [op |-> "event", p |-> p, type |-> type] \in WatcherEvent
        BY DEF WatcherEvent
      <4>2. ASSUME NEW p \in Path, SrvWrite(p) \/ SrvDelete(p)
            PROVE  \E type \in EventType :
                     wire' \in {wire, Append(wire, [op |-> "event", p |-> p, type |-> type])}
        BY <4>2 DEF SrvWrite, SrvDelete, Trigger, EventType
      <4> QED
        BY <2>5, <4>1, <4>2 DEF OtherClients, SrvWrite, SrvDelete
    <3>2. Answered(w) => Answered(w)'
      <4>1. ASSUME NEW e \in WatcherEvent
            PROVE  None(Append(wire, e), "exists", w) => None(wire, "exists", w)
        <5>0. wire \in Seq(Reply \cup WatcherEvent) /\ e \in Reply \cup WatcherEvent
          BY <1>0 DEF TypeOK
        <5>1. Puts(wire, Append(wire, e), e, w)
          BY <5>0, PutAt
        <5> QED
          BY <5>1 DEF Puts, Ops
      <4> QED
        BY <3>1, <4>1 DEF Answered
    <3> QED
      BY <2>1, <3>1, <3>2 DEF Carried, Requested, Fired, Armed, client
  <2>6. ASSUME NEW v \in Watch, WatchSend(v) PROVE Carried(w)'
    <3> DEFINE r == [op |-> "exists", w |-> v]
    <3>1. /\ requests' = Append(requests, r) /\ UNCHANGED <<wire, client, completions>>
          /\ r \in Request /\ requests \in Seq(Request)
      BY <1>0, <2>6 DEF WatchSend, Submit, Request, TypeOK
    <3> HIDE DEF r
    <3>2. Puts(requests, requests', r, w)
      BY <3>1, PutAt
    <3>3. Requested(w) => Requested(w)'
      BY <3>2 DEF Puts, Ops, Requested
    <3> QED
      BY <2>1, <3>1, <3>3 DEF Carried, Answered, Fired, Armed, client
  <2>7. CASE UNCHANGED <<requests, wire, client, completions>>
    BY <2>1, <2>7 DEF Carried, Requested, Answered, Fired, Armed, client
  <2> QED
    BY <1>0, <2>2, <2>3, <2>4, <2>5, <2>6, <2>7 DEF CalmInv, Next, IoStep, IoDropMessage, IoFailRequest,
      IoCleanupDone, Reconnect, Disconnect, WatchRecord, RemoveWatches, vars
<1> QED
  BY <1>2, <1>3

\* "It will set the next watch point automatically" (config_monitor.hpp:239):
\* while the connection lasts and nobody removes it, a watch that was sent is
\* always somewhere, so the next change of its path is noticed.
THEOREM ChainGoesOn ==
    ASSUME "loss" \notin Allowed, "remove" \notin Allowed
    PROVE  Spec => []ChainAlive
<1>1. Init => AliveInv
  BY ValuesInit, CalmInit DEF Init, AliveInv, NoRemove, Watching
<1>2. AliveInv /\ [Next]_vars => AliveInv'
  BY AliveStep
<1>3. AliveInv => ChainAlive
  BY CarriedBy DEF AliveInv, ChainAlive
<1> QED
  BY <1>1, <1>2, <1>3, PTL DEF Spec



-----------------------------------------------------------------------------
(***************************************************************************)
(* What a watch knows of its node while the connection lasts.              *)
(***************************************************************************)
\* The watch is ended by a message that is read after its exists, if any.
EndsLate(q, p, w) == \E j \in EndsIn(q, p) : \A i \in At(q, "exists", w) : i < j

\* A message put at the end ends the watch late, or is the exists itself.
LEMMA PutLate ==
    ASSUME NEW S, NEW q \in Seq(S), NEW e \in S, NEW p, NEW w,
           ~EndsLate(Append(q, e), p, w)
    PROVE  /\ Ends(e, p) => Match(e, "exists", w)
           /\ EndsLate(q, p, w) => Match(e, "exists", w)
<1>1. /\ Len(q) \in Nat
      /\ DOMAIN q = 1 .. Len(q)
      /\ DOMAIN Append(q, e) = 1 .. Len(q) + 1
      /\ Append(q, e)[Len(q) + 1] = e
      /\ \A i \in DOMAIN q : Append(q, e)[i] = q[i]
  BY PutLast
<1>2. EndsIn(Append(q, e), p) = EndsIn(q, p) \cup (IF Ends(e, p) THEN {Len(q) + 1} ELSE {})
  BY <1>1 DEF EndsIn
<1>3. At(Append(q, e), "exists", w)
        = At(q, "exists", w) \cup (IF Match(e, "exists", w) THEN {Len(q) + 1} ELSE {})
  BY <1>1 DEF At
<1>4. \A i \in At(q, "exists", w) : i \in Nat /\ i < Len(q) + 1
  BY <1>1 DEF At
<1>5. CASE Match(e, "exists", w)
  BY <1>5
<1>6. CASE ~Match(e, "exists", w)
  <2>1. At(Append(q, e), "exists", w) = At(q, "exists", w)
    BY <1>3, <1>6
  <2>2. ~Ends(e, p)
    BY <1>2, <1>4, <2>1 DEF EndsLate
  <2>3. ~EndsLate(q, p, w)
    BY <1>2, <2>1 DEF EndsLate
  <2> QED
    BY <2>2, <2>3
<1> QED
  BY <1>5, <1>6

\* An end that is late stays late when the first message is read, unless it
\* is that message and the exists has been read before.
LEMMA TakeLate ==
    ASSUME NEW S, NEW q \in Seq(S), q # <<>>, NEW p, NEW w,
           EndsLate(q, p, w), ~EndsLate(Tail(q), p, w)
    PROVE  Ends(Head(q), p) /\ None(q, "exists", w)
<1>1. /\ Head(q) = q[1]
      /\ Len(q) \in Nat
      /\ DOMAIN q = 1 .. Len(q)
      /\ \A i \in DOMAIN Tail(q) : i \in Nat /\ i + 1 \in DOMAIN q /\ Tail(q)[i] = q[i + 1]
      /\ \A i \in DOMAIN q : i = 1 \/ (i - 1 \in DOMAIN Tail(q) /\ q[i] = Tail(q)[i - 1])
  BY TakeHead
<1>2. PICK j \in EndsIn(q, p) : \A i \in At(q, "exists", w) : i < j
  BY DEF EndsLate
<1>3. j \in DOMAIN q /\ j \in Nat /\ Ends(q[j], p)
  BY <1>1, <1>2 DEF EndsIn
<1>4. CASE j = 1
  <2>1. \A i \in At(q, "exists", w) : i \in Nat /\ i >= 1
    BY <1>1 DEF At
  <2>2. None(q, "exists", w)
    BY <1>2, <1>4, <2>1 DEF None
  <2> QED
    BY <1>1, <1>3, <1>4, <2>2
<1>5. CASE j # 1
  <2>1. j - 1 \in EndsIn(Tail(q), p)
    BY <1>1, <1>3, <1>5 DEF EndsIn
  <2>2. \A i \in At(Tail(q), "exists", w) : i \in Nat /\ i + 1 \in At(q, "exists", w)
    BY <1>1 DEF At
  <2>3. \A i \in At(Tail(q), "exists", w) : i < j - 1
    BY <1>2, <1>3, <2>2
  <2> QED
    BY <2>1, <2>3 DEF EndsLate
<1> QED
  BY <1>4, <1>5

\* The watch of w is set, or about to be, and nothing on the way ends it.
Fresh(w) == (w \in Armed \/ Answered(w)) /\ ~EndsLate(wire, PathOf[w], w)

\* The answers in q tell what the node is now.
ExistsRight(q, w) ==
    \A m \in In(q, "exists", w) : m.rc = IF node[PathOf[w]] = Absent THEN "ZNONODE" ELSE "ZOK"
GetRight(q, w) ==
    \A m \in In(q, "get", w) :
        IF node[PathOf[w]] = Absent THEN m.rc # "ZOK" ELSE m.rc = "ZOK" /\ m.val = node[PathOf[w]]

Getting(w) ==
    ~None(requests, "get", w) \/ ~None(wire, "get", w) \/ ~None(completions, "get", w)

\* The user has been told what the node is, or a get is under way.
ViewRight(w) ==
    LET p == PathOf[w]
    IN  /\ node[p] # Absent /\ Fetch(eve[w]) => view[w] = node[p] \/ Getting(w)
        /\ node[p] = Absent /\ eve[w] = "deleted" => view[w] = Deleted
        /\ eve[w] = "dummy" => view[w] \in {Unheard, node[p]}

\* While its watch is fresh, all that is under way for w is about the node as
\* it is now; once the exists has completed, so is what the user was told.
Know(w) ==
    Fresh(w) =>
        /\ ExistsRight(wire, w) /\ ExistsRight(completions, w)
        /\ ~Answered(w) /\ ~Completed(w) =>
             GetRight(wire, w) /\ GetRight(completions, w) /\ ViewRight(w)

\* Until the first exists has completed, w was told nothing and gets nothing.
FirstTime(w) ==
    /\ call[w] # "watching" => eve[w] = "dummy"
    /\ eve[w] = "dummy" /\ (Requested(w) \/ Answered(w) \/ Completed(w)) =>
         view[w] = Unheard /\ ~Getting(w)

KnowInv == ValueInv /\ CoverInv /\ CalmInv /\ \A w \in Watch : Know(w) /\ FirstTime(w)

\* A fresh watch is set at the server.
LEMMA FreshSet ==
    ASSUME KnowInv, NEW w \in Watch, Fresh(w)
    PROVE  PathOf[w] \in srvWatch
<1>1. TypeOK /\ conn = "on" /\ resync = {} /\ AnsweredCovered /\ ArmedCovered /\ Single(w)
  BY DEF KnowInv, CoverInv, CalmInv, ValueInv, ChainInv, Chain
<1>2. DOMAIN wire = 1 .. Len(wire) /\ Len(wire) \in Nat
  BY <1>1, LenProperties DEF TypeOK
<1>3. CASE Answered(w)
  <2>1. PICK i \in At(wire, "exists", w) : TRUE
    BY <1>3 DEF Answered, None
  <2>2. i \in DOMAIN wire /\ wire[i].op = "exists" /\ wire[i].w = w
    BY <2>1 DEF At, Match
  <2>3. CoveredAfter(i, PathOf[w])
    BY <1>1, <2>2 DEF AnsweredCovered
  <2>4. \A k \in At(wire, "exists", w) : k = i
    BY <1>1, <2>1 DEF Single, Once
  <2>5. ASSUME NEW j \in DOMAIN wire, j > i, Ends(wire[j], PathOf[w]) PROVE FALSE
    <3>1. j \in EndsIn(wire, PathOf[w]) /\ i < j
      BY <1>2, <2>2, <2>5 DEF EndsIn
    <3> QED
      BY <2>4, <3>1 DEF Fresh, EndsLate
  <2> QED
    BY <2>3, <2>5 DEF CoveredAfter
<1>4. CASE ~Answered(w)
  <2>1. w \in Armed /\ At(wire, "exists", w) = {}
    BY <1>4 DEF Fresh, Answered, None
  <2>2. CoveredAfter(0, PathOf[w])
    BY <1>1, <2>1 DEF ArmedCovered
  <2>3. EndsIn(wire, PathOf[w]) = {}
    BY <2>1 DEF Fresh, EndsLate
  <2> QED
    BY <2>2, <2>3 DEF CoveredAfter, EndsIn
<1> QED
  BY <1>3, <1>4


\* The step asks for nothing new on behalf of w, and drops nothing of it.
Handed(w) ==
    /\ \A o \in {"exists", "get"} :
         In(wire', o, w) \cup In(completions', o, w) \subseteq In(wire, o, w) \cup In(completions, o, w)
    /\ Getting(w)' <=> Getting(w)
    /\ Answered(w) \/ Completed(w) => Answered(w)' \/ Completed(w)'
    /\ Requested(w)' \/ Answered(w)' \/ Completed(w)' => Requested(w) \/ Answered(w) \/ Completed(w)

\* A step that only hands on what is under way for w.
LEMMA KnowFrame ==
    ASSUME KnowInv, NEW w \in Watch, Handed(w),
           Fresh(w)' => Fresh(w) /\ node'[PathOf[w]] = node[PathOf[w]],
           eve'[w] = eve[w], view'[w] = view[w],
           call'[w] # "watching" => call[w] # "watching"
    PROVE  Know(w)' /\ FirstTime(w)'
<1>1. Know(w) /\ FirstTime(w)
  BY DEF KnowInv
<1>2. FirstTime(w)'
  BY <1>1 DEF Handed, FirstTime
<1> SUFFICES ASSUME Fresh(w)' PROVE Know(w)'
  BY <1>2 DEF Know
<1>3. /\ ExistsRight(wire, w) /\ ExistsRight(completions, w)
      /\ node'[PathOf[w]] = node[PathOf[w]]
  BY <1>1 DEF Know
<1>4. ExistsRight(wire, w)' /\ ExistsRight(completions, w)'
  BY <1>3 DEF Handed, ExistsRight
<1>5. ASSUME ~Answered(w)', ~Completed(w)'
      PROVE  GetRight(wire, w)' /\ GetRight(completions, w)' /\ ViewRight(w)'
  <2>1. GetRight(wire, w) /\ GetRight(completions, w) /\ ViewRight(w)
    BY <1>1, <1>5 DEF Know, Handed
  <2>2. GetRight(wire, w)' /\ GetRight(completions, w)'
    BY <1>3, <2>1 DEF Handed, GetRight
  <2>3. ViewRight(w)'
    BY <1>3, <2>1 DEF Handed, ViewRight
  <2> QED
    BY <2>2, <2>3
<1> QED
  BY <1>4, <1>5 DEF Know

\* Other clients write or delete: a fresh watch becomes an event on the wire.
LEMMA KnowOthers ==
    ASSUME KnowInv, NEW w \in Watch, NEW p \in Path, SrvWrite(p) \/ SrvDelete(p)
    PROVE  Know(w)' /\ FirstTime(w)'
<1>1. TypeOK /\ wire \in Seq(Reply \cup WatcherEvent) /\ node \in [Path -> Nat]
  BY DEF KnowInv, CoverInv, TypeOK
<1>2. PICK type \in EventType :
         \/ wire' = wire /\ p \notin srvWatch
         \/ wire' = Append(wire, [op |-> "event", p |-> p, type |-> type])
  BY DEF SrvWrite, SrvDelete, Trigger, EventType
<1>3. /\ UNCHANGED <<requests, client, completions, eve, view, call>>
      /\ \A q \in Path : q # p => node'[q] = node[q]
  BY <1>1 DEF SrvWrite, SrvDelete, user, told
<1> DEFINE e == [op |-> "event", p |-> p, type |-> type]
<1>4. /\ e \in Reply \cup WatcherEvent /\ (p = PathOf[w] => Ends(e, PathOf[w]))
      /\ ~Match(e, "exists", w) /\ ~Match(e, "get", w)
  BY DEF WatcherEvent, Ends, Match
<1>5. PathOf[w] \in Path
  BY PathOfAssumption
<1> HIDE DEF e
<1>6. Handed(w) /\ Answered(w)' = Answered(w)
  <2>1. /\ In(wire', "exists", w) = In(wire, "exists", w)
        /\ In(wire', "get", w) = In(wire, "get", w)
    <3>1. Gains(wire, Append(wire, e), e, w)
      BY <1>1, <1>4, PutIn
    <3> QED
      BY <1>2, <1>4, <3>1 DEF Gains, e
  <2> QED
    BY <1>3, <2>1, NoneIn DEF Handed, Getting, Requested, Answered, Completed
<1>7. ASSUME Fresh(w)' PROVE Fresh(w) /\ node'[PathOf[w]] = node[PathOf[w]]
  <2>1. w \in Armed \/ Answered(w)
    BY <1>3, <1>6, <1>7 DEF Fresh, Armed, client
  <2>2. ~EndsLate(wire', PathOf[w], w)
    BY <1>7 DEF Fresh, EndsLate, EndsIn, Ends
  <2>3. CASE wire' = wire /\ p \notin srvWatch
    <3>1. Fresh(w)
      BY <2>1, <2>2, <2>3 DEF Fresh
    <3> QED
      BY <1>3, <1>5, <2>3, <3>1, FreshSet
  <2>4. CASE wire' = Append(wire, e)
    <3>1. ~Ends(e, PathOf[w]) /\ ~EndsLate(wire, PathOf[w], w)
      BY <1>1, <1>4, <2>2, <2>4, PutLate
    <3> QED
      BY <1>3, <1>4, <1>5, <2>1, <3>1 DEF Fresh
  <2> QED
    BY <1>2, <2>3, <2>4 DEF e
<1> QED
  BY <1>3, <1>6, <1>7, KnowFrame

\* The server answers: an exists makes the watch fresh, the answer to a get of
\* a fresh watch is the value of the node.
LEMMA KnowServer ==
    ASSUME KnowInv, NEW w \in Watch, SrvExists \/ SrvGet \/ SrvRemoveWatches
    PROVE  Know(w)' /\ FirstTime(w)'
<1> DEFINE r == Head(requests)
           p == PathOf[r.w]
<1>1. Know(w) /\ FirstTime(w) /\ Chain(w) /\ TypeOK
  BY DEF KnowInv, ValueInv, ChainInv
<1>2. /\ requests # <<>> /\ requests' = Tail(requests)
      /\ UNCHANGED <<node, client, completions, eve, view, call>>
  BY DEF SrvExists, SrvGet, SrvRemoveWatches, SrvHandles, told, user
<1>3. r \in Request /\ node[p] \in Nat
  BY <1>1, <1>2, First, PathOfAssumption DEF Request, TypeOK
<1>4. PICK rc \in Rc, val \in Nat :
        /\ wire' = Append(wire, Answer(r, rc, val))
        /\ r.op = "exists" => rc = IF node[p] = Absent THEN "ZNONODE" ELSE "ZOK"
        /\ r.op = "get" => rc = (IF node[p] = Absent THEN "ZNONODE" ELSE "ZOK") /\ val = node[p]
  BY <1>3 DEF SrvExists, SrvGet, SrvRemoveWatches, SrvHandles, Rc
<1> DEFINE m == Answer(r, rc, val)
<1>5. m \in Reply /\ m.op = r.op /\ m.w = r.w /\ m.rc = rc /\ m.val = val
  BY <1>1, <1>3 DEF Answer, Reply, Request, TypeOK
<1>6. requests \in Seq(Request) /\ wire \in Seq(Reply \cup WatcherEvent)
  BY <1>1 DEF TypeOK
<1> HIDE DEF m
<1>7. Takes(requests, requests', r, w) /\ Gains(wire, wire', m, w)
  BY <1>2, <1>4, <1>5, <1>6, TakeAt, PutIn DEF m
<1>8. /\ Match(m, "exists", w) <=> r.op = "exists" /\ r.w = w
      /\ Match(r, "exists", w) <=> r.op = "exists" /\ r.w = w
      /\ Match(m, "get", w) <=> r.op = "get" /\ r.w = w
      /\ Match(r, "get", w) <=> r.op = "get" /\ r.w = w
  BY <1>5 DEF Match
<1> HIDE DEF r
<1>9. /\ In(wire', "exists", w) = In(wire, "exists", w) \cup (IF r.op = "exists" /\ r.w = w THEN {m} ELSE {})
      /\ In(wire', "get", w) = In(wire, "get", w) \cup (IF r.op = "get" /\ r.w = w THEN {m} ELSE {})
  BY <1>7, <1>8 DEF Gains
<1>10. /\ None(requests, "exists", w) <=> None(requests', "exists", w) /\ ~(r.op = "exists" /\ r.w = w)
       /\ None(requests, "get", w) <=> None(requests', "get", w) /\ ~(r.op = "get" /\ r.w = w)
  BY <1>7, <1>8 DEF Takes, Ops
<1>11. /\ Getting(w)' <=> Getting(w)
       /\ Completed(w)' <=> Completed(w)
       /\ Answered(w)' <=> Answered(w) \/ (r.op = "exists" /\ r.w = w)
       /\ Requested(w)' \/ Answered(w)' \/ Completed(w)' => Requested(w) \/ Answered(w) \/ Completed(w)
  BY <1>2, <1>9, <1>10, NoneIn DEF Getting, Requested, Answered, Completed
<1>12. FirstTime(w)'
  BY <1>1, <1>2, <1>11 DEF FirstTime
<1>13. Fresh(w)' => Fresh(w) \/ (r.op = "exists" /\ r.w = w)
  <2> SUFFICES ASSUME Fresh(w)', ~(r.op = "exists" /\ r.w = w) PROVE Fresh(w)
    OBVIOUS
  <2>1. ~EndsLate(wire', PathOf[w], w)
    BY DEF Fresh, EndsLate, EndsIn, Ends
  <2>2. ~EndsLate(wire, PathOf[w], w)
    BY <1>4, <1>5, <1>6, <1>8, <2>1, PutLate DEF m
  <2> QED
    BY <1>2, <1>11, <2>2 DEF Fresh, Armed, client
<1>14. CASE r.op = "exists" /\ r.w = w
  <2>1. ~Answered(w) /\ ~Completed(w)
    BY <1>1, <1>10, <1>14 DEF Chain, Single, Requested
  <2>2. In(wire', "exists", w) = {m} /\ In(completions', "exists", w) = {} /\ Answered(w)'
    BY <1>2, <1>9, <1>11, <1>14, <2>1, NoneIn DEF Answered, Completed
  <2>3. ExistsRight(wire, w)' /\ ExistsRight(completions, w)'
    BY <1>2, <1>4, <1>5, <1>14, <2>2 DEF ExistsRight
  <2> QED
    BY <1>12, <2>2, <2>3 DEF Know
<1>15. CASE r.op = "get" /\ r.w = w
  <2> SUFFICES ASSUME Fresh(w)' PROVE Know(w)'
    BY <1>12 DEF Know
  <2>1. Fresh(w)
    BY <1>13, <1>15
  <2>2. ExistsRight(wire, w)' /\ ExistsRight(completions, w)'
    BY <1>1, <1>2, <1>9, <1>15, <2>1 DEF Know, ExistsRight
  <2>3. ASSUME ~Answered(w)', ~Completed(w)'
        PROVE  GetRight(wire, w)' /\ GetRight(completions, w)' /\ ViewRight(w)'
    <3>1. GetRight(wire, w) /\ GetRight(completions, w) /\ ViewRight(w)
      BY <1>1, <1>11, <2>1, <2>3 DEF Know
    <3>2. IF node[PathOf[w]] = Absent THEN m.rc # "ZOK" ELSE m.rc = "ZOK" /\ m.val = node[PathOf[w]]
      BY <1>4, <1>5, <1>15
    <3>3. GetRight(wire, w)' /\ GetRight(completions, w)'
      BY <1>2, <1>9, <3>1, <3>2 DEF GetRight
    <3>4. ViewRight(w)'
      BY <1>2, <1>11, <3>1 DEF ViewRight
    <3> QED
      BY <3>3, <3>4
  <2> QED
    BY <2>2, <2>3 DEF Know
<1>16. CASE ~(r.op = "exists" /\ r.w = w) /\ ~(r.op = "get" /\ r.w = w)
  <2>1. Handed(w)
    BY <1>2, <1>9, <1>11, <1>16 DEF Handed
  <2> QED
    BY <1>2, <1>13, <1>16, <2>1, KnowFrame
<1> QED
  BY <1>14, <1>15, <1>16


\* The IO thread reads an answer or an event: a message that ends the watch
\* takes it out of the tables.
LEMMA KnowRead ==
    ASSUME KnowInv, NEW w \in Watch, IoReply \/ IoEvent
    PROVE  Know(w)' /\ FirstTime(w)'
<1> DEFINE a == Head(wire)
<1>1. TypeOK
  BY DEF KnowInv, CoverInv
<1>2. /\ wire # <<>> /\ wire' = Tail(wire)
      /\ UNCHANGED <<node, requests, eve, view, call>>
  BY DEF IoReply, IoEvent, server, user, told
<1>3. /\ wire \in Seq(Reply \cup WatcherEvent) /\ completions \in Seq(Reply \cup FiredEvent)
      /\ IF a.op = "event" THEN a \in WatcherEvent ELSE a \in Reply
  BY <1>1, <1>2, First DEF TypeOK
<1>4. PICK m \in Reply \cup FiredEvent :
        /\ completions' = Append(completions, m)
        /\ Match(m, "exists", w) <=> Match(a, "exists", w)
        /\ Match(m, "get", w) <=> Match(a, "get", w)
        /\ Match(a, "exists", w) \/ Match(a, "get", w) => m = a
  <2>1. CASE IoReply
    BY <1>3, <2>1 DEF IoReply, queue_completion
  <2>2. CASE IoEvent
    <3> DEFINE m == [op |-> "event", ws |-> (node_watchers \cup exist_watchers) \cap WatchersOn(a.p), type |-> a.type]
    <3>1. completions' = Append(completions, m) /\ a.op = "event"
      BY <2>2 DEF IoEvent, queue_completion
    <3>2. m \in FiredEvent
      BY <1>1, <1>3, <3>1 DEF FiredEvent, WatcherEvent, TypeOK
    <3>3. ~Match(m, "exists", w) /\ ~Match(m, "get", w) /\ ~Match(a, "exists", w) /\ ~Match(a, "get", w)
      BY <3>1 DEF Match
    <3> HIDE DEF m
    <3> QED
      BY <3>1, <3>2, <3>3
  <2> QED
    BY <2>1, <2>2
<1>5. Gains(wire', wire, a, w) /\ Gains(completions, completions', m, w)
  BY <1>2, <1>3, <1>4, TakeIn, PutIn
<1>6. w \in Armed' => w \in Armed \/ Match(a, "exists", w)
  BY DEF IoReply, IoEvent, Armed, ActivateNode, ActivateExist, Match
<1>7. Ends(a, PathOf[w]) => w \notin Armed'
  BY DEF Ends, IoReply, IoEvent, Armed, Deactivate, WatchersOn
<1> HIDE DEF a
<1>8. ASSUME NEW o \in {"exists", "get"}
      PROVE  /\ In(wire, o, w) = In(wire', o, w) \cup (IF Match(a, o, w) THEN {a} ELSE {})
             /\ In(completions', o, w) = In(completions, o, w) \cup (IF Match(a, o, w) THEN {a} ELSE {})
  BY <1>4, <1>5 DEF Gains
<1>9. Handed(w)
  BY <1>2, <1>8, NoneIn DEF Handed, Getting, Requested, Answered, Completed
<1>10. (Answered(w)' => Answered(w)) /\ (Match(a, "exists", w) => Answered(w))
  BY <1>8, NoneIn DEF Answered
<1>11. ASSUME Fresh(w)' PROVE Fresh(w)
  <2>1. (w \in Armed' \/ Answered(w)') /\ ~EndsLate(wire', PathOf[w], w)
    BY <1>11 DEF Fresh, EndsLate, EndsIn, Ends
  <2>2. EndsLate(wire, PathOf[w], w) => Ends(a, PathOf[w]) /\ ~Answered(w)
    BY <1>2, <1>3, <2>1, TakeLate DEF a, Answered
  <2>3. ~EndsLate(wire, PathOf[w], w)
    BY <1>7, <1>10, <2>1, <2>2
  <2> QED
    BY <1>6, <1>10, <2>1, <2>3 DEF Fresh
<1> QED
  BY <1>2, <1>9, <1>11, KnowFrame

\* wfn of watch v: the watch of v is not set while it runs.
LEMMA KnowWatcher ==
    ASSUME KnowInv, NEW w \in Watch, NEW v \in Watch, RunWatcher(v)
    PROVE  Know(w)' /\ FirstTime(w)'
<1> DEFINE r == [op |-> "exists", w |-> v]
<1>1. TypeOK /\ Chain(w) /\ FirstTime(w)
  BY DEF KnowInv, ValueInv, ChainInv
<1>2. /\ completions # <<>> /\ Head(completions).op = "event" /\ v \in Head(completions).ws
      /\ completions' = [completions EXCEPT ![1].ws = @ \ {v}]
      /\ requests' = Append(requests, r)
      /\ eve' = [eve EXCEPT ![v] = Head(completions).type]
      /\ UNCHANGED <<wire, client, node, call, view>>
  BY DEF RunWatcher, Completes, Submit, server, user, told
<1>3. /\ r \in Request /\ requests \in Seq(Request) /\ completions \in Seq(Reply \cup FiredEvent)
      /\ eve \in [Watch -> EventType \cup {"dummy"}]
  BY <1>1 DEF Request, TypeOK
<1>4. Head(completions) \in FiredEvent /\ Head(completions).type \in EventType
  BY <1>1, <1>2, First DEF FiredEvent
<1>5. /\ Delivers(completions, completions', v, w)
      /\ \A o \in {"exists", "get"} : In(completions', o, w) = In(completions, o, w)
  <2>1. Delivers(completions, completions', v, w)
    BY <1>2, <1>3, <1>4, DeliverAt
  <2>2. Keeps(completions, completions', w)
    BY <1>2, <1>3, <1>4, DeliverIn
  <2> QED
    BY <2>1, <2>2 DEF Keeps
<1>6. Puts(requests, requests', r, w)
  BY <1>2, <1>3, PutAt
<1>7. (Match(r, "exists", w) <=> v = w) /\ ~Match(r, "get", w)
  BY DEF Match
<1> HIDE DEF r
<1>8. /\ Requested(w)' => Requested(w) \/ v = w
      /\ None(requests', "get", w) <=> None(requests, "get", w)
  BY <1>6, <1>7 DEF Puts, Ops, Requested
<1>9. /\ Getting(w)' <=> Getting(w)
      /\ Answered(w)' <=> Answered(w)
      /\ Completed(w)' <=> Completed(w)
      /\ Fresh(w)' <=> Fresh(w)
  BY <1>2, <1>5, <1>8, NoneIn DEF Getting, Answered, Completed, Fresh, EndsLate, EndsIn, Ends, Armed, client
<1>10. CASE v = w
  <2>1. Fired(w)
    BY <1>5, <1>10 DEF Delivers, Fired, None
  <2>2. ~Fresh(w) /\ call[w] = "watching"
    BY <1>1, <2>1 DEF Chain, Single, NotBegun, Fresh
  <2>3. eve'[w] # "dummy" /\ call'[w] = "watching"
    BY <1>2, <1>3, <1>4, <1>10, <2>2 DEF EventType
  <2> QED
    BY <1>9, <2>2, <2>3 DEF Know, FirstTime
<1>11. CASE v # w
  <2>1. Handed(w)
    BY <1>2, <1>5, <1>8, <1>9, <1>11 DEF Handed
  <2>2. eve'[w] = eve[w]
    BY <1>2, <1>3, <1>11
  <2> QED
    BY <1>2, <1>9, <2>1, <2>2, KnowFrame
<1> QED
  BY <1>10, <1>11

\* A completion of another watch, or one that tells w nothing.
LEMMA KnowOtherRun ==
    ASSUME KnowInv, NEW w \in Watch, completions # <<>>, completions' = Tail(completions),
           ~Match(Head(completions), "exists", w), ~Match(Head(completions), "get", w),
           NEW r \in Request, requests' \in {requests, Append(requests, r)},
           ~Match(r, "exists", w), ~Match(r, "get", w),
           UNCHANGED <<wire, client, node, call, eve>>, view'[w] = view[w]
    PROVE  Know(w)' /\ FirstTime(w)'
<1>1. completions \in Seq(Reply \cup FiredEvent) /\ requests \in Seq(Request)
  BY DEF KnowInv, CoverInv, TypeOK
<1>2. /\ In(completions', "exists", w) = In(completions, "exists", w)
      /\ In(completions', "get", w) = In(completions, "get", w)
  <2>1. Gains(completions', completions, Head(completions), w)
    BY <1>1, TakeIn
  <2> QED
    BY <2>1 DEF Gains
<1>3. /\ None(requests', "exists", w) <=> None(requests, "exists", w)
      /\ None(requests', "get", w) <=> None(requests, "get", w)
  <2>1. Puts(requests, Append(requests, r), r, w)
    BY <1>1, PutAt
  <2>2. /\ None(Append(requests, r), "exists", w) <=> None(requests, "exists", w)
        /\ None(Append(requests, r), "get", w) <=> None(requests, "get", w)
    BY <2>1 DEF Puts, Ops
  <2> QED
    BY <2>2
<1>4. Handed(w)
  BY <1>2, <1>3, NoneIn DEF Handed, Getting, Requested, Answered, Completed
<1>5. Fresh(w)' <=> Fresh(w)
  BY DEF Fresh, EndsLate, EndsIn, Ends, Armed, Answered, client
<1> QED
  BY <1>4, <1>5, KnowFrame


\* exists_completion of w: what it reports is what the node is, or the get it
\* sends will find that out.
LEMMA KnowExists ==
    ASSUME KnowInv, NEW w \in Watch, RunExists
    PROVE  Know(w)' /\ FirstTime(w)'
<1> DEFINE c == Head(completions)
           r == [op |-> "get", w |-> c.w]
<1>1. Know(w) /\ FirstTime(w) /\ Chain(w) /\ Values(w) /\ TypeOK
  BY DEF KnowInv, ValueInv, ChainInv
<1>2. /\ completions # <<>> /\ c.op = "exists" /\ completions' = Tail(completions)
      /\ UNCHANGED <<wire, client, node, call, eve>>
  BY DEF RunExists, Completes, server, user
<1>3. c \in Reply /\ c.w \in Watch
  BY <1>1, <1>2, First DEF Reply
<1>4. r \in Request /\ r.op = "get" /\ r.w = c.w
  BY <1>3 DEF Request
<1>5. /\ requests' \in {requests, Append(requests, r)}
      /\ ReportDel(c) => view' = [view EXCEPT ![c.w] = Deleted]
      /\ ~ReportDel(c) => view' = view
      /\ ~ReportDel(c) /\ Fetch(eve[c.w]) => requests' = Append(requests, r)
  BY DEF RunExists, Submit
<1>6. /\ view \in [Watch -> Int] /\ requests \in Seq(Request)
      /\ completions \in Seq(Reply \cup FiredEvent)
  BY <1>1 DEF TypeOK
<1>7. Takes(completions, completions', c, w) /\ Gains(completions', completions, c, w)
  BY <1>2, <1>6, TakeAt, TakeIn
<1>8. (Match(c, "exists", w) <=> c.w = w) /\ ~Match(c, "get", w)
  BY <1>2 DEF Match
<1>9. (Match(r, "get", w) <=> c.w = w) /\ ~Match(r, "exists", w)
  BY <1>4 DEF Match
<1>10. Puts(requests, Append(requests, r), r, w)
  BY <1>4, <1>6, PutAt
<1>11. CASE c.w # w
  <2>1. view'[w] = view[w]
    BY <1>3, <1>5, <1>6, <1>11
  <2> HIDE DEF r
  <2> QED
    BY <1>2, <1>4, <1>5, <1>8, <1>9, <1>11, <2>1, KnowOtherRun
<1>12. CASE c.w = w
  <2> HIDE DEF c, r
  <2>1. /\ Completed(w) /\ None(completions', "exists", w) /\ c \in In(completions, "exists", w)
        /\ None(completions, "get", w)
    BY <1>1, <1>7, <1>8, <1>12 DEF Takes, Gains, Ops, Completed, Chain, Single, InOrder
  <2>2. /\ ~Requested(w) /\ ~Answered(w) /\ None(requests, "get", w) /\ None(wire, "get", w)
        /\ None(completions', "get", w)
    BY <1>1, <1>7, <1>8, <2>1 DEF Takes, Ops, Chain, Single, InOrder
  <2>3. ~Requested(w)'
    BY <1>5, <1>9, <1>10, <2>2 DEF Puts, Ops, Requested
  <2>4. ~Answered(w)' /\ ~Completed(w)' /\ (Fresh(w)' <=> Fresh(w))
    BY <1>2, <2>1, <2>2 DEF Answered, Completed, Fresh, EndsLate, EndsIn, Ends, Armed, client
  <2>5. FirstTime(w)'
    BY <1>1, <1>2, <2>3, <2>4 DEF FirstTime
  <2> SUFFICES ASSUME Fresh(w)' PROVE Know(w)'
    BY <2>5 DEF Know
  <2>6. c.rc = IF node[PathOf[w]] = Absent THEN "ZNONODE" ELSE "ZOK"
    BY <1>1, <2>1, <2>4 DEF Know, ExistsRight
  <2>7. /\ ExistsRight(wire, w)' /\ ExistsRight(completions, w)'
        /\ GetRight(wire, w)' /\ GetRight(completions, w)'
    <3>1. /\ In(wire', "exists", w) = {} /\ In(completions', "exists", w) = {}
          /\ In(wire', "get", w) = {} /\ In(completions', "get", w) = {}
      BY <1>2, <2>1, <2>2, NoneIn DEF Answered
    <3> QED
      BY <3>1 DEF ExistsRight, GetRight
  <2>8. ViewRight(w)'
    <3>1. ASSUME node[PathOf[w]] # Absent, Fetch(eve[w]) PROVE Getting(w)'
      <4>1. requests' = Append(requests, r)
        BY <1>5, <1>12, <2>6, <3>1 DEF ReportDel
      <4> QED
        BY <1>9, <1>10, <1>12, <4>1 DEF Puts, Ops, Getting
    <3>2. ASSUME node[PathOf[w]] = Absent, eve[w] = "deleted" PROVE view'[w] = Deleted
      BY <1>3, <1>5, <1>6, <1>12, <2>6, <3>2 DEF ReportDel
    <3>3. ASSUME eve[w] = "dummy" PROVE view'[w] = Unheard
      BY <1>1, <1>5, <1>12, <2>1, <3>3 DEF FirstTime, ReportDel
    <3> QED
      BY <1>2, <3>1, <3>2, <3>3 DEF ViewRight
  <2> QED
    BY <2>7, <2>8 DEF Know
<1> QED
  BY <1>11, <1>12

\* The completion of a get of w: while the watch is fresh it brings the value
\* of the node.
LEMMA KnowGet ==
    ASSUME KnowInv, NEW w \in Watch, RunGet
    PROVE  Know(w)' /\ FirstTime(w)'
<1> DEFINE c == Head(completions)
           r == [op |-> "remove", w |-> w]
<1>1. Know(w) /\ FirstTime(w) /\ TypeOK
  BY DEF KnowInv, CoverInv
<1>2. /\ completions # <<>> /\ c.op = "get" /\ completions' = Tail(completions)
      /\ UNCHANGED <<wire, client, node, call, eve, requests>>
      /\ c.rc = "ZOK" => view' = [view EXCEPT ![c.w] = c.val]
      /\ c.rc # "ZOK" => view' = view
  BY DEF RunGet, Completes, server, user, told
<1>3. c \in Reply /\ c.w \in Watch
  BY <1>1, <1>2, First DEF Reply
<1>4. view \in [Watch -> Int] /\ completions \in Seq(Reply \cup FiredEvent)
  BY <1>1 DEF TypeOK
<1>5. (Match(c, "get", w) <=> c.w = w) /\ ~Match(c, "exists", w)
  BY <1>2 DEF Match
<1>6. CASE c.w # w
  <2>1. view'[w] = view[w]
    BY <1>2, <1>3, <1>4, <1>6
  <2>2. r \in Request /\ ~Match(r, "exists", w) /\ ~Match(r, "get", w)
    BY DEF Request, Match
  <2> HIDE DEF r
  <2> QED
    BY <1>2, <1>5, <1>6, <2>1, <2>2, KnowOtherRun
<1>7. CASE c.w = w
  <2>1. Gains(completions', completions, c, w)
    BY <1>2, <1>4, TakeIn
  <2> HIDE DEF c
  <2>2. /\ In(completions', "exists", w) = In(completions, "exists", w)
        /\ In(completions, "get", w) = In(completions', "get", w) \cup {c}
    BY <1>5, <1>7, <2>1 DEF Gains
  <2>3. /\ Requested(w)' = Requested(w) /\ Answered(w)' = Answered(w)
        /\ Completed(w)' <=> Completed(w)
        /\ Getting(w)
        /\ Fresh(w)' <=> Fresh(w)
    BY <1>2, <2>2, NoneIn
      DEF Requested, Answered, Completed, Getting, Fresh, EndsLate, EndsIn, Ends, Armed, client
  <2>4. FirstTime(w)'
    BY <1>1, <1>2, <2>3 DEF FirstTime
  <2> SUFFICES ASSUME Fresh(w)' PROVE Know(w)'
    BY <2>4 DEF Know
  <2>5. ExistsRight(wire, w)' /\ ExistsRight(completions, w)'
    BY <1>1, <1>2, <2>2, <2>3 DEF Know, ExistsRight
  <2>6. ASSUME ~Answered(w)', ~Completed(w)'
        PROVE  GetRight(wire, w)' /\ GetRight(completions, w)' /\ ViewRight(w)'
    <3>1. GetRight(wire, w) /\ GetRight(completions, w) /\ ViewRight(w)
      BY <1>1, <2>3, <2>6 DEF Know
    <3>2. GetRight(wire, w)' /\ GetRight(completions, w)'
      BY <1>2, <2>2, <3>1 DEF GetRight
    <3>3. IF node[PathOf[w]] = Absent THEN c.rc # "ZOK" ELSE c.rc = "ZOK" /\ c.val = node[PathOf[w]]
      BY <2>2, <3>1 DEF GetRight
    <3>4. IF node[PathOf[w]] = Absent THEN view'[w] = view[w] ELSE view'[w] = node[PathOf[w]]
      BY <1>2, <1>3, <1>4, <1>7, <3>3
    <3>5. ViewRight(w)'
      BY <1>2, <3>1, <3>4 DEF ViewRight
    <3> QED
      BY <3>2, <3>5
  <2> QED
    BY <2>5, <2>6 DEF Know
<1> QED
  BY <1>6, <1>7

\* The other completions, and the user's calls.
LEMMA KnowRest ==
    ASSUME KnowInv, NEW w \in Watch,
           \/ WatchersDone \/ RunRemove
           \/ \E v \in Watch : WatchRecord(v) \/ WatchSend(v) \/ RemoveWatches(v)
    PROVE  Know(w)' /\ FirstTime(w)'
<1>1. Chain(w) /\ Values(w) /\ FirstTime(w) /\ TypeOK
  BY DEF KnowInv, ValueInv, ChainInv
<1>2. requests \in Seq(Request) /\ call \in [Watch -> {"idle", "recorded", "watching"}]
  BY <1>1 DEF TypeOK
<1>3. CASE WatchersDone \/ RunRemove
  <2> DEFINE r == [op |-> "remove", w |-> w]
  <2>1. r \in Request /\ ~Match(r, "exists", w) /\ ~Match(r, "get", w)
    BY DEF Request, Match
  <2> HIDE DEF r
  <2>2. /\ completions # <<>> /\ completions' = Tail(completions)
        /\ Head(completions).op \in {"event", "remove"}
        /\ UNCHANGED <<requests, wire, client, node, call, eve, view>>
    BY <1>3 DEF WatchersDone, RunRemove, Completes, server, user, told
  <2>3. ~Match(Head(completions), "exists", w) /\ ~Match(Head(completions), "get", w)
    BY <2>2 DEF Match
  <2> QED
    BY <2>1, <2>2, <2>3, KnowOtherRun
<1>4. ASSUME NEW v \in Watch, WatchRecord(v) \/ WatchSend(v) \/ RemoveWatches(v)
      PROVE  Know(w)' /\ FirstTime(w)'
  <2>1. /\ UNCHANGED <<wire, completions, client, node, eve, view>>
        /\ call'[w] # "watching" => call[w] # "watching"
    BY <1>2, <1>4 DEF WatchRecord, WatchSend, RemoveWatches, server, user, told
  <2>2. Answered(w)' = Answered(w) /\ Completed(w)' = Completed(w) /\ (Fresh(w)' <=> Fresh(w))
    BY <2>1 DEF Answered, Completed, Fresh, EndsLate, EndsIn, Ends, Armed, client
  <2>3. PICK o \in {"exists", "remove"} :
          /\ requests' \in {requests, Append(requests, [op |-> o, w |-> v])}
          /\ o = "exists" /\ v = w => call[w] # "watching"
    BY <1>4 DEF WatchRecord, WatchSend, RemoveWatches, Submit
  <2> DEFINE r == [op |-> o, w |-> v]
  <2>4. r \in Request /\ (Match(r, "exists", w) <=> o = "exists" /\ v = w) /\ ~Match(r, "get", w)
    BY DEF Request, Match
  <2>5. requests' \in {requests, Append(requests, r)}
    BY <2>3
  <2> HIDE DEF r
  <2>6. /\ Requested(w)' => Requested(w) \/ (o = "exists" /\ v = w)
        /\ None(requests', "get", w) <=> None(requests, "get", w)
    <3>1. Puts(requests, Append(requests, r), r, w)
      BY <1>2, <2>4, PutAt
    <3>2. /\ None(Append(requests, r), "exists", w) <=> None(requests, "exists", w) /\ ~(o = "exists" /\ v = w)
          /\ None(Append(requests, r), "get", w) <=> None(requests, "get", w)
      BY <2>4, <3>1 DEF Puts, Ops
    <3> QED
      BY <2>5, <3>2 DEF Requested
  <2>7. Getting(w)' <=> Getting(w)
    BY <2>1, <2>6 DEF Getting
  <2>8. CASE o = "exists" /\ v = w
    <3>1. /\ ~Answered(w) /\ ~Completed(w) /\ w \notin Armed /\ ~Getting(w)
          /\ eve[w] = "dummy" /\ view[w] = Unheard
      BY <1>1, <2>3, <2>8 DEF Chain, NotBegun, FirstTime, Values, ToldLast, Getting
    <3> QED
      BY <2>1, <2>2, <2>7, <3>1 DEF Fresh, Know, FirstTime
  <2>9. CASE ~(o = "exists" /\ v = w)
    <3>1. Handed(w)
      BY <2>1, <2>2, <2>6, <2>7, <2>9 DEF Handed
    <3> QED
      BY <2>1, <2>2, <3>1, KnowFrame
  <2> QED
    BY <2>8, <2>9
<1> QED
  BY <1>3, <1>4

\* Every step of a connection that is not lost keeps the watches informed.
LEMMA KnowStep ==
    ASSUME KnowInv, [Next]_vars, "loss" \notin Allowed
    PROVE  KnowInv'
<1>1. ValueInv' /\ CoverInv' /\ CalmInv'
  BY ValuesStep, CoverStep, CalmStep DEF KnowInv, CoverInv
<1> SUFFICES ASSUME NEW w \in Watch PROVE Know(w)' /\ FirstTime(w)'
  BY <1>1 DEF KnowInv
<1>2. conn = "on" /\ resync = {}
  BY DEF KnowInv, CalmInv
<1>3. CASE OtherClients
  BY <1>3, KnowOthers DEF OtherClients
<1>4. CASE ServerStep
  BY <1>2, <1>4, KnowServer DEF ServerStep, SrvSetWatch
<1>5. CASE IoStep \/ Disconnect
  BY <1>2, <1>5, KnowRead DEF IoStep, IoDropMessage, IoFailRequest, IoCleanupDone, Reconnect, Disconnect
<1>6. CASE CompletionStep
  BY <1>6, KnowWatcher, KnowExists, KnowGet, KnowRest DEF CompletionStep
<1>7. ASSUME NEW v \in Watch, WatchRecord(v) \/ WatchSend(v) \/ RemoveWatches(v)
      PROVE  Know(w)' /\ FirstTime(w)'
  BY <1>7, KnowRest
<1>8. CASE UNCHANGED vars
  <2>1. UNCHANGED <<wire, client, completions, requests, call, node, eve, view>>
    BY <1>8 DEF vars, server, user, told
  <2>2. Handed(w) /\ (Fresh(w)' <=> Fresh(w))
    BY <2>1 DEF Handed, Getting, Requested, Answered, Completed, Fresh, EndsLate, EndsIn, Ends, Armed, client
  <2> QED
    BY <2>1, <2>2, KnowFrame
<1> QED
  BY <1>3, <1>4, <1>5, <1>6, <1>7, <1>8 DEF Next

\* At first no watch is set and nothing is under way.
LEMMA KnowInit == Init => KnowInv
<1> SUFFICES ASSUME Init PROVE KnowInv
  OBVIOUS
<1> SUFFICES ASSUME NEW w \in Watch PROVE Know(w) /\ FirstTime(w)
  BY ValuesInit, CoverInit, CalmInit DEF KnowInv
<1>1. ~Requested(w) /\ ~Answered(w) /\ ~Completed(w)
  BY EmptyAt DEF Init, Requested, Answered, Completed
<1>2. w \notin Armed /\ eve[w] = "dummy"
  BY DEF Init, Armed
<1> QED
  BY <1>1, <1>2 DEF Know, Fresh, FirstTime

\* When nothing is under way, a fresh watch has told the user what it knows.
LEMMA KnowSettled ==
    ASSUME KnowInv
    PROVE  SettledView
<1> SUFFICES ASSUME Quiescent, NEW w \in Armed
             PROVE  LET p == PathOf[w]
                    IN  /\ node[p] # Absent /\ eve[w] # "deleted" => view[w] = node[p]
                        /\ node[p] = Absent /\ eve[w] = "deleted" => view[w] = Deleted
                        /\ eve[w] = "dummy" => view[w] \in {Unheard, node[p]}
  BY DEF SettledView
<1>1. w \in Watch /\ eve[w] \in EventType \cup {"dummy"}
  BY DEF KnowInv, CoverInv, TypeOK, Armed
<1>2. requests = <<>> /\ wire = <<>> /\ completions = <<>>
  BY DEF Quiescent
<1>3. ~Answered(w) /\ ~Completed(w) /\ ~Getting(w)
  BY <1>2, EmptyAt DEF Answered, Completed, Getting
<1>4. Fresh(w)
  BY <1>2 DEF Fresh, EndsLate, EndsIn
<1>5. ViewRight(w)
  BY <1>1, <1>3, <1>4 DEF KnowInv, Know
<1>6. eve[w] # "deleted" => Fetch(eve[w])
  BY <1>1 DEF EventType, Fetch
<1> QED
  BY <1>3, <1>5, <1>6 DEF ViewRight

\* While the connection lasts, and whatever is removed, a watch that is set
\* has told the user the value of its node when nothing is under way, except
\* after a deletion, and has reported a deletion that still stands (the two
\* branches of watch_path's callback, config_monitor.hpp:255-262).
THEOREM ViewSettles ==
    ASSUME "loss" \notin Allowed
    PROVE  Spec => []SettledView
<1>1. KnowInv /\ [Next]_vars => KnowInv'
  BY KnowStep
<1>2. KnowInv => SettledView
  BY KnowSettled
<1> QED
  BY <1>1, <1>2, KnowInit, PTL DEF Spec

=============================================================================

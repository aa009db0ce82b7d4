--------------------------- MODULE ZkChain_proofs ---------------------------
(***************************************************************************)
(* Proofs about the chain of one watch_path call: it is in one place, its  *)
(* requests keep their order on the way through the queues, and what it    *)
(* reports goes forward in time.                                           *)
(***************************************************************************)
EXTENDS ZkWatch_proofs

-----------------------------------------------------------------------------
(***************************************************************************)
(* Where the work of a watch is in a queue.                                *)
(***************************************************************************)
\* Entry e is an exists or a get of w, or an event to be delivered to w.
Match(e, o, w) == e.op = o /\ (IF o = "event" THEN w \in e.ws ELSE e.w = w)

Ops == {"exists", "get", "remove", "event"}

At(q, o, w) == {i \in DOMAIN q : Match(q[i], o, w)}
None(q, o, w) == At(q, o, w) = {}
Once(q, o, w) == \A i, j \in At(q, o, w) : i = j
Before(q, o1, o2, w) == \A i \in At(q, o1, w), j \in At(q, o2, w) : i < j

\* For watch w, queue r is queue q with e put at the end.
Puts(q, r, e, w) ==
    /\ \A o \in Ops : None(r, o, w) <=> None(q, o, w) /\ ~Match(e, o, w)
    /\ \A o \in Ops : Once(q, o, w) /\ (Match(e, o, w) => None(q, o, w)) => Once(r, o, w)
    /\ \A o1, o2 \in Ops :
         Before(q, o1, o2, w) /\ (Match(e, o1, w) => None(q, o2, w) /\ ~Match(e, o2, w))
           => Before(r, o1, o2, w)

\* For watch w, queue r is queue q without its first entry e.
Takes(q, r, e, w) ==
    /\ \A o \in Ops : None(q, o, w) <=> None(r, o, w) /\ ~Match(e, o, w)
    /\ \A o \in Ops : Once(q, o, w) => Once(r, o, w) /\ (Match(e, o, w) => None(r, o, w))
    /\ \A o1, o2 \in Ops :
         Before(q, o1, o2, w) => Before(r, o1, o2, w) /\ (Match(e, o2, w) => None(q, o1, w))

\* An entry put at the end of a queue comes after all others.
LEMMA PutAt ==
    ASSUME NEW S, NEW q \in Seq(S), NEW e \in S, NEW w
    PROVE  Puts(q, Append(q, e), e, w)
<1>1. /\ Len(q) \in Nat
      /\ DOMAIN q = 1 .. Len(q)
      /\ DOMAIN Append(q, e) = 1 .. Len(q) + 1
      /\ Append(q, e)[Len(q) + 1] = e
      /\ \A i \in DOMAIN q : Append(q, e)[i] = q[i]
  BY PutLast
<1>2. ASSUME NEW o
      PROVE  At(Append(q, e), o, w) = At(q, o, w) \cup (IF Match(e, o, w) THEN {Len(q) + 1} ELSE {})
  BY <1>1 DEF At
<1>3. ASSUME NEW o PROVE At(q, o, w) \subseteq 1 .. Len(q)
  BY <1>1 DEF At
<1>4. ASSUME NEW o PROVE None(Append(q, e), o, w) <=> None(q, o, w) /\ ~Match(e, o, w)
  BY <1>2 DEF None
<1>5. ASSUME NEW o, Once(q, o, w), Match(e, o, w) => None(q, o, w)
      PROVE  Once(Append(q, e), o, w)
  BY <1>2, <1>5 DEF None, Once
<1>6. ASSUME NEW o1, NEW o2, Before(q, o1, o2, w),
             Match(e, o1, w) => None(q, o2, w) /\ ~Match(e, o2, w)
      PROVE  Before(Append(q, e), o1, o2, w)
  BY <1>1, <1>2, <1>3, <1>6 DEF None, Before
<1> QED
  BY <1>4, <1>5, <1>6 DEF Puts

\* Taking the first entry of a queue.
LEMMA TakeAt ==
    ASSUME NEW S, NEW q \in Seq(S), q # <<>>, NEW w
    PROVE  Takes(q, Tail(q), Head(q), w)
<1>1. /\ Head(q) = q[1]
      /\ Len(q) \in Nat
      /\ DOMAIN q = 1 .. Len(q)
      /\ 1 \in DOMAIN q
      /\ DOMAIN Tail(q) = 1 .. Len(q) - 1
      /\ \A i \in DOMAIN Tail(q) : i + 1 \in DOMAIN q /\ Tail(q)[i] = q[i + 1]
      /\ \A i \in DOMAIN q : i = 1 \/ (i - 1 \in DOMAIN Tail(q) /\ q[i] = Tail(q)[i - 1])
  BY TakeHead
<1>2. ASSUME NEW o
      PROVE  /\ \A i \in At(Tail(q), o, w) : i \in Nat \ {0} /\ i + 1 \in At(q, o, w)
             /\ \A i \in At(q, o, w) : i \in Nat \ {0} /\ (i = 1 \/ i - 1 \in At(Tail(q), o, w))
             /\ 1 \in At(q, o, w) <=> Match(Head(q), o, w)
  BY <1>1 DEF At
<1>3. ASSUME NEW o PROVE None(q, o, w) <=> None(Tail(q), o, w) /\ ~Match(Head(q), o, w)
  BY <1>2 DEF None
<1>4. ASSUME NEW o, Once(q, o, w)
      PROVE  Once(Tail(q), o, w) /\ (Match(Head(q), o, w) => None(Tail(q), o, w))
  BY <1>2, <1>4 DEF None, Once
<1>5. ASSUME NEW o1, NEW o2, Before(q, o1, o2, w)
      PROVE  Before(Tail(q), o1, o2, w) /\ (Match(Head(q), o2, w) => None(q, o1, w))
  BY <1>2, <1>5 DEF None, Before
<1> QED
  BY <1>3, <1>4, <1>5 DEF Takes

\* Nothing is in the empty queue.
LEMMA EmptyAt == \A o, w : None(<<>>, o, w)
  BY DEF None, At

-----------------------------------------------------------------------------
(***************************************************************************)
(* The chain of a watch is in one place.                                   *)
(***************************************************************************)
\* Where the exists of w can be, on its way and when its watch is set.
Requested(w) == ~None(requests, "exists", w)
Answered(w)  == ~None(wire, "exists", w)
Completed(w) == ~None(completions, "exists", w)
Fired(w)     == ~None(completions, "event", w)

\* At most one exists, one event and one get of w are under way.
Single(w) ==
    /\ Once(requests, "exists", w) /\ Once(wire, "exists", w)
    /\ Once(completions, "exists", w) /\ Once(completions, "event", w)
    /\ Requested(w) => ~Answered(w) /\ ~Completed(w) /\ w \notin Armed /\ ~Fired(w)
    /\ Answered(w) => ~Completed(w) /\ w \notin Armed /\ ~Fired(w)
    /\ w \in node_watchers => w \notin exist_watchers
    /\ w \in Armed => ~Fired(w)
    /\ Once(requests, "get", w) /\ Once(wire, "get", w) /\ Once(completions, "get", w)
    /\ ~None(requests, "get", w) => None(wire, "get", w) /\ None(completions, "get", w)
    /\ ~None(wire, "get", w) => None(completions, "get", w)

\* A get that was asked for before an exists is answered and completed before
\* it, and the event of a watch is delivered after the exists that set it.
InOrder(w) ==
    /\ Before(requests, "get", "exists", w)
    /\ Before(wire, "get", "exists", w)
    /\ Before(completions, "get", "exists", w)
    /\ Before(completions, "exists", "event", w)
    /\ Answered(w) => None(requests, "get", w)
    /\ Completed(w) => None(requests, "get", w) /\ None(wire, "get", w)

\* Nothing happens before watch_path has sent its first exists.
NotBegun(w) ==
    call[w] # "watching" =>
        /\ ~Requested(w) /\ ~Answered(w) /\ ~Completed(w) /\ ~Fired(w) /\ w \notin Armed
        /\ None(requests, "get", w) /\ None(wire, "get", w) /\ None(completions, "get", w)

Chain(w) == Single(w) /\ InOrder(w) /\ NotBegun(w)
ChainInv == TypeOK /\ \A w \in Watch : Chain(w)

\* What is first in each of the queues.
LEMMA First ==
    ASSUME TypeOK
    PROVE  /\ requests # <<>> => Head(requests) \in Request
           /\ wire # <<>> => IF Head(wire).op = "event" THEN Head(wire) \in WatcherEvent
                                                        ELSE Head(wire) \in Reply
           /\ completions # <<>> => IF Head(completions).op = "event"
                                    THEN Head(completions) \in FiredEvent
                                    ELSE Head(completions) \in Reply
<1>1. /\ requests # <<>> => Head(requests) \in Request
      /\ wire # <<>> => Head(wire) \in Reply \cup WatcherEvent
      /\ completions # <<>> => Head(completions) \in Reply \cup FiredEvent
  BY TakeHead DEF TypeOK
<1>2. /\ \A m \in Reply : m.op # "event"
      /\ \A m \in WatcherEvent \cup FiredEvent : m.op = "event"
  BY DEF Reply, WatcherEvent, FiredEvent
<1> QED
  BY <1>1, <1>2

\* Steps of other clients, and of the server on SetWatches, put events on the
\* wire only.
LEMMA ChainWire ==
    ASSUME ChainInv, NEW w \in Watch, NEW p \in Path, NEW type \in EventType,
           wire' \in {wire, Append(wire, [op |-> "event", p |-> p, type |-> type])},
           UNCHANGED <<requests, client, completions, call>>
    PROVE  Chain(w)'
<1> DEFINE e == [op |-> "event", p |-> p, type |-> type]
<1>1. e \in Reply \cup WatcherEvent /\ wire \in Seq(Reply \cup WatcherEvent)
  BY DEF WatcherEvent, ChainInv, TypeOK
<1>2. ~Match(e, "exists", w) /\ ~Match(e, "get", w)
  BY DEF Match
<1>3. Puts(wire, Append(wire, e), e, w)
  BY <1>1, PutAt
<1> HIDE DEF e
<1>4. CASE wire' = Append(wire, e)
  BY <1>2, <1>3, <1>4 DEF Puts, Ops, client, ChainInv, Chain, Single, InOrder, NotBegun, Requested, Answered, Completed,
    Fired, Armed
<1>5. CASE wire' = wire
  BY <1>5 DEF client, ChainInv, Chain, Single, InOrder, NotBegun, Requested, Answered, Completed,
    Fired, Armed
<1> QED
  BY <1>4, <1>5 DEF e

\* The server answers the oldest request.
LEMMA ChainServer ==
    ASSUME ChainInv, NEW w \in Watch, requests # <<>>, requests' = Tail(requests),
           NEW rc \in Rc, NEW val \in Nat, wire' = Append(wire, Answer(Head(requests), rc, val)),
           UNCHANGED <<client, completions, call>>
    PROVE  Chain(w)'
<1> DEFINE r == Head(requests)
           m == Answer(r, rc, val)
<1>1. /\ requests \in Seq(Request) /\ wire \in Seq(Reply \cup WatcherEvent)
      /\ m \in Reply \cup WatcherEvent
  <2>1. r \in Request
    BY First DEF ChainInv
  <2> QED
    BY <2>1 DEF Answer, Reply, Request, ChainInv, TypeOK
<1>2. /\ Match(m, "exists", w) <=> Match(r, "exists", w)
      /\ Match(m, "get", w) <=> Match(r, "get", w)
      /\ ~(Match(r, "get", w) /\ Match(r, "exists", w))
  BY DEF Match, Answer
<1>3. Takes(requests, requests', r, w) /\ Puts(wire, wire', m, w)
  BY <1>1, TakeAt, PutAt
<1> HIDE DEF r, m
<1> QED
  BY <1>2, <1>3 DEF Puts, Takes, Ops, client, ChainInv, Chain, Single, InOrder, NotBegun, Requested, Answered, Completed,
    Fired, Armed

\* The IO thread reads the answer to the oldest request, or drops it.
LEMMA ChainReply ==
    ASSUME ChainInv, NEW w \in Watch, wire # <<>>, Head(wire).op # "event", wire' = Tail(wire),
           NEW m \in Reply, m.op = Head(wire).op, m.w = Head(wire).w,
           completions' = Append(completions, m),
           w \in Armed' => w \in Armed \/ Match(m, "exists", w),
           w \in node_watchers' /\ w \in exist_watchers' => w \in Armed,
           w \in node_watchers /\ w \notin exist_watchers /\ ~Match(m, "exists", w)
             => w \notin exist_watchers',
           w \in exist_watchers /\ w \notin node_watchers /\ ~Match(m, "exists", w)
             => w \notin node_watchers',
           UNCHANGED <<requests, call>>
    PROVE  Chain(w)'
<1> DEFINE a == Head(wire)
<1>1. wire \in Seq(Reply \cup WatcherEvent) /\ completions \in Seq(Reply \cup FiredEvent)
  BY DEF ChainInv, TypeOK
<1>2. /\ Match(m, "exists", w) <=> Match(a, "exists", w)
      /\ Match(m, "get", w) <=> Match(a, "get", w)
      /\ ~(Match(a, "get", w) /\ Match(a, "exists", w))
      /\ ~Match(m, "event", w)
  BY DEF Match
<1>3. Takes(wire, wire', a, w) /\ Puts(completions, completions', m, w)
  BY <1>1, TakeAt, PutAt
<1> HIDE DEF a
<1> QED
  BY <1>2, <1>3 DEF Puts, Takes, Ops, ChainInv, Chain, Single, InOrder, NotBegun, Requested, Answered, Completed,
    Fired, Armed

\* When nothing is unread, the oldest request fails.
LEMMA ChainFail ==
    ASSUME ChainInv, NEW w \in Watch, IoFailRequest
    PROVE  Chain(w)'
<1> DEFINE r == Head(requests)
           m == Lost(r)
<1>1. /\ requests # <<>> /\ requests' = Tail(requests) /\ wire = <<>>
      /\ completions' = Append(completions, m) /\ UNCHANGED <<wire, client, call>>
  BY DEF IoFailRequest, queue_completion, user
<1>2. /\ requests \in Seq(Request) /\ completions \in Seq(Reply \cup FiredEvent)
      /\ m \in Reply \cup FiredEvent
  <2>1. r \in Request
    BY <1>1, First DEF ChainInv
  <2> QED
    BY <2>1 DEF Lost, Reply, Request, Rc, ChainInv, TypeOK
<1>3. /\ Match(m, "exists", w) <=> Match(r, "exists", w)
      /\ Match(m, "get", w) <=> Match(r, "get", w)
      /\ ~(Match(r, "get", w) /\ Match(r, "exists", w))
      /\ ~Match(m, "event", w)
  <2>1. r.op \in {"exists", "get", "remove"}
    BY <1>1, First DEF ChainInv, Request
  <2> QED
    BY <2>1 DEF Match, Lost
<1>4. Takes(requests, requests', r, w) /\ Puts(completions, completions', m, w)
  BY <1>1, <1>2, TakeAt, PutAt
<1>5. None(wire, "exists", w) /\ None(wire, "get", w)
  BY <1>1, EmptyAt
<1> HIDE DEF r, m
<1> QED
  BY <1>1, <1>3, <1>4, <1>5 DEF Puts, Takes, Ops, client, ChainInv, Chain, Single, InOrder, NotBegun, Requested, Answered, Completed,
    Fired, Armed

\* An event is read: its watchers go from the tables to the queue.
LEMMA ChainEvent ==
    ASSUME ChainInv, NEW w \in Watch, IoEvent
    PROVE  Chain(w)'
<1> DEFINE e == Head(wire)
           fired == (node_watchers \cup exist_watchers) \cap WatchersOn(e.p)
           c == [op |-> "event", ws |-> fired, type |-> e.type]
<1>1. /\ wire # <<>> /\ e.op = "event" /\ wire' = Tail(wire)
      /\ completions' = Append(completions, c)
      /\ node_watchers' = node_watchers \ fired /\ exist_watchers' = exist_watchers \ fired
      /\ UNCHANGED <<requests, call>>
  BY DEF IoEvent, queue_completion, user
<1>2. /\ wire \in Seq(Reply \cup WatcherEvent) /\ completions \in Seq(Reply \cup FiredEvent)
      /\ c \in Reply \cup FiredEvent
  <2>1. e \in WatcherEvent
    BY <1>1, First DEF ChainInv
  <2> QED
    BY <2>1 DEF FiredEvent, WatcherEvent, ChainInv, TypeOK
<1>3. /\ ~Match(e, "exists", w) /\ ~Match(e, "get", w)
      /\ ~Match(c, "exists", w) /\ ~Match(c, "get", w)
      /\ Match(c, "event", w) <=> w \in fired
  BY <1>1 DEF Match
<1>4. Takes(wire, wire', e, w) /\ Puts(completions, completions', c, w)
  BY <1>1, <1>2, TakeAt, PutAt
<1>5. w \in fired => w \in Armed
  BY DEF Armed
<1> HIDE DEF e, fired, c
<1> QED
  BY <1>1, <1>3, <1>4, <1>5 DEF Puts, Takes, Ops, ChainInv, Chain, Single, InOrder, NotBegun, Requested, Answered, Completed,
    Fired, Armed

\* The other steps of the IO thread and of the connection.
LEMMA ChainIo ==
    ASSUME ChainInv, NEW w \in Watch, IoStep \/ Disconnect
    PROVE  Chain(w)'
<1>1. CASE IoReply
  <2> DEFINE m == Head(wire)
  <2>1. m \in Reply
    BY <1>1, First DEF IoReply, ChainInv
  <2>2. /\ wire # <<>> /\ m.op # "event" /\ wire' = Tail(wire)
        /\ completions' = Append(completions, m) /\ UNCHANGED <<requests, call>>
    BY <1>1 DEF IoReply, queue_completion, user
  <2>3. /\ node_watchers' \subseteq node_watchers \cup ActivateNode(m)
        /\ exist_watchers' \subseteq exist_watchers \cup ActivateExist(m)
    BY <1>1 DEF IoReply
  <2>4. /\ w \in ActivateNode(m) => Match(m, "exists", w) /\ w \notin ActivateExist(m)
        /\ w \in ActivateExist(m) => Match(m, "exists", w) /\ w \notin ActivateNode(m)
    BY DEF ActivateNode, ActivateExist, Match
  <2> HIDE DEF m
  <2> QED
    BY <2>1, <2>2, <2>3, <2>4, ChainReply DEF Armed, m
<1>2. CASE IoEvent
  BY <1>2, ChainEvent
<1>3. CASE IoDropMessage
  <2> DEFINE a == Head(wire)
             m == Lost(a)
  <2>1. wire # <<>> /\ wire' = Tail(wire) /\ UNCHANGED <<requests, client, call>>
    BY <1>3 DEF IoDropMessage, user
  <2>2. CASE a.op = "event"
    <3>1. UNCHANGED completions
      BY <1>3, <2>2 DEF IoDropMessage
    <3>2. Takes(wire, wire', a, w)
      BY <2>1, TakeAt DEF ChainInv, TypeOK
    <3>3. ~Match(a, "exists", w) /\ ~Match(a, "get", w)
      BY <2>2 DEF Match
    <3> HIDE DEF a
    <3> QED
      BY <2>1, <3>1, <3>2, <3>3 DEF Takes, Ops, client, ChainInv, Chain, Single, InOrder, NotBegun, Requested, Answered, Completed,
    Fired, Armed
  <2>3. CASE a.op # "event"
    <3>1. completions' = Append(completions, m)
      BY <1>3, <2>3 DEF IoDropMessage, queue_completion
    <3>2. a \in Reply
      BY <2>1, <2>3, First DEF ChainInv
    <3>3. m \in Reply /\ m.op = a.op /\ m.w = a.w
      BY <3>2 DEF Lost, Reply, Rc
    <3> HIDE DEF m
    <3> QED
      BY <2>1, <2>3, <3>1, <3>3, ChainReply DEF client, Armed
  <2> QED
    BY <2>2, <2>3
<1>4. CASE IoFailRequest
  BY <1>4, ChainFail
<1>5. CASE IoCleanupDone \/ Reconnect \/ Disconnect
  <2>1. UNCHANGED <<requests, wire, client, completions, call>>
    BY <1>5 DEF IoCleanupDone, Reconnect, Disconnect, user
  <2> QED
    BY <2>1 DEF client, ChainInv, Chain, Single, InOrder, NotBegun, Requested, Answered, Completed,
    Fired, Armed
<1> QED
  BY <1>1, <1>2, <1>3, <1>4, <1>5 DEF IoStep

\* Queue r differs from queue q in the watchers of its first entry, an event.
Opened(q, r) ==
    /\ DOMAIN r = DOMAIN q
    /\ \A i \in DOMAIN q : i # 1 => r[i] = q[i]
    /\ q[1].op = "event" /\ r[1].op = "event"

\* Delivering the event at the head of a queue leaves the rest alone.
LEMMA DeliverHead ==
    ASSUME NEW q \in Seq(Reply \cup FiredEvent), q # <<>>, Head(q) \in FiredEvent,
           NEW v, NEW r, r = [q EXCEPT ![1].ws = @ \ {v}]
    PROVE  Opened(q, r)
<1>1. Head(q) = q[1] /\ 1 \in DOMAIN q
  BY TakeHead
<1>2. q[1].op = "event"
  BY <1>1 DEF FiredEvent
<1>3. r = [q EXCEPT ![1] = [q[1] EXCEPT !.ws = @ \ {v}]]
  BY <1>1
<1>4. /\ DOMAIN r = DOMAIN q
      /\ \A i \in DOMAIN q : i # 1 => r[i] = q[i]
      /\ r[1] = [q[1] EXCEPT !.ws = @ \ {v}]
  BY <1>1, <1>3
<1>5. r[1].op = "event"
  BY <1>1, <1>2, <1>4 DEF FiredEvent
<1> QED
  BY <1>2, <1>4, <1>5 DEF Opened

\* For watch w, queue r is queue q after the delivery of its first entry to v.
Delivers(q, r, v, w) ==
    /\ \A o \in {"exists", "get"} : At(r, o, w) = At(q, o, w)
    /\ At(r, "event", w) \subseteq At(q, "event", w)
    /\ 1 \in At(q, "event", v)
    /\ At(r, "event", v) = At(q, "event", v) \ {1}
    /\ \A o : At(q, o, w) \subseteq Nat \ {0}

\* Delivering the event at the head of a queue to watch v.
LEMMA DeliverAt ==
    ASSUME NEW q \in Seq(Reply \cup FiredEvent), q # <<>>, Head(q) \in FiredEvent,
           NEW v, v \in Head(q).ws, NEW w,
           NEW r, r = [q EXCEPT ![1].ws = @ \ {v}]
    PROVE  Delivers(q, r, v, w)
<1>1. Head(q) = q[1] /\ 1 \in DOMAIN q /\ Len(q) \in Nat /\ DOMAIN q = 1 .. Len(q)
  BY TakeHead
<1>2. q[1].op = "event"
  BY <1>1 DEF FiredEvent
<1>3. r = [q EXCEPT ![1] = [q[1] EXCEPT !.ws = @ \ {v}]]
  BY <1>1
<1>4. /\ DOMAIN r = DOMAIN q
      /\ \A i \in DOMAIN q : i # 1 => r[i] = q[i]
      /\ r[1] = [q[1] EXCEPT !.ws = @ \ {v}]
  BY <1>1, <1>3
<1>5. r[1].op = "event" /\ r[1].ws = q[1].ws \ {v}
  BY <1>1, <1>2, <1>4 DEF FiredEvent
<1> QED
  BY <1>1, <1>2, <1>4, <1>5 DEF At, Match, Delivers

\* wfn of watch v: its event is exchanged for an exists.
LEMMA ChainWatcher ==
    ASSUME ChainInv, NEW w \in Watch, NEW v \in Watch, RunWatcher(v)
    PROVE  Chain(w)'
<1> DEFINE r == [op |-> "exists", w |-> v]
<1>1. /\ completions # <<>> /\ Head(completions).op = "event" /\ v \in Head(completions).ws
      /\ completions' = [completions EXCEPT ![1].ws = @ \ {v}]
      /\ requests' = Append(requests, r)
      /\ UNCHANGED <<wire, client, call>>
  BY DEF RunWatcher, Completes, Submit, user
<1>2. r \in Request /\ requests \in Seq(Request) /\ completions \in Seq(Reply \cup FiredEvent)
  BY DEF Request, ChainInv, TypeOK
<1>3. Head(completions) \in FiredEvent
  BY <1>1, First DEF ChainInv
<1>4. /\ \A o \in {"exists", "get"} : At(completions', o, w) = At(completions, o, w)
      /\ At(completions', "event", w) \subseteq At(completions, "event", w)
      /\ 1 \in At(completions, "event", v)
      /\ At(completions', "event", v) = At(completions, "event", v) \ {1}
      /\ \A o : At(completions, o, w) \subseteq Nat \ {0}
  <2>1. Delivers(completions, completions', v, w)
    BY <1>1, <1>2, <1>3, DeliverAt
  <2> QED
    BY <2>1 DEF Delivers
<1>5. /\ \A o \in {"exists", "get"} : /\ None(completions', o, w) <=> None(completions, o, w)
                                      /\ Once(completions', o, w) <=> Once(completions, o, w)
      /\ None(completions, "event", w) => None(completions', "event", w)
      /\ Once(completions, "event", w) => Once(completions', "event", w)
      /\ Before(completions, "get", "exists", w) => Before(completions', "get", "exists", w)
      /\ Before(completions, "exists", "event", w) => Before(completions', "exists", "event", w)
      /\ w = v => /\ ~None(completions, "event", w)
                  /\ Once(completions, "event", w) => None(completions', "event", w)
                  /\ Before(completions, "exists", "event", w) => None(completions, "exists", w)
  <2>1. w = v /\ Before(completions, "exists", "event", w) => At(completions, "exists", w) = {}
    BY <1>4 DEF Before
  <2> QED
    BY <1>4, <2>1 DEF None, Once, Before
<1>6. Puts(requests, requests', r, w)
  BY <1>1, <1>2, PutAt
<1>7. /\ Match(r, "exists", w) <=> w = v
      /\ ~Match(r, "get", w)
  BY DEF Match
<1> HIDE DEF r
<1> QED
  BY <1>1, <1>5, <1>6, <1>7 DEF Puts, Ops, client, ChainInv, Chain, Single, InOrder, NotBegun, Requested, Answered, Completed,
    Fired, Armed

\* The other completions: the callback of an exists may ask for a get.
LEMMA ChainRun ==
    ASSUME ChainInv, NEW w \in Watch, NEW c, c = Head(completions), completions # <<>>,
           completions' = Tail(completions),
           NEW r, r = [op |-> "get", w |-> c.w],
           \/ UNCHANGED requests
           \/ requests' = Append(requests, r) /\ c.op = "exists",
           UNCHANGED <<wire, client, call>>
    PROVE  Chain(w)'
<1>1. completions \in Seq(Reply \cup FiredEvent) /\ requests \in Seq(Request)
  BY DEF ChainInv, TypeOK
<1>2. Takes(completions, completions', c, w)
  BY <1>1, TakeAt
<1>3. CASE UNCHANGED requests
  BY <1>2, <1>3 DEF Takes, Ops, client, ChainInv, Chain, Single, InOrder, NotBegun, Requested, Answered, Completed,
    Fired, Armed
<1>4. CASE requests' = Append(requests, r) /\ c.op = "exists"
  <2>1. c \in Reply
    BY <1>4, First DEF ChainInv
  <2>2. r \in Request
    BY <2>1 DEF Reply, Request
  <2>3. Puts(requests, requests', r, w)
    BY <1>1, <1>4, <2>2, PutAt
  <2>4. /\ ~Match(r, "exists", w)
        /\ Match(r, "get", w) <=> Match(c, "exists", w)
    BY <1>4 DEF Match
  <2> QED
    BY <1>2, <2>3, <2>4 DEF Puts, Takes, Ops, client, ChainInv, Chain, Single, InOrder, NotBegun, Requested, Answered, Completed,
    Fired, Armed
<1> QED
  BY <1>3, <1>4

\* Steps of the completion thread.
LEMMA ChainCompletion ==
    ASSUME ChainInv, NEW w \in Watch, CompletionStep
    PROVE  Chain(w)'
<1>1. ASSUME NEW v \in Watch, RunWatcher(v) PROVE Chain(w)'
  BY <1>1, ChainWatcher
<1>2. CASE WatchersDone
  BY <1>2, ChainRun DEF WatchersDone, Completes, user
<1>3. CASE RunExists
  BY <1>3, ChainRun DEF RunExists, Completes, Submit, user
<1>4. CASE RunGet
  BY <1>4, ChainRun DEF RunGet, Completes, user
<1>5. CASE RunRemove
  BY <1>5, ChainRun DEF RunRemove, Completes
<1> QED
  BY <1>1, <1>2, <1>3, <1>4, <1>5 DEF CompletionStep

\* Steps of user threads.
LEMMA ChainUser ==
    ASSUME ChainInv, NEW w \in Watch, NEW v \in Watch,
           WatchRecord(v) \/ WatchSend(v) \/ RemoveWatches(v)
    PROVE  Chain(w)'
<1>1. CASE WatchRecord(v)
  <2>1. UNCHANGED <<requests, wire, client, completions>> /\ (call'[w] # "watching" => call[w] # "watching")
    BY <1>1 DEF WatchRecord, ChainInv, TypeOK
  <2> QED
    BY <2>1 DEF client, ChainInv, Chain, Single, InOrder, NotBegun, Requested, Answered, Completed,
    Fired, Armed
<1>2. ASSUME NEW op \in {"exists", "remove"}, requests' = Append(requests, [op |-> op, w |-> v]),
             op = "exists" => call[v] # "watching",
             op = "exists" /\ w = v => call'[w] = "watching",
             call'[w] # "watching" => call[w] # "watching",
             UNCHANGED <<wire, client, completions>>
      PROVE  Chain(w)'
  <2> DEFINE r == [op |-> op, w |-> v]
  <2>1. r \in Request /\ requests \in Seq(Request)
    BY DEF Request, ChainInv, TypeOK
  <2>2. Puts(requests, requests', r, w)
    BY <1>2, <2>1, PutAt
  <2>3. /\ ~Match(r, "get", w)
        /\ Match(r, "exists", w) <=> op = "exists" /\ w = v
    BY DEF Match
  <2> HIDE DEF r
  <2> QED
    BY <1>2, <2>2, <2>3 DEF Puts, Ops, client, ChainInv, Chain, Single, InOrder, NotBegun, Requested, Answered, Completed,
    Fired, Armed
<1>3. CASE WatchSend(v)
  BY <1>2, <1>3 DEF WatchSend, Submit, ChainInv, TypeOK
<1>4. CASE RemoveWatches(v)
  BY <1>2, <1>4 DEF RemoveWatches, Submit, user
<1> QED
  BY <1>1, <1>3, <1>4

\* Every step keeps every chain in order.
LEMMA ChainStep == ChainInv /\ [Next]_vars => ChainInv'
<1> SUFFICES ASSUME ChainInv, [Next]_vars PROVE ChainInv'
  OBVIOUS
<1>1. TypeOK'
  BY TypeStep DEF ChainInv
<1> SUFFICES ASSUME NEW w \in Watch PROVE Chain(w)'
  BY <1>1 DEF ChainInv
<1>2. CASE OtherClients
  <2>1. ASSUME NEW p \in Path, SrvWrite(p) PROVE Chain(w)'
    BY <2>1, ChainWire DEF SrvWrite, Trigger, EventType, user
  <2>2. ASSUME NEW p \in Path, SrvDelete(p) PROVE Chain(w)'
    BY <2>2, ChainWire DEF SrvDelete, Trigger, EventType, user
  <2> QED
    BY <1>2, <2>1, <2>2 DEF OtherClients
<1>3. CASE ServerStep
  <2>1. ASSUME NEW entry \in SetWatchesEntry, SrvSetWatch(entry) PROVE Chain(w)'
    <3>1. entry[2] \in Path
      BY DEF SetWatchesEntry
    <3>2. \E type \in EventType :
             wire' \in {wire, Append(wire, [op |-> "event", p |-> entry[2], type |-> type])}
      BY <2>1 DEF SrvSetWatch, EventType
    <3>3. UNCHANGED <<requests, client, completions, call>>
      BY <2>1 DEF SrvSetWatch, user
    <3> QED
      BY <3>1, <3>2, <3>3, ChainWire
  <2>2. ASSUME requests # <<>> PROVE node[PathOf[Head(requests).w]] \in Nat
    <3>1. Head(requests) \in Request
      BY <2>2, First DEF ChainInv
    <3>2. PathOf[Head(requests).w] \in Path
      BY <3>1, PathOfAssumption DEF Request
    <3> QED
      BY <3>2 DEF ChainInv, TypeOK
  <2>3. CASE SrvExists
    BY <2>3, ChainServer DEF SrvExists, SrvHandles, Rc, user
  <2>4. CASE SrvGet
    BY <2>2, <2>4, ChainServer DEF SrvGet, SrvHandles, Rc, user
  <2>5. CASE SrvRemoveWatches
    BY <2>5, ChainServer DEF SrvRemoveWatches, SrvHandles, Rc, user
  <2> QED
    BY <1>3, <2>1, <2>3, <2>4, <2>5 DEF ServerStep
<1>4. CASE IoStep \/ Disconnect
  BY <1>4, ChainIo
<1>5. CASE CompletionStep
  BY <1>5, ChainCompletion
<1>6. ASSUME NEW v \in Watch, WatchRecord(v) \/ WatchSend(v) \/ RemoveWatches(v)
      PROVE  Chain(w)'
  BY <1>6, ChainUser
<1>7. CASE UNCHANGED vars
  BY <1>7 DEF vars, client, user, ChainInv, Chain, Single, InOrder, NotBegun, Requested, Answered, Completed,
    Fired, Armed
<1> QED
  BY <1>2, <1>3, <1>4, <1>5, <1>6, <1>7 DEF Next

\* At first nothing is under way.
LEMMA ChainInit == Init => ChainInv
<1> SUFFICES ASSUME Init PROVE ChainInv
  OBVIOUS
<1>1. TypeOK
  BY TypeInit
<1>2. ASSUME NEW w PROVE Chain(w)
  <2>1. \A o : None(requests, o, w) /\ None(wire, o, w) /\ None(completions, o, w)
    BY EmptyAt DEF Init
  <2>2. node_watchers = {} /\ exist_watchers = {}
    BY DEF Init
  <2> QED
    BY <2>1, <2>2 DEF None, Once, Before, Chain, Single, InOrder, NotBegun, Requested, Answered,
      Completed, Fired, Armed
<1> QED
  BY <1>1, <1>2 DEF ChainInv

\* Every reachable state keeps every chain in order.
LEMMA ChainHolds == Spec => []ChainInv
  BY ChainInit, ChainStep, PTL DEF Spec

\* A chain that is in order has one carrier at most.
LEMMA ChainOne == ChainInv => OneCarrier
<1> SUFFICES ASSUME ChainInv, NEW w \in Watch, NEW a \in Carriers(w), NEW b \in Carriers(w)
             PROVE  a = b
  BY DEF OneCarrier
<1>1. Single(w)
  BY DEF ChainInv, Chain
<1>2. ASSUME NEW c \in Carriers(w)
      PROVE  \/ \E i \in At(requests, "exists", w) : c = <<"requested", i>>
             \/ \E i \in At(wire, "exists", w) : c = <<"answered", i>>
             \/ w \in node_watchers /\ c = <<"node", 0>>
             \/ w \in exist_watchers /\ c = <<"exist", 0>>
             \/ \E i \in At(completions, "event", w) : c = <<"fired", i>>
  BY <1>2 DEF Carriers, At, Match
<1>3. /\ \A o : None(requests, o, w) <=> ~\E i \in At(requests, o, w) : TRUE
      /\ \A o : None(wire, o, w) <=> ~\E i \in At(wire, o, w) : TRUE
      /\ \A o : None(completions, o, w) <=> ~\E i \in At(completions, o, w) : TRUE
  BY DEF None
<1>4. CASE Requested(w)
  BY <1>1, <1>2, <1>3, <1>4 DEF Single, Once, Requested, Answered, Fired, Armed
<1>5. CASE Answered(w)
  BY <1>1, <1>2, <1>3, <1>5 DEF Single, Once, Requested, Answered, Fired, Armed
<1>6. CASE ~Requested(w) /\ ~Answered(w)
  BY <1>1, <1>2, <1>3, <1>6 DEF Single, Once, Requested, Answered, Fired, Armed
<1> QED
  BY <1>4, <1>5, <1>6

\* Re-arming never doubles a watch: in every reachable state the one-shot watch
\* of a watch_path call is in one place at most (wfn of watch_path_event,
\* cppzk.hpp:338), whatever is lost, removed or re-sent.
THEOREM ChainOnce == Spec => []OneCarrier
  BY ChainHolds, ChainOne, PTL


-----------------------------------------------------------------------------
(***************************************************************************)
(* The values a watch is told go forward.                                  *)
(***************************************************************************)
\* The entries of w in a queue.
In(q, o, w) == {q[i] : i \in At(q, o, w)}

\* For watch w, queue r has the entries of queue q and entry e.
Gains(q, r, e, w) == \A o : In(r, o, w) = In(q, o, w) \cup (IF Match(e, o, w) THEN {e} ELSE {})

\* The values of w that were read and not yet reported.
Got(w) == {m \in In(wire, "get", w) \cup In(completions, "get", w) : m.rc = "ZOK"}

\* The exists of w that found no node, or that was lost.
Missing(w) == {m \in In(wire, "exists", w) \cup In(completions, "exists", w) : m.rc = "ZNONODE"}
GaveUp(w) == {m \in In(completions, "exists", w) : m.rc = "ZCONNECTIONLOSS"}

\* Something of w is under way or armed that can still lead to a new get.
Active(w) ==
    \/ Requested(w) \/ Answered(w) \/ Completed(w) \/ Fired(w) \/ w \in Armed
    \/ ~None(requests, "get", w)

\* Nothing that was told to w is newer than the node.
ToldPast(w) ==
    /\ high[w] <= zxid /\ node[PathOf[w]] <= zxid
    /\ node[PathOf[w]] # Absent => high[w] <= node[PathOf[w]]
    /\ high[w] = zxid => zxid = 0 \/ node[PathOf[w]] = zxid

\* A value that was read lies between what was told and the node.
GotBetween(w) ==
    \A m \in Got(w) :
        /\ 0 < m.val /\ high[w] <= m.val /\ m.val <= zxid
        /\ node[PathOf[w]] # Absent => m.val <= node[PathOf[w]]
        /\ m.val = zxid => node[PathOf[w]] = zxid

\* A node that exists although w's exists found none is new to w.
MissingNew(w) ==
    Missing(w) # {} /\ node[PathOf[w]] # Absent =>
        /\ high[w] < node[PathOf[w]]
        /\ \A m \in Got(w) : m.val < node[PathOf[w]]

\* A lost exists ends the chain; answers of the server are never losses.
LostEnds(w) ==
    /\ \A m \in In(wire, "exists", w) : m.rc \in {"ZOK", "ZNONODE"}
    /\ \A m \in In(completions, "exists", w) : m.rc \in {"ZOK", "ZNONODE", "ZCONNECTIONLOSS"}
    /\ GaveUp(w) # {} => ~Requested(w) /\ ~Answered(w) /\ ~Fired(w) /\ w \notin Armed

\* What w was told last, and when it has been told nothing.
ToldLast(w) ==
    /\ view[w] \in {Unheard, Deleted, high[w]}
    /\ view[w] = Unheard => high[w] = 0
    /\ call[w] # "watching" => view[w] = Unheard

\* After a del, what w can still read is newer than all it was told.
FreshAfterDel(w) ==
    view[w] = Deleted =>
        /\ \A m \in Got(w) : high[w] < m.val
        /\ Active(w) /\ node[PathOf[w]] # Absent => high[w] < node[PathOf[w]]

Values(w) ==
    /\ ToldPast(w) /\ GotBetween(w) /\ MissingNew(w) /\ LostEnds(w) /\ ToldLast(w)
    /\ FreshAfterDel(w)
ValueInv == ChainInv /\ \A w \in Watch : Values(w)


\* An entry put at the end of a queue joins the entries of its watch.
LEMMA PutIn ==
    ASSUME NEW S, NEW q \in Seq(S), NEW e \in S, NEW w
    PROVE  Gains(q, Append(q, e), e, w)
<1> SUFFICES ASSUME NEW o
             PROVE  In(Append(q, e), o, w) = In(q, o, w) \cup (IF Match(e, o, w) THEN {e} ELSE {})
  BY DEF Gains
<1>1. /\ Len(q) \in Nat
      /\ DOMAIN q = 1 .. Len(q)
      /\ DOMAIN Append(q, e) = 1 .. Len(q) + 1
      /\ Append(q, e)[Len(q) + 1] = e
      /\ \A i \in DOMAIN q : Append(q, e)[i] = q[i]
  BY PutLast
<1>2. At(Append(q, e), o, w) = At(q, o, w) \cup (IF Match(e, o, w) THEN {Len(q) + 1} ELSE {})
  BY <1>1 DEF At
<1>3. \A i \in At(q, o, w) : Append(q, e)[i] = q[i]
  BY <1>1 DEF At
<1> QED
  BY <1>1, <1>2, <1>3 DEF In

\* The first entry of a queue leaves the entries of its watch.
LEMMA TakeIn ==
    ASSUME NEW S, NEW q \in Seq(S), q # <<>>, NEW w
    PROVE  Gains(Tail(q), q, Head(q), w)
<1> SUFFICES ASSUME NEW o
             PROVE  In(q, o, w) = In(Tail(q), o, w) \cup (IF Match(Head(q), o, w) THEN {Head(q)} ELSE {})
  BY DEF Gains
<1>1. /\ Head(q) = q[1]
      /\ 1 \in DOMAIN q
      /\ \A i \in DOMAIN Tail(q) : i + 1 \in DOMAIN q /\ Tail(q)[i] = q[i + 1]
      /\ \A i \in DOMAIN q : i = 1 \/ (i - 1 \in DOMAIN Tail(q) /\ q[i] = Tail(q)[i - 1])
  BY TakeHead
<1>2. ASSUME NEW m \in In(q, o, w)
      PROVE  m \in In(Tail(q), o, w) \cup (IF Match(Head(q), o, w) THEN {Head(q)} ELSE {})
  <2>1. PICK i \in DOMAIN q : m = q[i] /\ Match(q[i], o, w)
    BY DEF In, At
  <2>2. CASE i = 1
    BY <1>1, <2>1, <2>2
  <2>3. CASE i # 1
    BY <1>1, <2>1, <2>3 DEF In, At
  <2> QED
    BY <2>2, <2>3
<1>3. ASSUME NEW m \in In(Tail(q), o, w) PROVE m \in In(q, o, w)
  <2>1. PICK i \in DOMAIN Tail(q) : m = Tail(q)[i] /\ Match(Tail(q)[i], o, w)
    BY DEF In, At
  <2>2. i + 1 \in DOMAIN q /\ q[i + 1] = m /\ Match(q[i + 1], o, w)
    BY <1>1, <2>1
  <2> QED
    BY <2>2 DEF In, At
<1>4. Match(Head(q), o, w) => Head(q) \in In(q, o, w)
  BY <1>1 DEF In, At
<1> QED
  BY <1>2, <1>3, <1>4

\* A queue has an entry of w, or none.
LEMMA NoneIn == \A q, o, w : None(q, o, w) <=> In(q, o, w) = {}
  BY DEF None, In

\* The entries of a watch are of its kind; its answers have a code and a value.
LEMMA InType ==
    ASSUME NEW S, NEW q \in Seq(Reply \cup S), NEW o \in {"exists", "get"}, NEW w,
           \A m \in S : m.op = "event",
           NEW m \in In(q, o, w)
    PROVE  m \in Reply /\ m.op = o /\ m.w = w
<1>1. PICK i \in DOMAIN q : m = q[i] /\ Match(m, o, w)
  BY DEF In, At
<1>2. m \in Reply \cup S
  BY <1>1, ElementOfSeq
<1> QED
  BY <1>1, <1>2 DEF Match


\* A step after which w has no more under way than before.
LEMMA ValuesFrame ==
    ASSUME ValueInv, NEW w \in Watch, LostEnds(w)',
           UNCHANGED <<zxid, node>>, view'[w] = view[w], high'[w] = high[w],
           Got(w)' \subseteq Got(w),
           Missing(w)' \subseteq Missing(w) \/ node[PathOf[w]] = Absent,
           Active(w)' => Active(w) \/ view[w] # Deleted,
           call'[w] # "watching" => call[w] # "watching"
    PROVE  Values(w)'
<1>1. Values(w)
  BY DEF ValueInv
<1>2. (ToldPast(w) /\ GotBetween(w) /\ MissingNew(w))'
  BY <1>1 DEF Values, ToldPast, GotBetween, MissingNew
<1>3. (ToldLast(w) /\ FreshAfterDel(w))'
  BY <1>1 DEF Values, ToldLast, FreshAfterDel
<1> QED
  BY <1>2, <1>3 DEF Values

\* What the types say about the answers of w and about its values.
LEMMA ValueType ==
    ASSUME TypeOK, NEW w \in Watch
    PROVE  /\ \A m \in Got(w) : m.val \in Nat
           /\ zxid \in Nat /\ high[w] \in Nat /\ node[PathOf[w]] \in Nat /\ PathOf[w] \in Path
<1>1. /\ \A m \in WatcherEvent : m.op = "event"
      /\ \A m \in FiredEvent : m.op = "event"
  BY DEF WatcherEvent, FiredEvent
<1>2. \A m \in In(wire, "get", w) : m \in Reply
  BY <1>1, InType DEF TypeOK
<1>3. \A m \in In(completions, "get", w) : m \in Reply
  BY <1>1, InType DEF TypeOK
<1> QED
  BY <1>2, <1>3, PathOfAssumption DEF Got, Reply, TypeOK

\* An event is put on the wire, or nothing.
LEMMA ValuesWire ==
    ASSUME ValueInv, NEW w \in Watch, NEW p \in Path, NEW type \in EventType,
           wire' \in {wire, Append(wire, [op |-> "event", p |-> p, type |-> type])},
           UNCHANGED <<requests, client, completions, call>>
    PROVE  /\ Got(w)' = Got(w) /\ Missing(w)' = Missing(w) /\ LostEnds(w)'
           /\ Active(w)' <=> Active(w)
<1> DEFINE e == [op |-> "event", p |-> p, type |-> type]
<1>1. wire \in Seq(Reply \cup WatcherEvent) /\ e \in Reply \cup WatcherEvent
  BY DEF ValueInv, ChainInv, TypeOK, WatcherEvent
<1>2. ~Match(e, "exists", w) /\ ~Match(e, "get", w)
  BY DEF Match
<1> HIDE DEF e
<1>3. Gains(wire, Append(wire, e), e, w)
  BY <1>1, PutIn
<1>4. /\ In(Append(wire, e), "exists", w) = In(wire, "exists", w)
      /\ In(Append(wire, e), "get", w) = In(wire, "get", w)
  BY <1>2, <1>3 DEF Gains
<1>5. In(wire', "exists", w) = In(wire, "exists", w) /\ In(wire', "get", w) = In(wire, "get", w)
  BY <1>4 DEF e
<1>6. LostEnds(w)
  BY DEF ValueInv, Values
<1> QED
  BY <1>5, <1>6, NoneIn DEF Got, Missing, LostEnds, GaveUp, Active, Requested, Answered,
    Completed, Fired, Armed, client

\* Other clients write or delete: the node becomes newer than all that is
\* known of it.
LEMMA ValuesOthers ==
    ASSUME ValueInv, NEW w \in Watch, NEW p \in Path, SrvWrite(p) \/ SrvDelete(p)
    PROVE  Values(w)'
<1>1. Values(w) /\ TypeOK
  BY DEF ValueInv, ChainInv
<1>2. PICK type \in EventType :
         wire' \in {wire, Append(wire, [op |-> "event", p |-> p, type |-> type])}
  BY DEF SrvWrite, SrvDelete, Trigger, EventType
<1>4. /\ zxid' = zxid + 1
      /\ node'[PathOf[w]] \in {node[PathOf[w]], zxid + 1, Absent}
      /\ UNCHANGED <<requests, client, completions, view, high, call>>
  BY <1>1, ValueType DEF SrvWrite, SrvDelete, user, told, TypeOK
<1>5. Got(w)' = Got(w) /\ Missing(w)' = Missing(w) /\ LostEnds(w)' /\ (Active(w)' <=> Active(w))
  BY <1>2, <1>4, ValuesWire
<1>6. (ToldPast(w) /\ GotBetween(w))'
  BY <1>1, <1>4, <1>5, ValueType DEF Values, ToldPast, GotBetween, Absent
<1>7. MissingNew(w)' /\ FreshAfterDel(w)'
  BY <1>1, <1>4, <1>5, ValueType DEF Values, ToldPast, GotBetween, MissingNew, FreshAfterDel, Absent
<1>8. ToldLast(w)'
  BY <1>1, <1>4 DEF Values, ToldLast
<1> QED
  BY <1>5, <1>6, <1>7, <1>8 DEF Values


\* The server handles SetWatches and the requests: a get reads the node.
LEMMA ValuesServer ==
    ASSUME ValueInv, NEW w \in Watch, SrvExists \/ SrvGet \/ SrvRemoveWatches
    PROVE  Values(w)'
<1> DEFINE r == Head(requests)
           p == PathOf[r.w]
<1>1. Values(w) /\ Chain(w) /\ TypeOK
  BY DEF ValueInv, ChainInv
<1>2. /\ requests # <<>> /\ requests' = Tail(requests)
      /\ UNCHANGED <<zxid, node, client, completions, view, high, call>>
  BY DEF SrvExists, SrvGet, SrvRemoveWatches, SrvHandles, told, user
<1>3. r \in Request /\ node[p] \in Nat
  BY <1>1, <1>2, First, PathOfAssumption DEF Request, TypeOK
<1>4. PICK rc \in Rc, val \in Nat :
        /\ wire' = Append(wire, Answer(r, rc, val))
        /\ r.op = "exists" => rc = IF node[p] = Absent THEN "ZNONODE" ELSE "ZOK"
        /\ r.op = "get" => rc = (IF node[p] = Absent THEN "ZNONODE" ELSE "ZOK") /\ val = node[p]
  BY <1>3 DEF SrvExists, SrvGet, SrvRemoveWatches, SrvHandles, Rc
<1> DEFINE m == Answer(r, rc, val)
<1>5. m \in Reply /\ m.op = r.op /\ m.w = r.w /\ m.rc = rc /\ m.val = val
  BY <1>1, <1>3 DEF Answer, Reply, Request, TypeOK
<1>6. requests \in Seq(Request) /\ wire \in Seq(Reply \cup WatcherEvent)
  BY <1>1 DEF TypeOK
<1> HIDE DEF m
<1>7. Takes(requests, requests', r, w) /\ Gains(wire, wire', m, w)
  BY <1>2, <1>4, <1>5, <1>6, TakeAt, PutIn DEF m
<1>8. /\ Match(m, "exists", w) <=> r.op = "exists" /\ r.w = w
      /\ Match(r, "exists", w) <=> r.op = "exists" /\ r.w = w
      /\ Match(m, "get", w) <=> r.op = "get" /\ r.w = w
      /\ Match(r, "get", w) <=> r.op = "get" /\ r.w = w
  BY <1>5 DEF Match
<1> HIDE DEF r
<1>9. LostEnds(w)' /\ (Active(w)' => Active(w))
  <2>1. In(wire', "exists", w) = In(wire, "exists", w) \cup (IF r.op = "exists" /\ r.w = w THEN {m} ELSE {})
    BY <1>7, <1>8 DEF Gains
  <2>2. /\ Requested(w)' => Requested(w)
        /\ r.op = "exists" /\ r.w = w => Requested(w)
        /\ ~None(requests', "get", w) => ~None(requests, "get", w)
    BY <1>7, <1>8 DEF Takes, Ops, Requested
  <2>3. Answered(w)' => Answered(w) \/ Requested(w)
    BY <2>1, <2>2, NoneIn DEF Answered
  <2>4. /\ Fired(w)' = Fired(w) /\ Completed(w)' = Completed(w) /\ Armed' = Armed
        /\ GaveUp(w)' = GaveUp(w)
    BY <1>2 DEF Fired, Completed, Armed, client, GaveUp
  <2>5. m.op = "exists" => m.rc \in {"ZOK", "ZNONODE"}
    BY <1>4, <1>5
  <2> QED
    BY <1>1, <1>2, <1>5, <2>1, <2>2, <2>3, <2>4, <2>5 DEF Values, LostEnds, Active
<1>10. CASE r.op # "get" \/ r.w # w
  <2>1. Got(w)' \subseteq Got(w)
    BY <1>2, <1>7, <1>8, <1>10 DEF Gains, Got
  <2>2. Missing(w)' \subseteq Missing(w) \/ node[PathOf[w]] = Absent
    BY <1>2, <1>4, <1>5, <1>7, <1>8 DEF Gains, Missing
  <2> QED
    BY <1>2, <1>9, <2>1, <2>2, ValuesFrame
<1>11. CASE r.op = "get" /\ r.w = w
  <2>1. ~None(requests, "get", w)
    BY <1>7, <1>8, <1>11 DEF Takes, Ops
  <2>2. Missing(w) = {} /\ Active(w)
    BY <1>1, <2>1, NoneIn DEF Chain, InOrder, Answered, Completed, Missing, Active
  <2>3. Missing(w)' = Missing(w)
    BY <1>2, <1>7, <1>8, <1>11 DEF Gains, Missing
  <2>4. Got(w)' \subseteq Got(w) \cup (IF rc = "ZOK" THEN {m} ELSE {})
    BY <1>2, <1>5, <1>7, <1>8, <1>11 DEF Gains, Got
  <2>5. rc = "ZOK" => m.val = node[PathOf[w]] /\ node[PathOf[w]] # Absent
    BY <1>4, <1>5, <1>11
  <2>6. GotBetween(w)' /\ MissingNew(w)' /\ FreshAfterDel(w)'
    BY <1>1, <1>2, <1>9, <2>2, <2>3, <2>4, <2>5, ValueType
      DEF Values, ToldPast, GotBetween, MissingNew, FreshAfterDel, Absent
  <2>7. ToldPast(w)' /\ ToldLast(w)'
    BY <1>1, <1>2 DEF Values, ToldPast, ToldLast
  <2> QED
    BY <1>9, <2>6, <2>7 DEF Values
<1> QED
  BY <1>10, <1>11


\* The answer to the oldest request goes from the wire to the queue, or is
\* lost and fails there.
LEMMA ValuesReply ==
    ASSUME ValueInv, NEW w \in Watch, wire # <<>>, Head(wire).op # "event", wire' = Tail(wire),
           NEW m \in Reply, m \in {Head(wire), Lost(Head(wire))},
           completions' = Append(completions, m),
           w \in Armed' => w \in Armed \/ Match(Head(wire), "exists", w),
           m # Head(wire) => Armed' = Armed,
           UNCHANGED <<zxid, node, requests, call, view, high>>
    PROVE  Values(w)'
<1> DEFINE a == Head(wire)
<1>1. Values(w) /\ Chain(w) /\ TypeOK
  BY DEF ValueInv, ChainInv
<1>2. wire \in Seq(Reply \cup WatcherEvent) /\ completions \in Seq(Reply \cup FiredEvent)
  BY <1>1 DEF TypeOK
<1>3. /\ Gains(wire', wire, a, w) /\ Gains(completions, completions', m, w)
      /\ Takes(wire, wire', a, w)
  BY <1>2, TakeAt, TakeIn, PutIn
<1>4. /\ m.op = a.op /\ m.w = a.w
      /\ m.rc = a.rc \/ m.rc = "ZCONNECTIONLOSS"
      /\ m = a \/ m.rc = "ZCONNECTIONLOSS"
  BY DEF Lost
<1> HIDE DEF a
<1>5. /\ Match(m, "exists", w) <=> Match(a, "exists", w)
      /\ Match(m, "get", w) <=> Match(a, "get", w)
      /\ ~Match(m, "event", w)
  BY <1>4 DEF Match, a
<1>6. Match(a, "exists", w) => /\ Answered(w) /\ a \in In(wire, "exists", w)
                               /\ None(wire', "exists", w)
  BY <1>1, <1>3 DEF Gains, Takes, Ops, Chain, Single, Answered
<1>7. Got(w)' \subseteq Got(w) /\ Missing(w)' \subseteq Missing(w)
  BY <1>3, <1>4, <1>5 DEF Gains, Got, Missing
<1>8. /\ Requested(w)' = Requested(w) /\ (Answered(w)' => Answered(w))
      /\ Completed(w)' => Completed(w) \/ Answered(w)
      /\ Fired(w)' = Fired(w)
      /\ w \in Armed' => w \in Armed \/ Answered(w)
  BY <1>3, <1>5, <1>6, NoneIn DEF Gains, Takes, Ops, Requested, Answered, Completed, Fired, a
<1>9. LostEnds(w)'
  <2>1. /\ In(completions', "exists", w)
             = In(completions, "exists", w) \cup (IF Match(a, "exists", w) THEN {m} ELSE {})
        /\ In(wire', "exists", w) \subseteq In(wire, "exists", w)
    BY <1>3, <1>5 DEF Gains
  <2>2. /\ \A x \in In(wire', "exists", w) : x.rc \in {"ZOK", "ZNONODE"}
        /\ \A x \in In(completions', "exists", w) : x.rc \in {"ZOK", "ZNONODE", "ZCONNECTIONLOSS"}
    BY <1>1, <1>4, <1>6, <2>1 DEF Values, LostEnds
  <2>3. ASSUME GaveUp(w)' # {}
        PROVE  (~Requested(w) /\ ~Answered(w) /\ ~Fired(w) /\ w \notin Armed)'
    <3>1. CASE GaveUp(w) # {}
      BY <1>1, <1>6, <1>8, <3>1 DEF Values, LostEnds, a
    <3>2. CASE GaveUp(w) = {}
      <4>1. Match(a, "exists", w) /\ m.rc = "ZCONNECTIONLOSS"
        BY <2>1, <2>3, <3>2 DEF GaveUp
      <4>2. a.rc # "ZCONNECTIONLOSS"
        BY <1>1, <1>6, <4>1 DEF Values, LostEnds
      <4>3. Armed' = Armed /\ Answered(w) /\ ~Answered(w)'
        BY <1>6, <4>1, <4>2 DEF Answered, a
      <4> QED
        BY <1>1, <1>8, <4>3 DEF Chain, Single
    <3> QED
      BY <3>1, <3>2
  <2> QED
    BY <2>2, <2>3 DEF LostEnds
<1>10. Active(w)' => Active(w)
  BY <1>8 DEF Active
<1> QED
  BY <1>7, <1>9, <1>10, ValuesFrame

\* An event is read, or dropped: its watchers go from the tables to the queue.
LEMMA ValuesEvent ==
    ASSUME ValueInv, NEW w \in Watch, wire # <<>>, Head(wire).op = "event", wire' = Tail(wire),
           NEW c \in FiredEvent, completions' \in {completions, Append(completions, c)},
           w \in c.ws => w \in Armed, Armed' \subseteq Armed,
           UNCHANGED <<zxid, node, requests, call, view, high>>
    PROVE  Values(w)'
<1> DEFINE e == Head(wire)
<1>1. Values(w) /\ TypeOK
  BY DEF ValueInv, ChainInv
<1>2. wire \in Seq(Reply \cup WatcherEvent) /\ completions \in Seq(Reply \cup FiredEvent)
  BY <1>1 DEF TypeOK
<1>3. Gains(wire', wire, e, w)
  BY <1>2, TakeIn
<1>4. ~Match(e, "exists", w) /\ ~Match(e, "get", w)
  BY DEF Match
<1>5. /\ In(wire', "exists", w) = In(wire, "exists", w)
      /\ In(wire', "get", w) = In(wire, "get", w)
  BY <1>3, <1>4 DEF Gains
<1>6. /\ In(completions', "exists", w) = In(completions, "exists", w)
      /\ In(completions', "get", w) = In(completions, "get", w)
      /\ Fired(w)' => Fired(w) \/ w \in Armed
  <2>1. ~Match(c, "exists", w) /\ ~Match(c, "get", w) /\ (Match(c, "event", w) <=> w \in c.ws)
    BY DEF Match, FiredEvent
  <2>2. Gains(completions, Append(completions, c), c, w)
    BY <1>2, PutIn
  <2>3. CASE completions' = completions
    BY <2>3 DEF Fired
  <2>4. CASE completions' = Append(completions, c)
    BY <2>1, <2>2, <2>4, NoneIn DEF Gains, Fired
  <2> QED
    BY <2>3, <2>4
<1>7. Got(w)' = Got(w) /\ Missing(w)' = Missing(w) /\ GaveUp(w)' = GaveUp(w)
  BY <1>5, <1>6 DEF Got, Missing, GaveUp
<1>8. LostEnds(w)' /\ (Active(w)' => Active(w))
  BY <1>1, <1>5, <1>6, <1>7, NoneIn DEF Values, LostEnds, Active, Requested, Answered, Completed
<1> QED
  BY <1>7, <1>8, ValuesFrame


\* When nothing is unread, the oldest request fails.
LEMMA ValuesFail ==
    ASSUME ValueInv, NEW w \in Watch, IoFailRequest
    PROVE  Values(w)'
<1> DEFINE r == Head(requests)
           m == Lost(r)
<1>1. Values(w) /\ Chain(w) /\ TypeOK
  BY DEF ValueInv, ChainInv
<1>2. /\ requests # <<>> /\ requests' = Tail(requests)
      /\ completions' = Append(completions, m)
      /\ UNCHANGED <<wire, client, zxid, node, call, view, high>>
  BY DEF IoFailRequest, queue_completion, server, user, told
<1>3. r \in Request
  BY <1>1, <1>2, First
<1>4. m \in Reply /\ m.op = r.op /\ m.w = r.w /\ m.rc = "ZCONNECTIONLOSS" /\ r.op # "event"
  BY <1>3 DEF Lost, Reply, Request, Rc
<1>5. /\ requests \in Seq(Request) /\ completions \in Seq(Reply \cup FiredEvent)
      /\ m \in Reply \cup FiredEvent
  BY <1>1, <1>4 DEF TypeOK
<1> HIDE DEF m, r
<1>6. Takes(requests, requests', r, w) /\ Gains(completions, completions', m, w)
  BY <1>2, <1>5, TakeAt, PutIn DEF r
<1>7. /\ Match(m, "exists", w) <=> Match(r, "exists", w)
      /\ Match(m, "get", w) <=> Match(r, "get", w)
      /\ ~Match(m, "event", w)
  BY <1>4 DEF Match
<1>8. /\ Match(r, "exists", w) => Requested(w) /\ ~Requested(w)'
      /\ Requested(w)' => Requested(w)
      /\ ~None(requests', "get", w) => ~None(requests, "get", w)
  BY <1>1, <1>6 DEF Takes, Ops, Chain, Single, Requested
<1>9. Got(w)' \subseteq Got(w) /\ Missing(w)' \subseteq Missing(w)
  BY <1>2, <1>4, <1>6 DEF Gains, Got, Missing
<1>10. /\ Answered(w)' = Answered(w) /\ Fired(w)' = Fired(w) /\ Armed' = Armed
       /\ Completed(w)' => Completed(w) \/ Requested(w)
       /\ GaveUp(w)' # {} => GaveUp(w) # {} \/ Match(r, "exists", w)
  BY <1>2, <1>6, <1>7, <1>8, NoneIn DEF Gains, Answered, Fired, Completed, Armed, client, GaveUp
<1>11. LostEnds(w)'
  <2>1. \A x \in In(completions', "exists", w) : x.rc \in {"ZOK", "ZNONODE", "ZCONNECTIONLOSS"}
    BY <1>1, <1>4, <1>6 DEF Gains, Values, LostEnds
  <2>2. Match(r, "exists", w) => ~Answered(w) /\ ~Fired(w) /\ w \notin Armed
    BY <1>1, <1>8 DEF Chain, Single
  <2> QED
    BY <1>1, <1>2, <1>8, <1>10, <2>1, <2>2 DEF Values, LostEnds
<1>12. Active(w)' => Active(w)
  BY <1>8, <1>10 DEF Active
<1> QED
  BY <1>2, <1>9, <1>11, <1>12, ValuesFrame

\* The steps of the IO thread and of the connection tell w nothing.
LEMMA ValuesIo ==
    ASSUME ValueInv, NEW w \in Watch, IoStep \/ Disconnect
    PROVE  Values(w)'
<1>0. TypeOK
  BY DEF ValueInv, ChainInv
<1>1. CASE IoReply
  <2> DEFINE m == Head(wire)
  <2>1. m \in Reply
    BY <1>0, <1>1, First DEF IoReply
  <2>2. /\ wire # <<>> /\ m.op # "event" /\ wire' = Tail(wire)
        /\ completions' = Append(completions, m)
        /\ UNCHANGED <<zxid, node, requests, call, view, high>>
    BY <1>1 DEF IoReply, queue_completion, server, user, told
  <2>3. w \in Armed' => w \in Armed \/ Match(m, "exists", w)
    BY <1>1 DEF IoReply, Armed, ActivateNode, ActivateExist, Match
  <2> HIDE DEF m
  <2> QED
    BY <2>1, <2>2, <2>3, ValuesReply DEF m
<1>2. CASE IoDropMessage /\ Head(wire).op # "event"
  <2> DEFINE a == Head(wire)
             m == Lost(a)
  <2>1. /\ wire # <<>> /\ wire' = Tail(wire) /\ completions' = Append(completions, m)
        /\ UNCHANGED <<zxid, node, requests, client, call, view, high>>
    BY <1>2 DEF IoDropMessage, queue_completion, server, user, told
  <2>2. a \in Reply
    BY <1>0, <1>2, <2>1, First
  <2>3. m \in Reply
    BY <2>2 DEF Lost, Reply, Rc
  <2>4. Armed' = Armed
    BY <2>1 DEF Armed, client
  <2> HIDE DEF m
  <2> QED
    BY <1>2, <2>1, <2>3, <2>4, ValuesReply DEF m
<1>3. CASE IoEvent
  <2> DEFINE e == Head(wire)
             fired == (node_watchers \cup exist_watchers) \cap WatchersOn(e.p)
             c == [op |-> "event", ws |-> fired, type |-> e.type]
  <2>1. /\ wire # <<>> /\ e.op = "event" /\ wire' = Tail(wire)
        /\ completions' = Append(completions, c)
        /\ Armed' \subseteq Armed /\ fired \subseteq Armed
        /\ UNCHANGED <<zxid, node, requests, call, view, high>>
    BY <1>3 DEF IoEvent, queue_completion, server, user, told, Armed
  <2>2. c \in FiredEvent
    BY <1>0, <2>1, First DEF FiredEvent, WatcherEvent, TypeOK
  <2>3. w \in c.ws => w \in Armed
    BY <2>1
  <2> HIDE DEF c
  <2> QED
    BY <2>1, <2>2, <2>3, ValuesEvent
<1>4. CASE IoDropMessage /\ Head(wire).op = "event"
  <2> DEFINE c == [op |-> "event", ws |-> {}, type |-> "changed"]
  <2>1. /\ wire # <<>> /\ wire' = Tail(wire)
        /\ UNCHANGED <<zxid, node, requests, client, completions, call, view, high>>
    BY <1>4 DEF IoDropMessage, server, user, told
  <2>2. c \in FiredEvent /\ w \notin c.ws
    BY DEF FiredEvent, EventType
  <2>3. Armed' = Armed
    BY <2>1 DEF Armed, client
  <2> HIDE DEF c
  <2> QED
    BY <1>4, <2>1, <2>2, <2>3, ValuesEvent
<1>5. CASE IoFailRequest
  BY <1>5, ValuesFail
<1>6. CASE IoCleanupDone \/ Reconnect \/ Disconnect
  <2>1. UNCHANGED <<requests, wire, client, completions, zxid, node, call, view, high>>
    BY <1>6 DEF IoCleanupDone, Reconnect, Disconnect, server, user, told
  <2> QED
    BY <2>1 DEF ValueInv, Values, ToldPast, GotBetween, MissingNew, LostEnds, ToldLast, FreshAfterDel,
      Got, Missing, GaveUp, Active, Requested, Answered, Completed, Fired, Armed, client
<1> QED
  BY <1>1, <1>2, <1>3, <1>4, <1>5, <1>6 DEF IoStep

\* For watch w, queue r has the answers of queue q.
Keeps(q, r, w) == \A o \in {"exists", "get"} : In(r, o, w) = In(q, o, w)

\* Delivering an event leaves the answers in the queue alone.
LEMMA DeliverIn ==
    ASSUME NEW q \in Seq(Reply \cup FiredEvent), q # <<>>, Head(q) \in FiredEvent,
           NEW v, v \in Head(q).ws, NEW w,
           NEW r, r = [q EXCEPT ![1].ws = @ \ {v}]
    PROVE  Keeps(q, r, w)
<1>1. Delivers(q, r, v, w)
  BY DeliverAt
<1>2. q[1].op = "event"
  BY TakeHead DEF FiredEvent
<1>3. \A i \in DOMAIN q : i # 1 => r[i] = q[i]
  OBVIOUS
<1>4. ASSUME NEW o \in {"exists", "get"} PROVE In(r, o, w) = In(q, o, w)
  <2>1. At(r, o, w) = At(q, o, w)
    BY <1>1 DEF Delivers
  <2>2. \A i \in At(q, o, w) : r[i] = q[i]
    BY <1>2, <1>3 DEF At, Match
  <2> QED
    BY <2>1, <2>2 DEF In
<1> QED
  BY <1>4 DEF Keeps

\* wfn of watch v: its event is exchanged for an exists.
LEMMA ValuesWatcher ==
    ASSUME ValueInv, NEW w \in Watch, NEW v \in Watch, RunWatcher(v)
    PROVE  Values(w)'
<1> DEFINE r == [op |-> "exists", w |-> v]
<1>1. Values(w) /\ TypeOK
  BY DEF ValueInv, ChainInv
<1>2. /\ completions # <<>> /\ Head(completions).op = "event" /\ v \in Head(completions).ws
      /\ completions' = [completions EXCEPT ![1].ws = @ \ {v}]
      /\ requests' = Append(requests, r)
      /\ UNCHANGED <<wire, client, zxid, node, call, view, high>>
  BY DEF RunWatcher, Completes, Submit, server, user, told
<1>3. r \in Request /\ requests \in Seq(Request) /\ completions \in Seq(Reply \cup FiredEvent)
  BY <1>1 DEF Request, TypeOK
<1>4. Head(completions) \in FiredEvent
  BY <1>1, <1>2, First
<1>5. /\ Delivers(completions, completions', v, w)
      /\ \A o \in {"exists", "get"} : In(completions', o, w) = In(completions, o, w)
  <2>1. Delivers(completions, completions', v, w)
    BY <1>2, <1>3, <1>4, DeliverAt
  <2>2. Keeps(completions, completions', w)
    BY <1>2, <1>3, <1>4, DeliverIn
  <2> QED
    BY <2>1, <2>2 DEF Keeps
<1>6. /\ Fired(w)' => Fired(w)
      /\ v = w => Fired(w)
  BY <1>5 DEF Delivers, Fired, None
<1>7. Puts(requests, requests', r, w)
  BY <1>2, <1>3, PutAt
<1>8. (Match(r, "exists", w) <=> v = w) /\ ~Match(r, "get", w)
  BY DEF Match
<1> HIDE DEF r
<1>9. /\ Requested(w)' => Requested(w) \/ v = w
      /\ None(requests', "get", w) <=> None(requests, "get", w)
  BY <1>7, <1>8 DEF Puts, Ops, Requested
<1>10. /\ Got(w)' = Got(w) /\ Missing(w)' = Missing(w) /\ GaveUp(w)' = GaveUp(w)
       /\ Answered(w)' = Answered(w) /\ Armed' = Armed
       /\ Completed(w)' = Completed(w)
  BY <1>2, <1>5, NoneIn DEF Got, Missing, GaveUp, Answered, Completed, Armed, client
<1>11. LostEnds(w)'
  BY <1>1, <1>2, <1>5, <1>6, <1>9, <1>10 DEF Values, LostEnds
<1>12. Active(w)' => Active(w)
  BY <1>6, <1>9, <1>10 DEF Active
<1> QED
  BY <1>2, <1>10, <1>11, <1>12, ValuesFrame

\* A completion is taken from the queue; its callback may send a request.
LEMMA ValuesTake ==
    ASSUME ValueInv, NEW w \in Watch, completions # <<>>, completions' = Tail(completions),
           UNCHANGED <<wire, client>>,
           NEW r \in Request, requests' \in {requests, Append(requests, r)},
           r.op # "exists", r.op = "get" /\ r.w = w => Completed(w)
    PROVE  /\ Got(w)' \subseteq Got(w) /\ Missing(w)' \subseteq Missing(w) /\ LostEnds(w)'
           /\ Active(w)' => Active(w)
           /\ Gains(completions', completions, Head(completions), w)
           /\ Takes(completions, completions', Head(completions), w)
<1> DEFINE c == Head(completions)
<1>1. Values(w) /\ TypeOK
  BY DEF ValueInv, ChainInv
<1>2. completions \in Seq(Reply \cup FiredEvent) /\ requests \in Seq(Request)
  BY <1>1 DEF TypeOK
<1>3. Gains(completions', completions, c, w) /\ Takes(completions, completions', c, w)
  BY <1>2, TakeIn, TakeAt
<1> HIDE DEF c
<1>4. Got(w)' \subseteq Got(w) /\ Missing(w)' \subseteq Missing(w) /\ GaveUp(w)' \subseteq GaveUp(w)
  BY <1>3 DEF Gains, Got, Missing, GaveUp
<1>5. Requested(w)' = Requested(w) /\ (None(requests, "get", w) => None(requests', "get", w) \/ Completed(w))
  <2>1. CASE requests' = requests
    BY <2>1 DEF Requested
  <2>2. CASE requests' = Append(requests, r)
    <3>1. Puts(requests, requests', r, w)
      BY <1>2, <2>2, PutAt
    <3>2. ~Match(r, "exists", w) /\ (Match(r, "get", w) => Completed(w))
      BY DEF Match
    <3> QED
      BY <3>1, <3>2 DEF Puts, Ops, Requested
  <2> QED
    BY <2>1, <2>2
<1>6. /\ Answered(w)' = Answered(w) /\ Armed' = Armed
      /\ Completed(w)' => Completed(w)
      /\ Fired(w)' => Fired(w)
  BY <1>3 DEF Takes, Ops, Answered, Completed, Fired, Armed, client
<1>7. LostEnds(w)'
  BY <1>1, <1>3, <1>4, <1>5, <1>6 DEF Gains, Values, LostEnds
<1>8. Active(w)' => Active(w)
  BY <1>5, <1>6 DEF Active
<1> QED
  BY <1>3, <1>4, <1>7, <1>8 DEF c


\* exists_completion: a del is reported only when nothing older can follow.
LEMMA ValuesExists ==
    ASSUME ValueInv, NEW w \in Watch, RunExists
    PROVE  Values(w)'
<1> DEFINE c == Head(completions)
           r == [op |-> "get", w |-> c.w]
<1>1. Values(w) /\ Chain(w) /\ TypeOK
  BY DEF ValueInv, ChainInv
<1>2. /\ completions # <<>> /\ c.op = "exists" /\ completions' = Tail(completions)
      /\ UNCHANGED <<wire, client, zxid, node, call, high>>
  BY DEF RunExists, Completes, server, user
<1>3. c \in Reply
  BY <1>1, <1>2, First
<1>4. r \in Request /\ r.op = "get" /\ r.w = c.w
  BY <1>3 DEF Reply, Request
<1>5. requests' \in {requests, Append(requests, r)}
  BY DEF RunExists, Submit
<1>6. /\ c.w = w <=> Match(c, "exists", w)
      /\ ~Match(c, "get", w)
  BY <1>2 DEF Match
<1>7. view \in [Watch -> Int] /\ c.w \in Watch
  BY <1>1, <1>3 DEF Reply, TypeOK
<1> HIDE DEF c, r
<1>8. c.w = w => Completed(w)
  <2>1. Takes(completions, completions', c, w)
    BY <1>1, <1>2, TakeAt DEF c, TypeOK
  <2> QED
    BY <1>6, <2>1 DEF Takes, Ops, Completed
<1>9. /\ Got(w)' \subseteq Got(w) /\ Missing(w)' \subseteq Missing(w) /\ LostEnds(w)'
      /\ Active(w)' => Active(w)
      /\ Gains(completions', completions, c, w)
      /\ Takes(completions, completions', c, w)
  BY <1>2, <1>4, <1>5, <1>8, ValuesTake DEF c
<1>10. CASE view'[w] = view[w]
  BY <1>2, <1>9, <1>10, ValuesFrame
<1>11. CASE view'[w] # view[w]
  <2>1. c.rc # "ZOK" /\ c.w = w /\ view'[w] = Deleted /\ UNCHANGED requests
    BY <1>7, <1>11 DEF RunExists, ReportDel, c
  <2>2. /\ c \in In(completions, "exists", w)
        /\ None(completions, "get", w) /\ None(wire, "get", w) /\ None(requests, "get", w)
        /\ None(completions', "exists", w)
    BY <1>1, <1>6, <1>8, <1>9, <2>1 DEF Gains, Takes, Ops, Chain, Single, InOrder
  <2>3. Got(w)' = {}
    BY <1>9, <2>2, NoneIn DEF Got
  <2>4. call[w] = "watching"
    BY <1>1, <1>8, <2>1 DEF Chain, NotBegun
  <2>5. Active(w)' /\ node[PathOf[w]] # Absent => high[w] < node[PathOf[w]]
    <3>1. CASE c.rc = "ZNONODE"
      BY <1>1, <2>2, <3>1 DEF Values, MissingNew, Missing
    <3>2. CASE c.rc = "ZCONNECTIONLOSS"
      <4>1. ~Requested(w) /\ ~Answered(w) /\ ~Fired(w) /\ w \notin Armed
        BY <1>1, <2>2, <3>2 DEF Values, LostEnds, GaveUp
      <4>2. ~Fired(w)'
        BY <1>9, <4>1 DEF Takes, Ops, Fired
      <4> QED
        BY <1>2, <2>1, <2>2, <4>1, <4>2 DEF Active, Requested, Answered, Completed, Armed, client
    <3> QED
      BY <1>1, <2>1, <2>2, <3>1, <3>2 DEF Values, LostEnds
  <2>6. ToldPast(w)' /\ GotBetween(w)' /\ FreshAfterDel(w)'
    BY <1>1, <1>2, <2>3, <2>5 DEF Values, ToldPast, GotBetween, FreshAfterDel
  <2>7. MissingNew(w)'
    BY <1>1, <1>2, <1>9, <2>3 DEF Values, MissingNew
  <2>8. ToldLast(w)'
    BY <1>1, <1>2, <2>1, <2>4 DEF Values, ToldLast, Unheard, Deleted
  <2> QED
    BY <1>9, <2>6, <2>7, <2>8 DEF Values
<1> QED
  BY <1>10, <1>11

\* The completion of a get reports a value that is newer than all w was told.
LEMMA ValuesGet ==
    ASSUME ValueInv, NEW w \in Watch, RunGet
    PROVE  /\ Values(w)'
           /\ view'[w] # view[w] => /\ high[w] < view'[w] /\ view'[w] <= zxid
                                    /\ view'[w] = high'[w]
           /\ view'[w] = view[w] => high'[w] = high[w]
<1> DEFINE c == Head(completions)
<1>1. Values(w) /\ Chain(w) /\ TypeOK
  BY DEF ValueInv, ChainInv
<1>2. /\ completions # <<>> /\ c.op = "get" /\ completions' = Tail(completions)
      /\ UNCHANGED <<wire, client, zxid, node, call, requests>>
  BY DEF RunGet, Completes, server, user
<1>3. c \in Reply
  BY <1>1, <1>2, First
<1>4. [op |-> "remove", w |-> w] \in Request
  BY DEF Request
<1>5. /\ Match(c, "get", w) <=> c.w = w
      /\ ~Match(c, "exists", w)
  BY <1>2 DEF Match
<1>6. view \in [Watch -> Int] /\ high \in [Watch -> Nat] /\ c.w \in Watch /\ c.val \in Nat
  BY <1>1, <1>3 DEF Reply, TypeOK
<1>7. IF c.rc = "ZOK"
      THEN /\ view' = [view EXCEPT ![c.w] = c.val]
           /\ high' = [high EXCEPT ![c.w] = IF c.val > @ THEN c.val ELSE @]
      ELSE UNCHANGED <<view, high>>
  BY DEF RunGet, told
<1> HIDE DEF c
<1>8. /\ Got(w)' \subseteq Got(w) /\ Missing(w)' \subseteq Missing(w) /\ LostEnds(w)'
      /\ Active(w)' => Active(w)
      /\ Gains(completions', completions, c, w)
      /\ Takes(completions, completions', c, w)
  BY <1>2, <1>4, ValuesTake DEF c
<1>9. CASE c.rc # "ZOK" \/ c.w # w
  <2>1. view'[w] = view[w] /\ high'[w] = high[w]
    BY <1>6, <1>7, <1>9
  <2> QED
    BY <1>2, <1>8, <2>1, ValuesFrame
<1>10. CASE c.rc = "ZOK" /\ c.w = w
  <2>1. c \in In(completions, "get", w)
    BY <1>5, <1>8, <1>10 DEF Gains
  <2>2. c \in Got(w)
    BY <1>10, <2>1 DEF Got
  <2>3. 0 < c.val /\ high[w] <= c.val /\ c.val <= zxid
    BY <1>1, <2>2 DEF Values, GotBetween
  <2>4. view'[w] = c.val /\ high'[w] = c.val
    BY <1>1, <1>6, <1>7, <1>10, <2>3, ValueType
  <2>5. ~None(completions, "get", w) /\ None(completions', "get", w)
    BY <1>1, <1>5, <1>8, <1>10 DEF Takes, Ops, Chain, Single
  <2>6. Got(w)' = {}
    BY <1>1, <1>2, <2>5, NoneIn DEF Got, Chain, Single
  <2>7. call[w] = "watching"
    BY <1>1, <2>5 DEF Chain, NotBegun
  <2>8. ToldPast(w)' /\ GotBetween(w)'
    BY <1>1, <1>2, <2>2, <2>3, <2>4, <2>6 DEF Values, ToldPast, GotBetween
  <2>9. MissingNew(w)'
    BY <1>1, <1>2, <1>8, <2>2, <2>4, <2>6 DEF Values, MissingNew
  <2>10. ToldLast(w)' /\ FreshAfterDel(w)'
    BY <1>2, <1>6, <2>3, <2>4, <2>7 DEF ToldLast, FreshAfterDel, Deleted, Unheard
  <2>11. view'[w] # view[w] => high[w] < c.val
    <3>1. high[w] = c.val => view[w] = high[w]
      BY <1>1, <1>6, <2>2, <2>3, ValueType DEF Values, ToldLast, FreshAfterDel
    <3> QED
      BY <1>1, <1>6, <2>3, <2>4, <3>1, ValueType
  <2>12. view'[w] = view[w] => high'[w] = high[w]
    BY <1>1, <1>6, <2>3, <2>4 DEF Values, ToldLast, Deleted, Unheard
  <2> QED
    BY <1>8, <2>3, <2>4, <2>8, <2>9, <2>10, <2>11, <2>12 DEF Values
<1> QED
  BY <1>9, <1>10


\* The other completions and the user's calls tell w nothing.
LEMMA ValuesRest ==
    ASSUME ValueInv, NEW w \in Watch, NEW v \in Watch,
           WatchersDone \/ RunRemove \/ WatchRecord(v) \/ WatchSend(v) \/ RemoveWatches(v)
    PROVE  Values(w)'
<1>1. Values(w) /\ Chain(w) /\ TypeOK
  BY DEF ValueInv, ChainInv
<1>2. CASE WatchersDone \/ RunRemove
  <2>1. [op |-> "remove", w |-> w] \in Request
    BY DEF Request
  <2>2. /\ completions # <<>> /\ completions' = Tail(completions)
        /\ UNCHANGED <<wire, client, zxid, node, call, requests, view, high>>
    BY <1>2 DEF WatchersDone, RunRemove, Completes, server, user, told
  <2>3. /\ Got(w)' \subseteq Got(w) /\ Missing(w)' \subseteq Missing(w) /\ LostEnds(w)'
        /\ Active(w)' => Active(w)
    BY <2>1, <2>2, ValuesTake
  <2> QED
    BY <2>2, <2>3, ValuesFrame
<1>3. CASE WatchRecord(v)
  <2>1. /\ UNCHANGED <<wire, client, zxid, node, completions, requests, view, high>>
        /\ call'[w] # "watching" => call[w] # "watching"
    BY <1>1, <1>3 DEF WatchRecord, server, told, TypeOK
  <2>2. /\ Got(w)' = Got(w) /\ Missing(w)' = Missing(w)
        /\ Active(w)' <=> Active(w)
        /\ LostEnds(w)' <=> LostEnds(w)
    BY <2>1 DEF Got, Missing, LostEnds, GaveUp, Active, Requested, Answered, Completed, Fired, Armed, client
  <2> QED
    BY <1>1, <2>1, <2>2, ValuesFrame DEF Values
<1>4. CASE WatchSend(v) \/ RemoveWatches(v)
  <2>1. PICK o \in {"exists", "remove"} :
          /\ requests' = Append(requests, [op |-> o, w |-> v])
          /\ o = "exists" => call[v] # "watching"
          /\ UNCHANGED <<wire, client, zxid, node, completions, view, high>>
          /\ call'[w] # "watching" => call[w] # "watching"
    BY <1>1, <1>4 DEF WatchSend, RemoveWatches, Submit, server, told, user, TypeOK
  <2> DEFINE r == [op |-> o, w |-> v]
  <2>2. r \in Request /\ requests \in Seq(Request)
    BY <1>1 DEF Request, TypeOK
  <2>3. Puts(requests, requests', r, w)
    BY <2>1, <2>2, PutAt
  <2>4. /\ ~Match(r, "get", w)
        /\ Match(r, "exists", w) => v = w /\ o = "exists"
    BY DEF Match
  <2> HIDE DEF r
  <2>5. /\ None(requests', "get", w) <=> None(requests, "get", w)
        /\ Requested(w)' => Requested(w) \/ call[w] # "watching"
    BY <2>1, <2>3, <2>4 DEF Puts, Ops, Requested
  <2>6. /\ Got(w)' = Got(w) /\ Missing(w)' = Missing(w) /\ GaveUp(w)' = GaveUp(w)
        /\ Answered(w)' = Answered(w) /\ Completed(w)' = Completed(w) /\ Fired(w)' = Fired(w)
        /\ Armed' = Armed
    BY <2>1 DEF Got, Missing, GaveUp, Answered, Completed, Fired, Armed, client
  <2>7. call[w] # "watching" => GaveUp(w) = {}
    BY <1>1, NoneIn DEF Chain, NotBegun, Completed, GaveUp
  <2>8. LostEnds(w)'
    BY <1>1, <2>1, <2>5, <2>6, <2>7 DEF Values, LostEnds
  <2>9. call[w] # "watching" => view[w] # Deleted
    BY <1>1 DEF Values, ToldLast, Unheard, Deleted
  <2>10. Active(w)' => Active(w) \/ view[w] # Deleted
    BY <2>5, <2>6, <2>9 DEF Active
  <2> QED
    BY <2>1, <2>6, <2>8, <2>10, ValuesFrame
<1> QED
  BY <1>2, <1>3, <1>4

\* Every step keeps what is told going forward.
LEMMA ValuesStep == ValueInv /\ [Next]_vars => ValueInv'
<1> SUFFICES ASSUME ValueInv, [Next]_vars PROVE ValueInv'
  OBVIOUS
<1>1. ChainInv'
  BY ChainStep DEF ValueInv
<1> SUFFICES ASSUME NEW w \in Watch PROVE Values(w)'
  BY <1>1 DEF ValueInv
<1>2. CASE OtherClients
  BY <1>2, ValuesOthers DEF OtherClients
<1>3. ASSUME NEW entry \in SetWatchesEntry, SrvSetWatch(entry) PROVE Values(w)'
  <2>1. entry[2] \in Path
    BY DEF SetWatchesEntry
  <2>2. \E type \in EventType :
           wire' \in {wire, Append(wire, [op |-> "event", p |-> entry[2], type |-> type])}
    BY <1>3 DEF SrvSetWatch, EventType
  <2>3. UNCHANGED <<requests, client, completions, call, zxid, node, view, high>>
    BY <1>3 DEF SrvSetWatch, user, told
  <2>4. /\ Got(w)' = Got(w) /\ Missing(w)' = Missing(w) /\ LostEnds(w)'
        /\ Active(w)' <=> Active(w)
    BY <2>1, <2>2, <2>3, ValuesWire
  <2> QED
    BY <2>3, <2>4, ValuesFrame
<1>4. CASE SrvExists \/ SrvGet \/ SrvRemoveWatches
  BY <1>4, ValuesServer
<1>5. CASE IoStep \/ Disconnect
  BY <1>5, ValuesIo
<1>6. CASE CompletionStep
  BY <1>6, ValuesWatcher, ValuesExists, ValuesGet, ValuesRest DEF CompletionStep
<1>7. ASSUME NEW v \in Watch, WatchRecord(v) \/ WatchSend(v) \/ RemoveWatches(v)
      PROVE  Values(w)'
  BY <1>7, ValuesRest
<1>8. CASE UNCHANGED vars
  <2>1. UNCHANGED <<wire, client, completions, requests, call, zxid, node, view, high>>
    BY <1>8 DEF vars, server, user, told
  <2> QED
    BY <2>1 DEF ValueInv, Values, ToldPast, GotBetween, MissingNew, LostEnds, ToldLast, FreshAfterDel,
      Got, Missing, GaveUp, Active, Requested, Answered, Completed, Fired, Armed, client
<1> QED
  BY <1>2, <1>3, <1>4, <1>5, <1>6, <1>7, <1>8 DEF Next, ServerStep

\* At first nothing was read and nothing told.
LEMMA ValuesInit == Init => ValueInv
<1> SUFFICES ASSUME Init PROVE ValueInv
  OBVIOUS
<1> SUFFICES ASSUME NEW w \in Watch PROVE Values(w)
  BY ChainInit DEF ValueInv
<1>1. \A o : In(wire, o, w) = {} /\ In(completions, o, w) = {}
  BY EmptyAt, NoneIn DEF Init
<1>2. Got(w) = {} /\ Missing(w) = {} /\ GaveUp(w) = {}
  BY <1>1 DEF Got, Missing, GaveUp
<1>3. /\ zxid = 0 /\ high[w] = 0 /\ node[PathOf[w]] = 0
      /\ view[w] = Unheard
  BY PathOfAssumption DEF Init, Absent
<1> QED
  BY <1>1, <1>2, <1>3 DEF Values, ToldPast, GotBetween, MissingNew, LostEnds, ToldLast, FreshAfterDel,
    Unheard, Deleted, Absent

\* What is told goes forward in every reachable state.
LEMMA ValuesHold == Spec => []ValueInv
  BY ValuesInit, ValuesStep, PTL DEF Spec

\* A step that reports a value to w: it is newer than all w was told.
LEMMA NewerValue ==
    ASSUME ValueInv, NEW w \in Watch, [Next]_vars,
           view'[w] # view[w], view'[w] \notin {Unheard, Deleted}
    PROVE  view'[w] > high[w]
<1>1. TypeOK
  BY DEF ValueInv, ChainInv
<1>2. CASE RunGet
  BY <1>1, <1>2, ValuesGet DEF TypeOK
<1>3. CASE RunExists
  <2>1. view' = view \/ \E x : view' = [view EXCEPT ![x] = Deleted]
    BY <1>3 DEF RunExists
  <2> QED
    BY <1>1, <2>1 DEF TypeOK
<1>4. CASE UNCHANGED view
  BY <1>4
<1> QED
  BY <1>2, <1>3, <1>4 DEF Next, OtherClients, SrvWrite, SrvDelete, ServerStep, SrvSetWatch, SrvExists,
    SrvGet, SrvRemoveWatches, SrvHandles, IoStep, IoEvent, IoReply, IoDropMessage, IoFailRequest,
    IoCleanupDone, Reconnect, Disconnect, CompletionStep, RunWatcher, WatchersDone, RunRemove,
    WatchRecord, WatchSend, RemoveWatches, vars, told

\* Values are reported in the order they were written, whatever is lost or
\* removed in between: a callback of watch_path never gets a value older than
\* one it has seen, nor the same value again after a del (config_monitor.hpp:262).
THEOREM ValuesForward == Spec => NoOldValue
<1>1. ValueInv /\ [Next]_vars =>
        [\A w \in Watch :
           view'[w] # view[w] /\ view'[w] \notin {Unheard, Deleted} => view'[w] > high[w]]_vars
  BY NewerValue
<1> QED
  BY <1>1, ValuesHold, PTL DEF Spec, NoOldValue


-----------------------------------------------------------------------------
(***************************************************************************)
(* watch_path implements WatchView while the connection lasts.             *)
(***************************************************************************)
\* No event comes before the first transaction, and no request is lost.
Calm(m) == IF m.op = "event" THEN zxid > 0 ELSE m.rc # "ZCONNECTIONLOSS"

CalmInv ==
    /\ conn = "on" /\ resync = {}
    /\ \A i \in DOMAIN wire : Calm(wire[i])
    /\ \A i \in DOMAIN completions : Calm(completions[i])
    /\ zxid = 0 => \A w \in Watch : eve[w] = "dummy"

\* Every step of a connection that is not lost keeps it calm.
LEMMA CalmStep ==
    ASSUME TypeOK, CalmInv, [Next]_vars, "loss" \notin Allowed
    PROVE  CalmInv'
<1> USE DEF Calm
<1>0. /\ wire \in Seq(Reply \cup WatcherEvent) /\ completions \in Seq(Reply \cup FiredEvent)
      /\ zxid \in Nat /\ eve \in [Watch -> EventType \cup {"dummy"}]
  BY DEF TypeOK
<1>1. ASSUME NEW m \in Reply \cup WatcherEvent, wire' \in {wire, Append(wire, m)},
             zxid' >= zxid, zxid' \in Nat, Calm(m)',
             zxid' = zxid \/ zxid' > 0,
             UNCHANGED <<conn, resync, completions, eve>>
      PROVE  CalmInv'
  <2>1. \A i \in DOMAIN Append(wire, m) :
           Append(wire, m)[i] = m \/ (i \in DOMAIN wire /\ Append(wire, m)[i] = wire[i])
    BY <1>0, PutLast
  <2>2. (\A i \in DOMAIN wire : Calm(wire[i]))'
    BY <1>0, <1>1, <2>1 DEF CalmInv
  <2>3. (\A i \in DOMAIN completions : Calm(completions[i]))'
    BY <1>0, <1>1 DEF CalmInv
  <2> QED
    BY <1>0, <1>1, <2>2, <2>3 DEF CalmInv
<1>2. ASSUME NEW c \in Reply \cup FiredEvent, Calm(c), wire # <<>>, wire' = Tail(wire),
             completions' = Append(completions, c), UNCHANGED <<conn, resync, zxid, eve>>
      PROVE  CalmInv'
  <2>1. \A i \in DOMAIN Append(completions, c) :
           \/ Append(completions, c)[i] = c
           \/ i \in DOMAIN completions /\ Append(completions, c)[i] = completions[i]
    BY <1>0, PutLast
  <2>2. \A i \in DOMAIN Tail(wire) : i + 1 \in DOMAIN wire /\ Tail(wire)[i] = wire[i + 1]
    BY <1>0, <1>2, TakeHead
  <2> QED
    BY <1>2, <2>1, <2>2 DEF CalmInv
<1>3. ASSUME completions # <<>>, completions' = Tail(completions), UNCHANGED <<conn, resync, zxid, wire, eve>>
      PROVE  CalmInv'
  <2>1. \A i \in DOMAIN Tail(completions) :
           i + 1 \in DOMAIN completions /\ Tail(completions)[i] = completions[i + 1]
    BY <1>0, <1>3, TakeHead
  <2> QED
    BY <1>3, <2>1 DEF CalmInv
<1>4. wire # <<>> => Calm(Head(wire))
  <2>1. wire # <<>> => 1 \in DOMAIN wire /\ Head(wire) = wire[1]
    BY <1>0, TakeHead
  <2> QED
    BY <2>1 DEF CalmInv
<1>5. ASSUME NEW p \in Path, SrvWrite(p) \/ SrvDelete(p) PROVE CalmInv'
  <2>1. PICK type \in EventType :
           wire' \in {wire, Append(wire, [op |-> "event", p |-> p, type |-> type])}
    BY <1>5 DEF SrvWrite, SrvDelete, Trigger, EventType
  <2> DEFINE m == [op |-> "event", p |-> p, type |-> type]
  <2>2. m \in Reply \cup WatcherEvent /\ m.op = "event"
    BY DEF WatcherEvent
  <2>3. zxid' = zxid + 1 /\ UNCHANGED <<conn, resync, completions, eve>>
    BY <1>5 DEF SrvWrite, SrvDelete
  <2> HIDE DEF m
  <2>4. Calm(m)'
    BY <1>0, <2>2, <2>3
  <2> QED
    BY <1>0, <1>1, <2>1, <2>2, <2>3, <2>4 DEF m
<1>6. CASE ServerStep
  <2> DEFINE r == Head(requests)
  <2>1. /\ requests # <<>> /\ UNCHANGED <<zxid, conn, resync, completions, eve>>
        /\ \E rc \in {"ZOK", "ZNONODE", "ZNOWATCHER"} : \E val \in {0, node[PathOf[r.w]]} :
              wire' = Append(wire, Answer(r, rc, val))
    BY <1>6 DEF ServerStep, SrvSetWatch, CalmInv, SrvExists, SrvGet, SrvRemoveWatches, SrvHandles
  <2>2. r \in Request
    BY <2>1, First
  <2>3. node[PathOf[r.w]] \in Nat
    BY <2>2, PathOfAssumption DEF Request, TypeOK
  <2>4. PICK rc \in {"ZOK", "ZNONODE", "ZNOWATCHER"}, val \in Nat : wire' = Append(wire, Answer(r, rc, val))
    BY <2>1, <2>3
  <2> DEFINE m == Answer(r, rc, val)
  <2>5. m \in Reply /\ m.rc = rc /\ m.op # "event"
    BY <1>0, <2>2 DEF Answer, Reply, Request, Rc
  <2> HIDE DEF m
  <2> QED
    BY <1>0, <1>1, <2>1, <2>4, <2>5 DEF m
<1>7. CASE IoReply
  <2>1. Head(wire) \in Reply
    BY <1>7, First DEF IoReply
  <2> QED
    BY <1>2, <1>4, <1>7, <2>1 DEF IoReply, queue_completion, server
<1>8. CASE IoEvent
  <2> DEFINE e == Head(wire)
             c == [op |-> "event", ws |-> (node_watchers \cup exist_watchers) \cap WatchersOn(e.p), type |-> e.type]
  <2>1. /\ wire # <<>> /\ e.op = "event" /\ wire' = Tail(wire) /\ completions' = Append(completions, c)
        /\ UNCHANGED <<conn, resync, zxid, eve>>
    BY <1>8 DEF IoEvent, queue_completion, server
  <2>2. c \in FiredEvent
    BY <2>1, First DEF FiredEvent, WatcherEvent, TypeOK
  <2>3. c.op = "event" /\ zxid > 0
    BY <1>4, <2>1
  <2> HIDE DEF c
  <2> QED
    BY <1>2, <2>1, <2>2, <2>3
<1>9. ASSUME NEW v \in Watch, RunWatcher(v) PROVE CalmInv'
  <2>1. /\ completions # <<>> /\ Head(completions).op = "event"
        /\ completions' = [completions EXCEPT ![1].ws = @ \ {v}]
        /\ UNCHANGED <<conn, resync, zxid, wire>>
        /\ eve' = [eve EXCEPT ![v] = Head(completions).type]
    BY <1>9 DEF RunWatcher, Completes, server
  <2>2. 1 \in DOMAIN completions /\ Head(completions) = completions[1] /\ DOMAIN completions = 1 .. Len(completions)
    BY <1>0, <2>1, TakeHead
  <2>3. zxid > 0
    BY <2>1, <2>2 DEF CalmInv
  <2>4. Head(completions) \in FiredEvent
    BY <2>1, First
  <2>5. Opened(completions, completions')
    BY <1>0, <2>1, <2>4, DeliverHead
  <2>6. (\A i \in DOMAIN completions : Calm(completions[i]))'
    BY <2>1, <2>3, <2>5 DEF Opened, CalmInv
  <2> QED
    BY <2>1, <2>3, <2>6 DEF CalmInv
<1>10. CASE WatchersDone \/ RunExists \/ RunGet \/ RunRemove
  BY <1>3, <1>10 DEF WatchersDone, RunExists, RunGet, RunRemove, Completes, server
<1>11. CASE UNCHANGED <<conn, resync, zxid, wire, completions, eve>>
  BY <1>11 DEF CalmInv
<1> QED
  BY <1>5, <1>6, <1>7, <1>8, <1>9, <1>10, <1>11 DEF CalmInv, Next, OtherClients, IoStep, IoDropMessage, IoFailRequest,
    IoCleanupDone, Reconnect, Disconnect, CompletionStep, WatchRecord, WatchSend, RemoveWatches, vars, server


\* A connection is calm at first.
LEMMA CalmInit == Init => CalmInv
  BY DEF Init, CalmInv

\* A step of the model is a step of WatchView or changes nothing it describes.
LEMMA ViewStep ==
    ASSUME ValueInv, CalmInv, [Next]_vars
    PROVE  [View!Next]_(View!vars)
<1>0. TypeOK /\ zxid \in Nat /\ view \in [Watch -> Int] /\ high \in [Watch -> Nat]
  BY DEF ValueInv, ChainInv, TypeOK
<1>1. CASE OtherClients
  <2>1. zxid' = zxid + 1 /\ UNCHANGED <<view, high>>
    BY <1>1 DEF OtherClients, SrvWrite, SrvDelete, told
  <2> QED
    BY <2>1 DEF View!Next, View!Advance
<1>2. CASE RunGet
  <2> DEFINE c == Head(completions)
  <2>1. /\ completions # <<>> /\ c.op = "get" /\ UNCHANGED zxid
        /\ IF c.rc = "ZOK"
           THEN /\ view' = [view EXCEPT ![c.w] = c.val]
                /\ high' = [high EXCEPT ![c.w] = IF c.val > @ THEN c.val ELSE @]
           ELSE UNCHANGED <<view, high>>
    BY <1>2 DEF RunGet, Completes, server, told
  <2>2. c \in Reply
    BY <1>0, <2>1, First
  <2>3. c.w \in Watch /\ c.val \in Nat
    BY <2>2 DEF Reply
  <2>4. /\ view'[c.w] # view[c.w] => /\ high[c.w] < view'[c.w] /\ view'[c.w] <= zxid
                                     /\ view'[c.w] = high'[c.w]
        /\ view'[c.w] = view[c.w] => high'[c.w] = high[c.w]
    BY <1>2, <2>3, ValuesGet
  <2> HIDE DEF c
  <2>5. CASE c.rc # "ZOK" \/ view'[c.w] = view[c.w]
    <3>1. UNCHANGED <<view, high>>
      BY <1>0, <2>1, <2>3, <2>4, <2>5
    <3> QED
      BY <2>1, <3>1 DEF View!vars
  <2>6. CASE c.rc = "ZOK" /\ view'[c.w] # view[c.w]
    <3>1. /\ c.val \in (high[c.w] + 1) .. zxid
          /\ view' = [view EXCEPT ![c.w] = c.val]
          /\ high' = [high EXCEPT ![c.w] = c.val]
      BY <1>0, <2>1, <2>3, <2>4, <2>6
    <3>2. View!TellChanged(c.w)
      BY <2>1, <3>1 DEF View!TellChanged
    <3> QED
      BY <2>3, <3>2 DEF View!Next
  <2> QED
    BY <2>5, <2>6
<1>3. CASE RunExists
  <2> DEFINE c == Head(completions)
  <2>1. /\ completions # <<>> /\ c.op = "exists" /\ completions' = Tail(completions) /\ UNCHANGED <<zxid, high>>
        /\ \/ view' = view
           \/ c.rc # "ZOK" /\ eve[c.w] = "deleted" /\ view' = [view EXCEPT ![c.w] = Deleted]
    BY <1>3 DEF RunExists, Completes, ReportDel, server
  <2>2. c \in Reply /\ 1 \in DOMAIN completions /\ c = completions[1]
    BY <1>0, <2>1, First, TakeHead DEF TypeOK
  <2>3. c.w \in Watch /\ c.rc # "ZCONNECTIONLOSS"
    BY <2>1, <2>2 DEF Reply, CalmInv, Calm
  <2>4. c \in In(completions, "exists", c.w)
    <3>1. Gains(Tail(completions), completions, c, c.w)
      BY <1>0, <2>1, TakeIn DEF TypeOK
    <3> QED
      BY <2>1, <3>1 DEF Gains, Match
  <2>5. Values(c.w)
    BY <2>3 DEF ValueInv
  <2> HIDE DEF c
  <2>6. CASE c.rc # "ZOK" /\ eve[c.w] = "deleted" /\ view' = [view EXCEPT ![c.w] = Deleted]
    <3>1. Missing(c.w) # {}
      BY <2>3, <2>4, <2>5, <2>6 DEF Values, LostEnds, Missing
    <3>2. zxid > 0
      BY <1>0, <2>3, <2>6 DEF CalmInv
    <3>3. zxid > high[c.w]
      BY <1>0, <2>3, <2>5, <3>1, <3>2, ValueType DEF Values, ToldPast, MissingNew, Absent
    <3>4. View!TellDeleted(c.w)
      BY <2>1, <2>6, <3>3 DEF View!TellDeleted, View!Deleted, Deleted
    <3> QED
      BY <2>3, <3>4 DEF View!Next
  <2> QED
    BY <2>1, <2>6 DEF View!vars
<1>4. CASE UNCHANGED <<zxid, view, high>>
  BY <1>4 DEF View!vars
<1> QED
  BY <1>1, <1>2, <1>3, <1>4 DEF Next, ServerStep, SrvSetWatch, SrvExists,
    SrvGet, SrvRemoveWatches, SrvHandles, IoStep, IoEvent, IoReply, IoDropMessage, IoFailRequest,
    IoCleanupDone, Reconnect, Disconnect, CompletionStep, RunWatcher, WatchersDone, RunRemove,
    WatchRecord, WatchSend, RemoveWatches, vars, told, server

\* On a connection that is not lost, watch_path implements WatchView: every
\* callback, a del included, is about something newer than all the callbacks
\* before it (exists_completion and the get of watch_path's callback,
\* cppzk.hpp:346 and config_monitor.hpp:253-268).
THEOREM ViewRefined ==
    ASSUME "loss" \notin Allowed
    PROVE  Spec => ReportsForward
<1>1. Init => View!Init
  BY DEF Init, View!Init, View!Unheard, Unheard
<1>2. CalmInv /\ TypeOK /\ [Next]_vars => CalmInv'
  BY CalmStep
<1>3. Spec => []CalmInv
  BY <1>2, CalmInit, TypeCorrect, PTL DEF Spec
<1>4. ValueInv /\ CalmInv /\ [Next]_vars => [View!Next]_(View!vars)
  BY ViewStep
<1> QED
  BY <1>1, <1>3, <1>4, ValuesHold, PTL DEF Spec, ReportsForward, View!Spec


=============================================================================

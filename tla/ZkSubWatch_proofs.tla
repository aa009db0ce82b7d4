------------------------- MODULE ZkSubWatch_proofs -------------------------
(***************************************************************************)
(* Proofs about ZkSubWatch, for any set of children and any bounds.        *)
(***************************************************************************)
EXTENDS ZkSubWatch, QueueTheorems, FiniteSetTheorems

USE ParentAssumption, ChildAssumption, BoundAssumption

-----------------------------------------------------------------------------
(***************************************************************************)
(* Where the work of the exists chain and of a removal is in a queue.      *)
(***************************************************************************)
Kind == {"removal", "remove", "exists", "found", "fired", "born"}

\* Message m is of kind k: a message of async_remove_watches, one that removes
\* watches, an exists, the answer that Parent is there, an event of the exists
\* chain, the event that Parent was created.
Is(m, k) ==
    \/ k = "removal" /\ m.op \in {"plain_list", "remove"}
    \/ k = "remove" /\ m.op = "remove"
    \/ k = "exists" /\ m.op = "exists"
    \/ k = "found" /\ m.op = "exists" /\ m.rc
    \/ k = "fired" /\ m.op = "event" /\ ExistsData \in m.ds
    \/ k = "born" /\ m.op = "event" /\ ExistsData \in m.ds /\ m.type = "created"

At(q, k)   == {i \in DOMAIN q : Is(q[i], k)}
None(q, k) == At(q, k) = {}
Once(q, k) == \A i, j \in At(q, k) : i = j
Before(q, k1, k2) == \A i \in At(q, k1), j \in At(q, k2) : i < j

\* Queue q2 is queue q with the messages of r put at its end.
Puts(q, r, q2) ==
    /\ \A k \in Kind : None(q2, k) <=> None(q, k) /\ None(r, k)
    /\ \A k \in Kind : Once(q, k) /\ Once(r, k) /\ (None(q, k) \/ None(r, k)) => Once(q2, k)
    /\ \A k1, k2 \in Kind :
         Before(q, k1, k2) /\ Before(r, k1, k2) /\ (None(r, k1) \/ None(q, k2)) => Before(q2, k1, k2)

\* Queue q2 is queue q without its first message e.
Takes(q, q2, e) ==
    /\ \A k \in Kind : None(q, k) <=> None(q2, k) /\ ~Is(e, k)
    /\ \A k \in Kind : Once(q, k) => Once(q2, k) /\ (Is(e, k) => None(q2, k))
    /\ \A k1, k2 \in Kind :
         Before(q, k1, k2) => Before(q2, k1, k2) /\ (Is(e, k2) => None(q, k1))

\* Queue r holds the message e only.
Holds(r, e) ==
    /\ \A k \in Kind : None(r, k) <=> ~Is(e, k)
    /\ \A k \in Kind : Once(r, k)
    /\ \A k1, k2 \in Kind : ~Is(e, k1) \/ ~Is(e, k2) => Before(r, k1, k2)

\* Queue r holds no message of any of the kinds.
Clear(r) ==
    \A k \in Kind : None(r, k) /\ Once(r, k) /\ \A k2 \in Kind : Before(r, k, k2) /\ Before(r, k2, k)

\* Messages put at the end of a queue come after all others.
LEMMA PutAt ==
    ASSUME NEW S, NEW q \in Seq(S), NEW r \in Seq(S)
    PROVE  Puts(q, r, q \o r)
<1> DEFINE q2 == q \o r
<1>1. /\ Len(q) \in Nat /\ Len(r) \in Nat
      /\ DOMAIN q = 1 .. Len(q) /\ DOMAIN r = 1 .. Len(r)
      /\ DOMAIN q2 = 1 .. Len(q) + Len(r)
      /\ \A i \in DOMAIN q : i \in DOMAIN q2 /\ q2[i] = q[i]
      /\ \A i \in DOMAIN r : Len(q) + i \in DOMAIN q2 /\ q2[Len(q) + i] = r[i]
      /\ \A i \in DOMAIN q2 : i \in DOMAIN q \/ (i - Len(q) \in DOMAIN r /\ q2[i] = r[i - Len(q)])
  BY PutAll DEF Joined
<1> HIDE DEF q2
<1>2. ASSUME NEW k
      PROVE  /\ \A i \in At(q, k) : i \in 1 .. Len(q) /\ i \in At(q2, k)
             /\ \A i \in At(r, k) : i \in 1 .. Len(r) /\ Len(q) + i \in At(q2, k)
             /\ \A i \in At(q2, k) :
                  /\ i \in Nat
                  /\ i \in At(q, k) \/ (i > Len(q) /\ i - Len(q) \in At(r, k))
  BY <1>1 DEF At
<1>3. ASSUME NEW k PROVE None(q2, k) <=> None(q, k) /\ None(r, k)
  BY <1>2 DEF None
<1>4. ASSUME NEW k, Once(q, k), Once(r, k), None(q, k) \/ None(r, k) PROVE Once(q2, k)
  <2> SUFFICES ASSUME NEW i \in At(q2, k), NEW j \in At(q2, k) PROVE i = j
    BY DEF Once
  <2>1. CASE None(q, k)
    <3>1. i - Len(q) = j - Len(q) /\ i \in Nat /\ j \in Nat
      BY <1>2, <1>4, <2>1 DEF None, Once
    <3> QED
      BY <3>1, <1>1
  <2>2. CASE None(r, k)
    BY <1>2, <1>4, <2>2 DEF None, Once
  <2> QED
    BY <1>4, <2>1, <2>2
<1>5. ASSUME NEW k1, NEW k2, Before(q, k1, k2), Before(r, k1, k2), None(r, k1) \/ None(q, k2)
      PROVE  Before(q2, k1, k2)
  <2> SUFFICES ASSUME NEW i \in At(q2, k1), NEW j \in At(q2, k2) PROVE i < j
    BY DEF Before
  <2>1. CASE i \in At(q, k1) /\ j \in At(q, k2)
    BY <1>5, <2>1 DEF Before
  <2>2. CASE i \in At(q, k1) /\ j > Len(q)
    BY <1>1, <1>2, <2>2
  <2>3. CASE i - Len(q) \in At(r, k1) /\ j - Len(q) \in At(r, k2)
    <3>1. i - Len(q) < j - Len(q)
      BY <1>5, <2>3 DEF Before
    <3> QED
      BY <1>1, <1>2, <3>1
  <2> QED
    BY <1>2, <1>5, <2>1, <2>2, <2>3 DEF None
<1> QED
  BY <1>3, <1>4, <1>5 DEF Puts, q2

\* Taking the first message of a queue.
LEMMA TakeAt ==
    ASSUME NEW S, NEW q \in Seq(S), q # <<>>
    PROVE  Takes(q, Tail(q), Head(q))
<1>1. /\ Head(q) = q[1]
      /\ Len(q) \in Nat
      /\ DOMAIN q = 1 .. Len(q)
      /\ 1 \in DOMAIN q
      /\ DOMAIN Tail(q) = 1 .. Len(q) - 1
      /\ \A i \in DOMAIN Tail(q) : i + 1 \in DOMAIN q /\ Tail(q)[i] = q[i + 1]
      /\ \A i \in DOMAIN q : i = 1 \/ (i - 1 \in DOMAIN Tail(q) /\ q[i] = Tail(q)[i - 1])
  BY TakeHead
<1>2. ASSUME NEW k
      PROVE  /\ \A i \in At(Tail(q), k) : i \in Nat \ {0} /\ i + 1 \in At(q, k)
             /\ \A i \in At(q, k) : i \in Nat \ {0} /\ (i = 1 \/ i - 1 \in At(Tail(q), k))
             /\ 1 \in At(q, k) <=> Is(Head(q), k)
  BY <1>1 DEF At
<1>3. ASSUME NEW k PROVE None(q, k) <=> None(Tail(q), k) /\ ~Is(Head(q), k)
  BY <1>2 DEF None
<1>4. ASSUME NEW k, Once(q, k)
      PROVE  Once(Tail(q), k) /\ (Is(Head(q), k) => None(Tail(q), k))
  BY <1>2, <1>4 DEF None, Once
<1>5. ASSUME NEW k1, NEW k2, Before(q, k1, k2)
      PROVE  Before(Tail(q), k1, k2) /\ (Is(Head(q), k2) => None(q, k1))
  BY <1>2, <1>5 DEF None, Before
<1> QED
  BY <1>3, <1>4, <1>5 DEF Takes

\* A queue of one message.
LEMMA HoldOne ==
    ASSUME NEW e
    PROVE  Holds(<<e>>, e)
<1>1. ASSUME NEW k PROVE At(<<e>>, k) = IF Is(e, k) THEN {1} ELSE {}
  BY DEF At
<1> QED
  BY <1>1 DEF Holds, None, Once, Before

\* A queue without messages of the kinds.
LEMMA HoldNone ==
    ASSUME NEW r, \A i \in DOMAIN r : \A k \in Kind : ~Is(r[i], k)
    PROVE  Clear(r)
  BY DEF Clear, None, Once, Before, At

\* The empty queue.
LEMMA HoldEmpty == Clear(<<>>)
  BY HoldNone

\* One message of a removal is under way at most, only while it runs, and
\* watches are removed only while there are paths to go through.
RemovalInv ==
    /\ Once(requests, "removal") /\ Once(completions, "removal")
    /\ None(requests, "removal") \/ None(completions, "removal")
    /\ removal \in {"listing", "removing"} \/ (None(requests, "removal") /\ None(completions, "removal"))
    /\ to_remove # <<>> \/ (None(requests, "remove") /\ None(completions, "remove"))

TypeInv == TypeOK /\ RemovalInv

\* The watches of the server are where the client's watchers are.
BackedInv ==
    /\ \A d \in data_watchers : d[1] \in srvData
    /\ child_watchers # {} => srvChild
    /\ srvChild => node[Parent] # Absent
    /\ \A c \in Child : c \in srvData => node[c] # Absent

\* The exists chain is in one place, and the answer to an exists is completed
\* before the event of the watch it set.
ExistsOnce ==
    /\ Once(requests, "exists") /\ Once(completions, "exists") /\ Once(completions, "fired")
    /\ None(requests, "exists") \/ (None(completions, "exists") /\ None(completions, "fired")
                                      /\ ExistsData \notin data_watchers)
    /\ ExistsData \in data_watchers => None(completions, "fired")
    /\ Before(completions, "exists", "fired")
    /\ ~record /\ removal = "none" =>
         /\ None(requests, "exists") /\ None(completions, "exists") /\ None(completions, "fired")
         /\ ExistsData \notin data_watchers

\* A creation of Parent that has not started its listing chain yet.
Owed == chains[Parent] < births[Parent]

\* What makes the callback of the exists chain start a listing comes from a
\* creation that has not started one.
OwedInv ==
    /\ ListerPerCreation
    /\ node[Parent] # Absent => births[Parent] > 0
    /\ ~None(requests, "exists") =>
         (eve = "created" => Owed) /\ (eve = "dummy" => chains[Parent] = 0)
    /\ ~None(completions, "found") /\ Starts(eve) => Owed
    /\ ~None(completions, "born") => Owed /\ None(completions, "found")
    /\ ExistsData \in data_watchers /\ node[Parent] = Absent => None(completions, "found")
    /\ ~record /\ removal = "none" => eve = "dummy" /\ chains[Parent] = 0

ListerInv == TypeInv /\ BackedInv /\ ExistsOnce /\ OwedInv

-----------------------------------------------------------------------------
(***************************************************************************)
(* Type correctness.                                                       *)
(***************************************************************************)
\* An order of some children is a sequence of them.
LEMMA OrderType ==
    ASSUME NEW S \in SUBSET Child, NEW order \in Orders(S)
    PROVE  /\ order \in Seq(Node) /\ Len(order) \in Nat /\ DOMAIN order = 1 .. Len(order)
           /\ \A i \in DOMAIN order : order[i] \in S
<1>1. Cardinality(S) \in Nat
  BY FS_Subset, FS_CardinalityType
<1>2. order \in [1 .. Cardinality(S) -> S]
  BY DEF Orders
<1>3. order \in Seq(S)
  BY <1>1, <1>2, SeqDef
<1>4. order \in Seq(Node)
  BY <1>1, <1>2, SeqDef DEF Node
<1> QED
  BY <1>2, <1>3, <1>4, LenProperties

\* The event of a transaction, if there is anybody to tell.
LEMMA EventType ==
    ASSUME NEW type \in {"created", "changed", "deleted", "child"}, NEW ds \in SUBSET UserData,
           type = "child" => ds \in SUBSET ListData
    PROVE  Event(ds, type) \in Seq(EventMsg \cup AnswerMsg)
<1>1. CASE ds = {}
  BY <1>1 DEF Event
<1>2. CASE ds # {}
  <2>1. [op |-> "event", ds |-> ds, type |-> type] \in EventMsg
    BY <1>2 DEF EventMsg
  <2> QED
    BY <1>2, <2>1, OneMessage DEF Event
<1> QED
  BY <1>1, <1>2

\* The watchers an event finds.
LEMMA CollectedType ==
    ASSUME TypeOK, NEW t, NEW type
    PROVE  /\ Collected(t, type) \in SUBSET UserData
           /\ type = "child" => Collected(t, type) \in SUBSET ListData
           /\ ExistsData \in Collected(t, type) <=>
                t = Parent /\ type # "child" /\ ExistsData \in data_watchers
           /\ \A d \in Collected(t, type) : d[1] = t
<1>1. ExistsData \notin child_watchers /\ ExistsData[1] = Parent
  BY DEF TypeOK, ListData, ExistsData
<1> QED
  BY <1>1 DEF Collected, TypeOK, UserData

\* What a transaction does to the watches and to the queue.
LEMMA TriggerType ==
    ASSUME TypeOK, NEW t \in Node, NEW type \in {"created", "changed", "deleted"},
           NEW relist \in BOOLEAN, Trigger(t, type, relist)
    PROVE  /\ srvData' \in SUBSET Node
           /\ srvChild' \in BOOLEAN
           /\ data_watchers' \in SUBSET ({ExistsData} \cup GetData)
           /\ child_watchers' \in SUBSET ListData
           /\ completions' \in Seq(EventMsg \cup AnswerMsg)
<1> DEFINE ends == t = Parent /\ type = "deleted"
           fired == IF t \in srvData \/ (ends /\ srvChild) THEN Collected(t, type) ELSE {}
           kids == IF relist /\ srvChild THEN Collected(Parent, "child") ELSE {}
<1>1. fired \in SUBSET UserData /\ kids \in SUBSET UserData /\ kids \in SUBSET ListData
  BY CollectedType
<1>2. /\ srvData' = srvData \ {t}
      /\ srvChild' = (srvChild /\ ~relist /\ ~ends)
      /\ data_watchers' = data_watchers \ (fired \cup kids)
      /\ child_watchers' = child_watchers \ (fired \cup kids)
      /\ completions' = completions \o (Event(fired, type) \o Event(kids, "child"))
  BY DEF Trigger, queue_completion
<1> HIDE DEF ends, fired, kids
<1>3. Event(fired, type) \in Seq(EventMsg \cup AnswerMsg)
  BY <1>1, EventType
<1>4. Event(kids, "child") \in Seq(EventMsg \cup AnswerMsg)
  BY <1>1, EventType
<1>5. Event(fired, type) \o Event(kids, "child") \in Seq(EventMsg \cup AnswerMsg)
  BY <1>3, <1>4, PutAll
<1>6. completions' \in Seq(EventMsg \cup AnswerMsg)
  BY <1>2, <1>5, PutAll DEF TypeOK
<1> QED
  BY <1>2, <1>6 DEF TypeOK

\* The first messages of the queues.
LEMMA First ==
    ASSUME TypeOK
    PROVE  /\ requests # <<>> => Head(requests) \in RequestMsg /\ Tail(requests) \in Seq(RequestMsg)
           /\ completions # <<>> => /\ Head(completions) \in EventMsg \cup AnswerMsg
                                    /\ Tail(completions) \in Seq(EventMsg \cup AnswerMsg)
  BY TakeHead DEF TypeOK

\* The fields of a request.
LEMMA RequestFields ==
    ASSUME NEW r \in RequestMsg
    PROVE  /\ r.op = "list" => r.d \in ListData
           /\ r.op = "get" => r.d \in GetData
           /\ r.op = "remove" => r.t \in Node
           /\ r.op \in {"exists", "list", "get", "plain_list", "remove"}
  BY DEF RequestMsg

\* The fields of a completion.
LEMMA CompletionFields ==
    ASSUME NEW m \in EventMsg \cup AnswerMsg
    PROVE  /\ m.op = "event" =>
                /\ m = [op |-> "event", ds |-> m.ds, type |-> m.type]
                /\ m.ds \in SUBSET UserData
                /\ m.type \in {"created", "changed", "deleted", "child"}
                /\ m.type = "child" => m.ds \in SUBSET ListData
           /\ m.op = "exists" => m.rc \in BOOLEAN
           /\ m.op = "list" => m.rc \in BOOLEAN /\ m.kids \in SUBSET Child
           /\ m.op = "plain_list" => m.rc \in BOOLEAN /\ m.kids \in SUBSET Child
           /\ m.op = "get" => m.d \in GetData /\ m.rc \in BOOLEAN /\ m.val \in Nat
           /\ m.op \in {"event", "exists", "list", "get", "plain_list", "remove"}
<1>1. CASE m \in EventMsg
  BY <1>1 DEF EventMsg, UserData
<1>2. CASE m \in AnswerMsg
  BY <1>2 DEF AnswerMsg
<1> QED
  BY <1>1, <1>2


\* A request is sent, or none.
LEMMA SendType ==
    ASSUME TypeOK, NEW r \in RequestMsg
    PROVE  /\ requests \o <<r>> \in Seq(RequestMsg) /\ requests \o <<>> \in Seq(RequestMsg)
           /\ Puts(requests, <<r>>, requests \o <<r>>) /\ Puts(requests, <<>>, requests \o <<>>)
           /\ Holds(<<r>>, r)
<1>1. <<r>> \in Seq(RequestMsg) /\ <<>> \in Seq(RequestMsg) /\ requests \in Seq(RequestMsg)
  BY OneMessage, NoMessage DEF TypeOK
<1> QED
  BY <1>1, PutAll, PutAt, HoldOne

\* Other clients.
LEMMA TypeOthers == TypeOK /\ OtherClients => TypeOK'
<1> SUFFICES ASSUME TypeOK, NEW t \in Node, SrvWrite(t) \/ SrvDelete(t) PROVE TypeOK'
  BY DEF OtherClients
<1>0. Parent \in Node /\ Child \subseteq Node
  BY DEF Node
<1>1. CASE SrvWrite(t)
  <2> DEFINE created == node[t] = Absent
  <2>1. /\ t # Parent => node[Parent] # Absent
        /\ zxid' = zxid + 1
        /\ node' = [node EXCEPT ![t] = zxid + 1]
        /\ births' = [births EXCEPT ![t] = IF created THEN @ + 1 ELSE @]
        /\ Trigger(t, IF created THEN "created" ELSE "changed", created /\ t # Parent)
        /\ UNCHANGED <<requests, eve, listed, record, remove, told, expiries>>
    BY <1>1 DEF SrvWrite
  <2>2. /\ (IF created THEN "created" ELSE "changed") \in {"created", "changed", "deleted"}
        /\ (created /\ t # Parent) \in BOOLEAN
    OBVIOUS
  <2>3. /\ srvData' \in SUBSET Node /\ srvChild' \in BOOLEAN
        /\ data_watchers' \in SUBSET ({ExistsData} \cup GetData)
        /\ child_watchers' \in SUBSET ListData
        /\ completions' \in Seq(EventMsg \cup AnswerMsg)
    BY <2>1, <2>2, TriggerType
  <2>4. births' \in [Node -> Nat] /\ node' \in [Node -> Nat] /\ zxid' \in Nat
    BY <2>1 DEF TypeOK
  <2>5. Present' # {} => node'[Parent] # Absent
    BY <1>0, <2>1 DEF TypeOK, Absent
  <2> HIDE DEF created
  <2> QED
    BY <2>1, <2>3, <2>4, <2>5 DEF TypeOK, listed, remove, told, NoList
<1>2. CASE SrvDelete(t)
  <2>1. /\ t = Parent => Present = {}
        /\ zxid' = zxid + 1
        /\ node' = [node EXCEPT ![t] = Absent]
        /\ Trigger(t, "deleted", t # Parent)
        /\ UNCHANGED <<births, requests, eve, listed, record, remove, told, expiries>>
    BY <1>2 DEF SrvDelete
  <2>2. /\ srvData' \in SUBSET Node /\ srvChild' \in BOOLEAN
        /\ data_watchers' \in SUBSET ({ExistsData} \cup GetData)
        /\ child_watchers' \in SUBSET ListData
        /\ completions' \in Seq(EventMsg \cup AnswerMsg)
    BY <2>1, TriggerType
  <2>3. node' \in [Node -> Nat] /\ zxid' \in Nat
    BY <2>1 DEF TypeOK, Absent
  <2>4. Present' \subseteq Present
    BY <1>0, <2>1 DEF TypeOK, Present, Absent
  <2>5. Present' # {} => node'[Parent] # Absent
    BY <1>0, <2>1, <2>4 DEF TypeOK
  <2> QED
    BY <2>1, <2>2, <2>3, <2>5 DEF TypeOK, listed, remove, told, NoList
<1> QED
  BY <1>1, <1>2

\* The server answers the oldest request.
LEMMA TypeServer == TypeOK /\ ServerStep => TypeOK'
<1> SUFFICES ASSUME TypeOK, ServerStep PROVE TypeOK'
  OBVIOUS
<1>0. /\ Parent \in Node /\ Child \subseteq Node /\ Present \in SUBSET Child
      /\ node[Parent] \in Nat
  BY DEF Node, TypeOK, Present
<1>1. ASSUME NEW op, NEW answer \in AnswerMsg, Answers(op, answer)
      PROVE  /\ requests' \in Seq(RequestMsg)
             /\ completions' \in Seq(EventMsg \cup AnswerMsg)
             /\ Present' = Present
             /\ requests # <<>> /\ Head(requests) \in RequestMsg /\ Head(requests).op = op
             /\ UNCHANGED <<zxid, node, births, eve, listed, record, remove, told, expiries>>
  <2>1. /\ requests # <<>> /\ requests' = Tail(requests) /\ Head(requests).op = op
        /\ completions' = completions \o <<answer>>
        /\ UNCHANGED <<zxid, node, births, eve, listed, record, remove, told, expiries>>
    BY <1>1 DEF Answers, queue_completion
  <2>2. <<answer>> \in Seq(EventMsg \cup AnswerMsg)
    BY OneMessage
  <2>3. completions' \in Seq(EventMsg \cup AnswerMsg)
    BY <2>1, <2>2, PutAll DEF TypeOK
  <2>4. Head(requests) \in RequestMsg /\ requests' \in Seq(RequestMsg)
    BY <2>1, First
  <2>5. Present' = Present
    BY <2>1 DEF Present
  <2> QED
    BY <2>1, <2>3, <2>4, <2>5
<1>2. CASE SrvExists
  <2> DEFINE m == [op |-> "exists", rc |-> node[Parent] # Absent]
  <2>1. m \in AnswerMsg /\ Answers("exists", m)
    BY <1>2 DEF SrvExists, AnswerMsg
  <2> HIDE DEF m
  <2> QED
    BY <1>0, <1>1, <1>2, <2>1 DEF SrvExists, TypeOK, listed, remove, told, NoList
<1>3. CASE SrvList
  <2> DEFINE d == Head(requests).d
             m == [op |-> "list", d |-> d, rc |-> node[Parent] # Absent, kids |-> Present]
  <2>1. Answers("list", m)
    BY <1>3 DEF SrvList
  <2>2. d \in ListData
    BY <2>1, First, RequestFields DEF Answers
  <2>3. m \in AnswerMsg
    BY <1>0, <2>2 DEF AnswerMsg
  <2> HIDE DEF m
  <2> QED
    BY <1>0, <1>1, <1>3, <2>1, <2>2, <2>3 DEF SrvList, TypeOK, listed, remove, told, NoList
<1>4. CASE SrvGet
  <2> DEFINE d == Head(requests).d
             m == [op |-> "get", d |-> d, rc |-> node[d[1]] # Absent, val |-> node[d[1]]]
  <2>1. Answers("get", m)
    BY <1>4 DEF SrvGet
  <2>2. d \in GetData
    BY <2>1, First, RequestFields DEF Answers
  <2>3. d[1] \in Node /\ node[d[1]] \in Nat
    BY <1>0, <2>2 DEF GetData, TypeOK
  <2>4. m \in AnswerMsg
    BY <2>2, <2>3 DEF AnswerMsg
  <2> HIDE DEF m
  <2> QED
    BY <1>0, <1>1, <1>4, <2>1, <2>2, <2>3, <2>4 DEF SrvGet, TypeOK, listed, remove, told, NoList
<1>5. CASE SrvPlainList
  <2> DEFINE m == [op |-> "plain_list", rc |-> node[Parent] # Absent, kids |-> Present]
  <2>1. m \in AnswerMsg /\ Answers("plain_list", m)
    BY <1>0, <1>5 DEF SrvPlainList, AnswerMsg
  <2> HIDE DEF m
  <2> QED
    BY <1>0, <1>1, <1>5, <2>1 DEF SrvPlainList, TypeOK, listed, remove, told, tables, NoList
<1>6. CASE SrvRemoveWatches
  <2> DEFINE m == [op |-> "remove"]
  <2>1. m \in AnswerMsg /\ Answers("remove", m)
    BY <1>6 DEF SrvRemoveWatches, AnswerMsg
  <2> HIDE DEF m
  <2> QED
    BY <1>0, <1>1, <1>6, <2>1 DEF SrvRemoveWatches, TypeOK, listed, remove, told, NoList
<1> QED
  BY <1>2, <1>3, <1>4, <1>5, <1>6 DEF ServerStep


\* Queue q2 is queue q with the first event delivered to d.
Lowers(q, q2, d) ==
    /\ \A k \in Kind : None(q, k) => None(q2, k)
    /\ \A k \in Kind : Once(q, k) => Once(q2, k)
    /\ \A k1, k2 \in Kind : Before(q, k1, k2) => Before(q2, k1, k2)
    /\ d = ExistsData /\ Once(q, "fired") => None(q2, "fired") /\ None(q2, "born")

\* The first event is delivered to one of its watchers; the others stay.
LEMMA Delivered ==
    ASSUME TypeOK, NEW d, Delivers(d)
    PROVE  /\ completions' \in Seq(EventMsg \cup AnswerMsg)
           /\ Lowers(completions, completions', d)
           /\ completions # <<>> /\ Head(completions).op = "event"
           /\ d \in Head(completions).ds /\ d \in UserData
           /\ Head(completions).type \in {"created", "changed", "deleted", "child"}
           /\ Head(completions).type = "child" => d \in ListData
<1> DEFINE q == completions
           e == Head(q)
           f == [e EXCEPT !.ds = @ \ {d}]
           q2 == [q EXCEPT ![1].ds = @ \ {d}]
<1>1. /\ q # <<>> /\ e.op = "event" /\ d \in e.ds
      /\ completions' = IF e.ds = {d} THEN Tail(q) ELSE q2
  BY DEF Delivers, Completes
<1>2. /\ q \in Seq(EventMsg \cup AnswerMsg) /\ Tail(q) \in Seq(EventMsg \cup AnswerMsg)
      /\ e \in EventMsg \cup AnswerMsg
      /\ Len(q) \in Nat /\ DOMAIN q = 1 .. Len(q) /\ 1 \in DOMAIN q /\ e = q[1]
  BY <1>1, TakeHead DEF TypeOK
<1>3. /\ e = [op |-> "event", ds |-> e.ds, type |-> e.type]
      /\ e.ds \in SUBSET UserData /\ e.type \in {"created", "changed", "deleted", "child"}
      /\ e.type = "child" => e.ds \in SUBSET ListData
  BY <1>1, <1>2, CompletionFields
<1>4. Takes(q, Tail(q), e)
  BY <1>1, <1>2, TakeAt
<1>5. d = ExistsData => Is(e, "fired")
  BY <1>1 DEF Is
<1>6. CASE e.ds = {d}
  <2>1. completions' = Tail(q)
    BY <1>1, <1>6
  <2>2. ASSUME None(Tail(q), "fired") PROVE None(Tail(q), "born")
    BY <2>2 DEF None, At, Is
  <2> HIDE DEF q, e
  <2>3. Lowers(q, Tail(q), d)
    BY <1>4, <1>5, <2>2 DEF Takes, Lowers, Kind
  <2> QED
    BY <1>1, <1>2, <1>3, <2>1, <2>3 DEF q, e
<1>7. CASE e.ds # {d}
  <2>1. completions' = q2
    BY <1>1, <1>7
  <2>2. f = [op |-> "event", ds |-> e.ds \ {d}, type |-> e.type]
    BY <1>3
  <2>3. f \in EventMsg \cup AnswerMsg
    BY <1>1, <1>3, <1>7, <2>2 DEF EventMsg
  <2>4. DOMAIN q2 = DOMAIN q /\ q2[1] = f /\ \A i \in DOMAIN q : i # 1 => q2[i] = q[i]
    BY <1>2
  <2>5. q2 \in Seq(EventMsg \cup AnswerMsg)
    <3>1. q2 = [i \in 1 .. Len(q) |-> IF i = 1 THEN f ELSE q[i]]
      BY <1>2
    <3>2. \A i \in 1 .. Len(q) : (IF i = 1 THEN f ELSE q[i]) \in EventMsg \cup AnswerMsg
      BY <1>2, <2>3, ElementOfSeq
    <3> HIDE DEF q2, f
    <3>3. q2 \in [1 .. Len(q) -> EventMsg \cup AnswerMsg]
      BY <3>1, <3>2
    <3> QED
      BY <1>2, <3>3, SeqDef
  <2>6. /\ \A k \in Kind : Is(f, k) => Is(e, k)
        /\ d = ExistsData => ~Is(f, "fired")
    <3>1. f.op = "event" /\ f.type = e.type /\ f.ds = e.ds \ {d}
      BY <2>2
    <3> HIDE DEF f
    <3> QED
      BY <1>1, <3>1 DEF Is, Kind
  <2>7. \A k \in Kind : At(q2, k) \subseteq At(q, k)
    <3> HIDE DEF q2, q, e, f
    <3> QED
      BY <1>2, <2>4, <2>6 DEF At
  <2>8. d = ExistsData => 1 \in At(q, "fired") /\ 1 \notin At(q2, "fired")
    <3> HIDE DEF q2, q, e, f
    <3> QED
      BY <1>2, <1>5, <2>4, <2>6 DEF At
  <2>9. At(q2, "born") \subseteq At(q2, "fired")
    BY DEF At, Is
  <2> HIDE DEF q2, q, e, f
  <2>10. Lowers(q, q2, d)
    BY <2>7, <2>8, <2>9 DEF Lowers, None, Once, Before, Kind
  <2> QED
    BY <1>1, <1>2, <1>3, <2>1, <2>5, <2>10 DEF q, e
<1> QED
  BY <1>6, <1>7

\* The completion thread delivers an event to one of its watchers.
LEMMA TypeDeliver ==
    ASSUME TypeOK, NEW d, RunExistsWatcher \/ RunListWatcher(d) \/ RunGetWatcher(d)
    PROVE  TypeOK'
<1>1. CASE RunExistsWatcher
  <2> DEFINE r == Request("exists", ExistsData)
  <2>1. Delivers(ExistsData) /\ requests' = requests \o <<r>>
        /\ eve' = Head(completions).type /\ UNCHANGED told
    BY <1>1 DEF RunExistsWatcher, Send
  <2>2. r \in RequestMsg
    BY DEF Request, RequestMsg
  <2>3. requests' \in Seq(RequestMsg)
    BY <2>1, <2>2, SendType
  <2>4. ExistsData \notin ListData
    BY DEF ExistsData, ListData
  <2>5. completions' \in Seq(EventMsg \cup AnswerMsg) /\ eve' \in {"created", "changed", "deleted"}
    BY <2>1, <2>4, Delivered
  <2> QED
    BY <2>1, <2>3, <2>5 DEF Delivers, TypeOK, server, tables, listed, remove, told, Present, NoList
<1>2. CASE RunListWatcher(d)
  <2> DEFINE r == Request("list", d)
  <2>1. /\ IsList(d) /\ Delivers(d) /\ UNCHANGED <<eve, told>>
        /\ requests' \in {requests \o <<r>>, requests \o <<>>}
    BY <1>2 DEF RunListWatcher, Send
  <2>2. completions' \in Seq(EventMsg \cup AnswerMsg) /\ d \in UserData
    BY <2>1, Delivered
  <2>3. d \in ListData
    BY <2>1, <2>2 DEF UserData, ListData, GetData, ExistsData, IsList
  <2>4. r \in RequestMsg
    BY <2>3 DEF Request, RequestMsg
  <2>5. requests' \in Seq(RequestMsg)
    BY <2>1, <2>4, SendType
  <2> QED
    BY <2>1, <2>2, <2>5 DEF Delivers, TypeOK, server, tables, listed, remove, told, Present, NoList
<1>3. CASE RunGetWatcher(d)
  <2> DEFINE r == Request("get", d)
  <2>1. /\ IsGet(d) /\ Delivers(d) /\ UNCHANGED <<eve, high>>
        /\ requests' \in {requests, requests \o <<r>>}
        /\ view' \in {view, [view EXCEPT ![d[1]] = Deleted]}
    BY <1>3 DEF RunGetWatcher, Send
  <2>2. completions' \in Seq(EventMsg \cup AnswerMsg) /\ d \in UserData
    BY <2>1, Delivered
  <2>3. d \in GetData
    BY <2>1, <2>2 DEF UserData, ListData, GetData, ExistsData, IsGet
  <2>4. r \in RequestMsg
    BY <2>3 DEF Request, RequestMsg
  <2>5. requests' \in Seq(RequestMsg)
    <3>1. requests \in Seq(RequestMsg) /\ requests \o <<r>> \in Seq(RequestMsg)
      BY <2>4, SendType DEF TypeOK
    <3> QED
      BY <2>1, <3>1
  <2>6. view' \in [Child -> Int]
    BY <2>1 DEF TypeOK, Deleted
  <2> QED
    BY <2>1, <2>2, <2>5, <2>6 DEF Delivers, TypeOK, server, tables, listed, remove, told, Present, NoList
<1> QED
  BY <1>1, <1>2, <1>3


\* The completion thread runs a completion of the watch.
LEMMA TypeRun == TypeOK /\ (RunExists \/ RunList \/ RunGet) => TypeOK'
<1> SUFFICES ASSUME TypeOK, RunExists \/ RunList \/ RunGet PROVE TypeOK'
  OBVIOUS
<1> DEFINE c == Head(completions)
<1>0. /\ completions # <<>> /\ completions' = Tail(completions)
      /\ c \in EventMsg \cup AnswerMsg /\ completions' \in Seq(EventMsg \cup AnswerMsg)
      /\ Parent \in Node /\ Child \subseteq Node
  <2>1. completions # <<>> /\ completions' = Tail(completions)
    BY DEF RunExists, RunList, RunGet, Completes
  <2> QED
    BY <2>1, First DEF Node
<1>1. CASE RunExists
  <2> DEFINE d == <<Parent, chains[Parent] + 1>>
             r == Request("list", d)
  <2>1. /\ requests' \in {requests \o <<r>>, requests \o <<>>}
        /\ chains' \in {chains, [chains EXCEPT ![Parent] = @ + 1]}
        /\ UNCHANGED <<server, tables, eve, last_sub_path, record, remove, told, expiries>>
    BY <1>1 DEF RunExists, Send
  <2>2. r \in RequestMsg /\ chains' \in [Node -> Nat]
    BY <1>0, <2>1 DEF Request, RequestMsg, ListData, TypeOK
  <2>3. requests' \in Seq(RequestMsg)
    BY <2>1, <2>2, SendType
  <2> QED
    BY <1>0, <2>1, <2>2, <2>3 DEF TypeOK, server, tables, listed, remove, told, Present, NoList
<1>2. CASE RunList
  <2>1. /\ c.op = "list"
        /\ UNCHANGED <<server, tables, eve, record, remove, told, expiries>>
    BY <1>2 DEF RunList, Completes
  <2>2. c.kids \in SUBSET Child
    BY <1>0, <2>1, CompletionFields
  <2>3. CASE c.rc
    <3>1. PICK order \in Orders(New(c.kids)) :
            requests' = requests \o [i \in DOMAIN order |->
                                       Request("get", <<order[i], chains[order[i]] + 1>>)]
      BY <1>2, <2>3 DEF RunList, Send
    <3> DEFINE r == [i \in DOMAIN order |-> Request("get", <<order[i], chains[order[i]] + 1>>)]
    <3>2. New(c.kids) \in SUBSET Child
      BY <2>2 DEF New
    <3>3. /\ Len(order) \in Nat /\ DOMAIN order = 1 .. Len(order)
          /\ \A i \in DOMAIN order : order[i] \in Child
      BY <3>2, OrderType
    <3>4. \A i \in DOMAIN order : Request("get", <<order[i], chains[order[i]] + 1>>) \in RequestMsg
      <4> SUFFICES ASSUME NEW i \in DOMAIN order
                   PROVE  Request("get", <<order[i], chains[order[i]] + 1>>) \in RequestMsg
        OBVIOUS
      <4>1. order[i] \in Child /\ chains[order[i]] \in Nat
        BY <1>0, <3>3 DEF TypeOK
      <4>2. <<order[i], chains[order[i]] + 1>> \in GetData
        BY <4>1 DEF GetData
      <4> QED
        BY <4>2 DEF Request, RequestMsg
    <3>5. r \in [1 .. Len(order) -> RequestMsg]
      BY <3>3, <3>4
    <3>6. r \in Seq(RequestMsg)
      BY <3>3, <3>5, SeqDef
    <3> HIDE DEF r
    <3>7. requests' \in Seq(RequestMsg)
      BY <3>1, <3>6, PutAll DEF TypeOK, r
    <3>8. chains' \in [Node -> Nat] /\ last_sub_path' \in SUBSET Child
      BY <1>2, <2>2, <2>3 DEF RunList, TypeOK
    <3> QED
      BY <1>0, <2>1, <3>7, <3>8 DEF TypeOK, server, tables, remove, told, Present, NoList
  <2>4. CASE ~c.rc
    <3>1. UNCHANGED <<requests, listed>>
      BY <1>2, <2>4 DEF RunList
    <3> QED
      BY <1>0, <2>1, <3>1 DEF TypeOK, server, tables, listed, remove, told, Present, NoList
  <2> QED
    BY <2>3, <2>4
<1>3. CASE RunGet
  <2> DEFINE child == c.d[1]
  <2>1. /\ c.op = "get"
        /\ IF c.rc
           THEN /\ view' = [view EXCEPT ![child] = c.val]
                /\ high' = [high EXCEPT ![child] = IF c.val > @ THEN c.val ELSE @]
           ELSE UNCHANGED told
        /\ UNCHANGED <<server, requests, tables, eve, listed, record, remove, expiries>>
    BY <1>3 DEF RunGet, Completes
  <2>2. c.val \in Nat /\ child \in Child
    BY <1>0, <2>1, CompletionFields DEF GetData
  <2> HIDE DEF child, c
  <2>3. view' \in [Child -> Int] /\ high' \in [Child -> Nat]
    <3>1. CASE c.rc
      <4> DEFINE n == IF c.val > high[child] THEN c.val ELSE high[child]
      <4>1. view' = [view EXCEPT ![child] = c.val] /\ high' = [high EXCEPT ![child] = n]
        BY <2>1, <3>1
      <4>2. high[child] \in Nat /\ n \in Nat
        BY <2>2 DEF TypeOK
      <4> HIDE DEF n
      <4> QED
        BY <2>2, <4>1, <4>2 DEF TypeOK
    <3>2. CASE ~c.rc
      BY <2>1, <3>2 DEF TypeOK, told
    <3> QED
      BY <3>1, <3>2
  <2> QED
    BY <1>0, <2>1, <2>3 DEF TypeOK, server, tables, listed, remove, Present, NoList
<1> QED
  BY <1>1, <1>2, <1>3

\* The end of a removal.
LEMMA TypeDone ==
    ASSUME TypeOK, RemovalDone, completions' \in Seq(EventMsg \cup AnswerMsg),
           UNCHANGED <<server, tables, eve, chains, told, expiries>>
    PROVE  TypeOK'
<1>1. to_remove' \in Seq(Node)
  BY DEF RemovalDone
<1> QED
  BY <1>1 DEF RemovalDone, TypeOK, server, tables, told, Present, NoList

\* The next watches are removed.
LEMMA TypeRemoveNext ==
    ASSUME TypeOK, NEW todo \in Seq(Node), todo # <<>>, RemoveNext(todo)
    PROVE  /\ requests' \in Seq(RequestMsg) /\ to_remove' \in Seq(Node)
           /\ \E r \in RequestMsg :
                r.op = "remove" /\ requests' = requests \o <<r>> /\ Puts(requests, <<r>>, requests')
                  /\ Holds(<<r>>, r)
<1> DEFINE r == [op |-> "remove", t |-> Head(todo)]
<1>1. requests' = requests \o <<r>> /\ to_remove' = todo
  BY DEF RemoveNext, Send
<1>2. Head(todo) \in Node
  BY TakeHead
<1>3. r \in RequestMsg /\ r.op = "remove"
  BY <1>2 DEF RequestMsg
<1> HIDE DEF r
<1>4. requests' \in Seq(RequestMsg) /\ Puts(requests, <<r>>, requests') /\ Holds(<<r>>, r)
  BY <1>1, <1>3, SendType
<1> QED
  BY <1>1, <1>3, <1>4


-----------------------------------------------------------------------------
(***************************************************************************)
(* A removal has one message under way.                                    *)
(***************************************************************************)
\* A message that removes watches is one of a removal.
LEMMA RemoveIsRemoval == \A q : None(q, "removal") => None(q, "remove")
  BY DEF None, At, Is

\* The events of a transaction.
LEMMA EventsClear ==
    ASSUME NEW fired, NEW kids, NEW type, TypeOK,
           Event(fired, type) \in Seq(EventMsg \cup AnswerMsg),
           Event(kids, "child") \in Seq(EventMsg \cup AnswerMsg),
           ExistsData \notin kids
    PROVE  LET r == Event(fired, type) \o Event(kids, "child")
           IN  /\ \A k \in {"removal", "remove", "exists", "found"} : None(r, k) /\ Once(r, k)
               /\ Once(r, "fired")
               /\ Before(r, "exists", "fired")
               /\ None(r, "fired") <=> ExistsData \notin fired
               /\ None(r, "born") <=> ExistsData \notin fired \/ type # "created"
<1> DEFINE e1 == Event(fired, type)
           e2 == Event(kids, "child")
           m1 == [op |-> "event", ds |-> fired, type |-> type]
           m2 == [op |-> "event", ds |-> kids, type |-> "child"]
<1>1. Puts(e1, e2, e1 \o e2)
  BY PutAt
<1>2. IF fired = {} THEN Clear(e1) ELSE Holds(e1, m1)
  BY HoldOne, HoldEmpty DEF Event
<1>3. IF kids = {} THEN Clear(e2) ELSE Holds(e2, m2)
  BY HoldOne, HoldEmpty DEF Event
<1>4. /\ \A k \in {"removal", "remove", "exists", "found"} : ~Is(m1, k) /\ ~Is(m2, k)
      /\ ~Is(m2, "fired") /\ ~Is(m2, "born")
      /\ Is(m1, "fired") <=> ExistsData \in fired
      /\ Is(m1, "born") <=> ExistsData \in fired /\ type = "created"
  BY DEF Is
<1> HIDE DEF e1, e2, m1, m2
<1>5. /\ \A k \in {"removal", "remove", "exists", "found"} : None(e1, k) /\ Once(e1, k)
      /\ Once(e1, "fired") /\ Before(e1, "exists", "fired")
      /\ None(e1, "fired") <=> ExistsData \notin fired
      /\ None(e1, "born") <=> ExistsData \notin fired \/ type # "created"
  BY <1>2, <1>4 DEF Clear, Holds, Kind
<1>6. /\ \A k \in Kind : None(e2, k) /\ Once(e2, k)
      /\ Before(e2, "exists", "fired")
  BY <1>3, <1>4 DEF Clear, Holds, Kind
<1> QED
  BY <1>1, <1>5, <1>6 DEF Puts, Kind, e1, e2


-----------------------------------------------------------------------------
(***************************************************************************)
(* The watchers are backed by the server.                                  *)
(***************************************************************************)
\* A transaction on a node takes the watches and the watchers together.
LEMMA BackedTrigger ==
    ASSUME TypeOK, BackedInv, NEW t \in Node, NEW type \in {"created", "changed", "deleted"},
           NEW relist \in BOOLEAN, Trigger(t, type, relist),
           \A u \in Node \ {t} : node'[u] = node[u],
           node'[t] = Absent <=> type = "deleted"
    PROVE  BackedInv'
<1> DEFINE ends == t = Parent /\ type = "deleted"
           fired == IF t \in srvData \/ (ends /\ srvChild) THEN Collected(t, type) ELSE {}
           kids == IF relist /\ srvChild THEN Collected(Parent, "child") ELSE {}
<1>1. /\ srvData' = srvData \ {t}
      /\ srvChild' = (srvChild /\ ~relist /\ ~ends)
      /\ data_watchers' = data_watchers \ (fired \cup kids)
      /\ child_watchers' = child_watchers \ (fired \cup kids)
  BY DEF Trigger
<1>2. /\ \A d \in data_watchers : d[1] \in srvData
      /\ child_watchers # {} => srvChild
      /\ srvChild => node[Parent] # Absent
      /\ \A c \in Child : c \in srvData => node[c] # Absent
  BY DEF BackedInv
<1>3. Parent \in Node /\ Child \subseteq Node
  BY DEF Node
<1>4. \A d \in child_watchers : d[1] = Parent
  BY DEF TypeOK, ListData
<1>5. \A d \in data_watchers' : d[1] \in srvData'
  <2> SUFFICES ASSUME NEW d \in data_watchers', d[1] = t PROVE FALSE
    BY <1>1, <1>2
  <2>1. t \in srvData /\ d \in Collected(t, type)
    BY <1>1, <1>2 DEF Collected
  <2> QED
    BY <1>1, <2>1
<1>6. child_watchers' # {} => srvChild'
  <2> SUFFICES ASSUME NEW d \in child_watchers', relist \/ ends PROVE FALSE
    BY <1>1, <1>2
  <2>1. srvChild /\ d[1] = Parent /\ d \in child_watchers
    BY <1>1, <1>2, <1>4
  <2>2. relist => d \in kids
    BY <2>1 DEF Collected
  <2>3. ends => d \in fired
    BY <2>1 DEF Collected
  <2> QED
    BY <1>1, <2>2, <2>3
<1>7. srvChild' => node'[Parent] # Absent
  <2>1. CASE t = Parent
    BY <1>1, <2>1
  <2>2. CASE t # Parent
    BY <1>1, <1>2, <1>3, <2>2
  <2> QED
    BY <2>1, <2>2
<1>8. \A c \in Child : c \in srvData' => node'[c] # Absent
  BY <1>1, <1>2, <1>3
<1> QED
  BY <1>5, <1>6, <1>7, <1>8 DEF BackedInv

\* Every step keeps the watchers backed.
LEMMA BackedStep == TypeOK /\ BackedInv /\ [Next]_vars => BackedInv'
<1> SUFFICES ASSUME TypeOK, BackedInv, [Next]_vars PROVE BackedInv'
  OBVIOUS
<1>0. Parent \in Node /\ Child \subseteq Node
  BY DEF Node
<1>1. ASSUME NEW t \in Node, SrvWrite(t) PROVE BackedInv'
  <2> DEFINE created == node[t] = Absent
             type == IF created THEN "created" ELSE "changed"
             relist == created /\ t # Parent
  <2>1. node' = [node EXCEPT ![t] = zxid + 1] /\ Trigger(t, type, relist)
    BY <1>1 DEF SrvWrite
  <2>2. type \in {"created", "changed", "deleted"} /\ relist \in BOOLEAN /\ type # "deleted"
    OBVIOUS
  <2>3. (\A u \in Node \ {t} : node'[u] = node[u]) /\ node'[t] # Absent
    BY <2>1 DEF TypeOK, Absent
  <2> HIDE DEF type, relist
  <2> QED
    BY <2>1, <2>2, <2>3, BackedTrigger
<1>2. ASSUME NEW t \in Node, SrvDelete(t) PROVE BackedInv'
  <2>1. node' = [node EXCEPT ![t] = Absent] /\ Trigger(t, "deleted", t # Parent)
    BY <1>2 DEF SrvDelete
  <2>2. (\A u \in Node \ {t} : node'[u] = node[u]) /\ node'[t] = Absent
    BY <2>1 DEF TypeOK
  <2>3. (t # Parent) \in BOOLEAN
    OBVIOUS
  <2> QED
    BY <2>1, <2>2, <2>3, BackedTrigger
<1>3. CASE SrvExists
  BY <1>3 DEF SrvExists, Answers, BackedInv, ExistsData
<1>4. CASE SrvList
  <2>1. node' = node /\ srvChild' = (srvChild \/ node[Parent] # Absent) /\ UNCHANGED <<srvData, data_watchers>>
        /\ (child_watchers' # {} => child_watchers # {} \/ node[Parent] # Absent)
    BY <1>4 DEF SrvList, Answers
  <2> QED
    BY <2>1 DEF BackedInv
<1>5. CASE SrvGet
  <2> DEFINE d == Head(requests).d
  <2>1. /\ node' = node /\ UNCHANGED <<srvChild, child_watchers>>
        /\ srvData' = IF node[d[1]] # Absent THEN srvData \cup {d[1]} ELSE srvData
        /\ data_watchers' = IF node[d[1]] # Absent THEN data_watchers \cup {d} ELSE data_watchers
    BY <1>5 DEF SrvGet, Answers
  <2> HIDE DEF d
  <2> QED
    BY <2>1 DEF BackedInv
<1>6. CASE SrvPlainList
  BY <1>6 DEF SrvPlainList, Answers, tables, BackedInv
<1>7. CASE SrvRemoveWatches
  <2> DEFINE t == Head(requests).t
             found == t \in srvData \/ (t = Parent /\ srvChild)
  <2>1. /\ node' = node /\ srvData' = srvData \ {t} /\ srvChild' = (srvChild /\ t # Parent)
        /\ data_watchers' = IF found THEN {d \in data_watchers : d[1] # t} ELSE data_watchers
        /\ child_watchers' = IF found /\ t = Parent THEN {} ELSE child_watchers
    BY <1>7 DEF SrvRemoveWatches, Answers
  <2> HIDE DEF t
  <2> QED
    BY <2>1 DEF BackedInv
<1>8. ASSUME UNCHANGED <<node, srvData, srvChild, data_watchers, child_watchers>> PROVE BackedInv'
  BY <1>8 DEF BackedInv
<1>9. CASE CompletionStep
  BY <1>8, <1>9 DEF CompletionStep, RunExistsWatcher, RunListWatcher, RunGetWatcher, Delivers,
    RunExists, RunList, RunGet, RunPlainList, RunRemove, server, tables
<1>10. CASE WatchSubPath \/ RemoveWatches \/ UNCHANGED vars
  BY <1>8, <1>10 DEF WatchSubPath, RemoveWatches, vars, server, tables
<1>11. CASE Expire
  BY <1>11 DEF Expire, BackedInv
<1> QED
  BY <1>1, <1>2, <1>3, <1>4, <1>5, <1>6, <1>7, <1>9, <1>10, <1>11 DEF Next, OtherClients, ServerStep


-----------------------------------------------------------------------------
(***************************************************************************)
(* The exists chain is in one place, and starts one listing chain for each *)
(* creation of Parent.                                                     *)
(***************************************************************************)
QueueInv == RemovalInv /\ ExistsOnce /\ OwedInv

\* A message of a finer kind is one of the coarser kind too.
LEMMA FoundIsExists ==
    \A q : (None(q, "exists") => None(q, "found")) /\ (None(q, "fired") => None(q, "born"))
  BY DEF None, At, Is

\* What a transaction adds to the queue of completions.
LEMMA TriggerQueue ==
    ASSUME TypeOK, BackedInv, NEW t \in Node, NEW type \in {"created", "changed", "deleted"},
           NEW relist \in BOOLEAN, Trigger(t, type, relist),
           NEW hit \in BOOLEAN, hit <=> (t = Parent /\ ExistsData \in data_watchers)
    PROVE  /\ \A k \in {"removal", "remove", "exists", "found"} :
                /\ None(completions', k) <=> None(completions, k)
                /\ Once(completions, k) => Once(completions', k)
           /\ None(completions', "fired") <=> None(completions, "fired") /\ ~hit
           /\ None(completions', "born") <=> None(completions, "born") /\ ~(hit /\ type = "created")
           /\ Once(completions, "fired") /\ (hit => None(completions, "fired"))
                => Once(completions', "fired")
           /\ Before(completions, "exists", "fired") => Before(completions', "exists", "fired")
           /\ ExistsData \in data_watchers' <=> ExistsData \in data_watchers /\ ~hit
<1> DEFINE ends == t = Parent /\ type = "deleted"
           fired == IF t \in srvData \/ (ends /\ srvChild) THEN Collected(t, type) ELSE {}
           kids == IF relist /\ srvChild THEN Collected(Parent, "child") ELSE {}
           r == Event(fired, type) \o Event(kids, "child")
<1>1. /\ data_watchers' = data_watchers \ (fired \cup kids)
      /\ completions' = completions \o r
  BY DEF Trigger, queue_completion
<1>2. /\ fired \in SUBSET UserData /\ kids \in SUBSET UserData /\ kids \in SUBSET ListData
      /\ ExistsData \notin kids
      /\ ExistsData \in fired <=> hit
  <2>1. ExistsData \notin ListData /\ ExistsData[1] = Parent
    BY DEF ExistsData, ListData
  <2>2. ExistsData \in data_watchers => Parent \in srvData
    BY <2>1 DEF BackedInv
  <2> QED
    BY <2>1, <2>2, CollectedType
<1> HIDE DEF fired, kids
<1>3. /\ Event(fired, type) \in Seq(EventMsg \cup AnswerMsg)
      /\ Event(kids, "child") \in Seq(EventMsg \cup AnswerMsg)
  BY <1>2, EventType
<1>4. /\ \A k \in {"removal", "remove", "exists", "found"} : None(r, k) /\ Once(r, k)
      /\ Once(r, "fired")
      /\ Before(r, "exists", "fired")
      /\ None(r, "fired") <=> ExistsData \notin fired
      /\ None(r, "born") <=> ExistsData \notin fired \/ type # "created"
  BY <1>2, <1>3, EventsClear
<1>5. r \in Seq(EventMsg \cup AnswerMsg) /\ completions \in Seq(EventMsg \cup AnswerMsg)
  BY <1>3, PutAll DEF TypeOK
<1> HIDE DEF r
<1>6. Puts(completions, r, completions')
  BY <1>1, <1>5, PutAt
<1> QED
  BY <1>1, <1>2, <1>4, <1>6 DEF Puts, Kind

\* Other clients.
LEMMA QueueOthers ==
    ASSUME ListerInv, OtherClients
    PROVE  QueueInv'
<1> PICK t \in Node : SrvWrite(t) \/ SrvDelete(t)
  BY DEF OtherClients
<1> DEFINE hit == t = Parent /\ ExistsData \in data_watchers
<1>0. TypeOK /\ BackedInv /\ RemovalInv /\ ExistsOnce /\ OwedInv /\ Parent \in Node
  BY DEF ListerInv, TypeInv, Node
<1>1. hit \in BOOLEAN /\ (hit <=> (t = Parent /\ ExistsData \in data_watchers))
  OBVIOUS
<1> HIDE DEF hit
<1>2. CASE SrvWrite(t)
  <2> DEFINE created == node[t] = Absent
             type == IF created THEN "created" ELSE "changed"
             relist == created /\ t # Parent
  <2>1. /\ node' = [node EXCEPT ![t] = zxid + 1] /\ Trigger(t, type, relist)
        /\ births' = [births EXCEPT ![t] = IF created THEN @ + 1 ELSE @]
        /\ UNCHANGED <<requests, eve, listed, record, remove>>
    BY <1>2 DEF SrvWrite
  <2>2. type \in {"created", "changed", "deleted"} /\ relist \in BOOLEAN
    OBVIOUS
  <2>3. /\ type = "created" <=> created
        /\ births[Parent] \in Nat /\ births'[Parent] \in Nat /\ chains[Parent] \in Nat
        /\ births'[Parent] = IF t = Parent /\ created THEN births[Parent] + 1 ELSE births[Parent]
        /\ node'[Parent] = Absent => node[Parent] = Absent /\ t # Parent
        /\ node'[Parent] # Absent => node[Parent] # Absent \/ (t = Parent /\ created)
        /\ chains' = chains
    BY <1>0, <2>1 DEF TypeOK, Absent, listed
  <2> HIDE DEF type, relist
  <2>4. /\ \A k \in {"removal", "remove", "exists", "found"} :
             /\ None(completions', k) <=> None(completions, k)
             /\ Once(completions, k) => Once(completions', k)
        /\ None(completions', "fired") <=> None(completions, "fired") /\ ~hit
        /\ None(completions', "born") <=> None(completions, "born") /\ ~(hit /\ type = "created")
        /\ Once(completions, "fired") /\ (hit => None(completions, "fired"))
             => Once(completions', "fired")
        /\ Before(completions, "exists", "fired") => Before(completions', "exists", "fired")
        /\ ExistsData \in data_watchers' <=> ExistsData \in data_watchers /\ ~hit
    BY <1>0, <1>1, <2>1, <2>2, TriggerQueue
  <2>5. RemovalInv'
    BY <1>0, <2>1, <2>4 DEF RemovalInv, remove
  <2>6. ExistsOnce'
    BY <1>0, <1>1, <2>1, <2>4 DEF ExistsOnce, remove
  <2>7. (hit /\ created) => t = Parent /\ node[Parent] = Absent /\ None(completions, "found")
    BY <1>0, <1>1 DEF OwedInv
  <2> HIDE DEF created
  <2>8. OwedInv'
    BY <1>0, <1>1, <2>1, <2>3, <2>4, <2>7 DEF OwedInv, ListerPerCreation, Owed, listed, remove
  <2> QED
    BY <2>5, <2>6, <2>8 DEF QueueInv
<1>3. CASE SrvDelete(t)
  <2>1. /\ node' = [node EXCEPT ![t] = Absent] /\ Trigger(t, "deleted", t # Parent)
        /\ UNCHANGED <<births, requests, eve, listed, record, remove>>
    BY <1>3 DEF SrvDelete
  <2>2. (t # Parent) \in BOOLEAN
    OBVIOUS
  <2>3. t # Parent => node'[Parent] = node[Parent]
    BY <1>0, <2>1 DEF TypeOK
  <2>4. t = Parent => node'[Parent] = Absent
    BY <1>0, <2>1 DEF TypeOK
  <2>5. /\ \A k \in {"removal", "remove", "exists", "found"} :
             /\ None(completions', k) <=> None(completions, k)
             /\ Once(completions, k) => Once(completions', k)
        /\ None(completions', "fired") <=> None(completions, "fired") /\ ~hit
        /\ None(completions', "born") <=> None(completions, "born")
        /\ Once(completions, "fired") /\ (hit => None(completions, "fired"))
             => Once(completions', "fired")
        /\ Before(completions, "exists", "fired") => Before(completions', "exists", "fired")
        /\ ExistsData \in data_watchers' <=> ExistsData \in data_watchers /\ ~hit
    BY <1>0, <1>1, <2>1, <2>2, TriggerQueue
  <2>6. RemovalInv'
    BY <1>0, <2>1, <2>5 DEF RemovalInv, remove
  <2>7. ExistsOnce'
    BY <1>0, <1>1, <2>1, <2>5 DEF ExistsOnce, remove
  <2>8. OwedInv'
    BY <1>0, <1>1, <2>1, <2>3, <2>4, <2>5 DEF OwedInv, ListerPerCreation, Owed, listed, remove
  <2> QED
    BY <2>6, <2>7, <2>8 DEF QueueInv
<1> QED
  BY <1>2, <1>3


\* The oldest request becomes the last completion.
LEMMA AnswerQueue ==
    ASSUME TypeOK, NEW op, NEW answer \in AnswerMsg, answer.op = op, Answers(op, answer)
    PROVE  /\ Takes(requests, requests', Head(requests))
           /\ Puts(completions, <<answer>>, completions')
           /\ Holds(<<answer>>, answer)
           /\ \A k \in {"removal", "remove", "exists"} : Is(answer, k) <=> Is(Head(requests), k)
           /\ Is(answer, "exists") <=> op = "exists"
           /\ Is(answer, "removal") <=> op \in {"plain_list", "remove"}
           /\ Is(answer, "remove") <=> op = "remove"
           /\ Is(answer, "found") <=> op = "exists" /\ answer.rc
           /\ ~Is(answer, "fired") /\ ~Is(answer, "born")
           /\ UNCHANGED <<zxid, node, births, eve, listed, record, remove, told, expiries>>
<1>1. /\ requests # <<>> /\ requests' = Tail(requests) /\ Head(requests).op = op
      /\ completions' = completions \o <<answer>>
      /\ UNCHANGED <<zxid, node, births, eve, listed, record, remove, told, expiries>>
  BY DEF Answers, queue_completion
<1>2. <<answer>> \in Seq(EventMsg \cup AnswerMsg) /\ completions \in Seq(EventMsg \cup AnswerMsg)
      /\ requests \in Seq(RequestMsg)
  BY OneMessage DEF TypeOK
<1>3. Takes(requests, requests', Head(requests)) /\ Puts(completions, <<answer>>, completions')
  BY <1>1, <1>2, TakeAt, PutAt
<1>4. op # "event"
  BY CompletionFields DEF AnswerMsg
<1>5. /\ \A k \in {"removal", "remove", "exists"} : Is(answer, k) <=> Is(Head(requests), k)
      /\ Is(answer, "exists") <=> op = "exists"
      /\ Is(answer, "removal") <=> op \in {"plain_list", "remove"}
      /\ Is(answer, "remove") <=> op = "remove"
      /\ Is(answer, "found") <=> op = "exists" /\ answer.rc
      /\ ~Is(answer, "fired") /\ ~Is(answer, "born")
  BY <1>1, <1>4 DEF Is
<1> QED
  BY <1>1, <1>3, <1>5, HoldOne

\* The server answers the oldest request.
LEMMA QueueServer ==
    ASSUME ListerInv, ServerStep
    PROVE  QueueInv'
<1>0. TypeOK /\ BackedInv /\ RemovalInv /\ ExistsOnce /\ OwedInv /\ Parent \in Node
  BY DEF ListerInv, TypeInv, Node
<1>1. ASSUME NEW op, NEW answer \in AnswerMsg, answer.op = op, Answers(op, answer),
             op = "exists" =>
               (answer.rc <=> node[Parent] # Absent) /\ data_watchers' = data_watchers \cup {ExistsData},
             op # "exists" /\ ExistsData \in data_watchers' => ExistsData \in data_watchers
      PROVE  QueueInv'
  <2> DEFINE r == Head(requests)
             q == <<answer>>
  <2>1. /\ Takes(requests, requests', r)
        /\ Puts(completions, q, completions')
        /\ Holds(q, answer)
        /\ \A k \in {"removal", "remove", "exists"} : Is(answer, k) <=> Is(r, k)
        /\ Is(answer, "exists") <=> op = "exists"
        /\ Is(answer, "found") <=> op = "exists" /\ answer.rc
        /\ Is(answer, "remove") => Is(answer, "removal")
        /\ ~Is(answer, "fired") /\ ~Is(answer, "born")
        /\ UNCHANGED <<node, births, eve, listed, record, remove>>
    BY <1>0, <1>1, AnswerQueue
  <2> HIDE DEF r, q
  <2>2. RemovalInv'
    BY <1>0, <2>1 DEF RemovalInv, Takes, Puts, Holds, Kind, remove
  <2>3. ExistsOnce'
    BY <1>0, <1>1, <2>1 DEF ExistsOnce, Takes, Puts, Holds, Kind, remove
  <2>4. OwedInv'
    <3>1. CASE op = "exists"
      <4>1. /\ ~None(requests, "exists") /\ None(completions, "exists") /\ None(completions, "fired")
            /\ None(requests', "exists")
        BY <1>0, <2>1, <3>1 DEF ExistsOnce, Takes, Kind
      <4>2. None(completions', "born") /\ None(completions, "found")
        BY <2>1, <4>1, FoundIsExists DEF Puts, Holds, Kind
      <4>3. None(completions', "found") <=> node[Parent] = Absent
        BY <1>1, <2>1, <3>1, <4>2 DEF Puts, Holds, Kind
      <4>4. node[Parent] # Absent /\ Starts(eve) => Owed
        BY <1>0, <4>1 DEF OwedInv, Owed, Starts
      <4> QED
        BY <1>0, <2>1, <4>1, <4>2, <4>3, <4>4 DEF OwedInv, ListerPerCreation, Owed, listed, remove
    <3>2. CASE op # "exists"
      <4>1. /\ None(requests', "exists") <=> None(requests, "exists")
            /\ None(completions', "found") <=> None(completions, "found")
            /\ None(completions', "born") <=> None(completions, "born")
        BY <2>1, <3>2 DEF Takes, Puts, Holds, Kind
      <4> QED
        BY <1>0, <1>1, <2>1, <3>2, <4>1 DEF OwedInv, ListerPerCreation, Owed, listed, remove
    <3> QED
      BY <3>1, <3>2
  <2> QED
    BY <2>2, <2>3, <2>4 DEF QueueInv
<1>2. CASE SrvExists
  <2> DEFINE m == [op |-> "exists", rc |-> node[Parent] # Absent]
  <2>1. /\ m \in AnswerMsg /\ m.op = "exists" /\ Answers("exists", m)
        /\ (m.rc <=> node[Parent] # Absent) /\ data_watchers' = data_watchers \cup {ExistsData}
    BY <1>2 DEF SrvExists, AnswerMsg
  <2> HIDE DEF m
  <2> QED
    BY <1>1, <2>1
<1>3. CASE SrvList
  <2> DEFINE d == Head(requests).d
             m == [op |-> "list", d |-> d, rc |-> node[Parent] # Absent, kids |-> Present]
  <2>1. Answers("list", m) /\ data_watchers' = data_watchers /\ m.op = "list"
    BY <1>3 DEF SrvList
  <2>2. d \in ListData
    BY <1>0, <2>1, First, RequestFields DEF Answers
  <2>3. m \in AnswerMsg
    BY <2>2 DEF AnswerMsg, Present
  <2> HIDE DEF m
  <2> QED
    BY <1>1, <2>1, <2>3
<1>4. CASE SrvGet
  <2> DEFINE d == Head(requests).d
             m == [op |-> "get", d |-> d, rc |-> node[d[1]] # Absent, val |-> node[d[1]]]
  <2>1. Answers("get", m) /\ data_watchers' \subseteq data_watchers \cup {d} /\ m.op = "get"
    BY <1>4 DEF SrvGet
  <2>2. d \in GetData
    BY <1>0, <2>1, First, RequestFields DEF Answers
  <2>3. d[1] \in Node /\ node[d[1]] \in Nat /\ d # ExistsData
    BY <1>0, <2>2 DEF GetData, TypeOK, Node, ExistsData
  <2>4. m \in AnswerMsg
    BY <2>2, <2>3 DEF AnswerMsg
  <2> HIDE DEF m
  <2> QED
    BY <1>1, <2>1, <2>3, <2>4
<1>5. CASE SrvPlainList
  <2> DEFINE m == [op |-> "plain_list", rc |-> node[Parent] # Absent, kids |-> Present]
  <2>1. /\ m \in AnswerMsg /\ m.op = "plain_list" /\ Answers("plain_list", m)
        /\ data_watchers' = data_watchers
    BY <1>5 DEF SrvPlainList, AnswerMsg, Present, tables
  <2> HIDE DEF m
  <2> QED
    BY <1>1, <2>1
<1>6. CASE SrvRemoveWatches
  <2> DEFINE m == [op |-> "remove"]
  <2>1. /\ m \in AnswerMsg /\ m.op = "remove" /\ Answers("remove", m)
        /\ data_watchers' \subseteq data_watchers
    BY <1>6 DEF SrvRemoveWatches, AnswerMsg
  <2> HIDE DEF m
  <2> QED
    BY <1>1, <2>1
<1> QED
  BY <1>2, <1>3, <1>4, <1>5, <1>6 DEF ServerStep

\* An event is delivered to one of its watchers.
LEMMA QueueDeliver ==
    ASSUME ListerInv, NEW d, RunExistsWatcher \/ RunListWatcher(d) \/ RunGetWatcher(d)
    PROVE  QueueInv'
<1> DEFINE e == Head(completions)
<1>0. TypeOK /\ BackedInv /\ RemovalInv /\ ExistsOnce /\ OwedInv /\ Parent \in Node
  BY DEF ListerInv, TypeInv, Node
<1>1. ASSUME NEW f, Delivers(f)
      PROVE  /\ Lowers(completions, completions', f)
             /\ Takes(completions, Tail(completions), e)
             /\ f = ExistsData => Is(e, "fired")
             /\ f = ExistsData /\ e.type = "created" => Is(e, "born")
             /\ f = ExistsData => e.type \in {"created", "changed", "deleted"}
             /\ UNCHANGED <<server, tables, listed, record, remove>>
  <2>1. /\ Lowers(completions, completions', f) /\ completions # <<>> /\ e.op = "event" /\ f \in e.ds
        /\ e.type \in {"created", "changed", "deleted", "child"}
        /\ e.type = "child" => f \in ListData
    BY <1>0, <1>1, Delivered
  <2>2. Takes(completions, Tail(completions), e)
    BY <1>0, <2>1, TakeAt DEF TypeOK
  <2>3. ExistsData \notin ListData
    BY DEF ExistsData, ListData
  <2> QED
    BY <1>1, <2>1, <2>2, <2>3 DEF Is, Delivers
<1> HIDE DEF e
<1>2. CASE RunExistsWatcher
  <2> DEFINE r == Request("exists", ExistsData)
             q == <<r>>
  <2>1. Delivers(ExistsData) /\ requests' = requests \o q /\ eve' = e.type
    BY <1>2 DEF RunExistsWatcher, Send, e
  <2>2. r \in RequestMsg /\ r.op = "exists"
    BY DEF Request, RequestMsg
  <2>3. Is(r, "exists") /\ ~Is(r, "removal") /\ ~Is(r, "remove")
    BY <2>2 DEF Is
  <2>4. Puts(requests, q, requests') /\ Holds(q, r)
    BY <1>0, <2>1, <2>2, SendType
  <2> HIDE DEF r, q
  <2>5. /\ Lowers(completions, completions', ExistsData)
        /\ Takes(completions, Tail(completions), e) /\ Is(e, "fired")
        /\ e.type = "created" => Is(e, "born")
        /\ e.type \in {"created", "changed", "deleted"}
        /\ UNCHANGED <<server, tables, listed, record, remove>>
    BY <1>1, <2>1
  <2>6. /\ ~None(completions, "fired") /\ None(completions, "exists") /\ None(requests, "exists")
        /\ ExistsData \notin data_watchers
        /\ None(completions', "exists") /\ None(completions', "fired")
        /\ None(completions', "found") /\ None(completions', "born")
        /\ e.type = "created" => Owed
        /\ record \/ removal # "none"
    <3>1. ~None(completions, "fired") /\ None(completions, "exists")
      BY <1>0, <2>5 DEF ExistsOnce, Takes, Kind
    <3>2. /\ None(requests, "exists") /\ ExistsData \notin data_watchers
          /\ record \/ removal # "none"
      BY <1>0, <3>1 DEF ExistsOnce
    <3>3. None(completions', "exists") /\ None(completions', "fired") /\ None(completions', "born")
      BY <1>0, <2>5, <3>1 DEF ExistsOnce, Lowers, Kind
    <3>4. e.type = "created" => ~None(completions, "born")
      BY <2>5 DEF Takes, Kind
    <3> QED
      BY <1>0, <3>1, <3>2, <3>3, <3>4, FoundIsExists DEF OwedInv
  <2>7. RemovalInv'
    BY <1>0, <2>3, <2>4, <2>5 DEF RemovalInv, Lowers, Puts, Holds, Kind, remove
  <2>8. ExistsOnce'
    BY <1>0, <2>3, <2>4, <2>5, <2>6 DEF ExistsOnce, Lowers, Puts, Holds, Kind, remove, tables
  <2>9. OwedInv'
    BY <1>0, <2>1, <2>5, <2>6 DEF OwedInv, ListerPerCreation, Owed, server, listed, tables, remove
  <2> QED
    BY <2>7, <2>8, <2>9 DEF QueueInv
<1>3. CASE RunListWatcher(d) \/ RunGetWatcher(d)
  <2> DEFINE r == Request(IF IsList(d) THEN "list" ELSE "get", d)
  <2>1. /\ Delivers(d) /\ UNCHANGED eve /\ d # ExistsData
        /\ requests' \in {requests, requests \o <<r>>, requests \o <<>>}
    <3>1. IsList(d) => ~IsGet(d) /\ d # ExistsData
      BY DEF IsList, IsGet, ExistsData
    <3>2. IsGet(d) => ~IsList(d) /\ d # ExistsData
      BY DEF IsList, IsGet, ExistsData
    <3>3. CASE RunListWatcher(d)
      <4>1. IsList(d) /\ Delivers(d) /\ UNCHANGED eve
            /\ requests' \in {requests \o <<Request("list", d)>>, requests \o <<>>}
        BY <3>3 DEF RunListWatcher, Send
      <4> QED
        BY <3>1, <4>1
    <3>4. CASE RunGetWatcher(d)
      <4>1. IsGet(d) /\ Delivers(d) /\ UNCHANGED eve
            /\ requests' \in {requests, requests \o <<Request("get", d)>>}
        BY <3>4 DEF RunGetWatcher, Send
      <4> QED
        BY <3>2, <4>1
    <3> QED
      BY <1>3, <3>3, <3>4
  <2>2. r.op # "exists" /\ r.op # "plain_list" /\ r.op # "remove"
    BY DEF Request
  <2>3. \A k \in {"exists", "removal", "remove"} : ~Is(r, k)
    BY <2>2 DEF Is
  <2>4. r \in RequestMsg
    <3>1. d \in UserData
      BY <1>0, <2>1, Delivered
    <3> QED
      BY <2>1, <3>1 DEF UserData, ListData, GetData, Request, RequestMsg, IsList
  <2>5. \A k \in {"exists", "removal", "remove"} :
          /\ None(requests', k) <=> None(requests, k)
          /\ Once(requests, k) => Once(requests', k)
    <3>1. /\ Puts(requests, <<r>>, requests \o <<r>>) /\ Puts(requests, <<>>, requests \o <<>>)
          /\ Holds(<<r>>, r) /\ Clear(<<>>)
      BY <1>0, <2>4, SendType, HoldEmpty
    <3> HIDE DEF r
    <3> QED
      BY <2>1, <2>3, <3>1 DEF Puts, Holds, Clear, Kind
  <2>6. /\ Lowers(completions, completions', d)
        /\ UNCHANGED <<server, tables, listed, record, remove>>
    BY <1>1, <2>1
  <2> HIDE DEF r
  <2>7. RemovalInv'
    BY <1>0, <2>5, <2>6 DEF RemovalInv, Lowers, Kind, remove
  <2>8. ExistsOnce'
    BY <1>0, <2>5, <2>6 DEF ExistsOnce, Lowers, Kind, remove, tables
  <2>9. OwedInv'
    BY <1>0, <2>1, <2>5, <2>6 DEF OwedInv, ListerPerCreation, Owed, Lowers, Kind, server, listed, tables, remove
  <2> QED
    BY <2>7, <2>8, <2>9 DEF QueueInv
<1> QED
  BY <1>2, <1>3


\* The completion thread runs a completion of the watch.
LEMMA QueueRun ==
    ASSUME ListerInv, RunExists \/ RunList \/ RunGet
    PROVE  QueueInv'
<1> DEFINE c == Head(completions)
<1>0. /\ TypeOK /\ BackedInv /\ RemovalInv /\ ExistsOnce /\ OwedInv
      /\ Parent \in Node /\ chains[Parent] \in Nat /\ births[Parent] \in Nat
  BY DEF ListerInv, TypeInv, Node, TypeOK
<1>1. /\ completions # <<>> /\ completions' = Tail(completions)
      /\ UNCHANGED <<server, tables, eve, record, remove>>
      /\ c.op \in {"exists", "list", "get"}
  BY DEF RunExists, RunList, RunGet, Completes
<1>2. Takes(completions, completions', c)
  BY <1>0, <1>1, TakeAt DEF TypeOK
<1>3. /\ ~Is(c, "removal") /\ ~Is(c, "remove") /\ ~Is(c, "fired") /\ ~Is(c, "born")
      /\ Is(c, "exists") <=> c.op = "exists"
      /\ Is(c, "found") <=> c.op = "exists" /\ c.rc
  BY <1>1 DEF Is
<1>4. ASSUME NEW r, Puts(requests, r, requests'), Clear(r),
             chains'[Parent] = chains[Parent] \/ (Owed /\ chains'[Parent] = chains[Parent] + 1 /\ Is(c, "found"))
      PROVE  QueueInv'
  <2> HIDE DEF c
  <2>1. RemovalInv'
    BY <1>0, <1>1, <1>2, <1>3, <1>4 DEF RemovalInv, Takes, Puts, Clear, Kind, remove
  <2>2. ExistsOnce'
    BY <1>0, <1>1, <1>2, <1>3, <1>4 DEF ExistsOnce, Takes, Puts, Clear, Kind, remove, tables
  <2>3. OwedInv'
    <3>1. CASE chains'[Parent] = chains[Parent]
      BY <1>0, <1>1, <1>2, <1>4, <3>1
        DEF OwedInv, ListerPerCreation, Owed, Takes, Puts, Clear, Kind, server, tables, remove
    <3>2. CASE Owed /\ chains'[Parent] = chains[Parent] + 1 /\ Is(c, "found")
      <4>1. ~None(completions, "found") /\ ~None(completions, "exists") /\ Is(c, "exists")
        BY <1>2, <1>3, <3>2 DEF Takes, Kind
      <4>2. None(completions, "born") /\ None(completions', "born")
        BY <1>0, <1>2, <4>1 DEF OwedInv, Takes, Kind
      <4>3. None(completions', "exists") /\ None(completions', "found")
        BY <1>0, <1>2, <4>1, FoundIsExists DEF ExistsOnce, Takes, Kind
      <4>4. None(requests', "exists") /\ (record \/ removal # "none")
        BY <1>0, <1>4, <4>1 DEF ExistsOnce, Puts, Clear, Kind
      <4> QED
        BY <1>0, <1>1, <3>2, <4>2, <4>3, <4>4 DEF OwedInv, ListerPerCreation, Owed, server, remove
    <3> QED
      BY <1>4, <3>1, <3>2
  <2> QED
    BY <2>1, <2>2, <2>3 DEF QueueInv
<1>5. ASSUME NEW r, Clear(r), r \in Seq(RequestMsg), requests' = requests \o r
      PROVE  Puts(requests, r, requests')
  BY <1>0, <1>5, PutAt DEF TypeOK
<1>6. CASE RunExists
  <2> DEFINE first == c.rc /\ Starts(eve)
             d == <<Parent, chains[Parent] + 1>>
             r == Request("list", d)
             q == IF first THEN <<r>> ELSE <<>>
  <2>1. /\ c.op = "exists" /\ requests' = requests \o q
        /\ chains' = IF first THEN [chains EXCEPT ![Parent] = @ + 1] ELSE chains
    BY <1>6 DEF RunExists, Completes, Send
  <2>2. r \in RequestMsg /\ r.op = "list"
    BY <1>0 DEF Request, RequestMsg, ListData
  <2>3. \A k \in Kind : ~Is(r, k)
    BY <2>2 DEF Is
  <2>4. Clear(q)
    BY <2>3, HoldNone, HoldEmpty
  <2>5. q \in Seq(RequestMsg)
    BY <2>2, OneMessage, NoMessage
  <2>6. first => Owed /\ chains'[Parent] = chains[Parent] + 1 /\ Is(c, "found")
    <3>1. SUFFICES ASSUME first PROVE Owed /\ chains'[Parent] = chains[Parent] + 1 /\ Is(c, "found")
      OBVIOUS
    <3>2. Is(c, "found")
      BY <1>3, <2>1, <3>1
    <3>3. ~None(completions, "found")
      BY <1>2, <3>2 DEF Takes, Kind
    <3> QED
      BY <1>0, <2>1, <3>1, <3>2, <3>3 DEF OwedInv, TypeOK
  <2> HIDE DEF q, r, d
  <2>7. Puts(requests, q, requests')
    BY <1>5, <2>1, <2>4, <2>5
  <2> QED
    BY <1>4, <2>1, <2>4, <2>6, <2>7
<1>7. CASE RunGet
  <2>1. requests' = requests \o <<>> /\ UNCHANGED chains
    <3>1. requests' = requests /\ UNCHANGED chains
      BY <1>7 DEF RunGet, listed
    <3>2. requests \o <<>> = requests
      BY <1>0, ConcatEmptySeq DEF TypeOK
    <3> QED
      BY <3>1, <3>2
  <2>2. Clear(<<>>) /\ <<>> \in Seq(RequestMsg)
    BY HoldEmpty, NoMessage
  <2> QED
    BY <1>4, <1>5, <2>1, <2>2
<1>8. CASE RunList
  <2>1. c.op = "list" /\ c.kids \in SUBSET Child
    <3>1. c \in EventMsg \cup AnswerMsg /\ c.op = "list"
      BY <1>0, <1>1, <1>8, First DEF RunList, Completes
    <3> QED
      BY <3>1, CompletionFields
  <2>2. \E r : Clear(r) /\ r \in Seq(RequestMsg) /\ requests' = requests \o r
    <3>1. CASE c.rc
      <4>1. PICK order \in Orders(New(c.kids)) :
              requests' = requests \o [i \in DOMAIN order |->
                                         Request("get", <<order[i], chains[order[i]] + 1>>)]
        BY <1>8, <3>1 DEF RunList, Send
      <4> DEFINE r == [i \in DOMAIN order |-> Request("get", <<order[i], chains[order[i]] + 1>>)]
      <4>2. New(c.kids) \in SUBSET Child
        BY <2>1 DEF New
      <4>3. /\ Len(order) \in Nat /\ DOMAIN order = 1 .. Len(order)
            /\ \A i \in DOMAIN order : order[i] \in Child
        BY <4>2, OrderType
      <4>4. \A i \in DOMAIN order : r[i] \in RequestMsg /\ r[i].op = "get"
        BY <1>0, <4>3 DEF Request, RequestMsg, GetData, TypeOK, Node
      <4>5. r \in [1 .. Len(order) -> RequestMsg] /\ DOMAIN r = DOMAIN order
        BY <4>3, <4>4
      <4> HIDE DEF r
      <4>6. r \in Seq(RequestMsg)
        BY <4>3, <4>5, SeqDef
      <4>7. \A i \in DOMAIN r : \A k \in Kind : ~Is(r[i], k)
        BY <4>4, <4>5 DEF Is
      <4> QED
        BY <4>1, <4>6, <4>7, HoldNone DEF r
    <3>2. CASE ~c.rc
      <4>1. requests' = requests
        BY <1>8, <3>2 DEF RunList
      <4>2. requests \o <<>> = requests
        BY <1>0, ConcatEmptySeq DEF TypeOK
      <4>3. Clear(<<>>) /\ <<>> \in Seq(RequestMsg)
        BY HoldEmpty, NoMessage
      <4> QED
        BY <4>1, <4>2, <4>3
    <3> QED
      BY <3>1, <3>2
  <2>3. chains'[Parent] = chains[Parent] /\ births' = births
    BY <1>0, <1>1, <1>8, <2>1 DEF RunList, New, listed, server, NoList
  <2> QED
    BY <1>4, <1>5, <2>2, <2>3
<1> QED
  BY <1>6, <1>7, <1>8


\* A completion of a removal: the next request goes out, or the removal ends.
LEMMA RemovalRun ==
    ASSUME ListerInv, RunPlainList \/ RunRemove
    PROVE  TypeOK' /\ QueueInv'
<1> DEFINE c == Head(completions)
<1>0. /\ TypeOK /\ RemovalInv /\ ExistsOnce /\ OwedInv
      /\ Parent \in Node /\ Child \subseteq Node
  BY DEF ListerInv, TypeInv, Node
<1>1. /\ completions # <<>> /\ completions' = Tail(completions)
      /\ UNCHANGED <<server, tables, eve, chains, told, expiries>>
      /\ c.op \in {"plain_list", "remove"}
  BY DEF RunPlainList, RunRemove, Completes
<1>2. Takes(completions, completions', c)
  BY <1>0, <1>1, TakeAt DEF TypeOK
<1>3. /\ completions' \in Seq(EventMsg \cup AnswerMsg) /\ c \in EventMsg \cup AnswerMsg
  BY <1>0, <1>1, First
<1>4. Is(c, "removal") /\ (c.op = "remove" => Is(c, "remove"))
  BY <1>1 DEF Is
<1>5. /\ None(requests, "removal") /\ None(completions', "removal")
      /\ None(requests, "remove") /\ None(completions', "remove")
      /\ removal \in {"listing", "removing"}
      /\ c.op = "remove" => to_remove # <<>>
  <2>1. /\ ~None(completions, "removal") /\ None(completions', "removal")
        /\ c.op = "remove" => ~None(completions, "remove")
    BY <1>0, <1>2, <1>4 DEF RemovalInv, Takes, Kind
  <2> QED
    BY <1>0, <2>1, RemoveIsRemoval DEF RemovalInv
<1> HIDE DEF c
<1>6. ASSUME RemovalDone PROVE TypeOK' /\ QueueInv'
  <2>1. TypeOK'
    BY <1>0, <1>1, <1>3, <1>6, TypeDone
  <2>2. requests' = requests /\ removal' = "done"
    BY <1>6 DEF RemovalDone
  <2>3. RemovalInv'
    BY <1>5, <2>2 DEF RemovalInv, None, Once
  <2>4. ExistsOnce'
    BY <1>0, <1>1, <1>2, <2>2 DEF ExistsOnce, Takes, Kind, tables
  <2>5. OwedInv'
    BY <1>0, <1>1, <1>2, <2>2 DEF OwedInv, ListerPerCreation, Owed, Takes, Kind, server, tables, remove
  <2> QED
    BY <2>1, <2>3, <2>4, <2>5 DEF QueueInv
<1>7. ASSUME NEW todo \in Seq(Node), todo # <<>>, RemoveNext(todo), removal' \in {"listing", "removing"},
             UNCHANGED <<last_sub_path, record>>
      PROVE  TypeOK' /\ QueueInv'
  <2>1. PICK r \in RequestMsg :
          /\ r.op = "remove" /\ requests' = requests \o <<r>>
          /\ Puts(requests, <<r>>, requests') /\ Holds(<<r>>, r)
    BY <1>0, <1>7, TypeRemoveNext
  <2>2. requests' \in Seq(RequestMsg) /\ to_remove' \in Seq(Node) /\ to_remove' # <<>>
    BY <1>0, <1>7, TypeRemoveNext DEF RemoveNext
  <2>3. TypeOK'
    BY <1>0, <1>1, <1>3, <1>7, <2>2 DEF TypeOK, server, tables, told, Present, NoList
  <2>4. ~Is(r, "exists")
    BY <2>1 DEF Is
  <2>5. RemovalInv'
    <3>1. Once(requests', "removal")
      BY <1>5, <2>1 DEF Puts, Holds, Kind, None, Once
    <3>2. Once(completions', "removal")
      BY <1>5 DEF None, Once
    <3> QED
      BY <1>5, <1>7, <2>2, <3>1, <3>2 DEF RemovalInv
  <2>6. ExistsOnce'
    BY <1>0, <1>1, <1>2, <1>7, <2>1, <2>4 DEF ExistsOnce, Takes, Puts, Holds, Kind, tables
  <2>7. OwedInv'
    BY <1>0, <1>1, <1>2, <1>7, <2>1, <2>4
      DEF OwedInv, ListerPerCreation, Owed, Takes, Puts, Holds, Kind, server, tables, remove
  <2> QED
    BY <2>3, <2>5, <2>6, <2>7 DEF QueueInv
<1>8. CASE RunPlainList
  <2>1. CASE RemovalDone
    BY <1>6, <2>1
  <2>2. CASE ~RemovalDone
    <3>1. /\ removal' = "removing" /\ UNCHANGED <<last_sub_path, record>> /\ c.op = "plain_list"
          /\ \E order \in Orders(c.kids) : RemoveNext(Append(order, Parent))
      BY <1>8, <2>2 DEF RunPlainList, Completes, c
    <3>2. PICK order \in Orders(c.kids) : RemoveNext(Append(order, Parent))
      BY <3>1
    <3>3. c.kids \in SUBSET Child
      BY <1>3, <3>1, CompletionFields
    <3>4. order \in Seq(Node)
      BY <3>3, OrderType
    <3>5. Append(order, Parent) \in Seq(Node) /\ Append(order, Parent) # <<>>
      BY <1>0, <3>4, AppendProperties
    <3> QED
      BY <1>7, <3>1, <3>2, <3>5
  <2> QED
    BY <2>1, <2>2
<1>9. CASE RunRemove
  <2>1. c.op = "remove"
    BY <1>9 DEF RunRemove, Completes, c
  <2>2. to_remove # <<>> /\ Tail(to_remove) \in Seq(Node)
    <3>1. to_remove # <<>> /\ to_remove \in Seq(Node)
      BY <1>0, <1>5, <2>1 DEF TypeOK
    <3> QED
      BY <3>1, TakeHead
  <2>3. CASE Finished(Tail(to_remove))
    BY <1>6, <1>9, <2>3 DEF RunRemove
  <2>4. CASE ~Finished(Tail(to_remove))
    <3>1. /\ Tail(to_remove) # <<>> /\ RemoveNext(Tail(to_remove))
          /\ UNCHANGED <<removal, last_sub_path, record>>
      BY <1>9, <2>4 DEF RunRemove
    <3> QED
      BY <1>5, <1>7, <2>2, <3>1
  <2> QED
    BY <2>3, <2>4
<1> QED
  BY <1>8, <1>9

\* The calls of the user.
LEMMA UserStep ==
    ASSUME ListerInv, WatchSubPath \/ RemoveWatches
    PROVE  TypeOK' /\ QueueInv'
<1>0. TypeOK /\ RemovalInv /\ ExistsOnce /\ OwedInv
  BY DEF ListerInv, TypeInv
<1>1. CASE WatchSubPath
  <2> DEFINE r == Request("exists", ExistsData)
  <2>1. /\ ~record /\ removal = "none" /\ record' = TRUE /\ requests' = requests \o <<r>>
        /\ UNCHANGED <<server, tables, completions, eve, listed, remove, told, expiries>>
    BY <1>1 DEF WatchSubPath, Send
  <2>2. r \in RequestMsg /\ r.op = "exists"
    BY DEF Request, RequestMsg
  <2>3. ~Is(r, "removal") /\ ~Is(r, "remove")
    BY <2>2 DEF Is
  <2> HIDE DEF r
  <2>4. requests' \in Seq(RequestMsg) /\ Puts(requests, <<r>>, requests') /\ Holds(<<r>>, r)
    BY <1>0, <2>1, <2>2, SendType
  <2>5. TypeOK'
    BY <1>0, <2>1, <2>4 DEF TypeOK, server, tables, listed, remove, told, Present, NoList
  <2>6. RemovalInv'
    BY <1>0, <2>1, <2>3, <2>4 DEF RemovalInv, Puts, Holds, Kind, remove
  <2>7. /\ None(requests, "exists") /\ None(completions, "exists") /\ None(completions, "fired")
        /\ ExistsData \notin data_watchers
    BY <1>0, <2>1 DEF ExistsOnce
  <2>8. ExistsOnce'
    BY <1>0, <2>1, <2>4, <2>7 DEF ExistsOnce, Puts, Holds, Kind, tables
  <2>9. OwedInv'
    BY <1>0, <2>1, <2>7, FoundIsExists DEF OwedInv, ListerPerCreation, Owed, server, tables, listed
  <2> QED
    BY <2>5, <2>6, <2>8, <2>9 DEF QueueInv
<1>2. CASE RemoveWatches
  <2> DEFINE r == [op |-> "plain_list"]
  <2>1. /\ record /\ removal = "none" /\ removal' = "listing" /\ requests' = requests \o <<r>>
        /\ UNCHANGED <<server, tables, completions, eve, listed, record, to_remove, told, expiries>>
    BY <1>2 DEF RemoveWatches, Send
  <2>2. r \in RequestMsg /\ r.op = "plain_list"
    BY DEF RequestMsg
  <2>3. ~Is(r, "exists") /\ ~Is(r, "remove")
    BY <2>2 DEF Is
  <2> HIDE DEF r
  <2>4. requests' \in Seq(RequestMsg) /\ Puts(requests, <<r>>, requests') /\ Holds(<<r>>, r)
    BY <1>0, <2>1, <2>2, SendType
  <2>5. TypeOK'
    BY <1>0, <2>1, <2>4 DEF TypeOK, server, tables, listed, told, Present, NoList
  <2>6. RemovalInv'
    BY <1>0, <2>1, <2>3, <2>4 DEF RemovalInv, Puts, Holds, Kind
  <2>7. ExistsOnce'
    BY <1>0, <2>1, <2>3, <2>4 DEF ExistsOnce, Puts, Holds, Kind, tables
  <2>8. OwedInv'
    BY <1>0, <2>1, <2>3, <2>4
      DEF OwedInv, ListerPerCreation, Owed, Puts, Holds, Kind, server, tables, listed, remove
  <2> QED
    BY <2>5, <2>6, <2>7, <2>8 DEF QueueInv
<1> QED
  BY <1>1, <1>2

\* The session expires.
LEMMA ExpireStep ==
    ASSUME ListerInv, Expire
    PROVE  TypeOK' /\ QueueInv'
<1> DEFINE r == Request("exists", ExistsData)
<1>0. TypeOK /\ RemovalInv /\ ExistsOnce /\ OwedInv /\ Parent \in Node
  BY DEF ListerInv, TypeInv, Node
<1>1. /\ expiries' = expiries + 1
      /\ srvData' = {} /\ srvChild' = FALSE
      /\ data_watchers' = {} /\ child_watchers' = {}
      /\ completions' = <<>>
      /\ requests' = IF record THEN <<r>> ELSE <<>>
      /\ eve' = "dummy"
      /\ chains' = [t \in Node |-> 0]
      /\ last_sub_path' = NoList
      /\ removal' = IF removal \in {"listing", "removing"} THEN "lost" ELSE removal
      /\ to_remove' = <<>>
      /\ UNCHANGED <<zxid, node, births, record, told>>
  BY DEF Expire, AfterExpiry
<1>2. r \in RequestMsg /\ r.op = "exists"
  BY DEF Request, RequestMsg
<1>3. ~Is(r, "removal") /\ ~Is(r, "remove")
  BY <1>2 DEF Is
<1>4. Clear(<<>>) /\ Holds(<<r>>, r) /\ <<>> \in Seq(EventMsg \cup AnswerMsg)
      /\ <<>> \in Seq(RequestMsg) /\ <<r>> \in Seq(RequestMsg) /\ <<>> \in Seq(Node)
  BY <1>2, HoldOne, HoldEmpty, OneMessage, NoMessage
<1> HIDE DEF r
<1>5. TypeOK'
  <2>1. requests' \in Seq(RequestMsg) /\ completions' \in Seq(EventMsg \cup AnswerMsg)
        /\ to_remove' \in Seq(Node)
    BY <1>1, <1>4
  <2>2. /\ chains' \in [Node -> Nat] /\ expiries' \in Nat
        /\ removal' \in {"none", "listing", "removing", "lost", "done"}
    BY <1>0, <1>1 DEF TypeOK
  <2>3. last_sub_path' \in (SUBSET Child) \cup {NoList}
    BY <1>1
  <2>4. /\ srvData' \in SUBSET Node /\ srvChild' \in BOOLEAN
        /\ data_watchers' \in SUBSET ({ExistsData} \cup GetData) /\ child_watchers' \in SUBSET ListData
        /\ eve' \in {"dummy", "created", "changed", "deleted"}
    BY <1>1
  <2> QED
    BY <1>0, <1>1, <2>1, <2>2, <2>3, <2>4 DEF TypeOK, told, Present, NoList
<1>6. RemovalInv'
  BY <1>1, <1>3, <1>4 DEF RemovalInv, Clear, Holds, Kind
<1>7. ExistsOnce'
  <2>1. /\ Once(requests', "exists") /\ (~record => None(requests', "exists"))
    BY <1>1, <1>4 DEF Clear, Holds, Kind
  <2>2. /\ None(completions', "exists") /\ None(completions', "fired")
        /\ Once(completions', "exists") /\ Once(completions', "fired")
        /\ Before(completions', "exists", "fired")
    BY <1>1, <1>4 DEF Clear, Kind
  <2> QED
    BY <1>1, <2>1, <2>2 DEF ExistsOnce
<1>8. OwedInv'
  <2>1. chains'[Parent] = 0 /\ births[Parent] \in Nat
    BY <1>0, <1>1 DEF TypeOK
  <2>2. None(completions', "found") /\ None(completions', "born")
    BY <1>1, <1>4 DEF Clear, Kind
  <2> QED
    BY <1>0, <1>1, <2>1, <2>2 DEF OwedInv, ListerPerCreation
<1> QED
  BY <1>5, <1>6, <1>7, <1>8 DEF QueueInv

\* Every step keeps the types, the backing of the watchers and the exists chain.
LEMMA ListerStep == ListerInv /\ [Next]_vars => ListerInv'
<1> SUFFICES ASSUME ListerInv, [Next]_vars PROVE ListerInv'
  OBVIOUS
<1>1. TypeOK /\ BackedInv /\ BackedInv'
  BY BackedStep DEF ListerInv, TypeInv
<1>2. CASE OtherClients
  BY <1>1, <1>2, TypeOthers, QueueOthers DEF ListerInv, TypeInv, QueueInv
<1>3. CASE ServerStep
  BY <1>1, <1>3, TypeServer, QueueServer DEF ListerInv, TypeInv, QueueInv
<1>4. CASE CompletionStep
  <2>1. ASSUME NEW d, RunExistsWatcher \/ RunListWatcher(d) \/ RunGetWatcher(d) PROVE ListerInv'
    BY <1>1, <2>1, TypeDeliver, QueueDeliver DEF ListerInv, TypeInv, QueueInv
  <2>2. CASE RunExists \/ RunList \/ RunGet
    BY <1>1, <2>2, TypeRun, QueueRun DEF ListerInv, TypeInv, QueueInv
  <2>3. CASE RunPlainList \/ RunRemove
    BY <1>1, <2>3, RemovalRun DEF ListerInv, TypeInv, QueueInv
  <2> QED
    BY <1>4, <2>1, <2>2, <2>3 DEF CompletionStep
<1>5. CASE WatchSubPath \/ RemoveWatches
  BY <1>1, <1>5, UserStep DEF ListerInv, TypeInv, QueueInv
<1>6. CASE Expire
  BY <1>1, <1>6, ExpireStep DEF ListerInv, TypeInv, QueueInv
<1>7. CASE UNCHANGED vars
  BY <1>1, <1>7 DEF vars, server, tables, listed, remove, told, ListerInv, TypeInv, TypeOK, Present, NoList,
    RemovalInv, ExistsOnce, OwedInv, ListerPerCreation, Owed
<1> QED
  BY <1>2, <1>3, <1>4, <1>5, <1>6, <1>7 DEF Next

\* The invariant holds initially.
LEMMA ListerInit == Init => ListerInv
<1> SUFFICES ASSUME Init PROVE ListerInv
  OBVIOUS
<1>1. Clear(<<>>)
  BY HoldEmpty
<1>2. TypeOK
  <2>1. /\ requests \in Seq(RequestMsg) /\ completions \in Seq(EventMsg \cup AnswerMsg)
        /\ to_remove \in Seq(Node)
    BY NoMessage DEF Init
  <2>2. /\ zxid \in Nat /\ node \in [Node -> Nat] /\ births \in [Node -> Nat]
        /\ chains \in [Node -> Nat] /\ view \in [Child -> Int] /\ high \in [Child -> Nat]
        /\ Present = {}
    BY DEF Init, Absent, Unheard, Present, Node
  <2> QED
    BY <2>1, <2>2 DEF Init, TypeOK
<1>3. RemovalInv /\ ExistsOnce
  BY <1>1 DEF Init, Clear, Kind, RemovalInv, ExistsOnce
<1>4. BackedInv
  BY DEF Init, BackedInv
<1>5. OwedInv
  BY <1>1 DEF Init, Clear, Kind, OwedInv, ListerPerCreation, Node, Absent
<1> QED
  BY <1>2, <1>3, <1>4, <1>5 DEF ListerInv, TypeInv

\* The invariant holds in every reachable state.
LEMMA ListerHolds == Spec => []ListerInv
  BY ListerInit, ListerStep, PTL DEF Spec

\* The types hold in every reachable state, for any set of children: each
\* table and queue has the user data of its own chains only, so that an event
\* never reaches the wrong watcher function.
THEOREM TypeCorrect == Spec => []TypeOK
<1>1. ListerInv => TypeOK
  BY DEF ListerInv, TypeInv
<1> QED
  BY <1>1, ListerHolds, PTL

\* The client's watchers of the parent and of the children are backed by the
\* server's watches (collectWatchers and zoo_remove_watches against the
\* one-shot watches), whatever is removed, deleted or created again.
THEOREM WatchersStayBacked == Spec => []WatchersBacked
<1>1. ListerInv => WatchersBacked
  <2> SUFFICES ASSUME ListerInv PROVE WatchersBacked
    OBVIOUS
  <2>1. TypeOK /\ BackedInv
    BY DEF ListerInv, TypeInv
  <2>2. ASSUME NEW d \in data_watchers, IsGet(d) PROVE d[1] \in Child
    BY <2>1, <2>2 DEF TypeOK, GetData, ExistsData, IsGet
  <2> QED
    BY <2>1, <2>2 DEF BackedInv, WatchersBacked
<1> QED
  BY <1>1, ListerHolds, PTL

\* Each creation of the parent starts one listing chain at most: the callback
\* of the exists chain never takes one creation for two (watch_sub_path,
\* config_monitor.hpp:303-341).
THEOREM OneListingEach == Spec => []ListerPerCreation
<1>1. ListerInv => ListerPerCreation
  BY DEF ListerInv, OwedInv
<1> QED
  BY <1>1, ListerHolds, PTL


-----------------------------------------------------------------------------
(***************************************************************************)
(* The reports about each child go forward in time.                        *)
(***************************************************************************)
\* Message m has a value of child c, or tells of its deletion.
Value(m, c)  == m.op = "get" /\ m.d[1] = c /\ m.rc
Ending(m, c) == m.op = "event" /\ m.type = "deleted" /\ \E d \in m.ds : d[1] = c

\* n is no newer than what c holds, and older if c was deleted since.
Upto(n, c)  == n <= zxid /\ (node[c] # Absent => n <= node[c])
Below(n, c) == n < zxid /\ (node[c] # Absent => n < node[c])

\* What has been told of c is no newer than what c holds.
ToldForward(c) ==
    /\ node[c] <= zxid
    /\ view[c] \in {high[c], Unheard, Deleted}
    /\ Upto(high[c], c)
    /\ view[c] = Unheard => high[c] = 0
    /\ view[c] = Deleted /\ high[c] # 0 => Below(high[c], c)

\* The values of c in queue q: in order, after what has been told and before
\* what c holds.
ValuesForward(q, c) ==
    \A i \in DOMAIN q : Value(q[i], c) =>
        /\ Upto(q[i].val, c)
        /\ q[i].val > 0
        /\ high[c] <= q[i].val
        /\ view[c] # high[c] => high[c] < q[i].val
        /\ \A j \in DOMAIN q : i < j /\ Value(q[j], c) => q[i].val <= q[j].val

\* A deletion of c in queue q comes between older values and newer ones.
EndingsForward(q, c) ==
    \A i \in DOMAIN q : Ending(q[i], c) =>
        /\ Below(high[c], c)
        /\ \A j \in DOMAIN q : j < i /\ Value(q[j], c) => Below(q[j].val, c)
        /\ \A k \in DOMAIN q : i < k /\ Value(q[k], c) =>
             /\ high[c] < q[k].val
             /\ \A j \in DOMAIN q : j < i /\ Value(q[j], c) => q[j].val < q[k].val

Forward(c) == ToldForward(c) /\ ValuesForward(completions, c) /\ EndingsForward(completions, c)

ForwardInv == ListerInv /\ \A c \in Child : Forward(c)

\* Values are numbers.
LEMMA ValueType ==
    ASSUME TypeOK, NEW c \in Child
    PROVE  /\ \A i \in DOMAIN completions : Value(completions[i], c) => completions[i].val \in Nat
           /\ zxid \in Nat /\ node[c] \in Nat /\ high[c] \in Nat /\ c \in Node
           /\ Len(completions) \in Nat /\ DOMAIN completions = 1 .. Len(completions)
<1>1. \A i \in DOMAIN completions : completions[i] \in EventMsg \cup AnswerMsg
  BY ElementOfSeq, LenProperties DEF TypeOK
<1>2. \A i \in DOMAIN completions : completions[i].op = "get" => completions[i].val \in Nat
  BY <1>1, CompletionFields
<1> QED
  BY <1>2, LenProperties DEF Value, TypeOK, Node

\* Nothing is told about c, or a deletion that is newer than what was told.
DeletedOnly(c) ==
    \/ view'[c] = view[c]
    \/ /\ view'[c] = Deleted
       /\ Below(high[c], c)
       /\ \A i \in DOMAIN completions : Value(completions[i], c) => high[c] < completions[i].val

\* The first completion is taken, and no value is told about c.
LEMMA ForwardTail ==
    ASSUME TypeOK, NEW c \in Child, Forward(c), completions # <<>>, completions' = Tail(completions),
           UNCHANGED server, DeletedOnly(c), high'[c] = high[c]
    PROVE  Forward(c)'
<1> DEFINE q == completions
           q2 == completions'
<1>1. /\ Len(q) \in Nat /\ DOMAIN q = 1 .. Len(q)
      /\ DOMAIN q2 = 1 .. Len(q) - 1
      /\ \A i \in DOMAIN q2 : i + 1 \in DOMAIN q /\ q2[i] = q[i + 1]
  BY TakeHead DEF TypeOK
<1> HIDE DEF q, q2
<1>2. ASSUME ValuesForward(q, c) PROVE ValuesForward(q2, c)
  BY <1>1, <1>2 DEF ValuesForward
<1>3. ASSUME EndingsForward(q, c) PROVE EndingsForward(q2, c)
  <2> SUFFICES ASSUME NEW i \in DOMAIN q2, Ending(q2[i], c)
               PROVE  /\ Below(high[c], c)
                      /\ \A j \in DOMAIN q2 : j < i /\ Value(q2[j], c) => Below(q2[j].val, c)
                      /\ \A k \in DOMAIN q2 : i < k /\ Value(q2[k], c) =>
                           /\ high[c] < q2[k].val
                           /\ \A j \in DOMAIN q2 : j < i /\ Value(q2[j], c) => q2[j].val < q2[k].val
    BY DEF EndingsForward
  <2>1. i + 1 \in DOMAIN q /\ Ending(q[i + 1], c)
    BY <1>1
  <2>2. Below(high[c], c)
    BY <1>3, <2>1 DEF EndingsForward
  <2>3. ASSUME NEW j \in DOMAIN q2, j < i, Value(q2[j], c)
        PROVE  j + 1 \in DOMAIN q /\ j + 1 < i + 1 /\ Value(q[j + 1], c) /\ Below(q2[j].val, c)
    BY <1>1, <1>3, <2>1, <2>3 DEF EndingsForward
  <2>4. ASSUME NEW k \in DOMAIN q2, i < k, Value(q2[k], c)
        PROVE  /\ high[c] < q2[k].val
               /\ \A j \in DOMAIN q2 : j < i /\ Value(q2[j], c) => q2[j].val < q2[k].val
    <3>1. k + 1 \in DOMAIN q /\ i + 1 < k + 1 /\ Value(q[k + 1], c) /\ q2[k] = q[k + 1]
      BY <1>1, <2>4
    <3>2. /\ high[c] < q[k + 1].val
          /\ \A j \in DOMAIN q : j < i + 1 /\ Value(q[j], c) => q[j].val < q[k + 1].val
      BY <1>3, <2>1, <3>1 DEF EndingsForward
    <3> QED
      BY <1>1, <2>3, <3>1, <3>2
  <2> QED
    BY <2>2, <2>3, <2>4
<1>4. ToldForward(c)'
  BY DEF Forward, ToldForward, DeletedOnly, Upto, Below, server, Unheard, Deleted
<1>5. ValuesForward(q2, c) /\ EndingsForward(q2, c)
  BY <1>2, <1>3 DEF Forward, q
<1>6. ValuesForward(completions, c)'
  <2>1. \A i \in DOMAIN q2 : Value(q2[i], c) /\ view'[c] # high[c] => high[c] < q2[i].val
    BY <1>1, <1>5 DEF ValuesForward, DeletedOnly, q
  <2> QED
    BY <1>5, <2>1 DEF ValuesForward, q2, Upto, server
<1>7. EndingsForward(completions, c)'
  BY <1>5 DEF EndingsForward, q2, Below, server
<1> QED
  BY <1>4, <1>6, <1>7 DEF Forward


\* The first event is delivered to a watcher and others are left, and no value
\* is told about c.
LEMMA ForwardSame ==
    ASSUME TypeOK, NEW c \in Child, Forward(c), DOMAIN completions' = DOMAIN completions,
           \A i \in DOMAIN completions : Value(completions'[i], c) =>
             Value(completions[i], c) /\ completions'[i] = completions[i],
           \A i \in DOMAIN completions : Ending(completions'[i], c) => Ending(completions[i], c),
           UNCHANGED server, DeletedOnly(c), high'[c] = high[c]
    PROVE  Forward(c)'
<1> DEFINE q == completions
           q2 == completions'
<1>1. /\ DOMAIN q2 = DOMAIN q
      /\ \A i \in DOMAIN q : Value(q2[i], c) => Value(q[i], c) /\ q2[i] = q[i]
      /\ \A i \in DOMAIN q : Ending(q2[i], c) => Ending(q[i], c)
  OBVIOUS
<1>2. ToldForward(c)'
  BY DEF Forward, ToldForward, DeletedOnly, Upto, Below, server, Unheard, Deleted
<1>3. ValuesForward(q, c) /\ EndingsForward(q, c)
  BY DEF Forward
<1>4. \A i \in DOMAIN q : Value(q[i], c) /\ view'[c] # high[c] => high[c] < q[i].val
  BY <1>3 DEF ValuesForward, DeletedOnly
<1> HIDE DEF q, q2
<1>5. ValuesForward(q2, c) /\ EndingsForward(q2, c)
  <2>1. ValuesForward(q2, c)
    BY <1>1, <1>3 DEF ValuesForward
  <2>2. EndingsForward(q2, c)
    BY <1>1, <1>3 DEF EndingsForward
  <2> QED
    BY <2>1, <2>2
<1>6. \A i \in DOMAIN q2 : Value(q2[i], c) /\ view'[c] # high[c] => high[c] < q2[i].val
  BY <1>1, <1>4
<1>7. ValuesForward(completions, c)'
  BY <1>5, <1>6 DEF ValuesForward, q2, Upto, server
<1>8. EndingsForward(completions, c)'
  BY <1>5 DEF EndingsForward, q2, Below, server
<1> QED
  BY <1>2, <1>7, <1>8 DEF Forward

\* An event is delivered to one of its watchers.
LEMMA ForwardDeliver ==
    ASSUME TypeOK, NEW c \in Child, Forward(c), NEW d, Delivers(d), high' = high,
           view'[c] = view[c] \/ (view'[c] = Deleted /\ Ending(Head(completions), c))
    PROVE  Forward(c)'
<1> DEFINE q == completions
           e == Head(q)
<1>1. /\ q # <<>> /\ e.op = "event" /\ d \in e.ds
      /\ completions' = IF e.ds = {d} THEN Tail(q) ELSE [q EXCEPT ![1].ds = @ \ {d}]
      /\ UNCHANGED server
  BY DEF Delivers, Completes
<1>2. /\ Len(q) \in Nat /\ DOMAIN q = 1 .. Len(q) /\ 1 \in DOMAIN q /\ e = q[1]
      /\ e \in EventMsg \cup AnswerMsg
  BY <1>1, TakeHead DEF TypeOK
<1>3. e = [op |-> "event", ds |-> e.ds, type |-> e.type]
  BY <1>1, <1>2, CompletionFields
<1>4. DeletedOnly(c)
  <2>1. CASE view'[c] = view[c]
    BY <2>1 DEF DeletedOnly
  <2>2. CASE view'[c] = Deleted /\ Ending(e, c)
    <3>1. /\ Below(high[c], c)
          /\ \A k \in DOMAIN q : 1 < k /\ Value(q[k], c) => high[c] < q[k].val
      BY <1>2, <2>2 DEF Forward, EndingsForward
    <3>2. ~Value(q[1], c)
      BY <1>1, <1>2 DEF Value
    <3>3. \A k \in DOMAIN q : Value(q[k], c) => 1 < k
      BY <1>2, <3>2
    <3> QED
      BY <2>2, <3>1, <3>3 DEF DeletedOnly
  <2> QED
    BY <2>1, <2>2
<1>5. CASE e.ds = {d}
  BY <1>1, <1>4, <1>5, ForwardTail
<1>6. CASE e.ds # {d}
  <2> DEFINE f == [e EXCEPT !.ds = @ \ {d}]
  <2>1. completions' = [q EXCEPT ![1].ds = @ \ {d}]
    BY <1>1, <1>6
  <2>2. /\ DOMAIN completions' = DOMAIN q /\ completions'[1] = f
        /\ \A i \in DOMAIN q : i # 1 => completions'[i] = q[i]
    BY <1>2, <2>1
  <2>3. f.op = "event" /\ f.type = e.type /\ f.ds = e.ds \ {d}
    BY <1>3
  <2> HIDE DEF f, e
  <2>4. ~Value(f, c) /\ (Ending(f, c) => Ending(e, c))
    BY <1>1, <2>3 DEF Value, Ending
  <2> QED
    BY <1>1, <1>2, <1>4, <2>2, <2>4, ForwardSame
<1> QED
  BY <1>5, <1>6


\* A transaction: newer than all that was told or is to be told.
LEMMA ForwardOthers ==
    ASSUME TypeOK, NEW c \in Child, Forward(c), NEW t \in Node, NEW type \in {"created", "changed", "deleted"},
           NEW relist \in BOOLEAN, Trigger(t, type, relist), zxid' = zxid + 1,
           t # c => node'[c] = node[c],
           t = c /\ type # "deleted" => node'[c] = zxid + 1,
           t = c /\ type = "deleted" => node'[c] = Absent,
           UNCHANGED told
    PROVE  Forward(c)'
<1> DEFINE ends == t = Parent /\ type = "deleted"
           fired == IF t \in srvData \/ (ends /\ srvChild) THEN Collected(t, type) ELSE {}
           kids == IF relist /\ srvChild THEN Collected(Parent, "child") ELSE {}
           e1 == Event(fired, type)
           e2 == Event(kids, "child")
           r == e1 \o e2
           q == completions
           q2 == completions'
<1>1. q2 = q \o r
  BY DEF Trigger, queue_completion
<1>2. /\ fired \in SUBSET UserData /\ kids \in SUBSET UserData /\ kids \in SUBSET ListData
      /\ \A d \in fired : d[1] = t
  BY CollectedType
<1> HIDE DEF fired, kids
<1>3. e1 \in Seq(EventMsg \cup AnswerMsg) /\ e2 \in Seq(EventMsg \cup AnswerMsg)
  BY <1>2, EventType
<1>4. /\ \A i \in DOMAIN e1 : e1[i].op = "event" /\ e1[i].ds = fired /\ e1[i].type = type
      /\ \A i \in DOMAIN e2 : e2[i].op = "event" /\ e2[i].type = "child"
  BY DEF Event
<1> HIDE DEF e1, e2
<1>5. r \in Seq(EventMsg \cup AnswerMsg) /\ Joined(e1, e2, r)
  BY <1>3, PutAll
<1>6. \A i \in DOMAIN r : /\ ~Value(r[i], c)
                          /\ Ending(r[i], c) => t = c /\ type = "deleted"
  <2> SUFFICES ASSUME NEW i \in DOMAIN r
               PROVE  ~Value(r[i], c) /\ (Ending(r[i], c) => t = c /\ type = "deleted")
    OBVIOUS
  <2>1. CASE i \in DOMAIN e1
    BY <1>2, <1>4, <1>5, <2>1 DEF Joined, Value, Ending
  <2>2. CASE i - Len(e1) \in DOMAIN e2 /\ r[i] = e2[i - Len(e1)]
    BY <1>4, <2>2 DEF Value, Ending
  <2> QED
    BY <1>5, <2>1, <2>2 DEF Joined
<1> HIDE DEF r
<1>7. Joined(q, r, q2)
  BY <1>1, <1>5, PutAll DEF TypeOK
<1>8. /\ zxid \in Nat /\ node[c] \in Nat /\ high[c] \in Nat
      /\ \A i \in DOMAIN q : Value(q[i], c) => q[i].val \in Nat
      /\ Len(q) \in Nat /\ DOMAIN q = 1 .. Len(q)
  BY ValueType
<1>9. /\ \A i \in DOMAIN q2 : i \in Nat /\ (Value(q2[i], c) => i \in DOMAIN q /\ q2[i] = q[i])
      /\ \A i \in DOMAIN q2 : Ending(q2[i], c) =>
           \/ i \in DOMAIN q /\ q2[i] = q[i]
           \/ i > Len(q) /\ t = c /\ type = "deleted"
  BY <1>6, <1>7, <1>8 DEF Joined
<1> HIDE DEF q, q2
<1>10. \A n \in Nat : n <= zxid => n <= zxid' /\ n < zxid'
  BY <1>8
<1>11. /\ \A n \in Nat : Upto(n, c) => n <= zxid' /\ (node'[c] # Absent => n <= node'[c])
       /\ \A n \in Nat : Below(n, c) => n < zxid' /\ (node'[c] # Absent => n < node'[c])
       /\ t = c /\ type = "deleted" =>
            \A n \in Nat : Upto(n, c) => n < zxid' /\ (node'[c] # Absent => n < node'[c])
       /\ node'[c] <= zxid'
  BY <1>8 DEF Upto, Below, Forward, ToldForward, Absent
<1>12. ToldForward(c)'
  BY <1>8, <1>11 DEF Forward, ToldForward, Upto, Below, told
<1>13. ValuesForward(completions, c)'
  <2>1. ValuesForward(q, c)
    BY DEF Forward, q
  <2>2. \A i \in DOMAIN q2 : Value(q2[i], c) =>
          /\ q2[i].val <= zxid' /\ (node'[c] # Absent => q2[i].val <= node'[c])
          /\ q2[i].val > 0 /\ high[c] <= q2[i].val
          /\ view[c] # high[c] => high[c] < q2[i].val
          /\ \A j \in DOMAIN q2 : i < j /\ Value(q2[j], c) => q2[i].val <= q2[j].val
    BY <1>8, <1>9, <1>11, <2>1 DEF ValuesForward
  <2> QED
    BY <2>2 DEF ValuesForward, Upto, told, q2
<1>14. EndingsForward(completions, c)'
  <2>1. ValuesForward(q, c) /\ EndingsForward(q, c) /\ Upto(high[c], c)
    BY DEF Forward, ToldForward, q
  <2>2. ASSUME NEW i \in DOMAIN q2, Ending(q2[i], c)
        PROVE  /\ high[c] < zxid' /\ (node'[c] # Absent => high[c] < node'[c])
               /\ \A j \in DOMAIN q2 : j < i /\ Value(q2[j], c) =>
                    q2[j].val < zxid' /\ (node'[c] # Absent => q2[j].val < node'[c])
               /\ \A k \in DOMAIN q2 : i < k /\ Value(q2[k], c) =>
                    /\ high[c] < q2[k].val
                    /\ \A j \in DOMAIN q2 : j < i /\ Value(q2[j], c) => q2[j].val < q2[k].val
    <3>1. CASE i \in DOMAIN q /\ q2[i] = q[i]
      <4>1. Ending(q[i], c)
        BY <2>2, <3>1
      <4>2. /\ Below(high[c], c)
            /\ \A j \in DOMAIN q : j < i /\ Value(q[j], c) => Below(q[j].val, c)
            /\ \A k \in DOMAIN q : i < k /\ Value(q[k], c) =>
                 /\ high[c] < q[k].val
                 /\ \A j \in DOMAIN q : j < i /\ Value(q[j], c) => q[j].val < q[k].val
        BY <2>1, <3>1, <4>1 DEF EndingsForward
      <4> QED
        BY <1>8, <1>9, <1>11, <4>2
    <3>2. CASE i > Len(q) /\ t = c /\ type = "deleted"
      <4>1. \A k \in DOMAIN q2 : ~(i < k /\ Value(q2[k], c))
        BY <1>8, <1>9, <3>2
      <4> QED
        BY <1>8, <1>9, <1>11, <2>1, <3>2, <4>1 DEF ValuesForward
    <3> QED
      BY <1>9, <2>2, <3>1, <3>2
  <2> QED
    BY <2>2 DEF EndingsForward, Below, told, q2
<1> QED
  BY <1>12, <1>13, <1>14 DEF Forward

\* The server answers: a value is the one that c holds.
LEMMA ForwardAnswer ==
    ASSUME TypeOK, NEW c \in Child, Forward(c), NEW op, NEW answer \in AnswerMsg, Answers(op, answer),
           Value(answer, c) => answer.val = node[c] /\ node[c] # Absent
    PROVE  Forward(c)'
<1> DEFINE q == completions
           q2 == completions'
           n == Len(q) + 1
<1>1. q2 = q \o <<answer>> /\ UNCHANGED <<zxid, node, told>>
  BY DEF Answers, queue_completion
<1>2. /\ <<answer>> \in Seq(EventMsg \cup AnswerMsg)
      /\ DOMAIN <<answer>> = {1} /\ <<answer>>[1] = answer /\ Len(<<answer>>) = 1
  BY OneMessage
<1>3. Joined(q, <<answer>>, q2)
  BY <1>1, <1>2, PutAll DEF TypeOK
<1>4. /\ zxid \in Nat /\ node[c] \in Nat /\ high[c] \in Nat
      /\ \A i \in DOMAIN q : Value(q[i], c) => q[i].val \in Nat
      /\ Len(q) \in Nat /\ DOMAIN q = 1 .. Len(q)
  BY ValueType
<1>5. ~Ending(answer, c)
  BY DEF Ending, AnswerMsg
<1> HIDE DEF q, q2
<1>6. /\ DOMAIN q2 = DOMAIN q \cup {n} /\ q2[n] = answer
      /\ \A i \in DOMAIN q : i \in Nat /\ i < n /\ q2[i] = q[i]
  BY <1>2, <1>3, <1>4 DEF Joined
<1>7. ToldForward(c)'
  BY <1>1 DEF Forward, ToldForward, Upto, Below, told
<1>8. ToldForward(c) /\ ValuesForward(q, c) /\ EndingsForward(q, c)
  BY DEF Forward, q
<1>9. ASSUME Value(answer, c)
      PROVE  /\ Upto(node[c], c) /\ node[c] > 0 /\ high[c] <= node[c]
             /\ view[c] # high[c] => high[c] < node[c]
             /\ \A m \in Nat : Upto(m, c) => m <= node[c]
             /\ \A m \in Nat : Below(m, c) => m < node[c]
  BY <1>4, <1>8, <1>9 DEF ToldForward, Upto, Below, Absent
<1> HIDE DEF n
<1>10. ValuesForward(q2, c)
  <2> SUFFICES ASSUME NEW i \in DOMAIN q2, Value(q2[i], c)
               PROVE  /\ Upto(q2[i].val, c) /\ q2[i].val > 0 /\ high[c] <= q2[i].val
                      /\ view[c] # high[c] => high[c] < q2[i].val
                      /\ \A j \in DOMAIN q2 : i < j /\ Value(q2[j], c) => q2[i].val <= q2[j].val
    BY DEF ValuesForward
  <2>1. CASE i \in DOMAIN q
    BY <1>4, <1>6, <1>8, <1>9, <2>1 DEF ValuesForward
  <2>2. CASE i = n
    <3>1. \A j \in DOMAIN q2 : ~(i < j)
      BY <1>4, <1>6, <2>2 DEF n
    <3> QED
      BY <1>6, <1>9, <2>2, <3>1
  <2> QED
    BY <1>6, <2>1, <2>2
<1>11. EndingsForward(q2, c)
  <2> SUFFICES ASSUME NEW i \in DOMAIN q2, Ending(q2[i], c)
               PROVE  /\ Below(high[c], c)
                      /\ \A j \in DOMAIN q2 : j < i /\ Value(q2[j], c) => Below(q2[j].val, c)
                      /\ \A k \in DOMAIN q2 : i < k /\ Value(q2[k], c) =>
                           /\ high[c] < q2[k].val
                           /\ \A j \in DOMAIN q2 : j < i /\ Value(q2[j], c) => q2[j].val < q2[k].val
    BY DEF EndingsForward
  <2>1. i \in DOMAIN q /\ Ending(q[i], c)
    BY <1>5, <1>6
  <2>2. /\ Below(high[c], c)
        /\ \A j \in DOMAIN q : j < i /\ Value(q[j], c) => Below(q[j].val, c)
        /\ \A k \in DOMAIN q : i < k /\ Value(q[k], c) =>
             /\ high[c] < q[k].val
             /\ \A j \in DOMAIN q : j < i /\ Value(q[j], c) => q[j].val < q[k].val
    BY <1>8, <2>1 DEF EndingsForward
  <2>3. \A j \in DOMAIN q2 : j < i => j \in DOMAIN q /\ q2[j] = q[j]
    BY <1>4, <1>6, <2>1 DEF n
  <2>4. ASSUME NEW k \in DOMAIN q2, i < k, Value(q2[k], c)
        PROVE  /\ high[c] < q2[k].val
               /\ \A j \in DOMAIN q2 : j < i /\ Value(q2[j], c) => q2[j].val < q2[k].val
    <3>1. CASE k \in DOMAIN q
      BY <1>6, <2>2, <2>3, <2>4, <3>1
    <3>2. CASE k = n
      BY <1>4, <1>6, <1>9, <2>2, <2>3, <2>4, <3>2
    <3> QED
      BY <1>6, <3>1, <3>2
  <2> QED
    BY <2>2, <2>3, <2>4
<1>12. ValuesForward(completions, c)' /\ EndingsForward(completions, c)'
  <2>1. ValuesForward(completions, c)'
    BY <1>1, <1>10 DEF ValuesForward, q2, Upto, told
  <2>2. EndingsForward(completions, c)'
    BY <1>1, <1>11 DEF EndingsForward, q2, Below, told
  <2> QED
    BY <2>1, <2>2
<1> QED
  BY <1>7, <1>12 DEF Forward


\* What a get reports.
LEMMA GetReports ==
    ASSUME TypeOK, RunGet
    PROVE  LET m == Head(completions)
               child == m.d[1]
           IN  /\ completions # <<>> /\ completions' = Tail(completions) /\ m = completions[1]
               /\ 1 \in DOMAIN completions
               /\ child \in Child /\ m.val \in Nat /\ high[child] \in Nat
               /\ UNCHANGED server
               /\ m.op = "get"
               /\ ~m.rc => UNCHANGED told
               /\ m.rc => /\ Value(m, child)
                          /\ view' = [view EXCEPT ![child] = m.val]
                          /\ high' = [high EXCEPT ![child] = IF m.val > high[child] THEN m.val ELSE high[child]]
<1> DEFINE m == Head(completions)
           child == m.d[1]
<1>1. /\ completions # <<>> /\ completions' = Tail(completions) /\ m.op = "get"
      /\ UNCHANGED server
      /\ ~m.rc => UNCHANGED told
      /\ m.rc => /\ view' = [view EXCEPT ![child] = m.val]
                 /\ high' = [high EXCEPT ![child] = IF m.val > high[child] THEN m.val ELSE high[child]]
  BY DEF RunGet, Completes
<1>2. m \in EventMsg \cup AnswerMsg /\ m = completions[1] /\ 1 \in DOMAIN completions
  BY <1>1, TakeHead DEF TypeOK
<1>3. child \in Child /\ m.val \in Nat
  BY <1>1, <1>2, CompletionFields DEF GetData
<1>4. high[child] \in Nat
  BY <1>3 DEF TypeOK
<1> QED
  BY <1>1, <1>2, <1>3, <1>4 DEF Value

\* A value that is told is no older than what has been told, and no newer than
\* what is to be told.
LEMMA ForwardGet ==
    ASSUME TypeOK, NEW c \in Child, Forward(c), RunGet
    PROVE  Forward(c)'
<1> DEFINE m == Head(completions)
           child == m.d[1]
           q == completions
           q2 == completions'
<1>1. /\ q # <<>> /\ q2 = Tail(q) /\ m = q[1] /\ 1 \in DOMAIN q
      /\ child \in Child /\ m.val \in Nat /\ high[child] \in Nat
      /\ UNCHANGED server
      /\ ~m.rc => UNCHANGED told
      /\ m.rc => /\ Value(m, child)
                 /\ view' = [view EXCEPT ![child] = m.val]
                 /\ high' = [high EXCEPT ![child] = IF m.val > high[child] THEN m.val ELSE high[child]]
  BY GetReports
<1>2. CASE ~m.rc \/ child # c
  <2>1. view'[c] = view[c] /\ high'[c] = high[c]
    <3>1. CASE ~m.rc
      BY <1>1, <3>1 DEF told
    <3>2. CASE m.rc /\ child # c
      BY <1>1, <3>2 DEF TypeOK
    <3> QED
      BY <1>2, <3>1, <3>2
  <2>2. DeletedOnly(c)
    BY <2>1 DEF DeletedOnly
  <2> QED
    BY <1>1, <2>1, <2>2, ForwardTail
<1>3. CASE m.rc /\ child = c
  <2> DEFINE v == m.val
  <2>1. /\ zxid \in Nat /\ node[c] \in Nat /\ high[c] \in Nat
        /\ \A i \in DOMAIN q : Value(q[i], c) => q[i].val \in Nat
        /\ Len(q) \in Nat /\ DOMAIN q = 1 .. Len(q)
    BY ValueType
  <2>2. /\ DOMAIN q2 = 1 .. Len(q) - 1
        /\ \A i \in DOMAIN q2 : i + 1 \in DOMAIN q /\ q2[i] = q[i + 1]
    BY <1>1, TakeHead DEF TypeOK
  <2>3. ToldForward(c) /\ ValuesForward(q, c) /\ EndingsForward(q, c)
    BY DEF Forward
  <2>4. Value(q[1], c) /\ q[1].val = v /\ v \in Nat
    BY <1>1, <1>3
  <2>5. /\ Upto(v, c) /\ v > 0 /\ high[c] <= v
        /\ \A j \in DOMAIN q : 1 < j /\ Value(q[j], c) => v <= q[j].val
    BY <1>1, <2>3, <2>4 DEF ValuesForward
  <2>6. view'[c] = v /\ high'[c] = v
    <3>1. view'[c] = v /\ high'[c] = IF v > high[c] THEN v ELSE high[c]
      BY <1>1, <1>3 DEF TypeOK
    <3> QED
      BY <2>1, <2>4, <2>5, <3>1
  <2> HIDE DEF q, q2, v, m, child
  <2>7. ToldForward(c)'
    BY <1>1, <2>1, <2>3, <2>4, <2>5, <2>6 DEF ToldForward, Upto, server, Unheard, Deleted
  <2>8. \A i \in DOMAIN q2 : i \in Nat /\ i + 1 \in DOMAIN q /\ 1 < i + 1 /\ q2[i] = q[i + 1]
    BY <2>1, <2>2
  <2>9. ValuesForward(completions, c)'
    <3>1. ASSUME NEW i \in DOMAIN q2, Value(q2[i], c)
          PROVE  /\ Upto(q2[i].val, c) /\ q2[i].val > 0 /\ v <= q2[i].val
                 /\ \A j \in DOMAIN q2 : i < j /\ Value(q2[j], c) => q2[i].val <= q2[j].val
      BY <2>3, <2>5, <2>8, <3>1 DEF ValuesForward
    <3> QED
      BY <1>1, <2>6, <3>1 DEF ValuesForward, q2, Upto, server
  <2>10. EndingsForward(completions, c)'
    <3>1. ASSUME NEW i \in DOMAIN q2, Ending(q2[i], c)
          PROVE  /\ Below(v, c)
                 /\ \A j \in DOMAIN q2 : j < i /\ Value(q2[j], c) => Below(q2[j].val, c)
                 /\ \A k \in DOMAIN q2 : i < k /\ Value(q2[k], c) =>
                      /\ v < q2[k].val
                      /\ \A j \in DOMAIN q2 : j < i /\ Value(q2[j], c) => q2[j].val < q2[k].val
      <4>1. i + 1 \in DOMAIN q /\ Ending(q[i + 1], c) /\ 1 < i + 1
        BY <2>8, <3>1
      <4>2. /\ \A j \in DOMAIN q : j < i + 1 /\ Value(q[j], c) => Below(q[j].val, c)
            /\ \A k \in DOMAIN q : i + 1 < k /\ Value(q[k], c) =>
                 \A j \in DOMAIN q : j < i + 1 /\ Value(q[j], c) => q[j].val < q[k].val
        BY <2>3, <4>1 DEF EndingsForward
      <4>3. \A j \in DOMAIN q2 : j < i => j + 1 \in DOMAIN q /\ j + 1 < i + 1 /\ q2[j] = q[j + 1]
        BY <2>8
      <4>4. \A k \in DOMAIN q2 : i < k => k + 1 \in DOMAIN q /\ i + 1 < k + 1 /\ q2[k] = q[k + 1]
        BY <2>8
      <4>5. Below(v, c)
        BY <1>1, <2>4, <4>1, <4>2 DEF q
      <4>6. \A j \in DOMAIN q2 : j < i /\ Value(q2[j], c) => Below(q2[j].val, c)
        BY <4>2, <4>3
      <4>7. ASSUME NEW k \in DOMAIN q2, i < k, Value(q2[k], c)
            PROVE  /\ v < q2[k].val
                   /\ \A j \in DOMAIN q2 : j < i /\ Value(q2[j], c) => q2[j].val < q2[k].val
        <5>1. \A j \in DOMAIN q : j < i + 1 /\ Value(q[j], c) => q[j].val < q2[k].val
          BY <4>2, <4>4, <4>7
        <5> QED
          BY <1>1, <2>4, <4>1, <4>3, <5>1 DEF q
      <4> QED
        BY <4>5, <4>6, <4>7
    <3> QED
      BY <1>1, <2>6, <3>1 DEF EndingsForward, q2, Below, server
  <2> QED
    BY <2>7, <2>9, <2>10 DEF Forward
<1> QED
  BY <1>2, <1>3


\* Every step keeps what is told and what is to be told of a child in order.
LEMMA ForwardStep ==
    ASSUME TypeOK, NEW c \in Child, Forward(c), [Next]_vars
    PROVE  Forward(c)'
<1>0. c \in Node /\ c # Parent /\ Child \subseteq Node
  BY DEF Node
<1>1. CASE OtherClients
  <2> PICK t \in Node : SrvWrite(t) \/ SrvDelete(t)
    BY <1>1 DEF OtherClients
  <2>1. CASE SrvWrite(t)
    <3> DEFINE created == node[t] = Absent
               type == IF created THEN "created" ELSE "changed"
               relist == created /\ t # Parent
    <3>1. /\ zxid' = zxid + 1 /\ node' = [node EXCEPT ![t] = zxid + 1]
          /\ Trigger(t, type, relist) /\ UNCHANGED told
      BY <2>1 DEF SrvWrite
    <3>2. type \in {"created", "changed", "deleted"} /\ relist \in BOOLEAN /\ type # "deleted"
      OBVIOUS
    <3>3. (t # c => node'[c] = node[c]) /\ (t = c => node'[c] = zxid + 1)
      BY <1>0, <3>1 DEF TypeOK
    <3> HIDE DEF type, relist
    <3> QED
      BY <3>1, <3>2, <3>3, ForwardOthers
  <2>2. CASE SrvDelete(t)
    <3>1. /\ zxid' = zxid + 1 /\ node' = [node EXCEPT ![t] = Absent]
          /\ Trigger(t, "deleted", t # Parent) /\ UNCHANGED told
      BY <2>2 DEF SrvDelete
    <3>2. (t # c => node'[c] = node[c]) /\ (t = c => node'[c] = Absent)
      BY <1>0, <3>1 DEF TypeOK
    <3>3. (t # Parent) \in BOOLEAN
      OBVIOUS
    <3> QED
      BY <3>1, <3>2, <3>3, ForwardOthers
  <2> QED
    BY <2>1, <2>2
<1>2. CASE ServerStep
  <2>0. Present \in SUBSET Child
    BY DEF Present
  <2>1. CASE SrvExists
    <3> DEFINE m == [op |-> "exists", rc |-> node[Parent] # Absent]
    <3>1. m \in AnswerMsg /\ Answers("exists", m) /\ ~Value(m, c)
      BY <2>1 DEF SrvExists, AnswerMsg, Value
    <3> HIDE DEF m
    <3> QED
      BY <3>1, ForwardAnswer
  <2>2. CASE SrvList
    <3> DEFINE d == Head(requests).d
               m == [op |-> "list", d |-> d, rc |-> node[Parent] # Absent, kids |-> Present]
    <3>1. Answers("list", m) /\ ~Value(m, c)
      BY <2>2 DEF SrvList, Value
    <3>2. d \in ListData
      BY <3>1, First, RequestFields DEF Answers
    <3>3. m \in AnswerMsg
      BY <2>0, <3>2 DEF AnswerMsg
    <3> HIDE DEF m
    <3> QED
      BY <3>1, <3>3, ForwardAnswer
  <2>3. CASE SrvGet
    <3> DEFINE d == Head(requests).d
               m == [op |-> "get", d |-> d, rc |-> node[d[1]] # Absent, val |-> node[d[1]]]
    <3>1. Answers("get", m)
      BY <2>3 DEF SrvGet
    <3>2. d \in GetData
      BY <3>1, First, RequestFields DEF Answers
    <3>3. d[1] \in Node /\ node[d[1]] \in Nat
      BY <1>0, <3>2 DEF GetData, TypeOK
    <3>4. m \in AnswerMsg
      BY <3>2, <3>3 DEF AnswerMsg
    <3>5. Value(m, c) => m.val = node[c] /\ node[c] # Absent
      BY DEF Value
    <3> HIDE DEF m
    <3> QED
      BY <3>1, <3>4, <3>5, ForwardAnswer
  <2>4. CASE SrvPlainList
    <3> DEFINE m == [op |-> "plain_list", rc |-> node[Parent] # Absent, kids |-> Present]
    <3>1. m \in AnswerMsg /\ Answers("plain_list", m) /\ ~Value(m, c)
      BY <2>0, <2>4 DEF SrvPlainList, AnswerMsg, Value
    <3> HIDE DEF m
    <3> QED
      BY <3>1, ForwardAnswer
  <2>5. CASE SrvRemoveWatches
    <3> DEFINE m == [op |-> "remove"]
    <3>1. m \in AnswerMsg /\ Answers("remove", m) /\ ~Value(m, c)
      BY <2>5 DEF SrvRemoveWatches, AnswerMsg, Value
    <3> HIDE DEF m
    <3> QED
      BY <3>1, ForwardAnswer
  <2> QED
    BY <1>2, <2>1, <2>2, <2>3, <2>4, <2>5 DEF ServerStep
<1>3. CASE CompletionStep
  <2>1. CASE RunExistsWatcher
    <3>1. Delivers(ExistsData) /\ UNCHANGED told
      BY <2>1 DEF RunExistsWatcher
    <3> QED
      BY <3>1, ForwardDeliver DEF told
  <2>2. ASSUME NEW d, RunListWatcher(d) PROVE Forward(c)'
    <3>1. Delivers(d) /\ UNCHANGED told
      BY <2>2 DEF RunListWatcher
    <3> QED
      BY <3>1, ForwardDeliver DEF told
  <2>3. ASSUME NEW d, RunGetWatcher(d) PROVE Forward(c)'
    <3>1. Delivers(d) /\ high' = high
          /\ (UNCHANGED view \/ (Head(completions).type = "deleted" /\ view' = [view EXCEPT ![d[1]] = Deleted]))
      BY <2>3 DEF RunGetWatcher
    <3>2. d \in Head(completions).ds /\ Head(completions).op = "event"
      BY <3>1, Delivered
    <3>3. view'[c] = view[c] \/ (view'[c] = Deleted /\ Ending(Head(completions), c))
      BY <3>1, <3>2 DEF TypeOK, Ending
    <3> QED
      BY <3>1, <3>3, ForwardDeliver
  <2>4. CASE RunGet
    BY <2>4, ForwardGet
  <2>5. CASE RunExists \/ RunList \/ RunPlainList \/ RunRemove
    <3>1. completions # <<>> /\ completions' = Tail(completions) /\ UNCHANGED <<server, told>>
      BY <2>5 DEF RunExists, RunList, RunPlainList, RunRemove, Completes
    <3>2. view'[c] = view[c] /\ high'[c] = high[c]
      BY <3>1 DEF told
    <3>3. DeletedOnly(c)
      BY <3>2 DEF DeletedOnly
    <3> QED
      BY <3>1, <3>2, <3>3, ForwardTail
  <2> QED
    BY <1>3, <2>1, <2>2, <2>3, <2>4, <2>5 DEF CompletionStep
<1>4. CASE WatchSubPath \/ RemoveWatches \/ UNCHANGED vars
  <2>1. UNCHANGED <<server, completions, told>>
    BY <1>4 DEF WatchSubPath, RemoveWatches, vars
  <2> QED
    BY <2>1 DEF server, told, Forward, ToldForward, ValuesForward, EndingsForward, Upto, Below
<1>5. CASE Expire
  <2>1. completions' = <<>> /\ UNCHANGED <<zxid, node, told>>
    BY <1>5 DEF Expire
  <2> QED
    BY <2>1 DEF told, Forward, ToldForward, ValuesForward, EndingsForward, Upto, Below
<1> QED
  BY <1>1, <1>2, <1>3, <1>4, <1>5 DEF Next

\* What is told goes forward in every reachable state.
LEMMA ForwardHolds == Spec => []ForwardInv
<1>1. Init => ForwardInv
  <2> SUFFICES ASSUME Init PROVE \A c \in Child : Forward(c)
    BY ListerInit DEF ForwardInv
  <2>1. \A c \in Child : node[c] = 0 /\ view[c] = -1 /\ high[c] = 0
    BY DEF Init, Node, Absent, Unheard
  <2> QED
    BY <2>1 DEF Init, Forward, ToldForward, ValuesForward, EndingsForward, Upto, Unheard, Deleted, Absent
<1>2. ForwardInv /\ [Next]_vars => ForwardInv'
  BY ListerStep, ForwardStep DEF ForwardInv, ListerInv, TypeInv
<1> QED
  BY <1>1, <1>2, PTL DEF Spec

\* Every step of ZkSubWatch is a step of WatchView for the children, or none.
LEMMA ViewStep == ForwardInv /\ [Next]_vars => [View!Next]_(View!vars)
<1> SUFFICES ASSUME ForwardInv, [Next]_vars PROVE [View!Next]_(View!vars)
  OBVIOUS
<1>0. TypeOK /\ zxid \in Nat /\ \A c \in Child : Forward(c)
  BY DEF ForwardInv, ListerInv, TypeInv, TypeOK
<1>1. CASE OtherClients
  <2>1. zxid' = zxid + 1 /\ UNCHANGED told
    BY <1>1 DEF OtherClients, SrvWrite, SrvDelete
  <2> QED
    BY <2>1 DEF told, View!Next, View!Advance
<1>2. ASSUME UNCHANGED <<zxid, view, high>> PROVE [View!Next]_(View!vars)
  BY <1>2 DEF View!vars
<1>3. CASE ServerStep \/ WatchSubPath \/ RemoveWatches \/ Expire \/ UNCHANGED vars
  BY <1>2, <1>3 DEF ServerStep, SrvExists, SrvList, SrvGet, SrvPlainList, SrvRemoveWatches, Answers,
    WatchSubPath, RemoveWatches, Expire, vars, server, told
<1>4. CASE RunExistsWatcher \/ RunExists \/ RunList \/ RunPlainList \/ RunRemove
  BY <1>2, <1>4 DEF RunExistsWatcher, Delivers, RunExists, RunList, RunPlainList, RunRemove, server, told
<1>5. ASSUME NEW d, RunListWatcher(d) PROVE [View!Next]_(View!vars)
  BY <1>2, <1>5 DEF RunListWatcher, Delivers, server, told
<1>6. ASSUME NEW d, RunGetWatcher(d) PROVE [View!Next]_(View!vars)
  <2> DEFINE e == Head(completions)
  <2>1. IsGet(d) /\ Delivers(d) /\ high' = high /\ zxid' = zxid
    BY <1>6 DEF RunGetWatcher, Delivers, server
  <2>2. CASE e.type # "deleted"
    BY <1>2, <1>6, <2>1, <2>2 DEF RunGetWatcher
  <2>3. CASE e.type = "deleted"
    <3>1. view' = [view EXCEPT ![d[1]] = Deleted]
      BY <1>6, <2>3 DEF RunGetWatcher
    <3>2. completions # <<>> /\ e.op = "event" /\ d \in e.ds /\ d \in UserData
      BY <1>0, <2>1, Delivered
    <3>3. d[1] \in Child
      BY <2>1, <3>2 DEF UserData, ListData, GetData, ExistsData, IsGet
    <3>4. e = completions[1] /\ 1 \in DOMAIN completions
      BY <1>0, <3>2, TakeHead DEF TypeOK
    <3>5. Ending(completions[1], d[1])
      BY <2>3, <3>2, <3>4 DEF Ending
    <3>6. Below(high[d[1]], d[1])
      BY <1>0, <3>3, <3>4, <3>5 DEF Forward, EndingsForward
    <3>7. zxid > high[d[1]]
      BY <1>0, <3>3, <3>6 DEF Below, TypeOK
    <3>8. View!TellDeleted(d[1])
      BY <2>1, <3>1, <3>7 DEF View!TellDeleted, View!Deleted, Deleted
    <3> QED
      BY <3>3, <3>8 DEF View!Next
  <2> QED
    BY <2>2, <2>3
<1>7. CASE RunGet
  <2> DEFINE m == Head(completions)
             child == m.d[1]
             v == m.val
  <2>1. /\ m = completions[1] /\ 1 \in DOMAIN completions
        /\ child \in Child /\ v \in Nat /\ high[child] \in Nat
        /\ zxid' = zxid
        /\ ~m.rc => UNCHANGED told
        /\ m.rc => /\ Value(m, child)
                   /\ view' = [view EXCEPT ![child] = v]
                   /\ high' = [high EXCEPT ![child] = IF v > high[child] THEN v ELSE high[child]]
    BY <1>0, <1>7, GetReports DEF server
  <2>2. CASE ~m.rc
    BY <1>2, <2>1, <2>2 DEF told
  <2>3. CASE m.rc
    <3>1. /\ Upto(v, child) /\ high[child] <= v
          /\ view[child] # high[child] => high[child] < v
      BY <1>0, <2>1, <2>3 DEF Forward, ValuesForward
    <3> HIDE DEF child, v, m
    <3>2. CASE v = high[child]
      <4>1. view[child] = v
        BY <2>1, <3>1, <3>2
      <4>2. view' = [view EXCEPT ![child] = view[child]] /\ high' = [high EXCEPT ![child] = high[child]]
        BY <2>1, <2>3, <3>2, <4>1
      <4>3. view' = view /\ high' = high
        <5>1. view \in [Child -> Int] /\ high \in [Child -> Nat]
          BY <1>0 DEF TypeOK
        <5> QED
          BY <4>2, <5>1
      <4> QED
        BY <1>2, <2>1, <4>3
    <3>3. CASE v # high[child]
      <4>1. v \in (high[child] + 1) .. zxid
        BY <1>0, <2>1, <3>1, <3>3 DEF Upto
      <4>2. v > high[child]
        BY <2>1, <3>1, <3>3
      <4>3. view' = [view EXCEPT ![child] = v] /\ high' = [high EXCEPT ![child] = v]
        BY <2>1, <2>3, <4>2
      <4>4. View!TellChanged(child)
        BY <2>1, <4>1, <4>3 DEF View!TellChanged
      <4> QED
        BY <2>1, <4>4 DEF View!Next
    <3> QED
      BY <3>2, <3>3
  <2> QED
    BY <2>2, <2>3
<1> QED
  BY <1>1, <1>3, <1>4, <1>5, <1>6, <1>7 DEF Next, CompletionStep

\* watch_sub_path implements WatchView for each child, for any number of them
\* and with nothing excluded: get chains that follow or overlap each other,
\* deletions, re-creations, a removal and expired sessions never make a
\* callback report backwards (config_monitor.hpp:289-301).
THEOREM ViewRefined == Spec => ReportsForward
<1>1. Init => View!Init
  BY DEF Init, View!Init, View!Unheard, Unheard
<1>2. ForwardInv /\ [Next]_vars => [View!Next]_(View!vars)
  BY ViewStep
<1> QED
  BY <1>1, <1>2, ForwardHolds, PTL DEF Spec, ReportsForward, View!Spec


-----------------------------------------------------------------------------
(***************************************************************************)
(* A child that was created once is monitored by one get chain.            *)
(***************************************************************************)
\* Where listings with child c, and without it, are in queue q.
HasAt(q, c)   == {i \in DOMAIN q : q[i].op = "list" /\ c \in q[i].kids}
LacksAt(q, c) == {i \in DOMAIN q : q[i].op = "list" /\ c \notin q[i].kids}

\* As long as c was created once at most: its chain is started by the listing
\* that puts it into last_sub_path_.  A listing without c that follows the
\* start, or a listing with c, is one after its deletion: no other has it again.
GetOnce(c) ==
    births[c] <= 1 /\ removal # "done" =>
        /\ chains[c] <= 1
        /\ births[c] = 0 => node[c] = Absent
        /\ chains[c] = 1 \/ HasAt(completions, c) # {} => births[c] = 1
        /\ c \in last_sub_path => chains[c] = 1
        /\ chains[c] = 1 /\ c \notin last_sub_path => node[c] = Absent /\ HasAt(completions, c) = {}
        /\ \A i \in LacksAt(completions, c) :
             chains[c] = 1 \/ (\E h \in HasAt(completions, c) : h < i) =>
                 node[c] = Absent /\ \A k \in HasAt(completions, c) : k < i

\* The first get chain of a child that was created once ends with the child.
Monitored(c) ==
    removal = "none" /\ births[c] = 1 /\ node[c] # Absent /\ chains[c] = 1 => Lives(<<c, 1>>)

OnceInv == ListerInv /\ \A c \in Child : GetOnce(c) /\ Monitored(c)

\* Queue q2 has no listings that q has not, in the same order.
Shrinks(q, q2, c) ==
    \E n \in {0, 1} :
        /\ \A i \in HasAt(q2, c) : i \in Nat /\ i + n \in HasAt(q, c)
        /\ \A i \in LacksAt(q2, c) : i \in Nat /\ i + n \in LacksAt(q, c)

LEMMA ShrinkTail ==
    ASSUME NEW S, NEW q \in Seq(S), q # <<>>, NEW c
    PROVE  Shrinks(q, Tail(q), c)
<1>1. \A i \in DOMAIN Tail(q) : i \in Nat /\ i + 1 \in DOMAIN q /\ Tail(q)[i] = q[i + 1]
  BY TakeHead
<1>2. /\ \A i \in HasAt(Tail(q), c) : i \in Nat /\ i + 1 \in HasAt(q, c)
      /\ \A i \in LacksAt(Tail(q), c) : i \in Nat /\ i + 1 \in LacksAt(q, c)
  BY <1>1 DEF HasAt, LacksAt
<1> QED
  BY <1>2 DEF Shrinks

LEMMA ShrinkPut ==
    ASSUME NEW q, NEW r, NEW q2, Joined(q, r, q2), \A i \in DOMAIN r : r[i].op # "list", NEW c
    PROVE  Shrinks(q, q2, c)
<1>1. \A i \in DOMAIN q2 : i \in Nat /\ (q2[i].op = "list" => i \in DOMAIN q /\ q2[i] = q[i] /\ i + 0 = i)
  BY DEF Joined
<1>2. /\ \A i \in HasAt(q2, c) : i \in Nat /\ i + 0 \in HasAt(q, c)
      /\ \A i \in LacksAt(q2, c) : i \in Nat /\ i + 0 \in LacksAt(q, c)
  BY <1>1 DEF HasAt, LacksAt
<1> QED
  BY <1>2 DEF Shrinks

\* Nothing starts a chain of c, and c is not created.
LEMMA OnceSame ==
    ASSUME NEW c \in Child, GetOnce(c), Shrinks(completions, completions', c),
           births'[c] = births[c], chains'[c] = chains[c], removal = "done" => removal' = "done",
           c \in last_sub_path' <=> c \in last_sub_path,
           node[c] = Absent => node'[c] = Absent
    PROVE  GetOnce(c)'
<1> DEFINE q == completions
           q2 == completions'
<1> SUFFICES ASSUME births[c] <= 1, removal # "done"
             PROVE  /\ chains[c] <= 1
                    /\ births[c] = 0 => node'[c] = Absent
                    /\ chains[c] = 1 \/ HasAt(q2, c) # {} => births[c] = 1
                    /\ c \in last_sub_path => chains[c] = 1
                    /\ chains[c] = 1 /\ c \notin last_sub_path => node'[c] = Absent /\ HasAt(q2, c) = {}
                    /\ \A i \in LacksAt(q2, c) :
                         chains[c] = 1 \/ (\E h \in HasAt(q2, c) : h < i) =>
                             node'[c] = Absent /\ \A k \in HasAt(q2, c) : k < i
  BY DEF GetOnce, HasAt, LacksAt
<1>1. /\ chains[c] <= 1
      /\ births[c] = 0 => node[c] = Absent
      /\ chains[c] = 1 \/ HasAt(q, c) # {} => births[c] = 1
      /\ c \in last_sub_path => chains[c] = 1
      /\ chains[c] = 1 /\ c \notin last_sub_path => node[c] = Absent /\ HasAt(q, c) = {}
      /\ \A i \in LacksAt(q, c) :
           chains[c] = 1 \/ (\E h \in HasAt(q, c) : h < i) =>
               node[c] = Absent /\ \A k \in HasAt(q, c) : k < i
  BY DEF GetOnce
<1> HIDE DEF q, q2
<1>2. PICK n \in {0, 1} :
        /\ \A i \in HasAt(q2, c) : i \in Nat /\ i + n \in HasAt(q, c)
        /\ \A i \in LacksAt(q2, c) : i \in Nat /\ i + n \in LacksAt(q, c)
  BY DEF Shrinks, q, q2
<1>3. HasAt(q, c) = {} => HasAt(q2, c) = {}
  BY <1>2
<1>4. ASSUME NEW i \in LacksAt(q2, c), chains[c] = 1 \/ \E h \in HasAt(q2, c) : h < i
      PROVE  node'[c] = Absent /\ \A k \in HasAt(q2, c) : k < i
  <2>1. i \in Nat /\ i + n \in LacksAt(q, c)
    BY <1>2
  <2>2. chains[c] = 1 \/ \E h \in HasAt(q, c) : h < i + n
    <3>1. ASSUME NEW h \in HasAt(q2, c), h < i PROVE h + n \in HasAt(q, c) /\ h + n < i + n
      BY <1>2, <2>1, <3>1
    <3> QED
      BY <1>4, <3>1
  <2>3. node[c] = Absent /\ \A k \in HasAt(q, c) : k < i + n
    BY <1>1, <2>1, <2>2
  <2>4. ASSUME NEW k \in HasAt(q2, c) PROVE k < i
    <3>1. k \in Nat /\ k + n < i + n
      BY <1>2, <2>3
    <3> QED
      BY <2>1, <3>1
  <2> QED
    BY <2>3, <2>4
<1> QED
  BY <1>1, <1>3, <1>4

\* The numbers of a child.
LEMMA OnceType ==
    ASSUME TypeOK, NEW c \in Child
    PROVE  /\ c \in Node /\ c # Parent /\ c \notin NoList
           /\ chains[c] \in Nat /\ births[c] \in Nat /\ node[c] \in Nat
           /\ completions \in Seq(EventMsg \cup AnswerMsg) /\ requests \in Seq(RequestMsg)
  BY DEF TypeOK, Node, NoList

\* The server lists the children.
LEMMA OnceListed ==
    ASSUME TypeOK, NEW c \in Child, GetOnce(c), NEW m, m.op = "list", m.kids = Present,
           Joined(completions, <<m>>, completions'),
           UNCHANGED <<births, chains, removal, last_sub_path, node>>
    PROVE  GetOnce(c)'
<1> DEFINE q == completions
           q2 == completions'
           n == Len(q) + 1
<1>1. /\ DOMAIN q2 = DOMAIN q \cup {n} /\ q2[n] = m /\ n \in Nat
      /\ \A i \in DOMAIN q : i \in Nat /\ i < n /\ q2[i] = q[i]
  BY DEF Joined
<1>2. c \in m.kids <=> node[c] # Absent
  BY DEF Present
<1>3. c \in Node /\ chains[c] \in Nat /\ births[c] \in Nat
  BY OnceType
<1> HIDE DEF q, q2, n
<1>4. CASE node[c] # Absent
  <2>1. HasAt(q2, c) = HasAt(q, c) \cup {n} /\ LacksAt(q2, c) = LacksAt(q, c)
    BY <1>1, <1>2, <1>4 DEF HasAt, LacksAt
  <2>2. \A i \in LacksAt(q, c) : ~(n < i)
    BY <1>1 DEF LacksAt
  <2> SUFFICES ASSUME births[c] <= 1, removal # "done"
               PROVE  /\ chains[c] <= 1
                      /\ births[c] = 1
                      /\ c \in last_sub_path => chains[c] = 1
                      /\ chains[c] = 1 => c \in last_sub_path
                      /\ \A i \in LacksAt(q2, c) :
                           ~(chains[c] = 1 \/ (\E h \in HasAt(q2, c) : h < i))
    BY <1>4 DEF GetOnce, q2
  <2> QED
    BY <1>3, <1>4, <2>1, <2>2 DEF GetOnce, q
<1>5. CASE node[c] = Absent
  <2>1. HasAt(q2, c) = HasAt(q, c) /\ LacksAt(q2, c) = LacksAt(q, c) \cup {n}
    BY <1>1, <1>2, <1>5 DEF HasAt, LacksAt
  <2>2. \A k \in HasAt(q, c) : k < n
    BY <1>1 DEF HasAt
  <2> QED
    BY <1>5, <2>1, <2>2 DEF GetOnce, q, q2
<1> QED
  BY <1>4, <1>5

\* Child c is created, for the first time or again.
LEMMA OnceCreated ==
    ASSUME TypeOK, NEW c \in Child, GetOnce(c), Shrinks(completions, completions', c),
           births'[c] = births[c] + 1, UNCHANGED <<chains, removal, last_sub_path>>
    PROVE  GetOnce(c)'
<1>1. c \in Node /\ chains[c] \in Nat /\ births[c] \in Nat
  BY OnceType
<1> SUFFICES ASSUME births[c] + 1 <= 1, removal # "done"
             PROVE  births[c] = 0 /\ chains[c] = 0 /\ c \notin last_sub_path /\ HasAt(completions', c) = {}
  BY DEF GetOnce
<1>2. births[c] = 0
  BY <1>1
<1>3. chains[c] = 0 /\ c \notin last_sub_path /\ HasAt(completions, c) = {}
  BY <1>1, <1>2 DEF GetOnce
<1>4. HasAt(completions', c) = {}
  BY <1>3 DEF Shrinks
<1> QED
  BY <1>2, <1>3, <1>4

\* What a listing starts.
LEMMA ListStarts ==
    ASSUME TypeOK, RunList
    PROVE  LET m == Head(completions)
           IN  /\ completions # <<>> /\ completions' = Tail(completions)
               /\ m = completions[1] /\ 1 \in DOMAIN completions /\ m.op = "list"
               /\ m.kids \in SUBSET Child
               /\ UNCHANGED <<server, removal, tables>>
               /\ ~m.rc => UNCHANGED <<requests, chains, last_sub_path>>
               /\ m.rc =>
                    /\ last_sub_path' = m.kids
                    /\ \A c \in Child : chains'[c] =
                         IF c \in m.kids /\ c \notin last_sub_path THEN chains[c] + 1 ELSE chains[c]
                    /\ \E r \in Seq(RequestMsg) :
                         /\ requests' = requests \o r
                         /\ \A c \in m.kids \ last_sub_path :
                              \E i \in DOMAIN r : r[i].op = "get" /\ r[i].d = <<c, chains[c] + 1>>
<1> DEFINE m == Head(completions)
<1>1. /\ completions # <<>> /\ completions' = Tail(completions) /\ m.op = "list"
      /\ UNCHANGED <<server, removal, tables>>
      /\ ~m.rc => UNCHANGED <<requests, chains, last_sub_path>>
  BY DEF RunList, Completes, listed, remove
<1>2. m = completions[1] /\ 1 \in DOMAIN completions /\ m \in EventMsg \cup AnswerMsg
  BY <1>1, TakeHead DEF TypeOK
<1>3. m.kids \in SUBSET Child
  BY <1>1, <1>2, CompletionFields
<1>4. /\ New(m.kids) \in SUBSET Child
      /\ \A c \in Child : c \in New(m.kids) <=> c \in m.kids /\ c \notin last_sub_path
  BY <1>3 DEF New, NoList
<1>5. ASSUME m.rc
      PROVE  /\ last_sub_path' = m.kids
             /\ \A c \in Child : chains'[c] =
                  IF c \in m.kids /\ c \notin last_sub_path THEN chains[c] + 1 ELSE chains[c]
             /\ \E r \in Seq(RequestMsg) :
                  /\ requests' = requests \o r
                  /\ \A c \in m.kids \ last_sub_path :
                       \E i \in DOMAIN r : r[i].op = "get" /\ r[i].d = <<c, chains[c] + 1>>
  <2>1. /\ last_sub_path' = m.kids
        /\ chains' = [t \in Node |-> IF t \in New(m.kids) THEN chains[t] + 1 ELSE chains[t]]
    BY <1>5 DEF RunList
  <2>2. PICK order \in Orders(New(m.kids)) :
          requests' = requests \o [i \in DOMAIN order |->
                                     Request("get", <<order[i], chains[order[i]] + 1>>)]
    BY <1>5 DEF RunList, Send
  <2> DEFINE r == [i \in DOMAIN order |-> Request("get", <<order[i], chains[order[i]] + 1>>)]
  <2>3. /\ Len(order) \in Nat /\ DOMAIN order = 1 .. Len(order)
        /\ \A i \in DOMAIN order : order[i] \in New(m.kids)
    BY <1>4, OrderType
  <2>4. \A i \in DOMAIN order : Request("get", <<order[i], chains[order[i]] + 1>>) \in RequestMsg
    <3> SUFFICES ASSUME NEW i \in DOMAIN order
                 PROVE  Request("get", <<order[i], chains[order[i]] + 1>>) \in RequestMsg
      OBVIOUS
    <3>1. order[i] \in Child /\ chains[order[i]] \in Nat
      BY <1>4, <2>3, OnceType
    <3>2. <<order[i], chains[order[i]] + 1>> \in GetData
      BY <3>1 DEF GetData
    <3> QED
      BY <3>2 DEF Request, RequestMsg
  <2>5. r \in Seq(RequestMsg)
    <3>1. r \in [1 .. Len(order) -> RequestMsg]
      BY <2>3, <2>4
    <3> QED
      BY <2>3, <3>1, SeqDef
  <2>6. ASSUME NEW c \in m.kids \ last_sub_path
        PROVE  \E i \in DOMAIN r : r[i].op = "get" /\ r[i].d = <<c, chains[c] + 1>>
    <3>1. c \in New(m.kids)
      BY <1>3, <1>4
    <3>2. PICK i \in DOMAIN order : order[i] = c
      BY <3>1 DEF Orders
    <3>3. i \in DOMAIN r /\ r[i] = Request("get", <<c, chains[c] + 1>>)
      BY <3>2
    <3> QED
      BY <3>3 DEF Request
  <2>7. \A c \in Child : chains'[c] =
          IF c \in m.kids /\ c \notin last_sub_path THEN chains[c] + 1 ELSE chains[c]
    BY <1>4, <2>1, OnceType
  <2> HIDE DEF r
  <2> QED
    BY <2>1, <2>2, <2>5, <2>6, <2>7 DEF r
<1> HIDE DEF m
<1> QED
  BY <1>1, <1>2, <1>3, <1>5 DEF m

\* A listing starts a chain for c only if c was not there before.
LEMMA OnceRunList ==
    ASSUME TypeOK, NEW c \in Child, GetOnce(c), RunList
    PROVE  GetOnce(c)'
<1> DEFINE m == Head(completions)
           q == completions
           q2 == completions'
<1>1. /\ q # <<>> /\ q2 = Tail(q) /\ m = q[1] /\ 1 \in DOMAIN q /\ m.op = "list"
      /\ UNCHANGED <<server, removal>>
      /\ ~m.rc => UNCHANGED <<chains, last_sub_path>>
      /\ m.rc =>
           /\ last_sub_path' = m.kids
           /\ chains'[c] = IF c \in m.kids /\ c \notin last_sub_path THEN chains[c] + 1 ELSE chains[c]
  BY ListStarts
<1>2. births' = births /\ node' = node /\ removal' = removal
  BY <1>1 DEF server
<1>3. Shrinks(q, q2, c)
  BY <1>1, ShrinkTail DEF TypeOK
<1>4. c \in Node /\ chains[c] \in Nat /\ births[c] \in Nat
  BY OnceType
<1>5. /\ \A i \in DOMAIN q2 : i \in Nat \ {0} /\ i + 1 \in DOMAIN q /\ q2[i] = q[i + 1]
      /\ \A i \in DOMAIN q : i \in Nat \ {0}
  BY <1>1, TakeHead DEF TypeOK
<1> HIDE DEF m, q, q2
<1>6. CASE ~m.rc \/ (c \in m.kids <=> c \in last_sub_path)
  <2>1. chains'[c] = chains[c] /\ (c \in last_sub_path' <=> c \in last_sub_path)
    BY <1>1, <1>6
  <2> QED
    BY <1>2, <1>3, <2>1, OnceSame DEF q, q2
<1>7. CASE m.rc /\ c \in m.kids /\ c \notin last_sub_path
  <2>1. chains'[c] = chains[c] + 1 /\ c \in last_sub_path'
    BY <1>1, <1>7
  <2>2. 1 \in HasAt(q, c)
    BY <1>1, <1>7 DEF HasAt
  <2> SUFFICES ASSUME births[c] <= 1, removal # "done"
               PROVE  /\ chains[c] + 1 = 1
                      /\ births[c] = 1
                      /\ \A i \in LacksAt(q2, c) : node[c] = Absent /\ \A k \in HasAt(q2, c) : k < i
    BY <1>2, <2>1 DEF GetOnce, q2
  <2>3. chains[c] = 0 /\ births[c] = 1
    BY <1>4, <1>7, <2>2 DEF GetOnce, q
  <2>4. ASSUME NEW i \in LacksAt(q2, c)
        PROVE  node[c] = Absent /\ \A k \in HasAt(q2, c) : k < i
    <3>1. i \in Nat /\ i + 1 \in LacksAt(q, c) /\ 1 < i + 1
      BY <1>5 DEF LacksAt
    <3>2. node[c] = Absent /\ \A k \in HasAt(q, c) : k < i + 1
      BY <2>2, <3>1 DEF GetOnce, q
    <3>3. \A k \in HasAt(q2, c) : k \in Nat /\ k + 1 \in HasAt(q, c)
      BY <1>5 DEF HasAt
    <3>4. ASSUME NEW k \in HasAt(q2, c) PROVE k < i
      <4>1. k \in Nat /\ k + 1 < i + 1
        BY <3>2, <3>3
      <4> QED
        BY <3>1, <4>1
    <3> QED
      BY <3>2, <3>4
  <2> QED
    BY <2>3, <2>4
<1>8. CASE m.rc /\ c \notin m.kids /\ c \in last_sub_path
  <2>1. chains'[c] = chains[c] /\ c \notin last_sub_path'
    BY <1>1, <1>8
  <2>2. 1 \in LacksAt(q, c)
    BY <1>1, <1>8 DEF LacksAt
  <2> SUFFICES ASSUME births[c] <= 1, removal # "done"
               PROVE  chains[c] = 1 /\ births[c] = 1 /\ node[c] = Absent /\ HasAt(q2, c) = {}
    BY <1>2, <2>1 DEF GetOnce, q2
  <2>3. chains[c] = 1 /\ births[c] = 1 /\ node[c] = Absent /\ \A k \in HasAt(q, c) : k < 1
    BY <1>8, <2>2 DEF GetOnce, q
  <2>4. HasAt(q2, c) = {}
    <3>1. ASSUME NEW k \in HasAt(q2, c) PROVE FALSE
      <4>1. k \in Nat /\ k + 1 \in HasAt(q, c)
        BY <1>5 DEF HasAt
      <4> QED
        BY <2>3, <4>1
    <3> QED
      BY <3>1
  <2> QED
    BY <2>3, <2>4
<1> QED
  BY <1>6, <1>7, <1>8

\* A transaction queues events only.
LEMMA OnceTrigger ==
    ASSUME TypeOK, NEW c, NEW t \in Node, NEW type \in {"created", "changed", "deleted"},
           NEW relist \in BOOLEAN, Trigger(t, type, relist)
    PROVE  Shrinks(completions, completions', c)
<1> DEFINE ends == t = Parent /\ type = "deleted"
           fired == IF t \in srvData \/ (ends /\ srvChild) THEN Collected(t, type) ELSE {}
           kids == IF relist /\ srvChild THEN Collected(Parent, "child") ELSE {}
           e1 == Event(fired, type)
           e2 == Event(kids, "child")
           r == e1 \o e2
<1>1. completions' = completions \o r
  BY DEF Trigger, queue_completion
<1>2. fired \in SUBSET UserData /\ kids \in SUBSET UserData /\ kids \in SUBSET ListData
  BY CollectedType
<1> HIDE DEF fired, kids
<1>3. e1 \in Seq(EventMsg \cup AnswerMsg) /\ e2 \in Seq(EventMsg \cup AnswerMsg)
  BY <1>2, EventType
<1>4. (\A i \in DOMAIN e1 : e1[i].op = "event") /\ (\A i \in DOMAIN e2 : e2[i].op = "event")
  BY DEF Event
<1> HIDE DEF e1, e2
<1>5. r \in Seq(EventMsg \cup AnswerMsg) /\ Joined(e1, e2, r)
  BY <1>3, PutAll
<1> HIDE DEF r
<1>6. \A i \in DOMAIN r : r[i].op # "list"
  BY <1>4, <1>5 DEF Joined
<1>7. Joined(completions, r, completions')
  BY <1>1, <1>5, PutAll DEF TypeOK
<1> QED
  BY <1>6, <1>7, ShrinkPut

\* The server answers a request; the answer is put at the end.
LEMMA AnswerPut ==
    ASSUME TypeOK, NEW op, NEW m \in AnswerMsg, Answers(op, m)
    PROVE  /\ Joined(completions, <<m>>, completions')
           /\ DOMAIN <<m>> = {1} /\ <<m>>[1] = m
           /\ UNCHANGED <<node, births, chains, last_sub_path, removal>>
<1>1. completions' = completions \o <<m>> /\ UNCHANGED <<node, births, chains, last_sub_path, removal>>
  BY DEF Answers, queue_completion, listed, remove
<1>2. <<m>> \in Seq(EventMsg \cup AnswerMsg) /\ DOMAIN <<m>> = {1} /\ <<m>>[1] = m
  BY OneMessage
<1>3. Joined(completions, <<m>>, completions')
  BY <1>1, <1>2, PutAll DEF TypeOK
<1> QED
  BY <1>1, <1>2, <1>3

LEMMA OnceAnswer ==
    ASSUME TypeOK, NEW c \in Child, GetOnce(c), NEW op, NEW m \in AnswerMsg, Answers(op, m),
           m.op = "list" => m.kids = Present
    PROVE  GetOnce(c)'
<1>1. /\ Joined(completions, <<m>>, completions')
      /\ DOMAIN <<m>> = {1} /\ <<m>>[1] = m
      /\ UNCHANGED <<node, births, chains, last_sub_path, removal>>
  BY AnswerPut
<1>2. CASE m.op = "list"
  BY <1>1, <1>2, OnceListed
<1>3. CASE m.op # "list"
  <2>1. Shrinks(completions, completions', c)
    BY <1>1, <1>3, ShrinkPut
  <2> QED
    BY <1>1, <2>1, OnceSame
<1> QED
  BY <1>2, <1>3

\* An event is delivered to one of its watchers.
LEMMA OnceDeliver ==
    ASSUME TypeOK, NEW c, NEW d, Delivers(d)
    PROVE  Shrinks(completions, completions', c)
<1> DEFINE q == completions
           e == Head(q)
           f == [e EXCEPT !.ds = @ \ {d}]
<1>1. /\ q # <<>> /\ e.op = "event" /\ d \in e.ds
      /\ completions' = IF e.ds = {d} THEN Tail(q) ELSE [q EXCEPT ![1].ds = @ \ {d}]
  BY DEF Delivers, Completes
<1>2. /\ Len(q) \in Nat /\ DOMAIN q = 1 .. Len(q) /\ 1 \in DOMAIN q /\ e = q[1]
      /\ e \in EventMsg \cup AnswerMsg
  BY <1>1, TakeHead DEF TypeOK
<1>3. CASE e.ds = {d}
  BY <1>1, <1>3, ShrinkTail DEF TypeOK
<1>4. CASE e.ds # {d}
  <2>1. completions' = [q EXCEPT ![1].ds = @ \ {d}]
    BY <1>1, <1>4
  <2>2. /\ DOMAIN completions' = DOMAIN q /\ completions'[1] = f
        /\ \A i \in DOMAIN q : i # 1 => completions'[i] = q[i]
    BY <1>2, <2>1
  <2>3. e = [op |-> "event", ds |-> e.ds, type |-> e.type]
    BY <1>1, <1>2, CompletionFields
  <2>4. f.op = "event"
    BY <2>3
  <2> HIDE DEF f, e
  <2>5. \A i \in DOMAIN q : i \in Nat /\ i + 0 = i
    BY <1>2
  <2>6. /\ \A i \in HasAt(completions', c) : i \in Nat /\ i + 0 \in HasAt(q, c)
        /\ \A i \in LacksAt(completions', c) : i \in Nat /\ i + 0 \in LacksAt(q, c)
    BY <2>2, <2>4, <2>5 DEF HasAt, LacksAt
  <2> QED
    BY <2>6 DEF Shrinks
<1> QED
  BY <1>3, <1>4

\* Every step keeps the listings and the get chains of a child in order.
LEMMA OnceStep ==
    ASSUME TypeOK, RemovalInv, NEW c \in Child, GetOnce(c), [Next]_vars
    PROVE  GetOnce(c)'
<1>0. /\ c \in Node /\ c # Parent /\ c \notin NoList
      /\ chains[c] \in Nat /\ births[c] \in Nat /\ node[c] \in Nat
      /\ completions \in Seq(EventMsg \cup AnswerMsg)
  BY OnceType
<1>1. CASE OtherClients
  <2> PICK t \in Node : SrvWrite(t) \/ SrvDelete(t)
    BY <1>1 DEF OtherClients
  <2>0. UNCHANGED <<chains, removal, last_sub_path>>
    BY DEF SrvWrite, SrvDelete, listed, remove
  <2>1. CASE SrvWrite(t)
    <3> DEFINE created == node[t] = Absent
               type == IF created THEN "created" ELSE "changed"
               relist == created /\ t # Parent
    <3>1. /\ node' = [node EXCEPT ![t] = zxid + 1]
          /\ births' = [births EXCEPT ![t] = IF created THEN births[t] + 1 ELSE births[t]]
          /\ Trigger(t, type, relist)
      BY <2>1 DEF SrvWrite
    <3>2. type \in {"created", "changed", "deleted"} /\ relist \in BOOLEAN
      OBVIOUS
    <3>3. /\ t # c => node'[c] = node[c]
          /\ births'[c] = IF t = c /\ created THEN births[c] + 1 ELSE births[c]
      BY <1>0, <3>1 DEF TypeOK
    <3> HIDE DEF type, relist
    <3>4. Shrinks(completions, completions', c)
      BY <3>1, <3>2, OnceTrigger
    <3>5. CASE t = c /\ created
      BY <2>0, <3>3, <3>4, <3>5, OnceCreated
    <3>6. CASE ~(t = c /\ created)
      BY <2>0, <3>3, <3>4, <3>6, OnceSame
    <3> QED
      BY <3>5, <3>6
  <2>2. CASE SrvDelete(t)
    <3>1. /\ node' = [node EXCEPT ![t] = Absent] /\ births' = births
          /\ Trigger(t, "deleted", t # Parent)
      BY <2>2 DEF SrvDelete
    <3>2. node[c] = Absent => node'[c] = Absent
      BY <1>0, <3>1 DEF TypeOK
    <3>3. (t # Parent) \in BOOLEAN
      OBVIOUS
    <3>4. Shrinks(completions, completions', c)
      BY <3>1, <3>3, OnceTrigger
    <3> QED
      BY <2>0, <3>1, <3>2, <3>4, OnceSame
  <2> QED
    BY <2>1, <2>2
<1>2. CASE ServerStep
  <2>0. Present \in SUBSET Child
    BY DEF Present
  <2>1. CASE SrvExists
    <3> DEFINE m == [op |-> "exists", rc |-> node[Parent] # Absent]
    <3>1. m \in AnswerMsg /\ Answers("exists", m) /\ m.op # "list"
      BY <2>1 DEF SrvExists, AnswerMsg
    <3> HIDE DEF m
    <3> QED
      BY <3>1, OnceAnswer
  <2>2. CASE SrvList
    <3> DEFINE d == Head(requests).d
               m == [op |-> "list", d |-> d, rc |-> node[Parent] # Absent, kids |-> Present]
    <3>1. Answers("list", m) /\ m.kids = Present
      BY <2>2 DEF SrvList
    <3>2. d \in ListData
      BY <3>1, First, RequestFields DEF Answers
    <3>3. m \in AnswerMsg
      BY <2>0, <3>2 DEF AnswerMsg
    <3> HIDE DEF m
    <3> QED
      BY <3>1, <3>3, OnceAnswer
  <2>3. CASE SrvGet
    <3> DEFINE d == Head(requests).d
               m == [op |-> "get", d |-> d, rc |-> node[d[1]] # Absent, val |-> node[d[1]]]
    <3>1. Answers("get", m) /\ m.op # "list"
      BY <2>3 DEF SrvGet
    <3>2. d \in GetData
      BY <3>1, First, RequestFields DEF Answers
    <3>3. d[1] \in Node /\ node[d[1]] \in Nat
      BY <3>2 DEF GetData, Node, TypeOK
    <3>4. m \in AnswerMsg
      BY <3>2, <3>3 DEF AnswerMsg
    <3> HIDE DEF m
    <3> QED
      BY <3>1, <3>4, OnceAnswer
  <2>4. CASE SrvPlainList
    <3> DEFINE m == [op |-> "plain_list", rc |-> node[Parent] # Absent, kids |-> Present]
    <3>1. m \in AnswerMsg /\ Answers("plain_list", m) /\ m.op # "list"
      BY <2>0, <2>4 DEF SrvPlainList, AnswerMsg
    <3> HIDE DEF m
    <3> QED
      BY <3>1, OnceAnswer
  <2>5. CASE SrvRemoveWatches
    <3> DEFINE m == [op |-> "remove"]
    <3>1. m \in AnswerMsg /\ Answers("remove", m) /\ m.op # "list"
      BY <2>5 DEF SrvRemoveWatches, AnswerMsg
    <3> HIDE DEF m
    <3> QED
      BY <3>1, OnceAnswer
  <2> QED
    BY <1>2, <2>1, <2>2, <2>3, <2>4, <2>5 DEF ServerStep
<1>3. ASSUME NEW d, Delivers(d) PROVE GetOnce(c)'
  <2>1. UNCHANGED <<node, births, chains, last_sub_path, removal>>
    BY <1>3 DEF Delivers, server, listed, remove
  <2> QED
    BY <1>3, <2>1, OnceDeliver, OnceSame
<1>4. CASE RunList
  BY <1>4, OnceRunList
<1>5. CASE RunExists \/ RunGet \/ RunPlainList \/ RunRemove
  <2>1. /\ completions # <<>> /\ completions' = Tail(completions) /\ UNCHANGED <<node, births>>
        /\ removal' = "done" \/ last_sub_path' = last_sub_path
        /\ removal = "done" => removal' = "done" \/ Head(completions).op = "plain_list"
    BY <1>5 DEF RunExists, RunGet, RunPlainList, RunRemove, RemovalDone, Completes, server, listed, remove
  <2>2. chains'[c] = chains[c]
    BY <1>0, <1>5 DEF RunExists, RunGet, RunPlainList, RunRemove, listed, TypeOK
  <2>3. Shrinks(completions, completions', c)
    BY <1>0, <2>1, ShrinkTail
  <2>4. removal = "done" => Head(completions).op # "plain_list"
    BY <2>1, TakeHead DEF TypeOK, RemovalInv, None, At, Is
  <2>5. CASE removal' = "done"
    BY <2>5 DEF GetOnce
  <2>6. CASE removal' # "done"
    BY <2>1, <2>2, <2>3, <2>4, <2>6, OnceSame
  <2> QED
    BY <2>5, <2>6
<1>6. CASE WatchSubPath \/ RemoveWatches \/ UNCHANGED vars
  <2>1. UNCHANGED <<completions, node, births, chains, last_sub_path>>
        /\ (removal = "done" => removal' = "done")
    BY <1>6 DEF WatchSubPath, RemoveWatches, vars, server, listed, remove
  <2> QED
    BY <2>1 DEF GetOnce
<1>7. CASE Expire
  <2>1. /\ completions' = <<>> /\ UNCHANGED <<node, births>>
        /\ chains'[c] = 0 /\ c \notin last_sub_path' /\ (removal = "done" => removal' = "done")
    BY <1>0, <1>7 DEF Expire, AfterExpiry
  <2>2. HasAt(completions', c) = {} /\ LacksAt(completions', c) = {}
    BY <2>1 DEF HasAt, LacksAt
  <2> QED
    BY <2>1, <2>2 DEF GetOnce
<1> QED
  BY <1>1, <1>2, <1>3, <1>4, <1>5, <1>6, <1>7
  DEF Next, CompletionStep, RunExistsWatcher, RunListWatcher, RunGetWatcher

\* A request of the chain of d is in queue q; an event in queue q will make the
\* chain of d ask again.
Asks(q, d)  == \E i \in DOMAIN q : q[i].op \in {"list", "get"} /\ q[i].d = d
Wakes(q, d) == \E i \in DOMAIN q : q[i].op = "event" /\ q[i].type # "deleted" /\ d \in q[i].ds

LEMMA LivesIn ==
    ASSUME NEW d
    PROVE  Lives(d) <=> \/ Asks(requests, d)
                        \/ d \in data_watchers \cup child_watchers
                        \/ Wakes(completions, d)
  BY DEF Lives, Asks, Wakes

\* Messages put at the end of a queue leave what is in it.
LEMMA LivesPut ==
    ASSUME NEW q, NEW r, NEW q2, Joined(q, r, q2), NEW d
    PROVE  /\ Asks(q, d) \/ Asks(r, d) => Asks(q2, d)
           /\ Wakes(q, d) \/ Wakes(r, d) => Wakes(q2, d)
<1>1. /\ \A i \in DOMAIN q : i \in DOMAIN q2 /\ q2[i] = q[i]
      /\ \A i \in DOMAIN r : Len(q) + i \in DOMAIN q2 /\ q2[Len(q) + i] = r[i]
  BY DEF Joined
<1>2. Asks(q, d) \/ Asks(r, d) => Asks(q2, d)
  BY <1>1 DEF Asks
<1>3. Wakes(q, d) \/ Wakes(r, d) => Wakes(q2, d)
  BY <1>1 DEF Wakes
<1> QED
  BY <1>2, <1>3

\* What is taken from a queue is its first message.
LEMMA LivesTake ==
    ASSUME NEW S, NEW q \in Seq(S), q # <<>>, NEW d
    PROVE  /\ Asks(q, d) /\ ~(Head(q).op \in {"list", "get"} /\ Head(q).d = d) => Asks(Tail(q), d)
           /\ Wakes(q, d) /\ ~(Head(q).op = "event" /\ Head(q).type # "deleted" /\ d \in Head(q).ds)
                => Wakes(Tail(q), d)
<1>1. /\ Head(q) = q[1]
      /\ \A i \in DOMAIN q : i = 1 \/ (i - 1 \in DOMAIN Tail(q) /\ q[i] = Tail(q)[i - 1])
  BY TakeHead
<1>2. ASSUME Asks(q, d), ~(Head(q).op \in {"list", "get"} /\ Head(q).d = d) PROVE Asks(Tail(q), d)
  <2>1. PICK i \in DOMAIN q : q[i].op \in {"list", "get"} /\ q[i].d = d
    BY <1>2 DEF Asks
  <2>2. i - 1 \in DOMAIN Tail(q) /\ q[i] = Tail(q)[i - 1]
    BY <1>1, <1>2, <2>1
  <2> QED
    BY <2>1, <2>2 DEF Asks
<1>3. ASSUME Wakes(q, d), ~(Head(q).op = "event" /\ Head(q).type # "deleted" /\ d \in Head(q).ds)
      PROVE  Wakes(Tail(q), d)
  <2>1. PICK i \in DOMAIN q : q[i].op = "event" /\ q[i].type # "deleted" /\ d \in q[i].ds
    BY <1>3 DEF Wakes
  <2>2. i - 1 \in DOMAIN Tail(q) /\ q[i] = Tail(q)[i - 1]
    BY <1>1, <1>3, <2>1
  <2> QED
    BY <2>1, <2>2 DEF Wakes
<1> QED
  BY <1>2, <1>3

\* A transaction on a node that stays there wakes the chains it takes the
\* watches of.
LEMMA LivesTrigger ==
    ASSUME TypeOK, BackedInv, NEW t \in Node, NEW type \in {"created", "changed", "deleted"},
           NEW relist \in BOOLEAN, Trigger(t, type, relist), requests' = requests,
           NEW c \in Child, Lives(<<c, 1>>), t = c => type # "deleted"
    PROVE  Lives(<<c, 1>>)'
<1> DEFINE d == <<c, 1>>
           ends == t = Parent /\ type = "deleted"
           fired == IF t \in srvData \/ (ends /\ srvChild) THEN Collected(t, type) ELSE {}
           kids == IF relist /\ srvChild THEN Collected(Parent, "child") ELSE {}
           e1 == Event(fired, type)
           e2 == Event(kids, "child")
           r == e1 \o e2
<1>1. /\ completions' = completions \o r
      /\ data_watchers' = data_watchers \ (fired \cup kids)
  BY DEF Trigger, queue_completion
<1>2. /\ fired \in SUBSET UserData /\ kids \in SUBSET UserData /\ kids \in SUBSET ListData
      /\ \A x \in fired : x[1] = t
  BY CollectedType
<1>3. d \notin child_watchers /\ d \notin kids /\ d[1] = c
  BY <1>2 DEF TypeOK, ListData
<1> HIDE DEF fired, kids
<1>4. e1 \in Seq(EventMsg \cup AnswerMsg) /\ e2 \in Seq(EventMsg \cup AnswerMsg)
  BY <1>2, EventType
<1>5. d \in fired => Wakes(e1, d)
  <2> SUFFICES ASSUME d \in fired PROVE Wakes(e1, d)
    OBVIOUS
  <2>1. e1 = <<[op |-> "event", ds |-> fired, type |-> type]>> /\ type # "deleted"
    BY <1>2, <1>3 DEF Event
  <2>2. 1 \in DOMAIN e1 /\ e1[1].op = "event" /\ e1[1].type # "deleted" /\ e1[1].ds = fired
    BY <2>1
  <2> HIDE DEF e1
  <2> QED
    BY <2>2 DEF Wakes
<1> HIDE DEF e1, e2
<1>6. r \in Seq(EventMsg \cup AnswerMsg) /\ Joined(e1, e2, r)
  BY <1>4, PutAll
<1> HIDE DEF r, d
<1>7. d \in fired => Wakes(r, d)
  BY <1>5, <1>6, LivesPut
<1>8. Joined(completions, r, completions')
  BY <1>1, <1>6, PutAll DEF TypeOK
<1>9. Wakes(completions, d) \/ d \in fired => Wakes(completions', d)
  BY <1>7, <1>8, LivesPut
<1>10. Asks(requests, d) \/ d \in data_watchers \/ Wakes(completions, d)
  BY <1>3, LivesIn DEF d
<1>11. Asks(requests', d) \/ d \in data_watchers' \/ Wakes(completions', d)
  BY <1>1, <1>3, <1>9, <1>10
<1> QED
  BY <1>11 DEF Lives, Asks, Wakes, d

\* The server answers a request.
LEMMA LivesAnswer ==
    ASSUME TypeOK, NEW op, NEW m \in AnswerMsg, Answers(op, m), NEW d, Lives(d),
           data_watchers \subseteq data_watchers', child_watchers \subseteq child_watchers',
           Head(requests).op \in {"list", "get"} /\ Head(requests).d = d =>
             d \in data_watchers' \cup child_watchers'
    PROVE  Lives(d)'
<1>1. requests # <<>> /\ requests' = Tail(requests) /\ Joined(completions, <<m>>, completions')
  BY AnswerPut DEF Answers
<1>2. Wakes(completions, d) => Wakes(completions', d)
  BY <1>1, LivesPut
<1>3. Asks(requests, d) => Asks(requests', d) \/ d \in data_watchers' \cup child_watchers'
  BY <1>1, LivesTake DEF TypeOK
<1>4. Asks(requests, d) \/ d \in data_watchers \cup child_watchers \/ Wakes(completions, d)
  BY LivesIn
<1>5. Asks(requests', d) \/ d \in data_watchers' \cup child_watchers' \/ Wakes(completions', d)
  BY <1>2, <1>3, <1>4
<1> QED
  BY <1>5 DEF Lives, Asks, Wakes

\* The completion thread takes a completion that is no event, and may ask.
LEMMA LivesRun ==
    ASSUME TypeOK, completions # <<>>, completions' = Tail(completions),
           Head(completions).op # "event", UNCHANGED tables,
           NEW r \in Seq(RequestMsg), requests' = requests \o r,
           NEW d, Lives(d) \/ Asks(r, d)
    PROVE  Lives(d)'
<1>1. Joined(requests, r, requests')
  BY PutAll DEF TypeOK
<1>2. Asks(requests, d) \/ Asks(r, d) => Asks(requests', d)
  BY <1>1, LivesPut
<1>3. Wakes(completions, d) => Wakes(completions', d)
  BY LivesTake DEF TypeOK
<1>4. Asks(r, d) \/ Asks(requests, d) \/ d \in data_watchers \cup child_watchers \/ Wakes(completions, d)
  BY LivesIn
<1>5. Asks(requests', d) \/ d \in data_watchers' \cup child_watchers' \/ Wakes(completions', d)
  BY <1>2, <1>3, <1>4 DEF tables
<1> QED
  BY <1>5 DEF Lives, Asks, Wakes

\* An event is delivered; the watcher it is delivered to asks again, unless it
\* is a deletion.
LEMMA LivesDeliver ==
    ASSUME TypeOK, NEW d, Delivers(d), NEW r \in Seq(RequestMsg), requests' = requests \o r,
           NEW x, Lives(x), x = d /\ Head(completions).type # "deleted" => Asks(r, x)
    PROVE  Lives(x)'
<1> DEFINE q == completions
           e == Head(q)
           f == [e EXCEPT !.ds = @ \ {d}]
<1>1. /\ q # <<>> /\ e.op = "event" /\ d \in e.ds /\ UNCHANGED tables
      /\ completions' = IF e.ds = {d} THEN Tail(q) ELSE [q EXCEPT ![1].ds = @ \ {d}]
  BY DEF Delivers, Completes
<1>2. /\ Len(q) \in Nat /\ DOMAIN q = 1 .. Len(q) /\ 1 \in DOMAIN q /\ e = q[1]
      /\ e \in EventMsg \cup AnswerMsg
  BY <1>1, TakeHead DEF TypeOK
<1>3. Joined(requests, r, requests')
  BY PutAll DEF TypeOK
<1>4. Asks(requests, x) \/ Asks(r, x) => Asks(requests', x)
  BY <1>3, LivesPut
<1>5. Wakes(q, x) => Wakes(completions', x) \/ Asks(r, x)
  <2> SUFFICES ASSUME Wakes(q, x), ~(x = d /\ e.type # "deleted") PROVE Wakes(completions', x)
    OBVIOUS
  <2>1. CASE e.ds = {d}
    BY <1>1, <2>1, LivesTake DEF TypeOK
  <2>2. CASE e.ds # {d}
    <3>1. completions' = [q EXCEPT ![1].ds = @ \ {d}]
      BY <1>1, <2>2
    <3>2. /\ DOMAIN completions' = DOMAIN q /\ completions'[1] = f
          /\ \A i \in DOMAIN q : i # 1 => completions'[i] = q[i]
      BY <1>2, <3>1
    <3>3. e = [op |-> "event", ds |-> e.ds, type |-> e.type]
      BY <1>1, <1>2, CompletionFields
    <3>4. f.op = "event" /\ f.type = e.type /\ f.ds = e.ds \ {d}
      BY <3>3
    <3>5. PICK i \in DOMAIN q : q[i].op = "event" /\ q[i].type # "deleted" /\ x \in q[i].ds
      BY DEF Wakes
    <3> HIDE DEF f, e
    <3>6. /\ completions'[i].op = "event" /\ completions'[i].type # "deleted"
          /\ x \in completions'[i].ds
      BY <1>2, <3>2, <3>4, <3>5
    <3> QED
      BY <3>2, <3>5, <3>6 DEF Wakes
  <2> QED
    BY <2>1, <2>2
<1>6. Asks(requests, x) \/ x \in data_watchers \cup child_watchers \/ Wakes(q, x)
  BY LivesIn
<1>7. Asks(requests', x) \/ x \in data_watchers' \cup child_watchers' \/ Wakes(completions', x)
  BY <1>1, <1>4, <1>5, <1>6 DEF tables
<1> QED
  BY <1>7 DEF Lives, Asks, Wakes

\* Every step keeps a child monitored.
LEMMA MonitoredStep ==
    ASSUME TypeOK, RemovalInv, BackedInv, NEW c \in Child, GetOnce(c), Monitored(c), [Next]_vars
    PROVE  Monitored(c)'
<1> DEFINE d0 == <<c, 1>>
<1>0. /\ c \in Node /\ c # Parent /\ d0[1] = c
      /\ chains[c] \in Nat /\ births[c] \in Nat /\ node[c] \in Nat
      /\ completions \in Seq(EventMsg \cup AnswerMsg)
      /\ d0 \notin ListData /\ d0 # ExistsData
  BY OnceType DEF ListData, ExistsData
<1> SUFFICES ASSUME removal' = "none", births'[c] = 1, node'[c] # Absent, chains'[c] = 1
             PROVE  Lives(<<c, 1>>)'
  BY DEF Monitored
<1>1. CASE OtherClients
  <2> PICK t \in Node : SrvWrite(t) \/ SrvDelete(t)
    BY <1>1 DEF OtherClients
  <2>0. UNCHANGED <<requests, chains, removal>>
    BY DEF SrvWrite, SrvDelete, listed, remove
  <2>1. CASE SrvWrite(t)
    <3> DEFINE created == node[t] = Absent
               type == IF created THEN "created" ELSE "changed"
               relist == created /\ t # Parent
    <3>1. /\ node' = [node EXCEPT ![t] = zxid + 1]
          /\ births' = [births EXCEPT ![t] = IF created THEN births[t] + 1 ELSE births[t]]
          /\ Trigger(t, type, relist)
      BY <2>1 DEF SrvWrite
    <3>2. type \in {"created", "changed", "deleted"} /\ relist \in BOOLEAN /\ type # "deleted"
      OBVIOUS
    <3>3. /\ t # c => node'[c] = node[c]
          /\ births'[c] = IF t = c /\ created THEN births[c] + 1 ELSE births[c]
      BY <1>0, <3>1 DEF TypeOK
    <3>4. ~(t = c /\ created)
      <4> SUFFICES ASSUME t = c, created PROVE FALSE
        OBVIOUS
      <4>1. births[c] = 0
        BY <1>0, <3>3
      <4> QED
        BY <2>0, <4>1 DEF GetOnce
    <3>5. Lives(<<c, 1>>)
      BY <2>0, <3>3, <3>4 DEF Monitored
    <3> HIDE DEF type, relist
    <3> QED
      BY <2>0, <3>1, <3>2, <3>5, LivesTrigger
  <2>2. CASE SrvDelete(t)
    <3>1. /\ node' = [node EXCEPT ![t] = Absent] /\ births' = births
          /\ Trigger(t, "deleted", t # Parent)
      BY <2>2 DEF SrvDelete
    <3>2. t # c /\ node'[c] = node[c]
      BY <1>0, <3>1 DEF TypeOK
    <3>3. (t # Parent) \in BOOLEAN
      OBVIOUS
    <3>4. Lives(<<c, 1>>)
      BY <2>0, <3>1, <3>2 DEF Monitored
    <3> QED
      BY <2>0, <3>1, <3>2, <3>3, <3>4, LivesTrigger
  <2> QED
    BY <2>1, <2>2
<1>2. CASE ServerStep
  <2>0. Present \in SUBSET Child
    BY DEF Present
  <2>1. Lives(d0) /\ removal = "none"
    BY <1>2 DEF ServerStep, SrvExists, SrvList, SrvGet, SrvPlainList, SrvRemoveWatches, Answers,
      listed, remove, Monitored
  <2>2. CASE SrvExists
    <3> DEFINE m == [op |-> "exists", rc |-> node[Parent] # Absent]
    <3>1. /\ m \in AnswerMsg /\ Answers("exists", m) /\ Head(requests).op = "exists"
          /\ data_watchers \subseteq data_watchers' /\ child_watchers' = child_watchers
      BY <2>2 DEF SrvExists, AnswerMsg, Answers
    <3> HIDE DEF m
    <3> QED
      BY <2>1, <3>1, LivesAnswer
  <2>3. CASE SrvList
    <3> DEFINE d == Head(requests).d
               m == [op |-> "list", d |-> d, rc |-> node[Parent] # Absent, kids |-> Present]
    <3>1. /\ Answers("list", m) /\ data_watchers' = data_watchers
          /\ child_watchers \subseteq child_watchers'
      BY <2>3 DEF SrvList
    <3>2. d \in ListData
      BY <3>1, First, RequestFields DEF Answers
    <3>3. m \in AnswerMsg
      BY <2>0, <3>2 DEF AnswerMsg
    <3> HIDE DEF m
    <3> QED
      BY <1>0, <2>1, <3>1, <3>2, <3>3, LivesAnswer
  <2>4. CASE SrvGet
    <3> DEFINE d == Head(requests).d
               m == [op |-> "get", d |-> d, rc |-> node[d[1]] # Absent, val |-> node[d[1]]]
    <3>1. /\ Answers("get", m) /\ node' = node /\ child_watchers' = child_watchers
          /\ data_watchers' = IF node[d[1]] # Absent THEN data_watchers \cup {d} ELSE data_watchers
      BY <2>4 DEF SrvGet, Answers
    <3>2. d \in GetData
      BY <3>1, First, RequestFields DEF Answers
    <3>3. d[1] \in Node /\ node[d[1]] \in Nat
      BY <3>2 DEF GetData, Node, TypeOK
    <3>4. m \in AnswerMsg
      BY <3>2, <3>3 DEF AnswerMsg
    <3>5. d = d0 => d0 \in data_watchers'
      BY <1>0, <3>1
    <3> HIDE DEF m
    <3> QED
      BY <2>1, <3>1, <3>4, <3>5, LivesAnswer
  <2>5. CASE SrvPlainList \/ SrvRemoveWatches
    <3>1. requests # <<>> /\ Head(requests).op \in {"plain_list", "remove"}
      BY <2>5 DEF SrvPlainList, SrvRemoveWatches, Answers
    <3>2. ~None(requests, "removal")
      BY <3>1, TakeHead DEF TypeOK, None, At, Is
    <3> QED
      BY <2>1, <3>2 DEF RemovalInv
  <2> QED
    BY <1>2, <2>2, <2>3, <2>4, <2>5 DEF ServerStep
<1>3. ASSUME NEW d, Delivers(d) PROVE Lives(d0) /\ d \in UserData
  BY <1>3, Delivered DEF Delivers, server, listed, remove, Monitored
<1>4. CASE RunExistsWatcher
  <2> DEFINE r == <<Request("exists", ExistsData)>>
  <2>1. Delivers(ExistsData) /\ requests' = requests \o r
    BY <1>4 DEF RunExistsWatcher, Send
  <2>2. r \in Seq(RequestMsg)
    BY DEF Request, RequestMsg
  <2> HIDE DEF r
  <2> QED
    BY <1>0, <1>3, <2>1, <2>2, LivesDeliver
<1>5. ASSUME NEW d, RunListWatcher(d) PROVE Lives(<<c, 1>>)'
  <2> DEFINE r == IF ListsAgain(Head(completions).type) THEN <<Request("list", d)>> ELSE <<>>
  <2>1. Delivers(d) /\ IsList(d) /\ requests' = requests \o r
    BY <1>5 DEF RunListWatcher, Send
  <2>2. d \in UserData /\ d # d0
    BY <1>0, <1>3, <2>1 DEF IsList
  <2>3. d \in ListData
    BY <2>1, <2>2 DEF IsList, UserData, ListData, GetData, ExistsData
  <2>4. r \in Seq(RequestMsg)
    <3>1. Request("list", d) \in RequestMsg
      BY <2>3 DEF Request, RequestMsg
    <3> QED
      BY <3>1, OneMessage, NoMessage
  <2> HIDE DEF r
  <2> QED
    BY <1>3, <2>1, <2>2, <2>4, LivesDeliver
<1>6. ASSUME NEW d, RunGetWatcher(d) PROVE Lives(<<c, 1>>)'
  <2> DEFINE r == IF Head(completions).type = "deleted" THEN <<>> ELSE <<Request("get", d)>>
  <2>1. Delivers(d) /\ IsGet(d)
    BY <1>6 DEF RunGetWatcher
  <2>2. d \in GetData
    BY <1>3, <2>1 DEF IsGet, UserData, ListData, GetData, ExistsData
  <2>3. Request("get", d) \in RequestMsg
    BY <2>2 DEF Request, RequestMsg
  <2>4. r \in Seq(RequestMsg)
    BY <2>3, OneMessage, NoMessage
  <2>5. Head(completions).type # "deleted" => Asks(r, d)
    <3> SUFFICES ASSUME r = <<Request("get", d)>> PROVE Asks(r, d)
      OBVIOUS
    <3>1. 1 \in DOMAIN r /\ r[1] = Request("get", d)
      BY DEF Request
    <3> QED
      BY <3>1 DEF Asks, Request
  <2>6. requests' = requests \o r
    <3>1. requests \o <<>> = requests
      BY ConcatEmptySeq DEF TypeOK
    <3> QED
      BY <1>6, <3>1 DEF RunGetWatcher, Send
  <2>7. <<c, 1>> = d /\ Head(completions).type # "deleted" => Asks(r, <<c, 1>>)
    BY <2>5
  <2>8. Lives(<<c, 1>>)
    BY <1>3, <2>1
  <2> HIDE DEF r
  <2> QED
    BY <2>1, <2>4, <2>6, <2>7, <2>8, LivesDeliver
<1>7. CASE RunExists
  <2> DEFINE first == Head(completions).rc /\ Starts(eve)
             d == <<Parent, chains[Parent] + 1>>
             r == IF first THEN <<Request("list", d)>> ELSE <<>>
  <2>1. /\ completions # <<>> /\ completions' = Tail(completions) /\ Head(completions).op = "exists"
        /\ UNCHANGED <<births, node, removal, tables>> /\ requests' = requests \o r
        /\ chains' = IF first THEN [chains EXCEPT ![Parent] = chains[Parent] + 1] ELSE chains
    BY <1>7 DEF RunExists, Completes, Send, server, remove
  <2>2. chains'[c] = chains[c]
    BY <1>0, <2>1 DEF TypeOK
  <2>3. d \in ListData
    BY DEF ListData, TypeOK, Node
  <2>4. r \in Seq(RequestMsg)
    <3>1. Request("list", d) \in RequestMsg
      BY <2>3 DEF Request, RequestMsg
    <3> QED
      BY <3>1, OneMessage, NoMessage
  <2>5. Lives(<<c, 1>>)
    BY <2>1, <2>2 DEF Monitored
  <2> HIDE DEF r
  <2> QED
    BY <2>1, <2>4, <2>5, LivesRun
<1>8. CASE RunList
  <2> DEFINE m == Head(completions)
  <2>1. /\ completions # <<>> /\ completions' = Tail(completions) /\ m.op = "list"
        /\ UNCHANGED <<births, node, removal, tables>>
        /\ ~m.rc => UNCHANGED <<requests, chains>>
        /\ m.rc =>
             /\ chains'[c] = IF c \in m.kids /\ c \notin last_sub_path THEN chains[c] + 1 ELSE chains[c]
             /\ \E r \in Seq(RequestMsg) :
                  /\ requests' = requests \o r
                  /\ c \in m.kids \ last_sub_path =>
                       \E i \in DOMAIN r : r[i].op = "get" /\ r[i].d = <<c, chains[c] + 1>>
    BY <1>8, ListStarts DEF server
  <2> HIDE DEF m
  <2>2. chains'[c] = chains[c] => Lives(<<c, 1>>)
    BY <2>1 DEF Monitored
  <2>3. CASE ~m.rc
    <3>1. requests' = requests \o <<>> /\ <<>> \in Seq(RequestMsg)
      BY <2>1, <2>3, ConcatEmptySeq DEF TypeOK
    <3> QED
      BY <2>1, <2>2, <2>3, <3>1, LivesRun DEF m
  <2>4. CASE m.rc
    <3> PICK r \in Seq(RequestMsg) :
          /\ requests' = requests \o r
          /\ c \in m.kids \ last_sub_path =>
               \E i \in DOMAIN r : r[i].op = "get" /\ r[i].d = <<c, chains[c] + 1>>
      BY <2>1, <2>4
    <3>1. c \in m.kids \ last_sub_path => Asks(r, <<c, 1>>)
      <4> SUFFICES ASSUME c \in m.kids \ last_sub_path PROVE Asks(r, <<c, 1>>)
        OBVIOUS
      <4>1. chains[c] + 1 = 1
        BY <2>1, <2>4
      <4> QED
        BY <4>1 DEF Asks
    <3>2. Lives(<<c, 1>>) \/ Asks(r, <<c, 1>>)
      BY <2>1, <2>2, <2>4, <3>1
    <3> QED
      BY <2>1, <3>2, LivesRun DEF m
  <2> QED
    BY <2>3, <2>4
<1>9. CASE RunGet
  <2>1. /\ completions # <<>> /\ completions' = Tail(completions) /\ Head(completions).op = "get"
        /\ UNCHANGED <<births, node, chains, removal, tables, requests>>
    BY <1>9 DEF RunGet, Completes, server, listed, remove
  <2>2. requests' = requests \o <<>> /\ <<>> \in Seq(RequestMsg)
    BY <2>1, ConcatEmptySeq DEF TypeOK
  <2>3. Lives(<<c, 1>>)
    BY <2>1 DEF Monitored
  <2> QED
    BY <2>1, <2>2, <2>3, LivesRun
<1>10. CASE RunPlainList \/ RunRemove
  <2>1. completions # <<>> /\ Head(completions).op \in {"plain_list", "remove"}
    BY <1>10 DEF RunPlainList, RunRemove, Completes
  <2>2. ~None(completions, "removal")
    BY <2>1, TakeHead DEF TypeOK, None, At, Is
  <2>3. removal # "none"
    BY <2>2 DEF RemovalInv
  <2> QED
    BY <1>10, <2>3 DEF RunPlainList, RunRemove, RemovalDone
<1>11. CASE WatchSubPath
  <2> DEFINE r == <<Request("exists", ExistsData)>>
  <2>1. /\ requests' = requests \o r
        /\ UNCHANGED <<births, node, chains, removal, data_watchers, child_watchers, completions>>
    BY <1>11 DEF WatchSubPath, Send, server, listed, remove, tables
  <2>2. r \in Seq(RequestMsg)
    BY DEF Request, RequestMsg
  <2> HIDE DEF r
  <2>3. Joined(requests, r, requests')
    BY <2>1, <2>2, PutAll DEF TypeOK
  <2>4. Asks(requests, d0) => Asks(requests', d0)
    BY <2>3, LivesPut
  <2>5. Asks(requests, d0) \/ d0 \in data_watchers \cup child_watchers \/ Wakes(completions, d0)
    BY <2>1, LivesIn DEF Monitored
  <2> QED
    BY <2>1, <2>4, <2>5 DEF Lives, Asks, Wakes
<1>12. CASE UNCHANGED vars
  BY <1>12 DEF vars, server, listed, remove, tables, Monitored, Lives
<1>13. CASE RemoveWatches \/ Expire
  BY <1>0, <1>13 DEF RemoveWatches, Expire
<1> QED
  BY <1>1, <1>2, <1>4, <1>5, <1>6, <1>7, <1>8, <1>9, <1>10, <1>11, <1>12, <1>13 DEF Next, CompletionStep

\* The get chains are as GetOnce and Monitored say in every reachable state.
LEMMA OnceHolds == Spec => []OnceInv
<1>1. Init => OnceInv
  <2> SUFFICES ASSUME Init, NEW c \in Child PROVE GetOnce(c) /\ Monitored(c)
    BY ListerInit DEF OnceInv
  <2>1. /\ node[c] = Absent /\ births[c] = 0 /\ chains[c] = 0 /\ c \notin last_sub_path
    BY DEF Init, Node, NoList
  <2>2. HasAt(completions, c) = {} /\ LacksAt(completions, c) = {}
    BY DEF Init, HasAt, LacksAt
  <2> QED
    BY <2>1, <2>2 DEF GetOnce, Monitored
<1>2. OnceInv /\ [Next]_vars => OnceInv'
  BY ListerStep, OnceStep, MonitoredStep DEF OnceInv, ListerInv, TypeInv
<1> QED
  BY <1>1, <1>2, PTL DEF Spec

\* A child that was created once is monitored by one get chain at most,
\* whichever listings overlap, until watch_sub_path is removed: a listing never
\* takes a child that is monitored already for a new one, because a listing
\* without it was answered after its deletion (config_monitor.hpp:331-337).
THEOREM OneChainPerChild == Spec => []OneGetChain
<1>1. OnceInv => OneGetChain
  <2> SUFFICES ASSUME OnceInv, removal # "done", NEW c \in Child, births[c] = 1,
                      NEW m \in Chains(c), NEW n \in Chains(c)
               PROVE  m = n
    BY DEF OneGetChain
  <2>1. chains[c] \in Nat /\ chains[c] <= 1
    BY OnceType DEF OnceInv, ListerInv, TypeInv, GetOnce
  <2>2. m \in 1 .. chains[c] /\ n \in 1 .. chains[c]
    BY DEF Chains
  <2> QED
    BY <2>1, <2>2
<1> QED
  BY <1>1, OnceHolds, PTL

\* A child in last_sub_path_, which later listings pass over, has a get chain
\* that has not ended, as long as it was created once and still exists
\* (config_monitor.hpp:331).
THEOREM ListedAreMonitored == Spec => []ListedMonitored
<1>1. OnceInv => ListedMonitored
  <2> SUFFICES ASSUME OnceInv, removal = "none", NEW c \in last_sub_path \ {Parent},
                      births[c] = 1, node[c] # Absent
               PROVE  Chains(c) # {}
    BY DEF ListedMonitored
  <2>1. c \in Child
    BY DEF OnceInv, ListerInv, TypeInv, TypeOK, NoList
  <2>2. chains[c] = 1
    BY <2>1 DEF OnceInv, GetOnce
  <2>3. Lives(<<c, 1>>)
    BY <2>1, <2>2 DEF OnceInv, Monitored
  <2>4. 1 \in Chains(c)
    BY <2>2, <2>3 DEF Chains
  <2> QED
    BY <2>4
<1> QED
  BY <1>1, OnceHolds, PTL

-----------------------------------------------------------------------------
(***************************************************************************)
(* What the user knows when nothing is in flight.                          *)
(***************************************************************************)
\* The chain of d will ask again, or has asked, without any transaction.
Pending(d) == Asks(requests, d) \/ Wakes(completions, d)

\* A listing or a get chain waits for a transaction, or is pending.
LEMMA LivesPending ==
    ASSUME NEW d
    PROVE  Lives(d) <=> Pending(d) \/ d \in data_watchers \cup child_watchers
  BY LivesIn DEF Pending

\* What a transaction on t tells, in messages r: only a deletion of t ends
\* chains, and the other chains whose watches it takes will ask again.
Tells(t, type, relist, r) ==
    /\ Joined(completions, r, completions')
    /\ \A i \in DOMAIN r :
         /\ r[i].op = "event"
         /\ r[i].type = "deleted" => type = "deleted" /\ \A d \in r[i].ds : d[1] = t
    /\ \A d \in data_watchers \cup child_watchers :
         \/ d \in data_watchers' \cup child_watchers'
         \/ Wakes(r, d)
         \/ type = "deleted" /\ d[1] = t
    /\ \A d \in data_watchers : d[1] = t /\ type # "deleted" => Wakes(r, d)
    /\ relist => \A d \in child_watchers : Wakes(r, d)

\* What a transaction tells.
LEMMA TriggerPut ==
    ASSUME TypeOK, BackedInv, NEW t \in Node, NEW type \in {"created", "changed", "deleted"},
           NEW relist \in BOOLEAN, Trigger(t, type, relist)
    PROVE  \E r \in Seq(EventMsg \cup AnswerMsg) : Tells(t, type, relist, r)
<1> DEFINE ends == t = Parent /\ type = "deleted"
           fired == IF t \in srvData \/ (ends /\ srvChild) THEN Collected(t, type) ELSE {}
           kids == IF relist /\ srvChild THEN Collected(Parent, "child") ELSE {}
           e1 == Event(fired, type)
           e2 == Event(kids, "child")
           r == e1 \o e2
<1>1. /\ completions' = completions \o r
      /\ data_watchers' = data_watchers \ (fired \cup kids)
      /\ child_watchers' = child_watchers \ (fired \cup kids)
  BY DEF Trigger, queue_completion
<1>2. /\ fired \in SUBSET UserData /\ kids \in SUBSET UserData /\ kids \in SUBSET ListData
      /\ \A x \in fired : x[1] = t
  BY CollectedType
<1>3. \A d \in data_watchers : d[1] = t => d \in fired
  BY DEF BackedInv, Collected
<1>4. relist => \A d \in child_watchers : d \in kids
  BY DEF BackedInv, Collected, TypeOK, ListData
<1> HIDE DEF fired, kids
<1>5. e1 \in Seq(EventMsg \cup AnswerMsg) /\ e2 \in Seq(EventMsg \cup AnswerMsg)
  BY <1>2, EventType
<1>6. /\ \A i \in DOMAIN e1 : e1[i].op = "event" /\ e1[i].ds = fired /\ e1[i].type = type
      /\ \A i \in DOMAIN e2 : e2[i].op = "event" /\ e2[i].type = "child"
  BY DEF Event
<1>7. \A d \in fired : type # "deleted" => Wakes(e1, d)
  <2> SUFFICES ASSUME NEW d \in fired, type # "deleted" PROVE Wakes(e1, d)
    OBVIOUS
  <2>1. 1 \in DOMAIN e1 /\ e1[1].op = "event" /\ e1[1].type = type /\ e1[1].ds = fired
    BY DEF Event
  <2> HIDE DEF e1
  <2> QED
    BY <2>1 DEF Wakes
<1>8. \A d \in kids : Wakes(e2, d)
  <2> SUFFICES ASSUME NEW d \in kids PROVE Wakes(e2, d)
    OBVIOUS
  <2>1. 1 \in DOMAIN e2 /\ e2[1].op = "event" /\ e2[1].type = "child" /\ e2[1].ds = kids
    BY DEF Event
  <2> HIDE DEF e2
  <2> QED
    BY <2>1 DEF Wakes
<1> HIDE DEF e1, e2
<1>9. r \in Seq(EventMsg \cup AnswerMsg) /\ Joined(e1, e2, r)
  BY <1>5, PutAll
<1> HIDE DEF r
<1>10. \A d : Wakes(e1, d) \/ Wakes(e2, d) => Wakes(r, d)
  BY <1>9, LivesPut
<1>11. Joined(completions, r, completions')
  BY <1>1, <1>9, PutAll DEF TypeOK
<1>12. \A i \in DOMAIN r : /\ r[i].op = "event"
                           /\ r[i].type = "deleted" => type = "deleted" /\ r[i].ds = fired
  BY <1>6, <1>9 DEF Joined
<1>13. \A d \in data_watchers \cup child_watchers :
         \/ d \in data_watchers' \cup child_watchers'
         \/ Wakes(r, d)
         \/ type = "deleted" /\ d[1] = t
  BY <1>1, <1>2, <1>7, <1>8, <1>10
<1>14. Tells(t, type, relist, r)
  BY <1>2, <1>3, <1>4, <1>7, <1>8, <1>10, <1>11, <1>12, <1>13 DEF Tells
<1> QED
  BY <1>9, <1>14

\* What a delivery leaves in the queue: the other messages, and the event for
\* its other watchers.
LEMMA DeliverLeaves ==
    ASSUME TypeOK, NEW d, Delivers(d)
    PROVE  LET e == Head(completions)
           IN  /\ 1 \in DOMAIN completions /\ e = completions[1] /\ e.op = "event" /\ d \in e.ds
               /\ \A i \in DOMAIN completions :
                    i = 1 \/ \E j \in DOMAIN completions' : completions'[j] = completions[i]
               /\ e.ds # {d} => \E j \in DOMAIN completions' :
                    /\ completions'[j].op = "event" /\ completions'[j].type = e.type
                    /\ completions'[j].ds = e.ds \ {d}
               /\ \A j \in DOMAIN completions' :
                    \/ \E i \in DOMAIN completions : completions'[j] = completions[i]
                    \/ /\ completions'[j].op = "event" /\ completions'[j].type = e.type
                       /\ completions'[j].ds = e.ds \ {d}
<1> DEFINE q == completions
           e == Head(q)
           f == [e EXCEPT !.ds = @ \ {d}]
<1>1. /\ q # <<>> /\ e.op = "event" /\ d \in e.ds
      /\ completions' = IF e.ds = {d} THEN Tail(q) ELSE [q EXCEPT ![1].ds = @ \ {d}]
  BY DEF Delivers, Completes
<1>2. /\ 1 \in DOMAIN q /\ e = q[1] /\ e \in EventMsg \cup AnswerMsg
      /\ \A i \in DOMAIN Tail(q) : i + 1 \in DOMAIN q /\ Tail(q)[i] = q[i + 1]
      /\ \A i \in DOMAIN q : i = 1 \/ (i - 1 \in DOMAIN Tail(q) /\ q[i] = Tail(q)[i - 1])
  BY <1>1, TakeHead DEF TypeOK
<1>3. CASE e.ds = {d}
  <2>1. completions' = Tail(q)
    BY <1>1, <1>3
  <2> HIDE DEF q, e
  <2> QED
    BY <1>1, <1>2, <1>3, <2>1 DEF q, e
<1>4. CASE e.ds # {d}
  <2>1. completions' = [q EXCEPT ![1].ds = @ \ {d}]
    BY <1>1, <1>4
  <2>2. /\ DOMAIN completions' = DOMAIN q /\ completions'[1] = f
        /\ \A i \in DOMAIN q : i # 1 => completions'[i] = q[i]
    BY <1>2, <2>1
  <2>3. e = [op |-> "event", ds |-> e.ds, type |-> e.type]
    BY <1>1, <1>2, CompletionFields
  <2>4. f.op = "event" /\ f.type = e.type /\ f.ds = e.ds \ {d}
    BY <2>3
  <2> HIDE DEF f, e
  <2> QED
    BY <1>1, <1>2, <2>2, <2>4 DEF e
<1> QED
  BY <1>3, <1>4


\* What the server does while no removal runs: it answers the oldest request,
\* and a listing or get of a node that is there sets its watch.
LEMMA AnswerShape ==
    ASSUME TypeOK, RemovalInv, ServerStep, removal = "none"
    PROVE  LET h == Head(requests)
           IN  /\ requests # <<>> /\ requests' = Tail(requests) /\ h = requests[1] /\ 1 \in DOMAIN requests
               /\ UNCHANGED <<node, births, eve, chains, last_sub_path, record, removal, view, high>>
               /\ data_watchers \subseteq data_watchers' /\ child_watchers \subseteq child_watchers'
               /\ h.op = "exists" => ExistsData \in data_watchers'
               /\ h.op \in {"list", "get"} =>
                    h.d[1] \in Node /\ (node[h.d[1]] # Absent => h.d \in data_watchers' \cup child_watchers')
               /\ \E m \in AnswerMsg :
                    /\ Joined(completions, <<m>>, completions') /\ DOMAIN <<m>> = {1} /\ <<m>>[1] = m
                    /\ m.op = h.op /\ m.op \in {"exists", "list", "get"}
                    /\ m.op = "exists" => (m.rc <=> node[Parent] # Absent)
                    /\ m.op = "list" => h.d \in ListData /\ m.kids = Present /\ (m.rc <=> node[Parent] # Absent)
                    /\ m.op = "get" => /\ h.d \in GetData /\ m.d = h.d /\ m.val = node[h.d[1]]
                                       /\ m.rc <=> node[h.d[1]] # Absent
<1> DEFINE h == Head(requests)
           Shape(m, op) ==
             /\ Joined(completions, <<m>>, completions') /\ DOMAIN <<m>> = {1} /\ <<m>>[1] = m
             /\ requests # <<>> /\ requests' = Tail(requests) /\ h = requests[1] /\ 1 \in DOMAIN requests
             /\ h \in RequestMsg /\ h.op = op
             /\ UNCHANGED <<node, births, eve, chains, last_sub_path, record, removal, view, high>>
<1>0. /\ Parent \in Node /\ Child \subseteq Node /\ Present \in SUBSET Child
      /\ node[Parent] \in Nat
  BY DEF Node, TypeOK, Present
<1>1. ASSUME NEW op, NEW m \in AnswerMsg, Answers(op, m) PROVE Shape(m, op)
  <2>1. /\ requests # <<>> /\ requests' = Tail(requests) /\ h.op = op
        /\ UNCHANGED <<node, births, eve, chains, last_sub_path, record, removal, view, high>>
    BY <1>1 DEF Answers, listed, remove, told
  <2>2. h = requests[1] /\ 1 \in DOMAIN requests /\ h \in RequestMsg
    BY <2>1, TakeHead DEF TypeOK
  <2> QED
    BY <1>1, <2>1, <2>2, AnswerPut
<1>2. CASE SrvExists
  <2> DEFINE m == [op |-> "exists", rc |-> node[Parent] # Absent]
  <2>1. /\ m \in AnswerMsg /\ Answers("exists", m) /\ m.op = "exists" /\ (m.rc <=> node[Parent] # Absent)
        /\ data_watchers' = data_watchers \cup {ExistsData} /\ child_watchers' = child_watchers
    BY <1>2 DEF SrvExists, AnswerMsg
  <2> HIDE DEF m
  <2>2. Shape(m, "exists")
    BY <1>1, <2>1
  <2> QED
    BY <2>1, <2>2
<1>3. CASE SrvList
  <2> DEFINE m == [op |-> "list", d |-> h.d, rc |-> node[Parent] # Absent, kids |-> Present]
  <2>1. /\ Answers("list", m) /\ m.op = "list" /\ m.kids = Present /\ (m.rc <=> node[Parent] # Absent)
        /\ data_watchers' = data_watchers
        /\ child_watchers' = IF node[Parent] # Absent THEN child_watchers \cup {h.d} ELSE child_watchers
    BY <1>3 DEF SrvList
  <2>2. h.d \in ListData
    BY <2>1, First, RequestFields DEF Answers
  <2>3. m \in AnswerMsg /\ h.d[1] = Parent
    BY <1>0, <2>2 DEF AnswerMsg, ListData
  <2> HIDE DEF m
  <2>4. Shape(m, "list")
    BY <1>1, <2>1, <2>3
  <2> HIDE DEF h
  <2> QED
    BY <1>0, <2>1, <2>2, <2>3, <2>4 DEF h
<1>4. CASE SrvGet
  <2> DEFINE m == [op |-> "get", d |-> h.d, rc |-> node[h.d[1]] # Absent, val |-> node[h.d[1]]]
  <2>1. /\ Answers("get", m) /\ m.op = "get" /\ m.d = h.d /\ m.val = node[h.d[1]]
        /\ m.rc <=> node[h.d[1]] # Absent
        /\ child_watchers' = child_watchers
        /\ data_watchers' = IF node[h.d[1]] # Absent THEN data_watchers \cup {h.d} ELSE data_watchers
    BY <1>4 DEF SrvGet
  <2>2. h.d \in GetData
    BY <2>1, First, RequestFields DEF Answers
  <2>3. h.d[1] \in Node /\ node[h.d[1]] \in Nat
    BY <1>0, <2>2 DEF GetData, TypeOK
  <2>4. m \in AnswerMsg
    BY <2>2, <2>3 DEF AnswerMsg
  <2> HIDE DEF m
  <2>5. Shape(m, "get")
    BY <1>1, <2>1, <2>4
  <2> HIDE DEF h
  <2> QED
    BY <2>1, <2>2, <2>3, <2>4, <2>5 DEF h
<1>5. CASE SrvPlainList \/ SrvRemoveWatches
  <2>1. requests # <<>> /\ h.op \in {"plain_list", "remove"}
    BY <1>5 DEF SrvPlainList, SrvRemoveWatches, Answers
  <2>2. ~None(requests, "removal")
    BY <2>1, TakeHead DEF TypeOK, None, At, Is
  <2> QED
    BY <2>2 DEF RemovalInv
<1> QED
  BY <1>2, <1>3, <1>4, <1>5 DEF ServerStep


\* What another client's transaction does.
LEMMA OthersShape ==
    ASSUME TypeOK, BackedInv, OtherClients
    PROVE  \E t \in Node, type \in {"created", "changed", "deleted"}, relist \in BOOLEAN :
             /\ Trigger(t, type, relist)
             /\ UNCHANGED <<requests, eve, chains, last_sub_path, record, removal, view, high>>
             /\ \A u \in Node \ {t} : node'[u] = node[u] /\ births'[u] = births[u]
             /\ node[t] = Absent <=> type = "created"
             /\ node'[t] = Absent <=> type = "deleted"
             /\ births'[t] = IF type = "created" THEN births[t] + 1 ELSE births[t]
             /\ relist <=> t # Parent /\ type # "changed"
             /\ \E r \in Seq(EventMsg \cup AnswerMsg) : Tells(t, type, relist, r)
<1> DEFINE Happens(t, type, relist) ==
             /\ Trigger(t, type, relist)
             /\ UNCHANGED <<requests, eve, chains, last_sub_path, record, removal, view, high>>
             /\ \A u \in Node \ {t} : node'[u] = node[u] /\ births'[u] = births[u]
             /\ node[t] = Absent <=> type = "created"
             /\ node'[t] = Absent <=> type = "deleted"
             /\ births'[t] = IF type = "created" THEN births[t] + 1 ELSE births[t]
             /\ relist <=> t # Parent /\ type # "changed"
<1>1. \E t \in Node, type \in {"created", "changed", "deleted"}, relist \in BOOLEAN :
        Happens(t, type, relist)
  <2> PICK t \in Node : SrvWrite(t) \/ SrvDelete(t)
    BY DEF OtherClients
  <2>1. CASE SrvWrite(t)
    <3> DEFINE created == node[t] = Absent
               type == IF created THEN "created" ELSE "changed"
               relist == created /\ t # Parent
    <3>1. /\ node' = [node EXCEPT ![t] = zxid + 1]
          /\ births' = [births EXCEPT ![t] = IF created THEN births[t] + 1 ELSE births[t]]
          /\ Trigger(t, type, relist)
          /\ UNCHANGED <<requests, eve, chains, last_sub_path, record, removal, view, high>>
      BY <2>1 DEF SrvWrite, listed, remove, told
    <3>2. node'[t] # Absent
      BY <3>1 DEF TypeOK, Absent
    <3>3. type \in {"created", "changed", "deleted"} /\ relist \in BOOLEAN
      OBVIOUS
    <3>4. Happens(t, type, relist)
      BY <3>1, <3>2 DEF TypeOK
    <3> HIDE DEF type, relist, Happens
    <3> QED
      BY <3>3, <3>4
  <2>2. CASE SrvDelete(t)
    <3>1. /\ node' = [node EXCEPT ![t] = Absent] /\ births' = births /\ node[t] # Absent
          /\ Trigger(t, "deleted", t # Parent)
          /\ UNCHANGED <<requests, eve, chains, last_sub_path, record, removal, view, high>>
      BY <2>2 DEF SrvDelete, listed, remove, told
    <3>2. Happens(t, "deleted", t # Parent)
      BY <3>1 DEF TypeOK
    <3>3. (t # Parent) \in BOOLEAN
      OBVIOUS
    <3> HIDE DEF Happens
    <3> QED
      BY <3>2, <3>3
  <2> QED
    BY <2>1, <2>2
<1> HIDE DEF Happens
<1>2. PICK t \in Node, type \in {"created", "changed", "deleted"}, relist \in BOOLEAN :
        Happens(t, type, relist)
  BY <1>1
<1>3. Trigger(t, type, relist)
  BY <1>2 DEF Happens
<1>4. \E r \in Seq(EventMsg \cup AnswerMsg) : Tells(t, type, relist, r)
  BY <1>3, TriggerPut
<1> QED
  BY <1>2, <1>4 DEF Happens

\* What the delivery of an event to one watcher does.
LEMMA DeliverShape ==
    ASSUME TypeOK, NEW d, (RunExistsWatcher /\ d = ExistsData) \/ RunListWatcher(d) \/ RunGetWatcher(d)
    PROVE  LET e == Head(completions)
           IN  /\ Delivers(d) /\ d \in UserData
               /\ UNCHANGED <<node, births, chains, last_sub_path, record, removal, high,
                              data_watchers, child_watchers>>
               /\ d = ExistsData => eve' = e.type
               /\ d # ExistsData => eve' = eve
               /\ \A c \in Child : view'[c] = view[c] \/ (view'[c] = Deleted /\ Ending(e, c))
               /\ \E r \in Seq(RequestMsg) :
                    /\ Joined(requests, r, requests')
                    /\ d = ExistsData => ~None(r, "exists")
                    /\ d # ExistsData /\ e.type # "deleted" => Asks(r, d)
<1> DEFINE e == Head(completions)
<1>0. requests \in Seq(RequestMsg) /\ requests \o <<>> = requests /\ <<>> \in Seq(RequestMsg)
  BY ConcatEmptySeq DEF TypeOK
<1>1. /\ Delivers(d) /\ d \in UserData /\ d \in e.ds /\ e.op = "event"
      /\ UNCHANGED <<node, births, chains, last_sub_path, record, removal, data_watchers, child_watchers>>
  <2>1. Delivers(d)
    BY DEF RunExistsWatcher, RunListWatcher, RunGetWatcher
  <2> QED
    BY <2>1, Delivered DEF Delivers, server, listed, remove, tables
<1>2. CASE RunExistsWatcher /\ d = ExistsData
  <2> DEFINE r == <<Request("exists", ExistsData)>>
  <2>1. requests' = requests \o r /\ UNCHANGED told /\ eve' = e.type
    BY <1>2 DEF RunExistsWatcher, Send
  <2>2. r \in Seq(RequestMsg)
    BY DEF Request, RequestMsg
  <2>3. 1 \in At(r, "exists")
    BY DEF Request, At, Is
  <2> HIDE DEF r, e
  <2>4. Joined(requests, r, requests')
    BY <1>0, <2>1, <2>2, PutAll
  <2> QED
    BY <1>1, <1>2, <2>1, <2>2, <2>3, <2>4 DEF told, None, e
<1>3. CASE RunListWatcher(d)
  <2> DEFINE r == IF ListsAgain(e.type) THEN <<Request("list", d)>> ELSE <<>>
  <2>1. IsList(d) /\ requests' = requests \o r /\ UNCHANGED <<told, eve>>
    BY <1>3 DEF RunListWatcher, Send
  <2>2. d \in ListData /\ d # ExistsData
    BY <1>1, <2>1 DEF UserData, ListData, GetData, ExistsData, IsList
  <2>3. Request("list", d) \in RequestMsg
    BY <2>2 DEF Request, RequestMsg
  <2>4. r \in Seq(RequestMsg)
    BY <1>0, <2>3, OneMessage
  <2>5. e.type # "deleted" => Asks(r, d)
    <3> SUFFICES ASSUME r = <<Request("list", d)>> PROVE Asks(r, d)
      BY DEF ListsAgain
    <3>1. 1 \in DOMAIN r /\ r[1].op = "list" /\ r[1].d = d
      BY DEF Request
    <3> QED
      BY <3>1 DEF Asks
  <2> HIDE DEF r, e
  <2>6. Joined(requests, r, requests')
    BY <1>0, <2>1, <2>4, PutAll
  <2> QED
    BY <1>1, <2>1, <2>2, <2>4, <2>5, <2>6 DEF told, e
<1>4. CASE RunGetWatcher(d)
  <2> DEFINE r == IF e.type = "deleted" THEN <<>> ELSE <<Request("get", d)>>
  <2>1. /\ IsGet(d) /\ UNCHANGED <<eve, high>> /\ requests' = requests \o r
        /\ UNCHANGED view \/ (e.type = "deleted" /\ view' = [view EXCEPT ![d[1]] = Deleted])
    BY <1>0, <1>4 DEF RunGetWatcher, Send
  <2>2. d \in GetData /\ d # ExistsData
    BY <1>1, <2>1 DEF UserData, ListData, GetData, ExistsData, IsGet
  <2>3. Request("get", d) \in RequestMsg
    BY <2>2 DEF Request, RequestMsg
  <2>4. r \in Seq(RequestMsg)
    BY <1>0, <2>3, OneMessage
  <2>5. e.type # "deleted" => Asks(r, d)
    <3> SUFFICES ASSUME r = <<Request("get", d)>> PROVE Asks(r, d)
      OBVIOUS
    <3>1. 1 \in DOMAIN r /\ r[1].op = "get" /\ r[1].d = d
      BY DEF Request
    <3> QED
      BY <3>1 DEF Asks
  <2>6. \A c \in Child : view'[c] = view[c] \/ (view'[c] = Deleted /\ Ending(e, c))
    BY <1>1, <2>1 DEF TypeOK, Ending
  <2> HIDE DEF r, e
  <2>7. Joined(requests, r, requests')
    BY <1>0, <2>1, <2>4, PutAll
  <2> QED
    BY <1>1, <2>1, <2>2, <2>4, <2>5, <2>6, <2>7 DEF e
<1> QED
  BY <1>2, <1>3, <1>4

-----------------------------------------------------------------------------
(***************************************************************************)
(* Deletions that are reported.                                            *)
(***************************************************************************)
\* A deletion of c is on the way, or has been reported, only after c was
\* created and, if it was created once, only when it is gone.
Endings(c) ==
    /\ births[c] = 0 => node[c] = Absent /\ view[c] # Deleted
    /\ births[c] = 0 \/ Steady(c) => \A i \in DOMAIN completions : ~Ending(completions[i], c)
    /\ births[c] = 1 /\ view[c] = Deleted => node[c] = Absent

\* No deletion of c is put into the queue, and c is neither created nor
\* deleted.
LEMMA EndingsSame ==
    ASSUME TypeOK, NEW c \in Child, Endings(c), births'[c] = births[c],
           node'[c] = Absent <=> node[c] = Absent,
           \A j \in DOMAIN completions' :
             Ending(completions'[j], c) => \E i \in DOMAIN completions : Ending(completions[i], c),
           \/ view'[c] = view[c]
           \/ view'[c] # Deleted
           \/ \E i \in DOMAIN completions : Ending(completions[i], c)
    PROVE  Endings(c)'
  BY DEF Endings, Steady

\* The server answers one request.
LEMMA AnswerIs ==
    ASSUME TypeOK, ServerStep
    PROVE  \E m \in AnswerMsg :
             /\ Joined(completions, <<m>>, completions') /\ DOMAIN <<m>> = {1} /\ <<m>>[1] = m
             /\ m.op # "event"
             /\ UNCHANGED <<node, births, view>>
<1>0. Present \in SUBSET Child /\ node \in [Node -> Nat] /\ Child \subseteq Node
  BY DEF Present, TypeOK, Node
<1>1. ASSUME NEW op, NEW m \in AnswerMsg, Answers(op, m)
      PROVE  /\ Joined(completions, <<m>>, completions') /\ DOMAIN <<m>> = {1} /\ <<m>>[1] = m
             /\ m.op # "event"
             /\ UNCHANGED <<node, births, view>>
  BY <1>1, AnswerPut DEF Answers, told, AnswerMsg
<1>2. \E op : \E m \in AnswerMsg : Answers(op, m)
  <2>1. CASE SrvExists
    BY <2>1 DEF SrvExists, AnswerMsg
  <2>2. CASE SrvList
    <3> DEFINE d == Head(requests).d
               m == [op |-> "list", d |-> d, rc |-> node[Parent] # Absent, kids |-> Present]
    <3>1. Answers("list", m)
      BY <2>2 DEF SrvList
    <3>2. d \in ListData
      BY <3>1, First, RequestFields DEF Answers
    <3>3. m \in AnswerMsg
      BY <1>0, <3>2 DEF AnswerMsg
    <3> QED
      BY <3>1, <3>3
  <2>3. CASE SrvGet
    <3> DEFINE d == Head(requests).d
               m == [op |-> "get", d |-> d, rc |-> node[d[1]] # Absent, val |-> node[d[1]]]
    <3>1. Answers("get", m)
      BY <2>3 DEF SrvGet
    <3>2. d \in GetData
      BY <3>1, First, RequestFields DEF Answers
    <3>3. d[1] \in Node /\ node[d[1]] \in Nat
      BY <1>0, <3>2 DEF GetData
    <3>4. m \in AnswerMsg
      BY <3>2, <3>3 DEF AnswerMsg
    <3> QED
      BY <3>1, <3>4
  <2>4. CASE SrvPlainList
    <3>1. [op |-> "plain_list", rc |-> node[Parent] # Absent, kids |-> Present] \in AnswerMsg
      BY <1>0 DEF AnswerMsg
    <3> QED
      BY <2>4, <3>1 DEF SrvPlainList
  <2>5. CASE SrvRemoveWatches
    <3>1. [op |-> "remove"] \in AnswerMsg
      BY DEF AnswerMsg
    <3> QED
      BY <2>5, <3>1 DEF SrvRemoveWatches
  <2> QED
    BY <2>1, <2>2, <2>3, <2>4, <2>5 DEF ServerStep
<1> QED
  BY <1>1, <1>2

\* Every step keeps the deletions of c as Endings says.
LEMMA EndingsStep ==
    ASSUME TypeOK, BackedInv, NEW c \in Child, Forward(c), Endings(c), [Next]_vars
    PROVE  Endings(c)'
<1>0. /\ c \in Node /\ c # Parent
      /\ births[c] \in Nat /\ node[c] \in Nat
      /\ completions \in Seq(EventMsg \cup AnswerMsg)
  BY DEF TypeOK, Node
<1>1. CASE OtherClients
  <2>1. PICK t \in Node, type \in {"created", "changed", "deleted"}, relist \in BOOLEAN :
          /\ UNCHANGED <<requests, eve, chains, last_sub_path, record, removal, view, high>>
          /\ \A u \in Node \ {t} : node'[u] = node[u] /\ births'[u] = births[u]
          /\ node[t] = Absent <=> type = "created"
          /\ node'[t] = Absent <=> type = "deleted"
          /\ births'[t] = IF type = "created" THEN births[t] + 1 ELSE births[t]
          /\ \E r \in Seq(EventMsg \cup AnswerMsg) : Tells(t, type, relist, r)
    BY <1>1, OthersShape
  <2>2. PICK r \in Seq(EventMsg \cup AnswerMsg) : Tells(t, type, relist, r)
    BY <2>1
  <2>3. \A j \in DOMAIN completions' :
          \/ \E i \in DOMAIN completions : completions'[j] = completions[i]
          \/ \E i \in DOMAIN r : completions'[j] = r[i]
    BY <2>2 DEF Tells, Joined
  <2>4. \A i \in DOMAIN r : Ending(r[i], c) => t = c /\ type = "deleted"
    BY <2>2 DEF Tells, Ending
  <2>5. CASE t = c /\ type = "created"
    <3>1. births'[c] = births[c] + 1 /\ view'[c] = view[c]
      BY <2>1, <2>5
    <3>2. births'[c] = 1 => births[c] = 0
      BY <1>0, <3>1
    <3>3. births'[c] # 0
      BY <1>0, <3>1
    <3>4. births'[c] = 1 => \A j \in DOMAIN completions' : ~Ending(completions'[j], c)
      BY <2>3, <2>4, <2>5, <3>2 DEF Endings
    <3> QED
      BY <3>1, <3>2, <3>3, <3>4 DEF Endings, Steady
  <2>6. CASE t = c /\ type = "deleted"
    BY <2>1, <2>6 DEF Endings, Steady
  <2>7. CASE ~(t = c /\ type # "changed")
    <3>1. births'[c] = births[c] /\ (node'[c] = Absent <=> node[c] = Absent) /\ view'[c] = view[c]
      BY <1>0, <2>1, <2>7
    <3> QED
      BY <2>3, <2>4, <2>7, <3>1, EndingsSame
  <2> QED
    BY <2>5, <2>6, <2>7
<1>2. CASE ServerStep
  <2> PICK m \in AnswerMsg :
        /\ Joined(completions, <<m>>, completions') /\ DOMAIN <<m>> = {1} /\ <<m>>[1] = m
        /\ m.op # "event"
        /\ UNCHANGED <<node, births, view>>
    BY <1>2, AnswerIs
  <2>1. \A j \in DOMAIN completions' :
          completions'[j] = m \/ \E i \in DOMAIN completions : completions'[j] = completions[i]
    BY DEF Joined
  <2> QED
    BY <2>1, EndingsSame DEF Ending
<1>3. ASSUME NEW d, (RunExistsWatcher /\ d = ExistsData) \/ RunListWatcher(d) \/ RunGetWatcher(d)
      PROVE  Endings(c)'
  <2>1. /\ Delivers(d) /\ UNCHANGED <<node, births>>
        /\ view'[c] = view[c] \/ (view'[c] = Deleted /\ Ending(Head(completions), c))
    BY <1>3, DeliverShape
  <2> DEFINE e == Head(completions)
  <2>2. /\ 1 \in DOMAIN completions /\ e = completions[1] /\ e.op = "event"
        /\ \A j \in DOMAIN completions' :
             \/ \E i \in DOMAIN completions : completions'[j] = completions[i]
             \/ /\ completions'[j].op = "event" /\ completions'[j].type = e.type
                /\ completions'[j].ds = e.ds \ {d}
    BY <2>1, DeliverLeaves
  <2> HIDE DEF e
  <2>3. \A j \in DOMAIN completions' :
          Ending(completions'[j], c) => \E i \in DOMAIN completions : Ending(completions[i], c)
    BY <2>2 DEF Ending
  <2>4. view'[c] = view[c] \/ \E i \in DOMAIN completions : Ending(completions[i], c)
    BY <2>1, <2>2 DEF e
  <2> QED
    BY <2>1, <2>3, <2>4, EndingsSame
<1>4. CASE RunExists \/ RunList \/ RunGet \/ RunPlainList \/ RunRemove
  <2>1. /\ completions # <<>> /\ completions' = Tail(completions) /\ UNCHANGED <<node, births>>
        /\ RunGet \/ UNCHANGED view
    BY <1>4 DEF RunExists, RunList, RunGet, RunPlainList, RunRemove, Completes, server, told
  <2>2. \A j \in DOMAIN completions' : \E i \in DOMAIN completions : completions'[j] = completions[i]
    BY <1>0, <2>1, TakeHead
  <2>3. view'[c] = view[c] \/ view'[c] # Deleted
    <3> SUFFICES ASSUME RunGet PROVE view'[c] = view[c] \/ view'[c] # Deleted
      BY <2>1
    <3> DEFINE m == Head(completions)
    <3>1. /\ m = completions[1] /\ 1 \in DOMAIN completions /\ m.val \in Nat
          /\ ~m.rc => UNCHANGED told
          /\ m.rc => Value(m, m.d[1]) /\ view' = [view EXCEPT ![m.d[1]] = m.val]
      BY GetReports
    <3> HIDE DEF m
    <3>2. Value(m, c) => m.val > 0
      BY <3>1 DEF Forward, ValuesForward
    <3>3. CASE m.rc /\ m.d[1] = c
      BY <3>1, <3>2, <3>3 DEF TypeOK, Deleted
    <3>4. CASE ~m.rc \/ m.d[1] # c
      BY <3>1, <3>4 DEF TypeOK, told
    <3> QED
      BY <3>3, <3>4
  <2> QED
    BY <2>1, <2>2, <2>3, EndingsSame
<1>5. CASE WatchSubPath \/ RemoveWatches \/ UNCHANGED vars
  <2>1. UNCHANGED <<completions, node, births, view>>
    BY <1>5 DEF WatchSubPath, RemoveWatches, vars, server, told
  <2> QED
    BY <2>1 DEF Endings, Steady
<1>6. CASE Expire
  <2>1. completions' = <<>> /\ UNCHANGED <<node, births, view>>
    BY <1>6 DEF Expire, told
  <2> QED
    BY <2>1 DEF Endings, Steady
<1> QED
  BY <1>1, <1>2, <1>3, <1>4, <1>5, <1>6 DEF Next, CompletionStep

EndingsInv == ForwardInv /\ \A c \in Child : Endings(c)

\* Deletions are as Endings says in every reachable state.
LEMMA EndingsHold == Spec => []EndingsInv
<1>1. Init => \A c \in Child : Endings(c)
  <2> SUFFICES ASSUME Init PROVE \A c \in Child : Endings(c)
    OBVIOUS
  <2>1. \A c \in Child : node[c] = Absent /\ births[c] = 0 /\ view[c] = Unheard
    BY DEF Init, Node
  <2>2. DOMAIN completions = {}
    BY DEF Init
  <2> QED
    BY <2>1, <2>2 DEF Endings, Unheard, Deleted
<1>2. EndingsInv /\ [Next]_vars => (\A c \in Child : Endings(c))'
  BY EndingsStep DEF EndingsInv, ForwardInv, ListerInv, TypeInv
<1> QED
  BY <1>1, <1>2, ForwardHolds, PTL DEF Spec, EndingsInv

\* A child that was created once and was reported as deleted is gone: its get
\* chains are the only ones that report a deletion, only a deletion of the
\* child itself ends them, and one created only once does not come back
\* (config_monitor.hpp:289-301).
THEOREM ReportedDeletionsAreTrue == Spec => []DeletionsTrue
<1>1. EndingsInv => DeletionsTrue
  BY DEF EndingsInv, Endings, DeletionsTrue
<1> QED
  BY <1>1, EndingsHold, PTL

-----------------------------------------------------------------------------
(***************************************************************************)
(* The chains go on.                                                       *)
(***************************************************************************)
\* What the answer m that is completed starts, by the requests r.
Begins(m, r) ==
    /\ Joined(requests, r, requests')
    /\ \A t \in Node :
         chains'[t] = chains[t] \/ (chains'[t] = chains[t] + 1 /\ Asks(r, <<t, chains[t] + 1>>))
    /\ chains'[Parent] = IF m.op = "exists" /\ m.rc /\ Starts(eve) THEN chains[Parent] + 1
                         ELSE chains[Parent]
    /\ last_sub_path' = IF m.op = "list" /\ m.rc THEN m.kids ELSE last_sub_path

\* What the completion of an answer does.
LEMMA RunShape ==
    ASSUME TypeOK, RunExists \/ RunList \/ RunGet
    PROVE  LET m == Head(completions)
           IN  /\ completions # <<>> /\ completions' = Tail(completions)
               /\ m = completions[1] /\ 1 \in DOMAIN completions
               /\ m.op \in {"exists", "list", "get"}
               /\ m.op = "exists" => m.rc \in BOOLEAN
               /\ UNCHANGED <<node, births, eve, record, removal, data_watchers, child_watchers>>
               /\ \A c \in Child :
                    view'[c] = IF Value(m, c) THEN m.val ELSE view[c]
               /\ \E r \in Seq(RequestMsg) : Begins(m, r)
<1> DEFINE m == Head(completions)
<1>0. /\ Parent \in Node /\ Child \subseteq Node /\ Node = Child \cup {Parent}
      /\ chains \in [Node -> Nat] /\ requests \in Seq(RequestMsg)
      /\ requests \o <<>> = requests /\ <<>> \in Seq(RequestMsg)
  BY ConcatEmptySeq DEF TypeOK, Node
<1>1. /\ completions # <<>> /\ completions' = Tail(completions)
      /\ UNCHANGED <<node, births, eve, record, removal, data_watchers, child_watchers>>
      /\ m.op \in {"exists", "list", "get"}
      /\ m.op # "get" => UNCHANGED view
      /\ RunExists <=> m.op = "exists"
      /\ RunList <=> m.op = "list"
      /\ RunGet <=> m.op = "get"
  BY DEF RunExists, RunList, RunGet, Completes, server, remove, tables, told
<1>2. m = completions[1] /\ 1 \in DOMAIN completions /\ m \in EventMsg \cup AnswerMsg
  BY <1>1, TakeHead DEF TypeOK
<1>3. m.op = "exists" => m.rc \in BOOLEAN
  BY <1>2, CompletionFields
<1>4. ASSUME NEW c \in Child PROVE view'[c] = IF Value(m, c) THEN m.val ELSE view[c]
  <2>1. CASE RunGet
    <3>1. m.op = "get" /\ (m.rc => view' = [view EXCEPT ![m.d[1]] = m.val]) /\ (~m.rc => view' = view)
      BY <2>1 DEF RunGet, Completes, told
    <3> HIDE DEF m
    <3> QED
      BY <3>1 DEF TypeOK, Value
  <2>2. CASE ~RunGet
    BY <1>1, <2>2 DEF Value
  <2> QED
    BY <2>1, <2>2
<1>5. CASE RunExists
  <2> DEFINE first == m.rc /\ Starts(eve)
             d == <<Parent, chains[Parent] + 1>>
             r == IF first THEN <<Request("list", d)>> ELSE <<>>
  <2>1. /\ m.op = "exists" /\ requests' = requests \o r /\ last_sub_path' = last_sub_path
        /\ chains' = IF first THEN [chains EXCEPT ![Parent] = chains[Parent] + 1] ELSE chains
    BY <1>5 DEF RunExists, Completes, Send
  <2>2. Request("list", d) \in RequestMsg
    BY <1>0 DEF ListData, Request, RequestMsg
  <2>3. r \in Seq(RequestMsg)
    BY <1>0, <2>2, OneMessage
  <2>4. first => Asks(r, d)
    <3> SUFFICES ASSUME r = <<Request("list", d)>> PROVE Asks(r, d)
      OBVIOUS
    <3>1. 1 \in DOMAIN r /\ r[1].op = "list" /\ r[1].d = d
      BY DEF Request
    <3> QED
      BY <3>1 DEF Asks
  <2> HIDE DEF r
  <2>5. Joined(requests, r, requests')
    BY <1>0, <2>1, <2>3, PutAll
  <2>6. \A t \in Node :
          chains'[t] = chains[t] \/ (chains'[t] = chains[t] + 1 /\ Asks(r, <<t, chains[t] + 1>>))
    BY <1>0, <2>1, <2>4
  <2>7. chains'[Parent] = IF first THEN chains[Parent] + 1 ELSE chains[Parent]
    BY <1>0, <2>1
  <2> HIDE DEF m
  <2>8. Begins(m, r)
    BY <2>1, <2>5, <2>6, <2>7 DEF Begins
  <2> QED
    BY <1>1, <1>2, <1>3, <1>4, <2>3, <2>8 DEF m
<1>6. CASE RunList
  <2>1. /\ m.op = "list" /\ m.kids \in SUBSET Child
        /\ ~m.rc => UNCHANGED <<requests, chains, last_sub_path>>
        /\ m.rc =>
             /\ last_sub_path' = m.kids
             /\ \A c \in Child : chains'[c] =
                  IF c \in m.kids /\ c \notin last_sub_path THEN chains[c] + 1 ELSE chains[c]
             /\ \E r \in Seq(RequestMsg) :
                  /\ requests' = requests \o r
                  /\ \A c \in m.kids \ last_sub_path :
                       \E i \in DOMAIN r : r[i].op = "get" /\ r[i].d = <<c, chains[c] + 1>>
    BY <1>6, ListStarts
  <2>2. chains'[Parent] = chains[Parent]
    <3>1. m.rc => chains' = [t \in Node |-> IF t \in New(m.kids) THEN chains[t] + 1 ELSE chains[t]]
      BY <1>6 DEF RunList
    <3>2. Parent \notin New(m.kids)
      BY <2>1 DEF New
    <3> QED
      BY <1>0, <2>1, <3>1, <3>2
  <2> HIDE DEF m
  <2>3. CASE ~m.rc
    <3>0. requests' = requests \o <<>>
      BY <1>0, <2>1, <2>3
    <3>1. Joined(requests, <<>>, requests')
      BY <1>0, <3>0, PutAll
    <3>2. Begins(m, <<>>)
      BY <2>1, <2>3, <3>1 DEF Begins
    <3> QED
      BY <1>0, <1>1, <1>2, <1>3, <1>4, <3>2 DEF m
  <2>4. CASE m.rc
    <3>1. PICK r \in Seq(RequestMsg) :
            /\ requests' = requests \o r
            /\ \A c \in m.kids \ last_sub_path :
                 \E i \in DOMAIN r : r[i].op = "get" /\ r[i].d = <<c, chains[c] + 1>>
      BY <2>1, <2>4
    <3>2. Joined(requests, r, requests')
      BY <1>0, <3>1, PutAll
    <3>3. ASSUME NEW t \in Node
          PROVE  chains'[t] = chains[t] \/ (chains'[t] = chains[t] + 1 /\ Asks(r, <<t, chains[t] + 1>>))
      <4>1. CASE t \in m.kids \ last_sub_path
        <5>1. Asks(r, <<t, chains[t] + 1>>)
          BY <3>1, <4>1 DEF Asks
        <5> QED
          BY <2>1, <2>4, <4>1, <5>1
      <4>2. CASE t \notin m.kids \ last_sub_path
        BY <1>0, <2>1, <2>2, <2>4, <4>2
      <4> QED
        BY <4>1, <4>2
    <3>4. Begins(m, r)
      BY <2>1, <2>2, <2>4, <3>2, <3>3 DEF Begins
    <3>5. r \in Seq(RequestMsg)
      BY <3>1
    <3> QED
      BY <1>1, <1>2, <1>3, <1>4, <3>4, <3>5 DEF m
  <2> QED
    BY <2>3, <2>4
<1>7. CASE RunGet
  <2>1. m.op = "get" /\ UNCHANGED <<requests, chains, last_sub_path>>
    BY <1>7 DEF RunGet, Completes, listed
  <2> HIDE DEF m
  <2>2. Joined(requests, <<>>, requests')
    BY <1>0, <2>1, PutAll
  <2>3. Begins(m, <<>>)
    BY <2>1, <2>2 DEF Begins
  <2> QED
    BY <1>0, <1>1, <1>2, <1>3, <1>4, <2>3 DEF m
<1> QED
  BY <1>5, <1>6, <1>7

\* A step after which no removal has begun is one of these.
Delivery == \E d : (RunExistsWatcher /\ d = ExistsData) \/ RunListWatcher(d) \/ RunGetWatcher(d)
Answered == RunExists \/ RunList \/ RunGet

LEMMA CalmStep ==
    ASSUME TypeOK, RemovalInv, [Next]_vars, removal' = "none"
    PROVE  /\ removal = "none"
           /\ \/ OtherClients \/ ServerStep \/ Delivery \/ Answered
              \/ WatchSubPath \/ Expire \/ UNCHANGED vars
<1>1. CASE RunPlainList \/ RunRemove
  <2>1. completions # <<>> /\ Head(completions).op \in {"plain_list", "remove"}
    BY <1>1 DEF RunPlainList, RunRemove, Completes
  <2>2. ~None(completions, "removal")
    BY <2>1, TakeHead DEF TypeOK, None, At, Is
  <2>3. removal # "none"
    BY <2>2 DEF RemovalInv
  <2> QED
    BY <1>1, <2>3 DEF RunPlainList, RunRemove, RemovalDone
<1>2. ~RemoveWatches
  BY DEF RemoveWatches
<1>3. CASE OtherClients
  BY <1>3 DEF OtherClients, SrvWrite, SrvDelete, remove
<1>4. CASE ServerStep
  BY <1>4 DEF ServerStep, SrvExists, SrvList, SrvGet, SrvPlainList, SrvRemoveWatches, Answers, remove
<1>5. ASSUME NEW d, Delivers(d) PROVE removal = "none"
  BY <1>5 DEF Delivers, remove
<1>6. CASE Delivery
  BY <1>5, <1>6 DEF Delivery, RunExistsWatcher, RunListWatcher, RunGetWatcher
<1>7. CASE Answered
  BY <1>7 DEF Answered, RunExists, RunList, RunGet, remove
<1>8. CASE WatchSubPath \/ UNCHANGED vars
  BY <1>8 DEF WatchSubPath, vars, remove
<1>9. CASE Expire
  BY <1>9 DEF Expire
<1> QED
  BY <1>1, <1>2, <1>3, <1>4, <1>6, <1>7, <1>8, <1>9 DEF Next, CompletionStep, Delivery, Answered

\* What the answer to the oldest request leaves of the chain of d.
LEMMA ChainServer ==
    ASSUME TypeOK, RemovalInv, ServerStep, removal = "none", NEW d
    PROVE  /\ Pending(d) => Pending(d)' \/ (Head(requests).op \in {"list", "get"} /\ Head(requests).d = d)
           /\ Lives(d) /\ node[d[1]] # Absent => Lives(d)'
<1> DEFINE h == Head(requests)
<1>1. /\ requests # <<>> /\ requests' = Tail(requests)
      /\ data_watchers \subseteq data_watchers' /\ child_watchers \subseteq child_watchers'
      /\ h.op \in {"list", "get"} =>
           (node[h.d[1]] # Absent => h.d \in data_watchers' \cup child_watchers')
      /\ \E m \in AnswerMsg : Joined(completions, <<m>>, completions')
  BY AnswerShape
<1>2. Wakes(completions, d) => Wakes(completions', d)
  BY <1>1, LivesPut
<1>3. Asks(requests, d) /\ ~(h.op \in {"list", "get"} /\ h.d = d) => Asks(requests', d)
  BY <1>1, LivesTake DEF TypeOK
<1> HIDE DEF h
<1>4. Pending(d) => Pending(d)' \/ (h.op \in {"list", "get"} /\ h.d = d)
  BY <1>2, <1>3 DEF Pending
<1>5. Lives(d) /\ node[d[1]] # Absent => Lives(d)'
  <2>1. Lives(d)' <=> Pending(d)' \/ d \in data_watchers' \cup child_watchers'
    BY <1>1 DEF Lives, Pending, Asks, Wakes
  <2> QED
    BY <1>1, <1>4, <2>1, LivesPending
<1> QED
  BY <1>4, <1>5 DEF h

\* Nothing else takes what is pending, and only the end of its node ends a
\* chain.
LEMMA ChainGoes ==
    ASSUME TypeOK, BackedInv, OtherClients \/ Delivery \/ Answered \/ WatchSubPath \/ UNCHANGED vars,
           NEW d, d # ExistsData
    PROVE  /\ Pending(d) => Pending(d)'
           /\ Lives(d) /\ node'[d[1]] # Absent => Lives(d)'
<1>0. completions \in Seq(EventMsg \cup AnswerMsg) /\ requests \in Seq(RequestMsg)
  BY DEF TypeOK
<1>1. Lives(d)' <=> Pending(d)' \/ d \in data_watchers' \cup child_watchers'
  BY DEF Lives, Pending, Asks, Wakes
<1>2. CASE OtherClients
  <2>1. PICK t \in Node, type \in {"created", "changed", "deleted"}, relist \in BOOLEAN :
          /\ UNCHANGED <<requests, eve, chains, last_sub_path, record, removal, view, high>>
          /\ node'[t] = Absent <=> type = "deleted"
          /\ \E r \in Seq(EventMsg \cup AnswerMsg) : Tells(t, type, relist, r)
    BY <1>2, OthersShape
  <2>2. PICK r \in Seq(EventMsg \cup AnswerMsg) : Tells(t, type, relist, r)
    BY <2>1
  <2>3. Wakes(completions, d) \/ Wakes(r, d) => Wakes(completions', d)
    BY <2>2, LivesPut DEF Tells
  <2>4. Pending(d) => Pending(d)'
    BY <2>1, <2>3 DEF Pending
  <2>5. d \in data_watchers \cup child_watchers /\ node'[d[1]] # Absent =>
          d \in data_watchers' \cup child_watchers' \/ Wakes(r, d)
    BY <2>1, <2>2 DEF Tells
  <2> QED
    BY <1>1, <2>3, <2>4, <2>5, LivesPending DEF Pending
<1>3. CASE Delivery
  <2>1. PICK x : (RunExistsWatcher /\ x = ExistsData) \/ RunListWatcher(x) \/ RunGetWatcher(x)
    BY <1>3 DEF Delivery
  <2> DEFINE e == Head(completions)
  <2>2. /\ Delivers(x) /\ UNCHANGED <<data_watchers, child_watchers>>
        /\ \E r \in Seq(RequestMsg) :
             /\ Joined(requests, r, requests')
             /\ x # ExistsData /\ e.type # "deleted" => Asks(r, x)
    BY <2>1, DeliverShape
  <2>3. /\ e = completions[1] /\ e.op = "event"
        /\ \A i \in DOMAIN completions :
             i = 1 \/ \E j \in DOMAIN completions' : completions'[j] = completions[i]
        /\ e.ds # {x} => \E j \in DOMAIN completions' :
             /\ completions'[j].op = "event" /\ completions'[j].type = e.type
             /\ completions'[j].ds = e.ds \ {x}
    BY <2>2, DeliverLeaves
  <2> HIDE DEF e
  <2>4. PICK r \in Seq(RequestMsg) :
          /\ Joined(requests, r, requests')
          /\ x # ExistsData /\ e.type # "deleted" => Asks(r, x)
    BY <2>2
  <2>5. Asks(requests, d) \/ Asks(r, d) => Asks(requests', d)
    BY <2>4, LivesPut
  <2>6. Wakes(completions, d) => Wakes(completions', d) \/ (x = d /\ e.type # "deleted")
    <3> SUFFICES ASSUME NEW i \in DOMAIN completions,
                        completions[i].op = "event", completions[i].type # "deleted",
                        d \in completions[i].ds
                 PROVE  Wakes(completions', d) \/ (x = d /\ e.type # "deleted")
      BY DEF Wakes
    <3>1. CASE i = 1 /\ x # d
      BY <2>3, <3>1 DEF Wakes
    <3>2. CASE i # 1
      BY <2>3, <3>2 DEF Wakes
    <3> QED
      BY <2>3, <3>1, <3>2
  <2>7. Pending(d) => Pending(d)'
    BY <2>4, <2>5, <2>6 DEF Pending
  <2> QED
    BY <1>1, <2>2, <2>7, LivesPending
<1>4. CASE Answered
  <2> DEFINE m == Head(completions)
  <2>1. /\ completions # <<>> /\ completions' = Tail(completions) /\ m.op \in {"exists", "list", "get"}
        /\ UNCHANGED <<data_watchers, child_watchers>>
        /\ \E r \in Seq(RequestMsg) : Begins(m, r)
    BY <1>4, RunShape DEF Answered
  <2>2. \E r : Joined(requests, r, requests')
    BY <2>1 DEF Begins
  <2>3. Asks(requests, d) => Asks(requests', d)
    BY <2>2, LivesPut
  <2>4. Wakes(completions, d) => Wakes(completions', d)
    BY <1>0, <2>1, LivesTake
  <2> QED
    BY <1>1, <2>1, <2>3, <2>4, LivesPending DEF Pending
<1>5. CASE WatchSubPath
  <2> DEFINE r == <<Request("exists", ExistsData)>>
  <2>1. requests' = requests \o r /\ UNCHANGED <<data_watchers, child_watchers, completions>>
    BY <1>5 DEF WatchSubPath, Send, tables
  <2>2. r \in Seq(RequestMsg)
    BY DEF Request, RequestMsg
  <2> HIDE DEF r
  <2>3. Joined(requests, r, requests')
    BY <1>0, <2>1, <2>2, PutAll
  <2>4. Asks(requests, d) => Asks(requests', d)
    BY <2>3, LivesPut
  <2> QED
    BY <1>1, <2>1, <2>4, LivesPending DEF Pending
<1>6. CASE UNCHANGED vars
  BY <1>6 DEF vars, server, tables, Pending, Lives
<1> QED
  BY <1>2, <1>3, <1>4, <1>5, <1>6

\* What Joined queues hold, by kind.
LEMMA JoinedNone ==
    ASSUME NEW q, NEW r, NEW q2, Joined(q, r, q2), NEW k
    PROVE  None(q2, k) <=> None(q, k) /\ None(r, k)
<1>1. \A i \in DOMAIN q : i \in DOMAIN q2 /\ q2[i] = q[i]
  BY DEF Joined
<1>2. \A i \in DOMAIN r : Len(q) + i \in DOMAIN q2 /\ q2[Len(q) + i] = r[i]
  BY DEF Joined
<1>3. \A i \in DOMAIN q2 : i \in DOMAIN q \/ (i - Len(q) \in DOMAIN r /\ q2[i] = r[i - Len(q)])
  BY DEF Joined
<1> QED
  BY <1>1, <1>2, <1>3 DEF None, At

-----------------------------------------------------------------------------
(***************************************************************************)
(* A parent that was created once is listed.                               *)
(***************************************************************************)
\* Before the first creation of Parent the exists chain waits for it.
Waiting ==
    births[Parent] = 0 =>
        /\ eve = "dummy" /\ None(completions, "fired")
        /\ ~None(requests, "exists") \/ ExistsData \in data_watchers

\* After it, until the listing chain is started, the exists chain has still to
\* start it.
Starting ==
    \/ Starts(eve) /\ (~None(requests, "exists") \/ ~None(completions, "found"))
    \/ ~None(completions, "born")

StartInv ==
    removal = "none" /\ record =>
        Waiting /\ (Steady(Parent) /\ chains[Parent] = 0 => Starting)

\* Other clients.
LEMMA StartOthers ==
    ASSUME ListerInv, StartInv, OtherClients, removal = "none", record
    PROVE  StartInv'
<1>0. /\ TypeOK /\ BackedInv /\ OwedInv /\ Parent \in Node
      /\ births[Parent] \in Nat /\ chains[Parent] \in Nat /\ node[Parent] \in Nat
  BY DEF ListerInv, TypeInv, TypeOK, Node
<1>1. PICK t \in Node, type \in {"created", "changed", "deleted"}, relist \in BOOLEAN :
        /\ Trigger(t, type, relist)
        /\ UNCHANGED <<requests, eve, chains, last_sub_path, record, removal, view, high>>
        /\ \A u \in Node \ {t} : node'[u] = node[u] /\ births'[u] = births[u]
        /\ node[t] = Absent <=> type = "created"
        /\ node'[t] = Absent <=> type = "deleted"
        /\ births'[t] = IF type = "created" THEN births[t] + 1 ELSE births[t]
  BY <1>0, OthersShape
<1> DEFINE hit == t = Parent /\ ExistsData \in data_watchers
<1>2. /\ None(completions', "found") <=> None(completions, "found")
      /\ None(completions', "fired") <=> None(completions, "fired") /\ ~hit
      /\ None(completions', "born") <=> None(completions, "born") /\ ~(hit /\ type = "created")
      /\ ExistsData \in data_watchers' <=> ExistsData \in data_watchers /\ ~hit
  <2>1. hit \in BOOLEAN
    OBVIOUS
  <2> HIDE DEF hit
  <2> QED
    BY <1>0, <1>1, <2>1, TriggerQueue DEF hit
<1>3. Waiting /\ (Steady(Parent) /\ chains[Parent] = 0 => Starting)
  BY DEF StartInv
<1>4. CASE t # Parent
  BY <1>0, <1>1, <1>2, <1>3, <1>4 DEF StartInv, Waiting, Starting, Steady
<1>5. CASE t = Parent /\ type = "created"
  <2>1. births'[Parent] = births[Parent] + 1
    BY <1>1, <1>5
  <2>2. Waiting'
    BY <1>0, <2>1 DEF Waiting
  <2>3. ASSUME births'[Parent] = 1 PROVE Starting'
    <3>1. births[Parent] = 0
      BY <1>0, <2>1, <2>3
    <3>2. eve = "dummy" /\ (~None(requests, "exists") \/ ExistsData \in data_watchers)
      BY <1>3, <3>1 DEF Waiting
    <3> QED
      BY <1>1, <1>2, <1>5, <3>2 DEF Starting, Starts
  <2> QED
    BY <2>2, <2>3 DEF StartInv, Steady
<1>6. CASE t = Parent /\ type # "created"
  <2>1. births[Parent] > 0 /\ births'[Parent] = births[Parent] /\ chains' = chains
        /\ (node'[Parent] # Absent => node[Parent] # Absent)
    BY <1>0, <1>1, <1>6 DEF OwedInv
  <2>2. Waiting'
    BY <1>0, <2>1 DEF Waiting
  <2>3. Starting => Starting'
    BY <1>1, <1>2, <1>6 DEF Starting
  <2> QED
    BY <1>3, <2>1, <2>2, <2>3 DEF StartInv, Steady
<1> QED
  BY <1>4, <1>5, <1>6

\* The server answers.
LEMMA StartServer ==
    ASSUME ListerInv, StartInv, ServerStep, removal = "none", record
    PROVE  StartInv'
<1>0. TypeOK /\ RemovalInv
  BY DEF ListerInv, TypeInv
<1> DEFINE h == Head(requests)
<1>1. /\ requests # <<>> /\ requests' = Tail(requests)
      /\ UNCHANGED <<node, births, eve, chains, record, removal>>
      /\ data_watchers \subseteq data_watchers'
      /\ h.op = "exists" => ExistsData \in data_watchers'
      /\ \E m \in AnswerMsg :
           /\ Joined(completions, <<m>>, completions') /\ <<m>>[1] = m /\ DOMAIN <<m>> = {1}
           /\ m.op = h.op /\ m.op \in {"exists", "list", "get"}
           /\ m.op = "exists" => (m.rc <=> node[Parent] # Absent)
  BY <1>0, AnswerShape
<1>2. PICK m \in AnswerMsg :
        /\ Joined(completions, <<m>>, completions') /\ <<m>>[1] = m /\ DOMAIN <<m>> = {1}
        /\ m.op = h.op /\ m.op \in {"exists", "list", "get"}
        /\ m.op = "exists" => (m.rc <=> node[Parent] # Absent)
  BY <1>1
<1>3. ~None(requests, "exists") => ~None(requests', "exists") \/ h.op = "exists"
  BY <1>0, <1>1, TakeAt DEF TypeOK, Takes, Kind, Is
<1> HIDE DEF h
<1>4. \A k : None(completions', k) <=> None(completions, k) /\ None(<<m>>, k)
  BY <1>2, JoinedNone
<1>5. None(<<m>>, "fired") /\ (m.op = "exists" /\ node[Parent] # Absent => ~None(<<m>>, "found"))
  BY <1>2 DEF None, At, Is
<1>6. Waiting'
  BY <1>1, <1>3, <1>4, <1>5 DEF StartInv, Waiting
<1>7. Steady(Parent) /\ Starting => Starting'
  BY <1>1, <1>2, <1>3, <1>4, <1>5 DEF Steady, Starting
<1> QED
  BY <1>1, <1>6, <1>7 DEF StartInv, Steady

\* An event is delivered.
LEMMA StartDeliver ==
    ASSUME ListerInv, StartInv, Delivery, removal = "none", record
    PROVE  StartInv'
<1>0. TypeOK /\ ExistsOnce
  BY DEF ListerInv, TypeInv
<1>1. PICK d : (RunExistsWatcher /\ d = ExistsData) \/ RunListWatcher(d) \/ RunGetWatcher(d)
  BY DEF Delivery
<1> DEFINE e == Head(completions)
<1>2. /\ Delivers(d)
      /\ UNCHANGED <<node, births, chains, record, removal, data_watchers>>
      /\ d = ExistsData => eve' = e.type
      /\ d # ExistsData => eve' = eve
      /\ \E r \in Seq(RequestMsg) :
           Joined(requests, r, requests') /\ (d = ExistsData => ~None(r, "exists"))
  BY <1>0, <1>1, DeliverShape
<1>3. /\ 1 \in DOMAIN completions /\ e = completions[1] /\ e.op = "event" /\ d \in e.ds
      /\ \A i \in DOMAIN completions :
           i = 1 \/ \E j \in DOMAIN completions' : completions'[j] = completions[i]
      /\ e.ds # {d} => \E j \in DOMAIN completions' :
           /\ completions'[j].op = "event" /\ completions'[j].type = e.type
           /\ completions'[j].ds = e.ds \ {d}
      /\ \A j \in DOMAIN completions' :
           \/ \E i \in DOMAIN completions : completions'[j] = completions[i]
           \/ /\ completions'[j].op = "event" /\ completions'[j].type = e.type
              /\ completions'[j].ds = e.ds \ {d}
  BY <1>0, <1>2, DeliverLeaves
<1>4. PICK r \in Seq(RequestMsg) :
        Joined(requests, r, requests') /\ (d = ExistsData => ~None(r, "exists"))
  BY <1>2
<1>5. None(requests', "exists") <=> None(requests, "exists") /\ None(r, "exists")
  BY <1>4, JoinedNone
<1> HIDE DEF e
<1>6. None(completions, "fired") => None(completions', "fired")
  BY <1>3 DEF None, At, Is
<1>7. ~None(completions, "found") => ~None(completions', "found")
  BY <1>3 DEF None, At, Is
<1>8. d # ExistsData /\ ~None(completions, "born") => ~None(completions', "born")
  <2> SUFFICES ASSUME d # ExistsData, NEW i \in DOMAIN completions, completions[i].op = "event",
                      ExistsData \in completions[i].ds, completions[i].type = "created"
               PROVE  ~None(completions', "born")
    BY DEF None, At, Is
  <2>1. CASE i = 1
    BY <1>3, <2>1 DEF None, At, Is
  <2>2. CASE i # 1
    BY <1>3, <2>2 DEF None, At, Is
  <2> QED
    BY <2>1, <2>2
<1>9. CASE d # ExistsData
  BY <1>2, <1>5, <1>6, <1>7, <1>8, <1>9 DEF StartInv, Waiting, Starting, Steady
<1>10. CASE d = ExistsData
  <2>1. 1 \in At(completions, "fired") /\ ~None(completions, "fired")
    BY <1>3, <1>10 DEF None, At, Is
  <2>2. Waiting'
    BY <1>2, <2>1 DEF StartInv, Waiting
  <2>3. None(requests, "exists")
    BY <1>0, <2>1 DEF ExistsOnce
  <2>4. None(completions, "found")
    <3> SUFFICES ASSUME NEW i \in DOMAIN completions, completions[i].op = "exists" PROVE FALSE
      BY DEF None, At, Is
    <3>1. i < 1
      BY <1>0, <2>1 DEF ExistsOnce, Before, At, Is
    <3>2. i >= 1
      BY <1>0, LenProperties DEF TypeOK
    <3>3. i \in Nat
      BY <1>0, LenProperties DEF TypeOK
    <3> QED
      BY <3>1, <3>2, <3>3
  <2>5. ~None(completions, "born") => e.type = "created"
    <3> SUFFICES ASSUME NEW i \in DOMAIN completions, completions[i].op = "event",
                        ExistsData \in completions[i].ds, completions[i].type = "created"
                 PROVE  e.type = "created"
      BY DEF None, At, Is
    <3>1. i \in At(completions, "fired")
      BY DEF At, Is
    <3>2. i = 1
      BY <1>0, <2>1, <3>1 DEF ExistsOnce, Once
    <3> QED
      BY <1>3, <3>2
  <2>6. Starting => Starting'
    BY <1>2, <1>4, <1>5, <1>10, <2>3, <2>4, <2>5 DEF Starting, Starts
  <2> QED
    BY <1>2, <2>2, <2>6 DEF StartInv, Steady
<1> QED
  BY <1>9, <1>10

\* An answer is completed.
LEMMA StartAnswered ==
    ASSUME ListerInv, StartInv, Answered, removal = "none", record
    PROVE  StartInv'
<1>0. /\ TypeOK /\ ExistsOnce /\ completions \in Seq(EventMsg \cup AnswerMsg)
      /\ chains[Parent] \in Nat
  BY DEF ListerInv, TypeInv, TypeOK, Node
<1> DEFINE m == Head(completions)
<1>1. /\ completions # <<>> /\ completions' = Tail(completions)
      /\ m = completions[1] /\ 1 \in DOMAIN completions
      /\ m.op \in {"exists", "list", "get"} /\ (m.op = "exists" => m.rc \in BOOLEAN)
      /\ UNCHANGED <<node, births, eve, record, removal, data_watchers>>
      /\ \E r \in Seq(RequestMsg) : Begins(m, r)
  BY <1>0, RunShape DEF Answered
<1>2. \A k \in Kind : None(completions, k) <=> None(completions', k) /\ ~Is(m, k)
  BY <1>0, <1>1, TakeAt DEF Takes
<1> HIDE DEF m
<1>3. PICK r \in Seq(RequestMsg) : Begins(m, r)
  BY <1>1
<1>4. None(requests', "exists") <=> None(requests, "exists") /\ None(r, "exists")
  BY <1>3, JoinedNone DEF Begins
<1>5. /\ None(completions, "fired") => None(completions', "fired")
      /\ ~None(completions, "born") => ~None(completions', "born")
  BY <1>1, <1>2 DEF Kind, Is
<1>6. Waiting'
  BY <1>1, <1>4, <1>5 DEF StartInv, Waiting
<1>7. chains'[Parent] = IF m.op = "exists" /\ m.rc /\ Starts(eve) THEN chains[Parent] + 1
                        ELSE chains[Parent]
  BY <1>3 DEF Begins
<1>8. ASSUME Steady(Parent), chains'[Parent] = 0 PROVE Starting'
  <2>1. ~(m.op = "exists" /\ m.rc /\ Starts(eve)) /\ chains[Parent] = 0
    BY <1>0, <1>7, <1>8
  <2>2. Starting
    BY <1>8, <2>1 DEF StartInv
  <2>3. CASE m.op = "exists" /\ m.rc
    <3>1. ~Starts(eve)
      BY <2>1, <2>3
    <3> QED
      BY <1>1, <1>5, <2>2, <3>1 DEF Starting
  <2>4. CASE ~(m.op = "exists" /\ m.rc)
    <3>1. ~None(completions, "found") => ~None(completions', "found")
      BY <1>1, <1>2, <2>4 DEF Kind, Is
    <3> QED
      BY <1>1, <1>4, <1>5, <2>2, <3>1 DEF Starting
  <2> QED
    BY <2>3, <2>4
<1> QED
  BY <1>1, <1>6, <1>8 DEF StartInv, Steady

\* The exists chain starts the listing of a parent that was created once.
LEMMA StartStep ==
    ASSUME ListerInv, StartInv, [Next]_vars
    PROVE  StartInv'
<1>0. /\ TypeOK /\ RemovalInv /\ ExistsOnce /\ OwedInv /\ requests \in Seq(RequestMsg)
  BY DEF ListerInv, TypeInv, TypeOK
<1> SUFFICES ASSUME removal' = "none", record' PROVE StartInv'
  BY DEF StartInv
<1>1. /\ removal = "none"
      /\ \/ OtherClients \/ ServerStep \/ Delivery \/ Answered
         \/ WatchSubPath \/ Expire \/ UNCHANGED vars
  BY <1>0, CalmStep
<1>2. CASE WatchSubPath
  <2> DEFINE r == <<Request("exists", ExistsData)>>
  <2>1. /\ ~record /\ requests' = requests \o r
        /\ UNCHANGED <<node, births, data_watchers, completions, eve, chains>>
    BY <1>2 DEF WatchSubPath, Send, server, tables, listed
  <2>2. /\ None(completions, "fired") /\ eve = "dummy"
    BY <1>0, <1>1, <2>1 DEF ExistsOnce, OwedInv
  <2>3. r \in Seq(RequestMsg) /\ 1 \in At(r, "exists")
    BY DEF Request, RequestMsg, At, Is
  <2> HIDE DEF r
  <2>4. Joined(requests, r, requests')
    BY <1>0, <2>1, <2>3, PutAll
  <2>5. ~None(requests', "exists")
    BY <2>3, <2>4, JoinedNone DEF None
  <2> QED
    BY <2>1, <2>2, <2>5 DEF StartInv, Waiting, Starting, Starts
<1>3. CASE Expire
  <2>1. /\ requests' = <<Request("exists", ExistsData)>> /\ eve' = "dummy" /\ completions' = <<>>
    BY <1>3 DEF Expire
  <2>2. 1 \in At(<<Request("exists", ExistsData)>>, "exists")
    BY DEF Request, At, Is
  <2>3. ~None(requests', "exists") /\ None(completions', "fired")
    BY <2>1, <2>2 DEF None, At
  <2> QED
    BY <2>1, <2>3 DEF StartInv, Waiting, Starting, Starts
<1>4. CASE UNCHANGED vars
  BY <1>4 DEF vars, server, tables, listed, remove, StartInv, Waiting, Starting, Steady
<1>5. CASE (OtherClients \/ ServerStep \/ Delivery \/ Answered) /\ record
  BY <1>1, <1>5, StartOthers, StartServer, StartDeliver, StartAnswered
<1>6. CASE (OtherClients \/ ServerStep \/ Delivery \/ Answered) /\ ~record
  <2>1. record' = record
    <3>1. CASE OtherClients
      BY <3>1 DEF OtherClients, SrvWrite, SrvDelete
    <3>2. CASE ServerStep
      BY <3>2 DEF ServerStep, SrvExists, SrvList, SrvGet, SrvPlainList, SrvRemoveWatches, Answers
    <3>3. CASE Delivery
      BY <3>3 DEF Delivery, RunExistsWatcher, RunListWatcher, RunGetWatcher, Delivers
    <3>4. CASE Answered
      BY <3>4 DEF Answered, RunExists, RunList, RunGet
    <3> QED
      BY <1>6, <3>1, <3>2, <3>3, <3>4
  <2> QED
    BY <1>6, <2>1
<1> QED
  BY <1>1, <1>2, <1>3, <1>4, <1>5, <1>6

-----------------------------------------------------------------------------
(***************************************************************************)
(* Every child is listed, and every value read.                            *)
(***************************************************************************)
\* A listing that has children was successful.
ListingOk ==
    removal = "none" =>
        \A i \in DOMAIN completions :
            completions[i].op = "list" /\ completions[i].kids # {} => completions[i].rc

\* The listing chain of a parent that was created once goes on.
ListerAlive ==
    removal = "none" /\ Steady(Parent) /\ chains[Parent] = 1 => Lives(<<Parent, 1>>)

\* A child that was created once is in last_sub_path_, in a listing on its way,
\* or will be in the next one.
Seen(c) ==
    removal = "none" /\ Steady(Parent) /\ Steady(c) /\ chains[Parent] = 1 =>
        c \in last_sub_path \/ HasAt(completions, c) # {} \/ Pending(<<Parent, 1>>)

\* Its last value has been reported, is on its way, or will be read.
Heard(c) ==
    removal = "none" /\ Steady(c) /\ chains[c] = 1 =>
        \/ view[c] = node[c]
        \/ Pending(<<c, 1>>)
        \/ \E i \in DOMAIN completions : Value(completions[i], c) /\ completions[i].val = node[c]

\* What the invariants of this section rest on.
Rest(c) == GetOnce(c) /\ Monitored(c) /\ Forward(c) /\ Endings(c)

\* The facts about a node that stays or comes.
LEMMA SteadyOthers ==
    ASSUME TypeOK, NEW t \in Node, NEW u \in Node,
           NEW type \in {"created", "changed", "deleted"},
           \A x \in Node \ {t} : node'[x] = node[x] /\ births'[x] = births[x],
           node[t] = Absent <=> type = "created",
           node'[t] = Absent <=> type = "deleted",
           births'[t] = IF type = "created" THEN births[t] + 1 ELSE births[t],
           Steady(u)'
    PROVE  /\ ~(u = t /\ type = "deleted")
           /\ ~(u = t /\ type = "created") => Steady(u)
           /\ u = t /\ type = "created" => births[u] = 0
<1>1. births[u] \in Nat /\ births'[u] = 1 /\ node'[u] # Absent
  BY DEF TypeOK, Steady
<1> QED
  BY <1>1 DEF Steady

\* A listing is right about the children.
LEMMA ListingStep ==
    ASSUME TypeOK, RemovalInv, BackedInv, ListingOk, [Next]_vars
    PROVE  ListingOk'
<1>0. completions \in Seq(EventMsg \cup AnswerMsg)
  BY DEF TypeOK
<1> SUFFICES ASSUME removal' = "none", NEW j \in DOMAIN completions',
                    completions'[j].op = "list", completions'[j].kids # {}
             PROVE  completions'[j].rc
  BY DEF ListingOk
<1>1. /\ removal = "none"
      /\ \/ OtherClients \/ ServerStep \/ Delivery \/ Answered
         \/ WatchSubPath \/ Expire \/ UNCHANGED vars
  BY CalmStep
<1>2. CASE OtherClients
  <2>1. \E t, type, relist : \E r \in Seq(EventMsg \cup AnswerMsg) : Tells(t, type, relist, r)
    BY <1>2, OthersShape
  <2>2. \E r : /\ Joined(completions, r, completions')
               /\ \A i \in DOMAIN r : r[i].op = "event"
    BY <2>1 DEF Tells
  <2>3. \E i \in DOMAIN completions : completions'[j] = completions[i]
    BY <2>2 DEF Joined
  <2> QED
    BY <1>1, <2>3 DEF ListingOk
<1>3. CASE ServerStep
  <2>1. PICK m \in AnswerMsg :
          /\ Joined(completions, <<m>>, completions') /\ DOMAIN <<m>> = {1} /\ <<m>>[1] = m
          /\ m.op = "list" => m.kids = Present /\ (m.rc <=> node[Parent] # Absent)
    BY <1>1, <1>3, AnswerShape
  <2>2. completions'[j] = m \/ \E i \in DOMAIN completions : completions'[j] = completions[i]
    BY <2>1 DEF Joined
  <2>3. CASE completions'[j] = m
    BY <2>1, <2>3 DEF TypeOK
  <2>4. CASE \E i \in DOMAIN completions : completions'[j] = completions[i]
    BY <1>1, <2>4 DEF ListingOk
  <2> QED
    BY <2>2, <2>3, <2>4
<1>4. CASE Delivery
  <2>1. \E d : Delivers(d)
    BY <1>4 DEF Delivery, RunExistsWatcher, RunListWatcher, RunGetWatcher
  <2>2. \E i \in DOMAIN completions : completions'[j] = completions[i]
    BY <2>1, DeliverLeaves
  <2> QED
    BY <1>1, <2>2 DEF ListingOk
<1>5. CASE Answered
  <2>1. completions # <<>> /\ completions' = Tail(completions)
    BY <1>5, RunShape DEF Answered
  <2>2. \E i \in DOMAIN completions : completions'[j] = completions[i]
    BY <1>0, <2>1, TakeHead
  <2> QED
    BY <1>1, <2>2 DEF ListingOk
<1>6. CASE WatchSubPath \/ UNCHANGED vars
  <2>1. completions' = completions
    BY <1>6 DEF WatchSubPath, vars
  <2> QED
    BY <1>1, <2>1 DEF ListingOk
<1>7. CASE Expire
  BY <1>7 DEF Expire
<1> QED
  BY <1>1, <1>2, <1>3, <1>4, <1>5, <1>6, <1>7

\* The listing chain goes on.
LEMMA AliveStep ==
    ASSUME TypeOK, RemovalInv, BackedInv, OwedInv, ListerAlive, [Next]_vars
    PROVE  ListerAlive'
<1>1. /\ Parent \in Node /\ chains[Parent] \in Nat /\ births[Parent] \in Nat
  BY DEF TypeOK, Node
<1>2. <<Parent, 1>> # ExistsData
  BY DEF ExistsData
<1> SUFFICES ASSUME removal' = "none", Steady(Parent)', chains'[Parent] = 1
             PROVE  Lives(<<Parent, 1>>)'
  BY DEF ListerAlive
<1> DEFINE d == <<Parent, 1>>
<1>3. d[1] = Parent /\ d # ExistsData /\ node'[Parent] # Absent
  BY <1>2 DEF Steady
<1>4. /\ removal = "none"
      /\ \/ OtherClients \/ ServerStep \/ Delivery \/ Answered
         \/ WatchSubPath \/ Expire \/ UNCHANGED vars
  BY CalmStep
<1>5. CASE OtherClients
  <2>1. PICK t \in Node, type \in {"created", "changed", "deleted"}, relist \in BOOLEAN :
          /\ UNCHANGED <<requests, eve, chains, last_sub_path, record, removal, view, high>>
          /\ \A u \in Node \ {t} : node'[u] = node[u] /\ births'[u] = births[u]
          /\ node[t] = Absent <=> type = "created"
          /\ node'[t] = Absent <=> type = "deleted"
          /\ births'[t] = IF type = "created" THEN births[t] + 1 ELSE births[t]
    BY <1>5, OthersShape
  <2>2. /\ ~(Parent = t /\ type = "created") => Steady(Parent)
        /\ Parent = t /\ type = "created" => births[Parent] = 0
    BY <1>1, <2>1, SteadyOthers
  <2>3. births[Parent] # 0
    BY <1>1, <2>1 DEF OwedInv, ListerPerCreation
  <2>4. Lives(d)
    BY <1>4, <2>1, <2>2, <2>3 DEF ListerAlive
  <2> HIDE DEF d
  <2> QED
    BY <1>3, <1>5, <2>4, ChainGoes DEF d
<1>6. CASE ServerStep
  <2>1. UNCHANGED <<node, births, chains>>
    BY <1>4, <1>6, AnswerShape
  <2>2. Lives(d) /\ node[Parent] # Absent
    BY <1>4, <2>1 DEF ListerAlive, Steady
  <2> HIDE DEF d
  <2> QED
    BY <1>3, <1>4, <1>6, <2>2, ChainServer DEF d
<1>7. CASE Delivery \/ WatchSubPath \/ UNCHANGED vars
  <2>1. UNCHANGED <<node, births, chains>>
    BY <1>7 DEF Delivery, RunExistsWatcher, RunListWatcher, RunGetWatcher, Delivers, WatchSubPath,
      vars, server, listed
  <2>2. Lives(d)
    BY <1>4, <2>1 DEF ListerAlive, Steady
  <2> HIDE DEF d
  <2> QED
    BY <1>3, <1>7, <2>2, ChainGoes DEF d
<1>8. CASE Answered
  <2>1. UNCHANGED <<node, births>> /\ \E r \in Seq(RequestMsg) : Begins(Head(completions), r)
    BY <1>8, RunShape DEF Answered
  <2>2. CASE chains[Parent] = 1
    <3>1. Lives(d)
      BY <1>4, <2>1, <2>2 DEF ListerAlive, Steady
    <3> HIDE DEF d
    <3> QED
      BY <1>3, <1>8, <3>1, ChainGoes DEF d
  <2>3. CASE chains[Parent] # 1
    <3>1. PICK r \in Seq(RequestMsg) : Begins(Head(completions), r)
      BY <2>1
    <3>2. Joined(requests, r, requests') /\ chains'[Parent] = chains[Parent] + 1
          /\ Asks(r, <<Parent, chains[Parent] + 1>>)
      BY <1>1, <2>3, <3>1 DEF Begins
    <3>3. Asks(r, <<Parent, 1>>)
      BY <3>2
    <3>4. Asks(requests', <<Parent, 1>>)
      BY <3>2, <3>3, LivesPut
    <3> QED
      BY <3>4 DEF Lives, Asks
  <2> QED
    BY <2>2, <2>3
<1>9. CASE Expire
  BY <1>1, <1>9 DEF Expire
<1> QED
  BY <1>4, <1>5, <1>6, <1>7, <1>8, <1>9

\* A child is seen.
LEMMA SeenStep ==
    ASSUME TypeOK, RemovalInv, BackedInv, OwedInv, ListingOk, ListerAlive, NEW c \in Child, GetOnce(c),
           Seen(c), [Next]_vars
    PROVE  Seen(c)'
<1>1. /\ Parent \in Node /\ c \in Node /\ c # Parent
      /\ chains[Parent] \in Nat /\ births[Parent] \in Nat
      /\ chains[c] \in Nat /\ births[c] \in Nat
      /\ completions \in Seq(EventMsg \cup AnswerMsg)
  BY DEF TypeOK, Node
<1> DEFINE d == <<Parent, 1>>
<1>2. d # ExistsData /\ d \notin GetData
  BY DEF ExistsData, GetData
<1> SUFFICES ASSUME removal' = "none", Steady(Parent)', Steady(c)', chains'[Parent] = 1
             PROVE  c \in last_sub_path' \/ HasAt(completions', c) # {} \/ Pending(d)'
  BY DEF Seen
<1> HIDE DEF d
<1>4. /\ removal = "none"
      /\ \/ OtherClients \/ ServerStep \/ Delivery \/ Answered
         \/ WatchSubPath \/ Expire \/ UNCHANGED vars
  BY CalmStep
<1>5. CASE OtherClients
  <2>1. PICK t \in Node, type \in {"created", "changed", "deleted"}, relist \in BOOLEAN :
          /\ UNCHANGED <<requests, eve, chains, last_sub_path, record, removal, view, high>>
          /\ \A u \in Node \ {t} : node'[u] = node[u] /\ births'[u] = births[u]
          /\ node[t] = Absent <=> type = "created"
          /\ node'[t] = Absent <=> type = "deleted"
          /\ births'[t] = IF type = "created" THEN births[t] + 1 ELSE births[t]
          /\ relist <=> t # Parent /\ type # "changed"
          /\ \E r \in Seq(EventMsg \cup AnswerMsg) : Tells(t, type, relist, r)
    BY <1>5, OthersShape
  <2>2. /\ ~(Parent = t /\ type = "created") => Steady(Parent)
        /\ Parent = t /\ type = "created" => births[Parent] = 0
    BY <1>1, <2>1, SteadyOthers
  <2>3. ~(c = t /\ type = "created") => Steady(c)
    BY <1>1, <2>1, SteadyOthers
  <2>4. Steady(Parent) /\ chains[Parent] = 1
    BY <1>1, <2>1, <2>2 DEF OwedInv, ListerPerCreation
  <2>5. PICK r \in Seq(EventMsg \cup AnswerMsg) : Tells(t, type, relist, r)
    BY <2>1
  <2>6. Joined(completions, r, completions')
    BY <2>5 DEF Tells
  <2>7. CASE c = t /\ type = "created"
    <3>1. Pending(d) \/ d \in child_watchers
      BY <1>2, <1>4, <2>4, LivesPending DEF ListerAlive, TypeOK, d
    <3>2. d \in child_watchers => Wakes(r, d)
      BY <1>1, <2>1, <2>5, <2>7 DEF Tells
    <3>3. Pending(d) => Pending(d)'
      BY <1>2, <1>5, ChainGoes
    <3>4. Wakes(r, d) => Wakes(completions', d)
      BY <2>6, LivesPut
    <3> QED
      BY <3>1, <3>2, <3>3, <3>4 DEF Pending
  <2>8. CASE ~(c = t /\ type = "created")
    <3>1. c \in last_sub_path \/ HasAt(completions, c) # {} \/ Pending(d)
      BY <1>4, <2>3, <2>4, <2>8 DEF Seen, d
    <3>2. HasAt(completions, c) # {} => HasAt(completions', c) # {}
      BY <2>6 DEF Joined, HasAt
    <3>3. Pending(d) => Pending(d)'
      BY <1>2, <1>5, ChainGoes
    <3> QED
      BY <2>1, <3>1, <3>2, <3>3
  <2> QED
    BY <2>7, <2>8
<1>6. CASE ServerStep
  <2> DEFINE h == Head(requests)
  <2>1. /\ UNCHANGED <<node, births, chains, last_sub_path>>
        /\ \E m \in AnswerMsg :
             /\ Joined(completions, <<m>>, completions') /\ DOMAIN <<m>> = {1} /\ <<m>>[1] = m
             /\ m.op = h.op
             /\ m.op = "list" => m.kids = Present
             /\ m.op = "get" => h.d \in GetData
    BY <1>4, <1>6, AnswerShape
  <2>2. c \in last_sub_path \/ HasAt(completions, c) # {} \/ Pending(d)
    BY <1>4, <2>1 DEF Seen, Steady, d
  <2>3. Pending(d) => Pending(d)' \/ (h.op \in {"list", "get"} /\ h.d = d)
    BY <1>4, <1>6, ChainServer
  <2>4. c \in Present
    BY <2>1 DEF Steady, Present
  <2> HIDE DEF h
  <2>5. PICK m \in AnswerMsg :
          /\ Joined(completions, <<m>>, completions') /\ DOMAIN <<m>> = {1} /\ <<m>>[1] = m
          /\ m.op = h.op
          /\ m.op = "list" => m.kids = Present
          /\ m.op = "get" => h.d \in GetData
    BY <2>1
  <2>6. HasAt(completions, c) # {} => HasAt(completions', c) # {}
    BY <2>5 DEF Joined, HasAt
  <2>7. h.op \in {"list", "get"} /\ h.d = d => HasAt(completions', c) # {}
    <3> SUFFICES ASSUME h.op = "list" PROVE HasAt(completions', c) # {}
      BY <1>2, <2>5
    <3>1. Len(completions) + 1 \in DOMAIN completions' /\ completions'[Len(completions) + 1] = m
      BY <2>5 DEF Joined
    <3> QED
      BY <2>4, <2>5, <3>1 DEF HasAt
  <2> QED
    BY <2>1, <2>2, <2>3, <2>6, <2>7
<1>7. CASE Delivery
  <2>1. PICK x : Delivers(x)
    BY <1>7 DEF Delivery, RunExistsWatcher, RunListWatcher, RunGetWatcher
  <2>2. UNCHANGED <<node, births, chains, last_sub_path>>
    BY <2>1 DEF Delivers, server, listed
  <2>3. c \in last_sub_path \/ HasAt(completions, c) # {} \/ Pending(d)
    BY <1>4, <2>2 DEF Seen, Steady, d
  <2>4. HasAt(completions, c) # {} => HasAt(completions', c) # {}
    <3>1. completions[1].op = "event" /\ \A i \in DOMAIN completions :
            i = 1 \/ \E j \in DOMAIN completions' : completions'[j] = completions[i]
      BY <2>1, DeliverLeaves
    <3> QED
      BY <3>1 DEF HasAt
  <2>5. Pending(d) => Pending(d)'
    BY <1>2, <1>7, ChainGoes
  <2> QED
    BY <2>2, <2>3, <2>4, <2>5
<1>8. CASE Answered
  <2> DEFINE m == Head(completions)
  <2>1. /\ completions # <<>> /\ completions' = Tail(completions)
        /\ m = completions[1] /\ 1 \in DOMAIN completions
        /\ UNCHANGED <<node, births>>
        /\ \E r \in Seq(RequestMsg) : Begins(m, r)
    BY <1>8, RunShape DEF Answered
  <2> HIDE DEF m
  <2>2. PICK r \in Seq(RequestMsg) : Begins(m, r)
    BY <2>1
  <2>3. Pending(d) => Pending(d)'
    BY <1>2, <1>8, ChainGoes
  <2>4. Steady(Parent) /\ Steady(c)
    BY <2>1 DEF Steady
  <2>5. last_sub_path' = IF m.op = "list" /\ m.rc THEN m.kids ELSE last_sub_path
    BY <2>2 DEF Begins
  <2>6. CASE chains[Parent] # 1
    <3>1. /\ Joined(requests, r, requests') /\ chains'[Parent] = chains[Parent] + 1
          /\ Asks(r, <<Parent, chains[Parent] + 1>>)
      BY <1>1, <2>2, <2>6 DEF Begins
    <3>2. Asks(r, d)
      BY <1>1, <3>1 DEF d
    <3> QED
      BY <3>1, <3>2, LivesPut DEF Pending
  <2>7. CASE chains[Parent] = 1 /\ c \in last_sub_path
    <3>1. chains[c] = 1 /\ node[c] # Absent
      BY <1>4, <2>4, <2>7 DEF GetOnce, Steady
    <3>2. ~(m.op = "list" /\ c \notin m.kids)
      <4> SUFFICES ASSUME 1 \in LacksAt(completions, c) PROVE FALSE
        BY <2>1 DEF LacksAt
      <4> QED
        BY <1>4, <2>4, <3>1 DEF GetOnce, Steady
    <3> QED
      BY <2>5, <2>7, <3>2
  <2>8. CASE chains[Parent] = 1 /\ HasAt(completions, c) # {}
    <3>1. PICK i \in DOMAIN completions : completions[i].op = "list" /\ c \in completions[i].kids
      BY <2>8 DEF HasAt
    <3>2. CASE i = 1
      <4>1. m.op = "list" /\ c \in m.kids /\ m.rc
        BY <1>4, <2>1, <3>1, <3>2 DEF ListingOk
      <4> QED
        BY <2>5, <4>1
    <3>3. CASE i # 1
      <4>1. i - 1 \in DOMAIN completions' /\ completions'[i - 1] = completions[i]
        BY <1>1, <2>1, <3>3, TakeHead
      <4> QED
        BY <3>1, <4>1 DEF HasAt
    <3> QED
      BY <3>2, <3>3
  <2>9. CASE chains[Parent] = 1 /\ Pending(d)
    BY <2>3, <2>9
  <2> QED
    BY <1>4, <2>4, <2>6, <2>7, <2>8, <2>9 DEF Seen, d
<1>9. CASE WatchSubPath \/ UNCHANGED vars
  <2>1. UNCHANGED <<node, births, chains, last_sub_path, completions>>
    BY <1>9 DEF WatchSubPath, vars, server, listed
  <2>2. Pending(d) => Pending(d)'
    BY <1>2, <1>9, ChainGoes
  <2> QED
    BY <1>4, <2>1, <2>2 DEF Seen, Steady, d
<1>10. CASE Expire
  BY <1>1, <1>10 DEF Expire
<1> QED
  BY <1>4, <1>5, <1>6, <1>7, <1>8, <1>9, <1>10

\* A value is heard of.
LEMMA HeardStep ==
    ASSUME TypeOK, RemovalInv, BackedInv, NEW c \in Child, Rest(c), Heard(c), [Next]_vars
    PROVE  Heard(c)'
<1>1. /\ c \in Node /\ c # Parent
      /\ chains[c] \in Nat /\ births[c] \in Nat /\ node[c] \in Nat /\ high[c] \in Nat
      /\ completions \in Seq(EventMsg \cup AnswerMsg)
      /\ GetOnce(c) /\ Monitored(c) /\ Forward(c) /\ Endings(c)
  BY DEF TypeOK, Node, Rest
<1> DEFINE d == <<c, 1>>
           Coming == \E i \in DOMAIN completions : Value(completions[i], c) /\ completions[i].val = node[c]
<1>2. d # ExistsData /\ d \notin ListData /\ d[1] = c
  BY <1>1 DEF ExistsData, ListData
<1> SUFFICES ASSUME removal' = "none", Steady(c)', chains'[c] = 1
             PROVE  view'[c] = node'[c] \/ Pending(d)' \/ Coming'
  BY DEF Heard
<1> HIDE DEF d
<1>4. /\ removal = "none"
      /\ \/ OtherClients \/ ServerStep \/ Delivery \/ Answered
         \/ WatchSubPath \/ Expire \/ UNCHANGED vars
  BY CalmStep
<1>5. Steady(c) /\ chains[c] = 1 => view[c] = node[c] \/ Pending(d) \/ Coming
  BY <1>4 DEF Heard, d
<1>6. CASE OtherClients
  <2>1. PICK t \in Node, type \in {"created", "changed", "deleted"}, relist \in BOOLEAN :
          /\ UNCHANGED <<requests, eve, chains, last_sub_path, record, removal, view, high>>
          /\ \A u \in Node \ {t} : node'[u] = node[u] /\ births'[u] = births[u]
          /\ node[t] = Absent <=> type = "created"
          /\ node'[t] = Absent <=> type = "deleted"
          /\ births'[t] = IF type = "created" THEN births[t] + 1 ELSE births[t]
          /\ \E r \in Seq(EventMsg \cup AnswerMsg) : Tells(t, type, relist, r)
    BY <1>6, OthersShape
  <2>2. /\ ~(c = t /\ type = "deleted")
        /\ ~(c = t /\ type = "created") => Steady(c)
        /\ c = t /\ type = "created" => births[c] = 0
    BY <1>1, <2>1, SteadyOthers
  <2>3. Steady(c) /\ chains[c] = 1
    BY <1>1, <1>4, <2>1, <2>2 DEF GetOnce
  <2>4. PICK r \in Seq(EventMsg \cup AnswerMsg) : Tells(t, type, relist, r)
    BY <2>1
  <2>5. Joined(completions, r, completions')
    BY <2>4 DEF Tells
  <2>6. Pending(d) => Pending(d)'
    BY <1>2, <1>6, ChainGoes
  <2>7. CASE c = t
    <3>1. Pending(d) \/ d \in data_watchers
      BY <1>1, <1>2, <1>4, <2>3, LivesPending DEF Monitored, TypeOK, Steady, d
    <3>2. d \in data_watchers => Wakes(r, d)
      BY <1>2, <2>2, <2>4, <2>7 DEF Tells
    <3>3. Wakes(r, d) => Wakes(completions', d)
      BY <2>5, LivesPut
    <3> QED
      BY <2>6, <3>1, <3>2, <3>3 DEF Pending
  <2>8. CASE c # t
    <3>1. node'[c] = node[c] /\ view'[c] = view[c]
      BY <1>1, <2>1, <2>8
    <3>2. Coming => Coming'
      BY <2>5, <3>1 DEF Joined
    <3> HIDE DEF Coming
    <3> QED
      BY <1>5, <2>3, <2>6, <3>1, <3>2
  <2> QED
    BY <2>7, <2>8
<1>7. CASE ServerStep
  <2> DEFINE h == Head(requests)
  <2>1. /\ UNCHANGED <<node, births, chains, view>>
        /\ \E m \in AnswerMsg :
             /\ Joined(completions, <<m>>, completions') /\ DOMAIN <<m>> = {1} /\ <<m>>[1] = m
             /\ m.op = h.op
             /\ m.op = "list" => h.d \in ListData
             /\ m.op = "get" => m.d = h.d /\ m.val = node[h.d[1]] /\ (m.rc <=> node[h.d[1]] # Absent)
    BY <1>4, <1>7, AnswerShape
  <2>2. view[c] = node[c] \/ Pending(d) \/ Coming
    BY <1>5, <2>1 DEF Steady
  <2>3. Pending(d) => Pending(d)' \/ (h.op \in {"list", "get"} /\ h.d = d)
    BY <1>4, <1>7, ChainServer
  <2> HIDE DEF h
  <2>4. PICK m \in AnswerMsg :
          /\ Joined(completions, <<m>>, completions') /\ DOMAIN <<m>> = {1} /\ <<m>>[1] = m
          /\ m.op = h.op
          /\ m.op = "list" => h.d \in ListData
          /\ m.op = "get" => m.d = h.d /\ m.val = node[h.d[1]] /\ (m.rc <=> node[h.d[1]] # Absent)
    BY <2>1
  <2>5. Coming => Coming'
    BY <2>1, <2>4 DEF Joined
  <2>6. h.op \in {"list", "get"} /\ h.d = d => Coming'
    <3> SUFFICES ASSUME h.op = "get", h.d = d PROVE Coming'
      BY <1>2, <2>4
    <3>1. Len(completions) + 1 \in DOMAIN completions' /\ completions'[Len(completions) + 1] = m
      BY <2>4 DEF Joined
    <3>2. Value(m, c) /\ m.val = node'[c]
      BY <1>2, <2>1, <2>4 DEF Value, Steady
    <3> QED
      BY <3>1, <3>2
  <2> HIDE DEF Coming
  <2> QED
    BY <2>1, <2>2, <2>3, <2>5, <2>6
<1>8. CASE Delivery
  <2>1. PICK x : (RunExistsWatcher /\ x = ExistsData) \/ RunListWatcher(x) \/ RunGetWatcher(x)
    BY <1>8 DEF Delivery
  <2>2. /\ Delivers(x) /\ UNCHANGED <<node, births, chains>>
        /\ view'[c] = view[c] \/ (view'[c] = Deleted /\ Ending(Head(completions), c))
    BY <2>1, DeliverShape
  <2>3. /\ 1 \in DOMAIN completions /\ Head(completions) = completions[1]
        /\ completions[1].op = "event"
        /\ \A i \in DOMAIN completions :
             i = 1 \/ \E j \in DOMAIN completions' : completions'[j] = completions[i]
    BY <2>2, DeliverLeaves
  <2>4. Steady(c) /\ chains[c] = 1
    BY <2>2 DEF Steady
  <2>5. view'[c] = view[c]
    BY <1>1, <2>2, <2>3, <2>4 DEF Endings
  <2>6. Coming => Coming'
    BY <2>2, <2>3 DEF Value
  <2>7. Pending(d) => Pending(d)'
    BY <1>2, <1>8, ChainGoes
  <2> HIDE DEF Coming
  <2> QED
    BY <1>5, <2>2, <2>4, <2>5, <2>6, <2>7
<1>9. CASE Answered
  <2> DEFINE m == Head(completions)
  <2>1. /\ completions # <<>> /\ completions' = Tail(completions)
        /\ m = completions[1] /\ 1 \in DOMAIN completions
        /\ UNCHANGED <<node, births>>
        /\ view'[c] = IF Value(m, c) THEN m.val ELSE view[c]
        /\ \E r \in Seq(RequestMsg) : Begins(m, r)
    BY <1>9, RunShape DEF Answered
  <2> HIDE DEF m
  <2>2. PICK r \in Seq(RequestMsg) : Begins(m, r)
    BY <2>1
  <2>3. Pending(d) => Pending(d)'
    BY <1>2, <1>9, ChainGoes
  <2>4. Steady(c)
    BY <2>1 DEF Steady
  <2>5. CASE chains[c] # 1
    <3>1. /\ Joined(requests, r, requests') /\ chains'[c] = chains[c] + 1
          /\ Asks(r, <<c, chains[c] + 1>>)
      BY <1>1, <2>2, <2>5 DEF Begins
    <3>2. Asks(r, d)
      BY <1>1, <3>1 DEF d
    <3> QED
      BY <3>1, <3>2, LivesPut DEF Pending
  <2>6. CASE view[c] = node[c]
    <3>1. high[c] = node[c] /\ node[c] > 0
      BY <1>1, <2>4, <2>6 DEF Forward, ToldForward, Steady, Unheard, Deleted, Absent
    <3>2. Value(m, c) => m.val \in Nat /\ m.val <= node[c] /\ high[c] <= m.val
      BY <1>1, <2>1, <2>4, ValueType DEF Forward, ValuesForward, Upto, Steady
    <3>3. view'[c] = node[c]
      BY <1>1, <2>1, <2>6, <3>1, <3>2
    <3> QED
      BY <2>1, <3>3
  <2>7. CASE Coming
    <3>1. PICK i \in DOMAIN completions : Value(completions[i], c) /\ completions[i].val = node[c]
      BY <2>7
    <3>2. CASE i = 1
      BY <2>1, <3>1, <3>2
    <3>3. CASE i # 1
      <4>1. i - 1 \in DOMAIN completions' /\ completions'[i - 1] = completions[i]
        BY <1>1, <2>1, <3>3, TakeHead
      <4> QED
        BY <2>1, <3>1, <4>1
    <3> QED
      BY <3>2, <3>3
  <2> HIDE DEF Coming
  <2> QED
    BY <1>5, <2>3, <2>4, <2>5, <2>6, <2>7
<1>10. CASE WatchSubPath \/ UNCHANGED vars
  <2>1. UNCHANGED <<node, births, chains, view, completions>>
    BY <1>10 DEF WatchSubPath, vars, server, listed, told
  <2>2. Pending(d) => Pending(d)'
    BY <1>2, <1>10, ChainGoes
  <2> QED
    BY <1>5, <2>1, <2>2 DEF Steady
<1>11. CASE Expire
  BY <1>1, <1>11 DEF Expire
<1> QED
  BY <1>4, <1>6, <1>7, <1>8, <1>9, <1>10, <1>11

\* What is known at any time: the exists chain starts the listing, the listing
\* sees the children, their values are heard of.
KnownInv ==
    /\ StartInv /\ ListingOk /\ ListerAlive
    /\ \A c \in Child : Seen(c) /\ Heard(c)

\* What is known is as KnownInv says in every reachable state.
LEMMA KnownHolds == Spec => []KnownInv
<1>1. Init => KnownInv
  <2> SUFFICES ASSUME Init PROVE KnownInv
    OBVIOUS
  <2>1. \A t \in Node : chains[t] = 0 /\ births[t] = 0
    BY DEF Init
  <2>2. ~record /\ DOMAIN completions = {} /\ Parent \in Node /\ Child \subseteq Node
    BY DEF Init, Node
  <2> QED
    BY <2>1, <2>2 DEF KnownInv, StartInv, ListingOk, ListerAlive, Seen, Heard
<1>2. OnceInv /\ EndingsInv /\ KnownInv /\ [Next]_vars => KnownInv'
  <2> SUFFICES ASSUME OnceInv, EndingsInv, KnownInv, [Next]_vars PROVE KnownInv'
    OBVIOUS
  <2>1. ListerInv /\ TypeOK /\ RemovalInv /\ BackedInv /\ OwedInv
    BY DEF OnceInv, ListerInv, TypeInv
  <2>2. StartInv /\ ListingOk /\ ListerAlive
    BY DEF KnownInv
  <2>3. StartInv'
    BY <2>1, <2>2, StartStep
  <2>4. ListingOk' /\ ListerAlive'
    BY <2>1, <2>2, ListingStep, AliveStep
  <2>5. ASSUME NEW c \in Child PROVE Seen(c)' /\ Heard(c)'
    <3>1. Rest(c) /\ Seen(c) /\ Heard(c)
      BY DEF OnceInv, EndingsInv, ForwardInv, KnownInv, Rest
    <3>2. GetOnce(c)
      BY <3>1 DEF Rest
    <3> QED
      BY <2>1, <2>2, <3>1, <3>2, SeenStep, HeardStep
  <2> QED
    BY <2>3, <2>4, <2>5 DEF KnownInv
<1> QED
  BY <1>1, <1>2, OnceHolds, EndingsHold, PTL DEF Spec

\* When nothing is in flight, every child that was created once has been
\* reported with its value, if the parent was created once: the exists chain
\* has started one listing chain, which has seen the child, whose get chain has
\* read it last (config_monitor.hpp:281-342).
THEOREM QuietChildrenAreKnown == Spec => []SteadyUpToDate
<1>1. OnceInv /\ KnownInv => SteadyUpToDate
  <2> SUFFICES ASSUME OnceInv, KnownInv, Quiescent, record, removal = "none", Steady(Parent),
                      NEW c \in Child, Steady(c)
               PROVE  view[c] = node[c]
    BY DEF SteadyUpToDate
  <2>1. /\ chains[Parent] \in Nat /\ births[Parent] \in Nat /\ c # Parent
    BY DEF OnceInv, ListerInv, TypeInv, TypeOK, Node
  <2>2. /\ \A k : None(requests, k) /\ None(completions, k)
        /\ HasAt(completions, c) = {} /\ DOMAIN completions = {}
        /\ \A d : ~Pending(d)
    BY DEF Quiescent, None, At, HasAt, Pending, Asks, Wakes
  <2>3. chains[Parent] # 0
    BY <2>2 DEF KnownInv, StartInv, Starting
  <2>4. chains[Parent] = 1
    BY <2>1, <2>3 DEF OnceInv, ListerInv, OwedInv, ListerPerCreation, Steady
  <2>5. c \in last_sub_path
    BY <2>2, <2>4 DEF KnownInv, Seen
  <2>6. chains[c] = 1
    BY <2>5 DEF OnceInv, GetOnce, Steady
  <2> QED
    BY <2>2, <2>6 DEF KnownInv, Heard
<1> QED
  BY <1>1, OnceHolds, KnownHolds, PTL

=============================================================================

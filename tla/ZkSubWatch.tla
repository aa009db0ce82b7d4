----------------------------- MODULE ZkSubWatch -----------------------------
(***************************************************************************)
(* config_monitor::watch_sub_path and its removal.                         *)
(*                                                                         *)
(* One call keeps three kinds of watch chains, each with user data of its  *)
(* own: an exists chain on the parent, which starts a listing chain when   *)
(* the parent is first seen and whenever it is created; a listing chain,   *)
(* which lists the children after every change and compares them with      *)
(* last_sub_path_; and for every child not in that set a get chain, which  *)
(* reports the child's values and its deletion.                            *)
(*                                                                         *)
(* The server handles requests in order, and an answer or event is put     *)
(* into completions_to_process by the step that sends it: what the IO      *)
(* thread does on the way, the watcher tables, depends on that order only. *)
(* Connection loss is ZkWatch's subject; of a session's expiry this module *)
(* has the outcome ZkSession describes, all in one step.                   *)
(*                                                                         *)
(* A written value is identified with the zxid of the write.               *)
(***************************************************************************)
EXTENDS Integers, Sequences, FiniteSets

CONSTANTS
    Parent,         \* the path of the call
    Child,          \* paths of its possible children
    Allowed,        \* which of "remove", "delete_parent" may happen
    MaxZxid,        \* bound: writes and deletes by other clients
    MaxExpiries     \* bound: expired sessions

ASSUME ParentAssumption == Parent \notin Child
ASSUME ChildAssumption == IsFiniteSet(Child)
ASSUME BoundAssumption == MaxZxid \in Nat /\ MaxExpiries \in Nat

Node == Child \cup {Parent}

VARIABLES
    \* ZooKeeper server
    zxid,           \* last transaction
    node,           \* node[t]: zxid of t's last write, Absent if t does not exist
    srvData,        \* nodes with a data watch
    srvChild,       \* Parent has a child watch
    \* client library
    requests,       \* sent, not yet handled
    data_watchers,  \* user data in active_node_watchers and active_exist_watchers
    child_watchers, \* user data in active_child_watchers
    completions,    \* completions_to_process
    \* cppzk and config_monitor
    eve,            \* the event slot of the exists chain
    chains,         \* chains[t]: listing chains (Parent) or get chains started
    last_sub_path,  \* last_sub_path_[Parent], NoList if there is no entry
    record,         \* watch_sub_record_ has the call
    removal,        \* progress of async_remove_watches
    to_remove,      \* paths whose watches it still has to remove
    \* what the user has been told, and history
    view,           \* argument of the last callback for each child
    high,           \* history: newest value reported for each child
    births,         \* history: how often each node was created
    expiries        \* expired sessions so far

server == <<zxid, node, srvData, srvChild, births>>
tables == <<data_watchers, child_watchers>>
listed == <<chains, last_sub_path>>
remove == <<removal, to_remove>>
told   == <<view, high>>
vars == <<server, requests, tables, completions, eve, listed, record, remove, told, expiries>>

Absent  == 0
Unheard == -1
Deleted == 0
NoList  == {Parent}         \* no set of children

\* User data: of the exists chain, of a listing chain, of a get chain.
ExistsData == <<Parent, 0>>
IsList(d) == d[1] = Parent /\ d[2] > 0
IsGet(d)  == d[1] # Parent

\* The children in any order.
Orders(S) == {s \in [1..Cardinality(S) -> S] : \A x \in S : \E i \in DOMAIN s : s[i] = x}

-----------------------------------------------------------------------------
(***************************************************************************)
(* The server, and the watcher tables on the client's side.                *)
(***************************************************************************)
Present == {c \in Child : node[c] # Absent}

\* Mutant: the tables are not told apart.
Mut_Collected(t, type) ==
    {d \in data_watchers \cup child_watchers : d[1] = t}

\* Mutant: a deletion does not find the listing chains.
Mut_CollectedKept(t, type) ==
    {d \in (IF type = "child" THEN child_watchers ELSE data_watchers) : d[1] = t}

\* Mutant: the watchers of other paths are found too.
Mut_CollectedAll(t, type) ==
    (IF type = "child" THEN {} ELSE data_watchers)
      \cup (IF type \in {"child", "deleted"} THEN child_watchers ELSE {})

\* collectWatchers: the tables in which an event on t finds its watchers.
Collected(t, type) ==
    {d \in (IF type = "child" THEN {} ELSE data_watchers)
             \cup (IF type \in {"child", "deleted"} THEN child_watchers ELSE {}) : d[1] = t}

\* Mutant: completions are put in front of the queue.
Mut_queue_completion(cs) == cs \o completions

queue_completion(cs) == completions \o cs

Event(ds, type) == IF ds = {} THEN <<>> ELSE <<[op |-> "event", ds |-> ds, type |-> type]>>

\* A transaction on t: its watches make one event; if the children of Parent
\* change, the child watch makes another.
Trigger(t, type, relist) ==
    LET ends  == t = Parent /\ type = "deleted"
        fired == IF t \in srvData \/ (ends /\ srvChild) THEN Collected(t, type) ELSE {}
        kids  == IF relist /\ srvChild THEN Collected(Parent, "child") ELSE {}
    IN  /\ srvData' = srvData \ {t}
        /\ srvChild' = (srvChild /\ ~relist /\ ~ends)
        /\ data_watchers' = data_watchers \ (fired \cup kids)
        /\ child_watchers' = child_watchers \ (fired \cup kids)
        /\ completions' = queue_completion(Event(fired, type) \o Event(kids, "child"))

SrvWrite(t) ==
    LET created == node[t] = Absent
    IN  /\ zxid < MaxZxid
        /\ t # Parent => node[Parent] # Absent
        /\ zxid' = zxid + 1
        /\ node' = [node EXCEPT ![t] = zxid + 1]
        /\ births' = [births EXCEPT ![t] = IF created THEN @ + 1 ELSE @]
        /\ Trigger(t, IF created THEN "created" ELSE "changed", created /\ t # Parent)
        /\ UNCHANGED <<requests, eve, listed, record, remove, told, expiries>>

\* Only an empty node can be deleted.
SrvDelete(t) ==
    /\ t = Parent => "delete_parent" \in Allowed /\ Present = {}
    /\ zxid < MaxZxid
    /\ node[t] # Absent
    /\ zxid' = zxid + 1
    /\ node' = [node EXCEPT ![t] = Absent]
    /\ Trigger(t, "deleted", t # Parent)
    /\ UNCHANGED <<births, requests, eve, listed, record, remove, told, expiries>>

\* The oldest request is answered.
Answers(op, answer) ==
    /\ requests # <<>>
    /\ Head(requests).op = op
    /\ requests' = Tail(requests)
    /\ completions' = queue_completion(<<answer>>)
    /\ UNCHANGED <<zxid, node, births, eve, listed, record, remove, told, expiries>>

\* exists sets a data watch whether or not the node is there.
SrvExists ==
    /\ Answers("exists", [op |-> "exists", rc |-> node[Parent] # Absent])
    /\ srvData' = srvData \cup {Parent}
    /\ data_watchers' = data_watchers \cup {ExistsData}
    /\ UNCHANGED <<srvChild, child_watchers>>

\* A listing and a get set their watch only if the node is there
\* (child_result_checker, data_result_checker).
SrvList ==
    LET d == Head(requests).d
        there == node[Parent] # Absent
    IN  /\ Answers("list", [op |-> "list", d |-> d, rc |-> there, kids |-> Present])
        /\ srvChild' = (srvChild \/ there)
        /\ child_watchers' = IF there THEN child_watchers \cup {d} ELSE child_watchers
        /\ UNCHANGED <<srvData, data_watchers>>

SrvGet ==
    LET d == Head(requests).d
        there == node[d[1]] # Absent
    IN  /\ Answers("get", [op |-> "get", d |-> d, rc |-> there, val |-> node[d[1]]])
        /\ srvData' = IF there THEN srvData \cup {d[1]} ELSE srvData
        /\ data_watchers' = IF there THEN data_watchers \cup {d} ELSE data_watchers
        /\ UNCHANGED <<srvChild, child_watchers>>

\* The listing of async_remove_watches sets no watch.
SrvPlainList ==
    /\ Answers("plain_list",
               [op |-> "plain_list", rc |-> node[Parent] # Absent, kids |-> Present])
    /\ UNCHANGED <<srvData, srvChild, tables>>

\* Remove all watches of a child's data, or all watches of any kind of Parent.
SrvRemoveWatches ==
    LET t == Head(requests).t
        found == t \in srvData \/ (t = Parent /\ srvChild)
    IN  /\ Answers("remove", [op |-> "remove"])
        /\ srvData' = srvData \ {t}
        /\ srvChild' = (srvChild /\ t # Parent)
        /\ data_watchers' = IF found THEN {d \in data_watchers : d[1] # t} ELSE data_watchers
        /\ child_watchers' = IF found /\ t = Parent THEN {} ELSE child_watchers

-----------------------------------------------------------------------------
(***************************************************************************)
(* The completion thread.                                                  *)
(***************************************************************************)
Completes(op) ==
    /\ completions # <<>>
    /\ Head(completions).op = op

Send(rs) == requests' = requests \o rs

Request(op, d) == [op |-> op, d |-> d]

\* Delivery of an event to one of its watchers.
Delivers(d) ==
    /\ Completes("event")
    /\ d \in Head(completions).ds
    /\ completions' = IF Head(completions).ds = {d} THEN Tail(completions)
                      ELSE [completions EXCEPT ![1].ds = @ \ {d}]
    /\ UNCHANGED <<server, tables, listed, record, remove, expiries>>

\* wfn of watch_path_event.
RunExistsWatcher ==
    /\ Delivers(ExistsData)
    /\ eve' = Head(completions).type
    /\ Send(<<Request("exists", ExistsData)>>)
    /\ UNCHANGED told

\* wfn of async_get_sub_path: a deletion ends the chain.
ListsAgain(type) == type # "deleted"

RunListWatcher(d) ==
    /\ IsList(d)
    /\ Delivers(d)
    /\ Send(IF ListsAgain(Head(completions).type) THEN <<Request("list", d)>> ELSE <<>>)
    /\ UNCHANGED <<eve, told>>

\* wfn of async_get_path_value: a deletion is reported and ends the chain.
RunGetWatcher(d) ==
    /\ IsGet(d)
    /\ Delivers(d)
    /\ IF Head(completions).type = "deleted"
       THEN view' = [view EXCEPT ![d[1]] = Deleted] /\ UNCHANGED requests
       ELSE Send(<<Request("get", d)>>) /\ UNCHANGED view
    /\ UNCHANGED <<eve, high>>

\* Mutant: every event of the parent starts a listing chain.
Mut_Starts(e) == TRUE

\* is_dummy_event or is_create_event.
Starts(e) == e \in {"dummy", "created"}

\* The callback of watch_path_event: a new listing chain.
RunExists ==
    LET first == Head(completions).rc /\ Starts(eve)
        d == <<Parent, chains[Parent] + 1>>
    IN  /\ Completes("exists")
        /\ completions' = Tail(completions)
        /\ Send(IF first THEN <<Request("list", d)>> ELSE <<>>)
        /\ chains' = IF first THEN [chains EXCEPT ![Parent] = @ + 1] ELSE chains
        /\ UNCHANGED <<server, tables, eve, last_sub_path, record, remove, told, expiries>>

\* Mutants: all children are taken for new, or none after the first listing.
Mut_AllNew(kids) == kids
Mut_NoneNew(kids) == IF last_sub_path = NoList THEN kids ELSE {}

\* The children to monitor: all of them if there is no set to compare with.
New(kids) == IF last_sub_path = NoList THEN kids ELSE kids \ last_sub_path

\* The callback of async_get_sub_path: monitor(child) for every new child.
RunList ==
    LET c == Head(completions)
    IN  /\ Completes("list")
        /\ completions' = Tail(completions)
        /\ IF c.rc
           THEN /\ \E order \in Orders(New(c.kids)) :
                      Send([i \in DOMAIN order |->
                              Request("get", <<order[i], chains[order[i]] + 1>>)])
                /\ chains' = [t \in Node |-> IF t \in New(c.kids) THEN chains[t] + 1 ELSE chains[t]]
                /\ last_sub_path' = c.kids
           ELSE UNCHANGED <<requests, listed>>
        /\ UNCHANGED <<server, tables, eve, record, remove, told, expiries>>

\* The callback of monitor: an error without a deletion event is dropped.
RunGet ==
    LET c == Head(completions)
        child == c.d[1]
    IN  /\ Completes("get")
        /\ completions' = Tail(completions)
        /\ IF c.rc
           THEN /\ view' = [view EXCEPT ![child] = c.val]
                /\ high' = [high EXCEPT ![child] = IF c.val > @ THEN c.val ELSE @]
           ELSE UNCHANGED told
        /\ UNCHANGED <<server, requests, tables, eve, listed, record, remove, expiries>>

\* The end of async_remove_watches, whatever the result code is.
RemovalDone ==
    /\ removal' = "done"
    /\ to_remove' = <<>>
    /\ last_sub_path' = NoList
    /\ record' = FALSE
    /\ UNCHANGED requests

RemoveNext(todo) ==
    /\ to_remove' = todo
    /\ Send(<<[op |-> "remove", t |-> Head(todo)]>>)

RunPlainList ==
    LET c == Head(completions)
    IN  /\ Completes("plain_list")
        /\ completions' = Tail(completions)
        /\ \/ /\ ~c.rc
              /\ RemovalDone
           \/ /\ c.rc
              /\ removal' = "removing"
              /\ \E order \in Orders(c.kids) : RemoveNext(Append(order, Parent))
              /\ UNCHANGED <<last_sub_path, record>>
        /\ UNCHANGED <<server, tables, eve, chains, told, expiries>>

\* Mutant: the completion of the last removal is taken for one in the middle.
Mut_Finished(todo) == FALSE

Finished(todo) == todo = <<>>

\* The result codes of all but the last removal are not looked at.
RunRemove ==
    /\ Completes("remove")
    /\ completions' = Tail(completions)
    /\ IF Finished(Tail(to_remove)) THEN RemovalDone
       ELSE /\ Tail(to_remove) # <<>>
            /\ RemoveNext(Tail(to_remove))
            /\ UNCHANGED <<removal, last_sub_path, record>>
    /\ UNCHANGED <<server, tables, eve, chains, told, expiries>>

-----------------------------------------------------------------------------
(***************************************************************************)
(* The user, and the session.                                              *)
(***************************************************************************)
\* watch_sub_path, called once.
WatchSubPath ==
    /\ ~record /\ removal = "none"
    /\ record' = TRUE
    /\ Send(<<Request("exists", ExistsData)>>)
    /\ UNCHANGED <<server, tables, completions, eve, listed, remove, told, expiries>>

\* async_remove_watches(Parent, watch_sub_path).
RemoveWatches ==
    /\ "remove" \in Allowed
    /\ record /\ removal = "none"
    /\ removal' = "listing"
    /\ Send(<<[op |-> "plain_list"]>>)
    /\ UNCHANGED <<server, tables, completions, eve, listed, record, to_remove, told, expiries>>

\* Mutant: the children of the old session are remembered.
Mut_AfterExpiry == last_sub_path

\* last_sub_path_.clear().
AfterExpiry == NoList

\* The session expires and the record is watched again on a new handle.  A
\* removal under way is lost with the old one.
Expire ==
    /\ expiries < MaxExpiries
    /\ expiries' = expiries + 1
    /\ srvData' = {} /\ srvChild' = FALSE
    /\ data_watchers' = {} /\ child_watchers' = {}
    /\ completions' = <<>>
    /\ requests' = IF record THEN <<Request("exists", ExistsData)>> ELSE <<>>
    /\ eve' = "dummy"
    /\ chains' = [t \in Node |-> 0]
    /\ last_sub_path' = AfterExpiry
    /\ removal' = IF removal \in {"listing", "removing"} THEN "lost" ELSE removal
    /\ to_remove' = <<>>
    /\ UNCHANGED <<zxid, node, births, record, told>>

-----------------------------------------------------------------------------
Init ==
    /\ zxid = 0
    /\ node = [t \in Node |-> Absent]
    /\ srvData = {} /\ srvChild = FALSE
    /\ requests = <<>>
    /\ data_watchers = {} /\ child_watchers = {}
    /\ completions = <<>>
    /\ eve = "dummy"
    /\ chains = [t \in Node |-> 0]
    /\ last_sub_path = NoList
    /\ record = FALSE
    /\ removal = "none" /\ to_remove = <<>>
    /\ view = [c \in Child |-> Unheard]
    /\ high = [c \in Child |-> 0]
    /\ births = [t \in Node |-> 0]
    /\ expiries = 0

OtherClients == \E t \in Node : SrvWrite(t) \/ SrvDelete(t)

ServerStep == SrvExists \/ SrvList \/ SrvGet \/ SrvPlainList \/ SrvRemoveWatches

\* The watchers the oldest event has still to be delivered to.
Recipients == IF Completes("event") THEN Head(completions).ds ELSE {}

CompletionStep ==
    \/ RunExistsWatcher
    \/ \E d \in Recipients : RunListWatcher(d) \/ RunGetWatcher(d)
    \/ RunExists \/ RunList \/ RunGet \/ RunPlainList \/ RunRemove

Next == OtherClients \/ ServerStep \/ CompletionStep \/ WatchSubPath \/ RemoveWatches \/ Expire

Spec == Init /\ [][Next]_vars

\* The server answers and the completion thread runs; nobody has to write,
\* call or lose a session.
FairSpec == Spec /\ WF_vars(ServerStep) /\ WF_vars(CompletionStep)

-----------------------------------------------------------------------------
(***************************************************************************)
(* Correctness.                                                            *)
(***************************************************************************)
ListData == {Parent} \X (Nat \ {0})
GetData  == Child \X (Nat \ {0})
UserData == {ExistsData} \cup ListData \cup GetData

RequestMsg ==
    [op : {"exists"}, d : {ExistsData}] \cup [op : {"list"}, d : ListData]
      \cup [op : {"get"}, d : GetData]
      \cup [op : {"plain_list"}] \cup [op : {"remove"}, t : Node]

EventMsg ==
    [op : {"event"}, ds : (SUBSET UserData) \ {{}}, type : {"created", "changed", "deleted"}]
      \cup [op : {"event"}, ds : (SUBSET ListData) \ {{}}, type : {"child"}]

AnswerMsg ==
    [op : {"exists"}, rc : BOOLEAN]
      \cup [op : {"list"}, d : ListData, rc : BOOLEAN, kids : SUBSET Child]
      \cup [op : {"get"}, d : GetData, rc : BOOLEAN, val : Nat]
      \cup [op : {"plain_list"}, rc : BOOLEAN, kids : SUBSET Child]
      \cup [op : {"remove"}]

\* Every variable has its type, and the tables and queues hold the user data
\* of the chains they are for; children exist only under their parent.
TypeOK ==
    /\ zxid \in Nat
    /\ node \in [Node -> Nat]
    /\ Present # {} => node[Parent] # Absent
    /\ srvData \in SUBSET Node
    /\ srvChild \in BOOLEAN
    /\ requests \in Seq(RequestMsg)
    /\ data_watchers \in SUBSET ({ExistsData} \cup GetData)
    /\ child_watchers \in SUBSET ListData
    /\ completions \in Seq(EventMsg \cup AnswerMsg)
    /\ eve \in {"dummy", "created", "changed", "deleted"}
    /\ chains \in [Node -> Nat]
    /\ last_sub_path \in (SUBSET Child) \cup {NoList}
    /\ record \in BOOLEAN
    /\ removal \in {"none", "listing", "removing", "lost", "done"}
    /\ to_remove \in Seq(Node)
    /\ view \in [Child -> Int]
    /\ high \in [Child -> Nat]
    /\ births \in [Node -> Nat]
    /\ expiries \in Nat

\* A watcher is in the client's tables only while the server has the watch
\* that will fire it, and a listing or get chain waits only at a node that
\* exists: what ends or moves a chain on is never missed (collectWatchers,
\* zk_hashtable.c:285, and the one-shot watches of the server).
WatchersBacked ==
    /\ \A d \in data_watchers : d[1] \in srvData /\ (IsGet(d) => node[d[1]] # Absent)
    /\ child_watchers # {} => srvChild /\ node[Parent] # Absent

\* The chain of user data d has not ended: its next request is on the way, its
\* watch is set, or an event will make it ask again.
Lives(d) ==
    \/ \E i \in DOMAIN requests : requests[i].op \in {"list", "get"} /\ requests[i].d = d
    \/ d \in data_watchers \cup child_watchers
    \/ \E i \in DOMAIN completions :
         completions[i].op = "event" /\ completions[i].type # "deleted" /\ d \in completions[i].ds

Chains(t) == {n \in 1..chains[t] : Lives(<<t, n>>)}

\* Each creation of the parent starts one listing chain at most, whatever is
\* written to the parent and however the events of its data come in: a parent
\* that was created once is listed once after every change of its children
\* (config_monitor.hpp:303-341).
ListerPerCreation == chains[Parent] <= births[Parent]

\* A child that was created only once is monitored by one get chain at most:
\* each of its values is reported once (config_monitor.hpp:334).
OneGetChain ==
    removal # "done" =>
        \A c \in Child : births[c] = 1 => \A m, n \in Chains(c) : m = n

\* A child in last_sub_path_, which later listings pass over, is monitored, as
\* long as it was created once and still exists (config_monitor.hpp:331).
ListedMonitored ==
    removal = "none" =>
        \A c \in last_sub_path \ {Parent} :
            births[c] = 1 /\ node[c] # Absent => Chains(c) # {}

\* The reports about each child go forward in time.
View == INSTANCE WatchView WITH Watch <- Child, now <- zxid

\* watch_sub_path implements WatchView for each child, whatever is deleted,
\* created again, removed or lost with a session: get chains of one child that
\* follow or overlap each other never report backwards
\* (config_monitor.hpp:289-301).
ReportsForward == View!Spec

Steady(t) == births[t] = 1 /\ node[t] # Absent

\* Every child that was created once ends up reported with its last value, if
\* its parent was created once, before the watch or after it, and also after
\* the session has expired (watch_sub_path, config_monitor.hpp:281).
ChildrenConverge ==
    \A c \in Child :
        <>[](record /\ removal = "none" /\ Steady(Parent) /\ Steady(c) => view[c] = node[c])

\* A removal goes through all children to its end, whatever their watches do
\* meanwhile, unless the session expires (async_remove_watches, cppzk.hpp:520).
RemovalEnds == removal = "listing" ~> removal \in {"done", "lost"}

Quiescent == requests = <<>> /\ completions = <<>>

\* When nothing is in flight, the user knows the value of every child that was
\* created once, if its parent was created once: no event, listing or get of
\* any order has left a child unlisted, unread or reported with an older value
\* (watch_sub_path, config_monitor.hpp:281-342).
SteadyUpToDate ==
    Quiescent /\ record /\ removal = "none" /\ Steady(Parent) =>
        \A c \in Child : Steady(c) => view[c] = node[c]

\* A child that was created only once and was reported as deleted is gone: a
\* deletion is never reported because of the parent, a listing or a removal
\* (config_monitor.hpp:289-301, cppzk.hpp:304).
DeletionsTrue ==
    \A c \in Child : births[c] = 1 /\ view[c] = Deleted => node[c] = Absent

\* "Async monitor children path changed of the target path. It will set the
\* next watch point automatically" (config_monitor.hpp:272-274): when nothing
\* is in flight, the user knows the value of every child.
ChildrenUpToDate ==
    Quiescent /\ record /\ removal = "none" =>
        \A c \in Child : node[c] # Absent => view[c] = node[c]

=============================================================================

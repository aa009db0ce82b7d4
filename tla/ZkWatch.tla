------------------------------ MODULE ZkWatch ------------------------------
(***************************************************************************)
(* config_monitor::watch_path over one ZooKeeper session.                  *)
(*                                                                         *)
(* watch_path promises to report every change of a path to a user callback *)
(* although ZooKeeper watches are one-shot: each event must be followed by *)
(* a new exists request that both re-arms the watch and decides which      *)
(* callback to run, and a changed value is fetched by a further get.       *)
(* Four actors take part:                                                  *)
(*   - user threads calling watch_path and async_remove_watches;           *)
(*   - the ZooKeeper server, written to by other clients (external);       *)
(*   - the client's IO thread, which moves answers and watch events from   *)
(*     the socket to completions_to_process and keeps the watcher tables;  *)
(*   - the client's completion thread, which runs cppzk's watcher function *)
(*     and completions and, inside them, the user's callbacks.             *)
(* The connection may be lost and re-established; the session survives.    *)
(*                                                                         *)
(* A written value is identified with the zxid of the write.               *)
(***************************************************************************)
EXTENDS Integers, Sequences

CONSTANTS
    Path,           \* znodes of interest
    Watch,          \* watch_path calls; each owns one exists_userdata
    PathOf,         \* PathOf[w]: the path that call w watches
    NoWatch,        \* no entry in watch_record_
    Allowed,        \* which of "delete", "remove", "loss" may happen
    MaxZxid,        \* bound: writes and deletes by other clients
    MaxOutstanding  \* bound: queued work when a user calls remove_watches

ASSUME PathOfAssumption == PathOf \in [Watch -> Path]
ASSUME NoWatchAssumption == NoWatch \notin Watch
ASSUME BoundAssumption == MaxZxid \in Nat /\ MaxOutstanding \in Nat

VARIABLES
    \* ZooKeeper server
    zxid,           \* last transaction
    node,           \* node[p]: zxid of p's last write, Absent if p does not exist
    srvWatch,       \* paths this connection has a data watch on
    resync,         \* entries of the SetWatches request still to be handled
    \* connection
    conn,           \* "on", "cleanup" (handle_error is running) or "off"
    requests,       \* sent, not yet handled by the server
    wire,           \* answers and events the IO thread has not read
    \* client library
    node_watchers,  \* active_node_watchers
    exist_watchers, \* active_exist_watchers
    last_zxid,      \* zxid of the last answer read
    completions,    \* completions_to_process
    \* cppzk and config_monitor
    eve,            \* eve[w]: the event slot of the exists_userdata
    call,           \* progress of the watch_path call
    watch_record,   \* watch_record_
    \* what the user has been told
    view,           \* argument of the last callback
    high,           \* history: newest value ever passed to the callback
    removed         \* history: paths whose removal was reported successful

server == <<zxid, node, srvWatch, resync>>
client == <<node_watchers, exist_watchers, last_zxid>>
user   == <<call, watch_record, removed>>
told   == <<view, high>>
vars   == <<server, conn, requests, wire, client, completions, eve, user, told>>

Absent  == 0
Unheard == -1       \* the callback has not run yet
Deleted == 0        \* the last callback was path_event::del

EventType == {"created", "deleted", "changed"}
Rc == {"ZOK", "ZNONODE", "ZNOWATCHER", "ZCONNECTIONLOSS"}

Request == [op : {"exists", "get", "remove"}, w : Watch]
Reply   == [op : {"exists", "get", "remove"}, w : Watch, rc : Rc, val : Nat, zxid : Nat]
WatcherEvent == [op : {"event"}, p : Path, type : EventType]
FiredEvent   == [op : {"event"}, ws : SUBSET Watch, type : EventType]
SetWatchesEntry == {"data", "exist"} \X Path

-----------------------------------------------------------------------------
(***************************************************************************)
(* Requests.  zoo_awexists, zoo_awget and zoo_aremove_all_watches append   *)
(* to the request queue inside enter_critical, which handle_error holds    *)
(* while it fails the outstanding requests.                                *)
(***************************************************************************)
Submit(op, w) ==
    /\ conn # "cleanup"
    /\ requests' = Append(requests, [op |-> op, w |-> w])

Answer(r, rc, val) ==
    [op |-> r.op, w |-> r.w, rc |-> rc, val |-> val, zxid |-> zxid]

-----------------------------------------------------------------------------
(***************************************************************************)
(* The server.                                                             *)
(***************************************************************************)
\* A transaction on p: the one-shot watch, if set, turns into an event.
Trigger(p, type) ==
    IF p \in srvWatch
    THEN /\ srvWatch' = srvWatch \ {p}
         /\ wire' = Append(wire, [op |-> "event", p |-> p, type |-> type])
    ELSE UNCHANGED <<srvWatch, wire>>

SrvWrite(p) ==
    /\ zxid < MaxZxid
    /\ zxid' = zxid + 1
    /\ node' = [node EXCEPT ![p] = zxid + 1]
    /\ Trigger(p, IF node[p] = Absent THEN "created" ELSE "changed")
    /\ UNCHANGED <<resync, conn, requests, client, completions, eve, user, told>>

SrvDelete(p) ==
    /\ "delete" \in Allowed
    /\ zxid < MaxZxid
    /\ node[p] # Absent
    /\ zxid' = zxid + 1
    /\ node' = [node EXCEPT ![p] = Absent]
    /\ Trigger(p, "deleted")
    /\ UNCHANGED <<resync, conn, requests, client, completions, eve, user, told>>

\* One entry of SetWatches: the server compares the node with the client's
\* relativeZxid and either sends the event that was missed or sets the watch.
SrvSetWatch(entry) ==
    LET p == entry[2]
        missed == IF entry[1] = "exist"
                  THEN IF node[p] # Absent THEN {"created"} ELSE {}
                  ELSE IF node[p] = Absent THEN {"deleted"}
                       ELSE IF node[p] > last_zxid THEN {"changed"} ELSE {}
    IN  /\ conn = "on"
        /\ entry \in resync
        /\ resync' = resync \ {entry}
        /\ \/ /\ missed = {}
              /\ srvWatch' = srvWatch \cup {p}
              /\ UNCHANGED wire
           \/ /\ \E type \in missed :
                   wire' = Append(wire, [op |-> "event", p |-> p, type |-> type])
              /\ UNCHANGED srvWatch
        /\ UNCHANGED <<zxid, node, conn, requests, client, completions, eve, user, told>>

\* The server handles requests in order, after SetWatches.
SrvHandles(op) ==
    /\ conn = "on"
    /\ resync = {}
    /\ requests # <<>>
    /\ Head(requests).op = op
    /\ requests' = Tail(requests)
    /\ UNCHANGED <<zxid, node, resync, conn, client, completions, eve, user, told>>

SrvExists ==
    LET r == Head(requests)
        p == PathOf[r.w]
    IN  /\ SrvHandles("exists")
        /\ srvWatch' = srvWatch \cup {p}
        /\ wire' = Append(wire,
                     Answer(r, IF node[p] = Absent THEN "ZNONODE" ELSE "ZOK", 0))

SrvGet ==
    LET r == Head(requests)
        p == PathOf[r.w]
    IN  /\ SrvHandles("get")
        /\ wire' = Append(wire,
                     Answer(r, IF node[p] = Absent THEN "ZNONODE" ELSE "ZOK", node[p]))
        /\ UNCHANGED srvWatch

SrvRemoveWatches ==
    LET r == Head(requests)
        p == PathOf[r.w]
    IN  /\ SrvHandles("remove")
        /\ srvWatch' = srvWatch \ {p}
        /\ wire' = Append(wire,
                     Answer(r, IF p \in srvWatch THEN "ZOK" ELSE "ZNOWATCHER", 0))

-----------------------------------------------------------------------------
(***************************************************************************)
(* The IO thread.                                                          *)
(***************************************************************************)
WatchersOn(p) == {w \in Watch : PathOf[w] = p}

\* Mutant: completions are put in front of the queue.
Mut_queue_completion(c) == <<c>> \o completions

queue_completion(c) == Append(completions, c)

\* zookeeper_process, WATCHER_EVENT_XID: collectWatchers moves the watchers
\* of the path out of both tables.
IoEvent ==
    LET e == Head(wire)
        fired == (node_watchers \cup exist_watchers) \cap WatchersOn(e.p)
    IN  /\ conn = "on"
        /\ wire # <<>>
        /\ e.op = "event"
        /\ wire' = Tail(wire)
        /\ node_watchers' = node_watchers \ fired
        /\ exist_watchers' = exist_watchers \ fired
        /\ completions' = queue_completion(
                            [op |-> "event", ws |-> fired, type |-> e.type])
        /\ UNCHANGED <<server, conn, requests, last_zxid, eve, user, told>>

\* Mutants: an absent node's watcher goes nowhere, or goes into both tables
\* when the node exists.
Mut_ActivateNothing(m) == {}
Mut_ActivateBoth(m) == IF m.op = "exists" THEN {m.w} ELSE {}

\* activateWatcher with exists_result_checker.
ActivateNode(m)  == IF m.op = "exists" /\ m.rc = "ZOK" THEN {m.w} ELSE {}
ActivateExist(m) == IF m.op = "exists" /\ m.rc = "ZNONODE" THEN {m.w} ELSE {}

\* Mutant: the client keeps its watchers.
Mut_DeactivateNone(m) == {}

\* deactivateWatcher: every watcher of the path, in both tables.
Deactivate(m) == IF m.op = "remove" /\ m.rc = "ZOK" THEN WatchersOn(PathOf[m.w]) ELSE {}

\* zookeeper_process, the answer to the oldest request.
IoReply ==
    LET m == Head(wire)
    IN  /\ conn = "on"
        /\ wire # <<>>
        /\ m.op # "event"
        /\ wire' = Tail(wire)
        /\ last_zxid' = m.zxid
        /\ node_watchers' = (node_watchers \cup ActivateNode(m)) \ Deactivate(m)
        /\ exist_watchers' = (exist_watchers \cup ActivateExist(m)) \ Deactivate(m)
        /\ completions' = queue_completion(m)
        /\ UNCHANGED <<server, conn, requests, eve, user, told>>

\* The connection breaks (or a connection attempt fails): handle_error.  The
\* server forgets the watches of the connection.
Disconnect ==
    /\ "loss" \in Allowed
    /\ conn \in {"on", "off"}
    /\ conn' = "cleanup"
    /\ srvWatch' = {}
    /\ resync' = {}
    /\ UNCHANGED <<zxid, node, requests, wire, client, completions, eve, user, told>>

\* Mutant: the requests fail with a code of another failure.
Mut_Lost(r) == [op |-> r.op, w |-> r.w, rc |-> "ZCLOSING", val |-> 0, zxid |-> 0]

Lost(r) == [op |-> r.op, w |-> r.w, rc |-> "ZCONNECTIONLOSS", val |-> 0, zxid |-> 0]

\* cleanup_bufs: unread bytes are dropped, so the request of an unread answer
\* fails like one that was never answered; an unread event is gone.
IoDropMessage ==
    LET m == Head(wire)
    IN  /\ conn = "cleanup"
        /\ wire # <<>>
        /\ wire' = Tail(wire)
        /\ completions' = IF m.op = "event" THEN completions
                          ELSE queue_completion(Lost(m))
        /\ UNCHANGED <<server, conn, requests, client, eve, user, told>>

\* free_completions: the remaining requests fail in the order they were made.
IoFailRequest ==
    /\ conn = "cleanup"
    /\ wire = <<>>
    /\ requests # <<>>
    /\ requests' = Tail(requests)
    /\ completions' = queue_completion(Lost(Head(requests)))
    /\ UNCHANGED <<server, conn, wire, client, eve, user, told>>

IoCleanupDone ==
    /\ conn = "cleanup"
    /\ wire = <<>>
    /\ requests = <<>>
    /\ conn' = "off"
    /\ UNCHANGED <<server, requests, wire, client, completions, eve, user, told>>

\* The handshake succeeds within the session: send_set_watches puts the
\* contents of the watcher tables in front of every other request.
Reconnect ==
    /\ conn = "off"
    /\ conn' = "on"
    /\ resync' = {<<"data", PathOf[w]>> : w \in node_watchers}
                   \cup {<<"exist", PathOf[w]>> : w \in exist_watchers}
    /\ UNCHANGED <<zxid, node, srvWatch, requests, wire, client, completions,
                   eve, user, told>>

-----------------------------------------------------------------------------
(***************************************************************************)
(* The completion thread.                                                  *)
(***************************************************************************)
Completes(op) ==
    /\ completions # <<>>
    /\ Head(completions).op = op

\* wfn of watch_path_event, for one watcher of the delivery list.
RunWatcher(w) ==
    LET c == Head(completions)
    IN  /\ Completes("event")
        /\ w \in c.ws
        /\ eve' = [eve EXCEPT ![w] = c.type]
        /\ Submit("exists", w)
        /\ completions' = [completions EXCEPT ![1].ws = @ \ {w}]
        /\ UNCHANGED <<server, conn, wire, client, user, told>>

WatchersDone ==
    /\ Completes("event")
    /\ Head(completions).ws = {}
    /\ completions' = Tail(completions)
    /\ UNCHANGED <<server, conn, requests, wire, client, eve, user, told>>

\* Mutants: the value is not fetched at first, or not after a change.
Mut_FetchNotFirst(e) == e \in {"created", "changed"}
Mut_FetchNotChanged(e) == e \in {"dummy", "created"}

\* is_dummy_event, is_create_event or is_changed_event.
Fetch(e) == e \in {"dummy", "created", "changed"}

\* An error while the event slot holds a deletion.
ReportDel(c) == c.rc # "ZOK" /\ eve[c.w] = "deleted"

\* exists_completion and the callback watch_path gives it.
RunExists ==
    LET c == Head(completions)
    IN  /\ Completes("exists")
        /\ completions' = Tail(completions)
        /\ \/ /\ ReportDel(c)
              /\ view' = [view EXCEPT ![c.w] = Deleted]
              /\ UNCHANGED requests
           \/ /\ ~ReportDel(c) /\ Fetch(eve[c.w])
              /\ Submit("get", c.w)
              /\ UNCHANGED view
           \/ /\ ~ReportDel(c) /\ ~Fetch(eve[c.w])
              /\ UNCHANGED <<requests, view>>
        /\ UNCHANGED <<server, conn, wire, client, eve, user, high>>

\* Completion of async_get_path_value.
RunGet ==
    LET c == Head(completions)
    IN  /\ Completes("get")
        /\ completions' = Tail(completions)
        /\ IF c.rc = "ZOK"
           THEN /\ view' = [view EXCEPT ![c.w] = c.val]
                /\ high' = [high EXCEPT ![c.w] = IF c.val > @ THEN c.val ELSE @]
           ELSE UNCHANGED told
        /\ UNCHANGED <<server, conn, requests, wire, client, eve, user>>

\* Mutant: the user is told that the removal succeeded whatever rc is.
Mut_RemovedNow(c) == {PathOf[c.w]}

\* The paths whose removal the user is told has succeeded.
RemovedNow(c) == IF c.rc = "ZOK" THEN {PathOf[c.w]} ELSE {}

\* Completion of async_remove_watches: the record is erased whatever rc is.
RunRemove ==
    LET c == Head(completions)
        p == PathOf[c.w]
    IN  /\ Completes("remove")
        /\ completions' = Tail(completions)
        /\ watch_record' = [watch_record EXCEPT ![p] = NoWatch]
        /\ removed' = removed \cup RemovedNow(c)
        /\ UNCHANGED <<server, conn, requests, wire, client, eve, call, told>>

-----------------------------------------------------------------------------
(***************************************************************************)
(* User threads.                                                           *)
(***************************************************************************)
\* watch_path, first step: the record, under record_mtx_.
WatchRecord(w) ==
    /\ call[w] = "idle"
    /\ call' = [call EXCEPT ![w] = "recorded"]
    /\ watch_record' = [watch_record EXCEPT ![PathOf[w]] = w]
    /\ removed' = removed \ {PathOf[w]}
    /\ UNCHANGED <<server, conn, requests, wire, client, completions, eve, told>>

\* watch_path, second step: watch_path_event sends the first exists.
WatchSend(w) ==
    /\ call[w] = "recorded"
    /\ call' = [call EXCEPT ![w] = "watching"]
    /\ Submit("exists", w)
    /\ UNCHANGED <<server, conn, wire, client, completions, eve, watch_record,
                   removed, told>>

\* async_remove_watches(PathOf[w], watch_path).
RemoveWatches(w) ==
    /\ "remove" \in Allowed
    /\ call[w] = "watching"
    /\ Len(requests) + Len(wire) + Len(completions) < MaxOutstanding
    /\ Submit("remove", w)
    /\ UNCHANGED <<server, conn, wire, client, completions, eve, user, told>>

-----------------------------------------------------------------------------
Init ==
    /\ zxid = 0
    /\ node = [p \in Path |-> Absent]
    /\ srvWatch = {}
    /\ resync = {}
    /\ conn = "on"
    /\ requests = <<>>
    /\ wire = <<>>
    /\ node_watchers = {}
    /\ exist_watchers = {}
    /\ last_zxid = 0
    /\ completions = <<>>
    /\ eve = [w \in Watch |-> "dummy"]
    /\ call = [w \in Watch |-> "idle"]
    /\ watch_record = [p \in Path |-> NoWatch]
    /\ view = [w \in Watch |-> Unheard]
    /\ high = [w \in Watch |-> 0]
    /\ removed = {}

OtherClients == \E p \in Path : SrvWrite(p) \/ SrvDelete(p)

ServerStep ==
    \/ \E entry \in SetWatchesEntry : SrvSetWatch(entry)
    \/ SrvExists
    \/ SrvGet
    \/ SrvRemoveWatches

IoStep == IoEvent \/ IoReply \/ IoDropMessage \/ IoFailRequest \/ IoCleanupDone \/ Reconnect

CompletionStep ==
    \/ \E w \in Watch : RunWatcher(w)
    \/ WatchersDone
    \/ RunExists
    \/ RunGet
    \/ RunRemove

Next ==
    \/ OtherClients
    \/ ServerStep
    \/ IoStep
    \/ Disconnect
    \/ CompletionStep
    \/ \E w \in Watch : WatchRecord(w) \/ WatchSend(w) \/ RemoveWatches(w)

Spec == Init /\ [][Next]_vars

\* The server answers, both client threads keep running and a started
\* watch_path call finishes; nobody has to write, call or disconnect.
FairSpec ==
    /\ Spec
    /\ WF_vars(ServerStep)
    /\ WF_vars(IoStep)
    /\ WF_vars(CompletionStep)
    /\ \A w \in Watch : WF_vars(WatchSend(w))

-----------------------------------------------------------------------------
(***************************************************************************)
(* Correctness.                                                            *)
(***************************************************************************)
\* Every variable has its type; no request outlives its watch_path call.
TypeOK ==
    /\ zxid \in Nat
    /\ node \in [Path -> Nat]
    /\ srvWatch \in SUBSET Path
    /\ resync \in SUBSET SetWatchesEntry
    /\ conn \in {"on", "cleanup", "off"}
    /\ requests \in Seq(Request)
    /\ wire \in Seq(Reply \cup WatcherEvent)
    /\ node_watchers \in SUBSET Watch
    /\ exist_watchers \in SUBSET Watch
    /\ last_zxid \in Nat
    /\ completions \in Seq(Reply \cup FiredEvent)
    /\ eve \in [Watch -> EventType \cup {"dummy"}]
    /\ call \in [Watch -> {"idle", "recorded", "watching"}]
    /\ watch_record \in [Path -> Watch \cup {NoWatch}]
    /\ view \in [Watch -> Int]
    /\ high \in [Watch -> Nat]
    /\ removed \in SUBSET Path

Armed == node_watchers \cup exist_watchers

\* Where the one-shot watch of w can be: in a request that will set it, in the
\* unread answer that will activate it, in a watcher table, or in an event
\* whose watcher function will ask for it again.
Carriers(w) ==
    {<<"requested", i>> : i \in {j \in DOMAIN requests :
                                   requests[j].op = "exists" /\ requests[j].w = w}}
      \cup {<<"answered", i>> : i \in {j \in DOMAIN wire :
                                         wire[j].op = "exists" /\ wire[j].w = w}}
      \cup {<<"node", 0>> : x \in {w} \cap node_watchers}
      \cup {<<"exist", 0>> : x \in {w} \cap exist_watchers}
      \cup {<<"fired", i>> : i \in {j \in DOMAIN completions :
                                      completions[j].op = "event" /\ w \in completions[j].ws}}

\* Re-arming never doubles a watch (watch_path_event's wfn, cppzk.hpp:338):
\* whatever is lost, removed or re-sent, a watch_path call is never in two
\* places at once, so one change never runs its callback chain twice.
OneCarrier == \A w \in Watch : \A a, b \in Carriers(w) : a = b

\* Reading m takes every watcher of p out of the tables.
Ends(m, p) ==
    \/ m.op = "event" /\ m.p = p
    \/ m.op = "remove" /\ m.rc = "ZOK" /\ PathOf[m.w] = p

\* The server has the watch on p, or what ends it is unread, after message i.
CoveredAfter(i, p) ==
    p \in srvWatch \/ \E j \in DOMAIN wire : j > i /\ Ends(wire[j], p)

\* A watcher the client believes to be active is backed by the server: the
\* server has the watch, or its event, its removal or its SetWatches entry is
\* still on the way (activateWatcher, collectWatchers, send_set_watches).
ArmedCovered ==
    conn = "on" =>
        \A w \in Armed :
            \/ CoveredAfter(0, PathOf[w])
            \/ w \in node_watchers /\ <<"data", PathOf[w]>> \in resync
            \/ w \in exist_watchers /\ <<"exist", PathOf[w]>> \in resync

\* The same for a watcher that an unread answer is about to activate.
AnsweredCovered ==
    conn = "on" =>
        \A i \in DOMAIN wire :
            wire[i].op = "exists" => CoveredAfter(i, PathOf[wire[i].w])

\* Without a connection the server holds no watch and nothing is unread.
OfflineForgets ==
    /\ conn # "on" => srvWatch = {} /\ resync = {}
    /\ conn = "off" => wire = <<>>

CoverInv == TypeOK /\ OfflineForgets /\ AnsweredCovered /\ ArmedCovered

\* Values are reported in the order they were written: a callback never gets a
\* value older than one it has seen, nor the same value again after a del
\* (the get of watch_path's callback, config_monitor.hpp:262).
NoOldValue ==
    [][\A w \in Watch :
         view'[w] # view[w] /\ view'[w] \notin {Unheard, Deleted} => view'[w] > high[w]]_vars

\* A removal reported as successful ends the chain of the only watch on the
\* path: no request, watcher table or queued event can start it again
\* (async_remove_watches, config_monitor.hpp:364).
RemoveEndsChain ==
    \A w \in Watch :
        PathOf[w] \in removed /\ WatchersOn(PathOf[w]) = {w} => Carriers(w) = {}

Watching(w) == call[w] = "watching"
Quiescent == requests = <<>> /\ wire = <<>> /\ completions = <<>> /\ resync = {} /\ conn = "on"

\* "It will set the next watch point automatically" (config_monitor.hpp:239):
\* a watch that was not removed is always somewhere.
ChainAlive == \A w \in Watch : Watching(w) => Carriers(w) # {}

\* The same for a watch that has fired: wfn has put the event into its slot and
\* asked for the next watch (config_monitor.hpp:239, cppzk.hpp:343-344).
NextWatchSet == \A w \in Watch : eve[w] # "dummy" => Carriers(w) # {}

\* What the user knows when nothing is in flight: an existing node's value is
\* the last one reported unless the last event was its deletion, and an absent
\* node has been reported deleted if the last event was its deletion
\* (the two branches of watch_path's callback, config_monitor.hpp:255-262).
SettledView ==
    Quiescent =>
        \A w \in Armed :
            LET p == PathOf[w]
            IN  /\ node[p] # Absent /\ eve[w] # "deleted" => view[w] = node[p]
                /\ node[p] = Absent /\ eve[w] = "deleted" => view[w] = Deleted
                /\ eve[w] = "dummy" => view[w] \in {Unheard, node[p]}

\* A watch ends up with the last written value of a node that exists, unless
\* the last event it saw was a deletion: every change is followed by an exists
\* and a get that both get through (watch_path, config_monitor.hpp:253-268).
Converges ==
    \A w \in Watch :
        LET p == PathOf[w]
        IN  <>[](Watching(w) /\ node[p] # Absent /\ eve[w] # "deleted" => view[w] = node[p])

\* "Async monitor path changed" (config_monitor.hpp:239): when nothing is in
\* flight the user has been told the state of the node.
UserUpToDate ==
    Quiescent => \A w \in Armed :
                     view[w] = node[PathOf[w]] \/ (view[w] = Unheard /\ node[PathOf[w]] = Absent)

\* What a watch is told, as WatchView describes it.
View == INSTANCE WatchView WITH now <- zxid

\* On a connection that is not lost, watch_path implements WatchView: each
\* callback is about something newer than all it was told before, a deletion
\* included.  (With losses an exists that fails with ZCONNECTIONLOSS while the
\* slot still holds an old deletion reports that deletion again.)
ReportsForward == View!Spec

=============================================================================

----------------------------- MODULE ZkSession -----------------------------
(***************************************************************************)
(* The life of a ZooKeeper session under cppzk and config_monitor: connect,*)
(* expiry, and the rewatch on a new handle.                                *)
(*                                                                         *)
(* A detecting thread polls is_conntected_.  When the default watcher has  *)
(* cleared it, the thread frees the user data of every watch, closes the   *)
(* expired handle (which joins the handle's IO and completion threads),    *)
(* opens a new one, waits until it is connected and calls watch_path again *)
(* for every record.  User threads call watch_path, remove_watches and     *)
(* async_remove_watches at any time in between, and may destroy the        *)
(* monitor.                                                                *)
(*                                                                         *)
(* Only one handle exists at a time; the variables describe the one zh_    *)
(* points to.  Whether a watch chain lives is all that is kept of it: the  *)
(* chain itself is ZkWatch.  The watches are those of watch_path.  The     *)
(* records of watch_sub_path are watched again by the same loop, but the   *)
(* listings its callback asks for, and its removals, are not in this       *)
(* module (see ZkSubWatch).  What the code leaves undefined or ends the    *)
(* program with stops the model (fault).                                   *)
(***************************************************************************)
EXTENDS Integers, Sequences, FiniteSets

CONSTANTS
    Path,           \* watched paths
    Watch,          \* watch_path calls of user threads
    PathOf,         \* PathOf[w]: the path that call w watches
    NoWatch,        \* no entry in watch_record_
    Allowed,        \* which of "remove", "async_remove", "destroy", "auth" and
                    \* "fast_expiry" may happen
    MaxLosses,      \* bound: broken connections
    MaxEvents       \* bound: watch events

ASSUME PathOfAssumption == PathOf \in [Watch -> Path]
ASSUME NoWatchAssumption == NoWatch \notin Watch
ASSUME WatchAssumption == IsFiniteSet(Watch)
ASSUME BoundAssumption == MaxLosses \in Nat /\ MaxEvents \in Nat

VARIABLES
    \* the handle zh_ points to
    life,           \* "open", "closing" (close_requested) or "freed"
    sess,           \* "new" (never connected), "connected", "lost" or "expired"
    sent,           \* sent_requests
    watching,       \* user data with an active watch
    completions,    \* completions_to_process
    thread,         \* completion thread: "top" of its loop, "drain" or "exited"
    \* cppzk
    is_conntected,
    need_detect,
    run,            \* run_
    releaser,       \* user data in releaser_
    \* the detecting thread; before it exists, the caller of init
    pc,
    started,        \* std::call_once has started the thread
    moved,          \* records moved out and not yet watched again
    \* config_monitor and its users
    watch_record,   \* watch_record_
    call,           \* call[w]: progress of the watch_path call
    removal,        \* removal[p]: progress of the removal of p's watches
    dtor,           \* progress of the destructor
    \* history
    losses,         \* broken connections so far
    events,         \* watch events so far
    failed,         \* watches whose request this handle lost with a connection
    late,           \* calls made while the handle was being replaced
    fault           \* what has ended the program, or "none"

io      == <<life, sess, sent, watching>>
queue   == <<completions, thread>>
flags   == <<is_conntected, need_detect, run>>
detect  == <<pc, started, moved>>
users   == <<call, removal, dtor>>
bounds  == <<losses, events>>
history == <<failed, late, fault>>
vars == <<io, queue, flags, releaser, detect, watch_record, users, bounds, history>>

Running == fault = "none"
IoRuns == Running /\ life = "open"
ThreadAt(place) == Running /\ thread = place
At(place) == Running /\ pc = place

\* The user data of a watch: its watch_path call, made by the user or again
\* by the detecting thread.
UserData == Watch \X {"user", "rewatch"}
WatchersOn(p) == {d \in UserData : PathOf[d[1]] = p}

\* watch_path_event owns the user data it has made until it is in releaser_.
Held == {<<w, "user">> : w \in {v \in Watch : call[v] = "sent"}}
          \cup (IF pc = "emplace" THEN {<<Head(moved), "rewatch">>} ELSE {})
Alive(d) == d \in releaser \cup Held

-----------------------------------------------------------------------------
(***************************************************************************)
(* Requests.  A handle that has expired or is being closed refuses them,   *)
(* and cppzk does not look at the result; a freed handle must not be used. *)
(***************************************************************************)
Accepts == life = "open" /\ sess # "expired"

Submit(r) ==
    /\ sent' = IF Accepts THEN Append(sent, r) ELSE sent
    /\ fault' = IF life = "freed" THEN "freed_handle" ELSE fault

-----------------------------------------------------------------------------
(***************************************************************************)
(* The server and the IO thread, which runs until the session expires or   *)
(* the handle is closed.                                                   *)
(***************************************************************************)
SessionEvent(state) == [op |-> "session", state |-> state]

\* free_completions: the outstanding requests fail, in order.
FailRequests(queued) ==
    /\ completions' = queued \o sent
    /\ sent' = <<>>
FailedWatches == {sent[i].d[1] : i \in {j \in DOMAIN sent : sent[j].op = "exists"}}

\* The sync get of the detecting thread is outstanding and is given an answer.
ProbeReturns == pc' = IF pc = "probing" THEN "check" ELSE pc

IoConnect ==
    /\ IoRuns
    /\ sess \in {"new", "lost"}
    /\ sess' = "connected"
    /\ completions' = Append(completions, SessionEvent("connected"))
    /\ UNCHANGED <<life, sent, watching, thread, flags, releaser, detect, watch_record, users,
                   bounds, history>>

\* The connection breaks: handle_error.
IoLose ==
    /\ IoRuns
    /\ sess = "connected"
    /\ losses < MaxLosses
    /\ losses' = losses + 1
    /\ sess' = "lost"
    /\ FailRequests(Append(completions, SessionEvent("connecting")))
    /\ failed' = failed \cup FailedWatches
    /\ ProbeReturns
    /\ UNCHANGED <<life, watching, thread, flags, releaser, started, moved, watch_record, users,
                   events, late, fault>>

\* An attempt to connect fails: handle_error again.
IoAttemptFails ==
    /\ IoRuns
    /\ sess \in {"new", "lost"}
    /\ FailRequests(completions)
    /\ failed' = failed \cup FailedWatches
    /\ ProbeReturns
    /\ UNCHANGED <<life, sess, watching, thread, flags, releaser, started, moved, watch_record, users,
                   bounds, late, fault>>

\* The server no longer knows the session when the client is back: the default
\* watcher's event is queued in front of the failed requests.
IoExpire ==
    /\ IoRuns
    /\ sess = "lost"
    /\ pc = "wait" => "fast_expiry" \in Allowed
    /\ sess' = "expired"
    /\ FailRequests(Append(completions, SessionEvent("expired")))
    /\ ProbeReturns
    /\ UNCHANGED <<life, watching, thread, flags, releaser, started, moved, watch_record, users,
                   bounds, history>>

\* The answer to the oldest request.
IoAnswer ==
    LET r == Head(sent)
    IN  /\ IoRuns
        /\ sess = "connected"
        /\ sent # <<>>
        /\ sent' = Tail(sent)
        /\ watching' = IF r.op = "exists" THEN watching \cup {r.d}
                       ELSE watching \ WatchersOn(PathOf[r.d[1]])
        /\ completions' = Append(completions, r)
        /\ UNCHANGED <<life, sess, thread, flags, releaser, detect, watch_record, users, bounds,
                       history>>

\* A watched path changes: its watchers are collected.
IoEvent(p) ==
    LET fired == watching \cap WatchersOn(p)
    IN  /\ IoRuns
        /\ sess = "connected"
        /\ events < MaxEvents
        /\ fired # {}
        /\ events' = events + 1
        /\ watching' = watching \ fired
        /\ completions' = Append(completions, [op |-> "event", ds |-> fired])
        /\ UNCHANGED <<life, sess, sent, thread, flags, releaser, detect, watch_record, users,
                       losses, history>>

-----------------------------------------------------------------------------
(***************************************************************************)
(* The completion thread: do_completion and process_completions.           *)
(***************************************************************************)
\* A thread that waits for work does not look at close_requested again before
\* it has drained the queue.
ThreadEnter ==
    /\ ThreadAt("top")
    /\ life # "freed"
    /\ completions # <<>>
    /\ thread' = "drain"
    /\ UNCHANGED <<io, completions, flags, releaser, detect, watch_record, users, bounds, history>>

ThreadLeave ==
    /\ ThreadAt("drain")
    /\ completions = <<>>
    /\ thread' = "top"
    /\ UNCHANGED <<io, completions, flags, releaser, detect, watch_record, users, bounds, history>>

\* Seen at the top of the loop, close_requested ends the thread; what is queued
\* is never run.
ThreadExit ==
    /\ ThreadAt("top")
    /\ life = "closing"
    /\ thread' = "exited"
    /\ UNCHANGED <<io, completions, flags, releaser, detect, watch_record, users, bounds, history>>

Runs(op) ==
    /\ ThreadAt("drain")
    /\ completions # <<>>
    /\ Head(completions).op = op

\* Mutant: the watcher also takes a lost connection for the end of the session.
Mut_SessionOver(state) == state \in {"connecting", "expired"}
\* Mutant: the watcher never clears is_conntected_.
Mut_SessionKept(state) == FALSE

SessionOver(state) == state = "expired"

\* The watcher given to zookeeper_init.
RunSession ==
    LET state == Head(completions).state
    IN  /\ Runs("session")
        /\ completions' = Tail(completions)
        /\ is_conntected' = IF state = "connected" THEN TRUE
                            ELSE IF SessionOver(state) THEN FALSE ELSE is_conntected
        /\ need_detect' = IF SessionOver(state) THEN FALSE ELSE need_detect
        /\ UNCHANGED <<io, thread, run, releaser, detect, watch_record, users, bounds, history>>

\* exists_completion works on the user data; what its callback does next is
\* ZkWatch's.
RunExists ==
    /\ Runs("exists")
    /\ completions' = Tail(completions)
    /\ fault' = IF Alive(Head(completions).d) THEN fault ELSE "freed_userdata"
    /\ UNCHANGED <<io, thread, flags, releaser, detect, watch_record, users, bounds, failed, late>>

\* wfn writes the event into the user data and asks for the next watch, on the
\* handle that zh_ points to.
RunEvent(d) ==
    LET ds == Head(completions).ds
    IN  /\ Runs("event")
        /\ d \in ds
        /\ completions' = IF ds = {d} THEN Tail(completions)
                          ELSE [completions EXCEPT ![1].ds = @ \ {d}]
        /\ IF Alive(d)
           THEN Submit([op |-> "exists", d |-> d])
           ELSE fault' = "freed_userdata" /\ UNCHANGED sent
        /\ UNCHANGED <<life, sess, watching, thread, flags, releaser, detect, watch_record, users,
                       bounds, failed, late>>

\* The members of config_monitor are destroyed before ~cppzk stops the threads.
\* (So is last_sub_path_, which the listing callback of watch_sub_path uses.)
UseMembers == fault' = IF dtor = "none" THEN fault ELSE "destroyed_member"

\* The callback of async_remove_watches: the record, then what the caller gave,
\* which is the promise of remove_watches or a callback of the user.
RunRemove ==
    LET p == PathOf[Head(completions).d[1]]
    IN  /\ Runs("remove")
        /\ completions' = Tail(completions)
        /\ watch_record' = [watch_record EXCEPT ![p] = NoWatch]
        /\ removal' = [removal EXCEPT ![p] = "returned"]
        /\ UseMembers
        /\ UNCHANGED <<io, thread, flags, releaser, detect, call, dtor, bounds, failed, late>>

-----------------------------------------------------------------------------
(***************************************************************************)
(* The detecting thread.                                                   *)
(***************************************************************************)
\* while (run_)
DetectDone ==
    /\ At("loop")
    /\ ~run
    /\ pc' = "done"
    /\ UNCHANGED <<io, queue, flags, releaser, started, moved, watch_record, users, bounds, history>>

\* After the sleep: the sync get, which an expired handle refuses.
DetectProbe ==
    /\ At("loop")
    /\ run
    /\ pc' = IF need_detect /\ Accepts THEN "probing" ELSE "check"
    /\ UNCHANGED <<io, queue, flags, releaser, started, moved, watch_record, users, bounds, history>>

ProbeAnswered ==
    /\ At("probing")
    /\ sess = "connected"
    /\ pc' = "check"
    /\ UNCHANGED <<io, queue, flags, releaser, started, moved, watch_record, users, bounds, history>>

DetectConnected ==
    /\ At("check")
    /\ is_conntected
    /\ pc' = "loop"
    /\ UNCHANGED <<io, queue, flags, releaser, started, moved, watch_record, users, bounds, history>>

\* releaser_.clear().
DetectClear ==
    /\ At("check")
    /\ ~is_conntected
    /\ pc' = "close"
    /\ releaser' = {}
    /\ late' = late \cup {w \in Watch : call[w] = "recorded"}
    /\ UNCHANGED <<io, queue, flags, started, moved, watch_record, users, bounds, failed, fault>>

\* clear_resource: zookeeper_close fails what is outstanding ...
CloseHandle ==
    /\ life' = "closing"
    /\ FailRequests(completions)

DetectClose ==
    /\ At("close")
    /\ pc' = "join"
    /\ CloseHandle
    /\ UNCHANGED <<sess, watching, thread, flags, releaser, started, moved, watch_record, users,
                   bounds, history>>

\* Mutant: the handle is freed although its completion thread still runs.
Mut_Joined == TRUE

\* ... and adaptor_finish joins the threads before the handle is freed.
Joined == thread = "exited"

DetectJoin ==
    /\ At("join")
    /\ Joined
    /\ pc' = "reset"
    /\ life' = "freed"
    /\ UNCHANGED <<sess, sent, watching, queue, flags, releaser, started, moved, watch_record, users,
                   bounds, history>>

\* last_sub_path_.clear(), without a lock.
DetectReset ==
    /\ At("reset")
    /\ pc' = "connect"
    /\ UseMembers
    /\ UNCHANGED <<io, queue, flags, releaser, started, moved, watch_record, users, bounds, failed, late>>

\* connect_server: zookeeper_init, and zh_ points to a new handle.
ConnectServer ==
    /\ At("connect")
    /\ pc' = "wait"
    /\ life' = "open"
    /\ sess' = "new"
    /\ sent' = <<>>
    /\ watching' = {}
    /\ completions' = <<>>
    /\ thread' = "top"
    /\ failed' = {}
    /\ UNCHANGED <<flags, releaser, started, moved, watch_record, users, bounds, late, fault>>

\* Mutant: the wait for the connection does not look at run_.
Mut_WaitOver == is_conntected

WaitOver == is_conntected \/ ~run

ConnectWait ==
    /\ At("wait")
    /\ WaitOver
    /\ pc' = "auth"
    /\ UNCHANGED <<io, queue, flags, releaser, started, moved, watch_record, users, bounds, history>>

\* zoo_add_auth refuses an expired handle, and connect_server throws.  The
\* first time, init goes on to start the thread.
ConnectDone ==
    /\ At("auth")
    /\ pc' = IF started THEN "take" ELSE "loop"
    /\ started' = TRUE
    /\ need_detect' = TRUE
    /\ fault' = IF "auth" \in Allowed /\ sess = "expired" THEN "add_auth_error" ELSE fault
    /\ UNCHANGED <<io, queue, is_conntected, run, releaser, moved, watch_record, users, bounds,
                   failed, late>>

\* Mutant: a path without a record is taken for one with a record.
Mut_Recorded == {watch_record[p] : p \in Path}

Recorded == {watch_record[p] : p \in Path} \ {NoWatch}

\* The order in which an unordered_map is gone through is any order.
Orders(S) == {s \in [1..Cardinality(S) -> S] : \A x \in S : \E i \in DOMAIN s : s[i] = x}

\* Auto rewatch: the records are moved out under the lock.
RewatchTake ==
    /\ At("take")
    /\ pc' = "rewatch"
    /\ moved' \in Orders(Recorded)
    /\ watch_record' = [p \in Path |-> NoWatch]
    /\ UseMembers
    /\ UNCHANGED <<io, queue, flags, releaser, started, users, bounds, failed, late>>

Current == Head(moved)

\* Mutant: watching again does not restore the record.
Mut_Restored(w) == watch_record

Restored(w) == [watch_record EXCEPT ![PathOf[w]] = w]

\* watch_path of the detecting thread: the record ...
RewatchRecord ==
    /\ At("rewatch")
    /\ moved # <<>>
    /\ pc' = "send"
    /\ watch_record' = Restored(Current)
    /\ UseMembers
    /\ UNCHANGED <<io, queue, flags, releaser, started, moved, users, bounds, failed, late>>

\* ... the request ...
RewatchSend ==
    /\ At("send")
    /\ pc' = "emplace"
    /\ Submit([op |-> "exists", d |-> <<Current, "rewatch">>])
    /\ UNCHANGED <<life, sess, watching, queue, flags, releaser, started, moved, watch_record, users,
                   bounds, failed, late>>

\* Mutant: the loop watches the same record twice.
Mut_Remaining == IF <<Current, "rewatch">> \in releaser THEN Tail(moved) ELSE moved

Remaining == Tail(moved)

\* ... and the user data.
RewatchEmplace ==
    /\ At("emplace")
    /\ pc' = "rewatch"
    /\ releaser' = releaser \cup {<<Current, "rewatch">>}
    /\ moved' = Remaining
    /\ UNCHANGED <<io, queue, flags, started, watch_record, users, bounds, history>>

RewatchDone ==
    /\ At("rewatch")
    /\ moved = <<>>
    /\ pc' = "loop"
    /\ UNCHANGED <<io, queue, flags, releaser, started, moved, watch_record, users, bounds, history>>

-----------------------------------------------------------------------------
(***************************************************************************)
(* Users.                                                                  *)
(***************************************************************************)
\* The expired handle is being replaced: what is recorded now is both sent by
\* its own call and watched again by the detecting thread.
Replacing == pc \in {"close", "join", "reset", "connect", "wait", "auth", "take"}

\* watch_path: the record ...
WatchRecord(w) ==
    /\ Running /\ started /\ dtor = "none"
    /\ call[w] = "idle"
    /\ call' = [call EXCEPT ![w] = "recorded"]
    /\ watch_record' = [watch_record EXCEPT ![PathOf[w]] = w]
    /\ late' = IF Replacing THEN late \cup {w} ELSE late
    /\ UNCHANGED <<io, queue, flags, releaser, detect, removal, dtor, bounds, failed, fault>>

\* ... the request ...
WatchSend(w) ==
    /\ Running
    /\ call[w] = "recorded"
    /\ call' = [call EXCEPT ![w] = "sent"]
    /\ Submit([op |-> "exists", d |-> <<w, "user">>])
    /\ UNCHANGED <<life, sess, watching, queue, flags, releaser, detect, watch_record, removal, dtor,
                   bounds, failed, late>>

\* ... and the user data.
WatchEmplace(w) ==
    /\ Running
    /\ call[w] = "sent"
    /\ call' = [call EXCEPT ![w] = "done"]
    /\ releaser' = releaser \cup {<<w, "user">>}
    /\ UNCHANGED <<io, queue, flags, detect, watch_record, removal, dtor, bounds, history>>

\* async_remove_watches sends the request; remove_watches also waits for the
\* promise that its callback sets.
RemoveWatches(w) ==
    /\ Running
    /\ dtor = "none"
    /\ call[w] = "done"
    /\ removal[PathOf[w]] = "none"
    /\ \/ /\ "remove" \in Allowed
          /\ removal' = [removal EXCEPT ![PathOf[w]] = "waiting"]
       \/ /\ "async_remove" \in Allowed
          /\ removal' = [removal EXCEPT ![PathOf[w]] = "asked"]
    /\ Submit([op |-> "remove", d |-> <<w, "user">>])
    /\ UNCHANGED <<life, sess, watching, queue, flags, releaser, detect, watch_record, call, dtor,
                   bounds, failed, late>>

\* ~config_monitor, when no thread is inside a call: its members, then ~cppzk.
\* A removal that nobody waits for may still be under way.
Destroy ==
    /\ Running
    /\ "destroy" \in Allowed
    /\ started /\ dtor = "none"
    /\ \A w \in Watch : call[w] \in {"idle", "done"}
    /\ \A p \in Path : removal[p] # "waiting"
    /\ dtor' = "joining"
    /\ run' = FALSE
    /\ UNCHANGED <<io, queue, is_conntected, need_detect, releaser, detect, watch_record, call,
                   removal, bounds, history>>

DestroyClose ==
    /\ Running
    /\ dtor = "joining"
    /\ pc = "done"
    /\ dtor' = "closing"
    /\ CloseHandle
    /\ UNCHANGED <<sess, watching, thread, flags, releaser, detect, watch_record, call, removal,
                   bounds, history>>

DestroyDone ==
    /\ Running
    /\ dtor = "closing"
    /\ thread = "exited"
    /\ dtor' = "done"
    /\ life' = "freed"
    /\ UNCHANGED <<sess, sent, watching, queue, flags, releaser, detect, watch_record, call, removal,
                   bounds, history>>

-----------------------------------------------------------------------------
Init ==
    /\ life = "freed" /\ sess = "new"
    /\ sent = <<>> /\ watching = {}
    /\ completions = <<>> /\ thread = "exited"
    /\ is_conntected = FALSE /\ need_detect = FALSE /\ run = TRUE
    /\ releaser = {}
    /\ pc = "connect" /\ started = FALSE /\ moved = <<>>
    /\ watch_record = [p \in Path |-> NoWatch]
    /\ call = [w \in Watch |-> "idle"]
    /\ removal = [p \in Path |-> "none"]
    /\ dtor = "none"
    /\ losses = 0 /\ events = 0
    /\ failed = {} /\ late = {} /\ fault = "none"

IoStep == IoConnect \/ IoLose \/ IoAttemptFails \/ IoExpire \/ IoAnswer \/ \E p \in Path : IoEvent(p)

CompletionStep ==
    \/ ThreadEnter \/ ThreadLeave \/ ThreadExit
    \/ RunSession \/ RunExists \/ RunRemove
    \/ \E d \in UserData : RunEvent(d)

DetectStep ==
    \/ DetectDone \/ DetectProbe \/ ProbeAnswered \/ DetectConnected
    \/ DetectClear \/ DetectClose \/ DetectJoin \/ DetectReset
    \/ ConnectServer \/ ConnectWait \/ ConnectDone
    \/ RewatchTake \/ RewatchRecord \/ RewatchSend \/ RewatchEmplace \/ RewatchDone

CallStep(w) == WatchSend(w) \/ WatchEmplace(w)

DestructorStep == DestroyClose \/ DestroyDone

Next ==
    \/ IoStep
    \/ CompletionStep
    \/ DetectStep
    \/ \E w \in Watch : WatchRecord(w) \/ CallStep(w) \/ RemoveWatches(w)
    \/ Destroy
    \/ DestructorStep

Spec == Init /\ [][Next]_vars

\* Every thread keeps running, requests are answered while there is a
\* connection, and an attempt to connect ends.  Nobody has to call, and the
\* server may stay unreachable.
FairSpec ==
    /\ Spec
    /\ WF_vars(IoAnswer)
    /\ WF_vars(IoAttemptFails)
    /\ WF_vars(CompletionStep)
    /\ WF_vars(DetectStep)
    /\ WF_vars(DestructorStep)
    /\ \A w \in Watch : WF_vars(CallStep(w))

-----------------------------------------------------------------------------
(***************************************************************************)
(* Correctness.                                                            *)
(***************************************************************************)
Request == [op : {"exists", "remove"}, d : UserData]
Completion ==
    Request \cup [op : {"event"}, ds : SUBSET UserData]
      \cup [op : {"session"}, state : {"connected", "connecting", "expired"}]

\* Every variable has its type.
TypeOK ==
    /\ life \in {"open", "closing", "freed"}
    /\ sess \in {"new", "connected", "lost", "expired"}
    /\ sent \in Seq(Request)
    /\ watching \in SUBSET UserData
    /\ completions \in Seq(Completion)
    /\ thread \in {"top", "drain", "exited"}
    /\ is_conntected \in BOOLEAN /\ need_detect \in BOOLEAN /\ run \in BOOLEAN
    /\ releaser \in SUBSET UserData
    /\ pc \in {"loop", "probing", "check", "close", "join", "reset", "connect", "wait", "auth",
               "take", "rewatch", "send", "emplace", "done"}
    /\ started \in BOOLEAN
    /\ moved \in Seq(Watch)
    /\ watch_record \in [Path -> Watch \cup {NoWatch}]
    /\ call \in [Watch -> {"idle", "recorded", "sent", "done"}]
    /\ removal \in [Path -> {"none", "waiting", "asked", "returned"}]
    /\ dtor \in {"none", "joining", "closing", "done"}
    /\ losses \in Nat /\ events \in Nat
    /\ failed \in SUBSET Watch /\ late \in SUBSET Watch
    /\ fault \in {"none", "freed_handle", "freed_userdata", "destroyed_member", "add_auth_error"}

\* last_sub_path_ is cleared and zh_ assigned without a lock, although the
\* callbacks of the completion thread use both: at that time no completion
\* thread exists, so that callbacks never run on two threads at once
\* (config_monitor.hpp:97, cppzk.hpp:604).
NoCallbackWhileReset == pc \in {"reset", "connect"} => thread = "exited"

\* The places where the handle keeps user data d.
Places(d) ==
    {<<d, "sent", i>> : i \in {j \in DOMAIN sent : sent[j].op = "exists" /\ sent[j].d = d}}
      \cup {<<d, "watching", 0>> : x \in {d} \cap watching}
      \cup {<<d, "fired", i>> : i \in {j \in DOMAIN completions :
                                         completions[j].op = "event" /\ d \in completions[j].ds}}
Chains(w) == Places(<<w, "user">>) \cup Places(<<w, "rewatch">>)

Completing(d) ==
    \E i \in DOMAIN completions : completions[i].op = "exists" /\ completions[i].d = d

\* releaser_ is cleared only for a session that is over: as long as the session
\* may continue, what the handle points to has not been freed (cppzk.hpp:580).
LiveDataKept ==
    life = "open" /\ sess # "expired" =>
        \A d \in UserData : Places(d) # {} \/ Completing(d) => Alive(d)

\* What was freed or destroyed is used at certain times only.  Freed user data:
\* by the completion thread of an expired handle, between releaser_.clear() and
\* the end of zookeeper_close.  A freed handle: by a call that was made before
\* zh_ points to the new one.  A destroyed member: once the destructor has
\* started (nothing keeps a removal's callback or the rewatch from it), but not
\* after it has returned (cppzk.hpp:580, cppzk.hpp:604, cppzk.hpp:52-58).
FaultsInChange ==
    /\ fault = "freed_userdata" => pc \in {"close", "join"} /\ sess = "expired"
    /\ fault = "freed_handle" => pc \in {"reset", "connect"} /\ started /\ dtor = "none"
    /\ fault = "destroyed_member" => dtor \in {"joining", "closing"}

\* The detecting thread is not replacing the handle.
Settled == started /\ pc \in {"loop", "probing", "check"} /\ is_conntected

\* The only call for its path.
Alone(w) == \A v \in Watch : PathOf[v] = PathOf[w] => v = w

\* "auto rewatch" (config_monitor.hpp:102): whenever and however often the
\* session expired during and after the call, the watch of a finished
\* watch_path call is set on the present handle, unless its request was lost
\* with a connection or its removal was asked for.
CallsBacked ==
    Settled /\ life = "open" /\ sess # "expired" =>
        \A w \in Watch :
            call[w] = "done" /\ Alone(w) /\ removal[PathOf[w]] = "none"
              => Chains(w) # {} \/ w \in failed

\* A session change does not double a watch: a call that was not under way
\* while the handle was replaced has one watch chain at most, so its callback
\* runs once per change (config_monitor.hpp:104-110).
NoDoubleWatch ==
    \A w \in Watch \ late : \A a, b \in Chains(w) : a = b

\* An expired handle is replaced, unless the monitor is destroyed
\* (detect_expired_session, cppzk.hpp:568).
Recovers == sess = "expired" ~> sess # "expired" \/ dtor # "none" \/ ~Running

\* A watch survives any number of expiries: in the end it is set on the handle
\* that zh_ points to, or the client is still trying to connect
\* (config_monitor.hpp:95-115).
Survives ==
    \A w \in Watch :
        <>[](call[w] = "done" /\ Alone(w) /\ removal[PathOf[w]] = "none" =>
               \/ Chains(w) # {} /\ sess # "expired"
               \/ w \in failed
               \/ pc = "wait"
               \/ dtor # "none" \/ ~Running)

\* Destruction finishes, whatever the detecting thread is waiting for and
\* whether or not the server can be reached, unless a destroyed member is used
\* before, which ends the program (~cppzk, cppzk.hpp:52).
DestructorReturns == dtor = "joining" ~> dtor = "done" \/ ~Running

\* "Sync remove the watch, the path event will not be triggered"
\* (config_monitor.hpp:346): a remove_watches call that waits returns.
RemoveReturns ==
    \A p \in Path : removal[p] = "waiting" ~> removal[p] = "returned" \/ ~Running

=============================================================================

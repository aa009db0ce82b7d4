# Verification of config_monitor

`config_monitor` is a header-only C++ library that lets a program create, read,
change, delete and *watch* configuration entries. The entries live in ZooKeeper
(`cppzk`, over the vendored C client) or in local files (`loc_file`). This
directory holds TLA+ models of it, TLC runs and TLAPS proofs.

Paths below are relative to the repository root.

## 1. Inventory

| part | state | operations | interacts with |
|---|---|---|---|
| `config_monitor` (`src/config_monitor.hpp`) | `watch_record_`, `watch_sub_record_`, `last_sub_path_`, `record_mtx_` | `init`, `create_path`, `del_path`, `set_path_value`, `get_path_value`, `get_sub_path`, `watch_path`, `watch_sub_path`, `remove_watches` and async forms | backend by inheritance; user callbacks run on the backend's thread |
| `cppzk` (`src/cppzk/cppzk.hpp`) | `zh_`, `releaser_`, `is_conntected_`, `need_detect_`, session timeout | node operations, `watch_path_event`, `async_get_path_value<true>`, `async_get_sub_path<true>`, `async_remove_watches`, session detection | C client: requests from user threads and the completion thread, watcher functions and completions back |
| ZooKeeper C client (`3party/zookeeper-client-c`) | watcher tables, `sent_requests`, `completions_to_process`, connection state | IO thread and completion thread | server over one connection |
| `loc_file` (`src/local_file/local_file.hpp`) | three `monitor_*` maps, three `last_*` maps, `task_queue_`, `run_` | `create_path`, `delete_path`, `set_path_value`, `exists_path`, `get_path_value`, `get_sub_path`, `remove_watches`, worker thread | file system, other processes |

What is hard here:

* **One-shot watches.** ZooKeeper fires a watch once. `watch_path` must set the
  next one from inside the watcher function, and in between the node may change,
  vanish or reappear. The exists answer and the stored event are from different
  moments.
* **Four actors per watch**: user threads, the IO thread (which activates and
  collects watchers), the completion thread (which runs the callbacks and sends
  the next request) and the server.
* **Connection loss** fails requests, drops events and answers that were not
  read, and restores the watches with `SetWatches` from the client's tables.
* **Session expiry** replaces the handle under running callbacks.
* **Multi-request operations** (create with prefixes, recursive delete, a read
  that does not fit the buffer) are interleaved with other clients.
* **Polling on copies.** The worker of `loc_file` compares copies of its maps
  with the file system and writes back to maps that users and tasks have changed
  since.

What makes each part correct: a watch is neither lost nor doubled, and its user
ends up knowing the present state, in order; a removal silences it; an operation
reports what it did; a monitor reports changes of what it monitors, with its own
callback, and the worker survives and stops.

`PROJECT.json` lists every component and, under `hazards`, each place where the
above can go wrong.

## 2. Modules

| module | models | state and actions |
|---|---|---|
| `ZkWatch` | `watch_path`, `async_remove_watches(watch_path)`, the client's watcher tables and queues, one ZooKeeper session with connection losses | Per `watch_path` call `w`: its event slot `eve[w]`, the progress of the call and what its callback was told (`view`, `high`). Client: `node_watchers`, `exist_watchers`, `completions`, `last_zxid`. Connection: `requests`, `wire`. Server (external): `node`, `srvWatch`, `resync`. |
| `ZkSubWatch` | `watch_sub_path`, `async_remove_watches(watch_sub_path)` | The user data of the exists chain, of each listing chain and of each get chain (`data_watchers`, `child_watchers`), `eve`, `last_sub_path`, the removal's `to_remove`, what the callback was told per child. Requests and completions are queues; server (external): `node`, `srvData`, `srvChild`. |
| `ZkSession` | `init`, `connect_server`, `detect_expired_session`, the expired callback and the rewatch, `~cppzk`, among `watch_path`, `remove_watches` and `async_remove_watches` of user threads | The handle (`life`, `sess`, `sent`, `watching`, `completions`, the completion `thread`), the flags, `releaser`, the detecting thread (`pc`, `moved`), `watch_record`, the users' calls, the destructor. |
| `WatchView` | abstract | What `watch_path` and `watch_sub_path` promise about reports: each is about something newer than all reported before. |
| `LocalFile` | `loc_file` | `monitor` and `last` stand for the three pairs of maps, keyed by kind and path; `snapMonitor`, `snapLast`, `batch`, `todo` are the copies of a round; `reg`, `seen` the progress of registering threads. |
| `ZkPath` | `split_path` | pure operators on strings, abstracted to sequences of separators and names |
| `ZkOps` | create, recursive delete, set, get | one action per request: the server's effect and what the caller does with the answer |
| `MC*` | instances | sets of paths, calls and lengths for TLC |
| `ZkWatch_proofs`, `ZkChain_proofs`, `ZkRemove_proofs` | theorems about `ZkWatch`: types and coverage; the place of the one-shot watch and the order of reports; removal and survival | each extends the one before |
| `ZkSubWatch_proofs`, `ZkSession_proofs`, `LocalFile_proofs`, `ZkOps_proofs` | theorems about these modules; `ZkOps_proofs` also about `ZkPath` | |
| `QueueTheorems` | lemmas about appending to queues, taking their head and replacing one message | |

Correspondence in `ZkWatch`. `WatchRecord` and `WatchSend` are the two halves of
`watch_path` (record under `record_mtx_`, then the first exists). `RunWatcher`
is `wfn`: it stores the event and sends the next exists. `RunExists` is
`exists_completion` with the callback that `watch_path` gives it; its three
disjuncts are the del branch, the fetch and neither. `RunGet` is the completion
of the plain `async_get_path_value`. `RunRemove` is the completion of
`async_remove_watches`; it erases the record whatever the result. `IoEvent` and
`IoReply` are the two cases of `zookeeper_process`; `Disconnect`,
`IoDropMessage`, `IoFailRequest` and `IoCleanupDone` are `handle_error`, holding
the critical section that `Submit` needs. `Reconnect` and `SrvSetWatch` are the
handshake and `SetWatches`. A value is identified by the zxid of its write; the
server's watch table is kept for this session only.

Correspondence in `ZkSubWatch`. User data is a pair of a node and a number: 0 for
the exists chain, else the number of the listing or get chain. `RunExistsWatcher`,
`RunListWatcher` and `RunGetWatcher` are the three `wfn`s; `RunExists`, `RunList`
and `RunGet` the completions with the callbacks `watch_sub_path` gives them, so
that `RunList` compares with `last_sub_path_`, starts `monitor` for the new
children and replaces the set in one step, as the completion thread does. The
removal lists the children without a watch (`RunPlainList`) and then removes one
after the other, the parent last (`RunRemove`). The IO thread has no step of its
own: the server's answers and events pass through it in order, so the watcher
tables change with the step that sends them. `Expire` is the whole of a session
change, in the outcome that `ZkSession` describes in detail.

Correspondence in `ZkSession`. `pc` follows the detecting thread (or, before it
exists, the caller of `init`): loop, sync get, check of the flag, `releaser_.clear`,
`zookeeper_close` in two steps (fail what is outstanding, join the completion
thread), `last_sub_path_.clear`, `zookeeper_init`, the wait, authentication, moving
the records out, and three steps per `watch_path`. `ThreadEnter`, `ThreadLeave` and
`ThreadExit` are the loop of `do_completion`, which may leave queued completions
unrun when it sees `close_requested`. The check of the handle's state and the
queueing of a request are one step. Of a watch chain only its presence is kept
(`ZkWatch` has the rest). `RemoveWatches` is both forms of a removal: the caller of
`remove_watches` waits (`removal[p] = "waiting"`), that of `async_remove_watches` does
not (`"asked"`), so that its callback may find the monitor destroyed. `Destroy` starts
when no thread is inside a call, which the owner of the object has to see to; a removal
that was only asked for does not hold it up. Where the code uses freed memory, uses a
member of `config_monitor` that is destroyed already, or lets an exception
leave a thread, the model stops with the name of the reason in `fault`: those
states are reachable and listed as hazards. `FaultsInChange` says when they can be
reached; every other property is about what happens short of them. The watches are
those of `watch_path`. `watch_sub_record_` is moved out and gone through by the same
loop, but what only `watch_sub_path` does (its listings, which use `last_sub_path_`
on the completion thread, and its removal) is not in this module.

Refinement. `WatchView` counts time in transactions and allows a report of a value
newer than the newest one told, or of a deletion when something has happened since.
`ZkWatch!ReportsForward` and `ZkSubWatch!ReportsForward` are its specification under
the mapping `now <- zxid` (and `Watch <- Child`). For `watch_path` it holds as long
as the connection does: an exists that fails with `ZCONNECTIONLOSS` while the slot
holds an old deletion reports that deletion again. For `watch_sub_path` it holds
through re-creations, removals and expiries, although get chains of one child may
follow or overlap each other.

Correspondence in `LocalFile`. `RegisterOpen/Throw/Read/Time/Insert` are the
steps of `exists_path`, `get_path_value` and `get_sub_path` between which others
can act; `WorkerTake` is the critical section at the top of the loop; `RunTask`
runs one task; `Same`, `HandleChange`, `GetTime`, `GetOpen`, `GetValue`,
`GetThrow` and `GetStore` are the iterations of the three passes.
`handle_monitor_get` is split wherever the file can change. An exception that
leaves the worker is a state of its own. Children are sets, because no claim
is made about the order in which a directory is listed.

Correspondence in `ZkOps`. The synchronous and the asynchronous form of an
operation send the same requests in the same order, one at a time, and differ
only in the thread that continues; both are one sequence of actions. The
recursion of `recursive_get_sub_path` is kept as the list `todo` of calls and
`emplace_back`s that are left of it; the server lists children in the order of the
constant `Names`, any fixed order. `Scenario` holds the combinations of
calls, other clients and failures to explore, one of which is chosen at the
start; where it allows loss, a request may fail with
`ZCONNECTIONLOSS` before or after its effect. `get_path_value` keeps lengths,
because its buffer logic is about them.

## 3. Runs

Passing runs:

| run | instance | shows |
|---|---|---|
| `watch_faults` | one watch, 3 transactions, deletions, removals, losses | `OneCarrier`: the one-shot watch of a call is in at most one place (request, unread answer, table, fired event). `ArmedCovered`: an active watcher is backed by the server or by something on the way. `NoOldValue`: values in the order written. `RemoveEndsChain`: a successful removal leaves nothing that could start the chain again. |
| `watch_settle` | two watches on one path, 4 transactions, deletions, no loss, fairness | `ChainAlive`: the watch is always somewhere. `SettledView`: what the user knows when nothing is in flight, by last event. `Converges`: the last value of an existing node arrives unless the last event seen was a deletion. `ReportsForward`: implements `WatchView`. |
| `file_polling` | two calls on one file, tasks of every kind, equal time stamps | `ValuesInOrder`: no older value after a newer one. `MonitorBacked`: a callback has something to compare with. `NoEmptyCall`: until a removal has run, no empty callback is called. |
| `file_settles` | a monitor of each kind, distinct time stamps, fairness | `StateSettles`: existence and directory monitors learn the present state. `PolledValueSettles`: polling reads the time before the value and so misses nothing. `StopJoins`: destruction ends. |
| `ops` | four scenarios on a tree of five nodes: three creates of nested and equal paths among other creators; three deletes of one subtree; create, delete and set among other clients with losses; a read of values of every length around the buffer size | `PrefixesSuffice`, `OkIffStored`, `SomeDeleteGetsThrough`, `DeleteReportsTruth`, `NoGarbage`; every initial tree is explored. `SplitComplete`: `split_path` against its definition on all strings up to length 8. |
| `session_expiry` | one watch, two broken connections (each may end in an expiry), one event, a removal with or without waiting, destruction, with fairness | `NoCallbackWhileReset`: the unlocked resets happen while no completion thread exists. `LiveDataKept`: user data is not freed under a session that may continue. `FaultsInChange`: the uses of freed memory that do occur are confined to the middle of a session change, and those of destroyed members are over when the destructor returns. `CallsBacked`: outside a session change every finished call is watched on the present handle. `NoDoubleWatch`: at most one chain per call that was not made during a change. `Recovers`: an expired handle is replaced. `Survives`: the watch ends up on the present handle. `DestructorReturns`: whatever the threads wait for, unless a destroyed member is used, which ends the program. |
| `sub_all` | two children, 4 transactions, parent deleted and re-created, a removal, one expiry, with fairness | `WatchersBacked`: a watcher in the client's tables has its watch at the server, so what ends or moves on a chain is not missed. `ListerPerCreation`: a listing chain is started once per creation of the parent. (Two may still live at the same time: a parent deleted and created again while the first listing is under way gets a second one, and the first finds the new parent and goes on.) `OneGetChain`, `ListedMonitored`: a child created once has exactly one get chain once it is in `last_sub_path_`. `SteadyUpToDate`: whenever nothing is in flight, every child created once is known with its value, if the parent was created once. `DeletionsTrue`: such a child is reported as deleted only when it is gone. `ChildrenConverge`: its last value arrives, after an expiry too. `RemovalEnds`: the removal gets through all children. `ReportsForward`: implements `WatchView`. |

Runs that end in a counterexample, each a disagreement between the code and what
the repository says of it:

| run | counterexample |
|---|---|
| `watch_missed` | The node is deleted and created again before the exists of the deleted event is handled. The answer is ok, the slot says deleted: neither branch runs, the user keeps the old value. |
| `watch_broken_chain` | The watch is set, the node is created, and `wfn` asks for the next watch (`NextWatchSet` is about watches that have fired). The connection breaks while this exists is under way. It fails with `ZCONNECTIONLOSS`, nothing is armed, nothing is sent again. |
| `file_missed_write` | A write between reading the value and reading the time of a file that is being registered. |
| `session_remove_hangs` | `remove_watches` is called after the session has expired and before the new handle: the request is refused, the result ignored, the promise never fulfilled. |
| `sub_recreated` | A child is deleted and created again before the next listing: it is still in `last_sub_path_`, and no get is sent for it. |

Two further behaviours are visible in the models without a run of their own: a get
under way calls back after a removal was reported (`ZkWatch`, `RunGet` after
`RunRemove`), and a value that grows between the two reads of `get_path_value` is
returned cut off (`ZkOps`; `NoGarbage` says what remains true).

### Bounds

`MaxZxid` bounds the transactions of other clients: three are enough for
create-change-delete and delete-create between two steps of a watch, the
shortest histories that tell the events apart. `MaxOutstanding` bounds only when
a user may call a removal. Requests, answers and completions are not bounded
themselves: each is caused by one of those. `MaxWrites` bounds changes of the
file system, `MaxTasks` the queue length at which users stop adding tasks;
`MaxOthers` transactions of other clients in `ZkOps`. In `ZkSession` `MaxLosses`
bounds broken connections: with two, a session can expire during the rewatch that
follows an earlier expiry, or a plain loss can come before, during or after an expiry;
the safety properties are proved for any number. In `ZkSubWatch` four
transactions create the parent and a child and delete and re-create one of them, or
create both children and change one; `MaxExpiries` is one, because the state after
an expiry is the initial one except for the record and what the user knows. `BufSize` is 1 in place
of 1024; lengths around it are -1 (no data) to 3. Deadlock checking is off
because every bounded history ends.

### Fairness

`FairSpec` of `ZkWatch` assumes that the server answers, that the IO and the
completion thread run, and that a started `watch_path` returns: none waits for
another actor except through the queues that are modelled. `FairSpec` of
`LocalFile` assumes that the worker runs and a started registration finishes;
callbacks return. Nobody has to write, register, stop, or lose the connection.
`FairSpec` of `ZkSession` assumes that each thread runs, that requests are answered
while there is a connection, and that an attempt to connect ends; the server may
stay unreachable for ever and need not let a session expire. It leaves out one
timing: a new session that is lost and expired before `connect_server` has looked at
the flag, which it does every 10 ms (`"fast_expiry"` in `Allowed`); there the code
would wait for ever. `FairSpec` of `ZkSubWatch` is that of `ZkWatch` without the IO
thread.

## 4. Proofs

All theorems hold for every value of the constants that satisfies the assumptions
in the modules: any number of calls, paths, children, files, losses, expiries and
transactions. The assumptions only say that distinct things are distinct, that
bounds are numbers and, for `ZkSession` and `ZkSubWatch`, that the records and the
children a loop goes through are finite. For `ZkOps` they also say that every path
begins with a separator, that it is a name below its parent, a path or the root, and
that the server lists a name once. None of the proofs uses a bound.
The type invariants of `LocalFile` and `ZkOps` are proved and not checked by a run as well.

Queues are handled by membership or by position, with one lemma each for appending,
taking the head and replacing a message (`QueueTheorems` and the first section of
each proof module); an action's proof then says which messages it adds and takes.

### `ZkWatch`

* `TypeCorrect`: `Spec => []TypeOK`, one step per action.
* `WatchersCovered`: `Spec => []ArmedCovered`. `ArmedCovered` is not inductive: an
  unread exists answer will activate its watcher, and what covers that watcher
  must come *after* the answer on the wire. `CoverInv` adds `AnsweredCovered`
  (the same claim for unread answers, by position) and `OfflineForgets` (without a
  connection the server holds no watch, and before a reconnect nothing is unread,
  so `SetWatches` starts from a clean slate).
* `ChainOnce`: `Spec => []OneCarrier`. `ChainInv` says where the exists, the
  event and the get of one call can be at the same time (`Single`), in which order
  (`InOrder`: the event of a watch is delivered after the exists that set it, a get
  completes before a later exists), and that nothing happens before `watch_path` has
  sent its first request (`NotBegun`).
* `ValuesForward`: `Spec => NoOldValue`. `ValueInv`: a value that was read and not
  reported lies between what was told and the node (`GotBetween`); a node that exists
  although an exists found none is new to the call (`MissingNew`); after a `del`
  everything that can still be read is newer than all that was told (`FreshAfterDel`).
  It rests on `ChainInv`: one get at a time, in order with the exists.
* `ViewRefined`: `watch_path` implements `WatchView`, for instances without connection
  loss. The hypothesis is necessary: section 2 describes the repeated deletion that
  a lost exists reports. `CalmInv` says that nothing has been lost and
  that no event is older than the first transaction.
* `RemoveEnds`: `Spec => []RemoveEndsChain`. The property is about the only
  watch on its path. `EndInv` is the converse of coverage: the server has the watch, or
  an unread message ends it, only while the client has the watcher in a table or will
  put it there before it reads that end (`Backed`). A removal succeeds only if
  the server has the watch; its answer then finds the watcher in a table, and since the
  watch is in one place at most (`ChainInv`) nothing of it is left (`Gone`).
* `ChainGoesOn`: `Spec => []ChainAlive` for instances without loss and without
  removals. `AliveInv` follows the watch from the request to the answer, the table
  and the event. With a loss it is false: the first exists can be lost, and so can
  a later one, which is the run `watch_broken_chain`.
* `ViewSettles`: `Spec => []SettledView` for instances without loss (a lost get is not
  repeated), removals and several watches on a path included. `KnowInv` says that the
  watch is *fresh* as long as nothing that ends it is unread behind its exists
  (`Fresh`); then the server has it (by `CoverInv`), so the node cannot change without
  ending the freshness, and every answer under way is about the present node (`Know`).
  The first event slot `dummy` is told apart by `FirstTime`: until the first exists has
  completed, the user was told nothing and no get is under way.

### `ZkSubWatch`

* `TypeCorrect`: `Spec => []TypeOK`, with `RemovalInv` (one message of a removal is
  under way, and only while there are paths left): each table and queue holds user
  data of its own chains only, so an event never reaches the wrong watcher function.
* `WatchersStayBacked`: `Spec => []WatchersBacked`. A listing or get chain's watch is
  set only if the node exists and every transaction that ends it takes the watcher
  out of the table; a removal takes away all watchers of its path together.
* `OneListingEach`: `Spec => []ListerPerCreation`. What makes the callback of the exists
  chain start a listing (`dummy` or `created` in the event slot) must come from a
  creation that has not started one. `ListerInv` says so for the slot, for an
  event that is still queued and for an answer that is still under way, together with
  `ExistsOnce`: the exists chain is in one place.
* `ViewRefined`: `watch_sub_path` implements `WatchView`, with nothing excluded.
  `ForwardInv` orders the values and the deletions of one child in the completion
  queue across all of its get chains.
* `OneChainPerChild`: `Spec => []OneGetChain`, and `ListedAreMonitored`:
  `Spec => []ListedMonitored`. `OnceInv` accounts for the one birth of a child among its
  get chain, the listings that are still queued and `last_sub_path_` (`GetOnce`): a queued
  listing without the child that comes after one with it, or after the start of the
  chain, was answered after the deletion, and no later one has the child again. So a
  listing can start the chain only once. `Monitored` follows that chain from the
  listing through requests, tables and events for as long as the child exists.
* `ReportedDeletionsAreTrue`: `Spec => []DeletionsTrue`. `Endings`: a deletion of a child
  is in the queue or has been reported only after a birth of it, and only when it is gone
  if there was one birth. An event of the parent's deletion goes to the watchers of the
  parent only, and what a get reports is a value (by `ForwardInv`).
* `QuietChildrenAreKnown`: `Spec => []SteadyUpToDate`, the safety half of
  `ChildrenConverge`. `KnownInv` follows the work from the parent to the value, each part
  saying what is still under way while the next one has not been reached: the exists chain
  of a parent that was created once has still to start the listing chain (`StartInv`);
  that chain goes on (`ListerAlive`); a child is in `last_sub_path_`, in a listing on its
  way, or the listing chain will ask again (`Seen`); its value has been told, is on its
  way, or its get chain will ask again (`Heard`). With both queues empty only the last
  stage is left. The steps that could break it are a listing without the child that
  replaces one with it (excluded by `GetOnce`), an older value told last (by
  `ForwardInv`), and an event that finds no watcher (by `BackedInv`).

### `ZkSession`

* `TypeCorrect`: `Spec => []TypeOK`. The rewatch takes the head of the records it
  moved out, so the proof carries `MovedHead`: there is one.
* `ResetsAlone`: `Spec => []NoCallbackWhileReset`, inductive by itself: only
  `DetectJoin` leads to the reset, after the join, and only `ConnectServer` starts
  another completion thread.
* `LiveDataIsKept`: `Spec => []LiveDataKept`. Every step but `DetectClear` keeps the
  user data, and what a step newly points to is held by the call that made it
  (`KeptStep`). `DetectClear` frees everything, so it has to be shown that the session
  is over by then. `SessionInv` adds the two facts that connect the flag with the
  session: `ExpiryHeard` (the event of the expiry is queued only when the session has
  expired, and no later connect of the same handle contradicts it) and `FlagUp` (once
  `connect_server` has returned, `is_conntected_` is false only for a session that is
  over, or while the monitor is being destroyed).
* `FaultsAreConfined`: `Spec => []FaultsInChange`. User data: `DataKept`, with `ChangeOver`
  (what is being closed is an expired handle), says that every handle that is not being
  replaced points to live user data only. The handle: `LifeInv` says that it is freed only
  during a change or by the destructor's last step. Members: `LifeInv` also says that when
  the destructor has returned the detecting thread is done and the completion thread has
  exited, so that neither the rewatch nor a callback is left to use one. Between the
  start and the end of the destructor nothing prevents such a use.
* `WatchedOnce`: `Spec => []NoDoubleWatch`. `SingleInv` says of a call that was not under
  way during a change: it is not on the new handle when the records are taken
  (`FreshHandle`), nor until its turn in the rewatch comes (`NotYet`), and what is
  watched again was sent by its call before (`Unsent`). The records are gone through
  once each (`RecordsOnce`).
* `RewatchComplete`: `Spec => []CallsBacked`. `BackInv` says that the record of a call is
  in `watch_record_` or among those moved out and not yet put back (`RecordKept`), that
  on a handle that accepts requests its chain is on the handle, was lost with a
  connection or will be started by the rewatch (`ChainKept`), and that only a removal
  that was asked for ends a chain (`RemovalsAsked`). An event keeps the chain going only
  because it finds its user data, which is `LiveDataKept`.

### `LocalFile`

* `TypeCorrect`: `Spec => []TypeOK`, with `KindInv`: observations by kind of monitor, and
  a callback is registered only under its own key.
* `MonitorsBacked`: `Spec => []MonitorBacked`. The strengthening `BackedInv` adds
  types and that a call about to insert its monitor has read something.
* `CallbackFound`: `Spec => []NoEmptyCall`. As long as no removal has run, `CallInv`
  says that the live maps and the copies of the round agree on every key that is
  still to be compared, and on the key being read; once one has run, `removals` stays
  true and the claim is void. Removals really break it: the
  round that removes a monitor still compares its copies, reports once more and can
  write the `last_*` entry back; the next round finds no callback.
* `ValuesOrdered`: `Spec => ValuesInOrder`. Two facts are needed: `TasksFirst`, a round
  polls for a call only after the task with its first value has run (the task is queued
  before the monitor is inserted, and a round takes the tasks and copies the maps in one
  critical section), and `NothingAhead`, nothing heard or queued is newer than the file.

### `ZkOps` and `ZkPath`

* `SplitCorrect`: for every path that begins with a separator, of any length,
  `split_path` yields the path and all its ancestors, each right after its parent. It is
  proved without an induction rule: a recursive function is characterised by its
  defining equation, and a claim about all its arguments is proved by taking the least
  one that violates it (`Least`).
* `TypeCorrect`: `Spec => []TypeOK`, with `OpsInv`: no node loses its parent, and a call has
  something left to do until it has its result.
* `ReadsStored`: `Spec => []NoGarbage`, whatever the length of the buffer and whoever
  writes between the two reads.
* `DeletesReportTruth`: `Spec => DeleteReportsTruth`. Success is the answer to the deletion
  of the path itself, which the server grants only for a node without children; since
  the tree is closed under parents (`OpsInv`), nothing is below it then.
* `PrefixesAreEnough`: `Spec => []PrefixesSuffice`. `PrefixInv`: while only creates run and
  nothing is lost, the next prefix of a create has its parent. It uses `SplitCorrect`.
* `SuccessIffStored`: `Spec => []OkIffStored`. `StoredInv`: the value of a create is at its
  path exactly if it has reported success, or has lost its connection.
* `OneDeleteGetsThrough`: `Spec => []SomeDeleteGetsThrough`. What a delete still has to do
  is a sequence of listings and of nodes to delete (`Plan`). It is ordered by `Earlier`
  (names in the order the server lists them, and what is below a node before the node),
  accounts for every node that exists (`Covers`), and what it speaks of exists when
  something earlier does (`Resumes`): the nodes that are left are the end of one common
  order. `DeletesInv`: while the path exists some delete is ahead, all of its plan is
  still there. Such a delete is never refused, and a delete that succeeds is ahead
  afterwards. It uses `ListAssumption`: a path is a name below its parent, and the server
  lists a name once, in an order that does not depend on the caller.

### Only model-checked

* Liveness, which this prover does not handle: `Converges`, `StateSettles`,
  `PolledValueSettles`, `StopJoins`, `Recovers`, `Survives`, `DestructorReturns`,
  `ChildrenConverge`, `RemovalEnds`.
* `SplitComplete` compares `split_path` with its definition on short strings; its
  general form is `SplitCorrect`.

## 5. Not modelled

* Connection loss under `watch_sub_path`: the chains lose their requests in the way
  `ZkWatch` shows for one chain.
* Get requests of `watch_path` across a session change (`ZkSession` has the exists
  chain only), and a blocking `remove_watches` made from inside a callback.
* The listings of `watch_sub_path` during the destruction of the monitor. A listing that
  is answered, or answered again after a child's event, between the destruction of
  `last_sub_path_` and `zookeeper_close` uses the destroyed map on the completion thread
  (`config_monitor.hpp:319-340`), without any session change; so does the callback of a
  sub-path removal (`config_monitor.hpp:371-374`). `ZkSession` shows the same of the
  callback of a `watch_path` removal.
* Destruction while a thread is inside a call of the monitor, `remove_watches` included.
* The rest of the C client (sockets, TLS, host lists, serialisation, the synchronous
  API beyond what the operations use, multi, reconfiguration): most of the
  repository's lines, but none of its own logic.
* TTL and ACL arguments, sequential names, TLS, authentication, host lists, log
  settings, `get_client_ip`: no control flow that the properties depend on.
* A file is overwritten in one step; a reader that sees it half written is not
  represented. A file replaced between opening and reading counts as read
  afterwards.
* Ephemeral parents, and ZooKeeper's quotas and access control.
* googletest, the example program and the unit tests.

## 6. State of the plan

Done: all modules of section 2, the runs of section 3 and the theorems of section 4.

Every safety property of the passing runs is proved, except `SplitComplete`, whose
general form is; what is left to TLC is listed at the end of section 4. Some hazards of
`PROJECT.json` have no property, because the code lets them happen and nothing in the
repository says otherwise: an exception that ends the program (`cppzk.hpp:618`,
`local_file.hpp:272`) and user data that is never given back (`cppzk.hpp:354`). A change of
the code there would first need a statement of what is wanted.

----------------------------- MODULE LocalFile -----------------------------
(***************************************************************************)
(* loc::loc_file: monitoring of local files by polling.                    *)
(*                                                                         *)
(* A worker thread repeats: wait (with a timeout) for tasks, take the task *)
(* queue and copies of the monitor maps under task_mtx_, run the tasks,    *)
(* then compare every monitored path with what was last seen, working on   *)
(* the copies and writing differences back to the live maps.  User threads *)
(* register monitors in several steps: read the file system, queue a task  *)
(* that delivers what was read, insert the monitor.  Other processes write *)
(* the files at any time.                                                  *)
(*                                                                         *)
(* One directory Dir holds the files File.  A monitor is keyed by its map  *)
(* and its path.  A file's content is identified by a write counter.       *)
(***************************************************************************)
EXTENDS Integers, Sequences

CONSTANTS
    File,           \* files of the directory
    Dir,            \* the directory
    Call,           \* calls of exists_path, get_path_value and get_sub_path
    KeyOf,          \* KeyOf[c]: the monitor that call c registers
    NoCall,         \* no callback in a monitor map
    NoObs,          \* no entry in a last_* map
    SameTick,       \* may two writes get the same modification time?
    UserTasks,      \* which of "create", "set", "delete", "remove" users queue
    MaxWrites,      \* bound: changes of the file system
    MaxTasks        \* bound: length of the task queue when a user adds a task

Target == File \cup {Dir}
Key == ({"exist"} \X Target) \cup ({"get"} \X File) \cup ({"sub"} \X {Dir})

ASSUME KeyOfAssumption == KeyOf \in [Call -> Key]
ASSUME DirAssumption == Dir \notin File
ASSUME NoCallAssumption == NoCall \notin Call
ASSUME NoObsAssumption == NoObs \notin Nat /\ NoObs \notin BOOLEAN /\ \A s \in SUBSET File : NoObs # s
ASSUME BoundAssumption == MaxWrites \in Nat /\ MaxTasks \in Nat

VARIABLES
    \* file system
    content,        \* content[t]: number of t's last write, Absent if t does not exist
    mtime,          \* mtime[t]: modification time, 0 if t does not exist
    writes,         \* writes so far
    clock,          \* file system time
    \* loc_file, guarded by task_mtx_
    task_queue,     \* task_queue_
    monitor,        \* monitor_exist_path_, monitor_get_path_, monitor_sub_path_
    last,           \* last_existed_status_, last_changed_time_, last_path_children_
    run,            \* run_
    \* worker thread
    pc,             \* where the worker is
    batch,          \* tasks taken in this round
    snapMonitor,    \* copy of the monitor maps
    snapLast,       \* copy of the last_* maps
    todo,           \* keys of the copy still to be compared
    cur,            \* handle_monitor_get: the key and the time just read
    \* registering user threads
    reg,            \* reg[c]: progress of call c
    seen,           \* seen[c]: what call c has read and will insert as last
    removals,       \* history: a remove_watches task has run
    \* what the callbacks have been told
    heard           \* heard[c]: argument of the last callback

fs     == <<content, mtime, writes, clock>>
maps   == <<monitor, last>>
copies == <<snapMonitor, snapLast>>
worker == <<pc, batch, copies, todo, cur>>
calls  == <<reg, seen, removals>>
vars   == <<fs, task_queue, maps, run, worker, calls, heard>>

Absent == 0

-----------------------------------------------------------------------------
(***************************************************************************)
(* The file system.                                                        *)
(***************************************************************************)
exists(t) == content[t] # Absent
get_path_children == {f \in File : exists(f)}

\* What the comparison of a monitor looks at.
Observe(k) ==
    CASE k[1] = "exist" -> exists(k[2])
      [] k[1] = "get"   -> mtime[k[2]]
      [] k[1] = "sub"   -> get_path_children

\* A write gets the current time; time advances between writes unless two of
\* them fall into one tick of the file system's clock.
Write(f) ==
    /\ writes' = writes + 1
    /\ clock' \in IF SameTick /\ clock > 0 THEN {clock, clock + 1} ELSE {clock + 1}
    /\ LET made == {f} \cup (IF exists(Dir) THEN {} ELSE {Dir})
       IN  /\ content' = [t \in Target |-> IF t \in made THEN writes + 1 ELSE content[t]]
           /\ mtime' = [t \in Target |-> IF t \in made THEN clock' ELSE mtime[t]]

\* Removing the directory removes its files (remove_all).
Remove(t) ==
    /\ writes' = writes + 1
    /\ LET gone == IF t = Dir THEN Target ELSE {t}
       IN  /\ content' = [u \in Target |-> IF u \in gone THEN Absent ELSE content[u]]
           /\ mtime' = [u \in Target |-> IF u \in gone THEN 0 ELSE mtime[u]]
    /\ UNCHANGED clock

\* Every queued task may still write once.
Room == writes + Len(task_queue) + Len(batch) < MaxWrites

OtherProcess ==
    /\ Room
    /\ \/ \E f \in File : Write(f)
       \/ \E t \in Target : exists(t) /\ Remove(t)
    /\ UNCHANGED <<task_queue, maps, run, worker, calls, heard>>

-----------------------------------------------------------------------------
(***************************************************************************)
(* User threads.                                                           *)
(***************************************************************************)
add_task(task) == task_queue' = Append(task_queue, task)

\* What the initial callback of call c is given.
InitialArg(c) == IF KeyOf[c][1] = "get" THEN content[KeyOf[c][2]] ELSE Observe(KeyOf[c])

\* Whether the call goes on to insert a monitor: get_path_value and
\* get_sub_path return early when the path cannot be read.
Registers(c) == KeyOf[c][1] = "exist" \/ exists(KeyOf[c][2])

\* get_path_value, get_file_value: the file is opened ...
RegisterOpen(c) ==
    /\ reg[c] = "idle"
    /\ KeyOf[c][1] = "get"
    /\ exists(KeyOf[c][2])
    /\ reg' = [reg EXCEPT ![c] = "open"]
    /\ UNCHANGED <<fs, task_queue, maps, run, worker, seen, removals, heard>>

\* ... then std::filesystem::file_size asks for the path again and throws, to
\* the caller, if the file has gone in between.
RegisterThrow(c) ==
    /\ reg[c] = "open"
    /\ ~exists(KeyOf[c][2])
    /\ reg' = [reg EXCEPT ![c] = "thrown"]
    /\ UNCHANGED <<fs, task_queue, maps, run, worker, seen, removals, heard>>

\* exists_path, get_path_value, get_sub_path: read, and queue the first
\* callback.  A missing directory is reported without children.  A file that
\* was replaced since it was opened counts as read after its replacement.
RegisterRead(c) ==
    /\ reg[c] = IF KeyOf[c][1] = "get" /\ exists(KeyOf[c][2]) THEN "open" ELSE "idle"
    /\ add_task([op |-> "init", c |-> c, arg |-> InitialArg(c)])
    /\ seen' = [seen EXCEPT ![c] = Observe(KeyOf[c])]
    /\ reg' = [reg EXCEPT ![c] = IF ~Registers(c) THEN "done"
                                 ELSE IF KeyOf[c][1] = "get" THEN "time" ELSE "insert"]
    /\ UNCHANGED <<fs, maps, run, worker, removals, heard>>

\* get_path_value reads the modification time after the value.
RegisterTime(c) ==
    /\ reg[c] = "time"
    /\ seen' = [seen EXCEPT ![c] = Observe(KeyOf[c])]
    /\ reg' = [reg EXCEPT ![c] = "insert"]
    /\ UNCHANGED <<fs, task_queue, maps, run, worker, removals, heard>>

\* Mutant: the state is read again when the monitor is inserted.
Mut_RegisterInsert(c) ==
    LET k == KeyOf[c]
    IN  /\ reg[c] = "insert"
        /\ reg' = [reg EXCEPT ![c] = "done"]
        /\ monitor' = [monitor EXCEPT ![k] = IF @ = NoCall THEN c ELSE @]
        /\ last' = [last EXCEPT ![k] = IF @ = NoObs THEN Observe(k) ELSE @]
        /\ UNCHANGED <<fs, task_queue, run, worker, seen, removals, heard>>

\* emplace does not replace an entry that is there.
RegisterInsert(c) ==
    LET k == KeyOf[c]
    IN  /\ reg[c] = "insert"
        /\ reg' = [reg EXCEPT ![c] = "done"]
        /\ monitor' = [monitor EXCEPT ![k] = IF @ = NoCall THEN c ELSE @]
        /\ last' = [last EXCEPT ![k] = IF @ = NoObs THEN seen[c] ELSE @]
        /\ UNCHANGED <<fs, task_queue, run, worker, seen, removals, heard>>

\* create_path, set_path_value, delete_path and remove_watches queue a task.
\* Users remove what they have registered.
UserTask(op, t) ==
    /\ op \in UserTasks
    /\ Room
    /\ Len(task_queue) < MaxTasks
    /\ t = Dir => op \in {"delete", "remove"}
    /\ op = "remove" => \E c \in Call : reg[c] = "done" /\ KeyOf[c][2] = t
    /\ add_task([op |-> op, t |-> t])
    /\ UNCHANGED <<fs, maps, run, worker, calls, heard>>

\* ~loc_file: the flag; the join is the worker's exit.
Stop ==
    /\ run
    /\ run' = FALSE
    /\ UNCHANGED <<fs, task_queue, maps, worker, calls, heard>>

-----------------------------------------------------------------------------
(***************************************************************************)
(* The worker thread.                                                      *)
(***************************************************************************)
\* while (run_)
WorkerExit ==
    /\ pc = "loop"
    /\ ~run
    /\ pc' = "exit"
    /\ UNCHANGED <<fs, task_queue, maps, run, batch, copies, todo, cur, calls, heard>>

WorkerLoop ==
    /\ pc = "loop"
    /\ run
    /\ pc' = "wait"
    /\ UNCHANGED <<fs, task_queue, maps, run, batch, copies, todo, cur, calls, heard>>

\* Mutant: only a task ends the wait.
Mut_WaitOver == task_queue # <<>>

\* The wait ends with a task, at shutdown or by its timeout, that is, always.
WaitOver == TRUE

WorkerTake ==
    /\ pc = "wait"
    /\ WaitOver
    /\ pc' = "tasks"
    /\ batch' = task_queue
    /\ task_queue' = <<>>
    /\ snapMonitor' = monitor
    /\ snapLast' = last
    /\ todo' = {k \in Key : last[k] # NoObs}
    /\ UNCHANGED <<fs, maps, run, cur, calls, heard>>

Tell(c, arg) == heard' = [heard EXCEPT ![c] = arg]

\* remove_watches: the monitors of the path, and for a directory those of its
\* present files' values.
Removed(t) ==
    IF t = Dir THEN {<<"exist", t>>, <<"sub", t>>} \cup ({"get"} \X get_path_children)
    ELSE {<<"exist", t>>, <<"get", t>>}

\* Mutants: only one of the two maps is erased.
Mut_EraseMonitor(keys) ==
    /\ monitor' = [k \in Key |-> IF k \in keys THEN NoCall ELSE monitor[k]]
    /\ UNCHANGED last
Mut_EraseLast(keys) ==
    /\ last' = [k \in Key |-> IF k \in keys THEN NoObs ELSE last[k]]
    /\ UNCHANGED monitor

Erase(keys) ==
    /\ monitor' = [k \in Key |-> IF k \in keys THEN NoCall ELSE monitor[k]]
    /\ last' = [k \in Key |-> IF k \in keys THEN NoObs ELSE last[k]]

TaskEffect(task) ==
    \/ /\ task.op = "init"
       /\ Tell(task.c, task.arg)
       /\ UNCHANGED <<fs, maps, removals>>
    \/ /\ task.op = "create"
       /\ IF exists(task.t) THEN UNCHANGED fs ELSE Write(task.t)
       /\ UNCHANGED <<maps, removals, heard>>
    \/ /\ task.op = "set"
       /\ IF exists(task.t) THEN Write(task.t) ELSE UNCHANGED fs
       /\ UNCHANGED <<maps, removals, heard>>
    \/ /\ task.op = "delete"
       /\ IF exists(task.t) THEN Remove(task.t) ELSE UNCHANGED fs
       /\ UNCHANGED <<maps, removals, heard>>
    \/ /\ task.op = "remove"
       /\ Erase(Removed(task.t))
       /\ removals' = TRUE
       /\ UNCHANGED <<fs, heard>>

\* Mutant: one task per round, the others go back to the queue.
Mut_RunTask ==
    /\ pc = "tasks"
    /\ batch # <<>>
    /\ TaskEffect(Head(batch))
    /\ batch' = <<>>
    /\ task_queue' = Tail(batch) \o task_queue
    /\ UNCHANGED <<run, pc, copies, todo, cur, reg, seen>>

RunTask ==
    /\ pc = "tasks"
    /\ batch # <<>>
    /\ TaskEffect(Head(batch))
    /\ batch' = Tail(batch)
    /\ UNCHANGED <<task_queue, run, pc, copies, todo, cur, reg, seen>>

\* The three passes over the copies, in the code's order.
PassKind == [exist |-> "get", get |-> "sub", sub |-> "loop"]
Left(kind) == {k \in todo : k[1] = kind}

TasksDone ==
    /\ pc = "tasks"
    /\ batch = <<>>
    /\ pc' = "exist"
    /\ UNCHANGED <<fs, task_queue, maps, run, batch, copies, todo, cur, calls, heard>>

PassDone ==
    /\ pc \in DOMAIN PassKind
    /\ Left(pc) = {}
    /\ pc' = PassKind[pc]
    /\ UNCHANGED <<fs, task_queue, maps, run, batch, copies, todo, cur, calls, heard>>

\* Nothing changed for this key.
Same(k) ==
    /\ k \in Left(pc)
    /\ snapLast[k] = Observe(k)
    /\ todo' = todo \ {k}
    /\ UNCHANGED <<fs, task_queue, maps, run, pc, batch, copies, cur, calls, heard>>

\* Calling the callback of the copy: an empty std::function throws, and the
\* exception ends the thread and the program.
CallBack(k, arg, next) ==
    IF snapMonitor[k] = NoCall
    THEN pc' = "bad_function_call" /\ UNCHANGED heard
    ELSE pc' = next /\ Tell(snapMonitor[k], arg)

\* handle_monitor_exist and handle_monitor_sub: write back, then call.
HandleChange(k) ==
    /\ pc \in {"exist", "sub"}
    /\ k \in Left(pc)
    /\ snapLast[k] # Observe(k)
    /\ last' = [last EXCEPT ![k] = Observe(k)]
    /\ CallBack(k, Observe(k), pc)
    /\ todo' = todo \ {k}
    /\ UNCHANGED <<fs, task_queue, monitor, run, batch, copies, cur, calls>>

\* handle_monitor_get reads the time first ...
GetTime(k) ==
    /\ pc = "get"
    /\ k \in Left("get")
    /\ snapLast[k] # Observe(k)
    /\ cur' = [k |-> k, time |-> Observe(k), found |-> FALSE]
    /\ pc' = "open"
    /\ todo' = todo \ {k}
    /\ UNCHANGED <<fs, task_queue, maps, run, batch, copies, calls, heard>>

\* ... then opens the file ...
GetOpen ==
    /\ pc = "open"
    /\ pc' = "value"
    /\ cur' = [cur EXCEPT !.found = exists(cur.k[2])]
    /\ UNCHANGED <<fs, task_queue, maps, run, batch, copies, todo, calls, heard>>

\* ... whose size cannot be had if it has gone since, in the worker thread ...
GetThrow ==
    /\ pc = "value"
    /\ cur.found /\ ~exists(cur.k[2])
    /\ pc' = "filesystem_error"
    /\ UNCHANGED <<fs, task_queue, maps, run, batch, copies, todo, cur, calls, heard>>

\* ... and calls back with the value, or with not_exist ...
GetValue ==
    /\ pc = "value"
    /\ cur.found => exists(cur.k[2])
    /\ CallBack(cur.k, IF cur.found THEN content[cur.k[2]] ELSE Absent, "store")
    /\ UNCHANGED <<fs, task_queue, maps, run, batch, copies, todo, cur, calls>>

\* Mutant: the time is read again after the value.
Mut_GetStore ==
    /\ pc = "store"
    /\ pc' = "get"
    /\ IF cur.found
       THEN last' = [last EXCEPT ![cur.k] = Observe(cur.k)] /\ UNCHANGED monitor
       ELSE Erase({cur.k})
    /\ UNCHANGED <<fs, task_queue, run, batch, copies, todo, cur, calls, heard>>

\* ... then writes the time back, or drops the monitor of a file that is gone.
GetStore ==
    /\ pc = "store"
    /\ pc' = "get"
    /\ IF cur.found
       THEN last' = [last EXCEPT ![cur.k] = cur.time] /\ UNCHANGED monitor
       ELSE Erase({cur.k})
    /\ UNCHANGED <<fs, task_queue, run, batch, copies, todo, cur, calls, heard>>

-----------------------------------------------------------------------------
Unheard == NoObs

\* An exception has left the worker thread.
Terminated == {"bad_function_call", "filesystem_error"}

Init ==
    /\ content = [t \in Target |-> Absent]
    /\ mtime = [t \in Target |-> 0]
    /\ writes = 0
    /\ clock = 0
    /\ task_queue = <<>>
    /\ monitor = [k \in Key |-> NoCall]
    /\ last = [k \in Key |-> NoObs]
    /\ run = TRUE
    /\ pc = "loop"
    /\ batch = <<>>
    /\ snapMonitor = [k \in Key |-> NoCall]
    /\ snapLast = [k \in Key |-> NoObs]
    /\ todo = {}
    /\ cur = [k |-> CHOOSE k \in Key : TRUE, time |-> 0, found |-> FALSE]
    /\ reg = [c \in Call |-> "idle"]
    /\ seen = [c \in Call |-> NoObs]
    /\ removals = FALSE
    /\ heard = [c \in Call |-> Unheard]

Register(c) ==
    \/ RegisterOpen(c)
    \/ RegisterThrow(c)
    \/ RegisterRead(c)
    \/ RegisterTime(c)
    \/ RegisterInsert(c)

Worker ==
    \/ WorkerExit
    \/ WorkerLoop
    \/ WorkerTake
    \/ RunTask
    \/ TasksDone
    \/ PassDone
    \/ \E k \in Key : Same(k) \/ HandleChange(k) \/ GetTime(k)
    \/ GetOpen
    \/ GetThrow
    \/ GetValue
    \/ GetStore

Next ==
    \/ OtherProcess
    \/ \E c \in Call : Register(c)
    \/ \E op \in {"create", "set", "delete", "remove"}, t \in Target : UserTask(op, t)
    \/ Stop
    \/ Worker

Spec == Init /\ [][Next]_vars

\* The worker thread runs, its callbacks return, and a registration that has
\* begun finishes; nobody has to write, register or stop.
FairSpec ==
    /\ Spec
    /\ WF_vars(Worker)
    /\ \A c \in Call : WF_vars(reg[c] # "idle" /\ Register(c))

-----------------------------------------------------------------------------
(***************************************************************************)
(* Correctness.                                                            *)
(***************************************************************************)
\* What a monitor of the given kind compares and reports.
ObsOf(kind) ==
    CASE kind = "exist" -> BOOLEAN
      [] kind = "get"   -> Nat
      [] kind = "sub"   -> SUBSET File

ObsMap(m) == /\ DOMAIN m = Key
             /\ \A k \in Key : m[k] = NoObs \/ m[k] \in ObsOf(k[1])
ObsPerCall(m) == /\ DOMAIN m = Call
                 /\ \A c \in Call : m[c] = NoObs \/ m[c] \in ObsOf(KeyOf[c][1])

IsTask(task) ==
    \/ task.op = "init" /\ task.c \in Call /\ task.arg \in ObsOf(KeyOf[task.c][1])
    \/ task.op \in {"create", "set"} /\ task.t \in File
    \/ task.op \in {"delete", "remove"} /\ task.t \in Target

\* Every variable has its type: each map, queue and callback holds
\* observations of the monitor's own kind.
TypeOK ==
    /\ content \in [Target -> Nat]
    /\ mtime \in [Target -> Nat]
    /\ writes \in Nat /\ clock \in Nat
    /\ \A q \in {task_queue, batch} : \A i \in DOMAIN q : IsTask(q[i])
    /\ monitor \in [Key -> Call \cup {NoCall}]
    /\ snapMonitor \in [Key -> Call \cup {NoCall}]
    /\ ObsMap(last) /\ ObsMap(snapLast)
    /\ run \in BOOLEAN
    /\ pc \in {"loop", "wait", "tasks", "exist", "get", "sub", "open", "value", "store",
               "exit"} \cup Terminated
    /\ todo \in SUBSET Key
    /\ cur.k \in Key /\ cur.found \in BOOLEAN
    /\ pc \in {"open", "value", "store"} => cur.k[1] = "get" /\ cur.time \in Nat
    /\ reg \in [Call -> {"idle", "open", "thrown", "time", "insert", "done"}]
    /\ ObsPerCall(seen) /\ ObsPerCall(heard)
    /\ removals \in BOOLEAN

\* Until a remove_watches task has run, the worker finds a callback for every
\* change it has to report: the two maps of a monitor, written under separate
\* locks by user threads and by the worker, never drift apart so far that an
\* empty std::function is called (handle_monitor_exist, _get and _sub).
NoEmptyCall == pc = "bad_function_call" => removals

\* Values reach a callback in the order they were written: the initial value,
\* read before the monitor is inserted, is never delivered after a later one
\* found by polling (get_path_value, local_file.hpp:164; handle_monitor_get).
ValuesInOrder ==
    [][\A c \in Call :
         /\ KeyOf[c][1] = "get"
         /\ heard[c] # Unheard
         /\ heard'[c] # Absent
         => heard'[c] >= heard[c]]_vars

\* A monitor that has a callback has something to compare with, whatever the
\* worker writes back and erases while users register (emplace, erase and
\* operator[] on the two maps under separate locks).
MonitorBacked == \A k \in Key : monitor[k] # NoCall => last[k] # NoObs

\* The worker polls the existing file of call c.
Polled(c) ==
    /\ run /\ pc \notin Terminated
    /\ reg[c] = "done" /\ monitor[KeyOf[c]] = c
    /\ exists(KeyOf[c][2])

\* Polling itself loses no value: after the first change it has reported, the
\* last value arrives, because the time that is stored was read before the
\* value (handle_monitor_get, local_file.hpp:376-391) and every write has a
\* time of its own.
PolledValueSettles ==
    \A c \in Call :
        KeyOf[c][1] = "get" =>
            <>[](Polled(c) /\ last[KeyOf[c]] # seen[c] => heard[c] = content[KeyOf[c][2]])

\* Once the files stop changing, the callbacks of existence and directory
\* monitors have been told the present state (exists_path, get_sub_path),
\* unless an exception has ended the worker.
StateSettles ==
    \A c \in Call :
        KeyOf[c][1] \in {"exist", "sub"} =>
            <>[](run /\ pc \notin Terminated /\ reg[c] = "done" /\ monitor[KeyOf[c]] = c
                   => heard[c] = Observe(KeyOf[c]))

\* Destruction finishes: the join in ~loc_file returns, unless an exception has
\* already ended the program.
StopJoins == ~run ~> pc \in {"exit"} \cup Terminated

\* "[changed] event just for current path, if the path exists all the time"
\* (local_file.hpp:162): a monitored file's last value is reported.
ValueSettles ==
    \A c \in Call :
        KeyOf[c][1] = "get" =>
            <>[](Polled(c) => heard[c] = content[KeyOf[c][2]])

=============================================================================

-------------------------- MODULE LocalFile_proofs --------------------------
(***************************************************************************)
(* Proofs about loc_file: the two maps of a monitor stay together.         *)
(***************************************************************************)
EXTENDS LocalFile, QueueTheorems

AnyObs == BOOLEAN \cup Nat \cup SUBSET File
TaskOp == {"create", "set", "delete", "remove"}
Task   == [op : {"init"}, c : Call, arg : AnyObs] \cup [op : UserTasks \cap TaskOp, t : Target]

\* The types the arguments below rest on.
FsTyped ==
    /\ content \in [Target -> Nat]
    /\ mtime \in [Target -> Nat]
    /\ writes \in Nat
    /\ clock \in Nat
QueuesTyped == task_queue \in Seq(Task) /\ batch \in Seq(Task)
MapsTyped ==
    /\ monitor \in [Key -> Call \cup {NoCall}]
    /\ snapMonitor \in [Key -> Call \cup {NoCall}]
    /\ last \in [Key -> AnyObs \cup {NoObs}]
    /\ todo \in SUBSET Key
    /\ cur \in [k : Key, time : AnyObs, found : BOOLEAN]
CallsTyped ==
    /\ reg \in [Call -> {"idle", "open", "thrown", "time", "insert", "done"}]
    /\ seen \in [Call -> AnyObs \cup {NoObs}]
Typed == FsTyped /\ QueuesTyped /\ MapsTyped /\ CallsTyped

\* A call that will insert a monitor has read what to compare with.
SeenBeforeInsert == \A c \in Call : reg[c] \in {"time", "insert"} => seen[c] # NoObs

BackedInv == Typed /\ SeenBeforeInsert /\ MonitorBacked

-----------------------------------------------------------------------------
\* Any path can be observed, and an observation is never the absent entry.
LEMMA ObserveType ==
    ASSUME FsTyped, NEW k \in Key
    PROVE  Observe(k) \in AnyObs
  <1>1. CASE k[1] = "exist"
    BY <1>1 DEF Observe, AnyObs, exists
  <1>2. CASE k[1] = "get"
    <2>1. k[2] \in Target
      BY <1>2 DEF Key, Target
    <2> QED BY <1>2, <2>1 DEF Observe, AnyObs, FsTyped
  <1>3. CASE k[1] = "sub"
    <2>1. Observe(k) = get_path_children
      BY <1>3 DEF Observe
    <2> QED BY <2>1 DEF AnyObs, get_path_children
  <1> QED BY <1>1, <1>2, <1>3 DEF Key

\* The absent entry is not an observation.
LEMMA NoObsApart == \A x \in AnyObs : x # NoObs
  BY NoObsAssumption DEF AnyObs

\* What the first task of a registration carries is an observation.
LEMMA InitialArgType ==
    ASSUME FsTyped, NEW c \in Call
    PROVE  InitialArg(c) \in AnyObs
  <1>1. KeyOf[c] \in Key
    BY KeyOfAssumption
  <1>2. CASE KeyOf[c][1] = "get"
    <2>1. KeyOf[c][2] \in Target
      BY <1>1 DEF Key, Target
    <2> QED BY <1>2, <2>1 DEF InitialArg, AnyObs, FsTyped
  <1>3. CASE KeyOf[c][1] # "get"
    BY <1>1, <1>3, ObserveType DEF InitialArg
  <1> QED BY <1>2, <1>3

\* Changes of the file system keep its type.
LEMMA WriteType ==
    ASSUME FsTyped, NEW f \in Target, Write(f)
    PROVE  FsTyped'
  <1>1. clock' \in Nat /\ writes' \in Nat
    BY DEF Write, FsTyped
  <1>2. content' \in [Target -> Nat] /\ mtime' \in [Target -> Nat]
    BY <1>1 DEF Write, FsTyped
  <1> QED BY <1>1, <1>2 DEF FsTyped

\* So do removals of files and of the directory.
LEMMA RemoveType ==
    ASSUME FsTyped, NEW t \in Target, Remove(t)
    PROVE  FsTyped'
  BY DEF Remove, FsTyped, Absent

-----------------------------------------------------------------------------
\* A task of the batch changes the file system or the maps, never their types.
LEMMA TaskStep ==
    ASSUME Typed, NEW task \in Task, TaskEffect(task)
    PROVE  /\ FsTyped'
           /\ monitor' \in [Key -> Call \cup {NoCall}]
           /\ last' \in [Key -> AnyObs \cup {NoObs}]
           /\ MonitorBacked => MonitorBacked'
           /\ removals => removals'
           /\ ~removals' => UNCHANGED maps
  <1> USE DEF Typed
  <1>1. CASE task.op = "init"
    <2>1. UNCHANGED <<fs, maps, removals>>
      BY <1>1 DEF TaskEffect
    <2> QED BY <2>1 DEF fs, maps, FsTyped, MapsTyped, MonitorBacked
  <1>2. CASE task.op \in {"create", "set", "delete"}
    <2>1. UNCHANGED <<maps, removals>>
      BY <1>2 DEF TaskEffect
    <2>2. FsTyped'
      <3>1. task.t \in Target
        BY <1>2 DEF Task
      <3>2. \/ UNCHANGED fs
            \/ Write(task.t)
            \/ Remove(task.t)
        BY <1>2 DEF TaskEffect
      <3>3. CASE UNCHANGED fs
        BY <3>3 DEF fs, FsTyped
      <3>4. CASE Write(task.t)
        BY <3>1, <3>4, WriteType
      <3>5. CASE Remove(task.t)
        BY <3>1, <3>5, RemoveType
      <3> QED BY <3>2, <3>3, <3>4, <3>5
    <2> QED BY <2>1, <2>2 DEF maps, MapsTyped, MonitorBacked
  <1>3. CASE task.op = "remove"
    <2>1. UNCHANGED fs /\ Erase(Removed(task.t)) /\ removals' = TRUE
      BY <1>3 DEF TaskEffect
    <2> QED BY <2>1 DEF fs, FsTyped, Erase, MapsTyped, MonitorBacked
  <1> QED BY <1>1, <1>2, <1>3 DEF Task, TaskOp

-----------------------------------------------------------------------------
\* BackedInv is inductive: one step per action.
LEMMA BackedInit == Init => BackedInv
  <1> SUFFICES ASSUME Init PROVE BackedInv
    OBVIOUS
  <1>1. <<"exist", Dir>> \in Key
    BY DEF Key, Target
  <1>2. cur.k \in Key
    BY <1>1 DEF Init
  <1>3. FsTyped /\ QueuesTyped /\ CallsTyped
    BY DEF Init, FsTyped, QueuesTyped, CallsTyped, Absent
  <1>4. cur \in [k : Key, time : AnyObs, found : BOOLEAN]
    BY <1>2 DEF Init, AnyObs
  <1>5. MapsTyped
    BY <1>4 DEF Init, MapsTyped
  <1> QED BY <1>3, <1>5 DEF Init, BackedInv, Typed, SeenBeforeInsert, MonitorBacked

\* Every step keeps BackedInv.
LEMMA BackedStep == BackedInv /\ [Next]_vars => BackedInv'
  <1> SUFFICES ASSUME BackedInv, [Next]_vars PROVE BackedInv'
    OBVIOUS
  <1> USE DEF BackedInv, Typed
  <1>1. CASE OtherProcess
    <2>1. FsTyped'
      BY <1>1, WriteType, RemoveType DEF OtherProcess, Target
    <2> QED
      BY <1>1, <2>1 DEF OtherProcess, maps, worker, copies, calls, QueuesTyped, MapsTyped,
         CallsTyped, SeenBeforeInsert, MonitorBacked
  <1>2. ASSUME NEW c \in Call, RegisterOpen(c) PROVE BackedInv'
    BY <1>2 DEF RegisterOpen, fs, maps, worker, copies, FsTyped, QueuesTyped, MapsTyped,
       CallsTyped, SeenBeforeInsert, MonitorBacked
  <1>3. ASSUME NEW c \in Call, RegisterThrow(c) PROVE BackedInv'
    BY <1>3 DEF RegisterThrow, fs, maps, worker, copies, FsTyped, QueuesTyped, MapsTyped,
       CallsTyped, SeenBeforeInsert, MonitorBacked
  <1>4. ASSUME NEW c \in Call, RegisterRead(c) PROVE BackedInv'
    <2>1. KeyOf[c] \in Key
      BY KeyOfAssumption
    <2>2. Observe(KeyOf[c]) \in AnyObs /\ InitialArg(c) \in AnyObs
      BY <2>1, ObserveType, InitialArgType
    <2>3. [op |-> "init", c |-> c, arg |-> InitialArg(c)] \in Task
      BY <2>2 DEF Task
    <2>4. QueuesTyped'
      BY <1>4, <2>3 DEF RegisterRead, add_task, worker, QueuesTyped
    <2>5. CallsTyped' /\ SeenBeforeInsert'
      BY <1>4, <2>2, NoObsApart DEF RegisterRead, CallsTyped, SeenBeforeInsert
    <2>6. FsTyped' /\ MapsTyped' /\ MonitorBacked'
      BY <1>4 DEF RegisterRead, fs, maps, worker, copies, FsTyped, MapsTyped, MonitorBacked
    <2> QED BY <2>4, <2>5, <2>6
  <1>5. ASSUME NEW c \in Call, RegisterTime(c) PROVE BackedInv'
    <2>1. Observe(KeyOf[c]) \in AnyObs
      BY KeyOfAssumption, ObserveType
    <2>2. CallsTyped' /\ SeenBeforeInsert'
      BY <1>5, <2>1, NoObsApart DEF RegisterTime, CallsTyped, SeenBeforeInsert
    <2> QED
      BY <1>5, <2>2 DEF RegisterTime, fs, maps, worker, copies, FsTyped, QueuesTyped,
         MapsTyped, MonitorBacked
  <1>6. ASSUME NEW c \in Call, RegisterInsert(c) PROVE BackedInv'
    <2>1. KeyOf[c] \in Key
      BY KeyOfAssumption
    <2>2. MapsTyped' /\ MonitorBacked'
      BY <1>6, <2>1 DEF RegisterInsert, worker, copies, MapsTyped, CallsTyped,
         SeenBeforeInsert, MonitorBacked
    <2> QED
      BY <1>6, <2>2 DEF RegisterInsert, fs, worker, FsTyped, QueuesTyped, CallsTyped,
         SeenBeforeInsert
  <1>7. ASSUME NEW op \in TaskOp, NEW t \in Target, UserTask(op, t) PROVE BackedInv'
    <2>1. [op |-> op, t |-> t] \in Task
      BY <1>7 DEF Task, UserTask
    <2>2. QueuesTyped'
      BY <1>7, <2>1 DEF UserTask, add_task, worker, QueuesTyped
    <2> QED
      BY <1>7, <2>2 DEF UserTask, fs, maps, worker, copies, calls, FsTyped, MapsTyped,
         CallsTyped, SeenBeforeInsert, MonitorBacked
  <1>8. CASE Stop \/ WorkerExit \/ WorkerLoop \/ TasksDone \/ PassDone \/ GetThrow \/ UNCHANGED vars
    BY <1>8 DEF Stop, WorkerExit, WorkerLoop, TasksDone, PassDone, GetThrow, vars, fs, maps,
       worker, copies, calls, FsTyped, QueuesTyped, MapsTyped, CallsTyped, SeenBeforeInsert,
       MonitorBacked
  <1>9. CASE WorkerTake
    BY <1>9 DEF WorkerTake, fs, maps, calls, FsTyped, QueuesTyped, MapsTyped, CallsTyped,
       SeenBeforeInsert, MonitorBacked
  <1>10. CASE RunTask
    <2>1. Head(batch) \in Task /\ Tail(batch) \in Seq(Task)
      BY <1>10 DEF RunTask, QueuesTyped
    <2>2. TaskEffect(Head(batch))
      BY <1>10 DEF RunTask
    <2>3. /\ FsTyped'
          /\ monitor' \in [Key -> Call \cup {NoCall}]
          /\ last' \in [Key -> AnyObs \cup {NoObs}]
          /\ MonitorBacked'
      BY <2>1, <2>2, TaskStep
    <2> QED
      BY <1>10, <2>1, <2>3 DEF RunTask, copies, calls, QueuesTyped, MapsTyped, CallsTyped,
         SeenBeforeInsert
  <1>11. ASSUME NEW k \in Key, Same(k) PROVE BackedInv'
    BY <1>11 DEF Same, fs, maps, copies, calls, FsTyped, QueuesTyped, MapsTyped, CallsTyped,
       SeenBeforeInsert, MonitorBacked
  <1>12. ASSUME NEW k \in Key, HandleChange(k) PROVE BackedInv'
    <2>1. Observe(k) \in AnyObs
      BY ObserveType
    <2>2. MapsTyped' /\ MonitorBacked'
      BY <1>12, <2>1, NoObsApart DEF HandleChange, copies, MapsTyped, MonitorBacked
    <2> QED
      BY <1>12, <2>2 DEF HandleChange, fs, calls, FsTyped, QueuesTyped, CallsTyped,
         SeenBeforeInsert
  <1>13. ASSUME NEW k \in Key, GetTime(k) PROVE BackedInv'
    <2>1. Observe(k) \in AnyObs
      BY ObserveType
    <2>2. MapsTyped'
      BY <1>13, <2>1 DEF GetTime, maps, copies, MapsTyped
    <2> QED
      BY <1>13, <2>2 DEF GetTime, fs, maps, calls, FsTyped, QueuesTyped, CallsTyped,
         SeenBeforeInsert, MonitorBacked
  <1>14. CASE GetOpen
    <2>1. MapsTyped'
      BY <1>14 DEF GetOpen, maps, copies, MapsTyped, exists
    <2> QED
      BY <1>14, <2>1 DEF GetOpen, fs, maps, calls, FsTyped, QueuesTyped, CallsTyped,
         SeenBeforeInsert, MonitorBacked
  <1>15. CASE GetValue
    BY <1>15 DEF GetValue, fs, maps, copies, calls, FsTyped, QueuesTyped, MapsTyped, CallsTyped,
       SeenBeforeInsert, MonitorBacked
  <1>16. CASE GetStore
    <2>1. cur.k \in Key /\ cur.time \in AnyObs
      BY DEF MapsTyped
    <2>2. MapsTyped' /\ MonitorBacked'
      BY <1>16, <2>1, NoObsApart DEF GetStore, Erase, copies, MapsTyped, MonitorBacked
    <2> QED
      BY <1>16, <2>2 DEF GetStore, fs, calls, FsTyped, QueuesTyped, CallsTyped,
         SeenBeforeInsert
  <1> QED
    BY <1>1, <1>2, <1>3, <1>4, <1>5, <1>6, <1>7, <1>8, <1>9, <1>10, <1>11, <1>12, <1>13, <1>14,
       <1>15, <1>16 DEF Next, Register, Worker, TaskOp

\* A registered callback is never left without the state to compare with,
\* however registrations, write-backs and removals interleave
\* (local_file.hpp:154-196, 300-326, 351-406).
THEOREM MonitorsBacked == Spec => []MonitorBacked
  <1>1. BackedInv => MonitorBacked
    BY DEF BackedInv
  <1> QED BY <1>1, BackedInit, BackedStep, PTL DEF Spec

-----------------------------------------------------------------------------
(***************************************************************************)
(* Until a remove_watches task has run the worker calls no empty function. *)
(* The copies of the round must agree with each other and with the live    *)
(* maps for every key that is still to be compared, and for the key whose  *)
(* file handle_monitor_get is reading.                                     *)
(***************************************************************************)
LastMonitored == \A k \in Key : last[k] # NoObs => monitor[k] # NoCall
HasCallback(k) == monitor[k] # NoCall /\ snapMonitor[k] # NoCall
TodoMonitored == \A k \in todo : HasCallback(k)
CurMonitored == pc \in {"open", "value", "store"} => cur.k \notin todo /\ HasCallback(cur.k)

NoThrow == pc # "bad_function_call"

Monitored == LastMonitored /\ TodoMonitored /\ CurMonitored /\ NoThrow

CallInv == ~removals => Monitored

\* At first there is nothing to compare.
LEMMA CallInit == Init => CallInv
  BY DEF Init, CallInv, Monitored, LastMonitored, TodoMonitored, CurMonitored, NoThrow

\* A removal that has run is not forgotten.
LEMMA RemovalsStay ==
    ASSUME BackedInv, removals, [Next]_vars
    PROVE  removals'
  <1>1. CASE RunTask
    <2>1. Head(batch) \in Task /\ TaskEffect(Head(batch)) /\ Typed
      BY <1>1 DEF RunTask, BackedInv, Typed, QueuesTyped
    <2> QED BY <2>1, TaskStep
  <1>2. CASE ~RunTask
    BY <1>2 DEF Next, vars, calls, OtherProcess, Register, RegisterOpen, RegisterThrow,
       RegisterRead, RegisterTime, RegisterInsert, UserTask, Stop, Worker, WorkerExit,
       WorkerLoop, WorkerTake, TasksDone, PassDone, Same, HandleChange, GetTime, GetOpen,
       GetThrow, GetValue, GetStore
  <1> QED BY <1>1, <1>2

\* Until a removal runs, every step keeps maps and copies together.
LEMMA MonitoredStep ==
    ASSUME BackedInv, Monitored, [Next]_vars, ~removals'
    PROVE  Monitored'
  <1> USE DEF Monitored
  <1>0. /\ MapsTyped
        /\ FsTyped
        /\ SeenBeforeInsert
    BY DEF BackedInv, Typed
  <1>1. CASE \/ OtherProcess
             \/ \E c \in Call : RegisterOpen(c) \/ RegisterThrow(c) \/ RegisterRead(c) \/ RegisterTime(c)
             \/ \E op \in TaskOp, t \in Target : UserTask(op, t)
             \/ Stop
             \/ UNCHANGED vars
    <2>1. UNCHANGED <<maps, worker>>
      BY <1>1 DEF OtherProcess, RegisterOpen, RegisterThrow, RegisterRead, RegisterTime, UserTask,
         Stop, vars
    <2> QED
      BY <2>1 DEF maps, worker, copies, LastMonitored, HasCallback, TodoMonitored, CurMonitored,
         NoThrow
  <1>2. ASSUME NEW c \in Call, RegisterInsert(c) PROVE Monitored'
    <2>1. KeyOf[c] \in Key /\ c # NoCall
      BY KeyOfAssumption, NoCallAssumption
    <2>2. \A k \in Key : monitor[k] # NoCall => monitor'[k] # NoCall
      BY <1>0, <1>2, <2>1 DEF RegisterInsert, MapsTyped
    <2>3. LastMonitored'
      BY <1>0, <1>2, <2>1 DEF RegisterInsert, MapsTyped, LastMonitored
    <2>4. TodoMonitored' /\ CurMonitored' /\ NoThrow'
      BY <1>0, <1>2, <2>2 DEF RegisterInsert, worker, copies, MapsTyped, HasCallback,
         TodoMonitored, CurMonitored, NoThrow
    <2> QED BY <2>3, <2>4
  <1>3. CASE WorkerExit \/ WorkerLoop \/ TasksDone \/ PassDone \/ GetThrow
    <2>1. UNCHANGED <<maps, copies, todo, cur>>
      BY <1>3 DEF WorkerExit, WorkerLoop, TasksDone, PassDone, GetThrow
    <2>2. ASSUME PassDone PROVE pc' \in {"get", "sub", "loop"}
      <3>1. pc \in {"exist", "get", "sub"}
        BY <2>2 DEF PassDone, PassKind
      <3> QED BY <2>2, <3>1 DEF PassDone, PassKind
    <2>3. pc' \in {"exit", "wait", "exist", "filesystem_error", "get", "sub", "loop"}
      BY <1>3, <2>2 DEF WorkerExit, WorkerLoop, TasksDone, GetThrow
    <2> QED
      BY <2>1, <2>3 DEF maps, copies, LastMonitored, HasCallback, TodoMonitored, CurMonitored,
         NoThrow
  <1>4. CASE WorkerTake
    BY <1>4 DEF WorkerTake, maps, LastMonitored, HasCallback, TodoMonitored, CurMonitored,
       NoThrow
  <1>5. CASE RunTask
    <2>1. Head(batch) \in Task /\ TaskEffect(Head(batch)) /\ Typed
      BY <1>5 DEF RunTask, BackedInv, Typed, QueuesTyped
    <2>2. UNCHANGED maps
      BY <2>1, TaskStep
    <2> QED
      BY <1>5, <2>2 DEF RunTask, maps, copies, LastMonitored, HasCallback, TodoMonitored,
         CurMonitored, NoThrow
  <1>6. ASSUME NEW k \in Key, Same(k) PROVE Monitored'
    BY <1>6 DEF Same, maps, copies, LastMonitored, HasCallback, TodoMonitored, CurMonitored,
       NoThrow
  <1>7. ASSUME NEW k \in Key, HandleChange(k) PROVE Monitored'
    <2>1. k \in todo /\ HasCallback(k)
      BY <1>7 DEF HandleChange, Left, TodoMonitored
    <2>2. pc' = pc /\ pc \in {"exist", "sub"}
      BY <1>7, <2>1 DEF HandleChange, CallBack, HasCallback
    <2>3. LastMonitored'
      BY <1>0, <1>7, <2>1 DEF HandleChange, MapsTyped, LastMonitored, HasCallback
    <2> QED
      BY <1>7, <2>2, <2>3 DEF HandleChange, copies, HasCallback, TodoMonitored, CurMonitored,
         NoThrow
  <1>8. ASSUME NEW k \in Key, GetTime(k) PROVE Monitored'
    BY <1>8 DEF GetTime, Left, maps, copies, LastMonitored, HasCallback, TodoMonitored,
       CurMonitored, NoThrow
  <1>9. CASE GetOpen
    <2>1. cur'.k = cur.k
      BY <1>0, <1>9 DEF GetOpen, MapsTyped
    <2> QED
      BY <1>9, <2>1 DEF GetOpen, maps, copies, LastMonitored, HasCallback, TodoMonitored,
         CurMonitored, NoThrow
  <1>10. CASE GetValue
    <2>1. pc' = "store"
      BY <1>10 DEF GetValue, CallBack, CurMonitored, HasCallback
    <2> QED
      BY <1>10, <2>1 DEF GetValue, maps, copies, LastMonitored, HasCallback, TodoMonitored,
         CurMonitored, NoThrow
  <1>11. CASE GetStore
    <2>1. cur.k \in Key /\ cur.k \notin todo /\ HasCallback(cur.k)
      BY <1>0, <1>11 DEF GetStore, MapsTyped, CurMonitored
    <2>2. LastMonitored'
      BY <1>0, <1>11, <2>1 DEF GetStore, Erase, MapsTyped, LastMonitored, HasCallback
    <2>3. \A k \in todo : monitor'[k] = monitor[k]
      BY <1>0, <1>11, <2>1 DEF GetStore, Erase, MapsTyped
    <2> QED
      BY <1>11, <2>2, <2>3 DEF GetStore, copies, HasCallback, TodoMonitored, CurMonitored,
         NoThrow
  <1> QED
    BY <1>1, <1>2, <1>3, <1>4, <1>5, <1>6, <1>7, <1>8, <1>9, <1>10, <1>11
    DEF Next, Register, Worker, TaskOp

\* A removal makes the claim void for good, so the claim is inductive.
LEMMA CallStep ==
    ASSUME BackedInv, CallInv, [Next]_vars
    PROVE  CallInv'
  <1> SUFFICES ASSUME ~removals' PROVE Monitored'
    BY DEF CallInv
  <1>1. ~removals
    BY RemovalsStay
  <1>2. Monitored
    BY <1>1 DEF CallInv
  <1> QED BY <1>2, MonitoredStep

\* Until a remove_watches task has run, every change the worker reports finds
\* its callback in the copy of the round: no std::bad_function_call ends the
\* program (handle_monitor_exist, _get, _sub, local_file.hpp:351-406).
THEOREM CallbackFound == Spec => []NoEmptyCall
  <1>1. Init => BackedInv /\ CallInv
    BY BackedInit, CallInit
  <1>2. BackedInv /\ CallInv /\ [Next]_vars => (BackedInv /\ CallInv)'
    BY BackedStep, CallStep
  <1>3. CallInv => NoEmptyCall
    BY DEF CallInv, Monitored, NoThrow, NoEmptyCall
  <1> QED BY <1>1, <1>2, <1>3, PTL DEF Spec

-----------------------------------------------------------------------------
(***************************************************************************)
(* Types by kind: an existence monitor deals with Booleans, a value        *)
(* monitor with times and values, a directory monitor with sets of files.  *)
(* A callback gets arguments of its own kind because it is only ever       *)
(* registered under its own key.                                           *)
(***************************************************************************)
OwnKey(m) == \A k \in Key : m[k] # NoCall => KeyOf[m[k]] = k

KindQueues ==
    /\ \A i \in DOMAIN task_queue : IsTask(task_queue[i])
    /\ \A i \in DOMAIN batch : IsTask(batch[i])
KindMaps ==
    /\ monitor \in [Key -> Call \cup {NoCall}]
    /\ snapMonitor \in [Key -> Call \cup {NoCall}]
    /\ OwnKey(monitor) /\ OwnKey(snapMonitor)
    /\ ObsMap(last) /\ ObsMap(snapLast)
    /\ todo \in SUBSET Key
Pc == {"loop", "wait", "tasks", "exist", "get", "sub", "open", "value", "store", "exit"}
        \cup Terminated
KindWorker ==
    /\ pc \in Pc
    /\ cur.k \in Key /\ cur.found \in BOOLEAN
    /\ pc \in {"open", "value", "store"} => cur.k[1] = "get" /\ cur.time \in Nat
KindCalls ==
    /\ reg \in [Call -> {"idle", "open", "thrown", "time", "insert", "done"}]
    /\ ObsPerCall(seen)
    /\ run \in BOOLEAN /\ removals \in BOOLEAN
KindInv == FsTyped /\ KindQueues /\ KindMaps /\ KindWorker /\ KindCalls /\ ObsPerCall(heard)

\* An observation has the kind of its key.
LEMMA ObserveKind ==
    ASSUME FsTyped, NEW k \in Key
    PROVE  Observe(k) \in ObsOf(k[1])
  <1>1. CASE k[1] = "exist"
    BY <1>1 DEF Observe, ObsOf, exists
  <1>2. CASE k[1] = "get"
    <2>1. k[2] \in Target
      BY <1>2 DEF Key, Target
    <2> QED BY <1>2, <2>1 DEF Observe, ObsOf, FsTyped
  <1>3. CASE k[1] = "sub"
    <2>1. Observe(k) = get_path_children
      BY <1>3 DEF Observe
    <2> QED BY <1>3, <2>1 DEF ObsOf, get_path_children
  <1> QED BY <1>1, <1>2, <1>3 DEF Key

\* What the first task of a registration carries has the kind of its key.
LEMMA InitialArgKind ==
    ASSUME FsTyped, NEW c \in Call
    PROVE  InitialArg(c) \in ObsOf(KeyOf[c][1])
  <1>1. KeyOf[c] \in Key
    BY KeyOfAssumption
  <1>2. CASE KeyOf[c][1] = "get"
    <2>1. KeyOf[c][2] \in Target
      BY <1>1 DEF Key, Target
    <2> QED BY <1>2, <2>1 DEF InitialArg, ObsOf, FsTyped
  <1>3. CASE KeyOf[c][1] # "get"
    BY <1>1, <1>3, ObserveKind DEF InitialArg
  <1> QED BY <1>2, <1>3

\* Callbacks are told observations of their own kind.
LEMMA TellKind ==
    ASSUME ObsPerCall(heard), NEW c \in Call, NEW arg \in ObsOf(KeyOf[c][1]), Tell(c, arg)
    PROVE  ObsPerCall(heard')
  BY DEF ObsPerCall, Tell

\* The first state has the types.
LEMMA KindInit == Init => KindInv
  <1> SUFFICES ASSUME Init PROVE KindInv
    OBVIOUS
  <1>1. <<"exist", Dir>> \in Key
    BY DEF Key, Target
  <1>2. cur.k \in Key /\ cur.found \in BOOLEAN
    BY <1>1 DEF Init
  <1>3. FsTyped /\ KindCalls /\ ObsPerCall(heard)
    BY DEF Init, FsTyped, KindCalls, ObsPerCall, Absent, Unheard
  <1>4. KindMaps
    BY DEF Init, KindMaps, ObsMap, OwnKey
  <1>5. KindWorker
    BY <1>2 DEF Init, KindWorker, Pc
  <1>6. KindQueues
    BY DEF Init, KindQueues
  <1> QED BY <1>3, <1>4, <1>5, <1>6 DEF KindInv

\* The named parts are the type invariant.
LEMMA KindTypes == KindInv => TypeOK
  BY DEF KindInv, FsTyped, KindQueues, KindMaps, KindWorker, KindCalls, Pc, TypeOK

\* A task keeps the types: it changes the file system, erases entries, or
\* tells a call what its own first reading was.
LEMMA TaskKind ==
    ASSUME KindInv, NEW task \in Task, IsTask(task), TaskEffect(task)
    PROVE  /\ FsTyped'
           /\ monitor' \in [Key -> Call \cup {NoCall}] /\ OwnKey(monitor') /\ ObsMap(last')
           /\ removals' \in BOOLEAN
           /\ ObsPerCall(heard')
  <1> USE DEF KindInv, KindMaps, KindCalls
  <1>1. CASE task.op = "init"
    <2>1. UNCHANGED <<fs, maps, removals>> /\ Tell(task.c, task.arg)
      BY <1>1 DEF TaskEffect
    <2>2. task.c \in Call /\ task.arg \in ObsOf(KeyOf[task.c][1])
      BY <1>1 DEF IsTask
    <2>3. ObsPerCall(heard')
      BY <2>1, <2>2, TellKind
    <2> QED BY <2>1, <2>3 DEF fs, maps, FsTyped
  <1>2. CASE task.op \in {"create", "set", "delete"}
    <2>1. UNCHANGED <<maps, removals, heard>>
      BY <1>2 DEF TaskEffect
    <2>2. FsTyped'
      <3>1. task.t \in Target
        BY <1>2 DEF Task
      <3>2. \/ UNCHANGED fs
            \/ Write(task.t)
            \/ Remove(task.t)
        BY <1>2 DEF TaskEffect
      <3>3. CASE UNCHANGED fs
        BY <3>3 DEF fs, FsTyped
      <3> QED BY <3>1, <3>2, <3>3, WriteType, RemoveType
    <2> QED BY <2>1, <2>2 DEF maps
  <1>3. CASE task.op = "remove"
    <2>1. UNCHANGED <<fs, heard>> /\ Erase(Removed(task.t)) /\ removals' = TRUE
      BY <1>3 DEF TaskEffect
    <2>2. monitor' \in [Key -> Call \cup {NoCall}] /\ OwnKey(monitor') /\ ObsMap(last')
      BY <2>1 DEF Erase, OwnKey, ObsMap
    <2> QED BY <2>1, <2>2 DEF fs, FsTyped
  <1> QED BY <1>1, <1>2, <1>3 DEF Task, TaskOp

\* What the worker calls back with has the kind of the key.
LEMMA CallBackKind ==
    ASSUME KindInv, NEW k \in Key, NEW arg \in ObsOf(k[1]), NEW next \in Pc,
           CallBack(k, arg, next)
    PROVE  pc' \in {next, "bad_function_call"} /\ ObsPerCall(heard')
  <1>1. CASE snapMonitor[k] = NoCall
    BY <1>1 DEF CallBack, KindInv
  <1>2. CASE snapMonitor[k] # NoCall
    <2>1. snapMonitor[k] \in Call /\ KeyOf[snapMonitor[k]] = k
      BY <1>2 DEF KindInv, KindMaps, OwnKey
    <2>2. pc' = next /\ Tell(snapMonitor[k], arg)
      BY <1>2 DEF CallBack
    <2> QED BY <2>1, <2>2, TellKind DEF KindInv
  <1> QED BY <1>1, <1>2

\* KindInv is inductive on top of BackedInv: one step per action.
LEMMA KindStep ==
    ASSUME BackedInv, KindInv, [Next]_vars
    PROVE  KindInv'
  <1> USE DEF KindInv
  <1>0. QueuesTyped
    BY DEF BackedInv, Typed
  <1>1. CASE OtherProcess
    <2>1. FsTyped'
      BY <1>1, WriteType, RemoveType DEF OtherProcess, Target
    <2>2. UNCHANGED <<task_queue, maps, run, worker, calls, heard>>
      BY <1>1 DEF OtherProcess
    <2> QED
      BY <2>1, <2>2 DEF maps, worker, copies, calls, KindQueues, KindMaps, KindWorker, KindCalls
  <1>2. ASSUME NEW c \in Call, RegisterOpen(c) \/ RegisterThrow(c) PROVE KindInv'
    <2>1. KindCalls'
      BY <1>2 DEF RegisterOpen, RegisterThrow, KindCalls
    <2> QED
      BY <1>2, <2>1 DEF RegisterOpen, RegisterThrow, fs, maps, worker, copies, FsTyped,
         KindQueues, KindMaps, KindWorker
  <1>3. ASSUME NEW c \in Call, RegisterRead(c) PROVE KindInv'
    <2>1. Observe(KeyOf[c]) \in ObsOf(KeyOf[c][1]) /\ InitialArg(c) \in ObsOf(KeyOf[c][1])
      BY KeyOfAssumption, ObserveKind, InitialArgKind
    <2>2. IsTask([op |-> "init", c |-> c, arg |-> InitialArg(c)])
      BY <2>1 DEF IsTask
    <2>3. KindQueues'
      BY <1>0, <1>3, <2>2 DEF RegisterRead, add_task, worker, QueuesTyped, KindQueues
    <2>4. KindCalls'
      BY <1>3, <2>1 DEF RegisterRead, KindCalls, ObsPerCall
    <2> QED
      BY <1>3, <2>3, <2>4 DEF RegisterRead, fs, maps, worker, copies, FsTyped, KindMaps,
         KindWorker
  <1>4. ASSUME NEW c \in Call, RegisterTime(c) PROVE KindInv'
    <2>1. Observe(KeyOf[c]) \in ObsOf(KeyOf[c][1])
      BY KeyOfAssumption, ObserveKind
    <2>2. KindCalls'
      BY <1>4, <2>1 DEF RegisterTime, KindCalls, ObsPerCall
    <2> QED
      BY <1>4, <2>2 DEF RegisterTime, fs, maps, worker, copies, FsTyped, KindQueues, KindMaps,
         KindWorker
  <1>5. ASSUME NEW c \in Call, RegisterInsert(c) PROVE KindInv'
    <2>1. KeyOf[c] \in Key
      BY KeyOfAssumption
    <2>2. monitor' \in [Key -> Call \cup {NoCall}] /\ OwnKey(monitor')
      BY <1>5, <2>1 DEF RegisterInsert, KindMaps, OwnKey
    <2>3. ObsMap(last')
      BY <1>5, <2>1 DEF RegisterInsert, KindMaps, KindCalls, ObsMap, ObsPerCall
    <2> QED
      BY <1>5, <2>2, <2>3 DEF RegisterInsert, fs, worker, copies, FsTyped, KindQueues,
         KindMaps, KindWorker, KindCalls
  <1>6. ASSUME NEW op \in TaskOp, NEW t \in Target, UserTask(op, t) PROVE KindInv'
    <2>1. IsTask([op |-> op, t |-> t])
      BY <1>6 DEF UserTask, IsTask, TaskOp, Target
    <2>2. KindQueues'
      BY <1>0, <1>6, <2>1 DEF UserTask, add_task, worker, QueuesTyped, KindQueues
    <2> QED
      BY <1>6, <2>2 DEF UserTask, fs, maps, worker, copies, calls, FsTyped, KindMaps,
         KindWorker, KindCalls
  <1>7. CASE Stop \/ WorkerExit \/ WorkerLoop \/ TasksDone \/ PassDone \/ GetThrow \/ UNCHANGED vars
    <2>1. UNCHANGED <<fs, task_queue, maps, batch, copies, todo, cur, calls, heard>>
      BY <1>7 DEF Stop, WorkerExit, WorkerLoop, TasksDone, PassDone, GetThrow, vars, worker
    <2>2. run' \in BOOLEAN
      BY <1>7 DEF Stop, WorkerExit, WorkerLoop, TasksDone, PassDone, GetThrow, vars, KindCalls
    <2>3. ASSUME PassDone PROVE pc' \in {"get", "sub", "loop"}
      <3>1. pc \in {"exist", "get", "sub"}
        BY <2>3 DEF PassDone, PassKind
      <3> QED BY <2>3, <3>1 DEF PassDone, PassKind
    <2>4. pc' = pc \/ pc' \in Pc \ {"open", "value", "store"}
      BY <1>7, <2>3 DEF Stop, WorkerExit, WorkerLoop, TasksDone, GetThrow, vars, worker, Pc,
         Terminated
    <2> QED
      BY <2>1, <2>2, <2>4 DEF fs, maps, copies, calls, FsTyped, KindQueues, KindMaps, KindWorker,
         KindCalls
  <1>8. CASE WorkerTake
    <2>1. KindQueues'
      BY <1>8 DEF WorkerTake, KindQueues
    <2>2. KindMaps' /\ KindWorker'
      BY <1>8 DEF WorkerTake, maps, KindMaps, KindWorker, Pc
    <2> QED
      BY <1>8, <2>1, <2>2 DEF WorkerTake, fs, calls, FsTyped, KindCalls
  <1>9. CASE RunTask
    <2>1. /\ batch \in Seq(Task) /\ batch # <<>>
          /\ Head(batch) \in Task /\ Head(batch) = batch[1] /\ 1 \in DOMAIN batch
      BY <1>0, <1>9 DEF RunTask, QueuesTyped
    <2>2. IsTask(Head(batch)) /\ TaskEffect(Head(batch))
      BY <1>9, <2>1 DEF RunTask, KindQueues
    <2>3. /\ FsTyped'
          /\ monitor' \in [Key -> Call \cup {NoCall}] /\ OwnKey(monitor') /\ ObsMap(last')
          /\ removals' \in BOOLEAN
          /\ ObsPerCall(heard')
      BY <2>1, <2>2, TaskKind
    <2>4. KindQueues'
      BY <1>9, <2>1 DEF RunTask, KindQueues
    <2> QED
      BY <1>9, <2>3, <2>4 DEF RunTask, copies, KindMaps, KindWorker, KindCalls
  <1>10. ASSUME NEW k \in Key, Same(k) PROVE KindInv'
    BY <1>10 DEF Same, fs, maps, copies, calls, FsTyped, KindQueues, KindMaps, KindWorker,
       KindCalls
  <1>11. ASSUME NEW k \in Key, HandleChange(k) PROVE KindInv'
    <2>1. Observe(k) \in ObsOf(k[1])
      BY ObserveKind
    <2>2. pc \in {"exist", "sub"} /\ CallBack(k, Observe(k), pc)
      BY <1>11 DEF HandleChange
    <2>3. pc' \in {pc, "bad_function_call"} /\ ObsPerCall(heard')
      BY <2>1, <2>2, CallBackKind DEF Pc
    <2>4. ObsMap(last')
      BY <1>11, <2>1 DEF HandleChange, KindMaps, ObsMap
    <2> QED
      BY <1>11, <2>2, <2>3, <2>4 DEF HandleChange, fs, copies, calls, FsTyped, KindQueues,
         KindMaps, KindWorker, KindCalls, Pc, Terminated
  <1>12. ASSUME NEW k \in Key, GetTime(k) PROVE KindInv'
    <2>1. k[1] = "get"
      BY <1>12 DEF GetTime, Left
    <2>2. Observe(k) \in Nat
      BY <2>1, ObserveKind DEF ObsOf
    <2>3. KindWorker'
      BY <1>12, <2>1, <2>2 DEF GetTime, KindWorker, Pc
    <2> QED
      BY <1>12, <2>3 DEF GetTime, fs, maps, copies, calls, FsTyped, KindQueues, KindMaps,
         KindCalls
  <1>13. CASE GetOpen
    <2>1. cur \in [k : Key, time : AnyObs, found : BOOLEAN]
      BY DEF BackedInv, Typed, MapsTyped
    <2>2. cur'.k = cur.k /\ cur'.time = cur.time /\ cur'.found \in BOOLEAN
      BY <1>13, <2>1 DEF GetOpen, exists
    <2>3. KindWorker'
      BY <1>13, <2>2 DEF GetOpen, KindWorker, Pc
    <2> QED
      BY <1>13, <2>3 DEF GetOpen, fs, maps, copies, calls, FsTyped, KindQueues, KindMaps,
         KindCalls
  <1>14. CASE GetValue
    <2>1. cur.k \in Key /\ cur.k[1] = "get"
      BY <1>14 DEF GetValue, KindWorker
    <2>2. cur.k[2] \in Target
      BY <2>1 DEF Key, Target
    <2> DEFINE arg == IF cur.found THEN content[cur.k[2]] ELSE Absent
    <2>3. arg \in ObsOf(cur.k[1])
      BY <2>1, <2>2 DEF ObsOf, FsTyped, Absent
    <2>4. CallBack(cur.k, arg, "store")
      BY <1>14 DEF GetValue
    <2> HIDE DEF arg
    <2>5. pc' \in {"store", "bad_function_call"} /\ ObsPerCall(heard')
      BY <2>1, <2>3, <2>4, CallBackKind DEF Pc
    <2>6. UNCHANGED <<fs, task_queue, maps, run, batch, copies, todo, cur, calls>>
      BY <1>14 DEF GetValue
    <2>7. KindWorker'
      BY <1>14, <2>5, <2>6 DEF GetValue, KindWorker, Pc, Terminated
    <2> QED
      BY <2>5, <2>6, <2>7 DEF fs, maps, copies, calls, FsTyped, KindQueues, KindMaps, KindCalls
  <1>15. CASE GetStore
    <2>1. cur.k \in Key /\ cur.time \in ObsOf(cur.k[1])
      BY <1>15 DEF GetStore, KindWorker, ObsOf
    <2>2. ObsMap(last') /\ monitor' \in [Key -> Call \cup {NoCall}] /\ OwnKey(monitor')
      BY <1>15, <2>1 DEF GetStore, Erase, KindMaps, ObsMap, OwnKey
    <2> QED
      BY <1>15, <2>2 DEF GetStore, fs, copies, calls, FsTyped, KindQueues, KindMaps, KindWorker,
         KindCalls, Pc
  <1> QED
    BY <1>1, <1>2, <1>3, <1>4, <1>5, <1>6, <1>7, <1>8, <1>9, <1>10, <1>11, <1>12, <1>13, <1>14,
       <1>15 DEF Next, Register, Worker, TaskOp

\* Every map, queue and callback of loc_file holds observations of its own
\* kind, for any files, calls, tasks and bounds.
THEOREM TypeCorrect == Spec => []TypeOK
  <1>1. Init => BackedInv /\ KindInv
    BY BackedInit, KindInit
  <1>2. BackedInv /\ KindInv /\ [Next]_vars => (BackedInv /\ KindInv)'
    BY BackedStep, KindStep
  <1> QED BY <1>1, <1>2, KindTypes, PTL DEF Spec

-----------------------------------------------------------------------------
(***************************************************************************)
(* Values arrive in order.  The first value of a call comes with a task,   *)
(* the others by polling.  A round polls for a call only if the call was   *)
(* in the monitor map when the round began; its first task was queued      *)
(* before that, so it is in the batch, which runs before the polling, or   *)
(* has been run.  A value that was heard, or that a task will deliver, is  *)
(* not newer than the file.                                                *)
(***************************************************************************)
IsFirst(task, c) == task.op = "init" /\ task.c = c
Pending(q, c) == \E i \in DOMAIN q : IsFirst(q[i], c)
FirstOnce(q) ==
    \A c \in Call : \A i, j \in DOMAIN q : IsFirst(q[i], c) /\ IsFirst(q[j], c) => i = j

\* A call that has not read anything is in no map and in no queue.
Untouched(c) ==
    /\ heard[c] = Unheard
    /\ ~Pending(task_queue, c) /\ ~Pending(batch, c)
    /\ \A k \in Key : monitor[k] # c /\ snapMonitor[k] # c

TasksFirst ==
    /\ batch # <<>> => pc = "tasks"
    /\ FirstOnce(task_queue) /\ FirstOnce(batch)
    /\ \A c \in Call :
         /\ ~(Pending(task_queue, c) /\ Pending(batch, c))
         /\ Pending(task_queue, c) \/ Pending(batch, c) => heard[c] = Unheard
         /\ Pending(task_queue, c) => \A k \in Key : snapMonitor[k] # c
         /\ reg[c] \in {"idle", "open"} => Untouched(c)

\* v is not newer than the value of the file of c.
NotNewer(c, v) ==
    /\ v \in Nat /\ v <= writes
    /\ content[KeyOf[c][2]] # Absent => v <= content[KeyOf[c][2]]

NothingAhead ==
    /\ \A t \in Target : content[t] <= writes
    /\ \A c \in Call : KeyOf[c][1] = "get" =>
         /\ heard[c] # Unheard => NotNewer(c, heard[c])
         /\ \A i \in DOMAIN task_queue : IsFirst(task_queue[i], c) => NotNewer(c, task_queue[i].arg)
         /\ \A i \in DOMAIN batch : IsFirst(batch[i], c) => NotNewer(c, batch[i].arg)

\* A task put at the end of a queue.
LEMMA PendingAppend ==
    ASSUME NEW q \in Seq(Task), NEW task \in Task
    PROVE  /\ \A c \in Call : Pending(Append(q, task), c) <=> Pending(q, c) \/ IsFirst(task, c)
           /\ FirstOnce(q) /\ (\A c \in Call : IsFirst(task, c) => ~Pending(q, c))
                => FirstOnce(Append(q, task))
  <1> DEFINE r == Append(q, task)
  <1>1. /\ Len(q) \in Nat /\ DOMAIN q = 1 .. Len(q) /\ DOMAIN r = 1 .. Len(q) + 1
        /\ \A i \in DOMAIN q : r[i] = q[i]
        /\ r[Len(q) + 1] = task
    OBVIOUS
  <1> HIDE DEF r
  <1>2. \A i \in DOMAIN r : i \in DOMAIN q \/ i = Len(q) + 1
    BY <1>1
  <1>3. \A i \in DOMAIN q : i \in DOMAIN r
    BY <1>1
  <1>4. \A c \in Call : Pending(r, c) <=> Pending(q, c) \/ IsFirst(task, c)
    BY <1>1, <1>2, <1>3 DEF Pending
  <1>5. FirstOnce(q) /\ (\A c \in Call : IsFirst(task, c) => ~Pending(q, c)) => FirstOnce(r)
    BY <1>1, <1>2 DEF FirstOnce, Pending
  <1> QED BY <1>4, <1>5 DEF r

\* The first task of a queue is taken.
LEMMA PendingTail ==
    ASSUME NEW q \in Seq(Task), q # <<>>
    PROVE  /\ \A c \in Call : Pending(Tail(q), c) => Pending(q, c)
           /\ \A c \in Call : IsFirst(Head(q), c) => Pending(q, c)
           /\ FirstOnce(q) => /\ FirstOnce(Tail(q))
                              /\ \A c \in Call : IsFirst(Head(q), c) => ~Pending(Tail(q), c)
  <1> DEFINE r == Tail(q)
  <1>1. /\ Len(q) \in Nat /\ DOMAIN q = 1 .. Len(q) /\ 1 \in DOMAIN q
        /\ DOMAIN r = 1 .. Len(q) - 1
        /\ Head(q) = q[1]
        /\ \A i \in DOMAIN r : i + 1 \in DOMAIN q /\ r[i] = q[i + 1]
    BY TakeHead
  <1> HIDE DEF r
  <1>2. DOMAIN r \subseteq Nat \ {0}
    BY <1>1
  <1>3. \A c \in Call : Pending(r, c) => Pending(q, c)
    BY <1>1 DEF Pending
  <1>4. \A c \in Call : IsFirst(Head(q), c) => Pending(q, c)
    BY <1>1 DEF Pending
  <1>5. ASSUME FirstOnce(q)
        PROVE  FirstOnce(r) /\ \A c \in Call : IsFirst(Head(q), c) => ~Pending(r, c)
    <2>1. FirstOnce(r)
      <3> SUFFICES ASSUME NEW c \in Call, NEW i \in DOMAIN r, NEW j \in DOMAIN r,
                          IsFirst(r[i], c), IsFirst(r[j], c)
                   PROVE  i = j
        BY DEF FirstOnce
      <3>1. i + 1 = j + 1
        BY <1>1, <1>5 DEF FirstOnce
      <3> QED BY <1>2, <3>1
    <2>2. \A c \in Call : IsFirst(Head(q), c) => ~Pending(r, c)
      <3> SUFFICES ASSUME NEW c \in Call, NEW i \in DOMAIN r, IsFirst(Head(q), c), IsFirst(r[i], c)
                   PROVE  FALSE
        BY DEF Pending
      <3>1. i + 1 = 1
        BY <1>1, <1>5 DEF FirstOnce
      <3> QED BY <1>2, <3>1
    <2> QED BY <2>1, <2>2
  <1> QED BY <1>3, <1>4, <1>5 DEF r

\* Steps that leave the queues alone and tell a call something only when its
\* first task has run.
LEMMA TasksFirstQuiet ==
    ASSUME TasksFirst, UNCHANGED <<task_queue, batch, snapMonitor>>,
           batch # <<>> => pc' = pc,
           \A k \in Key : \/ monitor'[k] \in {monitor[k], NoCall}
                          \/ reg'[monitor'[k]] = "done",
           \A c \in Call : reg'[c] \in {"idle", "open"} => reg[c] \in {"idle", "open"},
           \A c \in Call :
               \/ heard'[c] = heard[c]
               \/ ~Pending(task_queue, c) /\ ~Pending(batch, c) /\ reg[c] \notin {"idle", "open"}
    PROVE  TasksFirst'
  <1>1. /\ batch' # <<>> => pc' = "tasks"
        /\ FirstOnce(task_queue') /\ FirstOnce(batch')
    BY DEF TasksFirst
  <1>2. ASSUME NEW c \in Call
        PROVE  /\ ~(Pending(task_queue', c) /\ Pending(batch', c))
               /\ Pending(task_queue', c) \/ Pending(batch', c) => heard'[c] = Unheard
               /\ Pending(task_queue', c) => \A k \in Key : snapMonitor'[k] # c
               /\ reg'[c] \in {"idle", "open"} => Untouched(c)'
    <2>1. /\ ~(Pending(task_queue', c) /\ Pending(batch', c))
          /\ Pending(task_queue', c) \/ Pending(batch', c) => heard'[c] = Unheard
          /\ Pending(task_queue', c) => \A k \in Key : snapMonitor'[k] # c
      BY DEF TasksFirst
    <2>2. ASSUME reg'[c] \in {"idle", "open"} PROVE Untouched(c)'
      <3>1. Untouched(c) /\ heard'[c] = heard[c]
        BY <2>2 DEF TasksFirst
      <3>2. \A k \in Key : monitor'[k] # c
        BY <2>2, <3>1, NoCallAssumption DEF Untouched
      <3> QED BY <3>1, <3>2 DEF Untouched
    <2> QED BY <2>1, <2>2
  <1> QED BY <1>1, <1>2 DEF TasksFirst

\* A callback found in the copy of the round belongs to a call whose first
\* task has run.
LEMMA PolledAfterFirst ==
    ASSUME KindInv, TasksFirst, batch = <<>>, NEW k \in Key, NEW arg, NEW next,
           CallBack(k, arg, next)
    PROVE  \A c \in Call :
               \/ heard'[c] = heard[c]
               \/ /\ ~Pending(task_queue, c) /\ ~Pending(batch, c) /\ reg[c] \notin {"idle", "open"}
                  /\ KeyOf[c] = k /\ heard'[c] = arg
  <1>1. CASE snapMonitor[k] = NoCall
    BY <1>1 DEF CallBack
  <1>2. CASE snapMonitor[k] # NoCall
    <2>1. KeyOf[snapMonitor[k]] = k /\ snapMonitor[k] \in Call
      BY <1>2 DEF KindInv, KindMaps, OwnKey
    <2>2. heard' = [heard EXCEPT ![snapMonitor[k]] = arg]
      BY <1>2 DEF CallBack, Tell
    <2>3. DOMAIN heard = Call
      BY DEF KindInv, ObsPerCall
    <2> SUFFICES ASSUME NEW c \in Call, c = snapMonitor[k]
                 PROVE  ~Pending(task_queue, c) /\ ~Pending(batch, c) /\ reg[c] \notin {"idle", "open"}
      BY <2>1, <2>2, <2>3
    <2>4. ~Pending(batch, c)
      BY DEF Pending
    <2> QED BY <2>4 DEF TasksFirst, Untouched
  <1> QED BY <1>1, <1>2

\* Which step a step is, by what it does to the queues.
LEMMA TasksFirstStep ==
    ASSUME BackedInv, KindInv, TasksFirst, [Next]_vars
    PROVE  TasksFirst'
  <1>0. QueuesTyped /\ KindMaps /\ KindCalls /\ ObsPerCall(heard) /\ KindWorker
    BY DEF BackedInv, Typed, KindInv
  <1>1. CASE \/ OtherProcess \/ Stop \/ WorkerExit \/ WorkerLoop \/ TasksDone \/ PassDone
             \/ GetOpen \/ GetThrow \/ UNCHANGED vars
             \/ \E k \in Key : Same(k) \/ GetTime(k)
    <2>1. UNCHANGED <<task_queue, batch, snapMonitor, monitor, reg, heard>>
      BY <1>1 DEF OtherProcess, Stop, WorkerExit, WorkerLoop, TasksDone, PassDone, GetOpen,
         GetThrow, Same, GetTime, vars, worker, copies, maps, calls
    <2>2. batch # <<>> => pc = "tasks"
      BY DEF TasksFirst
    <2>3. batch # <<>> => pc' = pc
      BY <1>1, <2>2 DEF OtherProcess, Stop, WorkerExit, WorkerLoop, TasksDone, PassDone, PassKind,
         GetOpen, GetThrow, Same, GetTime, vars, worker
    <2> QED BY <2>1, <2>3, TasksFirstQuiet
  <1>2. ASSUME NEW c \in Call, RegisterOpen(c) \/ RegisterThrow(c) \/ RegisterTime(c)
        PROVE  TasksFirst'
    <2>1. UNCHANGED <<task_queue, batch, pc, snapMonitor, monitor, heard>>
      BY <1>2 DEF RegisterOpen, RegisterThrow, RegisterTime, worker, copies, maps
    <2>2. \A d \in Call : reg'[d] \in {"idle", "open"} => reg[d] \in {"idle", "open"}
      BY <1>0, <1>2 DEF RegisterOpen, RegisterThrow, RegisterTime, KindCalls
    <2> QED BY <2>1, <2>2, TasksFirstQuiet
  <1>3. ASSUME NEW c \in Call, RegisterRead(c) PROVE TasksFirst'
    <2> DEFINE task == [op |-> "init", c |-> c, arg |-> InitialArg(c)]
    <2>1. task \in Task
      BY InitialArgType DEF Task, BackedInv, Typed
    <2>2. \A d \in Call : IsFirst(task, d) <=> d = c
      BY DEF IsFirst
    <2>3. /\ task_queue' = Append(task_queue, task)
          /\ UNCHANGED <<batch, pc, snapMonitor, monitor, heard>>
      BY <1>3 DEF RegisterRead, add_task, worker, copies, maps
    <2> HIDE DEF task
    <2>4. reg[c] \in {"idle", "open"} /\ reg'[c] \notin {"idle", "open"}
      BY <1>0, <1>3 DEF RegisterRead, KindCalls
    <2>5. \A d \in Call : d # c => reg'[d] = reg[d]
      BY <1>0, <1>3 DEF RegisterRead, KindCalls
    <2>6. Untouched(c)
      BY <2>4 DEF TasksFirst
    <2>7. \A d \in Call : Pending(task_queue', d) <=> Pending(task_queue, d) \/ d = c
      BY <1>0, <2>1, <2>2, <2>3, PendingAppend DEF QueuesTyped
    <2>8. FirstOnce(task_queue')
      BY <1>0, <2>1, <2>2, <2>3, <2>6, PendingAppend DEF QueuesTyped, TasksFirst, Untouched
    <2>9. ASSUME NEW d \in Call, reg'[d] \in {"idle", "open"} PROVE Untouched(d)'
      <3>1. d # c /\ Untouched(d)
        BY <2>4, <2>5, <2>9 DEF TasksFirst
      <3> QED BY <2>3, <2>7, <3>1 DEF Untouched
    <2> QED BY <2>3, <2>6, <2>7, <2>8, <2>9 DEF TasksFirst, Untouched
  <1>4. ASSUME NEW c \in Call, RegisterInsert(c) PROVE TasksFirst'
    <2>1. UNCHANGED <<task_queue, batch, pc, snapMonitor, heard>>
      BY <1>4 DEF RegisterInsert, worker, copies
    <2>2. reg'[c] = "done" /\ \A d \in Call : d # c => reg'[d] = reg[d]
      BY <1>0, <1>4 DEF RegisterInsert, KindCalls
    <2>3. \A k \in Key : monitor'[k] \in {monitor[k], c}
      BY <1>0, <1>4 DEF RegisterInsert, KindMaps
    <2> QED BY <2>1, <2>2, <2>3, TasksFirstQuiet
  <1>5. ASSUME NEW op \in TaskOp, NEW t \in Target, UserTask(op, t) PROVE TasksFirst'
    <2> DEFINE task == [op |-> op, t |-> t]
    <2>1. task \in Task
      BY <1>5 DEF Task, UserTask
    <2>2. \A d \in Call : ~IsFirst(task, d)
      BY DEF IsFirst, TaskOp
    <2>3. /\ task_queue' = Append(task_queue, task)
          /\ UNCHANGED <<batch, pc, snapMonitor, monitor, heard, reg>>
      BY <1>5 DEF UserTask, add_task, worker, copies, maps, calls
    <2> HIDE DEF task
    <2>4. \A d \in Call : Pending(task_queue', d) <=> Pending(task_queue, d)
      BY <1>0, <2>1, <2>2, <2>3, PendingAppend DEF QueuesTyped
    <2>5. FirstOnce(task_queue')
      BY <1>0, <2>1, <2>2, <2>3, PendingAppend DEF QueuesTyped, TasksFirst
    <2> QED BY <2>3, <2>4, <2>5 DEF TasksFirst, Untouched
  <1>6. CASE WorkerTake
    <2>1. /\ pc' = "tasks" /\ batch' = task_queue /\ task_queue' = <<>>
          /\ snapMonitor' = monitor
          /\ UNCHANGED <<monitor, heard, reg>>
      BY <1>6 DEF WorkerTake, maps, calls
    <2>2. FirstOnce(task_queue') /\ \A c \in Call : ~Pending(task_queue', c)
      BY <2>1 DEF FirstOnce, Pending
    <2> QED BY <2>1, <2>2 DEF TasksFirst, Untouched
  <1>7. CASE RunTask
    <2> DEFINE task == Head(batch)
    <2>1. batch \in Seq(Task) /\ batch # <<>> /\ task \in Task /\ TaskEffect(task)
      BY <1>0, <1>7 DEF RunTask, QueuesTyped
    <2>2. batch' = Tail(batch) /\ UNCHANGED <<task_queue, pc, snapMonitor, reg>>
      BY <1>7 DEF RunTask, copies
    <2>3. /\ \A c \in Call : Pending(batch', c) => Pending(batch, c)
          /\ \A c \in Call : IsFirst(task, c) => Pending(batch, c) /\ ~Pending(batch', c)
          /\ FirstOnce(batch')
      BY <2>1, <2>2, PendingTail DEF TasksFirst
    <2> HIDE DEF task
    <2>4. \A k \in Key : monitor'[k] \in {monitor[k], NoCall}
      <3>1. monitor' = monitor \/ monitor' = [k \in Key |-> IF k \in Removed(task.t) THEN NoCall ELSE monitor[k]]
        BY <2>1 DEF TaskEffect, maps, Erase
      <3> QED BY <3>1
    <2>5. ASSUME NEW c \in Call, heard'[c] # heard[c] PROVE IsFirst(task, c)
      <3>1. task.op = "init" /\ Tell(task.c, task.arg)
        BY <2>1, <2>5 DEF TaskEffect
      <3> QED BY <1>0, <2>5, <3>1 DEF Tell, IsFirst, ObsPerCall
    <2>6. ASSUME NEW c \in Call, reg'[c] \in {"idle", "open"} PROVE Untouched(c)'
      <3>1. Untouched(c)
        BY <2>2, <2>6 DEF TasksFirst
      <3>2. heard'[c] = heard[c]
        BY <2>3, <2>5, <3>1 DEF Untouched
      <3>3. \A k \in Key : monitor'[k] # c
        BY <2>4, <3>1, NoCallAssumption DEF Untouched
      <3> QED BY <2>2, <2>3, <3>1, <3>2, <3>3 DEF Untouched
    <2>7. ASSUME NEW c \in Call, Pending(task_queue', c) \/ Pending(batch', c)
          PROVE  heard'[c] = Unheard
      <3>1. heard[c] = Unheard /\ ~IsFirst(task, c)
        BY <2>2, <2>3, <2>7 DEF TasksFirst
      <3> QED BY <2>5, <3>1
    <2>8. \A c \in Call : /\ ~(Pending(task_queue', c) /\ Pending(batch', c))
                          /\ Pending(task_queue', c) => \A k \in Key : snapMonitor'[k] # c
      BY <2>2, <2>3 DEF TasksFirst
    <2>9. pc' = "tasks" /\ FirstOnce(task_queue')
      BY <1>7, <2>2 DEF RunTask, TasksFirst
    <2> QED BY <2>3, <2>6, <2>7, <2>8, <2>9 DEF TasksFirst
  <1>8. ASSUME NEW k \in Key, HandleChange(k) PROVE TasksFirst'
    <2>1. batch = <<>> /\ CallBack(k, Observe(k), pc)
      BY <1>8 DEF HandleChange, TasksFirst
    <2>2. UNCHANGED <<task_queue, batch, snapMonitor, monitor, reg>>
      BY <1>8 DEF HandleChange, copies, calls
    <2>3. \A c \in Call :
            \/ heard'[c] = heard[c]
            \/ ~Pending(task_queue, c) /\ ~Pending(batch, c) /\ reg[c] \notin {"idle", "open"}
      BY <2>1, PolledAfterFirst
    <2> QED BY <2>1, <2>2, <2>3, TasksFirstQuiet
  <1>9. CASE GetValue
    <2> DEFINE arg == IF cur.found THEN content[cur.k[2]] ELSE Absent
    <2>1. batch = <<>> /\ CallBack(cur.k, arg, "store")
      BY <1>9 DEF GetValue, TasksFirst
    <2>2. UNCHANGED <<task_queue, batch, snapMonitor, monitor, reg>>
      BY <1>9 DEF GetValue, maps, copies, calls
    <2> HIDE DEF arg
    <2>3. cur.k \in Key
      BY <1>0 DEF KindWorker
    <2>4. \A c \in Call :
            \/ heard'[c] = heard[c]
            \/ ~Pending(task_queue, c) /\ ~Pending(batch, c) /\ reg[c] \notin {"idle", "open"}
      BY <2>1, <2>3, PolledAfterFirst
    <2> QED BY <2>1, <2>2, <2>4, TasksFirstQuiet
  <1>10. CASE GetStore
    <2>1. UNCHANGED <<task_queue, batch, snapMonitor, heard, reg>>
      BY <1>10 DEF GetStore, copies, calls
    <2>2. batch = <<>>
      BY <1>10 DEF GetStore, TasksFirst
    <2>3. \A k \in Key : monitor'[k] \in {monitor[k], NoCall}
      BY <1>0, <1>10 DEF GetStore, Erase, KindMaps
    <2> QED BY <2>1, <2>2, <2>3, TasksFirstQuiet
  <1> QED
    BY <1>1, <1>2, <1>3, <1>4, <1>5, <1>6, <1>7, <1>8, <1>9, <1>10
    DEF Next, Register, Worker, TaskOp


\* A change of the file system makes its contents newer, never older.
LEMMA NewerFile ==
    ASSUME FsTyped, \A t \in Target : content[t] <= writes,
           \/ \E f \in Target : Write(f)
           \/ \E t \in Target : Remove(t)
           \/ UNCHANGED fs
    PROVE  /\ \A t \in Target : content'[t] <= writes'
           /\ \A c \in Call, v \in Nat : KeyOf[c][1] = "get" /\ NotNewer(c, v) => NotNewer(c, v)'
  <1>0. \A c \in Call : KeyOf[c][2] \in Target
    BY KeyOfAssumption DEF Key, Target
  <1>1. ASSUME NEW f \in Target, Write(f)
        PROVE  writes' = writes + 1 /\ \A t \in Target : content'[t] \in {content[t], writes + 1}
    BY <1>1 DEF Write
  <1>2. ASSUME NEW u \in Target, Remove(u)
        PROVE  writes' = writes + 1 /\ \A t \in Target : content'[t] \in {content[t], Absent}
    BY <1>2 DEF Remove
  <1>3. /\ writes' \in {writes, writes + 1}
        /\ \A t \in Target : \/ content'[t] \in {content[t], Absent}
                             \/ content'[t] = writes + 1 /\ writes' = writes + 1
    BY <1>1, <1>2 DEF fs
  <1>4. writes \in Nat /\ \A t \in Target : content[t] \in Nat
    BY DEF FsTyped
  <1>5. \A t \in Target : content'[t] <= writes'
    BY <1>3, <1>4 DEF Absent
  <1>6. ASSUME NEW c \in Call, NEW v \in Nat, NotNewer(c, v) PROVE NotNewer(c, v)'
    <2>1. v <= writes'
      BY <1>3, <1>4, <1>6 DEF NotNewer
    <2>2. content'[KeyOf[c][2]] # Absent => v <= content'[KeyOf[c][2]]
      BY <1>0, <1>3, <1>4, <1>6 DEF NotNewer, Absent
    <2> QED BY <2>1, <2>2 DEF NotNewer
  <1> QED BY <1>5, <1>6

\* Every step of the file system is one of these.
LEMMA FileSteps ==
    ASSUME BackedInv, [Next]_vars
    PROVE  \/ \E f \in Target : Write(f)
           \/ \E t \in Target : Remove(t)
           \/ UNCHANGED fs
  <1>1. CASE OtherProcess
    BY <1>1 DEF OtherProcess, Target
  <1>2. CASE RunTask
    <2>1. Head(batch) \in Task /\ TaskEffect(Head(batch))
      BY <1>2 DEF RunTask, BackedInv, Typed, QueuesTyped
    <2>2. Head(batch).op \in {"create", "set", "delete"} => Head(batch).t \in Target
      BY <2>1 DEF Task
    <2> QED BY <2>1, <2>2 DEF TaskEffect
  <1>3. CASE ~OtherProcess /\ ~RunTask
    BY <1>3 DEF Next, vars, Register, RegisterOpen, RegisterThrow, RegisterRead, RegisterTime,
       RegisterInsert, UserTask, Stop, Worker, WorkerExit, WorkerLoop, WorkerTake, TasksDone,
       PassDone, Same, HandleChange, GetTime, GetOpen, GetThrow, GetValue, GetStore
  <1> QED BY <1>1, <1>2, <1>3

\* A value that is told is not newer than the file and not older than what was
\* heard before.
ToldInOrder ==
    \A c \in Call :
        KeyOf[c][1] = "get" /\ heard'[c] # heard[c] =>
            /\ UNCHANGED fs
            /\ NotNewer(c, heard'[c])
            /\ heard[c] # Unheard /\ heard'[c] # Absent => heard'[c] >= heard[c]

\* A task of queue q is an old one, or carries the value that its file has.
OldTask(task) ==
    \/ \E i \in DOMAIN task_queue : task_queue[i] = task
    \/ \E i \in DOMAIN batch : batch[i] = task
OldOrCurrent(q) ==
    \A c \in Call : \A i \in DOMAIN q :
        KeyOf[c][1] = "get" /\ IsFirst(q[i], c) =>
            \/ OldTask(q[i])
            \/ UNCHANGED fs /\ q[i].arg = content[KeyOf[c][2]]

\* What a step tells is in order.
LEMMA TellsInOrder ==
    ASSUME BackedInv, KindInv, TasksFirst, NothingAhead, [Next]_vars
    PROVE  ToldInOrder
  <1>0. QueuesTyped /\ ObsPerCall(heard) /\ KindWorker /\ FsTyped
    BY DEF BackedInv, Typed, KindInv
  <1>1. CASE RunTask
    <2> DEFINE task == Head(batch)
    <2>1. batch \in Seq(Task) /\ batch # <<>> /\ TaskEffect(task)
      BY <1>0, <1>1 DEF RunTask, QueuesTyped
    <2>2. task = batch[1] /\ 1 \in DOMAIN batch
      BY <2>1, TakeHead
    <2> HIDE DEF task
    <2> SUFFICES ASSUME NEW c \in Call, KeyOf[c][1] = "get", heard'[c] # heard[c]
                 PROVE  UNCHANGED fs /\ NotNewer(c, heard'[c]) /\ heard[c] = Unheard
      BY DEF ToldInOrder
    <2>3. task.op = "init" /\ Tell(task.c, task.arg) /\ UNCHANGED fs
      BY <2>1 DEF TaskEffect
    <2>4. task.c = c /\ heard'[c] = task.arg
      BY <1>0, <2>3 DEF Tell, ObsPerCall
    <2>5. IsFirst(batch[1], c)
      BY <2>2, <2>3, <2>4 DEF IsFirst
    <2> QED BY <2>2, <2>3, <2>4, <2>5 DEF NothingAhead, TasksFirst, Pending
  <1>2. ASSUME NEW k \in Key, HandleChange(k) PROVE ToldInOrder
    <2>1. /\ batch = <<>> /\ CallBack(k, Observe(k), pc)
          /\ k[1] # "get"
      BY <1>2 DEF HandleChange, Left, TasksFirst
    <2>2. \A c \in Call : heard'[c] = heard[c] \/ KeyOf[c] = k
      BY <2>1, PolledAfterFirst
    <2> QED BY <2>1, <2>2 DEF ToldInOrder
  <1>3. CASE GetValue
    <2> DEFINE arg == IF cur.found THEN content[cur.k[2]] ELSE Absent
    <2>1. batch = <<>> /\ CallBack(cur.k, arg, "store")
      BY <1>3 DEF GetValue, TasksFirst
    <2>2. cur.k \in Key
      BY <1>0 DEF KindWorker
    <2> HIDE DEF arg
    <2>3. \A c \in Call : heard'[c] = heard[c] \/ (KeyOf[c] = cur.k /\ heard'[c] = arg)
      BY <2>1, <2>2, PolledAfterFirst
    <2> SUFFICES ASSUME NEW c \in Call, KeyOf[c][1] = "get", heard'[c] # heard[c]
                 PROVE  /\ UNCHANGED fs
                        /\ NotNewer(c, heard'[c])
                        /\ heard[c] # Unheard /\ heard'[c] # Absent => heard'[c] >= heard[c]
      BY DEF ToldInOrder
    <2>4. KeyOf[c] = cur.k /\ heard'[c] = arg /\ KeyOf[c][2] \in Target
      BY <2>2, <2>3 DEF Key, Target
    <2>5. content[KeyOf[c][2]] \in Nat /\ writes \in Nat /\ content[KeyOf[c][2]] <= writes
      BY <1>0, <2>4 DEF FsTyped, NothingAhead
    <2>6. CASE cur.found
      <3>1. arg = content[KeyOf[c][2]] /\ content[KeyOf[c][2]] # Absent
        BY <1>3, <2>4, <2>6 DEF arg, GetValue, exists
      <3>2. heard[c] # Unheard => heard[c] \in Nat /\ heard[c] <= content[KeyOf[c][2]]
        BY <3>1 DEF NothingAhead, NotNewer
      <3>3. NotNewer(c, heard'[c])
        BY <2>4, <2>5, <3>1 DEF NotNewer
      <3> QED BY <1>3, <2>4, <2>5, <3>1, <3>2, <3>3 DEF GetValue
    <2>7. CASE ~cur.found
      <3>1. arg = Absent
        BY <2>7 DEF arg
      <3> QED BY <1>3, <2>4, <2>5, <3>1 DEF GetValue, NotNewer, Absent
    <2> QED BY <2>6, <2>7
  <1>4. CASE UNCHANGED heard
    BY <1>4 DEF ToldInOrder
  <1> QED
    BY <1>1, <1>2, <1>3, <1>4 DEF Next, vars, OtherProcess, Register, RegisterOpen,
       RegisterThrow, RegisterRead, RegisterTime, RegisterInsert, UserTask, Stop, Worker,
       WorkerExit, WorkerLoop, WorkerTake, TasksDone, PassDone, Same, GetTime, GetOpen,
       GetThrow, GetStore

\* What a step leaves in the queues is old or current.
LEMMA QueuesCurrent ==
    ASSUME BackedInv, [Next]_vars
    PROVE  OldOrCurrent(task_queue') /\ OldOrCurrent(batch')
  <1>0. QueuesTyped
    BY DEF BackedInv, Typed
  <1>1. ASSUME NEW c \in Call, RegisterRead(c)
        PROVE  OldOrCurrent(task_queue') /\ OldOrCurrent(batch')
    <2> DEFINE task == [op |-> "init", c |-> c, arg |-> InitialArg(c)]
    <2>1. task \in Task
      BY InitialArgType DEF Task, BackedInv, Typed
    <2>2. task_queue' = Append(task_queue, task) /\ UNCHANGED <<batch, fs>>
      BY <1>1 DEF RegisterRead, add_task, worker
    <2>3. \A d \in Call : IsFirst(task, d) /\ KeyOf[d][1] = "get"
                            => task.arg = content[KeyOf[d][2]]
      BY DEF IsFirst, InitialArg
    <2> HIDE DEF task
    <2>4. \A i \in DOMAIN task_queue' : task_queue'[i] = task \/ OldTask(task_queue'[i])
      BY <1>0, <2>1, <2>2 DEF QueuesTyped, OldTask
    <2>5. \A i \in DOMAIN batch' : OldTask(batch'[i])
      BY <2>2 DEF OldTask
    <2> QED BY <2>2, <2>3, <2>4, <2>5 DEF OldOrCurrent
  <1>2. ASSUME NEW op \in TaskOp, NEW t \in Target, UserTask(op, t)
        PROVE  OldOrCurrent(task_queue') /\ OldOrCurrent(batch')
    <2> DEFINE task == [op |-> op, t |-> t]
    <2>1. task \in Task
      BY <1>2 DEF Task, UserTask
    <2>2. task_queue' = Append(task_queue, task) /\ UNCHANGED batch
      BY <1>2 DEF UserTask, add_task, worker
    <2>3. \A d \in Call : ~IsFirst(task, d)
      BY DEF IsFirst, TaskOp
    <2> HIDE DEF task
    <2>4. \A i \in DOMAIN task_queue' : task_queue'[i] = task \/ OldTask(task_queue'[i])
      BY <1>0, <2>1, <2>2 DEF QueuesTyped, OldTask
    <2>5. \A i \in DOMAIN batch' : OldTask(batch'[i])
      BY <2>2 DEF OldTask
    <2> QED BY <2>3, <2>4, <2>5 DEF OldOrCurrent
  <1>3. CASE WorkerTake
    <2>1. batch' = task_queue /\ task_queue' = <<>>
      BY <1>3 DEF WorkerTake
    <2>2. \A i \in DOMAIN batch' : OldTask(batch'[i])
      BY <2>1 DEF OldTask
    <2>3. OldOrCurrent(task_queue')
      BY <2>1 DEF OldOrCurrent
    <2> QED BY <2>2, <2>3 DEF OldOrCurrent
  <1>4. CASE RunTask
    <2>1. batch' = Tail(batch) /\ UNCHANGED task_queue /\ batch \in Seq(Task) /\ batch # <<>>
      BY <1>0, <1>4 DEF RunTask, QueuesTyped
    <2>2. \A i \in DOMAIN batch' : i + 1 \in DOMAIN batch /\ batch'[i] = batch[i + 1]
      BY <2>1, TakeHead
    <2>3. \A i \in DOMAIN batch' : OldTask(batch'[i])
      BY <2>2 DEF OldTask
    <2>4. \A i \in DOMAIN task_queue' : OldTask(task_queue'[i])
      BY <2>1 DEF OldTask
    <2> QED BY <2>3, <2>4 DEF OldOrCurrent
  <1>5. CASE UNCHANGED <<task_queue, batch>>
    <2>1. /\ \A i \in DOMAIN task_queue' : OldTask(task_queue'[i])
          /\ \A i \in DOMAIN batch' : OldTask(batch'[i])
      BY <1>5 DEF OldTask
    <2> QED BY <2>1 DEF OldOrCurrent
  <1> QED
    BY <1>1, <1>2, <1>3, <1>4, <1>5 DEF Next, vars, TaskOp, OtherProcess, Register,
       RegisterOpen, RegisterThrow, RegisterTime, RegisterInsert, Stop, Worker, worker,
       WorkerExit, WorkerLoop, TasksDone, PassDone, Same, HandleChange, GetTime, GetOpen,
       GetThrow, GetValue, GetStore

\* Nothing that is told or will be told is ahead of its file.
LEMMA NothingAheadStep ==
    ASSUME BackedInv, KindInv, TasksFirst, NothingAhead, [Next]_vars
    PROVE  NothingAhead'
  <1>0. FsTyped /\ ObsPerCall(heard)
    BY DEF KindInv
  <1>1. /\ \A t \in Target : content'[t] <= writes'
        /\ \A c \in Call, v \in Nat : KeyOf[c][1] = "get" /\ NotNewer(c, v) => NotNewer(c, v)'
    <2>1. \A t \in Target : content[t] <= writes
      BY DEF NothingAhead
    <2>2. \/ \E f \in Target : Write(f)
          \/ \E t \in Target : Remove(t)
          \/ UNCHANGED fs
      BY FileSteps
    <2> QED BY <1>0, <2>1, <2>2, NewerFile
  <1>2. ASSUME NEW c \in Call, KeyOf[c][1] = "get", heard'[c] # Unheard
        PROVE  NotNewer(c, heard[c])'
    <2>1. CASE heard'[c] = heard[c]
      <3>1. NotNewer(c, heard[c]) /\ heard[c] \in Nat
        BY <1>2, <2>1 DEF NothingAhead, NotNewer
      <3>2. heard[c]' = heard[c]
        BY <2>1
      <3> QED BY <1>1, <1>2, <3>1, <3>2 DEF NotNewer
    <2>2. CASE heard'[c] # heard[c]
      <3>1. UNCHANGED fs /\ NotNewer(c, heard'[c])
        BY <1>2, <2>2, TellsInOrder DEF ToldInOrder
      <3> QED BY <3>1 DEF fs, NotNewer
    <2> QED BY <2>1, <2>2
  <1>3. ASSUME NEW c \in Call, KeyOf[c][1] = "get", NEW task, IsFirst(task, c),
               OldTask(task) \/ (UNCHANGED fs /\ task.arg = content[KeyOf[c][2]])
        PROVE  NotNewer(c, task.arg)'
    <2>1. CASE OldTask(task)
      <3>1. NotNewer(c, task.arg) /\ task.arg \in Nat
        BY <1>3, <2>1 DEF OldTask, NothingAhead, NotNewer
      <3> QED BY <1>1, <1>3, <3>1
    <2>2. CASE UNCHANGED fs /\ task.arg = content[KeyOf[c][2]]
      <3>1. KeyOf[c][2] \in Target
        BY KeyOfAssumption DEF Key, Target
      <3> QED BY <1>0, <2>2, <3>1 DEF fs, FsTyped, NothingAhead, NotNewer
    <2> QED BY <1>3, <2>1, <2>2
  <1>4. OldOrCurrent(task_queue') /\ OldOrCurrent(batch')
    BY QueuesCurrent
  <1>5. ASSUME NEW c \in Call, KeyOf[c][1] = "get"
        PROVE  /\ \A i \in DOMAIN task_queue' :
                    IsFirst(task_queue'[i], c) => NotNewer(c, task_queue[i].arg)'
               /\ \A i \in DOMAIN batch' :
                    IsFirst(batch'[i], c) => NotNewer(c, batch[i].arg)'
    <2>1. ASSUME NEW i \in DOMAIN task_queue', IsFirst(task_queue'[i], c)
          PROVE  NotNewer(c, task_queue[i].arg)'
      <3>1. \/ OldTask(task_queue'[i])
            \/ UNCHANGED fs /\ task_queue'[i].arg = content[KeyOf[c][2]]
        BY <1>4, <1>5, <2>1 DEF OldOrCurrent
      <3>2. PICK task : task = task_queue'[i]
        OBVIOUS
      <3>3. NotNewer(c, task.arg)'
        BY <1>3, <1>5, <2>1, <3>1, <3>2
      <3> QED BY <3>2, <3>3 DEF NotNewer
    <2>2. ASSUME NEW i \in DOMAIN batch', IsFirst(batch'[i], c)
          PROVE  NotNewer(c, batch[i].arg)'
      <3>1. \/ OldTask(batch'[i])
            \/ UNCHANGED fs /\ batch'[i].arg = content[KeyOf[c][2]]
        BY <1>4, <1>5, <2>2 DEF OldOrCurrent
      <3>2. PICK task : task = batch'[i]
        OBVIOUS
      <3>3. NotNewer(c, task.arg)'
        BY <1>3, <1>5, <2>2, <3>1, <3>2
      <3> QED BY <3>2, <3>3 DEF NotNewer
    <2> QED BY <2>1, <2>2
  <1> QED BY <1>1, <1>2, <1>5 DEF NothingAhead

\* The first state.
LEMMA OrderInit == Init => TasksFirst /\ NothingAhead
  <1> SUFFICES ASSUME Init PROVE TasksFirst /\ NothingAhead
    OBVIOUS
  <1>1. task_queue = <<>> /\ batch = <<>>
    BY DEF Init
  <1>2. FirstOnce(task_queue) /\ FirstOnce(batch)
        /\ \A c \in Call : ~Pending(task_queue, c) /\ ~Pending(batch, c)
    BY <1>1 DEF FirstOnce, Pending
  <1>3. TasksFirst
    BY <1>1, <1>2, NoCallAssumption DEF Init, TasksFirst, Untouched
  <1>4. NothingAhead
    BY <1>1 DEF Init, NothingAhead, Absent
  <1> QED BY <1>3, <1>4

\* Values reach a callback in the order in which they were written: the first
\* one, which a task delivers, is never heard after a later one that polling
\* found (get_path_value, local_file.hpp:164; the worker of initialize and
\* handle_monitor_get, local_file.hpp:49-76, 373-393).
THEOREM ValuesOrdered == Spec => ValuesInOrder
  <1> DEFINE OrderInv == BackedInv /\ KindInv /\ TasksFirst /\ NothingAhead
  <1>1. Init => OrderInv
    BY BackedInit, KindInit, OrderInit
  <1>2. OrderInv /\ [Next]_vars => OrderInv'
    BY BackedStep, KindStep, TasksFirstStep, NothingAheadStep
  <1>3. ASSUME OrderInv, [Next]_vars
        PROVE  [\A c \in Call :
                  /\ KeyOf[c][1] = "get"
                  /\ heard[c] # Unheard
                  /\ heard'[c] # Absent
                  => heard'[c] >= heard[c]]_vars
    <2> SUFFICES ASSUME NEW c \in Call, KeyOf[c][1] = "get", heard[c] # Unheard,
                        heard'[c] # Absent
                 PROVE  heard'[c] >= heard[c]
      OBVIOUS
    <2>1. heard[c] \in Nat
      BY <1>3 DEF NothingAhead, NotNewer
    <2>2. ToldInOrder
      BY <1>3, TellsInOrder
    <2> QED BY <2>1, <2>2 DEF ToldInOrder
  <1> QED BY <1>1, <1>2, <1>3, PTL DEF Spec, ValuesInOrder

=============================================================================

-------------------------- MODULE ZkSession_proofs --------------------------
(***************************************************************************)
(* Proofs about ZkSession, for any number of paths and watches.            *)
(***************************************************************************)
EXTENDS ZkSession, SequenceTheorems, FiniteSetTheorems, TLAPS

USE PathOfAssumption, NoWatchAssumption, WatchAssumption, BoundAssumption

-----------------------------------------------------------------------------
(***************************************************************************)
(* Queues, by the elements they hold: nothing below depends on positions.  *)
(***************************************************************************)
In(e, q) == \E i \in DOMAIN q : q[i] = e

\* Appending adds one element (queue_completion, queue_buffer_bytes).
LEMMA AppendIn ==
    ASSUME NEW S, NEW q \in Seq(S), NEW x \in S
    PROVE  /\ Append(q, x) \in Seq(S)
           /\ \A e : In(e, Append(q, x)) => In(e, q) \/ e = x
<1>1. /\ Append(q, x) \in Seq(S)
      /\ Len(Append(q, x)) = Len(q) + 1
      /\ \A i \in 1 .. Len(q) : Append(q, x)[i] = q[i]
      /\ Append(q, x)[Len(q) + 1] = x
  BY AppendProperties
<1>2. Len(q) \in Nat /\ DOMAIN q = 1 .. Len(q) /\ DOMAIN Append(q, x) = 1 .. Len(q) + 1
  BY <1>1, LenProperties
<1> QED
  BY <1>1, <1>2 DEF In

\* Taking the head leaves the others (dequeue_completion).
LEMMA TailIn ==
    ASSUME NEW S, NEW q \in Seq(S), q # <<>>
    PROVE  /\ Head(q) \in S /\ In(Head(q), q)
           /\ Head(q) = q[1] /\ 1 \in DOMAIN q
           /\ Tail(q) \in Seq(S)
           /\ \A e : In(e, Tail(q)) => In(e, q)
<1>1. Len(q) \in Nat \ {0} /\ DOMAIN q = 1 .. Len(q)
  BY EmptySeq, LenProperties
<1>2. /\ Head(q) = q[1] /\ q[1] \in S
      /\ Tail(q) \in Seq(S)
      /\ Len(Tail(q)) = Len(q) - 1
      /\ \A i \in 1 .. Len(Tail(q)) : Tail(q)[i] = q[i + 1]
  BY <1>1, HeadTailProperties, ElementOfSeq
<1>3. DOMAIN Tail(q) = 1 .. Len(q) - 1
  BY <1>1, <1>2, LenProperties
<1>4. ASSUME NEW i \in DOMAIN Tail(q) PROVE i + 1 \in DOMAIN q /\ Tail(q)[i] = q[i + 1]
  BY <1>1, <1>2, <1>3
<1> QED
  BY <1>1, <1>2, <1>4 DEF In

\* Failing all requests puts one queue behind another (free_completions).
LEMMA ConcatIn ==
    ASSUME NEW S, NEW q \in Seq(S), NEW r \in Seq(S)
    PROVE  /\ q \o r \in Seq(S)
           /\ \A e : In(e, q \o r) => In(e, q) \/ In(e, r)
<1>1. /\ q \o r \in Seq(S)
      /\ Len(q \o r) = Len(q) + Len(r)
      /\ \A i \in 1 .. Len(q) + Len(r) :
           (q \o r)[i] = IF i <= Len(q) THEN q[i] ELSE r[i - Len(q)]
  BY ConcatProperties
<1>2. /\ Len(q) \in Nat /\ DOMAIN q = 1 .. Len(q)
      /\ Len(r) \in Nat /\ DOMAIN r = 1 .. Len(r)
      /\ DOMAIN (q \o r) = 1 .. Len(q) + Len(r)
  BY <1>1, LenProperties
<1>3. ASSUME NEW i \in DOMAIN (q \o r)
      PROVE  \/ i \in DOMAIN q /\ (q \o r)[i] = q[i]
             \/ i - Len(q) \in DOMAIN r /\ (q \o r)[i] = r[i - Len(q)]
  BY <1>1, <1>2
<1> QED
  BY <1>1, <1>3 DEF In

\* An element of a queue has the type of the queue.
LEMMA InType ==
    ASSUME NEW S, NEW q \in Seq(S), NEW e, In(e, q)
    PROVE  e \in S
<1>1. PICK i \in DOMAIN q : q[i] = e
  BY DEF In
<1>2. i \in 1 .. Len(q)
  BY LenProperties
<1> QED
  BY <1>1, <1>2, ElementOfSeq

\* Nothing is in the empty queue.
LEMMA EmptyIn == \A e : ~In(e, <<>>)
  BY DEF In

-----------------------------------------------------------------------------
(***************************************************************************)
(* The inductive invariant.                                                *)
(***************************************************************************)
\* A record is being watched again.
MovedHead == pc \in {"send", "emplace"} => moved # <<>>

\* The default watcher hears of an expiry only after it.
ExpiryHeard == In(SessionEvent("expired"), completions) => sess = "expired"

\* Once connected, the flag is down only when the session is over or the
\* monitor is being destroyed.
FlagUp ==
    /\ pc \in {"auth", "take", "rewatch", "send", "emplace", "loop"}
         => is_conntected \/ sess = "expired" \/ ~run
    /\ pc \in {"probing", "check"} => is_conntected \/ sess = "expired"

\* The handle points to user data d.
Pointed(d) ==
    \/ In([op |-> "exists", d |-> d], sent)
    \/ d \in watching
    \/ \E ds \in SUBSET UserData : d \in ds /\ In([op |-> "event", ds |-> ds], completions)
    \/ In([op |-> "exists", d |-> d], completions)

\* The handle is being replaced.
Changing == pc \in {"close", "join", "reset", "connect"}

\* LiveDataKept by membership, and for every handle that is not being replaced.
DataKept == ~Changing => \A d \in UserData : Pointed(d) => Alive(d)

\* Only an expired handle is replaced, and it is closed first.
ChangeOver ==
    /\ pc \in {"close", "join"} => sess = "expired"
    /\ pc \in {"join", "reset", "connect"} => life # "open"

SessionInv == TypeOK /\ MovedHead /\ ExpiryHeard /\ FlagUp /\ DataKept /\ ChangeOver

-----------------------------------------------------------------------------
(***************************************************************************)
(* Type correctness.                                                       *)
(***************************************************************************)
\* A request that fails is queued as its own completion.
LEMMA FailType ==
    ASSUME TypeOK, NEW q \in Seq(Completion), FailRequests(q)
    PROVE  /\ completions' \in Seq(Completion)
           /\ sent' = <<>> /\ sent' \in Seq(Request)
           /\ \A e : In(e, completions') => In(e, q) \/ In(e, sent)
<1>1. sent \in Seq(Completion)
  <2>1. Request \subseteq Completion
    BY DEF Completion
  <2> QED
    BY <2>1, SeqMonotonic DEF TypeOK
<1>2. completions' = q \o sent /\ sent' = <<>>
  BY DEF FailRequests
<1> QED
  BY <1>1, <1>2, ConcatIn, EmptySeq

\* A request reaches the queue of the handle, or is refused.
LEMMA SubmitType ==
    ASSUME TypeOK, NEW r \in Request, Submit(r)
    PROVE  /\ sent' \in Seq(Request)
           /\ \A e : In(e, sent') => In(e, sent) \/ e = r
           /\ fault' \in {fault, "freed_handle"}
<1>1. sent' \in {sent, Append(sent, r)} /\ fault' \in {fault, "freed_handle"}
  BY DEF Submit
<1>2. /\ Append(sent, r) \in Seq(Request)
      /\ \A e : In(e, Append(sent, r)) => In(e, sent) \/ e = r
  BY AppendIn DEF TypeOK
<1> QED
  BY <1>1, <1>2 DEF TypeOK

\* A session event may be queued.
LEMMA SessionEventType ==
    ASSUME TypeOK, NEW state \in {"connected", "connecting", "expired"}
    PROVE  /\ Append(completions, SessionEvent(state)) \in Seq(Completion)
           /\ \A e : In(e, Append(completions, SessionEvent(state)))
                       => In(e, completions) \/ e = SessionEvent(state)
<1>1. SessionEvent(state) \in Completion
  BY DEF SessionEvent, Completion
<1> QED
  BY <1>1, AppendIn DEF TypeOK

\* The oldest completion, and the rest of the queue.
LEMMA CompletionTaken ==
    ASSUME TypeOK, completions # <<>>
    PROVE  /\ Head(completions) \in Completion /\ In(Head(completions), completions)
           /\ Tail(completions) \in Seq(Completion)
           /\ \A e : In(e, Tail(completions)) => In(e, completions)
  BY TailIn DEF TypeOK

\* Delivering an event to one watcher leaves it for the others.
LEMMA EventDelivered ==
    ASSUME TypeOK, NEW d \in UserData, RunEvent(d)
    PROVE  /\ completions' \in Seq(Completion)
           /\ \E ds \in SUBSET UserData :
                /\ d \in ds
                /\ In([op |-> "event", ds |-> ds], completions)
                /\ \A e : In(e, completions')
                            => In(e, completions) \/ e = [op |-> "event", ds |-> ds \ {d}]
<1> DEFINE ds == Head(completions).ds
           rest == [completions EXCEPT ![1].ds = @ \ {d}]
<1>1. completions # <<>> /\ Head(completions).op = "event" /\ d \in ds
  BY DEF RunEvent, Runs
<1>2. /\ Head(completions) \in Completion /\ In(Head(completions), completions)
      /\ Tail(completions) \in Seq(Completion)
      /\ \A e : In(e, Tail(completions)) => In(e, completions)
  BY <1>1, CompletionTaken
<1>3. Head(completions) = completions[1] /\ 1 \in DOMAIN completions
  BY <1>1, TailIn DEF TypeOK
<1>4. Head(completions) = [op |-> "event", ds |-> ds] /\ ds \in SUBSET UserData
  BY <1>1, <1>2 DEF Completion, Request
<1>5. rest = [completions EXCEPT ![1] = [op |-> "event", ds |-> ds \ {d}]]
  <2>1. [completions[1] EXCEPT !.ds = @ \ {d}] = [op |-> "event", ds |-> ds \ {d}]
    BY <1>3, <1>4
  <2>2. rest = [completions EXCEPT ![1] = [completions[1] EXCEPT !.ds = @ \ {d}]]
    BY Zenon
  <2> QED
    BY <2>1, <2>2, Zenon
<1>6. [op |-> "event", ds |-> ds \ {d}] \in Completion
  BY <1>4 DEF Completion
<1>7. rest \in Seq(Completion)
  <2>1. completions \in Seq(Completion) /\ 1 \in 1 .. Len(completions)
    BY <1>3, LenProperties DEF TypeOK
  <2>2. ASSUME NEW e \in Completion PROVE [completions EXCEPT ![1] = e] \in Seq(Completion)
    BY <2>1, ExceptSeq
  <2> QED
    BY <1>5, <1>6, <2>2, Zenon
<1>8. \A e : In(e, rest) => In(e, completions) \/ e = [op |-> "event", ds |-> ds \ {d}]
  BY <1>5 DEF In
<1>9. completions' \in {Tail(completions), rest}
  BY DEF RunEvent
<1> QED
  BY <1>1, <1>2, <1>4, <1>7, <1>8, <1>9

\* The watches whose requests are outstanding are watches.
LEMMA FailedType == TypeOK => FailedWatches \in SUBSET Watch
<1> SUFFICES ASSUME TypeOK, NEW i \in DOMAIN sent PROVE sent[i].d[1] \in Watch
  BY DEF FailedWatches
<1>1. sent[i] \in Request
  BY ElementOfSeq, LenProperties DEF TypeOK
<1> QED
  BY <1>1 DEF Request, UserData

\* Steps of the IO thread keep the types.
LEMMA IoType == TypeOK /\ IoStep => TypeOK'
<1> SUFFICES ASSUME TypeOK, IoStep PROVE TypeOK'
  OBVIOUS
<1> USE DEF queue, flags, detect, users, bounds, history
<1>1. CASE IoConnect
  <2>1. completions' \in Seq(Completion)
    BY <1>1, SessionEventType DEF IoConnect
  <2> QED
    BY <1>1, <2>1 DEF IoConnect, TypeOK
<1>2. CASE IoLose
  <2>1. completions' \in Seq(Completion) /\ sent' \in Seq(Request)
    BY <1>2, SessionEventType, FailType DEF IoLose
  <2>2. FailedWatches \in SUBSET Watch
    BY FailedType
  <2>3. losses' \in Nat /\ failed' \in SUBSET Watch
    BY <1>2, <2>2 DEF IoLose, TypeOK
  <2> QED
    BY <1>2, <2>1, <2>3 DEF IoLose, TypeOK, ProbeReturns
<1>3. CASE IoAttemptFails
  <2>1. completions' \in Seq(Completion) /\ sent' \in Seq(Request)
    BY <1>3, FailType DEF IoAttemptFails, TypeOK
  <2>2. FailedWatches \in SUBSET Watch
    BY FailedType
  <2> QED
    BY <1>3, <2>1, <2>2 DEF IoAttemptFails, TypeOK, ProbeReturns
<1>4. CASE IoExpire
  <2>1. completions' \in Seq(Completion) /\ sent' \in Seq(Request)
    BY <1>4, SessionEventType, FailType DEF IoExpire
  <2> QED
    BY <1>4, <2>1 DEF IoExpire, TypeOK, ProbeReturns
<1>5. CASE IoAnswer
  <2>1. Head(sent) \in Request /\ sent' \in Seq(Request)
    BY <1>5, TailIn DEF IoAnswer, TypeOK
  <2>2. completions' \in Seq(Completion)
    BY <1>5, <2>1, AppendIn DEF IoAnswer, TypeOK, Completion
  <2>3. watching' \in SUBSET UserData
    BY <1>5, <2>1 DEF IoAnswer, TypeOK, Request
  <2> QED
    BY <1>5, <2>1, <2>2, <2>3 DEF IoAnswer, TypeOK
<1>6. ASSUME NEW p \in Path, IoEvent(p) PROVE TypeOK'
  <2>1. [op |-> "event", ds |-> watching \cap WatchersOn(p)] \in Completion
    BY DEF Completion, TypeOK
  <2>2. completions' \in Seq(Completion)
    BY <1>6, <2>1, AppendIn DEF IoEvent, TypeOK
  <2> QED
    BY <1>6, <2>2 DEF IoEvent, TypeOK
<1> QED
  BY <1>1, <1>2, <1>3, <1>4, <1>5, <1>6 DEF IoStep

\* Steps of the completion thread keep the types.
LEMMA CompletionType == TypeOK /\ CompletionStep => TypeOK'
<1> SUFFICES ASSUME TypeOK, CompletionStep PROVE TypeOK'
  OBVIOUS
<1> USE DEF io, flags, detect, users, bounds, history
<1>1. CASE ThreadEnter \/ ThreadLeave \/ ThreadExit
  BY <1>1 DEF ThreadEnter, ThreadLeave, ThreadExit, TypeOK
<1>2. CASE RunSession
  <2>1. completions' \in Seq(Completion)
    BY <1>2, CompletionTaken DEF RunSession, Runs
  <2>2. is_conntected' \in BOOLEAN /\ need_detect' \in BOOLEAN
    BY <1>2 DEF RunSession, TypeOK
  <2>3. UNCHANGED <<io, thread, run, releaser, detect, watch_record, users, bounds, history>>
    BY <1>2 DEF RunSession
  <2> QED
    BY <2>1, <2>2, <2>3 DEF TypeOK
<1>3. CASE RunExists
  <2>1. completions' \in Seq(Completion)
    BY <1>3, CompletionTaken DEF RunExists, Runs
  <2> QED
    BY <1>3, <2>1 DEF RunExists, TypeOK
<1>4. CASE RunRemove
  <2>1. Head(completions) \in Completion /\ completions' \in Seq(Completion)
    BY <1>4, CompletionTaken DEF RunRemove, Runs
  <2>2. watch_record' \in [Path -> Watch \cup {NoWatch}]
        /\ removal' \in [Path -> {"none", "waiting", "asked", "returned"}]
    BY <1>4 DEF RunRemove, TypeOK
  <2>3. fault' \in {fault, "destroyed_member"}
    BY <1>4 DEF RunRemove, UseMembers
  <2> QED
    BY <1>4, <2>1, <2>2, <2>3 DEF RunRemove, TypeOK
<1>5. ASSUME NEW d \in UserData, RunEvent(d) PROVE TypeOK'
  <2>1. completions' \in Seq(Completion)
    BY <1>5, EventDelivered
  <2>2. [op |-> "exists", d |-> d] \in Request
    BY DEF Request
  <2>3. sent' \in Seq(Request)
        /\ fault' \in {fault, "freed_handle", "freed_userdata"}
    BY <1>5, <2>2, SubmitType DEF RunEvent, TypeOK
  <2> QED
    BY <1>5, <2>1, <2>3 DEF RunEvent, TypeOK
<1> QED
  BY <1>1, <1>2, <1>3, <1>4, <1>5 DEF CompletionStep

\* The records are gone through one by one, in any order.
LEMMA RecordsType == TypeOK => Orders(Recorded) \subseteq Seq(Watch)
<1> SUFFICES ASSUME TypeOK, NEW order \in Orders(Recorded) PROVE order \in Seq(Watch)
  OBVIOUS
<1>1. Recorded \subseteq Watch
  BY DEF Recorded, TypeOK
<1>2. Cardinality(Recorded) \in Nat
  BY <1>1, FS_Subset, FS_CardinalityType
<1>3. order \in [1 .. Cardinality(Recorded) -> Watch]
  BY <1>1 DEF Orders
<1> QED
  BY <1>2, <1>3, SeqDef

\* Steps of the detecting thread keep the types.
LEMMA DetectType == TypeOK /\ MovedHead /\ DetectStep => TypeOK'
<1> SUFFICES ASSUME TypeOK, MovedHead, DetectStep PROVE TypeOK'
  OBVIOUS
<1> USE DEF io, queue, flags, detect, users, bounds, history
<1>1. CASE DetectDone \/ DetectProbe \/ ProbeAnswered \/ DetectConnected
  BY <1>1 DEF DetectDone, DetectProbe, ProbeAnswered, DetectConnected, TypeOK
<1>2. CASE DetectClear
  BY <1>2 DEF DetectClear, TypeOK
<1>3. CASE DetectClose
  <2>1. completions' \in Seq(Completion) /\ sent' \in Seq(Request) /\ life' = "closing"
    BY <1>3, FailType DEF DetectClose, CloseHandle, TypeOK
  <2> QED
    BY <1>3, <2>1 DEF DetectClose, TypeOK
<1>4. CASE DetectJoin
  BY <1>4 DEF DetectJoin, TypeOK
<1>5. CASE DetectReset
  BY <1>5 DEF DetectReset, UseMembers, TypeOK
<1>6. CASE ConnectServer
  BY <1>6, EmptySeq DEF ConnectServer, TypeOK
<1>7. CASE ConnectWait
  BY <1>7 DEF ConnectWait, TypeOK
<1>8. CASE ConnectDone
  <2>1. need_detect' \in BOOLEAN /\ started' \in BOOLEAN
    BY <1>8 DEF ConnectDone
  <2>2. pc' \in {"take", "loop"} /\ fault' \in {fault, "add_auth_error"}
    BY <1>8 DEF ConnectDone
  <2>3. UNCHANGED <<io, queue, is_conntected, run, releaser, moved, watch_record, users, bounds,
                    failed, late>>
    BY <1>8 DEF ConnectDone
  <2> QED
    BY <2>1, <2>2, <2>3 DEF TypeOK
<1>9. CASE RewatchTake
  <2>1. moved' \in Seq(Watch)
    BY <1>9, RecordsType DEF RewatchTake
  <2>2. fault' \in {fault, "destroyed_member"}
    BY <1>9 DEF RewatchTake, UseMembers
  <2> QED
    BY <1>9, <2>1, <2>2 DEF RewatchTake, TypeOK
<1>10. CASE RewatchRecord
  <2>1. Current \in Watch
    BY <1>10, TailIn DEF RewatchRecord, Current, TypeOK
  <2>2. watch_record' \in [Path -> Watch \cup {NoWatch}]
    BY <1>10, <2>1 DEF RewatchRecord, Restored, TypeOK
  <2>3. fault' \in {fault, "destroyed_member"}
    BY <1>10 DEF RewatchRecord, UseMembers
  <2> QED
    BY <1>10, <2>2, <2>3 DEF RewatchRecord, TypeOK
<1>11. CASE RewatchSend
  <2>1. moved # <<>>
    BY <1>11 DEF RewatchSend, MovedHead, At
  <2>2. [op |-> "exists", d |-> <<Current, "rewatch">>] \in Request
    BY <2>1, TailIn DEF Current, TypeOK, Request, UserData
  <2>3. sent' \in Seq(Request) /\ fault' \in {fault, "freed_handle"}
    BY <1>11, <2>2, SubmitType DEF RewatchSend
  <2> QED
    BY <1>11, <2>3 DEF RewatchSend, TypeOK
<1>12. CASE RewatchEmplace
  <2>1. moved # <<>>
    BY <1>12 DEF RewatchEmplace, MovedHead, At
  <2>2. Current \in Watch /\ moved' \in Seq(Watch)
    BY <1>12, <2>1, TailIn DEF RewatchEmplace, Remaining, Current, TypeOK
  <2> QED
    BY <1>12, <2>2 DEF RewatchEmplace, TypeOK, UserData
<1>13. CASE RewatchDone
  BY <1>13 DEF RewatchDone, TypeOK
<1> QED
  BY <1>1, <1>2, <1>3, <1>4, <1>5, <1>6, <1>7, <1>8, <1>9, <1>10, <1>11, <1>12, <1>13 DEF DetectStep

\* Steps of user threads and of the destructor keep the types.
LEMMA UserType ==
    ASSUME TypeOK,
           \/ \E w \in Watch : WatchRecord(w) \/ CallStep(w) \/ RemoveWatches(w)
           \/ Destroy
           \/ DestructorStep
    PROVE  TypeOK'
<1> USE DEF io, queue, flags, detect, users, bounds, history
<1>1. ASSUME NEW w \in Watch, WatchRecord(w) PROVE TypeOK'
  BY <1>1 DEF WatchRecord, TypeOK
<1>2. ASSUME NEW w \in Watch, WatchSend(w) PROVE TypeOK'
  <2>1. [op |-> "exists", d |-> <<w, "user">>] \in Request
    BY DEF Request, UserData
  <2>2. sent' \in Seq(Request) /\ fault' \in {fault, "freed_handle"}
    BY <1>2, <2>1, SubmitType DEF WatchSend
  <2> QED
    BY <1>2, <2>2 DEF WatchSend, TypeOK
<1>3. ASSUME NEW w \in Watch, WatchEmplace(w) PROVE TypeOK'
  BY <1>3 DEF WatchEmplace, TypeOK, UserData
<1>4. ASSUME NEW w \in Watch, RemoveWatches(w) PROVE TypeOK'
  <2>1. [op |-> "remove", d |-> <<w, "user">>] \in Request
    BY DEF Request, UserData
  <2>2. sent' \in Seq(Request) /\ fault' \in {fault, "freed_handle"}
    BY <1>4, <2>1, SubmitType DEF RemoveWatches
  <2> QED
    BY <1>4, <2>2 DEF RemoveWatches, TypeOK
<1>5. CASE Destroy
  <2>1. run' \in BOOLEAN /\ dtor' = "joining"
    BY <1>5 DEF Destroy
  <2>2. UNCHANGED <<io, queue, is_conntected, need_detect, releaser, detect, watch_record, call,
                    removal, bounds, history>>
    BY <1>5 DEF Destroy
  <2> QED
    BY <2>1, <2>2 DEF TypeOK
<1>6. CASE DestroyClose
  <2>1. completions' \in Seq(Completion) /\ sent' \in Seq(Request) /\ life' = "closing"
    BY <1>6, FailType DEF DestroyClose, CloseHandle, TypeOK
  <2> QED
    BY <1>6, <2>1 DEF DestroyClose, TypeOK
<1>7. CASE DestroyDone
  BY <1>7 DEF DestroyDone, TypeOK
<1> QED
  BY <1>1, <1>2, <1>3, <1>4, <1>5, <1>6, <1>7 DEF CallStep, DestructorStep

-----------------------------------------------------------------------------
(***************************************************************************)
(* The user data of a session that may continue is kept.                   *)
(***************************************************************************)
Rest == MovedHead /\ ExpiryHeard /\ FlagUp /\ DataKept

\* What a step has to show for DataKept: no change of the handle ends, a
\* pointer that is new points to data that is there, and no data is freed.
LEMMA KeptStep ==
    ASSUME DataKept,
           Changing => Changing',
           \A d \in UserData : Pointed(d)' => Pointed(d) \/ Alive(d)',
           releaser \cup Held \subseteq (releaser \cup Held)'
    PROVE  DataKept'
  BY DEF DataKept, Alive

\* Requests are no events.
LEMMA SentRequests ==
    ASSUME TypeOK
    PROVE  /\ \A ds : ~In([op |-> "event", ds |-> ds], sent)
           /\ \A state : ~In(SessionEvent(state), sent)
<1>1. ASSUME NEW e, In(e, sent) PROVE e.op \in {"exists", "remove"}
  <2>1. sent \in Seq(Request)
    BY DEF TypeOK
  <2>2. e \in Request
    BY <1>1, <2>1, InType
  <2> QED
    BY <2>2 DEF Request
<1>2. \A ds, state : [op |-> "event", ds |-> ds].op = "event" /\ SessionEvent(state).op = "session"
  BY DEF SessionEvent
<1> QED
  BY <1>1, <1>2

\* Session events point to no user data.
LEMMA SessionEventPlain ==
    \A state, d, ds : /\ SessionEvent(state) # [op |-> "exists", d |-> d]
                      /\ SessionEvent(state) # [op |-> "event", ds |-> ds]
<1> SUFFICES ASSUME NEW state, NEW d, NEW ds
             PROVE  /\ SessionEvent(state) # [op |-> "exists", d |-> d]
                    /\ SessionEvent(state) # [op |-> "event", ds |-> ds]
  OBVIOUS
<1>1. /\ SessionEvent(state).op = "session"
      /\ [op |-> "exists", d |-> d].op = "exists"
      /\ [op |-> "event", ds |-> ds].op = "event"
  BY DEF SessionEvent
<1> QED
  BY <1>1

\* Failing the outstanding requests, with a session event or without, makes
\* no new pointer (handle_error, zookeeper_close).
LEMMA FailPoints ==
    ASSUME TypeOK, NEW q \in Seq(Completion), FailRequests(q), UNCHANGED watching,
           \A e : In(e, q) => In(e, completions) \/ \E state : e = SessionEvent(state)
    PROVE  \A d \in UserData : Pointed(d)' => Pointed(d)
<1>1. /\ sent' = <<>>
      /\ \A e : In(e, completions') => In(e, q) \/ In(e, sent)
  BY FailType
<1>2. ASSUME NEW d \in UserData
      PROVE  In([op |-> "exists", d |-> d], completions')
               => In([op |-> "exists", d |-> d], completions) \/ In([op |-> "exists", d |-> d], sent)
  BY <1>1, SessionEventPlain
<1>3. ASSUME NEW ds
      PROVE  In([op |-> "event", ds |-> ds], completions') => In([op |-> "event", ds |-> ds], completions)
  BY <1>1, SessionEventPlain, SentRequests
<1> QED
  BY <1>1, <1>2, <1>3, EmptyIn DEF Pointed

\* Steps of the IO thread.
LEMMA IoKeeps == SessionInv /\ IoStep => Rest'
<1> SUFFICES ASSUME SessionInv, IoStep PROVE Rest'
  OBVIOUS
<1> USE DEF SessionInv, queue, flags, detect, users, bounds, history
<1>1. CASE IoConnect
  <2>1. \A e : In(e, completions') => In(e, completions) \/ e = SessionEvent("connected")
    BY <1>1, SessionEventType DEF IoConnect
  <2>2. sess \in {"new", "lost"} /\ sess' = "connected" /\ life' = life
        /\ UNCHANGED <<sent, watching, flags, releaser, detect, call>>
    BY <1>1 DEF IoConnect
  <2>3. SessionEvent("expired") # SessionEvent("connected")
    BY DEF SessionEvent
  <2>4. ExpiryHeard'
    BY <2>1, <2>2, <2>3 DEF ExpiryHeard, SessionEvent
  <2>5. FlagUp' /\ MovedHead'
    BY <2>2 DEF FlagUp, MovedHead
  <2>6. \A d \in UserData : Pointed(d)' => Pointed(d)
    BY <2>1, <2>2, SessionEventPlain DEF Pointed
  <2>7. Held' = Held
    BY <2>2 DEF Held
  <2> QED
    BY <2>2, <2>4, <2>5, <2>6, <2>7, KeptStep DEF Rest, Changing
<1>2. ASSUME NEW q \in Seq(Completion), FailRequests(q),
             \A e : In(e, q) => In(e, completions) \/ e = SessionEvent("connecting"),
             sess \in {"new", "connected", "lost"}, sess' # "expired", ProbeReturns,
             UNCHANGED <<life, watching, flags, releaser, moved, call>>
      PROVE  Rest'
  <2>1. \A e : In(e, completions') => In(e, q) \/ In(e, sent)
    BY <1>2, FailType
  <2>2. SessionEvent("expired") # SessionEvent("connecting")
    BY DEF SessionEvent
  <2>3. ExpiryHeard'
    BY <1>2, <2>1, <2>2, SentRequests DEF ExpiryHeard, SessionEvent
  <2>4. FlagUp' /\ MovedHead'
    BY <1>2 DEF FlagUp, MovedHead, ProbeReturns
  <2>5. \A d \in UserData : Pointed(d)' => Pointed(d)
    BY <1>2, FailPoints
  <2>6. Held' = Held
    BY <1>2 DEF Held, ProbeReturns
  <2> QED
    BY <1>2, <2>3, <2>4, <2>5, <2>6, KeptStep DEF Rest, Changing, ProbeReturns
<1>3. CASE IoLose
  BY <1>2, <1>3, SessionEventType DEF IoLose
<1>4. CASE IoAttemptFails
  BY <1>2, <1>4 DEF IoAttemptFails, TypeOK
<1>5. CASE IoExpire
  <2> DEFINE q == Append(completions, SessionEvent("expired"))
  <2>1. /\ FailRequests(q) /\ ProbeReturns /\ sess' = "expired"
        /\ UNCHANGED <<life, watching, flags, releaser, moved, call>>
    BY <1>5 DEF IoExpire
  <2>2. /\ q \in Seq(Completion)
        /\ \A e : In(e, q) => In(e, completions) \/ e = SessionEvent("expired")
    BY SessionEventType
  <2> HIDE DEF q
  <2>3. \A d \in UserData : Pointed(d)' => Pointed(d)
    BY <2>1, <2>2, FailPoints
  <2>4. Held' = Held /\ ExpiryHeard' /\ FlagUp' /\ MovedHead'
    BY <2>1 DEF Held, ExpiryHeard, FlagUp, MovedHead, ProbeReturns
  <2> QED
    BY <2>1, <2>3, <2>4, KeptStep DEF Rest, Changing, ProbeReturns
<1>6. CASE IoAnswer
  <2>1. /\ Head(sent) \in Request /\ In(Head(sent), sent)
        /\ \A e : In(e, sent') => In(e, sent)
    BY <1>6, TailIn DEF IoAnswer, TypeOK
  <2>2. \A e : In(e, completions') => In(e, completions) \/ e = Head(sent)
    BY <1>6, <2>1, AppendIn DEF IoAnswer, TypeOK, Completion
  <2>3. Head(sent).op = "exists" => Head(sent) = [op |-> "exists", d |-> Head(sent).d]
    BY <2>1 DEF Request
  <2>4. \A d \in UserData : d \in watching' => d \in watching \/ Head(sent) = [op |-> "exists", d |-> d]
    BY <1>6, <2>3 DEF IoAnswer
  <2>5. ASSUME NEW ds
        PROVE  In([op |-> "event", ds |-> ds], completions') => In([op |-> "event", ds |-> ds], completions)
    BY <2>1, <2>2, SentRequests
  <2>6. \A d \in UserData : Pointed(d)' => Pointed(d)
    BY <2>1, <2>2, <2>4, <2>5 DEF Pointed
  <2>7. UNCHANGED <<life, sess, flags, releaser, detect, call>>
    BY <1>6 DEF IoAnswer
  <2>8. ExpiryHeard'
    BY <2>1, <2>2, <2>7, SentRequests DEF ExpiryHeard, SessionEvent
  <2>9. FlagUp' /\ MovedHead' /\ Held' = Held
    BY <2>7 DEF FlagUp, MovedHead, Held
  <2> QED
    BY <2>6, <2>7, <2>8, <2>9, KeptStep DEF Rest, Changing
<1>7. ASSUME NEW p \in Path, IoEvent(p) PROVE Rest'
  <2> DEFINE fired == watching \cap WatchersOn(p)
  <2>1. [op |-> "event", ds |-> fired] \in Completion
    BY DEF Completion, TypeOK
  <2>2. \A e : In(e, completions') => In(e, completions) \/ e = [op |-> "event", ds |-> fired]
    BY <1>7, <2>1, AppendIn DEF IoEvent, TypeOK
  <2>3. UNCHANGED <<life, sess, sent, flags, releaser, detect, call>> /\ watching' \subseteq watching
    BY <1>7 DEF IoEvent
  <2>4. ASSUME NEW d PROVE [op |-> "exists", d |-> d] # [op |-> "event", ds |-> fired]
    <3>1. [op |-> "exists", d |-> d].op # [op |-> "event", ds |-> fired].op
      OBVIOUS
    <3> QED
      BY <3>1
  <2>5. ASSUME NEW d, NEW ds, [op |-> "event", ds |-> ds] = [op |-> "event", ds |-> fired], d \in ds
        PROVE  d \in watching
    <3>1. [op |-> "event", ds |-> ds].ds = [op |-> "event", ds |-> fired].ds
      BY <2>5
    <3> QED
      BY <3>1, <2>5
  <2>6. \A d \in UserData : Pointed(d)' => Pointed(d)
    BY <2>2, <2>3, <2>4, <2>5 DEF Pointed
  <2>7. ExpiryHeard'
    BY <2>2, <2>3, SessionEventPlain DEF ExpiryHeard, SessionEvent
  <2>8. FlagUp' /\ MovedHead' /\ Held' = Held
    BY <2>3 DEF FlagUp, MovedHead, Held
  <2> QED
    BY <2>3, <2>6, <2>7, <2>8, KeptStep DEF Rest, Changing
<1> QED
  BY <1>1, <1>3, <1>4, <1>5, <1>6, <1>7 DEF IoStep

\* Steps of the completion thread.
LEMMA CompletionKeeps == SessionInv /\ CompletionStep => Rest'
<1> SUFFICES ASSUME SessionInv, CompletionStep PROVE Rest'
  OBVIOUS
<1> USE DEF SessionInv, io, flags, detect, users, bounds, history
<1>1. CASE ThreadEnter \/ ThreadLeave \/ ThreadExit
  <2>1. UNCHANGED <<io, completions, flags, releaser, detect, users>>
    BY <1>1 DEF ThreadEnter, ThreadLeave, ThreadExit
  <2>2. ExpiryHeard' /\ FlagUp' /\ MovedHead'
    BY <2>1 DEF ExpiryHeard, FlagUp, MovedHead
  <2>3. \A d \in UserData : Pointed(d)' => Pointed(d)
    BY <2>1 DEF Pointed
  <2>4. Held' = Held
    BY <2>1 DEF Held
  <2> QED
    BY <2>1, <2>2, <2>3, <2>4, KeptStep DEF Rest, Changing
<1>2. ASSUME completions # <<>>, completions' = Tail(completions),
             UNCHANGED <<io, run, releaser, detect, call>>,
             is_conntected' = is_conntected \/ is_conntected' = TRUE \/ sess = "expired"
      PROVE  Rest'
  <2>1. \A e : In(e, completions') => In(e, completions)
    BY <1>2, CompletionTaken
  <2>2. ExpiryHeard' /\ MovedHead'
    BY <1>2, <2>1 DEF ExpiryHeard, MovedHead, SessionEvent
  <2>3. FlagUp'
    BY <1>2 DEF FlagUp
  <2>4. \A d \in UserData : Pointed(d)' => Pointed(d)
    BY <1>2, <2>1 DEF Pointed
  <2>5. Held' = Held
    BY <1>2 DEF Held
  <2> QED
    BY <1>2, <2>2, <2>3, <2>4, <2>5, KeptStep DEF Rest, Changing
<1>3. CASE RunSession
  <2> DEFINE state == Head(completions).state
  <2>1. completions # <<>> /\ Head(completions).op = "session"
    BY <1>3 DEF RunSession, Runs
  <2>2. Head(completions) \in Completion /\ In(Head(completions), completions)
    BY <2>1, CompletionTaken
  <2>3. Head(completions) = SessionEvent(state)
    BY <2>1, <2>2 DEF Completion, Request, SessionEvent
  <2>4. state = "expired" => sess = "expired"
    BY <2>2, <2>3 DEF ExpiryHeard
  <2>5. is_conntected' = is_conntected \/ is_conntected' = TRUE \/ sess = "expired"
    BY <1>3, <2>4 DEF RunSession, SessionOver
  <2> QED
    BY <1>2, <1>3, <2>1, <2>5 DEF RunSession
<1>4. CASE RunExists
  BY <1>2, <1>4 DEF RunExists, Runs
<1>5. CASE RunRemove
  BY <1>2, <1>5 DEF RunRemove, Runs
<1>6. ASSUME NEW d \in UserData, RunEvent(d) PROVE Rest'
  <2>1. PICK ds \in SUBSET UserData :
               /\ d \in ds
               /\ In([op |-> "event", ds |-> ds], completions)
               /\ \A e : In(e, completions')
                           => In(e, completions) \/ e = [op |-> "event", ds |-> ds \ {d}]
    BY <1>6, EventDelivered
  <2>2. UNCHANGED <<life, sess, watching, flags, releaser, detect, call>>
    BY <1>6 DEF RunEvent
  <2>3. [op |-> "exists", d |-> d] \in Request
    BY DEF Request
  <2>4. \A e : In(e, sent') => In(e, sent) \/ e = [op |-> "exists", d |-> d]
    BY <1>6, <2>3, SubmitType DEF RunEvent
  <2>5. Pointed(d)
    BY <2>1 DEF Pointed
  <2>6. ASSUME NEW x \in UserData, Pointed(x)' PROVE Pointed(x)
    <3>1. CASE In([op |-> "exists", d |-> x], sent')
      <4>1. CASE In([op |-> "exists", d |-> x], sent)
        BY <4>1 DEF Pointed
      <4>2. CASE [op |-> "exists", d |-> x] = [op |-> "exists", d |-> d]
        <5>1. [op |-> "exists", d |-> x].d = [op |-> "exists", d |-> d].d
          BY <4>2
        <5>2. x = d
          BY <5>1
        <5> QED
          BY <5>2, <2>5
      <4> QED
        BY <3>1, <4>1, <4>2, <2>4
    <3>2. CASE x \in watching'
      BY <3>2, <2>2 DEF Pointed
    <3>3. ASSUME NEW xs \in SUBSET UserData, x \in xs, In([op |-> "event", ds |-> xs], completions')
          PROVE  Pointed(x)
      <4>1. CASE In([op |-> "event", ds |-> xs], completions)
        BY <3>3, <4>1 DEF Pointed
      <4>2. CASE [op |-> "event", ds |-> xs] = [op |-> "event", ds |-> ds \ {d}]
        <5>1. [op |-> "event", ds |-> xs].ds = [op |-> "event", ds |-> ds \ {d}].ds
          BY <4>2
        <5>2. x \in ds
          BY <5>1, <3>3
        <5> QED
          BY <5>2, <2>1 DEF Pointed
      <4> QED
        BY <3>3, <4>1, <4>2, <2>1
    <3>4. CASE In([op |-> "exists", d |-> x], completions')
      <4>1. [op |-> "exists", d |-> x].op # [op |-> "event", ds |-> ds \ {d}].op
        OBVIOUS
      <4>2. In([op |-> "exists", d |-> x], completions)
        BY <3>4, <4>1, <2>1
      <4> QED
        BY <4>2 DEF Pointed
    <3> QED
      BY <2>6, <3>1, <3>2, <3>3, <3>4 DEF Pointed
  <2>7. ExpiryHeard'
    BY <2>1, <2>2, SessionEventPlain DEF ExpiryHeard, SessionEvent
  <2>8. FlagUp' /\ MovedHead' /\ Held' = Held
    BY <2>2 DEF FlagUp, MovedHead, Held
  <2> QED
    BY <2>2, <2>6, <2>7, <2>8, KeptStep DEF Rest, Changing
<1> QED
  BY <1>1, <1>3, <1>4, <1>5, <1>6 DEF CompletionStep

\* Steps of the detecting thread.  The data is freed at DetectClear: the flag
\* was down, so the session is over.
LEMMA DetectKeeps == SessionInv /\ DetectStep => Rest'
<1> SUFFICES ASSUME SessionInv, DetectStep PROVE Rest'
  OBVIOUS
<1> USE DEF SessionInv, io, queue, flags, detect, users, bounds, history
<1>1. ASSUME UNCHANGED <<io, completions, is_conntected, run, releaser, call>>,
             pc # "emplace", pc' \notin {"send", "emplace"},
             Changing => Changing',
             FlagUp'
      PROVE  Rest'
  <2>1. ExpiryHeard' /\ MovedHead'
    BY <1>1 DEF ExpiryHeard, MovedHead, SessionEvent
  <2>2. \A d \in UserData : Pointed(d)' => Pointed(d)
    BY <1>1 DEF Pointed
  <2>3. Held' = Held
    BY <1>1 DEF Held
  <2> QED
    BY <1>1, <2>1, <2>2, <2>3, KeptStep DEF Rest, Changing
<1>2. CASE DetectDone \/ DetectProbe \/ ProbeAnswered \/ DetectConnected
  BY <1>1, <1>2 DEF DetectDone, DetectProbe, ProbeAnswered, DetectConnected, At, FlagUp, Changing
<1>3. CASE DetectClear
  <2>1. sess = "expired" /\ sess' = "expired" /\ pc' = "close" /\ UNCHANGED completions
    BY <1>3 DEF DetectClear, At, FlagUp
  <2> QED
    BY <2>1 DEF Rest, MovedHead, ExpiryHeard, FlagUp, DataKept, Changing
<1>4. CASE DetectClose
  <2>1. /\ life' = "closing" /\ pc' = "join" /\ UNCHANGED sess
        /\ \A e : In(e, completions') => In(e, completions) \/ In(e, sent)
    BY <1>4, FailType DEF DetectClose, CloseHandle, TypeOK
  <2>2. ExpiryHeard'
    BY <2>1, SentRequests DEF ExpiryHeard, SessionEvent
  <2> QED
    BY <2>1, <2>2 DEF Rest, MovedHead, FlagUp, DataKept, Changing
<1>5. CASE DetectJoin
  <2>1. life' = "freed" /\ pc' = "reset" /\ UNCHANGED <<sess, completions>>
    BY <1>5 DEF DetectJoin
  <2> QED
    BY <2>1 DEF Rest, MovedHead, ExpiryHeard, FlagUp, DataKept, Changing, SessionEvent
<1>6. CASE DetectReset
  BY <1>1, <1>6 DEF DetectReset, At, FlagUp, Changing
<1>7. CASE ConnectServer
  <2>1. completions' = <<>> /\ sent' = <<>> /\ watching' = {} /\ pc' = "wait"
    BY <1>7 DEF ConnectServer
  <2>2. \A d \in UserData : ~Pointed(d)'
    BY <2>1, EmptyIn DEF Pointed
  <2>3. ExpiryHeard'
    BY <2>1, EmptyIn DEF ExpiryHeard
  <2> QED
    BY <2>1, <2>2, <2>3 DEF Rest, MovedHead, FlagUp, DataKept, Changing
<1>8. CASE ConnectWait
  BY <1>1, <1>8 DEF ConnectWait, WaitOver, At, FlagUp, Changing
<1>9. CASE ConnectDone
  BY <1>1, <1>9 DEF ConnectDone, At, FlagUp, Changing
<1>10. CASE RewatchTake
  BY <1>1, <1>10 DEF RewatchTake, At, FlagUp, Changing
<1>11. CASE RewatchRecord
  <2>1. /\ pc = "rewatch" /\ pc' = "send" /\ moved # <<>>
        /\ UNCHANGED <<io, completions, flags, releaser, moved, call>>
    BY <1>11 DEF RewatchRecord, At
  <2>2. ExpiryHeard' /\ MovedHead' /\ FlagUp'
    BY <2>1 DEF ExpiryHeard, MovedHead, FlagUp, SessionEvent
  <2>3. \A d \in UserData : Pointed(d)' => Pointed(d)
    BY <2>1 DEF Pointed
  <2>4. Held' = Held
    BY <2>1 DEF Held
  <2> QED
    BY <2>1, <2>2, <2>3, <2>4, KeptStep DEF Rest, Changing
<1>12. CASE RewatchSend
  <2> DEFINE new == <<Current, "rewatch">>
  <2>1. /\ pc = "send" /\ pc' = "emplace"
        /\ UNCHANGED <<life, sess, watching, completions, flags, releaser, moved, call>>
    BY <1>12 DEF RewatchSend, At
  <2>2. moved # <<>>
    BY <2>1 DEF MovedHead
  <2>3. [op |-> "exists", d |-> new] \in Request
    BY <2>2, TailIn DEF Current, TypeOK, Request, UserData
  <2>4. \A e : In(e, sent') => In(e, sent) \/ e = [op |-> "exists", d |-> new]
    BY <1>12, <2>3, SubmitType DEF RewatchSend
  <2>5. ExpiryHeard' /\ MovedHead' /\ FlagUp'
    BY <2>1, <2>2 DEF ExpiryHeard, MovedHead, FlagUp, SessionEvent
  <2>6. Held' = Held \cup {new}
    BY <2>1 DEF Held, Current
  <2>7. ASSUME NEW d, [op |-> "exists", d |-> d] = [op |-> "exists", d |-> new] PROVE d = new
    <3>1. [op |-> "exists", d |-> d].d = [op |-> "exists", d |-> new].d
      BY <2>7
    <3> QED
      BY <3>1
  <2>8. \A d \in UserData : Pointed(d)' => Pointed(d) \/ Alive(d)'
    BY <2>1, <2>4, <2>6, <2>7 DEF Pointed, Alive
  <2> QED
    BY <2>1, <2>5, <2>6, <2>8, KeptStep DEF Rest, Changing
<1>13. CASE RewatchEmplace
  <2>1. /\ pc = "emplace" /\ pc' = "rewatch"
        /\ releaser' = releaser \cup {<<Current, "rewatch">>}
        /\ UNCHANGED <<io, completions, flags, call>>
    BY <1>13 DEF RewatchEmplace, At
  <2>2. ExpiryHeard' /\ MovedHead' /\ FlagUp'
    BY <2>1 DEF ExpiryHeard, MovedHead, FlagUp, SessionEvent
  <2>3. \A d \in UserData : Pointed(d)' => Pointed(d)
    BY <2>1 DEF Pointed
  <2>4. releaser \cup Held \subseteq (releaser \cup Held)'
    BY <2>1 DEF Held, Current
  <2> QED
    BY <2>1, <2>2, <2>3, <2>4, KeptStep DEF Rest, Changing
<1>14. CASE RewatchDone
  BY <1>1, <1>14 DEF RewatchDone, At, FlagUp, Changing
<1> QED
  BY <1>2, <1>3, <1>4, <1>5, <1>6, <1>7, <1>8, <1>9, <1>10, <1>11, <1>12, <1>13, <1>14 DEF DetectStep

\* Steps of user threads and of the destructor.
LEMMA UserKeeps ==
    ASSUME SessionInv,
           \/ \E w \in Watch : WatchRecord(w) \/ CallStep(w) \/ RemoveWatches(w)
           \/ Destroy
           \/ DestructorStep
    PROVE  Rest'
<1> USE DEF SessionInv, io, queue, flags, detect, users, bounds, history
<1>1. ASSUME UNCHANGED <<life, sess, watching, completions, is_conntected, pc, moved>>,
             ~run => ~run',
             \A d \in UserData : In([op |-> "exists", d |-> d], sent')
                                   => In([op |-> "exists", d |-> d], sent) \/ Alive(d)',
             releaser \cup Held \subseteq (releaser \cup Held)'
      PROVE  Rest'
  <2>1. ExpiryHeard' /\ MovedHead' /\ FlagUp'
    BY <1>1 DEF ExpiryHeard, MovedHead, FlagUp, SessionEvent
  <2>2. \A d \in UserData : Pointed(d)' => Pointed(d) \/ Alive(d)'
    BY <1>1 DEF Pointed
  <2> QED
    BY <1>1, <2>1, <2>2, KeptStep DEF Rest, Changing
<1>2. ASSUME NEW w \in Watch, WatchRecord(w) PROVE Rest'
  <2>1. Held \subseteq Held'
    BY <1>2 DEF WatchRecord, Held, TypeOK
  <2> QED
    BY <1>1, <1>2, <2>1 DEF WatchRecord
<1>3. ASSUME NEW w \in Watch, WatchSend(w) PROVE Rest'
  <2> DEFINE new == <<w, "user">>
  <2>1. [op |-> "exists", d |-> new] \in Request
    BY DEF Request, UserData
  <2>2. \A e : In(e, sent') => In(e, sent) \/ e = [op |-> "exists", d |-> new]
    BY <1>3, <2>1, SubmitType DEF WatchSend
  <2>3. Held \subseteq Held' /\ new \in Held'
    BY <1>3 DEF WatchSend, Held, TypeOK
  <2>4. ASSUME NEW d, [op |-> "exists", d |-> d] = [op |-> "exists", d |-> new] PROVE d = new
    <3>1. [op |-> "exists", d |-> d].d = [op |-> "exists", d |-> new].d
      BY <2>4
    <3> QED
      BY <3>1
  <2>5. \A d \in UserData : In([op |-> "exists", d |-> d], sent')
                              => In([op |-> "exists", d |-> d], sent) \/ Alive(d)'
    BY <2>2, <2>3, <2>4 DEF Alive
  <2> QED
    BY <1>1, <1>3, <2>3, <2>5 DEF WatchSend
<1>4. ASSUME NEW w \in Watch, WatchEmplace(w) PROVE Rest'
  <2>1. releaser \cup Held \subseteq (releaser \cup Held)'
    BY <1>4 DEF WatchEmplace, Held, TypeOK
  <2> QED
    BY <1>1, <1>4, <2>1 DEF WatchEmplace
<1>5. ASSUME NEW w \in Watch, RemoveWatches(w) PROVE Rest'
  <2> DEFINE r == [op |-> "remove", d |-> <<w, "user">>]
  <2>1. r \in Request
    BY DEF Request, UserData
  <2>2. \A e : In(e, sent') => In(e, sent) \/ e = r
    BY <1>5, <2>1, SubmitType DEF RemoveWatches
  <2>3. ASSUME NEW d PROVE [op |-> "exists", d |-> d] # r
    <3>1. [op |-> "exists", d |-> d].op # r.op
      OBVIOUS
    <3> QED
      BY <3>1
  <2>4. Held' = Held
    BY <1>5 DEF RemoveWatches, Held
  <2> QED
    BY <1>1, <1>5, <2>2, <2>3, <2>4 DEF RemoveWatches
<1>6. CASE Destroy
  <2>1. Held' = Held
    BY <1>6 DEF Destroy, Held
  <2> QED
    BY <1>1, <1>6, <2>1 DEF Destroy
<1>7. CASE DestroyClose
  <2>1. /\ UNCHANGED <<sess, watching, flags, releaser, pc, moved, call>>
        /\ FailRequests(completions)
    BY <1>7 DEF DestroyClose, CloseHandle
  <2>2. /\ \A e : In(e, completions') => In(e, completions) \/ In(e, sent)
        /\ \A d \in UserData : Pointed(d)' => Pointed(d)
    BY <2>1, FailType, FailPoints DEF TypeOK
  <2>3. ExpiryHeard' /\ MovedHead' /\ FlagUp' /\ Held' = Held
    BY <2>1, <2>2, SentRequests DEF ExpiryHeard, SessionEvent, MovedHead, FlagUp, Held
  <2> QED
    BY <2>1, <2>2, <2>3, KeptStep DEF Rest, Changing
<1>8. CASE DestroyDone
  <2>1. UNCHANGED <<sess, sent, watching, completions, flags, releaser, pc, moved, call>>
    BY <1>8 DEF DestroyDone
  <2>2. \A d \in UserData : Pointed(d)' => Pointed(d)
    BY <2>1 DEF Pointed
  <2>3. ExpiryHeard' /\ MovedHead' /\ FlagUp' /\ Held' = Held
    BY <2>1 DEF ExpiryHeard, SessionEvent, MovedHead, FlagUp, Held
  <2> QED
    BY <2>1, <2>2, <2>3, KeptStep DEF Rest, Changing
<1> QED
  BY <1>2, <1>3, <1>4, <1>5, <1>6, <1>7, <1>8 DEF CallStep, DestructorStep

\* Only an expired handle is replaced, and it stays as it is until then: the IO
\* thread works for a session that is not over, on a handle that is open.
LEMMA OverStep == SessionInv /\ [Next]_vars => ChangeOver'
<1> SUFFICES ASSUME SessionInv, [Next]_vars PROVE ChangeOver'
  OBVIOUS
<1> USE DEF SessionInv, ChangeOver, io, queue, flags, detect, users, bounds, history
<1>1. CASE IoStep
  BY <1>1 DEF IoStep, IoConnect, IoLose, IoAttemptFails, IoExpire, IoAnswer, IoEvent, IoRuns, ProbeReturns
<1>2. CASE CompletionStep
  BY <1>2 DEF CompletionStep, ThreadEnter, ThreadLeave, ThreadExit, RunSession, RunExists, RunRemove, RunEvent
<1>3. CASE DetectStep
  BY <1>3 DEF DetectStep, At, DetectDone, DetectProbe, ProbeAnswered, DetectConnected, DetectClear,
              FlagUp, DetectClose, CloseHandle, DetectJoin, DetectReset, ConnectServer, ConnectWait,
              ConnectDone, RewatchTake, RewatchRecord, RewatchSend, RewatchEmplace, RewatchDone
<1>4. CASE \/ \E w \in Watch : WatchRecord(w) \/ CallStep(w) \/ RemoveWatches(w)
           \/ Destroy
           \/ DestructorStep
  BY <1>4 DEF WatchRecord, CallStep, WatchSend, WatchEmplace, RemoveWatches, Destroy, DestructorStep,
              DestroyClose, CloseHandle, DestroyDone
<1>5. CASE UNCHANGED vars
  BY <1>5 DEF vars
<1> QED
  BY <1>1, <1>2, <1>3, <1>4, <1>5 DEF Next

\* A step of any thread keeps the invariant.
LEMMA InvStep == SessionInv /\ [Next]_vars => SessionInv'
<1> SUFFICES ASSUME SessionInv, [Next]_vars PROVE SessionInv'
  OBVIOUS
<1>1. TypeOK /\ MovedHead /\ ChangeOver'
  BY OverStep DEF SessionInv
<1>2. CASE IoStep
  BY <1>1, <1>2, IoType, IoKeeps DEF SessionInv, Rest
<1>3. CASE CompletionStep
  BY <1>1, <1>3, CompletionType, CompletionKeeps DEF SessionInv, Rest
<1>4. CASE DetectStep
  BY <1>1, <1>4, DetectType, DetectKeeps DEF SessionInv, Rest
<1>5. CASE \/ \E w \in Watch : WatchRecord(w) \/ CallStep(w) \/ RemoveWatches(w)
           \/ Destroy
           \/ DestructorStep
  BY <1>1, <1>5, UserType, UserKeeps DEF SessionInv, Rest
<1>6. CASE UNCHANGED vars
  <2> USE <1>6 DEF vars, io, queue, flags, detect, users, bounds, history
  <2>1. TypeOK'
    BY <1>1 DEF TypeOK
  <2>2. MovedHead' /\ ExpiryHeard' /\ FlagUp'
    BY DEF SessionInv, MovedHead, ExpiryHeard, FlagUp, SessionEvent
  <2>3. (\A d \in UserData : Pointed(d)' => Pointed(d)) /\ Held' = Held
    BY DEF Pointed, Held
  <2> QED
    BY <2>1, <2>2, <2>3, <1>1, KeptStep DEF SessionInv, Changing
<1> QED
  BY <1>2, <1>3, <1>4, <1>5, <1>6 DEF Next

\* Before init nothing is queued and nothing is pointed to.
LEMMA InvInit == Init => SessionInv
<1> SUFFICES ASSUME Init PROVE SessionInv
  OBVIOUS
<1>1. TypeOK
  <2>1. sent \in Seq(Request) /\ completions \in Seq(Completion) /\ moved \in Seq(Watch)
    BY EmptySeq DEF Init
  <2>2. is_conntected \in BOOLEAN /\ need_detect \in BOOLEAN /\ run \in BOOLEAN /\ started \in BOOLEAN
    BY DEF Init
  <2> QED
    BY <2>1, <2>2 DEF Init, TypeOK
<1>2. ExpiryHeard
  BY EmptyIn DEF Init, ExpiryHeard
<1> QED
  BY <1>1, <1>2 DEF Init, SessionInv, MovedHead, FlagUp, DataKept, Changing, ChangeOver

\* What LiveDataKept counts as a pointer is one.
LEMMA PlacesPointed ==
    ASSUME TypeOK, NEW d \in UserData, Places(d) # {} \/ Completing(d)
    PROVE  Pointed(d)
<1>1. ASSUME NEW i \in DOMAIN sent, sent[i].op = "exists", sent[i].d = d PROVE Pointed(d)
  <2>1. sent[i] \in Request
    BY ElementOfSeq, LenProperties DEF TypeOK
  <2>2. sent[i] = [op |-> "exists", d |-> d]
    BY <1>1, <2>1 DEF Request
  <2> QED
    BY <2>2 DEF Pointed, In
<1>2. ASSUME NEW i \in DOMAIN completions PROVE completions[i] \in Completion
  BY ElementOfSeq, LenProperties DEF TypeOK
<1>3. ASSUME NEW i \in DOMAIN completions, completions[i].op = "event", d \in completions[i].ds
      PROVE  Pointed(d)
  <2>1. /\ completions[i] = [op |-> "event", ds |-> completions[i].ds]
        /\ completions[i].ds \in SUBSET UserData
    BY <1>2, <1>3 DEF Completion, Request
  <2> QED
    BY <1>3, <2>1 DEF Pointed, In
<1>4. ASSUME NEW i \in DOMAIN completions, completions[i].op = "exists", completions[i].d = d
      PROVE  Pointed(d)
  <2>1. completions[i] = [op |-> "exists", d |-> d]
    BY <1>2, <1>4 DEF Completion, Request
  <2> QED
    BY <2>1 DEF Pointed, In
<1>5. CASE d \in watching
  BY <1>5 DEF Pointed
<1> QED
  BY <1>1, <1>3, <1>4, <1>5 DEF Places, Completing

\* Every variable keeps its type, for any number of paths, watches, losses and
\* events.  It needs MovedHead: the rewatch takes the head of the records it
\* moved out only while there is one (config_monitor.hpp:104-110).
THEOREM TypeCorrect == Spec => []TypeOK
<1>1. SessionInv => TypeOK
  BY DEF SessionInv
<1> QED
  BY <1>1, InvInit, InvStep, PTL DEF Spec

\* While the handle is replaced, between the end of zookeeper_close and the
\* next zookeeper_init, no completion thread runs: last_sub_path_ is cleared
\* and zh_ assigned by the only thread that uses them (config_monitor.hpp:97,
\* cppzk.hpp:604).
THEOREM ResetsAlone == Spec => []NoCallbackWhileReset
<1>1. Init => NoCallbackWhileReset
  BY DEF Init, NoCallbackWhileReset
<1>2. NoCallbackWhileReset /\ [Next]_vars => NoCallbackWhileReset'
  <2> SUFFICES ASSUME NoCallbackWhileReset, [Next]_vars PROVE NoCallbackWhileReset'
    OBVIOUS
  <2> USE DEF NoCallbackWhileReset, io, queue, flags, detect, users, bounds, history
  <2>1. CASE IoStep
    BY <2>1 DEF IoStep, IoConnect, IoLose, IoAttemptFails, IoExpire, IoAnswer, IoEvent, ProbeReturns
  <2>2. CASE CompletionStep
    BY <2>2 DEF CompletionStep, ThreadEnter, ThreadLeave, ThreadExit, ThreadAt, RunSession, RunExists,
                RunRemove, RunEvent, Runs
  <2>3. CASE DetectStep
    BY <2>3 DEF DetectStep, At, DetectDone, DetectProbe, ProbeAnswered, DetectConnected, DetectClear,
                DetectClose, DetectJoin, Joined, DetectReset, ConnectServer, ConnectWait, ConnectDone,
                RewatchTake, RewatchRecord, RewatchSend, RewatchEmplace, RewatchDone
  <2>4. CASE \/ \E w \in Watch : WatchRecord(w) \/ CallStep(w) \/ RemoveWatches(w)
             \/ Destroy
             \/ DestructorStep
    BY <2>4 DEF WatchRecord, CallStep, WatchSend, WatchEmplace, RemoveWatches, Destroy, DestructorStep,
                DestroyClose, DestroyDone
  <2>5. CASE UNCHANGED vars
    BY <2>5 DEF vars
  <2> QED
    BY <2>1, <2>2, <2>3, <2>4, <2>5 DEF Next
<1> QED
  BY <1>1, <1>2, PTL DEF Spec

\* As long as the session may continue, no user data that the handle points to
\* is freed: releaser_.clear() runs only when the flag is down, the flag goes
\* down only on the event of the expiry, and that is queued only when the
\* session is over (cppzk.hpp:571-580).
THEOREM LiveDataIsKept == Spec => []LiveDataKept
<1>1. SessionInv => LiveDataKept
  BY PlacesPointed DEF SessionInv, DataKept, Changing, ChangeOver, LiveDataKept
<1> QED
  BY <1>1, InvInit, InvStep, PTL DEF Spec


-----------------------------------------------------------------------------
(***************************************************************************)
(* A session change does not double a watch.  The two user data of a call  *)
(* are followed through the handle: requested, watched, fired.             *)
(***************************************************************************)
DataOf(w) == {<<w, "user">>, <<w, "rewatch">>}
Asks(r, w) == r.op = "exists" /\ r.d \in DataOf(w)
Fires(c, d) == c.op = "event" /\ d \in c.ds

HasSent(q, w) == \E i \in DOMAIN q : Asks(q[i], w)
SentOnce(q, w) == \A i, j \in DOMAIN q : Asks(q[i], w) /\ Asks(q[j], w) => i = j
HasFired(q, w) == \E i \in DOMAIN q : \E d \in DataOf(w) : Fires(q[i], d)
FiredOnce(q, w) ==
    \A i, j \in DOMAIN q : \A d, e \in DataOf(w) : Fires(q[i], d) /\ Fires(q[j], e) => i = j /\ d = e
HasWatch(S, w) == \E d \in DataOf(w) : d \in S
WatchOnce(S, w) == \A d, e \in DataOf(w) : d \in S /\ e \in S => d = e

\* The chain of call w is on the handle, and in one place of it.
OnHandle(w) == HasSent(sent, w) \/ HasFired(completions, w) \/ HasWatch(watching, w)
OnePlace(w) ==
    /\ SentOnce(sent, w) /\ FiredOnce(completions, w) /\ WatchOnce(watching, w)
    /\ ~(HasSent(sent, w) /\ HasFired(completions, w))
    /\ ~(HasSent(sent, w) /\ HasWatch(watching, w))
    /\ ~(HasFired(completions, w) /\ HasWatch(watching, w))

\* A step moves the chain, or ends it, but starts none.
NoNewChain(w) == (OnePlace(w) => OnePlace(w)') /\ (OnHandle(w)' => OnHandle(w))

\* Queue r holds no events but those of q, in the same order.
Embeds(r, q, k) ==
    \A i \in DOMAIN r : r[i].op = "event" =>
        i + k \in DOMAIN q /\ q[i + k].op = "event" /\ r[i].ds \subseteq q[i + k].ds

\* Such a queue has no more events for a call.
LEMMA EmbedFired ==
    ASSUME NEW S, NEW T, NEW r \in Seq(S), NEW q \in Seq(T), NEW k \in {0, 1}, Embeds(r, q, k), NEW w
    PROVE  /\ HasFired(r, w) => HasFired(q, w)
           /\ FiredOnce(q, w) => FiredOnce(r, w)
<1>1. DOMAIN r \subseteq Nat
  <2>1. DOMAIN r = 1 .. Len(r) /\ Len(r) \in Nat
    BY LenProperties
  <2> QED BY <2>1
<1>2. \A i \in DOMAIN r : \A d : Fires(r[i], d) => i + k \in DOMAIN q /\ Fires(q[i + k], d)
  BY DEF Embeds, Fires
<1>3. HasFired(r, w) => HasFired(q, w)
  BY <1>2 DEF HasFired
<1>4. ASSUME FiredOnce(q, w) PROVE FiredOnce(r, w)
  <2> SUFFICES ASSUME NEW i \in DOMAIN r, NEW j \in DOMAIN r, NEW d \in DataOf(w), NEW e \in DataOf(w),
                      Fires(r[i], d), Fires(r[j], e)
               PROVE  i = j /\ d = e
    BY DEF FiredOnce
  <2>1. i + k = j + k /\ d = e
    BY <1>2, <1>4 DEF FiredOnce
  <2> QED BY <1>1, <2>1
<1> QED BY <1>3, <1>4

\* Taking the head and appending keep the order of events.
LEMMA EmbedTail ==
    ASSUME NEW S, NEW q \in Seq(S), q # <<>>
    PROVE  Tail(q) \in Seq(S) /\ Embeds(Tail(q), q, 1)
<1>1. Len(q) \in Nat \ {0} /\ DOMAIN q = 1 .. Len(q)
  BY EmptySeq, LenProperties
<1>2. /\ Tail(q) \in Seq(S)
      /\ Len(Tail(q)) = Len(q) - 1
      /\ \A i \in 1 .. Len(Tail(q)) : Tail(q)[i] = q[i + 1]
  BY HeadTailProperties
<1>3. DOMAIN Tail(q) = 1 .. Len(q) - 1
  BY <1>1, <1>2, LenProperties
<1>4. \A i \in DOMAIN Tail(q) : i + 1 \in DOMAIN q /\ Tail(q)[i] = q[i + 1]
  BY <1>1, <1>2, <1>3
<1> QED BY <1>2, <1>4 DEF Embeds

\* So does putting completions that are no events behind them.
LEMMA EmbedConcat ==
    ASSUME NEW S, NEW q \in Seq(S), NEW r \in Seq(S), \A i \in DOMAIN r : r[i].op # "event"
    PROVE  q \o r \in Seq(S) /\ Embeds(q \o r, q, 0)
<1>1. /\ q \o r \in Seq(S)
      /\ Len(q \o r) = Len(q) + Len(r)
      /\ \A i \in 1 .. Len(q) + Len(r) :
           (q \o r)[i] = IF i <= Len(q) THEN q[i] ELSE r[i - Len(q)]
  BY ConcatProperties
<1>2. /\ Len(q) \in Nat /\ DOMAIN q = 1 .. Len(q)
      /\ Len(r) \in Nat /\ DOMAIN r = 1 .. Len(r)
      /\ DOMAIN (q \o r) = 1 .. Len(q) + Len(r)
  BY <1>1, LenProperties
<1>3. ASSUME NEW i \in DOMAIN (q \o r)
      PROVE  \/ i \in DOMAIN q /\ (q \o r)[i] = q[i]
             \/ i - Len(q) \in DOMAIN r /\ (q \o r)[i] = r[i - Len(q)]
  BY <1>1, <1>2
<1>4. \A i \in DOMAIN q : i + 0 = i
  BY <1>2
<1> QED BY <1>1, <1>3, <1>4 DEF Embeds

\* Putting one message behind a queue.
LEMMA AppendAt ==
    ASSUME NEW S, NEW q \in Seq(S), NEW x \in S
    PROVE  /\ Append(q, x) \in Seq(S)
           /\ Len(q) \in Nat /\ Len(q) + 1 \notin DOMAIN q
           /\ DOMAIN Append(q, x) = DOMAIN q \cup {Len(q) + 1}
           /\ Append(q, x)[Len(q) + 1] = x
           /\ \A i \in DOMAIN q : Append(q, x)[i] = q[i]
<1>1. /\ Append(q, x) \in Seq(S)
      /\ Len(Append(q, x)) = Len(q) + 1
      /\ \A i \in 1 .. Len(q) : Append(q, x)[i] = q[i]
      /\ Append(q, x)[Len(q) + 1] = x
  BY AppendProperties
<1>2. Len(q) \in Nat /\ DOMAIN q = 1 .. Len(q) /\ DOMAIN Append(q, x) = 1 .. Len(q) + 1
  BY <1>1, LenProperties
<1> QED BY <1>1, <1>2

\* One more completion.
LEMMA FiredAppend ==
    ASSUME NEW q \in Seq(Completion), NEW c \in Completion, NEW w
    PROVE  /\ HasFired(Append(q, c), w) <=> HasFired(q, w) \/ \E d \in DataOf(w) : Fires(c, d)
           /\ (\A d \in DataOf(w) : ~Fires(c, d)) /\ FiredOnce(q, w) => FiredOnce(Append(q, c), w)
           /\ ~HasFired(q, w) /\ (\A d, e \in DataOf(w) : Fires(c, d) /\ Fires(c, e) => d = e)
                => FiredOnce(Append(q, c), w)
<1> DEFINE r == Append(q, c)
           n == Len(q) + 1
<1>1. /\ n \notin DOMAIN q
      /\ DOMAIN r = DOMAIN q \cup {n}
      /\ r[n] = c
      /\ \A i \in DOMAIN q : r[i] = q[i]
  BY AppendAt
<1> HIDE DEF r, n
<1>2. HasFired(r, w) <=> HasFired(q, w) \/ \E d \in DataOf(w) : Fires(c, d)
  BY <1>1 DEF HasFired
<1>3. (\A d \in DataOf(w) : ~Fires(c, d)) /\ FiredOnce(q, w) => FiredOnce(r, w)
  BY <1>1 DEF FiredOnce
<1>4. ~HasFired(q, w) /\ (\A d, e \in DataOf(w) : Fires(c, d) /\ Fires(c, e) => d = e)
        => FiredOnce(r, w)
  BY <1>1 DEF HasFired, FiredOnce
<1> QED BY <1>2, <1>3, <1>4 DEF r

\* One more request.
LEMMA SentAppend ==
    ASSUME NEW q \in Seq(Request), NEW x \in Request, NEW w
    PROVE  /\ HasSent(Append(q, x), w) <=> HasSent(q, w) \/ Asks(x, w)
           /\ ~Asks(x, w) /\ SentOnce(q, w) => SentOnce(Append(q, x), w)
           /\ ~HasSent(q, w) => SentOnce(Append(q, x), w)
<1> DEFINE r == Append(q, x)
           n == Len(q) + 1
<1>1. /\ n \notin DOMAIN q
      /\ DOMAIN r = DOMAIN q \cup {n}
      /\ r[n] = x
      /\ \A i \in DOMAIN q : r[i] = q[i]
  BY AppendAt
<1> HIDE DEF r, n
<1> QED BY <1>1 DEF r, HasSent, SentOnce

\* The oldest request is answered.
LEMMA SentTail ==
    ASSUME NEW q \in Seq(Request), q # <<>>, NEW w
    PROVE  /\ HasSent(Tail(q), w) => HasSent(q, w)
           /\ Asks(Head(q), w) => HasSent(q, w)
           /\ SentOnce(q, w) => SentOnce(Tail(q), w)
           /\ SentOnce(q, w) /\ Asks(Head(q), w) => ~HasSent(Tail(q), w)
<1> DEFINE r == Tail(q)
<1>1. Len(q) \in Nat \ {0} /\ DOMAIN q = 1 .. Len(q)
  BY EmptySeq, LenProperties
<1>2. /\ Head(q) = q[1]
      /\ Len(r) = Len(q) - 1
      /\ r \in Seq(Request)
      /\ \A i \in 1 .. Len(r) : r[i] = q[i + 1]
  BY HeadTailProperties
<1>3. DOMAIN r = 1 .. Len(q) - 1
  BY <1>1, <1>2, LenProperties
<1>4. 1 \in DOMAIN q /\ \A i \in DOMAIN r : i \in Nat \ {0} /\ i + 1 \in DOMAIN q /\ r[i] = q[i + 1]
  BY <1>1, <1>2, <1>3
<1> HIDE DEF r
<1>5. \A i, j \in DOMAIN r : i + 1 = j + 1 => i = j
  BY <1>4
<1>6. \A i \in DOMAIN r : i + 1 # 1
  BY <1>4
<1>7. HasSent(r, w) => HasSent(q, w)
  BY <1>4 DEF HasSent
<1>8. Asks(Head(q), w) => HasSent(q, w)
  BY <1>2, <1>4 DEF HasSent
<1>9. SentOnce(q, w) => SentOnce(r, w)
  BY <1>4, <1>5 DEF SentOnce
<1>10. SentOnce(q, w) /\ Asks(Head(q), w) => ~HasSent(r, w)
  BY <1>2, <1>4, <1>6 DEF SentOnce, HasSent
<1> QED BY <1>7, <1>8, <1>9, <1>10 DEF r


\* Delivering an event takes it from one watcher and leaves the others'.
LEMMA FiredDelivered ==
    ASSUME TypeOK, NEW d \in UserData, RunEvent(d), NEW w
    PROVE  /\ HasFired(completions', w) => HasFired(completions, w)
           /\ FiredOnce(completions, w) => FiredOnce(completions', w)
           /\ d \in DataOf(w) => HasFired(completions, w)
           /\ d \in DataOf(w) /\ FiredOnce(completions, w) => ~HasFired(completions', w)
<1> DEFINE ds == Head(completions).ds
           rest == [completions EXCEPT ![1].ds = @ \ {d}]
<1>1. completions # <<>> /\ Head(completions).op = "event" /\ d \in ds
  BY DEF RunEvent, Runs
<1>2. completions \in Seq(Completion)
  BY DEF TypeOK
<1>3. Head(completions) \in Completion /\ Head(completions) = completions[1] /\ 1 \in DOMAIN completions
  BY <1>1, <1>2, TailIn
<1>4. Head(completions) = [op |-> "event", ds |-> ds]
  BY <1>1, <1>3 DEF Completion, Request
<1>5. completions' \in Seq(Completion)
  BY EventDelivered
<1>6. Fires(completions[1], d)
  BY <1>1, <1>3 DEF Fires
<1>7. CASE completions' = Tail(completions)
  <2>1. Embeds(completions', completions, 1)
    BY <1>1, <1>2, <1>7, EmbedTail
  <2>2. /\ HasFired(completions', w) => HasFired(completions, w)
        /\ FiredOnce(completions, w) => FiredOnce(completions', w)
    BY <1>2, <1>5, <2>1, EmbedFired
  <2>3. \A i \in DOMAIN completions' : i + 1 # 1
    <3>1. DOMAIN completions' = 1 .. Len(completions') /\ Len(completions') \in Nat
      BY <1>5, LenProperties
    <3> QED BY <3>1
  <2>4. ASSUME d \in DataOf(w), FiredOnce(completions, w), HasFired(completions', w) PROVE FALSE
    <3>1. PICK i \in DOMAIN completions', e \in DataOf(w) : Fires(completions'[i], e)
      BY <2>4 DEF HasFired
    <3>2. i + 1 \in DOMAIN completions /\ Fires(completions[i + 1], e)
      BY <2>1, <3>1 DEF Embeds, Fires
    <3> QED BY <1>3, <1>6, <2>3, <2>4, <3>2 DEF FiredOnce
  <2> QED BY <1>3, <1>6, <2>2, <2>4 DEF HasFired
<1>8. CASE completions' = rest
  <2>1. rest = [completions EXCEPT ![1] = [op |-> "event", ds |-> ds \ {d}]]
    <3>1. [completions[1] EXCEPT !.ds = @ \ {d}] = [op |-> "event", ds |-> ds \ {d}]
      BY <1>3, <1>4
    <3>2. rest = [completions EXCEPT ![1] = [completions[1] EXCEPT !.ds = @ \ {d}]]
      BY Zenon
    <3> QED BY <3>1, <3>2, Zenon
  <2>2. /\ DOMAIN completions' = DOMAIN completions
        /\ completions'[1] = [op |-> "event", ds |-> ds \ {d}]
        /\ \A i \in DOMAIN completions : i # 1 => completions'[i] = completions[i]
    BY <1>3, <1>8, <2>1
  <2>3. \A i \in DOMAIN completions : i + 0 = i
    <3>1. DOMAIN completions = 1 .. Len(completions) /\ Len(completions) \in Nat
      BY <1>2, LenProperties
    <3> QED BY <3>1
  <2>4. Embeds(completions', completions, 0)
    BY <1>3, <1>4, <2>2, <2>3 DEF Embeds
  <2>5. /\ HasFired(completions', w) => HasFired(completions, w)
        /\ FiredOnce(completions, w) => FiredOnce(completions', w)
    BY <1>2, <1>5, <2>4, EmbedFired
  <2>6. ASSUME d \in DataOf(w), FiredOnce(completions, w), HasFired(completions', w) PROVE FALSE
    <3>1. PICK i \in DOMAIN completions', e \in DataOf(w) : Fires(completions'[i], e)
      BY <2>6 DEF HasFired
    <3>2. i \in DOMAIN completions /\ Fires(completions[i], e)
      BY <2>2, <2>3, <2>4, <3>1 DEF Embeds, Fires
    <3>3. i = 1 /\ e = d
      BY <1>3, <1>6, <2>6, <3>2 DEF FiredOnce
    <3> QED BY <2>2, <3>1, <3>3 DEF Fires
  <2> QED BY <1>3, <1>6, <2>5, <2>6 DEF HasFired
<1> QED
  BY <1>7, <1>8 DEF RunEvent

\* A step that only takes things away starts no chain.
LEMMA Shrinks ==
    ASSUME NEW w,
           HasSent(sent', w) => HasSent(sent, w), SentOnce(sent, w) => SentOnce(sent', w),
           HasFired(completions', w) => HasFired(completions, w),
           FiredOnce(completions, w) => FiredOnce(completions', w),
           watching' \subseteq watching
    PROVE  NoNewChain(w)
<1>1. HasWatch(watching', w) => HasWatch(watching, w)
  BY DEF HasWatch
<1>2. WatchOnce(watching, w) => WatchOnce(watching', w)
  BY DEF WatchOnce
<1> QED BY <1>1, <1>2 DEF NoNewChain, OnePlace, OnHandle

\* Nothing is requested on an empty queue.
LEMMA EmptySent == \A w : ~HasSent(<<>>, w) /\ SentOnce(<<>>, w)
  BY DEF HasSent, SentOnce

\* Nothing has fired on an empty queue.
LEMMA EmptyFired == \A w : ~HasFired(<<>>, w) /\ FiredOnce(<<>>, w)
  BY DEF HasFired, FiredOnce

\* Session events fire no watcher.
LEMMA SessionFired ==
    ASSUME TypeOK, NEW state \in {"connected", "connecting", "expired"}, NEW w
    PROVE  LET q == Append(completions, SessionEvent(state))
           IN  (HasFired(q, w) => HasFired(completions, w)) /\ (FiredOnce(completions, w) => FiredOnce(q, w))
<1>1. SessionEvent(state) \in Completion /\ completions \in Seq(Completion)
  BY DEF SessionEvent, Completion, TypeOK
<1>2. \A d : ~Fires(SessionEvent(state), d)
  BY DEF Fires, SessionEvent
<1> QED BY <1>1, <1>2, FiredAppend

\* Failing the outstanding requests ends the chains that are requested.
LEMMA FailChain ==
    ASSUME TypeOK, NEW q \in Seq(Completion), FailRequests(q), UNCHANGED watching, NEW w,
           HasFired(q, w) => HasFired(completions, w),
           FiredOnce(completions, w) => FiredOnce(q, w)
    PROVE  NoNewChain(w)
<1>1. completions' = q \o sent /\ sent' = <<>>
  BY DEF FailRequests
<1>2. sent \in Seq(Completion)
  <2>1. Request \subseteq Completion
    BY DEF Completion
  <2> QED BY <2>1, SeqMonotonic DEF TypeOK
<1>3. ASSUME NEW i \in DOMAIN sent PROVE sent[i].op # "event"
  <2>1. sent[i] \in Request
    BY ElementOfSeq, LenProperties DEF TypeOK
  <2> QED BY <2>1 DEF Request
<1>4. completions' \in Seq(Completion) /\ Embeds(completions', q, 0)
  BY <1>1, <1>2, <1>3, EmbedConcat
<1>5. /\ HasFired(completions', w) => HasFired(q, w)
      /\ FiredOnce(q, w) => FiredOnce(completions', w)
  BY <1>4, EmbedFired
<1> QED BY <1>1, <1>5, EmptySent, Shrinks

\* Completions that are taken from the queue end nothing.
LEMMA TakenChain ==
    ASSUME TypeOK, completions # <<>>, completions' = Tail(completions), UNCHANGED <<sent, watching>>, NEW w
    PROVE  NoNewChain(w)
<1>1. completions \in Seq(Completion)
  BY DEF TypeOK
<1>2. completions' \in Seq(Completion) /\ Embeds(completions', completions, 1)
  BY <1>1, EmbedTail
<1>3. /\ HasFired(completions', w) => HasFired(completions, w)
      /\ FiredOnce(completions, w) => FiredOnce(completions', w)
  BY <1>1, <1>2, EmbedFired
<1> QED BY <1>3, Shrinks

\* Steps of the IO thread move chains: a request becomes a watch, a watch an
\* event.
LEMMA IoChain ==
    ASSUME TypeOK, IoStep, NEW w \in Watch
    PROVE  NoNewChain(w)
<1>0. completions \in Seq(Completion) /\ sent \in Seq(Request)
  BY DEF TypeOK
<1>1. CASE IoConnect
  <2>1. /\ completions' = Append(completions, SessionEvent("connected"))
        /\ UNCHANGED <<sent, watching>>
    BY <1>1 DEF IoConnect
  <2>2. /\ HasFired(completions', w) => HasFired(completions, w)
        /\ FiredOnce(completions, w) => FiredOnce(completions', w)
    BY <2>1, SessionFired
  <2> QED BY <2>1, <2>2, Shrinks
<1>2. ASSUME NEW state \in {"connecting", "expired"},
             FailRequests(Append(completions, SessionEvent(state))), UNCHANGED watching
      PROVE  NoNewChain(w)
  <2> DEFINE q == Append(completions, SessionEvent(state))
  <2>1. q \in Seq(Completion)
    BY SessionEventType
  <2>2. (HasFired(q, w) => HasFired(completions, w)) /\ (FiredOnce(completions, w) => FiredOnce(q, w))
    BY SessionFired
  <2> QED BY <1>2, <2>1, <2>2, FailChain
<1>3. CASE IoLose \/ IoExpire
  BY <1>2, <1>3 DEF IoLose, IoExpire
<1>4. CASE IoAttemptFails
  BY <1>0, <1>4, FailChain DEF IoAttemptFails
<1>5. CASE IoAnswer
  <2> DEFINE r == Head(sent)
  <2>1. /\ sent # <<>> /\ sent' = Tail(sent)
        /\ completions' = Append(completions, r)
        /\ watching' = IF r.op = "exists" THEN watching \cup {r.d}
                       ELSE watching \ WatchersOn(PathOf[r.d[1]])
    BY <1>5 DEF IoAnswer
  <2>2. r \in Request /\ r \in Completion
    BY <1>0, <2>1, TailIn DEF Completion
  <2>3. /\ HasSent(sent', w) => HasSent(sent, w)
        /\ Asks(r, w) => HasSent(sent, w)
        /\ SentOnce(sent, w) => SentOnce(sent', w)
        /\ SentOnce(sent, w) /\ Asks(r, w) => ~HasSent(sent', w)
    BY <1>0, <2>1, SentTail
  <2> HIDE DEF r
  <2>4. \A d : ~Fires(r, d)
    BY <2>2 DEF Fires, Request
  <2>5. /\ HasFired(completions', w) => HasFired(completions, w)
        /\ FiredOnce(completions, w) => FiredOnce(completions', w)
    BY <1>0, <2>1, <2>2, <2>4, FiredAppend
  <2>6. CASE Asks(r, w)
    <3>1. watching' = watching \cup {r.d} /\ r.d \in DataOf(w)
      BY <2>1, <2>6 DEF Asks
    <3>2. ~HasWatch(watching, w) => WatchOnce(watching', w)
      BY <3>1 DEF HasWatch, WatchOnce
    <3> QED BY <2>3, <2>5, <2>6, <3>2 DEF NoNewChain, OnePlace, OnHandle
  <2>7. CASE ~Asks(r, w)
    <3>1. \A d \in DataOf(w) : d \in watching' => d \in watching
      BY <2>1, <2>7 DEF Asks
    <3>2. HasWatch(watching', w) => HasWatch(watching, w)
      BY <3>1 DEF HasWatch
    <3>3. WatchOnce(watching, w) => WatchOnce(watching', w)
      BY <3>1 DEF WatchOnce
    <3> QED BY <2>3, <2>5, <3>2, <3>3 DEF NoNewChain, OnePlace, OnHandle
  <2> QED BY <2>6, <2>7
<1>6. ASSUME NEW p \in Path, IoEvent(p) PROVE NoNewChain(w)
  <2> DEFINE fired == watching \cap WatchersOn(p)
             c == [op |-> "event", ds |-> fired]
  <2>1. /\ completions' = Append(completions, c) /\ watching' = watching \ fired
        /\ UNCHANGED sent
    BY <1>6 DEF IoEvent
  <2>2. c \in Completion
    BY DEF Completion, TypeOK
  <2>3. \A d : Fires(c, d) <=> d \in fired
    BY DEF Fires
  <2>4. fired \subseteq watching
    OBVIOUS
  <2> HIDE DEF c, fired
  <2>5. CASE \E d \in DataOf(w) : d \in fired
    <3>1. HasWatch(watching, w)
      BY <2>4, <2>5 DEF HasWatch
    <3>2. WatchOnce(watching, w) => ~HasWatch(watching', w) /\ WatchOnce(watching', w)
      BY <2>1, <2>4, <2>5 DEF WatchOnce, HasWatch
    <3>3. WatchOnce(watching, w) /\ ~HasFired(completions, w) => FiredOnce(completions', w)
      BY <1>0, <2>1, <2>2, <2>3, <2>4, FiredAppend DEF WatchOnce
    <3> QED BY <2>1, <3>1, <3>2, <3>3 DEF NoNewChain, OnePlace, OnHandle
  <2>6. CASE \A d \in DataOf(w) : d \notin fired
    <3>1. /\ HasFired(completions', w) => HasFired(completions, w)
          /\ FiredOnce(completions, w) => FiredOnce(completions', w)
      BY <1>0, <2>1, <2>2, <2>3, <2>6, FiredAppend
    <3> QED BY <2>1, <3>1, Shrinks
  <2> QED BY <2>5, <2>6
<1> QED
  BY <1>1, <1>3, <1>4, <1>5, <1>6 DEF IoStep


\* Sending an exists request starts a chain, for its own call only.
LEMMA SubmitChain ==
    ASSUME TypeOK, NEW d \in UserData, Submit([op |-> "exists", d |-> d]),
           UNCHANGED <<watching, completions>>, NEW w \in Watch
    PROVE  /\ d \notin DataOf(w) => NoNewChain(w)
           /\ ~OnHandle(w) => OnePlace(w)'
<1> DEFINE r == [op |-> "exists", d |-> d]
<1>1. r \in Request /\ sent \in Seq(Request)
  BY DEF Request, TypeOK
<1>2. sent' \in {sent, Append(sent, r)}
  BY DEF Submit
<1>3. Asks(r, w) <=> d \in DataOf(w)
  BY DEF Asks
<1> HIDE DEF r
<1>4. /\ HasSent(Append(sent, r), w) <=> HasSent(sent, w) \/ Asks(r, w)
      /\ ~Asks(r, w) /\ SentOnce(sent, w) => SentOnce(Append(sent, r), w)
      /\ ~HasSent(sent, w) => SentOnce(Append(sent, r), w)
  BY <1>1, SentAppend
<1>5. ASSUME d \notin DataOf(w) PROVE NoNewChain(w)
  BY <1>2, <1>3, <1>4, <1>5, Shrinks
<1>6. ASSUME ~OnHandle(w) PROVE OnePlace(w)'
  <2>1. ~HasSent(sent, w) /\ ~HasFired(completions, w) /\ ~HasWatch(watching, w)
    BY <1>6 DEF OnHandle
  <2>2. FiredOnce(completions, w) /\ WatchOnce(watching, w) /\ SentOnce(sent, w)
    BY <2>1 DEF HasFired, FiredOnce, HasWatch, WatchOnce, HasSent, SentOnce
  <2> QED BY <1>2, <1>4, <2>1, <2>2 DEF OnePlace
<1> QED BY <1>5, <1>6

\* Steps of the completion thread: an event becomes a request.
LEMMA CompletionChain ==
    ASSUME TypeOK, CompletionStep, NEW w \in Watch
    PROVE  NoNewChain(w)
<1>0. completions \in Seq(Completion) /\ sent \in Seq(Request)
  BY DEF TypeOK
<1>1. CASE ThreadEnter \/ ThreadLeave \/ ThreadExit
  <2>1. UNCHANGED <<sent, watching, completions>>
    BY <1>1 DEF ThreadEnter, ThreadLeave, ThreadExit, io
  <2> QED BY <2>1 DEF NoNewChain, OnePlace, OnHandle
<1>2. CASE RunSession \/ RunExists \/ RunRemove
  <2>1. completions # <<>> /\ completions' = Tail(completions) /\ UNCHANGED <<sent, watching>>
    BY <1>2 DEF RunSession, RunExists, RunRemove, Runs, io
  <2> QED BY <2>1, TakenChain
<1>3. ASSUME NEW d \in UserData, RunEvent(d) PROVE NoNewChain(w)
  <2> DEFINE r == [op |-> "exists", d |-> d]
  <2>1. r \in Request
    BY DEF Request
  <2>2. sent' \in {sent, Append(sent, r)} /\ UNCHANGED watching
    BY <1>3 DEF RunEvent, Submit
  <2>3. Asks(r, w) <=> d \in DataOf(w)
    BY DEF Asks
  <2> HIDE DEF r
  <2>4. /\ HasSent(Append(sent, r), w) <=> HasSent(sent, w) \/ Asks(r, w)
        /\ ~Asks(r, w) /\ SentOnce(sent, w) => SentOnce(Append(sent, r), w)
        /\ ~HasSent(sent, w) => SentOnce(Append(sent, r), w)
    BY <1>0, <2>1, SentAppend
  <2>5. /\ HasFired(completions', w) => HasFired(completions, w)
        /\ FiredOnce(completions, w) => FiredOnce(completions', w)
        /\ d \in DataOf(w) => HasFired(completions, w)
        /\ d \in DataOf(w) /\ FiredOnce(completions, w) => ~HasFired(completions', w)
    BY <1>3, FiredDelivered
  <2>6. CASE d \in DataOf(w)
    <3>1. OnePlace(w) => OnePlace(w)'
      BY <2>2, <2>3, <2>4, <2>5, <2>6 DEF OnePlace
    <3> QED BY <2>5, <2>6, <3>1 DEF NoNewChain, OnHandle
  <2>7. CASE d \notin DataOf(w)
    BY <2>2, <2>3, <2>4, <2>5, <2>7, Shrinks
  <2> QED BY <2>6, <2>7
<1> QED
  BY <1>1, <1>2, <1>3 DEF CompletionStep

\* The user's request for a removal starts no chain.
LEMMA RemovalChain ==
    ASSUME TypeOK, NEW v \in Watch, RemoveWatches(v), NEW w \in Watch
    PROVE  NoNewChain(w)
<1> DEFINE r == [op |-> "remove", d |-> <<v, "user">>]
<1>1. r \in Request /\ sent \in Seq(Request)
  BY DEF Request, UserData, TypeOK
<1>2. sent' \in {sent, Append(sent, r)} /\ UNCHANGED <<watching, completions>>
  BY DEF RemoveWatches, Submit, queue
<1>3. ~Asks(r, w)
  BY DEF Asks
<1> HIDE DEF r
<1>4. /\ HasSent(Append(sent, r), w) => HasSent(sent, w)
      /\ SentOnce(sent, w) => SentOnce(Append(sent, r), w)
  BY <1>1, <1>3, SentAppend
<1> QED BY <1>2, <1>4, Shrinks

-----------------------------------------------------------------------------
\* The records that are still to be watched again.
Rewatching == {"rewatch", "send", "emplace"}
ToRewatch == {moved[i] : i \in {j \in DOMAIN moved : pc = "emplace" => j # 1}}

\* Records are those of calls that were made, and are gone through once.
RecordsOnce ==
    /\ pc \notin Rewatching => moved = <<>>
    /\ \A i, j \in DOMAIN moved : moved[i] = moved[j] => i = j
    /\ \A i \in DOMAIN moved : call[moved[i]] # "idle"
    /\ \A p \in Path : watch_record[p] # NoWatch => call[watch_record[p]] # "idle"

\* A call that is not late has one chain at most: it is not on the new handle
\* when the records are taken, and what is watched again has been sent by its
\* call before.
Unsent(w) == call[w] \in {"idle", "recorded"} => ~OnHandle(w) /\ w \notin ToRewatch
NotUnderWay(w) == Replacing => call[w] # "recorded"
FreshHandle(w) == pc \in {"wait", "auth", "take"} => ~OnHandle(w)
NotYet(w) == w \in ToRewatch => ~OnHandle(w)

SingleInv ==
    /\ RecordsOnce
    /\ \A w \in Watch \ late : OnePlace(w) /\ Unsent(w) /\ NotUnderWay(w) /\ FreshHandle(w) /\ NotYet(w)

\* Steps that start no chain, make no call and leave the records to be watched
\* again alone.
LEMMA SingleQuiet ==
    ASSUME SingleInv, \A w \in Watch : NoNewChain(w), UNCHANGED <<call, moved>>, late \subseteq late',
           \A p \in Path : watch_record'[p] \in {watch_record[p], NoWatch},
           \/ UNCHANGED pc
           \/ moved = <<>> /\ pc' \notin {"wait", "auth", "take"} /\ (Replacing' => Replacing)
           \/ moved = <<>> /\ {pc, pc'} \subseteq {"wait", "auth", "take"}
    PROVE  SingleInv'
<1>1. RecordsOnce'
  BY DEF SingleInv, RecordsOnce, Rewatching
<1>2. ToRewatch' \subseteq ToRewatch
  BY DEF ToRewatch
<1>3. Replacing' => Replacing
  BY DEF Replacing
<1>4. pc' \in {"wait", "auth", "take"} => pc \in {"wait", "auth", "take"}
  OBVIOUS
<1>5. ASSUME NEW w \in Watch \ late'
      PROVE  (OnePlace(w) /\ Unsent(w) /\ NotUnderWay(w) /\ FreshHandle(w) /\ NotYet(w))'
  <2>1. w \in Watch \ late /\ NoNewChain(w)
    OBVIOUS
  <2>2. OnePlace(w) /\ Unsent(w) /\ NotUnderWay(w) /\ FreshHandle(w) /\ NotYet(w)
    BY <2>1 DEF SingleInv
  <2>3. OnePlace(w)' /\ (OnHandle(w)' => OnHandle(w))
    BY <2>1, <2>2 DEF NoNewChain
  <2>4. Unsent(w)' /\ NotYet(w)'
    BY <1>2, <2>2, <2>3 DEF Unsent, NotYet
  <2>5. NotUnderWay(w)'
    BY <1>3, <2>2 DEF NotUnderWay
  <2>6. FreshHandle(w)'
    BY <1>4, <2>2, <2>3 DEF FreshHandle
  <2> QED BY <2>3, <2>4, <2>5, <2>6
<1> QED
  BY <1>1, <1>5 DEF SingleInv

\* Nothing happens to the handle.
LEMMA SameHandle ==
    ASSUME UNCHANGED <<sent, watching, completions>>, NEW w
    PROVE  NoNewChain(w) /\ (OnHandle(w)' <=> OnHandle(w)) /\ (OnePlace(w)' <=> OnePlace(w))
  BY DEF NoNewChain, OnePlace, OnHandle

\* Steps of the IO thread and of the completion thread.
LEMMA SingleServe ==
    ASSUME TypeOK, SingleInv, IoStep \/ CompletionStep
    PROVE  SingleInv'
<1>1. \A w \in Watch : NoNewChain(w)
  BY IoChain, CompletionChain
<1>2. CASE IoStep
  <2>1. UNCHANGED <<call, moved, late, watch_record>>
    BY <1>2 DEF IoStep, IoConnect, IoLose, IoAttemptFails, IoExpire, IoAnswer, IoEvent, users,
       detect, history
  <2>2. UNCHANGED pc \/ (pc = "probing" /\ pc' = "check")
    BY <1>2 DEF IoStep, IoConnect, IoLose, IoAttemptFails, IoExpire, IoAnswer, IoEvent,
       ProbeReturns, detect
  <2>3. pc = "probing" => moved = <<>>
    BY DEF SingleInv, RecordsOnce, Rewatching
  <2> QED BY <1>1, <2>1, <2>2, <2>3, SingleQuiet DEF Replacing
<1>3. CASE CompletionStep
  <2>1. UNCHANGED <<call, moved, late, pc>>
    BY <1>3 DEF CompletionStep, ThreadEnter, ThreadLeave, ThreadExit, RunSession, RunExists,
       RunRemove, RunEvent, users, detect, history
  <2>2. \A p \in Path : watch_record'[p] \in {watch_record[p], NoWatch}
    BY <1>3 DEF CompletionStep, ThreadEnter, ThreadLeave, ThreadExit, RunSession, RunExists,
       RunRemove, RunEvent, TypeOK
  <2> QED BY <1>1, <2>1, <2>2, SingleQuiet
<1> QED BY <1>2, <1>3


\* Every record is in an order of the records once.
LEMMA OrdersOnce ==
    ASSUME TypeOK, NEW order \in Orders(Recorded)
    PROVE  /\ \A i \in DOMAIN order : order[i] \in Recorded
           /\ \A i, j \in DOMAIN order : order[i] = order[j] => i = j
<1> DEFINE n == Cardinality(Recorded)
<1>1. Recorded \subseteq Watch
  BY DEF Recorded, TypeOK
<1>2. n \in Nat
  BY <1>1, FS_Subset, FS_CardinalityType
<1>3. IsFiniteSet(1 .. n) /\ Cardinality(1 .. n) = n
  BY <1>2, FS_Interval
<1>4. order \in [1 .. n -> Recorded] /\ \A x \in Recorded : \E i \in 1 .. n : order[i] = x
  BY DEF Orders
<1>5. order \in Surjection(1 .. n, Recorded)
  BY <1>4 DEF Surjection
<1>6. order \in Injection(1 .. n, Recorded)
  BY <1>3, <1>5, FS_SurjSameCardinalityImpliesInj
<1> HIDE DEF n
<1> QED
  BY <1>4, <1>6 DEF Injection, IsInjective

\* Steps of the detecting thread.
LEMMA SingleDetect ==
    ASSUME TypeOK, MovedHead, SingleInv, DetectStep
    PROVE  SingleInv'
<1>0. moved \in Seq(Watch) /\ RecordsOnce
  BY DEF TypeOK, SingleInv
<1>1. CASE \/ DetectDone \/ DetectProbe \/ ProbeAnswered \/ DetectConnected \/ DetectJoin
           \/ DetectReset \/ ConnectWait \/ ConnectDone \/ RewatchDone
  <2>1. UNCHANGED <<sent, watching, completions, call, late, watch_record, moved>>
    BY <1>1 DEF DetectDone, DetectProbe, ProbeAnswered, DetectConnected, DetectJoin, DetectReset,
       ConnectWait, ConnectDone, RewatchDone, io, queue, users, history, detect
  <2>2. moved = <<>>
    BY <1>0, <1>1 DEF RecordsOnce, Rewatching, At, DetectDone, DetectProbe, ProbeAnswered, DetectConnected,
       DetectJoin, DetectReset, ConnectWait, ConnectDone, RewatchDone
  <2>3. \/ pc' \notin {"wait", "auth", "take"} /\ (Replacing' => Replacing)
        \/ {pc, pc'} \subseteq {"wait", "auth", "take"}
    BY <1>1 DEF At, DetectDone, DetectProbe, ProbeAnswered, DetectConnected, DetectJoin, DetectReset,
       ConnectWait, ConnectDone, RewatchDone, Replacing
  <2> QED BY <2>1, <2>2, <2>3, SameHandle, SingleQuiet
<1>2. CASE DetectClear
  <2>1. /\ UNCHANGED <<sent, watching, completions, call, watch_record, moved>>
        /\ pc = "check" /\ pc' = "close"
        /\ late' = late \cup {w \in Watch : call[w] = "recorded"}
    BY <1>2 DEF DetectClear, At, io, queue, users
  <2>2. moved = <<>>
    BY <1>0, <2>1 DEF RecordsOnce, Rewatching
  <2>3. RecordsOnce' /\ ToRewatch' = {}
    BY <1>0, <2>1, <2>2 DEF RecordsOnce, ToRewatch
  <2>4. ASSUME NEW w \in Watch \ late'
        PROVE  (OnePlace(w) /\ Unsent(w) /\ NotUnderWay(w) /\ FreshHandle(w) /\ NotYet(w))'
    <3>1. w \in Watch \ late /\ call[w] # "recorded"
      BY <2>1
    <3>2. OnePlace(w) /\ Unsent(w)
      BY <3>1 DEF SingleInv
    <3>3. OnePlace(w)' /\ (OnHandle(w)' <=> OnHandle(w))
      BY <2>1, <3>2, SameHandle
    <3> QED BY <2>1, <2>3, <3>1, <3>2, <3>3 DEF Unsent, NotUnderWay, FreshHandle, NotYet
  <2> QED BY <2>3, <2>4 DEF SingleInv
<1>3. CASE DetectClose
  <2>1. /\ FailRequests(completions) /\ UNCHANGED <<watching, call, late, watch_record, moved>>
        /\ pc = "close" /\ pc' = "join"
    BY <1>3 DEF DetectClose, CloseHandle, At, users, history
  <2>2. moved = <<>>
    BY <1>0, <2>1 DEF RecordsOnce, Rewatching
  <2>3. \A w \in Watch : NoNewChain(w)
    BY <2>1, FailChain DEF TypeOK
  <2> QED BY <2>1, <2>2, <2>3, SingleQuiet DEF Replacing
<1>4. CASE ConnectServer
  <2>1. /\ sent' = <<>> /\ watching' = {} /\ completions' = <<>>
        /\ UNCHANGED <<call, late, watch_record, moved>>
        /\ pc = "connect" /\ pc' = "wait"
    BY <1>4 DEF ConnectServer, At, users
  <2>2. moved = <<>>
    BY <1>0, <2>1 DEF RecordsOnce, Rewatching
  <2>3. RecordsOnce' /\ ToRewatch' = {}
    BY <1>0, <2>1, <2>2 DEF RecordsOnce, ToRewatch
  <2>4. ASSUME NEW w \in Watch \ late'
        PROVE  (OnePlace(w) /\ Unsent(w) /\ NotUnderWay(w) /\ FreshHandle(w) /\ NotYet(w))'
    <3>1. ~OnHandle(w)' /\ OnePlace(w)'
      BY <2>1, EmptySent, EmptyFired DEF OnHandle, OnePlace, HasWatch, WatchOnce
    <3>2. NotUnderWay(w)'
      BY <2>1 DEF SingleInv, NotUnderWay, Replacing
    <3> QED BY <2>3, <3>1, <3>2 DEF Unsent, FreshHandle, NotYet
  <2> QED BY <2>3, <2>4 DEF SingleInv
<1>5. CASE RewatchTake
  <2>1. /\ UNCHANGED <<sent, watching, completions, call, late>>
        /\ pc = "take" /\ pc' = "rewatch"
        /\ moved' \in Orders(Recorded)
        /\ watch_record' = [p \in Path |-> NoWatch]
    BY <1>5 DEF RewatchTake, At, io, queue, users
  <2>2. /\ \A i \in DOMAIN moved' : moved'[i] \in Recorded
        /\ \A i, j \in DOMAIN moved' : moved'[i] = moved'[j] => i = j
    BY <2>1, OrdersOnce
  <2>3. \A w \in Recorded : call[w] # "idle"
    BY <1>0 DEF Recorded, RecordsOnce
  <2>4. RecordsOnce'
    BY <2>1, <2>2, <2>3 DEF RecordsOnce, Rewatching
  <2>5. \A w \in ToRewatch' : call[w] # "idle"
    BY <2>2, <2>3 DEF ToRewatch
  <2>6. ASSUME NEW w \in Watch \ late'
        PROVE  (OnePlace(w) /\ Unsent(w) /\ NotUnderWay(w) /\ FreshHandle(w) /\ NotYet(w))'
    <3>1. OnePlace(w) /\ NotUnderWay(w) /\ FreshHandle(w)
      BY <2>1 DEF SingleInv
    <3>2. ~OnHandle(w) /\ call[w] # "recorded"
      BY <2>1, <3>1 DEF NotUnderWay, FreshHandle, Replacing
    <3>3. OnePlace(w)' /\ ~OnHandle(w)'
      BY <2>1, <3>1, <3>2, SameHandle
    <3> QED BY <2>1, <2>5, <3>2, <3>3 DEF Unsent, NotUnderWay, FreshHandle, NotYet, Replacing
  <2> QED BY <2>4, <2>6 DEF SingleInv
<1>6. CASE RewatchRecord
  <2>1. /\ UNCHANGED <<sent, watching, completions, call, late, moved>>
        /\ pc = "rewatch" /\ pc' = "send" /\ moved # <<>>
        /\ watch_record' = [watch_record EXCEPT ![PathOf[Head(moved)]] = Head(moved)]
    BY <1>6 DEF RewatchRecord, Restored, Current, At, io, queue, users
  <2>2. Head(moved) = moved[1] /\ 1 \in DOMAIN moved
    BY <1>0, <2>1, TailIn
  <2>3. \A p \in Path : watch_record'[p] \in {watch_record[p], Head(moved)}
    BY <2>1 DEF TypeOK
  <2>4. RecordsOnce'
    BY <1>0, <2>1, <2>2, <2>3 DEF RecordsOnce, Rewatching
  <2>5. ToRewatch' = ToRewatch
    BY <2>1 DEF ToRewatch
  <2>6. ASSUME NEW w \in Watch \ late'
        PROVE  (OnePlace(w) /\ Unsent(w) /\ NotUnderWay(w) /\ FreshHandle(w) /\ NotYet(w))'
    <3>1. OnePlace(w) /\ Unsent(w) /\ NotYet(w)
      BY <2>1 DEF SingleInv
    <3>2. OnePlace(w)' /\ (OnHandle(w)' <=> OnHandle(w))
      BY <2>1, <3>1, SameHandle
    <3> QED BY <2>1, <2>5, <3>1, <3>2 DEF Unsent, NotUnderWay, FreshHandle, NotYet, Replacing
  <2> QED BY <2>4, <2>6 DEF SingleInv
<1>7. CASE RewatchSend
  <2> DEFINE c == Head(moved)
             d == <<c, "rewatch">>
  <2>1. /\ UNCHANGED <<watching, completions, call, late, moved, watch_record>>
        /\ pc = "send" /\ pc' = "emplace"
        /\ Submit([op |-> "exists", d |-> d])
    BY <1>7 DEF RewatchSend, Current, At, queue, users
  <2>2. moved # <<>>
    BY <2>1 DEF MovedHead
  <2>3. c \in Watch /\ c = moved[1] /\ 1 \in DOMAIN moved
    BY <1>0, <2>2, TailIn
  <2> HIDE DEF c
  <2>4. d \in UserData
    BY <2>3 DEF UserData
  <2>5. RecordsOnce'
    BY <1>0, <2>1 DEF RecordsOnce, Rewatching
  <2>6. c \in ToRewatch /\ c \notin ToRewatch' /\ ToRewatch' \subseteq ToRewatch
    BY <1>0, <2>1, <2>3 DEF ToRewatch, RecordsOnce
  <2>7. ASSUME NEW w \in Watch \ late'
        PROVE  (OnePlace(w) /\ Unsent(w) /\ NotUnderWay(w) /\ FreshHandle(w) /\ NotYet(w))'
    <3>1. OnePlace(w) /\ Unsent(w) /\ NotYet(w)
      BY <2>1 DEF SingleInv
    <3>2. CASE w = c
      <4>1. ~OnHandle(w) /\ call[w] \notin {"idle", "recorded"}
        BY <2>6, <3>1, <3>2 DEF Unsent, NotYet
      <4>2. OnePlace(w)'
        BY <2>1, <2>4, <4>1, SubmitChain
      <4> QED BY <2>1, <2>6, <3>2, <4>1, <4>2 DEF Unsent, NotUnderWay, FreshHandle, NotYet, Replacing
    <3>3. CASE w # c
      <4>1. d \notin DataOf(w)
        BY <3>3 DEF DataOf
      <4>2. NoNewChain(w)
        BY <2>1, <2>4, <4>1, SubmitChain
      <4>3. OnePlace(w)' /\ (OnHandle(w)' => OnHandle(w))
        BY <3>1, <4>2 DEF NoNewChain
      <4> QED BY <2>1, <2>6, <3>1, <4>3 DEF Unsent, NotUnderWay, FreshHandle, NotYet, Replacing
    <3> QED BY <3>2, <3>3
  <2> QED BY <2>5, <2>7 DEF SingleInv
<1>8. CASE RewatchEmplace
  <2>1. /\ UNCHANGED <<sent, watching, completions, call, late, watch_record>>
        /\ pc = "emplace" /\ pc' = "rewatch" /\ moved' = Tail(moved)
    BY <1>8 DEF RewatchEmplace, Remaining, At, io, queue, users, history
  <2>2. moved # <<>>
    BY <2>1 DEF MovedHead
  <2>3. /\ Len(moved) \in Nat \ {0} /\ DOMAIN moved = 1 .. Len(moved)
        /\ DOMAIN Tail(moved) = 1 .. Len(moved) - 1
        /\ \A i \in 1 .. Len(moved) - 1 : Tail(moved)[i] = moved[i + 1]
    <3>1. Len(moved) \in Nat \ {0} /\ DOMAIN moved = 1 .. Len(moved)
      BY <1>0, <2>2, EmptySeq, LenProperties
    <3>2. /\ Tail(moved) \in Seq(Watch) /\ Len(Tail(moved)) = Len(moved) - 1
          /\ \A i \in 1 .. Len(Tail(moved)) : Tail(moved)[i] = moved[i + 1]
      BY <1>0, <2>2, HeadTailProperties
    <3> QED BY <3>1, <3>2, LenProperties
  <2>4. \A i \in DOMAIN moved' :
          i \in Nat /\ i + 1 \in DOMAIN moved /\ i + 1 # 1 /\ moved'[i] = moved[i + 1]
    BY <2>1, <2>3
  <2>5. \A i, j \in DOMAIN moved' : i + 1 = j + 1 => i = j
    BY <2>4
  <2>6. RecordsOnce'
    BY <1>0, <2>1, <2>4, <2>5 DEF RecordsOnce, Rewatching
  <2>7. ToRewatch' \subseteq ToRewatch
    BY <2>4 DEF ToRewatch
  <2>8. ASSUME NEW w \in Watch \ late'
        PROVE  (OnePlace(w) /\ Unsent(w) /\ NotUnderWay(w) /\ FreshHandle(w) /\ NotYet(w))'
    <3>1. OnePlace(w) /\ Unsent(w) /\ NotYet(w)
      BY <2>1 DEF SingleInv
    <3>2. OnePlace(w)' /\ (OnHandle(w)' <=> OnHandle(w))
      BY <2>1, <3>1, SameHandle
    <3> QED BY <2>1, <2>7, <3>1, <3>2 DEF Unsent, NotUnderWay, FreshHandle, NotYet, Replacing
  <2> QED BY <2>6, <2>8 DEF SingleInv
<1> QED
  BY <1>1, <1>2, <1>3, <1>4, <1>5, <1>6, <1>7, <1>8 DEF DetectStep

\* Steps of the users and of the destructor.
LEMMA SingleUser ==
    ASSUME TypeOK, SingleInv,
           \/ \E w \in Watch : WatchRecord(w) \/ CallStep(w) \/ RemoveWatches(w)
           \/ Destroy \/ DestructorStep
    PROVE  SingleInv'
<1>0. RecordsOnce /\ call \in [Watch -> {"idle", "recorded", "sent", "done"}] /\ moved \in Seq(Watch)
  BY DEF TypeOK, SingleInv
<1>1. ASSUME NEW v \in Watch, WatchRecord(v) PROVE SingleInv'
  <2>1. /\ UNCHANGED <<sent, watching, completions, pc, moved>>
        /\ call[v] = "idle" /\ call' = [call EXCEPT ![v] = "recorded"]
        /\ watch_record' = [watch_record EXCEPT ![PathOf[v]] = v]
        /\ late' = IF Replacing THEN late \cup {v} ELSE late
    BY <1>1 DEF WatchRecord, io, queue, detect
  <2>2. ToRewatch' = ToRewatch /\ (Replacing' <=> Replacing)
    BY <2>1 DEF ToRewatch, Replacing
  <2>3. \A w \in Watch : call[w] # "idle" => call'[w] = call[w]
    BY <1>0, <2>1
  <2>4. call'[v] = "recorded" /\ \A p \in Path : watch_record'[p] \in {watch_record[p], v}
    BY <1>0, <2>1 DEF TypeOK
  <2>5. \A p \in Path : watch_record[p] # NoWatch => watch_record[p] \in Watch
    BY DEF TypeOK
  <2>6. \A i \in DOMAIN moved : moved[i] \in Watch
    BY <1>0, ElementOfSeq, LenProperties
  <2>7. RecordsOnce'
    BY <1>0, <2>1, <2>3, <2>4, <2>5, <2>6 DEF RecordsOnce
  <2>8. ASSUME NEW w \in Watch \ late'
        PROVE  (OnePlace(w) /\ Unsent(w) /\ NotUnderWay(w) /\ FreshHandle(w) /\ NotYet(w))'
    <3>1. w \in Watch \ late /\ (w = v => ~Replacing)
      BY <2>1
    <3>2. OnePlace(w) /\ Unsent(w) /\ NotUnderWay(w) /\ FreshHandle(w) /\ NotYet(w)
      BY <3>1 DEF SingleInv
    <3>3. OnePlace(w)' /\ (OnHandle(w)' <=> OnHandle(w))
      BY <2>1, <3>2, SameHandle
    <3>4. Unsent(w)' /\ NotYet(w)' /\ FreshHandle(w)'
      BY <1>0, <2>1, <2>2, <3>2, <3>3 DEF Unsent, NotYet, FreshHandle
    <3>5. NotUnderWay(w)'
      BY <1>0, <2>1, <2>2, <3>1, <3>2 DEF NotUnderWay
    <3> QED BY <3>3, <3>4, <3>5
  <2> QED BY <2>7, <2>8 DEF SingleInv
<1>2. ASSUME NEW v \in Watch, WatchSend(v) PROVE SingleInv'
  <2>1. /\ UNCHANGED <<watching, completions, pc, moved, watch_record, late>>
        /\ call[v] = "recorded" /\ call' = [call EXCEPT ![v] = "sent"]
        /\ Submit([op |-> "exists", d |-> <<v, "user">>])
    BY <1>2 DEF WatchSend, queue, detect
  <2>2. ToRewatch' = ToRewatch /\ (Replacing' <=> Replacing)
    BY <2>1 DEF ToRewatch, Replacing
  <2>3. \A w \in Watch : call[w] # "idle" => call'[w] # "idle"
    BY <1>0, <2>1
  <2>4. \A p \in Path : watch_record[p] # NoWatch => watch_record[p] \in Watch
    BY DEF TypeOK
  <2>5. \A i \in DOMAIN moved : moved[i] \in Watch
    BY <1>0, ElementOfSeq, LenProperties
  <2>6. RecordsOnce'
    BY <1>0, <2>1, <2>3, <2>4, <2>5 DEF RecordsOnce
  <2>7. <<v, "user">> \in UserData
    BY DEF UserData
  <2>8. ASSUME NEW w \in Watch \ late'
        PROVE  (OnePlace(w) /\ Unsent(w) /\ NotUnderWay(w) /\ FreshHandle(w) /\ NotYet(w))'
    <3>1. OnePlace(w) /\ Unsent(w) /\ NotUnderWay(w) /\ FreshHandle(w) /\ NotYet(w)
      BY <2>1 DEF SingleInv
    <3>2. CASE w = v
      <4>1. ~OnHandle(w) /\ w \notin ToRewatch /\ ~Replacing
        BY <2>1, <3>1, <3>2 DEF Unsent, NotUnderWay
      <4>2. OnePlace(w)' /\ call'[w] = "sent"
        BY <1>0, <2>1, <2>7, <3>2, <4>1, SubmitChain
      <4> QED
        BY <2>1, <2>2, <4>1, <4>2 DEF Unsent, NotUnderWay, FreshHandle, NotYet, Replacing
    <3>3. CASE w # v
      <4>1. <<v, "user">> \notin DataOf(w)
        BY <3>3 DEF DataOf
      <4>2. NoNewChain(w)
        BY <2>1, <2>7, <4>1, SubmitChain
      <4>3. OnePlace(w)' /\ (OnHandle(w)' => OnHandle(w)) /\ call'[w] = call[w]
        BY <1>0, <2>1, <3>1, <3>3, <4>2 DEF NoNewChain
      <4> QED
        BY <2>1, <2>2, <3>1, <4>3 DEF Unsent, NotUnderWay, FreshHandle, NotYet
    <3> QED BY <3>2, <3>3
  <2> QED BY <2>6, <2>8 DEF SingleInv
<1>3. ASSUME NEW v \in Watch, WatchEmplace(v) PROVE SingleInv'
  <2>1. /\ UNCHANGED <<sent, watching, completions, pc, moved, watch_record, late>>
        /\ call[v] = "sent" /\ call' = [call EXCEPT ![v] = "done"]
    BY <1>3 DEF WatchEmplace, io, queue, detect, history
  <2>2. ToRewatch' = ToRewatch /\ (Replacing' <=> Replacing)
    BY <2>1 DEF ToRewatch, Replacing
  <2>3. \A w \in Watch : /\ call[w] # "idle" => call'[w] # "idle"
                         /\ call'[w] \in {"idle", "recorded"} => call'[w] = call[w]
    BY <1>0, <2>1
  <2>4. \A p \in Path : watch_record[p] # NoWatch => watch_record[p] \in Watch
    BY DEF TypeOK
  <2>5. \A i \in DOMAIN moved : moved[i] \in Watch
    BY <1>0, ElementOfSeq, LenProperties
  <2>6. RecordsOnce'
    BY <1>0, <2>1, <2>3, <2>4, <2>5 DEF RecordsOnce
  <2>7. ASSUME NEW w \in Watch \ late'
        PROVE  (OnePlace(w) /\ Unsent(w) /\ NotUnderWay(w) /\ FreshHandle(w) /\ NotYet(w))'
    <3>1. OnePlace(w) /\ Unsent(w) /\ NotUnderWay(w) /\ FreshHandle(w) /\ NotYet(w)
      BY <2>1 DEF SingleInv
    <3>2. OnePlace(w)' /\ (OnHandle(w)' <=> OnHandle(w))
      BY <2>1, <3>1, SameHandle
    <3> QED BY <2>1, <2>2, <2>3, <3>1, <3>2 DEF Unsent, NotUnderWay, FreshHandle, NotYet
  <2> QED BY <2>6, <2>7 DEF SingleInv
<1>4. ASSUME NEW v \in Watch, RemoveWatches(v) PROVE SingleInv'
  <2>1. UNCHANGED <<pc, moved, watch_record, late, call>>
    BY <1>4 DEF RemoveWatches, detect
  <2> QED BY <1>4, <2>1, RemovalChain, SingleQuiet
<1>5. CASE Destroy \/ DestroyDone
  <2>1. UNCHANGED <<sent, watching, completions, pc, moved, watch_record, late, call>>
    BY <1>5 DEF Destroy, DestroyDone, io, queue, detect, history
  <2> QED BY <2>1, SameHandle, SingleQuiet
<1>6. CASE DestroyClose
  <2>1. FailRequests(completions) /\ UNCHANGED <<watching, pc, moved, watch_record, late, call>>
    BY <1>6 DEF DestroyClose, CloseHandle, detect, history
  <2>2. \A w \in Watch : NoNewChain(w)
    BY <2>1, FailChain DEF TypeOK
  <2> QED BY <2>1, <2>2, SingleQuiet
<1> QED
  BY <1>1, <1>2, <1>3, <1>4, <1>5, <1>6 DEF CallStep, DestructorStep

\* SingleInv is inductive on top of SessionInv.
LEMMA SingleStep == SessionInv /\ SingleInv /\ [Next]_vars => SingleInv'
<1> SUFFICES ASSUME SessionInv, SingleInv, [Next]_vars PROVE SingleInv'
  OBVIOUS
<1>0. TypeOK /\ MovedHead
  BY DEF SessionInv
<1>1. CASE UNCHANGED vars
  <2>1. UNCHANGED <<sent, watching, completions, pc, moved, watch_record, late, call>>
    BY <1>1 DEF vars, io, queue, detect, users, history
  <2> QED BY <2>1, SameHandle, SingleQuiet
<1> QED
  BY <1>0, <1>1, SingleServe, SingleDetect, SingleUser DEF Next

\* The first state has no chains.
LEMMA SingleInit == Init => SingleInv
<1> SUFFICES ASSUME Init PROVE SingleInv
  OBVIOUS
<1>1. /\ sent = <<>> /\ watching = {} /\ completions = <<>> /\ moved = <<>> /\ pc = "connect"
      /\ \A w \in Watch : call[w] = "idle"
      /\ \A p \in Path : watch_record[p] = NoWatch
  BY DEF Init
<1>2. RecordsOnce /\ ToRewatch = {}
  BY <1>1 DEF RecordsOnce, ToRewatch
<1>3. ASSUME NEW w \in Watch PROVE OnePlace(w) /\ ~OnHandle(w)
  BY <1>1, EmptySent, EmptyFired DEF OnHandle, OnePlace, HasWatch, WatchOnce
<1> QED
  BY <1>1, <1>2, <1>3 DEF SingleInv, Unsent, NotUnderWay, FreshHandle, NotYet

\* A chain that is in one place has one place at most.
LEMMA PlaceOnce ==
    ASSUME NEW w \in Watch, OnePlace(w), NEW a \in Chains(w), NEW b \in Chains(w)
    PROVE  a = b
<1>1. ASSUME NEW x \in Chains(w)
      PROVE  \E d \in DataOf(w) :
               \/ \E i \in DOMAIN sent : x = <<d, "sent", i>> /\ Asks(sent[i], w) /\ sent[i].d = d
               \/ x = <<d, "watching", 0>> /\ d \in watching
               \/ \E i \in DOMAIN completions : x = <<d, "fired", i>> /\ Fires(completions[i], d)
  BY <1>1 DEF Chains, Places, DataOf, Asks, Fires
<1>2. PICK d \in DataOf(w) :
         \/ \E i \in DOMAIN sent : a = <<d, "sent", i>> /\ Asks(sent[i], w) /\ sent[i].d = d
         \/ a = <<d, "watching", 0>> /\ d \in watching
         \/ \E i \in DOMAIN completions : a = <<d, "fired", i>> /\ Fires(completions[i], d)
  BY <1>1
<1>3. PICK e \in DataOf(w) :
         \/ \E i \in DOMAIN sent : b = <<e, "sent", i>> /\ Asks(sent[i], w) /\ sent[i].d = e
         \/ b = <<e, "watching", 0>> /\ e \in watching
         \/ \E i \in DOMAIN completions : b = <<e, "fired", i>> /\ Fires(completions[i], e)
  BY <1>1
<1>4. CASE HasSent(sent, w)
  <2>1. ~HasFired(completions, w) /\ ~HasWatch(watching, w) /\ SentOnce(sent, w)
    BY <1>4 DEF OnePlace
  <2>2. PICK i \in DOMAIN sent : a = <<d, "sent", i>> /\ Asks(sent[i], w) /\ sent[i].d = d
    BY <1>2, <2>1 DEF HasFired, HasWatch
  <2>3. PICK j \in DOMAIN sent : b = <<e, "sent", j>> /\ Asks(sent[j], w) /\ sent[j].d = e
    BY <1>3, <2>1 DEF HasFired, HasWatch
  <2> QED BY <2>1, <2>2, <2>3 DEF SentOnce
<1>5. CASE HasWatch(watching, w)
  <2>1. ~HasFired(completions, w) /\ ~HasSent(sent, w) /\ WatchOnce(watching, w)
    BY <1>5 DEF OnePlace
  <2>2. a = <<d, "watching", 0>> /\ d \in watching
    BY <1>2, <2>1 DEF HasFired, HasSent
  <2>3. b = <<e, "watching", 0>> /\ e \in watching
    BY <1>3, <2>1 DEF HasFired, HasSent
  <2> QED BY <2>1, <2>2, <2>3 DEF WatchOnce
<1>6. CASE ~HasSent(sent, w) /\ ~HasWatch(watching, w)
  <2>1. FiredOnce(completions, w)
    BY DEF OnePlace
  <2>2. PICK i \in DOMAIN completions : a = <<d, "fired", i>> /\ Fires(completions[i], d)
    BY <1>2, <1>6 DEF HasSent, HasWatch
  <2>3. PICK j \in DOMAIN completions : b = <<e, "fired", j>> /\ Fires(completions[j], e)
    BY <1>3, <1>6 DEF HasSent, HasWatch
  <2> QED BY <2>1, <2>2, <2>3 DEF FiredOnce
<1> QED BY <1>4, <1>5, <1>6

\* However often the session expires, a call that was not under way while the
\* handle was replaced has one watch chain at most: its callback runs once per
\* change (config_monitor.hpp:95-115).
THEOREM WatchedOnce == Spec => []NoDoubleWatch
<1>1. Init => SessionInv /\ SingleInv
  BY InvInit, SingleInit
<1>2. SessionInv /\ SingleInv /\ [Next]_vars => (SessionInv /\ SingleInv)'
  BY InvStep, SingleStep
<1>3. SingleInv => NoDoubleWatch
  BY PlaceOnce DEF SingleInv, NoDoubleWatch
<1> QED
  BY <1>1, <1>2, <1>3, PTL DEF Spec

-----------------------------------------------------------------------------
(***************************************************************************)
(* A finished call is watched on the present handle.  A call counts as     *)
(* long as it is the only one for its path and its removal was not asked   *)
(* for.                                                                    *)
(***************************************************************************)
Counted(w) == Alone(w) /\ removal[PathOf[w]] = "none"

\* Its record is in watch_record_, or among the records moved out and not yet
\* put back.
StillMoved(w) == \E i \in DOMAIN moved : moved[i] = w /\ (pc \in {"send", "emplace"} => i # 1)
RecordKept(w) == call[w] # "idle" => watch_record[PathOf[w]] = w \/ StillMoved(w)

\* Its chain is on a handle that accepts requests, was lost there with a
\* connection, or will be started by the rewatch.
Rearmed == pc \in {"wait", "auth", "take"}
Watched(w) == OnHandle(w) \/ w \in failed
ChainKept(w) ==
    Accepts /\ call[w] \in {"sent", "done"} => Watched(w) \/ Rearmed \/ w \in ToRewatch

\* A removal is requested only after it was asked for.
Harmless(r) == r.op = "remove" => removal[PathOf[r.d[1]]] # "none"
RemovalsAsked == \A i \in DOMAIN sent : Harmless(sent[i])

NoCallsYet == ~started => \A w \in Watch : call[w] = "idle"

BackInv ==
    /\ NoCallsYet
    /\ RemovalsAsked
    /\ \A w \in Watch : Counted(w) => RecordKept(w) /\ ChainKept(w)

\* A step keeps the chain of w, or nothing of the handle can be used after it.
KeepsChain(w) == Accepts' => Accepts /\ (Watched(w) => Watched(w)')

\* Steps that make no call and leave the records alone, or end the phase in
\* which all records are to be watched again.
LEMMA BackQuiet ==
    ASSUME BackInv, RemovalsAsked', UNCHANGED <<call, moved>>, started => started',
           \A w \in Watch : Counted(w)' => Counted(w) /\ KeepsChain(w)
                                           /\ watch_record'[PathOf[w]] = watch_record[PathOf[w]],
           \/ UNCHANGED pc
           \/ moved = <<>> /\ (Rearmed => Rearmed' \/ \A w \in Watch : call[w] = "idle")
    PROVE  BackInv'
<1>1. NoCallsYet'
  BY DEF BackInv, NoCallsYet
<1>2. \A w \in Watch : StillMoved(w) => StillMoved(w)'
  BY DEF StillMoved
<1>3. ToRewatch \subseteq ToRewatch'
  BY DEF ToRewatch
<1>4. ASSUME NEW w \in Watch, Counted(w)' PROVE RecordKept(w)' /\ ChainKept(w)'
  <2>1. /\ RecordKept(w) /\ ChainKept(w) /\ KeepsChain(w)
        /\ watch_record'[PathOf[w]] = watch_record[PathOf[w]]
    BY <1>4 DEF BackInv
  <2>2. RecordKept(w)'
    BY <1>2, <2>1 DEF RecordKept
  <2>3. ChainKept(w)'
    BY <1>3, <2>1 DEF ChainKept, KeepsChain, Rearmed
  <2> QED BY <2>2, <2>3
<1> QED BY <1>1, <1>4 DEF BackInv

\* What stays on the handle when the oldest request or completion is taken.
LEMMA TailAsks ==
    ASSUME NEW S, NEW q \in Seq(S), q # <<>>, NEW w
    PROVE  /\ HasSent(q, w) => HasSent(Tail(q), w) \/ Asks(Head(q), w)
           /\ HasFired(q, w) => HasFired(Tail(q), w) \/ \E d \in DataOf(w) : Fires(Head(q), d)
           /\ \A i \in DOMAIN Tail(q) : \E j \in DOMAIN q : Tail(q)[i] = q[j]
<1> DEFINE r == Tail(q)
<1>1. Len(q) \in Nat \ {0} /\ DOMAIN q = 1 .. Len(q)
  BY EmptySeq, LenProperties
<1>2. /\ Head(q) = q[1]
      /\ Len(r) = Len(q) - 1
      /\ r \in Seq(S)
      /\ \A i \in 1 .. Len(r) : r[i] = q[i + 1]
  BY HeadTailProperties
<1>3. DOMAIN r = 1 .. Len(q) - 1
  BY <1>1, <1>2, LenProperties
<1>4. \A i \in DOMAIN q : q[i] = Head(q) \/ \E j \in DOMAIN r : r[j] = q[i]
  <2> TAKE i \in DOMAIN q
  <2>1. i = 1 \/ (i - 1 \in DOMAIN r /\ (i - 1) + 1 = i)
    BY <1>1, <1>3
  <2> QED BY <1>2, <1>3, <2>1
<1>5. \A i \in DOMAIN r : i + 1 \in DOMAIN q /\ r[i] = q[i + 1]
  BY <1>1, <1>2, <1>3
<1> HIDE DEF r
<1> QED BY <1>4, <1>5 DEF r, HasSent, HasFired

\* What is on the handle stays when more is put behind it.
LEMMA ConcatFired ==
    ASSUME NEW S, NEW q \in Seq(S), NEW r \in Seq(S), NEW w, HasFired(q, w)
    PROVE  HasFired(q \o r, w)
<1>1. /\ q \o r \in Seq(S)
      /\ Len(q \o r) = Len(q) + Len(r)
      /\ \A i \in 1 .. Len(q) + Len(r) :
           (q \o r)[i] = IF i <= Len(q) THEN q[i] ELSE r[i - Len(q)]
  BY ConcatProperties
<1>2. /\ Len(q) \in Nat /\ DOMAIN q = 1 .. Len(q) /\ Len(r) \in Nat
      /\ DOMAIN (q \o r) = 1 .. Len(q) + Len(r)
  BY <1>1, LenProperties
<1>3. \A i \in DOMAIN q : i \in DOMAIN (q \o r) /\ (q \o r)[i] = q[i]
  BY <1>1, <1>2
<1> QED BY <1>3 DEF HasFired


\* The handle's part in the chain of w is unchanged.
LEMMA SameKeeps ==
    ASSUME UNCHANGED <<sent, watching, completions>>, NEW w, failed \subseteq failed', Accepts' => Accepts
    PROVE  KeepsChain(w)
  BY DEF KeepsChain, Watched, OnHandle

\* Failing the outstanding requests is remembered in failed.
LEMMA FailKeeps ==
    ASSUME TypeOK, NEW q \in Seq(Completion), FailRequests(q), UNCHANGED watching, NEW w \in Watch,
           HasFired(completions, w) => HasFired(q, w), failed' = failed \cup FailedWatches
    PROVE  Watched(w) => Watched(w)'
<1>1. completions' = q \o sent
  BY DEF FailRequests
<1>2. sent \in Seq(Completion)
  <2>1. Request \subseteq Completion
    BY DEF Completion
  <2> QED BY <2>1, SeqMonotonic DEF TypeOK
<1>3. HasFired(completions, w) => HasFired(completions', w)
  BY <1>1, <1>2, ConcatFired
<1>4. HasSent(sent, w) => w \in failed'
  BY DEF HasSent, Asks, DataOf, FailedWatches
<1> QED BY <1>3, <1>4 DEF Watched, OnHandle, HasWatch

\* Steps of the IO thread keep the chains whose removal was not asked for.
LEMMA BackIo ==
    ASSUME TypeOK, RecordsOnce, BackInv, IoStep
    PROVE  BackInv'
<1>0. completions \in Seq(Completion) /\ sent \in Seq(Request)
  BY DEF TypeOK
<1>1. UNCHANGED <<call, moved, started, watch_record, removal>>
  BY DEF IoStep, IoConnect, IoLose, IoAttemptFails, IoExpire, IoAnswer, IoEvent, users, detect
<1>2. \/ UNCHANGED pc
      \/ moved = <<>> /\ ~Rearmed
  <2>1. UNCHANGED pc \/ pc = "probing"
    BY DEF IoStep, IoConnect, IoLose, IoAttemptFails, IoExpire, IoAnswer, IoEvent, ProbeReturns, detect
  <2> QED BY <2>1 DEF RecordsOnce, Rewatching, Rearmed
<1>3. \A w \in Watch : Counted(w)' = Counted(w)
  BY <1>1 DEF Counted, Alone
<1>4. SUFFICES /\ RemovalsAsked'
               /\ \A w \in Watch : Counted(w) => KeepsChain(w)
  BY <1>1, <1>2, <1>3, BackQuiet
<1>5. RemovalsAsked /\ \A r : Harmless(r)' = Harmless(r)
  BY <1>1 DEF BackInv, Harmless
<1>6. CASE IoConnect
  <2>1. /\ completions' = Append(completions, SessionEvent("connected"))
        /\ UNCHANGED <<sent, watching, failed, life>> /\ sess # "expired"
    BY <1>6 DEF IoConnect, history
  <2>2. SessionEvent("connected") \in Completion
    BY DEF SessionEvent, Completion
  <2>3. \A w : HasFired(completions, w) => HasFired(completions', w)
    BY <1>0, <2>1, <2>2, FiredAppend
  <2>4. RemovalsAsked'
    BY <1>5, <2>1 DEF RemovalsAsked
  <2> QED BY <2>1, <2>3, <2>4 DEF KeepsChain, Watched, OnHandle, Accepts
<1>7. CASE IoLose
  <2> DEFINE q == Append(completions, SessionEvent("connecting"))
  <2>1. /\ FailRequests(q) /\ UNCHANGED <<watching, life>> /\ sess = "connected"
        /\ failed' = failed \cup FailedWatches
    BY <1>7 DEF IoLose
  <2>2. SessionEvent("connecting") \in Completion /\ q \in Seq(Completion)
    BY <1>0, AppendProperties DEF SessionEvent, Completion
  <2>3. \A w : HasFired(completions, w) => HasFired(q, w)
    BY <1>0, <2>2, FiredAppend
  <2> HIDE DEF q
  <2>4. RemovalsAsked'
    BY <2>1 DEF RemovalsAsked, FailRequests
  <2>5. \A w \in Watch : Watched(w) => Watched(w)'
    BY <2>1, <2>2, <2>3, FailKeeps
  <2> QED BY <2>1, <2>4, <2>5 DEF KeepsChain, Accepts
<1>8. CASE IoAttemptFails
  <2>1. /\ FailRequests(completions) /\ UNCHANGED <<watching, life, sess>>
        /\ failed' = failed \cup FailedWatches
    BY <1>8 DEF IoAttemptFails
  <2>2. RemovalsAsked'
    BY <2>1 DEF RemovalsAsked, FailRequests
  <2>3. \A w \in Watch : Watched(w) => Watched(w)'
    BY <1>0, <2>1, FailKeeps
  <2> QED BY <2>1, <2>2, <2>3 DEF KeepsChain, Accepts
<1>9. CASE IoExpire
  <2>1. sent' = <<>> /\ sess' = "expired"
    BY <1>9 DEF IoExpire, FailRequests
  <2> QED BY <2>1 DEF RemovalsAsked, KeepsChain, Accepts
<1>10. CASE IoAnswer
  <2> DEFINE r == Head(sent)
  <2>1. /\ sent # <<>> /\ sent' = Tail(sent)
        /\ completions' = Append(completions, r)
        /\ watching' = IF r.op = "exists" THEN watching \cup {r.d}
                       ELSE watching \ WatchersOn(PathOf[r.d[1]])
        /\ UNCHANGED <<life, sess, failed>>
    BY <1>10 DEF IoAnswer, history
  <2>2. r \in Request /\ r \in Completion /\ r = sent[1] /\ 1 \in DOMAIN sent
    BY <1>0, <2>1, TailIn DEF Completion
  <2>3. /\ \A w : HasSent(sent, w) => HasSent(sent', w) \/ Asks(r, w)
        /\ \A i \in DOMAIN sent' : \E j \in DOMAIN sent : sent'[i] = sent[j]
    BY <1>0, <2>1, TailAsks
  <2>4. Harmless(r)
    BY <1>5, <2>2 DEF RemovalsAsked
  <2>5. RemovalsAsked'
    BY <1>5, <2>3 DEF RemovalsAsked
  <2> HIDE DEF r
  <2>6. \A w : HasFired(completions, w) => HasFired(completions', w)
    BY <1>0, <2>1, <2>2, FiredAppend
  <2>7. ASSUME NEW w \in Watch, Counted(w) PROVE Watched(w) => Watched(w)'
    <3>1. CASE r.op = "exists"
      <4>1. HasWatch(watching, w) \/ Asks(r, w) => HasWatch(watching', w)
        BY <2>1, <3>1 DEF HasWatch, Asks
      <4> QED BY <2>1, <2>3, <2>6, <4>1 DEF Watched, OnHandle
    <3>2. CASE r.op # "exists"
      <4>1. r.op = "remove" /\ ~Asks(r, w)
        BY <2>2, <3>2 DEF Request, Asks
      <4>2. PathOf[w] # PathOf[r.d[1]]
        BY <2>4, <2>7, <4>1 DEF Harmless, Counted
      <4>3. \A d \in DataOf(w) : d \notin WatchersOn(PathOf[r.d[1]])
        BY <4>2 DEF DataOf, WatchersOn
      <4>4. HasWatch(watching, w) => HasWatch(watching', w)
        BY <2>1, <3>2, <4>3 DEF HasWatch
      <4> QED BY <2>1, <2>3, <2>6, <4>1, <4>4 DEF Watched, OnHandle
    <3> QED BY <3>1, <3>2
  <2> QED BY <2>1, <2>5, <2>7 DEF KeepsChain, Accepts
<1>11. ASSUME NEW p \in Path, IoEvent(p)
       PROVE  RemovalsAsked' /\ \A w \in Watch : KeepsChain(w)
  <2> DEFINE fired == watching \cap WatchersOn(p)
             c == [op |-> "event", ds |-> fired]
  <2>1. /\ completions' = Append(completions, c) /\ watching' = watching \ fired
        /\ UNCHANGED <<sent, life, sess, failed>>
    BY <1>11 DEF IoEvent, history
  <2>2. c \in Completion
    BY DEF Completion, TypeOK
  <2>3. \A d : Fires(c, d) <=> d \in fired
    BY DEF Fires
  <2> HIDE DEF c, fired
  <2>4. \A w : HasFired(completions', w) <=> HasFired(completions, w) \/ \E d \in DataOf(w) : Fires(c, d)
    BY <1>0, <2>1, <2>2, FiredAppend
  <2>5. \A w : HasWatch(watching, w) => HasWatch(watching', w) \/ HasFired(completions', w)
    BY <2>1, <2>3, <2>4 DEF HasWatch
  <2>6. RemovalsAsked'
    BY <1>5, <2>1 DEF RemovalsAsked
  <2> QED BY <2>1, <2>4, <2>5, <2>6 DEF KeepsChain, Watched, OnHandle, Accepts
<1> QED
  BY <1>6, <1>7, <1>8, <1>9, <1>10, <1>11 DEF IoStep


\* Delivering an event leaves the events of other calls.
LEMMA DeliveredOthers ==
    ASSUME TypeOK, NEW d \in UserData, RunEvent(d), NEW w, d \notin DataOf(w), HasFired(completions, w)
    PROVE  HasFired(completions', w)
<1> DEFINE ds == Head(completions).ds
           rest == [completions EXCEPT ![1].ds = @ \ {d}]
<1>1. completions # <<>> /\ Head(completions).op = "event" /\ d \in ds
  BY DEF RunEvent, Runs
<1>2. completions \in Seq(Completion)
  BY DEF TypeOK
<1>3. Head(completions) \in Completion /\ Head(completions) = completions[1] /\ 1 \in DOMAIN completions
  BY <1>1, <1>2, TailIn
<1>4. Head(completions) = [op |-> "event", ds |-> ds]
  BY <1>1, <1>3 DEF Completion, Request
<1>5. CASE ds = {d}
  <2>1. completions' = Tail(completions)
    BY <1>5 DEF RunEvent
  <2>2. \A e \in DataOf(w) : ~Fires(Head(completions), e)
    BY <1>5 DEF Fires
  <2> QED BY <1>1, <1>2, <2>1, <2>2, TailAsks
<1>6. CASE ds # {d}
  <2>1. completions' = rest
    BY <1>6 DEF RunEvent
  <2>2. rest = [completions EXCEPT ![1] = [op |-> "event", ds |-> ds \ {d}]]
    <3>1. [completions[1] EXCEPT !.ds = @ \ {d}] = [op |-> "event", ds |-> ds \ {d}]
      BY <1>3, <1>4
    <3>2. rest = [completions EXCEPT ![1] = [completions[1] EXCEPT !.ds = @ \ {d}]]
      BY Zenon
    <3> QED BY <3>1, <3>2, Zenon
  <2>3. /\ DOMAIN completions' = DOMAIN completions
        /\ completions'[1] = [op |-> "event", ds |-> ds \ {d}]
        /\ \A i \in DOMAIN completions : i # 1 => completions'[i] = completions[i]
    BY <1>2, <1>3, <2>1, <2>2
  <2>4. PICK i \in DOMAIN completions, e \in DataOf(w) : Fires(completions[i], e)
    BY DEF HasFired
  <2>5. Fires(completions'[i], e)
    <3>1. CASE i = 1
      BY <1>3, <2>3, <2>4, <3>1 DEF Fires
    <3>2. CASE i # 1
      BY <2>3, <2>4, <3>2
    <3> QED BY <3>1, <3>2
  <2> QED BY <2>3, <2>5 DEF HasFired
<1> QED BY <1>5, <1>6

\* Requests that were not refused are sent.
LEMMA SubmitKeeps ==
    ASSUME TypeOK, NEW r \in Request, Submit(r), RemovalsAsked, Harmless(r), UNCHANGED removal
    PROVE  /\ RemovalsAsked'
           /\ \A w : HasSent(sent, w) => HasSent(sent', w)
           /\ \A w : Accepts /\ Asks(r, w) => HasSent(sent', w)
<1>1. sent' = IF Accepts THEN Append(sent, r) ELSE sent
  BY DEF Submit
<1>2. \A w : HasSent(Append(sent, r), w) <=> HasSent(sent, w) \/ Asks(r, w)
  BY SentAppend DEF TypeOK
<1>3. \A x : Harmless(x)' = Harmless(x)
  BY DEF Harmless
<1>4. \A i \in DOMAIN sent' : sent'[i] = r \/ \E j \in DOMAIN sent : sent'[i] = sent[j]
  BY <1>1, AppendAt DEF TypeOK
<1>5. RemovalsAsked'
  BY <1>3, <1>4 DEF RemovalsAsked
<1> QED BY <1>1, <1>2, <1>5

\* Steps of the completion thread: an event becomes a request, because its
\* user data is still there; a removal takes away the record only when it was
\* asked for.
LEMMA BackCompletion ==
    ASSUME SessionInv, BackInv, CompletionStep
    PROVE  BackInv'
<1>0. TypeOK /\ completions \in Seq(Completion) /\ sent \in Seq(Request) /\ RemovalsAsked
  BY DEF SessionInv, TypeOK, BackInv
<1>1. UNCHANGED <<call, moved, started, pc, life, sess, watching, failed>>
  BY DEF CompletionStep, ThreadEnter, ThreadLeave, ThreadExit, RunSession, RunExists,
     RunRemove, RunEvent, users, detect, io, history
<1>2. Accepts' = Accepts
  BY <1>1 DEF Accepts
<1>3. CASE ThreadEnter \/ ThreadLeave \/ ThreadExit
  <2>1. UNCHANGED <<sent, completions, watch_record, removal>>
    BY <1>3 DEF ThreadEnter, ThreadLeave, ThreadExit, users, io
  <2>2. RemovalsAsked'
    BY <1>0, <2>1 DEF RemovalsAsked, Harmless
  <2>3. \A w \in Watch : Counted(w)' => Counted(w) /\ KeepsChain(w)
    BY <1>1, <1>2, <2>1, SameKeeps DEF Counted, Alone
  <2> QED BY <1>1, <2>1, <2>2, <2>3, BackQuiet
<1>4. CASE RunSession \/ RunExists \/ RunRemove
  <2>1. /\ completions # <<>> /\ completions' = Tail(completions) /\ UNCHANGED sent
        /\ Head(completions).op # "event"
    BY <1>4 DEF RunSession, RunExists, RunRemove, Runs, io
  <2>2. \A w : HasFired(completions, w) => HasFired(completions', w)
    BY <1>0, <2>1, TailAsks DEF Fires
  <2>3. \A w \in Watch : KeepsChain(w)
    BY <1>1, <1>2, <2>1, <2>2 DEF KeepsChain, Watched, OnHandle
  <2>4. \/ UNCHANGED <<watch_record, removal>>
        \/ \E p \in Path : /\ watch_record' = [watch_record EXCEPT ![p] = NoWatch]
                           /\ removal' = [removal EXCEPT ![p] = "returned"]
    <3>1. CASE RunSession \/ RunExists
      BY <3>1 DEF RunSession, RunExists, users
    <3>2. CASE RunRemove
      <4> DEFINE p == PathOf[Head(completions).d[1]]
      <4>1. /\ watch_record' = [watch_record EXCEPT ![p] = NoWatch]
            /\ removal' = [removal EXCEPT ![p] = "returned"]
            /\ Head(completions).op = "remove"
        BY <3>2 DEF RunRemove, Runs
      <4>2. Head(completions) \in Completion
        BY <1>0, <2>1, TailIn
      <4>3. p \in Path
        BY <4>1, <4>2 DEF Completion, Request, UserData
      <4> QED BY <4>1, <4>3
    <3> QED BY <1>4, <3>1, <3>2
  <2>5. \A p \in Path : removal'[p] = "none" => removal[p] = "none" /\ watch_record'[p] = watch_record[p]
    BY <1>0, <2>4 DEF TypeOK
  <2>6. \A w \in Watch : Counted(w)' => Counted(w) /\ watch_record'[PathOf[w]] = watch_record[PathOf[w]]
    BY <2>5 DEF Counted, Alone
  <2>7. RemovalsAsked'
    <3>1. \A i \in DOMAIN sent : sent[i].op = "remove" => PathOf[sent[i].d[1]] \in Path
      <4> TAKE i \in DOMAIN sent
      <4>1. sent[i] \in Request
        BY <1>0, ElementOfSeq, LenProperties
      <4> QED BY <4>1 DEF Request, UserData
    <3> QED BY <1>0, <2>1, <2>5, <3>1 DEF RemovalsAsked, Harmless
  <2> QED BY <1>1, <2>3, <2>6, <2>7, BackQuiet
<1>5. ASSUME NEW d \in UserData, RunEvent(d) PROVE BackInv'
  <2> DEFINE r == [op |-> "exists", d |-> d]
  <2>1. UNCHANGED <<watch_record, removal>>
    BY <1>5 DEF RunEvent, users
  <2>2. Accepts => Alive(d)
    <3>1. Pointed(d)
      BY <1>0, <1>5, EventDelivered DEF Pointed
    <3> QED BY <3>1 DEF SessionInv, DataKept, Changing, ChangeOver, Accepts
  <2>3. Submit(r) \/ (UNCHANGED sent /\ ~Accepts)
    BY <1>5, <2>2 DEF RunEvent
  <2>4. r \in Request /\ Harmless(r)
    BY DEF Request, Harmless
  <2>5. \A w : Asks(r, w) <=> d \in DataOf(w)
    BY DEF Asks
  <2> HIDE DEF r
  <2>6. /\ RemovalsAsked'
        /\ \A w : HasSent(sent, w) => HasSent(sent', w)
        /\ \A w : Accepts /\ Asks(r, w) => HasSent(sent', w)
    <3>1. CASE Submit(r)
      BY <1>0, <2>1, <2>4, <3>1, SubmitKeeps
    <3>2. CASE UNCHANGED sent /\ ~Accepts
      BY <1>0, <2>1, <3>2 DEF RemovalsAsked, Harmless
    <3> QED BY <2>3, <3>1, <3>2
  <2>7. ASSUME NEW w \in Watch PROVE KeepsChain(w)
    <3>1. CASE d \in DataOf(w)
      BY <1>2, <2>5, <2>6, <3>1 DEF KeepsChain, Watched, OnHandle
    <3>2. CASE d \notin DataOf(w)
      <4>1. HasFired(completions, w) => HasFired(completions', w)
        BY <1>0, <1>5, <3>2, DeliveredOthers
      <4> QED BY <1>1, <1>2, <2>6, <4>1 DEF KeepsChain, Watched, OnHandle
    <3> QED BY <3>1, <3>2
  <2>8. \A w \in Watch : Counted(w)' => Counted(w)
    BY <2>1 DEF Counted, Alone
  <2> QED BY <1>1, <2>1, <2>6, <2>7, <2>8, BackQuiet
<1> QED
  BY <1>3, <1>4, <1>5 DEF CompletionStep


\* Every record is in an order of the records.
LEMMA OrdersAll ==
    ASSUME NEW order \in Orders(Recorded), NEW p \in Path, watch_record[p] # NoWatch
    PROVE  \E i \in DOMAIN order : order[i] = watch_record[p]
  BY DEF Orders, Recorded

\* Steps of the detecting thread: the records are moved out, and every one is
\* put back and requested in its turn.
LEMMA BackDetect ==
    ASSUME TypeOK, MovedHead, RecordsOnce, BackInv, DetectStep
    PROVE  BackInv'
<1>0. moved \in Seq(Watch) /\ RemovalsAsked /\ NoCallsYet
  BY DEF TypeOK, BackInv
<1>1. UNCHANGED <<call, removal>> /\ (started => started')
  BY DEF DetectStep, DetectDone, DetectProbe, ProbeAnswered, DetectConnected, DetectClear, DetectClose,
     DetectJoin, DetectReset, ConnectServer, ConnectWait, ConnectDone, RewatchTake, RewatchRecord,
     RewatchSend, RewatchEmplace, RewatchDone, users, detect
<1>2. \A w \in Watch : Counted(w)' = Counted(w)
  BY <1>1 DEF Counted, Alone
<1>3. NoCallsYet' /\ \A r : Harmless(r)' = Harmless(r)
  BY <1>0, <1>1 DEF NoCallsYet, Harmless
<1>4. CASE \/ DetectDone \/ DetectProbe \/ ProbeAnswered \/ DetectConnected \/ DetectClear \/ DetectJoin
           \/ DetectReset \/ ConnectWait \/ ConnectDone \/ RewatchDone
  <2>1. /\ UNCHANGED <<sent, watching, completions, watch_record, moved, failed, sess>>
        /\ life' \in {life, "freed"}
    BY <1>4 DEF DetectDone, DetectProbe, ProbeAnswered, DetectConnected, DetectClear, DetectJoin, DetectReset,
       ConnectWait, ConnectDone, RewatchDone, io, queue, history, detect
  <2>2. moved = <<>>
    BY <1>4 DEF RecordsOnce, Rewatching, At, DetectDone, DetectProbe, ProbeAnswered, DetectConnected,
       DetectClear, DetectJoin, DetectReset, ConnectWait, ConnectDone, RewatchDone
  <2>3. Rearmed => Rearmed' \/ ~started
    BY <1>4 DEF At, DetectDone, DetectProbe, ProbeAnswered, DetectConnected, DetectClear, DetectJoin, DetectReset,
       ConnectWait, ConnectDone, RewatchDone, Rearmed
  <2>4. RemovalsAsked'
    BY <1>0, <1>3, <2>1 DEF RemovalsAsked
  <2>5. \A w \in Watch : KeepsChain(w)
    BY <2>1, SameKeeps DEF Accepts
  <2> QED BY <1>0, <1>1, <1>2, <2>1, <2>2, <2>3, <2>4, <2>5, BackQuiet DEF NoCallsYet
<1>5. CASE DetectClose
  <2>1. /\ UNCHANGED <<watch_record, moved>> /\ life' = "closing" /\ sent' = <<>>
        /\ pc = "close"
    BY <1>5 DEF DetectClose, CloseHandle, FailRequests, At
  <2>2. moved = <<>> /\ ~Rearmed
    BY <2>1 DEF RecordsOnce, Rewatching, Rearmed
  <2>3. RemovalsAsked' /\ \A w \in Watch : KeepsChain(w)
    BY <2>1 DEF RemovalsAsked, KeepsChain, Accepts
  <2> QED BY <1>1, <1>2, <2>1, <2>2, <2>3, BackQuiet
<1>6. CASE ConnectServer
  <2>1. /\ UNCHANGED <<watch_record, moved>> /\ sent' = <<>> /\ pc = "connect" /\ pc' = "wait"
    BY <1>6 DEF ConnectServer, At
  <2>2. RemovalsAsked' /\ Rearmed'
    BY <2>1 DEF RemovalsAsked, Rearmed
  <2>3. \A w \in Watch : RecordKept(w) => RecordKept(w)'
    BY <1>1, <2>1 DEF RecordKept, StillMoved
  <2> QED BY <1>2, <1>3, <2>2, <2>3 DEF BackInv, ChainKept
<1>7. CASE RewatchTake
  <2>1. /\ UNCHANGED sent /\ pc = "take" /\ pc' = "rewatch"
        /\ moved' \in Orders(Recorded)
    BY <1>7 DEF RewatchTake, At, io
  <2>2. RemovalsAsked' /\ moved = <<>>
    BY <1>0, <1>3, <2>1 DEF RemovalsAsked, RecordsOnce, Rewatching
  <2>3. ASSUME NEW w \in Watch, Counted(w), call[w] # "idle"
        PROVE  StillMoved(w)' /\ w \in ToRewatch'
    <3>1. watch_record[PathOf[w]] = w
      BY <2>2, <2>3 DEF BackInv, RecordKept, StillMoved
    <3>2. \E i \in DOMAIN moved' : moved'[i] = w
      BY <2>1, <3>1, OrdersAll
    <3> QED BY <2>1, <3>2 DEF StillMoved, ToRewatch
  <2> QED BY <1>1, <1>2, <1>3, <2>2, <2>3 DEF BackInv, RecordKept, ChainKept
<1>8. CASE RewatchRecord
  <2>1. /\ UNCHANGED <<sent, watching, completions, life, sess, failed, moved>>
        /\ pc = "rewatch" /\ pc' = "send" /\ moved # <<>>
        /\ watch_record' = [watch_record EXCEPT ![PathOf[Head(moved)]] = Head(moved)]
    BY <1>8 DEF RewatchRecord, Restored, Current, At, io, queue
  <2>2. Head(moved) = moved[1] /\ Head(moved) \in Watch
    BY <1>0, <2>1, TailIn
  <2>3. RemovalsAsked' /\ ToRewatch' = ToRewatch
    BY <1>0, <1>3, <2>1 DEF RemovalsAsked, ToRewatch
  <2>4. ASSUME NEW w \in Watch, Counted(w) PROVE RecordKept(w)' /\ ChainKept(w)'
    <3>1. RecordKept(w) /\ ChainKept(w)
      BY <2>4 DEF BackInv
    <3>2. ChainKept(w)'
      BY <1>1, <2>1, <2>3, <3>1 DEF ChainKept, Watched, OnHandle, Accepts, Rearmed
    <3>3. CASE w = Head(moved)
      <4>1. watch_record'[PathOf[w]] = w
        BY <2>1, <3>3 DEF TypeOK
      <4> QED BY <3>2, <4>1 DEF RecordKept
    <3>4. CASE w # Head(moved)
      <4>1. PathOf[w] # PathOf[Head(moved)]
        BY <2>2, <2>4, <3>4 DEF Counted, Alone
      <4>2. watch_record'[PathOf[w]] = watch_record[PathOf[w]]
        BY <2>1, <4>1 DEF TypeOK
      <4>3. StillMoved(w) => StillMoved(w)'
        BY <2>1, <2>2, <3>4 DEF StillMoved
      <4> QED BY <1>1, <3>1, <3>2, <4>2, <4>3 DEF RecordKept
    <3> QED BY <3>3, <3>4
  <2> QED BY <1>2, <1>3, <2>3, <2>4 DEF BackInv
<1>9. CASE RewatchSend
  <2> DEFINE c == Head(moved)
             d == <<c, "rewatch">>
             r == [op |-> "exists", d |-> d]
  <2>1. /\ UNCHANGED <<watching, completions, life, sess, failed, moved, watch_record>>
        /\ pc = "send" /\ pc' = "emplace"
        /\ Submit(r)
    BY <1>9 DEF RewatchSend, Current, At, queue
  <2>2. moved # <<>>
    BY <2>1 DEF MovedHead
  <2>3. c \in Watch /\ c = moved[1]
    BY <1>0, <2>2, TailIn
  <2> HIDE DEF c
  <2>4. r \in Request /\ Harmless(r) /\ Asks(r, c)
    BY <2>3 DEF Request, UserData, Harmless, Asks, DataOf
  <2> HIDE DEF r
  <2>5. /\ RemovalsAsked'
        /\ \A w : HasSent(sent, w) => HasSent(sent', w)
        /\ Accepts => HasSent(sent', c)
    BY <1>0, <1>1, <2>1, <2>4, SubmitKeeps
  <2>6. \A w \in Watch : RecordKept(w) => RecordKept(w)'
    BY <1>1, <2>1 DEF RecordKept, StillMoved
  <2>7. \A w \in Watch : w \in ToRewatch => w \in ToRewatch' \/ w = c
    BY <2>1, <2>3 DEF ToRewatch
  <2>8. ASSUME NEW w \in Watch, ChainKept(w) PROVE ChainKept(w)'
    BY <1>1, <2>1, <2>5, <2>7, <2>8 DEF ChainKept, Watched, OnHandle, Accepts, Rearmed
  <2> QED BY <1>2, <1>3, <2>5, <2>6, <2>8 DEF BackInv
<1>10. CASE RewatchEmplace
  <2>1. /\ UNCHANGED <<sent, watching, completions, life, sess, failed, watch_record>>
        /\ pc = "emplace" /\ pc' = "rewatch" /\ moved' = Tail(moved)
    BY <1>10 DEF RewatchEmplace, Remaining, At, io, queue, history
  <2>2. moved # <<>>
    BY <2>1 DEF MovedHead
  <2>3. ASSUME NEW i \in DOMAIN moved, i # 1 PROVE \E j \in DOMAIN moved' : moved'[j] = moved[i]
    <3>1. Len(moved) \in Nat \ {0} /\ DOMAIN moved = 1 .. Len(moved)
      BY <1>0, <2>2, EmptySeq, LenProperties
    <3>2. /\ Tail(moved) \in Seq(Watch) /\ Len(Tail(moved)) = Len(moved) - 1
          /\ \A j \in 1 .. Len(Tail(moved)) : Tail(moved)[j] = moved[j + 1]
      BY <1>0, <2>2, HeadTailProperties
    <3>3. DOMAIN Tail(moved) = 1 .. Len(moved) - 1
      BY <3>1, <3>2, LenProperties
    <3>4. i - 1 \in DOMAIN Tail(moved) /\ (i - 1) + 1 = i
      BY <2>3, <3>1, <3>3
    <3> QED BY <2>1, <3>2, <3>3, <3>4
  <2>4. RemovalsAsked'
    BY <1>0, <1>3, <2>1 DEF RemovalsAsked
  <2>5. \A w \in Watch : StillMoved(w) => StillMoved(w)'
    BY <2>1, <2>3 DEF StillMoved
  <2>6. ToRewatch \subseteq ToRewatch'
    BY <2>1, <2>3 DEF ToRewatch
  <2>7. ASSUME NEW w \in Watch, RecordKept(w), ChainKept(w) PROVE RecordKept(w)' /\ ChainKept(w)'
    <3>1. RecordKept(w)'
      BY <1>1, <2>1, <2>5, <2>7 DEF RecordKept
    <3>2. ChainKept(w)'
      BY <1>1, <2>1, <2>6, <2>7 DEF ChainKept, Watched, OnHandle, Accepts, Rearmed
    <3> QED BY <3>1, <3>2
  <2> QED BY <1>2, <1>3, <2>4, <2>7 DEF BackInv
<1> QED
  BY <1>4, <1>5, <1>6, <1>7, <1>8, <1>9, <1>10 DEF DetectStep


\* Steps of the users and of the destructor.
LEMMA BackUser ==
    ASSUME TypeOK, BackInv,
           \/ \E w \in Watch : WatchRecord(w) \/ CallStep(w) \/ RemoveWatches(w)
           \/ Destroy \/ DestructorStep
    PROVE  BackInv'
<1>0. /\ RemovalsAsked /\ NoCallsYet
      /\ call \in [Watch -> {"idle", "recorded", "sent", "done"}]
      /\ \A w \in Watch : Counted(w) => RecordKept(w) /\ ChainKept(w)
  BY DEF TypeOK, BackInv
<1>1. ASSUME NEW v \in Watch, WatchRecord(v) PROVE BackInv'
  <2>1. /\ UNCHANGED <<sent, watching, completions, life, sess, failed, pc, moved, started, removal>>
        /\ call[v] = "idle" /\ call' = [call EXCEPT ![v] = "recorded"] /\ started
        /\ watch_record' = [watch_record EXCEPT ![PathOf[v]] = v]
    BY <1>1 DEF WatchRecord, io, queue, detect
  <2>2. NoCallsYet' /\ RemovalsAsked'
    BY <1>0, <2>1 DEF NoCallsYet, RemovalsAsked, Harmless
  <2>3. ToRewatch' = ToRewatch
    BY <2>1 DEF ToRewatch
  <2>4. ASSUME NEW w \in Watch, Counted(w)' PROVE RecordKept(w)' /\ ChainKept(w)'
    <3>1. Counted(w)
      BY <2>1, <2>4 DEF Counted, Alone
    <3>2. CASE w = v
      <4>1. watch_record'[PathOf[w]] = w /\ call'[w] = "recorded"
        BY <1>0, <2>1, <3>2 DEF TypeOK
      <4> QED BY <4>1 DEF RecordKept, ChainKept
    <3>3. CASE w # v
      <4>1. PathOf[w] # PathOf[v]
        BY <3>1, <3>3 DEF Counted, Alone
      <4>2. watch_record'[PathOf[w]] = watch_record[PathOf[w]] /\ call'[w] = call[w]
        BY <1>0, <2>1, <3>3, <4>1 DEF TypeOK
      <4> QED
        BY <1>0, <2>1, <2>3, <3>1, <4>2
        DEF RecordKept, StillMoved, ChainKept, Watched, OnHandle, Accepts, Rearmed
    <3> QED BY <3>2, <3>3
  <2> QED BY <2>2, <2>4 DEF BackInv
<1>2. ASSUME NEW v \in Watch, WatchSend(v) PROVE BackInv'
  <2> DEFINE r == [op |-> "exists", d |-> <<v, "user">>]
  <2>1. /\ UNCHANGED <<watching, completions, life, sess, failed, pc, moved, started, removal, watch_record>>
        /\ call[v] = "recorded" /\ call' = [call EXCEPT ![v] = "sent"]
        /\ Submit(r)
    BY <1>2 DEF WatchSend, queue, detect
  <2>2. r \in Request /\ Harmless(r) /\ Asks(r, v)
    BY DEF Request, UserData, Harmless, Asks, DataOf
  <2> HIDE DEF r
  <2>3. /\ RemovalsAsked'
        /\ \A w : HasSent(sent, w) => HasSent(sent', w)
        /\ Accepts => HasSent(sent', v)
    BY <1>0, <2>1, <2>2, SubmitKeeps
  <2>4. NoCallsYet'
    BY <1>0, <2>1 DEF NoCallsYet
  <2>5. ToRewatch' = ToRewatch
    BY <2>1 DEF ToRewatch
  <2>6. ASSUME NEW w \in Watch, Counted(w)' PROVE RecordKept(w)' /\ ChainKept(w)'
    <3>1. Counted(w)
      BY <2>1, <2>6 DEF Counted, Alone
    <3>2. call'[w] # "idle" => call[w] # "idle"
      BY <1>0, <2>1
    <3>3. w # v => call'[w] = call[w]
      BY <1>0, <2>1
    <3>4. RecordKept(w)'
      BY <1>0, <2>1, <3>1, <3>2 DEF RecordKept, StillMoved
    <3>5. ChainKept(w)'
      BY <1>0, <2>1, <2>3, <2>5, <3>1, <3>3 DEF ChainKept, Watched, OnHandle, Accepts, Rearmed
    <3> QED BY <3>4, <3>5
  <2> QED BY <2>3, <2>4, <2>6 DEF BackInv
<1>3. ASSUME NEW v \in Watch, WatchEmplace(v) PROVE BackInv'
  <2>1. /\ UNCHANGED <<sent, watching, completions, life, sess, failed, pc, moved, started, removal, watch_record>>
        /\ call[v] = "sent" /\ call' = [call EXCEPT ![v] = "done"]
    BY <1>3 DEF WatchEmplace, io, queue, detect, history
  <2>2. NoCallsYet' /\ RemovalsAsked'
    BY <1>0, <2>1 DEF NoCallsYet, RemovalsAsked, Harmless
  <2>3. ToRewatch' = ToRewatch
    BY <2>1 DEF ToRewatch
  <2>4. ASSUME NEW w \in Watch, Counted(w)' PROVE RecordKept(w)' /\ ChainKept(w)'
    <3>1. Counted(w)
      BY <2>1, <2>4 DEF Counted, Alone
    <3>2. /\ call'[w] # "idle" => call[w] # "idle"
          /\ call'[w] \in {"sent", "done"} => call[w] \in {"sent", "done"}
      BY <1>0, <2>1
    <3> QED
      BY <1>0, <2>1, <2>3, <3>1, <3>2
      DEF RecordKept, StillMoved, ChainKept, Watched, OnHandle, Accepts, Rearmed
  <2> QED BY <2>2, <2>4 DEF BackInv
<1>4. ASSUME NEW v \in Watch, RemoveWatches(v) PROVE BackInv'
  <2> DEFINE r == [op |-> "remove", d |-> <<v, "user">>]
             p == PathOf[v]
  <2>1. /\ UNCHANGED <<watching, completions, life, sess, failed, pc, moved, started, call, watch_record>>
        /\ \/ removal' = [removal EXCEPT ![p] = "waiting"]
           \/ removal' = [removal EXCEPT ![p] = "asked"]
        /\ Submit(r)
    BY <1>4 DEF RemoveWatches, queue, detect
  <2>2. r \in Request /\ sent \in Seq(Request)
    BY DEF Request, UserData, TypeOK
  <2>3. removal'[p] # "none" /\ \A x \in Path : removal'[x] = "none" => removal[x] = "none"
    BY <2>1 DEF TypeOK
  <2>4. \A i \in DOMAIN sent' : sent'[i] = r \/ \E j \in DOMAIN sent : sent'[i] = sent[j]
    BY <2>1, <2>2, AppendAt DEF Submit
  <2>5. ASSUME NEW x \in Request, Harmless(x) PROVE Harmless(x)'
    <3>1. x.op = "remove" => PathOf[x.d[1]] \in Path
      BY DEF Request, UserData
    <3> QED BY <2>3, <2>5, <3>1 DEF Harmless
  <2>6. RemovalsAsked'
    <3>1. Harmless(r)'
      BY <2>3 DEF Harmless
    <3>2. \A j \in DOMAIN sent : sent[j] \in Request
      BY <2>2, ElementOfSeq, LenProperties
    <3> HIDE DEF r
    <3> QED BY <1>0, <2>4, <2>5, <3>1, <3>2 DEF RemovalsAsked
  <2> HIDE DEF r
  <2>7. \A w : HasSent(sent, w) => HasSent(sent', w)
    BY <2>1, <2>2, SentAppend DEF Submit
  <2>8. \A w \in Watch : KeepsChain(w)
    BY <2>1, <2>7 DEF KeepsChain, Watched, OnHandle, Accepts
  <2>9. \A w \in Watch : Counted(w)' => Counted(w)
    BY <2>3 DEF Counted, Alone
  <2> QED BY <2>1, <2>6, <2>8, <2>9, BackQuiet
<1>5. CASE Destroy \/ DestroyDone
  <2>1. /\ UNCHANGED <<sent, watching, completions, sess, failed, pc, moved, started, call, removal, watch_record>>
        /\ life' \in {life, "freed"}
    BY <1>5 DEF Destroy, DestroyDone, io, queue, detect, history
  <2>2. RemovalsAsked'
    BY <1>0, <2>1 DEF RemovalsAsked, Harmless
  <2>3. \A w \in Watch : KeepsChain(w) /\ Counted(w)' = Counted(w)
    BY <2>1, SameKeeps DEF Accepts, Counted, Alone
  <2> QED BY <2>1, <2>2, <2>3, BackQuiet
<1>6. CASE DestroyClose
  <2>1. /\ UNCHANGED <<pc, moved, started, call, removal, watch_record>>
        /\ life' = "closing" /\ sent' = <<>>
    BY <1>6 DEF DestroyClose, CloseHandle, FailRequests, detect
  <2>2. RemovalsAsked'
    BY <2>1 DEF RemovalsAsked
  <2>3. \A w \in Watch : KeepsChain(w) /\ Counted(w)' = Counted(w)
    BY <2>1 DEF KeepsChain, Accepts, Counted, Alone
  <2> QED BY <2>1, <2>2, <2>3, BackQuiet
<1> QED
  BY <1>1, <1>2, <1>3, <1>4, <1>5, <1>6 DEF CallStep, DestructorStep

\* BackInv is inductive on top of the invariants before.
LEMMA BackStep == SessionInv /\ SingleInv /\ BackInv /\ [Next]_vars => BackInv'
<1> SUFFICES ASSUME SessionInv, SingleInv, BackInv, [Next]_vars PROVE BackInv'
  OBVIOUS
<1>0. TypeOK /\ MovedHead /\ RecordsOnce
  BY DEF SessionInv, SingleInv
<1>1. CASE UNCHANGED vars
  <2>1. UNCHANGED <<sent, watching, completions, life, sess, failed, pc, moved, started, call, removal, watch_record>>
    BY <1>1 DEF vars, io, queue, detect, users, history
  <2>2. RemovalsAsked'
    BY <2>1 DEF BackInv, RemovalsAsked, Harmless
  <2>3. \A w \in Watch : KeepsChain(w) /\ Counted(w)' = Counted(w)
    BY <2>1, SameKeeps DEF Accepts, Counted, Alone
  <2> QED BY <2>1, <2>2, <2>3, BackQuiet
<1> QED
  BY <1>0, <1>1, BackIo, BackCompletion, BackDetect, BackUser DEF Next

\* "auto rewatch" (config_monitor.hpp:102): outside a session change, the watch
\* of every finished call is on the present handle, for any number of calls and
\* however often the session has expired, unless its request was lost with a
\* connection, its path is watched by another call too, or it is to be removed.
THEOREM RewatchComplete == Spec => []CallsBacked
<1>1. Init => SessionInv /\ SingleInv /\ BackInv
  <2>1. Init => BackInv
    BY DEF Init, BackInv, NoCallsYet, RemovalsAsked, RecordKept, ChainKept
  <2> QED BY <2>1, InvInit, SingleInit
<1>2. SessionInv /\ SingleInv /\ BackInv /\ [Next]_vars => (SessionInv /\ SingleInv /\ BackInv)'
  BY InvStep, SingleStep, BackStep
<1>3. SingleInv /\ BackInv => CallsBacked
  <2> SUFFICES ASSUME SingleInv, BackInv, Settled, life = "open", sess # "expired", NEW w \in Watch,
                      call[w] = "done", Alone(w), removal[PathOf[w]] = "none"
               PROVE  Chains(w) # {} \/ w \in failed
    BY DEF CallsBacked
  <2>1. pc \in {"loop", "probing", "check"}
    BY DEF Settled
  <2>2. moved = <<>>
    BY <2>1 DEF SingleInv, RecordsOnce, Rewatching
  <2>3. ToRewatch = {} /\ ~Rearmed
    BY <2>1, <2>2 DEF ToRewatch, Rearmed
  <2>4. OnHandle(w) \/ w \in failed
    BY <2>3 DEF BackInv, Counted, ChainKept, Watched, Accepts
  <2>5. ASSUME OnHandle(w) PROVE Chains(w) # {}
    <3>1. PICK d \in DataOf(w) :
            \/ \E i \in DOMAIN sent : sent[i].op = "exists" /\ sent[i].d = d
            \/ \E i \in DOMAIN completions : completions[i].op = "event" /\ d \in completions[i].ds
            \/ d \in watching
      BY <2>5 DEF OnHandle, HasSent, HasFired, HasWatch, Asks, Fires
    <3>2. CASE \E i \in DOMAIN sent : sent[i].op = "exists" /\ sent[i].d = d
      <4>1. \E x : x \in {<<d, "sent", i>> : i \in {j \in DOMAIN sent : sent[j].op = "exists" /\ sent[j].d = d}}
        BY <3>2
      <4> QED BY <4>1 DEF Places, Chains, DataOf
    <3>3. CASE \E i \in DOMAIN completions : completions[i].op = "event" /\ d \in completions[i].ds
      <4>1. \E x : x \in {<<d, "fired", i>> : i \in {j \in DOMAIN completions :
                                                     completions[j].op = "event" /\ d \in completions[j].ds}}
        BY <3>3
      <4> QED BY <4>1 DEF Places, Chains, DataOf
    <3>4. CASE d \in watching
      <4>1. \E x : x \in {<<d, "watching", 0>> : y \in {d} \cap watching}
        BY <3>4
      <4> QED BY <4>1 DEF Places, Chains, DataOf
    <3> QED BY <3>1, <3>2, <3>3, <3>4
  <2> QED BY <2>4, <2>5
<1> QED
  BY <1>1, <1>2, <1>3, PTL DEF Spec


-----------------------------------------------------------------------------
(***************************************************************************)
(* When freed and destroyed things are used.                               *)
(***************************************************************************)
\* When the handle is freed, and what a destroyed monitor no longer does.
LifeInv ==
    /\ pc \in {"reset", "connect"} => thread = "exited"
    /\ life = "freed" => pc \in {"reset", "connect"} \/ dtor = "done"
    /\ dtor \in {"closing", "done"} => pc = "done"
    /\ dtor = "done" => thread = "exited"
    /\ ~started => dtor = "none" /\ \A w \in Watch : call[w] = "idle"
    /\ dtor # "none" => \A w \in Watch : call[w] \in {"idle", "done"}

\* A step of any thread keeps it.
LEMMA LifeStep == SessionInv /\ LifeInv /\ [Next]_vars => LifeInv'
<1> SUFFICES ASSUME SessionInv, LifeInv, [Next]_vars PROVE LifeInv'
  OBVIOUS
<1> USE DEF LifeInv, io, queue, flags, detect, users, bounds, history
<1>1. CASE IoStep
  <2>1. UNCHANGED <<life, thread, started, users>> /\ (pc' = pc \/ (pc = "probing" /\ pc' = "check"))
    BY <1>1 DEF IoStep, IoConnect, IoLose, IoAttemptFails, IoExpire, IoAnswer, IoEvent, ProbeReturns
  <2> QED
    BY <2>1
<1>2. CASE CompletionStep
  <2>1. CASE ThreadEnter \/ ThreadLeave \/ ThreadExit
    BY <2>1 DEF ThreadEnter, ThreadLeave, ThreadExit, ThreadAt
  <2>2. CASE RunSession \/ RunExists \/ RunRemove \/ \E d \in UserData : RunEvent(d)
    BY <2>2 DEF RunSession, RunExists, RunRemove, RunEvent
  <2> QED
    BY <1>2, <2>1, <2>2 DEF CompletionStep
<1>3. CASE DetectStep
  <2>1. UNCHANGED users
    BY <1>3 DEF DetectStep, DetectDone, DetectProbe, ProbeAnswered, DetectConnected, DetectClear,
                DetectClose, DetectJoin, DetectReset, ConnectServer, ConnectWait, ConnectDone,
                RewatchTake, RewatchRecord, RewatchSend, RewatchEmplace, RewatchDone
  <2>2. UNCHANGED started \/ started'
    BY <1>3 DEF DetectStep, DetectDone, DetectProbe, ProbeAnswered, DetectConnected, DetectClear,
                DetectClose, DetectJoin, DetectReset, ConnectServer, ConnectWait, ConnectDone,
                RewatchTake, RewatchRecord, RewatchSend, RewatchEmplace, RewatchDone
  <2>3. pc # "done"
    BY <1>3 DEF DetectStep, At, DetectDone, DetectProbe, ProbeAnswered, DetectConnected, DetectClear,
                DetectClose, DetectJoin, DetectReset, ConnectServer, ConnectWait, ConnectDone,
                RewatchTake, RewatchRecord, RewatchSend, RewatchEmplace, RewatchDone
  <2>4. /\ pc' \in {"reset", "connect"} => thread' = "exited"
        /\ life' = "freed" => pc' \in {"reset", "connect"}
    BY <1>3, <2>3 DEF DetectStep, At, DetectDone, DetectProbe, ProbeAnswered, DetectConnected,
                DetectClear, DetectClose, CloseHandle, DetectJoin, Joined, DetectReset, ConnectServer,
                ConnectWait, ConnectDone, RewatchTake, RewatchRecord, RewatchSend, RewatchEmplace,
                RewatchDone
  <2> QED
    BY <2>1, <2>2, <2>3, <2>4
<1>4. ASSUME NEW w \in Watch, WatchRecord(w) \/ CallStep(w) \/ RemoveWatches(w) PROVE LifeInv'
  <2>1. UNCHANGED <<life, thread, pc, started, dtor>>
    BY <1>4 DEF WatchRecord, CallStep, WatchSend, WatchEmplace, RemoveWatches
  <2>2. CASE WatchRecord(w)
    BY <2>1, <2>2 DEF WatchRecord
  <2>3. CASE CallStep(w)
    <3>1. call[w] \in {"recorded", "sent"}
      BY <2>3 DEF CallStep, WatchSend, WatchEmplace
    <3> QED
      BY <2>1, <3>1
  <2>4. CASE RemoveWatches(w)
    BY <2>1, <2>4 DEF RemoveWatches
  <2> QED
    BY <1>4, <2>2, <2>3, <2>4
<1>5. CASE Destroy
  BY <1>5 DEF Destroy
<1>6. CASE DestroyClose
  BY <1>6 DEF DestroyClose, CloseHandle
<1>7. CASE DestroyDone
  BY <1>7 DEF DestroyDone
<1>8. CASE UNCHANGED vars
  BY <1>8 DEF vars
<1> QED
  BY <1>1, <1>2, <1>3, <1>4, <1>5, <1>6, <1>7, <1>8 DEF Next, DestructorStep

\* A step that ends a running program does so at such a time.
LEMMA FaultStep ==
    SessionInv /\ LifeInv /\ FaultsInChange /\ [Next]_vars => FaultsInChange'
<1> SUFFICES ASSUME SessionInv, LifeInv, FaultsInChange, [Next]_vars
             PROVE  FaultsInChange'
  OBVIOUS
<1> USE DEF io, queue, flags, detect, users, bounds, history
<1>0. TypeOK /\ sent \in Seq(Request) /\ completions \in Seq(Completion)
  BY DEF SessionInv, TypeOK
<1>1. ASSUME UNCHANGED fault, Running PROVE FaultsInChange'
  BY <1>1 DEF FaultsInChange, Running
<1>2. CASE UNCHANGED vars
  BY <1>2 DEF vars, FaultsInChange
<1>3. CASE IoStep
  BY <1>1, <1>3 DEF IoStep, IoConnect, IoLose, IoAttemptFails, IoExpire, IoAnswer, IoEvent, IoRuns
<1>4. CASE ThreadEnter \/ ThreadLeave \/ ThreadExit \/ RunSession
  BY <1>1, <1>4 DEF ThreadEnter, ThreadLeave, ThreadExit, RunSession, Runs, ThreadAt
<1>5. ASSUME NEW d \in UserData, ~Alive(d), Pointed(d), thread = "drain"
      PROVE  pc \in {"close", "join"} /\ sess = "expired"
  BY <1>5 DEF SessionInv, DataKept, Changing, ChangeOver, LifeInv
<1>6. CASE RunExists
  <2> DEFINE d == Head(completions).d
  <2>1. /\ completions # <<>> /\ Head(completions).op = "exists" /\ thread = "drain" /\ Running
        /\ fault' = IF Alive(d) THEN fault ELSE "freed_userdata"
        /\ UNCHANGED <<pc, sess>>
    BY <1>6 DEF RunExists, Runs, ThreadAt
  <2>2. Head(completions) \in Completion /\ In(Head(completions), completions)
    BY <1>0, <2>1, TailIn
  <2>3. Head(completions) = [op |-> "exists", d |-> d] /\ d \in UserData
    BY <2>1, <2>2 DEF Completion, Request
  <2>4. Pointed(d)
    BY <2>2, <2>3 DEF Pointed
  <2> HIDE DEF d
  <2> QED
    BY <1>1, <1>5, <2>1, <2>3, <2>4 DEF FaultsInChange
<1>7. ASSUME NEW d \in UserData, RunEvent(d) PROVE FaultsInChange'
  <2>1. /\ thread = "drain" /\ Running
        /\ UNCHANGED <<pc, sess>>
        /\ IF Alive(d) THEN fault' = IF life = "freed" THEN "freed_handle" ELSE fault
                       ELSE fault' = "freed_userdata"
    BY <1>7 DEF RunEvent, Runs, ThreadAt, Submit
  <2>2. Pointed(d)
    BY <1>0, <1>7, EventDelivered DEF Pointed
  <2>3. life # "freed"
    BY <2>1 DEF LifeInv
  <2> QED
    BY <1>1, <1>5, <2>1, <2>2, <2>3 DEF FaultsInChange
<1>8. CASE RunRemove
  <2>1. thread = "drain" /\ Running /\ UseMembers /\ UNCHANGED dtor
    BY <1>8 DEF RunRemove, Runs, ThreadAt
  <2>2. dtor \in {"none", "joining", "closing"}
    BY <1>0, <2>1 DEF LifeInv, TypeOK
  <2> QED
    BY <1>1, <2>1, <2>2 DEF UseMembers, FaultsInChange
<1>9. CASE DetectDone \/ DetectProbe \/ ProbeAnswered \/ DetectConnected \/ DetectClear \/ DetectClose
           \/ DetectJoin \/ ConnectServer \/ ConnectWait \/ RewatchEmplace \/ RewatchDone
  BY <1>1, <1>9 DEF DetectDone, DetectProbe, ProbeAnswered, DetectConnected, DetectClear, DetectClose,
                    DetectJoin, ConnectServer, ConnectWait, RewatchEmplace, RewatchDone, At
<1>10. CASE DetectReset \/ RewatchTake \/ RewatchRecord
  <2>1. pc # "done" /\ Running /\ UseMembers /\ UNCHANGED dtor
    BY <1>10 DEF DetectReset, RewatchTake, RewatchRecord, At
  <2>2. dtor \in {"none", "joining"}
    BY <1>0, <2>1 DEF LifeInv, TypeOK
  <2> QED
    BY <1>1, <2>1, <2>2 DEF UseMembers, FaultsInChange
<1>11. CASE ConnectDone
  BY <1>1, <1>11 DEF ConnectDone, At, FaultsInChange
<1>12. ASSUME Running, started, dtor # "done", UNCHANGED <<pc, started, dtor>>,
              life = "freed" => dtor = "none",
              fault' = IF life = "freed" THEN "freed_handle" ELSE fault
       PROVE  FaultsInChange'
  BY <1>1, <1>12 DEF LifeInv, FaultsInChange
<1>13. CASE RewatchSend
  <2>1. pc = "send" /\ Running /\ fault' = IF life = "freed" THEN "freed_handle" ELSE fault
    BY <1>13 DEF RewatchSend, At, Submit
  <2>2. life # "freed"
    BY <2>1 DEF LifeInv
  <2> QED
    BY <1>1, <2>1, <2>2
<1>14. ASSUME NEW w \in Watch, WatchRecord(w) \/ WatchEmplace(w) PROVE FaultsInChange'
  BY <1>1, <1>14 DEF WatchRecord, WatchEmplace
<1>15. ASSUME NEW w \in Watch, WatchSend(w) \/ RemoveWatches(w) PROVE FaultsInChange'
  <2>1. /\ Running /\ UNCHANGED <<pc, started, dtor>>
        /\ call[w] = "recorded" \/ (call[w] = "done" /\ dtor = "none")
        /\ fault' = IF life = "freed" THEN "freed_handle" ELSE fault
    BY <1>15 DEF WatchSend, RemoveWatches, Submit
  <2>2. started /\ dtor = "none"
    BY <2>1 DEF LifeInv
  <2> QED
    BY <1>12, <2>1, <2>2
<1>16. CASE Destroy \/ DestroyClose \/ DestroyDone
  BY <1>1, <1>16 DEF Destroy, DestroyClose, DestroyDone
<1>17. CASE CompletionStep
  BY <1>4, <1>6, <1>7, <1>8, <1>17 DEF CompletionStep
<1>18. CASE DetectStep
  BY <1>9, <1>10, <1>11, <1>13, <1>18 DEF DetectStep
<1>19. CASE \E w \in Watch : WatchRecord(w) \/ CallStep(w) \/ RemoveWatches(w)
  BY <1>14, <1>15, <1>19 DEF CallStep
<1> QED
  BY <1>2, <1>3, <1>16, <1>17, <1>18, <1>19 DEF Next, DestructorStep

\* When what was freed or destroyed can be used, for any number of watches,
\* removals, expiries and events.  User data is used after it was freed only by
\* the completion thread of an expired handle that is still being closed
\* (cppzk.hpp:580), the handle only by a call made between zookeeper_close and
\* zookeeper_init (cppzk.hpp:604), and a destroyed member, by a callback of a
\* removal or by the rewatch, only until the destructor returns: it has then
\* joined both threads (cppzk.hpp:52-58).
THEOREM FaultsAreConfined == Spec => []FaultsInChange
<1> DEFINE FaultInv == SessionInv /\ LifeInv /\ FaultsInChange
<1>1. Init => FaultInv
  <2> SUFFICES ASSUME Init PROVE FaultInv
    OBVIOUS
  <2>1. SessionInv
    BY InvInit
  <2>2. LifeInv /\ FaultsInChange
    BY DEF Init, LifeInv, FaultsInChange
  <2> QED
    BY <2>1, <2>2
<1>2. FaultInv /\ [Next]_vars => FaultInv'
  BY InvStep, LifeStep, FaultStep
<1>3. FaultInv => FaultsInChange
  OBVIOUS
<1> HIDE DEF FaultInv
<1> QED
  BY <1>1, <1>2, <1>3, PTL DEF Spec

=============================================================================

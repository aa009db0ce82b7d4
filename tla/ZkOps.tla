------------------------------- MODULE ZkOps -------------------------------
(***************************************************************************)
(* cppzk's operations on nodes: create_path, delete_path, set_path_value,  *)
(* get_path_value and their asynchronous forms.                            *)
(*                                                                         *)
(* ZooKeeper's operations act on one node each, so creating a path with    *)
(* its prefixes, deleting a subtree and reading a large value take several *)
(* requests, between which other calls and other clients act.  A call has  *)
(* one request under way at a time; the synchronous form waits for the     *)
(* answer, the asynchronous one goes on in the completion, with the same   *)
(* sequence of requests.  An action is one request, its effect on the      *)
(* server, and what the caller does with the answer.  When the connection  *)
(* is lost the caller cannot tell whether the request took effect.         *)
(***************************************************************************)
EXTENDS ZkPath

CONSTANTS
    Names,          \* names of nodes, in the order the server lists children
    Path,           \* paths that can exist
    Call,           \* calls
    NoId,           \* writer of what is no value
    Scenario,       \* what the calls, the other clients and the connection may do
    BufSize,        \* size of the buffer in get_path_value
    MaxOthers       \* bound: transactions of other clients

Op == {"create", "delete", "set", "get", "none"}
Char == {Slash} \cup {Names[i] : i \in DOMAIN Names}     \* what path strings are made of

ASSUME PathAssumption ==
    \A p \in Path : /\ p \in Seq(Char) /\ p # Root /\ p[1] = Slash
                   /\ Parent(p) \in Path \cup {Root}
ASSUME NameAssumption == Names \in Seq(STRING)
ASSUME ListAssumption ==        \* a path is a name below its parent; the server lists a name once
    /\ \A p \in Path : \E i \in DOMAIN Names : p = Child(Parent(p), Names[i])
    /\ \A i, j \in DOMAIN Names : Names[i] = Names[j] => i = j
ASSUME IdAssumption == NoId \notin Nat /\ \A c \in Call : c # NoId /\ c \notin Nat
ASSUME ScenarioAssumption ==
    \A s \in Scenario :
        /\ s.op \in [Call -> Op]
        /\ s.path \in [Call -> Path]
        /\ s.others \subseteq {"create", "set", "delete"}
        /\ s.lengths \subseteq Nat \cup {-1}
        /\ s.loss \in BOOLEAN
ASSUME BoundAssumption == BufSize \in Nat /\ MaxOthers \in Nat

VARIABLES
    scenario,   \* chosen at the start
    node,       \* node[p]: the value of p, or Absent
    others,     \* transactions of other clients
    pc,         \* pc[c]: progress of call c
    todo,       \* todo[c]: requests still to be made
    subs,       \* subs[c]: nodes found so far, in the order they will be deleted
    rc,         \* rc[c]: the result code
    got,        \* got[c]: the value returned by get_path_value
    written     \* history: every value ever stored

vars == <<scenario, node, others, pc, todo, subs, rc, got, written>>

\* A value is identified by who wrote it; a node without data has length -1.
Value(id, len) == [id |-> id, len |-> len]
NoData  == Value(NoId, -1)
Absent  == Value(NoId, -2)
Nothing == Value(NoId, -3)      \* std::optional without a value

OpOf(c) == scenario.op[c]
PathOf(c) == scenario.path[c]

tree == {p \in Path : node[p] # Absent}

\* The names get_sub_path lists; found[i] are those among the first i.
ChildrenOf(p) ==
    LET found[i \in 0..Len(Names)] ==
            IF i = 0 THEN <<>>
            ELSE IF Child(p, Names[i]) \in tree THEN Append(found[i - 1], Names[i]) ELSE found[i - 1]
    IN  found[Len(Names)]

-----------------------------------------------------------------------------
(***************************************************************************)
(* The server, and the way of a request.                                   *)
(***************************************************************************)
CreateRc(p) == IF p \in tree THEN "ZNODEEXISTS"
               ELSE IF Parent(p) \in tree \cup {Root} THEN "ZOK" ELSE "ZNONODE"
DeleteRc(p) == IF p \notin tree THEN "ZNONODE"
               ELSE IF \E q \in tree : Parent(q) = p THEN "ZNOTEMPTY" ELSE "ZOK"
ReadRc(p)   == IF p \in tree THEN "ZOK" ELSE "ZNONODE"

Store(p, v) == /\ node' = [node EXCEPT ![p] = v]
               /\ written' = written \cup ({v} \ {Absent})

\* What can happen to a request: answered, or lost before or after its effect.
Fate == IF scenario.loss THEN {"answered", "unsent", "unanswered"} ELSE {"answered"}
Answer(fate, code) == IF fate = "answered" THEN code ELSE "ZCONNECTIONLOSS"

\* A request to store v in p if code allows it.
Request(fate, code, p, v) ==
    IF fate # "unsent" /\ code = "ZOK" THEN Store(p, v) ELSE UNCHANGED <<node, written>>

OtherClient ==
    /\ others < MaxOthers
    /\ others' = others + 1
    /\ \E p \in Path, len \in scenario.lengths :
         \/ "create" \in scenario.others /\ CreateRc(p) = "ZOK" /\ Store(p, Value(others + 1, len))
         \/ "set" \in scenario.others /\ p \in tree /\ Store(p, Value(others + 1, len))
         \/ "delete" \in scenario.others /\ DeleteRc(p) = "ZOK" /\ Store(p, Absent)
    /\ UNCHANGED <<scenario, pc, todo, subs, rc, got>>

Finish(c, code) ==
    /\ pc' = [pc EXCEPT ![c] = "done"]
    /\ rc' = [rc EXCEPT ![c] = code]

-----------------------------------------------------------------------------
(***************************************************************************)
(* create_path, async_create_path.                                         *)
(***************************************************************************)
\* Mutant: the loop over the prefixes starts one too late.
Mut_CreateBegin(c) ==
    /\ pc[c] = "idle"
    /\ OpOf(c) = "create"
    /\ todo' = [todo EXCEPT ![c] = Tail(split_path(PathOf(c)))]
    /\ pc' = [pc EXCEPT ![c] = "create"]
    /\ UNCHANGED <<scenario, node, others, subs, rc, got, written>>

CreateBegin(c) ==
    /\ pc[c] = "idle"
    /\ OpOf(c) = "create"
    /\ todo' = [todo EXCEPT ![c] = split_path(PathOf(c))]
    /\ pc' = [pc EXCEPT ![c] = "create"]
    /\ UNCHANGED <<scenario, node, others, subs, rc, got, written>>

\* The completion of async_create_path: an error, or nothing left to create.
CreateEnds(code, rest) == code \notin {"ZOK", "ZNODEEXISTS"} \/ rest = <<>>

\* Prefixes are created without data.
CreateValue(c, rest) == IF rest = <<>> THEN Value(c, 0) ELSE NoData

\* Mutant: an existing node is as good as a created one.
Mut_CreateStep(c) ==
    LET p == Head(todo[c])
        rest == Tail(todo[c])
        done == IF CreateRc(p) = "ZNODEEXISTS" THEN "ZOK" ELSE CreateRc(p)
    IN  /\ pc[c] = "create"
        /\ Request("answered", CreateRc(p), p, CreateValue(c, rest))
        /\ IF CreateEnds(done, rest) THEN Finish(c, done) ELSE UNCHANGED <<pc, rc>>
        /\ todo' = [todo EXCEPT ![c] = rest]
        /\ UNCHANGED <<scenario, others, subs, got>>

CreateStep(c) ==
    LET p == Head(todo[c])
        rest == Tail(todo[c])
    IN  /\ pc[c] = "create"
        /\ \E fate \in Fate :
             LET code == Answer(fate, CreateRc(p))
             IN  /\ Request(fate, CreateRc(p), p, CreateValue(c, rest))
                 /\ IF CreateEnds(code, rest) THEN Finish(c, code) ELSE UNCHANGED <<pc, rc>>
        /\ todo' = [todo EXCEPT ![c] = rest]
        /\ UNCHANGED <<scenario, others, subs, got>>

-----------------------------------------------------------------------------
(***************************************************************************)
(* delete_path, async_delete_path.  First recursive_get_sub_path lists the *)
(* subtree, a node's children before the node; todo holds the calls and    *)
(* the emplace_backs that are left of the recursion.                       *)
(***************************************************************************)
Listing(p) == <<"list", p>>
Emplace(p) == <<"emplace", p>>

DeleteBegin(c) ==
    /\ pc[c] = "idle"
    /\ OpOf(c) = "delete"
    /\ todo' = [todo EXCEPT ![c] = <<Listing(PathOf(c))>>]
    /\ pc' = [pc EXCEPT ![c] = "list"]
    /\ UNCHANGED <<scenario, node, others, subs, rc, got, written>>

\* Mutant: a node before its children.
Mut_Recurse(p) == [i \in 1..(2 * Len(ChildrenOf(p))) |->
                     LET child == Child(p, ChildrenOf(p)[(i + 1) \div 2])
                     IN  IF i % 2 = 1 THEN Emplace(child) ELSE Listing(child)]

\* The loop of recursive_get_sub_path over the children get_sub_path found.
Recurse(p) == [i \in 1..(2 * Len(ChildrenOf(p))) |->
                 LET child == Child(p, ChildrenOf(p)[(i + 1) \div 2])
                 IN  IF i % 2 = 1 THEN Listing(child) ELSE Emplace(child)]

ListStep(c) ==
    LET p == Head(todo[c])[2]
    IN  /\ pc[c] = "list"
        /\ todo[c] # <<>>
        /\ Head(todo[c])[1] = "list"
        /\ \E fate \in Fate \ {"unanswered"} :
             LET code == Answer(fate, ReadRc(p))
             IN  IF code = "ZOK"
                 THEN /\ todo' = [todo EXCEPT ![c] = Recurse(p) \o Tail(@)]
                      /\ UNCHANGED <<pc, rc>>
                 ELSE /\ Finish(c, code)
                      /\ UNCHANGED todo
        /\ UNCHANGED <<scenario, node, others, subs, got, written>>

EmplaceStep(c) ==
    /\ pc[c] = "list"
    /\ todo[c] # <<>>
    /\ Head(todo[c])[1] = "emplace"
    /\ subs' = [subs EXCEPT ![c] = Append(@, Head(todo[c])[2])]
    /\ todo' = [todo EXCEPT ![c] = Tail(@)]
    /\ UNCHANGED <<scenario, node, others, pc, rc, got, written>>

\* The listing is complete: the path itself comes last.
ListDone(c) ==
    /\ pc[c] = "list"
    /\ todo[c] = <<>>
    /\ subs' = [subs EXCEPT ![c] = Append(@, PathOf(c))]
    /\ pc' = [pc EXCEPT ![c] = "delete"]
    /\ UNCHANGED <<scenario, node, others, todo, rc, got, written>>

\* Mutant: the result is always success when the list has been worked off.
Mut_DeleteStep(c) ==
    LET p == Head(subs[c])
        rest == Tail(subs[c])
    IN  /\ pc[c] = "delete"
        /\ \E fate \in Fate :
             /\ Request(fate, DeleteRc(p), p, Absent)
             /\ IF rest = <<>> THEN Finish(c, "ZOK") ELSE UNCHANGED <<pc, rc>>
        /\ subs' = [subs EXCEPT ![c] = rest]
        /\ UNCHANGED <<scenario, others, todo, got>>

\* The completion of async_delete_path: an error, or nothing left to delete.
DeleteEnds(code, rest) == code # "ZOK" \/ rest = <<>>

DeleteStep(c) ==
    LET p == Head(subs[c])
        rest == Tail(subs[c])
    IN  /\ pc[c] = "delete"
        /\ \E fate \in Fate :
             LET code == Answer(fate, DeleteRc(p))
             IN  /\ Request(fate, DeleteRc(p), p, Absent)
                 /\ IF DeleteEnds(code, rest) THEN Finish(c, code) ELSE UNCHANGED <<pc, rc>>
        /\ subs' = [subs EXCEPT ![c] = rest]
        /\ UNCHANGED <<scenario, others, todo, got>>

-----------------------------------------------------------------------------
(***************************************************************************)
(* set_path_value, get_path_value.                                         *)
(***************************************************************************)
SetStep(c) ==
    /\ pc[c] = "idle"
    /\ OpOf(c) = "set"
    /\ \E fate \in Fate :
         /\ Request(fate, ReadRc(PathOf(c)), PathOf(c), Value(c, 0))
         /\ Finish(c, Answer(fate, ReadRc(PathOf(c))))
    /\ UNCHANGED <<scenario, others, todo, subs, got>>

Return(c, code, v) ==
    /\ Finish(c, code)
    /\ got' = [got EXCEPT ![c] = v]

\* The first zoo_get, into a buffer of BufSize.
GetStep(c) ==
    LET v == node[PathOf(c)]
    IN  /\ pc[c] = "idle"
        /\ OpOf(c) = "get"
        /\ \E fate \in Fate \ {"unanswered"} :
             LET code == Answer(fate, ReadRc(PathOf(c)))
             IN  IF code = "ZOK" /\ v.len > BufSize
                 THEN /\ pc' = [pc EXCEPT ![c] = "again"]
                      /\ todo' = [todo EXCEPT ![c] = <<v.len>>]
                      /\ UNCHANGED <<rc, got>>
                 ELSE /\ Return(c, code, IF code = "ZOK" /\ v.len # -1 THEN v ELSE Nothing)
                      /\ UNCHANGED todo
        /\ UNCHANGED <<scenario, node, others, subs, written>>

\* Mutant: the length of the first answer is used for the second.
Mut_Filled(size, v) == size

\* zoo_get reports how much of the buffer it has filled.
Filled(size, v) == IF v.len <= size THEN v.len ELSE size

\* The second zoo_get, into a buffer of the length read before; a node without
\* data makes the length of the string negative, and its constructor throws.
GetAgainStep(c) ==
    LET v == node[PathOf(c)]
        size == Head(todo[c])
    IN  /\ pc[c] = "again"
        /\ \E fate \in Fate \ {"unanswered"} :
             LET code == Answer(fate, ReadRc(PathOf(c)))
             IN  IF code # "ZOK" THEN Return(c, code, Nothing)
                 ELSE IF v.len = -1
                      THEN pc' = [pc EXCEPT ![c] = "length_error"] /\ UNCHANGED <<rc, got>>
                      ELSE Return(c, code, Value(v.id, Filled(size, v)))
        /\ UNCHANGED <<scenario, node, others, todo, subs, written>>

-----------------------------------------------------------------------------
Init ==
    /\ scenario \in Scenario
    /\ \E S \in SUBSET Path :
         /\ \A p \in S : Parent(p) = Root \/ Parent(p) \in S
         /\ node = [p \in Path |-> IF p \in S THEN NoData ELSE Absent]
    /\ others = 0
    /\ pc = [c \in Call |-> "idle"]
    /\ todo = [c \in Call |-> <<>>]
    /\ subs = [c \in Call |-> <<>>]
    /\ rc = [c \in Call |-> "none"]
    /\ got = [c \in Call |-> Nothing]
    /\ written = {NoData}

CallStep(c) ==
    \/ CreateBegin(c) \/ CreateStep(c)
    \/ DeleteBegin(c) \/ ListStep(c) \/ EmplaceStep(c) \/ ListDone(c) \/ DeleteStep(c)
    \/ SetStep(c)
    \/ GetStep(c) \/ GetAgainStep(c)

Next == OtherClient \/ \E c \in Call : CallStep(c)

Spec == Init /\ [][Next]_vars

-----------------------------------------------------------------------------
(***************************************************************************)
(* Correctness.                                                            *)
(***************************************************************************)
Calls(op) == {c \in Call : OpOf(c) = op}
Ended(c) == pc[c] = "done"
Code == {"none", "ZOK", "ZNONODE", "ZNODEEXISTS", "ZNOTEMPTY", "ZCONNECTIONLOSS"}

\* Nobody deletes, or overwrites, while creates run.
OnlyCreates == Calls("delete") = {} /\ Calls("set") = {} /\ scenario.others \subseteq {"create"}

Stored == [id : Call \cup Nat \cup {NoId}, len : Int]

\* Every variable has its type, a call always has something left to do until
\* it has its result, and no node is without its parent.
TypeOK ==
    /\ scenario \in Scenario
    /\ node \in [Path -> Stored]
    /\ \A p \in tree : Parent(p) \in tree \cup {Root}
    /\ others \in 0..MaxOthers
    /\ pc \in [Call -> {"idle", "create", "list", "delete", "again", "done", "length_error"}]
    /\ subs \in [Call -> Seq(Seq(Char))]
    /\ rc \in [Call -> Code]
    /\ got \in [Call -> Stored]
    /\ written \subseteq Stored
    /\ DOMAIN todo = Call
    /\ \A c \in Call :
         /\ pc[c] = "create" => todo[c] \in Seq(Seq(Char)) \ {<<>>}
         /\ pc[c] = "list" => todo[c] \in Seq({"list", "emplace"} \X Seq(Char))
         /\ pc[c] = "again" => todo[c] \in Seq(Int) \ {<<>>}
         /\ pc[c] = "delete" => subs[c] # <<>>
         /\ Ended(c) <=> rc[c] # "none"

\* "the prefix path will be created automatically" (config_monitor.hpp:122):
\* whatever other creators do at the same time, a create does not fail for
\* lack of a parent.
PrefixesSuffice ==
    OnlyCreates /\ ~scenario.loss =>
        \A c \in Calls("create") : Ended(c) => rc[c] \in {"ZOK", "ZNODEEXISTS"}

\* A create that reports success has stored its value, and one that reports
\* ZNODEEXISTS has not: of several creators of a path one succeeds
\* (create_path, async_create_path, cppzk.hpp:130, 189).
OkIffStored ==
    OnlyCreates =>
        \A c \in Calls("create") :
            Ended(c) /\ rc[c] # "ZCONNECTIONLOSS" => (rc[c] = "ZOK" <=> node[PathOf(c)] = Value(c, 0))

\* A delete reports success only when the path and everything below it is
\* gone, whatever was created in the meantime (delete_path, cppzk.hpp:212).
DeleteReportsTruth ==
    [][\A c \in Calls("delete") :
         rc[c] # "ZOK" /\ rc'[c] = "ZOK" => \A p \in tree' : ~Under(PathOf(c), p)]_vars

\* Of several deletes of one path at least one gets through: each stops at the
\* first node that another one has deleted, but they work in the same order
\* (recursive_get_sub_path, cppzk.hpp:417; delete_path, cppzk.hpp:213).
SomeDeleteGetsThrough ==
    (scenario.others = {} /\ Calls("create") = {} /\ ~scenario.loss) =>
        \A c \in Calls("delete") :
            (\A d \in Calls("delete") : PathOf(d) = PathOf(c) /\ Ended(d)) => PathOf(c) \notin tree

\* get_path_value returns bytes of one stored value and nothing beyond its
\* end, though the value may change between the two reads (cppzk.hpp:287).
NoGarbage ==
    \A c \in Calls("get") :
        got[c] # Nothing =>
            \E v \in written : /\ v.id = got[c].id
                               /\ got[c].len <= v.len
                               /\ v.len <= BufSize => got[c] = v

=============================================================================

------------------------------ MODULE MCZkOps ------------------------------
(***************************************************************************)
(* Instances of ZkOps for TLC.                                             *)
(***************************************************************************)
EXTENDS ZkOps

CONSTANTS c1, c2, c3

ListOrder == <<"a", "b">>

\* /a, /a/a, /a/b, /a/a/a, /a/a/b
A   == <<Slash, "a">>
AA  == Child(A, "a")
AB  == Child(A, "b")
AAA == Child(AA, "a")
AAB == Child(AA, "b")
DeepTree == {A, AA, AB, AAA, AAB}

ThreeCalls == {c1, c2, c3}

\* Creators of nested and of equal paths, among other creators.
Creates == [op     |-> [c \in ThreeCalls |-> "create"],
            path   |-> [c \in ThreeCalls |-> IF c = c1 THEN AA ELSE AAA],
            others |-> {"create"}, lengths |-> {0}, loss |-> FALSE]

\* Three deletes of one path.
Deletes == [op     |-> [c \in ThreeCalls |-> "delete"],
            path   |-> [c \in ThreeCalls |-> A],
            others |-> {}, lengths |-> {0}, loss |-> FALSE]

\* A create, a delete and a set at the same time, with losses.
Mixed == [op     |-> [c \in ThreeCalls |-> IF c = c1 THEN "create"
                                           ELSE IF c = c2 THEN "delete" ELSE "set"],
          path   |-> [c \in ThreeCalls |-> IF c = c2 THEN A ELSE AA],
          others |-> {"create", "delete"}, lengths |-> {0}, loss |-> TRUE]

\* One reader of values without data, empty, that fit the buffer and that do not.
OneGet == [c \in ThreeCalls |-> IF c = c1 THEN "get" ELSE "none"]
OnA    == [c \in ThreeCalls |-> A]
Gets == [op |-> OneGet, path |-> OnA,
         others |-> {"create", "set", "delete"}, lengths |-> {-1, 0, 1, 2, 3}, loss |-> TRUE]

AllScenarios == {Creates, Deletes, Mixed, Gets}

-----------------------------------------------------------------------------
\* split_path on every string up to a length.
MaxLength == 8
String == UNION {[1..n -> {Slash, "a", "b"}] : n \in 1..MaxLength}

\* What ZooKeeper accepts: a leading separator, none at the end, no empty name.
WellFormed(path) ==
    /\ path[1] = Slash
    /\ path[Len(path)] # Slash
    /\ \A i \in 1..(Len(path) - 1) : path[i] = Slash => path[i + 1] # Slash

\* split_path yields every ancestor of the path and the path itself, once
\* each, a parent always before its child, so that creating them in order
\* never lacks a parent (split_path, cppzk.hpp:671).  The strings are gone
\* through once, before the first step.
SplitComplete ==
    \A path \in IF others = 0 /\ \A c \in Call : pc[c] = "idle" THEN String ELSE {} :
        WellFormed(path) => AncestorsInOrder(path, split_path(path))

=============================================================================

------------------------------- MODULE ZkPath -------------------------------
(***************************************************************************)
(* Path strings and cppzk::split_path.  A path string is a sequence over   *)
(* the separator and names; what a name consists of does not matter.       *)
(***************************************************************************)
EXTENDS Integers, Sequences, FiniteSets

Slash == "/"
Root  == <<>>       \* the path of the root, without its separator

Slashes(path) == {i \in DOMAIN path : path[i] = Slash}

\* std::string_view::find_last_of('/'), counting from 1; 0 is npos.
find_last_of(path) ==
    IF Slashes(path) = {} THEN 0
    ELSE CHOOSE i \in Slashes(path) : \A j \in Slashes(path) : j <= i

\* The path that path is a child of.
Parent(path) == SubSeq(path, 1, find_last_of(path) - 1)
Child(path, name) == path \o <<Slash, name>>

\* path is other or an ancestor of it.
Under(path, other) ==
    /\ Len(path) <= Len(other)
    /\ SubSeq(other, 1, Len(path)) = path
    /\ Len(path) < Len(other) => other[Len(path) + 1] = Slash

\* cut[i] is what the loop of split_path puts in front when i characters are
\* left; the first one it puts there is the empty path before the leading
\* separator.
Cuts(path) ==
    LET cut[i \in 0..Len(path)] ==
            LET pos == find_last_of(SubSeq(path, 1, i))
            IN  IF pos = 0 THEN <<>>
                ELSE Append(cut[pos - 1], SubSeq(path, 1, pos - 1))
    IN  cut

\* Mutant: the loop keeps the empty path in front.
Mut_split_path(path) == Append(Cuts(path)[Len(path)], path)

\* The prefixes of path, shortest first, and path itself.
split_path(path) ==
    IF Cardinality(Slashes(path)) = 1 THEN <<path>>
    ELSE Append(Tail(Cuts(path)[Len(path)]), path)

-----------------------------------------------------------------------------
\* What split_path is to compute: every ancestor of path and path itself, a
\* parent always right before its child.
Prefixes(path) == {SubSeq(path, 1, i) : i \in 1..Len(path)}

AncestorsInOrder(path, parts) ==
    /\ {parts[i] : i \in DOMAIN parts} = {p \in Prefixes(path) : Under(p, path)}
    /\ \A i \in DOMAIN parts : Parent(parts[i]) = IF i = 1 THEN Root ELSE parts[i - 1]
    /\ parts[Len(parts)] = path

=============================================================================

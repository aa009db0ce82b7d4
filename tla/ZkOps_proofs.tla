---------------------------- MODULE ZkOps_proofs ----------------------------
(***************************************************************************)
(* Theorems about ZkOps: what split_path computes for every path, and what *)
(* the operations on nodes guarantee for any tree, calls and other         *)
(* clients.  Induction is the least-number principle of the well-founded   *)
(* order on the natural numbers, applied to sets.                          *)
(***************************************************************************)
EXTENDS ZkOps, QueueTheorems, FiniteSetTheorems, WellFoundedInduction

\* A set of natural numbers that is not empty has a least element.
LEMMA Least ==
    ASSUME NEW T \in SUBSET Nat, T # {}
    PROVE  \E m \in T : \A n \in T : m <= n
<1>1. IsWellFoundedOn(OpToRel(<, Nat), Nat)
  BY NatLessThanWellFounded, Zenon
<1>2. PICK x \in T : \A y \in T : ~(<<y, x>> \in OpToRel(<, Nat))
  BY <1>1, WFMin, Zenon
<1>3. \A y \in T : ~(y < x)
  BY <1>2 DEF OpToRel
<1> QED
  BY <1>3

-----------------------------------------------------------------------------
(***************************************************************************)
(* Paths.                                                                  *)
(***************************************************************************)
\* find_last_of finds the last separator, and 0 when there is none.
LEMMA LastSlash ==
    ASSUME NEW S, NEW path \in Seq(S)
    PROVE  /\ find_last_of(path) \in 0 .. Len(path)
           /\ Slashes(path) = {} => find_last_of(path) = 0
           /\ Slashes(path) # {} => /\ find_last_of(path) \in Slashes(path)
                                    /\ \A j \in Slashes(path) : j <= find_last_of(path)
<1>1. Len(path) \in Nat /\ DOMAIN path = 1 .. Len(path)
  BY LenProperties
<1>2. CASE Slashes(path) = {}
  BY <1>1, <1>2 DEF find_last_of
<1>3. CASE Slashes(path) # {}
  <2>1. Slashes(path) \subseteq 1 .. Len(path)
    BY <1>1 DEF Slashes
  <2> DEFINE T == {n \in Nat : Len(path) - n \in Slashes(path)}
  <2>2. T # {}
    <3>1. PICK j \in Slashes(path) : TRUE
      BY <1>3
    <3>2. j \in 1 .. Len(path)
      BY <2>1, <3>1
    <3>3. Len(path) - j \in Nat /\ Len(path) - (Len(path) - j) = j
      BY <1>1, <3>2
    <3> QED
      BY <3>1, <3>3
  <2> HIDE DEF T
  <2>3. PICK m \in T : \A n \in T : m <= n
    <3>1. T \in SUBSET Nat
      BY DEF T
    <3> QED
      BY <2>2, <3>1, Least
  <2>4. m \in Nat /\ Len(path) - m \in Slashes(path)
    BY <2>3 DEF T
  <2>5. ASSUME NEW j \in Slashes(path) PROVE j <= Len(path) - m
    <3>1. j \in 1 .. Len(path)
      BY <2>1
    <3>2. Len(path) - j \in Nat /\ Len(path) - (Len(path) - j) = j
      BY <1>1, <3>1
    <3>3. Len(path) - j \in T
      BY <3>2 DEF T
    <3> QED
      BY <1>1, <2>3, <2>4, <3>1, <3>3
  <2>6. \E i \in Slashes(path) : \A j \in Slashes(path) : j <= i
    BY <2>4, <2>5
  <2>7. find_last_of(path) = CHOOSE i \in Slashes(path) : \A j \in Slashes(path) : j <= i
    BY <1>3 DEF find_last_of
  <2>8. /\ find_last_of(path) \in Slashes(path)
        /\ \A j \in Slashes(path) : j <= find_last_of(path)
    BY <2>6, <2>7
  <2> QED
    BY <1>1, <1>3, <2>1, <2>8
<1> QED
  BY <1>2, <1>3

\* A prefix of a path is a sequence with the same characters.
LEMMA PrefixFacts ==
    ASSUME NEW S, NEW path \in Seq(S), NEW n \in 0 .. Len(path)
    PROVE  /\ SubSeq(path, 1, n) \in Seq(S)
           /\ Len(SubSeq(path, 1, n)) = n
           /\ \A i \in 1 .. n : SubSeq(path, 1, n)[i] = path[i]
           /\ Slashes(SubSeq(path, 1, n)) = {i \in Slashes(path) : i <= n}
<1>1. Len(path) \in Nat /\ DOMAIN path = 1 .. Len(path)
  BY LenProperties
<1>2. /\ SubSeq(path, 1, n) \in Seq(S)
      /\ Len(SubSeq(path, 1, n)) = n
      /\ \A i \in 1 .. n : SubSeq(path, 1, n)[i] = path[i]
  <2>1. CASE n = 0
    <3>1. SubSeq(path, 1, n) = <<>>
      BY <2>1, SubSeqEmpty
    <3> QED
      BY <2>1, <3>1
  <2>2. CASE n # 0
    <3>1. \A i \in 1 .. n : path[i] \in S
      BY <1>1, ElementOfSeq
    <3>2. SubSeq(path, 1, n) = [i \in 1 .. n |-> path[i]]
      BY <1>1, <2>2
    <3> QED
      BY <3>1, <3>2, <1>1, IsASeq, LenProperties
  <2> QED
    BY <2>1, <2>2
<1>3. DOMAIN SubSeq(path, 1, n) = 1 .. n
  BY <1>2, LenProperties
<1> QED
  BY <1>1, <1>2, <1>3 DEF Slashes

\* Prefixes of one length of a prefix and of the path are the same.
LEMMA PrefixOfPrefix ==
    ASSUME NEW S, NEW path \in Seq(S), NEW n \in 0 .. Len(path), NEW k \in 0 .. n
    PROVE  SubSeq(SubSeq(path, 1, n), 1, k) = SubSeq(path, 1, k)
<1>1. Len(path) \in Nat
  BY LenProperties
<1> DEFINE p == SubSeq(path, 1, n)
           q == SubSeq(path, 1, k)
           r == SubSeq(p, 1, k)
<1>2. p \in Seq(S) /\ Len(p) = n /\ \A i \in 1 .. n : p[i] = path[i]
  BY PrefixFacts
<1>3. q \in Seq(S) /\ Len(q) = k /\ \A i \in 1 .. k : q[i] = path[i]
  <2>1. k \in 0 .. Len(path)
    BY <1>1
  <2> QED
    BY <2>1, PrefixFacts
<1> HIDE DEF p, q
<1>4. r \in Seq(S) /\ Len(r) = k /\ \A i \in 1 .. k : r[i] = p[i]
  BY <1>2, PrefixFacts
<1> HIDE DEF r
<1>5. \A i \in 1 .. k : r[i] = q[i]
  BY <1>2, <1>3, <1>4
<1>6. r = q
  BY <1>3, <1>4, <1>5, SeqEqual
<1> QED
  BY <1>6 DEF p, q, r

\* The parent of a path with a separator is the prefix before its last one.
LEMMA ParentFacts ==
    ASSUME NEW S, NEW path \in Seq(S), path # Root, path[1] = Slash
    PROVE  /\ Parent(path) \in Seq(S)
           /\ find_last_of(path) \in 1 .. Len(path)
           /\ path[find_last_of(path)] = Slash
           /\ Len(Parent(path)) = find_last_of(path) - 1
           /\ Parent(path) = SubSeq(path, 1, find_last_of(path) - 1)
           /\ \A i \in 1 .. Len(Parent(path)) : Parent(path)[i] = path[i]
           /\ Parent(path) # Root => Parent(path)[1] = Slash
<1>1. Len(path) \in Nat /\ DOMAIN path = 1 .. Len(path) /\ Len(path) # 0
  BY LenProperties, EmptySeq DEF Root
<1>2. 1 \in Slashes(path)
  BY <1>1 DEF Slashes
<1>3. find_last_of(path) \in Slashes(path)
  BY <1>2, LastSlash
<1>4. find_last_of(path) \in 1 .. Len(path) /\ path[find_last_of(path)] = Slash
  BY <1>1, <1>3 DEF Slashes
<1>5. find_last_of(path) - 1 \in 0 .. Len(path)
  BY <1>1, <1>4
<1>6. /\ Parent(path) \in Seq(S)
      /\ Len(Parent(path)) = find_last_of(path) - 1
      /\ \A i \in 1 .. find_last_of(path) - 1 : Parent(path)[i] = path[i]
  BY <1>5, PrefixFacts DEF Parent
<1>7. ASSUME Parent(path) # Root PROVE Parent(path)[1] = Slash
  <2>1. Len(Parent(path)) # 0
    BY <1>6, <1>7, EmptySeq DEF Root
  <2> QED
    BY <1>4, <1>6, <2>1
<1> QED
  BY <1>4, <1>6, <1>7 DEF Parent

\* The ancestors of a path, the root among them: the prefixes before a
\* separator.
Heads(path) == {SubSeq(path, 1, n) : n \in {k \in 0 .. Len(path) - 1 : path[k + 1] = Slash}}

\* The recursion of the loop is well-founded: Cuts satisfies its equation.
LEMMA CutsSolve ==
    ASSUME NEW S, NEW path \in Seq(S)
    PROVE  /\ DOMAIN Cuts(path) = 0 .. Len(path)
           /\ \A i \in 0 .. Len(path) :
                LET pos == find_last_of(SubSeq(path, 1, i))
                IN  Cuts(path)[i] = IF pos = 0 THEN <<>>
                                    ELSE Append(Cuts(path)[pos - 1], SubSeq(path, 1, pos - 1))
<1>1. Len(path) \in Nat
  BY LenProperties
<1> DEFINE L == Len(path)
           pos(i) == find_last_of(SubSeq(path, 1, i))
           D(g, i) == IF pos(i) = 0 THEN <<>> ELSE Append(g[pos(i) - 1], SubSeq(path, 1, pos(i) - 1))
           Solved(n) == \E g : g = [i \in 0 .. n - 1 |-> D(g, i)]
           T == {n \in 0 .. L + 1 : ~ Solved(n)}
<1>2. \A i \in 0 .. L : pos(i) \in 0 .. i
  <2> TAKE i \in 0 .. L
  <2>1. SubSeq(path, 1, i) \in Seq(S) /\ Len(SubSeq(path, 1, i)) = i
    BY PrefixFacts
  <2> QED
    BY <2>1, LastSlash
<1> HIDE DEF pos
<1>3. Solved(0)
  <2>1. 0 .. 0 - 1 = {}
    OBVIOUS
  <2> DEFINE g == [i \in 0 .. 0 - 1 |-> <<>>]
  <2>2. g = [i \in 0 .. 0 - 1 |-> D(g, i)]
    BY <2>1
  <2> QED
    BY <2>2
<1>4. ASSUME NEW n \in 0 .. L, Solved(n) PROVE Solved(n + 1)
  <2>1. PICK g : g = [i \in 0 .. n - 1 |-> D(g, i)]
    BY <1>4
  <2> DEFINE h == [i \in 0 .. n |-> IF i < n THEN g[i] ELSE D(g, i)]
  <2>2. ASSUME NEW i \in 0 .. n PROVE h[i] = D(h, i)
    <3>1. pos(i) \in 0 .. i
      BY <1>1, <1>2
    <3>2. pos(i) # 0 => h[pos(i) - 1] = g[pos(i) - 1]
      BY <3>1
    <3>3. D(h, i) = D(g, i)
      BY <3>2
    <3>4. i < n => g[i] = D(g, i)
      <4> HIDE DEF D
      <4> QED
        BY <2>1
    <3>5. h[i] = D(g, i)
      BY <3>4
    <3> QED
      BY <3>3, <3>5
  <2>3. h = [i \in 0 .. n |-> D(h, i)]
    <3>1. DOMAIN h = 0 .. n
      OBVIOUS
    <3> HIDE DEF h, D
    <3>2. h = [i \in 0 .. n |-> h[i]]
      BY <3>1 DEF h
    <3> QED
      BY <2>2, <3>2
  <2>4. (n + 1) - 1 = n
    OBVIOUS
  <2> HIDE DEF h
  <2> QED
    BY <2>3, <2>4
<1> HIDE DEF Solved
<1>5. T = {}
  <2> SUFFICES ASSUME T # {} PROVE FALSE
    OBVIOUS
  <2>1. T \in SUBSET Nat
    BY <1>1
  <2>2. PICK m \in T : \A n \in T : m <= n
    BY <2>1, Least
  <2>3. m \in 0 .. L + 1 /\ m # 0 /\ ~ Solved(m)
    BY <1>3, <2>2
  <2>4. m - 1 \in 0 .. L /\ m - 1 \in 0 .. L + 1 /\ (m - 1) + 1 = m
    BY <1>1, <2>3
  <2>5. m - 1 \notin T
    BY <1>1, <2>2, <2>3
  <2>6. Solved(m - 1)
    BY <2>4, <2>5
  <2> QED
    BY <1>4, <2>3, <2>4, <2>6
<1>6. Solved(L + 1)
  <2>1. L + 1 \in 0 .. L + 1
    BY <1>1
  <2> QED
    BY <1>5, <2>1
<1>7. \E g : g = [i \in 0 .. L |-> D(g, i)]
  <2>1. (L + 1) - 1 = L
    BY <1>1
  <2> QED
    BY <1>6, <2>1 DEF Solved
<1>8. Cuts(path) = CHOOSE g : g = [i \in 0 .. L |-> D(g, i)]
  BY DEF Cuts, pos
<1>9. Cuts(path) = [i \in 0 .. L |-> D(Cuts(path), i)]
  BY <1>7, <1>8, Zenon
<1> HIDE DEF D
<1>10. DOMAIN Cuts(path) = 0 .. L /\ \A i \in 0 .. L : Cuts(path)[i] = D(Cuts(path), i)
  BY <1>9
<1> QED
  BY <1>10 DEF D, pos

\* A sequence of paths that leads from a child of the root to path, each the
\* parent of the next.
Leads(parts, path) ==
    /\ parts # <<>>
    /\ parts[Len(parts)] = path
    /\ Parent(parts[1]) = Root
    /\ \A k \in 1 .. Len(parts) - 1 : Parent(parts[k + 1]) = parts[k]

\* The list of the loop leads to the parent of what is left of the path, and
\* begins with the root.
CutRight(S, path, i) ==
    LET q == Cuts(path)[i]
        p == SubSeq(path, 1, i)
    IN  /\ q \in Seq(Seq(S))
        /\ Slashes(p) = {} => q = <<>>
        /\ Slashes(p) # {} => /\ q # <<>>
                              /\ q[1] = Root
                              /\ q[Len(q)] = Parent(p)
        /\ \A k \in 1 .. Len(q) - 1 : Parent(q[k + 1]) = q[k]
        /\ \A k \in 1 .. Len(q) : q[k] \in Heads(path) /\ (k # 1 => q[k] # Root)

\* One turn of the loop.
LEMMA CutStep ==
    ASSUME NEW S, NEW path \in Seq(S), path # Root, path[1] = Slash,
           NEW i \in 0 .. Len(path),
           \A j \in 0 .. i - 1 : CutRight(S, path, j)
    PROVE  CutRight(S, path, i)
<1>1. Len(path) \in Nat /\ DOMAIN path = 1 .. Len(path) /\ Len(path) # 0
  BY LenProperties, EmptySeq DEF Root
<1> DEFINE p == SubSeq(path, 1, i)
           pos == find_last_of(p)
           C == Cuts(path)
<1>2. p \in Seq(S) /\ Len(p) = i /\ Slashes(p) = {k \in Slashes(path) : k <= i}
  BY PrefixFacts
<1>3. C[i] = IF pos = 0 THEN <<>> ELSE Append(C[pos - 1], SubSeq(path, 1, pos - 1))
  BY CutsSolve
<1>4. /\ pos \in 0 .. i
      /\ Slashes(p) = {} => pos = 0
      /\ Slashes(p) # {} => pos \in Slashes(p)
  <2> HIDE DEF p
  <2> QED
    BY <1>2, LastSlash
<1>5. CASE Slashes(p) = {}
  <2>1. C[i] = <<>>
    BY <1>3, <1>4, <1>5
  <2> QED
    BY <1>5, <2>1 DEF CutRight
<1>6. CASE Slashes(p) # {}
  <2> DEFINE j == pos - 1
             r == SubSeq(path, 1, j)
             q == C[j]
  <2>1. pos \in 1 .. i /\ pos \in 1 .. Len(path) /\ path[pos] = Slash
    BY <1>1, <1>2, <1>4, <1>6 DEF Slashes
  <2>2. j \in 0 .. i - 1 /\ j \in 0 .. Len(path) - 1 /\ j \in 0 .. Len(path) /\ j + 1 = pos /\ j \in 0 .. i
    BY <1>1, <2>1
  <2>3. C[i] = Append(q, r)
    BY <1>3, <2>1
  <2>4. r \in Seq(S) /\ Len(r) = j /\ Slashes(r) = {k \in Slashes(path) : k <= j}
    BY <2>2, PrefixFacts
  <2>5. r = Parent(p)
    BY <2>2, PrefixOfPrefix DEF Parent
  <2>6. r \in Heads(path)
    BY <2>1, <2>2 DEF Heads
  <2>7. CutRight(S, path, j)
    BY <2>2
  <2>8. /\ q \in Seq(Seq(S))
        /\ Slashes(r) = {} => q = <<>>
        /\ Slashes(r) # {} => q # <<>> /\ q[1] = Root /\ q[Len(q)] = Parent(r)
        /\ \A k \in 1 .. Len(q) - 1 : Parent(q[k + 1]) = q[k]
        /\ \A k \in 1 .. Len(q) : q[k] \in Heads(path) /\ (k # 1 => q[k] # Root)
    BY <2>7 DEF CutRight
  <2>9. Slashes(r) = {} => r = Root
    <3>1. 1 \in Slashes(path)
      BY <1>1 DEF Slashes
    <3>2. Slashes(r) = {} => j = 0
      BY <2>2, <2>4, <3>1
    <3> QED
      BY <2>4, <3>2, EmptySeq DEF Root
  <2>10. Slashes(r) # {} => r # Root
    <3>1. Slashes(<<>>) = {}
      BY DEF Slashes
    <3> QED
      BY <3>1 DEF Root
  <2> DEFINE n == Append(q, r)
  <2> HIDE DEF q, r, p, j, C, pos
  <2>11. /\ n \in Seq(Seq(S))
         /\ Len(q) \in Nat
         /\ DOMAIN q = 1 .. Len(q)
         /\ DOMAIN n = 1 .. Len(q) + 1
         /\ n[Len(q) + 1] = r
         /\ \A k \in DOMAIN q : n[k] = q[k]
    BY <2>4, <2>8, PutLast
  <2>12. Len(n) = Len(q) + 1 /\ n # <<>>
    <3>1. Len(n) \in Nat /\ DOMAIN n = 1 .. Len(n)
      BY <2>11, LenProperties
    <3> HIDE DEF n
    <3>2. Len(n) = Len(q) + 1
      BY <2>11, <3>1
    <3> QED
      BY <2>11, <3>2, EmptySeq
  <2> HIDE DEF n
  <2>13. (q = <<>> => Len(q) = 0) /\ (q # <<>> => Len(q) \in Nat \ {0})
    BY <2>8, <2>11, EmptySeq
  <2>14. n[1] = Root /\ n[Len(n)] = Parent(p)
    <3>1. CASE Slashes(r) = {}
      BY <2>5, <2>8, <2>9, <2>11, <2>12, <2>13, <3>1
    <3>2. CASE Slashes(r) # {}
      BY <2>5, <2>8, <2>11, <2>12, <2>13, <3>2
    <3> QED
      BY <3>1, <3>2
  <2>15. ASSUME NEW k \in 1 .. Len(n) - 1 PROVE Parent(n[k + 1]) = n[k]
    <3>1. PICK N \in Nat : N = Len(q) /\ Len(n) = N + 1
      BY <2>11, <2>12
    <3>2. k \in 1 .. N
      BY <3>1
    <3>3. k \in 1 .. Len(q) /\ n[k] = q[k]
      BY <2>11, <3>1, <3>2
    <3>4. CASE k = Len(q)
      <4>1. Slashes(r) # {}
        BY <2>8, <2>13, <3>3
      <4> QED
        BY <2>8, <2>11, <3>3, <3>4, <4>1
    <3>5. CASE k # Len(q)
      <4>1. k \in 1 .. Len(q) - 1 /\ k + 1 \in 1 .. Len(q)
        BY <3>1, <3>2, <3>5
      <4> QED
        BY <2>8, <2>11, <3>3, <4>1
    <3> QED
      BY <3>4, <3>5
  <2>16. ASSUME NEW k \in 1 .. Len(n) PROVE n[k] \in Heads(path) /\ (k # 1 => n[k] # Root)
    <3>1. CASE k = Len(q) + 1
      <4>1. k # 1 => Slashes(r) # {}
        BY <2>8, <2>13, <3>1
      <4> QED
        BY <2>6, <2>10, <2>11, <3>1, <4>1
    <3>2. CASE k # Len(q) + 1
      <4>1. PICK N \in Nat : N = Len(q) /\ Len(n) = N + 1
        BY <2>11, <2>12
      <4>2. k \in 1 .. N
        BY <3>2, <4>1
      <4>3. k \in 1 .. Len(q) /\ n[k] = q[k]
        BY <2>11, <4>1, <4>2
      <4> QED
        BY <2>8, <4>3
    <3> QED
      BY <3>1, <3>2
  <2>17. Cuts(path)[i] = n /\ p = SubSeq(path, 1, i)
    BY <2>3 DEF n, C, p
  <2> QED
    BY <1>6, <2>11, <2>12, <2>14, <2>15, <2>16, <2>17 DEF CutRight
<1> QED
  BY <1>5, <1>6

\* What the loop has put together at its end.
LEMMA CutWhole ==
    ASSUME NEW S, NEW path \in Seq(S), path # Root, path[1] = Slash
    PROVE  \A i \in 0 .. Len(path) : CutRight(S, path, i)
<1>1. Len(path) \in Nat
  BY LenProperties
<1> DEFINE T == {i \in 0 .. Len(path) : ~ CutRight(S, path, i)}
<1>2. ASSUME T # {} PROVE FALSE
  <2>1. T \in SUBSET Nat
    BY <1>1
  <2>2. PICK m \in T : \A n \in T : m <= n
    BY <1>2, <2>1, Least
  <2>3. m \in 0 .. Len(path) /\ ~ CutRight(S, path, m)
    BY <2>2
  <2>4. ASSUME NEW j \in 0 .. m - 1 PROVE CutRight(S, path, j)
    <3>1. j \in 0 .. Len(path) /\ ~ (m <= j)
      BY <1>1, <2>3
    <3> QED
      BY <2>2, <3>1
  <2> QED
    BY <2>3, <2>4, CutStep
<1> QED
  BY <1>2

\* split_path leads from the root to the path, over ancestors of the path.
LEMMA SplitLeads ==
    ASSUME NEW S, NEW path \in Seq(S), path # Root, path[1] = Slash
    PROVE  /\ split_path(path) \in Seq(Seq(S))
           /\ Leads(split_path(path), path)
           /\ \A k \in 1 .. Len(split_path(path)) :
                split_path(path)[k] \in (Heads(path) \ {Root}) \cup {path}
<1>1. Len(path) \in Nat /\ DOMAIN path = 1 .. Len(path) /\ Len(path) # 0
  BY LenProperties, EmptySeq DEF Root
<1> DEFINE q == Cuts(path)[Len(path)]
<1>2. path = SubSeq(path, 1, Len(path))
  BY SubSeqFull
<1>3. 1 \in Slashes(path)
  BY <1>1 DEF Slashes
<1>4. /\ q \in Seq(Seq(S))
      /\ q # <<>> /\ q[1] = Root /\ q[Len(q)] = Parent(path)
      /\ \A k \in 1 .. Len(q) - 1 : Parent(q[k + 1]) = q[k]
      /\ \A k \in 1 .. Len(q) : q[k] \in Heads(path) /\ (k # 1 => q[k] # Root)
  <2>1. CutRight(S, path, Len(path))
    BY <1>1, CutWhole
  <2> QED
    BY <1>2, <1>3, <2>1 DEF CutRight
<1> HIDE DEF q
<1> DEFINE t == Tail(q)
<1>5. /\ t \in Seq(Seq(S)) /\ Len(q) \in Nat /\ Len(q) # 0 /\ Len(t) = Len(q) - 1
      /\ DOMAIN t = 1 .. Len(q) - 1
      /\ \A k \in DOMAIN t : t[k] = q[k + 1]
  BY <1>4, TakeHead, EmptySeq
<1> HIDE DEF t
<1>6. PICK N \in Nat : N = Len(t) /\ Len(q) = N + 1
  BY <1>5
<1>7. /\ \A k \in 1 .. N : t[k] = q[k + 1] /\ k + 1 \in 1 .. Len(q) /\ k + 1 # 1
      /\ \A k \in 1 .. N - 1 : k \in 1 .. N /\ k + 1 \in 1 .. N /\ k + 1 \in 1 .. Len(q) - 1
  <2>1. DOMAIN t = 1 .. N
    BY <1>5, <1>6
  <2>2. \A k \in 1 .. N : t[k] = q[k + 1]
    BY <1>5, <2>1
  <2>3. /\ \A k \in 1 .. N : k + 1 \in 1 .. N + 1 /\ k + 1 # 1
        /\ \A k \in 1 .. N - 1 : k \in 1 .. N /\ k + 1 \in 1 .. N /\ k + 1 \in 1 .. (N + 1) - 1
    OBVIOUS
  <2> QED
    BY <1>6, <2>2, <2>3
<1>8. Append(t, path) \in Seq(Seq(S)) /\ Len(Append(t, path)) = N + 1
  BY <1>5, <1>6, AppendProperties
<1>9. Append(t, path)[N + 1] = path /\ \A k \in 1 .. N : Append(t, path)[k] = t[k]
  BY <1>5, <1>6, AppendProperties
<1> DEFINE s == Append(t, path)
<1>10. Leads(s, path) /\ \A k \in 1 .. Len(s) : s[k] \in (Heads(path) \ {Root}) \cup {path}
  <2> HIDE DEF s
  <2>1. s \in Seq(Seq(S)) /\ Len(s) = N + 1 /\ s[N + 1] = path /\ \A k \in 1 .. N : s[k] = t[k]
    BY <1>8, <1>9 DEF s
  <2>2. s # <<>>
    BY <2>1, EmptySeq
  <2>3. Parent(s[1]) = Root
    <3>1. CASE N = 0
      <4>1. q[1] = Parent(path)
        BY <1>4, <1>6, <3>1
      <4> QED
        BY <1>4, <2>1, <3>1, <4>1
    <3>2. CASE N # 0
      <4>1. s[1] = t[1] /\ t[1] = q[2] /\ 1 \in 1 .. Len(q) - 1
        BY <1>6, <1>7, <2>1, <3>2
      <4>2. Parent(q[1 + 1]) = q[1]
        BY <1>4, <4>1
      <4> QED
        BY <1>4, <4>1, <4>2
    <3> QED
      BY <3>1, <3>2
  <2>4. ASSUME NEW k \in 1 .. N PROVE Parent(s[k + 1]) = s[k]
    <3>1. s[k] = q[k + 1] /\ k + 1 \in 1 .. Len(q)
      BY <1>7, <2>1
    <3>2. CASE k = N
      <4>1. s[k + 1] = path /\ s[k] = q[Len(q)]
        BY <1>6, <2>1, <3>1, <3>2
      <4> QED
        BY <1>4, <4>1
    <3>3. CASE k # N
      <4>1. k \in 1 .. N - 1
        BY <3>3
      <4>2. s[k + 1] = q[(k + 1) + 1] /\ k + 1 \in 1 .. Len(q) - 1
        BY <1>7, <2>1, <4>1
      <4> QED
        BY <1>4, <3>1, <4>2
    <3> QED
      BY <3>2, <3>3
  <2>5. ASSUME NEW k \in 1 .. N + 1 PROVE s[k] \in (Heads(path) \ {Root}) \cup {path}
    <3>1. CASE k = N + 1
      BY <2>1, <3>1
    <3>2. CASE k # N + 1
      <4>1. k \in 1 .. N
        BY <3>2
      <4>2. s[k] = q[k + 1] /\ k + 1 \in 1 .. Len(q) /\ k + 1 # 1
        BY <1>7, <2>1, <4>1
      <4> QED
        BY <1>4, <4>2
    <3> QED
      BY <3>1, <3>2
  <2>6. (N + 1) - 1 = N
    OBVIOUS
  <2> QED
    BY <2>1, <2>2, <2>3, <2>4, <2>5, <2>6 DEF Leads
<1>11. CASE split_path(path) = Append(t, path)
  BY <1>8, <1>10, <1>11
<1>12. CASE split_path(path) # Append(t, path)
  <2>1. Cardinality(Slashes(path)) = 1 /\ split_path(path) = <<path>>
    BY <1>12 DEF split_path, q, t
  <2>2. Parent(path) = Root
    <3>1. IsFiniteSet(Slashes(path))
      <4>1. Slashes(path) \subseteq 1 .. Len(path) /\ IsFiniteSet(1 .. Len(path))
        BY <1>1, FS_Interval DEF Slashes
      <4> QED
        BY <4>1, FS_Subset
    <3>2. \E x : Slashes(path) = {x}
      BY <2>1, <3>1, FS_Singleton
    <3>3. Slashes(path) = {1}
      BY <1>3, <3>2
    <3>4. find_last_of(path) = 1
      BY <3>3, LastSlash
    <3>5. Parent(path) \in Seq(S) /\ Len(Parent(path)) = find_last_of(path) - 1
      BY ParentFacts
    <3> QED
      BY <3>4, <3>5, EmptySeq DEF Root
  <2>3. /\ <<path>> \in Seq(Seq(S)) /\ Len(<<path>>) = 1 /\ <<path>>[1] = path /\ <<path>> # <<>>
    OBVIOUS
  <2>4. Leads(<<path>>, path)
    BY <2>2, <2>3 DEF Leads
  <2> QED
    BY <2>1, <2>3, <2>4
<1> QED
  BY <1>11, <1>12

\* An ancestor of a path begins with the separator and lies above the path.
LEMMA HeadAbove ==
    ASSUME NEW S, NEW path \in Seq(S), path # Root, path[1] = Slash,
           NEW p \in (Heads(path) \ {Root}) \cup {path}
    PROVE  /\ p \in Seq(S) /\ p # Root /\ p[1] = Slash
           /\ p \in Prefixes(path)
           /\ Under(p, path)
<1>1. Len(path) \in Nat /\ Len(path) # 0 /\ path = SubSeq(path, 1, Len(path))
  BY LenProperties, EmptySeq, SubSeqFull DEF Root
<1>2. CASE p = path
  <2>1. Len(path) \in 1 .. Len(path) /\ Len(path) <= Len(path) /\ ~ (Len(path) < Len(path))
    BY <1>1
  <2>2. path \in Prefixes(path)
    BY <1>1, <2>1 DEF Prefixes
  <2>3. Under(path, path)
    BY <1>1, <2>1 DEF Under
  <2> QED
    BY <1>2, <2>2, <2>3
<1>3. CASE p # path
  <2>1. PICK n \in 0 .. Len(path) - 1 : path[n + 1] = Slash /\ p = SubSeq(path, 1, n)
    BY <1>3 DEF Heads
  <2>2. n \in 0 .. Len(path) /\ n < Len(path)
    <3>1. PICK N \in Nat : N = Len(path)
      BY <1>1
    <3>2. n \in 0 .. N - 1
      BY <2>1, <3>1
    <3> QED
      BY <3>1, <3>2
  <2>3. p \in Seq(S) /\ Len(p) = n /\ \A i \in 1 .. n : p[i] = path[i]
    BY <2>1, <2>2, PrefixFacts
  <2>4. n # 0
    BY <1>3, <2>3, EmptySeq DEF Root
  <2>5. n \in 1 .. Len(path) /\ 1 \in 1 .. n
    BY <1>1, <2>2, <2>4
  <2>6. p \in Prefixes(path)
    BY <2>1, <2>5 DEF Prefixes
  <2>7. Under(p, path)
    BY <2>1, <2>2, <2>3 DEF Under
  <2> QED
    BY <1>3, <2>3, <2>5, <2>6, <2>7
<1> QED
  BY <1>2, <1>3

\* What lies above a path lies above its parent, or is the path.
LEMMA ParentUnder ==
    ASSUME NEW S, NEW p \in Seq(S), NEW q \in Seq(S), q # Root, q[1] = Slash,
           Under(p, q), p # q
    PROVE  Under(p, Parent(q)) /\ Len(Parent(q)) < Len(q)
<1>1. Len(p) \in Nat /\ Len(q) \in Nat /\ DOMAIN q = 1 .. Len(q) /\ q = SubSeq(q, 1, Len(q))
  BY LenProperties, SubSeqFull
<1> DEFINE n == Len(p)
           last == find_last_of(q)
<1>2. n <= Len(q) /\ SubSeq(q, 1, n) = p /\ (n < Len(q) => q[n + 1] = Slash)
  BY DEF Under
<1>3. n < Len(q) /\ q[n + 1] = Slash
  BY <1>1, <1>2
<1>4. n + 1 \in Slashes(q)
  BY <1>1, <1>3 DEF Slashes
<1>5. n + 1 <= last
  BY <1>4, LastSlash
<1>6. /\ Parent(q) \in Seq(S)
      /\ last \in 1 .. Len(q)
      /\ Len(Parent(q)) = last - 1
      /\ Parent(q) = SubSeq(q, 1, last - 1)
      /\ \A i \in 1 .. Len(Parent(q)) : Parent(q)[i] = q[i]
  BY ParentFacts
<1> HIDE DEF last
<1>7. last - 1 \in 0 .. Len(q) /\ n \in 0 .. last - 1
  BY <1>1, <1>5, <1>6
<1>8. SubSeq(Parent(q), 1, n) = p
  BY <1>2, <1>6, <1>7, PrefixOfPrefix
<1>9. n < last - 1 => Parent(q)[n + 1] = Slash
  BY <1>1, <1>3, <1>6
<1> QED
  BY <1>1, <1>6, <1>7, <1>8, <1>9 DEF Under

\* split_path yields every ancestor of a path that begins with a separator,
\* and the path itself, each right after its parent (split_path,
\* cppzk.hpp:671): creating them in this order never lacks a parent.
THEOREM SplitCorrect ==
    ASSUME NEW S, NEW path \in Seq(S), path # Root, path[1] = Slash
    PROVE  AncestorsInOrder(path, split_path(path))
<1> DEFINE parts == split_path(path)
<1>1. /\ parts \in Seq(Seq(S))
      /\ Leads(parts, path)
      /\ \A k \in 1 .. Len(parts) : parts[k] \in (Heads(path) \ {Root}) \cup {path}
  BY SplitLeads
<1> HIDE DEF parts
<1>2. Len(parts) \in Nat /\ Len(parts) # 0 /\ DOMAIN parts = 1 .. Len(parts)
  BY <1>1, LenProperties, EmptySeq DEF Leads
<1>3. \A k \in 1 .. Len(parts) : /\ parts[k] \in Seq(S) /\ parts[k] # Root /\ parts[k][1] = Slash
                                 /\ parts[k] \in Prefixes(path) /\ Under(parts[k], path)
  BY <1>1, HeadAbove
<1>4. \A i \in DOMAIN parts : Parent(parts[i]) = IF i = 1 THEN Root ELSE parts[i - 1]
  <2> TAKE i \in DOMAIN parts
  <2>1. CASE i = 1
    BY <1>1, <2>1 DEF Leads
  <2>2. CASE i # 1
    <3>1. PICK k \in 1 .. Len(parts) - 1 : i = k + 1
      <4>1. i - 1 \in 1 .. Len(parts) - 1 /\ i = (i - 1) + 1
        BY <1>2, <2>2
      <4> QED
        BY <4>1
    <3>2. Parent(parts[k + 1]) = parts[k] /\ i - 1 = k
      BY <1>1, <3>1 DEF Leads
    <3> QED
      BY <2>2, <3>1, <3>2
  <2> QED
    BY <2>1, <2>2
<1>5. ASSUME NEW p \in Prefixes(path), Under(p, path) PROVE \E i \in DOMAIN parts : p = parts[i]
  <2>1. p \in Seq(S) /\ Len(p) \in Nat \ {0}
    <3>1. PICK n \in 1 .. Len(path) : p = SubSeq(path, 1, n)
      BY <1>5 DEF Prefixes
    <3>2. n \in 0 .. Len(path) /\ n \in Nat \ {0}
      BY LenProperties
    <3> QED
      BY <3>1, <3>2, PrefixFacts
  <2> DEFINE T == {i \in 1 .. Len(parts) : Under(p, parts[i])}
  <2>2. Len(parts) \in T
    BY <1>1, <1>2, <1>5 DEF Leads
  <2>3. T \in SUBSET Nat
    OBVIOUS
  <2>4. PICK m \in T : \A n \in T : m <= n
    BY <2>2, <2>3, Least
  <2>5. m \in 1 .. Len(parts) /\ Under(p, parts[m])
    BY <2>4
  <2>6. CASE p = parts[m]
    BY <1>2, <2>5, <2>6
  <2>7. CASE p # parts[m]
    <3>1. Under(p, Parent(parts[m]))
      BY <1>3, <2>1, <2>5, <2>7, ParentUnder
    <3>2. CASE m = 1
      <4>1. Parent(parts[m]) = <<>>
        BY <1>2, <1>4, <3>2 DEF Root
      <4>2. Len(p) <= Len(<<>>)
        BY <3>1, <4>1 DEF Under
      <4> QED
        BY <2>1, <4>2
    <3>3. CASE m # 1
      <4>1. m - 1 \in 1 .. Len(parts) /\ ~ (m <= m - 1)
        BY <1>2, <2>5, <3>3
      <4>2. Under(p, parts[m - 1])
        BY <1>2, <1>4, <2>5, <3>1, <3>3
      <4>3. m - 1 \in T
        BY <4>1, <4>2
      <4> QED
        BY <2>4, <4>1, <4>3
    <3> QED
      BY <3>2, <3>3
  <2> QED
    BY <2>6, <2>7
<1>6. {parts[i] : i \in DOMAIN parts} = {p \in Prefixes(path) : Under(p, path)}
  BY <1>2, <1>3, <1>5
<1>7. parts[Len(parts)] = path
  BY <1>1 DEF Leads
<1> QED
  BY <1>4, <1>6, <1>7 DEF AncestorsInOrder, parts

-----------------------------------------------------------------------------
(***************************************************************************)
(* What the recursions of the model yield.                                 *)
(***************************************************************************)
\* The children of p among the first n names, in the order of the names.
Listed(s, n, p) ==
    /\ s \in Seq(Char)
    /\ \A k \in DOMAIN s : \E i \in 1 .. n : s[k] = Names[i] /\ Child(p, Names[i]) \in tree
    /\ \A i \in 1 .. n : Child(p, Names[i]) \in tree => \E k \in DOMAIN s : s[k] = Names[i]
    /\ \A k, l \in DOMAIN s : k < l => \E i, j \in 1 .. n : i < j /\ s[k] = Names[i] /\ s[l] = Names[j]

\* The loop of get_sub_path goes on to the next name.
LEMMA ListedNext ==
    ASSUME NEW p, NEW n \in Nat, NEW s, Listed(s, n, p), Names[n + 1] \in Char
    PROVE  /\ Child(p, Names[n + 1]) \in tree => Listed(Append(s, Names[n + 1]), n + 1, p)
           /\ Child(p, Names[n + 1]) \notin tree => Listed(s, n + 1, p)
<1> DEFINE x == Names[n + 1]
           s2 == Append(s, x)
<1>1. s \in Seq(Char) /\ n + 1 \in 1 .. n + 1 /\ \A i \in 1 .. n : i \in 1 .. n + 1 /\ i < n + 1
  BY DEF Listed
<1>2. \A i \in 1 .. n + 1 : i = n + 1 \/ i \in 1 .. n
  OBVIOUS
<1>3. CASE Child(p, x) \notin tree
  <2> HIDE DEF s2
  <2> QED
    BY <1>1, <1>2, <1>3 DEF Listed
<1>4. CASE Child(p, x) \in tree
  <2>1. /\ s2 \in Seq(Char) /\ Len(s) \in Nat /\ DOMAIN s = 1 .. Len(s)
        /\ DOMAIN s2 = 1 .. Len(s) + 1 /\ s2[Len(s) + 1] = x
        /\ \A k \in DOMAIN s : k \in DOMAIN s2 /\ s2[k] = s[k]
    BY <1>1, PutLast
  <2> HIDE DEF s2
  <2>2. \A k \in DOMAIN s2 : k \in DOMAIN s \/ k = Len(s) + 1
    BY <2>1
  <2>3. \A k \in DOMAIN s2 : \E i \in 1 .. n + 1 : s2[k] = Names[i] /\ Child(p, Names[i]) \in tree
    <3> SUFFICES ASSUME NEW k \in DOMAIN s2
                 PROVE  \E i \in 1 .. n + 1 : s2[k] = Names[i] /\ Child(p, Names[i]) \in tree
      OBVIOUS
    <3>1. CASE k \in DOMAIN s
      <4>1. PICK i \in 1 .. n : s[k] = Names[i] /\ Child(p, Names[i]) \in tree
        BY <3>1 DEF Listed
      <4> QED
        BY <1>1, <2>1, <3>1, <4>1
    <3>2. CASE k = Len(s) + 1
      BY <1>1, <1>4, <2>1, <3>2
    <3> QED
      BY <2>2, <3>1, <3>2
  <2>4. \A i \in 1 .. n + 1 : Child(p, Names[i]) \in tree => \E k \in DOMAIN s2 : s2[k] = Names[i]
    <3>1. Len(s) + 1 \in DOMAIN s2
      BY <2>1
    <3> QED
      BY <1>2, <2>1, <3>1 DEF Listed
  <2>5. ASSUME NEW k \in DOMAIN s2, NEW l \in DOMAIN s2, k < l
        PROVE  \E i, j \in 1 .. n + 1 : i < j /\ s2[k] = Names[i] /\ s2[l] = Names[j]
    <3>1. k \in DOMAIN s
      BY <2>1, <2>5
    <3>2. CASE l \in DOMAIN s
      <4>1. PICK i \in 1 .. n, j \in 1 .. n : i < j /\ s[k] = Names[i] /\ s[l] = Names[j]
        BY <2>5, <3>1, <3>2 DEF Listed
      <4> QED
        BY <1>1, <2>1, <3>1, <3>2, <4>1
    <3>3. CASE l = Len(s) + 1
      <4>1. PICK i \in 1 .. n : s[k] = Names[i]
        BY <3>1 DEF Listed
      <4> QED
        BY <1>1, <2>1, <3>1, <3>3, <4>1
    <3> QED
      BY <2>2, <3>2, <3>3
  <2> QED
    BY <1>4, <2>1, <2>3, <2>4, <2>5 DEF Listed, s2
<1> QED
  BY <1>3, <1>4

\* get_sub_path lists the children of a path, each once.
LEMMA ChildrenListed ==
    ASSUME NEW p
    PROVE  Listed(ChildrenOf(p), Len(Names), p)
<1> DEFINE L == Len(Names)
           here(i) == Child(p, Names[i]) \in tree
           D(g, i) == IF i = 0 THEN <<>>
                      ELSE IF here(i) THEN Append(g[i - 1], Names[i]) ELSE g[i - 1]
           Solved(n) == \E g : g = [i \in 0 .. n |-> D(g, i)] /\ \A i \in 0 .. n : Listed(g[i], i, p)
           T == {n \in 0 .. L : ~ Solved(n)}
<1>1. L \in Nat /\ \A i \in 1 .. L : Names[i] \in Char
  <2>1. Names \in Seq(STRING)
    BY NameAssumption
  <2>2. L \in Nat /\ DOMAIN Names = 1 .. L
    BY <2>1, LenProperties
  <2> QED
    BY <2>2 DEF Char
<1> HIDE DEF here, L
<1>2. Solved(0)
  <2> DEFINE g == [i \in 0 .. 0 |-> <<>>]
  <2>1. \A i \in 0 .. 0 : D(g, i) = <<>>
    OBVIOUS
  <2>2. g = [i \in 0 .. 0 |-> D(g, i)]
    BY <2>1
  <2>3. \A i \in 0 .. 0 : Listed(g[i], i, p)
    BY DEF Listed
  <2> QED
    BY <2>2, <2>3
<1>3. ASSUME NEW n \in 0 .. L, n # L, Solved(n) PROVE Solved(n + 1)
  <2>1. PICK g : g = [i \in 0 .. n |-> D(g, i)] /\ \A i \in 0 .. n : Listed(g[i], i, p)
    BY <1>3
  <2> DEFINE h == [i \in 0 .. n + 1 |-> IF i <= n THEN g[i] ELSE D(g, i)]
  <2>2. n \in Nat /\ n + 1 \in 1 .. L
    BY <1>1, <1>3
  <2>3. ASSUME NEW i \in 0 .. n + 1 PROVE h[i] = D(h, i)
    <3>1. i # 0 => h[i - 1] = g[i - 1]
      BY <2>2
    <3>2. D(h, i) = D(g, i)
      BY <3>1
    <3>3. i <= n => g[i] = D(g, i)
      <4>1. \A j \in 0 .. n : g[j] = D(g, j)
        <5> HIDE DEF D
        <5> QED
          BY <2>1
      <4>2. i <= n => i \in 0 .. n
        BY <2>2
      <4> QED
        BY <4>1, <4>2
    <3>4. h[i] = D(g, i)
      BY <3>3
    <3> QED
      BY <3>2, <3>4
  <2>4. ASSUME NEW i \in 0 .. n + 1 PROVE Listed(h[i], i, p)
    <3>1. CASE i <= n
      BY <2>1, <2>2, <3>1
    <3>2. CASE ~ (i <= n)
      <4>1. i = n + 1 /\ i - 1 = n
        BY <2>2, <3>2
      <4>2. Listed(g[n], n, p) /\ Names[n + 1] \in Char
        BY <1>1, <2>1, <2>2
      <4>3. /\ here(n + 1) => Listed(Append(g[n], Names[n + 1]), n + 1, p)
            /\ ~ here(n + 1) => Listed(g[n], n + 1, p)
        BY <2>2, <4>2, ListedNext DEF here
      <4>4. Listed(D(g, i), i, p)
        BY <2>2, <4>1, <4>3
      <4> QED
        BY <2>2, <3>2, <4>4
    <3> QED
      BY <3>1, <3>2
  <2>5. h = [i \in 0 .. n + 1 |-> D(h, i)]
    <3>1. DOMAIN h = 0 .. n + 1
      OBVIOUS
    <3> HIDE DEF D
    <3>2. h = [i \in 0 .. n + 1 |-> h[i]]
      OBVIOUS
    <3> HIDE DEF h
    <3> QED
      BY <2>3, <3>2
  <2> HIDE DEF h
  <2> QED
    BY <2>4, <2>5
<1> HIDE DEF Solved
<1>4. T = {}
  <2> SUFFICES ASSUME T # {} PROVE FALSE
    OBVIOUS
  <2>1. T \in SUBSET Nat
    BY <1>1
  <2>2. PICK m \in T : \A n \in T : m <= n
    BY <2>1, Least
  <2>3. m \in 0 .. L /\ m # 0 /\ ~ Solved(m)
    BY <1>2, <2>2
  <2>4. m - 1 \in 0 .. L /\ m - 1 # L /\ (m - 1) + 1 = m
    BY <1>1, <2>3
  <2>5. Solved(m - 1)
    BY <1>1, <2>2, <2>3, <2>4
  <2> QED
    BY <1>3, <2>3, <2>4, <2>5
<1>5. Solved(L)
  BY <1>1, <1>4
<1> DEFINE found == CHOOSE g : g = [i \in 0 .. L |-> D(g, i)]
<1>6. ChildrenOf(p) = found[L]
  BY DEF ChildrenOf, here, L
<1>7. PICK g : g = [i \in 0 .. L |-> D(g, i)] /\ \A i \in 0 .. L : Listed(g[i], i, p)
  BY <1>5 DEF Solved
<1>8. found = [i \in 0 .. L |-> D(found, i)]
  BY <1>7, Zenon
<1> HIDE DEF found
<1>9. \A i \in 0 .. L : found[i] = g[i]
  <2> DEFINE U == {i \in 0 .. L : found[i] # g[i]}
  <2> SUFFICES ASSUME U # {} PROVE FALSE
    OBVIOUS
  <2>1. U \in SUBSET Nat
    BY <1>1
  <2>2. PICK m \in U : \A n \in U : m <= n
    BY <2>1, Least
  <2>3. m \in 0 .. L /\ found[m] # g[m]
    BY <2>2
  <2>4. m # 0 => m - 1 \in 0 .. L /\ m - 1 \notin U
    BY <1>1, <2>2, <2>3
  <2>5. m # 0 => found[m - 1] = g[m - 1]
    BY <2>4
  <2>6. D(found, m) = D(g, m)
    BY <2>5
  <2>7. found[m] = D(found, m) /\ g[m] = D(g, m)
    <3> HIDE DEF D
    <3> QED
      BY <1>7, <1>8, <2>3
  <2> QED
    BY <2>3, <2>6, <2>7
<1>10. L \in 0 .. L
  BY <1>1
<1>11. Listed(found[L], L, p)
  BY <1>7, <1>9, <1>10
<1> QED
  BY <1>6, <1>11 DEF L

\* Recurse leaves listings and emplacements of paths.
Items == {"list", "emplace"} \X Seq(Char)

\* The loop of recursive_get_sub_path over a path.
LEMMA RecurseType ==
    ASSUME NEW p \in Seq(Char)
    PROVE  Recurse(p) \in Seq(Items)
<1> DEFINE ch == ChildrenOf(p)
           child(i) == Child(p, ch[(i + 1) \div 2])
<1>1. ch \in Seq(Char) /\ Len(ch) \in Nat
  BY ChildrenListed, LenProperties DEF Listed
<1> HIDE DEF ch
<1>2. \A i \in 1 .. 2 * Len(ch) : (i + 1) \div 2 \in 1 .. Len(ch)
  BY <1>1
<1>3. \A i \in 1 .. 2 * Len(ch) : child(i) \in Seq(Char)
  <2> TAKE i \in 1 .. 2 * Len(ch)
  <2>1. ch[(i + 1) \div 2] \in Char
    BY <1>1, <1>2, ElementOfSeq
  <2>2. <<Slash, ch[(i + 1) \div 2]>> \in Seq(Char)
    <3>1. ASSUME NEW R, NEW x \in R, NEW y \in R PROVE <<x, y>> \in Seq(R)
      OBVIOUS
    <3>2. Slash \in Char
      BY DEF Char
    <3> QED
      BY <2>1, <3>1, <3>2
  <2> QED
    BY <2>2, ConcatProperties DEF Child
<1> HIDE DEF child
<1> DEFINE e(i) == IF i % 2 = 1 THEN Listing(child(i)) ELSE Emplace(child(i))
<1>4. \A i \in 1 .. 2 * Len(ch) : e(i) \in Items
  BY <1>3 DEF Listing, Emplace, Items
<1>5. Recurse(p) = [i \in 1 .. 2 * Len(ch) |-> e(i)]
  BY DEF Recurse, ch, child
<1> HIDE DEF e
<1>6. 2 * Len(ch) \in Nat
  BY <1>1
<1> QED
  BY <1>4, <1>5, <1>6, IsASeq

\* The requests of a create that are left: paths of the tree, each the parent
\* of the next, the last one the path to be created.
ToCreate(q, path) ==
    /\ q[Len(q)] = path
    /\ \A k \in 1 .. Len(q) : q[k] \in Path
    /\ \A k \in 1 .. Len(q) - 1 : Parent(q[k + 1]) = q[k]

\* A create begins with all the prefixes of its path.
LEMMA SplitToCreate ==
    ASSUME NEW path \in Path
    PROVE  /\ split_path(path) \in Seq(Seq(Char)) \ {<<>>}
           /\ ToCreate(split_path(path), path)
           /\ Parent(Head(split_path(path))) = Root
<1>1. path \in Seq(Char) /\ path # Root /\ path[1] = Slash
  BY PathAssumption
<1> DEFINE parts == split_path(path)
           N == Len(parts)
<1>2. /\ parts \in Seq(Seq(Char))
      /\ Leads(parts, path)
      /\ \A k \in 1 .. N : parts[k] \in (Heads(path) \ {Root}) \cup {path}
  BY <1>1, SplitLeads
<1> HIDE DEF parts
<1>3. N \in Nat /\ N # 0 /\ Head(parts) = parts[1]
  BY <1>2, LenProperties, EmptySeq, TakeHead DEF Leads
<1> HIDE DEF N
<1>4. \A k \in 1 .. N : parts[k] # Root
  BY <1>1, <1>2
<1>5. \A k \in 1 .. N : parts[k] \in Path
  <2> DEFINE T == {n \in 0 .. N - 1 : parts[N - n] \notin Path}
  <2>1. ASSUME T # {} PROVE FALSE
    <3>1. T \in SUBSET Nat
      OBVIOUS
    <3>2. PICK m \in T : \A n \in T : m <= n
      BY <2>1, <3>1, Least
    <3>3. m \in 0 .. N - 1 /\ parts[N - m] \notin Path
      BY <3>2
    <3>4. m # 0
      BY <1>2, <1>3, <3>3 DEF Leads, N
    <3>5. m - 1 \in 0 .. N - 1 /\ ~ (m <= m - 1) /\ N - m \in 1 .. N - 1 /\ N - (m - 1) = (N - m) + 1 /\ N - m \in 1 .. N
      BY <1>3, <3>3, <3>4
    <3>6. parts[N - (m - 1)] \in Path
      BY <3>2, <3>5
    <3>7. Parent(parts[(N - m) + 1]) = parts[N - m]
      BY <1>2, <3>5 DEF Leads, N
    <3>8. parts[N - m] \in Path \cup {Root}
      BY <3>5, <3>6, <3>7, PathAssumption
    <3> QED
      BY <1>4, <3>3, <3>5, <3>8
  <2> TAKE k \in 1 .. N
  <2>2. N - k \in 0 .. N - 1 /\ N - (N - k) = k
    BY <1>3
  <2> QED
    BY <2>1, <2>2
<1> QED
  BY <1>2, <1>3, <1>5 DEF Leads, ToCreate, parts, N

-----------------------------------------------------------------------------
(***************************************************************************)
(* The inductive invariant: types, a tree without gaps, and for each call  *)
(* what it has left to do.                                                 *)
(***************************************************************************)
Closed == \A p \in tree : Parent(p) \in tree \cup {Root}

ServerInv ==
    /\ node \in [Path -> Stored]
    /\ Closed
    /\ written \subseteq Stored
    /\ \A p \in tree : node[p] \in written

\* What get_path_value returned is the beginning of a value that was stored.
Backed(c) ==
    got[c] # Nothing =>
        \E v \in written : /\ v.id = got[c].id
                           /\ got[c].len <= v.len
                           /\ v.len <= BufSize => got[c] = v

CallInv(c) ==
    /\ pc[c] = "create" => /\ OpOf(c) = "create"
                           /\ todo[c] \in Seq(Seq(Char)) \ {<<>>}
                           /\ ToCreate(todo[c], PathOf(c))
    /\ pc[c] = "list" => OpOf(c) = "delete" /\ todo[c] \in Seq(Items)
    /\ pc[c] = "delete" => /\ OpOf(c) = "delete"
                           /\ subs[c] # <<>>
                           /\ subs[c][Len(subs[c])] = PathOf(c)
    /\ pc[c] = "again" => /\ OpOf(c) = "get"
                          /\ todo[c] \in Seq(Int) \ {<<>>}
                          /\ todo[c][1] > BufSize
    /\ Ended(c) <=> rc[c] # "none"
    /\ Backed(c)

Progress == {"idle", "create", "list", "delete", "again", "done", "length_error"}

CallTypes ==
    /\ pc \in [Call -> Progress]
    /\ subs \in [Call -> Seq(Seq(Char))]
    /\ rc \in [Call -> Code]
    /\ got \in [Call -> Stored]
    /\ DOMAIN todo = Call

OpsInv ==
    /\ scenario \in Scenario
    /\ ServerInv
    /\ others \in 0 .. MaxOthers
    /\ CallTypes
    /\ \A c \in Call : CallInv(c)

\* The invariant says more than the type invariant.
LEMMA OpsTyped == OpsInv => TypeOK
  BY DEF OpsInv, ServerInv, Closed, CallTypes, Progress, CallInv, Items, TypeOK

\* The kinds of values.
LEMMA Values ==
    /\ NoData \in Stored /\ Absent \in Stored /\ Nothing \in Stored
    /\ NoData # Absent
    /\ \A c \in Call, len \in Nat : Value(c, len) \in Stored /\ Value(c, len) # Absent
    /\ \A n \in Nat, len \in Int : Value(n, len) \in Stored /\ Value(n, len) # Absent
  BY IdAssumption DEF Stored, Value, NoData, Absent, Nothing

\* What a scenario gives to a call.
LEMMA CallFacts ==
    ASSUME scenario \in Scenario, NEW c \in Call
    PROVE  /\ OpOf(c) \in Op
           /\ PathOf(c) \in Path
           /\ PathOf(c) \in Seq(Char) /\ PathOf(c) # Root /\ PathOf(c)[1] = Slash
  BY ScenarioAssumption, PathAssumption DEF OpOf, PathOf

\* A value put where its parent is keeps the tree without gaps.
LEMMA PutKeeps ==
    ASSUME ServerInv, NEW p \in Path, Parent(p) \in tree \cup {Root},
           NEW v \in Stored, v # Absent, Store(p, v)
    PROVE  /\ ServerInv' /\ written \subseteq written'
           /\ tree' = tree \cup {p}
           /\ node'[p] = v /\ \A q \in Path \ {p} : node'[q] = node[q]
<1>1. node' = [node EXCEPT ![p] = v] /\ written' = written \cup {v}
  BY DEF Store
<1>2. node' \in [Path -> Stored] /\ node'[p] = v /\ \A q \in Path \ {p} : node'[q] = node[q]
  BY <1>1 DEF ServerInv
<1>3. tree' = tree \cup {p}
  BY <1>2 DEF tree
<1>4. Closed'
  BY <1>3 DEF Closed, ServerInv
<1>5. (\A q \in tree : node[q] \in written)'
  BY <1>1, <1>2, <1>3 DEF ServerInv, tree
<1> QED
  BY <1>1, <1>2, <1>3, <1>4, <1>5 DEF ServerInv

\* A node without children can be deleted.
LEMMA DropKeeps ==
    ASSUME ServerInv, NEW p \in Path, \A q \in tree : Parent(q) # p, Store(p, Absent)
    PROVE  ServerInv' /\ written' = written /\ tree' = tree \ {p}
<1>1. node' = [node EXCEPT ![p] = Absent] /\ written' = written
  BY DEF Store
<1>2. node' \in [Path -> Stored] /\ node'[p] = Absent /\ \A q \in Path \ {p} : node'[q] = node[q]
  BY <1>1, Values DEF ServerInv
<1>3. tree' = tree \ {p}
  BY <1>2 DEF tree
<1>4. Closed'
  BY <1>3 DEF Closed, ServerInv
<1>5. (\A q \in tree : node[q] \in written)'
  BY <1>1, <1>2, <1>3 DEF ServerInv, tree
<1> QED
  BY <1>1, <1>2, <1>3, <1>4, <1>5 DEF ServerInv

\* The server's part of a request of a create.
LEMMA CreateRequest ==
    ASSUME ServerInv, NEW p \in Path, NEW v \in Stored, v # Absent, NEW fate,
           Request(fate, CreateRc(p), p, v)
    PROVE  ServerInv' /\ written \subseteq written'
<1>1. CASE fate # "unsent" /\ CreateRc(p) = "ZOK"
  <2>1. Store(p, v) /\ Parent(p) \in tree \cup {Root}
    BY <1>1 DEF Request, CreateRc
  <2> QED
    BY <2>1, PutKeeps
<1>2. CASE ~ (fate # "unsent" /\ CreateRc(p) = "ZOK")
  BY <1>2 DEF Request, ServerInv, Closed, tree
<1> QED
  BY <1>1, <1>2

\* The server's part of a request of a delete.
LEMMA DeleteRequest ==
    ASSUME ServerInv, NEW p, NEW fate, Request(fate, DeleteRc(p), p, Absent)
    PROVE  ServerInv' /\ written \subseteq written'
<1>1. CASE fate # "unsent" /\ DeleteRc(p) = "ZOK"
  <2>1. Store(p, Absent) /\ p \in Path /\ \A q \in tree : Parent(q) # p
    BY <1>1 DEF Request, DeleteRc, tree
  <2> QED
    BY <2>1, DropKeeps
<1>2. CASE ~ (fate # "unsent" /\ DeleteRc(p) = "ZOK")
  BY <1>2 DEF Request, ServerInv, Closed, tree
<1> QED
  BY <1>1, <1>2

\* Result codes.
LEMMA Codes ==
    /\ \A p : /\ CreateRc(p) \in Code \ {"none"}
              /\ DeleteRc(p) \in Code \ {"none"}
              /\ ReadRc(p) \in Code \ {"none"}
    /\ \A fate : \A code \in Code \ {"none"} : Answer(fate, code) \in Code \ {"none"}
  BY DEF CreateRc, DeleteRc, ReadRc, Answer, Code

\* Nothing of a call has changed.
Same(d) == /\ pc'[d] = pc[d] /\ todo'[d] = todo[d] /\ subs'[d] = subs[d]
           /\ rc'[d] = rc[d] /\ got'[d] = got[d]

\* A call that does nothing keeps its part of the invariant.
LEMMA SameCall ==
    ASSUME NEW d \in Call, Same(d), CallInv(d), scenario' = scenario, written \subseteq written'
    PROVE  CallInv(d)'
<1>1. OpOf(d)' = OpOf(d) /\ PathOf(d)' = PathOf(d)
  BY DEF OpOf, PathOf
<1>2. Backed(d)'
  BY DEF Same, CallInv, Backed
<1> QED
  BY <1>1, <1>2 DEF Same, CallInv, Ended

\* A step of one call has to keep only its own part.
LEMMA OneCall ==
    ASSUME OpsInv, NEW c \in Call, UNCHANGED <<scenario, others>>,
           ServerInv', written \subseteq written', CallTypes',
           \A d \in Call \ {c} : Same(d), CallInv(c)'
    PROVE  OpsInv'
<1>1. \A d \in Call \ {c} : CallInv(d)'
  BY SameCall DEF OpsInv
<1> QED
  BY <1>1 DEF OpsInv

\* The steps of one call, one lemma per action.  A create begins.
LEMMA StepCreateBegin ==
    ASSUME OpsInv, NEW c \in Call, CreateBegin(c)
    PROVE  OpsInv'
<1>1. /\ OpOf(c) = "create" /\ rc[c] = "none" /\ Backed(c)
      /\ todo' = [todo EXCEPT ![c] = split_path(PathOf(c))]
      /\ pc' = [pc EXCEPT ![c] = "create"]
      /\ UNCHANGED <<scenario, node, others, subs, rc, got, written>>
  BY DEF CreateBegin, OpsInv, CallInv, Ended
<1>2. PathOf(c) \in Path /\ OpOf(c)' = OpOf(c) /\ PathOf(c)' = PathOf(c)
  BY <1>1, CallFacts DEF OpsInv, OpOf, PathOf
<1>3. CallTypes' /\ \A d \in Call \ {c} : Same(d)
  BY <1>1 DEF OpsInv, CallTypes, Same, Progress
<1>4. pc'[c] = "create" /\ todo'[c] = split_path(PathOf(c)) /\ rc'[c] = "none" /\ Backed(c)'
  BY <1>1 DEF OpsInv, CallTypes, Backed
<1>5. CallInv(c)'
  BY <1>1, <1>2, <1>4, SplitToCreate DEF CallInv, Ended
<1>6. ServerInv' /\ written \subseteq written'
  BY <1>1 DEF OpsInv, ServerInv, Closed, tree
<1> QED
  BY <1>1, <1>3, <1>5, <1>6, OneCall

\* What is left of a create after its first request.
LEMMA RestToCreate ==
    ASSUME NEW q \in Seq(Seq(Char)) \ {<<>>}, NEW path, ToCreate(q, path)
    PROVE  /\ Head(q) \in Path /\ Head(q) = q[1]
           /\ Tail(q) \in Seq(Seq(Char))
           /\ Tail(q) = <<>> => Head(q) = path
           /\ Tail(q) # <<>> => ToCreate(Tail(q), path) /\ Parent(Head(Tail(q))) = Head(q)
<1> DEFINE t == Tail(q)
<1>1. /\ t \in Seq(Seq(Char)) /\ Len(q) \in Nat /\ Len(q) # 0 /\ Len(t) = Len(q) - 1
      /\ Head(q) = q[1]
      /\ DOMAIN t = 1 .. Len(q) - 1
      /\ \A k \in DOMAIN t : t[k] = q[k + 1]
  BY TakeHead, EmptySeq
<1> HIDE DEF t
<1>2. PICK N \in Nat : Len(q) = N + 1 /\ Len(t) = N
  <2>1. Len(t) \in Nat /\ Len(q) = Len(t) + 1
    BY <1>1
  <2> QED
    BY <2>1
<1>3. DOMAIN t = 1 .. N /\ \A k \in 1 .. N : t[k] = q[k + 1] /\ k + 1 \in 1 .. N + 1
  <2>1. DOMAIN t = 1 .. N
    BY <1>1, <1>2
  <2>2. \A k \in 1 .. N : t[k] = q[k + 1]
    BY <1>1, <2>1
  <2>3. \A k \in 1 .. N : k + 1 \in 1 .. N + 1
    OBVIOUS
  <2> QED
    BY <2>1, <2>2, <2>3
<1>4. Head(q) \in Path
  BY <1>1, <1>2 DEF ToCreate
<1>5. t = <<>> => Head(q) = path
  BY <1>1, <1>2 DEF ToCreate
<1>6. ASSUME t # <<>> PROVE ToCreate(t, path) /\ Parent(Head(t)) = Head(q)
  <2>1. N # 0 /\ Head(t) = t[1]
    BY <1>1, <1>2, <1>6, EmptySeq, TakeHead
  <2>2. N \in 1 .. N /\ 1 \in 1 .. N
    BY <2>1
  <2>3. t[Len(t)] = path
    BY <1>2, <1>3, <2>2 DEF ToCreate
  <2>4. \A k \in 1 .. Len(t) : t[k] \in Path
    BY <1>2, <1>3 DEF ToCreate
  <2>5. \A k \in 1 .. N - 1 : k \in 1 .. N /\ k + 1 \in 1 .. N
    OBVIOUS
  <2>6. \A k \in 1 .. N : Parent(q[k + 1]) = q[k]
    BY <1>2 DEF ToCreate
  <2>7. \A k \in 1 .. N - 1 : Parent(t[k + 1]) = t[k]
    <3> TAKE k \in 1 .. N - 1
    <3>1. t[k + 1] = q[(k + 1) + 1] /\ t[k] = q[k + 1] /\ k + 1 \in 1 .. N
      BY <1>3, <2>5
    <3> QED
      BY <2>6, <3>1
  <2>8. Parent(t[1]) = q[1]
    BY <1>3, <2>2, <2>6
  <2> QED
    BY <1>1, <1>2, <2>1, <2>3, <2>4, <2>7, <2>8 DEF ToCreate
<1> QED
  BY <1>1, <1>4, <1>5, <1>6 DEF t

\* What the steps of a create change.
LEMMA CreateStepFacts ==
    ASSUME OpsInv, NEW c \in Call, CreateStep(c)
    PROVE  LET p == Head(todo[c])
               rest == Tail(todo[c])
           IN  /\ pc[c] = "create" /\ OpOf(c) = "create"
               /\ todo[c] \in Seq(Seq(Char)) \ {<<>>} /\ ToCreate(todo[c], PathOf(c))
               /\ p \in Path /\ rest \in Seq(Seq(Char))
               /\ CreateValue(c, rest) \in Stored /\ CreateValue(c, rest) # Absent
               /\ todo' = [todo EXCEPT ![c] = rest]
               /\ UNCHANGED <<scenario, others, subs, got>>
               /\ \E fate \in Fate :
                    /\ Request(fate, CreateRc(p), p, CreateValue(c, rest))
                    /\ IF CreateEnds(Answer(fate, CreateRc(p)), rest)
                       THEN Finish(c, Answer(fate, CreateRc(p))) ELSE UNCHANGED <<pc, rc>>
<1>1. /\ pc[c] = "create" /\ OpOf(c) = "create"
      /\ todo[c] \in Seq(Seq(Char)) \ {<<>>} /\ ToCreate(todo[c], PathOf(c))
  BY DEF CreateStep, OpsInv, CallInv
<1>2. Head(todo[c]) \in Path /\ Tail(todo[c]) \in Seq(Seq(Char))
  BY <1>1, RestToCreate
<1>3. \A rest : CreateValue(c, rest) \in Stored /\ CreateValue(c, rest) # Absent
  BY Values DEF CreateValue
<1> QED
  BY <1>1, <1>2, <1>3 DEF CreateStep

\* A request of a create.
LEMMA StepCreateStep ==
    ASSUME OpsInv, NEW c \in Call, CreateStep(c)
    PROVE  OpsInv'
<1> DEFINE p == Head(todo[c])
           rest == Tail(todo[c])
           v == CreateValue(c, rest)
<1>1. /\ pc[c] = "create" /\ OpOf(c) = "create"
      /\ todo[c] \in Seq(Seq(Char)) \ {<<>>} /\ ToCreate(todo[c], PathOf(c))
      /\ p \in Path /\ rest \in Seq(Seq(Char))
      /\ v \in Stored /\ v # Absent
      /\ todo' = [todo EXCEPT ![c] = rest]
      /\ UNCHANGED <<scenario, others, subs, got>>
  BY CreateStepFacts
<1>2. PICK fate \in Fate :
        /\ Request(fate, CreateRc(p), p, v)
        /\ IF CreateEnds(Answer(fate, CreateRc(p)), rest)
           THEN Finish(c, Answer(fate, CreateRc(p))) ELSE UNCHANGED <<pc, rc>>
  BY CreateStepFacts
<1> DEFINE code == Answer(fate, CreateRc(p))
<1>3. code \in Code \ {"none"}
  BY Codes
<1>4. rest # <<>> => ToCreate(rest, PathOf(c))
  BY <1>1, RestToCreate
<1>5. ServerInv' /\ written \subseteq written'
  BY <1>1, <1>2, CreateRequest DEF OpsInv
<1>6. OpOf(c)' = OpOf(c) /\ PathOf(c)' = PathOf(c)
  BY <1>1 DEF OpOf, PathOf
<1> HIDE DEF v, p, code
<1>7. rest = Tail(todo[c])
  OBVIOUS
<1> HIDE DEF rest
<1>8. Backed(c)'
  BY <1>1, <1>5 DEF OpsInv, CallInv, Backed
<1>9. todo'[c] = rest /\ DOMAIN todo' = Call /\ \A d \in Call \ {c} : todo'[d] = todo[d]
  BY <1>1 DEF OpsInv, CallTypes
<1>10. CASE CreateEnds(code, rest)
  <2>1. pc' = [pc EXCEPT ![c] = "done"] /\ rc' = [rc EXCEPT ![c] = code]
    BY <1>2, <1>10 DEF Finish, code
  <2>2. CallTypes' /\ \A d \in Call \ {c} : Same(d)
    BY <1>1, <1>3, <1>9, <2>1 DEF OpsInv, CallTypes, Same, Progress
  <2>3. pc'[c] = "done" /\ rc'[c] = code
    BY <2>1 DEF OpsInv, CallTypes
  <2>4. CallInv(c)'
    BY <1>3, <1>8, <2>3 DEF CallInv, Ended
  <2> QED
    BY <1>1, <1>5, <2>2, <2>4, OneCall
<1>11. CASE ~ CreateEnds(code, rest)
  <2>1. UNCHANGED <<pc, rc>> /\ rest # <<>>
    BY <1>2, <1>11 DEF CreateEnds, code
  <2>2. CallTypes' /\ \A d \in Call \ {c} : Same(d)
    BY <1>1, <1>9, <2>1 DEF OpsInv, CallTypes, Same
  <2>3. CallInv(c)'
    BY <1>1, <1>4, <1>6, <1>8, <1>9, <2>1 DEF OpsInv, CallInv, Ended
  <2> QED
    BY <1>1, <1>5, <2>2, <2>3, OneCall
<1> QED
  BY <1>10, <1>11

\* A delete begins with listing its path.
LEMMA StepDeleteBegin ==
    ASSUME OpsInv, NEW c \in Call, DeleteBegin(c)
    PROVE  OpsInv'
<1>1. /\ OpOf(c) = "delete" /\ rc[c] = "none" /\ Backed(c)
      /\ todo' = [todo EXCEPT ![c] = <<Listing(PathOf(c))>>]
      /\ pc' = [pc EXCEPT ![c] = "list"]
      /\ UNCHANGED <<scenario, node, others, subs, rc, got, written>>
  BY DEF DeleteBegin, OpsInv, CallInv, Ended
<1>2. PathOf(c) \in Seq(Char) /\ OpOf(c)' = OpOf(c)
  BY <1>1, CallFacts DEF OpsInv, OpOf
<1>3. Listing(PathOf(c)) \in Items
  BY <1>2 DEF Listing, Items
<1>4. <<Listing(PathOf(c))>> \in Seq(Items)
  BY <1>3, OneMessage
<1>5. CallTypes' /\ \A d \in Call \ {c} : Same(d)
  BY <1>1 DEF OpsInv, CallTypes, Same, Progress
<1>6. pc'[c] = "list" /\ todo'[c] = <<Listing(PathOf(c))>> /\ rc'[c] = "none" /\ Backed(c)'
  BY <1>1 DEF OpsInv, CallTypes, Backed
<1>7. CallInv(c)'
  BY <1>1, <1>2, <1>4, <1>6 DEF CallInv, Ended
<1>8. ServerInv' /\ written \subseteq written'
  BY <1>1 DEF OpsInv, ServerInv, Closed, tree
<1> QED
  BY <1>1, <1>5, <1>7, <1>8, OneCall

\* A call that changes nothing on the server.
LEMMA Quiet ==
    ASSUME OpsInv, UNCHANGED <<node, written>>
    PROVE  ServerInv' /\ written \subseteq written' /\ \A c \in Call : got'[c] = got[c] => Backed(c)'
<1>1. ServerInv' /\ written \subseteq written'
  BY DEF OpsInv, ServerInv, Closed, tree
<1>2. \A c \in Call : Backed(c)
  BY DEF OpsInv, CallInv
<1> QED
  BY <1>1, <1>2 DEF Backed

\* A listing of recursive_get_sub_path.
LEMMA StepListStep ==
    ASSUME OpsInv, NEW c \in Call, ListStep(c)
    PROVE  OpsInv'
<1> DEFINE p == Head(todo[c])[2]
<1>1. /\ pc[c] = "list" /\ OpOf(c) = "delete" /\ rc[c] = "none"
      /\ todo[c] \in Seq(Items) /\ todo[c] # <<>>
      /\ UNCHANGED <<scenario, node, others, subs, got, written>>
  BY DEF ListStep, OpsInv, CallInv, Ended
<1>2. Head(todo[c]) \in Items /\ Tail(todo[c]) \in Seq(Items)
  BY <1>1, TakeHead
<1>3. p \in Seq(Char)
  BY <1>2 DEF Items
<1>4. PICK fate \in Fate :
        IF Answer(fate, ReadRc(p)) = "ZOK"
        THEN /\ todo' = [todo EXCEPT ![c] = Recurse(p) \o Tail(@)]
             /\ UNCHANGED <<pc, rc>>
        ELSE /\ Finish(c, Answer(fate, ReadRc(p)))
             /\ UNCHANGED todo
  BY DEF ListStep
<1> DEFINE code == Answer(fate, ReadRc(p))
           more == Recurse(p) \o Tail(todo[c])
<1>5. code \in Code \ {"none"}
  BY Codes
<1>6. more \in Seq(Items)
  <2>1. Recurse(p) \in Seq(Items)
    BY <1>3, RecurseType
  <2> QED
    BY <1>2, <2>1, ConcatProperties
<1>7. ServerInv' /\ written \subseteq written' /\ Backed(c)'
  BY <1>1, Quiet
<1>8. OpOf(c)' = OpOf(c)
  BY <1>1 DEF OpOf
<1>9. CASE code = "ZOK"
  <2>1. todo' = [todo EXCEPT ![c] = more] /\ UNCHANGED <<pc, rc>>
    BY <1>4, <1>9
  <2> HIDE DEF more, code, p
  <2>2. CallTypes' /\ (\A d \in Call \ {c} : Same(d)) /\ todo'[c] = more
    BY <1>1, <2>1 DEF OpsInv, CallTypes, Same
  <2>3. CallInv(c)'
    BY <1>1, <1>6, <1>7, <1>8, <2>1, <2>2 DEF CallInv, Ended
  <2> QED
    BY <1>1, <1>7, <2>2, <2>3, OneCall
<1>10. CASE code # "ZOK"
  <2>1. pc' = [pc EXCEPT ![c] = "done"] /\ rc' = [rc EXCEPT ![c] = code] /\ todo' = todo
    BY <1>4, <1>10 DEF Finish
  <2> HIDE DEF more, code, p
  <2>2. CallTypes' /\ \A d \in Call \ {c} : Same(d)
    BY <1>1, <1>5, <2>1 DEF OpsInv, CallTypes, Same, Progress
  <2>3. pc'[c] = "done" /\ rc'[c] = code
    BY <2>1 DEF OpsInv, CallTypes
  <2>4. CallInv(c)'
    BY <1>5, <1>7, <2>3 DEF CallInv, Ended
  <2> QED
    BY <1>1, <1>7, <2>2, <2>4, OneCall
<1> QED
  BY <1>9, <1>10

\* An emplace_back of recursive_get_sub_path.
LEMMA StepEmplaceStep ==
    ASSUME OpsInv, NEW c \in Call, EmplaceStep(c)
    PROVE  OpsInv'
<1> DEFINE p == Head(todo[c])[2]
           more == Append(subs[c], p)
           rest == Tail(todo[c])
<1>1. /\ pc[c] = "list" /\ OpOf(c) = "delete" /\ rc[c] = "none"
      /\ todo[c] \in Seq(Items) /\ todo[c] # <<>> /\ subs[c] \in Seq(Seq(Char))
      /\ subs' = [subs EXCEPT ![c] = more]
      /\ todo' = [todo EXCEPT ![c] = rest]
      /\ UNCHANGED <<scenario, node, others, pc, rc, got, written>>
  BY DEF EmplaceStep, OpsInv, CallInv, CallTypes, Ended
<1>2. Head(todo[c]) \in Items /\ rest \in Seq(Items)
  BY <1>1, TakeHead
<1>3. p \in Seq(Char)
  BY <1>2 DEF Items
<1>4. more \in Seq(Seq(Char))
  BY <1>1, <1>3, AppendProperties
<1>5. ServerInv' /\ written \subseteq written' /\ Backed(c)'
  BY <1>1, Quiet
<1>6. OpOf(c)' = OpOf(c)
  BY <1>1 DEF OpOf
<1> HIDE DEF more, rest, p
<1>7. CallTypes' /\ (\A d \in Call \ {c} : Same(d)) /\ todo'[c] = rest
  BY <1>1, <1>4 DEF OpsInv, CallTypes, Same
<1>8. CallInv(c)'
  BY <1>1, <1>2, <1>5, <1>6, <1>7 DEF CallInv, Ended
<1> QED
  BY <1>1, <1>5, <1>7, <1>8, OneCall

\* The end of the listing.
LEMMA StepListDone ==
    ASSUME OpsInv, NEW c \in Call, ListDone(c)
    PROVE  OpsInv'
<1> DEFINE more == Append(subs[c], PathOf(c))
<1>1. /\ pc[c] = "list" /\ OpOf(c) = "delete" /\ rc[c] = "none" /\ subs[c] \in Seq(Seq(Char))
      /\ subs' = [subs EXCEPT ![c] = more]
      /\ pc' = [pc EXCEPT ![c] = "delete"]
      /\ UNCHANGED <<scenario, node, others, todo, rc, got, written>>
  BY DEF ListDone, OpsInv, CallInv, CallTypes, Ended
<1>2. PathOf(c) \in Seq(Char) /\ OpOf(c)' = OpOf(c) /\ PathOf(c)' = PathOf(c)
  BY <1>1, CallFacts DEF OpsInv, OpOf, PathOf
<1>3. more \in Seq(Seq(Char)) /\ more # <<>> /\ more[Len(more)] = PathOf(c)
  <2>1. more \in Seq(Seq(Char)) /\ Len(more) = Len(subs[c]) + 1 /\ more[Len(subs[c]) + 1] = PathOf(c)
    BY <1>1, <1>2, AppendProperties
  <2>2. Len(subs[c]) \in Nat
    BY <1>1, LenProperties
  <2> HIDE DEF more
  <2> QED
    BY <2>1, <2>2, EmptySeq
<1>4. ServerInv' /\ written \subseteq written' /\ Backed(c)'
  BY <1>1, Quiet
<1> HIDE DEF more
<1>5. CallTypes' /\ (\A d \in Call \ {c} : Same(d)) /\ subs'[c] = more /\ pc'[c] = "delete"
  BY <1>1, <1>3 DEF OpsInv, CallTypes, Same, Progress
<1>6. CallInv(c)'
  BY <1>1, <1>2, <1>3, <1>4, <1>5 DEF CallInv, Ended
<1> QED
  BY <1>1, <1>4, <1>5, <1>6, OneCall

\* A request of a delete.
LEMMA StepDeleteStep ==
    ASSUME OpsInv, NEW c \in Call, DeleteStep(c)
    PROVE  OpsInv'
<1> DEFINE p == Head(subs[c])
           rest == Tail(subs[c])
<1>1. /\ pc[c] = "delete" /\ OpOf(c) = "delete" /\ rc[c] = "none"
      /\ subs[c] \in Seq(Seq(Char)) /\ subs[c] # <<>> /\ subs[c][Len(subs[c])] = PathOf(c)
      /\ subs' = [subs EXCEPT ![c] = rest]
      /\ UNCHANGED <<scenario, others, todo, got>>
  BY DEF DeleteStep, OpsInv, CallInv, CallTypes, Ended
<1>2. PICK fate \in Fate :
        /\ Request(fate, DeleteRc(p), p, Absent)
        /\ IF DeleteEnds(Answer(fate, DeleteRc(p)), rest)
           THEN Finish(c, Answer(fate, DeleteRc(p))) ELSE UNCHANGED <<pc, rc>>
  BY DEF DeleteStep
<1> DEFINE code == Answer(fate, DeleteRc(p))
<1>3. code \in Code \ {"none"}
  BY Codes
<1>4. rest \in Seq(Seq(Char)) /\ (rest # <<>> => rest[Len(rest)] = PathOf(c))
  <2>1. /\ rest \in Seq(Seq(Char)) /\ Len(subs[c]) \in Nat /\ Len(rest) = Len(subs[c]) - 1
        /\ \A i \in DOMAIN rest : rest[i] = subs[c][i + 1]
    BY <1>1, TakeHead
  <2> HIDE DEF rest
  <2>2. rest # <<>> => Len(rest) \in DOMAIN rest /\ Len(rest) + 1 = Len(subs[c])
    BY <2>1, LenProperties, EmptySeq
  <2> QED
    BY <1>1, <2>1, <2>2
<1>5. ServerInv' /\ written \subseteq written'
  BY <1>2, DeleteRequest DEF OpsInv
<1>6. OpOf(c)' = OpOf(c) /\ PathOf(c)' = PathOf(c)
  BY <1>1 DEF OpOf, PathOf
<1>7. code = Answer(fate, DeleteRc(p))
  OBVIOUS
<1> HIDE DEF p, rest, code
<1>8. Backed(c)'
  BY <1>1, <1>5 DEF OpsInv, CallInv, Backed
<1>9. CASE DeleteEnds(code, rest)
  <2>1. pc' = [pc EXCEPT ![c] = "done"] /\ rc' = [rc EXCEPT ![c] = code]
    BY <1>2, <1>7, <1>9 DEF Finish
  <2>2. CallTypes' /\ \A d \in Call \ {c} : Same(d)
    BY <1>1, <1>3, <1>4, <2>1 DEF OpsInv, CallTypes, Same, Progress
  <2>3. pc'[c] = "done" /\ rc'[c] = code
    BY <2>1 DEF OpsInv, CallTypes
  <2>4. CallInv(c)'
    BY <1>3, <1>8, <2>3 DEF CallInv, Ended
  <2> QED
    BY <1>1, <1>5, <2>2, <2>4, OneCall
<1>10. CASE ~ DeleteEnds(code, rest)
  <2>1. UNCHANGED <<pc, rc>> /\ rest # <<>>
    BY <1>2, <1>7, <1>10 DEF DeleteEnds
  <2>2. CallTypes' /\ (\A d \in Call \ {c} : Same(d)) /\ subs'[c] = rest
    BY <1>1, <1>4, <2>1 DEF OpsInv, CallTypes, Same
  <2>3. CallInv(c)'
    BY <1>1, <1>4, <1>6, <1>8, <2>1, <2>2 DEF CallInv, Ended
  <2> QED
    BY <1>1, <1>5, <2>2, <2>3, OneCall
<1> QED
  BY <1>9, <1>10

\* set_path_value.
LEMMA StepSetStep ==
    ASSUME OpsInv, NEW c \in Call, SetStep(c)
    PROVE  OpsInv'
<1> DEFINE p == PathOf(c)
<1>1. UNCHANGED <<scenario, others, todo, subs, got>>
  BY DEF SetStep
<1>2. PICK fate \in Fate : Request(fate, ReadRc(p), p, Value(c, 0)) /\ Finish(c, Answer(fate, ReadRc(p)))
  BY DEF SetStep
<1> DEFINE code == Answer(fate, ReadRc(p))
<1>3. code \in Code \ {"none"}
  BY Codes
<1>4. p \in Path /\ Value(c, 0) \in Stored /\ Value(c, 0) # Absent
  BY CallFacts, Values DEF OpsInv
<1>5. ServerInv' /\ written \subseteq written'
  <2>1. CASE fate # "unsent" /\ ReadRc(p) = "ZOK"
    <3>1. Store(p, Value(c, 0)) /\ p \in tree
      BY <1>2, <2>1 DEF Request, ReadRc
    <3>2. Parent(p) \in tree \cup {Root}
      BY <3>1 DEF OpsInv, ServerInv, Closed
    <3> QED
      BY <1>4, <3>1, <3>2, PutKeeps DEF OpsInv
  <2>2. CASE ~ (fate # "unsent" /\ ReadRc(p) = "ZOK")
    BY <1>2, <2>2, Quiet DEF Request
  <2> QED
    BY <2>1, <2>2
<1>6. pc' = [pc EXCEPT ![c] = "done"] /\ rc' = [rc EXCEPT ![c] = code]
  BY <1>2 DEF Finish
<1> HIDE DEF code, p
<1>7. Backed(c)'
  BY <1>1, <1>5 DEF OpsInv, CallInv, Backed
<1>8. CallTypes' /\ (\A d \in Call \ {c} : Same(d)) /\ pc'[c] = "done" /\ rc'[c] = code
  BY <1>1, <1>3, <1>6 DEF OpsInv, CallTypes, Same, Progress
<1>9. CallInv(c)'
  BY <1>3, <1>7, <1>8 DEF CallInv, Ended
<1> QED
  BY <1>1, <1>5, <1>8, <1>9, OneCall

\* A value that a read finds was stored.
LEMMA FoundWritten ==
    ASSUME OpsInv, NEW p \in Path, ReadRc(p) = "ZOK"
    PROVE  /\ node[p] \in written /\ node[p] \in Stored
           /\ node[p].len \in Int
           /\ node[p] = Value(node[p].id, node[p].len)
<1>1. p \in tree
  BY DEF ReadRc
<1>2. node[p] \in written /\ node[p] \in Stored
  BY <1>1 DEF OpsInv, ServerInv
<1> QED
  BY <1>2 DEF Stored, Value

\* What the reads change.
LEMMA Returns ==
    ASSUME OpsInv, NEW c \in Call, NEW code \in Code \ {"none"}, NEW v \in Stored, Return(c, code, v),
           UNCHANGED <<scenario, node, others, subs, written, todo>>,
           v # Nothing => \E w \in written : /\ w.id = v.id
                                             /\ v.len <= w.len
                                             /\ w.len <= BufSize => v = w
    PROVE  OpsInv'
<1>1. /\ pc' = [pc EXCEPT ![c] = "done"] /\ rc' = [rc EXCEPT ![c] = code]
      /\ got' = [got EXCEPT ![c] = v]
  BY DEF Return, Finish
<1>2. ServerInv' /\ written \subseteq written'
  BY Quiet
<1>3. CallTypes' /\ \A d \in Call \ {c} : Same(d)
  BY <1>1 DEF OpsInv, CallTypes, Same, Progress
<1>4. pc'[c] = "done" /\ rc'[c] = code /\ got'[c] = v
  BY <1>1 DEF OpsInv, CallTypes
<1>5. Backed(c)'
  BY <1>4 DEF Backed, Nothing, Value
<1>6. CallInv(c)'
  BY <1>4, <1>5 DEF CallInv, Ended
<1> QED
  BY <1>2, <1>3, <1>6, OneCall

\* The first read of get_path_value.
LEMMA StepGetStep ==
    ASSUME OpsInv, NEW c \in Call, GetStep(c)
    PROVE  OpsInv'
<1> DEFINE p == PathOf(c)
           v == node[p]
<1>1. /\ pc[c] = "idle" /\ OpOf(c) = "get" /\ rc[c] = "none"
      /\ UNCHANGED <<scenario, node, others, subs, written>>
  BY DEF GetStep, OpsInv, CallInv, Ended
<1>2. PICK fate \in Fate :
        LET code == Answer(fate, ReadRc(p))
        IN  IF code = "ZOK" /\ v.len > BufSize
            THEN /\ pc' = [pc EXCEPT ![c] = "again"]
                 /\ todo' = [todo EXCEPT ![c] = <<v.len>>]
                 /\ UNCHANGED <<rc, got>>
            ELSE /\ Return(c, code, IF code = "ZOK" /\ v.len # -1 THEN v ELSE Nothing)
                 /\ UNCHANGED todo
  BY DEF GetStep
<1> DEFINE code == Answer(fate, ReadRc(p))
<1>3. code \in Code \ {"none"} /\ (code = "ZOK" => ReadRc(p) = "ZOK")
  BY Codes DEF Answer
<1>4. p \in Path
  BY CallFacts DEF OpsInv
<1>5. code = "ZOK" => v \in written /\ v \in Stored /\ v.len \in Int
  BY <1>3, <1>4, FoundWritten
<1>6. CASE code = "ZOK" /\ v.len > BufSize
  <2>1. /\ pc' = [pc EXCEPT ![c] = "again"]
        /\ todo' = [todo EXCEPT ![c] = <<v.len>>]
        /\ UNCHANGED <<rc, got>>
    BY <1>2, <1>6
  <2>2. <<v.len>> \in Seq(Int) \ {<<>>} /\ <<v.len>>[1] > BufSize
    BY <1>5, <1>6
  <2> HIDE DEF v, code, p
  <2>3. ServerInv' /\ written \subseteq written' /\ Backed(c)'
    BY <1>1, <2>1, Quiet
  <2>4. CallTypes' /\ (\A d \in Call \ {c} : Same(d)) /\ pc'[c] = "again" /\ todo'[c] = <<v.len>>
    BY <1>1, <2>1 DEF OpsInv, CallTypes, Same, Progress
  <2>5. OpOf(c)' = OpOf(c)
    BY <1>1 DEF OpOf
  <2>6. CallInv(c)'
    BY <1>1, <2>1, <2>2, <2>3, <2>4, <2>5 DEF CallInv, Ended
  <2> QED
    BY <1>1, <2>3, <2>4, <2>6, OneCall
<1>7. CASE ~ (code = "ZOK" /\ v.len > BufSize)
  <2> DEFINE r == IF code = "ZOK" /\ v.len # -1 THEN v ELSE Nothing
  <2>1. Return(c, code, r) /\ UNCHANGED todo
    BY <1>2, <1>7
  <2>2. r \in Stored
    BY <1>5, Values
  <2>3. r # Nothing => r = v /\ v \in written /\ v.len \in Int
    BY <1>5
  <2>4. r # Nothing => \E w \in written : w.id = r.id /\ r.len <= w.len /\ (w.len <= BufSize => r = w)
    <3> HIDE DEF r, v
    <3>1. ASSUME r # Nothing PROVE v \in written /\ v.id = r.id /\ r.len <= v.len /\ r = v
      BY <2>3, <3>1
    <3> QED
      BY <3>1
  <2> HIDE DEF r, code
  <2> QED
    BY <1>1, <1>3, <2>1, <2>2, <2>4, Returns
<1> QED
  BY <1>6, <1>7

\* The second read of get_path_value.
LEMMA StepGetAgainStep ==
    ASSUME OpsInv, NEW c \in Call, GetAgainStep(c)
    PROVE  OpsInv'
<1> DEFINE p == PathOf(c)
           v == node[p]
           size == Head(todo[c])
           r == Value(v.id, Filled(size, v))
<1>1. /\ pc[c] = "again" /\ rc[c] = "none"
      /\ todo[c] \in Seq(Int) \ {<<>>} /\ todo[c][1] > BufSize
      /\ UNCHANGED <<scenario, node, others, todo, subs, written>>
  BY DEF GetAgainStep, OpsInv, CallInv, Ended
<1>2. PICK fate \in Fate :
        LET code == Answer(fate, ReadRc(p))
        IN  IF code # "ZOK" THEN Return(c, code, Nothing)
            ELSE IF v.len = -1
                 THEN pc' = [pc EXCEPT ![c] = "length_error"] /\ UNCHANGED <<rc, got>>
                 ELSE Return(c, code, r)
  BY DEF GetAgainStep
<1> DEFINE code == Answer(fate, ReadRc(p))
<1>3. code \in Code \ {"none"} /\ (code = "ZOK" => ReadRc(p) = "ZOK")
  BY Codes DEF Answer
<1>4. p \in Path
  BY CallFacts DEF OpsInv
<1>5. code = "ZOK" => v \in written /\ v \in Stored /\ v.len \in Int /\ v = Value(v.id, v.len)
  BY <1>3, <1>4, FoundWritten
<1>6. size \in Int /\ size > BufSize /\ BufSize \in Nat
  BY <1>1, TakeHead, BoundAssumption
<1>7. CASE code # "ZOK"
  <2>1. Return(c, code, Nothing)
    BY <1>2, <1>7
  <2> HIDE DEF code
  <2> QED
    BY <1>1, <1>3, <2>1, Returns, Values
<1>8. CASE code = "ZOK" /\ v.len = -1
  <2>1. pc' = [pc EXCEPT ![c] = "length_error"] /\ UNCHANGED <<rc, got>>
    BY <1>2, <1>8
  <2> HIDE DEF code, v, p, size, r
  <2>2. ServerInv' /\ written \subseteq written' /\ Backed(c)'
    BY <1>1, <2>1, Quiet
  <2>3. CallTypes' /\ (\A d \in Call \ {c} : Same(d)) /\ pc'[c] = "length_error"
    BY <1>1, <2>1 DEF OpsInv, CallTypes, Same, Progress
  <2>4. CallInv(c)'
    BY <1>1, <2>1, <2>2, <2>3 DEF CallInv, Ended
  <2> QED
    BY <1>1, <2>2, <2>3, <2>4, OneCall
<1>9. CASE code = "ZOK" /\ v.len # -1
  <2>1. Return(c, code, r)
    BY <1>2, <1>9
  <2>2. v \in written /\ v \in Stored /\ v.len \in Int /\ v = Value(v.id, v.len)
    BY <1>5, <1>9
  <2> HIDE DEF code, v, p, size
  <2>3. /\ Filled(size, v) \in Int /\ Filled(size, v) <= v.len
        /\ v.len <= BufSize => Filled(size, v) = v.len
    BY <1>6, <2>2 DEF Filled
  <2>4. r \in Stored /\ r.id = v.id /\ r.len = Filled(size, v)
    BY <2>2, <2>3 DEF Value, Stored
  <2>5. v.len <= BufSize => r = v
    BY <2>2, <2>3
  <2> HIDE DEF r
  <2>6. \E w \in written : w.id = r.id /\ r.len <= w.len /\ (w.len <= BufSize => r = w)
    BY <2>2, <2>3, <2>4, <2>5
  <2> QED
    BY <1>1, <1>3, <2>1, <2>4, <2>6, Returns
<1> QED
  BY <1>7, <1>8, <1>9

\* A transaction of another client.
LEMMA StepOtherClient ==
    ASSUME OpsInv, OtherClient
    PROVE  OpsInv'
<1>1. /\ others < MaxOthers /\ others' = others + 1
      /\ UNCHANGED <<scenario, pc, todo, subs, rc, got>>
  BY DEF OtherClient
<1>2. others \in Nat /\ others + 1 \in Nat /\ others' \in 0 .. MaxOthers
  BY <1>1, BoundAssumption DEF OpsInv
<1>3. PICK p \in Path, len \in scenario.lengths :
        \/ "create" \in scenario.others /\ CreateRc(p) = "ZOK" /\ Store(p, Value(others + 1, len))
        \/ "set" \in scenario.others /\ p \in tree /\ Store(p, Value(others + 1, len))
        \/ "delete" \in scenario.others /\ DeleteRc(p) = "ZOK" /\ Store(p, Absent)
  BY DEF OtherClient
<1>4. len \in Int
  BY ScenarioAssumption DEF OpsInv
<1>5. Value(others + 1, len) \in Stored /\ Value(others + 1, len) # Absent
  BY <1>2, <1>4, Values
<1>6. ServerInv' /\ written \subseteq written'
  <2>1. CASE Store(p, Absent) /\ DeleteRc(p) = "ZOK"
    BY <2>1, DropKeeps DEF OpsInv, DeleteRc
  <2>2. CASE Store(p, Value(others + 1, len)) /\ (CreateRc(p) = "ZOK" \/ p \in tree)
    <3>1. Parent(p) \in tree \cup {Root}
      BY <2>2 DEF CreateRc, OpsInv, ServerInv, Closed
    <3> QED
      BY <1>5, <2>2, <3>1, PutKeeps DEF OpsInv
  <2> QED
    BY <1>3, <2>1, <2>2
<1>7. \A d \in Call : Same(d)
  BY <1>1 DEF Same
<1>8. \A d \in Call : CallInv(d)'
  BY <1>1, <1>6, <1>7, SameCall DEF OpsInv
<1>9. CallTypes'
  BY <1>1 DEF OpsInv, CallTypes
<1> QED
  BY <1>1, <1>2, <1>6, <1>8, <1>9 DEF OpsInv

\* The invariant holds at the start.
LEMMA OpsInit == Init => OpsInv
<1> SUFFICES ASSUME Init PROVE OpsInv
  OBVIOUS
<1>1. PICK S \in SUBSET Path : /\ \A p \in S : Parent(p) = Root \/ Parent(p) \in S
                               /\ node = [p \in Path |-> IF p \in S THEN NoData ELSE Absent]
  BY DEF Init
<1>2. /\ scenario \in Scenario /\ others = 0
      /\ pc = [c \in Call |-> "idle"]
      /\ todo = [c \in Call |-> <<>>]
      /\ subs = [c \in Call |-> <<>>]
      /\ rc = [c \in Call |-> "none"]
      /\ got = [c \in Call |-> Nothing]
      /\ written = {NoData}
  BY DEF Init
<1>3. tree = S
  BY <1>1, Values DEF tree
<1>4. ServerInv
  BY <1>1, <1>2, <1>3, Values DEF ServerInv, Closed
<1>5. CallTypes
  BY <1>2, Values DEF CallTypes, Progress, Code
<1>6. \A c \in Call : CallInv(c)
  BY <1>2 DEF CallInv, Ended, Backed
<1> QED
  BY <1>2, <1>4, <1>5, <1>6, BoundAssumption DEF OpsInv

\* The invariant is kept by every step.
LEMMA OpsStep == OpsInv /\ [Next]_vars => OpsInv'
<1> SUFFICES ASSUME OpsInv, [Next]_vars PROVE OpsInv'
  OBVIOUS
<1>1. CASE OtherClient
  BY <1>1, StepOtherClient
<1>2. ASSUME NEW c \in Call, CallStep(c) PROVE OpsInv'
  BY <1>2, StepCreateBegin, StepCreateStep, StepDeleteBegin, StepListStep, StepEmplaceStep,
     StepListDone, StepDeleteStep, StepSetStep, StepGetStep, StepGetAgainStep DEF CallStep
<1>3. CASE UNCHANGED vars
  <2>1. UNCHANGED <<scenario, node, others, pc, todo, subs, rc, got, written>>
    BY <1>3 DEF vars
  <2>2. ServerInv' /\ written \subseteq written'
    BY <2>1, Quiet
  <2>3. \A d \in Call : CallInv(d)'
    BY <2>1, <2>2, SameCall DEF OpsInv, Same
  <2>4. CallTypes'
    BY <2>1 DEF OpsInv, CallTypes
  <2> QED
    BY <2>1, <2>2, <2>3, <2>4 DEF OpsInv
<1> QED
  BY <1>1, <1>2, <1>3 DEF Next

\* The invariant always holds.
LEMMA OpsHolds == Spec => []OpsInv
  BY OpsInit, OpsStep, PTL DEF Spec

\* Every variable of the operations keeps its type, a call has something left
\* to do until it has its result, and no node loses its parent, for any tree,
\* calls, other clients and lost connections (cppzk.hpp:115-330).
THEOREM TypeCorrect == Spec => []TypeOK
  BY OpsHolds, OpsTyped, PTL

\* get_path_value returns the beginning of one stored value and nothing
\* beyond its end, whatever is written between its two reads and for any size
\* of its buffer (cppzk.hpp:287).
THEOREM ReadsStored == Spec => []NoGarbage
<1>1. OpsInv => NoGarbage
  BY DEF OpsInv, CallInv, Backed, NoGarbage, Calls
<1> QED
  BY <1>1, OpsHolds, PTL

-----------------------------------------------------------------------------
(***************************************************************************)
(* Deletes.                                                                *)
(***************************************************************************)
\* Below a node without children there is nothing.
LEMMA NothingBelow ==
    ASSUME OpsInv, NEW p \in Path, \A q \in tree : Parent(q) # p
    PROVE  \A q \in tree : Under(p, q) => q = p
<1>1. \A q \in tree : q \in Path /\ q \in Seq(Char) /\ q # Root /\ q[1] = Slash
  BY PathAssumption DEF tree
<1>2. p \in Seq(Char) /\ p # Root
  BY PathAssumption
<1> DEFINE B == {q \in tree : Under(p, q) /\ q # p}
           T == {Len(q) : q \in B}
<1>3. ASSUME B # {} PROVE FALSE
  <2>1. T \in SUBSET Nat /\ T # {}
    <3>1. \A q \in B : Len(q) \in Nat
      BY <1>1, LenProperties
    <3> HIDE DEF B
    <3> QED
      BY <1>3, <3>1
  <2>2. PICK m \in T : \A n \in T : m <= n
    BY <2>1, Least
  <2>3. PICK q \in B : m = Len(q)
    BY <2>2
  <2>4. q \in tree /\ Under(p, q) /\ p # q /\ q \in Seq(Char) /\ q # Root /\ q[1] = Slash
    BY <1>1, <2>3
  <2>5. Under(p, Parent(q)) /\ Len(Parent(q)) < Len(q)
    BY <1>2, <2>4, ParentUnder
  <2>6. Parent(q) \in tree \cup {Root} /\ Parent(q) # p
    BY <2>4 DEF OpsInv, ServerInv, Closed
  <2>7. Parent(q) # Root
    <3>1. Len(p) \in Nat /\ Len(p) # 0
      BY <1>2, LenProperties, EmptySeq DEF Root
    <3>2. Parent(q) = Root => Len(p) <= Len(<<>>)
      BY <2>5 DEF Under, Root
    <3> QED
      BY <3>1, <3>2
  <2>8. Parent(q) \in B
    BY <2>5, <2>6, <2>7
  <2>9. Len(Parent(q)) \in T
    BY <2>8
  <2>10. Len(q) <= Len(Parent(q)) /\ Len(q) \in Nat /\ Len(Parent(q)) \in Nat
    BY <2>1, <2>2, <2>3, <2>9
  <2> QED
    BY <2>5, <2>10
<1> QED
  BY <1>3

\* The last request of a delete that is answered with ZOK deletes the path
\* itself.
LEMMA LastDelete ==
    ASSUME OpsInv, NEW c \in Call, DeleteStep(c), rc'[c] = "ZOK"
    PROVE  \A p \in tree' : ~ Under(PathOf(c), p)
<1> DEFINE p == Head(subs[c])
           rest == Tail(subs[c])
<1>1. /\ rc[c] = "none" /\ subs[c] \in Seq(Seq(Char)) /\ subs[c] # <<>>
      /\ subs[c][Len(subs[c])] = PathOf(c)
  BY DEF DeleteStep, OpsInv, CallInv, CallTypes, Ended
<1>2. PICK fate \in Fate :
        /\ Request(fate, DeleteRc(p), p, Absent)
        /\ IF DeleteEnds(Answer(fate, DeleteRc(p)), rest)
           THEN Finish(c, Answer(fate, DeleteRc(p))) ELSE UNCHANGED <<pc, rc>>
  BY DEF DeleteStep
<1>3. DeleteEnds(Answer(fate, DeleteRc(p)), rest) /\ Finish(c, Answer(fate, DeleteRc(p)))
  BY <1>1, <1>2
<1>4. rc'[c] = Answer(fate, DeleteRc(p))
  BY <1>3 DEF Finish, OpsInv, CallTypes
<1>5. fate = "answered" /\ DeleteRc(p) = "ZOK" /\ rest = <<>>
  BY <1>3, <1>4 DEF Answer, DeleteEnds
<1>6. p = PathOf(c)
  <2>1. /\ p = subs[c][1] /\ Len(subs[c]) \in Nat /\ Len(rest) = Len(subs[c]) - 1
    BY <1>1, TakeHead
  <2> HIDE DEF rest
  <2>2. Len(rest) = 0
    BY <1>5
  <2>3. Len(subs[c]) = 1
    BY <2>1, <2>2
  <2> QED
    BY <1>1, <2>1, <2>3
<1>7. Store(p, Absent) /\ p \in tree /\ \A q \in tree : Parent(q) # p
  BY <1>2, <1>5 DEF Request, DeleteRc
<1>8. p \in Path
  BY <1>7 DEF tree
<1> HIDE DEF p
<1>9. tree' = tree \ {p}
  BY <1>7, <1>8, DropKeeps DEF OpsInv
<1>10. \A q \in tree : Under(p, q) => q = p
  BY <1>7, <1>8, NothingBelow
<1> QED
  BY <1>6, <1>9, <1>10

\* A step of a call leaves the progress and the result of the others alone.
LEMMA OnlyItsResult ==
    ASSUME OpsInv, NEW d \in Call, CallStep(d), NEW c \in Call, c # d
    PROVE  rc'[c] = rc[c] /\ pc'[c] = pc[c]
<1>1. pc \in [Call -> Progress] /\ rc \in [Call -> Code]
  BY DEF OpsInv, CallTypes
<1>2. \A code : Finish(d, code) => rc'[c] = rc[c] /\ pc'[c] = pc[c]
  BY <1>1 DEF Finish
<1>3. CASE CreateBegin(d) \/ DeleteBegin(d) \/ EmplaceStep(d) \/ ListDone(d)
  BY <1>1, <1>3 DEF CreateBegin, DeleteBegin, EmplaceStep, ListDone
<1>4. CASE CreateStep(d)
  BY <1>2, <1>4 DEF CreateStep
<1>5. CASE ListStep(d)
  BY <1>2, <1>5 DEF ListStep
<1>6. CASE DeleteStep(d)
  BY <1>2, <1>6 DEF DeleteStep
<1>7. CASE SetStep(d)
  BY <1>2, <1>7 DEF SetStep
<1>8. CASE GetStep(d)
  <2>1. (\E code, v : Return(d, code, v)) \/ (pc' = [pc EXCEPT ![d] = "again"] /\ UNCHANGED rc)
    BY <1>8 DEF GetStep
  <2> QED
    BY <1>1, <1>2, <2>1 DEF Return
<1>9. CASE GetAgainStep(d)
  <2>1. (\E code, v : Return(d, code, v)) \/ (pc' = [pc EXCEPT ![d] = "length_error"] /\ UNCHANGED rc)
    BY <1>9 DEF GetAgainStep
  <2> QED
    BY <1>1, <1>2, <2>1 DEF Return
<1> QED
  BY <1>3, <1>4, <1>5, <1>6, <1>7, <1>8, <1>9 DEF CallStep

\* What a step does to the result of a delete.
LEMMA DeleteTruth ==
    ASSUME OpsInv, [Next]_vars, NEW c \in Calls("delete"), rc[c] # "ZOK", rc'[c] = "ZOK"
    PROVE  \A p \in tree' : ~ Under(PathOf(c), p)
<1>1. c \in Call /\ OpOf(c) = "delete"
  BY DEF Calls
<1>2. rc # rc'
  OBVIOUS
<1>3. PICK d \in Call : CallStep(d)
  BY <1>2 DEF Next, vars, OtherClient
<1>4. CASE d # c
  <2>1. rc'[c] = rc[c]
    BY <1>1, <1>3, <1>4, OnlyItsResult
  <2> QED
    BY <2>1
<1>5. CASE d = c
  <2>1. ~ CreateStep(c) /\ ~ SetStep(c) /\ ~ GetStep(c) /\ ~ GetAgainStep(c)
    BY <1>1 DEF CreateStep, SetStep, GetStep, GetAgainStep, OpsInv, CallInv
  <2>2. ~ CreateBegin(c) /\ ~ DeleteBegin(c) /\ ~ EmplaceStep(c) /\ ~ ListDone(c)
    BY <1>2 DEF CreateBegin, DeleteBegin, EmplaceStep, ListDone
  <2>3. ~ ListStep(c)
    <3> SUFFICES ASSUME ListStep(c) PROVE FALSE
      OBVIOUS
    <3>1. PICK fate \in Fate : Finish(c, Answer(fate, ReadRc(Head(todo[c])[2])))
                            /\ Answer(fate, ReadRc(Head(todo[c])[2])) # "ZOK"
      BY <1>2 DEF ListStep
    <3>2. rc'[c] # "ZOK"
      BY <1>1, <3>1 DEF Finish, OpsInv, CallTypes
    <3> QED
      BY <3>2
  <2>4. DeleteStep(c)
    BY <1>3, <1>5, <2>1, <2>2, <2>3 DEF CallStep
  <2> QED
    BY <1>1, <2>4, LastDelete
<1> QED
  BY <1>4, <1>5

\* A delete reports success only when the path and everything below it is
\* gone, for any tree, whatever other calls and clients create or delete
\* between its requests (delete_path, cppzk.hpp:212).
THEOREM DeletesReportTruth == Spec => DeleteReportsTruth
<1>1. OpsInv /\ [Next]_vars =>
        [\A c \in Calls("delete") :
           rc[c] # "ZOK" /\ rc'[c] = "ZOK" => \A p \in tree' : ~Under(PathOf(c), p)]_vars
  BY DeleteTruth
<1> QED
  BY <1>1, OpsHolds, PTL DEF Spec, DeleteReportsTruth

-----------------------------------------------------------------------------
(***************************************************************************)
(* Creates.                                                                *)
(***************************************************************************)
\* A request of a create leaves what is there alone; once it is answered the
\* node exists, provided its parent did.
LEMMA CreateEffect ==
    ASSUME OpsInv, NEW p \in Path, NEW v \in Stored, v # Absent, NEW fate,
           Request(fate, CreateRc(p), p, v)
    PROVE  /\ \A q \in tree : node'[q] = node[q] /\ q \in tree'
           /\ \A q \in Path : node'[q] # node[q] =>
                q = p /\ node'[p] = v /\ fate # "unsent" /\ CreateRc(p) = "ZOK"
           /\ fate # "unsent" /\ CreateRc(p) = "ZOK" => node'[p] = v
           /\ fate = "answered" /\ CreateRc(p) # "ZNONODE" => p \in tree'
<1>1. ServerInv
  BY DEF OpsInv
<1>2. CASE fate # "unsent" /\ CreateRc(p) = "ZOK"
  <2>1. Store(p, v) /\ Parent(p) \in tree \cup {Root} /\ p \notin tree
    BY <1>2 DEF Request, CreateRc
  <2>2. tree' = tree \cup {p} /\ node'[p] = v /\ \A q \in Path \ {p} : node'[q] = node[q]
    BY <1>1, <2>1, PutKeeps
  <2>3. \A q \in tree : q \in Path \ {p}
    BY <2>1 DEF tree
  <2> QED
    BY <1>2, <2>2, <2>3
<1>3. CASE ~ (fate # "unsent" /\ CreateRc(p) = "ZOK")
  <2>1. node' = node /\ tree' = tree
    BY <1>3 DEF Request, tree
  <2>2. fate = "answered" /\ CreateRc(p) # "ZNONODE" => p \in tree
    BY <1>3 DEF CreateRc
  <2> QED
    BY <1>3, <2>1, <2>2
<1> QED
  BY <1>2, <1>3

\* Who changes a node while only creates run.
LEMMA CreatesGrow ==
    ASSUME OpsInv, OnlyCreates, [Next]_vars
    PROVE  /\ \A q \in tree : node'[q] = node[q] /\ q \in tree'
           /\ \A q \in Path : node'[q] # node[q] =>
                \/ node'[q].id \in Nat
                \/ \E c \in Call : CreateStep(c)
<1>1. CASE OtherClient
  <2>1. PICK p \in Path, len \in scenario.lengths :
          CreateRc(p) = "ZOK" /\ Store(p, Value(others + 1, len))
    BY <1>1 DEF OtherClient, OnlyCreates
  <2>2. Value(others + 1, len) \in Stored /\ Value(others + 1, len) # Absent
    <3>1. len \in Int /\ others + 1 \in Nat
      BY ScenarioAssumption DEF OpsInv
    <3> QED
      BY <3>1, Values
  <2>3. Parent(p) \in tree \cup {Root} /\ p \notin tree
    BY <2>1 DEF CreateRc
  <2> DEFINE v == Value(others + 1, len)
  <2>4. v.id \in Nat
    BY DEF Value, OpsInv
  <2> HIDE DEF v
  <2>5. /\ tree' = tree \cup {p}
        /\ node'[p] = v /\ \A q \in Path \ {p} : node'[q] = node[q]
    BY <2>1, <2>2, <2>3, PutKeeps DEF OpsInv, v
  <2>6. \A q \in tree : q \in Path \ {p}
    BY <2>3 DEF tree
  <2> QED
    BY <2>4, <2>5, <2>6
<1>2. ASSUME NEW c \in Call, CreateStep(c) PROVE \A q \in tree : node'[q] = node[q] /\ q \in tree'
  <2> DEFINE p == Head(todo[c])
             v == CreateValue(c, Tail(todo[c]))
  <2>1. p \in Path /\ v \in Stored /\ v # Absent /\ \E fate \in Fate : Request(fate, CreateRc(p), p, v)
    BY <1>2, CreateStepFacts
  <2> HIDE DEF p, v
  <2> QED
    BY <2>1, CreateEffect
<1>3. CASE node' = node
  <2>1. tree' = tree
    BY <1>3 DEF tree
  <2> QED
    BY <1>3, <2>1
<1>4. ASSUME NEW c \in Call, CallStep(c), ~ CreateStep(c) PROVE node' = node
  <2>1. OpOf(c) # "delete" /\ OpOf(c) # "set"
    BY DEF OnlyCreates, Calls
  <2>2. ~ DeleteStep(c) /\ ~ SetStep(c)
    BY <2>1 DEF DeleteStep, SetStep, OpsInv, CallInv
  <2> QED
    BY <1>4, <2>2 DEF CallStep, CreateBegin, DeleteBegin, ListStep, EmplaceStep, ListDone,
       GetStep, GetAgainStep
<1> QED
  BY <1>1, <1>2, <1>3, <1>4 DEF Next, vars

\* While only creates run and no connection is lost, the next prefix of a
\* create has its parent, and so no create fails for lack of one.
PrefixInv ==
    OnlyCreates /\ ~scenario.loss =>
        \A c \in Calls("create") :
            /\ pc[c] = "create" => Parent(Head(todo[c])) \in tree \cup {Root}
            /\ Ended(c) => rc[c] \in {"ZOK", "ZNODEEXISTS"}

\* A step of a call that is no create changes nothing of a create.
LEMMA CreateAlone ==
    ASSUME OpsInv, NEW d \in Call, CallStep(d), NEW c \in Calls("create"),
           ~ CreateBegin(c), ~ CreateStep(c)
    PROVE  Same(c)
<1>1. c \in Call /\ OpOf(c) = "create"
  BY DEF Calls
<1>2. ~ DeleteBegin(c) /\ ~ ListStep(c) /\ ~ EmplaceStep(c) /\ ~ ListDone(c) /\ ~ DeleteStep(c)
  BY <1>1 DEF DeleteBegin, ListStep, EmplaceStep, ListDone, DeleteStep, OpsInv, CallInv
<1>3. ~ SetStep(c) /\ ~ GetStep(c) /\ ~ GetAgainStep(c)
  BY <1>1 DEF SetStep, GetStep, GetAgainStep, OpsInv, CallInv
<1>4. d # c
  BY <1>2, <1>3 DEF CallStep
<1>5. rc'[c] = rc[c] /\ pc'[c] = pc[c]
  BY <1>1, <1>4, OnlyItsResult
<1>6. todo'[c] = todo[c] /\ subs'[c] = subs[c]
  <2>1. DOMAIN todo = Call /\ DOMAIN subs = Call
    BY DEF OpsInv, CallTypes
  <2>2. \/ UNCHANGED todo \/ \E x : todo' = [todo EXCEPT ![d] = x]
    BY DEF CallStep, CreateBegin, CreateStep, DeleteBegin, ListStep, EmplaceStep, ListDone,
       DeleteStep, SetStep, GetStep, GetAgainStep
  <2>3. \/ UNCHANGED subs \/ \E x : subs' = [subs EXCEPT ![d] = x]
    BY DEF CallStep, CreateBegin, CreateStep, DeleteBegin, ListStep, EmplaceStep, ListDone,
       DeleteStep, SetStep, GetStep, GetAgainStep
  <2> QED
    BY <1>1, <1>4, <2>1, <2>2, <2>3
<1>7. got'[c] = got[c]
  <2>1. DOMAIN got = Call
    BY DEF OpsInv, CallTypes
  <2>2. \/ UNCHANGED got \/ \E x : got' = [got EXCEPT ![d] = x]
    BY DEF CallStep, CreateBegin, CreateStep, DeleteBegin, ListStep, EmplaceStep, ListDone,
       DeleteStep, SetStep, GetStep, GetAgainStep, Return
  <2> QED
    BY <1>1, <1>4, <2>1, <2>2
<1> QED
  BY <1>5, <1>6, <1>7 DEF Same

\* What a request of a create does when its parent is there and the answer
\* arrives.
LEMMA PrefixCreated ==
    ASSUME OpsInv, PrefixInv, OnlyCreates, ~scenario.loss, NEW c \in Calls("create"), CreateStep(c)
    PROVE  /\ pc'[c] = "create" => Parent(Head(todo'[c])) \in tree' \cup {Root}
           /\ pc'[c] = "done" => rc'[c] \in {"ZOK", "ZNODEEXISTS"}
<1>1. c \in Call /\ OpOf(c) = "create"
  BY DEF Calls
<1> DEFINE p == Head(todo[c])
           rest == Tail(todo[c])
           v == CreateValue(c, rest)
<1>2. /\ pc[c] = "create"
      /\ todo[c] \in Seq(Seq(Char)) \ {<<>>} /\ ToCreate(todo[c], PathOf(c))
      /\ p \in Path /\ v \in Stored /\ v # Absent
      /\ todo' = [todo EXCEPT ![c] = rest]
  BY <1>1, CreateStepFacts
<1>3. PICK fate \in Fate :
        /\ Request(fate, CreateRc(p), p, v)
        /\ IF CreateEnds(Answer(fate, CreateRc(p)), rest)
           THEN Finish(c, Answer(fate, CreateRc(p))) ELSE UNCHANGED <<pc, rc>>
  BY <1>1, CreateStepFacts
<1>4. fate = "answered"
  BY DEF Fate
<1>5. Parent(p) \in tree \cup {Root}
  BY <1>2 DEF PrefixInv
<1>6. Answer(fate, CreateRc(p)) \in {"ZOK", "ZNODEEXISTS"} /\ CreateRc(p) # "ZNONODE"
  BY <1>4, <1>5 DEF Answer, CreateRc
<1>7. rest # <<>> => Parent(Head(rest)) = p
  BY <1>2, RestToCreate
<1>8. todo'[c] = rest
  BY <1>1, <1>2 DEF OpsInv, CallTypes
<1> HIDE DEF rest, p, v
<1>9. p \in tree'
  BY <1>2, <1>3, <1>4, <1>6, CreateEffect
<1>10. CASE rest = <<>>
  <2>1. Finish(c, Answer(fate, CreateRc(p)))
    BY <1>3, <1>10 DEF CreateEnds
  <2>2. pc'[c] = "done" /\ rc'[c] = Answer(fate, CreateRc(p))
    BY <1>1, <2>1 DEF Finish, OpsInv, CallTypes
  <2> QED
    BY <1>6, <2>2
<1>11. CASE rest # <<>>
  <2>1. UNCHANGED <<pc, rc>>
    BY <1>3, <1>6, <1>11 DEF CreateEnds
  <2> QED
    BY <1>2, <1>7, <1>8, <1>9, <1>11, <2>1
<1> QED
  BY <1>10, <1>11

\* The invariant of the prefixes is kept by every step.
LEMMA PrefixStep == OpsInv /\ PrefixInv /\ [Next]_vars => PrefixInv'
<1> SUFFICES ASSUME OpsInv, PrefixInv, [Next]_vars, (OnlyCreates /\ ~scenario.loss)',
                    NEW c \in Calls("create")'
             PROVE  /\ pc'[c] = "create" => Parent(Head(todo'[c])) \in tree' \cup {Root}
                    /\ Ended(c)' => rc'[c] \in {"ZOK", "ZNODEEXISTS"}
  BY DEF PrefixInv
<1>1. scenario' = scenario
  BY DEF Next, vars, OtherClient, CallStep, CreateBegin, CreateStep, DeleteBegin, ListStep, EmplaceStep,
     ListDone, DeleteStep, SetStep, GetStep, GetAgainStep
<1>2. OnlyCreates /\ ~scenario.loss /\ c \in Calls("create") /\ c \in Call
  BY <1>1 DEF OnlyCreates, Calls, OpOf
<1>3. /\ pc[c] = "create" => Parent(Head(todo[c])) \in tree \cup {Root}
      /\ pc[c] = "done" => rc[c] \in {"ZOK", "ZNODEEXISTS"}
  BY <1>2 DEF PrefixInv, Ended
<1>4. tree \subseteq tree'
  BY <1>2, CreatesGrow
<1>5. CASE CreateBegin(c)
  <2>1. pc'[c] = "create" /\ todo'[c] = split_path(PathOf(c))
    BY <1>2, <1>5 DEF CreateBegin, OpsInv, CallTypes
  <2>2. PathOf(c) \in Path
    BY <1>2, CallFacts DEF OpsInv
  <2> QED
    BY <2>1, <2>2, SplitToCreate DEF Ended
<1>6. CASE CreateStep(c)
  BY <1>2, <1>6, PrefixCreated DEF Ended
<1>7. CASE pc'[c] = pc[c] /\ todo'[c] = todo[c] /\ rc'[c] = rc[c]
  BY <1>3, <1>4, <1>7 DEF Ended
<1>8. CASE ~ CreateBegin(c) /\ ~ CreateStep(c)
  <2>1. ASSUME NEW d \in Call, CallStep(d) PROVE pc'[c] = pc[c] /\ todo'[c] = todo[c] /\ rc'[c] = rc[c]
    BY <1>2, <1>8, <2>1, CreateAlone DEF Same
  <2> QED
    BY <1>7, <2>1 DEF Next, vars, OtherClient
<1> QED
  BY <1>5, <1>6, <1>8

\* Whatever other creators do at the same time, and however the paths of the
\* calls are nested, a create does not fail for lack of a parent as long as
\* nobody deletes and the connection holds (create_path, cppzk.hpp:122).
THEOREM PrefixesAreEnough == Spec => []PrefixesSuffice
<1>1. Init => PrefixInv
  BY DEF Init, PrefixInv, Calls, Ended
<1>2. PrefixInv => PrefixesSuffice
  BY DEF PrefixInv, PrefixesSuffice
<1> QED
  BY <1>1, <1>2, PrefixStep, OpsHolds, PTL DEF Spec

\* While only creates run, the value of a create is at its path if it has
\* reported success, and only if it has, or has lost its connection.
StoredInv ==
    OnlyCreates =>
        \A c \in Calls("create") :
            /\ Ended(c) /\ rc[c] = "ZOK" => node[PathOf(c)] = Value(c, 0)
            /\ node[PathOf(c)] = Value(c, 0) => Ended(c) /\ rc[c] \in {"ZOK", "ZCONNECTIONLOSS"}

\* A create that reports success has stored its value.
LEMMA SuccessStored ==
    ASSUME OpsInv, NEW c \in Call, CreateStep(c), pc'[c] = "done", rc'[c] = "ZOK"
    PROVE  node'[PathOf(c)] = Value(c, 0)
<1> DEFINE p == Head(todo[c])
           rest == Tail(todo[c])
           v == CreateValue(c, rest)
<1>1. /\ pc[c] = "create"
      /\ todo[c] \in Seq(Seq(Char)) \ {<<>>} /\ ToCreate(todo[c], PathOf(c))
      /\ p \in Path /\ v \in Stored /\ v # Absent
  BY CreateStepFacts
<1>2. PICK fate \in Fate :
        /\ Request(fate, CreateRc(p), p, v)
        /\ IF CreateEnds(Answer(fate, CreateRc(p)), rest)
           THEN Finish(c, Answer(fate, CreateRc(p))) ELSE UNCHANGED <<pc, rc>>
  BY CreateStepFacts
<1>3. rest = <<>> => p = PathOf(c) /\ v = Value(c, 0)
  BY <1>1, RestToCreate DEF CreateValue
<1> HIDE DEF rest, p, v
<1>4. CreateEnds(Answer(fate, CreateRc(p)), rest) /\ Finish(c, Answer(fate, CreateRc(p)))
  BY <1>1, <1>2
<1>5. Answer(fate, CreateRc(p)) = "ZOK"
  BY <1>4 DEF Finish, OpsInv, CallTypes
<1>6. fate = "answered" /\ CreateRc(p) = "ZOK" /\ rest = <<>>
  BY <1>4, <1>5 DEF Answer, CreateEnds
<1> QED
  BY <1>1, <1>2, <1>3, <1>6, CreateEffect

\* A step that stores the value of a create is its last one.
LEMMA StoredLast ==
    ASSUME OpsInv, OnlyCreates, [Next]_vars, NEW c \in Calls("create"),
           node[PathOf(c)] # Value(c, 0), node'[PathOf(c)] = Value(c, 0)
    PROVE  pc'[c] = "done" /\ rc'[c] \in {"ZOK", "ZCONNECTIONLOSS"}
<1>1. c \in Call /\ PathOf(c) \in Path
  BY CallFacts DEF Calls, OpsInv
<1>2. node'[PathOf(c)] # node[PathOf(c)] /\ node'[PathOf(c)].id = c
  BY DEF Value
<1>3. PICK d \in Call : CreateStep(d)
  BY <1>1, <1>2, CreatesGrow, IdAssumption
<1> DEFINE p == Head(todo[d])
           rest == Tail(todo[d])
           v == CreateValue(d, rest)
<1>4. /\ todo[d] \in Seq(Seq(Char)) \ {<<>>}
      /\ p \in Path /\ v \in Stored /\ v # Absent
  BY <1>3, CreateStepFacts
<1>5. PICK fate \in Fate :
        /\ Request(fate, CreateRc(p), p, v)
        /\ IF CreateEnds(Answer(fate, CreateRc(p)), rest)
           THEN Finish(d, Answer(fate, CreateRc(p))) ELSE UNCHANGED <<pc, rc>>
  BY <1>3, CreateStepFacts
<1>6. /\ v.id = c => d = c /\ rest = <<>>
      /\ fate \in {"answered", "unanswered", "unsent"}
  BY <1>1, IdAssumption DEF CreateValue, Value, NoData, Fate
<1> HIDE DEF rest, p, v
<1>7. v = Value(c, 0) /\ fate # "unsent" /\ CreateRc(p) = "ZOK"
  BY <1>1, <1>2, <1>4, <1>5, CreateEffect
<1>8. d = c /\ rest = <<>>
  BY <1>6, <1>7 DEF Value
<1>9. Answer(fate, CreateRc(p)) \in {"ZOK", "ZCONNECTIONLOSS"}
  BY <1>7 DEF Answer
<1>10. Finish(c, Answer(fate, CreateRc(p)))
  BY <1>5, <1>8 DEF CreateEnds
<1> QED
  BY <1>1, <1>9, <1>10 DEF Finish, OpsInv, CallTypes

\* The invariant of the stored values is kept by every step.
LEMMA StoredStep == OpsInv /\ StoredInv /\ [Next]_vars => StoredInv'
<1> SUFFICES ASSUME OpsInv, StoredInv, [Next]_vars, OnlyCreates', NEW c \in Calls("create")'
             PROVE  /\ Ended(c)' /\ rc'[c] = "ZOK" => node'[PathOf(c)'] = Value(c, 0)
                    /\ node'[PathOf(c)'] = Value(c, 0) =>
                         Ended(c)' /\ rc'[c] \in {"ZOK", "ZCONNECTIONLOSS"}
  BY DEF StoredInv
<1>1. scenario' = scenario
  BY DEF Next, vars, OtherClient, CallStep, CreateBegin, CreateStep, DeleteBegin, ListStep, EmplaceStep,
     ListDone, DeleteStep, SetStep, GetStep, GetAgainStep
<1>2. OnlyCreates /\ c \in Calls("create") /\ c \in Call /\ PathOf(c)' = PathOf(c)
  BY <1>1 DEF OnlyCreates, Calls, OpOf, PathOf
<1>3. PathOf(c) \in Path
  BY <1>2, CallFacts DEF OpsInv
<1>4. /\ Ended(c) /\ rc[c] = "ZOK" => node[PathOf(c)] = Value(c, 0)
      /\ node[PathOf(c)] = Value(c, 0) => Ended(c) /\ rc[c] \in {"ZOK", "ZCONNECTIONLOSS"}
  BY <1>2 DEF StoredInv
<1>5. node[PathOf(c)] = Value(c, 0) => node'[PathOf(c)] = Value(c, 0)
  <2>1. node[PathOf(c)] = Value(c, 0) => PathOf(c) \in tree
    BY <1>2, <1>3, Values DEF tree
  <2> QED
    BY <1>2, <2>1, CreatesGrow
<1>6. \/ CreateBegin(c) \/ CreateStep(c)
      \/ pc'[c] = pc[c] /\ rc'[c] = rc[c]
  <2>1. ASSUME NEW d \in Call, CallStep(d), ~ CreateBegin(c), ~ CreateStep(c)
        PROVE  pc'[c] = pc[c] /\ rc'[c] = rc[c]
    BY <1>2, <2>1, CreateAlone DEF Same
  <2> QED
    BY <2>1 DEF Next, vars, OtherClient
<1>7. CreateBegin(c) \/ CreateStep(c) => pc[c] # "done"
  BY DEF CreateBegin, CreateStep
<1>8. CreateBegin(c) => pc'[c] # "done"
  BY <1>2 DEF CreateBegin, OpsInv, CallTypes
<1>9. ASSUME pc'[c] = "done", rc'[c] = "ZOK" PROVE node'[PathOf(c)] = Value(c, 0)
  <2>1. CASE CreateStep(c)
    BY <1>2, <1>9, <2>1, SuccessStored
  <2>2. CASE pc'[c] = pc[c] /\ rc'[c] = rc[c]
    BY <1>4, <1>5, <1>9, <2>2 DEF Ended
  <2> QED
    BY <1>6, <1>8, <1>9, <2>1, <2>2
<1>10. ASSUME node'[PathOf(c)] = Value(c, 0)
       PROVE  pc'[c] = "done" /\ rc'[c] \in {"ZOK", "ZCONNECTIONLOSS"}
  <2>1. CASE node[PathOf(c)] = Value(c, 0)
    BY <1>4, <1>6, <1>7, <2>1 DEF Ended
  <2>2. CASE node[PathOf(c)] # Value(c, 0)
    BY <1>2, <1>10, <2>2, StoredLast
  <2> QED
    BY <2>1, <2>2
<1> QED
  BY <1>2, <1>9, <1>10 DEF Ended

\* Of several creators of one path, each that reports success has its value
\* stored, and each that reports ZNODEEXISTS has not: one succeeds, for any
\* number of creators and with lost connections (create_path, cppzk.hpp:130).
THEOREM SuccessIffStored == Spec => []OkIffStored
<1>1. Init => StoredInv
  <2> SUFFICES ASSUME Init, NEW c \in Calls("create"), OnlyCreates PROVE ~ Ended(c) /\ node[PathOf(c)] # Value(c, 0)
    BY DEF StoredInv
  <2>1. c \in Call /\ PathOf(c) \in Path
    BY CallFacts DEF Calls, Init
  <2>2. node[PathOf(c)] = NoData \/ node[PathOf(c)] = Absent
    BY <2>1 DEF Init
  <2>3. NoData # Value(c, 0) /\ Absent # Value(c, 0)
    BY DEF NoData, Absent, Value
  <2> QED
    BY <2>1, <2>2, <2>3 DEF Init, Ended
<1>2. StoredInv => OkIffStored
  BY DEF StoredInv, OkIffStored
<1> QED
  BY <1>1, <1>2, StoredStep, OpsHolds, PTL DEF Spec



-----------------------------------------------------------------------------
(***************************************************************************)
(* Several deletes of one path: one of them gets through.                  *)
(***************************************************************************)
\* The name at which x and y first differ is listed earlier in x.
Left(x, y) ==
    \E k \in DOMAIN x \cap DOMAIN y :
        /\ \A m \in 1 .. k - 1 : x[m] = y[m]
        /\ \E i, j \in DOMAIN Names : i < j /\ x[k] = Names[i] /\ y[k] = Names[j]

\* recursive_get_sub_path comes to x before y: what is listed earlier, and what
\* is below, is deleted first.
Earlier(x, y) == Left(x, y) \/ (Under(y, x) /\ x # y)

\* What one path above another means for their characters.
LEMMA UnderFacts ==
    ASSUME NEW S, NEW x \in Seq(S), NEW y \in Seq(S)
    PROVE  /\ Len(x) \in Nat /\ DOMAIN x = 1 .. Len(x)
           /\ Under(x, y) => Len(x) <= Len(y) /\ (Len(x) = Len(y) => x = y)
           /\ Under(x, y) => \A k \in DOMAIN x : k \in DOMAIN y /\ x[k] = y[k]
<1>1. Len(x) \in Nat /\ DOMAIN x = 1 .. Len(x) /\ Len(y) \in Nat /\ DOMAIN y = 1 .. Len(y)
      /\ y = SubSeq(y, 1, Len(y))
  BY LenProperties, SubSeqFull
<1>2. ASSUME Under(x, y) PROVE Len(x) <= Len(y) /\ SubSeq(y, 1, Len(x)) = x
  BY <1>2 DEF Under
<1>3. ASSUME Under(x, y) PROVE \A k \in DOMAIN x : k \in DOMAIN y /\ x[k] = y[k]
  <2>1. Len(x) \in 0 .. Len(y)
    BY <1>1, <1>2, <1>3
  <2>2. \A k \in 1 .. Len(x) : SubSeq(y, 1, Len(x))[k] = y[k]
    BY <2>1, PrefixFacts
  <2> QED
    BY <1>1, <1>2, <1>3, <2>1, <2>2
<1> QED
  BY <1>1, <1>2, <1>3

\* A path lies above itself.
LEMMA UnderSelf ==
    ASSUME NEW S, NEW x \in Seq(S)
    PROVE  Under(x, x)
<1>1. Len(x) \in Nat /\ x = SubSeq(x, 1, Len(x))
  BY LenProperties, SubSeqFull
<1> QED
  BY <1>1 DEF Under

\* Above what is above is above.
LEMMA UnderTrans ==
    ASSUME NEW S, NEW x \in Seq(S), NEW y \in Seq(S), NEW z \in Seq(S), Under(x, y), Under(y, z)
    PROVE  Under(x, z)
<1>1. /\ Len(x) \in Nat /\ Len(y) \in Nat /\ Len(z) \in Nat
      /\ DOMAIN y = 1 .. Len(y)
      /\ Len(x) <= Len(y) /\ Len(y) <= Len(z)
      /\ \A k \in DOMAIN y : y[k] = z[k]
  BY UnderFacts
<1>2. /\ SubSeq(y, 1, Len(x)) = x /\ (Len(x) < Len(y) => y[Len(x) + 1] = Slash)
      /\ SubSeq(z, 1, Len(y)) = y /\ (Len(y) < Len(z) => z[Len(y) + 1] = Slash)
  BY DEF Under
<1>3. Len(y) \in 0 .. Len(z) /\ Len(x) \in 0 .. Len(y)
  BY <1>1
<1>4. SubSeq(z, 1, Len(x)) = x
  BY <1>2, <1>3, PrefixOfPrefix
<1>5. Len(x) < Len(z) => z[Len(x) + 1] = Slash
  <2>1. CASE Len(x) < Len(y)
    <3>1. Len(x) + 1 \in DOMAIN y
      BY <1>1, <2>1
    <3> QED
      BY <1>1, <1>2, <2>1, <3>1
  <2>2. CASE Len(x) = Len(y)
    BY <1>2, <2>2
  <2> QED
    BY <1>1, <2>1, <2>2
<1> QED
  BY <1>1, <1>4, <1>5 DEF Under

\* A child.
LEMMA ChildFacts ==
    ASSUME NEW p \in Seq(Char), NEW i \in DOMAIN Names
    PROVE  /\ Child(p, Names[i]) \in Seq(Char)
           /\ Len(p) \in Nat /\ Len(Child(p, Names[i])) = Len(p) + 2
           /\ \A k \in 1 .. Len(p) : Child(p, Names[i])[k] = p[k]
           /\ Child(p, Names[i])[Len(p) + 1] = Slash
           /\ Child(p, Names[i])[Len(p) + 2] = Names[i]
           /\ Under(p, Child(p, Names[i])) /\ Child(p, Names[i]) # p
<1> DEFINE n == Names[i]
           ch == Child(p, n)
           e == <<Slash, n>>
<1>1. Slash \in Char /\ n \in Char
  BY DEF Char
<1>2. e \in Seq(Char) /\ Len(e) = 2 /\ e[1] = Slash /\ e[2] = n
  <2>1. ASSUME NEW S, NEW x \in S, NEW y \in S PROVE <<x, y>> \in Seq(S)
    OBVIOUS
  <2> QED
    BY <1>1, <2>1
<1> HIDE DEF e, n
<1>3. /\ ch \in Seq(Char) /\ Len(ch) = Len(p) + 2
      /\ \A k \in 1 .. Len(p) + 2 : ch[k] = IF k <= Len(p) THEN p[k] ELSE e[k - Len(p)]
  BY <1>2, ConcatProperties DEF Child, e
<1>4. Len(p) \in Nat /\ Len(p) + 1 \in 1 .. Len(p) + 2 /\ Len(p) + 2 \in 1 .. Len(p) + 2
      /\ Len(p) \in 0 .. Len(p) + 2
  BY LenProperties
<1> HIDE DEF ch
<1>5. \A k \in 1 .. Len(p) : ch[k] = p[k]
  BY <1>3, <1>4
<1>6. ch[Len(p) + 1] = Slash /\ ch[Len(p) + 2] = n
  BY <1>2, <1>3, <1>4
<1>7. SubSeq(ch, 1, Len(p)) = p
  <2>1. /\ SubSeq(ch, 1, Len(p)) \in Seq(Char) /\ Len(SubSeq(ch, 1, Len(p))) = Len(p)
        /\ \A k \in 1 .. Len(p) : SubSeq(ch, 1, Len(p))[k] = ch[k]
    BY <1>3, <1>4, PrefixFacts
  <2> QED
    BY <1>5, <2>1, SeqEqual
<1>8. Under(p, ch) /\ ch # p
  BY <1>3, <1>4, <1>6, <1>7 DEF Under
<1> QED
  BY <1>3, <1>4, <1>5, <1>6, <1>8 DEF ch, n

\* The order agrees with what is below, and is no circle.
LEMMA LeftBelow ==
    ASSUME NEW x \in Seq(Char), NEW y \in Seq(Char), NEW z \in Seq(Char)
    PROVE  /\ Left(x, y) /\ Under(y, z) => Left(x, z)
           /\ Left(x, y) /\ Under(x, z) => Left(z, y)
<1>1. /\ DOMAIN x = 1 .. Len(x) /\ Len(x) \in Nat /\ DOMAIN y = 1 .. Len(y) /\ Len(y) \in Nat
      /\ Under(y, z) => \A k \in DOMAIN y : k \in DOMAIN z /\ y[k] = z[k]
      /\ Under(x, z) => \A k \in DOMAIN x : k \in DOMAIN z /\ x[k] = z[k]
  BY UnderFacts
<1>2. ASSUME Left(x, y)
      PROVE  (Under(y, z) => Left(x, z)) /\ (Under(x, z) => Left(z, y))
  <2>1. PICK k \in DOMAIN x \cap DOMAIN y :
          /\ \A m \in 1 .. k - 1 : x[m] = y[m]
          /\ \E i, j \in DOMAIN Names : i < j /\ x[k] = Names[i] /\ y[k] = Names[j]
    BY <1>2 DEF Left
  <2>2. \A m \in 1 .. k - 1 : m \in DOMAIN x /\ m \in DOMAIN y
    BY <1>1, <2>1
  <2>3. ASSUME Under(y, z) PROVE Left(x, z)
    <3>1. k \in DOMAIN x \cap DOMAIN z /\ z[k] = y[k] /\ \A m \in 1 .. k - 1 : x[m] = z[m]
      BY <1>1, <2>1, <2>2, <2>3
    <3> QED
      BY <2>1, <3>1 DEF Left
  <2>4. ASSUME Under(x, z) PROVE Left(z, y)
    <3>1. k \in DOMAIN z \cap DOMAIN y /\ z[k] = x[k] /\ \A m \in 1 .. k - 1 : z[m] = y[m]
      BY <1>1, <2>1, <2>2, <2>4
    <3> QED
      BY <2>1, <3>1 DEF Left
  <2> QED
    BY <2>3, <2>4
<1> QED
  BY <1>2

LEMMA LeftApart ==
    ASSUME NEW x \in Seq(Char), NEW y \in Seq(Char), Left(x, y)
    PROVE  ~Left(y, x) /\ ~Under(x, y) /\ ~Under(y, x) /\ x # y
<1>1. /\ DOMAIN x = 1 .. Len(x) /\ Len(x) \in Nat /\ DOMAIN y = 1 .. Len(y) /\ Len(y) \in Nat
      /\ Under(x, y) => \A k \in DOMAIN x : x[k] = y[k]
      /\ Under(y, x) => \A k \in DOMAIN y : x[k] = y[k]
  BY UnderFacts
<1>2. PICK k \in DOMAIN x \cap DOMAIN y :
        /\ \A m \in 1 .. k - 1 : x[m] = y[m]
        /\ \E i, j \in DOMAIN Names : i < j /\ x[k] = Names[i] /\ y[k] = Names[j]
  BY DEF Left
<1>3. PICK i \in DOMAIN Names, j \in DOMAIN Names : i < j /\ x[k] = Names[i] /\ y[k] = Names[j]
  BY <1>2
<1>4. i \in Nat /\ j \in Nat /\ DOMAIN Names \subseteq Nat
  BY NameAssumption, LenProperties
<1>5. x[k] # y[k]
  BY <1>3, <1>4, ListAssumption
<1>6. ASSUME Left(y, x) PROVE FALSE
  <2>1. PICK l \in DOMAIN y \cap DOMAIN x :
          /\ \A m \in 1 .. l - 1 : y[m] = x[m]
          /\ \E a, b \in DOMAIN Names : a < b /\ y[l] = Names[a] /\ x[l] = Names[b]
    BY <1>6 DEF Left
  <2>2. PICK a \in DOMAIN Names, b \in DOMAIN Names : a < b /\ y[l] = Names[a] /\ x[l] = Names[b]
    BY <2>1
  <2>3. x[l] # y[l] /\ a \in Nat /\ b \in Nat
    BY <1>4, <2>2, ListAssumption
  <2>4. k = l
    BY <1>1, <1>2, <1>5, <2>1, <2>3
  <2>5. i = b /\ j = a
    BY <1>3, <2>2, <2>4, ListAssumption
  <2> QED
    BY <1>3, <1>4, <2>2, <2>5
<1> QED
  BY <1>1, <1>2, <1>5, <1>6

\* Nothing is earlier than what is earlier than itself.
LEMMA EarlierApart ==
    ASSUME NEW x \in Seq(Char), NEW y \in Seq(Char), Earlier(x, y)
    PROVE  ~Earlier(y, x) /\ x # y /\ ~Under(x, y)
<1>1. CASE Left(x, y)
  BY <1>1, LeftApart DEF Earlier
<1>2. CASE Under(y, x) /\ x # y
  <2>1. ~Under(x, y)
    BY <1>2, UnderFacts
  <2>2. ~Left(y, x)
    BY <1>2, LeftApart
  <2> QED
    BY <1>2, <2>1, <2>2 DEF Earlier
<1> QED
  BY <1>1, <1>2 DEF Earlier

\* Of two children of a path the one that is listed first is the earlier one.
LEMMA ChildrenLeft ==
    ASSUME NEW p \in Seq(Char), NEW i \in DOMAIN Names, NEW j \in DOMAIN Names, i < j
    PROVE  Left(Child(p, Names[i]), Child(p, Names[j]))
<1> DEFINE x == Child(p, Names[i])
           y == Child(p, Names[j])
           k == Len(p) + 2
<1>1. /\ x \in Seq(Char) /\ y \in Seq(Char) /\ Len(p) \in Nat /\ Len(x) = k /\ Len(y) = k
      /\ x[k] = Names[i] /\ y[k] = Names[j] /\ x[Len(p) + 1] = y[Len(p) + 1]
      /\ \A m \in 1 .. Len(p) : x[m] = p[m] /\ y[m] = p[m]
  BY ChildFacts
<1>2. DOMAIN x = 1 .. Len(x) /\ DOMAIN y = 1 .. Len(y)
  BY <1>1, LenProperties
<1> HIDE DEF x, y
<1>3. k \in DOMAIN x \cap DOMAIN y
  BY <1>1, <1>2
<1>4. \A m \in 1 .. k - 1 : x[m] = y[m]
  <2>1. \A m \in 1 .. k - 1 : m \in 1 .. Len(p) \/ m = Len(p) + 1
    BY <1>1
  <2> QED
    BY <1>1, <2>1
<1> HIDE DEF k
<1>5. Left(x, y)
  BY <1>1, <1>3, <1>4 DEF Left
<1> QED
  BY <1>5 DEF x, y

\* The way from a path down to a node below it goes through one of its children.
LEMMA WayDown ==
    ASSUME ServerInv, NEW p \in Path, NEW x \in tree, Under(p, x), x # p
    PROVE  /\ p \in tree
           /\ \E i \in DOMAIN Names : Child(p, Names[i]) \in tree /\ Under(Child(p, Names[i]), x)
<1>1. \A q \in tree : q \in Path /\ q \in Seq(Char) /\ q # Root /\ q[1] = Slash
  BY PathAssumption DEF tree
<1>2. p \in Seq(Char) /\ p # Root
  BY PathAssumption
<1> DEFINE B == {q \in tree : Under(p, q) /\ q # p /\ Under(q, x)}
           T == {Len(q) : q \in B}
<1>3. x \in B
  BY <1>1, UnderSelf
<1>4. T \in SUBSET Nat /\ T # {}
  <2>1. \A q \in B : Len(q) \in Nat
    BY <1>1, LenProperties
  <2> HIDE DEF B
  <2> QED
    BY <1>3, <2>1
<1>5. PICK m \in T : \A n \in T : m <= n
  BY <1>4, Least
<1>6. PICK q \in B : m = Len(q)
  BY <1>5
<1>7. q \in tree /\ Under(p, q) /\ p # q /\ Under(q, x) /\ q \in Path /\ q \in Seq(Char) /\ q # Root /\ q[1] = Slash
  BY <1>1, <1>6
<1>8. Under(p, Parent(q)) /\ Len(Parent(q)) < Len(q)
  BY <1>2, <1>7, ParentUnder
<1>9. Parent(q) \in tree \cup {Root}
  BY <1>7 DEF ServerInv, Closed
<1>10. Parent(q) # Root
  <2>1. Len(p) \in Nat /\ Len(p) # 0
    BY <1>2, LenProperties, EmptySeq DEF Root
  <2>2. Parent(q) = Root => Len(p) <= Len(<<>>)
    BY <1>8 DEF Under, Root
  <2> QED
    BY <2>1, <2>2
<1>11. PICK i \in DOMAIN Names : q = Child(Parent(q), Names[i])
  BY <1>7, ListAssumption
<1>12. Parent(q) \in tree /\ Parent(q) \in Seq(Char)
  BY <1>1, <1>9, <1>10
<1>13. Under(Parent(q), q)
  BY <1>11, <1>12, ChildFacts
<1>14. Parent(q) = p
  <2> SUFFICES ASSUME Parent(q) # p PROVE FALSE
    OBVIOUS
  <2>1. Under(Parent(q), x)
    BY <1>1, <1>7, <1>12, <1>13, UnderTrans
  <2>2. Parent(q) \in B
    BY <1>8, <1>12, <2>1
  <2>3. Len(Parent(q)) \in T
    BY <2>2
  <2>4. Len(q) <= Len(Parent(q)) /\ Len(q) \in Nat /\ Len(Parent(q)) \in Nat
    BY <1>4, <1>5, <1>6, <2>3
  <2> QED
    BY <1>8, <2>4
<1> QED
  BY <1>7, <1>11, <1>12, <1>14

\* What is left of a delete is a sequence of listings and of nodes to be
\* deleted.  The order of the work: nothing earlier comes after b.
Precedes(a, b) ==
    IF b[1] = "list" THEN Left(a[2], b[2]) ELSE a = Listing(b[2]) \/ Earlier(a[2], b[2])

Before(A, B) == \A a \in A, b \in B : Precedes(a, b)
Ordered(s) == \A i, j \in DOMAIN s : i < j => Precedes(s[i], s[j])
InPlan(s) == {s[i] : i \in DOMAIN s}

\* The plan E deals with every node of T at and below path: the node is to be
\* deleted, or will be found.
Stands(a, x) == a = Emplace(x) \/ (a[1] = "list" /\ Under(a[2], x) /\ x # a[2])
Covers(E, T, path) == \A x \in T : Under(path, x) => \E a \in E : Stands(a, x)

\* What a plan speaks of is still there when something earlier is.
Resumes(E, T, path) ==
    \A x \in T, a \in E : Under(path, x) /\ Earlier(x, a[2]) => a[2] \in T

Sound(E, T, path) ==
    /\ \A a \in E : Under(path, a[2])
    /\ Covers(E, T, path)
    /\ Resumes(E, T, path)

Right(s, T, path) == Ordered(s) /\ Sound(InPlan(s), T, path)

\* The call with plan E has fallen behind no other one.
Leading(E, T) == \A a \in E : a[2] \in T

\* A plan of two parts.
LEMMA TwoParts ==
    ASSUME NEW q \in Seq(Items), NEW r \in Seq(Items)
    PROVE  /\ q \o r \in Seq(Items)
           /\ InPlan(q \o r) = InPlan(q) \cup InPlan(r)
           /\ Ordered(q \o r) <=> Ordered(q) /\ Ordered(r) /\ Before(InPlan(q), InPlan(r))
<1> DEFINE s == q \o r
<1>1. s \in Seq(Items) /\ Joined(q, r, s)
  BY PutAll
<1> HIDE DEF s
<1>2. PICK n \in Nat : n = Len(q)
  BY <1>1 DEF Joined
<1>3. PICK m \in Nat : m = Len(r)
  BY <1>1 DEF Joined
<1>4. /\ DOMAIN q = 1 .. n /\ DOMAIN r = 1 .. m /\ DOMAIN s = 1 .. n + m
      /\ \A i \in 1 .. n : i \in 1 .. n + m /\ s[i] = q[i]
      /\ \A i \in 1 .. m : n + i \in 1 .. n + m /\ s[n + i] = r[i]
      /\ \A i \in 1 .. n + m : i \in 1 .. n \/ (i - n \in 1 .. m /\ s[i] = r[i - n])
  BY <1>1, <1>2, <1>3 DEF Joined
<1>5. InPlan(s) = InPlan(q) \cup InPlan(r)
  BY <1>4 DEF InPlan
<1>6. ASSUME Ordered(s) PROVE Ordered(q) /\ Ordered(r) /\ Before(InPlan(q), InPlan(r))
  <2>1. Ordered(q)
    BY <1>4, <1>6 DEF Ordered
  <2>2. Ordered(r)
    <3> SUFFICES ASSUME NEW i \in 1 .. m, NEW j \in 1 .. m, i < j PROVE Precedes(r[i], r[j])
      BY <1>4 DEF Ordered
    <3>1. n + i \in DOMAIN s /\ n + j \in DOMAIN s /\ n + i < n + j
      BY <1>4
    <3>2. Precedes(s[n + i], s[n + j])
      BY <1>6, <3>1 DEF Ordered
    <3> QED
      BY <1>4, <3>2
  <2>3. Before(InPlan(q), InPlan(r))
    <3> SUFFICES ASSUME NEW i \in 1 .. n, NEW j \in 1 .. m PROVE Precedes(q[i], r[j])
      BY <1>4 DEF Before, InPlan
    <3>1. i \in DOMAIN s /\ n + j \in DOMAIN s /\ i < n + j
      BY <1>4
    <3>2. Precedes(s[i], s[n + j])
      BY <1>6, <3>1 DEF Ordered
    <3> QED
      BY <1>4, <3>2
  <2> QED
    BY <2>1, <2>2, <2>3
<1>7. ASSUME Ordered(q), Ordered(r), Before(InPlan(q), InPlan(r)) PROVE Ordered(s)
  <2> SUFFICES ASSUME NEW i \in 1 .. n + m, NEW j \in 1 .. n + m, i < j PROVE Precedes(s[i], s[j])
    BY <1>4 DEF Ordered
  <2>1. CASE i \in 1 .. n /\ j \in 1 .. n
    BY <1>4, <1>7, <2>1 DEF Ordered
  <2>2. CASE i \in 1 .. n /\ j \notin 1 .. n
    <3>1. s[i] \in InPlan(q) /\ s[j] \in InPlan(r)
      BY <1>4, <2>2 DEF InPlan
    <3> QED
      BY <1>7, <3>1 DEF Before
  <2>3. CASE i \notin 1 .. n
    <3>1. j \notin 1 .. n /\ i - n < j - n /\ i - n \in DOMAIN r /\ j - n \in DOMAIN r
      BY <1>4, <2>3
    <3>2. Precedes(r[i - n], r[j - n])
      BY <1>7, <3>1 DEF Ordered
    <3> QED
      BY <1>4, <2>3, <3>1, <3>2
  <2> QED
    BY <2>1, <2>2, <2>3
<1> QED
  BY <1>1, <1>5, <1>6, <1>7 DEF s

\* A plan of one item.
LEMMA OnePart ==
    ASSUME NEW a \in Items
    PROVE  <<a>> \in Seq(Items) /\ InPlan(<<a>>) = {a} /\ Ordered(<<a>>)
<1>1. <<a>> \in Seq(Items) /\ DOMAIN <<a>> = {1} /\ <<a>>[1] = a
  BY OneMessage
<1> QED
  BY <1>1 DEF InPlan, Ordered

\* The first item of a plan, and the others.
LEMMA FirstPart ==
    ASSUME NEW q \in Seq(Items), q # <<>>
    PROVE  /\ Head(q) \in Items /\ Tail(q) \in Seq(Items)
           /\ InPlan(q) = {Head(q)} \cup InPlan(Tail(q))
           /\ Ordered(q) <=> Ordered(Tail(q)) /\ Before({Head(q)}, InPlan(Tail(q)))
<1>1. Head(q) \in Items /\ Tail(q) \in Seq(Items) /\ q = <<Head(q)>> \o Tail(q)
  BY HeadTailProperties, TakeHead
<1>2. <<Head(q)>> \in Seq(Items) /\ InPlan(<<Head(q)>>) = {Head(q)} /\ Ordered(<<Head(q)>>)
  BY <1>1, OnePart
<1> DEFINE h == <<Head(q)>>
           t == Tail(q)
<1>3. /\ InPlan(h \o t) = InPlan(h) \cup InPlan(t)
      /\ Ordered(h \o t) <=> Ordered(h) /\ Ordered(t) /\ Before(InPlan(h), InPlan(t))
  <2> HIDE DEF h, t
  <2> QED
    BY <1>1, <1>2, TwoParts DEF h, t
<1> QED
  BY <1>1, <1>2, <1>3

\* The nodes a delete has found, as a plan.
Emplaced(s) == [i \in DOMAIN s |-> Emplace(s[i])]

LEMMA EmplacedFacts ==
    ASSUME NEW s \in Seq(Seq(Char))
    PROVE  /\ Emplaced(s) \in Seq(Items)
           /\ s = <<>> => Emplaced(s) = <<>>
           /\ s # <<>> => /\ Head(s) \in Seq(Char)
                          /\ Emplaced(s) # <<>>
                          /\ Head(Emplaced(s)) = Emplace(Head(s))
                          /\ Tail(Emplaced(s)) = Emplaced(Tail(s))
           /\ \A x \in Seq(Char) : Emplaced(Append(s, x)) = Emplaced(s) \o <<Emplace(x)>>
<1> DEFINE e == Emplaced(s)
<1>1. Len(s) \in Nat /\ DOMAIN s = 1 .. Len(s) /\ \A i \in 1 .. Len(s) : s[i] \in Seq(Char)
  BY LenProperties, ElementOfSeq
<1>2. \A x \in Seq(Char) : Emplace(x) \in Items
  BY DEF Emplace, Items
<1>3. e = [i \in 1 .. Len(s) |-> Emplace(s[i])]
  BY <1>1 DEF Emplaced
<1>4. e \in Seq(Items) /\ Len(e) = Len(s)
  <2>1. \A i \in 1 .. Len(s) : Emplace(s[i]) \in Items
    BY <1>1, <1>2
  <2> HIDE DEF e
  <2> QED
    BY <1>1, <1>3, <2>1, IsASeq, LenProperties
<1>5. s = <<>> => e = <<>>
  BY <1>4, EmptySeq
<1>6. ASSUME s # <<>>
      PROVE  Head(s) \in Seq(Char) /\ e # <<>> /\ Head(e) = Emplace(Head(s)) /\ Tail(e) = Emplaced(Tail(s))
  <2>1. Len(s) # 0
    BY <1>6, EmptySeq
  <2>2. e # <<>>
    BY <1>4, <2>1, EmptySeq
  <2>3. /\ Head(s) \in Seq(Char) /\ Head(s) = s[1] /\ 1 \in DOMAIN s
        /\ DOMAIN Tail(s) = 1 .. Len(s) - 1 /\ \A i \in DOMAIN Tail(s) : i + 1 \in DOMAIN s /\ Tail(s)[i] = s[i + 1]
    BY <1>6, TakeHead
  <2>4. /\ Head(e) = e[1] /\ Tail(e) \in Seq(Items) /\ DOMAIN Tail(e) = 1 .. Len(s) - 1
        /\ Len(Tail(e)) = Len(s) - 1
        /\ \A i \in DOMAIN Tail(e) : Tail(e)[i] = e[i + 1]
    <3> HIDE DEF e
    <3> QED
      BY <1>4, <2>2, TakeHead
  <2> HIDE DEF e
  <2>5. Head(e) = Emplace(Head(s))
    BY <1>1, <1>3, <2>3, <2>4
  <2>6. \A i \in 1 .. Len(s) - 1 : Tail(e)[i] = Emplace(Tail(s)[i])
    BY <1>1, <1>3, <2>3, <2>4
  <2>7. Tail(e) = [i \in 1 .. Len(s) - 1 |-> Tail(e)[i]]
    BY <2>4, LenProperties
  <2>8. Emplaced(Tail(s)) = [i \in 1 .. Len(s) - 1 |-> Emplace(Tail(s)[i])]
    BY <2>3 DEF Emplaced
  <2> QED
    BY <2>2, <2>3, <2>5, <2>6, <2>7, <2>8
<1>7. ASSUME NEW x \in Seq(Char) PROVE Emplaced(Append(s, x)) = e \o <<Emplace(x)>>
  <2> DEFINE t == Append(s, x)
             f == e \o <<Emplace(x)>>
             n == Len(s)
  <2>1. DOMAIN t = 1 .. n + 1 /\ t[n + 1] = x /\ \A i \in 1 .. n : t[i] = s[i]
    BY <1>1, PutLast
  <2>2. <<Emplace(x)>> \in Seq(Items) /\ Len(<<Emplace(x)>>) = 1 /\ <<Emplace(x)>>[1] = Emplace(x)
    BY <1>2, OneMessage
  <2> HIDE DEF e, n, t
  <2>3. /\ f \in Seq(Items) /\ Len(f) = n + 1
        /\ \A i \in 1 .. n + 1 : f[i] = IF i <= n THEN e[i] ELSE <<Emplace(x)>>[i - n]
    BY <1>4, <2>2, ConcatProperties DEF n
  <2>4. n \in Nat
    BY <1>1 DEF n
  <2> HIDE DEF f
  <2>5. \A i \in 1 .. n + 1 : f[i] = Emplace(t[i])
    <3> TAKE i \in 1 .. n + 1
    <3>1. CASE i <= n
      BY <1>3, <2>1, <2>3, <2>4, <3>1 DEF n
    <3>2. CASE i = n + 1
      BY <2>1, <2>2, <2>3, <2>4, <3>2
    <3> QED
      BY <2>4, <3>1, <3>2
  <2>6. f = [i \in 1 .. n + 1 |-> f[i]]
    BY <2>3, <2>4, LenProperties
  <2>7. Emplaced(t) = [i \in 1 .. n + 1 |-> Emplace(t[i])]
    BY <2>1 DEF Emplaced
  <2>8. Emplaced(t) = f
    BY <2>5, <2>6, <2>7
  <2> QED
    BY <2>8 DEF t, f
<1> QED
  BY <1>4, <1>5, <1>6, <1>7

\* What the loop of recursive_get_sub_path adds to a plan: for every child a
\* listing and then the child itself, in the order of the names.
LEMMA RecurseFacts ==
    ASSUME NEW p \in Seq(Char)
    PROVE  /\ Recurse(p) \in Seq(Items)
           /\ \A a \in InPlan(Recurse(p)) : \E n \in DOMAIN Names :
                Child(p, Names[n]) \in tree /\ a \in {Listing(Child(p, Names[n])), Emplace(Child(p, Names[n]))}
           /\ \A n \in DOMAIN Names : Child(p, Names[n]) \in tree =>
                Listing(Child(p, Names[n])) \in InPlan(Recurse(p)) /\ Emplace(Child(p, Names[n])) \in InPlan(Recurse(p))
           /\ Ordered(Recurse(p))
<1> DEFINE ch == ChildrenOf(p)
           s == Recurse(p)
<1>1. Listed(ch, Len(Names), p)
  BY ChildrenListed
<1>2. DOMAIN Names = 1 .. Len(Names)
  BY NameAssumption, LenProperties
<1>3. s = [i \in 1 .. 2 * Len(ch) |->
             IF i % 2 = 1 THEN Listing(Child(p, ch[(i + 1) \div 2])) ELSE Emplace(Child(p, ch[(i + 1) \div 2]))]
  BY DEF Recurse
<1>4. s \in Seq(Items)
  BY RecurseType
<1> HIDE DEF ch, s
<1>5. PICK L \in Nat : L = Len(ch) /\ DOMAIN ch = 1 .. L
  BY <1>1, LenProperties DEF Listed
<1> DEFINE k(i) == (i + 1) \div 2
           c(i) == Child(p, ch[k(i)])
<1>6. \A i \in 1 .. 2 * L : s[i] \in {Listing(c(i)), Emplace(c(i))} /\ (i % 2 = 1 => s[i] = Listing(c(i)))
                             /\ (i % 2 # 1 => s[i] = Emplace(c(i)))
  BY <1>3, <1>5
<1>7. DOMAIN s = 1 .. 2 * L
  BY <1>3, <1>5
<1>8. \A i \in 1 .. 2 * L : k(i) \in 1 .. L
  BY <1>5
<1>9. ASSUME NEW a \in InPlan(s)
      PROVE  \E n \in DOMAIN Names : Child(p, Names[n]) \in tree /\ a \in {Listing(Child(p, Names[n])), Emplace(Child(p, Names[n]))}
  <2>1. PICK i \in 1 .. 2 * L : a = s[i]
    BY <1>7, <1>9 DEF InPlan
  <2>2. k(i) \in DOMAIN ch
    BY <1>5, <1>8
  <2>3. PICK n \in 1 .. Len(Names) : ch[k(i)] = Names[n] /\ Child(p, Names[n]) \in tree
    <3> HIDE DEF k
    <3> QED
      BY <1>1, <2>2 DEF Listed
  <2>4. a \in {Listing(c(i)), Emplace(c(i))}
    BY <1>6, <2>1
  <2> HIDE DEF k
  <2> QED
    BY <1>2, <2>3, <2>4
<1>10. ASSUME NEW n \in DOMAIN Names, Child(p, Names[n]) \in tree
       PROVE  Listing(Child(p, Names[n])) \in InPlan(s) /\ Emplace(Child(p, Names[n])) \in InPlan(s)
  <2>1. PICK l \in DOMAIN ch : ch[l] = Names[n]
    BY <1>1, <1>2, <1>10 DEF Listed
  <2>2. l \in 1 .. L /\ l \in Nat
    BY <1>5, <2>1
  <2>3. /\ 2 * l \in 1 .. 2 * L /\ 2 * l - 1 \in 1 .. 2 * L /\ k(2 * l) = l /\ k(2 * l - 1) = l
        /\ (2 * l) % 2 # 1 /\ (2 * l - 1) % 2 = 1
    <3>1. 2 * l \in 1 .. 2 * L /\ 2 * l - 1 \in 1 .. 2 * L
      BY <2>2
    <3>2. (2 * l + 1) \div 2 = l /\ (2 * l) % 2 # 1
      BY <2>2
    <3>3. ((2 * l - 1) + 1) \div 2 = l
      BY <2>2
    <3>4. (2 * l - 1) % 2 = 1
      BY <2>2
    <3> QED
      BY <3>1, <3>2, <3>3, <3>4
  <2>4. s[2 * l - 1] = Listing(c(2 * l - 1)) /\ s[2 * l] = Emplace(c(2 * l))
    <3> HIDE DEF k, c
    <3> QED
      BY <1>6, <2>3
  <2>5. c(2 * l) = Child(p, Names[n]) /\ c(2 * l - 1) = Child(p, Names[n])
    <3> HIDE DEF k
    <3> QED
      BY <2>1, <2>3
  <2>6. s[2 * l] \in InPlan(s) /\ s[2 * l - 1] \in InPlan(s)
    BY <1>7, <2>3 DEF InPlan
  <2> HIDE DEF c
  <2> QED
    BY <2>4, <2>5, <2>6
<1>11. Ordered(s)
  <2> SUFFICES ASSUME NEW i \in 1 .. 2 * L, NEW j \in 1 .. 2 * L, i < j PROVE Precedes(s[i], s[j])
    BY <1>7 DEF Ordered
  <2>1. CASE k(i) = k(j)
    <3>1. i % 2 = 1 /\ j % 2 # 1
      BY <2>1
    <3>2. c(i) = c(j)
      <4> HIDE DEF k
      <4> QED
        BY <2>1
    <3> HIDE DEF c
    <3>3. s[i] = Listing(c(j)) /\ s[j] = Emplace(c(j))
      BY <1>6, <3>1, <3>2
    <3> QED
      BY <3>3 DEF Precedes, Listing, Emplace
  <2>2. CASE k(i) # k(j)
    <3>1. k(i) < k(j) /\ k(i) \in DOMAIN ch /\ k(j) \in DOMAIN ch
      <4>1. k(i) <= k(j) /\ k(i) \in Int /\ k(j) \in Int
        OBVIOUS
      <4>2. k(i) \in DOMAIN ch /\ k(j) \in DOMAIN ch
        BY <1>5, <1>8
      <4> HIDE DEF k
      <4> QED
        BY <2>2, <4>1, <4>2
    <3> HIDE DEF k
    <3>2. PICK m \in 1 .. Len(Names), n \in 1 .. Len(Names) : m < n /\ ch[k(i)] = Names[m] /\ ch[k(j)] = Names[n]
      BY <1>1, <3>1 DEF Listed
    <3>3. Left(c(i), c(j))
      BY <1>2, <3>2, ChildrenLeft
    <3> HIDE DEF c
    <3>4. s[i][2] = c(i) /\ s[j][2] = c(j)
      BY <1>6 DEF Listing, Emplace
    <3> QED
      BY <3>3, <3>4 DEF Precedes, Earlier
  <2> QED
    BY <2>1, <2>2
<1> QED
  BY <1>4, <1>9, <1>10, <1>11 DEF s

\* get_sub_path turns the listing of a node into the work on its children.
LEMMA ListingDone ==
    ASSUME ServerInv, NEW A \in SUBSET Items, NEW B \in SUBSET Items, NEW p \in tree, NEW path \in Seq(Char),
           Sound(A \cup {Listing(p)} \cup B, tree, path), Before(A \cup {Listing(p)}, B), Before(A, {Listing(p)})
    PROVE  LET R == InPlan(Recurse(p))
           IN  /\ Sound(A \cup R \cup B, tree, path)
               /\ Before(A, R) /\ Before(R, B)
               /\ Leading(A \cup {Listing(p)} \cup B, tree) => Leading(A \cup R \cup B, tree)
<1> DEFINE R == InPlan(Recurse(p))
           E == A \cup {Listing(p)} \cup B
           F == A \cup R \cup B
<1>1. p \in Path /\ p \in Seq(Char) /\ \A x \in tree : x \in Seq(Char)
  BY PathAssumption DEF tree
<1>2. \A a \in Items : a[1] \in {"list", "emplace"} /\ a[2] \in Seq(Char)
  BY DEF Items
<1>3. Listing(p)[1] = "list" /\ Listing(p)[2] = p
  BY DEF Listing
<1>4. ASSUME NEW r \in R
      PROVE  /\ r \in Items /\ r[2] \in tree /\ r[2] \in Seq(Char) /\ Under(p, r[2]) /\ r[2] # p
             /\ r \in {Listing(r[2]), Emplace(r[2])}
  <2>1. PICK n \in DOMAIN Names :
          Child(p, Names[n]) \in tree /\ r \in {Listing(Child(p, Names[n])), Emplace(Child(p, Names[n]))}
    BY <1>1, <1>4, RecurseFacts
  <2>2. Under(p, Child(p, Names[n])) /\ Child(p, Names[n]) # p /\ Child(p, Names[n]) \in Seq(Char)
    BY <1>1, ChildFacts
  <2>3. r[2] = Child(p, Names[n])
    BY <2>1 DEF Listing, Emplace
  <2> QED
    BY <2>1, <2>2, <2>3 DEF Listing, Emplace, Items
<1>5. Under(path, p)
  BY <1>3 DEF Sound
<1> HIDE DEF R
<1>6. \A a \in F : Under(path, a[2])
  <2>1. \A r \in R : Under(path, r[2])
    BY <1>1, <1>4, <1>5, UnderTrans
  <2> QED
    BY <2>1 DEF Sound
<1>7. Resumes(F, tree, path)
  BY <1>4 DEF Sound, Resumes
<1>8. ASSUME NEW x \in tree, Under(path, x) PROVE \E a \in F : Stands(a, x)
  <2>1. PICK e \in E : Stands(e, x)
    BY <1>8 DEF Sound, Covers
  <2>2. CASE e \in A \cup B
    BY <2>1, <2>2
  <2>3. CASE e = Listing(p)
    <3>1. Under(p, x) /\ x # p
      BY <1>3, <2>1, <2>3 DEF Stands, Listing, Emplace
    <3>2. PICK n \in DOMAIN Names : Child(p, Names[n]) \in tree /\ Under(Child(p, Names[n]), x)
      BY <1>1, <3>1, WayDown
    <3> DEFINE y == Child(p, Names[n])
    <3>3. Listing(y) \in R /\ Emplace(y) \in R
      BY <1>1, <3>2, RecurseFacts DEF R
    <3> HIDE DEF y
    <3>4. CASE x = y
      BY <3>3, <3>4 DEF Stands
    <3>5. CASE x # y
      <4>1. Stands(Listing(y), x)
        BY <3>2, <3>5 DEF Stands, Listing, y
      <4> QED
        BY <3>3, <4>1
    <3> QED
      BY <3>4, <3>5
  <2> QED
    BY <2>1, <2>2, <2>3
<1>9. Before(A, R)
  <2> SUFFICES ASSUME NEW a \in A, NEW r \in R PROVE Precedes(a, r)
    BY DEF Before
  <2>1. Left(a[2], p) /\ a[2] \in Seq(Char)
    BY <1>2, <1>3 DEF Before, Precedes
  <2>2. Left(a[2], r[2])
    BY <1>1, <1>4, <2>1, LeftBelow
  <2> QED
    BY <2>2 DEF Precedes, Earlier
<1>10. Before(R, B)
  <2> SUFFICES ASSUME NEW r \in R, NEW b \in B PROVE Precedes(r, b)
    BY DEF Before
  <2>1. Precedes(Listing(p), b) /\ b[1] \in {"list", "emplace"} /\ b[2] \in Seq(Char)
    BY <1>2 DEF Before
  <2>2. r[2] \in Seq(Char) /\ Under(p, r[2]) /\ r[2] # p
    BY <1>4
  <2>3. Left(p, b[2]) => Left(r[2], b[2])
    BY <1>1, <2>1, <2>2, LeftBelow
  <2>4. CASE b[1] = "list"
    BY <1>3, <2>1, <2>3, <2>4 DEF Precedes
  <2>5. CASE b[1] # "list"
    <3>1. p = b[2] \/ Left(p, b[2]) \/ (Under(b[2], p) /\ p # b[2])
      BY <1>3, <2>1, <2>5 DEF Precedes, Earlier, Listing
    <3>2. CASE p = b[2]
      BY <2>2, <2>5, <3>2 DEF Precedes, Earlier
    <3>3. CASE Left(p, b[2])
      BY <2>3, <2>5, <3>3 DEF Precedes, Earlier
    <3>4. CASE Under(b[2], p) /\ p # b[2]
      <4>1. Under(b[2], r[2])
        BY <1>1, <2>1, <2>2, <3>4, UnderTrans
      <4>2. r[2] # b[2]
        BY <1>1, <2>1, <2>2, <3>4, UnderFacts
      <4> QED
        BY <2>5, <4>1, <4>2 DEF Precedes, Earlier
    <3> QED
      BY <3>1, <3>2, <3>3, <3>4
  <2> QED
    BY <2>4, <2>5
<1>11. Leading(E, tree) => Leading(F, tree)
  BY <1>4 DEF Leading
<1> QED
  BY <1>6, <1>7, <1>8, <1>9, <1>10, <1>11 DEF R, Sound, Covers

\* What is left of a plan when x is its first node: x comes before everything
\* that is there.
LEMMA FirstIsEarliest ==
    ASSUME NEW x \in Seq(Char), NEW B \in SUBSET Items, NEW path \in Seq(Char),
           Sound({Emplace(x)} \cup B, tree, path), Before({Emplace(x)}, B)
    PROVE  /\ Under(path, x)
           /\ \A b \in B : Earlier(x, b[2]) /\ b[2] \in Seq(Char) /\ b[2] # x
           /\ \A y \in tree : Under(path, y) /\ y # x =>
                Earlier(x, y) /\ ~Earlier(y, x) /\ ~Under(x, y) /\ \E b \in B : Stands(b, y)
<1>1. \A b \in B : b[1] \in {"list", "emplace"} /\ b[2] \in Seq(Char)
  BY DEF Items
<1>2. \A y \in tree : y \in Seq(Char)
  BY PathAssumption DEF tree
<1>3. Emplace(x)[2] = x /\ Emplace(x)[1] = "emplace"
  BY DEF Emplace
<1>4. ASSUME NEW b \in B PROVE Earlier(x, b[2]) /\ (b[1] = "list" => Left(x, b[2]))
  <2>1. Precedes(Emplace(x), b)
    BY DEF Before
  <2>2. Emplace(x) # Listing(b[2])
    BY DEF Emplace, Listing
  <2> QED
    BY <1>3, <2>1, <2>2 DEF Precedes, Earlier
<1>5. ASSUME NEW y \in tree, Under(path, y), y # x
      PROVE  Earlier(x, y) /\ ~Earlier(y, x) /\ ~Under(x, y) /\ \E b \in B : Stands(b, y)
  <2>1. PICK b \in {Emplace(x)} \cup B : Stands(b, y)
    BY <1>5 DEF Sound, Covers
  <2>2. b \in B
    BY <1>3, <1>5, <2>1 DEF Stands, Emplace
  <2>3. Earlier(x, y)
    <3>1. CASE b = Emplace(y)
      <4>1. b[2] = y
        BY <3>1 DEF Emplace
      <4> QED
        BY <1>4, <2>2, <4>1
    <3>2. CASE b[1] = "list" /\ Under(b[2], y)
      <4>1. Left(x, y)
        BY <1>1, <1>2, <1>4, <2>2, <3>2, LeftBelow
      <4> QED
        BY <4>1 DEF Earlier
    <3> QED
      BY <2>1, <3>1, <3>2 DEF Stands
  <2> QED
    BY <1>2, <2>1, <2>2, <2>3, EarlierApart
<1>6. \A b \in B : b[2] # x
  BY <1>1, <1>4, EarlierApart
<1> QED
  BY <1>1, <1>3, <1>4, <1>5, <1>6 DEF Sound

\* The first node of a leading plan has no children left.
LEMMA LeadingDeletes ==
    ASSUME NEW x \in Seq(Char), NEW B \in SUBSET Items, NEW path \in Seq(Char),
           Sound({Emplace(x)} \cup B, tree, path), Before({Emplace(x)}, B),
           Leading({Emplace(x)} \cup B, tree)
    PROVE  DeleteRc(x) = "ZOK"
<1>1. x \in tree
  <2>1. Emplace(x)[2] = x
    BY DEF Emplace
  <2> QED
    BY <2>1 DEF Leading
<1>2. ASSUME NEW q \in tree, Parent(q) = x PROVE FALSE
  <2>1. PICK i \in DOMAIN Names : q = Child(x, Names[i])
    BY <1>2, ListAssumption DEF tree
  <2>2. Under(x, q) /\ q # x /\ q \in Seq(Char)
    BY <2>1, ChildFacts
  <2>3. Under(path, x)
    BY FirstIsEarliest
  <2>4. Under(path, q)
    BY <2>2, <2>3, UnderTrans
  <2> QED
    BY <2>2, <2>4, FirstIsEarliest
<1> QED
  BY <1>1, <1>2 DEF DeleteRc

\* The first node of a plan has been deleted: the plans of all the calls are
\* still right, and the one that deleted it leads.
LEMMA Deleted ==
    ASSUME NEW x \in tree, NEW B \in SUBSET Items, NEW path \in Seq(Char),
           Sound({Emplace(x)} \cup B, tree, path), Before({Emplace(x)}, B)
    PROVE  /\ Sound(B, tree \ {x}, path)
           /\ Leading(B, tree \ {x})
           /\ \A E : Sound(E, tree, path) => Sound(E, tree \ {x}, path)
<1>1. x \in Seq(Char)
  BY PathAssumption DEF tree
<1>2. /\ Under(path, x)
      /\ \A b \in B : Earlier(x, b[2]) /\ b[2] # x
      /\ \A y \in tree : Under(path, y) /\ y # x => ~Earlier(y, x) /\ \E b \in B : Stands(b, y)
  BY <1>1, FirstIsEarliest
<1>3. Leading(B, tree \ {x})
  BY <1>2 DEF Sound, Resumes, Leading
<1>4. Sound(B, tree \ {x}, path)
  BY <1>2, <1>3 DEF Sound, Resumes, Leading, Covers
<1>5. ASSUME NEW E, Sound(E, tree, path) PROVE Sound(E, tree \ {x}, path)
  BY <1>2, <1>5 DEF Sound, Resumes, Covers
<1> QED
  BY <1>3, <1>4, <1>5

\* What a delete still has to do.
Plan(c) ==
    IF pc[c] = "idle" THEN <<Listing(PathOf(c))>> \o <<Emplace(PathOf(c))>>
    ELSE IF pc[c] = "list" THEN (Emplaced(subs[c]) \o todo[c]) \o <<Emplace(PathOf(c))>>
    ELSE Emplaced(subs[c])

PlanInv(c) ==
    /\ pc[c] \in {"idle", "list", "delete", "done"}
    /\ pc[c] = "idle" => subs[c] = <<>>
    /\ ~Ended(c) => Right(Plan(c), tree, PathOf(c))

Ahead(c) == ~Ended(c) /\ Leading(InPlan(Plan(c)), tree)

\* Only deletes of one path change the tree.
Alone ==
    /\ scenario.others = {} /\ Calls("create") = {} /\ ~scenario.loss
    /\ \A c, d \in Calls("delete") : PathOf(c) = PathOf(d)

\* While the path is there some delete has found no node missing so far.
DeletesInv ==
    Alone => \A c \in Calls("delete") :
        PlanInv(c) /\ (PathOf(c) \in tree => \E d \in Calls("delete") : Ahead(d))

\* The plan of a delete that lists.
LEMMA ListPlan ==
    ASSUME NEW f \in Seq(Seq(Char)), NEW q \in Seq(Items), NEW path \in Seq(Char)
    PROVE  LET s == (Emplaced(f) \o q) \o <<Emplace(path)>>
           IN  /\ s \in Seq(Items)
               /\ InPlan(s) = InPlan(Emplaced(f)) \cup InPlan(q) \cup {Emplace(path)}
               /\ Ordered(s) <=> /\ Ordered(Emplaced(f)) /\ Ordered(q)
                                 /\ Before(InPlan(Emplaced(f)), InPlan(q))
                                 /\ Before(InPlan(Emplaced(f)) \cup InPlan(q), {Emplace(path)})
<1> DEFINE e == Emplaced(f)
           l == <<Emplace(path)>>
           h == e \o q
<1>1. e \in Seq(Items)
  BY EmplacedFacts
<1>2. l \in Seq(Items) /\ InPlan(l) = {Emplace(path)} /\ Ordered(l)
  <2>1. Emplace(path) \in Items
    BY DEF Emplace, Items
  <2> QED
    BY <2>1, OnePart
<1> HIDE DEF e, l
<1>3. /\ h \in Seq(Items) /\ InPlan(h) = InPlan(e) \cup InPlan(q)
      /\ Ordered(h) <=> Ordered(e) /\ Ordered(q) /\ Before(InPlan(e), InPlan(q))
  BY <1>1, TwoParts
<1> HIDE DEF h
<1>4. /\ h \o l \in Seq(Items) /\ InPlan(h \o l) = InPlan(h) \cup InPlan(l)
      /\ Ordered(h \o l) <=> Ordered(h) /\ Ordered(l) /\ Before(InPlan(h), InPlan(l))
  BY <1>2, <1>3, TwoParts
<1> QED
  BY <1>2, <1>3, <1>4 DEF e, l, h

\* A call that does nothing keeps its plan.
LEMMA OthersKeepPlans ==
    ASSUME OpsInv, NEW c \in Call, CallStep(c), NEW d \in Call, d # c
    PROVE  /\ Plan(d)' = Plan(d) /\ PathOf(d)' = PathOf(d) /\ pc'[d] = pc[d] /\ subs'[d] = subs[d]
           /\ Ended(d)' = Ended(d)
<1>1. pc'[d] = pc[d]
  BY OnlyItsResult
<1>2. todo'[d] = todo[d] /\ subs'[d] = subs[d]
  <2>1. DOMAIN todo = Call /\ DOMAIN subs = Call
    BY DEF OpsInv, CallTypes
  <2>2. \/ UNCHANGED todo \/ \E x : todo' = [todo EXCEPT ![c] = x]
    BY DEF CallStep, CreateBegin, CreateStep, DeleteBegin, ListStep, EmplaceStep, ListDone,
       DeleteStep, SetStep, GetStep, GetAgainStep
  <2>3. \/ UNCHANGED subs \/ \E x : subs' = [subs EXCEPT ![c] = x]
    BY DEF CallStep, CreateBegin, CreateStep, DeleteBegin, ListStep, EmplaceStep, ListDone,
       DeleteStep, SetStep, GetStep, GetAgainStep
  <2> QED
    BY <2>1, <2>2, <2>3
<1>3. scenario' = scenario
  BY DEF CallStep, CreateBegin, CreateStep, DeleteBegin, ListStep, EmplaceStep,
     ListDone, DeleteStep, SetStep, GetStep, GetAgainStep
<1>4. PathOf(d)' = PathOf(d)
  BY <1>3 DEF PathOf
<1> QED
  BY <1>1, <1>2, <1>4 DEF Plan, Ended

\* A step of a delete that leaves the tree as it is, and after which the call
\* has a right plan and still leads if it led.
LEMMA OneDelete ==
    ASSUME OpsInv, DeletesInv, Alone, scenario' = scenario, tree' = tree,
           NEW c \in Calls("delete"), CallStep(c), PlanInv(c)', Ahead(c) => Ahead(c)'
    PROVE  DeletesInv'
<1>1. Calls("delete")' = Calls("delete") /\ c \in Call /\ \A d \in Calls("delete") : d \in Call
  BY DEF Calls, OpOf
<1>2. \A d \in Calls("delete") : PathOf(d)' = PathOf(d)
  BY DEF PathOf
<1>3. ASSUME NEW d \in Calls("delete"), d # c PROVE PlanInv(d)' /\ (Ahead(d) => Ahead(d)')
  <2>1. /\ Plan(d)' = Plan(d) /\ PathOf(d)' = PathOf(d) /\ pc'[d] = pc[d] /\ subs'[d] = subs[d]
        /\ Ended(d)' = Ended(d)
    BY <1>1, <1>3, OthersKeepPlans
  <2>2. PlanInv(d)
    BY DEF DeletesInv
  <2>3. PlanInv(d)'
    BY <2>1, <2>2 DEF PlanInv
  <2>4. Ahead(d) => Ahead(d)'
    BY <2>1 DEF Ahead
  <2> QED
    BY <2>3, <2>4
<1>4. \A d \in Calls("delete") : PathOf(d) \in tree => \E b \in Calls("delete") : Ahead(b)
  BY DEF DeletesInv
<1>5. \A d \in Calls("delete") : PlanInv(d)' /\ (Ahead(d) => Ahead(d)')
  BY <1>3
<1>6. \A d \in Calls("delete")' : PlanInv(d)' /\ (PathOf(d)' \in tree' => \E b \in Calls("delete")' : Ahead(b)')
  BY <1>1, <1>2, <1>4, <1>5
<1> QED
  BY <1>6 DEF DeletesInv

\* The plan of a delete before its first step: two items.
LEMMA FirstPlan ==
    ASSUME NEW path \in Seq(Char)
    PROVE  LET s == <<Listing(path)>> \o <<Emplace(path)>>
           IN  Ordered(s) /\ InPlan(s) = {Listing(path), Emplace(path)}
<1>1. Listing(path) \in Items /\ Emplace(path) \in Items
  BY DEF Listing, Emplace, Items
<1>2. Precedes(Listing(path), Emplace(path))
  BY DEF Precedes, Listing, Emplace
<1> DEFINE a == <<Listing(path)>>
           b == <<Emplace(path)>>
<1>3. /\ a \in Seq(Items) /\ InPlan(a) = {Listing(path)} /\ Ordered(a)
      /\ b \in Seq(Items) /\ InPlan(b) = {Emplace(path)} /\ Ordered(b)
  BY <1>1, OnePart
<1> HIDE DEF a, b
<1>4. InPlan(a \o b) = InPlan(a) \cup InPlan(b) /\ (Ordered(a \o b) <=> Ordered(a) /\ Ordered(b) /\ Before(InPlan(a), InPlan(b)))
  BY <1>3, TwoParts
<1> QED
  BY <1>2, <1>3, <1>4 DEF Before, a, b

\* The beginning of a delete.
LEMMA PlanDeleteBegin ==
    ASSUME OpsInv, NEW c \in Calls("delete"), PlanInv(c), DeleteBegin(c)
    PROVE  PlanInv(c)' /\ (Ahead(c) => Ahead(c)') /\ scenario' = scenario /\ tree' = tree
<1> DEFINE p == PathOf(c)
           s == (Emplaced(<<>>) \o <<Listing(p)>>) \o <<Emplace(p)>>
<1>1. c \in Call /\ p \in Seq(Char) /\ Listing(p) \in Items
  BY CallFacts DEF Calls, OpsInv, Listing, Items
<1>2. /\ pc[c] = "idle" /\ pc'[c] = "list" /\ todo'[c] = <<Listing(p)>> /\ subs'[c] = <<>>
      /\ scenario' = scenario /\ tree' = tree /\ PathOf(c)' = p
  BY <1>1 DEF DeleteBegin, OpsInv, CallTypes, PlanInv, tree, PathOf
<1>3. Plan(c)' = s
  BY <1>2 DEF Plan
<1>4. /\ <<>> \in Seq(Seq(Char)) /\ Emplaced(<<>>) = <<>>
      /\ <<Listing(p)>> \in Seq(Items) /\ InPlan(<<Listing(p)>>) = {Listing(p)} /\ Ordered(<<Listing(p)>>)
  <2>1. <<>> \in Seq(Seq(Char))
    OBVIOUS
  <2>2. Emplaced(<<>>) = <<>>
    BY <2>1, EmplacedFacts
  <2> QED
    BY <1>1, <2>1, <2>2, OnePart
<1>5. InPlan(<<>>) = {} /\ Ordered(<<>>)
  BY DEF InPlan, Ordered
<1>6. Precedes(Listing(p), Emplace(p))
  BY DEF Precedes, Listing, Emplace
<1>7. /\ InPlan(s) = InPlan(Emplaced(<<>>)) \cup InPlan(<<Listing(p)>>) \cup {Emplace(p)}
      /\ Ordered(s) <=> /\ Ordered(Emplaced(<<>>)) /\ Ordered(<<Listing(p)>>)
                        /\ Before(InPlan(Emplaced(<<>>)), InPlan(<<Listing(p)>>))
                        /\ Before(InPlan(Emplaced(<<>>)) \cup InPlan(<<Listing(p)>>), {Emplace(p)})
  <2> DEFINE l == <<Listing(p)>>
             n == <<>>
  <2> HIDE DEF l, n, p
  <2> QED
    BY <1>1, <1>4, ListPlan DEF l, n
<1> HIDE DEF s
<1>8. Ordered(s) /\ InPlan(s) = {Listing(p), Emplace(p)}
  BY <1>4, <1>5, <1>6, <1>7 DEF Before
<1>9. InPlan(Plan(c)) = {Listing(p), Emplace(p)}
  BY <1>1, <1>2, FirstPlan DEF Plan
<1>10. Sound(InPlan(s), tree, p)
  BY <1>2, <1>8, <1>9 DEF PlanInv, Right, Ended
<1>11. PlanInv(c)'
  BY <1>2, <1>3, <1>8, <1>10 DEF PlanInv, Right, Ended
<1>12. Ahead(c) => Ahead(c)'
  BY <1>2, <1>3, <1>8, <1>9 DEF Ahead, Ended
<1> QED
  BY <1>2, <1>11, <1>12

\* A node that has been found.
LEMMA PlanEmplaceStep ==
    ASSUME OpsInv, NEW c \in Calls("delete"), PlanInv(c), EmplaceStep(c)
    PROVE  PlanInv(c)' /\ (Ahead(c) => Ahead(c)') /\ scenario' = scenario /\ tree' = tree
<1> DEFINE p == PathOf(c)
           f == subs[c]
           q == todo[c]
           x == Head(q)[2]
           g == Append(f, x)
           t == Tail(q)
           s == (Emplaced(f) \o q) \o <<Emplace(p)>>
           u == (Emplaced(g) \o t) \o <<Emplace(p)>>
<1>1. c \in Call /\ p \in Seq(Char)
  BY CallFacts DEF Calls, OpsInv
<1>2. /\ pc[c] = "list" /\ q # <<>> /\ Head(q)[1] = "emplace" /\ f \in Seq(Seq(Char)) /\ q \in Seq(Items)
      /\ pc'[c] = "list" /\ todo'[c] = t /\ subs'[c] = g
      /\ scenario' = scenario /\ tree' = tree /\ PathOf(c)' = p
  BY <1>1 DEF EmplaceStep, OpsInv, CallTypes, CallInv, tree, PathOf
<1>3. Plan(c)' = u /\ Plan(c) = s
  BY <1>2 DEF Plan
<1>4. /\ Head(q) \in Items /\ t \in Seq(Items)
      /\ InPlan(q) = {Head(q)} \cup InPlan(t)
      /\ Ordered(q) <=> Ordered(t) /\ Before({Head(q)}, InPlan(t))
  BY <1>2, FirstPart
<1>5. x \in Seq(Char) /\ Head(q) = Emplace(x)
  BY <1>2, <1>4 DEF Items, Emplace
<1>6. g \in Seq(Seq(Char)) /\ Emplaced(g) = Emplaced(f) \o <<Emplace(x)>> /\ Emplaced(f) \in Seq(Items)
  <2> HIDE DEF x, f
  <2> QED
    BY <1>2, <1>5, EmplacedFacts, PutLast
<1>7. <<Emplace(x)>> \in Seq(Items) /\ InPlan(<<Emplace(x)>>) = {Emplace(x)} /\ Ordered(<<Emplace(x)>>)
  BY <1>4, <1>5, OnePart
<1> HIDE DEF x, f, t, q, p
<1>8. /\ InPlan(Emplaced(g)) = InPlan(Emplaced(f)) \cup {Emplace(x)}
      /\ Ordered(Emplaced(g)) <=> Ordered(Emplaced(f)) /\ Before(InPlan(Emplaced(f)), {Emplace(x)})
  <2> DEFINE e == Emplaced(f)
             l == <<Emplace(x)>>
  <2> HIDE DEF e, l
  <2>1. /\ InPlan(e \o l) = InPlan(e) \cup InPlan(l)
        /\ Ordered(e \o l) <=> Ordered(e) /\ Ordered(l) /\ Before(InPlan(e), InPlan(l))
    BY <1>6, <1>7, TwoParts DEF e, l
  <2> QED
    BY <1>6, <1>7, <2>1 DEF e, l
<1> HIDE DEF g
<1>9. /\ InPlan(s) = InPlan(Emplaced(f)) \cup InPlan(q) \cup {Emplace(p)}
      /\ Ordered(s) <=> /\ Ordered(Emplaced(f)) /\ Ordered(q)
                        /\ Before(InPlan(Emplaced(f)), InPlan(q))
                        /\ Before(InPlan(Emplaced(f)) \cup InPlan(q), {Emplace(p)})
  BY <1>1, <1>2, ListPlan
<1>10. /\ InPlan(u) = InPlan(Emplaced(g)) \cup InPlan(t) \cup {Emplace(p)}
       /\ Ordered(u) <=> /\ Ordered(Emplaced(g)) /\ Ordered(t)
                         /\ Before(InPlan(Emplaced(g)), InPlan(t))
                         /\ Before(InPlan(Emplaced(g)) \cup InPlan(t), {Emplace(p)})
  BY <1>1, <1>4, <1>6, ListPlan
<1> HIDE DEF s, u
<1>11. InPlan(s) = InPlan(u)
  BY <1>4, <1>5, <1>8, <1>9, <1>10
<1>12. Ordered(s) => Ordered(u)
  BY <1>4, <1>5, <1>8, <1>9, <1>10 DEF Before
<1>13. Right(s, tree, p)
  BY <1>2, <1>3 DEF PlanInv, Ended, p
<1>14. PlanInv(c)'
  BY <1>2, <1>3, <1>11, <1>12, <1>13 DEF PlanInv, Right, Ended
<1>15. Ahead(c) => Ahead(c)'
  BY <1>2, <1>3, <1>11 DEF Ahead, Ended
<1> QED
  BY <1>2, <1>14, <1>15

\* The end of the listing.
LEMMA PlanListDone ==
    ASSUME OpsInv, NEW c \in Calls("delete"), PlanInv(c), ListDone(c)
    PROVE  PlanInv(c)' /\ (Ahead(c) => Ahead(c)') /\ scenario' = scenario /\ tree' = tree
<1> DEFINE p == PathOf(c)
           f == subs[c]
           s == (Emplaced(f) \o <<>>) \o <<Emplace(p)>>
           e == Emplaced(f)
           u == Emplaced(Append(f, p))
<1>1. c \in Call /\ p \in Seq(Char)
  BY CallFacts DEF Calls, OpsInv
<1>2. /\ pc[c] = "list" /\ todo[c] = <<>> /\ f \in Seq(Seq(Char))
      /\ pc'[c] = "delete" /\ subs'[c] = Append(f, p)
      /\ scenario' = scenario /\ tree' = tree /\ PathOf(c)' = p
  BY <1>1 DEF ListDone, OpsInv, CallTypes, tree, PathOf
<1>3. Plan(c)' = u /\ Plan(c) = s
  BY <1>2 DEF Plan
<1>4. u = e \o <<Emplace(p)>> /\ e \in Seq(Items)
  BY <1>1, <1>2, EmplacedFacts
<1>5. e \o <<>> = e
  <2> HIDE DEF e
  <2> QED
    BY <1>4, ConcatEmptySeq
<1>6. u = s
  BY <1>4, <1>5
<1> HIDE DEF s, u
<1>7. Right(s, tree, p)
  BY <1>2, <1>3 DEF PlanInv, Ended
<1>8. PlanInv(c)'
  BY <1>2, <1>3, <1>6, <1>7 DEF PlanInv, Ended
<1>9. Ahead(c) => Ahead(c)'
  BY <1>2, <1>3, <1>6 DEF Ahead, Ended
<1> QED
  BY <1>2, <1>8, <1>9

\* A call of get_sub_path: its answer is part of the plan, or the call ends,
\* and then it was behind.
LEMMA PlanListStep ==
    ASSUME OpsInv, ~scenario.loss, NEW c \in Calls("delete"), PlanInv(c), ListStep(c)
    PROVE  PlanInv(c)' /\ (Ahead(c) => Ahead(c)') /\ scenario' = scenario /\ tree' = tree
<1> DEFINE path == PathOf(c)
           f == subs[c]
           q == todo[c]
           p == Head(q)[2]
           t == Tail(q)
           v == Recurse(p) \o t
           s == (Emplaced(f) \o q) \o <<Emplace(path)>>
           u == (Emplaced(f) \o v) \o <<Emplace(path)>>
<1>1. c \in Call /\ path \in Seq(Char) /\ ServerInv
  BY CallFacts DEF Calls, OpsInv
<1>2. /\ pc[c] = "list" /\ q # <<>> /\ Head(q)[1] = "list" /\ f \in Seq(Seq(Char)) /\ q \in Seq(Items)
      /\ scenario' = scenario /\ tree' = tree /\ PathOf(c)' = path /\ subs'[c] = f
  BY <1>1 DEF ListStep, OpsInv, CallTypes, CallInv, tree, PathOf
<1>3. \/ p \in tree /\ todo'[c] = v /\ pc'[c] = "list"
      \/ p \notin tree /\ pc'[c] = "done"
  <2>1. PICK fate \in Fate :
          IF Answer(fate, ReadRc(p)) = "ZOK"
          THEN todo' = [todo EXCEPT ![c] = Recurse(p) \o Tail(@)] /\ UNCHANGED <<pc, rc>>
          ELSE Finish(c, Answer(fate, ReadRc(p)))
    BY DEF ListStep
  <2>2. Answer(fate, ReadRc(p)) = ReadRc(p) /\ (ReadRc(p) = "ZOK" <=> p \in tree)
    BY DEF Answer, Fate, ReadRc
  <2>3. DOMAIN todo = Call /\ DOMAIN pc = Call
    BY DEF OpsInv, CallTypes
  <2>4. CASE p \in tree
    BY <1>1, <1>2, <2>1, <2>2, <2>3, <2>4
  <2>5. CASE p \notin tree
    BY <1>1, <2>1, <2>2, <2>3, <2>5 DEF Finish
  <2> QED
    BY <2>4, <2>5
<1>4. /\ Head(q) \in Items /\ t \in Seq(Items)
      /\ InPlan(q) = {Head(q)} \cup InPlan(t)
      /\ Ordered(q) <=> Ordered(t) /\ Before({Head(q)}, InPlan(t))
  BY <1>2, FirstPart
<1>5. p \in Seq(Char) /\ Head(q) = Listing(p)
  BY <1>2, <1>4 DEF Items, Listing
<1>6. Plan(c) = s /\ Right(s, tree, path)
  <2>1. Plan(c) = s
    BY <1>2 DEF Plan
  <2> QED
    BY <1>2, <2>1 DEF PlanInv, Ended
<1> HIDE DEF p, f, t, q, path
<1>7. /\ InPlan(s) = InPlan(Emplaced(f)) \cup InPlan(q) \cup {Emplace(path)}
      /\ Ordered(s) <=> /\ Ordered(Emplaced(f)) /\ Ordered(q)
                        /\ Before(InPlan(Emplaced(f)), InPlan(q))
                        /\ Before(InPlan(Emplaced(f)) \cup InPlan(q), {Emplace(path)})
  BY <1>1, <1>2, ListPlan
<1>8. CASE p \notin tree /\ pc'[c] = "done"
  <2>1. Listing(p) \in InPlan(s) /\ Listing(p)[2] = p
    BY <1>4, <1>5, <1>7 DEF Listing
  <2>2. ~Ahead(c)
    BY <1>6, <1>8, <2>1 DEF Ahead, Leading
  <2>3. PlanInv(c)'
    BY <1>8 DEF PlanInv, Ended
  <2> QED
    BY <1>2, <2>2, <2>3
<1>9. CASE p \in tree /\ todo'[c] = v /\ pc'[c] = "list"
  <2> DEFINE A == InPlan(Emplaced(f))
             B == InPlan(t) \cup {Emplace(path)}
             R == InPlan(Recurse(p))
  <2>1. Emplaced(f) \in Seq(Items) /\ Emplace(path) \in Items
    BY <1>1, <1>2, EmplacedFacts DEF Emplace, Items
  <2>2. ASSUME NEW r \in Seq(Items) PROVE InPlan(r) \in SUBSET Items
    BY ElementOfSeq, LenProperties DEF InPlan
  <2>3. A \in SUBSET Items /\ B \in SUBSET Items
    BY <1>4, <2>1, <2>2
  <2> HIDE DEF A, R
  <2>4. Recurse(p) \in Seq(Items) /\ Ordered(Recurse(p))
    BY <1>5, RecurseFacts
  <2>5. v \in Seq(Items) /\ InPlan(v) = R \cup InPlan(t)
        /\ (Ordered(v) <=> Ordered(Recurse(p)) /\ Ordered(t) /\ Before(R, InPlan(t)))
    BY <1>4, <2>4, TwoParts DEF R
  <2> HIDE DEF v
  <2>6. /\ InPlan(u) = A \cup InPlan(v) \cup {Emplace(path)}
        /\ Ordered(u) <=> /\ Ordered(Emplaced(f)) /\ Ordered(v)
                          /\ Before(A, InPlan(v))
                          /\ Before(A \cup InPlan(v), {Emplace(path)})
    BY <1>1, <1>2, <2>5, ListPlan DEF A
  <2> HIDE DEF s, u
  <2>7. InPlan(s) = A \cup {Listing(p)} \cup B /\ InPlan(u) = A \cup R \cup B
    BY <1>4, <1>5, <1>7, <2>5, <2>6 DEF A
  <2>8. Sound(A \cup {Listing(p)} \cup B, tree, path)
    BY <1>6, <2>7 DEF Right
  <2>9. /\ Ordered(Emplaced(f)) /\ Ordered(t) /\ Before({Listing(p)}, InPlan(t))
        /\ Before(A, {Listing(p)} \cup InPlan(t))
        /\ Before(A \cup ({Listing(p)} \cup InPlan(t)), {Emplace(path)})
    BY <1>4, <1>5, <1>6, <1>7 DEF Right, A
  <2>10. Before(A \cup {Listing(p)}, B) /\ Before(A, {Listing(p)})
    BY <2>9 DEF Before
  <2> HIDE DEF B
  <2>11. /\ Sound(A \cup R \cup B, tree, path) /\ Before(A, R) /\ Before(R, B)
         /\ Leading(A \cup {Listing(p)} \cup B, tree) => Leading(A \cup R \cup B, tree)
    BY <1>1, <1>9, <2>3, <2>8, <2>10, ListingDone DEF R
  <2>12. Ordered(u)
    BY <2>4, <2>5, <2>6, <2>9, <2>11 DEF Before, B
  <2>13. Plan(c)' = u
    BY <1>2, <1>9 DEF Plan, u
  <2>14. PlanInv(c)'
    BY <1>2, <1>9, <2>7, <2>11, <2>12, <2>13 DEF PlanInv, Right, Ended
  <2>15. Ahead(c) => Ahead(c)'
    BY <1>2, <1>6, <1>9, <2>7, <2>11, <2>13 DEF Ahead, Ended
  <2> QED
    BY <1>2, <2>14, <2>15
<1> QED
  BY <1>3, <1>8, <1>9

\* A delete that is refused: the call was behind.
LEMMA PlanRefused ==
    ASSUME OpsInv, ~scenario.loss, NEW c \in Calls("delete"), PlanInv(c), DeleteStep(c),
           DeleteRc(Head(subs[c])) # "ZOK"
    PROVE  PlanInv(c)' /\ ~Ahead(c) /\ scenario' = scenario /\ tree' = tree
<1> DEFINE path == PathOf(c)
           f == subs[c]
           x == Head(f)
           B == InPlan(Emplaced(Tail(f)))
<1>1. c \in Call /\ path \in Seq(Char)
  BY CallFacts DEF Calls, OpsInv
<1>2. pc[c] = "delete" /\ f \in Seq(Seq(Char)) /\ f # <<>> /\ scenario' = scenario
  BY <1>1 DEF DeleteStep, OpsInv, CallTypes, CallInv
<1>3. PICK fate \in Fate :
        /\ Request(fate, DeleteRc(x), x, Absent)
        /\ IF DeleteEnds(Answer(fate, DeleteRc(x)), Tail(f)) THEN Finish(c, Answer(fate, DeleteRc(x)))
           ELSE UNCHANGED <<pc, rc>>
  BY DEF DeleteStep
<1>4. Answer(fate, DeleteRc(x)) # "ZOK"
  BY DEF Answer, Fate
<1>5. tree' = tree
  BY <1>3 DEF Request, tree
<1>6. pc'[c] = "done"
  <2>1. Finish(c, Answer(fate, DeleteRc(x)))
    BY <1>3, <1>4 DEF DeleteEnds
  <2> QED
    BY <1>1, <2>1 DEF Finish, OpsInv, CallTypes
<1>7. Plan(c) = Emplaced(f)
  BY <1>2 DEF Plan
<1>8. /\ x \in Seq(Char) /\ Emplaced(f) \in Seq(Items) /\ Emplaced(f) # <<>>
      /\ Head(Emplaced(f)) = Emplace(x) /\ Tail(Emplaced(f)) = Emplaced(Tail(f))
  BY <1>2, EmplacedFacts
<1> HIDE DEF f, x
<1>9. /\ Emplaced(Tail(f)) \in Seq(Items)
      /\ InPlan(Emplaced(f)) = {Emplace(x)} \cup B
      /\ Ordered(Emplaced(f)) => Before({Emplace(x)}, B)
  BY <1>8, FirstPart
<1>10. B \in SUBSET Items
  BY <1>9, ElementOfSeq, LenProperties DEF InPlan
<1>11. Sound({Emplace(x)} \cup B, tree, path) /\ Before({Emplace(x)}, B)
  BY <1>2, <1>7, <1>9 DEF PlanInv, Right, Ended
<1> HIDE DEF B
<1>12. ~Ahead(c)
  <2> SUFFICES ASSUME Leading({Emplace(x)} \cup B, tree) PROVE FALSE
    BY <1>7, <1>9 DEF Ahead
  <2> QED
    BY <1>1, <1>8, <1>10, <1>11, LeadingDeletes DEF x, f
<1> QED
  BY <1>2, <1>5, <1>6, <1>12 DEF PlanInv, Ended

\* A delete that succeeds: the call now leads, and has work left as long as
\* the path is there; no other plan is disturbed.
LEMMA PlanDeleted ==
    ASSUME OpsInv, ~scenario.loss, NEW c \in Calls("delete"), PlanInv(c), DeleteStep(c),
           DeleteRc(Head(subs[c])) = "ZOK"
    PROVE  /\ PlanInv(c)' /\ (PathOf(c) \in tree' => Ahead(c)') /\ scenario' = scenario
           /\ \A E : Sound(E, tree, PathOf(c)) => Sound(E, tree', PathOf(c))
<1> DEFINE path == PathOf(c)
           f == subs[c]
           x == Head(f)
           B == InPlan(Emplaced(Tail(f)))
<1>1. c \in Call /\ path \in Seq(Char) /\ ServerInv
  BY CallFacts DEF Calls, OpsInv
<1>2. /\ pc[c] = "delete" /\ f \in Seq(Seq(Char)) /\ f # <<>> /\ f[Len(f)] = path
      /\ scenario' = scenario /\ subs'[c] = Tail(f) /\ PathOf(c)' = path
  BY <1>1 DEF DeleteStep, OpsInv, CallTypes, CallInv, PathOf
<1>3. PICK fate \in Fate :
        /\ Request(fate, DeleteRc(x), x, Absent)
        /\ IF DeleteEnds(Answer(fate, DeleteRc(x)), Tail(f)) THEN Finish(c, Answer(fate, DeleteRc(x)))
           ELSE UNCHANGED <<pc, rc>>
  BY DEF DeleteStep
<1>4. Answer(fate, DeleteRc(x)) = "ZOK" /\ fate = "answered"
  BY DEF Answer, Fate
<1>5. x \in tree /\ x \in Path /\ \A q \in tree : Parent(q) # x
  BY DEF DeleteRc, tree
<1>6. tree' = tree \ {x}
  BY <1>1, <1>3, <1>4, <1>5, DropKeeps DEF Request
<1>7. IF Tail(f) = <<>> THEN pc'[c] = "done" ELSE pc'[c] = "delete"
  BY <1>1, <1>2, <1>3, <1>4 DEF DeleteEnds, Finish, OpsInv, CallTypes
<1>8. Plan(c) = Emplaced(f) /\ (Tail(f) # <<>> => Plan(c)' = Emplaced(Tail(f)))
  BY <1>2, <1>7 DEF Plan
<1>9. Tail(f) = <<>> => x = path
  <2>1. Head(f) = f[1] /\ Len(Tail(f)) = Len(f) - 1 /\ Len(f) \in Nat
    BY <1>2, TakeHead
  <2>2. Len(<<>>) = 0
    OBVIOUS
  <2>3. PICK n \in Nat, m \in Int : n = Len(f) /\ m = Len(Tail(f)) /\ m = n - 1
    BY <2>1
  <2>4. Tail(f) = <<>> => m = 0
    BY <2>2, <2>3
  <2>5. Tail(f) = <<>> => n = 1
    BY <2>3, <2>4
  <2> QED
    BY <1>2, <2>1, <2>3, <2>5
<1>10. /\ x \in Seq(Char) /\ Emplaced(f) \in Seq(Items) /\ Emplaced(f) # <<>>
       /\ Head(Emplaced(f)) = Emplace(x) /\ Tail(Emplaced(f)) = Emplaced(Tail(f))
  BY <1>2, EmplacedFacts
<1> HIDE DEF f, x
<1>11. /\ Emplaced(Tail(f)) \in Seq(Items)
       /\ InPlan(Emplaced(f)) = {Emplace(x)} \cup B
       /\ Ordered(Emplaced(f)) => Ordered(Emplaced(Tail(f))) /\ Before({Emplace(x)}, B)
  BY <1>10, FirstPart
<1>12. B \in SUBSET Items
  BY <1>11, ElementOfSeq, LenProperties DEF InPlan
<1>13. Sound({Emplace(x)} \cup B, tree, path) /\ Before({Emplace(x)}, B) /\ Ordered(Emplaced(Tail(f)))
  BY <1>2, <1>8, <1>11 DEF PlanInv, Right, Ended
<1>14. /\ Sound(B, tree \ {x}, path) /\ Leading(B, tree \ {x})
       /\ \A E : Sound(E, tree, path) => Sound(E, tree \ {x}, path)
  <2> HIDE DEF B
  <2> QED
    BY <1>1, <1>5, <1>12, <1>13, Deleted
<1>15. CASE Tail(f) = <<>>
  <2>1. PlanInv(c)' /\ path \notin tree'
    BY <1>6, <1>7, <1>9, <1>15 DEF PlanInv, Ended
  <2> QED
    BY <1>2, <1>6, <1>14, <2>1
<1>16. CASE Tail(f) # <<>>
  <2>1. PlanInv(c)'
    BY <1>2, <1>6, <1>7, <1>8, <1>13, <1>14, <1>16 DEF PlanInv, Right, Ended
  <2>2. Ahead(c)'
    BY <1>6, <1>7, <1>8, <1>14, <1>16 DEF Ahead, Ended
  <2> QED
    BY <1>2, <1>6, <1>14, <2>1, <2>2
<1> QED
  BY <1>15, <1>16

\* A step of a call that is no delete leaves the tree as it is.
LEMMA OthersIdle ==
    ASSUME OpsInv, Alone, NEW c \in Call, OpOf(c) # "delete", CallStep(c)
    PROVE  tree' = tree
<1>1. OpOf(c) # "create"
  BY DEF Alone, Calls
<1>2. CallInv(c) /\ ServerInv
  BY DEF OpsInv
<1>3. SetStep(c) \/ GetStep(c) \/ GetAgainStep(c)
  BY <1>1, <1>2 DEF CallStep, CallInv, CreateBegin, CreateStep, DeleteBegin, ListStep, EmplaceStep, ListDone,
     DeleteStep
<1>4. CASE SetStep(c)
  <2> DEFINE p == PathOf(c)
             v == Value(c, 0)
  <2>1. PICK fate \in Fate : Request(fate, ReadRc(p), p, v)
    BY <1>4 DEF SetStep
  <2>2. p \in Path /\ v \in Stored /\ v # Absent
    BY CallFacts, Values DEF OpsInv
  <2> HIDE DEF p, v
  <2>3. CASE fate # "unsent" /\ ReadRc(p) = "ZOK"
    <3>1. p \in tree /\ Store(p, v)
      BY <2>1, <2>3 DEF Request, ReadRc
    <3>2. Parent(p) \in tree \cup {Root}
      BY <1>2, <3>1 DEF ServerInv, Closed
    <3>3. tree' = tree \cup {p}
      BY <1>2, <2>2, <3>1, <3>2, PutKeeps
    <3> QED
      BY <3>1, <3>3
  <2>4. CASE ~ (fate # "unsent" /\ ReadRc(p) = "ZOK")
    BY <2>1, <2>4 DEF Request, tree
  <2> QED
    BY <2>3, <2>4
<1>5. CASE GetStep(c) \/ GetAgainStep(c)
  BY <1>5 DEF GetStep, GetAgainStep, tree
<1> QED
  BY <1>3, <1>4, <1>5

\* The invariant of the deletes is kept by every step.
LEMMA DeletesStep == OpsInv /\ DeletesInv /\ [Next]_vars => DeletesInv'
<1> SUFFICES ASSUME OpsInv, DeletesInv, [Next]_vars, Alone' PROVE DeletesInv'
  BY DEF DeletesInv
<1>1. scenario' = scenario
  BY DEF Next, vars, OtherClient, CallStep, CreateBegin, CreateStep, DeleteBegin, ListStep, EmplaceStep,
     ListDone, DeleteStep, SetStep, GetStep, GetAgainStep
<1>2. Alone /\ Calls("delete")' = Calls("delete") /\ \A d \in Call : PathOf(d)' = PathOf(d)
  BY <1>1 DEF Alone, Calls, OpOf, PathOf
<1>3. /\ \A d \in Calls("delete") : d \in Call /\ PlanInv(d)
      /\ \A d \in Calls("delete") : PathOf(d) \in tree => \E b \in Calls("delete") : Ahead(b)
  BY <1>2 DEF DeletesInv, Calls
<1>4. ~OtherClient
  BY <1>2 DEF OtherClient, Alone
<1>5. CASE UNCHANGED vars
  BY <1>5 DEF vars, DeletesInv, Alone, Calls, OpOf, PathOf, PlanInv, Ahead, Plan, Ended, tree
<1>6. ASSUME NEW c \in Call, CallStep(c), OpOf(c) # "delete" PROVE DeletesInv'
  <2>1. tree' = tree
    BY <1>2, <1>6, OthersIdle
  <2>2. ASSUME NEW d \in Calls("delete") PROVE PlanInv(d)' /\ (Ahead(d) => Ahead(d)')
    <3>1. d \in Call /\ d # c /\ PlanInv(d)
      BY <1>3, <1>6 DEF Calls
    <3>2. /\ Plan(d)' = Plan(d) /\ PathOf(d)' = PathOf(d) /\ pc'[d] = pc[d] /\ subs'[d] = subs[d]
          /\ Ended(d)' = Ended(d)
      BY <1>6, <3>1, OthersKeepPlans
    <3> QED
      BY <2>1, <3>1, <3>2 DEF PlanInv, Ahead
  <2>3. \A d \in Calls("delete")' : PlanInv(d)' /\ (PathOf(d)' \in tree' => \E b \in Calls("delete")' : Ahead(b)')
    BY <1>2, <1>3, <2>1, <2>2
  <2> QED
    BY <2>3 DEF DeletesInv
<1>7. ASSUME NEW c \in Call, CallStep(c), OpOf(c) = "delete" PROVE DeletesInv'
  <2>1. c \in Calls("delete") /\ PlanInv(c) /\ ~scenario.loss /\ CallInv(c)
    BY <1>2, <1>3, <1>7 DEF Calls, Alone, OpsInv
  <2>2. DeleteBegin(c) \/ ListStep(c) \/ EmplaceStep(c) \/ ListDone(c) \/ DeleteStep(c)
    BY <1>7, <2>1 DEF CallStep, CallInv, CreateBegin, CreateStep, SetStep, GetStep, GetAgainStep
  <2>3. CASE DeleteBegin(c)
    BY <1>2, <1>7, <2>1, <2>3, PlanDeleteBegin, OneDelete
  <2>4. CASE ListStep(c)
    BY <1>2, <1>7, <2>1, <2>4, PlanListStep, OneDelete
  <2>5. CASE EmplaceStep(c)
    BY <1>2, <1>7, <2>1, <2>5, PlanEmplaceStep, OneDelete
  <2>6. CASE ListDone(c)
    BY <1>2, <1>7, <2>1, <2>6, PlanListDone, OneDelete
  <2>7. CASE DeleteStep(c) /\ DeleteRc(Head(subs[c])) # "ZOK"
    BY <1>2, <1>7, <2>1, <2>7, PlanRefused, OneDelete
  <2>8. CASE DeleteStep(c) /\ DeleteRc(Head(subs[c])) = "ZOK"
    <3>1. /\ PlanInv(c)' /\ (PathOf(c) \in tree' => Ahead(c)')
          /\ \A E : Sound(E, tree, PathOf(c)) => Sound(E, tree', PathOf(c))
      BY <2>1, <2>8, PlanDeleted
    <3>2. ASSUME NEW d \in Calls("delete"), d # c PROVE PlanInv(d)'
      <4>1. d \in Call /\ PlanInv(d) /\ PathOf(d) = PathOf(c)
        BY <1>2, <1>3, <2>1 DEF Alone
      <4>2. /\ Plan(d)' = Plan(d) /\ PathOf(d)' = PathOf(d) /\ pc'[d] = pc[d] /\ subs'[d] = subs[d]
            /\ Ended(d)' = Ended(d)
        BY <1>7, <3>2, <4>1, OthersKeepPlans
      <4> QED
        BY <3>1, <4>1, <4>2 DEF PlanInv, Right
    <3>3. \A d \in Calls("delete") : PathOf(d) = PathOf(c)
      BY <1>2, <2>1 DEF Alone
    <3>4. \A d \in Calls("delete")' : PlanInv(d)' /\ (PathOf(d)' \in tree' => \E b \in Calls("delete")' : Ahead(b)')
      BY <1>2, <1>3, <2>1, <3>1, <3>2, <3>3
    <3> QED
      BY <3>4 DEF DeletesInv
  <2> QED
    BY <2>2, <2>3, <2>4, <2>5, <2>6, <2>7, <2>8
<1> QED
  BY <1>4, <1>5, <1>6, <1>7 DEF Next

\* At the start every delete has everything before it.
LEMMA DeletesInit == Init => DeletesInv
<1> SUFFICES ASSUME Init, NEW c \in Calls("delete")
             PROVE  PlanInv(c) /\ (PathOf(c) \in tree => Ahead(c))
  BY DEF DeletesInv
<1> DEFINE p == PathOf(c)
           E == {Listing(p), Emplace(p)}
<1>1. OpsInv /\ ServerInv
  BY OpsInit DEF OpsInv
<1>2. c \in Call /\ p \in Path /\ p \in Seq(Char) /\ pc[c] = "idle" /\ subs[c] = <<>>
  BY <1>1, CallFacts DEF Calls, Init, OpsInv
<1>3. Ordered(Plan(c)) /\ InPlan(Plan(c)) = E
  BY <1>2, FirstPlan DEF Plan
<1>4. Listing(p)[1] = "list" /\ \A a \in E : a[2] = p
  BY DEF Listing, Emplace
<1>5. Under(p, p)
  BY <1>2, UnderSelf
<1> HIDE DEF p
<1>6. Covers(E, tree, p)
  <2> SUFFICES ASSUME NEW x \in tree, Under(p, x) PROVE \E a \in E : Stands(a, x)
    BY DEF Covers
  <2>1. CASE x = p
    BY <2>1 DEF Stands
  <2>2. CASE x # p
    <3>1. Listing(p)[2] = p
      BY <1>4
    <3>2. Stands(Listing(p), x)
      BY <1>4, <2>2, <3>1 DEF Stands
    <3> QED
      BY <3>2
  <2> QED
    BY <2>1, <2>2
<1>7. Resumes(E, tree, p)
  <2> SUFFICES ASSUME NEW x \in tree, Under(p, x), Earlier(x, p) PROVE p \in tree
    BY <1>4 DEF Resumes
  <2>1. x \in Seq(Char)
    BY PathAssumption DEF tree
  <2>2. x # p
    BY <1>2, <2>1, EarlierApart
  <2> QED
    BY <1>1, <1>2, <2>2, WayDown
<1>8. Sound(E, tree, p)
  BY <1>4, <1>5, <1>6, <1>7 DEF Sound
<1> HIDE DEF E
<1>9. PlanInv(c)
  BY <1>2, <1>3, <1>8 DEF PlanInv, Right, p
<1>10. p \in tree => Ahead(c)
  BY <1>2, <1>3, <1>4 DEF Ahead, Leading, Ended
<1> QED
  BY <1>9, <1>10 DEF p

\* Of several deletes of one path one gets through, for any number of deletes
\* and any tree, as long as nobody creates and the connection holds: each stops
\* at the first node that another one has deleted, but they come to the nodes
\* in one order, so the one that is ahead is never stopped (delete_path,
\* cppzk.hpp:213).
THEOREM OneDeleteGetsThrough == Spec => []SomeDeleteGetsThrough
<1>1. DeletesInv => SomeDeleteGetsThrough
  <2> SUFFICES ASSUME DeletesInv, scenario.others = {}, Calls("create") = {}, ~scenario.loss,
                      NEW c \in Calls("delete"),
                      \A d \in Calls("delete") : PathOf(d) = PathOf(c) /\ Ended(d)
               PROVE  PathOf(c) \notin tree
    BY DEF SomeDeleteGetsThrough
  <2>1. Alone
    BY DEF Alone
  <2> QED
    BY <2>1 DEF DeletesInv, Ahead
<1> QED
  BY <1>1, DeletesInit, DeletesStep, OpsHolds, PTL DEF Spec

=============================================================================

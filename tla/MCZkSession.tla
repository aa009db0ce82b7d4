---------------------------- MODULE MCZkSession ----------------------------
(***************************************************************************)
(* Instances of ZkSession for TLC.                                         *)
(***************************************************************************)
EXTENDS ZkSession

CONSTANTS p1, p2, w1, w2

\* Two watches on two paths.
TwoPaths   == {p1, p2}
TwoWatches == {w1, w2}
OneEach    == [w \in TwoWatches |-> IF w = w1 THEN p1 ELSE p2]

\* A single watch.
OnePath  == {p1}
OneWatch == {w1}
OneToOne == [w \in OneWatch |-> p1]

=============================================================================

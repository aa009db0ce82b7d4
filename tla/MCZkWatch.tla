----------------------------- MODULE MCZkWatch -----------------------------
(***************************************************************************)
(* Instances of ZkWatch for TLC.                                           *)
(***************************************************************************)
EXTENDS ZkWatch

CONSTANTS p1, w1, w2

\* One watch on one path.
OnePath  == {p1}
OneWatch == {w1}
OneToOne == [w \in OneWatch |-> p1]

\* Two callbacks on the same path.
TwoWatches == {w1, w2}
SamePath   == [w \in TwoWatches |-> p1]

=============================================================================

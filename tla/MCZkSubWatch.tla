---------------------------- MODULE MCZkSubWatch ----------------------------
(***************************************************************************)
(* Instances of ZkSubWatch for TLC.                                        *)
(***************************************************************************)
EXTENDS ZkSubWatch

CONSTANTS a, b

OneChild    == {a}
TwoChildren == {a, b}

=============================================================================

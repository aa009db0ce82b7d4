---------------------------- MODULE MCLocalFile ----------------------------
(***************************************************************************)
(* Instances of LocalFile for TLC.                                         *)
(***************************************************************************)
EXTENDS LocalFile

CONSTANTS f1, c1, c2, c3

OneFile == {f1}

\* One monitor of each kind.
EachKind == {c1, c2, c3}
EachKey  == [c \in EachKind |-> IF c = c1 THEN <<"exist", f1>>
                                ELSE IF c = c2 THEN <<"get", f1>> ELSE <<"sub", Dir>>]

\* Two callbacks for the value of one file.
TwoCalls  == {c1, c2}
SameValue == [c \in TwoCalls |-> <<"get", f1>>]

\* A single monitor.
OneCall  == {c1}
OneValue == [c \in OneCall |-> <<"get", f1>>]

=============================================================================

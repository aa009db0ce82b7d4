----------------------------- MODULE WatchView -----------------------------
(***************************************************************************)
(* What watch_path and watch_sub_path promise about the callbacks of one   *)
(* watch within a session, without a word on how: every report is about a  *)
(* state of the node that is newer than all reported before.  Reports may  *)
(* be late and may leave out states, never go back.                        *)
(*                                                                         *)
(* Time is counted in transactions of the server.                          *)
(***************************************************************************)
EXTENDS Integers

CONSTANT Watch      \* what reports are about

VARIABLES
    now,            \* transactions so far
    view,           \* view[w]: the last report
    high            \* high[w]: the newest value reported

vars == <<now, view, high>>

Unheard == -1       \* nothing has been reported
Deleted == 0        \* a deletion was reported

Init ==
    /\ now = 0
    /\ view = [w \in Watch |-> Unheard]
    /\ high = [w \in Watch |-> 0]

\* Somebody writes or deletes.
Advance ==
    /\ now' = now + 1
    /\ UNCHANGED <<view, high>>

\* path_event::changed with a value that was written after the last one told.
TellChanged(w) ==
    /\ \E v \in (high[w] + 1)..now :
         /\ view' = [view EXCEPT ![w] = v]
         /\ high' = [high EXCEPT ![w] = v]
    /\ UNCHANGED now

\* path_event::del: something has happened since the last value told.
TellDeleted(w) ==
    /\ now > high[w]
    /\ view' = [view EXCEPT ![w] = Deleted]
    /\ UNCHANGED <<now, high>>

Next == Advance \/ \E w \in Watch : TellChanged(w) \/ TellDeleted(w)

Spec == Init /\ [][Next]_vars

=============================================================================

---------------------------- MODULE EditHistory ----------------------------
(***************************************************************************)
(* What undo and redo promise: a line of versions of one document with a   *)
(* cursor on it.  Editing opens a new version after the cursor and cuts    *)
(* off what lay ahead; undoing and redoing move the cursor and nothing     *)
(* else; only the oldest versions are ever forgotten, and only so that no  *)
(* more than Depth lie behind the cursor.                                  *)
(***************************************************************************)
EXTENDS Integers, Sequences

CONSTANTS
    Depth         \* how far back one can go, one version at least

VARIABLES
    line,         \* the versions, oldest first
    cursor        \* the one on the canvas

vars == <<line, cursor>>

Init == cursor = 1 /\ Len(line) = 1

Back    == cursor > 1 /\ cursor' = cursor - 1 /\ line' = line
Forward == cursor < Len(line) /\ cursor' = cursor + 1 /\ line' = line

(* What lies behind the cursor once the version under it has been kept. *)
Kept == IF cursor <= Depth THEN SubSeq(line, 1, cursor) ELSE SubSeq(line, 2, cursor)

Branch ==
    /\ cursor' = Len(Kept) + 1
    /\ Len(line') = cursor'
    /\ \A k \in DOMAIN Kept : line'[k] = Kept[k]

(* The version under the cursor changes in place, as a stroke does it. *)
Grow ==
    /\ cursor' = cursor
    /\ Len(line') = Len(line)
    /\ \A k \in DOMAIN line : k # cursor => line'[k] = line[k]

(* Another document. *)
Turn == cursor' = 1 /\ Len(line') = 1

Next == Back \/ Forward \/ Branch \/ Grow \/ Turn

Spec == Init /\ [][Next]_vars
=============================================================================

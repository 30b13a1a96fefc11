---------------------------- MODULE SpriteTable ----------------------------
(***************************************************************************)
(* What an author is promised of the sprites: a table from what is drawn   *)
(* to the art it is drawn with, of which an edit changes at most one       *)
(* entry.  A file that could not be read as a whole shows nothing of it;   *)
(* an edit may bring the rest back.  A write cut short, and only that, may *)
(* lose entries; it makes up none but the one being written.               *)
(***************************************************************************)
EXTENDS Naturals, FiniteSets

VARIABLES table, cut

Init == cut = FALSE

Edit == \E s \in DOMAIN table' :
            /\ DOMAIN table' = DOMAIN table \cup {s}
            /\ \A t \in DOMAIN table \ {s} : table'[t] = table[t]
            /\ (cut' => cut)

Reveal == DOMAIN table = {} /\ (cut' => cut)

Tear == cut' = TRUE /\ Cardinality(DOMAIN table' \ DOMAIN table) <= 1

Spec == Init /\ [][Edit \/ Reveal \/ Tear]_<<table, cut>>
============================================================================

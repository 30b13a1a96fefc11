---------------------------- MODULE TileClaims ----------------------------
(***************************************************************************)
(* What the world promises about tiles, with none of the machinery: every  *)
(* actor present holds exactly one walkable tile, no two hold the same     *)
(* one, and a holder moves only one legal step at a time or as far as a    *)
(* stair or portal carries it.                                             *)
(***************************************************************************)
EXTENDS Tiles

CONSTANTS Actors, Nowhere

VARIABLE claim      \* [actor -> the tile it holds, or Nowhere]

Unclaimed(tile) == \A j \in Actors : claim[j] # tile

Init == claim = [i \in Actors |-> Nowhere]

Appear(i, tile) ==
    /\ claim' = [claim EXCEPT ![i] = tile]
    /\ claim[i] = Nowhere
    /\ Unclaimed(tile)

Move(i, tile) ==
    /\ claim' = [claim EXCEPT ![i] = tile]
    /\ claim[i] # Nowhere
    /\ tile \in Reach(claim[i])
    /\ Unclaimed(tile)

Vanish(i) ==
    /\ claim[i] # Nowhere
    /\ claim' = [claim EXCEPT ![i] = Nowhere]

Next ==
    \E i \in Actors :
        \/ Vanish(i)
        \/ \E tile \in Walkable : Appear(i, tile) \/ Move(i, tile)

Spec == Init /\ [][Next]_claim
=============================================================================

----------------------------- MODULE MCCombat -----------------------------
(* Combat on the maps of MCMaps.                                           *)
EXTENDS Combat, MCMaps

AllOnes == [i \in NetIds |-> 1]

OneTick == [i \in NetIds |-> 1]
=============================================================================

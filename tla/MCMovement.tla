---------------------------- MODULE MCMovement ----------------------------
(* Movement on the maps of MCMaps.                                         *)
EXTENDS Movement, MCMaps

TwoPaces == [i \in NetIds |-> IF i = 1 THEN 2 ELSE 1]
=============================================================================

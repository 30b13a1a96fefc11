---------------------------- MODULE MCSpawners ----------------------------
(* Two nests at the ends of a corridor.                                    *)
EXTENDS Spawners, MCMaps

TwoNests == {"den", "lair"}

(* The lair's area runs over the edge of the corridor, into rock. *)
ApartArea ==
    [n \in TwoNests |-> IF n = "den" THEN {T(1, 1, 0), T(2, 1, 0)} ELSE {T(3, 1, 0), T(4, 1, 0)}]

SomeAlive  == [n \in TwoNests |-> IF n = "den" THEN 2 ELSE 1]
SomePeriod == [n \in TwoNests |-> IF n = "den" THEN 2 ELSE 1]

OneTick == [i \in NetIds |-> 1]
=============================================================================

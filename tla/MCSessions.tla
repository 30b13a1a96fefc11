----------------------------- MODULE MCSessions -----------------------------
(* Sessions on one tile or two, with two weapons for one hand.             *)
EXTENDS Sessions, MCMaps

Weapons == [item \in {"sword", "bow"} |-> "hand"]
Starter == <<"sword", "bow">>

Bare == <<>>

SpotTiles  == {T(1, 1, 0)}
SpotStairs == [t \in SpotTiles |-> 0]

NookTiles  == {T(x, 1, 0) : x \in 1..2}
NookSpawn  == T(2, 1, 0)
NookStairs == [t \in NookTiles |-> 0]

(* No action and no property names a peer or a character. *)
Swaps == Permutations(Peers) \cup Permutations(Names)

OneTick == [i \in NetIds |-> 1]
=============================================================================

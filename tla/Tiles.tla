------------------------------- MODULE Tiles -------------------------------
(***************************************************************************)
(* The static geometry every mover shares: sim::TileMap, the direction and *)
(* distance helpers of sim/types.hpp, can_traverse, and the two things a   *)
(* tile can do to an actor that walks onto it (a portal, a stair).         *)
(*                                                                         *)
(* A tile is a record [x, y, z]; z is the floor.  Ground and objects are   *)
(* reduced to the one bit the simulation asks for: whether the tile can be *)
(* stood on.                                                               *)
(***************************************************************************)
EXTENDS Integers, Sequences

CONSTANTS
    Tiles,        \* the tiles inside the map's bounds
    Walkable,     \* those with a ground and no blocking object
    Portal,       \* [tile -> destination], for the tiles a portal is painted on
    StairDelta    \* [tile -> -1, 0 or 1], from the type of the tile's object

Positions == [x : Int, y : Int, z : Int]

ASSUME GeometryAssumption ==
    /\ Tiles \subseteq Positions
    /\ Walkable \subseteq Tiles
    /\ DOMAIN Portal \subseteq Tiles
    /\ \A t \in DOMAIN Portal : Portal[t] \in Positions \ {t}
    /\ StairDelta \in [Tiles -> {-1, 0, 1}]

Directions == 0..7        \* North, NorthEast, East, ... clockwise

DirectionDelta ==
    [d \in Directions |->
        << <<0, -1>>, <<1, -1>>, <<1, 0>>, <<1, 1>>,
           <<0, 1>>, <<-1, 1>>, <<-1, 0>>, <<-1, -1>> >>[d + 1]]

IsDiagonal(d) == d % 2 = 1

TileStep(from, d) ==
    [from EXCEPT !.x = @ + DirectionDelta[d][1], !.y = @ + DirectionDelta[d][2]]

(* A diagonal may not squeeze between two tiles of which one blocks. *)
CanTraverse(from, d) ==
    /\ TileStep(from, d) \in Walkable
    /\ IsDiagonal(d) =>
          /\ [from EXCEPT !.x = @ + DirectionDelta[d][1]] \in Walkable
          /\ [from EXCEPT !.y = @ + DirectionDelta[d][2]] \in Walkable

(* direction_between succeeds exactly when one of the eight steps does it. *)
DirectionsBetween(from, to) == {d \in Directions : TileStep(from, d) = to}

LegalStep(from, to) == \E d \in DirectionsBetween(from, to) : CanTraverse(from, d)

(* A route is a chain of legal steps from its origin to its goal; the      *)
(* empty one stands for "find returned false".                             *)
IsRoute(from, to, r) ==
    r # <<>> =>
        /\ LegalStep(from, r[1])
        /\ \A k \in 1..(Len(r) - 1) : LegalStep(r[k], r[k + 1])
        /\ r[Len(r)] = to

Abs(n) == IF n < 0 THEN -n ELSE n

(* Chebyshev distance, -1 across floors. *)
TileDistance(a, b) ==
    LET dx == Abs(a.x - b.x)
        dy == Abs(a.y - b.y)
    IN  IF a.z # b.z THEN -1 ELSE IF dx > dy THEN dx ELSE dy

InAttackRange(from, to, range) == TileDistance(from, to) \in 1..range

(* World::transition_destination: the portal first, then the stair.  A set *)
(* of at most one tile, empty where the code returns nullopt.              *)
TransitionDestination(from) ==
    IF from \in DOMAIN Portal THEN {Portal[from]}
    ELSE IF StairDelta[from] # 0 THEN {[from EXCEPT !.z = @ + StairDelta[from]]}
    ELSE {}

(* Where one arrival may leave an actor: one step on, or carried by the tile. *)
Reach(from) ==
    {to \in Walkable : LegalStep(from, to) \/ to \in TransitionDestination(from)}
=============================================================================

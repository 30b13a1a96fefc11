------------------------------ MODULE MCMaps ------------------------------
(* Small maps, and cheapest routes on any of them.                         *)
EXTENDS Tiles, SequencesExt

T(x, y, z) == [x |-> x, y |-> y, z |-> z]

(* Keep: below, two rows with a wall in the corner; above, two tiles and   *)
(* rock.  A stair up with a stair down above it, two portals that lead to  *)
(* each other, and one that leads into the rock.                           *)
KeepTiles    == {T(x, y, 0) : x \in 1..3, y \in 1..2} \cup {T(x, 1, 1) : x \in 1..3}
KeepWalkable == KeepTiles \ {T(3, 2, 0), T(3, 1, 1)}
KeepPortal   == (T(3, 1, 0) :> T(2, 2, 0)) @@ (T(2, 2, 0) :> T(3, 1, 0))
                    @@ (T(1, 2, 0) :> T(3, 1, 1))
KeepStairs   ==
    [t \in KeepTiles |->
        IF t = T(2, 1, 0) THEN 1 ELSE IF t = T(2, 1, 1) THEN -1 ELSE 0]

(* A cheapest chain of legal steps, diagonals dearer: relax the best known *)
(* path to every tile until none improves.  Pathfind does it another way,  *)
(* and MCPathfind compares the two.                                        *)
Toll(from, to) == IF from.x # to.x /\ from.y # to.y THEN 13 ELSE 9

PathCost(p) == FoldLeftDomain(LAMBDA c, k :
                   IF k = 1 THEN 0 ELSE c + Toll(p[k - 1], p[k]), 0, p)

Extended(best, t) ==
    {Append(best[u], t) : u \in {v \in DOMAIN best : best[v] # <<>> /\ LegalStep(v, t)}}

RECURSIVE Relax(_)
Relax(best) ==
    LET options(t) == Extended(best, t) \cup ({best[t]} \ {<<>>})
        next == [t \in DOMAIN best |->
                    IF options(t) = {} THEN <<>>
                    ELSE IF best[t] # <<>> /\ \A p \in options(t) : PathCost(best[t]) <= PathCost(p)
                         THEN best[t]
                         ELSE CHOOSE p \in options(t) : \A q \in options(t) : PathCost(p) <= PathCost(q)]
    IN  IF next = best THEN best ELSE Relax(next)

RoutesFrom(from) ==
    LET best == Relax([t \in Walkable |-> IF t = from THEN <<from>> ELSE <<>>])
    IN  [to \in Walkable \ {from} |-> IF best[to] = <<>> THEN <<>> ELSE Tail(best[to])]

(* Written out entry by entry, so that TLC computes it once. *)
Table(S, F(_)) == FoldSet(LAMBDA s, f : (s :> F(s)) @@ f, <<>>, S)

RouteTable ==
    Table(Tiles, LAMBDA from :
        LET routes == RoutesFrom(from)
        IN  Table(Tiles, LAMBDA to : IF to \in DOMAIN routes THEN routes[to] ELSE <<>>))

MCRoute == RouteTable      \* an alias: TLC computes RouteTable only once

(* Lane: a corridor of three tiles. *)
LaneTiles  == {T(x, 1, 0) : x \in 1..3}
LanePortal == <<>>
LaneStairs == [t \in LaneTiles |-> 0]
=============================================================================

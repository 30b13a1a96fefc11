----------------------------- MODULE MCPathfind -----------------------------
(* A yard of five by three with a wall to go round, a tile nobody reaches, *)
(* and two lofts above.                                                    *)
EXTENDS Pathfind, MCMaps

YardTiles    == {T(x, y, 0) : x \in 1..5, y \in 1..3}
                    \cup {T(x, 1, 1) : x \in {1, 2, 4}} \cup {T(7, 1, 0)}
YardWalkable == YardTiles \ {T(2, 1, 0), T(2, 2, 0)}
YardStairs   == [t \in YardTiles |-> 0]

(* Round the wall from two tiles, one of them too far for the budget; down *)
(* the open side; to where no route leads; along a loft and off its edge; *)
(* and what find turns down: another floor, oneself, a wall.               *)
YardRequests ==
    { <<T(5, 1, 0), T(1, 1, 0)>>, <<T(5, 2, 0), T(1, 1, 0)>>, <<T(3, 1, 0), T(4, 3, 0)>>,
      <<T(3, 3, 0), T(7, 1, 0)>>,
      <<T(1, 1, 1), T(2, 1, 1)>>, <<T(1, 1, 1), T(4, 1, 1)>>,
      <<T(1, 1, 0), T(2, 1, 1)>>, <<T(1, 1, 0), T(1, 1, 0)>>, <<T(1, 1, 0), T(2, 1, 0)>> }

(* For each request, the route that relaxing every step finds.             *)
YardRivals == {MCRoute[r[1]][r[2]] : r \in {q \in YardRequests : q[2] \in YardTiles}}
=============================================================================

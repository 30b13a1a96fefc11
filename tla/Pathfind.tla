------------------------------ MODULE Pathfind ------------------------------
(***************************************************************************)
(* sim::Pathfinder: A* over one floor, one heap entry per step.            *)
(*                                                                         *)
(* The scratch arrays outlive a search and are never cleared: an entry     *)
(* counts only if its stamp is this search's generation.  They are indexed *)
(* by y and x alone, so searches on different floors share them.           *)
(*                                                                         *)
(* An index y * width + x is kept as the pair <<x, y>>.  The heap is the   *)
(* set of its entries: a tile is pushed again only at a lower cost, so no  *)
(* entry is ever pushed twice.                                             *)
(***************************************************************************)
EXTENDS Tiles, FiniteSets

CONSTANTS
    Requests,             \* bound: the <<from, to>> pairs that are asked for
    Cardinal, Diagonal,   \* kPathCostCardinal, kPathCostDiagonal
    MaxNodes,             \* kPathMaxNodes
    Generations,          \* how many values generation_ has, 2^32
    NoCell,               \* -1 in came_from_
    Rivals                \* the routes an answer is compared with

Cell(t) == <<t.x, t.y>>
Plane   == {Cell(t) : t \in Tiles}

ASSUME PathfindAssumption ==
    /\ Requests \subseteq Tiles \X Positions
    /\ {Cardinal, Diagonal, MaxNodes} \subseteq Nat \ {0}
    /\ Cardinal <= Diagonal /\ Diagonal <= 2 * Cardinal     \* test_pathfind.cpp:102
    /\ Generations \in Nat \ {0, 1}
    /\ NoCell \notin Plane
    /\ Rivals \subseteq Seq(Walkable)

VARIABLES
    phase,               \* where find is; "done" between two calls
    from, to,            \* its arguments
    cost, cameFrom,      \* cost_, came_from_
    stamp, generation,   \* stamp_, generation_
    open,                \* the heap: a set of [f, cell]
    expanded,            \* last_expanded_
    index,               \* the predecessor loop's index
    path                 \* out_path; empty where find returns false

arguments == <<from, to>>
scratch   == <<cost, cameFrom, stamp, generation>>
vars == <<phase, arguments, scratch, open, expanded, index, path>>

On(c) == [x |-> c[1], y |-> c[2], z |-> from.z]     \* to_pos

StepCost(a, b) == IF a[1] # b[1] /\ a[2] # b[2] THEN Diagonal ELSE Cardinal

(* path_heuristic: octile distance. *)
Heuristic(a, b) ==
    LET dx == Abs(a[1] - b[1])
        dy == Abs(a[2] - b[2])
        diagonal == IF dx < dy THEN dx ELSE dy
        straight == (IF dx > dy THEN dx ELSE dy) - diagonal
    IN  diagonal * Diagonal + straight * Cardinal

Estimate(c) == Heuristic(c, Cell(to))

(* The tie-break of OpenNode: the lower index, which is the row first. *)
Earlier(a, b) == a[2] < b[2] \/ (a[2] = b[2] /\ a[1] < b[1])

IsTop(n) ==
    /\ n \in open
    /\ \A m \in open \ {n} : n.f < m.f \/ (n.f = m.f /\ Earlier(n.cell, m.cell))

Visited(c) == stamp[c] = generation

(* The arrays as prepare first allocates them; the map never changes size. *)
Init ==
    /\ phase = "done"
    /\ \E r \in Requests : from = r[1] /\ to = r[1]     \* as after a call for nothing
    /\ cost = [c \in Plane |-> 0]
    /\ cameFrom = [c \in Plane |-> NoCell]
    /\ stamp = [c \in Plane |-> 0]
    /\ generation = 0
    /\ open = {}
    /\ expanded = 0
    /\ index = NoCell
    /\ path = <<>>

----------------------------------------------------------------------------
(* Faulty: the stamps of the generations before the wrap still count. *)
PreparedForgetful ==
    [stamp |-> stamp,
     generation |-> IF generation + 1 = Generations THEN 1 ELSE generation + 1]

(* prepare: a new generation; when the counter wraps the stamps go too.    *)
Prepared ==
    IF generation + 1 = Generations
    THEN [stamp |-> [c \in Plane |-> 0], generation |-> 1]
    ELSE [stamp |-> stamp, generation |-> generation + 1]

(* What find turns down at once.  The origin is in bounds: callers pass    *)
(* the tile an actor stands on or walks to.                                *)
Refused(a, b) == a.z # b.z \/ a = b \/ b \notin Walkable

Start(c) ==
    /\ cost' = [cost EXCEPT ![c] = 0]
    /\ cameFrom' = [cameFrom EXCEPT ![c] = NoCell]

Find(a, b) ==
    /\ phase = "done"
    /\ from' = a /\ to' = b
    /\ path' = <<>> /\ expanded' = 0
    /\ IF Refused(a, b)
       THEN UNCHANGED <<phase, scratch, open>>
       ELSE /\ phase' = "search"
            /\ generation' = Prepared.generation
            /\ stamp' = [Prepared.stamp EXCEPT ![Cell(a)] = Prepared.generation]
            /\ Start(Cell(a))
            /\ open' = {[f |-> Heuristic(Cell(a), Cell(b)), cell |-> Cell(a)]}
    /\ UNCHANGED index

(* The neighbours a step from c reaches for the first time or for less. *)
Improved(c) ==
    {n \in Plane :
        /\ LegalStep(On(c), On(n))
        /\ ~ Visited(n) \/ cost[c] + StepCost(c, n) < cost[n]}

(* An outdated entry: a cheaper way to its tile was found after the push.  *)
Stale(n) == n.f > cost[n.cell] + Estimate(n.cell)

Skip(n) ==
    /\ open' = open \ {n}
    /\ UNCHANGED <<phase, scratch, expanded, index>>

OverBudget == expanded + 1 > MaxNodes

GiveUp ==
    /\ phase' = "done"
    /\ open' = {}
    /\ UNCHANGED <<scratch, index>>

Expand(n) ==
    LET c == n.cell
        better == Improved(c)
        newCost(m) == cost[c] + StepCost(c, m)
    IN  /\ stamp' = [m \in Plane |-> IF m \in better THEN generation ELSE stamp[m]]
        /\ cost' = [m \in Plane |-> IF m \in better THEN newCost(m) ELSE cost[m]]
        /\ cameFrom' = [m \in Plane |-> IF m \in better THEN c ELSE cameFrom[m]]
        /\ open' = (open \ {n}) \cup {[f |-> newCost(m) + Estimate(m), cell |-> m] : m \in better}
        /\ UNCHANGED <<phase, generation, index>>

(* One turn of the loop: the goal ends it, an outdated entry is dropped,   *)
(* and the budget counts the tiles that are really expanded.               *)
Pop(n) ==
    /\ phase = "search"
    /\ IsTop(n)
    /\ \/ /\ n.cell = Cell(to)
          /\ phase' = "trace" /\ index' = n.cell
          /\ open' = {}
          /\ UNCHANGED <<scratch, expanded>>
       \/ /\ n.cell # Cell(to) /\ Stale(n)
          /\ Skip(n)
       \/ /\ n.cell # Cell(to) /\ ~ Stale(n)
          /\ expanded' = expanded + 1
          /\ IF OverBudget THEN GiveUp ELSE Expand(n)
    /\ UNCHANGED <<arguments, path>>

Exhausted ==
    /\ phase = "search"
    /\ open = {}
    /\ GiveUp
    /\ UNCHANGED <<arguments, expanded, path>>

(* Faulty: only an absent predecessor ends the walk back. *)
AtRootOnly == index = NoCell

AtStart == index \in {NoCell, Cell(from)}

(* The predecessors, from the goal to the start, which is left out. *)
TraceBack ==
    /\ phase = "trace"
    /\ ~ AtStart
    /\ path' = <<On(index)>> \o path
    /\ index' = cameFrom[index]
    /\ UNCHANGED <<phase, arguments, scratch, open, expanded>>

TraceEnd ==
    /\ phase = "trace"
    /\ AtStart
    /\ phase' = "done"
    /\ index' = NoCell
    /\ UNCHANGED <<arguments, scratch, open, expanded, path>>

Step == (\E n \in open : Pop(n)) \/ Exhausted \/ TraceBack \/ TraceEnd

Next == Step \/ \E r \in Requests : Find(r[1], r[2])

Spec == Init /\ [][Next]_vars

(* The loops run to their end; nobody is obliged to ask for a route. *)
FairSpec == Spec /\ WF_vars(Step)

----------------------------------------------------------------------------
TypeOK ==
    /\ phase \in {"search", "trace", "done"}
    /\ from \in Tiles /\ to \in Positions
    /\ cost \in [Plane -> Nat]
    /\ cameFrom \in [Plane -> Plane \cup {NoCell}]
    /\ stamp \in [Plane -> 0..(Generations - 1)]
    /\ generation \in 0..(Generations - 1)
    /\ open \subseteq [f : Nat, cell : Plane]
    /\ expanded \in 0..(MaxNodes + 1)
    /\ index \in Plane \cup {NoCell}
    /\ path \in Seq(Walkable)

(* What find returns is a route: legal steps from the tile after the       *)
(* origin to the goal, whatever earlier searches left in the scratch       *)
(* arrays.  A follower walks it without checking the geometry again.       *)
PathIsRoute == phase = "done" => IsRoute(from, to, path)

(* What the last steps of a walk over tiles cost, for every number of them. *)
Spent(walk) ==
    LET last[k \in 0..Len(walk) - 1] ==
            IF k = 0 THEN 0
            ELSE last[k - 1] +
                     StepCost(Cell(walk[Len(walk) - k]), Cell(walk[Len(walk) - k + 1]))
    IN  last

WalkCost(walk) == Spent(walk)[Len(walk) - 1]

(* Within its budget a search finds a route if there is one, and none is   *)
(* cheaper (pathfind.hpp:61: "the first path found is optimal").           *)
PathIsCheapest ==
    phase = "done" /\ expanded <= MaxNodes /\ from # to =>
        \A r \in Rivals : r # <<>> /\ IsRoute(from, to, r) =>
            path # <<>> /\ WalkCost(<<from>> \o path) <= WalkCost(<<from>> \o r)

=============================================================================

-------------------------- MODULE PathfindProofs --------------------------
(***************************************************************************)
(* Pathfind, for any map, any requests, any step costs with               *)
(* Cardinal <= Diagonal <= 2 * Cardinal, any budget and any width of the   *)
(* generation counter: every answer is a legal route, and the cheapest.    *)
(***************************************************************************)
EXTENDS Pathfind, WellFoundedInduction, TLAPS

----------------------------------------------------------------------------
(* The inductive invariant. *)

(* Between searches no stamp is of a generation still to come. *)
StampsArePast == \A c \in Plane : stamp[c] <= generation

(* During a search every tile seen in it, the start apart, was reached by  *)
(* a legal step from another one seen in it; so was every heap entry.      *)
Linked ==
    phase # "done" =>
        /\ ~ Refused(from, to)
        /\ Visited(Cell(from)) /\ cost[Cell(from)] = 0
        /\ \A c \in Plane \ {Cell(from)} : Visited(c) =>
               /\ cameFrom[c] \in Plane
               /\ Visited(cameFrom[c])
               /\ LegalStep(On(cameFrom[c]), On(c))
        /\ \A n \in open : Visited(n.cell)

(* Within a chain of legal steps to the goal. *)
IsChain(r) ==
    /\ \A k \in 1..(Len(r) - 1) : LegalStep(r[k], r[k + 1])
    /\ r[Len(r)] = to

(* What has been traced leads from the tile at hand to the goal. *)
Traced ==
    /\ phase = "search" => path = <<>> /\ expanded <= MaxNodes
    /\ phase = "trace" =>
          /\ index \in Plane /\ Visited(index)
          /\ path = <<>> => index = Cell(to)
          /\ path # <<>> => LegalStep(On(index), path[1]) /\ IsChain(path)

IInv == TypeOK /\ StampsArePast /\ Linked /\ Traced /\ PathIsRoute

----------------------------------------------------------------------------
(* Tiles and cells. *)

LEMMA CellsArePairs ==
    /\ \A t \in Tiles : Cell(t) \in Plane
    /\ \A c \in Plane : c[1] \in Int /\ c[2] \in Int
    /\ \A t \in Positions : Cell(t)[1] \in Int /\ Cell(t)[2] \in Int
  BY GeometryAssumption DEF Plane, Cell, Positions

LEMMA OnCell ==
    ASSUME NEW t \in Positions, t.z = from.z
    PROVE  On(Cell(t)) = t
  BY DEF On, Cell, Positions

LEMMA GoalIsNotStart ==
    ASSUME from \in Tiles, to \in Positions, ~ Refused(from, to)
    PROVE  /\ to \in Tiles /\ Cell(to) \in Plane /\ On(Cell(to)) = to
           /\ Cell(from) \in Plane /\ On(Cell(from)) = from
           /\ Cell(to) # Cell(from)
  <1>1. from \in Positions /\ to \in Tiles
    BY GeometryAssumption DEF Refused
  <1>2. On(Cell(to)) = to /\ On(Cell(from)) = from
    BY <1>1, OnCell DEF Refused
  <1> QED
    BY <1>1, <1>2, CellsArePairs DEF Refused

LEMMA StepsEndOnGround ==
    ASSUME NEW a, NEW b, LegalStep(a, b)
    PROVE  b \in Walkable
  BY DEF LegalStep, DirectionsBetween, CanTraverse

LEMMA HeuristicNat ==
    ASSUME NEW a, NEW b, a[1] \in Int, a[2] \in Int, b[1] \in Int, b[2] \in Int
    PROVE  Heuristic(a, b) \in Nat
  <1> DEFINE dx == Abs(a[1] - b[1])
             dy == Abs(a[2] - b[2])
             diagonal == IF dx < dy THEN dx ELSE dy
             straight == (IF dx > dy THEN dx ELSE dy) - diagonal
  <1>1. dx \in Nat /\ dy \in Nat
    BY DEF Abs
  <1>2. diagonal \in Nat /\ straight \in Nat
    BY <1>1
  <1>3. \A m, n \in Nat : m * n \in Nat
    OBVIOUS
  <1>4. Cardinal \in Nat /\ Diagonal \in Nat
    BY PathfindAssumption
  <1>5. diagonal * Diagonal \in Nat /\ straight * Cardinal \in Nat
    <2> HIDE DEF diagonal, straight
    <2> QED BY <1>2, <1>3, <1>4
  <1>6. diagonal * Diagonal + straight * Cardinal \in Nat
    <2> HIDE DEF diagonal, straight
    <2> QED BY <1>5
  <1> QED
    BY <1>6 DEF Heuristic

(* The generation a search runs under is on no stamp before it starts. *)
LEMMA PreparedIsFresh ==
    ASSUME TypeOK, StampsArePast
    PROVE  /\ Prepared.generation \in 1..(Generations - 1)
           /\ Prepared.stamp \in [Plane -> 0..(Generations - 1)]
           /\ \A c \in Plane : Prepared.stamp[c] < Prepared.generation
  BY PathfindAssumption DEF Prepared, TypeOK, StampsArePast

----------------------------------------------------------------------------
LEMMA InitInv == Init => IInv
  <1> SUFFICES ASSUME Init PROVE IInv
    OBVIOUS
  <1> USE DEF Init
  <1>1. from \in Tiles /\ to \in Positions
    BY PathfindAssumption, GeometryAssumption
  <1>2. TypeOK
    BY <1>1, PathfindAssumption DEF TypeOK
  <1>3. StampsArePast /\ Linked /\ Traced /\ PathIsRoute
    BY DEF StampsArePast, Linked, Traced, PathIsRoute, IsRoute
  <1> QED
    BY <1>2, <1>3 DEF IInv

LEMMA FindInv ==
    ASSUME IInv, NEW a \in Tiles, NEW b \in Positions, Find(a, b)
    PROVE  IInv'
  <1> USE DEF IInv
  <1>1. CASE Refused(a, b)
    <2>1. UNCHANGED <<phase, cost, cameFrom, stamp, generation, open, index>>
          /\ phase = "done" /\ path' = <<>> /\ expanded' = 0 /\ from' = a /\ to' = b
      BY <1>1 DEF Find, scratch
    <2>2. TypeOK'
      BY <2>1, PathfindAssumption DEF TypeOK
    <2>3. (StampsArePast /\ Linked /\ Traced /\ PathIsRoute)'
      BY <2>1 DEF StampsArePast, Linked, Traced, PathIsRoute, IsRoute
    <2> QED
      BY <2>2, <2>3
  <1>2. CASE ~ Refused(a, b)
    <2>1. /\ phase' = "search" /\ path' = <<>> /\ expanded' = 0 /\ from' = a /\ to' = b
          /\ index' = index
          /\ generation' = Prepared.generation
          /\ stamp' = [Prepared.stamp EXCEPT ![Cell(a)] = Prepared.generation]
          /\ cost' = [cost EXCEPT ![Cell(a)] = 0]
          /\ cameFrom' = [cameFrom EXCEPT ![Cell(a)] = NoCell]
          /\ open' = {[f |-> Heuristic(Cell(a), Cell(b)), cell |-> Cell(a)]}
      BY <1>2 DEF Find, Start
    <2>2. Cell(a) \in Plane /\ Heuristic(Cell(a), Cell(b)) \in Nat
      BY CellsArePairs, HeuristicNat
    <2>3. /\ generation' \in 1..(Generations - 1)
          /\ stamp' \in [Plane -> 0..(Generations - 1)]
          /\ stamp'[Cell(a)] = generation'
          /\ \A c \in Plane \ {Cell(a)} : stamp'[c] < generation'
      BY <2>1, <2>2, PreparedIsFresh, PathfindAssumption
    <2>4. TypeOK'
      BY <2>1, <2>2, <2>3, PathfindAssumption DEF TypeOK
    <2>5. StampsArePast'
      BY <2>3, PathfindAssumption DEF StampsArePast
    <2>6. Linked'
      <3>1. ~ Refused(from', to')
        BY <1>2, <2>1
      <3>2. Visited(Cell(from))' /\ cost'[Cell(from')] = 0
        BY <2>1, <2>2, <2>3 DEF Visited, TypeOK
      <3>3. \A c \in Plane \ {Cell(from')} : ~ Visited(c)'
        BY <2>1, <2>3, PathfindAssumption DEF Visited
      <3>4. \A n \in open' : Visited(n.cell)'
        BY <2>1, <2>3 DEF Visited
      <3> QED
        BY <3>1, <3>2, <3>3, <3>4 DEF Linked, Refused
    <2>7. (Traced /\ PathIsRoute)'
      BY <2>1, PathfindAssumption DEF Traced, PathIsRoute
    <2> QED
      BY <2>4, <2>5, <2>6, <2>7
  <1> QED
    BY <1>1, <1>2

(* Nothing but the heap or the phase moves: the links stay. *)
LEMMA LinkedStays ==
    ASSUME Linked, phase # "done", UNCHANGED <<arguments, scratch>>, open' \subseteq open
    PROVE  Linked'
  BY DEF Linked, Visited, On, Refused, arguments, scratch

LEMMA ExpandInv ==
    ASSUME IInv, phase = "search", NEW n \in open, Expand(n),
           UNCHANGED <<arguments, path>>, ~ OverBudget, expanded' = expanded + 1
    PROVE  IInv'
  <1> DEFINE c == n.cell
  <1>1. /\ stamp' = [m \in Plane |-> IF m \in Improved(c) THEN generation ELSE stamp[m]]
        /\ cost' = [m \in Plane |-> IF m \in Improved(c) THEN cost[c] + StepCost(c, m) ELSE cost[m]]
        /\ cameFrom' = [m \in Plane |-> IF m \in Improved(c) THEN c ELSE cameFrom[m]]
        /\ open' = (open \ {n}) \cup
                       {[f |-> cost[c] + StepCost(c, m) + Estimate(m), cell |-> m] : m \in Improved(c)}
        /\ phase' = "search" /\ generation' = generation /\ index' = index
        /\ from' = from /\ to' = to /\ path' = path
    BY DEF Expand, arguments
  <1>2. c \in Plane /\ Visited(c) /\ cost[c] \in Nat
    BY DEF IInv, TypeOK, Linked
  <1>3. \A m \in Plane : StepCost(c, m) \in Nat /\ cost[c] + StepCost(c, m) \in Nat
    BY <1>2, PathfindAssumption DEF StepCost
  <1>4. \A m \in Plane : cost[c] + StepCost(c, m) + Estimate(m) \in Nat
    <2>1. \A m \in Plane : Estimate(m) \in Nat
      BY HeuristicNat, CellsArePairs DEF Estimate, IInv, TypeOK
    <2> QED
      BY <1>3, <2>1
  <1>5. \A m \in Improved(c) : m \in Plane /\ LegalStep(On(c), On(m))
    BY DEF Improved
  <1>6. TypeOK'
    <2>1. cost' \in [Plane -> Nat] /\ cameFrom' \in [Plane -> Plane \cup {NoCell}]
          /\ stamp' \in [Plane -> 0..(Generations - 1)]
      BY <1>1, <1>2, <1>3 DEF IInv, TypeOK
    <2>2. open' \subseteq [f : Nat, cell : Plane]
      BY <1>1, <1>4, <1>5 DEF IInv, TypeOK
    <2>3. expanded' \in 0..(MaxNodes + 1)
      BY PathfindAssumption DEF IInv, TypeOK, OverBudget
    <2> QED
      BY <1>1, <2>1, <2>2, <2>3 DEF IInv, TypeOK
  <1>7. StampsArePast'
    BY <1>1, PathfindAssumption DEF IInv, StampsArePast, TypeOK
  <1>8. Linked'
    <2>1. \A m : On(m)' = On(m)
      BY <1>1 DEF On
    <2>2. \A m \in Plane : stamp'[m] = generation' <=> Visited(m) \/ m \in Improved(c)
      BY <1>1 DEF Visited
    <2>3. Cell(from) \notin Improved(c) /\ Cell(from) \in Plane
      <3>1. Visited(Cell(from)) /\ cost[Cell(from)] = 0 /\ Cell(from) \in Plane
        BY CellsArePairs DEF IInv, TypeOK, Linked
      <3> QED
        BY <3>1, <1>3 DEF Improved
    <2>4. stamp'[Cell(from)] = generation' /\ cost'[Cell(from)] = 0
      BY <1>1, <2>2, <2>3 DEF IInv, Linked
    <2>5. ASSUME NEW m \in Plane \ {Cell(from)}, stamp'[m] = generation'
          PROVE  /\ cameFrom'[m] \in Plane
                 /\ stamp'[cameFrom'[m]] = generation'
                 /\ LegalStep(On(cameFrom'[m]), On(m))
      <3>1. CASE m \in Improved(c)
        BY <3>1, <1>1, <1>2, <1>5, <2>2
      <3>2. CASE m \notin Improved(c)
        <4>1. Visited(m) /\ cameFrom'[m] = cameFrom[m]
          BY <3>2, <1>1, <2>2, <2>5
        <4>2. cameFrom[m] \in Plane /\ Visited(cameFrom[m]) /\ LegalStep(On(cameFrom[m]), On(m))
          BY <4>1 DEF IInv, Linked
        <4> QED
          BY <4>1, <4>2, <2>2
      <3> QED
        BY <3>1, <3>2
    <2>6. \A k \in open' : stamp'[k.cell] = generation'
      BY <1>1, <1>5, <2>2 DEF IInv, TypeOK, Linked
    <2>7. ~ Refused(from', to')
      BY <1>1 DEF IInv, Linked, Refused
    <2>8. \A m \in Plane \ {Cell(from')} : stamp'[m] = generation' =>
               /\ cameFrom'[m] \in Plane
               /\ stamp'[cameFrom'[m]] = generation'
               /\ LegalStep(On(cameFrom'[m]), On(m))
      BY <1>1, <2>5
    <2>9. from' = from
      BY <1>1
    <2> HIDE DEF c
    <2> QED
      BY <2>4, <2>6, <2>7, <2>8, <2>9 DEF Linked, Visited, On, Refused, Cell
  <1>9. Traced'
    BY <1>1, PathfindAssumption DEF IInv, Traced, TypeOK, OverBudget
  <1>10. PathIsRoute'
    BY <1>1 DEF PathIsRoute
  <1> QED
    BY <1>6, <1>7, <1>8, <1>9, <1>10 DEF IInv

LEMMA PopInv ==
    ASSUME IInv, NEW n \in open, Pop(n)
    PROVE  IInv'
  <1>1. phase = "search" /\ n.cell \in Plane /\ Visited(n.cell) /\ from' = from /\ to' = to
        /\ path' = path /\ path = <<>> /\ expanded <= MaxNodes
    BY DEF Pop, IInv, TypeOK, Linked, Traced, arguments
  <1>2. CASE n.cell = Cell(to) /\ phase' = "trace" /\ index' = n.cell /\ open' = {}
             /\ UNCHANGED <<scratch, expanded>>
    <2>1. TypeOK' /\ StampsArePast'
      BY <1>1, <1>2 DEF IInv, TypeOK, StampsArePast, scratch
    <2>2. Linked'
      BY <1>1, <1>2, LinkedStays DEF IInv, arguments
    <2>3. (Traced /\ PathIsRoute)'
      BY <1>1, <1>2 DEF Traced, PathIsRoute, Visited, Cell, scratch
    <2> QED
      BY <2>1, <2>2, <2>3 DEF IInv
  <1>3. CASE Skip(n)
    <2>1. phase' = phase /\ index' = index /\ expanded' = expanded /\ open' \subseteq open
          /\ UNCHANGED scratch
      BY <1>3 DEF Skip
    <2>2. TypeOK' /\ StampsArePast'
      BY <1>1, <2>1 DEF IInv, TypeOK, StampsArePast, scratch
    <2>3. Linked'
      BY <1>1, <2>1, LinkedStays DEF IInv, arguments
    <2>4. (Traced /\ PathIsRoute)'
      BY <1>1, <2>1 DEF Traced, PathIsRoute
    <2> QED
      BY <2>2, <2>3, <2>4 DEF IInv
  <1>4. CASE expanded' = expanded + 1 /\ GiveUp
    <2>1. TypeOK' /\ StampsArePast'
      BY <1>1, <1>4, PathfindAssumption DEF GiveUp, IInv, TypeOK, StampsArePast, scratch
    <2>2. (Linked /\ Traced /\ PathIsRoute)'
      BY <1>1, <1>4 DEF GiveUp, Linked, Traced, PathIsRoute, IsRoute
    <2> QED
      BY <2>1, <2>2 DEF IInv
  <1>5. CASE expanded' = expanded + 1 /\ ~ OverBudget /\ Expand(n)
    BY <1>1, <1>5, ExpandInv DEF arguments
  <1> QED
    BY <1>2, <1>3, <1>4, <1>5 DEF Pop

LEMMA ExhaustedInv == IInv /\ Exhausted => IInv'
  <1> SUFFICES ASSUME IInv, Exhausted PROVE IInv'
    OBVIOUS
  <1>1. phase' = "done" /\ path' = <<>> /\ open' = {}
        /\ UNCHANGED <<scratch, index, arguments, expanded>>
    BY DEF Exhausted, GiveUp, IInv, Traced
  <1>2. TypeOK' /\ StampsArePast'
    BY <1>1 DEF IInv, TypeOK, StampsArePast, scratch, arguments
  <1>3. (Linked /\ Traced /\ PathIsRoute)'
    BY <1>1 DEF Linked, Traced, PathIsRoute, IsRoute
  <1> QED
    BY <1>2, <1>3 DEF IInv

(* Putting a tile before a chain that starts one step from it. *)
LEMMA ChainGrows ==
    ASSUME NEW c, On(c) \in Walkable, path \in Seq(Walkable),
           path = <<>> => On(c) = to,
           path # <<>> => LegalStep(On(c), path[1]) /\ IsChain(path)
    PROVE  /\ <<On(c)>> \o path \in Seq(Walkable)
           /\ <<On(c)>> \o path # <<>>
           /\ (<<On(c)>> \o path)[1] = On(c)
           /\ IsChain(<<On(c)>> \o path)
  <1> DEFINE longer == <<On(c)>> \o path
  <1>1. /\ longer \in Seq(Walkable) /\ Len(longer) = Len(path) + 1 /\ longer[1] = On(c)
        /\ \A k \in 2..Len(longer) : longer[k] = path[k - 1]
        /\ Len(path) \in Nat /\ (path = <<>> <=> Len(path) = 0)
    OBVIOUS
  <1> HIDE DEF longer
  <1>2. longer[Len(longer)] = to
    BY <1>1 DEF IsChain
  <1>3. ASSUME NEW k \in 1..(Len(longer) - 1)
        PROVE  LegalStep(longer[k], longer[k + 1])
    <2>1. CASE k = 1
      BY <1>1, <1>3, <2>1
    <2>2. CASE k > 1
      <3>1. longer[k] = path[k - 1] /\ longer[k + 1] = path[k] /\ k - 1 \in 1..(Len(path) - 1)
        BY <1>1, <1>3, <2>2
      <3>2. LegalStep(path[k - 1], path[(k - 1) + 1])
        BY <1>1, <3>1 DEF IsChain
      <3> QED
        BY <3>1, <3>2, <1>3
    <2> QED
      BY <1>3, <2>1, <2>2
  <1>4. longer # <<>>
    BY <1>1
  <1>5. IsChain(longer)
    BY <1>2, <1>3 DEF IsChain
  <1> QED
    BY <1>1, <1>4, <1>5 DEF longer

LEMMA TraceBackInv == IInv /\ TraceBack => IInv'
  <1> SUFFICES ASSUME IInv, TraceBack PROVE IInv'
    OBVIOUS
  <1>1. /\ phase = "trace" /\ phase' = "trace" /\ path' = <<On(index)>> \o path
        /\ index' = cameFrom[index] /\ index # Cell(from)
        /\ UNCHANGED <<arguments, scratch, open, expanded>>
    BY DEF TraceBack, AtStart
  <1>2. index \in Plane /\ Visited(index)
    BY <1>1 DEF IInv, Traced
  <1>3. index' \in Plane /\ Visited(index') /\ LegalStep(On(index'), On(index))
    BY <1>1, <1>2 DEF IInv, Linked
  <1>4. On(index) \in Walkable /\ (path = <<>> => On(index) = to)
    BY <1>1, <1>3, StepsEndOnGround, GoalIsNotStart DEF IInv, TypeOK, Linked, Traced
  <1>5. /\ path' \in Seq(Walkable) /\ path' # <<>> /\ path'[1] = On(index)
        /\ \A k \in 1..(Len(path') - 1) : LegalStep(path'[k], path'[k + 1])
        /\ path'[Len(path')] = to
    <2>1. path \in Seq(Walkable) /\ (path # <<>> => LegalStep(On(index), path[1]) /\ IsChain(path))
      BY <1>1 DEF IInv, TypeOK, Traced
    <2> QED
      BY <1>1, <1>4, <2>1, ChainGrows DEF IsChain
  <1>6. TypeOK' /\ StampsArePast'
    BY <1>1, <1>3, <1>5 DEF IInv, TypeOK, StampsArePast, scratch, arguments
  <1>7. Linked'
    BY <1>1, LinkedStays DEF IInv
  <1>8. Traced'
    <2>1. stamp' = stamp /\ generation' = generation /\ from' = from /\ to' = to
      BY <1>1 DEF scratch, arguments
    <2> QED
      BY <1>1, <1>3, <1>5, <2>1 DEF Traced, IsChain, Visited, On
  <1>9. PathIsRoute'
    BY <1>1 DEF PathIsRoute
  <1> QED
    BY <1>6, <1>7, <1>8, <1>9 DEF IInv

LEMMA TraceEndInv == IInv /\ TraceEnd => IInv'
  <1> SUFFICES ASSUME IInv, TraceEnd PROVE IInv'
    OBVIOUS
  <1>1. phase = "trace" /\ phase' = "done" /\ index' = NoCell /\ index = Cell(from)
        /\ UNCHANGED <<arguments, scratch, open, expanded, path>>
    BY PathfindAssumption DEF TraceEnd, AtStart, IInv, Traced
  <1>2. TypeOK' /\ StampsArePast'
    BY <1>1 DEF IInv, TypeOK, StampsArePast, scratch, arguments
  <1>3. IsRoute(from, to, path)
    <2>1. On(index) = from /\ Cell(to) # index
      BY <1>1, GoalIsNotStart DEF IInv, TypeOK, Linked
    <2> QED
      BY <1>1, <2>1 DEF IInv, Traced, IsChain, IsRoute
  <1>4. (Linked /\ Traced /\ PathIsRoute)'
    BY <1>1, <1>3 DEF Linked, Traced, PathIsRoute, arguments
  <1> QED
    BY <1>2, <1>4 DEF IInv

LEMMA StutterInv == IInv /\ UNCHANGED vars => IInv'
  BY DEF IInv, TypeOK, StampsArePast, Linked, Traced, PathIsRoute, IsRoute, IsChain, Visited,
         On, Refused, Cell, vars, scratch, arguments

LEMMA NextInv == IInv /\ [Next]_vars => IInv'
  <1> SUFFICES ASSUME IInv, [Next]_vars PROVE IInv'
    OBVIOUS
  <1>1. ASSUME NEW r \in Requests, Find(r[1], r[2]) PROVE IInv'
    <2>1. r[1] \in Tiles /\ r[2] \in Positions
      BY PathfindAssumption
    <2> QED
      BY <1>1, <2>1, FindInv
  <1>2. CASE \E n \in open : Pop(n)
    BY <1>2, PopInv
  <1>3. CASE Exhausted \/ TraceBack \/ TraceEnd
    BY <1>3, ExhaustedInv, TraceBackInv, TraceEndInv
  <1>4. CASE UNCHANGED vars
    BY <1>4, StutterInv
  <1> QED
    BY <1>1, <1>2, <1>3, <1>4 DEF Next, Step

(* Every variable keeps its type: stamps stay within the generations, the  *)
(* budget is overrun by one at most, and a route consists of ground.       *)
THEOREM SearchTypeCorrect == Spec => []TypeOK
  <1>1. IInv => TypeOK
    BY DEF IInv
  <1> QED
    BY InitInv, NextInv, <1>1, PTL DEF Spec

(* Whatever the searches before it left in the scratch arrays, find        *)
(* answers with a chain of legal steps from its origin to its goal, or     *)
(* with none.  World takes this as RouteAssumption.                        *)
THEOREM RoutesAreLegal == Spec => []PathIsRoute
  <1>1. IInv => PathIsRoute
    BY DEF IInv
  <1> QED
    BY InitInv, NextInv, <1>1, PTL DEF Spec

----------------------------------------------------------------------------
(* Induction over numbers, and what a walk costs. *)

(* A set of naturals with 0 and every successor in it has them all: the    *)
(* library's well-foundedness of < on a set, where its induction theorems  *)
(* ask for an operator.                                                    *)
LEMMA Induction ==
    ASSUME NEW S, 0 \in S, \A n \in Nat : n \in S => n + 1 \in S
    PROVE  \A n \in Nat : n \in S
  <1> DEFINE Rest == Nat \ S
             Less == OpToRel(<, Nat)
  <1>1. SUFFICES ASSUME Rest # {} PROVE FALSE
    OBVIOUS
  <1>2. \E n \in Rest : \A m \in Rest : ~ (<<m, n>> \in Less)
    <2>1. IsWellFoundedOn(Less, Nat)
      BY NatLessThanWellFounded
    <2>2. Rest \subseteq Nat
      OBVIOUS
    <2> HIDE DEF Rest, Less
    <2> QED BY <1>1, <2>1, <2>2, WFMin
  <1> HIDE DEF Less
  <1>3. PICK n \in Rest : \A m \in Rest : ~ (<<m, n>> \in Less)
    BY <1>2
  <1>4. n \in Nat \ {0} /\ n - 1 \in Nat /\ n - 1 < n
    BY <1>3
  <1>5. <<n - 1, n>> \in Less
    BY <1>4 DEF Less, OpToRel
  <1>6. n - 1 \in S
    BY <1>3, <1>4, <1>5
  <1>7. (n - 1) + 1 \in S
    BY <1>4, <1>6
  <1> QED BY <1>3, <1>4, <1>7

(* Running sums exist. *)
LEMMA SumsExist ==
    ASSUME NEW c, NEW n \in Nat
    PROVE  \E s : s = [k \in 0..n |-> IF k = 0 THEN 0 ELSE s[k - 1] + c[k]]
  <1> DEFINE Good(m) == \E s : s = [k \in 0..m |-> IF k = 0 THEN 0 ELSE s[k - 1] + c[k]]
             All == {m \in Nat : Good(m)}
  <1>1. 0 \in All
    <2> DEFINE z == [k \in 0..0 |-> 0]
    <2>1. z = [k \in 0..0 |-> IF k = 0 THEN 0 ELSE z[k - 1] + c[k]]
      OBVIOUS
    <2>2. Good(0)
      BY <2>1
    <2> QED BY <2>2
  <1>2. ASSUME NEW m \in Nat, m \in All PROVE m + 1 \in All
    <2>1. PICK s : s = [k \in 0..m |-> IF k = 0 THEN 0 ELSE s[k - 1] + c[k]]
      BY <1>2
    <2> DEFINE t == [k \in 0..(m + 1) |-> IF k = m + 1 THEN s[m] + c[m + 1] ELSE s[k]]
    <2>2. ASSUME NEW k \in 0..(m + 1)
          PROVE  t[k] = IF k = 0 THEN 0 ELSE t[k - 1] + c[k]
      <3>1. CASE k = m + 1
        BY <3>1
      <3>2. CASE k # m + 1
        <4>1. k \in 0..m /\ t[k] = s[k]
          BY <3>2
        <4>2. s[k] = IF k = 0 THEN 0 ELSE s[k - 1] + c[k]
          BY <2>1, <4>1
        <4> QED BY <4>1, <4>2
      <3> QED BY <3>1, <3>2
    <2>3. t = [k \in 0..(m + 1) |-> IF k = 0 THEN 0 ELSE t[k - 1] + c[k]]
      <3>1. t = [k \in 0..(m + 1) |-> t[k]]
        OBVIOUS
      <3> HIDE DEF t
      <3> QED BY <2>2, <3>1
    <2>4. Good(m + 1)
      <3> HIDE DEF t
      <3> QED BY <2>3
    <2> QED BY <2>4
  <1>3. n \in All
    <2> HIDE DEF All
    <2> QED BY <1>1, <1>2, Induction
  <1> QED BY <1>3

Legs(walk) == [k \in Nat |-> StepCost(Cell(walk[Len(walk) - k]), Cell(walk[Len(walk) - k + 1]))]

(* Spent satisfies its recursive equation. *)
LEMMA SpentUnfolds ==
    ASSUME NEW walk, Len(walk) \in Nat \ {0}
    PROVE  /\ Spent(walk)[0] = 0
           /\ \A k \in 1..(Len(walk) - 1) :
                 Spent(walk)[k] = Spent(walk)[k - 1] +
                     StepCost(Cell(walk[Len(walk) - k]), Cell(walk[Len(walk) - k + 1]))
  <1> DEFINE n == Len(walk) - 1
             leg(k) == StepCost(Cell(walk[Len(walk) - k]), Cell(walk[Len(walk) - k + 1]))
  <1>0. n \in Nat
    OBVIOUS
  <1>1. PICK s : s = [k \in 0..n |-> IF k = 0 THEN 0 ELSE s[k - 1] + Legs(walk)[k]]
    <2> HIDE DEF n
    <2> QED BY <1>0, SumsExist
  <1>2. \A k \in 0..n : Legs(walk)[k] = leg(k)
    BY <1>0 DEF Legs
  <1> HIDE DEF leg, n
  <1>3. s = [k \in 0..n |-> IF k = 0 THEN 0 ELSE s[k - 1] + leg(k)]
    BY <1>1, <1>2
  <1>4. Spent(walk) = CHOOSE f : f = [k \in 0..n |-> IF k = 0 THEN 0 ELSE f[k - 1] + leg(k)]
    BY DEF Spent, leg, n
  <1>5. Spent(walk) = [k \in 0..n |-> IF k = 0 THEN 0 ELSE Spent(walk)[k - 1] + leg(k)]
    BY <1>3, <1>4
  <1>6. \A k \in 0..n : Spent(walk)[k] = IF k = 0 THEN 0 ELSE Spent(walk)[k - 1] + leg(k)
    BY <1>5
  <1>7. 0 \in 0..n /\ \A k \in 1..n : k \in 0..n /\ k # 0
    BY <1>0
  <1>8. Spent(walk)[0] = 0 /\ \A k \in 1..n : Spent(walk)[k] = Spent(walk)[k - 1] + leg(k)
    BY <1>6, <1>7
  <1> QED BY <1>8 DEF n, leg

----------------------------------------------------------------------------
(* The estimate: a step lowers it by no more than the step costs. *)

LEMMA StepCostNat ==
    \A a, b : StepCost(a, b) \in Nat
  BY PathfindAssumption DEF StepCost

LEMMA Products ==
    ASSUME NEW m \in Nat, NEW n \in Nat, NEW c \in Nat
    PROVE  /\ m <= n => m * c <= n * c
           /\ m <= n + 1 => m * c <= n * c + c
           /\ m * c \in Nat
  <1>1. (n + 1) * c = n * c + c
    OBVIOUS
  <1>2. \A i, j \in Nat : i <= j => i * c <= j * c
    <2> SUFFICES ASSUME NEW i \in Nat, NEW j \in Nat, i <= j PROVE i * c <= j * c
      OBVIOUS
    <2>1. PICK d \in Nat : j = i + d
      <3> WITNESS j - i \in Nat
      <3> QED OBVIOUS
    <2>2. (i + d) * c = i * c + d * c
      OBVIOUS
    <2>3. d * c >= 0 /\ i * c \in Int
      OBVIOUS
    <2> QED BY <2>1, <2>2, <2>3
  <1>3. n + 1 \in Nat
    OBVIOUS
  <1> QED BY <1>1, <1>2, <1>3

Smaller(a, b) == IF a < b THEN a ELSE b
Larger(a, b) == IF a > b THEN a ELSE b

(* The octile distance as a combination of the larger and the smaller of   *)
(* the two differences. *)
LEMMA HeuristicIs ==
    ASSUME NEW a, NEW b, a[1] \in Int, a[2] \in Int, b[1] \in Int, b[2] \in Int
    PROVE  LET dx == Abs(a[1] - b[1])
               dy == Abs(a[2] - b[2])
           IN  /\ dx \in Nat /\ dy \in Nat
               /\ Heuristic(a, b) =
                      Larger(dx, dy) * Cardinal + Smaller(dx, dy) * (Diagonal - Cardinal)
  <1> DEFINE dx == Abs(a[1] - b[1])
             dy == Abs(a[2] - b[2])
             s == Smaller(dx, dy)
             l == Larger(dx, dy)
  <1>1. dx \in Nat /\ dy \in Nat
    BY DEF Abs
  <1>2. Heuristic(a, b) = s * Diagonal + (l - s) * Cardinal
    BY DEF Heuristic, Smaller, Larger
  <1>3. s \in Nat /\ l \in Nat /\ Diagonal \in Nat /\ Cardinal \in Nat
    BY <1>1, PathfindAssumption DEF Smaller, Larger
  <1> HIDE DEF s, l
  <1>4. (l - s) * Cardinal = l * Cardinal - s * Cardinal
    BY <1>3
  <1>5. s * (Diagonal - Cardinal) = s * Diagonal - s * Cardinal
    BY <1>3
  <1>6. l * Cardinal \in Int /\ s * Cardinal \in Int /\ s * Diagonal \in Int
    BY <1>3
  <1>7. Heuristic(a, b) = l * Cardinal + s * (Diagonal - Cardinal)
    BY <1>2, <1>4, <1>5, <1>6
  <1> QED BY <1>1, <1>7 DEF s, l

(* Consistency: a step costs at least what it takes off the estimate.      *)
LEMMA HeuristicShrinks ==
    ASSUME NEW a \in Int \X Int, NEW b \in Int \X Int, NEW t \in Int \X Int,
           a[1] - b[1] \in -1..1, a[2] - b[2] \in -1..1, a # b
    PROVE  Heuristic(a, t) <= StepCost(a, b) + Heuristic(b, t)
  <1> DEFINE ax == Abs(a[1] - t[1])
             ay == Abs(a[2] - t[2])
             bx == Abs(b[1] - t[1])
             by == Abs(b[2] - t[2])
             E == Diagonal - Cardinal
  <1>1. ax \in Nat /\ ay \in Nat /\ bx \in Nat /\ by \in Nat
    BY DEF Abs
  <1>2. ax - bx \in -1..1 /\ ay - by \in -1..1
    BY DEF Abs
  <1>3. /\ a[1] = b[1] => ax = bx
        /\ a[2] = b[2] => ay = by
        /\ a[1] # b[1] \/ a[2] # b[2]
    OBVIOUS
  <1>4. Cardinal \in Nat /\ Diagonal \in Nat /\ E \in Nat /\ E <= Cardinal
    BY PathfindAssumption
  <1>5. Heuristic(a, t) = Larger(ax, ay) * Cardinal + Smaller(ax, ay) * E
    BY HeuristicIs
  <1>6. Heuristic(b, t) = Larger(bx, by) * Cardinal + Smaller(bx, by) * E
    BY HeuristicIs
  <1> DEFINE la == Larger(ax, ay)
             lb == Larger(bx, by)
             sa == Smaller(ax, ay)
             sb == Smaller(bx, by)
  <1> HIDE DEF ax, ay, bx, by
  <1>7. la \in Nat /\ lb \in Nat /\ sa \in Nat /\ sb \in Nat
    BY <1>1 DEF Larger, Smaller
  <1>8. /\ la <= lb + 1 /\ sa <= sb + 1
        /\ a[1] = b[1] \/ a[2] = b[2] => la <= lb \/ sa <= sb
    BY <1>1, <1>2, <1>3 DEF Larger, Smaller
  <1> DEFINE P == la * Cardinal
             Q == lb * Cardinal
             R == sa * E
             S == sb * E
  <1>9. /\ P \in Nat /\ Q \in Nat /\ R \in Nat /\ S \in Nat
        /\ P <= Q + Cardinal /\ R <= S + E
        /\ la <= lb => P <= Q
        /\ sa <= sb => R <= S
    <2> HIDE DEF la, lb, sa, sb, E
    <2> QED BY <1>4, <1>7, <1>8, Products
  <1>10. Heuristic(a, t) = P + R /\ Heuristic(b, t) = Q + S
    BY <1>5, <1>6
  <1> HIDE DEF P, Q, R, S, la, lb, sa, sb
  <1>11. CASE a[1] # b[1] /\ a[2] # b[2]
    <2>1. StepCost(a, b) = Cardinal + E
      BY <1>4, <1>11, PathfindAssumption DEF StepCost
    <2> HIDE DEF E
    <2> QED BY <1>4, <1>9, <1>10, <2>1
  <1>12. CASE a[1] = b[1] \/ a[2] = b[2]
    <2>1. StepCost(a, b) = Cardinal
      BY <1>12 DEF StepCost
    <2>2. P <= Q \/ R <= S
      BY <1>8, <1>9, <1>12
    <2> HIDE DEF E
    <2> QED BY <1>4, <1>9, <1>10, <2>1, <2>2
  <1> QED BY <1>11, <1>12

(* A step goes to one of the eight neighbours. *)
LEMMA StepIsShort ==
    ASSUME NEW a \in Positions, NEW b, LegalStep(a, b)
    PROVE  /\ b \in Positions /\ b.z = a.z /\ Cell(a) # Cell(b)
           /\ Cell(a) \in Int \X Int /\ Cell(b) \in Int \X Int
           /\ Cell(a)[1] - Cell(b)[1] \in -1..1
           /\ Cell(a)[2] - Cell(b)[2] \in -1..1
  <1>1. PICK d \in Directions : b = TileStep(a, d)
    BY DEF LegalStep, DirectionsBetween
  <1>2. /\ DirectionDelta[d][1] \in -1..1 /\ DirectionDelta[d][2] \in -1..1
        /\ DirectionDelta[d][1] # 0 \/ DirectionDelta[d][2] # 0
    <2>1. d \in {0, 1, 2, 3, 4, 5, 6, 7}
      BY DEF Directions
    <2> QED BY <2>1 DEF DirectionDelta, Directions
  <1>3. b = [a EXCEPT !.x = @ + DirectionDelta[d][1], !.y = @ + DirectionDelta[d][2]]
    BY <1>1 DEF TileStep
  <1> DEFINE u == DirectionDelta[d][1]
             v == DirectionDelta[d][2]
  <1> HIDE DEF u, v
  <1>4. b = [a EXCEPT !.x = @ + u, !.y = @ + v]
    BY <1>3 DEF u, v
  <1>5. u \in -1..1 /\ v \in -1..1 /\ (u # 0 \/ v # 0)
    BY <1>2 DEF u, v
  <1>6. a.x \in Int /\ a.y \in Int /\ a.z \in Int
    BY DEF Positions
  <1>7. a = [x |-> a.x, y |-> a.y, z |-> a.z]
    BY DEF Positions
  <1>8. b = [x |-> a.x + u, y |-> a.y + v, z |-> a.z]
    BY <1>4, <1>7
  <1>9. b.x = a.x + u /\ b.y = a.y + v /\ b.z = a.z
    BY <1>8
  <1>10. a.x + u \in Int /\ a.y + v \in Int
    BY <1>5, <1>6
  <1>11. b \in Positions
    BY <1>6, <1>8, <1>10 DEF Positions
  <1> QED BY <1>5, <1>6, <1>9, <1>11 DEF Cell

LEMMA SpentIsNat ==
    ASSUME NEW walk, Len(walk) \in Nat \ {0}
    PROVE  \A k \in 0..(Len(walk) - 1) : Spent(walk)[k] \in Nat
  <1> DEFINE Fine == {k \in Nat : k <= Len(walk) - 1 => Spent(walk)[k] \in Nat}
  <1>1. 0 \in Fine
    BY SpentUnfolds
  <1>2. ASSUME NEW k \in Nat, k \in Fine PROVE k + 1 \in Fine
    <2>1. SUFFICES ASSUME k + 1 <= Len(walk) - 1 PROVE Spent(walk)[k + 1] \in Nat
      OBVIOUS
    <2> DEFINE leg == StepCost(Cell(walk[Len(walk) - (k + 1)]), Cell(walk[Len(walk) - (k + 1) + 1]))
    <2>2. k + 1 \in 1..(Len(walk) - 1) /\ (k + 1) - 1 = k
      BY <2>1
    <2>3. Spent(walk)[k + 1] = Spent(walk)[k] + leg
      BY <2>2, SpentUnfolds
    <2>4. leg \in Nat
      BY StepCostNat
    <2>5. Spent(walk)[k] \in Nat
      BY <1>2, <2>1
    <2> HIDE DEF leg
    <2> QED BY <2>3, <2>4, <2>5
  <1>3. \A k \in Nat : k \in Fine
    <2> HIDE DEF Fine
    <2> QED BY <1>1, <1>2, Induction
  <1> QED BY <1>3

(* A step more at the beginning of a walk costs what that step costs. *)
LEMMA WalkGrows ==
    ASSUME NEW T, NEW walk \in Seq(T), walk # <<>>, NEW tile \in T
    PROVE  WalkCost(<<tile>> \o walk) = StepCost(Cell(tile), Cell(walk[1])) + WalkCost(walk)
  <1> DEFINE n == Len(walk)
             longer == <<tile>> \o walk
  <1>1. /\ n \in Nat \ {0} /\ Len(longer) = n + 1
        /\ longer[1] = tile
        /\ \A k \in 2..(n + 1) : longer[k] = walk[k - 1]
    OBVIOUS
  <1> DEFINE Same == {k \in Nat : k <= n - 1 => Spent(longer)[k] = Spent(walk)[k]}
  <1> HIDE DEF longer
  <1>2. 0 \in Same
    BY <1>1, SpentUnfolds
  <1>3. ASSUME NEW k \in Nat, k \in Same PROVE k + 1 \in Same
    <2>1. SUFFICES ASSUME k + 1 <= n - 1 PROVE Spent(longer)[k + 1] = Spent(walk)[k + 1]
      OBVIOUS
    <2>2. k + 1 \in 1..(n - 1) /\ (k + 1) - 1 = k /\ k + 1 \in 1..(Len(longer) - 1)
      BY <1>1, <2>1
    <2>3. Spent(walk)[k + 1] = Spent(walk)[k] +
              StepCost(Cell(walk[n - (k + 1)]), Cell(walk[n - (k + 1) + 1]))
      BY <1>1, <2>2, SpentUnfolds
    <2>4. Spent(longer)[k + 1] = Spent(longer)[k] +
              StepCost(Cell(longer[Len(longer) - (k + 1)]), Cell(longer[Len(longer) - (k + 1) + 1]))
      <3>1. Len(longer) \in Nat \ {0}
        BY <1>1
      <3> QED BY <2>2, <3>1, SpentUnfolds
    <2>5. longer[Len(longer) - (k + 1)] = walk[n - (k + 1)]
      <3>1. Len(longer) - (k + 1) \in 2..(n + 1) /\ Len(longer) - (k + 1) - 1 = n - (k + 1)
        BY <1>1, <2>1
      <3> QED BY <1>1, <3>1
    <2>6. longer[Len(longer) - (k + 1) + 1] = walk[n - (k + 1) + 1]
      <3>1. Len(longer) - (k + 1) + 1 \in 2..(n + 1)
            /\ (Len(longer) - (k + 1) + 1) - 1 = n - (k + 1) + 1
        BY <1>1, <2>1
      <3> QED BY <1>1, <3>1
    <2>7. Spent(longer)[k] = Spent(walk)[k]
      BY <1>3, <2>1
    <2> QED BY <2>3, <2>4, <2>5, <2>6, <2>7
  <1>4. n - 1 \in Same
    <2>1. \A k \in Nat : k \in Same
      <3> HIDE DEF Same
      <3> QED BY <1>2, <1>3, Induction
    <2> QED BY <1>1, <2>1
  <1>5. Spent(longer)[n - 1] = WalkCost(walk)
    BY <1>1, <1>4 DEF WalkCost
  <1>6. WalkCost(longer) = Spent(longer)[n - 1] + StepCost(Cell(longer[1]), Cell(longer[2]))
    <2>1. n \in 1..(Len(longer) - 1) /\ Len(longer) - 1 = n
          /\ Len(longer) - n = 1 /\ Len(longer) - n + 1 = 2
      BY <1>1
    <2>2. Spent(longer)[n] = Spent(longer)[n - 1] +
              StepCost(Cell(longer[Len(longer) - n]), Cell(longer[Len(longer) - n + 1]))
      BY <1>1, <2>1, SpentUnfolds
    <2> QED BY <2>1, <2>2 DEF WalkCost
  <1>7. longer[1] = tile /\ longer[2] = walk[1]
    BY <1>1
  <1>8. Spent(longer)[n - 1] \in Nat /\ StepCost(Cell(tile), Cell(walk[1])) \in Nat
    <2>1. Len(longer) \in Nat \ {0} /\ n - 1 \in 0..(Len(longer) - 1)
      BY <1>1
    <2> QED BY <2>1, SpentIsNat, StepCostNat
  <1> QED BY <1>5, <1>6, <1>7, <1>8 DEF longer

----------------------------------------------------------------------------
Entry(c) == [f |-> cost[c] + Estimate(c), cell |-> c]

(* What one step from c reaches has been reached for no more. *)
Settled(c) ==
    \A m \in Plane : LegalStep(On(c), On(m)) =>
        Visited(m) /\ cost[m] <= cost[c] + StepCost(c, m)

Rival(r) == r \in Seq(Walkable) /\ r # <<>> /\ IsRoute(from, to, r)

(* Costs only fall, along predecessors and in the heap; a tile is waiting  *)
(* with its cost in the heap, or done with, the goal excepted.             *)
Linkage ==
    phase # "done" =>
        \A c \in Plane \ {Cell(from)} :
            Visited(c) => cost[cameFrom[c]] + StepCost(cameFrom[c], c) <= cost[c]

Frontier ==
    phase = "search" =>
        /\ \A n \in open : n.f >= cost[n.cell] + Estimate(n.cell)
        /\ \A c \in Plane : Visited(c) => Entry(c) \in open \/ (c # Cell(to) /\ Settled(c))

Bounded ==
    phase = "trace" =>
        /\ cost[index] + WalkCost(<<On(index)>> \o path) <= cost[Cell(to)]
        /\ \A r : Rival(r) => cost[Cell(to)] <= WalkCost(<<from>> \o r)

Reckoned == Linkage /\ Frontier /\ Bounded

(* A route keeps to its floor and to ground. *)
LEMMA RouteStays ==
    ASSUME NEW a \in Tiles, NEW b, NEW r \in Seq(Walkable), r # <<>>, IsRoute(a, b, r)
    PROVE  /\ \A k \in 1..Len(r) : r[k] \in Walkable /\ r[k].z = a.z
           /\ b \in Walkable /\ b.z = a.z
  <1>1. /\ Len(r) \in Nat \ {0} /\ LegalStep(a, r[1]) /\ r[Len(r)] = b
        /\ \A k \in 1..(Len(r) - 1) : LegalStep(r[k], r[k + 1])
        /\ \A k \in 1..Len(r) : r[k] \in Walkable /\ r[k] \in Positions
    BY GeometryAssumption DEF IsRoute
  <1> DEFINE Level == {k \in Nat : k + 1 <= Len(r) => r[k + 1].z = a.z}
  <1>2. 0 \in Level
    BY <1>1, StepIsShort, GeometryAssumption
  <1>3. ASSUME NEW k \in Nat, k \in Level PROVE k + 1 \in Level
    <2>1. SUFFICES ASSUME (k + 1) + 1 <= Len(r) PROVE r[(k + 1) + 1].z = a.z
      OBVIOUS
    <2>2. k + 1 \in 1..(Len(r) - 1) /\ k + 1 \in 1..Len(r)
      BY <1>1, <2>1
    <2>3. LegalStep(r[k + 1], r[(k + 1) + 1]) /\ r[k + 1].z = a.z /\ r[k + 1] \in Positions
      BY <1>1, <1>3, <2>1, <2>2
    <2> QED BY <2>3, StepIsShort
  <1>4. \A k \in Nat : k \in Level
    <2> HIDE DEF Level
    <2> QED BY <1>2, <1>3, Induction
  <1>5. ASSUME NEW k \in 1..Len(r) PROVE r[k].z = a.z
    <2>1. k - 1 \in Nat /\ (k - 1) + 1 = k /\ k <= Len(r)
      BY <1>1, <1>5
    <2> QED BY <1>4, <2>1
  <1>6. Len(r) \in 1..Len(r)
    BY <1>1
  <1> QED BY <1>1, <1>5, <1>6

(* The walk of a rival: cells of the plane, one legal step after another.  *)
LEMMA RivalWalk ==
    ASSUME from \in Tiles, NEW r, Rival(r), NEW walk, walk = <<from>> \o r
    PROVE  /\ Len(walk) \in Nat \ {0, 1}
           /\ walk[1] = from /\ walk[Len(walk)] = to
           /\ \A k \in 1..(Len(walk) - 1) : LegalStep(walk[k], walk[k + 1])
           /\ \A k \in 1..Len(walk) :
                 walk[k] \in Positions /\ Cell(walk[k]) \in Plane /\ On(Cell(walk[k])) = walk[k]
  <1>1. /\ r \in Seq(Walkable) /\ r # <<>> /\ Len(r) \in Nat \ {0}
        /\ LegalStep(from, r[1])
        /\ \A k \in 1..(Len(r) - 1) : LegalStep(r[k], r[k + 1])
        /\ r[Len(r)] = to
    BY DEF Rival, IsRoute
  <1>2. /\ Len(walk) = Len(r) + 1 /\ walk[1] = from
        /\ \A k \in 2..Len(walk) : walk[k] = r[k - 1]
    BY <1>1
  <1>3. walk[Len(walk)] = to
    BY <1>1, <1>2
  <1>4. ASSUME NEW k \in 1..(Len(walk) - 1) PROVE LegalStep(walk[k], walk[k + 1])
    <2>1. CASE k = 1
      <3>1. walk[k] = from /\ walk[k + 1] = r[1]
        BY <1>1, <1>2, <2>1
      <3> QED BY <1>1, <3>1
    <2>2. CASE k > 1
      <3>1. walk[k] = r[k - 1] /\ walk[k + 1] = r[(k - 1) + 1] /\ k - 1 \in 1..(Len(r) - 1)
        BY <1>1, <1>2, <1>4, <2>2
      <3> QED BY <1>1, <3>1
    <2> QED BY <1>4, <2>1, <2>2
  <1>8. ASSUME NEW k \in 1..Len(walk)
        PROVE  walk[k] \in Positions /\ Cell(walk[k]) \in Plane /\ On(Cell(walk[k])) = walk[k]
    <2>1. walk[k] \in Tiles /\ walk[k].z = from.z
      <3>1. CASE k = 1
        BY <1>2, <3>1
      <3>2. CASE k > 1
        <4>1. k \in 2..Len(walk) /\ k - 1 \in 1..Len(r)
          BY <1>1, <1>2, <1>8, <3>2
        <4>2. walk[k] = r[k - 1] /\ r[k - 1] \in Walkable /\ r[k - 1].z = from.z
          BY <1>2, <4>1, RouteStays DEF Rival
        <4> QED BY <4>2, GeometryAssumption
      <3> QED BY <1>8, <3>1, <3>2
    <2> QED BY <2>1, GeometryAssumption, CellsArePairs, OnCell
  <1> QED BY <1>1, <1>2, <1>3, <1>4, <1>8

LEMMA GoalEstimate ==
    ASSUME to \in Positions
    PROVE  Estimate(Cell(to)) = 0
  <1>1. Cell(to)[1] \in Int /\ Cell(to)[2] \in Int
    BY CellsArePairs
  <1>2. \A i \in Int : Abs(i - i) = 0
    BY DEF Abs
  <1>3. Heuristic(Cell(to), Cell(to)) =
            Larger(0, 0) * Cardinal + Smaller(0, 0) * (Diagonal - Cardinal)
    BY <1>1, <1>2, HeuristicIs
  <1>4. Larger(0, 0) = 0 /\ Smaller(0, 0) = 0
    BY DEF Larger, Smaller
  <1>5. Cardinal \in Int /\ Diagonal - Cardinal \in Int
    BY PathfindAssumption
  <1> QED BY <1>3, <1>4, <1>5 DEF Estimate

(* The estimate is no more than what is left of any rival. *)
LEMMA Admissible ==
    ASSUME from \in Tiles, to \in Positions, NEW r, Rival(r), NEW walk, walk = <<from>> \o r
    PROVE  \A k \in 0..(Len(walk) - 1) : Estimate(Cell(walk[Len(walk) - k])) <= Spent(walk)[k]
  <1> DEFINE n == Len(walk)
             Below == {k \in Nat : k <= n - 1 => Estimate(Cell(walk[n - k])) <= Spent(walk)[k]}
  <1>1. /\ n \in Nat \ {0, 1} /\ walk[n] = to
        /\ \A k \in 1..(n - 1) : LegalStep(walk[k], walk[k + 1])
        /\ \A k \in 1..n : walk[k] \in Positions
    BY RivalWalk
  <1>2. 0 \in Below
    <2>1. n - 0 = n /\ Estimate(Cell(to)) = 0
      BY <1>1, GoalEstimate
    <2>2. Spent(walk)[0] = 0
      BY <1>1, SpentUnfolds
    <2> QED BY <1>1, <2>1, <2>2
  <1>3. ASSUME NEW k \in Nat, k \in Below PROVE k + 1 \in Below
    <2>1. SUFFICES ASSUME k + 1 <= n - 1
                   PROVE  Estimate(Cell(walk[n - (k + 1)])) <= Spent(walk)[k + 1]
      OBVIOUS
    <2> DEFINE a == walk[n - (k + 1)]
               b == walk[n - (k + 1) + 1]
    <2>2. n - (k + 1) \in 1..(n - 1) /\ n - (k + 1) + 1 = n - k /\ k + 1 \in 1..(n - 1)
      BY <1>1, <2>1
    <2>3. a \in Positions /\ LegalStep(a, b)
      <3> HIDE DEF n
      <3>1. n - (k + 1) \in 1..n /\ n - (k + 1) \in 1..(n - 1)
        BY <1>1, <2>2
      <3> QED BY <1>1, <3>1
    <2>4. Estimate(Cell(a)) <= StepCost(Cell(a), Cell(b)) + Estimate(Cell(b))
      <3>1. Cell(to) \in Int \X Int
        BY DEF Positions, Cell
      <3> QED BY <2>3, <3>1, StepIsShort, HeuristicShrinks DEF Estimate
    <2>5. Spent(walk)[k + 1] = Spent(walk)[k] + StepCost(Cell(a), Cell(b))
      <3>1. (k + 1) - 1 = k
        OBVIOUS
      <3> QED BY <1>1, <2>2, <3>1, SpentUnfolds
    <2>6. Estimate(Cell(b)) <= Spent(walk)[k]
      BY <1>3, <2>1, <2>2
    <2>7. /\ Estimate(Cell(a)) \in Int /\ Estimate(Cell(b)) \in Int
          /\ Spent(walk)[k] \in Int /\ StepCost(Cell(a), Cell(b)) \in Int
      <3>1. Estimate(Cell(a)) \in Nat /\ Estimate(Cell(b)) \in Nat
        <4>1. b \in Positions
          BY <2>3, StepIsShort
        <4> QED BY <2>3, <4>1, CellsArePairs, HeuristicNat DEF Estimate
      <3>2. k \in 0..(n - 1)
        BY <1>1, <2>1
      <3>3. Spent(walk)[k] \in Nat
        BY <1>1, <3>2, SpentIsNat
      <3>4. StepCost(Cell(a), Cell(b)) \in Nat
        BY StepCostNat
      <3> HIDE DEF a, b
      <3> QED BY <3>1, <3>3, <3>4
    <2> HIDE DEF a, b
    <2>8. Estimate(Cell(a)) <= Spent(walk)[k + 1]
      BY <2>4, <2>5, <2>6, <2>7
    <2> QED BY <2>8 DEF a
  <1>4. \A k \in Nat : k \in Below
    <2> HIDE DEF Below
    <2> QED BY <1>2, <1>3, Induction
  <1> QED BY <1>1, <1>4

(* Somewhere along every rival the search is waiting, at no more than the  *)
(* rival's cost. *)
LEMMA RivalIsOpen ==
    ASSUME IInv, Reckoned, phase = "search", NEW r, Rival(r)
    PROVE  \E n \in open : n.f <= WalkCost(<<from>> \o r)
  <1> DEFINE walk == <<from>> \o r
             n == Len(walk)
             here(k) == Cell(walk[k + 1])
             left(k) == Spent(walk)[n - (k + 1)]
  <1>1. from \in Tiles /\ to \in Positions
    BY DEF IInv, TypeOK
  <1>2. /\ n \in Nat \ {0, 1} /\ walk[1] = from /\ walk[n] = to
        /\ \A k \in 1..(n - 1) : LegalStep(walk[k], walk[k + 1])
        /\ \A k \in 1..n :
              walk[k] \in Positions /\ Cell(walk[k]) \in Plane /\ On(Cell(walk[k])) = walk[k]
    <2>1. \E w : w = walk
      OBVIOUS
    <2> HIDE DEF walk
    <2> QED BY <1>1, <2>1, RivalWalk DEF walk
  <1>3. SUFFICES ASSUME \A m \in open : ~ (m.f <= WalkCost(walk)) PROVE FALSE
    OBVIOUS
  <1> HIDE DEF walk
  <1> DEFINE Cheap == {k \in Nat : k <= n - 1 =>
                          Visited(here(k)) /\ cost[here(k)] + left(k) <= WalkCost(walk)}
  <1>4. \A k \in 0..(n - 1) :
            /\ here(k) \in Plane /\ cost[here(k)] \in Nat /\ left(k) \in Nat
            /\ Estimate(here(k)) \in Nat /\ Estimate(here(k)) <= left(k)
    <2> SUFFICES ASSUME NEW k \in 0..(n - 1)
                 PROVE  /\ here(k) \in Plane /\ cost[here(k)] \in Nat /\ left(k) \in Nat
                        /\ Estimate(here(k)) \in Nat /\ Estimate(here(k)) <= left(k)
      OBVIOUS
    <2>1. k + 1 \in 1..n /\ n - (k + 1) \in 0..(n - 1) /\ n - (n - (k + 1)) = k + 1
      BY <1>2
    <2>2. here(k) \in Plane
      BY <1>2, <2>1
    <2>3. cost[here(k)] \in Nat
      BY <2>2 DEF IInv, TypeOK
    <2>4. left(k) \in Nat
      BY <1>2, <2>1, SpentIsNat
    <2>5. Estimate(here(k)) \in Nat
      BY <1>1, <2>2, CellsArePairs, HeuristicNat DEF Estimate
    <2>6. Estimate(here(k)) <= left(k)
      BY <1>1, <2>1, Admissible DEF walk
    <2> QED BY <2>2, <2>3, <2>4, <2>5, <2>6
  <1>5. WalkCost(walk) \in Nat /\ WalkCost(walk) = left(0)
    <2>1. n - (0 + 1) = n - 1 /\ n - 1 \in 0..(n - 1)
      BY <1>2
    <2> QED BY <1>2, <2>1, SpentIsNat DEF WalkCost
  <1>6. 0 \in Cheap
    <2>1. here(0) = Cell(from)
      BY <1>2
    <2>2. Visited(Cell(from)) /\ cost[Cell(from)] = 0
      BY DEF IInv, Linked
    <2> QED BY <1>5, <2>1, <2>2
  <1>7. ASSUME NEW k \in 0..(n - 1), k \in Cheap PROVE Entry(here(k)) \notin open
    <2>1. cost[here(k)] + left(k) <= WalkCost(walk)
      BY <1>7, <1>2
    <2>2. cost[here(k)] + Estimate(here(k)) <= WalkCost(walk)
      <3> HIDE DEF here, left
      <3> QED BY <1>4, <1>5, <2>1
    <2> QED BY <1>3, <2>2 DEF Entry
  <1>8. ASSUME NEW k \in Nat, k \in Cheap PROVE k + 1 \in Cheap
    <2>1. SUFFICES ASSUME k + 1 <= n - 1
                   PROVE  Visited(here(k + 1)) /\ cost[here(k + 1)] + left(k + 1) <= WalkCost(walk)
      OBVIOUS
    <2>2. k \in 0..(n - 1) /\ k + 1 \in 0..(n - 1) /\ k + 1 \in 1..(n - 1) /\ k + 1 \in 1..n
          /\ (k + 1) + 1 \in 1..n
      BY <1>2, <2>1
    <2>3. Visited(here(k)) /\ cost[here(k)] + left(k) <= WalkCost(walk)
      BY <1>8, <2>2
    <2>4. Settled(here(k))
      BY <1>4, <1>7, <1>8, <2>2, <2>3 DEF Reckoned, Frontier
    <2>5. LegalStep(On(here(k)), On(here(k + 1))) /\ here(k + 1) \in Plane
      BY <1>2, <2>2
    <2>6. /\ Visited(here(k + 1))
          /\ cost[here(k + 1)] <= cost[here(k)] + StepCost(here(k), here(k + 1))
      <3> HIDE DEF here
      <3> QED BY <2>4, <2>5 DEF Settled
    <2>7. left(k) = left(k + 1) + StepCost(here(k), here(k + 1))
      <3>1. n - (k + 1) \in 1..(n - 1)
        BY <1>2, <2>1
      <3>2. n - (n - (k + 1)) = k + 1 /\ (n - (k + 1)) - 1 = n - ((k + 1) + 1)
        BY <1>2
      <3>3. Spent(walk)[n - (k + 1)] = Spent(walk)[(n - (k + 1)) - 1] +
               StepCost(Cell(walk[n - (n - (k + 1))]), Cell(walk[n - (n - (k + 1)) + 1]))
        BY <1>2, <3>1, SpentUnfolds
      <3> QED BY <3>2, <3>3
    <2>8. StepCost(here(k), here(k + 1)) \in Nat
      BY StepCostNat
    <2>9. /\ cost[here(k)] \in Nat /\ left(k) \in Nat
          /\ cost[here(k + 1)] \in Nat /\ left(k + 1) \in Nat
      BY <1>4, <2>2
    <2> HIDE DEF here, left
    <2> QED BY <1>5, <2>3, <2>6, <2>7, <2>8, <2>9
  <1>9. n - 1 \in Cheap
    <2>1. \A k \in Nat : k \in Cheap
      <3> HIDE DEF Cheap
      <3> QED BY <1>6, <1>8, Induction
    <2> QED BY <1>2, <2>1
  <1>10. here(n - 1) = Cell(to)
    BY <1>2
  <1>11. Visited(Cell(to)) /\ n - 1 \in 0..(n - 1) /\ Cell(to) \in Plane
    BY <1>2, <1>9, <1>10
  <1>12. Entry(Cell(to)) \in open
    BY <1>11 DEF Reckoned, Frontier
  <1>13. Entry(Cell(to)) \notin open
    BY <1>7, <1>9, <1>10, <1>11
  <1> QED BY <1>12, <1>13

(* Within its budget a search ends with a route no rival undercuts, or     *)
(* there are no rivals. *)
BestAnswer ==
    phase = "done" /\ expanded <= MaxNodes /\ from # to =>
        \A r : Rival(r) =>
            path # <<>> /\ WalkCost(<<from>> \o path) <= WalkCost(<<from>> \o r)

(* The inductive invariant of the second theorem, on top of IInv. *)
OInv == Reckoned /\ BestAnswer

LEMMA CellOn ==
    ASSUME from \in Tiles
    PROVE  \A c \in Plane : On(c) \in Positions /\ Cell(On(c)) = c
  BY GeometryAssumption DEF Plane, Cell, On, Positions

LEMMA WalkCostNat ==
    ASSUME NEW walk, Len(walk) \in Nat \ {0}
    PROVE  WalkCost(walk) \in Nat
  <1>1. Len(walk) - 1 \in 0..(Len(walk) - 1)
    OBVIOUS
  <1> QED BY <1>1, SpentIsNat DEF WalkCost

LEMMA EstimateNat ==
    ASSUME to \in Positions
    PROVE  \A c \in Plane : Estimate(c) \in Nat
  BY CellsArePairs, HeuristicNat DEF Estimate

LEMMA InitOptimal == Init => OInv
  BY DEF Init, OInv, Reckoned, Linkage, Frontier, Bounded, BestAnswer

LEMMA FindOptimal ==
    ASSUME IInv, NEW a \in Tiles, NEW b \in Positions, Find(a, b), OInv
    PROVE  OInv'
  <1>1. CASE Refused(a, b)
    <2>1. phase' = "done" /\ from' = a /\ to' = b
      BY <1>1 DEF Find
    <2>2. ASSUME a # b, NEW r, Rival(r)' PROVE FALSE
      <3>1. r \in Seq(Walkable) /\ r # <<>> /\ IsRoute(a, b, r)
        BY <2>1, <2>2 DEF Rival
      <3>2. b \in Walkable /\ b.z = a.z
        BY <3>1, RouteStays
      <3> QED BY <1>1, <2>2, <3>2 DEF Refused
    <2>3. BestAnswer'
      BY <2>1, <2>2 DEF BestAnswer
    <2>4. Reckoned'
      BY <2>1 DEF Reckoned, Linkage, Frontier, Bounded
    <2> QED BY <2>3, <2>4 DEF OInv
  <1>2. CASE ~ Refused(a, b)
    <2>1. /\ phase' = "search" /\ from' = a /\ to' = b
          /\ generation' = Prepared.generation
          /\ stamp' = [Prepared.stamp EXCEPT ![Cell(a)] = Prepared.generation]
          /\ cost' = [cost EXCEPT ![Cell(a)] = 0]
          /\ open' = {[f |-> Heuristic(Cell(a), Cell(b)), cell |-> Cell(a)]}
      BY <1>2 DEF Find, Start
    <2>2. /\ Cell(a) \in Plane /\ Heuristic(Cell(a), Cell(b)) \in Nat
          /\ cost'[Cell(a)] = 0
      BY <2>1, CellsArePairs, HeuristicNat DEF IInv, TypeOK
    <2>3. \A c \in Plane : Visited(c)' => c = Cell(a)
      <3>1. TypeOK /\ StampsArePast
        BY DEF IInv
      <3>2. /\ Prepared.stamp \in [Plane -> 0..(Generations - 1)]
            /\ \A c \in Plane : Prepared.stamp[c] < Prepared.generation
            /\ Prepared.generation \in 1..(Generations - 1)
        BY <3>1, PreparedIsFresh
      <3>3. \A c \in Plane : c # Cell(a) => stamp'[c] = Prepared.stamp[c]
        BY <2>1, <3>2
      <3>4. \A i \in 0..(Generations - 1) : ~ (i < i)
        BY PathfindAssumption
      <3> QED BY <2>1, <3>2, <3>3, <3>4, PathfindAssumption DEF Visited
    <2>4. Linkage'
      BY <2>1, <2>3 DEF Linkage
    <2>5. Entry(Cell(a))' = [f |-> Heuristic(Cell(a), Cell(b)), cell |-> Cell(a)]
      BY <2>1, <2>2 DEF Entry, Estimate
    <2>6. Frontier'
      <3>1. \A n \in open' : n.f = cost'[n.cell] + Estimate(n.cell)' /\ n.f \in Nat
        BY <2>1, <2>2 DEF Estimate
      <3>2. \A c \in Plane : Visited(c)' => Entry(c)' \in open'
        BY <2>1, <2>3, <2>5
      <3> QED BY <3>1, <3>2 DEF Frontier
    <2>7. Bounded' /\ BestAnswer'
      BY <2>1 DEF Bounded, BestAnswer
    <2> QED BY <2>4, <2>6, <2>7 DEF OInv, Reckoned
  <1> QED BY <1>1, <1>2

(* An up-to-date entry is replaced by entries for the neighbours it
   improves: the tile itself is settled, and every other one keeps what it
   had or gets better. *)
LEMMA ExpandOptimal ==
    ASSUME IInv, Reckoned, phase = "search", NEW n \in open, Expand(n), UNCHANGED arguments,
           n.cell # Cell(to), ~ Stale(n)
    PROVE  OInv'
  <1> DEFINE c == n.cell
             better == Improved(c)
  <1>1. /\ stamp' = [m \in Plane |-> IF m \in better THEN generation ELSE stamp[m]]
        /\ cost' = [m \in Plane |-> IF m \in better THEN cost[c] + StepCost(c, m) ELSE cost[m]]
        /\ cameFrom' = [m \in Plane |-> IF m \in better THEN c ELSE cameFrom[m]]
        /\ open' = (open \ {n}) \cup
                       {[f |-> cost[c] + StepCost(c, m) + Estimate(m), cell |-> m] : m \in better}
        /\ phase' = "search" /\ generation' = generation
        /\ from' = from /\ to' = to
    BY DEF Expand, arguments
  <1>2. /\ c \in Plane /\ Visited(c) /\ better \subseteq Plane
        /\ \A m \in Plane : cost[m] \in Nat /\ Estimate(m) \in Nat
        /\ \A p, m \in Plane : StepCost(p, m) \in Nat
        /\ n.f \in Nat /\ n = [f |-> n.f, cell |-> n.cell]
        /\ \A m \in open : m.f \in Nat /\ m.cell \in Plane /\ Visited(m.cell)
    BY EstimateNat, StepCostNat DEF IInv, TypeOK, Linked, Improved
  <1>3. n = Entry(c)
    <2>1. n.f >= cost[c] + Estimate(c) /\ ~ (n.f > cost[c] + Estimate(c))
      BY DEF Reckoned, Frontier, Stale
    <2>2. n.f = cost[c] + Estimate(c)
      <3> DEFINE e == Estimate(c)
                 d == cost[c]
                 f == n.f
      <3>1. e \in Nat /\ d \in Nat /\ f \in Nat /\ f >= d + e /\ ~ (f > d + e)
        BY <1>2, <2>1
      <3> HIDE DEF e, d, f
      <3>2. f = d + e
        BY <3>1
      <3> QED BY <3>2 DEF e, d, f
    <2> QED BY <1>2, <2>2 DEF Entry
  <1>4. c \notin better
    <2>1. SUFFICES ASSUME c \in better PROVE FALSE
      OBVIOUS
    <2>2. LegalStep(On(c), On(c)) /\ On(c) \in Positions
      BY <1>2, <2>1, CellOn DEF Improved, IInv, TypeOK
    <2> QED BY <2>2, StepIsShort
  <1>5. \A m : On(m)' = On(m) /\ Estimate(m)' = Estimate(m)
    BY <1>1 DEF On, Estimate
  <1>6. \A m \in Plane : Visited(m)' <=> Visited(m) \/ m \in better
    BY <1>1 DEF Visited
  <1>7. /\ \A m \in better : cost'[m] = cost[c] + StepCost(c, m) /\ cameFrom'[m] = c
        /\ \A m \in Plane \ better : cost'[m] = cost[m] /\ cameFrom'[m] = cameFrom[m]
        /\ cost'[c] = cost[c]
    BY <1>1, <1>2, <1>4
  <1>8. \A m \in Plane : cost'[m] \in Nat /\ (Visited(m) => cost'[m] <= cost[m])
    <2> SUFFICES ASSUME NEW m \in Plane PROVE cost'[m] \in Nat /\ (Visited(m) => cost'[m] <= cost[m])
      OBVIOUS
    <2>1. CASE m \in better
      <3>1. Visited(m) => cost[c] + StepCost(c, m) < cost[m]
        BY <2>1 DEF Improved
      <3>2. cost[c] \in Nat /\ StepCost(c, m) \in Nat /\ cost[m] \in Nat
        BY <1>2
      <3> QED BY <1>7, <2>1, <3>1, <3>2
    <2>2. CASE m \notin better
      BY <1>2, <1>7, <2>2
    <2> QED BY <2>1, <2>2
  <1>9. \A m \in Plane : LegalStep(On(c), On(m)) =>
            Visited(m)' /\ cost'[m] <= cost[c] + StepCost(c, m)
    <2> SUFFICES ASSUME NEW m \in Plane, LegalStep(On(c), On(m))
                 PROVE  Visited(m)' /\ cost'[m] <= cost[c] + StepCost(c, m)
      OBVIOUS
    <2>1. cost[c] \in Nat /\ StepCost(c, m) \in Nat /\ cost[m] \in Nat
      BY <1>2
    <2>2. CASE m \in better
      BY <1>6, <1>7, <2>1, <2>2
    <2>3. CASE m \notin better
      <3>1. Visited(m) /\ ~ (cost[c] + StepCost(c, m) < cost[m])
        BY <2>3 DEF Improved
      <3> QED BY <1>6, <1>7, <2>1, <2>3, <3>1
    <2> QED BY <2>2, <2>3
  <1> HIDE DEF better
  <1>10. Linkage'
    <2> SUFFICES ASSUME NEW m \in Plane, m # Cell(from), Visited(m)'
                 PROVE  cost'[cameFrom'[m]] + StepCost(cameFrom'[m], m) <= cost'[m]
      BY <1>1 DEF Linkage
    <2>1. CASE m \in better
      <3>1. cost[c] \in Nat /\ StepCost(c, m) \in Nat
        BY <1>2
      <3> QED BY <1>7, <2>1, <3>1
    <2>2. CASE m \notin better
      <3> DEFINE p == cameFrom[m]
      <3>1. Visited(m) /\ cameFrom'[m] = p /\ cost'[m] = cost[m]
        BY <1>6, <1>7, <2>2
      <3>2. p \in Plane /\ Visited(p)
        BY <3>1 DEF IInv, Linked
      <3>3. cost[p] + StepCost(p, m) <= cost[m]
        BY <3>1 DEF Reckoned, Linkage
      <3>4. cost'[p] \in Nat /\ cost[p] \in Nat /\ cost[m] \in Nat /\ StepCost(p, m) \in Nat
            /\ cost'[p] <= cost[p]
        BY <1>2, <1>8, <3>2
      <3> HIDE DEF p
      <3>5. cost'[p] + StepCost(p, m) <= cost[m]
        BY <3>3, <3>4
      <3> QED BY <3>1, <3>5
    <2> QED BY <2>1, <2>2
  <1>11. ASSUME NEW k \in open' PROVE k.f >= cost'[k.cell] + Estimate(k.cell)
    <2>1. CASE k \in open
      <3> DEFINE d == k.cell
      <3>1. k.f \in Nat /\ d \in Plane /\ Visited(d) /\ k.f >= cost[d] + Estimate(d)
        BY <1>2, <2>1 DEF Reckoned, Frontier
      <3>2. cost'[d] \in Nat /\ cost[d] \in Nat /\ Estimate(d) \in Nat /\ cost'[d] <= cost[d]
        BY <1>2, <1>8, <3>1
      <3> HIDE DEF d
      <3>3. k.f >= cost'[d] + Estimate(d)
        BY <3>1, <3>2
      <3> QED BY <3>3 DEF d
    <2>2. CASE k \notin open
      <3>1. PICK m \in better : k = [f |-> cost[c] + StepCost(c, m) + Estimate(m), cell |-> m]
        BY <1>1, <2>2
      <3>2. k.f = cost'[m] + Estimate(m) /\ k.cell = m /\ cost'[m] \in Nat /\ Estimate(m) \in Nat
        BY <1>2, <1>7, <1>8, <3>1
      <3> QED BY <3>2
    <2> QED BY <2>1, <2>2
  <1>12. ASSUME NEW m \in Plane, Visited(m)'
         PROVE  Entry(m)' \in open' \/ (m # Cell(to) /\ Settled(m)')
    <2>1. CASE m \in better
      <3>1. Entry(m)' = [f |-> cost[c] + StepCost(c, m) + Estimate(m), cell |-> m]
        BY <1>5, <1>7, <2>1 DEF Entry
      <3> QED BY <1>1, <2>1, <3>1
    <2>2. CASE m = c
      BY <1>5, <1>7, <1>9, <2>2 DEF Settled
    <2>3. CASE m \notin better /\ m # c
      <3>1. Visited(m) /\ cost'[m] = cost[m]
        BY <1>6, <1>7, <1>12, <2>3
      <3>2. CASE Entry(m) \in open
        <4>1. Entry(m)' = Entry(m) /\ Entry(m) # n
          BY <1>5, <2>3, <3>1 DEF Entry
        <4> QED BY <1>1, <3>2, <4>1
      <3>3. CASE m # Cell(to) /\ Settled(m)
        <4>1. ASSUME NEW k \in Plane, LegalStep(On(m), On(k))
              PROVE  Visited(k)' /\ cost'[k] <= cost'[m] + StepCost(m, k)
          <5>1. Visited(k) /\ cost[k] <= cost[m] + StepCost(m, k)
            BY <3>3, <4>1 DEF Settled
          <5>2. cost'[k] \in Nat /\ cost[k] \in Nat /\ cost[m] \in Nat /\ StepCost(m, k) \in Nat
                /\ cost'[k] <= cost[k]
            BY <1>2, <1>8, <5>1
          <5>3. cost'[k] <= cost[m] + StepCost(m, k)
            BY <5>1, <5>2
          <5> QED BY <1>6, <3>1, <5>1, <5>3
        <4>2. Settled(m)'
          BY <1>5, <4>1 DEF Settled
        <4> QED BY <3>3, <4>2
      <3> QED BY <3>1, <3>2, <3>3 DEF Reckoned, Frontier
    <2> QED BY <2>1, <2>2, <2>3
  <1>13. Frontier'
    <2>1. Cell(to') = Cell(to)
      BY <1>1
    <2> QED BY <1>5, <1>11, <1>12, <2>1 DEF Frontier
  <1>14. Bounded' /\ BestAnswer'
    BY <1>1 DEF Bounded, BestAnswer
  <1> QED BY <1>10, <1>13, <1>14 DEF OInv, Reckoned

(* The goal on top of the heap: every rival still has a tile waiting below,
   at no more than the rival's cost. *)
LEMMA PopOptimal ==
    ASSUME IInv, NEW n \in open, Pop(n), OInv
    PROVE  OInv'
  <1>1. /\ phase = "search" /\ IsTop(n) /\ n.cell \in Plane /\ Visited(n.cell)
        /\ from' = from /\ to' = to /\ path' = path /\ path = <<>> /\ expanded <= MaxNodes
        /\ UNCHANGED arguments
        /\ \A c \in Plane : cost[c] \in Nat /\ Estimate(c) \in Nat
        /\ \A m \in open : m.f \in Nat
        /\ to \in Positions /\ from \in Tiles
    BY EstimateNat DEF Pop, IInv, TypeOK, Linked, Traced, arguments
  <1>2. Reckoned
    BY DEF OInv
  <1>3. CASE n.cell = Cell(to) /\ phase' = "trace" /\ index' = n.cell /\ UNCHANGED scratch
    <2>1. Linkage' /\ Frontier' /\ BestAnswer'
      BY <1>1, <1>2, <1>3 DEF Reckoned, Linkage, Frontier, BestAnswer, Visited, scratch
    <2> DEFINE alone == <<On(Cell(to))>> \o <<>>
    <2>2. WalkCost(alone) = 0
      <3>1. Len(alone) = 1
        OBVIOUS
      <3> HIDE DEF alone
      <3>2. Len(alone) - 1 = 0 /\ Len(alone) \in Nat \ {0}
        BY <3>1
      <3>3. Spent(alone)[0] = 0
        BY <3>2, SpentUnfolds
      <3> QED BY <3>2, <3>3 DEF WalkCost
    <2>3. ASSUME NEW r, Rival(r) PROVE cost[Cell(to)] <= WalkCost(<<from>> \o r)
      <3> DEFINE w == WalkCost(<<from>> \o r)
                 d == cost[Cell(to)]
      <3>1. PICK m \in open : m.f <= w
        BY <1>1, <1>2, <2>3, RivalIsOpen
      <3>2. n.f <= m.f
        BY <1>1 DEF IsTop
      <3>3. n.f >= d /\ d \in Nat
        <4>1. n.f >= d + Estimate(Cell(to)) /\ Estimate(Cell(to)) = 0
          BY <1>1, <1>2, <1>3, GoalEstimate DEF Reckoned, Frontier
        <4> QED BY <1>1, <1>3, <4>1
      <3>4. w \in Nat
        <4>1. r \in Seq(Walkable)
          BY <2>3 DEF Rival
        <4>2. Len(<<from>> \o r) \in Nat \ {0}
          BY <4>1
        <4> QED BY <4>2, WalkCostNat
      <3>5. n.f \in Nat /\ m.f \in Nat
        BY <1>1
      <3> HIDE DEF w, d
      <3>6. d <= w
        BY <3>1, <3>2, <3>3, <3>4, <3>5
      <3> QED BY <3>6 DEF w, d
    <2>4. Bounded'
      <3>1. cost[Cell(to)] + WalkCost(alone) <= cost[Cell(to)] /\ cost'= cost
        BY <1>1, <1>3, <2>2 DEF scratch
      <3>2. On(index)' = On(Cell(to)) /\ cost'[index'] = cost[Cell(to)]
        BY <1>1, <1>3, <3>1 DEF On
      <3>3. \A r : Rival(r)' => Rival(r)
        BY <1>1 DEF Rival
      <3>4. /\ cost'[index'] + WalkCost(<<On(index)'>> \o path') <= cost'[Cell(to')]
        BY <1>1, <3>1, <3>2
      <3> QED BY <1>1, <2>3, <3>1, <3>3, <3>4 DEF Bounded
    <2> QED BY <2>1, <2>4 DEF OInv, Reckoned
  <1>4. CASE Stale(n) /\ Skip(n)
    <2>1. phase' = "search" /\ open' = open \ {n} /\ UNCHANGED <<cost, cameFrom, stamp, generation>>
      BY <1>1, <1>4 DEF Skip, scratch
    <2>2. \A c \in Plane : Entry(c) # n
      <3> SUFFICES ASSUME NEW c \in Plane, Entry(c) = n PROVE FALSE
        OBVIOUS
      <3>1. n.cell = c /\ n.f = cost[c] + Estimate(c) /\ n.f > cost[c] + Estimate(c)
        BY <1>4 DEF Entry, Stale
      <3> QED BY <1>1, <3>1
    <2>3. Frontier'
      BY <1>1, <1>2, <2>1, <2>2 DEF Reckoned, Frontier, Entry, Settled, Visited, Estimate, On
    <2>4. Linkage' /\ Bounded' /\ BestAnswer'
      BY <1>1, <1>2, <2>1 DEF Reckoned, Linkage, Bounded, BestAnswer, Visited
    <2> QED BY <2>3, <2>4 DEF OInv, Reckoned
  <1>5. CASE expanded' = expanded + 1 /\ OverBudget /\ GiveUp
    <2>1. phase' = "done" /\ ~ (expanded' <= MaxNodes)
      BY <1>5, PathfindAssumption DEF GiveUp, OverBudget, IInv, TypeOK
    <2> QED BY <2>1 DEF OInv, Reckoned, Linkage, Frontier, Bounded, BestAnswer
  <1>6. CASE n.cell # Cell(to) /\ ~ Stale(n) /\ Expand(n)
    BY <1>1, <1>2, <1>6, ExpandOptimal
  <1> QED BY <1>3, <1>4, <1>5, <1>6 DEF Pop

LEMMA ExhaustedOptimal ==
    ASSUME IInv, Exhausted, OInv
    PROVE  OInv'
  <1>1. phase = "search" /\ open = {} /\ phase' = "done" /\ from' = from /\ to' = to
    BY DEF Exhausted, GiveUp, arguments
  <1>2. \A r : ~ Rival(r)
    BY <1>1, RivalIsOpen DEF OInv
  <1>3. \A r : ~ Rival(r)'
    BY <1>1, <1>2 DEF Rival
  <1> QED BY <1>1, <1>3 DEF OInv, Reckoned, Linkage, Frontier, Bounded, BestAnswer

LEMMA TraceBackOptimal ==
    ASSUME IInv, IInv', TraceBack, OInv
    PROVE  OInv'
  <1>1. /\ phase = "trace" /\ phase' = "trace" /\ path' = <<On(index)>> \o path
        /\ index' = cameFrom[index] /\ index # Cell(from)
        /\ UNCHANGED <<arguments, scratch, open, expanded>>
    BY DEF TraceBack, AtStart
  <1>2. /\ from' = from /\ to' = to /\ cost' = cost /\ stamp' = stamp
        /\ generation' = generation /\ cameFrom' = cameFrom
    BY <1>1 DEF arguments, scratch
  <1>3. /\ index \in Plane /\ index' \in Plane /\ Visited(index)
        /\ path' \in Seq(Walkable) /\ path' # <<>>
        /\ from \in Tiles /\ to \in Positions /\ Cell(to) \in Plane
    BY <1>1, <1>2, GoalIsNotStart DEF IInv, TypeOK, Traced, Linked
  <1>4. Linkage' /\ Frontier' /\ BestAnswer'
    BY <1>1, <1>2 DEF OInv, Reckoned, Linkage, Frontier, BestAnswer, Visited
  <1> DEFINE before == index'
             leg == StepCost(before, index)
             rest == WalkCost(path')
  <1>5. cost[before] + leg <= cost[index] /\ cost[index] + rest <= cost[Cell(to)]
    BY <1>1, <1>3 DEF OInv, Reckoned, Linkage, Bounded
  <1>6. WalkCost(<<On(before)>> \o path') = leg + rest
    <2>1. On(before) \in Positions /\ Cell(On(before)) = before /\ Cell(On(index)) = index
      BY <1>3, CellOn
    <2>2. path' \in Seq(Positions) /\ path'[1] = On(index)
      <3>1. Walkable \subseteq Positions
        BY GeometryAssumption
      <3>2. path \in Seq(Walkable)
        BY DEF IInv, TypeOK
      <3> QED BY <1>1, <1>3, <3>1, <3>2
    <2>3. \A walk \in Seq(Positions) : walk # <<>> => \A t \in Positions :
              WalkCost(<<t>> \o walk) = StepCost(Cell(t), Cell(walk[1])) + WalkCost(walk)
      BY WalkGrows
    <2> QED BY <1>3, <2>1, <2>2, <2>3
  <1>7. /\ cost[before] \in Nat /\ cost[index] \in Nat /\ cost[Cell(to)] \in Nat
        /\ leg \in Nat /\ rest \in Nat
    <2>1. Len(path') \in Nat \ {0}
      BY <1>3
    <2>2. rest \in Nat
      BY <2>1, WalkCostNat
    <2> QED BY <1>3, <2>2, StepCostNat DEF IInv, TypeOK
  <1>8. cost[before] + (leg + rest) <= cost[Cell(to)]
    <2> DEFINE p == cost[before]
               q == cost[index]
               g == cost[Cell(to)]
    <2>1. p \in Nat /\ q \in Nat /\ g \in Nat /\ leg \in Nat /\ rest \in Nat
          /\ p + leg <= q /\ q + rest <= g
      BY <1>5, <1>7
    <2> HIDE DEF p, q, g, leg, rest
    <2>2. p + (leg + rest) <= g
      BY <2>1
    <2> QED BY <2>2 DEF p, g
  <1>9. Bounded'
    <2>1. On(index)' = On(before)
      BY <1>2 DEF On
    <2>2. \A r : Rival(r)' => cost[Cell(to)] <= WalkCost(<<from>> \o r)
      BY <1>1, <1>2 DEF Rival, OInv, Reckoned, Bounded
    <2>3. cost'[index'] + WalkCost(<<On(index)'>> \o path') <= cost'[Cell(to')]
      BY <1>2, <1>6, <1>8, <2>1
    <2> QED BY <1>2, <2>2, <2>3 DEF Bounded
  <1> QED BY <1>4, <1>9 DEF OInv, Reckoned

LEMMA TraceEndOptimal ==
    ASSUME IInv, TraceEnd, OInv
    PROVE  OInv'
  <1>1. /\ phase = "trace" /\ phase' = "done" /\ index = Cell(from)
        /\ from' = from /\ to' = to /\ path' = path
    BY PathfindAssumption DEF TraceEnd, AtStart, IInv, Traced, arguments
  <1>2. /\ On(index) = from /\ Cell(to) # index /\ path # <<>> /\ cost[index] = 0
        /\ path \in Seq(Walkable) /\ cost[Cell(to)] \in Nat
    BY <1>1, GoalIsNotStart DEF IInv, TypeOK, Linked, Traced
  <1>3. ASSUME NEW r, Rival(r)
        PROVE  WalkCost(<<from>> \o path) <= WalkCost(<<from>> \o r)
    <2> DEFINE mine == WalkCost(<<from>> \o path)
               theirs == WalkCost(<<from>> \o r)
               g == cost[Cell(to)]
    <2>1. 0 + mine <= g /\ g <= theirs
      BY <1>1, <1>2, <1>3 DEF OInv, Reckoned, Bounded
    <2>2. mine \in Nat /\ theirs \in Nat /\ g \in Nat
      <3>1. r \in Seq(Walkable)
        BY <1>3 DEF Rival
      <3>2. Len(<<from>> \o r) \in Nat \ {0} /\ Len(<<from>> \o path) \in Nat \ {0}
        BY <1>2, <3>1
      <3> QED BY <1>2, <3>2, WalkCostNat
    <2> HIDE DEF mine, theirs, g
    <2>3. mine <= theirs
      BY <2>1, <2>2
    <2> QED BY <2>3 DEF mine, theirs
  <1>4. BestAnswer'
    BY <1>1, <1>2, <1>3 DEF BestAnswer, Rival
  <1> QED BY <1>1, <1>4 DEF OInv, Reckoned, Linkage, Frontier, Bounded

LEMMA StutterOptimal == OInv /\ UNCHANGED vars => OInv'
  BY DEF OInv, Reckoned, Linkage, Frontier, Bounded, BestAnswer, Rival, Entry, Settled, Visited,
         On, Estimate, vars, scratch, arguments

LEMMA NextOptimal == IInv /\ IInv' /\ OInv /\ [Next]_vars => OInv'
  <1> SUFFICES ASSUME IInv, IInv', OInv, [Next]_vars PROVE OInv'
    OBVIOUS
  <1>1. ASSUME NEW r \in Requests, Find(r[1], r[2]) PROVE OInv'
    <2>1. r[1] \in Tiles /\ r[2] \in Positions
      BY PathfindAssumption
    <2> QED
      BY <1>1, <2>1, FindOptimal
  <1>2. CASE \E n \in open : Pop(n)
    BY <1>2, PopOptimal
  <1>3. CASE Exhausted \/ TraceBack \/ TraceEnd
    BY <1>3, ExhaustedOptimal, TraceBackOptimal, TraceEndOptimal
  <1>4. CASE UNCHANGED vars
    BY <1>4, StutterOptimal
  <1> QED
    BY <1>1, <1>2, <1>3, <1>4 DEF Next, Step

(* A search that keeps to its budget answers with a route whenever there   *)
(* is one, and no route over the map, among them the Rivals, is cheaper:   *)
(* pathfind.hpp:61 calls the first path found optimal.                     *)
THEOREM RoutesAreCheapest == Spec => []PathIsCheapest
  <1>1. OInv => PathIsCheapest
    BY PathfindAssumption DEF OInv, BestAnswer, PathIsCheapest, Rival
  <1> QED
    BY InitInv, NextInv, InitOptimal, NextOptimal, <1>1, PTL DEF Spec
=============================================================================

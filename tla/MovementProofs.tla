-------------------------- MODULE MovementProofs --------------------------
(***************************************************************************)
(* Movement, for any map, any number of actors, any paces and any routes   *)
(* the pathfinder may return.                                              *)
(***************************************************************************)
EXTENDS Movement, TLAPS

LEMMA WalkLandsOnGround ==
    ASSUME NEW from, NEW d, CanTraverse(from, d)
    PROVE  TileStep(from, d) \in Walkable
  BY DEF CanTraverse

LEMMA ClaimIsATile ==
    ASSUME TypeOK, NEW i \in live
    PROVE  Claim(i) \in Walkable /\ Claim(i) \in Tiles /\ Claim(i) # NoTile
  BY GeometryAssumption, WorldAssumption DEF TypeOK, WorldTypeOK, Claim, NetIds

LEMMA LiveAreIds == TypeOK => live \subseteq NetIds /\ live \subseteq 1..(nextId - 1)
  BY WorldAssumption DEF TypeOK, WorldTypeOK, NetIds

LEMMA VacateType ==
    ASSUME NEW table \in [Tiles -> NetIds \cup {NoActor}], NEW tile, NEW i
    PROVE  Vacate(table, tile, i) \in [Tiles -> NetIds \cup {NoActor}]
  BY DEF Vacate

LEMMA OccupyType ==
    ASSUME NEW table \in [Tiles -> NetIds \cup {NoActor}], NEW tile, NEW i \in NetIds
    PROVE  Occupy(table, tile, i) \in [Tiles -> NetIds \cup {NoActor}]
  BY DEF Occupy

LEMMA SetRouteType ==
    ASSUME WorldTypeOK, NEW i \in NetIds, NEW r \in Seq(Walkable), SetRoute(i, r)
    PROVE  /\ route' \in [NetIds -> Seq(Walkable)]
           /\ blocked' \in [NetIds -> 0..(GiveUpTicks - 1)]
           /\ \A j \in NetIds \ {i} : route'[j] = route[j]
           /\ route'[i] = r
  BY WorldAssumption DEF SetRoute, WorldTypeOK

LEMMA StepDurationPositive ==
    ASSUME NEW i \in NetIds, NEW d
    PROVE  StepDuration(i, d) \in Nat /\ StepDuration(i, d) > 0
  <1>1. StepTicks[i] \in Nat /\ StepTicks[i] > 0
    BY WorldAssumption
  <1>2. (StepTicks[i] * 3) \div 2 \in Nat /\ (StepTicks[i] * 3) \div 2 > 0
    BY <1>1
  <1> QED
    BY <1>1, <1>2 DEF StepDuration

(* What starting a step does to the types. *)
LEMMA StartWalkType ==
    ASSUME WorldTypeOK, NEW i \in live, NEW d, WalkAllowed(i, d), StartWalk(i, d)
    PROVE  /\ walkTo' \in [NetIds -> Walkable \cup {NoTile}]
           /\ left' \in [NetIds -> Nat]
           /\ occ' \in [Tiles -> NetIds \cup {NoActor}]
           /\ walkTo'[i] # NoTile /\ left'[i] > 0
           /\ \A j \in NetIds \ {i} : walkTo'[j] = walkTo[j] /\ left'[j] = left[j]
  <1>1. i \in NetIds
    BY WorldAssumption DEF WorldTypeOK, NetIds
  <1>2. TileStep(pos[i], d) \in Walkable /\ TileStep(pos[i], d) # NoTile
    BY WalkLandsOnGround, GeometryAssumption, WorldAssumption DEF WalkAllowed
  <1>3. occ' \in [Tiles -> NetIds \cup {NoActor}]
    BY <1>1, VacateType, OccupyType DEF StartWalk, WorldTypeOK
  <1> QED
    BY <1>1, <1>2, <1>3, StepDurationPositive DEF StartWalk, WorldTypeOK

(* Init gives every variable a value of its type. *)
LEMMA InitTypeOK == Init => TypeOK
  <1> SUFFICES ASSUME Init PROVE TypeOK
    OBVIOUS
  <1> USE WorldAssumption DEF Init, WorldInit
  <1>1. WorldTypeOK
    BY DEF WorldTypeOK, NetIds, NoActor
  <1> QED
    BY <1>1 DEF TypeOK, Phases, Walking

LEMMA StepTypeOK == TypeOK /\ [Next]_vars => TypeOK'
  <1> SUFFICES ASSUME TypeOK, [Next]_vars PROVE TypeOK'
    OBVIOUS
  <1> USE WorldAssumption, GeometryAssumption
  <1>0. /\ live \subseteq NetIds
        /\ WorldTypeOK
        /\ <<>> \in Seq(Walkable)
    BY LiveAreIds DEF TypeOK
  <1>1. ASSUME NEW tile \in Walkable, Spawn(tile) PROVE TypeOK'
    <2>1. nextId \in NetIds /\ nextId \notin live /\ nextId \in Nat
      BY <1>1 DEF Spawn, SpawnActor, TypeOK, WorldTypeOK, NetIds
    <2>2. occ' \in [Tiles -> NetIds \cup {NoActor}]
      BY <1>1, <2>1, OccupyType DEF Spawn, SpawnActor, TypeOK, WorldTypeOK
    <2>3. nextId' \in 1..(MaxId + 1) /\ live' \subseteq 1..(nextId' - 1)
      BY <1>1, <2>1 DEF Spawn, SpawnActor, TypeOK, WorldTypeOK
    <2>4. pos' \in [NetIds -> Walkable \cup {NoTile}] /\ \A i \in live' : pos'[i] # NoTile
      BY <1>0, <1>1, <2>1 DEF Spawn, SpawnActor, TypeOK, WorldTypeOK
    <2>5. WorldTypeOK'
      BY <1>1, <2>2, <2>3, <2>4 DEF Spawn, SpawnActor, TypeOK, WorldTypeOK
    <2> QED
      BY <1>1, <2>1, <2>5 DEF Spawn, SpawnActor, TypeOK, Walking
  <1>2. ASSUME NEW i \in NetIds, Despawn(i) PROVE TypeOK'
    <2>1. occ' \in [Tiles -> NetIds \cup {NoActor}]
      BY <1>2, VacateType DEF Despawn, DespawnActor, TypeOK, WorldTypeOK
    <2>2. WorldTypeOK'
      BY <1>2, <2>1 DEF Despawn, DespawnActor, TypeOK, WorldTypeOK
    <2> QED
      BY <1>2, <2>2 DEF Despawn, DespawnActor, TypeOK, WorldTypeOK, Walking
  <1>3. ASSUME NEW i \in NetIds, InputTurn(i) PROVE TypeOK'
    BY <1>3, <1>0, SetRouteType
       DEF InputTurn, DropRoute, TypeOK, WorldTypeOK, Walking
  <1>4. ASSUME NEW i \in NetIds, NEW d \in Directions, InputWalk(i, d) PROVE TypeOK'
    <2>1. /\ i \in live /\ phase = "input" /\ SetRoute(i, <<>>)
          /\ UNCHANGED <<live, nextId, pos, phase, todo>>
      BY <1>4 DEF InputWalk, DropRoute
    <2>2. CASE WalkAllowed(i, d)
      <3>1. StartWalk(i, d)
        BY <1>4, <2>2 DEF InputWalk, RequestWalk
      <3>2. /\ walkTo' \in [NetIds -> Walkable \cup {NoTile}]
            /\ left' \in [NetIds -> Nat]
            /\ occ' \in [Tiles -> NetIds \cup {NoActor}]
            /\ walkTo'[i] # NoTile /\ left'[i] > 0
            /\ \A j \in NetIds \ {i} : walkTo'[j] = walkTo[j] /\ left'[j] = left[j]
        BY <1>0, <2>1, <2>2, <3>1, StartWalkType
      <3>3. /\ route' \in [NetIds -> Seq(Walkable)]
            /\ blocked' \in [NetIds -> 0..(GiveUpTicks - 1)]
            /\ \A j \in NetIds \ {i} : route'[j] = route[j]
        BY <1>0, <2>1, SetRouteType
      <3>4. WorldTypeOK'
        BY <1>0, <2>1, <3>2, <3>3 DEF WorldTypeOK
      <3> QED
        BY <2>1, <3>2, <3>4 DEF TypeOK, Walking
    <2>3. CASE ~WalkAllowed(i, d)
      <3>1. UNCHANGED <<walkTo, left, occ>>
        BY <1>4, <2>3 DEF InputWalk, RequestWalk
      <3> QED
        BY <1>0, <2>1, <3>1, SetRouteType DEF TypeOK, WorldTypeOK, Walking
    <2> QED
      BY <2>2, <2>3
  <1>5. ASSUME NEW i \in NetIds, NEW target \in Tiles, MoveTo(i, target) PROVE TypeOK'
    <2>1. Route[Claim(i)][target] \in Seq(Walkable)
      BY <1>5, ClaimIsATile, RouteAssumption DEF MoveTo
    <2>2. SetRoute(i, Route[Claim(i)][target])
      BY <1>5 DEF MoveTo, RequestMoveTo
    <2> QED
      BY <1>0, <1>5, <2>1, <2>2, SetRouteType DEF MoveTo, TypeOK, WorldTypeOK, Walking
  <1>6. CASE BeginTick
    <2>1. \A i \in Walking : i \in live /\ left[i] \in Nat /\ left[i] > 0
      BY <1>6 DEF BeginTick, TypeOK, WorldTypeOK, Walking
    <2>2. left' \in [NetIds -> Nat]
      BY <1>6, <2>1 DEF BeginTick
    <2>3. \A i \in Walking \ todo' : left'[i] > 0
      BY <1>6, <2>1 DEF BeginTick, Walking
    <2> QED
      BY <1>6, <2>1, <2>2, <2>3 DEF BeginTick, TypeOK, WorldTypeOK, Walking, Phases
  <1>7. ASSUME NEW i \in NetIds, Arrive(i) PROVE TypeOK'
    <2>1. i \in live /\ walkTo[i] \in Walkable
      BY <1>7 DEF Arrive, TypeOK, WorldTypeOK
    <2>2. /\ phase = "arrive" /\ todo' = todo \ {i}
          /\ walkTo' = [walkTo EXCEPT ![i] = NoTile]
          /\ left' = [left EXCEPT ![i] = 0]
          /\ UNCHANGED <<live, nextId, phase>>
      BY <1>7 DEF Arrive, Land
    <2>3. WorldTypeOK'
      <3>1. CASE Landings(i) = {}
        BY <1>0, <1>7, <2>1, <2>2, <3>1 DEF Arrive, Land, WorldTypeOK
      <3>2. CASE Landings(i) # {}
        <4>1. PICK dest \in Landings(i) :
                  /\ pos' = [pos EXCEPT ![i] = dest]
                  /\ occ' = Occupy(Vacate(occ, walkTo[i], i), dest, i)
                  /\ SetRoute(i, <<>>)
          BY <1>7, <3>2 DEF Arrive, Land, DropRoute
        <4>2. dest \in Walkable
          BY DEF Landings
        <4>3. occ' \in [Tiles -> NetIds \cup {NoActor}]
          BY <4>1, VacateType, OccupyType DEF TypeOK, WorldTypeOK
        <4> QED
          BY <1>0, <2>1, <2>2, <4>1, <4>2, <4>3, SetRouteType DEF WorldTypeOK
      <3> QED
        BY <3>1, <3>2
    <2> QED
      <3>1. \A j \in NetIds : j # i => walkTo'[j] = walkTo[j] /\ left'[j] = left[j]
        BY <2>2 DEF TypeOK, WorldTypeOK
      <3>2. walkTo'[i] = NoTile
        BY <2>2 DEF TypeOK, WorldTypeOK
      <3>3. \A j \in todo' : j \in todo /\ j # i /\ j \in NetIds
        BY <1>0, <2>2 DEF TypeOK
      <3>4. \A j \in Walking' \ todo' : left'[j] > 0
        BY <2>2, <3>1, <3>2 DEF TypeOK, Walking
      <3> QED
        BY <2>2, <2>3, <3>1, <3>3, <3>4 DEF TypeOK, Phases
  <1>8. CASE EndArrive
    BY <1>8 DEF EndArrive, worldVars, TypeOK, WorldTypeOK, Phases, Walking
  <1>9. ASSUME NEW i \in NetIds, Follow(i) PROVE TypeOK'
    <2>1. /\ i \in live /\ route[i] # <<>> /\ route[i] \in Seq(Walkable)
          /\ phase = "follow" /\ todo' = todo \ {i}
          /\ UNCHANGED <<live, nextId, pos, phase>>
      BY <1>9 DEF Follow, FollowRoute, TypeOK, WorldTypeOK
    <2>2. Tail(route[i]) \in Seq(Walkable)
      BY <2>1
    <2>3. CASE \E d \in DirectionsBetween(pos[i], Head(route[i])) :
                    /\ WalkAllowed(i, d)
                    /\ StartWalk(i, d)
                    /\ SetRoute(i, Tail(route[i]))
      <3>1. PICK d : /\ WalkAllowed(i, d)
                     /\ StartWalk(i, d)
                     /\ SetRoute(i, Tail(route[i]))
        BY <2>3
      <3>2. /\ walkTo' \in [NetIds -> Walkable \cup {NoTile}]
            /\ left' \in [NetIds -> Nat]
            /\ occ' \in [Tiles -> NetIds \cup {NoActor}]
            /\ walkTo'[i] # NoTile /\ left'[i] > 0
            /\ \A j \in NetIds \ {i} : walkTo'[j] = walkTo[j] /\ left'[j] = left[j]
        BY <1>0, <2>1, <3>1, StartWalkType
      <3>3. /\ route' \in [NetIds -> Seq(Walkable)]
            /\ blocked' \in [NetIds -> 0..(GiveUpTicks - 1)]
            /\ \A j \in NetIds \ {i} : route'[j] = route[j]
        BY <1>0, <2>2, <3>1, SetRouteType
      <3>4. WorldTypeOK'
        BY <1>0, <2>1, <3>2, <3>3 DEF WorldTypeOK
      <3> QED
        BY <1>0, <2>1, <3>2, <3>3, <3>4 DEF TypeOK, Walking
    <2>4. CASE UNCHANGED <<walkTo, left, occ>> /\ DropRoute(i)
      BY <1>0, <2>1, <2>4, SetRouteType DEF DropRoute, TypeOK, WorldTypeOK, Walking
    <2>5. CASE /\ UNCHANGED <<walkTo, left, occ, route>>
               /\ blocked[i] + 1 < GiveUpTicks
               /\ blocked' = [blocked EXCEPT ![i] = @ + 1]
      <3>1. blocked' \in [NetIds -> 0..(GiveUpTicks - 1)]
        BY <2>5 DEF TypeOK, WorldTypeOK
      <3> QED
        BY <2>1, <2>5, <3>1 DEF TypeOK, WorldTypeOK, Walking
    <2>6. blocked[i] \in Nat /\ GiveUpTicks \in Nat
      BY DEF TypeOK, WorldTypeOK
    <2> QED
      BY <1>9, <2>3, <2>4, <2>5, <2>6 DEF Follow, FollowRoute, WaitTurn
  <1>10. CASE EndTick
    BY <1>10 DEF EndTick, worldVars, TypeOK, WorldTypeOK, Phases, Walking
  <1>11. CASE UNCHANGED vars
    BY <1>11 DEF vars, worldVars, TypeOK, WorldTypeOK, Walking
  <1> QED
    BY <1>1, <1>2, <1>3, <1>4, <1>5, <1>6, <1>7, <1>8, <1>9, <1>10, <1>11 DEF Next, Tick

(* Every state the server reaches is well typed: an actor stands on ground *)
(* that can be stood on, a loop's work list names actors that are there,   *)
(* and a follower handled in the follow loop is not mid-step.              *)
THEOREM TypeCorrect == Spec => []TypeOK
  <1> QED
    BY InitTypeOK, StepTypeOK, PTL DEF Spec

----------------------------------------------------------------------------
(***************************************************************************)
(* What one step does to the claims: somebody enters, leaves, or moves to  *)
(* a tile that is free for it, or nobody's claim changes.  Every action is *)
(* one of the four, and the safety theorems need only these.               *)
(***************************************************************************)
OthersStay(i) == \A j \in live \ {i} : Claim(j)' = Claim(j)

Entered(i, tile) ==
    /\ i \in NetIds \ live /\ tile \in Walkable
    /\ occ[tile] = NoActor \/ SpawnFallback
    /\ live' = live \cup {i}
    /\ occ' = [occ EXCEPT ![tile] = i]
    /\ Claim(i)' = tile
    /\ OthersStay(i)

Left(i) ==
    /\ i \in live
    /\ live' = live \ {i}
    /\ occ' = Vacate(Vacate(occ, pos[i], i), walkTo[i], i)
    /\ OthersStay(i)

Moved(i, tile) ==
    /\ i \in live /\ tile \in Reach(Claim(i))
    /\ Free(tile, i)
    /\ live' = live
    /\ occ' = [Vacate(occ, Claim(i), i) EXCEPT ![tile] = i]
    /\ Claim(i)' = tile
    /\ OthersStay(i)

Stayed ==
    /\ live' = live
    /\ occ' = occ
    /\ \A j \in live : Claim(j)' = Claim(j)

(* A granted walk moves the claim one legal step. *)
LEMMA WalkMoves ==
    ASSUME TypeOK, NEW i \in live, NEW d \in Directions,
           WalkAllowed(i, d), StartWalk(i, d), UNCHANGED <<live, pos>>
    PROVE  Moved(i, TileStep(pos[i], d))
  <1> USE WorldAssumption, GeometryAssumption
  <1> DEFINE target == TileStep(pos[i], d)
  <1>1. i \in NetIds /\ live \subseteq NetIds
    BY LiveAreIds
  <1>2. target \in Walkable /\ target # NoTile
    BY WalkLandsOnGround DEF WalkAllowed
  <1>3. Claim(i) = pos[i]
    BY DEF WalkAllowed, Claim
  <1>4. target \in Reach(Claim(i))
    BY <1>2, <1>3 DEF Reach, LegalStep, DirectionsBetween, WalkAllowed
  <1>5. /\ Free(target, i)
        /\ occ' = [Vacate(occ, Claim(i), i) EXCEPT ![target] = i]
        /\ walkTo' = [walkTo EXCEPT ![i] = target]
    BY <1>3 DEF WalkAllowed, StartWalk, Occupy
  <1> HIDE DEF target
  <1>6. Claim(i)' = target /\ OthersStay(i)
    BY <1>1, <1>2, <1>5 DEF Claim, OthersStay, TypeOK, WorldTypeOK
  <1> QED
    BY <1>4, <1>5, <1>6 DEF Moved, target

LEMMA StepEffect ==
    ASSUME TypeOK, [Next]_vars
    PROVE  \/ Stayed
           \/ \E i \in NetIds, tile \in Walkable : Entered(i, tile) \/ Moved(i, tile)
           \/ \E i \in NetIds : Left(i)
  <1> USE WorldAssumption, GeometryAssumption
  <1>0. live \subseteq NetIds /\ WorldTypeOK
    BY LiveAreIds DEF TypeOK
  <1>1. ASSUME NEW tile \in Walkable, Spawn(tile)
        PROVE  \E i \in NetIds : Entered(i, tile)
    <2>1. PICK i \in NetIds \ live : i = nextId
      BY <1>1 DEF Spawn, SpawnActor, TypeOK, WorldTypeOK, NetIds
    <2>2. /\ pos' = [pos EXCEPT ![i] = tile] /\ walkTo' = walkTo
          /\ occ[tile] = NoActor \/ SpawnFallback
          /\ live' = live \cup {i}
          /\ occ' = [occ EXCEPT ![tile] = i]
      BY <1>1, <2>1 DEF Spawn, SpawnActor, Occupy
    <2>3. Claim(i)' = tile
      BY <2>1, <2>2, <1>0 DEF Claim, WorldTypeOK
    <2>4. OthersStay(i)
      BY <2>1, <2>2, <1>0 DEF Claim, OthersStay, WorldTypeOK
    <2> QED
      BY <2>1, <2>2, <2>3, <2>4 DEF Entered
  <1>2. ASSUME NEW i \in NetIds, Despawn(i) PROVE Left(i)
    BY <1>0, <1>2 DEF Despawn, DespawnActor, Left, OthersStay, Claim, WorldTypeOK
  <1>3. ASSUME NEW i \in NetIds, InputTurn(i) PROVE Stayed
    BY <1>3 DEF InputTurn, Stayed, Claim
  <1>4. ASSUME NEW i \in NetIds, NEW d \in Directions, InputWalk(i, d)
        PROVE  Stayed \/ (i \in live /\ Moved(i, TileStep(pos[i], d)))
    <2>1. CASE WalkAllowed(i, d)
      BY <1>4, <2>1, WalkMoves DEF InputWalk, RequestWalk
    <2>2. CASE ~WalkAllowed(i, d)
      BY <1>4, <2>2 DEF InputWalk, RequestWalk, Stayed, Claim
    <2> QED
      BY <2>1, <2>2
  <1>5. ASSUME NEW i \in NetIds, NEW target \in Tiles, MoveTo(i, target) PROVE Stayed
    BY <1>5 DEF MoveTo, Stayed, Claim
  <1>6. CASE BeginTick
    BY <1>6 DEF BeginTick, Stayed, Claim
  <1>7. ASSUME NEW i \in NetIds, Arrive(i)
        PROVE  Stayed \/ \E dest \in Walkable : Moved(i, dest)
    <2>1. /\ i \in live /\ walkTo[i] \in Walkable /\ walkTo[i] # NoTile
          /\ Claim(i) = walkTo[i]
          /\ walkTo' = [walkTo EXCEPT ![i] = NoTile]
          /\ live' = live
      BY <1>7 DEF Arrive, Land, Claim, TypeOK, WorldTypeOK
    <2>2. CASE Landings(i) = {}
      <3>1. pos' = [pos EXCEPT ![i] = walkTo[i]] /\ occ' = occ
        BY <1>7, <2>2 DEF Arrive, Land
      <3>2. Claim(i)' = Claim(i)
        BY <1>0, <2>1, <3>1 DEF Claim, WorldTypeOK
      <3>3. \A j \in live \ {i} : Claim(j)' = Claim(j)
        BY <1>0, <2>1, <3>1 DEF Claim, WorldTypeOK
      <3> QED
        BY <2>1, <3>1, <3>2, <3>3 DEF Stayed
    <2>3. CASE Landings(i) # {}
      <3>1. PICK dest \in Landings(i) :
                /\ pos' = [pos EXCEPT ![i] = dest]
                /\ occ' = [Vacate(occ, walkTo[i], i) EXCEPT ![dest] = i]
        BY <1>7, <2>3 DEF Arrive, Land, Occupy
      <3>2. dest \in Walkable /\ dest \in Reach(Claim(i)) /\ Free(dest, i)
        BY <2>1 DEF Landings, Reach
      <3>3. Claim(i)' = dest
        BY <1>0, <2>1, <3>1 DEF Claim, WorldTypeOK
      <3>4. OthersStay(i)
        BY <1>0, <2>1, <3>1 DEF Claim, OthersStay, WorldTypeOK
      <3> QED
        BY <2>1, <3>1, <3>2, <3>3, <3>4 DEF Moved
    <2> QED
      BY <2>2, <2>3
  <1>8. CASE EndArrive
    BY <1>8 DEF EndArrive, worldVars, Stayed, Claim
  <1>9. ASSUME NEW i \in NetIds, Follow(i)
        PROVE  Stayed \/ \E tile \in Walkable : Moved(i, tile)
    <2>1. i \in live /\ UNCHANGED <<live, pos>>
      BY <1>9 DEF Follow, FollowRoute, TypeOK
    <2>2. CASE UNCHANGED <<walkTo, occ>>
      BY <2>1, <2>2 DEF Stayed, Claim
    <2>3. CASE \E d \in Directions : WalkAllowed(i, d) /\ StartWalk(i, d)
      BY <2>1, <2>3, WalkMoves, WalkLandsOnGround DEF WalkAllowed
    <2> QED
      BY <1>9, <2>2, <2>3 DEF Follow, FollowRoute, DirectionsBetween
  <1>10. CASE EndTick
    BY <1>10 DEF EndTick, worldVars, Stayed, Claim
  <1>11. CASE UNCHANGED vars
    BY <1>11 DEF vars, worldVars, Stayed, Claim
  <1>12. ASSUME NEW i \in live, NEW tile, Moved(i, tile) PROVE tile \in Walkable
    BY <1>12 DEF Moved, Reach
  <1> QED
    BY <1>0, <1>1, <1>2, <1>3, <1>4, <1>5, <1>6, <1>7, <1>8, <1>9, <1>10, <1>11, <1>12
       DEF Next, Tick

----------------------------------------------------------------------------
(* NoGhost survives each of the four effects, crowded logins included: the *)
(* newcomer's entry replaces another's, it never outlives its actor.       *)
LEMMA StepNoGhost == TypeOK /\ NoGhost /\ [Next]_vars => NoGhost'
  <1> SUFFICES ASSUME TypeOK, NoGhost, [Next]_vars PROVE NoGhost'
    OBVIOUS
  <1> USE WorldAssumption, GeometryAssumption DEF NoActor
  <1>0. /\ live \subseteq NetIds /\ occ \in [Tiles -> NetIds \cup {0}]
        /\ \A i \in NetIds : i # 0
    BY LiveAreIds DEF TypeOK, WorldTypeOK, NetIds
  <1>1. CASE Stayed
    BY <1>1 DEF Stayed, NoGhost
  <1>2. ASSUME NEW i \in NetIds, NEW tile \in Walkable, Entered(i, tile) PROVE NoGhost'
    BY <1>0, <1>2 DEF Entered, OthersStay, NoGhost
  <1>3. ASSUME NEW i \in NetIds, NEW tile \in Walkable, Moved(i, tile) PROVE NoGhost'
    <2>1. \A t \in Tiles \ {tile} : occ'[t] = IF occ[t] = i THEN 0 ELSE occ[t]
      BY <1>0, <1>3 DEF Moved, Vacate, NoGhost
    <2>2. occ'[tile] = i
      BY <1>0, <1>3 DEF Moved, Vacate
    <2> QED
      BY <1>0, <1>3, <2>1, <2>2 DEF Moved, OthersStay, NoGhost
  <1>4. ASSUME NEW i \in NetIds, Left(i) PROVE NoGhost'
    <2>1. \A t \in Tiles : occ'[t] = IF occ[t] = i THEN 0 ELSE occ[t]
      BY <1>0, <1>4 DEF Left, Vacate, NoGhost, Claim
    <2> QED
      BY <1>0, <1>4, <2>1 DEF Left, OthersStay, NoGhost
  <1> QED
    BY <1>1, <1>2, <1>3, <1>4, StepEffect

(* An entry of occupancy_ always names an actor that is in the world and   *)
(* answers for that tile, whatever the logins: no tile stays closed after  *)
(* its actor left (vacate and despawn, world.cpp:29 and :56).              *)
THEOREM NoGhostEver == Spec => []NoGhost
  <1>1. Init => NoGhost
    BY DEF Init, WorldInit, NoGhost, NoActor
  <1> QED
    BY <1>1, InitTypeOK, StepTypeOK, StepNoGhost, PTL DEF Spec

(* With free placement the table is exact.  That no two actors share a     *)
(* tile is not inductive by itself: can_enter asks the table, so the table *)
(* must be known to tell the truth.                                        *)
LEMMA StepExact ==
    ASSUME ~SpawnFallback
    PROVE  TypeOK /\ OccupancyExact /\ [Next]_vars => OccupancyExact'
  <1> SUFFICES ASSUME TypeOK, OccupancyExact, [Next]_vars PROVE OccupancyExact'
    OBVIOUS
  <1> USE WorldAssumption, GeometryAssumption DEF NoActor
  <1>0. /\ live \subseteq NetIds /\ occ \in [Tiles -> NetIds \cup {0}]
        /\ \A i \in NetIds : i # 0
    BY LiveAreIds DEF TypeOK, WorldTypeOK, NetIds
  <1>1. CASE Stayed
    BY <1>1 DEF Stayed, OccupancyExact
  <1>2. ASSUME NEW i \in NetIds, NEW tile \in Walkable, Entered(i, tile)
        PROVE  OccupancyExact'
    BY <1>0, <1>2 DEF Entered, OthersStay, OccupancyExact
  <1>3. ASSUME NEW i \in NetIds, NEW tile \in Walkable, Moved(i, tile)
        PROVE  OccupancyExact'
    <2>1. \A t \in Tiles \ {tile} : occ'[t] = IF occ[t] = i THEN 0 ELSE occ[t]
      BY <1>0, <1>3 DEF Moved, Vacate, OccupancyExact
    <2>2. occ'[tile] = i /\ occ[tile] \in {0, i}
      BY <1>0, <1>3 DEF Moved, Vacate, Free
    <2> QED
      BY <1>0, <1>3, <2>1, <2>2 DEF Moved, OthersStay, OccupancyExact
  <1>4. ASSUME NEW i \in NetIds, Left(i) PROVE OccupancyExact'
    <2>1. \A t \in Tiles : occ'[t] = IF occ[t] = i THEN 0 ELSE occ[t]
      BY <1>0, <1>4 DEF Left, Vacate, OccupancyExact, Claim
    <2> QED
      BY <1>0, <1>4, <2>1 DEF Left, OthersStay, OccupancyExact
  <1> QED
    BY <1>1, <1>2, <1>3, <1>4, StepEffect

LEMMA InitExact == Init => OccupancyExact
  BY DEF Init, WorldInit, OccupancyExact, NoActor, NetIds

(* As long as every actor is placed on a free tile, occupancy_ says who    *)
(* answers for which tile, no more and no less.                            *)
THEOREM OccupancyIsExact == ASSUME ~SpawnFallback PROVE Spec => []OccupancyExact
  <1> QED
    BY InitExact, InitTypeOK, StepTypeOK, StepExact, PTL DEF Spec

LEMMA ExactExcludes == TypeOK /\ OccupancyExact => Exclusive
  <1> SUFFICES ASSUME TypeOK, OccupancyExact, NEW i \in live, NEW j \in live,
                      Claim(i) = Claim(j)
               PROVE  i = j
    BY DEF Exclusive
  <1>1. i \in NetIds /\ j \in NetIds /\ Claim(i) \in Tiles
    BY LiveAreIds, ClaimIsATile
  <1>2. occ[Claim(i)] = i /\ occ[Claim(i)] = j
    BY <1>1 DEF OccupancyExact
  <1> QED
    BY <1>2

(* ... and therefore two actors never answer for one tile: not standing,   *)
(* not walking, not through stairs and portals.                            *)
THEOREM TilesAreExclusive == ASSUME ~SpawnFallback PROVE Spec => []Exclusive
  <1> QED
    BY InitExact, InitTypeOK, StepTypeOK, StepExact, ExactExcludes, PTL DEF Spec

----------------------------------------------------------------------------
(* The claims of the detailed world, as TileClaims sees them. *)
ClaimOf(i) == IF i \in live THEN Claim(i) ELSE NoTile

LEMMA FreeIsUnclaimed ==
    ASSUME TypeOK, OccupancyExact, NEW tile \in Walkable, NEW i \in NetIds, Free(tile, i)
    PROVE  \A j \in NetIds \ {i} : ClaimOf(j) # tile
  BY GeometryAssumption, WorldAssumption, ClaimIsATile
     DEF OccupancyExact, Free, ClaimOf, NoActor, NetIds

(* TileClaims has the geometry of Tiles under the same constants. *)
LEMMA SameReach == ASSUME NEW from PROVE Claims!Reach(from) = Reach(from)
  BY Zenon DEF Reach, LegalStep, DirectionsBetween, TransitionDestination, CanTraverse,
               TileStep, IsDiagonal, Directions, DirectionDelta,
               Claims!Reach, Claims!LegalStep, Claims!DirectionsBetween,
               Claims!TransitionDestination, Claims!CanTraverse, Claims!TileStep,
               Claims!IsDiagonal, Claims!Directions, Claims!DirectionDelta

LEMMA InitClaims == Init => Claims!Init
  BY DEF Init, WorldInit, Claims!Init

LEMMA StepClaims ==
    ASSUME ~SpawnFallback, TypeOK, OccupancyExact, [Next]_vars
    PROVE  [Claims!Next]_([i \in NetIds |-> ClaimOf(i)])
  <1> DEFINE claim == [i \in NetIds |-> ClaimOf(i)]
  <1> USE GeometryAssumption, WorldAssumption
  <1>0. live \subseteq NetIds /\ \A i \in live : Claim(i) \in Walkable /\ Claim(i) # NoTile
    BY LiveAreIds, ClaimIsATile
  <1>1. CASE Stayed
    BY <1>1 DEF Stayed, ClaimOf
  <1>2. ASSUME NEW i \in NetIds, NEW tile \in Walkable, Entered(i, tile)
        PROVE  Claims!Appear(i, tile)
    <2>1. claim' = [claim EXCEPT ![i] = tile]
      BY <1>0, <1>2 DEF Entered, OthersStay, ClaimOf
    <2>2. claim[i] = NoTile
      BY <1>2 DEF Entered, ClaimOf
    <2>3. Free(tile, i)
      BY <1>2 DEF Entered, Free
    <2>4. \A j \in NetIds : claim[j] # tile
      BY <2>2, <2>3, FreeIsUnclaimed
    <2> QED
      BY <2>1, <2>2, <2>4 DEF Claims!Appear, Claims!Unclaimed, ClaimOf
  <1>3. ASSUME NEW i \in NetIds, NEW tile \in Walkable, Moved(i, tile)
        PROVE  Claims!Move(i, tile) \/ claim' = claim
    <2>1. claim' = [claim EXCEPT ![i] = tile]
      BY <1>0, <1>3 DEF Moved, OthersStay, ClaimOf
    <2>2. claim[i] = Claim(i) /\ claim[i] # NoTile
      BY <1>0, <1>3 DEF Moved, ClaimOf
    <2>3. \A j \in NetIds \ {i} : claim[j] # tile
      BY <1>3, FreeIsUnclaimed DEF Moved
    <2>4. CASE Claim(i) = tile
      BY <2>1, <2>2, <2>4
    <2>5. CASE Claim(i) # tile
      <3>1. tile \in Claims!Reach(claim[i])
        BY <1>3, <2>2, SameReach DEF Moved
      <3>2. \A j \in NetIds : claim[j] # tile
        BY <2>2, <2>3, <2>5
      <3> QED
        BY <2>1, <2>2, <3>1, <3>2 DEF Claims!Move, Claims!Unclaimed, ClaimOf
    <2> QED
      BY <2>4, <2>5
  <1>4. ASSUME NEW i \in NetIds, Left(i) PROVE Claims!Vanish(i)
    <2>1. claim' = [claim EXCEPT ![i] = NoTile]
      BY <1>0, <1>4 DEF Left, OthersStay, ClaimOf
    <2>2. claim[i] # NoTile
      BY <1>0, <1>4 DEF Left, ClaimOf
    <2> QED
      BY <2>1, <2>2 DEF Claims!Vanish, ClaimOf
  <1> QED
    BY <1>1, <1>2, <1>3, <1>4, StepEffect DEF Claims!Next

(* The world with free placement keeps the promise of TileClaims: every    *)
(* step of the server is one actor appearing on, moving by one legal step  *)
(* or transition to, or leaving a tile nobody else holds, or no change.    *)
THEOREM WorldKeepsClaims == ASSUME ~SpawnFallback PROVE Spec => HoldsClaims
  <1>1. TypeOK /\ OccupancyExact /\ [Next]_vars
            => [Claims!Next]_([i \in NetIds |-> ClaimOf(i)])
    BY StepClaims
  <1>2. [Claims!Next]_([i \in NetIds |-> ClaimOf(i)])
            => [Claims!Next]_([i \in NetIds |-> IF i \in live THEN Claim(i) ELSE NoTile])
    BY DEF ClaimOf
  <1> QED
    BY <1>1, <1>2, InitClaims, InitExact, InitTypeOK, StepTypeOK, StepExact, PTL
       DEF Spec, HoldsClaims, Claims!Spec

----------------------------------------------------------------------------
(* Stored routes.  That the first step is legal is not inductive: the next *)
(* one must be once the first was taken, and so on to the end.             *)
Follows(from, r) ==
    r # <<>> =>
        /\ LegalStep(from, r[1])
        /\ \A k \in 1..(Len(r) - 1) : LegalStep(r[k], r[k + 1])

RoutesHold == \A i \in live : Follows(Claim(i), route[i])

LEMMA RestFollows ==
    ASSUME NEW S, NEW r \in Seq(S), r # <<>>, NEW from, Follows(from, r)
    PROVE  Follows(Head(r), Tail(r))
  <1>1. PICK t : t = Tail(r)
    OBVIOUS
  <1>2. /\ Len(r) \in Nat \ {0} /\ Head(r) = r[1]
        /\ t \in Seq(S) /\ Len(t) = Len(r) - 1
        /\ \A k \in 1..Len(r) - 1 : t[k] = r[k + 1]
    BY <1>1
  <1>3. \A k \in 1..Len(r) - 1 : LegalStep(r[k], r[k + 1])
    BY DEF Follows
  <1>4. CASE t = <<>>
    BY <1>1, <1>4 DEF Follows
  <1>5. CASE t # <<>>
    <2>1. Len(t) > 0
      BY <1>2, <1>5
    <2>2. 1 \in 1..Len(r) - 1 /\ t[1] = r[2]
      BY <1>2, <2>1
    <2>3. LegalStep(r[1], t[1])
      BY <1>3, <2>2
    <2>4. ASSUME NEW k \in 1..(Len(t) - 1)
          PROVE  LegalStep(t[k], t[k + 1])
      <3>1. k \in 1..Len(r) - 1 /\ k + 1 \in 1..Len(r) - 1
        BY <1>2
      <3>2. t[k] = r[k + 1] /\ t[k + 1] = r[k + 1 + 1] /\ LegalStep(r[k + 1], r[k + 1 + 1])
        BY <1>2, <1>3, <3>1
      <3> QED BY <3>2
    <2> QED BY <1>1, <1>2, <2>3, <2>4 DEF Follows
  <1> QED BY <1>4, <1>5

(* What a step may do to an actor's claim and route: nothing, forget the   *)
(* route, replace it from where the actor will stand, or take its first    *)
(* tile.                                                                   *)
Untouched(j) == j \in live /\ Claim(j)' = Claim(j) /\ route'[j] = route[j]
Dropped(j)   == route'[j] = <<>>
Planned(j)   == /\ j \in live /\ Claim(j)' = Claim(j)
                /\ \E target \in Tiles : route'[j] = Route[Claim(j)][target]
Advanced(j)  == /\ j \in live /\ route[j] # <<>>
                /\ Claim(j)' = Head(route[j]) /\ route'[j] = Tail(route[j])

Handled(j) == Untouched(j) \/ Dropped(j) \/ Planned(j) \/ Advanced(j)

LEMMA RouteEffect ==
    ASSUME TypeOK, [Next]_vars
    PROVE  \A j \in live' : Handled(j)
  <1> USE WorldAssumption, GeometryAssumption DEF Handled
  <1>0. live \subseteq NetIds /\ WorldTypeOK
    BY LiveAreIds DEF TypeOK
  <1>1. ASSUME NEW tile \in Walkable, Spawn(tile), NEW j \in live'
        PROVE  Handled(j)
    <2>1. PICK i \in NetIds \ live : i = nextId
      BY <1>1 DEF Spawn, SpawnActor, TypeOK, WorldTypeOK, NetIds
    <2>2. /\ pos' = [pos EXCEPT ![i] = tile] /\ walkTo' = walkTo /\ route' = route
          /\ live' = live \cup {i}
      BY <1>1, <2>1 DEF Spawn, SpawnActor
    <2>3. CASE j = i
      BY <1>0, <2>1, <2>2, <2>3 DEF Dropped, WorldTypeOK
    <2>4. CASE j \in live
      BY <1>0, <2>1, <2>2, <2>4 DEF Untouched, Claim, WorldTypeOK
    <2> QED BY <1>1, <2>2, <2>3, <2>4
  <1>2. ASSUME NEW i \in NetIds, Despawn(i), NEW j \in live'
        PROVE  Handled(j)
    BY <1>0, <1>2 DEF Despawn, DespawnActor, Untouched, Claim, WorldTypeOK
  <1>3. ASSUME NEW i \in NetIds, InputTurn(i), NEW j \in live'
        PROVE  Handled(j)
    BY <1>0, <1>3 DEF InputTurn, DropRoute, SetRoute, Untouched, Dropped, Claim, WorldTypeOK
  <1>4. ASSUME NEW i \in NetIds, NEW d \in Directions, InputWalk(i, d), NEW j \in live'
        PROVE  Handled(j)
    <2>1. /\ i \in live /\ live' = live /\ pos' = pos
          /\ route' = [route EXCEPT ![i] = <<>>]
          /\ walkTo' = walkTo \/ \E t : walkTo' = [walkTo EXCEPT ![i] = t]
      BY <1>4 DEF InputWalk, DropRoute, SetRoute, RequestWalk, StartWalk
    <2>2. CASE j = i
      BY <1>0, <2>1, <2>2 DEF Dropped, WorldTypeOK
    <2>3. CASE j # i
      <3>1. j \in live /\ route'[j] = route[j] /\ walkTo'[j] = walkTo[j] /\ pos'[j] = pos[j]
        BY <1>0, <1>4, <2>1, <2>3 DEF WorldTypeOK
      <3> QED BY <3>1 DEF Untouched, Claim
    <2> QED BY <2>2, <2>3
  <1>5. ASSUME NEW i \in NetIds, NEW target \in Tiles, MoveTo(i, target), NEW j \in live'
        PROVE  Handled(j)
    <2>1. /\ i \in live /\ live' = live /\ pos' = pos /\ walkTo' = walkTo
          /\ route' = [route EXCEPT ![i] = Route[Claim(i)][target]]
      BY <1>5 DEF MoveTo, RequestMoveTo, SetRoute
    <2>2. Claim(j)' = Claim(j)
      BY <2>1 DEF Claim
    <2>3. CASE j = i
      BY <1>0, <2>1, <2>2, <2>3 DEF Planned, WorldTypeOK
    <2>4. CASE j # i
      BY <1>0, <1>5, <2>1, <2>2, <2>4 DEF Untouched, WorldTypeOK
    <2> QED BY <2>3, <2>4
  <1>6. ASSUME BeginTick \/ EndArrive \/ EndTick \/ UNCHANGED vars, NEW j \in live'
        PROVE  Handled(j)
    BY <1>6 DEF BeginTick, EndArrive, EndTick, vars, worldVars, Untouched, Claim
  <1>7. ASSUME NEW i \in NetIds, Arrive(i), NEW j \in live'
        PROVE  Handled(j)
    <2>1. /\ i \in live /\ live' = live /\ walkTo[i] # NoTile
          /\ walkTo' = [walkTo EXCEPT ![i] = NoTile]
          /\ \/ pos' = [pos EXCEPT ![i] = walkTo[i]] /\ route' = route
             \/ \E dest : /\ pos' = [pos EXCEPT ![i] = dest]
                          /\ route' = [route EXCEPT ![i] = <<>>]
      BY <1>7 DEF Arrive, Land, DropRoute, SetRoute, TypeOK
    <2>2. CASE j # i
      <3>1. j \in live /\ route'[j] = route[j] /\ walkTo'[j] = walkTo[j] /\ pos'[j] = pos[j]
        BY <1>0, <1>7, <2>1, <2>2 DEF WorldTypeOK
      <3> QED BY <3>1 DEF Untouched, Claim
    <2>3. CASE j = i /\ pos' = [pos EXCEPT ![i] = walkTo[i]] /\ route' = route
      <3>1. Claim(j)' = Claim(j)
        BY <1>0, <2>1, <2>3 DEF Claim, WorldTypeOK
      <3> QED BY <2>1, <2>3, <3>1 DEF Untouched
    <2>4. CASE j = i /\ route' = [route EXCEPT ![i] = <<>>]
      BY <1>0, <2>4 DEF Dropped, WorldTypeOK
    <2> QED BY <2>1, <2>2, <2>3, <2>4
  <1>8. ASSUME NEW i \in NetIds, Follow(i), NEW j \in live'
        PROVE  Handled(j)
    <2>1. /\ i \in live /\ live' = live /\ pos' = pos
          /\ route[i] # <<>> /\ walkTo[i] = NoTile
      BY <1>8 DEF Follow, FollowRoute, TypeOK
    <2>2. CASE \E d \in DirectionsBetween(pos[i], Head(route[i])) :
                  StartWalk(i, d) /\ SetRoute(i, Tail(route[i]))
      <3>1. PICK d \in DirectionsBetween(pos[i], Head(route[i])) :
                  StartWalk(i, d) /\ SetRoute(i, Tail(route[i]))
        BY <2>2
      <3>2. /\ walkTo' = [walkTo EXCEPT ![i] = Head(route[i])]
            /\ route' = [route EXCEPT ![i] = Tail(route[i])]
        BY <3>1 DEF StartWalk, SetRoute, DirectionsBetween
      <3>3. CASE j = i
        <4>1. Head(route[i]) \in Walkable
          BY <1>0, <2>1 DEF WorldTypeOK
        <4>2. Claim(i)' = Head(route[i])
          BY <1>0, <2>1, <3>2, <4>1 DEF Claim, WorldTypeOK
        <4>3. route'[i] = Tail(route[i])
          BY <1>0, <3>2 DEF WorldTypeOK
        <4> QED BY <2>1, <3>3, <4>2, <4>3 DEF Advanced
      <3>4. CASE j # i
        <4>1. j \in live /\ route'[j] = route[j] /\ walkTo'[j] = walkTo[j] /\ pos'[j] = pos[j]
          BY <1>0, <1>8, <2>1, <3>2, <3>4 DEF WorldTypeOK
        <4> QED BY <4>1 DEF Untouched, Claim
      <3> QED BY <3>3, <3>4
    <2>3. CASE walkTo' = walkTo /\ (DropRoute(i) \/ WaitTurn(i))
      <3>1. Claim(j)' = Claim(j)
        BY <2>1, <2>3 DEF Claim
      <3>2. CASE WaitTurn(i)
        BY <1>8, <2>1, <3>1, <3>2 DEF WaitTurn, Untouched
      <3>3. CASE DropRoute(i) /\ j = i
        BY <1>0, <3>3 DEF DropRoute, SetRoute, Dropped, WorldTypeOK
      <3>4. CASE DropRoute(i) /\ j # i
        BY <1>0, <1>8, <2>1, <3>1, <3>4 DEF DropRoute, SetRoute, Untouched, WorldTypeOK
      <3> QED BY <2>3, <3>2, <3>3, <3>4
    <2> QED BY <1>8, <2>2, <2>3 DEF Follow, FollowRoute
  <1> QED
    BY <1>1, <1>2, <1>3, <1>4, <1>5, <1>6, <1>7, <1>8 DEF Next, Tick

LEMMA StepRoutesHold == TypeOK /\ RoutesHold /\ [Next]_vars => RoutesHold'
  <1> SUFFICES ASSUME TypeOK, RoutesHold, [Next]_vars, NEW j \in live'
               PROVE  Follows(Claim(j), route[j])'
    BY DEF RoutesHold
  <1>0. \A i \in live : Claim(i) \in Tiles /\ route[i] \in Seq(Walkable)
    BY LiveAreIds, ClaimIsATile DEF TypeOK, WorldTypeOK
  <1>1. CASE Untouched(j)
    BY <1>1 DEF Untouched, RoutesHold, Follows
  <1>2. CASE Dropped(j)
    BY <1>2 DEF Dropped, Follows
  <1>3. CASE Planned(j)
    <2>1. PICK target \in Tiles : route'[j] = Route[Claim(j)][target]
      BY <1>3 DEF Planned
    <2>2. IsRoute(Claim(j), target, Route[Claim(j)][target])
      BY <1>0, <1>3, RouteAssumption DEF Planned
    <2> QED BY <1>3, <2>1, <2>2 DEF Planned, IsRoute, Follows
  <1>4. CASE Advanced(j)
    <2>1. Follows(Claim(j), route[j]) /\ route[j] \in Seq(Walkable) /\ route[j] # <<>>
      BY <1>0, <1>4 DEF Advanced, RoutesHold
    <2>2. Follows(Head(route[j]), Tail(route[j]))
      BY <2>1, RestFollows
    <2> QED BY <1>4, <2>2 DEF Advanced, Follows
  <1> QED BY <1>1, <1>2, <1>3, <1>4, RouteEffect DEF Handled

(* A follower never walks geometry that was not checked: the next tile of  *)
(* a stored route is a legal step from where the actor stands or is about  *)
(* to, through replanning, blocked waits, stairs and portals               *)
(* (request_move_to, update_path_followers, apply_tile_transition).        *)
THEOREM RoutesAreAnchored == Spec => []RouteAnchored
  <1>1. Init => RoutesHold
    BY DEF Init, WorldInit, RoutesHold
  <1>2. TypeOK /\ RoutesHold => RouteAnchored
    <2> SUFFICES ASSUME TypeOK, RoutesHold, NEW i \in live, route[i] # <<>>
                 PROVE  LegalStep(Claim(i), Head(route[i]))
      BY DEF RouteAnchored
    <2>1. route[i] \in Seq(Walkable)
      BY LiveAreIds DEF TypeOK, WorldTypeOK
    <2>2. Head(route[i]) = route[i][1]
      BY <2>1
    <2> QED BY <2>2 DEF RoutesHold, Follows
  <1> QED
    BY <1>1, <1>2, InitTypeOK, StepTypeOK, StepRoutesHold, PTL DEF Spec
=============================================================================

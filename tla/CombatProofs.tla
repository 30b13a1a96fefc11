---------------------------- MODULE CombatProofs ----------------------------
(***************************************************************************)
(* Combat, for any map and routes, any number of players and mobs, any     *)
(* damage, reach and clocks: the dead hold nothing, and naming a target    *)
(* again never winds the swing clock back.                                 *)
(***************************************************************************)
EXTENDS Combat, TLAPS

----------------------------------------------------------------------------
(* What each method of World does to the table and to the steps.           *)

(* Claims are what the table says, for whoever has an entry (Movement's    *)
(* NoGhost): killing must know where to look for the entries of the dead.  *)
Held(t) == occ[t] # NoActor => occ[t] \in live /\ Claim(occ[t]) = t

Standing ==
    /\ nextId \in 1..(MaxId + 1)
    /\ live \subseteq 1..(nextId - 1)
    /\ pos = [i \in NetIds |-> pos[i]]
    /\ walkTo = [i \in NetIds |-> walkTo[i]]
    /\ occ = [t \in Tiles |-> occ[t]]
    /\ \A t \in Tiles : Held(t)
    /\ \A i \in NetIds \ live : walkTo[i] = NoTile

(* Nobody but i gets an entry or a step. *)
OnlyFor(i) ==
    \A j \in NetIds \ {i} :
        /\ walkTo'[j] = walkTo[j]
        /\ (\A t \in Tiles : occ[t] # j) => \A t \in Tiles : occ'[t] # j

LEMMA LiveAreIds == Standing => live \subseteq NetIds
  BY WorldAssumption DEF Standing, NetIds

LEMMA HeldHere ==
    ASSUME Standing, NEW t \in Tiles, occ[t] # NoActor
    PROVE  /\ occ[t] \in live /\ occ[t] \in NetIds
           /\ t = IF walkTo[occ[t]] = NoTile THEN pos[occ[t]] ELSE walkTo[occ[t]]
  <1>1. Held(t)
    BY DEF Standing
  <1> QED BY <1>1, LiveAreIds DEF Held, Claim

LEMMA VacateIs ==
    ASSUME NEW table, table = [t \in Tiles |-> table[t]], NEW tile, NEW i
    PROVE  /\ Vacate(table, tile, i) = [t \in Tiles |-> Vacate(table, tile, i)[t]]
           /\ \A t \in Tiles : Vacate(table, tile, i)[t] =
                 IF t = tile /\ table[t] = i /\ t # NoTile THEN NoActor ELSE table[t]
  BY DEF Vacate

LEMMA OccupyIs ==
    ASSUME NEW table, table = [t \in Tiles |-> table[t]], NEW tile, NEW i
    PROVE  /\ Occupy(table, tile, i) = [t \in Tiles |-> Occupy(table, tile, i)[t]]
           /\ \A t \in Tiles : Occupy(table, tile, i)[t] = IF t = tile THEN i ELSE table[t]
  BY DEF Occupy

LEMMA SpawnKeeps ==
    ASSUME Standing, NEW tile \in Tiles, SpawnActor(tile)
    PROVE  /\ Standing' /\ OnlyFor(nextId)
           /\ nextId \in NetIds \ live /\ live' = live \cup {nextId}
  <1> USE WorldAssumption DEF NoActor
  <1>1. /\ nextId \in NetIds /\ nextId \notin live /\ live' = live \cup {nextId}
        /\ live' \subseteq 1..(nextId' - 1) /\ nextId' \in 1..(MaxId + 1)
    BY DEF SpawnActor, Standing, NetIds
  <1>2. /\ pos' = [j \in NetIds |-> pos'[j]]
        /\ pos'[nextId] = tile
        /\ \A j \in NetIds \ {nextId} : pos'[j] = pos[j]
        /\ walkTo' = walkTo
    BY <1>1 DEF SpawnActor, Standing
  <1>3. /\ occ' = [t \in Tiles |-> occ'[t]]
        /\ \A t \in Tiles : occ'[t] = IF t = tile THEN nextId ELSE occ[t]
    BY OccupyIs DEF SpawnActor, Standing
  <1>4. ASSUME NEW t \in Tiles PROVE Held(t)'
    <2>1. CASE t = tile
      <3>1. walkTo'[nextId] = NoTile
        BY <1>1, <1>2 DEF Standing
      <3> QED BY <2>1, <3>1, <1>1, <1>2, <1>3 DEF Held, Claim
    <2>2. CASE t # tile
      BY <2>2, <1>1, <1>2, <1>3, HeldHere DEF Held, Claim
    <2> QED BY <2>1, <2>2
  <1>5. \A i \in NetIds \ live' : walkTo'[i] = NoTile
    BY <1>1, <1>2 DEF Standing
  <1> QED BY <1>1, <1>2, <1>3, <1>4, <1>5 DEF Standing, OnlyFor

(* After both of its tiles were vacated an actor has no entry left. *)
LEMMA Released ==
    ASSUME Standing, NEW i \in live, NEW table,
           table = Vacate(Vacate(occ, pos[i], i), walkTo[i], i)
    PROVE  /\ table = [t \in Tiles |-> table[t]]
           /\ \A t \in Tiles : table[t] = IF occ[t] = i THEN NoActor ELSE occ[t]
  <1> DEFINE once == Vacate(occ, pos[i], i)
  <1>1. /\ once = [t \in Tiles |-> once[t]]
        /\ \A t \in Tiles : once[t] = IF t = pos[i] /\ occ[t] = i /\ t # NoTile
                                      THEN NoActor ELSE occ[t]
    BY VacateIs DEF Standing
  <1>0. table = Vacate(once, walkTo[i], i)
    OBVIOUS
  <1>4. i # NoActor
    BY LiveAreIds DEF NetIds, NoActor
  <1> HIDE DEF once
  <1>2. /\ table = [t \in Tiles |-> table[t]]
        /\ \A t \in Tiles : table[t] = IF t = walkTo[i] /\ once[t] = i /\ t # NoTile
                                       THEN NoActor ELSE once[t]
    BY <1>0, <1>1 DEF Vacate
  <1>3. ASSUME NEW t \in Tiles, occ[t] = i
        PROVE  t # NoTile /\ (t = pos[i] \/ t = walkTo[i])
    BY <1>3, <1>4, HeldHere, WorldAssumption
  <1> QED BY <1>1, <1>2, <1>3, <1>4

LEMMA DespawnKeeps ==
    ASSUME Standing, NEW i \in live, DespawnActor(i)
    PROVE  Standing' /\ OnlyFor(i) /\ live' = live \ {i}
  <1> USE WorldAssumption
  <1>1. i \in NetIds /\ live' = live \ {i} /\ nextId' = nextId
    BY LiveAreIds DEF DespawnActor
  <1>2. /\ pos' = [j \in NetIds |-> pos'[j]] /\ \A j \in NetIds \ {i} : pos'[j] = pos[j]
        /\ walkTo' = [j \in NetIds |-> walkTo'[j]]
        /\ walkTo'[i] = NoTile
        /\ \A j \in NetIds \ {i} : walkTo'[j] = walkTo[j]
    BY <1>1 DEF DespawnActor, Standing
  <1>3. /\ occ' = [t \in Tiles |-> occ'[t]]
        /\ \A t \in Tiles : occ'[t] = IF occ[t] = i THEN NoActor ELSE occ[t]
    BY Released DEF DespawnActor
  <1>4. \A t \in Tiles : Held(t)'
    BY <1>1, <1>2, <1>3, HeldHere DEF Held, Claim
  <1>5. nextId' \in 1..(MaxId + 1) /\ live' \subseteq 1..(nextId' - 1)
    BY <1>1 DEF Standing
  <1>6. OnlyFor(i)
    BY <1>2, <1>3, <1>1 DEF OnlyFor, NoActor, NetIds
  <1> QED BY <1>1, <1>2, <1>3, <1>4, <1>5, <1>6 DEF Standing

LEMMA KillKeeps ==
    ASSUME Standing, NEW i \in live,
           occ' = Vacate(Vacate(occ, pos[i], i), walkTo[i], i),
           walkTo' = [walkTo EXCEPT ![i] = NoTile], UNCHANGED <<live, nextId, pos>>
    PROVE  /\ Standing' /\ OnlyFor(i)
           /\ walkTo'[i] = NoTile /\ \A t \in Tiles : occ'[t] # i
  <1>1. i \in NetIds /\ i # NoActor
    BY LiveAreIds DEF NetIds, NoActor
  <1>2. /\ walkTo' = [j \in NetIds |-> walkTo'[j]]
        /\ walkTo'[i] = NoTile
        /\ \A j \in NetIds \ {i} : walkTo'[j] = walkTo[j]
    BY <1>1 DEF Standing
  <1>3. /\ occ' = [t \in Tiles |-> occ'[t]]
        /\ \A t \in Tiles : occ'[t] = IF occ[t] = i THEN NoActor ELSE occ[t]
    BY Released
  <1>4. \A t \in Tiles : Held(t)'
    BY <1>1, <1>2, <1>3, HeldHere DEF Held, Claim
  <1>5. OnlyFor(i)
    BY <1>1, <1>2, <1>3 DEF OnlyFor, NoActor, NetIds
  <1>6. \A t \in Tiles : occ'[t] # i
    BY <1>1, <1>3
  <1>7. \A j \in NetIds \ live' : walkTo'[j] = NoTile
    BY <1>2 DEF Standing
  <1> QED BY <1>2, <1>3, <1>4, <1>5, <1>6, <1>7 DEF Standing

LEMMA WalkKeeps ==
    ASSUME Standing, NEW i \in live, NEW d, WalkAllowed(i, d), StartWalk(i, d),
           UNCHANGED <<live, nextId, pos>>
    PROVE  Standing' /\ OnlyFor(i)
  <1> DEFINE dest == TileStep(pos[i], d)
  <1>1. i \in NetIds /\ i # NoActor /\ walkTo[i] = NoTile
    BY LiveAreIds DEF NetIds, NoActor, WalkAllowed
  <1>2. dest \in Tiles /\ dest # NoTile
    BY WorldAssumption, GeometryAssumption DEF WalkAllowed, CanTraverse
  <1>3. /\ walkTo' = [walkTo EXCEPT ![i] = dest]
        /\ occ' = Occupy(Vacate(occ, pos[i], i), dest, i)
    BY DEF StartWalk
  <1> HIDE DEF dest
  <1>4. /\ walkTo' = [j \in NetIds |-> walkTo'[j]]
        /\ walkTo'[i] = dest
        /\ \A j \in NetIds \ {i} : walkTo'[j] = walkTo[j]
    BY <1>1, <1>3 DEF Standing
  <1>5. PICK once : once = Vacate(occ, pos[i], i)
    OBVIOUS
  <1>6. /\ once = [t \in Tiles |-> once[t]]
        /\ \A t \in Tiles : once[t] = IF t = pos[i] /\ occ[t] = i /\ t # NoTile
                                      THEN NoActor ELSE occ[t]
    BY <1>5, VacateIs DEF Standing
  <1>7. /\ occ' = [t \in Tiles |-> occ'[t]]
        /\ \A t \in Tiles : occ'[t] = IF t = dest THEN i ELSE once[t]
    BY <1>3, <1>5, <1>6, OccupyIs
  <1>8. \A t \in Tiles : Held(t)'
    <2> SUFFICES ASSUME NEW t \in Tiles PROVE Held(t)'
      OBVIOUS
    <2>1. CASE t = dest
      BY <2>1, <1>1, <1>2, <1>4, <1>7 DEF Held, Claim
    <2>2. CASE t # dest
      <3>1. ASSUME occ[t] = i PROVE t = pos[i] /\ t # NoTile
        BY <3>1, <1>1, HeldHere, WorldAssumption
      <3> QED BY <2>2, <3>1, <1>1, <1>4, <1>6, <1>7, HeldHere DEF Held, Claim
    <2> QED BY <2>1, <2>2
  <1>9. OnlyFor(i)
    BY <1>1, <1>4, <1>6, <1>7 DEF OnlyFor, NoActor, NetIds
  <1>10. \A j \in NetIds \ live' : walkTo'[j] = NoTile
    BY <1>4 DEF Standing
  <1> QED BY <1>4, <1>7, <1>8, <1>9, <1>10 DEF Standing

LEMMA LandKeeps ==
    ASSUME Standing, NEW i \in live, walkTo[i] # NoTile, Land(i)
    PROVE  Standing' /\ OnlyFor(i) /\ live' = live
  <1>1. /\ i \in NetIds /\ i # NoActor /\ live' = live /\ nextId' = nextId
        /\ walkTo' = [walkTo EXCEPT ![i] = NoTile]
    BY LiveAreIds DEF NetIds, NoActor, Land
  <1>2. /\ walkTo' = [j \in NetIds |-> walkTo'[j]]
        /\ walkTo'[i] = NoTile
        /\ \A j \in NetIds \ {i} : walkTo'[j] = walkTo[j]
    BY <1>1 DEF Standing
  <1>3. \A j \in NetIds \ live' : walkTo'[j] = NoTile
    BY <1>1, <1>2 DEF Standing
  <1>4. CASE pos' = [pos EXCEPT ![i] = walkTo[i]] /\ occ' = occ
    <2>1. /\ pos' = [j \in NetIds |-> pos'[j]]
          /\ pos'[i] = walkTo[i]
          /\ \A j \in NetIds \ {i} : pos'[j] = pos[j]
      BY <1>1, <1>4 DEF Standing
    <2>2. \A t \in Tiles : Held(t)'
      BY <1>1, <1>2, <1>4, <2>1, HeldHere DEF Held, Claim
    <2> QED BY <1>1, <1>2, <1>3, <1>4, <2>1, <2>2 DEF Standing, OnlyFor
  <1>5. occ = [t \in Tiles |-> occ[t]]
    BY DEF Standing
  <1>6. ASSUME NEW dest \in Landings(i), pos' = [pos EXCEPT ![i] = dest],
               occ' = Occupy(Vacate(occ, walkTo[i], i), dest, i)
        PROVE  Standing' /\ OnlyFor(i)
    <2>1. /\ pos' = [j \in NetIds |-> pos'[j]]
          /\ pos'[i] = dest
          /\ \A j \in NetIds \ {i} : pos'[j] = pos[j]
      BY <1>1, <1>6 DEF Standing
    <2>2. PICK once : once = Vacate(occ, walkTo[i], i)
      OBVIOUS
    <2>3. /\ once = [t \in Tiles |-> once[t]]
          /\ \A t \in Tiles : once[t] = IF t = walkTo[i] /\ occ[t] = i /\ t # NoTile
                                        THEN NoActor ELSE occ[t]
      BY <2>2, <1>5 DEF Vacate
    <2>4. /\ occ' = [t \in Tiles |-> occ'[t]]
          /\ \A t \in Tiles : occ'[t] = IF t = dest THEN i ELSE once[t]
      BY <1>6, <2>2, <2>3, OccupyIs
    <2>5. \A t \in Tiles : Held(t)'
      <3> SUFFICES ASSUME NEW t \in Tiles PROVE Held(t)'
        OBVIOUS
      <3>1. CASE t = dest
        BY <3>1, <1>1, <1>2, <2>1, <2>4 DEF Held, Claim
      <3>2. CASE t # dest
        <4>1. ASSUME occ[t] = i PROVE t = walkTo[i] /\ t # NoTile
          BY <4>1, <1>1, HeldHere, WorldAssumption
        <4> QED BY <3>2, <4>1, <1>1, <1>2, <2>1, <2>3, <2>4, HeldHere DEF Held, Claim
      <3> QED BY <3>1, <3>2
    <2>6. OnlyFor(i)
      BY <1>1, <1>2, <2>3, <2>4 DEF OnlyFor, NoActor, NetIds
    <2> QED BY <1>1, <1>2, <1>3, <2>1, <2>4, <2>5, <2>6 DEF Standing
  <1> QED BY <1>1, <1>4, <1>6 DEF Land

LEMMA RespawnKeeps ==
    ASSUME Standing, NEW i \in live, walkTo[i] = NoTile, \A t \in Tiles : occ[t] # i,
           RespawnActor(i)
    PROVE  Standing' /\ OnlyFor(i) /\ live' = live
  <1>1. i \in NetIds /\ i # NoActor /\ live' = live /\ nextId' = nextId /\ walkTo' = walkTo
    BY LiveAreIds DEF NetIds, NoActor, RespawnActor
  <1>2. /\ pos' = [j \in NetIds |-> pos'[j]]
        /\ pos'[i] = anchor[i]
        /\ \A j \in NetIds \ {i} : pos'[j] = pos[j]
    BY <1>1 DEF Standing, RespawnActor
  <1>3. /\ occ' = [t \in Tiles |-> occ'[t]]
        /\ \A t \in Tiles : occ'[t] = IF t = anchor[i] THEN i ELSE occ[t]
    BY OccupyIs DEF Standing, RespawnActor
  <1>4. \A t \in Tiles : Held(t)'
    BY <1>1, <1>2, <1>3, HeldHere DEF Held, Claim
  <1> QED BY <1>1, <1>2, <1>3, <1>4 DEF Standing, OnlyFor

----------------------------------------------------------------------------
(* The dead, and the loops of the tick: whoever a loop has still to handle *)
(* is what it was when the loop was entered.                               *)

Bodies ==
    /\ mobs \subseteq live /\ dead \subseteq live \ mobs
    /\ route = [i \in NetIds |-> route[i]]
    /\ target = [i \in NetIds |-> target[i]]

LoopOK ==
    /\ phase = "arrive" => \A i \in todo : i \in live /\ walkTo[i] # NoTile
    /\ phase = "think" => todo \subseteq mobs
    /\ phase \in {"chase", "follow"} => todo \subseteq live \ dead
    /\ phase = "revive" => todo \subseteq dead

DeadOK == Standing /\ Bodies /\ DeadHoldNothing

LEMMA SameWorld ==
    ASSUME Standing, UNCHANGED <<live, nextId, pos, walkTo, occ>>
    PROVE  Standing' /\ \A i : OnlyFor(i)
  <1>1. \A t \in Tiles : Held(t)'
    BY DEF Standing, Held, Claim
  <1> QED BY <1>1 DEF Standing, OnlyFor

LEMMA RequestKeeps ==
    ASSUME Standing, NEW i \in live, NEW d, RequestWalk(i, d), UNCHANGED <<live, nextId, pos>>
    PROVE  Standing' /\ OnlyFor(i)
  BY WalkKeeps, SameWorld DEF RequestWalk

(* One actor changed its own route and target, if anything, and is alive.  *)
Touches(i) ==
    /\ route' = route \/ \E r : route' = [route EXCEPT ![i] = r]
    /\ target' = target \/ \E j : target' = [target EXCEPT ![i] = j]
    /\ UNCHANGED <<live, mobs, dead>>

LEMMA OneActs ==
    ASSUME DeadOK, NEW i \in NetIds, i \notin dead, Standing', OnlyFor(i), Touches(i)
    PROVE  DeadOK'
  <1>1. /\ route' = [j \in NetIds |-> route'[j]]
        /\ \A j \in NetIds \ {i} : route'[j] = route[j]
    BY DEF DeadOK, Bodies, Touches
  <1>2. /\ target' = [j \in NetIds |-> target'[j]]
        /\ \A j \in NetIds \ {i} : target'[j] = target[j]
    BY DEF DeadOK, Bodies, Touches
  <1>3. Bodies'
    BY <1>1, <1>2 DEF DeadOK, Bodies, Touches
  <1>4. ASSUME NEW j \in dead'
        PROVE  /\ \A t \in Tiles : occ'[t] # j
               /\ walkTo'[j] = NoTile /\ route'[j] = <<>> /\ target'[j] = NoActor
    <2>1. j \in dead /\ j \in NetIds \ {i}
      BY LiveAreIds DEF DeadOK, Bodies, Touches
    <2> QED BY <2>1, <1>1, <1>2 DEF DeadOK, DeadHoldNothing, OnlyFor
  <1> QED BY <1>3, <1>4 DEF DeadOK, DeadHoldNothing

LEMMA PlaceKeeps ==
    ASSUME DeadOK, NEW tile \in Walkable, NEW more \in {mobs, mobs \cup {nextId}},
           Place(tile, more)
    PROVE  DeadOK'
  <1>1. /\ Standing' /\ OnlyFor(nextId)
        /\ nextId \in NetIds \ live /\ live' = live \cup {nextId}
    BY SpawnKeeps, GeometryAssumption DEF DeadOK, Place
  <1>2. UNCHANGED <<route, target, dead>> /\ mobs' = more
    BY DEF Place, SpawnActor, attackVars
  <1>3. Bodies'
    BY <1>1, <1>2 DEF DeadOK, Bodies
  <1>4. DeadHoldNothing'
    <2> SUFFICES ASSUME NEW j \in dead
                 PROVE  walkTo'[j] = NoTile /\ \A t \in Tiles : occ'[t] # j
      BY <1>2 DEF DeadOK, DeadHoldNothing
    <2>1. j \in NetIds \ {nextId}
      BY <1>1, LiveAreIds DEF DeadOK, Bodies
    <2> QED BY <1>1, <2>1 DEF DeadOK, DeadHoldNothing, OnlyFor
  <1> QED BY <1>1, <1>3, <1>4 DEF DeadOK

LEMMA ForgetKeeps ==
    ASSUME DeadOK, NEW i \in live, Forget(i)
    PROVE  DeadOK'
  <1>0. i \in NetIds
    BY LiveAreIds DEF DeadOK
  <1>1. Standing' /\ OnlyFor(i) /\ live' = live \ {i}
    BY DespawnKeeps DEF DeadOK, Forget
  <1>2. /\ mobs' = mobs \ {i} /\ dead' = dead \ {i}
        /\ route' = [route EXCEPT ![i] = <<>>] /\ target' = [target EXCEPT ![i] = NoActor]
    BY DEF Forget, DespawnActor
  <1>3. /\ route' = [j \in NetIds |-> route'[j]] /\ \A j \in NetIds \ {i} : route'[j] = route[j]
        /\ target' = [j \in NetIds |-> target'[j]] /\ \A j \in NetIds \ {i} : target'[j] = target[j]
    BY <1>2 DEF DeadOK, Bodies
  <1>4. Bodies'
    BY <1>1, <1>2, <1>3 DEF DeadOK, Bodies
  <1>5. DeadHoldNothing'
    <2> SUFFICES ASSUME NEW j \in dead'
                 PROVE  /\ \A t \in Tiles : occ'[t] # j
                        /\ walkTo'[j] = NoTile /\ route'[j] = <<>> /\ target'[j] = NoActor
      BY DEF DeadHoldNothing
    <2>1. j \in dead /\ j \in NetIds \ {i}
      BY <1>2, LiveAreIds DEF DeadOK, Bodies
    <2> QED BY <1>1, <1>3, <2>1 DEF DeadOK, DeadHoldNothing, OnlyFor
  <1> QED BY <1>1, <1>4, <1>5 DEF DeadOK

LEMMA DeathKeeps ==
    ASSUME DeadOK, NEW i \in Players, Kill(i)
    PROVE  DeadOK'
  <1>0. i \in live /\ i \in NetIds
    BY LiveAreIds DEF DeadOK, Players
  <1>1. /\ Standing' /\ OnlyFor(i)
        /\ walkTo'[i] = NoTile /\ \A t \in Tiles : occ'[t] # i
    BY <1>0, KillKeeps DEF DeadOK, Kill
  <1>2. /\ UNCHANGED <<live, mobs>> /\ dead' = dead \cup {i}
        /\ route' = [route EXCEPT ![i] = <<>>] /\ target' = [target EXCEPT ![i] = NoActor]
    BY DEF Kill, DropRoute, SetRoute
  <1>3. /\ route' = [j \in NetIds |-> route'[j]]
        /\ \A j \in NetIds : route'[j] = IF j = i THEN <<>> ELSE route[j]
        /\ target' = [j \in NetIds |-> target'[j]]
        /\ \A j \in NetIds : target'[j] = IF j = i THEN NoActor ELSE target[j]
    BY <1>2 DEF DeadOK, Bodies
  <1>4. Bodies'
    BY <1>0, <1>2, <1>3 DEF DeadOK, Bodies, Players
  <1>5. DeadHoldNothing'
    <2> SUFFICES ASSUME NEW j \in dead'
                 PROVE  /\ \A t \in Tiles : occ'[t] # j
                        /\ walkTo'[j] = NoTile /\ route'[j] = <<>> /\ target'[j] = NoActor
      BY DEF DeadHoldNothing
    <2>1. j = i \/ (j \in dead /\ j \in NetIds \ {i})
      BY <1>2, LiveAreIds DEF DeadOK, Bodies
    <2> QED BY <1>0, <1>1, <1>3, <2>1 DEF DeadOK, DeadHoldNothing, OnlyFor
  <1> QED BY <1>1, <1>4, <1>5 DEF DeadOK

LEMMA ReviveKeeps ==
    ASSUME DeadOK, NEW i \in dead, RespawnActor(i), UNCHANGED target
    PROVE  DeadOK'
  <1>0. i \in live /\ i \in NetIds
    BY LiveAreIds DEF DeadOK, Bodies
  <1>1. Standing' /\ OnlyFor(i) /\ live' = live
    BY <1>0, RespawnKeeps DEF DeadOK, DeadHoldNothing
  <1>2. UNCHANGED <<route, mobs>> /\ dead' = dead \ {i}
    BY DEF RespawnActor
  <1>3. DeadHoldNothing'
    <2> SUFFICES ASSUME NEW j \in dead'
                 PROVE  walkTo'[j] = NoTile /\ \A t \in Tiles : occ'[t] # j
      BY <1>2 DEF DeadOK, DeadHoldNothing
    <2>1. j \in dead /\ j \in NetIds \ {i}
      BY <1>2, LiveAreIds DEF DeadOK, Bodies
    <2> QED BY <1>1, <2>1 DEF DeadOK, DeadHoldNothing, OnlyFor
  <1> QED BY <1>1, <1>2, <1>3 DEF DeadOK, Bodies

(* Nothing the dead depend on moved. *)
LEMMA Unmoved ==
    ASSUME DeadOK, UNCHANGED <<live, nextId, pos, walkTo, occ, route, target, mobs, dead>>
    PROVE  DeadOK'
  BY SameWorld DEF DeadOK, Bodies, DeadHoldNothing

LEMMA SetTargetTouches ==
    ASSUME NEW i, NEW j, SetTarget(i, j)
    PROVE  target' = target \/ \E k : target' = [target EXCEPT ![i] = k]
  BY DEF SetTarget, attackVars

LEMMA InputKeeps ==
    ASSUME DeadOK, ~DeadInput, Input
    PROVE  DeadOK'
  <1>1. ASSUME NEW i \in NetIds, MaySteer(i) PROVE i \in live /\ i \notin dead
    BY <1>1 DEF MaySteer, Players
  <1>2. ASSUME NEW tile \in Walkable, Join(tile) PROVE DeadOK'
    BY <1>2, PlaceKeeps DEF Join
  <1>3. ASSUME NEW i \in NetIds, Leave(i) PROVE DeadOK'
    BY <1>3, ForgetKeeps DEF Leave, Players
  <1>4. ASSUME NEW i \in NetIds, NEW d, InputWalk(i, d) PROVE DeadOK'
    <2>1. i \in live /\ i \notin dead
      BY <1>1, <1>4 DEF InputWalk
    <2>2. Standing' /\ OnlyFor(i)
      BY <1>4, <2>1, RequestKeeps DEF InputWalk, DeadOK
    <2>3. Touches(i)
      BY <1>4 DEF InputWalk, CancelPath, DropRoute, SetRoute, Touches, bodyVars, attackVars
    <2> QED BY <2>1, <2>2, <2>3, OneActs
  <1>5. ASSUME NEW i \in NetIds, InputTurn(i) \/ \E tile \in Tiles : MoveTo(i, tile)
        PROVE  DeadOK'
    <2>1. i \in live /\ i \notin dead
      BY <1>1, <1>5 DEF InputTurn, MoveTo
    <2>2. Standing' /\ OnlyFor(i)
      BY <1>5, SameWorld DEF InputTurn, MoveTo, DeadOK
    <2>3. Touches(i)
      BY <1>5 DEF InputTurn, MoveTo, CancelPath, DropRoute, RequestMoveTo, SetRoute,
                  Touches, bodyVars, attackVars
    <2> QED BY <2>1, <2>2, <2>3, OneActs
  <1>6. ASSUME NEW i \in NetIds, NEW j, Attack(i, j) PROVE DeadOK'
    <2>1. i \in live /\ i \notin dead
      BY <1>1, <1>6 DEF Attack
    <2>2. Standing' /\ OnlyFor(i)
      BY <1>6, SameWorld DEF Attack, DeadOK, worldVars
    <2>3. Touches(i)
      BY <1>6, SetTargetTouches DEF Attack, Touches, bodyVars, worldVars
    <2> QED BY <2>1, <2>2, <2>3, OneActs
  <1> QED BY <1>2, <1>3, <1>4, <1>5, <1>6 DEF Input

LEMMA ThinkKeeps ==
    ASSUME DeadOK, NEW i \in mobs, Think(i)
    PROVE  DeadOK'
  <1>1. i \in live /\ i \in NetIds /\ i \notin dead
    BY LiveAreIds DEF DeadOK, Bodies
  <1>2. CASE Hunt(i)
    <2>1. Standing' /\ OnlyFor(i)
      BY <1>2, SameWorld DEF Hunt, DeadOK, worldVars
    <2>2. Touches(i)
      BY <1>2, SetTargetTouches DEF Think, Hunt, Touches, bodyVars, worldVars
    <2> QED BY <1>1, <2>1, <2>2, OneActs
  <1>3. CASE Idle(i)
    <2>1. Standing' /\ OnlyFor(i)
      BY <1>1, <1>3, SameWorld, RequestKeeps DEF Idle, DeadOK, worldVars
    <2>2. Touches(i)
      BY <1>3, SetTargetTouches
      DEF Think, Idle, DropRoute, SetRoute, Touches, bodyVars, worldVars
    <2> QED BY <1>1, <2>1, <2>2, OneActs
  <1> QED BY <1>2, <1>3 DEF Think

LEMMA ChaseKeeps ==
    ASSUME DeadOK, NEW i \in live \ dead, Chase(i)
    PROVE  DeadOK'
  <1>1. i \in NetIds
    BY LiveAreIds DEF DeadOK
  <1>2. UNCHANGED <<live, nextId, pos, walkTo, occ>>
    BY DEF Chase, GiveUp, Halt, KeepGoing, Plan, worldVars
  <1>3. Touches(i)
    BY <1>2 DEF Chase, GiveUp, Halt, KeepGoing, Plan, RequestMoveTo, DropRoute, SetRoute,
                worldVars, bodyVars, attackVars, Touches
  <1> QED BY <1>1, <1>2, <1>3, SameWorld, OneActs DEF DeadOK

LEMMA FollowKeeps ==
    ASSUME DeadOK, NEW i \in live \ dead, Follow(i)
    PROVE  DeadOK'
  <1>1. i \in NetIds
    BY LiveAreIds DEF DeadOK
  <1>2. UNCHANGED <<live, nextId, pos>>
    BY DEF Follow, FollowRoute
  <1>3. Standing' /\ OnlyFor(i)
    <2>1. CASE UNCHANGED <<walkTo, left, occ>>
      BY <1>2, <2>1, SameWorld DEF DeadOK
    <2>2. CASE \E d \in DirectionsBetween(pos[i], Head(route[i])) :
                  WalkAllowed(i, d) /\ StartWalk(i, d)
      BY <1>2, <2>2, WalkKeeps DEF DeadOK
    <2> QED BY <2>1, <2>2 DEF Follow, FollowRoute
  <1>4. Touches(i)
    BY <1>2 DEF Follow, FollowRoute, WaitTurn, DropRoute, SetRoute, bodyVars, attackVars, Touches
  <1> QED BY <1>1, <1>3, <1>4, OneActs

LEMMA ArriveKeeps ==
    ASSUME DeadOK, NEW i \in live, walkTo[i] # NoTile, Arrive(i)
    PROVE  DeadOK'
  <1>1. i \in NetIds /\ i \notin dead
    BY LiveAreIds DEF DeadOK, DeadHoldNothing
  <1>2. Standing' /\ OnlyFor(i)
    BY LandKeeps DEF Arrive, DeadOK
  <1>3. Touches(i)
    BY DEF Arrive, Land, DropRoute, SetRoute, bodyVars, attackVars, Touches
  <1> QED BY <1>1, <1>2, <1>3, OneActs

LEMMA GatherKeeps ==
    ASSUME DeadOK, Gather
    PROVE  DeadOK'
  <1>1. /\ target' = [i \in NetIds |-> target'[i]]
        /\ \A i \in NetIds : i \notin Attackers => target'[i] = target[i]
    BY DEF Gather
  <1>2. UNCHANGED <<live, nextId, pos, walkTo, occ, route, mobs, dead>>
    BY DEF Gather, worldVars, bodyVars
  <1>3. \A i \in dead : i \in NetIds /\ i \notin Attackers
    BY LiveAreIds DEF DeadOK, Bodies, Attackers
  <1> QED BY <1>1, <1>2, <1>3, SameWorld DEF DeadOK, Bodies, DeadHoldNothing

LEMMA StrikeKeeps ==
    ASSUME DeadOK, NEW s, Strike(s)
    PROVE  DeadOK'
  <1>1. CASE UNCHANGED <<live, nextId, pos, walkTo, occ, route, target, mobs, dead>>
    BY <1>1, Unmoved
  <1>2. CASE s[2] \in Players /\ Kill(s[2])
    BY <1>2, DeathKeeps
  <1>3. CASE s[2] \in mobs /\ Forget(s[2])
    BY <1>3, ForgetKeeps DEF DeadOK, Bodies
  <1> QED BY <1>1, <1>2, <1>3 DEF Strike, ApplyDamage, worldVars, bodyVars, attackVars

LEMMA LoopKept ==
    ASSUME DeadOK, LoopOK, Next
    PROVE  LoopOK'
  <1>1. ASSUME phase \in {"input", "spawn", "strike"}, UNCHANGED phase PROVE LoopOK'
    BY <1>1 DEF LoopOK
  <1>2. CASE Input
    BY <1>1, <1>2 DEF Input, Join, Place, Leave, InputTurn, InputWalk, MoveTo, Attack,
                      MaySteer, loopVars
  <1>3. CASE \E tile \in Walkable : Birth(tile)
    BY <1>1, <1>3 DEF Birth, Place, loopVars
  <1>4. CASE \E s \in swings : Strike(s)
    BY <1>1, <1>4 DEF Strike
  <1>5. CASE BeginTick
    BY <1>5, LiveAreIds DEF BeginTick, Enter, Walking, LoopOK, DeadOK, Standing
  <1>6. CASE EndArrive \/ EndSpawn \/ EndThink \/ EndChase \/ EndFollow \/ Gather \/ EndTick
    <2>1. UNCHANGED <<live, mobs, dead>>
      BY <1>6 DEF EndArrive, EndSpawn, EndThink, EndChase, EndFollow, Gather, EndTick,
                  worldVars, bodyVars
    <2>2. CASE EndArrive \/ EndFollow \/ Gather \/ EndTick
      BY <2>1, <2>2 DEF EndArrive, EndFollow, Gather, EndTick, Enter, LoopOK
    <2>3. CASE EndSpawn
      BY <2>1, <2>3 DEF EndSpawn, Enter, LoopOK
    <2>4. CASE EndThink
      BY <2>1, <2>4 DEF EndThink, Enter, LoopOK
    <2>5. CASE EndChase
      <3>1. {i \in live : route[i] # <<>> /\ walkTo[i] = NoTile} \subseteq live \ dead
        BY DEF DeadOK, DeadHoldNothing
      <3> QED BY <2>1, <2>5, <3>1 DEF EndChase, Enter, LoopOK
    <2> QED BY <1>6, <2>2, <2>3, <2>4, <2>5
  <1>7. ASSUME NEW i \in NetIds, Arrive(i) PROVE LoopOK'
    <2>1. /\ phase = "arrive" /\ i \in todo /\ todo' = todo \ {i} /\ phase' = phase
          /\ i \in live /\ walkTo[i] # NoTile
      BY <1>7 DEF Arrive, Handled, LoopOK
    <2>2. OnlyFor(i) /\ live' = live
      BY <1>7, <2>1, LandKeeps DEF Arrive, DeadOK
    <2> QED BY <2>1, <2>2, LiveAreIds DEF LoopOK, OnlyFor, DeadOK
  <1>8. ASSUME NEW i \in NetIds, Think(i) \/ Chase(i) \/ Follow(i) PROVE LoopOK'
    <2>1. /\ phase \in {"think", "chase", "follow"} /\ phase' = phase /\ todo' = todo \ {i}
          /\ UNCHANGED <<mobs, dead>>
      BY <1>8 DEF Think, Chase, Follow, Handled, bodyVars
    <2>2. live' = live
      BY <1>8 DEF Think, Hunt, Idle, Chase, GiveUp, Halt, KeepGoing, Plan, Follow, FollowRoute,
                  worldVars
    <2> QED BY <2>1, <2>2 DEF LoopOK
  <1>9. ASSUME NEW i \in NetIds, Revive(i) PROVE LoopOK'
    BY <1>9 DEF Revive, Handled, RespawnActor, LoopOK
  <1> QED BY <1>2, <1>3, <1>4, <1>5, <1>6, <1>7, <1>8, <1>9 DEF Next, Tick

LEMMA DeadStep ==
    ASSUME DeadOK, LoopOK, ~DeadInput, Next
    PROVE  DeadOK'
  <1>1. CASE Input
    BY <1>1, InputKeeps
  <1>2. CASE \E tile \in Walkable : Birth(tile)
    BY <1>2, PlaceKeeps DEF Birth
  <1>3. CASE \E s \in swings : Strike(s)
    BY <1>3, StrikeKeeps
  <1>4. CASE BeginTick \/ EndArrive \/ EndSpawn \/ EndThink \/ EndChase \/ EndFollow \/ EndTick
    BY <1>4, Unmoved DEF BeginTick, EndArrive, EndSpawn, EndThink, EndChase, EndFollow, EndTick,
                         worldVars, bodyVars, attackVars
  <1>5. CASE Gather
    BY <1>5, GatherKeeps
  <1>6. ASSUME NEW i \in NetIds,
               Arrive(i) \/ Think(i) \/ Chase(i) \/ Follow(i) \/ Revive(i)
        PROVE  DeadOK'
    <2>1. CASE Arrive(i)
      BY <2>1, ArriveKeeps DEF Arrive, Handled, LoopOK
    <2>2. CASE Think(i)
      BY <2>2, ThinkKeeps DEF Think, Handled, LoopOK
    <2>3. CASE Chase(i)
      BY <2>3, ChaseKeeps DEF Chase, Handled, LoopOK
    <2>4. CASE Follow(i)
      BY <2>4, FollowKeeps DEF Follow, Handled, LoopOK
    <2>5. CASE Revive(i)
      BY <2>5, ReviveKeeps DEF Revive, Handled, LoopOK, attackVars
    <2> QED BY <1>6, <2>1, <2>2, <2>3, <2>4, <2>5
  <1> QED BY <1>1, <1>2, <1>3, <1>4, <1>5, <1>6 DEF Next, Tick

(* DeadHoldNothing of Combat: as long as players do not steer their dead   *)
(* bodies, whoever carries a CDead has no entry in occupancy_, no step     *)
(* under way, no route and no target, from the blow that killed it to the  *)
(* tick that brings it back.                                               *)
THEOREM DeadAreOut ==
    ASSUME ~DeadInput
    PROVE  Spec => []DeadHoldNothing
  <1>1. Init => DeadOK /\ LoopOK
    <2> SUFFICES ASSUME Init PROVE DeadOK /\ LoopOK
      OBVIOUS
    <2>1. Standing
      BY WorldAssumption DEF Init, WorldInit, Standing, Held
    <2>2. Bodies /\ DeadHoldNothing /\ LoopOK
      BY DEF Init, WorldInit, Zero, Bodies, DeadHoldNothing, LoopOK
    <2> QED BY <2>1, <2>2 DEF DeadOK
  <1>2. (DeadOK /\ LoopOK) /\ [Next]_vars => (DeadOK /\ LoopOK)'
    <2>1. ASSUME DeadOK, LoopOK, UNCHANGED vars PROVE DeadOK' /\ LoopOK'
      BY <2>1, Unmoved DEF vars, worldVars, loopVars, bodyVars, attackVars, LoopOK
    <2> QED BY <2>1, DeadStep, LoopKept
  <1>3. DeadOK => DeadHoldNothing
    BY DEF DeadOK
  <1> QED BY <1>1, <1>2, <1>3, PTL DEF Spec

----------------------------------------------------------------------------
(* The swing clock.  Nobody without a target has one running, so a target  *)
(* that is dropped or replaced never leaves a clock to be cut short.       *)

ClockOK ==
    /\ nextId \in Nat \ {0} /\ live \subseteq NetIds
    /\ swing \in [NetIds -> Nat]
    /\ target = [i \in NetIds |-> target[i]]
    /\ \A i \in NetIds : target[i] = NoActor => swing[i] = 0

(* Nobody who keeps its target has its clock wound back. *)
NoRewind == \A i \in NetIds : target'[i] = target[i] => swing'[i] >= swing[i]

IdsKept == nextId' = nextId /\ live' \subseteq live

LEMMA SetTargetClock ==
    ASSUME ClockOK, NEW i \in NetIds, NEW j, SetTarget(i, j), IdsKept
    PROVE  ClockOK' /\ NoRewind
  <1>1. CASE UNCHANGED attackVars
    BY <1>1 DEF attackVars, ClockOK, NoRewind, IdsKept
  <1>2. CASE /\ ~(j = target[i] /\ j # NoActor)
             /\ target' = [target EXCEPT ![i] = IF j = i THEN NoActor ELSE j]
             /\ swing' = [swing EXCEPT ![i] = 0]
    <2> DEFINE new == IF j = i THEN NoActor ELSE j
    <2>1. target' = [target EXCEPT ![i] = new]
      BY <1>2
    <2>2. target[i] = new => swing[i] = 0
      BY <1>2 DEF ClockOK, NoActor
    <2> HIDE DEF new
    <2>3. ClockOK'
      BY <2>1, <1>2 DEF ClockOK, IdsKept
    <2> QED BY <2>1, <2>2, <2>3, <1>2 DEF ClockOK, NoRewind
  <1> QED BY <1>1, <1>2 DEF SetTarget

LEMMA DropTargetClock ==
    ASSUME ClockOK, NEW i, target' = [target EXCEPT ![i] = NoActor],
           swing' = [swing EXCEPT ![i] = 0], IdsKept
    PROVE  ClockOK' /\ NoRewind
  <1>1. /\ swing' \in [NetIds -> Nat]
        /\ target' = [j \in NetIds |-> target'[j]]
    BY DEF ClockOK
  <1>2. ASSUME NEW j \in NetIds
        PROVE  /\ target'[j] = IF j = i THEN NoActor ELSE target[j]
               /\ swing'[j] = IF j = i THEN 0 ELSE swing[j]
    BY DEF ClockOK
  <1>3. \A j \in NetIds : target'[j] = NoActor => swing'[j] = 0
    BY <1>2 DEF ClockOK
  <1>4. NoRewind
    BY <1>1, <1>2 DEF ClockOK, NoRewind
  <1> QED BY <1>1, <1>3, <1>4 DEF ClockOK, IdsKept

LEMMA StillClock ==
    ASSUME ClockOK, UNCHANGED attackVars, IdsKept
    PROVE  ClockOK' /\ NoRewind
  BY DEF ClockOK, NoRewind, IdsKept, attackVars

LEMMA PlaceClock ==
    ASSUME ClockOK, NEW tile, NEW more, Place(tile, more)
    PROVE  ClockOK' /\ NoRewind
  BY WorldAssumption DEF ClockOK, NoRewind, Place, SpawnActor, NetIds, attackVars

LEMMA GatherClock ==
    ASSUME ClockOK, Gather
    PROVE  ClockOK' /\ NoRewind
  <1>0. Cooldown \in Nat
    BY CombatAssumption
  <1>1. UNCHANGED <<nextId, live>>
    BY DEF Gather, worldVars
  <1>2. ASSUME NEW i \in NetIds
        PROVE  /\ target'[i] = IF i \in Attackers /\ Gone(target[i]) THEN NoActor ELSE target[i]
               /\ swing'[i] = IF i \in Attackers /\ Gone(target[i]) THEN 0
                       ELSE IF i \in Attackers /\ Hitting(i) THEN Cooldown ELSE swing[i]
    BY <1>2 DEF Gather
  <1>3. /\ target' = [i \in NetIds |-> target'[i]]
        /\ swing' \in [NetIds -> Nat]
    BY <1>0 DEF Gather, ClockOK
  <1>4. ASSUME NEW i \in NetIds
        PROVE  /\ i \in Attackers => target[i] # NoActor
               /\ Hitting(i) => swing[i] = 0
    BY DEF Attackers, Hitting
  <1>5. \A i \in NetIds : target'[i] = NoActor => swing'[i] = 0
    BY <1>2, <1>4 DEF ClockOK
  <1>6. NoRewind
    BY <1>0, <1>2, <1>4 DEF ClockOK, NoRewind
  <1> QED BY <1>1, <1>3, <1>5, <1>6 DEF ClockOK

LEMMA BeginClock ==
    ASSUME ClockOK, BeginTick
    PROVE  ClockOK' /\ phase = "input" /\ phase' = "arrive"
  <1>1. /\ UNCHANGED <<nextId, live, target>>
        /\ swing' = [i \in NetIds |-> IF swing[i] > 0 THEN swing[i] - 1 ELSE 0]
    BY DEF BeginTick, Down
  <1>2. phase = "input" /\ phase' = "arrive"
    BY DEF BeginTick, Enter
  <1> QED BY <1>1, <1>2 DEF ClockOK

LEMMA StrikeClock ==
    ASSUME ClockOK, NEW s, Strike(s)
    PROVE  ClockOK' /\ NoRewind
  <1>1. CASE UNCHANGED attackVars /\ IdsKept
    BY <1>1, StillClock
  <1>2. CASE Kill(s[2])
    <2>1. IdsKept
      BY <1>2 DEF Kill, IdsKept
    <2> QED BY <1>2, <2>1, DropTargetClock DEF Kill
  <1>3. CASE Forget(s[2])
    <2>1. IdsKept
      BY <1>3 DEF Forget, DespawnActor, IdsKept
    <2> QED BY <1>3, <2>1, DropTargetClock DEF Forget
  <1> QED BY <1>1, <1>2, <1>3 DEF Strike, ApplyDamage, IdsKept, worldVars

LEMMA ThinkClock ==
    ASSUME ClockOK, NEW i \in NetIds, Think(i)
    PROVE  ClockOK' /\ NoRewind
  <1>1. ASSUME Hunt(i) PROVE IdsKept /\ \E j : SetTarget(i, j)
    BY <1>1 DEF Hunt, IdsKept, worldVars
  <1>2. ASSUME Idle(i) PROVE IdsKept /\ SetTarget(i, NoActor)
    BY <1>2 DEF Idle, IdsKept, worldVars
  <1> QED BY <1>1, <1>2, SetTargetClock DEF Think

LEMMA ClockStep ==
    ASSUME ClockOK, [Next]_vars
    PROVE  ClockOK' /\ (NoRewind \/ (phase = "input" /\ phase' = "arrive"))
  <1>1. ASSUME UNCHANGED vars PROVE ClockOK' /\ NoRewind
    BY <1>1, StillClock DEF vars, worldVars, IdsKept
  <1>2. ASSUME NEW tile, Join(tile) \/ Birth(tile) PROVE ClockOK' /\ NoRewind
    BY <1>2, PlaceClock DEF Join, Birth
  <1>3. ASSUME NEW i \in NetIds, Leave(i) PROVE ClockOK' /\ NoRewind
    <2>1. IdsKept
      BY <1>3 DEF Leave, Forget, DespawnActor, IdsKept
    <2> QED BY <1>3, <2>1, DropTargetClock DEF Leave, Forget
  <1>4. ASSUME NEW i \in NetIds, NEW j, Attack(i, j) PROVE ClockOK' /\ NoRewind
    BY <1>4, SetTargetClock DEF Attack, worldVars, IdsKept
  <1>5. ASSUME NEW i \in NetIds,
               \/ InputTurn(i) \/ \E d \in Directions : InputWalk(i, d)
               \/ \E tile \in Tiles : MoveTo(i, tile)
        PROVE  ClockOK' /\ NoRewind
    BY <1>5, StillClock DEF InputTurn, InputWalk, MoveTo, IdsKept
  <1>6. ASSUME BeginTick PROVE ClockOK' /\ phase = "input" /\ phase' = "arrive"
    BY <1>6, BeginClock
  <1>7. ASSUME EndArrive \/ EndSpawn \/ EndThink \/ EndChase \/ EndFollow \/ EndTick
        PROVE  ClockOK' /\ NoRewind
    BY <1>7, StillClock
    DEF EndArrive, EndSpawn, EndThink, EndChase, EndFollow, EndTick, worldVars, IdsKept
  <1>8. ASSUME Gather PROVE ClockOK' /\ NoRewind
    BY <1>8, GatherClock
  <1>9. ASSUME NEW i \in NetIds, Arrive(i) \/ Chase(i) \/ Follow(i) \/ Revive(i)
        PROVE  ClockOK' /\ NoRewind
    <2>1. IdsKept
      <3>1. CASE Arrive(i)
        BY <3>1 DEF Arrive, Land, IdsKept
      <3>2. CASE Chase(i)
        BY <3>2 DEF Chase, GiveUp, Halt, KeepGoing, Plan, worldVars, IdsKept
      <3>3. CASE Follow(i)
        BY <3>3 DEF Follow, FollowRoute, IdsKept
      <3>4. CASE Revive(i)
        BY <3>4 DEF Revive, RespawnActor, IdsKept
      <3> QED BY <1>9, <3>1, <3>2, <3>3, <3>4
    <2> QED BY <1>9, <2>1, StillClock DEF Arrive, Chase, Follow, Revive
  <1>10. ASSUME NEW i \in NetIds, Think(i) PROVE ClockOK' /\ NoRewind
    BY <1>10, ThinkClock
  <1>11. ASSUME NEW s, Strike(s) PROVE ClockOK' /\ NoRewind
    BY <1>11, StrikeClock
  <1>12. Input => ClockOK' /\ NoRewind
    BY <1>2, <1>3, <1>4, <1>5 DEF Input
  <1>13. ASSUME Tick PROVE ClockOK' /\ (NoRewind \/ (phase = "input" /\ phase' = "arrive"))
    <2>1. CASE \E i \in NetIds : Arrive(i) \/ Think(i) \/ Chase(i) \/ Follow(i) \/ Revive(i)
      BY <2>1, <1>9, <1>10
    <2>2. CASE \E s \in swings : Strike(s)
      BY <2>2, <1>11
    <2>3. CASE BeginTick
      BY <2>3, <1>6
    <2>4. CASE Gather
      BY <2>4, <1>8
    <2>5. CASE EndArrive \/ EndSpawn \/ EndThink \/ EndChase \/ EndFollow \/ EndTick
      BY <2>5, <1>7
    <2> QED BY <1>13, <2>1, <2>2, <2>3, <2>4, <2>5 DEF Tick
  <1>14. ASSUME NEW tile, Birth(tile) PROVE ClockOK' /\ NoRewind
    BY <1>14, <1>2
  <1> QED BY <1>1, <1>12, <1>13, <1>14 DEF Next

(* SwingClockKept of Combat: keeping a target, or naming it again at every *)
(* thought, never makes the next blow come sooner than the clock says.     *)
THEOREM SwingClocks == Spec => SwingClockKept
  <1> DEFINE Kept == \A i \in live \cap live' :
                        swing'[i] < swing[i] /\ target'[i] = target[i] =>
                            phase = "input" /\ phase' = "arrive"
  <1>1. Init => ClockOK
    BY DEF Init, WorldInit, ClockOK, Zero, NoActor
  <1>2. ClockOK /\ [Next]_vars => ClockOK'
    BY ClockStep
  <1>3. ClockOK /\ [Next]_vars => [Kept]_vars
    <2> SUFFICES ASSUME ClockOK, [Next]_vars, NEW i \in live \cap live',
                        swing'[i] < swing[i], target'[i] = target[i]
                 PROVE  phase = "input" /\ phase' = "arrive"
      OBVIOUS
    <2>1. i \in NetIds /\ swing[i] \in Nat /\ swing'[i] \in Nat
      BY ClockStep DEF ClockOK
    <2> QED BY <2>1, ClockStep DEF NoRewind
  <1> QED BY <1>1, <1>2, <1>3, PTL DEF Spec, SwingClockKept
=============================================================================

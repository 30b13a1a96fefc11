------------------------------- MODULE World -------------------------------
(***************************************************************************)
(* The state of sim::World that movement turns on, and the World methods   *)
(* that read and write it.  No specification of its own: Movement and      *)
(* Combat compose these operators into the handlers and the tick.          *)
(*                                                                         *)
(* Every map keyed by an actor is a total function on NetIds; an id that   *)
(* is not live has the default value.  A deadline (CWalk::end_tick) is     *)
(* kept as the ticks that remain, so the clock itself needs no variable.   *)
(* CPosition::facing is left out: nothing in the world's rules reads it.   *)
(***************************************************************************)
EXTENDS Tiles, FiniteSets

CONSTANTS
    MaxId,        \* bound: how many NetIds are ever allocated
    NoTile,       \* stands for an absent CWalk
    StepTicks,    \* [id -> ticks of one cardinal step], CActor::step_ticks
    Route,        \* [from -> [to -> path]], what Pathfinder::find returns
    GiveUpTicks   \* kPathBlockedGiveUpTicks

NoActor == 0      \* kInvalidNetId
NetIds  == 1..MaxId

ASSUME WorldAssumption ==
    /\ MaxId \in Nat \ {0}
    /\ NoTile \notin Tiles
    /\ StepTicks \in [NetIds -> Nat \ {0}]
    /\ GiveUpTicks \in Nat \ {0}

ASSUME RouteAssumption ==
    /\ Route \in [Tiles -> [Tiles -> Seq(Walkable)]]
    /\ \A from, to \in Tiles : IsRoute(from, to, Route[from][to])

VARIABLES
    live,      \* the ids World::lookup finds
    nextId,    \* next_net_id_
    pos,       \* CPosition::tile
    walkTo,    \* CWalk::to, or NoTile
    left,      \* CWalk::end_tick - tick_
    occ,       \* occupancy_: [tile -> id], NoActor when there is no entry
    route,     \* CPathFollow: what is left of the path, <<>> when absent
    blocked    \* CPathFollow::blocked_ticks

worldVars == <<live, nextId, pos, walkTo, left, occ, route, blocked>>

WorldInit ==
    /\ live = {}
    /\ nextId = 1
    /\ pos = [i \in NetIds |-> NoTile]
    /\ walkTo = [i \in NetIds |-> NoTile]
    /\ left = [i \in NetIds |-> 0]
    /\ occ = [t \in Tiles |-> NoActor]
    /\ route = [i \in NetIds |-> <<>>]
    /\ blocked = [i \in NetIds |-> 0]

WorldTypeOK ==
    /\ live \subseteq 1..(nextId - 1)
    /\ nextId \in 1..(MaxId + 1)
    /\ pos \in [NetIds -> Walkable \cup {NoTile}]
    /\ walkTo \in [NetIds -> Walkable \cup {NoTile}]
    /\ left \in [NetIds -> Nat]
    /\ occ \in [Tiles -> NetIds \cup {NoActor}]
    /\ route \in [NetIds -> Seq(Walkable)]
    /\ blocked \in [NetIds -> 0..(GiveUpTicks - 1)]
    /\ \A i \in live : pos[i] # NoTile
    /\ \A i \in NetIds \ live : walkTo[i] = NoTile /\ route[i] = <<>>

----------------------------------------------------------------------------
(* occupy and vacate, as functions of the occupancy table. *)

Occupy(table, tile, i) == [table EXCEPT ![tile] = i]

(* Only the holder releases a tile. *)
Vacate(table, tile, i) ==
    IF tile # NoTile /\ table[tile] = i THEN [table EXCEPT ![tile] = NoActor] ELSE table

(* The tile an actor answers for: where it is going, else where it stands. *)
Claim(i) == IF walkTo[i] = NoTile THEN pos[i] ELSE walkTo[i]

Free(tile, i) == occ[tile] \in {NoActor, i}

----------------------------------------------------------------------------
(* spawn_actor, with allocate_net_id; despawn. *)

SpawnActor(tile) ==
    /\ nextId <= MaxId
    /\ nextId' = nextId + 1
    /\ live' = live \cup {nextId}
    /\ pos' = [pos EXCEPT ![nextId] = tile]
    /\ occ' = Occupy(occ, tile, nextId)
    /\ UNCHANGED <<walkTo, left, route, blocked>>

(* Faulty: the tile under way to is forgotten. *)
DespawnInPlace(i) ==
    /\ live' = live \ {i}
    /\ occ' = Vacate(occ, pos[i], i)
    /\ pos' = [pos EXCEPT ![i] = NoTile]
    /\ walkTo' = [walkTo EXCEPT ![i] = NoTile]
    /\ left' = [left EXCEPT ![i] = 0]
    /\ route' = [route EXCEPT ![i] = <<>>]
    /\ blocked' = [blocked EXCEPT ![i] = 0]
    /\ UNCHANGED nextId

DespawnActor(i) ==
    /\ live' = live \ {i}
    /\ occ' = Vacate(Vacate(occ, pos[i], i), walkTo[i], i)
    /\ pos' = [pos EXCEPT ![i] = NoTile]
    /\ walkTo' = [walkTo EXCEPT ![i] = NoTile]
    /\ left' = [left EXCEPT ![i] = 0]
    /\ route' = [route EXCEPT ![i] = <<>>]
    /\ blocked' = [blocked EXCEPT ![i] = 0]
    /\ UNCHANGED nextId

(* Faulty: a walk is granted on top of a walk. *)
WalkMidStep(i, d) ==
    /\ CanTraverse(pos[i], d)
    /\ Free(TileStep(pos[i], d), i)

(* Faulty: nobody looks who is there. *)
WalkBlindly(i, d) ==
    /\ walkTo[i] = NoTile
    /\ CanTraverse(pos[i], d)

(* request_walk: refused mid-step, and where can_enter says no. *)
WalkAllowed(i, d) ==
    /\ walkTo[i] = NoTile
    /\ CanTraverse(pos[i], d)
    /\ Free(TileStep(pos[i], d), i)

StepDuration(i, d) ==
    IF IsDiagonal(d) THEN (StepTicks[i] * 3) \div 2 ELSE StepTicks[i]

(* Faulty: the old tile is not released. *)
StartWalkKeeping(i, d) ==
    LET target == TileStep(pos[i], d)
    IN  /\ walkTo' = [walkTo EXCEPT ![i] = target]
        /\ left' = [left EXCEPT ![i] = StepDuration(i, d)]
        /\ occ' = Occupy(occ, target, i)

StartWalk(i, d) ==
    LET target == TileStep(pos[i], d)
    IN  /\ walkTo' = [walkTo EXCEPT ![i] = target]
        /\ left' = [left EXCEPT ![i] = StepDuration(i, d)]
        /\ occ' = Occupy(Vacate(occ, pos[i], i), target, i)

RequestWalk(i, d) ==
    IF WalkAllowed(i, d) THEN StartWalk(i, d) ELSE UNCHANGED <<walkTo, left, occ>>

(* cancel_path and stop_path drop the route; request_move_to replaces it,  *)
(* planning from the tile the actor will be on.                            *)
SetRoute(i, r) ==
    /\ route' = [route EXCEPT ![i] = r]
    /\ blocked' = [blocked EXCEPT ![i] = 0]

DropRoute(i) == SetRoute(i, <<>>)

(* Faulty: planned from the tile it is leaving. *)
RequestMoveFromHere(i, target) == SetRoute(i, Route[pos[i]][target])

RequestMoveTo(i, target) == SetRoute(i, Route[Claim(i)][target])

(* Faulty: a stair or portal does not ask who is on the other side. *)
LandingsCrowded(i) == TransitionDestination(walkTo[i]) \cap Walkable

(* step, for one arrived actor: land, then apply_tile_transition, which    *)
(* does nothing into rock, off the map or onto another actor.              *)
Landings(i) ==
    {d \in TransitionDestination(walkTo[i]) : d \in Walkable /\ Free(d, i)}

Land(i) ==
    /\ walkTo' = [walkTo EXCEPT ![i] = NoTile]
    /\ left' = [left EXCEPT ![i] = 0]
    /\ IF Landings(i) = {}
       THEN /\ pos' = [pos EXCEPT ![i] = walkTo[i]]
            /\ UNCHANGED <<occ, route, blocked>>
       ELSE \E dest \in Landings(i) :
            /\ pos' = [pos EXCEPT ![i] = dest]
            /\ occ' = Occupy(Vacate(occ, walkTo[i], i), dest, i)
            /\ DropRoute(i)
    /\ UNCHANGED <<live, nextId>>

(* Faulty: waiting for a blocked tile is not counted. *)
WaitIdly(i) == UNCHANGED <<route, blocked>>

(* The next tile is taken: wait a little for it. *)
WaitTurn(i) ==
    /\ blocked' = [blocked EXCEPT ![i] = @ + 1]
    /\ UNCHANGED route

(* update_path_followers, for one actor that is not mid-step. *)
FollowRoute(i) ==
    LET want    == Head(route[i])
        dirs    == DirectionsBetween(pos[i], want)
        opening == {d \in dirs : WalkAllowed(i, d)}
    IN  /\ \/ /\ opening # {}
              /\ \E d \in opening : StartWalk(i, d)
              /\ SetRoute(i, Tail(route[i]))
           \/ /\ opening = {}
              /\ IF dirs = {} \/ blocked[i] + 1 >= GiveUpTicks
                 THEN DropRoute(i)
                 ELSE WaitTurn(i)
              /\ UNCHANGED <<walkTo, left, occ>>
        /\ UNCHANGED <<live, nextId, pos>>
=============================================================================

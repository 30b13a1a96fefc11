----------------------------- MODULE Movement -----------------------------
(***************************************************************************)
(* The world with nobody fighting: actors enter, are steered, and the      *)
(* server's loop alternates between draining messages ("input") and one    *)
(* simulation tick, which lands the steps that have ended ("arrive") and   *)
(* then moves those who follow a route ("follow").                         *)
(*                                                                         *)
(* Each loop of the tick handles its actors one by one, in the order of an *)
(* entt view, which the code does not choose: any order.                   *)
(***************************************************************************)
EXTENDS World

CONSTANT
    SpawnFallback   \* TRUE: a login may fall back to find_spawn_tile

ASSUME SpawnFallbackAssumption == SpawnFallback \in BOOLEAN

VARIABLES
    phase,     \* which loop the server is in
    todo       \* the actors that loop has still to handle

vars == <<worldVars, phase, todo>>

Phases == {"input", "arrive", "follow"}

Init ==
    /\ WorldInit
    /\ phase = "input"
    /\ todo = {}

----------------------------------------------------------------------------
(* What players and content do, between ticks. *)

(* A monster is placed on a free walkable tile, and so is a player whose   *)
(* saved or authored tile is usable; the last resort of handle_hello, a    *)
(* random walkable tile, is not asked who stands there.                    *)
Spawn(tile) ==
    /\ phase = "input"
    /\ occ[tile] = NoActor \/ SpawnFallback
    /\ SpawnActor(tile)
    /\ UNCHANGED <<phase, todo>>

(* The peer went away. *)
Despawn(i) ==
    /\ phase = "input"
    /\ i \in live
    /\ DespawnActor(i)
    /\ UNCHANGED <<phase, todo>>

(* C2S_Input: the route is cancelled whether or not the step is granted. *)
InputWalk(i, d) ==
    /\ phase = "input"
    /\ i \in live
    /\ DropRoute(i)
    /\ RequestWalk(i, d)
    /\ UNCHANGED <<live, nextId, pos, phase, todo>>

InputTurn(i) ==
    /\ phase = "input"
    /\ i \in live
    /\ DropRoute(i)
    /\ UNCHANGED <<live, nextId, pos, walkTo, left, occ, phase, todo>>

(* C2S_MoveTo: the target comes off the wire, so it is any tile. *)
MoveTo(i, target) ==
    /\ phase = "input"
    /\ i \in live
    /\ RequestMoveTo(i, target)
    /\ UNCHANGED <<live, nextId, pos, walkTo, left, occ, phase, todo>>

----------------------------------------------------------------------------
(* One tick. *)

Walking == {i \in NetIds : walkTo[i] # NoTile}

(* ++tick_, and the walks it ends are collected. *)
BeginTick ==
    /\ phase = "input"
    /\ phase' = "arrive"
    /\ left' = [i \in NetIds |-> IF i \in Walking THEN left[i] - 1 ELSE 0]
    /\ todo' = {i \in Walking : left[i] <= 1}
    /\ UNCHANGED <<live, nextId, pos, walkTo, occ, route, blocked>>

Arrive(i) ==
    /\ phase = "arrive"
    /\ i \in todo
    /\ todo' = todo \ {i}
    /\ Land(i)
    /\ UNCHANGED phase

(* Faulty: followers are not asked whether they are mid-step. *)
EndArriveCareless ==
    /\ phase = "arrive"
    /\ todo = {}
    /\ phase' = "follow"
    /\ todo' = {i \in live : route[i] # <<>>}
    /\ UNCHANGED worldVars

(* The followers are those with a route who are not mid-step. *)
EndArrive ==
    /\ phase = "arrive"
    /\ todo = {}
    /\ phase' = "follow"
    /\ todo' = {i \in live : route[i] # <<>> /\ walkTo[i] = NoTile}
    /\ UNCHANGED worldVars

Follow(i) ==
    /\ phase = "follow"
    /\ i \in todo
    /\ todo' = todo \ {i}
    /\ FollowRoute(i)
    /\ UNCHANGED phase

EndTick ==
    /\ phase = "follow"
    /\ todo = {}
    /\ phase' = "input"
    /\ UNCHANGED <<worldVars, todo>>

Tick ==
    \/ BeginTick \/ EndArrive \/ EndTick
    \/ \E i \in NetIds : Arrive(i) \/ Follow(i)

Next ==
    \/ \E tile \in Walkable : Spawn(tile)
    \/ \E i \in NetIds :
          \/ Despawn(i) \/ InputTurn(i)
          \/ \E d \in Directions : InputWalk(i, d)
          \/ \E target \in Tiles : MoveTo(i, target)
    \/ Tick

Spec == Init /\ [][Next]_vars

(* The server's loop always comes back to the next tick; nobody is obliged *)
(* to connect, steer or leave.                                             *)
FairSpec == Spec /\ WF_vars(Tick)

----------------------------------------------------------------------------
TypeOK ==
    /\ WorldTypeOK
    /\ phase \in Phases
    /\ todo \subseteq live
    /\ phase = "input" => todo = {}
    /\ phase = "arrive" => \A i \in todo : walkTo[i] # NoTile
    /\ phase = "follow" => \A i \in todo : route[i] # <<>> /\ walkTo[i] = NoTile
    /\ \A i \in Walking \ todo : left[i] > 0

(* No two actors answer for the same tile: not both standing on it, not    *)
(* one on it and one on its way, not both on their way (the promise of     *)
(* request_walk's comment and of the README, world.cpp:133).               *)
Exclusive ==
    \A i, j \in live : i # j => Claim(i) # Claim(j)

(* occupancy_ says exactly who answers for which tile: nobody blocks a     *)
(* tile without being there, and nobody is there without blocking it.      *)
OccupancyExact ==
    \A t \in Tiles, i \in NetIds : occ[t] = i <=> (i \in live /\ Claim(i) = t)

(* What of it survives even a crowded login: an entry never names an actor *)
(* that has left or gone elsewhere, so no tile stays closed for good.      *)
NoGhost ==
    \A t \in Tiles : occ[t] # NoActor => occ[t] \in live /\ Claim(occ[t]) = t

(* A stored route starts with a step that is legal from where its follower *)
(* will next stand, so a follower never walks through geometry that was    *)
(* not checked (the comment on apply_tile_transition's last line).         *)
RouteAnchored ==
    \A i \in live : route[i] # <<>> => LegalStep(Claim(i), Head(route[i]))

(* Every step that starts ends, however much input arrives. *)
StepsEnd ==
    \A i \in NetIds : walkTo[i] # NoTile ~> walkTo[i] = NoTile

(* Once nobody asks for a new destination every route ends, walked or      *)
(* given up, even by actors that block each other for ever.                *)
RoutesEnd ==
    <>[][~ \E i \in NetIds, target \in Tiles : MoveTo(i, target)]_vars =>
        \A i \in NetIds : []<>(route[i] = <<>>)

(* The abstract promise, with each actor's claim read off the world.       *)
Claims == INSTANCE TileClaims
    WITH Actors  <- NetIds,
         Nowhere <- NoTile,
         claim   <- [i \in NetIds |-> IF i \in live THEN Claim(i) ELSE NoTile]

(* Every step of the server moves at most one actor, to a tile nobody      *)
(* holds, by a step or a transition the map allows; or it moves nobody.    *)
HoldsClaims == Claims!Spec
=============================================================================

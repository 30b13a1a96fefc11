----------------------------- MODULE Spawners -----------------------------
(***************************************************************************)
(* Nests that keep a population up (update_spawners) in a world where      *)
(* others come, walk and go.  Each tick the spawners first choose a tile,  *)
(* one after the other, and only then are all the births carried out:      *)
(* what a spawner saw free when it chose may be taken when it places.      *)
(*                                                                         *)
(* next_spawn_tick is kept as the ticks that remain.                       *)
(***************************************************************************)
EXTENDS World

CONSTANTS
    Nests,       \* the entities with a CSpawner
    Area,        \* [nest -> tiles its rejection sampling may draw]
    MaxAlive,    \* [nest -> CSpawner::max_alive]
    Period       \* [nest -> CSpawner::respawn_ticks]

ASSUME SpawnersAssumption ==
    /\ Nests # {} /\ IsFiniteSet(Nests)
    /\ Area \in [Nests -> SUBSET Positions]
    /\ MaxAlive \in [Nests -> Nat]
    /\ Period \in [Nests -> Nat]

VARIABLES
    phase, todo,   \* the loop of the tick, and whom it has still to handle
    children,      \* [nest -> ids it created and has not yet found dead]
    due,           \* [nest -> next_spawn_tick - tick_]
    births,        \* the pairs <<nest, tile>> chosen this tick
    calm           \* history: ticks since a child of the nest last died, capped

nestVars == <<children, due, births>>
vars == <<worldVars, phase, todo, nestVars, calm>>

Init ==
    /\ WorldInit
    /\ phase = "input" /\ todo = {} /\ births = {}
    /\ children = [n \in Nests |-> {}]
    /\ due = [n \in Nests |-> 0]
    /\ calm = Period

----------------------------------------------------------------------------
(* The rest of the world, between ticks. *)

Enter(tile) ==
    /\ phase = "input"
    /\ occ[tile] = NoActor
    /\ SpawnActor(tile)
    /\ UNCHANGED <<phase, todo, nestVars, calm>>

(* A player leaves or a mob is killed; the nest learns of it next tick. *)
Go(i) ==
    /\ phase = "input"
    /\ i \in live
    /\ DespawnActor(i)
    /\ calm' = [n \in Nests |-> IF i \in children[n] THEN 0 ELSE calm[n]]
    /\ UNCHANGED <<phase, todo, nestVars>>

Walk(i, d) ==
    /\ phase = "input"
    /\ i \in live
    /\ RequestWalk(i, d)
    /\ UNCHANGED <<live, nextId, pos, route, blocked, phase, todo, nestVars, calm>>

Walking == {i \in NetIds : walkTo[i] # NoTile}

BeginTick ==
    /\ phase = "input"
    /\ phase' = "arrive"
    /\ todo' = {i \in Walking : left[i] <= 1}
    /\ left' = [i \in NetIds |-> IF i \in Walking THEN left[i] - 1 ELSE 0]
    /\ due' = [n \in Nests |-> IF due[n] > 0 THEN due[n] - 1 ELSE 0]
    /\ calm' = [n \in Nests |-> IF calm[n] < Period[n] THEN calm[n] + 1 ELSE calm[n]]
    /\ UNCHANGED <<live, nextId, pos, walkTo, occ, route, blocked, children, births>>

Arrive(i) ==
    /\ phase = "arrive"
    /\ i \in todo
    /\ todo' = todo \ {i}
    /\ Land(i)
    /\ UNCHANGED <<phase, nestVars, calm>>

EndArrive ==
    /\ phase = "arrive" /\ todo = {}
    /\ phase' = "choose"
    /\ todo' = Nests
    /\ UNCHANGED <<worldVars, nestVars, calm>>

----------------------------------------------------------------------------
(* update_spawners. *)

FreeTiles(n) == {t \in Area[n] \cap Walkable : occ[t] = NoActor}

Alive(n) == children[n] \cap live

(* Faulty: one more than the author allowed. *)
OneShort(n) == Cardinality(Alive(n)) <= MaxAlive[n]

Short(n) == Cardinality(Alive(n)) < MaxAlive[n]

(* Faulty: a death leaves the clock alone. *)
OldClock(n) == due[n]

(* A death starts the clock. *)
Clock(n) == IF Alive(n) # children[n] THEN Period[n] ELSE due[n]

(* The gathering loop, for one nest: forget the dead; then, short of       *)
(* children and due, draw.  A dozen draws may all miss unless every tile   *)
(* of the area would do.                                                   *)
Choose(n) ==
    /\ phase = "choose"
    /\ n \in todo
    /\ todo' = todo \ {n}
    /\ children' = [children EXCEPT ![n] = Alive(n)]
    /\ due' = [due EXCEPT ![n] = Clock(n)]
    /\ \/ /\ ~Short(n) \/ Clock(n) > 0 \/ FreeTiles(n) # Area[n]
          /\ UNCHANGED births
       \/ /\ Short(n) /\ Clock(n) = 0
          /\ \E t \in FreeTiles(n) : births' = births \cup {<<n, t>>}
    /\ UNCHANGED <<worldVars, phase, calm>>

EndChoose ==
    /\ phase = "choose" /\ todo = {}
    /\ phase' = "bear"
    /\ UNCHANGED <<worldVars, todo, nestVars, calm>>

(* The applying loop: nobody asks again whether the tile is free. *)
Bear(b) ==
    /\ phase = "bear"
    /\ b \in births
    /\ births' = births \ {b}
    /\ SpawnActor(b[2])
    /\ children' = [children EXCEPT ![b[1]] = @ \cup {nextId}]
    /\ due' = [due EXCEPT ![b[1]] = Period[b[1]]]
    /\ UNCHANGED <<phase, todo, calm>>

(* Out of ids, the bound of the model: the births left are abandoned. *)
EndTick ==
    /\ phase = "bear"
    /\ births = {} \/ nextId > MaxId
    /\ phase' = "input"
    /\ births' = {}
    /\ UNCHANGED <<worldVars, todo, children, due, calm>>

Next ==
    \/ \E tile \in Walkable : Enter(tile)
    \/ \E i \in NetIds : Go(i) \/ Arrive(i) \/ \E d \in Directions : Walk(i, d)
    \/ BeginTick \/ EndArrive \/ EndChoose \/ EndTick
    \/ \E n \in Nests : Choose(n)
    \/ \E b \in births : Bear(b)

Spec == Init /\ [][Next]_vars

----------------------------------------------------------------------------
(* A nest never has more live children than its author allowed, counting   *)
(* the one about to be born.                                               *)
PopulationBounded ==
    \A n \in Nests :
        Cardinality(children[n] \cap live) + Cardinality({b \in births : b[1] = n})
            <= MaxAlive[n]

(* Clearing a nest keeps it clear for a full period: no child appears      *)
(* until that many ticks after the last death (docs/monsters.md, "O        *)
(* relogio comeca na morte"; systems.hpp, update_spawners).                *)
ClearedStaysClear ==
    [][\A n \in Nests : children'[n] \ children[n] # {} => calm[n] >= Period[n]]_vars

=============================================================================

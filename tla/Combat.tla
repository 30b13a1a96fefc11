------------------------------ MODULE Combat ------------------------------
(***************************************************************************)
(* The whole simulation tick: World::step, the births of update_spawners,  *)
(* update_monsters, update_chasers, update_path_followers, update_combat,  *)
(* and between ticks what connected players ask for.                       *)
(*                                                                         *)
(* Every system gathers its decisions before it applies them.  Where a     *)
(* decision reads nothing that another actor's decision of the same system *)
(* writes, gathering and applying one actor at a time, in any order, is    *)
(* the same thing, and that is how it is modelled.  update_combat is not   *)
(* such a system: its swings are gathered in one step and land one by one. *)
(*                                                                         *)
(* Deadlines are kept as the ticks that remain.  Equipment, classes and    *)
(* vocations appear only as what combat_stats makes of them: a damage and  *)
(* a range for each actor.                                                 *)
(***************************************************************************)
EXTENDS World

CONSTANTS
    MaxPlayers, MaxMobs,   \* bounds: how many of each are in the world at once
    MaxHp,                 \* CHealth::max_hp
    Damage,                \* [id -> hp one of its swings takes], at least 1
    AttackRange,           \* [id -> tiles it reaches], combat_stats(...).range
    Notice, Leash,         \* CMonster::aggro_radius and leash
    Cooldown,              \* kAttackCooldownTicks
    RespawnTicks,          \* kRespawnTicks
    ThinkTicks,            \* kSimHz / 10
    ReplanTicks,           \* kSimHz / 4
    BackoffTicks,          \* kSimHz
    DeadInput              \* TRUE: players also steer while they are dead

ASSUME CombatAssumption ==
    /\ {MaxPlayers, MaxMobs, Notice, Leash} \subseteq Nat
    /\ {MaxHp, Cooldown, RespawnTicks, ThinkTicks, ReplanTicks, BackoffTicks}
           \subseteq Nat \ {0}
    /\ Damage \in [NetIds -> Nat \ {0}]
    /\ AttackRange \in [NetIds -> Nat \ {0}]
    /\ DeadInput \in BOOLEAN

VARIABLES
    phase, todo,   \* the loop the tick is in and the actors it has still to handle
    mobs,          \* the live actors with a CMonster; the others are players
    anchor,        \* CRespawn::point of a player, CMonster::home of a mob
    hp,            \* CHealth::hp
    dead, wake,    \* the actors with a CDead, and its respawn_tick - tick_
    target, swing, \* CTarget: whom (NoActor: absent), next_swing_tick - tick_
    follow,        \* CFollow::target (NoActor: absent)
    planned,       \* CFollow::planned_for
    replan,        \* CFollow::next_replan_tick - tick_
    think,         \* CMonster::next_decision_tick - tick_
    swings         \* update_combat's swings: <<attacker, victim>>

loopVars   == <<phase, todo, swings>>
bodyVars   == <<mobs, anchor, hp, dead, wake>>
attackVars == <<target, swing>>
chaseVars  == <<follow, planned, replan>>
vars == <<worldVars, loopVars, bodyVars, attackVars, chaseVars, think>>

Origin  == [x |-> 0, y |-> 0, z |-> 0]      \* TilePos{}
Players == live \ mobs
Walking == {i \in NetIds : walkTo[i] # NoTile}
Gone(i) == i \notin live \/ i \in dead      \* lookup fails, or a CDead

Zero == [i \in NetIds |-> 0]

Init ==
    /\ WorldInit
    /\ phase = "input" /\ todo = {} /\ swings = {}
    /\ mobs = {} /\ dead = {}
    /\ anchor = [i \in NetIds |-> NoTile]
    /\ hp = Zero /\ wake = Zero
    /\ target = Zero /\ swing = Zero
    /\ follow = Zero /\ replan = Zero
    /\ planned = [i \in NetIds |-> Origin]
    /\ think = Zero

----------------------------------------------------------------------------
(* Methods of World that combat adds. *)

(* Faulty: naming the target again makes it a fresh one. *)
SetTargetAfresh(i, j) ==
    /\ target' = [target EXCEPT ![i] = IF j = i THEN NoActor ELSE j]
    /\ swing' = [swing EXCEPT ![i] = 0]

(* Faulty: and every fresh target costs a full wind-up. *)
SetTargetWindUp(i, j) ==
    /\ target' = [target EXCEPT ![i] = IF j = i THEN NoActor ELSE j]
    /\ swing' = [swing EXCEPT ![i] = Cooldown]

(* set_attack_target: 0 and oneself clear it, the same target again is     *)
(* nothing new, a fresh one may be hit at once.                            *)
SetTarget(i, j) ==
    IF j = target[i] /\ j # NoActor THEN UNCHANGED attackVars
    ELSE /\ target' = [target EXCEPT ![i] = IF j = i THEN NoActor ELSE j]
         /\ swing' = [swing EXCEPT ![i] = 0]

(* request_follow, likewise. *)
SetFollow(i, j) ==
    IF j = follow[i] /\ j # NoActor THEN UNCHANGED chaseVars
    ELSE /\ follow' = [follow EXCEPT ![i] = IF j = i THEN NoActor ELSE j]
         /\ planned' = [planned EXCEPT ![i] = Origin]
         /\ replan' = [replan EXCEPT ![i] = 0]

ClearFollow(i) == SetFollow(i, NoActor)

CancelPath(i) == DropRoute(i) /\ ClearFollow(i)

(* The components go with the entity. *)
Forget(i) ==
    /\ DespawnActor(i)
    /\ mobs' = mobs \ {i}
    /\ dead' = dead \ {i}
    /\ anchor' = [anchor EXCEPT ![i] = NoTile]
    /\ hp' = [hp EXCEPT ![i] = 0]
    /\ wake' = [wake EXCEPT ![i] = 0]
    /\ target' = [target EXCEPT ![i] = NoActor]
    /\ swing' = [swing EXCEPT ![i] = 0]
    /\ ClearFollow(i)
    /\ think' = [think EXCEPT ![i] = 0]

(* apply_damage on an actor with CRespawn: the body stays, holding nothing. *)
Kill(i) ==
    /\ occ' = Vacate(Vacate(occ, pos[i], i), walkTo[i], i)
    /\ walkTo' = [walkTo EXCEPT ![i] = NoTile]
    /\ left' = [left EXCEPT ![i] = 0]
    /\ DropRoute(i)
    /\ target' = [target EXCEPT ![i] = NoActor]
    /\ swing' = [swing EXCEPT ![i] = 0]
    /\ hp' = [hp EXCEPT ![i] = 0]
    /\ dead' = dead \cup {i}
    /\ wake' = [wake EXCEPT ![i] = RespawnTicks]
    /\ UNCHANGED <<live, nextId, pos, mobs, anchor, chaseVars, think>>

ApplyDamage(i, amount) ==
    \/ /\ i \notin live
       /\ UNCHANGED <<worldVars, bodyVars, attackVars, chaseVars, think>>
    \/ /\ i \in live /\ hp[i] > amount
       /\ hp' = [hp EXCEPT ![i] = @ - amount]
       /\ UNCHANGED <<worldVars, mobs, anchor, dead, wake, attackVars, chaseVars, think>>
    \/ /\ i \in Players /\ hp[i] <= amount
       /\ Kill(i)
    \/ /\ i \in mobs /\ hp[i] <= amount
       /\ Forget(i)

(* respawn_actor: the point is claimed, whoever stands there. *)
RespawnActor(i) ==
    /\ pos' = [pos EXCEPT ![i] = anchor[i]]
    /\ occ' = Occupy(occ, anchor[i], i)
    /\ hp' = [hp EXCEPT ![i] = MaxHp]
    /\ dead' = dead \ {i}
    /\ wake' = [wake EXCEPT ![i] = 0]
    /\ UNCHANGED <<live, nextId, walkTo, left, route, blocked, mobs, anchor>>

----------------------------------------------------------------------------
(* Between ticks: the messages of connected players. *)

Place(tile, newMobs) ==
    /\ occ[tile] = NoActor
    /\ SpawnActor(tile)
    /\ mobs' = newMobs
    /\ anchor' = [anchor EXCEPT ![nextId] = tile]
    /\ hp' = [hp EXCEPT ![nextId] = MaxHp]
    /\ UNCHANGED <<dead, wake, loopVars, attackVars, chaseVars, think>>

Join(tile) ==
    /\ phase = "input"
    /\ Cardinality(Players) < MaxPlayers
    /\ Place(tile, mobs)

Leave(i) ==
    /\ phase = "input"
    /\ i \in Players
    /\ Forget(i)
    /\ UNCHANGED loopVars

(* No handler asks whether the player is alive. *)
MaySteer(i) == phase = "input" /\ i \in Players /\ (i \in dead => DeadInput)

InputWalk(i, d) ==
    /\ MaySteer(i)
    /\ CancelPath(i)
    /\ RequestWalk(i, d)
    /\ UNCHANGED <<live, nextId, pos, loopVars, bodyVars, attackVars, think>>

InputTurn(i) ==
    /\ MaySteer(i)
    /\ CancelPath(i)
    /\ UNCHANGED <<live, nextId, pos, walkTo, left, occ, loopVars, bodyVars,
                   attackVars, think>>

MoveTo(i, tile) ==
    /\ MaySteer(i)
    /\ ClearFollow(i)
    /\ RequestMoveTo(i, tile)
    /\ UNCHANGED <<live, nextId, pos, walkTo, left, occ, loopVars, bodyVars,
                   attackVars, think>>

(* The id comes off the wire: nobody, somebody, or not yet anybody. *)
Attack(i, j) ==
    /\ MaySteer(i)
    /\ SetTarget(i, j)
    /\ SetFollow(i, j)
    /\ UNCHANGED <<worldVars, loopVars, bodyVars, think>>

----------------------------------------------------------------------------
(* One tick.  A loop is entered with the actors it will handle.            *)

Enter(loop, actors) ==
    /\ phase' = loop
    /\ todo' = actors
    /\ UNCHANGED swings

Handled(loop, i) ==
    /\ phase = loop
    /\ i \in todo
    /\ todo' = todo \ {i}
    /\ UNCHANGED <<phase, swings>>

Down(timer) == [i \in NetIds |-> IF timer[i] > 0 THEN timer[i] - 1 ELSE 0]

BeginTick ==
    /\ phase = "input"
    /\ Enter("arrive", {i \in Walking : left[i] <= 1})
    /\ left' = Down(left)
    /\ wake' = Down(wake) /\ swing' = Down(swing)
    /\ replan' = Down(replan) /\ think' = Down(think)
    /\ UNCHANGED <<live, nextId, pos, walkTo, occ, route, blocked,
                   mobs, anchor, hp, dead, target, follow, planned>>

Arrive(i) ==
    /\ Handled("arrive", i)
    /\ Land(i)
    /\ UNCHANGED <<bodyVars, attackVars, chaseVars, think>>

EndArrive ==
    /\ phase = "arrive" /\ todo = {}
    /\ Enter("spawn", {})
    /\ UNCHANGED <<worldVars, bodyVars, attackVars, chaseVars, think>>

(* update_spawners gives birth on free walkable tiles. *)
Birth(tile) ==
    /\ phase = "spawn"
    /\ Cardinality(mobs) < MaxMobs
    /\ Place(tile, mobs \cup {nextId})

EndSpawn ==
    /\ phase = "spawn"
    /\ Enter("think", {i \in mobs \ Walking : think[i] = 0})
    /\ UNCHANGED <<worldVars, bodyVars, attackVars, chaseVars, think>>

(* nearest_prey: the living players within the radius at which a mob       *)
(* forgets; of several equally near, the one the view meets first.         *)
Prey(i) ==
    LET near == {j \in Players \ dead :
                    TileDistance(pos[i], pos[j]) \in 0..(Notice + Notice \div 2)}
    IN  IF Notice = 0 THEN {}
        ELSE {j \in near : \A k \in near :
                 TileDistance(pos[i], pos[j]) <= TileDistance(pos[i], pos[k])}

(* It notices at one radius and forgets at a wider one. *)
Wanted(i) ==
    {j \in Prey(i) : TileDistance(pos[i], pos[j]) <= Notice \/ target[i] # NoActor}

Hunt(i) ==
    /\ \E j \in Wanted(i) : SetTarget(i, j) /\ SetFollow(i, j)
    /\ UNCHANGED worldVars

(* Two thoughts out of three idle, the third tries a step near home. *)
Idle(i) ==
    /\ Wanted(i) = {}
    /\ SetTarget(i, NoActor)
    /\ ClearFollow(i)
    /\ \/ UNCHANGED worldVars
       \/ \E d \in Directions :
             /\ TileDistance(TileStep(pos[i], d), anchor[i]) <= Leash
             /\ DropRoute(i)
             /\ RequestWalk(i, d)
             /\ UNCHANGED <<live, nextId, pos>>

Think(i) ==
    /\ Handled("think", i)
    /\ think' = [think EXCEPT ![i] = ThinkTicks]
    /\ Hunt(i) \/ Idle(i)
    /\ UNCHANGED bodyVars

(* Faulty: the dead go on chasing. *)
EndThinkUndead ==
    /\ phase = "think" /\ todo = {}
    /\ Enter("chase", {i \in live : follow[i] # NoActor})
    /\ UNCHANGED <<worldVars, bodyVars, attackVars, chaseVars, think>>

EndThink ==
    /\ phase = "think" /\ todo = {}
    /\ Enter("chase", {i \in live \ dead : follow[i] # NoActor})
    /\ UNCHANGED <<worldVars, bodyVars, attackVars, chaseVars, think>>

WithinReach(i, j) == TileDistance(pos[i], pos[j]) \in 0..AttackRange[i]

GiveUp(i) ==
    /\ Gone(follow[i])
    /\ ClearFollow(i)
    /\ UNCHANGED worldVars

(* Close enough to swing: stand still. *)
Halt(i) ==
    /\ ~Gone(follow[i]) /\ WithinReach(i, follow[i])
    /\ DropRoute(i)
    /\ UNCHANGED <<live, nextId, pos, walkTo, left, occ, chaseVars>>

(* Mid-step, or on a plan that is still good. *)
PlanHolds(i) ==
    \/ i \in Walking
    \/ planned[i] = pos[follow[i]] /\ route[i] # <<>> /\ replan[i] > 0

KeepGoing(i) ==
    /\ ~Gone(follow[i]) /\ ~WithinReach(i, follow[i]) /\ PlanHolds(i)
    /\ UNCHANGED <<worldVars, chaseVars>>

Plan(i) ==
    /\ ~Gone(follow[i]) /\ ~WithinReach(i, follow[i]) /\ ~PlanHolds(i)
    /\ LET goal == pos[follow[i]]
       IN  /\ RequestMoveTo(i, goal)
           /\ planned' = [planned EXCEPT ![i] = goal]
           /\ replan' = [replan EXCEPT ![i] =
                 IF Route[Claim(i)][goal] = <<>> THEN BackoffTicks ELSE ReplanTicks]
    /\ UNCHANGED <<live, nextId, pos, walkTo, left, occ, follow>>

Chase(i) ==
    /\ Handled("chase", i)
    /\ GiveUp(i) \/ Halt(i) \/ KeepGoing(i) \/ Plan(i)
    /\ UNCHANGED <<bodyVars, attackVars, think>>

(* Faulty: whoever has a target stands still. *)
EndChaseRooted ==
    /\ phase = "chase" /\ todo = {}
    /\ Enter("follow", {i \in live : route[i] # <<>> /\ walkTo[i] = NoTile /\ target[i] = NoActor})
    /\ UNCHANGED <<worldVars, bodyVars, attackVars, chaseVars, think>>

EndChase ==
    /\ phase = "chase" /\ todo = {}
    /\ Enter("follow", {i \in live : route[i] # <<>> /\ walkTo[i] = NoTile})
    /\ UNCHANGED <<worldVars, bodyVars, attackVars, chaseVars, think>>

Follow(i) ==
    /\ Handled("follow", i)
    /\ FollowRoute(i)
    /\ UNCHANGED <<bodyVars, attackVars, chaseVars, think>>

(* Faulty: the dead wait until nobody stands where they come back. *)
EndFollowPolite ==
    /\ phase = "follow" /\ todo = {}
    /\ Enter("revive", {i \in dead : wake[i] = 0 /\ occ[anchor[i]] = NoActor})
    /\ UNCHANGED <<worldVars, bodyVars, attackVars, chaseVars, think>>

EndFollow ==
    /\ phase = "follow" /\ todo = {}
    /\ Enter("revive", {i \in dead : wake[i] = 0})
    /\ UNCHANGED <<worldVars, bodyVars, attackVars, chaseVars, think>>

Revive(i) ==
    /\ Handled("revive", i)
    /\ RespawnActor(i)
    /\ UNCHANGED <<attackVars, chaseVars, think>>

(* The swings of this tick: attackers are alive, their targets are alive,  *)
(* in range, and the cooldown is over.  A target that is gone is dropped.  *)
Attackers == {i \in live \ dead : target[i] # NoActor}

Hitting(i) ==
    /\ ~Gone(target[i])
    /\ InAttackRange(pos[i], pos[target[i]], AttackRange[i])
    /\ swing[i] = 0

Gather ==
    /\ phase = "revive" /\ todo = {}
    /\ phase' = "strike"
    /\ swings' = {<<i, target[i]>> : i \in {a \in Attackers : Hitting(a)}}
    /\ target' = [i \in NetIds |->
          IF i \in Attackers /\ Gone(target[i]) THEN NoActor ELSE target[i]]
    /\ swing' = [i \in NetIds |->
          IF i \in Attackers /\ Gone(target[i]) THEN 0
          ELSE IF i \in Attackers /\ Hitting(i) THEN Cooldown ELSE swing[i]]
    /\ UNCHANGED <<todo, worldVars, bodyVars, chaseVars, think>>

Strike(s) ==
    /\ phase = "strike"
    /\ s \in swings
    /\ swings' = swings \ {s}
    /\ ApplyDamage(s[2], Damage[s[1]])
    /\ UNCHANGED <<phase, todo>>

EndTick ==
    /\ phase = "strike" /\ swings = {}
    /\ Enter("input", {})
    /\ UNCHANGED <<worldVars, bodyVars, attackVars, chaseVars, think>>

Input ==
    \/ \E tile \in Walkable : Join(tile)
    \/ \E i \in NetIds :
          \/ Leave(i) \/ InputTurn(i)
          \/ \E d \in Directions : InputWalk(i, d)
          \/ \E tile \in Tiles : MoveTo(i, tile)
          \/ \E j \in NetIds \cup {NoActor} : Attack(i, j)

Tick ==
    \/ BeginTick \/ EndArrive \/ EndSpawn \/ EndThink \/ EndChase \/ EndFollow
    \/ Gather \/ EndTick
    \/ \E i \in NetIds : Arrive(i) \/ Think(i) \/ Chase(i) \/ Follow(i) \/ Revive(i)
    \/ \E s \in swings : Strike(s)

Next == Input \/ Tick \/ \E tile \in Walkable : Birth(tile)

Spec == Init /\ [][Next]_vars

(* The server keeps ticking; players may do nothing at all, and whether a  *)
(* spawner is due is not the tick's to decide.                             *)
FairSpec == Spec /\ WF_vars(Tick)

----------------------------------------------------------------------------
(* A dead player cannot act and does not occupy its tile (components.hpp,  *)
(* CDead; docs/combat.md, "Morte e respawn").                              *)
DeadHoldNothing ==
    \A i \in dead :
        /\ \A t \in Tiles : occ[t] # i
        /\ walkTo[i] = NoTile /\ route[i] = <<>> /\ target[i] = NoActor

(* "Dois atores nao entram no mesmo tile" (README), dead bodies aside.     *)
Exclusive ==
    \A i, j \in live \ dead : i # j => Claim(i) # Claim(j)

(* Keeping a target never winds the swing clock back: an engaged mob,      *)
(* which names its target again at every thought, hits once per cooldown   *)
(* (the comment in set_attack_target).                                     *)
SwingClockKept ==
    [][\A i \in live \cap live' :
          swing'[i] < swing[i] /\ target'[i] = target[i] =>
              phase = "input" /\ phase' = "arrive"]_vars

(* Death does not last: each dead player is back after its wait, however   *)
(* many attackers stand over the body.                                     *)
DeadComeBack == \A i \in NetIds : i \in dead ~> i \notin dead

InReach(i) ==
    /\ target[i] # NoActor /\ target[i] = follow[i]
    /\ i \notin dead /\ ~Gone(target[i]) /\ WithinReach(i, target[i])

Chasing(i) == follow[i] # NoActor /\ ~Gone(follow[i]) /\ ~WithinReach(i, follow[i])

(* An attacker that keeps a living target within its reach, on another     *)
(* tile than its own, does not do so for ever: the target dies or goes.    *)
ReachIsFatal ==
    \A i \in NetIds : []<>~(InReach(i) /\ pos[i] # pos[target[i]])

(* Where every tile can be reached, a chase does not go on for ever: it    *)
(* reaches its quarry or loses it, once the players stop steering.         *)
ChaseEnds == <>[][~Input]_vars => \A i \in NetIds : []<>~(i \notin dead /\ Chasing(i))
=============================================================================

-------------------------------- MODULE Hunt --------------------------------
(* A hunt played alone: the picker, the panels and clicks of the client, the *)
(* request slots of SoloSession, the ticks that use them, and what becomes   *)
(* of items: starter kits, rolled loot, corpses, the bag and the worn slots. *)
(* Monsters hunt the player and die into corpses.  Where actors step is left *)
(* open (Movement and Combat model it): at a tick an actor may land on a     *)
(* free tile beside its own, and walk requests are among what may bring it   *)
(* there.  Spawners are left out (module Spawners).                          *)
EXTENDS Integers, FiniteSets, Sequences, SequencesExt

CONSTANTS
    Tiles,          \* tiles of a corridor, integers
    Home,           \* the player's spawn and respawn tile
    Mobs,           \* net ids of the wanderers, integers
    Items,          \* item types
    SlotOf,         \* [item -> equipment slot, or NoSlot]
    Vocations,      \* sequence of the playable vocations, as the picker shows them
    KitOf,          \* [vocation -> sequence of starter items]
    HealthOf,       \* [vocation -> base_hp]
    ManaOf,         \* [vocation -> base_mana]
    SpellOf,        \* [vocation -> its spell]
    LootTable,      \* sequence of [item, most, sure]
    MobHealth, MobPower, SwingPower,
    RespawnTicks,
    CountMod,       \* a stack's count is kept modulo this (2^16)
    RowsShown,      \* rows of the battle list that are drawn
    MaxCatchUp,     \* ticks one frame may replay
    MaxRequests     \* bound: request slots in use at a time

None == -1
NoSlot == "none"
Player == 0
Nothing == [id |-> None, count |-> 0]
NoCast == -2
NoLoot == [tile |-> None, index |-> 0, shown |-> Nothing]

Slots == {SlotOf[i] : i \in Items} \ {NoSlot}

ASSUME HuntAssumption ==
    /\ Tiles \subseteq Nat /\ Home \in Tiles /\ Mobs \subseteq Nat \ {Player}
    /\ IsFiniteSet(Items) /\ None \notin Items
    /\ \A v \in Range(Vocations) :
          /\ KitOf[v] \in Seq(Items)
          /\ HealthOf[v] \in Nat \ {0}         \* vocation_io.cpp:140
          /\ SpellOf[v].power \in Nat \ {0}    \* kSpells
    /\ LootTable \in Seq([item : Items, most : 1..CountMod - 1, sure : BOOLEAN])
    /\ {MobPower, SwingPower, RespawnTicks} \subseteq Nat \ {0}
    /\ CountMod \in Nat \ {0, 1} /\ MaxCatchUp \in Nat

VARIABLES
    phase,      \* "picking", then "playing"
    picked,     \* the card the picker has selected
    world,      \* the simulation: the fields of Begun
    pending,    \* the request slots of SoloSession
    view,       \* what refresh_view last copied out of the world
    panel       \* [inventory, loot, target] of the client's main loop

huntVars == <<phase, picked, world, pending, view, panel>>

-----------------------------------------------------------------------------
(* Bags.  Both helpers act on the first stack of the item; the count is a    *)
(* 16-bit number and wraps.                                                  *)

At(bag, id) == SelectInSeq(bag, LAMBDA s : s.id = id)

AddTo(bag, stack) ==
    LET i == At(bag, stack.id)
    IN  IF stack.count = 0 THEN bag
        ELSE IF i = 0 THEN Append(bag, stack)
        ELSE [bag EXCEPT ![i].count = (@ + stack.count) % CountMod]

RemoveFrom(bag, id) ==
    LET i == At(bag, id)
        left == (bag[i].count - 1) % CountMod
    IN  IF left = 0 THEN RemoveAt(bag, i) ELSE [bag EXCEPT ![i].count = left]

One(id) == [id |-> id, count |-> 1]

(* The sum of a sequence of numbers. *)
Total(f) ==
    LET upTo[k \in 0..Len(f)] == IF k = 0 THEN 0 ELSE upTo[k - 1] + f[k]
    IN  upTo[Len(f)]

Count(bag, id) ==
    Total([k \in DOMAIN bag |-> IF bag[k].id = id THEN bag[k].count ELSE 0])

-----------------------------------------------------------------------------
(* World operations, each from a world to a world, or to a set of them.      *)

Standing(w) == w.down = None

(* Who holds a tile: the monsters, and the player unless it lies dead.       *)
Holders(w) == {a \in DOMAIN w.hp : a = Player => Standing(w)}

Within(a, b, reach) == a - b \in -reach..reach

CorpseOn(bags, tile) == SelectLastInSeq(bags, LAMBDA c : c.tile = tile)

(* Destroying an entity moves the last of its pool into the gap; views walk  *)
(* the pool from its end, so that the newest corpse of a tile comes first.   *)
WithoutCorpse(bags, i) ==
    SubSeq(IF i = Len(bags) THEN bags ELSE [bags EXCEPT ![i] = bags[Len(bags)]],
           1, Len(bags) - 1)

TakeFromCorpse(w, loot) ==
    LET c == CorpseOn(w.corpses, loot.tile)
        bag == w.corpses[c].items
        left == RemoveAt(bag, loot.index)
    IN  IF \/ ~Within(w.at[Player], loot.tile, 1)
           \/ c = 0
           \/ loot.index > Len(bag)
        THEN w
        ELSE [w EXCEPT !.bag = AddTo(@, bag[loot.index]),
                       !.corpses = IF left = <<>> THEN WithoutCorpse(@, c)
                                   ELSE [@ EXCEPT ![c].items = left]]

EquipAndForget(w, id) ==
    IF SlotOf[id] = NoSlot \/ At(w.bag, id) = 0 THEN w
    ELSE [w EXCEPT !.worn[SlotOf[id]] = id, !.bag = RemoveFrom(@, id)]

Equip(w, id) ==
    LET slot == SlotOf[id]
        old == w.worn[slot]
        bag == RemoveFrom(w.bag, id)
    IN  IF slot = NoSlot \/ At(w.bag, id) = 0 THEN w
        ELSE [w EXCEPT !.worn[slot] = id,
                       !.bag = IF old = None THEN bag ELSE AddTo(bag, One(old))]

Unequip(w, slot) ==
    IF w.worn[slot] = None THEN w
    ELSE [w EXCEPT !.worn[slot] = None, !.bag = AddTo(@, One(w.worn[slot]))]

(* The rows of the loot table in their order; one that drew nothing is left  *)
(* out, and one that is sure always draws.                                   *)
Rolled(draw) ==
    LET upTo[r \in 0..Len(LootTable)] ==
            IF r = 0 THEN <<>>
            ELSE IF draw[r] = 0 THEN upTo[r - 1]
            ELSE Append(upTo[r - 1], [id |-> LootTable[r].item, count |-> draw[r]])
    IN  upTo[Len(LootTable)]

Rolls ==
    {Rolled(draw) : draw \in
        {d \in [DOMAIN LootTable -> 0..CountMod - 1] :
            \A r \in DOMAIN LootTable :
                /\ d[r] <= LootTable[r].most
                /\ LootTable[r].sure => d[r] > 0}}

(* apply_damage: the player falls and waits, a monster leaves the world and  *)
(* what it rolled lies where it stood, if it rolled anything.                *)
Damaged(w, a, amount) ==
    IF a \notin DOMAIN w.hp THEN {w}
    ELSE IF w.hp[a] > amount THEN {[w EXCEPT !.hp[a] = @ - amount]}
    ELSE IF a = Player
         THEN {[w EXCEPT !.hp[Player] = 0, !.target = None, !.down = RespawnTicks]}
    ELSE {[w EXCEPT !.hp = [b \in DOMAIN @ \ {a} |-> @[b]],
                    !.at = [b \in DOMAIN @ \ {a} |-> @[b]],
                    !.corpses = IF loot = <<>> THEN @
                                ELSE Append(@, [tile |-> w.at[a], items |-> loot]),
                    !.made = [i \in Items |-> @[i] + Count(loot, i)]]
             : loot \in Rolls}

(* The guards of cast_spell but the first, that the caster is not dead.      *)
Affordable(w, spell, target) ==
    /\ w.mana >= spell.cost
    /\ w.cool = 0
    /\ spell.kind = "Damage" => /\ target \in Holders(w)
                                /\ Within(w.at[Player], w.at[target], spell.range)

MayCastFallen(w, spell, target) == Affordable(w, spell, target)

MayCast(w, spell, target) == Standing(w) /\ Affordable(w, spell, target)

CastSpell(w, target) ==
    LET spell == SpellOf[w.vocation]
        paid == [w EXCEPT !.mana = @ - spell.cost, !.cool = spell.cooldown]
    IN  IF ~MayCast(w, spell, target) THEN {w}
        ELSE IF spell.kind = "Damage" THEN Damaged(paid, target, spell.power)
        ELSE {[paid EXCEPT !.hp[Player] = Min({@ + spell.power, HealthOf[w.vocation]})]}

-----------------------------------------------------------------------------
(* One tick of update(): arrivals, the requests in the order of their slots, *)
(* then the systems, of which combat is kept.                                *)

Clocked(w) == [w EXCEPT !.cool = Max({@ - 1, 0}), !.down = IF @ = None THEN None ELSE @ - 1]

Landings(w) ==
    {[w EXCEPT !.at = f] : f \in
        {f \in [DOMAIN w.at -> Tiles] :
            /\ \A a \in DOMAIN f :
                \/ f[a] = w.at[a]
                \/ /\ Within(f[a], w.at[a], 1)
                   /\ \A b \in Holders(w) : w.at[b] # f[a]
            /\ \A a, b \in Holders(w) : f[a] = f[b] /\ w.at[a] # w.at[b] => a = b}}

(* What a walk or a route comes to is among the landings; here an attack     *)
(* only names the target.                                                    *)
Targeted(w, p) == IF p.attack = None THEN w ELSE [w EXCEPT !.target = p.attack]

Equipped(w, p) == IF p.equip = None THEN w ELSE Equip(w, p.equip)

Unequipped(w, p) == IF p.unequip = NoSlot THEN w ELSE Unequip(w, p.unequip)

Looted(w, p) == IF p.loot = NoLoot THEN w ELSE TakeFromCorpse(w, p.loot)

Obeyed(w, p) ==
    LET handled == Looted(Unequipped(Equipped(Targeted(w, p), p), p), p)
    IN  IF p.cast = NoCast THEN {handled} ELSE CastSpell(handled, p.cast)

Respawned(w) ==
    IF w.down = 0
    THEN [w EXCEPT !.down = None, !.at[Player] = Home, !.hp[Player] = HealthOf[w.vocation]]
    ELSE w

(* Swings are gathered before any of them lands.  Whether a timer has run    *)
(* out is left open.                                                         *)
Biting(w) ==
    {m \in DOMAIN w.at \ {Player} : Standing(w) /\ Within(w.at[m], w.at[Player], 1)}

Aimed(w) ==
    IF Standing(w) /\ w.target \notin DOMAIN w.hp THEN [w EXCEPT !.target = None] ELSE w

Swung(w) ==
    IF Standing(w) /\ w.target # None /\ Within(w.at[Player], w.at[w.target], 1)
    THEN {w} \cup Damaged(w, w.target, SwingPower) ELSE {w}

Fought(w) ==
    LET r == Respawned(w)
        hits == Swung(Aimed(r))
    IN  hits \cup UNION {Damaged(h, Player, n * MobPower) :
                            h \in hits, n \in 1..Cardinality(Biting(r))}

SimulatedFightFirst(w, p) ==
    UNION {Obeyed(o, p) : o \in UNION {Fought(l) : l \in Landings(Clocked(w))}}

Simulated(w, p) ==
    UNION {Fought(o) : o \in UNION {Obeyed(l, p) : l \in Landings(Clocked(w))}}

-----------------------------------------------------------------------------
(* The picker, then the session it starts.                                   *)

NoRequests == [attack |-> None, equip |-> None, unequip |-> NoSlot,
               loot |-> NoLoot, cast |-> NoCast]

(* The items of a kit in their order: one goes to its slot while that is     *)
(* empty, and to the bag else.                                               *)
Outfit(kit) ==
    LET upTo[k \in 0..Len(kit)] ==
            IF k = 0 THEN [worn |-> [s \in Slots |-> None], bag |-> <<>>]
            ELSE LET had == upTo[k - 1]
                     slot == SlotOf[kit[k]]
                 IN  IF slot # NoSlot /\ had.worn[slot] = None
                     THEN [had EXCEPT !.worn[slot] = kit[k]]
                     ELSE [had EXCEPT !.bag = Append(@, One(kit[k]))]
    IN  upTo[Len(kit)]

Copies(kit) == [i \in Items |-> Total([n \in DOMAIN kit |-> IF kit[n] = i THEN 1 ELSE 0])]

(* spawn_wanderers: those that found a free tile are there.                  *)
Placements ==
    UNION {{f \in [{Player} \cup placed -> Tiles] : f[Player] = Home /\ IsInjective(f)} :
               placed \in SUBSET Mobs}

(* make_solo_session: the player at its spawn with the kit of its vocation,  *)
(* and the wanderers.                                                        *)
Begun(v) ==
    {[vocation |-> v, at |-> at,
      hp |-> [a \in DOMAIN at |-> IF a = Player THEN HealthOf[v] ELSE MobHealth],
      mana |-> ManaOf[v], cool |-> 0, down |-> None, target |-> None,
      bag |-> Outfit(KitOf[v]).bag, worn |-> Outfit(KitOf[v]).worn, corpses |-> <<>>,
      made |-> Copies(KitOf[v])] : at \in Placements}

(* The corpses in the order of the pool's view, empty ones not.              *)
Lying(corpses) ==
    LET n == Len(corpses)
        upTo[k \in 0..n] ==
            IF k = 0 THEN <<>>
            ELSE IF corpses[n - k + 1].items = <<>> THEN upTo[k - 1]
            ELSE Append(upTo[k - 1], corpses[n - k + 1])
    IN  upTo[n]

(* refresh_view. *)
Seen(w) == [at |-> w.at, bag |-> w.bag, worn |-> w.worn, vocation |-> w.vocation,
            corpses |-> Lying(w.corpses)]

NoWorld == [vocation |-> None]

HuntInit ==
    /\ phase = "picking" /\ picked \in DOMAIN Vocations
    /\ world = NoWorld /\ pending = NoRequests /\ view = NoWorld
    /\ panel = [inventory |-> FALSE, loot |-> None, target |-> None]

PickCard(i) ==
    /\ phase = "picking"
    /\ picked' = i
    /\ UNCHANGED <<phase, world, pending, view, panel>>

Confirm ==
    /\ phase = "picking"
    /\ phase' = "playing"
    /\ world' \in Begun(Vocations[picked])
    /\ view' = Seen(world')
    /\ UNCHANGED <<picked, pending, panel>>

-----------------------------------------------------------------------------
(* Input.  A click goes to the open loot panel, the inventory, the battle    *)
(* list and the world, in this order; the panels do not overlap.             *)

OpenCorpse == SelectInSeq(view.corpses, LAMBDA c : c.tile = panel.loot)

Requests == Cardinality({f \in DOMAIN pending : pending[f] # NoRequests[f]})

InPlay == phase = "playing" /\ UNCHANGED <<phase, picked, world, view>>

(* What a click leaves of the loot panel when it hits something else.        *)
Kept == [panel EXCEPT !.loot = IF OpenCorpse = 0 THEN None ELSE @]

ClickLoot(i) ==
    /\ InPlay
    /\ OpenCorpse # 0
    /\ i \in DOMAIN view.corpses[OpenCorpse].items
    /\ pending' = [pending EXCEPT !.loot =
                      [tile |-> panel.loot, index |-> i,
                       shown |-> view.corpses[OpenCorpse].items[i]]]
    /\ UNCHANGED panel

ClickWorn(slot) ==
    /\ InPlay
    /\ panel.inventory /\ view.worn[slot] # None
    /\ pending' = [pending EXCEPT !.unequip = slot]
    /\ panel' = Kept

ClickBag(i) ==
    /\ InPlay
    /\ panel.inventory /\ i \in DOMAIN view.bag
    /\ pending' = [pending EXCEPT !.equip = view.bag[i].id]
    /\ panel' = Kept

(* Nearest first, ties by net id; the rows past the last drawn are not hit.  *)
Row(m) ==
    LET far(c) == Max({view.at[c] - view.at[Player], view.at[Player] - view.at[c]})
        ahead(c) == far(c) < far(m) \/ (far(c) = far(m) /\ c <= m)
    IN  Cardinality({c \in DOMAIN view.at \ {Player} : ahead(c)})

Engage(m) ==
    /\ pending' = [pending EXCEPT !.attack = m]
    /\ panel' = [panel EXCEPT !.target = m, !.loot = None]

ClickRow(r) ==
    /\ InPlay
    /\ \E m \in DOMAIN view.at \ {Player} : Row(m) = r /\ Engage(m)

BagOn(tile) ==
    /\ \E n \in DOMAIN view.corpses : view.corpses[n].tile = tile
    /\ Within(view.at[Player], tile, 1)

ClickTile(tile) ==
    /\ InPlay
    /\ \/ /\ BagOn(tile)
          /\ panel' = [panel EXCEPT !.loot = tile]
          /\ UNCHANGED pending
       \/ /\ ~BagOn(tile)
          /\ \E m \in DOMAIN view.at \ {Player} : view.at[m] = tile /\ Engage(m)
       \/ /\ ~BagOn(tile)
          /\ \A m \in DOMAIN view.at \ {Player} : view.at[m] # tile
          /\ UNCHANGED pending      \* but for the walk there
          /\ panel' = [panel EXCEPT !.target = None, !.loot = None]

KeyInventory ==
    /\ InPlay
    /\ panel' = [panel EXCEPT !.inventory = ~@]
    /\ UNCHANGED pending

(* Key 1: the spell of the vocation in the view, at the highlighted target.  *)
KeyCast ==
    /\ InPlay
    /\ pending' = [pending EXCEPT !.cast = IF SpellOf[view.vocation].kind = "Damage"
                                     THEN panel.target ELSE None]
    /\ UNCHANGED panel

-----------------------------------------------------------------------------
(* A frame ends with update(): the highlight of a creature that left the     *)
(* view is dropped, the ticks that are due run, the first of them uses the   *)
(* requests up, and the view is refreshed.                                   *)

Ticked(n) ==
    LET after[k \in 0..n] ==
            IF k = 0 THEN {world}
            ELSE UNION {Simulated(w, IF k = 1 THEN pending ELSE NoRequests) : w \in after[k - 1]}
    IN  after[n]

Update(n) ==
    /\ phase = "playing"
    /\ world' \in Ticked(n)
    /\ pending' = IF n = 0 THEN pending ELSE NoRequests
    /\ view' = Seen(world')
    /\ panel' = [panel EXCEPT !.target = IF @ \in DOMAIN view.at THEN @ ELSE None]
    /\ UNCHANGED <<phase, picked>>

Press ==
    \/ \E i \in 1..2 : ClickLoot(i)
    \/ \E s \in Slots : ClickWorn(s)
    \/ \E i \in 1..3 : ClickBag(i)
    \/ \E r \in 1..RowsShown : ClickRow(r)
    \/ \E t \in Tiles : ClickTile(t)
    \/ KeyInventory
    \/ KeyCast

HuntNext ==
    \/ \E i \in DOMAIN Vocations : PickCard(i)
    \/ Confirm
    \/ Requests < MaxRequests /\ Press
    \/ \E n \in 0..MaxCatchUp : Update(n)

HuntSpec == HuntInit /\ [][HuntNext]_huntVars

-----------------------------------------------------------------------------

Held(w, i) ==
    Count(w.bag, i) + Cardinality({s \in Slots : w.worn[s] = i})
        + Total([k \in DOMAIN w.corpses |-> Count(w.corpses[k].items, i)])

(* Nothing is lost and nothing is doubled between kits, loot rolls, corpses, *)
(* the bag and the worn slots: of every item the world holds as many as were *)
(* ever made, modulo the width of a stack's count.                           *)
NothingLost ==
    phase # "picking" => \A i \in Items : (Held(world, i) - world.made[i]) % CountMod = 0

(* Loot taken is the loot that was clicked.  The request names a tile and a  *)
(* place in a bag, and corpses pile up on a tile, so this rests on when the  *)
(* requests are used and when the view is refreshed.                         *)
TakenAsShown ==
    [][pending.loot # NoLoot /\ pending.equip = None /\ pending.unequip = NoSlot
          => world'.bag \in {world.bag, AddTo(world.bag, pending.loot.shown)}]_huntVars

(* No heal, spell or swing leaves a fallen player with health or a standing  *)
(* one without.                                                              *)
DeadStayDown ==
    phase # "picking" => (world.hp[Player] = 0 <=> world.down # None)
=============================================================================

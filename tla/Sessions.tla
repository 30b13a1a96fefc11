------------------------------ MODULE Sessions ------------------------------
(***************************************************************************)
(* game_server's sessions and the character database: peers connect, say   *)
(* hello, play and go; characters are saved when they leave, every so      *)
(* often, and when the server is stopped; the server may die at any point  *)
(* and comes up again with nothing but what the database has committed.    *)
(*                                                                         *)
(* The server is one thread, so while a round of saves runs nothing moves  *)
(* but the round and, perhaps, a crash.  Between rounds ("input") the      *)
(* handlers and the ticks change the world; a tick appears here as the     *)
(* steps it gives one actor.                                               *)
(***************************************************************************)
EXTENDS World

CONSTANTS
    Peers,         \* the peers that may be connected
    Names,         \* character names
    Items, NoItem, \* item types; NoItem is kItemNone
    Slots,         \* equipment slots
    SlotOf,        \* [item -> slot it is worn in], for the equippable ones
    Kit,           \* starter_items: the sequence apply_vocation hands out
    AuthoredSpawn, \* the map's spawn point, perhaps in rock, or NoTile
    MaxHp,         \* CHealth::max_hp
    NoRow,         \* stands for an absent row
    MaxDeeds,      \* bound: how many changes of gear are told apart
    SharedNames,   \* TRUE: two peers may be in under one name
    SavesFail,     \* TRUE: a statement of save_character may fail
    LoadsFail      \* TRUE: a statement of load_character may fail

ASSUME SessionsAssumption ==
    /\ NoItem \notin Items
    /\ DOMAIN SlotOf \subseteq Items /\ \A item \in DOMAIN SlotOf : SlotOf[item] \in Slots
    /\ Kit \in Seq(Items)
    /\ MaxHp \in Nat \ {0} /\ MaxDeeds \in Nat
    /\ AuthoredSpawn \in Tiles \cup {NoTile}
    /\ {SharedNames, SavesFail, LoadsFail} \subseteq BOOLEAN

VARIABLES
    store,     \* the committed characters: [name -> row]
    conn,      \* connections: [peer -> actor, name, whether the socket is open]
    closing,   \* the peers that were refused; only their departure is left
    hp, dead,  \* CHealth::hp; the actors with a CDead
    home,      \* CRespawn::point
    worn, bag, \* CEquipment; CInventory, as counts
    deeds,     \* history: how often the character's gear has changed
    queue,     \* the peers whose save is still to come in this round
    why,       \* what the round is for, or "none" outside one
    tx,        \* the transaction under way
    failed     \* history: the peers whose save failed in this round

bodyVars == <<hp, dead, home, worn, bag, deeds>>
saveVars == <<queue, why, tx, failed>>
vars == <<worldVars, store, conn, closing, bodyVars, saveVars>>

Nobody == [socket |-> "none", name |-> NoRow, actor |-> NoActor]
NoTx   == [peer |-> NoRow]

Open(p)  == conn[p].socket = "open"
Lost(p)  == conn[p].socket = "lost"        \* its Disconnected is being handled
In(p)    == conn[p].actor # NoActor        \* Connection::welcomed
Welcomed == {p \in Peers : In(p)}

BareSlots == [s \in Slots |-> NoItem]
BareBag  == [item \in Items |-> 0]

Init ==
    /\ WorldInit
    /\ store = [n \in Names |-> NoRow]
    /\ conn = [p \in Peers |-> Nobody] /\ closing = {}
    /\ hp = [i \in NetIds |-> 0] /\ dead = {}
    /\ home = [i \in NetIds |-> NoTile]
    /\ worn = [i \in NetIds |-> BareSlots] /\ bag = [i \in NetIds |-> BareBag]
    /\ deeds = [i \in NetIds |-> 0]
    /\ queue = {} /\ why = "none" /\ tx = NoTx /\ failed = {}

----------------------------------------------------------------------------
(* Gear. *)

Equippable(item) == item \in DOMAIN SlotOf

(* apply_vocation: the first item for each slot is worn, the others, and   *)
(* what cannot be worn, go into the bag.                                   *)
FirstFor(s) ==
    LET mine == {k \in DOMAIN Kit : Equippable(Kit[k]) /\ SlotOf[Kit[k]] = s}
    IN  {k \in mine : \A j \in mine : k <= j}

KitWorn == [s \in Slots |-> IF FirstFor(s) = {} THEN NoItem ELSE Kit[CHOOSE k \in FirstFor(s) : TRUE]]
KitBag  ==
    [item \in Items |->
        Cardinality({k \in DOMAIN Kit : Kit[k] = item /\ \A s \in Slots : k \notin FirstFor(s)})]

(* What somebody owns, worn or carried, item by item. *)
Owned(w, b) == [item \in Items |-> b[item] + Cardinality({s \in Slots : w[s] = item})]

(* add_to_inventory of what a slot held, which may be nothing. *)
PutBack(b, item) == IF item = NoItem THEN b ELSE [b EXCEPT ![item] = @ + 1]

(* remove_from_inventory of something that is there. *)
TakeOut(b, item) == [b EXCEPT ![item] = @ - 1]

MoreDeeds(i) == deeds' = [deeds EXCEPT ![i] = IF @ < MaxDeeds THEN @ + 1 ELSE @]

----------------------------------------------------------------------------
(* What the database keeps of a character, and the round that writes it.   *)

(* snapshot_character *)
Snapshot(p) ==
    LET i == conn[p].actor
    IN  [tile |-> pos[i], hp |-> hp[i], worn |-> worn[i], bag |-> bag[i], deeds |-> deeds[i]]

Idle == why = "none"

StartRound(reason, peers) ==
    /\ Idle
    /\ why' = reason
    /\ queue' = peers
    /\ UNCHANGED <<worldVars, store, conn, closing, bodyVars, tx, failed>>

(* Outside the tick loop, once save_every_seconds have passed. *)
PeriodicSave == StartRound("periodic", Welcomed)

(* SIGINT or SIGTERM: the loop ends and everybody is saved. *)
Stop == StartRound("stop", Welcomed)

(* The peer is gone: saved first, removed from the world after. *)
Disconnected(p) ==
    /\ Open(p)
    /\ conn' = [conn EXCEPT ![p].socket = "lost"]
    /\ Idle
    /\ why' = "leave"
    /\ queue' = {p} \cap Welcomed
    /\ UNCHANGED <<worldVars, store, closing, bodyVars, tx, failed>>

(* save_character, statement by statement.  tx.row is the character as the *)
(* transaction sees it; nobody else does before COMMIT.                    *)
Blank == [worn |-> BareSlots, bag |-> BareBag]

Begin(p) ==
    /\ tx = NoTx
    /\ p \in queue
    /\ LET old == store[conn[p].name]
       IN  tx' = [peer |-> p, next |-> "upsert", row |-> IF old = NoRow THEN Blank ELSE old]
    /\ UNCHANGED <<worldVars, store, conn, closing, bodyVars, queue, why, failed>>

(* The character's own columns are updated in place; the rows of its items *)
(* are deleted and inserted again, what is worn first.                     *)
Written(statement, row, now) ==
    CASE statement = "upsert" -> [now EXCEPT !.worn = row.worn, !.bag = row.bag]
      [] statement = "clear"  -> [row EXCEPT !.worn = BareSlots, !.bag = BareBag]
      [] statement = "worn"   -> [row EXCEPT !.worn = now.worn]
      [] statement = "bag"    -> [row EXCEPT !.bag = now.bag]

Then == [upsert |-> "clear", clear |-> "worn", worn |-> "bag", bag |-> "commit"]

Execute ==
    /\ tx # NoTx
    /\ tx.next # "commit"
    /\ tx' = [tx EXCEPT !.next = Then[@], !.row = Written(tx.next, @, Snapshot(tx.peer))]
    /\ UNCHANGED <<worldVars, store, conn, closing, bodyVars, queue, why, failed>>

Commit ==
    /\ tx # NoTx
    /\ tx.next = "commit"
    /\ store' = [store EXCEPT ![conn[tx.peer].name] = tx.row]
    /\ queue' = queue \ {tx.peer}
    /\ tx' = NoTx
    /\ UNCHANGED <<worldVars, conn, closing, bodyVars, why, failed>>

(* Faulty: the statements already run stay. *)
SaveFailsHalfway(p) ==
    /\ SavesFail
    /\ p \in queue
    /\ tx # NoTx /\ tx.peer = p
    /\ store' = [store EXCEPT ![conn[p].name] = tx.row]
    /\ tx' = NoTx
    /\ queue' = queue \ {p}
    /\ failed' = failed \cup {p}
    /\ UNCHANGED <<worldVars, conn, closing, bodyVars, why>>

(* Faulty: the first failure ends the round. *)
SaveFailsForAll(p) ==
    /\ SavesFail
    /\ p \in queue
    /\ tx = NoTx \/ tx.peer = p
    /\ tx' = NoTx
    /\ queue' = {}
    /\ failed' = failed \cup {p}
    /\ UNCHANGED <<worldVars, store, conn, closing, bodyVars, why>>

(* A statement fails, BEGIN included: an early return, and the transaction *)
(* rolls back on destruction.  The round goes on with the others.          *)
SaveFails(p) ==
    /\ SavesFail
    /\ p \in queue
    /\ tx = NoTx \/ tx.peer = p
    /\ tx' = NoTx
    /\ queue' = queue \ {p}
    /\ failed' = failed \cup {p}
    /\ UNCHANGED <<worldVars, store, conn, closing, bodyVars, why>>

(* The bodies of actors that are not there. *)
NoBodies ==
    /\ hp' = [i \in NetIds |-> 0] /\ dead' = {}
    /\ home' = [i \in NetIds |-> NoTile]
    /\ worn' = [i \in NetIds |-> BareSlots] /\ bag' = [i \in NetIds |-> BareBag]
    /\ deeds' = [i \in NetIds |-> 0]

(* despawn: the components go with the entity. *)
Forget(i) ==
    /\ DespawnActor(i)
    /\ hp' = [hp EXCEPT ![i] = 0]
    /\ dead' = dead \ {i}
    /\ home' = [home EXCEPT ![i] = NoTile]
    /\ worn' = [worn EXCEPT ![i] = BareSlots]
    /\ bag' = [bag EXCEPT ![i] = BareBag]
    /\ deeds' = [deeds EXCEPT ![i] = 0]

RoundOver == queue = {} /\ tx = NoTx

EndPeriodic ==
    /\ RoundOver /\ why = "periodic"
    /\ why' = "none" /\ failed' = {}
    /\ UNCHANGED <<worldVars, store, conn, closing, bodyVars, queue, tx>>

EndLeave(p) ==
    /\ RoundOver /\ why = "leave"
    /\ Lost(p)
    /\ IF In(p) THEN Forget(conn[p].actor) ELSE UNCHANGED <<worldVars, bodyVars>>
    /\ conn' = [conn EXCEPT ![p] = Nobody]
    /\ closing' = closing \ {p}
    /\ why' = "none" /\ failed' = {}
    /\ UNCHANGED <<store, queue, tx>>

(* The process ends, and another one starts with the same database.        *)
Restart ==
    /\ live' = {} /\ nextId' = 1
    /\ pos' = [i \in NetIds |-> NoTile]
    /\ walkTo' = [i \in NetIds |-> NoTile] /\ left' = [i \in NetIds |-> 0]
    /\ occ' = [t \in Tiles |-> NoActor]
    /\ UNCHANGED <<route, blocked>>
    /\ NoBodies
    /\ conn' = [p \in Peers |-> Nobody] /\ closing' = {}
    /\ queue' = {} /\ why' = "none" /\ tx' = NoTx /\ failed' = {}
    /\ UNCHANGED store

EndStop == RoundOver /\ why = "stop" /\ Restart

Crash == Restart

----------------------------------------------------------------------------
(* Connections. *)

Connected(p) ==
    /\ Idle
    /\ conn[p] = Nobody
    /\ conn' = [conn EXCEPT ![p].socket = "open"]
    /\ UNCHANGED <<worldVars, store, closing, bodyVars, saveVars>>

(* C2S_Hello that does not parse, speaks another protocol or has other     *)
(* content: a reason, and disconnect once it is sent.  The first two are   *)
(* asked even of a peer that is in.                                        *)
Refuse(p, fault) ==
    /\ Idle
    /\ Open(p) /\ p \notin closing
    /\ fault = "content" => ~ In(p)
    /\ closing' = closing \cup {p}
    /\ UNCHANGED <<worldVars, store, conn, bodyVars, saveVars>>

Usable(t) == t \in Walkable /\ occ[t] = NoActor

(* Faulty: a character whose tile cannot be used starts again. *)
LoadedIfUsable(n) ==
    {IF store[n] # NoRow /\ ~ Usable(store[n].tile) THEN NoRow ELSE store[n]}

(* load_character: the row, NoRow for a first login, and NoRow again when  *)
(* a statement fails.                                                      *)
Loaded(n) == {store[n]} \cup (IF LoadsFail THEN {NoRow} ELSE {})

(* The tile it was saved on, else the map's spawn point, else any tile one *)
(* can stand on, taken or not.                                             *)
SpawnTiles(saved) ==
    IF saved # NoRow /\ Usable(saved.tile) THEN {saved.tile}
    ELSE IF Usable(AuthoredSpawn) THEN {AuthoredSpawn}
    ELSE Walkable

(* Faulty: the health it was saved with. *)
HealthAsSaved(saved) == IF saved # NoRow THEN saved.hp ELSE MaxHp

(* A character saved at the moment of death comes back with full health.   *)
Health(saved) == IF saved # NoRow /\ saved.hp > 0 THEN saved.hp ELSE MaxHp

(* Faulty: a second hello is a hello. *)
AnyHello(p) == TRUE

(* A second hello of a peer that is in changes nothing. *)
FirstHello(p) == ~ In(p)

(* C2S_Hello, accepted. *)
Welcome(p, n) ==
    /\ Idle
    /\ Open(p)
    /\ FirstHello(p)
    /\ SharedNames \/ \A q \in Welcomed \ {p} : conn[q].name # n
    /\ \E saved \in Loaded(n) : \E tile \in SpawnTiles(saved) :
          /\ SpawnActor(tile)
          /\ home' = [home EXCEPT ![nextId] = tile]
          /\ hp' = [hp EXCEPT ![nextId] = Health(saved)]
          /\ worn' = [worn EXCEPT ![nextId] = IF saved = NoRow THEN KitWorn ELSE saved.worn]
          /\ bag' = [bag EXCEPT ![nextId] = IF saved = NoRow THEN KitBag ELSE saved.bag]
          /\ deeds' = [deeds EXCEPT ![nextId] = IF saved = NoRow THEN 0 ELSE saved.deeds]
    /\ conn' = [conn EXCEPT ![p].name = n, ![p].actor = nextId]
    /\ UNCHANGED <<store, closing, dead, saveVars>>

----------------------------------------------------------------------------
(* Life in the world: what one actor asks for, and what ticks bring it.    *)

Player(p) == conn[p].actor

MaySteer(p) == Idle /\ In(p) /\ Open(p)

(* C2S_Input, and a tick that ends the step. *)
Walk(p, d) ==
    /\ MaySteer(p)
    /\ RequestWalk(Player(p), d)
    /\ UNCHANGED <<live, nextId, pos, route, blocked, store, conn, closing, bodyVars, saveVars>>

Arrive(p) ==
    /\ Idle /\ In(p)
    /\ walkTo[Player(p)] # NoTile
    /\ Land(Player(p))
    /\ UNCHANGED <<store, conn, closing, bodyVars, saveVars>>

(* C2S_Equip: whatever the slot held goes back into the bag. *)
Equip(p, item) ==
    LET i == Player(p) IN
    /\ MaySteer(p)
    /\ Equippable(item) /\ bag[i][item] > 0
    /\ worn' = [worn EXCEPT ![i][SlotOf[item]] = item]
    /\ bag' = [bag EXCEPT ![i] = PutBack(TakeOut(@, item), worn[i][SlotOf[item]])]
    /\ MoreDeeds(i)
    /\ UNCHANGED <<worldVars, store, conn, closing, hp, dead, home, saveVars>>

(* C2S_Unequip *)
Unequip(p, s) ==
    LET i == Player(p) IN
    /\ MaySteer(p)
    /\ worn[i][s] # NoItem
    /\ worn' = [worn EXCEPT ![i][s] = NoItem]
    /\ bag' = [bag EXCEPT ![i] = PutBack(@, worn[i][s])]
    /\ MoreDeeds(i)
    /\ UNCHANGED <<worldVars, store, conn, closing, hp, dead, home, saveVars>>

(* apply_damage: a wound, or a death that gives every tile up. *)
Wounded(p) ==
    LET i == Player(p) IN
    /\ Idle /\ In(p) /\ hp[i] > 1
    /\ hp' = [hp EXCEPT ![i] = @ - 1]
    /\ UNCHANGED <<worldVars, store, conn, closing, dead, home, worn, bag, deeds, saveVars>>

Killed(p) ==
    LET i == Player(p) IN
    /\ Idle /\ In(p) /\ hp[i] > 0
    /\ hp' = [hp EXCEPT ![i] = 0]
    /\ dead' = dead \cup {i}
    /\ occ' = Vacate(Vacate(occ, pos[i], i), walkTo[i], i)
    /\ walkTo' = [walkTo EXCEPT ![i] = NoTile]
    /\ left' = [left EXCEPT ![i] = 0]
    /\ DropRoute(i)
    /\ UNCHANGED <<live, nextId, pos, store, conn, closing, home, worn, bag, deeds, saveVars>>

(* update_combat: the wait of the dead is over. *)
Respawned(p) ==
    LET i == Player(p) IN
    /\ Idle /\ In(p) /\ i \in dead
    /\ dead' = dead \ {i}
    /\ hp' = [hp EXCEPT ![i] = MaxHp]
    /\ pos' = [pos EXCEPT ![i] = home[i]]
    /\ occ' = Occupy(occ, home[i], i)
    /\ UNCHANGED <<live, nextId, walkTo, left, route, blocked, store, conn, closing,
                   home, worn, bag, deeds, saveVars>>

----------------------------------------------------------------------------
Round ==
    \/ Execute \/ Commit \/ EndPeriodic \/ EndStop
    \/ \E p \in Peers : Begin(p) \/ SaveFails(p) \/ EndLeave(p)

Session(p) ==
    \/ Connected(p) \/ Disconnected(p)
    \/ \E fault \in {"malformed", "protocol", "content"} : Refuse(p, fault)
    \/ \E n \in Names : Welcome(p, n)

Life(p) ==
    \/ \E d \in Directions : Walk(p, d)
    \/ \E item \in Items : Equip(p, item)
    \/ \E s \in Slots : Unequip(p, s)
    \/ Arrive(p) \/ Wounded(p) \/ Killed(p) \/ Respawned(p)

Next ==
    \/ Round \/ PeriodicSave \/ Stop \/ Crash
    \/ \E p \in Peers : Session(p) \/ Life(p)

Spec == Init /\ [][Next]_vars

----------------------------------------------------------------------------
(* Whatever the order of logins, departures, refusals and crashes, the     *)
(* actors of players are those of connections, one each: no body stays     *)
(* behind a peer that left, and no peer has two (the guard on a second     *)
(* hello, the despawn in Disconnected).                                    *)
NoOrphans ==
    /\ live = {Player(p) : p \in Welcomed}
    /\ \A p, q \in Welcomed : p # q => Player(p) # Player(q)

(* What a character owns is the kit it was given, in the world and in      *)
(* every committed row, through equipping, saving, failed saves, crashes   *)
(* at any statement, and logins (the comment on save_character: never a    *)
(* position without its inventory).                                        *)
KitKept ==
    /\ \A i \in live : Owned(worn[i], bag[i]) = Owned(KitWorn, KitBag)
    /\ \A n \in Names : store[n] # NoRow =>
          Owned(store[n].worn, store[n].bag) = Owned(KitWorn, KitBag)

(* Nobody is at 0 hp without the CDead that brings it back: not even a     *)
(* character that was saved dead and logs in again (the comment in         *)
(* handle_hello: it would never get to act).                               *)
NobodyStuckDead ==
    \A i \in live : hp[i] = 0 <=> i \in dead

(* When a round of saves is over, every character it was for is in the     *)
(* database just as it is in the world, those excepted whose own save      *)
(* failed: one failure costs nobody else, and a peer that leaves is still  *)
(* in the world when it is saved.                                          *)
EveryoneStored ==
    ~ Idle /\ RoundOver =>
        \A p \in Welcomed \ failed :
            (why = "leave" => Lost(p)) => store[conn[p].name] = Snapshot(p)

(* A stored character is never replaced by one that has seen less, nor     *)
(* lost (snapshot_character: a default-constructed character over a real   *)
(* save would be worse than not saving at all).                            *)
ProgressKept ==
    [][\A n \in Names : store[n] # NoRow =>
          store'[n] # NoRow /\ store'[n].deeds >= store[n].deeds]_vars
=============================================================================

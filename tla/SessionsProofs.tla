--------------------------- MODULE SessionsProofs ---------------------------
(***************************************************************************)
(* Sessions, for any peers, names, gear and map, whatever fails and        *)
(* whenever the server dies: no body without a peer nor a second one, and  *)
(* nobody stuck dead; a round of saves that is over has everybody in the   *)
(* database, and nobody's progress is taken back by a save.                *)
(***************************************************************************)
EXTENDS Sessions, FiniteSetTheorems, TLAPS

----------------------------------------------------------------------------
(* Connections, and the actors they stand for. *)

Sockets == {"none", "open", "lost"}

Connections == [socket : Sockets, name : Names \cup {NoRow}, actor : NetIds \cup {NoActor}]

ConnOK ==
    /\ conn \in [Peers -> Connections]
    /\ \A p \in Welcomed : conn[p].name \in Names

PeopleOK ==
    /\ nextId \in Nat \ {0}
    /\ live \subseteq NetIds /\ \A i \in live : i < nextId
    /\ ConnOK
    /\ NoOrphans

SamePeople == \A p \in Peers : conn'[p].actor = conn[p].actor /\ conn'[p].name = conn[p].name

LEMMA Socketed ==
    ASSUME ConnOK, NEW p \in Peers, NEW s \in Sockets, conn' = [conn EXCEPT ![p].socket = s]
    PROVE  /\ ConnOK' /\ SamePeople /\ Welcomed' = Welcomed
           /\ \A q \in Peers : conn'[q].socket = IF q = p THEN s ELSE conn[q].socket
  <1>1. /\ conn' \in [Peers -> Connections]
        /\ \A q \in Peers : conn'[q] = IF q = p THEN [conn[p] EXCEPT !.socket = s] ELSE conn[q]
    BY DEF ConnOK, Connections
  <1>2. ASSUME NEW q \in Peers
        PROVE  /\ conn'[q].actor = conn[q].actor /\ conn'[q].name = conn[q].name
               /\ conn'[q].socket = IF q = p THEN s ELSE conn[q].socket
    BY <1>1 DEF ConnOK, Connections
  <1>3. Welcomed' = Welcomed
    BY <1>2 DEF Welcomed, In
  <1> QED BY <1>1, <1>2, <1>3 DEF ConnOK, Connections, SamePeople

LEMMA SamePeopleOK ==
    ASSUME PeopleOK, UNCHANGED <<live, nextId>>, ConnOK', SamePeople
    PROVE  PeopleOK'
  <1>1. Welcomed' = Welcomed /\ \A p \in Welcomed : Player(p)' = Player(p)
    BY DEF SamePeople, Welcomed, In, Player
  <1> QED BY <1>1 DEF PeopleOK, NoOrphans

LEMMA WelcomePeople ==
    ASSUME PeopleOK, NEW p \in Peers, NEW n \in Names, Welcome(p, n)
    PROVE  /\ PeopleOK' /\ nextId \in NetIds \ live /\ live' = live \cup {nextId}
           /\ Welcomed' = Welcomed \cup {p} /\ p \notin Welcomed
           /\ Player(p)' = nextId /\ conn'[p].name = n
           /\ \A q \in Peers \ {p} : conn'[q] = conn[q]
           /\ \A q \in Peers : conn'[q].socket = conn[q].socket
  <1>1. /\ nextId \in NetIds \ live /\ live' = live \cup {nextId}
        /\ nextId' = nextId + 1
    BY DEF Welcome, SpawnActor, PeopleOK, NetIds
  <1>2. /\ conn' = [conn EXCEPT ![p].name = n, ![p].actor = nextId]
        /\ p \notin Welcomed
    BY DEF Welcome, FirstHello, Welcomed, In
  <1>3. /\ conn' \in [Peers -> Connections]
        /\ \A q \in Peers \ {p} : conn'[q] = conn[q]
        /\ conn'[p].actor = nextId /\ conn'[p].name = n /\ conn'[p].socket = conn[p].socket
    BY <1>1, <1>2 DEF PeopleOK, ConnOK, Connections
  <1>4. Welcomed' = Welcomed \cup {p}
    BY <1>1, <1>3 DEF Welcomed, In, NetIds, NoActor
  <1>5. ConnOK'
    BY <1>3, <1>4 DEF PeopleOK, ConnOK, Connections, Welcomed
  <1>6. /\ \A q \in Welcomed : Player(q)' = Player(q) /\ Player(q) \in live
        /\ Player(p)' = nextId
    BY <1>2, <1>3 DEF Player, Welcomed, PeopleOK, NoOrphans
  <1>7. NoOrphans'
    <2>1. live' = {Player(q)' : q \in Welcomed'}
      BY <1>1, <1>2, <1>4, <1>6 DEF PeopleOK, NoOrphans
    <2>2. ASSUME NEW q \in Welcomed', NEW r \in Welcomed', q # r
          PROVE  Player(q)' # Player(r)'
      BY <2>2, <1>1, <1>4, <1>6 DEF PeopleOK, NoOrphans
    <2> QED BY <2>1, <2>2 DEF NoOrphans, Player
  <1>8. nextId' \in Nat \ {0} /\ live' \subseteq NetIds /\ \A i \in live' : i < nextId'
    BY <1>1 DEF PeopleOK, NetIds
  <1> QED BY <1>1, <1>2, <1>3, <1>4, <1>5, <1>6, <1>7, <1>8 DEF PeopleOK

LEMMA LeavePeople ==
    ASSUME PeopleOK, NEW p \in Peers, EndLeave(p)
    PROVE  /\ PeopleOK' /\ live' = live \ {conn[p].actor}
           /\ Welcomed' = Welcomed \ {p}
           /\ conn'[p] = Nobody /\ \A q \in Peers \ {p} : conn'[q] = conn[q]
  <1>1. /\ nextId' = nextId
        /\ IF In(p) THEN live' = live \ {conn[p].actor} ELSE live' = live
        /\ conn' = [conn EXCEPT ![p] = Nobody]
    BY DEF EndLeave, Forget, DespawnActor, worldVars
  <1>2. live' = live \ {conn[p].actor}
    BY <1>1 DEF In, PeopleOK, NetIds, NoActor
  <1>3. /\ conn' \in [Peers -> Connections]
        /\ conn'[p] = Nobody /\ \A q \in Peers \ {p} : conn'[q] = conn[q]
    <2>1. Nobody \in Connections
      BY DEF Nobody, Sockets, Connections
    <2> QED BY <1>1, <2>1 DEF PeopleOK, ConnOK, Connections
  <1>4. Welcomed' = Welcomed \ {p}
    BY <1>3 DEF Welcomed, In, Nobody
  <1>5. ConnOK'
    BY <1>3, <1>4 DEF PeopleOK, ConnOK, Connections, Welcomed
  <1>6. \A q \in Welcomed' : q \in Welcomed /\ q # p /\ Player(q)' = Player(q)
    BY <1>3, <1>4 DEF Player, Welcomed
  <1>7. live' = {Player(q)' : q \in Welcomed'}
    <2>1. CASE p \in Welcomed
      <3>1. live' = {Player(q) : q \in Welcomed \ {p}}
        BY <1>2, <2>1 DEF PeopleOK, NoOrphans, Player
      <3> QED BY <3>1, <1>4, <1>6
    <2>2. CASE p \notin Welcomed
      <3>1. live' = live /\ Welcomed' = Welcomed
        BY <1>1, <1>4, <2>2 DEF Welcomed
      <3> QED BY <3>1, <1>6 DEF PeopleOK, NoOrphans
    <2> QED BY <2>1, <2>2
  <1>8. NoOrphans'
    BY <1>6, <1>7 DEF PeopleOK, NoOrphans
  <1> QED BY <1>1, <1>2, <1>3, <1>4, <1>5, <1>8 DEF PeopleOK

LEMMA RestartPeople ==
    ASSUME Restart
    PROVE  PeopleOK' /\ Welcomed' = {} /\ live' = {}
  <1>1. /\ live' = {} /\ nextId' = 1 /\ conn' = [p \in Peers |-> Nobody]
    BY DEF Restart
  <1>2. ConnOK' /\ Welcomed' = {}
    BY <1>1 DEF ConnOK, Connections, Welcomed, In, Nobody, Sockets
  <1> QED BY <1>1, <1>2 DEF PeopleOK, NoOrphans

----------------------------------------------------------------------------
(* A transaction under way: what its row holds after each statement.       *)

Row(p, w, b) ==
    LET i == conn[p].actor
    IN  [tile |-> pos[i], hp |-> hp[i], worn |-> w, bag |-> b, deeds |-> deeds[i]]

RowAt(p, statement, row) ==
    LET i == conn[p].actor
    IN  \/ statement = "upsert"
        \/ statement = "clear" /\ \E w, b : row = Row(p, w, b)
        \/ statement = "worn" /\ row = Row(p, BareSlots, BareBag)
        \/ statement = "bag" /\ row = Row(p, worn[i], BareBag)
        \/ statement = "commit" /\ row = Row(p, worn[i], bag[i])

TxOK ==
    \/ tx = NoTx
    \/ /\ tx.peer \in queue
       /\ tx = [peer |-> tx.peer, next |-> tx.next, row |-> tx.row]
       /\ RowAt(tx.peer, tx.next, tx.row)

SaveOK ==
    /\ Idle => queue = {} /\ tx = NoTx
    /\ queue \subseteq Welcomed
    /\ TxOK

LEMMA BeginTx ==
    ASSUME SaveOK, NEW p \in Peers, Begin(p)
    PROVE  SaveOK'
  <1> DEFINE old == IF store[conn[p].name] = NoRow THEN Blank ELSE store[conn[p].name]
  <1>1. /\ p \in queue /\ UNCHANGED <<conn, queue, why>>
        /\ tx' = [peer |-> p, next |-> "upsert", row |-> old]
    BY DEF Begin
  <1> HIDE DEF old
  <1>2. TxOK'
    BY <1>1 DEF TxOK, RowAt
  <1>3. ~ Idle
    BY <1>1 DEF SaveOK
  <1>4. Welcomed' = Welcomed
    BY <1>1 DEF Welcomed, In
  <1> QED BY <1>1, <1>2, <1>3, <1>4 DEF SaveOK, Idle

LEMMA ExecuteTx ==
    ASSUME SaveOK, Execute
    PROVE  SaveOK'
  <1>1. /\ tx # NoTx /\ tx.next # "commit"
        /\ UNCHANGED <<conn, queue, why, pos, hp, worn, bag, deeds>>
        /\ tx' = [tx EXCEPT !.next = Then[@], !.row = Written(tx.next, @, Snapshot(tx.peer))]
    BY DEF Execute, worldVars, bodyVars
  <1>2. /\ tx.peer \in queue
        /\ tx = [peer |-> tx.peer, next |-> tx.next, row |-> tx.row]
        /\ RowAt(tx.peer, tx.next, tx.row)
    BY <1>1 DEF SaveOK, TxOK
  <1>3. tx' = [peer |-> tx.peer, next |-> Then[tx.next],
               row |-> Written(tx.next, tx.row, Snapshot(tx.peer))]
    BY <1>1, <1>2
  <1>4. RowAt(tx.peer, Then[tx.next], Written(tx.next, tx.row, Snapshot(tx.peer)))
    <2> DEFINE q == tx.peer
               i == conn[q].actor
    <2>1. CASE tx.next = "upsert"
      <3>1. Written("upsert", tx.row, Snapshot(q)) = Row(q, tx.row.worn, tx.row.bag)
        BY DEF Written, Snapshot, Row
      <3> QED BY <2>1, <3>1 DEF RowAt, Then
    <2>2. CASE tx.next = "clear"
      <3>1. PICK w, b : tx.row = Row(q, w, b)
        BY <1>2, <2>2 DEF RowAt
      <3>2. Written("clear", tx.row, Snapshot(q)) = Row(q, BareSlots, BareBag)
        <4>1. Written("clear", Row(q, w, b), Snapshot(q)) = Row(q, BareSlots, BareBag)
          BY DEF Written, Row
        <4> QED BY <3>1, <4>1
      <3> QED BY <2>2, <3>2 DEF RowAt, Then
    <2>3. CASE tx.next = "worn"
      <3>1. Written("worn", tx.row, Snapshot(q)) = Row(q, worn[i], BareBag)
        BY <1>2, <2>3 DEF RowAt, Written, Row, Snapshot
      <3> QED BY <2>3, <3>1 DEF RowAt, Then
    <2>4. CASE tx.next = "bag"
      <3>1. Written("bag", tx.row, Snapshot(q)) = Row(q, worn[i], bag[i])
        BY <1>2, <2>4 DEF RowAt, Written, Row, Snapshot
      <3> QED BY <2>4, <3>1 DEF RowAt, Then
    <2> QED BY <1>1, <1>2, <2>1, <2>2, <2>3, <2>4 DEF RowAt
  <1>5. TxOK'
    <2>1. /\ tx'.peer = tx.peer /\ tx'.next = Then[tx.next]
          /\ tx'.row = Written(tx.next, tx.row, Snapshot(tx.peer))
      BY <1>3
    <2>2. RowAt(tx.peer, tx.next, tx.row)'
      BY <1>1, <1>4, <2>1 DEF RowAt, Row
    <2> QED BY <1>1, <1>2, <1>3, <2>1, <2>2 DEF TxOK
  <1>6. Welcomed' = Welcomed
    BY <1>1 DEF Welcomed, In
  <1>7. ~ Idle
    BY <1>1 DEF SaveOK
  <1> QED BY <1>1, <1>5, <1>6, <1>7 DEF SaveOK, Idle

(* What COMMIT makes durable is the character as it stands in the world.   *)
LEMMA CommitTx ==
    ASSUME SaveOK, Commit
    PROVE  /\ SaveOK'
           /\ tx.peer \in queue
           /\ store' = [store EXCEPT ![conn[tx.peer].name] = Snapshot(tx.peer)]
  <1>1. /\ tx # NoTx /\ tx.next = "commit" /\ UNCHANGED <<conn, why>>
        /\ store' = [store EXCEPT ![conn[tx.peer].name] = tx.row]
        /\ queue' = queue \ {tx.peer} /\ tx' = NoTx
    BY DEF Commit
  <1>2. tx.peer \in queue /\ RowAt(tx.peer, "commit", tx.row)
    BY <1>1 DEF SaveOK, TxOK
  <1>3. tx.row = Snapshot(tx.peer)
    BY <1>2 DEF RowAt, Row, Snapshot
  <1>4. Welcomed' = Welcomed
    BY <1>1 DEF Welcomed, In
  <1>5. TxOK'
    BY <1>1 DEF TxOK
  <1>6. ~ Idle
    BY <1>1 DEF SaveOK
  <1> QED BY <1>1, <1>2, <1>3, <1>4, <1>5, <1>6 DEF SaveOK, Idle

LEMMA IdleSave ==
    ASSUME SaveOK, Idle, UNCHANGED saveVars
    PROVE  SaveOK'
  BY DEF SaveOK, Idle, saveVars, TxOK

(* The other steps of a round. *)
LEMMA RoundSave ==
    ASSUME SaveOK,
           \/ \E reason \in {"periodic", "stop"} : StartRound(reason, Welcomed)
           \/ EndPeriodic
           \/ \E p \in Peers : SaveFails(p) \/ EndLeave(p)
           \/ Restart
    PROVE  SaveOK'
  <1>1. ASSUME NEW reason \in {"periodic", "stop"}, StartRound(reason, Welcomed) PROVE SaveOK'
    <2>1. Welcomed' = Welcomed
      BY <1>1 DEF StartRound, Welcomed, In
    <2> QED BY <1>1, <2>1 DEF StartRound, SaveOK, Idle, TxOK
  <1>2. CASE EndPeriodic \/ Restart \/ \E p \in Peers : EndLeave(p)
    BY <1>2 DEF EndPeriodic, EndLeave, Restart, RoundOver, SaveOK, Idle, TxOK
  <1>3. ASSUME NEW p \in Peers, SaveFails(p) PROVE SaveOK'
    <2>1. Welcomed' = Welcomed
      BY <1>3 DEF SaveFails, Welcomed, In
    <2> QED BY <1>3, <2>1 DEF SaveFails, SaveOK, Idle, TxOK
  <1> QED BY <1>1, <1>2, <1>3

LEMMA DisconnectSave ==
    ASSUME SaveOK, ConnOK, NEW p \in Peers, Disconnected(p)
    PROVE  SaveOK'
  <1>1. Welcomed' = Welcomed
    BY Socketed DEF Disconnected, Sockets
  <1> QED BY <1>1 DEF Disconnected, SaveOK, Idle, TxOK

----------------------------------------------------------------------------
(* Health, and the health that is stored. *)

VitalOK ==
    /\ hp \in [NetIds -> Nat] /\ dead \subseteq live
    /\ NobodyStuckDead
    /\ store = [n \in Names |-> store[n]]
    /\ \A n \in Names : store[n] # NoRow => store[n].hp \in Nat

SessionsOK == PeopleOK /\ SaveOK /\ VitalOK

(* What one actor does leaves everything but bodies and tiles alone. *)
LEMMA LifeFrame ==
    ASSUME NEW p \in Peers, Life(p)
    PROVE  Idle /\ In(p) /\ UNCHANGED <<live, nextId, store, conn, saveVars>>
  <1>1. CASE \E d \in Directions : Walk(p, d)
    BY <1>1 DEF Walk, MaySteer
  <1>2. CASE Arrive(p)
    BY <1>2 DEF Arrive, Land
  <1>3. CASE \/ \E item \in Items : Equip(p, item)
             \/ \E slot \in Slots : Unequip(p, slot)
             \/ Wounded(p)
    BY <1>3 DEF Equip, Unequip, Wounded, MaySteer, worldVars
  <1>4. CASE Killed(p) \/ Respawned(p)
    BY <1>4 DEF Killed, Respawned
  <1> QED BY <1>1, <1>2, <1>3, <1>4 DEF Life

LEMMA LifeVital ==
    ASSUME PeopleOK, VitalOK, NEW p \in Peers, Life(p)
    PROVE  VitalOK'
  <1> DEFINE i == Player(p)
  <1>1. /\ i \in live /\ i \in NetIds
        /\ UNCHANGED <<live, store>>
    BY LifeFrame DEF PeopleOK, NoOrphans, Welcomed, Player
  <1>2. ASSUME UNCHANGED <<hp, dead>> PROVE VitalOK'
    BY <1>1, <1>2 DEF VitalOK, NobodyStuckDead
  <1>3. CASE \/ \E d \in Directions : Walk(p, d)
             \/ Arrive(p)
             \/ \E item \in Items : Equip(p, item)
             \/ \E slot \in Slots : Unequip(p, slot)
    BY <1>2, <1>3 DEF Walk, Arrive, Equip, Unequip, bodyVars
  <1>4. ASSUME NEW now \in Nat, hp' = [hp EXCEPT ![i] = now],
               \/ dead' = dead \cup {i} /\ now = 0
               \/ dead' = dead \ {i} /\ now # 0
        PROVE  VitalOK'
    BY <1>1, <1>4 DEF VitalOK, NobodyStuckDead, PeopleOK
  <1>5. CASE Wounded(p)
    <2>1. /\ hp' = [hp EXCEPT ![i] = hp[i] - 1] /\ hp[i] - 1 \in Nat /\ hp[i] - 1 # 0
          /\ dead' = dead /\ i \notin dead
      BY <1>1, <1>5 DEF Wounded, VitalOK, NobodyStuckDead
    <2> QED BY <2>1, <1>4
  <1>6. CASE Killed(p)
    BY <1>4, <1>6 DEF Killed
  <1>7. CASE Respawned(p)
    BY <1>4, <1>7, SessionsAssumption DEF Respawned
  <1> QED BY <1>3, <1>5, <1>6, <1>7 DEF Life

LEMMA WelcomeVital ==
    ASSUME PeopleOK, VitalOK, NEW p \in Peers, NEW n \in Names, Welcome(p, n)
    PROVE  VitalOK'
  <1>1. /\ nextId \in NetIds \ live /\ live' = live \cup {nextId}
        /\ UNCHANGED <<store, dead>>
    BY WelcomePeople DEF Welcome
  <1>2. PICK saved \in Loaded(n) : hp' = [hp EXCEPT ![nextId] = Health(saved)]
    BY DEF Welcome
  <1>3. Health(saved) \in Nat \ {0}
    <2>1. saved = store[n] \/ saved = NoRow
      BY DEF Loaded
    <2> QED BY <2>1, SessionsAssumption DEF Health, VitalOK
  <1> QED BY <1>1, <1>2, <1>3 DEF VitalOK, NobodyStuckDead, PeopleOK

LEMMA CommitVital ==
    ASSUME SessionsOK, Commit
    PROVE  VitalOK'
  <1>1. /\ tx.peer \in Welcomed
        /\ store' = [store EXCEPT ![conn[tx.peer].name] = Snapshot(tx.peer)]
        /\ UNCHANGED <<hp, dead, live>>
    BY CommitTx DEF SessionsOK, SaveOK, Commit, worldVars, bodyVars
  <1>2. Snapshot(tx.peer).hp \in Nat
    <2>1. Player(tx.peer) \in NetIds
      BY <1>1 DEF SessionsOK, PeopleOK, NoOrphans
    <2> QED BY <2>1 DEF Snapshot, Player, SessionsOK, VitalOK
  <1>3. /\ store' = [n \in Names |-> store'[n]]
        /\ \A n \in Names : store'[n] = store[n] \/ store'[n] = Snapshot(tx.peer)
    BY <1>1 DEF SessionsOK, VitalOK
  <1> QED BY <1>1, <1>2, <1>3 DEF SessionsOK, VitalOK, NobodyStuckDead

LEMMA LeaveVital ==
    ASSUME PeopleOK, VitalOK, NEW p \in Peers, EndLeave(p)
    PROVE  VitalOK'
  <1>1. live' = live \ {conn[p].actor} /\ store' = store
    BY LeavePeople DEF EndLeave
  <1>2. CASE In(p)
    BY <1>1, <1>2 DEF EndLeave, Forget, VitalOK, NobodyStuckDead, PeopleOK
  <1>3. CASE ~ In(p)
    <2>1. UNCHANGED <<live, hp, dead>>
      BY <1>3 DEF EndLeave, worldVars, bodyVars
    <2> QED BY <1>1, <2>1 DEF VitalOK, NobodyStuckDead
  <1> QED BY <1>2, <1>3

(* Steps that leave connections, bodies and store alone. *)
LEMMA Undisturbed ==
    ASSUME PeopleOK, VitalOK, UNCHANGED <<live, nextId, conn, hp, dead, store>>
    PROVE  PeopleOK' /\ VitalOK'
  <1>1. ConnOK' /\ SamePeople
    BY DEF PeopleOK, ConnOK, SamePeople, Welcomed, In
  <1>2. VitalOK'
    BY DEF VitalOK, NobodyStuckDead
  <1> QED BY <1>1, <1>2, SamePeopleOK

(* Steps that only open or lose sockets. *)
LEMMA SocketOK ==
    ASSUME PeopleOK, VitalOK, NEW p \in Peers, NEW s \in Sockets,
           conn' = [conn EXCEPT ![p].socket = s], UNCHANGED <<live, nextId, hp, dead, store>>
    PROVE  PeopleOK' /\ VitalOK'
  <1>1. ConnOK' /\ SamePeople
    BY Socketed DEF PeopleOK
  <1>2. VitalOK'
    BY DEF VitalOK, NobodyStuckDead
  <1> QED BY <1>1, <1>2, SamePeopleOK

LEMMA RestartOK ==
    ASSUME SessionsOK, Restart
    PROVE  SessionsOK'
  <1>1. PeopleOK' /\ SaveOK' /\ live' = {}
    BY RestartPeople, RoundSave DEF SessionsOK
  <1>2. UNCHANGED store /\ hp' = [i \in NetIds |-> 0] /\ dead' = {}
    BY DEF Restart, NoBodies
  <1> QED BY <1>1, <1>2 DEF SessionsOK, VitalOK, NobodyStuckDead

LEMMA RoundKeeps ==
    ASSUME SessionsOK, Round
    PROVE  SessionsOK'
  <1>1. ASSUME NEW p \in Peers, Begin(p) PROVE SessionsOK'
    BY <1>1, BeginTx, Undisturbed DEF SessionsOK, Begin, worldVars, bodyVars
  <1>2. CASE Execute
    BY <1>2, ExecuteTx, Undisturbed DEF SessionsOK, Execute, worldVars, bodyVars
  <1>3. CASE Commit
    <2>1. ConnOK' /\ SamePeople /\ UNCHANGED <<live, nextId>>
      BY <1>3 DEF Commit, worldVars, SessionsOK, PeopleOK, ConnOK, SamePeople, Welcomed, In
    <2> QED BY <1>3, <2>1, CommitTx, CommitVital, SamePeopleOK DEF SessionsOK
  <1>4. ASSUME NEW p \in Peers, SaveFails(p) PROVE SessionsOK'
    BY <1>4, RoundSave, Undisturbed DEF SessionsOK, SaveFails, worldVars, bodyVars
  <1>5. CASE EndPeriodic
    BY <1>5, RoundSave, Undisturbed DEF SessionsOK, EndPeriodic, worldVars, bodyVars
  <1>6. ASSUME NEW p \in Peers, EndLeave(p) PROVE SessionsOK'
    BY <1>6, RoundSave, LeavePeople, LeaveVital DEF SessionsOK
  <1>7. CASE EndStop
    BY <1>7, RestartOK DEF EndStop
  <1> QED BY <1>1, <1>2, <1>3, <1>4, <1>5, <1>6, <1>7 DEF Round

LEMMA SessionKeeps ==
    ASSUME SessionsOK, NEW p \in Peers, Session(p)
    PROVE  SessionsOK'
  <1>1. CASE Connected(p)
    BY <1>1, SocketOK, IdleSave DEF Connected, Sockets, SessionsOK, worldVars, bodyVars
  <1>2. CASE Disconnected(p)
    BY <1>2, SocketOK, DisconnectSave
    DEF Disconnected, Sockets, SessionsOK, PeopleOK, worldVars, bodyVars
  <1>3. CASE \E fault \in {"malformed", "protocol", "content"} : Refuse(p, fault)
    BY <1>3, Undisturbed, IdleSave DEF Refuse, SessionsOK, worldVars, bodyVars
  <1>4. ASSUME NEW n \in Names, Welcome(p, n) PROVE SessionsOK'
    BY <1>4, WelcomePeople, WelcomeVital, IdleSave DEF SessionsOK, Welcome
  <1> QED BY <1>1, <1>2, <1>3, <1>4 DEF Session

LEMMA SessionsStep ==
    ASSUME SessionsOK, [Next]_vars
    PROVE  SessionsOK'
  <1>1. CASE UNCHANGED vars
    <2>1. UNCHANGED <<live, nextId, conn, hp, dead, store, queue, why, tx, pos, worn, bag, deeds>>
      BY <1>1 DEF vars, worldVars, bodyVars, saveVars
    <2>2. SaveOK'
      BY <2>1 DEF SessionsOK, SaveOK, Idle, TxOK, RowAt, Row, Welcomed, In
    <2> QED BY <2>1, <2>2, Undisturbed DEF SessionsOK
  <1>2. CASE Round
    BY <1>2, RoundKeeps
  <1>3. CASE PeriodicSave \/ Stop
    BY <1>3, RoundSave, Undisturbed
    DEF PeriodicSave, Stop, StartRound, SessionsOK, worldVars, bodyVars
  <1>4. CASE Crash
    BY <1>4, RestartOK DEF Crash
  <1>5. ASSUME NEW p \in Peers, Session(p) PROVE SessionsOK'
    BY <1>5, SessionKeeps
  <1>6. ASSUME NEW p \in Peers, Life(p) PROVE SessionsOK'
    <2>1. Idle /\ UNCHANGED <<live, nextId, conn, saveVars>>
      BY <1>6, LifeFrame
    <2>2. ConnOK' /\ SamePeople
      BY <2>1 DEF SessionsOK, PeopleOK, ConnOK, SamePeople, Welcomed, In
    <2>3. PeopleOK' /\ SaveOK'
      BY <2>1, <2>2, SamePeopleOK, IdleSave DEF SessionsOK
    <2> QED BY <1>6, <2>3, LifeVital DEF SessionsOK
  <1> QED BY <1>1, <1>2, <1>3, <1>4, <1>5, <1>6 DEF Next

LEMMA SessionsInit == Init => SessionsOK
  <1> SUFFICES ASSUME Init PROVE SessionsOK
    OBVIOUS
  <1>1. Welcomed = {} /\ ConnOK
    BY DEF Init, Welcomed, In, ConnOK, Connections, Nobody, Sockets
  <1>2. PeopleOK
    BY <1>1 DEF Init, WorldInit, PeopleOK, NoOrphans
  <1>3. SaveOK /\ VitalOK
    BY <1>1 DEF Init, WorldInit, SaveOK, Idle, TxOK, VitalOK, NobodyStuckDead
  <1> QED BY <1>2, <1>3 DEF SessionsOK

(* NoOrphans of Sessions: handle_hello, Disconnected and a restart keep    *)
(* the actors of players and the connections that are in one to one.       *)
THEOREM OneBodyEach == Spec => []NoOrphans
  <1>1. SessionsOK => NoOrphans
    BY DEF SessionsOK, PeopleOK
  <1> QED BY <1>1, SessionsInit, SessionsStep, PTL DEF Spec

(* NobodyStuckDead of Sessions: with what snapshot_character wrote and     *)
(* handle_hello reads back, an actor is at 0 hp exactly while it carries   *)
(* the CDead that will bring it back.                                      *)
THEOREM DeathIsMarked == Spec => []NobodyStuckDead
  <1>1. SessionsOK => NobodyStuckDead
    BY DEF SessionsOK, VitalOK
  <1> QED BY <1>1, SessionsInit, SessionsStep, PTL DEF Spec

----------------------------------------------------------------------------
(* Rounds of saves, when no two peers are in under one name.               *)

OneName == \A p, q \in Welcomed : p # q => conn[p].name # conn[q].name

LostOK ==
    /\ \A p \in Peers : Lost(p) => why = "leave"
    /\ \A p, q \in Peers : Lost(p) /\ Lost(q) => p = q

(* Whoever the round has handled is stored as it stands. *)
Handled ==
    ~ Idle =>
        \A p \in Welcomed \ (failed \cup queue) :
            (why = "leave" => Lost(p)) => store[conn[p].name] = Snapshot(p)

RoundOK == OneName /\ LostOK /\ Handled

LEMMA IdleRound ==
    ASSUME RoundOK, Idle, UNCHANGED <<conn, why>>
    PROVE  RoundOK'
  BY DEF RoundOK, OneName, LostOK, Handled, Idle, Lost, Welcomed, In

LEMMA WriteRound ==
    ASSUME SessionsOK, RoundOK, Execute \/ \E p \in Peers : Begin(p) \/ SaveFails(p)
    PROVE  RoundOK'
  <1>1. UNCHANGED <<conn, why, store, pos, hp, worn, bag, deeds>>
    BY DEF Execute, Begin, SaveFails, worldVars, bodyVars
  <1>2. queue \cup failed \subseteq queue' \cup failed'
    BY DEF Execute, Begin, SaveFails
  <1>3. Welcomed' = Welcomed
    BY <1>1 DEF Welcomed, In
  <1>4. OneName' /\ LostOK'
    BY <1>1, <1>3 DEF RoundOK, OneName, LostOK, Lost
  <1>5. Handled'
    BY <1>1, <1>2, <1>3 DEF RoundOK, Handled, Idle, Lost, Snapshot
  <1> QED BY <1>4, <1>5 DEF RoundOK

LEMMA CommitRound ==
    ASSUME SessionsOK, RoundOK, Commit
    PROVE  RoundOK'
  <1>1. /\ UNCHANGED <<conn, why, failed, pos, hp, worn, bag, deeds>>
        /\ queue' = queue \ {tx.peer}
        /\ store' = [store EXCEPT ![conn[tx.peer].name] = Snapshot(tx.peer)]
        /\ tx.peer \in Welcomed
    BY CommitTx DEF Commit, worldVars, bodyVars, SessionsOK, SaveOK
  <1>2. Welcomed' = Welcomed
    BY <1>1 DEF Welcomed, In
  <1>3. OneName' /\ LostOK'
    BY <1>1, <1>2 DEF RoundOK, OneName, LostOK, Lost
  <1>4. ASSUME NEW p \in Welcomed
        PROVE  /\ conn[p].name \in Names
               /\ store'[conn[p].name] =
                     IF p = tx.peer THEN Snapshot(p) ELSE store[conn[p].name]
    BY <1>1 DEF SessionsOK, PeopleOK, ConnOK, VitalOK, RoundOK, OneName
  <1>5. Handled'
    BY <1>1, <1>2, <1>4 DEF RoundOK, Handled, Idle, Lost, Snapshot
  <1> QED BY <1>3, <1>5 DEF RoundOK

LEMMA RestartRound ==
    ASSUME Restart
    PROVE  RoundOK'
  <1>1. conn' = [p \in Peers |-> Nobody] /\ why' = "none"
    BY DEF Restart
  <1> QED BY <1>1, RestartPeople DEF RoundOK, OneName, LostOK, Lost, Handled, Idle, Nobody

LEMMA RoundStep ==
    ASSUME SessionsOK, RoundOK, ~ SharedNames, [Next]_vars
    PROVE  RoundOK'
  <1>1. CASE UNCHANGED vars
    BY <1>1 DEF vars, worldVars, bodyVars, saveVars, RoundOK, OneName, LostOK, Handled,
                Idle, Lost, Welcomed, In, Snapshot
  <1>2. CASE Execute \/ \E p \in Peers : Begin(p) \/ SaveFails(p)
    BY <1>2, WriteRound
  <1>3. CASE Commit
    BY <1>3, CommitRound
  <1>4. CASE EndPeriodic
    BY <1>4 DEF EndPeriodic, RoundOK, OneName, LostOK, Handled, Idle, Lost, Welcomed, In
  <1>5. ASSUME NEW p \in Peers, EndLeave(p) PROVE RoundOK'
    <2>1. /\ Welcomed' = Welcomed \ {p} /\ conn'[p] = Nobody
          /\ \A q \in Peers \ {p} : conn'[q] = conn[q]
      BY <1>5, LeavePeople DEF SessionsOK
    <2>2. why' = "none" /\ Lost(p)
      BY <1>5 DEF EndLeave
    <2>3. OneName'
      BY <2>1 DEF RoundOK, OneName, Welcomed
    <2>4. \A q \in Peers : ~ Lost(q)'
      BY <2>1, <2>2 DEF RoundOK, LostOK, Lost, Nobody
    <2> QED BY <2>2, <2>3, <2>4 DEF RoundOK, LostOK, Handled, Idle
  <1>6. CASE EndStop \/ Crash
    BY <1>6, RestartRound DEF EndStop, Crash
  <1>7. CASE PeriodicSave \/ Stop
    <2>1. Idle /\ UNCHANGED conn /\ queue' = Welcomed
      BY <1>7 DEF PeriodicSave, Stop, StartRound
    <2>2. Welcomed' = Welcomed
      BY <2>1 DEF Welcomed, In
    <2> QED BY <2>1, <2>2 DEF RoundOK, OneName, LostOK, Handled, Idle, Lost
  <1>8. ASSUME NEW p \in Peers, Connected(p) PROVE RoundOK'
    <2>1. /\ Idle /\ why' = why /\ Welcomed' = Welcomed /\ SamePeople
          /\ \A q \in Peers : conn'[q].socket = IF q = p THEN "open" ELSE conn[q].socket
      BY <1>8, Socketed DEF Connected, Sockets, SessionsOK, PeopleOK, saveVars
    <2> QED BY <2>1 DEF RoundOK, OneName, LostOK, Handled, Idle, Lost, SamePeople, Welcomed
  <1>9. ASSUME NEW p \in Peers, Disconnected(p) PROVE RoundOK'
    <2>1. /\ Idle /\ why' = "leave" /\ queue' = {p} \cap Welcomed
          /\ Welcomed' = Welcomed /\ SamePeople
          /\ \A q \in Peers : conn'[q].socket = IF q = p THEN "lost" ELSE conn[q].socket
      BY <1>9, Socketed DEF Disconnected, Sockets, SessionsOK, PeopleOK
    <2>2. \A q \in Peers : Lost(q)' => q = p
      BY <2>1 DEF RoundOK, LostOK, Lost, Idle
    <2>3. OneName'
      BY <2>1 DEF RoundOK, OneName, SamePeople, Welcomed
    <2> QED BY <2>1, <2>2, <2>3 DEF RoundOK, LostOK, Handled, Welcomed
  <1>10. ASSUME NEW p \in Peers, NEW n \in Names, Welcome(p, n) PROVE RoundOK'
    <2>1. /\ Idle /\ why' = why /\ \A q \in Welcomed \ {p} : conn[q].name # n
      BY <1>10 DEF Welcome, saveVars
    <2>2. /\ Welcomed' = Welcomed \cup {p} /\ conn'[p].name = n
          /\ \A q \in Peers \ {p} : conn'[q] = conn[q]
          /\ \A q \in Peers : conn'[q].socket = conn[q].socket
      BY <1>10, WelcomePeople DEF SessionsOK
    <2>3. OneName'
      BY <2>1, <2>2 DEF RoundOK, OneName, Welcomed
    <2> QED BY <2>1, <2>2, <2>3 DEF RoundOK, LostOK, Handled, Idle, Lost
  <1>11. ASSUME NEW p \in Peers,
                \/ \E fault \in {"malformed", "protocol", "content"} : Refuse(p, fault)
                \/ Life(p)
         PROVE  RoundOK'
    BY <1>11, LifeFrame, IdleRound DEF Refuse, saveVars
  <1> QED BY <1>1, <1>2, <1>3, <1>4, <1>5, <1>6, <1>7, <1>8, <1>9, <1>10, <1>11
          DEF Next, Round, Session

(* EveryoneStored of Sessions: with one peer to a name, whatever fails     *)
(* within a round, when it is over everybody it was for is in the database *)
(* as in the world, but for those whose own save_character failed.         *)
THEOREM RoundsAreComplete ==
    ASSUME ~ SharedNames
    PROVE  Spec => []EveryoneStored
  <1>1. Init => RoundOK
    BY DEF Init, RoundOK, OneName, LostOK, Handled, Idle, Lost, Welcomed, In, Nobody
  <1>2. (SessionsOK /\ RoundOK) /\ [Next]_vars => (SessionsOK /\ RoundOK)'
    BY SessionsStep, RoundStep
  <1>3. RoundOK => EveryoneStored
    BY DEF RoundOK, Handled, EveryoneStored, RoundOver
  <1> QED BY <1>1, <1>2, <1>3, SessionsInit, PTL DEF Spec

----------------------------------------------------------------------------
(* What a character has been through, in the world and in the database.    *)

AheadOfStore ==
    \A p \in Welcomed :
        store[conn[p].name] # NoRow => deeds[Player(p)] >= store[conn[p].name].deeds

MemoryOK ==
    /\ deeds \in [NetIds -> Nat]
    /\ \A n \in Names : store[n] # NoRow => store[n].deeds \in Nat
    /\ AheadOfStore

LEMMA LifeMemory ==
    ASSUME SessionsOK, MemoryOK, NEW p \in Peers, Life(p)
    PROVE  MemoryOK'
  <1>1. UNCHANGED <<conn, store>>
    BY LifeFrame
  <1>2. Welcomed' = Welcomed
    BY <1>1 DEF Welcomed, In
  <1>3. deeds' = deeds \/ MoreDeeds(Player(p))
    BY DEF Life, Walk, Arrive, Equip, Unequip, Wounded, Killed, Respawned, bodyVars
  <1>4. /\ deeds' \in [NetIds -> Nat]
        /\ \A i \in NetIds : deeds'[i] >= deeds[i]
    BY <1>3 DEF MoreDeeds, MemoryOK
  <1>5. AheadOfStore'
    <2> SUFFICES ASSUME NEW q \in Welcomed, store[conn[q].name] # NoRow
                 PROVE  deeds'[Player(q)] >= store[conn[q].name].deeds
      BY <1>1, <1>2 DEF AheadOfStore, Player
    <2>1. Player(q) \in NetIds /\ conn[q].name \in Names
      BY DEF SessionsOK, PeopleOK, NoOrphans, ConnOK
    <2> QED BY <1>4, <2>1 DEF MemoryOK, AheadOfStore
  <1> QED BY <1>1, <1>4, <1>5 DEF MemoryOK

LEMMA WelcomeMemory ==
    ASSUME SessionsOK, MemoryOK, ~ LoadsFail, NEW p \in Peers, NEW n \in Names, Welcome(p, n)
    PROVE  MemoryOK'
  <1>1. /\ Welcomed' = Welcomed \cup {p} /\ p \notin Welcomed
        /\ Player(p)' = nextId /\ conn'[p].name = n /\ nextId \in NetIds \ live
        /\ \A q \in Peers \ {p} : conn'[q] = conn[q]
    BY WelcomePeople DEF SessionsOK
  <1>2. /\ store' = store
        /\ deeds' = [deeds EXCEPT ![nextId] = IF store[n] = NoRow THEN 0 ELSE store[n].deeds]
    BY DEF Welcome, Loaded
  <1>3. deeds' \in [NetIds -> Nat]
    BY <1>1, <1>2 DEF MemoryOK
  <1>4. AheadOfStore'
    <2> SUFFICES ASSUME NEW q \in Welcomed', store[conn'[q].name] # NoRow
                 PROVE  deeds'[Player(q)'] >= store[conn'[q].name].deeds
      BY <1>2 DEF AheadOfStore
    <2>1. CASE q = p
      BY <2>1, <1>1, <1>2 DEF MemoryOK
    <2>2. CASE q # p
      <3>1. /\ q \in Welcomed /\ conn'[q] = conn[q] /\ Player(q)' = Player(q)
            /\ Player(q) \in live /\ Player(q) \in NetIds /\ Player(q) # nextId
        BY <2>2, <1>1 DEF Player, Welcomed, SessionsOK, PeopleOK, NoOrphans
      <3> QED BY <3>1, <1>2 DEF MemoryOK, AheadOfStore
    <2> QED BY <2>1, <2>2
  <1> QED BY <1>2, <1>3, <1>4 DEF MemoryOK

LEMMA LeaveMemory ==
    ASSUME SessionsOK, MemoryOK, NEW p \in Peers, EndLeave(p)
    PROVE  MemoryOK'
  <1>1. /\ Welcomed' = Welcomed \ {p} /\ store' = store
        /\ \A q \in Peers \ {p} : conn'[q] = conn[q]
    BY LeavePeople DEF SessionsOK, EndLeave
  <1>2. /\ deeds' \in [NetIds -> Nat]
        /\ \A i \in NetIds : (p \in Welcomed /\ i = Player(p)) \/ deeds'[i] = deeds[i]
    BY DEF EndLeave, Forget, bodyVars, MemoryOK, Welcomed, Player
  <1>3. AheadOfStore'
    <2> SUFFICES ASSUME NEW q \in Welcomed \ {p}, store[conn[q].name] # NoRow
                 PROVE  deeds'[Player(q)] >= store[conn[q].name].deeds
      BY <1>1 DEF AheadOfStore, Player, Welcomed
    <2>1. Player(q) \in NetIds /\ (p \in Welcomed => Player(q) # Player(p))
      BY DEF SessionsOK, PeopleOK, NoOrphans
    <2> QED BY <1>2, <2>1 DEF MemoryOK, AheadOfStore
  <1> QED BY <1>1, <1>2, <1>3 DEF MemoryOK

LEMMA CommitMemory ==
    ASSUME SessionsOK, RoundOK, MemoryOK, Commit,
           \A t, h, w, b, d : [tile |-> t, hp |-> h, worn |-> w, bag |-> b, deeds |-> d] # NoRow
    PROVE  /\ MemoryOK'
           /\ \A n \in Names : store[n] # NoRow =>
                 store'[n] # NoRow /\ store'[n].deeds >= store[n].deeds
  <1> DEFINE q == tx.peer
  <1>1. /\ q \in Welcomed /\ conn[q].name \in Names
        /\ store' = [store EXCEPT ![conn[q].name] = Snapshot(q)]
        /\ UNCHANGED <<conn, deeds>>
    BY CommitTx DEF Commit, bodyVars, SessionsOK, SaveOK, PeopleOK, ConnOK
  <1>2. /\ Snapshot(q) # NoRow /\ Snapshot(q).deeds = deeds[Player(q)]
        /\ deeds[Player(q)] \in Nat
    BY <1>1 DEF Snapshot, Player, SessionsOK, PeopleOK, NoOrphans, MemoryOK
  <1>3. \A n \in Names : store'[n] = IF n = conn[q].name THEN Snapshot(q) ELSE store[n]
    BY <1>1 DEF SessionsOK, VitalOK
  <1>4. ASSUME NEW n \in Names, store[n] # NoRow
        PROVE  store'[n] # NoRow /\ store'[n].deeds >= store[n].deeds
    BY <1>1, <1>2, <1>3, <1>4 DEF MemoryOK, AheadOfStore
  <1>5. AheadOfStore'
    <2> SUFFICES ASSUME NEW p \in Welcomed, store'[conn[p].name] # NoRow
                 PROVE  deeds[Player(p)] >= store'[conn[p].name].deeds
      BY <1>1 DEF AheadOfStore, Player, Welcomed, In
    <2>1. conn[p].name \in Names /\ (p # q => conn[p].name # conn[q].name)
      BY <1>1 DEF SessionsOK, PeopleOK, ConnOK, RoundOK, OneName
    <2>2. CASE p = q
      BY <2>1, <2>2, <1>2, <1>3
    <2>3. CASE p # q
      BY <2>1, <2>3, <1>3 DEF MemoryOK, AheadOfStore
    <2> QED BY <2>2, <2>3
  <1>6. \A n \in Names : store'[n] # NoRow => store'[n].deeds \in Nat
    BY <1>2, <1>3 DEF MemoryOK
  <1> QED BY <1>1, <1>4, <1>5, <1>6 DEF MemoryOK

(* Steps that only move connections about. *)
LEMMA SameMemory ==
    ASSUME SessionsOK, MemoryOK, SamePeople, UNCHANGED <<store, deeds>>
    PROVE  MemoryOK'
  <1>1. /\ Welcomed' = Welcomed
        /\ \A p \in Welcomed : Player(p)' = Player(p) /\ conn'[p].name = conn[p].name
    BY DEF SamePeople, Welcomed, In, Player
  <1> QED BY <1>1 DEF MemoryOK, AheadOfStore

LEMMA MemoryStep ==
    ASSUME SessionsOK, RoundOK, MemoryOK, ~ LoadsFail, [Next]_vars,
           \A t, h, w, b, d : [tile |-> t, hp |-> h, worn |-> w, bag |-> b, deeds |-> d] # NoRow
    PROVE  /\ MemoryOK'
           /\ \A n \in Names : store[n] # NoRow =>
                 store'[n] # NoRow /\ store'[n].deeds >= store[n].deeds
  <1>0. ASSUME store' = store
        PROVE  \A n \in Names : store[n] # NoRow =>
                 store'[n] # NoRow /\ store'[n].deeds >= store[n].deeds
    BY <1>0 DEF MemoryOK
  <1>1. ASSUME UNCHANGED <<conn, deeds, store>> PROVE MemoryOK'
    BY <1>1, SameMemory DEF SamePeople
  <1>2. CASE UNCHANGED vars
    BY <1>0, <1>1, <1>2 DEF vars, bodyVars
  <1>3. CASE \/ Execute \/ EndPeriodic \/ PeriodicSave \/ Stop
             \/ \E p \in Peers : Begin(p) \/ SaveFails(p)
    BY <1>0, <1>1, <1>3
    DEF Execute, EndPeriodic, PeriodicSave, Stop, StartRound, Begin, SaveFails, bodyVars
  <1>4. CASE Commit
    BY <1>4, CommitMemory
  <1>5. ASSUME NEW p \in Peers, EndLeave(p) PROVE MemoryOK' /\ store' = store
    BY <1>5, LeaveMemory DEF EndLeave
  <1>6. CASE EndStop \/ Crash
    <2>1. Restart
      BY <1>6 DEF EndStop, Crash
    <2>2. store' = store /\ deeds' = [i \in NetIds |-> 0] /\ Welcomed' = {}
      BY <2>1, RestartPeople DEF Restart, NoBodies
    <2>3. MemoryOK'
      BY <2>2 DEF MemoryOK, AheadOfStore
    <2> QED BY <1>0, <2>2, <2>3
  <1>7. ASSUME NEW p \in Peers, Session(p) PROVE MemoryOK' /\ store' = store
    <2>1. CASE Connected(p) \/ Disconnected(p)
      <3>1. SamePeople
        BY <2>1, Socketed DEF Connected, Disconnected, Sockets, SessionsOK, PeopleOK
      <3> QED BY <2>1, <3>1, SameMemory DEF Connected, Disconnected, bodyVars
    <2>2. CASE \E fault \in {"malformed", "protocol", "content"} : Refuse(p, fault)
      BY <1>1, <2>2 DEF Refuse, bodyVars
    <2>3. CASE \E n \in Names : Welcome(p, n)
      BY <2>3, WelcomeMemory DEF Welcome
    <2> QED BY <1>7, <2>1, <2>2, <2>3 DEF Session
  <1>8. ASSUME NEW p \in Peers, Life(p) PROVE MemoryOK' /\ store' = store
    BY <1>8, LifeMemory, LifeFrame
  <1> QED BY <1>0, <1>2, <1>3, <1>4, <1>5, <1>6, <1>7, <1>8 DEF Next, Round

(* ProgressKept of Sessions: with one peer to a name, and loads that do    *)
(* not fail, no COMMIT of save_character puts back a character that has    *)
(* seen less than the row it replaces, crashes and failed saves included.  *)
THEOREM ProgressIsKept ==
    ASSUME ~ SharedNames, ~ LoadsFail,
           \A t, h, w, b, d : [tile |-> t, hp |-> h, worn |-> w, bag |-> b, deeds |-> d] # NoRow
    PROVE  Spec => ProgressKept
  <1> DEFINE Kept == \A n \in Names : store[n] # NoRow =>
                        store'[n] # NoRow /\ store'[n].deeds >= store[n].deeds
             Inv == SessionsOK /\ RoundOK /\ MemoryOK
  <1>1. Init => Inv
    <2>1. Init => RoundOK
      BY DEF Init, RoundOK, OneName, LostOK, Handled, Idle, Lost, Welcomed, In, Nobody
    <2>2. Init => MemoryOK
      BY DEF Init, MemoryOK, AheadOfStore, Welcomed, In, Nobody
    <2> QED BY <2>1, <2>2, SessionsInit
  <1>2. Inv /\ [Next]_vars => Inv'
    BY SessionsStep, RoundStep, MemoryStep
  <1>3. Inv /\ [Next]_vars => [Kept]_vars
    BY MemoryStep
  <1> QED BY <1>1, <1>2, <1>3, PTL DEF Spec, ProgressKept

----------------------------------------------------------------------------
(* Gear is only ever moved. *)

Wear == [Slots -> Items \cup {NoItem}]
Bags == [Items -> Nat]
WornOf(w, x) == Cardinality({s \in Slots : w[s] = x})

(* Counting what is worn when one slot changes. *)
LEMMA SlotChanged ==
    ASSUME IsFiniteSet(Slots), NEW w \in Wear, NEW s \in Slots, NEW new \in Items \cup {NoItem},
           NEW x
    PROVE  /\ WornOf(w, x) \in Nat
           /\ WornOf([w EXCEPT ![s] = new], x) =
                 WornOf(w, x) - (IF w[s] = x THEN 1 ELSE 0) + (IF new = x THEN 1 ELSE 0)
  <1> DEFINE rest == {t \in Slots \ {s} : w[t] = x}
             now == [w EXCEPT ![s] = new]
  <1>1. IsFiniteSet(rest) /\ s \notin rest
    BY FS_Subset
  <1>2. {t \in Slots : w[t] = x} = IF w[s] = x THEN rest \cup {s} ELSE rest
    OBVIOUS
  <1>3. {t \in Slots : now[t] = x} = IF new = x THEN rest \cup {s} ELSE rest
    <2>1. now[s] = new /\ \A t \in Slots \ {s} : now[t] = w[t]
      BY DEF Wear
    <2> QED BY <2>1
  <1> HIDE DEF rest, now
  <1>4. Cardinality(rest) \in Nat /\ Cardinality(rest \cup {s}) = Cardinality(rest) + 1
    BY <1>1, FS_AddElement, FS_CardinalityType
  <1>5. WornOf(w, x) = Cardinality(rest) + (IF w[s] = x THEN 1 ELSE 0)
    <2>1. CASE w[s] = x
      BY <1>2, <1>4, <2>1 DEF WornOf
    <2>2. CASE w[s] # x
      BY <1>2, <1>4, <2>2 DEF WornOf
    <2> QED BY <2>1, <2>2
  <1>6. WornOf(now, x) = Cardinality(rest) + (IF new = x THEN 1 ELSE 0)
    <2>1. CASE new = x
      BY <1>3, <1>4, <2>1 DEF WornOf
    <2>2. CASE new # x
      BY <1>3, <1>4, <2>2 DEF WornOf
    <2> QED BY <2>1, <2>2
  <1> QED BY <1>4, <1>5, <1>6 DEF now

LEMMA OwnedIs ==
    ASSUME NEW w, NEW b
    PROVE  Owned(w, b) = [x \in Items |-> b[x] + WornOf(w, x)]
  BY DEF Owned, WornOf

(* equip: out of the bag, and what the slot held back into it. *)
LEMMA EquipKeeps ==
    ASSUME IsFiniteSet(Slots), NEW w \in Wear, NEW b \in Bags, NEW s \in Slots,
           NEW item \in Items, b[item] > 0
    PROVE  LET w2 == [w EXCEPT ![s] = item]
               b2 == PutBack(TakeOut(b, item), w[s])
           IN  w2 \in Wear /\ b2 \in Bags /\ Owned(w2, b2) = Owned(w, b)
  <1> DEFINE w2 == [w EXCEPT ![s] = item]
             b1 == TakeOut(b, item)
             b2 == PutBack(b1, w[s])
  <1>1. w2 \in Wear
    BY DEF Wear
  <1>2. /\ b1 \in Bags
        /\ \A x \in Items : b1[x] = b[x] - (IF x = item THEN 1 ELSE 0)
    BY DEF Bags, TakeOut
  <1> HIDE DEF b1
  <1>3. /\ b2 \in Bags
        /\ \A x \in Items : b2[x] = b1[x] + (IF x = w[s] THEN 1 ELSE 0)
    BY <1>2, SessionsAssumption DEF Bags, Wear, PutBack
  <1> HIDE DEF b2
  <1>4. ASSUME NEW x \in Items PROVE b2[x] + WornOf(w2, x) = b[x] + WornOf(w, x)
    <2>1. /\ WornOf(w, x) \in Nat
          /\ WornOf(w2, x) = WornOf(w, x) - (IF w[s] = x THEN 1 ELSE 0)
                                          + (IF item = x THEN 1 ELSE 0)
      BY SlotChanged
    <2>2. b[x] \in Nat
      BY DEF Bags
    <2> QED BY <2>1, <2>2, <1>2, <1>3
  <1>5. Owned(w2, b2) = Owned(w, b)
    BY <1>4, OwnedIs
  <1> QED BY <1>1, <1>3, <1>5 DEF b1, b2

(* unequip: from the slot into the bag. *)
LEMMA UnequipKeeps ==
    ASSUME IsFiniteSet(Slots), NEW w \in Wear, NEW b \in Bags, NEW s \in Slots, w[s] # NoItem
    PROVE  LET w2 == [w EXCEPT ![s] = NoItem]
               b2 == PutBack(b, w[s])
           IN  w2 \in Wear /\ b2 \in Bags /\ Owned(w2, b2) = Owned(w, b)
  <1> DEFINE w2 == [w EXCEPT ![s] = NoItem]
             b2 == PutBack(b, w[s])
  <1>1. w2 \in Wear
    BY DEF Wear
  <1>2. /\ b2 \in Bags
        /\ \A x \in Items : b2[x] = b[x] + (IF x = w[s] THEN 1 ELSE 0)
    BY DEF Bags, Wear, PutBack
  <1> HIDE DEF b2
  <1>3. ASSUME NEW x \in Items PROVE b2[x] + WornOf(w2, x) = b[x] + WornOf(w, x)
    <2>1. /\ WornOf(w, x) \in Nat
          /\ WornOf(w2, x) = WornOf(w, x) - (IF w[s] = x THEN 1 ELSE 0)
                                          + (IF NoItem = x THEN 1 ELSE 0)
      BY SlotChanged
    <2>2. b[x] \in Nat /\ NoItem # x
      BY SessionsAssumption DEF Bags
    <2> QED BY <2>1, <2>2, <1>2
  <1>4. Owned(w2, b2) = Owned(w, b)
    BY <1>3, OwnedIs
  <1> QED BY <1>1, <1>2, <1>4 DEF b2

LEMMA KitIsGear == KitWorn \in Wear /\ KitBag \in Bags
  <1>1. IsFiniteSet(DOMAIN Kit) /\ \A k \in DOMAIN Kit : Kit[k] \in Items
    <2>1. DOMAIN Kit = 1..Len(Kit) /\ Len(Kit) \in Nat
      BY SessionsAssumption
    <2> QED BY <2>1, FS_Interval, SessionsAssumption
  <1>2. ASSUME NEW s \in Slots
        PROVE  (IF FirstFor(s) = {} THEN NoItem ELSE Kit[CHOOSE k \in FirstFor(s) : TRUE])
                   \in Items \cup {NoItem}
    <2>1. FirstFor(s) \subseteq DOMAIN Kit
      BY DEF FirstFor
    <2>2. FirstFor(s) # {} => (CHOOSE k \in FirstFor(s) : TRUE) \in FirstFor(s)
      OBVIOUS
    <2> QED BY <2>1, <2>2, <1>1
  <1>3. ASSUME NEW x \in Items
        PROVE  Cardinality({k \in DOMAIN Kit :
                   Kit[k] = x /\ \A s \in Slots : k \notin FirstFor(s)}) \in Nat
    BY <1>1, FS_Subset, FS_CardinalityType
  <1> QED BY <1>2, <1>3 DEF KitWorn, KitBag, Wear, Bags

GearOK ==
    /\ worn \in [NetIds -> Wear] /\ bag \in [NetIds -> Bags]
    /\ \A n \in Names : store[n] # NoRow => store[n].worn \in Wear /\ store[n].bag \in Bags
    /\ KitKept

LEMMA BareIsGear == BareSlots \in Wear /\ BareBag \in Bags
  BY DEF BareSlots, BareBag, Wear, Bags

LEMMA SameGear ==
    ASSUME GearOK, live' \subseteq live, UNCHANGED <<worn, bag, store>>
    PROVE  GearOK'
  BY DEF GearOK, KitKept

(* One actor's gear was replaced by as much. *)
LEMMA GearMoved ==
    ASSUME SessionsOK, GearOK, NEW i \in NetIds, NEW w \in Wear, NEW b \in Bags,
           worn' = [worn EXCEPT ![i] = w], bag' = [bag EXCEPT ![i] = b],
           store' = store, live' \subseteq live \cup {i},
           i \in live' => Owned(w, b) = Owned(KitWorn, KitBag)
    PROVE  GearOK'
  <1>1. /\ worn' \in [NetIds -> Wear] /\ bag' \in [NetIds -> Bags]
        /\ worn'[i] = w /\ bag'[i] = b
        /\ \A j \in NetIds \ {i} : worn'[j] = worn[j] /\ bag'[j] = bag[j]
    BY DEF GearOK
  <1>2. ASSUME NEW j \in live' PROVE Owned(worn'[j], bag'[j]) = Owned(KitWorn, KitBag)
    <2>1. CASE j = i
      BY <2>1, <1>1
    <2>2. CASE j # i
      <3>1. j \in live /\ j \in NetIds \ {i}
        BY <2>2 DEF SessionsOK, PeopleOK
      <3> QED BY <3>1, <1>1 DEF GearOK, KitKept
    <2> QED BY <2>1, <2>2
  <1> QED BY <1>1, <1>2 DEF GearOK, KitKept

LEMMA LifeGear ==
    ASSUME IsFiniteSet(Slots), SessionsOK, GearOK, NEW p \in Peers, Life(p)
    PROVE  GearOK'
  <1> DEFINE i == Player(p)
  <1>1. i \in live /\ i \in NetIds /\ UNCHANGED <<live, store>>
    BY LifeFrame DEF SessionsOK, PeopleOK, NoOrphans, Welcomed, Player
  <1>2. worn[i] \in Wear /\ bag[i] \in Bags /\ Owned(worn[i], bag[i]) = Owned(KitWorn, KitBag)
    BY <1>1 DEF GearOK, KitKept
  <1>3. ASSUME NEW item \in Items, Equip(p, item) PROVE GearOK'
    <2> DEFINE slot == SlotOf[item]
               w2 == [worn[i] EXCEPT ![slot] = item]
               b2 == PutBack(TakeOut(bag[i], item), worn[i][slot])
    <2>1. /\ slot \in Slots /\ bag[i][item] > 0
          /\ worn' = [worn EXCEPT ![i] = w2] /\ bag' = [bag EXCEPT ![i] = b2]
      BY <1>3, SessionsAssumption DEF Equip, Equippable
    <2>2. w2 \in Wear /\ b2 \in Bags /\ Owned(w2, b2) = Owned(worn[i], bag[i])
      BY <2>1, <1>2, EquipKeeps
    <2> HIDE DEF w2, b2
    <2> QED BY <1>1, <1>2, <2>1, <2>2, GearMoved
  <1>4. ASSUME NEW s \in Slots, Unequip(p, s) PROVE GearOK'
    <2> DEFINE w2 == [worn[i] EXCEPT ![s] = NoItem]
               b2 == PutBack(bag[i], worn[i][s])
    <2>1. /\ worn[i][s] # NoItem
          /\ worn' = [worn EXCEPT ![i] = w2] /\ bag' = [bag EXCEPT ![i] = b2]
      BY <1>4 DEF Unequip
    <2>2. w2 \in Wear /\ b2 \in Bags /\ Owned(w2, b2) = Owned(worn[i], bag[i])
      BY <2>1, <1>2, UnequipKeeps
    <2> HIDE DEF w2, b2
    <2> QED BY <1>1, <1>2, <2>1, <2>2, GearMoved
  <1>5. CASE \/ \E d \in Directions : Walk(p, d)
             \/ Arrive(p) \/ Wounded(p) \/ Killed(p) \/ Respawned(p)
    BY <1>1, <1>5, SameGear DEF Walk, Arrive, Wounded, Killed, Respawned, bodyVars
  <1> QED BY <1>3, <1>4, <1>5 DEF Life

LEMMA WelcomeGear ==
    ASSUME SessionsOK, GearOK, NEW p \in Peers, NEW n \in Names, Welcome(p, n)
    PROVE  GearOK'
  <1>1. nextId \in NetIds /\ live' = live \cup {nextId} /\ store' = store
    BY WelcomePeople DEF SessionsOK, Welcome
  <1>2. PICK saved \in Loaded(n) :
           /\ worn' = [worn EXCEPT ![nextId] = IF saved = NoRow THEN KitWorn ELSE saved.worn]
           /\ bag' = [bag EXCEPT ![nextId] = IF saved = NoRow THEN KitBag ELSE saved.bag]
    BY DEF Welcome
  <1> DEFINE w == IF saved = NoRow THEN KitWorn ELSE saved.worn
             b == IF saved = NoRow THEN KitBag ELSE saved.bag
  <1>3. w \in Wear /\ b \in Bags /\ Owned(w, b) = Owned(KitWorn, KitBag)
    BY KitIsGear DEF Loaded, GearOK, KitKept
  <1>4. worn' = [worn EXCEPT ![nextId] = w] /\ bag' = [bag EXCEPT ![nextId] = b]
    BY <1>2
  <1> HIDE DEF w, b
  <1> QED BY <1>1, <1>3, <1>4, GearMoved

LEMMA CommitGear ==
    ASSUME SessionsOK, GearOK, Commit
    PROVE  GearOK'
  <1>1. /\ tx.peer \in Welcomed
        /\ store' = [store EXCEPT ![conn[tx.peer].name] = Snapshot(tx.peer)]
        /\ UNCHANGED <<worn, bag, live>>
    BY CommitTx DEF SessionsOK, SaveOK, Commit, worldVars, bodyVars
  <1>2. Player(tx.peer) \in live /\ Player(tx.peer) \in NetIds
    BY <1>1 DEF SessionsOK, PeopleOK, NoOrphans
  <1>3. /\ Snapshot(tx.peer).worn \in Wear /\ Snapshot(tx.peer).bag \in Bags
        /\ Owned(Snapshot(tx.peer).worn, Snapshot(tx.peer).bag) = Owned(KitWorn, KitBag)
    BY <1>2 DEF Snapshot, Player, GearOK, KitKept
  <1>4. \A n \in Names : store'[n] = store[n] \/ store'[n] = Snapshot(tx.peer)
    BY <1>1 DEF SessionsOK, VitalOK
  <1> QED BY <1>1, <1>3, <1>4 DEF GearOK, KitKept

LEMMA LeaveGear ==
    ASSUME SessionsOK, GearOK, NEW p \in Peers, EndLeave(p)
    PROVE  GearOK'
  <1> DEFINE i == conn[p].actor
  <1>1. live' = live \ {i} /\ store' = store
    BY LeavePeople DEF SessionsOK, EndLeave
  <1>2. CASE In(p)
    <2>1. i \in NetIds
      BY <1>2 DEF In, SessionsOK, PeopleOK, ConnOK, Connections
    <2>2. worn' = [worn EXCEPT ![i] = BareSlots] /\ bag' = [bag EXCEPT ![i] = BareBag]
      BY <1>2 DEF EndLeave, Forget
    <2> QED BY <1>1, <2>1, <2>2, BareIsGear, GearMoved
  <1>3. CASE ~ In(p)
    BY <1>1, <1>3, SameGear DEF EndLeave, bodyVars
  <1> QED BY <1>2, <1>3

LEMMA GearStep ==
    ASSUME IsFiniteSet(Slots), SessionsOK, GearOK, [Next]_vars
    PROVE  GearOK'
  <1>1. CASE UNCHANGED vars
    BY <1>1, SameGear DEF vars, worldVars, bodyVars
  <1>2. CASE \/ Execute \/ EndPeriodic \/ PeriodicSave \/ Stop
             \/ \E p \in Peers : Begin(p) \/ SaveFails(p) \/ Connected(p) \/ Disconnected(p)
             \/ \E p \in Peers, fault \in {"malformed", "protocol", "content"} : Refuse(p, fault)
    BY <1>2, SameGear
    DEF Execute, EndPeriodic, PeriodicSave, Stop, StartRound, Begin, SaveFails, Connected,
        Disconnected, Refuse, worldVars, bodyVars
  <1>3. CASE Commit
    BY <1>3, CommitGear
  <1>4. ASSUME NEW p \in Peers, EndLeave(p) PROVE GearOK'
    BY <1>4, LeaveGear
  <1>5. CASE EndStop \/ Crash
    <2>1. Restart
      BY <1>5 DEF EndStop, Crash
    <2>2. /\ live' = {} /\ store' = store
          /\ worn' = [i \in NetIds |-> BareSlots] /\ bag' = [i \in NetIds |-> BareBag]
      BY <2>1 DEF Restart, NoBodies
    <2> QED BY <2>2, BareIsGear DEF GearOK, KitKept
  <1>6. ASSUME NEW p \in Peers, NEW n \in Names, Welcome(p, n) PROVE GearOK'
    BY <1>6, WelcomeGear
  <1>7. ASSUME NEW p \in Peers, Life(p) PROVE GearOK'
    BY <1>7, LifeGear
  <1> QED BY <1>1, <1>2, <1>3, <1>4, <1>5, <1>6, <1>7 DEF Next, Round, Session

(* KitKept of Sessions: equip and unequip, save_character statement by     *)
(* statement, load_character, failures and crashes make nothing and lose   *)
(* nothing of the kit apply_vocation gave, on either side of the database. *)
THEOREM GearIsKept ==
    ASSUME IsFiniteSet(Slots)
    PROVE  Spec => []KitKept
  <1>1. Init => GearOK
    BY BareIsGear DEF Init, WorldInit, GearOK, KitKept
  <1>2. (SessionsOK /\ GearOK) /\ [Next]_vars => (SessionsOK /\ GearOK)'
    BY SessionsStep, GearStep
  <1>3. GearOK => KitKept
    BY DEF GearOK
  <1> QED BY <1>1, <1>2, <1>3, SessionsInit, PTL DEF Spec
=============================================================================

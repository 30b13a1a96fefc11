--------------------------- MODULE SpawnersProofs ---------------------------
(***************************************************************************)
(* Spawners, for any map, nests and areas, overlapping ones included: no   *)
(* nest outgrows what its author allowed, and one that was cleared stays   *)
(* clear for its period.                                                   *)
(***************************************************************************)
EXTENDS Spawners, FiniteSetTheorems, TLAPS

----------------------------------------------------------------------------
(* What both theorems stand on: ids are given once, births are pending in  *)
(* the two phases of update_spawners only, and a nest that has still to    *)
(* choose has none.                                                        *)

BirthsOf(n) == {b \in births : b[1] = n}

NestsOK ==
    /\ nextId \in Nat \ {0}
    /\ live \subseteq 1..(nextId - 1)
    /\ children \in [Nests -> SUBSET (1..(nextId - 1))]
    /\ due \in [Nests -> Nat] /\ calm \in [Nests -> Nat]
    /\ births \subseteq Nests \X Walkable /\ IsFiniteSet(births)
    /\ phase \in {"input", "arrive"} => births = {}
    /\ phase = "choose" => todo \subseteq Nests /\ \A b \in births : b[1] \notin todo

(* What a step does to the nests. *)

Newcomer ==      \* somebody entered who is no child
    /\ nextId' = nextId + 1 /\ live' = live \cup {nextId}
    /\ UNCHANGED <<children, due, births, calm, phase, todo>>

Gone(i) ==
    /\ phase = "input" /\ i \in live /\ live' = live \ {i}
    /\ calm' = [n \in Nests |-> IF i \in children[n] THEN 0 ELSE calm[n]]
    /\ UNCHANGED <<nextId, children, due, births, phase, todo>>

Ticked ==
    /\ phase = "input" /\ phase' = "arrive"
    /\ due' = [n \in Nests |-> IF due[n] > 0 THEN due[n] - 1 ELSE 0]
    /\ calm' = [n \in Nests |-> IF calm[n] < Period[n] THEN calm[n] + 1 ELSE calm[n]]
    /\ UNCHANGED <<nextId, live, children, births>>

Shifted ==       \* the loops of the tick, nests untouched
    /\ UNCHANGED <<nextId, live, children, due, calm>>
    /\ \/ births' = births /\ phase' = phase /\ (phase = "choose" => todo' = todo)
       \/ births' = births /\ phase = "arrive" /\ phase' = "choose" /\ todo' = Nests
       \/ births' = births /\ phase' = "bear"
       \/ births' = {} /\ phase' = "input"

LEMMA StepNests ==
    ASSUME [Next]_vars
    PROVE  \/ Newcomer \/ Ticked \/ Shifted
           \/ \E i \in NetIds : Gone(i)
           \/ \E n \in Nests : Choose(n)
           \/ \E b \in births : Bear(b)
  <1>1. ASSUME NEW tile \in Walkable, Enter(tile) PROVE Newcomer
    BY <1>1 DEF Enter, SpawnActor, Newcomer, nestVars
  <1>2. ASSUME NEW i \in NetIds, Go(i) PROVE Gone(i)
    BY <1>2 DEF Go, DespawnActor, Gone, nestVars
  <1>3. ASSUME NEW i \in NetIds, Arrive(i) PROVE Shifted
    BY <1>3 DEF Arrive, Land, Shifted, nestVars
  <1>4. ASSUME NEW i \in NetIds, NEW d \in Directions, Walk(i, d) PROVE Shifted
    BY <1>4 DEF Walk, Shifted, nestVars
  <1>5. CASE BeginTick
    BY <1>5 DEF BeginTick, Ticked
  <1>6. CASE EndArrive
    BY <1>6 DEF EndArrive, Shifted, worldVars, nestVars
  <1>7. CASE EndChoose
    BY <1>7 DEF EndChoose, Shifted, worldVars, nestVars
  <1>8. CASE EndTick
    BY <1>8 DEF EndTick, Shifted, worldVars
  <1>9. CASE UNCHANGED vars
    BY <1>9 DEF vars, worldVars, nestVars, Shifted
  <1> QED
    BY <1>1, <1>2, <1>3, <1>4, <1>5, <1>6, <1>7, <1>8, <1>9 DEF Next

LEMMA NestsKept == NestsOK /\ [Next]_vars => NestsOK'
  <1> SUFFICES ASSUME NestsOK, [Next]_vars PROVE NestsOK'
    OBVIOUS
  <1> USE SpawnersAssumption
  <1>1. CASE Newcomer
    <2>1. children' \in [Nests -> SUBSET (1..(nextId' - 1))]
      BY <1>1 DEF Newcomer, NestsOK
    <2> QED BY <1>1, <2>1 DEF Newcomer, NestsOK
  <1>2. ASSUME NEW i \in NetIds, Gone(i) PROVE NestsOK'
    BY <1>2 DEF Gone, NestsOK
  <1>3. CASE Ticked
    <2>1. due' \in [Nests -> Nat] /\ calm' \in [Nests -> Nat]
      BY <1>3 DEF Ticked, NestsOK
    <2> QED BY <1>3, <2>1 DEF Ticked, NestsOK
  <1>4. CASE Shifted
    BY <1>4, FS_EmptySet DEF Shifted, NestsOK
  <1>5. ASSUME NEW n \in Nests, Choose(n) PROVE NestsOK'
    <2>1. /\ phase = "choose" /\ phase' = phase /\ todo' = todo \ {n}
          /\ nextId' = nextId /\ live' = live /\ calm' = calm
          /\ children' = [children EXCEPT ![n] = Alive(n)]
          /\ due' = [due EXCEPT ![n] = Clock(n)]
      BY <1>5 DEF Choose, worldVars
    <2>2. children' \in [Nests -> SUBSET (1..(nextId - 1))]
      BY <2>1 DEF Alive, NestsOK
    <2>3. due' \in [Nests -> Nat]
      BY <2>1 DEF Clock, NestsOK
    <2>4. births' = births \/ \E t \in Walkable : births' = births \cup {<<n, t>>}
      BY <1>5 DEF Choose, FreeTiles
    <2>5. /\ births' \subseteq Nests \X Walkable /\ IsFiniteSet(births')
          /\ \A b \in births' : b \in births \/ b[1] = n
      <3>1. CASE births' = births
        BY <3>1 DEF NestsOK
      <3>2. ASSUME NEW t \in Walkable, births' = births \cup {<<n, t>>}
            PROVE  /\ births' \subseteq Nests \X Walkable /\ IsFiniteSet(births')
                   /\ \A b \in births' : b \in births \/ b[1] = n
        <4>1. births \subseteq Nests \X Walkable /\ <<n, t>> \in Nests \X Walkable
          BY DEF NestsOK
        <4>2. IsFiniteSet(births \cup {<<n, t>>})
          BY FS_AddElement DEF NestsOK
        <4>3. \A b \in births' : b \in births \/ b = <<n, t>>
          BY <3>2
        <4> QED BY <3>2, <4>1, <4>2, <4>3
      <3> QED BY <2>4, <3>1, <3>2
    <2> QED BY <2>1, <2>2, <2>3, <2>5 DEF NestsOK
  <1>6. ASSUME NEW b \in births, Bear(b) PROVE NestsOK'
    <2>1. PICK n \in Nests : n = b[1]
      BY DEF NestsOK
    <2>2. /\ phase = "bear" /\ phase' = phase /\ calm' = calm
          /\ births' = births \ {b}
          /\ nextId' = nextId + 1 /\ live' = live \cup {nextId}
          /\ children' = [children EXCEPT ![n] = @ \cup {nextId}]
          /\ due' = [due EXCEPT ![n] = Period[n]]
      BY <1>6, <2>1 DEF Bear, SpawnActor
    <2>3. children' \in [Nests -> SUBSET (1..(nextId' - 1))]
      BY <2>2 DEF NestsOK
    <2>4. due' \in [Nests -> Nat]
      BY <2>2 DEF NestsOK
    <2>5. IsFiniteSet(births')
      BY <2>2, FS_RemoveElement DEF NestsOK
    <2> QED BY <2>2, <2>3, <2>4, <2>5 DEF NestsOK
  <1> QED BY <1>1, <1>2, <1>3, <1>4, <1>5, <1>6, StepNests

----------------------------------------------------------------------------
(* The population. *)

Kids(n) == children[n] \cap live

Room(n) == Cardinality(Kids(n)) + Cardinality(BirthsOf(n)) <= MaxAlive[n]

LEMMA Counted ==
    ASSUME NestsOK, NEW n \in Nests
    PROVE  /\ IsFiniteSet(Kids(n)) /\ Cardinality(Kids(n)) \in Nat
           /\ IsFiniteSet(BirthsOf(n)) /\ Cardinality(BirthsOf(n)) \in Nat
           /\ MaxAlive[n] \in Nat
           /\ nextId \notin Kids(n) /\ nextId \notin live
  <1>1. IsFiniteSet(1..(nextId - 1))
    BY FS_Interval DEF NestsOK
  <1>2. Kids(n) \in SUBSET (1..(nextId - 1)) /\ nextId \notin live
    BY DEF Kids, NestsOK
  <1>3. BirthsOf(n) \in SUBSET births /\ IsFiniteSet(births)
    BY DEF BirthsOf, NestsOK
  <1>4. IsFiniteSet(Kids(n)) /\ IsFiniteSet(BirthsOf(n))
    BY <1>1, <1>2, <1>3, FS_Subset
  <1> QED BY <1>2, <1>4, FS_CardinalityType, SpawnersAssumption DEF Kids

LEMMA RoomKept ==
    ASSUME NestsOK, [Next]_vars, NEW n \in Nests, Room(n)
    PROVE  Room(n)'
  <1>0. /\ IsFiniteSet(Kids(n)) /\ Cardinality(Kids(n)) \in Nat
        /\ IsFiniteSet(BirthsOf(n)) /\ Cardinality(BirthsOf(n)) \in Nat
        /\ MaxAlive[n] \in Nat
        /\ nextId \notin Kids(n) /\ nextId \notin live
    BY Counted
  <1>1. ASSUME Kids(n)' \subseteq Kids(n), BirthsOf(n)' \subseteq BirthsOf(n)
        PROVE  Room(n)'
    <2>1. PICK kids : kids = Kids(n)'
      OBVIOUS
    <2>2. PICK born : born = BirthsOf(n)'
      OBVIOUS
    <2>3. kids \in SUBSET Kids(n) /\ born \in SUBSET BirthsOf(n)
      BY <1>1, <2>1, <2>2
    <2>4. /\ IsFiniteSet(kids) /\ Cardinality(kids) <= Cardinality(Kids(n))
          /\ IsFiniteSet(born) /\ Cardinality(born) <= Cardinality(BirthsOf(n))
      BY <1>0, <2>3, FS_Subset
    <2>5. Cardinality(kids) \in Nat /\ Cardinality(born) \in Nat
      BY <2>4, FS_CardinalityType
    <2>6. Cardinality(kids) + Cardinality(born) <= MaxAlive[n]
      BY <1>0, <2>4, <2>5 DEF Room
    <2> QED BY <2>1, <2>2, <2>6 DEF Room
  <1>2. CASE Newcomer
    <2>1. Kids(n)' = Kids(n) /\ BirthsOf(n)' = BirthsOf(n)
      BY <1>2 DEF Newcomer, Kids, BirthsOf, NestsOK
    <2> QED BY <1>1, <2>1
  <1>3. ASSUME NEW i \in NetIds, Gone(i) PROVE Room(n)'
    BY <1>1, <1>3 DEF Gone, Kids, BirthsOf
  <1>4. CASE Ticked \/ Shifted
    BY <1>1, <1>4 DEF Ticked, Shifted, Kids, BirthsOf
  <1>5. ASSUME NEW m \in Nests, Choose(m) PROVE Room(n)'
    <2>1. /\ live' = live /\ children' = [children EXCEPT ![m] = Alive(m)]
          /\ phase = "choose" /\ m \in todo
      BY <1>5 DEF Choose, worldVars
    <2>2. Kids(n)' = Kids(n)
      BY <2>1 DEF Kids, Alive, NestsOK
    <2>3. CASE births' = births
      BY <1>1, <2>2, <2>3 DEF BirthsOf
    <2>4. ASSUME NEW t \in Walkable, births' = births \cup {<<m, t>>}, Short(m)
          PROVE  Room(n)'
      <3>1. CASE n # m
        <4>1. BirthsOf(n)' = BirthsOf(n)
          BY <2>4, <3>1 DEF BirthsOf
        <4> QED BY <1>1, <2>2, <4>1
      <3>2. CASE n = m
        <4>1. BirthsOf(n)' = {<<m, t>>}
          BY <2>1, <2>4, <3>2 DEF BirthsOf, NestsOK
        <4>2. Cardinality(BirthsOf(n)') = 1
          BY <4>1, FS_Singleton
        <4>3. Cardinality(Kids(n)) < MaxAlive[n]
          BY <2>4, <3>2 DEF Short, Alive, Kids
        <4>4. Cardinality(Kids(n)) + 1 <= MaxAlive[n]
          BY <1>0, <4>3
        <4> QED BY <2>2, <4>2, <4>4 DEF Room
      <3> QED BY <3>1, <3>2
    <2>5. births' = births \/ \E t \in Walkable : births' = births \cup {<<m, t>>} /\ Short(m)
      BY <1>5 DEF Choose, FreeTiles
    <2> QED BY <2>3, <2>4, <2>5
  <1>6. ASSUME NEW b \in births, Bear(b) PROVE Room(n)'
    <2>1. PICK m \in Nests : m = b[1]
      BY DEF NestsOK
    <2>2. /\ births' = births \ {b} /\ live' = live \cup {nextId}
          /\ children' = [children EXCEPT ![m] = @ \cup {nextId}]
      BY <1>6, <2>1 DEF Bear, SpawnActor
    <2>3. CASE n # m
      <3>1. Kids(n)' = Kids(n) /\ BirthsOf(n)' \subseteq BirthsOf(n)
        BY <2>1, <2>2, <2>3 DEF Kids, BirthsOf, NestsOK
      <3> QED BY <1>1, <3>1
    <2>4. CASE n = m
      <3>1. PICK kids : kids = Kids(n)
        OBVIOUS
      <3>2. PICK born : born = BirthsOf(n)
        OBVIOUS
      <3>3. Kids(n)' = kids \cup {nextId}
        BY <2>2, <2>4, <3>1 DEF Kids, NestsOK
      <3>4. BirthsOf(n)' = born \ {b} /\ b \in born
        BY <2>1, <2>2, <2>4, <3>2 DEF BirthsOf
      <3>5. IsFiniteSet(kids) /\ IsFiniteSet(born) /\ nextId \notin kids
        BY <1>0, <3>1, <3>2
      <3>6. Cardinality(kids \cup {nextId}) = Cardinality(kids) + 1
        BY <3>5, FS_AddElement
      <3>7. Cardinality(born \ {b}) = Cardinality(born) - 1
        BY <3>4, <3>5, FS_RemoveElement
      <3>8. Cardinality(kids) + 1 + (Cardinality(born) - 1) = Cardinality(kids) + Cardinality(born)
        BY <1>0, <3>1, <3>2
      <3>9. Cardinality(kids \cup {nextId}) + Cardinality(born \ {b}) <= MaxAlive[n]
        BY <3>1, <3>2, <3>6, <3>7, <3>8 DEF Room
      <3> QED BY <3>3, <3>4, <3>9 DEF Room
    <2> QED BY <2>3, <2>4
  <1> QED BY <1>2, <1>3, <1>4, <1>5, <1>6, StepNests

LEMMA InitNests == Init => NestsOK /\ \A n \in Nests : Room(n)
  <1> SUFFICES ASSUME Init PROVE NestsOK /\ \A n \in Nests : Room(n)
    OBVIOUS
  <1>1. NestsOK
    BY SpawnersAssumption, FS_EmptySet DEF Init, WorldInit, NestsOK
  <1>2. ASSUME NEW n \in Nests PROVE Room(n)
    <2>1. Kids(n) = {} /\ BirthsOf(n) = {}
      BY DEF Init, WorldInit, Kids, BirthsOf
    <2>2. Cardinality({}) + Cardinality({}) <= MaxAlive[n]
      BY FS_EmptySet, SpawnersAssumption
    <2> QED BY <2>1, <2>2 DEF Room
  <1> QED BY <1>1, <1>2

(* However births are decided before any of them is carried out, and       *)
(* whoever comes and goes meanwhile, no nest has more live children than   *)
(* max_alive, the one about to be born counted (update_spawners).          *)
THEOREM NestsAreBounded == Spec => []PopulationBounded
  <1>1. (\A n \in Nests : Room(n)) <=> PopulationBounded
    BY DEF Room, Kids, BirthsOf, PopulationBounded
  <1>2. NestsOK /\ (\A n \in Nests : Room(n)) /\ [Next]_vars => (\A n \in Nests : Room(n))'
    BY RoomKept
  <1> QED BY <1>1, <1>2, InitNests, NestsKept, PTL DEF Spec

----------------------------------------------------------------------------
(* The clock.  Since the last death as many ticks have passed as the nest  *)
(* no longer has to wait, unless it has not noticed that death yet; and a  *)
(* birth was only decided when all of them had.                            *)

Waited(n) ==
    \/ calm[n] >= Period[n]
    \/ ~ (children[n] \subseteq live)
    \/ due[n] + calm[n] >= Period[n]

DecidedInTime == \A b \in births : calm[b[1]] >= Period[b[1]]

ClockOK == (\A n \in Nests : Waited(n)) /\ DecidedInTime

LEMMA ClockKept ==
    ASSUME NestsOK, ClockOK, [Next]_vars
    PROVE  ClockOK'
  <1> USE SpawnersAssumption
  <1>0. /\ \A n \in Nests : calm[n] \in Nat /\ due[n] \in Nat /\ Period[n] \in Nat
        /\ \A b \in births : b[1] \in Nests
        /\ \A n \in Nests : nextId \notin children[n]
    BY DEF NestsOK
  <1>1. CASE Newcomer
    BY <1>0, <1>1 DEF Newcomer, ClockOK, Waited, DecidedInTime
  <1>2. ASSUME NEW i \in NetIds, Gone(i) PROVE ClockOK'
    <2>1. births = {} /\ births' = {}
      BY <1>2 DEF Gone, NestsOK
    <2>2. ASSUME NEW n \in Nests PROVE Waited(n)'
      <3>1. CASE i \in children[n]
        BY <1>2, <3>1 DEF Gone, Waited
      <3>2. CASE i \notin children[n]
        <4>1. calm'[n] = calm[n] /\ due'[n] = due[n] /\ children'[n] = children[n]
              /\ live' \subseteq live
          BY <1>2, <3>2 DEF Gone
        <4> QED BY <4>1 DEF ClockOK, Waited
      <3> QED BY <3>1, <3>2
    <2> QED BY <2>1, <2>2 DEF ClockOK, DecidedInTime
  <1>3. CASE Ticked
    <2>1. births' = {}
      BY <1>3 DEF Ticked, NestsOK
    <2>2. ASSUME NEW n \in Nests PROVE Waited(n)'
      <3>1. /\ due'[n] = (IF due[n] > 0 THEN due[n] - 1 ELSE 0)
            /\ calm'[n] = (IF calm[n] < Period[n] THEN calm[n] + 1 ELSE calm[n])
            /\ children'[n] = children[n] /\ live' = live
        BY <1>3 DEF Ticked
      <3>2. CASE calm[n] >= Period[n]
        <4>1. calm'[n] = calm[n]
          BY <1>0, <3>1, <3>2
        <4> QED BY <3>2, <4>1 DEF Waited
      <3>3. CASE ~ (children[n] \subseteq live)
        BY <3>1, <3>3 DEF Waited
      <3>4. CASE due[n] + calm[n] >= Period[n] /\ ~ (calm[n] >= Period[n])
        <4>1. due[n] > 0 /\ calm[n] < Period[n]
          BY <1>0, <3>4
        <4>2. due'[n] + calm'[n] = due[n] + calm[n]
          BY <1>0, <3>1, <4>1
        <4> QED BY <3>4, <4>2 DEF Waited
      <3> QED BY <3>2, <3>3, <3>4 DEF ClockOK, Waited
    <2> QED BY <2>1, <2>2 DEF ClockOK, DecidedInTime
  <1>4. CASE Shifted
    BY <1>4 DEF Shifted, ClockOK, Waited, DecidedInTime
  <1>5. ASSUME NEW m \in Nests, Choose(m) PROVE ClockOK'
    <2>1. /\ live' = live /\ calm' = calm
          /\ children' = [children EXCEPT ![m] = Alive(m)]
          /\ due' = [due EXCEPT ![m] = Clock(m)]
      BY <1>5 DEF Choose, worldVars
    <2>2. ASSUME NEW n \in Nests PROVE Waited(n)'
      <3>1. CASE n # m
        <4>1. children'[n] = children[n] /\ due'[n] = due[n]
          BY <2>1, <3>1 DEF NestsOK
        <4> QED BY <2>1, <4>1 DEF ClockOK, Waited
      <3>2. CASE n = m /\ Alive(m) # children[m]
        <4>1. due'[n] = Period[n]
          BY <2>1, <3>2 DEF Clock, NestsOK
        <4>2. due'[n] + calm'[n] >= Period[n]
          BY <1>0, <2>1, <4>1
        <4> QED BY <4>2 DEF Waited
      <3>3. CASE n = m /\ Alive(m) = children[m]
        <4>1. due'[n] = due[n] /\ children'[n] = children[n]
          BY <2>1, <3>3 DEF Clock, NestsOK
        <4> QED BY <2>1, <4>1 DEF ClockOK, Waited
      <3> QED BY <3>1, <3>2, <3>3
    <2>3. ASSUME Clock(m) = 0 PROVE calm[m] >= Period[m]
      <3>1. CASE Alive(m) # children[m]
        <4>1. Period[m] = 0
          BY <2>3, <3>1 DEF Clock
        <4> QED BY <1>0, <4>1
      <3>2. CASE Alive(m) = children[m]
        <4>1. due[m] = 0 /\ children[m] \subseteq live
          BY <2>3, <3>2 DEF Clock, Alive
        <4>2. calm[m] >= Period[m] \/ due[m] + calm[m] >= Period[m]
          BY <4>1 DEF ClockOK, Waited
        <4> QED BY <1>0, <4>1, <4>2
      <3> QED BY <3>1, <3>2
    <2>4. births' = births \/ \E t \in Walkable : births' = births \cup {<<m, t>>} /\ Clock(m) = 0
      BY <1>5 DEF Choose, FreeTiles
    <2>5. DecidedInTime'
      <3>1. CASE births' = births
        BY <2>1, <3>1 DEF ClockOK, DecidedInTime
      <3>2. ASSUME NEW t \in Walkable, births' = births \cup {<<m, t>>}, Clock(m) = 0
            PROVE  DecidedInTime'
        <4>1. calm[m] >= Period[m]
          BY <2>3, <3>2
        <4>2. ASSUME NEW b \in births' PROVE calm'[b[1]] >= Period[b[1]]
          <5>1. CASE b \in births
            BY <2>1, <5>1 DEF ClockOK, DecidedInTime
          <5>2. CASE b = <<m, t>>
            BY <2>1, <4>1, <5>2
          <5> QED BY <3>2, <5>1, <5>2
        <4> QED BY <4>2 DEF DecidedInTime
      <3> QED BY <2>4, <3>1, <3>2
    <2> QED BY <2>2, <2>5 DEF ClockOK
  <1>6. ASSUME NEW b \in births, Bear(b) PROVE ClockOK'
    <2>1. PICK m \in Nests : m = b[1]
      BY <1>0
    <2>2. /\ births' = births \ {b} /\ live' = live \cup {nextId} /\ calm' = calm
          /\ children' = [children EXCEPT ![m] = @ \cup {nextId}]
          /\ due' = [due EXCEPT ![m] = Period[m]]
      BY <1>6, <2>1 DEF Bear, SpawnActor
    <2>3. ASSUME NEW n \in Nests PROVE Waited(n)'
      <3>1. CASE n = m
        <4>1. due'[n] = Period[n]
          BY <2>2, <3>1 DEF NestsOK
        <4>2. due'[n] + calm'[n] >= Period[n]
          BY <1>0, <2>2, <4>1
        <4> QED BY <4>2 DEF Waited
      <3>2. CASE n # m
        <4>1. children'[n] = children[n] /\ due'[n] = due[n] /\ nextId \notin children[n]
          BY <1>0, <2>2, <3>2 DEF NestsOK
        <4> QED BY <2>2, <4>1 DEF ClockOK, Waited
      <3> QED BY <3>1, <3>2
    <2>4. DecidedInTime'
      BY <2>2 DEF ClockOK, DecidedInTime
    <2> QED BY <2>3, <2>4 DEF ClockOK
  <1> QED BY <1>1, <1>2, <1>3, <1>4, <1>5, <1>6, StepNests

LEMMA BornInTime ==
    ASSUME NestsOK, ClockOK, [Next]_vars, NEW n \in Nests, children'[n] \ children[n] # {}
    PROVE  calm[n] >= Period[n]
  <1>1. CASE \/ Newcomer \/ Ticked \/ Shifted \/ \E i \in NetIds : Gone(i)
    BY <1>1 DEF Newcomer, Ticked, Shifted, Gone
  <1>2. ASSUME NEW m \in Nests, Choose(m) PROVE FALSE
    <2>1. children' = [children EXCEPT ![m] = Alive(m)]
      BY <1>2 DEF Choose
    <2> QED BY <2>1 DEF Alive, NestsOK
  <1>3. ASSUME NEW b \in births, Bear(b) PROVE calm[n] >= Period[n]
    <2>1. children' = [children EXCEPT ![b[1]] = @ \cup {nextId}]
      BY <1>3 DEF Bear
    <2>2. n = b[1]
      BY <2>1 DEF NestsOK
    <2> QED BY <2>2 DEF ClockOK, DecidedInTime
  <1> QED BY <1>1, <1>2, <1>3, StepNests

(* A cleared nest stays clear (docs/monsters.md:116): it bears nobody      *)
(* until its period has passed since its last child died, noticed a tick   *)
(* late or not, with births decided before or not (update_spawners).       *)
THEOREM ClearedNestsStayClear == Spec => ClearedStaysClear
  <1>1. Init => ClockOK
    <2> SUFFICES ASSUME Init PROVE ClockOK
      OBVIOUS
    <2>1. births = {} /\ calm = Period
      BY DEF Init
    <2>2. \A n \in Nests : calm[n] \in Nat
      BY <2>1, SpawnersAssumption
    <2>3. \A n \in Nests : calm[n] >= Period[n]
      BY <2>1, <2>2
    <2> QED BY <2>1, <2>3 DEF ClockOK, Waited, DecidedInTime
  <1>2. NestsOK /\ ClockOK /\ [Next]_vars =>
            ClockOK' /\ [\A n \in Nests : children'[n] \ children[n] # {} => calm[n] >= Period[n]]_vars
    BY ClockKept, BornInTime
  <1> QED BY <1>1, <1>2, InitNests, NestsKept, PTL DEF Spec, ClearedStaysClear
=============================================================================

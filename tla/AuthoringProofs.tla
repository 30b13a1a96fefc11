-------------------------- MODULE AuthoringProofs --------------------------
(***************************************************************************)
(* Authoring, for any bands, catalogue, form and files to start from: new  *)
(* items get ids that were never used, a good bake is what clients play    *)
(* by, a welcomed client has the server's rules, and the editor draws the  *)
(* atlas there is.                                                         *)
(***************************************************************************)
EXTENDS Authoring, TLAPS

----------------------------------------------------------------------------
(* The database, operation by operation. *)

IsDb(d) == d = [version |-> d.version, items |-> d.items, retired |-> d.retired]

(* An id that was an item's is one still, or is retired; and there is no   *)
(* item while the actor's id is free.                                      *)
SpentIn(d, seen) ==
    /\ IsDb(d)
    /\ seen \subseteq Spoken(d)
    /\ Live(d) # {} => Reserved \in d.retired

LEMMA OpenedKeeps ==
    ASSUME NEW d, NEW seen, SpentIn(d, seen)
    PROVE  /\ SpentIn(Opened(d), seen \cup Live(Opened(d)))
           /\ Reserved \in Opened(d).retired
  <1>1. PICK m : m = Migrated(d)
    OBVIOUS
  <1>2. m = [version |-> SchemaVersion, items |-> d.items, retired |-> d.retired]
    BY <1>1 DEF Migrated, SpentIn, IsDb
  <1>3. IsDb(m) /\ m.items = d.items /\ m.retired = d.retired
    BY <1>2 DEF IsDb
  <1>4. CASE Live(m) # {}
    <2>1. Opened(d) = m
      BY <1>1, <1>4 DEF Opened, Seeded
    <2> QED BY <2>1, <1>3, <1>4 DEF SpentIn, Spoken, Live
  <1>5. CASE Live(m) = {}
    <2>1. PICK o : o = Opened(d)
      OBVIOUS
    <2>2. o = [version |-> SchemaVersion, items |-> Defaults, retired |-> d.retired \cup {Reserved}]
      <3>1. o = [m EXCEPT !.items = Defaults, !.retired = m.retired \cup {Reserved}]
        BY <1>1, <1>5, <2>1 DEF Opened, Seeded
      <3>2. o = [m EXCEPT !.items = Defaults, !.retired = d.retired \cup {Reserved}]
        BY <3>1, <1>3
      <3> QED BY <3>2, <1>2
    <2>3. IsDb(o) /\ o.items = Defaults /\ o.retired = d.retired \cup {Reserved}
      BY <2>2 DEF IsDb
    <2>4. seen \subseteq d.retired
      BY <1>3, <1>5 DEF SpentIn, Spoken, Live
    <2> QED BY <2>1, <2>3, <2>4 DEF SpentIn, Spoken, Live
  <1> QED BY <1>4, <1>5

LEMMA UnfinishedKeeps ==
    ASSUME NEW d, NEW seen, SpentIn(d, seen), NEW e \in Unfinished(d)
    PROVE  SpentIn(e, seen \cup Live(e)) /\ e.retired = d.retired
  <1>1. CASE e = d
    BY <1>1 DEF SpentIn, Spoken
  <1>2. CASE e = Migrated(d)
    <2>1. e = [version |-> SchemaVersion, items |-> d.items, retired |-> d.retired]
      BY <1>2 DEF Migrated, SpentIn, IsDb
    <2>2. IsDb(e) /\ e.items = d.items /\ e.retired = d.retired
      BY <2>1 DEF IsDb
    <2> QED BY <2>2 DEF SpentIn, Spoken, Live
  <1> QED BY <1>1, <1>2 DEF Unfinished

LEMMA SaveIs ==
    ASSUME NEW d, NEW row, IsDb(d)
    PROVE  /\ IsDb(SaveItem(d, row))
           /\ Live(SaveItem(d, row)) = Live(d) \cup {row.id}
           /\ SaveItem(d, row).retired = d.retired
  <1>1. PICK e : e = SaveItem(d, row)
    OBVIOUS
  <1>2. PICK rows : rows = [i \in DOMAIN d.items \cup {row.id} |->
                                IF i = row.id THEN row ELSE d.items[i]]
    OBVIOUS
  <1>3. e = [version |-> d.version, items |-> rows, retired |-> d.retired]
    BY <1>1, <1>2 DEF SaveItem, IsDb
  <1>4. IsDb(e) /\ e.items = rows /\ e.retired = d.retired
    BY <1>3 DEF IsDb
  <1>5. DOMAIN rows = DOMAIN d.items \cup {row.id}
    BY <1>2
  <1> QED BY <1>1, <1>4, <1>5 DEF Live

LEMMA RetireIs ==
    ASSUME NEW d, NEW id, IsDb(d)
    PROVE  /\ IsDb(RetireItem(d, id))
           /\ Live(RetireItem(d, id)) = Live(d) \ {id}
           /\ RetireItem(d, id).retired = d.retired \cup {id}
  <1>1. PICK e : e = RetireItem(d, id)
    OBVIOUS
  <1>2. PICK rows : rows = [i \in DOMAIN d.items \ {id} |-> d.items[i]]
    OBVIOUS
  <1>3. e = [version |-> d.version, items |-> rows, retired |-> d.retired \cup {id}]
    BY <1>1, <1>2 DEF RetireItem, IsDb
  <1>4. IsDb(e) /\ e.items = rows /\ e.retired = d.retired \cup {id}
    BY <1>3 DEF IsDb
  <1>5. DOMAIN rows = DOMAIN d.items \ {id}
    BY <1>2
  <1> QED BY <1>1, <1>4, <1>5 DEF Live

(* next_free_item_id never returns an id that is, or was, an item's. *)
LEMMA FreeIsUnspoken ==
    ASSUME NEW d, NEW category \in {"ground", "object", "equipment"},
           NEW n \in NextFree(d, category)
    PROVE  n \notin Spoken(d)
  <1>1. PICK band : band = Bands[category]
    OBVIOUS
  <1>2. band.first \in Nat /\ band.last \in Nat
    BY <1>1, ContentStoreAssumption
  <1>3. PICK used : used = Spoken(d) \cap (band.first .. band.last)
    OBVIOUS
  <1>4. /\ n \in band.first .. band.last
        /\ used # {} => \A u \in used : u < n
    BY <1>1, <1>3 DEF NextFree, After
  <1>5. n \in Int /\ ~ (n < n)
    BY <1>2, <1>4
  <1> QED BY <1>3, <1>4, <1>5

----------------------------------------------------------------------------
(* Ids. *)

IdsInv ==
    /\ SpentIn(db, ever)
    /\ mode # "off" => Reserved \in db.retired

LEMMA SavedKeeps ==
    ASSUME IdsInv, NEW row, Changes(SaveItem(db, row)), mode # "off", mode' = mode
    PROVE  IdsInv'
  <1>1. PICK d : d = SaveItem(db, row)
    OBVIOUS
  <1>2. IsDb(d) /\ Live(d) = Live(db) \cup {row.id} /\ d.retired = db.retired
    BY <1>1, SaveIs DEF IdsInv, SpentIn
  <1>3. db' = d /\ ever' = ever \cup Live(d)
    BY <1>1 DEF Changes
  <1>4. SpentIn(d, ever \cup Live(d)) /\ Reserved \in d.retired
    BY <1>2 DEF IdsInv, SpentIn, Spoken
  <1> QED BY <1>3, <1>4 DEF IdsInv

LEMMA RetiredKeeps ==
    ASSUME IdsInv, NEW id, Changes(RetireItem(db, id)), mode # "off", mode' = mode
    PROVE  IdsInv'
  <1>1. PICK d : d = RetireItem(db, id)
    OBVIOUS
  <1>2. IsDb(d) /\ Live(d) = Live(db) \ {id} /\ d.retired = db.retired \cup {id}
    BY <1>1, RetireIs DEF IdsInv, SpentIn
  <1>3. db' = d /\ ever' = ever \cup Live(d)
    BY <1>1 DEF Changes
  <1>4. SpentIn(d, ever \cup Live(d)) /\ Reserved \in d.retired
    BY <1>2 DEF IdsInv, SpentIn, Spoken
  <1> QED BY <1>3, <1>4 DEF IdsInv

(* The steps that leave the database alone and do not bring the editor up. *)
LEMMA OthersKeepTheStore ==
    ASSUME [Next]_vars,
           ~ Start, ~ StartFails, ~ SaveKey, ~ NewKey, ~ RetireKey, ~ ServerStarts
    PROVE  db' = db /\ ever' = ever /\ (mode' # "off" => mode # "off")
  <1> DEFINE Kept == db' = db /\ ever' = ever /\ (mode' # "off" => mode # "off")
  <1>1. Quit \/ ItemModeKey \/ MobModeKey \/ UNCHANGED vars => Kept
    BY DEF Quit, ItemModeKey, MobModeKey, vars, storeVars
  <1>2. ASSUME NEW delta \in {-1, 1}, NEW coarse \in Coarse
        PROVE  Focus(delta) \/ MobFocus(delta) \/ Turn(delta, coarse) \/ MobTurn(delta, coarse)
                   => Kept
    BY DEF Focus, MobFocus, Turn, MobTurn, FormStep, FormEdit, MobStep, storeVars
  <1>3. ASSUME NEW delta \in {-1, 1}
        PROVE  Focus(delta) \/ MobFocus(delta) => Kept
    BY DEF Focus, MobFocus, FormStep, MobStep, storeVars
  <1>4. ASSUME NEW d \in Digits
        PROVE  Digit(d) => Kept
    BY DEF Digit, FormEdit
  <1>5. PageUp \/ PageDown \/ EnterName \/ TypeName \/ Backspace \/ LeaveName \/ ReloadKey => Kept
    BY DEF PageUp, PageDown, EnterName, TypeName, Backspace, LeaveName, ReloadKey, FormStep,
           FormEdit, storeVars
  <1>6. ASSUME NEW cell \in Cells
        PROVE  PickCell(cell) \/ PickFirstCell(cell) => Kept
    BY DEF PickCell, PickFirstCell, MobStep, storeVars
  <1>7. ClosePicker \/ CloseMobPicker \/ OpenMobPicker \/ SaveStrip => Kept
    BY DEF ClosePicker, CloseMobPicker, OpenMobPicker, SaveStrip, FormStep, MobStep, storeVars
  <1>8. ASSUME NEW k \in DOMAIN Appearances
        PROVE  MobSelect(k) => Kept
    BY DEF MobSelect, MobStep, storeVars
  <1>9. GameBake \/ ServerStops \/ ClientStarts \/ ClientStops \/ Hello => Kept
    BY DEF GameBake, ServerStops, ClientStarts, ClientStops, Hello, storeVars
  <1> HIDE DEF Kept
  <1>10. Kept
    BY <1>1, <1>2, <1>3, <1>4, <1>5, <1>6, <1>7, <1>8, <1>9, Zenon DEF Next, EditorNext, PlayNext
  <1> QED BY <1>10 DEF Kept

LEMMA IdsStep ==
    ASSUME IdsInv, [Next]_vars
    PROVE  IdsInv'
  <1>1. CASE Start \/ ServerStarts
    <2>1. Changes(Opened(db))
      BY <1>1 DEF Start, ServerStarts
    <2>2. SpentIn(Opened(db), ever \cup Live(Opened(db))) /\ Reserved \in Opened(db).retired
      BY OpenedKeeps DEF IdsInv
    <2> QED BY <2>1, <2>2 DEF IdsInv, Changes
  <1>2. CASE StartFails
    <2>1. PICK d \in Unfinished(db) : Changes(d)
      BY <1>2 DEF StartFails
    <2>2. SpentIn(d, ever \cup Live(d)) /\ d.retired = db.retired
      BY UnfinishedKeeps DEF IdsInv
    <2>3. mode' = mode
      BY <1>2 DEF StartFails
    <2> QED BY <2>1, <2>2, <2>3 DEF IdsInv, Changes
  <1>3. CASE SaveKey
    <2>1. mode # "off" /\ mode' = mode
      BY <1>3 DEF SaveKey, Editing
    <2>2. Changes(SaveItem(db, form.draft))
      BY <1>3 DEF SaveKey
    <2> QED BY <2>1, <2>2, SavedKeeps
  <1>4. CASE NewKey
    <2>1. mode # "off" /\ mode' = mode
      BY <1>4 DEF NewKey, Editing
    <2>2. PICK id : Changes(SaveItem(db, NewRow(id)))
      BY <1>4 DEF NewKey
    <2> QED BY <2>1, <2>2, SavedKeeps
  <1>5. CASE RetireKey
    <2>1. mode # "off" /\ mode' = mode
      BY <1>5 DEF RetireKey, Editing
    <2>2. PICK id : Changes(RetireItem(db, id))
      BY <1>5 DEF RetireKey
    <2> QED BY <2>1, <2>2, RetiredKeeps
  <1>6. CASE ~ (Start \/ ServerStarts \/ StartFails \/ SaveKey \/ NewKey \/ RetireKey)
    <2>1. db' = db /\ ever' = ever /\ (mode' # "off" => mode # "off")
      BY <1>6, OthersKeepTheStore
    <2> QED BY <2>1 DEF IdsInv
  <1> QED BY <1>1, <1>2, <1>3, <1>4, <1>5, <1>6

LEMMA NewIsFresh ==
    ASSUME IdsInv, NewKey
    PROVE  (Live(db') \ Live(db)) \cap (ever \cup {Reserved}) = {}
  <1>1. PICK id \in NextFree(db, Category) : db' = SaveItem(db, NewRow(id))
    BY DEF NewKey, Changes
  <1>2. Category \in {"ground", "object", "equipment"}
    BY DEF Category
  <1>3. id \notin Spoken(db)
    BY <1>1, <1>2, FreeIsUnspoken
  <1>4. NewRow(id).id = id
    BY DEF NewRow, Item
  <1>5. Live(SaveItem(db, NewRow(id))) = Live(db) \cup {NewRow(id).id}
    BY SaveIs DEF IdsInv, SpentIn
  <1>6. Live(db') \ Live(db) \subseteq {id}
    BY <1>1, <1>4, <1>5
  <1>7. mode # "off"
    BY DEF NewKey, Editing
  <1>8. id \notin ever \cup {Reserved}
    BY <1>3, <1>7 DEF IdsInv, SpentIn, Spoken
  <1> QED BY <1>6, <1>8

(* The id of a new item was never an item's and is not the actor's, after  *)
(* any history of saves, retirements, half-done starts and re-seedings, in *)
(* any bands (next_free_item_id, retire_item, seed_default_items).         *)
THEOREM CatalogueIdsFresh == Spec => NewIdsAreFresh
  <1>1. Init => IdsInv
    <2> SUFFICES ASSUME Init PROVE IdsInv
      OBVIOUS
    <2>1. db \in FirstDbs /\ ever = Live(db) /\ mode = "off"
      BY DEF Init
    <2>2. /\ db \in [version : Nat, items : {db.items}, retired : SUBSET Nat]
          /\ Live(db) # {} => Reserved \in db.retired
      BY <2>1, AuthoringAssumption
    <2>3. IsDb(db)
      BY <2>2 DEF IsDb
    <2> QED BY <2>1, <2>2, <2>3 DEF IdsInv, SpentIn, Spoken
  <1>2. IdsInv /\ [Next]_vars =>
            IdsInv' /\ [NewKey => (Live(db') \ Live(db)) \cap (ever \cup {Reserved}) = {}]_vars
    BY IdsStep, NewIsFresh
  <1> QED BY <1>1, <1>2, PTL DEF Spec, NewIdsAreFresh

----------------------------------------------------------------------------
(* The blob. *)

LEMMA WholeBlobIsItsRegistry ==
    ASSUME NEW r
    PROVE  Catalogue(Blob(r)) = r
  BY DEF Catalogue, Blob

LEMMA BakingKeeps ==
    ASSUME NEW d, Baking(d), db' = d
    PROVE  BakedMeansPlayable'
  <1>1. CASE blob' = Blob(Registry(d)) /\ unbaked' = FALSE
    <2>1. Catalogue(blob') = Registry(db')
      BY <1>1, WholeBlobIsItsRegistry
    <2> QED BY <2>1 DEF BakedMeansPlayable
  <1>2. CASE unbaked' = TRUE
    BY <1>2 DEF BakedMeansPlayable
  <1> QED BY <1>1, <1>2 DEF Baking

LEMMA BakedStep ==
    ASSUME BakedMeansPlayable, [Next]_vars
    PROVE  BakedMeansPlayable'
  <1> DEFINE Same == db' = db /\ blob' = blob /\ unbaked' = unbaked
  <1>1. CASE Start \/ StartFails \/ ServerStarts
    <2>1. blob' = blob /\ (unbaked' = (unbaked \/ db' # db))
      BY <1>1 DEF Start, StartFails, ServerStarts, Changes
    <2> QED BY <2>1 DEF BakedMeansPlayable
  <1>2. CASE SaveKey \/ NewKey \/ RetireKey
    <2>1. PICK d, f : db' = d /\ Reflected(d, f)
      BY <1>2 DEF SaveKey, NewKey, RetireKey, Changes
    <2>2. Baking(d) \/ unbaked' = TRUE
      BY <2>1 DEF Reflected
    <2>3. CASE unbaked' = TRUE
      BY <2>3 DEF BakedMeansPlayable
    <2> QED BY <2>1, <2>2, <2>3, BakingKeeps
  <1>3. CASE GameBake
    <2>1. Baking(db) /\ db' = db
      BY <1>3 DEF GameBake
    <2> QED BY <2>1, BakingKeeps
  <1>4. CASE ~ (Start \/ StartFails \/ ServerStarts \/ SaveKey \/ NewKey \/ RetireKey \/ GameBake)
    <2>1. Quit \/ ItemModeKey \/ MobModeKey \/ UNCHANGED vars => Same
      BY DEF Quit, ItemModeKey, MobModeKey, vars, storeVars
    <2>2. ASSUME NEW delta \in {-1, 1}, NEW coarse \in Coarse
          PROVE  Turn(delta, coarse) \/ MobTurn(delta, coarse) => Same
      BY DEF Turn, MobTurn, FormEdit, MobStep, storeVars
    <2>3. ASSUME NEW delta \in {-1, 1}
          PROVE  Focus(delta) \/ MobFocus(delta) => Same
      BY DEF Focus, MobFocus, FormStep, MobStep, storeVars
    <2>4. ASSUME NEW d \in Digits
          PROVE  Digit(d) => Same
      BY DEF Digit, FormEdit
    <2>5. PageUp \/ PageDown \/ EnterName \/ TypeName \/ Backspace \/ LeaveName \/ ReloadKey => Same
      BY DEF PageUp, PageDown, EnterName, TypeName, Backspace, LeaveName, ReloadKey, FormStep,
             FormEdit, storeVars
    <2>6. ASSUME NEW cell \in Cells
          PROVE  PickCell(cell) \/ PickFirstCell(cell) => Same
      BY DEF PickCell, PickFirstCell, MobStep, storeVars
    <2>7. ClosePicker \/ CloseMobPicker \/ OpenMobPicker \/ SaveStrip => Same
      BY DEF ClosePicker, CloseMobPicker, OpenMobPicker, SaveStrip, FormStep, MobStep, storeVars
    <2>8. ASSUME NEW k \in DOMAIN Appearances
          PROVE  MobSelect(k) => Same
      BY DEF MobSelect, MobStep, storeVars
    <2>9. ServerStops \/ ClientStarts \/ ClientStops \/ Hello => Same
      BY DEF ServerStops, ClientStarts, ClientStops, Hello, storeVars
    <2> HIDE DEF Same
    <2>10. Same
      BY <1>4, <2>1, <2>2, <2>3, <2>4, <2>5, <2>6, <2>7, <2>8, <2>9, Zenon
         DEF Next, EditorNext, PlayNext
    <2> QED BY <2>10 DEF Same, BakedMeansPlayable
  <1> QED BY <1>1, <1>2, <1>3, <1>4

(* A bake that worked leaves the client the rules of the database, until   *)
(* the database changes again (ItemMode::bake, game_bake).                 *)
THEOREM BakesArePlayable == Spec => []BakedMeansPlayable
  <1>1. Init => BakedMeansPlayable
    BY DEF Init, BakedMeansPlayable
  <1>2. BakedMeansPlayable /\ [Next]_vars => BakedMeansPlayable'
    BY BakedStep
  <1> QED BY <1>1, <1>2, PTL DEF Spec

----------------------------------------------------------------------------
(* The two ends of a connection, and the table the editor draws from.      *)

AgreeInv == admitted => shown = served /\ served # {}

LEMMA HelloAgrees ==
    ASSUME Hello
    PROVE  AgreeInv'
  <1>1. served # {} /\ shown # {} /\ \A c \in shown, r \in served : c = r
    BY DEF Hello, Fingerprint
  <1>2. PICK r \in served : TRUE
    BY <1>1
  <1>3. shown = {r} /\ served = {r}
    BY <1>1, <1>2
  <1>4. served' = served /\ shown' = shown
    BY DEF Hello
  <1> QED BY <1>1, <1>3, <1>4 DEF AgreeInv

(* The editor's keys, by what they may touch: everything but a pick that   *)
(* writes and a strip that is saved leaves the atlas and its table alone.  *)
LEMMA EditorKeepsPlay ==
    ASSUME EditorNext
    PROVE  /\ UNCHANGED playVars
           /\ \/ /\ atlas' = atlas /\ drawn' = drawn /\ torn' = torn
                 /\ (mode' # "off" => (mode # "off" /\ tileset' = tileset) \/ tileset' = drawn)
              \/ mode' = mode /\ \E text : AtlasWritten(text) \/ AtlasTorn(text)
  <1> DEFINE Alone == /\ atlas' = atlas /\ drawn' = drawn /\ torn' = torn
                      /\ (mode' # "off" => (mode # "off" /\ tileset' = tileset) \/ tileset' = drawn)
             Wrote == mode' = mode /\ \E text : AtlasWritten(text) \/ AtlasTorn(text)
             Good == UNCHANGED playVars /\ (Alone \/ Wrote)
  <1>1. Start \/ StartFails \/ Quit \/ ItemModeKey \/ MobModeKey => Good
    BY DEF Start, StartFails, Quit, ItemModeKey, MobModeKey, atlasVars
  <1>2. ASSUME NEW delta \in {-1, 1}, NEW coarse \in Coarse
        PROVE  Turn(delta, coarse) \/ MobTurn(delta, coarse) => Good
    BY DEF Turn, MobTurn, Editing, Striping, FormEdit, MobStep, atlasVars
  <1>3. ASSUME NEW delta \in {-1, 1}
        PROVE  Focus(delta) \/ MobFocus(delta) => Good
    BY DEF Focus, MobFocus, Editing, Striping, FormStep, MobStep, atlasVars
  <1>4. ASSUME NEW d \in Digits
        PROVE  Digit(d) => Good
    BY DEF Digit, Editing, FormEdit, atlasVars
  <1>5. PageUp \/ PageDown \/ EnterName \/ TypeName \/ Backspace \/ LeaveName \/ ReloadKey => Good
    BY DEF PageUp, PageDown, EnterName, TypeName, Backspace, LeaveName, ReloadKey, Editing, Naming,
           FormStep, FormEdit, atlasVars
  <1>6. SaveKey \/ NewKey \/ RetireKey => Good
    BY DEF SaveKey, NewKey, RetireKey, Editing, atlasVars
  <1>7. ASSUME NEW cell \in Cells
        PROVE  PickCell(cell) \/ PickFirstCell(cell) => Good
    <2>1. PickFirstCell(cell) => Good
      BY DEF PickFirstCell, MobStep, atlasVars
    <2>2. ASSUME PickCell(cell)
          PROVE  Good
      <3>1. UNCHANGED playVars /\ mode' = mode /\ mode = "item"
        BY <2>2 DEF PickCell
      <3>2. UNCHANGED atlasVars \/ \E text : AtlasWritten(text) \/ AtlasTorn(text)
        BY <2>2 DEF PickCell
      <3>3. CASE UNCHANGED atlasVars
        BY <3>1, <3>3 DEF atlasVars
      <3> QED BY <3>1, <3>2, <3>3
    <2> QED BY <2>1, <2>2
  <1>8. ClosePicker \/ CloseMobPicker \/ OpenMobPicker => Good
    BY DEF ClosePicker, CloseMobPicker, OpenMobPicker, Striping, FormStep, MobStep, atlasVars
  <1>9. SaveStrip => Good
    <2> SUFFICES ASSUME SaveStrip PROVE Good
      OBVIOUS
    <2>1. UNCHANGED playVars /\ mode' = mode /\ mode = "mob"
      BY DEF SaveStrip, Striping
    <2>2. UNCHANGED atlasVars \/ \E text : AtlasWritten(text) \/ AtlasTorn(text)
      BY DEF SaveStrip
    <2>3. CASE UNCHANGED atlasVars
      BY <2>1, <2>3 DEF atlasVars
    <2> QED BY <2>1, <2>2, <2>3
  <1>10. ASSUME NEW k \in DOMAIN Appearances
         PROVE  MobSelect(k) => Good
    BY DEF MobSelect, Striping, MobStep, atlasVars
  <1> HIDE DEF Good
  <1>11. Good
    BY <1>1, <1>2, <1>3, <1>4, <1>5, <1>6, <1>7, <1>8, <1>9, <1>10, Zenon DEF EditorNext
  <1> QED BY <1>11 DEF Good

LEMMA AgreeStep ==
    ASSUME AgreeInv, [Next]_vars
    PROVE  AgreeInv'
  <1>1. CASE EditorNext
    <2>1. UNCHANGED playVars
      BY <1>1, EditorKeepsPlay
    <2> QED BY <2>1 DEF playVars, AgreeInv
  <1>2. CASE GameBake
    BY <1>2 DEF GameBake, playVars, AgreeInv
  <1>3. CASE ServerStarts
    BY <1>3 DEF ServerStarts, AgreeInv
  <1>4. CASE ServerStops \/ ClientStops
    BY <1>4 DEF ServerStops, ClientStops, AgreeInv
  <1>5. CASE ClientStarts
    BY <1>5 DEF ClientStarts, AgreeInv
  <1>6. CASE Hello
    BY <1>6, HelloAgrees
  <1>7. CASE UNCHANGED vars
    BY <1>7 DEF vars, playVars, AgreeInv
  <1> QED BY <1>1, <1>2, <1>3, <1>4, <1>5, <1>6, <1>7 DEF Next, PlayNext

(* However server and client were stopped, re-baked and started again, a   *)
(* welcomed client has the rules of the server it plays on (the content    *)
(* hash the hello carries, server/main.cpp).                               *)
THEOREM WelcomedAgree == Spec => []AdmittedAgree
  <1>1. Init => AgreeInv
    BY DEF Init, AgreeInv
  <1>2. AgreeInv /\ [Next]_vars => AgreeInv'
    BY AgreeStep
  <1>3. AgreeInv => AdmittedAgree
    BY DEF AgreeInv, AdmittedAgree
  <1> QED BY <1>1, <1>2, <1>3, PTL DEF Spec

LEMMA WrittenIsDrawn ==
    ASSUME NEW text, AtlasWritten(text) \/ AtlasTorn(text)
    PROVE  torn' \/ tileset' = drawn'
  BY DEF AtlasWritten, AtlasTorn, Reread

LEMMA TilesetStep ==
    ASSUME TilesetCurrent, [EditorNext]_vars
    PROVE  TilesetCurrent'
  <1>1. CASE EditorNext
    <2>1. \/ /\ atlas' = atlas /\ drawn' = drawn /\ torn' = torn
             /\ (mode' # "off" => (mode # "off" /\ tileset' = tileset) \/ tileset' = drawn)
          \/ mode' = mode /\ \E text : AtlasWritten(text) \/ AtlasTorn(text)
      BY <1>1, EditorKeepsPlay
    <2>2. CASE \E text : AtlasWritten(text) \/ AtlasTorn(text)
      BY <2>2, WrittenIsDrawn DEF TilesetCurrent
    <2> QED BY <2>1, <2>2 DEF TilesetCurrent
  <1>2. CASE UNCHANGED vars
    BY <1>2 DEF vars, atlasVars, TilesetCurrent
  <1> QED BY <1>1, <1>2

(* After every write that worked the editor draws what the file says       *)
(* (bind and save_strip, which close the file before they reload it).      *)
THEOREM EditorDrawsTheAtlas == EditorSpec => []TilesetCurrent
  <1>1. Init => TilesetCurrent
    BY DEF Init, TilesetCurrent
  <1>2. TilesetCurrent /\ [EditorNext]_vars => TilesetCurrent'
    BY TilesetStep
  <1> QED BY <1>1, <1>2, PTL DEF EditorSpec

----------------------------------------------------------------------------
(* The item form. *)

(* A form that keeps its word: without a star its draft is the selected of *)
(* the rows it holds.                                                      *)
Honest(f) ==
    /\ {"rows", "selected", "draft", "focus", "dirty", "naming", "picking", "kind"}
           \subseteq DOMAIN f
    /\ f.dirty \/ f.draft = Drafted(f.rows, f.selected)

(* What an operation of the form gives over the same rows. *)
Serves(f, g) == Honest(g) /\ g.rows = f.rows

(* Nothing but what the keyboard is captured by. *)
LEMMA LooksKeep ==
    ASSUME NEW f, Honest(f), NEW on
    PROVE  Serves(f, [f EXCEPT !.naming = on]) /\ Serves(f, [f EXCEPT !.picking = on])
  <1>1. Serves(f, [f EXCEPT !.naming = on])
    BY DEF Serves, Honest
  <1>2. Serves(f, [f EXCEPT !.picking = on])
    BY DEF Serves, Honest
  <1> QED BY <1>1, <1>2

(* An edit sets the star, whatever it makes of the draft. *)
LEMMA EditsAreStarred ==
    ASSUME NEW f, Honest(f), NEW row
    PROVE  Serves(f, [f EXCEPT !.draft = row, !.dirty = TRUE])
  BY DEF Serves, Honest

(* Typing is an edit. *)
LEMMA NamesAreStarred ==
    ASSUME NEW f, Honest(f), NEW name
    PROVE  Serves(f, [f EXCEPT !.draft.name = name, !.dirty = TRUE])
  <1>1. [f EXCEPT !.draft.name = name, !.dirty = TRUE] =
            [f EXCEPT !.draft = [f.draft EXCEPT !.name = name], !.dirty = TRUE]
    BY DEF Honest
  <1> QED BY <1>1, EditsAreStarred

(* The operations of the form keep its word over the rows they find. *)
LEMMA FocusKeeps ==
    ASSUME NEW f, Honest(f), NEW delta
    PROVE  Serves(f, MoveFocus(f, delta))
  <1>1. MoveFocus(f, delta) = f \/ \E o : MoveFocus(f, delta) = [f EXCEPT !.focus = o]
    BY DEF MoveFocus
  <1>2. ASSUME NEW o
        PROVE  Serves(f, [f EXCEPT !.focus = o])
    BY DEF Serves, Honest
  <1> QED BY <1>1, <1>2 DEF Serves

LEMMA AdjustKeeps ==
    ASSUME NEW f, Honest(f), NEW delta, NEW coarse
    PROVE  Serves(f, Adjust(f, delta, coarse))
  <1> DEFINE row == Turned(f.draft, Focused(f), delta, IF coarse THEN 10 * delta ELSE delta)
             edited == [f EXCEPT !.draft = row, !.dirty = TRUE]
  <1>1. Serves(f, edited)
    BY EditsAreStarred
  <1>2. Serves(f, MoveFocus(edited, 1))
    <2> HIDE DEF edited
    <2>1. Serves(edited, MoveFocus(edited, 1))
      BY <1>1, FocusKeeps DEF Serves
    <2> QED BY <1>1, <2>1 DEF Serves
  <1>3. Serves(f, [f EXCEPT !.kind = NextKind(f, delta)])
    BY DEF Serves, Honest
  <1>4. Serves(f, [f EXCEPT !.picking = TRUE])
    BY LooksKeep
  <1>5. Serves(f, f)
    BY DEF Serves
  <1>6. \/ Adjust(f, delta, coarse) = f
        \/ Adjust(f, delta, coarse) = [f EXCEPT !.kind = NextKind(f, delta)]
        \/ Adjust(f, delta, coarse) = [f EXCEPT !.picking = TRUE]
        \/ Adjust(f, delta, coarse) = edited
        \/ Adjust(f, delta, coarse) = MoveFocus(edited, 1)
    BY DEF Adjust
  <1> HIDE DEF edited
  <1> QED BY <1>1, <1>2, <1>3, <1>4, <1>5, <1>6, Zenon

LEMMA DigitKeeps ==
    ASSUME NEW f, Honest(f), NEW digit
    PROVE  Serves(f, TypeDigit(f, digit))
  <1>1. \/ TypeDigit(f, digit) = f
        \/ \E row : TypeDigit(f, digit) = [f EXCEPT !.draft = row, !.dirty = TRUE]
    BY DEF TypeDigit
  <1> QED BY <1>1, EditsAreStarred DEF Serves

LEMMA SelectKeeps ==
    ASSUME NEW f, Honest(f), NEW k
    PROVE  Serves(f, Select(f, k))
  BY DEF Select, Serves, Honest, Drafted

LEMMA SelectIdKeeps ==
    ASSUME NEW f, Honest(f), NEW id
    PROVE  Serves(f, SelectId(f, id))
  BY SelectKeeps DEF SelectId, Serves

(* Reading the rows again starts over with them. *)
LEMMA ReloadKeeps ==
    ASSUME NEW f, Honest(f), NEW rows
    PROVE  Honest(Reloaded(f, rows)) /\ Reloaded(f, rows).rows = rows
  <1>1. \E k : Reloaded(f, rows) = [f EXCEPT !.rows = rows, !.selected = k,
                                    !.draft = Drafted(rows, k), !.dirty = FALSE]
    BY DEF Reloaded
  <1>2. PICK k : Reloaded(f, rows) = [f EXCEPT !.rows = rows, !.selected = k,
                                      !.draft = Drafted(rows, k), !.dirty = FALSE]
    BY <1>1
  <1>3. PICK g : g = Reloaded(f, rows)
    OBVIOUS
  <1>4. g.rows = rows /\ g.selected = k /\ g.draft = Drafted(rows, k) /\ DOMAIN g = DOMAIN f
    BY <1>2, <1>3 DEF Honest
  <1>5. Honest(g)
    BY <1>4 DEF Honest
  <1> QED BY <1>3, <1>4, <1>5

(* So does a new form. *)
LEMMA NewIsHonest ==
    ASSUME NEW rows
    PROVE  Honest(NewForm(rows)) /\ NewForm(rows).rows = rows
  BY DEF NewForm, Honest

(* Until the database changes without the form seeing it, the rows of an   *)
(* editor that runs are the database's.                                    *)
FormInv ==
    /\ Honest(form)
    /\ mode # "off" /\ ~unread => form.rows = RowsOf(db)

(* A key of the item mode that neither reads nor writes the database. *)
LEMMA LocalKeeps ==
    ASSUME FormInv, Serves(form, form'), UNCHANGED <<db, unread>>, mode' # "off" => mode # "off"
    PROVE  FormInv'
  BY DEF FormInv, Serves

(* A change of the database that the form sees, or is known not to see. *)
LEMMA ReflectedKeeps ==
    ASSUME FormInv, NEW d, db' = d, NEW seen, Honest(seen), seen.rows = RowsOf(d),
           Reflected(d, seen)
    PROVE  FormInv'
  BY DEF FormInv, Reflected

(* What does not touch the form leaves the database too, or what the form  *)
(* has not seen of it is noted.                                            *)
LEMMA OthersKeepTheForm ==
    ASSUME FormInv, form' = form, mode' # "off" => mode # "off",
           mode' # "off" /\ ~unread' => ~unread /\ db' = db
    PROVE  FormInv'
  BY DEF FormInv

(* The item mode's keys, but for those of the database. *)
LEMMA KeysKeepTheForm ==
    ASSUME FormInv, EditorNext,
           ~ Start, ~ StartFails, ~ Quit, ~ ReloadKey, ~ SaveKey, ~ NewKey, ~ RetireKey
    PROVE  FormInv'
  <1> DEFINE Kept == /\ Serves(form, form') /\ UNCHANGED <<db, unread>>
                     /\ mode' # "off" => mode # "off"
  <1>0. Honest(form) /\ Serves(form, form)
    BY DEF FormInv, Serves
  <1>13. /\ Serves(form, [form EXCEPT !.naming = FALSE])
        /\ Serves(form, [form EXCEPT !.naming = TRUE])
        /\ Serves(form, [form EXCEPT !.picking = FALSE])
    BY <1>0, LooksKeep
  <1>1. ItemModeKey => Kept
    BY <1>0, <1>13 DEF ItemModeKey, storeVars
  <1>2. MobModeKey => Kept
    BY <1>0 DEF MobModeKey, storeVars
  <1>3. ASSUME NEW delta \in {-1, 1}
        PROVE  Focus(delta) \/ MobFocus(delta) => Kept
    BY <1>0, FocusKeeps DEF Focus, MobFocus, Editing, FormStep, MobStep, storeVars
  <1>4. ASSUME NEW delta \in {-1, 1}, NEW coarse \in Coarse
        PROVE  Turn(delta, coarse) \/ MobTurn(delta, coarse) => Kept
    BY <1>0, AdjustKeeps DEF Turn, MobTurn, Editing, FormEdit, MobStep, storeVars
  <1>5. ASSUME NEW d \in Digits
        PROVE  Digit(d) => Kept
    BY <1>0, DigitKeeps DEF Digit, Editing, FormEdit
  <1>6. PageUp \/ PageDown => Kept
    BY <1>0, SelectKeeps DEF PageUp, PageDown, Editing, FormStep, storeVars
  <1>7. EnterName \/ LeaveName \/ ClosePicker => Kept
    BY <1>0, <1>13 DEF EnterName, LeaveName, ClosePicker, Editing, Naming, FormStep, storeVars
  <1>8. TypeName \/ Backspace => Kept
    <2> SUFFICES ASSUME TypeName \/ Backspace PROVE Kept
      OBVIOUS
    <2>1. UNCHANGED <<db, unread, mode>> /\ \E name : form' = Typed(name)
      BY DEF TypeName, Backspace, FormEdit
    <2>2. PICK name : form' = Typed(name)
      BY <2>1
    <2>3. Serves(form, Typed(name))
      BY <1>0, NamesAreStarred DEF Typed
    <2> QED BY <2>1, <2>2, <2>3
  <1>9. ASSUME NEW cell \in Cells
        PROVE  PickCell(cell) \/ PickFirstCell(cell) => Kept
    BY <1>0, <1>13 DEF PickCell, PickFirstCell, MobStep, storeVars
  <1>10. CloseMobPicker \/ OpenMobPicker \/ SaveStrip => Kept
    BY <1>0 DEF CloseMobPicker, OpenMobPicker, SaveStrip, MobStep, storeVars
  <1>11. ASSUME NEW k \in DOMAIN Appearances
         PROVE  MobSelect(k) => Kept
    BY <1>0 DEF MobSelect, MobStep, storeVars
  <1> HIDE DEF Kept
  <1>12. Kept
    BY <1>1, <1>2, <1>3, <1>4, <1>5, <1>6, <1>7, <1>8, <1>9, <1>10, <1>11, Zenon DEF EditorNext
  <1> QED BY <1>12, LocalKeeps DEF Kept

(* The keys that read or write the database. *)
LEMMA DatabaseKeysKeepTheForm ==
    ASSUME FormInv, ReloadKey \/ SaveKey \/ NewKey \/ RetireKey
    PROVE  FormInv'
  <1>1. ASSUME NEW d
        PROVE  /\ Honest(Reloaded(form, RowsOf(d)))
               /\ Reloaded(form, RowsOf(d)).rows = RowsOf(d)
    BY ReloadKeeps DEF FormInv
  <1>2. CASE ReloadKey
    BY <1>1, <1>2 DEF ReloadKey, FormInv
  <1>3. ASSUME NEW d, Changes(d), Reflected(d, Reloaded(form, RowsOf(d)))
        PROVE  FormInv'
    <2>1. PICK seen : seen = Reloaded(form, RowsOf(d))
      OBVIOUS
    <2>2. Honest(seen) /\ seen.rows = RowsOf(d)
      BY <1>1, <2>1
    <2> QED BY <1>3, <2>1, <2>2, ReflectedKeeps DEF Changes
  <1>4. CASE SaveKey
    BY <1>3, <1>4 DEF SaveKey
  <1>5. CASE RetireKey
    BY <1>3, <1>5 DEF RetireKey
  <1>6. CASE NewKey
    <2>1. PICK id : /\ Changes(SaveItem(db, NewRow(id)))
                    /\ Reflected(SaveItem(db, NewRow(id)),
                           SelectId(Reloaded(form, RowsOf(SaveItem(db, NewRow(id)))), id))
      BY <1>6 DEF NewKey
    <2>2. PICK d : d = SaveItem(db, NewRow(id))
      OBVIOUS
    <2>3. PICK seen : seen = SelectId(Reloaded(form, RowsOf(d)), id)
      OBVIOUS
    <2>4. Honest(seen) /\ seen.rows = RowsOf(d)
      BY <1>1, <2>3, SelectIdKeeps DEF Serves
    <2> QED BY <2>1, <2>2, <2>3, <2>4, ReflectedKeeps DEF Changes
  <1> QED BY <1>2, <1>4, <1>5, <1>6

(* Every step, action by action. *)
LEMMA FormStepKeeps ==
    ASSUME FormInv, [Next]_vars
    PROVE  FormInv'
  <1>1. CASE Start
    BY <1>1, NewIsHonest DEF Start, FormInv
  <1>2. CASE StartFails
    BY <1>2, OthersKeepTheForm DEF StartFails
  <1>3. CASE Quit
    BY <1>3, NewIsHonest DEF Quit, FormInv
  <1>4. CASE ReloadKey \/ SaveKey \/ NewKey \/ RetireKey
    BY <1>4, DatabaseKeysKeepTheForm
  <1>5. CASE ~ (Start \/ StartFails \/ Quit \/ ReloadKey \/ SaveKey \/ NewKey \/ RetireKey)
             /\ EditorNext
    BY <1>5, KeysKeepTheForm
  <1>6. CASE GameBake \/ ServerStops \/ ClientStarts \/ ClientStops \/ Hello \/ UNCHANGED vars
    BY <1>6, OthersKeepTheForm
       DEF GameBake, ServerStops, ClientStarts, ClientStops, Hello, vars, storeVars
  <1>7. CASE ServerStarts
    BY <1>7, OthersKeepTheForm DEF ServerStarts
  <1> QED BY <1>1, <1>2, <1>3, <1>4, <1>5, <1>6, <1>7 DEF Next, PlayNext

(* A form without a star shows the row the database has, for any fields,   *)
(* bands, names and failures: through selections, typing, saves that were  *)
(* stored and not read back, retirements, and servers that seed and bakes  *)
(* beside it (ItemMode::dirty_).                                           *)
THEOREM CleanFormsAreStored == Spec => []CleanFormMeansStored
  <1>1. Init => FormInv
    BY NewIsHonest DEF Init, FormInv
  <1>2. FormInv /\ [Next]_vars => FormInv'
    BY FormStepKeeps
  <1>3. FormInv => CleanFormMeansStored
    BY DEF FormInv, Honest, CleanFormMeansStored
  <1> QED BY <1>1, <1>2, <1>3, PTL DEF Spec
=============================================================================

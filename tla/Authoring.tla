----------------------------- MODULE Authoring -----------------------------
(***************************************************************************)
(* Authoring content: the item mode and the mob mode of the editor over    *)
(* the three files they share with everybody else - the item database, the *)
(* blob the client reads and the atlas - with the tool that bakes, the     *)
(* server that reads the database when it starts and the client that reads *)
(* the blob when it does and shows both ends of a handshake.               *)
(*                                                                         *)
(* Every file operation may fail where the code checks for it.  A step     *)
(* that fails before it changed anything is a stuttering step.             *)
(***************************************************************************)
EXTENDS ItemForm, AtlasText, ContentStore

CONSTANTS
    FirstDbs, FirstBlobs,  \* what the files may be when the story starts
    FirstAtlases,
    Cells,                 \* the cells of the atlas a click may pick
    Appearances,           \* of the classes in monsters.txt, in order
    MobFields,             \* the fields of the mob form, in order
    AtlasWidth,            \* of atlas.png, in pixels
    AtlasHeight,
    CellLeast, CellMost,   \* 8 and 128: sizes of a cell,
    CellStep,              \* 8: which change by this
    MaxTilt,               \* 60
    Digits, Coarse,        \* inputs: digits typed, and whether shift is held
    MaxName,               \* bound: how long a name is typed
    MaxNudge,              \* bound: how far a strip or its origin is moved
    MaxActs,               \* bound: edits of a draft, changes of the database, bakings
    MaxBinds               \* bound: writes of the atlas

ASSUME AuthoringAssumption ==
    /\ Appearances \in Seq(Nat)
    /\ CellLeast \in Nat \ {0} /\ CellStep \in Nat \ {0} /\ CellMost >= CellLeast
    /\ \A d \in FirstDbs :
          /\ d \in [version : Nat, items : {d.items}, retired : SUBSET Nat]
          /\ Live(d) # {} => Reserved \in d.retired

VARIABLES
    db, blob, atlas,       \* the files
    mode,                  \* the editor: "off", or what has the keyboard
    form,                  \* ItemMode
    mobs,                  \* MobMode
    tileset,               \* the editor's, as loaded
    served,                \* the server's registry, while it runs, as a set
    shown,                 \* the client's likewise
    admitted,              \* the client was welcomed
    spent, binds,          \* how much of the bounds is gone
    ever,                  \* history: the ids that ever were an item
    unread,                \* history: the form has not seen the database change
    unbaked,               \* history: the blob was not written since, or not well
    drawn,                 \* history: the table a tileset loaded now would be
    torn                   \* history: the last write of the atlas stopped halfway

storeVars == <<db, blob, ever, unread, unbaked, spent>>
atlasVars == <<atlas, drawn, tileset, torn, binds>>
playVars == <<served, shown, admitted>>
vars == <<storeVars, atlasVars, playVars, mode, form, mobs>>

ById(a, b) == a.id < b.id

RowsOf(d) == SetToSortSeq({d.items[id] : id \in Live(d)}, ById)

----------------------------------------------------------------------------
(* The mob form, as a value. *)

(* apply_canonical_mob_origin: the feet in the middle of the tile. *)
Canonical(strip) == [strip EXCEPT !.ox = -(strip.w \div 2), !.oy = 16 - strip.h]

PlainStrip ==
    Canonical([x |-> 0, y |-> 0, w |-> 32, h |-> 32, dirs |-> Tibia, frames |-> 3,
               tilt |-> 0, ox |-> 0, oy |-> 0])

(* The first line of its older art is where a class without a strip starts. *)
DefaultStrip(text, appearance) ==
    LET first == {k \in DOMAIN text : Matches(text[k], "mob", appearance) /\ text[k].dir = 0}
        line  == text[Min(first)]
    IN  IF first = {} THEN PlainStrip
        ELSE IF ~line.whole THEN PlainStrip
        ELSE line.art @@ [dirs |-> Full, frames |-> 1] @@ PlainStrip

StripFor(text, appearance) ==
    LET stored == FindMobStrip(text, appearance)
    IN  IF stored = NoArt THEN DefaultStrip(text, appearance) ELSE stored

Appearance == Appearances[mobs.selected]

(* refresh_binding *)
Shows(m, k, text) == [m EXCEPT !.selected = k, !.strip = StripFor(text, Appearances[k]), !.dirty = FALSE]

NewMobs(text) ==
    LET blank == [selected |-> 1, strip |-> PlainStrip, focus |-> 1, dirty |-> FALSE, picking |-> FALSE]
    IN  IF Appearances = <<>> THEN blank ELSE Shows(blank, 1, text)

Resized(strip, side, by) ==
    Canonical([strip EXCEPT ![side] = Clamp(@ + by * CellStep, CellLeast, CellMost)])

StripTurned(s, field, delta, coarse) ==
    LET step == IF coarse THEN 8 * delta ELSE delta
        jump == (IF coarse THEN s.dirs * s.frames ELSE 1) * delta * s.w
    IN  CASE field = "Sprite"  -> [s EXCEPT !.x = IF @ + jump < 0 THEN 0 ELSE @ + jump]
          [] field = "CellW"   -> Resized(s, "w", step)
          [] field = "CellH"   -> Resized(s, "h", step)
          [] field = "Dirs"    -> [s EXCEPT !.dirs = IF @ = Tibia THEN Full ELSE Tibia]
          [] field = "Frames"  -> [s EXCEPT !.frames = Clamp(@ + delta, 1, MaxFrames)]
          [] field = "Tilt"    -> [s EXCEPT !.tilt = Clamp(@ + step, -MaxTilt, MaxTilt)]
          [] field = "OriginX" -> [s EXCEPT !.ox = @ + step]
          [] field = "OriginY" -> [s EXCEPT !.oy = @ + step]

(* draft_fits *)
Fits(s) ==
    /\ s.x >= 0 /\ s.y >= 0
    /\ s.x + s.dirs * s.frames * s.w <= AtlasWidth
    /\ s.y + s.h <= AtlasHeight

WithStrip(text, appearance, s) ==
    IF appearance = 0 \/ s.w <= 0 \/ s.h <= 0 \/ s.dirs <= 0 \/ s.frames <= 0 THEN text
    ELSE UpsertMobStrip(text, appearance, s)

----------------------------------------------------------------------------
(* The files. *)

Init ==
    /\ db \in FirstDbs /\ blob \in FirstBlobs /\ atlas \in FirstAtlases
    /\ mode = "off" /\ form = NewForm(<<>>) /\ mobs = NewMobs(<<>>)
    /\ drawn = Loaded(atlas) /\ tileset = Procedural
    /\ served = {} /\ shown = {} /\ admitted = FALSE
    /\ spent = 0 /\ binds = 0
    /\ ever = Live(db) /\ unread = FALSE /\ unbaked = TRUE /\ torn = FALSE

Changes(d) == db' = d /\ ever' = ever \cup Live(d)

Spend == spent < MaxActs /\ spent' = spent + 1

(* Faulty: baked from what the database held before. *)
BakingOld(d) == blob' = Blob(Registry(db)) /\ unbaked' = FALSE

(* ItemMode::bake and game_bake: the file is truncated and written; the    *)
(* last of it may fail unseen when the stream is closed.                   *)
Baking(d) ==
    \/ blob' = Blob(Registry(d)) /\ unbaked' = FALSE
    \/ blob' \in {blob, TornBlob} /\ unbaked' = TRUE

(* Faulty: read back before the stream was closed. *)
RereadEarly(text) == tileset' = Loaded(<<>>)

(* Writing the atlas, then reading it back into the tileset. *)
Reread(text) == tileset' = Loaded(text)

AtlasWritten(text) ==
    /\ binds < MaxBinds /\ binds' = binds + 1
    /\ atlas' = text /\ drawn' = Loaded(text) /\ torn' = FALSE
    /\ Reread(text)

(* Some of the lines, the last one perhaps not whole. *)
CutShort(text) ==
    LET cut(k) == SubSeq(text, 1, k)
    IN  {cut(k) : k \in 0..Len(text)} \cup
        {Append(cut(k - 1), [text[k] EXCEPT !.whole = FALSE]) : k \in 1..Len(text)}

AtlasTorn(text) ==
    /\ binds < MaxBinds /\ binds' = binds + 1
    /\ atlas' \in CutShort(text) /\ drawn' = Loaded(atlas') /\ torn' = TRUE
    /\ tileset' = tileset

----------------------------------------------------------------------------
(* The editor starts, changes mode and stops. *)

Start ==
    /\ mode = "off" /\ Readable(db)
    /\ Changes(Opened(db))
    /\ mode' = "map"
    /\ form' = NewForm(RowsOf(db'))
    /\ mobs' = NewMobs(atlas)
    /\ tileset' = drawn
    /\ unread' = FALSE
    /\ unbaked' = (unbaked \/ db' # db)
    /\ UNCHANGED <<blob, spent, atlas, drawn, torn, binds, playVars>>

(* A database that could be migrated and not seeded: no editor, no server. *)
StartFails ==
    /\ mode = "off" /\ Readable(db)
    /\ \E d \in Unfinished(db) : Changes(d) /\ unbaked' = (unbaked \/ d # db)
    /\ UNCHANGED <<blob, unread, spent, atlasVars, playVars, mode, form, mobs>>

Quit ==
    /\ mode # "off"
    /\ mode' = "off" /\ form' = NewForm(<<>>) /\ mobs' = NewMobs(<<>>) /\ tileset' = Procedural
    /\ UNCHANGED <<storeVars, atlas, drawn, torn, binds, playVars>>

ItemModeKey ==
    /\ mode # "off"
    /\ mode' = IF mode = "item" THEN "map" ELSE "item"
    /\ form' = IF mode = "item" THEN [form EXCEPT !.naming = FALSE] ELSE form
    /\ UNCHANGED <<storeVars, atlasVars, playVars, mobs>>

(* It leaves the item mode without its on_exit. *)
MobModeKey ==
    /\ mode # "off"
    /\ mode' = IF mode = "mob" THEN "map" ELSE "mob"
    /\ UNCHANGED <<storeVars, atlasVars, playVars, form, mobs>>

----------------------------------------------------------------------------
(* The item mode's keys. *)

Editing == mode = "item" /\ ~form.picking /\ ~form.naming

FormStep(new) ==
    /\ form' = new
    /\ UNCHANGED <<storeVars, atlasVars, playVars, mode, mobs>>

FormEdit(new) ==
    /\ form' = new
    /\ IF new.draft = form.draft THEN spent' = spent ELSE Spend
    /\ UNCHANGED <<db, blob, ever, unread, unbaked, atlasVars, playVars, mode, mobs>>

Focus(delta) == Editing /\ FormStep(MoveFocus(form, delta))

(* Left, right, and Return on everything but the name. *)
Turn(delta, coarse) == Editing /\ FormEdit(Adjust(form, delta, coarse))

Digit(d) == Editing /\ FormEdit(TypeDigit(form, d))

PageUp == Editing /\ form.selected > 1 /\ FormStep(Select(form, form.selected - 1))

PageDown == Editing /\ FormStep(Select(form, form.selected + 1))

(* Faulty: typing is not an edit. *)
TypedOnly(name) == [form EXCEPT !.draft.name = name]

Typed(name) == [form EXCEPT !.draft.name = name, !.dirty = TRUE]

EnterName == Editing /\ Focused(form) = "Name" /\ FormStep([form EXCEPT !.naming = TRUE])

Naming == mode = "item" /\ ~form.picking /\ form.naming

TypeName == Naming /\ form.draft.name < MaxName /\ FormEdit(Typed(form.draft.name + 1))

Backspace == Naming /\ form.draft.name > 0 /\ FormEdit(Typed(form.draft.name - 1))

LeaveName == Naming /\ FormStep([form EXCEPT !.naming = FALSE])

ReloadKey ==
    /\ Editing
    /\ form' = Reloaded(form, RowsOf(db)) /\ unread' = FALSE
    /\ UNCHANGED <<db, blob, ever, unbaked, spent, atlasVars, playVars, mode, mobs>>

(* What follows a change of the database d: the rows are read again, or    *)
(* not, and then nothing is baked; after that it is baked, or not.         *)
Reflected(d, seen) ==
    \/ form' = seen /\ unread' = FALSE /\ Baking(d)
    \/ form' = form /\ unread' = TRUE /\ blob' = blob /\ unbaked' = TRUE

SaveKey ==
    /\ Editing /\ Spend
    /\ form.rows # <<>> /\ form.draft.name > 0 /\ Accepted(form.draft)
    /\ LET d == SaveItem(db, form.draft)
       IN  Changes(d) /\ Reflected(d, Reloaded(form, RowsOf(d)))
    /\ UNCHANGED <<atlasVars, playVars, mode, mobs>>

(* The band of the selected item. *)
Category ==
    IF form.rows = <<>> THEN "equipment"
    ELSE LET id == form.rows[form.selected].id
         IN  IF id <= Bands["ground"].last THEN "ground"
             ELSE IF id <= Bands["object"].last THEN "object" ELSE "equipment"

NewRow(id) ==
    Item(id, 1, CASE Category = "ground" -> {"Ground"}
                  [] Category = "object" -> {}
                  [] Category = "equipment" -> {"Pickable"},
         Category = "equipment")

NewKey ==
    /\ Editing /\ Spend
    /\ \E id \in NextFree(db, Category) :
          LET d == SaveItem(db, NewRow(id))
          IN  Changes(d) /\ Reflected(d, SelectId(Reloaded(form, RowsOf(d)), id))
    /\ UNCHANGED <<atlasVars, playVars, mode, mobs>>

(* Shift and Delete *)
RetireKey ==
    /\ Editing /\ Spend
    /\ form.rows # <<>>
    /\ LET id == form.rows[form.selected].id
           d  == RetireItem(db, id)
       IN  id \in Live(db) /\ Changes(d) /\ Reflected(d, Reloaded(form, RowsOf(d)))
    /\ UNCHANGED <<atlasVars, playVars, mode, mobs>>

(* The picker: a click on a cell of the sheet. *)
BindingOf(f, cell) == Line(SpriteKind(f), f.draft.id, 0, <<SpriteKind(f), cell>>)

Upserted(f, cell) == IF f.draft.id = 0 THEN atlas ELSE UpsertBinding(atlas, BindingOf(f, cell))

PickCell(cell) ==
    /\ mode = "item" /\ form.picking
    /\ LET text == Upserted(form, cell)
           done == [form EXCEPT !.picking = FALSE]
       IN  \/ text = atlas /\ form' = done /\ UNCHANGED atlasVars
           \/ text # atlas /\ form' = done /\ AtlasWritten(text)
           \/ text # atlas /\ form' = form /\ AtlasTorn(text)
    /\ UNCHANGED <<storeVars, playVars, mode, mobs>>

ClosePicker ==
    /\ mode = "item" /\ form.picking
    /\ FormStep([form EXCEPT !.picking = FALSE])

----------------------------------------------------------------------------
(* The mob mode's keys. *)

(* Without a class the form still turns, and nothing of it can be kept. *)
Striping == mode = "mob" /\ ~mobs.picking /\ Appearances # <<>>

MobStep(new) ==
    /\ mobs' = new
    /\ UNCHANGED <<storeVars, atlasVars, playVars, mode, form>>

MobFocus(delta) ==
    Striping /\ MobStep([mobs EXCEPT !.focus = ((@ - 1 + delta) % Len(MobFields)) + 1])

MobTurn(delta, coarse) ==
    /\ Striping
    /\ LET s == StripTurned(mobs.strip, MobFields[mobs.focus], delta, coarse)
       IN  /\ s.x <= MaxNudge /\ s.ox \in -MaxNudge..MaxNudge /\ s.oy \in -MaxNudge..MaxNudge
           /\ MobStep([mobs EXCEPT !.strip = s, !.dirty = TRUE])

(* Page up and down, and R, which reads the atlas for the same class. *)
MobSelect(k) ==
    /\ Striping
    /\ k \in DOMAIN Appearances /\ k - mobs.selected \in {-1, 0, 1}
    /\ MobStep(Shows(mobs, k, atlas))

OpenMobPicker ==
    Striping /\ MobFields[mobs.focus] = "Sprite" /\ MobStep([mobs EXCEPT !.picking = TRUE])

(* A pick is part of the draft; S commits it. *)
PickFirstCell(column) ==
    /\ mode = "mob" /\ mobs.picking
    /\ MobStep([mobs EXCEPT !.strip.x = column * mobs.strip.w, !.strip.y = 0,
                            !.dirty = TRUE, !.picking = FALSE])

CloseMobPicker == mode = "mob" /\ mobs.picking /\ MobStep([mobs EXCEPT !.picking = FALSE])

SaveStrip ==
    /\ Striping
    /\ Fits(mobs.strip) /\ atlas # <<>>
    /\ LET text == WithStrip(atlas, Appearance, mobs.strip)
           done == [mobs EXCEPT !.dirty = FALSE]
       IN  \/ text = atlas /\ mobs' = done /\ UNCHANGED atlasVars
           \/ text # atlas /\ mobs' = done /\ AtlasWritten(text)
           \/ text # atlas /\ mobs' = mobs /\ AtlasTorn(text)
    /\ UNCHANGED <<storeVars, playVars, mode, form>>

----------------------------------------------------------------------------
(* The rest of the tools, and the game. *)

(* game_bake reads the database and never makes one. *)
GameBake ==
    /\ db.version = SchemaVersion
    /\ Spend
    /\ Baking(db)
    /\ UNCHANGED <<db, ever, unread, atlasVars, playVars, mode, form, mobs>>

(* The server opens, migrates and seeds like the editor, keeps what it     *)
(* read, and tells a client from its fingerprint.                          *)
ServerStarts ==
    /\ served = {} /\ Readable(db)
    /\ Changes(Opened(db))
    /\ served' = {Registry(db')}
    /\ unread' = (unread \/ db' # db) /\ unbaked' = (unbaked \/ db' # db)
    /\ UNCHANGED <<blob, spent, atlasVars, shown, admitted, mode, form, mobs>>

ServerStops ==
    /\ served # {}
    /\ served' = {} /\ admitted' = FALSE
    /\ UNCHANGED <<storeVars, atlasVars, shown, mode, form, mobs>>

ClientStarts ==
    /\ shown = {}
    /\ shown' = {Catalogue(blob)}
    /\ UNCHANGED <<storeVars, atlasVars, served, admitted, mode, form, mobs>>

ClientStops ==
    /\ shown # {}
    /\ shown' = {} /\ admitted' = FALSE
    /\ UNCHANGED <<storeVars, atlasVars, served, mode, form, mobs>>

(* The hello carries the client's fingerprint; another one is turned away. *)
Hello ==
    /\ served # {} /\ shown # {} /\ ~admitted
    /\ \A c \in shown, r \in served : Fingerprint(c) = Fingerprint(r)
    /\ admitted' = TRUE
    /\ UNCHANGED <<storeVars, atlasVars, served, shown, mode, form, mobs>>

EditorNext ==
    \/ Start \/ StartFails \/ Quit \/ ItemModeKey \/ MobModeKey
    \/ \E delta \in {-1, 1} :
          \/ Focus(delta) \/ MobFocus(delta)
          \/ \E coarse \in Coarse : Turn(delta, coarse) \/ MobTurn(delta, coarse)
    \/ \E d \in Digits : Digit(d)
    \/ PageUp \/ PageDown
    \/ EnterName \/ TypeName \/ Backspace \/ LeaveName
    \/ ReloadKey \/ SaveKey \/ NewKey \/ RetireKey
    \/ \E cell \in Cells : PickCell(cell) \/ PickFirstCell(cell)
    \/ ClosePicker \/ CloseMobPicker
    \/ \E k \in DOMAIN Appearances : MobSelect(k)
    \/ OpenMobPicker \/ SaveStrip

PlayNext ==
    GameBake \/ ServerStarts \/ ServerStops \/ ClientStarts \/ ClientStops \/ Hello

Next == EditorNext \/ PlayNext

Spec == Init /\ [][Next]_vars

(* An editor nobody plays next to. *)
EditorSpec == Init /\ [][EditorNext]_vars

----------------------------------------------------------------------------
(* Properties. *)

(* "the id stays spent forever": a new item never gets an id that was an   *)
(* item's before, nor the actor's, whatever was retired, re-seeded by a    *)
(* start or half done in between (content.cpp:208-237, item_mode.cpp:378). *)
NewIdsAreFresh ==
    [][NewKey => (Live(db') \ Live(db)) \cap (ever \cup {Reserved}) = {}]_vars

(* A form without a star shows what is stored ("True when the draft        *)
(* differs from what is stored", item_mode.hpp:53), through selections,    *)
(* typing, half-failed saves and retirements.                              *)
CleanFormMeansStored ==
    mode # "off" /\ ~form.dirty /\ ~unread =>
        form.draft = Drafted(RowsOf(db), form.selected)

(* After a bake that worked, and until the database changes again, a       *)
(* client plays by the rules in the database, whoever changed it: an       *)
(* item retired, created or saved is never left out of the blob.           *)
BakedMeansPlayable == ~unbaked => Catalogue(blob) = Registry(db)

(* "proving they agree is the only thing standing between ... a world      *)
(* where the client and the server disagree about what blocks"             *)
(* (server/main.cpp:425-429): however files and processes were restarted   *)
(* before, the two ends of a welcomed connection have the same rules.      *)
AdmittedAgree == admitted => shown = served

(* An edit changes one entry of the table of sprites, or an interrupted    *)
(* write loses some: what an author did not touch keeps its art, even in   *)
(* files written by hand with several lines for one sprite.                *)
Table == INSTANCE SpriteTable WITH table <- drawn, cut <- torn

OneSpriteAtATime == Table!Spec

(* The editor draws what the file says after every write that worked: the  *)
(* reload reads the new text, not one still truncated (item_mode.cpp:126). *)
TilesetCurrent == mode # "off" /\ ~torn => tileset = drawn

Lone(text, slot) == Cardinality({k \in DOMAIN text : Bound(text[k]) /\ Slot(text[k]) = slot}) <= 1

(* The art of a strip's cell for a mob that faces and steps. *)
StripArt(s, facing, frame) ==
    [x |-> CellX(s, ArtDirection(facing, s.dirs), frame), y |-> s.y,
     w |-> s.w, h |-> s.h, ox |-> s.ox, oy |-> s.oy]

(* What was picked is what is drawn: a bound cell for an item with no      *)
(* second line, and a strip in every direction and frame whatever older    *)
(* lines its appearance had (atlas_meta.hpp:109-112).                      *)
EditTakesEffect ==
    [][/\ \A cell \in Cells :
             LET slot == Slot(BindingOf(form, cell))
             IN  PickCell(cell) /\ atlas' # atlas /\ ~torn' /\ Lone(atlas, slot)
                     /\ tileset' # Procedural
                 => tileset'[slot] = <<SpriteKind(form), cell>>
       /\ SaveStrip /\ atlas' # atlas /\ ~torn' /\ tileset' # Procedural =>
             \A facing \in 0..7, frame \in 0..mobs.strip.frames - 1 :
                 ActorArt(tileset', Appearance, facing, frame) = StripArt(mobs.strip, facing, frame)]_vars
=============================================================================

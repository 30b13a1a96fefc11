----------------------------- MODULE MapEditor -----------------------------
(***************************************************************************)
(* The map half of the editor (editor/main.cpp): opening, painting,        *)
(* undoing, growing and saving maps, the browser that switches between     *)
(* them, and the two modes that take the keyboard away from the map.  An   *)
(* action is one event as the chain of handlers in the loop routes it, or  *)
(* the painting a frame does after its events.                             *)
(*                                                                         *)
(* The item and mob modes are here only as what they do to the map: they   *)
(* swallow its events, and editing an item changes which types block.      *)
(***************************************************************************)
EXTENDS MapText

CONSTANTS
    Paths,                 \* the map files of one directory
    FirstPath,             \* the one --map resolves to
    Disk,                  \* [path -> lines] when the editor starts; none if absent
    Blockers,              \* the item types that block, as the database has them then
    Revised,               \* the type the item mode may make block
    Brushes,               \* the palette, erasers included
    CanvasWidth,           \* of the blank canvas: 48,
    CanvasHeight,          \* by 32,
    Stone,                 \* and what it is made of
    KMaxUndo,              \* 64
    LateErrors,            \* whether a write may fail after write_file looked
    MaxFloors,             \* bound: floors a map may be given
    MaxActs                \* bound: strokes begun, floors added, frames that paint, saves

ASSUME MapEditorAssumption ==
    /\ FirstPath \in Paths
    /\ Disk \in [Paths -> Seq(Lines)]
    /\ 0 \notin Blockers /\ Revised # 0
    /\ KMaxUndo \in Nat \ {0}
    /\ Brushes \subseteq [kind: {"ground", "object", "erase", "void"}, id: TileIds]
    /\ CanvasWidth \in Nat \ {0} /\ CanvasHeight \in Nat \ {0} /\ Stone \in TileIds

VARIABLES
    disk, files,           \* [path -> lines], and the paths that exist
    content, registry,     \* the types that block: in the database, and as loaded
    path,                  \* opt.map_path
    map,                   \* view.map
    authored,              \* what is kept only to be written back
    floor,
    undo, redo,            \* the snapshots, newest last
    dirty,
    painting, erasing,
    brush,
    itemMode, mobMode,
    browser,               \* the list: shown, told of unsaved work, armed, its row
    spent,                 \* how much of MaxActs is gone
    written,               \* history: [path -> document the last good save wrote]
    astray,                \* history: path holds something else than what was
                           \* opened or written, and nobody was told
    warned                 \* history: the row the "enter again" prompt stood at

mapVars == <<map, undo, redo>>
fileVars == <<disk, files, path, authored, written, astray>>
modeVars == <<itemMode, mobMode, content, registry>>
vars == <<mapVars, fileVars, modeVars, floor, dirty, painting, erasing, brush, browser, spent, warned>>

NoRow == ""

(* The document on the canvas, as a reader would hand it over. *)
Doc == [ok |-> TRUE, map |-> map, spawn |-> authored.spawn, monsters |-> authored.monsters,
        spawners |-> authored.spawners, portals |-> authored.portals]

(* blank_map: its tiles never block, whatever stone does. *)
BlankMap ==
    [NewMap(CanvasWidth, CanvasHeight, 1) EXCEPT
        !.tiles = [c \in DOMAIN @ |-> [VoidTile EXCEPT !.ground = Stone]]]

(* load_map_doc: a file that cannot be read is a blank canvas. *)
Loaded(lines, blockers) ==
    LET parsed == Parse(lines, blockers)
    IN  IF lines # <<>> /\ parsed.ok THEN parsed
        ELSE [ok |-> FALSE, map |-> BlankMap, spawn |-> NoCell, monsters |-> <<>>,
              spawners |-> <<>>, portals |-> <<>>]

AuthoredOf(doc) == [spawn |-> doc.spawn, monsters |-> doc.monsters,
                    spawners |-> doc.spawners, portals |-> doc.portals]

(* What a hidden list still holds is never looked at: open() sets it all.  *)
Closed == [active |-> FALSE, unsaved |-> FALSE, confirmed |-> FALSE, selected |-> NoRow]

(* What opening a file leaves behind, at start and afterwards. *)
Shown(p, blockers) ==
    LET doc == Loaded(disk[p], blockers)
    IN  /\ path' = p
        /\ map' = doc.map /\ authored' = AuthoredOf(doc) /\ astray' = ~doc.ok
        /\ undo' = <<>> /\ redo' = <<>>
        /\ floor' = 0 /\ dirty' = FALSE

Init ==
    /\ disk = Disk /\ files = {p \in Paths : Disk[p] # <<>>}
    /\ content = Blockers /\ registry = Blockers
    /\ path = FirstPath
    /\ LET doc == Loaded(Disk[FirstPath], Blockers)
       IN  map = doc.map /\ authored = AuthoredOf(doc) /\ astray = ~doc.ok
    /\ floor = 0 /\ undo = <<>> /\ redo = <<>>
    /\ dirty = FALSE /\ painting = FALSE /\ erasing = FALSE
    /\ brush \in Brushes
    /\ itemMode = FALSE /\ mobMode = FALSE
    /\ browser = Closed
    /\ spent = 0
    /\ written = [p \in Paths |-> Unreadable]
    /\ warned = NoRow

----------------------------------------------------------------------------
(* Mode switches: looked at before anything else. *)

ItemModeKey ==
    /\ itemMode' = ~itemMode
    /\ mobMode' = (mobMode /\ itemMode)
    /\ registry' = IF itemMode THEN content ELSE registry
    /\ UNCHANGED <<mapVars, fileVars, content, floor, dirty, painting, erasing, brush,
                   browser, spent, warned>>

MobModeKey ==
    /\ mobMode' = ~mobMode
    /\ itemMode' = (itemMode /\ mobMode)
    /\ UNCHANGED <<mapVars, fileVars, content, registry, floor, dirty, painting, erasing, brush,
                   browser, spent, warned>>

FirstRow == IF path \in files THEN path
            ELSE IF files = {} THEN NoRow ELSE CHOOSE p \in files : TRUE

BrowserOpened ==
    [active |-> TRUE, unsaved |-> dirty, confirmed |-> FALSE, selected |-> FirstRow]

OpenBrowser ==
    /\ ~itemMode /\ ~mobMode /\ ~browser.active
    /\ browser' = BrowserOpened
    /\ painting' = FALSE /\ erasing' = FALSE
    /\ warned' = NoRow
    /\ UNCHANGED <<mapVars, fileVars, modeVars, floor, dirty, brush, spent>>

(* F3 again, or Escape, which the list sees even under a mode. *)
CloseBrowser ==
    /\ browser.active
    /\ browser' = Closed /\ warned' = NoRow
    /\ UNCHANGED <<mapVars, fileVars, modeVars, floor, dirty, painting, erasing, brush, spent>>

----------------------------------------------------------------------------
(* MapBrowser: the keys and clicks of the list. *)

(* Faulty: the prompt follows the cursor. *)
MovedArmed(p) == [browser EXCEPT !.selected = p]

Moved(p) == [browser EXCEPT !.selected = p, !.confirmed = FALSE]

MoveSelection(p) ==
    /\ browser.active
    /\ p \in files
    /\ browser' = Moved(p) /\ warned' = NoRow
    /\ UNCHANGED <<mapVars, fileVars, modeVars, floor, dirty, painting, erasing, brush, spent>>

Arm ==
    /\ browser.active /\ files # {}
    /\ browser.unsaved /\ ~browser.confirmed
    /\ browser' = [browser EXCEPT !.confirmed = TRUE]
    /\ warned' = browser.selected
    /\ UNCHANGED <<mapVars, fileVars, modeVars, floor, dirty, painting, erasing, brush, spent>>

OpenChosen ==
    /\ browser.active /\ files # {}
    /\ browser.unsaved => browser.confirmed
    /\ browser' = Closed /\ warned' = NoRow
    /\ Shown(browser.selected, registry)
    /\ UNCHANGED <<disk, files, written, modeVars, painting, erasing, brush, spent>>

----------------------------------------------------------------------------
(* The map's own keys and buttons: what no mode and no list has taken. *)

ToMap == ~browser.active /\ ~itemMode /\ ~mobMode

(* Faulty: what was undone can be redone onto the new stroke. *)
PushUndoOnly ==
    /\ undo' = LET all == Append(undo, map) IN IF Len(all) > KMaxUndo THEN Tail(all) ELSE all
    /\ redo' = redo

PushUndo ==
    /\ undo' = LET all == Append(undo, map) IN IF Len(all) > KMaxUndo THEN Tail(all) ELSE all
    /\ redo' = <<>>

(* Faulty: only painting counts as a change. *)
MarkedByStrokes == dirty' = (dirty \/ painting \/ erasing)

Marked == dirty' = TRUE

Spend == spent < MaxActs /\ spent' = spent + 1

PressLeft ==
    /\ ToMap
    /\ Spend
    /\ PushUndo
    /\ painting' = TRUE
    /\ UNCHANGED <<map, fileVars, modeVars, floor, dirty, erasing, brush, browser, warned>>

PressRight ==
    /\ ToMap
    /\ Spend
    /\ PushUndo
    /\ erasing' = TRUE
    /\ UNCHANGED <<map, fileVars, modeVars, floor, dirty, painting, brush, browser, warned>>

(* Under a mode or the list the release is swallowed. *)
Release ==
    /\ ToMap
    /\ \/ painting /\ painting' = FALSE /\ erasing' = erasing
       \/ erasing /\ erasing' = FALSE /\ painting' = painting
    /\ UNCHANGED <<mapVars, fileVars, modeVars, floor, dirty, brush, browser, spent, warned>>

PickBrush(b) ==
    /\ ToMap
    /\ brush' = b
    /\ UNCHANGED <<mapVars, fileVars, modeVars, floor, dirty, painting, erasing, browser, spent, warned>>

Undo ==
    /\ ToMap
    /\ undo # <<>>
    /\ redo' = Append(redo, map)
    /\ map' = Last(undo)
    /\ undo' = Front(undo)
    /\ Marked
    /\ UNCHANGED <<fileVars, modeVars, floor, painting, erasing, brush, browser, spent, warned>>

Redo ==
    /\ ToMap
    /\ redo # <<>>
    /\ undo' = Append(undo, map)
    /\ map' = Last(redo)
    /\ redo' = Front(redo)
    /\ Marked
    /\ UNCHANGED <<fileVars, modeVars, floor, painting, erasing, brush, browser, spent, warned>>

(* with_extra_floor: a rebuild with an empty floor on top. *)
WithExtraFloor(m) ==
    LET grown == NewMap(m.width, m.height, m.floors + 1)
    IN  [grown EXCEPT !.tiles = [c \in DOMAIN @ |-> IF InBounds(m, c) THEN m.tiles[c] ELSE @[c]]]

AddFloor ==
    /\ ToMap
    /\ map.floors < MaxFloors
    /\ Spend
    /\ PushUndo
    /\ map' = WithExtraFloor(map)
    /\ floor' = map.floors
    /\ Marked
    /\ UNCHANGED <<fileVars, modeVars, painting, erasing, brush, browser, warned>>

(* PgUp and PgDn, clamped to the floors there are. *)
TurnTo(step) ==
    LET next == floor + step
        top  == map.floors - 1
    IN  IF next < 0 THEN 0 ELSE IF next > top THEN top ELSE next

Page(step) ==
    /\ ToMap
    /\ floor' = TurnTo(step)
    /\ UNCHANGED <<mapVars, fileVars, modeVars, dirty, painting, erasing, brush, browser, spent, warned>>

----------------------------------------------------------------------------
(* S: write_text_map, then a file opened for truncation and written.       *)

SaveGood ==
    /\ ToMap
    /\ Spend
    /\ disk' = [disk EXCEPT ![path] = Write(Doc)]
    /\ files' = files \cup {path}
    /\ written' = [written EXCEPT ![path] = Doc]
    /\ dirty' = FALSE /\ astray' = FALSE
    /\ UNCHANGED <<mapVars, path, authored, modeVars, floor, painting, erasing, brush, browser, warned>>

(* Where a write may stop, as far as a reader can tell: nothing, or all    *)
(* but the last floor, which of a single floor leaves the header and what  *)
(* stands on the map.                                                      *)
Cuts(text) == {0, Len(text) - map.height - 1}

(* The file is truncated and some of the text is in it when writing fails. *)
(* If only the last buffer fails, when the stream is closed, the save is   *)
(* taken for good.                                                         *)
SaveTorn ==
    /\ ToMap
    /\ Spend
    /\ \E k \in Cuts(Write(Doc)) : disk' = [disk EXCEPT ![path] = SubSeq(Write(Doc), 1, k)]
    /\ files' = files \cup {path}
    /\ written' = [written EXCEPT ![path] = Unreadable]
    /\ dirty' \in IF LateErrors THEN {dirty, FALSE} ELSE {dirty}
    /\ astray' = TRUE
    /\ UNCHANGED <<mapVars, path, authored, modeVars, floor, painting, erasing, brush, browser, warned>>

(* The file cannot be opened: nothing changes but the log. *)
SaveRefused ==
    /\ ToMap
    /\ UNCHANGED vars

----------------------------------------------------------------------------
(* What a frame does after its events, and the world around. *)

EraseBrush == [kind |-> "erase", id |-> 0]

Brushed(tile, b) ==
    Tile(IF b.kind = "ground" THEN b.id ELSE IF b.kind = "void" THEN 0 ELSE tile.ground,
         IF b.kind = "object" THEN b.id
         ELSE IF b.kind \in {"erase", "void"} THEN 0 ELSE tile.object,
         registry)

(* The tile under the cursor, whether or not a button is still down. *)
Paint(c) ==
    /\ ToMap
    /\ painting \/ erasing
    /\ c[3] = floor /\ InBounds(map, c)
    /\ Spend
    /\ map' = Set(map, c, Brushed(map.tiles[c], IF erasing THEN EraseBrush ELSE brush))
    /\ Marked
    /\ UNCHANGED <<undo, redo, fileVars, modeVars, floor, painting, erasing, brush, browser, warned>>

(* The item mode saves an item whose walk flag was changed. *)
ReviseItem ==
    /\ itemMode /\ ~browser.active
    /\ content' = content \cup {Revised}
    /\ UNCHANGED <<mapVars, fileVars, itemMode, mobMode, registry, floor, dirty, painting, erasing,
                   brush, browser, spent, warned>>

(* Escape quits without asking (and so does the window's cross, from any   *)
(* mode: the outcome is the same); the editor is started again on a file.  *)
Restart(p) ==
    /\ ToMap
    /\ Shown(p, content)
    /\ registry' = content /\ content' = content
    /\ painting' = FALSE /\ erasing' = FALSE
    /\ itemMode' = FALSE /\ mobMode' = FALSE
    /\ browser' = Closed /\ warned' = NoRow
    /\ UNCHANGED <<disk, files, written, brush, spent>>

Next ==
    \/ ItemModeKey \/ MobModeKey \/ OpenBrowser \/ CloseBrowser
    \/ \E p \in Paths : MoveSelection(p) \/ Restart(p)
    \/ Arm \/ OpenChosen
    \/ PressLeft \/ PressRight \/ Release
    \/ \E b \in Brushes : PickBrush(b)
    \/ Undo \/ Redo \/ AddFloor
    \/ \E step \in {-1, 1} : Page(step)
    \/ SaveGood \/ SaveTorn \/ SaveRefused
    \/ \E c \in DOMAIN map.tiles : Paint(c)
    \/ ReviseItem

Spec == Init /\ [][Next]_vars

----------------------------------------------------------------------------
(* Properties. *)

(* The map as a reader draws it from its grounds and objects. *)
Redrawn(m, blockers) ==
    [m EXCEPT !.tiles = [c \in DOMAIN @ |-> Tile(@[c].ground, @[c].object, blockers)]]

(* What the format can carry: cells its coordinates reach, no more pairs   *)
(* than there are glyphs, the last shared one included, a spawn and mobs   *)
(* that lie in the map, mobs of a type it does not take for none, and      *)
(* portals that can be stood on.                                           *)
Legible(doc, blockers) ==
    LET m         == doc.map
        placed(s) == \A k \in DOMAIN s : InBounds(m, s[k].tile) /\ s[k].type # 0
    IN  /\ m.width <= CoordLimit /\ m.height <= CoordLimit /\ m.floors <= FloorLimit
        /\ Len(Pairs(m)) <= PoolSize + 1
        /\ doc.spawn # NoCell => InBounds(m, doc.spawn)
        /\ placed(doc.monsters) /\ placed(doc.spawners)
        /\ PortalsStand([doc EXCEPT !.map = Redrawn(m, blockers)])

Shows(parsed, doc, blockers) ==
    /\ parsed.ok
    /\ Redrawn(parsed.map, blockers) = Redrawn(doc.map, blockers)
    /\ AuthoredOf(parsed) = AuthoredOf(doc)

(* "A parse of the result reproduces the same walkable geometry"           *)
(* (map_io.hpp:72), and the spawn, mobs, nests and portals with it, for    *)
(* whatever the editor can be brought to save that the format can carry,   *)
(* under the items as they block when it is read.                          *)
ReopensAsSaved ==
    \A p \in Paths : written[p].ok /\ Legible(written[p], registry) =>
        LET parsed == Parse(disk[p], registry)
        IN  Shows(parsed, written[p], registry) /\ parsed.map = Redrawn(parsed.map, registry)

(* A title without a star means that the file holds what is on the canvas: *)
(* nothing painted, undone, grown or opened since is missing from it.      *)
CleanMeansStored ==
    ~dirty /\ ~astray /\ Legible(Doc, registry) => Shows(Parse(disk[path], registry), Doc, registry)

(* Choosing in the list replaces unsaved work only when the prompt stood   *)
(* at that very row and the cursor has not moved since                     *)
(* (map_browser.cpp:109, map_browser.hpp:35).                              *)
LossIsConfirmed ==
    [][dirty /\ OpenChosen => warned = path']_vars

(* Undo and redo never change a version, only which one is on the canvas;  *)
(* nothing is lost that KMaxUndo snapshots can keep.                       *)
History == INSTANCE EditHistory
    WITH Depth  <- KMaxUndo,
         line   <- undo \o <<map>> \o Reverse(redo),
         cursor <- Len(undo) + 1

KeepsHistory == History!Spec
=============================================================================

----------------------------- MODULE AtlasText -----------------------------
(***************************************************************************)
(* tilesets/atlas.txt, the file that ties ids to sprites, as its two       *)
(* readers see it: the editor (editor/atlas_meta.cpp), which finds and     *)
(* rewrites single lines, and the tileset (client/src/tileset.cpp), which  *)
(* takes in the whole file.  They agree on the format and not on which of  *)
(* two lines for one sprite counts: the editor takes the first, the        *)
(* tileset the last.                                                       *)
(*                                                                         *)
(* A line is a record of its kind, its number (an id, an appearance, a     *)
(* layer), the direction `mob' lines have, its art and whether all its     *)
(* fields are there.  Comments and kinds nobody knows are one kind.        *)
(***************************************************************************)
EXTENDS Integers, Sequences, FiniteSetsExt, SequencesExt

CONSTANTS
    IdSpan,                \* 65536: numbers are kept in 16 bits,
    EffectSpan,            \* 256: and effects in 8
    OutfitLayers,          \* 4
    MaxFrames              \* 8

Tibia == 4                 \* directions the imported art has, of the grid's
Full == 8

Comment == "#"
NoArt == <<>>

Line(kind, id, dir, art) == [kind |-> kind, id |-> id, dir |-> dir, art |-> art, whole |-> TRUE]

Bindable == {"ground", "object", "item"}
Single == {"highlight", "bag", "solid", "font"}
Strips == {"mobstrip", "playerstrip", "outfitstrip"}
Known == Bindable \cup Single \cup Strips \cup {"effect", "actor", "mob", "outfit"}

----------------------------------------------------------------------------
(* The editor: single lines. *)

Matches(line, kind, id) == line.kind = kind /\ line.id = id

(* Faulty: returns at the match, before the rest was copied. *)
UpsertCopying(text, line) ==
    LET mine == {k \in DOMAIN text : Matches(text[k], line.kind, line.id)}
    IN  IF mine = {} THEN Append(text, line) ELSE Append(SubSeq(text, 1, Min(mine) - 1), line)

(* The binding goes where the first line for it is, else to the end. *)
UpsertBinding(text, line) ==
    LET mine == {k \in DOMAIN text : Matches(text[k], line.kind, line.id)}
    IN  IF mine = {} THEN Append(text, line) ELSE [text EXCEPT ![Min(mine)] = line]

(* The first strip of an appearance, or none; one that is cut short is none. *)
FindMobStrip(text, appearance) ==
    LET mine == {k \in DOMAIN text : Matches(text[k], "mobstrip", appearance)}
    IN  IF mine # {} /\ text[Min(mine)].whole THEN text[Min(mine)].art ELSE NoArt

IsMobLine(line, appearance) == line.kind \in {"mob", "mobstrip"} /\ line.id = appearance

(* Faulty: the older one-direction lines are left in the file. *)
UpsertStripOnly(text, appearance, strip) ==
    UpsertBinding(text, Line("mobstrip", appearance, 0, strip))

(* Every strip line of the appearance becomes this one, and its older      *)
(* one-direction lines go. *)
UpsertMobStrip(text, appearance, strip) ==
    LET line  == Line("mobstrip", appearance, 0, strip)
        stays == SelectSeq(text, LAMBDA l : l.kind = "mobstrip" \/ ~IsMobLine(l, appearance))
        mine  == {k \in DOMAIN stays : IsMobLine(stays[k], appearance)}
    IN  IF mine = {} THEN Append(stays, line)
        ELSE [k \in DOMAIN stays |-> IF k \in mine THEN line ELSE stays[k]]

----------------------------------------------------------------------------
(* The tileset: the whole file. *)

SaneStrip(s) == s.w > 0 /\ s.h > 0 /\ s.frames \in 1..MaxFrames /\ s.dirs \in {Tibia, Full}

(* A known line whose numbers make no sense is passed over. *)
Bound(line) ==
    CASE line.kind = "mobstrip"    -> line.id > 0 /\ SaneStrip(line.art)
      [] line.kind = "playerstrip" -> SaneStrip(line.art)
      [] line.kind = "outfitstrip" -> line.id \in 0..OutfitLayers - 1 /\ SaneStrip(line.art)
      [] line.kind = "outfit"      -> line.id \in 0..OutfitLayers - 1
      [] line.kind = "actor"       -> line.id \in 0..Full - 1
      [] line.kind = "mob"         -> line.id > 0 /\ line.dir \in 0..Full - 1
      [] OTHER                     -> TRUE

(* What a line draws: numbers are cut to their width. *)
Slot(line) ==
    CASE line.kind \in Bindable           -> <<line.kind, line.id % IdSpan>>
      [] line.kind \in {"mob", "mobstrip"} -> <<"mob", line.id % IdSpan>>
      [] line.kind = "effect"             -> <<"effect", line.id % EffectSpan>>
      [] line.kind \in Single \cup {"playerstrip"} -> <<line.kind, 0>>
      [] OTHER                            -> <<line.kind, line.id>>

(* A strip starts an appearance over; a `mob' line replaces one direction  *)
(* of whatever there is. *)
MobArt(text, ks) ==
    LET strips == {k \in ks : text[k].kind = "mobstrip"}
        after  == {k \in ks : \A s \in strips : k > s}
        dirs   == {text[k].dir : k \in after}
    IN  [strip  |-> IF strips = {} THEN NoArt ELSE text[Max(strips)].art,
         single |-> [d \in dirs |-> text[Max({k \in after : text[k].dir = d})].art]]

(* The built-in art, which a file that does not parse, or binds nothing,   *)
(* is replaced by as a whole. *)
Procedural == [s \in {} |-> NoArt]

Loaded(text) ==
    LET known == {k \in DOMAIN text : text[k].kind \in Known}
        bound == {k \in known : Bound(text[k])}
        Of(s) == {k \in bound : Slot(text[k]) = s}
    IN  IF \E k \in known : ~text[k].whole THEN Procedural
        ELSE [s \in {Slot(text[k]) : k \in bound} |->
                 IF s[1] = "mob" THEN MobArt(text, Of(s)) ELSE text[Max(Of(s))].art]

(* anim::art_direction: two of the grid's directions to one of the art's.  *)
ArtDirection(facing, dirs) == IF dirs = Tibia THEN ((facing + 2) \div 2) % Tibia ELSE facing

(* A cell of a strip: they run right from the first, direction by direction. *)
CellX(strip, dir, frame) == strip.x + (dir * strip.frames + frame) * strip.w

(* Tileset::actor for a mob: its own art if there is any; a frame past the *)
(* end of the cycle is the first.  Single lines make a set of eight times  *)
(* one frame out of whatever the strip had bound.                          *)
ActorArt(table, appearance, facing, frame) ==
    LET slot  == <<"mob", appearance>>
        set   == table[slot]
        plain == [dirs |-> Full, frames |-> 1]
        shape == IF set.strip = NoArt \/ DOMAIN set.single # {} THEN plain ELSE set.strip
        dir   == ArtDirection(facing, shape.dirs)
        f     == IF frame < shape.frames THEN frame ELSE 0
        had   == set.strip # NoArt /\ dir < set.strip.dirs /\ f < set.strip.frames
    IN  IF slot \notin DOMAIN table THEN NoArt
        ELSE IF dir \in DOMAIN set.single THEN set.single[dir]
        ELSE IF had THEN [x |-> CellX(set.strip, dir, f), y |-> set.strip.y,
                          w |-> set.strip.w, h |-> set.strip.h,
                          ox |-> set.strip.ox, oy |-> set.strip.oy]
        ELSE NoArt
============================================================================

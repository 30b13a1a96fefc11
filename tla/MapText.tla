------------------------------ MODULE MapText ------------------------------
(***************************************************************************)
(* The text format of maps (sim/map_io.cpp): what parse_text_map accepts   *)
(* and builds, and what write_text_map makes of a map.                     *)
(*                                                                         *)
(* A line is a record: its keyword and what the keyword's fields convert   *)
(* to (args stops at the first field that is not a number), or the cells   *)
(* of a grid row.  A glyph is a number: Blank, the letters of the writer's *)
(* pool, and the two it writes beside them.  A directive met inside a grid *)
(* is a row of Letters, which no legend here binds.                        *)
(***************************************************************************)
EXTENDS Integers, SequencesExt

CONSTANTS
    PoolSize,     \* letters the writer hands out: 18
    ByteMax,      \* what a spawner's count and radius are clamped to: 255
    ShortMax      \* what its seconds are clamped to: 65535

ASSUME MapTextAssumption ==
    /\ PoolSize \in Nat
    /\ ByteMax \in Nat \ {0} /\ ShortMax \in Nat \ {0}

Blank    == 0
SpawnSign == -1
Overflow  == -2
Letters   == -3
NoGlyph   == -4
NoCell   == <<>>

(* static_cast to a signed integer with as many values below zero as half. *)
Signed(n, half) == ((n + half) % (2 * half)) - half

(* What an int16 and an int8 reach to. *)
CoordLimit == 32768
FloorLimit == 128

CellOf(x, y, z) == <<Signed(x, CoordLimit), Signed(y, CoordLimit), Signed(z, FloorLimit)>>

TileIds == 0..65535

TileIdOf(n) == n % 65536

----------------------------------------------------------------------------
(* TileMap, as far as authors and files are concerned. *)

VoidTile == [ground |-> 0, object |-> 0, blocking |-> FALSE]

Cells(w, h, f) == (0..(w - 1)) \X (0..(h - 1)) \X (0..(f - 1))

NewMap(w, h, f) ==
    [width |-> w, height |-> h, floors |-> f, tiles |-> [c \in Cells(w, h, f) |-> VoidTile]]

InBounds(map, c) == c \in DOMAIN map.tiles

IsWalkable(map, c) ==
    InBounds(map, c) /\ map.tiles[c].ground # 0 /\ ~map.tiles[c].blocking

(* set_ground and set_object, with blocking derived from the types that    *)
(* block, as every author of a tile does.                                  *)
Tile(ground, object, blockers) ==
    [ground |-> ground, object |-> object, blocking |-> {ground, object} \cap blockers # {}]

Set(map, c, tile) ==
    IF InBounds(map, c) THEN [map EXCEPT !.tiles[c] = tile] ELSE map

----------------------------------------------------------------------------
(* parse_text_map: line after line. *)

Started ==
    [ok |-> TRUE, sized |-> FALSE, map |-> NewMap(0, 0, 0), legend |-> <<>>, sign |-> NoGlyph,
     spawn |-> NoCell, monsters |-> <<>>, spawners |-> <<>>, portals |-> <<>>,
     rowsLeft |-> 0, floor |-> 0]

Refused(p) == [p EXCEPT !.ok = FALSE]

ReadSize(p, args) ==
    IF Len(args) < 3 \/ \E k \in 1..3 : args[k] <= 0 THEN Refused(p)
    ELSE [p EXCEPT !.map = NewMap(args[1], args[2], args[3]), !.sized = TRUE]

ReadLegend(p, glyph, args) ==
    IF glyph = NoGlyph \/ args = <<>> THEN Refused(p)
    ELSE LET object == IF Len(args) > 1 THEN args[2] ELSE 0
         IN  [p EXCEPT !.legend = [g \in DOMAIN @ \cup {glyph} |->
                 IF g = glyph THEN <<TileIdOf(args[1]), TileIdOf(object)>> ELSE @[g]]]

ReadSpawn(p, glyph) ==
    IF glyph = NoGlyph THEN Refused(p) ELSE [p EXCEPT !.sign = glyph]

(* Bounds are asked of the narrowed coordinates. *)
At(args) == CellOf(args[1], args[2], args[3])

ReadMonster(p, args) ==
    IF Len(args) < 4 \/ args[4] <= 0 \/ ~p.sized \/ ~InBounds(p.map, At(args)) THEN Refused(p)
    ELSE [p EXCEPT !.monsters = Append(@, [tile |-> At(args), type |-> TileIdOf(args[4])])]

Clamped(n, most) == IF n > most THEN most ELSE n

ReadSpawner(p, args) ==
    IF \/ Len(args) < 7 \/ args[4] <= 0 \/ args[5] <= 0 \/ args[6] < 0 \/ args[7] < 0
       \/ ~p.sized \/ ~InBounds(p.map, At(args))
    THEN Refused(p)
    ELSE [p EXCEPT !.spawners = Append(@,
            [tile |-> At(args), type |-> TileIdOf(args[4]), maxAlive |-> Clamped(args[5], ByteMax),
             radius |-> Clamped(args[6], ByteMax), seconds |-> Clamped(args[7], ShortMax)])]

ReadPortal(p, args) ==
    LET from == At(args)
        to   == CellOf(args[4], args[5], args[6])
    IN  IF \/ Len(args) < 6 \/ ~p.sized
           \/ ~InBounds(p.map, from) \/ ~InBounds(p.map, to) \/ from = to
        THEN Refused(p)
        ELSE [p EXCEPT !.portals = Append(@, [from |-> from, to |-> to])]

ReadFloor(p, args) ==
    IF args = <<>> \/ ~p.sized \/ args[1] \notin 0..(p.map.floors - 1) THEN Refused(p)
    ELSE [p EXCEPT !.floor = args[1], !.rowsLeft = p.map.height]

(* One row of the grid: what lies beyond its end is blank, and a blank     *)
(* leaves the cell as it is.                                               *)
DrawnIn(map, cells) == {x \in 0..(map.width - 1) : x < Len(cells) /\ cells[x + 1] # Blank}

LastOf(S) == CHOOSE x \in S : \A other \in S : other <= x

RowDrawn(p, y, cells, blockers) ==
    LET onto(c) == {x \in DrawnIn(p.map, cells) : CellOf(x, y, p.floor) = c}
        pair(c) == p.legend[cells[LastOf(onto(c)) + 1]]
    IN  [p.map EXCEPT !.tiles = [c \in DOMAIN @ |->
            IF onto(c) # {} THEN Tile(pair(c)[1], pair(c)[2], blockers) ELSE @[c]]]

ReadRow(p, cells, blockers) ==
    LET y     == p.map.height - p.rowsLeft
        drawn == DrawnIn(p.map, cells)
        signs == {x \in drawn : cells[x + 1] = p.sign}
    IN  IF \E x \in drawn : cells[x + 1] \notin DOMAIN p.legend THEN Refused(p)
        ELSE [p EXCEPT !.map = RowDrawn(p, y, cells, blockers),
                       !.spawn = IF signs = {} THEN @ ELSE CellOf(LastOf(signs), y, p.floor),
                       !.rowsLeft = @ - 1]

ReadLine(p, line, blockers) ==
    CASE ~p.ok                    -> p
      [] p.ok /\ p.rowsLeft > 0   -> ReadRow(p, line.cells, blockers)
      [] OTHER ->
           CASE line.word = "size"    -> ReadSize(p, line.args)
             [] line.word = "legend"  -> ReadLegend(p, line.glyph, line.args)
             [] line.word = "spawn"   -> ReadSpawn(p, line.glyph)
             [] line.word = "monster" -> ReadMonster(p, line.args)
             [] line.word = "spawner" -> ReadSpawner(p, line.args)
             [] line.word = "portal"  -> ReadPortal(p, line.args)
             [] line.word = "floor"   -> ReadFloor(p, line.args)
             [] line.word = "comment" -> p
             [] line.word = "row" /\ line.cells = <<>> -> p
             [] OTHER                 -> Refused(p)

Read(p, lines, blockers) ==
    LET after[k \in 0..Len(lines)] ==
            IF k = 0 THEN p ELSE ReadLine(after[k - 1], lines[k], blockers)
    IN  after[Len(lines)]

(* What is judged once every line has been read. *)
PortalsStand(p) ==
    \A k \in DOMAIN p.portals :
        IsWalkable(p.map, p.portals[k].from) /\ IsWalkable(p.map, p.portals[k].to)

Unreadable == [ok |-> FALSE]

Parse(lines, blockers) ==
    LET p == Read(Started, lines, blockers)
    IN  IF p.ok /\ p.sized /\ p.rowsLeft = 0 /\ PortalsStand(p)
        THEN [ok |-> TRUE, map |-> p.map, spawn |-> p.spawn, monsters |-> p.monsters,
              spawners |-> p.spawners, portals |-> p.portals]
        ELSE Unreadable

----------------------------------------------------------------------------
(* write_text_map. *)

PairOf(map, c) == <<map.tiles[c].ground, map.tiles[c].object>>

VoidPair == <<0, 0>>

(* Every cell, floor by floor and row by row. *)
Scan(map, k) ==
    <<(k - 1) % map.width,
      ((k - 1) \div map.width) % map.height,
      ((k - 1) \div map.width) \div map.height>>

Met(seen, pair) ==
    IF pair = VoidPair \/ Contains(seen, pair) THEN seen ELSE Append(seen, pair)

(* The distinct pairs, in the order they are first met. *)
Pairs(map) ==
    LET upTo[k \in 0..map.width * map.height * map.floors] ==
            IF k = 0 THEN <<>> ELSE Met(upTo[k - 1], PairOf(map, Scan(map, k)))
    IN  upTo[map.width * map.height * map.floors]

(* Faulty: the pool starts over. *)
SignWrapping(pairs, pair) ==
    LET k == CHOOSE k \in DOMAIN pairs : pairs[k] = pair
    IN  ((k - 1) % PoolSize) + 1

(* Past the pool everyone shares one glyph. *)
SignOf(pairs, pair) ==
    LET k == CHOOSE k \in DOMAIN pairs : pairs[k] = pair
    IN  IF k <= PoolSize THEN k ELSE Overflow

(* What the reader knows a line by; all it does not know is other. *)
Words == {"size", "legend", "spawn", "monster", "spawner", "portal", "floor",
          "comment", "row", "other"}

Lines == [word: Words, glyph: Int, args: Seq(Int), cells: Seq(Int)]

Line(word, glyph, args, cells) == [word |-> word, glyph |-> glyph, args |-> args, cells |-> cells]

Directive(word, args) == Line(word, NoGlyph, args, <<Letters>>)

LegendLine(glyph, pair) ==
    Line("legend", glyph, IF pair[2] = 0 THEN <<pair[1]>> ELSE pair, <<Letters>>)

Row(cells) == Line("row", NoGlyph, <<>>, cells)

HasSpawn(doc) == doc.spawn # NoCell /\ InBounds(doc.map, doc.spawn)

(* Trailing blanks go. *)
Trimmed(cells) ==
    SubSeq(cells, 1, LastOf({0} \cup {k \in DOMAIN cells : cells[k] # Blank}))

SignAt(doc, pairs, c) ==
    IF HasSpawn(doc) /\ c = doc.spawn THEN SpawnSign
    ELSE IF PairOf(doc.map, c) = VoidPair THEN Blank
    ELSE SignOf(pairs, PairOf(doc.map, c))

RowOf(doc, pairs, y, z) ==
    Row(Trimmed([x \in 1..doc.map.width |-> SignAt(doc, pairs, <<x - 1, y, z>>)]))

(* Floor by floor: a line that names it, then its rows. *)
FloorLines(doc, pairs) ==
    LET block == doc.map.height + 1
    IN  [k \in 1..(doc.map.floors * block) |->
            LET z == (k - 1) \div block
                y == (k - 1) % block
            IN  IF y = 0 THEN Directive("floor", <<z>>) ELSE RowOf(doc, pairs, y - 1, z)]

SpawnLines(doc) ==
    IF HasSpawn(doc)
    THEN << LegendLine(SpawnSign, PairOf(doc.map, doc.spawn)),
            Line("spawn", SpawnSign, <<>>, <<Letters>>) >>
    ELSE <<>>

LegendLines(pairs) == [k \in DOMAIN pairs |-> LegendLine(SignOf(pairs, pairs[k]), pairs[k])]

MonsterLine(m) == Directive("monster", <<m.tile[1], m.tile[2], m.tile[3], m.type>>)

SpawnerLine(s) ==
    Directive("spawner", <<s.tile[1], s.tile[2], s.tile[3], s.type,
                           s.maxAlive, s.radius, s.seconds>>)

PortalLine(p) ==
    Directive("portal", <<p.from[1], p.from[2], p.from[3], p.to[1], p.to[2], p.to[3]>>)

MonsterLines(ms) == [k \in DOMAIN ms |-> MonsterLine(ms[k])]
SpawnerLines(ns) == [k \in DOMAIN ns |-> SpawnerLine(ns[k])]
PortalLines(ps)  == [k \in DOMAIN ps |-> PortalLine(ps[k])]

Write(doc) ==
    LET map   == doc.map
        pairs == Pairs(map)
    IN  <<Directive("comment", <<>>), Directive("size", <<map.width, map.height, map.floors>>)>>
        \o LegendLines(pairs)
        \o SpawnLines(doc)
        \o MonsterLines(doc.monsters)
        \o SpawnerLines(doc.spawners)
        \o PortalLines(doc.portals)
        \o FloorLines(doc, pairs)
=============================================================================

---------------------------- MODULE MCAuthoring ----------------------------
(* A small catalogue, a floor and a sword, with room for a few more ids in *)
(* each band, and a small atlas written by hand, with an item bound  *)
(* twice and a mob drawn direction by direction.                           *)
EXTENDS Authoring

SmallBands ==
    [c \in {"ground", "object", "equipment"} |->
        CASE c = "ground" -> [first |-> 1, last |-> 2]
          [] c = "object" -> [first |-> 3, last |-> 5]
          [] c = "equipment" -> [first |-> 6, last |-> 8]]

SmallNumbers == [f \in {"MaxStack", "Attack", "AttackRange"} |->
                    CASE f = "MaxStack" -> [low |-> 0, high |-> 2]
                      [] f = "Attack" -> [low |-> -2, high |-> 1]
                      [] f = "AttackRange" -> [low |-> 0, high |-> 3]]

BuiltInItems == [id \in {1, 6} |-> IF id = 1 THEN Item(1, 1, {"Ground"}, FALSE)
                                   ELSE Item(6, 1, {"Pickable"}, TRUE)]

SomeDbs == {Fresh, [version |-> 1, items |-> BuiltInItems, retired |-> {4}]}

OneItemDb == {[version |-> 1, items |-> [id \in {1} |-> BuiltInItems[1]], retired |-> {4}]}

SomeBlobs == {NoBlob}

NoAtlas == {<<>>}

ItemFields == <<"Name", "MaxStack", "AttackKind", "AttackRange">>

SpriteFields == <<"SpriteKind", "Sprite">>

NoMobs == <<>>

Mobs == <<1, 2>>

StripFields == <<"Sprite", "Tilt">>

Still(x) == [x |-> x, y |-> 0, w |-> 32, h |-> 32, ox |-> 0, oy |-> 0]

(* The floor has two lines, and the icon numbered one past the last id is  *)
(* the floor's again; the first mob has its older art, the second a strip. *)
HandWritten ==
    << Line(Comment, 0, 0, NoArt),
       Line("ground", 1, 0, <<"ground", 7>>), Line("ground", 1, 0, <<"ground", 8>>),
       Line("item", 17, 0, <<"item", 7>>),
       Line("mob", 1, 0, Still(32)),
       Line("mobstrip", 2, 0, PlainStrip), Line("mob", 2, 5, Still(32)) >>

SomeAtlases == {HandWritten}
=============================================================================

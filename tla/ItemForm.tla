------------------------------ MODULE ItemForm ------------------------------
(***************************************************************************)
(* The item mode's form (editor/item_mode.cpp), as a value: the rows as    *)
(* last read, which one is selected, the draft of it, the field in focus   *)
(* and what the keyboard is captured by.  Its operations return the form   *)
(* as the code leaves it.                                                  *)
(***************************************************************************)
EXTENDS Integers, Sequences, FiniteSetsExt

CONSTANTS
    Fields,                \* the fields of the form, in order
    Numbers,               \* [number field -> [low, high]] its type can hold
    SlotCount,             \* equipment slots, the weapon's first: 8
    RangedReach            \* what a bow's range starts from: 4

Flags == {"BlocksWalk", "BlocksSight", "Ground", "Pickable", "Stackable",
          "Container", "StairsUp", "StairsDown"}

ASSUME ItemFormAssumption ==
    /\ {Fields[k] : k \in DOMAIN Fields}
           \subseteq Flags \cup DOMAIN Numbers \cup
                     {"Name", "Equippable", "Slot", "AttackKind", "SpriteKind", "Sprite"}
    /\ \A f \in DOMAIN Numbers : Numbers[f].low <= Numbers[f].high
    /\ SlotCount \in Nat \ {0}

WeaponSlot == 0

(* At least one may be carried, and at least one tile reached. *)
Least(field) == IF field \in {"MaxStack", "AttackRange"} THEN 1 ELSE Numbers[field].low

(* A name is its length: only an empty one is told from others. *)
Item(id, name, flags, equippable) ==
    [id |-> id, name |-> name, flags |-> flags, equippable |-> equippable, slot |-> WeaponSlot,
     ranged |-> FALSE,
     number |-> [f \in DOMAIN Numbers |-> IF f \in {"MaxStack", "AttackRange"} THEN 1 ELSE 0]]

IsWeapon(row) == row.equippable /\ row.slot = WeaponSlot

Applicable(row, field) ==
    /\ field = "Slot" => row.equippable
    /\ field \in {"Attack", "AttackKind", "AttackRange"} => IsWeapon(row)
    /\ field = "AttackRange" => row.ranged

Focused(form) == Fields[form.focus]

(* The next field that applies, round the end; none other: stay. *)
MoveFocus(form, delta) ==
    LET At(n) == ((form.focus - 1 + delta * n) % Len(Fields)) + 1
        hits  == {n \in 1..Len(Fields) : Applicable(form.draft, Fields[At(n)])}
    IN  IF hits = {} THEN form ELSE [form EXCEPT !.focus = At(Min(hits))]

(* derived_sprite_kind *)
SpriteKinds == <<"ground", "object", "item">>

SpriteKind(form) ==
    IF form.kind # "" THEN form.kind
    ELSE IF "Ground" \in form.draft.flags THEN "ground"
    ELSE IF form.draft.equippable THEN "item" ELSE "object"

NextKind(form, delta) ==
    LET here == CHOOSE k \in 1..3 : SpriteKinds[k] = SpriteKind(form)
    IN  SpriteKinds[((here - 1 + delta) % 3) + 1]

Clamp(value, low, high) == IF value < low THEN low ELSE IF value > high THEN high ELSE value

(* A change of the field in focus, made whether or not it applies. *)
Turned(row, field, delta, step) ==
    CASE field \in Flags ->
           [row EXCEPT !.flags = IF field \in @ THEN @ \ {field} ELSE @ \cup {field}]
      [] field = "Equippable" -> [row EXCEPT !.equippable = ~@]
      [] field = "Slot" -> [row EXCEPT !.slot = (@ + delta) % SlotCount]
      [] field = "AttackKind" ->
           [row EXCEPT !.ranged = ~@,
                       !.number["AttackRange"] =
                           IF ~row.ranged /\ @ <= 1 THEN RangedReach ELSE @]
      [] OTHER ->
           [row EXCEPT !.number[field] = Clamp(@ + step, Least(field), Numbers[field].high)]

Adjust(form, delta, coarse) ==
    LET field == Focused(form)
        draft == Turned(form.draft, field, delta, IF coarse THEN 10 * delta ELSE delta)
        edited == [form EXCEPT !.draft = draft, !.dirty = TRUE]
    IN  CASE field = "Name"       -> form
          [] field = "SpriteKind" -> [form EXCEPT !.kind = NextKind(form, delta)]
          [] field = "Sprite"     -> [form EXCEPT !.picking = TRUE]
          [] OTHER -> IF Applicable(draft, field) THEN edited ELSE MoveFocus(edited, 1)

(* A digit is appended, or starts the number over when it grew too large;  *)
(* what is appended to a negative number is cut to the type's width.       *)
Narrowed(value, range) == ((value - range.low) % (range.high - range.low + 1)) + range.low

Appended(field, value, digit) ==
    LET grown == value * 10 + digit
        kept  == IF grown > Numbers[field].high THEN digit ELSE grown
    IN  Narrowed(IF field \in {"MaxStack", "AttackRange"} /\ kept < 1 THEN 1 ELSE kept, Numbers[field])

TypeDigit(form, digit) ==
    LET field == Focused(form)
    IN  IF field \notin DOMAIN Numbers THEN form
        ELSE [form EXCEPT !.draft.number[field] = Appended(field, @, digit), !.dirty = TRUE]

----------------------------------------------------------------------------
(* Selection.  With no rows the draft is blank and cannot be saved. *)

Blank == Item(0, 0, {}, FALSE)

Drafted(rows, k) == IF rows = <<>> THEN Blank ELSE rows[k]

(* reload, when the rows could be read *)
Reloaded(form, rows) ==
    LET k == IF form.selected <= Len(rows) THEN form.selected ELSE IF rows = <<>> THEN 1 ELSE Len(rows)
    IN  [form EXCEPT !.rows = rows, !.selected = k, !.draft = Drafted(rows, k), !.dirty = FALSE]

Select(form, k) ==
    LET at == IF k <= Len(form.rows) THEN k ELSE Len(form.rows)
    IN  IF form.rows = <<>> THEN form
        ELSE [form EXCEPT !.selected = at, !.draft = form.rows[at], !.dirty = FALSE,
                          !.naming = FALSE, !.kind = ""]

(* The row with an id, where there is one. *)
SelectId(form, id) ==
    LET at == {k \in DOMAIN form.rows : form.rows[k].id = id}
    IN  IF at = {} THEN form ELSE Select(form, Min(at))

(* ItemMode's constructor *)
NewForm(rows) ==
    [rows |-> rows, selected |-> 1, draft |-> Drafted(rows, 1), focus |-> 1, dirty |-> FALSE,
     naming |-> FALSE, picking |-> FALSE, kind |-> ""]
=============================================================================

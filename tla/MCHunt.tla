-------------------------------- MODULE MCHunt --------------------------------
(* A corridor of three tiles, two monsters that may fall on one tile, a      *)
(* fighter and a healer, and stacks that wrap at three.                       *)
EXTENDS Hunt

Corridor == 1..3

ClassNames == <<"knight", "druid">>

Slotted == [i \in {1, 2} |-> IF i = 2 THEN "none" ELSE "weapon"]

Kits == [v \in {"knight", "druid"} |-> IF v = "knight" THEN <<1>> ELSE <<1, 2>>]

Healths == [v \in {"knight", "druid"} |-> 2]

Manas == [v \in {"knight", "druid"} |-> 2]

Spells ==
    [v \in {"knight", "druid"} |->
        IF v = "knight"
        THEN [kind |-> "Damage", cost |-> 2, cooldown |-> 1, range |-> 1, power |-> 2]
        ELSE [kind |-> "Heal", cost |-> 2, cooldown |-> 1, range |-> 0, power |-> 1]]

Drops == <<[item |-> 1, most |-> 1, sure |-> TRUE], [item |-> 2, most |-> 1, sure |-> FALSE]>>
=============================================================================

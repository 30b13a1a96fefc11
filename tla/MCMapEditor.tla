---------------------------- MODULE MCMapEditor ----------------------------
(* A directory of two maps: a strip of two tiles with a warp, a mob and a  *)
(* nest on it, written by hand, and one that does not parse.               *)
EXTENDS MapEditor

TwoPaths == {"strip", "wreck"}

(* Types: 1 is floor, 2 water, 3 a crate. *)
StripText ==
    << Directive("comment", <<>>), Directive("size", <<2, 1, 1>>),
       Line("legend", 5, <<1>>, <<Letters>>), Line("legend", 6, <<1, 65539>>, <<Letters>>),
       Line("spawn", 6, <<>>, <<Letters>>),
       Directive("monster", <<65536, 0, 0, 7>>), Directive("spawner", <<1, 0, 0, 7, 300, 2, 70000>>),
       Directive("portal", <<0, 0, 0, 1, 0, 256>>), Row(<<>>),
       Directive("floor", <<0>>), Row(<<5, 6, 9>>) >>

WreckText == << Directive("size", <<2, 1, 1>>), Directive("floor", <<0>>), Row(<<5>>) >>

TwoFiles == [p \in TwoPaths |-> IF p = "strip" THEN StripText ELSE WreckText]

SomeBrushes == {[kind |-> "ground", id |-> 2]}
=============================================================================

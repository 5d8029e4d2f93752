-------------------------------- MODULE MCDwm --------------------------------
(* Instances of Dwm for TLC. *)
EXTENDS Dwm, TLC

CONSTANTS w1, w2, w3, t1, t2

OneWin == {w1}
SecondWin == {w2}
TwoWins == {w1, w2}
ThreeWins == {w1, w2, w3}
OneTag == {t1}
TwoTags == {t1, t2}
NoTransient == [w \in Win |-> NULL]
W2ForW1 == [w \in Win |-> IF w = w2 THEN w1 ELSE NULL]
AllMasks == SUBSET Tag
Tiling == {TRUE}
AnyLayout == BOOLEAN
None == {}

\* w2 and w3 are interchangeable where only w1 has features of its own.
Symmetry == Permutations({w2, w3})
=============================================================================

--------------------------- MODULE MCCheckHistory ----------------------------
(* Threads of the history's run. *)
EXTENDS CheckHistory, TLC

CONSTANTS c1, c2

TwoCheckers == {c1, c2}
CheckerSymmetry == Permutations(TwoCheckers)
=============================================================================

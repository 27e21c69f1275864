--------------------------- MODULE MCFabricWallet ---------------------------
(* Instances of FabricWallet for TLC.                                      *)
EXTENDS FabricWallet, TLC

CONSTANTS w1, w2, t1, t2, t3

BetweenTwo == {<<w1, w2>>, <<w2, w1>>}
ToItself == BetweenTwo \cup {<<w1, w1>>}
Symmetry == Permutations({t1, t2, t3})
=============================================================================

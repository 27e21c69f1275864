--------------------------- MODULE MCStakingPool ---------------------------
(* Instances of StakingPool for TLC.                                       *)
EXTENDS StakingPool, TLC
CONSTANTS a1, a2
Symmetry == Permutations({a1, a2})
=============================================================================

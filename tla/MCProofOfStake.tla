--------------------------- MODULE MCProofOfStake ---------------------------
(* Instances of Chain, and so of ProofOfStake, for TLC.                    *)
EXTENDS Chain, TLC
CONSTANTS v1, v2, g1, g2
Symmetry == Permutations({v1, v2}) \cup Permutations({g1, g2})
=============================================================================

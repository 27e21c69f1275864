------------------------------- MODULE MCNode -------------------------------
(* Model checking of Node.                                                     *)
EXTENDS Node, TLC

Symmetry == Permutations(User) \cup Permutations(Session) \cup Permutations(Request)
=============================================================================

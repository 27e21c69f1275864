------------------------------ MODULE MCStore -------------------------------
(* Model checking of Store: "a", "./a" with the same file, "../x" outside the  *)
(* data directory, and the empty key.  Values are interchangeable.             *)
EXTENDS Store, TLC

CONSTANTS a, dotA, up, empty

MCKey == {a, dotA, up, empty}
MCPlain == {a, empty}
MCFile == {"a.dat", "../x.dat", ".dat"}
MCfilePath ==
  [k \in MCKey |-> CASE k = up -> "../x.dat" [] k = empty -> ".dat" [] OTHER -> "a.dat"]

Symmetry == Permutations(Value)
=============================================================================

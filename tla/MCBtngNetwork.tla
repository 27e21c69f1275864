--------------------------- MODULE MCBtngNetwork ---------------------------
(* Instances of BtngNetwork for TLC.                                       *)
EXTENDS BtngNetwork, TLC

CONSTANTS A, B, c1

MCNodes == {A, B}

\* One connection, from A to B.
OneConn == {c1}
OneFrom == c1 :> A
OneTo == c1 :> B

\* How often each node may be started.
NoneTwo == A :> 0 @@ B :> 2
NoneOnce == A :> 0 @@ B :> 1
OnceOnce == A :> 1 @@ B :> 1
=============================================================================

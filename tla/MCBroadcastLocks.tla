-------------------------- MODULE MCBroadcastLocks --------------------------
(* Instances of BroadcastLocks for TLC.                                    *)
EXTENDS BroadcastLocks
CONSTANTS A, B, C
=============================================================================

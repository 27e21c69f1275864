--------------------------- MODULE MCWalletLocks ---------------------------
(* Instances of WalletLocks for TLC.                                       *)
EXTENDS WalletLocks
CONSTANTS t1, t2, core, other
=============================================================================

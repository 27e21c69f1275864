----------------------------- MODULE MCServices -----------------------------
(* Model checking of Services.                                                 *)
EXTENDS Services
=============================================================================

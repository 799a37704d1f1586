----------------------------- MODULE MCRecovery -----------------------------
(* Two names share a cache of one or two entries.  No symmetry: it is not  *)
(* sound with the liveness property.                                       *)
EXTENDS Recovery
=============================================================================

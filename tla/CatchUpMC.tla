----------------------------- MODULE CatchUpMC -----------------------------
(* Model-checking instances of CatchUp. *)
EXTENDS CatchUp
=============================================================================

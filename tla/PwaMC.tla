------------------------------- MODULE PwaMC --------------------------------
(* Model-checking instances of Pwa. *)
EXTENDS Pwa
=============================================================================

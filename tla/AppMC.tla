------------------------------- MODULE AppMC --------------------------------
(* Model-checking instances of App. *)
EXTENDS App
=============================================================================

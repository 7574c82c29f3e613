----------------------------- MODULE DialogsMC ------------------------------
(* Model-checking instances of Dialogs. *)
EXTENDS Dialogs

AllDialogs == DialogTable
=============================================================================

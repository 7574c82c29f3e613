----------------------------- MODULE ListPageMC -----------------------------
(* Model-checking instances of ListPage. *)
EXTENDS ListPage

AllPages == DOMAIN Views
=============================================================================

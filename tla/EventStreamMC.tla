--------------------------- MODULE EventStreamMC ---------------------------
(* Model-checking instance of EventStream. *)
EXTENDS EventStream
=============================================================================

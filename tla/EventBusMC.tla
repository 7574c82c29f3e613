----------------------------- MODULE EventBusMC -----------------------------
(* Model-checking instance of EventBus. *)
EXTENDS EventBus, TLC

ProducerSymmetry == Permutations(Producers)
=============================================================================

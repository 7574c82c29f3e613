--------------------------- MODULE VMLifecycleMC ---------------------------
(* Model-checking instances of VMLifecycle. *)
EXTENDS VMLifecycle, TLC

VMSymmetry ==
  Permutations(IDs) \cup Permutations(Names) \cup Permutations(Addrs) \cup Permutations(Requests)
=============================================================================

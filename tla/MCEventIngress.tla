--------------------------- MODULE MCEventIngress ---------------------------
(* Model checking of EventIngress: two workers, two events, symmetry sets.  *)
EXTENDS EventIngress, TLC

Symmetry ==
  Permutations(Consumers) \cup Permutations(Events)
    \cup Permutations(Contents) \cup Permutations(Configs)
    \cup Permutations(RunIds)
=============================================================================

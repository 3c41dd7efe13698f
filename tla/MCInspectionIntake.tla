------------------------- MODULE MCInspectionIntake -------------------------
(* Model checking of InspectionIntake: symmetry of callers and identifiers.  *)
EXTENDS InspectionIntake, TLC

Symmetry ==
  Permutations(Callers) \cup Permutations(Batches) \cup Permutations(Products)
    \cup Permutations(Inspections) \cup Permutations(Images)
    \cup Permutations(Results)
=============================================================================

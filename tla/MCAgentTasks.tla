---------------------------- MODULE MCAgentTasks ----------------------------
(* Model checking of AgentTasks: symmetry of the identifiers.               *)
EXTENDS AgentTasks, TLC

Symmetry ==
  Permutations(Workers) \cup Permutations(Tasks) \cup Permutations(Tokens)
    \cup Permutations(Requests)
=============================================================================

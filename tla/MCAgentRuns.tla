---------------------------- MODULE MCAgentRuns -----------------------------
(* Model checking of AgentRuns: symmetry and the moves that callers ask for. *)
EXTENDS AgentRuns, TLC

Symmetry ==
  Permutations(Callers) \cup Permutations(Runs) \cup Permutations(Events)
    \cup Permutations(Replays) \cup Permutations(Incidents)
    \cup Permutations(Requests) \cup Permutations(Payloads)

\* One lifecycle with a cycle, its terminal exits and an illegal edge.
LifecycleMoves ==
  {<<"PENDING", 0, "RUNNING">>, <<"PENDING", 0, "CANCELLED">>,
   <<"PENDING", 0, "SUCCEEDED">>, <<"RUNNING", 1, "SUSPENDED">>,
   <<"RUNNING", 1, "FAILED">>, <<"SUSPENDED", 2, "RUNNING">>}
=============================================================================

CONSTANTS
  Callers = {c1, c2}
  Runs = {u1}
  Events = {e1}
  Replays = {}
  Incidents = {i1}
  Requests = {q1, q2, q3}
  Payloads = {p1, p2}
  Moves <- LifecycleMoves
  None = None
SPECIFICATION Spec
SYMMETRY Symmetry
INVARIANTS
  TypeOK
  HistoryChain
  StartFacts
  OutcomesTrue
  RacesExplained
PROPERTIES
  RunsEvolve

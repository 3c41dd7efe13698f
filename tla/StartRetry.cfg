CONSTANTS
  Callers = {c1, c2}
  Runs = {u1}
  Events = {e1}
  Replays = {}
  Incidents = {i1}
  Requests = {q1, q2}
  Payloads = {p1}
  Moves <- LifecycleMoves
  None = None
SPECIFICATION Spec
INVARIANTS
  StartRecognised

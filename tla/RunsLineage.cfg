CONSTANTS
  Callers = {c1, c2}
  Runs = {u1, u2, u3}
  Events = {e1, e2}
  Replays = {y1, y2}
  Incidents = {i1, i2}
  Requests = {}
  Payloads = {}
  Moves = {}
  None = None
SPECIFICATION Spec
SYMMETRY Symmetry
INVARIANTS
  OutcomesTrue
  LineageSound
PROPERTIES
  LedgerSpec

CONSTANTS
  Workers = {w1}
  Tasks = {t1}
  Tokens = {k1, k2, k3}
  Requests = {r1}
  MaxAttempts = 2
  TTL = 1
  Patience = 1
  MaxFaults = 0
  Lifecycle = TRUE
  None = None
SPECIFICATION Spec
SYMMETRY Symmetry
INVARIANTS
  StartedLeaseKept
PROPERTIES
  RowsEvolve

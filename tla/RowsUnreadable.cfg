CONSTANTS
  Workers = {w1, w2}
  Tasks = {t1}
  Tokens = {k1, k2, k3}
  Requests = {r1, r2}
  MaxAttempts = 1
  TTL = 2
  Patience = 1
  MaxFaults = 1
  Lifecycle = FALSE
  None = None
SPECIFICATION Spec
SYMMETRY Symmetry
INVARIANTS
  RowsReadable

CONSTANTS
  Consumers = {w1, w2}
  Events = {e1, e2}
  Contents = {k1}
  Configs = {g1}
  RunIds = {r1, r2, r3}
  Poison = Poison
  None = None
  MaxLog = 3
  MaxFaults = 2
  SeekFaults = TRUE
SPECIFICATION Spec
SYMMETRY Symmetry
CHECK_DEADLOCK FALSE
INVARIANTS
  OneRunPerEvent
  EvidenceConsistent

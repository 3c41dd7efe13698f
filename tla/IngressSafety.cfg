CONSTANTS
  Consumers = {w1, w2}
  Events = {e1}
  Contents = {k1, k2}
  Configs = {g1, g2}
  RunIds = {r1, r2}
  Poison = Poison
  None = None
  MaxLog = 3
  MaxFaults = 3
  SeekFaults = FALSE
SPECIFICATION Spec
SYMMETRY Symmetry
CHECK_DEADLOCK FALSE
INVARIANTS
  IngressInv
  CommittedHandled
  OneRunPerEvent
  EvidenceConsistent
  RunsOnlyForTrusted
  NoIntegrityExit
PROPERTIES
  FactsFrozen
  TrustSpec

CONSTANTS
  Consumers = {w1, w2}
  Events = {e1}
  Contents = {k1, k2}
  Configs = {g1}
  RunIds = {r1}
  Poison = Poison
  None = None
  MaxLog = 2
  MaxFaults = 2
  SeekFaults = FALSE
SPECIFICATION FairSpec
CHECK_DEADLOCK FALSE
PROPERTIES
  EventuallyHandled

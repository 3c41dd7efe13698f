CONSTANTS
  Publishers = {p1, p2}
  Events = {1, 2, 3}
  Unroutable = {1}
  BatchSize = 2
  MaxFaults = 2
SPECIFICATION FairSpec
INVARIANTS
  PublisherInv
  PublishedIsDelivered
  DuplicatesExplained
PROPERTIES
  UnrelatedPublished

CONSTANTS
  Callers = {c1, c2, c3}
  Batches = {b1}
  Products = {p1}
  Inspections = {i1}
  Images = {m1, m2}
  Results = {r1, r2}
  None = None
SPECIFICATION Spec
SYMMETRY Symmetry
INVARIANTS
  TypeOK
  EvidenceChain
  AnswersTrue
  DeadlocksExplained
PROPERTY LedgerSpec

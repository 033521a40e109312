CONSTANTS
  r1 = r1
  r2 = r2
  r3 = r3
  Nil = Nil
  Overflow = "other"
  Unspecified = "unspecified"
  Prefix = {"json matcher", "contract matcher"}
  MaxFailureClasses = 1
  Seconds = {1, 2, 3}
  Request <- MCRequest
  Bounds <- MCBounds
  Input <- MCInput
SPECIFICATION Spec
SYMMETRY Symmetry
INVARIANTS
  TypeOK
  CountersMatchResponses
  FailuresAccounted
  ClassesBounded
  ScrapeIsSnapshot
PROPERTIES
  CountersOnlyGrow
CHECK_DEADLOCK FALSE

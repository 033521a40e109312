CONSTANTS
  r1 = r1
  r2 = r2
  r3 = r3
  Nil = Nil
  Overflow = "other"
  Unspecified = "unspecified"
  Prefix = {"json matcher", "contract matcher"}
  MaxFailureClasses = 1
  Seconds = {1, 3}
  Request <- MCTwoRequests
  Bounds <- MCBounds
  Input <- MCInput
SPECIFICATION FairSpec
PROPERTIES
  Served
CHECK_DEADLOCK FALSE

CONSTANTS
  r1 = r1
  r2 = r2
  c1 = c1
  c2 = c2
  c3 = c3
  u1 = u1
  u2 = u2
  p = p
  q = q
  Nil = Nil
  Request <- MCRequest
  Contract <- MCContract
  Unkeyed <- MCUnkeyed
  Resource <- MCResource
  Offers <- MCOffers
  Declared <- MCDeclared
  TTL = 2
  SweepThreshold = 2
  MaxLag = 1
  MaxTime = 5
SPECIFICATION Spec
SYMMETRY Symmetry
INVARIANTS
  TypeOK
  OwnResources
  Ages
PROPERTIES
  KeepsLive
  SweepBounds
  RollbackBounded
  LookupSpec

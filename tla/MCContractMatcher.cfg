CONSTANTS
  r1 = r1
  r2 = r2
  a = a
  b = b
  u = u
  ofX = ofX
  ofY = ofY
  ofZ = ofZ
  bad = bad
  x = x
  y = y
  z = z
  p = p
  q = q
  Nil = Nil
  Request <- MCRequest
  Contract <- MCContract
  Unkeyed <- MCUnkeyed
  Listing <- MCListing
  Policy <- MCPolicy
  SignedAt <- MCSignedAt
  Resource <- MCResource
  Offers <- MCOffers
  Declared <- MCDeclared
  Item <- MCItem
  Malformed <- MCMalformed
  URI <- MCURI
  Query <- MCQuery
  TTL = 1
  SweepThreshold = 1
  MaxLag = 1
  MaxTime = 3
SPECIFICATION MatcherSpec
SYMMETRY Symmetry
INVARIANTS
  MatcherTypeOK
  GovernedByGrant
  OneResourcePerContract
  ClaimsCurrent
  AnsweredCompletely
PROPERTIES
  UsesCache

CONSTANTS
  r1 = r1
  r2 = r2
  a = a
  b = b
  u = u
  ofX = ofX
  ofY = ofY
  ofZ = ofZ
  bad = bad
  x = x
  y = y
  z = z
  p = p
  q = q
  Nil = Nil
  Request <- MCRequest
  Contract <- MCContract
  Unkeyed <- MCUnkeyed
  Listing <- MCListing
  Policy <- MCPolicy
  SignedAt <- MCSignedAt
  Resource <- MCResource
  Offers <- MCOffers
  Declared <- MCDeclared
  Item <- MCItem
  Malformed <- MCMalformed
  URI <- MCURI
  Query <- MCLiveQuery
  TTL = 1
  SweepThreshold = 1
  MaxLag = 1
  MaxTime = 1
SPECIFICATION FairMatcherSpec
PROPERTIES
  Responds

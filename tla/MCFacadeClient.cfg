CONSTANTS
  Nil = Nil
  MaxRequests = 3
  URL <- MCURL
  Path <- MCPath
  PathOf <- MCPathOf
  Join <- MCJoin
  Catalogs <- MCCatalogs
  Offering <- MCOffering
SPECIFICATION Spec
INVARIANTS
  TypeOK
  AnswerGrounded
  StablePIIFound

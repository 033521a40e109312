CONSTANTS
  s1 = s1
  s2 = s2
  p1 = p1
  p2 = p2
  Unset = Unset
  Service <- MCService
  Path <- MCPath
  OwnerInPath <- MCOwnerInPath
  Scheme <- MCScheme
  Config <- MCConfig
  Body <- MCBody
SPECIFICATION Spec
PROPERTIES
  ResolutionSpec
INVARIANTS
  TypeOK
  GateFollowsConfig
  NoClaimsOnlyForNoItems
  BodyHarmsOnlyReaders
\* A rejected configuration ends the process.
CHECK_DEADLOCK FALSE

CONSTANTS
  s1 = s1
  s2 = s2
  p1 = p1
  p2 = p2
  Unset = Unset
  Service <- MCService
  Path <- MCPath
  OwnerInPath <- MCOwnerInPath
  Scheme <- MCScheme
  Config <- MCConfig
  Body <- MCBody
SPECIFICATION Spec
INVARIANT NoClaimsWithoutConsent
CHECK_DEADLOCK FALSE

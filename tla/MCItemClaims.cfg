CONSTANTS
  NotFound = NotFound
  None = None
  Matchers <- MCMatchers
  Char <- MCChar
  Value <- MCValue
  Bodies <- MCBodies
SPECIFICATION Spec
INVARIANTS
  SelectorPointsBack
  EveryItemClaimed
  KeysAddressable

SPECIFICATION Spec
CONSTANTS
  NULL = NULL
  hash <- Hashes
  Key <- Keys
  Value = {v1, v2}
  MaxBlocks = 40
INVARIANTS
  TypeOK
  WellPlaced
  NoDuplicates
  CountIsExact
  NeverCrowded
PROPERTIES
  ImplementsMap
CHECK_DEADLOCK FALSE

SPECIFICATION Spec
CONSTANTS
  NULL = NULL
  hash <- Hashes
  Key <- Keys
  Value = {v1, v2}
  MaxBlocks = 40
INVARIANTS
  FreesEverything
CHECK_DEADLOCK FALSE

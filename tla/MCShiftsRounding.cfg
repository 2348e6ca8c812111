SPECIFICATION Spec
CONSTANTS
  XLEN = 8
  WLEN = 4
  MANTISSA = 6
INVARIANTS
  RightShiftIsLogical

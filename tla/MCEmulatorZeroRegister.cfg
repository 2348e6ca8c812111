SPECIFICATION Spec
CONSTANTS
  XLEN = 64
  WLEN = 32
  MANTISSA = 53
  MEMORY_SIZE = 4
  Images <- AllImages
PROPERTIES
  ZeroRegisterDiscards

SPECIFICATION ToolchainSpec
CONSTANTS
  XLEN = 64
  WLEN = 32
  MANTISSA = 53
  MEMORY_SIZE = 16
  Sources <- NarrowOffset
  Images = {}
PROPERTIES
  ImplementsA64

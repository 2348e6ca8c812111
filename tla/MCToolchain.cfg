SPECIFICATION ToolchainSpec
CONSTANTS
  XLEN = 64
  WLEN = 32
  MANTISSA = 53
  MEMORY_SIZE = 20
  Sources <- ToolchainSources
  Images = {}
PROPERTIES
  ImplementsA64
  Halts

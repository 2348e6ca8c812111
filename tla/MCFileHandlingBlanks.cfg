SPECIFICATION FileSpec
CONSTANTS
  shortened <- Shortened
  XLEN = 64
  WLEN = 32
  NULL = NULL
  hash <- Hashes
  Files <- BlankFiles
  Revisions = {}
  Leftovers <- Junk
  MAX_LINES = 3
  MaxLost = 0
  MaxRuns = 1
PROPERTIES
  AddressIsWhereWritten
CHECK_DEADLOCK FALSE

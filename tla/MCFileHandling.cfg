SPECIFICATION FileSpec
CONSTANTS
  shortened <- Shortened
  XLEN = 64
  WLEN = 32
  NULL = NULL
  hash <- Hashes
  Files <- SomeFiles
  Revisions <- Revised
  Leftovers <- Junk
  MAX_LINES = 3
  MaxLost = 2
  MaxRuns = 2
INVARIANTS
  OutputIsPrefix
  DoneIsComplete
PROPERTIES
  Ends
CHECK_DEADLOCK FALSE

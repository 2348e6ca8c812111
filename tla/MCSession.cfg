SPECIFICATION SessionSpec
CONSTANTS
  shortened <- Shortened
  XLEN = 64
  WLEN = 32
  MANTISSA = 53
  MEMORY_SIZE = 8
  Images = {}
  NULL = NULL
  hash <- Hashes
  Files <- Programs
  Revisions <- Programs
  Leftovers <- NoOutput
  MAX_LINES = 7
  MaxLost = 1
  MaxRuns = 2
  MaxIterations = 10
INVARIANTS
  ReportShowsState
PROPERTIES
  ExecutesTheSource
  CompleteProgramsHalt
CHECK_DEADLOCK FALSE

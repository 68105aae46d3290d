SPECIFICATION FairSpec
CONSTANTS
  Worker = {w1, w2}
  NULL = NULL
  Window = TRUE
  Requests <- HangRequests
  MaxFrame = 1
  MaxRun = 1
  Intervals = {1}
  Depth = 1
  Slot = {0}
PROPERTIES
  RunReturns

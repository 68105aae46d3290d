SPECIFICATION Spec
CONSTANTS
  Worker = {w1, w2}
  NULL = NULL
  Window = FALSE
  Requests <- SessionRequests
  MaxFrame = 3
  MaxRun = 2
  Intervals = {1}
  Depth = 1
  Slot = {0}
PROPERTIES
  CountedIsExecuted

SPECIFICATION Spec
CONSTANTS
  Worker = {w1}
  NULL = NULL
  Window = FALSE
  Requests <- JumpRequests
  MaxFrame = 5
  MaxRun = 2
  Intervals = {1, 2}
  Depth = 3
  Slot = {0}
INVARIANTS
  Ordered

SPECIFICATION Spec
CONSTANTS
  Worker = {w1}
  NULL = NULL
  Window = FALSE
  Requests <- HistoryRequests
  MaxFrame = 3
  MaxRun = 1
  Intervals = {1}
  Depth = 3
  Slot = {0}

  
PROPERTIES
  UndoSpec
  OrderLostOnlyByJump
  RewindGoesBack

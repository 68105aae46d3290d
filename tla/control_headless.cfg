SPECIFICATION SnapFairSpec
CONSTANTS
  Worker = {w1}
  NULL = NULL
  Window = FALSE
  Requests <- SessionRequests
  MaxFrame = 2
  MaxRun = 1
  Intervals = {1}
  Depth = 1
  Slot = {0}
  Name = {a, b}
  MaxSnapshot = 1
INVARIANTS
  SynchronouslyPaused
  NoSpeedWrap
  
  SnapshotsWhole
PROPERTIES
  ReplyTruthful
  Answered

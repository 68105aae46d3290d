SPECIFICATION FairSpec
CONSTANTS
  Worker = {w1, w2}
  NULL = NULL
  Window = TRUE
  Requests <- WindowRequests
  MaxFrame = 3
  MaxRun = 2
  Intervals = {1}
  Depth = 1
  Slot = {0}
INVARIANTS
  TypeOK
  CoreExclusive
  HandleOwned
  PausedIsStill
  FreedIsQuiet
PROPERTIES
  WorkersDrain

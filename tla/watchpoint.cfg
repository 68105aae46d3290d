SPECIFICATION Spec
CONSTANTS
  NULL = NULL
  MaxWatch = 2
  Bus = 2
  Word = 4
  MaxLength = 2
  Breakpoints <- Several
  MaxId = 3
  MaxFrame = 2
  MaxRun = 2
INVARIANTS
  TypeOK
  ActiveIsCount
  IdsUnique
PROPERTIES
  OldestHitKept
  HitWasWatched
  StopsWhereFired

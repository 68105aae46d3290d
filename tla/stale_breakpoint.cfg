SPECIFICATION Spec
CONSTANTS
  NULL = NULL
  MaxWatch = 2
  Bus = 2
  Word = 4
  MaxLength = 2
  Breakpoints <- One
  MaxId = 1
  MaxFrame = 3
  MaxRun = 2
PROPERTIES
  StopIsFresh

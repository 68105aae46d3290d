SPECIFICATION Spec
CONSTANTS
  b = b
  c = c
  Disk = {a, b, c}
  Missing = {m}
  Sectors <- MCSectors
  Protected <- MCProtected
  HostReadOnly = {}
  NoFile = NoFile
  NoImage = NoImage
  MaxDisks = 2
  MaxWrite = 1
INVARIANTS
  RepliesTell
PROPERTIES
  WritesSaved
  

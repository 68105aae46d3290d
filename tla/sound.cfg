SPECIFICATION SoundSpec
CONSTANTS
  Channel = {c1, c2}
  Mask = {0, 1}
  Tone = {r1}
  Value = {0, 1}
  LogMax = 2
  MaxFrame = 2
  MaxEvent = 3
  Size = 5
  Batches = {2, 3}
  Rate = 3
  Unit = 2
  Clock = {1, 2}
  Cap = 3
  MaxSample = 12
INVARIANTS
  LogIsNewest
  KeyIsLastEvent
  RepliesInOrder
  RewrittenIsRight
  RingIsWhole
  
PROPERTIES
  
  BatchInOrder

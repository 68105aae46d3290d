SPECIFICATION Spec
CONSTANTS
  k1 = k1
  k2 = k2
  Source = {2, 3}
  Kbd = 3
  Code = {k1, k2}
  NoKey = NoKey
  RingSize = 4
  Loadable <- MCLoadable
INVARIANTS
  
  KeysInOrder
  KeyboardNotStuck

SPECIFICATION Spec
CONSTANTS
  zero = zero
  lshift = lshift
  l2 = l2
  ZERO = ZERO
  UNDERSCORE = UNDERSCORE
  SH = SH
  digit = digit
  sign = sign
  tilde = tilde
  LShift = lshift
  L2 = l2
  Shift = SH
  Keys <- MCKeys
  KeyTable <- MCKeyTable
  Char = {digit, sign, tilde}
  Base <- MCBase
  Shifted = {sign}
  Motion = {1}
  MaxText = 2
  MaxStep = 2
  MaxTotal = 1
  MaxMove = 1
INVARIANTS
  
  
  
  FailsUntouched

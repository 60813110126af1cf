SPECIFICATION Spec
CONSTANTS
  p1 = p1
  p2 = p2
  p3 = p3
  n1 = n1
  n2 = n2
  NoPos = NoPos
  Pos <- MCPos
  Net <- MCNet
  MaxPly = 2
INVARIANTS
  HashOwnPosition
  AccumulatorsOfNet
PROPERTY
  NullMoveCurrent

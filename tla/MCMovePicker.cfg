SPECIFICATION Spec
CONSTANTS
  c1 = c1
  c2 = c2
  u = u
  q1 = q1
  q2 = q2
  NoMove = NoMove
  Move <- MCMove
  GenNoisy <- MCGenNoisy
  Noisy <- MCNoisy
  MaxPositionMoves = 5
INVARIANTS
  IInv
PROPERTIES
  NeverTwice
  Refines

SPECIFICATION Spec
CONSTANTS
  MATE = 8
  TBWIN = 5
  TBWIN_IN_MAX = 2
  MaxPly = 3
  MAXDEPTH = 6
  Depths <- MCDepths
  Margin = 1
  LateMoves = 1
  FullMoves = 1
  MaxMoves = 3
  None = None
INVARIANTS
  BoundIsTrue
  WindowsInRange
  PVLeads
CHECK_DEADLOCK FALSE

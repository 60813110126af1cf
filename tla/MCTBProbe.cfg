SPECIFICATION Spec
CONSTANTS
  Limit = 3
  MaxMoves = 3
  Nothing = Nothing
CHECK_DEADLOCK FALSE
INVARIANTS
  WdlIsExact
  DtzIsClose
  RootKeepsValue

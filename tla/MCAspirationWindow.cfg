SPECIFICATION FairWindowSpec
CONSTANTS
  e2e4 = e2e4
  Move <- MCMove
  NoMove = NoMove
  Mate = 10
  TBWinInMax = 8
  InitialWindow = 2
  InitialDelta = 3
  FullUntil = 1
  MaxDepth = 4
  LimitDepth = 3
  GoCommands <- MCGo
INVARIANTS
  RootIsPV
  BudgetsFit
  HasAnswer
PROPERTIES
  Terminates
CHECK_DEADLOCK FALSE

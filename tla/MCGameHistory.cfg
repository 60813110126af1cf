SPECIFICATION HistorySpec
CONSTANTS
  b1 = b1
  b2 = b2
  b3 = b3
  Board <- MCBoard
  StartClocks <- MCStartClocks
  CounterMod = 7
  DrawClock = 6
  MAXDEPTH = 3
  MAXGAMEMOVES = 10
  MaxGame = 8
  NoPosition = NoPosition
INVARIANTS
  IndexInRange
  DrawsExact

SPECIFICATION Spec
CONSTANTS
  r1 = r1
  r2 = r2
  NoMove = NoMove
  Root <- MCRoot
  MaxThreads = 2
  MaxDepth = 2
  Sizes <- MCSizes
  GuiSyncs = TRUE
INVARIANTS
  IInv
PROPERTIES
  NoOverlap
  OwnStopOnly
  MemoryOutlivesSearch
  StopReturns
  Serves

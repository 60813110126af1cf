SPECIFICATION Spec
CONSTANTS
  t1 = t1
  t2 = t2
  Thread <- OneThread
  Key <- MCKey
  MAXDEPTH = 3
  MATE = 4
  TBWIN_IN_MAX = 3
  Scores <- MCScores
  MaxPly = 1
  MaxFrames = 2
INVARIANTS
  AssertsHold
  EntryIsWhole
PROPERTIES
  CutoffSound

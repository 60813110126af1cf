SPECIFICATION Spec
CONSTANTS
  Fens <- MCFens
  NoMove = NoMove
  PieceSqValue <- MCPieceSqValue
INVARIANTS
  CopiesAgree
  EachMoveOnce
  PseudoLegalExact
  InputIsOfSquares
  SimdMatchesScalar
  EvalIsSymmetric
  PiecesPlayChess
  IndexTellsApart
PROPERTIES
  TakeBackRestores
  PlaysByRules

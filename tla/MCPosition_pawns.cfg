SPECIFICATION Spec
CONSTANTS
  Fens <- PawnFens
  NoMove = NoMove
  PieceSqValue <- MCPieceSqValue
INVARIANTS
  PawnsPlayChess

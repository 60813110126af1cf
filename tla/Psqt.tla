-------------------------------- MODULE Psqt --------------------------------
(***************************************************************************)
(* Packed scores and the tables behind the incremental evaluation:         *)
(* evaluate.h, psqt.cpp and the piece tables of board.cpp.  A score packs  *)
(* a middlegame and an endgame half into one int, so that both are summed  *)
(* at once.  TLC's integers have the width of int: a sum that overflows    *)
(* ends the run with an error.                                             *)
(***************************************************************************)
EXTENDS Bitboard

CONSTANT PieceSqValue(_, _)   \* the table of a piece type, seen by Black;
                              \* tuneable, so any packed scores

ASSUME PsqtAssumption ==
  \A pt \in PAWN..KING, sq \in Square : PieceSqValue(pt, sq) \in Int

Half == 32768
S(mg, eg) == 65536 * eg + mg

\* A half is read as 16 bits with a sign.
Int16Of(n)  == ((n + Half) % 65536) - Half
MgScore(s)  == Int16Of(s % 65536)
EgScore(s)  == Int16Of(((s + Half) \div 65536) % 65536)

PieceTypeValue(pt) ==
  CASE pt = PAWN   -> S(110, 155)  [] pt = KNIGHT -> S(437, 448)
    [] pt = BISHOP -> S(460, 465)  [] pt = ROOK   -> S(670, 755)
    [] pt = QUEEN  -> S(1400, 1560) [] OTHER -> 0

MirrorSquare(sq) == 8 * (7 - RankOf(sq)) + FileOf(sq)
MirrorPiece(piece) ==
  IF piece = EMPTY THEN EMPTY
  ELSE MakePiece(Other(ColorOf(piece)), PieceTypeOf(piece))

\* InitPSQT: Black's scores are negative, White's the same of the mirrored
\* square.
PSQT(piece, sq) ==
  LET Black(s) == PieceTypeValue(PieceTypeOf(piece))
                  + PieceSqValue(PieceTypeOf(piece), s)
  IN  IF ColorOf(piece) = BLACK THEN -Black(sq) ELSE Black(MirrorSquare(sq))

NonPawn(piece) == IF PieceTypeOf(piece) \in KNIGHT..QUEEN THEN 1 ELSE 0
PhaseValue(piece) == CASE PieceTypeOf(piece) \in {KNIGHT, BISHOP} -> 1
                       [] PieceTypeOf(piece) = ROOK  -> 2
                       [] PieceTypeOf(piece) = QUEEN -> 4
                       [] OTHER -> 0
Phase(basePhase) == (basePhase * 256 + 12) \div 24
=============================================================================

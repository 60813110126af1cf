---------------------------- MODULE ClassicalEval ----------------------------
(***************************************************************************)
(* evaluate.cpp: the static evaluation of a build without the network.     *)
(* The weights are those of the source; the piece square tables, which     *)
(* only enter through the material a position carries, are a constant.     *)
(***************************************************************************)
EXTENDS Psqt, Sequences, FiniteSetsExt

TBWIN_IN_MAX == 30000 - 999
Tempo == 20

PawnDoubled    == S(-6, -32)
PawnIsolated   == S(-28, -16)
PawnSupport    == S(5, 5)
BishopPair     == S(52, 72)
KingLineDanger == S(-12, 4)
PawnPassed == <<0, S(-10, 1), S(-18, 10), S(-2, 33), S(28, 76), S(77, 116),
                S(121, 153), 0>>
OpenFile(pt)     == IF pt = ROOK THEN S(51, 20) ELSE S(-13, 16)
SemiOpenFile(pt) == IF pt = ROOK THEN S(17, 21) ELSE S(8, 10)

\* The halves of the table by the number of squares a piece can go to.
MobilityMg == [pt \in KNIGHT..QUEEN |->
  CASE pt = KNIGHT -> <<-89, -48, -3, 9, 26, 34, 47, 63, 66>>
    [] pt = BISHOP -> <<-61, -37, -9, 1, 13, 30, 36, 41, 40, 42, 45, 55, 62, 45>>
    [] pt = ROOK   -> <<-59, -44, -10, -5, -1, 2, 9, 15, 23, 31, 49, 51, 54, 55, 60>>
    [] pt = QUEEN  -> <<-62, -63, -50, -30, -62, -40, -25, -14, -5, 6, 8, 19, 20, 23, 34,
                        34, 31, 49, 37, 41, 60, 76, 76, 92, 114, 116, 104, 108>>]
MobilityEg == [pt \in KNIGHT..QUEEN |->
  CASE pt = KNIGHT -> <<-52, -43, -15, -1, 10, 34, 39, 38, 26>>
    [] pt = BISHOP -> <<-60, -43, -14, -8, 3, 17, 34, 32, 39, 43, 35, 37, 90, 66>>
    [] pt = ROOK   -> <<-69, -29, -13, -13, 2, 14, 26, 30, 36, 45, 42, 48, 48, 49, 61>>
    [] pt = QUEEN  -> <<-48, -35, -44, -43, -40, -37, -30, -23, 7, -2, 22, 10, 26, 32, 36,
                        50, 51, 45, 63, 41, 92, 83, 83, 77, 98, 89, 111, 131>>]
Mobility(pt, n) == S(MobilityMg[pt][n + 1], MobilityEg[pt][n + 1])

-----------------------------------------------------------------------------
(* The masks of bitboard.cpp and the helpers of bitboard.h.                *)

FileBB(file) == {sq \in Square : FileOf(sq) = file}
RankBB(rank) == {sq \in Square : RankOf(sq) = rank}
AdjacentFilesBB(sq) == ShiftBB(-1, FileBB(FileOf(sq)))
                       \cup ShiftBB(1, FileBB(FileOf(sq)))
NorthOf(color) == IF color = WHITE THEN 8 ELSE -8

\* Mutant: Black's mask is shifted by the rank White counts.
PassedMask_WhiteRank(color, sq) ==
  ShiftBB(NorthOf(color) * RankOf(sq), Square \ RankBB(RelativeRank(color, 0)))
    \cap (FileBB(FileOf(sq)) \cup AdjacentFilesBB(sq))

PassedMask(color, sq) ==
  ShiftBB(NorthOf(color) * RelativeRank(color, RankOf(sq)),
          Square \ RankBB(RelativeRank(color, 0)))
    \cap (FileBB(FileOf(sq)) \cup AdjacentFilesBB(sq))

PawnBBAttackBB(pawns, color) == ShiftBB(NorthOf(color) - 1, pawns)
                                \cup ShiftBB(NorthOf(color) + 1, pawns)

-----------------------------------------------------------------------------
(* The terms of one color.                                                 *)

SumOver(bb, Term(_)) == MapThenSumSet(Term, bb)

EvalPawns(p, color) ==
  LET pawns == ColorPieceBB(p, color, PAWN)
      Pawn(sq) ==
        (IF AdjacentFilesBB(sq) \cap pawns = {} THEN PawnIsolated ELSE 0)
        + (IF PassedMask(color, sq) \cap ColorPieceBB(p, Other(color), PAWN) = {}
           THEN PawnPassed[RelativeRank(color, RankOf(sq)) + 1] ELSE 0)
  IN  PawnDoubled * Cardinality(pawns \cap ShiftBB(8, pawns))
      + PawnSupport * Cardinality(pawns \cap PawnBBAttackBB(pawns, color))
      + SumOver(pawns, Pawn)

\* No square an enemy pawn attacks, and no own pawn that is blocked or has
\* not moved.
MobilityArea(p, color) ==
  LET stuck == RankBB(RelativeRank(color, 1))
               \cup ShiftBB(-NorthOf(color), p.pieceBB[ALL])
  IN  Square \ ((stuck \cap ColorPieceBB(p, color, PAWN))
                \cup PawnBBAttackBB(ColorPieceBB(p, Other(color), PAWN), Other(color)))

EvalPiece(p, color, pt) ==
  LET pieces == ColorPieceBB(p, color, pt)
      area   == MobilityArea(p, color)
      File(sq) ==
        CASE pt \notin {ROOK, QUEEN} -> 0
          [] p.pieceBB[PAWN] \cap FileBB(FileOf(sq)) = {} -> OpenFile(pt)
          [] ColorPieceBB(p, color, PAWN) \cap FileBB(FileOf(sq)) = {} -> SemiOpenFile(pt)
          [] OTHER -> 0
      Piece(sq) ==
        Mobility(pt, Cardinality(AttackBB(pt, sq, p.pieceBB[ALL]) \cap area)) + File(sq)
  IN  (IF pt = BISHOP /\ Cardinality(pieces) > 1 THEN BishopPair ELSE 0)
      + SumOver(pieces, Piece)

EvalKings(p, color) ==
  LET kingSq == CHOOSE sq \in ColorPieceBB(p, color, KING) : TRUE
  IN  KingLineDanger
      * Cardinality(AttackBB(QUEEN, kingSq, p.colorBB[color] \cup p.pieceBB[PAWN]))

EvalPieces(p) ==
  LET Of(color) == EvalPawns(p, color) + EvalKings(p, color)
                   + SumOver(KNIGHT..QUEEN, LAMBDA pt : EvalPiece(p, color, pt))
  IN  Of(WHITE) - Of(BLACK)

-----------------------------------------------------------------------------

\* Draws by (likely) lack of material.
MaterialDraw(p) ==
  LET n    == p.nonPawnCount
      Few(pt) == Cardinality(p.pieceBB[pt]) = 1
      Owner(pt) == IF ColorPieceBB(p, WHITE, pt) # {} THEN WHITE ELSE BLACK
      Both(c, d) == n[c] <= 2 /\ n[d] <= 2
  IN  /\ p.pieceBB[PAWN] = {} /\ p.pieceBB[QUEEN] = {}
      /\ CASE p.pieceBB[ROOK] = {} /\ p.pieceBB[BISHOP] = {} -> Both(WHITE, BLACK)
           [] p.pieceBB[ROOK] = {} /\ p.pieceBB[BISHOP] # {} /\ p.pieceBB[KNIGHT] = {} ->
                n[WHITE] - n[BLACK] \in -1..1
           [] p.pieceBB[ROOK] = {} /\ Few(BISHOP) /\ p.pieceBB[KNIGHT] # {} ->
                n[Owner(BISHOP)] = 1 /\ n[Other(Owner(BISHOP))] <= 2
           [] \A c \in {WHITE, BLACK} : Cardinality(ColorPieceBB(p, c, ROOK)) = 1 ->
                Both(WHITE, BLACK)
           [] Few(ROOK) -> n[Owner(ROOK)] = 1 /\ n[Other(Owner(ROOK))] \in 1..2
           [] OTHER -> FALSE

\* Division of int truncates towards zero.
Quotient(a, b) == IF a < 0 THEN -((-a) \div b) ELSE a \div b

\* Middlegame and endgame mixed by phase, from White's point of view.
Tapered(p) ==
  LET score == p.material + EvalPieces(p)
      phase == Phase(p.basePhase)
  IN  Quotient(MgScore(score) * phase + EgScore(score) * (256 - phase), 256)

EvalPosition(p) ==
  IF MaterialDraw(p) THEN 0
  ELSE (IF p.stm = WHITE THEN Tapered(p) ELSE -Tapered(p)) + Tempo
=============================================================================

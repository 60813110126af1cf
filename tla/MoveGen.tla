------------------------------ MODULE MoveGen -------------------------------
(***************************************************************************)
(* movegen.cpp, move.cpp and move.h: the generators of noisy and quiet     *)
(* moves, and MoveIsPseudoLegal, which decides without generating whether  *)
(* a move from the transposition table or a killer fits the position.  A   *)
(* move is a record of the fields the code packs into 23 bits; a list is a *)
(* set, since its order and the scores are the move picker's subject.      *)
(***************************************************************************)
EXTENDS Bitboard

A1 == 0   C1 == 2   D1 == 3   E1 == 4   F1 == 5   G1 == 6   H1 == 7
A8 == 56  C8 == 58  D8 == 59  E8 == 60  F8 == 61  G8 == 62  H8 == 63

\* CastlingRights is a bit set.
WHITE_OO     == 1
WHITE_OOO    == 2
BLACK_OO     == 4
BLACK_OOO    == 8
OO           == {WHITE_OO, BLACK_OO}
OOO          == {WHITE_OOO, BLACK_OOO}
CastleOf(color) == IF color = WHITE THEN {WHITE_OO, WHITE_OOO}
                                    ELSE {BLACK_OO, BLACK_OOO}

MOVE(f, t, ca, pro, fl) ==
  [from |-> f, to |-> t, capt |-> ca, promo |-> pro, flag |-> fl]

moveIsSpecial(m) == m.flag # "none" \/ m.promo # EMPTY

NORTH == 8
Up(color)   == IF color = WHITE THEN NORTH ELSE -NORTH
Left(color) == IF color = WHITE THEN -1 ELSE 1

CastlePseudoLegal(pos, color, side) ==
  LET kingSq == IF color = WHITE THEN E1 ELSE E8
      rookSq == IF side = OO THEN kingSq + 3 ELSE kingSq - 4
      midway == IF side = OO THEN kingSq + 1 ELSE kingSq - 1
  IN  /\ pos.castlingRights \cap side \cap CastleOf(color) # {}
      /\ pos.pieceBB[ALL] \cap BetweenBB(kingSq, rookSq) = {}
      /\ ~SqAttacked(pos, kingSq, Other(color))
      /\ ~SqAttacked(pos, midway, Other(color))

-----------------------------------------------------------------------------
(* The generators.  Quiet underpromotions include those that capture.      *)

AddMove(pos, from, to, promo, flag) ==
  MOVE(from, to, pos.board[to], promo, flag)

AddPromotions(pos, from, to, color, type) ==
  {AddMove(pos, from, to, MakePiece(color, pt), "none") :
     pt \in IF type = "noisy" THEN {QUEEN} ELSE {KNIGHT, ROOK, BISHOP}}

GenCastling(pos, color, type) ==
  LET from == IF color = WHITE THEN E1 ELSE E8
  IN  {AddMove(pos, from, IF side = OO THEN from + 2 ELSE from - 2,
               EMPTY, "castle") :
         side \in {s \in {OO, OOO} :
                     type = "quiet" /\ CastlePseudoLegal(pos, color, s)}}

GenPawn(pos, color, type) ==
  LET up      == Up(color)
      steps   == {up + Left(color), up - Left(color)}
      empty   == Square \ pos.pieceBB[ALL]
      enemies == pos.colorBB[Other(color)]
      pawns   == ColorPieceBB(pos, color, PAWN)
      on7th   == {sq \in pawns : RelativeRank(color, RankOf(sq)) = 6}
      not7th  == pawns \ on7th
      pawnMoves  == empty \cap ShiftBB(up, not7th)
      pawnStarts == {to \in empty \cap ShiftBB(up, pawnMoves) :
                       RelativeRank(color, RankOf(to)) = 3}
      Forward    == {AddMove(pos, to - up, to, EMPTY, "none") :
                       to \in pawnMoves}
      Starts     == {AddMove(pos, to - up * 2, to, EMPTY, "pstart") :
                       to \in pawnStarts}
      Promotions ==
        (UNION {AddPromotions(pos, to - up, to, color, type) :
                  to \in empty \cap ShiftBB(up, on7th)})
        \cup (UNION {UNION {AddPromotions(pos, to - step, to, color, type) :
                              to \in enemies \cap ShiftBB(step, on7th)}
                       : step \in steps})
      Captures   ==
        UNION {{AddMove(pos, to - step, to, EMPTY, "none") :
                  to \in enemies \cap ShiftBB(step, not7th)} : step \in steps}
      EnPassers  ==
        {AddMove(pos, from, pos.epSquare, EMPTY, "enpas") :
           from \in IF pos.epSquare = 0 THEN {}
                    ELSE not7th \cap PawnAttacks[Other(color)][pos.epSquare]}
  IN  IF type = "quiet" THEN Forward \cup Starts \cup Promotions
                        ELSE Promotions \cup Captures \cup EnPassers

GenPieceType(pos, color, type, pt) ==
  LET occupied == pos.pieceBB[ALL]
      targets  == IF type = "noisy" THEN pos.colorBB[Other(color)]
                                    ELSE Square \ occupied
  IN  UNION {{AddMove(pos, from, to, EMPTY, "none") :
                to \in targets \cap AttackBB(pt, from, occupied)} :
               from \in ColorPieceBB(pos, color, pt)}

GenMoves(pos, color, type) ==
  GenCastling(pos, color, type) \cup GenPawn(pos, color, type)
  \cup UNION {GenPieceType(pos, color, type, pt) : pt \in KNIGHT..KING}

GenQuietMoves(pos) == GenMoves(pos, pos.stm, "quiet")
GenNoisyMoves(pos) == GenMoves(pos, pos.stm, "noisy")

-----------------------------------------------------------------------------
(* The test without generation.                                            *)

CastleTarget(pos, to) ==
  CASE to = C1 -> CastlePseudoLegal(pos, WHITE, OOO)
    [] to = G1 -> CastlePseudoLegal(pos, WHITE, OO)
    [] to = C8 -> CastlePseudoLegal(pos, BLACK, OOO)
    [] to = G8 -> CastlePseudoLegal(pos, BLACK, OO)

\* Mutant: the pawn step of another piece's quiet move.
MustPromote_Never(color, m) == FALSE

\* A pawn on the last rank is no pawn any more.
MustPromote(color, m) ==
  RelativeRank(color, RankOf(m.to)) = 7 /\ m.promo = EMPTY

PawnPseudoLegal(pos, m) ==
  LET color   == pos.stm
      attacks == m.to \in PawnAttacks[color][m.from]
  IN  CASE m.flag = "enpas"  -> m.to = pos.epSquare /\ attacks
        [] m.flag = "pstart" -> /\ pos.board[Xor8(m.to)] = EMPTY
                                /\ m.to - 16 + 32 * color = m.from
        [] OTHER -> /\ ~MustPromote(color, m)
                    /\ IF m.capt # EMPTY THEN attacks
                       ELSE m.to - 8 + 16 * color = m.from

MoveIsPseudoLegal(pos, m) ==
  /\ m.from \in pos.colorBB[pos.stm]
  /\ m.to \notin pos.colorBB[pos.stm]
  /\ m.capt = pos.board[m.to]
  /\ IF m.flag = "castle" THEN CastleTarget(pos, m.to)
     ELSE LET pt == PieceTypeOf(pos.board[m.from]) IN
          IF pt # PAWN
          THEN /\ ~moveIsSpecial(m)
               /\ m.to \in AttackBB(pt, m.from, pos.pieceBB[ALL])
          ELSE PawnPseudoLegal(pos, m)
=============================================================================

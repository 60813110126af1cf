------------------------------ MODULE Bitboard ------------------------------
(***************************************************************************)
(* Squares, pieces and attack tables: types.h, board.h, bitboard.h and     *)
(* bitboard.cpp.  A bitboard is the set of its squares.  The magic or pext *)
(* index of a slider table only finds the entry that MakeSliderAttackBB    *)
(* computed for an occupancy, so AttackBB computes that entry.             *)
(***************************************************************************)
EXTENDS Integers, FiniteSets

WHITE == 0
BLACK == 1
Other(color) == 1 - color

EMPTY  == 0
ALL    == 0
PAWN   == 1
KNIGHT == 2
BISHOP == 3
ROOK   == 4
QUEEN  == 5
KING   == 6

MakePiece(color, pt) == 8 * color + pt
ColorOf(piece)       == piece \div 8
PieceTypeOf(piece)   == piece % 8
Pieces == {MakePiece(c, pt) : c \in {WHITE, BLACK}, pt \in PAWN..KING}

Square == 0..63
FileOf(sq) == sq % 8
RankOf(sq) == sq \div 8
RelativeRank(color, rank) == IF color = WHITE THEN rank ELSE 7 - rank
Distance(sq1, sq2) ==
  LET Apart(a, b) == IF a < b THEN b - a ELSE a - b
      ranks == Apart(RankOf(sq1), RankOf(sq2))
      files == Apart(FileOf(sq1), FileOf(sq2))
  IN  IF ranks > files THEN ranks ELSE files

\* sq ^ 8: the square in front of or behind sq that a pawn start passes.
Xor8(sq) == IF RankOf(sq) % 2 = 0 THEN sq + 8 ELSE sq - 8

KSteps == {-9, -8, -7, -1, 1, 7, 8, 9}
NSteps == {-17, -15, -10, -6, 6, 10, 15, 17}
PSteps == [color \in {WHITE, BLACK} |->
             IF color = WHITE THEN {7, 9} ELSE {-9, -7}]
RSteps == {-8, -1, 1, 8}
BSteps == {-9, -7, 7, 9}

\* The landing square of a step, or nothing if the step leaves the board:
\* a step that wraps around an edge is longer than two squares.
LandingSquareBB(sq, step) ==
  {to \in {sq + step} \cap Square : Distance(sq, to) <= 2}

PseudoAttacks ==
  [pt \in {KNIGHT, KING} |-> [sq \in Square |->
     UNION {LandingSquareBB(sq, step) :
              step \in IF pt = KING THEN KSteps ELSE NSteps}]]

PawnAttacks ==
  [color \in {WHITE, BLACK} |-> [sq \in Square |->
     UNION {LandingSquareBB(sq, step) : step \in PSteps[color]}]]

\* How many steps a slider can make on an empty board.
StepsFrom ==
  [sq \in Square |-> [step \in RSteps \cup BSteps |->
     {k \in 1..7 : \A j \in 0..(k - 1) :
        /\ sq + j * step \in Square
        /\ LandingSquareBB(sq + j * step, step) # {}}]]

\* A slider goes on until it has reached an occupied square.
MakeSliderAttackBB(sq, occupied, steps) ==
  UNION {{sq + k * step : k \in {k \in StepsFrom[sq][step] :
                \A j \in 1..(k - 1) : sq + j * step \notin occupied}}
           : step \in steps}

AttackBB(pt, sq, occupied) ==
  CASE pt = BISHOP -> MakeSliderAttackBB(sq, occupied, BSteps)
    [] pt = ROOK   -> MakeSliderAttackBB(sq, occupied, RSteps)
    [] pt = QUEEN  -> MakeSliderAttackBB(sq, occupied, RSteps \cup BSteps)
    [] OTHER       -> PseudoAttacks[pt][sq]

\* The squares between two squares on one line, or nothing.
BetweenBB(sq1, sq2) ==
  UNION {IF sq2 \in AttackBB(pt, sq1, {sq2})
         THEN AttackBB(pt, sq1, {sq2}) \cap AttackBB(pt, sq2, {sq1})
         ELSE {} : pt \in {BISHOP, ROOK}}

\* Mutant: a pawn on the edge attacks the other edge.
ShiftBB_Wraps(dir, bb) == {sq + dir : sq \in bb} \cap Square

\* A shift by one step; a horizontal component must not wrap around.
ShiftBB(dir, bb) ==
  LET file == CASE dir % 8 = 1 -> {7} [] dir % 8 = 7 -> {0} [] OTHER -> {}
  IN  {sq + dir : sq \in {s \in bb : FileOf(s) \notin file}} \cap Square

-----------------------------------------------------------------------------
(* Attacks in a position, which has bitboards by type and by color.        *)

ColorPieceBB(pos, color, pt) == pos.colorBB[color] \cap pos.pieceBB[pt]

SqAttacked(pos, sq, color) ==
  LET occupied == pos.pieceBB[ALL]
      By(pts)  == pos.colorBB[color] \cap UNION {pos.pieceBB[pt] : pt \in pts}
  IN  \/ PawnAttacks[Other(color)][sq] \cap By({PAWN}) # {}
      \/ \E pt \in {KNIGHT, KING} :
           PseudoAttacks[pt][sq] \cap By({pt}) # {}
      \/ \E pt \in {BISHOP, ROOK} :
           AttackBB(pt, sq, occupied) \cap By({pt, QUEEN}) # {}

\* Lsb of the king's bitboard: there is one king.
KingAttacked(pos, color) ==
  \E sq \in ColorPieceBB(pos, color, KING) :
    SqAttacked(pos, sq, Other(color))
=============================================================================

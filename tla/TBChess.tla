------------------------------- MODULE TBChess -------------------------------
(***************************************************************************)
(* The rules of chess a second time: the position, move generator and      *)
(* legality tests that fathom (fathom/tbchess.c) keeps for the tablebases, *)
(* on the attack tables that fathom/tbconfig.h takes from the engine, and  *)
(* the position that syzygy.h hands over.  fathom numbers the colors the   *)
(* other way round (TB_BLACK is 0), which is why the engine passes         *)
(* ~sideToMove; the index of a pawn attack is not turned round.            *)
(***************************************************************************)
EXTENDS Bitboard

TB_BLACK == 0
TB_WHITE == 1

\* TB_PROMOTES_QUEEN is 1, TB_PROMOTES_KNIGHT is 4.
PromotedType(promotes) == IF promotes = 0 THEN EMPTY ELSE 6 - promotes

FathomPos(pos, r50, epSq) ==
  [side   |-> [c \in {TB_BLACK, TB_WHITE} |-> pos.colorBB[Other(c)]],
   by     |-> [pt \in PAWN..KING |-> pos.pieceBB[pt]],
   rule50 |-> r50, ep |-> epSq, turn |-> Other(pos.stm)]

Occ(tb)  == tb.side[TB_WHITE] \cup tb.side[TB_BLACK]
Us(tb)   == tb.side[tb.turn]
Them(tb) == tb.side[1 - tb.turn]
pawn_attacks(sq, c) == PawnAttacks[c][sq]

\* How many pieces of each kind, the kings aside; mirror swaps the colors.
calc_key(tb, mirror) ==
  [c \in {TB_BLACK, TB_WHITE} |-> [pt \in PAWN..QUEEN |->
     Cardinality(tb.by[pt] \cap tb.side[IF mirror THEN 1 - c ELSE c])]]
-----------------------------------------------------------------------------
(* Generation.                                                             *)

add_move(promotes, from, to) ==
  {[from |-> from, to |-> to, promotes |-> p] :
     p \in IF promotes THEN 1..4 ELSE {0}}

PieceMoves(tb, targets) ==
  UNION {UNION {UNION {add_move(FALSE, from, to) :
                         to \in AttackBB(pt, from, Occ(tb)) \cap targets} :
                  from \in Us(tb) \cap tb.by[pt]} : pt \in KNIGHT..KING}

PawnTo(from, to) == add_move(RankOf(to) \in {0, 7}, from, to)

PawnCaptures(tb, from) ==
  LET att == pawn_attacks(from, tb.turn) IN
  (UNION {PawnTo(from, to) : to \in att \cap Them(tb)})
  \cup (IF tb.ep # 0 /\ tb.ep \in att THEN add_move(FALSE, from, tb.ep) ELSE {})

PawnSteps(tb, from) ==
  LET up      == IF tb.turn = TB_WHITE THEN 8 ELSE -8
      first   == IF tb.turn = TB_WHITE THEN 1 ELSE 6
      Free(k) == \A j \in 1..k : from + j * up \notin Occ(tb)
  IN  UNION {PawnTo(from, from + k * up) :
               k \in {k \in 1..2 : Free(k) /\ (k = 2 => RankOf(from) = first)}}

gen_captures(tb) ==
  PieceMoves(tb, Them(tb))
  \cup UNION {PawnCaptures(tb, from) : from \in Us(tb) \cap tb.by[PAWN]}

gen_moves(tb) ==
  PieceMoves(tb, Square \ Us(tb))
  \cup UNION {PawnCaptures(tb, from) \cup PawnSteps(tb, from) :
                from \in Us(tb) \cap tb.by[PAWN]}

is_en_passant(tb, m) ==
  tb.ep # 0 /\ m.to = tb.ep /\ m.from \in Us(tb) \cap tb.by[PAWN]
is_capture(tb, m) == m.to \in Them(tb) \/ is_en_passant(tb, m)
-----------------------------------------------------------------------------
(* Legality.                                                               *)

\* Whether a piece of the other color reaches the king of color c.
Reached(tb, c) ==
  \E sq \in tb.by[KING] \cap tb.side[c] :
    LET By(pts) == tb.side[1 - c] \cap UNION {tb.by[pt] : pt \in pts} IN
    \/ AttackBB(ROOK, sq, Occ(tb)) \cap By({ROOK, QUEEN}) # {}
    \/ AttackBB(BISHOP, sq, Occ(tb)) \cap By({BISHOP, QUEEN}) # {}
    \/ AttackBB(KNIGHT, sq, Occ(tb)) \cap By({KNIGHT}) # {}
    \/ pawn_attacks(sq, c) \cap By({PAWN}) # {}

\* Mutant: kings may stand next to each other.
is_legal_KingsMeet(tb) == ~Reached(tb, 1 - tb.turn)

\* The side that has moved has a king, and it can not be captured.
is_legal(tb) ==
  \E sq \in tb.by[KING] \cap Them(tb) :
    /\ AttackBB(KING, sq, {}) \cap tb.by[KING] \cap Us(tb) = {}
    /\ ~Reached(tb, 1 - tb.turn)

is_check(tb) == Reached(tb, tb.turn)

is_valid(tb) ==
  /\ \A c \in {TB_BLACK, TB_WHITE} :
       Cardinality(tb.by[KING] \cap tb.side[c]) = 1
  /\ tb.side[TB_WHITE] \cap tb.side[TB_BLACK] = {}
  /\ \A pt, pt2 \in PAWN..KING : pt # pt2 => tb.by[pt] \cap tb.by[pt2] = {}
  /\ \A sq \in tb.by[PAWN] : RankOf(sq) \notin {0, 7}
  /\ Occ(tb) = UNION {tb.by[pt] : pt \in PAWN..KING}
  /\ is_legal(tb)

\* The position after a move, legal or not.
do_move(tb, m) ==
  LET Moved(bb) == (bb \ {m.from, m.to})
                   \cup (IF m.from \in bb THEN {m.to} ELSE {})
      pawn      == m.from \in tb.by[PAWN]
      double(first, up) == /\ pawn /\ m.promotes = 0
                           /\ RankOf(m.from) = first
                           /\ m.to = m.from + 2 * up
      Passed(first, up, c) ==
        /\ double(first, up)
        /\ pawn_attacks(m.from + up, c) \cap tb.by[PAWN]
             \cap tb.side[1 - c] # {}
      ep     == CASE Passed(1, 8, TB_WHITE)  -> m.from + 8
                  [] Passed(6, -8, TB_BLACK) -> m.from - 8
                  [] OTHER -> 0
      taken  == IF pawn /\ m.promotes = 0 /\ ep = 0 /\ m.to = tb.ep
                THEN {IF tb.turn = TB_WHITE THEN m.to - 8 ELSE m.to + 8}
                ELSE {}
      By(pt) == CASE m.promotes # 0 /\ pt = PAWN -> Moved(tb.by[pt]) \ {m.to}
                  [] m.promotes # 0 /\ pt = PromotedType(m.promotes) ->
                       Moved(tb.by[pt]) \cup {m.to}
                  [] pt = PAWN -> Moved(tb.by[pt]) \ taken
                  [] OTHER -> Moved(tb.by[pt])
  IN  [side   |-> [c \in {TB_BLACK, TB_WHITE} |-> Moved(tb.side[c]) \ taken],
       by     |-> [pt \in PAWN..KING |-> By(pt)],
       rule50 |-> IF pawn \/ m.to \in Occ(tb) THEN 0 ELSE tb.rule50 + 1,
       ep     |-> ep, turn |-> 1 - tb.turn]

legal_move(tb, m) == is_legal(do_move(tb, m))
gen_legal(tb)     == {m \in gen_moves(tb) : legal_move(tb, m)}
is_mate(tb)       == is_check(tb) /\ gen_legal(tb) = {}
=============================================================================

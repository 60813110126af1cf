----------------------------- MODULE MCPosition -----------------------------
(* The perft position of tests.cpp and positions with few pieces: en       *)
(* passant with pins, promotions with captures, rooks and rights; and       *)
(* the tablebase positions KRvKN, KBBvK and KPPvK.                          *)
EXTENDS PositionViews

\* A board by its ranks, from the eighth to the first.
Board(rows) ==
  LET At(sq) == rows[8 - RankOf(sq)][FileOf(sq) + 1]
  IN  [sq \in {s \in Square : At(s) # EMPTY} |-> At(sq)]

None == <<0, 0, 0, 0, 0, 0, 0, 0>>

\* r3k2r/p1ppqpb1/bn2pnp1/3PN3/1p2P3/2N2Q1p/PPPBBPPP/R3K2R w KQkq -
Perft ==
  [board |-> Board(<<<<12,  0,  0,  0, 14,  0,  0, 12>>,
                     << 9,  0,  9,  9, 13,  9, 11,  0>>,
                     <<11, 10,  0,  0,  9, 10,  9,  0>>,
                     << 0,  0,  0,  1,  2,  0,  0,  0>>,
                     << 0,  9,  0,  0,  1,  0,  0,  0>>,
                     << 0,  0,  2,  0,  0,  5,  0,  9>>,
                     << 1,  1,  1,  3,  3,  1,  1,  1>>,
                     << 4,  0,  0,  0,  6,  0,  0,  4>>>>),
   stm |-> WHITE, rights |-> OO \cup OOO, ep |-> 0, rule50 |-> 0, plies |-> 2]

\* 7k/3p4/8/K3P2r/8/8/8/8 b: the capture en passant opens the rank.
Pinned ==
  [board |-> Board(<<<<0, 0, 0, 0, 0, 0, 0, 14>>,
                     <<0, 0, 0, 9, 0, 0, 0, 0>>,
                     None,
                     <<6, 0, 0, 0, 1, 0, 0, 12>>,
                     <<0, 0, 0, 0, 0, 0, 0, 0>>,
                     None, None, None>>),
   stm |-> BLACK, rights |-> {}, ep |-> 0, rule50 |-> 7, plies |-> 3]

\* 8/8/8/2k5/3Pp3/8/8/4K3 b - d3: en passant given by the FEN string.
Passed ==
  [board |-> Board(<<None, None, None,
                     <<0, 0, 14, 0, 0, 0, 0, 0>>,
                     <<0, 0, 0, 1, 9, 0, 0, 0>>,
                     None, None,
                     <<0, 0, 0, 0, 6, 0, 0, 0>>>>),
   stm |-> BLACK, rights |-> {}, ep |-> 19, rule50 |-> 0, plies |-> 3]

\* r1n1k3/1P6/8/8/8/8/6p1/4K2R w Kq: promotions, with capture of a rook.
Promote ==
  [board |-> Board(<<<<12, 0, 10, 0, 14, 0, 0, 0>>,
                     <<0, 1, 0, 0, 0, 0, 0, 0>>,
                     None, None, None, None,
                     <<0, 0, 0, 0, 0, 0, 9, 0>>,
                     <<0, 0, 0, 0, 6, 0, 0, 4>>>>),
   stm |-> WHITE, rights |-> {WHITE_OO, BLACK_OOO}, ep |-> 0, rule50 |-> 3, plies |-> 2]

\* 8/8/8/8/8/1Rn2k2/8/K7 w
RookKnight ==
  [board |-> (A1 :> 6) @@ (17 :> 4) @@ (18 :> 10) @@ (21 :> 14),
   stm |-> WHITE, rights |-> {}, ep |-> 0, rule50 |-> 0, plies |-> 1]

\* 8/8/8/8/3k4/8/8/K1B2B2 w
Bishops ==
  [board |-> (A1 :> 6) @@ (C1 :> 3) @@ (F1 :> 3) @@ (27 :> 14),
   stm |-> WHITE, rights |-> {}, ep |-> 0, rule50 |-> 0, plies |-> 1]

\* 8/8/8/8/8/k7/2P3P1/2K5 w
Pawns ==
  [board |-> (C1 :> 6) @@ (10 :> 1) @@ (14 :> 1) @@ (16 :> 14),
   stm |-> WHITE, rights |-> {}, ep |-> 0, rule50 |-> 0, plies |-> 1]

MCFens == {Perft, Pinned, Passed, Promote, RookKnight, Bishops, Pawns}
PawnFens == {Pinned, Passed}

\* Piece square tables of the size of those of psqt.cpp, without a symmetry.
MCPieceSqValue(pt, sq) ==
  IF pt = PAWN /\ RankOf(sq) \in {0, 7} THEN 0
  ELSE S(((13 * sq + 29 * pt) % 121) - 60, ((31 * sq + 7 * pt) % 109) - 54)
=============================================================================

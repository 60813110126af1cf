---------------------------- MODULE PositionViews ----------------------------
(***************************************************************************)
(* What is computed from a position: the features of the network, the      *)
(* classical evaluation, the moves and the table index of the tablebase    *)
(* code.  The position changes as in Position; each view of it must agree  *)
(* with the others and with the rules at every step.                       *)
(***************************************************************************)
EXTENDS NNUEFeatures, NNUELayers, ClassicalEval, TBIndex

-----------------------------------------------------------------------------
(* The features of the network.                                            *)

Architectures == {<<HalfKP("Friend")>>, <<K, P>>,
                  <<HalfRelativeKP("Enemy"), K, HalfKP("Enemy"), P>>}

\* What the input is meant to be, told from the squares alone: the piece, whose
\* it is, its square and that of a king, as the color sees the board.
Seen(sq, c) == IF c = WHITE THEN sq ELSE 63 - sq
KingOf(f, c) ==
  LET owner == IF f.king = "Friend" THEN c ELSE Other(c)
  IN  Seen(CHOOSE sq \in Square : pos.board[sq] = MakePiece(owner, KING), c)
ColumnOfMan(f, c, sq) ==
  LET pc   == pos.board[sq]
      man  == 2 * (PieceTypeOf(pc) - PAWN) + IF ColorOf(pc) = c THEN 0 ELSE 1
      at   == Seen(sq, c)
      k    == KingOf(f, c)
  IN  CASE f.name = "HalfKP"         -> 641 * k + 64 * man + at + 1
        [] f.name = "HalfRelativeKP" -> 225 * man + 15 * (7 + FileOf(at) - FileOf(k))
                                                  + (7 + RankOf(at) - RankOf(k))
        [] f.name = "P"              -> 64 * man + at + 1
        [] f.name = "K"              -> IF ColorOf(pc) = c THEN at ELSE 64 + at
MenOf(f) == LET kings == {sq \in Square : PieceTypeOf(pos.board[sq]) = KING}
            IN  IF f = K THEN kings
                ELSE {sq \in Square : pos.board[sq] # EMPTY} \ kings
InputOf(fs, trigger, c) ==
  UNION {{TailDimensions(fs, i) + ColumnOfMan(fs[i], c, sq) : sq \in MenOf(fs[i])} :
           i \in {i \in DOMAIN fs : kRefreshTrigger(fs[i]) = trigger}}

\* However the position came about, the columns that RefreshAccumulator adds up
\* are those of the men on their squares, each once, inside the weights and no
\* more than the list holds: the gaps that captures leave in the piece list, the
\* number a promoted piece has from its pawn, castling and what TakeMove puts
\* back leave no trace in the input of the network.
InputIsOfSquares ==
  \A fs \in Architectures, c \in {WHITE, BLACK} :
    LET acc      == RefreshAccumulator(fs, pos.pieceList, c)
        triggers == kRefreshTriggers(fs)
    IN  \A i \in DOMAIN triggers :
          /\ Range(acc[i].plus) = InputOf(fs, triggers[i], c)
          /\ IsInjective(acc[i].plus)
          /\ Range(acc[i].plus) \subseteq 0..(TailDimensions(fs, 0) - 1)
          /\ Len(acc[i].plus) <= FoldLeft(LAMBDA n, f : n + kMaxActiveDimensions(f), 0, fs)

\* A network with 2 x 32 inputs of its layers, and weights of all sizes.
Outputs == 1..kSimdWidth
ColumnOf(j) == [index \in 0..(kDimensions(HalfKP("Friend")) - 1) |->
                  ((7919 * index + 1009 * j) % 4001) - 2000]
Biases  == [i \in Outputs |-> ((i * 4099) % 16384) - 8192]
Weights == [i \in Outputs |-> [j \in 1..(2 * kSimdWidth) |->
              IF (i + j) % 5 = 0 THEN 127 ELSE ((37 * i + 101 * j * j) % 256) - 128]]

\* With AVX2 the network computes what it computes without: no lane is lost,
\* swapped or saturated on the way.
SimdMatchesScalar ==
  (histPly <= 1 /\ Cardinality(pos.pieceBB[ALL]) <= 5) =>
    LET Sums(c) == LET acc == RefreshAccumulator(<<HalfKP("Friend")>>, pos.pieceList, c)[1]
                   IN  [j \in Outputs |-> SumOf(acc, Biases[j], ColumnOf(j))]
        input   == Transform_scalar(Sums(pos.stm)) \o Transform_scalar(Sums(Other(pos.stm)))
        hidden  == Affine_scalar(input, Biases, Weights)
    IN  /\ Transform_avx2(Sums(pos.stm)) \o Transform_avx2(Sums(Other(pos.stm))) = input
        /\ Affine_avx2(input, Biases, Weights) = hidden
        /\ ClippedReLU_avx2(hidden) = ClippedReLU_scalar(hidden)

-----------------------------------------------------------------------------
(* The classical evaluation.                                               *)

\* What MirrorEvalTest (tests.cpp) tests, along every line: the evaluation,
\* from the material and phase kept up to date by the moves, is that of the
\* position with the colors reversed, counted afresh.  It stays clear of the
\* scores of tablebase wins, as EvalPosition asserts, and both halves of the
\* sum are those of the sums of the halves.
EvalIsSymmetric ==
  LET mirror == MirrorBoard(pos)
      Sum(Of(_)) == MapThenSumSet(LAMBDA sq : Of(PSQT(pos.board[sq], sq)),
                                  pos.pieceBB[ALL])
  IN  /\ EvalPosition(mirror) = EvalPosition(pos)
      /\ EvalPosition(pos) \in (1 - TBWIN_IN_MAX)..(TBWIN_IN_MAX - 1)
      /\ MgScore(pos.material) = Sum(MgScore)
      /\ EgScore(pos.material) = Sum(EgScore)

-----------------------------------------------------------------------------
(* The tablebase code's rules of chess.                                    *)

\* What syzygy.h hands to tb_probe_root.
Handed == FathomPos(pos, pos.rule50, pos.epSquare)
ToTables == /\ pos.castlingRights = {}
            /\ ~Rules!InCheck(pos.board, Other(pos.stm))
BoardOf(tb) ==
  [sq \in Square |->
     IF sq \notin Occ(tb) THEN EMPTY
     ELSE MakePiece(IF sq \in tb.side[TB_WHITE] THEN WHITE ELSE BLACK,
                    CHOOSE pt \in PAWN..KING : sq \in tb.by[pt])]
LegalMoves == {m \in Rules!Moves(Core(pos)) :
                 ~Rules!InCheck(Rules!After(Core(pos), m).board, pos.stm)}
AsRule(m) == [from |-> m.from, to |-> m.to,
              promo |-> IF m.promotes = 0 THEN EMPTY
                        ELSE MakePiece(pos.stm, PromotedType(m.promotes))]

\* tbchess.c accepts the position, generates its legal moves and captures,
\* makes them and sees check and mate, all as the rules of chess do.
PlaysChess ==
  LET check == Rules!InCheck(pos.board, pos.stm)
      Men(board) == Cardinality({sq \in Square : board[sq] # EMPTY})
      taking == {m \in gen_captures(Handed) :
                   is_capture(Handed, m) /\ legal_move(Handed, m)}
  IN  /\ is_valid(Handed)
      /\ {AsRule(m) : m \in gen_legal(Handed)} = LegalMoves
      /\ {AsRule(m) : m \in taking} =
           {m \in LegalMoves : Men(Rules!After(Core(pos), m).board) < Men(pos.board)}
      /\ is_check(Handed) = check
      /\ is_mate(Handed) = (check /\ LegalMoves = {})
      /\ \A m \in gen_legal(Handed) :
           LET after == Rules!After(Core(pos), AsRule(m))
               tb    == do_move(Handed, m)
           IN  /\ BoardOf(tb) = after.board
               /\ tb.ep = after.ep /\ tb.rule50 = after.rule50

\* Without pawns the tablebase code plays chess.
PiecesPlayChess == (ToTables /\ pos.pieceBB[PAWN] = {}) => PlaysChess

\* TB_PAWN_ATTACKS returns the attacks of a pawn of the color it is given
\* (tbconfig.h), so that it does with pawns as well.
PawnsPlayChess == ToTables => PlaysChess

-----------------------------------------------------------------------------
(* The place in a table.                                                   *)

\* The pieces as a set, and what the symmetries of the board make of it.
Placed(tb) == {<<c, pt, sq>> \in {TB_BLACK, TB_WHITE} \X (PAWN..KING) \X Square :
              sq \in tb.side[c] \cap tb.by[pt]}
Symmetries(pawns) ==
  {[sq \in Square |-> LET f == IF h THEN FlipFile(sq) ELSE sq
                          r == IF v THEN FlipRank(f) ELSE f
                      IN  IF d THEN FlipDiag(r) ELSE r] :
     <<h, v, d>> \in BOOLEAN \X (IF pawns THEN {FALSE} ELSE BOOLEAN)
                             \X (IF pawns THEN {FALSE} ELSE BOOLEAN)}
Images(tb) == {{<<m[1], m[2], s[m[3]]>> : m \in Placed(tb)} :
                 s \in Symmetries(tb.by[PAWN] # {})}

\* One piece put elsewhere, and all colors swapped.
Displaced(tb) ==
  {[tb EXCEPT !.side[m[1]] = (@ \ {m[3]}) \cup {to},
              !.by[m[2]]   = (@ \ {m[3]}) \cup {to}] :
     <<m, to>> \in {<<m, to>> \in Placed(tb) \X (Square \ Occ(tb)) :
        /\ m[2] = PAWN => RankOf(to) \in 1..6
        /\ m[2] = KING => \A k \in tb.by[KING] \ {m[3]} : Distance(k, to) > 1}}
Swapped(tb) ==
  LET Flip(bb) == {FlipRank(sq) : sq \in bb} IN
  [tb EXCEPT !.side = [c \in {TB_BLACK, TB_WHITE} |-> Flip(tb.side[1 - c])],
             !.by = [pt \in PAWN..KING |-> Flip(tb.by[pt])], !.turn = 1 - @]

Tails(be, lead) ==
  LET other == <<1 - be.leads, PAWN>>
      rest  == Kinds(be) \ (Range(lead) \cup {other})
  IN  {(IF be.hasPawns /\ be.pawns[2] > 0 THEN <<other>> ELSE <<>>) \o s :
         s \in SetToSeqs(IF be.hasPawns THEN rest ELSE Kinds(be) \ Range(lead))}

\* However the file arranges the pieces, the index lies inside the table, a
\* position with the colors swapped has the same place, and a position with
\* one piece elsewhere has another one, unless it is a mirror image.
IndexTellsApart ==
  (ToTables /\ Cardinality(Occ(Handed)) \in 3..4) =>
    LET be == BaseEntry(calc_key(Handed, FALSE)) IN
    \A lead \in FirstKinds(be), first \in BOOLEAN :
      \A tail \in Tails(be, lead) :
        LET Place(tb) == TableIndex(tb, be, lead, tail, first)
            here      == Place(Handed)
        IN  /\ here.idx \in 0..(here.size - 1)
            /\ Place(Swapped(Handed)) = here
            /\ \A tb \in Displaced(Handed) :
                 Place(tb) = here => Placed(tb) \in Images(Handed)

=============================================================================

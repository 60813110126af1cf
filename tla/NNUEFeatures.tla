---------------------------- MODULE NNUEFeatures ----------------------------
(***************************************************************************)
(* From the piece list to the input of the network                         *)
(* (eval/nnue/features, nnue_feature_transformer.h).  A feature is the     *)
(* index of a column of weights; an accumulator is the sum of the columns  *)
(* of all features that are on, once for each color and each event that    *)
(* makes a full sum necessary.                                             *)
(*                                                                         *)
(* All features of the architectures are modelled but CastlingRight and    *)
(* EnPassant, which the architecture that is built does not use.  The full *)
(* sum is modelled, which every evaluation of a search takes; the update   *)
(* of the sum of the previous position is not (see README.md).  A sum is   *)
(* kept as the list of what was added.                                     *)
(***************************************************************************)
EXTENDS Position

fe_hand_end == 1
fe_end      == fe_hand_end + 64 * 10
f_king      == fe_end

\* kpp_board_index and put_piece: a piece and its square, as a color sees them.
kpp_board_index(pc, c) ==
  fe_hand_end + 64 * (2 * (PieceTypeOf(pc) - PAWN)
                      + IF ColorOf(pc) = c THEN 0 ELSE 1)
From(bona, c) ==
  IF bona = BONA_PIECE_ZERO THEN 0
  ELSE kpp_board_index(bona[1], c) + (IF c = WHITE THEN bona[2] ELSE 63 - bona[2])

-----------------------------------------------------------------------------
(* The features.                                                           *)

HalfKP(side)         == [name |-> "HalfKP", king |-> side]
HalfRelativeKP(side) == [name |-> "HalfRelativeKP", king |-> side]
P == [name |-> "P", king |-> "None"]
K == [name |-> "K", king |-> "None"]

kDimensions(f) == CASE f.name = "HalfKP"         -> 64 * fe_end
                    [] f.name = "HalfRelativeKP" -> 10 * 15 * 15
                    [] f.name = "P"              -> fe_end
                    [] f.name = "K"              -> 64 * 2
kMaxActiveDimensions(f) == IF f = K THEN 2 ELSE PIECE_NUMBER_WKING

\* Triggers in the order of the enumeration.
kNone            == 0
kFriendKingMoved == 1
kEnemyKingMoved  == 2
kRefreshTrigger(f) == CASE f.king = "Friend" -> kFriendKingMoved
                        [] f.king = "Enemy"  -> kEnemyKingMoved
                        [] OTHER             -> kNone

\* The king that a feature goes with, as the perspective sees it.
TargetKing(f, list, c) ==
  (From(list[PIECE_NUMBER_WKING + IF f.king = "Friend" THEN c ELSE Other(c)], c)
     - f_king) % 64

MakeIndex(f, list, c, p) ==
  LET sq_k == TargetKing(f, list, c)
      sq_p == (p - fe_hand_end) % 64
  IN  CASE f.name = "HalfKP" -> fe_end * sq_k + p
        [] f.name = "HalfRelativeKP" ->
             15 * 15 * ((p - fe_hand_end) \div 64)
               + 15 * (FileOf(sq_p) - FileOf(sq_k) + 7)
               + RankOf(sq_p) - RankOf(sq_k) + 7
        [] f.name = "P" -> p

\* Mutant: the list ends with the first piece that is off the board.
Indices_UntilGap(f, list, c, bonas) ==
  LET off == {i \in DOMAIN bonas : bonas[i] = BONA_PIECE_ZERO}
      on  == {i \in DOMAIN bonas : \A j \in off : i < j}
  IN  [i \in on |-> MakeIndex(f, list, c, From(bonas[i], c))]

\* The indices of pieces, without those that are off the board.
Indices(f, list, c, bonas) ==
  LET on == SelectSeq(bonas, LAMBDA bona : bona # BONA_PIECE_ZERO)
  IN  [i \in DOMAIN on |-> MakeIndex(f, list, c, From(on[i], c))]

AppendActiveIndices(f, list, c) ==
  IF f = K THEN [i \in 1..2 |-> From(list[PIECE_NUMBER_WKING + i - 1], c) - fe_end]
  ELSE Indices(f, list, c, [i \in 1..PIECE_NUMBER_WKING |-> list[i - 1]])

-----------------------------------------------------------------------------
(* Sets of features, written as sequences.  The last feature comes first,  *)
(* and a feature starts where those after it end.                          *)

TailDimensions(fs, i) == FoldLeft(LAMBDA n, f : n + kDimensions(f), 0,
                                  SubSeq(fs, i + 1, Len(fs)))
kRefreshTriggers(fs) == SetToSortSeq({kRefreshTrigger(fs[i]) : i \in DOMAIN fs}, <)

\* All that the features with this trigger give: each has its own indices.
Collected(fs, trigger, own) ==
  FoldLeft(LAMBDA all, i :
             IF kRefreshTrigger(fs[i]) # trigger THEN all
             ELSE all \o [j \in DOMAIN own[i] |-> own[i][j] + TailDimensions(fs, i)],
           <<>>, Reverse([i \in DOMAIN fs |-> i]))
ActiveIndices(fs, trigger, list, c) ==
  Collected(fs, trigger, [i \in DOMAIN fs |-> AppendActiveIndices(fs[i], list, c)])

-----------------------------------------------------------------------------
(* The accumulator of one color: for each trigger a sum, the first of them  *)
(* with the biases.                                                         *)

RefreshAccumulator(fs, list, c) ==
  [i \in DOMAIN kRefreshTriggers(fs) |->
     [biases |-> i = 1,
      plus |-> ActiveIndices(fs, kRefreshTriggers(fs)[i], list, c)]]

\* The sum of one output with these weights, in 16 bits.
Int16(n) == ((n + 32768) % 65536) - 32768
SumOf(acc, bias, weight) ==
  Int16(FoldLeft(LAMBDA x, index : x + weight[index],
                 IF acc.biases THEN bias ELSE 0, acc.plus))
=============================================================================

------------------------------ MODULE Position ------------------------------
(***************************************************************************)
(* The position of a thread: board.cpp, board.h and makemove.cpp, with the *)
(* piece list of the NNUE evaluation (EvalList in evaluate.h).  The same   *)
(* facts are kept many times over - squares, bitboards, counts, material,  *)
(* key, piece numbers - and each operation updates every copy by hand.                *)
(*                                                                         *)
(* A Zobrist key is the exclusive or of random words, here the set of the  *)
(* words that are in it, by table.  A BonaPiece is the piece and square it *)
(* encodes.  phase, which is always that of basePhase, is not kept twice.  *)
(* Of gameHistory only the entries below histPly are kept; those above     *)
(* hold what was left there, which Stale stands for.                       *)
(***************************************************************************)
EXTENDS MoveGen, Psqt, SequencesExt

CONSTANTS Fens,        \* the positions set up: piece of each occupied square,
                       \* side to move, rights, en passant square, counter,
                       \* and the bound on the line that starts there
          NoMove       \* NOMOVE

VARIABLES pos,         \* Position without its history
          gameHistory, \* gameHistory[1..histPly]
          maxPly,      \* bound on histPly, from the position set up
          before       \* history variable: pos before each move of the line

vars == <<pos, gameHistory, maxPly, before>>

\* The positions set up are positions of a game: one king each, pieces
\* enough to be numbered below the kings, rights only with king and rook at
\* home, and an en passant square right behind a pawn that moved there.
ASSUME PositionAssumption ==
  \A f \in Fens :
       /\ f.plies \in Nat /\ f.rule50 \in Nat /\ f.stm \in {WHITE, BLACK}
       /\ DOMAIN f.board \subseteq Square
       /\ \A s \in DOMAIN f.board : f.board[s] \in Pieces
       /\ \A c \in {WHITE, BLACK} :
            Cardinality({s \in DOMAIN f.board :
                           f.board[s] = MakePiece(c, KING)}) = 1
       /\ Cardinality({s \in DOMAIN f.board :
                         PieceTypeOf(f.board[s]) # KING}) <= 30
       /\ f.rights \subseteq OO \cup OOO
       /\ \A right \in f.rights :
            LET c    == IF right \in CastleOf(WHITE) THEN WHITE ELSE BLACK
                king == IF c = WHITE THEN E1 ELSE E8
                rook == IF right \in OO THEN king + 3 ELSE king - 4
            IN  /\ {king, rook} \subseteq DOMAIN f.board
                /\ f.board[king] = MakePiece(c, KING)
                /\ f.board[rook] = MakePiece(c, ROOK)
       /\ f.ep \in Square
       /\ f.ep # 0 => /\ RelativeRank(f.stm, RankOf(f.ep)) = 5
                      /\ f.ep \notin DOMAIN f.board
                      /\ Xor8(f.ep) \in DOMAIN f.board
                      /\ f.board[Xor8(f.ep)] = MakePiece(Other(f.stm), PAWN)

\* There is a longest line.
ASSUME FensFinite == IsFiniteSet(Fens)

\* NOMOVE is zero, and a move leaves the square it starts from.
ASSUME NoMoveAssumption ==
  NoMove \notin [from : Square, to : Square, capt : Pieces \cup {EMPTY},
                 promo : Pieces \cup {EMPTY},
                 flag : {"none", "pstart", "enpas", "castle"}]

PIECE_NUMBER_WKING == 30
PIECE_NUMBER_BKING == 31
PIECE_NUMBER_NB    == 32
PieceNumber == 0..31
Stale == PIECE_NUMBER_NB
BONA_PIECE_ZERO == <<EMPTY, 0>>

-----------------------------------------------------------------------------
(* The key.  PieceKeys[EMPTY] only has words for ranks 3 to 6, so the word *)
(* of "no en passant square" is zero.                                      *)

HashPce(key, piece, sq) == [key EXCEPT !.pieces = SymDiff(@, {<<piece, sq>>})]
HashCA(key, rights)     == [key EXCEPT !.castle = SymDiff(@, {rights})]
HashSide(key)           == [key EXCEPT !.side = ~@]

\* Mutant: PieceKeys[EMPTY] has a word for every square.
HashEP_EverySquare(key, sq) == [key EXCEPT !.ep = SymDiff(@, {sq})]

HashEP(key, sq) == IF sq \in 16..47 THEN [key EXCEPT !.ep = SymDiff(@, {sq})]
                                    ELSE key

GeneratePosKey(p) ==
  HashEP([pieces |-> {<<p.board[sq], sq>> :
                        sq \in {s \in Square : p.board[s] # EMPTY}},
          side   |-> p.stm = WHITE,
          castle |-> {p.castlingRights},
          ep     |-> {}], p.epSquare)

-----------------------------------------------------------------------------
(* The piece list.                                                         *)

SetPieceOnBoard(p, no, bona, sq) ==
  [p EXCEPT !.pieceList[no] = bona, !.pieceNoOn[sq] = no]
PutPiece(p, no, sq, pc)  == SetPieceOnBoard(p, no, <<pc, sq>>, sq)
NoPieceNumber(p, sq)     == [p EXCEPT !.pieceNoOn[sq] = PIECE_NUMBER_NB]

-----------------------------------------------------------------------------
(* Squares, bitboards, counts and key.                                     *)

ToggleBB(p, piece, squares) ==
  [p EXCEPT !.pieceBB[ALL]                = SymDiff(@, squares),
            !.pieceBB[PieceTypeOf(piece)] = SymDiff(@, squares),
            !.colorBB[ColorOf(piece)]     = SymDiff(@, squares)]

SetBB(p, piece, sq) ==
  [p EXCEPT !.pieceBB[ALL]                = @ \cup {sq},
            !.pieceBB[PieceTypeOf(piece)] = @ \cup {sq},
            !.colorBB[ColorOf(piece)]     = @ \cup {sq}]

ClearPiece(p, sq, hash) ==
  LET piece == p.board[sq] IN
  [ToggleBB(p, piece, {sq}) EXCEPT
     !.key = IF hash THEN HashPce(@, piece, sq) ELSE @,
     !.board[sq] = EMPTY,
     !.material = @ - PSQT(piece, sq),
     !.basePhase = @ - PhaseValue(piece),
     !.nonPawnCount[ColorOf(piece)] = @ - NonPawn(piece)]

AddPiece(p, sq, piece, hash) ==
  [SetBB(p, piece, sq) EXCEPT
     !.key = IF hash THEN HashPce(@, piece, sq) ELSE @,
     !.board[sq] = piece,
     !.material = @ + PSQT(piece, sq),
     !.basePhase = @ + PhaseValue(piece),
     !.nonPawnCount[ColorOf(piece)] = @ + NonPawn(piece)]

MovePiece(p, from, to, hash) ==
  LET piece == p.board[from] IN
  [ToggleBB(p, piece, {from, to}) EXCEPT
     !.key = IF hash THEN HashPce(HashPce(@, piece, from), piece, to) ELSE @,
     !.board[from] = EMPTY,
     !.board[to]   = piece,
     !.material = @ + PSQT(piece, to) - PSQT(piece, from)]

\* Where the rook of a castling king goes.
RookFrom(to) == CASE to = C1 -> A1 [] to = C8 -> A8 [] to = G1 -> H1
                  [] OTHER -> H8
RookTo(to)   == CASE to = C1 -> D1 [] to = C8 -> D8 [] to = G1 -> F1
                  [] OTHER -> F8

-----------------------------------------------------------------------------
(* ParseFen.  Numbers are given in the order of the string, from A8 to H1. *)

NextPieceNumber(f, sq) ==
  CASE f.board[sq] = MakePiece(WHITE, KING) -> PIECE_NUMBER_WKING
    [] f.board[sq] = MakePiece(BLACK, KING) -> PIECE_NUMBER_BKING
    [] OTHER -> Cardinality({s \in DOMAIN f.board :
                  /\ PieceTypeOf(f.board[s]) # KING
                  /\ \/ RankOf(s) > RankOf(sq)
                     \/ RankOf(s) = RankOf(sq) /\ s < sq})

\* A sum over the squares, from A1 on.
SquareSum(value) ==
  LET sum[n \in 0..64] == IF n = 0 THEN 0 ELSE sum[n - 1] + value[n - 1]
  IN  sum[64]

\* Everything that follows from the squares.
UpdatePosition(p) ==
  LET b == p.board
      occupied == {sq \in Square : b[sq] # EMPTY}
  IN  [p EXCEPT
         !.colorBB = [c \in {WHITE, BLACK} |-> {sq \in occupied : ColorOf(b[sq]) = c}],
         !.pieceBB = [pt \in ALL..KING |->
                        {sq \in occupied : pt \in {ALL, PieceTypeOf(b[sq])}}],
         !.nonPawnCount = [c \in {WHITE, BLACK} |->
            Cardinality({sq \in occupied : ColorOf(b[sq]) = c /\ NonPawn(b[sq]) = 1})],
         !.material = SquareSum([sq \in Square |->
                        IF b[sq] = EMPTY THEN 0 ELSE PSQT(b[sq], sq)]),
         !.basePhase = SquareSum([sq \in Square |->
                         IF b[sq] = EMPTY THEN 0 ELSE PhaseValue(b[sq])])]

ParseFen(f) ==
  LET occupied == DOMAIN f.board
      p == UpdatePosition(
           [board   |-> [sq \in Square |->
                           IF sq \in occupied THEN f.board[sq] ELSE EMPTY],
            stm     |-> f.stm,
            key     |-> {},
            epSquare |-> 0,
            rule50  |-> f.rule50,
            castlingRights |-> f.rights,
            pieceNoOn |-> [sq \in Square |->
              IF sq \in occupied THEN NextPieceNumber(f, sq)
                                 ELSE PIECE_NUMBER_NB],
            pieceList |-> [no \in PieceNumber |->
              LET on == {sq \in occupied : NextPieceNumber(f, sq) = no} IN
              IF on = {} THEN BONA_PIECE_ZERO
              ELSE LET sq == CHOOSE s \in on : TRUE IN <<f.board[sq], sq>>],
            colorBB |-> 0, pieceBB |-> 0, nonPawnCount |-> 0,
            material |-> 0, basePhase |-> 0])
      epValid == f.ep # 0 /\ PawnAttacks[Other(f.stm)][f.ep] \cap
                               ColorPieceBB(p, f.stm, PAWN) # {}
      q == [p EXCEPT !.epSquare = IF epValid THEN f.ep ELSE 0]
  IN  [q EXCEPT !.key = GeneratePosKey(q)]

\* The position with the colors reversed.  The piece list is not filled.
MirrorBoard(p) ==
  LET q == UpdatePosition(
        [board |-> [sq \in Square |-> MirrorPiece(p.board[MirrorSquare(sq)])],
         stm   |-> Other(p.stm),
         epSquare |-> IF p.epSquare = 0 THEN 0 ELSE MirrorSquare(p.epSquare),
         rule50   |-> 0,
         castlingRights |-> {right * 4 : right \in p.castlingRights \cap CastleOf(WHITE)}
           \cup {right \div 4 : right \in p.castlingRights \cap CastleOf(BLACK)},
         colorBB |-> 0, pieceBB |-> 0, nonPawnCount |-> 0,
         material |-> 0, basePhase |-> 0, key |-> 0])
  IN  [q EXCEPT !.key = GeneratePosKey(q)]

-----------------------------------------------------------------------------
(* TakeMove and MakeMove of a position p.                                  *)

\* Mutant: the rook's squares are forgotten.
CastlePerm_KingOnly(sq) ==
  (OO \cup OOO) \ CASE sq = E1 -> CastleOf(WHITE)
                     [] sq = E8 -> CastleOf(BLACK)
                     [] OTHER   -> {}

\* The rights that stay when a piece moves from or to a square.
CastlePerm(sq) ==
  (OO \cup OOO) \ CASE sq = A1 -> {WHITE_OOO} [] sq = H1 -> {WHITE_OO}
                     [] sq = A8 -> {BLACK_OOO} [] sq = H8 -> {BLACK_OO}
                     [] sq = E1 -> CastleOf(WHITE)
                     [] sq = E8 -> CastleOf(BLACK)
                     [] OTHER   -> {}

\* Mutant: the castling rights stay lost.
FromHistory_NoRights(p, st) ==
  [p EXCEPT !.key = st.posKey, !.epSquare = st.epSquare,
            !.rule50 = st.rule50]

\* The fields that come back from a StateInfo.
FromHistory(p, st) ==
  [p EXCEPT !.key = st.posKey, !.epSquare = st.epSquare,
            !.rule50 = st.rule50, !.castlingRights = st.castlingRights]

\* pc is read before the move is taken back: for a promotion it is the pawn.
TakenBack(p, st) ==
  LET move == st.move
      from == move.from
      to   == move.to
      us   == Other(p.stm)
      no   == st.dirtyPiece.pieceNo
      pawn == MakePiece(us, PAWN)
      pc   == IF move.promo # EMPTY THEN pawn ELSE p.board[to]
      p1   == [p EXCEPT !.stm = us]
      p2   == IF move.promo # EMPTY THEN PutPiece(p1, no[0], to, pc) ELSE p1
      p3   == CASE move.flag = "enpas" ->
                     AddPiece(p2, Xor8(to), MakePiece(Other(us), PAWN), FALSE)
                [] move.flag = "castle" ->
                     LET rto   == RookTo(to)
                         rfrom == RookFrom(to)
                     IN  PutPiece(
                           NoPieceNumber(MovePiece(p2, rto, rfrom, FALSE), rto),
                           p2.pieceNoOn[rto], rfrom, MakePiece(us, ROOK))
                [] OTHER -> p2
      p4   == NoPieceNumber(
                PutPiece(MovePiece(p3, to, from, FALSE), no[0], from, pc), to)
      p5   == IF move.capt = EMPTY THEN p4
              ELSE PutPiece(AddPiece(p4, to, move.capt, FALSE),
                            no[1], IF move.flag = "enpas" THEN Xor8(to) ELSE to,
                            move.capt)
      p6   == IF move.flag # "enpas" THEN p5
              ELSE PutPiece(p5, no[1], Xor8(to), MakePiece(Other(us), PAWN))
      p7   == IF move.promo = EMPTY THEN p6
              ELSE AddPiece(ClearPiece(p6, from, FALSE), from, pawn, FALSE)
  IN  FromHistory(p7, st)

\* The piece numbered no leaves the list; capsq has no number any more.
Unlist(p, no, capsq) ==
  NoPieceNumber(SetPieceOnBoard(p, no, BONA_PIECE_ZERO, capsq), capsq)

\* The position after a pawn, now on to, has moved: en passant square,
\* captured pawn, promotion.
PawnSpecifics(p, move, no0) ==
  LET to     == move.to
      passed == Xor8(to)
  IN  CASE move.flag = "pstart" ->
             IF PawnAttacks[p.stm][passed] \cap
                  ColorPieceBB(p, Other(p.stm), PAWN) # {}
             THEN [p EXCEPT !.epSquare = passed, !.key = HashEP(@, passed)]
             ELSE p
        [] move.flag = "enpas" -> ClearPiece(p, passed, TRUE)
        [] move.flag \notin {"pstart", "enpas"} /\ move.promo # EMPTY ->
             PutPiece(AddPiece(ClearPiece(p, to, TRUE), to, move.promo, TRUE),
                      no0, to, move.promo)
        [] OTHER -> p

DirtyNum(move) ==
  IF move.capt # EMPTY \/ move.flag \in {"enpas", "castle"} THEN 2 ELSE 1

\* Which piece numbers changed from p to q: the moved piece, and with it the
\* captured piece or the rook.  Otherwise the second entry is what was there.
DirtyPieceOf(p, q, move, no0, no1) ==
  LET no == [i \in 0..1 |-> IF i = 0 THEN no0
                            ELSE IF DirtyNum(move) = 2 THEN no1 ELSE Stale]
      Of(list) == [i \in 0..1 |-> IF no[i] = Stale THEN BONA_PIECE_ZERO
                                  ELSE list[no[i]]]
  IN  [dirty_num |-> DirtyNum(move), pieceNo |-> no,
       old_piece |-> Of(p.pieceList), new_piece |-> Of(q.pieceList)]

\* The position after a move, and the StateInfo left behind.  The rights are
\* hashed out and in, like the en passant square.
Made(p, move) ==
  LET from  == move.from
      to    == move.to
      us    == p.stm
      pc    == p.board[from]
      stays == p.castlingRights \cap CastlePerm(from) \cap CastlePerm(to)
      capsq == CASE move.flag = "enpas"  -> Xor8(to)
                 [] move.flag = "castle" -> RookFrom(to)
                 [] OTHER -> to
      no1   == p.pieceNoOn[capsq]
      no0   == p.pieceNoOn[from]
      p1 == [p EXCEPT !.rule50 = @ + 1, !.epSquare = 0,
                      !.castlingRights = stays,
                      !.key = HashCA(HashCA(HashEP(@, p.epSquare),
                                            p.castlingRights), stays)]
      p2 == IF move.capt = EMPTY THEN p1
            ELSE [ClearPiece(Unlist(p1, no1, to), to, TRUE)
                    EXCEPT !.rule50 = 0]
      p3 == IF move.flag = "enpas" THEN Unlist(p2, no1, capsq) ELSE p2
      p4 == PutPiece(NoPieceNumber(MovePiece(p3, from, to, TRUE), from),
                     no0, to, pc)
      p5 == IF PieceTypeOf(pc) = PAWN
            THEN PawnSpecifics([p4 EXCEPT !.rule50 = 0], move, no0)
            ELSE IF move.flag = "castle"
            THEN PutPiece(NoPieceNumber(MovePiece(p4, capsq, RookTo(to), TRUE),
                                        capsq),
                          no1, RookTo(to), MakePiece(us, ROOK))
            ELSE p4
      p6 == [p5 EXCEPT !.stm = Other(us), !.key = HashSide(@)]
  IN  [pos |-> p6,
       st  |-> [posKey |-> p.key, move |-> move, epSquare |-> p.epSquare,
                rule50 |-> p.rule50, castlingRights |-> p.castlingRights,
                dirtyPiece |-> DirtyPieceOf(p, p5, move, no0, no1)]]

-----------------------------------------------------------------------------
(* The operations.  The search makes a move the picker returned: one of    *)
(* the generated moves, or one MoveIsPseudoLegal accepts.                  *)

histPly == Len(gameHistory)

\* A move that leaves the own king attacked is taken back at once.
MakeMove(move) ==
  LET made == Made(pos, move) IN
  IF KingAttacked(made.pos, Other(made.pos.stm))
  THEN /\ pos' = TakenBack(made.pos, made.st)
       /\ UNCHANGED <<gameHistory, before, maxPly>>
  ELSE /\ pos' = made.pos
       /\ gameHistory' = Append(gameHistory, made.st)
       /\ before' = Append(before, pos)
       /\ UNCHANGED maxPly

TakeMove ==
  /\ pos' = TakenBack(pos, Last(gameHistory))
  /\ gameHistory' = Front(gameHistory)
  /\ before' = Front(before)
  /\ UNCHANGED maxPly

\* MakeNullMove writes the dirtyPiece of the next entry, so that of its own
\* is what was there.
NoDirtyPiece ==
  LET zero == [i \in 0..1 |-> BONA_PIECE_ZERO]
  IN  [dirty_num |-> 0, pieceNo |-> [i \in 0..1 |-> Stale],
       old_piece |-> zero, new_piece |-> zero]

\* Null move pruning: not at the root, not in check, not twice in a row,
\* and only with a piece besides pawns.
MakeNullMove ==
  /\ histPly > 0 /\ histPly < maxPly
  /\ Last(gameHistory).move # NoMove
  /\ ~KingAttacked(pos, pos.stm)
  /\ pos.nonPawnCount[pos.stm] > 0
  /\ gameHistory' = Append(gameHistory,
       [posKey |-> pos.key, move |-> NoMove, epSquare |-> pos.epSquare,
        rule50 |-> pos.rule50, castlingRights |-> pos.castlingRights,
        dirtyPiece |-> NoDirtyPiece])
  /\ pos' = [pos EXCEPT !.rule50 = 0, !.stm = Other(@), !.epSquare = 0,
                        !.key = HashEP(HashSide(@), pos.epSquare)]
  /\ before' = Append(before, pos)
  /\ UNCHANGED maxPly

TakeNullMove ==
  /\ pos' = FromHistory([pos EXCEPT !.stm = Other(@)], Last(gameHistory))
  /\ gameHistory' = Front(gameHistory)
  /\ before' = Front(before)
  /\ UNCHANGED maxPly

\* No position set up has the king of the side that moved in check.
ASSUME FenAssumption ==
  \A f \in Fens : ~KingAttacked(ParseFen(f), Other(f.stm))

Init ==
  /\ \E f \in Fens : pos = ParseFen(f) /\ maxPly = f.plies
  /\ gameHistory = <<>>
  /\ before = <<>>

SearchMove ==
  /\ histPly < maxPly
  /\ \E move \in GenNoisyMoves(pos) \cup GenQuietMoves(pos) : MakeMove(move)

TakeBack == histPly > 0 /\ Last(gameHistory).move # NoMove /\ TakeMove
TakeBackNull == histPly > 0 /\ Last(gameHistory).move = NoMove /\ TakeNullMove

Next == SearchMove \/ TakeBack \/ MakeNullMove \/ TakeBackNull

Spec == Init /\ [][Next]_vars

-----------------------------------------------------------------------------
(* Properties.                                                             *)

\* Each part of the position has its type, and the en passant square is on
\* the rank behind a pawn start.
TypeOK ==
  /\ pos.board \in [Square -> Pieces \cup {EMPTY}]
  /\ pos.stm \in {WHITE, BLACK}
  /\ pos.epSquare \in {0} \cup {sq \in Square : RankOf(sq) \in {2, 5}}
  /\ pos.castlingRights \subseteq OO \cup OOO
  /\ pos.pieceNoOn \in [Square -> 0..PIECE_NUMBER_NB]
  /\ DOMAIN pos.pieceList = PieceNumber
  /\ histPly \in 0..maxPly /\ Len(before) = histPly

\* What PositionOk (board.cpp) asserts: bitboards, counts and the key that
\* was kept up to date are those of the squares, there is one king of each
\* color, the en passant square is behind a pawn of the side that moved, and
\* that side has not left its king attacked.
PositionOk ==
  LET On(pcs) == {sq \in Square : pos.board[sq] \in pcs} IN
  /\ TypeOK
  /\ \A c \in {WHITE, BLACK} :
       /\ Cardinality(On({MakePiece(c, KING)})) = 1
       /\ \A pt \in PAWN..KING :
            ColorPieceBB(pos, c, pt) = On({MakePiece(c, pt)})
       /\ pos.nonPawnCount[c] =
            Cardinality(On({pc \in Pieces : ColorOf(pc) = c /\ NonPawn(pc) = 1}))
  /\ pos.pieceBB[ALL] = pos.colorBB[WHITE] \cup pos.colorBB[BLACK]
  /\ pos.epSquare # 0 => RelativeRank(pos.stm, RankOf(pos.epSquare)) = 5
  /\ pos.key = GeneratePosKey(pos)
  /\ ~KingAttacked(pos, Other(pos.stm))

\* What EvalList::is_valid (evaluate.cpp) asserts, and that no captured
\* piece stays in the list: numbers and squares point to each other, so that
\* the network is fed exactly the pieces on the board.  The kings keep the
\* numbers by which the features find them.
EvalListIsValid ==
  /\ \A sq \in Square :
       IF pos.board[sq] = EMPTY THEN pos.pieceNoOn[sq] = PIECE_NUMBER_NB
       ELSE /\ pos.pieceNoOn[sq] \in PieceNumber
            /\ pos.pieceList[pos.pieceNoOn[sq]] = <<pos.board[sq], sq>>
  /\ \A no \in PieceNumber :
       LET bona == pos.pieceList[no] IN
       bona = BONA_PIECE_ZERO \/ pos.pieceNoOn[bona[2]] = no
  /\ pos.pieceList[PIECE_NUMBER_WKING][1] = MakePiece(WHITE, KING)
  /\ pos.pieceList[PIECE_NUMBER_BKING][1] = MakePiece(BLACK, KING)

CopiesAgree == PositionOk /\ EvalListIsValid

\* Taking back restores the whole position, every copy of it, and so does
\* the take back inside MakeMove when the move was illegal.
TakeBackRestores ==
  [][/\ Len(gameHistory') < Len(gameHistory) => pos' = Last(before)
     /\ Len(gameHistory') = Len(gameHistory) => pos' = pos]_vars

\* The position without what only serves speed, and the line to it.
Core(p) == [board |-> p.board, stm |-> p.stm, ep |-> p.epSquare,
            rights |-> p.castlingRights, rule50 |-> p.rule50]
Line == [k \in 1..(histPly + 1) |->
           Core(IF k <= histPly THEN before[k] ELSE pos)]

Rules == INSTANCE Game WITH line <- Line,
                            First <- {Core(ParseFen(f)) : f \in Fens},
                            MaxPlies <- Max({f.plies : f \in Fens})

\* Making and taking back moves, legal or not, and null moves, is play
\* under the rules of chess.
PlaysByRules == Rules!Spec

\* The two generators together give every move of the rules, and each once.
EachMoveOnce ==
  LET noisy == GenNoisyMoves(pos)
      quiet == GenQuietMoves(pos)
      moves == Rules!Moves(Core(pos))
  IN  /\ {[from |-> m.from, to |-> m.to, promo |-> m.promo] :
             m \in noisy \cup quiet} = moves
      /\ Cardinality(noisy) + Cardinality(quiet) = Cardinality(moves)

\* Moves that are pseudo-legal in some position with this side to move and a
\* piece of its own on the square they leave.
SomewherePseudoLegal(p) ==
  LET Dir      == Up(p.stm)
      Rank(sq) == RelativeRank(p.stm, RankOf(sq))
      Reach(from) == PseudoAttacks[KNIGHT][from] \cup AttackBB(QUEEN, from, {})
      Promos(from, to) ==
        IF Rank(to) = 7 /\ to - from \in {Dir - 1, Dir, Dir + 1}
        THEN {MakePiece(p.stm, pt) : pt \in KNIGHT..QUEEN} ELSE {}
      Capts(to) == {EMPTY, p.board[to]} \cup {MakePiece(Other(p.stm), PAWN)}
  IN  UNION {
        (UNION {UNION {{MOVE(from, to, capt, promo, "none") :
                          promo \in {EMPTY} \cup Promos(from, to)} :
                         capt \in Capts(to)} : to \in Reach(from)})
        \cup {MOVE(from, to, EMPTY, EMPTY, "enpas") :
                to \in IF Rank(from) = 4 THEN PawnAttacks[p.stm][from] ELSE {}}
        \cup {MOVE(from, to, EMPTY, EMPTY, "pstart") :
                to \in IF Rank(from) = 1 THEN {from + 2 * Dir} ELSE {}}
        \cup {MOVE(from, to, EMPTY, EMPTY, "castle") :
                to \in IF from = (IF p.stm = WHITE THEN E1 ELSE E8)
                       THEN {from - 2, from + 2} ELSE {}}
        : from \in p.colorBB[p.stm]}

\* MoveIsPseudoLegal accepts a move from elsewhere exactly if the generators
\* would give it here.
PseudoLegalExact ==
  LET generated == GenNoisyMoves(pos) \cup GenQuietMoves(pos)
  IN  /\ \A m \in generated : MoveIsPseudoLegal(pos, m)
      /\ \A m \in SomewherePseudoLegal(pos) :
           MoveIsPseudoLegal(pos, m) => m \in generated

=============================================================================

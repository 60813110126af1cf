--------------------------- MODULE PositionProofs ---------------------------
(***************************************************************************)
(* Proofs about Position, for all positions a game can reach and all moves *)
(* the generators give in them: MakeMove keeps every copy of the position  *)
(* in step with the squares, and TakeMove brings back all of it.           *)
(*                                                                         *)
(* Good(p) holds of a position between two operations.  Made is followed   *)
(* step by step, and each step says what it did to the board, the list and *)
(* the sums; TakenBack is followed the same way from there.  GeneratedOk   *)
(* says what the generators guarantee of a move, ParseFenGood what the     *)
(* parser guarantees of a position.  IInv then puts the line of positions  *)
(* and the history together.                                               *)
(***************************************************************************)
EXTENDS Position, FiniteSetTheorems, WellFoundedInduction, TLAPS

-----------------------------------------------------------------------------
(* Types, and when the copies agree.                                       *)

Colors == {WHITE, BLACK}
KeyType == [pieces : SUBSET (Pieces \X Square), side : BOOLEAN,
            castle : SUBSET SUBSET (OO \cup OOO), ep : SUBSET Square]
BonaPieces == (Pieces \cup {EMPTY}) \X Square
PositionType ==
  [board : [Square -> Pieces \cup {EMPTY}], stm : Colors, key : KeyType,
   epSquare : Square, rule50 : Nat, castlingRights : SUBSET (OO \cup OOO),
   pieceNoOn : [Square -> 0..PIECE_NUMBER_NB],
   pieceList : [PieceNumber -> BonaPieces],
   colorBB : [Colors -> SUBSET Square],
   pieceBB : [ALL..KING -> SUBSET Square],
   nonPawnCount : [Colors -> Int], material : Int, basePhase : Int]

Occupied(board)   == {sq \in Square : board[sq] # EMPTY}
OfColor(board, c) == {sq \in Square : board[sq] # EMPTY /\ ColorOf(board[sq]) = c}
OfType(board, pt) == {sq \in Square : board[sq] # EMPTY /\ PieceTypeOf(board[sq]) = pt}
NonPawns(board, c) == {sq \in Square : /\ board[sq] # EMPTY
                                       /\ ColorOf(board[sq]) = c
                                       /\ NonPawn(board[sq]) = 1}
Words(board) == {<<board[sq], sq>> : sq \in {s \in Square : board[s] # EMPTY}}

\* Bitboards and counts are those of the squares.
Agrees(p) ==
  /\ p.pieceBB[ALL] = Occupied(p.board)
  /\ \A pt \in PAWN..KING : p.pieceBB[pt] = OfType(p.board, pt)
  /\ \A c \in Colors : /\ p.colorBB[c] = OfColor(p.board, c)
                       /\ p.nonPawnCount[c] = Cardinality(NonPawns(p.board, c))

SameState(p, q) == /\ q.stm = p.stm /\ q.epSquare = p.epSquare
                   /\ q.rule50 = p.rule50
                   /\ q.castlingRights = p.castlingRights
SameList(p, q)  == q.pieceNoOn = p.pieceNoOn /\ q.pieceList = p.pieceList
SameSquares(p, q) == /\ q.board = p.board /\ q.key = p.key
                     /\ q.colorBB = p.colorBB /\ q.pieceBB = p.pieceBB
                     /\ q.nonPawnCount = p.nonPawnCount
                     /\ q.material = p.material /\ q.basePhase = p.basePhase

\* A change of the squares that hashes them keeps the words of the key theirs.
KeepsWords(p, q) ==
  /\ q.key.side = p.key.side /\ q.key.castle = p.key.castle
  /\ q.key.ep = p.key.ep
  /\ p.key.pieces = Words(p.board) => q.key.pieces = Words(q.board)

LEMMA PieceFacts ==
  ASSUME NEW pc \in Pieces
  PROVE  /\ pc \in Nat /\ pc # EMPTY
         /\ ColorOf(pc) \in Colors /\ PieceTypeOf(pc) \in PAWN..KING
         /\ pc = MakePiece(ColorOf(pc), PieceTypeOf(pc))
         /\ NonPawn(pc) \in {0, 1}
         /\ NonPawn(pc) = 1 <=> PieceTypeOf(pc) \in KNIGHT..QUEEN
         /\ PhaseValue(pc) \in Int
BY DEF Pieces, MakePiece, ColorOf, PieceTypeOf, Colors, WHITE, BLACK, PAWN,
       KING, EMPTY, NonPawn, PhaseValue, KNIGHT, BISHOP, ROOK, QUEEN

LEMMA MakePieceFacts ==
  ASSUME NEW c \in Colors, NEW pt \in PAWN..KING
  PROVE  /\ MakePiece(c, pt) \in Pieces
         /\ ColorOf(MakePiece(c, pt)) = c /\ PieceTypeOf(MakePiece(c, pt)) = pt
BY DEF Pieces, MakePiece, ColorOf, PieceTypeOf, Colors, WHITE, BLACK, PAWN,
       KING, EMPTY

BoardType == [Square -> Pieces \cup {EMPTY}]

\* What an operation writes to the squares, the list and the numbers.
Emptied(board, sq)      == [board EXCEPT ![sq] = EMPTY]
Filled(board, sq, pc)   == [board EXCEPT ![sq] = pc]
Plus(set, x) == set \cup {x}
Listed(list, no, bona)  == [list EXCEPT ![no] = bona]
Numbered(nos, sq, no)   == [nos EXCEPT ![sq] = no]

LEMMA SetPieceFields ==
  ASSUME NEW p \in PositionType, NEW no \in PieceNumber, NEW sq \in Square,
         NEW bona \in BonaPieces
  PROVE  LET q == SetPieceOnBoard(p, no, bona, sq) IN
         /\ q \in PositionType /\ SameState(p, q) /\ SameSquares(p, q)
         /\ q.pieceList = Listed(p.pieceList, no, bona)
         /\ q.pieceNoOn = Numbered(p.pieceNoOn, sq, no)
<1> DEFINE q == SetPieceOnBoard(p, no, bona, sq)
<1>1. q = [p EXCEPT !.pieceList[no] = bona, !.pieceNoOn[sq] = no]
  BY DEF SetPieceOnBoard
<1> HIDE DEF q
<1>2. no \in 0..PIECE_NUMBER_NB
  BY DEF PieceNumber, PIECE_NUMBER_NB
<1>3. q.pieceList = Listed(p.pieceList, no, bona)
  BY <1>1 DEF PositionType, Listed
<1>4. q.pieceNoOn = Numbered(p.pieceNoOn, sq, no)
  BY <1>1 DEF PositionType, Numbered
<1>5. q.pieceList \in [PieceNumber -> BonaPieces]
  BY <1>3 DEF PositionType, Listed
<1>6. q.pieceNoOn \in [Square -> 0..PIECE_NUMBER_NB]
  BY <1>2, <1>4 DEF PositionType, Numbered
<1>7. q \in PositionType
  BY <1>1, <1>5, <1>6 DEF PositionType
<1>8. SameState(p, q) /\ SameSquares(p, q)
  BY <1>1 DEF PositionType, SameState, SameSquares
<1> QED
  BY <1>3, <1>4, <1>7, <1>8 DEF q

LEMMA NoNumberFields ==
  ASSUME NEW p \in PositionType, NEW sq \in Square
  PROVE  LET q == NoPieceNumber(p, sq) IN
         /\ q \in PositionType /\ SameState(p, q) /\ SameSquares(p, q)
         /\ q.pieceList = p.pieceList
         /\ q.pieceNoOn = Numbered(p.pieceNoOn, sq, PIECE_NUMBER_NB)
<1> DEFINE q == NoPieceNumber(p, sq)
<1>1. q = [p EXCEPT !.pieceNoOn[sq] = PIECE_NUMBER_NB]
  BY DEF NoPieceNumber
<1> HIDE DEF q
<1>2. PIECE_NUMBER_NB \in 0..PIECE_NUMBER_NB
  BY DEF PIECE_NUMBER_NB
<1>3. q.pieceNoOn = Numbered(p.pieceNoOn, sq, PIECE_NUMBER_NB)
  BY <1>1 DEF PositionType, Numbered
<1>4. q.pieceNoOn \in [Square -> 0..PIECE_NUMBER_NB]
  BY <1>2, <1>3 DEF PositionType, Numbered
<1>5. q \in PositionType
  BY <1>1, <1>4 DEF PositionType
<1>6. q.pieceList = p.pieceList /\ SameState(p, q) /\ SameSquares(p, q)
  BY <1>1 DEF PositionType, SameState, SameSquares
<1> QED
  BY <1>3, <1>5, <1>6 DEF q

LEMMA PutPieceFields ==
  ASSUME NEW p \in PositionType, NEW no \in PieceNumber, NEW sq \in Square,
         NEW pc \in Pieces
  PROVE  LET q == PutPiece(p, no, sq, pc) IN
         /\ q \in PositionType /\ SameState(p, q) /\ SameSquares(p, q)
         /\ q.pieceList = Listed(p.pieceList, no, <<pc, sq>>)
         /\ q.pieceNoOn = Numbered(p.pieceNoOn, sq, no)
<1>1. <<pc, sq>> \in BonaPieces
  BY DEF BonaPieces
<1> QED
  BY <1>1, SetPieceFields DEF PutPiece

LEMMA UnlistFields ==
  ASSUME NEW p \in PositionType, NEW no \in PieceNumber, NEW sq \in Square
  PROVE  LET q == Unlist(p, no, sq) IN
         /\ q \in PositionType /\ SameState(p, q) /\ SameSquares(p, q)
         /\ q.pieceList = Listed(p.pieceList, no, BONA_PIECE_ZERO)
         /\ q.pieceNoOn = Numbered(p.pieceNoOn, sq, PIECE_NUMBER_NB)
<1>1. BONA_PIECE_ZERO \in BonaPieces
  BY DEF BonaPieces, BONA_PIECE_ZERO, Square
<1> DEFINE r == SetPieceOnBoard(p, no, BONA_PIECE_ZERO, sq)
           q == Unlist(p, no, sq)
<1>2. /\ r \in PositionType /\ SameState(p, r) /\ SameSquares(p, r)
      /\ r.pieceList = Listed(p.pieceList, no, BONA_PIECE_ZERO)
      /\ r.pieceNoOn = Numbered(p.pieceNoOn, sq, no)
  BY <1>1, SetPieceFields
<1>3. q = NoPieceNumber(r, sq)
  BY DEF Unlist
<1> HIDE DEF r, q
<1>4. /\ q \in PositionType /\ SameState(r, q) /\ SameSquares(r, q)
      /\ q.pieceList = r.pieceList
      /\ q.pieceNoOn = Numbered(r.pieceNoOn, sq, PIECE_NUMBER_NB)
  BY <1>2, <1>3, NoNumberFields
<1>5. q.pieceNoOn = Numbered(p.pieceNoOn, sq, PIECE_NUMBER_NB)
  BY <1>2, <1>4 DEF PositionType, Numbered
<1>6. SameState(p, q) /\ SameSquares(p, q) /\ q.pieceList = r.pieceList
  BY <1>2, <1>4 DEF SameState, SameSquares
<1> QED
  BY <1>2, <1>4, <1>5, <1>6 DEF q

LEMMA NonPawnsFinite ==
  ASSUME NEW board, NEW c
  PROVE  /\ IsFiniteSet(NonPawns(board, c))
         /\ Cardinality(NonPawns(board, c)) \in Nat
<1>1. IsFiniteSet(Square)
  <2>1. IsFiniteSet(0..63)
    BY FS_Interval, 0 \in Int, 63 \in Int
  <2> QED
    BY <2>1 DEF Square
<1>2. NonPawns(board, c) \in SUBSET Square
  BY DEF NonPawns
<1> QED
  BY <1>1, <1>2, FS_Subset, FS_CardinalityType

LEMMA BoardClear ==
  ASSUME NEW b \in BoardType, NEW sq \in Square, b[sq] \in Pieces
  PROVE  LET d == Emptied(b, sq) IN
         /\ d \in BoardType
         /\ Occupied(d) = SymDiff(Occupied(b), {sq})
         /\ Words(d) = SymDiff(Words(b), {<<b[sq], sq>>})
         /\ \A pt \in PAWN..KING : OfType(d, pt) =
              IF pt = PieceTypeOf(b[sq]) THEN SymDiff(OfType(b, pt), {sq})
                                         ELSE OfType(b, pt)
         /\ \A c \in Colors :
              /\ OfColor(d, c) =
                   IF c = ColorOf(b[sq]) THEN SymDiff(OfColor(b, c), {sq})
                                         ELSE OfColor(b, c)
              /\ Cardinality(NonPawns(d, c)) = Cardinality(NonPawns(b, c))
                   - (IF c = ColorOf(b[sq]) THEN NonPawn(b[sq]) ELSE 0)
<1> DEFINE d == Emptied(b, sq)
<1>1. /\ d \in BoardType /\ d[sq] = EMPTY /\ b[sq] # EMPTY
      /\ \A s \in Square \ {sq} : d[s] = b[s]
  BY PieceFacts DEF BoardType, Emptied
<1> HIDE DEF d
<1>2. Occupied(d) = SymDiff(Occupied(b), {sq})
  BY <1>1 DEF Occupied, SymDiff
<1>3. Words(d) = SymDiff(Words(b), {<<b[sq], sq>>})
  BY <1>1 DEF Words, SymDiff
<1>4. ASSUME NEW pt \in PAWN..KING
      PROVE  OfType(d, pt) =
               IF pt = PieceTypeOf(b[sq]) THEN SymDiff(OfType(b, pt), {sq})
                                          ELSE OfType(b, pt)
  BY <1>1 DEF OfType, SymDiff
<1>5. ASSUME NEW c \in Colors
      PROVE  OfColor(d, c) =
               IF c = ColorOf(b[sq]) THEN SymDiff(OfColor(b, c), {sq})
                                     ELSE OfColor(b, c)
  BY <1>1 DEF OfColor, SymDiff
<1>6. ASSUME NEW c \in Colors
      PROVE  Cardinality(NonPawns(d, c)) = Cardinality(NonPawns(b, c))
               - (IF c = ColorOf(b[sq]) THEN NonPawn(b[sq]) ELSE 0)
  <2>1. NonPawns(d, c) = NonPawns(b, c) \ {sq}
    BY <1>1 DEF NonPawns
  <2>2. sq \in NonPawns(b, c) <=> c = ColorOf(b[sq]) /\ NonPawn(b[sq]) = 1
    BY <1>1 DEF NonPawns
  <2>3. Cardinality(NonPawns(b, c) \ {sq}) =
          IF sq \in NonPawns(b, c) THEN Cardinality(NonPawns(b, c)) - 1
                                   ELSE Cardinality(NonPawns(b, c))
    BY NonPawnsFinite, FS_RemoveElement
  <2>4. NonPawn(b[sq]) \in {0, 1} /\ Cardinality(NonPawns(b, c)) \in Nat
    BY NonPawnsFinite, PieceFacts
  <2>5. Cardinality(NonPawns(d, c)) = Cardinality(NonPawns(b, c) \ {sq})
    BY <2>1, Zenon
  <2> QED
    BY <2>2, <2>3, <2>4, <2>5
<1> QED
  BY <1>1, <1>2, <1>3, <1>4, <1>5, <1>6 DEF d

LEMMA BoardAdd ==
  ASSUME NEW b \in BoardType, NEW sq \in Square, NEW pc \in Pieces, b[sq] = EMPTY
  PROVE  LET d == Filled(b, sq, pc) IN
         /\ d \in BoardType
         /\ Occupied(d) = Plus(Occupied(b), sq)
         /\ Words(d) = SymDiff(Words(b), {<<pc, sq>>})
         /\ \A pt \in PAWN..KING : OfType(d, pt) =
              IF pt = PieceTypeOf(pc) THEN Plus(OfType(b, pt), sq) ELSE OfType(b, pt)
         /\ \A c \in Colors :
              /\ OfColor(d, c) = IF c = ColorOf(pc) THEN Plus(OfColor(b, c), sq)
                                                    ELSE OfColor(b, c)
              /\ Cardinality(NonPawns(d, c)) = Cardinality(NonPawns(b, c))
                   + (IF c = ColorOf(pc) THEN NonPawn(pc) ELSE 0)
<1> DEFINE d == Filled(b, sq, pc)
<1>1. /\ d \in BoardType /\ d[sq] = pc /\ pc # EMPTY
      /\ \A s \in Square \ {sq} : d[s] = b[s]
  BY PieceFacts DEF BoardType, Filled
<1> HIDE DEF d
<1>2. Occupied(d) = Plus(Occupied(b), sq)
  BY <1>1 DEF Occupied, Plus
<1>3. Words(d) = SymDiff(Words(b), {<<pc, sq>>})
  BY <1>1 DEF Words, SymDiff
<1>4. ASSUME NEW pt \in PAWN..KING
      PROVE  OfType(d, pt) = IF pt = PieceTypeOf(pc) THEN Plus(OfType(b, pt), sq)
                                                     ELSE OfType(b, pt)
  BY <1>1 DEF OfType, Plus
<1>5. ASSUME NEW c \in Colors
      PROVE  OfColor(d, c) = IF c = ColorOf(pc) THEN Plus(OfColor(b, c), sq)
                                                ELSE OfColor(b, c)
  BY <1>1 DEF OfColor, Plus
<1>6. ASSUME NEW c \in Colors
      PROVE  Cardinality(NonPawns(d, c)) = Cardinality(NonPawns(b, c))
               + (IF c = ColorOf(pc) THEN NonPawn(pc) ELSE 0)
  <2>1. NonPawns(d, c) = IF c = ColorOf(pc) /\ NonPawn(pc) = 1
                         THEN NonPawns(b, c) \cup {sq} ELSE NonPawns(b, c)
    BY <1>1 DEF NonPawns
  <2>2. sq \notin NonPawns(b, c)
    BY <1>1 DEF NonPawns
  <2>3. Cardinality(NonPawns(b, c) \cup {sq}) = Cardinality(NonPawns(b, c)) + 1
    BY <2>2, NonPawnsFinite, FS_AddElement
  <2>4. NonPawn(pc) \in {0, 1} /\ Cardinality(NonPawns(b, c)) \in Nat
    BY NonPawnsFinite, PieceFacts
  <2>5. Cardinality(NonPawns(d, c)) =
          IF c = ColorOf(pc) /\ NonPawn(pc) = 1
          THEN Cardinality(NonPawns(b, c) \cup {sq}) ELSE Cardinality(NonPawns(b, c))
    BY <2>1, Zenon
  <2> QED
    BY <2>3, <2>4, <2>5
<1> QED
  BY <1>1, <1>2, <1>3, <1>4, <1>5, <1>6 DEF d

LEMMA BoardMove ==
  ASSUME NEW b \in BoardType, NEW from \in Square, NEW to \in Square, from # to,
         b[from] \in Pieces, b[to] = EMPTY
  PROVE  LET pc == b[from]
             d  == Filled(Emptied(b, from), to, pc) IN
         /\ d \in BoardType
         /\ Occupied(d) = SymDiff(Occupied(b), {from, to})
         /\ Words(d) = SymDiff(SymDiff(Words(b), {<<pc, from>>}), {<<pc, to>>})
         /\ \A pt \in PAWN..KING : OfType(d, pt) =
              IF pt = PieceTypeOf(pc) THEN SymDiff(OfType(b, pt), {from, to})
                                      ELSE OfType(b, pt)
         /\ \A c \in Colors :
              /\ OfColor(d, c) = IF c = ColorOf(pc)
                                 THEN SymDiff(OfColor(b, c), {from, to})
                                 ELSE OfColor(b, c)
              /\ Cardinality(NonPawns(d, c)) = Cardinality(NonPawns(b, c))
<1> DEFINE pc == b[from]
           e  == Emptied(b, from)
           d  == Filled(e, to, pc)
<1>1. e \in BoardType /\ e[to] = EMPTY /\ pc \in Pieces
  BY DEF BoardType, Emptied
<1>2. /\ d[from] = EMPTY /\ d[to] = pc /\ pc # EMPTY
      /\ \A s \in Square \ {from, to} : d[s] = b[s]
  BY PieceFacts DEF BoardType, Emptied, Filled
<1>3. /\ Words(e) = SymDiff(Words(b), {<<pc, from>>})
      /\ \A c \in Colors : Cardinality(NonPawns(e, c)) = Cardinality(NonPawns(b, c))
           - (IF c = ColorOf(pc) THEN NonPawn(pc) ELSE 0)
  BY BoardClear
<1> HIDE DEF e
<1>4. /\ d \in BoardType
      /\ Words(d) = SymDiff(Words(e), {<<pc, to>>})
      /\ \A c \in Colors : Cardinality(NonPawns(d, c)) = Cardinality(NonPawns(e, c))
           + (IF c = ColorOf(pc) THEN NonPawn(pc) ELSE 0)
  BY <1>1, BoardAdd
<1> HIDE DEF d
<1>5. Words(d) = SymDiff(SymDiff(Words(b), {<<pc, from>>}), {<<pc, to>>})
  BY <1>3, <1>4, Zenon
<1>6. ASSUME NEW c \in Colors
      PROVE  Cardinality(NonPawns(d, c)) = Cardinality(NonPawns(b, c))
  <2>1. /\ Cardinality(NonPawns(b, c)) \in Nat /\ NonPawn(pc) \in {0, 1}
        /\ Cardinality(NonPawns(e, c)) \in Nat
    BY <1>1, NonPawnsFinite, PieceFacts
  <2>2. Cardinality(NonPawns(e, c)) = Cardinality(NonPawns(b, c))
           - (IF c = ColorOf(pc) THEN NonPawn(pc) ELSE 0)
    BY <1>3
  <2>3. Cardinality(NonPawns(d, c)) = Cardinality(NonPawns(e, c))
           + (IF c = ColorOf(pc) THEN NonPawn(pc) ELSE 0)
    BY <1>4
  <2> QED
    BY <2>1, <2>2, <2>3
<1>8. Occupied(d) = SymDiff(Occupied(b), {from, to})
  BY <1>2 DEF Occupied, SymDiff
<1>9. ASSUME NEW pt \in PAWN..KING
      PROVE  OfType(d, pt) = IF pt = PieceTypeOf(pc)
                             THEN SymDiff(OfType(b, pt), {from, to})
                             ELSE OfType(b, pt)
  BY <1>2 DEF OfType, SymDiff
<1>10. ASSUME NEW c \in Colors
       PROVE  OfColor(d, c) = IF c = ColorOf(pc)
                              THEN SymDiff(OfColor(b, c), {from, to})
                              ELSE OfColor(b, c)
  BY <1>2 DEF OfColor, SymDiff
<1> QED
  BY <1>4, <1>5, <1>6, <1>8, <1>9, <1>10 DEF d, e

LEMMA HashPceType ==
  ASSUME NEW key \in KeyType, NEW pc \in Pieces, NEW sq \in Square
  PROVE  /\ HashPce(key, pc, sq) \in KeyType
         /\ HashPce(key, pc, sq).pieces = SymDiff(key.pieces, {<<pc, sq>>})
         /\ HashPce(key, pc, sq).side = key.side
         /\ HashPce(key, pc, sq).castle = key.castle
         /\ HashPce(key, pc, sq).ep = key.ep
<1>1. SymDiff(key.pieces, {<<pc, sq>>}) \in SUBSET (Pieces \X Square)
  BY DEF KeyType, SymDiff
<1>2. HashPce(key, pc, sq) = [key EXCEPT !.pieces = SymDiff(@, {<<pc, sq>>})]
  BY DEF HashPce
<1> QED
  BY <1>1, <1>2 DEF KeyType

LEMMA ToggleBBFields ==
  ASSUME NEW p \in PositionType, NEW pc \in Pieces, NEW squares \in SUBSET Square
  PROVE  LET q == ToggleBB(p, pc, squares)
             pt == PieceTypeOf(pc)
             c  == ColorOf(pc) IN
         /\ q \in PositionType /\ SameState(p, q) /\ SameList(p, q)
         /\ q.board = p.board /\ q.key = p.key /\ q.material = p.material
         /\ q.basePhase = p.basePhase /\ q.nonPawnCount = p.nonPawnCount
         /\ q.pieceBB[ALL] = SymDiff(p.pieceBB[ALL], squares)
         /\ \A t \in PAWN..KING :
              q.pieceBB[t] = IF t = pt THEN SymDiff(p.pieceBB[t], squares) ELSE p.pieceBB[t]
         /\ \A d \in Colors :
              q.colorBB[d] = IF d = c THEN SymDiff(p.colorBB[d], squares) ELSE p.colorBB[d]
<1> DEFINE c == ColorOf(pc)
           pt == PieceTypeOf(pc)
           q  == ToggleBB(p, pc, squares)
<1>1. /\ c \in Colors /\ pt \in PAWN..KING /\ pt \in ALL..KING /\ pt # ALL
      /\ ALL \in ALL..KING
  <2>1. PAWN..KING \subseteq ALL..KING /\ ALL \notin PAWN..KING /\ ALL \in ALL..KING
    BY DEF ALL, PAWN, KING
  <2> QED
    BY <2>1, PieceFacts
<1>2. q = [p EXCEPT
             !.pieceBB[ALL] = SymDiff(@, squares), !.pieceBB[pt] = SymDiff(@, squares),
             !.colorBB[c] = SymDiff(@, squares)]
  BY DEF ToggleBB
<1> HIDE DEF q, c, pt
<1>3. /\ q.board = p.board /\ q.key = p.key /\ q.material = p.material
      /\ q.basePhase = p.basePhase /\ q.nonPawnCount = p.nonPawnCount
  BY <1>2 DEF PositionType
<1>4. q.colorBB = [p.colorBB EXCEPT ![c] = SymDiff(@, squares)]
  BY <1>2 DEF PositionType
<1>5. q.pieceBB = [p.pieceBB EXCEPT ![ALL] = SymDiff(p.pieceBB[ALL], squares), ![pt] = SymDiff(p.pieceBB[pt], squares)]
  BY <1>1, <1>2 DEF PositionType
<1>6. SameState(p, q) /\ SameList(p, q)
  BY <1>2 DEF PositionType, SameState, SameList
<1>7. q.colorBB \in [Colors -> SUBSET Square]
  BY <1>1, <1>4 DEF PositionType, SymDiff, Plus
<1>8. q.pieceBB \in [ALL..KING -> SUBSET Square]
  <2>1. p.pieceBB[ALL] \in SUBSET Square /\ p.pieceBB[pt] \in SUBSET Square
    BY <1>1 DEF PositionType
  <2>2. SymDiff(p.pieceBB[ALL], squares) \in SUBSET Square /\ SymDiff(p.pieceBB[pt], squares) \in SUBSET Square
    BY <2>1 DEF SymDiff, Plus
  <2> QED
    BY <1>1, <1>5, <2>1, <2>2 DEF PositionType
<1>9. q \in PositionType
  BY <1>2, <1>7, <1>8 DEF PositionType
<1>10. q.pieceBB[ALL] = SymDiff(p.pieceBB[ALL], squares)
  BY <1>1, <1>5 DEF PositionType
<1>11. ASSUME NEW t \in PAWN..KING
       PROVE  q.pieceBB[t] = IF t = pt THEN SymDiff(p.pieceBB[t], squares) ELSE p.pieceBB[t]
  <2>1. t \in ALL..KING /\ t # ALL
    BY DEF ALL, PAWN, KING
  <2> QED
    BY <1>1, <1>5, <2>1, Zenon DEF PositionType
<1>12. ASSUME NEW d \in Colors
       PROVE  q.colorBB[d] = IF d = c THEN SymDiff(p.colorBB[d], squares) ELSE p.colorBB[d]
  BY <1>1, <1>4 DEF PositionType
<1> QED
  BY <1>3, <1>6, <1>9, <1>10, <1>11, <1>12 DEF q, c, pt

LEMMA SetBBFields ==
  ASSUME NEW p \in PositionType, NEW pc \in Pieces, NEW sq \in Square
  PROVE  LET q == SetBB(p, pc, sq)
             pt == PieceTypeOf(pc)
             c  == ColorOf(pc) IN
         /\ q \in PositionType /\ SameState(p, q) /\ SameList(p, q)
         /\ q.board = p.board /\ q.key = p.key /\ q.material = p.material
         /\ q.basePhase = p.basePhase /\ q.nonPawnCount = p.nonPawnCount
         /\ q.pieceBB[ALL] = Plus(p.pieceBB[ALL], sq)
         /\ \A t \in PAWN..KING :
              q.pieceBB[t] = IF t = pt THEN Plus(p.pieceBB[t], sq) ELSE p.pieceBB[t]
         /\ \A d \in Colors :
              q.colorBB[d] = IF d = c THEN Plus(p.colorBB[d], sq) ELSE p.colorBB[d]
<1> DEFINE c == ColorOf(pc)
           pt == PieceTypeOf(pc)
           q  == SetBB(p, pc, sq)
<1>1. /\ c \in Colors /\ pt \in PAWN..KING /\ pt \in ALL..KING /\ pt # ALL
      /\ ALL \in ALL..KING
  <2>1. PAWN..KING \subseteq ALL..KING /\ ALL \notin PAWN..KING /\ ALL \in ALL..KING
    BY DEF ALL, PAWN, KING
  <2> QED
    BY <2>1, PieceFacts
<1>2. q = [p EXCEPT
             !.pieceBB[ALL] = Plus(@, sq), !.pieceBB[pt] = Plus(@, sq),
             !.colorBB[c] = Plus(@, sq)]
  BY DEF SetBB, Plus
<1> HIDE DEF q, c, pt
<1>3. /\ q.board = p.board /\ q.key = p.key /\ q.material = p.material
      /\ q.basePhase = p.basePhase /\ q.nonPawnCount = p.nonPawnCount
  BY <1>2 DEF PositionType
<1>4. q.colorBB = [p.colorBB EXCEPT ![c] = Plus(@, sq)]
  BY <1>2 DEF PositionType
<1>5. q.pieceBB = [p.pieceBB EXCEPT ![ALL] = Plus(p.pieceBB[ALL], sq), ![pt] = Plus(p.pieceBB[pt], sq)]
  BY <1>1, <1>2 DEF PositionType
<1>6. SameState(p, q) /\ SameList(p, q)
  BY <1>2 DEF PositionType, SameState, SameList
<1>7. q.colorBB \in [Colors -> SUBSET Square]
  BY <1>1, <1>4 DEF PositionType, SymDiff, Plus
<1>8. q.pieceBB \in [ALL..KING -> SUBSET Square]
  <2>1. p.pieceBB[ALL] \in SUBSET Square /\ p.pieceBB[pt] \in SUBSET Square
    BY <1>1 DEF PositionType
  <2>2. Plus(p.pieceBB[ALL], sq) \in SUBSET Square /\ Plus(p.pieceBB[pt], sq) \in SUBSET Square
    BY <2>1 DEF SymDiff, Plus
  <2> QED
    BY <1>1, <1>5, <2>1, <2>2 DEF PositionType
<1>9. q \in PositionType
  BY <1>2, <1>7, <1>8 DEF PositionType
<1>10. q.pieceBB[ALL] = Plus(p.pieceBB[ALL], sq)
  BY <1>1, <1>5 DEF PositionType
<1>11. ASSUME NEW t \in PAWN..KING
       PROVE  q.pieceBB[t] = IF t = pt THEN Plus(p.pieceBB[t], sq) ELSE p.pieceBB[t]
  <2>1. t \in ALL..KING /\ t # ALL
    BY DEF ALL, PAWN, KING
  <2> QED
    BY <1>1, <1>5, <2>1, Zenon DEF PositionType
<1>12. ASSUME NEW d \in Colors
       PROVE  q.colorBB[d] = IF d = c THEN Plus(p.colorBB[d], sq) ELSE p.colorBB[d]
  BY <1>1, <1>4 DEF PositionType
<1> QED
  BY <1>3, <1>6, <1>9, <1>10, <1>11, <1>12 DEF q, c, pt

LEMMA ClearPieceFields ==
  ASSUME NEW p \in PositionType, Agrees(p), NEW sq \in Square,
         PSQT(p.board[sq], sq) \in Int,
         p.board[sq] \in Pieces, NEW hash \in BOOLEAN
  PROVE  LET q == ClearPiece(p, sq, hash) IN
         /\ q \in PositionType /\ Agrees(q) /\ SameState(p, q) /\ SameList(p, q)
         /\ q.board = Emptied(p.board, sq)
         /\ hash => KeepsWords(p, q)
         /\ q.material = p.material - PSQT(p.board[sq], sq)
         /\ q.basePhase = p.basePhase - PhaseValue(p.board[sq])
<1> DEFINE pc == p.board[sq]
           c  == ColorOf(pc)
           pt == PieceTypeOf(pc)
           r  == ToggleBB(p, pc, {sq})
           q  == ClearPiece(p, sq, hash)
<1>1. /\ c \in Colors /\ pt \in PAWN..KING
      /\ NonPawn(pc) \in Int /\ PhaseValue(pc) \in Int
      /\ pc \in Pieces
  BY PieceFacts
<1>2. q = [r EXCEPT
             !.key = IF hash THEN HashPce(@, pc, sq) ELSE @,
             !.board[sq] = EMPTY, !.material = @ - PSQT(pc, sq),
             !.basePhase = @ - PhaseValue(pc),
             !.nonPawnCount[c] = @ - NonPawn(pc)]
  BY Zenon DEF ClearPiece
<1>3. /\ r \in PositionType /\ SameState(p, r) /\ SameList(p, r)
      /\ r.board = p.board /\ r.key = p.key /\ r.material = p.material
      /\ r.basePhase = p.basePhase /\ r.nonPawnCount = p.nonPawnCount
      /\ r.pieceBB[ALL] = SymDiff(p.pieceBB[ALL], {sq})
      /\ \A t \in PAWN..KING :
           r.pieceBB[t] = IF t = pt THEN SymDiff(p.pieceBB[t], {sq}) ELSE p.pieceBB[t]
      /\ \A d \in Colors :
           r.colorBB[d] = IF d = c THEN SymDiff(p.colorBB[d], {sq}) ELSE p.colorBB[d]
  BY <1>1, {sq} \in SUBSET Square, ToggleBBFields
<1>4. p.board \in BoardType /\ p.key \in KeyType
  BY DEF PositionType, BoardType
<1>5. /\ Emptied(p.board, sq) \in BoardType
      /\ Occupied(Emptied(p.board, sq)) = SymDiff(Occupied(p.board), {sq})
      /\ Words(Emptied(p.board, sq)) = SymDiff(Words(p.board), {<<pc, sq>>})
      /\ \A t \in PAWN..KING : OfType(Emptied(p.board, sq), t) =
           IF t = pt THEN SymDiff(OfType(p.board, t), {sq}) ELSE OfType(p.board, t)
      /\ \A d \in Colors :
           /\ OfColor(Emptied(p.board, sq), d) =
                IF d = c THEN SymDiff(OfColor(p.board, d), {sq}) ELSE OfColor(p.board, d)
           /\ Cardinality(NonPawns(Emptied(p.board, sq), d)) =
                Cardinality(NonPawns(p.board, d)) - (IF d = c THEN NonPawn(pc) ELSE 0)
  BY <1>1, <1>4, BoardClear
<1> HIDE DEF q, r, c, pt
<1>6. /\ q.board = Emptied(p.board, sq)
      /\ q.key = IF hash THEN HashPce(p.key, p.board[sq], sq) ELSE p.key
      /\ q.material = p.material - PSQT(p.board[sq], sq)
      /\ q.basePhase = p.basePhase - PhaseValue(p.board[sq])
  BY <1>2, <1>3 DEF PositionType, Emptied, Filled
<1>7. /\ q.nonPawnCount = [p.nonPawnCount EXCEPT ![c] = @ - NonPawn(pc)]
      /\ q.pieceBB = r.pieceBB /\ q.colorBB = r.colorBB
  BY <1>2, <1>3 DEF PositionType
<1>8. SameState(p, q) /\ SameList(p, q)
  <2>1. SameState(r, q) /\ SameList(r, q)
    BY <1>2, <1>3 DEF PositionType, SameState, SameList
  <2> QED
    BY <2>1, <1>3 DEF SameState, SameList
<1>9. q.board \in BoardType
  BY <1>5, <1>6
<1>10. q.key \in KeyType
  BY <1>1, <1>4, <1>6, HashPceType
<1>11. q.nonPawnCount \in [Colors -> Int] /\ q.material \in Int /\ q.basePhase \in Int
  BY <1>1, <1>6, <1>7 DEF PositionType
<1>12. q \in PositionType
  BY <1>2, <1>3, <1>9, <1>10, <1>11 DEF PositionType, BoardType
<1>13. q.pieceBB[ALL] = Occupied(q.board)
  BY <1>3, <1>5, <1>6, <1>7, Zenon DEF Agrees
<1>14. ASSUME NEW t \in PAWN..KING
       PROVE  q.pieceBB[t] = OfType(q.board, t)
  <2>1. p.pieceBB[t] = OfType(p.board, t)
    BY DEF Agrees
  <2>2. CASE t = pt
    BY <1>3, <1>5, <1>6, <1>7, <2>1, <2>2, Zenon
  <2>3. CASE t # pt
    BY <1>3, <1>5, <1>6, <1>7, <2>1, <2>3, Zenon
  <2> QED
    BY <2>2, <2>3
<1>15. ASSUME NEW d \in Colors
       PROVE  q.colorBB[d] = OfColor(q.board, d)
  <2>1. p.colorBB[d] = OfColor(p.board, d)
    BY DEF Agrees
  <2>2. CASE d = c
    BY <1>3, <1>5, <1>6, <1>7, <2>1, <2>2, Zenon
  <2>3. CASE d # c
    BY <1>3, <1>5, <1>6, <1>7, <2>1, <2>3, Zenon
  <2> QED
    BY <2>2, <2>3
<1>16. ASSUME NEW d \in Colors
       PROVE  q.nonPawnCount[d] = Cardinality(NonPawns(q.board, d))
  <2>1. q.nonPawnCount[d] = p.nonPawnCount[d] - (IF d = c THEN NonPawn(pc) ELSE 0)
    BY <1>1, <1>7 DEF PositionType
  <2>2. p.nonPawnCount[d] = Cardinality(NonPawns(p.board, d))
    BY DEF Agrees
  <2>3. Cardinality(NonPawns(q.board, d)) =
          Cardinality(NonPawns(p.board, d)) - (IF d = c THEN NonPawn(pc) ELSE 0)
    BY <1>5, <1>6
  <2> QED
    BY <2>1, <2>2, <2>3
<1>17. Agrees(q)
  BY <1>13, <1>14, <1>15, <1>16 DEF Agrees
<1>18. hash => KeepsWords(p, q)
  <2>1. q.board = Emptied(p.board, sq) /\ (hash => q.key = HashPce(p.key, p.board[sq], sq))
    BY <1>6
  <2>2. /\ HashPce(p.key, p.board[sq], sq).pieces = SymDiff(p.key.pieces, {<<pc, sq>>})
        /\ HashPce(p.key, p.board[sq], sq).side = p.key.side
        /\ HashPce(p.key, p.board[sq], sq).castle = p.key.castle
        /\ HashPce(p.key, p.board[sq], sq).ep = p.key.ep
    BY <1>1, <1>4, HashPceType
  <2> QED
    BY <1>5, <2>1, <2>2, Zenon DEF KeepsWords
<1> QED
  BY <1>6, <1>8, <1>12, <1>17, <1>18 DEF q

LEMMA AddPieceFields ==
  ASSUME NEW p \in PositionType, Agrees(p), NEW sq \in Square,
         NEW pce \in Pieces, 
         PSQT(pce, sq) \in Int, p.board[sq] = EMPTY, NEW hash \in BOOLEAN
  PROVE  LET q == AddPiece(p, sq, pce, hash) IN
         /\ q \in PositionType /\ Agrees(q) /\ SameState(p, q) /\ SameList(p, q)
         /\ q.board = Filled(p.board, sq, pce)
         /\ hash => KeepsWords(p, q)
         /\ q.material = p.material + PSQT(pce, sq)
         /\ q.basePhase = p.basePhase + PhaseValue(pce)
<1> DEFINE pc == pce
           c  == ColorOf(pc)
           pt == PieceTypeOf(pc)
           r  == SetBB(p, pc, sq)
           q  == AddPiece(p, sq, pce, hash)
<1>1. /\ c \in Colors /\ pt \in PAWN..KING
      /\ NonPawn(pc) \in Int /\ PhaseValue(pc) \in Int
      /\ pc \in Pieces
  BY PieceFacts
<1>2. q = [r EXCEPT
             !.key = IF hash THEN HashPce(@, pc, sq) ELSE @,
             !.board[sq] = pc, !.material = @ + PSQT(pc, sq),
             !.basePhase = @ + PhaseValue(pc),
             !.nonPawnCount[c] = @ + NonPawn(pc)]
  BY Zenon DEF AddPiece
<1>3. /\ r \in PositionType /\ SameState(p, r) /\ SameList(p, r)
      /\ r.board = p.board /\ r.key = p.key /\ r.material = p.material
      /\ r.basePhase = p.basePhase /\ r.nonPawnCount = p.nonPawnCount
      /\ r.pieceBB[ALL] = Plus(p.pieceBB[ALL], sq)
      /\ \A t \in PAWN..KING :
           r.pieceBB[t] = IF t = pt THEN Plus(p.pieceBB[t], sq) ELSE p.pieceBB[t]
      /\ \A d \in Colors :
           r.colorBB[d] = IF d = c THEN Plus(p.colorBB[d], sq) ELSE p.colorBB[d]
  BY <1>1, SetBBFields
<1>4. p.board \in BoardType /\ p.key \in KeyType
  BY DEF PositionType, BoardType
<1>5. /\ Filled(p.board, sq, pce) \in BoardType
      /\ Occupied(Filled(p.board, sq, pce)) = Plus(Occupied(p.board), sq)
      /\ Words(Filled(p.board, sq, pce)) = SymDiff(Words(p.board), {<<pc, sq>>})
      /\ \A t \in PAWN..KING : OfType(Filled(p.board, sq, pce), t) =
           IF t = pt THEN Plus(OfType(p.board, t), sq) ELSE OfType(p.board, t)
      /\ \A d \in Colors :
           /\ OfColor(Filled(p.board, sq, pce), d) =
                IF d = c THEN Plus(OfColor(p.board, d), sq) ELSE OfColor(p.board, d)
           /\ Cardinality(NonPawns(Filled(p.board, sq, pce), d)) =
                Cardinality(NonPawns(p.board, d)) + (IF d = c THEN NonPawn(pc) ELSE 0)
  <2>1. Filled(p.board, sq, pce) \in BoardType
    BY <1>1, <1>4, BoardAdd
  <2>2. /\ Occupied(Filled(p.board, sq, pce)) = Plus(Occupied(p.board), sq)
        /\ Words(Filled(p.board, sq, pce)) = SymDiff(Words(p.board), {<<pc, sq>>})
    BY <1>1, <1>4, BoardAdd
  <2>3. ASSUME NEW t \in PAWN..KING
        PROVE  OfType(Filled(p.board, sq, pce), t) =
                 IF t = pt THEN Plus(OfType(p.board, t), sq) ELSE OfType(p.board, t)
    BY <1>1, <1>4, BoardAdd
  <2>4. ASSUME NEW d \in Colors
        PROVE  OfColor(Filled(p.board, sq, pce), d) =
                 IF d = c THEN Plus(OfColor(p.board, d), sq) ELSE OfColor(p.board, d)
    BY <1>1, <1>4, BoardAdd
  <2>5. ASSUME NEW d \in Colors
        PROVE  Cardinality(NonPawns(Filled(p.board, sq, pce), d)) =
                 Cardinality(NonPawns(p.board, d)) + (IF d = c THEN NonPawn(pc) ELSE 0)
    BY <1>1, <1>4, BoardAdd
  <2> QED
    BY <2>1, <2>2, <2>3, <2>4, <2>5
<1> HIDE DEF q, r, c, pt
<1>6. /\ q.board = Filled(p.board, sq, pce)
      /\ q.key = IF hash THEN HashPce(p.key, pce, sq) ELSE p.key
      /\ q.material = p.material + PSQT(pce, sq)
      /\ q.basePhase = p.basePhase + PhaseValue(pce)
  BY <1>2, <1>3 DEF PositionType, Emptied, Filled
<1>7. /\ q.nonPawnCount = [p.nonPawnCount EXCEPT ![c] = @ + NonPawn(pc)]
      /\ q.pieceBB = r.pieceBB /\ q.colorBB = r.colorBB
  BY <1>2, <1>3 DEF PositionType
<1>8. SameState(p, q) /\ SameList(p, q)
  <2>1. SameState(r, q) /\ SameList(r, q)
    BY <1>2, <1>3 DEF PositionType, SameState, SameList
  <2> QED
    BY <2>1, <1>3 DEF SameState, SameList
<1>9. q.board \in BoardType
  BY <1>5, <1>6
<1>10. q.key \in KeyType
  BY <1>1, <1>4, <1>6, HashPceType
<1>11. q.nonPawnCount \in [Colors -> Int] /\ q.material \in Int /\ q.basePhase \in Int
  BY <1>1, <1>6, <1>7 DEF PositionType
<1>12. q \in PositionType
  BY <1>2, <1>3, <1>9, <1>10, <1>11 DEF PositionType, BoardType
<1>13. q.pieceBB[ALL] = Occupied(q.board)
  BY <1>3, <1>5, <1>6, <1>7, Zenon DEF Agrees
<1>14. ASSUME NEW t \in PAWN..KING
       PROVE  q.pieceBB[t] = OfType(q.board, t)
  <2>1. p.pieceBB[t] = OfType(p.board, t)
    BY DEF Agrees
  <2>2. CASE t = pt
    BY <1>3, <1>5, <1>6, <1>7, <2>1, <2>2, Zenon
  <2>3. CASE t # pt
    BY <1>3, <1>5, <1>6, <1>7, <2>1, <2>3, Zenon
  <2> QED
    BY <2>2, <2>3
<1>15. ASSUME NEW d \in Colors
       PROVE  q.colorBB[d] = OfColor(q.board, d)
  <2>1. p.colorBB[d] = OfColor(p.board, d)
    BY DEF Agrees
  <2>2. CASE d = c
    BY <1>3, <1>5, <1>6, <1>7, <2>1, <2>2, Zenon
  <2>3. CASE d # c
    BY <1>3, <1>5, <1>6, <1>7, <2>1, <2>3, Zenon
  <2> QED
    BY <2>2, <2>3
<1>16. ASSUME NEW d \in Colors
       PROVE  q.nonPawnCount[d] = Cardinality(NonPawns(q.board, d))
  <2>1. q.nonPawnCount[d] = p.nonPawnCount[d] + (IF d = c THEN NonPawn(pc) ELSE 0)
    BY <1>1, <1>7 DEF PositionType
  <2>2. p.nonPawnCount[d] = Cardinality(NonPawns(p.board, d))
    BY DEF Agrees
  <2>3. Cardinality(NonPawns(q.board, d)) =
          Cardinality(NonPawns(p.board, d)) + (IF d = c THEN NonPawn(pc) ELSE 0)
    BY <1>5, <1>6
  <2> QED
    BY <2>1, <2>2, <2>3
<1>17. Agrees(q)
  BY <1>13, <1>14, <1>15, <1>16 DEF Agrees
<1>18. hash => KeepsWords(p, q)
  <2>1. q.board = Filled(p.board, sq, pce) /\ (hash => q.key = HashPce(p.key, pce, sq))
    BY <1>6
  <2>2. /\ HashPce(p.key, pce, sq).pieces = SymDiff(p.key.pieces, {<<pc, sq>>})
        /\ HashPce(p.key, pce, sq).side = p.key.side
        /\ HashPce(p.key, pce, sq).castle = p.key.castle
        /\ HashPce(p.key, pce, sq).ep = p.key.ep
    BY <1>1, <1>4, HashPceType
  <2> QED
    BY <1>5, <2>1, <2>2, Zenon DEF KeepsWords
<1> QED
  BY <1>6, <1>8, <1>12, <1>17, <1>18 DEF q

LEMMA MovePieceFields ==
  ASSUME NEW p \in PositionType, Agrees(p), NEW from \in Square, NEW to \in Square,
         from # to, p.board[from] \in Pieces, p.board[to] = EMPTY,
         PSQT(p.board[from], from) \in Int, PSQT(p.board[from], to) \in Int,
         NEW hash \in BOOLEAN
  PROVE  LET q == MovePiece(p, from, to, hash) IN
         /\ q \in PositionType /\ Agrees(q) /\ SameState(p, q) /\ SameList(p, q)
         /\ q.board = Filled(Emptied(p.board, from), to, p.board[from])
         /\ hash => KeepsWords(p, q)
         /\ q.material = p.material + PSQT(p.board[from], to) - PSQT(p.board[from], from)
         /\ q.basePhase = p.basePhase
<1> DEFINE pc == p.board[from]
           c  == ColorOf(pc)
           pt == PieceTypeOf(pc)
           r  == ToggleBB(p, pc, {from, to})
           q  == MovePiece(p, from, to, hash)
<1>1. /\ c \in Colors /\ pt \in PAWN..KING
      /\ NonPawn(pc) \in Int /\ PhaseValue(pc) \in Int
      /\ pc \in Pieces
  BY PieceFacts
<1>2. q = [r EXCEPT
             !.key = IF hash THEN HashPce(HashPce(@, pc, from), pc, to) ELSE @,
             !.board[from] = EMPTY, !.board[to] = pc,
             !.material = @ + PSQT(pc, to) - PSQT(pc, from)]
  BY Zenon DEF MovePiece
<1>3. /\ r \in PositionType /\ SameState(p, r) /\ SameList(p, r)
      /\ r.board = p.board /\ r.key = p.key /\ r.material = p.material
      /\ r.basePhase = p.basePhase /\ r.nonPawnCount = p.nonPawnCount
      /\ r.pieceBB[ALL] = SymDiff(p.pieceBB[ALL], {from, to})
      /\ \A t \in PAWN..KING :
           r.pieceBB[t] = IF t = pt THEN SymDiff(p.pieceBB[t], {from, to}) ELSE p.pieceBB[t]
      /\ \A d \in Colors :
           r.colorBB[d] = IF d = c THEN SymDiff(p.colorBB[d], {from, to}) ELSE p.colorBB[d]
  BY <1>1, {from, to} \in SUBSET Square, ToggleBBFields
<1>4. p.board \in BoardType /\ p.key \in KeyType
  BY DEF PositionType, BoardType
<1>5. /\ Filled(Emptied(p.board, from), to, p.board[from]) \in BoardType
      /\ Occupied(Filled(Emptied(p.board, from), to, p.board[from])) = SymDiff(Occupied(p.board), {from, to})
      /\ Words(Filled(Emptied(p.board, from), to, p.board[from])) = SymDiff(SymDiff(Words(p.board), {<<pc, from>>}), {<<pc, to>>})
      /\ \A t \in PAWN..KING : OfType(Filled(Emptied(p.board, from), to, p.board[from]), t) =
           IF t = pt THEN SymDiff(OfType(p.board, t), {from, to}) ELSE OfType(p.board, t)
      /\ \A d \in Colors :
           /\ OfColor(Filled(Emptied(p.board, from), to, p.board[from]), d) =
                IF d = c THEN SymDiff(OfColor(p.board, d), {from, to}) ELSE OfColor(p.board, d)
           /\ Cardinality(NonPawns(Filled(Emptied(p.board, from), to, p.board[from]), d)) =
                Cardinality(NonPawns(p.board, d))
  BY <1>1, <1>4, BoardMove
<1> HIDE DEF q, r, c, pt
<1>6. /\ q.board = Filled(Emptied(p.board, from), to, p.board[from])
      /\ q.key = IF hash THEN HashPce(HashPce(p.key, p.board[from], from), p.board[from], to) ELSE p.key
      /\ q.material = p.material + PSQT(p.board[from], to) - PSQT(p.board[from], from)
      /\ q.basePhase = p.basePhase
  BY <1>2, <1>3 DEF PositionType, Emptied, Filled
<1>7. /\ q.nonPawnCount = p.nonPawnCount
      /\ q.pieceBB = r.pieceBB /\ q.colorBB = r.colorBB
  BY <1>2, <1>3 DEF PositionType
<1>8. SameState(p, q) /\ SameList(p, q)
  <2>1. SameState(r, q) /\ SameList(r, q)
    BY <1>2, <1>3 DEF PositionType, SameState, SameList
  <2> QED
    BY <2>1, <1>3 DEF SameState, SameList
<1>9. q.board \in BoardType
  BY <1>5, <1>6
<1>10. q.key \in KeyType
  BY <1>1, <1>4, <1>6, HashPceType
<1>11. q.nonPawnCount \in [Colors -> Int] /\ q.material \in Int /\ q.basePhase \in Int
  BY <1>1, <1>6, <1>7 DEF PositionType
<1>12. q \in PositionType
  BY <1>2, <1>3, <1>9, <1>10, <1>11 DEF PositionType, BoardType
<1>13. q.pieceBB[ALL] = Occupied(q.board)
  BY <1>3, <1>5, <1>6, <1>7, Zenon DEF Agrees
<1>14. ASSUME NEW t \in PAWN..KING
       PROVE  q.pieceBB[t] = OfType(q.board, t)
  <2>1. p.pieceBB[t] = OfType(p.board, t)
    BY DEF Agrees
  <2>2. CASE t = pt
    BY <1>3, <1>5, <1>6, <1>7, <2>1, <2>2, Zenon
  <2>3. CASE t # pt
    BY <1>3, <1>5, <1>6, <1>7, <2>1, <2>3, Zenon
  <2> QED
    BY <2>2, <2>3
<1>15. ASSUME NEW d \in Colors
       PROVE  q.colorBB[d] = OfColor(q.board, d)
  <2>1. p.colorBB[d] = OfColor(p.board, d)
    BY DEF Agrees
  <2>2. CASE d = c
    BY <1>3, <1>5, <1>6, <1>7, <2>1, <2>2, Zenon
  <2>3. CASE d # c
    BY <1>3, <1>5, <1>6, <1>7, <2>1, <2>3, Zenon
  <2> QED
    BY <2>2, <2>3
<1>16. ASSUME NEW d \in Colors
       PROVE  q.nonPawnCount[d] = Cardinality(NonPawns(q.board, d))
  <2>1. q.nonPawnCount[d] = p.nonPawnCount[d]
    BY <1>1, <1>7 DEF PositionType
  <2>2. p.nonPawnCount[d] = Cardinality(NonPawns(p.board, d))
    BY DEF Agrees
  <2>3. Cardinality(NonPawns(q.board, d)) =
          Cardinality(NonPawns(p.board, d))
    BY <1>5, <1>6
  <2> QED
    BY <2>1, <2>2, <2>3
<1>17. Agrees(q)
  BY <1>13, <1>14, <1>15, <1>16 DEF Agrees
<1>18. hash => KeepsWords(p, q)
  <2>1. q.board = Filled(Emptied(p.board, from), to, p.board[from]) /\ (hash => q.key = HashPce(HashPce(p.key, p.board[from], from), p.board[from], to))
    BY <1>6
  <2>2. /\ HashPce(p.key, pc, from) \in KeyType
        /\ HashPce(p.key, pc, from).pieces = SymDiff(p.key.pieces, {<<pc, from>>})
        /\ HashPce(p.key, pc, from).side = p.key.side
        /\ HashPce(p.key, pc, from).castle = p.key.castle
        /\ HashPce(p.key, pc, from).ep = p.key.ep
    BY <1>1, <1>4, HashPceType
  <2>3. /\ HashPce(HashPce(p.key, p.board[from], from), p.board[from], to).pieces = SymDiff(HashPce(p.key, pc, from).pieces, {<<pc, to>>})
        /\ HashPce(HashPce(p.key, p.board[from], from), p.board[from], to).side = HashPce(p.key, pc, from).side
        /\ HashPce(HashPce(p.key, p.board[from], from), p.board[from], to).castle = HashPce(p.key, pc, from).castle
        /\ HashPce(HashPce(p.key, p.board[from], from), p.board[from], to).ep = HashPce(p.key, pc, from).ep
    BY <1>1, <2>2, HashPceType
  <2> QED
    BY <1>5, <2>1, <2>2, <2>3, Zenon DEF KeepsWords
<1> QED
  BY <1>6, <1>8, <1>12, <1>17, <1>18 DEF q

LEMMA PSQTInt ==
  ASSUME NEW pc \in Pieces, NEW sq \in Square
  PROVE  PSQT(pc, sq) \in Int
<1> DEFINE pt == PieceTypeOf(pc)
           v(s) == PieceTypeValue(pt) + PieceSqValue(pt, s)
<1>1. pt \in PAWN..KING
  BY PieceFacts
<1>2. MirrorSquare(sq) \in Square
  BY DEF MirrorSquare, RankOf, FileOf, Square
<1>3. PieceTypeValue(pt) \in Int
  BY DEF PieceTypeValue, S
<1>4. v(sq) \in Int /\ v(MirrorSquare(sq)) \in Int
  BY <1>1, <1>2, <1>3, PsqtAssumption
<1>5. PSQT(pc, sq) = IF ColorOf(pc) = BLACK THEN -v(sq) ELSE v(MirrorSquare(sq))
  BY DEF PSQT
<1> HIDE DEF v
<1> QED
  BY <1>4, <1>5

LEMMA SameSquaresAgree ==
  ASSUME NEW p, NEW q, SameSquares(p, q)
  PROVE  /\ Agrees(p) => Agrees(q)
         /\ KeepsWords(p, q)
BY DEF SameSquares, Agrees, KeepsWords

LEMMA KeepsWordsTransitive ==
  ASSUME NEW p, NEW q, NEW r, KeepsWords(p, q), KeepsWords(q, r)
  PROVE  KeepsWords(p, r)
BY DEF KeepsWords

\* A piece moves and takes its number along; pcs is what the list calls it.
LEMMA MovedForth ==
  ASSUME NEW p \in PositionType, Agrees(p), NEW from \in Square, NEW to \in Square,
         from # to, p.board[from] \in Pieces, p.board[to] = EMPTY,
         NEW no \in PieceNumber, NEW pcs \in Pieces, NEW hash \in BOOLEAN
  PROVE  LET q  == PutPiece(NoPieceNumber(MovePiece(p, from, to, hash), from),
                            no, to, pcs)
             pc == p.board[from] IN
         /\ q \in PositionType /\ Agrees(q) /\ SameState(p, q)
         /\ hash => KeepsWords(p, q)
         /\ q.board = Filled(Emptied(p.board, from), to, pc)
         /\ q.pieceList = Listed(p.pieceList, no, <<pcs, to>>)
         /\ q.pieceNoOn =
              Numbered(Numbered(p.pieceNoOn, from, PIECE_NUMBER_NB), to, no)
         /\ q.material = p.material + PSQT(pc, to) - PSQT(pc, from)
         /\ q.basePhase = p.basePhase
<1> DEFINE m == MovePiece(p, from, to, hash)
           n == NoPieceNumber(m, from)
           q == PutPiece(n, no, to, pcs)
           pc == p.board[from]
<1>1. /\ m \in PositionType /\ Agrees(m) /\ SameState(p, m) /\ SameList(p, m)
      /\ m.board = Filled(Emptied(p.board, from), to, pc)
      /\ hash => KeepsWords(p, m)
      /\ m.material = p.material + PSQT(pc, to) - PSQT(pc, from)
      /\ m.basePhase = p.basePhase
  BY PSQTInt, MovePieceFields
<1> HIDE DEF m
<1>2. /\ n \in PositionType /\ SameState(m, n) /\ SameSquares(m, n)
      /\ n.pieceList = m.pieceList
      /\ n.pieceNoOn = Numbered(m.pieceNoOn, from, PIECE_NUMBER_NB)
  BY <1>1, NoNumberFields
<1> HIDE DEF n
<1>3. /\ q \in PositionType /\ SameState(n, q) /\ SameSquares(n, q)
      /\ q.pieceList = Listed(n.pieceList, no, <<pcs, to>>)
      /\ q.pieceNoOn = Numbered(n.pieceNoOn, to, no)
  BY <1>2, PutPieceFields
<1> HIDE DEF q
<1>4. SameSquares(m, q)
  BY <1>2, <1>3 DEF SameSquares
<1>5. Agrees(q) /\ KeepsWords(m, q)
  BY <1>1, <1>4, SameSquaresAgree
<1>6. hash => KeepsWords(p, q)
  BY <1>1, <1>5, KeepsWordsTransitive
<1>7. SameState(p, q)
  BY <1>1, <1>2, <1>3 DEF SameState
<1>8. /\ q.board = m.board /\ q.material = m.material /\ q.basePhase = m.basePhase
  BY <1>4 DEF SameSquares
<1>9. m.pieceList = p.pieceList /\ m.pieceNoOn = p.pieceNoOn
  BY <1>1 DEF SameList
<1> QED
  BY <1>1, <1>2, <1>3, <1>5, <1>6, <1>7, <1>8, <1>9 DEF q, n, m

WentTo(p, q, from, to, no, pcs) ==
  /\ q \in PositionType /\ Agrees(q) /\ SameState(p, q)
  /\ q.board = Filled(Emptied(p.board, from), to, p.board[from])
  /\ q.pieceList = Listed(p.pieceList, no, <<pcs, to>>)
  /\ q.pieceNoOn = Numbered(Numbered(p.pieceNoOn, to, no), from, PIECE_NUMBER_NB)
  /\ q.material = p.material + PSQT(p.board[from], to) - PSQT(p.board[from], from)
  /\ q.basePhase = p.basePhase

\* The same for the way back, which clears the number afterwards.
LEMMA MovedBack ==
  ASSUME NEW p \in PositionType, Agrees(p), NEW from \in Square, NEW to \in Square,
         from # to, p.board[from] \in Pieces, p.board[to] = EMPTY,
         NEW no \in PieceNumber, NEW pcs \in Pieces
  PROVE  WentTo(p, NoPieceNumber(PutPiece(MovePiece(p, from, to, FALSE), no, to, pcs),
                                 from),
                from, to, no, pcs)
<1> DEFINE m == MovePiece(p, from, to, FALSE)
           n == PutPiece(m, no, to, pcs)
           q == NoPieceNumber(n, from)
           pc == p.board[from]
<1>1. /\ m \in PositionType /\ Agrees(m) /\ SameState(p, m) /\ SameList(p, m)
      /\ m.board = Filled(Emptied(p.board, from), to, pc)
      /\ m.material = p.material + PSQT(pc, to) - PSQT(pc, from)
      /\ m.basePhase = p.basePhase
  BY PSQTInt, MovePieceFields
<1> HIDE DEF m
<1>2. /\ n \in PositionType /\ SameState(m, n) /\ SameSquares(m, n)
      /\ n.pieceList = Listed(m.pieceList, no, <<pcs, to>>)
      /\ n.pieceNoOn = Numbered(m.pieceNoOn, to, no)
  BY <1>1, PutPieceFields
<1> HIDE DEF n
<1>3. /\ q \in PositionType /\ SameState(n, q) /\ SameSquares(n, q)
      /\ q.pieceList = n.pieceList
      /\ q.pieceNoOn = Numbered(n.pieceNoOn, from, PIECE_NUMBER_NB)
  BY <1>2, NoNumberFields
<1> HIDE DEF q
<1>4. SameSquares(m, q)
  BY <1>2, <1>3 DEF SameSquares
<1>5. Agrees(q)
  BY <1>1, <1>4, SameSquaresAgree
<1>7. SameState(p, q)
  BY <1>1, <1>2, <1>3 DEF SameState
<1>8. /\ q.board = m.board /\ q.material = m.material /\ q.basePhase = m.basePhase
  BY <1>4 DEF SameSquares
<1>9. m.pieceList = p.pieceList /\ m.pieceNoOn = p.pieceNoOn
  BY <1>1 DEF SameList
<1> QED
  BY <1>1, <1>2, <1>3, <1>5, <1>7, <1>8, <1>9 DEF WentTo, q, n, m

\* A piece is captured: it leaves the list and the board.
LEMMA Captured ==
  ASSUME NEW p \in PositionType, Agrees(p), NEW sq \in Square,
         p.board[sq] \in Pieces, NEW no \in PieceNumber
  PROVE  LET q  == ClearPiece(Unlist(p, no, sq), sq, TRUE)
             pc == p.board[sq] IN
         /\ q \in PositionType /\ Agrees(q) /\ SameState(p, q) /\ KeepsWords(p, q)
         /\ q.board = Emptied(p.board, sq)
         /\ q.pieceList = Listed(p.pieceList, no, BONA_PIECE_ZERO)
         /\ q.pieceNoOn = Numbered(p.pieceNoOn, sq, PIECE_NUMBER_NB)
         /\ q.material = p.material - PSQT(pc, sq)
         /\ q.basePhase = p.basePhase - PhaseValue(pc)
<1> DEFINE n == Unlist(p, no, sq)
           q == ClearPiece(n, sq, TRUE)
           pc == p.board[sq]
<1>1. /\ n \in PositionType /\ SameState(p, n) /\ SameSquares(p, n)
      /\ n.pieceList = Listed(p.pieceList, no, BONA_PIECE_ZERO)
      /\ n.pieceNoOn = Numbered(p.pieceNoOn, sq, PIECE_NUMBER_NB)
  BY UnlistFields
<1> HIDE DEF n
<1>2. Agrees(n) /\ KeepsWords(p, n)
  BY <1>1, SameSquaresAgree
<1>3. n.board = p.board /\ n.material = p.material /\ n.basePhase = p.basePhase
  BY <1>1 DEF SameSquares
<1>4. /\ q \in PositionType /\ Agrees(q) /\ SameState(n, q) /\ SameList(n, q)
      /\ q.board = Emptied(n.board, sq)
      /\ KeepsWords(n, q)
      /\ q.material = n.material - PSQT(n.board[sq], sq)
      /\ q.basePhase = n.basePhase - PhaseValue(n.board[sq])
  BY <1>1, <1>2, <1>3, PSQTInt, ClearPieceFields
<1> HIDE DEF q
<1>5. SameState(p, q)
  BY <1>1, <1>4 DEF SameState
<1>6. KeepsWords(p, q)
  BY <1>2, <1>4, KeepsWordsTransitive
<1>7. q.pieceList = n.pieceList /\ q.pieceNoOn = n.pieceNoOn
  BY <1>4 DEF SameList
<1> QED
  BY <1>1, <1>3, <1>4, <1>5, <1>6, <1>7 DEF q, n

\* A piece comes back to the board and the list.
LEMMA Returned ==
  ASSUME NEW p \in PositionType, Agrees(p), NEW sq \in Square,
         p.board[sq] = EMPTY, NEW no \in PieceNumber, NEW pc \in Pieces
  PROVE  LET q == PutPiece(AddPiece(p, sq, pc, FALSE), no, sq, pc) IN
         /\ q \in PositionType /\ Agrees(q) /\ SameState(p, q)
         /\ q.board = Filled(p.board, sq, pc)
         /\ q.pieceList = Listed(p.pieceList, no, <<pc, sq>>)
         /\ q.pieceNoOn = Numbered(p.pieceNoOn, sq, no)
         /\ q.material = p.material + PSQT(pc, sq)
         /\ q.basePhase = p.basePhase + PhaseValue(pc)
<1> DEFINE n == AddPiece(p, sq, pc, FALSE)
           q == PutPiece(n, no, sq, pc)
<1>1. /\ n \in PositionType /\ Agrees(n) /\ SameState(p, n) /\ SameList(p, n)
      /\ n.board = Filled(p.board, sq, pc)
      /\ n.material = p.material + PSQT(pc, sq)
      /\ n.basePhase = p.basePhase + PhaseValue(pc)
  BY PSQTInt, AddPieceFields
<1> HIDE DEF n
<1>2. /\ q \in PositionType /\ SameState(n, q) /\ SameSquares(n, q)
      /\ q.pieceList = Listed(n.pieceList, no, <<pc, sq>>)
      /\ q.pieceNoOn = Numbered(n.pieceNoOn, sq, no)
  BY <1>1, PutPieceFields
<1> HIDE DEF q
<1>3. Agrees(q)
  BY <1>1, <1>2, SameSquaresAgree
<1>4. SameState(p, q)
  BY <1>1, <1>2 DEF SameState
<1>5. /\ q.board = n.board /\ q.material = n.material /\ q.basePhase = n.basePhase
      /\ n.pieceList = p.pieceList /\ n.pieceNoOn = p.pieceNoOn
  BY <1>1, <1>2 DEF SameSquares, SameList
<1> QED
  BY <1>1, <1>2, <1>3, <1>4, <1>5 DEF q, n

\* A piece is replaced by another one on its square.
LEMMA Replaced ==
  ASSUME NEW p \in PositionType, Agrees(p), NEW sq \in Square,
         p.board[sq] \in Pieces, NEW pc \in Pieces, NEW hash \in BOOLEAN
  PROVE  LET q   == AddPiece(ClearPiece(p, sq, hash), sq, pc, hash)
             old == p.board[sq] IN
         /\ q \in PositionType /\ Agrees(q) /\ SameState(p, q) /\ SameList(p, q)
         /\ hash => KeepsWords(p, q)
         /\ q.board = Filled(p.board, sq, pc)
         /\ q.material = p.material - PSQT(old, sq) + PSQT(pc, sq)
         /\ q.basePhase = p.basePhase - PhaseValue(old) + PhaseValue(pc)
<1> DEFINE n == ClearPiece(p, sq, hash)
           q == AddPiece(n, sq, pc, hash)
           old == p.board[sq]
<1>1. /\ n \in PositionType /\ Agrees(n) /\ SameState(p, n) /\ SameList(p, n)
      /\ n.board = Emptied(p.board, sq)
      /\ hash => KeepsWords(p, n)
      /\ n.material = p.material - PSQT(old, sq)
      /\ n.basePhase = p.basePhase - PhaseValue(old)
  BY PSQTInt, ClearPieceFields
<1>2. n.board[sq] = EMPTY
  BY <1>1 DEF PositionType, Emptied
<1> HIDE DEF n
<1>3. /\ q \in PositionType /\ Agrees(q) /\ SameState(n, q) /\ SameList(n, q)
      /\ q.board = Filled(n.board, sq, pc)
      /\ hash => KeepsWords(n, q)
      /\ q.material = n.material + PSQT(pc, sq)
      /\ q.basePhase = n.basePhase + PhaseValue(pc)
  BY <1>1, <1>2, PSQTInt, AddPieceFields
<1> HIDE DEF q
<1>4. q.board = Filled(p.board, sq, pc)
  BY <1>1, <1>3 DEF PositionType, Emptied, Filled
<1>5. SameState(p, q) /\ SameList(p, q)
  BY <1>1, <1>3 DEF SameState, SameList
<1>6. hash => KeepsWords(p, q)
  BY <1>1, <1>3, KeepsWordsTransitive
<1> QED
  BY <1>1, <1>3, <1>4, <1>5, <1>6 DEF q, n

-----------------------------------------------------------------------------
(* What the generators guarantee of a move, and what holds of a position.  *)

EpWords(sq) == IF sq \in 16..47 THEN {sq} ELSE {}
KeyOk(p) == /\ p.key.pieces = Words(p.board)
            /\ p.key.side = (p.stm = WHITE)
            /\ p.key.castle = {p.castlingRights}
            /\ p.key.ep = EpWords(p.epSquare)

\* Numbers and squares point to each other.
ListOk(board, nos, list) ==
  /\ \A sq \in Square :
       IF board[sq] = EMPTY THEN nos[sq] = PIECE_NUMBER_NB
       ELSE nos[sq] \in PieceNumber /\ list[nos[sq]] = <<board[sq], sq>>
  /\ \A no \in PieceNumber :
       list[no] = BONA_PIECE_ZERO \/ nos[list[no][2]] = no
  /\ list[PIECE_NUMBER_WKING][1] = MakePiece(WHITE, KING)
  /\ list[PIECE_NUMBER_BKING][1] = MakePiece(BLACK, KING)

OneKing(board) ==
  \A c \in Colors : \E k \in Square :
    \A sq \in Square : board[sq] = MakePiece(c, KING) <=> sq = k

\* The pawn that can be captured en passant, and the squares it passed.
EpOk(p) ==
  p.epSquare # 0 =>
    /\ RelativeRank(p.stm, RankOf(p.epSquare)) = 5
    /\ p.board[p.epSquare] = EMPTY
    /\ p.board[Xor8(p.epSquare)] = MakePiece(Other(p.stm), PAWN)

\* A right is only there with king and rook on their squares.
RightsOk(board, rights) ==
  /\ rights \cap CastleOf(WHITE) # {} => board[E1] = MakePiece(WHITE, KING)
  /\ rights \cap CastleOf(BLACK) # {} => board[E8] = MakePiece(BLACK, KING)
  /\ WHITE_OO \in rights  => board[H1] = MakePiece(WHITE, ROOK)
  /\ WHITE_OOO \in rights => board[A1] = MakePiece(WHITE, ROOK)
  /\ BLACK_OO \in rights  => board[H8] = MakePiece(BLACK, ROOK)
  /\ BLACK_OOO \in rights => board[A8] = MakePiece(BLACK, ROOK)

Sound(p) == p \in PositionType /\ Agrees(p) /\ KeyOk(p)

Good(p) == /\ Sound(p)
           /\ ListOk(p.board, p.pieceNoOn, p.pieceList)
           /\ OneKing(p.board) /\ EpOk(p)
           /\ RightsOk(p.board, p.castlingRights)
           /\ ~KingAttacked(p, Other(p.stm))

IsMove(m) == m = MOVE(m.from, m.to, m.capt, m.promo, m.flag)

\* What the generators guarantee of a move of the position p.
MoveOk(p, m) ==
  LET us == p.stm IN
  /\ IsMove(m)
  /\ m.from \in Square /\ m.to \in Square /\ m.from # m.to
  /\ p.board[m.from] # EMPTY /\ ColorOf(p.board[m.from]) = us
  /\ m.capt = p.board[m.to]
  /\ m.capt # EMPTY => /\ ColorOf(m.capt) = Other(us)
                       /\ PieceTypeOf(m.capt) # KING
  /\ m.promo # EMPTY => /\ m.flag = "none"
                        /\ p.board[m.from] = MakePiece(us, PAWN)
                        /\ m.promo \in Pieces /\ ColorOf(m.promo) = us
                        /\ PieceTypeOf(m.promo) # KING
  /\ m.flag \in {"none", "pstart", "enpas", "castle"}
  /\ m.flag = "pstart" => /\ p.board[m.from] = MakePiece(us, PAWN)
                          /\ m.capt = EMPTY /\ p.board[Xor8(m.to)] = EMPTY
                          /\ RelativeRank(us, RankOf(m.to)) = 3
  /\ m.flag = "enpas" => /\ p.board[m.from] = MakePiece(us, PAWN)
                         /\ m.to = p.epSquare /\ m.to # 0
  /\ m.flag = "castle" => /\ m.from = (IF us = WHITE THEN E1 ELSE E8)
                          /\ m.to \in (IF us = WHITE THEN {C1, G1} ELSE {C8, G8})
                          /\ p.board[m.from] = MakePiece(us, KING)
                          /\ p.board[RookFrom(m.to)] = MakePiece(us, ROOK)
                          /\ m.capt = EMPTY /\ p.board[RookTo(m.to)] = EMPTY

-----------------------------------------------------------------------------
(* The steps of Made.                                                      *)

SameTurn(p, q) == /\ q.stm = p.stm /\ q.epSquare = p.epSquare
                  /\ q.castlingRights = p.castlingRights

LEMMA KeyKept ==
  ASSUME NEW p, NEW q, KeyOk(p), KeepsWords(p, q), SameTurn(p, q)
  PROVE  KeyOk(q)
BY DEF KeyOk, KeepsWords, SameTurn

LEMMA SameStateTurn ==
  ASSUME NEW p, NEW q, SameState(p, q)
  PROVE  SameTurn(p, q)
BY DEF SameState, SameTurn

LEMMA Rule50Reset ==
  ASSUME NEW p \in PositionType
  PROVE  LET q == [p EXCEPT !.rule50 = 0] IN
         /\ q \in PositionType /\ SameTurn(p, q)
         /\ SameSquares(p, q) /\ SameList(p, q)
BY DEF PositionType, SameTurn, SameSquares, SameList

LEMMA KeyAsGenerated ==
  ASSUME NEW p \in PositionType
  PROVE  KeyOk(p) <=> p.key = GeneratePosKey(p)
<1> DEFINE g == [pieces |-> Words(p.board), side |-> p.stm = WHITE,
                 castle |-> {p.castlingRights}, ep |-> {}]
           h == HashEP(g, p.epSquare)
<1>1. GeneratePosKey(p) = h
  BY DEF GeneratePosKey, Words
<1>2. /\ h.pieces = Words(p.board) /\ h.side = (p.stm = WHITE)
      /\ h.castle = {p.castlingRights} /\ h.ep = EpWords(p.epSquare)
      /\ h = [pieces |-> h.pieces, side |-> h.side, castle |-> h.castle, ep |-> h.ep]
  BY DEF HashEP, EpWords, SymDiff
<1> HIDE DEF h
<1>3. p.key = [pieces |-> p.key.pieces, side |-> p.key.side,
               castle |-> p.key.castle, ep |-> p.key.ep]
  BY DEF PositionType, KeyType
<1>4. ASSUME KeyOk(p)
      PROVE  p.key = h
  <2>1. /\ p.key.pieces = h.pieces /\ p.key.side = h.side
        /\ p.key.castle = h.castle /\ p.key.ep = h.ep
    BY <1>2, <1>4, Zenon DEF KeyOk
  <2> QED
    BY <1>2, <1>3, <2>1, Zenon
<1>5. ASSUME p.key = h
      PROVE  KeyOk(p)
  BY <1>2, <1>5, Zenon DEF KeyOk
<1> QED
  BY <1>1, <1>4, <1>5, Zenon

Stays(p, m)  == p.castlingRights \cap CastlePerm(m.from) \cap CastlePerm(m.to)
CaptureSq(m) == CASE m.flag = "enpas"  -> Xor8(m.to)
                  [] m.flag = "castle" -> RookFrom(m.to)
                  [] OTHER -> m.to

\* Counters, rights and the key's words for them.
Started(p, m) ==
  [p EXCEPT !.rule50 = @ + 1, !.epSquare = 0, !.castlingRights = Stays(p, m),
            !.key = HashCA(HashCA(HashEP(@, p.epSquare), p.castlingRights),
                           Stays(p, m))]

LEMMA StartedFields ==
  ASSUME NEW p, Sound(p), NEW m, EpOk(p)
  PROVE  LET q == Started(p, m) IN
         /\ Sound(q) /\ SameList(p, q)
         /\ q.board = p.board /\ q.stm = p.stm /\ q.epSquare = 0
         /\ q.castlingRights = Stays(p, m)
         /\ q.material = p.material /\ q.basePhase = p.basePhase
<1> DEFINE stays == Stays(p, m)
           q == Started(p, m)
           k1 == HashEP(p.key, p.epSquare)
           k2 == HashCA(k1, p.castlingRights)
           k3 == HashCA(k2, stays)
<1>1. p \in PositionType /\ KeyOk(p) /\ Agrees(p) /\ p.key \in KeyType
  BY DEF Sound, PositionType
<1>2. stays \in SUBSET (OO \cup OOO) /\ p.castlingRights \in SUBSET (OO \cup OOO)
  BY <1>1 DEF Stays, PositionType
<1>3. k1 \in KeyType /\ k1.pieces = p.key.pieces /\ k1.side = p.key.side
      /\ k1.castle = p.key.castle /\ k1.ep = {}
  <2>1. p.epSquare \in Square /\ p.key.ep = EpWords(p.epSquare)
    BY <1>1 DEF KeyOk, PositionType
  <2>2. CASE p.epSquare \in 16..47
    <3>1. k1 = [p.key EXCEPT !.ep = SymDiff(@, {p.epSquare})]
      BY <2>2 DEF HashEP
    <3>2. SymDiff(p.key.ep, {p.epSquare}) = {}
      BY <2>1, <2>2 DEF EpWords, SymDiff
    <3> QED
      BY <1>1, <3>1, <3>2 DEF KeyType
  <2>3. CASE p.epSquare \notin 16..47
    BY <1>1, <2>1, <2>3 DEF HashEP, EpWords
  <2> QED
    BY <2>2, <2>3
<1> HIDE DEF k1
<1>4. k2 \in KeyType /\ k2.pieces = p.key.pieces /\ k2.side = p.key.side
      /\ k2.castle = {} /\ k2.ep = {}
  <2>1. k2 = [k1 EXCEPT !.castle = SymDiff(@, {p.castlingRights})]
    BY DEF HashCA
  <2>2. SymDiff(k1.castle, {p.castlingRights}) = {}
    BY <1>1, <1>3 DEF KeyOk, SymDiff
  <2> QED
    BY <1>3, <2>1, <2>2 DEF KeyType
<1> HIDE DEF k2
<1>5. k3 \in KeyType /\ k3.pieces = p.key.pieces /\ k3.side = p.key.side
      /\ k3.castle = {stays} /\ k3.ep = {}
  <2>1. k3 = [k2 EXCEPT !.castle = SymDiff(@, {stays})]
    BY DEF HashCA
  <2>2. SymDiff(k2.castle, {stays}) = {stays}
    BY <1>4 DEF SymDiff
  <2>3. {stays} \in SUBSET SUBSET (OO \cup OOO)
    BY <1>2
  <2> QED
    BY <1>4, <2>1, <2>2, <2>3 DEF KeyType
<1>6. q = [p EXCEPT !.rule50 = @ + 1, !.epSquare = 0,
                    !.castlingRights = stays, !.key = k3]
  BY DEF Started, k1, k2
<1> HIDE DEF k3, q, stays
<1>7. /\ SameList(p, q) /\ q.board = p.board /\ q.stm = p.stm /\ q.epSquare = 0
      /\ q.castlingRights = stays /\ q.key = k3
      /\ q.material = p.material /\ q.basePhase = p.basePhase
      /\ q.colorBB = p.colorBB /\ q.pieceBB = p.pieceBB
      /\ q.nonPawnCount = p.nonPawnCount
  BY <1>1, <1>6 DEF PositionType, SameList
<1>8. q \in PositionType
  <2>1. p.rule50 \in Nat
    BY <1>1 DEF PositionType
  <2>3. p.rule50 + 1 \in Nat /\ 0 \in Square
    BY <2>1 DEF Square
  <2>2. stays \in SUBSET (OO \cup OOO)
    BY <1>2 DEF stays
  <2> QED
    BY <1>1, <1>5, <1>6, <2>2, <2>3 DEF PositionType
<1>9. Agrees(q)
  BY <1>1, <1>7 DEF Agrees
<1>10. KeyOk(q)
  <2>1. EpWords(0) = {}
    BY DEF EpWords
  <2> QED
    BY <1>1, <1>5, <1>7, <2>1 DEF KeyOk
<1> QED
  BY <1>7, <1>8, <1>9, <1>10 DEF Sound, q, stays

-----------------------------------------------------------------------------
(* The named steps of Made.                                                *)

CapturedNo(p, m) == p.pieceNoOn[CaptureSq(m)]
MovedNo(p, m)    == p.pieceNoOn[m.from]

\* The captured piece is off the board and the list.
Step2(p, m) ==
  IF m.capt = EMPTY THEN Started(p, m)
  ELSE [ClearPiece(Unlist(Started(p, m), CapturedNo(p, m), m.to), m.to, TRUE)
          EXCEPT !.rule50 = 0]

\* The pawn captured en passant is off the list.
Step3(p, m) ==
  IF m.flag = "enpas" THEN Unlist(Step2(p, m), CapturedNo(p, m), CaptureSq(m))
                      ELSE Step2(p, m)

\* The piece has moved.
Step4(p, m) ==
  PutPiece(NoPieceNumber(MovePiece(Step3(p, m), m.from, m.to, TRUE), m.from),
           MovedNo(p, m), m.to, p.board[m.from])

\* What is special about pawns and castling is done.
Step5(p, m) ==
  IF PieceTypeOf(p.board[m.from]) = PAWN
  THEN PawnSpecifics([Step4(p, m) EXCEPT !.rule50 = 0], m, MovedNo(p, m))
  ELSE IF m.flag = "castle"
  THEN PutPiece(NoPieceNumber(MovePiece(Step4(p, m), CaptureSq(m), RookTo(m.to), TRUE),
                              CaptureSq(m)),
                CapturedNo(p, m), RookTo(m.to), MakePiece(p.stm, ROOK))
  ELSE Step4(p, m)

Step6(p, m) == [Step5(p, m) EXCEPT !.stm = Other(p.stm), !.key = HashSide(@)]

LEMMA MadeSteps ==
  ASSUME NEW p, NEW m
  PROVE  /\ Made(p, m).pos = Step6(p, m)
         /\ Made(p, m).st =
              [posKey |-> p.key, move |-> m, epSquare |-> p.epSquare,
               rule50 |-> p.rule50, castlingRights |-> p.castlingRights,
               dirtyPiece |-> DirtyPieceOf(p, Step5(p, m), m, MovedNo(p, m),
                                           CapturedNo(p, m))]
BY Zenon DEF Made, Step6, Step5, Step4, Step3, Step2, Started, Stays,
       CaptureSq, CapturedNo, MovedNo

-----------------------------------------------------------------------------
(* The piece list, operation by operation.                                 *)

NosType == [Square -> 0..PIECE_NUMBER_NB]
ListType == [PieceNumber -> BonaPieces]

LEMMA ListFacts ==
  ASSUME NEW b \in BoardType, NEW nos \in NosType, NEW list \in ListType,
         ListOk(b, nos, list), NEW sq \in Square, b[sq] \in Pieces
  PROVE  /\ nos[sq] \in PieceNumber /\ list[nos[sq]] = <<b[sq], sq>>
         /\ \A s \in Square : s # sq => nos[s] # nos[sq]
         /\ PieceTypeOf(b[sq]) # KING =>
              /\ nos[sq] # PIECE_NUMBER_WKING /\ nos[sq] # PIECE_NUMBER_BKING
<1>1. nos[sq] \in PieceNumber /\ list[nos[sq]] = <<b[sq], sq>>
  BY PieceFacts DEF ListOk
<1>2. ASSUME NEW s \in Square, s # sq, nos[s] = nos[sq]
      PROVE  FALSE
  <2>1. CASE b[s] = EMPTY
    BY <1>1, <1>2, <2>1 DEF ListOk, PieceNumber, PIECE_NUMBER_NB
  <2>2. CASE b[s] # EMPTY
    <3>1. list[nos[s]] = <<b[s], s>>
      BY <2>2 DEF ListOk
    <3> QED
      BY <1>1, <1>2, <3>1
  <2> QED
    BY <2>1, <2>2
<1>3. \A c \in Colors : PieceTypeOf(MakePiece(c, KING)) = KING
  BY MakePieceFacts DEF PAWN, KING
<1>4. ASSUME PieceTypeOf(b[sq]) # KING
      PROVE  nos[sq] # PIECE_NUMBER_WKING /\ nos[sq] # PIECE_NUMBER_BKING
  <2>1. list[nos[sq]][1] = b[sq]
    BY <1>1
  <2> QED
    BY <1>3, <1>4, <2>1 DEF ListOk, Colors
<1> QED
  BY <1>1, <1>2, <1>4

LEMMA ListRemoved ==
  ASSUME NEW b \in BoardType, NEW nos \in NosType, NEW list \in ListType,
         ListOk(b, nos, list), NEW sq \in Square, b[sq] \in Pieces,
         PieceTypeOf(b[sq]) # KING
  PROVE  ListOk(Emptied(b, sq), Numbered(nos, sq, PIECE_NUMBER_NB),
                Listed(list, nos[sq], BONA_PIECE_ZERO))
<1> DEFINE d == Emptied(b, sq)
           n == Numbered(nos, sq, PIECE_NUMBER_NB)
           l == Listed(list, nos[sq], BONA_PIECE_ZERO)
           no == nos[sq]
<1>1. /\ no \in PieceNumber /\ list[no] = <<b[sq], sq>>
      /\ \A s \in Square : s # sq => nos[s] # no
      /\ no # PIECE_NUMBER_WKING /\ no # PIECE_NUMBER_BKING
  BY ListFacts
<1>2. /\ d[sq] = EMPTY /\ n[sq] = PIECE_NUMBER_NB
      /\ \A s \in Square : s # sq => d[s] = b[s] /\ n[s] = nos[s]
  BY DEF BoardType, Emptied, NosType, Numbered
<1>3. /\ l[no] = BONA_PIECE_ZERO
      /\ \A k \in PieceNumber : k # no => l[k] = list[k]
  BY <1>1 DEF ListType, Listed
<1> HIDE DEF d, n, l, no
<1>4. ASSUME NEW s \in Square
      PROVE  IF d[s] = EMPTY THEN n[s] = PIECE_NUMBER_NB
             ELSE n[s] \in PieceNumber /\ l[n[s]] = <<d[s], s>>
  BY <1>1, <1>2, <1>3 DEF ListOk
<1>5. ASSUME NEW k \in PieceNumber
      PROVE  l[k] = BONA_PIECE_ZERO \/ n[l[k][2]] = k
  <2>1. CASE k = no
    BY <1>3, <2>1
  <2>2. CASE k # no /\ list[k] # BONA_PIECE_ZERO
    <3>1. nos[list[k][2]] = k /\ list[k][2] \in Square
      BY <2>2 DEF ListOk, ListType, BonaPieces
    <3>2. list[k][2] # sq
      BY <2>2, <3>1 DEF no
    <3> QED
      BY <1>2, <1>3, <2>2, <3>1, <3>2
  <2>3. CASE k # no /\ list[k] = BONA_PIECE_ZERO
    BY <1>3, <2>3
  <2> QED
    BY <2>1, <2>2, <2>3
<1>6. /\ l[PIECE_NUMBER_WKING][1] = MakePiece(WHITE, KING)
      /\ l[PIECE_NUMBER_BKING][1] = MakePiece(BLACK, KING)
  BY <1>1, <1>3 DEF ListOk, PieceNumber, PIECE_NUMBER_WKING, PIECE_NUMBER_BKING
<1>7. ListOk(d, n, l)
  BY <1>4, <1>5, <1>6, Zenon DEF ListOk
<1> QED
  BY <1>7, Zenon DEF d, n, l, no

LEMMA ListMoved ==
  ASSUME NEW b \in BoardType, NEW nos \in NosType, NEW list \in ListType,
         ListOk(b, nos, list), NEW from \in Square, NEW to \in Square,
         from # to, b[from] \in Pieces, b[to] = EMPTY
  PROVE  ListOk(Filled(Emptied(b, from), to, b[from]),
                Numbered(Numbered(nos, from, PIECE_NUMBER_NB), to, nos[from]),
                Listed(list, nos[from], <<b[from], to>>))
<1> DEFINE d == Filled(Emptied(b, from), to, b[from])
           n == Numbered(Numbered(nos, from, PIECE_NUMBER_NB), to, nos[from])
           l == Listed(list, nos[from], <<b[from], to>>)
           no == nos[from]
           pc == b[from]
<1>1. /\ no \in PieceNumber /\ list[no] = <<pc, from>>
      /\ \A s \in Square : s # from => nos[s] # no
  BY ListFacts
<1>2. /\ d[from] = EMPTY /\ n[from] = PIECE_NUMBER_NB
      /\ d[to] = pc /\ n[to] = no /\ pc # EMPTY
      /\ \A s \in Square : s # from /\ s # to => d[s] = b[s] /\ n[s] = nos[s]
  BY PieceFacts DEF BoardType, Emptied, Filled, NosType, Numbered
<1>3. /\ l[no] = <<pc, to>>
      /\ \A k \in PieceNumber : k # no => l[k] = list[k]
  BY <1>1 DEF ListType, Listed
<1>0. nos[to] = PIECE_NUMBER_NB
  BY DEF ListOk
<1> HIDE DEF d, n, l, no
<1>4. ASSUME NEW s \in Square
      PROVE  IF d[s] = EMPTY THEN n[s] = PIECE_NUMBER_NB
             ELSE n[s] \in PieceNumber /\ l[n[s]] = <<d[s], s>>
  <2>1. CASE s = from
    BY <1>2, <2>1
  <2>2. CASE s = to
    BY <1>1, <1>2, <1>3, <2>2
  <2>3. CASE s # from /\ s # to
    BY <1>1, <1>2, <1>3, <2>3 DEF ListOk
  <2> QED
    BY <2>1, <2>2, <2>3
<1>5. ASSUME NEW k \in PieceNumber
      PROVE  l[k] = BONA_PIECE_ZERO \/ n[l[k][2]] = k
  <2>1. CASE k = no
    BY <1>2, <1>3, <2>1
  <2>2. CASE k # no /\ list[k] # BONA_PIECE_ZERO
    <3>1. nos[list[k][2]] = k /\ list[k][2] \in Square
      BY <2>2 DEF ListOk, ListType, BonaPieces
    <3>2. list[k][2] # from /\ list[k][2] # to
      BY <1>0, <2>2, <3>1 DEF no, PieceNumber, PIECE_NUMBER_NB
    <3> QED
      BY <1>2, <1>3, <2>2, <3>1, <3>2
  <2>3. CASE k # no /\ list[k] = BONA_PIECE_ZERO
    BY <1>3, <2>3
  <2> QED
    BY <2>1, <2>2, <2>3
<1>6. ASSUME NEW k \in PieceNumber
      PROVE  l[k][1] = list[k][1]
  BY <1>1, <1>3
<1>7. PIECE_NUMBER_WKING \in PieceNumber /\ PIECE_NUMBER_BKING \in PieceNumber
  BY DEF PieceNumber, PIECE_NUMBER_WKING, PIECE_NUMBER_BKING
<1>8. /\ l[PIECE_NUMBER_WKING][1] = MakePiece(WHITE, KING)
      /\ l[PIECE_NUMBER_BKING][1] = MakePiece(BLACK, KING)
  BY <1>6, <1>7 DEF ListOk
<1>9. ListOk(d, n, l)
  BY <1>4, <1>5, <1>8, Zenon DEF ListOk
<1> QED
  BY <1>9, Zenon DEF d, n, l, no

LEMMA ListReplaced ==
  ASSUME NEW b \in BoardType, NEW nos \in NosType, NEW list \in ListType,
         ListOk(b, nos, list), NEW sq \in Square, b[sq] \in Pieces,
         PieceTypeOf(b[sq]) # KING, NEW pc \in Pieces
  PROVE  ListOk(Filled(b, sq, pc), Numbered(nos, sq, nos[sq]),
                Listed(list, nos[sq], <<pc, sq>>))
<1> DEFINE d == Filled(b, sq, pc)
           n == Numbered(nos, sq, nos[sq])
           l == Listed(list, nos[sq], <<pc, sq>>)
           no == nos[sq]
<1>1. /\ no \in PieceNumber /\ list[no] = <<b[sq], sq>>
      /\ \A s \in Square : s # sq => nos[s] # no
      /\ no # PIECE_NUMBER_WKING /\ no # PIECE_NUMBER_BKING
  BY ListFacts
<1>2. /\ d[sq] = pc /\ pc # EMPTY
      /\ \A s \in Square : s # sq => d[s] = b[s]
      /\ \A s \in Square : n[s] = nos[s]
  BY PieceFacts DEF BoardType, Filled, NosType, Numbered
<1>3. /\ l[no] = <<pc, sq>>
      /\ \A k \in PieceNumber : k # no => l[k] = list[k]
  BY <1>1 DEF ListType, Listed
<1> HIDE DEF d, n, l
<1>4. ASSUME NEW s \in Square
      PROVE  IF d[s] = EMPTY THEN n[s] = PIECE_NUMBER_NB
             ELSE n[s] \in PieceNumber /\ l[n[s]] = <<d[s], s>>
  BY <1>1, <1>2, <1>3 DEF ListOk
<1>5. ASSUME NEW k \in PieceNumber
      PROVE  l[k] = BONA_PIECE_ZERO \/ n[l[k][2]] = k
  <2>1. CASE k = no
    BY <1>2, <1>3, <2>1
  <2>2. CASE k # no
    BY <1>2, <1>3, <2>2 DEF ListOk, ListType, BonaPieces
  <2> QED
    BY <2>1, <2>2
<1>6. /\ l[PIECE_NUMBER_WKING][1] = MakePiece(WHITE, KING)
      /\ l[PIECE_NUMBER_BKING][1] = MakePiece(BLACK, KING)
  BY <1>1, <1>3 DEF ListOk, PieceNumber, PIECE_NUMBER_WKING, PIECE_NUMBER_BKING
<1>7. ListOk(d, n, l)
  BY <1>4, <1>5, <1>6, Zenon DEF ListOk
<1> QED
  BY <1>7, Zenon DEF d, n, l, no

-----------------------------------------------------------------------------
(* What a legal kind of move finds on the board.                           *)

LEMMA Xor8Facts ==
  ASSUME NEW sq \in Square
  PROVE  Xor8(sq) \in Square /\ Xor8(sq) # sq /\ Xor8(Xor8(sq)) = sq
BY DEF Xor8, RankOf, Square

LEMMA OtherFacts ==
  ASSUME NEW c \in Colors
  PROVE  Other(c) \in Colors /\ Other(c) # c /\ Other(Other(c)) = c
BY DEF Other, Colors, WHITE, BLACK

LEMMA PositionParts ==
  ASSUME NEW p \in PositionType
  PROVE  /\ p.board \in BoardType /\ p.pieceNoOn \in NosType
         /\ p.pieceList \in ListType /\ p.stm \in Colors
         /\ p.material \in Int /\ p.basePhase \in Int
         /\ \A sq \in Square : p.board[sq] # EMPTY => p.board[sq] \in Pieces
BY DEF PositionType, BoardType, NosType, ListType

\* The squares of a castling rook.
LEMMA RookSquares ==
  ASSUME NEW us \in Colors, NEW from, from = (IF us = WHITE THEN E1 ELSE E8),
         NEW to, to \in (IF us = WHITE THEN {C1, G1} ELSE {C8, G8})
  PROVE  /\ RookFrom(to) \in Square /\ RookTo(to) \in Square
         /\ from \in Square /\ to \in Square /\ from # to
         /\ RookFrom(to) # RookTo(to) /\ RookFrom(to) # from /\ RookFrom(to) # to
         /\ RookTo(to) # from /\ RookTo(to) # to
BY DEF RookFrom, RookTo, Square, Colors, A1, C1, D1, E1, F1, G1, H1,
       A8, C8, D8, E8, F8, G8, H8, WHITE, BLACK

LEMMA MoveFacts ==
  ASSUME NEW p, Good(p), NEW m, MoveOk(p, m)
  PROVE  /\ m.from \in Square /\ m.to \in Square /\ m.from # m.to
         /\ CaptureSq(m) \in Square
         /\ p.board[m.from] \in Pieces /\ ColorOf(p.board[m.from]) = p.stm
         /\ MovedNo(p, m) \in PieceNumber
         /\ m.capt # EMPTY =>
              /\ m.flag = "none" /\ CaptureSq(m) = m.to /\ m.capt \in Pieces
              /\ PieceTypeOf(m.capt) # KING /\ p.board[m.to] = m.capt
              /\ CapturedNo(p, m) \in PieceNumber
         /\ m.capt = EMPTY => p.board[m.to] = EMPTY
         /\ m.flag = "enpas" =>
              /\ CaptureSq(m) = Xor8(m.to) /\ m.capt = EMPTY /\ m.promo = EMPTY
              /\ CaptureSq(m) # m.from /\ CaptureSq(m) # m.to
              /\ p.board[CaptureSq(m)] = MakePiece(Other(p.stm), PAWN)
              /\ CapturedNo(p, m) \in PieceNumber
         /\ m.flag = "castle" =>
              /\ CaptureSq(m) = RookFrom(m.to) /\ m.capt = EMPTY /\ m.promo = EMPTY
              /\ PieceTypeOf(p.board[m.from]) = KING
              /\ CapturedNo(p, m) \in PieceNumber
         /\ m.promo # EMPTY => m.flag = "none"
         /\ m.flag \in {"pstart", "enpas"} \/ m.promo # EMPTY =>
              PieceTypeOf(p.board[m.from]) = PAWN
         /\ m.capt # EMPTY \/ m.flag \in {"enpas", "castle"} =>
              MovedNo(p, m) # CapturedNo(p, m)
<1> DEFINE b == p.board
           us == p.stm
           from == m.from
           to == m.to
           capsq == CaptureSq(m)
<1>1. /\ p \in PositionType /\ b \in BoardType /\ p.pieceNoOn \in NosType
      /\ p.pieceList \in ListType /\ us \in Colors
      /\ \A sq \in Square : b[sq] # EMPTY => b[sq] \in Pieces
      /\ ListOk(b, p.pieceNoOn, p.pieceList) /\ EpOk(p)
  BY PositionParts DEF Good, Sound
<1>2. /\ from \in Square /\ to \in Square /\ from # to
      /\ b[from] \in Pieces /\ ColorOf(b[from]) = us
      /\ m.capt = b[to]
  BY <1>1 DEF MoveOk
<1>3. ASSUME m.flag = "enpas"
      PROVE  /\ capsq = Xor8(to) /\ b[to] = EMPTY /\ m.promo = EMPTY
             /\ capsq \in Square /\ capsq # to
             /\ b[capsq] = MakePiece(Other(us), PAWN) /\ b[capsq] \in Pieces
             /\ b[from] = MakePiece(us, PAWN) /\ capsq # from
             /\ PieceTypeOf(b[from]) = PAWN
  <2>1. capsq = Xor8(to) /\ m.promo = EMPTY
    BY <1>3 DEF CaptureSq, MoveOk
  <2>2. to = p.epSquare /\ to # 0 /\ b[from] = MakePiece(us, PAWN)
    BY <1>3 DEF MoveOk
  <2>3. b[to] = EMPTY /\ b[Xor8(to)] = MakePiece(Other(us), PAWN)
    BY <1>1, <2>2 DEF EpOk
  <2>4. /\ ColorOf(MakePiece(Other(us), PAWN)) = Other(us) /\ Other(us) # us
        /\ MakePiece(Other(us), PAWN) \in Pieces
        /\ PieceTypeOf(MakePiece(us, PAWN)) = PAWN
    BY <1>1, OtherFacts, MakePieceFacts, PAWN \in PAWN..KING DEF PAWN, KING
  <2> QED
    BY <1>2, <2>1, <2>2, <2>3, <2>4, Xor8Facts
<1>4. ASSUME m.flag = "castle"
      PROVE  /\ capsq = RookFrom(to) /\ capsq \in Square /\ capsq # from
             /\ m.capt = EMPTY /\ m.promo = EMPTY
             /\ b[capsq] = MakePiece(us, ROOK) /\ b[capsq] \in Pieces
             /\ PieceTypeOf(b[from]) = KING
  <2>1. capsq = RookFrom(to) /\ m.promo = EMPTY /\ m.capt = EMPTY
    BY <1>4 DEF CaptureSq, MoveOk
  <2>2. /\ from = (IF us = WHITE THEN E1 ELSE E8)
        /\ to \in (IF us = WHITE THEN {C1, G1} ELSE {C8, G8})
        /\ b[from] = MakePiece(us, KING) /\ b[capsq] = MakePiece(us, ROOK)
    BY <1>4, <2>1 DEF MoveOk
  <2>3. capsq \in Square /\ capsq # from
    BY <1>1, <2>1, <2>2, RookSquares
  <2>4. /\ MakePiece(us, ROOK) \in Pieces
        /\ PieceTypeOf(MakePiece(us, KING)) = KING
    BY <1>1, MakePieceFacts DEF PAWN, KING, ROOK
  <2> QED
    BY <2>1, <2>2, <2>3, <2>4
<1>5. ASSUME m.flag \notin {"enpas", "castle"}
      PROVE  capsq = to
  BY <1>5 DEF CaptureSq
<1>6. capsq \in Square
  BY <1>2, <1>3, <1>4, <1>5
<1>7. m.capt # EMPTY => /\ m.flag = "none" /\ m.capt \in Pieces
                        /\ PieceTypeOf(m.capt) # KING
  BY <1>1, <1>2, <1>3, <1>4 DEF MoveOk
<1>8. /\ MovedNo(p, m) \in PieceNumber
      /\ \A s \in Square : s # from => p.pieceNoOn[s] # MovedNo(p, m)
  BY <1>1, <1>2, ListFacts DEF MovedNo
<1>9. ASSUME m.capt # EMPTY \/ m.flag \in {"enpas", "castle"}
      PROVE  /\ b[capsq] \in Pieces /\ capsq # from
  <2>1. CASE m.capt # EMPTY
    BY <1>2, <1>5, <1>7, <2>1
  <2> QED
    BY <1>3, <1>4, <1>9, <2>1
<1>10. ASSUME m.capt # EMPTY \/ m.flag \in {"enpas", "castle"}
       PROVE  CapturedNo(p, m) \in PieceNumber /\ MovedNo(p, m) # CapturedNo(p, m)
  <2>1. CapturedNo(p, m) \in PieceNumber
    BY <1>1, <1>6, <1>9, <1>10, ListFacts DEF CapturedNo
  <2> QED
    BY <1>6, <1>8, <1>9, <1>10, <2>1 DEF CapturedNo
<1>11. m.promo # EMPTY => m.flag = "none" /\ b[from] = MakePiece(us, PAWN)
  BY DEF MoveOk
<1>12. m.flag = "pstart" => b[from] = MakePiece(us, PAWN)
  BY DEF MoveOk
<1>13. PieceTypeOf(MakePiece(us, PAWN)) = PAWN
  BY <1>1, MakePieceFacts DEF PAWN, KING
<1>14. m.flag \in {"pstart", "enpas"} \/ m.promo # EMPTY => PieceTypeOf(b[from]) = PAWN
  BY <1>3, <1>11, <1>12, <1>13
<1> QED
  BY <1>2, <1>3, <1>4, <1>5, <1>6, <1>7, <1>8, <1>10, <1>11, <1>14

-----------------------------------------------------------------------------
(* Made, step by step.                                                     *)

LEMMA OneKingRemoved ==
  ASSUME NEW b \in BoardType, OneKing(b), NEW sq \in Square,
         b[sq] \in Pieces, PieceTypeOf(b[sq]) # KING
  PROVE  OneKing(Emptied(b, sq))
<1> DEFINE d == Emptied(b, sq)
<1>1. ASSUME NEW c \in Colors, NEW s \in Square
      PROVE  d[s] = MakePiece(c, KING) <=> b[s] = MakePiece(c, KING)
  <2>1. /\ MakePiece(c, KING) \in Pieces
        /\ PieceTypeOf(MakePiece(c, KING)) = KING
    BY MakePieceFacts DEF PAWN, KING
  <2> QED
    BY <2>1, PieceFacts DEF BoardType, Emptied
<1> HIDE DEF d
<1>2. OneKing(d)
  BY <1>1 DEF OneKing
<1> QED
  BY <1>2 DEF d

LEMMA OneKingMoved ==
  ASSUME NEW b \in BoardType, OneKing(b), NEW from \in Square, NEW to \in Square,
         from # to, b[from] \in Pieces, b[to] = EMPTY
  PROVE  OneKing(Filled(Emptied(b, from), to, b[from]))
<1> DEFINE d == Filled(Emptied(b, from), to, b[from])
<1>1. /\ d[from] = EMPTY /\ d[to] = b[from]
      /\ \A s \in Square : s # from /\ s # to => d[s] = b[s]
  BY DEF BoardType, Emptied, Filled
<1> HIDE DEF d
<1>2. ASSUME NEW c \in Colors
      PROVE  \E k \in Square : \A s \in Square : d[s] = MakePiece(c, KING) <=> s = k
  <2>1. MakePiece(c, KING) # EMPTY
    BY MakePieceFacts, PieceFacts DEF PAWN, KING
  <2>2. PICK k \in Square : \A s \in Square : b[s] = MakePiece(c, KING) <=> s = k
    BY DEF OneKing
  <2>3. CASE k = from
    <3>1. \A s \in Square : d[s] = MakePiece(c, KING) <=> s = to
      BY <1>1, <2>1, <2>2, <2>3
    <3> QED
      BY <3>1
  <2>4. CASE k # from
    <3>1. \A s \in Square : d[s] = MakePiece(c, KING) <=> s = k
      BY <1>1, <2>1, <2>2, <2>4
    <3> QED
      BY <3>1
  <2> QED
    BY <2>3, <2>4
<1>3. OneKing(d)
  BY <1>2 DEF OneKing
<1> QED
  BY <1>3 DEF d

LEMMA OneKingReplaced ==
  ASSUME NEW b \in BoardType, OneKing(b), NEW sq \in Square, b[sq] \in Pieces,
         PieceTypeOf(b[sq]) # KING, NEW pc \in Pieces, PieceTypeOf(pc) # KING
  PROVE  OneKing(Filled(b, sq, pc))
<1> DEFINE d == Filled(b, sq, pc)
<1>1. d[sq] = pc /\ \A s \in Square : s # sq => d[s] = b[s]
  BY DEF BoardType, Filled
<1>2. \A c \in Colors : PieceTypeOf(MakePiece(c, KING)) = KING
  BY MakePieceFacts DEF PAWN, KING
<1> HIDE DEF d
<1>3. ASSUME NEW c \in Colors, NEW s \in Square
      PROVE  d[s] = MakePiece(c, KING) <=> b[s] = MakePiece(c, KING)
  BY <1>1, <1>2
<1>4. OneKing(d)
  BY <1>3 DEF OneKing
<1> QED
  BY <1>4 DEF d

\* The board and the list once the captured piece is gone, and the pawn
\* captured en passant is off the list but still on its square.
Board2(p, m) == IF m.capt = EMPTY THEN p.board ELSE Emptied(p.board, m.to)
Takes(m)     == m.capt # EMPTY \/ m.flag = "enpas"
List3(p, m)  == IF Takes(m) THEN Listed(p.pieceList, CapturedNo(p, m), BONA_PIECE_ZERO)
                ELSE p.pieceList
Nos3(p, m)   == IF Takes(m)
                THEN Numbered(p.pieceNoOn, CaptureSq(m), PIECE_NUMBER_NB)
                ELSE p.pieceNoOn
Lost(m)      == IF m.capt = EMPTY THEN 0 ELSE PSQT(m.capt, m.to)
LostPhase(m) == IF m.capt = EMPTY THEN 0 ELSE PhaseValue(m.capt)

\* Sound, but for the side to move and the rights a step has reached.
StepOk(p, m, q) == /\ Sound(q) /\ q.stm = p.stm /\ q.epSquare = 0
                   /\ q.castlingRights = Stays(p, m)

LEMMA StepKept ==
  ASSUME NEW p, NEW m, NEW q, StepOk(p, m, q), NEW r \in PositionType,
         SameTurn(q, r), SameSquares(q, r)
  PROVE  StepOk(p, m, r)
BY SameSquaresAgree, KeyKept DEF StepOk, Sound, SameTurn

LEMMA StepDone ==
  ASSUME NEW p, NEW m, NEW q, StepOk(p, m, q), NEW r \in PositionType,
         SameTurn(q, r), Agrees(r), KeepsWords(q, r)
  PROVE  StepOk(p, m, r)
BY KeyKept DEF StepOk, Sound, SameTurn

LEMMA Step2Fields ==
  ASSUME NEW p, Good(p), NEW m, MoveOk(p, m)
  PROVE  LET q == Step2(p, m) IN
         /\ StepOk(p, m, q) /\ q.board = Board2(p, m)
         /\ q.pieceList = IF m.capt = EMPTY THEN p.pieceList ELSE List3(p, m)
         /\ q.pieceNoOn = IF m.capt = EMPTY THEN p.pieceNoOn ELSE Nos3(p, m)
         /\ q.material = p.material - Lost(m)
         /\ q.basePhase = p.basePhase - LostPhase(m)
<1> DEFINE s == Started(p, m)
           q == Step2(p, m)
<1>1. /\ Sound(s) /\ SameList(p, s) /\ s.board = p.board /\ s.stm = p.stm
      /\ s.epSquare = 0 /\ s.castlingRights = Stays(p, m)
      /\ s.material = p.material /\ s.basePhase = p.basePhase
  BY StartedFields DEF Good
<1>2. /\ p.material \in Int /\ p.basePhase \in Int
  BY PositionParts DEF Good, Sound
<1> HIDE DEF s
<1>3. CASE m.capt = EMPTY
  <2>1. q = s
    BY <1>3 DEF Step2, s
  <2>2. Lost(m) = 0 /\ LostPhase(m) = 0
    BY <1>3 DEF Lost, LostPhase
  <2>3. Board2(p, m) = p.board
    BY <1>3 DEF Board2
  <2> HIDE DEF q
  <2> QED
    BY <1>1, <1>2, <1>3, <2>1, <2>2, <2>3 DEF StepOk, SameList, q
<1>4. CASE m.capt # EMPTY
  <2> DEFINE r == ClearPiece(Unlist(s, CapturedNo(p, m), m.to), m.to, TRUE)
  <2>1. q = [r EXCEPT !.rule50 = 0]
    BY <1>4 DEF Step2, s
  <2>2. /\ m.to \in Square /\ CaptureSq(m) = m.to /\ p.board[m.to] = m.capt
        /\ m.capt \in Pieces /\ CapturedNo(p, m) \in PieceNumber
    BY <1>4, MoveFacts
  <2>3. /\ r \in PositionType /\ Agrees(r) /\ SameState(s, r) /\ KeepsWords(s, r)
        /\ r.board = Emptied(s.board, m.to)
        /\ r.pieceList = Listed(s.pieceList, CapturedNo(p, m), BONA_PIECE_ZERO)
        /\ r.pieceNoOn = Numbered(s.pieceNoOn, m.to, PIECE_NUMBER_NB)
        /\ r.material = s.material - PSQT(m.capt, m.to)
        /\ r.basePhase = s.basePhase - PhaseValue(m.capt)
    <3>1. /\ s.board[m.to] = m.capt /\ s.board[m.to] \in Pieces
          /\ s \in PositionType /\ Agrees(s)
      BY <1>1, <2>2 DEF Sound
    <3>2. /\ r \in PositionType /\ Agrees(r) /\ SameState(s, r) /\ KeepsWords(s, r)
          /\ r.board = Emptied(s.board, m.to)
          /\ r.pieceList = Listed(s.pieceList, CapturedNo(p, m), BONA_PIECE_ZERO)
          /\ r.pieceNoOn = Numbered(s.pieceNoOn, m.to, PIECE_NUMBER_NB)
          /\ r.material = s.material - PSQT(s.board[m.to], m.to)
          /\ r.basePhase = s.basePhase - PhaseValue(s.board[m.to])
      BY <2>2, <3>1, Captured
    <3> HIDE DEF r
    <3> QED
      BY <3>1, <3>2
  <2> HIDE DEF r, q
  <2>4. /\ q \in PositionType /\ SameTurn(r, q)
        /\ SameSquares(r, q) /\ SameList(r, q)
    BY <2>1, <2>3, Rule50Reset
  <2>5. StepOk(p, m, s)
    BY <1>1 DEF StepOk
  <2>6. StepOk(p, m, r)
    BY <2>3, <2>5, StepDone, SameStateTurn
  <2>7. StepOk(p, m, q)
    BY <2>4, <2>6, StepKept
  <2>8. /\ Lost(m) = PSQT(m.capt, m.to) /\ LostPhase(m) = PhaseValue(m.capt)
        /\ Board2(p, m) = Emptied(p.board, m.to)
        /\ List3(p, m) = Listed(p.pieceList, CapturedNo(p, m), BONA_PIECE_ZERO)
        /\ Nos3(p, m) = Numbered(p.pieceNoOn, m.to, PIECE_NUMBER_NB)
    BY <1>4, <2>2 DEF Lost, LostPhase, Board2, List3, Nos3, Takes
  <2>9. /\ q.board = r.board /\ q.material = r.material /\ q.basePhase = r.basePhase
        /\ q.pieceList = r.pieceList /\ q.pieceNoOn = r.pieceNoOn
    BY <2>4 DEF SameSquares, SameList
  <2>10. s.pieceList = p.pieceList /\ s.pieceNoOn = p.pieceNoOn
    BY <1>1 DEF SameList
  <2> QED
    BY <1>1, <1>4, <2>3, <2>7, <2>8, <2>9, <2>10 DEF q
<1> QED
  BY <1>3, <1>4

LEMMA Step3Fields ==
  ASSUME NEW p, Good(p), NEW m, MoveOk(p, m)
  PROVE  LET q == Step3(p, m) IN
         /\ StepOk(p, m, q) /\ q.board = Board2(p, m)
         /\ q.pieceList = List3(p, m) /\ q.pieceNoOn = Nos3(p, m)
         /\ q.material = p.material - Lost(m)
         /\ q.basePhase = p.basePhase - LostPhase(m)
<1> DEFINE r == Step2(p, m)
           q == Step3(p, m)
<1>1. /\ StepOk(p, m, r) /\ r.board = Board2(p, m)
      /\ r.pieceList = IF m.capt = EMPTY THEN p.pieceList ELSE List3(p, m)
      /\ r.pieceNoOn = IF m.capt = EMPTY THEN p.pieceNoOn ELSE Nos3(p, m)
      /\ r.material = p.material - Lost(m)
      /\ r.basePhase = p.basePhase - LostPhase(m)
  BY Step2Fields
<1> HIDE DEF r
<1>2. CASE m.flag # "enpas"
  <2>1. q = r
    BY <1>2 DEF Step3, r
  <2>2. m.capt = EMPTY => List3(p, m) = p.pieceList /\ Nos3(p, m) = p.pieceNoOn
    BY <1>2 DEF List3, Nos3, Takes
  <2> QED
    BY <1>1, <2>1, <2>2
<1>3. CASE m.flag = "enpas"
  <2>1. q = Unlist(r, CapturedNo(p, m), CaptureSq(m))
    BY <1>3 DEF Step3, r
  <2>2. /\ m.capt = EMPTY /\ CaptureSq(m) \in Square
        /\ CapturedNo(p, m) \in PieceNumber
    BY <1>3, MoveFacts
  <2>3. /\ q \in PositionType /\ SameState(r, q) /\ SameSquares(r, q)
        /\ q.pieceList = Listed(r.pieceList, CapturedNo(p, m), BONA_PIECE_ZERO)
        /\ q.pieceNoOn = Numbered(r.pieceNoOn, CaptureSq(m), PIECE_NUMBER_NB)
    BY <1>1, <2>1, <2>2, UnlistFields DEF StepOk, Sound
  <2> HIDE DEF q
  <2>4. StepOk(p, m, q)
    BY <1>1, <2>3, StepKept, SameStateTurn
  <2>5. /\ List3(p, m) = Listed(p.pieceList, CapturedNo(p, m), BONA_PIECE_ZERO)
        /\ Nos3(p, m) = Numbered(p.pieceNoOn, CaptureSq(m), PIECE_NUMBER_NB)
    BY <1>3 DEF List3, Nos3, Takes
  <2>6. q.board = r.board /\ q.material = r.material /\ q.basePhase = r.basePhase
    BY <2>3 DEF SameSquares
  <2> QED
    BY <1>1, <2>2, <2>3, <2>4, <2>5, <2>6 DEF q
<1> QED
  BY <1>2, <1>3

\* The board once the piece has moved.
Board4(p, m) == Filled(Emptied(Board2(p, m), m.from), m.to, p.board[m.from])
List4(p, m)  == Listed(List3(p, m), MovedNo(p, m), <<p.board[m.from], m.to>>)
Nos4(p, m)   == Numbered(Numbered(Nos3(p, m), m.from, PIECE_NUMBER_NB), m.to,
                         MovedNo(p, m))
Gain(p, m)   == PSQT(p.board[m.from], m.to) - PSQT(p.board[m.from], m.from)

\* The squares other than those of a pawn captured en passant.
Rest(b, m) == IF m.flag = "enpas" THEN Emptied(b, CaptureSq(m)) ELSE b

LEMMA Board2Facts ==
  ASSUME NEW p, Good(p), NEW m, MoveOk(p, m)
  PROVE  /\ Board2(p, m) \in BoardType /\ Board2(p, m)[m.to] = EMPTY
         /\ Board2(p, m)[m.from] = p.board[m.from]
         /\ \A s \in Square : s # m.to => Board2(p, m)[s] = p.board[s]
<1>1. p.board \in BoardType
  BY PositionParts DEF Good, Sound
<1>2. /\ m.from \in Square /\ m.to \in Square /\ m.from # m.to
      /\ m.capt = EMPTY => p.board[m.to] = EMPTY
  BY MoveFacts
<1>3. CASE m.capt = EMPTY
  BY <1>1, <1>2, <1>3 DEF Board2
<1>4. CASE m.capt # EMPTY
  BY <1>1, <1>2, <1>4 DEF Board2, BoardType, Emptied
<1> QED
  BY <1>3, <1>4

LEMMA Step4Fields ==
  ASSUME NEW p, Good(p), NEW m, MoveOk(p, m)
  PROVE  LET q == Step4(p, m) IN
         /\ StepOk(p, m, q) /\ q.board = Board4(p, m)
         /\ q.pieceList = List4(p, m) /\ q.pieceNoOn = Nos4(p, m)
         /\ q.material = p.material - Lost(m) + Gain(p, m)
         /\ q.basePhase = p.basePhase - LostPhase(m)
<1> DEFINE r == Step3(p, m)
           q == Step4(p, m)
           pc == p.board[m.from]
<1>1. /\ StepOk(p, m, r) /\ r.board = Board2(p, m)
      /\ r.pieceList = List3(p, m) /\ r.pieceNoOn = Nos3(p, m)
      /\ r.material = p.material - Lost(m)
      /\ r.basePhase = p.basePhase - LostPhase(m)
  BY Step3Fields
<1>2. q = PutPiece(NoPieceNumber(MovePiece(r, m.from, m.to, TRUE), m.from),
                   MovedNo(p, m), m.to, pc)
  BY DEF Step4
<1> HIDE DEF r, q
<1>3. /\ m.from \in Square /\ m.to \in Square /\ m.from # m.to
      /\ pc \in Pieces /\ MovedNo(p, m) \in PieceNumber
  BY MoveFacts
<1>4. r.board[m.from] = pc /\ r.board[m.to] = EMPTY
  BY <1>1, Board2Facts
<1>5. r \in PositionType /\ Agrees(r)
  BY <1>1 DEF StepOk, Sound
<1>6. /\ q \in PositionType /\ Agrees(q) /\ SameState(r, q) /\ KeepsWords(r, q)
      /\ q.board = Filled(Emptied(r.board, m.from), m.to, r.board[m.from])
      /\ q.pieceList = Listed(r.pieceList, MovedNo(p, m), <<pc, m.to>>)
      /\ q.pieceNoOn = Numbered(Numbered(r.pieceNoOn, m.from, PIECE_NUMBER_NB),
                                m.to, MovedNo(p, m))
      /\ q.material = r.material + PSQT(r.board[m.from], m.to) - PSQT(r.board[m.from], m.from)
      /\ q.basePhase = r.basePhase
  BY <1>2, <1>3, <1>4, <1>5, MovedForth
<1>7. StepOk(p, m, q)
  BY <1>1, <1>6, StepDone, SameStateTurn
<1>8. q.material = r.material + Gain(p, m)
  <2>1. r.material \in Int /\ PSQT(pc, m.to) \in Int /\ PSQT(pc, m.from) \in Int
    BY <1>3, <1>5, PSQTInt, PositionParts
  <2>2. q.material = r.material + PSQT(pc, m.to) - PSQT(pc, m.from)
    BY <1>4, <1>6
  <2> QED
    BY <2>1, <2>2 DEF Gain
<1>9. q.board = Board4(p, m)
  BY <1>1, <1>4, <1>6 DEF Board4
<1>10. q.pieceList = List4(p, m) /\ q.pieceNoOn = Nos4(p, m)
  BY <1>1, <1>6 DEF List4, Nos4
<1> QED
  BY <1>1, <1>6, <1>7, <1>8, <1>9, <1>10 DEF q

\* The piece list is in order after the piece has moved, but for the pawn
\* captured en passant, which is still on its square.
LEMMA List4Ok ==
  ASSUME NEW p, Good(p), NEW m, MoveOk(p, m)
  PROVE  /\ ListOk(Rest(Board4(p, m), m), Nos4(p, m), List4(p, m))
         /\ OneKing(Rest(Board4(p, m), m))
         /\ Board4(p, m) \in BoardType /\ Board4(p, m)[m.from] = EMPTY
         /\ Board4(p, m)[m.to] = p.board[m.from]
         /\ \A s \in Square : s # m.to /\ s # m.from => Board4(p, m)[s] = p.board[s]
         /\ Nos4(p, m)[m.to] = MovedNo(p, m)
         /\ m.flag = "castle" => Nos4(p, m)[CaptureSq(m)] = CapturedNo(p, m)
<1> DEFINE b == p.board
           b3 == Rest(Board2(p, m), m)
           b4 == Rest(Board4(p, m), m)
           pc == b[m.from]
           no == MovedNo(p, m)
<1>1. /\ p.board \in BoardType /\ p.pieceNoOn \in NosType
      /\ p.pieceList \in ListType
      /\ ListOk(b, p.pieceNoOn, p.pieceList) /\ OneKing(b)
  BY PositionParts DEF Good, Sound
<1>2. /\ m.from \in Square /\ m.to \in Square /\ m.from # m.to
      /\ pc \in Pieces /\ CaptureSq(m) \in Square
      /\ no \in PieceNumber
      /\ Takes(m) => /\ b[CaptureSq(m)] \in Pieces
                     /\ PieceTypeOf(b[CaptureSq(m)]) # KING
                     /\ CaptureSq(m) # m.from
                     /\ CapturedNo(p, m) \in PieceNumber
  <2>1. PieceTypeOf(MakePiece(Other(p.stm), PAWN)) = PAWN
        /\ MakePiece(Other(p.stm), PAWN) \in Pieces
    BY PositionParts, OtherFacts, MakePieceFacts DEF Good, Sound, PAWN, KING
  <2> QED
    BY <2>1, MoveFacts DEF Takes, PAWN, KING
<1>3. /\ Board2(p, m) \in BoardType /\ Board2(p, m)[m.to] = EMPTY
      /\ Board2(p, m)[m.from] = pc
      /\ \A s \in Square : s # m.to => Board2(p, m)[s] = b[s]
  BY Board2Facts
<1>4. b3 = IF Takes(m) THEN Emptied(b, CaptureSq(m)) ELSE b
  BY MoveFacts DEF Rest, Board2, Takes
<1>5. /\ ListOk(b3, Nos3(p, m), List3(p, m)) /\ OneKing(b3)
      /\ Nos3(p, m) \in NosType /\ List3(p, m) \in ListType
      /\ b3 \in BoardType
  <2>1. CASE ~Takes(m)
    BY <1>1, <1>4, <2>1 DEF Nos3, List3
  <2>2. CASE Takes(m)
    <3>1. /\ Nos3(p, m) = Numbered(p.pieceNoOn, CaptureSq(m), PIECE_NUMBER_NB)
          /\ List3(p, m) = Listed(p.pieceList, p.pieceNoOn[CaptureSq(m)], BONA_PIECE_ZERO)
          /\ b3 = Emptied(b, CaptureSq(m))
      BY <1>4, <2>2 DEF Nos3, List3, CapturedNo
    <3>2. /\ ListOk(b3, Nos3(p, m), List3(p, m))
      BY <1>1, <1>2, <2>2, <3>1, ListRemoved
    <3>3. OneKing(b3)
      BY <1>1, <1>2, <2>2, <3>1, OneKingRemoved
    <3>4. Nos3(p, m) \in NosType
      <4>1. PIECE_NUMBER_NB \in 0..PIECE_NUMBER_NB
        BY DEF PIECE_NUMBER_NB
      <4> QED
        BY <1>1, <3>1, <4>1 DEF NosType, Numbered
    <3>5. BONA_PIECE_ZERO \in BonaPieces
      BY DEF BonaPieces, BONA_PIECE_ZERO, Square
    <3>6. List3(p, m) \in ListType
      BY <1>1, <3>1, <3>5 DEF ListType, Listed
    <3>7. b3 \in BoardType
      BY <1>1, <3>1 DEF BoardType, Emptied
    <3> QED
      BY <3>2, <3>3, <3>4, <3>6, <3>7
  <2> QED
    BY <2>1, <2>2
<1>6. b3[m.from] = pc /\ b3[m.to] = EMPTY
  <2>1. CASE m.flag = "enpas"
    <3>1. CaptureSq(m) # m.from /\ CaptureSq(m) # m.to
      BY <2>1, MoveFacts
    <3> QED
      BY <1>2, <1>3, <2>1, <3>1 DEF Rest, Emptied, BoardType
  <2>2. CASE m.flag # "enpas"
    BY <1>3, <2>2 DEF Rest
  <2> QED
    BY <2>1, <2>2
<1>7. Nos3(p, m)[m.from] = no
  <2>1. CASE Takes(m)
    BY <1>1, <1>2, <2>1 DEF Nos3, Numbered, NosType, MovedNo
  <2>2. CASE ~Takes(m)
    BY <2>2 DEF Nos3, MovedNo
  <2> QED
    BY <2>1, <2>2
<1>8. b4 = Filled(Emptied(b3, m.from), m.to, pc)
  <2>1. CASE m.flag = "enpas"
    <3>1. CaptureSq(m) # m.from /\ CaptureSq(m) # m.to
      BY <2>1, MoveFacts
    <3>2. b4 = Emptied(Filled(Emptied(Board2(p, m), m.from), m.to, pc), CaptureSq(m))
      BY <2>1 DEF Rest, Board4
    <3>3. b3 = Emptied(Board2(p, m), CaptureSq(m))
      BY <2>1 DEF Rest
    <3> HIDE DEF b3, b4
    <3> QED
      BY <1>2, <1>3, <3>1, <3>2, <3>3 DEF Emptied, Filled, BoardType
  <2>2. CASE m.flag # "enpas"
    BY <2>2 DEF Rest, Board4
  <2> QED
    BY <2>1, <2>2
<1> HIDE DEF b3, b4
<1>9. ListOk(b4, Nos4(p, m), List4(p, m))
  <2>1. ListOk(Filled(Emptied(b3, m.from), m.to, b3[m.from]),
               Numbered(Numbered(Nos3(p, m), m.from, PIECE_NUMBER_NB), m.to,
                        Nos3(p, m)[m.from]),
               Listed(List3(p, m), Nos3(p, m)[m.from], <<b3[m.from], m.to>>))
    BY <1>2, <1>5, <1>6, ListMoved
  <2> QED
    BY <1>6, <1>7, <1>8, <2>1, Zenon DEF Nos4, List4
<1>10. OneKing(b4)
  BY <1>2, <1>5, <1>6, <1>8, OneKingMoved
<1>11. /\ Board4(p, m) \in BoardType /\ Board4(p, m)[m.from] = EMPTY
       /\ Board4(p, m)[m.to] = pc
       /\ \A s \in Square : s # m.to /\ s # m.from => Board4(p, m)[s] = b[s]
  BY <1>2, <1>3 DEF Board4, BoardType, Emptied, Filled
<1>12. Nos4(p, m)[m.to] = no
  BY <1>2, <1>5 DEF Nos4, Numbered, NosType
<1>13. ASSUME m.flag = "castle"
       PROVE  Nos4(p, m)[CaptureSq(m)] = CapturedNo(p, m)
  <2>1. ~Takes(m)
    BY <1>13, MoveFacts DEF Takes
  <2>2. CaptureSq(m) # m.from /\ CaptureSq(m) # m.to
    <3>1. /\ m.from = (IF p.stm = WHITE THEN E1 ELSE E8)
          /\ m.to \in (IF p.stm = WHITE THEN {C1, G1} ELSE {C8, G8})
          /\ p.stm \in Colors
      BY <1>13, PositionParts DEF MoveOk, Good, Sound
    <3> QED
      BY <1>13, <3>1, MoveFacts, RookSquares
  <2> QED
    BY <1>1, <1>2, <2>1, <2>2 DEF Nos4, Nos3, Numbered, NosType, CapturedNo
<1> QED
  BY <1>9, <1>10, <1>11, <1>12, <1>13 DEF b4

\* What is on the board and in the list after the move.
Board5(p, m) ==
  CASE m.flag = "enpas"  -> Emptied(Board4(p, m), CaptureSq(m))
    [] m.flag = "castle" -> Filled(Emptied(Board4(p, m), CaptureSq(m)),
                                   RookTo(m.to), MakePiece(p.stm, ROOK))
    [] m.flag \notin {"enpas", "castle"} /\ m.promo # EMPTY ->
         Filled(Board4(p, m), m.to, m.promo)
    [] OTHER -> Board4(p, m)
List5(p, m) ==
  CASE m.flag = "castle" -> Listed(List4(p, m), CapturedNo(p, m),
                                   <<MakePiece(p.stm, ROOK), RookTo(m.to)>>)
    [] m.flag # "castle" /\ m.promo # EMPTY ->
         Listed(List4(p, m), MovedNo(p, m), <<m.promo, m.to>>)
    [] OTHER -> List4(p, m)
Nos5(p, m) ==
  CASE m.flag = "castle" -> Numbered(Numbered(Nos4(p, m), CaptureSq(m), PIECE_NUMBER_NB),
                                     RookTo(m.to), CapturedNo(p, m))
    [] m.flag # "castle" /\ m.promo # EMPTY ->
         Numbered(Nos4(p, m), m.to, MovedNo(p, m))
    [] OTHER -> Nos4(p, m)
Extra(p, m) ==
  CASE m.flag = "enpas"  -> -PSQT(MakePiece(Other(p.stm), PAWN), CaptureSq(m))
    [] m.flag = "castle" -> PSQT(MakePiece(p.stm, ROOK), RookTo(m.to))
                            - PSQT(MakePiece(p.stm, ROOK), CaptureSq(m))
    [] m.flag \notin {"enpas", "castle"} /\ m.promo # EMPTY ->
         PSQT(m.promo, m.to) - PSQT(p.board[m.from], m.to)
    [] OTHER -> 0
ExtraPhase(p, m) ==
  CASE m.flag = "enpas" -> -PhaseValue(MakePiece(Other(p.stm), PAWN))
    [] m.flag # "enpas" /\ m.promo # EMPTY ->
         PhaseValue(m.promo) - PhaseValue(p.board[m.from])
    [] OTHER -> 0

Moved(p, m, q) ==
  /\ q.board = Board5(p, m) /\ q.pieceList = List5(p, m)
  /\ q.pieceNoOn = Nos5(p, m)
  /\ q.material = p.material - Lost(m) + Gain(p, m) + Extra(p, m)
  /\ q.basePhase = p.basePhase - LostPhase(m) + ExtraPhase(p, m)
  /\ ListOk(q.board, q.pieceNoOn, q.pieceList) /\ OneKing(q.board)

\* Step4, with the counter reset if a pawn has moved.
AtStep4(p, m, q) ==
  /\ StepOk(p, m, q) /\ q.board = Board4(p, m)
  /\ q.pieceList = List4(p, m) /\ q.pieceNoOn = Nos4(p, m)
  /\ q.material = p.material - Lost(m) + Gain(p, m)
  /\ q.basePhase = p.basePhase - LostPhase(m)

LEMMA AtStep4Holds ==
  ASSUME NEW p, Good(p), NEW m, MoveOk(p, m)
  PROVE  /\ AtStep4(p, m, Step4(p, m))
         /\ AtStep4(p, m, [Step4(p, m) EXCEPT !.rule50 = 0])
<1> DEFINE r == Step4(p, m)
           q == [r EXCEPT !.rule50 = 0]
<1>1. AtStep4(p, m, r)
  BY Step4Fields DEF AtStep4
<1> HIDE DEF r
<1>2. r \in PositionType
  BY <1>1 DEF AtStep4, StepOk, Sound
<1>3. q \in PositionType /\ SameTurn(r, q) /\ SameSquares(r, q) /\ SameList(r, q)
  BY <1>2, Rule50Reset
<1> HIDE DEF q
<1>4. StepOk(p, m, q)
  BY <1>1, <1>3, StepKept DEF AtStep4
<1>5. AtStep4(p, m, q)
  BY <1>1, <1>3, <1>4 DEF AtStep4, SameSquares, SameList
<1> QED
  BY <1>1, <1>5 DEF q, r

LEMMA Gains ==
  ASSUME NEW p, Good(p), NEW m, MoveOk(p, m)
  PROVE  /\ p.material \in Int /\ p.basePhase \in Int
         /\ Lost(m) \in Int /\ LostPhase(m) \in Int /\ Gain(p, m) \in Int
<1>1. p.material \in Int /\ p.basePhase \in Int
  BY PositionParts DEF Good, Sound
<1>2. Lost(m) \in Int /\ LostPhase(m) \in Int
  <2>1. CASE m.capt = EMPTY
    BY <2>1 DEF Lost, LostPhase
  <2>2. CASE m.capt # EMPTY
    <3>1. m.capt \in Pieces /\ m.to \in Square
      BY <2>2, MoveFacts
    <3>2. PSQT(m.capt, m.to) \in Int /\ PhaseValue(m.capt) \in Int
      BY <3>1, PSQTInt, PieceFacts
    <3> QED
      BY <2>2, <3>2 DEF Lost, LostPhase
  <2> QED
    BY <2>1, <2>2
<1>3. Gain(p, m) \in Int
  <2>1. p.board[m.from] \in Pieces /\ m.from \in Square /\ m.to \in Square
    BY MoveFacts
  <2>2. PSQT(p.board[m.from], m.from) \in Int /\ PSQT(p.board[m.from], m.to) \in Int
    BY <2>1, PSQTInt
  <2> QED
    BY <2>2 DEF Gain
<1> QED
  BY <1>1, <1>2, <1>3

LEMMA Step5Plain ==
  ASSUME NEW p, Good(p), NEW m, MoveOk(p, m), m.flag \in {"none", "pstart"},
         m.promo = EMPTY, NEW q, AtStep4(p, m, q)
  PROVE  Moved(p, m, q)
<1>1. /\ Board5(p, m) = Board4(p, m) /\ List5(p, m) = List4(p, m)
      /\ Nos5(p, m) = Nos4(p, m) /\ Extra(p, m) = 0 /\ ExtraPhase(p, m) = 0
  BY DEF Board5, List5, Nos5, Extra, ExtraPhase
<1>2. Rest(Board4(p, m), m) = Board4(p, m)
  BY DEF Rest
<1>3. ListOk(Board4(p, m), Nos4(p, m), List4(p, m)) /\ OneKing(Board4(p, m))
  BY <1>2, List4Ok
<1> QED
  BY <1>1, <1>3, Gains DEF Moved, AtStep4

LEMMA Step5EnPassant ==
  ASSUME NEW p, Good(p), NEW m, MoveOk(p, m), m.flag = "enpas",
         NEW r, AtStep4(p, m, r)
  PROVE  LET q == ClearPiece(r, CaptureSq(m), TRUE) IN
         StepOk(p, m, q) /\ Moved(p, m, q)
<1> DEFINE q == ClearPiece(r, CaptureSq(m), TRUE)
           pawn == MakePiece(Other(p.stm), PAWN)
<1>1. /\ CaptureSq(m) \in Square /\ CaptureSq(m) # m.from /\ CaptureSq(m) # m.to
      /\ m.promo = EMPTY /\ p.board[CaptureSq(m)] = pawn
  BY MoveFacts
<1>2. /\ Board5(p, m) = Emptied(Board4(p, m), CaptureSq(m))
      /\ List5(p, m) = List4(p, m) /\ Nos5(p, m) = Nos4(p, m)
      /\ Extra(p, m) = -PSQT(pawn, CaptureSq(m))
      /\ ExtraPhase(p, m) = -PhaseValue(pawn)
  BY <1>1 DEF Board5, List5, Nos5, Extra, ExtraPhase
<1>3. pawn \in Pieces
  BY PositionParts, OtherFacts, MakePieceFacts DEF Good, Sound, PAWN, KING
<1>4. PSQT(pawn, CaptureSq(m)) \in Int /\ PhaseValue(pawn) \in Int
  BY <1>1, <1>3, PSQTInt, PieceFacts
<1>5. /\ r \in PositionType /\ Agrees(r) /\ r.board[CaptureSq(m)] = pawn
      /\ r.board = Board4(p, m)
      /\ r.pieceList = List4(p, m) /\ r.pieceNoOn = Nos4(p, m)
  BY <1>1, List4Ok DEF AtStep4, StepOk, Sound
<1> HIDE DEF pawn
<1>6. /\ q \in PositionType /\ Agrees(q) /\ SameState(r, q) /\ SameList(r, q)
      /\ q.board = Emptied(r.board, CaptureSq(m))
      /\ KeepsWords(r, q)
      /\ q.material = r.material - PSQT(r.board[CaptureSq(m)], CaptureSq(m))
      /\ q.basePhase = r.basePhase - PhaseValue(r.board[CaptureSq(m)])
  BY <1>1, <1>3, <1>4, <1>5, ClearPieceFields
<1> HIDE DEF q
<1>7. StepOk(p, m, q)
  BY <1>6, StepDone, SameStateTurn DEF AtStep4
<1>8. q.board = Rest(Board4(p, m), m)
  BY <1>5, <1>6 DEF Rest
<1>9. /\ q.pieceList = List4(p, m) /\ q.pieceNoOn = Nos4(p, m)
  BY <1>5, <1>6 DEF SameList
<1>10. ListOk(q.board, q.pieceNoOn, q.pieceList) /\ OneKing(q.board)
  BY <1>8, <1>9, List4Ok
<1>11. /\ q.material = p.material - Lost(m) + Gain(p, m) + Extra(p, m)
       /\ q.basePhase = p.basePhase - LostPhase(m) + ExtraPhase(p, m)
  BY <1>2, <1>4, <1>5, <1>6, Gains DEF AtStep4
<1>12. Moved(p, m, q)
  BY <1>2, <1>5, <1>6, <1>9, <1>10, <1>11 DEF Moved
<1> QED
  BY <1>7, <1>12 DEF q

LEMMA Step5Promotion ==
  ASSUME NEW p, Good(p), NEW m, MoveOk(p, m), m.promo # EMPTY,
         NEW r, AtStep4(p, m, r)
  PROVE  LET q == PutPiece(AddPiece(ClearPiece(r, m.to, TRUE), m.to, m.promo, TRUE),
                           MovedNo(p, m), m.to, m.promo) IN
         StepOk(p, m, q) /\ Moved(p, m, q)
<1> DEFINE s == AddPiece(ClearPiece(r, m.to, TRUE), m.to, m.promo, TRUE)
           q == PutPiece(s, MovedNo(p, m), m.to, m.promo)
           pawn == p.board[m.from]
<1>1. /\ m.flag = "none" /\ m.to \in Square /\ pawn \in Pieces
      /\ MovedNo(p, m) \in PieceNumber
      /\ m.promo \in Pieces /\ PieceTypeOf(m.promo) # KING
      /\ PieceTypeOf(pawn) # KING
  BY MoveFacts DEF MoveOk, PAWN, KING
<1>2. /\ Board5(p, m) = Filled(Board4(p, m), m.to, m.promo)
      /\ List5(p, m) = Listed(List4(p, m), MovedNo(p, m), <<m.promo, m.to>>)
      /\ Nos5(p, m) = Numbered(Nos4(p, m), m.to, MovedNo(p, m))
      /\ Extra(p, m) = PSQT(m.promo, m.to) - PSQT(pawn, m.to)
      /\ ExtraPhase(p, m) = PhaseValue(m.promo) - PhaseValue(pawn)
  BY <1>1 DEF Board5, List5, Nos5, Extra, ExtraPhase
<1>4. /\ PSQT(pawn, m.to) \in Int /\ PSQT(m.promo, m.to) \in Int
      /\ PhaseValue(pawn) \in Int /\ PhaseValue(m.promo) \in Int
  BY <1>1, PSQTInt, PieceFacts
<1>5. /\ r \in PositionType /\ Agrees(r) /\ r.board[m.to] = pawn
      /\ r.board = Board4(p, m)
      /\ r.pieceList = List4(p, m) /\ r.pieceNoOn = Nos4(p, m)
  BY List4Ok DEF AtStep4, StepOk, Sound
<1>6. /\ s \in PositionType /\ Agrees(s) /\ SameState(r, s) /\ SameList(r, s)
      /\ KeepsWords(r, s)
      /\ s.board = Filled(r.board, m.to, m.promo)
      /\ s.material = r.material - PSQT(r.board[m.to], m.to) + PSQT(m.promo, m.to)
      /\ s.basePhase = r.basePhase - PhaseValue(r.board[m.to]) + PhaseValue(m.promo)
  BY <1>1, <1>5, Replaced
<1> HIDE DEF s, pawn
<1>7. /\ q \in PositionType /\ SameState(s, q) /\ SameSquares(s, q)
      /\ q.pieceList = Listed(s.pieceList, MovedNo(p, m), <<m.promo, m.to>>)
      /\ q.pieceNoOn = Numbered(s.pieceNoOn, m.to, MovedNo(p, m))
  BY <1>1, <1>6, PutPieceFields
<1> HIDE DEF q
<1>8. StepOk(p, m, s)
  BY <1>6, StepDone, SameStateTurn DEF AtStep4
<1>9. StepOk(p, m, q)
  BY <1>7, <1>8, StepKept, SameStateTurn
<1>10. /\ q.pieceList = List5(p, m) /\ q.pieceNoOn = Nos5(p, m)
       /\ q.board = Board5(p, m)
       /\ q.material = s.material /\ q.basePhase = s.basePhase
  BY <1>2, <1>5, <1>6, <1>7 DEF SameList, SameSquares
<1>11. /\ ListOk(Board4(p, m), Nos4(p, m), List4(p, m)) /\ OneKing(Board4(p, m))
       /\ Board4(p, m) \in BoardType /\ Nos4(p, m) \in NosType
       /\ List4(p, m) \in ListType /\ Nos4(p, m)[m.to] = MovedNo(p, m)
       /\ Board4(p, m)[m.to] = pawn
  <2>1. Rest(Board4(p, m), m) = Board4(p, m)
    BY <1>1 DEF Rest
  <2> QED
    BY <1>5, <2>1, List4Ok, PositionParts DEF pawn
<1>12. OneKing(q.board)
  BY <1>1, <1>2, <1>10, <1>11, OneKingReplaced DEF pawn
<1>13. ListOk(q.board, q.pieceNoOn, q.pieceList)
  <2>1. ListOk(Filled(Board4(p, m), m.to, m.promo),
               Numbered(Nos4(p, m), m.to, Nos4(p, m)[m.to]),
               Listed(List4(p, m), Nos4(p, m)[m.to], <<m.promo, m.to>>))
    BY <1>1, <1>11, ListReplaced DEF pawn
  <2> QED
    BY <1>2, <1>10, <1>11, <2>1, Zenon
<1>14. /\ q.material = p.material - Lost(m) + Gain(p, m) + Extra(p, m)
       /\ q.basePhase = p.basePhase - LostPhase(m) + ExtraPhase(p, m)
  BY <1>2, <1>4, <1>5, <1>6, <1>10, Gains DEF AtStep4
<1>15. Moved(p, m, q)
  BY <1>10, <1>12, <1>13, <1>14 DEF Moved
<1> QED
  BY <1>9, <1>15 DEF q, s

LEMMA Step5Castle ==
  ASSUME NEW p, Good(p), NEW m, MoveOk(p, m), m.flag = "castle",
         NEW r, AtStep4(p, m, r)
  PROVE  LET q == PutPiece(NoPieceNumber(MovePiece(r, CaptureSq(m), RookTo(m.to), TRUE),
                                         CaptureSq(m)),
                           CapturedNo(p, m), RookTo(m.to), MakePiece(p.stm, ROOK)) IN
         StepOk(p, m, q) /\ Moved(p, m, q)
<1> DEFINE rfrom == CaptureSq(m)
           rto   == RookTo(m.to)
           rook  == MakePiece(p.stm, ROOK)
           no    == CapturedNo(p, m)
           q == PutPiece(NoPieceNumber(MovePiece(r, rfrom, rto, TRUE), rfrom),
                         no, rto, rook)
<1>1. /\ rfrom = RookFrom(m.to) /\ m.capt = EMPTY /\ m.promo = EMPTY
      /\ no \in PieceNumber
  BY MoveFacts
<1>2. /\ rfrom \in Square /\ rto \in Square /\ rfrom # rto
      /\ rfrom # m.from /\ rfrom # m.to /\ rto # m.from /\ rto # m.to
      /\ p.board[rfrom] = rook /\ p.board[rto] = EMPTY
  <2>1. /\ m.from = (IF p.stm = WHITE THEN E1 ELSE E8)
        /\ m.to \in (IF p.stm = WHITE THEN {C1, G1} ELSE {C8, G8})
        /\ p.stm \in Colors
        /\ p.board[rfrom] = rook /\ p.board[rto] = EMPTY
    BY <1>1, PositionParts DEF MoveOk, Good, Sound
  <2> QED
    BY <1>1, <2>1, RookSquares
<1>3. rook \in Pieces
  BY PositionParts, MakePieceFacts DEF Good, Sound, PAWN, KING, ROOK
<1>4. PSQT(rook, rto) \in Int /\ PSQT(rook, rfrom) \in Int
  BY <1>2, <1>3, PSQTInt
<1>5. /\ Board5(p, m) = Filled(Emptied(Board4(p, m), rfrom), rto, rook)
      /\ List5(p, m) = Listed(List4(p, m), no, <<rook, rto>>)
      /\ Nos5(p, m) = Numbered(Numbered(Nos4(p, m), rfrom, PIECE_NUMBER_NB), rto, no)
      /\ Extra(p, m) = PSQT(rook, rto) - PSQT(rook, rfrom)
      /\ ExtraPhase(p, m) = 0
  BY <1>1 DEF Board5, List5, Nos5, Extra, ExtraPhase
<1>6. /\ r \in PositionType /\ Agrees(r) /\ r.board = Board4(p, m)
      /\ r.board[rfrom] = rook /\ r.board[rto] = EMPTY
      /\ r.pieceList = List4(p, m) /\ r.pieceNoOn = Nos4(p, m)
  <2>1. Board4(p, m)[rfrom] = p.board[rfrom] /\ Board4(p, m)[rto] = p.board[rto]
    BY <1>2, List4Ok
  <2> QED
    BY <1>2, <2>1 DEF AtStep4, StepOk, Sound
<1>0. q = PutPiece(NoPieceNumber(MovePiece(r, rfrom, rto, TRUE), rfrom), no, rto, rook)
  OBVIOUS
<1> HIDE DEF rfrom, rto, rook, no, q
<1>7. /\ q \in PositionType /\ Agrees(q) /\ SameState(r, q) /\ KeepsWords(r, q)
      /\ q.board = Filled(Emptied(r.board, rfrom), rto, r.board[rfrom])
      /\ q.pieceList = Listed(r.pieceList, no, <<rook, rto>>)
      /\ q.pieceNoOn = Numbered(Numbered(r.pieceNoOn, rfrom, PIECE_NUMBER_NB), rto, no)
      /\ q.material = r.material + PSQT(r.board[rfrom], rto) - PSQT(r.board[rfrom], rfrom)
      /\ q.basePhase = r.basePhase
  <2>1. r.board[rfrom] \in Pieces
    BY <1>3, <1>6
  <2> QED
    <3>1. /\ r \in PositionType /\ Agrees(r) /\ rfrom \in Square /\ rto \in Square
          /\ rfrom # rto /\ r.board[rfrom] \in Pieces /\ r.board[rto] = EMPTY
          /\ no \in PieceNumber /\ rook \in Pieces
      BY <1>1, <1>2, <1>3, <1>6, <2>1
    <3> QED
      BY <1>0, <3>1, MovedForth, ZenonT(120)
<1>8. StepOk(p, m, q)
  BY <1>7, StepDone, SameStateTurn DEF AtStep4
<1>9. /\ q.board = Board5(p, m) /\ q.pieceList = List5(p, m)
      /\ q.pieceNoOn = Nos5(p, m)
  BY <1>5, <1>6, <1>7
<1>10. /\ ListOk(Board4(p, m), Nos4(p, m), List4(p, m)) /\ OneKing(Board4(p, m))
       /\ Board4(p, m) \in BoardType /\ Nos4(p, m) \in NosType
       /\ List4(p, m) \in ListType /\ Nos4(p, m)[rfrom] = no
  <2>1. Rest(Board4(p, m), m) = Board4(p, m)
    BY DEF Rest
  <2>2. Nos4(p, m)[rfrom] = no
    BY List4Ok DEF rfrom, no
  <2> QED
    BY <1>6, <2>1, <2>2, List4Ok, PositionParts
<1>11. OneKing(q.board)
  BY <1>2, <1>3, <1>6, <1>7, <1>10, OneKingMoved
<1>12. ListOk(q.board, q.pieceNoOn, q.pieceList)
  <2>1. ListOk(Filled(Emptied(Board4(p, m), rfrom), rto, Board4(p, m)[rfrom]),
               Numbered(Numbered(Nos4(p, m), rfrom, PIECE_NUMBER_NB), rto,
                        Nos4(p, m)[rfrom]),
               Listed(List4(p, m), Nos4(p, m)[rfrom], <<Board4(p, m)[rfrom], rto>>))
    BY <1>2, <1>3, <1>6, <1>10, ListMoved
  <2>2. Board4(p, m)[rfrom] = rook
    BY <1>6
  <2> QED
    BY <1>5, <1>9, <1>10, <2>1, <2>2, Zenon
<1>13. /\ q.material = p.material - Lost(m) + Gain(p, m) + Extra(p, m)
       /\ q.basePhase = p.basePhase - LostPhase(m) + ExtraPhase(p, m)
  BY <1>4, <1>5, <1>6, <1>7, Gains DEF AtStep4
<1>14. Moved(p, m, q)
  BY <1>9, <1>11, <1>12, <1>13 DEF Moved
<1> QED
  BY <1>8, <1>14 DEF q, rfrom, rto, rook, no

\* The words of an en passant square that was not there are added.
LEMMA EpSet ==
  ASSUME NEW p, Sound(p), p.epSquare = 0, NEW sq \in Square
  PROVE  LET q == [p EXCEPT !.epSquare = sq, !.key = HashEP(@, sq)] IN
         /\ Sound(q) /\ q.epSquare = sq /\ q.stm = p.stm
         /\ q.castlingRights = p.castlingRights
         /\ q.board = p.board /\ SameList(p, q)
         /\ q.material = p.material /\ q.basePhase = p.basePhase
<1> DEFINE k == HashEP(p.key, sq)
           q == [p EXCEPT !.epSquare = sq, !.key = HashEP(@, sq)]
<1>1. p \in PositionType /\ KeyOk(p) /\ Agrees(p) /\ p.key \in KeyType
  BY DEF Sound, PositionType
<1>2. p.key.ep = {}
  BY <1>1 DEF KeyOk, EpWords
<1>3. /\ k \in KeyType /\ k.pieces = p.key.pieces /\ k.side = p.key.side
      /\ k.castle = p.key.castle /\ k.ep = EpWords(sq)
  <2>1. CASE sq \in 16..47
    <3>1. k = [p.key EXCEPT !.ep = SymDiff(@, {sq})]
      BY <2>1 DEF HashEP
    <3>2. SymDiff(p.key.ep, {sq}) = {sq} /\ {sq} \in SUBSET Square
      BY <1>2 DEF SymDiff
    <3>3. EpWords(sq) = {sq}
      BY <2>1 DEF EpWords
    <3> QED
      BY <1>1, <3>1, <3>2, <3>3 DEF KeyType
  <2>2. CASE sq \notin 16..47
    BY <1>1, <1>2, <2>2 DEF HashEP, EpWords
  <2> QED
    BY <2>1, <2>2
<1>4. q = [p EXCEPT !.epSquare = sq, !.key = k]
  BY Zenon
<1> HIDE DEF k, q
<1>5. /\ q.epSquare = sq /\ q.stm = p.stm /\ q.key = k
      /\ q.castlingRights = p.castlingRights
      /\ q.board = p.board /\ SameList(p, q)
      /\ q.material = p.material /\ q.basePhase = p.basePhase
      /\ q.colorBB = p.colorBB /\ q.pieceBB = p.pieceBB
      /\ q.nonPawnCount = p.nonPawnCount
  BY <1>1, <1>4 DEF PositionType, SameList
<1>6. q \in PositionType
  BY <1>1, <1>3, <1>4 DEF PositionType
<1>7. Agrees(q)
  BY <1>1, <1>5 DEF Agrees
<1>8. KeyOk(q)
  BY <1>1, <1>3, <1>5 DEF KeyOk
<1> QED
  BY <1>5, <1>6, <1>7, <1>8 DEF Sound, q

LEMMA Step5Fields ==
  ASSUME NEW p, Good(p), NEW m, MoveOk(p, m)
  PROVE  LET q == Step5(p, m) IN
         /\ Sound(q) /\ Moved(p, m, q)
         /\ q.stm = p.stm /\ q.castlingRights = Stays(p, m)
         /\ q.epSquare # 0 => m.flag = "pstart" /\ q.epSquare = Xor8(m.to)
<1> DEFINE pc == p.board[m.from]
           q == Step5(p, m)
           r == Step4(p, m)
           s == [Step4(p, m) EXCEPT !.rule50 = 0]
<1>1. AtStep4(p, m, r) /\ AtStep4(p, m, s)
  BY AtStep4Holds
<1> HIDE DEF r, s
<1>2. ASSUME StepOk(p, m, q), Moved(p, m, q)
      PROVE  /\ Sound(q) /\ Moved(p, m, q)
             /\ q.stm = p.stm /\ q.castlingRights = Stays(p, m)
             /\ q.epSquare # 0 => m.flag = "pstart" /\ q.epSquare = Xor8(m.to)
  BY <1>2 DEF StepOk
<1>3. /\ m.flag \in {"none", "pstart", "enpas", "castle"}
      /\ m.flag \in {"pstart", "enpas"} \/ m.promo # EMPTY => PieceTypeOf(pc) = PAWN
      /\ m.promo # EMPTY => m.flag = "none"
      /\ m.flag = "castle" => PieceTypeOf(pc) = KING
      /\ PAWN # KING /\ m.to \in Square
  BY MoveFacts DEF MoveOk, PAWN, KING
<1>4. q = IF PieceTypeOf(pc) = PAWN THEN PawnSpecifics(s, m, MovedNo(p, m))
          ELSE IF m.flag = "castle"
          THEN PutPiece(NoPieceNumber(MovePiece(r, CaptureSq(m), RookTo(m.to), TRUE),
                                      CaptureSq(m)),
                        CapturedNo(p, m), RookTo(m.to), MakePiece(p.stm, ROOK))
          ELSE r
  BY DEF Step5, r, s
<1> HIDE DEF q
<1>5. CASE PieceTypeOf(pc) # PAWN /\ m.flag # "castle"
  <2>1. Moved(p, m, q) /\ StepOk(p, m, q)
    BY <1>1, <1>3, <1>4, <1>5, Step5Plain DEF AtStep4
  <2> QED
    BY <1>2, <2>1 DEF q
<1>6. CASE PieceTypeOf(pc) # PAWN /\ m.flag = "castle"
  <2>1. Moved(p, m, q) /\ StepOk(p, m, q)
    BY <1>1, <1>4, <1>6, Step5Castle
  <2> QED
    BY <1>2, <2>1 DEF q
<1>7. CASE PieceTypeOf(pc) = PAWN /\ m.flag = "enpas"
  <2>1. q = ClearPiece(s, CaptureSq(m), TRUE)
    BY <1>4, <1>7, Xor8Facts DEF PawnSpecifics, CaptureSq
  <2>2. Moved(p, m, q) /\ StepOk(p, m, q)
    BY <1>1, <1>7, <2>1, Step5EnPassant
  <2> QED
    BY <1>2, <2>2 DEF q
<1>8. CASE PieceTypeOf(pc) = PAWN /\ m.promo # EMPTY
  <2>1. q = PutPiece(AddPiece(ClearPiece(s, m.to, TRUE), m.to, m.promo, TRUE),
                     MovedNo(p, m), m.to, m.promo)
    BY <1>3, <1>4, <1>8 DEF PawnSpecifics
  <2>2. Moved(p, m, q) /\ StepOk(p, m, q)
    BY <1>1, <1>8, <2>1, Step5Promotion
  <2> QED
    BY <1>2, <2>2 DEF q
<1>9. CASE PieceTypeOf(pc) = PAWN /\ m.flag = "none" /\ m.promo = EMPTY
  <2>1. q = s
    BY <1>4, <1>9 DEF PawnSpecifics
  <2>2. Moved(p, m, q) /\ StepOk(p, m, q)
    BY <1>1, <1>9, <2>1, Step5Plain DEF AtStep4
  <2> QED
    BY <1>2, <2>2 DEF q
<1>10. CASE PieceTypeOf(pc) = PAWN /\ m.flag = "pstart"
  <2>1. Moved(p, m, s) /\ StepOk(p, m, s)
    BY <1>1, <1>3, <1>10, Step5Plain DEF AtStep4
  <2>2. CASE q = s
    BY <1>2, <2>1, <2>2 DEF q
  <2>3. CASE q # s
    <3>1. q = [s EXCEPT !.epSquare = Xor8(m.to), !.key = HashEP(@, Xor8(m.to))]
      BY <1>4, <1>10, <2>3 DEF PawnSpecifics
    <3>2. Sound(s) /\ s.epSquare = 0 /\ s.stm = p.stm /\ s.castlingRights = Stays(p, m)
      BY <2>1 DEF StepOk
    <3>3. /\ Sound(q) /\ q.epSquare = Xor8(m.to) /\ q.stm = s.stm
          /\ q.castlingRights = s.castlingRights
          /\ q.board = s.board /\ SameList(s, q)
          /\ q.material = s.material /\ q.basePhase = s.basePhase
      <4>1. Xor8(m.to) \in Square
        BY <1>3, Xor8Facts
      <4> QED
        BY <3>1, <3>2, <4>1, EpSet, Zenon
    <3>4. Moved(p, m, q)
      BY <2>1, <3>3 DEF Moved, SameList
    <3> QED
      BY <1>10, <3>2, <3>3, <3>4 DEF q
  <2> QED
    BY <2>2, <2>3
<1>11. m.flag # "castle" \/ PieceTypeOf(pc) # PAWN
  BY <1>3
<1> QED
  BY <1>3, <1>5, <1>6, <1>7, <1>8, <1>9, <1>10, <1>11

-----------------------------------------------------------------------------
(* The position after a move, which may still leave the king attacked.     *)

Fit(p) == /\ Sound(p)
          /\ ListOk(p.board, p.pieceNoOn, p.pieceList)
          /\ OneKing(p.board) /\ EpOk(p)
          /\ RightsOk(p.board, p.castlingRights)

LEMMA GoodIsFit ==
  ASSUME NEW p
  PROVE  Good(p) <=> Fit(p) /\ ~KingAttacked(p, Other(p.stm))
BY DEF Good, Fit

\* A square of the last ranks is only touched by the move itself, and by the
\* castling rook on the rank of the king.
LEMMA CornerKept ==
  ASSUME NEW p, Good(p), NEW m, MoveOk(p, m), NEW s \in Square,
         RankOf(s) \in {0, 7}, s # m.from, s # m.to,
         m.flag = "castle" => RankOf(s) # RankOf(m.from)
  PROVE  Board5(p, m)[s] = p.board[s]
<1>1. /\ Board4(p, m) \in BoardType /\ Board4(p, m)[s] = p.board[s]
  BY List4Ok
<1>2. m.to \in Square /\ CaptureSq(m) \in Square /\ p.stm \in Colors
  BY MoveFacts, PositionParts DEF Good, Sound
<1>3. CASE m.flag = "enpas"
  <2>1. /\ Board5(p, m) = Emptied(Board4(p, m), CaptureSq(m))
        /\ CaptureSq(m) = Xor8(m.to) /\ m.to = p.epSquare /\ m.to # 0
    BY <1>3 DEF Board5, CaptureSq, MoveOk
  <2>2. RelativeRank(p.stm, RankOf(m.to)) = 5
    BY <2>1 DEF Good, EpOk
  <2>3. CaptureSq(m) # s
    <3>1. RankOf(m.to) \in {2, 5}
      BY <1>2, <2>2 DEF RelativeRank, RankOf, Square
    <3>2. RankOf(Xor8(m.to)) \in {3, 4}
      BY <1>2, <3>1 DEF Xor8, RankOf, Square
    <3> QED
      BY <2>1, <3>2
  <2> QED
    BY <1>1, <1>2, <2>1, <2>3 DEF Emptied, BoardType
<1>4. CASE m.flag = "castle"
  <2>1. /\ m.from = (IF p.stm = WHITE THEN E1 ELSE E8)
        /\ m.to \in (IF p.stm = WHITE THEN {C1, G1} ELSE {C8, G8})
        /\ CaptureSq(m) = RookFrom(m.to)
    BY <1>4 DEF MoveOk, CaptureSq
  <2>2. /\ RankOf(RookFrom(m.to)) = RankOf(m.from)
        /\ RankOf(RookTo(m.to)) = RankOf(m.from)
    BY <1>2, <2>1 DEF RookFrom, RookTo, RankOf, A1, C1, D1, E1, F1, G1, H1,
       A8, C8, D8, E8, F8, G8, H8, Colors, WHITE, BLACK
  <2>3. CaptureSq(m) # s /\ RookTo(m.to) # s
    BY <1>4, <2>1, <2>2
  <2>4. Board5(p, m) = Filled(Emptied(Board4(p, m), CaptureSq(m)),
                              RookTo(m.to), MakePiece(p.stm, ROOK))
    BY <1>4 DEF Board5
  <2> QED
    BY <1>1, <2>3, <2>4 DEF Emptied, Filled, BoardType
<1>5. CASE m.flag \notin {"enpas", "castle"}
  <2>1. \/ Board5(p, m) = Board4(p, m)
        \/ Board5(p, m) = Filled(Board4(p, m), m.to, m.promo)
    BY <1>5 DEF Board5
  <2> QED
    BY <1>1, <2>1 DEF Filled, BoardType
<1> QED
  BY <1>3, <1>4, <1>5

LEMMA RightsStay ==
  ASSUME NEW p, Good(p), NEW m, MoveOk(p, m)
  PROVE  RightsOk(Board5(p, m), Stays(p, m))
<1> DEFINE stays == Stays(p, m)
           d == Board5(p, m)
<1>1. stays \subseteq p.castlingRights /\ RightsOk(p.board, p.castlingRights)
  BY DEF Stays, Good
<1>2. ASSUME NEW s \in Square, NEW right \in stays,
             right \notin CastlePerm(s)
      PROVE  m.from # s /\ m.to # s
  BY <1>2 DEF Stays
<1>3. ASSUME NEW s \in {A1, E1, H1}, NEW right \in stays,
             right \in CastleOf(WHITE), right \notin CastlePerm(s)
      PROVE  d[s] = p.board[s]
  <2>1. s \in Square /\ RankOf(s) = 0
    BY DEF Square, RankOf, A1, E1, H1
  <2>2. m.from # s /\ m.to # s
    BY <1>2, <1>3, <2>1
  <2>3. ASSUME m.flag = "castle"
        PROVE  RankOf(m.from) # 0
    <3>1. E1 \in Square /\ right \notin CastlePerm(E1)
      BY <1>3 DEF CastlePerm, Square, A1, H1, A8, H8, E1, E8
    <3>2. m.from # E1
      BY <1>2, <3>1
    <3>3. m.from = E8
      BY <2>3, <3>2 DEF MoveOk
    <3> QED
      BY <3>3 DEF RankOf, E8
  <2> QED
    BY <2>1, <2>2, <2>3, CornerKept
<1>4. ASSUME NEW s \in {A8, E8, H8}, NEW right \in stays,
             right \in CastleOf(BLACK), right \notin CastlePerm(s)
      PROVE  d[s] = p.board[s]
  <2>1. s \in Square /\ RankOf(s) = 7
    BY DEF Square, RankOf, A8, E8, H8
  <2>2. m.from # s /\ m.to # s
    BY <1>2, <1>4, <2>1
  <2>3. ASSUME m.flag = "castle"
        PROVE  RankOf(m.from) # 7
    <3>1. E8 \in Square /\ right \notin CastlePerm(E8)
      BY <1>4 DEF CastlePerm, Square, A1, H1, A8, H8, E1, E8
    <3>2. m.from # E8
      BY <1>2, <3>1
    <3>3. m.from = E1
      BY <2>3, <3>2 DEF MoveOk
    <3> QED
      BY <3>3 DEF RankOf, E1
  <2> QED
    BY <2>1, <2>2, <2>3, CornerKept
<1>5. /\ \A right \in CastleOf(WHITE) : right \notin CastlePerm(E1)
      /\ \A right \in CastleOf(BLACK) : right \notin CastlePerm(E8)
      /\ WHITE_OO \notin CastlePerm(H1) /\ WHITE_OOO \notin CastlePerm(A1)
      /\ BLACK_OO \notin CastlePerm(H8) /\ BLACK_OOO \notin CastlePerm(A8)
      /\ WHITE_OO \in CastleOf(WHITE) /\ WHITE_OOO \in CastleOf(WHITE)
      /\ BLACK_OO \in CastleOf(BLACK) /\ BLACK_OOO \in CastleOf(BLACK)
  BY DEF CastlePerm, CastleOf, A1, E1, H1, A8, E8, H8, WHITE, BLACK
<1>6. stays \cap CastleOf(WHITE) # {} => d[E1] = MakePiece(WHITE, KING)
  <2>1. SUFFICES ASSUME NEW right \in stays, right \in CastleOf(WHITE)
                 PROVE  d[E1] = MakePiece(WHITE, KING)
    OBVIOUS
  <2>2. d[E1] = p.board[E1]
    BY <1>3, <1>5, <2>1
  <2>3. p.board[E1] = MakePiece(WHITE, KING)
    BY <1>1, <2>1 DEF RightsOk
  <2> QED
    BY <2>2, <2>3
<1>7. stays \cap CastleOf(BLACK) # {} => d[E8] = MakePiece(BLACK, KING)
  <2>1. SUFFICES ASSUME NEW right \in stays, right \in CastleOf(BLACK)
                 PROVE  d[E8] = MakePiece(BLACK, KING)
    OBVIOUS
  <2>2. d[E8] = p.board[E8]
    BY <1>4, <1>5, <2>1
  <2>3. p.board[E8] = MakePiece(BLACK, KING)
    BY <1>1, <2>1 DEF RightsOk
  <2> QED
    BY <2>2, <2>3
<1>8. WHITE_OO \in stays => d[H1] = MakePiece(WHITE, ROOK)
  BY <1>1, <1>3, <1>5 DEF RightsOk
<1>9. WHITE_OOO \in stays => d[A1] = MakePiece(WHITE, ROOK)
  BY <1>1, <1>3, <1>5 DEF RightsOk
<1>10. BLACK_OO \in stays => d[H8] = MakePiece(BLACK, ROOK)
  BY <1>1, <1>4, <1>5 DEF RightsOk
<1>11. BLACK_OOO \in stays => d[A8] = MakePiece(BLACK, ROOK)
  BY <1>1, <1>4, <1>5 DEF RightsOk
<1> QED
  BY <1>6, <1>7, <1>8, <1>9, <1>10, <1>11 DEF RightsOk

\* A move leaves a position whose copies agree, though its king may be attacked.
LEMMA MadeFields ==
  ASSUME NEW p, Good(p), NEW m, MoveOk(p, m)
  PROVE  LET q == Made(p, m).pos IN
         /\ Fit(q) /\ Moved(p, m, q)
         /\ q.stm = Other(p.stm) /\ q.castlingRights = Stays(p, m)
<1> DEFINE r == Step5(p, m)
           q == Made(p, m).pos
<1>1. /\ Sound(r) /\ Moved(p, m, r)
      /\ r.stm = p.stm /\ r.castlingRights = Stays(p, m)
      /\ r.epSquare # 0 => m.flag = "pstart" /\ r.epSquare = Xor8(m.to)
  BY Step5Fields
<1>2. q = [r EXCEPT !.stm = Other(p.stm), !.key = HashSide(@)]
  BY MadeSteps, Zenon DEF Step6
<1>3. p.stm \in Colors /\ Other(p.stm) \in Colors
  BY PositionParts, OtherFacts DEF Good, Sound
<1> HIDE DEF r, q
<1>4. /\ r \in PositionType /\ r.key \in KeyType /\ Agrees(r) /\ KeyOk(r)
  BY <1>1 DEF Sound, PositionType
<1>5. /\ HashSide(r.key) \in KeyType /\ HashSide(r.key).side = ~r.key.side
      /\ HashSide(r.key).pieces = r.key.pieces
      /\ HashSide(r.key).castle = r.key.castle /\ HashSide(r.key).ep = r.key.ep
  BY <1>4 DEF KeyType, HashSide
<1>6. /\ q.stm = Other(p.stm) /\ q.key = HashSide(r.key)
      /\ q.castlingRights = r.castlingRights /\ q.epSquare = r.epSquare
      /\ q.board = r.board /\ SameList(r, q)
      /\ q.material = r.material /\ q.basePhase = r.basePhase
      /\ q.colorBB = r.colorBB /\ q.pieceBB = r.pieceBB
      /\ q.nonPawnCount = r.nonPawnCount
  BY <1>2, <1>4 DEF PositionType, SameList
<1>7. q \in PositionType
  BY <1>2, <1>3, <1>4, <1>5 DEF PositionType
<1>8. Agrees(q)
  BY <1>4, <1>6 DEF Agrees
<1>9. KeyOk(q)
  <2>1. (r.stm = WHITE) # (Other(p.stm) = WHITE)
    BY <1>1, <1>3 DEF Other, Colors, WHITE, BLACK
  <2>2. q.key.side = (q.stm = WHITE)
    BY <1>4, <1>5, <1>6, <2>1 DEF KeyOk, KeyType
  <2> QED
    BY <1>4, <1>5, <1>6, <2>2, Zenon DEF KeyOk
<1>10. Moved(p, m, q)
  BY <1>1, <1>6 DEF Moved, SameList
<1>11. RightsOk(q.board, q.castlingRights)
  BY <1>1, <1>6, RightsStay DEF Moved
<1>12. EpOk(q)
  <2>1. SUFFICES ASSUME q.epSquare # 0
                 PROVE  /\ RelativeRank(q.stm, RankOf(q.epSquare)) = 5
                        /\ q.board[q.epSquare] = EMPTY
                        /\ q.board[Xor8(q.epSquare)] = MakePiece(Other(q.stm), PAWN)
    BY DEF EpOk
  <2>2. /\ m.flag = "pstart" /\ q.epSquare = Xor8(m.to) /\ m.to \in Square
        /\ m.from \in Square /\ m.from # m.to
    BY <1>1, <1>6, <2>1, MoveFacts
  <2>3. /\ p.board[m.from] = MakePiece(p.stm, PAWN)
        /\ p.board[Xor8(m.to)] = EMPTY /\ m.promo = EMPTY
        /\ RelativeRank(p.stm, RankOf(m.to)) = 3
    BY <2>2, MoveFacts DEF MoveOk
  <2>4. Xor8(m.to) \in Square /\ Xor8(m.to) # m.to /\ Xor8(Xor8(m.to)) = m.to
    BY <2>2, Xor8Facts
  <2>5. q.board = Board4(p, m)
    BY <1>10, <2>2, <2>3 DEF Moved, Board5
  <2>6. Board4(p, m)[m.to] = MakePiece(p.stm, PAWN)
    BY <2>3, List4Ok
  <2>7. Board4(p, m)[Xor8(m.to)] = EMPTY
    BY <2>3, <2>4, List4Ok
  <2>8. RelativeRank(Other(p.stm), RankOf(Xor8(m.to))) = 5
    BY <1>3, <2>2, <2>3 DEF RelativeRank, RankOf, Xor8, Other, Square, Colors,
       WHITE, BLACK
  <2>9. Other(Other(p.stm)) = p.stm
    BY <1>3, OtherFacts
  <2> QED
    BY <1>6, <2>2, <2>4, <2>5, <2>6, <2>7, <2>8, <2>9
<1>13. Fit(q)
  BY <1>7, <1>8, <1>9, <1>10, <1>11, <1>12 DEF Fit, Sound, Moved
<1> QED
  BY <1>1, <1>6, <1>10, <1>13 DEF q

-----------------------------------------------------------------------------
(* Taking back: the list, the squares and the sums return.                 *)

OtherNo(p, m) == IF DirtyNum(m) = 2 THEN CapturedNo(p, m) ELSE Stale

\* TakenBack with what it reads first named.
Undone2(q, m, no0, pc) == IF m.promo # EMPTY THEN PutPiece(q, no0, m.to, pc) ELSE q
Undone3(q, m, us) ==
  CASE m.flag = "enpas" -> AddPiece(q, Xor8(m.to), MakePiece(Other(us), PAWN), FALSE)
    [] m.flag = "castle" ->
         PutPiece(NoPieceNumber(MovePiece(q, RookTo(m.to), RookFrom(m.to), FALSE),
                                RookTo(m.to)),
                  q.pieceNoOn[RookTo(m.to)], RookFrom(m.to), MakePiece(us, ROOK))
    [] OTHER -> q
Undone4(q, m, no0, pc) ==
  NoPieceNumber(PutPiece(MovePiece(q, m.to, m.from, FALSE), no0, m.from, pc), m.to)
Undone5(q, m, no1) ==
  IF m.capt = EMPTY THEN q
  ELSE PutPiece(AddPiece(q, m.to, m.capt, FALSE),
                no1, IF m.flag = "enpas" THEN Xor8(m.to) ELSE m.to, m.capt)
Undone6(q, m, us, no1) ==
  IF m.flag # "enpas" THEN q
  ELSE PutPiece(q, no1, Xor8(m.to), MakePiece(Other(us), PAWN))
Undone7(q, m, us) ==
  IF m.promo = EMPTY THEN q
  ELSE AddPiece(ClearPiece(q, m.from, FALSE), m.from, MakePiece(us, PAWN), FALSE)
Undone(q, m, us, no0, no1, pc) ==
  Undone7(Undone6(Undone5(
    Undone4(Undone3(Undone2([q EXCEPT !.stm = us], m, no0, pc), m, us), m, no0, pc),
    m, no1), m, us, no1), m, us)

LEMMA TakenBackSteps ==
  ASSUME NEW q, NEW st
  PROVE  TakenBack(q, st) =
           FromHistory(Undone(q, st.move, Other(q.stm), st.dirtyPiece.pieceNo[0],
                              st.dirtyPiece.pieceNo[1],
                              IF st.move.promo # EMPTY
                              THEN MakePiece(Other(q.stm), PAWN)
                              ELSE q.board[st.move.to]),
                       st)
BY Zenon DEF TakenBack, Undone, Undone2, Undone3, Undone4, Undone5, Undone6, Undone7

LEMMA FunctionsEqual ==
  ASSUME NEW D, NEW R, NEW f \in [D -> R], NEW g \in [D -> R],
         \A x \in D : f[x] = g[x]
  PROVE  f = g
OBVIOUS

LEMMA NumberedType ==
  ASSUME NEW nos \in NosType, NEW sq \in Square, NEW no \in 0..PIECE_NUMBER_NB
  PROVE  /\ Numbered(nos, sq, no) \in NosType
         /\ Numbered(nos, sq, no)[sq] = no
         /\ \A s \in Square : s # sq => Numbered(nos, sq, no)[s] = nos[s]
BY DEF NosType, Numbered

LEMMA ListedType ==
  ASSUME NEW list \in ListType, NEW no \in PieceNumber, NEW bona \in BonaPieces
  PROVE  /\ Listed(list, no, bona) \in ListType
         /\ Listed(list, no, bona)[no] = bona
         /\ \A k \in PieceNumber : k # no => Listed(list, no, bona)[k] = list[k]
BY DEF ListType, Listed

LEMMA NumberFacts ==
  /\ PIECE_NUMBER_NB \in 0..PIECE_NUMBER_NB
  /\ \A no \in PieceNumber : no \in 0..PIECE_NUMBER_NB
  /\ BONA_PIECE_ZERO \in BonaPieces
  /\ \A pc \in Pieces, sq \in Square : <<pc, sq>> \in BonaPieces
BY DEF PIECE_NUMBER_NB, PieceNumber, BonaPieces, BONA_PIECE_ZERO, Square

LEMMA NumberUndone ==
  ASSUME NEW nos \in NosType, NEW sq \in Square, NEW no \in 0..PIECE_NUMBER_NB
  PROVE  Numbered(Numbered(nos, sq, no), sq, nos[sq]) = nos
BY DEF NosType, Numbered

LEMMA NumberMovedBack ==
  ASSUME NEW nos \in NosType, NEW from \in Square, NEW to \in Square, from # to,
         nos[to] = PIECE_NUMBER_NB
  PROVE  LET n == Numbered(Numbered(nos, from, PIECE_NUMBER_NB), to, nos[from]) IN
         /\ Numbered(Numbered(n, from, nos[from]), to, PIECE_NUMBER_NB) = nos
         /\ Numbered(Numbered(n, to, PIECE_NUMBER_NB), from, nos[from]) = nos
BY DEF NosType, Numbered

LEMMA ListUndone ==
  ASSUME NEW list \in ListType, NEW no \in PieceNumber, NEW bona
  PROVE  Listed(Listed(list, no, bona), no, list[no]) = list
BY DEF ListType, Listed

\* What the list and the numbers say of the pieces that a move touches.
LEMMA ListBefore ==
  ASSUME NEW p, Good(p), NEW m, MoveOk(p, m)
  PROVE  /\ p.pieceList \in ListType /\ p.pieceNoOn \in NosType
         /\ List3(p, m) \in ListType /\ Nos3(p, m) \in NosType
         /\ List4(p, m) \in ListType /\ Nos4(p, m) \in NosType
         /\ List3(p, m)[MovedNo(p, m)] = <<p.board[m.from], m.from>>
         /\ Nos3(p, m)[m.from] = MovedNo(p, m)
         /\ Nos3(p, m)[m.to] = PIECE_NUMBER_NB
         /\ Takes(m) => p.pieceList[CapturedNo(p, m)] =
                          <<p.board[CaptureSq(m)], CaptureSq(m)>>
         /\ m.flag = "castle" =>
              /\ List4(p, m)[CapturedNo(p, m)] =
                   <<p.board[CaptureSq(m)], CaptureSq(m)>>
              /\ Nos4(p, m)[CaptureSq(m)] = CapturedNo(p, m)
              /\ Nos4(p, m)[RookTo(m.to)] = PIECE_NUMBER_NB
<1> DEFINE no0 == MovedNo(p, m)
           no1 == CapturedNo(p, m)
           b == p.board
           capsq == CaptureSq(m)
<1>1. /\ b \in BoardType /\ p.pieceNoOn \in NosType /\ p.pieceList \in ListType
      /\ ListOk(b, p.pieceNoOn, p.pieceList) /\ p.stm \in Colors
      /\ \A sq \in Square : b[sq] # EMPTY => b[sq] \in Pieces
  BY PositionParts DEF Good, Sound
<1>2. /\ m.from \in Square /\ m.to \in Square /\ m.from # m.to /\ capsq \in Square
      /\ b[m.from] \in Pieces
      /\ no0 \in PieceNumber
      /\ m.capt = EMPTY => b[m.to] = EMPTY
  BY MoveFacts
<1>3. /\ p.pieceList[no0] = <<b[m.from], m.from>>
  BY <1>1, <1>2, ListFacts DEF MovedNo
<1>4. ASSUME Takes(m)
      PROVE  /\ no1 \in PieceNumber /\ no1 # no0 /\ capsq # m.from
             /\ p.pieceList[no1] = <<b[capsq], capsq>>
             /\ m.capt # EMPTY => capsq = m.to
  <2>1. b[capsq] \in Pieces
    <3>1. MakePiece(Other(p.stm), PAWN) \in Pieces
      BY <1>1, OtherFacts, MakePieceFacts DEF PAWN, KING
    <3> QED
      BY <1>4, <3>1, MoveFacts DEF Takes
  <2>2. p.pieceList[no1] = <<b[capsq], capsq>>
    <3>1. no1 = p.pieceNoOn[capsq]
      BY DEF CapturedNo
    <3>2. p.pieceList[p.pieceNoOn[capsq]] = <<b[capsq], capsq>>
      <4>1. capsq \in Square /\ b[capsq] \in Pieces
        BY <1>2, <2>1
      <4> HIDE DEF capsq
      <4> QED
        BY <1>1, <4>1, ListFacts
    <3> QED
      BY <3>1, <3>2, Zenon
  <2> QED
    BY <1>4, <2>2, MoveFacts DEF Takes
<1>5. List3(p, m) \in ListType /\ List3(p, m)[no0] = <<b[m.from], m.from>>
  <2>1. CASE Takes(m)
    <3>1. List3(p, m) = Listed(p.pieceList, no1, BONA_PIECE_ZERO)
      BY <2>1 DEF List3
    <3> HIDE DEF no0, no1
    <3> QED
      BY <1>1, <1>2, <1>3, <1>4, <2>1, <3>1, ListedType, NumberFacts
  <2>2. CASE ~Takes(m)
    BY <1>1, <1>3, <2>2 DEF List3
  <2> QED
    BY <2>1, <2>2
<1>6. /\ Nos3(p, m) \in NosType /\ Nos3(p, m)[m.from] = no0
      /\ Nos3(p, m)[m.to] = PIECE_NUMBER_NB
  <2>1. p.pieceNoOn[m.from] = no0
    BY DEF MovedNo
  <2>2. b[m.to] = EMPTY => p.pieceNoOn[m.to] = PIECE_NUMBER_NB
    BY <1>1, <1>2 DEF ListOk
  <2>3. CASE Takes(m)
    <3>1. Nos3(p, m) = Numbered(p.pieceNoOn, capsq, PIECE_NUMBER_NB)
      BY <2>3 DEF Nos3
    <3>2. /\ Nos3(p, m) \in NosType /\ Nos3(p, m)[capsq] = PIECE_NUMBER_NB
          /\ \A s \in Square : s # capsq => Nos3(p, m)[s] = p.pieceNoOn[s]
      <4>1. capsq \in Square /\ p.pieceNoOn \in NosType
        BY <1>1, <1>2
      <4> HIDE DEF capsq
      <4> QED
        BY <3>1, <4>1, NumberedType, NumberFacts
    <3>3. m.capt # EMPTY => capsq = m.to
      BY <1>4, <2>3
    <3>4. capsq # m.from
      BY <1>4, <2>3
    <3> HIDE DEF no0, no1, capsq
    <3> QED
      BY <1>2, <2>1, <2>2, <3>2, <3>3, <3>4
  <2>4. CASE ~Takes(m)
    BY <1>1, <1>2, <2>1, <2>2, <2>4 DEF Nos3, Takes
  <2> QED
    BY <2>3, <2>4
<1>7. List4(p, m) \in ListType /\ Nos4(p, m) \in NosType
  <2>1. <<b[m.from], m.to>> \in BonaPieces /\ no0 \in 0..PIECE_NUMBER_NB
    BY <1>2, NumberFacts
  <2>2. List4(p, m) \in ListType
    BY <1>2, <1>5, <2>1, ListedType DEF List4
  <2>3. Numbered(Nos3(p, m), m.from, PIECE_NUMBER_NB) \in NosType
    BY <1>2, <1>6, NumberedType, NumberFacts
  <2>4. Nos4(p, m) \in NosType
    BY <1>2, <2>1, <2>3, NumberedType DEF Nos4
  <2> QED
    BY <2>2, <2>4
<1>8. ASSUME m.flag = "castle"
      PROVE  /\ List4(p, m)[no1] = <<b[capsq], capsq>>
             /\ Nos4(p, m)[capsq] = no1
             /\ Nos4(p, m)[RookTo(m.to)] = PIECE_NUMBER_NB
  <2>1. ~Takes(m) /\ capsq = RookFrom(m.to) /\ no1 \in PieceNumber /\ no1 # no0
    BY <1>8, MoveFacts DEF Takes
  <2>2. /\ m.from = (IF p.stm = WHITE THEN E1 ELSE E8)
        /\ m.to \in (IF p.stm = WHITE THEN {C1, G1} ELSE {C8, G8})
        /\ b[capsq] = MakePiece(p.stm, ROOK) /\ b[RookTo(m.to)] = EMPTY
    BY <1>8, <2>1 DEF MoveOk
  <2>3. /\ RookTo(m.to) \in Square /\ RookTo(m.to) # m.from /\ RookTo(m.to) # m.to
    BY <1>1, <2>2, RookSquares
  <2>4. b[capsq] \in Pieces
    BY <1>1, <2>2, MakePieceFacts DEF PAWN, KING, ROOK
  <2>5. p.pieceList[no1] = <<b[capsq], capsq>>
    <3>1. no1 = p.pieceNoOn[capsq]
      BY DEF CapturedNo
    <3>2. p.pieceList[p.pieceNoOn[capsq]] = <<b[capsq], capsq>>
      <4>1. capsq \in Square /\ b[capsq] \in Pieces
        BY <1>2, <2>4
      <4> HIDE DEF capsq
      <4> QED
        BY <1>1, <4>1, ListFacts
    <3> QED
      BY <3>1, <3>2, Zenon
  <2>6. p.pieceNoOn[RookTo(m.to)] = PIECE_NUMBER_NB
    BY <1>1, <2>2, <2>3 DEF ListOk
  <2>7. List3(p, m) = p.pieceList /\ Nos3(p, m) = p.pieceNoOn
    BY <2>1 DEF List3, Nos3
  <2>8. Nos4(p, m)[capsq] = no1
    BY <1>8, List4Ok
  <2>9. <<b[m.from], m.to>> \in BonaPieces /\ no0 \in 0..PIECE_NUMBER_NB
    BY <1>2, NumberFacts
  <2>10. List4(p, m)[no1] = p.pieceList[no1]
    BY <1>1, <1>2, <2>1, <2>7, <2>9, ListedType DEF List4
  <2>11. Nos4(p, m)[RookTo(m.to)] = PIECE_NUMBER_NB
    BY <1>1, <1>2, <2>3, <2>6, <2>7, <2>9 DEF Nos4, Numbered, NosType
  <2> QED
    BY <2>5, <2>8, <2>10, <2>11
<1> QED
  BY <1>1, <1>4, <1>5, <1>6, <1>7, <1>8

\* The piece on the square moved to.
Pce(p, m) == IF m.promo # EMPTY THEN m.promo ELSE p.board[m.from]

LEMMA PceFacts ==
  ASSUME NEW p, Good(p), NEW m, MoveOk(p, m)
  PROVE  /\ Pce(p, m) \in Pieces
         /\ p.board[m.from] \in Pieces /\ m.from \in Square /\ m.to \in Square
         /\ \A sq \in Square : /\ PSQT(Pce(p, m), sq) \in Int
                               /\ PSQT(p.board[m.from], sq) \in Int
         /\ PhaseValue(Pce(p, m)) \in Int /\ PhaseValue(p.board[m.from]) \in Int
         /\ p.material \in Int /\ p.basePhase \in Int
         /\ Lost(m) \in Int /\ LostPhase(m) \in Int
<1>1. /\ Pce(p, m) \in Pieces /\ p.board[m.from] \in Pieces
      /\ m.from \in Square /\ m.to \in Square
  BY MoveFacts DEF Pce, MoveOk
<1> QED
  BY <1>1, PSQTInt, PieceFacts, Gains

\* The position to come back to, with everything but the move itself undone.
Back3(p, m, r) ==
  /\ r \in PositionType /\ Agrees(r) /\ r.stm = p.stm
  /\ r.board = Filled(Board4(p, m), m.to, Pce(p, m))
  /\ r.pieceList = List4(p, m) /\ r.pieceNoOn = Nos4(p, m)
  /\ r.material = p.material - Lost(m) + PSQT(Pce(p, m), m.to)
                  - PSQT(p.board[m.from], m.from)
  /\ r.basePhase = p.basePhase - LostPhase(m) + PhaseValue(Pce(p, m))
                   - PhaseValue(p.board[m.from])

Undoing(p, m, q) == /\ q \in PositionType /\ Agrees(q) /\ Moved(p, m, q)
                    /\ q.stm = p.stm

LEMMA Board4Again ==
  ASSUME NEW p, Good(p), NEW m, MoveOk(p, m), m.promo = EMPTY
  PROVE  Filled(Board4(p, m), m.to, Pce(p, m)) = Board4(p, m)
<1>1. Pce(p, m) = p.board[m.from]
  BY DEF Pce
<1>2. Board4(p, m) \in BoardType /\ Board4(p, m)[m.to] = p.board[m.from]
  BY List4Ok
<1> QED
  BY <1>1, <1>2 DEF BoardType, Filled

LEMMA Undone3Plain ==
  ASSUME NEW p, Good(p), NEW m, MoveOk(p, m), m.flag \in {"none", "pstart"},
         m.promo = EMPTY, NEW q, Undoing(p, m, q)
  PROVE  Back3(p, m, q)
<1>1. /\ Board5(p, m) = Board4(p, m) /\ List5(p, m) = List4(p, m)
      /\ Nos5(p, m) = Nos4(p, m) /\ Extra(p, m) = 0 /\ ExtraPhase(p, m) = 0
  BY DEF Board5, List5, Nos5, Extra, ExtraPhase
<1>2. Pce(p, m) = p.board[m.from]
  BY DEF Pce
<1>3. q.board = Filled(Board4(p, m), m.to, Pce(p, m))
  BY <1>1, Board4Again DEF Undoing, Moved
<1>4. /\ q.material = p.material - Lost(m) + Gain(p, m) + 0
      /\ q.basePhase = p.basePhase - LostPhase(m) + 0
  BY <1>1 DEF Undoing, Moved
<1>5. /\ q.material = p.material - Lost(m) + PSQT(Pce(p, m), m.to)
                  - PSQT(p.board[m.from], m.from)
      /\ q.basePhase = p.basePhase - LostPhase(m) + PhaseValue(Pce(p, m))
                   - PhaseValue(p.board[m.from])
  BY <1>2, <1>4, PceFacts DEF Gain
<1> QED
  BY <1>1, <1>3, <1>5 DEF Back3, Undoing, Moved

LEMMA Undone3Promotion ==
  ASSUME NEW p, Good(p), NEW m, MoveOk(p, m), m.promo # EMPTY,
         NEW q, Undoing(p, m, q)
  PROVE  Back3(p, m, PutPiece(q, MovedNo(p, m), m.to, p.board[m.from]))
<1> DEFINE no == MovedNo(p, m)
           pawn == p.board[m.from]
           r == PutPiece(q, no, m.to, pawn)
<1>1. m.flag = "none" /\ no \in PieceNumber /\ no \in 0..PIECE_NUMBER_NB
  BY MoveFacts, NumberFacts
<1>2. /\ Board5(p, m) = Filled(Board4(p, m), m.to, m.promo)
      /\ List5(p, m) = Listed(List4(p, m), no, <<m.promo, m.to>>)
      /\ Nos5(p, m) = Numbered(Nos4(p, m), m.to, no)
      /\ Extra(p, m) = PSQT(m.promo, m.to) - PSQT(pawn, m.to)
      /\ ExtraPhase(p, m) = PhaseValue(m.promo) - PhaseValue(pawn)
  BY <1>1 DEF Board5, List5, Nos5, Extra, ExtraPhase
<1>3. Pce(p, m) = m.promo
  BY DEF Pce
<1>4. pawn \in Pieces /\ m.to \in Square /\ q \in PositionType
  BY PceFacts DEF Undoing
<1> HIDE DEF no
<1>5. /\ r \in PositionType /\ SameState(q, r) /\ SameSquares(q, r)
      /\ r.pieceList = Listed(q.pieceList, no, <<pawn, m.to>>)
      /\ r.pieceNoOn = Numbered(q.pieceNoOn, m.to, no)
  BY <1>1, <1>4, PutPieceFields
<1> HIDE DEF r
<1>6. Agrees(r)
  BY <1>5, SameSquaresAgree DEF Undoing
<1>7. /\ r.board = Filled(Board4(p, m), m.to, Pce(p, m)) /\ r.stm = p.stm
  BY <1>2, <1>3, <1>5 DEF Undoing, Moved, SameSquares, SameState
<1>8. r.pieceList = List4(p, m)
  <2>1. List4(p, m) \in ListType /\ List3(p, m) \in ListType
    BY ListBefore
  <2>2. List4(p, m)[no] = <<pawn, m.to>>
    BY <1>1, <1>4, <2>1, ListedType, NumberFacts DEF List4, no
  <2>3. r.pieceList = Listed(Listed(List4(p, m), no, <<m.promo, m.to>>), no,
                             List4(p, m)[no])
    BY <1>2, <1>5, <2>2 DEF Undoing, Moved
  <2> QED
    BY <1>1, <2>1, <2>3, ListUndone
<1>9. r.pieceNoOn = Nos4(p, m)
  <2>1. Nos4(p, m) \in NosType /\ Nos4(p, m)[m.to] = no
    BY ListBefore, List4Ok DEF no
  <2>2. r.pieceNoOn = Numbered(Numbered(Nos4(p, m), m.to, no), m.to, Nos4(p, m)[m.to])
    BY <1>2, <1>5, <2>1 DEF Undoing, Moved
  <2> QED
    BY <1>1, <1>4, <2>1, <2>2, NumberUndone
<1>10. /\ r.material = p.material - Lost(m) + PSQT(Pce(p, m), m.to)
                       - PSQT(p.board[m.from], m.from)
       /\ r.basePhase = p.basePhase - LostPhase(m) + PhaseValue(Pce(p, m))
                        - PhaseValue(p.board[m.from])
  <2>1. /\ r.material = p.material - Lost(m) + Gain(p, m)
                        + (PSQT(m.promo, m.to) - PSQT(pawn, m.to))
        /\ r.basePhase = p.basePhase - LostPhase(m)
                         + (PhaseValue(m.promo) - PhaseValue(pawn))
    BY <1>2, <1>5 DEF Undoing, Moved, SameSquares
  <2> QED
    BY <1>3, <2>1, PceFacts DEF Gain
<1> QED
  BY <1>5, <1>6, <1>7, <1>8, <1>9, <1>10 DEF Back3, r, no

LEMMA Undone3EnPassant ==
  ASSUME NEW p, Good(p), NEW m, MoveOk(p, m), m.flag = "enpas",
         NEW q, Undoing(p, m, q)
  PROVE  Back3(p, m, AddPiece(q, Xor8(m.to), MakePiece(Other(p.stm), PAWN), FALSE))
<1> DEFINE capsq == CaptureSq(m)
           pawn == MakePiece(Other(p.stm), PAWN)
           r == AddPiece(q, capsq, pawn, FALSE)
<1>1. /\ capsq = Xor8(m.to) /\ m.promo = EMPTY
      /\ capsq \in Square /\ capsq # m.from /\ capsq # m.to
      /\ p.board[capsq] = pawn
  BY MoveFacts
<1>2. /\ Board5(p, m) = Emptied(Board4(p, m), capsq)
      /\ List5(p, m) = List4(p, m) /\ Nos5(p, m) = Nos4(p, m)
      /\ Extra(p, m) = -PSQT(pawn, capsq)
      /\ ExtraPhase(p, m) = -PhaseValue(pawn)
  BY <1>1 DEF Board5, List5, Nos5, Extra, ExtraPhase
<1>3. pawn \in Pieces
  BY PositionParts, OtherFacts, MakePieceFacts DEF Good, Sound, PAWN, KING
<1>4. PSQT(pawn, capsq) \in Int /\ PhaseValue(pawn) \in Int
  BY <1>1, <1>3, PSQTInt, PieceFacts
<1>5. /\ Board4(p, m) \in BoardType /\ Board4(p, m)[capsq] = pawn
  BY <1>1, List4Ok
<1>6. q \in PositionType /\ Agrees(q) /\ q.board = Emptied(Board4(p, m), capsq)
  BY <1>2 DEF Undoing, Moved
<1> HIDE DEF pawn, capsq
<1>7. q.board[capsq] = EMPTY /\ FALSE \in BOOLEAN
  BY <1>1, <1>5, <1>6 DEF Emptied, BoardType
<1>8. /\ r \in PositionType /\ Agrees(r) /\ SameState(q, r) /\ SameList(q, r)
      /\ r.board = Filled(q.board, capsq, pawn)
      /\ r.material = q.material + PSQT(pawn, capsq)
      /\ r.basePhase = q.basePhase + PhaseValue(pawn)
  BY <1>1, <1>3, <1>4, <1>6, <1>7, AddPieceFields
<1> HIDE DEF r
<1>9. r.board = Board4(p, m)
  BY <1>1, <1>5, <1>6, <1>8 DEF Emptied, Filled, BoardType
<1>10. r.board = Filled(Board4(p, m), m.to, Pce(p, m))
  BY <1>1, <1>9, Board4Again
<1>11. /\ r.pieceList = List4(p, m) /\ r.pieceNoOn = Nos4(p, m) /\ r.stm = p.stm
  BY <1>2, <1>8 DEF Undoing, Moved, SameList, SameState
<1>12. /\ r.material = p.material - Lost(m) + PSQT(Pce(p, m), m.to)
                       - PSQT(p.board[m.from], m.from)
       /\ r.basePhase = p.basePhase - LostPhase(m) + PhaseValue(Pce(p, m))
                        - PhaseValue(p.board[m.from])
  <2>1. /\ q.material = p.material - Lost(m) + Gain(p, m) + -PSQT(pawn, capsq)
        /\ q.basePhase = p.basePhase - LostPhase(m) + -PhaseValue(pawn)
    BY <1>2 DEF Undoing, Moved
  <2>2. Pce(p, m) = p.board[m.from]
    BY <1>1 DEF Pce
  <2> QED
    BY <1>4, <1>8, <2>1, <2>2, PceFacts DEF Gain
<1> QED
  BY <1>1, <1>8, <1>10, <1>11, <1>12 DEF Back3, r, pawn

LEMMA Undone3Castle ==
  ASSUME NEW p, Good(p), NEW m, MoveOk(p, m), m.flag = "castle",
         NEW q, Undoing(p, m, q)
  PROVE  Back3(p, m, Undone3(q, m, p.stm))
<1> DEFINE rfrom == CaptureSq(m)
           rto   == RookTo(m.to)
           rook  == MakePiece(p.stm, ROOK)
           no    == CapturedNo(p, m)
           r     == Undone3(q, m, p.stm)
<1>1. rfrom = RookFrom(m.to) /\ m.capt = EMPTY /\ m.promo = EMPTY /\ no \in PieceNumber
  BY MoveFacts
<1>2. /\ rfrom \in Square /\ rto \in Square /\ rfrom # rto
      /\ rfrom # m.from /\ rfrom # m.to /\ rto # m.from /\ rto # m.to
      /\ p.board[rfrom] = rook /\ p.board[rto] = EMPTY
  <2>1. /\ m.from = (IF p.stm = WHITE THEN E1 ELSE E8)
        /\ m.to \in (IF p.stm = WHITE THEN {C1, G1} ELSE {C8, G8})
        /\ p.stm \in Colors
        /\ p.board[rfrom] = rook /\ p.board[rto] = EMPTY
    BY <1>1, PositionParts DEF MoveOk, Good, Sound
  <2> QED
    BY <1>1, <2>1, RookSquares
<1>3. rook \in Pieces
  BY PositionParts, MakePieceFacts DEF Good, Sound, PAWN, KING, ROOK
<1>4. PSQT(rook, rto) \in Int /\ PSQT(rook, rfrom) \in Int
  BY <1>2, <1>3, PSQTInt
<1>5. /\ Board5(p, m) = Filled(Emptied(Board4(p, m), rfrom), rto, rook)
      /\ List5(p, m) = Listed(List4(p, m), no, <<rook, rto>>)
      /\ Nos5(p, m) = Numbered(Numbered(Nos4(p, m), rfrom, PIECE_NUMBER_NB), rto, no)
      /\ Extra(p, m) = PSQT(rook, rto) - PSQT(rook, rfrom)
      /\ ExtraPhase(p, m) = 0
  BY <1>1 DEF Board5, List5, Nos5, Extra, ExtraPhase
<1>6. /\ Board4(p, m) \in BoardType /\ Board4(p, m)[rfrom] = rook
      /\ Board4(p, m)[rto] = EMPTY
      /\ Nos4(p, m) \in NosType /\ List4(p, m) \in ListType
      /\ Nos4(p, m)[rfrom] = no /\ Nos4(p, m)[rto] = PIECE_NUMBER_NB
      /\ List4(p, m)[no] = <<rook, rfrom>>
  BY <1>2, List4Ok, ListBefore
<1>7. /\ q \in PositionType /\ Agrees(q) /\ q.stm = p.stm
      /\ q.board = Filled(Emptied(Board4(p, m), rfrom), rto, rook)
      /\ q.pieceList = Listed(List4(p, m), no, <<rook, rto>>)
      /\ q.pieceNoOn = Numbered(Numbered(Nos4(p, m), rfrom, PIECE_NUMBER_NB), rto, no)
  BY <1>5 DEF Undoing, Moved
<1>8. r = PutPiece(NoPieceNumber(MovePiece(q, rto, rfrom, FALSE), rto),
                   q.pieceNoOn[rto], rfrom, rook)
  BY <1>1 DEF Undone3
<1> HIDE DEF rfrom, rto, rook, no, r
<1>9. /\ q.board[rto] = rook /\ q.board[rfrom] = EMPTY /\ q.pieceNoOn[rto] = no
  <2>1. no \in 0..PIECE_NUMBER_NB
    BY <1>1, NumberFacts
  <2> QED
    BY <1>2, <1>3, <1>6, <1>7, <2>1 DEF Filled, Emptied, Numbered, BoardType, NosType
<1>10. /\ q.board[rto] \in Pieces /\ rto # rfrom /\ FALSE \in BOOLEAN
  BY <1>2, <1>3, <1>9
<1>11. r = PutPiece(NoPieceNumber(MovePiece(q, rto, rfrom, FALSE), rto),
                    no, rfrom, rook)
  BY <1>8, <1>9
<1>12. /\ r \in PositionType /\ Agrees(r) /\ SameState(q, r)
       /\ r.board = Filled(Emptied(q.board, rto), rfrom, q.board[rto])
       /\ r.pieceList = Listed(q.pieceList, no, <<rook, rfrom>>)
       /\ r.pieceNoOn = Numbered(Numbered(q.pieceNoOn, rto, PIECE_NUMBER_NB), rfrom, no)
       /\ r.material = q.material + PSQT(q.board[rto], rfrom) - PSQT(q.board[rto], rto)
       /\ r.basePhase = q.basePhase
  <2>1. /\ q \in PositionType /\ Agrees(q) /\ rto \in Square /\ rfrom \in Square
        /\ rto # rfrom /\ q.board[rto] \in Pieces /\ q.board[rfrom] = EMPTY
        /\ no \in PieceNumber /\ rook \in Pieces
    BY <1>1, <1>2, <1>3, <1>7, <1>9, <1>10
  <2> QED
    BY <1>11, <2>1, MovedForth, ZenonT(120)
<1>13. r.board = Board4(p, m)
  BY <1>2, <1>6, <1>7, <1>9, <1>12 DEF Filled, Emptied, BoardType
<1>14. r.board = Filled(Board4(p, m), m.to, Pce(p, m))
  BY <1>1, <1>13, Board4Again
<1>15. r.pieceList = List4(p, m)
  BY <1>1, <1>6, <1>7, <1>12, ListUndone
<1>16. r.pieceNoOn = Nos4(p, m)
  BY <1>2, <1>6, <1>7, <1>12, NumberMovedBack
<1>17. /\ r.material = p.material - Lost(m) + PSQT(Pce(p, m), m.to)
                       - PSQT(p.board[m.from], m.from)
       /\ r.basePhase = p.basePhase - LostPhase(m) + PhaseValue(Pce(p, m))
                        - PhaseValue(p.board[m.from])
  <2>1. /\ q.material = p.material - Lost(m) + Gain(p, m)
                        + (PSQT(rook, rto) - PSQT(rook, rfrom))
        /\ q.basePhase = p.basePhase - LostPhase(m) + 0
    BY <1>5 DEF Undoing, Moved
  <2>2. Pce(p, m) = p.board[m.from]
    BY <1>1 DEF Pce
  <2>3. r.material = q.material + PSQT(rook, rfrom) - PSQT(rook, rto)
    BY <1>9, <1>12
  <2> QED
    BY <1>4, <1>12, <2>1, <2>2, <2>3, PceFacts DEF Gain
<1>18. r.stm = p.stm
  BY <1>7, <1>12 DEF SameState
<1> QED
  BY <1>12, <1>14, <1>15, <1>16, <1>17, <1>18 DEF Back3, r

LEMMA Undone3Holds ==
  ASSUME NEW p, Good(p), NEW m, MoveOk(p, m), NEW q, Undoing(p, m, q)
  PROVE  Back3(p, m, Undone3(Undone2(q, m, MovedNo(p, m), p.board[m.from]), m, p.stm))
<1>1. /\ m.flag \in {"none", "pstart", "enpas", "castle"}
      /\ m.promo # EMPTY => m.flag = "none"
  BY DEF MoveOk
<1>2. CASE m.promo # EMPTY
  <2>1. Undone3(Undone2(q, m, MovedNo(p, m), p.board[m.from]), m, p.stm)
          = PutPiece(q, MovedNo(p, m), m.to, p.board[m.from])
    BY <1>1, <1>2 DEF Undone3, Undone2
  <2> QED
    BY <1>2, <2>1, Undone3Promotion
<1>3. CASE m.promo = EMPTY
  <2>1. Undone2(q, m, MovedNo(p, m), p.board[m.from]) = q
    BY <1>3 DEF Undone2
  <2>2. CASE m.flag = "castle"
    BY <2>1, <2>2, Undone3Castle
  <2>3. CASE m.flag = "enpas"
    <3>1. Undone3(q, m, p.stm)
            = AddPiece(q, Xor8(m.to), MakePiece(Other(p.stm), PAWN), FALSE)
      BY <2>3 DEF Undone3
    <3> QED
      BY <2>1, <2>3, <3>1, Undone3EnPassant
  <2>4. CASE m.flag \in {"none", "pstart"}
    <3>1. Undone3(q, m, p.stm) = q
      BY <2>4 DEF Undone3
    <3> QED
      BY <1>3, <2>1, <2>4, <3>1, Undone3Plain
  <2> QED
    BY <1>1, <2>2, <2>3, <2>4
<1> QED
  BY <1>2, <1>3

\* The piece has gone back.
Back4(p, m, r) ==
  /\ r \in PositionType /\ Agrees(r) /\ r.stm = p.stm
  /\ r.board = Filled(Board2(p, m), m.from, Pce(p, m))
  /\ r.pieceList = List3(p, m) /\ r.pieceNoOn = Nos3(p, m)
  /\ r.material = p.material - Lost(m) + PSQT(Pce(p, m), m.from)
                  - PSQT(p.board[m.from], m.from)
  /\ r.basePhase = p.basePhase - LostPhase(m) + PhaseValue(Pce(p, m))
                   - PhaseValue(p.board[m.from])

LEMMA Undone4Holds ==
  ASSUME NEW p, Good(p), NEW m, MoveOk(p, m), NEW q, Back3(p, m, q)
  PROVE  Back4(p, m, Undone4(q, m, MovedNo(p, m), p.board[m.from]))
<1> DEFINE no == MovedNo(p, m)
           pc == p.board[m.from]
           pce == Pce(p, m)
           r  == Undone4(q, m, no, pc)
<1>1. /\ m.from \in Square /\ m.to \in Square /\ m.from # m.to
      /\ no \in PieceNumber /\ pc \in Pieces /\ pce \in Pieces
  BY MoveFacts, PceFacts
<1>2. /\ Board4(p, m) \in BoardType /\ Board4(p, m)[m.from] = EMPTY
      /\ Board4(p, m) = Filled(Emptied(Board2(p, m), m.from), m.to, pc)
      /\ Board2(p, m) \in BoardType /\ Board2(p, m)[m.to] = EMPTY
  BY List4Ok, Board2Facts DEF Board4
<1>3. /\ q \in PositionType /\ Agrees(q) /\ q.stm = p.stm
      /\ q.board = Filled(Board4(p, m), m.to, pce)
      /\ q.pieceList = List4(p, m) /\ q.pieceNoOn = Nos4(p, m)
  BY DEF Back3
<1>4. r = NoPieceNumber(PutPiece(MovePiece(q, m.to, m.from, FALSE), no, m.from, pc), m.to)
  BY DEF Undone4
<1>5. /\ Nos4(p, m) = Numbered(Numbered(Nos3(p, m), m.from, PIECE_NUMBER_NB), m.to, no)
      /\ List4(p, m) = Listed(List3(p, m), no, <<pc, m.to>>)
      /\ Nos3(p, m) \in NosType /\ List3(p, m) \in ListType
      /\ List3(p, m)[no] = <<pc, m.from>>
      /\ Nos3(p, m)[m.from] = no /\ Nos3(p, m)[m.to] = PIECE_NUMBER_NB
  BY ListBefore DEF Nos4, List4
<1> HIDE DEF no, pc, pce, r
<1>6. q.board[m.to] = pce /\ q.board[m.from] = EMPTY
  BY <1>1, <1>2, <1>3 DEF Filled, BoardType
<1>7. /\ r \in PositionType /\ Agrees(r) /\ SameState(q, r)
      /\ r.board = Filled(Emptied(q.board, m.to), m.from, q.board[m.to])
      /\ r.pieceList = Listed(q.pieceList, no, <<pc, m.from>>)
      /\ r.pieceNoOn = Numbered(Numbered(q.pieceNoOn, m.from, no), m.to, PIECE_NUMBER_NB)
      /\ r.material = q.material + PSQT(q.board[m.to], m.from) - PSQT(q.board[m.to], m.to)
      /\ r.basePhase = q.basePhase
  <2>1. /\ q \in PositionType /\ Agrees(q) /\ m.to \in Square /\ m.from \in Square
        /\ m.to # m.from /\ q.board[m.to] \in Pieces /\ q.board[m.from] = EMPTY
        /\ no \in PieceNumber /\ pc \in Pieces
    BY <1>1, <1>3, <1>6
  <2> QED
    <3>1. WentTo(q, r, m.to, m.from, no, pc)
      BY <1>4, <2>1, MovedBack
    <3> QED
      BY <3>1 DEF WentTo
<1>8. r.board = Filled(Board2(p, m), m.from, pce)
  BY <1>1, <1>2, <1>3, <1>6, <1>7 DEF Filled, Emptied, BoardType
<1>9. r.pieceList = List3(p, m)
  BY <1>1, <1>3, <1>5, <1>7, ListUndone
<1>10. r.pieceNoOn = Nos3(p, m)
  BY <1>1, <1>3, <1>5, <1>7, NumberMovedBack
<1>11. /\ r.material = p.material - Lost(m) + PSQT(pce, m.from) - PSQT(pc, m.from)
       /\ r.basePhase = p.basePhase - LostPhase(m) + PhaseValue(pce) - PhaseValue(pc)
  <2>1. /\ q.material = p.material - Lost(m) + PSQT(pce, m.to) - PSQT(pc, m.from)
        /\ q.basePhase = p.basePhase - LostPhase(m) + PhaseValue(pce) - PhaseValue(pc)
    BY DEF Back3, pce, pc
  <2>2. r.material = q.material + PSQT(pce, m.from) - PSQT(pce, m.to)
    BY <1>6, <1>7
  <2>3. /\ PSQT(pce, m.to) \in Int /\ PSQT(pce, m.from) \in Int
        /\ PSQT(pc, m.from) \in Int
        /\ p.material \in Int /\ Lost(m) \in Int
    BY <1>1, PceFacts DEF pce, pc
  <2> QED
    BY <1>7, <2>1, <2>2, <2>3
<1>12. r.stm = p.stm
  BY <1>3, <1>7 DEF SameState
<1> QED
  BY <1>7, <1>8, <1>9, <1>10, <1>11, <1>12 DEF Back4, r, no, pc, pce

\* The captured piece is back.
Back6(p, m, r) ==
  /\ r \in PositionType /\ Agrees(r) /\ r.stm = p.stm
  /\ r.board = Filled(p.board, m.from, Pce(p, m))
  /\ r.pieceList = p.pieceList /\ r.pieceNoOn = p.pieceNoOn
  /\ r.material = p.material + PSQT(Pce(p, m), m.from) - PSQT(p.board[m.from], m.from)
  /\ r.basePhase = p.basePhase + PhaseValue(Pce(p, m)) - PhaseValue(p.board[m.from])

LEMMA Undone6Capture ==
  ASSUME NEW p, Good(p), NEW m, MoveOk(p, m), m.capt # EMPTY,
         NEW q, Back4(p, m, q)
  PROVE  Back6(p, m, PutPiece(AddPiece(q, m.to, m.capt, FALSE), CapturedNo(p, m),
                              m.to, m.capt))
<1> DEFINE no == CapturedNo(p, m)
           r == PutPiece(AddPiece(q, m.to, m.capt, FALSE), no, m.to, m.capt)
           pce == Pce(p, m)
           to == m.to
           from == m.from
           capt == m.capt
<1>1. /\ from \in Square /\ to \in Square /\ from # to
      /\ no \in PieceNumber /\ capt \in Pieces /\ pce \in Pieces
      /\ CaptureSq(m) = to /\ p.board[to] = capt
  BY MoveFacts, PceFacts
<1>2. /\ Board2(p, m) = Emptied(p.board, to) /\ p.board \in BoardType
      /\ Takes(m) /\ Lost(m) = PSQT(capt, to) /\ LostPhase(m) = PhaseValue(capt)
      /\ List3(p, m) = Listed(p.pieceList, no, BONA_PIECE_ZERO)
      /\ Nos3(p, m) = Numbered(p.pieceNoOn, to, PIECE_NUMBER_NB)
  BY <1>1, PositionParts DEF Board2, Takes, Lost, LostPhase, List3, Nos3, Good, Sound
<1>3. /\ q \in PositionType /\ Agrees(q) /\ q.stm = p.stm
      /\ q.board = Filled(Board2(p, m), from, pce)
      /\ q.pieceList = List3(p, m) /\ q.pieceNoOn = Nos3(p, m)
  BY DEF Back4
<1>4. /\ p.pieceList \in ListType /\ p.pieceNoOn \in NosType
      /\ p.pieceList[no] = <<capt, to>> /\ p.pieceNoOn[to] = no
  <2>1. p.pieceNoOn[to] = no
    BY <1>1 DEF CapturedNo
  <2> QED
    BY <1>1, <1>2, <2>1, ListBefore
<1> HIDE DEF no, pce, r, to, from, capt
<1>5. q.board[to] = EMPTY
  BY <1>1, <1>2, <1>3 DEF Filled, Emptied, BoardType
<1>6. /\ r \in PositionType /\ Agrees(r) /\ SameState(q, r)
      /\ r.board = Filled(q.board, to, capt)
      /\ r.pieceList = Listed(q.pieceList, no, <<capt, to>>)
      /\ r.pieceNoOn = Numbered(q.pieceNoOn, to, no)
      /\ r.material = q.material + PSQT(capt, to)
      /\ r.basePhase = q.basePhase + PhaseValue(capt)
  <2>1. r = PutPiece(AddPiece(q, to, capt, FALSE), no, to, capt)
    BY DEF r, to, capt
  <2> QED
    <3>1. /\ q \in PositionType /\ Agrees(q) /\ to \in Square
          /\ q.board[to] = EMPTY /\ no \in PieceNumber /\ capt \in Pieces
      BY <1>1, <1>3, <1>5
    <3> QED
      BY <2>1, <3>1, Returned
<1>7. r.board = Filled(p.board, from, pce)
  BY <1>1, <1>2, <1>3, <1>6 DEF Filled, Emptied, BoardType
<1>8. r.pieceList = p.pieceList
  BY <1>1, <1>2, <1>3, <1>4, <1>6, ListUndone
<1>9. r.pieceNoOn = p.pieceNoOn
  <2>1. r.pieceNoOn = Numbered(Numbered(p.pieceNoOn, to, PIECE_NUMBER_NB), to, p.pieceNoOn[to])
    BY <1>2, <1>3, <1>4, <1>6
  <2> QED
    BY <1>1, <1>4, <2>1, NumberUndone, NumberFacts
<1>10. /\ r.material = p.material + PSQT(pce, from) - PSQT(p.board[from], from)
       /\ r.basePhase = p.basePhase + PhaseValue(pce) - PhaseValue(p.board[from])
  <2>1. /\ q.material = p.material - PSQT(capt, to) + PSQT(pce, from)
                        - PSQT(p.board[from], from)
        /\ q.basePhase = p.basePhase - PhaseValue(capt) + PhaseValue(pce)
                         - PhaseValue(p.board[from])
    BY <1>2 DEF Back4, pce, to, from, capt
  <2>2. /\ PSQT(pce, from) \in Int /\ PSQT(p.board[from], from) \in Int
        /\ PhaseValue(pce) \in Int /\ PhaseValue(p.board[from]) \in Int
        /\ p.material \in Int /\ p.basePhase \in Int
    BY <1>1, PceFacts DEF pce, from
  <2>3. PSQT(capt, to) \in Int /\ PhaseValue(capt) \in Int
    BY <1>1, PSQTInt, PieceFacts
  <2> QED
    BY <1>6, <2>1, <2>2, <2>3
<1>11. r.stm = p.stm
  BY <1>3, <1>6 DEF SameState
<1> QED
  BY <1>6, <1>7, <1>8, <1>9, <1>10, <1>11 DEF Back6, r, pce, from, to, capt, no

LEMMA Undone6Quiet ==
  ASSUME NEW p, Good(p), NEW m, MoveOk(p, m), m.capt = EMPTY,
         NEW q, Back4(p, m, q)
  PROVE  /\ q.board = Filled(p.board, m.from, Pce(p, m))
         /\ q.material = p.material + PSQT(Pce(p, m), m.from)
                         - PSQT(p.board[m.from], m.from)
         /\ q.basePhase = p.basePhase + PhaseValue(Pce(p, m))
                          - PhaseValue(p.board[m.from])
<1>1. Board2(p, m) = p.board /\ Lost(m) = 0 /\ LostPhase(m) = 0
  BY DEF Board2, Lost, LostPhase
<1> QED
  BY <1>1, PceFacts DEF Back4

LEMMA Undone6Holds ==
  ASSUME NEW p, Good(p), NEW m, MoveOk(p, m), NEW q, Back4(p, m, q)
  PROVE  Back6(p, m, Undone6(Undone5(q, m, OtherNo(p, m)), m, p.stm, OtherNo(p, m)))
<1> DEFINE no == CapturedNo(p, m)
           capsq == CaptureSq(m)
           pawn == MakePiece(Other(p.stm), PAWN)
<1>1. Takes(m) => OtherNo(p, m) = no
  BY DEF Takes, OtherNo, DirtyNum
<1>2. CASE m.capt # EMPTY
  <2>1. m.flag = "none" /\ Takes(m)
    BY <1>2, MoveFacts DEF Takes
  <2>2. Undone6(Undone5(q, m, OtherNo(p, m)), m, p.stm, OtherNo(p, m))
          = PutPiece(AddPiece(q, m.to, m.capt, FALSE), no, m.to, m.capt)
    BY <1>1, <1>2, <2>1 DEF Undone5, Undone6
  <2> QED
    BY <1>2, <2>2, Undone6Capture
<1>3. CASE m.capt = EMPTY /\ m.flag # "enpas"
  <2>1. Undone6(Undone5(q, m, OtherNo(p, m)), m, p.stm, OtherNo(p, m)) = q
    BY <1>3 DEF Undone5, Undone6
  <2>2. ~Takes(m)
    BY <1>3 DEF Takes
  <2>3. List3(p, m) = p.pieceList /\ Nos3(p, m) = p.pieceNoOn
    BY <2>2 DEF List3, Nos3
  <2> QED
    BY <1>3, <2>1, <2>3, Undone6Quiet DEF Back4, Back6
<1>4. CASE m.capt = EMPTY /\ m.flag = "enpas"
  <2> DEFINE r == PutPiece(q, no, capsq, pawn)
  <2>1. /\ capsq = Xor8(m.to) /\ capsq \in Square /\ p.board[capsq] = pawn
        /\ no \in PieceNumber
    BY <1>4, MoveFacts
  <2>2. Takes(m)
    BY <1>4 DEF Takes
  <2>3. Undone6(Undone5(q, m, OtherNo(p, m)), m, p.stm, OtherNo(p, m)) = r
    BY <1>1, <1>4, <2>1, <2>2 DEF Undone5, Undone6
  <2>4. pawn \in Pieces
    BY PositionParts, OtherFacts, MakePieceFacts DEF Good, Sound, PAWN, KING
  <2>5. /\ p.pieceList \in ListType /\ p.pieceNoOn \in NosType
        /\ p.pieceList[no] = <<pawn, capsq>> /\ p.pieceNoOn[capsq] = no
    BY <2>1, <2>2, ListBefore DEF CapturedNo
  <2>6. /\ List3(p, m) = Listed(p.pieceList, no, BONA_PIECE_ZERO)
        /\ Nos3(p, m) = Numbered(p.pieceNoOn, capsq, PIECE_NUMBER_NB)
    BY <2>2 DEF List3, Nos3
  <2>7. /\ q \in PositionType /\ Agrees(q) /\ q.stm = p.stm
        /\ q.pieceList = List3(p, m) /\ q.pieceNoOn = Nos3(p, m)
    BY DEF Back4
  <2> HIDE DEF pawn, capsq, no
  <2>8. /\ r \in PositionType /\ SameState(q, r) /\ SameSquares(q, r)
        /\ r.pieceList = Listed(q.pieceList, no, <<pawn, capsq>>)
        /\ r.pieceNoOn = Numbered(q.pieceNoOn, capsq, no)
    BY <2>1, <2>4, <2>7, PutPieceFields
  <2> HIDE DEF r
  <2>9. Agrees(r) /\ r.stm = p.stm
    BY <2>7, <2>8, SameSquaresAgree DEF SameState
  <2>10. r.board = q.board /\ r.material = q.material /\ r.basePhase = q.basePhase
    BY <2>8 DEF SameSquares
  <2>11. r.pieceList = p.pieceList
    BY <2>1, <2>5, <2>6, <2>7, <2>8, ListUndone
  <2>12. r.pieceNoOn = p.pieceNoOn
    <3>1. r.pieceNoOn = Numbered(Numbered(p.pieceNoOn, capsq, PIECE_NUMBER_NB),
                                 capsq, p.pieceNoOn[capsq])
      BY <2>5, <2>6, <2>7, <2>8
    <3> QED
      BY <2>1, <2>5, <3>1, NumberUndone, NumberFacts
  <2>13. Back6(p, m, r)
    BY <1>4, <2>8, <2>9, <2>10, <2>11, <2>12, Undone6Quiet DEF Back6
  <2> QED
    BY <2>3, <2>13
<1> QED
  BY <1>2, <1>3, <1>4

\* All that the moves of pieces can bring back is back.
Back7(p, r) ==
  /\ r \in PositionType /\ Agrees(r) /\ r.stm = p.stm /\ r.board = p.board
  /\ r.pieceList = p.pieceList /\ r.pieceNoOn = p.pieceNoOn
  /\ r.material = p.material /\ r.basePhase = p.basePhase

LEMMA Undone7Holds ==
  ASSUME NEW p, Good(p), NEW m, MoveOk(p, m), NEW q, Back6(p, m, q)
  PROVE  Back7(p, Undone7(q, m, p.stm))
<1> DEFINE pc == p.board[m.from]
           pce == Pce(p, m)
           r == Undone7(q, m, p.stm)
<1>1. /\ pc \in Pieces /\ pce \in Pieces /\ m.from \in Square
      /\ PSQT(pce, m.from) \in Int /\ PSQT(pc, m.from) \in Int
      /\ PhaseValue(pce) \in Int /\ PhaseValue(pc) \in Int
      /\ p.material \in Int /\ p.basePhase \in Int /\ p.board \in BoardType
  BY PceFacts, PositionParts DEF Good, Sound
<1>2. CASE m.promo = EMPTY
  <2>1. pce = pc /\ r = q
    BY <1>2 DEF Pce, Undone7
  <2>2. Filled(p.board, m.from, pc) = p.board
    BY <1>1 DEF Filled, BoardType
  <2> HIDE DEF r
  <2>3. q.material = p.material /\ q.basePhase = p.basePhase
    BY <1>1, <2>1 DEF Back6
  <2>4. q.board = p.board
    BY <2>1, <2>2 DEF Back6
  <2> QED
    BY <2>1, <2>3, <2>4 DEF Back6, Back7, r
<1>3. CASE m.promo # EMPTY
  <2>1. pc = MakePiece(p.stm, PAWN) /\ pce = m.promo
    BY <1>3 DEF MoveOk, Pce
  <2>2. r = AddPiece(ClearPiece(q, m.from, FALSE), m.from, pc, FALSE)
    BY <1>3, <2>1 DEF Undone7
  <2>3. /\ q \in PositionType /\ Agrees(q) /\ q.board = Filled(p.board, m.from, pce)
        /\ q.material = p.material + PSQT(pce, m.from) - PSQT(pc, m.from)
        /\ q.basePhase = p.basePhase + PhaseValue(pce) - PhaseValue(pc)
    BY DEF Back6
  <2> HIDE DEF pc, pce, r
  <2>4. q.board[m.from] = pce
    BY <1>1, <2>3 DEF Filled, BoardType
  <2>5. /\ r \in PositionType /\ Agrees(r) /\ SameState(q, r) /\ SameList(q, r)
        /\ r.board = Filled(q.board, m.from, pc)
        /\ r.material = q.material - PSQT(q.board[m.from], m.from) + PSQT(pc, m.from)
        /\ r.basePhase = q.basePhase - PhaseValue(q.board[m.from]) + PhaseValue(pc)
    BY <1>1, <2>2, <2>3, <2>4, Replaced
  <2>6. r.board = p.board
    BY <1>1, <2>3, <2>5 DEF Filled, BoardType, pc
  <2>7. r.material = p.material /\ r.basePhase = p.basePhase
    BY <1>1, <2>3, <2>4, <2>5
  <2> QED
    BY <2>5, <2>6, <2>7 DEF Back6, Back7, SameState, SameList, r
<1> QED
  BY <1>2, <1>3

\* A position is its squares, list, sums and state: the rest follows.
LEMMA SameRecord ==
  ASSUME NEW p \in PositionType, NEW q \in PositionType, Agrees(p), Agrees(q),
         q.board = p.board, q.stm = p.stm, q.key = p.key,
         q.epSquare = p.epSquare, q.rule50 = p.rule50,
         q.castlingRights = p.castlingRights, q.pieceNoOn = p.pieceNoOn,
         q.pieceList = p.pieceList, q.material = p.material,
         q.basePhase = p.basePhase
  PROVE  q = p
<1>1. q.colorBB = p.colorBB
  <2>1. \A c \in Colors : q.colorBB[c] = p.colorBB[c]
    BY DEF Agrees
  <2> QED
    BY <2>1 DEF PositionType
<1>2. q.nonPawnCount = p.nonPawnCount
  <2>1. \A c \in Colors : q.nonPawnCount[c] = p.nonPawnCount[c]
    BY DEF Agrees
  <2> QED
    BY <2>1 DEF PositionType
<1>3. q.pieceBB = p.pieceBB
  <2>1. \A pt \in PAWN..KING : q.pieceBB[pt] = p.pieceBB[pt]
    BY DEF Agrees
  <2>2. q.pieceBB[ALL] = p.pieceBB[ALL]
    BY DEF Agrees
  <2>3. \A pt \in ALL..KING : pt = ALL \/ pt \in PAWN..KING
    BY DEF ALL, PAWN, KING
  <2>4. \A pt \in ALL..KING : q.pieceBB[pt] = p.pieceBB[pt]
    BY <2>1, <2>2, <2>3
  <2>5. /\ p.pieceBB \in [ALL..KING -> SUBSET Square]
        /\ q.pieceBB \in [ALL..KING -> SUBSET Square]
    BY DEF PositionType
  <2> DEFINE D == ALL..KING
             R == SUBSET Square
  <2>6. /\ p.pieceBB \in [D -> R] /\ q.pieceBB \in [D -> R]
        /\ \A pt \in D : q.pieceBB[pt] = p.pieceBB[pt]
    BY <2>4, <2>5
  <2> HIDE DEF D, R
  <2> QED
    BY <2>6, FunctionsEqual
<1>4. ASSUME NEW r \in PositionType
      PROVE  r = [board |-> r.board, stm |-> r.stm, key |-> r.key,
                  epSquare |-> r.epSquare, rule50 |-> r.rule50,
                  castlingRights |-> r.castlingRights,
                  pieceNoOn |-> r.pieceNoOn, pieceList |-> r.pieceList,
                  colorBB |-> r.colorBB, pieceBB |-> r.pieceBB,
                  nonPawnCount |-> r.nonPawnCount, material |-> r.material,
                  basePhase |-> r.basePhase]
  BY DEF PositionType
<1> QED
  <2>1. p = [board |-> p.board, stm |-> p.stm, key |-> p.key,
             epSquare |-> p.epSquare, rule50 |-> p.rule50,
             castlingRights |-> p.castlingRights,
             pieceNoOn |-> p.pieceNoOn, pieceList |-> p.pieceList,
             colorBB |-> p.colorBB, pieceBB |-> p.pieceBB,
             nonPawnCount |-> p.nonPawnCount, material |-> p.material,
             basePhase |-> p.basePhase]
    BY <1>4, Zenon
  <2>2. q = [board |-> q.board, stm |-> q.stm, key |-> q.key,
             epSquare |-> q.epSquare, rule50 |-> q.rule50,
             castlingRights |-> q.castlingRights,
             pieceNoOn |-> q.pieceNoOn, pieceList |-> q.pieceList,
             colorBB |-> q.colorBB, pieceBB |-> q.pieceBB,
             nonPawnCount |-> q.nonPawnCount, material |-> q.material,
             basePhase |-> q.basePhase]
    BY <1>4, Zenon
  <2>3. q = [board |-> p.board, stm |-> p.stm, key |-> p.key,
             epSquare |-> p.epSquare, rule50 |-> p.rule50,
             castlingRights |-> p.castlingRights,
             pieceNoOn |-> p.pieceNoOn, pieceList |-> p.pieceList,
             colorBB |-> p.colorBB, pieceBB |-> p.pieceBB,
             nonPawnCount |-> p.nonPawnCount, material |-> p.material,
             basePhase |-> p.basePhase]
    BY <1>1, <1>2, <1>3, <2>2, Zenon
  <2> QED
    BY <2>1, <2>3, Zenon

LEMMA HistoryFields ==
  ASSUME NEW p \in PositionType, NEW r \in PositionType, NEW st,
         st.posKey = p.key, st.epSquare = p.epSquare, st.rule50 = p.rule50,
         st.castlingRights = p.castlingRights
  PROVE  LET q == FromHistory(r, st) IN
         /\ q \in PositionType
         /\ q.key = p.key /\ q.epSquare = p.epSquare /\ q.rule50 = p.rule50
         /\ q.castlingRights = p.castlingRights
         /\ q.stm = r.stm /\ q.board = r.board
         /\ q.pieceNoOn = r.pieceNoOn /\ q.pieceList = r.pieceList
         /\ q.colorBB = r.colorBB /\ q.pieceBB = r.pieceBB
         /\ q.nonPawnCount = r.nonPawnCount
         /\ q.material = r.material /\ q.basePhase = r.basePhase
<1> DEFINE q == FromHistory(r, st)
<1>1. q = [r EXCEPT !.key = p.key, !.epSquare = p.epSquare,
                    !.rule50 = p.rule50, !.castlingRights = p.castlingRights]
  BY DEF FromHistory
<1> HIDE DEF q
<1>2. q \in PositionType
  BY <1>1 DEF PositionType
<1>3. /\ q.key = p.key /\ q.epSquare = p.epSquare /\ q.rule50 = p.rule50
      /\ q.castlingRights = p.castlingRights
      /\ q.stm = r.stm /\ q.board = r.board
      /\ q.pieceNoOn = r.pieceNoOn /\ q.pieceList = r.pieceList
      /\ q.colorBB = r.colorBB /\ q.pieceBB = r.pieceBB
      /\ q.nonPawnCount = r.nonPawnCount
      /\ q.material = r.material /\ q.basePhase = r.basePhase
  BY <1>1 DEF PositionType
<1> QED
  BY <1>2, <1>3 DEF q

LEMMA HistoryRestores ==
  ASSUME NEW p, p \in PositionType, Agrees(p), NEW r, Back7(p, r), NEW st,
         st.posKey = p.key, st.epSquare = p.epSquare, st.rule50 = p.rule50,
         st.castlingRights = p.castlingRights
  PROVE  FromHistory(r, st) = p
<1> DEFINE q == FromHistory(r, st)
<1>1. r \in PositionType /\ Agrees(r)
  BY DEF Back7
<1>2. /\ q \in PositionType
      /\ q.key = p.key /\ q.epSquare = p.epSquare /\ q.rule50 = p.rule50
      /\ q.castlingRights = p.castlingRights
      /\ q.stm = r.stm /\ q.board = r.board
      /\ q.pieceNoOn = r.pieceNoOn /\ q.pieceList = r.pieceList
      /\ q.colorBB = r.colorBB /\ q.pieceBB = r.pieceBB
      /\ q.nonPawnCount = r.nonPawnCount
      /\ q.material = r.material /\ q.basePhase = r.basePhase
  BY <1>1, HistoryFields
<1> HIDE DEF q
<1>3. Agrees(q)
  BY <1>1, <1>2 DEF Agrees
<1>4. q = p
  BY <1>2, <1>3, SameRecord DEF Back7
<1> QED
  BY <1>4 DEF q

\* The piece on the square moved to.
LEMMA MovedPiece ==
  ASSUME NEW p, Good(p), NEW m, MoveOk(p, m)
  PROVE  Board5(p, m)[m.to] = Pce(p, m)
<1>1. /\ Board4(p, m) \in BoardType /\ Board4(p, m)[m.to] = p.board[m.from]
      /\ m.to \in Square /\ CaptureSq(m) \in Square
  BY List4Ok, MoveFacts
<1>2. m.promo # EMPTY => m.flag = "none"
  BY DEF MoveOk
<1>3. CASE m.flag = "enpas"
  <2>1. CaptureSq(m) # m.to /\ m.promo = EMPTY
    BY <1>3, MoveFacts
  <2>2. Board5(p, m) = Emptied(Board4(p, m), CaptureSq(m))
    BY <1>3 DEF Board5
  <2> QED
    BY <1>1, <2>1, <2>2 DEF Emptied, BoardType, Pce
<1>4. CASE m.flag = "castle"
  <2>1. /\ m.from = (IF p.stm = WHITE THEN E1 ELSE E8)
        /\ m.to \in (IF p.stm = WHITE THEN {C1, G1} ELSE {C8, G8})
        /\ p.stm \in Colors /\ CaptureSq(m) = RookFrom(m.to) /\ m.promo = EMPTY
    BY <1>4, MoveFacts, PositionParts DEF MoveOk, Good, Sound
  <2>2. CaptureSq(m) # m.to /\ RookTo(m.to) # m.to
    BY <2>1, RookSquares
  <2>3. Board5(p, m) = Filled(Emptied(Board4(p, m), CaptureSq(m)),
                              RookTo(m.to), MakePiece(p.stm, ROOK))
    BY <1>4 DEF Board5
  <2> QED
    BY <1>1, <2>1, <2>2, <2>3 DEF Emptied, Filled, BoardType, Pce
<1>5. CASE m.flag \notin {"enpas", "castle"}
  <2>1. CASE m.promo = EMPTY
    BY <1>1, <1>5, <2>1 DEF Board5, Pce
  <2>2. CASE m.promo # EMPTY
    BY <1>1, <1>5, <2>2 DEF Board5, Pce, Filled, BoardType
  <2> QED
    BY <2>1, <2>2
<1> QED
  BY <1>3, <1>4, <1>5

\* Taking a move back gives the position before it, every field of it: what
\* TakeMove (makemove.cpp) undoes by hand is all that MakeMove did.
THEOREM TakenBackIsBefore ==
  ASSUME NEW p, Good(p), NEW m, MoveOk(p, m)
  PROVE  TakenBack(Made(p, m).pos, Made(p, m).st) = p
<1> DEFINE q   == Made(p, m).pos
           st  == Made(p, m).st
           no0 == MovedNo(p, m)
           no1 == OtherNo(p, m)
           pc  == p.board[m.from]
           q1  == [q EXCEPT !.stm = p.stm]
           r2  == Undone2(q1, m, no0, pc)
           r3  == Undone3(r2, m, p.stm)
           r4  == Undone4(r3, m, no0, pc)
           r5  == Undone5(r4, m, no1)
           r6  == Undone6(r5, m, p.stm, no1)
           r7  == Undone7(r6, m, p.stm)
<1>1. /\ p \in PositionType /\ Agrees(p) /\ p.stm \in Colors
  BY PositionParts DEF Good, Sound
<1>2. /\ q \in PositionType /\ Agrees(q) /\ Moved(p, m, q) /\ q.stm = Other(p.stm)
  BY MadeFields DEF Fit, Sound
<1>3. /\ st.posKey = p.key /\ st.move = m /\ st.epSquare = p.epSquare
      /\ st.rule50 = p.rule50 /\ st.castlingRights = p.castlingRights
      /\ st.dirtyPiece = DirtyPieceOf(p, Step5(p, m), m, no0, CapturedNo(p, m))
  <2>1. st = [posKey |-> p.key, move |-> m, epSquare |-> p.epSquare,
              rule50 |-> p.rule50, castlingRights |-> p.castlingRights,
              dirtyPiece |-> DirtyPieceOf(p, Step5(p, m), m, no0, CapturedNo(p, m))]
    BY MadeSteps, Zenon
  <2> HIDE DEF st, no0
  <2> QED
    BY <2>1
<1>4. st.dirtyPiece.pieceNo[0] = no0 /\ st.dirtyPiece.pieceNo[1] = no1
  BY <1>3 DEF DirtyPieceOf, OtherNo
<1>5. Other(q.stm) = p.stm
  BY <1>1, <1>2, OtherFacts
<1>6. (IF m.promo # EMPTY THEN MakePiece(p.stm, PAWN) ELSE q.board[m.to]) = pc
  <2>1. q.board[m.to] = Pce(p, m)
    BY <1>2, MovedPiece DEF Moved
  <2> QED
    BY <2>1 DEF Pce, MoveOk
<1>7. TakenBack(q, st) =
        FromHistory(Undone(q, st.move, Other(q.stm), st.dirtyPiece.pieceNo[0],
                           st.dirtyPiece.pieceNo[1],
                           IF st.move.promo # EMPTY THEN MakePiece(Other(q.stm), PAWN)
                           ELSE q.board[st.move.to]), st)
  BY TakenBackSteps, Zenon
<1> HIDE DEF q, st, no0, no1, pc
<1>8. TakenBack(q, st) = FromHistory(Undone(q, m, p.stm, no0, no1, pc), st)
  BY <1>3, <1>4, <1>5, <1>6, <1>7
<1>9. Undone(q, m, p.stm, no0, no1, pc) = r7
  BY Zenon DEF Undone
<1>10. Undoing(p, m, q1)
  <2>1. /\ q1 \in PositionType /\ q1.stm = p.stm
        /\ SameSquares(q, q1) /\ SameList(q, q1)
    BY <1>1, <1>2 DEF PositionType, SameSquares, SameList
  <2> HIDE DEF q1
  <2>2. Agrees(q1)
    BY <1>2, <2>1, SameSquaresAgree
  <2>3. Moved(p, m, q1)
    BY <1>2, <2>1 DEF Moved, SameSquares, SameList
  <2> QED
    BY <2>1, <2>2, <2>3 DEF Undoing
<1> HIDE DEF q1, r2, r3, r4, r5, r6, r7
<1>11. Back3(p, m, r3)
  BY <1>10, Undone3Holds DEF r3, r2, no0, pc
<1>12. Back4(p, m, r4)
  BY <1>11, Undone4Holds DEF r4, no0, pc
<1>13. Back6(p, m, r6)
  BY <1>12, Undone6Holds DEF r6, r5, no1
<1>14. Back7(p, r7)
  BY <1>13, Undone7Holds DEF r7
<1>15. FromHistory(r7, st) = p
  BY <1>1, <1>3, <1>14, HistoryRestores
<1>16. TakenBack(q, st) = p
  BY <1>8, <1>9, <1>15
<1> QED
  BY <1>16 DEF q, st

-----------------------------------------------------------------------------
(* Attacks: whoever attacks a square is found from that square.            *)

LEMMA DistanceSymmetric ==
  ASSUME NEW a \in Square, NEW b \in Square
  PROVE  Distance(a, b) = Distance(b, a)
BY DEF Distance, Square, RankOf, FileOf

LEMMA Landing ==
  ASSUME NEW a \in Square, NEW b, NEW step \in Int
  PROVE  b \in LandingSquareBB(a, step) <=>
           b \in Square /\ b = a + step /\ Distance(a, b) <= 2
BY DEF LandingSquareBB

LEMMA LandingBack ==
  ASSUME NEW a \in Square, NEW b, NEW step \in Int, b \in LandingSquareBB(a, step)
  PROVE  b \in Square /\ b = a + step /\ a \in LandingSquareBB(b, -step)
<1>1. b \in Square /\ b = a + step /\ Distance(a, b) <= 2
  BY Landing
<1>2. Distance(b, a) <= 2
  BY <1>1, DistanceSymmetric
<1>3. a = b + (-step) /\ -step \in Int
  BY <1>1 DEF Square
<1> QED
  BY <1>1, <1>2, <1>3, Landing

LEMMA LeaperBack ==
  ASSUME NEW pt \in {KNIGHT, KING}, NEW from \in Square, NEW to,
         to \in PseudoAttacks[pt][from]
  PROVE  to \in Square /\ to # from /\ from \in PseudoAttacks[pt][to]
<1> DEFINE steps == IF pt = KING THEN KSteps ELSE NSteps
<1>1. \A sq \in Square : PseudoAttacks[pt][sq] =
         UNION {LandingSquareBB(sq, step) : step \in steps}
  BY Zenon DEF PseudoAttacks
<1>2. \A step \in steps : step \in Int /\ -step \in steps /\ step # 0
  BY DEF KSteps, NSteps
<1> HIDE DEF steps
<1>3. PICK step \in steps : to \in LandingSquareBB(from, step)
  BY <1>1
<1>4. step \in Int /\ -step \in steps /\ step # 0
  BY <1>2
<1>5. to \in Square /\ to = from + step /\ from \in LandingSquareBB(to, -step)
  BY <1>3, <1>4, LandingBack
<1>6. from \in PseudoAttacks[pt][to]
  BY <1>1, <1>4, <1>5
<1> QED
  BY <1>4, <1>5, <1>6 DEF Square

LEMMA Times ==
  ASSUME NEW step \in RSteps \cup BSteps, NEW k \in Int, NEW j \in Int
  PROVE  /\ step \in Int /\ -step \in RSteps \cup BSteps
         /\ k * step \in Int /\ j * step \in Int
         /\ j * (-step) = -(j * step)
         /\ (k - j) * step = k * step - j * step
         /\ (k - j - 1) * step = k * step - j * step - step
         /\ k > 0 => k * step # 0
BY DEF RSteps, BSteps

\* The squares of a ray, seen from its other end.
LEMMA RayBack ==
  ASSUME NEW from \in Square, NEW step \in RSteps \cup BSteps,
         NEW k \in StepsFrom[from][step]
  PROVE  /\ k \in 1..7 /\ from + k * step \in Square
         /\ from + k * step # from
         /\ k \in StepsFrom[from + k * step][-step]
<1> DEFINE to == from + k * step
<1>1. \A sq \in Square, st \in RSteps \cup BSteps : StepsFrom[sq][st] =
        {n \in 1..7 : \A j \in 0..(n - 1) :
           /\ sq + j * st \in Square
           /\ LandingSquareBB(sq + j * st, st) # {}}
  BY Zenon DEF StepsFrom
<1>2. /\ k \in 1..7
      /\ \A j \in 0..(k - 1) : /\ from + j * step \in Square
                               /\ LandingSquareBB(from + j * step, step) # {}
  BY <1>1
<1>3. step \in Int /\ -step \in RSteps \cup BSteps /\ from \in Int /\ k \in Int
  BY <1>2, Times DEF Square
<1>4. ASSUME NEW j \in 0..(k - 1)
      PROVE  /\ to + j * (-step) \in Square
             /\ LandingSquareBB(to + j * (-step), -step) # {}
  <2>1. k - j - 1 \in 0..(k - 1) /\ j \in Int
    BY <1>2
  <2>2. /\ k * step \in Int /\ j * step \in Int /\ j * (-step) = -(j * step)
        /\ (k - j - 1) * step = k * step - j * step - step
    BY <1>3, <2>1, Times
  <2> DEFINE a == from + (k - j - 1) * step
             b == to + j * (-step)
  <2>3. a \in Square /\ LandingSquareBB(a, step) # {}
    BY <1>2, <2>1
  <2>4. b = a + step
    BY <1>3, <2>2
  <2> HIDE DEF a, b
  <2>5. PICK c : c \in LandingSquareBB(a, step)
    BY <2>3
  <2>6. c = b
    BY <1>3, <2>3, <2>4, <2>5, Landing
  <2>7. b \in Square /\ a \in LandingSquareBB(b, -step)
    BY <1>3, <2>3, <2>5, <2>6, LandingBack
  <2> QED
    BY <2>7 DEF b
<1>5. to \in Square
  <2>1. 0 \in 0..(k - 1) /\ 0 * (-step) = 0 /\ k * step \in Int
    BY <1>2, <1>3, Times
  <2>2. to + 0 * (-step) \in Square
    BY <1>4, <2>1
  <2>3. to + 0 * (-step) = to
    BY <1>3, <2>1
  <2> QED
    BY <2>2, <2>3
<1>6. to # from
  <2>1. k \in Int /\ k > 0
    BY <1>2
  <2>2. k * step \in Int /\ k * step # 0
    BY <2>1, Times
  <2> QED
    BY <1>3, <2>2
<1> HIDE DEF to
<1>7. k \in StepsFrom[to][-step]
  BY <1>1, <1>2, <1>3, <1>4, <1>5
<1> QED
  BY <1>2, <1>5, <1>6, <1>7 DEF to

LEMMA SliderAttack ==
  ASSUME NEW sq, NEW occupied, NEW steps, NEW to
  PROVE  to \in MakeSliderAttackBB(sq, occupied, steps) <=>
           \E step \in steps : \E k \in StepsFrom[sq][step] :
             /\ to = sq + k * step
             /\ \A j \in 1..(k - 1) : sq + j * step \notin occupied
<1> DEFINE Clear(step) == {k \in StepsFrom[sq][step] :
                             \A j \in 1..(k - 1) : sq + j * step \notin occupied}
           Ray(step) == {sq + k * step : k \in Clear(step)}
<1>1. MakeSliderAttackBB(sq, occupied, steps) = UNION {Ray(step) : step \in steps}
  BY Zenon DEF MakeSliderAttackBB
<1>2. to \in UNION {Ray(step) : step \in steps} <=> \E step \in steps : to \in Ray(step)
  BY Zenon
<1>3. \A step : to \in Ray(step) <=> \E k \in Clear(step) : to = sq + k * step
  BY Zenon
<1>4. \A step, k : k \in Clear(step) <=>
        k \in StepsFrom[sq][step] /\ \A j \in 1..(k - 1) : sq + j * step \notin occupied
  BY Zenon
<1> HIDE DEF Ray, Clear
<1> QED
  BY <1>1, <1>2, <1>3, <1>4, Zenon

LEMMA SliderBack ==
  ASSUME NEW from \in Square, NEW occupied, NEW steps \in SUBSET (RSteps \cup BSteps),
         \A step \in steps : -step \in steps,
         NEW to, to \in MakeSliderAttackBB(from, occupied, steps)
  PROVE  /\ to \in Square /\ to # from
         /\ from \in MakeSliderAttackBB(to, occupied, steps)
<1>1a. PICK step \in steps : \E k \in StepsFrom[from][step] :
             /\ to = from + k * step
             /\ \A j \in 1..(k - 1) : from + j * step \notin occupied
  BY SliderAttack
<1>1. PICK k \in StepsFrom[from][step] :
             /\ to = from + k * step
             /\ \A j \in 1..(k - 1) : from + j * step \notin occupied
  BY <1>1a
<1>2. step \in RSteps \cup BSteps /\ -step \in steps
  OBVIOUS
<1>3. k \in 1..7 /\ to \in Square /\ to # from /\ k \in StepsFrom[to][-step]
  BY <1>1, <1>2, RayBack
<1>4. ASSUME NEW j \in 1..(k - 1)
      PROVE  to + j * (-step) \notin occupied
  <2>1. k - j \in 1..(k - 1) /\ k \in Int /\ j \in Int
    BY <1>3
  <2>2. /\ k * step \in Int /\ j * step \in Int /\ j * (-step) = -(j * step)
        /\ (k - j) * step = k * step - j * step
    BY <1>2, <2>1, Times
  <2>3. to + j * (-step) = from + (k - j) * step
    BY <1>1, <2>2 DEF Square
  <2> QED
    BY <1>1, <2>1, <2>3
<1>5. from = to + k * (-step)
  <2>1. k * step \in Int /\ k * (-step) = -(k * step)
    BY <1>2, <1>3, Times
  <2> QED
    BY <1>1, <2>1 DEF Square
<1>6. from \in MakeSliderAttackBB(to, occupied, steps)
  BY <1>2, <1>3, <1>4, <1>5, SliderAttack
<1> QED
  BY <1>3, <1>6

\* A piece that reaches a square attacks it.
LEMMA PieceAttacks ==
  ASSUME NEW p, Sound(p), NEW c \in Colors, NEW pt \in KNIGHT..KING,
         NEW from \in ColorPieceBB(p, c, pt), from \in Square,
         NEW to, to \in AttackBB(pt, from, p.pieceBB[ALL])
  PROVE  to \in Square /\ to # from /\ SqAttacked(p, to, c)
<1> DEFINE occupied == p.pieceBB[ALL]
           By(pts) == p.colorBB[c] \cap UNION {p.pieceBB[t] : t \in pts}
<1>1. SqAttacked(p, to, c) <=>
        \/ PawnAttacks[Other(c)][to] \cap By({PAWN}) # {}
        \/ \E t \in {KNIGHT, KING} : PseudoAttacks[t][to] \cap By({t}) # {}
        \/ \E t \in {BISHOP, ROOK} :
             AttackBB(t, to, occupied) \cap By({t, QUEEN}) # {}
  BY Zenon DEF SqAttacked
<1>2. \A pts : pt \in pts => from \in By(pts)
  BY DEF ColorPieceBB
<1> HIDE DEF By, occupied
<1>3. CASE pt \in {KNIGHT, KING}
  <2>1. AttackBB(pt, from, occupied) = PseudoAttacks[pt][from]
    BY <1>3 DEF AttackBB, KNIGHT, KING, BISHOP, ROOK, QUEEN
  <2>2. to \in Square /\ to # from /\ from \in PseudoAttacks[pt][to]
    BY <1>3, <2>1, LeaperBack DEF occupied
  <2> QED
    BY <1>1, <1>2, <1>3, <2>2
<1>4. ASSUME NEW t \in {BISHOP, ROOK}, NEW steps \in {RSteps, BSteps},
             steps = (IF t = ROOK THEN RSteps ELSE BSteps), pt \in {t, QUEEN},
             to \in MakeSliderAttackBB(from, occupied, steps)
      PROVE  to \in Square /\ to # from /\ SqAttacked(p, to, c)
  <2>1. steps \in SUBSET (RSteps \cup BSteps) /\ \A step \in steps : -step \in steps
    BY <1>4 DEF RSteps, BSteps
  <2>2. /\ to \in Square /\ to # from
        /\ from \in MakeSliderAttackBB(to, occupied, steps)
    BY <1>4, <2>1, SliderBack
  <2>3. AttackBB(t, to, occupied) = MakeSliderAttackBB(to, occupied, steps)
    BY <1>4 DEF AttackBB, BISHOP, ROOK, QUEEN
  <2> QED
    BY <1>1, <1>2, <1>4, <2>2, <2>3
<1>5. CASE pt = BISHOP
  <2>1. to \in MakeSliderAttackBB(from, occupied, BSteps)
    BY <1>5 DEF AttackBB, BISHOP, ROOK, QUEEN, occupied
  <2> QED
    BY <1>4, <1>5, <2>1 DEF BISHOP, ROOK
<1>6. CASE pt = ROOK
  <2>1. to \in MakeSliderAttackBB(from, occupied, RSteps)
    BY <1>6 DEF AttackBB, BISHOP, ROOK, QUEEN, occupied
  <2> QED
    BY <1>4, <1>6, <2>1 DEF BISHOP, ROOK
<1>7. CASE pt = QUEEN
  <2>1. to \in MakeSliderAttackBB(from, occupied, RSteps \cup BSteps)
    BY <1>7 DEF AttackBB, BISHOP, ROOK, QUEEN, occupied
  <2>2. \/ to \in MakeSliderAttackBB(from, occupied, RSteps)
        \/ to \in MakeSliderAttackBB(from, occupied, BSteps)
    <3>1. PICK step \in RSteps \cup BSteps : \E k \in StepsFrom[from][step] :
             /\ to = from + k * step
             /\ \A j \in 1..(k - 1) : from + j * step \notin occupied
      BY <2>1, SliderAttack
    <3> QED
      BY <3>1, SliderAttack
  <2> QED
    BY <1>4, <1>7, <2>2 DEF BISHOP, ROOK
<1> QED
  BY <1>3, <1>5, <1>6, <1>7 DEF KNIGHT, BISHOP, ROOK, QUEEN, KING

\* A square the side to move attacks is not the other king's.
LEMMA NotTheKing ==
  ASSUME NEW p, Good(p), NEW to \in Square, SqAttacked(p, to, p.stm)
  PROVE  p.board[to] # MakePiece(Other(p.stm), KING)
<1>1. /\ p.stm \in Colors /\ Other(p.stm) \in Colors /\ Other(Other(p.stm)) = p.stm
      /\ Agrees(p)
  BY PositionParts, OtherFacts DEF Good, Sound
<1>2. SUFFICES ASSUME p.board[to] = MakePiece(Other(p.stm), KING)
               PROVE  FALSE
  OBVIOUS
<1>3. KING \in PAWN..KING
  BY DEF PAWN, KING
<1>4. /\ p.board[to] \in Pieces /\ ColorOf(p.board[to]) = Other(p.stm)
      /\ PieceTypeOf(p.board[to]) = KING
  BY <1>1, <1>2, <1>3, MakePieceFacts
<1>5. p.board[to] # EMPTY
  BY <1>4, PieceFacts
<1>6. to \in ColorPieceBB(p, Other(p.stm), KING)
  BY <1>1, <1>3, <1>4, <1>5 DEF ColorPieceBB, Agrees, OfColor, OfType
<1> QED
  BY <1>1, <1>6 DEF Good, KingAttacked

-----------------------------------------------------------------------------
(* What the generators give.                                               *)

LEMMA OnBoard ==
  ASSUME NEW p, Sound(p), NEW c \in Colors, NEW sq
  PROVE  /\ sq \in p.colorBB[c] => /\ sq \in Square /\ p.board[sq] # EMPTY
                                   /\ ColorOf(p.board[sq]) = c
         /\ \A pt \in PAWN..KING : sq \in ColorPieceBB(p, c, pt) =>
              sq \in Square /\ p.board[sq] = MakePiece(c, pt)
         /\ sq \in Square /\ sq \notin p.pieceBB[ALL] => p.board[sq] = EMPTY
<1>1. p \in PositionType /\ Agrees(p)
  BY DEF Sound
<1>2. \A s \in Square : p.board[s] # EMPTY => p.board[s] \in Pieces
  BY <1>1, PositionParts
<1>3. p.colorBB[c] = OfColor(p.board, c) /\ p.pieceBB[ALL] = Occupied(p.board)
  BY <1>1 DEF Agrees
<1>4. ASSUME NEW pt \in PAWN..KING, sq \in ColorPieceBB(p, c, pt)
      PROVE  sq \in Square /\ p.board[sq] = MakePiece(c, pt)
  <2>1. sq \in OfColor(p.board, c) /\ sq \in OfType(p.board, pt)
    BY <1>1, <1>4 DEF ColorPieceBB, Agrees
  <2>2. sq \in Square /\ p.board[sq] # EMPTY
    BY <2>1 DEF OfColor
  <2>3. p.board[sq] \in Pieces
    BY <1>2, <2>2
  <2>4. p.board[sq] = MakePiece(ColorOf(p.board[sq]), PieceTypeOf(p.board[sq]))
    BY <2>3, PieceFacts
  <2> QED
    BY <2>1, <2>2, <2>4 DEF OfColor, OfType
<1> QED
  BY <1>3, <1>4 DEF OfColor, Occupied

\* A step of all pawns that does not wrap around.
LEMMA PawnShift ==
  ASSUME NEW dir \in {-9, -8, -7, 7, 8, 9}, NEW pawns, NEW to,
         pawns \subseteq Square, to \in ShiftBB(dir, pawns)
  PROVE  /\ to \in Square /\ to - dir \in pawns /\ to - dir # to
         /\ to \in LandingSquareBB(to - dir, dir)
<1> DEFINE file == CASE dir % 8 = 1 -> {7} [] dir % 8 = 7 -> {0} [] OTHER -> {}
<1>1. to \in {s + dir : s \in {t \in pawns : FileOf(t) \notin file}} \cap Square
  BY Zenon DEF ShiftBB
<1> HIDE DEF file
<1>2. PICK s \in pawns : FileOf(s) \notin file /\ to = s + dir
  BY <1>1
<1>3. to \in Square /\ s \in Square /\ s = to - dir /\ s # to
  BY <1>1, <1>2 DEF Square
<1>4. Distance(s, to) <= 2
  BY <1>2, <1>3 DEF Distance, RankOf, FileOf, Square, file
<1>5. to \in LandingSquareBB(s, dir)
  BY <1>2, <1>3, <1>4, Landing
<1> QED
  BY <1>2, <1>3, <1>5

LEMMA PawnDirections ==
  ASSUME NEW c \in Colors
  PROVE  LET sides == {Up(c) + Left(c), Up(c) - Left(c)} IN
         /\ Up(c) \in {-8, 8} /\ sides \subseteq {-9, -7, 7, 9}
         /\ \A dir \in sides : dir \in PSteps[c] /\ -dir \in PSteps[Other(c)]
BY DEF Up, Left, NORTH, PSteps, Other, Colors, WHITE, BLACK

LEMMA PawnHits ==
  ASSUME NEW p, NEW c \in Colors,
         NEW dir \in {Up(c) + Left(c), Up(c) - Left(c)},
         NEW pawns, pawns \subseteq Square, pawns \subseteq ColorPieceBB(p, c, PAWN),
         NEW to, to \in ShiftBB(dir, pawns)
  PROVE  SqAttacked(p, to, c)
<1>1. /\ dir \in {-9, -8, -7, 7, 8, 9} /\ dir \in Int
      /\ -dir \in PSteps[Other(c)]
  BY PawnDirections
<1>2. /\ to \in Square /\ to - dir \in pawns /\ to - dir \in Square
      /\ to \in LandingSquareBB(to - dir, dir)
  BY <1>1, PawnShift
<1>3. to - dir \in LandingSquareBB(to, -dir)
  BY <1>1, <1>2, LandingBack
<1>4. Other(c) \in Colors
  BY OtherFacts
<1>5. PawnAttacks[Other(c)][to] = UNION {LandingSquareBB(to, step) : step \in PSteps[Other(c)]}
  BY <1>2, <1>4, Zenon DEF PawnAttacks, Colors
<1>6. to - dir \in PawnAttacks[Other(c)][to]
  BY <1>1, <1>3, <1>5
<1>7. to - dir \in p.colorBB[c] \cap UNION {p.pieceBB[t] : t \in {PAWN}}
  BY <1>2 DEF ColorPieceBB
<1> QED
  BY <1>6, <1>7 DEF SqAttacked

\* A move of a piece or pawn to an empty square, or to an attacked enemy.
LEMMA PlainMoveOk ==
  ASSUME NEW p, Good(p), NEW from \in Square, NEW to \in Square, to # from,
         p.board[from] \in Pieces, ColorOf(p.board[from]) = p.stm,
         \/ p.board[to] = EMPTY
         \/ to \in p.colorBB[Other(p.stm)] /\ SqAttacked(p, to, p.stm),
         NEW promo,
         promo # EMPTY =>
           /\ p.board[from] = MakePiece(p.stm, PAWN)
           /\ promo \in Pieces /\ ColorOf(promo) = p.stm
           /\ PieceTypeOf(promo) # KING
  PROVE  MoveOk(p, AddMove(p, from, to, promo, "none"))
<1> DEFINE m == AddMove(p, from, to, promo, "none")
<1>1. /\ m.from = from /\ m.to = to /\ m.capt = p.board[to]
      /\ m.promo = promo /\ m.flag = "none" /\ IsMove(m)
  BY DEF AddMove, MOVE, IsMove
<1> HIDE DEF m
<1>2. /\ Sound(p) /\ p.stm \in Colors /\ Other(p.stm) \in Colors
      /\ \A s \in Square : p.board[s] # EMPTY => p.board[s] \in Pieces
  BY PositionParts, OtherFacts DEF Good, Sound
<1>3. p.board[from] # EMPTY
  BY PieceFacts
<1>4. ASSUME p.board[to] # EMPTY
      PROVE  /\ ColorOf(p.board[to]) = Other(p.stm)
             /\ PieceTypeOf(p.board[to]) # KING
  <2>1. to \in p.colorBB[Other(p.stm)] /\ SqAttacked(p, to, p.stm)
    BY <1>4
  <2>2. ColorOf(p.board[to]) = Other(p.stm)
    BY <1>2, <2>1, OnBoard
  <2>3. p.board[to] # MakePiece(Other(p.stm), KING)
    BY <2>1, NotTheKing
  <2>4. p.board[to] = MakePiece(ColorOf(p.board[to]), PieceTypeOf(p.board[to]))
    BY <1>2, <1>4, PieceFacts
  <2> QED
    BY <2>2, <2>3, <2>4
<1>5. MoveOk(p, m)
  BY <1>1, <1>3, <1>4 DEF MoveOk
<1> QED
  BY <1>5 DEF m

LEMMA PieceMoveOk ==
  ASSUME NEW p, Good(p), NEW type \in {"noisy", "quiet"}, NEW pt \in KNIGHT..KING,
         NEW m \in GenPieceType(p, p.stm, type, pt)
  PROVE  MoveOk(p, m)
<1> DEFINE targets == IF type = "noisy" THEN p.colorBB[Other(p.stm)]
                                        ELSE Square \ p.pieceBB[ALL]
           reached(from) == targets \cap AttackBB(pt, from, p.pieceBB[ALL])
<1>1. m \in UNION {{AddMove(p, from, to, EMPTY, "none") : to \in reached(from)} :
                     from \in ColorPieceBB(p, p.stm, pt)}
  BY Zenon DEF GenPieceType
<1> HIDE DEF reached
<1>2. PICK from \in ColorPieceBB(p, p.stm, pt) :
         \E to \in reached(from) : m = AddMove(p, from, to, EMPTY, "none")
  BY <1>1
<1>3. PICK to \in reached(from) : m = AddMove(p, from, to, EMPTY, "none")
  BY <1>2
<1>4. to \in targets /\ to \in AttackBB(pt, from, p.pieceBB[ALL])
  BY <1>3 DEF reached
<1>5. Sound(p) /\ p.stm \in Colors /\ Other(p.stm) \in Colors /\ pt \in PAWN..KING
  BY PositionParts, OtherFacts DEF Good, Sound, KNIGHT, PAWN, KING
<1>6. from \in Square /\ p.board[from] = MakePiece(p.stm, pt)
  BY <1>2, <1>5, OnBoard
<1>7. p.board[from] \in Pieces /\ ColorOf(p.board[from]) = p.stm
  BY <1>5, <1>6, MakePieceFacts
<1>8. to \in Square /\ to # from /\ SqAttacked(p, to, p.stm)
  BY <1>2, <1>4, <1>5, <1>6, PieceAttacks
<1>9. \/ p.board[to] = EMPTY
      \/ to \in p.colorBB[Other(p.stm)] /\ SqAttacked(p, to, p.stm)
  BY <1>4, <1>5, <1>8, OnBoard
<1> QED
  BY <1>3, <1>6, <1>7, <1>8, <1>9, PlainMoveOk

LEMMA PromotionsOk ==
  ASSUME NEW p, Good(p), NEW type, NEW from \in ColorPieceBB(p, p.stm, PAWN),
         NEW to \in Square, to # from,
         \/ p.board[to] = EMPTY
         \/ to \in p.colorBB[Other(p.stm)] /\ SqAttacked(p, to, p.stm),
         NEW m \in AddPromotions(p, from, to, p.stm, type)
  PROVE  MoveOk(p, m)
<1> DEFINE types == IF type = "noisy" THEN {QUEEN} ELSE {KNIGHT, ROOK, BISHOP}
<1>1. m \in {AddMove(p, from, to, MakePiece(p.stm, pt), "none") : pt \in types}
  BY Zenon DEF AddPromotions
<1>2. \A pt \in types : pt \in PAWN..KING /\ pt # KING
  BY DEF QUEEN, KNIGHT, ROOK, BISHOP, PAWN, KING
<1> HIDE DEF types
<1>3. PICK pt \in types : m = AddMove(p, from, to, MakePiece(p.stm, pt), "none")
  BY <1>1
<1>4. Sound(p) /\ p.stm \in Colors /\ PAWN \in PAWN..KING
  BY PositionParts DEF Good, Sound, PAWN, KING
<1>5. from \in Square /\ p.board[from] = MakePiece(p.stm, PAWN)
  BY <1>4, OnBoard
<1>6. p.board[from] \in Pieces /\ ColorOf(p.board[from]) = p.stm
  BY <1>4, <1>5, MakePieceFacts
<1>7. /\ MakePiece(p.stm, pt) \in Pieces /\ ColorOf(MakePiece(p.stm, pt)) = p.stm
      /\ PieceTypeOf(MakePiece(p.stm, pt)) # KING
  BY <1>2, <1>4, MakePieceFacts
<1> QED
  BY <1>3, <1>5, <1>6, <1>7, PlainMoveOk

LEMMA StartOk ==
  ASSUME NEW p, Good(p), NEW from \in ColorPieceBB(p, p.stm, PAWN),
         NEW to \in Square, from = to - Up(p.stm) * 2, p.board[to] = EMPTY,
         to - Up(p.stm) \in Square, p.board[to - Up(p.stm)] = EMPTY,
         RelativeRank(p.stm, RankOf(to)) = 3
  PROVE  MoveOk(p, AddMove(p, from, to, EMPTY, "pstart"))
<1> DEFINE m == AddMove(p, from, to, EMPTY, "pstart")
<1>1. /\ m.from = from /\ m.to = to /\ m.capt = p.board[to]
      /\ m.promo = EMPTY /\ m.flag = "pstart" /\ IsMove(m)
  BY DEF AddMove, MOVE, IsMove
<1> HIDE DEF m
<1>2. Sound(p) /\ p.stm \in Colors /\ PAWN \in PAWN..KING
  BY PositionParts DEF Good, Sound, PAWN, KING
<1>3. from \in Square /\ p.board[from] = MakePiece(p.stm, PAWN)
  BY <1>2, OnBoard
<1>4. p.board[from] \in Pieces /\ ColorOf(p.board[from]) = p.stm
  BY <1>2, <1>3, MakePieceFacts
<1>5. from # to /\ Xor8(to) = to - Up(p.stm)
  BY <1>2 DEF Up, NORTH, Xor8, RankOf, RelativeRank, Square, Colors, WHITE, BLACK
<1>6. p.board[from] # EMPTY
  BY <1>4, PieceFacts
<1>7. MoveOk(p, m)
  BY <1>1, <1>3, <1>4, <1>5, <1>6 DEF MoveOk
<1> QED
  BY <1>7 DEF m

LEMMA EnPassantOk ==
  ASSUME NEW p, Good(p), NEW from \in ColorPieceBB(p, p.stm, PAWN), p.epSquare # 0
  PROVE  MoveOk(p, AddMove(p, from, p.epSquare, EMPTY, "enpas"))
<1> DEFINE m == AddMove(p, from, p.epSquare, EMPTY, "enpas")
<1>1. /\ m.from = from /\ m.to = p.epSquare /\ m.capt = p.board[p.epSquare]
      /\ m.promo = EMPTY /\ m.flag = "enpas" /\ IsMove(m)
  BY DEF AddMove, MOVE, IsMove
<1> HIDE DEF m
<1>2. /\ Sound(p) /\ p.stm \in Colors /\ p.epSquare \in Square /\ PAWN \in PAWN..KING
      /\ p.board[p.epSquare] = EMPTY
  BY PositionParts DEF Good, Sound, PositionType, EpOk, PAWN, KING
<1>3. from \in Square /\ p.board[from] = MakePiece(p.stm, PAWN)
  BY <1>2, OnBoard
<1>4. p.board[from] \in Pieces /\ ColorOf(p.board[from]) = p.stm
  BY <1>2, <1>3, MakePieceFacts
<1>5. p.board[from] # EMPTY
  BY <1>4, PieceFacts
<1>6. MoveOk(p, m)
  BY <1>1, <1>2, <1>3, <1>4, <1>5 DEF MoveOk
<1> QED
  BY <1>6 DEF m

LEMMA PawnMoveOk ==
  ASSUME NEW p, Good(p), NEW type \in {"noisy", "quiet"},
         NEW m \in GenPawn(p, p.stm, type)
  PROVE  MoveOk(p, m)
<1> DEFINE c       == p.stm
           up      == Up(c)
           steps   == {up + Left(c), up - Left(c)}
           empty   == Square \ p.pieceBB[ALL]
           enemies == p.colorBB[Other(c)]
           pawns   == ColorPieceBB(p, c, PAWN)
           on7th   == {sq \in pawns : RelativeRank(c, RankOf(sq)) = 6}
           not7th  == pawns \ on7th
           pawnMoves  == empty \cap ShiftBB(up, not7th)
           pawnStarts == {to \in empty \cap ShiftBB(up, pawnMoves) :
                            RelativeRank(c, RankOf(to)) = 3}
           Forward    == {AddMove(p, to - up, to, EMPTY, "none") : to \in pawnMoves}
           Starts     == {AddMove(p, to - up * 2, to, EMPTY, "pstart") :
                            to \in pawnStarts}
           Ahead == UNION {AddPromotions(p, to - up, to, c, type) :
                             to \in empty \cap ShiftBB(up, on7th)}
           Aside(step) == UNION {AddPromotions(p, to - step, to, c, type) :
                                   to \in enemies \cap ShiftBB(step, on7th)}
           Captures(step) == {AddMove(p, to - step, to, EMPTY, "none") :
                                to \in enemies \cap ShiftBB(step, not7th)}
           from == IF p.epSquare = 0 THEN {}
                   ELSE not7th \cap PawnAttacks[Other(c)][p.epSquare]
           EnPassers == {AddMove(p, f, p.epSquare, EMPTY, "enpas") : f \in from}
<1>1. \/ m \in Forward \/ m \in Starts \/ m \in Ahead \/ m \in EnPassers
      \/ m \in UNION {Aside(step) : step \in steps}
      \/ m \in UNION {Captures(step) : step \in steps}
  <2> DEFINE Asides == UNION {Aside(step) : step \in steps}
             Struck  == UNION {Captures(step) : step \in steps}
  <2>1. GenPawn(p, c, type) =
          IF type = "quiet" THEN Forward \cup Starts \cup (Ahead \cup Asides)
                            ELSE (Ahead \cup Asides) \cup Struck \cup EnPassers
    BY Zenon DEF GenPawn
  <2>2. m \in GenPawn(p, c, type)
    OBVIOUS
  <2> HIDE DEF Forward, Starts, Ahead, EnPassers, Asides, Struck
  <2>3. m \in Forward \/ m \in Starts \/ m \in Ahead \/ m \in EnPassers
        \/ m \in Asides \/ m \in Struck
    BY <2>1, <2>2
  <2> QED
    BY <2>3 DEF Asides, Struck
<1>2. /\ Sound(p) /\ c \in Colors /\ Other(c) \in Colors /\ PAWN \in PAWN..KING
  BY PositionParts, OtherFacts DEF Good, Sound, PAWN, KING
<1>3. /\ up \in {-8, 8} /\ up \in {-9, -8, -7, 7, 8, 9} /\ steps \subseteq {-9, -7, 7, 9}
      /\ steps \subseteq {-9, -8, -7, 7, 8, 9}
  BY <1>2, PawnDirections
<1>4. \A sq \in pawns : /\ sq \in Square /\ p.board[sq] \in Pieces
                        /\ ColorOf(p.board[sq]) = c
                        /\ p.board[sq] = MakePiece(c, PAWN)
  BY <1>2, OnBoard, MakePieceFacts
<1>5. \A sq \in empty : sq \in Square /\ p.board[sq] = EMPTY
  BY <1>2, OnBoard
<1>6. /\ on7th \subseteq pawns /\ not7th \subseteq pawns
      /\ on7th \subseteq Square /\ not7th \subseteq Square
  BY <1>4
<1> HIDE DEF up, steps, pawns, on7th, not7th, empty
<1>7. CASE m \in Forward
  <2>1. PICK to \in pawnMoves : m = AddMove(p, to - up, to, EMPTY, "none")
    BY <1>7
  <2> HIDE DEF Forward, Starts, Ahead, EnPassers, Aside, Captures
  <2>2. to \in empty /\ to \in ShiftBB(up, not7th)
    BY <2>1
  <2>3. to \in Square /\ to - up \in not7th /\ to - up # to
    BY <1>3, <1>6, <2>2, PawnShift
  <2>4. /\ to - up \in Square /\ p.board[to - up] \in Pieces
        /\ ColorOf(p.board[to - up]) = p.stm /\ p.board[to] = EMPTY /\ to # to - up
    BY <1>4, <1>5, <1>6, <2>2, <2>3
  <2> QED
    BY <2>1, <2>3, <2>4, PlainMoveOk
<1>8. CASE m \in Starts
  <2>1. PICK to \in pawnStarts : m = AddMove(p, to - up * 2, to, EMPTY, "pstart")
    BY <1>8
  <2> HIDE DEF Forward, Starts, Ahead, EnPassers, Aside, Captures
  <2>2. /\ to \in empty /\ to \in ShiftBB(up, pawnMoves)
        /\ RelativeRank(p.stm, RankOf(to)) = 3
    BY <2>1
  <2>3. pawnMoves \subseteq Square
    BY <1>5
  <2>4. to \in Square /\ to - up \in pawnMoves
    BY <1>3, <2>2, <2>3, PawnShift
  <2>5. to - up \in empty /\ to - up \in ShiftBB(up, not7th)
    BY <2>4
  <2>6. to - up - up \in not7th
    BY <1>3, <1>6, <2>5, PawnShift
  <2>7. to - up - up = to - up * 2
    BY <1>3, <2>4 DEF Square
  <2>8. to - up * 2 \in pawns
    BY <1>6, <2>6, <2>7
  <2>9. p.board[to] = EMPTY /\ to - up \in Square /\ p.board[to - up] = EMPTY
    BY <1>5, <2>2, <2>5
  <2> DEFINE f == to - up * 2
  <2>10. MoveOk(p, AddMove(p, f, to, EMPTY, "pstart"))
    <3>1. f \in ColorPieceBB(p, p.stm, PAWN) /\ f = to - Up(p.stm) * 2
      BY <2>8 DEF pawns, up
    <3>2. to - Up(p.stm) \in Square /\ p.board[to - Up(p.stm)] = EMPTY
      BY <2>9 DEF up
    <3> HIDE DEF f
    <3> QED
      BY <2>2, <2>4, <2>9, <3>1, <3>2, StartOk
  <2> QED
    BY <2>1, <2>10
<1>9. CASE m \in Ahead
  <2>1. PICK to \in empty \cap ShiftBB(up, on7th) :
               m \in AddPromotions(p, to - up, to, c, type)
    BY <1>9
  <2> HIDE DEF Forward, Starts, Ahead, EnPassers, Aside, Captures
  <2>2. to \in Square /\ to - up \in on7th /\ to - up # to
    BY <1>3, <1>6, <2>1, PawnShift
  <2>3. /\ to - up \in ColorPieceBB(p, p.stm, PAWN) /\ p.board[to] = EMPTY
        /\ to # to - up
    BY <1>5, <1>6, <2>1, <2>2 DEF pawns
  <2> QED
    BY <2>1, <2>2, <2>3, PromotionsOk
<1>10. CASE m \in EnPassers
  <2>1. PICK f \in from : m = AddMove(p, f, p.epSquare, EMPTY, "enpas")
    BY <1>10
  <2> HIDE DEF Forward, Starts, Ahead, EnPassers, Aside, Captures
  <2>2. p.epSquare # 0 /\ f \in not7th
    BY <2>1
  <2>3. f \in ColorPieceBB(p, p.stm, PAWN)
    BY <1>6, <2>2 DEF pawns
  <2> QED
    BY <2>1, <2>2, <2>3, EnPassantOk
<1>11. CASE m \in UNION {Aside(step) : step \in steps}
  <2>1. PICK step \in steps : m \in Aside(step)
    BY <1>11
  <2>2. PICK to \in enemies \cap ShiftBB(step, on7th) :
               m \in AddPromotions(p, to - step, to, c, type)
    BY <2>1
  <2> HIDE DEF Forward, Starts, Ahead, EnPassers, Aside, Captures
  <2>3. to \in Square /\ to - step \in on7th /\ to - step # to
    BY <1>3, <1>6, <2>2, PawnShift
  <2>4. SqAttacked(p, to, c)
    <3>1. step \in {Up(c) + Left(c), Up(c) - Left(c)}
      BY DEF steps, up
    <3> QED
      BY <1>2, <1>6, <2>2, <3>1, PawnHits DEF pawns
  <2>5. /\ to - step \in ColorPieceBB(p, p.stm, PAWN) /\ to # to - step
        /\ to \in p.colorBB[Other(p.stm)]
    BY <1>6, <2>2, <2>3 DEF pawns
  <2> QED
    BY <2>2, <2>3, <2>4, <2>5, PromotionsOk
<1>12. CASE m \in UNION {Captures(step) : step \in steps}
  <2>1. PICK step \in steps : m \in Captures(step)
    BY <1>12
  <2>2. PICK to \in enemies \cap ShiftBB(step, not7th) :
               m = AddMove(p, to - step, to, EMPTY, "none")
    BY <2>1
  <2> HIDE DEF Forward, Starts, Ahead, EnPassers, Aside, Captures
  <2>3. to \in Square /\ to - step \in not7th /\ to - step # to
    BY <1>3, <1>6, <2>2, PawnShift
  <2>4. SqAttacked(p, to, c)
    <3>1. step \in {Up(c) + Left(c), Up(c) - Left(c)}
      BY DEF steps, up
    <3> QED
      BY <1>2, <1>6, <2>2, <3>1, PawnHits DEF pawns
  <2>5. /\ to - step \in Square /\ p.board[to - step] \in Pieces
        /\ ColorOf(p.board[to - step]) = p.stm /\ to # to - step
        /\ to \in p.colorBB[Other(p.stm)]
    BY <1>4, <1>6, <2>2, <2>3
  <2> QED
    BY <2>2, <2>3, <2>4, <2>5, PlainMoveOk
<1> QED
  BY <1>1, <1>7, <1>8, <1>9, <1>10, <1>11, <1>12

\* A rook sees the squares of its rank up to a piece.
LEMMA RankRay ==
  ASSUME NEW a \in Square, NEW b \in Square, NEW step \in {-1, 1}, NEW n \in 1..7,
         b = a + n * step, RankOf(a) = RankOf(b), NEW i \in 1..n
  PROVE  a + i * step \in AttackBB(ROOK, a, {b})
<1>1. /\ step \in RSteps \cup BSteps /\ step \in RSteps /\ step \in Int
      /\ n \in Int /\ i \in Int /\ i \in 1..7
  BY DEF RSteps
<1>2. \A j \in 0..(n - 1) :
        /\ a + j * step \in Square
        /\ a + j * step + step \in Square
        /\ Distance(a + j * step, a + j * step + step) <= 2
  <2>1. CASE step = 1
    BY <2>1 DEF Square, Distance, RankOf, FileOf
  <2>2. CASE step = -1
    BY <2>2 DEF Square, Distance, RankOf, FileOf
  <2> QED
    BY <2>1, <2>2
<1>3. i \in StepsFrom[a][step]
  <2>1. StepsFrom[a][step] = {k \in 1..7 : \A j \in 0..(k - 1) :
                                /\ a + j * step \in Square
                                /\ LandingSquareBB(a + j * step, step) # {}}
    BY <1>1, Zenon DEF StepsFrom
  <2>2. ASSUME NEW j \in 0..(i - 1)
        PROVE  a + j * step \in Square /\ LandingSquareBB(a + j * step, step) # {}
    <3>1. j \in 0..(n - 1)
      OBVIOUS
    <3> DEFINE s == a + j * step
    <3>2. s \in Square /\ s + step \in Square /\ Distance(s, s + step) <= 2
      BY <1>2, <3>1
    <3> HIDE DEF s
    <3>3. s + step \in LandingSquareBB(s, step)
      BY <1>1, <3>2, Landing
    <3> QED
      BY <3>2, <3>3 DEF s
  <2> QED
    BY <1>1, <2>1, <2>2
<1>4. \A j \in 1..(i - 1) : a + j * step \notin {b}
  <2>1. CASE step = 1
    BY <2>1 DEF Square
  <2>2. CASE step = -1
    BY <2>2 DEF Square
  <2> QED
    BY <2>1, <2>2
<1>5. a + i * step \in MakeSliderAttackBB(a, {b}, RSteps)
  BY <1>1, <1>3, <1>4, SliderAttack
<1> QED
  BY <1>5 DEF AttackBB, BISHOP, ROOK, QUEEN

LEMMA Between ==
  ASSUME NEW a \in Square, NEW b \in Square, NEW step \in {-1, 1}, NEW n \in 2..7,
         b = a + n * step, RankOf(a) = RankOf(b), NEW i \in 1..(n - 1)
  PROVE  a + i * step \in BetweenBB(a, b)
<1>1. /\ n \in 1..7 /\ n \in 1..n /\ i \in 1..n /\ n - i \in 1..n
  OBVIOUS
<1>2. b \in AttackBB(ROOK, a, {b}) /\ a + i * step \in AttackBB(ROOK, a, {b})
  BY <1>1, RankRay
<1>3. PICK back \in {-1, 1} :
        a = b + n * back /\ a + i * step = b + (n - i) * back
  <2>1. CASE step = 1
    <3>1. a = b + n * (-1) /\ a + i * step = b + (n - i) * (-1)
      BY <2>1 DEF Square
    <3> QED
      BY <3>1
  <2>2. CASE step = -1
    <3>1. a = b + n * 1 /\ a + i * step = b + (n - i) * 1
      BY <2>2 DEF Square
    <3> QED
      BY <3>1
  <2> QED
    BY <2>1, <2>2
<1>4. b + (n - i) * back \in AttackBB(ROOK, b, {a})
  BY <1>1, <1>3, RankRay
<1> DEFINE common == AttackBB(ROOK, a, {b}) \cap AttackBB(ROOK, b, {a})
<1>5. a + i * step \in common
  BY <1>2, <1>3, <1>4
<1>6. (IF b \in AttackBB(ROOK, a, {b}) THEN common ELSE {}) = common
  BY <1>2
<1>7. (IF b \in AttackBB(ROOK, a, {b}) THEN common ELSE {}) \in
        {IF b \in AttackBB(pt, a, {b})
         THEN AttackBB(pt, a, {b}) \cap AttackBB(pt, b, {a})
         ELSE {} : pt \in {BISHOP, ROOK}}
  BY Zenon
<1> HIDE DEF common
<1>8. common \subseteq BetweenBB(a, b)
  BY <1>6, <1>7, Zenon DEF BetweenBB
<1> QED
  BY <1>5, <1>8

\* The squares between a king and the rooks in their corners.
LEMMA CastlingLane ==
  ASSUME NEW us \in Colors, NEW king, king = (IF us = WHITE THEN E1 ELSE E8)
  PROVE  /\ king + 1 \in BetweenBB(king, king + 3)
         /\ king + 2 \in BetweenBB(king, king + 3)
         /\ king - 1 \in BetweenBB(king, king - 4)
         /\ king - 2 \in BetweenBB(king, king - 4)
<1>1. /\ king \in Square /\ king + 3 \in Square /\ king - 4 \in Square
      /\ RankOf(king) = RankOf(king + 3) /\ RankOf(king) = RankOf(king - 4)
      /\ king \in Int
  BY DEF Square, RankOf, E1, E8
<1>2. ASSUME NEW i \in {1, 2}
      PROVE  king + i * 1 \in BetweenBB(king, king + 3)
  <2>1. /\ 1 \in {-1, 1} /\ 3 \in 2..7 /\ i \in 1..(3 - 1) /\ king + 3 = king + 3 * 1
    BY <1>1
  <2> QED
    BY <1>1, <2>1, Between
<1>3. ASSUME NEW i \in {1, 2}
      PROVE  king + i * (-1) \in BetweenBB(king, king - 4)
  <2>1. /\ -1 \in {-1, 1} /\ 4 \in 2..7 /\ i \in 1..(4 - 1)
        /\ king - 4 = king + 4 * (-1)
    BY <1>1
  <2> QED
    BY <1>1, <2>1, Between
<1>4. /\ king + 1 = king + 1 * 1 /\ king + 2 = king + 2 * 1
      /\ king - 1 = king + 1 * (-1) /\ king - 2 = king + 2 * (-1)
  BY <1>1
<1>5. 1 \in {1, 2} /\ 2 \in {1, 2}
  OBVIOUS
<1>6. king + 1 * 1 \in BetweenBB(king, king + 3) /\ king + 2 * 1 \in BetweenBB(king, king + 3)
  BY <1>2, <1>5
<1>7. king + 1 * (-1) \in BetweenBB(king, king - 4) /\ king + 2 * (-1) \in BetweenBB(king, king - 4)
  BY <1>3, <1>5
<1> QED
  BY <1>4, <1>6, <1>7

LEMMA CastlingOk ==
  ASSUME NEW p, Good(p), NEW type, NEW m \in GenCastling(p, p.stm, type)
  PROVE  MoveOk(p, m)
<1> DEFINE us == p.stm
           king == IF us = WHITE THEN E1 ELSE E8
           sides == {s \in {OO, OOO} :
                       type = "quiet" /\ CastlePseudoLegal(p, us, s)}
           to(side) == IF side = OO THEN king + 2 ELSE king - 2
<1>1. m \in {AddMove(p, king, to(side), EMPTY, "castle") : side \in sides}
  BY Zenon DEF GenCastling
<1>2. PICK side \in {OO, OOO} :
        /\ m = AddMove(p, king, to(side), EMPTY, "castle")
        /\ CastlePseudoLegal(p, us, side)
  BY <1>1
<1>3. /\ m.from = king /\ m.to = to(side) /\ m.capt = p.board[to(side)]
      /\ m.promo = EMPTY /\ m.flag = "castle" /\ IsMove(m)
  BY <1>2 DEF AddMove, MOVE, IsMove
<1> DEFINE rook == IF side = OO THEN king + 3 ELSE king - 4
           midway == IF side = OO THEN king + 1 ELSE king - 1
<1>4. /\ p.castlingRights \cap side \cap CastleOf(us) # {}
      /\ p.pieceBB[ALL] \cap BetweenBB(king, rook) = {}
  BY <1>2, Zenon DEF CastlePseudoLegal
<1>5. /\ Sound(p) /\ us \in Colors /\ RightsOk(p.board, p.castlingRights)
  BY PositionParts DEF Good, Sound
<1>6. OO # OOO
  BY DEF OO, OOO, WHITE_OO, WHITE_OOO, BLACK_OO, BLACK_OOO
<1>7. /\ p.board[king] = MakePiece(us, KING) /\ p.board[rook] = MakePiece(us, ROOK)
  BY <1>4, <1>5 DEF RightsOk, CastleOf, OO, OOO, WHITE_OO, WHITE_OOO, BLACK_OO,
     BLACK_OOO, Colors, WHITE, BLACK, E1, E8, A1, H1, A8, H8
<1>8. /\ king \in Square /\ to(side) \in Square /\ midway \in Square
      /\ king # to(side)
      /\ to(side) \in (IF us = WHITE THEN {C1, G1} ELSE {C8, G8})
      /\ RookFrom(to(side)) = rook /\ RookTo(to(side)) = midway
  BY <1>2, <1>5, <1>6 DEF Square, RookFrom, RookTo, Colors, WHITE, BLACK, A1, C1, D1,
     E1, F1, G1, H1, A8, C8, D8, E8, F8, G8, H8
<1>9. to(side) \in BetweenBB(king, rook) /\ midway \in BetweenBB(king, rook)
  <2>1. /\ king + 1 \in BetweenBB(king, king + 3)
        /\ king + 2 \in BetweenBB(king, king + 3)
        /\ king - 1 \in BetweenBB(king, king - 4)
        /\ king - 2 \in BetweenBB(king, king - 4)
    BY <1>5, CastlingLane
  <2> HIDE DEF king
  <2>2. CASE side = OO
    BY <2>1, <2>2
  <2>3. CASE side = OOO
    BY <1>6, <2>1, <2>3
  <2> QED
    BY <2>2, <2>3
<1> HIDE DEF king, rook, midway, to
<1>10. p.board[to(side)] = EMPTY /\ p.board[midway] = EMPTY
  BY <1>4, <1>5, <1>8, <1>9, OnBoard
<1>11. p.board[king] # EMPTY /\ ColorOf(p.board[king]) = us
  <2>1. KING \in PAWN..KING
    BY DEF PAWN, KING
  <2> QED
    BY <1>5, <1>7, <2>1, MakePieceFacts, PieceFacts
<1> QED
  BY <1>3, <1>7, <1>8, <1>10, <1>11 DEF MoveOk, king

\* Every generated move is one MakeMove is written for: a piece of the side to
\* move leaves its square, what is captured is what stands there and no king,
\* pawn starts pass an empty square, en passant goes to the square that is
\* set, castling finds king and rook at home.
THEOREM GeneratedOk ==
  ASSUME NEW p, Good(p), NEW m \in GenNoisyMoves(p) \cup GenQuietMoves(p)
  PROVE  MoveOk(p, m)
<1>1. ASSUME NEW type \in {"noisy", "quiet"}, m \in GenMoves(p, p.stm, type)
      PROVE  MoveOk(p, m)
  <2>1. \/ m \in GenCastling(p, p.stm, type) \/ m \in GenPawn(p, p.stm, type)
        \/ \E pt \in KNIGHT..KING : m \in GenPieceType(p, p.stm, type, pt)
    BY <1>1 DEF GenMoves
  <2> QED
    BY <2>1, CastlingOk, PawnMoveOk, PieceMoveOk
<1> QED
  BY <1>1 DEF GenNoisyMoves, GenQuietMoves

-----------------------------------------------------------------------------
(* The position set up.                                                    *)

LEMMA Smallest ==
  ASSUME NEW T \in SUBSET Nat, T # {}
  PROVE  \E n \in T : \A l \in T : n <= l
<1> DEFINE R == {ss \in Nat \X Nat : ss[1] < ss[2]}
<1>1. IsWellFoundedOn(R, Nat)
  BY NatLessThanWellFounded DEF OpToRel
<1> HIDE DEF R
<1>2. PICK n \in T : \A l \in T : ~ (<<l, n>> \in R)
  BY <1>1, WFMin
<1>3. \A l \in T : ~ (l < n)
  BY <1>2 DEF R
<1> QED
  BY <1>3

\* The sums up to n.
Summing(v, h, n) ==
  /\ h \in [0..n -> Int]
  /\ \A i \in 0..n : h[i] = IF i = 0 THEN 0 ELSE h[i - 1] + v[i - 1]

LEMMA SumsExist ==
  ASSUME NEW v \in [Square -> Int], NEW k \in 0..64
  PROVE  \E h : Summing(v, h, k)
<1> SUFFICES ASSUME ~ \E h : Summing(v, h, k)
             PROVE  FALSE
  OBVIOUS
<1> DEFINE T == {n \in Nat : n <= 64 /\ ~ \E h : Summing(v, h, n)}
<1>1. k \in T
  OBVIOUS
<1>2. PICK n \in T : \A l \in T : n <= l
  <2>1. T \in SUBSET Nat /\ T # {}
    BY <1>1
  <2> HIDE DEF T
  <2> QED
    BY <2>1, Smallest
<1>3. n \in Nat /\ n <= 64 /\ ~ \E h : Summing(v, h, n)
  BY <1>2
<1>4. CASE n = 0
  <2> DEFINE h == [i \in 0..0 |-> 0]
  <2>1. h \in [0..0 -> Int] /\ \A i \in 0..0 : h[i] = 0 /\ i = 0
    OBVIOUS
  <2> HIDE DEF h
  <2>2. Summing(v, h, 0)
    BY <2>1 DEF Summing
  <2> QED
    BY <1>3, <1>4, <2>2
<1>5. CASE n # 0
  <2>1. n - 1 \in Nat /\ n - 1 \notin T
    BY <1>2, <1>3, <1>5
  <2>2. PICK g : Summing(v, g, n - 1)
    BY <1>3, <2>1
  <2>3. /\ g \in [0..(n - 1) -> Int]
        /\ \A i \in 0..(n - 1) : g[i] = IF i = 0 THEN 0 ELSE g[i - 1] + v[i - 1]
    BY <2>2 DEF Summing
  <2> DEFINE h == [i \in 0..n |-> IF i = n THEN g[n - 1] + v[n - 1] ELSE g[i]]
  <2>4. n - 1 \in Square /\ v[n - 1] \in Int /\ n - 1 \in 0..(n - 1) /\ g[n - 1] \in Int
    <3>1. n - 1 \in Square /\ n - 1 \in 0..(n - 1)
      BY <1>3, <1>5 DEF Square
    <3> QED
      BY <2>3, <3>1
  <2>5. h \in [0..n -> Int]
    <3>1. \A i \in 0..n : i # n => i \in 0..(n - 1)
      BY <1>3
    <3> QED
      BY <2>3, <2>4, <3>1
  <2>6. /\ h[n] = g[n - 1] + v[n - 1]
        /\ \A i \in 0..(n - 1) : i \in 0..n /\ h[i] = g[i]
    BY <1>3
  <2> HIDE DEF h
  <2>7. ASSUME NEW i \in 0..n
        PROVE  h[i] = IF i = 0 THEN 0 ELSE h[i - 1] + v[i - 1]
    <3>1. CASE i = n
      <4>1. h[n - 1] = g[n - 1]
        BY <2>4, <2>6
      <4> QED
        BY <1>5, <2>6, <3>1, <4>1
    <3>2. CASE i # n
      <4>1. i \in 0..(n - 1) /\ (i # 0 => i - 1 \in 0..(n - 1))
        BY <1>3, <3>2
      <4> QED
        BY <2>3, <2>6, <4>1
    <3> QED
      BY <3>1, <3>2
  <2>8. Summing(v, h, n)
    BY <2>5, <2>7 DEF Summing
  <2> QED
    BY <1>3, <2>8
<1> QED
  BY <1>4, <1>5

LEMMA SquareSums ==
  ASSUME NEW v \in [Square -> Int]
  PROVE  \E h : Summing(v, h, 64) /\ h[64] = SquareSum(v)
<1> DEFINE sum[n \in 0..64] == IF n = 0 THEN 0 ELSE sum[n - 1] + v[n - 1]
           Sums(g) == [n \in 0..64 |-> IF n = 0 THEN 0 ELSE g[n - 1] + v[n - 1]]
<1>1. SquareSum(v) = sum[64]
  BY Zenon DEF SquareSum
<1>2. sum = CHOOSE g : g = Sums(g)
  BY Zenon
<1>3. PICK h : Summing(v, h, 64)
  BY SumsExist
<1>4. h \in [0..64 -> Int] /\ \A i \in 0..64 : h[i] = Sums(h)[i]
  BY <1>3 DEF Summing
<1>5. h = Sums(h)
  BY <1>4
<1> HIDE DEF sum, Sums
<1>6. sum = Sums(sum)
  BY <1>2, <1>5
<1>7. \A n \in 0..64 : sum[n] = IF n = 0 THEN 0 ELSE sum[n - 1] + v[n - 1]
  BY <1>6, Zenon DEF Sums
<1> DEFINE T == {n \in Nat : n <= 64 /\ sum[n] \notin Int}
<1>8. ASSUME T # {}
      PROVE  FALSE
  <2>1. PICK n \in T : \A l \in T : n <= l
    <3>1. T \in SUBSET Nat
      OBVIOUS
    <3> HIDE DEF T
    <3> QED
      BY <1>8, <3>1, Smallest
  <2>2. n \in Nat /\ n <= 64 /\ sum[n] \notin Int
    BY <2>1
  <2>3. n # 0
    BY <1>7, <2>2
  <2>4. sum[n - 1] \in Int /\ v[n - 1] \in Int
    BY <2>1, <2>2, <2>3 DEF Square
  <2>5. sum[n] = sum[n - 1] + v[n - 1]
    <3>1. n \in 0..64
      BY <2>2
    <3> QED
      BY <1>7, <2>3, <3>1
  <2> QED
    BY <2>2, <2>4, <2>5
<1>9. \A n \in 0..64 : sum[n] \in Int
  BY <1>8
<1>10. \A n \in 0..64 : sum[n] = Sums(sum)[n]
  BY <1>7, Zenon DEF Sums
<1>11. sum \in [0..64 -> Int]
  <2>1. sum = [n \in 0..64 |-> sum[n]]
    BY <1>6, Zenon DEF Sums
  <2> QED
    BY <1>9, <2>1
<1>12. Summing(v, sum, 64)
  BY <1>7, <1>11 DEF Summing
<1> QED
  BY <1>1, <1>12

LEMMA SquareSumInt ==
  ASSUME NEW v \in [Square -> Int]
  PROVE  SquareSum(v) \in Int
<1>1. PICK h : Summing(v, h, 64) /\ h[64] = SquareSum(v)
  BY SquareSums
<1> QED
  BY <1>1 DEF Summing

NonKings(f) == {s \in DOMAIN f.board : PieceTypeOf(f.board[s]) # KING}
Precedes(s, sq) == \/ RankOf(s) > RankOf(sq)
                   \/ RankOf(s) = RankOf(sq) /\ s < sq
Earlier(f, sq) == {s \in NonKings(f) : Precedes(s, sq)}

LEMMA SquaresFinite ==
  ASSUME NEW T \in SUBSET Square
  PROVE  IsFiniteSet(T) /\ Cardinality(T) \in Nat
<1>1. IsFiniteSet(Square)
  <2>1. IsFiniteSet(0..63)
    BY FS_Interval, 0 \in Int, 63 \in Int
  <2> QED
    BY <2>1 DEF Square
<1> QED
  BY <1>1, FS_Subset, FS_CardinalityType

\* A set of squares without one of its elements is smaller.
LEMMA FewerSquares ==
  ASSUME NEW T \in SUBSET Square, NEW x \in T, NEW U, U \subseteq T \ {x}
  PROVE  Cardinality(U) < Cardinality(T)
<1>1. /\ IsFiniteSet(T) /\ Cardinality(T) \in Nat
      /\ IsFiniteSet(T \ {x}) /\ Cardinality(T \ {x}) \in Nat
  BY SquaresFinite
<1>2. Cardinality(T \ {x}) = Cardinality(T) - 1
  BY <1>1, FS_RemoveElement
<1>3. Cardinality(U) <= Cardinality(T \ {x})
  BY <1>1, FS_Subset
<1>4. Cardinality(U) \in Nat
  BY SquaresFinite
<1> QED
  BY <1>1, <1>2, <1>3, <1>4

LEMMA KingOrNot ==
  ASSUME NEW pc \in Pieces
  PROVE  /\ PieceTypeOf(pc) = KING <=> \E c \in Colors : pc = MakePiece(c, KING)
         /\ MakePiece(WHITE, KING) # MakePiece(BLACK, KING)
BY DEF Pieces, MakePiece, PieceTypeOf, Colors, WHITE, BLACK, PAWN, KING

LEMMA FenFacts ==
  ASSUME NEW f \in Fens
  PROVE  /\ f.plies \in Nat /\ f.rule50 \in Nat /\ f.stm \in Colors
         /\ DOMAIN f.board \subseteq Square
         /\ \A s \in DOMAIN f.board : f.board[s] \in Pieces
         /\ f.rights \subseteq OO \cup OOO /\ f.ep \in Square
         /\ \A c \in Colors : \E k \in DOMAIN f.board :
              \A s \in DOMAIN f.board : f.board[s] = MakePiece(c, KING) <=> s = k
         /\ Cardinality(NonKings(f)) <= 30
<1>1. /\ f.plies \in Nat /\ f.rule50 \in Nat /\ f.stm \in Colors
      /\ DOMAIN f.board \subseteq Square
      /\ \A s \in DOMAIN f.board : f.board[s] \in Pieces
      /\ f.rights \subseteq OO \cup OOO /\ f.ep \in Square
  BY PositionAssumption DEF Colors
<1>2. Cardinality(NonKings(f)) <= 30
  BY PositionAssumption, Zenon DEF NonKings
<1>3. ASSUME NEW c \in Colors
      PROVE  \E k \in DOMAIN f.board :
               \A s \in DOMAIN f.board : f.board[s] = MakePiece(c, KING) <=> s = k
  <2> DEFINE T == {s \in DOMAIN f.board : f.board[s] = MakePiece(c, KING)}
  <2>1. Cardinality(T) = 1
    BY PositionAssumption, Zenon DEF Colors
  <2>2. IsFiniteSet(T)
    BY <1>1, SquaresFinite
  <2>3. PICK k : T = {k}
    BY <2>1, <2>2, FS_Singleton
  <2>4. \A s \in DOMAIN f.board : f.board[s] = MakePiece(c, KING) <=> s = k
    BY <2>3
  <2>5. k \in DOMAIN f.board
    BY <2>3
  <2> QED
    BY <2>4, <2>5
<1> QED
  BY <1>1, <1>2, <1>3

LEMMA NumberGiven ==
  ASSUME NEW f \in Fens, NEW sq \in DOMAIN f.board
  PROVE  /\ f.board[sq] = MakePiece(WHITE, KING) =>
              NextPieceNumber(f, sq) = PIECE_NUMBER_WKING
         /\ f.board[sq] = MakePiece(BLACK, KING) =>
              NextPieceNumber(f, sq) = PIECE_NUMBER_BKING
         /\ PieceTypeOf(f.board[sq]) # KING =>
              /\ NextPieceNumber(f, sq) = Cardinality(Earlier(f, sq))
              /\ NextPieceNumber(f, sq) \in 0..29
         /\ NextPieceNumber(f, sq) \in PieceNumber
<1>1. /\ DOMAIN f.board \subseteq Square /\ f.board[sq] \in Pieces
      /\ Cardinality(NonKings(f)) <= 30
  BY FenFacts
<1>2. /\ PieceTypeOf(f.board[sq]) = KING <=>
           \E c \in Colors : f.board[sq] = MakePiece(c, KING)
      /\ MakePiece(WHITE, KING) # MakePiece(BLACK, KING)
  BY <1>1, KingOrNot
<1>3. {s \in DOMAIN f.board :
                  /\ PieceTypeOf(f.board[s]) # KING
                  /\ \/ RankOf(s) > RankOf(sq)
                     \/ RankOf(s) = RankOf(sq) /\ s < sq} = Earlier(f, sq)
  BY DEF Earlier, NonKings, Precedes
<1>4. NextPieceNumber(f, sq) =
        CASE f.board[sq] = MakePiece(WHITE, KING) -> PIECE_NUMBER_WKING
          [] f.board[sq] = MakePiece(BLACK, KING) -> PIECE_NUMBER_BKING
          [] OTHER -> Cardinality(Earlier(f, sq))
  BY <1>3, Zenon DEF NextPieceNumber
<1>5. ASSUME PieceTypeOf(f.board[sq]) # KING
      PROVE  Cardinality(Earlier(f, sq)) \in 0..29
  <2>1. NonKings(f) \in SUBSET Square /\ sq \in NonKings(f)
    BY <1>1, <1>5 DEF NonKings
  <2>2. Earlier(f, sq) \subseteq NonKings(f) \ {sq}
    BY <1>1 DEF Earlier, Precedes, RankOf, Square
  <2>3. Cardinality(Earlier(f, sq)) < Cardinality(NonKings(f))
    BY <2>1, <2>2, FewerSquares
  <2>4. /\ Cardinality(Earlier(f, sq)) \in Nat /\ Cardinality(NonKings(f)) \in Nat
    BY <2>1, <2>2, SquaresFinite
  <2> QED
    BY <1>1, <2>3, <2>4
<1> DEFINE n == NextPieceNumber(f, sq)
           e == Cardinality(Earlier(f, sq))
<1> HIDE DEF n, e
<1>6. n = CASE f.board[sq] = MakePiece(WHITE, KING) -> PIECE_NUMBER_WKING
            [] f.board[sq] = MakePiece(BLACK, KING) -> PIECE_NUMBER_BKING
            [] OTHER -> e
  BY <1>4 DEF n, e
<1>7. \/ f.board[sq] = MakePiece(WHITE, KING) /\ n = PIECE_NUMBER_WKING
      \/ f.board[sq] = MakePiece(BLACK, KING) /\ n = PIECE_NUMBER_BKING
      \/ PieceTypeOf(f.board[sq]) # KING /\ n = e
  BY <1>2, <1>6 DEF Colors
<1>8. PieceTypeOf(f.board[sq]) # KING => n = e /\ e \in 0..29
  BY <1>2, <1>5, <1>7 DEF Colors, e
<1>9. n \in PieceNumber
  BY <1>7, <1>8 DEF PieceNumber, PIECE_NUMBER_WKING, PIECE_NUMBER_BKING
<1>10. /\ f.board[sq] = MakePiece(WHITE, KING) => n = PIECE_NUMBER_WKING
       /\ f.board[sq] = MakePiece(BLACK, KING) => n = PIECE_NUMBER_BKING
  BY <1>2, <1>7 DEF Colors
<1> QED
  BY <1>8, <1>9, <1>10 DEF n, e

\* No two pieces have the same number.
LEMMA NumbersApart ==
  ASSUME NEW f \in Fens, NEW r \in DOMAIN f.board, NEW s \in DOMAIN f.board, r # s
  PROVE  NextPieceNumber(f, r) # NextPieceNumber(f, s)
<1>1. /\ DOMAIN f.board \subseteq Square /\ f.board[r] \in Pieces
      /\ f.board[s] \in Pieces
      /\ \A c \in Colors : \E k \in DOMAIN f.board :
           \A t \in DOMAIN f.board : f.board[t] = MakePiece(c, KING) <=> t = k
  BY FenFacts
<1>2. ASSUME NEW a \in DOMAIN f.board, NEW b \in DOMAIN f.board, Precedes(a, b),
             PieceTypeOf(f.board[a]) # KING, PieceTypeOf(f.board[b]) # KING
      PROVE  NextPieceNumber(f, a) # NextPieceNumber(f, b)
  <2>1. Earlier(f, b) \in SUBSET Square /\ Earlier(f, a) \in SUBSET Square
    BY <1>1 DEF Earlier, NonKings
  <2>2. a \in Earlier(f, b)
    BY <1>2 DEF Earlier, NonKings
  <2>3. Earlier(f, a) \subseteq Earlier(f, b) \ {a}
    BY <1>1, <1>2 DEF Earlier, NonKings, Precedes, RankOf, Square
  <2>4. Cardinality(Earlier(f, a)) < Cardinality(Earlier(f, b))
    BY <2>1, <2>2, <2>3, FewerSquares
  <2>5. Cardinality(Earlier(f, a)) \in Nat /\ Cardinality(Earlier(f, b)) \in Nat
    BY <2>1, SquaresFinite
  <2>6. /\ NextPieceNumber(f, a) = Cardinality(Earlier(f, a))
        /\ NextPieceNumber(f, b) = Cardinality(Earlier(f, b))
    BY <1>2, NumberGiven
  <2> QED
    BY <2>4, <2>5, <2>6
<1>3. Precedes(r, s) \/ Precedes(s, r)
  BY <1>1 DEF Precedes, RankOf, Square
<1>4. CASE PieceTypeOf(f.board[r]) # KING /\ PieceTypeOf(f.board[s]) # KING
  BY <1>2, <1>3, <1>4
<1>5. ASSUME NEW a \in DOMAIN f.board, NEW b \in DOMAIN f.board, a # b,
             f.board[b] \in Pieces, f.board[a] \in Pieces,
             PieceTypeOf(f.board[a]) = KING
      PROVE  NextPieceNumber(f, a) # NextPieceNumber(f, b)
  <2>1. PICK c \in Colors : f.board[a] = MakePiece(c, KING)
    BY <1>5, KingOrNot
  <2>2. f.board[b] # MakePiece(c, KING)
    BY <1>1, <1>5, <2>1
  <2>3. \/ PieceTypeOf(f.board[b]) # KING
        \/ \E d \in Colors : d # c /\ f.board[b] = MakePiece(d, KING)
    BY <1>5, <2>2, KingOrNot
  <2>4. /\ c = WHITE => NextPieceNumber(f, a) = PIECE_NUMBER_WKING
        /\ c = BLACK => NextPieceNumber(f, a) = PIECE_NUMBER_BKING
    BY <2>1, NumberGiven
  <2>5. CASE PieceTypeOf(f.board[b]) # KING
    <3>1. NextPieceNumber(f, b) \in 0..29
      BY <2>5, NumberGiven
    <3> QED
      BY <2>4, <3>1 DEF Colors, PIECE_NUMBER_WKING, PIECE_NUMBER_BKING
  <2>6. CASE \E d \in Colors : d # c /\ f.board[b] = MakePiece(d, KING)
    <3>1. PICK d \in Colors : d # c /\ f.board[b] = MakePiece(d, KING)
      BY <2>6
    <3>2. /\ d = WHITE => NextPieceNumber(f, b) = PIECE_NUMBER_WKING
          /\ d = BLACK => NextPieceNumber(f, b) = PIECE_NUMBER_BKING
      BY <3>1, NumberGiven
    <3> QED
      BY <2>4, <3>1, <3>2 DEF Colors, PIECE_NUMBER_WKING, PIECE_NUMBER_BKING
  <2> QED
    BY <2>3, <2>5, <2>6
<1>6. CASE PieceTypeOf(f.board[r]) = KING
  BY <1>1, <1>5, <1>6
<1>7. CASE PieceTypeOf(f.board[s]) = KING
  BY <1>1, <1>5, <1>7
<1> QED
  BY <1>4, <1>6, <1>7

FenBoard(f) == [sq \in Square |-> IF sq \in DOMAIN f.board THEN f.board[sq] ELSE EMPTY]
FenNos(f)   == [sq \in Square |-> IF sq \in DOMAIN f.board THEN NextPieceNumber(f, sq)
                                  ELSE PIECE_NUMBER_NB]
FenList(f)  == [no \in PieceNumber |->
                  LET on == {sq \in DOMAIN f.board : NextPieceNumber(f, sq) = no} IN
                  IF on = {} THEN BONA_PIECE_ZERO
                  ELSE LET sq == CHOOSE s \in on : TRUE IN <<f.board[sq], sq>>]

LEMMA FenBoardFacts ==
  ASSUME NEW f \in Fens
  PROVE  /\ FenBoard(f) \in BoardType /\ OneKing(FenBoard(f))
         /\ \A sq \in DOMAIN f.board :
              sq \in Square /\ FenBoard(f)[sq] = f.board[sq] /\ FenBoard(f)[sq] # EMPTY
         /\ \A sq \in Square : sq \notin DOMAIN f.board => FenBoard(f)[sq] = EMPTY
<1>1. /\ DOMAIN f.board \subseteq Square
      /\ \A s \in DOMAIN f.board : f.board[s] \in Pieces /\ f.board[s] # EMPTY
      /\ \A c \in Colors : \E k \in DOMAIN f.board :
           \A s \in DOMAIN f.board : f.board[s] = MakePiece(c, KING) <=> s = k
  BY FenFacts, PieceFacts
<1>2. \A sq \in Square : FenBoard(f)[sq] =
        IF sq \in DOMAIN f.board THEN f.board[sq] ELSE EMPTY
  BY DEF FenBoard
<1>3. FenBoard(f) \in BoardType
  BY <1>1 DEF FenBoard, BoardType
<1>4. ASSUME NEW c \in Colors
      PROVE  \E k \in Square :
               \A sq \in Square : FenBoard(f)[sq] = MakePiece(c, KING) <=> sq = k
  <2>1. PICK k \in DOMAIN f.board :
          \A s \in DOMAIN f.board : f.board[s] = MakePiece(c, KING) <=> s = k
    BY <1>1
  <2>2. KING \in PAWN..KING
    BY DEF PAWN, KING
  <2>3. MakePiece(c, KING) # EMPTY
    BY <2>2, MakePieceFacts, PieceFacts
  <2>4. \A sq \in Square : FenBoard(f)[sq] = MakePiece(c, KING) <=> sq = k
    BY <1>1, <1>2, <2>1, <2>3
  <2> QED
    BY <1>1, <2>4
<1> QED
  BY <1>1, <1>2, <1>3, <1>4 DEF OneKing

LEMMA FenListOk ==
  ASSUME NEW f \in Fens
  PROVE  /\ FenNos(f) \in NosType /\ FenList(f) \in ListType
         /\ ListOk(FenBoard(f), FenNos(f), FenList(f))
<1> DEFINE N(sq) == NextPieceNumber(f, sq)
           D == DOMAIN f.board
           On(no) == {sq \in D : N(sq) = no}
<1>1. /\ D \subseteq Square /\ \A s \in D : f.board[s] \in Pieces /\ N(s) \in PieceNumber
  BY FenFacts, NumberGiven
<1>2. \A r, s \in D : N(r) = N(s) => r = s
  BY NumbersApart
<1>3. /\ \A sq \in D : sq \in Square /\ FenBoard(f)[sq] = f.board[sq] /\ FenBoard(f)[sq] # EMPTY
      /\ \A sq \in Square : sq \notin D => FenBoard(f)[sq] = EMPTY
  BY FenBoardFacts
<1>4. \A sq \in Square : FenNos(f)[sq] = IF sq \in D THEN N(sq) ELSE PIECE_NUMBER_NB
  BY DEF FenNos
<1>5. \A no \in PieceNumber : FenList(f)[no] =
        IF On(no) = {} THEN BONA_PIECE_ZERO
        ELSE <<f.board[CHOOSE s \in On(no) : TRUE], CHOOSE s \in On(no) : TRUE>>
  BY Zenon DEF FenList
<1>6. FenNos(f) \in NosType
  BY <1>1 DEF FenNos, NosType, PieceNumber, PIECE_NUMBER_NB
<1>7. \A x : x \in On(N(x)) <=> x \in D
  OBVIOUS
<1>8. \A no \in PieceNumber : \A x \in On(no) : x \in D /\ N(x) = no
  OBVIOUS
<1>9. \A no \in PieceNumber : On(no) # {} => (CHOOSE s \in On(no) : TRUE) \in On(no)
  OBVIOUS
<1> HIDE DEF N, D, On
<1>10. \A sq \in D : FenList(f)[N(sq)] = <<f.board[sq], sq>>
  <2> TAKE sq \in D
  <2> DEFINE c == CHOOSE s \in On(N(sq)) : TRUE
  <2>1. N(sq) \in PieceNumber /\ sq \in On(N(sq))
    BY <1>1, <1>7
  <2>2. c \in On(N(sq))
    BY <1>9, <2>1
  <2>3. c \in D /\ N(c) = N(sq)
    BY <1>8, <2>1, <2>2
  <2>4. c = sq
    BY <1>2, <2>3
  <2>5. FenList(f)[N(sq)] = <<f.board[c], c>>
    BY <1>5, <2>1
  <2> QED
    BY <2>4, <2>5
<1>11. \A no \in PieceNumber : \/ FenList(f)[no] = BONA_PIECE_ZERO
                               \/ \E sq \in D : N(sq) = no /\ FenList(f)[no] = <<f.board[sq], sq>>
  BY <1>5, <1>8, <1>9
<1>12. FenList(f) \in ListType
  <2>1. BONA_PIECE_ZERO \in BonaPieces
    BY DEF BonaPieces, BONA_PIECE_ZERO, Square
  <2>2. \A no \in PieceNumber : FenList(f)[no] \in BonaPieces
    BY <1>1, <1>11, <2>1 DEF BonaPieces
  <2>3. FenList(f) = [no \in PieceNumber |-> FenList(f)[no]]
    BY DEF FenList
  <2> QED
    BY <2>2, <2>3 DEF ListType
<1>13. \A sq \in Square :
         IF FenBoard(f)[sq] = EMPTY THEN FenNos(f)[sq] = PIECE_NUMBER_NB
         ELSE /\ FenNos(f)[sq] \in PieceNumber
              /\ FenList(f)[FenNos(f)[sq]] = <<FenBoard(f)[sq], sq>>
  BY <1>1, <1>3, <1>4, <1>10
<1>14. \A no \in PieceNumber :
         FenList(f)[no] = BONA_PIECE_ZERO \/ FenNos(f)[FenList(f)[no][2]] = no
  BY <1>1, <1>4, <1>11
<1>15. ASSUME NEW c \in Colors, NEW no \in PieceNumber,
              \A s \in D : f.board[s] = MakePiece(c, KING) => N(s) = no
       PROVE  FenList(f)[no][1] = MakePiece(c, KING)
  <2>1. PICK k \in D : f.board[k] = MakePiece(c, KING)
    BY FenFacts DEF D
  <2> QED
    BY <1>10, <1>15, <2>1
<1>16. /\ FenList(f)[PIECE_NUMBER_WKING][1] = MakePiece(WHITE, KING)
       /\ FenList(f)[PIECE_NUMBER_BKING][1] = MakePiece(BLACK, KING)
  <2>1. /\ PIECE_NUMBER_WKING \in PieceNumber /\ PIECE_NUMBER_BKING \in PieceNumber
        /\ WHITE \in Colors /\ BLACK \in Colors
    BY DEF PieceNumber, PIECE_NUMBER_WKING, PIECE_NUMBER_BKING, Colors
  <2>2. /\ \A s \in D : f.board[s] = MakePiece(WHITE, KING) => N(s) = PIECE_NUMBER_WKING
        /\ \A s \in D : f.board[s] = MakePiece(BLACK, KING) => N(s) = PIECE_NUMBER_BKING
    BY NumberGiven DEF N, D
  <2> QED
    BY <1>15, <2>1, <2>2
<1> QED
  BY <1>6, <1>12, <1>13, <1>14, <1>16 DEF ListOk

\* What UpdatePosition computes.
ColorBBs(b) == [c \in {WHITE, BLACK} |->
                  {sq \in {s \in Square : b[s] # EMPTY} : ColorOf(b[sq]) = c}]
PieceBBs(b) == [pt \in ALL..KING |->
                  {sq \in {s \in Square : b[s] # EMPTY} :
                     pt \in {ALL, PieceTypeOf(b[sq])}}]
Counts(b) == [c \in {WHITE, BLACK} |->
                Cardinality({sq \in {s \in Square : b[s] # EMPTY} :
                               ColorOf(b[sq]) = c /\ NonPawn(b[sq]) = 1})]
Material(b)  == SquareSum([sq \in Square |->
                             IF b[sq] = EMPTY THEN 0 ELSE PSQT(b[sq], sq)])
BasePhase(b) == SquareSum([sq \in Square |->
                             IF b[sq] = EMPTY THEN 0 ELSE PhaseValue(b[sq])])

LEMMA UpdatedTypes ==
  ASSUME NEW b \in BoardType
  PROVE  /\ ColorBBs(b) \in [Colors -> SUBSET Square]
         /\ \A c \in Colors : ColorBBs(b)[c] = OfColor(b, c)
         /\ PieceBBs(b) \in [ALL..KING -> SUBSET Square]
         /\ PieceBBs(b)[ALL] = Occupied(b)
         /\ \A pt \in PAWN..KING : PieceBBs(b)[pt] = OfType(b, pt)
         /\ Counts(b) \in [Colors -> Int]
         /\ \A c \in Colors : Counts(b)[c] = Cardinality(NonPawns(b, c))
         /\ Material(b) \in Int /\ BasePhase(b) \in Int
<1>1. \A sq \in Square : b[sq] # EMPTY => b[sq] \in Pieces
  BY DEF BoardType
<1>2. /\ ColorBBs(b) \in [Colors -> SUBSET Square]
      /\ \A c \in Colors : ColorBBs(b)[c] = OfColor(b, c)
  BY DEF ColorBBs, OfColor, Colors
<1>3. PieceBBs(b) \in [ALL..KING -> SUBSET Square]
  BY DEF PieceBBs
<1>4. \A pt \in ALL..KING : PieceBBs(b)[pt] =
        {sq \in {s \in Square : b[s] # EMPTY} : pt \in {ALL, PieceTypeOf(b[sq])}}
  BY DEF PieceBBs
<1>5. PieceBBs(b)[ALL] = Occupied(b)
  <2>1. ALL \in ALL..KING
    BY DEF ALL, KING
  <2> QED
    BY <1>4, <2>1 DEF Occupied
<1>6. ASSUME NEW pt \in PAWN..KING
      PROVE  PieceBBs(b)[pt] = OfType(b, pt)
  <2>1. pt \in ALL..KING /\ pt # ALL
    BY DEF ALL, PAWN, KING
  <2> QED
    BY <1>4, <2>1 DEF OfType
<1>7. ASSUME NEW c \in Colors
      PROVE  Counts(b)[c] = Cardinality(NonPawns(b, c)) /\ Counts(b)[c] \in Int
  <2>1. {sq \in {s \in Square : b[s] # EMPTY} :
           ColorOf(b[sq]) = c /\ NonPawn(b[sq]) = 1} = NonPawns(b, c)
    BY DEF NonPawns
  <2>2. Counts(b)[c] = Cardinality({sq \in {s \in Square : b[s] # EMPTY} :
                                      ColorOf(b[sq]) = c /\ NonPawn(b[sq]) = 1})
    BY Zenon DEF Counts, Colors
  <2>3. Counts(b)[c] = Cardinality(NonPawns(b, c))
    BY <2>1, <2>2, Zenon
  <2> QED
    BY <2>3, NonPawnsFinite
<1>8. Counts(b) \in [Colors -> Int]
  <2>1. Counts(b) = [c \in Colors |-> Counts(b)[c]]
    BY Zenon DEF Counts, Colors
  <2> QED
    BY <1>7, <2>1
<1>9. Material(b) \in Int
  <2> DEFINE v == [sq \in Square |-> IF b[sq] = EMPTY THEN 0 ELSE PSQT(b[sq], sq)]
  <2>1. \A sq \in Square : b[sq] # EMPTY => PSQT(b[sq], sq) \in Int
    BY <1>1, PSQTInt
  <2>2. v \in [Square -> Int]
    BY <2>1
  <2>3. Material(b) = SquareSum(v)
    BY Zenon DEF Material
  <2> HIDE DEF v
  <2> QED
    BY <2>2, <2>3, SquareSumInt
<1>10. BasePhase(b) \in Int
  <2> DEFINE v == [sq \in Square |-> IF b[sq] = EMPTY THEN 0 ELSE PhaseValue(b[sq])]
  <2>1. \A sq \in Square : b[sq] # EMPTY => PhaseValue(b[sq]) \in Int
    BY <1>1, PieceFacts
  <2>2. v \in [Square -> Int]
    BY <2>1
  <2>3. BasePhase(b) = SquareSum(v)
    BY Zenon DEF BasePhase
  <2> HIDE DEF v
  <2> QED
    BY <2>2, <2>3, SquareSumInt
<1> QED
  BY <1>2, <1>3, <1>5, <1>6, <1>7, <1>8, <1>9, <1>10

FenStart(f) ==
  [board |-> FenBoard(f), stm |-> f.stm, key |-> {}, epSquare |-> 0,
   rule50 |-> f.rule50, castlingRights |-> f.rights, pieceNoOn |-> FenNos(f),
   pieceList |-> FenList(f), colorBB |-> 0, pieceBB |-> 0, nonPawnCount |-> 0,
   material |-> 0, basePhase |-> 0]
FenUpdated(f) == UpdatePosition(FenStart(f))
FenEp(f) == IF f.ep # 0 /\ PawnAttacks[Other(f.stm)][f.ep] \cap
                             ColorPieceBB(FenUpdated(f), f.stm, PAWN) # {}
            THEN f.ep ELSE 0
FenPlaced(f) == [FenUpdated(f) EXCEPT !.epSquare = FenEp(f)]

LEMMA ParseFenSteps ==
  ASSUME NEW f
  PROVE  ParseFen(f) = [FenPlaced(f) EXCEPT !.key = GeneratePosKey(FenPlaced(f))]
BY Zenon DEF ParseFen, FenPlaced, FenEp, FenUpdated, FenStart, FenBoard, FenNos, FenList

LEMMA FenUpdatedRecord ==
  ASSUME NEW f
  PROVE  LET b == FenBoard(f) IN
         FenUpdated(f) =
          [board |-> b, stm |-> f.stm, key |-> {}, epSquare |-> 0,
           rule50 |-> f.rule50, castlingRights |-> f.rights, pieceNoOn |-> FenNos(f),
           pieceList |-> FenList(f), colorBB |-> ColorBBs(b), pieceBB |-> PieceBBs(b),
           nonPawnCount |-> Counts(b), material |-> Material(b),
           basePhase |-> BasePhase(b)]
<1> DEFINE s == FenStart(f)
           b == FenBoard(f)
<1>1. s.board = b
  BY DEF FenStart
<1>2. UpdatePosition(s) =
        [s EXCEPT !.colorBB = ColorBBs(s.board), !.pieceBB = PieceBBs(s.board),
                  !.nonPawnCount = Counts(s.board), !.material = Material(s.board),
                  !.basePhase = BasePhase(s.board)]
  BY Zenon DEF UpdatePosition, ColorBBs, PieceBBs, Counts, Material, BasePhase
<1>3. FenUpdated(f) =
        [s EXCEPT !.colorBB = ColorBBs(b), !.pieceBB = PieceBBs(b),
                  !.nonPawnCount = Counts(b), !.material = Material(b),
                  !.basePhase = BasePhase(b)]
  BY <1>1, <1>2, Zenon DEF FenUpdated
<1>4. s = [board |-> b, stm |-> f.stm, key |-> {}, epSquare |-> 0,
           rule50 |-> f.rule50, castlingRights |-> f.rights, pieceNoOn |-> FenNos(f),
           pieceList |-> FenList(f), colorBB |-> 0, pieceBB |-> 0, nonPawnCount |-> 0,
           material |-> 0, basePhase |-> 0]
  BY Zenon DEF FenStart
<1> HIDE DEF s, b
<1> DEFINE u == FenUpdated(f)
<1>5. u = [board |-> b, stm |-> f.stm, key |-> {}, epSquare |-> 0,
           rule50 |-> f.rule50, castlingRights |-> f.rights, pieceNoOn |-> FenNos(f),
           pieceList |-> FenList(f), colorBB |-> ColorBBs(b), pieceBB |-> PieceBBs(b),
           nonPawnCount |-> Counts(b), material |-> Material(b),
           basePhase |-> BasePhase(b)]
  BY <1>3, <1>4
<1> QED
  BY <1>5, Zenon DEF b, u

LEMMA ParseFenRecord ==
  ASSUME NEW f
  PROVE  LET b == FenBoard(f) IN
         ParseFen(f) =
           [board |-> b, stm |-> f.stm, key |-> GeneratePosKey(FenPlaced(f)),
            epSquare |-> FenEp(f), rule50 |-> f.rule50, castlingRights |-> f.rights,
            pieceNoOn |-> FenNos(f), pieceList |-> FenList(f),
            colorBB |-> ColorBBs(b), pieceBB |-> PieceBBs(b),
            nonPawnCount |-> Counts(b), material |-> Material(b),
            basePhase |-> BasePhase(b)]
<1> DEFINE b == FenBoard(f)
           u == FenUpdated(f)
<1>5. u = [board |-> b, stm |-> f.stm, key |-> {}, epSquare |-> 0,
           rule50 |-> f.rule50, castlingRights |-> f.rights, pieceNoOn |-> FenNos(f),
           pieceList |-> FenList(f), colorBB |-> ColorBBs(b), pieceBB |-> PieceBBs(b),
           nonPawnCount |-> Counts(b), material |-> Material(b),
           basePhase |-> BasePhase(b)]
  BY FenUpdatedRecord, Zenon
<1> HIDE DEF b
<1> DEFINE k == GeneratePosKey(FenPlaced(f))
           e == FenEp(f)
<1>6. ParseFen(f) = [[u EXCEPT !.epSquare = e] EXCEPT !.key = k]
  BY ParseFenSteps, Zenon DEF FenPlaced
<1> HIDE DEF u, k, e
<1>7. ParseFen(f) = [board |-> b, stm |-> f.stm, key |-> k, epSquare |-> e,
           rule50 |-> f.rule50, castlingRights |-> f.rights, pieceNoOn |-> FenNos(f),
           pieceList |-> FenList(f), colorBB |-> ColorBBs(b), pieceBB |-> PieceBBs(b),
           nonPawnCount |-> Counts(b), material |-> Material(b),
           basePhase |-> BasePhase(b)]
  BY <1>5, <1>6
<1> QED
  BY <1>7, Zenon DEF b, k, e

\* The key of a position does not depend on the key.
LEMMA GeneratedKey ==
  ASSUME NEW p, NEW q, q.board = p.board, q.stm = p.stm,
         q.castlingRights = p.castlingRights, q.epSquare = p.epSquare
  PROVE  GeneratePosKey(q) = GeneratePosKey(p)
BY Zenon DEF GeneratePosKey

LEMMA GeneratedKeyType ==
  ASSUME NEW p, p.board \in BoardType, p.stm \in Colors,
         p.castlingRights \in SUBSET (OO \cup OOO)
  PROVE  GeneratePosKey(p) \in KeyType
<1> DEFINE g == [pieces |-> Words(p.board), side |-> p.stm = WHITE,
                 castle |-> {p.castlingRights}, ep |-> {}]
           h == HashEP(g, p.epSquare)
<1>1. GeneratePosKey(p) = h
  BY DEF GeneratePosKey, Words
<1>2. /\ h.pieces = Words(p.board) /\ h.side = (p.stm = WHITE)
      /\ h.castle = {p.castlingRights} /\ h.ep = EpWords(p.epSquare)
      /\ h = [pieces |-> h.pieces, side |-> h.side, castle |-> h.castle, ep |-> h.ep]
  BY DEF HashEP, EpWords, SymDiff
<1> HIDE DEF h
<1>3. Words(p.board) \in SUBSET (Pieces \X Square)
  BY DEF Words, BoardType
<1>4. {p.castlingRights} \in SUBSET SUBSET (OO \cup OOO)
  OBVIOUS
<1>5. EpWords(p.epSquare) \in SUBSET Square
  BY DEF EpWords, Square
<1>6. (p.stm = WHITE) \in BOOLEAN
  OBVIOUS
<1>7. /\ h.pieces \in SUBSET (Pieces \X Square) /\ h.side \in BOOLEAN
      /\ h.castle \in SUBSET SUBSET (OO \cup OOO) /\ h.ep \in SUBSET Square
  BY <1>2, <1>3, <1>4, <1>5, <1>6, Zenon
<1>8. h \in KeyType
  BY <1>2, <1>7, Zenon DEF KeyType
<1> QED
  BY <1>1, <1>8

LEMMA FenRights ==
  ASSUME NEW f \in Fens
  PROVE  RightsOk(FenBoard(f), f.rights)
<1>1. ASSUME NEW right \in f.rights
      PROVE  LET c    == IF right \in CastleOf(WHITE) THEN WHITE ELSE BLACK
                 king == IF c = WHITE THEN E1 ELSE E8
                 rook == IF right \in OO THEN king + 3 ELSE king - 4
             IN  /\ FenBoard(f)[king] = MakePiece(c, KING)
                 /\ FenBoard(f)[rook] = MakePiece(c, ROOK)
  <2> DEFINE c    == IF right \in CastleOf(WHITE) THEN WHITE ELSE BLACK
             king == IF c = WHITE THEN E1 ELSE E8
             rook == IF right \in OO THEN king + 3 ELSE king - 4
  <2>1. /\ {king, rook} \subseteq DOMAIN f.board
        /\ f.board[king] = MakePiece(c, KING)
        /\ f.board[rook] = MakePiece(c, ROOK)
    BY PositionAssumption, Zenon
  <2> HIDE DEF c, king, rook
  <2>2. king \in DOMAIN f.board /\ rook \in DOMAIN f.board
    BY <2>1
  <2>3. /\ FenBoard(f)[king] = MakePiece(c, KING)
        /\ FenBoard(f)[rook] = MakePiece(c, ROOK)
    BY <2>1, <2>2, FenBoardFacts
  <2> QED
    BY <2>3 DEF c, king, rook
<1>2. ASSUME WHITE_OO \in f.rights
      PROVE  FenBoard(f)[E1] = MakePiece(WHITE, KING) /\ FenBoard(f)[H1] = MakePiece(WHITE, ROOK)
  BY <1>1, <1>2 DEF CastleOf, OO, OOO, WHITE_OO, WHITE_OOO, BLACK_OO, BLACK_OOO,
     WHITE, BLACK, E1, E8, H1
<1>3. ASSUME WHITE_OOO \in f.rights
      PROVE  FenBoard(f)[E1] = MakePiece(WHITE, KING) /\ FenBoard(f)[A1] = MakePiece(WHITE, ROOK)
  BY <1>1, <1>3 DEF CastleOf, OO, OOO, WHITE_OO, WHITE_OOO, BLACK_OO, BLACK_OOO,
     WHITE, BLACK, E1, E8, A1
<1>4. ASSUME BLACK_OO \in f.rights
      PROVE  FenBoard(f)[E8] = MakePiece(BLACK, KING) /\ FenBoard(f)[H8] = MakePiece(BLACK, ROOK)
  BY <1>1, <1>4 DEF CastleOf, OO, OOO, WHITE_OO, WHITE_OOO, BLACK_OO, BLACK_OOO,
     WHITE, BLACK, E1, E8, H8
<1>5. ASSUME BLACK_OOO \in f.rights
      PROVE  FenBoard(f)[E8] = MakePiece(BLACK, KING) /\ FenBoard(f)[A8] = MakePiece(BLACK, ROOK)
  BY <1>1, <1>5 DEF CastleOf, OO, OOO, WHITE_OO, WHITE_OOO, BLACK_OO, BLACK_OOO,
     WHITE, BLACK, E1, E8, A8
<1>6. /\ CastleOf(WHITE) = {WHITE_OO, WHITE_OOO}
      /\ CastleOf(BLACK) = {BLACK_OO, BLACK_OOO}
  BY DEF CastleOf, WHITE, BLACK
<1> QED
  BY <1>2, <1>3, <1>4, <1>5, <1>6 DEF RightsOk

\* Every position set up is a good one.
LEMMA ParseFenGood ==
  ASSUME NEW f \in Fens
  PROVE  Good(ParseFen(f))
<1> DEFINE p == ParseFen(f)
           b == FenBoard(f)
           k == GeneratePosKey(FenPlaced(f))
           e == FenEp(f)
<1>1. p = [board |-> b, stm |-> f.stm, key |-> k, epSquare |-> e,
           rule50 |-> f.rule50, castlingRights |-> f.rights,
           pieceNoOn |-> FenNos(f), pieceList |-> FenList(f),
           colorBB |-> ColorBBs(b), pieceBB |-> PieceBBs(b),
           nonPawnCount |-> Counts(b), material |-> Material(b),
           basePhase |-> BasePhase(b)]
  BY ParseFenRecord, Zenon
<1>2. p = [FenPlaced(f) EXCEPT !.key = k]
  BY ParseFenSteps, Zenon
<1>3. e = 0 \/ e = f.ep
  BY DEF FenEp
<1>4. /\ f.rule50 \in Nat /\ f.stm \in Colors /\ f.ep \in Square
      /\ f.rights \in SUBSET (OO \cup OOO)
  BY FenFacts
<1>5. /\ b \in BoardType /\ OneKing(b)
      /\ \A sq \in DOMAIN f.board : sq \in Square /\ b[sq] = f.board[sq]
      /\ \A sq \in Square : sq \notin DOMAIN f.board => b[sq] = EMPTY
  BY FenBoardFacts
<1>6. /\ FenNos(f) \in NosType /\ FenList(f) \in ListType
      /\ ListOk(b, FenNos(f), FenList(f))
  BY FenListOk
<1>7. /\ ColorBBs(b) \in [Colors -> SUBSET Square]
      /\ \A c \in Colors : ColorBBs(b)[c] = OfColor(b, c)
      /\ PieceBBs(b) \in [ALL..KING -> SUBSET Square]
      /\ PieceBBs(b)[ALL] = Occupied(b)
      /\ \A pt \in PAWN..KING : PieceBBs(b)[pt] = OfType(b, pt)
      /\ Counts(b) \in [Colors -> Int]
      /\ \A c \in Colors : Counts(b)[c] = Cardinality(NonPawns(b, c))
      /\ Material(b) \in Int /\ BasePhase(b) \in Int
  BY <1>5, UpdatedTypes
<1>8. RightsOk(b, f.rights)
  BY FenRights
<1>9. f.ep # 0 => /\ RelativeRank(f.stm, RankOf(f.ep)) = 5
                  /\ f.ep \notin DOMAIN f.board
                  /\ Xor8(f.ep) \in DOMAIN f.board
                  /\ f.board[Xor8(f.ep)] = MakePiece(Other(f.stm), PAWN)
  BY PositionAssumption
<1>10. ~KingAttacked(p, Other(f.stm))
  BY FenAssumption
<1> DEFINE r == FenPlaced(f)
<1>11. k = GeneratePosKey(r)
  OBVIOUS
<1>12. /\ r.board = p.board /\ r.stm = p.stm /\ r.castlingRights = p.castlingRights
       /\ r.epSquare = p.epSquare
  <2>1. p = [r EXCEPT !.key = k]
    BY <1>2
  <2> HIDE DEF p, k, e, b, r
  <2>2. /\ p.board = b /\ p.stm = f.stm /\ p.castlingRights = f.rights /\ p.epSquare = e
    BY <1>1
  <2>3. r.board = b /\ r.stm = f.stm /\ r.castlingRights = f.rights /\ r.epSquare = e
    <3> DEFINE u == FenUpdated(f)
    <3>1. r = [u EXCEPT !.epSquare = e]
      BY Zenon DEF r, FenPlaced, e
    <3>2. u = [board |-> b, stm |-> f.stm, key |-> {}, epSquare |-> 0,
              rule50 |-> f.rule50, castlingRights |-> f.rights, pieceNoOn |-> FenNos(f),
              pieceList |-> FenList(f), colorBB |-> ColorBBs(b), pieceBB |-> PieceBBs(b),
              nonPawnCount |-> Counts(b), material |-> Material(b),
              basePhase |-> BasePhase(b)]
      BY FenUpdatedRecord, Zenon DEF b
    <3> HIDE DEF u
    <3> QED
      BY <3>1, <3>2
  <2> QED
    BY <2>2, <2>3
<1> HIDE DEF p, b, k, e, r
<1>13. /\ p.board = b /\ p.stm = f.stm /\ p.key = k /\ p.epSquare = e
       /\ p.castlingRights = f.rights /\ p.pieceNoOn = FenNos(f)
       /\ p.pieceList = FenList(f) /\ p.colorBB = ColorBBs(b)
       /\ p.pieceBB = PieceBBs(b) /\ p.nonPawnCount = Counts(b)
  BY <1>1
<1>14. k = GeneratePosKey(p)
  BY <1>11, <1>12, GeneratedKey
<1>15. k \in KeyType
  BY <1>4, <1>5, <1>13, <1>14, GeneratedKeyType
<1>16. e \in Square
  BY <1>3, <1>4 DEF Square
<1>17. p \in PositionType
  BY <1>1, <1>4, <1>5, <1>6, <1>7, <1>15, <1>16
     DEF PositionType, BoardType, NosType, ListType
<1>18. Agrees(p)
  BY <1>7, <1>13 DEF Agrees
<1>19. KeyOk(p)
  BY <1>13, <1>14, <1>17, KeyAsGenerated
<1>20. EpOk(p)
  BY <1>3, <1>4, <1>5, <1>9, <1>13 DEF EpOk
<1>21. Good(p)
  BY <1>5, <1>6, <1>8, <1>10, <1>13, <1>17, <1>18, <1>19, <1>20 DEF Good, Sound
<1> QED
  BY <1>21 DEF p

-----------------------------------------------------------------------------
(* Null moves.                                                             *)

NullMoved(p) == [p EXCEPT !.rule50 = 0, !.stm = Other(@), !.epSquare = 0,
                          !.key = HashEP(HashSide(@), p.epSquare)]

LEMMA SameAttacks ==
  ASSUME NEW p, NEW q, q.colorBB = p.colorBB, q.pieceBB = p.pieceBB, NEW c
  PROVE  KingAttacked(q, c) <=> KingAttacked(p, c)
<1> DEFINE Attacked(colorBB, pieceBB, sq, color) ==
      \/ PawnAttacks[Other(color)][sq] \cap
           (colorBB[color] \cap UNION {pieceBB[pt] : pt \in {PAWN}}) # {}
      \/ \E pt \in {KNIGHT, KING} :
           PseudoAttacks[pt][sq] \cap
             (colorBB[color] \cap UNION {pieceBB[t] : t \in {pt}}) # {}
      \/ \E pt \in {BISHOP, ROOK} :
           AttackBB(pt, sq, pieceBB[ALL]) \cap
             (colorBB[color] \cap UNION {pieceBB[t] : t \in {pt, QUEEN}}) # {}
<1>1. \A sq, d : SqAttacked(p, sq, d) <=> Attacked(p.colorBB, p.pieceBB, sq, d)
  BY Zenon DEF SqAttacked
<1>2. \A sq, d : SqAttacked(q, sq, d) <=> Attacked(q.colorBB, q.pieceBB, sq, d)
  BY Zenon DEF SqAttacked
<1> HIDE DEF Attacked
<1>3. \A sq, d : SqAttacked(q, sq, d) <=> SqAttacked(p, sq, d)
  BY <1>1, <1>2
<1> QED
  BY <1>3 DEF KingAttacked, ColorPieceBB

LEMMA NullMoveKey ==
  ASSUME NEW key \in KeyType, NEW sq \in Square, key.ep = EpWords(sq)
  PROVE  LET k == HashEP(HashSide(key), sq) IN
         /\ k \in KeyType /\ k.pieces = key.pieces /\ k.castle = key.castle
         /\ k.side = ~key.side /\ k.ep = {}
<1> DEFINE h == HashSide(key)
           k == HashEP(h, sq)
<1>1. h = [key EXCEPT !.side = ~@]
  BY DEF HashSide
<1> HIDE DEF h
<1>2. /\ h \in KeyType /\ h.pieces = key.pieces /\ h.castle = key.castle
      /\ h.side = ~key.side /\ h.ep = key.ep
  BY <1>1 DEF KeyType
<1>3. CASE sq \in 16..47
  <2>1. k = [h EXCEPT !.ep = SymDiff(h.ep, {sq})]
    BY <1>3 DEF HashEP
  <2>2. SymDiff(h.ep, {sq}) = {}
    BY <1>2, <1>3 DEF EpWords, SymDiff
  <2> HIDE DEF k
  <2>3. k = [h EXCEPT !.ep = {}]
    BY <2>1, <2>2, Zenon
  <2>4. /\ k \in KeyType /\ k.pieces = key.pieces /\ k.castle = key.castle
        /\ k.side = ~key.side /\ k.ep = {}
    BY <1>2, <2>3 DEF KeyType
  <2> QED
    BY <2>4, Zenon DEF k, h
<1>4. CASE sq \notin 16..47
  <2>1. k = h
    BY <1>4, Zenon DEF HashEP
  <2>2. h.ep = {}
    BY <1>2, <1>4 DEF EpWords
  <2> HIDE DEF k
  <2>3. /\ k \in KeyType /\ k.pieces = key.pieces /\ k.castle = key.castle
        /\ k.side = ~key.side /\ k.ep = {}
    BY <1>2, <2>1, <2>2
  <2> QED
    BY <2>3, Zenon DEF k, h
<1> QED
  BY <1>3, <1>4

LEMMA NullMoveFields ==
  ASSUME NEW p, Good(p)
  PROVE  LET q == NullMoved(p) IN
         /\ q \in PositionType /\ KeyOk(q)
         /\ q.stm = Other(p.stm) /\ q.epSquare = 0 /\ q.board = p.board
         /\ q.castlingRights = p.castlingRights
         /\ q.pieceNoOn = p.pieceNoOn /\ q.pieceList = p.pieceList
         /\ q.colorBB = p.colorBB /\ q.pieceBB = p.pieceBB
         /\ q.nonPawnCount = p.nonPawnCount
         /\ q.material = p.material /\ q.basePhase = p.basePhase
<1> DEFINE q == NullMoved(p)
           k == HashEP(HashSide(p.key), p.epSquare)
<1>1. /\ p \in PositionType /\ KeyOk(p) /\ p.key \in KeyType /\ p.epSquare \in Square
      /\ p.stm \in Colors /\ Other(p.stm) \in Colors
  BY PositionParts, OtherFacts DEF Good, Sound, PositionType
<1>2. /\ k \in KeyType /\ k.pieces = p.key.pieces /\ k.castle = p.key.castle
      /\ k.side = ~p.key.side /\ k.ep = {}
  BY <1>1, NullMoveKey DEF KeyOk
<1>3. q = [p EXCEPT !.rule50 = 0, !.stm = Other(p.stm), !.epSquare = 0, !.key = k]
  BY DEF NullMoved
<1> HIDE DEF q, k
<1>4. 0 \in Square /\ 0 \in Nat
  BY DEF Square
<1>5. /\ q.stm = Other(p.stm) /\ q.epSquare = 0 /\ q.board = p.board /\ q.key = k
      /\ q.castlingRights = p.castlingRights
      /\ q.pieceNoOn = p.pieceNoOn /\ q.pieceList = p.pieceList
      /\ q.colorBB = p.colorBB /\ q.pieceBB = p.pieceBB
      /\ q.nonPawnCount = p.nonPawnCount
      /\ q.material = p.material /\ q.basePhase = p.basePhase
  BY <1>1, <1>3 DEF PositionType
<1>6. q \in PositionType
  BY <1>1, <1>2, <1>3, <1>4 DEF PositionType
<1>7. KeyOk(q)
  <2>1. (~(p.stm = WHITE)) = (Other(p.stm) = WHITE)
    BY <1>1 DEF Other, Colors, WHITE, BLACK
  <2>2. EpWords(0) = {}
    BY DEF EpWords
  <2> QED
    BY <1>1, <1>2, <1>5, <2>1, <2>2 DEF KeyOk
<1> QED
  BY <1>5, <1>6, <1>7 DEF q

\* A null move out of check leaves a good position.
LEMMA NullMoveGood ==
  ASSUME NEW p, Good(p), ~KingAttacked(p, p.stm)
  PROVE  Good(NullMoved(p))
<1> DEFINE q == NullMoved(p)
<1>1. /\ q \in PositionType /\ KeyOk(q)
      /\ q.stm = Other(p.stm) /\ q.epSquare = 0 /\ q.board = p.board
      /\ q.castlingRights = p.castlingRights
      /\ q.pieceNoOn = p.pieceNoOn /\ q.pieceList = p.pieceList
      /\ q.colorBB = p.colorBB /\ q.pieceBB = p.pieceBB
      /\ q.nonPawnCount = p.nonPawnCount
  BY NullMoveFields
<1> HIDE DEF q
<1>2. Agrees(p) /\ p.stm \in Colors
  BY PositionParts DEF Good, Sound
<1>3. Agrees(q)
  BY <1>1, <1>2 DEF Agrees
<1>4. Other(q.stm) = p.stm
  BY <1>1, <1>2, OtherFacts
<1>5. ~KingAttacked(q, Other(q.stm))
  BY <1>1, <1>4, SameAttacks
<1>6. Good(q)
  BY <1>1, <1>3, <1>5 DEF Good, Sound, EpOk
<1> QED
  BY <1>6 DEF q

\* Taking a null move back gives the position before it.
THEOREM NullMoveTakenBack ==
  ASSUME NEW p, Good(p), NEW st, st.posKey = p.key, st.epSquare = p.epSquare,
         st.rule50 = p.rule50, st.castlingRights = p.castlingRights
  PROVE  FromHistory([NullMoved(p) EXCEPT !.stm = Other(@)], st) = p
<1> DEFINE q == NullMoved(p)
           r == [q EXCEPT !.stm = Other(@)]
<1>1. /\ q \in PositionType
      /\ q.stm = Other(p.stm) /\ q.board = p.board
      /\ q.pieceNoOn = p.pieceNoOn /\ q.pieceList = p.pieceList
      /\ q.colorBB = p.colorBB /\ q.pieceBB = p.pieceBB
      /\ q.nonPawnCount = p.nonPawnCount
      /\ q.material = p.material /\ q.basePhase = p.basePhase
  BY NullMoveFields
<1>2. p \in PositionType /\ Agrees(p) /\ p.stm \in Colors
  BY PositionParts DEF Good, Sound
<1>3. Other(q.stm) = p.stm
  BY <1>1, <1>2, OtherFacts
<1> HIDE DEF q
<1>4. r = [q EXCEPT !.stm = p.stm]
  BY <1>3
<1> HIDE DEF r
<1>5. /\ r \in PositionType /\ r.stm = p.stm /\ r.board = p.board
      /\ r.pieceNoOn = p.pieceNoOn /\ r.pieceList = p.pieceList
      /\ r.colorBB = p.colorBB /\ r.pieceBB = p.pieceBB
      /\ r.nonPawnCount = p.nonPawnCount
      /\ r.material = p.material /\ r.basePhase = p.basePhase
  BY <1>1, <1>2, <1>4 DEF PositionType
<1>6. Agrees(r)
  BY <1>2, <1>5 DEF Agrees
<1>7. Back7(p, r)
  BY <1>5, <1>6 DEF Back7
<1>8. FromHistory(r, st) = p
  BY <1>2, <1>7, HistoryRestores
<1> QED
  BY <1>8 DEF r, q

-----------------------------------------------------------------------------
(* The line of moves.                                                      *)

MoveType == [from : Square, to : Square, capt : Pieces \cup {EMPTY},
             promo : Pieces \cup {EMPTY},
             flag : {"none", "pstart", "enpas", "castle"}]
DirtyType == [dirty_num : 0..2, pieceNo : [0..1 -> 0..PIECE_NUMBER_NB],
              old_piece : [0..1 -> BonaPieces], new_piece : [0..1 -> BonaPieces]]
StateInfo == [posKey : KeyType, move : MoveType \cup {NoMove}, epSquare : Square,
              rule50 : Nat, castlingRights : SUBSET (OO \cup OOO),
              dirtyPiece : DirtyType]

Generated(p) == GenNoisyMoves(p) \cup GenQuietMoves(p)

NullInfo(p) == [posKey |-> p.key, move |-> NoMove, epSquare |-> p.epSquare,
                rule50 |-> p.rule50, castlingRights |-> p.castlingRights,
                dirtyPiece |-> NoDirtyPiece]

\* From p the line went on to q and left st behind.
Link(p, st, q) ==
  \/ \E m \in Generated(p) : st = Made(p, m).st /\ q = Made(p, m).pos
  \/ ~KingAttacked(p, p.stm) /\ st = NullInfo(p) /\ q = NullMoved(p)

\* The positions earlier, the entries history, and p at the end.
LineOk(earlier, history, p) ==
  /\ earlier \in Seq(PositionType) /\ history \in Seq(StateInfo)
  /\ Len(earlier) = Len(history)
  /\ \A k \in 1..Len(earlier) :
       /\ Good(earlier[k])
       /\ Link(earlier[k], history[k],
               IF k = Len(earlier) THEN p ELSE earlier[k + 1])

IInv == /\ Good(pos)
        /\ LineOk(before, gameHistory, pos)
        /\ maxPly \in Nat /\ Len(gameHistory) <= maxPly

LEMMA MoveTyped ==
  ASSUME NEW p, Good(p), NEW m, MoveOk(p, m)
  PROVE  m \in MoveType /\ m # NoMove
<1>1. p.board \in BoardType
  BY PositionParts DEF Good, Sound
<1>2. /\ m = MOVE(m.from, m.to, m.capt, m.promo, m.flag)
      /\ m.from \in Square /\ m.to \in Square
      /\ m.flag \in {"none", "pstart", "enpas", "castle"}
  BY DEF MoveOk, IsMove
<1>3. m.capt \in Pieces \cup {EMPTY}
  BY <1>1, <1>2 DEF MoveOk, BoardType
<1>4. m.promo \in Pieces \cup {EMPTY}
  BY DEF MoveOk
<1>5. m \in MoveType
  BY <1>2, <1>3, <1>4 DEF MOVE, MoveType
<1> QED
  BY <1>5, NoMoveAssumption DEF MoveType

LEMMA BonaZero == BONA_PIECE_ZERO \in BonaPieces
BY DEF BONA_PIECE_ZERO, BonaPieces, Square

LEMMA DirtyTyped ==
  ASSUME NEW p \in PositionType, NEW q \in PositionType, NEW m,
         NEW no0 \in 0..PIECE_NUMBER_NB, NEW no1 \in 0..PIECE_NUMBER_NB
  PROVE  DirtyPieceOf(p, q, m, no0, no1) \in DirtyType
<1> DEFINE no == [i \in 0..1 |-> IF i = 0 THEN no0
                                 ELSE IF DirtyNum(m) = 2 THEN no1 ELSE Stale]
           Of(list) == [i \in 0..1 |-> IF no[i] = Stale THEN BONA_PIECE_ZERO
                                       ELSE list[no[i]]]
<1>1. p.pieceList \in ListType /\ q.pieceList \in ListType
  BY PositionParts
<1>2. no \in [0..1 -> 0..PIECE_NUMBER_NB]
  BY DEF Stale, PIECE_NUMBER_NB
<1>3. ASSUME NEW n \in 0..PIECE_NUMBER_NB, n # Stale
      PROVE  n \in PieceNumber
  BY <1>3 DEF Stale, PIECE_NUMBER_NB, PieceNumber
<1> HIDE DEF no
<1>4. ASSUME NEW list \in ListType
      PROVE  Of(list) \in [0..1 -> BonaPieces]
  <2>1. ASSUME NEW i \in 0..1
        PROVE  (IF no[i] = Stale THEN BONA_PIECE_ZERO ELSE list[no[i]]) \in BonaPieces
    <3>1. no[i] \in 0..PIECE_NUMBER_NB
      BY <1>2
    <3>2. CASE no[i] = Stale
      BY <3>2, BonaZero
    <3>3. CASE no[i] # Stale
      BY <1>3, <1>4, <3>1, <3>3 DEF ListType
    <3> QED
      BY <3>2, <3>3
  <2> QED
    BY <2>1
<1>5. DirtyNum(m) \in 0..2
  BY DEF DirtyNum
<1> DEFINE a == Of(p.pieceList)
           b == Of(q.pieceList)
           n == DirtyNum(m)
<1>6. a \in [0..1 -> BonaPieces] /\ b \in [0..1 -> BonaPieces]
  BY <1>1, <1>4
<1>7. DirtyPieceOf(p, q, m, no0, no1) =
        [dirty_num |-> n, pieceNo |-> no, old_piece |-> a, new_piece |-> b]
  BY Zenon DEF DirtyPieceOf, no
<1>8. n \in 0..2
  BY <1>5
<1> HIDE DEF a, b, n, Of
<1>9. [dirty_num |-> n, pieceNo |-> no, old_piece |-> a, new_piece |-> b] \in DirtyType
  BY <1>2, <1>6, <1>8 DEF DirtyType
<1> QED
  BY <1>7, <1>9

LEMMA MadeInfo ==
  ASSUME NEW p, Good(p), NEW m, MoveOk(p, m)
  PROVE  Made(p, m).st \in StateInfo /\ Made(p, m).st.move = m
<1> DEFINE d == DirtyPieceOf(p, Step5(p, m), m, MovedNo(p, m), CapturedNo(p, m))
           q == Step5(p, m)
<1>1. q \in PositionType
  BY Step5Fields DEF Sound
<1>2. p \in PositionType /\ p.pieceNoOn \in NosType
  BY PositionParts DEF Good, Sound
<1>3. MovedNo(p, m) \in 0..PIECE_NUMBER_NB
  BY <1>2 DEF MoveOk, MovedNo, NosType
<1>4. CaptureSq(m) \in Square
  <2>1. m.to \in Square /\ RookFrom(m.to) \in Square
    BY DEF MoveOk, RookFrom, Square, A1, A8, H1, H8
  <2>2. Xor8(m.to) \in Square
    BY <2>1, Xor8Facts
  <2> QED
    BY <2>1, <2>2 DEF CaptureSq
<1>5. CapturedNo(p, m) \in 0..PIECE_NUMBER_NB
  BY <1>2, <1>4 DEF CapturedNo, NosType
<1>6. d \in DirtyType
  BY <1>1, <1>2, <1>3, <1>5, DirtyTyped
<1>7. m \in MoveType
  BY MoveTyped
<1>8. Made(p, m).st = [posKey |-> p.key, move |-> m, epSquare |-> p.epSquare,
               rule50 |-> p.rule50, castlingRights |-> p.castlingRights,
               dirtyPiece |-> d]
  BY MadeSteps
<1> HIDE DEF d
<1>9. /\ p.key \in KeyType /\ p.epSquare \in Square /\ p.rule50 \in Nat
      /\ p.castlingRights \in SUBSET (OO \cup OOO)
  BY <1>2 DEF PositionType
<1> QED
  BY <1>6, <1>7, <1>8, <1>9 DEF StateInfo

-----------------------------------------------------------------------------
(* What a StateInfo tells TakeMove.                                        *)

\* From the list old to the list new only the pieces of d change, each of
\* them once and from what d says it was to what d says it is; and a king is
\* never the second of them, so that no king is put back as a captured piece.
Difference(old, new, d) ==
  /\ \A i \in 0..(d.dirty_num - 1) :
       /\ d.pieceNo[i] \in PieceNumber
       /\ d.old_piece[i] = old[d.pieceNo[i]] /\ d.new_piece[i] = new[d.pieceNo[i]]
  /\ d.dirty_num = 2 => /\ d.pieceNo[0] # d.pieceNo[1]
                        /\ d.pieceNo[1] < PIECE_NUMBER_WKING
  /\ \A no \in PieceNumber :
       new[no] # old[no] => \E i \in 0..(d.dirty_num - 1) : d.pieceNo[i] = no

LEMMA ListElsewhere ==
  ASSUME NEW p, Good(p), NEW m, MoveOk(p, m), NEW no \in PieceNumber,
         no # MovedNo(p, m), DirtyNum(m) = 2 => no # CapturedNo(p, m)
  PROVE  List5(p, m)[no] = p.pieceList[no]
<1>1. p.pieceList \in ListType
  BY PositionParts DEF Good, Sound
<1>2. \A list, k, bona : DOMAIN list = PieceNumber =>
        DOMAIN Listed(list, k, bona) = PieceNumber
  BY DEF Listed
<1>3. \A list, k, bona : DOMAIN list = PieceNumber /\ k # no =>
        Listed(list, k, bona)[no] = list[no]
  BY DEF Listed
<1>4. Takes(m) \/ m.flag = "castle" => no # CapturedNo(p, m)
  BY DEF Takes, DirtyNum
<1>5. DOMAIN List3(p, m) = PieceNumber /\ List3(p, m)[no] = p.pieceList[no]
  BY <1>1, <1>2, <1>3, <1>4 DEF List3, ListType
<1>6. DOMAIN List4(p, m) = PieceNumber /\ List4(p, m)[no] = p.pieceList[no]
  BY <1>2, <1>3, <1>5 DEF List4
<1> QED
  BY <1>2, <1>3, <1>4, <1>6 DEF List5

LEMMA CapturedIsNoKing ==
  ASSUME NEW p, Good(p), NEW m, MoveOk(p, m), DirtyNum(m) = 2
  PROVE  CapturedNo(p, m) \in PieceNumber /\ CapturedNo(p, m) < PIECE_NUMBER_WKING
<1>1. /\ p.board \in BoardType /\ p.pieceNoOn \in NosType
      /\ p.pieceList \in ListType /\ p.stm \in Colors
      /\ ListOk(p.board, p.pieceNoOn, p.pieceList)
  BY PositionParts DEF Good, Sound
<1>2. \A c \in Colors : /\ MakePiece(c, PAWN) \in Pieces /\ MakePiece(c, ROOK) \in Pieces
                        /\ PieceTypeOf(MakePiece(c, PAWN)) = PAWN
                        /\ PieceTypeOf(MakePiece(c, ROOK)) = ROOK
  BY MakePieceFacts DEF PAWN, ROOK, KING
<1>3. CaptureSq(m) \in Square
  BY MoveFacts
<1>4. /\ p.board[CaptureSq(m)] \in Pieces
      /\ PieceTypeOf(p.board[CaptureSq(m)]) # KING
  <2>1. m.capt # EMPTY \/ m.flag = "enpas" \/ m.flag = "castle"
    BY DEF DirtyNum
  <2>2. CASE m.capt # EMPTY
    BY <2>2, MoveFacts
  <2>3. CASE m.flag = "enpas"
    BY <1>1, <1>2, <2>3, MoveFacts, OtherFacts DEF PAWN, KING
  <2>4. CASE m.flag = "castle"
    <3>1. p.board[RookFrom(m.to)] = MakePiece(p.stm, ROOK)
      BY <2>4 DEF MoveOk
    <3> QED
      BY <1>1, <1>2, <2>4, <3>1, MoveFacts DEF ROOK, KING
  <2> QED
    BY <2>1, <2>2, <2>3, <2>4
<1>5. /\ CapturedNo(p, m) \in PieceNumber
      /\ CapturedNo(p, m) # PIECE_NUMBER_WKING /\ CapturedNo(p, m) # PIECE_NUMBER_BKING
  BY <1>1, <1>3, <1>4, ListFacts DEF CapturedNo
<1> QED
  BY <1>5 DEF PieceNumber, PIECE_NUMBER_WKING, PIECE_NUMBER_BKING

\* The dirtyPiece that MakeMove (makemove.cpp) leaves is the whole difference
\* of the piece lists before and after: TakeMove finds in it the number of
\* each piece it has to put back, and changes no piece twice.
THEOREM DirtyPieceIsDifference ==
  ASSUME NEW p, Good(p), NEW m, MoveOk(p, m)
  PROVE  Difference(p.pieceList, Made(p, m).pos.pieceList, Made(p, m).st.dirtyPiece)
<1> DEFINE no0 == MovedNo(p, m)
           no1 == CapturedNo(p, m)
           r   == Step5(p, m)
           new == Made(p, m).pos.pieceList
           old == p.pieceList
           d   == Made(p, m).st.dirtyPiece
           n   == DirtyNum(m)
           no  == [i \in 0..1 |-> IF i = 0 THEN no0 ELSE IF n = 2 THEN no1 ELSE Stale]
           Of(list) == [i \in 0..1 |-> IF no[i] = Stale THEN BONA_PIECE_ZERO
                                       ELSE list[no[i]]]
<1>1. new = List5(p, m) /\ r.pieceList = List5(p, m)
  BY MadeFields, Step5Fields DEF Moved
<1>2. d = DirtyPieceOf(p, r, m, no0, no1)
  <2> DEFINE e == DirtyPieceOf(p, r, m, no0, no1)
             s == Made(p, m).st
  <2>1. s = [posKey |-> p.key, move |-> m, epSquare |-> p.epSquare,
             rule50 |-> p.rule50, castlingRights |-> p.castlingRights,
             dirtyPiece |-> e]
    BY MadeSteps
  <2> HIDE DEF e, s
  <2>2. s.dirtyPiece = e
    BY <2>1
  <2> QED
    BY <2>2 DEF e, s
<1>3. d = [dirty_num |-> n, pieceNo |-> no, old_piece |-> Of(old), new_piece |-> Of(new)]
  BY <1>1, <1>2 DEF DirtyPieceOf
<1>4. d.dirty_num = n /\ d.pieceNo = no /\ d.old_piece = Of(old) /\ d.new_piece = Of(new)
  BY <1>3
<1>5. n \in {1, 2} /\ no0 \in PieceNumber
  BY MoveFacts DEF DirtyNum
<1>6. n = 2 => no1 \in PieceNumber /\ no1 < PIECE_NUMBER_WKING /\ no0 # no1
  <2>1. n = 2 => m.capt # EMPTY \/ m.flag \in {"enpas", "castle"}
    BY DEF DirtyNum
  <2>2. n = 2 => no0 # no1
    BY <2>1, MoveFacts
  <2> QED
    BY <2>2, CapturedIsNoKing
<1>7. \A k \in PieceNumber : k # no0 /\ (n = 2 => k # no1) => new[k] = old[k]
  BY <1>1, ListElsewhere
<1>8. \A k \in PieceNumber : k # Stale
  BY DEF PieceNumber, Stale, PIECE_NUMBER_NB
<1> HIDE DEF no0, no1, new, old, d, n
<1>9. /\ no[0] = no0
      /\ n = 2 => no[1] = no1
      /\ \A i \in 0..1 : no[i] # Stale =>
           Of(old)[i] = old[no[i]] /\ Of(new)[i] = new[no[i]]
  OBVIOUS
<1> DEFINE a == Of(old)
           b == Of(new)
<1> HIDE DEF no, a, b
<1>10. \A i \in 0..(n - 1) : /\ no[i] \in PieceNumber
                             /\ a[i] = old[no[i]] /\ b[i] = new[no[i]]
  <2> TAKE i \in 0..(n - 1)
  <2>1. i = 0 \/ (i = 1 /\ n = 2)
    BY <1>5
  <2>2. no[i] \in PieceNumber /\ i \in 0..1
    BY <1>5, <1>6, <1>9, <2>1
  <2> QED
    BY <1>8, <1>9, <2>2 DEF a, b
<1>11. \A k \in PieceNumber : new[k] # old[k] => \E i \in 0..(n - 1) : no[i] = k
  <2> TAKE k \in PieceNumber
  <2> HAVE new[k] # old[k]
  <2>1. k = no0 \/ (n = 2 /\ k = no1)
    BY <1>7
  <2>2. CASE k = no0
    BY <1>5, <1>9, <2>2
  <2>3. CASE n = 2 /\ k = no1
    BY <1>9, <2>3
  <2> QED
    BY <2>1, <2>2, <2>3
<1>12. d.dirty_num = n /\ d.pieceNo = no /\ d.old_piece = a /\ d.new_piece = b
  BY <1>4 DEF a, b
<1>13. n = 2 => no[0] # no[1] /\ no[1] < PIECE_NUMBER_WKING
  BY <1>6, <1>9
<1>14. Difference(old, new, d)
  BY <1>10, <1>11, <1>12, <1>13 DEF Difference
<1> QED
  BY <1>14 DEF old, new, d

LEMMA NullInfoTyped ==
  ASSUME NEW p, Good(p)
  PROVE  NullInfo(p) \in StateInfo
<1>1. p \in PositionType
  BY DEF Good, Sound
<1>2. /\ p.key \in KeyType /\ p.epSquare \in Square /\ p.rule50 \in Nat
      /\ p.castlingRights \in SUBSET (OO \cup OOO)
  BY <1>1 DEF PositionType
<1>3. NoDirtyPiece \in DirtyType
  <2> DEFINE zero == [i \in 0..1 |-> BONA_PIECE_ZERO]
             stale == [i \in 0..1 |-> Stale]
  <2>1. zero \in [0..1 -> BonaPieces]
    BY BonaZero
  <2>2. stale \in [0..1 -> 0..PIECE_NUMBER_NB]
    BY DEF Stale, PIECE_NUMBER_NB
  <2>3. NoDirtyPiece = [dirty_num |-> 0, pieceNo |-> stale,
                        old_piece |-> zero, new_piece |-> zero]
    BY Zenon DEF NoDirtyPiece
  <2> HIDE DEF zero, stale
  <2> QED
    BY <2>1, <2>2, <2>3 DEF DirtyType
<1> HIDE DEF NoDirtyPiece
<1> QED
  BY <1>2, <1>3 DEF NullInfo, StateInfo

\* A link can be gone back, by the operation its entry calls for.
LEMMA LinkBack ==
  ASSUME NEW p, Good(p), NEW st, NEW q, Link(p, st, q)
  PROVE  /\ st.move # NoMove => TakenBack(q, st) = p
         /\ st.move = NoMove => FromHistory([q EXCEPT !.stm = Other(@)], st) = p
<1>1. CASE \E m \in Generated(p) : st = Made(p, m).st /\ q = Made(p, m).pos
  <2>1. PICK m \in Generated(p) : st = Made(p, m).st /\ q = Made(p, m).pos
    BY <1>1
  <2>2. MoveOk(p, m)
    BY GeneratedOk DEF Generated
  <2>3. st.move = m /\ m # NoMove
    BY <2>1, <2>2, MadeInfo, MoveTyped
  <2>4. TakenBack(Made(p, m).pos, Made(p, m).st) = p
    BY <2>2, TakenBackIsBefore
  <2> QED
    BY <2>1, <2>3, <2>4
<1>2. CASE st = NullInfo(p) /\ q = NullMoved(p)
  <2>1. /\ st.posKey = p.key /\ st.epSquare = p.epSquare
        /\ st.rule50 = p.rule50 /\ st.castlingRights = p.castlingRights
        /\ st.move = NoMove
    BY <1>2 DEF NullInfo
  <2>2. FromHistory([NullMoved(p) EXCEPT !.stm = Other(@)], st) = p
    BY <2>1, NullMoveTakenBack
  <2> QED
    BY <1>2, <2>1, <2>2
<1> QED
  BY <1>1, <1>2 DEF Link

LEMMA Extended ==
  ASSUME NEW b, NEW h, NEW p, LineOk(b, h, p), Good(p),
         NEW st \in StateInfo, NEW q, Link(p, st, q)
  PROVE  /\ LineOk(Append(b, p), Append(h, st), q)
         /\ Len(Append(h, st)) = Len(h) + 1
<1> DEFINE bb == Append(b, p)
           hh == Append(h, st)
<1>1. b \in Seq(PositionType) /\ h \in Seq(StateInfo) /\ Len(b) = Len(h)
  BY DEF LineOk
<1>2. p \in PositionType
  BY DEF Good, Sound
<1>3. /\ bb \in Seq(PositionType) /\ Len(bb) = Len(b) + 1
      /\ \A k \in 1..Len(b) : bb[k] = b[k]
      /\ bb[Len(b) + 1] = p
  BY <1>1, <1>2
<1>4. /\ hh \in Seq(StateInfo) /\ Len(hh) = Len(h) + 1
      /\ \A k \in 1..Len(h) : hh[k] = h[k]
      /\ hh[Len(h) + 1] = st
  BY <1>1
<1>5. Len(b) \in Nat
  BY <1>1
<1> HIDE DEF bb, hh
<1>6. ASSUME NEW k \in 1..Len(bb)
      PROVE  /\ Good(bb[k])
             /\ Link(bb[k], hh[k], IF k = Len(bb) THEN q ELSE bb[k + 1])
  <2>1. CASE k = Len(b) + 1
    <3>1. k = Len(bb) /\ bb[k] = p /\ hh[k] = st
      BY <1>1, <1>3, <1>4, <2>1
    <3> QED
      BY <3>1
  <2>2. CASE k = Len(b)
    <3>1. /\ k \in 1..Len(b) /\ k # Len(bb) /\ bb[k] = b[k] /\ hh[k] = h[k]
          /\ bb[k + 1] = p
      BY <1>1, <1>3, <1>4, <1>5, <1>6, <2>2
    <3>2. Good(b[k]) /\ Link(b[k], h[k], p)
      BY <2>2, <3>1 DEF LineOk
    <3> QED
      BY <3>1, <3>2
  <2>3. CASE k < Len(b)
    <3>1. /\ k \in 1..Len(b) /\ k # Len(bb) /\ k + 1 \in 1..Len(b) /\ k # Len(b)
      BY <1>1, <1>3, <1>4, <1>5, <1>6, <2>3
    <3>2. bb[k] = b[k] /\ hh[k] = h[k] /\ bb[k + 1] = b[k + 1]
      BY <1>1, <1>3, <1>4, <3>1
    <3>3. Good(b[k]) /\ Link(b[k], h[k], b[k + 1])
      BY <3>1 DEF LineOk
    <3> QED
      BY <3>1, <3>2, <3>3
  <2> QED
    BY <1>3, <1>5, <1>6, <2>1, <2>2, <2>3
<1>7. LineOk(bb, hh, q)
  BY <1>1, <1>3, <1>4, <1>6 DEF LineOk
<1> QED
  BY <1>4, <1>7 DEF bb, hh

LEMMA Shortened ==
  ASSUME NEW b, NEW h, NEW p, LineOk(b, h, p), Len(h) > 0
  PROVE  /\ LineOk(Front(b), Front(h), Last(b))
         /\ Len(Front(h)) = Len(h) - 1
         /\ Good(Last(b)) /\ Link(Last(b), Last(h), p)
<1> DEFINE bb == Front(b)
           hh == Front(h)
           n  == Len(b)
<1>1. /\ b \in Seq(PositionType) /\ h \in Seq(StateInfo) /\ n = Len(h)
      /\ n \in Nat /\ n > 0
  BY DEF LineOk
<1>2. /\ bb \in Seq(PositionType) /\ Len(bb) = n - 1
      /\ \A k \in 1..(n - 1) : bb[k] = b[k]
  BY <1>1 DEF Front
<1>3. /\ hh \in Seq(StateInfo) /\ Len(hh) = n - 1
      /\ \A k \in 1..(n - 1) : hh[k] = h[k]
  BY <1>1 DEF Front
<1>4. Last(b) = b[n] /\ Last(h) = h[n]
  BY <1>1 DEF Last
<1>5. \A k \in 1..n : Good(b[k]) /\ Link(b[k], h[k], IF k = n THEN p ELSE b[k + 1])
  BY DEF LineOk
<1> HIDE DEF bb, hh, n
<1>6. Good(Last(b)) /\ Link(Last(b), Last(h), p)
  BY <1>1, <1>4, <1>5
<1>7. ASSUME NEW k \in 1..Len(bb)
      PROVE  /\ Good(bb[k])
             /\ Link(bb[k], hh[k], IF k = Len(bb) THEN Last(b) ELSE bb[k + 1])
  <2>1. /\ k \in 1..n /\ k # n /\ k \in 1..(n - 1)
        /\ bb[k] = b[k] /\ hh[k] = h[k]
    BY <1>1, <1>2, <1>3, <1>7
  <2>2. Good(b[k]) /\ Link(b[k], h[k], b[k + 1])
    BY <1>5, <2>1
  <2>3. (IF k = Len(bb) THEN Last(b) ELSE bb[k + 1]) = b[k + 1]
    <3>1. CASE k = Len(bb)
      BY <1>1, <1>2, <1>4, <3>1
    <3>2. CASE k # Len(bb)
      <4>1. k + 1 \in 1..(n - 1)
        BY <1>1, <1>2, <1>7, <3>2
      <4> QED
        BY <1>2, <3>2, <4>1
    <3> QED
      BY <3>1, <3>2
  <2> QED
    BY <2>1, <2>2, <2>3
<1>8. LineOk(bb, hh, Last(b))
  BY <1>2, <1>3, <1>7 DEF LineOk
<1>9. Len(hh) = Len(h) - 1
  BY <1>1, <1>3
<1> QED
  BY <1>6, <1>8, <1>9 DEF bb, hh

-----------------------------------------------------------------------------
(* The inductive invariant.                                                *)

LEMMA InitIInv == Init => IInv
<1> SUFFICES ASSUME Init PROVE IInv
  OBVIOUS
<1>1. PICK f \in Fens : pos = ParseFen(f) /\ maxPly = f.plies
  BY DEF Init
<1>2. Good(pos)
  BY <1>1, ParseFenGood
<1>3. gameHistory = <<>> /\ before = <<>>
  BY DEF Init
<1>4. LineOk(before, gameHistory, pos)
  BY <1>3 DEF LineOk
<1>5. f.plies \in Nat
  BY PositionAssumption
<1>6. maxPly \in Nat /\ Len(gameHistory) <= maxPly
  BY <1>1, <1>3, <1>5
<1> QED
  BY <1>2, <1>4, <1>6 DEF IInv

\* What a legal move, an illegal move, and taking back do to the line.
Advanced(st, q) == /\ pos' = q /\ Good(q)
                   /\ gameHistory' = Append(gameHistory, st)
                   /\ before' = Append(before, pos)
                   /\ maxPly' = maxPly
                   /\ st \in StateInfo /\ Link(pos, st, q)
                   /\ Len(gameHistory) < maxPly
WentBack == /\ pos' = Last(before)
            /\ gameHistory' = Front(gameHistory)
            /\ before' = Front(before)
            /\ maxPly' = maxPly
            /\ Len(gameHistory) > 0

LEMMA AdvancedIInv ==
  ASSUME IInv, NEW st, NEW q, Advanced(st, q)
  PROVE  IInv' /\ Len(gameHistory') = Len(gameHistory) + 1
<1>1. /\ LineOk(before, gameHistory, pos) /\ Good(pos)
      /\ maxPly \in Nat /\ Len(gameHistory) \in Nat
  BY DEF IInv, LineOk
<1>2. /\ LineOk(Append(before, pos), Append(gameHistory, st), q)
      /\ Len(Append(gameHistory, st)) = Len(gameHistory) + 1
  BY <1>1, Extended DEF Advanced
<1>3. LineOk(before', gameHistory', pos')
  BY <1>2 DEF Advanced
<1>4. Len(gameHistory') = Len(gameHistory) + 1
  BY <1>2 DEF Advanced
<1>5. Len(gameHistory') <= maxPly' /\ maxPly' \in Nat
  BY <1>1, <1>4 DEF Advanced
<1>6. Good(pos')
  BY DEF Advanced
<1> QED
  BY <1>3, <1>4, <1>5, <1>6 DEF IInv

LEMMA WentBackIInv ==
  ASSUME IInv, WentBack
  PROVE  IInv' /\ Len(gameHistory') < Len(gameHistory)
<1>1. /\ LineOk(before, gameHistory, pos)
      /\ maxPly \in Nat /\ Len(gameHistory) \in Nat /\ Len(gameHistory) <= maxPly
  BY DEF IInv, LineOk
<1>2. /\ LineOk(Front(before), Front(gameHistory), Last(before))
      /\ Len(Front(gameHistory)) = Len(gameHistory) - 1
      /\ Good(Last(before))
  BY <1>1, Shortened DEF WentBack
<1>3. /\ LineOk(before', gameHistory', pos') /\ Good(pos')
      /\ Len(gameHistory') = Len(gameHistory) - 1
  BY <1>2 DEF WentBack
<1>4. Len(gameHistory') <= maxPly' /\ maxPly' \in Nat
  BY <1>1, <1>3 DEF WentBack
<1> QED
  BY <1>1, <1>3, <1>4 DEF IInv

LEMMA MakeMoveStep ==
  ASSUME IInv, Len(gameHistory) < maxPly, NEW m \in Generated(pos), MakeMove(m)
  PROVE  \/ Advanced(Made(pos, m).st, Made(pos, m).pos)
         \/ UNCHANGED vars
<1> DEFINE q  == Made(pos, m).pos
           st == Made(pos, m).st
<1>1. Good(pos) /\ MoveOk(pos, m)
  BY GeneratedOk DEF IInv, Generated
<1>2. Fit(q)
  BY <1>1, MadeFields
<1>3. st \in StateInfo /\ Link(pos, st, q)
  BY <1>1, MadeInfo DEF Link
<1>4. TakenBack(q, st) = pos
  BY <1>1, TakenBackIsBefore
<1>5. IF KingAttacked(q, Other(q.stm))
      THEN pos' = TakenBack(q, st) /\ UNCHANGED <<gameHistory, before, maxPly>>
      ELSE /\ pos' = q /\ gameHistory' = Append(gameHistory, st)
           /\ before' = Append(before, pos) /\ UNCHANGED maxPly
  BY Zenon DEF MakeMove
<1> HIDE DEF q, st
<1>6. CASE KingAttacked(q, Other(q.stm))
  BY <1>4, <1>5, <1>6 DEF vars
<1>7. CASE ~KingAttacked(q, Other(q.stm))
  <2>1. Good(q)
    BY <1>2, <1>7, GoodIsFit
  <2>2. Advanced(st, q)
    BY <1>3, <1>5, <1>7, <2>1 DEF Advanced
  <2> QED
    BY <2>2 DEF q, st
<1> QED
  BY <1>6, <1>7

LEMMA NullMoveStep ==
  ASSUME IInv, MakeNullMove
  PROVE  Advanced(NullInfo(pos), NullMoved(pos))
<1>1. Good(pos)
  BY DEF IInv
<1>2. ~KingAttacked(pos, pos.stm)
  BY DEF MakeNullMove
<1>3. Good(NullMoved(pos))
  BY <1>1, <1>2, NullMoveGood
<1>4. NullInfo(pos) \in StateInfo /\ Link(pos, NullInfo(pos), NullMoved(pos))
  BY <1>1, <1>2, NullInfoTyped DEF Link
<1>5. pos' = NullMoved(pos)
  BY Zenon DEF MakeNullMove, NullMoved
<1>6. gameHistory' = Append(gameHistory, NullInfo(pos))
  BY Zenon DEF MakeNullMove, NullInfo
<1>7. /\ before' = Append(before, pos) /\ maxPly' = maxPly
      /\ Len(gameHistory) < maxPly
  BY DEF MakeNullMove, histPly
<1> QED
  BY <1>3, <1>4, <1>5, <1>6, <1>7 DEF Advanced

LEMMA TakeBackStep ==
  ASSUME IInv, TakeBack \/ TakeBackNull
  PROVE  WentBack
<1>1. LineOk(before, gameHistory, pos) /\ Len(gameHistory) > 0
  BY DEF IInv, TakeBack, TakeBackNull, histPly
<1>2. Good(Last(before)) /\ Link(Last(before), Last(gameHistory), pos)
  BY <1>1, Shortened
<1>3. /\ Last(gameHistory).move # NoMove =>
           TakenBack(pos, Last(gameHistory)) = Last(before)
      /\ Last(gameHistory).move = NoMove =>
           FromHistory([pos EXCEPT !.stm = Other(@)], Last(gameHistory)) = Last(before)
  BY <1>2, LinkBack
<1>4. /\ gameHistory' = Front(gameHistory) /\ before' = Front(before)
      /\ maxPly' = maxPly
  BY DEF TakeBack, TakeBackNull, TakeMove, TakeNullMove
<1>5. pos' = Last(before)
  <2>1. CASE TakeBack
    BY <1>3, <2>1 DEF TakeBack, TakeMove
  <2>2. CASE TakeBackNull
    <3>1. /\ Last(gameHistory).move = NoMove
          /\ pos' = FromHistory([pos EXCEPT !.stm = Other(@)], Last(gameHistory))
      BY <2>2, Zenon DEF TakeBackNull, TakeNullMove
    <3> QED
      BY <1>3, <3>1, Zenon
  <2> QED
    BY <2>1, <2>2
<1> QED
  BY <1>1, <1>4, <1>5 DEF WentBack

\* Every step goes on, goes back, or leaves all as it was.
LEMMA StepCases ==
  ASSUME IInv, [Next]_vars
  PROVE  \/ \E st, q : Advanced(st, q)
         \/ WentBack
         \/ UNCHANGED vars
<1>1. CASE SearchMove
  <2>1. PICK m \in Generated(pos) : MakeMove(m)
    BY <1>1 DEF SearchMove, Generated
  <2>2. Len(gameHistory) < maxPly
    BY <1>1 DEF SearchMove, histPly
  <2> QED
    BY <2>1, <2>2, MakeMoveStep
<1>2. CASE TakeBack \/ TakeBackNull
  BY <1>2, TakeBackStep
<1>3. CASE MakeNullMove
  BY <1>3, NullMoveStep
<1> QED
  BY <1>1, <1>2, <1>3 DEF Next

LEMMA StepIInv ==
  ASSUME IInv, [Next]_vars
  PROVE  IInv'
<1>1. CASE UNCHANGED vars
  BY <1>1 DEF vars, IInv
<1>2. CASE WentBack
  BY <1>2, WentBackIInv
<1>3. CASE \E st, q : Advanced(st, q)
  BY <1>3, AdvancedIInv
<1> QED
  BY <1>1, <1>2, <1>3, StepCases

\* Every copy of the position agrees with the squares, the line is made of
\* generated moves and null moves, and each entry of the history can take
\* its move back.
THEOREM PositionInvariant == Spec => []IInv
<1>1. Init => IInv
  BY InitIInv
<1>2. IInv /\ [Next]_vars => IInv'
  BY StepIInv
<1> QED
  BY <1>1, <1>2, PTL DEF Spec

LEMMA RestoresStep ==
  ASSUME IInv, [Next]_vars
  PROVE  /\ Len(gameHistory') < Len(gameHistory) => pos' = Last(before)
         /\ Len(gameHistory') = Len(gameHistory) => pos' = pos
<1>1. Len(gameHistory) \in Nat
  BY DEF IInv, LineOk
<1>2. CASE UNCHANGED vars
  BY <1>1, <1>2 DEF vars
<1>3. CASE WentBack
  <2>1. Len(gameHistory') < Len(gameHistory) /\ pos' = Last(before)
    BY <1>3, WentBackIInv DEF WentBack
  <2>2. Len(gameHistory') # Len(gameHistory)
    BY <1>1, <2>1
  <2> QED
    BY <2>1, <2>2
<1>4. CASE \E st, q : Advanced(st, q)
  <2>1. Len(gameHistory') = Len(gameHistory) + 1
    BY <1>4, AdvancedIInv
  <2> QED
    BY <1>1, <2>1
<1> QED
  BY <1>2, <1>3, <1>4, StepCases

\* Taking back a move, legal or not, or a null move gives exactly the
\* position before it.
THEOREM TakingBackRestores == Spec => TakeBackRestores
<1>1. IInv /\ [Next]_vars =>
        [/\ Len(gameHistory') < Len(gameHistory) => pos' = Last(before)
         /\ Len(gameHistory') = Len(gameHistory) => pos' = pos]_vars
  BY RestoresStep
<1> QED
  BY <1>1, PositionInvariant, PTL DEF Spec, TakeBackRestores

\* The line from its k-th position on.
Entered(k) == IF k = Len(before) THEN pos ELSE before[k + 1]

\* Every StateInfo that a move has left tells how the lists before and after
\* that move differ, however many moves and take backs have come since.
DirtyPieceOk ==
  \A k \in 1..Len(gameHistory) :
    gameHistory[k].move # NoMove =>
      Difference(before[k].pieceList, Entered(k).pieceList, gameHistory[k].dirtyPiece)

LEMMA LineDirtyPiece == IInv => DirtyPieceOk
<1> SUFFICES ASSUME IInv, NEW k \in 1..Len(gameHistory), gameHistory[k].move # NoMove
             PROVE  Difference(before[k].pieceList, Entered(k).pieceList,
                               gameHistory[k].dirtyPiece)
  BY DEF DirtyPieceOk
<1> DEFINE p == before[k]
           st == gameHistory[k]
           q == Entered(k)
<1>1. Good(p) /\ Link(p, st, q)
  BY DEF IInv, LineOk, Entered
<1> HIDE DEF p, st, q
<1>2. ~(st = NullInfo(p))
  <2>1. NullInfo(p).move = NoMove
    BY DEF NullInfo
  <2> QED
    BY <2>1 DEF st
<1>3. PICK m \in Generated(p) : st = Made(p, m).st /\ q = Made(p, m).pos
  BY <1>1, <1>2 DEF Link
<1>4. MoveOk(p, m)
  BY <1>1, GeneratedOk DEF Generated
<1>5. Difference(p.pieceList, q.pieceList, st.dirtyPiece)
  BY <1>1, <1>3, <1>4, DirtyPieceIsDifference
<1> QED
  BY <1>5 DEF p, q, st

\* At every node of every line, each record that TakeMove (makemove.cpp) may
\* still come to read is the whole difference of the piece lists around the
\* move it will take back, none of them overwritten or left over from a
\* sibling.
THEOREM RecordsAreDifferences == Spec => []DirtyPieceOk
  BY PositionInvariant, LineDirtyPiece, PTL

LEMMA TypedPosition ==
  ASSUME IInv
  PROVE  TypeOK
<1>1. /\ pos \in PositionType /\ EpOk(pos) /\ LineOk(before, gameHistory, pos)
      /\ maxPly \in Nat /\ Len(gameHistory) <= maxPly
  BY DEF IInv, Good, Sound
<1>2. /\ pos.board \in [Square -> Pieces \cup {EMPTY}]
      /\ pos.stm \in {WHITE, BLACK} /\ pos.epSquare \in Square
      /\ pos.castlingRights \subseteq OO \cup OOO
      /\ pos.pieceNoOn \in [Square -> 0..PIECE_NUMBER_NB]
      /\ DOMAIN pos.pieceList = PieceNumber
  BY <1>1 DEF PositionType, Colors
<1>3. pos.epSquare \in {0} \cup {sq \in Square : RankOf(sq) \in {2, 5}}
  <2>1. CASE pos.epSquare # 0
    <3>1. RankOf(pos.epSquare) \in Int
      BY <1>2 DEF RankOf, Square
    <3>2. RelativeRank(pos.stm, RankOf(pos.epSquare)) = 5
      BY <1>1, <2>1 DEF EpOk
    <3>3. RankOf(pos.epSquare) \in {2, 5}
      BY <1>2, <3>1, <3>2 DEF RelativeRank
    <3> QED
      BY <1>2, <3>3
  <2> QED
    BY <2>1
<1>4. histPly \in 0..maxPly /\ Len(before) = histPly
  BY <1>1 DEF LineOk, histPly
<1> QED
  BY <1>2, <1>3, <1>4 DEF TypeOK

LEMMA PiecesOn ==
  ASSUME NEW p \in PositionType, Agrees(p), NEW c \in Colors
  PROVE  LET On(pcs) == {sq \in Square : p.board[sq] \in pcs} IN
         /\ \A pt \in PAWN..KING : ColorPieceBB(p, c, pt) = On({MakePiece(c, pt)})
         /\ p.nonPawnCount[c] =
              Cardinality(On({pc \in Pieces : ColorOf(pc) = c /\ NonPawn(pc) = 1}))
<1> DEFINE On(pcs) == {sq \in Square : p.board[sq] \in pcs}
<1>1. \A sq \in Square : p.board[sq] = EMPTY \/ p.board[sq] \in Pieces
  BY PositionParts
<1>2. EMPTY \notin Pieces
  BY PieceFacts
<1>3. ASSUME NEW pt \in PAWN..KING
      PROVE  ColorPieceBB(p, c, pt) = On({MakePiece(c, pt)})
  <2>1. MakePiece(c, pt) \in Pieces /\ ColorOf(MakePiece(c, pt)) = c
        /\ PieceTypeOf(MakePiece(c, pt)) = pt
    BY MakePieceFacts
  <2>2. ASSUME NEW sq \in Square
        PROVE  p.board[sq] # EMPTY /\ ColorOf(p.board[sq]) = c
               /\ PieceTypeOf(p.board[sq]) = pt <=> p.board[sq] = MakePiece(c, pt)
    <3>1. CASE p.board[sq] = EMPTY
      BY <1>2, <2>1, <3>1
    <3>2. CASE p.board[sq] \in Pieces
      BY <1>2, <2>1, <3>2, PieceFacts
    <3> QED
      BY <1>1, <3>1, <3>2
  <2>3. ColorPieceBB(p, c, pt) = OfColor(p.board, c) \cap OfType(p.board, pt)
    BY DEF ColorPieceBB, Agrees
  <2>4. OfColor(p.board, c) \cap OfType(p.board, pt) = On({MakePiece(c, pt)})
    BY <2>2 DEF OfColor, OfType
  <2> QED
    BY <2>3, <2>4
<1>4. NonPawns(p.board, c) = On({pc \in Pieces : ColorOf(pc) = c /\ NonPawn(pc) = 1})
  BY <1>1, <1>2 DEF NonPawns
<1>5. p.nonPawnCount[c] = Cardinality(NonPawns(p.board, c))
  BY DEF Agrees
<1> QED
  BY <1>3, <1>4, <1>5, Zenon

LEMMA AllPieces ==
  ASSUME NEW p \in PositionType, Agrees(p)
  PROVE  p.pieceBB[ALL] = p.colorBB[WHITE] \cup p.colorBB[BLACK]
<1>1. \A sq \in Square : p.board[sq] # EMPTY => ColorOf(p.board[sq]) \in Colors
  BY PositionParts, PieceFacts
<1>2. WHITE \in Colors /\ BLACK \in Colors
  BY DEF Colors
<1>3. /\ p.pieceBB[ALL] = Occupied(p.board)
      /\ p.colorBB[WHITE] = OfColor(p.board, WHITE)
      /\ p.colorBB[BLACK] = OfColor(p.board, BLACK)
  BY <1>2 DEF Agrees
<1>4. Occupied(p.board) = OfColor(p.board, WHITE) \cup OfColor(p.board, BLACK)
  BY <1>1 DEF Occupied, OfColor, Colors
<1> QED
  BY <1>3, <1>4

LEMMA KingCount ==
  ASSUME NEW board, OneKing(board), NEW c \in Colors
  PROVE  Cardinality({sq \in Square : board[sq] \in {MakePiece(c, KING)}}) = 1
<1>1. PICK k \in Square : \A sq \in Square : board[sq] = MakePiece(c, KING) <=> sq = k
  BY DEF OneKing
<1>2. {sq \in Square : board[sq] \in {MakePiece(c, KING)}} = {k}
  BY <1>1
<1> QED
  BY <1>2, FS_Singleton

LEMMA GoodCopies ==
  ASSUME IInv
  PROVE  CopiesAgree
<1>1. /\ pos \in PositionType /\ Agrees(pos) /\ KeyOk(pos) /\ OneKing(pos.board)
      /\ ListOk(pos.board, pos.pieceNoOn, pos.pieceList)
      /\ ~KingAttacked(pos, Other(pos.stm))
      /\ pos.epSquare # 0 => RelativeRank(pos.stm, RankOf(pos.epSquare)) = 5
  BY DEF IInv, Good, Sound, EpOk
<1>2. EvalListIsValid
  BY <1>1 DEF EvalListIsValid, ListOk
<1>3. pos.key = GeneratePosKey(pos)
  BY <1>1, KeyAsGenerated
<1>4. pos.pieceBB[ALL] = pos.colorBB[WHITE] \cup pos.colorBB[BLACK]
  BY <1>1, AllPieces
<1> DEFINE On(pcs) == {sq \in Square : pos.board[sq] \in pcs}
<1>5. ASSUME NEW c \in {WHITE, BLACK}
      PROVE  /\ Cardinality(On({MakePiece(c, KING)})) = 1
             /\ \A pt \in PAWN..KING :
                  ColorPieceBB(pos, c, pt) = On({MakePiece(c, pt)})
             /\ pos.nonPawnCount[c] = Cardinality(
                  On({pc \in Pieces : ColorOf(pc) = c /\ NonPawn(pc) = 1}))
  <2>1. c \in Colors
    BY DEF Colors
  <2>2. Cardinality(On({MakePiece(c, KING)})) = 1
    BY <1>1, <2>1, KingCount
  <2>3. /\ \A pt \in PAWN..KING :
             ColorPieceBB(pos, c, pt) = On({MakePiece(c, pt)})
        /\ pos.nonPawnCount[c] = Cardinality(
             On({pc \in Pieces : ColorOf(pc) = c /\ NonPawn(pc) = 1}))
    BY <1>1, <2>1, PiecesOn
  <2> QED
    BY <2>2, <2>3
<1>6. TypeOK
  BY TypedPosition
<1>7. PositionOk
  BY <1>1, <1>3, <1>4, <1>5, <1>6, Zenon DEF PositionOk
<1> QED
  BY <1>2, <1>7 DEF CopiesAgree

\* In every position of a line, after legal and illegal moves, null moves and
\* taking back, the bitboards, counts, key and piece list that MakeMove and
\* TakeMove update by hand are those of the squares.
THEOREM EveryCopyAgrees == Spec => []CopiesAgree
BY PositionInvariant, GoodCopies, PTL
-----------------------------------------------------------------------------
(* Material and phase, which are kept as sums, are those of the squares.   *)

\* One summand changes.
Change(v, s, x) == [v EXCEPT ![s] = x]

LEMMA SumChanged ==
  ASSUME NEW v \in [Square -> Int], NEW s \in Square, NEW x \in Int
  PROVE  SquareSum(Change(v, s, x)) = SquareSum(v) - v[s] + x
<1> DEFINE w == Change(v, s, x)
<1>1. w \in [Square -> Int] /\ w[s] = x /\ \A t \in Square : t # s => w[t] = v[t]
  BY DEF Change
<1> HIDE DEF w
<1>2. PICK g : Summing(v, g, 64) /\ g[64] = SquareSum(v)
  BY SquareSums
<1>3. PICK h : Summing(w, h, 64) /\ h[64] = SquareSum(w)
  BY <1>1, SquareSums
<1>4. /\ g \in [0..64 -> Int] /\ h \in [0..64 -> Int]
      /\ \A i \in 0..64 : g[i] = IF i = 0 THEN 0 ELSE g[i - 1] + v[i - 1]
      /\ \A i \in 0..64 : h[i] = IF i = 0 THEN 0 ELSE h[i - 1] + w[i - 1]
  BY <1>2, <1>3 DEF Summing
<1> DEFINE Shifted(n) == h[n] = IF n <= s THEN g[n] ELSE g[n] - v[s] + x
           T == {n \in Nat : n <= 64 /\ ~Shifted(n)}
<1>5. ASSUME T # {}
      PROVE  FALSE
  <2>1. PICK n \in T : \A l \in T : n <= l
    <3>1. T \in SUBSET Nat
      OBVIOUS
    <3> HIDE DEF T
    <3> QED
      BY <1>5, <3>1, Smallest
  <2>2. n \in Nat /\ n <= 64 /\ ~Shifted(n)
    BY <2>1
  <2>3. n # 0
    BY <1>4, <2>2 DEF Square
  <2>4. n - 1 \in Nat /\ n - 1 \in Square /\ n - 1 \in 0..64 /\ n \in 0..64
    BY <2>2, <2>3 DEF Square
  <2>5. Shifted(n - 1)
    <3>1. n - 1 \notin T
      BY <2>1, <2>2, <2>4
    <3> QED
      BY <2>2, <2>4, <3>1
  <2>6. g[n] = g[n - 1] + v[n - 1] /\ h[n] = h[n - 1] + w[n - 1]
    BY <1>4, <2>3, <2>4
  <2>7. /\ g[n - 1] \in Int /\ v[n - 1] \in Int /\ v[s] \in Int /\ s \in 0..63
        /\ n - 1 = s => w[n - 1] = x /\ v[n - 1] = v[s]
        /\ n - 1 # s => w[n - 1] = v[n - 1]
    BY <1>1, <1>4, <2>4 DEF Square
  <2> HIDE DEF T
  <2>8. CASE n - 1 < s
    <3>1. h[n - 1] = g[n - 1] /\ n <= s /\ n - 1 # s
      BY <2>2, <2>5, <2>7, <2>8
    <3> QED
      BY <2>2, <2>6, <2>7, <3>1
  <2>9. CASE n - 1 = s
    <3>1. h[n - 1] = g[n - 1] /\ ~(n <= s)
      BY <2>2, <2>5, <2>7, <2>9
    <3> QED
      BY <2>2, <2>6, <2>7, <2>9, <3>1
  <2>10. CASE n - 1 > s
    <3>1. h[n - 1] = g[n - 1] - v[s] + x /\ ~(n <= s) /\ n - 1 # s
      BY <2>2, <2>5, <2>7, <2>10
    <3> QED
      BY <2>2, <2>6, <2>7, <3>1
  <2> QED
    BY <2>2, <2>7, <2>8, <2>9, <2>10
<1>6. Shifted(64)
  BY <1>5
<1>7. ~(64 <= s)
  BY DEF Square
<1> QED
  BY <1>2, <1>3, <1>6, <1>7 DEF w

\* The sum over the squares of what the pieces on them are worth.
Worth(b, g) == [sq \in Square |-> IF b[sq] = EMPTY THEN 0 ELSE g[<<b[sq], sq>>]]
WorthType == [Pieces \X Square -> Int]

LEMMA WorthChanged ==
  ASSUME NEW b \in BoardType, NEW g \in WorthType, NEW sq \in Square,
         NEW pc \in Pieces \cup {EMPTY}
  PROVE  LET d == [b EXCEPT ![sq] = pc]
             x == IF pc = EMPTY THEN 0 ELSE g[<<pc, sq>>] IN
         /\ d \in BoardType /\ Worth(b, g) \in [Square -> Int]
         /\ SquareSum(Worth(d, g)) = SquareSum(Worth(b, g)) - Worth(b, g)[sq] + x
<1> DEFINE d == [b EXCEPT ![sq] = pc]
           x == IF pc = EMPTY THEN 0 ELSE g[<<pc, sq>>]
           v == Worth(b, g)
<1>1. /\ d \in BoardType /\ d[sq] = pc
      /\ \A t \in Square : t # sq => d[t] = b[t]
  BY DEF BoardType
<1>2. x \in Int
  BY DEF WorthType
<1>3. v \in [Square -> Int]
  BY DEF Worth, WorthType, BoardType
<1> HIDE DEF d, x
<1>4. Worth(d, g) = Change(v, sq, x)
  <2>1. \A t \in Square : Worth(d, g)[t] = Change(v, sq, x)[t]
    <3> TAKE t \in Square
    <3>1. CASE t = sq
      BY <1>1, <1>3, <3>1 DEF Worth, Change, x
    <3>2. CASE t # sq
      BY <1>1, <1>3, <3>2 DEF Worth, Change
    <3> QED
      BY <3>1, <3>2
  <2>2. DOMAIN Worth(d, g) = Square /\ DOMAIN Change(v, sq, x) = Square
    BY <1>3 DEF Worth, Change
  <2>3. /\ Worth(d, g) = [t \in Square |-> Worth(d, g)[t]]
        /\ Change(v, sq, x) = [t \in Square |-> Change(v, sq, x)[t]]
    BY <1>3 DEF Worth, Change
  <2> QED
    BY <2>1, <2>3
<1> HIDE DEF v
<1>5. SquareSum(Change(v, sq, x)) = SquareSum(v) - v[sq] + x
  BY <1>2, <1>3, SumChanged
<1> QED
  BY <1>1, <1>3, <1>4, <1>5 DEF d, x, v

\* That sum, and what each step of MakeMove does to it.
Total(b, g) == SquareSum(Worth(b, g))

LEMMA TotalEmptied ==
  ASSUME NEW b \in BoardType, NEW g \in WorthType, NEW sq \in Square, b[sq] \in Pieces
  PROVE  /\ Emptied(b, sq) \in BoardType /\ Emptied(b, sq)[sq] = EMPTY
         /\ \A t \in Square : t # sq => Emptied(b, sq)[t] = b[t]
         /\ Total(Emptied(b, sq), g) = Total(b, g) - g[<<b[sq], sq>>]
<1>1. EMPTY \in Pieces \cup {EMPTY} /\ b[sq] # EMPTY
  BY PieceFacts
<1>2. Worth(b, g)[sq] = g[<<b[sq], sq>>]
  BY <1>1 DEF Worth
<1>3. SquareSum(Worth(b, g)) \in Int /\ g[<<b[sq], sq>>] \in Int
  <2>1. Worth(b, g) \in [Square -> Int]
    BY <1>1, WorthChanged
  <2>2. SquareSum(Worth(b, g)) \in Int
    BY <2>1, SquareSumInt
  <2>3. <<b[sq], sq>> \in Pieces \X Square
    OBVIOUS
  <2> QED
    BY <2>2, <2>3 DEF WorthType
<1>4. SquareSum(Worth([b EXCEPT ![sq] = EMPTY], g))
        = SquareSum(Worth(b, g)) - Worth(b, g)[sq] + 0
  BY <1>1, WorthChanged
<1>5. Total(Emptied(b, sq), g) = Total(b, g) - g[<<b[sq], sq>>]
  BY <1>2, <1>3, <1>4 DEF Total, Emptied
<1> QED
  BY <1>5 DEF Emptied, BoardType

LEMMA TotalFilled ==
  ASSUME NEW b \in BoardType, NEW g \in WorthType, NEW sq \in Square, NEW pc \in Pieces
  PROVE  /\ Filled(b, sq, pc) \in BoardType /\ Filled(b, sq, pc)[sq] = pc
         /\ \A t \in Square : t # sq => Filled(b, sq, pc)[t] = b[t]
         /\ Total(b, g) \in Int
         /\ Total(Filled(b, sq, pc), g) = g[<<pc, sq>>] +
              (IF b[sq] = EMPTY THEN Total(b, g) ELSE Total(b, g) - g[<<b[sq], sq>>])
<1>1. pc \in Pieces \cup {EMPTY} /\ pc # EMPTY
  BY PieceFacts
<1>2. Worth(b, g)[sq] = IF b[sq] = EMPTY THEN 0 ELSE g[<<b[sq], sq>>]
  BY DEF Worth
<1>3. /\ SquareSum(Worth(b, g)) \in Int /\ g[<<pc, sq>>] \in Int
      /\ b[sq] # EMPTY => g[<<b[sq], sq>>] \in Int
  BY WorthChanged, SquareSumInt DEF WorthType, BoardType
<1>4. SquareSum(Worth([b EXCEPT ![sq] = pc], g))
        = SquareSum(Worth(b, g)) - Worth(b, g)[sq] + g[<<pc, sq>>]
  BY <1>1, WorthChanged
<1>5. Total(Filled(b, sq, pc), g) = g[<<pc, sq>>] +
        (IF b[sq] = EMPTY THEN Total(b, g) ELSE Total(b, g) - g[<<b[sq], sq>>])
  BY <1>2, <1>3, <1>4 DEF Total, Filled
<1> QED
  BY <1>3, <1>5 DEF Filled, BoardType, Total

\* The sum after a move, from what it takes, moves and puts down.
LEMMA TotalMoved ==
  ASSUME NEW p, Good(p), NEW m, MoveOk(p, m), NEW g \in WorthType
  PROVE  /\ Board4(p, m) \in BoardType
         /\ Board4(p, m)[m.to] = p.board[m.from] /\ Board4(p, m)[m.from] = EMPTY
         /\ \A t \in Square \ {m.from, m.to} : Board4(p, m)[t] = p.board[t]
         /\ Total(p.board, g) \in Int
         /\ Total(Board4(p, m), g)
              = (Total(p.board, g) - (IF m.capt = EMPTY THEN 0 ELSE g[<<m.capt, m.to>>]))
                + (g[<<p.board[m.from], m.to>>] - g[<<p.board[m.from], m.from>>])
<1> DEFINE b  == p.board
           b2 == Board2(p, m)
           b3 == Emptied(b2, m.from)
           pc == p.board[m.from]
<1>1. /\ b \in BoardType /\ m.from \in Square /\ m.to \in Square /\ m.from # m.to
      /\ pc \in Pieces
      /\ m.capt # EMPTY => m.capt \in Pieces /\ b[m.to] = m.capt
  BY PositionParts, MoveFacts DEF Good, Sound
<1>2. /\ b2 \in BoardType /\ b2[m.to] = EMPTY /\ b2[m.from] = pc
      /\ \A s \in Square : s # m.to => b2[s] = b[s]
  BY Board2Facts
<1>3. Total(b, g) \in Int /\ Total(b2, g) \in Int
  BY <1>1, <1>2, TotalFilled
<1>4. /\ g[<<pc, m.to>>] \in Int /\ g[<<pc, m.from>>] \in Int
      /\ m.capt # EMPTY => g[<<m.capt, m.to>>] \in Int
  BY <1>1 DEF WorthType
<1>5. Total(b2, g) = Total(b, g) - (IF m.capt = EMPTY THEN 0 ELSE g[<<m.capt, m.to>>])
  <2>1. CASE m.capt = EMPTY
    BY <1>3, <2>1 DEF Board2
  <2>2. CASE m.capt # EMPTY
    <3>1. b2 = Emptied(b, m.to)
      BY <2>2 DEF Board2
    <3> QED
      BY <1>1, <2>2, <3>1, TotalEmptied
  <2> QED
    BY <2>1, <2>2
<1> HIDE DEF b, b2, pc
<1>6. /\ b3 \in BoardType /\ b3[m.from] = EMPTY
      /\ \A t \in Square : t # m.from => b3[t] = b2[t]
      /\ Total(b3, g) = Total(b2, g) - g[<<pc, m.from>>]
  BY <1>1, <1>2, TotalEmptied
<1>7. Board4(p, m) = Filled(b3, m.to, pc)
  BY DEF Board4, b2, pc
<1> HIDE DEF b3
<1>8. /\ Filled(b3, m.to, pc) \in BoardType /\ Filled(b3, m.to, pc)[m.to] = pc
      /\ \A t \in Square : t # m.to => Filled(b3, m.to, pc)[t] = b3[t]
      /\ Total(b3, g) \in Int
      /\ Total(Filled(b3, m.to, pc), g) = g[<<pc, m.to>>] + Total(b3, g)
  <2>1. b3[m.to] = EMPTY
    BY <1>1, <1>2, <1>6
  <2>2. b3 \in BoardType /\ m.to \in Square /\ pc \in Pieces
    BY <1>1, <1>6
  <2>3. Total(Filled(b3, m.to, pc), g) = g[<<pc, m.to>>] +
          (IF b3[m.to] = EMPTY THEN Total(b3, g)
           ELSE Total(b3, g) - g[<<b3[m.to], m.to>>])
    BY <2>2, TotalFilled
  <2>4. /\ Filled(b3, m.to, pc) \in BoardType /\ Filled(b3, m.to, pc)[m.to] = pc
        /\ \A t \in Square : t # m.to => Filled(b3, m.to, pc)[t] = b3[t]
    BY <2>2 DEF Filled, BoardType
  <2>5. Total(b3, g) \in Int
    BY <2>2, TotalFilled
  <2> QED
    BY <2>1, <2>3, <2>4, <2>5
<1>9. Total(Board4(p, m), g)
        = (Total(b, g) - (IF m.capt = EMPTY THEN 0 ELSE g[<<m.capt, m.to>>]))
          + (g[<<pc, m.to>>] - g[<<pc, m.from>>])
  BY <1>3, <1>4, <1>5, <1>6, <1>7, <1>8
<1>10. \A t \in Square \ {m.from, m.to} : Board4(p, m)[t] = b[t]
  BY <1>2, <1>6, <1>7, <1>8
<1> QED
  BY <1>1, <1>3, <1>6, <1>7, <1>8, <1>9, <1>10 DEF b, pc

\* What a capture en passant, the rook of castling or a promotion adds.
More(p, m, g) ==
  CASE m.flag = "enpas"  -> -g[<<MakePiece(Other(p.stm), PAWN), CaptureSq(m)>>]
    [] m.flag = "castle" -> g[<<MakePiece(p.stm, ROOK), RookTo(m.to)>>]
                            - g[<<MakePiece(p.stm, ROOK), CaptureSq(m)>>]
    [] m.flag \notin {"enpas", "castle"} /\ m.promo # EMPTY ->
         g[<<m.promo, m.to>>] - g[<<p.board[m.from], m.to>>]
    [] OTHER -> 0

LEMMA TotalMade ==
  ASSUME NEW p, Good(p), NEW m, MoveOk(p, m), NEW g \in WorthType
  PROVE  Total(Board5(p, m), g)
           = (Total(p.board, g) - (IF m.capt = EMPTY THEN 0 ELSE g[<<m.capt, m.to>>]))
             + (g[<<p.board[m.from], m.to>>] - g[<<p.board[m.from], m.from>>])
             + More(p, m, g)
<1> DEFINE b4 == Board4(p, m)
           b5 == Board5(p, m)
<1>1. /\ b4 \in BoardType /\ b4[m.to] = p.board[m.from] /\ b4[m.from] = EMPTY
      /\ \A t \in Square \ {m.from, m.to} : b4[t] = p.board[t]
      /\ Total(p.board, g) \in Int
      /\ Total(b4, g)
           = (Total(p.board, g) - (IF m.capt = EMPTY THEN 0 ELSE g[<<m.capt, m.to>>]))
             + (g[<<p.board[m.from], m.to>>] - g[<<p.board[m.from], m.from>>])
  BY TotalMoved
<1>2. /\ m.from \in Square /\ m.to \in Square /\ CaptureSq(m) \in Square
      /\ p.board[m.from] \in Pieces /\ p.stm \in Colors /\ Other(p.stm) \in Colors
  BY MoveFacts, PositionParts, OtherFacts DEF Good, Sound
<1>3. /\ MakePiece(p.stm, ROOK) \in Pieces /\ MakePiece(Other(p.stm), PAWN) \in Pieces
  BY <1>2, MakePieceFacts DEF PAWN, ROOK, KING
<1>4. Total(b4, g) \in Int
  BY <1>1, <1>2, TotalFilled
<1>5. Total(b5, g) = Total(b4, g) + More(p, m, g)
  <2> HIDE DEF b4
  <2>1. CASE m.flag = "enpas"
    <3>1. b5 = Emptied(b4, CaptureSq(m))
      BY <2>1 DEF Board5, b4
    <3>2. /\ CaptureSq(m) \in Square \ {m.from, m.to}
          /\ p.board[CaptureSq(m)] = MakePiece(Other(p.stm), PAWN)
      BY <1>2, <2>1, MoveFacts
    <3>3. b4[CaptureSq(m)] = MakePiece(Other(p.stm), PAWN)
      BY <1>1, <3>2
    <3>4. Total(b5, g) = Total(b4, g) - g[<<MakePiece(Other(p.stm), PAWN), CaptureSq(m)>>]
      BY <1>1, <1>2, <1>3, <3>1, <3>3, TotalEmptied
    <3>5. g[<<MakePiece(Other(p.stm), PAWN), CaptureSq(m)>>] \in Int
      BY <1>2, <1>3 DEF WorthType
    <3>6. More(p, m, g) = -g[<<MakePiece(Other(p.stm), PAWN), CaptureSq(m)>>]
      BY <2>1 DEF More
    <3> QED
      BY <1>4, <3>4, <3>5, <3>6
  <2>2. CASE m.flag = "castle"
    <3> DEFINE rook == MakePiece(p.stm, ROOK)
               b6   == Emptied(b4, CaptureSq(m))
    <3>1. b5 = Filled(b6, RookTo(m.to), rook)
      BY <2>2 DEF Board5, b4
    <3>2. CaptureSq(m) = RookFrom(m.to)
      BY <2>2, MoveFacts
    <3>3. /\ m.from = (IF p.stm = WHITE THEN E1 ELSE E8)
          /\ m.to \in (IF p.stm = WHITE THEN {C1, G1} ELSE {C8, G8})
          /\ p.board[RookFrom(m.to)] = rook /\ p.board[RookTo(m.to)] = EMPTY
      BY <2>2 DEF MoveOk
    <3>4. /\ RookFrom(m.to) \in Square \ {m.from, m.to}
          /\ RookTo(m.to) \in Square \ {m.from, m.to}
          /\ RookFrom(m.to) # RookTo(m.to)
      BY <1>2, <3>3, RookSquares
    <3>5. b4[CaptureSq(m)] = rook /\ b4[RookTo(m.to)] = EMPTY
      BY <1>1, <3>2, <3>3, <3>4
    <3> HIDE DEF rook
    <3>6. rook \in Pieces
      BY <1>3 DEF rook
    <3>7. /\ b6 \in BoardType /\ b6[RookTo(m.to)] = EMPTY
          /\ Total(b6, g) = Total(b4, g) - g[<<rook, CaptureSq(m)>>]
      BY <1>1, <1>2, <3>2, <3>4, <3>5, <3>6, TotalEmptied
    <3> HIDE DEF b6
    <3>8. Total(b5, g) = g[<<rook, RookTo(m.to)>>] + Total(b6, g)
      <4> DEFINE to == RookTo(m.to)
      <4>1. to \in Square /\ b6 \in BoardType /\ b6[to] = EMPTY
        BY <3>4, <3>7
      <4> HIDE DEF to
      <4>2. Total(Filled(b6, to, rook), g) = g[<<rook, to>>] + Total(b6, g)
        BY <3>6, <4>1, TotalFilled
      <4> QED
        BY <3>1, <4>2 DEF to
    <3>9. g[<<rook, CaptureSq(m)>>] \in Int /\ g[<<rook, RookTo(m.to)>>] \in Int
      BY <1>2, <3>4, <3>6 DEF WorthType
    <3>10. More(p, m, g) = g[<<rook, RookTo(m.to)>>] - g[<<rook, CaptureSq(m)>>]
      BY <2>2 DEF More, rook
    <3> QED
      BY <1>4, <3>7, <3>8, <3>9, <3>10
  <2>3. CASE m.flag \notin {"enpas", "castle"} /\ m.promo # EMPTY
    <3>1. b5 = Filled(b4, m.to, m.promo)
      BY <2>3 DEF Board5, b4
    <3>2. m.promo \in Pieces
      BY <2>3 DEF MoveOk
    <3>3. b4[m.to] # EMPTY
      BY <1>1, <1>2, PieceFacts
    <3>4. Total(b5, g) = g[<<m.promo, m.to>>] + (Total(b4, g) - g[<<b4[m.to], m.to>>])
      BY <1>1, <1>2, <3>1, <3>2, <3>3, TotalFilled
    <3>5. g[<<m.promo, m.to>>] \in Int /\ g[<<p.board[m.from], m.to>>] \in Int
      BY <1>2, <3>2 DEF WorthType
    <3>6. More(p, m, g) = g[<<m.promo, m.to>>] - g[<<p.board[m.from], m.to>>]
      BY <2>3 DEF More
    <3> QED
      BY <1>1, <1>4, <3>4, <3>5, <3>6
  <2>4. CASE m.flag \notin {"enpas", "castle"} /\ m.promo = EMPTY
    BY <1>4, <2>4 DEF Board5, More, b4
  <2> QED
    BY <2>1, <2>2, <2>3, <2>4
<1> QED
  BY <1>1, <1>5

\* What material and phase count a piece on a square as.
ScoreOf == [x \in Pieces \X Square |-> PSQT(x[1], x[2])]
PhaseOf == [x \in Pieces \X Square |-> PhaseValue(x[1])]

LEMMA TotalsAreSums ==
  /\ ScoreOf \in WorthType /\ PhaseOf \in WorthType
  /\ \A pc \in Pieces, sq \in Square : /\ ScoreOf[<<pc, sq>>] = PSQT(pc, sq)
                                       /\ PhaseOf[<<pc, sq>>] = PhaseValue(pc)
  /\ \A b \in BoardType : Material(b) = Total(b, ScoreOf) /\ BasePhase(b) = Total(b, PhaseOf)
<1>1. \A x \in Pieces \X Square : PSQT(x[1], x[2]) \in Int /\ PhaseValue(x[1]) \in Int
  BY PSQTInt, PieceFacts
<1>2. ScoreOf \in WorthType /\ PhaseOf \in WorthType
  BY <1>1 DEF ScoreOf, PhaseOf, WorthType
<1>3. \A pc \in Pieces, sq \in Square : /\ ScoreOf[<<pc, sq>>] = PSQT(pc, sq)
                                        /\ PhaseOf[<<pc, sq>>] = PhaseValue(pc)
  BY DEF ScoreOf, PhaseOf
<1>4. ASSUME NEW b \in BoardType
      PROVE  Material(b) = Total(b, ScoreOf) /\ BasePhase(b) = Total(b, PhaseOf)
  <2>1. \A sq \in Square : b[sq] # EMPTY => b[sq] \in Pieces
    BY DEF BoardType
  <2>2. /\ Worth(b, ScoreOf) = [sq \in Square |->
             IF b[sq] = EMPTY THEN 0 ELSE PSQT(b[sq], sq)]
        /\ Worth(b, PhaseOf) = [sq \in Square |->
             IF b[sq] = EMPTY THEN 0 ELSE PhaseValue(b[sq])]
    BY <1>3, <2>1 DEF Worth
  <2> QED
    BY <2>2, Zenon DEF Material, BasePhase, Total
<1> QED
  BY <1>2, <1>3, <1>4

\* The sums of a position are those of its squares.
SumsAreOf(q) == q.material = Material(q.board) /\ q.basePhase = BasePhase(q.board)

\* MakeMove (makemove.cpp) counts what a move takes, moves and puts down.
LEMMA MadeSums ==
  ASSUME NEW p, Good(p), NEW m, MoveOk(p, m), SumsAreOf(p)
  PROVE  SumsAreOf(Made(p, m).pos)
<1> DEFINE q == Made(p, m).pos
<1>1. /\ q.board = Board5(p, m)
      /\ q.material = p.material - Lost(m) + Gain(p, m) + Extra(p, m)
      /\ q.basePhase = p.basePhase - LostPhase(m) + ExtraPhase(p, m)
      /\ Board5(p, m) \in BoardType
  BY MadeFields, PositionParts DEF Moved, Fit, Sound
<1>2. /\ m.from \in Square /\ m.to \in Square /\ CaptureSq(m) \in Square
      /\ p.board \in BoardType /\ p.board[m.from] \in Pieces
      /\ p.stm \in Colors /\ Other(p.stm) \in Colors
      /\ p.material \in Int /\ p.basePhase \in Int
      /\ m.capt # EMPTY => m.capt \in Pieces
      /\ m.promo # EMPTY => m.promo \in Pieces
      /\ m.flag \in {"none", "pstart", "enpas", "castle"}
      /\ m.promo # EMPTY => m.flag = "none"
      /\ m.flag = "castle" => RookTo(m.to) \in Square
  <2>1. /\ m.from \in Square /\ m.to \in Square /\ CaptureSq(m) \in Square
        /\ p.board[m.from] \in Pieces
        /\ m.capt # EMPTY => m.capt \in Pieces
    BY MoveFacts
  <2>2. /\ p.board \in BoardType /\ p.stm \in Colors /\ Other(p.stm) \in Colors
        /\ p.material \in Int /\ p.basePhase \in Int
    BY PositionParts, OtherFacts DEF Good, Sound
  <2>3. /\ m.promo # EMPTY => m.promo \in Pieces
        /\ m.flag \in {"none", "pstart", "enpas", "castle"}
        /\ m.promo # EMPTY => m.flag = "none"
    BY DEF MoveOk
  <2>4. m.flag = "castle" =>
          /\ m.from = (IF p.stm = WHITE THEN E1 ELSE E8)
          /\ m.to \in (IF p.stm = WHITE THEN {C1, G1} ELSE {C8, G8})
    BY DEF MoveOk
  <2>5. m.flag = "castle" => RookTo(m.to) \in Square
    BY <2>2, <2>4, RookSquares
  <2> QED
    BY <2>1, <2>2, <2>3, <2>5
<1>3. /\ MakePiece(p.stm, ROOK) \in Pieces /\ MakePiece(Other(p.stm), PAWN) \in Pieces
  BY <1>2, MakePieceFacts DEF PAWN, ROOK, KING
<1> HIDE DEF q
<1>4. q.material = Material(q.board)
  <2>1. /\ ScoreOf \in WorthType
        /\ \A pc \in Pieces, sq \in Square : ScoreOf[<<pc, sq>>] = PSQT(pc, sq)
        /\ Material(p.board) = Total(p.board, ScoreOf)
        /\ Material(Board5(p, m)) = Total(Board5(p, m), ScoreOf)
    BY <1>1, <1>2, TotalsAreSums
  <2>2. Total(Board5(p, m), ScoreOf)
          = (Total(p.board, ScoreOf)
             - (IF m.capt = EMPTY THEN 0 ELSE ScoreOf[<<m.capt, m.to>>]))
            + (ScoreOf[<<p.board[m.from], m.to>>] - ScoreOf[<<p.board[m.from], m.from>>])
            + More(p, m, ScoreOf)
    BY <2>1, TotalMade
  <2>3. (IF m.capt = EMPTY THEN 0 ELSE ScoreOf[<<m.capt, m.to>>]) = Lost(m)
    BY <1>2, <2>1 DEF Lost
  <2>4. ScoreOf[<<p.board[m.from], m.to>>] - ScoreOf[<<p.board[m.from], m.from>>] = Gain(p, m)
    BY <1>2, <2>1 DEF Gain
  <2>5. More(p, m, ScoreOf) = Extra(p, m)
    <3>1. CASE m.flag = "enpas"
      BY <1>2, <1>3, <2>1, <3>1 DEF More, Extra
    <3>2. CASE m.flag = "castle"
      BY <1>2, <1>3, <2>1, <3>2 DEF More, Extra
    <3>3. CASE m.flag \notin {"enpas", "castle"} /\ m.promo # EMPTY
      BY <1>2, <2>1, <3>3 DEF More, Extra
    <3>4. CASE m.flag \notin {"enpas", "castle"} /\ m.promo = EMPTY
      BY <3>4 DEF More, Extra
    <3> QED
      BY <3>1, <3>2, <3>3, <3>4
  <2>6. p.material = Material(p.board)
    BY DEF SumsAreOf
  <2> QED
    BY <1>1, <2>1, <2>2, <2>3, <2>4, <2>5, <2>6
<1>5. q.basePhase = BasePhase(q.board)
  <2>1. /\ PhaseOf \in WorthType
        /\ \A pc \in Pieces, sq \in Square : PhaseOf[<<pc, sq>>] = PhaseValue(pc)
        /\ BasePhase(p.board) = Total(p.board, PhaseOf)
        /\ BasePhase(Board5(p, m)) = Total(Board5(p, m), PhaseOf)
    BY <1>1, <1>2, TotalsAreSums
  <2>2. Total(Board5(p, m), PhaseOf)
          = (Total(p.board, PhaseOf)
             - (IF m.capt = EMPTY THEN 0 ELSE PhaseOf[<<m.capt, m.to>>]))
            + (PhaseOf[<<p.board[m.from], m.to>>] - PhaseOf[<<p.board[m.from], m.from>>])
            + More(p, m, PhaseOf)
    BY <2>1, TotalMade
  <2>3. /\ (IF m.capt = EMPTY THEN 0 ELSE PhaseOf[<<m.capt, m.to>>]) = LostPhase(m)
        /\ LostPhase(m) \in Int
    BY <1>2, <2>1, PieceFacts DEF LostPhase
  <2>4. PhaseOf[<<p.board[m.from], m.to>>] - PhaseOf[<<p.board[m.from], m.from>>] = 0
    <3>1. PhaseValue(p.board[m.from]) \in Int
      BY <1>2, PieceFacts
    <3> QED
      BY <1>2, <2>1, <3>1
  <2>5. More(p, m, PhaseOf) = ExtraPhase(p, m) /\ ExtraPhase(p, m) \in Int
    <3>1. /\ PhaseValue(MakePiece(p.stm, ROOK)) \in Int
          /\ PhaseValue(MakePiece(Other(p.stm), PAWN)) \in Int
          /\ PhaseValue(p.board[m.from]) \in Int
          /\ m.promo # EMPTY => PhaseValue(m.promo) \in Int
      BY <1>2, <1>3, PieceFacts
    <3>2. CASE m.flag = "enpas"
      BY <1>2, <1>3, <2>1, <3>1, <3>2 DEF More, ExtraPhase
    <3>3. CASE m.flag = "castle"
      BY <1>2, <1>3, <2>1, <3>1, <3>3 DEF More, ExtraPhase
    <3>4. CASE m.flag \notin {"enpas", "castle"} /\ m.promo # EMPTY
      BY <1>2, <2>1, <3>1, <3>4 DEF More, ExtraPhase
    <3>5. CASE m.flag \notin {"enpas", "castle"} /\ m.promo = EMPTY
      BY <3>5 DEF More, ExtraPhase
    <3> QED
      BY <3>2, <3>3, <3>4, <3>5
  <2>6. p.basePhase = BasePhase(p.board)
    BY DEF SumsAreOf
  <2>7. Total(Board5(p, m), PhaseOf)
          = (Total(p.board, PhaseOf) - LostPhase(m)) + 0 + ExtraPhase(p, m)
    BY <2>2, <2>3, <2>4, <2>5
  <2> QED
    BY <1>1, <1>2, <2>1, <2>3, <2>5, <2>6, <2>7
<1> QED
  BY <1>4, <1>5 DEF SumsAreOf, q

\* The sums of the position and of those it goes back to.
LineSums == /\ SumsAreOf(pos)
            /\ \A k \in 1..Len(before) : SumsAreOf(before[k])

LEMMA LinkSums ==
  ASSUME NEW p, Good(p), NEW st, NEW q, Link(p, st, q), SumsAreOf(p)
  PROVE  SumsAreOf(q)
<1>1. CASE \E m \in Generated(p) : st = Made(p, m).st /\ q = Made(p, m).pos
  <2>1. PICK m \in Generated(p) : q = Made(p, m).pos
    BY <1>1
  <2>2. MoveOk(p, m)
    BY GeneratedOk DEF Generated
  <2> QED
    BY <2>1, <2>2, MadeSums
<1>2. CASE q = NullMoved(p)
  <2>1. q.board = p.board /\ q.material = p.material /\ q.basePhase = p.basePhase
    BY <1>2, NullMoveFields
  <2> QED
    BY <2>1 DEF SumsAreOf
<1> QED
  BY <1>1, <1>2 DEF Link

LEMMA StepSums ==
  ASSUME IInv, LineSums, [Next]_vars
  PROVE  LineSums'
<1>1. /\ before \in Seq(PositionType) /\ Len(before) \in Nat
      /\ Len(before) = Len(gameHistory) /\ Good(pos)
  BY DEF IInv, LineOk
<1>2. pos \in PositionType
  BY <1>1 DEF Good, Sound
<1>3. CASE UNCHANGED vars
  BY <1>3 DEF vars, LineSums
<1>4. CASE WentBack
  <2>1. /\ pos' = before[Len(before)] /\ Len(before) \in 1..Len(before)
        /\ Len(before') = Len(before) - 1
        /\ \A k \in 1..(Len(before) - 1) : before'[k] = before[k]
    BY <1>1, <1>4 DEF WentBack, Last, Front
  <2>2. SumsAreOf(pos')
    BY <2>1 DEF LineSums
  <2>3. \A k \in 1..Len(before') : SumsAreOf(before'[k])
    BY <1>1, <2>1 DEF LineSums
  <2> QED
    BY <2>2, <2>3 DEF LineSums
<1>5. CASE \E st, q : Advanced(st, q)
  <2>1. PICK st, q : Advanced(st, q)
    BY <1>5
  <2>2. /\ pos' = q /\ before' = Append(before, pos) /\ Link(pos, st, q)
    BY <2>1 DEF Advanced
  <2>3. SumsAreOf(pos')
    BY <1>1, <2>2, LinkSums DEF LineSums
  <2>4. /\ Len(before') = Len(before) + 1 /\ before'[Len(before) + 1] = pos
        /\ \A k \in 1..Len(before) : before'[k] = before[k]
    BY <1>1, <1>2, <2>2
  <2>5. ASSUME NEW k \in 1..Len(before')
        PROVE  SumsAreOf(before'[k])
    <3>1. CASE k = Len(before) + 1
      BY <2>4, <3>1 DEF LineSums
    <3>2. CASE k # Len(before) + 1
      <4>1. k \in 1..Len(before)
        BY <1>1, <2>4, <2>5, <3>2
      <4> QED
        BY <2>4, <4>1 DEF LineSums
    <3> QED
      BY <3>1, <3>2
  <2> QED
    BY <2>3, <2>5 DEF LineSums
<1> QED
  BY <1>3, <1>4, <1>5, StepCases

\* Material and phase, from which EvalPosition (evaluate.cpp) starts and which
\* ClearPiece, AddPiece and MovePiece (makemove.cpp) only correct, are what
\* UpdatePosition (board.cpp) would count on the board, in every position of a
\* line and in every one it goes back to.
THEOREM SumsAreCounted == Spec => []LineSums
<1>1. Init => LineSums
  <2> SUFFICES ASSUME Init PROVE LineSums
    OBVIOUS
  <2>1. PICK f \in Fens : pos = ParseFen(f)
    BY DEF Init
  <2>2. /\ ParseFen(f).board = FenBoard(f)
        /\ ParseFen(f).material = Material(FenBoard(f))
        /\ ParseFen(f).basePhase = BasePhase(FenBoard(f))
    BY ParseFenRecord
  <2>3. before = <<>>
    BY DEF Init
  <2> QED
    BY <2>1, <2>2, <2>3 DEF LineSums, SumsAreOf
<1>2. IInv /\ LineSums /\ [Next]_vars => LineSums'
  BY StepSums
<1> QED
  BY <1>1, <1>2, PositionInvariant, PTL DEF Spec
=============================================================================

-------------------------------- MODULE Game --------------------------------
(***************************************************************************)
(* What Position promises: the line of play under the rules of chess.  A   *)
(* player plays a legal move, the search passes the turn when it is not    *)
(* in check, and what was played is taken back in reverse order.  Moves    *)
(* are defined by files, ranks and the squares between, without the        *)
(* tables, bitboards, keys and lists of the code.  Pieces are numbered as  *)
(* there: 8 * color + type.                                                *)
(***************************************************************************)
EXTENDS Integers, Sequences, FiniteSets

CONSTANTS First,       \* the positions a line may start from
          MaxPlies     \* the longest line
VARIABLE line          \* the positions of the line, the current one last

Squares == 0..63
Abs(n)  == IF n < 0 THEN -n ELSE n
Sign(n) == IF n < 0 THEN -1 ELSE IF n > 0 THEN 1 ELSE 0
Files(a, b) == (b % 8) - (a % 8)
Ranks(a, b) == (b \div 8) - (a \div 8)
Longer(a, b) == IF Abs(Files(a, b)) > Abs(Ranks(a, b))
                THEN Abs(Files(a, b)) ELSE Abs(Ranks(a, b))

Color(pc) == pc \div 8
Type(pc)  == pc % 8
Is(board, sq, color) == board[sq] # 0 /\ Color(board[sq]) = color
Forward(color) == IF color = 0 THEN 1 ELSE -1
FirstRank(color) == IF color = 0 THEN 0 ELSE 7

\* Nothing stands between two squares of one rank, file or diagonal.
Clear(board, a, b) ==
  \A k \in 1..(Longer(a, b) - 1) :
    board[a + k * (8 * Sign(Ranks(a, b)) + Sign(Files(a, b)))] = 0

\* The piece on a can capture on b.
Attacks(board, a, b) ==
  LET df == Abs(Files(a, b))
      dr == Abs(Ranks(a, b))
      straight == (df = 0 \/ dr = 0) /\ Clear(board, a, b)
      diagonal == df = dr /\ Clear(board, a, b)
  IN  a # b /\ CASE Type(board[a]) = 0 -> FALSE
                 [] Type(board[a]) = 1 ->
                      df = 1 /\ Ranks(a, b) = Forward(Color(board[a]))
                 [] Type(board[a]) = 2 -> {df, dr} = {1, 2}
                 [] Type(board[a]) = 3 -> diagonal
                 [] Type(board[a]) = 4 -> straight
                 [] Type(board[a]) = 5 -> straight \/ diagonal
                 [] Type(board[a]) = 6 -> df < 2 /\ dr < 2

AttackedBy(board, sq, color) ==
  \E a \in Squares : Is(board, a, color) /\ Attacks(board, a, sq)
InCheck(board, color) ==
  \E k \in Squares : board[k] = 8 * color + 6 /\ AttackedBy(board, k, 1 - color)

\* Rights are numbered 1, 2 for White and 4, 8 for Black, short and long.
King(right) == IF right \in {1, 2} THEN 4 ELSE 60
Rook(right) == King(right) + (IF right \in {1, 4} THEN 3 ELSE -4)
Mid(right)  == King(right) + (IF right \in {1, 4} THEN 1 ELSE -1)

-----------------------------------------------------------------------------
(* A move is its two squares and the piece a pawn becomes, or 0.           *)

PawnMove(p, from, to) ==
  LET up == 8 * Forward(p.stm) IN
  \/ to = from + up /\ p.board[to] = 0
  \/ /\ to = from + 2 * up
     /\ from \div 8 = FirstRank(p.stm) + Forward(p.stm)
     /\ p.board[to] = 0 /\ p.board[from + up] = 0
  \/ /\ Attacks(p.board, from, to)
     /\ Is(p.board, to, 1 - p.stm) \/ (to = p.ep /\ p.ep # 0)

CastleMove(p, from, to) ==
  \E r \in p.rights : /\ Color(p.board[from]) = (IF r < 4 THEN 0 ELSE 1)
                      /\ from = King(r) /\ to = from + 2 * (Mid(r) - from)
                      /\ Clear(p.board, from, Rook(r))
                      /\ ~AttackedBy(p.board, from, 1 - p.stm)
                      /\ ~AttackedBy(p.board, Mid(r), 1 - p.stm)

Promotions(p, from, to) ==
  IF Type(p.board[from]) = 1 /\ to \div 8 = FirstRank(1 - p.stm)
  THEN {8 * p.stm + t : t \in 2..5} ELSE {0}

\* What may be played if one's own king were not in danger.
Moves(p) ==
  LET Targets(from) ==
        {to \in Squares : /\ ~Is(p.board, to, p.stm)
                          /\ IF Type(p.board[from]) = 1
                             THEN PawnMove(p, from, to)
                             ELSE \/ Attacks(p.board, from, to)
                                  \/ CastleMove(p, from, to)}
  IN  UNION {UNION {{[from |-> from, to |-> to, promo |-> promo] :
                       promo \in Promotions(p, from, to)} :
                      to \in Targets(from)} :
               from \in {sq \in Squares : Is(p.board, sq, p.stm)}}

After(p, m) ==
  LET pc      == p.board[m.from]
      pawn    == Type(pc) = 1
      passing == pawn /\ Files(m.from, m.to) # 0 /\ p.board[m.to] = 0
      castles == {r \in p.rights : /\ Type(pc) = 6 /\ m.from = King(r)
                                   /\ m.to - m.from = 2 * (Mid(r) - m.from)}
      passed  == (m.from + m.to) \div 2
      board   == [sq \in Squares |->
                   CASE sq = m.to -> IF m.promo = 0 THEN pc ELSE m.promo
                     [] sq = m.from -> 0
                     [] passing /\ sq = 8 * (m.from \div 8) + (m.to % 8) -> 0
                     [] \E r \in castles : sq = Rook(r) -> 0
                     [] \E r \in castles : sq = Mid(r) -> 8 * p.stm + 4
                     [] OTHER -> p.board[sq]]
      takes   == \E a \in Squares : /\ board[a] = 8 * (1 - p.stm) + 1
                                    /\ Attacks(board, a, passed)
  IN  [board  |-> board,
       stm    |-> 1 - p.stm,
       ep     |-> IF pawn /\ Abs(Ranks(m.from, m.to)) = 2 /\ takes
                  THEN passed ELSE 0,
       rights |-> {r \in p.rights :
                     {King(r), Rook(r)} \cap {m.from, m.to} = {}},
       rule50 |-> IF pawn \/ p.board[m.to] # 0 THEN 0 ELSE p.rule50 + 1]

-----------------------------------------------------------------------------
Current == line[Len(line)]

Play ==
  /\ Len(line) <= MaxPlies
  /\ \E m \in Moves(Current) :
       /\ ~InCheck(After(Current, m).board, Current.stm)
       /\ line' = Append(line, After(Current, m))

Pass ==
  /\ Len(line) <= MaxPlies
  /\ ~InCheck(Current.board, Current.stm)
  /\ line' = Append(line, [Current EXCEPT !.stm = 1 - @, !.ep = 0,
                                          !.rule50 = 0])

TakeBack ==
  /\ Len(line) > 1
  /\ line' = SubSeq(line, 1, Len(line) - 1)

Init == \E p \in First : line = <<p>>
Next == Play \/ Pass \/ TakeBack
Spec == Init /\ [][Next]_line
=============================================================================

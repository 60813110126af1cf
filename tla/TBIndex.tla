------------------------------- MODULE TBIndex -------------------------------
(***************************************************************************)
(* Where fathom (fathom/tbprobe.c) finds a position in a table: the        *)
(* material names the table, the pieces stand in the order that the file   *)
(* gives, and encode numbers their squares.  A position, its color flip    *)
(* and its images under the symmetries of the board share a place; all     *)
(* others have a place of their own, inside the table.                     *)
(*                                                                         *)
(* The squares of like pieces are a set.  Of the two encodings of pawns    *)
(* only that by files is modelled: the other serves DTM tables, which are  *)
(* never probed.                                                           *)
(***************************************************************************)
EXTENDS TBChess, SequencesExt

-----------------------------------------------------------------------------
(* Numbers of squares.                                                     *)

FlipFile(sq) == 8 * RankOf(sq) + 7 - FileOf(sq)     \* sq ^ 0x07
FlipRank(sq) == 8 * (7 - RankOf(sq)) + FileOf(sq)   \* sq ^ 0x38
FlipDiag(sq) == 8 * FileOf(sq) + RankOf(sq)
OffDiag(sq)  == RankOf(sq) - FileOf(sq)             \* only its sign counts
Folded(n)    == IF n < 4 THEN n ELSE 7 - n
Diag(sq)     == FileOf(sq)

\* Numbers the pairs a < b of 0..(n - 1), then the pairs a = b.
PairNumber(n, a, b) ==
  IF a = b THEN (n * (n - 1)) \div 2 + a
  ELSE LET lo == IF a < b THEN a ELSE b
           hi == IF a < b THEN b ELSE a
       IN  (lo * (2 * n - lo - 1)) \div 2 + hi - lo - 1

\* The ten squares of the triangle a1-d1-d4, and those below the diagonal.
Triangle == [sq \in Square |->
               PairNumber(4, Folded(RankOf(sq)), Folded(FileOf(sq)))]
Lower    == [sq \in Square |-> PairNumber(8, RankOf(sq), FileOf(sq))]

FileToFile(file) == Folded(file)
Flap(sq) == 6 * FileToFile(FileOf(sq)) + RankOf(sq) - 1
PawnTwist(sq) == (IF FileOf(sq) < 4 THEN 47 - 12 * FileOf(sq)
                  ELSE 46 - 12 * (7 - FileOf(sq))) - 2 * (RankOf(sq) - 1)

\* The king in the triangle and the other king, not next to it; with the
\* first on the diagonal the other is not above it.  Both on the diagonal
\* come last.
KKPairs ==
  {<<a, b>> \in (0..9) \X Square :
     \E sq \in Square :
       /\ Triangle[sq] = a /\ FileOf(sq) < 4 /\ OffDiag(sq) <= 0
       /\ RankOf(sq) < 4 /\ Distance(sq, b) > 1
       /\ OffDiag(sq) = 0 => OffDiag(b) <= 0}
KKIdx ==
  LET Late(p) == p[1] > 5 /\ OffDiag(p[2]) = 0
      Before(p, q) == IF Late(p) = Late(q)
                      THEN p[1] < q[1] \/ (p[1] = q[1] /\ p[2] < q[2])
                      ELSE Late(q)
  IN  [p \in KKPairs |-> Cardinality({q \in KKPairs : Before(q, p)})]

Binomial ==
  [k \in 0..6 |-> [n \in 0..63 |->
     LET Bin[i \in 0..6] == IF i = 0 THEN 1
                            ELSE (Bin[i - 1] * (n - i + 1)) \div i
     IN  Bin[k]]]

\* Placements of i more pawns when the leading pawn stands before, or on
\* any square of, its file.
PawnSum(i, flaps) ==
  MapThenSumSet(LAMBDA sq : Binomial[i][PawnTwist(sq)],
                {sq \in Square : /\ FileOf(sq) < 4 /\ RankOf(sq) \in 1..6
                                 /\ Flap(sq) \in flaps})
PawnIdx == [i \in 0..5 |-> [j \in 0..23 |->
              PawnSum(i, (6 * (j \div 6))..(j - 1))]]
PawnFactorFile == [i \in 0..5 |-> [f \in 0..3 |->
                     PawnSum(i, (6 * f)..(6 * f + 5))]]

-----------------------------------------------------------------------------
(* A table: material, piece order and the factor of each group of pieces.  *)

Side(key, pcs) == MapThenSumSet(LAMBDA pt : key[pcs][pt], PAWN..QUEEN)
MirrorKey(key) == [c \in {TB_BLACK, TB_WHITE} |-> key[1 - c]]

\* What init_tb learns from the name; the pawns of the side that leads.
BaseEntry(key) ==
  LET w == key[TB_WHITE][PAWN]
      b == key[TB_BLACK][PAWN]
  IN  [key       |-> key,
       num       |-> Side(key, TB_WHITE) + Side(key, TB_BLACK) + 2,
       symmetric |-> key = MirrorKey(key),
       hasPawns  |-> w + b > 0,
       kk_enc    |-> \A c \in {TB_BLACK, TB_WHITE}, pt \in PAWN..QUEEN :
                       key[c][pt] # 1,
       pawns     |-> IF b > 0 /\ (w = 0 \/ w > b) THEN <<b, w>> ELSE <<w, b>>,
       leads     |-> IF b > 0 /\ (w = 0 \/ w > b) THEN TB_BLACK ELSE TB_WHITE]

\* A file starts with the leading group: the pawns of one side, or pieces
\* that are alone of their kind, two kings or three others.  Then come the
\* other pawns and the remaining kinds.  tail is the order of the kinds.
Count(be, kind) == IF kind[2] = KING THEN 1 ELSE be.key[kind[1]][kind[2]]
Kinds(be) == {kind \in {TB_BLACK, TB_WHITE} \X (PAWN..KING) : Count(be, kind) > 0}
FirstKinds(be) ==
  IF be.hasPawns THEN {<< <<be.leads, PAWN>> >>}
  ELSE IF be.kk_enc THEN SetToSeqs({k \in Kinds(be) : k[2] = KING})
  ELSE {s \in SetToAllKPermutations({k \in Kinds(be) : Count(be, k) = 1}) :
          Len(s) = 3}

subfactor(k, n) == Binomial[k][n]

\* How many places each group has, in the order of the groups.
GroupSizes(be, lead, tail, t) ==
  LET other == IF be.hasPawns /\ be.pawns[2] > 0 THEN 1 ELSE 0
      taken == IF be.hasPawns THEN be.pawns[1] + be.pawns[2] ELSE Len(lead)
      Room(g) == 64 - taken - FoldLeft(LAMBDA x, k : x + Count(be, k), 0,
                                       SubSeq(tail, 1 + other, g - 1))
  IN  << IF be.hasPawns THEN PawnFactorFile[be.pawns[1] - 1][t]
         ELSE IF be.kk_enc THEN 462 ELSE 31332 >>
      \o [g \in 1..Len(tail) |->
            IF g <= other THEN subfactor(be.pawns[2], 48 - be.pawns[1])
            ELSE subfactor(Count(be, tail[g]), Room(g))]

\* The leading group is multiplied in at its order, here first or last.
Factors(sizes, first) ==
  LET Prod(s) == FoldLeft(LAMBDA x, y : x * y, 1, s)
      n == Len(sizes)
  IN  [g \in 1..n |->
         IF first THEN Prod(SubSeq(sizes, 1, g - 1))
         ELSE IF g = 1 THEN Prod(SubSeq(sizes, 2, n))
         ELSE Prod(SubSeq(sizes, 2, g - 1))]

-----------------------------------------------------------------------------
(* encode.                                                                 *)

\* The symmetry that brings the first piece to the left, and without pawns
\* to the lower half, and the first piece off the diagonal below it.
Normal(p, pawns) ==
  LET s == [sq \in Square |->
              LET f == IF FileOf(p[1]) > 3 THEN FlipFile(sq) ELSE sq
              IN  IF ~pawns /\ RankOf(p[1]) > 3 THEN FlipRank(f) ELSE f]
      flip == \E i \in DOMAIN p : /\ OffDiag(s[p[i]]) > 0
                                  /\ \A j \in 1..(i - 1) : OffDiag(s[p[j]]) = 0
  IN  IF ~pawns /\ flip THEN [sq \in Square |-> FlipDiag(s[sq])] ELSE s

LeadIndex(p) ==
  LET s1 == IF p[2] > p[1] THEN 1 ELSE 0
      s2 == (IF p[3] > p[1] THEN 1 ELSE 0) + (IF p[3] > p[2] THEN 1 ELSE 0)
  IN  CASE Len(p) = 2 -> KKIdx[<<Triangle[p[1]], p[2]>>]
        [] Len(p) = 3 /\ OffDiag(p[1]) # 0 ->
             Triangle[p[1]] * 63 * 62 + (p[2] - s1) * 62 + p[3] - s2
        [] Len(p) = 3 /\ OffDiag(p[1]) = 0 /\ OffDiag(p[2]) # 0 ->
             6 * 63 * 62 + Diag(p[1]) * 28 * 62 + Lower[p[2]] * 62 + p[3] - s2
        [] Len(p) = 3 /\ OffDiag(p[1]) = 0 /\ OffDiag(p[2]) = 0
             /\ OffDiag(p[3]) # 0 ->
             6 * 63 * 62 + 4 * 28 * 62 + Diag(p[1]) * 7 * 28
               + (Diag(p[2]) - s1) * 28 + Lower[p[3]]
        [] OTHER ->
             6 * 63 * 62 + 4 * 28 * 62 + 4 * 7 * 28 + Diag(p[1]) * 7 * 6
               + (Diag(p[2]) - s1) * 6 + Diag(p[3]) - s2

\* The leading pawn p, and the others of its color from the outside in.
PawnLead(p, others) ==
  PawnIdx[Cardinality(others)][Flap(p)]
  + MapThenSumSet(LAMBDA sq : Binomial[Cardinality({s \in others :
                                          PawnTwist(s) <= PawnTwist(sq)})]
                                      [PawnTwist(sq)], others)

\* Squares of like pieces, not counting the squares of earlier groups.
GroupIndex(squares, earlier, first) ==
  MapThenSumSet(LAMBDA sq :
    Binomial[Cardinality({s \in squares : s <= sq})]
            [sq - first - Cardinality({s \in earlier : s < sq})], squares)

encode(lead, others, groups, hasPawns, twoColors, factors) ==
  LET s == Normal(lead, hasPawns)
      On(squares) == {s[sq] : sq \in squares}
      first == On(Range(lead) \cup others)
      Earlier(g) == first \cup UNION {On(groups[h]) : h \in 1..(g - 1)}
      Terms == [g \in 1..Len(groups) |-> factors[g + 1] *
                  GroupIndex(On(groups[g]), Earlier(g),
                             IF g = 1 /\ twoColors THEN 8 ELSE 0)]
  IN  factors[1] * (IF hasPawns THEN PawnLead(s[lead[1]], On(others))
                    ELSE LeadIndex([i \in DOMAIN lead |-> s[lead[i]]]))
      + FoldLeft(LAMBDA x, y : x + y, 0, Terms)

-----------------------------------------------------------------------------
(* probe_table up to the access: which half, which file, which index.      *)

Flipped(tb, be) == IF be.symmetric THEN tb.turn # TB_WHITE
                   ELSE calc_key(tb, FALSE) # be.key
Bside(tb, be) == ~be.symmetric /\ ((tb.turn = TB_WHITE) = Flipped(tb, be))

\* Mutant: with colors swapped the board is not turned.
fill_squares_NotMirrored(tb, kind, flip, mirror) ==
  tb.by[kind[2]] \cap tb.side[IF flip THEN 1 - kind[1] ELSE kind[1]]

fill_squares(tb, kind, flip, mirror) ==
  {IF mirror THEN FlipRank(sq) ELSE sq :
     sq \in tb.by[kind[2]] \cap tb.side[IF flip THEN 1 - kind[1] ELSE kind[1]]}

\* A pawn with the least flap leads: it is on the outmost file.
leading_pawn(pawns) ==
  CHOOSE sq \in pawns : \A s \in pawns : Flap(sq) <= Flap(s)

TableIndex(tb, be, lead, tail, first) ==
  LET flip == Flipped(tb, be)
      Squares(kind) == fill_squares(tb, kind, flip, flip /\ be.hasPawns)
      pawns == Squares(lead[1])
      p     == IF be.hasPawns THEN <<leading_pawn(pawns)>>
               ELSE [i \in DOMAIN lead |-> CHOOSE sq \in Squares(lead[i]) : TRUE]
      t     == IF be.hasPawns THEN FileToFile(FileOf(p[1])) ELSE 0
      sizes == GroupSizes(be, lead, tail, t)
  IN  [bside |-> Bside(tb, be), t |-> t,
       idx   |-> encode(p, IF be.hasPawns THEN pawns \ Range(p) ELSE {},
                        [g \in 1..Len(tail) |-> Squares(tail[g])],
                        be.hasPawns, be.hasPawns /\ be.pawns[2] > 0,
                        Factors(sizes, first)),
       size  |-> FoldLeft(LAMBDA x, y : x * y, 1, sizes)]
=============================================================================

----------------------------- MODULE RulesProofs -----------------------------
(***************************************************************************)
(* Proofs that Position plays chess as Game, the rules by files and ranks, *)
(* defines it, for all positions a game can reach.                         *)
(*                                                                         *)
(* From the squares up: each attack table holds the squares the rules say  *)
(* (KnightReach to SliderReach), so KingAttacked is check (KingInCheck).   *)
(* ByRules(p, m) says that m, with what it captures and its flag, is a     *)
(* move of the rules; both generators together give these moves, each once *)
(* (GeneratedByRules, MovesGeneratedOnce), and MoveIsPseudoLegal accepts   *)
(* them only (PseudoLegalTestIsExact).  MakeMove then does to the squares, *)
(* the rights, the en passant square and the counter what the rules do     *)
(* (MadeByRules).  With the invariant of PositionProofs for the line of    *)
(* positions, Position implements Game (PlayFollowsRules).                 *)
(***************************************************************************)
EXTENDS PositionProofs, SequenceTheorems

-----------------------------------------------------------------------------
(* Files and ranks.                                                        *)

LEMMA Coordinates ==
  ASSUME NEW a \in Square
  PROVE  /\ FileOf(a) \in 0..7 /\ RankOf(a) \in 0..7
         /\ a = 8 * RankOf(a) + FileOf(a)
  BY DEF Square, FileOf, RankOf

LEMMA SquareAt ==
  ASSUME NEW r \in 0..7, NEW f \in 0..7
  PROVE  8 * r + f \in Square /\ RankOf(8 * r + f) = r /\ FileOf(8 * r + f) = f
  BY DEF Square, FileOf, RankOf

LEMMA Apart ==
  ASSUME NEW a \in Square, NEW b \in Square
  PROVE  /\ Rules!Files(a, b) = FileOf(b) - FileOf(a)
         /\ Rules!Ranks(a, b) = RankOf(b) - RankOf(a)
         /\ Rules!Files(a, b) \in -7..7 /\ Rules!Ranks(a, b) \in -7..7
         /\ b = a + 8 * Rules!Ranks(a, b) + Rules!Files(a, b)
  BY Coordinates DEF Rules!Files, Rules!Ranks, FileOf, RankOf

LEMMA Near ==
  ASSUME NEW a \in Square, NEW b \in Square
  PROVE  Distance(a, b) <= 2 <=>
           Rules!Files(a, b) \in -2..2 /\ Rules!Ranks(a, b) \in -2..2
<1>1. /\ FileOf(a) \in Int /\ RankOf(a) \in Int /\ FileOf(b) \in Int /\ RankOf(b) \in Int
      /\ Rules!Files(a, b) = FileOf(b) - FileOf(a)
      /\ Rules!Ranks(a, b) = RankOf(b) - RankOf(a)
  BY Coordinates, Apart
<1> QED
  BY <1>1 DEF Distance

LEMMA StepLands ==
  ASSUME NEW a \in Square, NEW b, NEW df \in -2..2, NEW dr \in -2..2
  PROVE  b \in LandingSquareBB(a, 8 * dr + df) <=>
           b \in Square /\ Rules!Files(a, b) = df /\ Rules!Ranks(a, b) = dr
<1>1. 8 * dr + df \in Int
  OBVIOUS
<1>2. b \in LandingSquareBB(a, 8 * dr + df) <=>
        b \in Square /\ b = a + (8 * dr + df) /\ Distance(a, b) <= 2
  BY <1>1, Landing
<1>3. ASSUME b \in Square
      PROVE  (b = a + (8 * dr + df) /\ Distance(a, b) <= 2) <=>
               Rules!Files(a, b) = df /\ Rules!Ranks(a, b) = dr
  <2>1. /\ Rules!Files(a, b) \in -7..7 /\ Rules!Ranks(a, b) \in -7..7
        /\ b = a + 8 * Rules!Ranks(a, b) + Rules!Files(a, b)
    BY <1>3, Apart
  <2>2. a \in Int /\ b \in Int
    BY <1>3 DEF Square
  <2> QED
    BY <1>3, <2>1, <2>2, Near
<1> QED
  BY <1>2, <1>3

LEMMA PawnReach ==
  ASSUME NEW c \in Colors, NEW a \in Square, NEW b
  PROVE  b \in PawnAttacks[c][a] <=>
           /\ b \in Square /\ Rules!Abs(Rules!Files(a, b)) = 1
           /\ Rules!Ranks(a, b) = Rules!Forward(c)
<1>1. b \in PawnAttacks[c][a] <=> \E step \in PSteps[c] : b \in LandingSquareBB(a, step)
  BY DEF PawnAttacks, Colors
<1>2. CASE c = WHITE
  <2>1. PSteps[c] = {8 * 1 + (-1), 8 * 1 + 1}
    BY <1>2 DEF PSteps
  <2>2. \A df \in {-1, 1} : b \in LandingSquareBB(a, 8 * 1 + df) <=>
          b \in Square /\ Rules!Files(a, b) = df /\ Rules!Ranks(a, b) = 1
    BY StepLands
  <2>3. b \in Square => Rules!Files(a, b) \in Int
    BY Apart
  <2> QED
    BY <1>1, <1>2, <2>1, <2>2, <2>3 DEF Rules!Abs, Rules!Forward, WHITE
<1>3. CASE c = BLACK
  <2>1. PSteps[c] = {8 * (-1) + (-1), 8 * (-1) + 1}
    BY <1>3 DEF PSteps, WHITE, BLACK
  <2>2. \A df \in {-1, 1} : b \in LandingSquareBB(a, 8 * (-1) + df) <=>
          b \in Square /\ Rules!Files(a, b) = df /\ Rules!Ranks(a, b) = -1
    BY StepLands
  <2>3. b \in Square => Rules!Files(a, b) \in Int
    BY Apart
  <2> QED
    BY <1>1, <1>3, <2>1, <2>2, <2>3 DEF Rules!Abs, Rules!Forward, BLACK
<1> QED
  BY <1>2, <1>3 DEF Colors

LEMMA KingReach ==
  ASSUME NEW a \in Square, NEW b
  PROVE  b \in PseudoAttacks[KING][a] <=>
           /\ b \in Square /\ a # b
           /\ Rules!Abs(Rules!Files(a, b)) < 2 /\ Rules!Abs(Rules!Ranks(a, b)) < 2
<1>1. b \in PseudoAttacks[KING][a] <=> \E step \in KSteps : b \in LandingSquareBB(a, step)
  BY DEF PseudoAttacks
<1>2. KSteps = {8 * (-1) + (-1), 8 * (-1) + 0, 8 * (-1) + 1, 8 * 0 + (-1), 8 * 0 + 1,
                8 * 1 + (-1), 8 * 1 + 0, 8 * 1 + 1}
  BY DEF KSteps
<1>3. \A df, dr \in -2..2 : b \in LandingSquareBB(a, 8 * dr + df) <=>
          b \in Square /\ Rules!Files(a, b) = df /\ Rules!Ranks(a, b) = dr
  BY StepLands
<1>4. b \in Square =>
        /\ Rules!Files(a, b) \in Int /\ Rules!Ranks(a, b) \in Int
        /\ a # b <=> Rules!Files(a, b) # 0 \/ Rules!Ranks(a, b) # 0
  <2>1. ASSUME b \in Square
        PROVE  /\ Rules!Files(a, b) \in -7..7 /\ Rules!Ranks(a, b) \in -7..7
               /\ b = a + 8 * Rules!Ranks(a, b) + Rules!Files(a, b)
    BY <2>1, Apart
  <2>2. a \in Int
    BY DEF Square
  <2> QED
    BY <2>1, <2>2
<1>5. b \in PseudoAttacks[KING][a] <=>
        \E df, dr \in {-1, 0, 1} : (df # 0 \/ dr # 0) /\
          b \in Square /\ Rules!Files(a, b) = df /\ Rules!Ranks(a, b) = dr
  BY <1>1, <1>2, <1>3
<1> QED
  BY <1>4, <1>5 DEF Rules!Abs

LEMMA KnightReach ==
  ASSUME NEW a \in Square, NEW b
  PROVE  b \in PseudoAttacks[KNIGHT][a] <=>
           /\ b \in Square
           /\ {Rules!Abs(Rules!Files(a, b)), Rules!Abs(Rules!Ranks(a, b))} = {1, 2}
<1>1. b \in PseudoAttacks[KNIGHT][a] <=> \E step \in NSteps : b \in LandingSquareBB(a, step)
  BY DEF PseudoAttacks, KNIGHT, KING
<1>2. NSteps = {8 * (-2) + (-1), 8 * (-2) + 1, 8 * (-1) + (-2), 8 * (-1) + 2,
                8 * 1 + (-2), 8 * 1 + 2, 8 * 2 + (-1), 8 * 2 + 1}
  BY DEF NSteps
<1>3. \A df, dr \in -2..2 : b \in LandingSquareBB(a, 8 * dr + df) <=>
          b \in Square /\ Rules!Files(a, b) = df /\ Rules!Ranks(a, b) = dr
  BY StepLands
<1>4. b \in Square => Rules!Files(a, b) \in Int /\ Rules!Ranks(a, b) \in Int
  BY Apart
<1>5. b \in PseudoAttacks[KNIGHT][a] <=>
        \E df, dr \in {-2, -1, 1, 2} : (df \in {-1, 1} <=> dr \in {-2, 2}) /\
          b \in Square /\ Rules!Files(a, b) = df /\ Rules!Ranks(a, b) = dr
  BY <1>1, <1>2, <1>3
<1> QED
  BY <1>4, <1>5 DEF Rules!Abs

-----------------------------------------------------------------------------
(* The sliders: a ray goes on while file and rank stay on the board.       *)

\* One step along a file or a rank, or none.
Units == {-1, 0, 1}

\* A ray from a in direction (df, dr) has a k-th square.
Fits(a, df, dr, k) == FileOf(a) + k * df \in 0..7 /\ RankOf(a) + k * dr \in 0..7

LEMMA RaySquare ==
  ASSUME NEW a \in Square, NEW df \in Units, NEW dr \in Units, NEW k \in Nat,
         Fits(a, df, dr, k)
  PROVE  LET b == a + k * (8 * dr + df) IN
         /\ b \in Square
         /\ FileOf(b) = FileOf(a) + k * df /\ RankOf(b) = RankOf(a) + k * dr
<1> DEFINE f == FileOf(a) + k * df
           r == RankOf(a) + k * dr
<1>1. FileOf(a) \in 0..7 /\ RankOf(a) \in 0..7 /\ a = 8 * RankOf(a) + FileOf(a)
  BY Coordinates
<1>2. f \in 0..7 /\ r \in 0..7
  BY DEF Fits
<1>3. a + k * (8 * dr + df) = 8 * r + f
  BY <1>1 DEF Units
<1> HIDE DEF f, r
<1>4. 8 * r + f \in Square /\ RankOf(8 * r + f) = r /\ FileOf(8 * r + f) = f
  BY <1>2, SquareAt
<1> QED
  BY <1>3, <1>4 DEF f, r

LEMMA FitsBefore ==
  ASSUME NEW a \in Square, NEW df \in Units, NEW dr \in Units, NEW k \in Nat,
         Fits(a, df, dr, k), NEW j \in 0..k
  PROVE  Fits(a, df, dr, j)
<1>1. ASSUME NEW x \in 0..7, NEW d \in Units, x + k * d \in 0..7
      PROVE  x + j * d \in 0..7
  <2>1. CASE d = 0
    BY <2>1
  <2>2. CASE d = 1
    BY <1>1, <2>2
  <2>3. CASE d = -1
    <3>1. k * d = -k /\ j * d = -j
      BY <2>3
    <3>2. x + k * d = x - k /\ x + j * d = x - j
      BY <3>1
    <3>3. x - k \in 0..7
      BY <1>1, <3>2
    <3>4. x - j \in 0..7
      BY <3>3
    <3> QED
      BY <3>2, <3>4
  <2> QED
    BY <2>1, <2>2, <2>3 DEF Units
<1> QED
  BY <1>1, Coordinates DEF Fits

LEMMA RayLands ==
  ASSUME NEW a \in Square, NEW df \in Units, NEW dr \in Units, NEW j \in Nat,
         Fits(a, df, dr, j)
  PROVE  LandingSquareBB(a + j * (8 * dr + df), 8 * dr + df) # {} <=>
           Fits(a, df, dr, j + 1)
<1> DEFINE b == a + j * (8 * dr + df)
           c == a + (j + 1) * (8 * dr + df)
<1>1. b \in Square /\ FileOf(b) = FileOf(a) + j * df /\ RankOf(b) = RankOf(a) + j * dr
  BY RaySquare
<1>2. /\ FileOf(a) \in Int /\ RankOf(a) \in Int
      /\ (j + 1) * df = j * df + df /\ (j + 1) * dr = j * dr + dr
      /\ j * df \in Int /\ j * dr \in Int
  BY Coordinates DEF Units
<1>3. ASSUME NEW s \in LandingSquareBB(b, 8 * dr + df)
      PROVE  Fits(a, df, dr, j + 1)
  <2>1. s \in Square /\ Rules!Files(b, s) = df /\ Rules!Ranks(b, s) = dr
    BY <1>1, <1>3, StepLands DEF Units
  <2>2. /\ FileOf(s) \in 0..7 /\ RankOf(s) \in 0..7
        /\ FileOf(s) - FileOf(b) = df /\ RankOf(s) - RankOf(b) = dr
    BY <1>1, <2>1, Apart, Coordinates
  <2>3. FileOf(b) \in Int /\ RankOf(b) \in Int /\ df \in Int /\ dr \in Int
    BY <1>1, Coordinates DEF Units
  <2>4. FileOf(s) = FileOf(b) + df /\ RankOf(s) = RankOf(b) + dr
    BY <2>2, <2>3
  <2>5. /\ FileOf(s) = FileOf(a) + (j + 1) * df
        /\ RankOf(s) = RankOf(a) + (j + 1) * dr
    BY <1>1, <1>2, <2>3, <2>4
  <2> QED
    BY <2>2, <2>5 DEF Fits
<1>4. ASSUME Fits(a, df, dr, j + 1)
      PROVE  c \in LandingSquareBB(b, 8 * dr + df)
  <2>1. /\ c \in Square /\ FileOf(c) = FileOf(a) + (j + 1) * df
        /\ RankOf(c) = RankOf(a) + (j + 1) * dr
    BY <1>4, RaySquare
  <2>2. Rules!Files(b, c) = df /\ Rules!Ranks(b, c) = dr
    BY <1>1, <1>2, <2>1, Apart DEF Units
  <2> QED
    BY <1>1, <2>1, <2>2, StepLands DEF Units
<1> QED
  BY <1>3, <1>4

LEMMA RayLength ==
  ASSUME NEW a \in Square, NEW df \in Units, NEW dr \in Units, df # 0 \/ dr # 0,
         NEW k \in 1..7
  PROVE  k \in StepsFrom[a][8 * dr + df] <=> Fits(a, df, dr, k)
<1> DEFINE step == 8 * dr + df
           Goes(j) == /\ a + j * step \in Square
                      /\ LandingSquareBB(a + j * step, step) # {}
<1>1. step \in RSteps \cup BSteps
  BY DEF Units, RSteps, BSteps
<1>2. k \in StepsFrom[a][step] <=> \A j \in 0..(k - 1) : Goes(j)
  BY <1>1 DEF StepsFrom
<1>3. Fits(a, df, dr, 0)
  BY Coordinates DEF Fits, Units
<1>4. \A j \in Nat : Fits(a, df, dr, j) => (Goes(j) <=> Fits(a, df, dr, j + 1))
  BY RayLands, RaySquare
<1>5. ASSUME Fits(a, df, dr, k)
      PROVE  \A j \in 0..(k - 1) : Goes(j)
  BY <1>4, <1>5, FitsBefore
<1>6. ASSUME \A j \in 0..(k - 1) : Goes(j)
      PROVE  Fits(a, df, dr, k)
  <2> DEFINE At(j) == Fits(a, df, dr, j)
  <2>1. \A j \in 0..(k - 1) : At(j) => At(j + 1)
    BY <1>4, <1>6
  <2>2. At(0)
    BY <1>3
  <2> HIDE DEF At
  <2>3. At(1) /\ (k >= 2 => At(2)) /\ (k >= 3 => At(3)) /\ (k >= 4 => At(4))
    BY <2>1, <2>2
  <2>4. (k >= 5 => At(5)) /\ (k >= 6 => At(6)) /\ (k >= 7 => At(7))
    BY <2>1, <2>3
  <2>5. k \in {1, 2, 3, 4, 5, 6, 7}
    OBVIOUS
  <2>6. At(k)
    BY <2>3, <2>4, <2>5
  <2> QED
    BY <2>6 DEF At
<1> QED
  BY <1>2, <1>5, <1>6

LEMMA RayOf ==
  ASSUME NEW a \in Square, NEW b \in Square, NEW df \in Units, NEW dr \in Units,
         df # 0 \/ dr # 0, NEW k \in 1..7,
         Rules!Files(a, b) = k * df, Rules!Ranks(a, b) = k * dr
  PROVE  /\ Rules!Sign(Rules!Files(a, b)) = df /\ Rules!Sign(Rules!Ranks(a, b)) = dr
         /\ Rules!Longer(a, b) = k /\ b = a + k * (8 * dr + df)
<1>1. \A d \in Units : /\ k * d \in Int
                       /\ Rules!Sign(k * d) = d
                       /\ Rules!Abs(k * d) = IF d = 0 THEN 0 ELSE k
  <2>1. k * 0 = 0 /\ k * 1 = k /\ k * (-1) = -k
    OBVIOUS
  <2> QED
    BY <2>1 DEF Units, Rules!Sign, Rules!Abs
<1>2. b = a + 8 * (k * dr) + k * df
  BY Apart
<1>3. a + 8 * (k * dr) + k * df = a + k * (8 * dr + df)
  <2>1. a \in Int
    BY DEF Square
  <2> QED
    BY <2>1 DEF Units
<1>4. Rules!Longer(a, b) = k
  <2>1. /\ Rules!Abs(Rules!Files(a, b)) = IF df = 0 THEN 0 ELSE k
        /\ Rules!Abs(Rules!Ranks(a, b)) = IF dr = 0 THEN 0 ELSE k
    BY <1>1
  <2> QED
    BY <2>1 DEF Rules!Longer
<1> QED
  BY <1>1, <1>2, <1>3, <1>4

LEMMA RayReach ==
  ASSUME NEW a \in Square, NEW df \in Units, NEW dr \in Units, df # 0 \/ dr # 0,
         NEW board, NEW b
  PROVE  (\E k \in StepsFrom[a][8 * dr + df] :
            /\ b = a + k * (8 * dr + df)
            /\ \A j \in 1..(k - 1) : a + j * (8 * dr + df) \notin Occupied(board))
         <=> /\ b \in Square /\ Rules!Clear(board, a, b)
             /\ \E k \in 1..7 : Rules!Files(a, b) = k * df /\ Rules!Ranks(a, b) = k * dr
<1> DEFINE step == 8 * dr + df
<1>1. StepsFrom[a][step] \subseteq 1..7
  <2>1. step \in RSteps \cup BSteps
    BY DEF Units, RSteps, BSteps
  <2> QED
    BY <2>1 DEF StepsFrom
<1>2. ASSUME NEW k \in StepsFrom[a][step], b = a + k * step,
             \A j \in 1..(k - 1) : a + j * step \notin Occupied(board)
      PROVE  /\ b \in Square /\ Rules!Clear(board, a, b)
             /\ k \in 1..7 /\ Rules!Files(a, b) = k * df /\ Rules!Ranks(a, b) = k * dr
  <2>1. k \in 1..7 /\ Fits(a, df, dr, k)
    BY <1>1, <1>2, RayLength
  <2>2. b \in Square /\ FileOf(b) = FileOf(a) + k * df /\ RankOf(b) = RankOf(a) + k * dr
    BY <1>2, <2>1, RaySquare
  <2>3. Rules!Files(a, b) = k * df /\ Rules!Ranks(a, b) = k * dr
    BY <2>1, <2>2, Apart, Coordinates DEF Units
  <2>4. /\ Rules!Sign(Rules!Files(a, b)) = df /\ Rules!Sign(Rules!Ranks(a, b)) = dr
        /\ Rules!Longer(a, b) = k
    BY <2>1, <2>2, <2>3, RayOf
  <2>5. ASSUME NEW j \in 1..(k - 1)
        PROVE  board[a + j * step] = 0
    <3>1. j \in 0..k /\ j \in Nat /\ k \in Nat
      BY <2>1, <2>5
    <3>2. a + j * step \in Square
      BY <2>1, <3>1, FitsBefore, RaySquare
    <3> QED
      BY <1>2, <2>5, <3>2 DEF Occupied, EMPTY
  <2> QED
    BY <2>1, <2>2, <2>3, <2>4, <2>5 DEF Rules!Clear
<1>3. ASSUME b \in Square, Rules!Clear(board, a, b), NEW k \in 1..7,
             Rules!Files(a, b) = k * df, Rules!Ranks(a, b) = k * dr
      PROVE  /\ k \in StepsFrom[a][step] /\ b = a + k * step
             /\ \A j \in 1..(k - 1) : a + j * step \notin Occupied(board)
  <2>1. /\ Rules!Sign(Rules!Files(a, b)) = df /\ Rules!Sign(Rules!Ranks(a, b)) = dr
        /\ Rules!Longer(a, b) = k /\ b = a + k * step
    BY <1>3, RayOf
  <2>2. Fits(a, df, dr, k)
    <3>1. /\ FileOf(b) - FileOf(a) = k * df /\ RankOf(b) - RankOf(a) = k * dr
          /\ FileOf(a) \in Int /\ RankOf(a) \in Int /\ k * df \in Int /\ k * dr \in Int
          /\ FileOf(b) \in 0..7 /\ RankOf(b) \in 0..7
      <4>1. k * df \in Int /\ k * dr \in Int
        BY DEF Units
      <4> QED
        BY <1>3, <4>1, Apart, Coordinates
    <3>2. FileOf(b) = FileOf(a) + k * df /\ RankOf(b) = RankOf(a) + k * dr
      BY <3>1
    <3> QED
      BY <3>1, <3>2 DEF Fits
  <2>3. k \in StepsFrom[a][step]
    BY <2>2, RayLength
  <2>4. \A j \in 1..(k - 1) : board[a + j * step] = 0
    BY <1>3, <2>1 DEF Rules!Clear
  <2> QED
    BY <2>1, <2>3, <2>4 DEF Occupied, EMPTY
<1> QED
  BY <1>2, <1>3

\* Two squares are of one line, straight or diagonal.
Straight(a, b) == Rules!Abs(Rules!Files(a, b)) = 0 \/ Rules!Abs(Rules!Ranks(a, b)) = 0
Diagonal(a, b) == Rules!Abs(Rules!Files(a, b)) = Rules!Abs(Rules!Ranks(a, b))

LEMMA OnRay ==
  ASSUME NEW a \in Square, NEW b \in Square
  PROVE  /\ a # b /\ Straight(a, b) <=>
              \E df, dr \in Units : /\ (df = 0 <=> dr # 0)
                /\ \E k \in 1..7 : Rules!Files(a, b) = k * df /\ Rules!Ranks(a, b) = k * dr
         /\ a # b /\ Diagonal(a, b) <=>
              \E df, dr \in Units \ {0} : \E k \in 1..7 : Rules!Files(a, b) = k * df /\ Rules!Ranks(a, b) = k * dr
<1> DEFINE f == Rules!Files(a, b)
           r == Rules!Ranks(a, b)
           On(df, dr) == \E k \in 1..7 : f = k * df /\ r = k * dr
<1>1. f \in -7..7 /\ r \in -7..7 /\ (a # b <=> f # 0 \/ r # 0)
  <2>1. f \in -7..7 /\ r \in -7..7 /\ b = a + 8 * r + f
    BY Apart
  <2>2. a \in Int
    BY DEF Square
  <2> QED
    BY <2>1, <2>2
<1>2. \A x \in -7..7 : /\ Rules!Abs(x) = 0 <=> x = 0
                       /\ \A y \in -7..7 : Rules!Abs(x) = Rules!Abs(y) <=> x = y \/ x = -y
  BY DEF Rules!Abs
<1> HIDE DEF f, r
<1>3. /\ On(0, 1) <=> f = 0 /\ r \in 1..7
      /\ On(0, -1) <=> f = 0 /\ -r \in 1..7
      /\ On(1, 0) <=> r = 0 /\ f \in 1..7
      /\ On(-1, 0) <=> r = 0 /\ -f \in 1..7
  BY <1>1
<1>4. /\ On(1, 1) <=> f \in 1..7 /\ r = f
      /\ On(-1, 1) <=> r \in 1..7 /\ r = -f
      /\ On(1, -1) <=> f \in 1..7 /\ r = -f
      /\ On(-1, -1) <=> -f \in 1..7 /\ r = f
  BY <1>1
<1>5. a # b /\ Straight(a, b) <=> (f = 0 \/ r = 0) /\ (f # 0 \/ r # 0)
  BY <1>1, <1>2 DEF Straight, f, r
<1>6. a # b /\ Diagonal(a, b) <=> (f = r \/ f = -r) /\ (f # 0 \/ r # 0)
  BY <1>1, <1>2 DEF Diagonal, f, r
<1> HIDE DEF On
<1>7. a # b /\ Straight(a, b) <=> On(0, 1) \/ On(0, -1) \/ On(1, 0) \/ On(-1, 0)
  BY <1>1, <1>3, <1>5
<1>8. a # b /\ Diagonal(a, b) <=> On(1, 1) \/ On(-1, 1) \/ On(1, -1) \/ On(-1, -1)
  BY <1>1, <1>4, <1>6
<1>9. a # b /\ Straight(a, b) <=> \E df, dr \in Units : (df = 0 <=> dr # 0) /\ On(df, dr)
  BY <1>7 DEF Units
<1>10. a # b /\ Diagonal(a, b) <=> \E df, dr \in Units \ {0} : On(df, dr)
  BY <1>8 DEF Units
<1> QED
  BY <1>9, <1>10 DEF On, f, r

LEMMA SliderReach ==
  ASSUME NEW a \in Square, NEW board, NEW b
  PROVE  /\ b \in MakeSliderAttackBB(a, Occupied(board), RSteps) <=>
              b \in Square /\ a # b /\ Straight(a, b) /\ Rules!Clear(board, a, b)
         /\ b \in MakeSliderAttackBB(a, Occupied(board), BSteps) <=>
              b \in Square /\ a # b /\ Diagonal(a, b) /\ Rules!Clear(board, a, b)
<1> DEFINE Ray(step) == \E k \in StepsFrom[a][step] :
                          /\ b = a + k * step
                          /\ \A j \in 1..(k - 1) : a + j * step \notin Occupied(board)
           On(df, dr) == \E k \in 1..7 : Rules!Files(a, b) = k * df
                                          /\ Rules!Ranks(a, b) = k * dr
<1>1. \A steps : b \in MakeSliderAttackBB(a, Occupied(board), steps) <=>
                   \E step \in steps : Ray(step)
  BY SliderAttack
<1>2. \A df, dr \in Units : df # 0 \/ dr # 0 =>
        (Ray(8 * dr + df) <=> b \in Square /\ Rules!Clear(board, a, b) /\ On(df, dr))
  BY RayReach
<1>3. b \in Square =>
        /\ a # b /\ Straight(a, b) <=> \E df, dr \in Units : (df = 0 <=> dr # 0) /\ On(df, dr)
        /\ a # b /\ Diagonal(a, b) <=> \E df, dr \in Units \ {0} : On(df, dr)
  BY OnRay
<1> HIDE DEF Ray, On
<1>4. (\E step \in RSteps : Ray(step)) <=>
        \E df, dr \in Units : (df = 0 <=> dr # 0) /\ Ray(8 * dr + df)
  <2>1. RSteps = {8 * (-1) + 0, 8 * 0 + (-1), 8 * 0 + 1, 8 * 1 + 0}
    BY DEF RSteps
  <2> QED
    BY <2>1 DEF Units
<1>5. (\E step \in BSteps : Ray(step)) <=>
        \E df, dr \in Units \ {0} : Ray(8 * dr + df)
  <2>1. BSteps = {8 * (-1) + (-1), 8 * (-1) + 1, 8 * 1 + (-1), 8 * 1 + 1}
    BY DEF BSteps
  <2> QED
    BY <2>1 DEF Units
<1> QED
  BY <1>1, <1>2, <1>3, <1>4, <1>5

-----------------------------------------------------------------------------
(* What a piece attacks is what the rules say.                             *)

LEMMA RulesPiece ==
  ASSUME NEW c \in Colors, NEW pt \in PAWN..KING
  PROVE  /\ Rules!Color(MakePiece(c, pt)) = c /\ Rules!Type(MakePiece(c, pt)) = pt
         /\ MakePiece(c, pt) = 8 * c + pt /\ MakePiece(c, pt) # 0
  BY MakePieceFacts
  DEF Rules!Color, Rules!Type, ColorOf, PieceTypeOf, MakePiece, Colors, WHITE, BLACK,
      PAWN, KING

LEMMA PieceReach ==
  ASSUME NEW board, NEW c \in Colors, NEW pt \in KNIGHT..KING, NEW a \in Square,
         board[a] = MakePiece(c, pt), NEW b
  PROVE  b \in AttackBB(pt, a, Occupied(board)) <=>
           b \in Square /\ Rules!Attacks(board, a, b)
<1>1. Rules!Type(board[a]) = pt
  BY RulesPiece DEF KNIGHT, PAWN
<1>2. CASE pt = KNIGHT
  <2>1. Rules!Attacks(board, a, b) <=>
          a # b /\ {Rules!Abs(Rules!Files(a, b)), Rules!Abs(Rules!Ranks(a, b))} = {1, 2}
    BY <1>1, <1>2 DEF Rules!Attacks, KNIGHT
  <2>2. {Rules!Abs(Rules!Files(a, b)), Rules!Abs(Rules!Ranks(a, b))} = {1, 2} => a # b
    <3>1. Rules!Files(a, a) = 0 /\ Rules!Ranks(a, a) = 0
      BY Apart, Coordinates
    <3> QED
      BY <3>1 DEF Rules!Abs
  <2> QED
    BY <1>2, <2>1, <2>2, KnightReach DEF AttackBB, KNIGHT, BISHOP, ROOK, QUEEN
<1>3. CASE pt = KING
  <2>1. Rules!Attacks(board, a, b) <=>
          a # b /\ Rules!Abs(Rules!Files(a, b)) < 2 /\ Rules!Abs(Rules!Ranks(a, b)) < 2
    BY <1>1, <1>3 DEF Rules!Attacks, KING
  <2> QED
    BY <1>3, <2>1, KingReach DEF AttackBB, KING, BISHOP, ROOK, QUEEN
<1>4. CASE pt = BISHOP
  <2>1. Rules!Attacks(board, a, b) <=>
          a # b /\ Diagonal(a, b) /\ Rules!Clear(board, a, b)
    BY <1>1, <1>4 DEF Rules!Attacks, Diagonal, BISHOP
  <2>2. AttackBB(pt, a, Occupied(board)) = MakeSliderAttackBB(a, Occupied(board), BSteps)
    BY <1>4 DEF AttackBB, BISHOP, ROOK, QUEEN
  <2> QED
    BY <2>1, <2>2, SliderReach
<1>5. CASE pt = ROOK
  <2>1. Rules!Attacks(board, a, b) <=>
          a # b /\ Straight(a, b) /\ Rules!Clear(board, a, b)
    BY <1>1, <1>5 DEF Rules!Attacks, Straight, ROOK
  <2>2. AttackBB(pt, a, Occupied(board)) = MakeSliderAttackBB(a, Occupied(board), RSteps)
    BY <1>5 DEF AttackBB, BISHOP, ROOK, QUEEN
  <2> QED
    BY <2>1, <2>2, SliderReach
<1>6. CASE pt = QUEEN
  <2>1. Rules!Attacks(board, a, b) <=>
          a # b /\ (Straight(a, b) \/ Diagonal(a, b)) /\ Rules!Clear(board, a, b)
    BY <1>1, <1>6 DEF Rules!Attacks, Straight, Diagonal, QUEEN
  <2>2. b \in MakeSliderAttackBB(a, Occupied(board), RSteps \cup BSteps) <=>
          \/ b \in MakeSliderAttackBB(a, Occupied(board), RSteps)
          \/ b \in MakeSliderAttackBB(a, Occupied(board), BSteps)
    BY SliderAttack
  <2> QED
    BY <1>6, <2>1, <2>2, SliderReach DEF AttackBB, QUEEN, ROOK, BISHOP
<1> QED
  BY <1>2, <1>3, <1>4, <1>5, <1>6 DEF KNIGHT, BISHOP, ROOK, QUEEN, KING

LEMMA PawnReaches ==
  ASSUME NEW board, NEW c \in Colors, NEW a \in Square,
         board[a] = MakePiece(c, PAWN), NEW b
  PROVE  b \in PawnAttacks[c][a] <=> b \in Square /\ Rules!Attacks(board, a, b)
<1>1. Rules!Type(board[a]) = 1 /\ Rules!Color(board[a]) = c
  BY RulesPiece DEF PAWN, KING
<1>2. Rules!Attacks(board, a, b) <=>
        a # b /\ Rules!Abs(Rules!Files(a, b)) = 1
              /\ Rules!Ranks(a, b) = Rules!Forward(c)
  BY <1>1 DEF Rules!Attacks
<1>3. Rules!Abs(Rules!Files(a, b)) = 1 => a # b
  <2>1. Rules!Files(a, a) = 0
    BY Apart, Coordinates
  <2> QED
    BY <2>1 DEF Rules!Abs
<1> QED
  BY <1>2, <1>3, PawnReach

LEMMA Reversed ==
  ASSUME NEW a \in Square, NEW b \in Square
  PROVE  /\ Rules!Files(b, a) = -Rules!Files(a, b)
         /\ Rules!Ranks(b, a) = -Rules!Ranks(a, b)
         /\ Rules!Abs(Rules!Files(b, a)) = Rules!Abs(Rules!Files(a, b))
         /\ Rules!Abs(Rules!Ranks(b, a)) = Rules!Abs(Rules!Ranks(a, b))
<1>1. /\ Rules!Files(b, a) = -Rules!Files(a, b) /\ Rules!Files(a, b) \in Int
      /\ Rules!Ranks(b, a) = -Rules!Ranks(a, b) /\ Rules!Ranks(a, b) \in Int
  BY Apart, Coordinates
<1> QED
  BY <1>1 DEF Rules!Abs

LEMMA PawnReachBack ==
  ASSUME NEW c \in Colors, NEW a \in Square, NEW b \in Square
  PROVE  b \in PawnAttacks[c][a] <=> a \in PawnAttacks[Other(c)][b]
<1>1. Rules!Forward(Other(c)) = -Rules!Forward(c) /\ Rules!Forward(c) \in Int
  BY DEF Rules!Forward, Other, Colors, WHITE, BLACK
<1>2. Rules!Ranks(a, b) \in Int
  BY Apart
<1> QED
  BY <1>1, <1>2, PawnReach, Reversed, OtherFacts

LEMMA SliderMirrored ==
  ASSUME NEW a \in Square, NEW b \in Square, NEW occupied,
         NEW steps \in {RSteps, BSteps}
  PROVE  b \in MakeSliderAttackBB(a, occupied, steps) <=>
           a \in MakeSliderAttackBB(b, occupied, steps)
<1>1. /\ steps \in SUBSET (RSteps \cup BSteps)
      /\ \A step \in steps : -step \in steps
  BY DEF RSteps, BSteps
<1> QED
  BY <1>1, SliderBack

LEMMA Owners ==
  ASSUME NEW p, Sound(p), NEW c \in Colors, NEW s \in Square
  PROVE  /\ s \in p.colorBB[c] <=> Rules!Is(p.board, s, c)
         /\ s \in p.colorBB[c] <=> p.board[s] # EMPTY /\ ColorOf(p.board[s]) = c
         /\ \A pt \in PAWN..KING :
              s \in ColorPieceBB(p, c, pt) <=> p.board[s] = MakePiece(c, pt)
         /\ s \in p.colorBB[c] <=> \E pt \in PAWN..KING : p.board[s] = MakePiece(c, pt)
         /\ s \in p.pieceBB[ALL] <=> p.board[s] # EMPTY
         /\ p.board[s] = EMPTY \/ p.board[s] \in Pieces
<1>1. p \in PositionType /\ Agrees(p)
  BY DEF Sound
<1>2. p.board[s] # EMPTY => p.board[s] \in Pieces
  BY <1>1, PositionParts
<1>3. s \in p.colorBB[c] <=> p.board[s] # EMPTY /\ ColorOf(p.board[s]) = c
  BY <1>1 DEF Agrees, OfColor
<1>4. s \in p.pieceBB[ALL] <=> p.board[s] # EMPTY
  BY <1>1 DEF Agrees, Occupied
<1>5. Rules!Is(p.board, s, c) <=> p.board[s] # EMPTY /\ ColorOf(p.board[s]) = c
  BY DEF Rules!Is, Rules!Color, ColorOf, EMPTY
<1>6. \A pt \in PAWN..KING :
        /\ MakePiece(c, pt) \in Pieces /\ MakePiece(c, pt) # EMPTY
        /\ ColorOf(MakePiece(c, pt)) = c /\ PieceTypeOf(MakePiece(c, pt)) = pt
  BY MakePieceFacts, PieceFacts
<1>7. ASSUME p.board[s] # EMPTY, ColorOf(p.board[s]) = c
      PROVE  /\ PieceTypeOf(p.board[s]) \in PAWN..KING
             /\ p.board[s] = MakePiece(c, PieceTypeOf(p.board[s]))
  BY <1>2, <1>7, PieceFacts
<1>8. \A pt \in PAWN..KING :
        s \in ColorPieceBB(p, c, pt) <=> p.board[s] = MakePiece(c, pt)
  <2>1. \A pt \in PAWN..KING : s \in ColorPieceBB(p, c, pt) <=>
          /\ p.board[s] # EMPTY /\ ColorOf(p.board[s]) = c
          /\ PieceTypeOf(p.board[s]) = pt
    BY <1>1, <1>3 DEF ColorPieceBB, Agrees, OfType
  <2> QED
    BY <2>1, <1>6, <1>7
<1> QED
  BY <1>2, <1>3, <1>4, <1>5, <1>6, <1>7, <1>8

LEMMA SquareAttacked ==
  ASSUME NEW p, Sound(p), NEW c \in Colors, NEW sq \in Square
  PROVE  SqAttacked(p, sq, c) <=> Rules!AttackedBy(p.board, sq, c)
<1> DEFINE occupied == p.pieceBB[ALL]
           By(pts) == p.colorBB[c] \cap UNION {p.pieceBB[t] : t \in pts}
           Hits(a) == Rules!Is(p.board, a, c) /\ Rules!Attacks(p.board, a, sq)
<1>1. SqAttacked(p, sq, c) <=>
        \/ PawnAttacks[Other(c)][sq] \cap By({PAWN}) # {}
        \/ \E t \in {KNIGHT, KING} : PseudoAttacks[t][sq] \cap By({t}) # {}
        \/ \E t \in {BISHOP, ROOK} :
             AttackBB(t, sq, occupied) \cap By({t, QUEEN}) # {}
  BY Zenon DEF SqAttacked
<1>2. \A pts, a : a \in By(pts) <=> \E t \in pts : a \in ColorPieceBB(p, c, t)
  BY DEF ColorPieceBB
<1>3. occupied = Occupied(p.board)
  BY DEF Sound, Agrees
<1>4. \A pt \in PAWN..KING : \A a : a \in ColorPieceBB(p, c, pt) =>
        a \in Square /\ p.board[a] = MakePiece(c, pt) /\ Rules!Is(p.board, a, c)
  BY OnBoard, Owners
<1>5. Rules!AttackedBy(p.board, sq, c) <=> \E a \in Square : Hits(a)
  BY DEF Rules!AttackedBy, Rules!Squares, Square
<1>6. /\ PAWN \in PAWN..KING /\ {KNIGHT, KING, BISHOP, ROOK, QUEEN} \subseteq KNIGHT..KING
      /\ KNIGHT..KING \subseteq PAWN..KING /\ PAWN..KING = {PAWN} \cup KNIGHT..KING
  BY DEF PAWN, KNIGHT, BISHOP, ROOK, QUEEN, KING
<1> HIDE DEF By, occupied
<1>7. ASSUME NEW a \in PawnAttacks[Other(c)][sq], a \in By({PAWN})
      PROVE  a \in Square /\ Hits(a)
  <2>1. a \in Square /\ p.board[a] = MakePiece(c, PAWN) /\ Rules!Is(p.board, a, c)
    BY <1>2, <1>4, <1>6, <1>7
  <2>2. sq \in PawnAttacks[c][a]
    BY <1>7, <2>1, PawnReachBack
  <2> QED
    BY <2>1, <2>2, PawnReaches
<1>8. ASSUME NEW t \in {KNIGHT, KING}, NEW a \in PseudoAttacks[t][sq], a \in By({t})
      PROVE  a \in Square /\ Hits(a)
  <2>1. a \in Square /\ p.board[a] = MakePiece(c, t) /\ Rules!Is(p.board, a, c)
    BY <1>2, <1>4, <1>6, <1>8
  <2>2. sq \in PseudoAttacks[t][a]
    BY <1>8, LeaperBack
  <2>3. AttackBB(t, a, occupied) = PseudoAttacks[t][a]
    BY <1>8 DEF AttackBB, KNIGHT, KING, BISHOP, ROOK, QUEEN
  <2> QED
    BY <1>3, <1>6, <2>1, <2>2, <2>3, PieceReach
<1>9. ASSUME NEW t \in {BISHOP, ROOK}, NEW a \in AttackBB(t, sq, occupied), a \in By({t, QUEEN})
      PROVE  a \in Square /\ Hits(a)
  <2>1. PICK pt \in {t, QUEEN} : a \in ColorPieceBB(p, c, pt)
    BY <1>2, <1>9
  <2>2. a \in Square /\ p.board[a] = MakePiece(c, pt) /\ Rules!Is(p.board, a, c)
    BY <1>4, <1>6, <2>1
  <2>3. PICK steps \in {RSteps, BSteps} : steps = (IF t = ROOK THEN RSteps ELSE BSteps)
    OBVIOUS
  <2>4. AttackBB(t, sq, occupied) = MakeSliderAttackBB(sq, occupied, steps)
    BY <1>9, <2>3 DEF AttackBB, BISHOP, ROOK, QUEEN
  <2>5. sq \in MakeSliderAttackBB(a, occupied, steps)
    BY <1>9, <2>2, <2>4, SliderMirrored
  <2>6. sq \in AttackBB(pt, a, occupied)
    <3>1. CASE pt = t
      BY <1>9, <2>3, <2>5, <3>1 DEF AttackBB, BISHOP, ROOK, QUEEN
    <3>2. CASE pt = QUEEN
      <4>1. AttackBB(pt, a, occupied) = MakeSliderAttackBB(a, occupied, RSteps \cup BSteps)
        BY <3>2 DEF AttackBB, BISHOP, ROOK, QUEEN
      <4> QED
        BY <2>3, <2>5, <4>1, SliderAttack
    <3> QED
      BY <2>1, <3>1, <3>2
  <2>7. pt \in KNIGHT..KING
    BY <1>6, <2>1
  <2> QED
    BY <1>3, <2>2, <2>6, <2>7, PieceReach
<1>10. ASSUME NEW a \in Square, Hits(a)
       PROVE  SqAttacked(p, sq, c)
  <2>1. PICK pt \in PAWN..KING : p.board[a] = MakePiece(c, pt)
    BY <1>10, Owners
  <2>2. a \in ColorPieceBB(p, c, pt)
    BY <2>1, Owners
  <2>3. CASE pt = PAWN
    <3>1. sq \in PawnAttacks[c][a]
      BY <1>10, <2>1, <2>3, PawnReaches
    <3>2. a \in PawnAttacks[Other(c)][sq]
      BY <3>1, PawnReachBack
    <3> QED
      BY <1>1, <1>2, <2>2, <2>3, <3>2
  <2>4. CASE pt \in KNIGHT..KING
    <3>1. sq \in AttackBB(pt, a, p.pieceBB[ALL])
      BY <1>3, <1>10, <2>1, <2>4, PieceReach DEF occupied
    <3> QED
      BY <2>2, <2>4, <3>1, PieceAttacks
  <2> QED
    BY <1>6, <2>1, <2>3, <2>4
<1> HIDE DEF Hits
<1>11. SqAttacked(p, sq, c) => \E a \in Square : Hits(a)
  BY <1>1, <1>7, <1>8, <1>9
<1> QED
  BY <1>5, <1>10, <1>11

LEMMA KingInCheck ==
  ASSUME NEW p, Sound(p), NEW c \in Colors
  PROVE  KingAttacked(p, c) <=> Rules!InCheck(p.board, c)
<1>1. \A sq : sq \in ColorPieceBB(p, c, KING) <=>
                sq \in Square /\ p.board[sq] = 8 * c + 6
  BY OnBoard, Owners DEF MakePiece, KING, PAWN
<1>2. Other(c) = 1 - c /\ Other(c) \in Colors
  BY OtherFacts DEF Other
<1> QED
  BY <1>1, <1>2, SquareAttacked DEF KingAttacked, Rules!InCheck, Rules!Squares, Square

-----------------------------------------------------------------------------
(* The lane of a castling king.                                            *)

\* The board with a piece on b alone.
Only(b) == [sq \in Square |-> IF sq = b THEN 1 ELSE EMPTY]

LEMMA OnlyOccupied ==
  ASSUME NEW b \in Square
  PROVE  Occupied(Only(b)) = {b}
  BY DEF Occupied, Only, EMPTY

\* k steps, kept as one term.
Far(k, step) == k * step

\* Clear along a rank.
LEMMA ClearRank ==
  ASSUME NEW board, NEW a \in Square, NEW b \in Square, NEW step \in {-1, 1},
         NEW n \in 1..7, Rules!Files(a, b) = Far(n, step), Rules!Ranks(a, b) = 0
  PROVE  Rules!Clear(board, a, b) <=> \A k \in 1..(n - 1) : board[a + Far(k, step)] = 0
<1>1. n * 0 = 0 /\ step \in Units /\ 0 \in Units /\ step # 0
  BY DEF Units
<1>2. /\ Rules!Sign(Rules!Files(a, b)) = step /\ Rules!Sign(Rules!Ranks(a, b)) = 0
      /\ Rules!Longer(a, b) = n
  BY <1>1, RayOf DEF Far
<1>3. 8 * 0 + step = step
  BY <1>1
<1> QED
  BY <1>2, <1>3 DEF Rules!Clear, Far

LEMMA BetweenOnly ==
  ASSUME NEW a \in Square, NEW b \in Square, NEW step \in {-1, 1}, NEW n \in 1..7,
         Rules!Files(a, b) = Far(n, step), Rules!Ranks(a, b) = 0,
         NEW s \in BetweenBB(a, b)
  PROVE  \E i \in 1..(n - 1) : s = a + Far(i, step)
<1>1. PICK pt \in {BISHOP, ROOK} :
        /\ b \in AttackBB(pt, a, {b})
        /\ s \in AttackBB(pt, a, {b}) /\ s \in AttackBB(pt, b, {a})
  BY DEF BetweenBB
<1>2. /\ AttackBB(BISHOP, a, {b}) = MakeSliderAttackBB(a, Occupied(Only(b)), BSteps)
      /\ AttackBB(ROOK, a, {b}) = MakeSliderAttackBB(a, Occupied(Only(b)), RSteps)
      /\ AttackBB(ROOK, b, {a}) = MakeSliderAttackBB(b, Occupied(Only(a)), RSteps)
  BY OnlyOccupied DEF AttackBB, BISHOP, ROOK, QUEEN
<1>3. pt = ROOK
  <2>1. Rules!Abs(n * step) # Rules!Abs(0)
    BY DEF Rules!Abs
  <2>2. ~Diagonal(a, b)
    BY <2>1 DEF Diagonal, Far
  <2> QED
    BY <1>1, <1>2, <2>2, SliderReach
<1>4. /\ s \in Square /\ a # s /\ Straight(a, s) /\ Rules!Clear(Only(b), a, s)
      /\ b # s /\ Straight(b, s) /\ Rules!Clear(Only(a), b, s)
  BY <1>1, <1>2, <1>3, SliderReach
<1> DEFINE x == Rules!Files(a, s)
<1>5. /\ x \in -7..7 /\ Rules!Files(b, s) = x - n * step /\ Rules!Files(b, s) \in -7..7
      /\ Rules!Ranks(b, s) = Rules!Ranks(a, s) /\ Rules!Ranks(a, s) \in -7..7
      /\ s = a + 8 * Rules!Ranks(a, s) + x /\ b = a + n * step
  <2>1. /\ FileOf(a) \in Int /\ FileOf(b) \in Int /\ FileOf(s) \in Int
        /\ RankOf(a) \in Int /\ RankOf(b) \in Int /\ RankOf(s) \in Int
    BY <1>4, Coordinates
  <2>2. /\ x = FileOf(s) - FileOf(a) /\ Rules!Files(b, s) = FileOf(s) - FileOf(b)
        /\ n * step = FileOf(b) - FileOf(a)
        /\ Rules!Ranks(a, s) = RankOf(s) - RankOf(a)
        /\ Rules!Ranks(b, s) = RankOf(s) - RankOf(b) /\ 0 = RankOf(b) - RankOf(a)
    BY <1>4, Apart DEF Far
  <2>3. /\ x \in -7..7 /\ Rules!Files(b, s) \in -7..7 /\ Rules!Ranks(a, s) \in -7..7
        /\ s = a + 8 * Rules!Ranks(a, s) + x /\ b = a + 8 * 0 + n * step
    BY <1>4, Apart DEF Far
  <2>4. a \in Int /\ n * step \in Int
    BY DEF Square
  <2> QED
    BY <2>1, <2>2, <2>3, <2>4
<1>6. Rules!Ranks(a, s) = 0
  BY <1>4, <1>5 DEF Straight, Rules!Abs
<1> HIDE DEF x
<1>7. x # 0 /\ x # n * step
  <2>1. a \in Int
    BY DEF Square
  <2> QED
    BY <1>4, <1>5, <1>6, <2>1
<1>8. \A back \in {-1, 1}, k \in 1..7 : x = Far(k, back) =>
        \A j \in 1..(k - 1) : a + Far(j, back) # b
  <2>1. \A back \in {-1, 1}, k \in 1..7 : x = Far(k, back) =>
          \A j \in 1..(k - 1) : Only(b)[a + Far(j, back)] = 0
    BY <1>4, <1>6, ClearRank DEF x
  <2>2. Only(b)[b] # 0
    BY DEF Only
  <2> QED
    BY <2>1, <2>2
<1>9. \A back \in {-1, 1}, k \in 1..7 : x - n * step = Far(k, back) =>
        \A j \in 1..(k - 1) : b + Far(j, back) # a
  <2>1. \A back \in {-1, 1}, k \in 1..7 : Rules!Files(b, s) = Far(k, back) =>
          \A j \in 1..(k - 1) : Only(a)[b + Far(j, back)] = 0
    BY <1>4, <1>5, <1>6, ClearRank
  <2>2. Only(a)[a] # 0
    BY DEF Only
  <2> QED
    BY <1>5, <2>1, <2>2
<1>10. a \in Int
  BY DEF Square
<1>11. CASE step = 1
  <2>1. x > 0
    <3> SUFFICES ASSUME x < 0
                 PROVE  FALSE
      BY <1>5, <1>7
    <3>1. n - x \in 1..7 /\ x - n * step = (n - x) * (-1)
      BY <1>5, <1>11
    <3>2. n \in 1..((n - x) - 1)
      BY <1>5
    <3>3. b + n * (-1) # a
      BY <1>9, <3>1, <3>2 DEF Far
    <3> QED
      BY <1>5, <1>10, <1>11, <3>3
  <2>2. x < n
    <3> SUFFICES ASSUME x > n
                 PROVE  FALSE
      BY <1>5, <1>7, <1>11
    <3>1. x \in 1..7 /\ x = x * 1 /\ n \in 1..(x - 1)
      BY <1>5
    <3>2. a + n * 1 # b
      BY <1>8, <3>1 DEF Far
    <3> QED
      BY <1>5, <1>11, <3>2
  <2>3. x \in 1..(n - 1) /\ s = a + x * step
    BY <1>5, <1>6, <1>10, <1>11, <2>1, <2>2
  <2> QED
    BY <2>3 DEF Far
<1>12. CASE step = -1
  <2>1. x < 0
    <3> SUFFICES ASSUME x > 0
                 PROVE  FALSE
      BY <1>5, <1>7
    <3>1. n + x \in 1..7 /\ x - n * step = (n + x) * 1
      BY <1>5, <1>12
    <3>2. n \in 1..((n + x) - 1)
      BY <1>5
    <3>3. b + n * 1 # a
      BY <1>9, <3>1, <3>2 DEF Far
    <3> QED
      BY <1>5, <1>10, <1>12, <3>3
  <2>2. -x < n
    <3> SUFFICES ASSUME -x > n
                 PROVE  FALSE
      BY <1>5, <1>7, <1>12
    <3>1. -x \in 1..7 /\ x = (-x) * (-1) /\ n \in 1..((-x) - 1)
      BY <1>5
    <3>2. a + n * (-1) # b
      BY <1>8, <3>1 DEF Far
    <3> QED
      BY <1>5, <1>12, <3>2
  <2>3. -x \in 1..(n - 1) /\ s = a + (-x) * step
    BY <1>5, <1>6, <1>10, <1>12, <2>1, <2>2
  <2> QED
    BY <2>3 DEF Far
<1> QED
  BY <1>11, <1>12

LEMMA LaneWhole ==
  ASSUME NEW a \in Square, NEW b \in Square, NEW step \in {-1, 1}, NEW n \in 2..7,
         Rules!Files(a, b) = Far(n, step), Rules!Ranks(a, b) = 0,
         NEW k \in 1..(n - 1)
  PROVE  a + Far(k, step) \in Square /\ a + Far(k, step) \in BetweenBB(a, b)
<1>1. b = a + n * step /\ RankOf(a) = RankOf(b)
  <2>1. /\ Rules!Ranks(a, b) = RankOf(b) - RankOf(a) /\ RankOf(a) \in Int /\ RankOf(b) \in Int
        /\ b = a + 8 * Rules!Ranks(a, b) + Rules!Files(a, b)
    BY Apart, Coordinates
  <2>2. a \in Int /\ n * step \in Int
    BY DEF Square
  <2> QED
    BY <2>1, <2>2 DEF Far
<1>2. a + k * step \in 0..63
  <2>1. a \in 0..63 /\ a + n * step \in 0..63
    BY <1>1 DEF Square
  <2> QED
    BY <2>1
<1> QED
  BY <1>1, <1>2, Between DEF Far, Square

LEMMA LaneClear ==
  ASSUME NEW board, NEW a \in Square, NEW b \in Square, NEW step \in {-1, 1},
         NEW n \in 2..7, Rules!Files(a, b) = Far(n, step), Rules!Ranks(a, b) = 0
  PROVE  Occupied(board) \cap BetweenBB(a, b) = {} <=> Rules!Clear(board, a, b)
<1>1. n \in 1..7
  OBVIOUS
<1>2. Rules!Clear(board, a, b) <=> \A k \in 1..(n - 1) : board[a + Far(k, step)] = 0
  BY <1>1, ClearRank
<1>3. \A k \in 1..(n - 1) : /\ a + Far(k, step) \in Square
                            /\ a + Far(k, step) \in BetweenBB(a, b)
  BY LaneWhole
<1>4. \A s \in BetweenBB(a, b) : \E k \in 1..(n - 1) : s = a + Far(k, step)
  BY <1>1, BetweenOnly
<1> QED
  BY <1>2, <1>3, <1>4 DEF Occupied, EMPTY

LEMMA RightOf ==
  ASSUME NEW c \in Colors, NEW side \in {OO, OOO}
  PROVE  LET king == IF c = WHITE THEN E1 ELSE E8
             rook == IF side = OO THEN king + 3 ELSE king - 4
             mid  == IF side = OO THEN king + 1 ELSE king - 1
             r    == (IF c = WHITE THEN 1 ELSE 4) * (IF side = OO THEN 1 ELSE 2)
         IN  /\ side \cap CastleOf(c) = {r}
             /\ Rules!King(r) = king /\ Rules!Rook(r) = rook /\ Rules!Mid(r) = mid
             /\ c = IF r < 4 THEN 0 ELSE 1
             /\ king + 2 * (mid - king) = IF side = OO THEN king + 2 ELSE king - 2
<1>1. OO = {1, 4} /\ OOO = {2, 8} /\ OO # OOO
  BY DEF OO, OOO, WHITE_OO, WHITE_OOO, BLACK_OO, BLACK_OOO
<1>2. CASE c = WHITE
  BY <1>1, <1>2 DEF CastleOf, Rules!King, Rules!Rook, Rules!Mid, WHITE, E1,
     WHITE_OO, WHITE_OOO
<1>3. CASE c = BLACK
  BY <1>1, <1>3 DEF CastleOf, Rules!King, Rules!Rook, Rules!Mid, WHITE, BLACK, E8,
     BLACK_OO, BLACK_OOO
<1> QED
  BY <1>2, <1>3 DEF Colors

\* The lane is clear of pieces.
LEMMA CastleLane ==
  ASSUME NEW board, NEW c \in Colors, NEW side \in {OO, OOO}
  PROVE  LET king == IF c = WHITE THEN E1 ELSE E8
             rook == IF side = OO THEN king + 3 ELSE king - 4
         IN  Occupied(board) \cap BetweenBB(king, rook) = {} <=>
               Rules!Clear(board, king, rook)
<1> DEFINE king == IF c = WHITE THEN E1 ELSE E8
<1>1. /\ king \in Square /\ king + 3 \in Square /\ king - 4 \in Square
      /\ Rules!Ranks(king, king + 3) = 0 /\ Rules!Files(king, king + 3) = Far(3, 1)
      /\ Rules!Ranks(king, king - 4) = 0 /\ Rules!Files(king, king - 4) = Far(4, -1)
  BY DEF Square, Rules!Ranks, Rules!Files, Far, E1, E8
<1> HIDE DEF king
<1>2. Occupied(board) \cap BetweenBB(king, king + 3) = {} <=>
        Rules!Clear(board, king, king + 3)
  BY <1>1, LaneClear
<1>3. Occupied(board) \cap BetweenBB(king, king - 4) = {} <=>
        Rules!Clear(board, king, king - 4)
  BY <1>1, LaneClear
<1> QED
  BY <1>2, <1>3 DEF king

LEMMA CastlingAllowed ==
  ASSUME NEW p, Good(p), NEW c \in Colors, NEW side \in {OO, OOO}
  PROVE  LET king == IF c = WHITE THEN E1 ELSE E8
             rook == IF side = OO THEN king + 3 ELSE king - 4
             mid  == IF side = OO THEN king + 1 ELSE king - 1
         IN  CastlePseudoLegal(p, c, side) <=>
               /\ p.castlingRights \cap side \cap CastleOf(c) # {}
               /\ Rules!Clear(p.board, king, rook)
               /\ ~Rules!AttackedBy(p.board, king, 1 - c)
               /\ ~Rules!AttackedBy(p.board, mid, 1 - c)
<1> DEFINE king == IF c = WHITE THEN E1 ELSE E8
           rook == IF side = OO THEN king + 3 ELSE king - 4
           mid  == IF side = OO THEN king + 1 ELSE king - 1
<1>1. CastlePseudoLegal(p, c, side) <=>
        /\ p.castlingRights \cap side \cap CastleOf(c) # {}
        /\ p.pieceBB[ALL] \cap BetweenBB(king, rook) = {}
        /\ ~SqAttacked(p, king, Other(c))
        /\ ~SqAttacked(p, mid, Other(c))
  BY Zenon DEF CastlePseudoLegal
<1>2. Sound(p) /\ p.pieceBB[ALL] = Occupied(p.board)
  BY DEF Good, Sound, Agrees
<1>3. king \in Square /\ mid \in Square
  BY DEF Square, E1, E8
<1>4. Other(c) = 1 - c /\ Other(c) \in Colors
  BY OtherFacts DEF Other
<1>5. Occupied(p.board) \cap BetweenBB(king, rook) = {} <=> Rules!Clear(p.board, king, rook)
  BY CastleLane
<1> HIDE DEF king, rook, mid
<1>6. /\ SqAttacked(p, king, Other(c)) <=> Rules!AttackedBy(p.board, king, 1 - c)
      /\ SqAttacked(p, mid, Other(c)) <=> Rules!AttackedBy(p.board, mid, 1 - c)
  BY <1>2, <1>3, <1>4, SquareAttacked
<1>7. CastlePseudoLegal(p, c, side) <=>
               /\ p.castlingRights \cap side \cap CastleOf(c) # {}
               /\ Rules!Clear(p.board, king, rook)
               /\ ~Rules!AttackedBy(p.board, king, 1 - c)
               /\ ~Rules!AttackedBy(p.board, mid, 1 - c)
  BY <1>1, <1>2, <1>5, <1>6
<1> QED
  BY <1>7 DEF king, rook, mid

-----------------------------------------------------------------------------
(* The moves of the rules, as the code writes them: with what is captured  *)
(* and the kind of move.                                                   *)

\* A move as the rules name it.
CoreMove(m) == [from |-> m.from, to |-> m.to, promo |-> m.promo]

\* An own piece goes to a square without an own piece.
Leaves(p, m) ==
  /\ IsMove(m) /\ m.from \in Square /\ m.to \in Square /\ m.capt = p.board[m.to]
  /\ Rules!Is(p.board, m.from, p.stm) /\ ~Rules!Is(p.board, m.to, p.stm)

\* A piece attacks the square it goes to; a king castles.
PieceGoes(p, m) == /\ m.flag = "none" /\ m.promo = EMPTY
                   /\ Rules!Type(p.board[m.from]) # 1
                   /\ Rules!Attacks(p.board, m.from, m.to)
Castles(p, m)   == /\ m.flag = "castle" /\ m.promo = EMPTY
                   /\ Rules!Type(p.board[m.from]) # 1
                   /\ Rules!CastleMove(Core(p), m.from, m.to)

LEMMA CoreFields ==
  ASSUME NEW p
  PROVE  /\ Core(p).board = p.board /\ Core(p).stm = p.stm /\ Core(p).ep = p.epSquare
         /\ Core(p).rights = p.castlingRights /\ Core(p).rule50 = p.rule50
  BY DEF Core

LEMMA GenCastles ==
  ASSUME NEW p, Good(p), NEW type, NEW m
  PROVE  m \in GenCastling(p, p.stm, type) <=>
           type = "quiet" /\ Leaves(p, m) /\ Castles(p, m)
<1> DEFINE us == p.stm
           king == IF us = WHITE THEN E1 ELSE E8
           rook(side) == IF side = OO THEN king + 3 ELSE king - 4
           mid(side) == IF side = OO THEN king + 1 ELSE king - 1
           to(side) == IF side = OO THEN king + 2 ELSE king - 2
           r(side) == (IF us = WHITE THEN 1 ELSE 4) * (IF side = OO THEN 1 ELSE 2)
<1>1. /\ us \in Colors /\ Sound(p) /\ p \in PositionType
      /\ p.castlingRights \subseteq OO \cup OOO
  BY PositionParts DEF Good, Sound, PositionType
<1>2. m \in GenCastling(p, us, type) <=>
        \E side \in {OO, OOO} : /\ type = "quiet" /\ CastlePseudoLegal(p, us, side)
                                /\ m = AddMove(p, king, to(side), EMPTY, "castle")
  <2>1. GenCastling(p, us, type) =
          {AddMove(p, king, to(side), EMPTY, "castle") :
             side \in {s \in {OO, OOO} : type = "quiet" /\ CastlePseudoLegal(p, us, s)}}
    BY Zenon DEF GenCastling
  <2> QED
    BY <2>1
<1>3. \A side \in {OO, OOO} :
        CastlePseudoLegal(p, us, side) <=>
               /\ p.castlingRights \cap side \cap CastleOf(us) # {}
               /\ Rules!Clear(p.board, king, rook(side))
               /\ ~Rules!AttackedBy(p.board, king, 1 - us)
               /\ ~Rules!AttackedBy(p.board, mid(side), 1 - us)
  BY <1>1, CastlingAllowed
<1>4. \A side \in {OO, OOO} :
        /\ side \cap CastleOf(us) = {r(side)}
        /\ Rules!King(r(side)) = king /\ Rules!Rook(r(side)) = rook(side)
        /\ Rules!Mid(r(side)) = mid(side)
        /\ us = IF r(side) < 4 THEN 0 ELSE 1
        /\ king + 2 * (mid(side) - king) = to(side)
  BY <1>1, RightOf
<1>5. Rules!CastleMove(Core(p), m.from, m.to) <=>
        \E x \in p.castlingRights :
          /\ Rules!Color(p.board[m.from]) = (IF x < 4 THEN 0 ELSE 1)
          /\ m.from = Rules!King(x) /\ m.to = m.from + 2 * (Rules!Mid(x) - m.from)
          /\ Rules!Clear(p.board, m.from, Rules!Rook(x))
          /\ ~Rules!AttackedBy(p.board, m.from, 1 - us)
          /\ ~Rules!AttackedBy(p.board, Rules!Mid(x), 1 - us)
  BY CoreFields DEF Rules!CastleMove
<1> HIDE DEF us, king, rook, mid, to, r
<1>6. ASSUME NEW side \in {OO, OOO}, type = "quiet", CastlePseudoLegal(p, us, side),
             m = AddMove(p, king, to(side), EMPTY, "castle")
      PROVE  type = "quiet" /\ Leaves(p, m) /\ Castles(p, m)
  <2>1. m \in GenCastling(p, us, type)
    BY <1>2, <1>6
  <2>2. MoveOk(p, m) /\ m.flag = "castle"
    <3>1. MoveOk(p, m)
      BY <2>1, CastlingOk DEF us
    <3> QED
      BY <1>6, <3>1 DEF AddMove, MOVE
  <2>3. /\ m.from = king /\ m.to = to(side) /\ m.promo = EMPTY
    BY <1>6 DEF AddMove, MOVE
  <2>4. p.board[m.from] = MakePiece(us, KING) /\ p.board[m.to] = EMPTY
    BY <2>2 DEF MoveOk, us
  <2>5. /\ Rules!Color(p.board[m.from]) = us /\ Rules!Type(p.board[m.from]) # 1
        /\ p.board[m.from] # 0
    BY <1>1, <2>4, RulesPiece DEF KING, PAWN
  <2>6. Leaves(p, m)
    BY <2>2, <2>4, <2>5 DEF Leaves, MoveOk, Rules!Is, us, EMPTY
  <2>7. Rules!CastleMove(Core(p), m.from, m.to)
    <3>1. r(side) \in p.castlingRights
      BY <1>3, <1>4, <1>6
    <3> QED
      BY <1>3, <1>4, <1>5, <1>6, <2>3, <2>5, <3>1
  <2> QED
    BY <1>6, <2>2, <2>3, <2>5, <2>6, <2>7 DEF Castles
<1>7. ASSUME type = "quiet", Leaves(p, m), Castles(p, m)
      PROVE  \E side \in {OO, OOO} : /\ CastlePseudoLegal(p, us, side)
                                     /\ m = AddMove(p, king, to(side), EMPTY, "castle")
  <2>1. PICK x \in p.castlingRights :
          /\ Rules!Color(p.board[m.from]) = (IF x < 4 THEN 0 ELSE 1)
          /\ m.from = Rules!King(x) /\ m.to = m.from + 2 * (Rules!Mid(x) - m.from)
          /\ Rules!Clear(p.board, m.from, Rules!Rook(x))
          /\ ~Rules!AttackedBy(p.board, m.from, 1 - us)
          /\ ~Rules!AttackedBy(p.board, Rules!Mid(x), 1 - us)
    BY <1>5, <1>7 DEF Castles
  <2>2. Rules!Color(p.board[m.from]) = us
    BY <1>7 DEF Leaves, Rules!Is, us
  <2>3. PICK side \in {OO, OOO} : x \in side
    BY <1>1
  <2>4. x \in CastleOf(us)
    <3>1. x \in {1, 2, 4, 8} /\ us \in {0, 1} /\ us = (IF x < 4 THEN 0 ELSE 1)
      BY <1>1, <2>1, <2>2 DEF OO, OOO, WHITE_OO, WHITE_OOO, BLACK_OO, BLACK_OOO,
         Colors, WHITE, BLACK
    <3> QED
      BY <3>1 DEF CastleOf, WHITE_OO, WHITE_OOO, BLACK_OO, BLACK_OOO, WHITE
  <2>5. x = r(side) /\ p.castlingRights \cap side \cap CastleOf(us) # {}
    BY <1>4, <2>3, <2>4
  <2>6. m.from = king /\ m.to = to(side)
    BY <1>4, <2>1, <2>5
  <2>7. CastlePseudoLegal(p, us, side)
    BY <1>3, <1>4, <2>1, <2>5, <2>6
  <2>8. m = AddMove(p, king, to(side), EMPTY, "castle")
    BY <1>7, <2>6 DEF Leaves, Castles, IsMove, AddMove
  <2> QED
    BY <2>7, <2>8
<1> QED
  BY <1>2, <1>6, <1>7 DEF us

\* What the noisy generator is there for.
Noisy(m) == IF m.promo # EMPTY THEN PieceTypeOf(m.promo) = QUEEN
                               ELSE m.capt # EMPTY \/ m.flag = "enpas"

LEMMA TypeOfOwn ==
  ASSUME NEW p, Sound(p), NEW s \in Square, Rules!Is(p.board, s, p.stm)
  PROVE  \E pt \in PAWN..KING : /\ p.board[s] = MakePiece(p.stm, pt)
                                /\ Rules!Type(p.board[s]) = pt
                                /\ s \in ColorPieceBB(p, p.stm, pt)
<1>1. p.stm \in Colors
  BY PositionParts DEF Sound
<1>2. PICK pt \in PAWN..KING : p.board[s] = MakePiece(p.stm, pt)
  BY <1>1, Owners
<1> QED
  BY <1>1, <1>2, Owners, RulesPiece

LEMMA GenPieces ==
  ASSUME NEW p, Good(p), NEW type \in {"noisy", "quiet"}, NEW m
  PROVE  (\E pt \in KNIGHT..KING : m \in GenPieceType(p, p.stm, type, pt)) <=>
           Leaves(p, m) /\ PieceGoes(p, m) /\ (type = "noisy" <=> Noisy(m))
<1> DEFINE us == p.stm
           targets == IF type = "noisy" THEN p.colorBB[Other(us)]
                                        ELSE Square \ p.pieceBB[ALL]
<1>1. /\ us \in Colors /\ Sound(p) /\ Other(us) \in Colors /\ Other(us) # us
      /\ p.pieceBB[ALL] = Occupied(p.board)
  BY PositionParts, OtherFacts DEF Good, Sound, Agrees
<1>2. KNIGHT..KING \subseteq PAWN..KING /\ PAWN \notin KNIGHT..KING /\ PAWN = 1
      /\ PAWN..KING = {PAWN} \cup KNIGHT..KING
  BY DEF PAWN, KNIGHT, KING
<1>3. \A to \in Square :
        to \in targets <=> /\ ~Rules!Is(p.board, to, us)
                           /\ type = "noisy" <=> p.board[to] # EMPTY
  <2>1. \A to \in Square :
          /\ to \in p.colorBB[Other(us)] <=> p.board[to] # EMPTY /\ ~Rules!Is(p.board, to, us)
          /\ to \in p.pieceBB[ALL] <=> p.board[to] # EMPTY
          /\ Rules!Is(p.board, to, us) => p.board[to] # EMPTY
    <3>1. \A to \in Square : p.board[to] # EMPTY => ColorOf(p.board[to]) \in {us, Other(us)}
      <4>1. \A to \in Square : p.board[to] # EMPTY => ColorOf(p.board[to]) \in Colors
        BY <1>1, Owners, PieceFacts
      <4> QED
        BY <1>1, <4>1 DEF Colors
    <3> QED
      BY <1>1, <3>1, Owners
  <2> QED
    BY <2>1
<1>4. \A pt : GenPieceType(p, us, type, pt) =
        UNION {{AddMove(p, from, to, EMPTY, "none") :
                  to \in targets \cap AttackBB(pt, from, p.pieceBB[ALL])} :
                 from \in ColorPieceBB(p, us, pt)}
  BY Zenon DEF GenPieceType
<1> HIDE DEF us, targets
<1>5. \A from, to : LET n == AddMove(p, from, to, EMPTY, "none") IN
        /\ n.from = from /\ n.to = to /\ n.capt = p.board[to] /\ n.promo = EMPTY
        /\ n.flag = "none" /\ IsMove(n)
  BY DEF AddMove, MOVE, IsMove
<1>6. ASSUME NEW pt \in KNIGHT..KING, m \in GenPieceType(p, us, type, pt)
      PROVE  Leaves(p, m) /\ PieceGoes(p, m) /\ (type = "noisy" <=> Noisy(m))
  <2>1. PICK from \in ColorPieceBB(p, us, pt), to \in targets :
          /\ to \in AttackBB(pt, from, p.pieceBB[ALL])
          /\ m = AddMove(p, from, to, EMPTY, "none")
    BY <1>4, <1>6
  <2>2. from \in Square /\ p.board[from] = MakePiece(us, pt)
    BY <1>1, <1>2, <2>1, OnBoard
  <2>3. to \in Square /\ Rules!Attacks(p.board, from, to)
    BY <1>1, <2>1, <2>2, PieceReach
  <2>4. Rules!Is(p.board, from, us) /\ Rules!Type(p.board[from]) = pt
    BY <1>1, <1>2, <2>2, Owners, RulesPiece
  <2> QED
    BY <1>2, <1>3, <1>5, <2>1, <2>2, <2>3, <2>4 DEF Leaves, PieceGoes, Noisy, us
<1>7. ASSUME Leaves(p, m), PieceGoes(p, m), type = "noisy" <=> Noisy(m)
      PROVE  \E pt \in KNIGHT..KING : m \in GenPieceType(p, us, type, pt)
  <2>1. PICK pt \in PAWN..KING : /\ p.board[m.from] = MakePiece(us, pt)
                                 /\ Rules!Type(p.board[m.from]) = pt
                                 /\ m.from \in ColorPieceBB(p, us, pt)
    BY <1>1, <1>7, TypeOfOwn DEF Leaves, us
  <2>2. pt \in KNIGHT..KING
    BY <1>2, <1>7, <2>1 DEF PieceGoes
  <2>3. m.to \in AttackBB(pt, m.from, p.pieceBB[ALL])
    BY <1>1, <1>7, <2>1, <2>2, PieceReach DEF Leaves, PieceGoes
  <2>4. m.to \in targets
    BY <1>3, <1>7 DEF Leaves, PieceGoes, Noisy, us
  <2>5. m = AddMove(p, m.from, m.to, EMPTY, "none")
    BY <1>7 DEF Leaves, PieceGoes, IsMove, AddMove
  <2> QED
    BY <1>4, <2>1, <2>2, <2>3, <2>4, <2>5
<1> QED
  BY <1>6, <1>7 DEF us

-----------------------------------------------------------------------------
(* Pawn moves.                                                             *)

LEMMA UpFacts ==
  ASSUME NEW c \in Colors
  PROVE  /\ Up(c) = 8 * Rules!Forward(c) /\ Rules!Forward(c) \in {-1, 1}
         /\ Up(c) \in {-8, 8}
BY DEF Up, NORTH, Rules!Forward, Colors, WHITE, BLACK

LEMMA PawnRanks ==
  ASSUME NEW c \in Colors, NEW from \in Square, NEW to \in Square,
         Rules!Ranks(from, to) = Rules!Forward(c)
  PROVE  /\ RelativeRank(c, RankOf(from)) = 6 <=> to \div 8 = Rules!FirstRank(1 - c)
         /\ RelativeRank(c, RankOf(to)) = RelativeRank(c, RankOf(from)) + 1
<1>1. /\ RankOf(from) \in 0..7 /\ RankOf(to) \in 0..7 /\ to \div 8 = RankOf(to)
      /\ RankOf(to) - RankOf(from) = Rules!Forward(c)
  BY Coordinates, Apart DEF RankOf
<1> QED
  BY <1>1 DEF RelativeRank, Rules!FirstRank, Rules!Forward, Colors, WHITE, BLACK

LEMMA AheadRanks ==
  ASSUME NEW c \in Colors, NEW from \in Square, NEW to \in Square, to = from + Up(c)
  PROVE  Rules!Ranks(from, to) = Rules!Forward(c) /\ Rules!Files(from, to) = 0
         /\ from # to
BY DEF Rules!Ranks, Rules!Files, Rules!Forward, Up, NORTH, Square, Colors, WHITE, BLACK

LEMMA ShiftedUp ==
  ASSUME NEW c \in Colors, NEW bb, bb \subseteq Square, NEW to
  PROVE  to \in ShiftBB(Up(c), bb) <=> to \in Square /\ to - Up(c) \in bb
<1>1. Up(c) \in {-9, -8, -7, 7, 8, 9} /\ Up(c) \in Int
  BY PawnDirections
<1>2. ASSUME to \in Square, to - Up(c) \in bb
      PROVE  to \in ShiftBB(Up(c), bb)
  <2>1. Up(c) % 8 = 0
    BY UpFacts
  <2>2. (CASE Up(c) % 8 = 1 -> {7} [] Up(c) % 8 = 7 -> {0} [] OTHER -> {}) = {}
    BY <2>1
  <2>3. ShiftBB(Up(c), bb) = {s + Up(c) : s \in {t \in bb : FileOf(t) \notin {}}} \cap Square
    BY <2>2, Zenon DEF ShiftBB
  <2>4. to = (to - Up(c)) + Up(c)
    BY <1>1, <1>2 DEF Square
  <2> QED
    BY <1>2, <2>3, <2>4
<1> QED
  BY <1>1, <1>2, PawnShift

LEMMA ShiftedAside ==
  ASSUME NEW c \in Colors, NEW bb, bb \subseteq Square, NEW to, NEW from
  PROVE  (\E step \in {Up(c) + Left(c), Up(c) - Left(c)} :
            to \in ShiftBB(step, bb) /\ from = to - step)
         <=> from \in bb /\ to \in PawnAttacks[c][from]
<1> DEFINE steps == {Up(c) + Left(c), Up(c) - Left(c)}
<1>1. /\ steps = {8 * Rules!Forward(c) + df : df \in {-1, 1}} /\ steps \subseteq {-9, -7, 7, 9}
      /\ Rules!Forward(c) \in -2..2 /\ steps = PSteps[c]
  BY DEF Up, Left, NORTH, PSteps, Rules!Forward, Colors, WHITE, BLACK
<1> HIDE DEF steps
<1>2. ASSUME NEW step \in steps, to \in ShiftBB(step, bb), from = to - step
      PROVE  from \in bb /\ to \in PawnAttacks[c][from]
  <2>1. from \in bb /\ to \in LandingSquareBB(from, step)
    BY <1>1, <1>2, PawnShift
  <2>2. PawnAttacks[c][from] = UNION {LandingSquareBB(from, t) : t \in PSteps[c]}
    BY <2>1 DEF PawnAttacks, Colors
  <2> QED
    BY <1>1, <2>1, <2>2
<1>3. ASSUME from \in bb, to \in PawnAttacks[c][from]
      PROVE  \E step \in steps : to \in ShiftBB(step, bb) /\ from = to - step
  <2>1. /\ to \in Square /\ Rules!Abs(Rules!Files(from, to)) = 1
        /\ Rules!Ranks(from, to) = Rules!Forward(c)
    BY <1>3, PawnReach
  <2> DEFINE df == Rules!Files(from, to)
             step == 8 * Rules!Forward(c) + df
  <2>2. df \in {-1, 1} /\ to = from + step /\ FileOf(to) = FileOf(from) + df
        /\ FileOf(to) \in 0..7 /\ FileOf(from) \in 0..7
    <3>1. from \in Square /\ df \in Int
      BY <1>3, Apart, <2>1
    <3>2. df \in {-1, 1}
      BY <2>1, <3>1 DEF Rules!Abs
    <3>3. to = from + 8 * Rules!Forward(c) + df /\ df = FileOf(to) - FileOf(from)
      BY <2>1, <3>1, Apart
    <3>4. FileOf(to) \in 0..7 /\ FileOf(from) \in 0..7
      BY <2>1, <3>1, Coordinates
    <3>5. from \in Int /\ 8 * Rules!Forward(c) \in Int
      BY <1>1, <3>1 DEF Square
    <3> HIDE DEF df
    <3> QED
      BY <3>2, <3>3, <3>4, <3>5
  <2> HIDE DEF df
  <2>3. step \in steps /\ step \in Int /\ step % 8 = (IF df = 1 THEN 1 ELSE 7)
    BY <1>1, <2>2
  <2>4. step \in steps /\ step \in Int
    BY <2>3
  <2>5. FileOf(from) \notin (CASE step % 8 = 1 -> {7} [] step % 8 = 7 -> {0} [] OTHER -> {})
    BY <2>2, <2>3
  <2> HIDE DEF step
  <2>6. ShiftBB(step, bb) =
          {s + step : s \in {t \in bb : FileOf(t) \notin
             (CASE step % 8 = 1 -> {7} [] step % 8 = 7 -> {0} [] OTHER -> {})}} \cap Square
    BY Zenon DEF ShiftBB
  <2>7. to \in ShiftBB(step, bb)
    BY <1>3, <2>1, <2>2, <2>5, <2>6
  <2>8. from = to - step
    <3>1. from \in Square
      BY <1>3, Zenon
    <3>2. from \in Int
      BY <3>1 DEF Square
    <3> QED
      BY <2>2, <2>4, <3>2
  <2> QED
    BY <2>4, <2>7, <2>8
<1> QED
  BY <1>2, <1>3 DEF steps

\* A pawn of one's own: a step, a capture or a promotion; a double step; a
\* capture en passant.
PawnGoes(p, m)  == /\ m.flag = "none" /\ Rules!Type(p.board[m.from]) = 1
                   /\ m.promo \in Rules!Promotions(Core(p), m.from, m.to)
                   /\ \/ m.to = m.from + Up(p.stm) /\ p.board[m.to] = EMPTY
                      \/ /\ Rules!Attacks(p.board, m.from, m.to)
                         /\ p.board[m.to] # EMPTY
PawnStarts(p, m) == /\ m.flag = "pstart" /\ m.promo = EMPTY
                    /\ Rules!Type(p.board[m.from]) = 1
                    /\ m.to = m.from + 2 * Up(p.stm)
                    /\ RankOf(m.from) = Rules!FirstRank(p.stm) + Rules!Forward(p.stm)
                    /\ p.board[m.to] = EMPTY /\ p.board[m.from + Up(p.stm)] = EMPTY
PawnPasses(p, m) == /\ m.flag = "enpas" /\ m.promo = EMPTY
                    /\ Rules!Type(p.board[m.from]) = 1
                    /\ Rules!Attacks(p.board, m.from, m.to)
                    /\ m.to = p.epSquare /\ m.to # 0

\* What the loops over the bitboards of pawns give, pawn by pawn.
Seventh(p, from) == RelativeRank(p.stm, RankOf(from)) = 6
AheadOf(p, from, to)  == /\ to \in Square /\ p.board[to] = EMPTY
                         /\ to - Up(p.stm) = from
AsideOf(p, from, to)  == /\ to \in p.colorBB[Other(p.stm)]
                         /\ to \in PawnAttacks[p.stm][from]
PawnGives(p, m, type, from) ==
  \/ /\ type = "quiet" /\ ~Seventh(p, from)
     /\ \E to : AheadOf(p, from, to) /\ m = AddMove(p, from, to, EMPTY, "none")
  \/ /\ type = "quiet" /\ ~Seventh(p, from)
     /\ \E mid, to : /\ AheadOf(p, from, mid) /\ AheadOf(p, mid, to)
                     /\ RelativeRank(p.stm, RankOf(to)) = 3
                     /\ m = AddMove(p, from, to, EMPTY, "pstart")
  \/ /\ Seventh(p, from)
     /\ \E to : /\ AheadOf(p, from, to) \/ AsideOf(p, from, to)
                /\ m \in AddPromotions(p, from, to, p.stm, type)
  \/ /\ type # "quiet" /\ ~Seventh(p, from)
     /\ \E to : AsideOf(p, from, to) /\ m = AddMove(p, from, to, EMPTY, "none")
  \/ /\ type # "quiet" /\ ~Seventh(p, from) /\ p.epSquare # 0
     /\ p.epSquare \in PawnAttacks[p.stm][from]
     /\ m = AddMove(p, from, p.epSquare, EMPTY, "enpas")

LEMMA PawnByPawn ==
  ASSUME NEW p, Good(p), NEW type \in {"noisy", "quiet"}, NEW m
  PROVE  m \in GenPawn(p, p.stm, type) <=>
           \E from \in ColorPieceBB(p, p.stm, PAWN) : PawnGives(p, m, type, from)
<1> DEFINE c       == p.stm
           up      == Up(c)
           steps   == {up + Left(c), up - Left(c)}
           empty   == Square \ p.pieceBB[ALL]
           enemies == p.colorBB[Other(c)]
           pawns   == ColorPieceBB(p, c, PAWN)
           on7th   == {sq \in pawns : RelativeRank(c, RankOf(sq)) = 6}
           not7th  == pawns \ on7th
           pawnMoves  == empty \cap ShiftBB(up, not7th)
           pawnStarts == {to \in empty \cap ShiftBB(up, pawnMoves) :
                            RelativeRank(c, RankOf(to)) = 3}
           Forward    == {AddMove(p, to - up, to, EMPTY, "none") : to \in pawnMoves}
           Starts     == {AddMove(p, to - up * 2, to, EMPTY, "pstart") :
                            to \in pawnStarts}
           Ahead == UNION {AddPromotions(p, to - up, to, c, type) :
                             to \in empty \cap ShiftBB(up, on7th)}
           Aside(step) == UNION {AddPromotions(p, to - step, to, c, type) :
                                   to \in enemies \cap ShiftBB(step, on7th)}
           Captures(step) == {AddMove(p, to - step, to, EMPTY, "none") :
                                to \in enemies \cap ShiftBB(step, not7th)}
           passers == IF p.epSquare = 0 THEN {}
                      ELSE not7th \cap PawnAttacks[Other(c)][p.epSquare]
           EnPassers == {AddMove(p, f, p.epSquare, EMPTY, "enpas") : f \in passers}
           Asides == UNION {Aside(step) : step \in steps}
           Struck == UNION {Captures(step) : step \in steps}
<1>1. GenPawn(p, c, type) =
        IF type = "quiet" THEN Forward \cup Starts \cup (Ahead \cup Asides)
                          ELSE (Ahead \cup Asides) \cup Struck \cup EnPassers
  BY Zenon DEF GenPawn
<1>2. /\ Sound(p) /\ c \in Colors /\ Other(c) \in Colors /\ PAWN \in PAWN..KING
      /\ p.epSquare \in Square
  BY PositionParts, OtherFacts DEF Good, Sound, PAWN, KING, PositionType
<1>3. /\ up \in {-8, 8} /\ steps \subseteq {-9, -7, 7, 9}
  BY <1>2, PawnDirections
<1>4. \A sq \in pawns : sq \in Square
  BY <1>2, OnBoard
<1>5. \A sq : sq \in empty <=> sq \in Square /\ p.board[sq] = EMPTY
  BY <1>2, Owners
<1>6. /\ \A sq : sq \in on7th <=> sq \in pawns /\ Seventh(p, sq)
      /\ \A sq : sq \in not7th <=> sq \in pawns /\ ~Seventh(p, sq)
      /\ on7th \subseteq Square /\ not7th \subseteq Square
  BY <1>4 DEF Seventh
<1>7. /\ \A to : to \in ShiftBB(up, on7th) <=> to \in Square /\ to - up \in on7th
      /\ \A to : to \in ShiftBB(up, not7th) <=> to \in Square /\ to - up \in not7th
  BY <1>2, <1>6, ShiftedUp
<1>8. /\ \A to, from : (\E step \in steps : to \in ShiftBB(step, on7th) /\ from = to - step)
                       <=> from \in on7th /\ to \in PawnAttacks[c][from]
      /\ \A to, from : (\E step \in steps : to \in ShiftBB(step, not7th) /\ from = to - step)
                       <=> from \in not7th /\ to \in PawnAttacks[c][from]
  BY <1>2, <1>6, ShiftedAside
<1>9. \A to : to \in ShiftBB(up, pawnMoves) <=> to \in Square /\ to - up \in pawnMoves
  <2>1. pawnMoves \subseteq Square
    BY <1>5
  <2> QED
    BY <1>2, <2>1, ShiftedUp
<1>10. m \in Forward <=>
         \E from \in pawns : /\ ~Seventh(p, from)
            /\ \E to : AheadOf(p, from, to) /\ m = AddMove(p, from, to, EMPTY, "none")
  <2>1. m \in Forward <=> \E to : /\ to \in empty /\ to \in ShiftBB(up, not7th)
                                  /\ m = AddMove(p, to - up, to, EMPTY, "none")
    OBVIOUS
  <2> HIDE DEF empty, on7th, not7th, pawns, Forward
  <2> QED
    BY <2>1, <1>5, <1>6, <1>7 DEF AheadOf
<1>11. m \in Starts <=>
         \E from \in pawns : /\ ~Seventh(p, from)
            /\ \E mid, to : /\ AheadOf(p, from, mid) /\ AheadOf(p, mid, to)
                            /\ RelativeRank(c, RankOf(to)) = 3
                            /\ m = AddMove(p, from, to, EMPTY, "pstart")
  <2>1. m \in Starts <=> \E to : /\ to \in empty /\ to \in ShiftBB(up, pawnMoves)
                                 /\ RelativeRank(c, RankOf(to)) = 3
                                 /\ m = AddMove(p, to - up * 2, to, EMPTY, "pstart")
    OBVIOUS
  <2>2. \A to : to \in pawnMoves <=> to \in empty /\ to - up \in not7th
    BY <1>5, <1>7
  <2>3. \A to \in Square : to - up - up = to - up * 2
    BY <1>3 DEF Square
  <2> HIDE DEF empty, on7th, not7th, pawns, Starts, pawnMoves
  <2>4. m \in Starts <=> \E to : /\ to \in empty /\ to - up \in empty
                                 /\ to - up - up \in not7th
                                 /\ RelativeRank(c, RankOf(to)) = 3
                                 /\ m = AddMove(p, to - up - up, to, EMPTY, "pstart")
    BY <2>1, <2>2, <2>3, <1>5, <1>9
  <2> HIDE DEF up
  <2>5. \A from, mid : AheadOf(p, from, mid) <=> mid \in empty /\ mid - up = from
    BY <1>5 DEF AheadOf, up
  <2> QED
    BY <2>4, <2>5, <1>6
<1>12. m \in Ahead \cup Asides <=>
         \E from \in pawns : /\ Seventh(p, from)
            /\ \E to : /\ AheadOf(p, from, to) \/ AsideOf(p, from, to)
                       /\ m \in AddPromotions(p, from, to, c, type)
  <2>1. m \in Ahead <=> \E to : /\ to \in empty /\ to \in ShiftBB(up, on7th)
                                /\ m \in AddPromotions(p, to - up, to, c, type)
    OBVIOUS
  <2>2. m \in Asides <=> \E step \in steps : \E to :
          /\ to \in enemies /\ to \in ShiftBB(step, on7th)
          /\ m \in AddPromotions(p, to - step, to, c, type)
    OBVIOUS
  <2> HIDE DEF empty, on7th, not7th, pawns, Ahead, Asides, enemies, steps, up
  <2>3. m \in Ahead <=> \E from \in pawns : /\ Seventh(p, from)
          /\ \E to : AheadOf(p, from, to) /\ m \in AddPromotions(p, from, to, c, type)
    BY <2>1, <1>5, <1>6, <1>7 DEF AheadOf, up
  <2>4. m \in Asides <=> \E to, from :
          /\ to \in enemies /\ from \in on7th /\ to \in PawnAttacks[c][from]
          /\ m \in AddPromotions(p, from, to, c, type)
    BY <2>2, <1>8
  <2>5. m \in Asides <=> \E from \in pawns : /\ Seventh(p, from)
          /\ \E to : AsideOf(p, from, to) /\ m \in AddPromotions(p, from, to, c, type)
    BY <2>4, <1>6 DEF AsideOf, enemies
  <2> QED
    BY <2>3, <2>5
<1>13. m \in Struck <=>
         \E from \in pawns : /\ ~Seventh(p, from)
            /\ \E to : AsideOf(p, from, to) /\ m = AddMove(p, from, to, EMPTY, "none")
  <2>1. m \in Struck <=> \E step \in steps : \E to :
          /\ to \in enemies /\ to \in ShiftBB(step, not7th)
          /\ m = AddMove(p, to - step, to, EMPTY, "none")
    OBVIOUS
  <2> HIDE DEF empty, on7th, not7th, pawns, Struck, enemies, steps, up
  <2>2. m \in Struck <=> \E to, from :
          /\ to \in enemies /\ from \in not7th /\ to \in PawnAttacks[c][from]
          /\ m = AddMove(p, from, to, EMPTY, "none")
    BY <2>1, <1>8
  <2> QED
    BY <2>2, <1>6 DEF AsideOf, enemies
<1>14. m \in EnPassers <=>
         \E from \in pawns : /\ ~Seventh(p, from) /\ p.epSquare # 0
            /\ p.epSquare \in PawnAttacks[c][from]
            /\ m = AddMove(p, from, p.epSquare, EMPTY, "enpas")
  <2>1. m \in EnPassers <=> \E from : /\ p.epSquare # 0 /\ from \in not7th
          /\ from \in PawnAttacks[Other(c)][p.epSquare]
          /\ m = AddMove(p, from, p.epSquare, EMPTY, "enpas")
    OBVIOUS
  <2>2. \A from \in Square : from \in PawnAttacks[Other(c)][p.epSquare] <=>
                             p.epSquare \in PawnAttacks[c][from]
    BY <1>2, PawnReachBack
  <2> HIDE DEF on7th, not7th, pawns, EnPassers
  <2> QED
    BY <2>1, <2>2, <1>6
<1> HIDE DEF pawns, Forward, Starts, Ahead, Asides, Struck, EnPassers
<1>15. CASE type = "quiet"
  <2>1. m \in GenPawn(p, c, type) <=> m \in Forward \/ m \in Starts \/ m \in Ahead \cup Asides
    BY <1>1, <1>15
  <2> HIDE DEF c
  <2>2. m \in GenPawn(p, c, type) <=> \E from \in pawns : PawnGives(p, m, type, from)
    BY <2>1, <1>10, <1>11, <1>12, <1>15 DEF PawnGives, c
  <2> QED
    BY <2>2 DEF pawns, c
<1>16. CASE type # "quiet"
  <2>1. m \in GenPawn(p, c, type) <=>
          m \in Ahead \cup Asides \/ m \in Struck \/ m \in EnPassers
    BY <1>1, <1>16
  <2> HIDE DEF c
  <2>2. m \in GenPawn(p, c, type) <=> \E from \in pawns : PawnGives(p, m, type, from)
    BY <2>1, <1>12, <1>13, <1>14, <1>16 DEF PawnGives, c
  <2> QED
    BY <2>2 DEF pawns, c
<1> QED
  BY <1>15, <1>16

LEMMA PawnTarget ==
  ASSUME NEW p, Good(p), NEW from \in ColorPieceBB(p, p.stm, PAWN), NEW to
  PROVE  /\ from \in Square /\ Rules!Is(p.board, from, p.stm)
         /\ Rules!Type(p.board[from]) = 1
         /\ AheadOf(p, from, to) <=>
              to \in Square /\ to = from + Up(p.stm) /\ p.board[to] = EMPTY
         /\ AsideOf(p, from, to) <=>
              /\ to \in Square /\ Rules!Attacks(p.board, from, to)
              /\ p.board[to] # EMPTY /\ ~Rules!Is(p.board, to, p.stm)
         /\ AheadOf(p, from, to) \/ AsideOf(p, from, to) =>
              /\ to \in Square /\ ~Rules!Is(p.board, to, p.stm)
              /\ Seventh(p, from) <=> to \div 8 = Rules!FirstRank(1 - p.stm)
<1> DEFINE c == p.stm
<1>1. /\ Sound(p) /\ c \in Colors /\ Other(c) \in Colors /\ Other(c) # c /\ PAWN \in PAWN..KING
      /\ PAWN = 1
  BY PositionParts, OtherFacts DEF Good, Sound, PAWN, KING
<1>2. from \in Square /\ p.board[from] = MakePiece(c, PAWN)
  BY <1>1, OnBoard
<1>3. Rules!Is(p.board, from, c) /\ Rules!Type(p.board[from]) = 1
  BY <1>1, <1>2, Owners, RulesPiece
<1>4. AheadOf(p, from, to) <=> to \in Square /\ to = from + Up(c) /\ p.board[to] = EMPTY
  <2>1. Up(c) \in Int /\ from \in Int /\ (to \in Square => to \in Int)
    BY <1>1, <1>2, UpFacts DEF Square
  <2>2. to \in Square => (to - Up(c) = from <=> to = from + Up(c))
    BY <2>1
  <2> QED
    BY <2>2 DEF AheadOf
<1>5. to \in PawnAttacks[c][from] <=> to \in Square /\ Rules!Attacks(p.board, from, to)
  BY <1>1, <1>2, PawnReaches
<1>6. to \in p.colorBB[Other(c)] <=>
        to \in Square /\ p.board[to] # EMPTY /\ ~Rules!Is(p.board, to, c)
  <2>1. to \in p.colorBB[Other(c)] => to \in Square
    BY <1>1, OnBoard
  <2>2. ASSUME to \in Square, p.board[to] # EMPTY
        PROVE  ColorOf(p.board[to]) \in {c, Other(c)}
    <3>1. ColorOf(p.board[to]) \in Colors
      BY <1>1, <2>2, Owners, PieceFacts
    <3> QED
      BY <1>1, <3>1 DEF Colors
  <2> QED
    BY <1>1, <2>1, <2>2, Owners
<1>7. AsideOf(p, from, to) <=>
        /\ to \in Square /\ Rules!Attacks(p.board, from, to)
        /\ p.board[to] # EMPTY /\ ~Rules!Is(p.board, to, c)
  BY <1>5, <1>6 DEF AsideOf
<1>8. AheadOf(p, from, to) => ~Rules!Is(p.board, to, c)
  BY <1>4 DEF Rules!Is, EMPTY
<1>9. AheadOf(p, from, to) => Rules!Ranks(from, to) = Rules!Forward(c)
  BY <1>1, <1>2, <1>4, AheadRanks
<1>10. AsideOf(p, from, to) => Rules!Ranks(from, to) = Rules!Forward(c)
  BY <1>1, <1>2, <1>5, <1>7, PawnReach
<1>11. AheadOf(p, from, to) \/ AsideOf(p, from, to) =>
         (Seventh(p, from) <=> to \div 8 = Rules!FirstRank(1 - c))
  BY <1>1, <1>2, <1>4, <1>7, <1>9, <1>10, PawnRanks DEF Seventh
<1> QED
  BY <1>2, <1>3, <1>4, <1>7, <1>8, <1>11

LEMMA DoubleStep ==
  ASSUME NEW p, Good(p), NEW from \in ColorPieceBB(p, p.stm, PAWN), NEW to
  PROVE  (/\ ~Seventh(p, from)
          /\ \E mid : AheadOf(p, from, mid) /\ AheadOf(p, mid, to)
          /\ RelativeRank(p.stm, RankOf(to)) = 3)
         <=>
         (/\ to \in Square /\ to = from + 2 * Up(p.stm)
          /\ RankOf(from) = Rules!FirstRank(p.stm) + Rules!Forward(p.stm)
          /\ p.board[to] = EMPTY /\ p.board[from + Up(p.stm)] = EMPTY)
<1> DEFINE c == p.stm
<1>1. c \in Colors /\ from \in Square
  BY PositionParts, PawnTarget DEF Good, Sound
<1>2. Up(c) \in {-8, 8} /\ Up(c) = 8 * Rules!Forward(c)
  BY <1>1, UpFacts
<1>3. \A a : AheadOf(p, from, a) <=> a \in Square /\ a = from + Up(c) /\ p.board[a] = EMPTY
  BY PawnTarget
<1>4. (\E mid : AheadOf(p, from, mid) /\ AheadOf(p, mid, to)) <=>
        /\ from + Up(c) \in Square /\ p.board[from + Up(c)] = EMPTY
        /\ to \in Square /\ p.board[to] = EMPTY /\ to - Up(c) = from + Up(c)
  BY <1>3 DEF AheadOf
<1>5. to \in Square => (to - Up(c) = from + Up(c) <=> to = from + 2 * Up(c))
  BY <1>1, <1>2 DEF Square
<1>6. ASSUME to \in Square, to = from + 2 * Up(c)
      PROVE  /\ from + Up(c) \in Square
             /\ (~Seventh(p, from) /\ RelativeRank(c, RankOf(to)) = 3) <=>
                   RankOf(from) = Rules!FirstRank(c) + Rules!Forward(c)
  <2>1. /\ from + Up(c) \in Square /\ RankOf(from) \in 0..7
        /\ RankOf(to) = RankOf(from) + 2 * Rules!Forward(c)
    BY <1>1, <1>2, <1>6 DEF Square, RankOf, Rules!Forward, Up, NORTH, Colors, WHITE, BLACK
  <2> QED
    BY <1>1, <2>1 DEF Seventh, RelativeRank, Rules!FirstRank, Rules!Forward, Colors, WHITE, BLACK
<1> QED
  BY <1>4, <1>5, <1>6

\* m is a promotion on to, to a queen if the noisy ones are asked for.
Promotes(p, m, type, from, to) ==
  \E promo \in Rules!Promotions(Core(p), from, to) :
    /\ m = AddMove(p, from, to, promo, "none")
    /\ promo # EMPTY
    /\ type = "noisy" <=> PieceTypeOf(promo) = QUEEN

LEMMA PromotedTo ==
  ASSUME NEW p, Good(p), NEW from \in ColorPieceBB(p, p.stm, PAWN), NEW to \in Square,
         NEW type \in {"noisy", "quiet"}, NEW m
  PROVE  /\ to \div 8 = Rules!FirstRank(1 - p.stm) =>
              (m \in AddPromotions(p, from, to, p.stm, type) <=>
                 Promotes(p, m, type, from, to))
         /\ to \div 8 # Rules!FirstRank(1 - p.stm) =>
              Rules!Promotions(Core(p), from, to) = {EMPTY}
<1> DEFINE c == p.stm
<1>1. c \in Colors
  BY PositionParts DEF Good, Sound
<1>2. Rules!Promotions(Core(p), from, to) =
        IF to \div 8 = Rules!FirstRank(1 - c) THEN {8 * c + t : t \in 2..5} ELSE {0}
  <2>1. Rules!Type(p.board[from]) = 1 /\ Core(p).board = p.board /\ Core(p).stm = p.stm
    BY PawnTarget, CoreFields
  <2>2. Rules!Promotions(Core(p), from, to) =
          IF Rules!Type(Core(p).board[from]) = 1 /\ to \div 8 = Rules!FirstRank(1 - Core(p).stm)
          THEN {8 * Core(p).stm + t : t \in 2..5} ELSE {0}
    BY Zenon DEF Rules!Promotions
  <2> QED
    BY <2>1, <2>2
<1>3. \A pt \in 2..5 : /\ MakePiece(c, pt) = 8 * c + pt /\ MakePiece(c, pt) # EMPTY
                       /\ PieceTypeOf(MakePiece(c, pt)) = pt
  BY <1>1, RulesPiece, MakePieceFacts DEF EMPTY, PAWN, KING
<1>4. AddPromotions(p, from, to, c, type) =
        {AddMove(p, from, to, MakePiece(c, pt), "none") :
           pt \in IF type = "noisy" THEN {5} ELSE {2, 4, 3}}
  BY DEF AddPromotions, QUEEN, KNIGHT, ROOK, BISHOP
<1>5. {pt \in 2..5 : type = "noisy" <=> pt = 5} = IF type = "noisy" THEN {5} ELSE {2, 4, 3}
  OBVIOUS
<1> HIDE DEF c
<1>6. m \in AddPromotions(p, from, to, c, type) <=>
        \E pt \in 2..5 : /\ type = "noisy" <=> pt = 5
                         /\ m = AddMove(p, from, to, MakePiece(c, pt), "none")
  BY <1>4, <1>5
<1>7. (\E promo \in {8 * c + t : t \in 2..5} :
                   /\ m = AddMove(p, from, to, promo, "none")
                   /\ promo # EMPTY
                   /\ type = "noisy" <=> PieceTypeOf(promo) = QUEEN)
      <=> \E pt \in 2..5 : /\ m = AddMove(p, from, to, MakePiece(c, pt), "none")
                           /\ type = "noisy" <=> pt = 5
  <2>1. {8 * c + t : t \in 2..5} = {MakePiece(c, pt) : pt \in 2..5}
    BY <1>3
  <2> QED
    BY <1>3, <2>1 DEF QUEEN
<1> QED
  BY <1>2, <1>6, <1>7 DEF c, EMPTY, Promotes

LEMMA GenPawns ==
  ASSUME NEW p, Good(p), NEW type \in {"noisy", "quiet"}, NEW m
  PROVE  m \in GenPawn(p, p.stm, type) <=>
           /\ Leaves(p, m) /\ (type = "noisy" <=> Noisy(m))
           /\ PawnGoes(p, m) \/ PawnStarts(p, m) \/ PawnPasses(p, m)
<1> DEFINE c == p.stm
           pawns == ColorPieceBB(p, c, PAWN)
           Kinds == PawnGoes(p, m) \/ PawnStarts(p, m) \/ PawnPasses(p, m)
           Goes(from, to) == \/ to = from + Up(c) /\ p.board[to] = EMPTY
                             \/ Rules!Attacks(p.board, from, to) /\ p.board[to] # EMPTY
           Home(to) == to \div 8 = Rules!FirstRank(1 - c)
<1>1. /\ Sound(p) /\ c \in Colors /\ p.epSquare \in Square /\ EpOk(p)
  BY PositionParts DEF Good, Sound, PositionType
<1>2. \A from \in pawns : /\ from \in Square /\ Rules!Is(p.board, from, c)
                          /\ Rules!Type(p.board[from]) = 1
  BY PawnTarget
<1>3. \A from \in pawns : \A to :
        /\ AheadOf(p, from, to) => to \in Square /\ Goes(from, to) /\ p.board[to] = EMPTY
        /\ AsideOf(p, from, to) => to \in Square /\ Goes(from, to) /\ p.board[to] # EMPTY
        /\ AheadOf(p, from, to) \/ AsideOf(p, from, to) =>
              ~Rules!Is(p.board, to, c) /\ (Seventh(p, from) <=> Home(to))
        /\ to \in Square /\ ~Rules!Is(p.board, to, c) /\ Goes(from, to) =>
              IF p.board[to] = EMPTY THEN AheadOf(p, from, to) ELSE AsideOf(p, from, to)
  BY PawnTarget
<1>4. \A from, to, promo, flag : LET n == AddMove(p, from, to, promo, flag) IN
        /\ n.from = from /\ n.to = to /\ n.capt = p.board[to] /\ n.promo = promo
        /\ n.flag = flag /\ IsMove(n)
  BY DEF AddMove, MOVE, IsMove
<1>5. \A from \in pawns, to \in Square :
        /\ Home(to) => (m \in AddPromotions(p, from, to, c, type) <=>
                 Promotes(p, m, type, from, to))
        /\ ~Home(to) => Rules!Promotions(Core(p), from, to) = {EMPTY}
  BY PromotedTo
<1>6. \A from \in pawns : p.epSquare # 0 /\ p.epSquare \in PawnAttacks[c][from] =>
        /\ ~Seventh(p, from) /\ Rules!Attacks(p.board, from, p.epSquare)
        /\ p.board[p.epSquare] = EMPTY /\ ~Rules!Is(p.board, p.epSquare, c)
  <2> TAKE from \in pawns
  <2> HAVE p.epSquare # 0 /\ p.epSquare \in PawnAttacks[c][from]
  <2>1. Rules!Ranks(from, p.epSquare) = Rules!Forward(c) /\ from \in Square
    BY <1>1, <1>2, PawnReach
  <2>2. RelativeRank(c, RankOf(p.epSquare)) = RelativeRank(c, RankOf(from)) + 1
    BY <1>1, <2>1, PawnRanks
  <2>3. RelativeRank(c, RankOf(p.epSquare)) = 5 /\ p.board[p.epSquare] = EMPTY
    BY <1>1 DEF EpOk
  <2>4. ~Seventh(p, from)
    <3>1. RelativeRank(c, RankOf(from)) \in Int
      BY <1>1, <2>1, Coordinates DEF RelativeRank
    <3> QED
      BY <2>2, <2>3, <3>1 DEF Seventh
  <2>5. p.board[from] = MakePiece(c, PAWN)
    BY <1>1, OnBoard DEF PAWN, KING
  <2> QED
    BY <1>1, <2>1, <2>3, <2>4, <2>5, PawnReaches DEF Rules!Is, EMPTY
<1>7. \A from \in pawns : from \in Square /\ p.board[from] = MakePiece(c, PAWN)
  BY <1>1, OnBoard DEF PAWN, KING
<1> HIDE DEF c, pawns, Goes, Home
<1>8. ASSUME NEW from \in pawns, PawnGives(p, m, type, from)
      PROVE  Leaves(p, m) /\ (type = "noisy" <=> Noisy(m)) /\ Kinds
  <2>1. CASE /\ type = "quiet" /\ ~Seventh(p, from)
             /\ \E to : AheadOf(p, from, to) /\ m = AddMove(p, from, to, EMPTY, "none")
    <3>1. PICK to : AheadOf(p, from, to) /\ m = AddMove(p, from, to, EMPTY, "none")
      BY <2>1
    <3>2. to \in Square /\ Goes(from, to) /\ p.board[to] = EMPTY /\ ~Home(to)
          /\ ~Rules!Is(p.board, to, c)
      BY <1>3, <2>1, <3>1
    <3>3. EMPTY \in Rules!Promotions(Core(p), from, to)
      BY <1>5, <3>2
    <3> QED
      BY <1>2, <1>4, <2>1, <3>1, <3>2, <3>3 DEF Leaves, Noisy, PawnGoes, Goes, c
  <2>2. CASE /\ type = "quiet" /\ ~Seventh(p, from)
             /\ \E mid, to : /\ AheadOf(p, from, mid) /\ AheadOf(p, mid, to)
                             /\ RelativeRank(p.stm, RankOf(to)) = 3
                             /\ m = AddMove(p, from, to, EMPTY, "pstart")
    <3>1. PICK to : /\ \E mid : AheadOf(p, from, mid) /\ AheadOf(p, mid, to)
                    /\ RelativeRank(p.stm, RankOf(to)) = 3
                    /\ m = AddMove(p, from, to, EMPTY, "pstart")
      BY <2>2
    <3>2. /\ to \in Square /\ to = from + 2 * Up(p.stm)
          /\ RankOf(from) = Rules!FirstRank(p.stm) + Rules!Forward(p.stm)
          /\ p.board[to] = EMPTY /\ p.board[from + Up(p.stm)] = EMPTY
      BY <2>2, <3>1, DoubleStep DEF pawns, c
    <3>3. ~Rules!Is(p.board, to, c)
      BY <3>2 DEF Rules!Is, EMPTY
    <3> QED
      BY <1>2, <1>4, <2>2, <3>1, <3>2, <3>3 DEF Leaves, Noisy, PawnStarts, c
  <2>3. CASE /\ Seventh(p, from)
             /\ \E to : /\ AheadOf(p, from, to) \/ AsideOf(p, from, to)
                        /\ m \in AddPromotions(p, from, to, p.stm, type)
    <3>1. PICK to : /\ AheadOf(p, from, to) \/ AsideOf(p, from, to)
                    /\ m \in AddPromotions(p, from, to, c, type)
      BY <2>3 DEF c
    <3>2. to \in Square /\ Goes(from, to) /\ Home(to) /\ ~Rules!Is(p.board, to, c)
      BY <1>3, <2>3, <3>1
    <3>3. PICK promo \in Rules!Promotions(Core(p), from, to) :
                   /\ m = AddMove(p, from, to, promo, "none")
                   /\ promo # EMPTY
                   /\ type = "noisy" <=> PieceTypeOf(promo) = QUEEN
      BY <1>5, <3>1, <3>2 DEF Promotes
    <3> QED
      BY <1>2, <1>4, <3>2, <3>3 DEF Leaves, Noisy, PawnGoes, Goes, c
  <2>4. CASE /\ type # "quiet" /\ ~Seventh(p, from)
             /\ \E to : AsideOf(p, from, to) /\ m = AddMove(p, from, to, EMPTY, "none")
    <3>1. PICK to : AsideOf(p, from, to) /\ m = AddMove(p, from, to, EMPTY, "none")
      BY <2>4
    <3>2. to \in Square /\ Goes(from, to) /\ p.board[to] # EMPTY /\ ~Home(to)
          /\ ~Rules!Is(p.board, to, c)
      BY <1>3, <2>4, <3>1
    <3>3. EMPTY \in Rules!Promotions(Core(p), from, to)
      BY <1>5, <3>2
    <3> QED
      BY <1>2, <1>4, <2>4, <3>1, <3>2, <3>3 DEF Leaves, Noisy, PawnGoes, Goes, c
  <2>5. CASE /\ type # "quiet" /\ ~Seventh(p, from) /\ p.epSquare # 0
             /\ p.epSquare \in PawnAttacks[p.stm][from]
             /\ m = AddMove(p, from, p.epSquare, EMPTY, "enpas")
    <3>1. /\ Rules!Attacks(p.board, from, p.epSquare)
          /\ p.board[p.epSquare] = EMPTY /\ ~Rules!Is(p.board, p.epSquare, c)
      BY <1>6, <2>5 DEF c
    <3> QED
      BY <1>1, <1>2, <1>4, <2>5, <3>1 DEF Leaves, Noisy, PawnPasses, c
  <2> QED
    BY <1>8, <2>1, <2>2, <2>3, <2>4, <2>5 DEF PawnGives
<1>9. ASSUME Leaves(p, m), type = "noisy" <=> Noisy(m), Kinds
      PROVE  m.from \in pawns /\ PawnGives(p, m, type, m.from)
  <2>1. Rules!Type(p.board[m.from]) = 1
    BY <1>9 DEF PawnGoes, PawnStarts, PawnPasses
  <2>2. m.from \in pawns
    <3>1. PICK pt \in PAWN..KING : /\ Rules!Type(p.board[m.from]) = pt
                                   /\ m.from \in ColorPieceBB(p, p.stm, pt)
      BY <1>1, <1>9, TypeOfOwn DEF Leaves
    <3> QED
      BY <2>1, <3>1 DEF PAWN, pawns, c
  <2>3. /\ m = AddMove(p, m.from, m.to, m.promo, m.flag) /\ m.to \in Square
        /\ ~Rules!Is(p.board, m.to, c) /\ m.capt = p.board[m.to]
    BY <1>9 DEF Leaves, IsMove, AddMove, c
  <2>4. CASE PawnGoes(p, m)
    <3>1. /\ m.flag = "none" /\ m.promo \in Rules!Promotions(Core(p), m.from, m.to)
          /\ Goes(m.from, m.to)
      BY <2>4 DEF PawnGoes, Goes, c
    <3>2. /\ IF m.capt = EMPTY THEN AheadOf(p, m.from, m.to) ELSE AsideOf(p, m.from, m.to)
          /\ Seventh(p, m.from) <=> Home(m.to)
      BY <1>3, <2>2, <2>3, <3>1
    <3>3. CASE Home(m.to)
      <4>1. m.promo # EMPTY
        <5>1. \A t \in 2..5 : 8 * c + t # 0
          BY <1>1 DEF Colors, WHITE, BLACK
        <5>2. Rules!Promotions(Core(p), m.from, m.to) = {8 * c + t : t \in 2..5}
          <6>1. /\ Rules!Type(p.board[m.from]) = 1 /\ Core(p).board = p.board
                /\ Core(p).stm = c /\ m.to \div 8 = Rules!FirstRank(1 - c)
            BY <2>1, <3>3, CoreFields DEF Home, c
          <6>2. Rules!Promotions(Core(p), m.from, m.to) =
                  IF Rules!Type(Core(p).board[m.from]) = 1
                       /\ m.to \div 8 = Rules!FirstRank(1 - Core(p).stm)
                  THEN {8 * Core(p).stm + t : t \in 2..5} ELSE {0}
            BY Zenon DEF Rules!Promotions
          <6> QED
            BY <6>1, <6>2
        <5> QED
          BY <3>1, <5>1, <5>2 DEF EMPTY
      <4>2. m \in AddPromotions(p, m.from, m.to, c, type)
        BY <1>5, <1>9, <2>2, <2>3, <3>1, <3>3, <4>1 DEF Noisy, Promotes
      <4> QED
        BY <2>2, <3>2, <3>3, <4>2 DEF PawnGives, c
    <3>4. CASE ~Home(m.to)
      <4>1. m.promo = EMPTY
        BY <1>5, <2>2, <2>3, <3>1, <3>4
      <4> QED
        BY <1>9, <2>2, <2>3, <3>1, <3>2, <3>4, <4>1 DEF PawnGives, Noisy, c
    <3> QED
      BY <3>3, <3>4
  <2>5. CASE PawnStarts(p, m)
    <3>1. /\ ~Seventh(p, m.from)
          /\ \E mid : AheadOf(p, m.from, mid) /\ AheadOf(p, mid, m.to)
          /\ RelativeRank(p.stm, RankOf(m.to)) = 3
      BY <2>2, <2>3, <2>5, DoubleStep DEF PawnStarts, pawns, c
    <3>2. type = "quiet"
      BY <1>9, <2>3, <2>5 DEF Noisy, PawnStarts
    <3> QED
      BY <2>2, <2>3, <2>5, <3>1, <3>2 DEF PawnGives, PawnStarts
  <2>6. CASE PawnPasses(p, m)
    <3>1. m.to \in PawnAttacks[c][m.from]
      BY <1>1, <1>7, <2>2, <2>3, <2>6, PawnReaches DEF PawnPasses
    <3>2. ~Seventh(p, m.from)
      BY <1>6, <2>2, <2>6, <3>1 DEF PawnPasses
    <3>3. type # "quiet"
      BY <1>9, <2>6 DEF Noisy, PawnPasses
    <3> QED
      BY <2>2, <2>3, <2>6, <3>1, <3>2, <3>3 DEF PawnGives, PawnPasses, c
  <2> QED
    BY <1>9, <2>4, <2>5, <2>6
<1>10. m \in GenPawn(p, p.stm, type) <=> \E from \in pawns : PawnGives(p, m, type, from)
  BY PawnByPawn DEF pawns, c
<1> QED
  BY <1>8, <1>9, <1>10

-----------------------------------------------------------------------------
(* The generators give the moves of the rules, and each once.              *)

\* m is a move of the rules.
ByRules(p, m) ==
  /\ Leaves(p, m)
  /\ \/ PieceGoes(p, m) \/ Castles(p, m)
     \/ PawnGoes(p, m) \/ PawnStarts(p, m) \/ PawnPasses(p, m)

LEMMA GenTypes ==
  ASSUME NEW p, Good(p), NEW type \in {"noisy", "quiet"}, NEW m
  PROVE  m \in GenMoves(p, p.stm, type) <=> ByRules(p, m) /\ (type = "noisy" <=> Noisy(m))
<1>1. Castles(p, m) /\ Leaves(p, m) => ~Noisy(m)
  <2> HAVE Castles(p, m) /\ Leaves(p, m)
  <2>1. m \in GenCastling(p, p.stm, "quiet") /\ m.flag = "castle" /\ m.promo = EMPTY
    BY GenCastles DEF Castles
  <2>2. m.capt = EMPTY
    BY <2>1, CastlingOk DEF MoveOk
  <2> QED
    BY <2>1, <2>2 DEF Noisy
<1>2. m \in GenMoves(p, p.stm, type) <=>
        \/ m \in GenCastling(p, p.stm, type) \/ m \in GenPawn(p, p.stm, type)
        \/ \E pt \in KNIGHT..KING : m \in GenPieceType(p, p.stm, type, pt)
  BY DEF GenMoves
<1>3. m \in GenCastling(p, p.stm, type) <=> type = "quiet" /\ Leaves(p, m) /\ Castles(p, m)
  BY GenCastles
<1>4. (\E pt \in KNIGHT..KING : m \in GenPieceType(p, p.stm, type, pt)) <=>
        Leaves(p, m) /\ PieceGoes(p, m) /\ (type = "noisy" <=> Noisy(m))
  BY GenPieces
<1>5. m \in GenPawn(p, p.stm, type) <=>
           /\ Leaves(p, m) /\ (type = "noisy" <=> Noisy(m))
           /\ PawnGoes(p, m) \/ PawnStarts(p, m) \/ PawnPasses(p, m)
  BY GenPawns
<1> QED
  BY <1>1, <1>2, <1>3, <1>4, <1>5 DEF ByRules

\* The two generators share the moves of the rules between them.
THEOREM GeneratedByRules ==
  ASSUME NEW p, Good(p), NEW m
  PROVE  /\ m \in GenNoisyMoves(p) <=> ByRules(p, m) /\ Noisy(m)
         /\ m \in GenQuietMoves(p) <=> ByRules(p, m) /\ ~Noisy(m)
         /\ m \in Generated(p) <=> ByRules(p, m)
<1>1. m \in GenMoves(p, p.stm, "noisy") <=> ByRules(p, m) /\ Noisy(m)
  BY GenTypes
<1>2. m \in GenMoves(p, p.stm, "quiet") <=> ByRules(p, m) /\ ~Noisy(m)
  BY GenTypes
<1> QED
  BY <1>1, <1>2 DEF GenNoisyMoves, GenQuietMoves, Generated

LEMMA ByRulesOk ==
  ASSUME NEW p, Good(p), NEW m, ByRules(p, m)
  PROVE  MoveOk(p, m)
BY GeneratedByRules, GeneratedOk DEF Generated

LEMMA DoubleFiles ==
  ASSUME NEW c \in Colors, NEW from \in Square, NEW to \in Square, to = from + 2 * Up(c)
  PROVE  /\ Rules!Files(from, to) = 0 /\ Rules!Ranks(from, to) = 2 * Rules!Forward(c)
         /\ to # from + Up(c) /\ from # to
BY DEF Rules!Ranks, Rules!Files, Rules!Forward, Up, NORTH, Square, Colors, WHITE, BLACK

\* The squares and the promotion of a move tell how it is made.
LEMMA FlagKnown ==
  ASSUME NEW p, Good(p), NEW m, ByRules(p, m)
  PROVE  LET pt == Rules!Type(p.board[m.from]) IN
         m.flag = IF pt # 1
                  THEN IF Rules!Abs(Rules!Files(m.from, m.to)) = 2 /\ pt = 6
                       THEN "castle" ELSE "none"
                  ELSE IF m.to = m.from + 2 * Up(p.stm) THEN "pstart"
                  ELSE IF m.to = m.from + Up(p.stm) \/ p.board[m.to] # EMPTY
                  THEN "none" ELSE "enpas"
<1> DEFINE pt == Rules!Type(p.board[m.from])
<1>1. /\ p.stm \in Colors /\ Sound(p) /\ EpOk(p)
      /\ m.from \in Square /\ m.to \in Square
      /\ MoveOk(p, m)
  BY PositionParts, ByRulesOk DEF Good, Sound, ByRules, Leaves
<1>2. /\ pt = 6 /\ Rules!Attacks(p.board, m.from, m.to) =>
           Rules!Abs(Rules!Files(m.from, m.to)) < 2
      /\ pt = 1 /\ Rules!Attacks(p.board, m.from, m.to) =>
           Rules!Abs(Rules!Files(m.from, m.to)) = 1
  <2>1. CASE pt = 6
    BY <2>1 DEF Rules!Attacks
  <2>2. CASE pt = 1
    BY <2>2 DEF Rules!Attacks
  <2> QED
    BY <2>1, <2>2
<1>3. CASE PieceGoes(p, m)
  BY <1>2, <1>3 DEF PieceGoes
<1>4. CASE Castles(p, m)
  <2>1. /\ m.from = (IF p.stm = WHITE THEN E1 ELSE E8)
        /\ m.to \in (IF p.stm = WHITE THEN {C1, G1} ELSE {C8, G8})
        /\ p.board[m.from] = MakePiece(p.stm, KING)
    BY <1>1, <1>4 DEF Castles, MoveOk
  <2>2. pt = 6
    BY <1>1, <2>1, RulesPiece DEF KING, PAWN
  <2>3. Rules!Files(m.from, m.to) \in {-2, 2}
    BY <1>1, <2>1 DEF Rules!Files, Colors, WHITE, BLACK, E1, E8, C1, G1, C8, G8
  <2>4. Rules!Abs(Rules!Files(m.from, m.to)) = 2
    BY <2>3 DEF Rules!Abs
  <2> QED
    BY <1>4, <2>2, <2>4 DEF Castles
<1>5. ASSUME m.to = m.from + Up(p.stm) \/ m.to = m.from + 2 * Up(p.stm)
      PROVE  /\ Rules!Abs(Rules!Files(m.from, m.to)) # 1
             /\ m.to = m.from + 2 * Up(p.stm) => m.to # m.from + Up(p.stm)
  <2>1. Rules!Files(m.from, m.to) = 0
    BY <1>1, <1>5, AheadRanks, DoubleFiles
  <2>2. m.to = m.from + 2 * Up(p.stm) => m.to # m.from + Up(p.stm)
    BY <1>1, DoubleFiles
  <2> QED
    BY <2>1, <2>2 DEF Rules!Abs
<1>6. CASE PawnGoes(p, m)
  BY <1>2, <1>5, <1>6 DEF PawnGoes
<1>7. CASE PawnStarts(p, m)
  BY <1>7 DEF PawnStarts
<1>8. CASE PawnPasses(p, m)
  <2>1. p.board[m.to] = EMPTY
    BY <1>1, <1>8 DEF PawnPasses, EpOk
  <2> QED
    BY <1>2, <1>5, <1>8, <2>1 DEF PawnPasses
<1> QED
  BY <1>3, <1>4, <1>6, <1>7, <1>8 DEF ByRules

LEMMA MoveKnown ==
  ASSUME NEW p, Good(p), NEW m, ByRules(p, m), NEW n, ByRules(p, n),
         CoreMove(m) = CoreMove(n)
  PROVE  m = n
<1>1. m.from = n.from /\ m.to = n.to /\ m.promo = n.promo
  BY DEF CoreMove
<1>2. m.flag = n.flag
  BY <1>1, FlagKnown
<1>3. m.capt = n.capt /\ IsMove(m) /\ IsMove(n)
  BY <1>1 DEF ByRules, Leaves
<1> QED
  BY <1>1, <1>2, <1>3 DEF IsMove

\* A pawn move of the rules is one of the kinds of pawn moves.
LEMMA PawnKinds ==
  ASSUME NEW p, Good(p), NEW m, Leaves(p, m), Rules!Type(p.board[m.from]) = 1
  PROVE  /\ PawnGoes(p, m) \/ PawnStarts(p, m) \/ PawnPasses(p, m) =>
              /\ Rules!PawnMove(Core(p), m.from, m.to)
              /\ m.promo \in Rules!Promotions(Core(p), m.from, m.to)
         /\ /\ Rules!PawnMove(Core(p), m.from, m.to)
            /\ m.promo \in Rules!Promotions(Core(p), m.from, m.to)
            => \E flag \in {"none", "pstart", "enpas"} :
                 LET n == MOVE(m.from, m.to, m.capt, m.promo, flag) IN
                 PawnGoes(p, n) \/ PawnStarts(p, n) \/ PawnPasses(p, n)
<1> DEFINE c == p.stm
           Ahead == m.to = m.from + Up(c) /\ p.board[m.to] = EMPTY
           Twice == /\ m.to = m.from + 2 * Up(c)
                    /\ RankOf(m.from) = Rules!FirstRank(c) + Rules!Forward(c)
                    /\ p.board[m.to] = EMPTY /\ p.board[m.from + Up(c)] = EMPTY
           Hits == Rules!Attacks(p.board, m.from, m.to)
           Passes == m.to = p.epSquare /\ m.to # 0
           Home == m.to \div 8 = Rules!FirstRank(1 - c)
<1>1. /\ c \in Colors /\ Other(c) \in Colors /\ Other(c) # c /\ Other(c) = 1 - c
      /\ Sound(p) /\ EpOk(p) /\ m.from \in Square /\ m.to \in Square
      /\ p.board[m.to] # EMPTY => p.board[m.to] \in Pieces
      /\ ~Rules!Is(p.board, m.to, c) /\ IsMove(m) /\ m.capt = p.board[m.to]
  <2>1. p \in PositionType /\ Sound(p) /\ EpOk(p)
    BY DEF Good, Sound
  <2> QED
    BY <2>1, PositionParts, OtherFacts DEF Leaves, Other
<1>2. Rules!PawnMove(Core(p), m.from, m.to) <=>
        Ahead \/ Twice \/ (Hits /\ (p.board[m.to] # EMPTY \/ Passes))
  <2>1. Rules!Is(p.board, m.to, 1 - c) <=> p.board[m.to] # EMPTY
    <3>1. p.board[m.to] # EMPTY => ColorOf(p.board[m.to]) \in Colors
      BY <1>1, PieceFacts
    <3> QED
      BY <1>1, <3>1 DEF Rules!Is, Rules!Color, ColorOf, Colors, EMPTY
  <2>2. Up(c) = 8 * Rules!Forward(c)
    BY <1>1, UpFacts
  <2>3. Rules!PawnMove(Core(p), m.from, m.to) <=>
          LET up == 8 * Rules!Forward(c) IN
          \/ m.to = m.from + up /\ p.board[m.to] = 0
          \/ /\ m.to = m.from + 2 * up
             /\ m.from \div 8 = Rules!FirstRank(c) + Rules!Forward(c)
             /\ p.board[m.to] = 0 /\ p.board[m.from + up] = 0
          \/ /\ Rules!Attacks(p.board, m.from, m.to)
             /\ Rules!Is(p.board, m.to, 1 - c) \/ (m.to = p.epSquare /\ p.epSquare # 0)
    BY CoreFields DEF Rules!PawnMove
  <2> QED
    BY <2>1, <2>2, <2>3 DEF EMPTY, RankOf
<1>3. Rules!Promotions(Core(p), m.from, m.to) =
        IF Home THEN {8 * c + t : t \in 2..5} ELSE {0}
  <2>1. Core(p).board = p.board /\ Core(p).stm = p.stm
    BY CoreFields
  <2>2. Rules!Promotions(Core(p), m.from, m.to) =
          IF Rules!Type(Core(p).board[m.from]) = 1
               /\ m.to \div 8 = Rules!FirstRank(1 - Core(p).stm)
          THEN {8 * Core(p).stm + t : t \in 2..5} ELSE {0}
    BY Zenon DEF Rules!Promotions
  <2> QED
    BY <2>1, <2>2
<1>4. Twice => ~Home
  BY <1>1 DEF Rules!FirstRank, Rules!Forward, Up, NORTH, RankOf, Square,
     Colors, WHITE, BLACK
<1>5. Passes => ~Home /\ p.board[m.to] = EMPTY
  <2> HAVE Passes
  <2>1. RelativeRank(c, RankOf(m.to)) = 5 /\ p.board[m.to] = EMPTY
    BY <1>1 DEF EpOk
  <2> QED
    BY <1>1, <2>1 DEF RelativeRank, RankOf, Rules!FirstRank, Colors, WHITE, BLACK
<1> DEFINE n(flag) == MOVE(m.from, m.to, m.capt, m.promo, flag)
<1>6. \A flag : /\ n(flag).from = m.from /\ n(flag).to = m.to /\ n(flag).promo = m.promo
                /\ n(flag).flag = flag
  BY DEF MOVE
<1> HIDE DEF Home, Twice, Ahead, Passes, Hits, n
<1>7. /\ PawnGoes(p, m) <=>
           /\ m.flag = "none" /\ m.promo \in Rules!Promotions(Core(p), m.from, m.to)
           /\ Ahead \/ (Hits /\ p.board[m.to] # EMPTY)
      /\ PawnStarts(p, m) <=> m.flag = "pstart" /\ m.promo = EMPTY /\ Twice
      /\ PawnPasses(p, m) <=> m.flag = "enpas" /\ m.promo = EMPTY /\ Hits /\ Passes
  BY DEF PawnGoes, PawnStarts, PawnPasses, Ahead, Twice, Hits, Passes, c
<1>8. \A flag :
      /\ PawnGoes(p, n(flag)) <=>
           /\ flag = "none" /\ m.promo \in Rules!Promotions(Core(p), m.from, m.to)
           /\ Ahead \/ (Hits /\ p.board[m.to] # EMPTY)
      /\ PawnStarts(p, n(flag)) <=> flag = "pstart" /\ m.promo = EMPTY /\ Twice
      /\ PawnPasses(p, n(flag)) <=> flag = "enpas" /\ m.promo = EMPTY /\ Hits /\ Passes
  BY <1>6 DEF PawnGoes, PawnStarts, PawnPasses, Ahead, Twice, Hits, Passes, c
<1>9. PawnGoes(p, m) \/ PawnStarts(p, m) \/ PawnPasses(p, m) =>
              /\ Rules!PawnMove(Core(p), m.from, m.to)
              /\ m.promo \in Rules!Promotions(Core(p), m.from, m.to)
  BY <1>2, <1>3, <1>4, <1>5, <1>7 DEF EMPTY
<1>10. ASSUME Rules!PawnMove(Core(p), m.from, m.to),
              m.promo \in Rules!Promotions(Core(p), m.from, m.to)
       PROVE  \E flag \in {"none", "pstart", "enpas"} :
                 PawnGoes(p, n(flag)) \/ PawnStarts(p, n(flag)) \/ PawnPasses(p, n(flag))
  BY <1>2, <1>3, <1>4, <1>5, <1>8, <1>10 DEF EMPTY
<1> QED
  BY <1>9, <1>10 DEF n

\* The moves of the rules, square by square.
LEMMA RulesMoves ==
  ASSUME NEW p, NEW c, p.stm = c, NEW r
  PROVE  r \in Rules!Moves(Core(p)) <=>
           \E from \in Square, to \in Square :
             /\ Rules!Is(p.board, from, c) /\ ~Rules!Is(p.board, to, c)
             /\ IF Rules!Type(p.board[from]) = 1 THEN Rules!PawnMove(Core(p), from, to)
                ELSE \/ Rules!Attacks(p.board, from, to)
                     \/ Rules!CastleMove(Core(p), from, to)
             /\ \E promo \in Rules!Promotions(Core(p), from, to) :
                  r = [from |-> from, to |-> to, promo |-> promo]
<1> DEFINE Targets(from) ==
        {to \in Rules!Squares : /\ ~Rules!Is(Core(p).board, to, Core(p).stm)
                          /\ IF Rules!Type(Core(p).board[from]) = 1
                             THEN Rules!PawnMove(Core(p), from, to)
                             ELSE \/ Rules!Attacks(Core(p).board, from, to)
                                  \/ Rules!CastleMove(Core(p), from, to)}
        own == {sq \in Rules!Squares : Rules!Is(Core(p).board, sq, Core(p).stm)}
<1>1. Rules!Moves(Core(p)) =
        UNION {UNION {{[from |-> from, to |-> to, promo |-> promo] :
                         promo \in Rules!Promotions(Core(p), from, to)} :
                        to \in Targets(from)} : from \in own}
  BY Zenon DEF Rules!Moves
<1>2. Core(p).board = p.board /\ Core(p).stm = c /\ Rules!Squares = Square
  BY CoreFields DEF Rules!Squares, Square
<1>3. \A from : from \in own <=> from \in Square /\ Rules!Is(p.board, from, c)
  BY <1>2
<1>4. \A from, to : to \in Targets(from) <=>
        /\ to \in Square /\ ~Rules!Is(p.board, to, c)
        /\ IF Rules!Type(p.board[from]) = 1 THEN Rules!PawnMove(Core(p), from, to)
           ELSE Rules!Attacks(p.board, from, to) \/ Rules!CastleMove(Core(p), from, to)
  BY <1>2
<1> HIDE DEF Targets, own
<1>5. r \in Rules!Moves(Core(p)) <=>
        \E from \in own : \E to \in Targets(from) :
          \E promo \in Rules!Promotions(Core(p), from, to) :
            r = [from |-> from, to |-> to, promo |-> promo]
  BY <1>1
<1> QED
  BY <1>3, <1>4, <1>5

LEMMA MoveRuled ==
  ASSUME NEW p, Good(p), NEW m, ByRules(p, m)
  PROVE  CoreMove(m) \in Rules!Moves(Core(p))
<1>1. /\ m.from \in Square /\ m.to \in Square /\ Leaves(p, m)
      /\ Rules!Is(p.board, m.from, p.stm) /\ ~Rules!Is(p.board, m.to, p.stm)
  BY DEF ByRules, Leaves
<1>2. CoreMove(m) = [from |-> m.from, to |-> m.to, promo |-> m.promo]
  BY DEF CoreMove
<1>3. CASE Rules!Type(p.board[m.from]) = 1
  <2>1. PawnGoes(p, m) \/ PawnStarts(p, m) \/ PawnPasses(p, m)
    BY <1>3 DEF ByRules, PieceGoes, Castles
  <2>2. /\ Rules!PawnMove(Core(p), m.from, m.to)
        /\ m.promo \in Rules!Promotions(Core(p), m.from, m.to)
    BY <1>1, <1>3, <2>1, PawnKinds
  <2> QED
    BY <1>1, <1>2, <1>3, <2>2, RulesMoves
<1>4. CASE Rules!Type(p.board[m.from]) # 1
  <2>1. m.promo = 0 /\ \/ Rules!Attacks(p.board, m.from, m.to)
                       \/ Rules!CastleMove(Core(p), m.from, m.to)
    BY <1>4 DEF ByRules, PieceGoes, Castles, PawnGoes, PawnStarts, PawnPasses, EMPTY
  <2>2. m.promo \in Rules!Promotions(Core(p), m.from, m.to)
    <3>1. Rules!Promotions(Core(p), m.from, m.to) = {0}
      BY <1>4, CoreFields DEF Rules!Promotions
    <3> QED
      BY <2>1, <3>1
  <2> QED
    BY <1>1, <1>2, <1>4, <2>1, <2>2, RulesMoves
<1> QED
  BY <1>3, <1>4

LEMMA RuledMove ==
  ASSUME NEW p, Good(p), NEW r \in Rules!Moves(Core(p))
  PROVE  \E m : ByRules(p, m) /\ CoreMove(m) = r
<1>1. PICK from \in Square, to \in Square :
             /\ Rules!Is(p.board, from, p.stm) /\ ~Rules!Is(p.board, to, p.stm)
             /\ IF Rules!Type(p.board[from]) = 1 THEN Rules!PawnMove(Core(p), from, to)
                ELSE \/ Rules!Attacks(p.board, from, to)
                     \/ Rules!CastleMove(Core(p), from, to)
             /\ \E promo \in Rules!Promotions(Core(p), from, to) :
                  r = [from |-> from, to |-> to, promo |-> promo]
  BY RulesMoves
<1>2. PICK promo \in Rules!Promotions(Core(p), from, to) :
             r = [from |-> from, to |-> to, promo |-> promo]
  BY <1>1
<1> DEFINE n(flag) == MOVE(from, to, p.board[to], promo, flag)
<1>3. \A flag : /\ n(flag).from = from /\ n(flag).to = to /\ n(flag).promo = promo
                /\ n(flag).flag = flag /\ n(flag).capt = p.board[to]
                /\ IsMove(n(flag)) /\ CoreMove(n(flag)) = r
  BY <1>2 DEF MOVE, IsMove, CoreMove
<1>4. \A flag : n(flag) = MOVE(from, to, p.board[to], promo, flag)
  OBVIOUS
<1> HIDE DEF n
<1>5. \A flag : Leaves(p, n(flag))
  BY <1>1, <1>3 DEF Leaves
<1>6. CASE Rules!Type(p.board[from]) = 1
  <2>1. \E flag \in {"none", "pstart", "enpas"} :
          LET k == MOVE(n("none").from, n("none").to, n("none").capt, n("none").promo, flag)
          IN  PawnGoes(p, k) \/ PawnStarts(p, k) \/ PawnPasses(p, k)
    <3>1. /\ Leaves(p, n("none")) /\ Rules!Type(p.board[n("none").from]) = 1
          /\ Rules!PawnMove(Core(p), n("none").from, n("none").to)
          /\ n("none").promo \in Rules!Promotions(Core(p), n("none").from, n("none").to)
      BY <1>1, <1>2, <1>3, <1>5, <1>6
    <3> QED
      BY <3>1, PawnKinds
  <2>2. \E flag \in {"none", "pstart", "enpas"} :
          PawnGoes(p, n(flag)) \/ PawnStarts(p, n(flag)) \/ PawnPasses(p, n(flag))
    BY <1>3, <1>4, <2>1
  <2> QED
    BY <1>3, <1>5, <2>2 DEF ByRules
<1>7. CASE Rules!Type(p.board[from]) # 1
  <2>1. promo = EMPTY
    <3>1. Rules!Promotions(Core(p), from, to) = {0}
      BY <1>7, CoreFields DEF Rules!Promotions
    <3> QED
      BY <1>2, <3>1 DEF EMPTY
  <2>2. CASE Rules!Attacks(p.board, from, to)
    BY <1>3, <1>5, <1>7, <2>1, <2>2 DEF ByRules, PieceGoes
  <2>3. CASE Rules!CastleMove(Core(p), from, to)
    BY <1>3, <1>5, <1>7, <2>1, <2>3 DEF ByRules, Castles
  <2> QED
    BY <1>1, <1>7, <2>2, <2>3
<1> QED
  BY <1>6, <1>7

\* What the generators give is, move for move, what the rules allow.
THEOREM MovesOfTheRules ==
  ASSUME NEW p, Good(p)
  PROVE  {CoreMove(m) : m \in Generated(p)} = Rules!Moves(Core(p))
<1>1. \A m : m \in Generated(p) <=> ByRules(p, m)
  BY GeneratedByRules
<1>2. \A m : ByRules(p, m) => CoreMove(m) \in Rules!Moves(Core(p))
  BY MoveRuled
<1>3. \A r \in Rules!Moves(Core(p)) : \E m : ByRules(p, m) /\ CoreMove(m) = r
  BY RuledMove
<1> QED
  BY <1>1, <1>2, <1>3

-----------------------------------------------------------------------------
(* Each move once.                                                         *)

\* Moves of the rules as tuples of a finite product.
Pieces0 == 0..14
Packed == (Square \X Square) \X Pieces0
Unpack(t) == [from |-> t[1][1], to |-> t[1][2], promo |-> t[2]]

LEMMA RulesFinite ==
  ASSUME NEW p, Good(p)
  PROVE  IsFiniteSet(Rules!Moves(Core(p)))
<1> DEFINE all == {Unpack(t) : t \in Packed}
           f == [t \in Packed |-> Unpack(t)]
<1>1. IsFiniteSet(Square) /\ IsFiniteSet(Pieces0)
  <2>1. IsFiniteSet(Square)
    BY SquaresFinite
  <2>2. IsFiniteSet(0..14)
    BY FS_Interval, 0 \in Int, 14 \in Int
  <2> QED
    BY <2>1, <2>2 DEF Pieces0
<1>2. IsFiniteSet(Square \X Square)
  BY <1>1, FS_Product
<1>3. IsFiniteSet(Packed)
  BY <1>1, <1>2, FS_Product DEF Packed
<1>4. f \in Surjection(Packed, all)
  BY DEF Surjection
<1> HIDE DEF f, all
<1>5. IsFiniteSet(all)
  BY <1>3, <1>4, FS_Surjection
<1>6. \A r \in Rules!Moves(Core(p)) : r \in all
  <2> TAKE r \in Rules!Moves(Core(p))
  <2>1. PICK m : ByRules(p, m) /\ CoreMove(m) = r
    BY RuledMove
  <2>2. m.from \in Square /\ m.to \in Square
    BY <2>1 DEF ByRules, Leaves
  <2>3. m.promo \in Pieces0
    <3>1. m.promo # EMPTY => m.promo \in Pieces
      BY <2>1, ByRulesOk DEF MoveOk
    <3>2. Pieces \subseteq Pieces0
      BY DEF Pieces, Pieces0, MakePiece, WHITE, BLACK, PAWN, KING
    <3>3. EMPTY \in Pieces0
      BY DEF Pieces0, EMPTY
    <3> QED
      BY <3>1, <3>2, <3>3
  <2> DEFINE t == <<<<m.from, m.to>>, m.promo>>
  <2>4. t \in Packed /\ Unpack(t) = r
    BY <2>1, <2>2, <2>3 DEF Packed, Unpack, CoreMove
  <2> QED
    BY <2>4 DEF all
<1> QED
  BY <1>5, <1>6, FS_Subset

LEMMA CountOnce ==
  ASSUME NEW p, Good(p)
  PROVE  Cardinality(GenNoisyMoves(p)) + Cardinality(GenQuietMoves(p)) =
           Cardinality(Rules!Moves(Core(p)))
<1> DEFINE noisy == GenNoisyMoves(p)
           quiet == GenQuietMoves(p)
           moves == Rules!Moves(Core(p))
           f == [m \in noisy \cup quiet |-> CoreMove(m)]
<1>1. /\ \A m : m \in noisy \cup quiet <=> ByRules(p, m)
      /\ noisy \cap quiet = {}
  BY GeneratedByRules
<1>2. f \in Bijection(noisy \cup quiet, moves)
  <2>1. \A m \in noisy \cup quiet : CoreMove(m) \in moves
    BY <1>1, MoveRuled
  <2>2. \A r \in moves : \E m \in noisy \cup quiet : CoreMove(m) = r
    BY <1>1, RuledMove
  <2>3. \A m, n \in noisy \cup quiet : CoreMove(m) = CoreMove(n) => m = n
    BY <1>1, MoveKnown
  <2> HIDE DEF noisy, quiet, moves
  <2> QED
    BY <2>1, <2>2, <2>3 DEF Bijection, Injection, Surjection, IsInjective
<1>3. IsFiniteSet(moves)
  BY RulesFinite
<1> HIDE DEF noisy, quiet, moves, f
<1>4. IsFiniteSet(noisy \cup quiet)
  BY <1>2, <1>3, FS_Injection DEF Bijection
<1>5. Cardinality(moves) = Cardinality(noisy \cup quiet)
  BY <1>2, <1>4, FS_Bijection DEF ExistsBijection
<1>6. IsFiniteSet(noisy) /\ IsFiniteSet(quiet)
  BY <1>4, FS_Subset
<1>7. Cardinality(noisy \cup quiet) =
        Cardinality(noisy) + Cardinality(quiet) - Cardinality({})
  BY <1>1, <1>6, FS_Union
<1>8. /\ Cardinality({}) = 0 /\ Cardinality(noisy) \in Nat /\ Cardinality(quiet) \in Nat
  BY <1>6, FS_EmptySet, FS_CardinalityType
<1> QED
  BY <1>5, <1>7, <1>8 DEF noisy, quiet, moves

LEMMA GoodMovesOnce == ASSUME Good(pos) PROVE EachMoveOnce
<1>1. {[from |-> m.from, to |-> m.to, promo |-> m.promo] :
         m \in GenNoisyMoves(pos) \cup GenQuietMoves(pos)} = Rules!Moves(Core(pos))
  BY MovesOfTheRules DEF CoreMove, Generated
<1>2. Cardinality(GenNoisyMoves(pos)) + Cardinality(GenQuietMoves(pos)) =
        Cardinality(Rules!Moves(Core(pos)))
  BY CountOnce
<1> QED
  BY <1>1, <1>2 DEF EachMoveOnce

\* EachMoveOnce of the run: in every position a line reaches, from whatever
\* position it was set up, the noisy and the quiet generator together give
\* the moves of the rules, none is missing, and none is given twice.
THEOREM MovesGeneratedOnce == Spec => []EachMoveOnce
<1>1. IInv => EachMoveOnce
  BY GoodMovesOnce DEF IInv
<1> QED
  BY <1>1, PositionInvariant, PTL

-----------------------------------------------------------------------------
(* MoveIsPseudoLegal.                                                      *)

LEMMA CastleGiven ==
  ASSUME NEW p, Good(p), NEW m
  PROVE  m \in GenCastling(p, p.stm, "quiet") <=>
           /\ m = MOVE(m.from, m.to, p.board[m.to], EMPTY, "castle")
           /\ m.from = (IF p.stm = WHITE THEN E1 ELSE E8)
           /\ m.to \in {m.from - 2, m.from + 2} /\ CastleTarget(p, m.to)
<1> DEFINE c == p.stm
           king == IF c = WHITE THEN E1 ELSE E8
           to(side) == IF side = OO THEN king + 2 ELSE king - 2
<1>1. c \in Colors
  BY PositionParts DEF Good, Sound
<1>2. GenCastling(p, c, "quiet") =
        {AddMove(p, king, to(side), EMPTY, "castle") :
           side \in {s \in {OO, OOO} : "quiet" = "quiet" /\ CastlePseudoLegal(p, c, s)}}
  BY Zenon DEF GenCastling
<1>3. \A t \in {OO, OOO} : CastleTarget(p, to(t)) <=> CastlePseudoLegal(p, c, t)
  <2>1. /\ CastleTarget(p, C1) <=> CastlePseudoLegal(p, WHITE, OOO)
        /\ CastleTarget(p, G1) <=> CastlePseudoLegal(p, WHITE, OO)
        /\ CastleTarget(p, C8) <=> CastlePseudoLegal(p, BLACK, OOO)
        /\ CastleTarget(p, G8) <=> CastlePseudoLegal(p, BLACK, OO)
    BY DEF CastleTarget, C1, G1, C8, G8
  <2>2. /\ E1 + 2 = G1 /\ E1 - 2 = C1 /\ E8 + 2 = G8 /\ E8 - 2 = C8
        /\ OO # OOO /\ WHITE # BLACK
    BY DEF C1, G1, C8, G8, E1, E8, OO, OOO, WHITE_OO, WHITE_OOO, BLACK_OO, BLACK_OOO,
       WHITE, BLACK
  <2> QED
    BY <1>1, <2>1, <2>2 DEF Colors
<1>4. OO # OOO /\ king \in Int
  BY DEF OO, OOO, WHITE_OO, WHITE_OOO, BLACK_OO, BLACK_OOO, E1, E8
<1>5. {to(OO), to(OOO)} = {king - 2, king + 2} /\ king - 2 # king + 2
  BY <1>4
<1>6. \A t : LET n == AddMove(p, king, t, EMPTY, "castle") IN
             n = MOVE(king, t, p.board[t], EMPTY, "castle") /\ n.from = king /\ n.to = t
  BY DEF AddMove, MOVE
<1>7. m \in GenCastling(p, c, "quiet") <=>
        \E side \in {OO, OOO} : /\ CastlePseudoLegal(p, c, side)
                                /\ m = AddMove(p, king, to(side), EMPTY, "castle")
  BY <1>2
<1> HIDE DEF to, king, c
<1>8. ASSUME NEW side \in {OO, OOO}
      PROVE  m = AddMove(p, king, to(side), EMPTY, "castle") <=>
               /\ m = MOVE(m.from, m.to, p.board[m.to], EMPTY, "castle")
               /\ m.from = king /\ m.to = to(side)
  BY <1>6
<1> QED
  BY <1>3, <1>5, <1>7, <1>8 DEF c, king

LEMMA RuledIsPseudoLegal ==
  ASSUME NEW p, Good(p), NEW m, ByRules(p, m)
  PROVE  MoveIsPseudoLegal(p, m)
<1> DEFINE c == p.stm
           pt == PieceTypeOf(p.board[m.from])
<1>1. /\ c \in Colors /\ Sound(p) /\ EpOk(p) /\ MoveOk(p, m) /\ Leaves(p, m)
      /\ m.from \in Square /\ m.to \in Square /\ m.capt = p.board[m.to]
      /\ p.pieceBB[ALL] = Occupied(p.board)
  BY PositionParts, ByRulesOk DEF Good, Sound, ByRules, Leaves, Agrees
<1>2. m.from \in p.colorBB[c] /\ m.to \notin p.colorBB[c]
  BY <1>1, Owners DEF Leaves
<1>3. PICK t \in PAWN..KING : /\ p.board[m.from] = MakePiece(c, t)
                              /\ Rules!Type(p.board[m.from]) = t
  BY <1>1, TypeOfOwn DEF Leaves
<1>4. pt = t
  BY <1>1, <1>3, MakePieceFacts
<1>5. /\ PAWN = 1
      /\ t # PAWN => t \in KNIGHT..KING
  BY DEF PAWN, KNIGHT, KING
<1>6. CASE Castles(p, m)
  <2>1. m \in GenCastling(p, c, "quiet") /\ m.flag = "castle"
    BY <1>1, <1>6, GenCastles DEF Castles
  <2>2. CastleTarget(p, m.to)
    BY <2>1, CastleGiven
  <2> QED
    BY <1>1, <1>2, <2>1, <2>2 DEF MoveIsPseudoLegal
<1>7. CASE PieceGoes(p, m)
  <2>1. m.to \in AttackBB(t, m.from, p.pieceBB[ALL])
    BY <1>1, <1>3, <1>5, <1>7, PieceReach DEF PieceGoes
  <2> QED
    BY <1>1, <1>2, <1>3, <1>4, <1>5, <1>7, <2>1
    DEF MoveIsPseudoLegal, PieceGoes, moveIsSpecial
<1>8. ASSUME PawnGoes(p, m) \/ PawnStarts(p, m) \/ PawnPasses(p, m)
      PROVE  t = PAWN /\ (m.to \in PawnAttacks[c][m.from] <=>
                            Rules!Attacks(p.board, m.from, m.to))
  <2>1. t = PAWN
    BY <1>3, <1>5, <1>8 DEF PawnGoes, PawnStarts, PawnPasses
  <2> QED
    BY <1>1, <1>3, <2>1, PawnReaches
<1>9. /\ m.to = m.from + Up(c) => m.to - 8 + 16 * c = m.from
      /\ m.to = m.from + 2 * Up(c) => m.to - 16 + 32 * c = m.from
  BY <1>1 DEF Up, NORTH, Colors, WHITE, BLACK, Square
<1>10. CASE PawnGoes(p, m)
  <2>1. MustPromote(c, m) => FALSE
    <3> HAVE MustPromote(c, m)
    <3>1. m.to \div 8 = Rules!FirstRank(1 - c) /\ m.promo = EMPTY
      BY <1>1 DEF MustPromote, RelativeRank, RankOf, Rules!FirstRank, Colors, WHITE,
         BLACK, Square
    <3>2. m.promo \in {8 * c + n : n \in 2..5}
      <4>1. /\ Rules!Type(p.board[m.from]) = 1 /\ Core(p).board = p.board
            /\ Core(p).stm = c
        BY <1>10, CoreFields DEF PawnGoes
      <4>2. Rules!Promotions(Core(p), m.from, m.to) =
              IF Rules!Type(Core(p).board[m.from]) = 1
                   /\ m.to \div 8 = Rules!FirstRank(1 - Core(p).stm)
              THEN {8 * Core(p).stm + n : n \in 2..5} ELSE {0}
        BY Zenon DEF Rules!Promotions
      <4> QED
        BY <1>10, <3>1, <4>1, <4>2 DEF PawnGoes
    <3> QED
      BY <1>1, <3>1, <3>2 DEF EMPTY, Colors, WHITE, BLACK
  <2>2. IF m.capt # EMPTY THEN m.to \in PawnAttacks[c][m.from]
                          ELSE m.to - 8 + 16 * c = m.from
    BY <1>1, <1>8, <1>9, <1>10 DEF PawnGoes
  <2>3. PawnPseudoLegal(p, m)
    BY <1>10, <2>1, <2>2 DEF PawnPseudoLegal, PawnGoes
  <2> QED
    BY <1>1, <1>2, <1>4, <1>8, <1>10, <2>3 DEF MoveIsPseudoLegal, PawnGoes
<1>11. CASE PawnStarts(p, m)
  <2>1. p.board[Xor8(m.to)] = EMPTY
    BY <1>1, <1>11 DEF MoveOk, PawnStarts
  <2>2. PawnPseudoLegal(p, m)
    BY <1>9, <1>11, <2>1 DEF PawnPseudoLegal, PawnStarts
  <2> QED
    BY <1>1, <1>2, <1>4, <1>8, <1>11, <2>2 DEF MoveIsPseudoLegal, PawnStarts
<1>12. CASE PawnPasses(p, m)
  <2>1. PawnPseudoLegal(p, m)
    BY <1>8, <1>12 DEF PawnPseudoLegal, PawnPasses
  <2> QED
    BY <1>1, <1>2, <1>4, <1>8, <1>12, <2>1 DEF MoveIsPseudoLegal, PawnPasses
<1> QED
  BY <1>6, <1>7, <1>10, <1>11, <1>12 DEF ByRules

\* What is known of a move that was pseudo-legal somewhere.
LEMMA Somewhere ==
  ASSUME NEW p, Good(p), NEW m \in SomewherePseudoLegal(p)
  PROVE  /\ IsMove(m) /\ m.from \in p.colorBB[p.stm]
         /\ \/ /\ m.flag = "none"
               /\ m.to \in PseudoAttacks[KNIGHT][m.from] \cup AttackBB(QUEEN, m.from, {})
               /\ m.promo # EMPTY =>
                    /\ RelativeRank(p.stm, RankOf(m.to)) = 7
                    /\ m.promo \in {MakePiece(p.stm, pt) : pt \in KNIGHT..QUEEN}
            \/ /\ m.flag = "enpas" /\ m.promo = EMPTY
               /\ RelativeRank(p.stm, RankOf(m.from)) = 4
               /\ m.to \in PawnAttacks[p.stm][m.from]
            \/ /\ m.flag = "pstart" /\ m.promo = EMPTY /\ m.capt = EMPTY
               /\ RelativeRank(p.stm, RankOf(m.from)) = 1
               /\ m.to = m.from + 2 * Up(p.stm)
            \/ /\ m.flag = "castle" /\ m.promo = EMPTY
               /\ m.from = (IF p.stm = WHITE THEN E1 ELSE E8)
               /\ m.to \in {m.from - 2, m.from + 2}
<1> DEFINE c == p.stm
           Rank(sq) == RelativeRank(c, RankOf(sq))
           Reach(from) == PseudoAttacks[KNIGHT][from] \cup AttackBB(QUEEN, from, {})
           Promos(from, to) ==
             IF Rank(to) = 7 /\ to - from \in {Up(c) - 1, Up(c), Up(c) + 1}
             THEN {MakePiece(c, pt) : pt \in KNIGHT..QUEEN} ELSE {}
           Capts(to) == {EMPTY, p.board[to]} \cup {MakePiece(Other(c), PAWN)}
           Plain(from) ==
             UNION {UNION {{MOVE(from, to, capt, promo, "none") :
                              promo \in {EMPTY} \cup Promos(from, to)} :
                             capt \in Capts(to)} : to \in Reach(from)}
           Passing(from) ==
             {MOVE(from, to, EMPTY, EMPTY, "enpas") :
                to \in IF Rank(from) = 4 THEN PawnAttacks[c][from] ELSE {}}
           Double(from) ==
             {MOVE(from, to, EMPTY, EMPTY, "pstart") :
                to \in IF Rank(from) = 1 THEN {from + 2 * Up(c)} ELSE {}}
           Castling(from) ==
             {MOVE(from, to, EMPTY, EMPTY, "castle") :
                to \in IF from = (IF c = WHITE THEN E1 ELSE E8)
                       THEN {from - 2, from + 2} ELSE {}}
<1>1. SomewherePseudoLegal(p) =
        UNION {Plain(from) \cup Passing(from) \cup Double(from) \cup Castling(from)
                 : from \in p.colorBB[c]}
  BY Zenon DEF SomewherePseudoLegal
<1>2. \A from, to, capt, promo, flag : LET n == MOVE(from, to, capt, promo, flag) IN
        /\ n.from = from /\ n.to = to /\ n.capt = capt /\ n.promo = promo
        /\ n.flag = flag /\ IsMove(n)
  BY DEF MOVE, IsMove
<1>3. \A from : m \in Plain(from) => \E to \in Reach(from) : \E capt :
        \E promo \in {EMPTY} \cup Promos(from, to) : m = MOVE(from, to, capt, promo, "none")
  OBVIOUS
<1>4. \A from, to, promo : promo \in {EMPTY} \cup Promos(from, to) /\ promo # EMPTY =>
        Rank(to) = 7 /\ promo \in {MakePiece(c, pt) : pt \in KNIGHT..QUEEN}
  OBVIOUS
<1>5. \A from : m \in Passing(from) => \E to \in PawnAttacks[c][from] :
        Rank(from) = 4 /\ m = MOVE(from, to, EMPTY, EMPTY, "enpas")
  OBVIOUS
<1>6. \A from : m \in Double(from) =>
        Rank(from) = 1 /\ m = MOVE(from, from + 2 * Up(c), EMPTY, EMPTY, "pstart")
  OBVIOUS
<1>7. \A from : m \in Castling(from) => \E to \in {from - 2, from + 2} :
        /\ from = (IF c = WHITE THEN E1 ELSE E8)
        /\ m = MOVE(from, to, EMPTY, EMPTY, "castle")
  OBVIOUS
<1> HIDE DEF Plain, Passing, Double, Castling, Promos, Reach, Rank
<1>8. PICK from \in p.colorBB[c] :
             m \in Plain(from) \cup Passing(from) \cup Double(from) \cup Castling(from)
  BY <1>1
<1>9. CASE m \in Plain(from)
  <2>1. PICK to \in Reach(from) :
               \E capt : \E promo \in {EMPTY} \cup Promos(from, to) :
                 m = MOVE(from, to, capt, promo, "none")
    BY <1>3, <1>9
  <2>2. PICK capt : \E promo \in {EMPTY} \cup Promos(from, to) :
                      m = MOVE(from, to, capt, promo, "none")
    BY <2>1
  <2>9. PICK promo \in {EMPTY} \cup Promos(from, to) : m = MOVE(from, to, capt, promo, "none")
    BY <2>2
  <2>3. /\ m.from = from /\ m.to = to /\ m.promo = promo /\ m.flag = "none" /\ IsMove(m)
    BY <1>2, <2>9
  <2>4. promo # EMPTY => /\ Rank(to) = 7
                         /\ promo \in {MakePiece(c, pt) : pt \in KNIGHT..QUEEN}
    BY <1>4
  <2> QED
    BY <1>8, <2>3, <2>4 DEF Rank, Reach
<1>10. CASE m \in Passing(from)
  <2>1. PICK to \in PawnAttacks[c][from] :
          Rank(from) = 4 /\ m = MOVE(from, to, EMPTY, EMPTY, "enpas")
    BY <1>5, <1>10
  <2> QED
    BY <1>2, <1>8, <2>1 DEF Rank
<1>11. CASE m \in Double(from)
  BY <1>2, <1>6, <1>8, <1>11 DEF Rank
<1>12. CASE m \in Castling(from)
  <2>1. PICK to \in {from - 2, from + 2} :
        /\ from = (IF c = WHITE THEN E1 ELSE E8)
        /\ m = MOVE(from, to, EMPTY, EMPTY, "castle")
    BY <1>7, <1>12
  <2> QED
    BY <1>2, <1>8, <2>1
<1> QED
  BY <1>8, <1>9, <1>10, <1>11, <1>12

LEMMA QueenOnBoard ==
  ASSUME NEW a \in Square, NEW b \in AttackBB(QUEEN, a, {})
  PROVE  b \in Square
<1> DEFINE bare == [s \in Square |-> EMPTY]
<1>1. Occupied(bare) = {}
  BY DEF Occupied
<1> HIDE DEF bare
<1>2. AttackBB(QUEEN, a, {}) = MakeSliderAttackBB(a, {}, RSteps \cup BSteps)
  BY DEF AttackBB, QUEEN, ROOK, BISHOP
<1>3. \/ b \in MakeSliderAttackBB(a, {}, RSteps) \/ b \in MakeSliderAttackBB(a, {}, BSteps)
  BY <1>2, SliderAttack
<1> QED
  BY <1>1, <1>3, SliderReach

LEMMA PseudoLegalIsRuled ==
  ASSUME NEW p, Good(p), NEW m \in SomewherePseudoLegal(p), MoveIsPseudoLegal(p, m)
  PROVE  ByRules(p, m)
<1> DEFINE c == p.stm
           pt == PieceTypeOf(p.board[m.from])
<1>1. /\ c \in Colors /\ Sound(p) /\ EpOk(p) /\ p.pieceBB[ALL] = Occupied(p.board)
      /\ IsMove(m) /\ m.from \in p.colorBB[c] /\ m.capt = p.board[m.to]
      /\ m.to \notin p.colorBB[c]
  BY PositionParts, Somewhere DEF Good, Sound, Agrees, MoveIsPseudoLegal
<1>2. m.from \in Square /\ Rules!Is(p.board, m.from, c)
  BY <1>1, OnBoard, Owners
<1>3. PICK t \in PAWN..KING : /\ p.board[m.from] = MakePiece(c, t)
                              /\ Rules!Type(p.board[m.from]) = t
                              /\ m.from \in ColorPieceBB(p, c, t)
  BY <1>1, <1>2, TypeOfOwn
<1>4. pt = t
  BY <1>1, <1>3, MakePieceFacts
<1>5. /\ PAWN = 1
      /\ t # PAWN => t \in KNIGHT..KING
  BY DEF PAWN, KNIGHT, KING
<1>6. ASSUME m.to \in Square
      PROVE  Leaves(p, m)
  BY <1>1, <1>2, <1>6, Owners DEF Leaves
<1>7. CASE m.flag = "castle"
  <2>1. /\ m.from = (IF c = WHITE THEN E1 ELSE E8) /\ m.promo = EMPTY
        /\ m.to \in {m.from - 2, m.from + 2}
    BY <1>7, Somewhere
  <2>2. CastleTarget(p, m.to)
    BY <1>7 DEF MoveIsPseudoLegal
  <2>3. m = MOVE(m.from, m.to, p.board[m.to], EMPTY, "castle")
    BY <1>1, <1>7, <2>1 DEF IsMove
  <2>4. m \in GenCastling(p, c, "quiet")
    BY <2>1, <2>2, <2>3, CastleGiven
  <2> QED
    BY <2>4, GenCastles DEF ByRules
<1>8. CASE m.flag # "castle" /\ t # PAWN
  <2>1. ~moveIsSpecial(m) /\ m.to \in AttackBB(t, m.from, p.pieceBB[ALL])
    BY <1>4, <1>8 DEF MoveIsPseudoLegal
  <2>2. m.to \in Square /\ Rules!Attacks(p.board, m.from, m.to)
    BY <1>1, <1>2, <1>3, <1>5, <1>8, <2>1, PieceReach
  <2> QED
    BY <1>3, <1>5, <1>6, <1>8, <2>1, <2>2 DEF ByRules, PieceGoes, moveIsSpecial
<1>9. CASE m.flag # "castle" /\ t = PAWN
  <2>1. PawnPseudoLegal(p, m)
    BY <1>4, <1>9 DEF MoveIsPseudoLegal
  <2>2. m.to \in PawnAttacks[c][m.from] <=>
          m.to \in Square /\ Rules!Attacks(p.board, m.from, m.to)
    BY <1>1, <1>2, <1>3, <1>9, PawnReaches
  <2>3. CASE m.flag = "enpas"
    <3>1. /\ m.promo = EMPTY /\ RelativeRank(c, RankOf(m.from)) = 4
          /\ m.to \in PawnAttacks[c][m.from]
      BY <2>3, Somewhere
    <3>2. m.to = p.epSquare
      BY <2>1, <2>3 DEF PawnPseudoLegal
    <3>3. m.to # 0
      <4>1. m.to \in Square /\ Rules!Ranks(m.from, m.to) = Rules!Forward(c)
        BY <1>1, <1>2, <3>1, PawnReach
      <4>2. RelativeRank(c, RankOf(m.to)) = 5
        BY <1>1, <1>2, <3>1, <4>1, PawnRanks
      <4> QED
        BY <1>1, <4>1, <4>2 DEF RelativeRank, RankOf, Square, Colors, WHITE, BLACK
    <3> QED
      BY <1>3, <1>5, <1>6, <1>9, <2>2, <2>3, <3>1, <3>2, <3>3 DEF ByRules, PawnPasses
  <2>4. CASE m.flag = "pstart"
    <3>1. /\ m.promo = EMPTY /\ RelativeRank(c, RankOf(m.from)) = 1
          /\ m.to = m.from + 2 * Up(c)
      BY <2>4, Somewhere
    <3>2. p.board[Xor8(m.to)] = EMPTY
      BY <2>1, <2>4 DEF PawnPseudoLegal
    <3>3. /\ m.to \in Square /\ Xor8(m.to) = m.from + Up(c)
          /\ RankOf(m.from) = Rules!FirstRank(c) + Rules!Forward(c)
      BY <1>1, <1>2, <3>1 DEF RelativeRank, RankOf, Square, Colors, WHITE, BLACK, Up,
         NORTH, Xor8, Rules!FirstRank, Rules!Forward
    <3>4. p.board[m.to] = EMPTY
      <4>1. m.capt = EMPTY
        BY <2>4, Somewhere
      <4> QED
        BY <1>1, <4>1
    <3> QED
      BY <1>3, <1>5, <1>6, <1>9, <2>4, <3>1, <3>2, <3>3, <3>4 DEF ByRules, PawnStarts
  <2>5. CASE m.flag = "none"
    <3>1. /\ m.to \in PseudoAttacks[KNIGHT][m.from] \cup AttackBB(QUEEN, m.from, {})
          /\ m.promo # EMPTY =>
                    /\ RelativeRank(p.stm, RankOf(m.to)) = 7
                    /\ m.promo \in {MakePiece(p.stm, k) : k \in KNIGHT..QUEEN}
      BY <2>5, Somewhere
    <3>2. m.to \in Square
      <4>1. m.to \in PseudoAttacks[KNIGHT][m.from] => m.to \in Square
        BY <1>2, KnightReach
      <4>2. m.to \in AttackBB(QUEEN, m.from, {}) => m.to \in Square
        BY <1>2, QueenOnBoard
      <4> QED
        BY <3>1, <4>1, <4>2
    <3>3. \/ m.to = m.from + Up(c) /\ p.board[m.to] = EMPTY
          \/ Rules!Attacks(p.board, m.from, m.to) /\ p.board[m.to] # EMPTY
      <4>1. IF p.board[m.to] # EMPTY THEN m.to \in PawnAttacks[c][m.from]
            ELSE m.to - 8 + 16 * c = m.from
        BY <1>1, <2>1, <2>5 DEF PawnPseudoLegal
      <4>2. m.to - 8 + 16 * c = m.from => m.to = m.from + Up(c)
        BY <1>1, <1>2, <3>2 DEF Up, NORTH, Square, Colors, WHITE, BLACK
      <4> QED
        BY <2>2, <4>1, <4>2
    <3>4. m.promo \in Rules!Promotions(Core(p), m.from, m.to)
      <4>1. RelativeRank(c, RankOf(m.to)) = 7 <=> m.to \div 8 = Rules!FirstRank(1 - c)
        BY <1>1, <3>2 DEF RelativeRank, RankOf, Rules!FirstRank, Square, Colors, WHITE, BLACK
      <4>2. RelativeRank(c, RankOf(m.to)) = 7 => m.promo # EMPTY
        BY <2>1, <2>5 DEF PawnPseudoLegal, MustPromote
      <4>3. {MakePiece(c, k) : k \in KNIGHT..QUEEN} = {8 * c + k : k \in 2..5}
        BY DEF MakePiece, KNIGHT, QUEEN
      <4>4. /\ Rules!Type(p.board[m.from]) = 1 /\ Core(p).board = p.board
            /\ Core(p).stm = c
        BY <1>3, <1>5, <1>9, CoreFields
      <4>5. Rules!Promotions(Core(p), m.from, m.to) =
              IF Rules!Type(Core(p).board[m.from]) = 1
                   /\ m.to \div 8 = Rules!FirstRank(1 - Core(p).stm)
              THEN {8 * Core(p).stm + n : n \in 2..5} ELSE {0}
        BY Zenon DEF Rules!Promotions
      <4> QED
        BY <3>1, <4>1, <4>2, <4>3, <4>4, <4>5 DEF EMPTY
    <3> QED
      BY <1>3, <1>5, <1>6, <1>9, <2>5, <3>2, <3>3, <3>4 DEF ByRules, PawnGoes
  <2> QED
    BY <1>9, <2>3, <2>4, <2>5, Somewhere
<1> QED
  BY <1>7, <1>8, <1>9

LEMMA GoodPseudoLegal == ASSUME Good(pos) PROVE PseudoLegalExact
<1>1. \A m : m \in GenNoisyMoves(pos) \cup GenQuietMoves(pos) <=> ByRules(pos, m)
  BY GeneratedByRules
<1>2. \A m : ByRules(pos, m) => MoveIsPseudoLegal(pos, m)
  BY RuledIsPseudoLegal
<1>3. \A m \in SomewherePseudoLegal(pos) : MoveIsPseudoLegal(pos, m) => ByRules(pos, m)
  BY PseudoLegalIsRuled
<1> QED
  BY <1>1, <1>2, <1>3 DEF PseudoLegalExact

\* PseudoLegalExact of the run: in every position a line reaches the test of
\* a move from the transposition table or a killer slot accepts every
\* generated move, and of the moves of other positions only those that the
\* generators would give here.
THEOREM PseudoLegalTestIsExact == Spec => []PseudoLegalExact
<1>1. IInv => PseudoLegalExact
  BY GoodPseudoLegal DEF IInv
<1> QED
  BY <1>1, PositionInvariant, PTL

-----------------------------------------------------------------------------
(* The counter of the fifty-move rule.                                     *)

\* The counter of p is n.
Counts50(p, n) == "rule50" \in DOMAIN p /\ p.rule50 = n

LEMMA CounterKept ==
  ASSUME NEW p, NEW n, Counts50(p, n), NEW no, NEW bona, NEW sq, NEW pc, NEW from, NEW to,
         NEW hash
  PROVE  /\ Counts50(SetPieceOnBoard(p, no, bona, sq), n)
         /\ Counts50(PutPiece(p, no, sq, pc), n)
         /\ Counts50(NoPieceNumber(p, sq), n)
         /\ Counts50(ClearPiece(p, sq, hash), n)
         /\ Counts50(AddPiece(p, sq, pc, hash), n)
         /\ Counts50(MovePiece(p, from, to, hash), n)
         /\ Counts50(Unlist(p, no, sq), n)
<1>1. \A q : Counts50(q, n) => Counts50(SetPieceOnBoard(q, no, bona, sq), n)
  BY DEF Counts50, SetPieceOnBoard
<1>2. \A q, b : Counts50(q, n) => Counts50(SetPieceOnBoard(q, no, b, sq), n)
  BY DEF Counts50, SetPieceOnBoard
<1>3. \A q : Counts50(q, n) => Counts50(NoPieceNumber(q, sq), n)
  BY DEF Counts50, NoPieceNumber
<1>4. \A piece, squares : Counts50(ToggleBB(p, piece, squares), n)
  BY DEF Counts50, ToggleBB
<1>5. Counts50(SetBB(p, pc, sq), n)
  BY DEF Counts50, SetBB
<1>6. Counts50(ClearPiece(p, sq, hash), n)
  <2> DEFINE q == ToggleBB(p, p.board[sq], {sq})
  <2>1. Counts50(q, n)
    BY <1>4
  <2> HIDE DEF q
  <2>2. ClearPiece(p, sq, hash) = [q EXCEPT
          !.key = IF hash THEN HashPce(@, p.board[sq], sq) ELSE @,
          !.board[sq] = EMPTY,
          !.material = @ - PSQT(p.board[sq], sq),
          !.basePhase = @ - PhaseValue(p.board[sq]),
          !.nonPawnCount[ColorOf(p.board[sq])] = @ - NonPawn(p.board[sq])]
    BY Zenon DEF ClearPiece, q
  <2> QED
    BY <2>1, <2>2 DEF Counts50
<1>7. Counts50(AddPiece(p, sq, pc, hash), n)
  <2> DEFINE q == SetBB(p, pc, sq)
  <2>1. Counts50(q, n)
    BY <1>5
  <2> HIDE DEF q
  <2>2. AddPiece(p, sq, pc, hash) = [q EXCEPT
          !.key = IF hash THEN HashPce(@, pc, sq) ELSE @,
          !.board[sq] = pc,
          !.material = @ + PSQT(pc, sq),
          !.basePhase = @ + PhaseValue(pc),
          !.nonPawnCount[ColorOf(pc)] = @ + NonPawn(pc)]
    BY Zenon DEF AddPiece, q
  <2> QED
    BY <2>1, <2>2 DEF Counts50
<1>8. Counts50(MovePiece(p, from, to, hash), n)
  <2> DEFINE q == ToggleBB(p, p.board[from], {from, to})
  <2>1. Counts50(q, n)
    BY <1>4
  <2> HIDE DEF q
  <2>2. MovePiece(p, from, to, hash) = [q EXCEPT
          !.key = IF hash THEN HashPce(HashPce(@, p.board[from], from), p.board[from], to) ELSE @,
          !.board[from] = EMPTY,
          !.board[to]   = p.board[from],
          !.material = @ + PSQT(p.board[from], to) - PSQT(p.board[from], from)]
    BY Zenon DEF MovePiece, q
  <2> QED
    BY <2>1, <2>2 DEF Counts50
<1> QED
  BY <1>1, <1>2, <1>3, <1>6, <1>7, <1>8 DEF PutPiece, Unlist

LEMMA CounterMade ==
  ASSUME NEW p, Good(p), NEW m, MoveOk(p, m)
  PROVE  Made(p, m).pos.rule50 =
           IF PieceTypeOf(p.board[m.from]) = PAWN \/ m.capt # EMPTY THEN 0 ELSE p.rule50 + 1
<1> DEFINE n == IF m.capt # EMPTY THEN 0 ELSE p.rule50 + 1
           k == IF PieceTypeOf(p.board[m.from]) = PAWN THEN 0 ELSE n
<1>1. p \in PositionType
  BY DEF Good, Sound
<1>2. Counts50(Started(p, m), p.rule50 + 1)
  BY <1>1 DEF Started, Counts50, PositionType
<1>3. Counts50(Step2(p, m), n)
  <2>1. CASE m.capt = EMPTY
    BY <1>2, <2>1 DEF Step2
  <2>2. CASE m.capt # EMPTY
    <3> DEFINE q == ClearPiece(Unlist(Started(p, m), CapturedNo(p, m), m.to), m.to, TRUE)
    <3>1. Counts50(q, p.rule50 + 1)
      BY <1>2, CounterKept
    <3> HIDE DEF q
    <3>2. Step2(p, m) = [q EXCEPT !.rule50 = 0]
      BY <2>2 DEF Step2, q
    <3> QED
      BY <2>2, <3>1, <3>2 DEF Counts50
  <2> QED
    BY <2>1, <2>2
<1> HIDE DEF n
<1>4. Counts50(Step3(p, m), n)
  BY <1>3, CounterKept DEF Step3
<1>5. Counts50(Step4(p, m), n)
  BY <1>4, CounterKept DEF Step4
<1>6. Counts50([Step4(p, m) EXCEPT !.rule50 = 0], 0)
  BY <1>5 DEF Counts50
<1>7. Counts50(Step5(p, m), k)
  <2>1. CASE PieceTypeOf(p.board[m.from]) = PAWN
    <3> DEFINE s == [Step4(p, m) EXCEPT !.rule50 = 0]
               no == MovedNo(p, m)
    <3>1. Counts50(s, 0)
      BY <1>6
    <3>2. Step5(p, m) = PawnSpecifics(s, m, no)
      BY <2>1 DEF Step5
    <3> HIDE DEF s, no
    <3>3. PawnSpecifics(s, m, no) \in
            {[s EXCEPT !.epSquare = Xor8(m.to), !.key = HashEP(@, Xor8(m.to))], s,
             ClearPiece(s, Xor8(m.to), TRUE),
             PutPiece(AddPiece(ClearPiece(s, m.to, TRUE), m.to, m.promo, TRUE),
                      no, m.to, m.promo)}
      <4>1. m.flag \in {"none", "pstart", "enpas", "castle"}
        BY DEF MoveOk
      <4> QED
        BY <4>1 DEF PawnSpecifics
    <3>4. Counts50([s EXCEPT !.epSquare = Xor8(m.to), !.key = HashEP(@, Xor8(m.to))], 0)
      BY <3>1 DEF Counts50
    <3>5. Counts50(ClearPiece(s, Xor8(m.to), TRUE), 0)
      BY <3>1, CounterKept
    <3>6. Counts50(PutPiece(AddPiece(ClearPiece(s, m.to, TRUE), m.to, m.promo, TRUE),
                            no, m.to, m.promo), 0)
      BY <3>1, CounterKept
    <3> QED
      BY <2>1, <3>1, <3>2, <3>3, <3>4, <3>5, <3>6
  <2>2. CASE PieceTypeOf(p.board[m.from]) # PAWN
    <3>1. Counts50(PutPiece(NoPieceNumber(
            MovePiece(Step4(p, m), CaptureSq(m), RookTo(m.to), TRUE), CaptureSq(m)),
            CapturedNo(p, m), RookTo(m.to), MakePiece(p.stm, ROOK)), n)
      BY <1>5, CounterKept
    <3> QED
      BY <1>5, <2>2, <3>1 DEF Step5
  <2> QED
    BY <2>1, <2>2
<1>8. Made(p, m).pos = [Step5(p, m) EXCEPT !.stm = Other(p.stm), !.key = HashSide(@)]
  BY MadeSteps, Zenon DEF Step6
<1> QED
  BY <1>7, <1>8 DEF Counts50, n

\* A square after the move, from the position before it.
LEMMA Board5Values ==
  ASSUME NEW p, Good(p), NEW m, MoveOk(p, m), NEW s \in Square
  PROVE  Board5(p, m)[s] =
           IF s = m.to THEN IF m.promo = EMPTY THEN p.board[m.from] ELSE m.promo
           ELSE IF s = m.from THEN EMPTY
           ELSE IF m.flag = "enpas" /\ s = Xor8(m.to) THEN EMPTY
           ELSE IF m.flag = "castle" /\ s = RookFrom(m.to) THEN EMPTY
           ELSE IF m.flag = "castle" /\ s = RookTo(m.to) THEN MakePiece(p.stm, ROOK)
           ELSE p.board[s]
<1> DEFINE b == Board4(p, m)
<1>1. /\ b \in BoardType /\ b[m.from] = EMPTY /\ b[m.to] = p.board[m.from]
      /\ \A t \in Square : t # m.to /\ t # m.from => b[t] = p.board[t]
  BY List4Ok
<1>2. /\ m.from \in Square /\ m.to \in Square /\ m.from # m.to
      /\ CaptureSq(m) \in Square
      /\ m.flag = "enpas" => /\ CaptureSq(m) = Xor8(m.to) /\ m.promo = EMPTY
                             /\ CaptureSq(m) # m.from /\ CaptureSq(m) # m.to
      /\ m.flag = "castle" => CaptureSq(m) = RookFrom(m.to) /\ m.promo = EMPTY
      /\ m.promo # EMPTY => m.flag = "none"
  BY MoveFacts
<1>3. m.flag \in {"none", "pstart", "enpas", "castle"}
  BY DEF MoveOk
<1> HIDE DEF b
<1>4. CASE m.flag = "enpas"
  <2>1. Board5(p, m) = Emptied(b, CaptureSq(m))
    BY <1>4 DEF Board5, b
  <2> QED
    BY <1>1, <1>2, <1>4, <2>1 DEF Emptied, BoardType
<1>5. CASE m.flag = "castle"
  <2>1. Board5(p, m) = Filled(Emptied(b, CaptureSq(m)), RookTo(m.to), MakePiece(p.stm, ROOK))
    BY <1>5 DEF Board5, b
  <2>2. /\ RookFrom(m.to) \in Square /\ RookTo(m.to) \in Square
        /\ RookFrom(m.to) # RookTo(m.to)
        /\ RookFrom(m.to) # m.from /\ RookFrom(m.to) # m.to
        /\ RookTo(m.to) # m.from /\ RookTo(m.to) # m.to
    <3>1. p.stm \in Colors
      BY PositionParts DEF Good, Sound
    <3>2. /\ m.from = (IF p.stm = WHITE THEN E1 ELSE E8)
          /\ m.to \in (IF p.stm = WHITE THEN {C1, G1} ELSE {C8, G8})
      BY <1>5 DEF MoveOk
    <3> QED
      BY <3>1, <3>2, RookSquares
  <2>3. /\ RookFrom(m.to) = CaptureSq(m)
    BY <1>2, <1>5
  <2> QED
    BY <1>1, <1>2, <1>5, <2>1, <2>2, <2>3 DEF Emptied, Filled, BoardType
<1>6. CASE m.flag \notin {"enpas", "castle"} /\ m.promo # EMPTY
  <2>1. Board5(p, m) = Filled(b, m.to, m.promo)
    BY <1>6 DEF Board5, b
  <2> QED
    BY <1>1, <1>2, <1>6, <2>1 DEF Filled, BoardType
<1>7. CASE m.flag \notin {"enpas", "castle"} /\ m.promo = EMPTY
  <2>1. Board5(p, m) = b
    BY <1>7 DEF Board5, b
  <2> QED
    BY <1>1, <1>2, <1>7, <2>1
<1> QED
  BY <1>4, <1>5, <1>6, <1>7

\* The rights under which a move from one square to another castles.
CastlingBy(rights, pc, from, to) ==
  {r \in rights : /\ Rules!Type(pc) = 6 /\ from = Rules!King(r)
                  /\ to - from = 2 * (Rules!Mid(r) - from)}

\* The rook that goes with a castling king.
LEMMA CastlingRook ==
  ASSUME NEW r \in {1, 2, 4, 8}, NEW to, to = Rules!King(r) + 2 * (Rules!Mid(r) - Rules!King(r))
  PROVE  /\ Rules!Rook(r) = RookFrom(to) /\ Rules!Mid(r) = RookTo(to)
         /\ Rules!King(r) \in Square /\ to \in Square
         /\ Rules!Abs(Rules!Files(Rules!King(r), to)) = 2
BY DEF Rules!King, Rules!Rook, Rules!Mid, RookFrom, RookTo, Rules!Abs, Rules!Files, Square,
       A1, C1, D1, E1, F1, G1, H1, A8, C8, D8, E8, F8, G8, H8

LEMMA CastlingMoves ==
  ASSUME NEW p, Good(p), NEW m, ByRules(p, m), NEW s
  PROVE  LET by == CastlingBy(p.castlingRights, p.board[m.from], m.from, m.to) IN
         /\ (\E r \in by : s = Rules!Rook(r)) <=> m.flag = "castle" /\ s = RookFrom(m.to)
         /\ (\E r \in by : s = Rules!Mid(r)) <=> m.flag = "castle" /\ s = RookTo(m.to)
<1> DEFINE by == CastlingBy(p.castlingRights, p.board[m.from], m.from, m.to)
<1>1. p.castlingRights \subseteq {1, 2, 4, 8}
  BY DEF Good, Sound, PositionType, OO, OOO, WHITE_OO, WHITE_OOO, BLACK_OO, BLACK_OOO
<1>2. m.from \in Square /\ m.to \in Square
  BY DEF ByRules, Leaves
<1>3. ASSUME NEW r \in by
      PROVE  /\ m.flag = "castle"
             /\ Rules!Rook(r) = RookFrom(m.to) /\ Rules!Mid(r) = RookTo(m.to)
  <2>1. /\ r \in {1, 2, 4, 8} /\ Rules!Type(p.board[m.from]) = 6
        /\ m.from = Rules!King(r) /\ m.to - m.from = 2 * (Rules!Mid(r) - m.from)
    BY <1>1, <1>3 DEF CastlingBy
  <2>2. m.to = Rules!King(r) + 2 * (Rules!Mid(r) - Rules!King(r))
    BY <1>2, <2>1 DEF Rules!King, Rules!Mid, Square
  <2>3. /\ Rules!Rook(r) = RookFrom(m.to) /\ Rules!Mid(r) = RookTo(m.to)
        /\ Rules!Abs(Rules!Files(m.from, m.to)) = 2
    BY <2>1, <2>2, CastlingRook
  <2> QED
    BY <2>1, <2>3, FlagKnown
<1>4. ASSUME m.flag = "castle"
      PROVE  \E r : r \in by
  <2>1. Castles(p, m)
    BY <1>4 DEF ByRules, PieceGoes, PawnGoes, PawnStarts, PawnPasses
  <2>2. PICK r \in p.castlingRights : m.from = Rules!King(r) /\ m.to = m.from + 2 * (Rules!Mid(r) - m.from)
    BY <2>1, CoreFields DEF Castles, Rules!CastleMove
  <2>3. Rules!Type(p.board[m.from]) = 6
    BY <1>4, FlagKnown, <2>1 DEF Castles
  <2>4. m.to - m.from = 2 * (Rules!Mid(r) - m.from)
    BY <1>1, <1>2, <2>2 DEF Rules!Mid, Rules!King, Square
  <2> QED
    BY <2>2, <2>3, <2>4 DEF CastlingBy
<1> HIDE DEF by
<1>5. /\ (\E r \in by : s = Rules!Rook(r)) <=> m.flag = "castle" /\ s = RookFrom(m.to)
      /\ (\E r \in by : s = Rules!Mid(r)) <=> m.flag = "castle" /\ s = RookTo(m.to)
  BY <1>3, <1>4
<1> QED
  BY <1>5 DEF by

\* The board after a move of the rules, and whether a pawn may take there
\* what moved past it.
RulesBoard(board, rights, stm, from, to, promo) ==
  LET pc      == board[from]
      castles == CastlingBy(rights, pc, from, to)
  IN  [sq \in Rules!Squares |->
         CASE sq = to -> IF promo = 0 THEN pc ELSE promo
           [] sq = from -> 0
           [] /\ Rules!Type(pc) = 1 /\ Rules!Files(from, to) # 0 /\ board[to] = 0
              /\ sq = 8 * (from \div 8) + (to % 8) -> 0
           [] \E x \in castles : sq = Rules!Rook(x) -> 0
           [] \E x \in castles : sq = Rules!Mid(x) -> 8 * stm + 4
           [] OTHER -> board[sq]]
RulesTakes(board, stm, passed) ==
  \E a \in Rules!Squares : /\ board[a] = 8 * (1 - stm) + 1
                           /\ Rules!Attacks(board, a, passed)

LEMMA AfterParts ==
  ASSUME NEW q, NEW r
  PROVE  LET b == RulesBoard(q.board, q.rights, q.stm, r.from, r.to, r.promo) IN
         Rules!After(q, r) =
           [board  |-> b,
            stm    |-> 1 - q.stm,
            ep     |-> IF /\ Rules!Type(q.board[r.from]) = 1
                          /\ Rules!Abs(Rules!Ranks(r.from, r.to)) = 2
                          /\ RulesTakes(b, q.stm, (r.from + r.to) \div 2)
                       THEN (r.from + r.to) \div 2 ELSE 0,
            rights |-> {x \in q.rights :
                          {Rules!King(x), Rules!Rook(x)} \cap {r.from, r.to} = {}},
            rule50 |-> IF Rules!Type(q.board[r.from]) = 1 \/ q.board[r.to] # 0
                       THEN 0 ELSE q.rule50 + 1]
BY Zenon DEF Rules!After, RulesBoard, RulesTakes, CastlingBy

\* A pawn passes another one on its way to the side of an empty square.
LEMMA Passing ==
  ASSUME NEW p, Good(p), NEW m, ByRules(p, m)
  PROVE  /\ m.flag = "enpas" <=>
              /\ Rules!Type(p.board[m.from]) = 1 /\ Rules!Files(m.from, m.to) # 0
              /\ p.board[m.to] = 0
         /\ m.flag = "enpas" => Xor8(m.to) = 8 * (m.from \div 8) + (m.to % 8)
<1>1. p.stm \in Colors
  BY PositionParts DEF Good, Sound
<1>2. m.from \in Square /\ m.to \in Square
  BY DEF ByRules, Leaves
<1>3. ASSUME m.flag = "enpas"
      PROVE  /\ Rules!Type(p.board[m.from]) = 1 /\ Rules!Files(m.from, m.to) # 0
             /\ p.board[m.to] = 0 /\ Xor8(m.to) = 8 * (m.from \div 8) + (m.to % 8)
  <2>1. PawnPasses(p, m)
    BY <1>3 DEF ByRules, PieceGoes, Castles, PawnGoes, PawnStarts
  <2>2. /\ Rules!Type(p.board[m.from]) = 1 /\ Rules!Attacks(p.board, m.from, m.to)
        /\ m.to = p.epSquare /\ m.to # 0
    BY <2>1 DEF PawnPasses
  <2>3. p.board[m.to] = 0 /\ RelativeRank(p.stm, RankOf(m.to)) = 5
    BY <2>2 DEF Good, EpOk, EMPTY
  <2>4. p.board[m.from] = MakePiece(p.stm, PAWN)
    BY ByRulesOk, <1>3 DEF MoveOk
  <2>5. m.to \in PawnAttacks[p.stm][m.from]
    BY <1>1, <1>2, <2>2, <2>4, PawnReaches
  <2>6. /\ Rules!Abs(Rules!Files(m.from, m.to)) = 1
        /\ Rules!Ranks(m.from, m.to) = Rules!Forward(p.stm)
    BY <1>1, <1>2, <2>5, PawnReach
  <2>7. Rules!Files(m.from, m.to) # 0
    BY <2>6 DEF Rules!Abs
  <2>8. Xor8(m.to) = 8 * (m.from \div 8) + (m.to % 8)
    BY <1>1, <1>2, <2>3, <2>6 DEF Xor8, RankOf, RelativeRank, Rules!Ranks, Rules!Forward,
       Square, Colors, WHITE, BLACK
  <2> QED
    BY <2>2, <2>3, <2>7, <2>8
<1>4. ASSUME Rules!Type(p.board[m.from]) = 1, Rules!Files(m.from, m.to) # 0,
             p.board[m.to] = 0
      PROVE  m.flag = "enpas"
  <2>1. m.to # m.from + 2 * Up(p.stm)
    BY <1>1, <1>2, <1>4, DoubleFiles
  <2>2. m.to # m.from + Up(p.stm)
    BY <1>1, <1>2, <1>4, AheadRanks
  <2> QED
    BY <1>4, <2>1, <2>2, FlagKnown DEF EMPTY
<1> QED
  BY <1>3, <1>4

\* The board after a generated move is that of the rules.
LEMMA BoardAfter ==
  ASSUME NEW p, Good(p), NEW m, ByRules(p, m)
  PROVE  RulesBoard(p.board, p.castlingRights, p.stm, m.from, m.to, m.promo) =
           Board5(p, m)
<1> DEFINE by == CastlingBy(p.castlingRights, p.board[m.from], m.from, m.to)
           Here(sq) == CASE sq = m.to -> IF m.promo = 0 THEN p.board[m.from] ELSE m.promo
             [] sq = m.from -> 0
             [] /\ Rules!Type(p.board[m.from]) = 1 /\ Rules!Files(m.from, m.to) # 0 /\ p.board[m.to] = 0
                /\ sq = 8 * (m.from \div 8) + (m.to % 8) -> 0
             [] \E x \in by : sq = Rules!Rook(x) -> 0
             [] \E x \in by : sq = Rules!Mid(x) -> 8 * p.stm + 4
             [] OTHER -> p.board[sq]
<1>1. MoveOk(p, m) /\ p.stm \in Colors
  BY ByRulesOk, PositionParts DEF Good, Sound
<1>2. /\ m.from \in Square /\ m.to \in Square /\ m.from # m.to
      /\ CaptureSq(m) \in Square
      /\ m.flag = "enpas" => /\ Xor8(m.to) # m.from /\ Xor8(m.to) # m.to
  BY <1>1, MoveFacts
<1>3. RulesBoard(p.board, p.castlingRights, p.stm, m.from, m.to, m.promo) =
        [sq \in Rules!Squares |-> Here(sq)]
  BY Zenon DEF RulesBoard
<1>4. ASSUME m.flag = "castle"
      PROVE  /\ RookFrom(m.to) # RookTo(m.to)
             /\ RookFrom(m.to) # m.from /\ RookFrom(m.to) # m.to
             /\ RookTo(m.to) # m.from /\ RookTo(m.to) # m.to
  <2>1. /\ m.from = (IF p.stm = WHITE THEN E1 ELSE E8)
        /\ m.to \in (IF p.stm = WHITE THEN {C1, G1} ELSE {C8, G8})
    BY <1>1, <1>4 DEF MoveOk
  <2> QED
    BY <1>1, <2>1, RookSquares
<1>5. ASSUME NEW sq \in Square
      PROVE  Here(sq) = Board5(p, m)[sq]
  <2> DEFINE passes == /\ Rules!Type(p.board[m.from]) = 1 /\ Rules!Files(m.from, m.to) # 0
                       /\ p.board[m.to] = 0
             R == \E x \in by : sq = Rules!Rook(x)
             M == \E x \in by : sq = Rules!Mid(x)
             z == 8 * (m.from \div 8) + (m.to % 8)
  <2>1. /\ R <=> m.flag = "castle" /\ sq = RookFrom(m.to)
        /\ M <=> m.flag = "castle" /\ sq = RookTo(m.to)
    BY CastlingMoves
  <2>2. passes /\ sq = z <=> m.flag = "enpas" /\ sq = Xor8(m.to)
    BY Passing
  <2>3. Here(sq) = CASE sq = m.to -> IF m.promo = 0 THEN p.board[m.from] ELSE m.promo
             [] sq = m.from -> 0
             [] passes /\ sq = z -> 0
             [] R -> 0
             [] M -> 8 * p.stm + 4
             [] OTHER -> p.board[sq]
    OBVIOUS
  <2> HIDE DEF Here, R, M, passes, z
  <2>4. Here(sq) = IF sq = m.to THEN IF m.promo = 0 THEN p.board[m.from] ELSE m.promo
             ELSE IF sq = m.from THEN 0
             ELSE IF m.flag = "enpas" /\ sq = Xor8(m.to) THEN 0
             ELSE IF m.flag = "castle" /\ sq = RookFrom(m.to) THEN 0
             ELSE IF m.flag = "castle" /\ sq = RookTo(m.to) THEN 8 * p.stm + 4
             ELSE p.board[sq]
    BY <1>2, <1>4, <2>1, <2>2, <2>3
  <2>5. MakePiece(p.stm, ROOK) = 8 * p.stm + 4
    BY DEF MakePiece, ROOK
  <2> QED
    BY <1>1, <2>4, <2>5, Board5Values DEF EMPTY
<1>6. Board5(p, m) = [sq \in Square |-> Board5(p, m)[sq]]
  <2>1. Made(p, m).pos.board = Board5(p, m) /\ Made(p, m).pos \in PositionType
    BY <1>1, MadeFields DEF Moved, Fit, Sound
  <2>2. Board5(p, m) \in BoardType
    BY <2>1, PositionParts
  <2> QED
    BY <2>2 DEF BoardType
<1>7. Rules!Squares = Square
  BY DEF Rules!Squares, Square
<1> HIDE DEF Here
<1> QED
  BY <1>3, <1>5, <1>6, <1>7

\* The rights that stay are those of the kings and rooks that did not move
\* and were not captured.
LEMMA RightsAfter ==
  ASSUME NEW p, Good(p), NEW m
  PROVE  Stays(p, m) = {x \in p.castlingRights :
                          {Rules!King(x), Rules!Rook(x)} \cap {m.from, m.to} = {}}
<1>1. p.castlingRights \subseteq {1, 2, 4, 8}
  BY DEF Good, Sound, PositionType, OO, OOO, WHITE_OO, WHITE_OOO, BLACK_OO, BLACK_OOO
<1>2. ASSUME NEW x \in {1, 2, 4, 8}, NEW s
      PROVE  x \in CastlePerm(s) <=> s # Rules!King(x) /\ s # Rules!Rook(x)
  BY DEF CastlePerm, Rules!King, Rules!Rook, CastleOf, OO, OOO, WHITE_OO, WHITE_OOO,
     BLACK_OO, BLACK_OOO, A1, E1, H1, A8, E8, H8, WHITE, BLACK
<1>3. ASSUME NEW x \in {1, 2, 4, 8}
      PROVE  x \in CastlePerm(m.from) /\ x \in CastlePerm(m.to) <=>
               {Rules!King(x), Rules!Rook(x)} \cap {m.from, m.to} = {}
  BY <1>2
<1> QED
  BY <1>1, <1>3 DEF Stays

\* The rank a pawn start passes.
LEMMA StartPasses ==
  ASSUME NEW c \in Colors, NEW from \in Square, NEW to \in Square,
         to = from + 2 * Up(c), RelativeRank(c, RankOf(to)) = 3
  PROVE  Xor8(to) = (from + to) \div 2
BY DEF Colors, WHITE, BLACK, Up, NORTH, RelativeRank, RankOf, Xor8, Square

\* A pawn attacks a square exactly if the square attacks it back.
LEMMA PawnTakes ==
  ASSUME NEW q, Sound(q), NEW passed \in Square
  PROVE  PawnAttacks[q.stm][passed] \cap ColorPieceBB(q, Other(q.stm), PAWN) # {}
           <=> RulesTakes(q.board, q.stm, passed)
<1>1. q.stm \in Colors /\ Other(q.stm) \in Colors
  BY PositionParts, OtherFacts DEF Sound
<1>2. MakePiece(Other(q.stm), PAWN) = 8 * (1 - q.stm) + 1
  BY DEF MakePiece, Other, PAWN
<1>3. ASSUME NEW a \in Square
      PROVE  a \in PawnAttacks[q.stm][passed] /\ a \in ColorPieceBB(q, Other(q.stm), PAWN)
               <=> /\ q.board[a] = 8 * (1 - q.stm) + 1
                   /\ Rules!Attacks(q.board, a, passed)
  <2>1. a \in ColorPieceBB(q, Other(q.stm), PAWN) <=> q.board[a] = MakePiece(Other(q.stm), PAWN)
    BY <1>1, Owners DEF PAWN, KING
  <2>2. a \in PawnAttacks[q.stm][passed] <=> passed \in PawnAttacks[Other(q.stm)][a]
    BY <1>1, PawnReachBack
  <2>3. q.board[a] = MakePiece(Other(q.stm), PAWN) =>
          (passed \in PawnAttacks[Other(q.stm)][a] <=> Rules!Attacks(q.board, a, passed))
    BY <1>1, PawnReaches
  <2> QED
    BY <1>2, <2>1, <2>2, <2>3
<1>4. \A a : a \in PawnAttacks[q.stm][passed] => a \in Square
  BY <1>1, PawnReach
<1>5. Rules!Squares = Square
  BY DEF Rules!Squares, Square
<1> QED
  BY <1>3, <1>4, <1>5 DEF RulesTakes

\* Which moves are pawn starts.
LEMMA Starting ==
  ASSUME NEW p, Good(p), NEW m, ByRules(p, m)
  PROVE  /\ m.flag = "pstart" <=>
              /\ Rules!Type(p.board[m.from]) = 1
              /\ Rules!Abs(Rules!Ranks(m.from, m.to)) = 2
         /\ m.flag = "pstart" => /\ m.to = m.from + 2 * Up(p.stm)
                                 /\ RelativeRank(p.stm, RankOf(m.to)) = 3
                                 /\ p.board[m.from] = MakePiece(p.stm, PAWN)
                                 /\ Xor8(m.to) = (m.from + m.to) \div 2
<1>1. p.stm \in Colors /\ MoveOk(p, m) /\ m.from \in Square /\ m.to \in Square
  BY PositionParts, ByRulesOk DEF Good, Sound, MoveOk
<1>2. Rules!Forward(p.stm) \in {-1, 1}
  BY <1>1, UpFacts
<1>3. ASSUME m.flag = "pstart"
      PROVE  /\ Rules!Type(p.board[m.from]) = 1
             /\ Rules!Abs(Rules!Ranks(m.from, m.to)) = 2
             /\ m.to = m.from + 2 * Up(p.stm)
             /\ RelativeRank(p.stm, RankOf(m.to)) = 3
             /\ p.board[m.from] = MakePiece(p.stm, PAWN)
             /\ Xor8(m.to) = (m.from + m.to) \div 2
  <2>1. PawnStarts(p, m)
    BY <1>3 DEF ByRules, PieceGoes, Castles, PawnGoes, PawnPasses
  <2>2. Rules!Type(p.board[m.from]) = 1 /\ m.to = m.from + 2 * Up(p.stm)
    BY <2>1 DEF PawnStarts
  <2>3. Rules!Ranks(m.from, m.to) = 2 * Rules!Forward(p.stm)
    BY <1>1, <2>2, DoubleFiles
  <2>4. /\ RelativeRank(p.stm, RankOf(m.to)) = 3
        /\ p.board[m.from] = MakePiece(p.stm, PAWN)
    BY <1>1, <1>3 DEF MoveOk
  <2>5. Xor8(m.to) = (m.from + m.to) \div 2
    BY <1>1, <2>2, <2>4, StartPasses
  <2> QED
    BY <1>2, <2>2, <2>3, <2>4, <2>5 DEF Rules!Abs
<1>4. ASSUME Rules!Type(p.board[m.from]) = 1, m.flag # "pstart"
      PROVE  Rules!Ranks(m.from, m.to) \in {-1, 1}
  <2>1. m.to = m.from + Up(p.stm) \/ Rules!Attacks(p.board, m.from, m.to)
    BY <1>4 DEF ByRules, PieceGoes, Castles, PawnStarts, PawnPasses, PawnGoes
  <2>2. CASE m.to = m.from + Up(p.stm)
    BY <1>1, <1>2, <2>2, AheadRanks
  <2>3. CASE Rules!Attacks(p.board, m.from, m.to)
    <3>1. p.board[m.from] = MakePiece(p.stm, PAWN)
      BY <1>1, <1>4, TypeOfOwn DEF ByRules, Leaves, Good, PAWN
    <3>2. m.to \in PawnAttacks[p.stm][m.from]
      BY <1>1, <2>3, <3>1, PawnReaches
    <3>3. Rules!Ranks(m.from, m.to) = Rules!Forward(p.stm)
      BY <1>1, <3>2, PawnReach
    <3> QED
      BY <1>2, <3>3
  <2> QED
    BY <2>1, <2>2, <2>3
<1>5. ASSUME Rules!Type(p.board[m.from]) = 1, m.flag # "pstart"
      PROVE  Rules!Abs(Rules!Ranks(m.from, m.to)) # 2
  BY <1>4, <1>5 DEF Rules!Abs
<1> QED
  BY <1>3, <1>5

\* The en passant square after a generated move.
LEMMA EpAfter ==
  ASSUME NEW p, Good(p), NEW m, ByRules(p, m)
  PROVE  LET passed == (m.from + m.to) \div 2 IN
         Made(p, m).pos.epSquare =
           IF /\ Rules!Type(p.board[m.from]) = 1
              /\ Rules!Abs(Rules!Ranks(m.from, m.to)) = 2
              /\ RulesTakes(Board5(p, m), p.stm, passed)
           THEN passed ELSE 0
<1> DEFINE passed == (m.from + m.to) \div 2
           q == Step5(p, m)
           s == [Step4(p, m) EXCEPT !.rule50 = 0]
<1>1. MoveOk(p, m) /\ m.to \in Square /\ m.from \in Square
  BY ByRulesOk DEF MoveOk
<1>2. /\ Sound(q)
      /\ q.epSquare # 0 => m.flag = "pstart"
  BY <1>1, Step5Fields
<1>3. Made(p, m).pos.epSquare = q.epSquare
  <2>1. Made(p, m).pos = [q EXCEPT !.stm = Other(p.stm), !.key = HashSide(@)]
    BY Zenon, MadeSteps DEF Step6
  <2>2. q \in PositionType
    BY <1>2 DEF Sound
  <2> HIDE DEF q
  <2> QED
    BY <2>1, <2>2 DEF PositionType
<1>4. CASE m.flag # "pstart"
  <2>1. ~(/\ Rules!Type(p.board[m.from]) = 1
          /\ Rules!Abs(Rules!Ranks(m.from, m.to)) = 2)
    BY <1>4, Starting
  <2>2. q.epSquare = 0
    BY <1>2, <1>4
  <2> QED
    BY <1>3, <2>1, <2>2
<1>5. CASE m.flag = "pstart"
  <2>1. /\ Rules!Type(p.board[m.from]) = 1
        /\ Rules!Abs(Rules!Ranks(m.from, m.to)) = 2
        /\ p.board[m.from] = MakePiece(p.stm, PAWN)
        /\ Xor8(m.to) = passed
    BY <1>5, Starting
  <2>2. PieceTypeOf(p.board[m.from]) = PAWN
    BY <1>1, <1>5, MoveFacts
  <2>3. q = PawnSpecifics(s, m, MovedNo(p, m))
    BY <2>2 DEF Step5
  <2>4. AtStep4(p, m, s)
    BY <1>1, AtStep4Holds
  <2> HIDE DEF q, s
  <2>5. /\ Sound(s) /\ s.stm = p.stm /\ s.epSquare = 0 /\ s.board = Board4(p, m)
        /\ s \in PositionType
    BY <2>4 DEF AtStep4, StepOk, Sound
  <2>6. Board5(p, m) = Board4(p, m)
    BY <1>1, <1>5 DEF Board5, MoveOk
  <2>7. Xor8(m.to) \in Square
    BY <1>1, Xor8Facts
  <2>8. q = IF PawnAttacks[s.stm][Xor8(m.to)] \cap ColorPieceBB(s, Other(s.stm), PAWN) # {}
            THEN [s EXCEPT !.epSquare = Xor8(m.to), !.key = HashEP(@, Xor8(m.to))]
            ELSE s
    BY <1>5, <2>3 DEF PawnSpecifics
  <2>9. q.epSquare = IF RulesTakes(s.board, s.stm, Xor8(m.to)) THEN Xor8(m.to) ELSE 0
    <3>1. PawnAttacks[s.stm][Xor8(m.to)] \cap ColorPieceBB(s, Other(s.stm), PAWN) # {}
            <=> RulesTakes(s.board, s.stm, Xor8(m.to))
      BY <2>5, <2>7, PawnTakes
    <3>2. [s EXCEPT !.epSquare = Xor8(m.to), !.key = HashEP(@, Xor8(m.to))].epSquare = Xor8(m.to)
      BY <2>5 DEF PositionType
    <3> QED
      BY <2>5, <2>8, <3>1, <3>2
  <2> QED
    BY <1>3, <2>1, <2>5, <2>6, <2>9
<1> QED
  BY <1>4, <1>5

\* MakeMove (makemove.cpp) plays the move the rules call by its squares and
\* its promotion: squares, side to move, en passant square, rights and
\* counter are those of the rules.
THEOREM MadeByRules ==
  ASSUME NEW p, Good(p), NEW m, ByRules(p, m)
  PROVE  Core(Made(p, m).pos) = Rules!After(Core(p), CoreMove(m))
<1> DEFINE q == Made(p, m).pos
           passed == (m.from + m.to) \div 2
           b == Board5(p, m)
           stays == {x \in p.castlingRights :
                       {Rules!King(x), Rules!Rook(x)} \cap {m.from, m.to} = {}}
           ep == IF /\ Rules!Type(p.board[m.from]) = 1
                    /\ Rules!Abs(Rules!Ranks(m.from, m.to)) = 2
                    /\ RulesTakes(b, p.stm, passed)
                 THEN passed ELSE 0
           n == IF Rules!Type(p.board[m.from]) = 1 \/ p.board[m.to] # 0
                THEN 0 ELSE p.rule50 + 1
<1>1. MoveOk(p, m)
  BY ByRulesOk
<1>2. q.board = b /\ q.stm = 1 - p.stm /\ q.castlingRights = stays
  BY <1>1, MadeFields, RightsAfter DEF Moved, Other
<1>3. q.epSquare = ep
  BY EpAfter
<1>4. q.rule50 = n
  <2>1. m.capt = p.board[m.to]
    BY <1>1 DEF MoveOk
  <2> QED
    BY <1>1, <2>1, CounterMade DEF PieceTypeOf, Rules!Type, PAWN, EMPTY
<1>5. Core(q) = [board |-> b, stm |-> 1 - p.stm, ep |-> ep, rights |-> stays,
                 rule50 |-> n]
  <2> HIDE DEF q, b, stays, ep, n
  <2> QED
    BY <1>2, <1>3, <1>4 DEF Core
<1>6. Rules!After(Core(p), CoreMove(m)) =
        [board |-> b, stm |-> 1 - p.stm, ep |-> ep, rights |-> stays, rule50 |-> n]
  <2>1. /\ CoreMove(m).from = m.from /\ CoreMove(m).to = m.to
        /\ CoreMove(m).promo = m.promo
    BY DEF CoreMove
  <2>2. RulesBoard(Core(p).board, Core(p).rights, Core(p).stm, CoreMove(m).from,
                   CoreMove(m).to, CoreMove(m).promo) = b
    BY <2>1, CoreFields, BoardAfter
  <2> HIDE DEF b
  <2> QED
    BY <2>1, <2>2, CoreFields, AfterParts
<1> QED
  BY <1>5, <1>6

-----------------------------------------------------------------------------
(* The refinement of Game.                                                 *)

\* The bound of one of the positions set up is the largest.
LEMMA LongestLine ==
  ASSUME NEW start \in Fens
  PROVE  /\ Max({f.plies : f \in Fens}) \in Nat
         /\ start.plies <= Max({f.plies : f \in Fens})
<1> DEFINE lengths == {f.plies : f \in Fens}
           n == Cardinality(Fens)
<1>1. \A f \in Fens : f.plies \in Nat
  BY PositionAssumption
<1>2. n \in Nat /\ \E g : g \in Bijection(1..n, Fens)
  BY FensFinite, FS_CardinalityType DEF ExistsBijection
<1>3. PICK g : g \in Bijection(1..n, Fens)
  BY <1>2
<1>4. /\ g \in [1..n -> Fens] /\ \A f \in Fens : \E i \in 1..n : g[i] = f
  BY <1>3 DEF Bijection, Injection, Surjection
<1> HIDE DEF n
<1> DEFINE Top(k) == \E i \in 1..k : \A j \in 1..k : g[j].plies <= g[i].plies
           T == {k \in Nat : k \in 1..n /\ ~Top(k)}
<1>5. n >= 1
  BY <1>2, <1>4
<1>6. T = {}
  <2> SUFFICES ASSUME T # {}
               PROVE  FALSE
    OBVIOUS
  <2> HIDE DEF Top
  <2>1. PICK k \in T : \A l \in T : k <= l
    <3>1. T \in SUBSET Nat /\ T # {}
      OBVIOUS
    <3> HIDE DEF T
    <3> QED
      BY <3>1, Smallest
  <2>2. k \in 1..n /\ ~Top(k)
    BY <2>1
  <2>3. CASE k = 1
    <3>1. g[1].plies \in Nat
      BY <1>1, <1>4, <1>5
    <3> QED
      BY <2>2, <2>3, <3>1 DEF Top
  <2>4. CASE k # 1
    <3>1. k - 1 \in 1..n /\ k - 1 \in Nat /\ ~(k <= k - 1)
      BY <1>2, <2>2, <2>4
    <3>2. Top(k - 1)
      BY <2>1, <3>1
    <3>3. PICK i \in 1..(k - 1) : \A j \in 1..(k - 1) : g[j].plies <= g[i].plies
      BY <3>2 DEF Top
    <3>4. /\ \A j \in 1..k : g[j].plies \in Nat
          /\ \A j \in 1..k : j \in 1..(k - 1) \/ j = k
          /\ i \in 1..k /\ k \in 1..k
      BY <1>1, <1>2, <1>4, <2>2, <3>1
    <3>5. CASE g[k].plies <= g[i].plies
      BY <2>2, <3>3, <3>4, <3>5 DEF Top
    <3>6. CASE ~(g[k].plies <= g[i].plies)
      <4>1. \A j \in 1..k : g[j].plies <= g[k].plies
        BY <3>3, <3>4, <3>6
      <4> QED
        BY <2>2, <3>4, <4>1 DEF Top
    <3> QED
      BY <3>5, <3>6
  <2> QED
    BY <2>3, <2>4
<1>7. Top(n)
  <2> HIDE DEF Top
  <2>1. n \in Nat /\ n \in 1..n
    BY <1>2, <1>5
  <2> QED
    BY <1>6, <2>1
<1>8. PICK i \in 1..n : \A j \in 1..n : g[j].plies <= g[i].plies
  BY <1>7
<1>9. /\ g[i].plies \in lengths /\ \A y \in lengths : g[i].plies >= y
      /\ lengths \subseteq Nat /\ start.plies \in lengths
  <2>1. g[i].plies \in lengths
    BY <1>4
  <2>2. \A f \in Fens : g[i].plies >= f.plies
    BY <1>1, <1>4, <1>8
  <2> QED
    BY <1>1, <2>1, <2>2
<1> HIDE DEF lengths, Top, T
<1>10. Max(lengths) \in lengths /\ \A y \in lengths : Max(lengths) >= y
  BY <1>9 DEF Max
<1> QED
  BY <1>9, <1>10 DEF lengths

\* The line of play, as a function of what the thread keeps.
LineOf(b, p) == [k \in 1..(Len(b) + 1) |-> Core(IF k <= Len(b) THEN b[k] ELSE p)]
\* The positions on it.
Cores(b, p) == {Core(p)} \cup {Core(b[k]) : k \in 1..Len(b)}

LEMMA LineOfFacts ==
  ASSUME NEW b \in Seq(PositionType), NEW p
  PROVE  /\ LineOf(b, p) \in Seq(Cores(b, p)) /\ Len(LineOf(b, p)) = Len(b) + 1
         /\ \A k \in 1..Len(b) : LineOf(b, p)[k] = Core(b[k])
         /\ LineOf(b, p)[Len(b) + 1] = Core(p)
<1>1. Len(b) \in Nat
  OBVIOUS
<1>2. \A k \in 1..(Len(b) + 1) :
        LineOf(b, p)[k] = (IF k <= Len(b) THEN Core(b[k]) ELSE Core(p))
  BY <1>1 DEF LineOf
<1>3. \A k \in 1..(Len(b) + 1) : LineOf(b, p)[k] \in Cores(b, p)
  BY <1>1, <1>2 DEF Cores
<1>4. LineOf(b, p) \in [1..(Len(b) + 1) -> Cores(b, p)]
  <2>1. LineOf(b, p) = [k \in 1..(Len(b) + 1) |-> LineOf(b, p)[k]]
    BY DEF LineOf
  <2> QED
    BY <1>3, <2>1
<1>5. LineOf(b, p) \in Seq(Cores(b, p)) /\ Len(LineOf(b, p)) = Len(b) + 1
  BY <1>1, <1>4
<1> QED
  BY <1>1, <1>2, <1>5

LEMMA LineGrows ==
  ASSUME NEW b \in Seq(PositionType), NEW p \in PositionType, NEW q
  PROVE  LineOf(Append(b, p), q) = Append(LineOf(b, p), Core(q))
<1> DEFINE c == Append(b, p)
           cores == Cores(b, p) \cup {Core(q)}
           s == LineOf(c, q)
           t == Append(LineOf(b, p), Core(q))
<1>1. /\ c \in Seq(PositionType) /\ Len(c) = Len(b) + 1 /\ Len(b) \in Nat
      /\ \A k \in 1..Len(b) : c[k] = b[k]
      /\ c[Len(b) + 1] = p
  OBVIOUS
<1> HIDE DEF c
<1>2. /\ s \in Seq(Cores(c, q)) /\ Len(s) = Len(b) + 2
      /\ \A k \in 1..(Len(b) + 1) : s[k] = Core(c[k])
      /\ s[Len(b) + 2] = Core(q)
  <2>1. /\ s \in Seq(Cores(c, q)) /\ Len(s) = Len(c) + 1
        /\ \A k \in 1..Len(c) : s[k] = Core(c[k])
        /\ s[Len(c) + 1] = Core(q)
    BY <1>1, LineOfFacts
  <2>2. Len(c) = Len(b) + 1 /\ Len(c) + 1 = Len(b) + 2
    BY <1>1
  <2> HIDE DEF s
  <2> QED
    BY <2>1, <2>2
<1>3. Cores(c, q) \subseteq cores
  BY <1>1 DEF Cores
<1>4. s \in Seq(cores)
  BY <1>2, <1>3, SeqMonotonic
<1>5. /\ LineOf(b, p) \in Seq(cores) /\ Len(LineOf(b, p)) = Len(b) + 1
      /\ \A k \in 1..Len(b) : LineOf(b, p)[k] = Core(b[k])
      /\ LineOf(b, p)[Len(b) + 1] = Core(p)
  BY LineOfFacts, SeqMonotonic
<1> DEFINE l == LineOf(b, p)
<1> HIDE DEF s, l, cores
<1>6. /\ t \in Seq(cores) /\ Len(t) = Len(b) + 2
      /\ \A k \in 1..(Len(b) + 1) : t[k] = l[k]
      /\ t[Len(b) + 2] = Core(q)
  <2>1. Core(q) \in cores /\ l \in Seq(cores) /\ Len(l) = Len(b) + 1 /\ t = Append(l, Core(q))
    BY <1>5 DEF cores, l
  <2> HIDE DEF t
  <2> QED
    BY <1>1, <2>1
<1> HIDE DEF t
<1>7. \A k \in 1..(Len(b) + 2) : s[k] = t[k]
  <2> TAKE k \in 1..(Len(b) + 2)
  <2>1. k \in 1..Len(b) \/ k = Len(b) + 1 \/ k = Len(b) + 2
    BY <1>1
  <2>2. CASE k \in 1..Len(b)
    BY <1>1, <1>2, <1>5, <1>6, <2>2 DEF l
  <2>3. CASE k = Len(b) + 1
    BY <1>1, <1>2, <1>5, <1>6, <2>3 DEF l
  <2>4. CASE k = Len(b) + 2
    BY <1>2, <1>6, <2>4
  <2> QED
    BY <2>1, <2>2, <2>3, <2>4
<1>8. s = t
  BY <1>2, <1>4, <1>6, <1>7, SeqEqual
<1> QED
  BY <1>8 DEF s, t, l, c

LEMMA LineShrinks ==
  ASSUME NEW b \in Seq(PositionType), NEW p, Len(b) > 0
  PROVE  LineOf(Front(b), Last(b)) = SubSeq(LineOf(b, p), 1, Len(LineOf(b, p)) - 1)
<1> DEFINE c == Front(b)
           cores == Cores(b, p)
           l == LineOf(b, p)
           s == LineOf(c, Last(b))
           t == SubSeq(l, 1, Len(b))
<1>1. /\ c \in Seq(PositionType) /\ Len(c) = Len(b) - 1 /\ Len(b) \in Nat
      /\ \A k \in 1..(Len(b) - 1) : c[k] = b[k]
      /\ Last(b) = b[Len(b)]
  <2>1. Len(b) \in Nat /\ Last(b) = b[Len(b)]
    BY DEF Last
  <2>2. PICK n \in Nat : Len(b) = n + 1
    <3>1. Len(b) - 1 \in Nat /\ Len(b) = (Len(b) - 1) + 1
      BY <2>1
    <3> QED
      BY <3>1
  <2>3. c = SubSeq(b, 1, n)
    BY <2>2 DEF Front
  <2>4. \A i \in 1..n : b[i] \in PositionType
    BY <2>2
  <2> HIDE DEF c
  <2>5. /\ c \in Seq(PositionType) /\ Len(c) = n
        /\ \A i \in 1..n : c[i] = b[i]
    <3>1. /\ c \in Seq(PositionType) /\ Len(c) = IF 1 <= n THEN n - 1 + 1 ELSE 0
          /\ \A i \in 1..(n - 1 + 1) : c[i] = b[1 + i - 1]
      BY <2>2, <2>3, <2>4, SubSeqProperties
    <3>2. n - 1 + 1 = n /\ (IF 1 <= n THEN n - 1 + 1 ELSE 0) = n
      BY <2>2
    <3>3. \A i \in 1..n : b[1 + i - 1] = b[i]
      <4> TAKE i \in 1..n
      <4>1. 1 + i - 1 = i
        BY <2>2
      <4> QED
        BY <4>1
    <3>4. \A i \in 1..n : c[i] = b[1 + i - 1]
      BY <3>1, <3>2, Zenon
    <3>5. Len(c) = n
      BY <3>1, <3>2, Zenon
    <3> QED
      BY <3>1, <3>3, <3>4, <3>5, Zenon
  <2> QED
    BY <2>1, <2>2, <2>5
<1>2. /\ l \in Seq(cores) /\ Len(l) = Len(b) + 1
      /\ \A k \in 1..Len(b) : l[k] = Core(b[k])
  BY LineOfFacts
<1> HIDE DEF c, l, cores
<1>3. /\ s \in Seq(Cores(c, Last(b))) /\ Len(s) = Len(b)
      /\ \A k \in 1..(Len(b) - 1) : s[k] = Core(c[k])
      /\ s[Len(b)] = Core(Last(b))
  BY <1>1, LineOfFacts
<1>4. \A k \in 1..Len(b) : s[k] = Core(b[k])
  <2> TAKE k \in 1..Len(b)
  <2>1. CASE k = Len(b)
    BY <1>1, <1>3, <2>1
  <2>2. CASE k # Len(b)
    BY <1>1, <1>3, <2>2
  <2> QED
    BY <2>1, <2>2
<1>5. Cores(c, Last(b)) \subseteq cores
  BY <1>1 DEF Cores, cores
<1>6. s \in Seq(cores)
  BY <1>3, <1>5, SeqMonotonic
<1>7. /\ t \in Seq(cores) /\ Len(t) = Len(b)
      /\ \A k \in 1..Len(b) : t[k] = l[k]
  BY <1>1, <1>2
<1> HIDE DEF s, t
<1>8. s = t
  BY <1>2, <1>3, <1>4, <1>6, <1>7, SeqEqual
<1>9. Len(l) - 1 = Len(b)
  BY <1>1, <1>2
<1> QED
  BY <1>8, <1>9 DEF s, t, l, c

-----------------------------------------------------------------------------
(* The steps.  The bound is always that of one of the positions set up.    *)

\* The invariant, and where the bound came from.
PlyInv == IInv /\ maxPly \in {f.plies : f \in Fens}

LEMMA LineIs ==
  ASSUME IInv
  PROVE  /\ Line = LineOf(before, pos)
         /\ before \in Seq(PositionType) /\ Len(before) = Len(gameHistory)
         /\ Good(pos) /\ pos \in PositionType
<1>1. /\ before \in Seq(PositionType) /\ Len(before) = Len(gameHistory)
      /\ Good(pos)
  BY DEF IInv, LineOk
<1>2. pos \in PositionType
  BY <1>1 DEF Good, Sound
<1> QED
  BY <1>1, <1>2 DEF Line, LineOf, histPly

LEMMA LineIsNext ==
  ASSUME IInv'
  PROVE  Line' = LineOf(before', pos')
<1>1. before' \in Seq(PositionType) /\ Len(before') = Len(gameHistory')
  BY DEF IInv, LineOk
<1> QED
  BY <1>1 DEF Line, LineOf, histPly

LEMMA CurrentIs ==
  ASSUME IInv
  PROVE  Rules!Current = Core(pos) /\ Len(Line) = Len(gameHistory) + 1
<1>1. /\ Line = LineOf(before, pos)
      /\ before \in Seq(PositionType) /\ Len(before) = Len(gameHistory)
  BY LineIs
<1>2. /\ Len(LineOf(before, pos)) = Len(before) + 1
      /\ LineOf(before, pos)[Len(before) + 1] = Core(pos)
  BY <1>1, LineOfFacts
<1>3. Len(Line) = Len(before) + 1 /\ Line[Len(before) + 1] = Core(pos)
  BY <1>1, <1>2
<1> HIDE DEF Line
<1> QED
  BY <1>1, <1>3 DEF Rules!Current

LEMMA StepPlyInv ==
  ASSUME PlyInv, [Next]_vars
  PROVE  PlyInv'
<1>1. IInv /\ maxPly \in {f.plies : f \in Fens}
  BY DEF PlyInv
<1>2. IInv'
  BY <1>1, StepIInv
<1>3. maxPly' = maxPly
  BY <1>1, StepCases DEF Advanced, WentBack, vars
<1> QED
  BY <1>1, <1>2, <1>3 DEF PlyInv

LEMMA InitPlyInv == Init => PlyInv
<1> SUFFICES ASSUME Init PROVE PlyInv
  OBVIOUS
<1>1. IInv
  BY InitIInv
<1>2. maxPly \in {f.plies : f \in Fens}
  BY DEF Init
<1> QED
  BY <1>1, <1>2 DEF PlyInv

LEMMA LineStarts == Init => Rules!Init
<1> SUFFICES ASSUME Init PROVE Rules!Init
  OBVIOUS
<1>1. PICK f \in Fens : pos = ParseFen(f)
  BY DEF Init
<1>2. before = <<>> /\ IInv
  BY InitIInv DEF Init
<1>3. Line = LineOf(<<>>, pos) /\ <<>> \in Seq(PositionType)
  BY <1>2, LineIs
<1>4. LineOf(<<>>, pos) = <<Core(pos)>>
  <2>0. Len(<<>>) = 0 /\ Len(<<>>) + 1 = 1
    OBVIOUS
  <2>1. LineOf(<<>>, pos) \in Seq(Cores(<<>>, pos)) /\ Len(LineOf(<<>>, pos)) = 1
    <3>1. /\ LineOf(<<>>, pos) \in Seq(Cores(<<>>, pos))
          /\ Len(LineOf(<<>>, pos)) = Len(<<>>) + 1
      BY <1>3, LineOfFacts, Zenon
    <3> QED
      BY <2>0, <3>1, Zenon
  <2>2. LineOf(<<>>, pos)[1] = Core(pos)
    <3>1. LineOf(<<>>, pos)[Len(<<>>) + 1] = Core(pos)
      BY <1>3, LineOfFacts, Zenon
    <3> QED
      BY <2>0, <3>1, Zenon
  <2> DEFINE l == LineOf(<<>>, pos)
             x == Core(pos)
  <2> HIDE DEF l, x
  <2>3. l \in Seq(Cores(<<>>, pos)) /\ Len(l) = 1 /\ l[1] = x
    BY <2>1, <2>2 DEF l, x
  <2>4. l = <<x>>
    BY <2>3
  <2> QED
    BY <2>4 DEF l, x
<1>5. Line = <<Core(ParseFen(f))>>
  BY <1>1, <1>3, <1>4
<1> QED
  BY <1>5 DEF Rules!Init

LEMMA LineAdvances ==
  ASSUME PlyInv, IInv', NEW st, NEW q, Advanced(st, q)
  PROVE  /\ Line' = Append(Line, Core(q))
         /\ Len(Line) <= Max({f.plies : f \in Fens})
<1>1. IInv /\ maxPly \in {f.plies : f \in Fens}
  BY DEF PlyInv
<1>2. /\ Line = LineOf(before, pos) /\ before \in Seq(PositionType)
      /\ pos \in PositionType
  BY <1>1, LineIs
<1>3. Line' = LineOf(Append(before, pos), q)
  BY LineIsNext DEF Advanced
<1>4. LineOf(Append(before, pos), q) = Append(LineOf(before, pos), Core(q))
  BY <1>2, LineGrows
<1>5. PICK start \in Fens : maxPly = start.plies
  BY <1>1
<1>6. /\ Len(Line) = Len(gameHistory) + 1 /\ Len(gameHistory) < maxPly
      /\ Len(gameHistory) \in Nat /\ maxPly \in Nat
  BY <1>1, CurrentIs DEF Advanced, IInv, LineOk
<1> DEFINE top == Max({f.plies : f \in Fens})
           n == Len(Line)
<1>7. top \in Nat /\ maxPly <= top
  BY <1>5, LongestLine
<1> HIDE DEF top, n
<1>8. n <= top
  <2>1. n = Len(gameHistory) + 1
    BY <1>6 DEF n
  <2> QED
    BY <1>6, <1>7, <2>1
<1> QED
  BY <1>2, <1>3, <1>4, <1>8 DEF top, n

\* A move that stays is a move of the rules, and leaves no king in check.
LEMMA MoveIsPlay ==
  ASSUME PlyInv, IInv', NEW st, NEW q, Advanced(st, q),
         NEW m \in Generated(pos), q = Made(pos, m).pos
  PROVE  Rules!Play
<1>1. IInv /\ Good(pos)
  BY LineIs DEF PlyInv
<1>2. ByRules(pos, m)
  BY <1>1, GeneratedByRules
<1> DEFINE r == CoreMove(m)
           c == Core(pos)
<1>3. r \in Rules!Moves(c)
  BY <1>1, <1>2, MoveRuled
<1>4. Core(q) = Rules!After(c, r)
  BY <1>1, <1>2, MadeByRules
<1>5. Rules!Current = c
  BY <1>1, CurrentIs
<1>6. /\ Line' = Append(Line, Core(q))
      /\ Len(Line) <= Max({f.plies : f \in Fens})
  BY LineAdvances
<1>7. Good(q)
  BY DEF Advanced
<1>8. Other(q.stm) = pos.stm /\ c.stm = pos.stm
  <2>1. Core(q).stm = q.stm /\ c.stm = pos.stm
    BY CoreFields
  <2>2. Rules!After(c, r).stm = 1 - c.stm
    BY DEF Rules!After
  <2>3. pos.stm \in Colors
    BY <1>1, PositionParts DEF Good, Sound
  <2>4. q.stm = 1 - pos.stm
    BY <1>4, <2>1, <2>2
  <2> QED
    BY <2>1, <2>3, <2>4 DEF Other, Colors, WHITE, BLACK
<1>9. ~Rules!InCheck(Rules!After(c, r).board, c.stm)
  <2>1. Sound(q) /\ ~KingAttacked(q, Other(q.stm))
    BY <1>7 DEF Good
  <2>2. pos.stm \in Colors
    BY <1>1, PositionParts DEF Good, Sound
  <2>3. ~Rules!InCheck(q.board, pos.stm)
    BY <1>8, <2>1, <2>2, KingInCheck
  <2>4. Rules!After(c, r).board = q.board
    <3>1. Core(q).board = q.board
      BY CoreFields
    <3> QED
      BY <1>4, <3>1
  <2> QED
    BY <1>8, <2>3, <2>4
<1> HIDE DEF r, c, Line
<1> QED
  BY <1>3, <1>4, <1>5, <1>6, <1>9 DEF Rules!Play

\* The turn is passed only when the king is not in check.
LEMMA NullMoveIsPass ==
  ASSUME PlyInv, IInv', NEW st, NEW q, Advanced(st, q),
         ~KingAttacked(pos, pos.stm), q = NullMoved(pos)
  PROVE  Rules!Pass
<1>1. IInv /\ Good(pos)
  BY LineIs DEF PlyInv
<1>2. Rules!Current = Core(pos)
  BY <1>1, CurrentIs
<1>3. /\ Line' = Append(Line, Core(q))
      /\ Len(Line) <= Max({f.plies : f \in Fens})
  BY LineAdvances
<1>4. pos.stm \in Colors /\ Sound(pos)
  BY <1>1, PositionParts DEF Good, Sound
<1>5. ~Rules!InCheck(Core(pos).board, Core(pos).stm)
  <2>1. Core(pos).board = pos.board /\ Core(pos).stm = pos.stm
    BY CoreFields
  <2> QED
    BY <1>4, <2>1, KingInCheck
<1>6. Core(q) = [Core(pos) EXCEPT !.stm = 1 - @, !.ep = 0, !.rule50 = 0]
  <2>1. /\ q.board = pos.board /\ q.stm = Other(pos.stm) /\ q.epSquare = 0
        /\ q.castlingRights = pos.castlingRights /\ q.rule50 = 0
    <3>1. /\ q.board = pos.board /\ q.stm = Other(pos.stm) /\ q.epSquare = 0
          /\ q.castlingRights = pos.castlingRights
      BY <1>1, NullMoveFields
    <3>2. q.rule50 = 0
      <4>1. pos \in PositionType
        BY <1>4 DEF Sound
      <4> QED
        BY <4>1 DEF NullMoved, PositionType
    <3> QED
      BY <3>1, <3>2
  <2>2. Other(pos.stm) = 1 - pos.stm
    BY <1>4 DEF Other, Colors, WHITE, BLACK
  <2>3. Core(q) = [board |-> pos.board, stm |-> 1 - pos.stm, ep |-> 0,
                   rights |-> pos.castlingRights, rule50 |-> 0]
    BY <2>1, <2>2 DEF Core
  <2> DEFINE c == Core(pos)
             turn == 1 - pos.stm
  <2>4. c = [board |-> pos.board, stm |-> pos.stm, ep |-> pos.epSquare,
             rights |-> pos.castlingRights, rule50 |-> pos.rule50]
    BY DEF Core
  <2>5. c.stm = pos.stm
    BY CoreFields
  <2> HIDE DEF c, turn
  <2>6. [c EXCEPT !.stm = turn, !.ep = 0, !.rule50 = 0]
        = [board |-> pos.board, stm |-> turn, ep |-> 0,
           rights |-> pos.castlingRights, rule50 |-> 0]
    <3> DEFINE b == pos.board
               s == pos.stm
               e == pos.epSquare
               r == pos.castlingRights
               n == pos.rule50
    <3>1. c = [board |-> b, stm |-> s, ep |-> e, rights |-> r, rule50 |-> n]
      BY <2>4, Zenon
    <3> HIDE DEF b, s, e, r, n
    <3> DEFINE C(u, v, w) == [board |-> b, stm |-> u, ep |-> v, rights |-> r,
                              rule50 |-> w]
               c1 == [c  EXCEPT !.stm = turn]
               c2 == [c1 EXCEPT !.ep = 0]
               c3 == [c2 EXCEPT !.rule50 = 0]
    <3>2. c1 = C(turn, e, n)
      BY <3>1, SMT
    <3> HIDE DEF c1
    <3>3. c2 = C(turn, 0, n)
      BY <3>2, SMT
    <3> HIDE DEF c2
    <3>4. c3 = C(turn, 0, 0)
      BY <3>3, SMT
    <3>5. [c EXCEPT !.stm = turn, !.ep = 0, !.rule50 = 0] = c3
      BY SMT DEF c1, c2
    <3>6. [c EXCEPT !.stm = turn, !.ep = 0, !.rule50 = 0] = C(turn, 0, 0)
      BY <3>4, <3>5, Zenon
    <3> QED
      BY <3>6, Zenon DEF b, r
  <2>7. [c EXCEPT !.stm = 1 - @, !.ep = 0, !.rule50 = 0]
        = [c EXCEPT !.stm = turn, !.ep = 0, !.rule50 = 0]
    BY <2>5 DEF turn
  <2>8. Core(q) = [board |-> pos.board, stm |-> turn, ep |-> 0,
                   rights |-> pos.castlingRights, rule50 |-> 0]
    BY <2>3, Zenon DEF turn
  <2>9. Core(q) = [c EXCEPT !.stm = 1 - @, !.ep = 0, !.rule50 = 0]
    BY <2>6, <2>7, <2>8, Zenon
  <2> QED
    BY <2>9, Zenon DEF c
<1> HIDE DEF Line
<1> QED
  BY <1>2, <1>3, <1>5, <1>6 DEF Rules!Pass

LEMMA BackIsTakeBack ==
  ASSUME PlyInv, IInv', WentBack
  PROVE  Rules!TakeBack
<1>1. /\ Line = LineOf(before, pos) /\ before \in Seq(PositionType)
      /\ Len(before) = Len(gameHistory) /\ IInv
  BY LineIs DEF PlyInv
<1>2. Line' = LineOf(Front(before), Last(before))
  BY LineIsNext DEF WentBack
<1>3. Len(before) > 0 /\ Len(before) \in Nat
  BY <1>1 DEF WentBack
<1>4. LineOf(Front(before), Last(before)) =
        SubSeq(LineOf(before, pos), 1, Len(LineOf(before, pos)) - 1)
  BY <1>1, <1>3, LineShrinks
<1>5. Len(Line) > 1
  <2>1. Len(Line) = Len(before) + 1
    BY <1>1, CurrentIs
  <2> HIDE DEF Line
  <2> QED
    BY <1>3, <2>1
<1>6. Line' = SubSeq(Line, 1, Len(Line) - 1)
  BY <1>1, <1>2, <1>4
<1> HIDE DEF Line
<1> QED
  BY <1>5, <1>6 DEF Rules!TakeBack

LEMMA StepByRules ==
  ASSUME PlyInv, [Next]_vars
  PROVE  [Rules!Next]_Line
<1>1. IInv /\ IInv'
  BY StepIInv DEF PlyInv
<1>2. ASSUME NEW st, NEW q, Advanced(st, q)
      PROVE  Rules!Play \/ Rules!Pass
  <2>1. Link(pos, st, q)
    BY <1>2 DEF Advanced
  <2>2. CASE \E m \in Generated(pos) : q = Made(pos, m).pos
    BY <1>1, <1>2, <2>2, MoveIsPlay
  <2>3. CASE ~KingAttacked(pos, pos.stm) /\ q = NullMoved(pos)
    BY <1>1, <1>2, <2>3, NullMoveIsPass
  <2> QED
    BY <2>1, <2>2, <2>3 DEF Link
<1>3. CASE WentBack
  BY <1>1, <1>3, BackIsTakeBack DEF Rules!Next
<1>4. CASE UNCHANGED vars
  <2>1. Line' = Line
    BY <1>4 DEF vars, Line, histPly
  <2> QED
    BY <2>1
<1> QED
  BY <1>1, <1>2, <1>3, <1>4, StepCases DEF Rules!Next

\* Whatever is set up, whatever is made and taken back, in any order and to
\* any depth, is play under the rules of chess: makemove.cpp with all its
\* copies implements Game, which has none.
THEOREM PlayFollowsRules == Spec => PlaysByRules
<1>1. Init => PlyInv /\ Rules!Init
  BY InitPlyInv, LineStarts
<1>2. PlyInv /\ [Next]_vars => PlyInv' /\ [Rules!Next]_Line
  BY StepPlyInv, StepByRules
<1> QED
  BY <1>1, <1>2, PTL DEF Spec, PlaysByRules, Rules!Spec
=============================================================================

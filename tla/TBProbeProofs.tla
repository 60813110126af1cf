---------------------------- MODULE TBProbeProofs ----------------------------
(***************************************************************************)
(* Proofs about TBProbe, for any limit of the 50 move rule and any number  *)
(* of legal moves: probe_ab and probe_wdl find the value of the position,  *)
(* probe_dtz the distance up to one ply, and probe_root a move that keeps  *)
(* the value.                                                              *)
(***************************************************************************)
EXTENDS TBProbe, WellFoundedInduction, TLAPS

\* What a move is worth in classes, and the moves the functions look at.
X(m) == Wdl(Worth(m))
NonEp == {m \in moves : m.kind # "ep"}
Captures == {m \in moves : is_capture(m)}
Quiets == {m \in moves : m.kind = "quiet"}
SameSign(a, b) == (a > 0 /\ b > 0) \/ (a < 0 /\ b < 0)

\* What probe_root may have found out about a move.
Close(m, s) ==
  s \in Promised_dtz(Worth(m)) /\ (m.kind = "quiet" /\ ~m.mate => s # 1 /\ s # -1)

Position ==
  /\ moves \subseteq LegalMove /\ check \in BOOLEAN /\ exact \in BOOLEAN
  /\ \A m \in Quiets : MayBeHere(m.dtz)
  /\ cnt50 \in 0..Limit /\ todo \subseteq moves

\* Before a value is known the locals are those of the caller, and nothing is
\* known that is not true.
Known ==
  /\ pc \in {"setup", "ab", "wdl"} => wdl = Nothing /\ success = 1
  /\ pc \in {"setup", "ab", "wdl", "dtz", "ply"} => dtz = Nothing
  /\ wdl # Nothing => wdl = Wdl(Truth)
  /\ dtz # Nothing => wdl # Nothing /\ dtz \in Promised_dtz(Truth)

\* probe_ab has looked at the captures that are not left to look at, and has
\* raised alpha only to the value of one.
AbInv ==
  pc = "ab" =>
    /\ alpha \in -3..2 /\ beta \in -2..3 /\ alpha < beta /\ low \in -3..2
    /\ alpha = low \/ (low < alpha /\ alpha <= Wdl(Truth))
    /\ \A m \in moves : m.kind # "ep"
    /\ \A m \in Captures \ todo : X(m) <= alpha

\* And probe_wdl, which keeps the best en passant capture apart.
WdlInv ==
  /\ pc = "setup" => bestCap = -3 /\ bestEp = -3
  /\ pc = "wdl" =>
       /\ todo \subseteq Captures
       /\ bestCap \in -3..1 /\ bestEp \in -3..1
       /\ bestCap # -3 => \E m \in moves : m.kind = "capture" /\ X(m) = bestCap
       /\ bestEp # -3 => \E m \in moves : m.kind = "ep" /\ X(m) = bestEp
       /\ \A m \in Captures \ todo :
            /\ m.kind = "capture" => X(m) <= bestCap
            /\ m.kind = "ep" => X(m) <= bestEp \/ X(m) <= bestCap

\* probe_dtz is at the table: en passant does not matter, and a win is not by
\* a capture, nor by one of the pawn moves it has looked at.
DtzInv ==
  pc \in {"dtz", "ply"} =>
    /\ wdl = Wdl(Truth) /\ wdl # 0 /\ Truth = WithoutEp
    /\ wdl > 0 => \A m \in moves \ todo : m.kind \in Zeroing => X(m) < wdl
    /\ wdl < 0 /\ pc = "dtz" => todo = {}
    /\ pc = "dtz" => \A m \in todo : m.kind = "pawn"

\* Or it looks at the quiet moves: its distance is that of one of them and not
\* farther than that of any.
PlyInv ==
  pc = "ply" =>
    /\ todo \subseteq Quiets
    /\ best \in Int /\ best <= Start(wdl)
    /\ \/ best = Start(wdl)
       \/ \E m \in Quiets : SameSign(Worth(m), wdl) /\ best \in Promised_dtz(Worth(m))
    /\ \A m \in Quiets \ todo :
         SameSign(Worth(m), wdl) => \E c \in Promised_dtz(Worth(m)) : best <= c

RootInv ==
  pc = "root" =>
    /\ dtz # Nothing /\ DOMAIN scores = moves \ todo
    /\ \A m \in moves \ todo : Close(m, scores[m])

IInv ==
  /\ Position /\ Known /\ AbInv /\ WdlInv /\ DtzInv /\ PlyInv
  /\ (pc \in {"setup", "ab", "wdl", "dtz", "ply"} => scores = <<>>) /\ RootInv
  /\ WdlIsExact /\ DtzIsClose /\ RootKeepsValue
-----------------------------------------------------------------------------

\* A set of integers with a lower bound has a least element.
LEMMA MinOfNat ==
  ASSUME NEW S, S \subseteq Nat, S # {}
  PROVE  \E x \in S : \A y \in S : x <= y
<1>1. IsWellFoundedOn(OpToRel(<, Nat), Nat)
  BY NatLessThanWellFounded
<1>2. PICK x \in S : \A y \in S : ~(<<y, x>> \in OpToRel(<, Nat))
  BY <1>1, WFMin
<1>3. \A y \in S : ~(y < x)
  BY <1>2 DEF OpToRel
<1> QED
  BY <1>3

LEMMA MinExists ==
  ASSUME NEW S, S \subseteq Int, S # {}, NEW b \in Int, \A x \in S : b <= x
  PROVE  Min(S) \in S /\ \A y \in S : Min(S) <= y
<1> DEFINE N == {x - b : x \in S}
<1>1. N \subseteq Nat /\ N # {}
  <2>1. \A x \in S : x \in Int /\ b <= x
    OBVIOUS
  <2>2. \A x \in S : x - b \in Nat
    BY <2>1
  <2> QED
    BY <2>2
<1>2. PICK n \in N : \A y \in N : n <= y
  BY <1>1, MinOfNat
<1>3. PICK x \in S : n = x - b
  BY <1>2
<1>4. \A y \in S : x <= y
  BY <1>2, <1>3
<1> QED
  BY <1>3, <1>4 DEF Min

LEMMA MaxOfTwo ==
  ASSUME NEW a \in Int, NEW b \in Int
  PROVE  Max({a, b}) = IF a >= b THEN a ELSE b
<1>1. \E x \in {a, b} : \A y \in {a, b} : x >= y
  OBVIOUS
<1>2. Max({a, b}) \in {a, b} /\ \A y \in {a, b} : Max({a, b}) >= y
  BY <1>1 DEF Max
<1> QED
  BY <1>2

LEMMA LimitIs == Limit \in Nat /\ Limit > 0 /\ Nothing \notin Int
  BY LimitAssumption

\* The classes.
LEMMA WdlIs ==
  ASSUME NEW n \in Int
  PROVE  /\ n = 0 => Wdl(n) = 0
         /\ n > 0 /\ n <= Limit => Wdl(n) = 2
         /\ n > 0 /\ ~(n <= Limit) => Wdl(n) = 1
         /\ n < 0 /\ n >= -Limit => Wdl(n) = -2
         /\ n < 0 /\ ~(n >= -Limit) => Wdl(n) = -1
<1>1. CASE n = 0
  BY <1>1 DEF Wdl
<1>2. CASE n > 0
  BY <1>2 DEF Wdl
<1>3. CASE n < 0
  BY <1>3 DEF Wdl
<1> QED
  BY <1>1, <1>2, <1>3

LEMMA WdlType ==
  ASSUME NEW n \in Int
  PROVE  /\ Wdl(n) \in -2..2 /\ -Wdl(n) \in -2..2
         /\ (Wdl(n) > 0 <=> n > 0) /\ (Wdl(n) < 0 <=> n < 0) /\ (Wdl(n) = 0 <=> n = 0)
<1>1. n = 0 \/ (n > 0 /\ n <= Limit) \/ (n > 0 /\ ~(n <= Limit))
      \/ (n < 0 /\ n >= -Limit) \/ (n < 0 /\ ~(n >= -Limit))
  BY LimitIs
<1>2. \/ Wdl(n) = 0 /\ n = 0
      \/ Wdl(n) \in {1, 2} /\ n > 0
      \/ Wdl(n) \in {-1, -2} /\ n < 0
  BY <1>1, WdlIs
<1> QED
  BY <1>2

LEMMA WdlToDtzType ==
  ASSUME NEW w \in -2..2
  PROVE  /\ w = 2 => WdlToDtz(w) = 1
         /\ w = 1 => WdlToDtz(w) = Limit + 1
         /\ w = 0 => WdlToDtz(w) = 0
         /\ w = -1 => WdlToDtz(w) = -(Limit + 1)
         /\ w = -2 => WdlToDtz(w) = -1
         /\ WdlToDtz(w) \in {1, Limit + 1, 0, -(Limit + 1), -1}
         /\ WdlToDtz(w) \in Int /\ Wdl(WdlToDtz(w)) = w
<1>1. w = 2 => WdlToDtz(w) = 1
  BY DEF WdlToDtz
<1>2. w = 1 => WdlToDtz(w) = Limit + 1
  BY DEF WdlToDtz
<1>3. w = 0 => WdlToDtz(w) = 0
  BY DEF WdlToDtz
<1>4. w = -1 => WdlToDtz(w) = -(Limit + 1)
  BY DEF WdlToDtz
<1>5. w = -2 => WdlToDtz(w) = -1
  BY DEF WdlToDtz
<1>6. w = 2 \/ w = 1 \/ w = 0 \/ w = -1 \/ w = -2
  OBVIOUS
<1>7. /\ 1 \in Int /\ Limit + 1 \in Int /\ 0 \in Int /\ -(Limit + 1) \in Int /\ -1 \in Int
      /\ Wdl(1) = 2 /\ Wdl(Limit + 1) = 1 /\ Wdl(0) = 0 /\ Wdl(-(Limit + 1)) = -1 /\ Wdl(-1) = -2
  BY LimitIs, WdlIs
<1> QED
  BY <1>1, <1>2, <1>3, <1>4, <1>5, <1>6, <1>7

LEMMA WorthType ==
  ASSUME NEW m \in LegalMove
  PROVE  /\ m.dtz \in Int /\ m.mate \in BOOLEAN /\ m.kind \in Zeroing \union {"quiet"}
         /\ m.mate => m.dtz = -1
         /\ Worth(m) \in Int /\ Worth(m) >= -(Limit + 3) /\ Worth(m) <= Limit + 3
         /\ X(m) \in -2..2
<1>1. m.dtz \in Int /\ m.mate \in BOOLEAN /\ m.kind \in Zeroing \union {"quiet"}
      /\ (m.mate => m.dtz = -1) /\ m.dtz >= -(Limit + 2) /\ m.dtz <= Limit + 2
  <2>1. CASE m \in [kind : Zeroing, mate : {FALSE}, dtz : {WdlToDtz(w) : w \in -2..2}]
    <3>1. PICK w \in -2..2 : m.dtz = WdlToDtz(w)
      BY <2>1
    <3>2. m.dtz \in {1, Limit + 1, 0, -(Limit + 1), -1}
      BY <3>1, WdlToDtzType
    <3>3. m.kind \in Zeroing /\ m.mate = FALSE
      BY <2>1
    <3>4. m.mate \in BOOLEAN /\ ~m.mate
      BY <3>3
    <3>5. m.dtz \in Int /\ m.dtz >= -(Limit + 2) /\ m.dtz <= Limit + 2
      BY <3>2, LimitIs
    <3> QED
      BY <3>3, <3>4, <3>5
  <2>2. CASE m \in [kind : {"quiet"}, mate : {FALSE}, dtz : -(Limit + 2)..(Limit + 2)]
    <3>1. m.kind = "quiet" /\ m.mate = FALSE /\ m.dtz \in -(Limit + 2)..(Limit + 2)
      BY <2>2
    <3>2. m.mate \in BOOLEAN /\ ~m.mate
      BY <3>1
    <3>3. m.dtz \in Int /\ m.dtz >= -(Limit + 2) /\ m.dtz <= Limit + 2
      BY <3>1, LimitIs
    <3> QED
      BY <3>1, <3>2, <3>3
  <2>3. CASE m \in [kind : Zeroing \union {"quiet"}, mate : {TRUE}, dtz : {-1}]
    <3>1. m.kind \in Zeroing \union {"quiet"} /\ m.mate = TRUE /\ m.dtz = -1
      BY <2>3
    <3>2. m.mate \in BOOLEAN
      BY <3>1
    <3>3. m.dtz \in Int /\ m.dtz >= -(Limit + 2) /\ m.dtz <= Limit + 2
      BY <3>1, LimitIs
    <3> QED
      BY <3>1, <3>2, <3>3
  <2> QED
    BY <2>1, <2>2, <2>3 DEF LegalMove
<1>2. Worth(m) \in Int /\ Worth(m) >= -(Limit + 3) /\ Worth(m) <= Limit + 3
  <2>1. CASE m.mate
    BY <2>1, LimitIs DEF Worth
  <2>2. CASE ~m.mate /\ m.kind \in Zeroing
    <3>1. Worth(m) = WdlToDtz(-Wdl(m.dtz))
      BY <2>2 DEF Worth
    <3> QED
      BY <1>1, <3>1, WdlType, WdlToDtzType, LimitIs
  <2>3. CASE ~m.mate /\ m.kind \notin Zeroing
    <3>1. Worth(m) = OnePly(-m.dtz)
      BY <2>3 DEF Worth
    <3> QED
      BY <1>1, <3>1, LimitIs DEF OnePly
  <2> QED
    BY <1>1, <2>1, <2>2, <2>3
<1>3. X(m) \in -2..2
  BY <1>2, WdlType DEF X
<1> QED
  BY <1>1, <1>2, <1>3

\* After a capture or pawn move only its class counts.
LEMMA ZeroingWorth ==
  ASSUME NEW m \in LegalMove, m.kind \in Zeroing
  PROVE  Worth(m) = WdlToDtz(X(m))
<1>1. CASE m.mate
  <2>1. Worth(m) = 1
    BY <1>1 DEF Worth
  <2> QED
    BY <2>1, LimitIs DEF X, Wdl, WdlToDtz
<1>2. CASE ~m.mate
  <2>1. Worth(m) = WdlToDtz(-Wdl(m.dtz))
    BY <1>2 DEF Worth
  <2>2. -Wdl(m.dtz) \in -2..2
    BY WorthType, WdlType
  <2> QED
    BY <2>1, <2>2, WdlToDtzType DEF X
<1> QED
  BY <1>1, <1>2, WorthType

\* The value of a position is the worth of one of its moves, and no move is
\* better: it has the best class, and in it the shortest win or longest loss.
LEMMA ValueIs ==
  ASSUME NEW ms, ms \subseteq LegalMove, ms # {}, NEW c
  PROVE  /\ Value(ms, c) \in Int
         /\ \E m \in ms : Worth(m) = Value(ms, c)
         /\ \A m \in ms :
              /\ Value(ms, c) > 0 /\ Worth(m) > 0 => Value(ms, c) <= Worth(m)
              /\ Value(ms, c) = 0 => Worth(m) <= 0
              /\ Value(ms, c) < 0 => Worth(m) < 0 /\ Value(ms, c) <= Worth(m)
<1> DEFINE w == {Worth(m) : m \in ms}
           good == {n \in w : n > 0}
<1>1. w \subseteq Int /\ w # {} /\ \A n \in w : -(Limit + 3) <= n
  BY WorthType
<1>2. -(Limit + 3) \in Int
  BY LimitIs
<1>3. \A m \in ms : Worth(m) \in w
  OBVIOUS
<1>4. \A n \in w : \E m \in ms : Worth(m) = n
  OBVIOUS
<1>5. /\ (\E n \in w : n > 0) => Value(ms, c) = Min(good)
      /\ (\A n \in w : ~(n > 0)) /\ 0 \in w => Value(ms, c) = 0
      /\ (\A n \in w : ~(n > 0)) /\ 0 \notin w => Value(ms, c) = Min(w)
  <2>1. Value(ms, c) = CASE ms = {} -> IF c THEN -1 ELSE 0
                         [] \E n \in w : n > 0 -> Min(good)
                         [] ms # {} /\ (\A n \in w : n <= 0) /\ 0 \in w -> 0
                         [] OTHER -> Min(w)
    BY DEF Value
  <2>2. (\A n \in w : ~(n > 0)) <=> (\A n \in w : n <= 0)
    BY <1>1
  <2> HIDE DEF w, good
  <2> QED
    BY <2>1, <2>2
<1>6. CASE \E n \in w : n > 0
  <2> HIDE DEF w
  <2>1. good \subseteq Int /\ good # {} /\ \A n \in good : -(Limit + 3) <= n
    BY <1>1, <1>6
  <2>2. Min(good) \in good /\ \A n \in good : Min(good) <= n
    BY <1>2, <2>1, MinExists
  <2>3. Value(ms, c) = Min(good)
    BY <1>5, <1>6
  <2>4. \A m \in ms : Worth(m) \in Int /\ (Worth(m) > 0 => Min(good) <= Worth(m))
    BY <1>1, <1>3, <2>2
  <2>5. Min(good) \in Int /\ Min(good) > 0 /\ Min(good) \in w
    BY <1>1, <2>2
  <2>6. \E m \in ms : Worth(m) = Min(good)
    BY <1>4, <2>5
  <2> HIDE DEF good
  <2> QED
    BY <2>3, <2>4, <2>5, <2>6
<1>7. CASE (\A n \in w : ~(n > 0)) /\ 0 \in w
  <2> HIDE DEF w
  <2>1. Value(ms, c) = 0
    BY <1>1, <1>5, <1>7
  <2>2. \A m \in ms : Worth(m) \in Int /\ Worth(m) <= 0
    <3>1. \A n \in w : n \in Int /\ n <= 0
      BY <1>1, <1>7
    <3> QED
      BY <1>3, <3>1
  <2>3. \E m \in ms : Worth(m) = 0
    BY <1>4, <1>7
  <2> QED
    BY <2>1, <2>2, <2>3
<1>8. CASE (\A n \in w : ~(n > 0)) /\ 0 \notin w
  <2> HIDE DEF w
  <2>1. Value(ms, c) = Min(w)
    BY <1>5, <1>8
  <2>2. Min(w) \in w /\ \A n \in w : Min(w) <= n
    BY <1>1, <1>2, MinExists
  <2>3. \A n \in w : n < 0
    BY <1>1, <1>8
  <2>4. \A m \in ms : Worth(m) \in Int /\ Worth(m) < 0 /\ Min(w) <= Worth(m)
    BY <1>1, <1>3, <2>2, <2>3
  <2>5. Min(w) \in Int /\ Min(w) < 0 /\ \E m \in ms : Worth(m) = Min(w)
    BY <1>1, <1>4, <2>2, <2>3
  <2> QED
    BY <2>1, <2>4, <2>5
<1> QED
  BY <1>6, <1>7, <1>8

\* A value that is not worse is not in a worse class.
LEMMA WdlNotLess ==
  ASSUME NEW v \in Int, NEW n \in Int,
         (v > 0 /\ n > 0 => v <= n) /\ (v = 0 => n <= 0) /\ (v < 0 => n < 0 /\ v <= n)
  PROVE  Wdl(n) <= Wdl(v)
<1>1. CASE v > 0 /\ n > 0
  BY <1>1, WdlIs, LimitIs
<1>2. CASE v > 0 /\ ~(n > 0)
  <2>1. Wdl(v) > 0 /\ ~(Wdl(n) > 0) /\ Wdl(v) \in Int /\ Wdl(n) \in Int
    BY <1>2, WdlType
  <2> QED
    BY <2>1
<1>3. CASE v = 0
  <2>1. Wdl(v) = 0 /\ ~(Wdl(n) > 0) /\ Wdl(n) \in Int
    BY <1>3, WdlType
  <2> QED
    BY <2>1
<1>4. CASE v < 0
  BY <1>4, WdlIs, LimitIs
<1> QED
  BY <1>1, <1>2, <1>3, <1>4

LEMMA BestClass ==
  ASSUME NEW ms, ms \subseteq LegalMove, ms # {}, NEW c
  PROVE  /\ Wdl(Value(ms, c)) \in -2..2
         /\ \E m \in ms : X(m) = Wdl(Value(ms, c))
         /\ \A m \in ms : X(m) <= Wdl(Value(ms, c))
<1>1. Value(ms, c) \in Int /\ \E m \in ms : Worth(m) = Value(ms, c)
  BY ValueIs
<1>2. ASSUME NEW m \in ms
      PROVE  X(m) <= Wdl(Value(ms, c))
  <2>1. Worth(m) \in Int
    BY WorthType
  <2>2. /\ Value(ms, c) > 0 /\ Worth(m) > 0 => Value(ms, c) <= Worth(m)
        /\ Value(ms, c) = 0 => Worth(m) <= 0
        /\ Value(ms, c) < 0 => Worth(m) < 0 /\ Value(ms, c) <= Worth(m)
    BY ValueIs
  <2> DEFINE v == Value(ms, c)
             n == Worth(m)
  <2>3. v \in Int /\ n \in Int /\ (v > 0 /\ n > 0 => v <= n) /\ (v = 0 => n <= 0)
        /\ (v < 0 => n < 0 /\ v <= n)
    BY <1>1, <2>1, <2>2
  <2> HIDE DEF v, n
  <2>4. Wdl(n) <= Wdl(v)
    BY <2>3, WdlNotLess
  <2> QED
    BY <2>4 DEF X, v, n
<1> QED
  BY <1>1, <1>2, WdlType DEF X

\* The class of a value says how near to zero it may be.
LEMMA ClassBound ==
  ASSUME NEW n \in Int
  PROVE  /\ n > 0 => WdlToDtz(Wdl(n)) <= n /\ WdlToDtz(Wdl(n)) > 0
         /\ n < 0 => n <= WdlToDtz(Wdl(n)) /\ WdlToDtz(Wdl(n)) < 0
         /\ WdlToDtz(Wdl(n)) \in Int
<1>1. Wdl(n) \in -2..2
  BY WdlType
<1>2. CASE n > 0
  <2>1. (n <= Limit => Wdl(n) = 2) /\ (~(n <= Limit) => Wdl(n) = 1)
    BY <1>2, WdlIs
  <2>2. (n <= Limit => WdlToDtz(Wdl(n)) = 1) /\ (~(n <= Limit) => WdlToDtz(Wdl(n)) = Limit + 1)
    BY <1>1, <2>1, WdlToDtzType
  <2> QED
    BY <1>2, <2>2, LimitIs
<1>3. CASE n < 0
  <2>1. (n >= -Limit => Wdl(n) = -2) /\ (~(n >= -Limit) => Wdl(n) = -1)
    BY <1>3, WdlIs
  <2>2. (n >= -Limit => WdlToDtz(Wdl(n)) = -1)
        /\ (~(n >= -Limit) => WdlToDtz(Wdl(n)) = -(Limit + 1))
    BY <1>1, <2>1, WdlToDtzType
  <2> QED
    BY <1>3, <2>2, LimitIs
<1>4. CASE n = 0
  BY <1>1, <1>4, WdlToDtzType
<1> QED
  BY <1>2, <1>3, <1>4

\* A value that captures and pawn moves decide is that of the class.
LEMMA ByZeroing ==
  ASSUME NEW ms, ms \subseteq LegalMove, ms # {}, NEW c,
         NEW m \in ms, m.kind \in Zeroing, X(m) = Wdl(Value(ms, c)),
         \/ Wdl(Value(ms, c)) > 0
         \/ \A k \in ms : X(k) = Wdl(Value(ms, c)) => k.kind \in Zeroing
  PROVE  Value(ms, c) = WdlToDtz(Wdl(Value(ms, c)))
<1> DEFINE v == Value(ms, c)
<1>1. v \in Int /\ \E k \in ms : Worth(k) = v
  BY ValueIs
<1>2. CASE Wdl(v) > 0
  <2>1. v > 0 /\ Worth(m) = WdlToDtz(Wdl(v)) /\ Worth(m) \in Int
    BY <1>1, <1>2, WdlType, ZeroingWorth, WorthType
  <2>2. WdlToDtz(Wdl(v)) <= v /\ WdlToDtz(Wdl(v)) > 0
    BY <1>1, <2>1, ClassBound
  <2>3. v > 0 /\ Worth(m) > 0 => v <= Worth(m)
    BY ValueIs
  <2> HIDE DEF v
  <2>4. v = WdlToDtz(Wdl(v))
    BY <1>1, <2>1, <2>2, <2>3
  <2> QED
    BY <2>4 DEF v
<1>3. CASE \A k \in ms : X(k) = Wdl(v) => k.kind \in Zeroing
  <2>1. PICK k \in ms : Worth(k) = v
    BY <1>1
  <2>2. X(k) = Wdl(v)
    BY <2>1 DEF X
  <2> QED
    BY <1>3, <2>1, <2>2, ZeroingWorth
<1> QED
  BY <1>2, <1>3

\* Moves that are not better than the others do not change the class of a
\* position, and its value only if they are as good and win.
LEMMA SubValue ==
  ASSUME NEW ms, ms \subseteq LegalMove, NEW A, A \subseteq ms, A # {}, NEW c,
         \A m \in ms \ A : X(m) <= Wdl(Value(A, c))
  PROVE  /\ Wdl(Value(ms, c)) = Wdl(Value(A, c))
         /\ (\A m \in ms \ A : m.kind \in Zeroing)
            /\ (Wdl(Value(A, c)) < 0 \/ \A m \in ms \ A : X(m) < Wdl(Value(A, c)))
              => Value(ms, c) = Value(A, c)
<1> DEFINE V == Value(A, c)
           T == Value(ms, c)
<1>1. A \subseteq LegalMove /\ ms # {}
  OBVIOUS
<1>2. V \in Int /\ T \in Int /\ Wdl(V) \in -2..2 /\ Wdl(T) \in -2..2
  BY <1>1, ValueIs, BestClass
<1>3. Wdl(V) <= Wdl(T)
  <2>1. PICK m \in A : X(m) = Wdl(V)
    BY <1>1, BestClass
  <2> QED
    BY <1>1, <2>1, BestClass
<1>4. Wdl(T) <= Wdl(V)
  <2>1. PICK m \in ms : X(m) = Wdl(T)
    BY <1>1, BestClass
  <2>2. CASE m \in A
    BY <1>1, <2>1, <2>2, BestClass
  <2>3. CASE m \notin A
    BY <2>1, <2>3
  <2> QED
    BY <2>2, <2>3
<1>5. Wdl(T) = Wdl(V)
  BY <1>2, <1>3, <1>4
<1>6. ASSUME \A m \in ms \ A : m.kind \in Zeroing,
             Wdl(V) < 0 \/ \A m \in ms \ A : X(m) < Wdl(V)
      PROVE  T = V
  <2>1. PICK a \in A : Worth(a) = V
    BY <1>1, ValueIs
  <2>2. PICK t \in ms : Worth(t) = T
    BY <1>1, ValueIs
  <2>3. /\ T > 0 /\ V > 0 => T <= V
        /\ T < 0 => T <= V
    BY <1>1, <2>1, ValueIs
  <2>4. CASE t \in A
    <3>1. (V > 0 /\ T > 0 => V <= T) /\ (V < 0 => V <= T)
      BY <1>1, <2>2, <2>4, ValueIs
    <3>2. (T > 0 <=> V > 0) /\ (T < 0 <=> V < 0)
      <4>1. (Wdl(T) > 0 <=> T > 0) /\ (Wdl(T) < 0 <=> T < 0)
            /\ (Wdl(V) > 0 <=> V > 0) /\ (Wdl(V) < 0 <=> V < 0)
        BY <1>2, WdlType
      <4> QED
        BY <1>5, <4>1
    <3> HIDE DEF T, V
    <3> QED
      BY <1>2, <2>3, <3>1, <3>2
  <2>5. CASE t \notin A
    <3>1. X(t) = Wdl(V) /\ t.kind \in Zeroing
      BY <1>5, <1>6, <2>2, <2>5 DEF X
    <3>2. Wdl(V) < 0
      BY <1>2, <1>6, <2>5, <3>1
    <3>3. T = WdlToDtz(Wdl(V))
      BY <2>2, <3>1, ZeroingWorth
    <3>4. V < 0 /\ V <= T
      BY <1>2, <3>2, <3>3, WdlType, ClassBound
    <3>5. T < 0
      BY <1>2, <1>5, <3>2, WdlType
    <3> HIDE DEF T, V
    <3> QED
      BY <1>2, <2>3, <3>4, <3>5
  <2> QED
    BY <2>4, <2>5
<1> QED
  BY <1>5, <1>6
-----------------------------------------------------------------------------

\* What the functions promise.
LEMMA PromisedIs ==
  ASSUME NEW n \in Int, NEW k \in Promised_dtz(n)
  PROVE  /\ k \in Int /\ Wdl(k) = Wdl(n)
         /\ \/ k = n
            \/ n > 0 /\ k = n - 1 /\ k > 0 /\ InMoves(n)
            \/ n < 0 /\ k = n + 1 /\ k < 0 /\ InMoves(n)
<1>1. k = n \/ (InMoves(n) /\ k \in {n - 1, n + 1} /\ Abs(k) < Abs(n) /\ Wdl(k) = Wdl(n))
  BY DEF Promised_dtz
<1>2. CASE k = n
  BY <1>2
<1>3. CASE InMoves(n) /\ k \in {n - 1, n + 1} /\ Abs(k) < Abs(n) /\ Wdl(k) = Wdl(n)
  <2>1. k \in Int
    BY <1>3
  <2>2. (k > 0 <=> n > 0) /\ (k < 0 <=> n < 0)
    <3>1. (Wdl(k) > 0 <=> k > 0) /\ (Wdl(k) < 0 <=> k < 0)
          /\ (Wdl(n) > 0 <=> n > 0) /\ (Wdl(n) < 0 <=> n < 0)
      BY <2>1, WdlType
    <3> QED
      BY <1>3, <3>1
  <2>3. \/ n > 0 /\ k = n - 1 /\ k > 0
        \/ n < 0 /\ k = n + 1 /\ k < 0
    BY <1>3, <2>1, <2>2 DEF Abs
  <2> QED
    BY <1>3, <2>1, <2>3
<1> QED
  BY <1>1, <1>2, <1>3

LEMMA PromisedHas ==
  ASSUME NEW n \in Int, NEW k \in Int,
         k = n \/ (InMoves(n) /\ k \in {n - 1, n + 1} /\ Abs(k) < Abs(n) /\ Wdl(k) = Wdl(n))
  PROVE  k \in Promised_dtz(n)
  BY DEF Promised_dtz

\* One ply more keeps the promise: the tables that count in moves have no
\* position exactly at the limit.
LEMMA OnePlyPromise ==
  ASSUME NEW d \in Int, MayBeHere(d), NEW r \in Promised_dtz(d)
  PROVE  /\ OnePly(-r) \in Promised_dtz(OnePly(-d)) /\ OnePly(-r) \in Int
         /\ OnePly(-r) # 1 /\ OnePly(-r) # -1
         /\ (d < 0 => r < 0 /\ OnePly(-r) = -r + 1) /\ (d > 0 => r > 0 /\ OnePly(-r) = -r - 1)
         /\ (d = 0 => r = 0)
<1>1. /\ r \in Int /\ Wdl(r) = Wdl(d)
      /\ \/ r = d
         \/ d > 0 /\ r = d - 1 /\ r > 0 /\ InMoves(d)
         \/ d < 0 /\ r = d + 1 /\ r < 0 /\ InMoves(d)
  BY PromisedIs
<1>2. CASE r = d
  <2>1. OnePly(-d) \in Int /\ OnePly(-d) # 1 /\ OnePly(-d) # -1
        /\ (d < 0 => OnePly(-d) = -d + 1) /\ (d > 0 => OnePly(-d) = -d - 1)
    BY DEF OnePly
  <2> QED
    BY <1>2, <2>1, PromisedHas
<1>3. CASE d > 0 /\ r = d - 1 /\ r > 0 /\ InMoves(d)
  <2>1. OnePly(-d) = -(d + 1) /\ OnePly(-r) = -d /\ OnePly(-r) = -r - 1
    BY <1>3 DEF OnePly
  <2>2. (exact /\ d > Limit) \/ (~exact /\ d # Limit)
    BY <1>3 DEF InMoves, MayBeHere, Abs
  <2>3. Wdl(d) = Wdl(d - 1)
    BY <1>1, <1>3
  <2>4. Wdl(-d) = Wdl(-(d + 1)) /\ -d \in Int /\ -(d + 1) \in Int
    <3>1. d < Limit \/ d > Limit
      BY <2>2, LimitIs
    <3>2. CASE d < Limit
      BY <1>3, <3>2, WdlIs, LimitIs
    <3>3. CASE d > Limit
      BY <1>3, <3>3, WdlIs, LimitIs
    <3> QED
      BY <3>1, <3>2, <3>3
  <2>5. InMoves(-(d + 1))
    BY <1>3, <2>2, LimitIs DEF InMoves, Abs
  <2>6. -d \in {-(d + 1) - 1, -(d + 1) + 1} /\ Abs(-d) < Abs(-(d + 1))
    BY <1>3 DEF Abs
  <2>7. -d \in Promised_dtz(-(d + 1))
    BY <2>4, <2>5, <2>6, PromisedHas
  <2> QED
    BY <1>3, <2>1, <2>7
<1>4. CASE d < 0 /\ r = d + 1 /\ r < 0 /\ InMoves(d)
  <2>1. OnePly(-d) = -d + 1 /\ OnePly(-r) = -d /\ OnePly(-r) = -r + 1
    BY <1>4 DEF OnePly
  <2>2. (exact /\ -d > Limit) \/ (~exact /\ -d # Limit)
    BY <1>4 DEF InMoves, MayBeHere, Abs
  <2>4. Wdl(-d) = Wdl(-d + 1) /\ -d \in Int /\ -d + 1 \in Int
    <3>1. -d < Limit \/ -d > Limit
      BY <2>2, LimitIs
    <3>2. CASE -d < Limit
      BY <1>4, <3>2, WdlIs, LimitIs
    <3>3. CASE -d > Limit
      BY <1>4, <3>3, WdlIs, LimitIs
    <3> QED
      BY <3>1, <3>2, <3>3
  <2>5. InMoves(-d + 1)
    BY <1>4, <2>2, LimitIs DEF InMoves, Abs
  <2>6. -d \in {-d + 1 - 1, -d + 1 + 1} /\ Abs(-d) < Abs(-d + 1)
    BY <1>4 DEF Abs
  <2>7. -d \in Promised_dtz(-d + 1)
    BY <2>4, <2>5, <2>6, PromisedHas
  <2> QED
    BY <1>4, <2>1, <2>7
<1> QED
  BY <1>1, <1>2, <1>3, <1>4

\* What a DTZ table holds keeps it, too.
LEMMA RawPromise ==
  ASSUME NEW n \in Int, n # 0
  PROVE  WdlToDtz(Wdl(n)) + (IF Wdl(n) > 0 THEN Raw(n) ELSE -Raw(n)) \in Promised_dtz(n)
<1> DEFINE b == WdlToDtz(Wdl(n))
           over == Abs(n) - Abs(b)
           k == b + (IF Wdl(n) > 0 THEN Raw(n) ELSE -Raw(n))
<1>1. /\ n > 0 => b <= n /\ b > 0
      /\ n < 0 => n <= b /\ b < 0
      /\ b \in Int /\ (Wdl(n) > 0 <=> n > 0)
  BY ClassBound, WdlType
<1>2. Wdl(b) = Wdl(n) /\ Wdl(n) \in -2..2
  BY WdlType, WdlToDtzType
<1>3. Raw(n) = IF InMoves(n) THEN 2 * (over \div 2) ELSE over
  BY DEF Raw
<1> HIDE DEF b
<1>4. over \in Nat /\ (n > 0 => b + over = n) /\ (n < 0 => b - over = n)
  BY <1>1 DEF Abs
<1> HIDE DEF over
<1>5. 2 * (over \div 2) = over \/ (2 * (over \div 2) = over - 1 /\ over >= 1)
  BY <1>4
<1>6. CASE ~InMoves(n) \/ 2 * (over \div 2) = over
  <2>1. Raw(n) = over
    BY <1>3, <1>6
  <2>2. k = n
    BY <1>1, <1>4, <2>1
  <2> QED
    BY <2>2, PromisedHas DEF b
<1>7. CASE InMoves(n) /\ 2 * (over \div 2) = over - 1 /\ over >= 1
  <2>1. Raw(n) = over - 1
    BY <1>3, <1>7
  <2>2. (n > 0 => k = n - 1 /\ b <= k) /\ (n < 0 => k = n + 1 /\ k <= b)
    BY <1>1, <1>4, <1>7, <2>1
  <2> HIDE DEF k
  <2>3. k \in Int
    BY <2>2
  <2>4. CASE n > 0
    <3>1. Abs(k) < Abs(n) /\ k > 0
      BY <1>1, <2>2, <2>3, <2>4 DEF Abs
    <3>2. Wdl(k) <= Wdl(b) /\ Wdl(n) <= Wdl(k)
      BY <1>1, <2>2, <2>3, <2>4, <3>1, WdlNotLess
    <3>3. Wdl(k) = Wdl(n)
      BY <1>2, <2>3, <3>2, WdlType
    <3> QED
      BY <1>7, <2>2, <2>3, <2>4, <3>1, <3>3, PromisedHas DEF k, b
  <2>5. CASE n < 0
    <3>1. Abs(k) < Abs(n) /\ k < 0
      BY <1>1, <2>2, <2>3, <2>5 DEF Abs
    <3>2. Wdl(b) <= Wdl(k) /\ Wdl(k) <= Wdl(n)
      BY <1>1, <2>2, <2>3, <2>5, <3>1, WdlNotLess
    <3>3. Wdl(k) = Wdl(n)
      BY <1>2, <2>3, <3>2, WdlType
    <3> QED
      BY <1>7, <2>2, <2>3, <2>5, <3>1, <3>3, PromisedHas DEF k, b
  <2> QED
    BY <2>4, <2>5
<1> QED
  BY <1>5, <1>6, <1>7 DEF b

\* Of any position, also of one without a move.
LEMMA ValueType ==
  ASSUME NEW ms, ms \subseteq LegalMove, NEW c \in BOOLEAN
  PROVE  /\ Value(ms, c) \in Int /\ Wdl(Value(ms, c)) \in -2..2
         /\ ms = {} => Value(ms, c) = (IF c THEN -1 ELSE 0)
<1>1. CASE ms = {}
  <2>1. Value(ms, c) = IF c THEN -1 ELSE 0
    BY <1>1 DEF Value
  <2> QED
    BY <1>1, <2>1, WdlType
<1>2. CASE ms # {}
  BY <1>2, ValueIs, BestClass
<1> QED
  BY <1>1, <1>2

\* What a call of probe_ab gives its caller.
LEMMA PromisedAb ==
  ASSUME NEW x \in -2..2, NEW a \in -3..2, NEW b \in -2..3, a < b,
         NEW r \in Promised_ab(-x, -b, -a)
  PROVE  /\ r \in Int
         /\ x >= b => -r = b
         /\ a < x /\ x < b => -r = x
         /\ x <= a => x <= -r /\ -r <= a
<1>1. CASE x >= b
  BY <1>1 DEF Promised_ab
<1>2. CASE a < x /\ x < b
  BY <1>2 DEF Promised_ab
<1>3. CASE x <= a
  <2>1. r \in -a..-x
    BY <1>3 DEF Promised_ab
  <2> QED
    BY <1>3, <2>1
<1> QED
  BY <1>1, <1>2, <1>3

\* And what is enough to keep its promise.
LEMMA KeepsAb ==
  ASSUME NEW w \in -2..2, NEW a \in Int, NEW b \in Int, a < b, NEW v \in Int,
         (w <= a => v = a) /\ (a < w /\ w < b => v = w) /\ (w >= b => b <= v /\ v <= w)
  PROVE  v \in Promised_ab(w, a, b)
<1>1. CASE w <= a
  BY <1>1 DEF Promised_ab
<1>2. CASE a < w /\ w < b
  BY <1>2 DEF Promised_ab
<1>3. CASE w >= b
  BY <1>3 DEF Promised_ab
<1> QED
  BY <1>1, <1>2, <1>3

\* The table of a position is that of its moves without en passant, or lower
\* where a capture is as good.
LEMMA Table ==
  ASSUME Position, NEW v \in WdlTable
  PROVE  /\ WithoutEp \in Int /\ Wdl(WithoutEp) \in -2..2
         /\ v \in -2..2 /\ v <= Wdl(WithoutEp)
         /\ v = Wdl(WithoutEp)
            \/ \E m \in moves : m.kind = "capture" /\ X(m) = Wdl(WithoutEp)
<1>1. NonEp \subseteq LegalMove /\ check \in BOOLEAN /\ WithoutEp = Value(NonEp, check)
  BY DEF Position, NonEp, WithoutEp
<1>2. WithoutEp \in Int /\ Wdl(WithoutEp) \in -2..2
  BY <1>1, ValueType
<1>3. CASE \E m \in moves : m.kind = "capture" /\ Wdl(Worth(m)) = Wdl(WithoutEp)
  <2>1. v \in -2..Wdl(WithoutEp)
    BY <1>3 DEF WdlTable
  <2> QED
    BY <1>2, <1>3, <2>1 DEF X
<1>4. CASE ~\E m \in moves : m.kind = "capture" /\ Wdl(Worth(m)) = Wdl(WithoutEp)
  <2>1. v = Wdl(WithoutEp)
    BY <1>4 DEF WdlTable
  <2> QED
    BY <1>2, <2>1
<1> QED
  BY <1>3, <1>4

LEMMA TruthType ==
  ASSUME Position
  PROVE  /\ Truth \in Int /\ Wdl(Truth) \in -2..2
         /\ \A m \in moves : X(m) \in -2..2 /\ X(m) <= Wdl(Truth) /\ Worth(m) \in Int
<1>1. moves \subseteq LegalMove /\ check \in BOOLEAN /\ Truth = Value(moves, check)
  BY DEF Position, Truth
<1>2. Truth \in Int /\ Wdl(Truth) \in -2..2
  BY <1>1, ValueType
<1>3. \A m \in moves : X(m) \in -2..2 /\ Worth(m) \in Int
  BY <1>1, WorthType
<1>4. \A m \in moves : X(m) <= Wdl(Truth)
  BY <1>1, BestClass
<1> QED
  BY <1>2, <1>3, <1>4
-----------------------------------------------------------------------------

\* A position stays what it is while it is probed.
LEMMA Frame ==
  ASSUME UNCHANGED <<moves, check, exact>>
  PROVE  /\ Truth' = Truth /\ WithoutEp' = WithoutEp
         /\ Captures' = Captures /\ Quiets' = Quiets
         /\ \A n : Promised_dtz(n)' = Promised_dtz(n)
         /\ \A n : MayBeHere(n)' = MayBeHere(n)
<1>1. Truth' = Truth /\ WithoutEp' = WithoutEp
  BY DEF Truth, WithoutEp
<1>2. Captures' = Captures /\ Quiets' = Quiets
  BY DEF Captures, Quiets
<1>3. \A n : Promised_dtz(n)' = Promised_dtz(n)
  BY DEF Promised_dtz, InMoves
<1>4. \A n : MayBeHere(n)' = MayBeHere(n)
  BY DEF MayBeHere
<1> QED
  BY <1>1, <1>2, <1>3, <1>4

LEMMA PositionStays ==
  ASSUME Position, UNCHANGED <<moves, check, exact, cnt50>>, todo' \subseteq moves
  PROVE  Position'
  BY DEF Position, Quiets, MayBeHere

LEMMA InitInv == Init => IInv
<1> SUFFICES ASSUME Init PROVE IInv
  OBVIOUS
<1> USE DEF Init
<1>1. Position
  <2>1. Quiets = {} /\ 0 \in 0..Limit /\ FALSE \in BOOLEAN
    BY LimitIs DEF Quiets
  <2> QED
    BY <2>1 DEF Position
<1>2. Known /\ WdlIsExact /\ DtzIsClose
  BY DEF Known, WdlIsExact, DtzIsClose
<1>3. AbInv /\ WdlInv /\ DtzInv /\ PlyInv /\ RootInv
  BY DEF AbInv, WdlInv, DtzInv, PlyInv, RootInv
<1>4. RootKeepsValue
  BY DEF RootKeepsValue
<1> QED
  BY <1>1, <1>2, <1>3, <1>4 DEF IInv

LEMMA AddMoveStep == IInv /\ AddMove => IInv'
<1> SUFFICES ASSUME IInv, AddMove PROVE IInv'
  OBVIOUS
<1> USE DEF AddMove
<1>1. PICK m \in LegalMove : (m.kind = "quiet" => MayBeHere(m.dtz)) /\ moves' = moves \union {m}
  OBVIOUS
<1>2. Position'
  BY <1>1 DEF IInv, Position, Quiets, MayBeHere
<1>3. wdl' = Nothing /\ success' = 1 /\ dtz' = Nothing /\ pc' = "setup" /\ scores' = <<>>
      /\ bestCap' = -3 /\ bestEp' = -3
  BY DEF IInv, Known, WdlInv
<1>4. Known' /\ WdlIsExact' /\ DtzIsClose' /\ RootKeepsValue'
  BY <1>3 DEF Known, WdlIsExact, DtzIsClose, RootKeepsValue
<1>5. AbInv' /\ WdlInv' /\ DtzInv' /\ PlyInv' /\ RootInv'
  BY <1>3 DEF AbInv, WdlInv, DtzInv, PlyInv, RootInv
<1> QED
  BY <1>2, <1>3, <1>4, <1>5 DEF IInv

LEMMA CallStep == IInv /\ Call => IInv'
<1> SUFFICES ASSUME IInv, Call PROVE IInv'
  OBVIOUS
<1>1. Position'
  BY LimitIs DEF IInv, Position, Quiets, MayBeHere, Call
<1>2. wdl' = Nothing /\ success' = 1 /\ dtz' = Nothing /\ pc' \in {"ab", "wdl"} /\ scores' = <<>>
      /\ bestCap' = -3 /\ bestEp' = -3 /\ todo' = Captures'
  BY DEF IInv, Known, WdlInv, Call, Captures
<1>3. Known' /\ WdlIsExact' /\ DtzIsClose' /\ RootKeepsValue'
  BY <1>2 DEF Known, WdlIsExact, DtzIsClose, RootKeepsValue
<1>4. AbInv'
  BY <1>2 DEF Call, AbInv, Captures
<1>5. WdlInv'
  BY <1>2 DEF WdlInv
<1>6. DtzInv' /\ PlyInv' /\ RootInv'
  BY <1>2 DEF DtzInv, PlyInv, RootInv
<1> QED
  BY <1>1, <1>2, <1>3, <1>4, <1>5, <1>6 DEF IInv

LEMMA FailStep == IInv /\ Fail => IInv'
<1> SUFFICES ASSUME IInv, Fail PROVE IInv'
  OBVIOUS
<1>1. success' = 0 /\ pc' = "done" /\ todo' = {} /\ UNCHANGED <<asked, cnt50, wdl, dtz>>
  BY DEF Fail
<1>2. UNCHANGED <<moves, check, exact, cnt50>>
  BY <1>1 DEF asked
<1>3. Position'
  BY <1>1, <1>2, PositionStays DEF IInv
<1>4. Known' /\ WdlIsExact' /\ DtzIsClose'
  BY <1>1, <1>2, Frame DEF IInv, Known, WdlIsExact, DtzIsClose
<1>5. RootKeepsValue'
  BY <1>1 DEF RootKeepsValue
<1>6. AbInv' /\ WdlInv' /\ DtzInv' /\ PlyInv' /\ RootInv'
  BY <1>1 DEF AbInv, WdlInv, DtzInv, PlyInv, RootInv
<1> QED
  BY <1>1, <1>3, <1>4, <1>5, <1>6 DEF IInv
-----------------------------------------------------------------------------

\* probe_ab: a capture raises alpha to its value, or ends the search.
LEMMA AbCaptureStep == IInv /\ AbCapture => IInv'
<1> SUFFICES ASSUME IInv, AbCapture PROVE IInv'
  OBVIOUS
<1>1. PICK m \in todo : \E r \in Promised_ab(-Wdl(Worth(m)), -beta, -alpha) :
         /\ todo' = todo \ {m}
         /\ IF -r > alpha /\ -r >= beta THEN result' = -r /\ pc' = "done" /\ UNCHANGED alpha
            ELSE /\ alpha' = Max({alpha, -r}) /\ UNCHANGED <<result, pc>>
  BY DEF AbCapture
<1>2. PICK r \in Promised_ab(-X(m), -beta, -alpha) :
         /\ todo' = todo \ {m}
         /\ IF -r > alpha /\ -r >= beta THEN result' = -r /\ pc' = "done" /\ UNCHANGED alpha
            ELSE /\ alpha' = Max({alpha, -r}) /\ UNCHANGED <<result, pc>>
  BY <1>1 DEF X
<1>3. pc = "ab" /\ UNCHANGED <<moves, check, exact, low, cnt50, beta, bestCap, bestEp, best,
        success, wdl, dtz, scores>>
  BY DEF AbCapture, asked
<1>4. /\ Position /\ m \in moves /\ alpha \in -3..2 /\ beta \in -2..3 /\ alpha < beta
      /\ low \in -3..2 /\ (alpha = low \/ (low < alpha /\ alpha <= Wdl(Truth)))
      /\ \A k \in moves : k.kind # "ep"
      /\ \A k \in Captures \ todo : X(k) <= alpha
      /\ wdl = Nothing /\ dtz = Nothing /\ success = 1 /\ scores = <<>>
  BY <1>3 DEF IInv, Position, AbInv, Known
<1>5. Truth \in Int /\ Wdl(Truth) \in -2..2 /\ X(m) \in -2..2 /\ X(m) <= Wdl(Truth)
      /\ \A k \in moves : X(k) \in -2..2
  BY <1>4, TruthType
<1>6. /\ r \in Int
      /\ X(m) >= beta => -r = beta
      /\ alpha < X(m) /\ X(m) < beta => -r = X(m)
      /\ X(m) <= alpha => X(m) <= -r /\ -r <= alpha
  BY <1>4, <1>5, PromisedAb
<1>7. Position'
  BY <1>2, <1>3, <1>4, PositionStays DEF Position
<1>8. Truth' = Truth /\ Captures' = Captures
  BY <1>3, Frame
<1>9. CASE -r > alpha /\ -r >= beta
  <2>1. result' = -r /\ pc' = "done"
    BY <1>2, <1>9
  <2>2. X(m) >= beta /\ -r = beta
    BY <1>4, <1>5, <1>6, <1>9
  <2>3. low < beta
    BY <1>4, <1>5
  <2>4. -r \in Promised_ab(Wdl(Truth), low, beta)
    BY <1>4, <1>5, <1>6, <2>2, <2>3, KeepsAb
  <2>5. -r \in Promised_ab(Wdl(Truth'), low', beta')
    BY <1>3, <1>8, <2>4
  <2>6. WdlIsExact' /\ Known' /\ DtzIsClose' /\ RootKeepsValue'
    BY <1>3, <1>4, <2>1, <2>5 DEF WdlIsExact, Known, DtzIsClose, RootKeepsValue, Promised_ab, Wdl
  <2>7. AbInv' /\ WdlInv' /\ DtzInv' /\ PlyInv' /\ RootInv'
    BY <2>1 DEF AbInv, WdlInv, DtzInv, PlyInv, RootInv
  <2> QED
    BY <1>7, <2>1, <2>6, <2>7 DEF IInv
<1>10. CASE ~(-r > alpha /\ -r >= beta)
  <2>1. pc' = "ab" /\ alpha' = Max({alpha, -r})
    BY <1>2, <1>3, <1>10
  <2>2. alpha' = IF alpha >= -r THEN alpha ELSE -r
    BY <1>4, <1>6, <2>1, MaxOfTwo
  <2>3. \/ alpha' = alpha /\ X(m) <= alpha
        \/ alpha' = X(m) /\ alpha < X(m) /\ X(m) < beta
    BY <1>4, <1>5, <1>6, <1>10, <2>2
  <2>4. /\ alpha' \in -3..2 /\ alpha' < beta' /\ (alpha' = low \/ (low < alpha' /\ alpha' <= Wdl(Truth)))
        /\ alpha <= alpha' /\ X(m) <= alpha'
    BY <1>3, <1>4, <1>5, <2>3
  <2>5. \A k \in Captures \ (todo \ {m}) : X(k) <= alpha'
    <3>1. \A k \in Captures : k \in moves
      BY DEF Captures
    <3> QED
      BY <1>4, <1>5, <2>4, <3>1
  <2>6. AbInv'
    <3>1. \A k \in Captures' \ todo' : X(k) <= alpha'
      BY <1>2, <1>8, <2>5
    <3>2. Wdl(Truth)' = Wdl(Truth)
      BY <1>8 DEF Wdl
    <3> QED
      BY <1>3, <1>4, <2>4, <3>1, <3>2 DEF AbInv, X, Wdl, Worth, WdlToDtz, OnePly
  <2>7. WdlIsExact' /\ Known' /\ DtzIsClose' /\ RootKeepsValue'
    BY <1>3, <1>4, <2>1 DEF WdlIsExact, Known, DtzIsClose, RootKeepsValue
  <2>8. WdlInv' /\ DtzInv' /\ PlyInv' /\ RootInv'
    BY <2>1 DEF WdlInv, DtzInv, PlyInv, RootInv
  <2> QED
    BY <1>3, <1>4, <1>7, <2>6, <2>7, <2>8 DEF IInv
<1> QED
  BY <1>9, <1>10

LEMMA AbTableStep == IInv /\ AbTable => IInv'
<1> SUFFICES ASSUME IInv, AbTable PROVE IInv'
  OBVIOUS
<1>1. PICK v \in WdlTable : result' = Max({alpha, v})
  BY DEF AbTable
<1>2. pc = "ab" /\ todo = {} /\ pc' = "done"
      /\ UNCHANGED <<moves, check, exact, low, cnt50, beta, todo, success, wdl, dtz, scores>>
  BY DEF AbTable, asked
<1>3. /\ Position /\ alpha \in -3..2 /\ beta \in -2..3 /\ alpha < beta
      /\ low \in -3..2 /\ (alpha = low \/ (low < alpha /\ alpha <= Wdl(Truth)))
      /\ \A m \in moves : m.kind # "ep"
      /\ \A m \in Captures : X(m) <= alpha
      /\ wdl = Nothing /\ dtz = Nothing /\ success = 1 /\ scores = <<>>
  BY <1>2 DEF IInv, AbInv, Known
<1>4. WithoutEp = Truth
  <2>1. {m \in moves : m.kind # "ep"} = moves
    BY <1>3
  <2> QED
    BY <2>1 DEF WithoutEp, Truth
<1>5. /\ Truth \in Int /\ Wdl(Truth) \in -2..2 /\ v \in -2..2 /\ v <= Wdl(Truth)
      /\ v = Wdl(Truth) \/ \E m \in moves : m.kind = "capture" /\ X(m) = Wdl(Truth)
  BY <1>3, <1>4, Table
<1>6. v = Wdl(Truth) \/ Wdl(Truth) <= alpha
  BY <1>3, <1>5 DEF Captures, is_capture
<1>7. result' = IF alpha >= v THEN alpha ELSE v
  BY <1>1, <1>3, <1>5, MaxOfTwo
<1>8. result' \in Promised_ab(Wdl(Truth), low, beta)
  <2> DEFINE w == Wdl(Truth)
  <2>1. low < beta /\ w \in -2..2
    BY <1>3, <1>5
  <2> HIDE DEF w
  <2>2. w <= low => result' = low
    BY <1>3, <1>5, <1>7 DEF w
  <2>3. low < w /\ w < beta => result' = w
    BY <1>3, <1>5, <1>6, <1>7 DEF w
  <2>4. w >= beta => beta <= result' /\ result' <= w
    BY <1>3, <1>5, <1>6, <1>7 DEF w
  <2>5. result' \in Int
    BY <1>3, <1>5, <1>7
  <2>6. result' \in Promised_ab(w, low, beta)
    BY <1>3, <2>1, <2>2, <2>3, <2>4, <2>5, KeepsAb
  <2> QED
    BY <2>6 DEF w
<1>9. Position'
  BY <1>2, <1>3, PositionStays DEF Position
<1>10. WdlIsExact' /\ Known' /\ DtzIsClose' /\ RootKeepsValue'
  <2>1. Truth' = Truth
    BY <1>2, Frame
  <2>2. result' \in Promised_ab(Wdl(Truth'), low', beta')
    BY <1>2, <1>8, <2>1
  <2> QED
    BY <1>2, <1>3, <2>2 DEF WdlIsExact, Known, DtzIsClose, RootKeepsValue, Promised_ab, Wdl
<1>11. AbInv' /\ WdlInv' /\ DtzInv' /\ PlyInv' /\ RootInv'
  BY <1>2 DEF AbInv, WdlInv, DtzInv, PlyInv, RootInv
<1> QED
  BY <1>2, <1>9, <1>10, <1>11 DEF IInv
-----------------------------------------------------------------------------

\* With the distance known the root is next.
LEMMA ToRoot ==
  ASSUME IInv, wdl' \in Int, wdl' = Wdl(Truth), dtz' \in Promised_dtz(Truth), pc' = "root", todo' = moves,
         UNCHANGED <<moves, check, exact, cnt50, scores>>, scores = <<>>
  PROVE  IInv'
<1>1. Position /\ Truth \in Int
  BY TruthType DEF IInv
<1>2. dtz' \in Int /\ wdl' # Nothing /\ dtz' # Nothing
  BY <1>1, PromisedIs, LimitIs
<1>3. Truth' = Truth /\ \A n : Promised_dtz(n)' = Promised_dtz(n)
  BY Frame
<1>4. wdl' = Wdl(Truth)' /\ dtz' \in Promised_dtz(Truth)'
  BY <1>3 DEF Wdl, Promised_dtz, InMoves
<1>5. Position'
  BY <1>1, PositionStays
<1>6. Known' /\ WdlIsExact' /\ DtzIsClose' /\ RootKeepsValue'
  BY <1>2, <1>4 DEF Known, WdlIsExact, DtzIsClose, RootKeepsValue
<1>7. AbInv' /\ WdlInv' /\ DtzInv' /\ PlyInv'
  BY DEF AbInv, WdlInv, DtzInv, PlyInv
<1>8. RootInv'
  <2>1. moves' \ todo' = {}
    OBVIOUS
  <2>2. DOMAIN scores' = {}
    OBVIOUS
  <2> QED
    BY <1>2, <2>1, <2>2 DEF RootInv
<1> QED
  BY <1>5, <1>6, <1>7, <1>8 DEF IInv

\* probe_wdl has found the value: it is that of a capture and the distance is
\* known with it, or it is that of the table and no capture wins.
LEMMA WdlKnownStep ==
  ASSUME IInv, pc = "wdl", NEW w, NEW s, WdlKnown(w, s),
         UNCHANGED <<moves, check, exact, cnt50, scores>>,
         w = Wdl(Truth),
         s = 2 /\ w # 0 => Truth = WdlToDtz(w),
         s # 2 /\ w # 0 => Truth = WithoutEp,
         s # 2 /\ w > 0 => \A m \in Captures : X(m) < w
  PROVE  IInv'
<1>1. Position /\ Truth \in Int /\ w \in -2..2 /\ w \in Int /\ scores = <<>> /\ dtz = Nothing
  BY TruthType DEF IInv, Known
<1>2. wdl' = w /\ success' = s
  BY DEF WdlKnown
<1>3. CASE w = 0 \/ s = 2
  <2>1. dtz' = WdlToDtz(w) /\ pc' = "root" /\ todo' = moves
    BY <1>3 DEF WdlKnown
  <2>2. WdlToDtz(w) = Truth
    <3>1. CASE w = 0
      <4>1. Truth = 0
        BY <1>1, <3>1, WdlType
      <4> QED
        BY <3>1, <4>1, WdlToDtzType
    <3>2. CASE w # 0
      BY <1>3, <3>2
    <3> QED
      BY <3>1, <3>2
  <2>3. dtz' \in Promised_dtz(Truth)
    BY <2>1, <2>2 DEF Promised_dtz
  <2> QED
    BY <1>1, <1>2, <2>1, <2>3, ToRoot
<1>4. CASE ~(w = 0 \/ s = 2)
  <2>1. dtz' = Nothing /\ pc' = "dtz" /\ todo' = {m \in moves : w > 0 /\ m.kind = "pawn"}
    BY <1>1, <1>4 DEF WdlKnown
  <2>2. Truth' = Truth /\ WithoutEp' = WithoutEp
    BY Frame
  <2>3. wdl' = Wdl(Truth)'
    BY <1>2, <2>2 DEF Wdl
  <2>4. Position'
    BY <1>1, <2>1, PositionStays
  <2>5. Known' /\ WdlIsExact' /\ DtzIsClose' /\ RootKeepsValue'
    BY <2>1, <2>3 DEF Known, WdlIsExact, DtzIsClose, RootKeepsValue
  <2>6. DtzInv'
    <3>1. wdl' > 0 => \A m \in moves' \ todo' : m.kind \in Zeroing => X(m) < w
      BY <1>1, <1>2, <1>4, <2>1 DEF Zeroing, Captures, is_capture
    <3>2. wdl' < 0 => todo' = {}
      BY <1>1, <1>2, <2>1
    <3>3. \A m \in todo' : m.kind = "pawn"
      BY <2>1
    <3> QED
      BY <1>2, <1>4, <2>1, <2>2, <2>3, <3>1, <3>2, <3>3 DEF DtzInv, X, Wdl, Worth, WdlToDtz, OnePly
  <2>7. AbInv' /\ WdlInv' /\ PlyInv' /\ RootInv'
    BY <2>1 DEF AbInv, WdlInv, PlyInv, RootInv
  <2> QED
    BY <1>1, <2>1, <2>4, <2>5, <2>6, <2>7 DEF IInv
<1> QED
  BY <1>3, <1>4

LEMMA WdlCaptureStep == IInv /\ WdlCapture => IInv'
<1> SUFFICES ASSUME IInv, WdlCapture PROVE IInv'
  OBVIOUS
<1>1. PICK m \in todo : \E r \in Promised_ab(-X(m), -2, -bestCap) :
         IF -r > bestCap /\ r = -2
         THEN WdlKnown(2, 2) /\ UNCHANGED <<bestCap, bestEp>>
         ELSE /\ bestCap' = IF -r > bestCap /\ m.kind # "ep" THEN -r ELSE bestCap
              /\ bestEp'  = IF -r > bestCap /\ m.kind = "ep" /\ -r > bestEp
                            THEN -r ELSE bestEp
              /\ todo' = todo \ {m}
              /\ UNCHANGED <<wdl, success, dtz, pc>>
  BY DEF WdlCapture, X
<1>2. PICK r \in Promised_ab(-X(m), -2, -bestCap) :
         IF -r > bestCap /\ r = -2
         THEN WdlKnown(2, 2) /\ UNCHANGED <<bestCap, bestEp>>
         ELSE /\ bestCap' = IF -r > bestCap /\ m.kind # "ep" THEN -r ELSE bestCap
              /\ bestEp'  = IF -r > bestCap /\ m.kind = "ep" /\ -r > bestEp
                            THEN -r ELSE bestEp
              /\ todo' = todo \ {m}
              /\ UNCHANGED <<wdl, success, dtz, pc>>
  BY <1>1
<1>3. pc = "wdl" /\ UNCHANGED <<moves, check, exact, cnt50, scores>>
  BY DEF WdlCapture, asked
<1>4. /\ Position /\ moves \subseteq LegalMove /\ m \in moves /\ bestCap \in -3..1 /\ bestEp \in -3..1
      /\ wdl = Nothing /\ dtz = Nothing /\ success = 1 /\ scores = <<>>
  BY <1>3 DEF IInv, Position, WdlInv, Known
<1>5. /\ bestCap # -3 => \E k \in moves : k.kind = "capture" /\ X(k) = bestCap
      /\ bestEp # -3 => \E k \in moves : k.kind = "ep" /\ X(k) = bestEp
      /\ \A k \in Captures \ todo :
            /\ k.kind = "capture" => X(k) <= bestCap
            /\ k.kind = "ep" => X(k) <= bestEp \/ X(k) <= bestCap
  BY <1>3 DEF IInv, WdlInv
<1>6. Truth \in Int /\ Wdl(Truth) \in -2..2 /\ (\A k \in moves : X(k) \in -2..2 /\ X(k) <= Wdl(Truth))
  BY <1>4, TruthType
<1>7. /\ r \in Int
      /\ X(m) >= 2 => -r = 2
      /\ bestCap < X(m) /\ X(m) < 2 => -r = X(m)
      /\ X(m) <= bestCap => X(m) <= -r /\ -r <= bestCap
  <2>1. bestCap \in -3..2 /\ 2 \in -2..3 /\ bestCap < 2 /\ X(m) \in -2..2
    BY <1>4, <1>6
  <2> QED
    BY <2>1, PromisedAb
<1>8. CASE -r > bestCap /\ r = -2
  <2>1. X(m) = 2
    BY <1>4, <1>6, <1>7, <1>8
  <2>2. Wdl(Truth) = 2
    BY <1>4, <1>6, <2>1
  <2>3. m.kind \in Zeroing
    <3>1. todo \subseteq Captures
      BY <1>3 DEF IInv, WdlInv
    <3> QED
      BY <3>1 DEF Captures, is_capture, Zeroing
  <2>4. Truth = WdlToDtz(2)
    BY <1>4, <2>1, <2>2, <2>3, ByZeroing DEF Truth
  <2>5. WdlKnown(2, 2)
    BY <1>2, <1>8
  <2> QED
    BY <1>3, <2>2, <2>4, <2>5, WdlKnownStep
<1>9. CASE ~(-r > bestCap /\ r = -2)
  <2>1. /\ bestCap' = IF -r > bestCap /\ m.kind # "ep" THEN -r ELSE bestCap
        /\ bestEp'  = IF -r > bestCap /\ m.kind = "ep" /\ -r > bestEp THEN -r ELSE bestEp
        /\ todo' = todo \ {m}
        /\ wdl' = Nothing /\ success' = 1 /\ dtz' = Nothing /\ pc' = "wdl" /\ scores' = <<>>
    BY <1>2, <1>3, <1>4, <1>9
  <2>2. -r > bestCap => -r = X(m) /\ X(m) < 2
    BY <1>4, <1>6, <1>7, <1>9
  <2>3. X(m) <= -r
    BY <1>4, <1>6, <1>7
  <2>4. bestCap' \in -3..1 /\ bestEp' \in -3..1 /\ bestCap <= bestCap' /\ bestEp <= bestEp'
    BY <1>4, <1>6, <2>1, <2>2
  <2>5. /\ m.kind = "capture" => X(m) <= bestCap'
        /\ m.kind = "ep" => X(m) <= bestEp' \/ X(m) <= bestCap'
    BY <1>4, <1>6, <1>7, <2>1, <2>2, <2>3
  <2>6. \A k \in Captures \ (todo \ {m}) :
            /\ k.kind = "capture" => X(k) <= bestCap'
            /\ k.kind = "ep" => X(k) <= bestEp' \/ X(k) <= bestCap'
    <3> SUFFICES ASSUME NEW k \in Captures, k \notin todo \ {m}
                 PROVE  /\ k.kind = "capture" => X(k) <= bestCap'
                        /\ k.kind = "ep" => X(k) <= bestEp' \/ X(k) <= bestCap'
      OBVIOUS
    <3>1. CASE k = m
      BY <2>5, <3>1
    <3>2. CASE k # m
      <4>1. X(k) \in -2..2
        BY <1>6 DEF Captures
      <4>2. /\ k.kind = "capture" => X(k) <= bestCap
            /\ k.kind = "ep" => X(k) <= bestEp \/ X(k) <= bestCap
        BY <1>5, <3>2
      <4> QED
        BY <1>4, <2>4, <4>1, <4>2
    <3> QED
      BY <3>1, <3>2
  <2>7. bestCap' # -3 => \E k \in moves : k.kind = "capture" /\ X(k) = bestCap'
    <3>1. CASE bestCap' = bestCap
      BY <1>5, <3>1
    <3>2. CASE bestCap' # bestCap
      <4>1. m.kind # "ep" /\ X(m) = bestCap'
        BY <2>1, <2>2, <3>2
      <4>2. m.kind = "capture"
        <5>1. todo \subseteq Captures
          BY <1>3 DEF IInv, WdlInv
        <5> QED
          BY <4>1, <5>1 DEF Captures, is_capture
      <4> QED
        BY <1>4, <4>1, <4>2
    <3> QED
      BY <3>1, <3>2
  <2>8. bestEp' # -3 => \E k \in moves : k.kind = "ep" /\ X(k) = bestEp'
    <3>1. CASE bestEp' = bestEp
      BY <1>5, <3>1
    <3>2. CASE bestEp' # bestEp
      <4>1. m.kind = "ep" /\ X(m) = bestEp'
        BY <2>1, <2>2, <3>2
      <4> QED
        BY <1>4, <4>1
    <3> QED
      BY <3>1, <3>2
  <2>9. Captures' = Captures
    BY <1>3, Frame
  <2>10. todo' \subseteq Captures'
    BY <1>3, <2>1, <2>9 DEF IInv, WdlInv
  <2>11. WdlInv'
    BY <1>3, <2>1, <2>4, <2>6, <2>7, <2>8, <2>9, <2>10 DEF WdlInv, X, Wdl, Worth, WdlToDtz, OnePly
  <2>12. Position'
    BY <1>3, <1>4, <2>1, PositionStays DEF Position
  <2>13. Known' /\ WdlIsExact' /\ DtzIsClose' /\ RootKeepsValue'
    BY <2>1 DEF Known, WdlIsExact, DtzIsClose, RootKeepsValue
  <2>14. AbInv' /\ DtzInv' /\ PlyInv' /\ RootInv'
    BY <2>1 DEF AbInv, DtzInv, PlyInv, RootInv
  <2> QED
    BY <2>1, <2>11, <2>12, <2>13, <2>14 DEF IInv
<1> QED
  BY <1>8, <1>9

\* probe_wdl at the table, with the best captures known.
LEMMA WdlProbeStep == IInv /\ WdlProbe => IInv'
<1> SUFFICES ASSUME IInv, WdlProbe PROVE IInv'
  OBVIOUS
<1> DEFINE cap == Max({bestCap, bestEp})
           W == WithoutEp
<1>1. PICK v \in WdlTable :
         \/ bestEp > bestCap /\ bestEp > v /\ WdlKnown(bestEp, 2)
         \/ /\ ~(bestEp > bestCap /\ bestEp > v) /\ cap >= v
            /\ WdlKnown(cap, IF cap > 0 THEN 2 ELSE 1)
         \/ cap < v /\ bestEp > -3 /\ v = 0 /\ Stalemate /\ WdlKnown(bestEp, 2)
         \/ cap < v /\ ~(bestEp > -3 /\ v = 0 /\ Stalemate) /\ WdlKnown(v, success)
  BY DEF WdlProbe
<1>2. pc = "wdl" /\ todo = {} /\ UNCHANGED <<moves, check, exact, cnt50, scores>>
  BY DEF WdlProbe, asked
<1>3. /\ Position /\ moves \subseteq LegalMove /\ check \in BOOLEAN
      /\ bestCap \in -3..1 /\ bestEp \in -3..1 /\ success = 1
  BY <1>2 DEF IInv, Position, WdlInv, Known
<1>4. /\ bestCap # -3 => \E k \in moves : k.kind = "capture" /\ X(k) = bestCap
      /\ bestEp # -3 => \E k \in moves : k.kind = "ep" /\ X(k) = bestEp
      /\ \A k \in moves :
            /\ k.kind = "capture" => X(k) <= bestCap
            /\ k.kind = "ep" => X(k) <= bestEp \/ X(k) <= bestCap
  BY <1>2 DEF IInv, WdlInv, Captures, is_capture
<1>5. Truth \in Int /\ Wdl(Truth) \in -2..2 /\ (\A k \in moves : X(k) \in -2..2 /\ X(k) <= Wdl(Truth))
      /\ Truth = Value(moves, check)
  BY <1>3, TruthType DEF Truth
<1>6. cap = (IF bestCap >= bestEp THEN bestCap ELSE bestEp) /\ cap \in -3..1
  BY <1>3, MaxOfTwo
<1>7. /\ W \in Int /\ Wdl(W) \in -2..2 /\ v \in -2..2 /\ v <= Wdl(W)
      /\ v = Wdl(W) \/ \E m \in moves : m.kind = "capture" /\ X(m) = Wdl(W)
  BY <1>3, Table
<1>8. v = Wdl(W) \/ Wdl(W) <= bestCap
  BY <1>4, <1>7
<1>9. /\ NonEp \subseteq moves /\ NonEp \subseteq LegalMove /\ W = Value(NonEp, check)
      /\ \A m \in moves \ NonEp : m.kind = "ep" /\ m.kind \in Zeroing
  BY <1>3 DEF NonEp, WithoutEp, Zeroing
<1>10. \A k \in moves : (k.kind = "capture" \/ k.kind = "ep") => X(k) <= cap
  <2> SUFFICES ASSUME NEW k \in moves, k.kind = "capture" \/ k.kind = "ep" PROVE X(k) <= cap
    OBVIOUS
  <2>1. X(k) \in -2..2 /\ (X(k) <= bestCap \/ X(k) <= bestEp)
    BY <1>4, <1>5
  <2> HIDE DEF cap
  <2> QED
    BY <1>3, <1>6, <2>1
<1>11. ASSUME NonEp = {}
       PROVE  /\ W = (IF check THEN -1 ELSE 0) /\ v = Wdl(W) /\ bestCap = -3
              /\ (check => Wdl(W) = -2) /\ (~check => Wdl(W) = 0)
              /\ \A m \in moves : m.kind = "ep" /\ m.kind \in Zeroing
  <2>1. W = IF check THEN -1 ELSE 0
    BY <1>3, <1>9, <1>11, ValueType
  <2>2. Wdl(-1) = -2 /\ Wdl(0) = 0
    BY LimitIs, WdlIs
  <2>3. bestCap = -3
    BY <1>4, <1>11 DEF NonEp
  <2>4. \A m \in moves : m.kind = "ep" /\ m.kind \in Zeroing
    BY <1>9, <1>11
  <2> QED
    BY <1>7, <1>8, <2>1, <2>2, <2>3, <2>4
<1>12. ASSUME NonEp # {}
       PROVE  /\ \E m \in NonEp : X(m) = Wdl(W)
              /\ \A m \in NonEp : X(m) <= Wdl(W)
              /\ (\A m \in moves \ NonEp : X(m) <= Wdl(W)) => Wdl(Truth) = Wdl(W)
              /\ (\A m \in moves \ NonEp : X(m) <= Wdl(W))
                 /\ (Wdl(W) < 0 \/ \A m \in moves \ NonEp : X(m) < Wdl(W)) => Truth = W
  <2>1. /\ \E m \in NonEp : X(m) = Wdl(W)
        /\ \A m \in NonEp : X(m) <= Wdl(W)
    BY <1>9, <1>12, BestClass
  <2>2. ASSUME \A m \in moves \ NonEp : X(m) <= Wdl(W)
        PROVE  /\ Wdl(Truth) = Wdl(W)
               /\ (Wdl(W) < 0 \/ \A m \in moves \ NonEp : X(m) < Wdl(W)) => Truth = W
    BY <1>3, <1>5, <1>9, <1>12, <2>2, SubValue
  <2> QED
    BY <2>1, <2>2
<1> HIDE DEF cap, W
<1>13. CASE bestEp > bestCap /\ bestEp > v /\ WdlKnown(bestEp, 2)
  <2>1. PICK e \in moves : e.kind = "ep" /\ X(e) = bestEp
    BY <1>3, <1>4, <1>13
  <2>2. \A m \in NonEp : X(m) \in -2..2 /\ X(m) < bestEp
    <3> SUFFICES ASSUME NEW m \in NonEp PROVE X(m) \in -2..2 /\ X(m) < bestEp
      OBVIOUS
    <3>1. X(m) \in -2..2 /\ X(m) <= Wdl(W)
      BY <1>5, <1>9, <1>12
    <3> QED
      BY <1>3, <1>7, <1>8, <1>13, <3>1
  <2>3. \A m \in moves : X(m) \in -2..2 /\ X(m) <= bestEp
    <3> SUFFICES ASSUME NEW m \in moves PROVE X(m) \in -2..2 /\ X(m) <= bestEp
      OBVIOUS
    <3>1. CASE m \in NonEp
      BY <1>3, <2>2, <3>1
    <3>2. CASE m \notin NonEp
      BY <1>3, <1>5, <1>6, <1>9, <1>10, <1>13, <3>2
    <3> QED
      BY <3>1, <3>2
  <2>4. Wdl(Truth) = bestEp
    <3>1. PICK m \in moves : X(m) = Wdl(Truth)
      BY <1>3, <1>5, <2>1, BestClass
    <3> QED
      BY <1>3, <1>5, <2>1, <2>3, <3>1
  <2>5. \A m \in moves : X(m) = Wdl(Truth) => m.kind \in Zeroing
    BY <1>3, <1>9, <2>2, <2>4
  <2>6. Truth = WdlToDtz(bestEp)
    BY <1>3, <1>5, <1>9, <2>1, <2>4, <2>5, ByZeroing DEF Zeroing
  <2>7. WdlKnown(bestEp, 2)
    BY <1>13
  <2> QED
    BY <1>2, <2>4, <2>6, <2>7, WdlKnownStep
<1>14. CASE /\ ~(bestEp > bestCap /\ bestEp > v) /\ cap >= v
            /\ WdlKnown(cap, IF cap > 0 THEN 2 ELSE 1)
  <2>1. PICK e \in moves : e.kind \in {"capture", "ep"} /\ X(e) = cap
    BY <1>3, <1>4, <1>6, <1>7, <1>14
  <2>2. NonEp # {} => Wdl(W) = cap
    <3> SUFFICES ASSUME NonEp # {} PROVE Wdl(W) = cap
      OBVIOUS
    <3>1. CASE bestEp > bestCap
      <4>1. cap = bestEp /\ v = cap
        BY <1>3, <1>6, <1>7, <1>14, <3>1
      <4> QED
        BY <1>3, <1>7, <1>8, <3>1, <4>1
    <3>2. CASE ~(bestEp > bestCap)
      <4>1. cap = bestCap
        BY <1>3, <1>6, <3>2
      <4>2. PICK k \in moves : k.kind = "capture" /\ X(k) = cap
        BY <1>3, <1>4, <1>7, <1>14, <4>1
      <4>3. k \in NonEp
        BY <4>2 DEF NonEp
      <4>4. cap <= Wdl(W)
        BY <1>12, <4>2, <4>3
      <4>5. Wdl(W) <= cap
        BY <1>6, <1>7, <1>8, <1>14, <4>1
      <4> QED
        BY <1>6, <1>7, <4>4, <4>5
    <3> QED
      BY <3>1, <3>2
  <2>3. Wdl(Truth) = cap /\ (cap < 0 => Truth = W)
    <3>1. CASE NonEp = {}
      <4>1. \A m \in moves : X(m) \in -2..2 /\ X(m) <= cap
        BY <1>5, <1>10, <1>11, <3>1
      <4>2. PICK m \in moves : X(m) = Wdl(Truth)
        BY <1>3, <1>5, <2>1, BestClass
      <4>3. Wdl(Truth) = cap
        BY <1>5, <1>6, <2>1, <4>1, <4>2
      <4>4. ASSUME cap < 0
            PROVE  Truth = W
        <5>1. /\ v = Wdl(W) /\ bestCap = -3
              /\ (check => W = -1 /\ Wdl(W) = -2) /\ (~check => W = 0 /\ Wdl(W) = 0)
          BY <1>11, <3>1
        <5>2. cap >= -2 /\ cap >= v /\ cap = bestEp /\ bestEp > bestCap
          BY <1>3, <1>5, <1>6, <1>14, <2>1, <5>1
        <5>3. check
          BY <1>6, <4>4, <5>1, <5>2
        <5>4. v = -2 /\ ~(bestEp > v)
          BY <1>14, <5>1, <5>2, <5>3
        <5>5. cap = -2 /\ W = -1
          BY <1>3, <5>1, <5>2, <5>3, <5>4
        <5>6. \A k \in moves : k.kind \in Zeroing
          BY <1>11, <3>1
        <5>7. Truth = WdlToDtz(-2)
          BY <1>3, <1>5, <2>1, <4>3, <5>5, <5>6, ByZeroing
        <5> QED
          BY <5>5, <5>7, WdlToDtzType
      <4> QED
        BY <4>3, <4>4
    <3>2. CASE NonEp # {}
      <4>1. \A m \in moves \ NonEp : X(m) <= Wdl(W)
        BY <1>9, <1>10, <2>2, <3>2
      <4> QED
        BY <1>12, <2>2, <3>2, <4>1
    <3> QED
      BY <3>1, <3>2
  <2>4. cap > 0 => Truth = WdlToDtz(cap)
    BY <1>3, <1>5, <2>1, <2>3, ByZeroing DEF Zeroing
  <2> DEFINE s == IF cap > 0 THEN 2 ELSE 1
  <2>5. WdlKnown(cap, s)
    BY <1>14
  <2>6. (s = 2 => cap > 0) /\ (s # 2 => ~(cap > 0))
    OBVIOUS
  <2> HIDE DEF s
  <2>7. cap \in Int
    BY <1>6
  <2>8. /\ s = 2 /\ cap # 0 => Truth = WdlToDtz(cap)
        /\ s # 2 /\ cap # 0 => Truth = WithoutEp
        /\ s # 2 /\ cap > 0 => \A m \in Captures : X(m) < cap
    BY <2>3, <2>4, <2>6, <2>7 DEF W
  <2> QED
    BY <1>2, <2>3, <2>5, <2>8, WdlKnownStep
<1>15. CASE cap < v /\ bestEp > -3 /\ v = 0 /\ Stalemate /\ WdlKnown(bestEp, 2)
  <2>1. NonEp = {} /\ ~check
    BY <1>15 DEF Stalemate, NonEp
  <2>2. PICK e \in moves : e.kind = "ep" /\ X(e) = bestEp
    BY <1>3, <1>4, <1>15
  <2>3. cap = bestEp
    BY <1>3, <1>6, <1>11, <1>15, <2>1
  <2>4. \A m \in moves : X(m) \in -2..2 /\ X(m) <= bestEp /\ m.kind \in Zeroing
    BY <1>5, <1>10, <1>11, <2>1, <2>3
  <2>5. Wdl(Truth) = bestEp
    <3>1. PICK m \in moves : X(m) = Wdl(Truth)
      BY <1>3, <1>5, <2>2, BestClass
    <3> QED
      BY <1>3, <1>5, <2>2, <2>4, <3>1
  <2>6. Truth = WdlToDtz(bestEp)
    BY <1>3, <1>5, <2>2, <2>4, <2>5, ByZeroing
  <2>7. WdlKnown(bestEp, 2)
    BY <1>15
  <2> QED
    BY <1>2, <2>5, <2>6, <2>7, WdlKnownStep
<1>16. CASE cap < v /\ ~(bestEp > -3 /\ v = 0 /\ Stalemate) /\ WdlKnown(v, success)
  <2>1. v = Wdl(W)
    BY <1>3, <1>6, <1>7, <1>8, <1>16
  <2>2. Truth = W
    <3>1. CASE moves = {}
      BY <1>5, <1>9, <3>1 DEF W
    <3>2. CASE moves # {} /\ NonEp = {}
      <4>1. PICK e \in moves : e.kind = "ep" /\ X(e) \in -2..2 /\ X(e) <= cap
        BY <1>5, <1>10, <1>11, <3>2
      <4>2. bestEp > -3
        BY <1>3, <1>6, <1>11, <3>2, <4>1
      <4>3. v = (IF check THEN -2 ELSE 0)
        BY <1>11, <2>1, <3>2
      <4>4. check
        BY <1>16, <3>2, <4>2, <4>3 DEF Stalemate, NonEp
      <4> QED
        BY <1>6, <1>16, <4>1, <4>3, <4>4
    <3>3. CASE NonEp # {}
      <4>1. \A m \in moves \ NonEp : X(m) \in -2..2 /\ X(m) <= cap
        BY <1>5, <1>9, <1>10
      <4>2. \A m \in moves \ NonEp : X(m) <= Wdl(W) /\ X(m) < Wdl(W)
        BY <1>6, <1>7, <1>16, <2>1, <4>1
      <4> QED
        BY <1>12, <3>3, <4>2
    <3> QED
      BY <3>1, <3>2, <3>3
  <2>3. \A m \in Captures : X(m) < v
    <3> SUFFICES ASSUME NEW m \in Captures PROVE X(m) < v
      OBVIOUS
    <3>1. m \in moves /\ (m.kind = "capture" \/ m.kind = "ep")
      BY DEF Captures, is_capture
    <3>2. X(m) \in -2..2 /\ X(m) <= cap
      BY <1>5, <1>10, <3>1
    <3> QED
      BY <1>6, <1>7, <1>16, <3>2
  <2>4. WdlKnown(v, 1)
    BY <1>3, <1>16
  <2>5. v = Wdl(Truth) /\ Truth = WithoutEp
    BY <2>1, <2>2 DEF W
  <2> QED
    BY <1>2, <2>3, <2>4, <2>5, WdlKnownStep
<1> QED
  BY <1>1, <1>13, <1>14, <1>15, <1>16 DEF cap
-----------------------------------------------------------------------------

\* probe_dtz.
LEMMA AtDtz ==
  ASSUME IInv, pc \in {"dtz", "ply"}
  PROVE  /\ Position /\ moves \subseteq LegalMove /\ Truth \in Int /\ WithoutEp = Truth
         /\ Truth = Value(moves, check)
         /\ wdl = Wdl(Truth) /\ wdl \in -2..2 /\ wdl # 0 /\ Nothing \notin Int
         /\ dtz = Nothing /\ scores = <<>>
         /\ \A m \in moves : X(m) \in -2..2 /\ X(m) <= wdl /\ Worth(m) \in Int
         /\ wdl > 0 => \A m \in moves \ todo : m.kind \in Zeroing => X(m) < wdl
         /\ wdl < 0 /\ pc = "dtz" => todo = {}
         /\ pc = "dtz" => \A m \in todo : m.kind = "pawn"
  BY TruthType, LimitIs DEF IInv, Position, Known, DtzInv, Truth

LEMMA DtzPawnStep == IInv /\ DtzPawn => IInv'
<1> SUFFICES ASSUME IInv, DtzPawn PROVE IInv'
  OBVIOUS
<1>1. pc = "dtz" /\ UNCHANGED <<moves, check, exact, cnt50, success, wdl, scores>>
  BY DEF DtzPawn, asked
<1>2. PICK m \in todo : IF X(m) = wdl
                        THEN DtzKnown(WdlToDtz(wdl))
                        ELSE todo' = todo \ {m} /\ UNCHANGED <<dtz, pc>>
  BY DEF DtzPawn, X
<1>3. /\ Position /\ moves \subseteq LegalMove /\ Truth \in Int
      /\ wdl = Wdl(Truth) /\ wdl \in -2..2 /\ wdl # 0 /\ Nothing \notin Int
      /\ Truth = Value(moves, check) /\ dtz = Nothing /\ scores = <<>> /\ WithoutEp = Truth
  BY <1>1, AtDtz
<1>4. /\ \A k \in moves : X(k) \in -2..2 /\ X(k) <= wdl /\ Worth(k) \in Int
      /\ wdl > 0 => \A k \in moves \ todo : k.kind \in Zeroing => X(k) < wdl
      /\ wdl < 0 => todo = {}
      /\ \A k \in todo : k.kind = "pawn"
  BY <1>1, AtDtz
<1>5. m \in moves /\ m.kind = "pawn" /\ wdl > 0
  BY <1>2, <1>3, <1>4 DEF Position
<1>6. CASE X(m) = wdl
  <2>1. dtz' = WdlToDtz(wdl) /\ pc' = "root" /\ todo' = moves
    BY <1>2, <1>6 DEF DtzKnown
  <2>2. Truth = WdlToDtz(wdl)
    BY <1>3, <1>5, <1>6, ByZeroing DEF Zeroing
  <2>3. dtz' \in Promised_dtz(Truth)
    BY <2>1, <2>2 DEF Promised_dtz
  <2> QED
    BY <1>1, <1>3, <2>1, <2>3, ToRoot
<1>7. CASE X(m) # wdl
  <2>1. todo' = todo \ {m} /\ pc' = "dtz" /\ dtz' = Nothing
    BY <1>1, <1>2, <1>3, <1>7
  <2>2. Truth' = Truth /\ WithoutEp' = WithoutEp
    BY <1>1, Frame
  <2>3. wdl' = Wdl(Truth)'
    BY <1>1, <1>3, <2>2 DEF Wdl
  <2>4. Position'
    BY <1>1, <1>3, <2>1, PositionStays DEF Position
  <2>5. Known' /\ WdlIsExact' /\ DtzIsClose' /\ RootKeepsValue'
    BY <2>1, <2>3 DEF Known, WdlIsExact, DtzIsClose, RootKeepsValue
  <2>6. DtzInv'
    <3>1. X(m) < wdl
      BY <1>3, <1>4, <1>5, <1>7
    <3>2. \A k \in moves' \ todo' : k.kind \in Zeroing => X(k) < wdl
      BY <1>1, <1>4, <1>5, <2>1, <3>1
    <3>3. \A k \in todo' : k.kind = "pawn"
      BY <1>4, <2>1
    <3> QED
      BY <1>1, <1>3, <1>5, <2>1, <2>2, <2>3, <3>2, <3>3 DEF DtzInv, X, Wdl, Worth, WdlToDtz, OnePly
  <2>7. AbInv' /\ WdlInv' /\ PlyInv' /\ RootInv'
    BY <2>1 DEF AbInv, WdlInv, PlyInv, RootInv
  <2> QED
    BY <1>1, <1>3, <2>1, <2>4, <2>5, <2>6, <2>7 DEF IInv
<1> QED
  BY <1>6, <1>7

LEMMA DtzProbeStep == IInv /\ DtzProbe => IInv'
<1> SUFFICES ASSUME IInv, DtzProbe PROVE IInv'
  OBVIOUS
<1>1. pc = "dtz" /\ todo = {} /\ UNCHANGED <<moves, check, exact, cnt50, success, wdl, scores>>
  BY DEF DtzProbe, asked
<1>2. /\ Position /\ moves \subseteq LegalMove /\ Truth \in Int
      /\ wdl = Wdl(Truth) /\ wdl \in -2..2 /\ wdl # 0 /\ Nothing \notin Int
      /\ dtz = Nothing /\ scores = <<>> /\ WithoutEp = Truth
      /\ wdl > 0 => \A k \in moves : k.kind \in Zeroing => X(k) < wdl
  BY <1>1, AtDtz
<1>3. CASE DtzKnown(WdlToDtz(wdl) + (IF wdl > 0 THEN Raw(WithoutEp) ELSE -Raw(WithoutEp)))
  <2>1. Truth # 0
    BY <1>2, WdlType
  <2>2. dtz' \in Promised_dtz(Truth) /\ pc' = "root" /\ todo' = moves
    BY <1>2, <1>3, <2>1, RawPromise DEF DtzKnown
  <2> QED
    BY <1>1, <1>2, <2>2, ToRoot
<1>4. CASE /\ best' = Start(wdl) /\ pc' = "ply"
           /\ todo' = {m \in moves : m.kind = "quiet"}
           /\ UNCHANGED dtz
  <2>1. todo' = Quiets /\ todo' = Quiets' /\ pc' = "ply" /\ dtz' = Nothing
    BY <1>1, <1>2, <1>4 DEF Quiets
  <2>2. Truth' = Truth /\ WithoutEp' = WithoutEp
    BY <1>1, Frame
  <2>3. wdl' = Wdl(Truth)'
    BY <1>1, <1>2, <2>2 DEF Wdl
  <2>4. Position'
    BY <1>1, <1>2, <2>1, PositionStays DEF Quiets
  <2>5. Known' /\ WdlIsExact' /\ DtzIsClose' /\ RootKeepsValue'
    BY <2>1, <2>3 DEF Known, WdlIsExact, DtzIsClose, RootKeepsValue
  <2>6. DtzInv'
    <3>1. wdl > 0 => \A k \in moves' \ todo' : k.kind \in Zeroing => X(k) < wdl
      BY <1>1, <1>2
    <3> QED
      BY <1>1, <1>2, <2>1, <2>2, <2>3, <3>1 DEF DtzInv, X, Wdl, Worth, WdlToDtz, OnePly
  <2>7. PlyInv'
    <3>1. Start(wdl) \in Int
      BY <1>2, LimitIs, WdlToDtzType DEF Start
    <3>2. best' = Start(wdl)' /\ best' \in Int /\ best' <= Start(wdl)'
      BY <1>1, <1>4, <3>1 DEF Start, WdlToDtz
    <3> QED
      BY <2>1, <3>2 DEF PlyInv
  <2>8. AbInv' /\ WdlInv' /\ RootInv'
    BY <2>1 DEF AbInv, WdlInv, RootInv
  <2> QED
    BY <1>1, <1>2, <2>1, <2>4, <2>5, <2>6, <2>7, <2>8 DEF IInv
<1> QED
  BY <1>3, <1>4 DEF DtzProbe

\* What probe_dtz sees of a quiet move: one ply more than the answer, which it
\* takes if it is the shortest yet and on the side of the value.
LEMMA PlyMove ==
  ASSUME IInv, pc = "ply", NEW m \in todo, NEW r \in Promised_dtz(m.dtz),
         NEW b, b = CASE -r = 1 /\ m.mate -> 1
                      [] ~(-r = 1 /\ m.mate) /\ wdl > 0 ->
                           IF -r > 0 /\ -r + 1 < best THEN -r + 1 ELSE best
                      [] OTHER -> IF -r - 1 < best THEN -r - 1 ELSE best
  PROVE  \/ ~SameSign(Worth(m), wdl) /\ b = best
         \/ /\ SameSign(Worth(m), wdl)
            /\ \E c \in Promised_dtz(Worth(m)) :
                 c \in Int /\ b = (IF c < best THEN c ELSE best)
<1>1. /\ Position /\ moves \subseteq LegalMove /\ Truth \in Int
      /\ wdl = Wdl(Truth) /\ wdl \in -2..2 /\ wdl # 0
      /\ Truth = Value(moves, check)
      /\ \A k \in moves : X(k) \in -2..2 /\ X(k) <= wdl /\ Worth(k) \in Int
  BY AtDtz
<1>2. /\ m \in Quiets /\ m \in moves /\ m.kind = "quiet" /\ best \in Int
      /\ best = Start(wdl) \/ \E k \in Quiets : SameSign(Worth(k), wdl) /\ best \in Promised_dtz(Worth(k))
  BY DEF IInv, PlyInv, Quiets
<1>3. m \in LegalMove /\ MayBeHere(m.dtz) /\ m.dtz \in Int /\ m.mate \in BOOLEAN
      /\ (m.mate => m.dtz = -1)
  BY <1>1, <1>2, WorthType DEF Position
<1>4. /\ r \in Int /\ Wdl(r) = Wdl(m.dtz)
      /\ OnePly(-r) \in Promised_dtz(OnePly(-m.dtz)) /\ OnePly(-r) \in Int
      /\ (m.dtz < 0 => r < 0 /\ OnePly(-r) = -r + 1) /\ (m.dtz > 0 => r > 0 /\ OnePly(-r) = -r - 1)
      /\ (m.dtz = 0 => r = 0)
  BY <1>3, PromisedIs, OnePlyPromise
<1>5. /\ m.mate => Worth(m) = 1
      /\ ~m.mate => Worth(m) = OnePly(-m.dtz)
  <2>1. m.kind \notin Zeroing
    BY <1>2 DEF Zeroing
  <2>2. CASE m.mate
    BY <2>2 DEF Worth
  <2>3. CASE ~m.mate
    BY <2>1, <2>3 DEF Worth
  <2> QED
    BY <2>2, <2>3
<1>6. wdl < 0 => Worth(m) < 0
  <2> SUFFICES ASSUME wdl < 0 PROVE Worth(m) < 0
    OBVIOUS
  <2>1. Worth(m) \in Int /\ X(m) < 0
    BY <1>1, <1>2
  <2> QED
    BY <2>1, WdlType DEF X
<1>7. CASE m.mate
  <2>1. r \in Int /\ r + 1 = 0
    <3>1. r \in Promised_dtz(-1)
      BY <1>3, <1>7
    <3>2. r \in Int /\ r = -1
      BY <3>1, PromisedIs
    <3> QED
      BY <3>2
  <2>2. b = 1
    <3>1. -r = 1
      BY <2>1
    <3> QED
      BY <1>7, <3>1
  <2>3. wdl > 0 /\ SameSign(Worth(m), wdl) /\ 1 \in Promised_dtz(Worth(m))
    BY <1>1, <1>5, <1>6, <1>7 DEF SameSign, Promised_dtz
  <2>4. best >= 1
    <3>1. CASE best = Start(wdl)
      BY <2>3, <3>1, LimitIs DEF Start
    <3>2. CASE \E k \in Quiets : SameSign(Worth(k), wdl) /\ best \in Promised_dtz(Worth(k))
      <4>1. PICK k \in moves : SameSign(Worth(k), wdl) /\ best \in Promised_dtz(Worth(k))
        BY <3>2 DEF Quiets
      <4>2. Worth(k) \in Int /\ Worth(k) > 0
        BY <1>1, <2>3, <4>1 DEF SameSign
      <4> QED
        BY <1>2, <4>1, <4>2, PromisedIs
    <3> QED
      BY <1>2, <3>1, <3>2
  <2>5. b = IF 1 < best THEN 1 ELSE best
    BY <1>2, <2>2, <2>4
  <2> QED
    BY <2>3, <2>5
<1>8. CASE ~m.mate
  <2>1. b = IF wdl > 0 THEN IF -r > 0 /\ -r + 1 < best THEN -r + 1 ELSE best
                       ELSE IF -r - 1 < best THEN -r - 1 ELSE best
    <3>1. CASE wdl > 0
      BY <1>8, <3>1
    <3>2. CASE ~(wdl > 0)
      BY <1>8, <3>2
    <3> QED
      BY <3>1, <3>2
  <2>2. Worth(m) = OnePly(-m.dtz) /\ OnePly(-r) \in Promised_dtz(Worth(m))
    BY <1>4, <1>5, <1>8
  <2>3. /\ m.dtz < 0 => Worth(m) > 0
        /\ m.dtz > 0 => Worth(m) < 0
        /\ m.dtz = 0 => Worth(m) = 0
    BY <1>3, <2>2 DEF OnePly
  <2>4. CASE wdl > 0
    <3>1. CASE m.dtz < 0
      <4>1. SameSign(Worth(m), wdl)
        BY <2>3, <2>4, <3>1 DEF SameSign
      <4>2. b = IF OnePly(-r) < best THEN OnePly(-r) ELSE best
        BY <1>4, <2>1, <2>4, <3>1
      <4> QED
        BY <1>4, <2>2, <4>1, <4>2
    <3>2. CASE ~(m.dtz < 0)
      <4>1. ~SameSign(Worth(m), wdl)
        BY <1>1, <1>2, <1>3, <2>3, <2>4, <3>2 DEF SameSign
      <4>2. ~(-r > 0)
        BY <1>3, <1>4, <3>2
      <4> QED
        BY <2>1, <2>4, <4>1, <4>2
    <3> QED
      BY <3>1, <3>2
  <2>5. CASE ~(wdl > 0)
    <3>1. wdl < 0 /\ Worth(m) < 0
      BY <1>1, <1>6, <2>5
    <3>2. m.dtz > 0
      BY <1>1, <1>2, <1>3, <2>3, <3>1
    <3>3. SameSign(Worth(m), wdl)
      BY <3>1 DEF SameSign
    <3>4. b = IF OnePly(-r) < best THEN OnePly(-r) ELSE best
      BY <1>4, <2>1, <2>5, <3>2
    <3> QED
      BY <1>4, <2>2, <3>3, <3>4
  <2> QED
    BY <2>4, <2>5
<1> QED
  BY <1>3, <1>7, <1>8

LEMMA DtzPlyStep == IInv /\ DtzPly => IInv'
<1> SUFFICES ASSUME IInv, DtzPly PROVE IInv'
  OBVIOUS
<1>1. pc = "ply" /\ pc' = "ply" /\ UNCHANGED <<moves, check, exact, cnt50, success, wdl, dtz, scores>>
  BY DEF DtzPly, asked
<1>2. PICK m \in todo : \E r \in Promised_dtz(m.dtz) :
         /\ todo' = todo \ {m}
         /\ best' = CASE -r = 1 /\ m.mate -> 1
                      [] ~(-r = 1 /\ m.mate) /\ wdl > 0 ->
                           IF -r > 0 /\ -r + 1 < best THEN -r + 1 ELSE best
                      [] OTHER -> IF -r - 1 < best THEN -r - 1 ELSE best
  BY DEF DtzPly
<1>3. PICK r \in Promised_dtz(m.dtz) :
         /\ todo' = todo \ {m}
         /\ best' = CASE -r = 1 /\ m.mate -> 1
                      [] ~(-r = 1 /\ m.mate) /\ wdl > 0 ->
                           IF -r > 0 /\ -r + 1 < best THEN -r + 1 ELSE best
                      [] OTHER -> IF -r - 1 < best THEN -r - 1 ELSE best
  BY <1>2
<1>4. \/ ~SameSign(Worth(m), wdl) /\ best' = best
      \/ /\ SameSign(Worth(m), wdl)
         /\ \E c \in Promised_dtz(Worth(m)) :
              c \in Int /\ best' = (IF c < best THEN c ELSE best)
  BY <1>1, <1>3, PlyMove
<1>5. /\ Position /\ Truth \in Int /\ WithoutEp = Truth
      /\ wdl = Wdl(Truth) /\ wdl \in -2..2 /\ wdl # 0 /\ dtz = Nothing /\ scores = <<>>
      /\ \A k \in moves : Worth(k) \in Int
      /\ wdl > 0 => \A k \in moves \ todo : k.kind \in Zeroing => X(k) < wdl
  BY <1>1, AtDtz
<1>6. /\ todo \subseteq Quiets
      /\ best \in Int /\ best <= Start(wdl)
      /\ \/ best = Start(wdl)
         \/ \E k \in Quiets : SameSign(Worth(k), wdl) /\ best \in Promised_dtz(Worth(k))
      /\ \A k \in Quiets \ todo :
           SameSign(Worth(k), wdl) => \E c \in Promised_dtz(Worth(k)) : best <= c
  BY <1>1 DEF IInv, PlyInv
<1>7. Truth' = Truth /\ WithoutEp' = WithoutEp /\ Quiets' = Quiets
      /\ \A n : Promised_dtz(n)' = Promised_dtz(n)
  BY <1>1, Frame
<1>8. Position'
  BY <1>1, <1>3, <1>5, PositionStays DEF Position
<1>9. Known' /\ WdlIsExact' /\ DtzIsClose' /\ RootKeepsValue'
  BY <1>1, <1>5, <1>7 DEF Known, WdlIsExact, DtzIsClose, RootKeepsValue, Wdl
<1>10. DtzInv'
  <2>1. m.kind \notin Zeroing
    BY <1>6 DEF Quiets, Zeroing
  <2>2. wdl > 0 => \A k \in moves' \ todo' : k.kind \in Zeroing => X(k) < wdl
    BY <1>1, <1>3, <1>5, <2>1
  <2> QED
    BY <1>1, <1>5, <1>7, <2>2 DEF DtzInv, X, Wdl, Worth, WdlToDtz, OnePly
<1>11. PlyInv'
  <2>1. Start(wdl) \in Int
    BY <1>5, LimitIs, WdlToDtzType DEF Start
  <2>2. best' \in Int /\ best' <= best /\ best' <= Start(wdl)
    BY <1>4, <1>6, <2>1
  <2>3. \/ best' = Start(wdl)
        \/ \E k \in Quiets : SameSign(Worth(k), wdl) /\ best' \in Promised_dtz(Worth(k))
    <3>1. CASE best' = best
      BY <1>6, <3>1
    <3>2. CASE best' # best
      BY <1>4, <1>6, <3>2
    <3> QED
      BY <3>1, <3>2
  <2>4. ASSUME NEW k \in Quiets \ todo', SameSign(Worth(k), wdl)
        PROVE  \E c \in Promised_dtz(Worth(k)) : best' <= c
    <3>1. CASE k = m
      BY <1>4, <1>6, <2>4, <3>1
    <3>2. CASE k # m
      <4>1. PICK c \in Promised_dtz(Worth(k)) : best <= c
        BY <1>3, <1>6, <2>4, <3>2
      <4>2. c \in Int
        BY <1>5, <2>4, PromisedIs DEF Quiets
      <4> QED
        BY <1>6, <2>2, <4>1, <4>2
    <3> QED
      BY <3>1, <3>2
  <2>5. todo' \subseteq Quiets'
    BY <1>3, <1>6, <1>7
  <2>6. \A k \in Quiets' \ todo' :
           SameSign(Worth(k), wdl) => \E c \in Promised_dtz(Worth(k))' : best' <= c
    BY <1>7, <2>4
  <2>7. \/ best' = Start(wdl)
        \/ \E k \in Quiets' : SameSign(Worth(k), wdl) /\ best' \in Promised_dtz(Worth(k))'
    BY <1>7, <2>3
  <2>8. wdl' = wdl
    BY <1>1
  <2> QED
    BY <2>2, <2>5, <2>6, <2>7, <2>8 DEF PlyInv, SameSign, Start, Worth, Wdl, WdlToDtz, OnePly
<1>12. AbInv' /\ WdlInv' /\ RootInv'
  BY <1>1 DEF AbInv, WdlInv, RootInv
<1> QED
  BY <1>1, <1>5, <1>8, <1>9, <1>10, <1>11, <1>12 DEF IInv

\* When it has seen them all, the distance is near enough.
LEMMA PlyPromise ==
  ASSUME IInv, pc = "ply", todo = {}
  PROVE  best \in Promised_dtz(Truth)
<1>1. /\ moves \subseteq LegalMove /\ Truth \in Int
      /\ wdl = Wdl(Truth) /\ wdl \in -2..2 /\ wdl # 0
      /\ Truth = Value(moves, check) /\ check \in BOOLEAN
      /\ \A m \in moves : X(m) \in -2..2 /\ X(m) <= wdl /\ Worth(m) \in Int
      /\ wdl > 0 => \A m \in moves : m.kind \in Zeroing => X(m) < wdl
  BY AtDtz DEF Position
<1>2. /\ best \in Int /\ best <= Start(wdl)
      /\ \/ best = Start(wdl)
         \/ \E m \in Quiets : SameSign(Worth(m), wdl) /\ best \in Promised_dtz(Worth(m))
      /\ \A m \in Quiets :
           SameSign(Worth(m), wdl) => \E c \in Promised_dtz(Worth(m)) : best <= c
  BY DEF IInv, PlyInv
<1>3. \A m \in moves : m \in Quiets \/ m.kind \in Zeroing
  BY <1>1, WorthType DEF Quiets
<1>4. Quiets \subseteq moves
  BY DEF Quiets
<1>5. CASE wdl > 0
  <2>1. Truth > 0 /\ moves # {}
    <3>1. Truth > 0
      BY <1>1, <1>5, WdlType
    <3>2. moves = {} => Truth \in {-1, 0}
      BY <1>1, ValueType
    <3> QED
      BY <3>1, <3>2
  <2>2. PICK t \in moves : Worth(t) = Truth
    BY <1>1, <2>1, ValueIs
  <2>3. t \in Quiets /\ SameSign(Worth(t), wdl)
    <3>1. X(t) = wdl
      BY <1>1, <2>2 DEF X
    <3>2. t.kind \notin Zeroing
      BY <1>1, <1>5, <3>1
    <3> QED
      BY <1>3, <1>5, <2>1, <2>2, <3>2 DEF SameSign
  <2>4. PICK c \in Promised_dtz(Truth) : best <= c
    BY <1>2, <2>2, <2>3
  <2>5. c \in Int /\ (c = Truth \/ (c = Truth - 1 /\ c > 0))
    BY <1>1, <2>1, <2>4, PromisedIs
  <2>6. best < Start(wdl)
    <3>1. Truth <= Limit + 3
      BY <1>1, <2>2, WorthType
    <3> QED
      BY <1>1, <1>2, <1>5, <2>4, <2>5, <3>1, LimitIs DEF Start
  <2>7. PICK m \in Quiets : SameSign(Worth(m), wdl) /\ best \in Promised_dtz(Worth(m))
    BY <1>1, <1>2, <2>6
  <2>8. Worth(m) \in Int /\ Worth(m) > 0 /\ Truth <= Worth(m)
    <3>1. m \in moves /\ Worth(m) \in Int /\ Worth(m) > 0
      BY <1>1, <1>4, <1>5, <2>7 DEF SameSign
    <3> QED
      BY <1>1, <2>1, <3>1, ValueIs
  <2>9. best = Worth(m) \/ best = Worth(m) - 1
    BY <2>7, <2>8, PromisedIs
  <2>10. CASE Worth(m) = Truth
    BY <2>7, <2>10
  <2>11. CASE Worth(m) # Truth
    <3>1. best = Truth
      BY <1>1, <1>2, <2>4, <2>5, <2>8, <2>9, <2>11
    <3> QED
      BY <3>1 DEF Promised_dtz
  <2> QED
    BY <2>10, <2>11
<1>6. CASE wdl < 0
  <2>1. Truth < 0 /\ Truth <= WdlToDtz(wdl) /\ WdlToDtz(wdl) \in Int
    BY <1>1, <1>6, WdlType, ClassBound
  <2>2. Start(wdl) = WdlToDtz(wdl)
    BY <1>1, <1>6 DEF Start
  <2>3. Truth <= best
    <3>1. CASE best = Start(wdl)
      BY <2>1, <2>2, <3>1
    <3>2. CASE \E m \in Quiets : SameSign(Worth(m), wdl) /\ best \in Promised_dtz(Worth(m))
      <4>1. PICK m \in Quiets : SameSign(Worth(m), wdl) /\ best \in Promised_dtz(Worth(m))
        BY <3>2
      <4>2. m \in moves /\ Worth(m) \in Int /\ moves # {}
        BY <1>1, <1>4
      <4>3. Worth(m) < 0 /\ Truth <= Worth(m)
        BY <1>1, <2>1, <4>2, ValueIs
      <4>4. best = Worth(m) \/ best = Worth(m) + 1
        BY <4>1, <4>2, <4>3, PromisedIs
      <4> QED
        BY <1>1, <1>2, <4>2, <4>3, <4>4
    <3> QED
      BY <1>2, <3>1, <3>2
  <2>4. CASE \E t \in Quiets : Worth(t) = Truth
    <3>1. PICK t \in Quiets : Worth(t) = Truth
      BY <2>4
    <3>2. SameSign(Worth(t), wdl)
      BY <1>6, <2>1, <3>1 DEF SameSign
    <3>3. PICK c \in Promised_dtz(Truth) : best <= c
      BY <1>2, <3>1, <3>2
    <3>4. c \in Int /\ (c = Truth \/ c = Truth + 1)
      BY <1>1, <2>1, <3>3, PromisedIs
    <3>5. best = Truth \/ best = c
      BY <1>1, <1>2, <2>3, <3>3, <3>4
    <3> QED
      BY <3>3, <3>5 DEF Promised_dtz
  <2>5. CASE ~\E t \in Quiets : Worth(t) = Truth
    <3>1. Truth = WdlToDtz(wdl)
      <4>1. CASE moves = {}
        <5>1. Truth = -1
          <6>1. Truth = IF check THEN -1 ELSE 0
            BY <1>1, <4>1, ValueType
          <6> QED
            BY <2>1, <6>1
        <5>2. wdl = -2
          BY <1>1, <5>1, LimitIs, WdlIs
        <5> QED
          BY <5>1, <5>2, WdlToDtzType
      <4>2. CASE moves # {}
        <5>1. PICK t \in moves : Worth(t) = Truth
          BY <1>1, <4>2, ValueIs
        <5>2. t.kind \in Zeroing
          BY <1>3, <2>5, <5>1
        <5> QED
          BY <1>1, <5>1, <5>2, ZeroingWorth DEF X
      <4> QED
        BY <4>1, <4>2
    <3>2. best = Truth
      BY <1>1, <1>2, <2>2, <2>3, <3>1
    <3> QED
      BY <3>2 DEF Promised_dtz
  <2> QED
    BY <2>4, <2>5
<1> QED
  BY <1>1, <1>5, <1>6

LEMMA DtzPlyDoneStep == IInv /\ DtzPlyDone => IInv'
<1> SUFFICES ASSUME IInv, DtzPlyDone PROVE IInv'
  OBVIOUS
<1>1. pc = "ply" /\ todo = {} /\ dtz' = best /\ pc' = "root" /\ todo' = moves
      /\ UNCHANGED <<moves, check, exact, cnt50, wdl, scores>>
  BY DEF DtzPlyDone, DtzKnown, asked
<1>2. wdl = Wdl(Truth) /\ wdl \in -2..2 /\ scores = <<>>
  BY <1>1, AtDtz
<1>3. best \in Promised_dtz(Truth)
  BY <1>1, PlyPromise
<1> QED
  BY <1>1, <1>2, <1>3, ToRoot
-----------------------------------------------------------------------------

\* probe_root.
LEMMA AtRoot ==
  ASSUME IInv, pc = "root"
  PROVE  /\ Position /\ moves \subseteq LegalMove /\ Truth \in Int /\ check \in BOOLEAN
         /\ Truth = Value(moves, check)
         /\ wdl = Wdl(Truth) /\ wdl # Nothing /\ dtz # Nothing
         /\ dtz \in Promised_dtz(Truth) /\ dtz \in Int
         /\ (dtz > 0 <=> Truth > 0) /\ (dtz < 0 <=> Truth < 0)
         /\ \A m \in moves : X(m) \in -2..2 /\ X(m) <= Wdl(Truth) /\ Worth(m) \in Int
         /\ DOMAIN scores = moves \ todo
         /\ \A m \in moves \ todo : Close(m, scores[m])
<1>1. /\ Position /\ moves \subseteq LegalMove /\ check \in BOOLEAN
      /\ wdl # Nothing /\ wdl = Wdl(Truth) /\ dtz # Nothing /\ dtz \in Promised_dtz(Truth)
      /\ DOMAIN scores = moves \ todo
      /\ \A m \in moves \ todo : Close(m, scores[m])
  BY DEF IInv, Position, Known, RootInv
<1>2. Truth \in Int /\ Truth = Value(moves, check)
      /\ \A m \in moves : X(m) \in -2..2 /\ X(m) <= Wdl(Truth) /\ Worth(m) \in Int
  BY <1>1, TruthType DEF Truth
<1>3. dtz \in Int /\ Wdl(dtz) = Wdl(Truth)
  BY <1>1, <1>2, PromisedIs
<1>4. (dtz > 0 <=> Truth > 0) /\ (dtz < 0 <=> Truth < 0)
  <2>1. /\ (Wdl(dtz) > 0 <=> dtz > 0) /\ (Wdl(dtz) < 0 <=> dtz < 0)
        /\ (Wdl(Truth) > 0 <=> Truth > 0) /\ (Wdl(Truth) < 0 <=> Truth < 0)
    BY <1>2, <1>3, WdlType
  <2> QED
    BY <1>3, <2>1
<1> QED
  BY <1>1, <1>2, <1>3, <1>4

\* The score of a move is what the move is worth, up to one ply.
LEMMA RootScore ==
  ASSUME IInv, pc = "root", NEW m \in moves,
         NEW r, r \in IF m.kind = "quiet" THEN Promised_dtz(m.dtz) ELSE {m.dtz},
         NEW s, s = CASE dtz > 0 /\ m.mate -> 1
                      [] m.kind = "quiet" /\ ~(dtz > 0 /\ m.mate) -> OnePly(-r)
                      [] OTHER -> WdlToDtz(-Wdl(r))
  PROVE  Close(m, s)
<1>1. /\ Position /\ moves \subseteq LegalMove /\ Truth \in Int /\ Truth = Value(moves, check)
      /\ (dtz > 0 <=> Truth > 0) /\ Worth(m) \in Int
  BY AtRoot
<1>2. m \in LegalMove /\ m.dtz \in Int /\ m.mate \in BOOLEAN /\ (m.mate => m.dtz = -1)
      /\ m.kind \in Zeroing \union {"quiet"}
  BY <1>1, WorthType
<1>3. Worth(m) \in Promised_dtz(Worth(m))
  BY DEF Promised_dtz
<1>4. CASE m.mate
  <2>1. Worth(m) = 1
    BY <1>4 DEF Worth
  <2>2. dtz > 0
    <3>1. Truth > 0
      BY <1>1, <2>1, ValueIs
    <3> QED
      BY <1>1, <3>1
  <2>3. s = 1
    BY <1>4, <2>2
  <2> QED
    BY <1>3, <1>4, <2>1, <2>3 DEF Close
<1>5. CASE ~m.mate /\ m.kind = "quiet"
  <2>1. s = OnePly(-r)
    BY <1>5
  <2>2. Worth(m) = OnePly(-m.dtz)
    BY <1>5 DEF Worth, Zeroing
  <2>3. r \in Promised_dtz(m.dtz)
    BY <1>5
  <2>4. MayBeHere(m.dtz)
    BY <1>1, <1>5 DEF Position, Quiets
  <2>5. OnePly(-r) \in Promised_dtz(OnePly(-m.dtz)) /\ OnePly(-r) # 1 /\ OnePly(-r) # -1
    BY <1>2, <2>3, <2>4, OnePlyPromise
  <2> QED
    BY <2>1, <2>2, <2>5 DEF Close
<1>6. CASE ~m.mate /\ m.kind # "quiet"
  <2>1. r = m.dtz /\ m.kind \in Zeroing
    BY <1>2, <1>6
  <2>2. s = WdlToDtz(-Wdl(r))
    BY <1>6
  <2>3. Worth(m) = s
    BY <1>6, <2>1, <2>2 DEF Worth
  <2> QED
    BY <1>3, <1>6, <2>3 DEF Close
<1> QED
  BY <1>2, <1>4, <1>5, <1>6

LEMMA RootMoveStep == IInv /\ RootMove => IInv'
<1> SUFFICES ASSUME IInv, RootMove PROVE IInv'
  OBVIOUS
<1>1. pc = "root" /\ pc' = "root" /\ UNCHANGED <<moves, check, exact, cnt50, wdl, dtz, success>>
  BY DEF RootMove, asked
<1>2. PICK m \in todo :
       \E r \in IF m.kind = "quiet" THEN Promised_dtz(m.dtz) ELSE {m.dtz} :
         /\ todo' = todo \ {m}
         /\ LET score == CASE dtz > 0 /\ m.mate -> 1
                           [] m.kind = "quiet" /\ ~(dtz > 0 /\ m.mate) -> OnePly(-r)
                           [] OTHER -> WdlToDtz(-Wdl(r))
            IN  scores' = [k \in DOMAIN scores \union {m} |-> IF k = m THEN score ELSE scores[k]]
  BY <1>1 DEF RootMove
<1>3. PICK r \in IF m.kind = "quiet" THEN Promised_dtz(m.dtz) ELSE {m.dtz} :
         /\ todo' = todo \ {m}
         /\ LET score == CASE dtz > 0 /\ m.mate -> 1
                           [] m.kind = "quiet" /\ ~(dtz > 0 /\ m.mate) -> OnePly(-r)
                           [] OTHER -> WdlToDtz(-Wdl(r))
            IN  scores' = [k \in DOMAIN scores \union {m} |-> IF k = m THEN score ELSE scores[k]]
  BY <1>2
<1> DEFINE s == CASE dtz > 0 /\ m.mate -> 1
                  [] m.kind = "quiet" /\ ~(dtz > 0 /\ m.mate) -> OnePly(-r)
                  [] OTHER -> WdlToDtz(-Wdl(r))
<1>4. /\ todo' = todo \ {m}
      /\ scores' = [k \in DOMAIN scores \union {m} |-> IF k = m THEN s ELSE scores[k]]
  BY <1>3
<1>5. /\ Position /\ wdl = Wdl(Truth) /\ dtz # Nothing /\ wdl # Nothing
      /\ dtz \in Promised_dtz(Truth)
      /\ DOMAIN scores = moves \ todo
      /\ \A k \in moves \ todo : Close(k, scores[k])
  BY <1>1, AtRoot
<1>6. m \in moves /\ todo \subseteq moves
  BY <1>5 DEF Position
<1>7. Close(m, s)
  BY <1>1, <1>3, <1>6, RootScore
<1> HIDE DEF s
<1>8. DOMAIN scores' = moves \ todo' /\ \A k \in moves \ todo' : Close(k, scores'[k])
  <2>1. DOMAIN scores \union {m} = moves \ todo'
    BY <1>4, <1>5, <1>6
  <2>2. scores' = [k \in moves \ todo' |-> IF k = m THEN s ELSE scores[k]]
    BY <1>4, <2>1
  <2>3. \A k \in moves \ todo' : scores'[k] = IF k = m THEN s ELSE scores[k]
    BY <2>2
  <2>4. ASSUME NEW k \in moves \ todo'
        PROVE  Close(k, scores'[k])
    <3>1. CASE k = m
      BY <1>7, <2>3, <2>4, <3>1
    <3>2. CASE k # m
      <4>1. k \in moves \ todo /\ scores'[k] = scores[k]
        BY <1>4, <2>3, <2>4, <3>2
      <4> QED
        BY <1>5, <4>1
    <3> QED
      BY <3>1, <3>2
  <2> QED
    BY <2>2, <2>4
<1>9. Truth' = Truth /\ \A n : Promised_dtz(n)' = Promised_dtz(n)
  BY <1>1, Frame
<1>10. RootInv'
  <2>1. \A k \in moves' \ todo' :
          /\ scores'[k] \in Promised_dtz(Worth(k))
          /\ k.kind = "quiet" /\ ~k.mate => scores'[k] # 1 /\ scores'[k] # -1
    BY <1>1, <1>8 DEF Close
  <2>2. \A k \in moves' \ todo' : scores'[k] \in Promised_dtz(Worth(k))'
    BY <1>9, <2>1
  <2> QED
    BY <1>1, <1>5, <1>8, <2>1, <2>2 DEF RootInv, Close
<1>11. Position'
  BY <1>1, <1>4, <1>5, <1>6, PositionStays
<1>12. wdl' = Wdl(Truth)' /\ dtz' \in Promised_dtz(Truth)'
  BY <1>1, <1>5, <1>9 DEF Wdl, Promised_dtz, InMoves
<1>13. Known' /\ WdlIsExact' /\ DtzIsClose' /\ RootKeepsValue'
  BY <1>1, <1>5, <1>12 DEF Known, WdlIsExact, DtzIsClose, RootKeepsValue
<1>14. AbInv' /\ WdlInv' /\ DtzInv' /\ PlyInv'
  BY <1>1 DEF AbInv, WdlInv, DtzInv, PlyInv
<1> QED
  BY <1>1, <1>10, <1>11, <1>13, <1>14 DEF IInv

\* With a score for every move.
LEMMA ScoreIs ==
  ASSUME IInv, pc = "root", todo = {}, NEW m \in moves
  PROVE  /\ scores[m] \in Int /\ Worth(m) \in Int /\ Wdl(scores[m]) = Wdl(Worth(m))
         /\ (scores[m] > 0 <=> Worth(m) > 0) /\ (scores[m] < 0 <=> Worth(m) < 0)
         /\ (scores[m] = 0 <=> Worth(m) = 0)
         /\ scores[m] > 0 => scores[m] = Worth(m) \/ scores[m] = Worth(m) - 1
         /\ scores[m] < 0 => scores[m] = Worth(m) \/ scores[m] = Worth(m) + 1
         /\ m.kind = "quiet" /\ ~m.mate => scores[m] # 1 /\ scores[m] # -1
<1> DEFINE s == scores[m]
           w == Worth(m)
<1>1. w \in Int /\ s \in Promised_dtz(w) /\ (m.kind = "quiet" /\ ~m.mate => s # 1 /\ s # -1)
  BY AtRoot DEF Close
<1> HIDE DEF s, w
<1>2. /\ s \in Int /\ Wdl(s) = Wdl(w)
      /\ s = w \/ (w > 0 /\ s = w - 1 /\ s > 0) \/ (w < 0 /\ s = w + 1 /\ s < 0)
  BY <1>1, PromisedIs
<1>3. /\ (s > 0 <=> w > 0) /\ (s < 0 <=> w < 0) /\ (s = 0 <=> w = 0)
      /\ s > 0 => s = w \/ s = w - 1
      /\ s < 0 => s = w \/ s = w + 1
  BY <1>1, <1>2
<1> QED
  BY <1>1, <1>2, <1>3 DEF s, w

\* The moves on the side of the value, and the choice among them.
Good == {m \in moves : (Truth > 0 /\ scores[m] > 0) \/ (Truth < 0 /\ scores[m] < 0)
                       \/ (Truth = 0 /\ scores[m] = 0)}

LEMMA ChosenIs ==
  ASSUME IInv, pc = "root", todo = {}
  PROVE  /\ Chosen = {m \in Good : \A k \in Good : scores[m] <= scores[k]}
         /\ moves # {} => Chosen # {}
<1>1. /\ moves \subseteq LegalMove /\ Truth \in Int /\ Truth = Value(moves, check)
      /\ dtz \in Int /\ (dtz > 0 <=> Truth > 0) /\ (dtz < 0 <=> Truth < 0)
  BY AtRoot
<1> DEFINE A == {m \in moves : scores[m] > 0}
           B == {m \in moves : scores[m] < 0}
           C == {m \in moves : scores[m] = 0}
           good == CASE dtz > 0 -> A [] dtz < 0 -> B [] OTHER -> C
<1>2. Chosen = {m \in good : \A k \in good : scores[m] <= scores[k]}
  BY DEF Chosen
<1>3. good = Good
  <2>1. CASE Truth > 0
    <3>1. Good = A
      BY <1>1, <2>1 DEF Good
    <3>2. dtz > 0 /\ ~(dtz < 0)
      BY <1>1, <2>1
    <3> HIDE DEF A, B, C
    <3> QED
      BY <3>1, <3>2
  <2>2. CASE Truth < 0
    <3>1. Good = B
      BY <1>1, <2>2 DEF Good
    <3>2. ~(dtz > 0) /\ dtz < 0
      BY <1>1, <2>2
    <3> HIDE DEF A, B, C
    <3> QED
      BY <3>1, <3>2
  <2>3. CASE Truth = 0
    <3>1. Good = C
      BY <1>1, <2>3 DEF Good
    <3>2. ~(dtz > 0) /\ ~(dtz < 0)
      BY <1>1, <2>3
    <3> HIDE DEF A, B, C
    <3> QED
      BY <3>1, <3>2
  <2> QED
    BY <1>1, <2>1, <2>2, <2>3
<1> HIDE DEF good
<1>4. ASSUME moves # {}
      PROVE  \E m \in Good : \A k \in Good : scores[m] <= scores[k]
  <2> DEFINE S == {scores[m] : m \in Good}
  <2>1. \A m \in moves : scores[m] \in Int /\ -(Limit + 3) <= scores[m]
    <3> SUFFICES ASSUME NEW m \in moves PROVE scores[m] \in Int /\ -(Limit + 3) <= scores[m]
      OBVIOUS
    <3>1. Worth(m) >= -(Limit + 3) /\ Worth(m) \in Int
      BY <1>1, WorthType
    <3>2. /\ scores[m] \in Int
          /\ scores[m] > 0 \/ scores[m] = 0 \/ scores[m] = Worth(m) \/ scores[m] = Worth(m) + 1
      BY ScoreIs
    <3> QED
      BY <3>1, <3>2, LimitIs
  <2>2. PICK t \in moves : Worth(t) = Truth
    BY <1>1, <1>4, ValueIs
  <2>3. t \in Good
    <3>1. /\ (scores[t] > 0 <=> Truth > 0) /\ (scores[t] < 0 <=> Truth < 0)
          /\ (scores[t] = 0 <=> Truth = 0) /\ scores[t] \in Int
      BY <2>2, ScoreIs
    <3> QED
      BY <1>1, <3>1 DEF Good
  <2>4. S \subseteq Int /\ S # {} /\ \A x \in S : -(Limit + 3) <= x
    BY <2>1, <2>3 DEF Good
  <2>5. Min(S) \in S /\ \A x \in S : Min(S) <= x
    <3>1. -(Limit + 3) \in Int
      BY LimitIs
    <3> HIDE DEF S
    <3> QED
      BY <2>4, <3>1, MinExists
  <2>6. PICK m \in Good : scores[m] = Min(S)
    BY <2>5
  <2>7. \A k \in Good : scores[k] \in S
    OBVIOUS
  <2> HIDE DEF S
  <2> QED
    BY <2>5, <2>6, <2>7
<1> QED
  BY <1>2, <1>3, <1>4

LEMMA Rule50 ==
  ASSUME NEW c \in Int, NEW n \in Int
  PROVE  /\ n > 0 => dtz_to_wdl(c, n) = (IF n + c <= Limit THEN 2 ELSE 1)
         /\ n < 0 => dtz_to_wdl(c, n) = (IF -n + c <= Limit THEN -2 ELSE -1)
         /\ n = 0 => dtz_to_wdl(c, n) = 0
  BY DEF dtz_to_wdl

\* The move chosen keeps the value, and the counter its promise up to one ply.
LEMMA ChosenKeeps ==
  ASSUME IInv, pc = "root", todo = {}, NEW m \in Chosen,
         NEW c, c = IF m.kind = "quiet" THEN cnt50 ELSE 0
  PROVE  /\ m \in moves /\ Wdl(Worth(m)) = Wdl(Truth)
         /\ dtz_to_wdl(cnt50 + 1, Truth) = 2 => dtz_to_wdl(c, Worth(m)) = 2
         /\ dtz_to_wdl(cnt50 - 1, Truth) = -1 => dtz_to_wdl(c, Worth(m)) = -1
<1>1. /\ moves \subseteq LegalMove /\ Truth \in Int /\ Truth = Value(moves, check)
      /\ cnt50 \in 0..Limit
      /\ \A k \in moves : X(k) <= Wdl(Truth) /\ X(k) \in -2..2 /\ Worth(k) \in Int
  BY AtRoot DEF Position
<1>2. m \in Good /\ m \in moves /\ m \in LegalMove /\ \A k \in Good : scores[m] <= scores[k]
  BY <1>1, ChosenIs DEF Good
<1>3. PICK t \in moves : Worth(t) = Truth
  BY <1>1, <1>2, ValueIs
<1>4. /\ scores[m] \in Int /\ Worth(m) \in Int /\ Wdl(scores[m]) = Wdl(Worth(m))
      /\ (scores[m] > 0 <=> Worth(m) > 0) /\ (scores[m] < 0 <=> Worth(m) < 0)
      /\ scores[m] > 0 => scores[m] = Worth(m) \/ scores[m] = Worth(m) - 1
      /\ scores[m] < 0 => scores[m] = Worth(m) \/ scores[m] = Worth(m) + 1
      /\ m.kind = "quiet" /\ ~m.mate => scores[m] # 1 /\ scores[m] # -1
  BY <1>2, ScoreIs
<1>5. /\ scores[t] \in Int /\ Wdl(scores[t]) = Wdl(Truth)
      /\ (scores[t] > 0 <=> Truth > 0) /\ (scores[t] < 0 <=> Truth < 0)
      /\ (scores[t] = 0 <=> Truth = 0)
      /\ scores[t] > 0 => scores[t] = Truth \/ scores[t] = Truth - 1
      /\ scores[t] < 0 => scores[t] = Truth \/ scores[t] = Truth + 1
      /\ t.kind = "quiet" /\ ~t.mate => scores[t] # 1 /\ scores[t] # -1
  BY <1>3, ScoreIs
<1>6. t \in Good /\ scores[m] <= scores[t]
  <2>1. t \in Good
    BY <1>1, <1>5 DEF Good
  <2> QED
    BY <1>2, <2>1
<1>7. /\ Truth > 0 => scores[m] > 0
      /\ Truth < 0 => scores[m] < 0
      /\ Truth = 0 => scores[m] = 0
  BY <1>1, <1>2 DEF Good
<1>8. Wdl(Worth(m)) = Wdl(Truth)
  <2>1. Wdl(scores[t]) <= Wdl(scores[m])
    BY <1>1, <1>4, <1>5, <1>6, <1>7, WdlNotLess
  <2>2. Wdl(Worth(m)) <= Wdl(Truth) /\ Wdl(Worth(m)) \in -2..2
    BY <1>1, <1>2 DEF X
  <2>3. Wdl(Truth) \in -2..2
    BY <1>1, WdlType
  <2> QED
    BY <1>4, <1>5, <2>1, <2>2, <2>3
<1>9. c \in Int /\ c >= 0 /\ c <= cnt50 /\ (m.kind = "quiet" => c = cnt50)
  BY <1>1
<1>10. ASSUME dtz_to_wdl(cnt50 + 1, Truth) = 2
       PROVE  dtz_to_wdl(c, Worth(m)) = 2
  <2>1. Truth > 0 /\ Truth + cnt50 + 1 <= Limit
    BY <1>1, <1>10, LimitIs, Rule50
  <2>2. Worth(m) > 0 /\ Worth(m) <= Truth + 1
    BY <1>1, <1>4, <1>5, <1>6, <1>7, <2>1
  <2>3. Worth(m) + c <= Limit
    BY <1>1, <1>4, <1>9, <2>1, <2>2, LimitIs
  <2> QED
    BY <1>4, <1>9, <2>2, <2>3, Rule50
<1>11. ASSUME dtz_to_wdl(cnt50 - 1, Truth) = -1
       PROVE  dtz_to_wdl(c, Worth(m)) = -1
  <2>1. Truth < 0 /\ -Truth + cnt50 - 1 > Limit
    BY <1>1, <1>11, LimitIs, Rule50
  <2>2. scores[m] < 0 /\ Worth(m) < 0 /\ scores[t] < 0 /\ Worth(m) <= scores[m]
        /\ scores[m] <= Truth + 1
    BY <1>1, <1>4, <1>5, <1>6, <1>7, <2>1
  <2>3. -Worth(m) + c > Limit
    <3>1. CASE m.kind = "quiet"
      BY <1>1, <1>4, <1>9, <2>1, <2>2, <3>1, LimitIs
    <3>2. CASE m.kind # "quiet"
      <4>1. m.kind \in Zeroing
        BY <1>2, <3>2, WorthType
      <4>2. Worth(m) = WdlToDtz(X(m)) /\ X(m) \in {-1, -2}
        <5>1. Worth(m) = WdlToDtz(X(m)) /\ X(m) \in -2..2
          BY <1>1, <1>2, <4>1, ZeroingWorth
        <5>2. X(m) < 0
          BY <1>4, <2>2, WdlType DEF X
        <5> QED
          BY <5>1, <5>2
      <4>3. CASE X(m) = -1
        <5>1. Worth(m) = -(Limit + 1)
          BY <4>2, <4>3, WdlToDtzType
        <5> QED
          BY <1>9, <5>1, LimitIs
      <4>4. CASE X(m) = -2
        <5>1. Worth(m) = -1 /\ Wdl(Truth) = -2
          BY <1>8, <4>2, <4>4, WdlToDtzType DEF X
        <5>2. scores[t] = -1
          BY <1>4, <1>5, <1>6, <2>2, <5>1
        <5>3. ~t.mate
          <6>1. t.mate => Worth(t) = 1
            BY DEF Worth
          <6> QED
            BY <1>3, <2>1, <6>1
        <5>4. t.kind \in Zeroing
          BY <1>1, <1>5, <5>2, <5>3, WorthType
        <5>5. Truth = WdlToDtz(-2)
          BY <1>1, <1>3, <5>1, <5>4, ZeroingWorth DEF X
        <5>6. Truth = -1
          BY <5>5, WdlToDtzType
        <5> QED
          BY <1>1, <2>1, <5>6, LimitIs
      <4> QED
        BY <4>2, <4>3, <4>4
    <3> QED
      BY <3>1, <3>2
  <2>4. ~(Worth(m) > 0) /\ ~(-Worth(m) + c <= Limit)
    BY <1>4, <1>9, <2>2, <2>3, LimitIs
  <2> QED
    BY <1>4, <1>9, <2>2, <2>4, Rule50
<1> QED
  BY <1>2, <1>8, <1>10, <1>11

LEMMA RootChooseStep == IInv /\ RootChoose => IInv'
<1> SUFFICES ASSUME IInv, RootChoose PROVE IInv'
  OBVIOUS
<1>1. pc = "root" /\ todo = {} /\ pc' = "done"
      /\ UNCHANGED <<moves, check, exact, cnt50, todo, wdl, dtz, scores>>
  BY DEF RootChoose, asked
<1>2. \/ Chosen # {} /\ result' \in Chosen
      \/ Chosen = {} /\ result' = (CASE dtz > 0 -> "failed" [] dtz < 0 -> "checkmate"
                                     [] OTHER -> "stalemate")
  BY DEF RootChoose
<1>3. /\ Position /\ moves \subseteq LegalMove /\ Truth \in Int /\ Truth = Value(moves, check)
      /\ check \in BOOLEAN /\ wdl = Wdl(Truth) /\ wdl # Nothing /\ dtz # Nothing
      /\ dtz \in Promised_dtz(Truth) /\ dtz \in Int
      /\ (dtz > 0 <=> Truth > 0) /\ (dtz < 0 <=> Truth < 0)
  BY <1>1, AtRoot
<1>4. Truth' = Truth /\ \A n : Promised_dtz(n)' = Promised_dtz(n)
  BY <1>1, Frame
<1>5. Position'
  BY <1>1, <1>3, PositionStays DEF Position
<1>6. wdl' = Wdl(Truth)' /\ dtz' \in Promised_dtz(Truth)'
  BY <1>1, <1>3, <1>4 DEF Wdl, Promised_dtz, InMoves
<1>7. Known' /\ WdlIsExact' /\ DtzIsClose'
  BY <1>1, <1>3, <1>6 DEF Known, WdlIsExact, DtzIsClose
<1>8. AbInv' /\ WdlInv' /\ DtzInv' /\ PlyInv' /\ RootInv'
  BY <1>1 DEF AbInv, WdlInv, DtzInv, PlyInv, RootInv
<1>9. RootKeepsValue'
  <2>1. CASE moves = {}
    <3>1. Chosen = {}
      BY <1>1, <2>1, ChosenIs DEF Good
    <3>2. Truth = IF check THEN -1 ELSE 0
      BY <1>3, <2>1, ValueType
    <3>3. result' = IF check THEN "checkmate" ELSE "stalemate"
      <4>1. ~(dtz > 0) /\ (dtz < 0 <=> check)
        BY <1>3, <3>2
      <4>2. CASE check
        BY <1>2, <3>1, <4>1, <4>2
      <4>3. CASE ~check
        BY <1>2, <3>1, <4>1, <4>3
      <4> QED
        BY <4>2, <4>3
    <3> QED
      BY <1>1, <2>1, <3>3 DEF RootKeepsValue
  <2>2. CASE moves # {}
    <3>1. result' \in Chosen
      BY <1>1, <1>2, <2>2, ChosenIs
    <3> DEFINE c == IF result'.kind = "quiet" THEN cnt50 ELSE 0
    <3>2. /\ result' \in moves /\ Wdl(Worth(result')) = Wdl(Truth)
          /\ dtz_to_wdl(cnt50 + 1, Truth) = 2 => dtz_to_wdl(c, Worth(result')) = 2
          /\ dtz_to_wdl(cnt50 - 1, Truth) = -1 => dtz_to_wdl(c, Worth(result')) = -1
      BY <1>1, <3>1, ChosenKeeps
    <3> QED
      BY <1>1, <1>4, <2>2, <3>2 DEF RootKeepsValue
  <2> QED
    BY <2>1, <2>2
<1> QED
  BY <1>1, <1>5, <1>7, <1>8, <1>9 DEF IInv
-----------------------------------------------------------------------------

LEMMA StutterStep == IInv /\ UNCHANGED vars => IInv'
<1> SUFFICES ASSUME IInv, UNCHANGED vars PROVE IInv'
  OBVIOUS
<1> USE DEF vars
<1>1. Position' /\ Known' /\ AbInv' /\ WdlInv' /\ DtzInv' /\ RootInv'
  BY DEF IInv, Position, Known, AbInv, WdlInv, DtzInv, RootInv, Quiets, Captures, MayBeHere,
     Close, Truth, WithoutEp, Promised_dtz, InMoves, X
<1>2. PlyInv'
  BY DEF IInv, PlyInv, Quiets, Promised_dtz, InMoves
<1>3. WdlIsExact' /\ DtzIsClose' /\ RootKeepsValue'
  BY DEF IInv, WdlIsExact, DtzIsClose, RootKeepsValue, Truth, Promised_dtz, InMoves
<1> QED
  BY <1>1, <1>2, <1>3 DEF IInv

LEMMA Inductive == Spec => []IInv
<1>1. IInv /\ [Next]_vars => IInv'
  BY AddMoveStep, CallStep, FailStep, AbCaptureStep, AbTableStep, WdlCaptureStep, WdlProbeStep,
     DtzPawnStep, DtzProbeStep, DtzPlyStep, DtzPlyDoneStep, RootMoveStep, RootChooseStep,
     StutterStep DEF Next
<1> QED
  BY InitInv, <1>1, PTL DEF Spec

\* probe_wdl finds the value of the position from tables that know neither of
\* en passant nor of stalemate, and probe_ab keeps within its window the value
\* of one without en passant, for every position and window.
THEOREM WdlExact == Spec => []WdlIsExact
<1>1. IInv => WdlIsExact
  BY DEF IInv
<1> QED
  BY Inductive, <1>1, PTL

\* probe_dtz gives the distance, or one less where the tables count in moves.
THEOREM DtzClose == Spec => []DtzIsClose
<1>1. IInv => DtzIsClose
  BY DEF IInv
<1> QED
  BY Inductive, <1>1, PTL

\* probe_root's move keeps the value, and the counter its promise up to one
\* ply, for any limit.
THEOREM RootKeeps == Spec => []RootKeepsValue
<1>1. IInv => RootKeepsValue
  BY DEF IInv
<1> QED
  BY Inductive, <1>1, PTL
=============================================================================

--------------------------- MODULE AlphaBetaProofs ---------------------------
(* The promise of AlphaBeta, and the windows of the searches it starts,    *)
(* for every scale of the scores, every depth, ply, window and margin.     *)
EXTENDS AlphaBeta, TLAPS

\* The window after mate distance pruning, which alpha and beta started from.
Alpha0 == IF root THEN call.alpha ELSE AtLeast(call.alpha, -MATE + ply)
Beta0 == IF root THEN call.beta ELSE AtMost(call.beta, MATE - ply - 1)

\* Scores that bestScore can have once it has one.
BestScores == -(MATE - ply)..(MATE - ply - 1)

TypeInv ==
  /\ call \in [ply : 0..MaxPly, alpha : Int, beta : Int, value : Int]
  /\ alpha \in Int /\ beta \in Int /\ depth \in Int
  /\ oldAlpha \in Int /\ bestScore \in Int
  /\ moveCount \in Nat
  /\ attained \in BOOLEAN

\* What Init says of the arguments.
CallInv ==
  /\ value \in ValuesAt(ply)
  /\ call.alpha < call.beta
  /\ call.alpha >= -INFINITE /\ call.beta <= INFINITE
  /\ root => call.beta - call.alpha > 1

\* Nothing is returned or stored before the end.
Pending == pc # "returned" => result = None /\ stored = None

\* Before the moves of AlphaBeta, or of Quiescence.
Opening ==
  pc \in {"start", "exits", "quiescence"} =>
    /\ alpha = call.alpha /\ beta = call.beta
    /\ ~attained /\ moveCount = 0 /\ oldAlpha = -INFINITE
    /\ pc # "quiescence" => bestScore = -INFINITE
    /\ pc = "exits" => depth > 0

\* Quiescence that razoring has called has a window which is narrow enough.
Razored ==
  pc \in {"quiescence", "captures"} /\ depth > 0 =>
    /\ call.alpha >= -(MATE - ply) /\ call.beta <= MATE - ply - 1

\* Behind mate distance pruning: alpha is its alpha or the best score, which
\* then is no more than the value.
Inside ==
  pc \in {"table", "tablebase", "prune", "probcut", "moves", "loop", "done"} =>
    /\ depth > 0 /\ Alpha0 < Beta0 /\ beta = Beta0
    /\ alpha = AtLeast(Alpha0, bestScore)
    /\ bestScore > Alpha0 => value >= bestScore
    /\ bestScore \in BestScores \/ (moveCount = 0 /\ bestScore = -INFINITE)
    /\ pc # "done" => alpha < beta

BeforeMoves ==
  pc \in {"table", "tablebase", "prune", "probcut", "moves"} =>
    /\ moveCount = 0 /\ ~attained /\ oldAlpha = -INFINITE
    /\ pc \in {"table", "tablebase"} => bestScore = -INFINITE
    /\ pc \in {"prune", "probcut"} => ~root

\* A move of the value has made the best score an upper bound, unless a move
\* was too good.
Looping ==
  pc \in {"loop", "done"} =>
    /\ Alpha0 <= oldAlpha /\ oldAlpha <= alpha
    /\ pc = "loop" /\ attained => value <= bestScore
    /\ pc = "done" => moveCount = 0 \/ value <= bestScore \/ bestScore >= beta

Captures ==
  pc = "captures" =>
    /\ beta = call.beta /\ alpha = AtLeast(call.alpha, bestScore) /\ alpha < beta
    /\ bestScore \in QuietScores(call.alpha, call.beta)
    /\ bestScore > call.alpha => value >= bestScore
    /\ attained => value <= bestScore
    /\ oldAlpha = -INFINITE

\* What WindowsInRange says of a call that has returned.
Ended ==
  pc = "returned" /\ moveCount > 0 /\ depth > 0 =>
    alpha >= oldAlpha /\ alpha \in -MATE..MATE /\ bestScore \in -MATE..MATE

Core == TypeInv /\ CallInv /\ Pending /\ Opening /\ Razored /\ Inside /\ BeforeMoves
        /\ Looping /\ Captures

IInv == Core /\ Ended /\ BoundIsTrue

-----------------------------------------------------------------------------

(* The scale of the scores leaves room for the distances. *)
LEMMA Scale ==
  ASSUME TypeInv
  PROVE  /\ ply \in 0..MaxPly /\ value \in Int /\ call.alpha \in Int /\ call.beta \in Int
         /\ MATE \in Nat /\ TBWIN \in Nat /\ TBWIN_IN_MAX \in Nat /\ MaxPly \in Nat
         /\ Margin \in Nat /\ Margin > 0 /\ TBWIN_IN_MAX > 0
         /\ TBWIN_IN_MAX + Margin <= TBWIN /\ TBWIN_IN_MAX + MaxPly <= TBWIN
         /\ TBWIN + MaxPly <= MATE
         /\ MAXDEPTH \in Nat /\ MaxMoves \in Nat /\ FullMoves \in Nat
         /\ LateMoves \in Nat /\ MaxMoves > 0
  BY SearchAssumption DEF TypeInv, ply, value

(* What AlphaBeta may return: a bound of the value in the narrowed window is *)
(* one in the window of the call.                                            *)
LEMMA Answer ==
  ASSUME TypeInv, CallInv, Alpha0 < Beta0, NEW s \in Int,
         s > Alpha0 => value >= s, s < Beta0 => value <= s
  PROVE  Bounds(s, call.alpha, call.beta, value)
  BY Scale DEF CallInv, Alpha0, Beta0, Bounds, ValuesAt, AtLeast, AtMost

LEMMA InitInvariant == Init => IInv
<1> SUFFICES ASSUME Init PROVE IInv
  OBVIOUS
<1>1. PICK p \in 0..MaxPly, a \in -INFINITE..INFINITE, b \in -INFINITE..INFINITE, d \in Depths :
        /\ depth = d
        /\ Window(a, b, p) \/ (d <= 0 /\ a < b /\ p > 0)
        /\ p = 0 => b - a > 1 /\ d > 0
        /\ \E v \in ValuesAt(p) : call = [ply |-> p, alpha |-> a, beta |-> b, value |-> v]
  BY DEF Init
<1>2. PICK v \in ValuesAt(p) : call = [ply |-> p, alpha |-> a, beta |-> b, value |-> v]
  BY <1>1
<1>3. TypeInv
  <2>1. /\ p \in Nat /\ a \in Int /\ b \in Int /\ d \in Int /\ v \in Int
        /\ -INFINITE \in Int
    BY SearchAssumption DEF INFINITE, ValuesAt
  <2>2. call \in [ply : 0..MaxPly, alpha : Int, beta : Int, value : Int]
    BY <1>2, <2>1
  <2> QED
    BY <1>1, <1>2, <2>1, <2>2 DEF Init, TypeInv
<1>4. CallInv
  BY <1>1, <1>2, SearchAssumption DEF Window, INFINITE, CallInv, value, ply, root
<1>5. Opening /\ Pending /\ Razored /\ Inside /\ BeforeMoves /\ Looping /\ Captures
  BY DEF Init, Opening, Pending, Razored, Inside, BeforeMoves, Looping, Captures
<1>6. BoundIsTrue /\ Ended
  BY DEF Init, BoundIsTrue, Ended
<1> QED
  BY <1>3, <1>4, <1>5, <1>6 DEF IInv, Core

(* The windows and the scores are in range by the invariant. *)
LEMMA InRange == IInv => WindowsInRange
<1> SUFFICES ASSUME IInv PROVE WindowsInRange
  OBVIOUS
<1> USE Scale DEF IInv, Core
<1>1. ASSUME pc = "loop" PROVE Window(-beta, -alpha, ply + 1)
  BY <1>1 DEF Inside, CallInv, Window, Alpha0, Beta0, AtLeast, AtMost, INFINITE,
     BestScores, root
<1>2. ASSUME pc = "loop", ~pvNode \/ moveCount > 0 PROVE Window(-(alpha + 1), -alpha, ply + 1)
  <2>1. CASE root
    <3>1. moveCount > 0 /\ bestScore \in -MATE..(MATE - 1)
      BY <1>2, <2>1 DEF TypeInv, CallInv, Inside, BestScores, pvNode, root
    <3> QED
      BY <1>2, <2>1, <3>1 DEF TypeInv, Inside, CallInv, Window, Alpha0, AtLeast,
         INFINITE, root
  <2>2. CASE ~root
    BY <1>2, <2>2 DEF TypeInv, Inside, Window, Alpha0, Beta0, AtLeast, AtMost, INFINITE,
       root
  <2> QED
    BY <2>1, <2>2
<1>3. ASSUME pc = "prune" PROVE Window(-beta, -(beta - 1), ply + 1)
  BY <1>3 DEF Inside, BeforeMoves, CallInv, Window, Alpha0, Beta0, AtLeast, AtMost,
     INFINITE, root
<1>4. ASSUME pc = "probcut", beta \in Evals
      PROVE  Window(-(beta + Margin), -(beta + Margin - 1), ply + 1)
  BY <1>4 DEF Inside, BeforeMoves, CallInv, Window, INFINITE, root, Evals
<1>5. \A w \in Asked : Window(-w[2], -w[1], ply + 1)
  BY <1>1, <1>2, <1>3, <1>4 DEF Asked, window
<1>6. pc = "captures" => alpha < beta
  BY DEF Captures
<1>7. ASSUME pc = "done", moveCount > 0
      PROVE  alpha >= oldAlpha /\ alpha \in -MATE..MATE /\ bestScore \in -MATE..MATE
  BY <1>7 DEF TypeInv, Inside, Looping, CallInv, Alpha0, Beta0, AtLeast, AtMost,
     INFINITE, BestScores
<1> QED
  BY <1>5, <1>6, <1>7 DEF WindowsInRange, Ended
-----------------------------------------------------------------------------

(* A step that does not return has nothing to answer for. *)
LEMMA NotReturned ==
  ASSUME Pending', pc' # "returned"
  PROVE  BoundIsTrue' /\ Ended'
  BY DEF Pending, BoundIsTrue, Ended

LEMMA StartStep == IInv /\ Start => IInv'
<1> SUFFICES ASSUME IInv, Start PROVE IInv'
  OBVIOUS
<1> USE Scale DEF IInv, Core
<1>1. TypeInv' /\ CallInv' /\ Pending'
  BY DEF Start, Fixed, Stay, Goto, ToPruning, TypeInv, CallInv, Pending, ply, value,
     root, window, loop
<1>2. Opening' /\ Razored' /\ Captures'
  BY DEF Start, Fixed, Stay, Goto, ToPruning, TypeInv, CallInv, Opening, Razored,
     Captures, Inside, BeforeMoves, Looping, Alpha0, Beta0, AtLeast, AtMost, pvNode, ply,
     value, root, window, loop
<1>3. Inside' /\ BeforeMoves' /\ Looping'
  BY DEF Start, Fixed, Stay, Goto, ToPruning, TypeInv, CallInv, Opening, Inside,
     BeforeMoves, Looping, Alpha0, Beta0, AtLeast, AtMost, BestScores, ply, value, root,
     window, loop
<1> QED
  BY <1>1, <1>2, <1>3, NotReturned DEF Start, Goto, Stay, ToPruning

LEMMA AbortStep == IInv /\ Abort => IInv'
<1> SUFFICES ASSUME IInv, Abort PROVE IInv'
  OBVIOUS
<1> USE Scale DEF IInv, Core
<1>1. TypeInv' /\ CallInv' /\ Pending'
  BY DEF Abort, Fixed, Stay, Goto, ToPruning, TypeInv, CallInv, Pending, ply, value,
     root, window, loop
<1>2. Opening' /\ Razored' /\ Captures'
  BY DEF Abort, Fixed, Stay, Goto, ToPruning, TypeInv, CallInv, Opening, Razored,
     Captures, Inside, BeforeMoves, Looping, Alpha0, Beta0, AtLeast, AtMost, pvNode, ply,
     value, root, window, loop
<1>3. Inside' /\ BeforeMoves' /\ Looping'
  BY DEF Abort, Fixed, Stay, Goto, ToPruning, TypeInv, CallInv, Opening, Inside,
     BeforeMoves, Looping, Alpha0, Beta0, AtLeast, AtMost, BestScores, ply, value, root,
     window, loop
<1> QED
  BY <1>1, <1>2, <1>3, NotReturned DEF Abort, Goto, Stay, ToPruning

LEMMA NoCutoffStep == IInv /\ NoCutoff => IInv'
<1> SUFFICES ASSUME IInv, NoCutoff PROVE IInv'
  OBVIOUS
<1> USE Scale DEF IInv, Core
<1>1. TypeInv' /\ CallInv' /\ Pending'
  BY DEF NoCutoff, Fixed, Stay, Goto, ToPruning, TypeInv, CallInv, Pending, ply, value,
     root, window, loop
<1>2. Opening' /\ Razored' /\ Captures'
  BY DEF NoCutoff, Fixed, Stay, Goto, ToPruning, TypeInv, CallInv, Opening, Razored,
     Captures, Inside, BeforeMoves, Looping, Alpha0, Beta0, AtLeast, AtMost, pvNode, ply,
     value, root, window, loop
<1>3. Inside' /\ BeforeMoves' /\ Looping'
  BY DEF NoCutoff, Fixed, Stay, Goto, ToPruning, TypeInv, CallInv, Opening, Inside,
     BeforeMoves, Looping, Alpha0, Beta0, AtLeast, AtMost, BestScores, ply, value, root,
     window, loop
<1> QED
  BY <1>1, <1>2, <1>3, NotReturned DEF NoCutoff, Goto, Stay, ToPruning

LEMMA NoProbeStep == IInv /\ NoProbe => IInv'
<1> SUFFICES ASSUME IInv, NoProbe PROVE IInv'
  OBVIOUS
<1> USE Scale DEF IInv, Core
<1>1. TypeInv' /\ CallInv' /\ Pending'
  BY DEF NoProbe, Fixed, Stay, Goto, ToPruning, TypeInv, CallInv, Pending, ply, value,
     root, window, loop
<1>2. Opening' /\ Razored' /\ Captures'
  BY DEF NoProbe, Fixed, Stay, Goto, ToPruning, TypeInv, CallInv, Opening, Razored,
     Captures, Inside, BeforeMoves, Looping, Alpha0, Beta0, AtLeast, AtMost, pvNode, ply,
     value, root, window, loop
<1>3. Inside' /\ BeforeMoves' /\ Looping'
  BY DEF NoProbe, Fixed, Stay, Goto, ToPruning, TypeInv, CallInv, Opening, Inside,
     BeforeMoves, Looping, Alpha0, Beta0, AtLeast, AtMost, BestScores, ply, value, root,
     window, loop
<1> QED
  BY <1>1, <1>2, <1>3, NotReturned DEF NoProbe, Goto, Stay, ToPruning

LEMMA RazoringStep == IInv /\ Razoring => IInv'
<1> SUFFICES ASSUME IInv, Razoring PROVE IInv'
  OBVIOUS
<1> USE Scale DEF IInv, Core
<1>1. TypeInv' /\ CallInv' /\ Pending'
  BY DEF Razoring, Fixed, Stay, Goto, ToPruning, TypeInv, CallInv, Pending, ply, value,
     root, window, loop
<1>2. Opening' /\ Razored' /\ Captures'
  BY DEF Razoring, Fixed, Stay, Goto, ToPruning, TypeInv, CallInv, Opening, Razored,
     Captures, Inside, BeforeMoves, Looping, Alpha0, Beta0, AtLeast, AtMost, pvNode, ply,
     value, root, window, loop
<1>3. Inside' /\ BeforeMoves' /\ Looping'
  BY DEF Razoring, Fixed, Stay, Goto, ToPruning, TypeInv, CallInv, Opening, Inside,
     BeforeMoves, Looping, Alpha0, Beta0, AtLeast, AtMost, BestScores, ply, value, root,
     window, loop
<1> QED
  BY <1>1, <1>2, <1>3, NotReturned DEF Razoring, Goto, Stay, ToPruning

LEMMA NoPruningStep == IInv /\ NoPruning => IInv'
<1> SUFFICES ASSUME IInv, NoPruning PROVE IInv'
  OBVIOUS
<1> USE Scale DEF IInv, Core
<1>1. TypeInv' /\ CallInv' /\ Pending'
  BY DEF NoPruning, Fixed, Stay, Goto, ToPruning, TypeInv, CallInv, Pending, ply, value,
     root, window, loop
<1>2. Opening' /\ Razored' /\ Captures'
  BY DEF NoPruning, Fixed, Stay, Goto, ToPruning, TypeInv, CallInv, Opening, Razored,
     Captures, Inside, BeforeMoves, Looping, Alpha0, Beta0, AtLeast, AtMost, pvNode, ply,
     value, root, window, loop
<1>3. Inside' /\ BeforeMoves' /\ Looping'
  BY DEF NoPruning, Fixed, Stay, Goto, ToPruning, TypeInv, CallInv, Opening, Inside,
     BeforeMoves, Looping, Alpha0, Beta0, AtLeast, AtMost, BestScores, ply, value, root,
     window, loop
<1> QED
  BY <1>1, <1>2, <1>3, NotReturned DEF NoPruning, Goto, Stay, ToPruning

LEMMA NoProbCutStep == IInv /\ NoProbCut => IInv'
<1> SUFFICES ASSUME IInv, NoProbCut PROVE IInv'
  OBVIOUS
<1> USE Scale DEF IInv, Core
<1>1. TypeInv' /\ CallInv' /\ Pending'
  BY DEF NoProbCut, Fixed, Stay, Goto, ToPruning, TypeInv, CallInv, Pending, ply, value,
     root, window, loop
<1>2. Opening' /\ Razored' /\ Captures'
  BY DEF NoProbCut, Fixed, Stay, Goto, ToPruning, TypeInv, CallInv, Opening, Razored,
     Captures, Inside, BeforeMoves, Looping, Alpha0, Beta0, AtLeast, AtMost, pvNode, ply,
     value, root, window, loop
<1>3. Inside' /\ BeforeMoves' /\ Looping'
  BY DEF NoProbCut, Fixed, Stay, Goto, ToPruning, TypeInv, CallInv, Opening, Inside,
     BeforeMoves, Looping, Alpha0, Beta0, AtLeast, AtMost, BestScores, ply, value, root,
     window, loop
<1> QED
  BY <1>1, <1>2, <1>3, NotReturned DEF NoProbCut, Goto, Stay, ToPruning

LEMMA StartMovesStep == IInv /\ StartMoves => IInv'
<1> SUFFICES ASSUME IInv, StartMoves PROVE IInv'
  OBVIOUS
<1> USE Scale DEF IInv, Core
<1>1. TypeInv' /\ CallInv' /\ Pending'
  BY DEF StartMoves, Fixed, Stay, Goto, ToPruning, TypeInv, CallInv, Pending, ply, value,
     root, window, loop
<1>2. Opening' /\ Razored' /\ Captures'
  BY DEF StartMoves, Fixed, Stay, Goto, ToPruning, TypeInv, CallInv, Opening, Razored,
     Captures, Inside, BeforeMoves, Looping, Alpha0, Beta0, AtLeast, AtMost, pvNode, ply,
     value, root, window, loop
<1>3. Inside' /\ BeforeMoves' /\ Looping'
  BY DEF StartMoves, Fixed, Stay, Goto, ToPruning, TypeInv, CallInv, Opening, Inside,
     BeforeMoves, Looping, Alpha0, Beta0, AtLeast, AtMost, BestScores, ply, value, root,
     window, loop
<1> QED
  BY <1>1, <1>2, <1>3, NotReturned DEF StartMoves, Goto, Stay, ToPruning

LEMMA EndOfMovesStep == IInv /\ EndOfMoves => IInv'
<1> SUFFICES ASSUME IInv, EndOfMoves PROVE IInv'
  OBVIOUS
<1> USE Scale DEF IInv, Core
<1>1. TypeInv' /\ CallInv' /\ Pending'
  BY DEF EndOfMoves, Fixed, Stay, Goto, ToPruning, TypeInv, CallInv, Pending, ply, value,
     root, window, loop
<1>2. Opening' /\ Razored' /\ Captures'
  BY DEF EndOfMoves, Fixed, Stay, Goto, ToPruning, TypeInv, CallInv, Opening, Razored,
     Captures, Inside, BeforeMoves, Looping, Alpha0, Beta0, AtLeast, AtMost, pvNode, ply,
     value, root, window, loop
<1>3. Inside' /\ BeforeMoves' /\ Looping'
  BY DEF EndOfMoves, Fixed, Stay, Goto, ToPruning, TypeInv, CallInv, Opening, Inside,
     BeforeMoves, Looping, Alpha0, Beta0, AtLeast, AtMost, BestScores, ply, value, root,
     window, loop
<1> QED
  BY <1>1, <1>2, <1>3, NotReturned DEF EndOfMoves, Goto, Stay, ToPruning
(* A step that returns keeps the promise. *)
LEMMA Returned ==
  ASSUME call' = call, depth' = depth,
         Bounds(result', call.alpha, call.beta, value),
         result' \in ScoresAt(ply) \/ ~Window(call.alpha, call.beta, ply),
         depth <= 0 => result' \in QuietScores(call.alpha, call.beta),
         stored' # None =>
           Holds(stored'.score, stored'.bound) /\ stored'.score \in ScoresAt(ply)
  PROVE  BoundIsTrue'
<1>1. value' = value /\ ply' = ply
  BY DEF value, ply
<1>2. Bounds(result, call.alpha, call.beta, value)'
  BY <1>1 DEF Bounds
<1>3. (result \in ScoresAt(ply) \/ ~Window(call.alpha, call.beta, ply))'
  BY <1>1 DEF ScoresAt, Window
<1>4. (depth <= 0 => result \in QuietScores(call.alpha, call.beta))'
  BY DEF QuietScores
<1>5. (stored # None => Holds(stored.score, stored.bound) /\ stored.score \in ScoresAt(ply))'
  BY <1>1 DEF Holds, ScoresAt
<1> QED
  BY <1>2, <1>3, <1>4, <1>5 DEF BoundIsTrue

(* AlphaBeta may return any bound in the narrowed window. *)
LEMMA InsideReturned ==
  ASSUME TypeInv, CallInv, depth > 0, Alpha0 < Beta0,
         call' = call, depth' = depth, result' \in ScoresAt(ply),
         result' > Alpha0 => value >= result', result' < Beta0 => value <= result',
         stored' # None =>
           Holds(stored'.score, stored'.bound) /\ stored'.score \in ScoresAt(ply)
  PROVE  BoundIsTrue'
<1>1. result' \in Int /\ depth \in Int
  BY Scale DEF ScoresAt, TypeInv
<1>2. Bounds(result', call.alpha, call.beta, value)
  BY <1>1, Answer
<1> QED
  BY <1>1, <1>2, Returned

(* The scores of Quiescence are those of any call with its window. *)
LEMMA QuietInScores ==
  ASSUME TypeInv, NEW s \in QuietScores(call.alpha, call.beta),
         Window(call.alpha, call.beta, ply)
  PROVE  s \in ScoresAt(ply)
  BY Scale DEF QuietScores, Window, ScoresAt, AtLeast

(* Quiescence may return any of its scores that is a bound. *)
LEMMA QuietReturned ==
  ASSUME IInv, pc # "returned", call' = call, depth' = depth, stored' = stored,
         result' \in QuietScores(call.alpha, call.beta),
         Bounds(result', call.alpha, call.beta, value)
  PROVE  BoundIsTrue'
  BY Returned, QuietInScores DEF IInv, Core, Pending

LEMMA EarlyExitStep == IInv /\ EarlyExit => IInv'
<1> SUFFICES ASSUME IInv, EarlyExit PROVE IInv'
  OBVIOUS
<1> USE Scale DEF IInv, Core
<1>1. TypeInv' /\ CallInv' /\ Pending'
  BY DEF EarlyExit, value, ply, root, window, loop, Evals, ValuesAt, Fixed, Stay, Goto,
     Return, ToPruning, TypeInv, CallInv, Pending, ply, value, root, window, loop
<1>2. Opening' /\ Razored' /\ Captures'
  BY DEF EarlyExit, value, ply, root, window, loop, Evals, ValuesAt, Fixed, Stay, Goto,
     Return, ToPruning, TypeInv, CallInv, Opening, Razored, Captures, AtLeast, AtMost,
     pvNode, ply, value, root, window, loop
<1>3. Inside' /\ BeforeMoves' /\ Looping'
  BY DEF EarlyExit, value, ply, root, window, loop, Evals, ValuesAt, Fixed, Stay, Goto,
     Return, ToPruning, TypeInv, CallInv, Opening, Inside, BeforeMoves, Looping, Alpha0,
     Beta0, AtLeast, AtMost, BestScores, ply, value, root, window, loop
<1>4. BoundIsTrue'
  <2>1. value \in Evals \/ value = 0
    BY DEF EarlyExit
  <2>2. result' = value /\ call' = call /\ depth' = depth /\ stored' = None
    BY DEF EarlyExit, Return, Fixed, Pending
  <2>3. value \in ScoresAt(ply) /\ value \in QuietScores(call.alpha, call.beta)
    BY <2>1 DEF CallInv, ValuesAt, ScoresAt, Evals, QuietScores, AtLeast
  <2> QED
    BY <2>2, <2>3, Returned DEF Bounds
<1>5. Ended'
  BY DEF EarlyExit, value, ply, root, window, loop, Evals, ValuesAt, Fixed, Stay, Goto,
     Return, ToPruning, TypeInv, CallInv, Ended, Opening, Inside, BeforeMoves, Looping,
     Captures, Razored, AtLeast, ply, root, window, loop
<1> QED
  BY <1>1, <1>2, <1>3, <1>4, <1>5

LEMMA MateDistanceStep == IInv /\ MateDistance => IInv'
<1> SUFFICES ASSUME IInv, MateDistance PROVE IInv'
  OBVIOUS
<1> USE Scale DEF IInv, Core
<1>1. TypeInv' /\ CallInv' /\ Pending'
  BY DEF MateDistance, MateWindow, Fixed, Stay, Goto, Return, ToPruning, TypeInv,
     CallInv, Pending, ply, value, root, window, loop
<1>2. Opening' /\ Razored' /\ Captures'
  BY DEF MateDistance, MateWindow, Fixed, Stay, Goto, Return, ToPruning, TypeInv,
     CallInv, Opening, Razored, Captures, AtLeast, AtMost, pvNode, ply, value, root,
     window, loop
<1>3. Inside' /\ BeforeMoves' /\ Looping'
  BY DEF MateDistance, MateWindow, Fixed, Stay, Goto, Return, ToPruning, TypeInv,
     CallInv, Opening, Inside, BeforeMoves, Looping, Alpha0, Beta0, AtLeast, AtMost,
     BestScores, ply, value, root, window, loop
<1>4. BoundIsTrue'
  <2>1. CASE pc' = "returned"
    <3>1. /\ alpha' = Alpha0 /\ beta' = Beta0 /\ alpha' >= beta' /\ result' = Alpha0
          /\ call' = call /\ depth' = depth /\ stored' = None
      BY <2>1 DEF MateDistance, MateWindow, window, Return, Goto, Fixed, Pending, Opening,
                  Alpha0, Beta0
    <3>2. depth > 0
      BY DEF MateDistance, Opening
    <3>3. Bounds(Alpha0, call.alpha, call.beta, value)
      BY <3>1 DEF Alpha0, Beta0, AtLeast, AtMost, CallInv, ValuesAt, Bounds
    <3>4. Window(call.alpha, call.beta, ply) => Alpha0 \in ScoresAt(ply)
      BY <3>1 DEF Alpha0, Beta0, AtLeast, AtMost, Window, ScoresAt, CallInv
    <3> QED
      BY <3>1, <3>2, <3>3, <3>4, Returned DEF TypeInv
  <2>2. CASE pc' # "returned"
    BY <2>2, <1>1, NotReturned
  <2> QED
    BY <2>1, <2>2
<1>5. Ended'
  BY DEF MateDistance, MateWindow, Fixed, Stay, Goto, Return, ToPruning, TypeInv,
     CallInv, Ended, Opening, Inside, BeforeMoves, Looping, Captures, Razored, AtLeast,
     ply, root, window, loop
<1> QED
  BY <1>1, <1>2, <1>3, <1>4, <1>5

LEMMA CutoffStep == IInv /\ Cutoff => IInv'
<1> SUFFICES ASSUME IInv, Cutoff PROVE IInv'
  OBVIOUS
<1> USE Scale DEF IInv, Core
<1>1. TypeInv' /\ CallInv' /\ Pending'
  BY DEF Cutoff, Holds, HasUpper, HasLower, BOUND_UPPER, BOUND_LOWER, BOUND_EXACT, Fixed,
     Stay, Goto, Return, ToPruning, TypeInv, CallInv, Pending, ply, value, root, window,
     loop
<1>2. Opening' /\ Razored' /\ Captures'
  BY DEF Cutoff, Holds, HasUpper, HasLower, BOUND_UPPER, BOUND_LOWER, BOUND_EXACT, Fixed,
     Stay, Goto, Return, ToPruning, TypeInv, CallInv, Opening, Razored, Captures,
     AtLeast, AtMost, pvNode, ply, value, root, window, loop
<1>3. Inside' /\ BeforeMoves' /\ Looping'
  BY DEF Cutoff, Holds, HasUpper, HasLower, BOUND_UPPER, BOUND_LOWER, BOUND_EXACT, Fixed,
     Stay, Goto, Return, ToPruning, TypeInv, CallInv, Opening, Inside, BeforeMoves,
     Looping, Alpha0, Beta0, AtLeast, AtMost, BestScores, ply, value, root, window, loop
<1>4. BoundIsTrue'
  BY Answer DEF Cutoff, Holds, HasUpper, HasLower, BOUND_UPPER, BOUND_LOWER, BOUND_EXACT,
     Fixed, Stay, Goto, Return, ToPruning, TypeInv, CallInv, Pending, BoundIsTrue,
     Opening, Inside, Alpha0, Beta0, AtLeast, AtMost, ScoresAt, pvNode, Evals, ply,
     value, root, window, loop
<1>5. Ended'
  BY DEF Cutoff, Holds, HasUpper, HasLower, BOUND_UPPER, BOUND_LOWER, BOUND_EXACT, Fixed,
     Stay, Goto, Return, ToPruning, TypeInv, CallInv, Ended, Opening, Inside,
     BeforeMoves, Looping, Captures, Razored, AtLeast, ply, root, window, loop
<1> QED
  BY <1>1, <1>2, <1>3, <1>4, <1>5

LEMMA ProbeWDLStep == IInv /\ ProbeWDL => IInv'
<1> SUFFICES ASSUME IInv, ProbeWDL PROVE IInv'
  OBVIOUS
<1> USE Scale DEF IInv, Core
<1>1. TypeInv' /\ CallInv' /\ Pending'
  <2>1. \A wdl \in {"win", "draw", "loss"} : TBScore(wdl, ply) \in Int
    BY DEF TBScore
  <2> QED
    BY <2>1 DEF ProbeWDL, Fixed, Goto, Return, ToPruning, TypeInv, CallInv, Pending,
                AtLeast, ply, value, root
<1>2. Opening' /\ Razored' /\ Captures'
  BY DEF ProbeWDL, TBScore, TBBound, Holds, HasUpper, HasLower, BOUND_UPPER, BOUND_LOWER,
     BOUND_EXACT, Fixed, Stay, Goto, Return, ToPruning, TypeInv, CallInv, Opening,
     Razored, Captures, AtLeast, AtMost, pvNode, ply, value, root, window, loop
<1>3. Inside' /\ BeforeMoves' /\ Looping'
  BY DEF ProbeWDL, TBScore, TBBound, Holds, HasUpper, HasLower, BOUND_UPPER, BOUND_LOWER,
     BOUND_EXACT, Fixed, Stay, Goto, Return, ToPruning, TypeInv, CallInv, Opening,
     Inside, BeforeMoves, Looping, Alpha0, Beta0, AtLeast, AtMost, BestScores, ply,
     value, root, window, loop
<1>4. BoundIsTrue'
  BY Answer DEF ProbeWDL, TBScore, TBBound, Holds, HasUpper, HasLower, BOUND_UPPER,
     BOUND_LOWER, BOUND_EXACT, Fixed, Stay, Goto, Return, ToPruning, TypeInv, CallInv,
     Pending, BoundIsTrue, Opening, Inside, Alpha0, Beta0, AtLeast, AtMost, ScoresAt,
     pvNode, Evals, ply, value, root, window, loop
<1>5. Ended'
  BY DEF ProbeWDL, TBScore, TBBound, Holds, HasUpper, HasLower, BOUND_UPPER, BOUND_LOWER,
     BOUND_EXACT, Fixed, Stay, Goto, Return, ToPruning, TypeInv, CallInv, Ended, Opening,
     Inside, BeforeMoves, Looping, Captures, Razored, AtLeast, ply, root, window, loop
<1> QED
  BY <1>1, <1>2, <1>3, <1>4, <1>5

LEMMA ReverseFutilityStep == IInv /\ ReverseFutility => IInv'
<1> SUFFICES ASSUME IInv, ReverseFutility PROVE IInv'
  OBVIOUS
<1> USE Scale DEF IInv, Core
<1>1. TypeInv' /\ CallInv' /\ Pending'
  BY DEF ReverseFutility, Fixed, Stay, Goto, Return, ToPruning, TypeInv, CallInv,
     Pending, ply, value, root, window, loop
<1>2. Opening' /\ Razored' /\ Captures'
  BY DEF ReverseFutility, Fixed, Stay, Goto, Return, ToPruning, TypeInv, CallInv,
     Opening, Razored, Captures, AtLeast, AtMost, pvNode, ply, value, root, window, loop
<1>3. Inside' /\ BeforeMoves' /\ Looping'
  BY DEF ReverseFutility, Fixed, Stay, Goto, Return, ToPruning, TypeInv, CallInv,
     Opening, Inside, BeforeMoves, Looping, Alpha0, Beta0, AtLeast, AtMost, BestScores,
     ply, value, root, window, loop
<1>4. BoundIsTrue'
  BY Answer DEF ReverseFutility, Fixed, Stay, Goto, Return, ToPruning, TypeInv, CallInv,
     Pending, BoundIsTrue, Opening, Inside, Alpha0, Beta0, AtLeast, AtMost, ScoresAt,
     pvNode, Evals, ply, value, root, window, loop
<1>5. Ended'
  BY DEF ReverseFutility, Fixed, Stay, Goto, Return, ToPruning, TypeInv, CallInv, Ended,
     Opening, Inside, BeforeMoves, Looping, Captures, Razored, AtLeast, ply, root,
     window, loop
<1> QED
  BY <1>1, <1>2, <1>3, <1>4, <1>5

LEMMA NullMoveStep == IInv /\ NullMove => IInv'
<1> SUFFICES ASSUME IInv, NullMove PROVE IInv'
  OBVIOUS
<1> USE Scale DEF IInv, Core
<1>1. TypeInv' /\ CallInv' /\ Pending'
  BY DEF NullMove, NullScore, Search, Fixed, Stay, Goto, Return, ToPruning, TypeInv,
     CallInv, Pending, ply, value, root, window, loop
<1>2. Opening' /\ Razored' /\ Captures'
  BY DEF NullMove, NullScore, Search, Fixed, Stay, Goto, Return, ToPruning, TypeInv,
     CallInv, Opening, Razored, Captures, AtLeast, AtMost, pvNode, ply, value, root,
     window, loop
<1>3. Inside' /\ BeforeMoves' /\ Looping'
  BY DEF NullMove, NullScore, Search, Fixed, Stay, Goto, Return, ToPruning, TypeInv,
     CallInv, Opening, Inside, BeforeMoves, Looping, Alpha0, Beta0, AtLeast, AtMost,
     BestScores, ply, value, root, window, loop
<1>4. BoundIsTrue'
  BY Answer DEF NullMove, NullScore, Search, Fixed, Stay, Goto, Return, ToPruning,
     TypeInv, CallInv, Pending, BoundIsTrue, Opening, Inside, Alpha0, Beta0, AtLeast,
     AtMost, ScoresAt, pvNode, Evals, ply, value, root, window, loop
<1>5. Ended'
  BY DEF NullMove, NullScore, Search, Fixed, Stay, Goto, Return, ToPruning, TypeInv,
     CallInv, Ended, Opening, Inside, BeforeMoves, Looping, Captures, Razored, AtLeast,
     ply, root, window, loop
<1> QED
  BY <1>1, <1>2, <1>3, <1>4, <1>5

LEMMA ProbCutStep == IInv /\ ProbCut => IInv'
<1> SUFFICES ASSUME IInv, ProbCut PROVE IInv'
  OBVIOUS
<1> USE Scale DEF IInv, Core
<1>1. TypeInv' /\ CallInv' /\ Pending'
  BY DEF ProbCut, Search, Fixed, Stay, Goto, Return, ToPruning, TypeInv, CallInv,
     Pending, ply, value, root, window, loop
<1>2. Opening' /\ Razored' /\ Captures'
  BY DEF ProbCut, Search, Fixed, Stay, Goto, Return, ToPruning, TypeInv, CallInv,
     Opening, Razored, Captures, AtLeast, AtMost, pvNode, ply, value, root, window, loop
<1>3. Inside' /\ BeforeMoves' /\ Looping'
  BY DEF ProbCut, Search, Fixed, Stay, Goto, Return, ToPruning, TypeInv, CallInv,
     Opening, Inside, BeforeMoves, Looping, Alpha0, Beta0, AtLeast, AtMost, BestScores,
     ply, value, root, window, loop
<1>4. BoundIsTrue'
  <2>1. PICK v \in MoveValues :
          \E pbScore \in Search(beta + Margin - 1, beta + Margin, v) :
            pbScore >= beta + Margin /\ Return(pbScore)
    BY DEF ProbCut
  <2>2. PICK pbScore \in Search(beta + Margin - 1, beta + Margin, v) :
          pbScore >= beta + Margin /\ Return(pbScore)
    BY <2>1
  <2>3. /\ result' = pbScore /\ call' = call /\ depth' = depth /\ stored' = None
        /\ depth > 0 /\ Alpha0 < Beta0 /\ beta = Beta0
    BY <2>2 DEF ProbCut, Return, Stay, Fixed, Pending, Inside
  <2>4. pbScore \in ScoresAt(ply) /\ value >= pbScore /\ beta \in Int
    BY <2>2 DEF Search, Bounds, ScoresAt, MoveValues, TypeInv
  <2>5. pbScore \in Int /\ pbScore > Beta0
    BY <2>2, <2>3, <2>4 DEF ScoresAt
  <2> QED
    BY <2>3, <2>4, <2>5, InsideReturned
<1>5. Ended'
  BY DEF ProbCut, Search, Fixed, Stay, Goto, Return, ToPruning, TypeInv, CallInv, Ended,
     Opening, Inside, BeforeMoves, Looping, Captures, Razored, AtLeast, ply, root,
     window, loop
<1> QED
  BY <1>1, <1>2, <1>3, <1>4, <1>5

LEMMA FinishStep == IInv /\ Finish => IInv'
<1> SUFFICES ASSUME IInv, Finish PROVE IInv'
  OBVIOUS
<1> USE Scale DEF IInv, Core
<1>1. TypeInv' /\ CallInv' /\ Pending'
  BY DEF Finish, Flag, Holds, HasUpper, HasLower, BOUND_UPPER, BOUND_LOWER, BOUND_EXACT,
     Fixed, Stay, Goto, Return, ToPruning, TypeInv, CallInv, Pending, ply, value, root,
     window, loop
<1>2. Opening' /\ Razored' /\ Captures'
  BY DEF Finish, Flag, Holds, HasUpper, HasLower, BOUND_UPPER, BOUND_LOWER, BOUND_EXACT,
     Fixed, Stay, Goto, Return, ToPruning, TypeInv, CallInv, Opening, Razored, Captures,
     AtLeast, AtMost, pvNode, ply, value, root, window, loop
<1>3. Inside' /\ BeforeMoves' /\ Looping'
  BY DEF Finish, Flag, Holds, HasUpper, HasLower, BOUND_UPPER, BOUND_LOWER, BOUND_EXACT,
     Fixed, Stay, Goto, Return, ToPruning, TypeInv, CallInv, Opening, Inside,
     BeforeMoves, Looping, Alpha0, Beta0, AtLeast, AtMost, BestScores, ply, value, root,
     window, loop
<1>4. BoundIsTrue'
  <2>1. /\ call' = call /\ depth' = depth /\ depth > 0 /\ Alpha0 < Beta0 /\ stored = None
        /\ beta = Beta0 /\ beta \in Int /\ alpha \in Int /\ oldAlpha \in Int
    BY DEF Finish, Fixed, Inside, Pending, TypeInv
  <2>2. CASE moveCount = 0
    <3>1. stored' = None /\ result' = value
      BY <2>1, <2>2 DEF Finish, Return
    <3> QED
      BY <2>1, <3>1, InsideReturned DEF CallInv, ValuesAt, ScoresAt
  <2>3. CASE moveCount # 0
    <3>1. stored' = [score |-> bestScore, bound |-> Flag] /\ result' = bestScore
      BY <2>3 DEF Finish, Return
    <3>2. bestScore \in ScoresAt(ply) /\ bestScore \in Int
      BY <2>3 DEF Finish, Inside, BestScores, ScoresAt, TypeInv
    <3>3. /\ bestScore > Alpha0 => value >= bestScore
          /\ bestScore < beta => value <= bestScore
          /\ alpha = AtLeast(Alpha0, bestScore) /\ Alpha0 <= oldAlpha /\ oldAlpha <= alpha
      BY <2>1, <2>3, <3>2 DEF Finish, Inside, Looping
    <3>4. Holds(bestScore, Flag)
      BY <2>1, <3>2, <3>3 DEF Holds, Flag, HasUpper, HasLower, AtLeast, Alpha0,
                              BOUND_UPPER, BOUND_LOWER, BOUND_EXACT
    <3> QED
      BY <2>1, <3>1, <3>2, <3>3, <3>4, InsideReturned
  <2> QED
    BY <2>2, <2>3
<1>5. Ended'
  <2>1. CASE moveCount = 0
    BY <2>1, <1>1 DEF Finish, loop, Ended
  <2>2. CASE moveCount # 0
    <3>1. /\ bestScore \in BestScores /\ alpha = AtLeast(Alpha0, bestScore) /\ Alpha0 < Beta0
          /\ oldAlpha <= alpha
      BY <2>2 DEF Finish, Inside, Looping
    <3>2. alpha \in -MATE..MATE /\ bestScore \in -MATE..MATE
      BY <3>1 DEF BestScores, Alpha0, Beta0, AtLeast, AtMost, CallInv, INFINITE, TypeInv,
         root
    <3> QED
      BY <3>1, <3>2 DEF Finish, window, loop, Ended, TypeInv
  <2> QED
    BY <2>1, <2>2
<1> QED
  BY <1>1, <1>2, <1>3, <1>4, <1>5

LEMMA StandPatStep == IInv /\ StandPat => IInv'
<1> SUFFICES ASSUME IInv, StandPat PROVE IInv'
  OBVIOUS
<1> USE Scale DEF IInv, Core
<1>1. PICK score \in Evals :
        /\ value >= score
        /\ bestScore' = score /\ attained' = (value = score)
        /\ IF score >= beta THEN Return(score) /\ UNCHANGED alpha
           ELSE IF score + Margin < alpha
           THEN value <= alpha /\ Return(alpha) /\ UNCHANGED alpha
           ELSE alpha' = AtLeast(alpha, score) /\ Goto("captures")
  BY DEF StandPat
<1>2. /\ call' = call /\ depth' = depth /\ beta' = beta /\ oldAlpha' = oldAlpha
      /\ moveCount' = moveCount /\ stored' = stored /\ pc = "quiescence"
  BY DEF StandPat, Fixed
<1>3. /\ alpha = call.alpha /\ beta = call.beta /\ moveCount = 0 /\ oldAlpha = -INFINITE
      /\ alpha \in Int /\ beta \in Int /\ score \in Int
  BY <1>1, <1>2 DEF Opening, TypeInv, Evals
<1>4. score \in QuietScores(call.alpha, call.beta)
  BY <1>1 DEF Evals, QuietScores, AtLeast
<1>5. CASE score >= beta
  <2>1. /\ pc' = "returned" /\ result' = score /\ alpha' = alpha
    BY <1>1, <1>5 DEF Return
  <2>2. Core'
    BY <1>1, <1>2, <1>3, <2>1 DEF TypeInv, CallInv, Pending, Opening, Razored, Inside,
         BeforeMoves, Looping, Captures, ply, value, root
  <2>3. Bounds(score, call.alpha, call.beta, value)
    BY <1>1, <1>3, <1>5 DEF Bounds, CallInv
  <2> QED
    BY <1>2, <1>3, <1>4, <2>1, <2>2, <2>3, QuietReturned DEF Ended
<1>6. CASE score < beta /\ score + Margin < alpha
  <2>1. /\ pc' = "returned" /\ result' = alpha /\ alpha' = alpha /\ value <= alpha
    BY <1>1, <1>3, <1>6 DEF Return
  <2>2. Core'
    BY <1>1, <1>2, <1>3, <2>1 DEF TypeInv, CallInv, Pending, Opening, Razored, Inside,
         BeforeMoves, Looping, Captures, ply, value, root
  <2>3. Bounds(alpha, call.alpha, call.beta, value)
    BY <1>3, <2>1 DEF Bounds, CallInv
  <2>4. alpha \in QuietScores(call.alpha, call.beta)
    BY <1>1, <1>3, <1>6 DEF QuietScores, Evals, AtLeast, CallInv
  <2> QED
    BY <1>2, <1>3, <2>1, <2>2, <2>3, <2>4, QuietReturned DEF Ended
<1>7. CASE score < beta /\ ~(score + Margin < alpha)
  <2>1. pc' = "captures" /\ result' = result /\ alpha' = AtLeast(alpha, score)
    BY <1>1, <1>3, <1>7 DEF Goto
  <2>2. TypeInv' /\ CallInv' /\ Pending' /\ Razored'
    BY <1>1, <1>2, <1>3, <2>1 DEF TypeInv, CallInv, Pending, Razored, AtLeast, ply,
       value, root
  <2>3. Captures'
    <3>1. QuietScores(call.alpha, call.beta)' = QuietScores(call.alpha, call.beta)
      BY <1>2
    <3> QED
      BY <1>1, <1>2, <1>3, <1>4, <1>7, <2>1, <3>1 DEF Captures, AtLeast, CallInv, value
  <2>4. Opening' /\ Inside' /\ BeforeMoves' /\ Looping'
    BY <2>1 DEF Opening, Inside, BeforeMoves, Looping
  <2> QED
    BY <2>1, <2>2, <2>3, <2>4, NotReturned
<1> QED
  BY <1>3, <1>5, <1>6, <1>7

LEMMA CaptureStep == IInv /\ Capture => IInv'
<1> SUFFICES ASSUME IInv, Capture PROVE IInv'
  OBVIOUS
<1> USE Scale DEF IInv, Core
<1>1. PICK v \in MoveValues : \E score \in QuietScores(alpha, beta) :
        /\ Bounds(score, alpha, beta, v)
        /\ attained' = (attained \/ v = value)
        /\ bestScore' = AtLeast(bestScore, score)
        /\ alpha' = IF score > bestScore THEN AtLeast(alpha, score) ELSE alpha
        /\ IF score > bestScore /\ score > alpha /\ score >= beta
           THEN Return(score) ELSE Goto("captures")
  BY DEF Capture
<1>2. PICK score \in QuietScores(alpha, beta) :
        /\ Bounds(score, alpha, beta, v)
        /\ attained' = (attained \/ v = value)
        /\ bestScore' = AtLeast(bestScore, score)
        /\ alpha' = IF score > bestScore THEN AtLeast(alpha, score) ELSE alpha
        /\ IF score > bestScore /\ score > alpha /\ score >= beta
           THEN Return(score) ELSE Goto("captures")
  BY <1>1
<1>3. /\ call' = call /\ depth' = depth /\ beta' = beta /\ oldAlpha' = oldAlpha
      /\ moveCount' = moveCount + 1 /\ stored' = stored /\ pc = "captures"
  BY DEF Capture, Fixed
<1>4. /\ beta = call.beta /\ alpha = AtLeast(call.alpha, bestScore) /\ alpha < beta
      /\ bestScore \in QuietScores(call.alpha, call.beta) /\ oldAlpha = -INFINITE
      /\ bestScore > call.alpha => value >= bestScore
      /\ attained => value <= bestScore
      /\ alpha \in Int /\ beta \in Int /\ bestScore \in Int /\ v \in Int /\ v <= value
      /\ moveCount \in Nat
  BY <1>3 DEF Captures, TypeInv, MoveValues
<1>5. score \in QuietScores(call.alpha, call.beta) /\ score \in Int
  BY <1>4 DEF QuietScores, AtLeast
<1>6. TypeInv' /\ CallInv' /\ Razored'
  BY <1>2, <1>3, <1>4, <1>5 DEF TypeInv, CallInv, Razored, AtLeast, ply, value, root
<1>7. CASE score > bestScore /\ score > alpha /\ score >= beta
  <2>1. pc' = "returned" /\ result' = score /\ alpha' = score /\ bestScore' = score
    BY <1>2, <1>4, <1>5, <1>7 DEF Return, AtLeast
  <2>2. Core'
    BY <1>6, <2>1 DEF Pending, Opening, Inside, BeforeMoves, Looping, Captures
  <2>3. Bounds(score, call.alpha, call.beta, value)
    BY <1>2, <1>4, <1>5, <1>7 DEF Bounds, CallInv
  <2>4. Ended'
    <3>1. ASSUME depth > 0 PROVE score \in -MATE..MATE
      BY <1>3, <1>5, <3>1 DEF QuietScores, AtLeast, Razored, CallInv
    <3> QED
      BY <1>3, <1>4, <1>5, <1>7, <2>1, <3>1 DEF Ended, INFINITE
  <2> QED
    BY <1>3, <1>5, <2>1, <2>2, <2>3, <2>4, QuietReturned
<1>8. CASE ~(score > bestScore /\ score > alpha /\ score >= beta)
  <2>1. pc' = "captures" /\ result' = result
    BY <1>2, <1>8 DEF Goto
  <2>2. Captures'
    <3>1. QuietScores(call.alpha, call.beta)' = QuietScores(call.alpha, call.beta)
      BY <1>3
    <3>2. /\ alpha' = AtLeast(call.alpha, bestScore') /\ alpha' < beta
          /\ bestScore' > call.alpha => value >= bestScore'
      BY <1>2, <1>4, <1>5, <1>8 DEF AtLeast, Bounds
    <3>4. ASSUME attained' PROVE value <= bestScore'
      <4>1. attained \/ v = value
        BY <1>2, <3>4
      <4>2. score < beta => v <= score
        BY <1>2, <1>4, <1>5 DEF Bounds
      <4> QED
        BY <1>2, <1>4, <1>5, <1>8, <4>1, <4>2 DEF AtLeast
    <3>3. bestScore' \in QuietScores(call.alpha, call.beta)
      BY <1>2, <1>4, <1>5 DEF AtLeast
    <3> QED
      BY <1>3, <1>4, <3>1, <3>2, <3>3, <3>4 DEF Captures, value
  <2>3. Pending' /\ Opening' /\ Inside' /\ BeforeMoves' /\ Looping'
    BY <1>3, <2>1 DEF Pending, Opening, Inside, BeforeMoves, Looping
  <2> QED
    BY <1>6, <2>1, <2>2, <2>3, NotReturned
<1> QED
  BY <1>7, <1>8

LEMMA EndOfCapturesStep == IInv /\ EndOfCaptures => IInv'
<1> SUFFICES ASSUME IInv, EndOfCaptures PROVE IInv'
  OBVIOUS
<1> USE Scale DEF IInv, Core
<1>1. TypeInv' /\ CallInv' /\ Pending'
  BY DEF EndOfCaptures, QuietScores, Fixed, Stay, Goto, Return, ToPruning, TypeInv,
     CallInv, Pending, ply, value, root, window, loop
<1>2. Opening' /\ Razored' /\ Captures'
  BY DEF EndOfCaptures, QuietScores, Fixed, Stay, Goto, Return, ToPruning, TypeInv,
     CallInv, Opening, Razored, Captures, AtLeast, AtMost, pvNode, ply, value, root,
     window, loop
<1>3. Inside' /\ BeforeMoves' /\ Looping'
  BY DEF EndOfCaptures, QuietScores, Fixed, Stay, Goto, Return, ToPruning, TypeInv,
     CallInv, Opening, Inside, BeforeMoves, Looping, Alpha0, Beta0, AtLeast, AtMost,
     BestScores, ply, value, root, window, loop
<1>4. BoundIsTrue'
  <2>1. /\ call' = call /\ depth' = depth /\ stored' = stored /\ result' = bestScore
        /\ pc = "captures"
    BY DEF EndOfCaptures, Stay, Fixed, Return
  <2>2. /\ bestScore \in QuietScores(call.alpha, call.beta) /\ value <= bestScore
        /\ bestScore > call.alpha => value >= bestScore
    BY DEF EndOfCaptures, Captures
  <2>3. Bounds(bestScore, call.alpha, call.beta, value)
    BY <2>2 DEF Bounds, CallInv, TypeInv
  <2> QED
    BY <2>1, <2>2, <2>3, QuietReturned
<1>5. Ended'
  BY DEF EndOfCaptures, QuietScores, Fixed, Stay, Goto, Return, ToPruning, TypeInv,
     CallInv, Ended, Opening, Inside, BeforeMoves, Looping, Captures, Razored, AtLeast,
     ply, root, window, loop
<1> QED
  BY <1>1, <1>2, <1>3, <1>4, <1>5

(* What searching a move says of it, reduced and searched again or not. *)
LEMMA MoveScoresTrue ==
  ASSUME TypeInv, alpha < beta, ~pvNode => beta = alpha + 1,
         NEW v \in Int, NEW n \in Nat, NEW s \in MoveScores(v, n)
  PROVE  /\ s \in ScoresAt(ply + 1)
         /\ s < beta => v <= s
         /\ s > alpha => v >= s
<1> USE Scale
<1>1. ASSUME NEW r \in ZeroWindow(v, n)
      PROVE  r \in ScoresAt(ply + 1) /\ (r <= alpha => v <= r) /\ (r > alpha => v >= r)
  BY <1>1 DEF ZeroWindow, Search, Bounds, ScoresAt, TypeInv
<1>2. ASSUME NEW r \in Search(alpha, beta, v)
      PROVE  r \in ScoresAt(ply + 1) /\ (r < beta => v <= r) /\ (r > alpha => v >= r)
  BY <1>2 DEF Search, Bounds, ScoresAt, TypeInv
<1>3. CASE pvNode /\ n = 1
  BY <1>2, <1>3 DEF MoveScores
<1>4. CASE ~(pvNode /\ n = 1)
  <2>1. PICK r \in ZeroWindow(v, n) :
          s \in IF pvNode /\ r > alpha /\ r < beta THEN Search(alpha, beta, v) ELSE {r}
    BY <1>4 DEF MoveScores
  <2>2. CASE pvNode /\ r > alpha /\ r < beta
    BY <1>2, <2>1, <2>2
  <2>3. CASE ~(pvNode /\ r > alpha /\ r < beta)
    <3>1. s = r /\ s \in Int
      BY <1>1, <2>1, <2>3 DEF ScoresAt
    <3> QED
      BY <1>1, <2>3, <3>1 DEF TypeInv
  <2> QED
    BY <2>2, <2>3
<1> QED
  BY <1>3, <1>4

LEMMA SearchMoveStep == IInv /\ SearchMove => IInv'
<1> SUFFICES ASSUME IInv, SearchMove PROVE IInv'
  OBVIOUS
<1> USE Scale DEF IInv, Core
<1>1. PICK v \in MoveValues : \E score \in MoveScores(v, moveCount + 1) :
       /\ attained' = (attained \/ v = value)
       /\ bestScore' = AtLeast(bestScore, score)
       /\ alpha' = IF score > bestScore THEN AtLeast(alpha, score) ELSE alpha
       /\ Goto(IF score > bestScore /\ score > alpha /\ score >= beta THEN "done" ELSE "loop")
  BY DEF SearchMove
<1>2. PICK score \in MoveScores(v, moveCount + 1) :
       /\ attained' = (attained \/ v = value)
       /\ bestScore' = AtLeast(bestScore, score)
       /\ alpha' = IF score > bestScore THEN AtLeast(alpha, score) ELSE alpha
       /\ Goto(IF score > bestScore /\ score > alpha /\ score >= beta THEN "done" ELSE "loop")
  BY <1>1
<1>3. /\ call' = call /\ depth' = depth /\ beta' = beta /\ oldAlpha' = oldAlpha
      /\ moveCount' = moveCount + 1 /\ stored' = stored /\ pc = "loop" /\ result' = result
      /\ pc' \in {"loop", "done"}
  BY <1>2 DEF SearchMove, Fixed, Goto
<1>4. /\ depth > 0 /\ Alpha0 < Beta0 /\ beta = Beta0 /\ alpha = AtLeast(Alpha0, bestScore)
      /\ bestScore > Alpha0 => value >= bestScore
      /\ bestScore \in BestScores \/ bestScore = -INFINITE
      /\ alpha < beta /\ Alpha0 <= oldAlpha /\ oldAlpha <= alpha
      /\ attained => value <= bestScore
  BY <1>3 DEF Inside, Looping
<1>5. /\ alpha \in Int /\ beta \in Int /\ bestScore \in Int /\ oldAlpha \in Int
      /\ Alpha0 \in Int /\ v \in Int /\ v <= value /\ moveCount + 1 \in Nat
  BY DEF TypeInv, MoveValues, Alpha0, AtLeast
<1>6. ~pvNode => beta = alpha + 1
  BY <1>4, <1>5 DEF pvNode, Alpha0, Beta0, AtLeast, AtMost
<1>7. /\ score \in ScoresAt(ply + 1)
      /\ score < beta => v <= score
      /\ score > alpha => v >= score
  BY <1>4, <1>5, <1>6, MoveScoresTrue
<1>8. score \in BestScores /\ score \in Int /\ score > -INFINITE
  BY <1>7 DEF ScoresAt, BestScores, INFINITE
<1>9. Alpha0' = Alpha0 /\ Beta0' = Beta0 /\ BestScores' = BestScores /\ value' = value
  BY <1>3 DEF Alpha0, Beta0, BestScores, AtLeast, AtMost, value, ply, root
<1>10. TypeInv' /\ CallInv'
  BY <1>2, <1>3, <1>5, <1>8 DEF TypeInv, CallInv, AtLeast, ply, value, root
<1>11. Pending' /\ Opening' /\ Razored' /\ BeforeMoves' /\ Captures'
  BY <1>3 DEF Pending, Opening, Razored, BeforeMoves, Captures
<1>12. Inside'
  <2>1. /\ alpha' = AtLeast(Alpha0, bestScore') /\ bestScore' \in BestScores
        /\ bestScore' > Alpha0 => value >= bestScore'
    BY <1>2, <1>4, <1>5, <1>7, <1>8 DEF AtLeast
  <2>2. pc' # "done" => alpha' < beta
    BY <1>2, <1>4, <1>5, <1>8 DEF AtLeast, Goto
  <2> QED
    BY <1>3, <1>4, <1>9, <2>1, <2>2 DEF Inside
<1>13. Looping'
  <2>1. oldAlpha <= alpha'
    BY <1>2, <1>4, <1>5, <1>8 DEF AtLeast
  <2>2. ASSUME pc' = "loop", attained' PROVE value <= bestScore'
    <3>1. attained \/ v = value
      BY <1>2, <2>2
    <3>2. ~(score > bestScore /\ score > alpha /\ score >= beta)
      BY <1>2, <2>2 DEF Goto
    <3> QED
      BY <1>2, <1>4, <1>5, <1>7, <1>8, <3>1, <3>2 DEF AtLeast
  <2>3. pc' = "done" => bestScore' >= beta
    BY <1>2, <1>4, <1>5, <1>8 DEF AtLeast, Goto
  <2> QED
    BY <1>3, <1>4, <1>9, <2>1, <2>2, <2>3 DEF Looping
<1> QED
  BY <1>3, <1>10, <1>11, <1>12, <1>13, NotReturned

LEMMA NextInvariant == IInv /\ [Next]_vars => IInv'
<1> SUFFICES ASSUME IInv, [Next]_vars PROVE IInv'
  OBVIOUS
<1>1. CASE Next
  BY <1>1, StartStep, AbortStep, EarlyExitStep, MateDistanceStep, CutoffStep, NoCutoffStep,
     ProbeWDLStep, NoProbeStep, RazoringStep, ReverseFutilityStep, NullMoveStep,
     NoPruningStep, ProbCutStep, NoProbCutStep, StartMovesStep, SearchMoveStep,
     EndOfMovesStep, FinishStep, StandPatStep, CaptureStep, EndOfCapturesStep DEF Next
<1>2. CASE UNCHANGED vars
  <2>1. /\ call' = call /\ alpha' = alpha /\ beta' = beta /\ depth' = depth
        /\ oldAlpha' = oldAlpha /\ bestScore' = bestScore /\ attained' = attained
        /\ moveCount' = moveCount /\ pc' = pc /\ stored' = stored /\ result' = result
    BY <1>2 DEF vars, window, loop
  <2>2. TypeInv' /\ CallInv' /\ Pending' /\ Opening' /\ Razored'
    BY <2>1 DEF IInv, Core, TypeInv, CallInv, Pending, Opening, Razored, ply, value, root
  <2>3. Inside' /\ BeforeMoves' /\ Looping'
    BY <2>1 DEF IInv, Core, Inside, BeforeMoves, Looping, Alpha0, Beta0, BestScores, ply,
       value, root
  <2>4. Captures' /\ Ended'
    BY <2>1 DEF IInv, Core, Captures, Ended, value
  <2>5. BoundIsTrue'
    BY <2>1 DEF IInv, BoundIsTrue, Holds, ply, value
  <2> QED
    BY <2>2, <2>3, <2>4, <2>5 DEF IInv, Core
<1> QED
  BY <1>1, <1>2

(* What a call of AlphaBeta or Quiescence (search.cpp 94-465) returns, and *)
(* the bound it leaves in the table, is true of the position, whatever the  *)
(* window, the depth and the ply: BoundIsTrue.                              *)
THEOREM ReturnsBound == Spec => []BoundIsTrue
<1>1. IInv => BoundIsTrue
  BY DEF IInv
<1> QED
  BY <1>1, InitInvariant, NextInvariant, PTL DEF Spec

(* Every window the call gives to a search of its own is one that a call    *)
(* may be given (search.cpp 207-211, 285-293, 305-323, 375-399), so that the promise *)
(* of the calls below may be relied on: WindowsInRange.                     *)
THEOREM CallsMayBeMade == Spec => []WindowsInRange
  BY InitInvariant, NextInvariant, InRange, PTL DEF Spec

-----------------------------------------------------------------------------

\* The root has no best score before its first move, and from then on a pv,
\* whose move is worth the best score if that is in the window.
RootInv ==
  root =>
    /\ pc = "start" => depth > 0
    /\ pc \notin {"quiescence", "captures"}
    /\ moveCount = 0 /\ pc # "returned" => bestScore = -INFINITE
    /\ moveCount > 0 =>
         /\ pv \in Int
         /\ call.alpha < bestScore /\ bestScore < call.beta => pv = bestScore
         /\ pc = "returned" => result = bestScore

LEMMA RootInit == Init => RootInv
  BY DEF Init, RootInv, root, ply

LEMMA RootSearchMove ==
  ASSUME IInv, RootInv, SearchMove
  PROVE  RootInv'
<1> USE Scale DEF IInv, Core
<1>1. PICK v \in MoveValues : \E score \in MoveScores(v, moveCount + 1) :
        /\ bestScore' = AtLeast(bestScore, score)
        /\ pv' = IF score > bestScore /\ LeadsPV(score) THEN v ELSE pv
        /\ Goto(IF score > bestScore /\ score > alpha /\ score >= beta THEN "done" ELSE "loop")
  BY DEF SearchMove
<1>2. PICK score \in MoveScores(v, moveCount + 1) :
        /\ bestScore' = AtLeast(bestScore, score)
        /\ pv' = IF score > bestScore /\ LeadsPV(score) THEN v ELSE pv
        /\ Goto(IF score > bestScore /\ score > alpha /\ score >= beta THEN "done" ELSE "loop")
  BY <1>1
<1>3. /\ call' = call /\ moveCount' = moveCount + 1 /\ pc = "loop" /\ pc' \in {"loop", "done"}
      /\ root' = root
  BY <1>2 DEF SearchMove, Fixed, Goto, root, ply
<1>4. SUFFICES ASSUME root
               PROVE  /\ pv' \in Int
                      /\ call.alpha < bestScore' /\ bestScore' < call.beta => pv' = bestScore'
  BY <1>3 DEF RootInv, TypeInv
<1>5. /\ alpha = AtLeast(call.alpha, bestScore) /\ beta = call.beta /\ alpha < beta
      /\ alpha \in Int /\ beta \in Int /\ bestScore \in Int /\ moveCount \in Nat /\ v \in Int
      /\ moveCount + 1 \in Nat
  BY <1>3, <1>4 DEF Inside, Alpha0, Beta0, TypeInv, MoveValues
<1>6. pvNode
  BY <1>4 DEF CallInv, pvNode
<1>7. /\ score \in ScoresAt(ply + 1)
      /\ score < beta => v <= score
      /\ score > alpha => v >= score
  BY <1>5, <1>6, MoveScoresTrue
<1>8. score \in Int /\ score > -INFINITE
  BY <1>7 DEF ScoresAt, INFINITE
<1>9. CASE moveCount = 0
  <2>1. bestScore = -INFINITE /\ LeadsPV(score)
    BY <1>3, <1>4, <1>9 DEF RootInv, LeadsPV
  <2> QED
    BY <1>2, <1>5, <1>7, <1>8, <2>1 DEF AtLeast
<1>10. CASE moveCount # 0
  <2>1. pv \in Int /\ (call.alpha < bestScore /\ bestScore < call.beta => pv = bestScore)
    BY <1>4, <1>5, <1>10 DEF RootInv
  <2>2. CASE score > bestScore /\ score > alpha
    <3>1. pv' = v /\ bestScore' = score
      BY <1>2, <1>5, <1>6, <1>8, <2>2 DEF AtLeast, LeadsPV
    <3> QED
      BY <1>5, <1>7, <1>8, <2>2, <3>1
  <2>3. CASE score > bestScore /\ ~(score > alpha)
    BY <1>2, <1>4, <1>5, <1>8, <1>10, <2>1, <2>3 DEF AtLeast, LeadsPV
  <2>4. CASE ~(score > bestScore)
    BY <1>2, <1>5, <1>8, <2>1, <2>4 DEF AtLeast
  <2> QED
    BY <2>2, <2>3, <2>4
<1> QED
  BY <1>9, <1>10

\* The steps of Quiescence, and of pruning, are not taken at the root.
LEMMA RootNext == IInv /\ RootInv /\ [Next]_vars => RootInv'
<1> SUFFICES ASSUME IInv, RootInv, [Next]_vars PROVE RootInv'
  OBVIOUS
<1>1. CASE root /\ Next /\ ~SearchMove
  <2> USE <1>1 DEF RootInv, root, ply, IInv, Core
  <2>1. CASE Start \/ Abort \/ EarlyExit
    BY <2>1 DEF Start, Abort, EarlyExit, Goto, Return, Fixed, loop, Opening, TypeInv
  <2>2. CASE MateDistance \/ Cutoff \/ NoCutoff \/ ProbeWDL \/ NoProbe
    BY <2>2 DEF MateDistance, Cutoff, NoCutoff, ProbeWDL, NoProbe, ToPruning, Goto, Return,
                Fixed, loop, Opening, BeforeMoves
  <2>3. CASE Razoring \/ ReverseFutility \/ NullMove \/ NoPruning \/ ProbCut \/ NoProbCut
    BY <2>3 DEF Razoring, ReverseFutility, NullMove, NoPruning, ProbCut, NoProbCut,
       BeforeMoves
  <2>4. CASE StartMoves
    BY <2>4 DEF StartMoves, IID, Goto, Fixed, BeforeMoves
  <2>5. CASE EndOfMoves \/ Finish
    BY <2>5 DEF EndOfMoves, Finish, Stay, Goto, Return, Fixed, loop, TypeInv
  <2>6. CASE StandPat \/ Capture \/ EndOfCaptures
    BY <2>6 DEF StandPat, Capture, EndOfCaptures
  <2> QED
    BY <2>1, <2>2, <2>3, <2>4, <2>5, <2>6 DEF Next
<1>2. CASE root /\ SearchMove
  BY <1>2, RootSearchMove
<1>3. CASE root /\ UNCHANGED vars
  BY <1>3 DEF vars, window, loop, RootInv, root, ply
<1>4. CASE ~root
  <2>1. call' = call
    BY DEF Next, vars, Start, Abort, EarlyExit, MateDistance, Cutoff, NoCutoff, ProbeWDL,
       NoProbe, Razoring, ReverseFutility, NullMove, NoPruning, ProbCut, NoProbCut,
       StartMoves, SearchMove, EndOfMoves, Finish, StandPat, Capture, EndOfCaptures,
       Fixed, Stay
  <2> QED
    BY <1>4, <2>1 DEF RootInv, root, ply
<1> QED
  BY <1>1, <1>2, <1>3, <1>4

(* The move played is the first of a pv whose value is the accepted score   *)
(* (search.cpp 409-415, 506-508, 532-536), for any number of moves and any  *)
(* reductions: PVLeads.                                                     *)
THEOREM PlayedMoveIsBest == Spec => []PVLeads
<1>1. IInv /\ RootInv => PVLeads
  <2> SUFFICES ASSUME IInv, RootInv, pc = "returned", root, moveCount > 0
               PROVE  /\ pv # None
                      /\ (call.alpha < result /\ result < call.beta) => pv = value
    BY DEF PVLeads
  <2>1. pv \in Int /\ result = bestScore /\ bestScore \in Int
    BY DEF RootInv, IInv, Core, TypeInv
  <2>2. pv # None /\ result # None
    BY <2>1, SearchAssumption
  <2>3. Bounds(result, call.alpha, call.beta, value)
    BY <2>2 DEF IInv, BoundIsTrue
  <2> QED
    BY <2>1, <2>2, <2>3, Scale DEF RootInv, Bounds, IInv, Core
<1> QED
  BY <1>1, InitInvariant, NextInvariant, RootInit, RootNext, PTL DEF Spec
=============================================================================

------------------------------ MODULE AlphaBeta ------------------------------
(***************************************************************************)
(* One call of AlphaBeta, with the Quiescence it may end in (search.cpp)   *)
(* and the tablebase probe (syzygy.h).  The calls it makes are not         *)
(* followed: each returns what AlphaBeta promises its caller, which is     *)
(* what this module checks of the call itself.                             *)
(*                                                                         *)
(* The promise is about value, the value of the position for the side to   *)
(* move: a score up to alpha is an upper bound of it, one from beta on a   *)
(* lower bound, one between them is the value.  value is fixed when the    *)
(* call begins; the values of the moves are chosen as they are searched.   *)
(* Pruning gambles.  In the model the gambles are won: where the code      *)
(* concludes something about value without searching, that conclusion is   *)
(* a guard, marked "trusted".  What is left to go wrong is the handling of *)
(* windows, bounds, re-searches and mate scores.                           *)
(*                                                                         *)
(* Scores are scaled down, counts of moves are compared with constants,    *)
(* and scores and windows of searched positions are written from the point *)
(* of view of the call: (a, b) stands for the arguments -b, -a.            *)
(***************************************************************************)
EXTENDS Integers

CONSTANTS
  MATE, TBWIN, TBWIN_IN_MAX,
  MaxPly,         \* MAXDEPTH as a limit of the ply
  MAXDEPTH,       \* and of the depth
  Depths,         \* depths a call may have
  Margin,         \* the margins of pruning, each at least this
  LateMoves,      \* quiet moves before late move pruning
  FullMoves,      \* moves before late move reduction, 2
  MaxMoves,       \* moves of a position
  None            \* nothing returned, stored or in the pv yet

INFINITE == MATE + 1
BOUND_UPPER == 1
BOUND_LOWER == 2
BOUND_EXACT == 3

ASSUME SearchAssumption ==
  /\ MATE \in Nat /\ TBWIN \in Nat /\ TBWIN_IN_MAX \in Nat \ {0}
  /\ MaxPly \in Nat /\ TBWIN_IN_MAX + MaxPly <= TBWIN /\ TBWIN + MaxPly <= MATE
  /\ MAXDEPTH \in Nat /\ Depths \subseteq Int
  /\ Margin \in Nat \ {0} /\ TBWIN_IN_MAX + Margin <= TBWIN
  /\ {LateMoves, FullMoves, MaxMoves} \subseteq Nat \ {0}
  /\ None \notin Int

VARIABLES
  call,       \* ply, alpha, beta and value of the call
  inCheck, alpha, beta, depth,
  refuted,    \* the entry found has an upper bound below beta
  oldAlpha, bestScore,
  attained,   \* a move of this value was searched (history variable)
  moveCount,
  pv,         \* the value of the first move of the pv, if it is not empty
  pc,         \* where the call is
  stored,     \* what StoreTTEntry was given
  result      \* what the call has returned

window == <<alpha, beta>>
loop == <<oldAlpha, bestScore, attained, moveCount>>
vars == <<call, inCheck, window, depth, refuted, loop, pv, pc, stored, result>>

AtLeast(a, b) == IF a >= b THEN a ELSE b
AtMost(a, b) == IF a <= b THEN a ELSE b

ply == call.ply
root == ply = 0
value == call.value
pvNode == call.alpha # call.beta - 1

-----------------------------------------------------------------------------
(* What is promised.                                                       *)

\* s says something true of the value v of a position searched with (a, b).
Bounds(s, a, b, v) == /\ s <= a => v <= s
                      /\ s >= b => v >= s
                      /\ (a < s /\ s < b) => v = s

\* A window a call at ply p may be given.  Mates nearer than p have been cut
\* off by the calls above, but for the root.
Window(a, b, p) ==
  /\ a < b /\ a <= MATE - p /\ b >= -(MATE - p)
  /\ a >= IF p <= 1 THEN -INFINITE ELSE -(MATE - p)
  /\ b <= IF p <= 1 THEN INFINITE ELSE MATE - p + 1

\* Values of a position: from mated now to mating with the next move.
ValuesAt(p) == -(MATE - p)..(MATE - p - 1)

\* Scores a call at ply p returns; evaluations; scores of Quiescence.
ScoresAt(p) == -(MATE - p)..(MATE - p)
Evals == -(TBWIN_IN_MAX - 1)..(TBWIN_IN_MAX - 1)
QuietScores(a, b) == -AtLeast(TBWIN_IN_MAX - 1, -b)..AtLeast(TBWIN_IN_MAX - 1, a)

\* Values of the moves, and what searching one with (a, b) may return.
MoveValues == {v \in -(MATE - ply - 2)..(MATE - ply - 1) : v <= value}
Search(a, b, v) == {s \in ScoresAt(ply + 1) : Bounds(s, a, b, v)}

Return(s) == result' = s /\ pc' = "returned"
Goto(place) == pc' = place /\ UNCHANGED result

-----------------------------------------------------------------------------
(* The beginning of the call.                                              *)

\* Quiescence is also called by Quiescence, with any window.
Init ==
  /\ \E p \in 0..MaxPly, a, b \in -INFINITE..INFINITE, d \in Depths :
       /\ depth = d
       /\ Window(a, b, p) \/ (d <= 0 /\ a < b /\ p > 0)
       /\ p = 0 => b - a > 1 /\ d > 0
       /\ \E v \in ValuesAt(p) : call = [ply |-> p, alpha |-> a, beta |-> b, value |-> v]
  /\ inCheck \in BOOLEAN
  /\ alpha = call.alpha /\ beta = call.beta /\ refuted = FALSE
  /\ bestScore = -INFINITE /\ oldAlpha = -INFINITE
  /\ attained = FALSE /\ moveCount = 0
  /\ pv = None /\ pc = "start" /\ stored = None /\ result = None

\* Longer in check, and to Quiescence at the end.
Start ==
  /\ pc = "start"
  /\ depth' = IF inCheck /\ depth + 1 < MAXDEPTH THEN depth + 1 ELSE depth
  /\ Goto(IF depth' <= 0 THEN "quiescence" ELSE "exits")
  /\ UNCHANGED <<call, inCheck, window, refuted, loop, pv, stored>>

Fixed == UNCHANGED <<call, inCheck, depth>>

\* The time is up: longjmp, nothing is returned.
Abort ==
  /\ pc \in {"exits", "quiescence"} /\ Goto("aborted")
  /\ UNCHANGED <<window, refuted, loop, pv, stored>> /\ Fixed

\* A repetition, the fifty move rule, or the maximal depth.  Trusted: drawn
\* by repetition is a draw, and the evaluation the value.
EarlyExit ==
  /\ pc = "quiescence" \/ (pc = "exits" /\ ~root)
  /\ \/ value = 0 /\ Return(0)
     \/ ply = MaxPly /\ value \in Evals /\ Return(value)
  /\ UNCHANGED <<window, refuted, loop, pv, stored>> /\ Fixed

\* Mutant: no mate distance pruning.
MateWindow_Unchanged == window

\* Between the scores of being mated here and of mating with the next move.
MateWindow == <<AtLeast(alpha, -MATE + ply), AtMost(beta, MATE - ply - 1)>>

MateDistance ==
  /\ pc = "exits" /\ (root \/ ply < MaxPly)
  /\ LET narrowed == IF root THEN window ELSE MateWindow
     IN  alpha' = narrowed[1] /\ beta' = narrowed[2]
  /\ IF alpha' >= beta' THEN Return(alpha') ELSE Goto("table")
  /\ UNCHANGED <<refuted, loop, pv, stored>> /\ Fixed

HasUpper(bound) == bound \in {BOUND_UPPER, BOUND_EXACT}
HasLower(bound) == bound \in {BOUND_LOWER, BOUND_EXACT}

\* A bound is true of the value.
Holds(score, bound) == /\ HasUpper(bound) => value <= score
                       /\ HasLower(bound) => value >= score

\* Trusted: the bound of an entry that is deep enough is true.
Cutoff ==
  /\ pc = "table" /\ ~pvNode
  /\ \E ttScore \in ScoresAt(ply), bound \in BOUND_UPPER..BOUND_EXACT :
       /\ Holds(ttScore, bound)
       /\ IF ttScore >= beta THEN HasLower(bound) ELSE HasUpper(bound)
       /\ Return(ttScore)
  /\ UNCHANGED <<window, refuted, loop, pv, stored>> /\ Fixed

NoCutoff ==
  /\ pc = "table" /\ refuted' \in BOOLEAN /\ Goto("tablebase")
  /\ UNCHANGED <<window, loop, pv, stored>> /\ Fixed

\* A win is worth TBWIN less the distance.
TBScore(wdl, distance) == CASE wdl = "win"  -> TBWIN - distance
                            [] wdl = "loss" -> -TBWIN + distance
                            [] wdl = "draw" -> 0

TBBound(wdl) == CASE wdl = "win"  -> BOUND_LOWER
                  [] wdl = "loss" -> BOUND_UPPER
                  [] wdl = "draw" -> BOUND_EXACT

ToPruning == Goto(IF inCheck \/ root THEN "moves" ELSE "prune")

\* Not at the root.  Trusted: a win is worth at least the score, a loss at
\* most.
ProbeWDL ==
  /\ pc = "tablebase" /\ ~root
  /\ \E wdl \in {"win", "draw", "loss"} :
       LET score == TBScore(wdl, ply)
           bound == TBBound(wdl)
       IN  /\ Holds(score, bound)
           /\ IF \/ bound = BOUND_EXACT
                 \/ IF bound = BOUND_LOWER THEN score >= beta ELSE score <= alpha
              THEN /\ stored' = [score |-> score, bound |-> bound] /\ Return(score)
                   /\ UNCHANGED <<alpha, bestScore>>
              ELSE /\ IF pvNode /\ bound = BOUND_LOWER
                      THEN bestScore' = score /\ alpha' = AtLeast(alpha, score)
                      ELSE UNCHANGED <<alpha, bestScore>>
                   /\ ToPruning /\ UNCHANGED stored
  /\ UNCHANGED <<beta, refuted, oldAlpha, attained, moveCount, pv>> /\ Fixed

NoProbe ==
  /\ pc = "tablebase" /\ ToPruning
  /\ UNCHANGED <<window, refuted, loop, pv, stored>> /\ Fixed

-----------------------------------------------------------------------------
(* Pruning: outside of check and below the root.  The margins depend on    *)
(* the depth and on whether the side is improving, so the evaluation is    *)
(* chosen where it is read.                                                *)

Stay == UNCHANGED <<window, loop, pv, stored>> /\ Fixed

\* Trusted: no quiet move makes up for the margin, Quiescence has the value.
Razoring ==
  /\ pc = "prune" /\ ~pvNode /\ depth < 2 /\ \E eval \in Evals : eval + Margin < alpha
  /\ Goto("quiescence") /\ UNCHANGED refuted /\ Stay

\* Trusted: the value is not below the evaluation.
ReverseFutility ==
  /\ pc = "prune" /\ ~pvNode /\ depth < 7
  /\ \E eval \in Evals : eval - Margin >= beta /\ value >= eval /\ Return(eval)
  /\ UNCHANGED refuted /\ Stay

\* Mutant: an unproven win is returned.
NullScore_Unproven(score) == score

NullScore(score) == IF score >= TBWIN_IN_MAX THEN beta ELSE score

\* Trusted: the value is not below beta if that of passing the turn is not,
\* and not below the score then unless that is a win.
NullMove ==
  /\ pc = "prune" /\ ~pvNode /\ depth >= 3 /\ ~refuted /\ \E eval \in Evals : eval >= beta
  /\ \E v \in ValuesAt(ply + 1) : \E score \in Search(beta - 1, beta, -v) :
       IF score >= beta
       THEN /\ value >= beta /\ (score < TBWIN_IN_MAX => value >= score)
            /\ Return(NullScore(score))
       ELSE Goto("probcut")
  /\ refuted' \in BOOLEAN /\ Stay

NoPruning == pc = "prune" /\ Goto("probcut") /\ UNCHANGED refuted /\ Stay

\* Trusted: a search this much less deep is right about a capture this good.
\* It may not be the first that was tried.
ProbCut ==
  /\ pc = "probcut" /\ ~pvNode /\ depth >= 5 /\ beta \in Evals /\ ~refuted
  /\ \E v \in MoveValues : \E pbScore \in Search(beta + Margin - 1, beta + Margin, v) :
       pbScore >= beta + Margin /\ Return(pbScore)
  /\ UNCHANGED refuted /\ Stay

NoProbCut == pc = "probcut" /\ Goto("moves") /\ UNCHANGED refuted /\ Stay

\* Internal iterative deepening, without a move from the table, leaves a pv.
IID == /\ depth >= 4 /\ pv' \in {None, "other"}

-----------------------------------------------------------------------------
(* The move loop.                                                          *)

StartMoves ==
  /\ pc = "moves" /\ Goto("loop")
  /\ oldAlpha' = alpha
  /\ UNCHANGED pv \/ (IID /\ ~(inCheck \/ root))
  /\ refuted' = FALSE       \* not read again
  /\ UNCHANGED <<window, bestScore, attained, moveCount, stored>> /\ Fixed

\* A zero window search.  Reduced, it is searched again above alpha, and is
\* trusted when it is not.
ZeroWindow(v, n) ==
  LET doLMR   == depth > 2 /\ n > FullMoves + (IF pvNode THEN 1 ELSE 0)
      reduced == {s \in ScoresAt(ply + 1) : s <= alpha => v <= s}
      full    == Search(alpha, alpha + 1, v)
  IN  UNION {IF ~doLMR \/ s > alpha THEN full ELSE {s} : s \in reduced}

\* Searched with the whole window if it is the first, or not out of it.
MoveScores(v, n) ==
  IF pvNode /\ n = 1 THEN Search(alpha, beta, v)
  ELSE UNION {IF pvNode /\ s > alpha /\ s < beta THEN Search(alpha, beta, v) ELSE {s} :
              s \in ZeroWindow(v, n)}

\* Mutant: only when alpha is raised.
LeadsPV_Raised(score) == score > alpha /\ pvNode

LeadsPV(score) == (score > alpha /\ pvNode) \/ (root /\ moveCount = 0)

\* Late move pruning ends the loop after so many quiet moves, which moves
\* may be; not in check and in pv nodes.
LatePruning == ~pvNode /\ ~inCheck /\ moveCount > LateMoves

SearchMove ==
  /\ pc = "loop" /\ moveCount < MaxMoves
  /\ \E v \in MoveValues : \E score \in MoveScores(v, moveCount + 1) :
       /\ attained' = (attained \/ v = value)
       /\ bestScore' = AtLeast(bestScore, score)
       /\ pv' = IF score > bestScore /\ LeadsPV(score) THEN v ELSE pv
       /\ alpha' = IF score > bestScore THEN AtLeast(alpha, score) ELSE alpha
       /\ Goto(IF score > bestScore /\ score > alpha /\ score >= beta THEN "done" ELSE "loop")
  /\ moveCount' = moveCount + 1
  /\ UNCHANGED <<beta, refuted, oldAlpha, stored>> /\ Fixed

\* Trusted: what late move pruning skips is not above the best score.
EndOfMoves ==
  /\ pc = "loop"
  /\ attained \/ moveCount = 0 \/ (LatePruning /\ value <= bestScore)
  /\ Goto("done")
  /\ UNCHANGED refuted /\ Stay

Flag == IF bestScore >= beta THEN BOUND_LOWER
        ELSE IF alpha # oldAlpha THEN BOUND_EXACT ELSE BOUND_UPPER

Finish ==
  /\ pc = "done"
  /\ IF moveCount = 0
     THEN LET score == IF inCheck THEN -MATE + ply ELSE 0
          IN  value = score /\ Return(score) /\ UNCHANGED stored
     ELSE stored' = [score |-> bestScore, bound |-> Flag] /\ Return(bestScore)
  /\ UNCHANGED <<window, refuted, loop, pv>> /\ Fixed

-----------------------------------------------------------------------------
(* Quiescence: the same window, best score and count of moves.             *)

\* Trusted: the value is not below the evaluation, nor above alpha when the
\* evaluation is below it by the margin of delta pruning.
StandPat ==
  /\ pc = "quiescence" /\ ply < MaxPly
  /\ \E score \in Evals :
       /\ value >= score
       /\ bestScore' = score /\ attained' = (value = score)
       /\ IF score >= beta THEN Return(score) /\ UNCHANGED alpha
          ELSE IF score + Margin < alpha
          THEN value <= alpha /\ Return(alpha) /\ UNCHANGED alpha
          ELSE alpha' = AtLeast(alpha, score) /\ Goto("captures")
  /\ UNCHANGED <<beta, refuted, oldAlpha, moveCount, pv, stored>> /\ Fixed

\* Captures that futility skips are trusted not to be above the best score.
Capture ==
  /\ pc = "captures" /\ moveCount < MaxMoves
  /\ \E v \in MoveValues : \E score \in QuietScores(alpha, beta) :
       /\ Bounds(score, alpha, beta, v)
       /\ attained' = (attained \/ v = value)
       /\ bestScore' = AtLeast(bestScore, score)
       /\ alpha' = IF score > bestScore THEN AtLeast(alpha, score) ELSE alpha
       /\ IF score > bestScore /\ score > alpha /\ score >= beta
          THEN Return(score) ELSE Goto("captures")
  /\ moveCount' = moveCount + 1
  /\ UNCHANGED <<beta, refuted, oldAlpha, pv, stored>> /\ Fixed

EndOfCaptures ==
  /\ pc = "captures" /\ (attained \/ value <= bestScore)
  /\ Return(bestScore) /\ UNCHANGED refuted /\ Stay

-----------------------------------------------------------------------------

Next == \/ Start \/ Abort \/ EarlyExit \/ MateDistance \/ Cutoff \/ NoCutoff
        \/ ProbeWDL \/ NoProbe
        \/ Razoring \/ ReverseFutility \/ NullMove \/ NoPruning \/ ProbCut \/ NoProbCut
        \/ StartMoves \/ SearchMove \/ EndOfMoves \/ Finish
        \/ StandPat \/ Capture \/ EndOfCaptures

Spec == Init /\ [][Next]_vars

\* The promise: what the call returns is true of the value of the position
\* as seen through the window it was given, and a score the caller can use;
\* and the bound left in the table is true.  (search.cpp 166-465: mate
\* distance pruning narrows the window the score is judged by, tablebases
\* raise alpha behind the moves' back, null move returns beta for a win.)
BoundIsTrue ==
  /\ result # None =>
       /\ Bounds(result, call.alpha, call.beta, value)
       /\ result \in ScoresAt(ply) \/ ~Window(call.alpha, call.beta, ply)
       /\ depth <= 0 => result \in QuietScores(call.alpha, call.beta)
  /\ stored # None => Holds(stored.score, stored.bound) /\ stored.score \in ScoresAt(ply)

\* The windows of the searches the call may start next, and of what kind.
Asked ==
  (IF pc = "loop" /\ pvNode THEN {window} ELSE {})
  \cup (IF pc = "loop" /\ (~pvNode \/ moveCount > 0) THEN {<<alpha, alpha + 1>>} ELSE {})
  \cup (IF pc = "prune" /\ ~pvNode THEN {<<beta - 1, beta>>} ELSE {})
  \cup (IF pc = "probcut" /\ ~pvNode /\ beta \in Evals
        THEN {<<beta + Margin - 1, beta + Margin>>} ELSE {})

\* The call keeps what it relies on itself: the windows of its searches are
\* not empty and let every mate that is still possible there be told from
\* the others, and the scores it works with are valid ones (the assertions of
\* search.cpp 460-462; mate distance pruning 207-211, and the window of
\* the zero window searches around a raised alpha).
WindowsInRange ==
  /\ \A w \in Asked : Window(-w[2], -w[1], ply + 1)
  /\ pc = "captures" => alpha < beta
  /\ pc \in {"done", "returned"} /\ moveCount > 0 /\ depth > 0 =>
       alpha >= oldAlpha /\ {alpha, bestScore} \subseteq -MATE..MATE

\* What is played: the pv of the root is empty only if there is no move, and
\* its first move is worth the score that is accepted (search.cpp 410-415,
\* 506-508, 532-536: a move searched with a zero window, or left by internal
\* iterative deepening, must not stay there).
PVLeads ==
  (pc = "returned" /\ root /\ moveCount > 0) =>
    /\ pv # None
    /\ (call.alpha < result /\ result < call.beta) => pv = value
=============================================================================

--------------------------- MODULE AspirationWindow ---------------------------
(***************************************************************************)
(* Iterative deepening and its aspiration window (search.cpp): which root  *)
(* searches a thread makes, with which window and depth, what it keeps of  *)
(* their results, and where an abort may leave it.                         *)
(*                                                                         *)
(* A root search is one step: AlphaBeta returns any score ValidScore       *)
(* admits and leaves a principal variation, of which the model keeps       *)
(* whether it is empty and line[0].  The root has a legal move.            *)
(* Of the time only the limits with which the search begins are kept.      *)
(***************************************************************************)
EXTENDS Integers

CONSTANTS
  Move, NoMove,
  Mate, TBWinInMax,   \* MATE, TBWIN_IN_MAX
  InitialWindow,      \* 12
  InitialDelta,       \* 16
  FullUntil,          \* 6: deeper iterations start with a narrow window
  MaxDepth,           \* MAXDEPTH
  LimitDepth,         \* Limits.depth
  GoCommands          \* the go commands that may have begun the search

Time == INSTANCE TimeManagement

Infinite == Mate + 1

ASSUME WindowAssumption ==
  /\ NoMove \notin Move
  /\ Mate \in Nat /\ TBWinInMax \in 0..Mate
  /\ InitialWindow \in Nat /\ InitialWindow >= 2
  /\ InitialDelta \in Nat /\ InitialDelta > InitialWindow /\ InitialDelta <= Mate
  /\ FullUntil \in Nat \ {0} /\ MaxDepth \in Nat /\ LimitDepth \in Nat /\ LimitDepth > 0
  /\ GoCommands \subseteq Time!Go

VARIABLES
  mainThread,   \* thread->index == 0
  inCheck,      \* the root position is in check
  timelimit,    \* Limits.timelimit
  pc,           \* "iterate": at the head of the loop; "search"; "done", "aborted"
  threadDepth,  \* thread->depth
  score,        \* thread->score
  alpha, beta, delta, depth,  \* locals of AspirationWindow
  pv,           \* thread->pv: is length 0, and line[0]
  bestMove      \* thread->bestMove

windowVars == <<mainThread, inCheck, timelimit, pc, threadDepth, score,
          alpha, beta, delta, depth, pv, bestMove>>

setup == <<mainThread, inCheck, timelimit>>
window == <<alpha, beta, delta, depth>>

ValidScore == -Mate..Mate
AtLeast(a, b) == IF a >= b THEN a ELSE b
AtMost(a, b) == IF a <= b THEN a ELSE b
Abs(x) == AtLeast(x, -x)
(* Division by two in C truncates toward zero. *)
Half(x) == IF x >= 0 THEN x \div 2 ELSE -((-x) \div 2)
-----------------------------------------------------------------------------
(* The head of the loop and of AspirationWindow. *)
StartIteration ==
  /\ pc = "iterate" /\ threadDepth <= LimitDepth
  /\ LET narrow == threadDepth > FullUntil
     IN  /\ alpha' = IF narrow THEN AtLeast(score - InitialWindow, -Infinite) ELSE -Infinite
         /\ beta'  = IF narrow THEN AtMost(score + InitialWindow, Infinite) ELSE Infinite
  /\ delta' = InitialDelta /\ depth' = threadDepth
  /\ pc' = "search"
  /\ UNCHANGED <<setup, threadDepth, score, pv, bestMove>>

LastIteration ==
  /\ pc = "iterate" /\ threadDepth > LimitDepth
  /\ pc' = "done"
  /\ UNCHANGED <<setup, threadDepth, score, window, pv, bestMove>>

(* The depth of the root search, extended in check. *)
RootDepth == IF inCheck /\ depth + 1 < MaxDepth THEN depth + 1 ELSE depth

(* What AlphaBeta leaves in the pv at the root: empty, with line[0] as it  *)
(* was, when it is a quiescence search or when a null window lets the      *)
(* transposition table answer; else a move, since the first one counts.    *)
RootSearch(s) ==
  /\ pc = "search" /\ s \in ValidScore
  /\ \/ /\ RootDepth <= 0 \/ beta - alpha = 1
        /\ pv' = [pv EXCEPT !.empty = TRUE]
     \/ /\ RootDepth > 0
        /\ \E m \in Move : pv' = [empty |-> FALSE, move |-> m]

Grown == delta + (delta * 2) \div 3

(* Mutant: the window is narrowed on the wrong side only. *)
FailLow_KeepsAlpha(s) ==
  /\ RootSearch(s) /\ s <= alpha
  /\ beta' = Half(alpha + beta)
  /\ depth' = threadDepth /\ delta' = Grown
  /\ UNCHANGED <<setup, alpha, pc, threadDepth, score, bestMove>>

FailLow(s) ==
  /\ RootSearch(s) /\ s <= alpha
  /\ alpha' = AtLeast(alpha - delta, -Infinite)
  /\ beta' = Half(alpha' + beta)
  /\ depth' = threadDepth /\ delta' = Grown
  /\ UNCHANGED <<setup, pc, threadDepth, score, bestMove>>

FailHigh(s) ==
  /\ RootSearch(s) /\ s > alpha /\ s >= beta
  /\ beta' = AtMost(beta + delta, Infinite)
  /\ depth' = depth - (IF Abs(s) < TBWinInMax THEN 1 ELSE 0)
  /\ delta' = Grown
  /\ UNCHANGED <<setup, alpha, pc, threadDepth, score, bestMove>>

(* Mutant: the time is looked at before the move is kept. *)
Accept_TimeFirst(s) ==
  /\ RootSearch(s) /\ s > alpha /\ s < beta
  /\ score' = s
  /\ \/ /\ pc' = "iterate" /\ threadDepth' = threadDepth + 1
        /\ bestMove' = IF mainThread THEN pv'.move ELSE bestMove
     \/ mainThread /\ timelimit /\ pc' = "done" /\ UNCHANGED <<threadDepth, bestMove>>
  /\ UNCHANGED <<setup, window>>

(* Mutant: a helper continues without going deeper. *)
Accept_HelperSameDepth(s) ==
  /\ RootSearch(s) /\ s > alpha /\ s < beta
  /\ score' = s
  /\ bestMove' = IF mainThread THEN pv'.move ELSE bestMove
  /\ \/ pc' = "iterate" /\ threadDepth' = threadDepth + (IF mainThread THEN 1 ELSE 0)
     \/ mainThread /\ timelimit /\ pc' = "done" /\ UNCHANGED threadDepth
  /\ UNCHANGED <<setup, window>>

(* A score inside the window ends the iteration.  Only the main thread     *)
(* keeps its move and may find that the time for one more is gone.         *)
Accept(s) ==
  /\ RootSearch(s) /\ s > alpha /\ s < beta
  /\ score' = s
  /\ bestMove' = IF mainThread THEN pv'.move ELSE bestMove
  /\ \/ pc' = "iterate" /\ threadDepth' = threadDepth + 1
     \/ mainThread /\ timelimit /\ pc' = "done" /\ UNCHANGED threadDepth
  /\ UNCHANGED <<setup, window>>

(* longjmp out of the search, which may have emptied the pv or put a move  *)
(* in it.                                                                  *)
Abort ==
  /\ pc = "search"
  /\ \/ pv' \in {pv, [pv EXCEPT !.empty = TRUE]}
     \/ RootDepth > 0 /\ \E m \in Move : pv' = [empty |-> FALSE, move |-> m]
  /\ pc' = "aborted"
  /\ UNCHANGED <<setup, threadDepth, score, window, bestMove>>
-----------------------------------------------------------------------------
(* The thread as PrepareSearch leaves it, its depth set to 1. *)
WindowInit ==
  /\ mainThread \in BOOLEAN /\ inCheck \in BOOLEAN /\ timelimit \in BOOLEAN
  /\ pc = "iterate" /\ threadDepth = 1 /\ score = 0
  /\ alpha = -Infinite /\ beta = Infinite /\ delta = InitialDelta /\ depth = 1
  /\ pv = [empty |-> TRUE, move |-> NoMove] /\ bestMove = NoMove

WindowNext ==
  \/ StartIteration \/ LastIteration \/ Abort
  \/ \E s \in ValidScore : FailLow(s) \/ FailHigh(s) \/ Accept(s)

WindowSpec == WindowInit /\ [][WindowNext]_windowVars

(* A search that is not aborted returns: the thread is not suspended.      *)
FairWindowSpec == WindowSpec /\ WF_windowVars(WindowNext)
-----------------------------------------------------------------------------
(* Type invariant. *)
WindowTypeOK ==
  /\ mainThread \in BOOLEAN /\ inCheck \in BOOLEAN /\ timelimit \in BOOLEAN
  /\ pc \in {"iterate", "search", "done", "aborted"}
  /\ threadDepth \in 1..LimitDepth + 1 /\ score \in ValidScore
  /\ alpha \in -Infinite..Infinite /\ beta \in -Infinite..Infinite
  /\ delta \in Nat /\ depth \in Int /\ depth <= threadDepth
  /\ pv \in [empty : BOOLEAN, move : Move \union {NoMove}]
  /\ bestMove \in Move \union {NoMove}

(* Halving the window after a fail low never leaves a null window at the   *)
(* root (search.cpp 496-498): with alpha = beta - 1 the root would not be  *)
(* a pvNode (line 173), could return from the table without a move         *)
(* (223-233), and the window could not contain any score.                  *)
RootIsPV == pc = "search" => beta - alpha >= 2

(* The step, which grows by two thirds with every search, stays far within *)
(* an int (line 510): no sequence of fail lows and fail highs makes it     *)
(* larger than 16 * INFINITE.                                              *)
DeltaBounded == delta <= 16 * Infinite

(* Once an iteration is complete the main thread has a move to play, also  *)
(* when the time is gone right after it, whatever the later searches and   *)
(* the abort leave in the pv (521-543).                                    *)
HasAnswer == mainThread /\ (threadDepth > 1 \/ pc = "done") => bestMove # NoMove

(* When deepening starts under a time limit, the budget of the go command  *)
(* that began it fits the clock of the side to move, whatever it was: the  *)
(* plan is not above the bound that cuts the search, and that bound leaves *)
(* a fifth of the clock, for all mixtures of increments and moves to go,   *)
(* or the overhead of a time for the move, zero and below it included      *)
(* (time.cpp 25-58).                                                       *)
BudgetsFit ==
  pc = "iterate" /\ threadDepth = 1 /\ timelimit =>
    \A go \in GoCommands, stm \in {"white", "black"} : Time!BudgetFits(go, stm)

(* Re-searching ends: every thread leaves IterativeDeepening, though a     *)
(* fail low lowers beta again after a fail high raised it (481-511).       *)
Terminates == <>(pc \in {"done", "aborted"})
=============================================================================

---------------------------- MODULE GameHistory -----------------------------
(***************************************************************************)
(* gameHistory, histPly and rule50: the part of a Position that tells      *)
(* draws (IsRepetition and the fifty move rule in search.cpp).  The UCI    *)
(* thread fills it from a position command and resets histPly so that long *)
(* games stay inside the array (uci.cpp 84-112); PrepareSearch copies it   *)
(* to a thread, which makes and takes back moves and null moves on it, and *)
(* is abandoned anywhere when the search is aborted.  Of the board only    *)
(* its identity is kept.                                                   *)
(*                                                                         *)
(* The history variables game and line are the positions that really came  *)
(* about, with the true count of moves since a pawn move, a capture or a   *)
(* null move.  game starts again where the past can no longer matter.      *)
(***************************************************************************)
EXTENDS Integers, Sequences

CONSTANTS Board,         \* boards, without the side to move
          StartClocks,   \* fifty move counters of the FEN strings sent
          CounterMod,    \* 256: rule50 has 8 bits
          DrawClock,     \* 100
          MAXDEPTH,
          MAXGAMEMOVES,
          MaxGame,       \* bound on the length of game
          NoPosition     \* what an abandoned thread holds

ASSUME HistoryAssumption ==
  /\ {CounterMod, DrawClock, MAXDEPTH, MAXGAMEMOVES} \subseteq Nat \ {0}
  /\ CounterMod + MAXDEPTH <= MAXGAMEMOVES
  /\ StartClocks \subseteq 0..(CounterMod - 1)

VARIABLES engine,      \* engine.pos, of the UCI thread
          thread,      \* thread->pos
          searching,
          game, line   \* history variables for engine and thread

historyVars == <<engine, thread, searching, game, line>>

Key   == [board : Board, stm : 0..1]
Count == 0..(CounterMod - 1)
Entry == [posKey : Key, rule50 : Count, null : BOOLEAN]

\* The StateInfo i plies back; history(0) is the one the next move writes.
history(p, i) == p.gameHistory[p.histPly - i + 1]

NextKey(p, board) == [board |-> board, stm |-> 1 - p.key.stm]

\* MakeMove and MakeNullMove.  Entries above histPly are not kept: each is
\* written before histPly passes it.
Push(p, key, rule50, null) ==
  [key |-> key, rule50 |-> rule50, histPly |-> p.histPly + 1,
   ply |-> p.ply + 1,
   gameHistory |-> Append(p.gameHistory,
     [posKey |-> p.key, rule50 |-> p.rule50, null |-> null])]

MakeMove(p, board, zeroing) ==
  Push(p, NextKey(p, board),
       IF zeroing THEN 0 ELSE (p.rule50 + 1) % CounterMod, FALSE)

\* Mutant: a null move counts as a reversible move.
MakeNullMove_Counts(p) ==
  Push(p, NextKey(p, p.key.board), (p.rule50 + 1) % CounterMod, TRUE)

MakeNullMove(p) == Push(p, NextKey(p, p.key.board), 0, TRUE)

TakeMove(p) ==
  [key |-> history(p, 1).posKey, rule50 |-> history(p, 1).rule50,
   histPly |-> p.histPly - 1, ply |-> p.ply - 1,
   gameHistory |-> SubSeq(p.gameHistory, 1, p.histPly - 1)]

\* Only positions with the same side to move since the last irreversible
\* move, as far back as the array knows.
IsRepetition(p) ==
  \E i \in 4..p.histPly : /\ i % 2 = 0
                          /\ i <= p.rule50
                          /\ p.key = history(p, i).posKey

Drawn(p) == IsRepetition(p) \/ p.rule50 >= DrawClock

-----------------------------------------------------------------------------
(* History variables: what comes after a position of the game.             *)

TrueAfter(l, board, zeroing) ==
  [key   |-> [board |-> board, stm |-> 1 - l[Len(l)].key.stm],
   clock |-> IF zeroing THEN 0 ELSE l[Len(l)].clock + 1]

-----------------------------------------------------------------------------
(* The UCI thread.                                                         *)

StartKey(board) == [board |-> board, stm |-> 0]

\* ParseFen, of a string with White to move.
ParseFen(board, clock) ==
  [key |-> StartKey(board), rule50 |-> clock, histPly |-> 0, ply |-> 0,
   gameHistory |-> <<>>]

SetUp(board, clock) ==
  /\ engine = ParseFen(board, clock)
  /\ game = <<[key |-> StartKey(board), clock |-> clock]>>

\* The start of a position command.
UCIPosition(board, clock) ==
  /\ ~searching
  /\ engine' = ParseFen(board, clock)
  /\ game' = <<[key |-> StartKey(board), clock |-> clock]>>
  /\ UNCHANGED <<thread, searching, line>>

\* Mutant: the history is never reset.
ResetHistPly_Never(p) == [p EXCEPT !.ply = 0]

\* Entries below histPly are forgotten when the counter is zero.
ResetHistPly(p) ==
  IF p.rule50 = 0
  THEN [p EXCEPT !.ply = 0, !.histPly = 0, !.gameHistory = <<>>]
  ELSE [p EXCEPT !.ply = 0]

\* One move of the list of moves.
UCIMove(board, zeroing) ==
  /\ ~searching
  /\ Len(game) < MaxGame
  /\ board # engine.key.board
  /\ engine' = ResetHistPly(MakeMove(engine, board, zeroing))
  /\ game' = IF zeroing THEN <<TrueAfter(game, board, TRUE)>>
                        ELSE Append(game, TrueAfter(game, board, FALSE))
  /\ UNCHANGED <<thread, searching, line>>

PrepareSearch ==
  /\ ~searching
  /\ searching' = TRUE
  /\ thread' = engine
  /\ line' = game
  /\ UNCHANGED <<engine, game>>

-----------------------------------------------------------------------------
(* The search of a thread.  A node that is a draw or at MAXDEPTH makes no  *)
(* moves; the root is not tested for draws.                                *)

Expands == /\ searching
           /\ thread.ply < MAXDEPTH
           /\ thread.ply = 0 \/ ~Drawn(thread)

SearchMove(board, zeroing) ==
  /\ Expands
  /\ board # thread.key.board
  /\ thread' = MakeMove(thread, board, zeroing)
  /\ line' = Append(line, TrueAfter(line, board, zeroing))
  /\ UNCHANGED <<engine, searching, game>>

\* Not at the root, and not after a null move.
NullMove ==
  /\ Expands
  /\ thread.ply > 0
  /\ ~history(thread, 1).null
  /\ thread' = MakeNullMove(thread)
  /\ line' = Append(line, TrueAfter(line, thread.key.board, TRUE))
  /\ UNCHANGED <<engine, searching, game>>

TakeBack ==
  /\ searching
  /\ thread.ply > 0
  /\ thread' = TakeMove(thread)
  /\ line' = SubSeq(line, 1, Len(line) - 1)
  /\ UNCHANGED <<engine, searching, game>>

\* The search ends at the root, or is aborted below it by longjmp.
EndSearch ==
  /\ searching
  /\ searching' = FALSE
  /\ thread' = NoPosition
  /\ line' = <<>>
  /\ UNCHANGED <<engine, game>>

HistoryInit ==
  /\ \E board \in Board, clock \in StartClocks : SetUp(board, clock)
  /\ thread = NoPosition
  /\ searching = FALSE
  /\ line = <<>>

HistoryNext ==
  \/ \E board \in Board, clock \in StartClocks : UCIPosition(board, clock)
  \/ PrepareSearch \/ NullMove \/ TakeBack \/ EndSearch
  \/ \E board \in Board, zeroing \in BOOLEAN :
       UCIMove(board, zeroing) \/ SearchMove(board, zeroing)

HistorySpec == HistoryInit /\ [][HistoryNext]_historyVars

-----------------------------------------------------------------------------
(* Properties.                                                             *)

Position == [key : Key, rule50 : Count, histPly : Nat, ply : Nat,
             gameHistory : Seq(Entry)]
IsPosition(p) == p \in Position /\ Len(p.gameHistory) = p.histPly

\* The positions of both threads are positions, or nothing between searches.
HistoryTypeOK ==
  /\ searching \in BOOLEAN
  /\ IsPosition(engine)
  /\ IF searching THEN IsPosition(thread) ELSE thread = NoPosition

\* However long the game and however deep the search, the next entry is
\* inside gameHistory (MakeMove, state()), and history(-1) and history(-2)
\* of a node at ply 1 and 2 are not before its start.
IndexInRange ==
  /\ engine.histPly < MAXGAMEMOVES /\ engine.ply = 0
  /\ searching => /\ thread.histPly < MAXGAMEMOVES
                  /\ thread.ply <= thread.histPly
                  /\ thread.ply <= MAXDEPTH

\* A position of the line with the same side to move as the last one, which
\* no irreversible move or null move separates from it.
Repeated(l) ==
  \E j \in 1..(Len(l) - 4) : /\ (Len(l) - j) % 2 = 0
                             /\ Len(l) - j <= l[Len(l)].clock
                             /\ l[j].key = l[Len(l)].key

\* A node is scored as a draw exactly when the true line repeats a position
\* or the true counter says so: neither the reset of histPly nor taking back
\* nor null moves lose or invent a repetition.  Only a counter that has gone
\* through its 8 bits is forgotten.
DrawsExact ==
  (searching /\ line[Len(line)].clock < CounterMod) =>
    /\ IsRepetition(thread) <=> Repeated(line)
    /\ thread.rule50 = line[Len(line)].clock
=============================================================================

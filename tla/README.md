# TLA+ verification of WeissNNUE

WeissNNUE is a UCI chess engine: a command loop, one search thread per go with
helper threads beside it, an alpha-beta search over a shared transposition
table, and an NNUE evaluation. This directory holds TLA+ models of the parts
whose correctness depends on order: threads and flags, shared entries written
without locks, generators that stop and resume, caches that may be stale,
windows that are moved and searched again; and of the parts that say the same
thing twice: boards, evaluations, network layers and tablebase probes. TLC checks
every model on a small instance; TLAPS proves the most important facts for every
instance.

Paths below are relative to `src/src/`.

## 1. The system

| Component | State | Operations | Interacts with |
|---|---|---|---|
| Search control (`uci.cpp`, `threads.cpp`, `search.cpp` 514-596) | `ABORT_SIGNAL`, `Limits`, the pthread handles, sleep mutex and condition, `engine.pos` | the UCI commands; `PrepareSearch`, iterations, `Wait`/`Wake`, joins, `PrintConclusion` | creates the search thread, which creates the helpers; all threads read `ABORT_SIGNAL`; `isready`, `ucinewgame` and `setoption` change memory the search uses |
| Iterative deepening (`search.cpp` 467-546) | `thread->depth`, `score`, `pv`, `bestMove`; `alpha`, `beta`, `delta`, `depth` | start an iteration, fail low, fail high, accept, abort by `longjmp` | calls `AlphaBeta` at the root; its `bestMove` is the answer |
| Tree search (`search.cpp` 93-465) | the C stack of nodes | `AlphaBeta`, `Quiescence` | table, move picker, evaluation, board, tablebases |
| Transposition table entries (`transposition.*`) | `TTEntry` | `ProbeTT`, `StoreTTEntry`, mate score conversion | all threads, without a lock |
| Transposition table memory (`transposition.*`) | `TT.mem`, `count`, sizes, `dirty` | `InitTT`, `ClearTT`, `ThreadClearTT`, `GetEntry` | UCI thread, clearing threads, search threads |
| Move picker (`movepicker.*`) | `MovePicker`, `MoveList`, killers of a ply | `InitNormalMP`, `InitNoisyMP`, `NextMove`, killer update | generators, `MoveIsPseudoLegal`, the move loops |
| Evaluation cache (`eval/nnue/evaluate_nnue.cpp`, `nnue_feature_transformer.h`) | accumulator of every `StateInfo`, `g_evalTable` | `evaluate`, `ComputeScore`, `Transform`, `load_eval` | `MakeMove`, `MakeNullMove` mark accumulators |
| Position (`board.*`, `makemove.*`, `EvalList` in `evaluate.h`) | squares, bitboards, counts, key, castling rights, piece numbers, `dirtyPiece` | `ParseFen`, `MakeMove`, `TakeMove`, null moves | every part of the search |
| Game history (`uci.cpp` 84-112, `search.cpp` 59-69) | `gameHistory`, `histPly`, `ply`, `rule50` | `position` commands, moves and take backs, `IsRepetition` | filled by the UCI thread, copied to each thread |
| Move generation (`movegen.*`, `move.*`) | none | `GenNoisyMoves`, `GenQuietMoves`, `MoveIsPseudoLegal` | picker |
| Time management (`time.*`) | `Limits.optimalUsage`, `maxUsage` | `ParseTimeControl`, `InitTimeManagement`, `OutOfTime` | iterations and nodes |
| Network (`eval/nnue/features`, `layers`, `nnue_feature_transformer.h`) | accumulators; weights | `RefreshAccumulator`, `Transform`, `Propagate` | piece list of the position |
| Classical evaluation (`evaluate.cpp`, `psqt.cpp`) | `material`, `phase` of the position | `EvalPosition` | bitboards; kept up to date by `makemove.cpp` |
| Tablebases (`syzygy.h`, `fathom/`) | the mapped files | `ProbeWDL`, `RootProbe`, `probe_wdl`, `probe_dtz` | own board (`Pos`), engine's attack tables |
| Bitboards (`bitboard.*`) | attack tables, computed before `main` | `AttackBB`, `ShiftBB`, `SqAttacked` | position, generators |
| Cloud book, trainer, tuning, tests | | | see section 8 |

What is hard about each, and what makes it correct:

* *Search control.* Three kinds of threads and one flag that is written by two
  of them. Correct when searches never overlap, a stop cuts only its own
  search, memory outlives its users, stop returns, and each go is answered once.
* *Iterative deepening.* A loop without a counter, over windows that both
  failures move, and an exit by `longjmp` from anywhere. Correct when the root
  is searched with an open window, the loop ends, and a completed iteration
  leaves a move.
* *Table entries.* A pointer held across the search of the children, which
  overwrite the entry; several writers without a lock. Correct when every
  cutoff is justified by one store about that position.
* *Table memory.* Parallel clearing in rounded slices, behind a dirty flag.
  Correct when no search reads raw memory and no index leaves the table.
* *Move picker.* A resumable generator whose three sources of moves overlap.
  Correct when every owed move is handed out once.
* *Position.* The same facts kept five times over and updated by hand in each
  of a dozen cases, then undone by other code. Correct when the copies agree,
  taking back restores all of them, and what is played is chess.
* *Move generation.* Whole-board shifts, two generators that split the moves
  between them, and a third definition of the same moves that accepts those of
  other positions. Correct when all three agree with the rules.
* *Game history.* A bounded array over games of any length, cut where the past
  cannot matter. Correct when the index stays inside and no draw is lost or invented.
* *Tree search.* One function that narrows its window, borrows bounds from the
  table and the tablebases, searches a move up to three times, and returns from
  a dozen places. Correct when what it returns is true of the position as seen
  through the window its caller gave, and the bound it stores is true.
* *Network.* Sums updated by difference, and layers computed in registers whose
  halves are packed each for itself. Correct when both ways give the same numbers.
* *Classical evaluation.* Terms written once per color, on numbers packed two in a
  word. Correct when colors are treated alike.
* *Tablebases.* A second chess program, an index that folds symmetries, tables
  that know no en passant and count inexactly. Correct when moves are those of
  chess, positions are told apart, and the value is kept.
* *Evaluation cache.* Three caches of one value, marked stale by other files.
  Correct when a score is that of the position and network it is used for.

`PROJECT.json` lists these hazards at their lines, each with the properties
that watch it, or with the reason why none does yet.

## 2. Modules

| Module | Models | Proofs |
|---|---|---|
| `SearchControl` | threads, flags and commands | `SearchControlProofs` |
| `SearchService` | abstract: what a GUI sees of go and stop; `SearchControl` implements it | |
| `AspirationWindow` | `IterativeDeepening` and `AspirationWindow` of one thread | `ScoreProofs` |
| `TranspositionTable` | one entry and the nodes that use it | `TranspositionTableProofs` |
| `TTMemory` | allocation, clearing, dirty flag, index | `TranspositionTableProofs` |
| `MovePicker` | the staged generator and the killers of a ply | `NodeProofs` |
| `MoveSource` | abstract: a source that hands out each owed move once; `MovePicker` implements it | |
| `NNUEEval` | accumulators, evaluation hash, network | `ScoreProofs` |
| `Bitboard` | squares, pieces, attack tables, attack tests | `RulesProofs` |
| `MoveGen` | the generators and `MoveIsPseudoLegal`, on `Bitboard` | `RulesProofs` |
| `Position` | the position and the operations on it, on `MoveGen` | `PositionProofs`, `RulesProofs` |
| `Game` | abstract: a line of play under the rules of chess; `Position` implements it | `RulesProofs` |
| `GameHistory` | the history of a position across games and searches | `NodeProofs` |
| `AlphaBeta` | one call of `AlphaBeta` or `Quiescence`, under the contract of the calls it makes | `AlphaBetaProofs` |
| `TimeManagement` | the limits of a go command and the budget made of them | `ScoreProofs` |
| `Psqt`, `ClassicalEval` | packed scores and piece values; `EvalPosition` | |
| `NNUEFeatures`, `NNUELayers` | features and accumulators; the layers, scalar and AVX2 | |
| `TBChess`, `TBIndex` | fathom's chess; where a position stands in a table | |
| `TBProbe` | the probes of values, distances and root moves | `TBProbeProofs` |
| `PositionViews` | what the last six make of a position of `Position`: the properties that compare them | |

Each `MC` module gives the constants of its component small values; the `.cfg`
files of one component differ in the property they check and in its bounds.
Definitions named `X_Y` after a definition `X`, with a comment that begins
"Mutant", are faulty variants of `X`: with one of them in the place of `X` the
property it belongs to is violated, which shows that the property can fail.

### SearchControl

`uci`, `main` and `helper` are the program counters of the three kinds of
threads. An action is what a thread does between two accesses to shared state:
`UCIGo` clears the flag and creates the thread, `UCIStop`, `Wake` and `StopJoin`
are the three calls of `UCIStop`, `WaitLock` to `WaitUnlock` those of `Wait`.
`pthread_cond_wait` may wake up spuriously (`SpuriousWake`). The tree search is
`IterationTop` followed by `IterationDone` or `IterationAborted`; a move is told
apart by the position it was searched for. `setoption Threads` drops the old
handles, and `ClearTT` zeroes the handle of the search thread, both as in the
code. A second `stop` joins a joined handle, which POSIX leaves undefined:
`StopJoin` may then end the process.

The GUI follows the protocol: `position`, `go`, `setoption` and `ucinewgame`
come when the last search was answered or after `stop`; `isready`, `stop` and
`quit` come at any time. With `GuiSyncs` it also sends `isready` between a
change of `Hash` and `go`; without, see the observations of section 6.

### AspirationWindow

One action per branch of the loop: `FailLow`, `FailHigh`, `Accept`, with
`StartIteration` at the head of the iteration and `Abort` for the `longjmp`. A
root search returns any score between `-Mate` and `Mate`, which is the range
the code asserts (static evaluations are clamped well inside it). Of the pv the
model keeps whether it is empty and its first move. The root has a legal move.
Windows, divisions (which truncate toward zero as in C), the depth reduction at
fail highs and the growth of `delta` are computed as in the code. Scores and
windows are constants in a proportion like that of the code, so that one
iteration contains the caps at both ends and several failures in a row.

### TranspositionTable

`stack` is the C stack of a thread, its nodes with key, depth, ply and a program
counter that stops wherever `AlphaBeta` reads or writes the entry: the probe
(which reads key and score), the depth test, the cutoff test, the tablebase store,
the children, the final store. `StoreTTEntry` tests first and then writes its
fields one by one in any order. The window of a node is arbitrary, so either side
of the cutoff test may be taken; the `ReturnWithoutStore` action stands for every
pruning exit. `intent` records the last store that passed the test.

### TTMemory

`table` says of each entry whether it holds raw memory, zero or data. `InitTT`
allocates, marks dirty and starts `ClearTT`; `cursor` holds what each clearing
thread still has to do, and the threads take turns entry by entry. `Slice` and
`GetEntry` do the arithmetic of the code with the sizes as parameters. A failed
allocation ends the process and is left out. `setoption` and `go` during a
search are excluded here; that they cannot meet is `SearchControl`'s subject.

### MovePicker

One action per stage of `NextMove`; `Return` is its exit. `PickNextMove` takes any
remaining entry, since the ordering scores are arbitrary, and skips the hash
move and the killers as the code does, refilling by recursion in the code and by
repetition here. `GenNoisy` are the moves `GenNoisyMoves` emits; `Noisy` those
`moveIsNoisy` is true of, which has the underpromotions in addition. `killers`
persist from node to node of the ply and change at a cutoff (`CutoffNode`).

### NNUEEval

`line` is the path from the root, `state` the `StateInfo` of each ply with its
accumulator, `hash` one slot of `g_evalTable`, which several positions share. A
score is the pair of the position and the network it was computed from.
`MakeMove` marks the `StateInfo` of the position it *leaves*, because it takes
the pointer before `histPly` is incremented; `MakeNullMove` copies from
`st->previous`, which leads into the position of the UCI thread, where nothing
is ever computed. Both are modelled as written and lead to finding 1. A network
is loaded only between searches: `setoption EvalDir` is followed by `isready`
before `go`, the same assumption as `GuiSyncs`.

### Bitboard, MoveGen, Position

A bitboard is the set of its squares and a move the record of its packed fields;
everything is on the full board. A Zobrist key is the exclusive or of random
words, modelled as the set of words it consists of, one set per table, so that two
positions have equal keys exactly if they have the same words: a word hashed in and
never out shows at once. `PieceKeys[EMPTY]` has words for ranks 3 to 6 only, which
is why "no en passant square" needs no test in the code.

`Made(p, move)` follows `MakeMove` step by step (`p1` to `p6`: history and rights,
captured piece, en passant, the piece itself, pawn or castling specifics, side)
and gives the new position and the `StateInfo` left behind; `TakenBack` does the
same for `TakeMove`. `MakeMove` joins them: an illegal move is made and taken back
in one action. `SearchMove` plays any generated move, `MakeNullMove` has the
conditions of null move pruning that are about the position. `before` is a history
variable with the position before each move, whole, against which taking back is
compared.

`Game` states the rules with files, ranks and the squares between two squares,
and shares no definition with the code or its model. `PlaysByRules` maps the
squares, side, en passant square, rights and counter of each position of the line;
it is a refinement, so it covers captures, promotions, castling, pins, checks and
the take backs. `EachMoveOnce` compares the two generators with the same rules
before legality, and `PseudoLegalExact` compares `MoveIsPseudoLegal` with the
generators over all moves that are pseudo-legal in some position
(`SomewherePseudoLegal`), which is the precondition its comment states.

### GameHistory

`engine` is the position of the UCI thread, `thread` the copy of a search. Of the
board only its identity is kept; a move may reach any other board, with or without
being irreversible. `UCIMove` is one round of the loop over the moves of a
`position` command, with the reset of `ply` and `histPly` at its end. `SearchMove`,
`NullMove` and `TakeBack` walk anywhere below the root, as far as `Expands` allows,
which has the draw tests and `MAXDEPTH` of `AlphaBeta` and `Quiescence`;
`EndSearch` may come at any node. `game` and `line` are history variables: the
positions that really came about, with the true number of reversible moves.

### AlphaBeta

The call is followed from its first line to its return; `pc` names the place
between two of its steps. The calls it makes are not followed: a search with
the window `(a, b)` of a position worth `v` returns any score `s` of which
`Bounds(s, a, b, v)` is true, and the module checks the same of the call itself,
so that the promise holds for the whole tree by induction over its height
(assume and guarantee; `WindowsInRange` checks that the windows of the calls are
ones the promise is made for). `value` is fixed at the beginning, the values of
the moves are chosen as they are searched, and `attained` remembers that a move of
the full value was.

Heuristic pruning is not true of chess. Where the code concludes something about
`value` without searching it, a guard marked "trusted" demands that the conclusion
is right: razoring and reverse futility, a null move that fails high, ProbCut, late
moves and captures that are skipped, reductions that are not searched again, the
table's bounds. What is left to check is what the code does with windows, bounds
and scores around them: mate distance pruning, which moves both ends; the
tablebase score that raises `bestScore` and `alpha` before any move; `beta` returned
for an unproven win; re-searches; the flag that is stored; the pv.

Scores and windows of the children are written from the point of view of the
call. Depths, margins and counts are constants; the order of moves is arbitrary.

### TimeManagement

`InitTimeManagement` gives the set of budgets the doubles of the code may produce:
0.02, 0.2 and 0.8 are represented a little above their value, so that truncation
gives the exact quotient; 0.7 a little below, so that an exact quotient may be one
too small. `AspirationWindow` takes the budgets of its search from here (`GoCommands`).

### Network and classical evaluation

`NNUEFeatures` takes the piece list from `Position`. An accumulator is kept as the
list of columns added, which determines the sum for all weights; `SumOf` computes a
number where one is needed. `InputOf` in `PositionViews` says what the columns should
be from the squares alone, without the piece list. Only the full sum is modelled: the
update from the previous position is never taken in a search (section 6).
All features of the source but `CastlingRight` and `EnPassant` are modelled, in
sets of one to three, since `FeatureSet` is generic. `NNUELayers` has each layer twice.
A register is a sequence, the instructions are operators on sequences, halves and
saturation included. `ClassicalEval` has every term with its weights; the piece
square numbers are a constant (`PieceSqValue`), for they only add up.

### Fathom

`TBChess` has fathom's position, which lists kings as pieces and numbers colors the
other way round (white is 1), its generator and its tests. `pawn_attacks` is the macro
of `tbconfig.h`, which gives the engine's table fathom's color: see finding 2.
`TBIndex` follows a position to the number under which a table holds it: material
key, order of pieces, mirroring, groups, `encode`. The tables of numbers in the
source are written as formulas, compared with the literals once. `TBProbe` has the
four functions that search a little on top of the tables. A position is there the
set of its moves, each with what it does to the counter and the value of the
position after it; as in `AlphaBeta`, calls return what their function promises, and
the tables hold anything their format allows: a WDL table may hold anything lower
where a capture is as good, a DTZ table counts in moves or in plies. `low` is a history
variable: `probe_ab` raises its argument `alpha`, and is held to the window it was given.

## 3. Runs

| Run | Checks | Shows |
|---|---|---|
| `picker` | `IInv`, `NeverTwice`, `Refines` | for every subset of five kinds of moves, every hash move and killer, each owed move comes once; the picker implements `MoveSource` |
| `control` | `IInv`, `NoOverlap`, `OwnStopOnly`, `MemoryOutlivesSearch`, `StopReturns`, `Serves` | the life of searches under any interleaving with a GUI that follows the protocol; the threads implement `SearchService` |
| `table` | `AssertsHold`, `EntryIsWhole`, `CutoffSound` | with one thread, an entry is one store as a whole, and cutoffs are justified by it |
| `memory` | `TableReady`, `SlicesExact`, `IndexInTable` | no raw memory after clearing, slices disjoint and complete, indices inside |
| `nnue` | `HashOwnPosition`, `AccumulatorsOfNet`, `NullMoveCurrent` | what the caches keep is consistent, in spite of finding 1 |
| `window` | `RootIsPV`, `BudgetsFit`, `HasAnswer`, `Terminates` | the loop around the root search keeps an open window, ends, and yields a move; it runs with budgets that fit the clock |
| `tree` | `BoundIsTrue`, `WindowsInRange`, `PVLeads` | a call keeps the promise it relies on, in every kind of node |
| `position` | `CopiesAgree`, `EachMoveOnce`, `PseudoLegalExact`, `TakeBackRestores`, `PlaysByRules` | every line of moves, null moves and take backs from four positions is chess, and all copies of the position agree throughout |
| | `InputIsOfSquares`, `SimdMatchesScalar` | after any line, with gaps in the piece list and promoted pieces in it, each accumulator has the columns of the men on their squares, each once, for three sets of features with one to three triggers; the vector code gives the scalar numbers on inputs made from these positions |
| | `EvalIsSymmetric` | the test `MirrorEvalTest`: a mirrored position has the same evaluation |
| | `PiecesPlayChess`, `IndexTellsApart` | without pawns, fathom's moves, check and mate are those of the rules; a position, its color flip and its images have one place, others another, inside the table |
| `history` | `IndexInRange`, `DrawsExact` | with long games and deep searches the array is not left, and draws are those of the whole game |
| `tablebase` | `WdlIsExact`, `DtzIsClose`, `RootKeepsValue` | with tables that know no en passant and count inexactly, values are exact, distances one off at most, and the move for the root keeps the value |
| `nnue_stale`, `fathom_pawns` | one property each | the findings of section 6 |

The type invariants are not checked on their own: they are conjuncts of
`CopiesAgree` and of the proved invariants of section 4, among them `IInv` of the
picker and of the search control.

### Bounds

* `picker`: five moves cover each kind (two captures, an underpromotion, two
  quiets), so that hash move and both killers can be distinct moves of a list with
  one more. The invariant is proved for any number.
* `control`: two positions tell the answer to one go from that to another; one
  helper shows every interleaving a helper takes part in, since helpers do not
  interact with each other; two iterations allow an abort before, between and
  after. Two table sizes allow a change. Proved for any number of each.
* `table`: one thread, two frames, keys 0 and 1 (0 is also the key of an empty
  entry), depths 1 and 2, three scores of which two are mate scores. A third
  frame adds only another holder of the pointer. Proved for any number.
* `memory`: a MB is one entry and a block is two, so that tables of one to five
  entries with one to three threads contain the odd sizes, empty slices and a
  last block beyond the end. Proved for the sizes of the code.
* `nnue`: three positions allow siblings and a hash collision; two moves allow a
  sibling after taking back and a null move followed by a move. Proved for any.
* `window`: scores from -10 to 10 with tablebase wins from 8, windows of 2 and
  steps of 3: three steps reach the caps, as about ten do in the code. Three
  iterations, two of them narrow. Safety is proved for any values.
* `position`: the perft position of `tests.cpp` to two plies, which has castling on
  both sides, captures of rooks at home, pins, and double steps beside enemy pawns;
  two positions with en passant (one where the capture would open a rank to the own
  king, one where the square comes with the FEN) to three plies; and promotions
  with and without capture, of a rook that takes a castling right along, to two.
  Three plies contain a double step, its capture, and a move after it. Without null
  moves the first position alone has 2088 states, which is 1 + 48 + 2039, the
  published counts of its moves.
  For the views there are three endings besides, KRvKN, KBBvK and KPPvK, to one ply: they
  have both kinds of leading groups and leading pawns, and are few enough men for
  tables. The network has 64 inputs and 32 outputs of its layer with weights that differ
  from place to place. In `IndexTellsApart` every man of a position is put on every other
  square it may stand on. `fathom_pawns` starts from the two en passant positions.
* `tree`: mates are worth up to 8, tablebase wins 5, evaluations lie below 2, and a
  line has up to three plies, in the order of the code's constants; all windows, all
  values, all plies, and one depth for each kind of node. Three moves contain a first
  one, a reduced one and a pruned one. The scores are as many as their classes and the
  margins between them need. Proved for any scale, any depth and any number of moves.
* `tablebase`: the limit is 3 plies, so that wins, cursed wins and the edge between
  them are all within five plies; three moves are enough for a best one, one that is
  not exact, and an en passant capture beside them. Proved for any limit and number.
* budgets in `window`: clocks from nothing to twenty seconds for either side, increments
  below and above the overhead, moves to go 0, 1, 2 and above the limit, `movetime`
  below, at and above the overhead; proved for all.
* `history`: three boards allow going back and forth and going on; counters wrap at
  seven and draw at six, in the place of 256 and 100, so that games of eight moves
  pass the draw, wrap, and are still searched three plies deep; the array of ten
  entries is filled to the last. Proved for any of them.

### Fairness

* `SearchControl`: weak fairness of `Wake`, `StopJoin`, the steps of the search
  thread, and a helper that sees the flag. The threads are POSIX threads that are
  scheduled; every node tests the flag before it does anything else. Nothing is
  assumed of the GUI, of spurious wake-ups, or of a helper that is not told to stop.
* `AspirationWindow`: weak fairness of the thread's steps. A root search is a
  finite tree, so it returns or is aborted. Nothing is assumed of its score:
  `Terminates` holds against an adversary that chooses all the scores.

`CHECK_DEADLOCK FALSE` stands only in the `window`, `tree` and `tablebase` runs, where
a thread or a call returns and does nothing more. `SearchControl` ends in `Exited`.

## 4. Proofs

Every theorem holds for all values of the constants that satisfy the named
assumption of the component's module; these say no more than the code's own
constants and types do.

* `NodeProofs` has the two components a node asks before it searches its moves. The
  picker (`MoveAssumption`): `IInv` states per stage which moves
  were given, which are in the rest of the list and which are owed, and that the
  two killers differ unless both are empty. `NeverTwice` and `NothingMissed` follow
  (`EachMoveOnce`), and each step is one of `MoveSource` or stutters (`Implements`).
* `SearchControlProofs` (`ControlAssumption`, `GuiSyncs` where stated).
  `Lifecycle` ties `awaiting`, the handle, the flag, the helpers and the mutex
  together; without the clause that only the owner of the search or a stop
  raises the flag, `OwnStop` is not inductive. `OneSearch` is `NoOverlap`, and
  `MemoryIsHeld` is `MemoryOutlivesSearch`. `ServesSafely` is the step
  simulation of `SearchService`; its liveness is checked by TLC only.
* `TranspositionTableProofs` has both parts of the table. Its memory (`SizeAssumption`:
  block and MB are whole numbers of entries, and `MAXHASH` is what 32 bits can index):
  `Ready` needs that what is not yet cleared belongs to a thread; `SlicesPartitionTable`
  rests on lemmas about the rounding division, `IndexSafe` on the bound of a truncated
  product. Its entries, for `OneThread`, any keys, depths, scores and any number of
  frames: `EntryWhole`, `Asserts`, `Cutoff`. `EntryIsWhole` is not inductive alone, since
  a store writes field by field: the invariant says in `Partial` which fields of the
  entry already are those of `intent` at each step of a store, in `Waiting` that no node
  but the topmost is inside one, and in `Tested` what the read of a bound or score has
  already established when the next is made.
* `ScoreProofs` has two components. The evaluation cache (`EvalAssumption`). `HashSound`: a hash entry is written only
  when the score of the `StateInfo` is not computed, and then neither is its
  accumulation, hence what is written is of the current position. `NetSound`: no
  accumulation of a replaced network survives `PrepareSearch`. `NullMoveSound` adds
  `NullOwn`: what the `StateInfo` of a null move holds was computed at its node, since the
  node begins without and a move from it, which leaves it for another position, marks it.
* `ScoreProofs` on deepening (`WindowAssumption`: the half width of the first
  window is at least 2 and smaller than the first step). `OpenWindow` needs more
  than `RootIsPV`: `WideWindow` says that the window is wider than its first half
  width, or reaches down to `-Infinite`; that survives the halving because the
  step is larger. `NoOverflow` rests on `DeltaStages`: once the step exceeds the
  whole range, each failure moves its bound to the cap, and after three of them
  the window is full and no score fails. `Answers` is `HasAnswer`.
  `BudgetAlwaysFits` is about `TimeManagement`: for every go command the plan is at
  most the bound; with a clock it is natural and the bound four fifths of the clock,
  with `movetime` the bound is that less the overhead, below which the search is cut
  at the first look at the clock. `Budgets` says so of the commands that begin the
  searches of this module.
* `NodeProofs` on the history (`HistoryAssumption`: the array has room for what a counter
  can count and `MAXDEPTH` more; 512 against 256 + 128). `InsideArray` needs that
  the history kept below the root is never longer than the counter, which the
  reset of `histPly` maintains, and that a thread has added one entry per ply.
  `DrawsAreExact` rests on `Agrees`: the kept history is the end of the true line,
  entry by entry; counters are equal unless they wrapped; and what is forgotten is
  farther back than any node from the root on can reach with its counter. The last
  clause is the reason why cutting the history is harmless, and without it the
  invariant is not inductive, since taking back returns to older counters.
* `AlphaBetaProofs` (`SearchAssumption`: wins of tablebases and mates leave room for
  `MAXDEPTH` plies; margins are positive). `Inside` is the core: behind mate distance
  pruning `alpha` is its narrowed alpha or the best score, the best score is then no
  more than the value, and `Looping` that a move of the value makes it no less,
  unless a cutoff came first. `Answer` turns a bound in the narrowed window into one in
  the window of the call (`ReturnsBound`). The best score may reach `MATE - ply - 1`
  and no farther, without which the zero windows around a raised alpha would leave
  the range (`CallsMayBeMade`). That the probe raises `alpha` only below the root is
  what `PlayedMoveIsBest` needs: at the root the first move is above the best score.
  The contract of the calls below is assumed, and `CallsMayBeMade` is the step of
  the induction over the plies, which itself is not formal.
* `TBProbeProofs` (`LimitAssumption`: the limit is positive). First what the value of a
  set of moves is (`ValueIs`): that of one of them, in the best class and in it the
  shortest win or the longest loss; `SubValue` says when moves may be left out, as a
  table leaves out en passant, and `ByZeroing` when captures and pawn moves alone tell
  the distance. Then that a distance one too small stays one too small through another
  ply (`OnePlyPromise`); it needs that a table that counts in moves has no position
  exactly at the limit, and fails without. The invariant says what each function knows
  of the moves it has looked at: in `probe_wdl` that a move behind the best captures is
  no better, in `probe_dtz` that its distance is that of some quiet move and no longer
  than that of any, which is `PlyPromise` at the end. `WdlExact`, `DtzClose`, `RootKeeps`.
  For the last the score of a capture or pawn move must be exact where it is 1 or -1,
  and that of a quiet move never be (`Close`), or a loss that the counter saves could
  be taken for one that a capture loses at once.

* `PositionProofs` (`PositionAssumption`: what is set up is a position of a game, with
  one king each, at most thirty other pieces, rights only with king and rook at home, an
  en passant square behind a pawn; `FenAssumption`: the side that moved is not in check;
  `NoMoveAssumption`; `PsqtAssumption`: values are integers). The copies are not
  inductive by themselves: `Good` adds that the key has its parts (`KeyOk`), that
  rights still have king and rook at home (`RightsOk`, without which castling would move
  a piece that is not there), that the en passant square is empty with the pawn before
  it (`EpOk`), and there is one king (`OneKing`), so that a capture never takes the
  number of a king. `GeneratedOk` derives from `Good` what both generators promise of a
  move (`MoveOk`): that no move takes the king rests on attacks being found from both
  ends (`LeaperBack`, `SliderBack`). `MadeFields` follows the steps of `Made` with the
  board, list and sums each leaves, and `TakenBackIsBefore` those of `TakenBack` from
  there to the position before. `ParseFenGood` is the start of the line. `IInv` says of
  every entry of the history that it was left by a generated move or a null move out
  of check (`Link`), hence `TakingBackRestores`, and `EveryCopyAgrees` from `Good`.
  `RecordsAreDifferences` says that every `dirtyPiece` in the history, of which `TakeMove`
  reads the one of the move it takes back, is the whole difference of the piece lists
  around its move (`DirtyPieceIsDifference`); `SumsAreCounted` that material and phase, which `CopiesAgree` leaves out as
  `PositionOk` does, are the sums over the squares: a changed square changes a sum by
  the difference (`SumChanged`), and `TotalMade` adds up those of a move.
* `RulesProofs` on top of it (and `FensFinite`: finitely many positions are set up, so
  that there is a longest line). `Game` knows files, ranks and the squares between;
  the code has tables, bitboards and shifts. From the squares up: each attack table
  holds what the rules say (`KnightReach`, `PawnReach`, `SliderReach`), so that
  `KingAttacked` is check (`KingInCheck`). `ByRules(p, m)` says of a move, with its
  capture and flag, that the rules allow it. `GeneratedByRules` has both generators
  give these moves, `noisy` telling which gives which; since a move of the rules has one
  capture and one flag (`MoveKnown`), `MovesGeneratedOnce` is `EachMoveOnce`.
  `PseudoLegalTestIsExact` is `PseudoLegalExact`, which a move from a hash entry or
  a killer slot rests on. Of castling, `LaneClear` says that the squares the code takes
  from a table are those between king and rook, `CastlingAllowed` that its test is the
  rule, and `CastlingMoves` that the rook it moves is that of the right. `MadeByRules` compares `MakeMove` with the
  rules field by field: the board (`BoardAfter`), the rights, which the code masks by the
  two squares of the move (`RightsAfter`), the en passant square, set only if a pawn
  could take (`EpAfter`), and the counter (`CounterMade`). It needs `Good`: without
  `RightsOk` the rook that castling moves need not be one, without `EpOk` a capture
  en passant might remove anything. `PlayFollowsRules` is `PlaysByRules`, the refinement:
  the history of `IInv` is mapped to the line of `Game`, whose bound is the longest
  `plies` (`PlyInv`); a move that stays is `Play`, a null move `Pass`, a take-back of
  either `TakeBack`, and a move that is made and taken back at once is a stutter.

Only model-checked: liveness (`StopReturns`, `Serves` as a whole, `Terminates`), which is
out of the prover's reach; and the views of a position, which compare numbers that TLC
computes from the tables of features, weights and squares.

## 5. What the models assume of the rest

* A search that is not aborted returns a score in `[-MATE, MATE]`; `AlphaBeta` checks it.
* `MovePicker` takes from `MoveGen` that the generators emit each pseudo-legal move
  once and `MoveIsPseudoLegal` is true of exactly those, which is what
  `MovesGeneratedOnce` and `PseudoLegalTestIsExact` prove of `Position`.
* Two positions with equal keys are the same position.
* Reads and writes of one machine word are not torn. Inside an entry nothing
  more is assumed.

## 6. Findings

1. `nnue_stale`: `evaluate` may return the score of a sibling position, since
   `MakeMove` marks the wrong `StateInfo` (`makemove.cpp` 248-251).
2. `fathom_pawns`: fathom sees pawns capture backwards. Its macro `TB_PAWN_ATTACKS` is
   defined as `PawnAttackBB(c, square)` (`fathom/tbconfig.h` 106), with fathom's numbers
   of colors, which are the reverse of the engine's, so that `is_legal`, `is_check` and
   `gen_captures` of positions with pawns are wrong.

Smaller observations, without a run:

* `setoption Hash`, `go`, `isready` reallocates the table under the search
  (`transposition.cpp` 138): with `GuiSyncs = FALSE`, `MemoryOutlivesSearch` fails.
* Two threads use an entry without a lock: one may cut off with a bound that is not
  written yet, which the assertion at `search.cpp` 225 rules out. With
  `Thread <- TwoThreads`, `AssertsHold` fails, and so do `EntryIsWhole` and `CutoffSound`.
* After several fail highs the root search becomes a quiescence search
  (`search.cpp` 504), whose score is accepted with an empty pv if it lies inside the
  window: seven fail highs in the iteration of depth 7 are enough.
* A stop before the first iteration is complete is answered with NOMOVE
  (`search.cpp` 524, `uci.cpp` 293): in `SearchControl`, `answer` may be `NoMove`.
* `go depth` of 128 or more is not clamped (`uci.cpp` 64), so that depths are
  stored that `StoreTTEntry` asserts against and 8 bits do not hold.
* `PositionOk` asserts `ply < MAXDEPTH` (`board.cpp` 364), but the search makes
  moves up to `ply = MAXDEPTH` and returns there (`search.cpp` 204): a debug build
  would stop in a search that deep. `IndexInRange` has the bound of the search.
* The comment at `transposition.cpp` 64 does not mention that exact scores replace
  deeper ones.
* `AppendChangedIndices` reads the `dirtyPiece` of `state()` (`feature_set.h` 85,
  `half_kp.cpp` 59), the `StateInfo` entered, while `MakeMove` writes the one of the
  `StateInfo` it leaves (`makemove.cpp` 248-257, before `histPly++` at 270). The record
  read is the one an earlier move from that ply left behind, or zero, and with
  `dirty_num == 0` `reset[2]` stays unset. In the build of the makefile this never runs:
  `previous` of the copies that `PrepareSearch` makes points into the history of the
  UCI thread (`board.cpp` 174), where nothing is evaluated, so that every evaluation
  of a search takes the full sum. A build with `DEV` has the command `eval`
  (`uci.cpp` 236), which does evaluate there; `go` after it would take the update at
  the first ply, with the wrong record. For this reason `UpdateAccumulator` is not
  modelled, and what is said of `dirtyPiece` is about `TakeMove`, which reads the
  record of the `StateInfo` the move left.
* `MirrorBoard` does not fill the piece list, so that `MirrorEvalTest` cannot hold in a
  build with the network, which is the one the makefile makes; `EvalIsSymmetric` is
  checked for the classical evaluation. The phase is not capped after promotions.
* `PositionOk` (`board.cpp`) compares neither material nor phase; `EvalIsSymmetric` does,
  by the evaluation of a mirrored position whose sums are counted afresh, and
  `SumsAreCounted` proves that they agree with the board.
* `features/castling_right.cpp` combines rights with `&` for `|` (27-28) and builds its
  indices as `i << 1` (32, 60); `enpassant.cpp` asserts false in
  `AppendChangedIndices`. No architecture of the repository uses either.
* Late move pruning makes a mated score unproven: bounds that
  fail soft below `alpha` are true only as far as the skipped moves are trusted.
* A clock below about 310 ms without increment gives a plan of zero, so that the search
  ends after its first iteration; below 25 ms the fifth that is left is smaller than
  the overhead of 5 ms. `movetime` below 5 gives a negative budget, with the same effect.
* In fathom: `if (!munmap(...)) perror` reports success as a failure (`tbprobe.c` 329);
  when `init_table` fails only one of the two hash entries of the table is cleared, and
  a DTZ file that fails takes the WDL table with it; `tbHash[idx].ptr` is read twice
  outside of the lock (1677-1682); `tb_init("")` leaves the hash of the old tables
  with `TB_LARGEST = 0`. `dtz_to_wdl` takes exactly 100 plies for a win, where an inexact
  distance may be 101: `RootKeepsValue` is one ply short of the limit for this reason.
* `load_eval` does not clear the evaluation hash, so after a change of `EvalDir`
  the scores of the old network are still returned for hashed positions.
* `KeyAfter` (`board.cpp` 117) leaves castling rights and the en passant word out, for
  all moves and not only for the special ones its comment names; it only prefetches.

## 7. Plan

Order of the modules, the core first:

1. Done: `MovePicker`, `SearchControl`, `TranspositionTable`, `TTMemory`,
   `NNUEEval`, `AspirationWindow`, with the abstract `MoveSource`, `SearchService`;
   `Bitboard`, `MoveGen`, `Position` with the abstract `Game`; `GameHistory`;
   `TimeManagement`; `AlphaBeta`; `Psqt`, `ClassicalEval`, `NNUEFeatures`, `NNUELayers`,
   `TBChess`, `TBIndex`, `TBProbe`.
2. The locking of `probe_table` with `init_table`, and the files of `tb_init`.
3. Composition of `AspirationWindow` with `SearchControl`.

## 8. Not modelled

* Trainer and learner: compiled only with `EVAL_LEARN`, which the makefile does not
  define.
* Of the network: the SSE and NEON variants of the layers, `layers/sum.h` and the two
  features no architecture uses, `UpdateAccumulator` with `AppendChangedIndices`
  (section 6), the reading of the file.
* The indices into the slider tables (magics, pext), which only find an entry that is
  modelled.
* Of `fathom`: searching and mapping files, decompression (`decompress_pairs` reads a
  canonical code; what it returns is taken as the table's content), DTM, and the
  functions that rank all root moves, which the engine does not call.
* `noobprobe` enters as "the book may know".
* Tuning, bench, tests and output formatting.

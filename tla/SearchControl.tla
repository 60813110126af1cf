---------------------------- MODULE SearchControl ----------------------------
(***************************************************************************)
(* How a search is started, stopped and answered: the UCI thread (uci.cpp) *)
(* that reads commands, the search thread it creates (SearchPosition in    *)
(* search.cpp), the helper threads that one creates in turn, and the state *)
(* they share: ABORT_SIGNAL, Limits, the sleep mutex and condition         *)
(* (threads.cpp), the pthread handles and the transposition table.         *)
(*                                                                         *)
(* The tree search itself is reduced to iterations that complete or are    *)
(* aborted; a best move is told apart by the position it was searched for. *)
(*                                                                         *)
(* Environment: a GUI that follows the protocol.  It sends position, go,   *)
(* setoption and ucinewgame only when the last go has been answered or     *)
(* when it has sent stop since; isready, stop and quit at any time.        *)
(***************************************************************************)
EXTENDS Naturals

CONSTANTS
  Root,         \* positions the GUI may set up
  NoMove,       \* NOMOVE
  MaxThreads,   \* bound on the Threads option
  MaxDepth,     \* bound on Limits.depth (MAXDEPTH - 1 in the code)
  Sizes,        \* values of the Hash option, in MB
  GuiSyncs      \* the GUI sends isready between setoption Hash and go

ASSUME ControlAssumption ==
  /\ NoMove \notin Root
  /\ Root # {}
  /\ MaxThreads \in Nat \ {0} /\ MaxDepth \in Nat \ {0}
  /\ Sizes # {} /\ Sizes \subseteq Nat \ {0}
  /\ GuiSyncs \in BOOLEAN

Helper == 1..(MaxThreads - 1)

VARIABLES
  \* the UCI thread
  uci,        \* where it is: "input", "wake", "join" or "exited"
  quitting,   \* the command it is executing is quit
  root,       \* engine.pos
  count,      \* threads->count
  handle,     \* threads->pthreads[0]: "zero", "live" or "joined"
  \* the search thread and its helpers
  main,       \* program counter of SearchPosition
  depth,      \* threads[0].depth
  searched,   \* threads[0].pos: the position PrepareSearch copied
  best,       \* threads[0].bestMove
  spawned,    \* threadsSpawned
  helper,     \* state of each helper thread
  \* shared
  abort,      \* ABORT_SIGNAL
  limits,     \* Limits
  mutex,      \* owner of threads->mutex
  tt,         \* TT: sizes and dirty flag
  \* the conversation with the GUI (history variables)
  awaiting,   \* a go has not been answered
  stopSent,   \* stop or quit was received since the last go
  asked,      \* the position of the last go
  answer      \* the last bestmove printed

uciVars  == <<uci, quitting, root, count, handle>>
mainVars == <<main, depth, searched, best, spawned, helper>>
sharedVars == <<abort, limits, mutex, tt>>
guiVars == <<awaiting, stopSent, asked, answer>>
vars == <<uciVars, mainVars, sharedVars, guiVars>>

Limit == [infinite : BOOLEAN, timelimit : BOOLEAN, depth : 0..MaxDepth]
Table == [current : Sizes \union {0}, requested : Sizes, dirty : BOOLEAN, allocs : 0..1]
BestMove == Root  \* a move is told apart by the position it was searched for

(* A search uses the table from the moment its thread exists until it has  *)
(* printed its answer. *)
Searching == main \notin {"none", "done"} \/ \E i \in Helper : helper[i] = "running"

GuiIdle == ~awaiting \/ stopSent
-----------------------------------------------------------------------------
(* UCIGo: clear the stop flag, parse the limits, create the search thread. *)
UCIGo_KeepsAbort(l) ==
  /\ uci = "input" /\ GuiIdle
  /\ tt.current # 0 /\ (GuiSyncs => tt.current = tt.requested)
  /\ limits' = l
  /\ main' = "start" /\ handle' = "live"
  /\ awaiting' = TRUE /\ stopSent' = FALSE /\ asked' = root
  /\ UNCHANGED <<abort, uci, quitting, root, count, depth, searched, best, spawned,
                 helper, mutex, tt, answer>>

UCIGo(l) ==
  /\ uci = "input" /\ GuiIdle
  /\ tt.current # 0 /\ (GuiSyncs => tt.current = tt.requested)
  /\ abort' = FALSE
  /\ limits' = l
  /\ main' = "start" /\ handle' = "live"
  /\ awaiting' = TRUE /\ stopSent' = FALSE /\ asked' = root
  /\ UNCHANGED <<uci, quitting, root, count, depth, searched, best, spawned,
                 helper, mutex, tt, answer>>

UCIPosition(r) ==
  /\ uci = "input" /\ GuiIdle
  /\ root' = r
  /\ UNCHANGED <<uci, quitting, count, handle, mainVars, sharedVars, guiVars>>

(* setoption Threads: the old structures are freed, InitThreads allocates  *)
(* zeroed ones, so the old handles and the old best move are gone.         *)
SetThreads(n) ==
  /\ uci = "input" /\ GuiIdle
  /\ count' = n /\ handle' = "zero" /\ best' = NoMove
  /\ helper' = [i \in Helper |-> "none"]
  /\ UNCHANGED <<uci, quitting, root, main, depth, searched, spawned,
                 sharedVars, guiVars>>

SetHash(mb) ==
  /\ uci = "input" /\ GuiIdle
  /\ tt' = [tt EXCEPT !.requested = mb]
  /\ UNCHANGED <<uciVars, mainVars, abort, limits, mutex, guiVars>>

(* ClearTT on a dirty table creates and joins one thread per slice in the  *)
(* same handle array and then zeroes the handle of the search thread.      *)
UCINewGame ==
  /\ uci = "input" /\ GuiIdle
  /\ IF tt.dirty
     THEN tt' = [tt EXCEPT !.dirty = FALSE] /\ handle' = "zero"
     ELSE UNCHANGED <<tt, handle>>
  /\ UNCHANGED <<uci, quitting, root, count, mainVars, abort, limits, mutex, guiVars>>

(* Mutant: the table is reallocated although its size is right. *)
UCIIsReady_Always ==
  /\ uci = "input"
  /\ tt' = [current |-> tt.requested, requested |-> tt.requested,
            dirty |-> FALSE, allocs |-> 1 - tt.allocs]
  /\ handle' = "zero"
  /\ UNCHANGED <<uci, quitting, root, count, mainVars, abort, limits, mutex, guiVars>>

(* isready: InitTT frees and allocates the table when its size was changed *)
(* and clears it with ClearTT.                                             *)
UCIIsReady ==
  /\ uci = "input"
  /\ IF tt.current # tt.requested
     THEN /\ tt' = [current |-> tt.requested, requested |-> tt.requested,
                    dirty |-> FALSE, allocs |-> 1 - tt.allocs]
          /\ handle' = "zero"
     ELSE UNCHANGED <<tt, handle>>
  /\ UNCHANGED <<uci, quitting, root, count, mainVars, abort, limits, mutex, guiVars>>

(* stop and quit: raise the flag, wake the search thread, join it. *)
UCIStop(quit) ==
  /\ uci = "input"
  /\ abort' = TRUE
  /\ uci' = "wake" /\ quitting' = quit /\ stopSent' = TRUE
  /\ UNCHANGED <<root, count, handle, mainVars, limits, mutex, tt,
                 awaiting, asked, answer>>

Signal == main' = IF main = "sleeping" THEN "woken" ELSE main

(* Mutant: the condition is signalled without holding the mutex. *)
Wake_NoLock ==
  /\ uci = "wake" /\ uci' = "join"
  /\ Signal
  /\ UNCHANGED <<quitting, root, count, handle, depth, searched, best, spawned,
                 helper, sharedVars, guiVars>>

(* Wake: lock, signal, unlock. *)
Wake ==
  /\ uci = "wake" /\ uci' = "join"
  /\ mutex = "free"
  /\ Signal
  /\ UNCHANGED <<quitting, root, count, handle, depth, searched, best, spawned,
                 helper, sharedVars, guiVars>>

AfterStop == uci' = IF quitting THEN "exited" ELSE "input"

(* A handle that is not zero is joined.  Nothing zeroes it after the join, *)
(* so that a second stop, or quit after stop, joins it again: undefined,   *)
(* pthread_join fails at once or the process ends.                         *)
StopJoin ==
  /\ uci = "join"
  /\ handle = "live" => main = "done"
  /\ handle' = IF handle = "live" THEN "joined" ELSE handle
  /\ \/ AfterStop
     \/ handle = "joined" /\ uci' = "exited"
  /\ UNCHANGED <<quitting, root, count, mainVars, sharedVars, guiVars>>
-----------------------------------------------------------------------------
At(pc) == main = pc /\ UNCHANGED <<uciVars, limits>>

(* Mutant: the thread data is not zeroed before a search. *)
PrepareSearch_NoReset ==
  /\ At("start") /\ main' = "probe"
  /\ searched' = root
  /\ spawned' = FALSE
  /\ tt' = [tt EXCEPT !.dirty = TRUE]
  /\ UNCHANGED <<best, depth, helper, abort, mutex, guiVars>>

(* PrepareSearch zeroes the threads' search data and copies the position   *)
(* the UCI thread holds at this moment.                                    *)
PrepareSearch ==
  /\ At("start") /\ main' = "probe"
  /\ best' = NoMove
  /\ searched' = root
  /\ spawned' = FALSE
  /\ tt' = [tt EXCEPT !.dirty = TRUE]
  /\ UNCHANGED <<depth, helper, abort, mutex, guiVars>>

(* RootProbe or ProbeNoob knows the move: no helpers, no iterations. *)
ProbeHit ==
  /\ At("probe") /\ main' = "conclude"
  /\ best' = searched
  /\ UNCHANGED <<depth, searched, spawned, helper, abort, mutex, tt, guiVars>>

SpawnHelpers ==
  /\ At("probe") /\ main' = "top"
  /\ spawned' = TRUE
  /\ helper' = [i \in Helper |-> IF i < count THEN "running" ELSE "none"]
  /\ depth' = 1
  /\ UNCHANGED <<searched, best, abort, mutex, tt, guiVars>>

(* The next iteration: its root node tests ABORT_SIGNAL before anything    *)
(* else, and longjmps out of the loop when it is set.                      *)
IterationTop ==
  /\ At("top")
  /\ main' = IF depth > limits.depth \/ abort THEN "conclude" ELSE "tree"
  /\ UNCHANGED <<depth, searched, best, spawned, helper, abort, mutex, tt, guiVars>>

(* Some node finds the flag set or, in the main thread, the time used up. *)
IterationAborted ==
  /\ At("tree") /\ main' = "conclude"
  /\ abort \/ limits.timelimit
  /\ UNCHANGED <<depth, searched, best, spawned, helper, abort, mutex, tt, guiVars>>

(* The iteration completes: its move is saved; with a time limit the       *)
(* search may stop here when the optimal usage is exceeded.                *)
IterationDone ==
  /\ At("tree")
  /\ best' = searched
  /\ \/ main' = "top" /\ depth' = depth + 1
     \/ limits.timelimit /\ main' = "conclude" /\ UNCHANGED depth
  /\ UNCHANGED <<searched, spawned, helper, abort, mutex, tt, guiVars>>

Conclude ==
  /\ At("conclude")
  /\ main' = IF limits.infinite THEN "lock" ELSE "setabort"
  /\ UNCHANGED <<depth, searched, best, spawned, helper, abort, mutex, tt, guiVars>>

(* Mutant: the condition is tested once, not after every wake-up. *)
WaitLock_IfNotWhile ==
  /\ At("lock") \/ At("woken")
  /\ mutex = "free" /\ mutex' = "main"
  /\ main' = IF main = "woken" THEN "unlock" ELSE "test"
  /\ UNCHANGED <<depth, searched, best, spawned, helper, abort, tt, guiVars>>

(* Wait, called with &ABORT_SIGNAL. *)
WaitLock ==
  /\ At("lock") \/ At("woken")
  /\ mutex = "free" /\ mutex' = "main"
  /\ main' = "test"
  /\ UNCHANGED <<depth, searched, best, spawned, helper, abort, tt, guiVars>>

WaitTest ==
  /\ At("test")
  /\ main' = IF abort THEN "unlock" ELSE "sleep"
  /\ UNCHANGED <<depth, searched, best, spawned, helper, abort, mutex, tt, guiVars>>

(* pthread_cond_wait releases the mutex and sleeps in one step. *)
WaitSleep ==
  /\ At("sleep") /\ main' = "sleeping"
  /\ mutex' = "free"
  /\ UNCHANGED <<depth, searched, best, spawned, helper, abort, tt, guiVars>>

SpuriousWake ==
  /\ At("sleeping") /\ main' = "woken"
  /\ UNCHANGED <<depth, searched, best, spawned, helper, abort, mutex, tt, guiVars>>

WaitUnlock ==
  /\ At("unlock") /\ main' = "setabort"
  /\ mutex' = "free"
  /\ UNCHANGED <<depth, searched, best, spawned, helper, abort, tt, guiVars>>

SetAbort ==
  /\ At("setabort") /\ abort' = TRUE
  /\ main' = IF spawned THEN "join" ELSE "print"
  /\ UNCHANGED <<depth, searched, best, spawned, helper, mutex, tt, guiVars>>

(* Mutant: the helpers are not waited for. *)
JoinHelpers_NoWait ==
  /\ At("join") /\ main' = "print"
  /\ UNCHANGED <<depth, searched, best, spawned, helper, abort, mutex, tt, guiVars>>

JoinHelpers ==
  /\ At("join") /\ main' = "print"
  /\ \A i \in Helper : helper[i] # "running"
  /\ helper' = [i \in Helper |-> "none"]
  /\ UNCHANGED <<depth, searched, best, spawned, abort, mutex, tt, guiVars>>

PrintConclusion ==
  /\ At("print") /\ main' = "done"
  /\ answer' = best /\ awaiting' = FALSE
  /\ UNCHANGED <<depth, searched, best, spawned, helper, abort, mutex, tt,
                 stopSent, asked>>

SearchPosition ==
  PrepareSearch \/ ProbeHit \/ SpawnHelpers \/ IterationTop \/ IterationAborted
    \/ IterationDone \/ Conclude \/ WaitLock \/ WaitTest \/ WaitSleep \/ WaitUnlock
    \/ SetAbort \/ JoinHelpers \/ PrintConclusion

(* A helper leaves IterativeDeepening: it sees the flag, or its iterations *)
(* are through.                                                            *)
HelperLeaves(i) ==
  /\ helper[i] = "running"
  /\ helper' = [helper EXCEPT ![i] = "exited"]
  /\ UNCHANGED <<uciVars, main, depth, searched, best, spawned, sharedVars, guiVars>>

HelperAborts(i) == abort /\ HelperLeaves(i)
-----------------------------------------------------------------------------
Init ==
  /\ uci = "input" /\ quitting = FALSE /\ root \in Root
  /\ count = 1 /\ handle = "zero"
  /\ main = "none" /\ depth = 0 /\ searched = root /\ best = NoMove
  /\ spawned = FALSE /\ helper = [i \in Helper |-> "none"]
  /\ abort = FALSE /\ mutex = "free"
  /\ limits = [infinite |-> FALSE, timelimit |-> FALSE, depth |-> 0]
  /\ \E mb \in Sizes :
       tt = [current |-> 0, requested |-> mb, dirty |-> FALSE, allocs |-> 0]
  /\ awaiting = FALSE /\ stopSent = FALSE /\ asked = root /\ answer = NoMove

(* The process has returned from main. *)
Exited == uci = "exited" /\ UNCHANGED vars

UCICommand ==
  \/ \E l \in Limit : l.depth > 0 /\ UCIGo(l)
  \/ \E r \in Root : UCIPosition(r)
  \/ \E n \in 1..MaxThreads : SetThreads(n)
  \/ \E mb \in Sizes : SetHash(mb)
  \/ UCINewGame \/ UCIIsReady
  \/ \E quit \in BOOLEAN : UCIStop(quit)

Next ==
  \/ uci # "exited" /\ (UCICommand \/ Wake \/ StopJoin \/ SearchPosition \/ SpuriousWake
                          \/ \E i \in Helper : HelperLeaves(i))
  \/ Exited

(* The scheduler runs every thread that can run, every iteration is a      *)
(* finite search and every node tests the flag; nothing is assumed of the  *)
(* GUI, of spurious wake-ups, or of a helper nobody has told to stop.      *)
Fairness ==
  /\ WF_vars(Wake) /\ WF_vars(StopJoin) /\ WF_vars(SearchPosition)
  /\ \A i \in Helper : WF_vars(HelperAborts(i))

Spec == Init /\ [][Next]_vars /\ Fairness
-----------------------------------------------------------------------------
(* Type invariant. *)
TypeOK ==
  /\ uci \in {"input", "wake", "join", "exited"} /\ quitting \in BOOLEAN
  /\ root \in Root /\ count \in 1..MaxThreads /\ handle \in {"zero", "live", "joined"}
  /\ main \in {"none", "start", "probe", "top", "tree", "conclude", "lock", "test",
              "sleep", "sleeping", "woken", "unlock", "setabort", "join", "print", "done"}
  /\ depth \in 0..(MaxDepth + 1) /\ searched \in Root /\ spawned \in BOOLEAN
  /\ best \in BestMove \union {NoMove} /\ answer \in BestMove \union {NoMove}
  /\ helper \in [Helper -> {"none", "running", "exited"}]
  /\ abort \in BOOLEAN /\ limits \in Limit /\ mutex \in {"free", "main"}
  /\ tt \in Table
  /\ awaiting \in BOOLEAN /\ stopSent \in BOOLEAN /\ asked \in Root

(* The inductive invariant behind the properties below.  A go is awaiting  *)
(* its answer exactly while a search thread exists that has not printed;   *)
(* that thread's handle is live and its table has the requested size;      *)
(* whoever has raised the flag for it has also recorded a stop; helpers    *)
(* run only between SpawnHelpers and JoinHelpers; a command of the UCI     *)
(* thread after stop finds the search over.                                *)
Lifecycle ==
  /\ awaiting <=> main \notin {"none", "done"}
  /\ awaiting => handle = "live" /\ tt.current # 0 /\ (GuiSyncs => tt.current = tt.requested)
  /\ handle = "joined" => main = "done"
  /\ awaiting /\ stopSent => uci \in {"wake", "join"} /\ abort
  /\ awaiting /\ abort => stopSent \/ main \in {"join", "print"}
  /\ (\E i \in Helper : helper[i] = "running")
       => spawned /\ main \in {"top", "tree", "conclude", "lock", "test", "sleep",
                              "sleeping", "woken", "unlock", "setabort", "join"}
  /\ mutex = "main" <=> main \in {"test", "sleep", "unlock"}
  /\ awaiting => asked = root
  /\ awaiting /\ main # "start" => searched = asked /\ best \in {NoMove, asked}
  /\ main = "tree" => depth <= limits.depth
  /\ main \in {"lock", "test", "sleep", "sleeping", "woken", "unlock"} => limits.infinite
  /\ main \in {"unlock", "setabort", "join", "print"} /\ limits.infinite => stopSent

IInv == TypeOK /\ Lifecycle

(* A search thread is created only when nothing of the previous search     *)
(* runs any more, helper threads included: uci.cpp 80 overwrites the only  *)
(* handle, search.cpp 556 the threads' data.                               *)
NoOverlap == [][main # "start" /\ main' = "start" => ~Searching]_vars

(* A stop is for one search: the flag an earlier search ended with, by     *)
(* stop or by search.cpp 589, never cuts the iterations of a later one.    *)
OwnStopOnly ==
  [][main' = "conclude" /\ main \in {"top", "tree"}
       => stopSent \/ limits.timelimit \/ depth > limits.depth]_vars

(* The table and the thread structures are freed and allocated again only  *)
(* when no search uses them, even if isready comes during a search.        *)
MemoryOutlivesSearch ==
  [][tt.allocs' # tt.allocs \/ count' # count => ~Searching]_vars

(* stop and quit return: the wake-up of an infinite search that is about   *)
(* to sleep is not lost, and its helpers end.                              *)
StopReturns == uci \in {"wake", "join"} ~> uci \in {"input", "exited"}

(* What the GUI sees: every go is answered, for the position it was given  *)
(* for, an infinite one not before stop, and stop waits for the answer.    *)
Service == INSTANCE SearchService WITH
             open <- awaiting, stopped <- stopSent, question <- asked,
             terms <- limits, Terms <- Limit, reply <- answer
Serves == Service!Spec
=============================================================================

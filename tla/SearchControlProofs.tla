------------------------- MODULE SearchControlProofs -------------------------
(***************************************************************************)
(* Proofs about SearchControl: its type and lifecycle invariants, and the  *)
(* action properties and the safety part of the refinement of              *)
(* SearchService that follow from them, for any number of threads,         *)
(* iterations, positions and table sizes.                                  *)
(***************************************************************************)
EXTENDS SearchControl, TLAPS

USE DEF Helper, Limit, BestMove

LEMMA TableUpdates ==
  ASSUME NEW t \in Table, NEW mb \in Sizes, NEW d \in BOOLEAN
  PROVE  /\ [t EXCEPT !.requested = mb] \in Table
         /\ [t EXCEPT !.dirty = d] \in Table
         /\ [current |-> mb, requested |-> mb, dirty |-> FALSE,
             allocs |-> 1 - t.allocs] \in Table
  BY DEF Table

LEMMA InitInv == Init => TypeOK /\ Lifecycle
<1> SUFFICES ASSUME Init PROVE TypeOK /\ Lifecycle
  OBVIOUS
<1> USE ControlAssumption DEF Init
<1>1. TypeOK
  <2>1. tt \in Table
    BY DEF Table
  <2>2. limits \in Limit /\ helper \in [Helper -> {"none", "running", "exited"}]
    OBVIOUS
  <2>3. count \in 1..MaxThreads /\ depth \in 0..(MaxDepth + 1)
    OBVIOUS
  <2> QED
    BY <2>1, <2>2, <2>3 DEF TypeOK
<1>2. Lifecycle
  BY SMTT(30) DEF Lifecycle
<1> QED
  BY <1>1, <1>2

LEMMA StepType ==
  ASSUME TypeOK, Lifecycle, [Next]_vars
  PROVE  TypeOK'
<1> USE ControlAssumption DEF TypeOK, uciVars, mainVars, sharedVars, guiVars, At
<1>1. ASSUME NEW l \in Limit, UCIGo(l)
      PROVE  TypeOK'
  BY <1>1 DEF UCIGo
<1>2. ASSUME NEW r \in Root, UCIPosition(r)
      PROVE  TypeOK'
  BY <1>2 DEF UCIPosition
<1>3. ASSUME NEW n \in 1..MaxThreads, SetThreads(n)
      PROVE  TypeOK'
  BY <1>3 DEF SetThreads
<1>4. ASSUME NEW mb \in Sizes, SetHash(mb)
      PROVE  TypeOK'
  <2>1. tt' \in Table
    BY <1>4, TableUpdates DEF SetHash
  <2> QED
    BY <1>4, <2>1 DEF SetHash
<1>5. ASSUME UCINewGame
      PROVE  TypeOK'
  <2>1. tt' \in Table
    BY <1>5, TableUpdates DEF UCINewGame
  <2>2. handle' \in {"zero", "live", "joined"}
    BY <1>5 DEF UCINewGame
  <2> QED
    BY <1>5, <2>1, <2>2 DEF UCINewGame
<1>6. ASSUME UCIIsReady
      PROVE  TypeOK'
  <2>0. tt.requested \in Sizes
    BY DEF Table
  <2>1. tt' \in Table
    <3>1. CASE tt.current = tt.requested
      BY <1>6, <3>1 DEF UCIIsReady
    <3>2. CASE tt.current # tt.requested
      <4>1. tt' = [current |-> tt.requested, requested |-> tt.requested,
                   dirty |-> FALSE, allocs |-> 1 - tt.allocs]
        BY <1>6, <3>2 DEF UCIIsReady
      <4> QED
        BY <2>0, <4>1, TableUpdates
    <3> QED
      BY <3>1, <3>2
  <2>2. handle' \in {"zero", "live", "joined"}
    BY <1>6 DEF UCIIsReady
  <2> QED
    BY <1>6, <2>1, <2>2 DEF UCIIsReady
<1>7. ASSUME NEW quit \in BOOLEAN, UCIStop(quit)
      PROVE  TypeOK'
  BY <1>7 DEF UCIStop
<1>8. ASSUME Wake
      PROVE  TypeOK'
  BY <1>8 DEF Wake, Signal
<1>9. ASSUME StopJoin
      PROVE  TypeOK'
  BY <1>9 DEF StopJoin, AfterStop
<1>10. ASSUME PrepareSearch
      PROVE  TypeOK'
  BY <1>10, TableUpdates DEF PrepareSearch
<1>11. ASSUME ProbeHit
      PROVE  TypeOK'
  BY <1>11 DEF ProbeHit
<1>12. ASSUME SpawnHelpers
      PROVE  TypeOK'
  BY <1>12 DEF SpawnHelpers
<1>13. ASSUME IterationTop
      PROVE  TypeOK'
  BY <1>13 DEF IterationTop
<1>14. ASSUME IterationAborted
      PROVE  TypeOK'
  BY <1>14 DEF IterationAborted
<1>15. ASSUME IterationDone
      PROVE  TypeOK'
  BY <1>15, SMTT(30) DEF IterationDone, Lifecycle
<1>16. ASSUME Conclude
      PROVE  TypeOK'
  BY <1>16 DEF Conclude
<1>17. ASSUME WaitLock
      PROVE  TypeOK'
  BY <1>17 DEF WaitLock
<1>18. ASSUME WaitTest
      PROVE  TypeOK'
  BY <1>18 DEF WaitTest
<1>19. ASSUME WaitSleep
      PROVE  TypeOK'
  BY <1>19 DEF WaitSleep
<1>20. ASSUME WaitUnlock
      PROVE  TypeOK'
  BY <1>20 DEF WaitUnlock
<1>21. ASSUME SetAbort
      PROVE  TypeOK'
  BY <1>21 DEF SetAbort
<1>22. ASSUME JoinHelpers
      PROVE  TypeOK'
  BY <1>22 DEF JoinHelpers
<1>23. ASSUME PrintConclusion
      PROVE  TypeOK'
  <2>1. answer' \in Root \union {NoMove} /\ awaiting' \in BOOLEAN /\ best' = best
    BY <1>23 DEF PrintConclusion
  <2> QED
    BY <1>23, <2>1 DEF PrintConclusion
<1>24. ASSUME SpuriousWake
      PROVE  TypeOK'
  BY <1>24 DEF SpuriousWake
<1>25. ASSUME NEW i \in Helper, HelperLeaves(i)
      PROVE  TypeOK'
  BY <1>25 DEF HelperLeaves
<1>26. ASSUME UNCHANGED vars
      PROVE  TypeOK'
  BY <1>26 DEF vars
<1> QED
  BY <1>1, <1>2, <1>3, <1>4, <1>5, <1>6, <1>7, <1>8, <1>9, <1>10, <1>11, <1>12, <1>13, <1>14, <1>15, <1>16, <1>17, <1>18, <1>19, <1>20, <1>21, <1>22, <1>23, <1>24, <1>25, <1>26
     DEF Next, UCICommand, SearchPosition, Exited

LEMMA StepLifecycle ==
  ASSUME TypeOK, Lifecycle, GuiSyncs, [Next]_vars
  PROVE  Lifecycle'
<1> USE ControlAssumption DEF TypeOK, Lifecycle, GuiIdle, uciVars, mainVars, sharedVars, guiVars, At
<1>1. ASSUME NEW l \in Limit, UCIGo(l)
      PROVE  Lifecycle'
  BY <1>1 DEF UCIGo
<1>2. ASSUME NEW r \in Root, UCIPosition(r)
      PROVE  Lifecycle'
  BY <1>2 DEF UCIPosition
<1>3. ASSUME NEW n \in 1..MaxThreads, SetThreads(n)
      PROVE  Lifecycle'
  BY <1>3 DEF SetThreads
<1>4. ASSUME NEW mb \in Sizes, SetHash(mb)
      PROVE  Lifecycle'
  BY <1>4 DEF SetHash
<1>5. ASSUME UCINewGame
      PROVE  Lifecycle'
  BY <1>5 DEF UCINewGame
<1>6. ASSUME UCIIsReady
      PROVE  Lifecycle'
  BY <1>6 DEF UCIIsReady
<1>7. ASSUME NEW quit \in BOOLEAN, UCIStop(quit)
      PROVE  Lifecycle'
  BY <1>7 DEF UCIStop
<1>8. ASSUME Wake
      PROVE  Lifecycle'
  BY <1>8 DEF Wake, Signal
<1>9. ASSUME StopJoin
      PROVE  Lifecycle'
  BY <1>9 DEF StopJoin, AfterStop
<1>10. ASSUME PrepareSearch
      PROVE  Lifecycle'
  BY <1>10 DEF PrepareSearch
<1>11. ASSUME ProbeHit
      PROVE  Lifecycle'
  BY <1>11 DEF ProbeHit
<1>12. ASSUME SpawnHelpers
      PROVE  Lifecycle'
  BY <1>12 DEF SpawnHelpers
<1>13. ASSUME IterationTop
      PROVE  Lifecycle'
  BY <1>13 DEF IterationTop
<1>14. ASSUME IterationAborted
      PROVE  Lifecycle'
  BY <1>14 DEF IterationAborted
<1>15. ASSUME IterationDone
      PROVE  Lifecycle'
  BY <1>15 DEF IterationDone
<1>16. ASSUME Conclude
      PROVE  Lifecycle'
  BY <1>16 DEF Conclude
<1>17. ASSUME WaitLock
      PROVE  Lifecycle'
  BY <1>17 DEF WaitLock
<1>18. ASSUME WaitTest
      PROVE  Lifecycle'
  BY <1>18 DEF WaitTest
<1>19. ASSUME WaitSleep
      PROVE  Lifecycle'
  BY <1>19 DEF WaitSleep
<1>20. ASSUME WaitUnlock
      PROVE  Lifecycle'
  BY <1>20 DEF WaitUnlock
<1>21. ASSUME SetAbort
      PROVE  Lifecycle'
  BY <1>21 DEF SetAbort
<1>22. ASSUME JoinHelpers
      PROVE  Lifecycle'
  BY <1>22 DEF JoinHelpers
<1>23. ASSUME PrintConclusion
      PROVE  Lifecycle'
  BY <1>23 DEF PrintConclusion
<1>24. ASSUME SpuriousWake
      PROVE  Lifecycle'
  BY <1>24 DEF SpuriousWake
<1>25. ASSUME NEW i \in Helper, HelperLeaves(i)
      PROVE  Lifecycle'
  BY <1>25 DEF HelperLeaves
<1>26. ASSUME UNCHANGED vars
      PROVE  Lifecycle'
  BY <1>26 DEF vars
<1> QED
  BY <1>1, <1>2, <1>3, <1>4, <1>5, <1>6, <1>7, <1>8, <1>9, <1>10, <1>11, <1>12, <1>13, <1>14, <1>15, <1>16, <1>17, <1>18, <1>19, <1>20, <1>21, <1>22, <1>23, <1>24, <1>25, <1>26
     DEF Next, UCICommand, SearchPosition, Exited

(* The lifecycle of a search, for a GUI that sends isready after setoption *)
(* Hash (uci.cpp 76-81, 175-180, search.cpp 549-596, threads.cpp 65-79).   *)
THEOREM Invariance == GuiSyncs => (Spec => []IInv)
<1> SUFFICES ASSUME GuiSyncs PROVE Spec => []IInv
  OBVIOUS
<1>1. Init => IInv
  BY InitInv DEF IInv
<1>2. IInv /\ [Next]_vars => IInv'
  BY StepType, StepLifecycle DEF IInv
<1> QED
  BY <1>1, <1>2, PTL DEF Spec

(* No search thread is created before the previous search has ended with   *)
(* all its threads, and no table or thread structure is freed under one    *)
(* (uci.cpp 76-81, 125-131, 183-184).                                      *)
LEMMA Exclusion == GuiSyncs => (Spec => NoOverlap /\ MemoryOutlivesSearch)
<1> DEFINE Excl == /\ main # "start" /\ main' = "start" => ~Searching
                   /\ tt.allocs' # tt.allocs \/ count' # count => ~Searching
<1> SUFFICES ASSUME GuiSyncs
             PROVE  Spec => NoOverlap /\ MemoryOutlivesSearch
  OBVIOUS
<1>1. IInv /\ [Next]_vars => [Excl]_vars
  <2> SUFFICES ASSUME TypeOK, Lifecycle, Next
               PROVE  Excl
    BY DEF IInv
  <2> USE DEF TypeOK, Lifecycle, Searching, GuiIdle, uciVars, mainVars, sharedVars, guiVars
  <2>1. CASE ~awaiting
    <3>1. ~Searching
      BY <2>1
    <3> QED
      BY <3>1
  <2>2. CASE awaiting
    <3>1. main' = "start" => main = "start"
      BY <2>2 DEF Next, UCICommand, SearchPosition, Exited, vars, At, UCIGo, UCIPosition,
        SetThreads, SetHash, UCINewGame, UCIIsReady, UCIStop, Wake, Signal, StopJoin,
        PrepareSearch, ProbeHit, SpawnHelpers, IterationTop, IterationAborted, IterationDone,
        Conclude, WaitLock, WaitTest, WaitSleep, WaitUnlock, SetAbort, JoinHelpers,
        PrintConclusion, SpuriousWake, HelperLeaves
    <3>2. UNCHANGED count
      BY <2>2 DEF Next, UCICommand, SearchPosition, Exited, vars, At, UCIGo, UCIPosition,
        SetThreads, SetHash, UCINewGame, UCIIsReady, UCIStop, Wake, StopJoin,
        PrepareSearch, ProbeHit, SpawnHelpers, IterationTop, IterationAborted, IterationDone,
        Conclude, WaitLock, WaitTest, WaitSleep, WaitUnlock, SetAbort, JoinHelpers,
        PrintConclusion, SpuriousWake, HelperLeaves
    <3>3. tt.allocs' = tt.allocs
      BY <2>2 DEF Next, UCICommand, SearchPosition, Exited, vars, At, UCIGo, UCIPosition,
        SetThreads, SetHash, UCINewGame, UCIIsReady, UCIStop, Wake, StopJoin,
        PrepareSearch, ProbeHit, SpawnHelpers, IterationTop, IterationAborted, IterationDone,
        Conclude, WaitLock, WaitTest, WaitSleep, WaitUnlock, SetAbort, JoinHelpers,
        PrintConclusion, SpuriousWake, HelperLeaves, Table
    <3> QED
      BY <3>1, <3>2, <3>3
  <2> QED
    BY <2>1, <2>2
<1>2. [Excl]_vars => /\ [main # "start" /\ main' = "start" => ~Searching]_vars
                     /\ [tt.allocs' # tt.allocs \/ count' # count => ~Searching]_vars
  OBVIOUS
<1> HIDE DEF Excl
<1> QED
  BY <1>1, <1>2, Invariance, PTL DEF Spec, NoOverlap, MemoryOutlivesSearch

(* No two searches overlap (uci.cpp 76-81).                                *)
THEOREM OneSearch == GuiSyncs => (Spec => NoOverlap)
  BY Exclusion, PTL

(* The table and the threads a search uses are not freed under it          *)
(* (uci.cpp 125-131, 183-184, transposition.cpp 138).                      *)
THEOREM MemoryIsHeld == GuiSyncs => (Spec => MemoryOutlivesSearch)
  BY Exclusion, PTL

(* The iterations of a search end early only by a stop for this search or  *)
(* by its clock, never by a flag left over (uci.cpp 78, search.cpp 589).   *)
THEOREM OwnStop == GuiSyncs => (Spec => OwnStopOnly)
<1> DEFINE Own == main' = "conclude" /\ main \in {"top", "tree"}
                    => stopSent \/ limits.timelimit \/ depth > limits.depth
<1> SUFFICES ASSUME GuiSyncs PROVE Spec => OwnStopOnly
  OBVIOUS
<1>1. IInv /\ [Next]_vars => [Own]_vars
  <2> SUFFICES ASSUME TypeOK, Lifecycle, Next, main' = "conclude", main \in {"top", "tree"}
               PROVE  stopSent \/ limits.timelimit \/ depth > limits.depth
    BY DEF IInv
  <2> USE DEF TypeOK, Lifecycle, GuiIdle, uciVars, mainVars, sharedVars, guiVars
  <2>1. IterationTop \/ IterationAborted \/ IterationDone
    BY DEF Next, UCICommand, SearchPosition, Exited, vars, At, UCIGo, UCIPosition,
      SetThreads, SetHash, UCINewGame, UCIIsReady, UCIStop, Wake, Signal, StopJoin,
      PrepareSearch, ProbeHit, SpawnHelpers, IterationTop,
      Conclude, WaitLock, WaitTest, WaitSleep, WaitUnlock, SetAbort, JoinHelpers,
      PrintConclusion, SpuriousWake, HelperLeaves
  <2>2. abort => stopSent
    OBVIOUS
  <2> QED
    BY <2>1, <2>2 DEF IterationTop, IterationAborted, IterationDone
<1> HIDE DEF Own
<1>2. IInv /\ [Next]_vars
        => [main' = "conclude" /\ main \in {"top", "tree"}
              => stopSent \/ limits.timelimit \/ depth > limits.depth]_vars
  BY <1>1 DEF Own
<1> QED
  BY <1>2, Invariance, PTL DEF Spec, OwnStopOnly

(* The safety part of Serves: the first state is one of SearchService and  *)
(* every step is a step of it or leaves its variables alone.  That every   *)
(* question is answered is checked by TLC only.                            *)
THEOREM ServesSafely ==
  GuiSyncs => (Spec => Service!Init /\ [][Service!Next]_(Service!svcVars))
<1> SUFFICES ASSUME GuiSyncs
             PROVE  Spec => Service!Init /\ [][Service!Next]_(Service!svcVars)
  OBVIOUS
<1>1. Init => Service!Init
  BY InitInv DEF Init, Service!Init, TypeOK
<1>2. ASSUME IInv, [Next]_vars
      PROVE  [Service!Next]_(Service!svcVars)
  <2> USE <1>2 DEF IInv, TypeOK, Lifecycle, GuiIdle, uciVars, mainVars, sharedVars, guiVars, At,
        Service!svcVars, Service!Next
  <2>1. ASSUME NEW l \in Limit, UCIGo(l)
        PROVE  Service!Go
    BY <2>1 DEF UCIGo, Service!Go
  <2>2. ASSUME NEW quit \in BOOLEAN, UCIStop(quit)
        PROVE  Service!Stop
    BY <2>2 DEF UCIStop, Service!Stop
  <2>3. ASSUME PrintConclusion
        PROVE  Service!Answer
    BY <2>3 DEF PrintConclusion, Service!Answer
  <2>4. ASSUME \/ \E r \in Root : UCIPosition(r)
               \/ \E n \in 1..MaxThreads : SetThreads(n)
               \/ \E mb \in Sizes : SetHash(mb)
               \/ UCINewGame \/ UCIIsReady \/ Wake \/ StopJoin \/ SpuriousWake
               \/ \E i \in Helper : HelperLeaves(i)
               \/ UNCHANGED vars
        PROVE  UNCHANGED Service!svcVars
    BY <2>4 DEF UCIPosition, SetThreads, SetHash, UCINewGame, UCIIsReady, Wake, StopJoin,
      SpuriousWake, HelperLeaves, vars
  <2>5. ASSUME PrepareSearch \/ ProbeHit \/ SpawnHelpers \/ IterationTop \/ IterationAborted \/ IterationDone
               \/ Conclude \/ WaitLock \/ WaitTest \/ WaitSleep \/ WaitUnlock \/ SetAbort \/ JoinHelpers
        PROVE  UNCHANGED Service!svcVars
    BY <2>5 DEF PrepareSearch, ProbeHit, SpawnHelpers, IterationTop, IterationAborted, IterationDone, Conclude,
      WaitLock, WaitTest, WaitSleep, WaitUnlock, SetAbort, JoinHelpers
  <2> QED
    BY <2>1, <2>2, <2>3, <2>4, <2>5 DEF Next, UCICommand, SearchPosition, Exited
<1> QED
  BY <1>1, <1>2, Invariance, PTL DEF Spec
=============================================================================

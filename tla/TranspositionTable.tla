-------------------------- MODULE TranspositionTable --------------------------
(***************************************************************************)
(* One entry of the transposition table and the nodes of AlphaBeta that    *)
(* use it (transposition.cpp, transposition.h, search.cpp).                *)
(*                                                                         *)
(* A node keeps the pointer tte from its probe to its store, across the    *)
(* searches of its children; they, and the nodes of the other threads, use *)
(* the same entry for the same and for other positions.  No lock protects  *)
(* an entry: the test of StoreTTEntry and each of its writes are separate  *)
(* steps, in any order, and so are the reads of a node.  The move is left  *)
(* out: it is written and read like the score.                             *)
(*                                                                         *)
(* Depth and score limits are constants; Scores are the scores a search    *)
(* may return, of which a node at ply p returns those of at most MATE - p. *)
(***************************************************************************)
EXTENDS Integers, Sequences, FiniteSets

CONSTANTS
  Thread,
  Key,          \* keys that GetEntry maps to this entry, 0 may be one of them
  MAXDEPTH,
  MATE, TBWIN_IN_MAX,
  Scores,
  MaxPly,       \* bound on the ply of a node
  MaxFrames     \* bound on the nodes on a thread's stack

ASSUME TableAssumption ==
  /\ Key \subseteq Nat /\ MAXDEPTH \in Nat \ {0} /\ MaxPly \in Nat /\ MaxFrames \in Nat \ {0}
  /\ MATE \in Nat /\ TBWIN_IN_MAX \in Nat \ {0} /\ TBWIN_IN_MAX + MaxPly <= MATE
  /\ Scores \subseteq Int

BOUND_NONE == 0  BOUND_UPPER == 1  BOUND_LOWER == 2  BOUND_EXACT == 3

VARIABLES
  tte,     \* the entry
  stack,   \* per thread the nodes it is in, the deepest one last
  store,   \* per thread what StoreTTEntry writes and the fields not yet written
  intent   \* the last store that passed the test (history variable)

vars == <<tte, stack, store, intent>>

(* Mutant: the depth is not stored. *)
Fields_NoDepth == {"posKey", "score", "bound"}

Fields == {"posKey", "score", "depth", "bound"}
Empty == [posKey |-> 0, score |-> 0, depth |-> 0, bound |-> BOUND_NONE]

ValidBound(b) == b \in {BOUND_UPPER, BOUND_LOWER, BOUND_EXACT}
ValidDepth(d) == d \in 1..(MAXDEPTH - 1)
ValidScore(s) == s \in -MATE..MATE

Includes(b, side) == b \in {side, BOUND_EXACT}   \* b & side

(* Mutant: the ply is subtracted from losses as well. *)
ScoreToTT_OneSign(score, ply) ==
  IF score >= TBWIN_IN_MAX THEN score + ply
  ELSE IF score <= -TBWIN_IN_MAX THEN score + ply
  ELSE score

ScoreToTT(score, ply) ==
  IF score >= TBWIN_IN_MAX THEN score + ply
  ELSE IF score <= -TBWIN_IN_MAX THEN score - ply
  ELSE score

ScoreFromTT(score, ply) ==
  IF score >= TBWIN_IN_MAX THEN score - ply
  ELSE IF score <= -TBWIN_IN_MAX THEN score + ply
  ELSE score

ScoresAt(ply) == {s \in Scores : s \in -(MATE - ply)..(MATE - ply)}
-----------------------------------------------------------------------------
Top(t) == stack[t][Len(stack[t])]
At(t, pc) == stack[t] # <<>> /\ Top(t).pc = pc
Pop(t) == stack' = [stack EXCEPT ![t] = SubSeq(@, 1, Len(@) - 1)]
Goto(t, pc) == stack' = [stack EXCEPT ![t][Len(stack[t])].pc = pc]

Node(key, depth, ply) ==
  [key |-> key, depth |-> depth, ply |-> ply, pc |-> "probe", ttScore |-> 0]

(* Call a search from the node at the top and continue at pc after it. *)
Call(t, pc, node) ==
  /\ Len(stack[t]) < MaxFrames
  /\ stack' = [stack EXCEPT ![t] =
                 Append([@ EXCEPT ![Len(@)].pc = pc], node)]
  /\ UNCHANGED <<tte, store, intent>>

Root(t) ==
  /\ stack[t] = <<>>
  /\ \E key \in Key, depth \in 1..(MAXDEPTH - 1) :
       stack' = [stack EXCEPT ![t] = <<Node(key, depth, 0)>>]
  /\ UNCHANGED <<tte, store, intent>>

ProbeTT(key) == tte.posKey = key

(* The probe: ttHit and ttScore; a pv node does not try to cut off. *)
Probe(t) ==
  /\ At(t, "probe")
  /\ \E pvNode \in BOOLEAN :
       IF ProbeTT(Top(t).key)
       THEN stack' = [stack EXCEPT ![t][Len(stack[t])].ttScore =
                                     ScoreFromTT(tte.score, Top(t).ply),
                                   ![t][Len(stack[t])].pc =
                                     IF pvNode THEN "tb" ELSE "trust"]
       ELSE Goto(t, "tb")
  /\ UNCHANGED <<tte, store, intent>>

(* Mutant: the depth of the entry is not compared. *)
Trust_NoDepth(t) ==
  /\ At(t, "trust")
  /\ Goto(t, "cut")
  /\ UNCHANGED <<tte, store, intent>>

Trust(t) ==
  /\ At(t, "trust")
  /\ Goto(t, IF tte.depth >= Top(t).depth THEN "cut" ELSE "tb")
  /\ UNCHANGED <<tte, store, intent>>

(* The window is arbitrary: ttScore may be at or above beta or below it. *)
CutoffTest(t) ==
  /\ At(t, "cut")
  /\ \E side \in {BOUND_LOWER, BOUND_UPPER} :
       IF Includes(tte.bound, side) THEN Pop(t) ELSE Goto(t, "tb")
  /\ UNCHANGED <<tte, store, intent>>

(* Null move, ProbCut and the move loop search children with a depth below *)
(* the node's; a child in check searches one more.                         *)
SearchChild(t) ==
  \E pc \in {"search", "loop"} :
    /\ At(t, pc) /\ Top(t).ply < MaxPly
    /\ \E key \in Key, depth \in 1..Top(t).depth :
         Call(t, pc, Node(key, depth, Top(t).ply + 1))

(* Internal iterative deepening searches the same position less deep. *)
SearchIID(t) ==
  /\ At(t, "search")
  /\ \E depth \in 1..(Top(t).depth - 1) :
       Call(t, "loop", Node(Top(t).key, depth, Top(t).ply))

(* The tablebases give no cutoff; pruning gives none either. *)
GoOn(t) ==
  /\ \/ At(t, "tb") /\ Goto(t, "search")
     \/ At(t, "search") /\ Goto(t, "loop")
  /\ UNCHANGED <<tte, store, intent>>

(* A pruning returns, the node is aborted or there is no legal move. *)
ReturnWithoutStore(t) ==
  /\ At(t, "search") \/ At(t, "loop")
  /\ Pop(t)
  /\ UNCHANGED <<tte, store, intent>>

(* ABORT_SIGNAL: longjmp leaves all the nodes of the thread. *)
Abort(t) ==
  /\ \E pc \in {"probe", "search", "loop"} : At(t, pc)
  /\ stack' = [stack EXCEPT ![t] = <<>>]
  /\ UNCHANGED <<tte, store, intent>>
-----------------------------------------------------------------------------
(* The test of StoreTTEntry. *)
Replaces(posKey, depth, bound) ==
  posKey # tte.posKey \/ depth >= tte.depth \/ bound = BOUND_EXACT

StoreTTEntry(t, score, depth, bound) ==
  IF Replaces(Top(t).key, depth, bound)
  THEN /\ store' = [store EXCEPT ![t] =
            [data |-> [posKey |-> Top(t).key, score |-> ScoreToTT(score, Top(t).ply),
                       depth |-> depth, bound |-> bound],
             todo |-> Fields]]
       /\ intent' = [posKey |-> Top(t).key, score |-> score, ply |-> Top(t).ply,
                     depth |-> depth, bound |-> bound]
       /\ Goto(t, "write")
       /\ UNCHANGED tte
  ELSE Pop(t) /\ UNCHANGED <<tte, store, intent>>

(* ProbeWDL knows the score. *)
StoreWDL(t) ==
  /\ At(t, "tb")
  /\ \E score \in ScoresAt(Top(t).ply), bound \in {BOUND_LOWER, BOUND_UPPER, BOUND_EXACT} :
       StoreTTEntry(t, score, MAXDEPTH - 1, bound)

(* The end of the node. *)
StoreResult(t) ==
  /\ At(t, "loop")
  /\ \E score \in ScoresAt(Top(t).ply), bound \in {BOUND_LOWER, BOUND_UPPER, BOUND_EXACT} :
       StoreTTEntry(t, score, Top(t).depth, bound)

(* One of the writes; after the last one the node returns. *)
WriteField(t, f) ==
  /\ At(t, "write") /\ f \in store[t].todo
  /\ tte' = [tte EXCEPT ![f] = store[t].data[f]]
  /\ store' = [store EXCEPT ![t].todo = @ \ {f}]
  /\ IF store[t].todo = {f} THEN Pop(t) ELSE UNCHANGED stack
  /\ UNCHANGED intent
-----------------------------------------------------------------------------
Init ==
  /\ tte = Empty
  /\ stack = [t \in Thread |-> <<>>]
  /\ store = [t \in Thread |-> [data |-> Empty, todo |-> {}]]
  /\ intent = [posKey |-> 0, score |-> 0, ply |-> 0, depth |-> 0, bound |-> BOUND_NONE]

Step(t) ==
  \/ Root(t) \/ Probe(t) \/ Trust(t) \/ CutoffTest(t) \/ SearchChild(t) \/ SearchIID(t)
  \/ GoOn(t) \/ ReturnWithoutStore(t) \/ Abort(t) \/ StoreWDL(t) \/ StoreResult(t)
  \/ \E f \in Fields : WriteField(t, f)

Next == \E t \in Thread : Step(t)

Spec == Init /\ [][Next]_vars
-----------------------------------------------------------------------------
(* Type invariant. *)
TypeOK ==
  /\ tte.posKey \in Key \union {0} /\ tte.score \in Int
  /\ tte.depth \in 0..(MAXDEPTH - 1) /\ tte.bound \in BOUND_NONE..BOUND_EXACT
  /\ \A t \in Thread :
       /\ Len(stack[t]) <= MaxFrames
       /\ store[t].todo \subseteq Fields
       /\ \A i \in 1..Len(stack[t]) :
            /\ stack[t][i].key \in Key /\ ValidDepth(stack[t][i].depth)
            /\ stack[t][i].ply \in 0..MaxPly
            /\ stack[t][i].pc \in {"probe", "trust", "cut", "tb", "search", "loop", "write"}

(* The assertions of search.cpp 225-227, what a node is about to cut off   *)
(* with has been stored, and of transposition.cpp 63-65 on what it stores. *)
AssertsHold ==
  TypeOK /\ \A t \in Thread :
    At(t, "cut") => ValidBound(tte.bound) /\ ValidDepth(tte.depth) /\ ValidScore(Top(t).ttScore)

Writing(t) == At(t, "write")

(* With one thread: an entry that nobody is writing is the last store that *)
(* passed the test, all its fields together, its score counted from the    *)
(* root of the tree below the node (transposition.cpp 66-71).              *)
EntryIsWhole ==
  (\A t \in Thread : ~Writing(t)) =>
    tte = [posKey |-> intent.posKey, score |-> ScoreToTT(intent.score, intent.ply),
           depth |-> intent.depth, bound |-> intent.bound]

(* The score a node takes from the table, moved from the ply it was stored *)
(* at to the ply of the node: a mate stays as far from the position.       *)
SameResult(score, ply) ==
  CASE intent.score >= TBWIN_IN_MAX  -> score + ply = intent.score + intent.ply
    [] intent.score <= -TBWIN_IN_MAX -> score - ply = intent.score - intent.ply
    [] OTHER                         -> score = intent.score

(* With one thread: a cutoff is justified by one earlier store about the   *)
(* same position, at least as deep, with this bound (search.cpp 223-233).  *)
CutoffSound ==
  [][\A t \in Thread :
       At(t, "cut") /\ Len(stack'[t]) < Len(stack[t])
         => /\ intent.posKey = Top(t).key /\ intent.depth >= Top(t).depth
            /\ ValidBound(intent.bound)
            /\ SameResult(Top(t).ttScore, Top(t).ply)]_vars
=============================================================================

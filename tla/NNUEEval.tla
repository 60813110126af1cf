------------------------------- MODULE NNUEEval -------------------------------
(***************************************************************************)
(* The three places a static evaluation may come from (evaluate_nnue.cpp,  *)
(* nnue_feature_transformer.h): the score kept in the StateInfo of the     *)
(* current ply, the evaluation hash, and the network, with the rules by    *)
(* which makemove.cpp marks a StateInfo as not computed.                   *)
(*                                                                         *)
(* One search thread walks the tree.  A score is told apart by the         *)
(* position and the network it was computed from.  The evaluation hash is  *)
(* one slot that several positions share; with more threads the slot is    *)
(* copied as 16 bytes and other threads only replace its content.          *)
(***************************************************************************)
EXTENDS Integers, Sequences

CONSTANTS
  Pos,      \* positions
  NoPos,    \* what an empty slot is about
  Net,      \* contents of EvalDir
  MaxPly    \* MAXDEPTH, the ply at which a node searches no children

ASSUME EvalAssumption == NoPos \notin Pos /\ MaxPly \in Nat

VARIABLES
  net,      \* the network that is loaded
  line,     \* the positions from the root to the current one, each with
            \* whether a null move led to it; empty: no search
  state,    \* gameHistory of the thread's position, from its histPly on
  hash,     \* the slot of g_evalTable
  value     \* the last evaluation: the position asked for and the score

vars == <<net, line, state, hash, value>>

Score == [pos : Pos, net : Net]
Accumulator == [accumulation : Score, score : Score,
                computed_accumulation : BOOLEAN, computed_score : BOOLEAN]

Node == line[Len(line)]
Current == Node.pos
histPly == Len(line) - 1
st == state[histPly]
-----------------------------------------------------------------------------
(* isready after setoption EvalDir. *)
LoadEval(n) ==
  /\ line = <<>>
  /\ net' = n
  /\ UNCHANGED <<line, state, hash, value>>

NotComputed(accumulator) ==
  [accumulator EXCEPT !.computed_accumulation = FALSE, !.computed_score = FALSE]

(* Mutant: only the StateInfo of the root is copied. *)
PrepareSearch_RootOnly(root) ==
  /\ line = <<>>
  /\ line' = <<[pos |-> root, null |-> FALSE]>>
  /\ state' = [state EXCEPT ![0] = NotComputed(@)]
  /\ UNCHANGED <<net, hash, value>>

(* PrepareSearch copies the position of the UCI thread.  Nobody evaluates  *)
(* that one: its accumulators are never computed.                          *)
PrepareSearch(root) ==
  /\ line = <<>>
  /\ line' = <<[pos |-> root, null |-> FALSE]>>
  /\ state' = [i \in 0..MaxPly |-> NotComputed(state[i])]
  /\ UNCHANGED <<net, hash, value>>

SearchEnds ==
  /\ line # <<>>
  /\ line' = <<>>
  /\ UNCHANGED <<net, state, hash, value>>

(* MakeMove marks the StateInfo of the position it leaves, because it      *)
(* takes the pointer before it increments histPly.                         *)
MakeMove(pos) ==
  /\ line # <<>> /\ histPly < MaxPly /\ pos # Current
  /\ state' = [state EXCEPT ![histPly] = NotComputed(@)]
  /\ line' = Append(line, [pos |-> pos, null |-> FALSE])
  /\ UNCHANGED <<net, hash, value>>

(* A move that turns out to be illegal is taken back at once. *)
MakeIllegalMove ==
  /\ line # <<>> /\ histPly < MaxPly
  /\ state' = [state EXCEPT ![histPly] = NotComputed(@)]
  /\ UNCHANGED <<net, line, hash, value>>

(* Mutant: a null move does not touch the accumulator. *)
MakeNullMove_Keep(pos) ==
  /\ line # <<>> /\ histPly < MaxPly /\ pos # Current /\ ~Node.null
  /\ line' = Append(line, [pos |-> pos, null |-> TRUE])
  /\ UNCHANGED <<net, state, hash, value>>

(* MakeNullMove copies the accumulator of st->previous into the StateInfo  *)
(* of the new position.  The pointer was copied with the position and      *)
(* leads to the UCI thread's StateInfo, which is not computed.             *)
MakeNullMove(pos) ==
  /\ line # <<>> /\ histPly < MaxPly /\ pos # Current /\ ~Node.null
  /\ state' = [state EXCEPT ![histPly + 1] = NotComputed(@)]
  /\ line' = Append(line, [pos |-> pos, null |-> TRUE])
  /\ UNCHANGED <<net, hash, value>>

TakeMove ==
  /\ Len(line) > 1
  /\ line' = SubSeq(line, 1, Len(line) - 1)
  /\ UNCHANGED <<net, state, hash, value>>
-----------------------------------------------------------------------------
(* The accumulation Transform leaves: the one that is computed, else a     *)
(* full refresh, because the previous StateInfo is never computed.         *)
Transform == IF st.computed_accumulation THEN st.accumulation
             ELSE [pos |-> Current, net |-> net]

(* ComputeScore has its own test of the score. *)
ComputeScore ==
  IF st.computed_score
  THEN st
  ELSE [accumulation |-> Transform, score |-> Transform,
        computed_accumulation |-> TRUE, computed_score |-> TRUE]

(* Mutant: evaluate leaves the test of the score to ComputeScore. *)
Evaluate_TestsHashFirst ==
  /\ line # <<>>
  /\ \/ /\ hash.key = Current
        /\ value' = [of |-> Current, score |-> hash.score]
        /\ UNCHANGED <<state, hash>>
     \/ /\ hash.key # Current
        /\ state' = [state EXCEPT ![histPly] = ComputeScore]
        /\ hash' = [key |-> Current, score |-> ComputeScore.score]
        /\ value' = [of |-> Current, score |-> ComputeScore.score]
  /\ UNCHANGED <<net, line>>

(* evaluate: the score of the StateInfo, else the hash, else the network,  *)
(* whose result goes to both.                                              *)
Evaluate ==
  /\ line # <<>>
  /\ \/ /\ st.computed_score
        /\ value' = [of |-> Current, score |-> st.score]
        /\ UNCHANGED <<state, hash>>
     \/ /\ ~st.computed_score /\ hash.key = Current
        /\ value' = [of |-> Current, score |-> hash.score]
        /\ UNCHANGED <<state, hash>>
     \/ /\ ~st.computed_score /\ hash.key # Current
        /\ state' = [state EXCEPT ![histPly] = ComputeScore]
        /\ hash' = [key |-> Current, score |-> ComputeScore.score]
        /\ value' = [of |-> Current, score |-> ComputeScore.score]
  /\ UNCHANGED <<net, line>>
-----------------------------------------------------------------------------
Init ==
  /\ net \in Net /\ line = <<>>
  /\ \E s \in Score :
       /\ state = [i \in 0..MaxPly |->
                     [accumulation |-> s, score |-> s,
                      computed_accumulation |-> FALSE, computed_score |-> FALSE]]
       /\ hash = [key |-> NoPos, score |-> s]
       /\ value = [of |-> s.pos, score |-> [pos |-> s.pos, net |-> net]]

Next ==
  \/ \E n \in Net : LoadEval(n)
  \/ \E pos \in Pos : PrepareSearch(pos) \/ MakeMove(pos) \/ MakeNullMove(pos)
  \/ MakeIllegalMove \/ TakeMove \/ Evaluate \/ SearchEnds

Spec == Init /\ [][Next]_vars
-----------------------------------------------------------------------------
(* Type invariant. *)
TypeOK ==
  /\ net \in Net
  /\ line \in Seq([pos : Pos, null : BOOLEAN]) /\ Len(line) <= MaxPly + 1
  /\ state \in [0..MaxPly -> Accumulator]
  /\ hash \in [key : Pos \union {NoPos}, score : Score]
  /\ value \in [of : Pos, score : Score]

(* A StateInfo never combines a score with the accumulation of another     *)
(* position, and has both or neither (makemove.cpp 250-251, evaluate_nnue  *)
(* 151-152): otherwise the next score at that ply would be computed from   *)
(* the accumulation of a sibling.                                          *)
ScoreOfAccumulation ==
  \A i \in 0..MaxPly :
    /\ state[i].computed_score <=> state[i].computed_accumulation
    /\ state[i].computed_score => state[i].score = state[i].accumulation

(* The evaluation hash, which lives as long as the program, is not         *)
(* poisoned: what it holds under a key was computed from that position,    *)
(* although a StateInfo may hold the score of another one.                 *)
HashOwnPosition == hash.key # NoPos => hash.score.pos = hash.key

(* A position reached by a null move is evaluated as itself.               *)
NullMoveCurrent ==
  [][value' # value /\ Node.null => value'.score.pos = value'.of]_vars

(* During a search nothing computed by another network is left in the      *)
(* accumulators, although load_eval resets none: PrepareSearch replaces    *)
(* them all (search.cpp 552-555, uci.cpp 186-189).                         *)
AccumulatorsOfNet ==
  \A i \in 0..MaxPly :
    line # <<>> /\ state[i].computed_accumulation => state[i].accumulation.net = net

(* A static evaluation is that of the current position: search.cpp 257     *)
(* "Do a static evaluation for pruning considerations".                    *)
EvaluateIsCurrent == value.score.pos = value.of

=============================================================================

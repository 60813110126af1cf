----------------------------- MODULE ScoreProofs -----------------------------
(***************************************************************************)
(* Proofs about the two components that keep scores from one node, or one  *)
(* search, to the next.  NNUEEval, for any positions and networks and      *)
(* lines of any length: the evaluation hash is never poisoned, and a       *)
(* StateInfo never mixes positions.  AspirationWindow, for any scores,     *)
(* depths and initial windows: the root is searched with an open window,   *)
(* the step cannot overflow, and a completed iteration leaves a move to    *)
(* play; and of TimeManagement, that the time budget of any go command     *)
(* fits the clock.                                                         *)
(***************************************************************************)
EXTENDS NNUEEval, AspirationWindow, SequenceTheorems, TLAPS

IInv == TypeOK /\ ScoreOfAccumulation /\ HashOwnPosition

LEMMA NodeType ==
  ASSUME TypeOK, line # <<>>
  PROVE  /\ Node \in [pos : Pos, null : BOOLEAN] /\ Current \in Pos
         /\ Len(line) \in Nat \ {0} /\ histPly \in 0..MaxPly
<1>1. line \in Seq([pos : Pos, null : BOOLEAN]) /\ Len(line) <= MaxPly + 1
  BY DEF TypeOK
<1>2. Len(line) \in Nat \ {0}
  BY <1>1
<1>3. Node \in [pos : Pos, null : BOOLEAN]
  <2> DEFINE S == [pos : Pos, null : BOOLEAN]
  <2>1. line \in Seq(S) /\ Len(line) \in 1..Len(line)
    BY <1>1, <1>2
  <2> HIDE DEF S
  <2>2. line[Len(line)] \in S
    BY <2>1
  <2> QED
    BY <2>2 DEF Node, S
<1> QED
  BY <1>1, <1>2, <1>3, EvalAssumption DEF Current, histPly

LEMMA ResetType ==
  ASSUME NEW a \in Accumulator
  PROVE  /\ NotComputed(a) \in Accumulator
         /\ NotComputed(a).computed_score = FALSE
         /\ NotComputed(a).computed_accumulation = FALSE
  BY DEF Accumulator, NotComputed

LEMMA InitInv == Init => IInv
<1> SUFFICES ASSUME Init
             PROVE  IInv
  OBVIOUS
<1>1. PICK s \in Score :
        /\ state = [i \in 0..MaxPly |->
                     [accumulation |-> s, score |-> s,
                      computed_accumulation |-> FALSE, computed_score |-> FALSE]]
        /\ hash = [key |-> NoPos, score |-> s]
        /\ value = [of |-> s.pos, score |-> [pos |-> s.pos, net |-> net]]
  BY DEF Init
<1>2. net \in Net /\ line = <<>>
  BY DEF Init
<1>3. TypeOK
  BY <1>1, <1>2, EvalAssumption DEF TypeOK, Score, Accumulator
<1>4. ScoreOfAccumulation
  BY <1>1 DEF ScoreOfAccumulation
<1>5. HashOwnPosition
  BY <1>1 DEF HashOwnPosition
<1> QED
  BY <1>3, <1>4, <1>5 DEF IInv

(* Marking one StateInfo, or all, keeps the invariant. *)
LEMMA MarkOne ==
  ASSUME IInv, NEW p \in 0..MaxPly, state' = [state EXCEPT ![p] = NotComputed(@)]
  PROVE  state' \in [0..MaxPly -> Accumulator] /\ ScoreOfAccumulation'
<1>1. state \in [0..MaxPly -> Accumulator]
  BY DEF IInv, TypeOK
<1>2. /\ NotComputed(state[p]) \in Accumulator
      /\ NotComputed(state[p]).computed_score = FALSE
      /\ NotComputed(state[p]).computed_accumulation = FALSE
  BY <1>1, ResetType
<1>3. \A i \in 0..MaxPly : state'[i] = IF i = p THEN NotComputed(state[p]) ELSE state[i]
  BY <1>1
<1> QED
  BY <1>1, <1>2, <1>3 DEF IInv, ScoreOfAccumulation

LEMMA AppendLine ==
  ASSUME TypeOK, line # <<>>, histPly < MaxPly, NEW pos \in Pos, NEW b \in BOOLEAN
  PROVE  LET l == Append(line, [pos |-> pos, null |-> b])
         IN  l \in Seq([pos : Pos, null : BOOLEAN]) /\ Len(l) <= MaxPly + 1
<1>1. line \in Seq([pos : Pos, null : BOOLEAN])
  BY DEF TypeOK
<1> QED
  BY <1>1, EvalAssumption DEF histPly

LEMMA StepInv == IInv /\ [Next]_vars => IInv'
<1> SUFFICES ASSUME IInv, [Next]_vars
             PROVE  IInv'
  OBVIOUS
<1>0. TypeOK /\ ScoreOfAccumulation /\ HashOwnPosition
  BY DEF IInv
<1>1. ASSUME NEW n \in Net, LoadEval(n)
      PROVE  IInv'
  BY <1>0, <1>1 DEF LoadEval, IInv, TypeOK, ScoreOfAccumulation, HashOwnPosition
<1>2. ASSUME NEW root \in Pos, PrepareSearch(root)
      PROVE  IInv'
  <2>1. state' \in [0..MaxPly -> Accumulator] /\ ScoreOfAccumulation'
    <3>1. \A i \in 0..MaxPly : state'[i] = NotComputed(state[i])
      BY <1>2 DEF PrepareSearch
    <3>2. \A i \in 0..MaxPly : state[i] \in Accumulator
      BY <1>0 DEF TypeOK
    <3>3. state' = [i \in 0..MaxPly |-> NotComputed(state[i])]
      BY <1>2 DEF PrepareSearch
    <3> QED
      BY <3>1, <3>2, <3>3, ResetType DEF ScoreOfAccumulation
  <2>2. line' \in Seq([pos : Pos, null : BOOLEAN]) /\ Len(line') <= MaxPly + 1
    BY <1>2, EvalAssumption DEF PrepareSearch
  <2> QED
    BY <1>0, <1>2, <2>1, <2>2 DEF PrepareSearch, IInv, TypeOK, HashOwnPosition
<1>3. ASSUME NEW pos \in Pos, MakeMove(pos)
      PROVE  IInv'
  <2>1. histPly \in 0..MaxPly
    BY <1>0, <1>3, NodeType DEF MakeMove
  <2>2. state' \in [0..MaxPly -> Accumulator] /\ ScoreOfAccumulation'
    BY <1>3, <2>1, MarkOne DEF MakeMove
  <2>3. line' \in Seq([pos : Pos, null : BOOLEAN]) /\ Len(line') <= MaxPly + 1
    BY <1>0, <1>3, AppendLine DEF MakeMove
  <2> QED
    BY <1>0, <1>3, <2>2, <2>3 DEF MakeMove, IInv, TypeOK, HashOwnPosition
<1>4. ASSUME NEW pos \in Pos, MakeNullMove(pos)
      PROVE  IInv'
  <2>1. histPly + 1 \in 0..MaxPly
    BY <1>0, <1>4, NodeType, EvalAssumption DEF MakeNullMove
  <2>2. state' \in [0..MaxPly -> Accumulator] /\ ScoreOfAccumulation'
    BY <1>4, <2>1, MarkOne DEF MakeNullMove
  <2>3. line' \in Seq([pos : Pos, null : BOOLEAN]) /\ Len(line') <= MaxPly + 1
    BY <1>0, <1>4, AppendLine DEF MakeNullMove
  <2> QED
    BY <1>0, <1>4, <2>2, <2>3 DEF MakeNullMove, IInv, TypeOK, HashOwnPosition
<1>5. ASSUME MakeIllegalMove
      PROVE  IInv'
  <2>1. histPly \in 0..MaxPly
    BY <1>0, <1>5, NodeType DEF MakeIllegalMove
  <2>2. state' \in [0..MaxPly -> Accumulator] /\ ScoreOfAccumulation'
    BY <1>5, <2>1, MarkOne DEF MakeIllegalMove
  <2> QED
    BY <1>0, <1>5, <2>2 DEF MakeIllegalMove, IInv, TypeOK, HashOwnPosition
<1>6. ASSUME TakeMove \/ SearchEnds
      PROVE  IInv'
  <2>1. line' \in Seq([pos : Pos, null : BOOLEAN]) /\ Len(line') <= MaxPly + 1
    <3> DEFINE S == [pos : Pos, null : BOOLEAN]
    <3>1. line \in Seq(S) /\ Len(line) <= MaxPly + 1
      BY <1>0 DEF TypeOK
    <3> HIDE DEF S
    <3>2. CASE TakeMove
      <4> DEFINE n == Len(line) - 1
      <4>1. n \in Nat /\ n <= Len(line) /\ n <= MaxPly + 1
        BY <3>1, <3>2, EvalAssumption DEF TakeMove
      <4>2. \A i \in 1..n : line[i] \in S
        BY <3>1, <4>1
      <4>3. line' = SubSeq(line, 1, n)
        BY <3>2 DEF TakeMove
      <4> HIDE DEF n
      <4>4. /\ SubSeq(line, 1, n) \in Seq(S)
            /\ Len(SubSeq(line, 1, n)) = IF 1 <= n THEN n - 1 + 1 ELSE 0
        BY <4>1, <4>2, SubSeqProperties
      <4> QED
        BY <4>1, <4>3, <4>4 DEF S
    <3>3. CASE SearchEnds
      BY <3>3, EvalAssumption DEF SearchEnds
    <3> QED
      BY <1>6, <3>2, <3>3
  <2>2. UNCHANGED <<net, state, hash, value>>
    BY <1>6 DEF TakeMove, SearchEnds
  <2> QED
    BY <1>0, <2>1, <2>2 DEF IInv, TypeOK, ScoreOfAccumulation, HashOwnPosition
<1>7. ASSUME Evaluate
      PROVE  IInv'
  <2>1. Current \in Pos /\ histPly \in 0..MaxPly /\ UNCHANGED <<net, line>>
    BY <1>0, <1>7, NodeType DEF Evaluate
  <2>2. st \in Accumulator
    BY <1>0, <2>1 DEF st, TypeOK
  <2>3. CASE /\ UNCHANGED <<state, hash>>
             /\ \E s \in Score : value' = [of |-> Current, score |-> s]
    BY <1>0, <2>1, <2>3 DEF IInv, TypeOK, ScoreOfAccumulation, HashOwnPosition
  <2>4. CASE /\ ~st.computed_score
             /\ state' = [state EXCEPT ![histPly] = ComputeScore]
             /\ hash' = [key |-> Current, score |-> ComputeScore.score]
             /\ value' = [of |-> Current, score |-> ComputeScore.score]
    <3> DEFINE fresh == [pos |-> Current, net |-> net]
    <3>1. ~st.computed_accumulation
      BY <1>0, <2>1, <2>4 DEF ScoreOfAccumulation, st
    <3>2. ComputeScore = [accumulation |-> fresh, score |-> fresh,
                          computed_accumulation |-> TRUE, computed_score |-> TRUE]
      BY <2>4, <3>1 DEF ComputeScore, Transform
    <3>3. fresh \in Score
      BY <1>0, <2>1 DEF Score, TypeOK
    <3>4. ComputeScore \in Accumulator /\ ComputeScore.score = fresh
      BY <3>2, <3>3 DEF Accumulator
    <3>5. state \in [0..MaxPly -> Accumulator]
      BY <1>0 DEF TypeOK
    <3>6. \A i \in 0..MaxPly : state'[i] = IF i = histPly THEN ComputeScore ELSE state[i]
      BY <2>4, <3>5
    <3>7. ScoreOfAccumulation'
      BY <1>0, <3>2, <3>6 DEF ScoreOfAccumulation
    <3>8. HashOwnPosition'
      BY <2>4, <3>4 DEF HashOwnPosition
    <3>9. TypeOK'
      BY <1>0, <2>1, <2>4, <3>3, <3>4, <3>5 DEF TypeOK
    <3> QED
      BY <3>7, <3>8, <3>9 DEF IInv
  <2>5. st.score \in Score /\ hash.score \in Score
    BY <1>0, <2>2 DEF Accumulator, TypeOK
  <2> QED
    BY <1>7, <2>3, <2>4, <2>5 DEF Evaluate
<1>8. ASSUME UNCHANGED vars
      PROVE  IInv'
  BY <1>0, <1>8 DEF vars, IInv, TypeOK, ScoreOfAccumulation, HashOwnPosition
<1> QED
  BY <1>1, <1>2, <1>3, <1>4, <1>5, <1>6, <1>7, <1>8 DEF Next

(* The evaluation hash is never poisoned and no StateInfo mixes positions, *)
(* although evaluate may return the score of a sibling (evaluate_nnue.cpp  *)
(* 269-306, makemove.cpp 250-251, 443-446).                                *)
THEOREM HashSound == Spec => [](TypeOK /\ ScoreOfAccumulation /\ HashOwnPosition)
  BY InitInv, StepInv, PTL DEF Spec, IInv

(* Marking a StateInfo cannot bring back what another network computed.    *)
LEMMA MarkNet ==
  ASSUME IInv, AccumulatorsOfNet, line # <<>>, net' = net,
         NEW p \in 0..MaxPly, state' = [state EXCEPT ![p] = NotComputed(@)]
  PROVE  AccumulatorsOfNet'
<1>1. state \in [0..MaxPly -> Accumulator]
  BY DEF IInv, TypeOK
<1>2. NotComputed(state[p]).computed_accumulation = FALSE
  BY <1>1, ResetType
<1>3. \A i \in 0..MaxPly : state'[i] = IF i = p THEN NotComputed(state[p]) ELSE state[i]
  BY <1>1
<1> QED
  BY <1>2, <1>3 DEF AccumulatorsOfNet

LEMMA NetStep == IInv /\ AccumulatorsOfNet /\ [Next]_vars => AccumulatorsOfNet'
<1> SUFFICES ASSUME IInv, AccumulatorsOfNet, [Next]_vars
             PROVE  AccumulatorsOfNet'
  OBVIOUS
<1>0. TypeOK /\ ScoreOfAccumulation
  BY DEF IInv
<1>1. ASSUME NEW n \in Net, LoadEval(n)
      PROVE  AccumulatorsOfNet'
  BY <1>1 DEF LoadEval, AccumulatorsOfNet
<1>2. ASSUME NEW root \in Pos, PrepareSearch(root)
      PROVE  AccumulatorsOfNet'
  <2>1. \A i \in 0..MaxPly : state'[i] = NotComputed(state[i])
    BY <1>2 DEF PrepareSearch
  <2>2. \A i \in 0..MaxPly : NotComputed(state[i]).computed_accumulation = FALSE
    BY <1>0, ResetType DEF TypeOK
  <2> QED
    BY <2>1, <2>2 DEF AccumulatorsOfNet
<1>3. ASSUME NEW pos \in Pos, MakeMove(pos)
      PROVE  AccumulatorsOfNet'
  <2>1. line # <<>> /\ histPly \in 0..MaxPly
    BY <1>0, <1>3, NodeType DEF MakeMove
  <2> QED
    BY <1>3, <2>1, MarkNet DEF MakeMove
<1>4. ASSUME NEW pos \in Pos, MakeNullMove(pos)
      PROVE  AccumulatorsOfNet'
  <2>1. line # <<>> /\ histPly + 1 \in 0..MaxPly
    BY <1>0, <1>4, NodeType, EvalAssumption DEF MakeNullMove
  <2> QED
    BY <1>4, <2>1, MarkNet DEF MakeNullMove
<1>5. ASSUME MakeIllegalMove
      PROVE  AccumulatorsOfNet'
  <2>1. line # <<>> /\ histPly \in 0..MaxPly
    BY <1>0, <1>5, NodeType DEF MakeIllegalMove
  <2> QED
    BY <1>5, <2>1, MarkNet DEF MakeIllegalMove
<1>6. ASSUME TakeMove
      PROVE  AccumulatorsOfNet'
  <2>1. line # <<>>
    <3>1. Len(line) > 1
      BY <1>6 DEF TakeMove
    <3> QED
      BY <3>1
  <2> QED
    BY <1>6, <2>1 DEF TakeMove, AccumulatorsOfNet
<1>7. ASSUME SearchEnds
      PROVE  AccumulatorsOfNet'
  BY <1>7 DEF SearchEnds, AccumulatorsOfNet
<1>8. ASSUME Evaluate
      PROVE  AccumulatorsOfNet'
  <2>1. /\ line # <<>> /\ histPly \in 0..MaxPly /\ UNCHANGED <<net, line>>
        /\ state \in [0..MaxPly -> Accumulator]
    BY <1>0, <1>8, NodeType DEF Evaluate, TypeOK
  <2>2. CASE UNCHANGED state
    BY <2>1, <2>2 DEF AccumulatorsOfNet
  <2>3. CASE ~st.computed_score /\ state' = [state EXCEPT ![histPly] = ComputeScore]
    <3>1. ~st.computed_accumulation
      BY <1>0, <2>1, <2>3 DEF ScoreOfAccumulation, st
    <3>2. ComputeScore.accumulation.net = net
      BY <2>3, <3>1 DEF ComputeScore, Transform
    <3>3. \A i \in 0..MaxPly : state'[i] = IF i = histPly THEN ComputeScore ELSE state[i]
      BY <2>1, <2>3
    <3> QED
      BY <2>1, <3>2, <3>3 DEF AccumulatorsOfNet
  <2> QED
    BY <1>8, <2>2, <2>3 DEF Evaluate
<1>9. ASSUME UNCHANGED vars
      PROVE  AccumulatorsOfNet'
  BY <1>9 DEF vars, AccumulatorsOfNet
<1> QED
  BY <1>1, <1>2, <1>3, <1>4, <1>5, <1>6, <1>7, <1>8, <1>9 DEF Next

(* In a search nothing is computed from the accumulators of a network that *)
(* was replaced, however often load_eval was called (evaluate_nnue.cpp     *)
(* 234-254, search.cpp 552-555).                                           *)
THEOREM NetSound == Spec => []AccumulatorsOfNet
<1>1. Init => AccumulatorsOfNet
  BY DEF Init, AccumulatorsOfNet
<1>2. Init => IInv
  BY InitInv
<1> QED
  BY <1>1, <1>2, StepInv, NetStep, PTL DEF Spec
-----------------------------------------------------------------------------
(* What a null move's node has accumulated is of its own position: the     *)
(* node begins without, and a move from it, the only thing that leads to   *)
(* another position at the same StateInfo, marks it.                       *)
NullOwn ==
  \A i \in 1..Len(line) :
    line[i].null /\ state[i - 1].computed_accumulation
      => state[i - 1].accumulation.pos = line[i].pos

(* Marking a StateInfo below or at the end of the line keeps that. *)
LEMMA MarkNull ==
  ASSUME IInv, NullOwn, NEW p \in 0..MaxPly, state' = [state EXCEPT ![p] = NotComputed(@)],
         TypeOK',
         \A i \in 1..Len(line') :
           line'[i].null => i - 1 = p \/ (i \in 1..Len(line) /\ line'[i] = line[i])
  PROVE  NullOwn'
<1>1. state \in [0..MaxPly -> Accumulator]
  BY DEF IInv, TypeOK
<1>2. NotComputed(state[p]).computed_accumulation = FALSE
  BY <1>1, ResetType
<1>3. \A i \in 0..MaxPly : state'[i] = IF i = p THEN NotComputed(state[p]) ELSE state[i]
  BY <1>1
<1>4. Len(line') \in Nat /\ Len(line') <= MaxPly + 1
  BY DEF TypeOK
<1> SUFFICES ASSUME NEW i \in 1..Len(line'), line'[i].null,
                    state'[i - 1].computed_accumulation
             PROVE  state'[i - 1].accumulation.pos = line'[i].pos
  BY DEF NullOwn
<1>5. i - 1 \in 0..MaxPly
  BY <1>4, EvalAssumption
<1>6. i - 1 # p
  BY <1>2, <1>3, <1>5
<1>7. state'[i - 1] = state[i - 1] /\ i \in 1..Len(line) /\ line'[i] = line[i]
  BY <1>3, <1>5, <1>6
<1> QED
  BY <1>7 DEF NullOwn

LEMMA Appended ==
  ASSUME TypeOK, line # <<>>, histPly < MaxPly, NEW n \in [pos : Pos, null : BOOLEAN],
         line' = Append(line, n)
  PROVE  /\ Len(line') = Len(line) + 1 /\ Len(line) \in Nat
         /\ histPly \in 0..MaxPly /\ histPly + 1 \in 0..MaxPly
         /\ line'[Len(line) + 1] = n
         /\ \A i \in 1..Len(line) : line'[i] = line[i]
         /\ \A i \in 1..Len(line') : i - 1 = histPly + 1 \/ i \in 1..Len(line)
<1> DEFINE S == [pos : Pos, null : BOOLEAN]
<1>1. line \in Seq(S) /\ n \in S
  BY DEF TypeOK
<1>2. Len(line) \in Nat /\ histPly \in 0..MaxPly
  BY NodeType
<1> HIDE DEF S
<1>3. /\ Len(line') = Len(line) + 1 /\ line'[Len(line) + 1] = n
      /\ \A i \in 1..Len(line) : line'[i] = line[i]
  BY <1>1
<1>4. histPly + 1 \in 0..MaxPly /\ histPly + 1 = Len(line)
  BY <1>2, EvalAssumption DEF histPly
<1>5. \A i \in 1..Len(line') : i - 1 = Len(line) \/ i \in 1..Len(line)
  BY <1>2, <1>3
<1> QED
  BY <1>2, <1>3, <1>4, <1>5

LEMMA NullStep == IInv /\ NullOwn /\ [Next]_vars => NullOwn'
<1> SUFFICES ASSUME IInv, NullOwn, [Next]_vars
             PROVE  NullOwn'
  OBVIOUS
<1>0. TypeOK /\ ScoreOfAccumulation /\ TypeOK' /\ line \in Seq([pos : Pos, null : BOOLEAN])
  BY StepInv DEF IInv, TypeOK
<1>1. ASSUME NEW n \in Net, LoadEval(n)
      PROVE  NullOwn'
  BY <1>1 DEF LoadEval, NullOwn
<1>2. ASSUME NEW root \in Pos, PrepareSearch(root)
      PROVE  NullOwn'
  <2>1. \A i \in 1..Len(line') : line'[i].null = FALSE
    BY <1>2 DEF PrepareSearch
  <2> QED
    BY <2>1 DEF NullOwn
<1>4. ASSUME NEW pos \in Pos, MakeMove(pos)
      PROVE  NullOwn'
  <2> DEFINE n == [pos |-> pos, null |-> FALSE]
  <2>1. line # <<>> /\ histPly < MaxPly /\ line' = Append(line, n)
        /\ state' = [state EXCEPT ![histPly] = NotComputed(@)]
    BY <1>4 DEF MakeMove
  <2>2. n \in [pos : Pos, null : BOOLEAN] /\ n.null = FALSE
    OBVIOUS
  <2> HIDE DEF n
  <2>3. /\ Len(line') = Len(line) + 1 /\ Len(line) \in Nat /\ histPly \in 0..MaxPly
        /\ line'[Len(line) + 1] = n
        /\ \A i \in 1..Len(line) : line'[i] = line[i]
    BY <1>0, <2>1, <2>2, Appended
  <2>4. ASSUME NEW i \in 1..Len(line'), line'[i].null
        PROVE  i \in 1..Len(line) /\ line'[i] = line[i]
    <3>1. i # Len(line) + 1
      BY <2>2, <2>3, <2>4
    <3>2. i \in 1..Len(line)
      BY <2>3, <3>1
    <3> QED
      BY <2>3, <3>2
  <2> QED
    BY <1>0, <2>1, <2>3, <2>4, MarkNull
<1>5. ASSUME NEW pos \in Pos, MakeNullMove(pos)
      PROVE  NullOwn'
  <2> DEFINE n == [pos |-> pos, null |-> TRUE]
  <2>1. line # <<>> /\ histPly < MaxPly /\ line' = Append(line, n)
        /\ state' = [state EXCEPT ![histPly + 1] = NotComputed(@)]
    BY <1>5 DEF MakeNullMove
  <2>2. n \in [pos : Pos, null : BOOLEAN]
    OBVIOUS
  <2> HIDE DEF n
  <2>3. /\ histPly + 1 \in 0..MaxPly
        /\ \A i \in 1..Len(line) : line'[i] = line[i]
        /\ \A i \in 1..Len(line') : i - 1 = histPly + 1 \/ i \in 1..Len(line)
    BY <1>0, <2>1, <2>2, Appended
  <2>4. \A i \in 1..Len(line') :
          i - 1 = histPly + 1 \/ (i \in 1..Len(line) /\ line'[i] = line[i])
    <3> TAKE i \in 1..Len(line')
    <3>1. CASE i - 1 = histPly + 1
      BY <3>1
    <3>2. CASE i \in 1..Len(line)
      BY <2>3, <3>2
    <3> QED
      BY <2>3, <3>1, <3>2
  <2> QED
    BY <1>0, <2>1, <2>3, <2>4, MarkNull
<1>6. ASSUME MakeIllegalMove
      PROVE  NullOwn'
  <2>1. histPly \in 0..MaxPly /\ line' = line
        /\ state' = [state EXCEPT ![histPly] = NotComputed(@)]
    BY <1>0, <1>6, NodeType DEF MakeIllegalMove
  <2> QED
    BY <1>0, <2>1, MarkNull
<1>7. ASSUME TakeMove
      PROVE  NullOwn'
  <2> DEFINE n == Len(line) - 1
  <2>1. n \in Nat /\ n > 0 /\ n < Len(line) /\ n \in Int /\ 1 \in Int /\ line' = SubSeq(line, 1, n)
        /\ state' = state
    BY <1>0, <1>7 DEF TakeMove
  <2> DEFINE S == [pos : Pos, null : BOOLEAN]
  <2>0. line \in Seq(S)
    BY <1>0
  <2> HIDE DEF n, S
  <2>2. \A i \in 1..n : line[i] \in S
    BY <2>0, <2>1
  <2>3. /\ Len(SubSeq(line, 1, n)) = IF 1 <= n THEN n - 1 + 1 ELSE 0
        /\ \A i \in 1..(n - 1 + 1) : SubSeq(line, 1, n)[i] = line[1 + i - 1]
    BY <2>1, <2>2, SubSeqProperties
  <2>4. Len(line') = n
    BY <2>1, <2>3
  <2>5. \A i \in 1..n : line'[i] = line[i]
    <3> TAKE i \in 1..n
    <3>1. i \in 1..(n - 1 + 1) /\ 1 + i - 1 = i
      BY <2>1
    <3>2. SubSeq(line, 1, n)[i] = line[1 + i - 1]
      BY <2>3, <3>1
    <3> QED
      BY <2>1, <3>1, <3>2
  <2>6. \A i \in 1..n : i \in 1..Len(line)
    BY <1>0, <2>1
  <2> QED
    BY <2>1, <2>4, <2>5, <2>6 DEF NullOwn
<1>8. ASSUME SearchEnds
      PROVE  NullOwn'
  BY <1>8 DEF SearchEnds, NullOwn
<1>9. ASSUME Evaluate
      PROVE  NullOwn'
  <2>1. /\ line # <<>> /\ histPly \in 0..MaxPly /\ UNCHANGED <<net, line>>
        /\ state \in [0..MaxPly -> Accumulator] /\ Len(line) \in Nat \ {0}
        /\ Len(line) <= MaxPly + 1
    BY <1>0, <1>9, NodeType DEF Evaluate, TypeOK
  <2>2. CASE UNCHANGED state
    BY <2>1, <2>2 DEF NullOwn
  <2>3. CASE ~st.computed_score /\ state' = [state EXCEPT ![histPly] = ComputeScore]
    <3>1. ~st.computed_accumulation
      BY <1>0, <2>1, <2>3 DEF ScoreOfAccumulation, st
    <3>2. ComputeScore.accumulation.pos = Current
      BY <2>3, <3>1 DEF ComputeScore, Transform
    <3>3. \A i \in 0..MaxPly : state'[i] = IF i = histPly THEN ComputeScore ELSE state[i]
      BY <2>1, <2>3
    <3>4. ASSUME NEW i \in 1..Len(line), line[i].null, state'[i - 1].computed_accumulation
          PROVE  state'[i - 1].accumulation.pos = line[i].pos
      <4>1. i - 1 \in 0..MaxPly /\ (i - 1 = histPly <=> i = Len(line))
        BY <2>1, EvalAssumption DEF histPly
      <4>2. CASE i = Len(line)
        BY <3>2, <3>3, <4>1, <4>2 DEF Current, Node
      <4>3. CASE i # Len(line)
        BY <3>3, <3>4, <4>1, <4>3 DEF NullOwn
      <4> QED
        BY <4>2, <4>3
    <3> QED
      BY <2>1, <3>4 DEF NullOwn
  <2> QED
    BY <1>9, <2>2, <2>3 DEF Evaluate
<1>10. ASSUME UNCHANGED vars
       PROVE  NullOwn'
  BY <1>10 DEF vars, NullOwn
<1> QED
  BY <1>1, <1>2, <1>4, <1>5, <1>6, <1>7, <1>8, <1>9, <1>10 DEF Next

(* A node after a null move gets a score of its own position, from the     *)
(* StateInfo, the hash or the network (evaluate_nnue.cpp 269-306,          *)
(* makemove.cpp 443-446), though a node after a move may not.              *)
THEOREM NullMoveSound == Spec => NullMoveCurrent
<1>1. Init => IInv /\ NullOwn
  <2>1. Init => Len(line) = 0
    BY DEF Init
  <2>2. Init => NullOwn
    BY <2>1 DEF NullOwn
  <2> QED
    BY <2>2, InitInv
<1>2. IInv /\ NullOwn /\ [Next]_vars
        => [value' # value /\ Node.null => value'.score.pos = value'.of]_vars
  <2> SUFFICES ASSUME IInv, NullOwn, Next, value' # value, Node.null
               PROVE  value'.score.pos = value'.of
    OBVIOUS
  <2>1. Evaluate
    BY DEF Next, LoadEval, PrepareSearch, MakeMove, MakeNullMove, MakeIllegalMove, TakeMove,
           SearchEnds
  <2>2. TypeOK /\ ScoreOfAccumulation /\ HashOwnPosition /\ line # <<>>
    BY <2>1 DEF IInv, Evaluate
  <2>3. /\ Current \in Pos /\ histPly \in 0..MaxPly /\ Len(line) \in Nat \ {0}
    BY <2>2, NodeType
  <2>4. st.computed_score <=> st.computed_accumulation
    BY <2>2, <2>3 DEF ScoreOfAccumulation, st
  <2>5. CASE st.computed_score /\ value' = [of |-> Current, score |-> st.score]
    <3>1. st.score = st.accumulation
      BY <2>2, <2>3, <2>5 DEF ScoreOfAccumulation, st
    <3>2. Len(line) \in 1..Len(line) /\ st = state[Len(line) - 1] /\ Node = line[Len(line)]
      BY <2>3 DEF st, histPly, Node
    <3>3. st.accumulation.pos = Current
      BY <2>4, <2>5, <3>2 DEF NullOwn, Current
    <3> QED
      BY <2>5, <3>1, <3>3
  <2>6. CASE hash.key = Current /\ value' = [of |-> Current, score |-> hash.score]
    BY <2>2, <2>3, <2>6, EvalAssumption DEF HashOwnPosition
  <2>7. CASE ~st.computed_score /\ value' = [of |-> Current, score |-> ComputeScore.score]
    BY <2>4, <2>7 DEF ComputeScore, Transform
  <2> QED
    BY <2>1, <2>5, <2>6, <2>7 DEF Evaluate
<1> QED
  BY <1>1, <1>2, StepInv, NullStep, PTL DEF Spec, NullMoveCurrent
-----------------------------------------------------------------------------
(* The window is at least as wide as the narrowest first one, until alpha  *)
(* is at -INFINITE: no score fails low there.                              *)
WideWindow ==
  pc = "search" =>
    \/ beta - alpha >= InitialWindow + 1
    \/ alpha = -Infinite /\ beta - alpha >= 2

(* Once the step exceeds the whole range each fail moves its bound to the  *)
(* end of the range, and the full window is reached after three of them.   *)
DeltaStages ==
  \/ delta <= 2 * Infinite
  \/ 3 * delta <= 10 * Infinite
  \/ 9 * delta <= 50 * Infinite /\ (alpha = -Infinite \/ beta = Infinite)
  \/ 27 * delta <= 250 * Infinite /\ alpha = -Infinite
  \/ 81 * delta <= 1250 * Infinite /\ alpha = -Infinite /\ beta = Infinite

(* From the second iteration on the pv has held a move, and a root search  *)
(* of the first one is not a quiescence search.                            *)
PVHasHeldMove ==
  /\ threadDepth > 1 => pv.move # NoMove
  /\ threadDepth = 1 /\ pc = "search" =>
       \/ pv.move # NoMove
       \/ depth = 1 /\ alpha = -Infinite /\ beta = Infinite

WindowInv == /\ WindowTypeOK /\ (pc = "search" => threadDepth <= LimitDepth)
        /\ delta >= InitialDelta /\ WideWindow /\ DeltaStages
        /\ PVHasHeldMove /\ HasAnswer
-----------------------------------------------------------------------------
LEMMA HalfBounds ==
  ASSUME NEW x \in Int
  PROVE  Half(x) \in Int /\ 2 * Half(x) >= x - 1 /\ 2 * Half(x) <= x + 1
  BY DEF Half

LEMMA GrownBounds ==
  ASSUME delta \in Nat, delta > 0
  PROVE  Grown \in Nat /\ Grown >= delta /\ 3 * Grown <= 5 * delta
  BY DEF Grown

LEMMA WindowInitInv == WindowInit => WindowInv
  BY WindowAssumption
  DEF WindowInit, WindowInv, WindowTypeOK, WideWindow, DeltaStages, PVHasHeldMove, HasAnswer, ValidScore, Infinite

(* What a root search does to the pv. *)
LEMMA RootSearchPV ==
  ASSUME WindowInv, NEW s \in ValidScore, RootSearch(s)
  PROVE  /\ pc = "search"
         /\ pv' \in [empty : BOOLEAN, move : Move \union {NoMove}]
         /\ pv'.move # NoMove
<1>1. pv \in [empty : BOOLEAN, move : Move \union {NoMove}] /\ pc = "search"
  BY DEF WindowInv, WindowTypeOK, RootSearch
<1>2. CASE pv' = [pv EXCEPT !.empty = TRUE] /\ (RootDepth <= 0 \/ beta - alpha = 1)
  <2>1. pv'.move = pv.move /\ pv' \in [empty : BOOLEAN, move : Move \union {NoMove}]
    BY <1>1, <1>2
  <2>2. threadDepth \in 1..LimitDepth + 1 /\ alpha \in Int /\ beta \in Int /\ Mate \in Nat
    BY WindowAssumption DEF WindowInv, WindowTypeOK, Infinite
  <2>3. ~(depth = 1 /\ alpha = -Infinite /\ beta = Infinite)
    BY <1>2, <2>2, WindowAssumption DEF RootDepth, Infinite
  <2>4. pv.move # NoMove
    BY <1>1, <2>2, <2>3, WindowAssumption DEF WindowInv, PVHasHeldMove
  <2> QED
    BY <1>1, <2>1, <2>4
<1>3. CASE \E m \in Move : pv' = [empty |-> FALSE, move |-> m]
  BY <1>1, <1>3, WindowAssumption
<1> QED
  BY <1>2, <1>3 DEF RootSearch

LEMMA StartInv == WindowInv /\ StartIteration => WindowInv'
<1> SUFFICES ASSUME WindowInv, StartIteration
             PROVE  WindowInv'
  OBVIOUS
<1>1. /\ score \in ValidScore /\ Mate \in Nat /\ InitialWindow \in Nat /\ InitialWindow >= 2
      /\ InitialDelta \in Nat /\ InitialDelta > InitialWindow /\ InitialDelta <= Mate
      /\ threadDepth \in 1..LimitDepth + 1 /\ FullUntil \in Nat \ {0} /\ LimitDepth \in Nat
  BY WindowAssumption DEF WindowInv, WindowTypeOK
<1>2. /\ alpha' \in -Infinite..Infinite /\ beta' \in -Infinite..Infinite
      /\ beta' - alpha' >= InitialWindow + 1 \/ (alpha' = -Infinite /\ beta' - alpha' >= 2)
  BY <1>1 DEF StartIteration, AtLeast, AtMost, Infinite, ValidScore
<1>3. WindowTypeOK' /\ delta' >= InitialDelta /\ (pc' = "search" => threadDepth' <= LimitDepth)
  BY <1>1, <1>2 DEF StartIteration, WindowInv, WindowTypeOK, setup
<1>4. WideWindow'
  BY <1>2 DEF WideWindow
<1>5. DeltaStages'
  BY <1>1 DEF StartIteration, DeltaStages, Infinite
<1>6. PVHasHeldMove'
  BY <1>1 DEF StartIteration, WindowInv, PVHasHeldMove
<1>7. HasAnswer'
  BY DEF StartIteration, WindowInv, HasAnswer, setup
<1> QED
  BY <1>3, <1>4, <1>5, <1>6, <1>7 DEF WindowInv

LEMMA FailLowInv == ASSUME WindowInv, NEW s \in ValidScore, FailLow(s) PROVE WindowInv'
<1>1. /\ pc = "search" /\ pv' \in [empty : BOOLEAN, move : Move \union {NoMove}]
      /\ pv'.move # NoMove
  BY RootSearchPV DEF FailLow
<1>2. /\ s \in -Mate..Mate /\ s <= alpha /\ Mate \in Nat
      /\ InitialWindow \in Nat /\ InitialWindow >= 2
      /\ alpha \in -Infinite..Infinite /\ beta \in -Infinite..Infinite
      /\ delta \in Nat /\ delta > InitialWindow /\ InitialDelta \in Nat
      /\ threadDepth \in 1..LimitDepth + 1 /\ LimitDepth \in Nat
  BY WindowAssumption DEF WindowInv, WindowTypeOK, FailLow, ValidScore
<1>3. /\ Grown \in Nat /\ Grown >= delta /\ 3 * Grown <= 5 * delta /\ delta' = Grown
  BY <1>2, GrownBounds DEF FailLow
<1>4. alpha' = AtLeast(alpha - delta, -Infinite) /\ alpha' \in -Infinite..Infinite
      /\ alpha' < alpha /\ (alpha' = alpha - delta \/ alpha' = -Infinite)
  BY <1>2 DEF FailLow, AtLeast, Infinite
<1>5. beta' \in Int /\ 2 * beta' >= alpha' + beta - 1 /\ 2 * beta' <= alpha' + beta + 1
  <2>1. alpha' + beta \in Int /\ beta' = Half(alpha' + beta)
    BY <1>2, <1>4 DEF FailLow, Infinite
  <2>2. /\ Half(alpha' + beta) \in Int /\ 2 * Half(alpha' + beta) >= (alpha' + beta) - 1
        /\ 2 * Half(alpha' + beta) <= (alpha' + beta) + 1
    BY <2>1, HalfBounds
  <2>3. alpha' \in Int /\ beta \in Int
    BY <1>2, <1>4 DEF Infinite
  <2> QED
    BY <2>1, <2>2, <2>3
<1>6. beta - alpha >= InitialWindow + 1
  BY <1>1, <1>2 DEF WindowInv, WideWindow, Infinite
<1>7. \/ beta' - alpha' >= InitialWindow + 1
      \/ alpha' = -Infinite /\ beta' - alpha' >= 2
  BY <1>2, <1>4, <1>5, <1>6 DEF Infinite
<1>8. beta' \in -Infinite..Infinite
  BY <1>2, <1>4, <1>5, <1>6 DEF Infinite
<1>9. WindowTypeOK' /\ delta' >= InitialDelta /\ (pc' = "search" => threadDepth' <= LimitDepth)
  <2>1. depth' = threadDepth /\ UNCHANGED <<setup, pc, threadDepth, score, bestMove>>
    BY DEF FailLow
  <2> QED
    BY <1>1, <1>2, <1>3, <1>4, <1>8, <2>1 DEF WindowInv, WindowTypeOK, setup
<1>10. WideWindow'
  BY <1>7 DEF WideWindow
<1>11. DeltaStages'
  <2>1. alpha # -Infinite
    BY <1>2 DEF Infinite
  <2>2. delta > 2 * Infinite => alpha' = -Infinite
    BY <1>2 DEF FailLow, AtLeast, Infinite
  <2>3. CASE delta <= 2 * Infinite
    BY <1>2, <1>3, <2>3 DEF DeltaStages, Infinite
  <2>4. CASE delta > 2 * Infinite /\ 3 * delta <= 10 * Infinite
    BY <1>2, <1>3, <2>2, <2>4 DEF DeltaStages, Infinite
  <2>5. CASE delta > 2 * Infinite /\ 9 * delta <= 50 * Infinite /\ beta = Infinite
    BY <1>2, <1>3, <2>2, <2>5 DEF DeltaStages, Infinite
  <2>6. delta \in Int /\ Infinite \in Int
    BY <1>2 DEF Infinite
  <2> QED
    BY <2>1, <2>3, <2>4, <2>5, <2>6 DEF WindowInv, DeltaStages
<1>12. PVHasHeldMove' /\ HasAnswer'
  BY <1>1 DEF PVHasHeldMove, HasAnswer, WindowInv, FailLow, setup
<1> QED
  BY <1>9, <1>10, <1>11, <1>12 DEF WindowInv

LEMMA FailHighInv == ASSUME WindowInv, NEW s \in ValidScore, FailHigh(s) PROVE WindowInv'
<1>1. /\ pc = "search" /\ pv' \in [empty : BOOLEAN, move : Move \union {NoMove}]
      /\ pv'.move # NoMove
  BY RootSearchPV DEF FailHigh
<1>2. /\ s \in -Mate..Mate /\ s >= beta /\ Mate \in Nat
      /\ InitialWindow \in Nat /\ InitialWindow >= 2
      /\ alpha \in -Infinite..Infinite /\ beta \in -Infinite..Infinite
      /\ delta \in Nat /\ delta > InitialWindow /\ InitialDelta \in Nat
      /\ threadDepth \in 1..LimitDepth + 1 /\ LimitDepth \in Nat
      /\ depth \in Int /\ depth <= threadDepth
  BY WindowAssumption DEF WindowInv, WindowTypeOK, FailHigh, ValidScore
<1>3. /\ Grown \in Nat /\ Grown >= delta /\ 3 * Grown <= 5 * delta /\ delta' = Grown
  BY <1>2, GrownBounds DEF FailHigh
<1>4. /\ beta' \in -Infinite..Infinite /\ beta' >= beta
      /\ beta' = AtMost(beta + delta, Infinite) /\ alpha' = alpha
  BY <1>2 DEF FailHigh, AtMost, Infinite
<1>5. WindowTypeOK' /\ delta' >= InitialDelta /\ (pc' = "search" => threadDepth' <= LimitDepth)
  <2>1. depth' \in Int /\ depth' <= threadDepth
    BY <1>2 DEF FailHigh
  <2>2. UNCHANGED <<setup, pc, threadDepth, score, bestMove>>
    BY DEF FailHigh
  <2> QED
    BY <1>1, <1>2, <1>3, <1>4, <2>1, <2>2 DEF WindowInv, WindowTypeOK, setup
<1>6. WideWindow'
  BY <1>1, <1>2, <1>4 DEF WindowInv, WideWindow, Infinite
<1>7. DeltaStages'
  <2>1. beta # Infinite
    BY <1>2 DEF Infinite
  <2>2. delta > 2 * Infinite => beta' = Infinite
    BY <1>2, <1>4 DEF AtMost, Infinite
  <2>3. CASE delta <= 2 * Infinite
    BY <1>2, <1>3, <2>3 DEF DeltaStages, Infinite
  <2>4. CASE delta > 2 * Infinite /\ 3 * delta <= 10 * Infinite
    BY <1>2, <1>3, <2>2, <2>4 DEF DeltaStages, Infinite
  <2>5. CASE delta > 2 * Infinite /\ 9 * delta <= 50 * Infinite /\ alpha = -Infinite
    BY <1>2, <1>3, <1>4, <2>2, <2>5 DEF DeltaStages, Infinite
  <2>6. CASE delta > 2 * Infinite /\ 27 * delta <= 250 * Infinite /\ alpha = -Infinite
    BY <1>2, <1>3, <1>4, <2>2, <2>6 DEF DeltaStages, Infinite
  <2>7. delta \in Int /\ Infinite \in Int
    BY <1>2 DEF Infinite
  <2> QED
    BY <2>1, <2>3, <2>4, <2>5, <2>6, <2>7 DEF WindowInv, DeltaStages
<1>8. PVHasHeldMove' /\ HasAnswer'
  BY <1>1 DEF PVHasHeldMove, HasAnswer, WindowInv, FailHigh, setup
<1> QED
  BY <1>5, <1>6, <1>7, <1>8 DEF WindowInv

LEMMA AcceptInv == ASSUME WindowInv, NEW s \in ValidScore, Accept(s) PROVE WindowInv'
<1>1. /\ pc = "search" /\ pv' \in [empty : BOOLEAN, move : Move \union {NoMove}]
      /\ pv'.move # NoMove
  BY RootSearchPV DEF Accept
<1>2. bestMove' = (IF mainThread THEN pv'.move ELSE bestMove)
  BY DEF Accept
<1>3. threadDepth \in 1..LimitDepth /\ LimitDepth \in Nat
  BY <1>1, WindowAssumption DEF WindowInv, WindowTypeOK
<1>4. /\ UNCHANGED <<mainThread, inCheck, timelimit, alpha, beta, delta, depth>>
      /\ score' = s /\ pc' \in {"iterate", "done"} /\ threadDepth' \in {threadDepth, threadDepth + 1}
  BY DEF Accept, setup, window
<1>5. WindowTypeOK'
  BY <1>1, <1>2, <1>3, <1>4 DEF WindowInv, WindowTypeOK
<1>6. PVHasHeldMove' /\ HasAnswer' /\ WideWindow' /\ DeltaStages'
  BY <1>1, <1>2, <1>3, <1>4 DEF WindowInv, PVHasHeldMove, HasAnswer, WideWindow, DeltaStages
<1> QED
  BY <1>4, <1>5, <1>6 DEF WindowInv

LEMMA AbortInv == WindowInv /\ Abort => WindowInv'
<1> SUFFICES ASSUME WindowInv, Abort
             PROVE  WindowInv'
  OBVIOUS
<1>1. /\ UNCHANGED <<mainThread, inCheck, timelimit, threadDepth, score>>
      /\ UNCHANGED <<alpha, beta, delta, depth, bestMove>>
      /\ pc = "search" /\ pc' = "aborted"
  BY DEF Abort, setup, window
<1>2. pv \in [empty : BOOLEAN, move : Move \union {NoMove}]
  BY DEF WindowInv, WindowTypeOK
<1>3. /\ pv' \in [empty : BOOLEAN, move : Move \union {NoMove}]
      /\ pv'.move = NoMove => pv.move = NoMove
  <2>1. CASE pv' = pv
    BY <1>2, <2>1
  <2>2. CASE pv' = [pv EXCEPT !.empty = TRUE]
    BY <1>2, <2>2
  <2>3. CASE \E m \in Move : pv' = [empty |-> FALSE, move |-> m]
    BY <2>3, WindowAssumption
  <2> QED
    BY <2>1, <2>2, <2>3 DEF Abort
<1>4. WindowTypeOK'
  BY <1>1, <1>3 DEF WindowInv, WindowTypeOK
<1>5. PVHasHeldMove' /\ HasAnswer' /\ WideWindow' /\ DeltaStages'
  BY <1>1, <1>3 DEF WindowInv, PVHasHeldMove, HasAnswer, WideWindow, DeltaStages
<1> QED
  BY <1>1, <1>4, <1>5 DEF WindowInv

LEMMA LastInv == WindowInv /\ (LastIteration \/ UNCHANGED windowVars) => WindowInv'
<1> SUFFICES ASSUME WindowInv, LastIteration \/ UNCHANGED windowVars
             PROVE  WindowInv'
  OBVIOUS
<1>1. CASE LastIteration
  <2>1. threadDepth > 1
    BY <1>1, WindowAssumption DEF LastIteration, WindowInv, WindowTypeOK
  <2>2. pc' = "done" /\ UNCHANGED <<setup, threadDepth, score, window, pv, bestMove>>
    BY <1>1 DEF LastIteration
  <2> QED
    BY <2>1, <2>2 DEF setup, window, WindowInv, WindowTypeOK, WideWindow, DeltaStages, PVHasHeldMove, HasAnswer
<1>2. CASE UNCHANGED windowVars
  BY <1>2 DEF windowVars, WindowInv, WindowTypeOK, WideWindow, DeltaStages, PVHasHeldMove, HasAnswer
<1> QED
  BY <1>1, <1>2

LEMMA WindowStepInv == WindowInv /\ [WindowNext]_windowVars => WindowInv'
  BY StartInv, FailLowInv, FailHighInv, AcceptInv, AbortInv, LastInv DEF WindowNext

LEMMA InvImplies == WindowInv => RootIsPV /\ DeltaBounded
<1> SUFFICES ASSUME WindowInv
             PROVE  RootIsPV /\ DeltaBounded
  OBVIOUS
<1>1. /\ Mate \in Nat /\ InitialWindow \in Nat /\ InitialWindow >= 2 /\ delta \in Nat
      /\ alpha \in -Infinite..Infinite /\ beta \in -Infinite..Infinite
  BY WindowAssumption DEF WindowInv, WindowTypeOK
<1>2. RootIsPV
  BY <1>1 DEF WindowInv, WideWindow, RootIsPV, Infinite
<1>3. DeltaBounded
  BY <1>1 DEF WindowInv, DeltaStages, DeltaBounded, Infinite
<1> QED
  BY <1>2, <1>3

(* The root is always searched with an open window (search.cpp 468-512),   *)
(* however often the searches fail low and high.                           *)
THEOREM OpenWindow == WindowSpec => [](WindowTypeOK /\ RootIsPV)
<1>1. WindowInv => WindowTypeOK /\ RootIsPV
  BY InvImplies DEF WindowInv
<1> QED
  BY <1>1, WindowInitInv, WindowStepInv, PTL DEF WindowSpec

(* The step never leaves 16 * INFINITE, so it never overflows and, as it   *)
(* grows with every search, an iteration has finitely many of them.        *)
THEOREM NoOverflow == WindowSpec => []DeltaBounded
  BY WindowInitInv, WindowStepInv, InvImplies, PTL DEF WindowSpec

(* After a completed iteration there is a move to play (515-546).          *)
THEOREM Answers == WindowSpec => []HasAnswer
<1>1. WindowInv => HasAnswer
  BY DEF WindowInv
<1> QED
  BY <1>1, WindowInitInv, WindowStepInv, PTL DEF WindowSpec
-----------------------------------------------------------------------------
LEMMA MovesInRange ==
  ASSUME NEW limits, limits.movestogo \in Nat
  PROVE  Time!MovesToGo(limits) \in 1..50
  BY DEF Time!MovesToGo, Time!AtMost, Time!MaxMovesToGo

LEMMA QuotientIsNatural ==
  ASSUME NEW a \in Nat, NEW b \in Nat, b > 0
  PROVE  a \div b \in Nat
  OBVIOUS

LEMMA TimeLeftIsNatural ==
  ASSUME NEW limits, limits.time \in Nat, limits.inc \in Nat, limits.movestogo \in Nat
  PROVE  Time!TimeLeft(limits) \in Nat
<1>1. PICK m \in 1..50 : Time!MovesToGo(limits) = m
  BY MovesInRange
<1>2. limits.inc * (m - 1) \in Int
  BY <1>1
<1> QED
  BY <1>1, <1>2 DEF Time!TimeLeft, Time!AtLeast, Time!overhead

(* The truncated product is a natural number. *)
LEMMA SevenTenthsIsNatural ==
  ASSUME NEW t \in Nat, NEW m \in 1..50
  PROVE  Time!SevenTenths(t, m) \subseteq Nat
<1>1. (7 * t) \div (10 * m) \in Nat
  BY QuotientIsNatural
<1> QED
  BY <1>1 DEF Time!SevenTenths

(* The planned time is natural and at most four fifths of the clock. *)
LEMMA OptimalFits ==
  ASSUME NEW limits, limits.time \in Nat, limits.inc \in Nat, limits.movestogo \in Nat
  PROVE  \A t \in Time!Optimal(limits) : t \in Nat /\ t <= (4 * limits.time) \div 5
<1>1. PICK x \in Nat : limits.time = x
  OBVIOUS
<1>2. /\ (4 * x) \div 5 \in Nat /\ x \div 5 \in Nat
      /\ x \div 5 <= (4 * x) \div 5
  OBVIOUS
<1>3. CASE limits.movestogo = 0
  <2>1. Time!TimeLeft(limits) \div 50 \in Nat
    BY TimeLeftIsNatural
  <2> QED
    BY <1>1, <1>2, <1>3, <2>1 DEF Time!Optimal, Time!AtMost
<1>4. CASE limits.movestogo # 0
  <2>1. \A q \in Time!SevenTenths(Time!TimeLeft(limits), Time!MovesToGo(limits)) : q \in Nat
    BY TimeLeftIsNatural, MovesInRange, SevenTenthsIsNatural
  <2> QED
    BY <1>1, <1>2, <1>4, <2>1 DEF Time!Optimal, Time!AtMost
<1> QED
  BY <1>3, <1>4

(* InitTimeManagement (time.cpp 25-58) leaves the engine a fifth of its    *)
(* clock, or the overhead of the time for the move, for every go command:  *)
(* BudgetFits for all of them.                                             *)
THEOREM BudgetAlwaysFits ==
  ASSUME NEW go \in Time!Go, NEW stm \in {"white", "black"}
  PROVE  Time!BudgetFits(go, stm)
<1> DEFINE limits == Time!ParseTimeControl(go, stm)
           Fits(usage) ==
             /\ usage.optimalUsage <= usage.maxUsage
             /\ limits.movetime = 0 =>
                  /\ 0 <= usage.optimalUsage
                  /\ \A elapsed \in 0..limits.time :
                       ~Time!OutOfTime(limits, usage, elapsed) => 5 * elapsed < 4 * limits.time
             /\ limits.movetime # 0 =>
                  \A elapsed \in 0..limits.movetime :
                    ~Time!OutOfTime(limits, usage, elapsed) =>
                      elapsed + Time!overhead < limits.movetime
<1>1. /\ limits.time \in Nat /\ limits.inc \in Nat /\ limits.movestogo \in Nat
      /\ limits.movetime \in Nat
  BY DEF Time!Go, Time!ParseTimeControl
<1>2. SUFFICES ASSUME NEW usage \in Time!InitTimeManagement(limits), limits.timelimit
               PROVE  Fits(usage)
  BY DEF Time!BudgetFits
<1> HIDE DEF limits
<1>3. CASE limits.movetime # 0
  <2>1. /\ usage.optimalUsage = limits.movetime - 5
        /\ usage.maxUsage = limits.movetime - 5
    BY <1>3 DEF Time!InitTimeManagement, Time!overhead
  <2>2. ASSUME NEW elapsed \in 0..limits.movetime, ~Time!OutOfTime(limits, usage, elapsed)
        PROVE  elapsed + Time!overhead < limits.movetime
    BY <1>1, <1>2, <2>1, <2>2 DEF Time!OutOfTime, Time!overhead
  <2> QED
    BY <1>1, <1>3, <2>1, <2>2
<1>4. CASE limits.movetime = 0
  <2>1. PICK t \in Time!Optimal(limits) :
          usage = [optimalUsage |-> t, maxUsage |-> Time!AtMost(5 * t, (4 * limits.time) \div 5)]
    BY <1>4 DEF Time!InitTimeManagement
  <2>2. t \in Nat /\ t <= (4 * limits.time) \div 5
    BY <1>1, <2>1, OptimalFits
  <2>3. PICK x \in Nat : limits.time = x
    BY <1>1
  <2>4. usage.optimalUsage = t /\ usage.maxUsage = Time!AtMost(5 * t, (4 * x) \div 5)
    BY <2>1, <2>3
  <2>5. 0 <= t /\ t <= Time!AtMost(5 * t, (4 * x) \div 5)
    BY <2>2, <2>3 DEF Time!AtMost
  <2>6. ASSUME NEW elapsed \in 0..limits.time, ~Time!OutOfTime(limits, usage, elapsed)
        PROVE  5 * elapsed < 4 * x
    <3>1. elapsed < Time!AtMost(5 * t, (4 * x) \div 5)
      BY <1>2, <2>2, <2>4, <2>6 DEF Time!OutOfTime, Time!AtMost
    <3>2. Time!AtMost(5 * t, (4 * x) \div 5) <= (4 * x) \div 5
      BY <2>2 DEF Time!AtMost
    <3>3. PICK y \in Nat : y = (4 * x) \div 5 /\ 5 * y <= 4 * x
      OBVIOUS
    <3> QED
      BY <3>1, <3>2, <3>3, <2>2 DEF Time!AtMost
  <2> QED
    BY <1>4, <2>3, <2>4, <2>5, <2>6
<1> QED
  BY <1>3, <1>4

(* In every search the budget of the go command that began it fits.        *)
THEOREM Budgets == WindowSpec => []BudgetsFit
<1>1. BudgetsFit
  BY WindowAssumption, BudgetAlwaysFits DEF BudgetsFit
<1> QED
  BY <1>1, PTL
=============================================================================

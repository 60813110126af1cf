---------------------------- MODULE NodeProofs -----------------------------
(***************************************************************************)
(* Proofs about the two components that every node of the search asks      *)
(* before it goes on: MovePicker, for every set of moves, every split of   *)
(* it into noisy and quiet moves and every position; and GameHistory, for  *)
(* any boards, counters and array length: the array is never left, and     *)
(* draws are told from the kept history as they would be from the whole    *)
(* one.                                                                    *)
(***************************************************************************)
EXTENDS MovePicker, GameHistory, SequenceTheorems, TLAPS

(* The initial state satisfies the inductive invariant. *)
LEMMA InitIInv == Init => IInv
BY MoveAssumption DEF Init, IInv, TypeOK, KillersOk, MoveOrNone, Stages

(* A listing of S is a sequence of its moves without repetition. *)
LEMMA ListingFacts ==
  ASSUME NEW S \in SUBSET Move, NEW s \in Listings(S)
  PROVE  /\ s \in Seq(Move)
         /\ \A i, j \in 1..Len(s) : s[i] = s[j] => i = j
         /\ {s[i] : i \in 1..Len(s)} = S
<1>1. PICK n \in 0..MaxPositionMoves :
        /\ s \in [1..n -> S]
        /\ \A i, j \in 1..n : s[i] = s[j] => i = j
        /\ \A m \in S : \E i \in 1..n : s[i] = m
  BY DEF Listings
<1>2. n \in Nat /\ s \in Seq(Move) /\ Len(s) = n
  BY <1>1, MoveAssumption
<1>. QED BY <1>1, <1>2

(* Appending a listing of S to an exhausted list leaves exactly S to pick, *)
(* without duplicates.                                                     *)
LEMMA AppendListing ==
  ASSUME TypeOK, next = Len(list), NEW S \in SUBSET Move,
         NEW s \in Listings(S), list' = list \o s, next' = next
  PROVE  /\ list' \in Seq(Move) /\ next' \in 0..Len(list')
         /\ Distinct' /\ Remaining' = S
<1>1. /\ s \in Seq(Move)
      /\ \A i, j \in 1..Len(s) : s[i] = s[j] => i = j
      /\ {s[i] : i \in 1..Len(s)} = S
  BY ListingFacts
<1>2. /\ list \in Seq(Move) /\ list' \in Seq(Move)
      /\ Len(list') = Len(list) + Len(s)
      /\ \A k \in 1..Len(list') :
           list'[k] = IF k <= Len(list) THEN list[k] ELSE s[k - Len(list)]
  BY <1>1 DEF TypeOK
<1>3. \A k \in (next' + 1)..Len(list') :
        k - Len(list) \in 1..Len(s) /\ list'[k] = s[k - Len(list)]
  BY <1>1, <1>2
<1>4. \A i \in 1..Len(s) :
        i + Len(list) \in (next' + 1)..Len(list') /\ list'[i + Len(list)] = s[i]
  BY <1>1, <1>2
<1>5. Distinct'
  BY <1>1, <1>2, <1>3 DEF Distinct
<1>6. Remaining' = S
  BY <1>1, <1>3, <1>4 DEF Remaining
<1>. QED BY <1>1, <1>2, <1>5, <1>6

(* Consuming the entry at best and moving the first entry left into its    *)
(* slot removes exactly that move from what is left.                       *)
LEMMA PickFacts ==
  ASSUME TypeOK, Distinct, next < Len(list),
         NEW best \in (next + 1)..Len(list),
         list' = [list EXCEPT ![best] = list[next + 1]], next' = next + 1
  PROVE  /\ list[best] \in Move /\ list[best] \in Remaining
         /\ list' \in Seq(Move) /\ next' \in 0..Len(list')
         /\ Distinct' /\ Remaining' = Remaining \ {list[best]}
<1>1. /\ list \in Seq(Move) /\ next \in Nat /\ Len(list) \in Nat
      /\ best \in 1..Len(list) /\ next + 1 \in 1..Len(list)
  BY DEF TypeOK
<1>2. list[best] \in Move /\ list[next + 1] \in Move
  BY <1>1
<1>3. /\ list' \in Seq(Move) /\ Len(list') = Len(list)
      /\ \A k \in 1..Len(list) :
           list'[k] = IF k = best THEN list[next + 1] ELSE list[k]
  BY <1>1, <1>2
<1>4. next' \in 0..Len(list')
  BY <1>1, <1>3
<1>5. Distinct'
  BY <1>1, <1>3 DEF Distinct
<1>6. Remaining' = Remaining \ {list[best]}
  <2>1. ASSUME NEW m \in Remaining' PROVE m \in Remaining \ {list[best]}
    <3>1. PICK k \in (next' + 1)..Len(list') : m = list'[k]
      BY <2>1 DEF Remaining
    <3>2. k \in (next + 1)..Len(list) /\ k # next + 1
      BY <1>1, <1>3, <3>1
    <3>3. CASE k = best
      BY <1>1, <1>3, <3>1, <3>2, <3>3 DEF Remaining, Distinct
    <3>4. CASE k # best
      BY <1>1, <1>3, <3>1, <3>2, <3>4 DEF Remaining, Distinct
    <3>. QED BY <3>3, <3>4
  <2>2. ASSUME NEW m \in Remaining \ {list[best]} PROVE m \in Remaining'
    <3>1. PICK k \in (next + 1)..Len(list) : m = list[k]
      BY <2>2 DEF Remaining
    <3>2. k # best /\ k \in 1..Len(list)
      BY <1>1, <2>2, <3>1
    <3>3. CASE k = next + 1
      <4>1. best \in (next' + 1)..Len(list') /\ list'[best] = m
        BY <1>1, <1>3, <3>1, <3>2, <3>3
      <4>. QED BY <4>1 DEF Remaining
    <3>4. CASE k # next + 1
      <4>1. k \in (next' + 1)..Len(list') /\ list'[k] = m
        BY <1>1, <1>3, <3>1, <3>2, <3>4
      <4>. QED BY <4>1 DEF Remaining
    <3>. QED BY <3>3, <3>4
  <2>. QED BY <2>1, <2>2
<1>7. list[best] \in Remaining
  BY DEF Remaining
<1>. QED BY <1>2, <1>3, <1>4, <1>5, <1>6, <1>7

(* A node begins with nothing returned and an empty list. *)
LEMMA BeginIInv == IInv /\ (BeginNormal \/ BeginNoisy) => IInv'
<1>. SUFFICES ASSUME IInv, BeginNormal \/ BeginNoisy PROVE IInv'
  OBVIOUS
<1>1. /\ TypeOK /\ KillersOk /\ BeginNode
      /\ killers' = killers /\ legal' \subseteq Move /\ call' = "caller"
      /\ list' = <<>> /\ next' = 0 /\ Len(list') = 0 /\ ret' = NoMove /\ given' = {}
  BY DEF IInv, BeginNormal, BeginNoisy, BeginNode
<1>2. KillersOk'
  BY <1>1 DEF KillersOk
<1>3. CASE BeginNoisy
  <2>1. mp' = [ttMove |-> NoMove, stage |-> "GEN_NOISY", kill1 |-> NoMove,
               kill2 |-> NoMove, onlyNoisy |-> TRUE]
    BY <1>3 DEF BeginNoisy, InitNoisyMP
  <2>2. TypeOK'
    BY <1>1, <2>1 DEF TypeOK, MoveOrNone, Stages
  <2>3. PickerOk' /\ StageInv'
    BY <1>1, <2>1, MoveAssumption DEF PickerOk, StageInv, TTPart
  <2>. QED BY <1>2, <2>2, <2>3 DEF IInv
<1>4. CASE BeginNormal
  <2>1. PICK tt \in MoveOrNone : InitNormalMP(tt)
    BY <1>4 DEF BeginNormal
  <2>. DEFINE t == IF tt \in legal' THEN tt ELSE NoMove
  <2>2. mp' = [ttMove |-> t, stage |-> IF t # NoMove THEN "TTMOVE" ELSE "GEN_NOISY",
               kill1 |-> killers[1], kill2 |-> killers[2], onlyNoisy |-> FALSE]
    BY <2>1 DEF InitNormalMP
  <2>3. t \in MoveOrNone /\ t \in legal' \union {NoMove}
    BY <2>1 DEF MoveOrNone
  <2>. HIDE DEF t
  <2>4. TypeOK'
    BY <1>1, <2>2, <2>3 DEF TypeOK, MoveOrNone, Stages
  <2>5. PickerOk'
    BY <1>1, <2>2, <2>3 DEF PickerOk, KillersOk
  <2>6. StageInv'
    BY <1>1, <2>2, <2>3 DEF StageInv, TTPart
  <2>. QED BY <1>2, <2>4, <2>5, <2>6 DEF IInv
<1>. QED BY <1>3, <1>4

(* The node ends; a quiet move that failed high becomes the first killer,  *)
(* and it differs from the killer it pushes back.                          *)
LEMMA EndIInv == IInv /\ (LeaveNode \/ CutoffNode) => IInv'
<1>. SUFFICES ASSUME IInv, LeaveNode \/ CutoffNode PROVE IInv'
  OBVIOUS
<1>1. CASE LeaveNode
  BY <1>1 DEF IInv, LeaveNode, TypeOK, KillersOk
<1>2. CASE CutoffNode
  <2>1. TypeOK'
    BY <1>2 DEF IInv, CutoffNode, UpdateKillers, TypeOK, MoveOrNone
  <2>2. KillersOk'
    BY <1>2 DEF IInv, CutoffNode, UpdateKillers, TypeOK, KillersOk
  <2>. QED BY <1>2, <2>1, <2>2 DEF IInv, CutoffNode
<1>. QED BY <1>1, <1>2

(* What one step of PickNextMove does to the invariant's parts, whatever   *)
(* the set of moves that are skipped.                                      *)
LEMMA PickIInv ==
  ASSUME TypeOK, Distinct, NEW excluded, PickNextMove(excluded),
         legal' = legal, killers' = killers, call = "next"
  PROVE  /\ TypeOK' /\ Distinct' /\ mp' = mp
         /\ \E m \in Remaining \cap Move :
              /\ Remaining' = Remaining \ {m}
              /\ \/ m \in excluded /\ given' = given /\ call' = "next"
                 \/ m \notin excluded /\ given' = given \union ({m} \ {NoMove})
                     /\ call' = "caller" /\ ret' = m
<1>1. PICK best \in (next + 1)..Len(list) :
        /\ next < Len(list) /\ mp' = mp
        /\ list' = [list EXCEPT ![best] = list[next + 1]]
        /\ next' = next + 1
        /\ IF list[best] \in excluded THEN FallThrough ELSE Return(list[best])
  BY DEF PickNextMove
<1>2. /\ list[best] \in Move /\ list[best] \in Remaining
      /\ list' \in Seq(Move) /\ next' \in 0..Len(list')
      /\ Distinct' /\ Remaining' = Remaining \ {list[best]}
  BY <1>1, PickFacts
<1>3. \/ list[best] \in excluded /\ given' = given /\ call' = "next" /\ ret' = ret
      \/ list[best] \notin excluded /\ given' = given \union ({list[best]} \ {NoMove})
          /\ call' = "caller" /\ ret' = list[best]
  BY <1>1 DEF FallThrough, Return
<1>4. TypeOK'
  BY <1>1, <1>2, <1>3 DEF TypeOK, MoveOrNone
<1>. QED BY <1>1, <1>2, <1>3, <1>4

(* The stages that consume a list: noisy moves, then quiet moves. *)
LEMMA ListStagesIInv ==
  ASSUME IInv, StageNoisy \/ StageQuiet
  PROVE  IInv'
<1>1. /\ TypeOK /\ KillersOk /\ PickerOk /\ StageInv
      /\ legal' = legal /\ killers' = killers /\ call = "next"
  BY DEF IInv, StageNoisy, StageQuiet, InStage
<1>2. KillersOk'
  BY <1>1 DEF KillersOk
<1>3. CASE StageNoisy /\ PickNextMove({mp.ttMove, NoMove})
  <2>1. mp.stage = "NOISY" /\ Distinct /\ Remaining \subseteq NoisyMoves
        /\ given = NoisyPart \ (Remaining \ TTPart)
    BY <1>1, <1>3 DEF StageInv, StageNoisy, InStage
  <2>2. /\ TypeOK' /\ Distinct' /\ mp' = mp
        /\ \E m \in Remaining \cap Move :
             /\ Remaining' = Remaining \ {m}
             /\ \/ m \in {mp.ttMove, NoMove} /\ given' = given /\ call' = "next"
                \/ m \notin {mp.ttMove, NoMove} /\ given' = given \union ({m} \ {NoMove})
                    /\ call' = "caller" /\ ret' = m
    BY <1>1, <1>3, <2>1, PickIInv
  <2>3. /\ TTPart' = TTPart /\ NoisyMoves' = NoisyMoves
        /\ NoisyPart' = NoisyPart /\ PickerOk'
    BY <1>1, <2>2 DEF TTPart, NoisyMoves, NoisyPart, PickerOk
  <2>4. Remaining' \subseteq NoisyMoves' /\ given' = NoisyPart' \ (Remaining' \ TTPart')
    BY <1>1, <2>1, <2>2, <2>3, MoveAssumption DEF TTPart, NoisyMoves, NoisyPart, TypeOK
  <2>5. StageInv'
    BY <2>1, <2>2, <2>4 DEF StageInv
  <2>. QED BY <1>2, <2>2, <2>3, <2>5 DEF IInv
<1>4. CASE StageNoisy /\ next = Len(list) /\ Advance("KILLER1")
           /\ FallThrough /\ UNCHANGED <<list, next>>
  <2>1. mp.stage = "NOISY" /\ given = NoisyPart \ (Remaining \ TTPart)
    BY <1>1, <1>4 DEF StageInv, StageNoisy, InStage
  <2>2. /\ mp' = [mp EXCEPT !.stage = "KILLER1"] /\ mp'.stage = "KILLER1"
        /\ mp'.ttMove = mp.ttMove /\ mp'.kill1 = mp.kill1 /\ mp'.kill2 = mp.kill2
        /\ mp'.onlyNoisy = mp.onlyNoisy /\ TypeOK'
    BY <1>1, <1>4 DEF Advance, FallThrough, TypeOK, Stages
  <2>3. Remaining = {} /\ PickerOk' /\ NoisyPart' = NoisyPart
    BY <1>1, <1>4, <2>2 DEF TypeOK, Remaining, PickerOk, NoisyPart, TTPart, NoisyMoves
  <2>4. StageInv'
    BY <1>4, <2>1, <2>2, <2>3 DEF StageInv, FallThrough
  <2>. QED BY <1>2, <2>2, <2>3, <2>4 DEF IInv
<1>5. CASE StageQuiet /\ PickNextMove({mp.ttMove, mp.kill1, mp.kill2})
  <2>. DEFINE skip == {mp.ttMove, mp.kill1, mp.kill2}
  <2>1. mp.stage = "QUIET" /\ ~mp.onlyNoisy
        /\ Distinct /\ Remaining \subseteq QuietMoves
        /\ given = legal \ (Remaining \ (TTPart \union KillerPart))
    BY <1>1, <1>5 DEF StageInv, StageQuiet, InStage
  <2>2. /\ TypeOK' /\ Distinct' /\ mp' = mp
        /\ \E m \in Remaining \cap Move :
             /\ Remaining' = Remaining \ {m}
             /\ \/ m \in skip /\ given' = given /\ call' = "next"
                \/ m \notin skip /\ given' = given \union ({m} \ {NoMove})
                    /\ call' = "caller" /\ ret' = m
    BY <1>1, <1>5, <2>1, PickIInv
  <2>3. /\ TTPart' = TTPart /\ KillerPart' = KillerPart /\ QuietMoves' = QuietMoves
        /\ PickerOk'
    BY <1>1, <2>2 DEF TTPart, KillerPart, QuietMoves, PickerOk
  <2>4. /\ Remaining' \subseteq QuietMoves'
        /\ given' = legal' \ (Remaining' \ (TTPart' \union KillerPart'))
    BY <1>1, <2>1, <2>2, <2>3, MoveAssumption DEF TTPart, KillerPart, QuietMoves, TypeOK
  <2>5. StageInv'
    BY <2>1, <2>2, <2>4 DEF StageInv
  <2>. QED BY <1>2, <2>2, <2>3, <2>5 DEF IInv
<1>6. CASE StageQuiet /\ next = Len(list) /\ Return(NoMove)
           /\ UNCHANGED <<mp, list, next>>
  <2>1. given' = given /\ Remaining' = Remaining /\ (Distinct <=> Distinct')
    BY <1>1, <1>6 DEF Return, Remaining, Distinct
  <2>2. TypeOK' /\ PickerOk'
    BY <1>1, <1>6, <2>1 DEF Return, TypeOK, PickerOk, MoveOrNone
  <2>3. StageInv'
    BY <1>1, <1>6, <2>1 DEF StageInv, StageQuiet, InStage, TTPart, NoisyPart,
       NoisyMoves, KillerPart, QuietMoves
  <2>. QED BY <1>2, <2>2, <2>3 DEF IInv
<1>. QED BY <1>3, <1>4, <1>5, <1>6 DEF StageNoisy, StageQuiet

(* The stages that fill the list. *)
LEMMA GenStagesIInv ==
  ASSUME IInv, StageGenNoisy \/ StageGenQuiet
  PROVE  IInv'
<1>1. /\ TypeOK /\ KillersOk /\ PickerOk /\ StageInv
      /\ legal' = legal /\ killers' = killers /\ call = "next" /\ next' = next
      /\ next = Len(list)
  BY DEF IInv, StageGenNoisy, StageGenQuiet, InStage, StageInv
<1>2. KillersOk'
  BY <1>1 DEF KillersOk
<1>3. CASE StageGenNoisy
  <2>1. PICK s \in Listings(NoisyMoves) : list' = list \o s
    BY <1>3 DEF StageGenNoisy
  <2>2. /\ list' \in Seq(Move) /\ next' \in 0..Len(list')
        /\ Distinct' /\ Remaining' = NoisyMoves
    BY <1>1, <2>1, AppendListing DEF NoisyMoves, TypeOK
  <2>3. /\ mp.stage = "GEN_NOISY" /\ mp'.stage = "NOISY"
        /\ mp'.ttMove = mp.ttMove /\ mp'.kill1 = mp.kill1 /\ mp'.kill2 = mp.kill2
        /\ mp'.onlyNoisy = mp.onlyNoisy
        /\ given' = given /\ call' = call /\ ret' = ret /\ given = TTPart
    BY <1>1, <1>3 DEF StageGenNoisy, InStage, Advance, FallThrough, TypeOK, StageInv
  <2>4. TypeOK'
    BY <1>1, <1>3, <2>2, <2>3 DEF StageGenNoisy, Advance, TypeOK, Stages
  <2>5. TTPart' = TTPart /\ NoisyMoves' = NoisyMoves /\ PickerOk'
    BY <1>1, <2>3 DEF TTPart, NoisyMoves, PickerOk
  <2>6. StageInv'
    BY <2>2, <2>3, <2>5 DEF StageInv, NoisyPart
  <2>. QED BY <1>2, <2>4, <2>5, <2>6 DEF IInv
<1>4. CASE StageGenQuiet /\ mp.onlyNoisy /\ Return(NoMove) /\ UNCHANGED <<mp, list>>
  <2>1. given' = given /\ Remaining' = Remaining /\ (Distinct <=> Distinct')
    BY <1>1, <1>4 DEF Return, Remaining, Distinct
  <2>2. TypeOK' /\ PickerOk'
    BY <1>1, <1>4, <2>1 DEF Return, TypeOK, PickerOk, MoveOrNone
  <2>3. StageInv'
    BY <1>1, <1>4, <2>1 DEF StageInv, TTPart, NoisyPart, NoisyMoves, KillerPart, QuietMoves
  <2>. QED BY <1>2, <2>2, <2>3 DEF IInv
<1>5. CASE StageGenQuiet /\ ~mp.onlyNoisy /\ Advance("QUIET") /\ FallThrough
           /\ \E s \in Listings(QuietMoves) : list' = list \o s
  <2>1. PICK s \in Listings(QuietMoves) : list' = list \o s
    BY <1>5
  <2>2. /\ list' \in Seq(Move) /\ next' \in 0..Len(list')
        /\ Distinct' /\ Remaining' = QuietMoves
    BY <1>1, <2>1, AppendListing DEF QuietMoves, TypeOK
  <2>3. /\ mp.stage = "GEN_QUIET" /\ mp'.stage = "QUIET"
        /\ mp'.ttMove = mp.ttMove /\ mp'.kill1 = mp.kill1 /\ mp'.kill2 = mp.kill2
        /\ mp'.onlyNoisy = mp.onlyNoisy
        /\ given' = given /\ call' = call /\ ret' = ret
        /\ given = NoisyPart \union KillerPart
    BY <1>1, <1>5 DEF StageGenQuiet, InStage, Advance, FallThrough, TypeOK, StageInv
  <2>4. TypeOK'
    BY <1>1, <1>5, <2>2, <2>3 DEF Advance, TypeOK, Stages
  <2>5. TTPart' = TTPart /\ KillerPart' = KillerPart /\ QuietMoves' = QuietMoves
        /\ PickerOk'
    BY <1>1, <2>3 DEF TTPart, KillerPart, QuietMoves, PickerOk
  <2>6. given' = legal' \ (Remaining' \ (TTPart' \union KillerPart'))
    BY <1>1, <2>2, <2>3, <2>5, MoveAssumption
       DEF PickerOk, TTPart, NoisyPart, NoisyMoves, KillerPart, QuietMoves
  <2>7. StageInv'
    BY <1>5, <2>2, <2>3, <2>5, <2>6 DEF StageInv
  <2>. QED BY <1>2, <2>4, <2>5, <2>7 DEF IInv
<1>. QED BY <1>3, <1>4, <1>5 DEF StageGenQuiet

(* The stages that return a move known without a list: the hash move and   *)
(* the killers.                                                            *)
LEMMA SingleStagesIInv ==
  ASSUME IInv, StageTTMove \/ StageKiller1 \/ StageKiller2
  PROVE  IInv'
<1>. DEFINE Told(m) == given' = given \union ({m} \ {NoMove}) /\ ret' = m
                      /\ call' = "caller"
<1>1. /\ TypeOK /\ KillersOk /\ PickerOk /\ StageInv
      /\ legal' = legal /\ killers' = killers /\ call = "next"
      /\ list' = list /\ next' = next /\ next = Len(list)
  BY DEF IInv, StageTTMove, StageKiller1, StageKiller2, InStage, StageInv
<1>2. KillersOk'
  BY <1>1 DEF KillersOk
<1>3. ASSUME NEW s \in Stages, Advance(s)
      PROVE  /\ mp'.stage = s /\ mp'.ttMove = mp.ttMove
             /\ mp'.kill1 = mp.kill1 /\ mp'.kill2 = mp.kill2
             /\ mp'.onlyNoisy = mp.onlyNoisy
             /\ mp' \in [ttMove : MoveOrNone, stage : Stages, kill1 : MoveOrNone,
                         kill2 : MoveOrNone, onlyNoisy : BOOLEAN]
             /\ PickerOk' /\ TTPart' = TTPart /\ NoisyPart' = NoisyPart
             /\ KillerPart' = KillerPart
  BY <1>1, <1>3 DEF Advance, TypeOK, PickerOk, TTPart, NoisyPart, NoisyMoves, KillerPart
<1>4. CASE StageTTMove
  <2>1. /\ mp.stage = "TTMOVE" /\ Advance("GEN_NOISY") /\ Told(mp.ttMove)
        /\ given = {} /\ mp.ttMove \in Move
    BY <1>1, <1>4 DEF StageTTMove, InStage, Return, StageInv, TypeOK, MoveOrNone
  <2>2. TypeOK'
    BY <1>1, <1>3, <2>1 DEF TypeOK, Stages, MoveOrNone
  <2>3. StageInv'
    BY <1>1, <1>3, <2>1 DEF StageInv, TTPart, Stages
  <2>. QED BY <1>2, <1>3, <2>1, <2>2, <2>3 DEF IInv, Stages
<1>5. CASE StageKiller1
  <2>1. /\ mp.stage = "KILLER1" /\ Advance("KILLER2") /\ given = NoisyPart
        /\ \/ mp.kill1 # mp.ttMove /\ mp.kill1 \in legal /\ Told(mp.kill1)
           \/ /\ mp.kill1 = mp.ttMove \/ mp.kill1 \notin legal
              /\ given' = given /\ ret' = ret /\ call' = call
    BY <1>1, <1>5 DEF StageKiller1, InStage, Killer, MoveIsPseudoLegal, Return,
       FallThrough, StageInv
  <2>2. given' = NoisyPart \union ({mp.kill1} \cap legal)
    BY <1>1, <2>1, MoveAssumption DEF NoisyPart, TTPart, PickerOk, TypeOK
  <2>3. TypeOK'
    BY <1>1, <1>3, <2>1 DEF TypeOK, Stages
  <2>4. StageInv'
    BY <1>1, <1>3, <2>1, <2>2 DEF StageInv, Stages
  <2>. QED BY <1>2, <1>3, <2>1, <2>3, <2>4 DEF IInv, Stages
<1>6. CASE StageKiller2
  <2>1. /\ mp.stage = "KILLER2" /\ Advance("GEN_QUIET")
        /\ given = NoisyPart \union ({mp.kill1} \cap legal)
        /\ \/ mp.kill2 # mp.ttMove /\ mp.kill2 \in legal /\ Told(mp.kill2)
           \/ /\ mp.kill2 = mp.ttMove \/ mp.kill2 \notin legal
              /\ given' = given /\ ret' = ret /\ call' = call
    BY <1>1, <1>6 DEF StageKiller2, InStage, Killer, MoveIsPseudoLegal, Return,
       FallThrough, StageInv
  <2>2. given' = NoisyPart \union KillerPart
    BY <1>1, <2>1, MoveAssumption DEF NoisyPart, TTPart, KillerPart, PickerOk, TypeOK
  <2>3. TypeOK'
    BY <1>1, <1>3, <2>1 DEF TypeOK, Stages
  <2>4. StageInv'
    BY <1>1, <1>3, <2>1, <2>2 DEF StageInv, Stages
  <2>. QED BY <1>2, <1>3, <2>1, <2>3, <2>4 DEF IInv, Stages
<1>. QED BY <1>4, <1>5, <1>6

LEMMA NextIInv == IInv /\ [Next]_vars => IInv'
<1>. SUFFICES ASSUME IInv, [Next]_vars PROVE IInv'
  OBVIOUS
<1>1. CASE BeginNormal \/ BeginNoisy
  BY <1>1, BeginIInv
<1>2. CASE CallNextMove \/ UNCHANGED vars
  BY <1>2 DEF CallNextMove, vars, IInv, TypeOK, KillersOk, PickerOk, StageInv, TTPart,
     NoisyPart, KillerPart, NoisyMoves, QuietMoves, Distinct, Remaining
<1>3. CASE NextMove
  BY <1>3, ListStagesIInv, GenStagesIInv, SingleStagesIInv DEF NextMove
<1>4. CASE LeaveNode \/ CutoffNode
  BY <1>4, EndIInv
<1>. QED BY <1>1, <1>2, <1>3, <1>4 DEF Next

(* IInv is an invariant of the picker, and with it the type invariant and  *)
(* the shape of the killers of a ply.                                      *)
THEOREM Invariance == Spec => []IInv
<1>1. Init => IInv
  BY InitIInv
<1>2. IInv /\ [Next]_vars => IInv'
  BY NextIInv
<1>. QED BY <1>1, <1>2, PTL DEF Spec

(* What a step that returns to the caller hands over: a move that was not  *)
(* given before and is owed, or NOMOVE when everything owed was given.     *)
LEMMA ReturnStep ==
  ASSUME IInv, Next, call = "next", call' = "caller"
  PROVE  /\ \/ ret' \in Owed /\ ret' \notin given /\ given' = given \union {ret'}
            \/ ret' = NoMove /\ given = Owed /\ given' = given
         /\ legal' = legal /\ mp'.onlyNoisy = mp.onlyNoisy
<1>0. /\ TypeOK /\ PickerOk /\ StageInv /\ NextMove
      /\ legal' = legal /\ mp'.onlyNoisy = mp.onlyNoisy
  <2>1. TypeOK /\ PickerOk /\ StageInv
    BY DEF IInv
  <2>2. NextMove
    BY DEF Next, BeginNormal, BeginNoisy, BeginNode, CallNextMove, LeaveNode, CutoffNode
  <2>3. legal' = legal
    BY <2>2 DEF NextMove, StageTTMove, StageGenNoisy, StageNoisy, StageKiller1,
       StageKiller2, StageGenQuiet, StageQuiet, InStage
  <2>4. ASSUME NEW s, Advance(s) PROVE mp'.onlyNoisy = mp.onlyNoisy
    BY <2>1, <2>4 DEF Advance, TypeOK
  <2>5. mp'.onlyNoisy = mp.onlyNoisy
    BY <2>2, <2>4 DEF NextMove, StageTTMove, StageGenNoisy, StageNoisy, StageKiller1,
       StageKiller2, StageGenQuiet, StageQuiet, PickNextMove
  <2>. QED BY <2>1, <2>2, <2>3, <2>5
<1>1. CASE StageTTMove
  BY <1>0, <1>1 DEF StageTTMove, InStage, Return, StageInv, PickerOk, Owed
<1>2. CASE StageGenNoisy
  BY <1>2 DEF StageGenNoisy, FallThrough
<1>3. CASE StageNoisy
  <2>1. Distinct /\ Remaining \subseteq NoisyMoves /\ mp.stage = "NOISY"
        /\ given = NoisyPart \ (Remaining \ TTPart)
    BY <1>0, <1>3 DEF StageNoisy, InStage, StageInv
  <2>2. PickNextMove({mp.ttMove, NoMove}) /\ killers' = killers
    BY <1>3 DEF StageNoisy, FallThrough, InStage
  <2>3. \E m \in Remaining \cap Move :
          /\ m \notin {mp.ttMove, NoMove} /\ given' = given \union ({m} \ {NoMove})
          /\ ret' = m
    BY <1>0, <2>1, <2>2, PickIInv
  <2>. QED BY <1>0, <2>1, <2>3 DEF NoisyPart, TTPart, Owed, NoisyMoves
<1>4. CASE StageKiller1
  <2>1. /\ given = NoisyPart /\ mp.kill1 # mp.ttMove /\ mp.kill1 \in legal
        /\ ret' = mp.kill1 /\ given' = given \union ({mp.kill1} \ {NoMove})
    BY <1>0, <1>4 DEF StageKiller1, InStage, StageInv, Killer, Return, FallThrough,
       MoveIsPseudoLegal
  <2>. QED BY <1>0, <2>1, MoveAssumption
           DEF NoisyPart, TTPart, NoisyMoves, Owed, PickerOk, TypeOK
<1>5. CASE StageKiller2
  <2>1. /\ given = NoisyPart \union ({mp.kill1} \cap legal)
        /\ mp.kill2 # mp.ttMove /\ mp.kill2 \in legal
        /\ ret' = mp.kill2 /\ given' = given \union ({mp.kill2} \ {NoMove})
    BY <1>0, <1>5 DEF StageKiller2, InStage, StageInv, Killer, Return, FallThrough,
       MoveIsPseudoLegal
  <2>. QED BY <1>0, <2>1, MoveAssumption
           DEF NoisyPart, TTPart, NoisyMoves, Owed, PickerOk, TypeOK
<1>6. CASE StageGenQuiet
  <2>1. /\ given = NoisyPart \union KillerPart /\ mp.onlyNoisy
        /\ ret' = NoMove /\ given' = given
    BY <1>0, <1>6 DEF StageGenQuiet, InStage, StageInv, Return, FallThrough
  <2>. QED BY <1>0, <2>1, MoveAssumption
           DEF NoisyPart, KillerPart, TTPart, Owed, PickerOk, TypeOK
<1>7. CASE StageQuiet
  <2>1. /\ Distinct /\ Remaining \subseteq QuietMoves /\ mp.stage = "QUIET"
        /\ ~mp.onlyNoisy /\ given = legal \ (Remaining \ (TTPart \union KillerPart))
    BY <1>0, <1>7 DEF StageQuiet, InStage, StageInv
  <2>2. CASE PickNextMove({mp.ttMove, mp.kill1, mp.kill2})
    <3>1. \E m \in Remaining \cap Move :
            /\ m \notin {mp.ttMove, mp.kill1, mp.kill2}
            /\ given' = given \union ({m} \ {NoMove}) /\ ret' = m
      BY <1>0, <1>7, <2>1, <2>2, PickIInv DEF StageQuiet, InStage
    <3>. QED BY <1>0, <2>1, <3>1, MoveAssumption
             DEF KillerPart, TTPart, Owed, QuietMoves
  <2>3. CASE next = Len(list) /\ Return(NoMove)
    <3>1. Remaining = {}
      BY <1>0, <2>3 DEF Remaining, TypeOK
    <3>. QED BY <1>0, <2>1, <2>3, <3>1 DEF Return, Owed
  <2>. QED BY <1>7, <2>2, <2>3 DEF StageQuiet
<1>. QED BY <1>0, <1>1, <1>2, <1>3, <1>4, <1>5, <1>6, <1>7 DEF NextMove

(* No move is returned twice at a node and NOMOVE means that nothing is    *)
(* missing, for every position, hash move and pair of killers.             *)
THEOREM EachMoveOnce == Spec => NeverTwice /\ NothingMissed
<1>1. IInv /\ [Next]_vars =>
        [call = "next" /\ call' = "caller" /\ ret' # NoMove => ret' \notin given]_vars
  BY ReturnStep, MoveAssumption DEF IInv, TypeOK, Owed
<1>2. IInv /\ [Next]_vars =>
        [call = "next" /\ call' = "caller" /\ ret' = NoMove => given = Owed]_vars
  <2>. SUFFICES ASSUME IInv, Next, call = "next", call' = "caller", ret' = NoMove
                PROVE  given = Owed
    OBVIOUS
  <2>1. NoMove \notin Owed
    BY MoveAssumption DEF IInv, TypeOK, Owed, NoisyMoves
  <2>. QED BY <2>1, ReturnStep
<1>. QED BY <1>1, <1>2, Invariance, PTL DEF Spec, NeverTwice, NothingMissed

(* The steps inside NextMove that do not return change nothing the caller  *)
(* can see.                                                                *)
LEMMA InnerStep ==
  ASSUME IInv, NextMove, call' # "caller"
  PROVE  UNCHANGED <<Owed \ given, ret, call>>
<1>1. mp \in [ttMove : MoveOrNone, stage : Stages, kill1 : MoveOrNone,
             kill2 : MoveOrNone, onlyNoisy : BOOLEAN]
  BY DEF IInv, TypeOK
<1>2. ASSUME NEW s, Advance(s) PROVE mp'.onlyNoisy = mp.onlyNoisy
  BY <1>1, <1>2 DEF Advance
<1>3. legal' = legal /\ ret' = ret /\ given' = given /\ call' = call
  BY DEF NextMove, StageTTMove, StageGenNoisy, StageNoisy, StageKiller1, StageKiller2,
     StageGenQuiet, StageQuiet, PickNextMove, InStage, Killer, Return, FallThrough
<1>4. mp'.onlyNoisy = mp.onlyNoisy
  BY <1>2 DEF NextMove, StageTTMove, StageGenNoisy, StageNoisy, StageKiller1,
     StageKiller2, StageGenQuiet, StageQuiet, PickNextMove
<1>. QED BY <1>3, <1>4 DEF Owed, NoisyMoves

LEMMA StepRefines == IInv /\ IInv' /\ [Next]_vars => [Source!Next]_(Source!srcVars)
<1>. SUFFICES ASSUME IInv, IInv', [Next]_vars
              PROVE  [Source!Next]_(Source!srcVars)
  OBVIOUS
<1>1. CASE BeginNormal \/ BeginNoisy
  <2>1. Owed' \ given' \subseteq Move
    BY DEF IInv, TypeOK, Owed, NoisyMoves
  <2>2. Source!Open
    BY <1>1, <2>1 DEF BeginNormal, BeginNoisy, BeginNode, Source!Open
  <2>. QED BY <2>2 DEF Source!Next
<1>2. CASE CallNextMove \/ UNCHANGED vars
  BY <1>2 DEF CallNextMove, vars, Source!srcVars, Owed, NoisyMoves
<1>3. CASE NextMove /\ call' = "caller"
  <2>1. call = "next"
    BY <1>3 DEF NextMove, StageTTMove, StageGenNoisy, StageNoisy, StageKiller1,
       StageKiller2, StageGenQuiet, StageQuiet, InStage
  <2>2. /\ \/ ret' \in Owed /\ ret' \notin given /\ given' = given \union {ret'}
           \/ ret' = NoMove /\ given = Owed /\ given' = given
        /\ legal' = legal /\ mp'.onlyNoisy = mp.onlyNoisy
    BY <1>3, <2>1, ReturnStep DEF Next
  <2>3. Owed' = Owed
    BY <2>2 DEF Owed, NoisyMoves
  <2>4. Source!Hand \/ Source!Exhausted
    BY <1>3, <2>1, <2>2, <2>3 DEF Source!Hand, Source!Exhausted
  <2>. QED BY <2>4 DEF Source!Next
<1>4. CASE NextMove /\ call' # "caller"
  BY <1>4, InnerStep DEF Source!srcVars
<1>5. CASE LeaveNode \/ CutoffNode
  <2>1. Source!Close
    BY <1>5 DEF LeaveNode, CutoffNode, Source!Close, Owed, NoisyMoves
  <2>. QED BY <2>1 DEF Source!Next
<1>. QED BY <1>1, <1>2, <1>3, <1>4, <1>5 DEF Next

(* The picker implements the abstract source of moves: what it still owes  *)
(* shrinks by exactly the move it hands out, and it stops when nothing is  *)
(* owed.                                                                   *)
THEOREM Implements == Spec => Refines
<1>1. Init => Source!Init
  BY DEF Init, Source!Init, Owed, NoisyMoves
<1>2. IInv /\ IInv' /\ [Next]_vars => [Source!Next]_(Source!srcVars)
  BY StepRefines
<1>. QED BY <1>1, <1>2, Invariance, PTL DEF Spec, Refines, Source!Spec

-----------------------------------------------------------------------------
(* The game history.                                                       *)

(* The history kept below the root is no longer than its counter, which    *)
(* fits a byte; a thread has added one entry for each ply.                 *)
BoundInv ==
  /\ HistoryTypeOK
  /\ engine.ply = 0 /\ engine.histPly <= engine.rule50
  /\ searching => /\ thread.histPly = engine.histPly + thread.ply
                  /\ thread.ply <= MAXDEPTH

-----------------------------------------------------------------------------
LEMMA ModBounds ==
  ASSUME NEW n \in Count
  PROVE  /\ (n + 1) % CounterMod \in Count
         /\ n + 1 < CounterMod => (n + 1) % CounterMod = n + 1
         /\ n + 1 = CounterMod => (n + 1) % CounterMod = 0
  BY HistoryAssumption DEF Count

LEMMA PushIsPosition ==
  ASSUME NEW p, IsPosition(p), NEW key \in Key, NEW rule50 \in Count,
         NEW null \in BOOLEAN
  PROVE  IsPosition(Push(p, key, rule50, null))
<1> DEFINE e == [posKey |-> p.key, rule50 |-> p.rule50, null |-> null]
<1>1. e \in Entry
  BY DEF IsPosition, Position, Entry
<1> HIDE DEF e
<1>2. Append(p.gameHistory, e) \in Seq(Entry)
      /\ Len(Append(p.gameHistory, e)) = p.histPly + 1
  BY <1>1 DEF IsPosition, Position
<1>3. p.histPly + 1 \in Nat /\ p.ply + 1 \in Nat
  BY DEF IsPosition, Position
<1> QED
  BY <1>2, <1>3 DEF IsPosition, Position, Push, e

LEMMA MakeMoveIsPosition ==
  ASSUME NEW p, IsPosition(p), NEW board \in Board, NEW zeroing \in BOOLEAN
  PROVE  IsPosition(MakeMove(p, board, zeroing))
<1>1. NextKey(p, board) \in Key
  BY DEF IsPosition, Position, NextKey, Key
<1>2. (IF zeroing THEN 0 ELSE (p.rule50 + 1) % CounterMod) \in Count
  <2>1. p.rule50 \in Count
    BY DEF IsPosition, Position
  <2>2. 0 \in Count
    BY HistoryAssumption DEF Count
  <2> QED
    BY <2>1, <2>2, ModBounds
<1> QED
  BY <1>1, <1>2, PushIsPosition DEF MakeMove

LEMMA NullMoveIsPosition ==
  ASSUME NEW p, IsPosition(p)
  PROVE  IsPosition(MakeNullMove(p))
<1>1. NextKey(p, p.key.board) \in Key /\ 0 \in Count
  BY HistoryAssumption DEF IsPosition, Position, NextKey, Key, Count
<1> QED
  BY <1>1, PushIsPosition DEF MakeNullMove

LEMMA TakeMoveIsPosition ==
  ASSUME NEW p, IsPosition(p), p.ply > 0, p.histPly > 0
  PROVE  IsPosition(TakeMove(p))
<1>1. p.gameHistory[p.histPly] \in Entry
  BY DEF IsPosition, Position
<1>2. history(p, 1) = p.gameHistory[p.histPly]
  BY DEF IsPosition, Position, history
<1>3. SubSeq(p.gameHistory, 1, p.histPly - 1) \in Seq(Entry)
      /\ Len(SubSeq(p.gameHistory, 1, p.histPly - 1)) = p.histPly - 1
  BY SubSeqProperties DEF IsPosition, Position
<1> QED
  BY <1>1, <1>2, <1>3 DEF IsPosition, Position, TakeMove, Entry

LEMMA ParseFenIsPosition ==
  ASSUME NEW board \in Board, NEW clock \in StartClocks
  PROVE  IsPosition(ParseFen(board, clock))
  BY HistoryAssumption
  DEF IsPosition, Position, ParseFen, StartKey, Key, Count

LEMMA ResetIsPosition ==
  ASSUME NEW p, IsPosition(p)
  PROVE  IsPosition(ResetHistPly(p))
<1>1. <<>> \in Seq(Entry) /\ Len(<<>>) = 0
  OBVIOUS
<1> QED
  BY <1>1 DEF IsPosition, Position, ResetHistPly

-----------------------------------------------------------------------------
LEMMA BoundInit == HistoryInit => BoundInv
<1> SUFFICES ASSUME HistoryInit PROVE BoundInv
  OBVIOUS
<1>1. PICK board \in Board, clock \in StartClocks : engine = ParseFen(board, clock)
  BY DEF HistoryInit, SetUp
<1>2. engine.histPly = 0 /\ engine.ply = 0 /\ engine.rule50 = clock
  BY <1>1 DEF ParseFen
<1>3. IsPosition(engine) /\ clock \in Count
  BY <1>1, ParseFenIsPosition, HistoryAssumption DEF Count
<1>4. engine.histPly <= engine.rule50
  BY <1>2, <1>3, HistoryAssumption DEF Count
<1> QED
  BY <1>2, <1>3, <1>4 DEF HistoryInit, BoundInv, HistoryTypeOK

LEMMA BoundStep == BoundInv /\ [HistoryNext]_historyVars => BoundInv'
<1> SUFFICES ASSUME BoundInv, [HistoryNext]_historyVars PROVE BoundInv'
  OBVIOUS
<1>0. /\ IsPosition(engine)
      /\ searching => IsPosition(thread)
      /\ engine.rule50 \in Count /\ engine.histPly \in Nat /\ engine.ply = 0
  BY DEF BoundInv, HistoryTypeOK, IsPosition, Position
<1>1. CASE \E board \in Board, clock \in StartClocks : UCIPosition(board, clock)
  <2>1. PICK board \in Board, clock \in StartClocks : UCIPosition(board, clock)
    BY <1>1
  <2>2. engine'.histPly = 0 /\ engine'.ply = 0 /\ engine'.rule50 = clock
    BY <2>1 DEF UCIPosition, ParseFen
  <2>3. IsPosition(engine')
    BY <2>1, ParseFenIsPosition DEF UCIPosition
  <2> QED
    BY <2>1, <2>2, <2>3, HistoryAssumption DEF UCIPosition, BoundInv, HistoryTypeOK
<1>2. CASE PrepareSearch
  <2>1. thread'.ply = 0 /\ thread'.histPly = engine'.histPly + 0
    BY <1>0, <1>2 DEF PrepareSearch
  <2> QED
    BY <1>0, <1>2, <2>1, HistoryAssumption DEF PrepareSearch, BoundInv, HistoryTypeOK
<1>3. ASSUME NEW board \in Board, NEW zeroing \in BOOLEAN, UCIMove(board, zeroing)
      PROVE  BoundInv'
  <2> DEFINE made == MakeMove(engine, board, zeroing)
  <2>1. IsPosition(made)
    BY <1>0, MakeMoveIsPosition
  <2>2. engine' = ResetHistPly(made) /\ IsPosition(engine')
    BY <1>3, <2>1, ResetIsPosition DEF UCIMove
  <2>3. made.histPly = engine.histPly + 1
        /\ (made.rule50 = 0 \/ made.rule50 = engine.rule50 + 1)
    <3>1. made.histPly = engine.histPly + 1
          /\ made.rule50 = IF zeroing THEN 0 ELSE (engine.rule50 + 1) % CounterMod
      BY DEF MakeMove, Push
    <3> HIDE DEF made
    <3>2. CASE zeroing
      BY <3>1, <3>2
    <3>3. CASE ~zeroing
      <4> DEFINE next50 == (engine.rule50 + 1) % CounterMod
      <4>1. /\ engine.rule50 + 1 < CounterMod => next50 = engine.rule50 + 1
            /\ engine.rule50 + 1 = CounterMod => next50 = 0
        BY <1>0, ModBounds
      <4>2. made.rule50 = next50
        BY <3>1, <3>3
      <4> HIDE DEF next50
      <4>3. engine.rule50 + 1 <= CounterMod /\ engine.rule50 \in Nat /\ CounterMod \in Nat
        BY <1>0, HistoryAssumption DEF Count
      <4> QED
        BY <3>1, <4>1, <4>2, <4>3
    <3> QED
      BY <3>2, <3>3
  <2>4. engine'.ply = 0 /\ engine'.histPly <= engine'.rule50
    <3> HIDE DEF made
    <3>1. CASE made.rule50 = 0
      BY <2>1, <2>2, <3>1 DEF ResetHistPly, IsPosition, Position
    <3>2. CASE made.rule50 # 0
      <4>1. engine' = [made EXCEPT !.ply = 0]
        BY <2>2, <3>2 DEF ResetHistPly
      <4>2. engine'.ply = 0 /\ engine'.histPly = made.histPly
            /\ engine'.rule50 = made.rule50
        BY <2>1, <4>1 DEF IsPosition, Position
      <4>3. engine.histPly <= engine.rule50
        BY DEF BoundInv
      <4> QED
        BY <1>0, <2>3, <3>2, <4>2, <4>3 DEF Count
    <3> QED
      BY <3>1, <3>2
  <2> QED
    BY <1>3, <2>2, <2>4 DEF UCIMove, BoundInv, HistoryTypeOK
<1>4. ASSUME NEW board \in Board, NEW zeroing \in BOOLEAN, SearchMove(board, zeroing)
      PROVE  BoundInv'
  <2>1. searching /\ thread.ply < MAXDEPTH /\ IsPosition(thread)
    BY <1>0, <1>4 DEF SearchMove, Expands
  <2>2. IsPosition(thread')
    BY <1>4, <2>1, MakeMoveIsPosition DEF SearchMove
  <2>3. thread'.histPly = thread.histPly + 1 /\ thread'.ply = thread.ply + 1
    BY <1>4 DEF SearchMove, MakeMove, Push
  <2>4. thread.histPly = engine.histPly + thread.ply /\ thread.ply \in Nat
        /\ thread.histPly \in Nat
    BY <2>1 DEF BoundInv, IsPosition, Position
  <2>5. thread'.histPly = engine.histPly + thread'.ply /\ thread'.ply <= MAXDEPTH
    BY <1>0, <2>1, <2>3, <2>4, HistoryAssumption
  <2> QED
    BY <1>4, <2>1, <2>2, <2>5 DEF SearchMove, BoundInv, HistoryTypeOK
<1>5. CASE NullMove
  <2>1. searching /\ thread.ply < MAXDEPTH /\ IsPosition(thread)
    BY <1>0, <1>5 DEF NullMove, Expands
  <2>2. IsPosition(thread')
    BY <1>5, <2>1, NullMoveIsPosition DEF NullMove
  <2>3. thread'.histPly = thread.histPly + 1 /\ thread'.ply = thread.ply + 1
    BY <1>5 DEF NullMove, MakeNullMove, Push
  <2>4. thread.histPly = engine.histPly + thread.ply /\ thread.ply \in Nat
        /\ thread.histPly \in Nat
    BY <2>1 DEF BoundInv, IsPosition, Position
  <2>5. thread'.histPly = engine.histPly + thread'.ply /\ thread'.ply <= MAXDEPTH
    BY <1>0, <2>1, <2>3, <2>4, HistoryAssumption
  <2> QED
    BY <1>5, <2>1, <2>2, <2>5 DEF NullMove, BoundInv, HistoryTypeOK
<1>6. CASE TakeBack
  <2>1. searching /\ thread.ply > 0 /\ IsPosition(thread)
    BY <1>0, <1>6 DEF TakeBack
  <2>2. /\ thread.histPly = engine.histPly + thread.ply
        /\ thread.ply \in Nat /\ thread.histPly \in Nat /\ thread.ply <= MAXDEPTH
    BY <2>1 DEF BoundInv, IsPosition, Position
  <2>3. thread.histPly > 0
    BY <1>0, <2>1, <2>2
  <2>4. IsPosition(thread')
    BY <1>6, <2>1, <2>3, TakeMoveIsPosition DEF TakeBack
  <2>5. thread'.histPly = thread.histPly - 1 /\ thread'.ply = thread.ply - 1
    BY <1>6 DEF TakeBack, TakeMove
  <2>6. thread'.histPly = engine.histPly + thread'.ply /\ thread'.ply <= MAXDEPTH
    BY <1>0, <2>2, <2>5, HistoryAssumption
  <2> QED
    BY <1>6, <2>1, <2>4, <2>6 DEF TakeBack, BoundInv, HistoryTypeOK
<1>7. CASE EndSearch
  BY <1>7 DEF EndSearch, BoundInv, HistoryTypeOK
<1>8. CASE UNCHANGED historyVars
  BY <1>8 DEF historyVars, BoundInv, HistoryTypeOK
<1> QED
  BY <1>1, <1>2, <1>3, <1>4, <1>5, <1>6, <1>7, <1>8 DEF HistoryNext

(* However long the game and deep the search, the history is well formed   *)
(* and the next move writes inside gameHistory: a game keeps no more than  *)
(* its byte can count, and a search adds at most MAXDEPTH.                 *)
THEOREM InsideArray == HistorySpec => [](HistoryTypeOK /\ IndexInRange)
<1>1. BoundInv => HistoryTypeOK /\ IndexInRange
  <2> SUFFICES ASSUME BoundInv PROVE HistoryTypeOK /\ IndexInRange
    OBVIOUS
  <2>1. /\ engine.rule50 \in Count /\ engine.histPly \in Nat
        /\ engine.histPly <= engine.rule50 /\ engine.ply = 0
    BY DEF BoundInv, HistoryTypeOK, IsPosition, Position
  <2>2. engine.histPly < MAXGAMEMOVES
    BY <2>1, HistoryAssumption DEF Count
  <2>3. searching => /\ thread.histPly = engine.histPly + thread.ply
                     /\ thread.ply \in Nat /\ thread.ply <= MAXDEPTH
    BY DEF BoundInv, HistoryTypeOK, IsPosition, Position
  <2>4. searching => thread.histPly < MAXGAMEMOVES /\ thread.ply <= thread.histPly
    BY <2>1, <2>3, HistoryAssumption DEF Count
  <2> QED
    BY <2>1, <2>2, <2>3, <2>4 DEF IndexInRange, BoundInv
<1> QED
  BY <1>1, BoundInit, BoundStep, PTL DEF HistorySpec

-----------------------------------------------------------------------------
(* A line: positions, each with the true count of moves.                   *)
Line == Seq([key : Key, clock : Nat])

(* How many positions of the line lie before the kept history.             *)
Forgotten(p, l) == Len(l) - p.histPly - 1

(* The position and its history are the end of the line; and what is       *)
(* forgotten is too far back to be reached from a node of the search.      *)
Agrees(p, l) ==
  /\ l \in Line /\ Forgotten(p, l) >= 0 /\ p.ply <= p.histPly
  /\ p.key = l[Len(l)].key
  /\ l[Len(l)].clock < CounterMod => p.rule50 = l[Len(l)].clock
  /\ \A j \in 1..p.histPly :
       LET x == l[Forgotten(p, l) + j] IN
       /\ p.gameHistory[j].posKey = x.key
       /\ x.clock < CounterMod => p.gameHistory[j].rule50 = x.clock
  /\ \A m \in (Len(l) - p.ply)..Len(l) :
       l[m].clock < CounterMod =>
         Forgotten(p, l) = 0 \/ m - l[m].clock > Forgotten(p, l)

DrawInv ==
  /\ BoundInv
  /\ Agrees(engine, game)
  /\ searching => Agrees(thread, line)

-----------------------------------------------------------------------------
(* A position after which the line is longer by one.                       *)
LEMMA PushAgrees ==
  ASSUME NEW p, IsPosition(p), NEW l, Agrees(p, l),
         NEW key \in Key, NEW rule50 \in Count, NEW null \in BOOLEAN,
         NEW x \in [key : Key, clock : Nat], x.key = key,
         \/ x.clock = 0 /\ rule50 = 0
         \/ /\ x.clock = l[Len(l)].clock + 1
            /\ x.clock < CounterMod => rule50 = p.rule50 + 1
  PROVE  Agrees(Push(p, key, rule50, null), Append(l, x))
<1> DEFINE e == [posKey |-> p.key, rule50 |-> p.rule50, null |-> null]
           q == Push(p, key, rule50, null)
           k == Append(l, x)
           n == Len(l)
           f == Forgotten(p, l)
<1>1. /\ p.histPly \in Nat /\ p.ply \in Nat /\ p.gameHistory \in Seq(Entry)
      /\ Len(p.gameHistory) = p.histPly /\ p.key \in Key /\ p.rule50 \in Count
  BY DEF IsPosition, Position
<1>2. /\ l \in Line /\ n \in Nat /\ f \in Int /\ f >= 0 /\ n = f + p.histPly + 1
      /\ n >= 1 /\ l[n].clock \in Nat
  <2>1. l \in Line /\ f >= 0 /\ n \in Nat
    BY DEF Agrees, Line
  <2>2. n = f + p.histPly + 1 /\ f \in Int
    BY <1>1, <2>1 DEF Forgotten
  <2>3. n >= 1
    BY <1>1, <2>1, <2>2
  <2>4. l[n] \in [key : Key, clock : Nat]
    <3>1. n \in 1..Len(l) /\ l \in Seq([key : Key, clock : Nat])
      BY <2>1, <2>3 DEF Line
    <3> HIDE DEF n
    <3> QED
      BY <3>1, ElementOfSeq
  <2> QED
    BY <2>1, <2>2, <2>3, <2>4
<1>3. /\ q.key = key /\ q.rule50 = rule50 /\ q.histPly = p.histPly + 1
      /\ q.ply = p.ply + 1 /\ q.gameHistory = Append(p.gameHistory, e)
  BY DEF Push
<1>4. e \in Entry /\ e.posKey = p.key /\ e.rule50 = p.rule50
  BY <1>1 DEF Entry
<1>5. /\ \A j \in 1..p.histPly : q.gameHistory[j] = p.gameHistory[j]
      /\ q.gameHistory[p.histPly + 1] = e
  <2> HIDE DEF e, q
  <2> QED
    BY <1>1, <1>3, <1>4
<1>6. /\ k \in Line /\ Len(k) = n + 1 /\ k[n + 1] = x
      /\ \A j \in 1..n : k[j] = l[j]
  BY <1>2 DEF Line
<1> HIDE DEF e, q, k, n
<1>7. Forgotten(q, k) = f
  <2>1. Forgotten(q, k) = Len(k) - q.histPly - 1
    BY DEF Forgotten
  <2> HIDE DEF f
  <2> QED
    BY <1>1, <1>2, <1>3, <1>6, <2>1
<1> HIDE DEF f
<1>8. p.key = l[n].key /\ (l[n].clock < CounterMod => p.rule50 = l[n].clock)
  BY DEF Agrees, n
<1>9. ASSUME NEW j \in 1..q.histPly
      PROVE  /\ q.gameHistory[j].posKey = k[f + j].key
             /\ k[f + j].clock < CounterMod => q.gameHistory[j].rule50 = k[f + j].clock
  <2>1. CASE j = p.histPly + 1
    <3>1. f + j = n
      BY <1>1, <1>2, <2>1
    <3>2. k[n] = l[n]
      <4>1. n \in 1..n
        BY <1>2
      <4> QED
        BY <1>6, <4>1
    <3> QED
      BY <1>4, <1>5, <1>8, <2>1, <3>1, <3>2
  <2>2. CASE j \in 1..p.histPly
    <3>1. f + j \in 1..n /\ k[f + j] = l[f + j]
      BY <1>1, <1>2, <1>6, <2>2
    <3>2. /\ p.gameHistory[j].posKey = l[f + j].key
          /\ l[f + j].clock < CounterMod => p.gameHistory[j].rule50 = l[f + j].clock
      BY <2>2 DEF Agrees, f
    <3> QED
      BY <1>5, <2>2, <3>1, <3>2
  <2> QED
    BY <1>1, <1>3, <2>1, <2>2
<1>10. x.clock < CounterMod => rule50 = x.clock
  <2>1. CASE x.clock = 0 /\ rule50 = 0
    BY <2>1
  <2>2. CASE x.clock = l[n].clock + 1 /\ (x.clock < CounterMod => rule50 = p.rule50 + 1)
    BY <1>2, <1>8, <2>2, HistoryAssumption
  <2> QED
    BY <2>1, <2>2 DEF n
<1>11. ASSUME NEW m \in (n + 1 - q.ply)..(n + 1), k[m].clock < CounterMod
       PROVE  f = 0 \/ m - k[m].clock > f
  <2>0. \A i \in (n - p.ply)..n :
          l[i].clock < CounterMod => f = 0 \/ i - l[i].clock > f
    BY DEF Agrees, n, f
  <2>1. CASE m = n + 1
    <3>1. k[m] = x
      BY <1>6, <2>1
    <3>2. CASE x.clock = 0
      BY <1>1, <1>2, <2>1, <3>1, <3>2
    <3>3. CASE x.clock = l[n].clock + 1
      <4>1. n \in (n - p.ply)..n
        BY <1>1, <1>2
      <4>2. l[n].clock < CounterMod
        BY <1>2, <1>11, <3>1, <3>3, HistoryAssumption
      <4>3. f = 0 \/ n - l[n].clock > f
        BY <2>0, <4>1, <4>2
      <4> QED
        BY <1>2, <2>1, <3>1, <3>3, <4>3
    <3> QED
      BY <3>2, <3>3 DEF n
  <2>2. CASE m # n + 1
    <3>1. p.ply <= p.histPly
      BY DEF Agrees
    <3>2. m \in (n - p.ply)..n /\ m \in 1..n
      <4>1. n \in Int /\ n >= p.histPly + 1 /\ q.ply = p.ply + 1
        BY <1>1, <1>2, <1>3
      <4>2. m \in Int /\ n + 1 - q.ply <= m /\ m <= n
        BY <1>1, <2>2, <4>1
      <4> QED
        BY <1>1, <3>1, <4>1, <4>2
    <3>3. k[m] = l[m]
      BY <1>6, <3>2
    <3> QED
      BY <1>11, <2>0, <3>2, <3>3
  <2> QED
    BY <2>1, <2>2
<1>12. q.ply <= q.histPly
  <2>1. p.ply <= p.histPly
    BY DEF Agrees
  <2> QED
    BY <1>1, <1>3, <2>1
<1>13. Agrees(q, k)
  <2>1. q.key = k[Len(k)].key /\ (k[Len(k)].clock < CounterMod => q.rule50 = k[Len(k)].clock)
    BY <1>3, <1>6, <1>10
  <2>2. \A m \in (Len(k) - q.ply)..Len(k) :
          k[m].clock < CounterMod => f = 0 \/ m - k[m].clock > f
    <3> SUFFICES ASSUME NEW m \in (Len(k) - q.ply)..Len(k), k[m].clock < CounterMod
                 PROVE  f = 0 \/ m - k[m].clock > f
      OBVIOUS
    <3>1. Len(k) = n + 1
      BY <1>6
    <3>2. m \in (n + 1 - q.ply)..(n + 1)
      BY <1>1, <1>2, <1>3, <3>1
    <3> QED
      BY <1>11, <3>2
  <2> QED
    BY <1>2, <1>6, <1>7, <1>9, <1>12, <2>1, <2>2 DEF Agrees
<1> QED
  BY <1>13 DEF q, k

(* Taking back drops the last position of the line.                        *)
LEMMA TakeAgrees ==
  ASSUME NEW p, IsPosition(p), NEW l, Agrees(p, l), p.ply > 0
  PROVE  Agrees(TakeMove(p), SubSeq(l, 1, Len(l) - 1))
<1> DEFINE q == TakeMove(p)
           k == SubSeq(l, 1, Len(l) - 1)
           n == Len(l)
           f == Forgotten(p, l)
<1>1. /\ p.histPly \in Nat /\ p.ply \in Nat /\ p.gameHistory \in Seq(Entry)
      /\ Len(p.gameHistory) = p.histPly /\ p.ply <= p.histPly /\ p.histPly >= 1
  BY DEF IsPosition, Position, Agrees
<1>2. l \in Line /\ n \in Nat /\ f \in Nat /\ n = f + p.histPly + 1
  <2>1. l \in Line /\ f >= 0 /\ n \in Nat
    BY DEF Agrees, Line
  <2>2. n = f + p.histPly + 1 /\ f \in Int
    BY <1>1, <2>1 DEF Forgotten
  <2> QED
    BY <2>1, <2>2
<1>3. history(p, 1) = p.gameHistory[p.histPly]
  BY <1>1 DEF history
<1>4. /\ q.key = p.gameHistory[p.histPly].posKey
      /\ q.rule50 = p.gameHistory[p.histPly].rule50
      /\ q.histPly = p.histPly - 1 /\ q.ply = p.ply - 1
      /\ q.gameHistory = SubSeq(p.gameHistory, 1, p.histPly - 1)
  BY <1>3 DEF TakeMove
<1>5. \A j \in 1..q.histPly : q.gameHistory[j] = p.gameHistory[j]
  <2> HIDE DEF q
  <2> QED
    BY <1>1, <1>4, SubSeqProperties
<1>6. /\ k \in Line /\ Len(k) = n - 1
      /\ \A j \in 1..(n - 1) : k[j] = l[j]
  <2>1. n - 1 \in Nat /\ n - 1 <= n /\ n - 1 + 1 - 1 = n - 1
    BY <1>1, <1>2
  <2>2. l \in Seq([key : Key, clock : Nat]) /\ Len(l) = n
    BY <1>2 DEF Line
  <2>3. k = SubSeq(l, 1, n - 1)
    OBVIOUS
  <2> HIDE DEF k, n
  <2>4. \A i \in 1..(n - 1) : l[i] \in [key : Key, clock : Nat]
    <3> TAKE i \in 1..(n - 1)
    <3>1. i \in 1..Len(l)
      BY <2>1, <2>2
    <3> QED
      BY <2>2, <3>1, ElementOfSeq
  <2>5. k \in Line
    BY <2>1, <2>3, <2>4, SubSeqProperties DEF Line
  <2>6. Len(k) = n - 1 /\ \A i \in 1..(n - 1) : k[i] = l[i]
    <3>1. /\ Len(SubSeq(l, 1, n - 1)) = IF 1 <= n - 1 THEN n - 1 - 1 + 1 ELSE 0
          /\ \A i \in 1..(n - 1 - 1 + 1) : SubSeq(l, 1, n - 1)[i] = l[1 + i - 1]
      BY <2>1, <2>4, SubSeqProperties
    <3> QED
      BY <2>1, <2>3, <3>1
  <2> QED
    BY <2>5, <2>6
<1> HIDE DEF q, k, n
<1>7. Forgotten(q, k) = f
  <2>1. Forgotten(q, k) = Len(k) - q.histPly - 1
    BY DEF Forgotten
  <2> HIDE DEF f
  <2> QED
    BY <1>1, <1>2, <1>4, <1>6, <2>1
<1> HIDE DEF f
<1>8. \A j \in 1..p.histPly :
        /\ p.gameHistory[j].posKey = l[f + j].key
        /\ l[f + j].clock < CounterMod => p.gameHistory[j].rule50 = l[f + j].clock
  BY DEF Agrees, f
<1>9. q.key = k[n - 1].key /\ (k[n - 1].clock < CounterMod => q.rule50 = k[n - 1].clock)
  <2>1. f + p.histPly = n - 1 /\ n - 1 \in 1..(n - 1) /\ p.histPly \in 1..p.histPly
    BY <1>1, <1>2
  <2>2. k[n - 1] = l[f + p.histPly]
    BY <1>6, <2>1
  <2> QED
    BY <1>4, <1>8, <2>1, <2>2
<1>10. ASSUME NEW j \in 1..q.histPly
       PROVE  /\ q.gameHistory[j].posKey = k[f + j].key
              /\ k[f + j].clock < CounterMod => q.gameHistory[j].rule50 = k[f + j].clock
  <2>1. f + j \in 1..(n - 1) /\ j \in 1..p.histPly
    BY <1>1, <1>2, <1>4
  <2> QED
    BY <1>5, <1>6, <1>8, <2>1
<1>11. ASSUME NEW m \in (n - 1 - q.ply)..(n - 1), k[m].clock < CounterMod
       PROVE  f = 0 \/ m - k[m].clock > f
  <2>1. \A i \in (n - p.ply)..n :
          l[i].clock < CounterMod => f = 0 \/ i - l[i].clock > f
    BY DEF Agrees, n, f
  <2>2. m \in Int /\ n - p.ply <= m /\ m <= n - 1
    BY <1>1, <1>2, <1>4
  <2>3. m \in (n - p.ply)..n /\ m \in 1..(n - 1)
    BY <1>1, <1>2, <2>2
  <2>4. k[m] = l[m]
    BY <1>6, <2>3
  <2> QED
    BY <1>11, <2>1, <2>3, <2>4
<1>12. q.ply <= q.histPly
  BY <1>1, <1>4
<1>13. Agrees(q, k)
  <2>1. Len(k) = n - 1
    BY <1>6
  <2>2. q.key = k[Len(k)].key /\ (k[Len(k)].clock < CounterMod => q.rule50 = k[Len(k)].clock)
    BY <1>9, <2>1
  <2>3. \A m \in (Len(k) - q.ply)..Len(k) :
          k[m].clock < CounterMod => f = 0 \/ m - k[m].clock > f
    BY <1>11, <2>1
  <2> QED
    BY <1>2, <1>6, <1>7, <1>10, <1>12, <2>2, <2>3 DEF Agrees
<1> QED
  BY <1>13 DEF q, k

(* A position without history agrees with a line that begins with it, or   *)
(* whose counter no longer fits.                                           *)
LEMMA FreshAgrees ==
  ASSUME NEW p, IsPosition(p), p.histPly = 0, p.ply = 0,
         NEW l \in Line, Len(l) >= 1, p.key = l[Len(l)].key,
         \/ Len(l) = 1 /\ (l[Len(l)].clock < CounterMod => p.rule50 = l[Len(l)].clock)
         \/ ~(l[Len(l)].clock < CounterMod)
  PROVE  Agrees(p, l)
<1>1. Len(l) \in Nat
  BY DEF Line
<1>2. Forgotten(p, l) = Len(l) - 1
  BY <1>1 DEF Forgotten
<1>3. Forgotten(p, l) >= 0 /\ p.ply <= p.histPly
  BY <1>1, <1>2
<1>4. ASSUME NEW m \in (Len(l) - p.ply)..Len(l), l[m].clock < CounterMod
      PROVE  Forgotten(p, l) = 0
  <2>1. m = Len(l)
    BY <1>1
  <2> QED
    BY <1>2, <1>4, <2>1
<1>5. 1..p.histPly = {}
  OBVIOUS
<1> QED
  BY <1>3, <1>4, <1>5 DEF Agrees

(* At the root only the last position of the line matters.                 *)
LEMMA RootAgrees ==
  ASSUME NEW p, IsPosition(p), NEW l, Agrees(p, l),
         NEW q, q = [p EXCEPT !.ply = 0]
  PROVE  Agrees(q, l)
<1>1. /\ q.key = p.key /\ q.rule50 = p.rule50 /\ q.histPly = p.histPly
      /\ q.ply = 0 /\ q.gameHistory = p.gameHistory
  BY DEF IsPosition, Position
<1>2. p.histPly \in Nat /\ p.ply \in Nat
  BY DEF IsPosition, Position
<1>3. Forgotten(q, l) = Forgotten(p, l)
  BY <1>1 DEF Forgotten
<1>4. ASSUME NEW m \in (Len(l) - q.ply)..Len(l), l[m].clock < CounterMod
      PROVE  Forgotten(p, l) = 0 \/ m - l[m].clock > Forgotten(p, l)
  <2>1. Len(l) \in Nat
    BY DEF Agrees, Line
  <2>2. m \in (Len(l) - p.ply)..Len(l)
    BY <1>1, <1>2, <2>1
  <2> QED
    BY <1>4, <2>2 DEF Agrees
<1>5. q.ply <= q.histPly
  BY <1>1, <1>2
<1> QED
  BY <1>1, <1>3, <1>4, <1>5 DEF Agrees

(* What comes after the last position of a line.                           *)
LEMMA TrueAfterType ==
  ASSUME NEW p, IsPosition(p), NEW l, Agrees(p, l),
         NEW board \in Board, NEW zeroing \in BOOLEAN
  PROVE  /\ l[Len(l)] \in [key : Key, clock : Nat]
         /\ TrueAfter(l, board, zeroing) \in [key : Key, clock : Nat]
         /\ NextKey(p, board) \in Key
         /\ TrueAfter(l, board, zeroing).key = NextKey(p, board)
<1> DEFINE x == TrueAfter(l, board, zeroing)
           n == Len(l)
<1>1. p.key \in Key /\ p.rule50 \in Count /\ p.histPly \in Nat
  BY DEF IsPosition, Position
<1>2. l[n] \in [key : Key, clock : Nat]
  <2>1. l \in Seq([key : Key, clock : Nat]) /\ n \in Nat /\ n >= 1
    <3>1. l \in Line /\ n \in Nat /\ n - p.histPly - 1 >= 0
      BY DEF Agrees, Forgotten, Line
    <3> QED
      BY <1>1, <3>1 DEF Line
  <2>2. n \in 1..Len(l)
    BY <2>1
  <2> HIDE DEF n
  <2> QED
    BY <2>1, <2>2, ElementOfSeq
<1>3. p.key = l[n].key /\ (l[n].clock < CounterMod => p.rule50 = l[n].clock)
  BY DEF Agrees
<1>4. NextKey(p, board) \in Key /\ x.key = NextKey(p, board)
  BY <1>1, <1>3 DEF NextKey, Key, TrueAfter
<1>5. x.clock = (IF zeroing THEN 0 ELSE l[n].clock + 1)
  BY DEF TrueAfter
<1>6. x \in [key : Key, clock : Nat]
  <2>1. x = [key |-> x.key, clock |-> x.clock]
    BY DEF TrueAfter
  <2>2. x.clock \in Nat
    BY <1>2, <1>5
  <2> HIDE DEF x
  <2> QED
    BY <1>4, <2>1, <2>2
<1> QED
  BY <1>2, <1>4, <1>6

(* A move and its place in the line.                                       *)
LEMMA MoveAgrees ==
  ASSUME NEW p, IsPosition(p), NEW l, Agrees(p, l),
         NEW board \in Board, NEW zeroing \in BOOLEAN
  PROVE  Agrees(MakeMove(p, board, zeroing), Append(l, TrueAfter(l, board, zeroing)))
<1> DEFINE x == TrueAfter(l, board, zeroing)
           r == IF zeroing THEN 0 ELSE (p.rule50 + 1) % CounterMod
           n == Len(l)
<1>1. p.rule50 \in Count
  BY DEF IsPosition, Position
<1>2. l[n] \in [key : Key, clock : Nat]
  BY TrueAfterType
<1>3. l[n].clock < CounterMod => p.rule50 = l[n].clock
  BY DEF Agrees
<1>4. NextKey(p, board) \in Key /\ x.key = NextKey(p, board)
  BY TrueAfterType
<1>5. x.clock = (IF zeroing THEN 0 ELSE l[n].clock + 1)
  BY DEF TrueAfter
<1>6. x \in [key : Key, clock : Nat]
  BY TrueAfterType
<1>7. r \in Count
  <2>1. 0 \in Count
    BY HistoryAssumption DEF Count
  <2> QED
    BY <1>1, <2>1, ModBounds
<1>8. \/ x.clock = 0 /\ r = 0
      \/ x.clock = l[n].clock + 1 /\ (x.clock < CounterMod => r = p.rule50 + 1)
  <2>1. CASE zeroing
    BY <1>5, <2>1
  <2>2. CASE ~zeroing
    <3>1. x.clock = l[n].clock + 1 /\ r = (p.rule50 + 1) % CounterMod
      BY <1>5, <2>2
    <3>2. x.clock < CounterMod => p.rule50 + 1 < CounterMod
      BY <1>2, <1>3, <3>1, HistoryAssumption
    <3> QED
      BY <1>1, <3>1, <3>2, ModBounds
  <2> QED
    BY <2>1, <2>2
<1>9. MakeMove(p, board, zeroing) = Push(p, NextKey(p, board), r, FALSE)
  BY DEF MakeMove
<1> HIDE DEF x, r
<1>10. Agrees(Push(p, NextKey(p, board), r, FALSE), Append(l, x))
  BY <1>4, <1>6, <1>7, <1>8, PushAgrees
<1> QED
  BY <1>9, <1>10 DEF x

LEMMA NullMoveAgrees ==
  ASSUME NEW p, IsPosition(p), NEW l, Agrees(p, l)
  PROVE  Agrees(MakeNullMove(p), Append(l, TrueAfter(l, p.key.board, TRUE)))
<1> DEFINE x == TrueAfter(l, p.key.board, TRUE)
<1>1. p.key \in Key /\ p.key.board \in Board
  BY DEF IsPosition, Position, Key
<1>2. p.key = l[Len(l)].key
  BY DEF Agrees
<1>3. NextKey(p, p.key.board) \in Key /\ x.key = NextKey(p, p.key.board)
      /\ x.clock = 0
  BY <1>1, <1>2 DEF NextKey, Key, TrueAfter
<1>4. x \in [key : Key, clock : Nat] /\ 0 \in Count
  BY <1>3, HistoryAssumption DEF TrueAfter, Count
<1> HIDE DEF x
<1>5. Agrees(Push(p, NextKey(p, p.key.board), 0, TRUE), Append(l, x))
  BY <1>3, <1>4, PushAgrees
<1> QED
  BY <1>5 DEF MakeNullMove, x

(* A move of the game, and the reset that may follow it.                   *)
LEMMA UCIMoveAgrees ==
  ASSUME IsPosition(engine), Agrees(engine, game),
         NEW board \in Board, NEW zeroing \in BOOLEAN, UCIMove(board, zeroing)
  PROVE  Agrees(engine', game')
<1> DEFINE made == MakeMove(engine, board, zeroing)
           x == TrueAfter(game, board, zeroing)
           n == Len(game)
<1>1. IsPosition(made) /\ Agrees(made, Append(game, x))
  BY MakeMoveIsPosition, MoveAgrees
<1>2. engine' = ResetHistPly(made) /\ IsPosition(engine')
  BY <1>1, ResetIsPosition DEF UCIMove
<1>3. game' = IF zeroing THEN <<x>> ELSE Append(game, x)
  BY DEF UCIMove
<1>4. /\ made.key = NextKey(engine, board)
      /\ made.rule50 = IF zeroing THEN 0 ELSE (engine.rule50 + 1) % CounterMod
  BY DEF MakeMove, Push
<1>5. /\ x.clock = IF zeroing THEN 0 ELSE game[n].clock + 1
      /\ game[n].clock < CounterMod => engine.rule50 = game[n].clock
      /\ engine.rule50 \in Count
  BY DEF TrueAfter, Agrees, IsPosition, Position
<1>6. /\ game[n] \in [key : Key, clock : Nat]
      /\ x \in [key : Key, clock : Nat] /\ x.key = made.key
  BY <1>4, TrueAfterType
<1>7. game \in Line /\ n \in Nat
  BY DEF Agrees, Line
<1> HIDE DEF made, x, n
<1>8. CASE made.rule50 # 0
  <2>1. engine' = [made EXCEPT !.ply = 0]
    BY <1>2, <1>8 DEF ResetHistPly
  <2>2. game' = Append(game, x)
    BY <1>3, <1>4, <1>8
  <2> QED
    BY <1>1, <2>1, <2>2, RootAgrees
<1>9. CASE made.rule50 = 0
  <2>1. /\ engine'.histPly = 0 /\ engine'.ply = 0
        /\ engine'.key = made.key /\ engine'.rule50 = 0
    BY <1>1, <1>2, <1>9 DEF ResetHistPly, IsPosition, Position
  <2>2. CASE zeroing
    <3>1. game' = <<x>> /\ x.clock = 0
      BY <1>3, <1>5, <2>2
    <3>2. game' \in Line /\ Len(game') = 1 /\ game'[1] = x
      BY <1>6, <3>1 DEF Line
    <3>3. game'[Len(game')] = x /\ Len(game') >= 1
      BY <3>2
    <3> QED
      BY <1>2, <1>6, <2>1, <3>1, <3>2, <3>3, FreshAgrees
  <2>3. CASE ~zeroing
    <3>1. game' = Append(game, x) /\ x.clock = game[n].clock + 1
      BY <1>3, <1>5, <2>3
    <3>2. game' \in Line /\ Len(game') = n + 1 /\ game'[n + 1] = x
      BY <1>6, <1>7, <3>1 DEF Line, n
    <3>3. ~(x.clock < CounterMod)
      <4>1. engine.rule50 + 1 >= CounterMod
        BY <1>4, <1>5, <1>9, <2>3, ModBounds, HistoryAssumption DEF Count
      <4> QED
        BY <1>5, <1>6, <3>1, <4>1, HistoryAssumption
    <3>4. Len(game') >= 1
      BY <1>7, <3>2
    <3> QED
      BY <1>2, <1>6, <2>1, <3>2, <3>3, <3>4, FreshAgrees
  <2> QED
    BY <2>2, <2>3
<1> QED
  BY <1>8, <1>9

-----------------------------------------------------------------------------
LEMMA SetUpAgrees ==
  ASSUME NEW board \in Board, NEW clock \in StartClocks
  PROVE  Agrees(ParseFen(board, clock), <<[key |-> StartKey(board), clock |-> clock]>>)
<1> DEFINE p == ParseFen(board, clock)
           x == [key |-> StartKey(board), clock |-> clock]
<1>1. IsPosition(p)
  BY ParseFenIsPosition
<1>2. p.histPly = 0 /\ p.ply = 0 /\ p.key = x.key /\ p.rule50 = x.clock
  BY DEF ParseFen
<1>3. StartKey(board) \in Key /\ clock \in Nat
  BY HistoryAssumption DEF StartKey, Key
<1>4. x \in [key : Key, clock : Nat]
  BY <1>3
<1> HIDE DEF p, x
<1>5. <<x>> \in Line /\ Len(<<x>>) = 1 /\ <<x>>[1] = x
  BY <1>4 DEF Line
<1>6. Len(<<x>>) >= 1 /\ <<x>>[Len(<<x>>)] = x
  BY <1>5
<1>7. Agrees(p, <<x>>)
  BY <1>1, <1>2, <1>5, <1>6, FreshAgrees
<1> QED
  BY <1>7 DEF p, x

LEMMA DrawInit == HistoryInit => DrawInv
<1> SUFFICES ASSUME HistoryInit PROVE DrawInv
  OBVIOUS
<1>1. Agrees(engine, game)
  BY SetUpAgrees DEF HistoryInit, SetUp
<1> QED
  BY <1>1, BoundInit DEF DrawInv, HistoryInit

LEMMA DrawStep == DrawInv /\ [HistoryNext]_historyVars => DrawInv'
<1> SUFFICES ASSUME DrawInv, [HistoryNext]_historyVars PROVE DrawInv'
  OBVIOUS
<1>0. /\ BoundInv /\ BoundInv' /\ IsPosition(engine) /\ Agrees(engine, game)
      /\ searching => IsPosition(thread) /\ Agrees(thread, line)
  BY BoundStep DEF DrawInv, BoundInv, HistoryTypeOK
<1> SUFFICES Agrees(engine', game') /\ (searching' => Agrees(thread', line'))
  BY <1>0 DEF DrawInv
<1>1. CASE \E board \in Board, clock \in StartClocks : UCIPosition(board, clock)
  BY <1>1, SetUpAgrees DEF UCIPosition
<1>2. CASE PrepareSearch
  BY <1>0, <1>2 DEF PrepareSearch
<1>3. ASSUME NEW board \in Board, NEW zeroing \in BOOLEAN, UCIMove(board, zeroing)
      PROVE  Agrees(engine', game') /\ (searching' => Agrees(thread', line'))
  <2>1. Agrees(engine', game')
    BY <1>0, <1>3, UCIMoveAgrees
  <2> QED
    BY <1>3, <2>1 DEF UCIMove
<1>4. ASSUME NEW board \in Board, NEW zeroing \in BOOLEAN, SearchMove(board, zeroing)
      PROVE  Agrees(engine', game') /\ (searching' => Agrees(thread', line'))
  <2>1. Agrees(thread', line')
    BY <1>0, <1>4, MoveAgrees DEF SearchMove, Expands
  <2> QED
    BY <1>0, <1>4, <2>1 DEF SearchMove
<1>5. CASE NullMove
  <2>1. Agrees(thread', line')
    BY <1>0, <1>5, NullMoveAgrees DEF NullMove, Expands
  <2> QED
    BY <1>0, <1>5, <2>1 DEF NullMove
<1>6. CASE TakeBack
  <2>1. Agrees(thread', line')
    BY <1>0, <1>6, TakeAgrees DEF TakeBack
  <2> QED
    BY <1>0, <1>6, <2>1 DEF TakeBack
<1>7. CASE EndSearch
  BY <1>0, <1>7 DEF EndSearch
<1>8. CASE UNCHANGED historyVars
  BY <1>0, <1>8 DEF historyVars
<1> QED
  BY <1>1, <1>2, <1>3, <1>4, <1>5, <1>6, <1>7, <1>8 DEF HistoryNext

(* A kept history that agrees with the line tells the same repetitions.    *)
LEMMA RepetitionExact ==
  ASSUME NEW p, IsPosition(p), NEW l, Agrees(p, l), l[Len(l)].clock < CounterMod
  PROVE  IsRepetition(p) <=> Repeated(l)
<1> DEFINE n == Len(l)
           f == Forgotten(p, l)
           c == l[n].clock
<1>1. p.histPly \in Nat /\ p.ply \in Nat /\ p.ply <= p.histPly
  BY DEF IsPosition, Position, Agrees
<1>2. n \in Nat /\ f \in Nat /\ n = f + p.histPly + 1
  <2>1. l \in Line /\ f >= 0 /\ n \in Nat
    BY DEF Agrees, Line
  <2>2. n = f + p.histPly + 1 /\ f \in Int
    BY <1>1, <2>1 DEF Forgotten
  <2> QED
    BY <2>1, <2>2
<1>3. c \in Nat
  <2>1. n \in 1..Len(l) /\ l \in Seq([key : Key, clock : Nat])
    BY <1>1, <1>2 DEF Agrees, Line
  <2> HIDE DEF n
  <2>2. l[n] \in [key : Key, clock : Nat]
    BY <2>1, ElementOfSeq
  <2> QED
    BY <2>2
<1>4. /\ p.rule50 = c /\ p.key = l[n].key /\ (f = 0 \/ n - c > f)
      /\ \A j \in 1..p.histPly : p.gameHistory[j].posKey = l[f + j].key
  <2>1. n \in (n - p.ply)..n
    BY <1>1, <1>2
  <2> QED
    BY <2>1 DEF Agrees
<1> HIDE DEF n, f, c
<1>5. ASSUME NEW i \in 4..p.histPly
      PROVE  history(p, i).posKey = l[n - i].key
  <2>1. p.histPly - i + 1 \in 1..p.histPly /\ f + (p.histPly - i + 1) = n - i
    BY <1>1, <1>2
  <2>2. p.gameHistory[p.histPly - i + 1].posKey = l[n - i].key
    BY <1>4, <2>1
  <2> QED
    BY <2>2 DEF history
<1>6. ASSUME IsRepetition(p) PROVE Repeated(l)
  <2>1. PICK i \in 4..p.histPly :
          i % 2 = 0 /\ i <= p.rule50 /\ p.key = history(p, i).posKey
    BY <1>6 DEF IsRepetition
  <2>2. n - i \in 1..(n - 4) /\ n - (n - i) = i
    <3>1. i \in Int /\ 4 <= i /\ i <= p.histPly
      BY <1>1
    <3>2. n - i >= 1
      BY <1>1, <1>2, <3>1
    <3>3. n - i <= n - 4 /\ n - (n - i) = i /\ n - i \in Int /\ n - 4 \in Int
      BY <1>2, <3>1
    <3> QED
      BY <3>2, <3>3
  <2>3. (n - (n - i)) % 2 = 0 /\ n - (n - i) <= c
    BY <1>4, <2>1, <2>2
  <2>4. l[n - i].key = l[n].key
    BY <1>4, <1>5, <2>1
  <2> QED
    BY <2>2, <2>3, <2>4 DEF Repeated, n, c
<1>7. ASSUME Repeated(l) PROVE IsRepetition(p)
  <2>1. PICK j \in 1..(n - 4) :
          (n - j) % 2 = 0 /\ n - j <= c /\ l[j].key = l[n].key
    BY <1>7 DEF Repeated, n, c
  <2>2. n - j \in 4..p.histPly
    <3>1. j \in Int /\ 1 <= j /\ j <= n - 4 /\ n - j <= c
      BY <1>2, <2>1
    <3>2. f = 0 \/ n - c > f
      BY <1>4
    <3> QED
      BY <1>1, <1>2, <1>3, <3>1, <3>2
  <2>3. n - (n - j) = j
    BY <1>2, <2>1
  <2>4. p.key = history(p, n - j).posKey
    BY <1>4, <1>5, <2>1, <2>2, <2>3
  <2> QED
    BY <1>4, <2>1, <2>2, <2>4 DEF IsRepetition
<1> QED
  BY <1>6, <1>7

(* A node is scored as a draw exactly when its whole line says so: neither *)
(* the reset of histPly between the moves of a game, nor null moves, nor   *)
(* taking back lose or invent a repetition.                                *)
THEOREM DrawsAreExact == HistorySpec => []DrawsExact
<1>1. DrawInv => DrawsExact
  <2> SUFFICES ASSUME DrawInv, searching, line[Len(line)].clock < CounterMod
               PROVE  /\ IsRepetition(thread) <=> Repeated(line)
                      /\ thread.rule50 = line[Len(line)].clock
    BY DEF DrawsExact
  <2>1. IsPosition(thread) /\ Agrees(thread, line)
    BY DEF DrawInv, BoundInv, HistoryTypeOK
  <2>2. thread.rule50 = line[Len(line)].clock
    BY <2>1 DEF Agrees
  <2> QED
    BY <2>1, <2>2, RepetitionExact
<1> QED
  BY <1>1, DrawInit, DrawStep, PTL DEF HistorySpec
=============================================================================

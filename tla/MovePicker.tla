----------------------------- MODULE MovePicker -----------------------------
(***************************************************************************)
(* The staged move generator of the search (movepicker.cpp) together with  *)
(* the killer slots of one ply, which search.cpp updates at a cutoff and   *)
(* every later node of that ply reads.                                     *)
(*                                                                         *)
(* A move is an opaque value.  GenNoisy holds the moves GenNoisyMoves      *)
(* emits when they are pseudo-legal (captures, en passant, queen           *)
(* promotions); every other move comes from GenQuietMoves.  Noisy holds    *)
(* the moves for which the macro moveIsNoisy is true: it also contains the *)
(* underpromotions, which GenQuietMoves emits.  The scores that order a    *)
(* list (MVV-LVA, history counters) are arbitrary integers, so the best    *)
(* entry of PickNextMove may be any entry that is left.                    *)
(***************************************************************************)
EXTENDS Naturals, Sequences

CONSTANTS
  Move,             \* the moves of the ply's positions
  NoMove,           \* NOMOVE
  GenNoisy,         \* emitted by GenNoisyMoves
  Noisy,            \* moveIsNoisy
  MaxPositionMoves  \* MAXPOSITIONMOVES, the capacity of a MoveList

ASSUME MoveAssumption ==
  /\ NoMove \notin Move
  /\ GenNoisy \subseteq Noisy
  /\ Noisy \subseteq Move
  /\ MaxPositionMoves \in Nat

VARIABLES
  legal,    \* the pseudo-legal moves of the position at this node
  killers,  \* <<killer1, killer2>> of this ply
  mp,       \* the MovePicker
  list,     \* moves of mp->list, 1-based; its count is Len(list)
  next,     \* mp->list->next
  call,     \* "none": no node; "caller": in the move loop; "next": in NextMove
  ret,      \* what the last NextMove returned
  given     \* the moves returned at this node so far (history variable)

vars == <<legal, killers, mp, list, next, call, ret, given>>

MoveOrNone == Move \union {NoMove}

Stages == {"TTMOVE", "GEN_NOISY", "NOISY", "KILLER1", "KILLER2",
           "GEN_QUIET", "QUIET"}

MoveIsPseudoLegal(m) == m \in legal

NoisyMoves == legal \cap GenNoisy
QuietMoves == legal \ GenNoisy

(* The moves a node's picker owes to its caller. *)
Owed == IF mp.onlyNoisy THEN NoisyMoves ELSE legal

(* The orders in which a generator may append the moves of S to a list. *)
Listings(S) ==
  UNION {{s \in [1..n -> S] :
            /\ \A i, j \in 1..n : s[i] = s[j] => i = j
            /\ \A m \in S : \E i \in 1..n : s[i] = m} : n \in 0..MaxPositionMoves}

(* The entries of the list PickNextMove has not consumed. *)
Remaining == {list[i] : i \in (next + 1)..Len(list)}
-----------------------------------------------------------------------------
(* Mutant: the hash move is used without MoveIsPseudoLegal. *)
InitNormalMP_NoCheck(tt) ==
  mp' = [ttMove    |-> tt,
         stage     |-> IF tt # NoMove THEN "TTMOVE" ELSE "GEN_NOISY",
         kill1     |-> killers[1],
         kill2     |-> killers[2],
         onlyNoisy |-> FALSE]

(* InitNormalMP: the hash move is arbitrary (another position may have     *)
(* stored it under this key), the killers are those of the ply.            *)
InitNormalMP(tt) ==
  LET ttMove == IF tt \in legal' THEN tt ELSE NoMove
  IN  mp' = [ttMove    |-> ttMove,
             stage     |-> IF ttMove # NoMove THEN "TTMOVE" ELSE "GEN_NOISY",
             kill1     |-> killers[1],
             kill2     |-> killers[2],
             onlyNoisy |-> FALSE]

InitNoisyMP ==
  mp' = [ttMove |-> NoMove, stage |-> "GEN_NOISY", kill1 |-> NoMove,
         kill2 |-> NoMove, onlyNoisy |-> TRUE]

(* A node starts: a position of this ply, with a fresh list. *)
BeginNode ==
  /\ call = "none"
  /\ call' = "caller"
  /\ legal' \in SUBSET Move
  /\ list' = <<>> /\ next' = 0
  /\ ret' = NoMove /\ given' = {}
  /\ UNCHANGED killers

BeginNormal == /\ BeginNode
               /\ \E tt \in MoveOrNone : InitNormalMP(tt)
BeginNoisy  == /\ BeginNode
               /\ InitNoisyMP
-----------------------------------------------------------------------------
CallNextMove ==
  /\ call = "caller"
  /\ call' = "next"
  /\ UNCHANGED <<legal, killers, mp, list, next, ret, given>>

Return(m) ==
  /\ ret' = m
  /\ call' = "caller"
  /\ given' = given \union ({m} \ {NoMove})

FallThrough == UNCHANGED <<ret, call, given>>

InStage(s) == /\ call = "next"
              /\ mp.stage = s
              /\ UNCHANGED <<legal, killers>>

Advance(s) == mp' = [mp EXCEPT !.stage = s]

(* Mutant: next is incremented twice, as by a macro that repeats it. *)
PickNextMove_TwoSteps(excluded) ==
  /\ next < Len(list)
  /\ \E best \in (next + 1)..Len(list) :
       /\ list' = [list EXCEPT ![best] = list[next + 1]]
       /\ next' = next + 2
       /\ IF list[best] \in excluded THEN FallThrough ELSE Return(list[best])
  /\ UNCHANGED mp

(* One call of PickNextMove on a list that is not exhausted: take the best *)
(* entry, fill its slot with the first one left, and call itself again if  *)
(* the move was already returned in an earlier stage.                      *)
PickNextMove(excluded) ==
  /\ next < Len(list)
  /\ \E best \in (next + 1)..Len(list) :
       /\ list' = [list EXCEPT ![best] = list[next + 1]]
       /\ next' = next + 1
       /\ IF list[best] \in excluded THEN FallThrough ELSE Return(list[best])
  /\ UNCHANGED mp

StageTTMove ==
  /\ InStage("TTMOVE")
  /\ Advance("GEN_NOISY")
  /\ Return(mp.ttMove)
  /\ UNCHANGED <<list, next>>

StageGenNoisy ==
  /\ InStage("GEN_NOISY")
  /\ Advance("NOISY")
  /\ \E s \in Listings(NoisyMoves) : list' = list \o s
  /\ FallThrough
  /\ UNCHANGED next

StageNoisy ==
  /\ InStage("NOISY")
  /\ \/ PickNextMove({mp.ttMove, NoMove})
     \/ /\ next = Len(list)
        /\ Advance("KILLER1")
        /\ FallThrough
        /\ UNCHANGED <<list, next>>

(* Mutant: a killer equal to the hash move is returned again. *)
Killer_TTAgain(kill) == IF MoveIsPseudoLegal(kill)
                        THEN Return(kill) ELSE FallThrough

Killer(kill) == IF kill # mp.ttMove /\ MoveIsPseudoLegal(kill)
                THEN Return(kill) ELSE FallThrough

StageKiller1 ==
  /\ InStage("KILLER1")
  /\ Advance("KILLER2")
  /\ Killer(mp.kill1)
  /\ UNCHANGED <<list, next>>

StageKiller2 ==
  /\ InStage("KILLER2")
  /\ Advance("GEN_QUIET")
  /\ Killer(mp.kill2)
  /\ UNCHANGED <<list, next>>

StageGenQuiet ==
  /\ InStage("GEN_QUIET")
  /\ \/ /\ mp.onlyNoisy
        /\ Return(NoMove)
        /\ UNCHANGED <<mp, list>>
     \/ /\ ~mp.onlyNoisy
        /\ Advance("QUIET")
        /\ \E s \in Listings(QuietMoves) : list' = list \o s
        /\ FallThrough
  /\ UNCHANGED next

StageQuiet ==
  /\ InStage("QUIET")
  /\ \/ PickNextMove({mp.ttMove, mp.kill1, mp.kill2})
     \/ /\ next = Len(list)
        /\ Return(NoMove)
        /\ UNCHANGED <<mp, list, next>>

NextMove == StageTTMove \/ StageGenNoisy \/ StageNoisy \/ StageKiller1
              \/ StageKiller2 \/ StageGenQuiet \/ StageQuiet
-----------------------------------------------------------------------------
(* The caller leaves its move loop without touching the killers: the loop  *)
(* ran out, late move pruning, a noisy cutoff, a quiescence cutoff.        *)
LeaveNode ==
  /\ call = "caller"
  /\ call' = "none"
  /\ UNCHANGED <<legal, killers, mp, list, next, ret, given>>

(* A quiet move fails high in AlphaBeta: it becomes the first killer. *)
UpdateKillers(m) ==
  killers' = IF m \notin Noisy /\ killers[1] # m
             THEN <<m, killers[1]>> ELSE killers

CutoffNode ==
  /\ call = "caller"
  /\ ret # NoMove
  /\ ~mp.onlyNoisy
  /\ UpdateKillers(ret)
  /\ call' = "none"
  /\ UNCHANGED <<legal, mp, list, next, ret, given>>
-----------------------------------------------------------------------------
Init ==
  /\ legal = {}
  /\ killers = <<NoMove, NoMove>>
  /\ mp = [ttMove |-> NoMove, stage |-> "GEN_NOISY", kill1 |-> NoMove,
           kill2 |-> NoMove, onlyNoisy |-> TRUE]
  /\ list = <<>> /\ next = 0
  /\ call = "none" /\ ret = NoMove /\ given = {}

Next == BeginNormal \/ BeginNoisy \/ CallNextMove \/ NextMove
          \/ LeaveNode \/ CutoffNode

Spec == Init /\ [][Next]_vars
-----------------------------------------------------------------------------
(* Type invariant. *)
TypeOK ==
  /\ legal \subseteq Move
  /\ killers \in MoveOrNone \X MoveOrNone
  /\ mp \in [ttMove : MoveOrNone, stage : Stages, kill1 : MoveOrNone,
             kill2 : MoveOrNone, onlyNoisy : BOOLEAN]
  /\ list \in Seq(Move) /\ next \in 0..Len(list)
  /\ call \in {"none", "caller", "next"}
  /\ ret \in MoveOrNone /\ given \subseteq Move

(* The killers of a ply are quiet and differ from each other, so that the  *)
(* two killer stages cannot return the same move (search.cpp 429-433).     *)
KillersOk ==
  /\ killers[1] \notin Noisy /\ killers[2] \notin Noisy
  /\ killers[1] = killers[2] => killers[1] = NoMove

(* What ties the stage to the moves already returned: the hash move first, *)
(* then the noisy list, the killers that are pseudo-legal, the quiet list. *)
TTPart == {mp.ttMove} \ {NoMove}
NoisyPart == TTPart \union NoisyMoves
KillerPart == {mp.kill1, mp.kill2} \cap legal
Distinct == \A i, j \in (next + 1)..Len(list) : list[i] = list[j] => i = j

StageInv ==
  /\ mp.stage = "TTMOVE"    => given = {} /\ mp.ttMove # NoMove /\ ~mp.onlyNoisy
  /\ mp.stage = "GEN_NOISY" => given = TTPart
  /\ mp.stage = "NOISY"     => /\ Distinct /\ Remaining \subseteq NoisyMoves
                               /\ given = NoisyPart \ (Remaining \ TTPart)
  /\ mp.stage = "KILLER1"   => given = NoisyPart
  /\ mp.stage = "KILLER2"   => given = NoisyPart \union ({mp.kill1} \cap legal)
  /\ mp.stage = "GEN_QUIET" => given = NoisyPart \union KillerPart
  /\ mp.stage = "QUIET"     =>
        /\ ~mp.onlyNoisy
        /\ Distinct /\ Remaining \subseteq QuietMoves
        /\ given = legal \ (Remaining \ (TTPart \union KillerPart))
  /\ mp.stage \notin {"NOISY", "QUIET"} => next = Len(list)

PickerOk ==
  /\ mp.ttMove \in legal \union {NoMove}
  /\ mp.kill1 \notin Noisy /\ mp.kill2 \notin Noisy
  /\ mp.kill1 = mp.kill2 => mp.kill1 = NoMove
  /\ mp.onlyNoisy => mp.ttMove = NoMove /\ mp.kill1 = NoMove /\ mp.kill2 = NoMove

(* The inductive invariant behind NeverTwice, NothingMissed and Refines:   *)
(* at every stage the moves returned are exactly those the stages before   *)
(* have covered, and the unconsumed part of the list has no duplicates.    *)
IInv == TypeOK /\ KillersOk /\ (call # "none" => PickerOk /\ StageInv)

(* NextMove never returns a move a second time at one node, although the   *)
(* hash move and the killers also appear in the generated lists.           *)
NeverTwice ==
  [][call = "next" /\ call' = "caller" /\ ret' # NoMove => ret' \notin given]_vars

(* When NextMove answers NOMOVE the caller has seen every move it is owed: *)
(* all pseudo-legal moves, or all noisy ones in a noisy picker.            *)
NothingMissed ==
  [][call = "next" /\ call' = "caller" /\ ret' = NoMove => given = Owed]_vars

(* The picker implements a source that hands out each owed move once. *)
Source == INSTANCE MoveSource WITH
            todo <- Owed \ given, last <- ret, open <- call # "none"
Refines == Source!Spec
=============================================================================

----------------------------- MODULE MoveSource -----------------------------
(***************************************************************************)
(* What the move loops of search.cpp rely on: a node opens a source that   *)
(* owes it a set of moves, each call hands out one move that is still owed *)
(* and NOMOVE comes only when nothing is owed any more.                    *)
(***************************************************************************)
CONSTANTS Move, NoMove

VARIABLES
  todo,  \* the moves still owed
  last,  \* the last answer
  open   \* a node is using the source

srcVars == <<todo, last, open>>

Open == /\ ~open /\ open'
        /\ todo' \in SUBSET Move
        /\ last' = NoMove

Hand == /\ open /\ open'
        /\ last' \in todo
        /\ todo' = todo \ {last'}

Exhausted == /\ open /\ open'
             /\ todo = {} /\ todo' = {}
             /\ last' = NoMove

Close == /\ open /\ ~open'
         /\ UNCHANGED <<todo, last>>

Init == todo \in SUBSET Move /\ last = NoMove /\ ~open

Next == Open \/ Hand \/ Exhausted \/ Close

Spec == Init /\ [][Next]_srcVars
=============================================================================

---------------------------- MODULE SearchService ----------------------------
(***************************************************************************)
(* The search as a GUI sees it through the UCI commands go and stop: one   *)
(* question at a time, an answer to that question and no other, an         *)
(* infinite search that answers only after stop, and no question left      *)
(* without its answer.                                                     *)
(***************************************************************************)
CONSTANTS
  Root, NoMove,
  Terms   \* search limits, records with a field infinite

VARIABLES
  open,      \* a question has not been answered
  stopped,   \* stop came since the last question
  question,  \* the position asked about
  terms,     \* the limits of the last question
  reply      \* the position the last answer is about, or NoMove

svcVars == <<open, stopped, question, terms, reply>>

Init ==
  /\ ~open /\ ~stopped /\ terms \in Terms
  /\ question \in Root /\ reply = NoMove

Go ==
  /\ open = FALSE /\ open' = TRUE
  /\ stopped' = FALSE
  /\ question' \in Root /\ terms' \in Terms
  /\ UNCHANGED reply

Stop ==
  /\ stopped' = TRUE
  /\ UNCHANGED <<open, question, terms, reply>>

(* NoMove when no iteration was completed. *)
Answer ==
  /\ open = TRUE /\ open' = FALSE
  /\ ~terms.infinite \/ stopped
  /\ reply' \in {question, NoMove}
  /\ UNCHANGED <<stopped, question, terms>>

Next == Go \/ Stop \/ Answer

Spec == Init /\ [][Next]_svcVars /\ WF_svcVars(Answer)
=============================================================================

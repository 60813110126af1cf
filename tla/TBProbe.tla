------------------------------- MODULE TBProbe -------------------------------
(***************************************************************************)
(* Probing the tablebases (fathom/tbprobe.c): probe_ab, probe_wdl,         *)
(* probe_dtz and probe_root, which together give the value of a position,  *)
(* the distance to the next capture or pawn move, and a move for the root. *)
(*                                                                         *)
(* A position is the set of its legal moves, and a move is known by what   *)
(* it does to the counter of the 50 move rule and by the position after    *)
(* it.  The functions call each other on positions with fewer pieces or    *)
(* one ply later; each call returns what its function promises, so that    *)
(* one level of each function is checked against its own promise.  The     *)
(* tables are external: they hold what their format allows them to hold.   *)
(***************************************************************************)
EXTENDS Integers, FiniteSetsExt

CONSTANTS Limit,      \* 100: plies until the 50 move rule gives a draw
          MaxMoves,   \* bound: legal moves
          Nothing     \* no result yet

ASSUME LimitAssumption == Limit \in Nat \ {0} /\ MaxMoves \in Nat /\ Nothing \notin Int

VARIABLES moves, check, exact,        \* the position, and how its table is written
          cnt50, alpha, beta,         \* arguments
          low,                        \* history: alpha as the caller gave it
          pc, todo,                   \* where the code is; moves still to look at
          bestCap, bestEp, best,      \* locals
          success, wdl, dtz, scores,  \* what the calls have given
          result                      \* what the root or probe_ab returns
asked == <<moves, check, exact, low>>
vars == <<moves, check, exact, low, cnt50, alpha, beta, pc, todo,
          bestCap, bestEp, best, success, wdl, dtz, scores, result>>

-----------------------------------------------------------------------------
(* Values.  A win for the side to move in n plies is n, a loss -n; beyond   *)
(* the limit it is a draw by the rule, a cursed win or a blessed loss.      *)

Abs(n) == IF n < 0 THEN -n ELSE n
Wdl(n) == CASE n = 0 -> 0
            [] n > 0 -> IF n <= Limit THEN 2 ELSE 1
            [] OTHER -> IF n >= -Limit THEN -2 ELSE -1
WdlToDtz(w) == CASE w = 2 -> 1 [] w = 1 -> Limit + 1 [] w = 0 -> 0
                 [] w = -1 -> -(Limit + 1) [] OTHER -> -1
OnePly(v) == CASE v > 0 -> v + 1 [] v < 0 -> v - 1 [] OTHER -> 0

\* A move and the distance in the position after it; after a capture or pawn
\* move only its value counts.  Being mated is -1, as probe_dtz returns it.
Zeroing == {"capture", "ep", "pawn"}
LegalMove ==
  [kind : Zeroing, mate : {FALSE}, dtz : {WdlToDtz(w) : w \in -2..2}]
  \cup [kind : {"quiet"}, mate : {FALSE}, dtz : -(Limit + 2)..(Limit + 2)]
  \cup [kind : Zeroing \cup {"quiet"}, mate : {TRUE}, dtz : {-1}]
is_capture(m) == m.kind \in {"capture", "ep"}

\* What a move is worth, and a position with these moves.
Worth(m) == CASE m.mate -> 1
              [] ~m.mate /\ m.kind \in Zeroing -> WdlToDtz(-Wdl(m.dtz))
              [] OTHER -> OnePly(-m.dtz)
Value(ms, inCheck) ==
  LET w == {Worth(m) : m \in ms} IN
  CASE ms = {} -> IF inCheck THEN -1 ELSE 0
    [] \E n \in w : n > 0 -> Min({n \in w : n > 0})
    [] ms # {} /\ (\A n \in w : n <= 0) /\ 0 \in w -> 0
    [] OTHER -> Min(w)
Truth == Value(moves, check)
WithoutEp == Value({m \in moves : m.kind # "ep"}, check)

-----------------------------------------------------------------------------
(* What the tables hold and what the functions promise.                     *)

\* A WDL table knows nothing of en passant, and may hold anything lower
\* where a capture is as good.
WdlTable ==
  LET w == Wdl(WithoutEp) IN
  IF \E m \in moves : m.kind = "capture" /\ Wdl(Worth(m)) = w THEN -2..w ELSE {w}

\* A DTZ table counts in moves, and in plies only if some position in it is
\* exactly at the limit; cursed wins and losses always in moves.
InMoves(n) == ~exact \/ Abs(n) > Limit
Raw(n) == LET over == Abs(n) - Abs(WdlToDtz(Wdl(n)))
          IN  IF InMoves(n) THEN 2 * (over \div 2) ELSE over
MayBeHere(n) == exact \/ Abs(n) # Limit

\* probe_ab: exact inside the window, otherwise on the right side of it.
Promised_ab(w, a, b) == CASE w <= a -> {a} [] a < w /\ w < b -> {w}
                          [] OTHER -> b..w
\* probe_dtz: up to one too near to zero, never in another class.
Promised_dtz(n) == {n} \cup
  (IF InMoves(n) THEN {k \in {n - 1, n + 1} : Abs(k) < Abs(n) /\ Wdl(k) = Wdl(n)}
   ELSE {})

-----------------------------------------------------------------------------

Init == /\ moves = {} /\ check = FALSE /\ exact \in BOOLEAN
        /\ cnt50 = 0 /\ alpha = -3 /\ beta = 3 /\ low = -3
        /\ pc = "setup" /\ todo = {}
        /\ bestCap = -3 /\ bestEp = -3 /\ best = Nothing
        /\ success = 1 /\ wdl = Nothing /\ dtz = Nothing
        /\ scores = <<>> /\ result = Nothing

\* Any position.
AddMove == /\ pc = "setup" /\ Cardinality(moves) < MaxMoves
           /\ \E m \in LegalMove :
                /\ m.kind = "quiet" => MayBeHere(m.dtz)
                /\ moves' = moves \cup {m}
           /\ UNCHANGED <<check, exact, low, cnt50, alpha, beta, pc, todo, bestCap,
                          bestEp, best, success, wdl, dtz, scores, result>>

\* probe_ab is called without en passant captures and with any window,
\* probe_root with any counter.  Check tells if there is no move.
Call ==
  /\ pc = "setup"
  /\ check' \in (IF {m \in moves : m.kind # "ep"} = {} THEN BOOLEAN ELSE {FALSE})
  /\ \/ /\ \A m \in moves : m.kind # "ep"
        /\ \E a \in -3..1, b \in -2..3 :
             a < b /\ alpha' = a /\ low' = a /\ beta' = b
        /\ pc' = "ab" /\ UNCHANGED cnt50
     \/ /\ cnt50' \in 0..Limit
        /\ pc' = "wdl" /\ UNCHANGED <<alpha, beta, low>>
  /\ MayBeHere(Value(moves, check')) /\ MayBeHere(Value({m \in moves : m.kind # "ep"}, check'))
  /\ todo' = {m \in moves : is_capture(m)}
  /\ UNCHANGED <<moves, exact, bestCap, bestEp, best, success, wdl, dtz, scores, result>>

\* A table is missing: every function gives up at once.
Fail == /\ pc \in {"ab", "wdl", "dtz", "ply", "root"}
        /\ success' = 0 /\ result' = "failed" /\ pc' = "done" /\ todo' = {}
        /\ UNCHANGED <<asked, cnt50, alpha, beta, bestCap, bestEp, best, wdl, dtz,
                       scores>>

-----------------------------------------------------------------------------
(* probe_ab.                                                                *)

AbCapture ==
  /\ pc = "ab"
  /\ \E m \in todo :
       \E r \in Promised_ab(-Wdl(Worth(m)), -beta, -alpha) :
         /\ todo' = todo \ {m}
         /\ IF -r > alpha /\ -r >= beta THEN result' = -r /\ pc' = "done" /\ UNCHANGED alpha
            ELSE /\ alpha' = Max({alpha, -r}) /\ UNCHANGED <<result, pc>>
  /\ UNCHANGED <<asked, cnt50, beta, bestCap, bestEp, best, success, wdl, dtz, scores>>

AbTable ==
  /\ pc = "ab" /\ todo = {}
  /\ \E v \in WdlTable : result' = Max({alpha, v})
  /\ pc' = "done"
  /\ UNCHANGED <<asked, cnt50, alpha, beta, todo, bestCap, bestEp, best, success, wdl,
                 dtz, scores>>

-----------------------------------------------------------------------------
(* probe_wdl.                                                               *)

\* With the value known, probe_dtz goes on: a drawn position and one whose
\* best move is a capture need no DTZ table; a win may have a pawn move.
WdlKnown(w, s) ==
  /\ wdl' = w /\ success' = s
  /\ IF w = 0 \/ s = 2
     THEN dtz' = WdlToDtz(w) /\ pc' = "root" /\ todo' = moves
     ELSE /\ UNCHANGED dtz /\ pc' = "dtz"
          /\ todo' = {m \in moves : w > 0 /\ m.kind = "pawn"}

WdlCapture ==
  /\ pc = "wdl"
  /\ \E m \in todo :
       \E r \in Promised_ab(-Wdl(Worth(m)), -2, -bestCap) :
         IF -r > bestCap /\ r = -2
         THEN WdlKnown(2, 2) /\ UNCHANGED <<bestCap, bestEp>>
         ELSE /\ bestCap' = IF -r > bestCap /\ m.kind # "ep" THEN -r ELSE bestCap
              /\ bestEp'  = IF -r > bestCap /\ m.kind = "ep" /\ -r > bestEp
                            THEN -r ELSE bestEp
              /\ todo' = todo \ {m}
              /\ UNCHANGED <<wdl, success, dtz, pc>>
  /\ UNCHANGED <<asked, cnt50, alpha, beta, best, scores, result>>

\* Mutant: the en passant capture that lifts a stalemate is forgotten.
Stalemate_Not == FALSE

\* No other move and no check: the table's draw is a stalemate.
Stalemate == {m \in moves : m.kind # "ep"} = {} /\ ~check

WdlProbe ==
  /\ pc = "wdl" /\ todo = {}
  /\ \E v \in WdlTable :
       LET cap == Max({bestCap, bestEp}) IN
       \/ /\ bestEp > bestCap /\ bestEp > v
          /\ WdlKnown(bestEp, 2)
       \/ /\ ~(bestEp > bestCap /\ bestEp > v) /\ cap >= v
          /\ WdlKnown(cap, IF cap > 0 THEN 2 ELSE 1)
       \/ /\ cap < v /\ bestEp > -3 /\ v = 0 /\ Stalemate
          /\ WdlKnown(bestEp, 2)
       \/ /\ cap < v /\ ~(bestEp > -3 /\ v = 0 /\ Stalemate)
          /\ WdlKnown(v, success)
  /\ UNCHANGED <<asked, cnt50, alpha, beta, bestCap, bestEp, best, scores, result>>

-----------------------------------------------------------------------------
(* probe_dtz.                                                               *)

DtzKnown(n) == dtz' = n /\ pc' = "root" /\ todo' = moves

\* A pawn move that keeps the win.
DtzPawn ==
  /\ pc = "dtz"
  /\ \E m \in todo : IF Wdl(Worth(m)) = wdl
                     THEN DtzKnown(WdlToDtz(wdl))
                     ELSE todo' = todo \ {m} /\ UNCHANGED <<dtz, pc>>
  /\ UNCHANGED <<asked, cnt50, alpha, beta, bestCap, bestEp, best, success, wdl,
                 scores, result>>

\* Mutant: a losing capture or pawn move does not bound the distance.
Start_Zero(w) == IF w > 0 THEN 2 * Limit + 5 ELSE 0

\* INT32_MAX, here above all distances, or the loss by a capture at once.
Start(w) == IF w > 0 THEN 2 * Limit + 5 ELSE WdlToDtz(w)

\* The table holds the side to move, or the other one: then one ply more.
DtzProbe ==
  /\ pc = "dtz" /\ todo = {}
  /\ \/ /\ DtzKnown(WdlToDtz(wdl) + (IF wdl > 0 THEN Raw(WithoutEp) ELSE -Raw(WithoutEp)))
        /\ UNCHANGED best
     \/ /\ best' = Start(wdl) /\ pc' = "ply"
        /\ todo' = {m \in moves : m.kind = "quiet"}
        /\ UNCHANGED dtz
  /\ UNCHANGED <<asked, cnt50, alpha, beta, bestCap, bestEp, success, wdl, scores,
                 result>>

DtzPly ==
  /\ pc = "ply"
  /\ \E m \in todo :
       \E r \in Promised_dtz(m.dtz) :
         LET v == -r IN
         /\ todo' = todo \ {m}
         /\ best' = CASE v = 1 /\ m.mate -> 1
                      [] ~(v = 1 /\ m.mate) /\ wdl > 0 ->
                           IF v > 0 /\ v + 1 < best THEN v + 1 ELSE best
                      [] OTHER -> IF v - 1 < best THEN v - 1 ELSE best
  /\ UNCHANGED <<asked, cnt50, alpha, beta, pc, bestCap, bestEp, success, wdl, dtz,
                 scores, result>>

DtzPlyDone ==
  /\ pc = "ply" /\ todo = {} /\ DtzKnown(best)
  /\ UNCHANGED <<asked, cnt50, alpha, beta, bestCap, bestEp, best, success, wdl,
                 scores, result>>

-----------------------------------------------------------------------------
(* probe_root.                                                              *)

RootMove ==
  /\ pc = "root"
  /\ \E m \in todo :
       \E r \in IF m.kind = "quiet" THEN Promised_dtz(m.dtz) ELSE {m.dtz} :
         /\ todo' = todo \ {m}
         /\ LET score == CASE dtz > 0 /\ m.mate -> 1
                           [] m.kind = "quiet" /\ ~(dtz > 0 /\ m.mate) -> OnePly(-r)
                           [] OTHER -> WdlToDtz(-Wdl(r))
            IN  scores' = [k \in DOMAIN scores \union {m} |-> IF k = m THEN score ELSE scores[k]]
  /\ UNCHANGED <<asked, cnt50, alpha, beta, pc, bestCap, bestEp, best, success, wdl,
                 dtz, result>>

\* Mutant: the longest win.
Chosen_Longest ==
  {m \in moves : \A k \in moves : scores[k] <= scores[m]}

\* The shortest win, the longest loss, any draw.
Chosen ==
  LET good == CASE dtz > 0 -> {m \in moves : scores[m] > 0}
                [] dtz < 0 -> {m \in moves : scores[m] < 0}
                [] OTHER   -> {m \in moves : scores[m] = 0}
  IN  {m \in good : \A k \in good : scores[m] <= scores[k]}

RootChoose ==
  /\ pc = "root" /\ todo = {}
  /\ \/ Chosen # {} /\ result' \in Chosen
     \/ Chosen = {} /\ result' = (CASE dtz > 0 -> "failed" [] dtz < 0 -> "checkmate"
                                    [] OTHER -> "stalemate")
  /\ pc' = "done"
  /\ UNCHANGED <<asked, cnt50, alpha, beta, todo, bestCap, bestEp, best, success, wdl,
                 dtz, scores>>

Next == \/ AddMove \/ Call \/ Fail
        \/ AbCapture \/ AbTable
        \/ WdlCapture \/ WdlProbe
        \/ DtzPawn \/ DtzProbe \/ DtzPly \/ DtzPlyDone
        \/ RootMove \/ RootChoose
Spec == Init /\ [][Next]_vars

-----------------------------------------------------------------------------
(* Properties.                                                              *)

\* tb_probe_root_impl: the value under the rule with the plies played.
dtz_to_wdl(c, n) == CASE n > 0 -> IF n + c <= Limit THEN 2 ELSE 1
                      [] n < 0 -> IF -n + c <= Limit THEN -2 ELSE -1
                      [] OTHER -> 0

\* probe_wdl finds the value of the position, en passant and stalemate
\* included, from tables that know of neither; probe_ab keeps its promise for
\* any window, whatever the tables hold where a capture is as good.
WdlIsExact ==
  /\ wdl # Nothing => wdl = Wdl(Truth)
  /\ (pc = "done" /\ wdl = Nothing /\ success # 0) => result \in Promised_ab(Wdl(Truth), low, beta)

\* probe_dtz returns the distance, or one less where the table counts in
\* moves; and the value never changes with it.
DtzIsClose == dtz # Nothing => dtz \in Promised_dtz(Truth)

\* The move suggested for the root keeps the value (tbprobe.h): a win stays
\* a win before the counter runs out, and the counter saves a loss that it can
\* save, both unless it is a matter of one ply; a draw stays a draw.
\* And there is a move unless the position is mate or stalemate.
RootKeepsValue ==
  (pc = "done" /\ dtz # Nothing /\ success # 0) =>
    IF moves = {} THEN result = (IF check THEN "checkmate" ELSE "stalemate")
    ELSE /\ result \in moves
         /\ LET c == IF result.kind = "quiet" THEN cnt50 ELSE 0
                after == dtz_to_wdl(c, Worth(result))
            IN  /\ Wdl(Worth(result)) = Wdl(Truth)
                /\ dtz_to_wdl(cnt50 + 1, Truth) = 2 => after = 2
                /\ dtz_to_wdl(cnt50 - 1, Truth) = -1 => after = -1
=============================================================================

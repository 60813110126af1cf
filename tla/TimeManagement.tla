---------------------------- MODULE TimeManagement ----------------------------
(***************************************************************************)
(* The time a search is given: ParseTimeControl (uci.cpp) reads the limits *)
(* of a go command, InitTimeManagement (time.cpp) makes two bounds of them *)
(* in milliseconds, one for starting an iteration and one for stopping in  *)
(* the middle of it.                                                       *)
(*                                                                         *)
(* The code multiplies by doubles and truncates.  0.02, 0.2 and 0.8 are    *)
(* stored a little above their values, so that the product of an int is    *)
(* truncated to the exact quotient; 0.7 is stored a little below, so that  *)
(* an exact quotient may come out one less.                                *)
(***************************************************************************)
EXTENDS Integers

AtLeast(a, b) == IF a >= b THEN a ELSE b
AtMost(a, b) == IF a <= b THEN a ELSE b

overhead == 5
MaxMovesToGo == 50

(* A go command: what it says for either side, 0 where it says nothing.    *)
Go == [time : [{"white", "black"} -> Nat], inc : [{"white", "black"} -> Nat],
       movestogo : Nat, movetime : Nat]

ParseTimeControl(go, stm) ==
  [time |-> go.time[stm], inc |-> go.inc[stm],
   movestogo |-> go.movestogo, movetime |-> go.movetime,
   timelimit |-> go.time[stm] # 0 \/ go.movetime # 0]

(* The moves to plan for, and the time for all of them.                    *)
MovesToGo(limits) ==
  IF limits.movestogo # 0 THEN AtMost(limits.movestogo, MaxMovesToGo) ELSE MaxMovesToGo
TimeLeft(limits) ==
  AtLeast(0, limits.time + limits.inc * (MovesToGo(limits) - 1)
               - overhead * (2 + MovesToGo(limits)))

(* timeLeft * (0.7 / mtg), truncated. *)
SevenTenths(timeLeft, mtg) ==
  LET exact == (7 * timeLeft) \div (10 * mtg)
  IN  {exact} \union {q \in {exact - 1} : q >= 0 /\ (7 * timeLeft) % (10 * mtg) = 0}

(* Mutant: the time on the clock does not cap what increments promise.     *)
Optimal_NoCap(limits) ==
  IF limits.movestogo = 0 THEN {TimeLeft(limits) \div 50}
  ELSE SevenTenths(TimeLeft(limits), MovesToGo(limits))

Optimal(limits) ==
  IF limits.movestogo = 0
  THEN {AtMost(TimeLeft(limits) \div 50, limits.time \div 5)}
  ELSE {AtMost(q, (4 * limits.time) \div 5)
          : q \in SevenTenths(TimeLeft(limits), MovesToGo(limits))}

(* The values InitTimeManagement may leave in Limits.                      *)
InitTimeManagement(limits) ==
  IF limits.movetime # 0
  THEN {[optimalUsage |-> limits.movetime - overhead,
         maxUsage |-> limits.movetime - overhead]}
  ELSE {[optimalUsage |-> t,
         maxUsage |-> AtMost(5 * t, (4 * limits.time) \div 5)] : t \in Optimal(limits)}

(* OutOfTime at a node that looks, and the test after an iteration.        *)
OutOfTime(limits, usage, elapsed) == limits.timelimit /\ elapsed >= usage.maxUsage
-----------------------------------------------------------------------------
(* What a search plans to use is not more than the bound that cuts it.  On *)
(* a clock the plan is not negative, and the search is cut while at least  *)
(* a fifth of the remaining time is left, whatever increments and moves to *)
(* go promise for later.  With a time for the move it is cut before that   *)
(* time less the overhead has passed, and at once when the overhead leaves *)
(* nothing, a clock given besides or not (time.cpp 31-57).                 *)
BudgetFits(go, stm) ==
  LET limits == ParseTimeControl(go, stm)
  IN  \A usage \in InitTimeManagement(limits) :
        limits.timelimit =>
          /\ usage.optimalUsage <= usage.maxUsage
          /\ limits.movetime = 0 =>
               /\ 0 <= usage.optimalUsage
               /\ \A elapsed \in 0..limits.time :
                    ~OutOfTime(limits, usage, elapsed) => 5 * elapsed < 4 * limits.time
          /\ limits.movetime # 0 =>
               \A elapsed \in 0..limits.movetime :
                 ~OutOfTime(limits, usage, elapsed) => elapsed + overhead < limits.movetime
=============================================================================

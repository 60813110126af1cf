--------------------------- MODULE MCAspirationWindow ---------------------------
(* AspirationWindow with scores up to 10 and three iterations, the last    *)
(* two of them with a narrow window.                                       *)
EXTENDS AspirationWindow

CONSTANT e2e4
MCMove == {e2e4}

(* The limits under which the iterations run: clocks of a few milliseconds *)
(* up to twenty seconds, increments below and above the overhead.          *)
MCGo == [time : [{"white", "black"} -> {0, 1, 24, 250, 1000, 20000}],
         inc : [{"white", "black"} -> {0, 4, 6, 5000}],
         movestogo : {0, 1, 2, 40, 51}, movetime : {0, 1, 5, 100}]
=============================================================================

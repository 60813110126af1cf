------------------------ MODULE MCTranspositionTable ------------------------
(* Two positions share the entry, one of them with key 0.  Mate scores     *)
(* begin at 3, so that a ply changes them.                                 *)
EXTENDS TranspositionTable

CONSTANTS t1, t2

OneThread == {t1}
TwoThreads == {t1, t2}
MCKey == {0, 1}
MCScores == {-3, 0, 3}
=============================================================================

--------------------------- MODULE MCSearchControl ---------------------------
(* Two positions, up to two threads (one helper), two iterations.          *)
EXTENDS SearchControl

CONSTANTS r1, r2

MCRoot == {r1, r2}
MCSizes == {1, 2}
=============================================================================

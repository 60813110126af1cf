----------------------------- MODULE MCNNUEEval -----------------------------
(* Three positions, two networks, lines of up to two moves.                *)
EXTENDS NNUEEval

CONSTANTS p1, p2, p3, n1, n2

MCPos == {p1, p2, p3}
MCNet == {n1, n2}
=============================================================================

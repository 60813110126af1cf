---------------------------- MODULE MCMovePicker ----------------------------
(* A ply with two captures, an underpromotion and two quiet moves: every   *)
(* node has any subset of them as its pseudo-legal moves.                  *)
EXTENDS MovePicker

CONSTANTS c1, c2, u, q1, q2

MCMove == {c1, c2, u, q1, q2}
MCGenNoisy == {c1, c2}
MCNoisy == {c1, c2, u}
=============================================================================

--------------------------- MODULE MCGameHistory ----------------------------
(* Three boards, so that each move can go back or on; a counter that wraps *)
(* after seven and draws at six; lines of three moves after games of eight.*)
EXTENDS GameHistory

CONSTANTS b1, b2, b3

MCBoard == {b1, b2, b3}
MCStartClocks == {0, 2}
=============================================================================

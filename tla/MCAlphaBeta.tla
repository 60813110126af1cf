----------------------------- MODULE MCAlphaBeta -----------------------------
(* The call for every small window, ply and value.                        *)
EXTENDS AlphaBeta

\* Without moves, or near the end, in the middle, and deep enough for all
\* kinds of pruning.
MCDepths == {0, 1, 5}
=============================================================================

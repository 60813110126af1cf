----------------------------- MODULE MCTBProbe -----------------------------
(* Every position with up to three legal moves, and a draw after three plies. *)
EXTENDS TBProbe
=============================================================================

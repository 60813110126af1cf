----------------------------- MODULE MCTTMemory -----------------------------
(* A MB of one entry of 2 bytes and blocks of two entries; tables of 1 to  *)
(* 5 entries, 1 to 3 clearing threads, eight keys.                         *)
EXTENDS TTMemory
=============================================================================

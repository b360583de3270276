---------------------------- MODULE MCPoolHealth ----------------------------
(* Three workers, a threshold of 2 and up to seven results: enough for the *)
(* count to pass the threshold, be reset and pass it again.                *)
EXTENDS PoolHealth, TLC

Interchangeable == Permutations(Worker)
=============================================================================

--------------------------- MODULE MCSharedCircuit ---------------------------
(* Two callers, a webhook that answers every call and one that need not:   *)
(* enough for a success of one to fall between any two steps of a failure  *)
(* of the other, and for time to close the circuit again.                  *)
EXTENDS SharedCircuit, TLC

Interchangeable == Permutations(Caller)
=============================================================================

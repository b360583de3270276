-------------------------- MODULE MCCircuitBreaker --------------------------
(* A small instance of CircuitBreaker, whose callers are interchangeable. *)
EXTENDS CircuitBreaker, TLC

Interchangeable == Permutations(Caller)
=============================================================================

-------------------------- MODULE MCCircuitBreaker --------------------------
(* Model-checking instance of CircuitBreaker.                              *)
EXTENDS CircuitBreaker, TLC

CallerSymmetry == Permutations(Callers)
=============================================================================

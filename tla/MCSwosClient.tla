----------------------------- MODULE MCSwosClient ------------------------------
(* Model-checking instance of SwosClient: two callers, which are alike.         *)
EXTENDS SwosClient, TLC

CallerSymmetry == Permutations(Callers)
=============================================================================

----------------------------- MODULE MCRollback -----------------------------
(* Model-checking instance of Rollback.                                    *)
EXTENDS Rollback, TLC

Symmetric == Permutations(Users) \cup Permutations(Record)
=============================================================================

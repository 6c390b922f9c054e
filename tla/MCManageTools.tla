----------------------------- MODULE MCManageTools -----------------------------
(* Model-checking instance of ManageTools: every handler of ToolHandlers.       *)
EXTENDS ManageTools, ToolHandlers, TLC

MCHandlers == IdempotentTools \cup OtherTools
CallerSymmetry == Permutations(Callers)
=============================================================================

---------------------------- MODULE MCHttpSessions -----------------------------
(* Model-checking instance of HttpSessions: requests in progress are alike, and *)
(* so are identities.                                                           *)
EXTENDS HttpSessions, TLC

Symmetry == Permutations(Requests) \cup Permutations(Identities)
=============================================================================

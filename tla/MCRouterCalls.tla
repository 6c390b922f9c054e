---------------------------- MODULE MCRouterCalls ----------------------------
(* Model-checking instance of RouterCalls.                                 *)
EXTENDS RouterCalls, TLC

UserSymmetry == Permutations(Users)

(* What is left of the calls that the next steps and the properties read:   *)
(* nothing of a call that has ended, unless it lost a write; and a result   *)
(* only once it is that of the call under way.  Nor does anything read what *)
(* the breaker's last execution returned.                                   *)
Left(u) ==
    IF pc[u] # "idle"
    THEN <<pc[u], kind[u], lostWrite[u], tries[u], step[u], answered[u],
           IF pc[u] = "planReturn" THEN result[u] ELSE "none">>
    ELSE IF lostWrite[u] # "none" THEN <<kind[u], lostWrite[u], result[u]>>
    ELSE <<>>
Essence ==
    <<currentState, consecutiveFailures, sinceFailure, probeInFlight, exec, drained,
      routerUp, deadCalls, losses, swallowed, [u \in Users |-> Left(u)]>>
=============================================================================

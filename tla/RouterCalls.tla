----------------------------- MODULE RouterCalls -----------------------------
(***************************************************************************)
(* Tool calls to one router: executeToolCall (mcp/tool-executor.ts) as far *)
(* as it meets the network, with the retry engine, the circuit breaker and *)
(* the seven ways a failed request is treated on its way to the caller:    *)
(*   "read"     wrapped in withRetry, throws toolError                     *)
(*   "write"    snapshot first, one attempt, throws toolError              *)
(*   "health"   check_router_health, turns every failure into a result     *)
(*   "preview"  plan_changes, turns every step's failure into a result     *)
(*   "rollback" rollback_change, lets the REST client's raw error through  *)
(*   "plan"     apply_plan, runs each step through the same breaker again  *)
(*   "bulk"     this router's share of a write of bulk_execute: like a      *)
(*              "write", but its error becomes text in the fleet's result  *)
(* An execution of the breaker belongs to a call or to a step inside it.   *)
(*                                                                         *)
(* Code between two awaits is one action: a call that takes no snapshot    *)
(* reaches the breaker's gate in the action that begins it.                *)
(***************************************************************************)
EXTENDS Naturals

CONSTANTS
    Users,              \* concurrent callers, one call each at a time
    Kinds,              \* the kinds of call that are made
    FailureThreshold, Cooldown,
    MaxRetries,         \* config.retry.maxRetries
    PlanSteps,          \* steps of a plan
    Answers             \* what may become of a request

AllKinds == {"read", "write", "health", "preview", "rollback", "plan", "bulk"}

\* What the router may answer, by what enrichError makes of it:
\*   "ok"
\*   "refused"  4xx, or 500 "not enough permissions"
\*   "failed"   any other 5xx (ROUTER_ERROR), 429 (ROUTER_BUSY)
\*   "late"     408, 504 (ROUTER_TIMEOUT)
\*   "closed"   400 "Session closed" (ROUTER_TIMEOUT, code REST_SESSION_CLOSED)
Replies == {"ok", "refused", "failed", "late", "closed"}

\* How a request may end without an answer:
\*   "lost"         with one of UNREACHABLE_CODES or TIMEOUT_CODES
\*   "noHandshake"  in an SSH handshake that timed out (ROUTER_UNREACHABLE)
\*   "unlisted"     with any other code of the network stack (UND_ERR_SOCKET,
\*                  UND_ERR_CONNECT_TIMEOUT, ENOTFOUND), which becomes INTERNAL
Silences == {"lost", "noHandshake", "unlisted"}

ASSUME KindsAssumption == Kinds \subseteq AllKinds
ASSUME AnswersAssumption ==
    /\ Answers \subseteq Replies \cup Silences
    /\ "ok" \in Answers /\ Answers \cap Silences # {}
ASSUME LimitsAssumption == MaxRetries \in Nat /\ PlanSteps \in Nat \ {0}
ASSUME BreakerAssumption == FailureThreshold \in Nat \ {0} /\ Cooldown \in Nat \ {0}

VARIABLES
    currentState, consecutiveFailures, sinceFailure, probeInFlight,
    exec, lastReply, drained,   \* the breaker; see CircuitBreaker
    routerUp,       \* does the router answer?
    pc, kind,       \* what each user's call is waiting for, and its kind
    tries, step,    \* retries made; steps of a plan done
    result,         \* how the user's last call ended
    lostWrite,      \* history: how a write of this call ended without an answer
    deadCalls,      \* history: calls that got no answer since the last answer
    losses,         \* history: requests that showed the router in trouble since
                    \* the last success
    answered,       \* history: has the router answered this call?
    swallowed       \* history: since the last answer a lost request was hidden
                    \* from the breaker

Execs == Users \X {"call", "step"}

B == INSTANCE CircuitBreaker
        WITH Callers <- Execs, call <- exec

cbVars == <<currentState, consecutiveFailures, sinceFailure, probeInFlight,
            exec, lastReply, drained>>
vars == <<cbVars, routerUp, pc, kind, tries, step, result,
          lostWrite, deadCalls, losses, answered, swallowed>>

CallOf(u) == <<u, "call">>
StepOf(u) == <<u, "step">>
PC == {"idle", "snapshot", "request", "badStep", "stepSnapshot", "stepRequest", "planReturn"}
Result == {"none", "ok", "error", "warned", "unhealthy", "planFailed", "routerFailed", "rejected"}

Init ==
    /\ B!Init
    /\ routerUp = TRUE
    /\ pc = [u \in Users |-> "idle"]
    /\ kind \in [Users -> Kinds]
    /\ tries = [u \in Users |-> 0]
    /\ step = [u \in Users |-> 0]
    /\ result = [u \in Users |-> "none"]
    /\ lostWrite = [u \in Users |-> "none"]
    /\ deadCalls = 0
    /\ losses = 0
    /\ answered = [u \in Users |-> FALSE]
    /\ swallowed = FALSE

-----------------------------------------------------------------------------
(* The router                                                              *)

\* What a request gets back.
Answer == Answers \cap IF routerUp THEN Replies ELSE Silences
Silent(a) == a \in Silences

\* Errors of a category in TRANSIENT_CATEGORIES; a closed session is excepted.
Transient(a) == a \in {"failed", "late", "lost", "noHandshake"}

\* Errors of a category in AMBIGUOUS_WRITE_CATEGORIES.
Ambiguous(a) == a \in {"late", "closed", "lost", "noHandshake"}

\* Errors with recoverability.retryable.
Retryable(a) == a \in {"failed", "late", "lost"}

Mutates(k) == k \in {"write", "rollback", "plan", "bulk"}

\* The history kept of an answer (or of none) to a request of user u.
Note(u, a) ==
    /\ answered' = [answered EXCEPT ![u] = @ \/ ~Silent(a)]
    /\ lostWrite' = [lostWrite EXCEPT ![u] = IF Silent(a) /\ Mutates(kind[u]) THEN a ELSE @]

\* The history kept of a request that is not tried again, of a call or of a
\* plan's step; both counts are capped at the threshold.  The router is in
\* trouble when it does not answer or says so: 5xx, 408, 429.
Tally(k, a) ==
    /\ swallowed' = (Silent(a) /\ \/ swallowed \/ a = "unlisted"
                                  \/ k \in {"health", "preview", "rollback"})
    /\ deadCalls' = IF ~Silent(a) THEN 0 ELSE B!Bump(deadCalls)
    /\ losses' = IF a = "ok" THEN 0
                 ELSE IF Silent(a) \/ a \in {"failed", "late"} THEN B!Bump(losses)
                 ELSE losses

\* Mutant: errors of every category count against the router.
SeenAllErrors(k, a) == IF a = "ok" \/ k \in {"health", "preview"} THEN "ok" ELSE "transient"

\* Mutant: writes swallow their failures the way check_router_health does.
SeenSwallowed(k, a) ==
    IF a = "ok" \/ k = "write" THEN "ok" ELSE IF Transient(a) THEN "transient" ELSE "other"

\* Mutant: only an answer of the router counts against it.
SeenAnswersOnly(k, a) ==
    IF a = "ok" THEN "ok" ELSE IF Transient(a) /\ ~Silent(a) THEN "transient" ELSE "other"

\* How the breaker's execute() sees a handler whose request ended with a.
Seen(k, a) ==
    IF a = "ok" \/ k \in {"health", "preview"} THEN "ok"
    ELSE IF Transient(a) /\ k # "rollback" THEN "transient"
    ELSE "other"

RouterFails == routerUp /\ routerUp' = FALSE
RouterReturns == ~routerUp /\ routerUp' = TRUE

-----------------------------------------------------------------------------
(* A call reaches the breaker                                              *)

\* The call ends, with no step of its own in the breaker.
End(u, r) ==
    /\ pc' = [pc EXCEPT ![u] = "idle"]
    /\ result' = [result EXCEPT ![u] = r]

\* cb.execute(...) and what the handler does first.  apply_plan looks its
\* step's tool up (requireTool) and then asks for that step's snapshot.
Gate(u, k) ==
    /\ B!Execute(CallOf(u))
    /\ IF exec'[CallOf(u)] = "idle"
       THEN End(u, "rejected")
       ELSE /\ pc' \in {[pc EXCEPT ![u] = w] :
                           w \in IF k = "plan" THEN {"stepSnapshot", "badStep"} ELSE {"request"}}
            /\ UNCHANGED result

\* executeToolCall up to its first await.
Begin(u, k) ==
    /\ pc[u] = "idle"
    /\ kind' = [kind EXCEPT ![u] = k]
    /\ tries' = [tries EXCEPT ![u] = 0]
    /\ step' = [step EXCEPT ![u] = 0]
    /\ answered' = [answered EXCEPT ![u] = FALSE]
    /\ lostWrite' = [lostWrite EXCEPT ![u] = "none"]
    /\ IF k \in {"write", "bulk"}
       THEN pc' = [pc EXCEPT ![u] = "snapshot"] /\ UNCHANGED <<cbVars, result>>
       ELSE Gate(u, k)
    /\ UNCHANGED <<routerUp, deadCalls, losses, swallowed>>

\* The snapshots are done or have failed (both are tolerated); the write is
\* journaled and goes to the breaker.
SnapshotsDone(u) ==
    /\ pc[u] = "snapshot"
    /\ Gate(u, kind[u])
    /\ UNCHANGED <<routerUp, kind, tries, step, lostWrite, deadCalls, losses, answered, swallowed>>

-----------------------------------------------------------------------------
(* Requests of a call                                                      *)

\* Mutant: the last attempt counts as one that may be retried.
RetryReadOnceMore(u, a) ==
    /\ pc[u] = "request" /\ kind[u] = "read"
    /\ Retryable(a) /\ tries[u] <= MaxRetries
    /\ tries' = [tries EXCEPT ![u] = @ + 1]
    /\ Note(u, a)
    /\ UNCHANGED <<cbVars, routerUp, pc, kind, step, result, deadCalls, losses, swallowed>>

\* withRetry: only reads are retried, inside one execution of the breaker.
RetryRead(u, a) ==
    /\ pc[u] = "request" /\ kind[u] = "read"
    /\ Retryable(a) /\ tries[u] < MaxRetries
    /\ tries' = [tries EXCEPT ![u] = @ + 1]
    /\ Note(u, a)
    /\ UNCHANGED <<cbVars, routerUp, pc, kind, step, result, deadCalls, losses, swallowed>>

\* Mutant: the executor's catch block without the verify-state warning.
AnswerUnwarned(k, a) ==
    IF a = "ok" THEN "ok" ELSE IF k \in {"health", "preview"} THEN "unhealthy"
    ELSE IF k = "bulk" THEN "routerFailed" ELSE "error"

\* What the caller is told.  The catch block of executeToolCall warns that a
\* write whose error is ambiguous may have been applied; bulk_execute catches
\* its routers' errors before it and keeps their messages only.
CallerTold(k, a) ==
    IF a = "ok" THEN "ok"
    ELSE IF k \in {"health", "preview"} THEN "unhealthy"
    ELSE IF k = "bulk" THEN "routerFailed"
    ELSE IF Ambiguous(a) /\ Mutates(k) THEN "warned"
    ELSE "error"

\* The handler settles: the breaker and the executor's catch block act on it.
Settle(u, a) ==
    /\ pc[u] = "request"
    /\ ~(kind[u] = "read" /\ Retryable(a) /\ tries[u] < MaxRetries)
    /\ B!Finish(CallOf(u), Seen(kind[u], a))
    /\ Note(u, a)
    /\ Tally(kind[u], a)
    /\ End(u, CallerTold(kind[u], a))
    /\ UNCHANGED <<routerUp, kind, tries, step>>

-----------------------------------------------------------------------------
(* apply_plan: the handler runs inside one execution of the breaker and    *)
(* puts each step through a second one.                                    *)

\* requireTool throws NOT_FOUND out of the handler.
PlanUnknownTool(u) ==
    /\ pc[u] = "badStep"
    /\ B!Finish(CallOf(u), "other")
    /\ End(u, "error")
    /\ UNCHANGED <<routerUp, kind, tries, step, lostWrite, deadCalls, losses, answered, swallowed>>

\* Mutant: the inner gate waits for the probe in flight instead of refusing.
StepGateWaits(u) ==
    /\ pc[u] = "stepSnapshot"
    /\ ~probeInFlight
    /\ B!Execute(StepOf(u))
    /\ pc' = [pc EXCEPT ![u] = IF exec'[StepOf(u)] = "idle" THEN "planReturn" ELSE "stepRequest"]
    /\ result' = [result EXCEPT ![u] = IF exec'[StepOf(u)] = "idle" THEN "planFailed" ELSE @]
    /\ UNCHANGED <<routerUp, kind, tries, step, lostWrite, deadCalls, losses, answered, swallowed>>

\* The step's snapshots are done; it is journaled and goes to the breaker.
StepGate(u) ==
    /\ pc[u] = "stepSnapshot"
    /\ B!Execute(StepOf(u))
    /\ pc' = [pc EXCEPT ![u] = IF exec'[StepOf(u)] = "idle" THEN "planReturn" ELSE "stepRequest"]
    /\ result' = [result EXCEPT ![u] = IF exec'[StepOf(u)] = "idle" THEN "planFailed" ELSE @]
    /\ UNCHANGED <<routerUp, kind, tries, step, lostWrite, deadCalls, losses, answered, swallowed>>

\* A step settles; the plan goes on after a success and returns otherwise.
StepSettle(u, a) ==
    /\ pc[u] = "stepRequest"
    /\ B!Finish(StepOf(u), Seen("write", a))
    /\ Note(u, a)
    /\ step' = [step EXCEPT ![u] = IF a = "ok" THEN @ + 1 ELSE @]
    /\ IF a = "ok" /\ step'[u] < PlanSteps
       THEN /\ pc' \in {[pc EXCEPT ![u] = w] : w \in {"stepSnapshot", "badStep"}}
            /\ UNCHANGED result
       ELSE /\ pc' = [pc EXCEPT ![u] = "planReturn"]
            /\ result' = [result EXCEPT ![u] = IF a = "ok" THEN "ok" ELSE "planFailed"]
    /\ Tally("write", a)
    /\ UNCHANGED <<routerUp, kind, tries>>

\* The handler returns a result, also for a plan that failed: the outer
\* execution is a success.
PlanReturn(u) ==
    /\ pc[u] = "planReturn"
    /\ B!Finish(CallOf(u), "ok")
    /\ pc' = [pc EXCEPT ![u] = "idle"]
    /\ swallowed' = (swallowed \/ deadCalls > 0)
    /\ UNCHANGED <<routerUp, kind, tries, step, result, lostWrite, deadCalls, losses, answered>>

-----------------------------------------------------------------------------

callVars == <<pc, kind, tries, step, result, lostWrite, deadCalls, losses, answered, swallowed>>

UserStep(u) ==
    \/ SnapshotsDone(u)
    \/ \E a \in Answer : RetryRead(u, a) \/ Settle(u, a) \/ StepSettle(u, a)
    \/ PlanUnknownTool(u) \/ StepGate(u) \/ PlanReturn(u)

Environment ==
    \/ (RouterFails \/ RouterReturns) /\ UNCHANGED <<cbVars, callVars>>
    \/ B!Tick /\ UNCHANGED <<routerUp, callVars>>

Next ==
    \/ \E u \in Users : UserStep(u) \/ (\E k \in Kinds : Begin(u, k))
    \/ Environment

Spec == Init /\ [][Next]_vars

\* Every request has a timeout (rest-client.ts), so a call in flight goes on.
FairSpec == Spec /\ \A u \in Users : WF_vars(UserStep(u))

-----------------------------------------------------------------------------
(* Properties                                                              *)

TypeOK ==
    /\ B!TypeOK
    /\ routerUp \in BOOLEAN
    /\ pc \in [Users -> PC]
    /\ kind \in [Users -> Kinds]
    /\ tries \in [Users -> 0 .. MaxRetries]
    /\ step \in [Users -> 0 .. PlanSteps]
    /\ result \in [Users -> Result]
    /\ lostWrite \in [Users -> {"none"} \cup Silences]
    /\ deadCalls \in 0 .. FailureThreshold
    /\ losses \in 0 .. FailureThreshold
    /\ answered \in [Users -> BOOLEAN]
    /\ swallowed \in BOOLEAN

\* Every call ends: retries are bounded, and a plan whose steps go through the
\* breaker it is itself running in is refused there rather than left waiting
\* for its own probe (change-management-tools.ts:469).
CallsEnd == \A u \in Users : pc[u] # "idle" ~> pc[u] = "idle"

\* The safety part of it: no call ever waits for something that only another
\* call, or nobody, could bring about.
NoCallIsStuck == \A u \in Users : pc[u] # "idle" => ENABLED UserStep(u)

\* Error-Handling.md:79: the breaker opens after FailureThreshold consecutive
\* failures.  When that many calls in a row got no answer at all, the circuit
\* is no longer closed.
TripsOnDeadRouter == deadCalls >= FailureThreshold => currentState # "closed"

\* What holds of this for all kinds of call together: the same, when no lost
\* request was hidden from the breaker since the last answer.  An error with a
\* code that enrichError does not list is INTERNAL, health checks and previews
\* return a result, rollbacks throw an error that is not counted, and a plan's
\* return counts as a success.
TripsUnlessHidden == deadCalls >= FailureThreshold /\ ~swallowed => currentState # "closed"

\* CHANGELOG.md:284: a write that ended without an answer is reported with the
\* warning that it may have been applied.
LostWritesAreFlagged ==
    \A u \in Users :
        pc[u] = "idle" /\ lostWrite[u] # "none" => result[u] = "warned"

\* What holds of this for all kinds of call together: no write that ended
\* without an answer passes for one that was done, or never sent; and it
\* carries the warning unless it was a step of a plan, a write to the fleet, or
\* its error has a code that enrichError does not list.
LostWritesAreReported ==
    \A u \in Users :
        pc[u] = "idle" /\ lostWrite[u] # "none" =>
            /\ result[u] \in {"warned", "error", "planFailed", "routerFailed"}
            /\ kind[u] \notin {"plan", "bulk"} /\ lostWrite[u] # "unlisted"
                  => result[u] = "warned"

\* The circuit never opens on anything but trouble with the router: when it
\* leaves closed, FailureThreshold requests have been lost or answered with 5xx,
\* 408 or 429 since the last success.  What the router refuses, commands it cut
\* off after 60 s (ROUTER_TIMEOUT, circuit-breaker.ts:20), unknown tools and the
\* breaker's own refusals inside a plan (ROUTER_BUSY) do not add up.
OpensOnlyOnLosses ==
    [][currentState = "closed" /\ currentState' = "open" => losses' >= FailureThreshold]_vars

\* Error-Handling.md:79: the circuit closes on a successful probe, that is,
\* on a call that the router answered.
ClosesOnAnswer ==
    [][(currentState # "closed" /\ currentState' = "closed")
          => \E u \in Users :
                /\ answered'[u]
                /\ \E e \in {CallOf(u), StepOf(u)} : exec[e] # "idle" /\ exec'[e] = "idle"]_vars

\* What holds of this: it closes on a call that the router answered, or at the
\* return of a handler that turns failures into results.
ClosesOnReturn ==
    [][(currentState # "closed" /\ currentState' = "closed")
          => \E u \in Users :
                /\ answered'[u] \/ kind[u] \in {"health", "preview", "plan"}
                /\ \E e \in {CallOf(u), StepOf(u)} : exec[e] # "idle" /\ exec'[e] = "idle"]_vars

\* Error-Handling.md:76: while the circuit is open no traffic is sent to the
\* router.
NoTrafficWhileOpen ==
    [][\A u \in Users :
          (pc[u] = "idle" /\ pc'[u] # "idle" /\ B!GateState = "open")
             => pc'[u] \notin {"snapshot", "request", "stepSnapshot"}]_vars

\* Architecture.md:150: a read makes up to 3 attempts.
AtMostThreeAttempts == \A u \in Users : tries[u] + 1 <= 3

\* Architecture.md:150: "The circuit breaker does not trip on read failures."
ReadsDoNotTrip ==
    [][(currentState = "closed" /\ currentState' = "open")
          => \E u \in Users :
                /\ kind[u] # "read"
                /\ \E e \in {CallOf(u), StepOf(u)} : exec[e] # "idle" /\ exec'[e] = "idle"]_vars

\* fleet-tools.ts:488: check_router_health never throws; a device that cannot
\* be reached is reported with healthy=false.
HealthAlwaysReports ==
    \A u \in Users : kind[u] = "health" /\ pc[u] = "idle" => result[u] # "rejected"
=============================================================================

-------------------------- MODULE RouterCallsProofs --------------------------
(***************************************************************************)
(* Tool calls use the circuit breaker as its own specification says, so    *)
(* all that is proved of the breaker holds under them; and what callers    *)
(* and the breaker learn of a router in trouble: for every set of users,   *)
(* any kinds of call, thresholds, retries and lengths of plan.             *)
(***************************************************************************)
EXTENDS RouterCalls, TLAPS

\* The breaker's theorems, about the executions of calls and of plans' steps.
BP == INSTANCE CircuitBreakerProofs
        WITH Callers <- Execs, call <- exec

\* The parts of the type invariant that are not the breaker's.
CallTypes ==
    /\ routerUp \in BOOLEAN
    /\ pc \in [Users -> PC]
    /\ kind \in [Users -> Kinds]
    /\ tries \in [Users -> 0 .. MaxRetries]
    /\ step \in [Users -> 0 .. PlanSteps]
    /\ result \in [Users -> Result]
    /\ lostWrite \in [Users -> {"none"} \cup Silences]
    /\ deadCalls \in 0 .. FailureThreshold
    /\ losses \in 0 .. FailureThreshold
    /\ answered \in [Users -> BOOLEAN]
    /\ swallowed \in BOOLEAN

\* A call waits for what its kind has, and a plan that goes on has steps left.
WaitsAsKind(u) ==
    /\ pc[u] = "snapshot" => kind[u] \in {"write", "bulk"}
    /\ pc[u] = "request" => kind[u] # "plan"
    /\ pc[u] \in {"badStep", "stepSnapshot", "stepRequest"} => step[u] < PlanSteps
    /\ pc[u] \in {"badStep", "stepSnapshot", "stepRequest", "planReturn"} => kind[u] = "plan"

\* A write without an answer ends its call, or its plan, there and then.
ReportsLoss(u) ==
    lostWrite[u] # "none" =>
        /\ pc[u] \in {"idle", "planReturn"}
        /\ result[u] \in {"warned", "error", "planFailed", "routerFailed"}
        /\ kind[u] \notin {"plan", "bulk"} /\ lostWrite[u] # "unlisted" => result[u] = "warned"

\* What the breaker has counted lies between the calls without an answer, while
\* none was hidden from it, and the requests that showed trouble.
CountsAgree ==
    /\ consecutiveFailures <= losses
    /\ ~swallowed => deadCalls <= consecutiveFailures

\* The inductive invariant, next to the breaker's own.
RouterInv ==
    /\ CallTypes
    /\ CountsAgree
    /\ \A u \in Users : WaitsAsKind(u) /\ ReportsLoss(u)

-----------------------------------------------------------------------------
(* The breaker under calls                                                 *)

LEMMA ExecsOf == \A u \in Users : CallOf(u) \in Execs /\ StepOf(u) \in Execs
  BY DEF CallOf, StepOf, Execs

\* What the breaker sees of an answer is one of its outcomes.
LEMMA SeenIsOutcome == \A k, a : Seen(k, a) \in B!Outcome
  BY DEF Seen, B!Outcome

\* Every step of a call is one step of the breaker, or none.
LEMMA StepImplements == [Next]_vars => [B!Next]_(B!vars)
  <1> SUFFICES ASSUME [Next]_vars PROVE [B!Next]_(B!vars)
    OBVIOUS
  <1>1. UNCHANGED cbVars => UNCHANGED B!vars
    BY DEF cbVars, B!vars, B!breakerVars
  <1>2. \A e \in Execs : B!Execute(e) => B!Next
    BY DEF B!Next
  <1>3. \A e \in Execs : \A k, a : B!Finish(e, Seen(k, a)) => B!Next
    BY SeenIsOutcome DEF B!Next
  <1>4. \A e \in Execs : B!Finish(e, "ok") \/ B!Finish(e, "other") => B!Next
    BY DEF B!Next, B!Outcome
  <1>5. CASE UNCHANGED vars
    BY <1>1, <1>5 DEF vars
  <1>6. ASSUME NEW u \in Users, NEW k \in Kinds, Begin(u, k)
        PROVE  B!Next \/ UNCHANGED cbVars
    BY <1>2, <1>6, ExecsOf DEF Begin, Gate
  <1>7. ASSUME NEW u \in Users, UserStep(u)
        PROVE  B!Next \/ UNCHANGED cbVars
    BY <1>2, <1>3, <1>4, <1>7, ExecsOf
       DEF UserStep, SnapshotsDone, Gate, RetryRead, Settle, StepSettle, PlanUnknownTool,
           StepGate, PlanReturn
  <1>8. CASE Environment
    BY <1>1, <1>8 DEF Environment, B!Next
  <1>9. QED
    BY <1>1, <1>5, <1>6, <1>7, <1>8 DEF Next

\* executeToolCall and apply_plan run their handlers inside the breaker as the
\* breaker expects it: whatever calls do, the circuit behaves as specified.
THEOREM CallsUseBreaker == Spec => B!Spec
  <1>1. Init => B!Init
    BY DEF Init
  <1>2. QED
    BY <1>1, StepImplements, PTL DEF Spec, B!Spec

\* The breaker of the proofs is the breaker of the calls.
LEMMA SameBreaker ==
    /\ B!Init => BP!Init
    /\ [B!Next]_(B!vars) => [BP!Next]_(BP!vars)
  <1>1. B!Init => BP!Init
    BY DEF B!Init, BP!Init
  <1>2. \A e : B!Execute(e) => BP!Execute(e)
    <2>1. B!ApplyCooldown => BP!ApplyCooldown
      BY DEF B!ApplyCooldown, BP!ApplyCooldown, B!GateState, BP!GateState,
             B!CooldownElapsed, BP!CooldownElapsed, B!Running, BP!Running
    <2>2. B!GateState = BP!GateState
      BY DEF B!GateState, BP!GateState, B!CooldownElapsed, BP!CooldownElapsed
    <2>3. \A e : /\ B!RejectOpen(e) => BP!RejectOpen(e)
                 /\ B!RejectProbeInFlight(e) => BP!RejectProbeInFlight(e)
                 /\ B!AdmitProbe(e) => BP!AdmitProbe(e)
                 /\ B!AdmitNormal(e) => BP!AdmitNormal(e)
      BY <2>2 DEF B!RejectOpen, BP!RejectOpen, B!RejectProbeInFlight, BP!RejectProbeInFlight,
                  B!AdmitProbe, BP!AdmitProbe, B!AdmitNormal, BP!AdmitNormal
    <2>4. QED
      BY <2>1, <2>3 DEF B!Execute, BP!Execute
  <1>3. \A e, o : B!Finish(e, o) => BP!Finish(e, o)
    <2>1. \A n : B!Bump(n) = BP!Bump(n)
      BY DEF B!Bump, BP!Bump
    <2>2. (B!OnSuccess => BP!OnSuccess) /\ (B!OnFailure => BP!OnFailure)
      BY <2>1 DEF B!OnSuccess, BP!OnSuccess, B!OnFailure, BP!OnFailure
    <2>3. QED
      BY <2>2 DEF B!Finish, BP!Finish, B!ClearProbeFlag, BP!ClearProbeFlag
  <1>4. (B!Tick => BP!Tick) /\ B!Outcome = BP!Outcome
    BY DEF B!Tick, BP!Tick, B!Outcome, BP!Outcome
  <1>5. B!Next => BP!Next
    BY <1>2, <1>3, <1>4 DEF B!Next, BP!Next
  <1>6. UNCHANGED B!vars => UNCHANGED BP!vars
    BY DEF B!vars, BP!vars, B!breakerVars, BP!breakerVars
  <1>7. QED
    BY <1>1, <1>5, <1>6

\* What is proved of the breaker alone holds of it under calls.
THEOREM BreakerHolds == Spec => []BP!BreakerInv
  <1>1. BP!Spec => []BP!BreakerInv
    BY BP!BreakerInvariant, BreakerAssumption
  <1>2. Init => BP!Init
    BY SameBreaker DEF Init
  <1>3. [Next]_vars => [BP!Next]_(BP!vars)
    BY StepImplements, SameBreaker
  <1>4. QED
    BY <1>1, <1>2, <1>3, PTL DEF Spec, BP!Spec

LEMMA BreakerTypes == BP!BreakerInv => B!TypeOK
  BY DEF BP!BreakerInv, BP!TypeOK, B!TypeOK, BP!CircuitState, B!CircuitState,
         BP!CallState, B!CallState, BP!Reply, B!Reply, BP!Outcome, B!Outcome

LEMMA BelowThreshold ==
    BP!BreakerInv => (currentState = "closed" <=> consecutiveFailures < FailureThreshold)
  BY DEF BP!BreakerInv, BP!ClosedIffBelowThreshold

-----------------------------------------------------------------------------
(* The counts                                                              *)

LEMMA BumpFacts ==
    ASSUME NEW m \in 0 .. FailureThreshold, NEW n \in 0 .. FailureThreshold
    PROVE  /\ B!Bump(n) \in 0 .. FailureThreshold /\ n <= B!Bump(n)
           /\ m <= n => B!Bump(m) <= B!Bump(n)
  BY BreakerAssumption DEF B!Bump

\* How a settling execution changes the breaker's count.
LEMMA FinishCounts ==
    ASSUME NEW e, NEW o, B!Finish(e, o)
    PROVE  /\ o = "ok" => consecutiveFailures' = 0
           /\ o = "transient" => consecutiveFailures' = B!Bump(consecutiveFailures)
           /\ o = "other" => consecutiveFailures' = consecutiveFailures
  BY DEF B!Finish, B!OnSuccess, B!OnFailure

\* A request that is not tried again moves the counts together.
LEMMA TallyCounts ==
    ASSUME B!TypeOK, CallTypes, CountsAgree, NEW e, NEW k, NEW a \in Answer,
           B!Finish(e, Seen(k, a)), Tally(k, a)
    PROVE  /\ CountsAgree'
           /\ deadCalls' \in 0 .. FailureThreshold /\ losses' \in 0 .. FailureThreshold
           /\ swallowed' \in BOOLEAN
  <1>1. /\ consecutiveFailures \in 0 .. FailureThreshold /\ deadCalls \in 0 .. FailureThreshold
        /\ losses \in 0 .. FailureThreshold /\ swallowed \in BOOLEAN
        /\ a \in Replies \cup Silences /\ FailureThreshold \in Nat
    BY BreakerAssumption DEF B!TypeOK, CallTypes, Answer
  <1>2. \A m, n \in {consecutiveFailures, deadCalls, losses} :
            /\ B!Bump(n) \in 0 .. FailureThreshold /\ n <= B!Bump(n)
            /\ m <= n => B!Bump(m) <= B!Bump(n)
    BY <1>1, BumpFacts
  <1>3. /\ deadCalls' = IF ~Silent(a) THEN 0 ELSE B!Bump(deadCalls)
        /\ losses' = IF a = "ok" THEN 0
                     ELSE IF Silent(a) \/ a \in {"failed", "late"} THEN B!Bump(losses)
                     ELSE losses
        /\ swallowed' = (Silent(a) /\ \/ swallowed \/ a = "unlisted"
                                      \/ k \in {"health", "preview", "rollback"})
    BY DEF Tally
  <1>4. /\ a = "ok" => consecutiveFailures' = 0
        /\ consecutiveFailures' \in {0, consecutiveFailures, B!Bump(consecutiveFailures)}
        /\ ~Transient(a) => consecutiveFailures' \in {0, consecutiveFailures}
        /\ Transient(a) /\ k \notin {"health", "preview", "rollback"}
              => consecutiveFailures' = B!Bump(consecutiveFailures)
    BY FinishCounts DEF Seen, Transient
  <1>5. consecutiveFailures' <= losses'
    <2>1. consecutiveFailures <= losses
      BY DEF CountsAgree
    <2>2. CASE a = "ok"
      BY <1>1, <1>3, <1>4, <2>2
    <2>3. CASE a # "ok" /\ ~Transient(a)
      BY <1>1, <1>2, <1>3, <1>4, <2>1, <2>3
    <2>4. CASE a # "ok" /\ Transient(a)
      <3>1. losses' = B!Bump(losses)
        BY <1>3, <2>4 DEF Transient, Silent, Silences
      <3>2. QED
        BY <1>1, <1>2, <1>4, <2>1, <3>1
    <2>5. QED
      BY <2>2, <2>3, <2>4
  <1>6. ~swallowed' => deadCalls' <= consecutiveFailures'
    <2>1. CASE ~Silent(a)
      BY <1>1, <1>2, <1>3, <1>4, <2>1
    <2>2. CASE Silent(a)
      <3> SUFFICES ASSUME ~swallowed' PROVE deadCalls' <= consecutiveFailures'
        OBVIOUS
      <3>1. ~swallowed /\ a # "unlisted" /\ k \notin {"health", "preview", "rollback"}
        BY <1>3, <2>2
      <3>2. Transient(a)
        BY <2>2, <3>1 DEF Silent, Silences, Transient
      <3>3. deadCalls' = B!Bump(deadCalls) /\ deadCalls <= consecutiveFailures
        BY <1>3, <2>2, <3>1 DEF CountsAgree
      <3>4. QED
        BY <1>1, <1>2, <1>4, <3>1, <3>2, <3>3
    <2>3. QED
      BY <2>1, <2>2
  <1>7. deadCalls' \in 0 .. FailureThreshold /\ losses' \in 0 .. FailureThreshold
    <2>1. 0 \in 0 .. FailureThreshold
      BY <1>1
    <2>2. QED
      BY <1>1, <1>2, <1>3, <2>1
  <1>8. swallowed' \in BOOLEAN
    BY <1>3
  <1>9. QED
    BY <1>5, <1>6, <1>7, <1>8 DEF CountsAgree

\* A step that passes a gate or waits leaves the counts alone.
LEMMA CountsKept ==
    ASSUME CountsAgree, UNCHANGED <<consecutiveFailures, deadCalls, losses, swallowed>>
    PROVE  CountsAgree'
  BY DEF CountsAgree

-----------------------------------------------------------------------------
(* The steps of a call                                                     *)

\* What stays of the other users' calls.
LEMMA OthersKept ==
    ASSUME RouterInv, NEW u \in Users, CallTypes', CountsAgree',
           \A v \in Users : v # u =>
               /\ pc'[v] = pc[v] /\ kind'[v] = kind[v] /\ step'[v] = step[v]
               /\ result'[v] = result[v] /\ lostWrite'[v] = lostWrite[v],
           WaitsAsKind(u)', ReportsLoss(u)'
    PROVE  RouterInv'
  BY DEF RouterInv, WaitsAsKind, ReportsLoss

LEMMA BeginKeeps ==
    ASSUME RouterInv, NEW u \in Users, NEW k \in Kinds, Begin(u, k)
    PROVE  RouterInv'
  <1> USE DEF RouterInv
  <1>1. PICK w \in PC, r \in Result :
          /\ pc' = [pc EXCEPT ![u] = w] /\ result' = [result EXCEPT ![u] = r]
          /\ w \in {"idle", "snapshot", "stepSnapshot", "badStep", "request"}
          /\ w = "snapshot" => k \in {"write", "bulk"}
          /\ w = "request" => k # "plan"
          /\ w \in {"stepSnapshot", "badStep"} => k = "plan"
          /\ UNCHANGED consecutiveFailures
    <2>1. CASE k \in {"write", "bulk"}
      <3>1. pc' = [pc EXCEPT ![u] = "snapshot"] /\ result' = [result EXCEPT ![u] = result[u]]
        BY <2>1 DEF Begin, CallTypes
      <3>2. result[u] \in Result
        BY DEF CallTypes
      <3>3. QED
        BY <2>1, <3>1, <3>2 DEF Begin, cbVars, PC
    <2>2. CASE k \notin {"write", "bulk"}
      <3>1. Gate(u, k) /\ UNCHANGED consecutiveFailures
        BY <2>2 DEF Begin, Gate, B!Execute
      <3>2. CASE exec'[CallOf(u)] = "idle"
        BY <3>1, <3>2 DEF Gate, End, PC, Result
      <3>3. CASE exec'[CallOf(u)] # "idle"
        <4>1. result' = [result EXCEPT ![u] = result[u]] /\ result[u] \in Result
          BY <3>1, <3>3 DEF Gate, CallTypes
        <4>2. QED
          BY <3>1, <3>3, <4>1 DEF Gate, PC
      <3>4. QED
        BY <3>2, <3>3
    <2>3. QED
      BY <2>1, <2>2
  <1>2. /\ kind' = [kind EXCEPT ![u] = k] /\ tries' = [tries EXCEPT ![u] = 0]
        /\ step' = [step EXCEPT ![u] = 0] /\ answered' = [answered EXCEPT ![u] = FALSE]
        /\ lostWrite' = [lostWrite EXCEPT ![u] = "none"]
        /\ UNCHANGED <<routerUp, deadCalls, losses, swallowed>>
    BY DEF Begin
  <1>3. CallTypes'
    BY <1>1, <1>2, LimitsAssumption DEF CallTypes
  <1>4. WaitsAsKind(u)' /\ ReportsLoss(u)'
    BY <1>1, <1>2, LimitsAssumption DEF CallTypes, WaitsAsKind, ReportsLoss
  <1>5. CountsAgree'
    BY <1>1, <1>2, CountsKept
  <1>6. QED
    BY <1>1, <1>2, <1>3, <1>4, <1>5, OthersKept DEF CallTypes

\* Steps that only change what the call waits for, and maybe its result.
LEMMA MovesKeep ==
    ASSUME RouterInv, NEW u \in Users, NEW w \in PC, NEW r \in Result,
           pc' = [pc EXCEPT ![u] = w], result' = [result EXCEPT ![u] = r],
           UNCHANGED <<routerUp, kind, tries, step, lostWrite, deadCalls, losses, answered>>,
           swallowed' \in BOOLEAN, CountsAgree',
           w = "request" => kind[u] # "plan",
           w = "stepRequest" => step[u] < PlanSteps,
           w \notin {"snapshot", "badStep", "stepSnapshot"},
           w \in {"stepRequest", "planReturn"} => kind[u] = "plan",
           lostWrite[u] # "none" => w \in {"idle", "planReturn"} /\ r = result[u]
    PROVE  RouterInv'
  <1>1. CallTypes'
    BY DEF RouterInv, CallTypes
  <1>2. WaitsAsKind(u)' /\ ReportsLoss(u)'
    BY DEF RouterInv, CallTypes, WaitsAsKind, ReportsLoss
  <1>3. QED
    BY <1>1, <1>2, OthersKept DEF RouterInv, CallTypes

LEMMA SnapshotsDoneKeeps ==
    ASSUME RouterInv, NEW u \in Users, SnapshotsDone(u)
    PROVE  RouterInv'
  <1>1. kind[u] \in {"write", "bulk"} /\ lostWrite[u] = "none" /\ result[u] \in Result /\ swallowed \in BOOLEAN
    BY DEF RouterInv, WaitsAsKind, ReportsLoss, SnapshotsDone, CallTypes
  <1>2. UNCHANGED <<consecutiveFailures, deadCalls, losses, swallowed>>
    BY DEF SnapshotsDone, Gate, B!Execute
  <1>3. CountsAgree'
    BY <1>2, CountsKept DEF RouterInv
  <1>4. CASE exec'[CallOf(u)] = "idle"
    <2>1. pc' = [pc EXCEPT ![u] = "idle"] /\ result' = [result EXCEPT ![u] = "rejected"]
      BY <1>4 DEF SnapshotsDone, Gate, End
    <2>2. QED
      BY <1>1, <1>2, <1>3, <2>1, MovesKeep DEF SnapshotsDone, PC, Result
  <1>5. CASE exec'[CallOf(u)] # "idle"
    <2>1. pc' = [pc EXCEPT ![u] = "request"] /\ result' = [result EXCEPT ![u] = result[u]]
      BY <1>1, <1>5 DEF SnapshotsDone, Gate, RouterInv, CallTypes
    <2>2. QED
      BY <1>1, <1>2, <1>3, <2>1, MovesKeep DEF SnapshotsDone, PC
  <1>6. QED
    BY <1>4, <1>5

LEMMA RetryReadKeeps ==
    ASSUME RouterInv, NEW u \in Users, NEW a, RetryRead(u, a)
    PROVE  RouterInv'
  <1>1. /\ kind[u] = "read" /\ pc[u] = "request" /\ tries[u] < MaxRetries
        /\ tries' = [tries EXCEPT ![u] = @ + 1] /\ Note(u, a)
        /\ UNCHANGED <<cbVars, routerUp, pc, kind, step, result, deadCalls, losses, swallowed>>
    BY DEF RetryRead
  <1>2. lostWrite' = lostWrite
    BY <1>1 DEF Note, Mutates, RouterInv, CallTypes
  <1>3. answered' \in [Users -> BOOLEAN]
    BY <1>1 DEF Note, RouterInv, CallTypes
  <1>4. tries' \in [Users -> 0 .. MaxRetries]
    BY <1>1, LimitsAssumption DEF RouterInv, CallTypes
  <1>5. CallTypes'
    BY <1>1, <1>2, <1>3, <1>4 DEF RouterInv, CallTypes
  <1>6. CountsAgree'
    BY <1>1, CountsKept DEF cbVars, RouterInv
  <1>7. QED
    BY <1>1, <1>2, <1>5, <1>6 DEF RouterInv, WaitsAsKind, ReportsLoss

\* The types of the history that Note keeps.
LEMMA NoteTypes ==
    ASSUME CallTypes, NEW u \in Users, NEW a, Note(u, a)
    PROVE  /\ answered' \in [Users -> BOOLEAN]
           /\ lostWrite' \in [Users -> {"none"} \cup Silences]
           /\ \A v \in Users : v # u => lostWrite'[v] = lostWrite[v]
           /\ lostWrite'[u] # "none" =>
                  \/ lostWrite'[u] = lostWrite[u]
                  \/ lostWrite'[u] = a /\ Silent(a) /\ Mutates(kind[u])
           /\ answered'[u] <=> answered[u] \/ ~Silent(a)
  BY DEF Note, CallTypes, Silent

LEMMA SettleKeeps ==
    ASSUME RouterInv, B!TypeOK, NEW u \in Users, NEW a \in Answer, Settle(u, a)
    PROVE  RouterInv'
  <1>1. /\ pc[u] = "request" /\ kind[u] # "plan" /\ lostWrite[u] = "none"
        /\ Note(u, a) /\ Tally(kind[u], a) /\ B!Finish(CallOf(u), Seen(kind[u], a))
        /\ pc' = [pc EXCEPT ![u] = "idle"]
        /\ result' = [result EXCEPT ![u] = CallerTold(kind[u], a)]
        /\ UNCHANGED <<routerUp, kind, tries, step>>
    BY DEF Settle, End, RouterInv, WaitsAsKind, ReportsLoss
  <1>2. CallerTold(kind[u], a) \in Result
    BY DEF CallerTold, Result
  <1>3. /\ CountsAgree' /\ swallowed' \in BOOLEAN
        /\ deadCalls' \in 0 .. FailureThreshold /\ losses' \in 0 .. FailureThreshold
    BY <1>1, TallyCounts DEF RouterInv
  <1>4. CallTypes'
    BY <1>1, <1>2, <1>3, NoteTypes DEF RouterInv, CallTypes, PC
  <1>5. WaitsAsKind(u)'
    BY <1>1 DEF RouterInv, CallTypes, WaitsAsKind
  <1>6. ReportsLoss(u)'
    <2> SUFFICES ASSUME lostWrite'[u] # "none"
                 PROVE  /\ pc'[u] = "idle"
                        /\ result'[u] \in {"warned", "error", "routerFailed"}
                        /\ kind'[u] # "bulk" /\ lostWrite'[u] # "unlisted"
                              => result'[u] = "warned"
      BY <1>1 DEF ReportsLoss
    <2>1. lostWrite'[u] = a /\ Silent(a) /\ Mutates(kind[u])
      BY <1>1, NoteTypes DEF RouterInv
    <2>2. CallerTold(kind[u], a) \in {"warned", "error", "routerFailed"}
      BY <2>1 DEF CallerTold, Mutates, Silent, Silences
    <2>3. kind[u] # "bulk" /\ a # "unlisted" => CallerTold(kind[u], a) = "warned"
      BY <2>1 DEF CallerTold, Mutates, Silent, Silences, Ambiguous
    <2>4. QED
      BY <1>1, <2>1, <2>2, <2>3 DEF RouterInv, CallTypes
  <1>7. QED
    BY <1>1, <1>3, <1>4, <1>5, <1>6, NoteTypes, OthersKept DEF RouterInv, CallTypes

LEMMA StepSettleKeeps ==
    ASSUME RouterInv, B!TypeOK, NEW u \in Users, NEW a \in Answer, StepSettle(u, a)
    PROVE  RouterInv'
  <1>1. /\ kind[u] = "plan" /\ lostWrite[u] = "none" /\ step[u] < PlanSteps
        /\ step[u] \in 0 .. PlanSteps /\ result[u] \in Result
        /\ Note(u, a) /\ Tally("write", a) /\ B!Finish(StepOf(u), Seen("write", a))
        /\ step' = [step EXCEPT ![u] = IF a = "ok" THEN @ + 1 ELSE @]
        /\ UNCHANGED <<routerUp, kind, tries>>
    BY DEF StepSettle, RouterInv, WaitsAsKind, ReportsLoss, CallTypes
  <1>2. PICK w \in PC, r \in Result :
          /\ pc' = [pc EXCEPT ![u] = w] /\ result' = [result EXCEPT ![u] = r]
          /\ \/ w \in {"stepSnapshot", "badStep"} /\ a = "ok" /\ step'[u] < PlanSteps
             \/ w = "planReturn" /\ (a # "ok" => r = "planFailed")
    <2>1. CASE a = "ok" /\ step'[u] < PlanSteps
      <3>1. result' = [result EXCEPT ![u] = result[u]]
        BY <2>1 DEF StepSettle, RouterInv, CallTypes
      <3>2. QED
        BY <1>1, <2>1, <3>1 DEF StepSettle, PC
    <2>2. CASE ~(a = "ok" /\ step'[u] < PlanSteps)
      BY <2>2 DEF StepSettle, PC, Result
    <2>3. QED
      BY <2>1, <2>2
  <1>3. step' \in [Users -> 0 .. PlanSteps]
    BY <1>1, LimitsAssumption DEF RouterInv, CallTypes
  <1>4. /\ CountsAgree' /\ swallowed' \in BOOLEAN
        /\ deadCalls' \in 0 .. FailureThreshold /\ losses' \in 0 .. FailureThreshold
    BY <1>1, TallyCounts DEF RouterInv
  <1>5. CallTypes'
    BY <1>1, <1>2, <1>3, <1>4, NoteTypes DEF RouterInv, CallTypes
  <1>6. WaitsAsKind(u)'
    BY <1>1, <1>2 DEF RouterInv, CallTypes, WaitsAsKind
  <1>7. ReportsLoss(u)'
    <2> SUFFICES ASSUME lostWrite'[u] # "none"
                 PROVE  pc'[u] = "planReturn" /\ result'[u] = "planFailed"
      BY <1>1 DEF ReportsLoss
    <2>1. a # "ok"
      BY <1>1, NoteTypes DEF RouterInv, Silent, Silences
    <2>2. QED
      BY <1>2, <2>1 DEF RouterInv, CallTypes
  <1>8. QED
    BY <1>1, <1>2, <1>4, <1>5, <1>6, <1>7, NoteTypes, OthersKept DEF RouterInv, CallTypes

LEMMA PlanUnknownToolKeeps ==
    ASSUME RouterInv, NEW u \in Users, PlanUnknownTool(u)
    PROVE  RouterInv'
  <1>1. lostWrite[u] = "none" /\ swallowed \in BOOLEAN
    BY DEF RouterInv, ReportsLoss, PlanUnknownTool, CallTypes
  <1>2. UNCHANGED <<consecutiveFailures, deadCalls, losses, swallowed>>
    BY FinishCounts DEF PlanUnknownTool
  <1>3. CountsAgree'
    BY <1>2, CountsKept DEF RouterInv
  <1>4. QED
    BY <1>1, <1>3, MovesKeep DEF PlanUnknownTool, End, PC, Result

LEMMA StepGateKeeps ==
    ASSUME RouterInv, NEW u \in Users, StepGate(u)
    PROVE  RouterInv'
  <1>1. /\ kind[u] = "plan" /\ lostWrite[u] = "none" /\ step[u] < PlanSteps
        /\ result[u] \in Result /\ swallowed \in BOOLEAN
    BY DEF RouterInv, WaitsAsKind, ReportsLoss, StepGate, CallTypes
  <1>2. UNCHANGED <<consecutiveFailures, deadCalls, losses, swallowed>>
    BY DEF StepGate, B!Execute
  <1>3. CountsAgree'
    BY <1>2, CountsKept DEF RouterInv
  <1>4. CASE exec'[StepOf(u)] = "idle"
    <2>1. pc' = [pc EXCEPT ![u] = "planReturn"] /\ result' = [result EXCEPT ![u] = "planFailed"]
      BY <1>4 DEF StepGate
    <2>2. QED
      BY <1>1, <1>2, <1>3, <2>1, MovesKeep DEF StepGate, PC, Result
  <1>5. CASE exec'[StepOf(u)] # "idle"
    <2>1. pc' = [pc EXCEPT ![u] = "stepRequest"] /\ result' = [result EXCEPT ![u] = result[u]]
      BY <1>5 DEF StepGate, RouterInv, CallTypes
    <2>2. "stepRequest" \in PC
      BY DEF PC
    <2>3. UNCHANGED <<routerUp, kind, tries, step, lostWrite, deadCalls, losses, answered>>
      BY DEF StepGate
    <2>4. swallowed' \in BOOLEAN
      BY <1>1, <1>2
    <2>5. QED
      BY <1>1, <1>3, <2>1, <2>2, <2>3, <2>4, MovesKeep
  <1>6. QED
    BY <1>4, <1>5

LEMMA PlanReturnKeeps ==
    ASSUME RouterInv, B!TypeOK, NEW u \in Users, PlanReturn(u)
    PROVE  RouterInv'
  <1>1. result[u] \in Result /\ result' = [result EXCEPT ![u] = result[u]]
    BY DEF RouterInv, PlanReturn, CallTypes
  <1>2. consecutiveFailures' = 0 /\ UNCHANGED <<deadCalls, losses>>
    BY FinishCounts DEF PlanReturn
  <1>3. /\ deadCalls \in 0 .. FailureThreshold /\ losses \in 0 .. FailureThreshold
        /\ swallowed \in BOOLEAN /\ FailureThreshold \in Nat
    BY BreakerAssumption DEF RouterInv, CallTypes
  <1>4. swallowed' = (swallowed \/ deadCalls > 0)
    BY DEF PlanReturn
  <1>5. swallowed' \in BOOLEAN
    BY <1>4
  <1>6. ~swallowed' => deadCalls = 0
    <2>1. deadCalls > 0 => swallowed'
      BY <1>4
    <2>2. deadCalls > 0 \/ deadCalls = 0
      BY <1>3
    <2>3. QED
      BY <2>1, <2>2
  <1>7. CountsAgree'
    BY <1>2, <1>3, <1>6 DEF CountsAgree
  <1>8. QED
    BY <1>1, <1>5, <1>7, MovesKeep DEF PlanReturn, PC

LEMMA EnvironmentKeeps ==
    ASSUME RouterInv, Environment
    PROVE  RouterInv'
  <1>1. /\ UNCHANGED <<callVars, consecutiveFailures>>
        /\ routerUp' \in {TRUE, FALSE, routerUp}
    BY DEF Environment, RouterFails, RouterReturns, cbVars, B!Tick
  <1>2. CallTypes'
    BY <1>1 DEF RouterInv, CallTypes, callVars
  <1>3. CountsAgree'
    BY <1>1, CountsKept DEF RouterInv, callVars
  <1>4. QED
    BY <1>1, <1>2, <1>3 DEF RouterInv, WaitsAsKind, ReportsLoss, callVars

LEMMA RouterKept == RouterInv /\ BP!BreakerInv /\ [Next]_vars => RouterInv'
  <1> SUFFICES ASSUME RouterInv, BP!BreakerInv, [Next]_vars PROVE RouterInv'
    OBVIOUS
  <1>1. B!TypeOK
    BY BreakerTypes
  <1>2. CASE UNCHANGED vars
    BY <1>2 DEF vars, cbVars, RouterInv, CallTypes, CountsAgree, WaitsAsKind, ReportsLoss
  <1>3. ASSUME NEW u \in Users, UserStep(u)
        PROVE  RouterInv'
    BY <1>1, <1>3, SnapshotsDoneKeeps, RetryReadKeeps, SettleKeeps, StepSettleKeeps,
       PlanUnknownToolKeeps, StepGateKeeps, PlanReturnKeeps DEF UserStep
  <1>4. ASSUME NEW u \in Users, NEW k \in Kinds, Begin(u, k)
        PROVE  RouterInv'
    BY <1>4, BeginKeeps
  <1>5. CASE Environment
    BY <1>5, EnvironmentKeeps
  <1>6. QED
    BY <1>2, <1>3, <1>4, <1>5 DEF Next

-----------------------------------------------------------------------------

\* Both inductive invariants hold in every reachable state.
THEOREM RouterInvariant == Spec => [](BP!BreakerInv /\ RouterInv)
  <1>1. Init => RouterInv
    <2> SUFFICES ASSUME Init PROVE RouterInv
      OBVIOUS
    <2>1. CallTypes
      <3>1. 0 \in 0 .. MaxRetries /\ 0 \in 0 .. PlanSteps /\ 0 \in 0 .. FailureThreshold
        BY LimitsAssumption, BreakerAssumption
      <3>2. "idle" \in PC /\ "none" \in Result
        BY DEF PC, Result
      <3>3. QED
        BY <3>1, <3>2 DEF Init, CallTypes
    <2>2. CountsAgree
      BY DEF Init, B!Init, CountsAgree
    <2>3. QED
      BY <2>1, <2>2 DEF Init, RouterInv, WaitsAsKind, ReportsLoss
  <1>2. QED
    BY <1>1, BreakerHolds, RouterKept, PTL DEF Spec

\* Every variable keeps its type: no call is tried more often than MaxRetries
\* allows, and no plan runs past its last step.
THEOREM TypeCorrect == Spec => []TypeOK
  <1>1. BP!BreakerInv /\ RouterInv => TypeOK
    BY BreakerTypes DEF RouterInv, CallTypes, TypeOK
  <1>2. QED
    BY <1>1, RouterInvariant, PTL

\* A router that leaves FailureThreshold calls in a row without an answer
\* trips the breaker, unless one of them was hidden from it: by its handler or by
\* an error code that enrichError does not list.
THEOREM DeadRouterTrips == Spec => []TripsUnlessHidden
  <1>1. BP!BreakerInv /\ RouterInv => TripsUnlessHidden
    <2> SUFFICES ASSUME BP!BreakerInv, RouterInv, deadCalls >= FailureThreshold, ~swallowed
                 PROVE  currentState # "closed"
      BY DEF TripsUnlessHidden
    <2>1. /\ deadCalls \in 0 .. FailureThreshold
          /\ consecutiveFailures \in 0 .. FailureThreshold /\ FailureThreshold \in Nat
      BY BreakerTypes, BreakerAssumption DEF RouterInv, CallTypes, B!TypeOK
    <2>2. deadCalls <= consecutiveFailures
      BY DEF RouterInv, CountsAgree
    <2>3. QED
      BY <2>1, <2>2, BelowThreshold
  <1>2. QED
    BY <1>1, RouterInvariant, PTL

\* A write that ended without an answer is reported as failed, and with the
\* warning unless a plan or the fleet's result says it, or its error has a code
\* that enrichError does not list.
THEOREM LossIsReported == Spec => []LostWritesAreReported
  <1>1. RouterInv => LostWritesAreReported
    BY DEF RouterInv, ReportsLoss, LostWritesAreReported
  <1>2. QED
    BY <1>1, RouterInvariant, PTL

\* The circuit opens only after FailureThreshold requests that were lost or
\* answered with 5xx, 408 or 429.
THEOREM OpensAfterLosses == Spec => OpensOnlyOnLosses
  <1> DEFINE Tripped == currentState = "open" => losses >= FailureThreshold
  <1>1. BP!BreakerInv /\ RouterInv => Tripped
    <2> SUFFICES ASSUME BP!BreakerInv, RouterInv, currentState = "open"
                 PROVE  losses >= FailureThreshold
      OBVIOUS
    <2>1. /\ losses \in 0 .. FailureThreshold /\ consecutiveFailures <= losses
          /\ consecutiveFailures \in 0 .. FailureThreshold /\ FailureThreshold \in Nat
      BY BreakerTypes, BreakerAssumption DEF RouterInv, CallTypes, CountsAgree, B!TypeOK
    <2>2. QED
      BY <2>1, BelowThreshold
  <1>2. Tripped' => [currentState = "closed" /\ currentState' = "open"
                        => losses' >= FailureThreshold]_vars
    OBVIOUS
  <1>3. QED
    BY <1>1, <1>2, RouterInvariant, PTL DEF OpensOnlyOnLosses

\* An execution that closes the circuit has ended with a success.
LEMMA ClosingFinish ==
    ASSUME B!TypeOK, NEW e \in Execs, NEW o, B!Finish(e, o),
           currentState # "closed", currentState' = "closed"
    PROVE  o = "ok" /\ exec[e] # "idle" /\ exec'[e] = "idle"
  <1>1. exec[e] # "idle" /\ exec'[e] = "idle"
    BY DEF B!Finish, B!TypeOK
  <1>2. o = "ok"
    BY DEF B!Finish, B!OnFailure
  <1>3. QED
    BY <1>1, <1>2

\* Nothing but the end of an execution closes the circuit.
LEMMA GateDoesNotClose ==
    ASSUME NEW e, B!Execute(e), currentState # "closed"
    PROVE  currentState' # "closed"
  BY DEF B!Execute, B!ApplyCooldown, B!GateState

\* The circuit closes only as a call that the router answered settles, or as a
\* handler that turns failures into results returns.
THEOREM ClosesAsCallReturns == Spec => ClosesOnReturn
  <1> DEFINE Closes == currentState # "closed" /\ currentState' = "closed"
             Returns == \E u \in Users :
                /\ answered'[u] \/ kind[u] \in {"health", "preview", "plan"}
                /\ \E e \in {CallOf(u), StepOf(u)} : exec[e] # "idle" /\ exec'[e] = "idle"
  <1>1. ASSUME BP!BreakerInv, RouterInv, [Next]_vars, Closes
        PROVE  Returns
    <2>1. B!TypeOK
      BY <1>1, BreakerTypes
    <2>2. PICK u \in Users : UserStep(u)
      <3>1. ~UNCHANGED vars
        BY <1>1 DEF vars, cbVars
      <3>2. ~Environment
        BY <1>1 DEF Environment, cbVars, B!Tick
      <3>3. ~ \E u \in Users, k \in Kinds : Begin(u, k)
        BY <1>1, GateDoesNotClose DEF Begin, Gate, cbVars
      <3>4. QED
        BY <1>1, <3>1, <3>2, <3>3 DEF Next
    <2>3. ASSUME NEW a \in Answer, Settle(u, a)
          PROVE  Returns
      <3>1. /\ Seen(kind[u], a) = "ok"
            /\ exec[CallOf(u)] # "idle" /\ exec'[CallOf(u)] = "idle"
        BY <1>1, <2>1, <2>3, ClosingFinish, ExecsOf DEF Settle
      <3>2. a = "ok" \/ kind[u] \in {"health", "preview"}
        BY <3>1 DEF Seen
      <3>3. answered'[u] \/ kind[u] \in {"health", "preview", "plan"}
        BY <1>1, <2>3, <3>2, NoteTypes DEF Settle, RouterInv, Silent, Silences
      <3>4. QED
        BY <3>1, <3>3
    <2>4. ASSUME NEW a \in Answer, StepSettle(u, a)
          PROVE  Returns
      <3>1. exec[StepOf(u)] # "idle" /\ exec'[StepOf(u)] = "idle"
        BY <1>1, <2>1, <2>4, ClosingFinish, ExecsOf DEF StepSettle
      <3>2. kind[u] = "plan"
        BY <1>1, <2>4 DEF StepSettle, RouterInv, WaitsAsKind
      <3>3. QED
        BY <3>1, <3>2
    <2>5. CASE PlanReturn(u)
      <3>1. exec[CallOf(u)] # "idle" /\ exec'[CallOf(u)] = "idle"
        BY <1>1, <2>1, <2>5, ClosingFinish, ExecsOf DEF PlanReturn
      <3>2. kind[u] = "plan"
        BY <1>1, <2>5 DEF PlanReturn, RouterInv, WaitsAsKind
      <3>3. QED
        BY <3>1, <3>2
    <2>6. CASE PlanUnknownTool(u)
      BY <1>1, <2>1, <2>6, ClosingFinish, ExecsOf DEF PlanUnknownTool
    <2>7. CASE SnapshotsDone(u) \/ StepGate(u)
      BY <1>1, <2>7, GateDoesNotClose DEF SnapshotsDone, Gate, StepGate
    <2>8. ASSUME NEW a, RetryRead(u, a)
          PROVE  FALSE
      BY <1>1, <2>8 DEF RetryRead, cbVars
    <2>9. QED
      BY <2>2, <2>3, <2>4, <2>5, <2>6, <2>7, <2>8 DEF UserStep
  <1>2. BP!BreakerInv /\ RouterInv /\ [Next]_vars => [Closes => Returns]_vars
    BY <1>1
  <1>3. QED
    BY <1>2, RouterInvariant, PTL DEF Spec, ClosesOnReturn

-----------------------------------------------------------------------------
(* Executions of the breaker belong to the calls that run them             *)

\* A call is inside the breaker from its gate until it settles, a step of a
\* plan while its request is on its way.
ExecsOwned ==
    \A u \in Users : /\ exec[CallOf(u)] = "idle" <=> pc[u] \in {"idle", "snapshot"}
                     /\ exec[StepOf(u)] = "idle" <=> pc[u] # "stepRequest"

LEMMA ExecsDiffer ==
    /\ \A u, v \in Users : CallOf(u) # StepOf(v)
    /\ \A u, v \in Users : u # v => CallOf(u) # CallOf(v) /\ StepOf(u) # StepOf(v)
  BY DEF CallOf, StepOf

\* An execution that begins or ends is no one else's.
LEMMA OneExecMoves ==
    ASSUME B!TypeOK, NEW e \in Execs,
           B!Execute(e) \/ \E o : B!Finish(e, o)
    PROVE  /\ \A d \in Execs : d # e => exec'[d] = exec[d]
           /\ B!Execute(e) => exec[e] = "idle"
           /\ (\E o : B!Finish(e, o)) => exec[e] # "idle" /\ exec'[e] = "idle"
  BY DEF B!TypeOK, B!Execute, B!Finish, B!RejectOpen, B!RejectProbeInFlight, B!AdmitProbe,
         B!AdmitNormal

\* A step of user u that moves one of its executions with what it waits for.
LEMMA OwnerMoves ==
    ASSUME ExecsOwned, RouterInv, NEW u \in Users, NEW w, pc' = [pc EXCEPT ![u] = w],
           \A v \in Users : v # u => /\ exec'[CallOf(v)] = exec[CallOf(v)]
                                     /\ exec'[StepOf(v)] = exec[StepOf(v)],
           exec'[CallOf(u)] = "idle" <=> w \in {"idle", "snapshot"},
           exec'[StepOf(u)] = "idle" <=> w # "stepRequest"
    PROVE  ExecsOwned'
  BY DEF ExecsOwned, RouterInv, CallTypes

LEMMA OwnedKept == BP!BreakerInv /\ RouterInv /\ ExecsOwned /\ [Next]_vars => ExecsOwned'
  <1> SUFFICES ASSUME BP!BreakerInv, RouterInv, ExecsOwned, [Next]_vars PROVE ExecsOwned'
    OBVIOUS
  <1>1. B!TypeOK
    BY BreakerTypes
  <1>2. CASE UNCHANGED <<exec, pc>>
    BY <1>2 DEF ExecsOwned
  <1>3. ASSUME NEW u \in Users, NEW k, Gate(u, k), pc[u] \in {"idle", "snapshot"}
        PROVE  ExecsOwned'
    <2>1. B!Execute(CallOf(u)) /\ exec[StepOf(u)] = "idle"
      BY <1>3 DEF Gate, ExecsOwned
    <2>2. \A d \in Execs : d # CallOf(u) => exec'[d] = exec[d]
      BY <1>1, <2>1, ExecsOf, OneExecMoves
    <2>3. PICK w : /\ pc' = [pc EXCEPT ![u] = w]
                   /\ w \in {"idle", "stepSnapshot", "badStep", "request"}
                   /\ exec'[CallOf(u)] = "idle" <=> w = "idle"
      BY <1>3 DEF Gate, End
    <2>4. QED
      BY <2>1, <2>2, <2>3, ExecsOf, ExecsDiffer, OwnerMoves
  <1>4. ASSUME NEW u \in Users, NEW o, B!Finish(CallOf(u), o), pc[u] # "stepRequest",
               pc' = [pc EXCEPT ![u] = "idle"]
        PROVE  ExecsOwned'
    <2>1. exec'[CallOf(u)] = "idle" /\ \A d \in Execs : d # CallOf(u) => exec'[d] = exec[d]
      BY <1>1, <1>4, ExecsOf, OneExecMoves
    <2>2. exec[StepOf(u)] = "idle"
      BY <1>4 DEF ExecsOwned
    <2>3. QED
      BY <1>4, <2>1, <2>2, ExecsOf, ExecsDiffer, OwnerMoves
  <1>5. ASSUME NEW u \in Users, StepGate(u)
        PROVE  ExecsOwned'
    <2>1. \A d \in Execs : d # StepOf(u) => exec'[d] = exec[d]
      BY <1>1, <1>5, ExecsOf, OneExecMoves DEF StepGate
    <2>2. exec[CallOf(u)] # "idle"
      BY <1>5 DEF StepGate, ExecsOwned
    <2>3. PICK w \in {"planReturn", "stepRequest"} :
            pc' = [pc EXCEPT ![u] = w] /\ (exec'[StepOf(u)] = "idle" <=> w # "stepRequest")
      BY <1>5 DEF StepGate
    <2>4. QED
      BY <2>1, <2>2, <2>3, ExecsOf, ExecsDiffer, OwnerMoves
  <1>6. ASSUME NEW u \in Users, NEW a, StepSettle(u, a)
        PROVE  ExecsOwned'
    <2>1. exec'[StepOf(u)] = "idle" /\ \A d \in Execs : d # StepOf(u) => exec'[d] = exec[d]
      BY <1>1, <1>6, ExecsOf, OneExecMoves DEF StepSettle
    <2>2. exec[CallOf(u)] # "idle"
      <3>1. pc[u] = "stepRequest"
        BY <1>6 DEF StepSettle
      <3>2. QED
        BY <3>1 DEF ExecsOwned
    <2>3. PICK w \in {"planReturn", "stepSnapshot", "badStep"} : pc' = [pc EXCEPT ![u] = w]
      BY <1>6 DEF StepSettle
    <2>4. QED
      BY <2>1, <2>2, <2>3, ExecsOf, ExecsDiffer, OwnerMoves
  <1>7. ASSUME NEW u \in Users, UserStep(u)
        PROVE  ExecsOwned'
    <2>1. SnapshotsDone(u) => ExecsOwned'
      BY <1>3 DEF SnapshotsDone
    <2>2. (\E a : RetryRead(u, a)) => ExecsOwned'
      BY <1>2 DEF RetryRead, cbVars
    <2>3. (\E a : Settle(u, a)) \/ PlanUnknownTool(u) \/ PlanReturn(u) => ExecsOwned'
      BY <1>4 DEF Settle, PlanUnknownTool, PlanReturn, End
    <2>4. QED
      BY <1>5, <1>6, <1>7, <2>1, <2>2, <2>3 DEF UserStep
  <1>8. ASSUME NEW u \in Users, NEW k \in Kinds, Begin(u, k)
        PROVE  ExecsOwned'
    <2>1. CASE k \in {"write", "bulk"}
      BY <1>8, <2>1, OwnerMoves DEF Begin, cbVars, ExecsOwned
    <2>2. CASE k \notin {"write", "bulk"}
      BY <1>3, <1>8, <2>2 DEF Begin
    <2>3. QED
      BY <2>1, <2>2
  <1>9. CASE Environment
    BY <1>2, <1>9 DEF Environment, cbVars, callVars, B!Tick
  <1>10. QED
    BY <1>2, <1>7, <1>8, <1>9 DEF Next, vars, cbVars

\* No execution of the breaker outlives its call, and none is missing: what a
\* waiting call does next finds the execution that it is to settle, and the
\* gate it asks is free of it.
THEOREM ExecutionsAreOwned == Spec => []ExecsOwned
  <1>1. Init => ExecsOwned
    BY ExecsOf DEF Init, B!Init, ExecsOwned
  <1>2. QED
    BY <1>1, OwnedKept, RouterInvariant, PTL DEF Spec

-----------------------------------------------------------------------------
(* Reads and writes by themselves, on a network whose errors all have a    *)
(* code that enrichError lists: nothing is hidden from the breaker, and    *)
(* the claims of the docs hold as they are made.                           *)

PlainKinds == Kinds \subseteq {"read", "write"}
CodesListed == "unlisted" \notin Answers

LEMMA PlainPC ==
    ASSUME PlainKinds, RouterInv, NEW u \in Users
    PROVE  /\ kind[u] \in {"read", "write"}
           /\ pc[u] \notin {"badStep", "stepSnapshot", "stepRequest", "planReturn"}
  BY DEF PlainKinds, RouterInv, CallTypes, WaitsAsKind

LEMMA NothingHidden ==
    ASSUME PlainKinds, CodesListed, RouterInv, [Next]_vars, ~swallowed
    PROVE  ~swallowed'
  <1>1. CASE UNCHANGED vars
    BY <1>1 DEF vars
  <1>2. ASSUME NEW u \in Users, UserStep(u)
        PROVE  ~swallowed'
    <2>1. ASSUME NEW a \in Answer, Settle(u, a)
          PROVE  ~swallowed'
      BY <2>1, PlainPC DEF Settle, Tally, CodesListed, Answer
    <2>2. SnapshotsDone(u) \/ (\E a : RetryRead(u, a)) => swallowed' = swallowed
      BY DEF SnapshotsDone, RetryRead
    <2>3. QED
      BY <1>2, <2>1, <2>2, PlainPC
         DEF UserStep, StepSettle, PlanUnknownTool, StepGate, PlanReturn
  <1>3. ASSUME NEW u \in Users, NEW k \in Kinds, Begin(u, k)
        PROVE  ~swallowed'
    BY <1>3 DEF Begin
  <1>4. CASE Environment
    BY <1>4 DEF Environment, callVars
  <1>5. QED
    BY <1>1, <1>2, <1>3, <1>4 DEF Next

\* Error-Handling.md: as many reads and writes in a row without an answer as
\* the threshold says open the circuit, if their errors have listed codes.
THEOREM PlainCallsTrip ==
    ASSUME PlainKinds, CodesListed
    PROVE  Spec => []TripsOnDeadRouter
  <1>1. Init => ~swallowed
    BY DEF Init
  <1>2. RouterInv /\ [Next]_vars /\ ~swallowed => (~swallowed)'
    BY NothingHidden
  <1>3. ~swallowed /\ TripsUnlessHidden => TripsOnDeadRouter
    BY DEF TripsUnlessHidden, TripsOnDeadRouter
  <1>4. QED
    BY <1>1, <1>2, <1>3, RouterInvariant, DeadRouterTrips, PTL DEF Spec

\* On such a network no write ends with an unlisted code.
LEMMA ListedKept ==
    ASSUME CodesListed, RouterInv, [Next]_vars, \A u \in Users : lostWrite[u] # "unlisted"
    PROVE  \A u \in Users : lostWrite'[u] # "unlisted"
  <1>1. ASSUME NEW u \in Users, NEW a \in Answer, Note(u, a)
        PROVE  \A v \in Users : lostWrite'[v] # "unlisted"
    BY <1>1 DEF Note, CodesListed, Answer, RouterInv, CallTypes
  <1>2. CASE UNCHANGED lostWrite
    BY <1>2
  <1>3. ASSUME NEW u \in Users, UserStep(u)
        PROVE  \A v \in Users : lostWrite'[v] # "unlisted"
    BY <1>1, <1>2, <1>3 DEF UserStep, SnapshotsDone, RetryRead, Settle, StepSettle,
                            PlanUnknownTool, StepGate, PlanReturn
  <1>4. ASSUME NEW u \in Users, NEW k \in Kinds, Begin(u, k)
        PROVE  \A v \in Users : lostWrite'[v] # "unlisted"
    BY <1>4 DEF Begin, RouterInv, CallTypes
  <1>5. CASE Environment
    BY <1>2, <1>5 DEF Environment, callVars
  <1>6. QED
    BY <1>2, <1>3, <1>4, <1>5 DEF Next, vars

\* The catch block of executeToolCall warns of every write without an answer, if
\* its error has a listed code.
THEOREM PlainLossIsFlagged ==
    ASSUME PlainKinds, CodesListed
    PROVE  Spec => []LostWritesAreFlagged
  <1> DEFINE Listed == \A u \in Users : lostWrite[u] # "unlisted"
  <1>1. Init => Listed
    BY DEF Init
  <1>2. RouterInv /\ [Next]_vars /\ Listed => Listed'
    BY ListedKept DEF CodesListed
  <1>3. RouterInv /\ Listed => LostWritesAreFlagged
    BY PlainPC DEF RouterInv, ReportsLoss, LostWritesAreFlagged
  <1>4. QED
    BY <1>1, <1>2, <1>3, RouterInvariant, PTL DEF Spec

\* Error-Handling.md: the circuit closes on a call that the router answered.
THEOREM PlainCallsClose ==
    ASSUME PlainKinds
    PROVE  Spec => ClosesOnAnswer
  <1>1. RouterInv =>
          ([(currentState # "closed" /\ currentState' = "closed")
              => \E u \in Users :
                    /\ answered'[u] \/ kind[u] \in {"health", "preview", "plan"}
                    /\ \E e \in {CallOf(u), StepOf(u)} : exec[e] # "idle" /\ exec'[e] = "idle"]_vars
           => [(currentState # "closed" /\ currentState' = "closed")
                 => \E u \in Users :
                       /\ answered'[u]
                       /\ \E e \in {CallOf(u), StepOf(u)} : exec[e] # "idle" /\ exec'[e] = "idle"]_vars)
    <2>1. RouterInv => \A u \in Users : kind[u] \notin {"health", "preview", "plan"}
      BY PlainPC
    <2>2. QED
      BY <2>1
  <1>2. QED
    BY <1>1, RouterInvariant, ClosesAsCallReturns, PTL DEF ClosesOnReturn, ClosesOnAnswer
=============================================================================

------------------------ MODULE CircuitBreakerProofs ------------------------
(***************************************************************************)
(* The safety of the circuit breaker for every set of callers, every       *)
(* threshold and every cooldown.                                           *)
(***************************************************************************)
EXTENDS CircuitBreaker, TLAPS

\* While the circuit that went half-open with nothing in flight stays
\* half-open, a running call always holds the probe flag: this is what keeps
\* the gate shut, and what a call admitted before the trip breaks.
DrainedHoldsFlag ==
    currentState = "half-open" /\ drained /\ Running # {} => probeInFlight

\* The inductive invariant.
BreakerInv ==
    /\ TypeOK
    /\ ClosedIffBelowThreshold
    /\ ProbeFlagOwned
    /\ ProbesWaitFullCooldown
    /\ OneProbeOnceDrained
    /\ DrainedHoldsFlag

\* The saturating failure counter of onFailure stays in its range and reaches
\* the threshold exactly when the counter of the code does.
LEMMA BumpInRange ==
    ASSUME NEW n \in 0 .. FailureThreshold
    PROVE  /\ Bump(n) \in 0 .. FailureThreshold
           /\ Bump(n) >= FailureThreshold <=> n + 1 >= FailureThreshold
           /\ Bump(n) >= n
  BY ThresholdAssumption DEF Bump

\* The initial state, a closed breaker with no call, satisfies the invariant.
LEMMA InitEstablishes == Init => BreakerInv
  <1> SUFFICES ASSUME Init PROVE BreakerInv
    OBVIOUS
  <1> USE ThresholdAssumption, CooldownAssumption DEF Init
  <1>1. TypeOK
    <2>1. /\ currentState \in CircuitState
          /\ consecutiveFailures \in 0 .. FailureThreshold
          /\ sinceFailure \in 0 .. Cooldown
      BY DEF CircuitState
    <2>2. /\ call \in [Callers -> CallState]
          /\ lastReply \in Reply
      BY DEF CallState, Reply
    <2>3. probeInFlight \in BOOLEAN /\ drained \in BOOLEAN
      OBVIOUS
    <2>4. QED
      BY <2>1, <2>2, <2>3 DEF TypeOK
  <1>2. ClosedIffBelowThreshold /\ ProbeFlagOwned /\ ProbesWaitFullCooldown
    BY DEF ClosedIffBelowThreshold, ProbeFlagOwned, ProbesWaitFullCooldown
  <1>3. OneProbeOnceDrained /\ DrainedHoldsFlag
    BY DEF OneProbeOnceDrained, DrainedHoldsFlag
  <1>4. QED
    BY <1>1, <1>2, <1>3 DEF BreakerInv

\* The gate of execute() preserves the invariant, whichever way it answers.
LEMMA ExecutePreserves ==
    ASSUME BreakerInv, NEW c \in Callers, Execute(c)
    PROVE  BreakerInv'
  <1> USE ThresholdAssumption, CooldownAssumption
  <1> DEFINE opens == currentState = "open" /\ CooldownElapsed
  <1>1. /\ call[c] = "idle"
        /\ currentState' = GateState
        /\ drained' = IF opens THEN Running = {} ELSE drained
        /\ UNCHANGED <<consecutiveFailures, sinceFailure>>
    BY DEF Execute, ApplyCooldown, GateState
  <1>2. GateState = IF opens THEN "half-open" ELSE currentState
    BY DEF GateState
  <1>3. \/ RejectOpen(c) \/ RejectProbeInFlight(c) \/ AdmitProbe(c) \/ AdmitNormal(c)
    BY DEF Execute
  <1>4. TypeOK'
    BY <1>1, <1>2, <1>3
       DEF BreakerInv, TypeOK, CircuitState, CallState, Reply, Outcome,
           RejectOpen, RejectProbeInFlight, AdmitProbe, AdmitNormal
  <1>5. ClosedIffBelowThreshold'
    BY <1>1, <1>2 DEF BreakerInv, ClosedIffBelowThreshold
  <1>6. ProbesWaitFullCooldown'
    BY <1>1, <1>2 DEF BreakerInv, ProbesWaitFullCooldown, CooldownElapsed
  <1>7. ProbeFlagOwned' /\ OneProbeOnceDrained' /\ DrainedHoldsFlag'
    <2>1. CASE RejectOpen(c)
      <3>1. currentState' = "open" /\ UNCHANGED <<call, probeInFlight>> /\ ~probeInFlight
        BY <2>1, <1>1, <1>2 DEF RejectOpen, BreakerInv, ProbeFlagOwned
      <3>2. QED
        BY <3>1 DEF ProbeFlagOwned, OneProbeOnceDrained, DrainedHoldsFlag
    <2>2. CASE RejectProbeInFlight(c)
      <3>1. probeInFlight /\ currentState = "half-open"
        BY <2>2 DEF RejectProbeInFlight, BreakerInv, ProbeFlagOwned
      <3>2. currentState' = currentState /\ drained' = drained
            /\ UNCHANGED <<call, probeInFlight>>
        BY <3>1, <2>2, <1>1, <1>2 DEF RejectProbeInFlight
      <3>3. QED
        BY <3>2 DEF BreakerInv, ProbeFlagOwned, OneProbeOnceDrained, DrainedHoldsFlag,
                    Running, Probes
    <2>3. CASE AdmitProbe(c)
      <3>1. /\ currentState' = "half-open"
            /\ ~probeInFlight
            /\ probeInFlight'
            /\ call' = [call EXCEPT ![c] = "probe"]
        BY <2>3, <1>1 DEF AdmitProbe
      <3>2. c \in Probes'
        BY <3>1 DEF Probes, BreakerInv, TypeOK
      <3>3. drained' => Running = {}
        BY <3>1, <1>1, <1>2 DEF BreakerInv, DrainedHoldsFlag
      <3>4. Running' \subseteq Running \cup {c}
        BY <3>1 DEF Running, BreakerInv, TypeOK
      <3>5. QED
        BY <3>1, <3>2, <3>3, <3>4
           DEF ProbeFlagOwned, OneProbeOnceDrained, DrainedHoldsFlag
    <2>4. CASE AdmitNormal(c)
      <3>1. currentState' = "closed" /\ probeInFlight' = probeInFlight /\ ~probeInFlight
        BY <2>4, <1>1, <1>2 DEF AdmitNormal, BreakerInv, ProbeFlagOwned
      <3>2. QED
        BY <3>1 DEF ProbeFlagOwned, OneProbeOnceDrained, DrainedHoldsFlag
    <2>5. QED
      BY <1>3, <2>1, <2>2, <2>3, <2>4
  <1>8. QED
    BY <1>4, <1>5, <1>6, <1>7 DEF BreakerInv

\* A settling call preserves the invariant, in whatever state it finds the
\* circuit.
LEMMA FinishPreserves ==
    ASSUME BreakerInv, NEW c \in Callers, NEW o \in Outcome, Finish(c, o)
    PROVE  BreakerInv'
  <1> USE ThresholdAssumption, CooldownAssumption
  <1>1. /\ call[c] # "idle"
        /\ probeInFlight' = FALSE
        /\ call' = [call EXCEPT ![c] = "idle"]
        /\ lastReply' = o
        /\ drained' = drained
    BY DEF Finish, ClearProbeFlag
  <1>2. ProbeFlagOwned'
    BY <1>1 DEF ProbeFlagOwned
  <1>3. /\ currentState' \in CircuitState
        /\ consecutiveFailures' \in 0 .. FailureThreshold
        /\ sinceFailure' \in 0 .. Cooldown
        /\ ClosedIffBelowThreshold'
        /\ ProbesWaitFullCooldown'
        /\ currentState' = "half-open" => currentState = "half-open"
    <2>1. CASE OnSuccess
      BY <2>1 DEF OnSuccess, BreakerInv, TypeOK, CircuitState,
                  ClosedIffBelowThreshold, ProbesWaitFullCooldown
    <2>2. CASE OnFailure
      <3>1. /\ Bump(consecutiveFailures) \in 0 .. FailureThreshold
            /\ Bump(consecutiveFailures) >= consecutiveFailures
        BY BumpInRange DEF BreakerInv, TypeOK
      <3>2. currentState' # "half-open"
        <4>1. CASE currentState = "half-open"
          BY <2>2, <4>1 DEF OnFailure
        <4>2. CASE currentState # "half-open"
          BY <2>2, <4>2 DEF OnFailure
        <4>3. QED BY <4>1, <4>2
      <3>3. ClosedIffBelowThreshold'
        BY <2>2, <3>1 DEF OnFailure, BreakerInv, TypeOK, CircuitState, ClosedIffBelowThreshold
      <3>4. QED
        BY <2>2, <3>1, <3>2, <3>3
           DEF OnFailure, BreakerInv, TypeOK, CircuitState, ProbesWaitFullCooldown
    <2>3. CASE UNCHANGED <<currentState, consecutiveFailures, sinceFailure>>
      BY <2>3 DEF BreakerInv, TypeOK, ClosedIffBelowThreshold, ProbesWaitFullCooldown
    <2>4. QED
      BY <2>1, <2>2, <2>3 DEF Finish
  <1>4. TypeOK'
    BY <1>1, <1>3 DEF BreakerInv, TypeOK, CallState, Reply
  <1>5. OneProbeOnceDrained' /\ DrainedHoldsFlag'
    <2>1. SUFFICES ASSUME currentState' = "half-open", drained'
                   PROVE  Running' = {}
      BY DEF OneProbeOnceDrained, DrainedHoldsFlag
    <2>2. \A d \in Running : d = c
      BY <2>1, <1>1, <1>3 DEF BreakerInv, OneProbeOnceDrained, Running
    <2>3. QED
      BY <2>2, <1>1 DEF Running, BreakerInv, TypeOK
  <1>6. QED
    BY <1>2, <1>3, <1>4, <1>5 DEF BreakerInv

\* Passing time preserves the invariant: a half-open circuit is already past
\* its cooldown.
LEMMA TickPreserves == ASSUME BreakerInv, Tick PROVE BreakerInv'
  BY CooldownAssumption
     DEF BreakerInv, Tick, TypeOK, ClosedIffBelowThreshold, ProbeFlagOwned,
         ProbesWaitFullCooldown, OneProbeOnceDrained, DrainedHoldsFlag, Running, Probes

\* The inductive invariant holds in every reachable state.
THEOREM BreakerInvariant == Spec => []BreakerInv
  <1>1. BreakerInv /\ [Next]_vars => BreakerInv'
    <2> SUFFICES ASSUME BreakerInv, [Next]_vars PROVE BreakerInv'
      OBVIOUS
    <2>1. ASSUME NEW c \in Callers, Execute(c) PROVE BreakerInv'
      BY <2>1, ExecutePreserves
    <2>2. ASSUME NEW c \in Callers, NEW o \in Outcome, Finish(c, o) PROVE BreakerInv'
      BY <2>2, FinishPreserves
    <2>3. CASE Tick
      BY <2>3, TickPreserves
    <2>4. CASE UNCHANGED vars
      BY <2>4 DEF vars, breakerVars, BreakerInv, TypeOK, ClosedIffBelowThreshold,
                  ProbeFlagOwned, ProbesWaitFullCooldown, OneProbeOnceDrained,
                  DrainedHoldsFlag, Running, Probes
    <2>5. QED
      BY <2>1, <2>2, <2>3, <2>4 DEF Next
  <1>2. QED
    BY InitEstablishes, <1>1, PTL DEF Spec

\* Every variable of the breaker keeps its type.
THEOREM TypeCorrect == Spec => []TypeOK
  BY BreakerInvariant, PTL DEF BreakerInv

\* The circuit is closed exactly while the counted failures are below the
\* threshold (onSuccess, onFailure), for every interleaving of calls.
THEOREM ClosedBelowThreshold == Spec => []ClosedIffBelowThreshold
  BY BreakerInvariant, PTL DEF BreakerInv

\* A set probe flag always has a probe in flight that will clear it, so
\* CIRCUIT_PROBE_IN_FLIGHT is never answered for ever.
THEOREM ProbeFlagHasOwner == Spec => []ProbeFlagOwned
  BY BreakerInvariant, PTL DEF BreakerInv

\* Every probe is sent a full cooldown after the latest counted failure.
THEOREM ProbesAreSpaced == Spec => []ProbesWaitFullCooldown
  BY BreakerInvariant, PTL DEF BreakerInv

\* With nothing left over from before the trip, a half-open circuit has at
\* most one call in flight, for any number of callers.
THEOREM OneProbe == Spec => []OneProbeOnceDrained
  BY BreakerInvariant, PTL DEF BreakerInv
=============================================================================

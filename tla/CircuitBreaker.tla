--------------------------- MODULE CircuitBreaker ---------------------------
(***************************************************************************)
(* The per-router circuit breaker (adapter/circuit-breaker.ts) under       *)
(* concurrent tool calls.  One Node process runs many calls at once; a     *)
(* call passes the gate of `execute`, awaits its router request while the  *)
(* others go on, and settles later.  The gate and the settling code are    *)
(* each one synchronous block, so each is one action.                      *)
(*                                                                         *)
(* Two counters are kept only as far as the code compares them:            *)
(* consecutiveFailures saturates at FailureThreshold (it is only tested    *)
(* with >=, line 157) and lastFailureTime is kept as the time since the    *)
(* last counted failure, saturating at Cooldown (line 63).                 *)
(***************************************************************************)
EXTENDS Naturals

CONSTANTS
    Callers,            \* concurrent users of one router's breaker
    FailureThreshold,   \* options.failureThreshold
    Cooldown            \* options.cooldownMs, in clock ticks

ASSUME ThresholdAssumption == FailureThreshold \in Nat \ {0}
ASSUME CooldownAssumption == Cooldown \in Nat \ {0}

VARIABLES
    currentState,         \* "closed" | "open" | "half-open"
    consecutiveFailures,
    sinceFailure,         \* Date.now() - lastFailureTime, saturating
    probeInFlight,
    call,                 \* what each caller's execute() is doing
    lastReply,            \* how the latest execute() to end has ended
    drained               \* history: did the last open -> half-open change
                          \* happen with no earlier call still in flight?

breakerVars == <<currentState, consecutiveFailures, sinceFailure, probeInFlight>>
vars == <<breakerVars, call, lastReply, drained>>

CircuitState == {"closed", "open", "half-open"}
\* A call is not running, or was admitted by the gate in the closed state, or
\* was admitted as the probe of a half-open circuit.
CallState == {"idle", "normal", "probe"}
\* How the awaited fn() can settle: the router answered, the request failed
\* with an error isTransientFailure accepts, or with any other error.
Outcome == {"ok", "transient", "other"}
Reply == Outcome \cup {"none", "CIRCUIT_OPEN", "CIRCUIT_PROBE_IN_FLIGHT"}

Running == {c \in Callers : call[c] # "idle"}
Probes == {c \in Callers : call[c] = "probe"}

Init ==
    /\ currentState = "closed"
    /\ consecutiveFailures = 0
    /\ sinceFailure = Cooldown      \* lastFailureTime = 0, long ago
    /\ probeInFlight = FALSE
    /\ call = [c \in Callers |-> "idle"]
    /\ lastReply = "none"
    /\ drained = TRUE

-----------------------------------------------------------------------------
(* execute(): the gate                                                     *)

CooldownElapsed == sinceFailure = Cooldown

\* The state the gate sees after transitionIfCooldownElapsed.
GateState ==
    IF currentState = "open" /\ CooldownElapsed THEN "half-open" ELSE currentState

\* transitionIfCooldownElapsed, with the history of what was in flight.
ApplyCooldown ==
    /\ currentState' = GateState
    /\ drained' = IF currentState # GateState THEN Running = {} ELSE drained

RejectOpen(c) ==
    /\ GateState = "open"
    /\ lastReply' = "CIRCUIT_OPEN"
    /\ UNCHANGED <<probeInFlight, call>>

RejectProbeInFlight(c) ==
    /\ GateState = "half-open"
    /\ probeInFlight
    /\ lastReply' = "CIRCUIT_PROBE_IN_FLIGHT"
    /\ UNCHANGED <<probeInFlight, call>>

\* Mutant: a probe is let through without being marked in flight.
AdmitProbeUnmarked(c) ==
    /\ GateState = "half-open"
    /\ ~probeInFlight
    /\ call' = [call EXCEPT ![c] = "probe"]
    /\ UNCHANGED <<probeInFlight, lastReply>>

AdmitProbe(c) ==
    /\ GateState = "half-open"
    /\ ~probeInFlight
    /\ probeInFlight' = TRUE
    /\ call' = [call EXCEPT ![c] = "probe"]
    /\ UNCHANGED lastReply

AdmitNormal(c) ==
    /\ GateState = "closed"
    /\ call' = [call EXCEPT ![c] = "normal"]
    /\ UNCHANGED <<probeInFlight, lastReply>>

Execute(c) ==
    /\ call[c] = "idle"
    /\ ApplyCooldown
    /\ \/ RejectOpen(c)
       \/ RejectProbeInFlight(c)
       \/ AdmitProbe(c)
       \/ AdmitNormal(c)
    /\ UNCHANGED <<consecutiveFailures, sinceFailure>>

-----------------------------------------------------------------------------
(* execute(): after the await                                              *)

\* Mutant: a success closes the circuit and keeps the old failure count.
OnSuccessKeepsCount ==
    /\ currentState' = "closed"
    /\ UNCHANGED <<consecutiveFailures, sinceFailure>>

OnSuccess ==
    /\ consecutiveFailures' = 0
    /\ currentState' = "closed"
    /\ UNCHANGED sinceFailure

\* Mutant: the count runs on past the threshold.
BumpPast(n) == IF n <= FailureThreshold THEN n + 1 ELSE n

Bump(n) == IF n < FailureThreshold THEN n + 1 ELSE n

\* Mutant: a failure seen in the half-open state does not reopen the circuit.
OnFailureKeepsHalfOpen ==
    /\ consecutiveFailures' = Bump(consecutiveFailures)
    /\ sinceFailure' = 0
    /\ currentState' =
          IF currentState = "closed" /\ Bump(consecutiveFailures) >= FailureThreshold
          THEN "open" ELSE currentState

OnFailure ==
    /\ consecutiveFailures' = Bump(consecutiveFailures)
    /\ sinceFailure' = 0
    /\ currentState' =
          IF currentState = "half-open" \/ Bump(consecutiveFailures) >= FailureThreshold
          THEN "open" ELSE currentState

\* Mutant: execute() without its finally block.
KeepProbeFlag == UNCHANGED probeInFlight

\* The finally block runs for every call that passed the gate.
ClearProbeFlag == probeInFlight' = FALSE

\* Mutant: every error counts, not only those isTransientFailure accepts.
FinishCountsEveryError(c, outcome) ==
    /\ call[c] # "idle"
    /\ \/ outcome = "ok" /\ OnSuccess
       \/ outcome # "ok" /\ OnFailure
    /\ ClearProbeFlag
    /\ call' = [call EXCEPT ![c] = "idle"]
    /\ lastReply' = outcome
    /\ UNCHANGED drained

Finish(c, outcome) ==
    /\ call[c] # "idle"
    /\ \/ outcome = "ok" /\ OnSuccess
       \/ outcome = "transient" /\ OnFailure
       \/ outcome = "other" /\ UNCHANGED <<currentState, consecutiveFailures, sinceFailure>>
    /\ ClearProbeFlag
    /\ call' = [call EXCEPT ![c] = "idle"]
    /\ lastReply' = outcome
    /\ UNCHANGED drained

Tick ==
    /\ sinceFailure < Cooldown
    /\ sinceFailure' = sinceFailure + 1
    /\ UNCHANGED <<currentState, consecutiveFailures, probeInFlight, call, lastReply, drained>>

Next ==
    \/ \E c \in Callers : Execute(c) \/ (\E o \in Outcome : Finish(c, o))
    \/ Tick

Spec == Init /\ [][Next]_vars

\* Time passes and every admitted call settles (each router request carries a
\* timeout, rest-client.ts).  Clients that never call again never learn that
\* the router is back, so recovery is stated for clients that keep calling.
Fairness ==
    /\ WF_vars(Tick)
    /\ \A c \in Callers : WF_vars(\E o \in Outcome : Finish(c, o))
    /\ \A c \in Callers : WF_vars(Execute(c))

FairSpec == Spec /\ Fairness

-----------------------------------------------------------------------------
(* Properties                                                              *)

TypeOK ==
    /\ currentState \in CircuitState
    /\ consecutiveFailures \in 0 .. FailureThreshold
    /\ sinceFailure \in 0 .. Cooldown
    /\ probeInFlight \in BOOLEAN
    /\ call \in [Callers -> CallState]
    /\ lastReply \in Reply
    /\ drained \in BOOLEAN

\* The circuit is closed exactly while the run of counted failures is below
\* the threshold: late results of calls admitted before a trip, probes and
\* resets of the counter (onSuccess, onFailure) never let the two disagree, so
\* a circuit that has just closed always grants a full threshold again.
ClosedIffBelowThreshold ==
    currentState = "closed" <=> consecutiveFailures < FailureThreshold

\* The probe flag is never leaked: while it is set, the circuit is half-open
\* and a probe really is in flight, so its end will clear the flag.  A flag
\* without an owner would answer CIRCUIT_PROBE_IN_FLIGHT for ever.
ProbeFlagOwned ==
    probeInFlight => currentState = "half-open" /\ Probes # {}

\* What the single-probe rule gives in fact: if the circuit went half-open
\* with nothing else in flight, then at most one request is running as long
\* as it stays half-open.
OneProbeOnceDrained ==
    currentState = "half-open" /\ drained => \A c, d \in Running : c = d

\* Every probe waits out a full cooldown after the latest counted failure,
\* whichever call that failure came from: a late failure of a call sent before
\* the trip pushes the next probe back (onFailure sets lastFailureTime and
\* reopens a half-open circuit).
ProbesWaitFullCooldown == currentState = "half-open" => sinceFailure = Cooldown

\* No lock-out: with calls that settle and clients that keep asking, the
\* breaker always admits another call, however often probes fail or end with
\* errors that do not count.
NeverLocksOut == []<>(Running # {})

\* A router that has stopped failing is not kept shut out: once no call ends
\* with a transient failure any more, the circuit is eventually never open.
RecoversFromOutage ==
    <>[][\A c \in Callers : ~Finish(c, "transient")]_vars => <>[](currentState # "open")

-----------------------------------------------------------------------------
(* Claims of the docs and comments that concurrent calls break             *)

\* CHANGELOG.md:420 and Error-Handling.md:77: a half-open circuit lets one
\* probe through at a time.
SingleProbe == \A c, d \in Probes : c = d

\* Error-Handling.md:79: an open circuit closes on a successful probe (and so
\* not straight from open, by a call sent before the trip).
ClosesByProbeOnly ==
    [][(currentState # "closed" /\ currentState' = "closed")
          => \E c \in Probes : call'[c] = "idle"]_vars
=============================================================================

---------------------------- MODULE Confirmation ----------------------------
(***************************************************************************)
(* The two-step confirmation of destructive calls to one router            *)
(* (middleware/confirmation.ts) and of writes to the fleet                 *)
(* (middleware/fleet-confirmation.ts).  The gates share the configured     *)
(* secret and the shape of their code; they differ in who is exempt and in *)
(* what they do when no secret is configured.                              *)
(*                                                                         *)
(* A request stands for everything a token binds: tool, router or sorted   *)
(* routers, parameters and identity.  A token is its signed content; one   *)
(* that was never signed is "forged".  Time is Date.now(), which does not  *)
(* run backwards here.  Each gate is one synchronous function: one action. *)
(***************************************************************************)
EXTENDS Naturals, FiniteSets

CONSTANTS
    Requests,       \* what can be asked for
    Fleet,          \* those that go to the fleet's gate, the others to a router's
    Exempt,         \* those of admin and superadmin to one router
    TTL,            \* CONFIRMATION_TTL_MS
    MaxTime, MaxIncarnations    \* bounds of the model

ASSUME RequestsAssumption ==
    IsFiniteSet(Requests) /\ Fleet \subseteq Requests /\ Exempt \subseteq Requests \ Fleet
ASSUME TimesAssumption ==
    TTL \in Nat \ {0} /\ MaxTime \in Nat /\ MaxIncarnations \in Nat \ {0}

VARIABLES
    now,
    incarnation,    \* starts of the server so far
    secretSet,      \* is MIKROMCP_CONFIRMATION_SECRET set?
    usedTokens,     \* tokens consumed, until swept
    issued,         \* tokens callers hold
    reply,          \* what the last call got
    spent,          \* history: tokens consumed since the last start
    ran             \* history: requests let through by a token since the last start

vars == <<now, incarnation, secretSet, usedTokens, issued, reply, spent, ran>>

Configured == 0     \* the configured secret; a process secret is its incarnation's
Token == [request : Requests \ Exempt, expires : 0 .. MaxTime + TTL,
          key : 0 .. MaxIncarnations]

Init ==
    /\ now = 0 /\ incarnation = 1
    /\ secretSet \in BOOLEAN
    /\ usedTokens = {} /\ issued = {} /\ spent = {}
    /\ reply = "none"
    /\ ran = [r \in Requests |-> 0]

-----------------------------------------------------------------------------

\* executeToolCall asks the router's gate only when a secret is configured, and
\* the gate returns at once for BYPASS_ROLES; the fleet's gate holds always.
Gated(r) == r \in Fleet \/ (secretSet /\ r \notin Exempt)

\* configuredSecret ?? processSecret: a process secret dies with the process.
Secret == IF secretSet THEN Configured ELSE incarnation

\* sign(): the same request in the same millisecond gets the same token.
sign(r, expires) == [request |-> r, expires |-> expires, key |-> Secret]

Expired(t) == t.expires <= now

\* Each gate sweeps its own usedTokens.
SameGate(r, t) == (r \in Fleet) = (t.request \in Fleet)

\* sweepUsed(now)
Swept(r) == {t \in usedTokens : SameGate(r, t) => ~Expired(t)}

Bypass(r) ==
    /\ ~Gated(r)
    /\ reply' = "run"
    /\ UNCHANGED <<now, incarnation, secretSet, usedTokens, issued, spent, ran>>

\* Mutant: exempt callers are asked as well.
AskAnyone(r) ==
    /\ usedTokens' = Swept(r)
    /\ issued' = issued \cup {sign(r, now + TTL)}
    /\ reply' = "approvalRequired"
    /\ UNCHANGED <<now, incarnation, secretSet, spent, ran>>

\* No token: one is signed and sent back with APPROVAL_REQUIRED.
Ask(r) ==
    /\ Gated(r)
    /\ usedTokens' = Swept(r)
    /\ issued' = issued \cup {sign(r, now + TTL)}
    /\ reply' = "approvalRequired"
    /\ UNCHANGED <<now, incarnation, secretSet, spent, ran>>

\* Mutant: the signature is not compared with the present call.
MatchesAny(r, t) == TRUE

\* tokensEqual(submitted, sign(present call, the token's own expiry))
Matches(r, t) == t = sign(r, t.expires)

\* The token is expired, used or of another call.  (The per-router gate looks
\* at expiry and use first, which only decides between two refusals.)
RefuseToken(r, t) ==
    /\ Gated(r)
    /\ Expired(t) \/ t \in Swept(r) \/ ~Matches(r, t)
    /\ usedTokens' = Swept(r)
    /\ reply' = "refused"
    /\ UNCHANGED <<now, incarnation, secretSet, issued, spent, ran>>

\* Mutant: a token that was let through is not remembered.
AcceptForgets(r, t) ==
    /\ Gated(r)
    /\ ~Expired(t) /\ t \notin Swept(r) /\ Matches(r, t)
    /\ usedTokens' = Swept(r)
    /\ spent' = spent \cup {t}
    /\ ran' = [ran EXCEPT ![r] = @ + 1]
    /\ reply' = "run"
    /\ UNCHANGED <<now, incarnation, secretSet, issued>>

AcceptToken(r, t) ==
    /\ Gated(r)
    /\ ~Expired(t) /\ t \notin Swept(r) /\ Matches(r, t)
    /\ usedTokens' = Swept(r) \cup {t}
    /\ spent' = spent \cup {t}
    /\ ran' = [ran EXCEPT ![r] = @ + 1]
    /\ reply' = "run"
    /\ UNCHANGED <<now, incarnation, secretSet, issued>>

\* Text that is no signed token at all.
RefuseForged(r) ==
    /\ Gated(r)
    /\ usedTokens' = Swept(r)
    /\ reply' = "refused"
    /\ UNCHANGED <<now, incarnation, secretSet, issued, spent, ran>>

\* A new process, with or without the configured secret.
Restart ==
    /\ incarnation < MaxIncarnations
    /\ incarnation' = incarnation + 1
    /\ secretSet' \in BOOLEAN
    /\ usedTokens' = {} /\ spent' = {}
    /\ ran' = [r \in Requests |-> 0]
    /\ reply' = "none"
    /\ UNCHANGED <<now, issued>>

Tick ==
    /\ now < MaxTime
    /\ now' = now + 1
    /\ UNCHANGED <<incarnation, secretSet, usedTokens, issued, reply, spent, ran>>

Next ==
    \/ \E r \in Requests :
          Bypass(r) \/ Ask(r) \/ RefuseForged(r)
          \/ (\E t \in issued : RefuseToken(r, t) \/ AcceptToken(r, t))
    \/ Restart \/ Tick

Spec == Init /\ [][Next]_vars

-----------------------------------------------------------------------------
(* Properties                                                              *)

TypeOK ==
    /\ now \in 0 .. MaxTime
    /\ incarnation \in 1 .. MaxIncarnations
    /\ secretSet \in BOOLEAN
    /\ usedTokens \subseteq Token
    /\ issued \subseteq Token
    /\ spent \subseteq Token
    /\ reply \in {"none", "run", "approvalRequired", "refused"}
    /\ ran \in [Requests -> Nat]

\* Between two starts a request runs no more often than tokens were handed out
\* for that very request and under the secret now in force, whatever mix of
\* late, repeated and misdirected submissions there is, and although used
\* tokens are forgotten as they expire (confirmation.ts:39-43 against :70).
\* With no secret configured these are the tokens of this process: the others
\* "stop working after a restart" (Available-Tools.md:1760).
RunsNeedApprovals ==
    \A r \in Requests :
        ran[r] <= Cardinality({t \in issued :
                      t.request = r /\ t.key = IF secretSet THEN Configured ELSE incarnation})

\* The tokens that would be accepted for their own request.
Open == {t \in issued : ~Expired(t) /\ t.key = Secret /\ t \notin usedTokens}

A == INSTANCE Approvals
        WITH Request <- Requests, Approval <- Token,
             starts <- incarnation, open <- Open, granted <- issued, runs <- ran

\* The gates implement Approvals: every run by a token closes that token in the
\* same step, and until the next start nothing opens it again, neither signing
\* it once more in the same millisecond nor sweeping it from the cache.
ImplementsApprovals == A!Spec
=============================================================================

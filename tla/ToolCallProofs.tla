--------------------------- MODULE ToolCallProofs ---------------------------
(***************************************************************************)
(* What a caller of a tool can rely on.  A destructive call runs once for  *)
(* each approval, however calls, sweeps and restarts interleave; the gates *)
(* implement Approvals.  And of the handlers of the tools: an add leaves   *)
(* no second record of what it adds unless two calls overlapped, a dry run *)
(* says what the call does, a success is true when it is told, and a       *)
(* request that was applied changes nothing when it is made again.         *)
(***************************************************************************)
EXTENDS Confirmation, ManageTools, FiniteSetTheorems, SequenceTheorems, WellFoundedInduction, TLAPS

SpentOn(r) == {t \in spent : t.request = r}

\* A token consumed in this lifetime can be forgotten only once it is expired.
SpentIsRemembered ==
    /\ usedTokens \subseteq spent
    /\ \A t \in spent : t \in usedTokens \/ Expired(t)

\* The runs of a request are the tokens spent on it, all of them handed out and
\* signed with the secret in force.
RunsAreSpent ==
    /\ IsFiniteSet(issued)
    /\ spent \subseteq issued
    /\ \A t \in spent : t.key = Secret
    /\ \A r \in Requests : ran[r] = Cardinality(SpentOn(r))

\* The inductive invariant.
ConfirmationInv == TypeOK /\ SpentIsRemembered /\ RunsAreSpent

\* Secrets are numbered like incarnations.
LEMMA SecretInRange == TypeOK => Secret \in 0 .. MaxIncarnations
  BY TimesAssumption DEF TypeOK, Secret, Configured

\* A token signed now is one of the tokens of the model, and not yet expired.
LEMMA SignedIsToken ==
    ASSUME TypeOK, NEW r \in Requests, Gated(r)
    PROVE  /\ sign(r, now + TTL) \in Token
           /\ ~Expired(sign(r, now + TTL))
  <1>1. now + TTL \in 0 .. MaxTime + TTL
    BY TimesAssumption DEF TypeOK
  <1>2. sign(r, now + TTL) \in Token
    BY <1>1, SecretInRange, RequestsAssumption DEF sign, Token, Gated
  <1>3. ~(now + TTL <= now)
    BY TimesAssumption DEF TypeOK
  <1>4. QED
    BY <1>2, <1>3 DEF Expired, sign

\* The initial state satisfies the invariant.
LEMMA InitEstablishes == Init => ConfirmationInv
  <1> SUFFICES ASSUME Init PROVE ConfirmationInv
    OBVIOUS
  <1>1. TypeOK
    BY TimesAssumption DEF Init, TypeOK
  <1>2. SpentIsRemembered
    BY DEF Init, SpentIsRemembered
  <1>3. RunsAreSpent
    <2>1. \A r \in Requests : SpentOn(r) = {}
      BY DEF Init, SpentOn
    <2>2. QED
      BY <2>1, FS_EmptySet DEF Init, RunsAreSpent
  <1>4. QED
    BY <1>1, <1>2, <1>3 DEF ConfirmationInv

\* A call that the gate neither runs nor answers with a token only sweeps.
LEMMA SweepPreserves ==
    ASSUME ConfirmationInv, NEW r \in Requests, usedTokens' = Swept(r),
           reply' \in {"run", "refused"},
           UNCHANGED <<now, incarnation, secretSet, issued, spent, ran>>
    PROVE  ConfirmationInv'
  <1> USE DEF ConfirmationInv
  <1>1. TypeOK'
    BY DEF TypeOK, Swept
  <1>2. SpentIsRemembered'
    BY DEF SpentIsRemembered, Swept, Expired
  <1>3. RunsAreSpent'
    BY DEF RunsAreSpent, SpentOn, Secret
  <1>4. QED
    BY <1>1, <1>2, <1>3

\* Signing a token preserves the invariant.
LEMMA AskPreserves ==
    ASSUME ConfirmationInv, NEW r \in Requests, Ask(r)
    PROVE  ConfirmationInv'
  <1> USE DEF ConfirmationInv
  <1>1. TypeOK'
    <2>1. issued' \subseteq Token
      BY SignedIsToken DEF Ask, TypeOK
    <2>2. usedTokens' \subseteq Token
      BY DEF Ask, TypeOK, Swept
    <2>3. QED
      BY <2>1, <2>2 DEF Ask, TypeOK
  <1>2. SpentIsRemembered'
    BY DEF Ask, SpentIsRemembered, Swept, Expired
  <1>3. RunsAreSpent'
    <2>1. IsFiniteSet(issued')
      BY FS_AddElement DEF Ask, RunsAreSpent
    <2>2. QED
      BY <2>1 DEF Ask, RunsAreSpent, SpentOn, Secret
  <1>4. QED
    BY <1>1, <1>2, <1>3

\* A token that is accepted was never spent in this lifetime, so it adds one
\* run and one spent token to its request.
LEMMA AcceptPreserves ==
    ASSUME ConfirmationInv, NEW r \in Requests, NEW t \in issued, AcceptToken(r, t)
    PROVE  ConfirmationInv'
  <1> USE DEF ConfirmationInv
  <1>1. t \in Token /\ t.request = r /\ Gated(r)
    BY DEF AcceptToken, Matches, sign, TypeOK
  <1>2. t \notin spent
    BY DEF AcceptToken, SpentIsRemembered, Swept
  <1>3. TypeOK'
    <2>1. usedTokens' \subseteq Token /\ spent' \subseteq Token
      BY <1>1 DEF AcceptToken, TypeOK, Swept
    <2>2. ran' \in [Requests -> Nat]
      BY DEF AcceptToken, TypeOK
    <2>3. QED
      BY <2>1, <2>2 DEF AcceptToken, TypeOK
  <1>4. SpentIsRemembered'
    BY DEF AcceptToken, SpentIsRemembered, Swept, Expired
  <1>5. RunsAreSpent'
    <2>1. spent' \subseteq issued' /\ IsFiniteSet(issued')
      BY DEF AcceptToken, RunsAreSpent
    <2>2. ASSUME NEW s \in Requests PROVE ran'[s] = Cardinality(SpentOn(s)')
      <3>1. IsFiniteSet(SpentOn(s))
        <4>1. SpentOn(s) \in SUBSET issued
          BY DEF RunsAreSpent, SpentOn
        <4>2. QED
          BY <4>1, FS_Subset DEF RunsAreSpent
      <3>2. ran \in [Requests -> Nat] /\ ran[s] = Cardinality(SpentOn(s))
        BY DEF TypeOK, RunsAreSpent
      <3>3. CASE s = r
        <4>1. SpentOn(s)' = SpentOn(s) \cup {t}
          BY <3>3, <1>1 DEF SpentOn, AcceptToken
        <4>2. t \notin SpentOn(s)
          BY <1>2 DEF SpentOn
        <4>3. Cardinality(SpentOn(s)') = Cardinality(SpentOn(s)) + 1
          BY <4>1, <4>2, <3>1, FS_AddElement
        <4>4. ran'[s] = ran[s] + 1
          BY <3>2, <3>3 DEF AcceptToken
        <4>5. QED
          BY <4>3, <4>4, <3>2
      <3>4. CASE s # r
        <4>1. SpentOn(s)' = SpentOn(s)
          BY <3>4, <1>1 DEF SpentOn, AcceptToken
        <4>2. ran'[s] = ran[s]
          BY <3>2, <3>4 DEF AcceptToken
        <4>3. QED
          BY <4>1, <4>2, <3>2
      <3>5. QED
        BY <3>3, <3>4
    <2>3. \A u \in spent' : u.key = Secret'
      BY DEF AcceptToken, RunsAreSpent, Matches, sign, Secret
    <2>4. QED
      BY <2>1, <2>2, <2>3 DEF RunsAreSpent
  <1>6. QED
    BY <1>3, <1>4, <1>5

\* A restart forgets the history with the tokens.
LEMMA RestartPreserves == ConfirmationInv /\ Restart => ConfirmationInv'
  <1> SUFFICES ASSUME ConfirmationInv, Restart PROVE ConfirmationInv'
    OBVIOUS
  <1> USE DEF ConfirmationInv
  <1>1. TypeOK'
    BY TimesAssumption DEF Restart, TypeOK
  <1>2. SpentIsRemembered'
    BY DEF Restart, SpentIsRemembered
  <1>3. RunsAreSpent'
    <2>1. \A r \in Requests : SpentOn(r)' = {}
      BY DEF Restart, SpentOn
    <2>2. QED
      BY <2>1, FS_EmptySet DEF Restart, RunsAreSpent
  <1>4. QED
    BY <1>1, <1>2, <1>3

\* Expired tokens stay expired as time passes.
LEMMA TickPreserves == ConfirmationInv /\ Tick => ConfirmationInv'
  <1> SUFFICES ASSUME ConfirmationInv, Tick PROVE ConfirmationInv'
    OBVIOUS
  <1> USE DEF ConfirmationInv
  <1>1. TypeOK'
    BY TimesAssumption DEF Tick, TypeOK
  <1>2. SpentIsRemembered'
    <2>1. \A t \in Token : Expired(t) => Expired(t)'
      BY TimesAssumption DEF Tick, TypeOK, Token, Expired
    <2>2. QED
      BY <2>1 DEF Tick, SpentIsRemembered, TypeOK
  <1>3. RunsAreSpent'
    BY DEF Tick, RunsAreSpent, SpentOn, Secret
  <1>4. QED
    BY <1>1, <1>2, <1>3

\* Every step preserves the invariant.
LEMMA StepPreserves == ConfirmationInv /\ [Next]_vars => ConfirmationInv'
  <1> SUFFICES ASSUME ConfirmationInv, [Next]_vars PROVE ConfirmationInv'
    OBVIOUS
  <1>1. ASSUME NEW r \in Requests, Bypass(r) PROVE ConfirmationInv'
    BY <1>1 DEF Bypass, ConfirmationInv, TypeOK, SpentIsRemembered, RunsAreSpent,
               SpentOn, Expired, Secret
  <1>2. ASSUME NEW r \in Requests, Ask(r) PROVE ConfirmationInv'
    BY <1>2, AskPreserves
  <1>3. ASSUME NEW r \in Requests, RefuseForged(r) PROVE ConfirmationInv'
    BY <1>3, SweepPreserves DEF RefuseForged
  <1>4. ASSUME NEW r \in Requests, NEW t \in issued, RefuseToken(r, t) PROVE ConfirmationInv'
    BY <1>4, SweepPreserves DEF RefuseToken
  <1>5. ASSUME NEW r \in Requests, NEW t \in issued, AcceptToken(r, t) PROVE ConfirmationInv'
    BY <1>5, AcceptPreserves
  <1>6. CASE Restart
    BY <1>6, RestartPreserves
  <1>7. CASE Tick
    BY <1>7, TickPreserves
  <1>8. CASE UNCHANGED vars
    BY <1>8 DEF vars, ConfirmationInv, TypeOK, SpentIsRemembered, RunsAreSpent,
               SpentOn, Expired, Secret
  <1>9. QED
    BY <1>1, <1>2, <1>3, <1>4, <1>5, <1>6, <1>7, <1>8 DEF Next

\* The invariant is one of the specification.
THEOREM ConfirmationInvariant == Spec => []ConfirmationInv
  BY InitEstablishes, StepPreserves, PTL DEF Spec

\* Between two starts a request runs no more often than tokens were
\* handed out for it under the secret in force.
THEOREM RunsAreApproved == Spec => []RunsNeedApprovals
  <1>1. ConfirmationInv => RunsNeedApprovals
    <2> SUFFICES ASSUME ConfirmationInv, NEW r \in Requests
                 PROVE  ran[r] <= Cardinality({t \in issued :
                            t.request = r
                            /\ t.key = IF secretSet THEN Configured ELSE incarnation})
      BY DEF RunsNeedApprovals
    <2> DEFINE Issued == {t \in issued :
                 t.request = r /\ t.key = IF secretSet THEN Configured ELSE incarnation}
    <2>1. Issued \in SUBSET issued /\ SpentOn(r) \in SUBSET Issued
      BY DEF ConfirmationInv, RunsAreSpent, SpentOn, Secret
    <2>2. IsFiniteSet(Issued)
      BY <2>1, FS_Subset DEF ConfirmationInv, RunsAreSpent
    <2>3. Cardinality(SpentOn(r)) <= Cardinality(Issued)
      BY <2>1, <2>2, FS_Subset
    <2>4. QED
      BY <2>3 DEF ConfirmationInv, RunsAreSpent
  <1>2. QED
    BY <1>1, ConfirmationInvariant, PTL

-----------------------------------------------------------------------------

\* Every step of the gates is a step of Approvals or leaves it unchanged: a
\* token opens when it is first signed or as the server starts, and a request
\* runs as an open token is closed.
LEMMA StepImplements == ConfirmationInv /\ [Next]_vars => [A!Next]_(A!vars)
  <1> SUFFICES ASSUME ConfirmationInv, [Next]_vars
               PROVE  A!Next \/ UNCHANGED <<incarnation, Open, issued, ran>>
    BY DEF A!vars
  <1> USE DEF ConfirmationInv
  <1>1. ASSUME NEW r \in Requests, Ask(r) PROVE A!Next
    <2> DEFINE t == sign(r, now + TTL)
    <2>1. t \in Token /\ ~Expired(t) /\ t.key = Secret
      BY <1>1, SignedIsToken DEF Ask, sign
    <2>2. issued' = issued \cup {t}
      BY <1>1 DEF Ask
    <2>3. Open' = {s \in issued' : ~Expired(s) /\ s.key = Secret /\ s \notin usedTokens}
      BY <1>1 DEF Ask, Open, Swept, Expired, Secret
    <2>4. usedTokens \subseteq issued
      BY DEF SpentIsRemembered, RunsAreSpent
    <2>5. UNCHANGED <<incarnation, ran>>
      BY <1>1 DEF Ask
    <2> HIDE DEF t
    <2>6. Open' = IF t \in issued THEN Open ELSE Open \cup {t}
      BY <2>1, <2>2, <2>3, <2>4 DEF Open
    <2>7. A!Grant(t)
      BY <2>2, <2>5, <2>6 DEF A!Grant
    <2>8. QED
      BY <2>1, <2>7 DEF A!Next
  <1>2. ASSUME NEW r \in Requests, NEW t \in issued, AcceptToken(r, t) PROVE A!Next
    <2>1. t \in Token
      BY DEF TypeOK
    <2>2. t \in Open
      BY <1>2 DEF AcceptToken, Open, Matches, sign, Swept
    <2>3. Open' = Open \ {t}
      BY <1>2 DEF AcceptToken, Open, Swept, Expired, Secret
    <2>4. t.request = r
      BY <1>2 DEF AcceptToken, Matches, sign
    <2>5. A!Use(t)
      BY <1>2, <2>2, <2>3, <2>4 DEF A!Use, AcceptToken
    <2>6. QED
      BY <2>1, <2>5 DEF A!Next
  <1>3. ASSUME NEW r \in Requests, usedTokens' = Swept(r),
               UNCHANGED <<now, incarnation, secretSet, issued, ran>>
        PROVE  UNCHANGED <<incarnation, Open, issued, ran>>
    BY <1>3 DEF Open, Swept, Expired, Secret
  <1>4. ASSUME NEW r \in Requests,
               Bypass(r) \/ RefuseForged(r) \/ (\E t \in issued : RefuseToken(r, t))
        PROVE  UNCHANGED <<incarnation, Open, issued, ran>>
    <2>1. CASE Bypass(r)
      BY <2>1 DEF Bypass, Open, Expired, Secret
    <2>2. CASE RefuseForged(r) \/ (\E t \in issued : RefuseToken(r, t))
      BY <2>2, <1>3 DEF RefuseForged, RefuseToken
    <2>3. QED
      BY <1>4, <2>1, <2>2
  <1>5. CASE Restart
    <2>1. Open' \in SUBSET issued /\ issued' = issued
      BY <1>5 DEF Restart, Open
    <2>2. QED
      BY <1>5, <2>1 DEF Restart, A!Next, A!Restart
  <1>6. CASE Tick
    <2>1. \A t \in issued : Expired(t) => Expired(t)'
      BY <1>6, TimesAssumption DEF Tick, TypeOK, Token, Expired
    <2>2. Open' \in SUBSET Open /\ issued' = issued
      BY <1>6, <2>1 DEF Tick, Open, Secret
    <2>3. QED
      BY <1>6, <2>2 DEF Tick, A!Next, A!Lapse
  <1>7. CASE UNCHANGED vars
    BY <1>7 DEF vars, Open, Expired, Secret
  <1>8. QED
    BY <1>1, <1>2, <1>4, <1>5, <1>6, <1>7 DEF Next

\* Tokens are signed for gated requests only, and expire within TTL.
THEOREM TypeCorrect == Spec => []TypeOK
  <1>1. ConfirmationInv => TypeOK
    BY DEF ConfirmationInv
  <1>2. QED
    BY <1>1, ConfirmationInvariant, PTL

\* The gates implement Approvals: each run uses up a token that was open, and a
\* used token stays closed until the server starts again.
THEOREM ConfirmationImplements == Spec => ImplementsApprovals
  <1>1. Init => A!Init
    BY DEF Init, A!Init, Open
  <1>2. QED
    BY <1>1, StepImplements, ConfirmationInvariant, PTL
       DEF Spec, ImplementsApprovals, A!Spec

-----------------------------------------------------------------------------
(* The handlers of the tools (ManageTools).                                    *)

(* Handlers, menus and calls as they come.                                      *)
MenuRecord == [id : Nat, key : {TheKey, BadName, None}, main : Values \cup {None},
               side : {"old", "s"}, off : BOOLEAN]
Outcomes == {"nothing", "failed", "done", "exists", "conflict", "noChange", "gone", "missing",
             "ambiguous", "preview", "invalid"}
CallRecord == [req : ToolCalls \cup {None}, at : Nat, found : SUBSET MenuRecord,
               stale : BOOLEAN, told : Outcomes]
ToolTypes ==
    /\ handler \in Handlers
    /\ menu \subseteq MenuRecord
    /\ lastId \in Nat
    /\ call \in [Callers -> CallRecord]
    /\ raced \in BOOLEAN

(* An id belongs to one record and is not given out again.                      *)
IdsAreUnique ==
    /\ \A rec, other \in menu : rec.id = other.id => rec = other
    /\ \A rec \in menu : rec.id <= lastId

(* What a call found has the call's key, and keeps it.                          *)
FoundHasKey(x) ==
    \A rec \in x.found :
        /\ rec.key = x.req.key /\ rec.key # None
        /\ \A same \in menu : same.id = rec.id => same.key = rec.key

(* Is the record the one that the call would add?                               *)
SameIdentity(rec, r) ==
    /\ r.key # None /\ rec.key = r.key
    /\ OnePerMain(handler) => rec.main = r.main
    /\ OnePerTable(handler) => rec.side = TableOf(r)

(* A call that is about to add, on a menu nobody wrote since it looked, does    *)
(* not find there what it adds.                                                 *)
NewIsAbsent(x) ==
    Steps(x.req)[x.at] = "create" /\ ~ x.stale /\ (raced => ~ Uses(handler, "clear")) =>
        \A rec \in menu : ~ SameIdentity(rec, x.req)

CallIsSound(x) ==
    /\ \A rec \in x.found : rec.id <= lastId
    /\ x.at # 0 =>
         /\ x.req \in ToolCalls /\ x.at \in 1 .. Len(Steps(x.req))
         /\ Waits(Steps(x.req)[x.at], x.found)
         /\ FoundHasKey(x) /\ NewIsAbsent(x)

ToolsInv ==
    /\ ToolTypes /\ IdsAreUnique
    /\ \A c \in Callers : CallIsSound(call[c])
    /\ TwinsNeedOverlap

(* A set of numbers that is not empty has a smallest.                           *)
LEMMA SmallestOf ==
    ASSUME NEW S \in SUBSET Nat, S # {}
    PROVE  \E x \in S : \A y \in S : x <= y
<1> DEFINE R == OpToRel(<, Nat)
<1>1. \E x \in S : \A y \in S : ~ (<<y, x>> \in R)
  <2>1. IsWellFoundedOn(R, Nat)
    BY NatLessThanWellFounded
  <2> HIDE DEF R
  <2> QED BY <2>1, WFMin
<1>2. \A x, y \in Nat : ~ (<<y, x>> \in R) => x <= y
  BY DEF R, OpToRel
<1> HIDE DEF R
<1> QED BY <1>1, <1>2

LEMMA AnswersAreTold == \A step \in STRING : Answer(step) \in Outcomes
BY DEF Answer, Outcomes

(* What a handler's programs are made of.                                       *)
LEMMA Programs ==
    ASSUME ToolTypes, NEW r \in ToolCalls
    PROVE  /\ LooksFirst(handler) /\ AddsLook(handler)
           /\ ChecksBeforePreview(handler) /\ IdentityStays(handler) /\ StepsSuit(handler)
           /\ r.action \in DOMAIN handler
           /\ Steps(r) \in Seq(STRING) /\ Len(Steps(r)) \in Nat \ {0}
           /\ DOMAIN Steps(r) = 1 .. Len(Steps(r))
           /\ Steps(r)[Len(Steps(r))] \in Writes
           /\ \A i \in 1 .. Len(Steps(r)) : Steps(r)[i] \in Writes => i = Len(Steps(r))
           /\ r.key \in {TheKey, BadName, None}
           /\ r.main \in Values \cup {None}
           /\ r.side \in {None, "old", "s"}
           /\ r.off \in BOOLEAN
<1>1. /\ LooksFirst(handler) /\ AddsLook(handler)
      /\ ChecksBeforePreview(handler) /\ IdentityStays(handler) /\ StepsSuit(handler)
  BY HandlersAssumption DEF ToolTypes
<1>2. PICK a \in DOMAIN handler :
        r \in [action : {a}, key : Keys, main : Mains(a), side : Sides(a), off : Offs(a),
               dryRun : IF Has(a, "preview") THEN BOOLEAN ELSE {FALSE}]
  BY DEF ToolCalls
<1>3. r.action = a
  BY <1>2
<1>4. /\ Steps(r) \in Seq(STRING) /\ Steps(r) # <<>>
      /\ \A i \in DOMAIN Steps(r) : Steps(r)[i] \in Writes <=> i = Len(Steps(r))
  BY <1>1, <1>3 DEF LooksFirst, Steps
<1>5. Len(Steps(r)) \in Nat \ {0} /\ DOMAIN Steps(r) = 1 .. Len(Steps(r))
  BY <1>4, LenProperties, EmptySeq
<1>6. r.key \in {TheKey, BadName, None}
  BY <1>2 DEF Keys
<1>7. r.main \in Values \cup {None}
  BY <1>2 DEF Mains, Values
<1>8. r.side \in {None, "old", "s"}
  BY <1>2 DEF Sides
<1>9. r.off \in BOOLEAN
  BY <1>2 DEF Offs
<1>10. /\ Steps(r)[Len(Steps(r))] \in Writes
       /\ \A i \in 1 .. Len(Steps(r)) : Steps(r)[i] \in Writes => i = Len(Steps(r))
  <2> DEFINE n == Len(Steps(r))
  <2>1. \A i \in 1 .. n : Steps(r)[i] \in Writes <=> i = n
    BY <1>4, <1>5
  <2>2. n \in 1 .. n
    BY <1>5
  <2> HIDE DEF n
  <2>3. Steps(r)[n] \in Writes
    BY <2>1, <2>2
  <2> QED BY <2>1, <2>3 DEF n
<1> QED BY <1>1, <1>3, <1>4, <1>5, <1>6, <1>7, <1>8, <1>9, <1>10

(* A look is never the last step.                                               *)
LEMMA LooksGoOn ==
    ASSUME ToolTypes, NEW r \in ToolCalls, NEW f \in 1 .. Len(Steps(r)), Steps(r)[f] \in Finds
    PROVE  f + 1 \in 1 .. Len(Steps(r)) /\ f + 1 # 1
<1>1. Len(Steps(r)) \in Nat /\ Steps(r)[Len(Steps(r))] \in Writes
  BY Programs
<1>2. f # Len(Steps(r))
  BY <1>1 DEF Finds, Writes
<1> QED BY <1>1, <1>2

(* Does the call halt at step j, for a request or with an answer?               *)
Halts(r, j, found) == Waits(Steps(r)[j], found) \/ Ends(Steps(r)[j], r, found)

(* A call that goes on gets to the first step at which it halts.                *)
LEMMA AdvanceHalts ==
    ASSUME ToolTypes, NEW r \in ToolCalls, NEW found, NEW i \in 1 .. Len(Steps(r))
    PROVE  \E at \in i .. Len(Steps(r)) :
              /\ \A k \in i .. at - 1 : ~ Halts(r, k, found)
              /\ \/ /\ Waits(Steps(r)[at], found)
                    /\ Advance(r, i, found) = [req |-> r, at |-> at, found |-> found,
                                               stale |-> FALSE, told |-> "nothing"]
                 \/ /\ ~ Waits(Steps(r)[at], found) /\ Ends(Steps(r)[at], r, found)
                    /\ Answer(Steps(r)[at]) \in Outcomes
                    /\ Advance(r, i, found) = Told(Answer(Steps(r)[at]))
<1> DEFINE steps == Steps(r)
           halting == {j \in i .. Len(steps) : Halts(r, j, found)}
           P(j) == /\ Halts(r, j, found)
                   /\ \A k \in i .. j - 1 : ~ Halts(r, k, found)
           stop == CHOOSE j \in i .. Len(steps) : P(j)
<1>1. /\ steps \in Seq(STRING) /\ Len(steps) \in Nat \ {0}
      /\ DOMAIN steps = 1 .. Len(steps) /\ steps[Len(steps)] \in Writes
  BY Programs
<1>2. Len(steps) \in halting
  BY <1>1 DEF Halts, Waits
<1>3. halting \in SUBSET Nat /\ halting # {}
  BY <1>1, <1>2
<1>4. PICK first \in halting : \A j \in halting : first <= j
  <2> HIDE DEF halting
  <2> QED BY <1>3, SmallestOf
<1>5. first \in i .. Len(steps) /\ P(first)
  <2> HIDE DEF steps
  <2>1. first \in i .. Len(steps) /\ Halts(r, first, found)
    BY <1>4
  <2>2. ASSUME NEW k \in i .. first - 1, Halts(r, k, found) PROVE FALSE
    <3>1. k \in i .. Len(steps) /\ ~ (first <= k)
      BY <1>1, <2>1
    <3> QED BY <1>4, <2>2, <3>1
  <2> QED BY <2>1, <2>2
<1>6. stop \in i .. Len(steps) /\ P(stop)
  <2> HIDE DEF P
  <2> QED BY <1>5
<1>7. Advance(r, i, found) =
        IF Waits(steps[stop], found)
        THEN [req |-> r, at |-> stop, found |-> found, stale |-> FALSE, told |-> "nothing"]
        ELSE Told(Answer(steps[stop]))
  BY DEF Advance, Halts
<1>8. steps[stop] \in STRING
  <2> HIDE DEF stop, P, steps
  <2> QED BY <1>1, <1>6
<1>9. Answer(steps[stop]) \in Outcomes
  BY <1>8, AnswersAreTold
<1> HIDE DEF stop
<1> QED BY <1>6, <1>7, <1>9 DEF Halts

(* The handler does not change, nor what can be asked of it.                    *)
LEMMA HandlerStays ==
    ASSUME handler' = handler
    PROVE  /\ ToolCalls' = ToolCalls /\ CallRecord' = CallRecord
           /\ \A r : Steps(r)' = Steps(r)
           /\ \A rec, r : SameIdentity(rec, r)' = SameIdentity(rec, r)
           /\ \A rec : Identity(rec)' = Identity(rec)
<1>1. ToolCalls' = ToolCalls
  BY DEF ToolCalls, Keys, Mains, Sides, Offs, Has, HasAny, Uses
<1>2. CallRecord' = CallRecord
  BY <1>1 DEF CallRecord
<1>3. /\ \A r : Steps(r)' = Steps(r)
      /\ \A rec, r : SameIdentity(rec, r)' = SameIdentity(rec, r)
      /\ \A rec : Identity(rec)' = Identity(rec)
  BY DEF Steps, SameIdentity, Identity, OnePerMain, OnePerTable, TableOf, Uses
<1> QED BY <1>1, <1>2, <1>3

(* At the start a menu has one record of a key, or one of a key and a value.    *)
LEMMA ToolsInitEstablishes == ToolsInit => ToolsInv
<1> SUFFICES ASSUME ToolsInit PROVE ToolsInv
  OBVIOUS
<1> USE DEF ToolsInit
<1>1. handler \in Handlers /\ IdentityStays(handler)
  BY HandlersAssumption
<1>2. /\ menu \subseteq {Record(0, "a"), Record(1, "b")}
      /\ ~ OnePerMain(handler) =>
            \A rec, other \in menu : rec = other
  <2>1. CASE HasAny("findValue")
    BY <1>1, <2>1 DEF Menus, IdentityStays, HasAny
  <2>2. CASE ~ HasAny("findValue")
    BY <2>2 DEF Menus
  <2> QED BY <2>1, <2>2
<1>3. /\ menu \subseteq MenuRecord /\ lastId \in Nat
      /\ Record(0, "a").id = 0 /\ Record(1, "b").id = 1
      /\ Record(0, "a").main # Record(1, "b").main
  <2>1. Record(0, "a") \in MenuRecord /\ Record(1, "b") \in MenuRecord
    BY DEF MenuRecord, Record, Values
  <2>2. Record(0, "a").id = 0 /\ Record(1, "b").id = 1
        /\ Record(0, "a").main # Record(1, "b").main
    BY DEF Record
  <2> QED BY <1>2, <2>1, <2>2
<1>4. /\ \A c \in Callers : call[c] = Told("nothing")
      /\ Told("nothing") \in CallRecord
      /\ \A c \in Callers : ~ Pending(c) /\ call[c].found = {}
  BY DEF Told, CallRecord, Outcomes, Pending
<1>5. ToolTypes
  BY <1>1, <1>3, <1>4 DEF ToolTypes
<1>6. IdsAreUnique
  BY <1>2, <1>3, <1>4 DEF IdsAreUnique
<1>7. TwinsNeedOverlap
  BY <1>2, <1>3 DEF TwinsNeedOverlap, Identity
<1> QED BY <1>4, <1>5, <1>6, <1>7 DEF ToolsInv, CallIsSound, Pending

(* A call that gets to its create has found nothing of what it adds.            *)
LEMMA NothingWasFound ==
    ASSUME ToolTypes, NEW r \in ToolCalls, NEW found,
           NEW i \in 1 .. Len(Steps(r)), NEW at \in i .. Len(Steps(r)),
           Steps(r)[at] = "create", \A k \in i .. at - 1 : ~ Halts(r, k, found)
    PROVE  /\ i # 1
           /\ Steps(r)[i - 1] \in Finds =>
                /\ Steps(r)[i - 1] \in {"find", "findTable"}
                /\ found = {} \/ (OnePerMain(handler) /\ \A rec \in found : rec.main # r.main)
<1> DEFINE steps == Steps(r)
<1>1. /\ AddsLook(handler) /\ LooksFirst(handler) /\ r.action \in DOMAIN handler /\ steps = handler[r.action]
      /\ DOMAIN steps = 1 .. Len(steps) /\ Len(steps) \in Nat
  BY Programs DEF Steps
<1>2. PICK f, g \in 1 .. at - 1 :
        /\ steps[f] \in {"find", "findTable"} /\ f < g /\ steps[g] \in Refusals
  <2>1. at \in DOMAIN handler[r.action] /\ handler[r.action][at] = "create"
    BY <1>1
  <2> QED BY <1>1, <2>1 DEF AddsLook
<1> HIDE DEF steps
<1>3. ~ (f \in i .. at - 1)
  BY <1>2 DEF steps, Halts, Waits, Finds
<1>4. f < i /\ i # 1
  BY <1>1, <1>2, <1>3
<1>5. ASSUME steps[i - 1] \in Finds
      PROVE  /\ steps[i - 1] \in {"find", "findTable"}
             /\ found = {} \/ (OnePerMain(handler) /\ \A rec \in found : rec.main # r.main)
  <2>1. f <= i - 1 /\ i - 1 <= f
    <3>1. /\ f \in DOMAIN handler[r.action] /\ i - 1 \in DOMAIN handler[r.action]
          /\ handler[r.action][f] \in Finds /\ handler[r.action][i - 1] \in Finds
      BY <1>1, <1>2, <1>4, <1>5 DEF steps, Finds
    <3> QED BY <1>1, <3>1 DEF LooksFirst
  <2>2. f = i - 1 /\ g \in i .. at - 1
    BY <1>1, <1>2, <1>4, <2>1
  <2>3. ~ Waits(steps[g], found) /\ ~ Ends(steps[g], r, found)
    BY <2>2 DEF Halts, steps
  <2>4. CASE steps[g] \in {"exists", "conflict"}
    BY <1>2, <2>2, <2>3, <2>4 DEF Ends
  <2>5. CASE steps[g] = "clear"
    BY <1>2, <2>2, <2>3, <2>5 DEF Waits
  <2>6. CASE steps[g] = "samePort"
    <3>1. OnePerMain(handler)
      <4>1. r.action \in DOMAIN handler /\ g \in DOMAIN handler[r.action]
            /\ handler[r.action][g] = "samePort"
        BY <1>1, <1>2, <2>2, <2>6 DEF steps
      <4> QED BY <4>1 DEF OnePerMain, Uses
    <3>2. ~ (found # {} /\ \E any \in found : any.main = r.main)
      BY <2>3, <2>6 DEF Ends
    <3> QED BY <1>2, <2>2, <3>1, <3>2
  <2> QED BY <1>2, <2>4, <2>5, <2>6 DEF Refusals
<1> QED BY <1>4, <1>5 DEF steps

(* Where only the calls change, they must be sound.                             *)
LEMMA CallChanges ==
    ASSUME ToolsInv, NEW c \in Callers, NEW next \in CallRecord, CallIsSound(next),
           call' = [call EXCEPT ![c] = next],
           UNCHANGED <<handler, menu, lastId, raced>>
    PROVE  ToolsInv'
<1> USE DEF ToolsInv
<1>1. /\ ToolCalls' = ToolCalls /\ CallRecord' = CallRecord
      /\ \A r : Steps(r)' = Steps(r)
      /\ \A rec, r : SameIdentity(rec, r)' = SameIdentity(rec, r)
      /\ \A rec : Identity(rec)' = Identity(rec)
  BY HandlerStays
<1>2. ToolTypes'
  BY <1>1 DEF ToolTypes
<1>3. IdsAreUnique' /\ TwinsNeedOverlap'
  BY <1>1 DEF IdsAreUnique, TwinsNeedOverlap
<1>4. ASSUME NEW d \in Callers PROVE CallIsSound(call[d])'
  <2>1. CallIsSound(call'[d])
    BY DEF ToolTypes
  <2> QED BY <1>1, <2>1 DEF CallIsSound, FoundHasKey, NewIsAbsent
<1> QED BY <1>2, <1>3, <1>4

(* A call that is answered is sound.                                            *)
LEMMA AnsweredIsSound ==
    ASSUME NEW told \in Outcomes
    PROVE  Told(told) \in CallRecord /\ CallIsSound(Told(told))
BY DEF Told, CallRecord, CallIsSound

LEMMA BeginKeepsTools ==
    ASSUME ToolsInv, NEW c \in Callers, Begin(c)
    PROVE  ToolsInv'
<1> USE DEF ToolsInv
<1>1. PICK r \in ToolCalls : call' = [call EXCEPT ![c] = Advance(r, 1, {})]
  BY DEF Begin
<1>2. 1 \in 1 .. Len(Steps(r))
  BY Programs
<1> DEFINE next == Advance(r, 1, {})
<1>3. CASE \E told \in Outcomes : next = Told(told)
  BY <1>1, <1>3, AnsweredIsSound, CallChanges DEF Begin
<1>4. ASSUME NEW at \in 1 .. Len(Steps(r)),
             next = [req |-> r, at |-> at, found |-> {}, stale |-> FALSE, told |-> "nothing"],
             Waits(Steps(r)[at], {}),
             \A k \in 1 .. at - 1 : ~ Halts(r, k, {})
      PROVE  ToolsInv'
  <2>1. Steps(r)[at] # "create"
    BY <1>2, <1>4, NothingWasFound
  <2> HIDE DEF next
  <2>2. next \in CallRecord
    BY <1>4, Programs DEF CallRecord, Outcomes
  <2>3. CallIsSound(next)
    BY <1>4, <2>1 DEF CallIsSound, FoundHasKey, NewIsAbsent
  <2> QED BY <1>1, <2>2, <2>3, CallChanges DEF Begin, next
<1> QED BY <1>2, <1>3, <1>4, AdvanceHalts

LEMMA FailKeepsTools ==
    ASSUME ToolsInv, NEW c \in Callers, Fail(c)
    PROVE  ToolsInv'
BY AnsweredIsSound, CallChanges DEF Fail, Outcomes

LEMMA FindKeepsTools ==
    ASSUME ToolsInv, NEW c \in Callers, Find(c)
    PROVE  ToolsInv'
<1> USE DEF ToolsInv
<1> DEFINE r == call[c].req
           i == call[c].at + 1
           found == Sought(r, StepOf(c))
           next == Advance(r, i, found)
<1>1. /\ call' = [call EXCEPT ![c] = next]
      /\ UNCHANGED <<handler, menu, lastId, raced>>
      /\ StepOf(c) \in Finds /\ call[c].at # 0
  BY DEF Find, Pending
<1>2. r \in ToolCalls /\ call[c].at \in 1 .. Len(Steps(r)) /\ StepOf(c) = Steps(r)[i - 1]
  BY <1>1 DEF CallIsSound, StepOf
<1>3. i \in 1 .. Len(Steps(r)) /\ i # 1
  BY <1>1, <1>2, LooksGoOn
<1>4. found \subseteq {rec \in menu : rec.key = r.key /\ r.key # None}
  BY DEF Sought, Found, FoundValue, FoundTable
<1>5. /\ StepOf(c) = "find" => found = {rec \in menu : rec.key = r.key /\ r.key # None}
      /\ StepOf(c) = "findTable" =>
           found = {rec \in menu : /\ rec.key = r.key /\ r.key # None
                                   /\ r.side \in {None, rec.side}}
  BY DEF Sought, Found, FoundTable
<1> HIDE DEF r, i, found, next
<1>6. CASE \E told \in Outcomes : next = Told(told)
  BY <1>1, <1>6, AnsweredIsSound, CallChanges
<1>7. ASSUME NEW at \in i .. Len(Steps(r)),
             next = [req |-> r, at |-> at, found |-> found, stale |-> FALSE, told |-> "nothing"],
             Waits(Steps(r)[at], found),
             \A k \in i .. at - 1 : ~ Halts(r, k, found)
      PROVE  ToolsInv'
  <2>1. next \in CallRecord
    BY <1>2, <1>3, <1>4, <1>7, Programs DEF CallRecord, Outcomes, ToolTypes
  <2>2. FoundHasKey(next) /\ \A rec \in next.found : rec.id <= lastId
    BY <1>4, <1>7 DEF FoundHasKey, IdsAreUnique
  <2>3. ASSUME Steps(r)[at] = "create", NEW rec \in menu, SameIdentity(rec, r) PROVE FALSE
    <3>1. /\ StepOf(c) \in {"find", "findTable"}
          /\ found = {} \/ (OnePerMain(handler) /\ \A some \in found : some.main # r.main)
      <4>1. ToolTypes /\ r \in ToolCalls /\ Steps(r)[i - 1] \in Finds
        BY <1>1, <1>2
      <4>2. /\ Steps(r)[i - 1] \in {"find", "findTable"}
            /\ found = {} \/ (OnePerMain(handler) /\ \A some \in found : some.main # r.main)
        BY <4>1, <1>3, <1>7, <2>3, NothingWasFound
      <4> QED BY <1>2, <4>2
    <3>2. StepOf(c) = "findTable" => OnePerTable(handler)
      <4>1. /\ r.action \in DOMAIN handler /\ Steps(r) = handler[r.action]
            /\ DOMAIN Steps(r) = 1 .. Len(Steps(r)) /\ Len(Steps(r)) \in Nat
        BY <1>2, Programs DEF Steps
      <4>2. i - 1 \in DOMAIN handler[r.action] /\ StepOf(c) = handler[r.action][i - 1]
        BY <1>2, <1>3, <4>1
      <4> QED BY <4>1, <4>2 DEF OnePerTable, Uses
    <3>3. rec \in found
      BY <1>5, <2>3, <3>1, <3>2 DEF SameIdentity, TableOf, Given
    <3> QED BY <2>3, <3>1, <3>3 DEF SameIdentity
  <2>4. CallIsSound(next)
    BY <1>2, <1>3, <1>7, <2>2, <2>3, Programs DEF CallIsSound, NewIsAbsent
  <2> QED BY <1>1, <2>1, <2>4, CallChanges
<1> QED BY <1>2, <1>3, <1>6, <1>7, AdvanceHalts DEF next

(* What a request leaves of the menu: the records keep their ids and keys, a    *)
(* new one has an id of its own, and no twin unless it was added on a stale     *)
(* read.                                                                        *)
LEMMA EffectKeeps ==
    ASSUME ToolsInv, NEW c \in Callers, Apply(c)
    PROVE  /\ menu' \subseteq MenuRecord /\ lastId' \in Nat /\ lastId' >= lastId
           /\ IdsAreUnique'
           /\ \A rec \in menu' : \/ \E old \in menu : old.id = rec.id /\ old.key = rec.key
                                 \/ rec.id = lastId + 1
           /\ TwinsNeedOverlap'
<1> USE DEF ToolsInv
<1> DEFINE r == call[c].req
           step == StepOf(c)
           target == First(call[c].found).id
<1>1. /\ menu' = Effect(c) /\ handler' = handler
      /\ lastId' = (IF step = "create" THEN lastId + 1 ELSE lastId)
      /\ raced' = (raced \/ (step = "create" /\ call[c].stale))
      /\ step \in Writes \cup {"clear"} /\ call[c].at # 0
  BY DEF Apply, Pending
<1>2. /\ r \in ToolCalls /\ call[c].at \in 1 .. Len(Steps(r)) /\ step = Steps(r)[call[c].at]
      /\ NewIsAbsent(call[c])
  BY <1>1 DEF CallIsSound, StepOf
<1>3. /\ menu \subseteq MenuRecord /\ lastId \in Nat /\ raced \in BOOLEAN
      /\ \A rec : Identity(rec)' = Identity(rec)
  BY <1>1, HandlerStays DEF ToolTypes
<1> HIDE DEF r, step, target
<1>4. CASE step = "create"
  <2> DEFINE new == [id |-> lastId + 1, key |-> r.key, main |-> r.main,
                     side |-> Given(r.side, "old"), off |-> r.off]
  <2>1. menu' = menu \cup {new} /\ lastId' = lastId + 1
    BY <1>1, <1>4 DEF Effect, r, step
  <2>2. new \in MenuRecord
    BY <1>2, <1>3, Programs DEF MenuRecord, Given
  <2>3. new.id = lastId + 1 /\ new.key = r.key /\ new.main = r.main /\ new.side = TableOf(r)
    BY DEF TableOf
  <2> HIDE DEF new
  <2>4. IdsAreUnique'
    BY <1>3, <2>1, <2>3 DEF IdsAreUnique, MenuRecord
  <2>5. ASSUME ~ raced', NEW rec \in menu, new.key # None PROVE Identity(rec) # Identity(new)
    <3>1. ~ raced /\ ~ call[c].stale
      BY <1>1, <1>4, <2>5
    <3>2. ~ SameIdentity(rec, r)
      BY <1>2, <1>4, <3>1 DEF NewIsAbsent, r, step
    <3> QED BY <2>3, <2>5, <3>2 DEF SameIdentity, Identity
  <2>6. TwinsNeedOverlap'
    <3> SUFFICES ASSUME ~ raced', NEW rec \in menu', NEW other \in menu',
                        rec # other, rec.key # None
                 PROVE  Identity(rec) # Identity(other)
      BY <1>3 DEF TwinsNeedOverlap
    <3>1. ~ raced
      BY <1>1
    <3>2. CASE rec \in menu /\ other \in menu
      BY <3>1, <3>2 DEF TwinsNeedOverlap
    <3>3. CASE rec = new /\ other \in menu
      BY <2>5, <3>3
    <3>4. CASE rec \in menu /\ other = new
      <4>1. new.key = None => Identity(rec) # Identity(new)
        BY <3>4 DEF Identity
      <4> QED BY <2>5, <3>4, <4>1
    <3> QED BY <2>1, <3>2, <3>3, <3>4
  <2>7. \A rec \in menu' : \/ \E old \in menu : old.id = rec.id /\ old.key = rec.key
                           \/ rec.id = lastId + 1
    BY <2>1, <2>3
  <2> QED BY <1>3, <2>1, <2>2, <2>4, <2>6, <2>7
<1>5. CASE step \in {"remove", "clear", "execute"}
  <2>1. menu' \subseteq menu /\ lastId' = lastId /\ raced' = raced
    <3>1. CASE step \in {"remove", "clear"}
      BY <1>1, <1>3, <3>1 DEF Effect, step
    <3>2. CASE step = "execute"
      BY <1>1, <1>3, <3>2 DEF Effect, step
    <3> QED BY <1>5, <3>1, <3>2
  <2> QED BY <1>3, <2>1 DEF IdsAreUnique, TwinsNeedOverlap
<1>6. CASE step \in {"switch", "update"}
  <2> DEFINE Op(rec) == IF step = "switch" THEN [rec EXCEPT !.off = (r.action = "switchOff")]
                        ELSE Written(rec, r, First(call[c].found))
             Image(rec) == IF rec.id = target THEN Op(rec) ELSE rec
  <2>1. menu' = {Image(rec) : rec \in menu} /\ lastId' = lastId /\ raced' = raced
    BY <1>1, <1>3, <1>6 DEF Effect, Changed, r, step, target
  <2>2. step = "update" => ~ OnePerMain(handler) /\ ~ OnePerTable(handler)
    <3>1. /\ IdentityStays(handler) /\ r.action \in DOMAIN handler
          /\ step = handler[r.action][call[c].at] /\ call[c].at \in DOMAIN handler[r.action]
      BY <1>2, Programs DEF Steps
    <3> QED BY <3>1 DEF IdentityStays, Uses
  <2>3. ASSUME NEW rec \in MenuRecord
        PROVE  /\ Image(rec) \in MenuRecord /\ Image(rec).id = rec.id /\ Image(rec).key = rec.key
               /\ OnePerMain(handler) => Image(rec).main = rec.main
               /\ OnePerTable(handler) => Image(rec).side = rec.side
    <3>1. CASE step = "switch"
      BY <3>1 DEF MenuRecord
    <3>2. CASE step = "update"
      <4>1. r.main \in Values \cup {None} /\ r.side \in {None, "old", "s"} /\ r.off \in BOOLEAN
        BY <1>2, Programs
      <4>2. /\ Written(rec, r, First(call[c].found)) \in MenuRecord
            /\ Written(rec, r, First(call[c].found)).id = rec.id
            /\ Written(rec, r, First(call[c].found)).key = rec.key
        BY <4>1 DEF Written, Sent, MenuRecord
      <4> QED BY <2>2, <3>2, <4>2
    <3> QED BY <1>6, <3>1, <3>2
  <2> HIDE DEF Image
  <2>4. IdsAreUnique'
    BY <1>3, <2>1, <2>3 DEF IdsAreUnique
  <2>5. TwinsNeedOverlap'
    <3> SUFFICES ASSUME ~ raced', NEW rec \in menu', NEW other \in menu',
                        rec # other, rec.key # None
                 PROVE  Identity(rec) # Identity(other)
      BY <1>3 DEF TwinsNeedOverlap
    <3>1. PICK x \in menu, y \in menu : rec = Image(x) /\ other = Image(y)
      BY <2>1
    <3>2. Identity(x) # Identity(y)
      BY <1>3, <2>1, <2>3, <3>1 DEF TwinsNeedOverlap
    <3>3. Identity(rec) = Identity(x) /\ Identity(other) = Identity(y)
      BY <1>3, <2>3, <3>1 DEF Identity
    <3> QED BY <3>2, <3>3
  <2> QED BY <1>3, <2>1, <2>3, <2>4, <2>5
<1> QED BY <1>1, <1>4, <1>5, <1>6 DEF Writes

(* The other calls' reads grow stale; the call itself is answered, or has       *)
(* something left to clear, or nothing of its key is left in the menu.          *)
LEMMA ApplyKeepsTools ==
    ASSUME ToolsInv, NEW c \in Callers, Apply(c)
    PROVE  ToolsInv'
<1> USE DEF ToolsInv
<1> DEFINE r == call[c].req
           i == call[c].at
           first == First(call[c].found)
           left == call[c].found \ {first}
<1>1. /\ handler' = handler /\ call[c].at # 0
      /\ raced' = (raced \/ (StepOf(c) = "create" /\ call[c].stale))
      /\ StepOf(c) \in Writes \cup {"clear"}
      /\ StepOf(c) = "clear" => \E rec \in menu : rec.id = first.id
  BY DEF Apply, Pending, TargetExists
<1>2. /\ menu' \subseteq MenuRecord /\ lastId' \in Nat /\ lastId' >= lastId
      /\ IdsAreUnique' /\ TwinsNeedOverlap'
      /\ \A rec \in menu' : \/ \E old \in menu : old.id = rec.id /\ old.key = rec.key
                            \/ rec.id = lastId + 1
  BY EffectKeeps
<1>3. /\ ToolCalls' = ToolCalls /\ CallRecord' = CallRecord
      /\ \A any : Steps(any)' = Steps(any)
      /\ \A rec, any : SameIdentity(rec, any)' = SameIdentity(rec, any)
  BY <1>1, HandlerStays
<1>4. PICK next \in {After(c), Told("failed")} :
        call' = [d \in Callers |->
                   IF d = c THEN next
                   ELSE [call[d] EXCEPT !.stale = @ \/ (Pending(d) /\ StepOf(d) \notin Finds)]]
  BY DEF Apply
\* Of what was found nobody changes the key.
<1>5. ASSUME NEW rec \in MenuRecord, rec.id <= lastId,
             \A old \in menu : old.id = rec.id => old.key = rec.key,
             NEW same \in menu', same.id = rec.id
      PROVE  same.key = rec.key
  <2>1. rec.id \in Nat /\ lastId \in Nat
    BY DEF MenuRecord, ToolTypes
  <2>2. PICK old \in menu : old.id = same.id /\ old.key = same.key
    BY <1>2, <1>5, <2>1
  <2> QED BY <1>5, <2>2
<1>6. ASSUME NEW d \in Callers, d # c
      PROVE  call'[d] \in CallRecord /\ CallIsSound(call[d])'
  <2>1. call[d] \in CallRecord /\ CallIsSound(call[d])
    BY DEF ToolTypes
  <2>2. /\ call'[d] \in CallRecord
        /\ call'[d].req = call[d].req /\ call'[d].at = call[d].at
        /\ call'[d].found = call[d].found
        /\ call'[d].at # 0 /\ StepOf(d) \notin Finds => call'[d].stale
    BY <1>4, <1>6, <2>1 DEF CallRecord, Pending
  <2>3. \A rec \in call[d].found : rec.id \in Nat /\ rec.id <= lastId'
    BY <1>2, <2>1 DEF CallIsSound, CallRecord, MenuRecord, ToolTypes
  <2>4. call[d].at # 0 => FoundHasKey(call[d])'
    <3>1. ASSUME call[d].at # 0, NEW rec \in call[d].found
          PROVE  /\ rec \in MenuRecord /\ rec.id <= lastId
                 /\ rec.key = call[d].req.key /\ rec.key # None
                 /\ \A old \in menu : old.id = rec.id => old.key = rec.key
      BY <2>1, <3>1 DEF CallIsSound, FoundHasKey, CallRecord
    <3> QED BY <1>5, <2>2, <3>1 DEF FoundHasKey
  <2>5. call[d].at # 0 => NewIsAbsent(call[d])'
    BY <1>3, <2>2 DEF NewIsAbsent, StepOf, Finds
  <2> QED BY <1>3, <2>1, <2>2, <2>3, <2>4, <2>5 DEF CallIsSound
\* The call that wrote: it is answered, or it clears on.
<1>7. next \in CallRecord /\ CallIsSound(call[c])'
  <2>1. CASE \E told \in Outcomes : next = Told(told)
    <3>1. next \in CallRecord /\ call'[c] = next /\ next.at = 0 /\ next.found = {}
      BY <1>4, <2>1, AnsweredIsSound DEF Told
    <3> QED BY <3>1 DEF CallIsSound
  <2>2. CASE StepOf(c) = "clear" /\ next = Advance(r, i, left)
    <3>1. /\ r \in ToolCalls /\ i \in 1 .. Len(Steps(r)) /\ Steps(r)[i] = "clear"
          /\ Waits(Steps(r)[i], call[c].found) /\ FoundHasKey(call[c])
          /\ call[c].found \subseteq MenuRecord
          /\ \A rec \in call[c].found : rec.id <= lastId
      BY <1>1, <2>2 DEF CallIsSound, StepOf, ToolTypes, CallRecord
    <3>2. ASSUME NEW at \in i .. Len(Steps(r)),
                 next = [req |-> r, at |-> at, found |-> left, stale |-> FALSE,
                         told |-> "nothing"],
                 Waits(Steps(r)[at], left),
                 \A k \in i .. at - 1 : ~ Halts(r, k, left)
          PROVE  next \in CallRecord /\ CallIsSound(call[c])'
      <4>1. next \in CallRecord /\ call'[c] = next
        BY <1>4, <3>1, <3>2, Programs DEF CallRecord, Outcomes
      <4>2. FoundHasKey(call[c])' /\ \A rec \in left : rec.id <= lastId'
        <5>1. ASSUME NEW rec \in left
              PROVE  /\ rec \in MenuRecord /\ rec.id <= lastId /\ rec.id \in Nat
                     /\ rec.key = r.key /\ rec.key # None
                     /\ \A old \in menu : old.id = rec.id => old.key = rec.key
          BY <3>1 DEF FoundHasKey, MenuRecord
        <5>2. FoundHasKey(call[c])'
          BY <1>5, <3>2, <4>1, <5>1 DEF FoundHasKey
        <5>3. \A rec \in left : rec.id <= lastId'
          BY <1>2, <5>1 DEF ToolTypes
        <5> QED BY <5>2, <5>3
      <4>3. ASSUME Steps(r)[at] = "create", ~ raced', NEW rec \in menu', SameIdentity(rec, r)
            PROVE  FALSE
        <5>1. ~ Halts(r, i, left)
          <6>1. at # i
            BY <3>1, <4>3
          <6>2. i \in i .. at - 1
            BY <3>1, <6>1, Programs
          <6> QED BY <3>2, <6>2
        <5>2. left = {} /\ call[c].found # {}
          BY <3>1, <5>1 DEF Halts, Waits, Finds, Writes
        <5>3. first \in call[c].found
          BY <5>2
        <5>4. PICK y \in menu : y.id = first.id
          BY <1>1, <2>2
        <5>5. y.key = r.key /\ y.key # None
          BY <3>1, <5>3, <5>4 DEF FoundHasKey
        <5>6. menu' = {any \in menu : any.id # first.id}
          BY <2>2 DEF Apply, Effect
        <5>7. rec \in menu /\ rec # y /\ rec.key = y.key
          BY <4>3, <5>4, <5>5, <5>6 DEF SameIdentity
        <5>8. ~ OnePerMain(handler) /\ ~ OnePerTable(handler)
          <6>1. /\ IdentityStays(handler) /\ r.action \in DOMAIN handler
                /\ handler[r.action][i] = "clear" /\ i \in DOMAIN handler[r.action]
            BY <3>1, Programs DEF Steps
          <6> QED BY <6>1 DEF IdentityStays, Uses
        <5>9. ~ raced
          BY <1>1, <4>3
        <5> QED BY <5>4, <5>5, <5>7, <5>8, <5>9 DEF TwinsNeedOverlap, Identity
      <4>4. NewIsAbsent(call[c])'
        <5>1. Uses(handler, "clear")'
          BY <1>1, <3>1, Programs DEF Uses, Steps
        <5> QED BY <1>3, <3>2, <4>1, <4>3, <5>1 DEF NewIsAbsent
      <4>5. /\ next.at \in 1 .. Len(Steps(r)) /\ next.req = r /\ next.found = left
            /\ r \in ToolCalls' /\ Waits(Steps(r)[next.at], next.found)
        BY <1>3, <3>1, <3>2, Programs
      <4> HIDE DEF left, r
      <4> QED BY <1>3, <4>1, <4>2, <4>4, <4>5 DEF CallIsSound
    <3> QED BY <2>1, <2>2, <3>1, <3>2, AdvanceHalts
  <2>3. next = Told("done") \/ next = Told("failed")
        \/ (StepOf(c) = "clear" /\ next = Advance(r, i, left))
    BY <1>4 DEF After
  <2> QED BY <2>1, <2>2, <2>3 DEF Outcomes
<1>8. call' \in [Callers -> CallRecord]
  BY <1>4, <1>6, <1>7
<1>9. ASSUME NEW d \in Callers PROVE CallIsSound(call[d])'
  BY <1>4, <1>6, <1>7
<1> QED BY <1>1, <1>2, <1>3, <1>8, <1>9 DEF ToolTypes

(* The calls go on as the clock runs, those that have looked on an older time.  *)
LEMMA ClockAndCalls ==
    ASSUME ToolTypes, ClockRuns
    PROVE  /\ UNCHANGED <<handler, lastId, made, lastWrite, raced>> /\ forecast' = <<>>
           /\ \A d \in Callers :
                /\ call'[d] \in CallRecord
                /\ call'[d].req = call[d].req /\ call'[d].at = call[d].at
                /\ call'[d].found = call[d].found /\ call'[d].told = call[d].told
                /\ call[d].stale => call'[d].stale
                /\ call[d].at # 0 /\ StepOf(d) \notin Finds => call'[d].stale
<1>1. call' = [d \in Callers |->
                [call[d] EXCEPT !.stale = @ \/ (Pending(d) /\ StepOf(d) \notin Finds)]]
  BY DEF ClockRuns
<1>2. ASSUME NEW d \in Callers
      PROVE  /\ call'[d] \in CallRecord
             /\ call'[d].req = call[d].req /\ call'[d].at = call[d].at
             /\ call'[d].found = call[d].found /\ call'[d].told = call[d].told
             /\ call[d].stale => call'[d].stale
             /\ call[d].at # 0 /\ StepOf(d) \notin Finds => call'[d].stale
  <2>1. call[d] \in CallRecord /\ CallRecord' = CallRecord
    BY HandlerStays DEF ToolTypes, ClockRuns
  <2> QED BY <1>1, <2>1 DEF CallRecord, Pending
<1> QED BY <1>2 DEF ClockRuns

(* The clock changes no id and no key, and no handler that adds has one.        *)
LEMMA ClockKeepsTools == ToolsInv /\ ClockRuns => ToolsInv'
<1> SUFFICES ASSUME ToolsInv, ClockRuns PROVE ToolsInv'
  OBVIOUS
<1> USE DEF ToolsInv
<1>1. PICK time \in Values : menu' = {[rec EXCEPT !.main = time] : rec \in menu}
  BY DEF ClockRuns
<1> DEFINE Image(rec) == [rec EXCEPT !.main = time]
<1>2. menu' = {Image(rec) : rec \in menu} /\ UNCHANGED <<handler, lastId, raced>>
  BY <1>1 DEF ClockRuns
<1>3. /\ ToolCalls' = ToolCalls /\ CallRecord' = CallRecord
      /\ \A r : Steps(r)' = Steps(r)
      /\ \A rec : Identity(rec)' = Identity(rec)
  BY <1>2, HandlerStays
<1>4. ~ OnePerMain(handler) /\ ~ OnePerTable(handler)
  BY HandlersAssumption DEF ToolTypes, ClockRuns, IdentityStays
<1>5. \A rec \in menu : /\ Image(rec) \in MenuRecord /\ Image(rec).id = rec.id
                        /\ Image(rec).key = rec.key
  BY DEF ToolTypes, MenuRecord
<1> HIDE DEF Image
<1>6. IdsAreUnique'
  BY <1>2, <1>5 DEF IdsAreUnique
<1>7. TwinsNeedOverlap'
  <2> SUFFICES ASSUME ~ raced', NEW rec \in menu', NEW other \in menu',
                      rec # other, rec.key # None
               PROVE  Identity(rec) # Identity(other)
    BY <1>3 DEF TwinsNeedOverlap
  <2>1. PICK x \in menu, y \in menu : rec = Image(x) /\ other = Image(y)
    BY <1>2
  <2> QED BY <1>2, <1>4, <1>5, <2>1 DEF TwinsNeedOverlap, Identity
<1>8. ASSUME NEW d \in Callers
      PROVE  call'[d] \in CallRecord /\ CallIsSound(call[d])'
  <2>1. call[d] \in CallRecord /\ CallIsSound(call[d])
    BY DEF ToolTypes
  <2>2. /\ call'[d] \in CallRecord
        /\ call'[d].req = call[d].req /\ call'[d].at = call[d].at
        /\ call'[d].found = call[d].found
        /\ call'[d].at # 0 /\ StepOf(d) \notin Finds => call'[d].stale
    BY ClockAndCalls
  <2>3. call[d].at # 0 => FoundHasKey(call[d])'
    BY <1>2, <1>5, <2>1, <2>2 DEF CallIsSound, FoundHasKey
  <2>4. call[d].at # 0 => NewIsAbsent(call[d])'
    BY <1>3, <2>2 DEF NewIsAbsent, StepOf, Finds
  <2> QED BY <1>2, <1>3, <2>1, <2>2, <2>3, <2>4 DEF CallIsSound
<1>9. ToolTypes'
  <2>1. call' \in [Callers -> CallRecord]
    <3>1. call' = [d \in Callers |-> call'[d]]
      BY DEF ClockRuns
    <3> QED BY <1>8, <3>1
  <2> QED BY <1>2, <1>3, <1>5, <2>1 DEF ToolTypes
<1> QED BY <1>6, <1>7, <1>8, <1>9

LEMMA StepKeepsTools == ToolsInv /\ [ToolsNext]_toolsVars => ToolsInv'
<1> SUFFICES ASSUME ToolsInv, [ToolsNext]_toolsVars PROVE ToolsInv'
  OBVIOUS
<1>1. CASE ToolsNext
  BY <1>1, BeginKeepsTools, FindKeepsTools, ApplyKeepsTools, FailKeepsTools, ClockKeepsTools
     DEF ToolsNext
<1>2. CASE UNCHANGED toolsVars
  <2>1. /\ handler' = handler /\ menu' = menu /\ call' = call /\ lastId' = lastId
        /\ raced' = raced
    BY <1>2 DEF toolsVars
  <2>2. /\ ToolCalls' = ToolCalls /\ CallRecord' = CallRecord
        /\ \A r : Steps(r)' = Steps(r)
        /\ \A rec, r : SameIdentity(rec, r)' = SameIdentity(rec, r)
        /\ \A rec : Identity(rec)' = Identity(rec)
    BY <2>1, HandlerStays
  <2> QED BY <2>1, <2>2 DEF ToolsInv, ToolTypes, IdsAreUnique, TwinsNeedOverlap, CallIsSound,
                            FoundHasKey, NewIsAbsent
<1> QED BY <1>1, <1>2

(* Calls that overlap or not, whoever makes them and however many: the records  *)
(* keep ids of their own, and a call about to add on a menu nobody wrote since  *)
(* it looked adds something new.                                                *)
THEOREM ToolsInvariant == ToolsSpec => []ToolsInv
<1>1. ToolsInv /\ [ToolsNext]_toolsVars => ToolsInv'
  BY StepKeepsTools
<1> QED BY ToolsInitEstablishes, <1>1, PTL DEF ToolsSpec

(* The adds of every handler that looks before it adds leave two records of one *)
(* identity only when two calls overlapped.                                     *)
THEOREM TwinsAreRaced == ToolsSpec => []TwinsNeedOverlap
<1>1. ToolsInv => TwinsNeedOverlap
  BY DEF ToolsInv
<1> QED BY ToolsInvariant, <1>1, PTL

-----------------------------------------------------------------------------
(* A dry run says what the call does.                                          *)

(* What the look at step f brings up, and the answer that a call gets to from   *)
(* step i.                                                                      *)
FoundAt(r, f) == Sought(r, Steps(r)[f])
AnsweredAt(r, i, j, found, told) ==
    /\ told = Answer(Steps(r)[j])
    /\ ~ Waits(Steps(r)[j], found) /\ Ends(Steps(r)[j], r, found)
    /\ \A k \in i .. j - 1 : ~ Halts(r, k, found)

(* A call that is to look has passed every check before.                        *)
PassedChecks(x) ==
    x.at # 0 /\ Steps(x.req)[x.at] \in Finds => \A k \in 1 .. x.at - 1 : ~ Halts(x.req, k, {})

(* What a dry run of r on this menu says: before it has looked, or after.       *)
DryRunSays(r, told) ==
    \/ \E j \in 1 .. Len(Steps(r)) : AnsweredAt(r, 1, j, {}, told)
    \/ \E f \in 1 .. Len(Steps(r)) :
         /\ Steps(r)[f] \in Finds
         /\ \E j \in f + 1 .. Len(Steps(r)) : AnsweredAt(r, f + 1, j, FoundAt(r, f), told)

Real(r) == [r EXCEPT !.dryRun = FALSE]
ForecastHolds ==
    forecast = <<>> \/
    \E r \in ToolCalls : \E told \in Outcomes :
        r.dryRun /\ forecast = <<Real(r), told>> /\ DryRunSays(r, told)

(* While nobody writes the menu, the last dry run's answer is still the one     *)
(* that a dry run would get.                                                    *)
ForecastInv ==
    ToolsInv /\ (\A c \in Callers : PassedChecks(call[c])) /\ ForecastHolds

(* Nothing but the dry run's answer depends on its being a dry run.             *)
LEMMA DryRunsCheckTheSame ==
    ASSUME ToolTypes, NEW r \in ToolCalls
    PROVE  /\ Real(r).action = r.action /\ Steps(Real(r)) = Steps(r) /\ ~ Real(r).dryRun
           /\ \A f : FoundAt(Real(r), f) = FoundAt(r, f)
           /\ \A step, found : step # "preview" => Ends(step, Real(r), found) = Ends(step, r, found)
<1>1. PICK a \in DOMAIN handler :
        r \in [action : {a}, key : Keys, main : Mains(a), side : Sides(a), off : Offs(a),
               dryRun : IF Has(a, "preview") THEN BOOLEAN ELSE {FALSE}]
  BY DEF ToolCalls
<1>2. /\ Real(r).action = r.action /\ Real(r).key = r.key /\ Real(r).main = r.main
      /\ Real(r).side = r.side /\ Real(r).off = r.off /\ ~ Real(r).dryRun
  BY <1>1 DEF Real
<1> HIDE DEF Real
<1>3. Steps(Real(r)) = Steps(r)
  BY <1>2 DEF Steps
<1>4. \A f : FoundAt(Real(r), f) = FoundAt(r, f)
  BY <1>2, <1>3 DEF FoundAt, Sought, FoundValue, FoundTable, Found
<1>5. ASSUME NEW step, NEW found, step # "preview"
      PROVE  Ends(step, Real(r), found) = Ends(step, r, found)
  BY <1>2, <1>5 DEF Ends, Unchanged
<1> QED BY <1>2, <1>3, <1>4, <1>5

(* What is true of dry runs stays true while the handler and the menu do.       *)
LEMMA DryRunsStay ==
    ASSUME handler' = handler, menu' = menu
    PROVE  /\ \A r, told : DryRunSays(r, told)' = DryRunSays(r, told)
           /\ \A r : Real(r)' = Real(r)
<1>1. \A r : Steps(r)' = Steps(r)
  BY HandlerStays
<1>2. \A r, f : FoundAt(r, f)' = FoundAt(r, f)
  BY <1>1 DEF FoundAt, Sought, Found, FoundValue, FoundTable
<1>3. \A r, i, j, found, told : AnsweredAt(r, i, j, found, told)' = AnsweredAt(r, i, j, found, told)
  BY <1>1 DEF AnsweredAt, Halts
<1> QED BY <1>1, <1>2, <1>3 DEF DryRunSays, Real

(* A dry run that is answered is remembered with the answer.                    *)
LEMMA RememberKeeps ==
    ASSUME ToolTypes, ForecastHolds, handler' = handler, menu' = menu,
           NEW r \in ToolCalls, NEW next, Remember(r, next),
           next.told \in {"nothing", "failed"} \/
             (next.told \in Outcomes /\ DryRunSays(r, next.told))
    PROVE  ForecastHolds'
<1>1. ToolCalls' = ToolCalls
  BY HandlerStays
<1>2. CASE r.dryRun /\ next.told \notin {"nothing", "failed"}
  <2>1. forecast' = <<Real(r), next.told>>
    BY <1>2 DEF Remember, Real
  <2> QED BY <1>1, <1>2, <2>1, DryRunsStay DEF ForecastHolds
<1>3. CASE ~ (r.dryRun /\ next.told \notin {"nothing", "failed"})
  BY <1>1, <1>3, DryRunsStay DEF Remember, ForecastHolds
<1> QED BY <1>2, <1>3

LEMMA BeginForecasts ==
    ASSUME ForecastInv, NEW c \in Callers, Begin(c)
    PROVE  ForecastHolds' /\ \A d \in Callers : PassedChecks(call[d])'
<1> USE DEF ForecastInv, ToolsInv
<1>1. PICK r \in ToolCalls : call' = [call EXCEPT ![c] = Advance(r, 1, {})]
                             /\ Remember(r, Advance(r, 1, {}))
  BY DEF Begin
<1>2. 1 \in 1 .. Len(Steps(r)) /\ handler' = handler /\ menu' = menu
  BY Programs DEF Begin
<1>3. PICK at \in 1 .. Len(Steps(r)) :
        /\ \A k \in 1 .. at - 1 : ~ Halts(r, k, {})
        /\ \/ /\ Waits(Steps(r)[at], {})
              /\ Advance(r, 1, {}) = [req |-> r, at |-> at, found |-> {},
                                      stale |-> FALSE, told |-> "nothing"]
           \/ /\ ~ Waits(Steps(r)[at], {}) /\ Ends(Steps(r)[at], r, {})
              /\ Answer(Steps(r)[at]) \in Outcomes
              /\ Advance(r, 1, {}) = Told(Answer(Steps(r)[at]))
  BY <1>2, AdvanceHalts
<1> DEFINE next == Advance(r, 1, {})
<1> HIDE DEF next
<1>4. next.told = "nothing" \/ (next.told \in Outcomes /\ DryRunSays(r, next.told))
  BY <1>3 DEF next, Told, DryRunSays, AnsweredAt
<1>5. ForecastHolds'
  BY <1>1, <1>2, <1>4, RememberKeeps DEF next
<1>6. PassedChecks(next)
  BY <1>3 DEF next, Told, PassedChecks
<1>7. ASSUME NEW d \in Callers PROVE PassedChecks(call[d])'
  <2>1. PassedChecks(call'[d])
    BY <1>1, <1>6 DEF next, ToolTypes
  <2> QED BY <1>2, <2>1, HandlerStays DEF PassedChecks, Halts
<1> QED BY <1>5, <1>7

(* A call looks once.                                                           *)
LEMMA LooksOnce ==
    ASSUME ToolTypes, NEW r \in ToolCalls,
           NEW i \in 1 .. Len(Steps(r)), NEW j \in 1 .. Len(Steps(r)),
           Steps(r)[i] \in Finds, Steps(r)[j] \in Finds \cup Writes \cup {"clear"}
    PROVE  i <= j
<1>1. /\ LooksFirst(handler) /\ r.action \in DOMAIN handler /\ Steps(r) = handler[r.action]
      /\ DOMAIN Steps(r) = 1 .. Len(Steps(r))
  BY Programs DEF Steps
<1> QED BY <1>1 DEF LooksFirst

LEMMA FindForecasts ==
    ASSUME ForecastInv, NEW c \in Callers, Find(c)
    PROVE  ForecastHolds' /\ \A d \in Callers : PassedChecks(call[d])'
<1> USE DEF ForecastInv, ToolsInv
<1> DEFINE r == call[c].req
           f == call[c].at
           found == FoundAt(r, f)
           next == Advance(r, f + 1, found)
<1>1. /\ call' = [call EXCEPT ![c] = next] /\ Remember(r, next)
      /\ handler' = handler /\ menu' = menu
      /\ Steps(r)[f] \in Finds /\ f # 0
  BY DEF Find, Pending, FoundAt, StepOf
<1>2. r \in ToolCalls /\ f \in 1 .. Len(Steps(r))
  BY <1>1 DEF CallIsSound
<1> HIDE DEF r, f, found, next
<1>3. f + 1 \in 1 .. Len(Steps(r)) /\ Len(Steps(r)) \in Nat
  BY <1>1, <1>2, LooksGoOn
<1>4. PICK at \in f + 1 .. Len(Steps(r)) :
        /\ \A k \in f + 1 .. at - 1 : ~ Halts(r, k, found)
        /\ \/ /\ Waits(Steps(r)[at], found)
              /\ next = [req |-> r, at |-> at, found |-> found, stale |-> FALSE, told |-> "nothing"]
           \/ /\ ~ Waits(Steps(r)[at], found) /\ Ends(Steps(r)[at], r, found)
              /\ Answer(Steps(r)[at]) \in Outcomes
              /\ next = Told(Answer(Steps(r)[at]))
  BY <1>2, <1>3, AdvanceHalts DEF next
<1>5. next.told = "nothing" \/ (next.told \in Outcomes /\ DryRunSays(r, next.told))
  <2>1. CASE next = Told(Answer(Steps(r)[at]))
    <3>1. CASE Waits(Steps(r)[at], found)
      BY <1>4, <3>1
    <3>2. CASE ~ Waits(Steps(r)[at], found)
      <4>1. AnsweredAt(r, f + 1, at, FoundAt(r, f), next.told) /\ next.told \in Outcomes
        BY <1>4, <2>1, <3>2 DEF AnsweredAt, Told, found
      <4> QED BY <1>1, <1>2, <4>1 DEF DryRunSays
    <3> QED BY <3>1, <3>2
  <2> QED BY <1>4, <2>1
<1>6. ForecastHolds'
  BY <1>1, <1>2, <1>5, RememberKeeps
<1>7. PassedChecks(next)
  <2>1. CASE next.at = 0
    BY <2>1 DEF PassedChecks
  <2>2. CASE next.at # 0
    <3>1. next.req = r /\ next.at = at
      BY <1>4, <2>2 DEF Told
    <3>2. ~ (Steps(r)[at] \in Finds)
      <4> SUFFICES ASSUME Steps(r)[at] \in Finds PROVE FALSE
        OBVIOUS
      <4>1. at \in 1 .. Len(Steps(r)) /\ f + 1 <= at
        BY <1>2, <1>3
      <4>2. at <= f
        BY <1>1, <1>2, <4>1, LooksOnce
      <4> QED BY <1>2, <1>3, <4>1, <4>2
    <3> QED BY <3>1, <3>2 DEF PassedChecks
  <2> QED BY <2>1, <2>2
<1>8. ASSUME NEW d \in Callers PROVE PassedChecks(call[d])'
  <2>1. PassedChecks(call'[d])
    BY <1>1, <1>7 DEF ToolTypes
  <2> QED BY <1>1, <2>1, HandlerStays DEF PassedChecks, Halts
<1> QED BY <1>6, <1>8

LEMMA ApplyForecasts ==
    ASSUME ForecastInv, NEW c \in Callers, Apply(c)
    PROVE  ForecastHolds' /\ \A d \in Callers : PassedChecks(call[d])'
<1> USE DEF ForecastInv, ToolsInv
<1> DEFINE r == call[c].req
           i == call[c].at
           left == call[c].found \ {First(call[c].found)}
<1>1. /\ handler' = handler /\ i # 0 /\ forecast' = <<>>
      /\ StepOf(c) \in Writes \cup {"clear"}
  BY DEF Apply, Pending
<1>2. PICK next \in {After(c), Told("failed")} :
        call' = [d \in Callers |->
                   IF d = c THEN next
                   ELSE [call[d] EXCEPT !.stale = @ \/ (Pending(d) /\ StepOf(d) \notin Finds)]]
  BY DEF Apply
<1>3. r \in ToolCalls /\ i \in 1 .. Len(Steps(r)) /\ StepOf(c) = Steps(r)[i]
  BY <1>1 DEF CallIsSound, StepOf
<1>4. PassedChecks(next)
  <2>1. CASE next = Told("failed") \/ next = Told("done")
    BY <2>1 DEF Told, PassedChecks
  <2>2. CASE StepOf(c) = "clear" /\ next = Advance(r, i, left)
    <3>1. PICK at \in i .. Len(Steps(r)) :
            \/ next = [req |-> r, at |-> at, found |-> left, stale |-> FALSE, told |-> "nothing"]
            \/ next = Told(Answer(Steps(r)[at]))
      <4> HIDE DEF left, r, i
      <4> QED BY <1>3, <2>2, AdvanceHalts
    <3> HIDE DEF left, r, i
    <3>2. ASSUME next.at # 0, Steps(r)[at] \in Finds PROVE FALSE
      <4>1. at \in 1 .. Len(Steps(r)) /\ i <= at /\ Len(Steps(r)) \in Nat
        BY <1>3, Programs
      <4>2. at <= i
        BY <1>3, <2>2, <3>2, <4>1, LooksOnce
      <4>3. at = i
        BY <1>3, <4>1, <4>2
      <4> QED BY <1>3, <2>2, <3>2, <4>3 DEF Finds
    <3> QED BY <3>1, <3>2 DEF PassedChecks, Told
  <2> QED BY <1>2, <2>1, <2>2 DEF After
<1>5. ASSUME NEW d \in Callers PROVE PassedChecks(call[d])'
  <2>1. PassedChecks(call[d])
    OBVIOUS
  <2>2. d # c => call'[d].req = call[d].req /\ call'[d].at = call[d].at
    BY <1>2 DEF ToolTypes, CallRecord
  <2>3. PassedChecks(call'[d])
    <3>1. CASE d = c
      BY <1>2, <1>4, <3>1
    <3>2. CASE d # c
      BY <2>1, <2>2, <3>2 DEF PassedChecks
    <3> QED BY <3>1, <3>2
  <2> QED BY <1>1, <2>3, HandlerStays DEF PassedChecks, Halts
<1> QED BY <1>1, <1>5 DEF ForecastHolds

LEMMA FailForecasts ==
    ASSUME ForecastInv, NEW c \in Callers, Fail(c)
    PROVE  ForecastHolds' /\ \A d \in Callers : PassedChecks(call[d])'
<1> USE DEF ForecastInv, ToolsInv
<1>1. /\ handler' = handler /\ menu' = menu /\ forecast' = forecast
      /\ call' = [call EXCEPT ![c] = Told("failed")]
  BY DEF Fail
<1>2. ForecastHolds'
  BY <1>1, HandlerStays, DryRunsStay DEF ForecastHolds
<1>3. ASSUME NEW d \in Callers PROVE PassedChecks(call[d])'
  <2>1. PassedChecks(call'[d])
    BY <1>1 DEF ToolTypes, Told, PassedChecks
  <2> QED BY <1>1, <2>1, HandlerStays DEF PassedChecks, Halts
<1> QED BY <1>2, <1>3

LEMMA ClockForecasts ==
    ASSUME ForecastInv, ClockRuns
    PROVE  ForecastHolds' /\ \A d \in Callers : PassedChecks(call[d])'
<1> USE DEF ForecastInv, ToolsInv
<1>1. ASSUME NEW d \in Callers PROVE PassedChecks(call[d])'
  <2>1. PassedChecks(call'[d])
    BY ClockAndCalls DEF PassedChecks
  <2> QED BY <2>1, ClockAndCalls, HandlerStays DEF PassedChecks, Halts
<1> QED BY <1>1, ClockAndCalls DEF ForecastHolds

LEMMA StepForecasts == ForecastInv /\ [ToolsNext]_toolsVars => ForecastInv'
<1> SUFFICES ASSUME ForecastInv, [ToolsNext]_toolsVars PROVE ForecastInv'
  OBVIOUS
<1>1. ToolsInv'
  BY StepKeepsTools DEF ForecastInv
<1>2. CASE ToolsNext
  BY <1>1, <1>2, BeginForecasts, FindForecasts, ApplyForecasts, FailForecasts, ClockForecasts
     DEF ToolsNext, ForecastInv
<1>3. CASE UNCHANGED toolsVars
  <2>1. handler' = handler /\ menu' = menu /\ call' = call /\ forecast' = forecast
    BY <1>3 DEF toolsVars
  <2>2. ForecastHolds'
    BY <2>1, HandlerStays, DryRunsStay DEF ForecastInv, ForecastHolds
  <2>3. \A c \in Callers : PassedChecks(call[c])'
    BY <2>1, HandlerStays DEF ForecastInv, PassedChecks, Halts
  <2> QED BY <1>1, <2>2, <2>3 DEF ForecastInv
<1> QED BY <1>2, <1>3

(* A call that is answered after it would have been previewed names no field.   *)
LEMMA AnsweredAfterPreview ==
    ASSUME ToolTypes, NEW r \in ToolCalls, NEW found,
           NEW i \in 1 .. Len(Steps(r)), NEW j \in 1 .. Len(Steps(r)), i < j,
           Steps(r)[i] = "preview", ~ Waits(Steps(r)[j], found), Ends(Steps(r)[j], r, found)
    PROVE  Has(r.action, "empty") /\ Ends("empty", r, {})
<1>1. /\ ChecksBeforePreview(handler) /\ r.action \in DOMAIN handler
      /\ Steps(r) = handler[r.action] /\ DOMAIN Steps(r) = 1 .. Len(Steps(r))
  BY Programs DEF Steps
<1>2. Steps(r)[j] \in Finds \cup Writes \cup {"clear", "empty"}
  BY <1>1 DEF ChecksBeforePreview
<1>3. Steps(r)[j] = "empty" \/ Steps(r)[j] = "clear"
  BY <1>2 DEF Waits
<1>4. Steps(r)[j] # "clear"
  <2> SUFFICES ASSUME Steps(r)[j] = "clear" PROVE FALSE
    OBVIOUS
  <2>1. Ends("clear", r, found)
    OBVIOUS
  <2> QED BY <2>1 DEF Ends
<1>5. Ends("empty", r, found)
  BY <1>3, <1>4
<1>6. Ends("empty", r, {})
  BY <1>5 DEF Ends
<1> QED BY <1>1, <1>3, <1>4, <1>6 DEF Has

(* The call that was forecast gets to what the dry run said.                    *)
LEMMA ForecastIsMet ==
    ASSUME ForecastInv, NEW c \in Callers, Find(c), forecast # <<>>, forecast[1] = call[c].req
    PROVE  IF call'[c].at # 0 THEN forecast[2] = "preview"
           ELSE \/ call'[c].told = forecast[2]
                \/ Has(call[c].req.action, "empty") /\ Ends("empty", call[c].req, {})
<1> USE DEF ForecastInv, ToolsInv
<1> DEFINE r == call[c].req
           f == call[c].at
           found == FoundAt(r, f)
           next == call'[c]
<1>1. /\ next = Advance(r, f + 1, found)
      /\ Steps(r)[f] \in Finds /\ f # 0
  BY DEF Find, Pending, FoundAt, StepOf, ToolTypes
<1>2. r \in ToolCalls /\ f \in 1 .. Len(Steps(r)) /\ \A k \in 1 .. f - 1 : ~ Halts(r, k, {})
  BY <1>1 DEF CallIsSound, PassedChecks
<1>3. PICK q \in ToolCalls, told \in Outcomes :
        q.dryRun /\ forecast = <<Real(q), told>> /\ DryRunSays(q, told)
  BY DEF ForecastHolds
<1>4. r = Real(q) /\ forecast[2] = told
  BY <1>3
<1> HIDE DEF r, f, found, next
<1>5. /\ r.action = q.action /\ Steps(r) = Steps(q) /\ ~ r.dryRun
      /\ found = FoundAt(q, f)
      /\ \A step, any : step # "preview" => Ends(step, r, any) = Ends(step, q, any)
  BY <1>3, <1>4, DryRunsCheckTheSame DEF found
<1>6. /\ Len(Steps(r)) \in Nat /\ f + 1 \in 1 .. Len(Steps(r))
      /\ \A k \in 1 .. Len(Steps(r)) : Steps(r)[k] = "preview" => k \in 1 .. Len(Steps(r)) - 1
  <2>1. f + 1 \in 1 .. Len(Steps(r))
    BY <1>1, <1>2, LooksGoOn
  <2>2. Len(Steps(r)) \in Nat /\ Steps(r)[Len(Steps(r))] # "preview"
    BY <1>2, Programs DEF Writes
  <2> QED BY <2>1, <2>2
<1>7. PICK at \in f + 1 .. Len(Steps(r)) :
        /\ \A k \in f + 1 .. at - 1 : ~ Halts(r, k, found)
        /\ \/ /\ Waits(Steps(r)[at], found)
              /\ next = [req |-> r, at |-> at, found |-> found, stale |-> FALSE, told |-> "nothing"]
           \/ /\ ~ Waits(Steps(r)[at], found) /\ Ends(Steps(r)[at], r, found)
              /\ next = Told(Answer(Steps(r)[at]))
  BY <1>1, <1>2, <1>6, AdvanceHalts
<1>8. at \in 1 .. Len(Steps(r)) /\ f < at
  BY <1>2, <1>6
\* Once the dry run's answer is passed, the call goes on to a request.
<1>9. ASSUME NEW j \in 1 .. Len(Steps(r)), j < at, Steps(r)[j] = "preview", told = "preview"
      PROVE  IF next.at # 0 THEN told = "preview"
             ELSE Has(r.action, "empty") /\ Ends("empty", r, {})
  <2>1. CASE Waits(Steps(r)[at], found)
    BY <1>7, <1>8, <1>9, <2>1
  <2>2. CASE ~ Waits(Steps(r)[at], found)
    BY <1>2, <1>7, <1>8, <1>9, <2>2, AnsweredAfterPreview
  <2> QED BY <2>1, <2>2
<1>10. Answer("preview") = "preview"
  BY DEF Answer
<1>11. \A any : Ends("preview", q, any) /\ ~ Ends("preview", r, any)
  BY <1>3, <1>5 DEF Ends
<1>12. CASE \E j \in 1 .. Len(Steps(q)) : AnsweredAt(q, 1, j, {}, told)
  <2>1. PICK j \in 1 .. Len(Steps(r)) :
          /\ told = Answer(Steps(r)[j])
          /\ ~ Waits(Steps(r)[j], {}) /\ Ends(Steps(r)[j], q, {})
          /\ \A k \in 1 .. j - 1 : ~ Halts(q, k, {})
    BY <1>5, <1>12 DEF AnsweredAt
  <2>2. Waits(Steps(r)[f], {})
    BY <1>1 DEF Waits
  <2>3. ~ (f \in 1 .. j - 1) /\ f # j
    BY <1>5, <2>1, <2>2 DEF Halts
  <2>4. j \in 1 .. f - 1
    BY <1>2, <1>6, <2>3
  <2>5. Steps(r)[j] = "preview"
    BY <1>2, <1>5, <2>1, <2>4 DEF Halts
  <2>6. j < at /\ told = "preview"
    BY <1>2, <1>8, <1>10, <2>1, <2>4, <2>5
  <2> QED BY <1>4, <1>9, <2>5, <2>6 DEF next, r
<1>13. CASE \E g \in 1 .. Len(Steps(q)) :
             /\ Steps(q)[g] \in Finds
             /\ \E j \in g + 1 .. Len(Steps(q)) : AnsweredAt(q, g + 1, j, FoundAt(q, g), told)
  <2>1. PICK g \in 1 .. Len(Steps(r)) :
          /\ Steps(r)[g] \in Finds
          /\ \E j \in g + 1 .. Len(Steps(r)) : AnsweredAt(q, g + 1, j, FoundAt(q, g), told)
    BY <1>5, <1>13
  <2>2. g = f
    <3>1. g <= f /\ f <= g
      BY <1>1, <1>2, <2>1, LooksOnce
    <3> QED BY <1>2, <1>6, <3>1
  <2>3. PICK j \in f + 1 .. Len(Steps(r)) :
          /\ told = Answer(Steps(r)[j])
          /\ ~ Waits(Steps(r)[j], found) /\ Ends(Steps(r)[j], q, found)
          /\ \A k \in f + 1 .. j - 1 : ~ Halts(q, k, found)
    BY <1>5, <2>1, <2>2 DEF AnsweredAt
  <2>4. at >= j
    <3> SUFFICES ASSUME at < j PROVE FALSE
      BY <1>6, <1>8, <2>3
    <3>1. at \in f + 1 .. j - 1 /\ ~ Halts(q, at, found)
      BY <1>6, <2>3
    <3>2. Waits(Steps(r)[at], found) \/ Ends(Steps(r)[at], r, found)
      BY <1>7
    <3> QED BY <1>5, <1>11, <3>1, <3>2 DEF Halts
  <2>5. CASE Steps(r)[j] = "preview"
    <3>1. at # j
      BY <1>7, <1>11, <2>3, <2>5
    <3>2. j \in 1 .. Len(Steps(r)) /\ j < at /\ told = "preview"
      BY <1>2, <1>6, <1>8, <1>10, <2>3, <2>4, <2>5, <3>1
    <3> QED BY <1>4, <1>9, <2>5, <3>2 DEF next, r
  <2>6. CASE Steps(r)[j] # "preview"
    <3>1. Halts(r, j, found)
      BY <1>5, <2>3, <2>6 DEF Halts
    <3>2. ~ (j \in f + 1 .. at - 1)
      BY <1>7, <3>1
    <3>3. at = j
      BY <1>6, <1>8, <2>3, <2>4, <3>2
    <3>4. next = Told(told)
      BY <1>7, <2>3, <3>3
    <3> QED BY <1>4, <3>4 DEF Told, next, r
  <2> QED BY <2>5, <2>6
<1> QED BY <1>3, <1>12, <1>13 DEF DryRunSays

(* Only its own look gets a call that is to look any further.                   *)
LEMMA OnlyFindLooks ==
    ASSUME ToolsInv, ToolsNext, NEW c \in Callers, Pending(c), StepOf(c) \in Finds,
           call'[c].at # call[c].at, call'[c].told # "failed"
    PROVE  Find(c)
<1> USE DEF ToolsInv
<1>1. PICK d \in Callers : Begin(d) \/ Find(d) \/ Apply(d) \/ Fail(d)
  BY ClockAndCalls DEF ToolsNext
<1>2. d = c
  <2> SUFFICES ASSUME d # c PROVE call'[c].at = call[c].at
    OBVIOUS
  <2>1. CASE Begin(d) \/ Find(d) \/ Fail(d)
    BY <2>1 DEF Begin, Find, Fail, ToolTypes
  <2>2. CASE Apply(d)
    BY <2>2 DEF Apply, ToolTypes, CallRecord
  <2> QED BY <1>1, <2>1, <2>2
<1>3. ~ Begin(c)
  BY DEF Begin
<1>4. ~ Fail(c)
  BY DEF Fail, Told, ToolTypes
<1>5. ~ Apply(c)
  BY DEF Apply, Finds, Writes
<1> QED BY <1>1, <1>2, <1>3, <1>4, <1>5

(* A dry run says what the call does, for every handler that checks before it   *)
(* answers a dry run.                                                           *)
THEOREM DryRunsForecast == ToolsSpec => PreviewForecasts
<1> DEFINE Forecast ==
      \A c \in Callers :
         LET r    == call[c].req
             next == call'[c] IN
         /\ Pending(c) /\ StepOf(c) \in Finds /\ next.at # call[c].at /\ next.told # "failed"
         /\ forecast # <<>> /\ forecast[1] = r
         => IF next.at # 0 THEN forecast[2] = "preview"
            ELSE next.told = forecast[2] \/ (Has(r.action, "empty") /\ Ends("empty", r, {}))
<1>1. ToolsInit => ForecastInv
  <2> SUFFICES ASSUME ToolsInit PROVE ForecastInv
    OBVIOUS
  <2> QED BY ToolsInitEstablishes DEF ToolsInit, ForecastInv, ForecastHolds, PassedChecks, Told
<1>2. ForecastInv /\ [ToolsNext]_toolsVars => ForecastInv'
  BY StepForecasts
<1>3. ForecastInv /\ [ToolsNext]_toolsVars => [Forecast]_toolsVars
  <2> SUFFICES ASSUME ForecastInv, ToolsNext PROVE Forecast
    OBVIOUS
  <2> SUFFICES ASSUME NEW c \in Callers, Pending(c), StepOf(c) \in Finds,
                      call'[c].at # call[c].at, call'[c].told # "failed",
                      forecast # <<>>, forecast[1] = call[c].req
               PROVE  IF call'[c].at # 0 THEN forecast[2] = "preview"
                      ELSE \/ call'[c].told = forecast[2]
                           \/ Has(call[c].req.action, "empty") /\ Ends("empty", call[c].req, {})
    OBVIOUS
  <2>1. Find(c)
    BY OnlyFindLooks DEF ForecastInv
  <2> QED BY <2>1, ForecastIsMet
<1> QED BY <1>1, <1>2, <1>3, PTL DEF ToolsSpec, PreviewForecasts

-----------------------------------------------------------------------------
(* A request that was applied and is made again changes nothing.               *)

(* What a call found is what it would find now, unless someone wrote since.     *)
FoundIsCurrent(x) ==
    x.at # 0 /\ ~ x.stale /\ Steps(x.req)[x.at] \notin Finds /\ ~ Uses(handler, "clear") =>
        \/ x.found = {}
        \/ \E f \in 1 .. Len(Steps(x.req)) :
             Steps(x.req)[f] \in Finds /\ x.found = FoundAt(x.req, f)

(* The menu is as the write of the call r leaves it.                            *)
LastStep(r) == Steps(r)[Len(Steps(r))]
Looks(r) == {f \in 1 .. Len(Steps(r)) : Steps(r)[f] \in Finds}
WriteHolds(r) ==
    /\ LastStep(r) = "create" =>
         \E rec \in menu : /\ rec.key = r.key /\ rec.main = r.main /\ rec.off = r.off
                           /\ rec.side = TableOf(r)
    /\ LastStep(r) = "remove" => \A f \in Looks(r) : FoundAt(r, f) = {}
    /\ LastStep(r) = "switch" =>
         \A f \in Looks(r) : \A rec \in FoundAt(r, f) : rec.off = (r.action = "switchOff")
    /\ LastStep(r) = "update" =>
         \A f \in Looks(r) : \A rec \in FoundAt(r, f) :
            /\ Given(r.main, rec.main) = rec.main /\ Given(r.side, rec.side) = rec.side
            /\ Has(r.action, "unchangedState") => rec.off = r.off
LastWriteHolds ==
    lastWrite # <<>> =>
        /\ lastWrite[1] \in ToolCalls
        /\ ~ Uses(handler, "clear") /\ ~ RunsOn(handler) => WriteHolds(lastWrite[1])

(* Reads that are not stale are true, and the last write still shows.           *)
RetryInv ==
    /\ ToolsInv /\ IsFiniteSet(menu)
    /\ \A c \in Callers : FoundIsCurrent(call[c])
    /\ LastWriteHolds

LEMMA FirstIsFound ==
    ASSUME NEW S \in SUBSET MenuRecord, S # {}
    PROVE  First(S) \in S /\ First(S).id \in Nat
<1>1. {rec.id : rec \in S} \in SUBSET Nat /\ {rec.id : rec \in S} # {}
  BY DEF MenuRecord
<1>2. PICK n \in {rec.id : rec \in S} : \A m \in {rec.id : rec \in S} : n <= m
  BY <1>1, SmallestOf
<1>3. \E rec \in S : \A other \in S : rec.id <= other.id
  BY <1>2
<1>4. First(S) \in S
  BY <1>3 DEF First
<1> QED BY <1>4 DEF MenuRecord

(* What a look finds, before a step and after it.                               *)
IsSought(r, f, rec) ==
    /\ rec.key = r.key /\ r.key # None
    /\ \/ Steps(r)[f] = "find"
       \/ Steps(r)[f] = "findValue" /\ r.main \in {None, rec.main}
       \/ Steps(r)[f] \notin {"find", "findValue"} /\ r.side \in {None, rec.side}
LEMMA LooksFind ==
    ASSUME handler' = handler, NEW r, NEW f
    PROVE  /\ FoundAt(r, f) = {rec \in menu : IsSought(r, f, rec)}
           /\ FoundAt(r, f)' = {rec \in menu' : IsSought(r, f, rec)}
<1>1. \A m : /\ {rec \in {x \in m : x.key = r.key /\ r.key # None} : r.main \in {None, rec.main}}
                = {rec \in m : rec.key = r.key /\ r.key # None /\ r.main \in {None, rec.main}}
             /\ {rec \in {x \in m : x.key = r.key /\ r.key # None} : r.side \in {None, rec.side}}
                = {rec \in m : rec.key = r.key /\ r.key # None /\ r.side \in {None, rec.side}}
  OBVIOUS
<1>2. Steps(r)' = Steps(r)
  BY HandlerStays
<1> QED BY <1>1, <1>2 DEF FoundAt, Sought, IsSought, Found, FoundValue, FoundTable

(* At a write the call is at the end of its program.                            *)
LEMMA AtWrite ==
    ASSUME RetryInv, NEW c \in Callers, Apply(c), ~ Uses(handler, "clear")
    PROVE  /\ call[c].req \in ToolCalls /\ StepOf(c) = LastStep(call[c].req)
           /\ StepOf(c) \in Writes /\ call[c].at # 0
           /\ ~ call[c].stale /\ StepOf(c) \notin {"create", "execute"} =>
                /\ call[c].found # {} /\ call[c].found \subseteq menu
                /\ First(call[c].found) \in call[c].found
                /\ \E f \in Looks(call[c].req) : call[c].found = FoundAt(call[c].req, f)
<1> USE DEF RetryInv, ToolsInv
<1> DEFINE r == call[c].req
<1>1. /\ call[c].at # 0 /\ StepOf(c) \in Writes \cup {"clear"} /\ TargetExists(c)
      /\ handler' = handler
  BY DEF Apply, Pending
<1>2. /\ r \in ToolCalls /\ call[c].at \in 1 .. Len(Steps(r)) /\ StepOf(c) = Steps(r)[call[c].at]
  BY <1>1 DEF CallIsSound, StepOf
<1> HIDE DEF r
<1>3. StepOf(c) # "clear"
  BY <1>2, Programs DEF Uses, Steps
<1>4. StepOf(c) \in Writes /\ StepOf(c) = LastStep(r)
  BY <1>1, <1>2, <1>3, Programs DEF LastStep
<1>5. ASSUME ~ call[c].stale, StepOf(c) \notin {"create", "execute"}
      PROVE  /\ call[c].found # {} /\ call[c].found \subseteq menu
             /\ First(call[c].found) \in call[c].found
             /\ \E f \in Looks(r) : call[c].found = FoundAt(r, f)
  <2>1. call[c].found # {}
    BY <1>1, <1>5 DEF TargetExists
  <2>2. PICK f \in Looks(r) : call[c].found = FoundAt(r, f)
    BY <1>1, <1>2, <1>4, <1>5, <2>1 DEF FoundIsCurrent, Looks, Finds, Writes, r
  <2>3. call[c].found \subseteq menu
    BY <1>1, <2>2, LooksFind
  <2>4. First(call[c].found) \in call[c].found
    BY <2>1, <2>3, FirstIsFound DEF ToolTypes
  <2> QED BY <2>1, <2>2, <2>3, <2>4
<1> QED BY <1>1, <1>2, <1>4, <1>5 DEF r

LEMMA AtMostOne ==
    ASSUME NEW S, IsFiniteSet(S), ~ (Cardinality(S) > 1), NEW x \in S, NEW y \in S
    PROVE  x = y
<1> SUFFICES ASSUME x # y PROVE FALSE
  OBVIOUS
<1>1. Cardinality(S) \in Nat
  BY FS_CardinalityType
<1>2. IsFiniteSet({x}) /\ Cardinality({x}) = 1
  BY FS_Singleton
<1>3. IsFiniteSet({x} \cup {y}) /\ Cardinality({x} \cup {y}) = 2
  <2>1. /\ IsFiniteSet({x} \cup {y})
        /\ Cardinality({x} \cup {y}) = IF y \in {x} THEN Cardinality({x}) ELSE Cardinality({x}) + 1
    BY <1>2, FS_AddElement, Zenon
  <2> QED BY <1>2, <2>1
<1>4. Cardinality({x} \cup {y}) <= Cardinality(S)
  BY FS_Subset
<1> QED BY <1>1, <1>3, <1>4

(* What the router makes of a write that names a record, or adds one.           *)
LEMMA EffectIs ==
    ASSUME RetryInv, NEW c \in Callers, Apply(c), ~ Uses(handler, "clear"), ~ call[c].stale
    PROVE  /\ handler' = handler /\ menu \subseteq MenuRecord
           /\ StepOf(c) = "create" =>
                \E new : /\ new.key = call[c].req.key /\ new.main = call[c].req.main
                        /\ new.off = call[c].req.off /\ new.side = TableOf(call[c].req)
                        /\ menu' = menu \cup {new}
           /\ StepOf(c) = "remove" =>
                menu' = {rec \in menu : rec # First(call[c].found)}
           /\ StepOf(c) \in {"switch", "update"} =>
                menu' = {IF rec = First(call[c].found) THEN Changed(rec, c) ELSE rec : rec \in menu}
           /\ StepOf(c) = "execute" => menu' = menu
<1> USE DEF RetryInv, ToolsInv
<1> DEFINE first == First(call[c].found)
<1>1. /\ handler' = handler /\ menu' = Effect(c) /\ menu \subseteq MenuRecord
      /\ StepOf(c) \notin {"create", "execute"} => first \in menu
      /\ \A rec \in menu : first \in menu => (rec.id = first.id <=> rec = first)
  BY AtWrite DEF Apply, ToolTypes, IdsAreUnique
<1>2. CASE StepOf(c) = "create"
  <2> DEFINE r == call[c].req
             new == [id |-> lastId + 1, key |-> r.key, main |-> r.main,
                     side |-> Given(r.side, "old"), off |-> r.off]
  <2>1. menu' = menu \cup {new}
    BY <1>1, <1>2 DEF Effect
  <2>2. new.key = r.key /\ new.main = r.main /\ new.off = r.off /\ new.side = TableOf(r)
    BY DEF TableOf
  <2> HIDE DEF new
  <2> QED BY <1>1, <1>2, <2>1, <2>2
<1>3. CASE StepOf(c) = "remove"
  <2>1. menu' = {rec \in menu : rec.id # first.id}
    BY <1>1, <1>3 DEF Effect
  <2> QED BY <1>1, <1>3, <2>1
<1>4. CASE StepOf(c) \in {"switch", "update"}
  <2>1. menu' = {IF rec.id = first.id THEN Changed(rec, c) ELSE rec : rec \in menu}
    BY <1>1, <1>4 DEF Effect
  <2> QED BY <1>1, <1>4, <2>1
<1>5. CASE StepOf(c) = "execute"
  BY <1>1, <1>5 DEF Effect
<1>6. StepOf(c) \in Writes
  BY AtWrite
<1> QED BY <1>1, <1>2, <1>3, <1>4, <1>5, <1>6 DEF Writes

(* The record that a change makes of the one that was read.                     *)
LEMMA ChangedIs ==
    ASSUME RetryInv, NEW c \in Callers, Apply(c), ~ Uses(handler, "clear"), ~ call[c].stale,
           StepOf(c) \in {"switch", "update"}, NEW first, first = First(call[c].found)
    PROVE  LET r == call[c].req  new == Changed(first, c) IN
           /\ first \in MenuRecord /\ new \in MenuRecord
           /\ new.id = first.id /\ new.key = first.key
           /\ StepOf(c) = "switch" =>
                /\ new.off = (r.action = "switchOff")
                /\ new.main = first.main /\ new.side = first.side
           /\ StepOf(c) = "update" =>
                /\ Given(r.main, new.main) = new.main /\ Given(r.side, new.side) = new.side
                /\ Has(r.action, "unchangedState") => new.off = r.off
                /\ (Has(r.action, "unchangedState") => first.off = r.off) => new.off = first.off
                /\ Given(r.main, first.main) = first.main => new.main = first.main
                /\ Given(r.side, first.side) = first.side => new.side = first.side
<1> USE DEF RetryInv, ToolsInv
<1> DEFINE r == call[c].req
           new == Changed(first, c)
<1>1. first \in MenuRecord /\ r \in ToolCalls
  BY AtWrite DEF ToolTypes
<1>2. r.main \in Values \cup {None} /\ r.side \in {None, "old", "s"} /\ r.off \in BOOLEAN
  BY <1>1, Programs
<1>3. CASE StepOf(c) = "switch"
  <2>1. new = [first EXCEPT !.off = (r.action = "switchOff")]
    BY <1>3 DEF Changed
  <2> HIDE DEF new
  <2>2. /\ new \in MenuRecord /\ new.id = first.id /\ new.key = first.key
        /\ new.off = (r.action = "switchOff")
        /\ new.main = first.main /\ new.side = first.side
    BY <1>1, <2>1 DEF MenuRecord
  <2> QED BY <1>1, <1>3, <2>2 DEF new
<1>4. CASE StepOf(c) = "update"
  <2>1. new = Written(first, r, first)
    BY <1>4 DEF Changed
  <2>2. new = [first EXCEPT !.main = IF Sent(r, "main", first) THEN r.main ELSE first.main,
                            !.side = IF Sent(r, "side", first) THEN r.side ELSE first.side,
                            !.off = IF Has(r.action, "unchangedState") /\ r.off # first.off
                                    THEN r.off ELSE first.off]
    BY <1>1, <2>1 DEF Written, MenuRecord
  <2> HIDE DEF new
  <2>3. /\ new \in MenuRecord /\ new.id = first.id /\ new.key = first.key
        /\ new.off = (IF Has(r.action, "unchangedState") /\ r.off # first.off
                      THEN r.off ELSE first.off)
        /\ new.main = (IF Sent(r, "main", first) THEN r.main ELSE first.main)
        /\ new.side = (IF Sent(r, "side", first) THEN r.side ELSE first.side)
    BY <1>1, <1>2, <2>2 DEF MenuRecord, Sent
  <2>4. /\ Sent(r, "main", first) => r.main # None
        /\ ~ Sent(r, "main", first) => r.main \in {None, first.main}
        /\ Sent(r, "side", first) => r.side # None
        /\ ~ Sent(r, "side", first) => r.side \in {None, first.side}
    BY DEF Sent
  <2> QED BY <1>1, <1>4, <2>3, <2>4 DEF Given, new
<1> QED BY <1>3, <1>4

(* A write that is not stale, on one record at most, leaves the menu as asked.  *)
LEMMA WriteIsDone ==
    ASSUME RetryInv, NEW c \in Callers, Apply(c), ~ Uses(handler, "clear"), ~ call[c].stale,
           ~ (Cardinality(call[c].found) > 1), NEW r, r = call[c].req
    PROVE  WriteHolds(r)'
<1> USE DEF RetryInv, ToolsInv
<1> DEFINE step == StepOf(c)
           found == call[c].found
           first == First(call[c].found)
<1>1. /\ handler' = handler /\ r \in ToolCalls
      /\ step = LastStep(r) /\ step \in Writes
      /\ LastStep(r)' = LastStep(r) /\ Looks(r)' = Looks(r) /\ Len(Steps(r)) \in Nat
  BY AtWrite, EffectIs, HandlerStays, Programs DEF LastStep, Looks
<1>2. \A f \in Looks(r), g \in Looks(r) : f = g
  <2> SUFFICES ASSUME NEW f \in Looks(r), NEW g \in Looks(r) PROVE f = g
    OBVIOUS
  <2>1. f <= g /\ g <= f
    BY <1>1, LooksOnce DEF Looks
  <2> QED BY <1>1, <2>1 DEF Looks
<1>3. CASE step = "create"
  <2>1. \E rec \in menu' : /\ rec.key = r.key /\ rec.main = r.main /\ rec.off = r.off
                           /\ rec.side = TableOf(r)
    BY <1>3, EffectIs
  <2>2. TableOf(r)' = TableOf(r)
    BY DEF TableOf
  <2> QED BY <1>1, <1>3, <2>1, <2>2 DEF WriteHolds
<1>4. CASE step = "execute"
  BY <1>1, <1>4 DEF WriteHolds
<1>5. CASE step \in {"remove", "switch", "update"}
  <2>1. /\ found \subseteq menu /\ first \in found /\ menu \subseteq MenuRecord
        /\ \A f \in Looks(r) : found = FoundAt(r, f)
    BY <1>2, <1>5, AtWrite, EffectIs
  <2>2. \A rec \in found : rec = first
    BY <2>1, AtMostOne, FS_Subset
  <2>3. CASE step = "remove"
    <3>1. menu' = {rec \in menu : rec # first}
      BY <2>3, EffectIs
    <3>2. ASSUME NEW f \in Looks(r) PROVE FoundAt(r, f)' = {}
      <4> SUFFICES ASSUME NEW rec \in FoundAt(r, f)' PROVE FALSE
        OBVIOUS
      <4>1. rec \in FoundAt(r, f) /\ rec # first
        BY <1>1, <3>1, LooksFind
      <4> QED BY <2>1, <2>2, <4>1
    <3> QED BY <1>1, <2>3, <3>2 DEF WriteHolds
  <2>4. CASE step \in {"switch", "update"}
    <3> DEFINE new == Changed(first, c)
    <3>1. menu' = {IF rec = first THEN Changed(rec, c) ELSE rec : rec \in menu}
      BY <2>4, EffectIs
    <3>2. /\ new.key = first.key
          /\ step = "switch" => new.off = (r.action = "switchOff") /\ new.main = first.main
          /\ step = "update" => /\ Given(r.main, new.main) = new.main
                                /\ Given(r.side, new.side) = new.side
                                /\ Has(r.action, "unchangedState") => new.off = r.off
      BY <2>4, ChangedIs
    \* Nothing changes the field that a look by value compares.
    <3>3. ASSUME NEW f \in Looks(r), step = "update" PROVE Steps(r)[f] = "find"
      <4>1. /\ IdentityStays(handler) /\ r.action \in DOMAIN handler
            /\ handler[r.action] = Steps(r) /\ DOMAIN Steps(r) = 1 .. Len(Steps(r))
            /\ Len(Steps(r)) \in DOMAIN Steps(r)
        BY <1>1, Programs DEF Steps
      <4>2. /\ Uses(handler, "update") /\ (Steps(r)[f] = "findValue" => Uses(handler, "findValue"))
            /\ Steps(r)[f] = "findTable" => Uses(handler, "findTable")
        BY <1>1, <3>3, <4>1 DEF Uses, LastStep, Looks
      <4>3. Steps(r)[f] \notin {"findValue", "findTable"}
        BY <4>1, <4>2 DEF IdentityStays, OnePerTable
      <4> QED BY <4>3 DEF Looks, Finds
    <3> HIDE DEF new
    <3>4. ASSUME NEW f \in Looks(r), NEW rec \in FoundAt(r, f)' PROVE rec = new
      <4>1. rec \in menu' /\ IsSought(r, f, rec)
        BY <1>1, <3>4, LooksFind
      <4>2. PICK old \in menu : rec = IF old = first THEN Changed(old, c) ELSE old
        BY <3>1, <4>1
      <4>3. CASE old = first
        BY <4>2, <4>3 DEF new
      <4>4. CASE old # first
        <5>1. old \in FoundAt(r, f)
          BY <1>1, <4>1, <4>2, <4>4, LooksFind
        <5> QED BY <2>1, <2>2, <4>4, <5>1
      <4> QED BY <4>3, <4>4
    <3>5. \A s : Has(r.action, s)' = Has(r.action, s)
      BY <1>1 DEF Has
    <3> QED BY <1>1, <2>4, <3>2, <3>4, <3>5 DEF WriteHolds
  <2> QED BY <1>5, <2>3, <2>4
<1> QED BY <1>1, <1>3, <1>4, <1>5 DEF Writes

(* Made again on the menu it left, a write leaves it so.                        *)
LEMMA WriteTwice ==
    ASSUME RetryInv, NEW c \in Callers, Apply(c), ~ Uses(handler, "clear"), ~ RunsOn(handler),
           ~ call[c].stale,
           lastWrite = <<call[c].req>>, call[c].req.key # None
    PROVE  menu' = menu
<1> USE DEF RetryInv, ToolsInv
<1> DEFINE r == call[c].req
           step == StepOf(c)
           found == call[c].found
           first == First(call[c].found)
<1>1. /\ r \in ToolCalls /\ step = LastStep(r) /\ step \in Writes /\ call[c].at # 0
      /\ WriteHolds(r) /\ menu \subseteq MenuRecord
  BY AtWrite, EffectIs DEF LastWriteHolds
<1>2. step \notin {"create", "execute"} =>
        found \subseteq menu /\ first \in found /\ \E f \in Looks(r) : found = FoundAt(r, f)
  BY AtWrite
<1>3. CASE step = "create"
  <2>1. \A rec \in menu : ~ SameIdentity(rec, r)
    BY <1>1, <1>3 DEF CallIsSound, NewIsAbsent, StepOf
  <2>2. \E rec \in menu : rec.key = r.key /\ rec.main = r.main /\ rec.side = TableOf(r)
    BY <1>1, <1>3 DEF WriteHolds
  <2> QED BY <2>1, <2>2 DEF SameIdentity
<1>4. CASE step = "remove"
  BY <1>1, <1>2, <1>4 DEF WriteHolds
<1>5. CASE step \in {"switch", "update"}
  <2> DEFINE new == Changed(first, c)
  <2>1. /\ step = "switch" => first.off = (r.action = "switchOff")
        /\ step = "update" => /\ Given(r.main, first.main) = first.main
                              /\ Given(r.side, first.side) = first.side
                              /\ Has(r.action, "unchangedState") => first.off = r.off
    BY <1>1, <1>2, <1>5 DEF WriteHolds
  <2>2. /\ first \in MenuRecord /\ new \in MenuRecord
        /\ new.id = first.id /\ new.key = first.key /\ new.main = first.main
        /\ new.side = first.side /\ new.off = first.off
    BY <1>5, <2>1, ChangedIs
  <2> HIDE DEF new
  <2>3. new = first
    <3>1. \A x, y \in MenuRecord :
             /\ x.id = y.id /\ x.key = y.key /\ x.main = y.main /\ x.side = y.side /\ x.off = y.off
             => x = y
      BY DEF MenuRecord
    <3> QED BY <2>2, <3>1
  <2>4. menu' = {IF rec = first THEN Changed(rec, c) ELSE rec : rec \in menu}
    BY <1>5, EffectIs
  <2>5. \A rec \in menu : (IF rec = first THEN Changed(rec, c) ELSE rec) = rec
    BY <2>3 DEF new
  <2> QED BY <2>4, <2>5
<1>6. CASE step = "execute"
  BY <1>6, EffectIs
<1> QED BY <1>1, <1>3, <1>4, <1>5, <1>6 DEF Writes

(* While nobody writes, what was read and what was written hold on.             *)
LEMMA UnwrittenStays ==
    ASSUME handler' = handler, menu' = menu
    PROVE  /\ \A r, f : FoundAt(r, f)' = FoundAt(r, f)
           /\ \A x : FoundIsCurrent(x)' = FoundIsCurrent(x)
           /\ \A r : WriteHolds(r)' = WriteHolds(r)
           /\ lastWrite' = lastWrite => LastWriteHolds' = LastWriteHolds
           /\ IsFiniteSet(menu') = IsFiniteSet(menu)
<1>1. ToolCalls' = ToolCalls /\ (\A r : Steps(r)' = Steps(r))
      /\ Uses(handler, "clear")' = Uses(handler, "clear") /\ RunsOn(handler)' = RunsOn(handler)
      /\ (\A a, s : Has(a, s)' = Has(a, s)) /\ (\A r : TableOf(r)' = TableOf(r))
  BY HandlerStays DEF Uses, RunsOn, Has, TableOf
<1>2. \A r, f : FoundAt(r, f)' = FoundAt(r, f)
  BY <1>1 DEF FoundAt, Sought, Found, FoundValue, FoundTable
<1>3. \A x : FoundIsCurrent(x)' = FoundIsCurrent(x)
  BY <1>1, <1>2 DEF FoundIsCurrent
<1>4. \A r : WriteHolds(r)' = WriteHolds(r)
  BY <1>1, <1>2 DEF WriteHolds, LastStep, Looks
<1>5. lastWrite' = lastWrite => LastWriteHolds' = LastWriteHolds
  BY <1>1, <1>4 DEF LastWriteHolds
<1> QED BY <1>2, <1>3, <1>4, <1>5

LEMMA BeginIsCurrent ==
    ASSUME RetryInv, NEW c \in Callers, Begin(c)
    PROVE  \A d \in Callers : FoundIsCurrent(call[d])'
<1> USE DEF RetryInv, ToolsInv
<1>1. PICK r \in ToolCalls : call' = [call EXCEPT ![c] = Advance(r, 1, {})]
  BY DEF Begin
<1>2. 1 \in 1 .. Len(Steps(r)) /\ handler' = handler /\ menu' = menu
  BY Programs DEF Begin
<1> DEFINE next == Advance(r, 1, {})
<1> HIDE DEF next
<1>3. next.found = {}
  BY <1>2, AdvanceHalts DEF next, Told
<1>4. FoundIsCurrent(next)
  BY <1>3 DEF FoundIsCurrent
<1>5. ASSUME NEW d \in Callers PROVE FoundIsCurrent(call[d])'
  <2>1. FoundIsCurrent(call'[d])
    BY <1>1, <1>4 DEF next, ToolTypes
  <2> QED BY <1>2, <2>1, UnwrittenStays DEF FoundIsCurrent
<1> QED BY <1>5

LEMMA FindIsCurrent ==
    ASSUME RetryInv, NEW c \in Callers, Find(c)
    PROVE  \A d \in Callers : FoundIsCurrent(call[d])'
<1> USE DEF RetryInv, ToolsInv
<1> DEFINE r == call[c].req
           f == call[c].at
           found == FoundAt(r, f)
           next == Advance(r, f + 1, found)
<1>1. /\ call' = [call EXCEPT ![c] = next]
      /\ handler' = handler /\ menu' = menu
      /\ Steps(r)[f] \in Finds /\ f # 0
  BY DEF Find, Pending, FoundAt, StepOf
<1>2. r \in ToolCalls /\ f \in 1 .. Len(Steps(r))
  BY <1>1 DEF CallIsSound
<1> HIDE DEF r, f, found, next
<1>3. f + 1 \in 1 .. Len(Steps(r))
  BY <1>1, <1>2, LooksGoOn
<1>4. next.at = 0 \/ (next.req = r /\ next.found = found)
  BY <1>2, <1>3, AdvanceHalts DEF next, Told
<1>5. FoundIsCurrent(next)
  BY <1>1, <1>2, <1>4 DEF FoundIsCurrent, found
<1>6. ASSUME NEW d \in Callers PROVE FoundIsCurrent(call[d])'
  <2>1. FoundIsCurrent(call'[d])
    BY <1>1, <1>5 DEF ToolTypes
  <2> QED BY <1>1, <2>1, UnwrittenStays DEF FoundIsCurrent
<1> QED BY <1>6

LEMMA FailIsCurrent ==
    ASSUME RetryInv, NEW c \in Callers, Fail(c)
    PROVE  \A d \in Callers : FoundIsCurrent(call[d])'
<1> USE DEF RetryInv, ToolsInv
<1>1. /\ handler' = handler /\ menu' = menu
      /\ call' = [call EXCEPT ![c] = Told("failed")]
  BY DEF Fail
<1>2. ASSUME NEW d \in Callers PROVE FoundIsCurrent(call[d])'
  <2>1. FoundIsCurrent(call'[d])
    BY <1>1 DEF ToolTypes, Told, FoundIsCurrent
  <2> QED BY <1>1, <2>1, UnwrittenStays DEF FoundIsCurrent
<1> QED BY <1>2

(* A write leaves no read current but those that are still to be made.          *)
LEMMA ApplyIsCurrent ==
    ASSUME RetryInv, NEW c \in Callers, Apply(c)
    PROVE  \A d \in Callers : FoundIsCurrent(call[d])'
<1> USE DEF RetryInv, ToolsInv
<1>1. handler' = handler /\ call[c].at # 0 /\ StepOf(c) \in Writes \cup {"clear"}
  BY DEF Apply, Pending
<1>2. PICK next \in {After(c), Told("failed")} :
        call' = [d \in Callers |->
                   IF d = c THEN next
                   ELSE [call[d] EXCEPT !.stale = @ \/ (Pending(d) /\ StepOf(d) \notin Finds)]]
  BY DEF Apply
<1>3. ~ Uses(handler, "clear") => next.at = 0
  <2> SUFFICES ASSUME ~ Uses(handler, "clear") PROVE next.at = 0
    OBVIOUS
  <2>1. StepOf(c) \in Writes
    BY AtWrite
  <2> QED BY <1>2, <2>1 DEF After, Writes, Told
<1>4. ASSUME NEW d \in Callers PROVE FoundIsCurrent(call[d])'
  <2>1. CASE d = c
    <3>1. ~ Uses(handler, "clear") => call'[d].at = 0
      BY <1>2, <1>3, <2>1
    <3> QED BY <1>1, <3>1 DEF FoundIsCurrent, Uses
  <2>2. CASE d # c
    <3>1. /\ call'[d].req = call[d].req /\ call'[d].at = call[d].at
          /\ call[d].at # 0 /\ StepOf(d) \notin Finds => call'[d].stale
      BY <1>2, <2>2 DEF ToolTypes, CallRecord, Pending
    <3>2. \A r : Steps(r)' = Steps(r)
      BY <1>1, HandlerStays
    <3> QED BY <3>1, <3>2 DEF FoundIsCurrent, StepOf
  <2> QED BY <2>1, <2>2
<1> QED BY <1>4

(* As the clock runs no read stays current but those still to be made.          *)
LEMMA ClockIsCurrent ==
    ASSUME RetryInv, ClockRuns
    PROVE  (\A d \in Callers : FoundIsCurrent(call[d])') /\ IsFiniteSet(menu') /\ LastWriteHolds'
<1> USE DEF RetryInv, ToolsInv
<1>1. ASSUME NEW d \in Callers PROVE FoundIsCurrent(call[d])'
  BY ClockAndCalls, HandlerStays DEF FoundIsCurrent, StepOf
<1>2. IsFiniteSet(menu')
  <2>1. PICK time \in Values : menu' = {[rec EXCEPT !.main = time] : rec \in menu}
    BY DEF ClockRuns
  <2> DEFINE change == [rec \in menu |-> [rec EXCEPT !.main = time]]
  <2>2. menu' = {change[rec] : rec \in menu}
    BY <2>1
  <2>3. change \in Surjection(menu, menu')
    <3>1. change \in [menu -> menu']
      BY <2>2
    <3> HIDE DEF change
    <3> QED BY <2>2, <3>1 DEF Surjection
  <2> HIDE DEF change
  <2> QED BY <2>3, FS_Surjection
<1>3. LastWriteHolds'
  <2>1. ToolCalls' = ToolCalls /\ RunsOn(handler)'
    BY ClockAndCalls, HandlerStays DEF ClockRuns, RunsOn, Uses
  <2> QED BY <2>1, ClockAndCalls DEF LastWriteHolds
<1> QED BY <1>1, <1>2, <1>3

(* A write takes one record, adds one, or changes some.                         *)
LEMMA MenuStaysFinite ==
    ASSUME RetryInv, NEW c \in Callers, Apply(c)
    PROVE  IsFiniteSet(menu')
<1> USE DEF RetryInv
<1>1. menu' = Effect(c) /\ StepOf(c) \in Writes \cup {"clear"}
  BY DEF Apply
<1>2. CASE StepOf(c) = "create"
  <2> DEFINE r == call[c].req
             new == [id |-> lastId + 1, key |-> r.key, main |-> r.main,
                     side |-> Given(r.side, "old"), off |-> r.off]
  <2>1. menu' = menu \cup {new}
    BY <1>1, <1>2 DEF Effect
  <2> HIDE DEF new
  <2> QED BY <2>1, FS_AddElement
<1>3. CASE StepOf(c) \in {"remove", "clear", "execute"}
  <2>1. menu' \subseteq menu
    BY <1>1, <1>3 DEF Effect
  <2> QED BY <2>1, FS_Subset
<1>4. CASE StepOf(c) \in {"switch", "update"}
  <2> DEFINE target == First(call[c].found).id
             change == [rec \in menu |-> IF rec.id = target THEN Changed(rec, c) ELSE rec]
  <2>1. menu' = {change[rec] : rec \in menu}
    BY <1>1, <1>4 DEF Effect
  <2>2. change \in Surjection(menu, menu')
    <3>1. DOMAIN change = menu
      OBVIOUS
    <3>2. change \in [menu -> menu']
      BY <2>1
    <3> HIDE DEF change
    <3> QED BY <2>1, <3>2 DEF Surjection
  <2> HIDE DEF change
  <2> QED BY <2>2, FS_Surjection
<1> QED BY <1>1, <1>2, <1>3, <1>4 DEF Writes

LEMMA ApplyRetries ==
    ASSUME RetryInv, NEW c \in Callers, Apply(c)
    PROVE  LastWriteHolds'
<1> USE DEF RetryInv, ToolsInv
<1>1. /\ handler' = handler /\ call[c].at # 0
      /\ lastWrite' = IF call[c].stale \/ Cardinality(call[c].found) > 1 THEN <<>>
                      ELSE <<call[c].req>>
  BY DEF Apply, Pending
<1>2. /\ ToolCalls' = ToolCalls /\ (\A any : Steps(any)' = Steps(any))
      /\ Uses(handler, "clear")' = Uses(handler, "clear") /\ RunsOn(handler)' = RunsOn(handler)
  BY <1>1, HandlerStays DEF Uses, RunsOn
<1>3. CASE lastWrite' = <<>>
  BY <1>3 DEF LastWriteHolds
<1>4. CASE ~ call[c].stale /\ ~ (Cardinality(call[c].found) > 1)
  <2>1. PICK r \in ToolCalls : r = call[c].req
    BY <1>1 DEF CallIsSound
  <2>2. lastWrite' = <<r>>
    BY <1>1, <1>4, <2>1
  <2>3. ~ Uses(handler, "clear") => WriteHolds(r)'
    BY <1>4, <2>1, WriteIsDone
  <2>4. lastWrite'[1] = r
    BY <2>2
  <2>5. WriteHolds(r)' => WriteHolds(lastWrite[1])'
    BY <2>4 DEF WriteHolds, LastStep, Looks
  <2> QED BY <1>2, <2>2, <2>3, <2>4, <2>5 DEF LastWriteHolds
<1> QED BY <1>1, <1>3, <1>4

LEMMA StepRetries == RetryInv /\ [ToolsNext]_toolsVars => RetryInv'
<1> SUFFICES ASSUME RetryInv, [ToolsNext]_toolsVars PROVE RetryInv'
  OBVIOUS
<1>1. ToolsInv'
  BY StepKeepsTools DEF RetryInv
<1>2. ASSUME NEW c \in Callers, Begin(c) \/ Find(c) \/ Fail(c) PROVE RetryInv'
  <2>1. handler' = handler /\ menu' = menu /\ lastWrite' = lastWrite
    BY <1>2 DEF Begin, Find, Fail
  <2>2. \A d \in Callers : FoundIsCurrent(call[d])'
    BY <1>2, BeginIsCurrent, FindIsCurrent, FailIsCurrent
  <2> QED BY <1>1, <2>1, <2>2, UnwrittenStays DEF RetryInv
<1>3. ASSUME NEW c \in Callers, Apply(c) PROVE RetryInv'
  BY <1>1, <1>3, ApplyIsCurrent, MenuStaysFinite, ApplyRetries DEF RetryInv
<1>4. CASE ClockRuns
  BY <1>1, <1>4, ClockIsCurrent DEF RetryInv
<1>5. CASE UNCHANGED toolsVars
  <2>1. handler' = handler /\ menu' = menu /\ call' = call /\ lastWrite' = lastWrite
    BY <1>5 DEF toolsVars
  <2>2. \A d \in Callers : FoundIsCurrent(call[d])'
    BY <2>1, UnwrittenStays DEF RetryInv, FoundIsCurrent
  <2> QED BY <1>1, <2>1, <2>2, UnwrittenStays DEF RetryInv
<1> QED BY <1>2, <1>3, <1>4, <1>5 DEF ToolsNext

(* At the start nothing was written, and nothing read.                          *)
LEMMA RetryStarts == ToolsInit => RetryInv
<1> SUFFICES ASSUME ToolsInit PROVE RetryInv
  OBVIOUS
<1>1. IsFiniteSet(menu)
  <2>1. \A x, y : IsFiniteSet({x} \cup {y}) /\ IsFiniteSet({x}) /\ IsFiniteSet({})
    BY FS_EmptySet, FS_Singleton, FS_AddElement
  <2>2. menu \subseteq {Record(0, "a")} \cup {Record(1, "b")}
    BY DEF ToolsInit, Menus
  <2> QED BY <2>1, <2>2, FS_Subset
<1> QED BY <1>1, ToolsInitEstablishes DEF ToolsInit, RetryInv, LastWriteHolds, FoundIsCurrent, Told

(* Of every handler that looks before it writes and clears nothing, but for the *)
(* clock's, the request applied last, made again, leaves the menu as it is.     *)
THEOREM RetriesChangeNothing == ToolsSpec => RetryChangesNothing
<1> DEFINE Retry ==
      \A c \in Callers : Repeats(c) /\ ~ RunsOn(handler) => menu' = menu
<1>1. ToolsInit => RetryInv
  BY RetryStarts
<1>2. RetryInv /\ [ToolsNext]_toolsVars => RetryInv'
  BY StepRetries
<1>3. RetryInv /\ [ToolsNext]_toolsVars => [Retry]_toolsVars
  <2> SUFFICES ASSUME RetryInv, ToolsNext PROVE Retry
    OBVIOUS
  <2> SUFFICES ASSUME NEW c \in Callers, handler \in Idempotent, lastWrite = <<call[c].req>>,
                      Pending(c), ~ call[c].stale, call[c].req.key # None,
                      call'[c].at # call[c].at, ~ RunsOn(handler)
               PROVE  menu' = menu
    BY DEF Repeats
  <2>1. ~ Uses(handler, "clear")
    BY IdempotentAssumption
  <2>2. PICK d \in Callers : Begin(d) \/ Find(d) \/ Apply(d) \/ Fail(d)
    BY DEF ToolsNext, ClockRuns
  <2>3. CASE Begin(d) \/ Find(d) \/ Fail(d)
    BY <2>3 DEF Begin, Find, Fail
  <2>4. CASE Apply(d)
    <3>1. d = c
      BY <2>4 DEF Apply, RetryInv, ToolsInv, ToolTypes, CallRecord
    <3> QED BY <2>1, <2>4, <3>1, WriteTwice
  <2> QED BY <2>2, <2>3, <2>4
<1> QED BY <1>1, <1>2, <1>3, PTL DEF ToolsSpec, RetryChangesNothing

-----------------------------------------------------------------------------
(* A success is true when it is told.                                          *)

(* A call without a key has not passed the check for one, and a call that waits *)
(* has been told nothing.                                                       *)
WaitsUntold(x) ==
    x.at # 0 =>
        /\ x.told = "nothing"
        /\ x.req.key = None => \A k \in 1 .. x.at - 1 : Steps(x.req)[k] # "keyed"

(* Where a removal that finds nothing is a success, every record has a key.     *)
RecordsHaveKeys ==
    Uses(handler, "gone") /\ Uses(handler, "keyed") => \A rec \in menu : rec.key # None

SuccessInv == RetryInv /\ (\A c \in Callers : WaitsUntold(call[c])) /\ RecordsHaveKeys

(* A call that goes on from step i, past a look or a clearing, has still not    *)
(* passed a check for a key it does not have.                                   *)
LEMMA AdvanceUntold ==
    ASSUME ToolTypes, NEW r \in ToolCalls, NEW found, NEW i \in 1 .. Len(Steps(r)),
           r.key = None => \A k \in 1 .. i - 1 : Steps(r)[k] # "keyed"
    PROVE  WaitsUntold(Advance(r, i, found))
<1>1. PICK at \in i .. Len(Steps(r)) :
        /\ \A k \in i .. at - 1 : ~ Halts(r, k, found)
        /\ \/ Advance(r, i, found) = [req |-> r, at |-> at, found |-> found,
                                      stale |-> FALSE, told |-> "nothing"]
           \/ Advance(r, i, found) = Told(Answer(Steps(r)[at]))
  BY AdvanceHalts
<1>2. ASSUME r.key = None, NEW k \in 1 .. at - 1 PROVE Steps(r)[k] # "keyed"
  <2>1. CASE k \in 1 .. i - 1
    BY <1>2, <2>1
  <2>2. CASE k \in i .. at - 1
    <3>1. ~ Ends(Steps(r)[k], r, found)
      BY <1>1, <2>2 DEF Halts
    <3> QED BY <1>2, <3>1 DEF Ends
  <2> QED BY <2>1, <2>2
<1> DEFINE next == Advance(r, i, found)
<1> HIDE DEF next
<1>3. next.at # 0 => next.told = "nothing" /\ next.req = r /\ next.at = at
  BY <1>1 DEF next, Told
<1> QED BY <1>2, <1>3 DEF WaitsUntold, next

LEMMA UntoldStays ==
    ASSUME handler' = handler
    PROVE  \A x : WaitsUntold(x)' = WaitsUntold(x)
BY HandlerStays DEF WaitsUntold

LEMMA BeginUntold ==
    ASSUME SuccessInv, NEW c \in Callers, Begin(c)
    PROVE  \A d \in Callers : WaitsUntold(call[d])'
<1> USE DEF SuccessInv, RetryInv, ToolsInv
<1>1. PICK r \in ToolCalls : call' = [call EXCEPT ![c] = Advance(r, 1, {})]
  BY DEF Begin
<1>2. 1 \in 1 .. Len(Steps(r)) /\ handler' = handler
  BY Programs DEF Begin
<1>3. WaitsUntold(Advance(r, 1, {}))
  BY <1>2, AdvanceUntold
<1>4. ASSUME NEW d \in Callers PROVE WaitsUntold(call'[d])
  BY <1>1, <1>3 DEF ToolTypes
<1> QED BY <1>2, <1>4, UntoldStays DEF WaitsUntold

LEMMA FindUntold ==
    ASSUME SuccessInv, NEW c \in Callers, Find(c)
    PROVE  \A d \in Callers : WaitsUntold(call[d])'
<1> USE DEF SuccessInv, RetryInv, ToolsInv
<1> DEFINE r == call[c].req
           f == call[c].at
           next == Advance(r, f + 1, FoundAt(r, f))
<1>1. /\ call' = [call EXCEPT ![c] = next] /\ handler' = handler
      /\ Steps(r)[f] \in Finds /\ f # 0
  BY DEF Find, Pending, FoundAt, StepOf
<1>2. /\ r \in ToolCalls /\ f \in 1 .. Len(Steps(r))
      /\ r.key = None => \A k \in 1 .. f - 1 : Steps(r)[k] # "keyed"
  BY <1>1 DEF CallIsSound, WaitsUntold
<1> HIDE DEF r, f, next
<1>3. f + 1 \in 1 .. Len(Steps(r))
  BY <1>1, <1>2, LooksGoOn
<1>4. r.key = None => \A k \in 1 .. (f + 1) - 1 : Steps(r)[k] # "keyed"
  BY <1>1, <1>2 DEF Finds
<1>5. WaitsUntold(next)
  BY <1>2, <1>3, <1>4, AdvanceUntold DEF next
<1>6. ASSUME NEW d \in Callers PROVE WaitsUntold(call'[d])
  BY <1>1, <1>5 DEF ToolTypes
<1> QED BY <1>1, <1>6, UntoldStays DEF WaitsUntold

LEMMA FailUntold ==
    ASSUME SuccessInv, NEW c \in Callers, Fail(c)
    PROVE  \A d \in Callers : WaitsUntold(call[d])'
<1> USE DEF SuccessInv, RetryInv, ToolsInv
<1>1. handler' = handler /\ call' = [call EXCEPT ![c] = Told("failed")]
  BY DEF Fail
<1>2. ASSUME NEW d \in Callers PROVE WaitsUntold(call'[d])
  BY <1>1 DEF ToolTypes, Told, WaitsUntold
<1> QED BY <1>1, <1>2, UntoldStays DEF WaitsUntold

LEMMA ApplyUntold ==
    ASSUME SuccessInv, NEW c \in Callers, Apply(c)
    PROVE  (\A d \in Callers : WaitsUntold(call[d])') /\ RecordsHaveKeys'
<1> USE DEF SuccessInv, RetryInv, ToolsInv
<1>1. /\ handler' = handler /\ call[c].at # 0 /\ menu' = Effect(c)
      /\ StepOf(c) \in Writes \cup {"clear"}
  BY DEF Apply, Pending
<1>2. PICK next \in {After(c), Told("failed")} :
        call' = [d \in Callers |->
                   IF d = c THEN next
                   ELSE [call[d] EXCEPT !.stale = @ \/ (Pending(d) /\ StepOf(d) \notin Finds)]]
  BY DEF Apply
<1> DEFINE r == call[c].req
           i == call[c].at
<1>3. /\ r \in ToolCalls /\ i \in 1 .. Len(Steps(r)) /\ StepOf(c) = Steps(r)[i]
      /\ r.key = None => \A k \in 1 .. i - 1 : Steps(r)[k] # "keyed"
  BY <1>1 DEF CallIsSound, StepOf, WaitsUntold
<1>4. WaitsUntold(next)
  <2>1. \A any : WaitsUntold(Told(any))
    BY DEF Told, WaitsUntold
  <2>2. \A found : WaitsUntold(Advance(r, i, found))
    <3> HIDE DEF r, i
    <3> QED BY <1>3, AdvanceUntold
  <2> QED BY <1>2, <2>1, <2>2 DEF After
<1>5. ASSUME NEW d \in Callers PROVE WaitsUntold(call'[d])
  <2>1. CASE d = c
    BY <1>2, <1>4, <2>1
  <2>2. CASE d # c
    <3>1. /\ call'[d].req = call[d].req /\ call'[d].at = call[d].at
          /\ call'[d].told = call[d].told
      BY <1>2, <2>2 DEF ToolTypes, CallRecord
    <3> QED BY <3>1 DEF WaitsUntold
  <2> QED BY <2>1, <2>2
\* An add has passed the check for a key.
<1>6. ASSUME Uses(handler, "gone"), Uses(handler, "keyed"), StepOf(c) = "create"
      PROVE  r.key # None
  <2>1. /\ StepsSuit(handler) /\ r.action \in DOMAIN handler /\ Steps(r) = handler[r.action]
        /\ DOMAIN Steps(r) = 1 .. Len(Steps(r))
    BY <1>3, Programs DEF Steps
  <2>2. \E k \in 1 .. i - 1 : Steps(r)[k] = "keyed"
    <3> HIDE DEF r, i
    <3>1. i \in DOMAIN handler[r.action] /\ handler[r.action][i] = "create"
      BY <1>3, <1>6, <2>1
    <3>2. \E k \in 1 .. i - 1 : handler[r.action][k] = "keyed"
      BY <1>6, <2>1, <3>1 DEF StepsSuit
    <3> QED BY <2>1, <3>2
  <2> QED BY <1>3, <2>2
<1>7. ASSUME Uses(handler, "gone"), Uses(handler, "keyed"), NEW rec \in menu' PROVE rec.key # None
  <2>1. \A old \in menu : old.key # None
    BY <1>7 DEF RecordsHaveKeys
  <2>2. CASE StepOf(c) = "create"
    BY <1>1, <1>6, <1>7, <2>1, <2>2 DEF Effect
  <2>3. CASE StepOf(c) # "create"
    <3>1. \/ \E old \in menu : old.id = rec.id /\ old.key = rec.key
          \/ rec.id = lastId + 1
      BY EffectKeeps
    <3>2. lastId' = lastId /\ rec.id <= lastId' /\ rec.id \in Nat /\ lastId \in Nat
      BY <1>7, <2>3, EffectKeeps DEF Apply, IdsAreUnique, MenuRecord, ToolTypes
    <3> QED BY <2>1, <3>1, <3>2
  <2> QED BY <2>2, <2>3
<1>8. RecordsHaveKeys'
  BY <1>1, <1>7 DEF RecordsHaveKeys, Uses
<1> QED BY <1>1, <1>5, <1>8, UntoldStays DEF WaitsUntold

LEMMA StepSucceeds == SuccessInv /\ [ToolsNext]_toolsVars => SuccessInv'
<1> SUFFICES ASSUME SuccessInv, [ToolsNext]_toolsVars PROVE SuccessInv'
  OBVIOUS
<1>1. RetryInv'
  BY StepRetries DEF SuccessInv
<1>2. ASSUME NEW c \in Callers, Begin(c) \/ Find(c) \/ Fail(c) PROVE SuccessInv'
  <2>1. handler' = handler /\ menu' = menu
    BY <1>2 DEF Begin, Find, Fail
  <2>2. \A d \in Callers : WaitsUntold(call[d])'
    BY <1>2, BeginUntold, FindUntold, FailUntold
  <2> QED BY <1>1, <2>1, <2>2 DEF SuccessInv, RecordsHaveKeys, Uses
<1>3. ASSUME NEW c \in Callers, Apply(c) PROVE SuccessInv'
  BY <1>1, <1>3, ApplyUntold DEF SuccessInv
<1>4. CASE ClockRuns
  <2>1. \A d \in Callers : WaitsUntold(call[d])'
    <3>1. \A d \in Callers : WaitsUntold(call'[d])
      BY <1>4, ClockAndCalls DEF WaitsUntold, SuccessInv, RetryInv, ToolsInv
    <3>2. handler' = handler
      BY <1>4 DEF ClockRuns
    <3> QED BY <3>1, <3>2, UntoldStays DEF WaitsUntold
  <2>2. RecordsHaveKeys'
    <3>1. PICK time \in Values : menu' = {[rec EXCEPT !.main = time] : rec \in menu}
      BY <1>4 DEF ClockRuns
    <3>2. \A rec \in menu : [rec EXCEPT !.main = time].key = rec.key
      BY DEF SuccessInv, RetryInv, ToolsInv, ToolTypes, MenuRecord
    <3>3. \A rec \in menu' : \E old \in menu : rec.key = old.key
      BY <3>1, <3>2
    <3>4. \A step : Uses(handler, step)' = Uses(handler, step)
      BY <1>4 DEF ClockRuns, Uses
    <3> QED BY <3>3, <3>4 DEF SuccessInv, RecordsHaveKeys
  <2> QED BY <1>1, <2>1, <2>2 DEF SuccessInv
<1>5. CASE UNCHANGED toolsVars
  <2>1. handler' = handler /\ menu' = menu /\ call' = call
    BY <1>5 DEF toolsVars
  <2>2. \A d \in Callers : WaitsUntold(call[d])'
    BY <2>1, UntoldStays DEF SuccessInv, WaitsUntold
  <2> QED BY <1>1, <2>1, <2>2 DEF SuccessInv, RecordsHaveKeys, Uses
<1> QED BY <1>2, <1>3, <1>4, <1>5 DEF ToolsNext

LEMMA AnswersMean ==
    ASSUME NEW step \in STRING
    PROVE  /\ Answer(step) # "done"
           /\ Answer(step) = "exists" =>
                step \in {"exists", "same", "sameGiven", "sameState", "sameAny", "samePort"}
           /\ Answer(step) = "noChange" =>
                step \in {"switched", "empty"} \cup Comparisons
           /\ Answer(step) = "gone" => step = "gone"
BY DEF Answer, Comparisons

(* A call has no key only where one of its handler's programs checks for it.    *)
LEMMA KeylessIsKeyed ==
    ASSUME NEW r \in ToolCalls, r.key = None
    PROVE  Uses(handler, "keyed")
<1>1. PICK a \in DOMAIN handler :
        r \in [action : {a}, key : Keys, main : Mains(a), side : Sides(a), off : Offs(a),
               dryRun : IF Has(a, "preview") THEN BOOLEAN ELSE {FALSE}]
  BY DEF ToolCalls
<1>2. None \in Keys
  BY <1>1
<1> QED BY <1>2, NoneAssumption DEF Keys, HasAny

(* What is answered to a call that has just looked is true of what it saw.      *)
LEMMA AnswerIsTrue ==
    ASSUME SuccessInv, NEW c \in Callers, Find(c), NEW r, r = call[c].req,
           call'[c].told \in {"done", "exists", "noChange", "gone"}, ~ AddsToAnyTable(r),
           Cardinality(Sought(r, StepOf(c))) <= 1
    PROVE  Holds(r, menu', call'[c].told)
<1> USE DEF SuccessInv, RetryInv, ToolsInv
<1> DEFINE f == call[c].at
           found == FoundAt(r, f)
           told == call'[c].told
<1>1. /\ call'[c] = Advance(r, f + 1, found) /\ handler' = handler /\ menu' = menu
      /\ Steps(r)[f] \in Finds /\ f # 0 /\ menu \subseteq MenuRecord
  BY DEF Find, Pending, FoundAt, StepOf, ToolTypes
<1>2. r \in ToolCalls /\ f \in 1 .. Len(Steps(r))
  BY <1>1 DEF CallIsSound
<1> HIDE DEF f, found, told
<1>3. f + 1 \in 1 .. Len(Steps(r))
  BY <1>1, <1>2, LooksGoOn
<1>4. PICK j \in f + 1 .. Len(Steps(r)) :
        told = Answer(Steps(r)[j]) /\ Ends(Steps(r)[j], r, found)
  BY <1>1, <1>2, <1>3, AdvanceHalts DEF Told, told
<1> DEFINE step == Steps(r)[j]
<1>5. /\ StepsSuit(handler) /\ r.action \in DOMAIN handler /\ Steps(r) = handler[r.action]
      /\ DOMAIN Steps(r) = 1 .. Len(Steps(r)) /\ j \in 1 .. Len(Steps(r)) /\ step \in STRING
  <2>1. Len(Steps(r)) \in Nat /\ Steps(r) \in Seq(STRING) /\ StepsSuit(handler)
        /\ r.action \in DOMAIN handler /\ DOMAIN Steps(r) = 1 .. Len(Steps(r))
    BY <1>2, Programs
  <2> QED BY <1>2, <2>1 DEF Steps
<1>6. /\ found = {rec \in menu : IsSought(r, f, rec)} /\ found \subseteq menu
      /\ found # {} => First(found) \in found
      /\ \A rec, other \in found : rec = other
  <2>1. found = {rec \in menu : IsSought(r, f, rec)} /\ found \subseteq menu
    BY <1>1, LooksFind DEF found
  <2>2. IsFiniteSet(found) /\ ~ (Cardinality(found) > 1)
    BY <2>1, FS_Subset, FS_CardinalityType DEF found, FoundAt, f, StepOf
  <2>3. \A rec, other \in found : rec = other
    BY <2>2, AtMostOne
  <2>4. found # {} => First(found) \in found
    BY <1>1, <2>1, FirstIsFound
  <2> QED BY <2>1, <2>3, <2>4
<1> DEFINE recs == {rec \in menu : rec.key = r.key}
           first == First(found)
<1>7. CASE told = "exists"
  <2>1. step \in {"exists", "same", "sameGiven", "sameState", "sameAny", "samePort"}
    BY <1>4, <1>5, <1>7, AnswersMean
  <2>2. r.action = "add" /\ found # {}
    <3>1. r.action = "add"
      BY <1>5, <2>1 DEF StepsSuit
    <3>2. found # {}
      BY <1>4, <2>1 DEF Ends
    <3> QED BY <3>1, <3>2
  <2>3. first \in found /\ first \in recs /\ \A any \in found : any = first
    BY <1>6, <2>2 DEF IsSought
  <2>4. step = "exists" => Has(r.action, "exists")
    BY <1>5 DEF Has
  <2>5. step # "exists" => r.main \in {None, first.main}
    BY <1>4, <2>1, <2>3 DEF Ends
  <2>6. step # "exists" /\ Has(r.action, "sameState") => r.off = first.off
    <3> SUFFICES ASSUME step # "exists", Has(r.action, "sameState") PROVE r.off = first.off
      OBVIOUS
    <3>1. PICK i \in DOMAIN Steps(r) : Steps(r)[i] = "sameState"
      BY <1>5 DEF Has
    <3>2. Steps(r)[j] \notin {"same", "sameGiven", "sameAny", "samePort"}
      BY <1>5, <3>1 DEF StepsSuit
    <3>3. step = "sameState"
      BY <2>1, <3>2
    <3> QED BY <1>4, <3>3 DEF Ends
  <2>7. Has(r.action, "findTable") => TableOf(r) = first.side
    <3> SUFFICES ASSUME Has(r.action, "findTable") PROVE TableOf(r) = first.side
      OBVIOUS
    <3>1. Steps(r)[f] = "findTable"
      <4>1. PICK k \in 1 .. Len(Steps(r)) : Steps(r)[k] = "findTable"
        BY <1>5 DEF Has
      <4>2. f <= k /\ k <= f /\ f \in Nat /\ k \in Nat
        BY <1>1, <1>2, <4>1, LooksOnce DEF Finds
      <4> QED BY <4>1, <4>2
    <3>2. r.side # None
      BY <2>2 DEF AddsToAnyTable
    <3> QED BY <1>6, <2>3, <3>1, <3>2 DEF IsSought, TableOf, Given
  <2>8. ~ Vouches(r, "exists") \/ (/\ r.main = first.main \/ r.main = None
                                   /\ Has(r.action, "sameState") => r.off = first.off
                                   /\ Has(r.action, "findTable") => TableOf(r) = first.side)
    BY <2>4, <2>5, <2>6, <2>7 DEF Vouches
  <2>9. TableOf(r)' = TableOf(r) /\ \A s : Has(r.action, s)' = Has(r.action, s)
    BY <1>1 DEF TableOf, Has
  <2> HIDE DEF first, step, recs
  <2> QED BY <1>1, <1>7, <2>2, <2>3, <2>8, <2>9 DEF Holds, told, recs
<1>8. CASE told = "noChange"
  <2>1. step \in {"switched", "empty"} \cup Comparisons
    BY <1>4, <1>5, <1>8, AnswersMean
  <2>2. step # "empty" => found # {}
    BY <1>4, <2>1 DEF Ends, Comparisons
  <2>3. step # "empty" => \A rec \in recs : rec = first
    <3>1. r.action \notin {"add", "remove"}
      BY <1>5, <2>1 DEF StepsSuit, Comparisons
    <3>2. Steps(r)[f] = "find"
      BY <1>1, <1>2, <1>5, <3>1 DEF StepsSuit, Finds
    <3> QED BY <1>6, <2>2, <3>2 DEF IsSought
  <2>4. CASE step = "switched"
    <3>1. r.action \in {"switchOn", "switchOff"} /\ first.off = (r.action = "switchOff")
      BY <1>4, <1>5, <2>4 DEF StepsSuit, Ends
    <3> HIDE DEF first, step
    <3> QED BY <1>1, <2>3, <2>4, <3>1 DEF Holds, told
  <2>5. CASE step # "switched"
    <3>1. r.action \in {"update", "set"}
      BY <1>5, <2>1, <2>5 DEF StepsSuit, Comparisons
    <3>2. \A rec \in recs : /\ Given(r.main, rec.main) = rec.main
                            /\ step # "unchangedMain" => Given(r.side, rec.side) = rec.side
                            /\ step = "unchangedState" => r.off = rec.off
      <4>1. CASE step = "empty"
        BY <1>4, <4>1 DEF Ends, Given
      <4>2. CASE step \in Comparisons \ {"unchangedMain"}
        <5>1. Unchanged(r, first) /\ (step = "unchangedState" => r.off = first.off)
          BY <1>4, <4>2 DEF Ends, Comparisons
        <5>2. \A rec \in recs : rec = first
          BY <2>3, <4>2 DEF Comparisons
        <5> HIDE DEF recs, first
        <5> QED BY <4>2, <5>1, <5>2 DEF Unchanged
      <4>3. CASE step = "unchangedMain"
        <5>1. r.main = first.main
          BY <1>4, <4>3 DEF Ends
        <5> QED BY <2>3, <4>3, <5>1 DEF Given
      <4> QED BY <2>1, <2>5, <4>1, <4>2, <4>3
    <3>3. step = "unchangedMain" => Has(r.action, "unchangedMain")
      BY <1>5 DEF Has
    <3>4. Has(r.action, "unchangedState") => step = "unchangedState"
      <4>1. j \in DOMAIN handler[r.action] /\ step = handler[r.action][j]
        BY <1>5
      <4> HIDE DEF step
      <4> QED BY <1>5, <2>1, <2>5, <4>1 DEF StepsSuit, Has
    <3>5. \A s : Has(r.action, s)' = Has(r.action, s)
      BY <1>1 DEF Has
    <3> HIDE DEF step
    <3> QED BY <1>1, <1>8, <3>1, <3>2, <3>3, <3>4, <3>5 DEF Holds, told
  <2> QED BY <2>4, <2>5
<1>9. CASE told = "gone"
  <2>1. step = "gone" /\ r.action = "remove" /\ found = {}
    <3>1. step = "gone"
      BY <1>4, <1>5, <1>9, AnswersMean
    <3>2. r.action = "remove"
      BY <1>5, <3>1 DEF StepsSuit
    <3> QED BY <1>4, <3>1, <3>2 DEF Ends
  <2>2. \A rec \in recs : r.key # None
    <3> SUFFICES ASSUME NEW rec \in recs, r.key = None PROVE FALSE
      OBVIOUS
    <3>1. Uses(handler, "keyed")
      BY <1>2, KeylessIsKeyed
    <3>2. Uses(handler, "gone")
      BY <1>5, <2>1 DEF Uses
    <3> QED BY <3>1, <3>2 DEF RecordsHaveKeys
  <2>3. ASSUME NEW rec \in recs
        PROVE  \/ r.main \notin {None, rec.main}
               \/ Has(r.action, "findTable") /\ TableOf(r) # rec.side
    <3>1. ~ IsSought(r, f, rec) /\ rec.key = r.key /\ r.key # None
      BY <1>6, <2>1, <2>2
    <3>2. Steps(r)[f] = "findTable" => Has(r.action, "findTable")
      BY <1>2, <1>5 DEF Has
    <3> QED BY <1>1, <3>1, <3>2 DEF IsSought, Finds, TableOf, Given
  <2>4. TableOf(r)' = TableOf(r) /\ \A s : Has(r.action, s)' = Has(r.action, s)
    BY <1>1 DEF TableOf, Has
  <2> QED BY <1>1, <2>1, <2>3, <2>4 DEF Holds, told
<1>10. told # "done"
  BY <1>4, <1>5, AnswersMean
<1> QED BY <1>7, <1>8, <1>9, <1>10 DEF told

(* What is told after a write is true of the menu it leaves.                    *)
LEMMA DoneIsTrue ==
    ASSUME SuccessInv, NEW c \in Callers, Apply(c), NEW r, r = call[c].req,
           call'[c].told \in {"done", "exists", "noChange", "gone"},
           ~ call[c].stale, Cardinality(call[c].found) <= 1
    PROVE  Holds(r, menu', call'[c].told)
<1> USE DEF SuccessInv, RetryInv, ToolsInv
<1> DEFINE i == call[c].at
           step == StepOf(c)
<1>1. /\ handler' = handler /\ i # 0 /\ menu' = Effect(c)
      /\ step \in Writes \cup {"clear"}
      /\ call'[c] \in {After(c), Told("failed")}
  BY DEF Apply, Pending
<1>2. r \in ToolCalls /\ i \in 1 .. Len(Steps(r)) /\ step = Steps(r)[i]
  BY <1>1 DEF CallIsSound, StepOf
<1>3. call'[c] = After(c)
  BY <1>1 DEF Told
<1>4. /\ StepsSuit(handler) /\ r.action \in DOMAIN handler /\ Steps(r) = handler[r.action]
      /\ DOMAIN Steps(r) = 1 .. Len(Steps(r)) /\ Len(Steps(r)) \in Nat
  BY <1>2, Programs DEF Steps
<1>5. step # "clear"
  <2> SUFFICES ASSUME step = "clear" PROVE FALSE
    OBVIOUS
  <2> DEFINE left == call[c].found \ {First(call[c].found)}
  <2>1. call'[c] = Advance(r, i, left)
    BY <1>3 DEF After
  <2> HIDE DEF i, left, step
  <2>2. PICK at \in i .. Len(Steps(r)) :
          \/ Advance(r, i, left).told = "nothing"
          \/ ~ Waits(Steps(r)[at], left) /\ Ends(Steps(r)[at], r, left)
    BY <1>2, AdvanceHalts
  <2>3. ~ Waits(Steps(r)[at], left) /\ Ends(Steps(r)[at], r, left)
    BY <2>1, <2>2
  <2>4. CASE at = i
    BY <1>2, <2>3, <2>4 DEF Ends
  <2>5. CASE at # i
    <3>1. at \in DOMAIN Steps(r) /\ i \in DOMAIN Steps(r) /\ i < at
      BY <1>2, <1>4, <2>5
    <3>2. Steps(r)[at] \in Writes
      BY <1>2, <1>4, <3>1 DEF StepsSuit
    <3> QED BY <2>3, <3>2 DEF Waits
  <2> QED BY <2>4, <2>5
<1>6. call'[c].told = "done" /\ step \in Writes
  BY <1>1, <1>3, <1>5 DEF After, Told
<1>7. CASE step = "create"
  <2>1. r.action = "add"
    BY <1>2, <1>4, <1>7 DEF StepsSuit
  <2>2. \E rec \in menu' : /\ rec.key = r.key /\ rec.main = r.main /\ rec.off = r.off
                           /\ rec.side = TableOf(r)
    <3> DEFINE new == [id |-> lastId + 1, key |-> r.key, main |-> r.main,
                       side |-> Given(r.side, "old"), off |-> r.off]
    <3>1. new \in menu'
      BY <1>1, <1>7 DEF Effect
    <3> QED BY <3>1 DEF TableOf
  <2>3. TableOf(r)' = TableOf(r)
    BY DEF TableOf
  <2> QED BY <1>6, <2>1, <2>2, <2>3 DEF Holds
<1>8. CASE step = "execute"
  <2>1. r.action = "run"
    BY <1>2, <1>4, <1>8 DEF StepsSuit
  <2> QED BY <2>1 DEF Holds
<1>9. CASE step \in {"remove", "switch", "update"}
  <2>1. ~ Uses(handler, "clear")
    BY <1>2, <1>4, <1>9 DEF StepsSuit
  <2>2. PICK f \in Looks(r) : call[c].found = FoundAt(r, f)
    BY <1>9, <2>1, AtWrite
  <2>3. /\ step = LastStep(r) /\ call[c].found # {} /\ IsFiniteSet(call[c].found)
    <3>1. step = LastStep(r) /\ call[c].found # {} /\ call[c].found \subseteq menu
      BY <1>9, <2>1, AtWrite
    <3> QED BY <3>1, FS_Subset
  <2>4. WriteHolds(r)'
    <3>1. Cardinality(call[c].found) \in Nat
      BY <2>3, FS_CardinalityType
    <3>2. ~ (Cardinality(call[c].found) > 1)
      BY <3>1
    <3> QED BY <2>1, <3>2, WriteIsDone
  <2>5. r.key # None
    BY <1>1, <2>3 DEF CallIsSound, FoundHasKey
  <2>6. /\ LastStep(r)' = LastStep(r) /\ Looks(r)' = Looks(r)
        /\ FoundAt(r, f)' = {rec \in menu' : IsSought(r, f, rec)}
    BY <1>1, HandlerStays, LooksFind DEF LastStep, Looks
  <2>7. CASE step = "remove"
    <3>1. r.action = "remove"
      BY <1>2, <1>4, <2>7 DEF StepsSuit
    <3>2. FoundAt(r, f)' = {}
      BY <2>3, <2>4, <2>6, <2>7 DEF WriteHolds
    <3>3. \A rec \in menu' : rec.key = r.key =>
             \/ r.main \notin {None, rec.main}
             \/ Has(r.action, "findTable") /\ TableOf(r) # rec.side
      <4>1. Steps(r)[f] = "findTable" => Has(r.action, "findTable")
        BY <1>4 DEF Has, Looks
      <4>2. Steps(r)[f] \in Finds
        BY DEF Looks
      <4> QED BY <2>5, <2>6, <3>2, <4>1, <4>2 DEF IsSought, Finds, TableOf, Given
    <3>4. TableOf(r)' = TableOf(r) /\ \A s : Has(r.action, s)' = Has(r.action, s)
      BY <1>1 DEF TableOf, Has
    <3> QED BY <3>1, <3>3, <3>4 DEF Holds
  <2>8. CASE step \in {"switch", "update"}
    <3>1. /\ step = "switch" => r.action \in {"switchOn", "switchOff"}
          /\ step = "update" => r.action \in {"update", "set"}
      BY <1>2, <1>4 DEF StepsSuit
    <3>2. Steps(r)[f] = "find"
      <4>1. Steps(r)[f] \in {"findValue", "findTable"} => r.action \in {"add", "remove"}
        BY <1>4 DEF StepsSuit, Looks
      <4> QED BY <2>8, <3>1, <4>1 DEF Looks, Finds
    <3>3. FoundAt(r, f)' = {rec \in menu' : rec.key = r.key}
      BY <2>5, <2>6, <3>2 DEF IsSought
    <3>4. \A s : Has(r.action, s)' = Has(r.action, s)
      BY <1>1 DEF Has
    <3> QED BY <2>3, <2>4, <2>6, <2>8, <3>1, <3>3, <3>4 DEF WriteHolds, Holds
  <2> QED BY <1>9, <2>7, <2>8
<1> QED BY <1>6, <1>7, <1>8, <1>9 DEF Writes

(* Every success that a handler tells is true when it is told, if nobody wrote  *)
(* since the call looked, but for an add of a route that names no table.        *)
THEOREM SuccessesAreTrue == ToolsSpec => SuccessIsTrue
<1> DEFINE Success == \A c \in Callers : Pending(c) /\ ~ AddsToAnyTable(call[c].req) => Truthful(c)
<1>1. ToolsInit => SuccessInv
  <2> SUFFICES ASSUME ToolsInit PROVE SuccessInv
    OBVIOUS
  <2>1. RecordsHaveKeys
    BY NoneAssumption DEF ToolsInit, Menus, Record, RecordsHaveKeys
  <2> QED BY <2>1, RetryStarts DEF ToolsInit, SuccessInv, WaitsUntold, Told
<1>2. SuccessInv /\ [ToolsNext]_toolsVars => SuccessInv'
  BY StepSucceeds
<1>3. SuccessInv /\ [ToolsNext]_toolsVars => [Success]_toolsVars
  <2> SUFFICES ASSUME SuccessInv, ToolsNext PROVE Success
    OBVIOUS
  <2> USE DEF SuccessInv, RetryInv, ToolsInv
  <2> SUFFICES ASSUME NEW c \in Callers, Pending(c),
                      ~ AddsToAnyTable(call[c].req),
                      call'[c].told \in {"done", "exists", "noChange", "gone"}, ~ call[c].stale,
                      Cardinality(IF StepOf(c) \in Finds THEN Sought(call[c].req, StepOf(c))
                                  ELSE call[c].found) <= 1
               PROVE  Holds(call[c].req, menu', call'[c].told)
    BY DEF Success, Truthful
  <2>1. call[c].told = "nothing"
    BY DEF WaitsUntold, Pending
  <2>2. PICK d \in Callers : Begin(d) \/ Find(d) \/ Apply(d) \/ Fail(d)
    BY <2>1, ClockAndCalls DEF ToolsNext
  <2>3. d = c
    <3> SUFFICES ASSUME d # c PROVE call'[c].told = call[c].told
      BY <2>1
    <3>1. CASE Begin(d) \/ Find(d) \/ Fail(d)
      BY <3>1 DEF Begin, Find, Fail, ToolTypes
    <3>2. CASE Apply(d)
      BY <3>2 DEF Apply, ToolTypes, CallRecord
    <3> QED BY <2>2, <3>1, <3>2
  <2>4. ~ Begin(c)
    BY DEF Begin
  <2>5. ~ Fail(c)
    BY DEF Fail, Told, ToolTypes
  <2>6. CASE Find(c)
    BY <2>6, AnswerIsTrue DEF Find
  <2>7. CASE Apply(c)
    <3>1. StepOf(c) \notin Finds
      BY <2>7 DEF Apply, Finds, Writes
    <3> QED BY <2>7, <3>1, DoneIsTrue
  <2> QED BY <2>2, <2>3, <2>4, <2>5, <2>6, <2>7
<1> QED BY <1>1, <1>2, <1>3, PTL DEF ToolsSpec, SuccessIsTrue
=============================================================================

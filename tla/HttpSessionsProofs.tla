-------------------------- MODULE HttpSessionsProofs ---------------------------
(* Proof that a session lasts as long as it is used, for any identities,        *)
(* number of requests, TTL and period of the sweeps; and that fewer than two    *)
(* quotas of an ip pass in the time of a window, for any ips, quota and window. *)
EXTENDS HttpSessions, FiniteSetTheorems, TLAPS

Session == [identity : Identities, lastSeen : Nat]
Request == [at : {"token", "body"}, who : Identities \cup {None},
            what : {"use", "close"}, session : 0 .. opened]

(* The types the proof needs; a request whose token was accepted has an identity. *)
Types ==
    /\ now \in Nat /\ phase \in 0 .. Window - 1 /\ due \subseteq Timers
    /\ opened \in 0 .. MaxSessions
    /\ sessions \in [Ids -> Session \cup {None}]
    /\ used \in [Ids -> 0 .. now]
    /\ request \in [Requests -> Request \cup {None}]
    /\ \A r \in Requests : At(r, "body") => request[r].who \in Identities

(* Timers are pending only at the instant they are due.                         *)
DueInPhase == due # {} => phase = 0

(* A session that is there was seen when it was last used, and is at most as    *)
(* old as the next sweep allows.                                                *)
Age == Ttl + phase + IF "sessions" \in due THEN Window ELSE 0
Present ==
    \A s \in Ids : sessions[s] # None =>
        sessions[s].lastSeen = used[s] /\ now - used[s] <= Age

(* One that is gone was not used for the TTL, or was closed.                    *)
Gone == \A s \in (1 .. opened) \ closed : sessions[s] = None => now - used[s] > Ttl

SessionInv == Types /\ DueInPhase /\ Present /\ Gone

(* The initial state: no session and no request.                                *)
LEMMA InitInv == Init => SessionInv
  BY TimesAssumption, BoundsAssumption
  DEF Init, SessionInv, Types, DueInPhase, Present, Gone, Ids, Timers, At

(* A request arrives, and nothing of the sessions changes.                      *)
LEMMA ArriveInv ==
    ASSUME SessionInv, NEW r \in Requests, NEW ip \in Ips, Arrive(r, ip)
    PROVE  SessionInv'
<1>1. PICK who \in Identities \cup {None}, s \in 0 .. opened, what \in {"use", "close"} :
        request' = [request EXCEPT ![r] = [at |-> "token", who |-> who, what |-> what, session |-> s]]
  BY DEF Arrive
<1>2. Types'
  BY <1>1 DEF SessionInv, Types, Arrive, Request, At, Ids
<1>3. UNCHANGED <<now, phase, due, sessions, opened, used, closed>>
  BY DEF Arrive
<1> QED BY <1>2, <1>3 DEF SessionInv, DueInPhase, Present, Gone, Age, Ids

(* A request is refused: it only ends.                                          *)
LEMMA RefusedInv ==
    ASSUME SessionInv, NEW r \in Requests, Refused(r)
    PROVE  SessionInv'
<1>1. Types'
  BY DEF SessionInv, Types, Refused, Request, At, Ids
<1>2. UNCHANGED <<now, phase, due, sessions, opened, used, closed>>
  BY DEF Refused
<1> QED BY <1>1, <1>2 DEF SessionInv, DueInPhase, Present, Gone, Age, Ids

(* The session of a request is found and seen.                                  *)
LEMMA FindInv ==
    ASSUME SessionInv, NEW r \in Requests, Find(r)
    PROVE  SessionInv'
<1> DEFINE s == request[r].session
<1>1. request[r] \in Request /\ request[r].who \in Identities /\ s \in 0 .. opened
  BY DEF SessionInv, Types, Find, At, Request
<1>2. CASE s = 0
  <2>1. UNCHANGED <<now, phase, due, sessions, opened, used, closed>>
    BY <1>2 DEF Find
  <2>2. Types'
    BY <1>1, <2>1 DEF SessionInv, Types, Find, Request, At, Ids
  <2> QED BY <2>1, <2>2 DEF SessionInv, DueInPhase, Present, Gone, Age, Ids
<1>3. CASE s # 0
  <2>1. s \in Ids /\ sessions[s] \in Session
    BY <1>1, <1>3, BoundsAssumption DEF SessionInv, Types, Find, Ids
  <2>2. /\ sessions' = [sessions EXCEPT ![s].lastSeen = now]
        /\ used' = [used EXCEPT ![s] = now]
        /\ request' = [request EXCEPT ![r].at = "body"]
        /\ UNCHANGED <<now, phase, due, opened, closed>>
    BY <1>3 DEF Find, Seen
  <2>3. sessions'[s] \in Session /\ sessions'[s].lastSeen = now /\ used'[s] = now
    BY <2>1, <2>2 DEF SessionInv, Types, Session
  <2>4. \A t \in Ids \ {s} : sessions'[t] = sessions[t] /\ used'[t] = used[t]
    BY <2>2 DEF SessionInv, Types
  <2>5. sessions' \in [Ids -> Session \cup {None}] /\ used' \in [Ids -> 0 .. now]
    BY <2>1, <2>2, <2>3 DEF SessionInv, Types, Session
  <2>6. Types'
    BY <1>1, <2>2, <2>5 DEF SessionInv, Types, Request, At
  <2>7. Present'
    BY <2>2, <2>3, <2>4, TimesAssumption DEF SessionInv, Types, Present, Age
  <2>8. Gone'
    <3>1. sessions'[s] # None
      BY <2>3, NoneAssumption DEF Session
    <3>2. (1 .. opened) \subseteq Ids
      BY BoundsAssumption DEF SessionInv, Types, Ids
    <3> QED BY <2>2, <2>4, <3>1, <3>2 DEF SessionInv, Types, Gone
  <2> QED BY <2>2, <2>6, <2>7, <2>8 DEF SessionInv, DueInPhase
<1> QED BY <1>2, <1>3

(* A request is handled: it opens a session, closes one, or neither.            *)
LEMMA HandleInv ==
    ASSUME SessionInv, NEW r \in Requests, Handle(r)
    PROVE  SessionInv'
<1> DEFINE q == request[r]
<1>1. q \in Request /\ q.who \in Identities /\ q.session \in 0 .. opened
  BY DEF SessionInv, Types, Handle, At, Request
<1>2. request' = [request EXCEPT ![r] = None] /\ UNCHANGED <<now, phase, due>>
  BY DEF Handle
<1>3. ASSUME opened' \in opened .. MaxSessions
      PROVE  /\ request' \in [Requests -> Request' \cup {None}]
             /\ \A t \in Requests : At(t, "body")' => request'[t].who \in Identities
  BY <1>2, <1>3 DEF SessionInv, Types, Request, At
<1>4. CASE /\ q.session = 0 /\ opened < MaxSessions
           /\ opened' = opened + 1
           /\ sessions' = [sessions EXCEPT ![opened'] = [identity |-> q.who, lastSeen |-> now]]
           /\ used' = [used EXCEPT ![opened'] = now]
           /\ UNCHANGED closed
  <2>1. opened' \in Ids /\ opened' \in opened .. MaxSessions
    BY <1>4, BoundsAssumption DEF SessionInv, Types, Ids
  <2>2. /\ sessions'[opened'] \in Session
        /\ sessions'[opened'].lastSeen = now /\ used'[opened'] = now
    BY <1>1, <1>4, <2>1 DEF SessionInv, Types, Session
  <2>3. \A t \in Ids \ {opened'} : sessions'[t] = sessions[t] /\ used'[t] = used[t]
    BY <1>4 DEF SessionInv, Types
  <2>4. sessions' \in [Ids -> Session \cup {None}] /\ used' \in [Ids -> 0 .. now]
    BY <1>4, <2>1, <2>2 DEF SessionInv, Types
  <2>5. Types'
    BY <1>2, <1>3, <2>1, <2>4, BoundsAssumption DEF SessionInv, Types
  <2>6. Present'
    BY <1>2, <2>2, <2>3, TimesAssumption DEF SessionInv, Types, Present, Age
  <2>7. Gone'
    BY <1>2, <1>4, <2>1, <2>2, <2>3, NoneAssumption DEF SessionInv, Types, Gone, Ids, Session
  <2> QED BY <1>2, <2>5, <2>6, <2>7 DEF SessionInv, DueInPhase
<1>5. CASE /\ q.session # 0 /\ q.what = "close"
           /\ sessions' = [sessions EXCEPT ![q.session] = None]
           /\ closed' = closed \cup {q.session}
           /\ UNCHANGED <<opened, used>>
  <2>1. Types'
    <3>1. opened' \in opened .. MaxSessions
      BY <1>5, BoundsAssumption DEF SessionInv, Types
    <3>2. sessions' \in [Ids -> Session \cup {None}]
      BY <1>5 DEF SessionInv, Types
    <3>3. used' \in [Ids -> 0 .. now']
      BY <1>2, <1>5 DEF SessionInv, Types
    <3> QED BY <1>2, <1>3, <1>5, <3>1, <3>2, <3>3 DEF SessionInv, Types
  <2>2. Present'
    BY <1>2, <1>5 DEF SessionInv, Types, Present, Age
  <2>3. Gone'
    BY <1>2, <1>5, BoundsAssumption DEF SessionInv, Types, Gone, Ids
  <2> QED BY <1>2, <2>1, <2>2, <2>3 DEF SessionInv, DueInPhase
<1>6. CASE UNCHANGED <<sessions, opened, used, closed>>
  <2>1. Types'
    BY <1>2, <1>3, <1>6, BoundsAssumption DEF SessionInv, Types
  <2> QED BY <1>2, <1>6, <2>1 DEF SessionInv, DueInPhase, Present, Gone, Age
<1> QED BY <1>4, <1>5, <1>6 DEF Handle

(* The limiter's sweep leaves the sessions alone.                               *)
LEMMA SweepLimiterInv == ASSUME SessionInv, SweepLimiter PROVE SessionInv'
  BY DEF SessionInv, Types, DueInPhase, Present, Gone, Age, Ids, At, Request, SweepLimiter, Timers

(* The sweep of the sessions leaves those that were used within the TTL.        *)
LEMMA SweepSessionsInv == ASSUME SessionInv, SweepSessions PROVE SessionInv'
<1>1. UNCHANGED <<now, phase, opened, request, used, closed>> /\ due' = due \ {"sessions"} /\ phase = 0
  BY DEF SessionInv, DueInPhase, SweepSessions
<1>2. \A s \in Ids : sessions'[s] = IF sessions[s] # None /\ now - sessions[s].lastSeen > Ttl
                                    THEN None ELSE sessions[s]
  BY DEF SweepSessions
<1>3. Types'
  BY <1>1 DEF SessionInv, Types, SweepSessions, Request, At
<1>4. Present'
  BY <1>1, <1>2, TimesAssumption DEF SessionInv, Types, Present, Age, Session
<1>5. Gone'
  BY <1>1, <1>2, BoundsAssumption DEF SessionInv, Types, Present, Gone, Ids
<1> QED BY <1>1, <1>3, <1>4, <1>5 DEF SessionInv, DueInPhase

(* Time passes only when no timer is pending.                                   *)
LEMMA TickInv == ASSUME SessionInv, Tick PROVE SessionInv'
<1>1. /\ now' = now + 1 /\ due = {}
      /\ phase' = IF phase + 1 = Window THEN 0 ELSE phase + 1
      /\ due' = IF phase' = 0 THEN Timers ELSE {}
      /\ UNCHANGED <<sessions, opened, request, used, closed>>
  BY DEF Tick
<1>2. used' \in [Ids -> 0 .. now']
  BY <1>1 DEF SessionInv, Types
<1>3. Types'
  BY <1>1, <1>2, TimesAssumption DEF SessionInv, Types, Request, At
<1>4. Present'
  <2>1. Age + 1 <= Age'
    BY <1>1, TimesAssumption DEF SessionInv, Types, Age, Timers
  <2>2. Age \in Int /\ Age' \in Int
    <3>1. phase \in Int /\ phase' \in Int /\ Ttl \in Int /\ Window \in Int
      BY <1>1, TimesAssumption DEF SessionInv, Types
    <3> QED BY <3>1 DEF Age
  <2>3. ASSUME NEW s \in Ids, sessions'[s] # None
        PROVE  sessions'[s].lastSeen = used'[s] /\ now' - used'[s] <= Age'
    <3>1. sessions[s].lastSeen = used[s] /\ now - used[s] <= Age
      BY <1>1, <2>3 DEF SessionInv, Present
    <3>2. now \in Int /\ used[s] \in Int /\ now' = now + 1 /\ used' = used
      BY <1>1 DEF SessionInv, Types
    <3> QED BY <1>1, <2>1, <2>2, <3>1, <3>2
  <2> QED BY <2>3 DEF Present
<1>5. Gone'
  BY <1>1, TimesAssumption, BoundsAssumption DEF SessionInv, Types, Gone, Ids
<1>6. DueInPhase'
  BY <1>1 DEF DueInPhase
<1> QED BY <1>3, <1>4, <1>5, <1>6 DEF SessionInv

(* Every step keeps the invariant.                                              *)
LEMMA NextInv == SessionInv /\ [Next]_vars => SessionInv'
<1> SUFFICES ASSUME SessionInv, [Next]_vars PROVE SessionInv'
  OBVIOUS
<1>1. CASE UNCHANGED vars
  BY <1>1 DEF vars, SessionInv, Types, DueInPhase, Present, Gone, Age, Ids, At, Request
<1>2. CASE Next
  BY <1>2, ArriveInv, RefusedInv, FindInv, HandleInv, SweepLimiterInv, SweepSessionsInv, TickInv
  DEF Next
<1> QED BY <1>1, <1>2

(* A session that was used within the TTL is there unless its client closed it, *)
(* and one that was not is gone a sweep later (handleMcpRequest, connectHttp).  *)
THEOREM SessionsLast == Spec => []LastsWhileUsed
<1>1. SessionInv => LastsWhileUsed
  <2> SUFFICES ASSUME SessionInv, NEW s \in (1 .. opened) \ closed
               PROVE  /\ now - used[s] <= Ttl => sessions[s] # None
                      /\ sessions[s] # None => now - used[s] <= Ttl + Window
    BY DEF LastsWhileUsed
  <2>1. s \in Ids
    BY BoundsAssumption DEF SessionInv, Types, Ids
  <2>2. /\ now \in Int /\ used[s] \in Int /\ Ttl \in Int /\ Window \in Int
        /\ phase \in Int /\ phase < Window
    BY <2>1, TimesAssumption DEF SessionInv, Types
  <2>3. sessions[s] = None => now - used[s] > Ttl
    BY DEF SessionInv, Gone
  <2>4. sessions[s] # None => now - used[s] <= Age
    BY <2>1 DEF SessionInv, Present
  <2>5. Age <= Ttl + Window
    BY <2>2 DEF SessionInv, DueInPhase, Age
  <2>6. Age \in Int
    BY <2>2 DEF Age
  <2> QED BY <2>2, <2>3, <2>4, <2>5, <2>6
<1> QED BY <1>1, InitInv, NextInv, PTL DEF Spec

----------------------------------------------------------------------------
(* The limiter.                                                                 *)

Pass == [at : Nat, nth : Nat]

LimiterTypes ==
    /\ now \in Nat
    /\ windows \in [Ips -> [start : Nat, count : 1 .. Rpm] \cup {None}]
    /\ \A ip \in Ips : windows[ip] # None => windows[ip].start <= now
    /\ accepted \in [Ips -> SUBSET Pass]
    /\ \A ip \in Ips : IsFiniteSet(accepted[ip])
    /\ \A ip \in Ips : \A e \in accepted[ip] : e.at <= now /\ now - e.at < Window

(* The requests of one instant are told apart by their numbers.                 *)
AtNow(ip) == {e \in accepted[ip] : e.at = now}
Numbered(ip) == \A e \in AtNow(ip) : e.nth < Cardinality(AtNow(ip))

(* Between windows fewer than a quota passed in the time of the last one, since *)
(* the request that started it is past; in a window its count did, with its     *)
(* first request among them, and fewer than a quota before it.                  *)
Inside(ip) == {e \in accepted[ip] : e.at >= windows[ip].start}
BetweenWindows(ip) ==
    Over(ip) => /\ Cardinality(accepted[ip]) < Rpm
                /\ \A e \in accepted[ip] : e.at < now
WithinWindow(ip) ==
    ~Over(ip) => /\ Cardinality(Inside(ip)) = windows[ip].count
                 /\ Cardinality(accepted[ip] \ Inside(ip)) < Rpm
                 /\ \E e \in accepted[ip] : e.at = windows[ip].start

Limited(ip) == Numbered(ip) /\ BetweenWindows(ip) /\ WithinWindow(ip)
LimiterInv == Rpm # 0 => LimiterTypes /\ \A ip \in Ips : Limited(ip)

LEMMA LimiterInit == Init => LimiterInv
<1> SUFFICES ASSUME Init, Rpm # 0 PROVE LimiterTypes /\ \A ip \in Ips : Limited(ip)
  BY DEF LimiterInv
<1>1. /\ now = 0 /\ windows = [ip \in Ips |-> None] /\ accepted = [ip \in Ips |-> {}]
  BY DEF Init
<1>2. LimiterTypes
  BY <1>1, FS_EmptySet DEF LimiterTypes
<1>3. ASSUME NEW ip \in Ips PROVE Limited(ip)
  <2>1. Over(ip) /\ Cardinality(accepted[ip]) = 0
    BY <1>1, FS_EmptySet DEF Over
  <2> QED BY <1>1, <2>1, TimesAssumption DEF Limited, Numbered, BetweenWindows, WithinWindow, AtNow
<1> QED BY <1>2, <1>3

(* Nothing happens to the ips: a step of a session, or no step.                 *)
LEMMA LimiterIdle ==
    ASSUME LimiterInv, UNCHANGED <<now, windows, accepted>>
    PROVE  LimiterInv'
BY DEF LimiterInv, LimiterTypes, Limited, Numbered, BetweenWindows, WithinWindow, AtNow, Inside, Over

(* The sweep forgets windows that are over.                                     *)
LEMMA LimiterSweep ==
    ASSUME LimiterInv, SweepLimiter
    PROVE  LimiterInv'
<1> SUFFICES ASSUME Rpm # 0 PROVE LimiterTypes' /\ \A ip \in Ips : Limited(ip)'
  BY DEF LimiterInv
<1>1. /\ UNCHANGED <<now, accepted>>
      /\ windows' = [ip \in Ips |-> IF Over(ip) THEN None ELSE windows[ip]]
  BY DEF SweepLimiter, Swept
<1>2. LimiterTypes'
  BY <1>1 DEF LimiterInv, LimiterTypes
<1>3. ASSUME NEW ip \in Ips PROVE Limited(ip)'
  <2>1. Limited(ip) /\ windows'[ip] = IF Over(ip) THEN None ELSE windows[ip]
    BY <1>1 DEF LimiterInv
  <2>2. CASE Over(ip)
    BY <1>1, <2>1, <2>2
    DEF Limited, Numbered, BetweenWindows, WithinWindow, AtNow, Over
  <2>3. CASE ~Over(ip)
    BY <1>1, <2>1, <2>3
    DEF Limited, Numbered, BetweenWindows, WithinWindow, AtNow, Inside, Over
  <2> QED BY <2>2, <2>3
<1> QED BY <1>2, <1>3

(* Time passes: what is older than a window is forgotten, with it the request   *)
(* that started a window that is over now.                                      *)
LEMMA LimiterTick ==
    ASSUME LimiterInv, Tick
    PROVE  LimiterInv'
<1> SUFFICES ASSUME Rpm # 0 PROVE LimiterTypes' /\ \A ip \in Ips : Limited(ip)'
  BY DEF LimiterInv
<1>1. /\ now' = now + 1 /\ UNCHANGED windows
      /\ accepted' = [ip \in Ips |-> {e \in accepted[ip] : now' - e.at < Window}]
  BY DEF Tick
<1>2. /\ now \in Nat /\ Window \in Nat /\ Window > 0 /\ Rpm \in Nat /\ LimiterTypes
  BY TimesAssumption DEF LimiterInv, LimiterTypes
<1>3. ASSUME NEW ip \in Ips
      PROVE  /\ accepted'[ip] = {e \in accepted[ip] : now' - e.at < Window}
             /\ accepted'[ip] \in SUBSET accepted[ip] /\ accepted[ip] \in SUBSET Pass
             /\ IsFiniteSet(accepted[ip]) /\ IsFiniteSet(accepted'[ip])
             /\ Cardinality(accepted'[ip]) <= Cardinality(accepted[ip])
             /\ Cardinality(accepted[ip]) \in Nat /\ Cardinality(accepted'[ip]) \in Nat
             /\ \A e \in accepted[ip] : e.at \in Nat /\ e.at <= now
  <2>1. /\ accepted'[ip] = {e \in accepted[ip] : now' - e.at < Window}
        /\ accepted[ip] \in SUBSET Pass /\ IsFiniteSet(accepted[ip])
        /\ \A e \in accepted[ip] : e.at <= now
    BY <1>1, <1>2 DEF LimiterTypes
  <2>2. accepted'[ip] \in SUBSET accepted[ip]
    BY <2>1
  <2>3. /\ IsFiniteSet(accepted'[ip]) /\ Cardinality(accepted'[ip]) <= Cardinality(accepted[ip])
    BY <2>1, <2>2, FS_Subset
  <2> QED BY <2>1, <2>2, <2>3, FS_CardinalityType DEF Pass
<1>4. LimiterTypes'
  <2>1. accepted' \in [Ips -> SUBSET Pass]
    BY <1>1, <1>3
  <2>2. \A ip \in Ips : windows'[ip] # None => windows'[ip].start <= now'
    <3> SUFFICES ASSUME NEW ip \in Ips, windows[ip] # None PROVE windows[ip].start <= now + 1
      BY <1>1
    <3>1. windows[ip].start \in Nat /\ windows[ip].start <= now
      BY <1>2 DEF LimiterTypes
    <3> QED BY <1>2, <3>1
  <2>3. ASSUME NEW ip \in Ips, NEW e \in accepted'[ip]
        PROVE  e.at <= now' /\ now' - e.at < Window
    <3>1. /\ e \in {f \in accepted[ip] : now' - f.at < Window}
          /\ \A f \in accepted[ip] : f.at \in Nat /\ f.at <= now
      BY <1>3
    <3> QED BY <1>1, <1>2, <3>1
  <2>4. \A ip \in Ips : IsFiniteSet(accepted'[ip])
    BY <1>3
  <2>5. now' \in Nat /\ windows' \in [Ips -> [start : Nat, count : 1 .. Rpm] \cup {None}]
    BY <1>1, <1>2 DEF LimiterTypes
  <2> QED BY <2>1, <2>2, <2>3, <2>4, <2>5 DEF LimiterTypes
<1>5. ASSUME NEW ip \in Ips PROVE Limited(ip)'
  <2> DEFINE A == accepted[ip]
             B == accepted'[ip]
  <2>1. Limited(ip)
    BY DEF LimiterInv
  <2>2. /\ B = {e \in A : now' - e.at < Window}
        /\ \A e \in A : e.at \in Nat /\ e.at <= now
    BY <1>3
  <2>3. /\ IsFiniteSet(A) /\ IsFiniteSet(B) /\ Cardinality(B) <= Cardinality(A)
        /\ Cardinality(A) \in Nat /\ Cardinality(B) \in Nat
    BY <1>3
  <2> HIDE DEF A, B
  <2>4. \A e \in B : e.at < now'
    BY <1>1, <1>2, <2>2
  <2>5. Numbered(ip)'
    BY <1>1, <1>2, <2>4 DEF Numbered, AtNow, B
  <2>6. CASE Over(ip)
    <3>1. Over(ip)'
      BY <1>1, <1>2, <2>6 DEF Over, LimiterTypes
    <3>2. Cardinality(A) < Rpm
      BY <2>1, <2>6 DEF Limited, BetweenWindows, A
    <3>3. Cardinality(B) < Rpm
      BY <1>2, <2>3, <3>2
    <3> QED BY <2>5, <2>4, <3>1, <3>3 DEF Limited, BetweenWindows, WithinWindow, B
  <2>7. CASE ~Over(ip)
    <3> DEFINE w == windows[ip]
    <3>1. /\ w # None /\ w.start \in Nat /\ w.count \in 1 .. Rpm /\ w.start <= now
          /\ now - w.start < Window
      BY <1>2, <2>7 DEF Over, LimiterTypes
    <3>2. /\ Cardinality(Inside(ip)) = w.count
          /\ Cardinality(A \ Inside(ip)) < Rpm
          /\ \E e \in A : e.at = w.start
      BY <2>1, <2>7 DEF Limited, WithinWindow, A
    <3>3. IsFiniteSet(Inside(ip)) /\ IsFiniteSet(A \ Inside(ip))
      BY <2>3, FS_Subset DEF Inside, A
    <3>4. CASE Over(ip)'
      <4>1. now' - w.start >= Window
        BY <1>1, <3>1, <3>4 DEF Over
      <4>2. PICK f \in A : f.at = w.start
        BY <3>2
      <4>3. f \in Inside(ip)
        BY <3>1, <4>2 DEF Inside, A
      <4>4. Cardinality(Inside(ip) \ {f}) = w.count - 1 /\ IsFiniteSet(Inside(ip) \ {f})
        BY <3>2, <3>3, <4>3, FS_RemoveElement
      <4>5. B \in SUBSET (Inside(ip) \ {f})
        <5> SUFFICES ASSUME NEW e \in B PROVE e \in A /\ e.at >= w.start /\ e # f
          BY DEF Inside, A
        <5>1. e \in A /\ e.at \in Nat /\ now' - e.at < Window
          BY <2>2
        <5> QED BY <1>1, <1>2, <3>1, <4>1, <4>2, <5>1
      <4>6. Cardinality(B) <= w.count - 1
        BY <4>4, <4>5, FS_Subset
      <4>7. Cardinality(B) < Rpm
        BY <1>2, <2>3, <3>1, <4>6
      <4> QED BY <2>5, <2>4, <3>4, <4>7 DEF Limited, BetweenWindows, WithinWindow, B
    <3>5. CASE ~Over(ip)'
      <4>1. windows'[ip] = w /\ now' - w.start < Window
        BY <1>1, <1>2, <3>1, <3>5 DEF Over
      <4>2. Inside(ip)' = Inside(ip)
        <5>1. \A e \in A : e.at >= w.start => e \in B
          BY <1>1, <1>2, <2>2, <3>1, <4>1
        <5>2. B \in SUBSET A
          BY <2>2
        <5> QED BY <4>1, <5>1, <5>2 DEF Inside, A, B
      <4>3. B \ Inside(ip)' \in SUBSET (A \ Inside(ip))
        BY <2>2, <4>2
      <4>4. /\ Cardinality(B \ Inside(ip)') <= Cardinality(A \ Inside(ip))
            /\ IsFiniteSet(B \ Inside(ip)')
        BY <3>3, <4>3, FS_Subset
      <4>5. /\ Cardinality(B \ Inside(ip)') \in Nat
            /\ Cardinality(A \ Inside(ip)) \in Nat
        BY <3>3, <4>4, FS_CardinalityType
      <4>6. Cardinality(B \ Inside(ip)') < Rpm
        BY <1>2, <3>2, <4>4, <4>5
      <4>7. \E e \in B : e.at = w.start
        BY <2>2, <3>2, <4>1
      <4> QED BY <2>5, <3>2, <3>5, <4>1, <4>2, <4>6, <4>7
          DEF Limited, BetweenWindows, WithinWindow, B
    <3> QED BY <3>4, <3>5
  <2> QED BY <2>6, <2>7
<1> QED BY <1>4, <1>5

(* A request is let through: it is the first of a window, or one of a window    *)
(* whose quota is not used up.                                                  *)
LEMMA LimiterArrive ==
    ASSUME LimiterInv, NEW r \in Requests, NEW ip \in Ips, Arrive(r, ip)
    PROVE  LimiterInv'
<1> SUFFICES ASSUME Rpm # 0 PROVE LimiterTypes' /\ \A x \in Ips : Limited(x)'
  BY DEF LimiterInv
<1> DEFINE A == accepted[ip]
           new == [at |-> now, nth |-> Cardinality(AtNow(ip))]
           w == IF Over(ip) THEN [start |-> now, count |-> 1]
                ELSE [start |-> windows[ip].start, count |-> windows[ip].count + 1]
<1>1. /\ Allowed(ip) /\ now' = now
      /\ windows' = [windows EXCEPT ![ip] = w]
      /\ accepted' = [accepted EXCEPT ![ip] = A \cup {new}]
  <2>1. Allowed(ip) /\ now' = now
    BY DEF Arrive
  <2>2. windows' = [windows EXCEPT ![ip] = w]
    <3>1. CASE Over(ip)
      BY <3>1 DEF Arrive, Count
    <3>2. CASE ~Over(ip)
      BY <3>2 DEF Arrive, Count
    <3> QED BY <3>1, <3>2
  <2>3. accepted' = [accepted EXCEPT ![ip] = A \cup {new}]
    BY DEF Arrive, AtNow
  <2> QED BY <2>1, <2>2, <2>3
<1>2. /\ now \in Nat /\ Window \in Nat /\ Window > 0 /\ Rpm \in Nat /\ Rpm > 0 /\ LimiterTypes
      /\ Limited(ip)
  BY TimesAssumption DEF LimiterInv, LimiterTypes
<1>3. /\ A \in SUBSET Pass /\ IsFiniteSet(A)
      /\ \A e \in A : e.at \in Nat /\ e.at <= now /\ now - e.at < Window
  BY <1>2 DEF LimiterTypes, Pass
<1>4. /\ AtNow(ip) \in SUBSET A /\ IsFiniteSet(AtNow(ip))
      /\ Cardinality(AtNow(ip)) \in Nat
  BY <1>3, FS_Subset, FS_CardinalityType DEF AtNow
<1>5. new \in Pass /\ new \notin A /\ new.at = now /\ new.nth = Cardinality(AtNow(ip))
  <2>1. new \in Pass
    BY <1>2, <1>4 DEF Pass
  <2>2. new \notin AtNow(ip)
    BY <1>2, <1>4 DEF Limited, Numbered
  <2> QED BY <2>1, <2>2 DEF AtNow
<1>6. /\ accepted'[ip] = A \cup {new} /\ windows'[ip] = w
      /\ \A x \in Ips \ {ip} : accepted'[x] = accepted[x] /\ windows'[x] = windows[x]
  BY <1>1, <1>2 DEF LimiterTypes
<1>7. w \in [start : Nat, count : 1 .. Rpm] /\ w.start <= now /\ w # None
  <2>1. CASE Over(ip)
    BY <1>2, <2>1, NoneAssumption
  <2>2. CASE ~Over(ip)
    <3>1. /\ windows[ip] \in [start : Nat, count : 1 .. Rpm]
          /\ windows[ip].start <= now /\ windows[ip].count < Rpm
      BY <1>1, <1>2, <2>2 DEF Over, Allowed, LimiterTypes
    <3>2. w = [start |-> windows[ip].start, count |-> windows[ip].count + 1]
      BY <2>2, <3>1
    <3> HIDE DEF w
    <3> QED BY <1>2, <3>1, <3>2, NoneAssumption
  <2> QED BY <2>1, <2>2
<1> HIDE DEF new, w
<1>8. LimiterTypes'
  <2>1. IsFiniteSet(A \cup {new})
    BY <1>3, FS_AddElement
  <2>2. windows' \in [Ips -> [start : Nat, count : 1 .. Rpm] \cup {None}]
    BY <1>1, <1>2, <1>7 DEF LimiterTypes
  <2>3. accepted' \in [Ips -> SUBSET Pass]
    BY <1>1, <1>2, <1>3, <1>5 DEF LimiterTypes
  <2>4. ASSUME NEW x \in Ips
        PROVE  /\ windows'[x] # None => windows'[x].start <= now
               /\ IsFiniteSet(accepted'[x])
               /\ \A e \in accepted'[x] : e.at <= now /\ now - e.at < Window
    <3>1. CASE x = ip
      <4>1. accepted'[x] = A \cup {new} /\ windows'[x] = w
        BY <1>6, <3>1
      <4>2. \A e \in A \cup {new} : e.at <= now /\ now - e.at < Window
        BY <1>2, <1>3, <1>5
      <4> QED BY <1>7, <2>1, <4>1, <4>2
    <3>2. CASE x # ip
      BY <1>2, <1>6, <3>2 DEF LimiterTypes
    <3> QED BY <3>1, <3>2
  <2> QED BY <1>1, <1>2, <2>2, <2>3, <2>4 DEF LimiterTypes
<1>9. Numbered(ip)'
  <2>1. AtNow(ip)' = AtNow(ip) \cup {new} /\ new \notin AtNow(ip)
    BY <1>1, <1>5, <1>6 DEF AtNow
  <2>2. Cardinality(AtNow(ip)') = Cardinality(AtNow(ip)) + 1
    BY <1>4, <2>1, FS_AddElement
  <2>3. \A e \in AtNow(ip) : e.nth \in Nat /\ e.nth < Cardinality(AtNow(ip))
    BY <1>2, <1>3, <1>4 DEF Limited, Numbered, Pass
  <2>4. ASSUME NEW e \in AtNow(ip)' PROVE e.nth < Cardinality(AtNow(ip)')
    BY <1>4, <1>5, <2>1, <2>2, <2>3
  <2> QED BY <2>4 DEF Numbered
<1>10. ASSUME Over(ip) PROVE Limited(ip)'
  <2>1. w = [start |-> now, count |-> 1]
    BY <1>10 DEF w
  <2>2. ~Over(ip)'
    BY <1>1, <1>2, <1>6, <1>7, <2>1 DEF Over
  <2>3. Cardinality(A) < Rpm /\ \A e \in A : e.at < now
    BY <1>2, <1>10 DEF Limited, BetweenWindows
  <2>4. Inside(ip)' = {new} /\ accepted'[ip] \ Inside(ip)' = A
    BY <1>2, <1>3, <1>5, <1>6, <2>1, <2>3 DEF Inside
  <2>5. /\ Cardinality(Inside(ip)') = windows'[ip].count
        /\ Cardinality(accepted'[ip] \ Inside(ip)') < Rpm
        /\ \E e \in accepted'[ip] : e.at = windows'[ip].start
    <3>1. Cardinality({new}) = 1
      BY FS_Singleton
    <3>2. windows'[ip].count = 1 /\ windows'[ip].start = now
      BY <1>6, <2>1
    <3>3. Cardinality(Inside(ip)') = 1 /\ Cardinality(accepted'[ip] \ Inside(ip)') < Rpm
      BY <2>3, <2>4, <3>1
    <3> QED BY <1>5, <1>6, <3>2, <3>3
  <2> QED BY <1>9, <2>2, <2>5 DEF Limited, BetweenWindows, WithinWindow
<1>11. ASSUME ~Over(ip) PROVE Limited(ip)'
  <2>1. /\ w = [start |-> windows[ip].start, count |-> windows[ip].count + 1]
        /\ windows[ip] \in [start : Nat, count : 1 .. Rpm] /\ windows[ip].start <= now
        /\ now - windows[ip].start < Window
    BY <1>2, <1>11 DEF w, Over, LimiterTypes
  <2>2. w.start = windows[ip].start /\ w.count = windows[ip].count + 1
    BY <2>1
  <2>3. ~Over(ip)'
    BY <1>1, <1>2, <1>6, <1>7, <2>1, <2>2 DEF Over
  <2>4. /\ Cardinality(Inside(ip)) = windows[ip].count
        /\ Cardinality(A \ Inside(ip)) < Rpm
        /\ \E e \in A : e.at = windows[ip].start
    BY <1>2, <1>11 DEF Limited, WithinWindow
  <2>5. /\ Inside(ip)' = Inside(ip) \cup {new} /\ new \notin Inside(ip)
        /\ accepted'[ip] \ Inside(ip)' = A \ Inside(ip)
    BY <1>2, <1>3, <1>5, <1>6, <2>1, <2>2 DEF Inside
  <2>6. IsFiniteSet(Inside(ip))
    BY <1>3, FS_Subset DEF Inside
  <2>7. Cardinality(Inside(ip)') = windows[ip].count + 1
    <3>1. Cardinality(Inside(ip) \cup {new}) = Cardinality(Inside(ip)) + 1
      BY <2>5, <2>6, FS_AddElement
    <3> QED BY <2>4, <2>5, <3>1
  <2>8. /\ Cardinality(Inside(ip)') = windows'[ip].count
        /\ Cardinality(accepted'[ip] \ Inside(ip)') < Rpm
        /\ \E e \in accepted'[ip] : e.at = windows'[ip].start
    BY <1>6, <2>2, <2>4, <2>5, <2>7
  <2> QED BY <1>9, <2>3, <2>8 DEF Limited, BetweenWindows, WithinWindow
<1>12. ASSUME NEW x \in Ips \ {ip} PROVE Limited(x)'
  BY <1>1, <1>6, <1>12 DEF LimiterInv, Limited, Numbered, BetweenWindows, WithinWindow,
                          AtNow, Inside, Over
<1> QED BY <1>8, <1>10, <1>11, <1>12

LEMMA LimiterNext == LimiterInv /\ [Next]_vars => LimiterInv'
<1> SUFFICES ASSUME LimiterInv, [Next]_vars PROVE LimiterInv'
  OBVIOUS
<1>1. ASSUME NEW r \in Requests, Refused(r) \/ Find(r) \/ Handle(r) PROVE LimiterInv'
  BY <1>1, LimiterIdle DEF Refused, Find, Handle
<1>2. CASE SweepSessions \/ UNCHANGED vars
  BY <1>2, LimiterIdle DEF SweepSessions, vars
<1> QED BY <1>1, <1>2, LimiterArrive, LimiterSweep, LimiterTick DEF Next

(* The quota holds in the time of any window, not only of the limiter's own:    *)
(* fewer than two quotas of an ip pass, whenever the sweep runs; and an ip that *)
(* was let through nothing for that long is let through (createRateLimiter).    *)
THEOREM QuotasHold == Spec => []QuotaHolds
<1>1. LimiterInv => QuotaHolds
  <2> SUFFICES ASSUME LimiterInv, Rpm # 0, NEW ip \in Ips
               PROVE  /\ Cardinality(accepted[ip]) < 2 * Rpm
                      /\ accepted[ip] = {} => Allowed(ip)
    BY DEF QuotaHolds
  <2>1. LimiterTypes /\ Limited(ip) /\ Rpm \in Nat /\ Rpm > 0 /\ IsFiniteSet(accepted[ip])
    BY TimesAssumption DEF LimiterInv, LimiterTypes
  <2>2. CASE Over(ip)
    BY <2>1, <2>2, FS_CardinalityType DEF Limited, BetweenWindows, Allowed
  <2>3. CASE ~Over(ip)
    <3> DEFINE in == Inside(ip)
               out == accepted[ip] \ Inside(ip)
    <3>1. IsFiniteSet(in) /\ IsFiniteSet(out)
      BY <2>1, FS_Subset DEF Inside
    <3>2. Cardinality(in) \in Nat /\ Cardinality(out) \in Nat
      BY <3>1, FS_CardinalityType
    <3>3. Cardinality(in) <= Rpm /\ Cardinality(out) < Rpm /\ accepted[ip] # {}
      <4>1. windows[ip].count \in 1 .. Rpm
        BY <2>1, <2>3 DEF Over, LimiterTypes
      <4> QED BY <2>1, <2>3, <4>1 DEF Limited, WithinWindow
    <3>4. accepted[ip] = in \cup out /\ in \cap out = {}
      BY DEF Inside
    <3>5. Cardinality(accepted[ip]) = Cardinality(in) + Cardinality(out)
      <4> HIDE DEF in, out
      <4>1. Cardinality(in \cup out) = Cardinality(in) + Cardinality(out) - Cardinality(in \cap out)
        BY <3>1, FS_Union
      <4>2. Cardinality(in \cap out) = 0
        BY <3>4, FS_EmptySet
      <4> QED BY <3>2, <3>4, <4>1, <4>2
    <3> QED BY <2>1, <3>2, <3>3, <3>5
  <2> QED BY <2>2, <2>3
<1> QED BY <1>1, LimiterInit, LimiterNext, PTL DEF Spec
=============================================================================

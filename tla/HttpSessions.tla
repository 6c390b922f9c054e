----------------------------- MODULE HttpSessions ------------------------------
(* The HTTP transport (mcp/transports/http.ts): the rate limiter in front of    *)
(* it, the sessions of Streamable HTTP with the identity that opened each, and  *)
(* the two timers that sweep them.  A request is three steps, since it awaits   *)
(* the check of its token and its body.  The order of timers and requests of    *)
(* one instant is open.                                                         *)
EXTENDS Naturals, FiniteSets

CONSTANTS
    Ips,
    Identities,
    Requests,      \* requests in progress at once
    Rpm,           \* requests an ip may make in a window; 0: no limit
    Window,        \* of the limiter, and the period of both sweeps
    Ttl,           \* SESSION_TTL_MS
    MaxTime,       \* bound of the clock
    MaxSessions,   \* bound of the sessions opened
    None

ASSUME TimesAssumption == Rpm \in Nat /\ Window \in Nat \ {0} /\ Ttl \in Nat
ASSUME BoundsAssumption == MaxTime \in Nat /\ MaxSessions \in Nat
ASSUME NoneAssumption == None \notin [identity : Identities, lastSeen : Nat]
                           \cup [start : Nat, count : Nat]

VARIABLES
    now,
    phase,         \* time since the timers were due
    due,           \* the timers that fire at this instant and have not yet
    windows,       \* of the limiter: per ip [start, count] or None
    sessions,      \* per session [identity, lastSeen] or None
    opened,        \* sessions opened so far
    request,       \* per request in progress [at, who, what, session] or None
    accepted,      \* history: per ip, the requests let through within a window's
                   \* time, as [at, nth of its instant]
    used,          \* history: when each session last served a request
    closed         \* history: the sessions closed by their clients

vars == <<now, phase, due, windows, sessions, opened, request, accepted, used, closed>>

Timers == {"limiter", "sessions"}
Ids == 1 .. MaxSessions

Init ==
    /\ now = 0 /\ phase = 0 /\ due = {}
    /\ windows = [ip \in Ips |-> None]
    /\ sessions = [s \in Ids |-> None]
    /\ opened = 0
    /\ request = [r \in Requests |-> None]
    /\ accepted = [ip \in Ips |-> {}]
    /\ used = [s \in Ids |-> 0]
    /\ closed = {}

(* The limiter: a window starts with the first request after the last is over.  *)
Over(ip) == windows[ip] # None => now - windows[ip].start >= Window
Allowed(ip) == Rpm # 0 /\ ~ Over(ip) => windows[ip].count < Rpm

Count(ip) ==
    windows' = [windows EXCEPT ![ip] =
        IF Rpm = 0 THEN @
        ELSE IF Over(ip) THEN [start |-> now, count |-> 1]
        ELSE [start |-> windows[ip].start, count |-> windows[ip].count + 1]]

(* A request that is let through.  Its session is one that was opened once, or  *)
(* none; its token is that of an identity or of nobody.                         *)
Arrive(r, ip) ==
    /\ request[r] = None
    /\ Allowed(ip) /\ Count(ip)
    /\ accepted' = [accepted EXCEPT ![ip] =
         @ \cup {[at |-> now, nth |-> Cardinality({e \in @ : e.at = now})]}]
    /\ \E who \in Identities \cup {None}, s \in 0 .. opened, what \in {"use", "close"} :
         request' = [request EXCEPT ![r] = [at |-> "token", who |-> who, what |-> what, session |-> s]]
    /\ UNCHANGED <<now, phase, due, sessions, opened, used, closed>>

At(r, at) == request[r] # None /\ request[r].at = at

(* 401, 403, 404: nothing else happens.                                         *)
Refused(r) ==
    LET q == request[r] IN
    /\ At(r, "token")
    /\ \/ q.who = None
       \/ q.session # 0 /\ sessions[q.session] = None
       \/ q.session # 0 /\ sessions[q.session] # None /\ sessions[q.session].identity # q.who
    /\ request' = [request EXCEPT ![r] = None]
    /\ UNCHANGED <<now, phase, due, windows, sessions, opened, accepted, used, closed>>

(* Mutant: a session in use is not seen.                                        *)
Unseen(s) == sessions
(* The session is found and seen before the body is read.                       *)
Seen(s) == [sessions EXCEPT ![s].lastSeen = now]

Find(r) ==
    LET s == request[r].session IN
    /\ At(r, "token") /\ request[r].who # None
    /\ IF s = 0 THEN UNCHANGED <<sessions, used>>
       ELSE /\ sessions[s] # None /\ sessions[s].identity = request[r].who
            /\ sessions' = Seen(s)
            /\ used' = [used EXCEPT ![s] = now]
    /\ request' = [request EXCEPT ![r].at = "body"]
    /\ UNCHANGED <<now, phase, due, windows, opened, accepted, closed>>

(* The transport handles it: an initialize opens a session, a DELETE closes     *)
(* one, which may be closed already.                                            *)
Handle(r) ==
    LET q == request[r] IN
    /\ At(r, "body")
    /\ \/ /\ q.session = 0 /\ opened < MaxSessions
          /\ opened' = opened + 1
          /\ sessions' = [sessions EXCEPT ![opened'] = [identity |-> q.who, lastSeen |-> now]]
          /\ used' = [used EXCEPT ![opened'] = now]
          /\ UNCHANGED closed
       \/ /\ q.session # 0 /\ q.what = "close"
          /\ sessions' = [sessions EXCEPT ![q.session] = None]
          /\ closed' = closed \cup {q.session}
          /\ UNCHANGED <<opened, used>>
       \/ UNCHANGED <<sessions, opened, used, closed>>
    /\ request' = [request EXCEPT ![r] = None]
    /\ UNCHANGED <<now, phase, due, windows, accepted>>

(* Mutant: every window is forgotten.                                           *)
SweptAll(ip) == None
Swept(ip) == IF Over(ip) THEN None ELSE windows[ip]

SweepLimiter ==
    /\ "limiter" \in due /\ due' = due \ {"limiter"}
    /\ windows' = [ip \in Ips |-> Swept(ip)]
    /\ UNCHANGED <<now, phase, sessions, opened, request, accepted, used, closed>>

SweepSessions ==
    /\ "sessions" \in due /\ due' = due \ {"sessions"}
    /\ sessions' = [s \in Ids |->
         IF sessions[s] # None /\ now - sessions[s].lastSeen > Ttl THEN None ELSE sessions[s]]
    /\ UNCHANGED <<now, phase, windows, opened, request, accepted, used, closed>>

Tick ==
    /\ now < MaxTime /\ due = {}
    /\ now' = now + 1
    /\ phase' = IF phase + 1 = Window THEN 0 ELSE phase + 1
    /\ due' = IF phase' = 0 THEN Timers ELSE {}
    /\ accepted' = [ip \in Ips |-> {e \in accepted[ip] : now' - e.at < Window}]
    /\ UNCHANGED <<windows, sessions, opened, request, used, closed>>

Next ==
    \/ \E r \in Requests : Refused(r) \/ Find(r) \/ Handle(r) \/ \E ip \in Ips : Arrive(r, ip)
    \/ SweepLimiter \/ SweepSessions \/ Tick
Spec == Init /\ [][Next]_vars

----------------------------------------------------------------------------
(* Whatever the two clocks of limiter and sweep are to one another, fewer than  *)
(* two quotas of an ip pass in any time of one window (createRateLimiter).  And *)
(* "Retry after 60 seconds" is right: an ip of which nothing was let through    *)
(* for that long is let through.                                                *)
QuotaHolds ==
    Rpm # 0 =>
    \A ip \in Ips :
      /\ Cardinality(accepted[ip]) < 2 * Rpm
      /\ accepted[ip] = {} => Allowed(ip)

(* A session lasts as long as its client uses it and then for the TTL, though   *)
(* a sweep runs between the steps of its requests; and it is gone one sweep     *)
(* after that, though another identity's requests keep naming it                *)
(* (handleMcpRequest, connectHttp).                                             *)
LastsWhileUsed ==
    \A s \in (1 .. opened) \ closed :
      /\ now - used[s] <= Ttl => sessions[s] # None
      /\ sessions[s] # None => now - used[s] <= Ttl + Window
=============================================================================

--------------------------- MODULE SwosClientProofs ---------------------------
(***************************************************************************)
(* What callers are told of a change of the password is so, and the pooled *)
(* client keeps in touch with the switch: for any callers, passwords,      *)
(* nonces and number of calls.                                             *)
(***************************************************************************)
EXTENDS SwosClient, TLAPS

Credentials == [password : Passwords, challenge : Nat]
Answers == {"nothing", "read", "dryRun", "changed", "unconfirmed", "lost", "authFailed",
            "wrong", "failed"}
CallType == [at : {"idle", "get", "post", "confirm"}, client : 0 .. MaxCalls,
             new : Passwords \cup {None}, old : Passwords \cup {None}, dryRun : BOOLEAN,
             attempt : 0 .. Attempts, auth : Credentials, took : BOOLEAN, told : Answers]

TypeInv ==
    /\ switch \in [password : Passwords, nonce : Nat]
    /\ client \in [1 .. MaxCalls -> Credentials]
    /\ pool \in 0 .. MaxCalls
    /\ call \in [Callers -> CallType]
    /\ made \in 0 .. MaxCalls
    /\ excused \in BOOLEAN

\* A call under way has a client that was made, has been told nothing, and
\* asks for a new password before it changes it.
WellUsed ==
    /\ pool <= made
    /\ \A k \in 1 .. MaxCalls : k > made => client[k] = NewClient
    /\ \A c \in Callers : Busy(c) => Mine(c) \in 1 .. made /\ call[c].told = "nothing"
    /\ \A c \in Callers : call[c].at \in {"post", "confirm"} =>
                           call[c].new \in Passwords /\ call[c].old \in Passwords
    /\ \A c \in Callers : call[c].at \in {"get", "post"} => ~call[c].took

\* An answer that refuses the change is right.
RefusalIsTrue(cl) == cl.told \in {"dryRun", "authFailed", "wrong", "failed"} => ~cl.took

\* Calls that do not overlap have the pooled client to themselves.
Alone ==
    /\ \A c, d \in Callers : Busy(c) /\ Busy(d) => c = d
    /\ \A c \in Callers : Busy(c) => Mine(c) = pool

\* What a call then knows of the switch, with its client's password p and the
\* switch's password s.
Knows(cl, p, s) ==
    /\ cl.at # "idle" => cl.auth.password = p
    /\ cl.at = "post" => cl.old = p /\ s = p
    /\ cl.at = "confirm" => p = cl.new /\ s = IF cl.took THEN cl.new ELSE cl.old
    /\ cl.told = "changed" => cl.took \/ cl.new = cl.old

NobodyIsLost == \A c \in Callers : ~OutOfTouch(call[c])

\* Unless a change is being confirmed, the pooled client can log in.
InTouch ==
    NobodyIsLost =>
        IF pool = 0 THEN switch.password = Configured
        ELSE (\A c \in Callers : call[c].at # "confirm") => client[pool].password = switch.password

\* The inductive invariant.
SwosInv ==
    /\ TypeInv
    /\ WellUsed
    /\ \A c \in Callers : RefusalIsTrue(call[c])
    /\ ~excused =>
         /\ Alone
         /\ \A c \in Callers : Knows(call[c], client[Mine(c)].password, switch.password)
         /\ InTouch

-----------------------------------------------------------------------------

LEMMA Types ==
    ASSUME TypeInv
    PROVE  /\ NewClient \in Credentials /\ Idle \in CallType
           /\ \A c \in Callers : call[c] \in CallType
           /\ made \in Nat /\ MaxCalls \in Nat
  <1>1. NewClient \in Credentials
    BY ConfiguredAssumption DEF NewClient, Credentials
  <1>2. Idle \in CallType
    BY <1>1, BoundsAssumption DEF Idle, CallType, Answers, Attempts
  <1>3. QED
    BY <1>1, <1>2, BoundsAssumption DEF TypeInv

\* The client of a call under way.
LEMMA MyClient ==
    ASSUME SwosInv, NEW c \in Callers, Busy(c)
    PROVE  /\ Mine(c) \in 1 .. MaxCalls /\ Mine(c) \in 1 .. made /\ Mine(c) # 0
           /\ client[Mine(c)] \in Credentials
           /\ call[c].told = "nothing" /\ ~OutOfTouch(call[c])
  <1>1. Mine(c) \in 1 .. made /\ call[c].told = "nothing"
    BY DEF SwosInv, WellUsed
  <1>2. made \in 0 .. MaxCalls /\ MaxCalls \in Nat
    BY BoundsAssumption DEF SwosInv, TypeInv
  <1>3. Mine(c) \in 1 .. MaxCalls /\ Mine(c) # 0
    BY <1>1, <1>2
  <1>4. QED
    BY <1>1, <1>3 DEF SwosInv, TypeInv, OutOfTouch

\* What a call under way knows, as long as nothing excuses it.
LEMMA AloneKnows ==
    ASSUME SwosInv, ~excused, NEW c \in Callers, Busy(c)
    PROVE  /\ Mine(c) = pool /\ pool # 0
           /\ \A d \in Callers : d # c => ~Busy(d)
           /\ Knows(call[c], client[Mine(c)].password, switch.password)
           /\ NobodyIsLost /\ call[c].at # "confirm"
                 => client[Mine(c)].password = switch.password
  <1>1. Mine(c) = pool /\ \A d \in Callers : d # c => ~Busy(d)
    BY DEF SwosInv, Alone
  <1>2. pool # 0
    BY <1>1, MyClient
  <1>3. \A d \in Callers : d # c => call[d].at # "confirm"
    BY <1>1 DEF Busy
  <1>4. QED
    BY <1>1, <1>2, <1>3 DEF SwosInv, InTouch

\* A step of caller c's call, which goes on or ends as cl, with its client's
\* credentials then cred.
LEMMA CallerStep ==
    ASSUME SwosInv, NEW c \in Callers, Busy(c),
           NEW cl \in CallType, call' = [call EXCEPT ![c] = cl],
           NEW cred \in Credentials, client' = [client EXCEPT ![Mine(c)] = cred],
           switch' \in [password : Passwords, nonce : Nat],
           UNCHANGED <<made, excused>>, pool' \in {0, pool},
           cl.client = Mine(c),
           cl.at # "idle" => cl.told = "nothing" /\ pool' = pool,
           cl.at \in {"post", "confirm"} => cl.new \in Passwords /\ cl.old \in Passwords,
           cl.at \in {"get", "post"} => ~cl.took,
           RefusalIsTrue(cl),
           ~excused => Knows(cl, cred.password, switch'.password),
           ~excused /\ NobodyIsLost /\ ~OutOfTouch(cl) =>
               /\ pool' = pool
               /\ cl.at # "confirm" => cred.password = switch'.password
    PROVE  SwosInv'
  <1>1. Mine(c) \in 1 .. MaxCalls /\ Mine(c) \in 1 .. made /\ Mine(c) # 0
    BY MyClient
  <1>2. /\ call'[c] = cl /\ \A d \in Callers : d # c => call'[d] = call[d]
        /\ client'[Mine(c)] = cred
        /\ \A k \in 1 .. MaxCalls : k # Mine(c) => client'[k] = client[k]
    BY <1>1 DEF SwosInv, TypeInv
  <1>3. TypeInv'
    <2>1. TypeInv /\ pool' \in 0 .. MaxCalls
      BY BoundsAssumption DEF SwosInv, TypeInv
    <2>2. call' \in [Callers -> CallType] /\ client' \in [1 .. MaxCalls -> Credentials]
      BY <2>1 DEF TypeInv
    <2>3. QED
      BY <2>1, <2>2 DEF TypeInv
  <1>4. made \in Nat /\ pool \in Nat /\ MaxCalls \in Nat
    BY BoundsAssumption DEF SwosInv, TypeInv
  <1>5. WellUsed'
    <2>1. pool' <= made
      BY <1>4 DEF SwosInv, WellUsed
    <2>2. \A k \in 1 .. MaxCalls : k > made => client'[k] = NewClient
      BY <1>1, <1>2, <1>4 DEF SwosInv, WellUsed
    <2>3. ASSUME NEW d \in Callers
          PROVE  /\ Busy(d)' => Mine(d)' \in 1 .. made /\ call'[d].told = "nothing"
                 /\ call'[d].at \in {"post", "confirm"} =>
                      call'[d].new \in Passwords /\ call'[d].old \in Passwords
                 /\ call'[d].at \in {"get", "post"} => ~call'[d].took
      <3>1. CASE d = c
        BY <1>1, <1>2, <3>1 DEF Busy, Mine
      <3>2. CASE d # c
        BY <1>2, <3>2 DEF SwosInv, WellUsed, Busy, Mine
      <3>3. QED
        BY <3>1, <3>2
    <2>4. QED
      BY <2>1, <2>2, <2>3 DEF WellUsed
  <1>6. \A d \in Callers : RefusalIsTrue(call[d])'
    BY <1>2 DEF SwosInv, RefusalIsTrue
  <1>7. ASSUME ~excused
        PROVE  /\ Alone'
               /\ \A d \in Callers : Knows(call[d], client[Mine(d)].password, switch.password)'
               /\ InTouch'
    <2>1. /\ Mine(c) = pool /\ pool # 0
          /\ \A d \in Callers : d # c => ~Busy(d)
      BY <1>7, AloneKnows
    <2>2. \A d \in Callers : d # c => call'[d].at = "idle"
      BY <1>2, <2>1 DEF Busy
    <2>3. Alone'
      BY <1>2, <2>1, <2>2 DEF Alone, Busy, Mine
    <2>4. ASSUME NEW d \in Callers
          PROVE  Knows(call[d], client[Mine(d)].password, switch.password)'
      <3>1. CASE d = c
        BY <1>2, <1>7, <3>1 DEF Knows, Mine
      <3>2. CASE d # c
        BY <1>2, <1>7, <2>2, <3>2 DEF SwosInv, Knows
      <3>3. QED
        BY <3>1, <3>2
    <2>5. InTouch'
      <3> SUFFICES ASSUME NobodyIsLost', \A d \in Callers : call'[d].at # "confirm"
                   PROVE  pool' # 0 /\ client'[pool'].password = switch'.password
        <4>1. NobodyIsLost' => pool' # 0
          <5> SUFFICES ASSUME NobodyIsLost' PROVE pool' # 0
            OBVIOUS
          <5>1. ~OutOfTouch(cl) /\ NobodyIsLost
            BY <1>2, MyClient DEF NobodyIsLost, OutOfTouch
          <5>2. QED
            BY <1>7, <2>1, <5>1
        <4>2. QED
          BY <4>1 DEF InTouch
      <3>1. ~OutOfTouch(cl) /\ NobodyIsLost
        BY <1>2, MyClient DEF NobodyIsLost, OutOfTouch
      <3>2. QED
        BY <1>2, <1>7, <2>1, <3>1
    <2>6. QED
      BY <2>3, <2>4, <2>5
  <1>8. QED
    BY <1>3, <1>5, <1>6, <1>7 DEF SwosInv

\* Answers end a call and leave everything else of it as it was.
LEMMA TellFacts ==
    ASSUME NEW cl \in CallType, NEW told \in Answers
    PROVE  /\ Tell(cl, told) \in CallType
           /\ Tell(cl, told).at = "idle" /\ Tell(cl, told).told = told
           /\ Tell(cl, told).client = cl.client /\ Tell(cl, told).took = cl.took
           /\ Tell(cl, told).new = cl.new /\ Tell(cl, told).old = cl.old
  BY DEF Tell, CallType

LEMMA BeginKeeps ==
    ASSUME SwosInv, NEW c \in Callers, Begin(c)
    PROVE  SwosInv'
  <1> USE DEF SwosInv
  <1> DEFINE k == IF pool = 0 THEN made + 1 ELSE pool
  <1>1. PICK new \in Passwords \cup {None}, dryRun \in BOOLEAN :
          call' = [call EXCEPT ![c] =
             [Idle EXCEPT !.at = "get", !.client = k, !.new = new, !.dryRun = dryRun,
                          !.attempt = 1, !.auth = client[k]]]
    BY DEF Begin
  <1>2. /\ ~Busy(c) /\ made < MaxCalls /\ made' = made + 1 /\ pool' = k
        /\ excused' = (excused \/ OutOfTouch(call[c]) \/ \E d \in Callers \ {c} : Busy(d))
        /\ UNCHANGED <<switch, client>>
    BY DEF Begin
  <1>3. /\ made \in Nat /\ MaxCalls \in Nat /\ pool \in Nat /\ pool <= made
        /\ Idle \in CallType /\ made' \in 0 .. MaxCalls
    BY <1>2, BoundsAssumption, Types DEF TypeInv, WellUsed
  <1>4. k \in 1 .. made' /\ k \in 1 .. MaxCalls /\ k # 0
    BY <1>2, <1>3
  <1> DEFINE cl == [Idle EXCEPT !.at = "get", !.client = k, !.new = new, !.dryRun = dryRun,
                                !.attempt = 1, !.auth = client[k]]
  <1>5. /\ cl \in CallType /\ cl.at = "get" /\ cl.client = k /\ cl.told = "nothing"
        /\ ~cl.took /\ cl.auth = client[k]
    <2>1. client[k] \in Credentials
      BY <1>4 DEF TypeInv
    <2>2. k \in 0 .. MaxCalls /\ 1 \in 0 .. Attempts
      BY <1>3, <1>4 DEF Attempts
    <2> HIDE DEF k
    <2>3. cl \in CallType
      BY <1>3, <2>1, <2>2 DEF CallType
    <2>4. QED
      BY <2>3 DEF Idle
  <1>6. call' = [call EXCEPT ![c] = cl]
    BY <1>1
  <1> HIDE DEF cl
  <1>7. call'[c] = cl /\ \A d \in Callers : d # c => call'[d] = call[d]
    BY <1>6 DEF TypeInv
  <1>8. TypeInv'
    <2>1. k \in 0 .. MaxCalls
      BY <1>3, <1>4
    <2>2. excused' \in BOOLEAN
      BY <1>2
    <2>3. QED
      BY <1>2, <1>3, <1>5, <1>6, <2>1, <2>2 DEF TypeInv
  <1>9. WellUsed'
    <2>1. pool' <= made' /\ \A j \in 1 .. MaxCalls : j > made' => client'[j] = NewClient
      BY <1>2, <1>3, <1>4 DEF WellUsed
    <2>2. ASSUME NEW d \in Callers
          PROVE  /\ Busy(d)' => Mine(d)' \in 1 .. made' /\ call'[d].told = "nothing"
                 /\ call'[d].at \in {"post", "confirm"} =>
                      call'[d].new \in Passwords /\ call'[d].old \in Passwords
                 /\ call'[d].at \in {"get", "post"} => ~call'[d].took
      <3>1. CASE d = c
        BY <1>4, <1>5, <1>7, <3>1 DEF Busy, Mine
      <3>2. CASE d # c
        <4>1. Busy(d) => Mine(d) \in 1 .. made
          BY DEF WellUsed
        <4>2. Busy(d) => Mine(d) \in 1 .. made'
          BY <1>2, <1>3, <4>1
        <4>3. QED
          BY <1>7, <3>2, <4>2 DEF WellUsed, Busy, Mine
      <3>3. QED
        BY <3>1, <3>2
    <2>3. QED
      BY <2>1, <2>2 DEF WellUsed
  <1>10. \A d \in Callers : RefusalIsTrue(call[d])'
    BY <1>5, <1>7 DEF RefusalIsTrue
  <1>11. ASSUME ~excused'
         PROVE  /\ Alone'
                /\ \A d \in Callers : Knows(call[d], client[Mine(d)].password, switch.password)'
                /\ InTouch'
    <2>1. /\ ~excused /\ ~OutOfTouch(call[c]) /\ \A d \in Callers : d # c => ~Busy(d)
      BY <1>2, <1>11
    <2>2. \A d \in Callers : ~Busy(d)
      BY <1>2, <2>1
    <2>3. Alone'
      BY <1>2, <1>5, <1>7, <2>1 DEF Alone, Busy, Mine
    <2>4. ASSUME NEW d \in Callers
          PROVE  Knows(call[d], client[Mine(d)].password, switch.password)'
      <3>1. CASE d = c
        BY <1>2, <1>5, <1>7, <3>1 DEF Knows, Mine
      <3>2. CASE d # c
        BY <1>2, <1>7, <2>1, <3>2 DEF Knows, Busy
      <3>3. QED
        BY <3>1, <3>2
    <2>5. NobodyIsLost' => NobodyIsLost
      BY <1>7, <2>1 DEF NobodyIsLost, OutOfTouch
    <2>6. NobodyIsLost => client[k].password = switch.password
      <3>1. CASE pool = 0
        <4>1. client[k] = NewClient
          BY <1>3, <1>4, <3>1 DEF WellUsed
        <4>2. QED
          BY <2>1, <3>1, <4>1 DEF InTouch, NewClient
      <3>2. CASE pool # 0
        BY <2>1, <2>2, <3>2 DEF InTouch, Busy
      <3>3. QED
        BY <3>1, <3>2
    <2>7. InTouch'
      BY <1>2, <1>4, <2>5, <2>6 DEF InTouch
    <2>8. QED
      BY <2>3, <2>4, <2>7
  <1>12. QED
    BY <1>8, <1>9, <1>10, <1>11

\* A call that ends with the client and the switch as they are.
LEMMA AnswerKeeps ==
    ASSUME SwosInv, NEW c \in Callers, Busy(c), NEW told \in Answers,
           call' = [call EXCEPT ![c] = Tell(call[c], told)],
           UNCHANGED <<switch, client, made, excused>>, pool' \in {0, pool},
           told \in {"dryRun", "authFailed", "wrong", "failed"} => ~call[c].took,
           told = "changed" /\ ~excused => call[c].took \/ call[c].new = call[c].old,
           ~excused /\ told # "authFailed" /\ NobodyIsLost =>
               pool' = pool /\ client[Mine(c)].password = switch.password
    PROVE  SwosInv'
  <1> DEFINE cl == Tell(call[c], told)
  <1>1. Mine(c) \in 1 .. MaxCalls /\ client[Mine(c)] \in Credentials
    BY MyClient
  <1>2. call[c] \in CallType
    BY Types DEF SwosInv
  <1>3. /\ cl \in CallType /\ cl.at = "idle" /\ cl.told = told /\ cl.client = Mine(c)
        /\ cl.took = call[c].took /\ cl.new = call[c].new /\ cl.old = call[c].old
    BY <1>2, TellFacts DEF Mine
  <1>4. client' = [client EXCEPT ![Mine(c)] = client[Mine(c)]]
    BY <1>1 DEF SwosInv, TypeInv
  <1>5. switch' \in [password : Passwords, nonce : Nat]
    BY DEF SwosInv, TypeInv
  <1>6. call' = [call EXCEPT ![c] = cl]
    OBVIOUS
  <1> HIDE DEF cl
  <1>7. RefusalIsTrue(cl)
    BY <1>3 DEF RefusalIsTrue
  <1>8. ~excused => Knows(cl, client[Mine(c)].password, switch'.password)
    BY <1>3 DEF Knows
  <1>9. ~excused /\ NobodyIsLost /\ ~OutOfTouch(cl) =>
            /\ pool' = pool
            /\ cl.at # "confirm" => client[Mine(c)].password = switch'.password
    BY <1>3 DEF OutOfTouch
  <1>10. QED
    BY <1>1, <1>3, <1>4, <1>5, <1>6, <1>7, <1>8, <1>9, CallerStep

\* Revert: the client gets the password it had before the change.
LEMMA RevertKeeps ==
    ASSUME SwosInv, NEW c \in Callers, call[c].at = "confirm", Revert(c),
           UNCHANGED <<switch, pool, made, excused>>
    PROVE  SwosInv'
  <1> DEFINE cl == Tell(call[c], "unconfirmed")
             cred == [password |-> call[c].old, challenge |-> 0]
  <1>1. Busy(c) /\ call[c] \in CallType
    BY Types DEF Busy, SwosInv
  <1>2. /\ cl \in CallType /\ cl.at = "idle" /\ cl.told = "unconfirmed" /\ cl.client = Mine(c)
        /\ cl.took = call[c].took
    BY <1>1, TellFacts DEF Mine, Answers
  <1>3. cred \in Credentials /\ cred.password = call[c].old
    BY DEF Credentials, SwosInv, WellUsed
  <1>4. call' = [call EXCEPT ![c] = cl] /\ client' = [client EXCEPT ![Mine(c)] = cred]
    BY DEF Revert
  <1>5. switch' \in [password : Passwords, nonce : Nat]
    BY DEF SwosInv, TypeInv
  <1> HIDE DEF cl, cred
  <1>6. RefusalIsTrue(cl) /\ Knows(cl, cred.password, switch'.password)
    BY <1>2 DEF RefusalIsTrue, Knows
  <1>7. ~excused /\ NobodyIsLost /\ ~OutOfTouch(cl) =>
            /\ pool' = pool
            /\ cl.at # "confirm" => cred.password = switch'.password
    <2> SUFFICES ASSUME ~excused, ~OutOfTouch(cl) PROVE call[c].old = switch.password
      BY <1>3
    <2>1. ~call[c].took
      BY <1>2 DEF OutOfTouch
    <2>2. QED
      BY <1>1, <2>1, AloneKnows DEF Knows
  <1>8. QED
    BY <1>1, <1>2, <1>3, <1>4, <1>5, <1>6, <1>7, CallerStep

LEMMA GrantedKeeps ==
    ASSUME SwosInv, NEW c \in Callers, Granted(c)
    PROVE  SwosInv'
  <1>1. /\ Accepted(c) /\ call[c].at \in {"get", "confirm"} /\ Busy(c)
        /\ UNCHANGED <<switch, client, pool, made, excused>>
    BY DEF Granted, Busy
  <1>2. /\ Mine(c) \in 1 .. MaxCalls /\ client[Mine(c)] \in Credentials /\ call[c] \in CallType
    BY <1>1, MyClient, Types DEF SwosInv
  <1>3. ~excused => client[Mine(c)].password = switch.password
    BY <1>1, AloneKnows DEF Knows, Accepted, Busy
  <1>4. CASE call[c].at = "confirm"
    <2>1. call' = [call EXCEPT ![c] = Tell(call[c], "changed")]
      BY <1>4 DEF Granted
    <2>2. ~excused => call[c].took \/ call[c].new = call[c].old
      BY <1>1, <1>3, <1>4, AloneKnows DEF Knows
    <2>3. QED
      BY <1>1, <1>3, <2>1, <2>2, AnswerKeeps DEF Answers
  <1>5. CASE call[c].at = "get" /\ call[c].new = None
    <2>1. call' = [call EXCEPT ![c] = Tell(call[c], "read")]
      BY <1>5 DEF Granted
    <2>2. QED
      BY <1>1, <1>3, <2>1, AnswerKeeps DEF Answers
  <1>6. CASE call[c].at = "get" /\ call[c].new # None /\ call[c].dryRun
    <2>1. call' = [call EXCEPT ![c] = Tell(call[c], "dryRun")] /\ ~call[c].took
      BY <1>6 DEF Granted, SwosInv, WellUsed
    <2>2. QED
      BY <1>1, <1>3, <2>1, AnswerKeeps DEF Answers
  <1>7. CASE call[c].at = "get" /\ call[c].new # None /\ ~call[c].dryRun
    <2> DEFINE cred == client[Mine(c)]
               cl == [Request(call[c], "post", cred) EXCEPT !.old = cred.password]
    <2>1. call' = [call EXCEPT ![c] = cl]
      BY <1>7 DEF Granted
    <2>2. cred \in Credentials /\ cred.password \in Passwords
      BY <1>2 DEF Credentials
    <2>3. /\ cl \in CallType /\ cl.at = "post" /\ cl.client = Mine(c)
          /\ cl.new \in Passwords /\ cl.old = cred.password /\ cl.auth = cred
          /\ ~cl.took /\ cl.told = "nothing"
      <3>1. 1 \in 0 .. Attempts
        BY DEF Attempts
      <3>2. call[c].told = "nothing" /\ ~call[c].took
        BY <1>1, <1>7, MyClient DEF SwosInv, WellUsed
      <3>3. call[c].new \in Passwords
        BY <1>2, <1>7 DEF CallType
      <3> HIDE DEF cred
      <3>4. QED
        BY <1>2, <2>2, <3>1, <3>2, <3>3 DEF Request, CallType, Mine
    <2>4. client' = [client EXCEPT ![Mine(c)] = cred]
      BY <1>1, <1>2 DEF SwosInv, TypeInv
    <2>5. switch' \in [password : Passwords, nonce : Nat]
      BY <1>1 DEF SwosInv, TypeInv
    <2>6. ~excused => cred.password = switch'.password
      BY <1>1, <1>3
    <2> HIDE DEF cl, cred
    <2>7. RefusalIsTrue(cl) /\ (~excused => Knows(cl, cred.password, switch'.password))
      BY <2>3, <2>6 DEF RefusalIsTrue, Knows
    <2>8. QED
      BY <1>1, <2>1, <2>2, <2>3, <2>4, <2>5, <2>6, <2>7, CallerStep
  <1>8. QED
    BY <1>1, <1>4, <1>5, <1>6, <1>7

\* What a call that goes on with a later attempt, or ends, must still know: an
\* authentication failure of a get or a post says that the change was not made.
LEMMA ChallengedKeeps ==
    ASSUME SwosInv, NEW c \in Callers, Challenged(c)
    PROVE  SwosInv'
  <1>1. Busy(c) /\ ~Accepted(c) /\ UNCHANGED <<switch, made, excused>>
    BY DEF Challenged
  <1>2. /\ Mine(c) \in 1 .. MaxCalls /\ client[Mine(c)] \in Credentials /\ call[c] \in CallType
        /\ call[c].told = "nothing"
    BY <1>1, MyClient, Types DEF SwosInv
  <1>3. CASE /\ TryAgain(c)
             /\ client' = [client EXCEPT ![Mine(c)].challenge = switch.nonce]
             /\ call' = [call EXCEPT ![c].attempt = IF @ < Attempts THEN @ + 1 ELSE @,
                                     ![c].auth = client'[Mine(c)]]
             /\ UNCHANGED pool
    <2> DEFINE cred == [client[Mine(c)] EXCEPT !.challenge = switch.nonce]
               cl == [call[c] EXCEPT !.attempt = IF @ < Attempts THEN @ + 1 ELSE @,
                                     !.auth = cred]
    <2>1. client' = [client EXCEPT ![Mine(c)] = cred] /\ client'[Mine(c)] = cred
      BY <1>2, <1>3 DEF SwosInv, TypeInv
    <2>2. call' = [call EXCEPT ![c] = cl]
      BY <1>3, <2>1 DEF SwosInv, TypeInv
    <2>3. cred \in Credentials /\ cred.password = client[Mine(c)].password
      BY <1>2 DEF Credentials, SwosInv, TypeInv
    <2>4. /\ cl \in CallType /\ cl.at = call[c].at /\ cl.client = Mine(c)
          /\ cl.new = call[c].new /\ cl.old = call[c].old /\ cl.auth = cred
          /\ cl.took = call[c].took /\ cl.told = "nothing"
      <3> DEFINE n == IF call[c].attempt < Attempts THEN call[c].attempt + 1
                      ELSE call[c].attempt
      <3>1. n \in 0 .. Attempts
        BY <1>2 DEF CallType, Attempts
      <3>2. cl = [call[c] EXCEPT !.attempt = n, !.auth = cred]
        BY <1>2 DEF CallType
      <3> HIDE DEF cred, n, cl
      <3>3. QED
        BY <1>2, <2>3, <3>1, <3>2 DEF CallType, Mine
    <2>5. switch' \in [password : Passwords, nonce : Nat]
      BY <1>1 DEF SwosInv, TypeInv
    <2> HIDE DEF cl, cred
    <2>6. RefusalIsTrue(cl)
      BY <2>4 DEF RefusalIsTrue
    <2>7. ~excused => Knows(cl, cred.password, switch'.password)
      BY <1>1, <2>3, <2>4, AloneKnows DEF Knows
    <2>8. ~excused /\ NobodyIsLost /\ cl.at # "confirm" => cred.password = switch'.password
      BY <1>1, <2>3, <2>4, AloneKnows
    <2>9. /\ cl.at \in {"post", "confirm"} => cl.new \in Passwords /\ cl.old \in Passwords
          /\ cl.at \in {"get", "post"} => ~cl.took
      BY <2>4 DEF SwosInv, WellUsed
    <2>10. QED
      BY <1>1, <1>3, <2>1, <2>2, <2>3, <2>4, <2>5, <2>6, <2>7, <2>8, <2>9, CallerStep
  <1>4. CASE call[c].at = "confirm" /\ Revert(c) /\ UNCHANGED pool
    BY <1>1, <1>4, RevertKeeps
  <1>5. CASE call[c].at # "confirm" /\ AuthFailed(c, "authFailed")
    <2>1. ~call[c].took
      BY <1>1, <1>2, <1>5 DEF SwosInv, WellUsed, Busy, CallType
    <2>2. QED
      BY <1>1, <1>5, <2>1, AnswerKeeps DEF AuthFailed, Answers
  <1>6. QED
    BY <1>3, <1>4, <1>5 DEF Challenged

\* The switch takes the change: the client goes on with the new password, or,
\* when the answer is lost, as it was.
LEMMA TakenKeeps ==
    ASSUME SwosInv, NEW c \in Callers, call[c].at = "post",
           switch' = [switch EXCEPT !.password = call[c].new],
           NEW cl \in CallType, call' = [call EXCEPT ![c] = cl], cl.took,
           NEW cred \in Credentials, client' = [client EXCEPT ![Mine(c)] = cred],
           UNCHANGED <<pool, made, excused>>,
           cl.client = Mine(c), cl.new = call[c].new, cl.old = call[c].old,
           \/ cl.at = "confirm" /\ cl.told = "nothing" /\ cl.auth.password = cred.password
           \/ cl.at = "idle" /\ cl.told \in {"changed", "lost"},
           cl.told # "lost" => cred.password = cl.new
    PROVE  SwosInv'
  <1>1. Busy(c) /\ call[c].new \in Passwords /\ call[c].old \in Passwords
    BY DEF Busy, SwosInv, WellUsed
  <1>2. switch' \in [password : Passwords, nonce : Nat] /\ switch'.password = cl.new
    BY <1>1 DEF SwosInv, TypeInv
  <1>3. RefusalIsTrue(cl)
    BY DEF RefusalIsTrue
  <1>4. Knows(cl, cred.password, switch'.password)
    BY <1>2 DEF Knows
  <1>5. ~OutOfTouch(cl) => cred.password = switch'.password
    BY <1>2 DEF OutOfTouch
  <1>6. QED
    BY <1>1, <1>2, <1>3, <1>4, <1>5, CallerStep

LEMMA ChangedKeeps ==
    ASSUME SwosInv, NEW c \in Callers, Changed(c)
    PROVE  SwosInv'
  <1>1. call[c].at = "post" /\ Busy(c) /\ UNCHANGED <<made, excused>>
    BY DEF Changed, Busy
  <1>2. call[c] \in CallType /\ call[c].new \in Passwords /\ ~call[c].took
    BY <1>1, Types DEF SwosInv, WellUsed
  <1>3. CASE /\ call[c].old = switch.password
             /\ switch' = [switch EXCEPT !.password = call[c].new]
             /\ client' = [client EXCEPT ![Mine(c)] = [password |-> call[c].new, challenge |-> 0]]
             /\ call' = [call EXCEPT ![c] = [Tell(@, "changed") EXCEPT !.took = TRUE]]
             /\ UNCHANGED pool
    <2> DEFINE cred == [password |-> call[c].new, challenge |-> 0]
               t == Tell(call[c], "changed")
               cl == [t EXCEPT !.took = TRUE]
    <2>1. call' = [call EXCEPT ![c] = cl] /\ client' = [client EXCEPT ![Mine(c)] = cred]
      BY <1>3
    <2>2. cred \in Credentials /\ cred.password = call[c].new
      BY <1>2 DEF Credentials
    <2>3. /\ t \in CallType /\ t.at = "idle" /\ t.told = "changed" /\ t.client = Mine(c)
          /\ t.new = call[c].new /\ t.old = call[c].old
      BY <1>2, TellFacts DEF Answers, Mine
    <2> HIDE DEF t, cred
    <2>4. /\ cl \in CallType /\ cl.took /\ cl.at = "idle" /\ cl.told = "changed"
          /\ cl.client = Mine(c) /\ cl.new = call[c].new /\ cl.old = call[c].old
      BY <2>3 DEF CallType
    <2> HIDE DEF cl
    <2>5. switch' = [switch EXCEPT !.password = call[c].new] /\ UNCHANGED pool
      BY <1>3
    <2>6. QED
      BY <1>1, <2>1, <2>2, <2>4, <2>5, TakenKeeps
  <1>4. CASE call[c].old # switch.password /\ AuthFailed(c, "wrong") /\ UNCHANGED switch
    <2>1. excused
      BY <1>1, <1>4, AloneKnows DEF Knows
    <2>2. QED
      BY <1>1, <1>2, <1>4, <2>1, AnswerKeeps DEF AuthFailed, Answers
  <1>5. QED
    BY <1>3, <1>4 DEF Changed

LEMMA TimedOutKeeps ==
    ASSUME SwosInv, NEW c \in Callers, TimedOut(c)
    PROVE  SwosInv'
  <1>1. Busy(c) /\ UNCHANGED <<pool, made, excused>>
    BY DEF TimedOut
  <1>2. call[c] \in CallType /\ call[c].told = "nothing"
    BY <1>1, MyClient, Types DEF SwosInv
  <1>3. CASE call[c].at = "get"
    <2>1. /\ call' = [call EXCEPT ![c] = Tell(call[c], "failed")]
          /\ UNCHANGED <<switch, client>> /\ ~call[c].took
      BY <1>3 DEF TimedOut, SwosInv, WellUsed
    <2>2. ~excused /\ NobodyIsLost => client[Mine(c)].password = switch.password
      BY <1>1, <1>3, AloneKnows
    <2>3. QED
      BY <1>1, <2>1, <2>2, AnswerKeeps DEF Answers
  <1>4. CASE call[c].at = "confirm"
    BY <1>1, <1>4, RevertKeeps DEF TimedOut
  <1>5. CASE call[c].at = "post"
    <2> DEFINE cred == NewCredentials(c)
               r == Request(call[c], "confirm", cred)
               cl == [r EXCEPT !.took = TRUE]
    <2>1. /\ call[c].new \in Passwords /\ call[c].old \in Passwords /\ ~call[c].took
      BY <1>5 DEF SwosInv, WellUsed
    <2>2. cred \in Credentials /\ cred.password = call[c].new
      BY <2>1 DEF Credentials, NewCredentials
    <2>3. /\ client' = [client EXCEPT ![Mine(c)] = cred]
          /\ \/ /\ switch' = [switch EXCEPT !.password = call[c].new]
                /\ call' = [call EXCEPT ![c] = cl]
             \/ UNCHANGED switch /\ call' = [call EXCEPT ![c] = r]
      BY <1>5 DEF TimedOut
    <2> HIDE DEF cred
    <2>4. /\ r \in CallType /\ r.at = "confirm" /\ r.told = "nothing" /\ r.client = Mine(c)
          /\ r.new = call[c].new /\ r.old = call[c].old /\ r.auth = cred /\ ~r.took
      <3>1. 1 \in 0 .. Attempts
        BY DEF Attempts
      <3>2. QED
        BY <1>2, <2>1, <2>2, <3>1 DEF Request, CallType, Mine
    <2> HIDE DEF r
    <2>5. /\ cl \in CallType /\ cl.at = "confirm" /\ cl.told = "nothing" /\ cl.client = Mine(c)
          /\ cl.new = call[c].new /\ cl.old = call[c].old /\ cl.auth = cred /\ cl.took
      BY <2>4 DEF CallType
    <2> HIDE DEF cl
    <2>6. CASE /\ switch' = [switch EXCEPT !.password = call[c].new]
               /\ call' = [call EXCEPT ![c] = cl]
      <3>1. UNCHANGED <<pool, made, excused>> /\ call[c].at = "post"
        BY <1>5 DEF TimedOut
      <3>2. QED
        BY <1>1, <2>2, <2>3, <2>5, <2>6, <3>1, TakenKeeps
    <2>7. CASE UNCHANGED switch /\ call' = [call EXCEPT ![c] = r]
      <3>1. switch' \in [password : Passwords, nonce : Nat]
        BY <2>7 DEF SwosInv, TypeInv
      <3>2. RefusalIsTrue(r)
        BY <2>4 DEF RefusalIsTrue
      <3>3. ~excused => switch.password = call[c].old
        BY <1>1, <1>5, AloneKnows DEF Knows
      <3>4. ~excused => Knows(r, cred.password, switch'.password)
        BY <2>2, <2>4, <2>7, <3>3 DEF Knows
      <3>5. QED
        BY <1>1, <2>1, <2>2, <2>3, <2>4, <2>7, <3>1, <3>2, <3>4, CallerStep
    <2>8. QED
      BY <2>3, <2>6, <2>7
  <1>6. QED
    BY <1>1, <1>2, <1>3, <1>4, <1>5 DEF Busy, CallType

LEMMA ConnectionLostKeeps ==
    ASSUME SwosInv, NEW c \in Callers, ConnectionLost(c)
    PROVE  SwosInv'
  <1>1. Busy(c) /\ UNCHANGED <<pool, made, excused>>
    BY DEF ConnectionLost
  <1>2. /\ call[c] \in CallType /\ Mine(c) \in 1 .. MaxCalls /\ client[Mine(c)] \in Credentials
    BY <1>1, MyClient, Types DEF SwosInv
  <1>3. CASE call[c].at = "confirm"
    BY <1>1, <1>3, RevertKeeps DEF ConnectionLost
  <1>4. CASE /\ call[c].at = "post" /\ UNCHANGED client
             /\ switch' = [switch EXCEPT !.password = call[c].new]
             /\ call' = [call EXCEPT ![c] = [Tell(@, "lost") EXCEPT !.took = TRUE]]
    <2> DEFINE t == Tell(call[c], "lost")
               cl == [t EXCEPT !.took = TRUE]
    <2>1. call' = [call EXCEPT ![c] = cl]
      BY <1>4
    <2>2. client' = [client EXCEPT ![Mine(c)] = client[Mine(c)]]
      BY <1>2, <1>4 DEF SwosInv, TypeInv
    <2>3. /\ t \in CallType /\ t.at = "idle" /\ t.told = "lost" /\ t.client = Mine(c)
          /\ t.new = call[c].new /\ t.old = call[c].old
      BY <1>2, TellFacts DEF Answers, Mine
    <2> HIDE DEF t
    <2>4. /\ cl \in CallType /\ cl.took /\ cl.at = "idle" /\ cl.told = "lost"
          /\ cl.client = Mine(c) /\ cl.new = call[c].new /\ cl.old = call[c].old
      BY <2>3 DEF CallType
    <2> HIDE DEF cl
    <2>5. QED
      BY <1>1, <1>2, <1>4, <2>1, <2>2, <2>4, TakenKeeps
  <1>5. CASE /\ call[c].at # "confirm" /\ UNCHANGED <<switch, client>>
             /\ call' = [call EXCEPT ![c] = Tell(@, "lost")]
    <2>1. ~excused /\ NobodyIsLost => client[Mine(c)].password = switch.password
      BY <1>1, <1>5, AloneKnows
    <2>2. call' = [call EXCEPT ![c] = Tell(call[c], "lost")]
      BY <1>5
    <2>3. QED
      BY <1>1, <1>5, <2>1, <2>2, AnswerKeeps DEF Answers
  <1>6. QED
    BY <1>3, <1>4, <1>5 DEF ConnectionLost

-----------------------------------------------------------------------------

LEMMA NonceExpiresKeeps ==
    ASSUME SwosInv, NonceExpires
    PROVE  SwosInv'
  <1>1. /\ UNCHANGED <<client, pool, call, made, excused>>
        /\ switch'.password = switch.password
        /\ switch' \in [password : Passwords, nonce : Nat]
    BY DEF NonceExpires, SwosInv, TypeInv
  <1>2. TypeInv' /\ WellUsed'
    BY <1>1 DEF SwosInv, TypeInv, WellUsed, Busy, Mine
  <1>3. \A c \in Callers : RefusalIsTrue(call[c])'
    BY <1>1 DEF SwosInv, RefusalIsTrue
  <1>4. ASSUME ~excused'
        PROVE  /\ Alone' /\ InTouch'
               /\ \A c \in Callers : Knows(call[c], client[Mine(c)].password, switch.password)'
    BY <1>1, <1>4 DEF SwosInv, Alone, InTouch, NobodyIsLost, OutOfTouch, Knows, Busy, Mine
  <1>5. QED
    BY <1>2, <1>3, <1>4 DEF SwosInv

LEMMA RestartKeeps ==
    ASSUME SwosInv, Restart
    PROVE  SwosInv'
  <1>1. /\ pool' = 0 /\ call' = [c \in Callers |-> Idle] /\ excused' = TRUE
        /\ UNCHANGED <<switch, client, made>>
    BY DEF Restart
  <1>2. TypeInv'
    BY <1>1, Types, BoundsAssumption DEF SwosInv, TypeInv
  <1>3. WellUsed'
    BY <1>1, Types DEF SwosInv, WellUsed, Busy, Idle
  <1>4. \A c \in Callers : RefusalIsTrue(call[c])'
    BY <1>1 DEF RefusalIsTrue, Idle
  <1>5. QED
    BY <1>1, <1>2, <1>3, <1>4 DEF SwosInv

LEMMA InitEstablishes == Init => SwosInv
  <1> SUFFICES ASSUME Init PROVE SwosInv
    OBVIOUS
  <1>1. /\ pool = 0 /\ call = [c \in Callers |-> Idle] /\ made = 0
        /\ client = [k \in 1 .. MaxCalls |-> NewClient]
        /\ switch \in [password : Passwords, nonce : Nat]
        /\ excused = (switch.password # Configured)
    BY DEF Init
  <1>2. NewClient \in Credentials /\ Idle \in CallType
    <2>1. NewClient \in Credentials
      BY ConfiguredAssumption DEF NewClient, Credentials
    <2>2. QED
      BY <2>1, BoundsAssumption DEF Idle, CallType, Answers, Attempts
  <1>3. TypeInv
    BY <1>1, <1>2, BoundsAssumption DEF TypeInv
  <1>4. WellUsed
    BY <1>1, BoundsAssumption DEF WellUsed, Busy, Idle
  <1>5. \A c \in Callers : RefusalIsTrue(call[c])
    BY <1>1 DEF RefusalIsTrue, Idle
  <1>6. ASSUME ~excused
        PROVE  /\ Alone /\ InTouch
               /\ \A c \in Callers : Knows(call[c], client[Mine(c)].password, switch.password)
    <2>1. \A c \in Callers : call[c].at = "idle" /\ call[c].told = "nothing"
      BY <1>1 DEF Idle
    <2>2. Alone /\ InTouch
      BY <1>1, <1>6, <2>1 DEF Alone, Busy, InTouch
    <2>3. \A c \in Callers : Knows(call[c], client[Mine(c)].password, switch.password)
      BY <2>1 DEF Knows
    <2>4. QED
      BY <2>2, <2>3
  <1>7. QED
    BY <1>3, <1>4, <1>5, <1>6 DEF SwosInv

LEMMA NextKeeps ==
    ASSUME SwosInv, [Next]_vars
    PROVE  SwosInv'
  <1>1. CASE NonceExpires
    BY <1>1, NonceExpiresKeeps
  <1>2. CASE Restart
    BY <1>2, RestartKeeps
  <1>3. ASSUME NEW c \in Callers, Begin(c) \/ Step(c)
        PROVE  SwosInv'
    BY <1>3, BeginKeeps, GrantedKeeps, ChallengedKeeps, ChangedKeeps, TimedOutKeeps,
       ConnectionLostKeeps DEF Step
  <1>4. CASE UNCHANGED vars
    <2>1. TypeInv' /\ WellUsed' /\ \A c \in Callers : RefusalIsTrue(call[c])'
      BY <1>4 DEF vars, SwosInv, TypeInv, WellUsed, RefusalIsTrue, Busy, Mine
    <2>2. ~excused' =>
            /\ Alone' /\ InTouch'
            /\ \A c \in Callers : Knows(call[c], client[Mine(c)].password, switch.password)'
      BY <1>4 DEF vars, SwosInv, Alone, InTouch, NobodyIsLost, OutOfTouch, Knows, Busy, Mine
    <2>3. QED
      BY <2>1, <2>2 DEF SwosInv
  <1>5. QED
    BY <1>1, <1>2, <1>3, <1>4 DEF Next

\* Calls of set_swos_password and of the other tools of a switch, with lost
\* connections, timeouts, forgotten nonces and restarts between any two of
\* their requests, keep the invariant.
THEOREM SwosInvariant == Spec => []SwosInv
  BY InitEstablishes, NextKeeps, PTL DEF Spec

\* What changePassword tells its caller is so: one that refuses the change made
\* none, and one that says the password is changed changed it, when no other
\* call and no restart came between.
THEOREM AnswersAreTrue == Spec => []ToldIsTrue
  <1>1. SwosInv => ToldIsTrue
    BY DEF SwosInv, RefusalIsTrue, Knows, ToldIsTrue
  <1>2. QED
    BY <1>1, SwosInvariant, PTL

\* The client that the connection pool keeps can log in to the switch after any
\* number of changes of the password, made, refused or unconfirmed, unless one
\* of them told its caller otherwise.
THEOREM ClientKeepsInTouch == Spec => []KeepsInTouch
  <1>1. SwosInv => KeepsInTouch
    BY DEF SwosInv, InTouch, NobodyIsLost, Busy, KeepsInTouch
  <1>2. QED
    BY <1>1, SwosInvariant, PTL
=============================================================================

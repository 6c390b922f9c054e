------------------------------ MODULE SwosClient ------------------------------
(* The pooled client of a SwOS switch: digest authentication with a challenge   *)
(* all calls share (SwosClient.send), the change of the admin password          *)
(* (changePassword, set_swos_password), and the pool that rebuilds the client   *)
(* with the configured password after an authentication failure or a restart.   *)
(* The reads before the change are one; a nonce is a number.                    *)
EXTENDS Naturals

CONSTANTS
    Callers,
    Passwords,
    Configured,   \* the password in the server's environment
    MaxCalls,     \* calls made in a behaviour
    MaxNonces,    \* nonces the switch has handed out at most
    None

ASSUME ConfiguredAssumption == Configured \in Passwords
ASSUME BoundsAssumption == MaxCalls \in Nat /\ MaxNonces \in Nat

Attempts == 3     \* of one request

VARIABLES
    switch,      \* [password, nonce]: what the switch accepts now
    client,      \* the clients made so far: [password, challenge]
    pool,        \* the pooled client, 0 when there is none
    call,        \* the call of each caller
    made,        \* calls made so far
    excused      \* history: calls overlapped, the server restarted, or a
                 \* caller was told that it lost the switch

vars == <<switch, client, pool, call, made, excused>>

NewClient == [password |-> Configured, challenge |-> 0]
Idle == [at |-> "idle", client |-> 0, new |-> None, old |-> None, dryRun |-> FALSE,
         attempt |-> 0, auth |-> NewClient, took |-> FALSE, told |-> "nothing"]

Init ==
    /\ switch \in {[password |-> p, nonce |-> 1] : p \in Passwords}
    /\ client = [k \in 1 .. MaxCalls |-> NewClient]
    /\ pool = 0
    /\ call = [c \in Callers |-> Idle]
    /\ made = 0
    /\ excused = (switch.password # Configured)

Busy(c) == call[c].at # "idle"

(* What the caller knows then: a change whose outcome the answer leaves open    *)
(* was made, or the client was thrown away.                                     *)
OutOfTouch(cl) == (cl.took /\ cl.told \in {"unconfirmed", "lost"}) \/ cl.told = "authFailed"

(* getClient: the pooled client, or one with the configured password.  The pool *)
(* compares the configured credentials, never those a change has set.           *)
Begin(c) ==
    /\ ~ Busy(c) /\ made < MaxCalls
    /\ made' = made + 1
    /\ LET k == IF pool = 0 THEN made + 1 ELSE pool IN
       /\ pool' = k
       /\ \E new \in Passwords \cup {None}, dryRun \in BOOLEAN :
            /\ new = None => ~ dryRun
            /\ call' = [call EXCEPT ![c] =
                 [Idle EXCEPT !.at = "get", !.client = k, !.new = new, !.dryRun = dryRun,
                              !.attempt = 1, !.auth = client[k]]]
    /\ excused' = (excused \/ OutOfTouch(call[c]) \/ \E d \in Callers \ {c} : Busy(d))
    /\ UNCHANGED <<switch, client>>

Mine(c) == call[c].client

(* A new request: the first attempt is made with the client as it is.           *)
Request(cl, at, cred) == [cl EXCEPT !.at = at, !.attempt = 1, !.auth = cred]
Tell(cl, told) == [cl EXCEPT !.at = "idle", !.told = told]

Accepted(c) == call[c].auth = [password |-> switch.password, challenge |-> switch.nonce]

(* ROUTER_AUTH_FAILED: the executor drops the client in the pool.               *)
AuthFailed(c, told) ==
    /\ call' = [call EXCEPT ![c] = Tell(@, told)]
    /\ pool' = 0
    /\ UNCHANGED client

(* The change is encoded with the password the client has then.                 *)
Granted(c) ==
    /\ Accepted(c) /\ call[c].at \in {"get", "confirm"}
    /\ call' = [call EXCEPT ![c] =
         IF call[c].at = "confirm" THEN Tell(@, "changed")
         ELSE IF call[c].new = None THEN Tell(@, "read")
         ELSE IF call[c].dryRun THEN Tell(@, "dryRun")
         ELSE [Request(@, "post", client[Mine(c)]) EXCEPT !.old = client[Mine(c)].password]]
    /\ UNCHANGED <<switch, client, pool, made, excused>>

(* Mutant: the client is not put back after a failed confirmation.              *)
RevertForgotten(c) == /\ call' = [call EXCEPT ![c] = Tell(@, "unconfirmed")]
                      /\ UNCHANGED client

(* Neither password is known to work: back to the one before.                   *)
Revert(c) ==
    /\ call' = [call EXCEPT ![c] = Tell(@, "unconfirmed")]
    /\ client' = [client EXCEPT ![Mine(c)] = [password |-> call[c].old, challenge |-> 0]]

TryAgain(c) == call[c].attempt < Attempts

(* 401 with a challenge, which replaces the one all calls share.                *)
Challenged(c) ==
    /\ Busy(c) /\ ~ Accepted(c)
    /\ \/ /\ TryAgain(c)
          /\ client' = [client EXCEPT ![Mine(c)].challenge = switch.nonce]
          /\ call' = [call EXCEPT ![c].attempt = IF @ < Attempts THEN @ + 1 ELSE @,
                                  ![c].auth = client'[Mine(c)]]
          /\ UNCHANGED pool
       \/ /\ ~ TryAgain(c) /\ call[c].at = "confirm"
          /\ Revert(c)
          /\ UNCHANGED pool
       \/ /\ ~ TryAgain(c) /\ call[c].at # "confirm"
          /\ AuthFailed(c, "authFailed")
    /\ UNCHANGED <<switch, made, excused>>

(* The change is answered.  405: the switch has another password than the one   *)
(* the change names.                                                            *)
Changed(c) ==
    /\ call[c].at = "post" /\ Accepted(c)
    /\ \/ /\ call[c].old = switch.password
          /\ switch' = [switch EXCEPT !.password = call[c].new]
          /\ client' = [client EXCEPT ![Mine(c)] = [password |-> call[c].new, challenge |-> 0]]
          /\ call' = [call EXCEPT ![c] = [Tell(@, "changed") EXCEPT !.took = TRUE]]
          /\ UNCHANGED pool
       \/ /\ call[c].old # switch.password
          /\ AuthFailed(c, "wrong")
          /\ UNCHANGED switch
    /\ UNCHANGED <<made, excused>>

(* Mutant: the login that confirms the change is made with the old password.    *)
OldCredentials(c) == [password |-> call[c].old, challenge |-> 0]
NewCredentials(c) == [password |-> call[c].new, challenge |-> 0]

(* No answer in time; the switch may have taken the change.                     *)
TimedOut(c) ==
    /\ Busy(c)
    /\ CASE call[c].at = "get" ->
              /\ call' = [call EXCEPT ![c] = Tell(@, "failed")]
              /\ UNCHANGED <<switch, client>>
         [] call[c].at = "confirm" -> Revert(c) /\ UNCHANGED switch
         [] call[c].at = "post" ->
              LET cred == NewCredentials(c) IN
              /\ \/ /\ Accepted(c) /\ call[c].old = switch.password
                    /\ switch' = [switch EXCEPT !.password = call[c].new]
                    /\ call' = [call EXCEPT ![c] = [Request(@, "confirm", cred) EXCEPT !.took = TRUE]]
                 \/ /\ UNCHANGED switch
                    /\ call' = [call EXCEPT ![c] = Request(@, "confirm", cred)]
              /\ client' = [client EXCEPT ![Mine(c)] = cred]
    /\ UNCHANGED <<pool, made, excused>>

(* The connection is lost: an error, and no second look.                        *)
ConnectionLost(c) ==
    /\ Busy(c)
    /\ IF call[c].at = "confirm" THEN Revert(c) /\ UNCHANGED switch
       ELSE /\ \/ /\ call[c].at = "post" /\ Accepted(c) /\ call[c].old = switch.password
                  /\ switch' = [switch EXCEPT !.password = call[c].new]
                  /\ call' = [call EXCEPT ![c] = [Tell(@, "lost") EXCEPT !.took = TRUE]]
               \/ /\ UNCHANGED switch
                  /\ call' = [call EXCEPT ![c] = Tell(@, "lost")]
            /\ UNCHANGED client
    /\ UNCHANGED <<pool, made, excused>>

(* The switch forgets the nonce it handed out.                                  *)
NonceExpires ==
    /\ switch.nonce < MaxNonces
    /\ switch' = [switch EXCEPT !.nonce = @ + 1]
    /\ UNCHANGED <<client, pool, call, made, excused>>

Restart ==
    /\ pool # 0
    /\ pool' = 0
    /\ call' = [c \in Callers |-> Idle]
    /\ excused' = TRUE
    /\ UNCHANGED <<switch, client, made>>

Step(c) == Granted(c) \/ Challenged(c) \/ Changed(c) \/ TimedOut(c) \/ ConnectionLost(c)
Next == NonceExpires \/ Restart \/ \E c \in Callers : Begin(c) \/ Step(c)
Spec == Init /\ [][Next]_vars

----------------------------------------------------------------------------
(* What the caller is told of a change is so (changePassword's answers).  One   *)
(* that refuses it is right whatever else goes on; one that says it was made    *)
(* and that this server now authenticates with the new password, when no other  *)
(* call overlapped it.  A timeout or a lost connection leaves it open.          *)
ToldIsTrue ==
    \A c \in Callers :
      LET cl == call[c] IN
      /\ cl.told \in {"dryRun", "authFailed", "wrong", "failed"} => ~ cl.took
      /\ cl.told = "changed" /\ ~ excused => cl.took \/ cl.new = cl.old

(* The pooled client has the password of a switch the server could reach,       *)
(* however many changes it made, failed to make or could not confirm            *)
(* (changePassword's credentials, restored or kept), unless calls overlapped,   *)
(* the server restarted, or a caller was told that the switch may have another. *)
KeepsInTouch ==
    (~ excused /\ \A c \in Callers : ~ Busy(c) /\ ~ OutOfTouch(call[c]))
      => (pool # 0 => client[pool].password = switch.password)
=============================================================================

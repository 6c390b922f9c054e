------------------------------ MODULE ManageTools ------------------------------
(* Calls of one RouterOS tool (ToolHandlers) to one menu of one router by       *)
(* callers who know nothing of each other: two sessions, or a router named      *)
(* twice to bulk_execute.  Each handler reads the menu, decides on what it read *)
(* and sends its request later: nothing holds the menu in between.              *)
(*                                                                              *)
(* A record of the menu is reduced to its key, the field the add compares       *)
(* (main), one the tool writes and need not compare (side; a password, a skin)  *)
(* and whether it is off (disabled, stopped, untrusted, dynamic).  A route's    *)
(* side is its table ("old" is the table main), the clock's main field is its   *)
(* time.  The code between two awaits is one action; the router applies a       *)
(* request at one moment of the await, or refuses it, or its answer is lost.    *)
EXTENDS Naturals, Sequences, FiniteSets

CONSTANTS
    Handlers,     \* the handlers that are called, each as in ToolHandlers
    Idempotent,   \* those whose annotation says idempotentHint
    Callers,
    MaxCalls,     \* calls made in a behaviour
    None          \* an argument that is not given

ASSUME MaxCallsAssumption == MaxCalls \in Nat

Finds == {"find", "findValue", "findTable"}
Writes == {"create", "update", "switch", "remove", "execute"}

Uses(h, step) == \E a \in DOMAIN h : \E i \in DOMAIN h[a] : h[a][i] = step
(* A DNS name has one record for each value, a watched host one for each port.  *)
OnePerMain(h) == Uses(h, "samePort") \/ Uses(h, "sameAny")
(* Each routing table has a route of its own to a destination.                  *)
OnePerTable(h) == Uses(h, "findTable")
(* The system clock's time moves on.                                            *)
RunsOn(h) == Uses(h, "unchangedNow")

(* A program has one request that writes, at its end, and its only look at the  *)
(* menu comes before its other requests.                                        *)
LooksFirst(h) ==
    \A a \in DOMAIN h :
        /\ h[a] \in Seq(STRING) /\ h[a] # <<>>
        /\ \A i \in DOMAIN h[a] : h[a][i] \in Writes <=> i = Len(h[a])
        /\ \A i, j \in DOMAIN h[a] :
             h[a][i] \in Finds /\ h[a][j] \in Finds \cup Writes \cup {"clear"} => i <= j

(* Whoever adds a record has looked, and goes on only when nothing is there     *)
(* that has the new record's identity, or when he has removed it.               *)
Refusals == {"exists", "conflict", "samePort", "clear"}
AddsLook(h) ==
    \A a \in DOMAIN h : \A i \in DOMAIN h[a] :
        h[a][i] = "create" =>
            \E f, g \in 1 .. i - 1 :
                f < g /\ h[a][f] \in {"find", "findTable"} /\ h[a][g] \in Refusals

(* After the dry run's answer nothing is checked, but for the update of a group *)
(* that names no field.                                                         *)
ChecksBeforePreview(h) ==
    \A a \in DOMAIN h : \A i, j \in DOMAIN h[a] :
        h[a][i] = "preview" /\ i < j => h[a][j] \in Finds \cup Writes \cup {"clear", "empty"}

(* Where the main field or the table is part of the identity nothing changes    *)
(* it, and nothing is cleared; a main field that is not is not looked up.       *)
IdentityStays(h) ==
    /\ OnePerMain(h) \/ OnePerTable(h) =>
         ~ Uses(h, "update") /\ ~ Uses(h, "clear") /\ ~ RunsOn(h)
    /\ ~ OnePerMain(h) => ~ Uses(h, "findValue")

(* What an update compares before it writes.                                    *)
Comparisons ==
    {"unchanged", "unchangedNow", "unchangedNoSecret", "unchangedMain", "unchangedState"}

(* A step answers for one kind of action; only a removal looks by value, and    *)
(* what is cleared is followed by the write.  A removal for which nothing       *)
(* counts as removed is of records that all have a key.                         *)
StepsSuit(h) ==
    /\ \A a \in DOMAIN h : \A i \in DOMAIN h[a] :
         /\ h[a][i] \in {"create", "exists", "same", "sameGiven", "sameState", "sameAny", "samePort"}
              => a = "add"
         /\ h[a][i] \in {"remove", "gone", "findValue"} => a = "remove"
         /\ h[a][i] = "findTable" => a \in {"add", "remove"}
         /\ h[a][i] \in {"switch", "switched"} => a \in {"switchOn", "switchOff"}
         /\ h[a][i] \in {"update", "empty"} \cup Comparisons => a \in {"update", "set"}
         /\ h[a][i] = "execute" => a = "run"
         /\ h[a][i] \in {"remove", "switch", "update"} => ~ Uses(h, "clear")
         /\ \A k \in DOMAIN h[a] :
              /\ h[a][i] = "clear" /\ i < k => h[a][k] \in Writes
              /\ h[a][i] = "sameState" => h[a][k] \notin {"same", "sameGiven", "sameAny", "samePort"}
              /\ h[a][i] = "unchangedState" =>
                   h[a][k] \notin {"empty"} \cup (Comparisons \ {"unchangedState"})
         /\ h[a][i] = "create" /\ Uses(h, "gone") /\ Uses(h, "keyed")
              => \E k \in 1 .. i - 1 : h[a][k] = "keyed"

ASSUME IdempotentAssumption ==
    Idempotent \subseteq Handlers /\ \A h \in Idempotent : ~ Uses(h, "clear")
ASSUME HandlersAssumption ==
    \A h \in Handlers :
        /\ LooksFirst(h) /\ AddsLook(h) /\ ChecksBeforePreview(h)
        /\ IdentityStays(h) /\ StepsSuit(h)

VARIABLES
    handler,      \* the handler under study
    menu,         \* the records of the menu, which the router lists by their ids
    call,         \* the last call of each caller
    lastId,       \* the id the router gave out last
    made,         \* calls made so far
    lastWrite,    \* history: the request the router applied last, unless its
                  \* call had read an older menu or several records
    forecast,     \* history: the last dry run's request and answer, until
                  \* the menu is written
    raced         \* history: a record was made by a call whose read was stale

toolsVars == <<handler, menu, call, lastId, made, lastWrite, forecast, raced>>

Steps(r) == handler[r.action]
Has(action, step) == \E i \in DOMAIN handler[action] : handler[action][i] = step
HasAny(step) == Uses(handler, step)

TheKey == "key"
BadName == "b ad"
ASSUME NoneAssumption == None \notin {TheKey, BadName}
Values == {"a", "b"}
Given(value, default) == IF value = None THEN default ELSE value

(* What the callers ask for: the arguments the action looks at.                 *)
Keys == {TheKey} \cup (IF HasAny("keyed") THEN {None} ELSE {})
                 \cup (IF HasAny("named") THEN {BadName} ELSE {})
Mains(action) ==
    {None} \cup (IF action \in {"add", "update", "set"} \/ Has(action, "findValue") THEN Values ELSE {})
           \cup (IF Has(action, "addOnly") \/ Has(action, "arguments") THEN {"a"} ELSE {})
Sides(action) ==
    {None} \cup (IF Has(action, "findTable") THEN {"old"} ELSE {})
           \cup (IF \/ action \in {"update", "set"}
                    \/ Has(action, "secret") \/ Has(action, "findTable") THEN {"s"} ELSE {})
Offs(action) ==
    IF \E s \in {"sameState", "sameAny", "unchangedState"} : Has(action, s) THEN BOOLEAN ELSE {FALSE}
ToolCalls ==
    UNION {[action : {a}, key : Keys, main : Mains(a), side : Sides(a), off : Offs(a),
            dryRun : IF Has(a, "preview") THEN BOOLEAN ELSE {FALSE}] : a \in DOMAIN handler}

(* Mutant: a lookup that passes over what is disabled.                          *)
FoundEnabled(r) == {rec \in menu : rec.key = r.key /\ r.key # None /\ ~ rec.off}

Found(r) == {rec \in menu : rec.key = r.key /\ r.key # None}

(* Mutant: a dry run that does not look at the value.                           *)
FoundAnyWhenDry(r) == {rec \in Found(r) : r.dryRun \/ r.main \in {None, rec.main}}

FoundValue(r) == {rec \in Found(r) : r.main \in {None, rec.main}}
FoundTable(r) == {rec \in Found(r) : r.side \in {None, rec.side}}

(* What the handler keeps of the menu it reads.                                 *)
Sought(r, step) ==
    IF step = "find" THEN Found(r) ELSE IF step = "findValue" THEN FoundValue(r) ELSE FoundTable(r)
First(found) == CHOOSE rec \in found : \A other \in found : rec.id <= other.id

----------------------------------------------------------------------------
(* The steps that only look at the arguments and at what was found.             *)

(* Mutant: a difference that is overlooked.                                     *)
UnchangedMain(r, rec) == Given(r.main, rec.main) = rec.main

Unchanged(r, rec) == Given(r.main, rec.main) = rec.main /\ Given(r.side, rec.side) = rec.side

(* Does the check end the call?                                                 *)
Ends(step, r, found) ==
    \/ step = "arguments" /\ r.main = None
    \/ step = "addOnly" /\ r.main # None
    \/ step = "secret" /\ r.side = None
    \/ step \in {"given", "empty"} /\ r.main = None /\ r.side = None
    \/ step = "keyed" /\ r.key = None
    \/ step = "named" /\ r.key = BadName
    \/ step \in {"gone", "missing"} /\ found = {}
    \/ step = "ambiguous" /\ Cardinality(found) > 1
    \/ step = "preview" /\ r.dryRun
    \/ /\ found # {}
       /\ LET rec == First(found) IN
          \/ step \in {"exists", "conflict"}
          \/ step = "same" /\ r.main = rec.main
          \/ step = "sameGiven" /\ r.main \in {None, rec.main}
          \/ step = "sameState" /\ r.main = rec.main /\ r.off = rec.off
          \/ step = "sameAny" /\ \E any \in found : any.main = r.main /\ any.off = r.off
          \/ step = "samePort" /\ \E any \in found : any.main = r.main
          \/ step = "otherPort" /\ r.main # None /\ r.main # rec.main
          \/ step = "switched" /\ rec.off = (r.action = "switchOff")
          \/ step \in {"unchanged", "unchangedNow"} /\ Unchanged(r, rec)
          \/ step = "unchangedState" /\ Unchanged(r, rec) /\ r.off = rec.off
          \/ step = "unchangedNoSecret" /\ Unchanged(r, rec) /\ r.side = None
          \/ step = "unchangedMain" /\ r.main = rec.main

Answer(step) ==
    CASE step \in {"exists", "same", "sameGiven", "sameState", "sameAny", "samePort"} -> "exists"
      [] step \in {"conflict", "otherPort"} -> "conflict"
      [] step \in {"switched", "empty"} \cup Comparisons -> "noChange"
      [] step \in {"gone", "missing", "ambiguous", "preview"} -> step
      [] OTHER -> "invalid"

Waits(step, found) == step \in Finds \cup Writes \/ (step = "clear" /\ found # {})

Told(answer) == [req |-> None, at |-> 0, found |-> {}, stale |-> FALSE, told |-> answer]

(* Where a call gets to from step i of its handler without waiting: the next    *)
(* request, or an answer.                                                       *)
Advance(r, i, found) ==
    LET steps == Steps(r)
        stop  == CHOOSE j \in i .. Len(steps) :
                   /\ Waits(steps[j], found) \/ Ends(steps[j], r, found)
                   /\ \A k \in i .. j - 1 : ~ (Waits(steps[k], found) \/ Ends(steps[k], r, found))
    IN IF Waits(steps[stop], found)
       THEN [req |-> r, at |-> stop, found |-> found, stale |-> FALSE, told |-> "nothing"]
       ELSE Told(Answer(steps[stop]))

Pending(c) == call[c].at # 0
StepOf(c) == Steps(call[c].req)[call[c].at]

----------------------------------------------------------------------------
Record(id, main) == [id |-> id, key |-> TheKey, main |-> main, side |-> "old", off |-> FALSE]
Menus ==
    IF "set" \in DOMAIN handler THEN {{Record(0, "a")}}
    ELSE {{}, {Record(0, "a")} \cup (IF HasAny("findValue") THEN {Record(1, "b")} ELSE {})}

ToolsInit ==
    /\ handler \in Handlers
    /\ menu \in Menus
    /\ call = [c \in Callers |-> Told("nothing")]
    /\ lastId = 1
    /\ made = 0
    /\ lastWrite = <<>>
    /\ forecast = <<>>
    /\ raced = FALSE

Remember(r, next) ==
    forecast' = IF r.dryRun /\ next.told \notin {"nothing", "failed"}
                THEN <<[r EXCEPT !.dryRun = FALSE], next.told>> ELSE forecast

Begin(c) ==
    /\ ~ Pending(c) /\ made < MaxCalls
    /\ \E r \in ToolCalls :
         LET next == Advance(r, 1, {}) IN
         call' = [call EXCEPT ![c] = next] /\ Remember(r, next)
    /\ made' = made + 1
    /\ UNCHANGED <<handler, menu, lastId, lastWrite, raced>>

Find(c) ==
    /\ Pending(c) /\ StepOf(c) \in Finds
    /\ LET r     == call[c].req
           found == Sought(r, StepOf(c))
           next  == Advance(r, call[c].at + 1, found)
       IN call' = [call EXCEPT ![c] = next] /\ Remember(r, next)
    /\ UNCHANGED <<handler, menu, lastId, made, lastWrite, raced>>

(* What the router makes of the request.  An update that was compared sends     *)
(* only what differed from the record that was read.                            *)
Sent(r, field, rec) ==
    /\ r[field] # None
    /\ \/ ~ \E s \in Comparisons \ {"unchangedMain"} : Has(r.action, s)
       \/ r[field] # rec[field]
Written(rec, r, read) ==
    [rec EXCEPT !.main = IF Sent(r, "main", read) THEN r.main ELSE @,
                !.side = IF Sent(r, "side", read) THEN r.side ELSE @,
                !.off  = IF Has(r.action, "unchangedState") /\ r.off # read.off THEN r.off ELSE @]

Changed(rec, c) ==
    LET r == call[c].req IN
    IF StepOf(c) = "switch" THEN [rec EXCEPT !.off = (r.action = "switchOff")]
                            ELSE Written(rec, r, First(call[c].found))

Effect(c) ==
    LET r == call[c].req  step == StepOf(c)  target == First(call[c].found).id
    IN CASE step = "create"  -> menu \cup {[id |-> lastId + 1, key |-> r.key, main |-> r.main,
                                            side |-> Given(r.side, "old"), off |-> r.off]}
         [] step \in {"remove", "clear"} -> {rec \in menu : rec.id # target}
         [] step \in {"switch", "update"} ->
                {IF rec.id = target THEN Changed(rec, c) ELSE rec : rec \in menu}
         [] step = "execute" -> menu

(* A request names the record by the id that was read: the router refuses it    *)
(* when that record is gone.                                                    *)
TargetExists(c) ==
    StepOf(c) \notin {"create", "execute"} =>
        call[c].found # {} /\ \E rec \in menu : rec.id = First(call[c].found).id

After(c) ==
    IF StepOf(c) = "clear" THEN
        LET found == call[c].found IN Advance(call[c].req, call[c].at, found \ {First(found)})
    ELSE Told("done")

Apply(c) ==
    /\ Pending(c) /\ StepOf(c) \in Writes \cup {"clear"}
    /\ TargetExists(c)
    /\ menu' = Effect(c)
    /\ lastId' = IF StepOf(c) = "create" THEN lastId + 1 ELSE lastId
    /\ \E next \in {After(c), Told("failed")} :
         call' = [d \in Callers |->
                    IF d = c THEN next
                    ELSE [call[d] EXCEPT !.stale = @ \/ (Pending(d) /\ StepOf(d) \notin Finds)]]
    /\ lastWrite' = IF call[c].stale \/ Cardinality(call[c].found) > 1 THEN <<>>
                    ELSE <<call[c].req>>
    /\ raced' = (raced \/ (StepOf(c) = "create" /\ call[c].stale))
    /\ forecast' = <<>>
    /\ UNCHANGED <<handler, made>>

(* The router does not answer, or refuses the request.                          *)
Fail(c) ==
    /\ Pending(c)
    /\ call' = [call EXCEPT ![c] = Told("failed")]
    /\ UNCHANGED <<handler, menu, lastId, made, lastWrite, forecast, raced>>

(* The router's clock runs; a call that has read it knows an older time.        *)
ClockRuns ==
    /\ RunsOn(handler)
    /\ \E time \in Values : menu' = {[rec EXCEPT !.main = time] : rec \in menu}
    /\ call' = [c \in Callers |->
                  [call[c] EXCEPT !.stale = @ \/ (Pending(c) /\ StepOf(c) \notin Finds)]]
    /\ forecast' = <<>>
    /\ UNCHANGED <<handler, lastId, made, lastWrite, raced>>

ToolsNext == ClockRuns \/ \E c \in Callers : Begin(c) \/ Find(c) \/ Apply(c) \/ Fail(c)
ToolsSpec == ToolsInit /\ [][ToolsNext]_toolsVars

----------------------------------------------------------------------------
(* The table a route is added to.                                               *)
TableOf(r) == Given(r.side, "old")

(* Two records of one identity appear only when two calls overlap: every        *)
(* handler that adds looks first.  A rule without a comment has no identity.    *)
Identity(rec) == <<rec.key, IF OnePerMain(handler) THEN rec.main ELSE None,
                            IF OnePerTable(handler) THEN rec.side ELSE None>>
TwinsNeedOverlap ==
    ~ raced => \A rec, other \in menu :
                 rec # other /\ rec.key # None => Identity(rec) # Identity(other)

(* A request the router has applied, made again with no other write in between. *)
(* Excepted are a filter or NAT rule without a comment, and a key with several  *)
(* records, of which a removal takes one after the other.                       *)
Repeats(c) ==
    /\ handler \in Idempotent /\ lastWrite = <<call[c].req>> /\ Pending(c)
    /\ ~ call[c].stale /\ call[c].req.key # None /\ call'[c].at # call[c].at

(* What idempotentHint says: a request the router has applied, made again -     *)
(* because its answer was lost, or by habit - leaves the menu as it is.         *)
(* Excepted is set_system_clock, whose time has moved on.                       *)
RetryChangesNothing ==
    [][\A c \in Callers : Repeats(c) /\ ~ RunsOn(handler) => menu' = menu]_toolsVars

(* The same of every handler with the hint.  Refuted: set_system_clock given a  *)
(* time sets the clock back to it when it is called again.                      *)
ClockRetryChangesNothing ==
    [][\A c \in Callers : Repeats(c) => menu' = menu]_toolsVars

Vouches(r, told) == told = "done" \/ ~ Has(r.action, "exists")
Holds(r, m, told) ==
    LET recs == {rec \in m : rec.key = r.key} IN
    CASE r.action = "add" ->
           \E rec \in recs : Vouches(r, told) =>
              /\ r.main = rec.main \/ (told = "exists" /\ r.main = None)
              /\ Has(r.action, "sameState") => r.off = rec.off
              /\ Has(r.action, "findTable") => TableOf(r) = rec.side
      [] r.action = "remove" ->
           \A rec \in recs : \/ r.main \notin {None, rec.main}
                             \/ Has(r.action, "findTable") /\ TableOf(r) # rec.side
      [] r.action \in {"switchOn", "switchOff"} -> \A rec \in recs : rec.off = (r.action = "switchOff")
      [] r.action \in {"update", "set"} ->
           \A rec \in recs : /\ Given(r.main, rec.main) = rec.main
                             /\ told = "done" \/ ~ Has(r.action, "unchangedMain")
                                  => Given(r.side, rec.side) = rec.side
                             /\ Has(r.action, "unchangedState") => r.off = rec.off
      [] OTHER -> TRUE

(* Caller c is told of a success, and it is true: the record asked for is there *)
(* with every field the handler vouches for, the one to be removed is gone.     *)
(* Excepted are calls that another call's write, or the clock, overlapped, and  *)
(* a key with several records, of which a removal takes the first.              *)
Truthful(c) ==
    LET r == call[c].req
        told == call'[c].told
        found == IF StepOf(c) \in Finds THEN Sought(r, StepOf(c)) ELSE call[c].found IN
    /\ Pending(c) /\ told \in {"done", "exists", "noChange", "gone"}
    /\ ~ call[c].stale /\ Cardinality(found) <= 1
    => Holds(r, menu', told)

(* An add of a route that names no table takes one of another table for it.     *)
AddsToAnyTable(r) == r.action = "add" /\ Has("add", "findTable") /\ r.side = None

(* A success is true when it is told, but for an add of a route that names no   *)
(* table.                                                                       *)
SuccessIsTrue ==
    [][\A c \in Callers : Pending(c) /\ ~ AddsToAnyTable(call[c].req) => Truthful(c)]_toolsVars

(* The same of every call.  Refuted: a route that is to go to the table main    *)
(* "already exists" when another table has it.                                  *)
RouteSuccessIsTrue == [][\A c \in Callers : Truthful(c)]_toolsVars

(* The table is main when none is named.  Refuted: a removal that names no      *)
(* table removes a route of another one.                                        *)
OtherTablesAreKept ==
    [][\A c \in Callers :
         /\ Pending(c) /\ OnePerTable(handler) /\ call[c].req.side = None
         /\ call'[c].at # call[c].at
         => \A rec \in menu : rec.side # "old" => rec \in menu']_toolsVars

(* A dry run says what the call does: of the same request on the same menu the  *)
(* call gets to a write exactly when the dry run said it would, and else gives  *)
(* the same answer.  Excepted is the update of a group that names no field.     *)
PreviewForecasts ==
    [][\A c \in Callers :
         LET r    == call[c].req
             next == call'[c] IN
         /\ Pending(c) /\ StepOf(c) \in Finds /\ next.at # call[c].at /\ next.told # "failed"
         /\ forecast # <<>> /\ forecast[1] = r
         => IF next.at # 0 THEN forecast[2] = "preview"
            ELSE next.told = forecast[2] \/ (Has(r.action, "empty") /\ Ends("empty", r, {}))
        ]_toolsVars
=============================================================================

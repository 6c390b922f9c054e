------------------------------ MODULE SwosConfig ------------------------------
(* Writing the configuration of a SwOS switch: apply_swos_config with the plan  *)
(* it makes (domain/swos/switch-config.ts), write_swos_blob, and the restore of *)
(* SwOS snapshots by rollback_change.  A switch takes whole endpoints only, one *)
(* POST each, so every writer reads, merges and posts, and may fail in between. *)
(*                                                                              *)
(* Of a port the model keeps what decides which frames pass: VLAN mode, receive *)
(* mode, default VLAN, forced VLAN, and `on`, which stands for the settings     *)
(* whose every change on a linked port is a risk (enabled, negotiation, link    *)
(* aggregation, isolation; link.b and lacp.b).  snmp stands for the settings    *)
(* that reach no port.  Conversions to the wire are not modelled.               *)
EXTENDS Naturals, Sequences, SequencesExt, TLC

CONSTANTS
    Ports, Linked,   \* the ports, and those with a link
    Callers,
    Scenes,          \* what is looked at: where it starts, who asks for what
    Starts,          \* [Scenes -> SUBSET Switch]
    Asks,            \* [Scenes -> [Callers -> SUBSET Request]]
    None             \* an argument that is not given

CONFIG_ENDPOINTS == <<"vlan", "fwd", "link", "snmp", "sys">>
Endpoints == ToSet(CONFIG_ENDPOINTS)

ASSUME LinkedAssumption == Linked \subseteq Ports
ASSUME StartsAssumption == \A s \in Scenes : \A start \in Starts[s] : DOMAIN start = Endpoints
ASSUME AsksAssumption ==
    \A s \in Scenes : \A c \in Callers : \A req \in Asks[s][c] :
      \/ req.kind = "apply"
      \/ req.kind = "blob" /\ req.endpoint \in Endpoints

VARIABLES
    scene,
    switch,     \* the configuration of the switch, by endpoint
    call,       \* the call of each caller
    base,       \* the snapshot: the switch as each call found it
    disturbed   \* history: the endpoints others have written since

vars == <<scene, switch, call, base, disturbed>>

(* What an endpoint that has not been read counts as.                           *)
Unread == [vlan |-> <<>>,
           fwd  |-> [p \in Ports |-> [mode |-> "optional", recv |-> "any", dvid |-> 1, force |-> FALSE]],
           link |-> [p \in Ports |-> TRUE],
           snmp |-> None,
           sys  |-> [vlan |-> 0, ports |-> Ports]]

Idle == [at |-> "idle", req |-> None, read |-> Unread, todo |-> <<>>, writes |-> <<>>,
         goal |-> None, written |-> {}, failedAt |-> None, told |-> "nothing",
         from |-> None]   \* history: the switch as this write found it

Init ==
    /\ scene \in Scenes
    /\ switch \in Starts[scene]
    /\ call = [c \in Callers |-> Idle]
    /\ base = [c \in Callers |-> switch]
    /\ disturbed = [c \in Callers |-> {}]

----------------------------------------------------------------------------
(* The plan: the document merged into what was read.                            *)

(* The fields of f replace those of rec.                                        *)
Merge(f, rec) == [k \in DOMAIN rec |-> IF k \in DOMAIN f THEN f[k] ELSE rec[k]]

PlannedTable(doc, table) ==
    IF doc.vlans = None THEN table ELSE IF doc.prune THEN doc.vlans ELSE doc.vlans @@ table

Planned(doc, read) ==
    [vlan |-> PlannedTable(doc, read.vlan),
     fwd  |-> [p \in Ports |-> IF p \in DOMAIN doc.ports THEN Merge(doc.ports[p], read.fwd[p])
                               ELSE read.fwd[p]],
     link |-> [p \in Ports |-> IF p \in DOMAIN doc.ports /\ "on" \in DOMAIN doc.ports[p]
                               THEN doc.ports[p].on ELSE read.link[p]],
     snmp |-> IF doc.snmp = None THEN read.snmp ELSE doc.snmp,
     sys  |-> Merge(doc.system, read.sys)]

Members(table, v) == IF v \in DOMAIN table THEN table[v] ELSE {}
Union(t, u) == [v \in DOMAIN t \cup DOMAIN u |-> Members(t, v) \cup Members(u, v)]
Shrinks(from, to) == \E v \in DOMAIN from : v \notin DOMAIN to \/ ~ (from[v] \subseteq to[v])

Step(endpoint, value, phase) == [endpoint |-> endpoint, value |-> value, phase |-> phase]
StepIf(condition, step) == IF condition THEN <<step>> ELSE <<>>

(* Mutant: the table is written once, at its place in CONFIG_ENDPOINTS.         *)
WritesTableFirst(from, to) ==
    LET apply(ep) == StepIf(from[ep] # to[ep], Step(ep, to[ep], "apply")) IN
    StepIf(from.vlan # to.vlan, Step("vlan", to.vlan, "grow"))
      \o apply("fwd") \o apply("link") \o apply("snmp") \o apply("sys")

(* The table grows before the settings of the ports, and shrinks after them.    *)
Writes(from, to) ==
    LET shrinks == Shrinks(from.vlan, to.vlan)
        grown == IF shrinks THEN Union(from.vlan, to.vlan) ELSE to.vlan
        apply(ep) == StepIf(from[ep] # to[ep], Step(ep, to[ep], "apply")) IN
    StepIf(grown # from.vlan, Step("vlan", grown, "grow"))
      \o apply("fwd") \o apply("link") \o apply("snmp")
      \o StepIf(shrinks, Step("vlan", to.vlan, "shrink"))
      \o apply("sys")

(* Mutant: the snapshots in the order of CONFIG_ENDPOINTS.                      *)
RestoreInOrder(table, snapshot) ==
    [i \in DOMAIN CONFIG_ENDPOINTS |->
       Step(CONFIG_ENDPOINTS[i], snapshot[CONFIG_ENDPOINTS[i]], "apply")]

(* The restore of a snapshot: every endpoint, the table first with both.        *)
RestoreWrites(table, snapshot) ==
    << Step("vlan", Union(table, snapshot.vlan), "grow") >>
      \o [i \in 1 .. 5 |->
            LET ep == <<"fwd", "link", "vlan", "snmp", "sys">>[i] IN Step(ep, snapshot[ep], "apply")]

----------------------------------------------------------------------------
(* lockoutRisks: what the plan b -> a would cut off on ports with a link.       *)

ManagementRisks(sys, table) ==
    IF sys.vlan = 0 THEN {}
    ELSE IF sys.vlan \notin DOMAIN table THEN {<<"management VLAN not in the table", sys.vlan>>}
    ELSE LET out == (sys.ports \cap Linked) \ table[sys.vlan] IN
         IF out = {} THEN {} ELSE {<<"management ports not in its VLAN", sys.vlan, out>>}

AllowFromPortRisks(sys) ==
    IF sys.ports \cap Linked = {} THEN {<<"management from no linked port", sys.ports>>} ELSE {}

UntaggedRisk(s, p) ==
    LET port == s.fwd[p] IN
    /\ s.link[p] /\ port.recv # "only_tagged"
    /\ \/ port.mode = "strict"  /\ p \notin Members(s.vlan, port.dvid)
       \/ port.mode = "enabled" /\ port.dvid \notin DOMAIN s.vlan
UntaggedRisks(s) == {<<"untagged", p, s.fwd[p].dvid, s.fwd[p].mode>> : p \in {q \in Linked : UntaggedRisk(s, q)}}

UntaggedVid(port) == IF port.recv = "only_tagged" THEN {} ELSE {port.dvid}
TaggedVlans(s, p) == {v \in DOMAIN s.vlan : p \in s.vlan[v]}
(* The tagged VLANs a trunk carries today that it would lose.                   *)
LostVlans(b, a, p) ==
    LET carried == TaggedVlans(b, p) \ (UntaggedVid(b.fwd[p]) \cup UntaggedVid(a.fwd[p])) IN
    IF a.fwd[p].recv = "only_untagged" THEN carried ELSE carried \ TaggedVlans(a, p)

PortRisk(b, a, p) ==
    LET was == b.fwd[p]  port == a.fwd[p]
        live == b.link[p] /\ a.link[p] /\ port.mode # "disabled" IN
    \/ was.recv # "only_tagged" /\ port.recv = "only_tagged"
    \/ /\ live /\ was.mode # "disabled" /\ was.recv # "only_untagged"
       /\ LostVlans(b, a, p) # {}
    \/ live /\ port.recv # "only_tagged" /\ was.dvid # port.dvid
    \/ live /\ was.mode = "disabled"
    \/ live /\ ~ was.force /\ port.force
    \/ b.link[p] /\ ~ a.link[p]

Risks(b, a) ==
    (ManagementRisks(a.sys, a.vlan) \ ManagementRisks(b.sys, b.vlan))
      \cup (AllowFromPortRisks(a.sys) \ AllowFromPortRisks(b.sys))
      \cup {<<"port", p>> : p \in {q \in Linked : PortRisk(b, a, q)}}
      \cup (UntaggedRisks(a) \ UntaggedRisks(b))

----------------------------------------------------------------------------
(* A document that moves management to a VLAN and changes where frames go.      *)
ChangesVlans(b, a) ==
    \/ \E p \in Ports : a.fwd[p] # b.fwd[p]
    \/ \E v \in DOMAIN a.vlan \cup DOMAIN b.vlan :
         (v \in DOMAIN a.vlan) # (v \in DOMAIN b.vlan) \/ Members(a.vlan, v) # Members(b.vlan, v)
Unordered(b, a) == a.sys.vlan # b.sys.vlan /\ a.sys.vlan > 0 /\ ChangesVlans(b, a)

(* Mutant: the risks are judged, and not acted upon.                            *)
RefusalUnwarned(req, read, goal) ==
    IF Unordered(read, goal) /\ ~ req.dryRun THEN "unordered"
    ELSE IF goal.sys # read.sys /\ ~ req.include THEN "management"
    ELSE "none"

Refusal(req, read, goal) ==
    IF Unordered(read, goal) /\ ~ req.dryRun THEN "unordered"
    ELSE IF goal.sys # read.sys /\ ~ req.include THEN "management"
    ELSE IF Risks(read, goal) # {} /\ ~ req.dryRun /\ ~ req.accept THEN "lockout"
    ELSE "none"

EndpointsToRead(req) ==
    CASE req.kind = "apply" ->
           (IF req.vlans # None \/ DOMAIN req.ports # {} THEN <<"vlan", "fwd">> ELSE <<>>)
             \o <<"link">> \o (IF req.snmp # None THEN <<"snmp">> ELSE <<>>) \o <<"sys">>
      [] req.kind = "blob" -> <<req.endpoint>>
      [] req.kind = "restore" -> <<"vlan">>

Ended(cl, told) == [cl EXCEPT !.at = "ended", !.told = told]

Decide(cl, snapshot) ==
    LET req == cl.req  read == cl.read
        goal == IF req.kind = "restore" THEN snapshot ELSE Planned(req, read)
        writes == CASE req.kind = "restore" -> RestoreWrites(read.vlan, snapshot)
                    [] req.kind = "apply"   -> Writes(read, goal)
                    [] req.kind = "blob"    -> StepIf(read # goal, Step(req.endpoint, goal[req.endpoint], "blob"))
        planned == [cl EXCEPT !.writes = writes, !.goal = goal, !.at = "write"]
        refusal == IF req.kind = "apply" THEN Refusal(req, read, goal) ELSE "none" IN
    IF refusal # "none" THEN Ended(cl, refusal)
    ELSE IF writes = <<>> THEN Ended(planned, "noChange")
    ELSE IF req.dryRun THEN Ended(cl, "dryRun")
    ELSE planned

Begin(c) ==
    /\ call[c].at = "idle"
    /\ \E req \in Asks[scene][c] :
         call' = [call EXCEPT ![c] = [Idle EXCEPT !.at = "read", !.req = req,
                                                 !.todo = EndpointsToRead(req), !.from = switch]]
    /\ base' = [base EXCEPT ![c] = switch]
    /\ disturbed' = [disturbed EXCEPT ![c] = {}]
    /\ UNCHANGED <<scene, switch>>

(* rollback_change of a call that has ended.                                    *)
Rollback(c) ==
    /\ call[c].at = "ended" /\ call[c].req.kind = "apply" /\ call[c].told \in {"done", "incomplete"}
    /\ LET req == [kind |-> "restore", dryRun |-> FALSE] IN
       call' = [call EXCEPT ![c] = [Idle EXCEPT !.at = "read", !.req = req,
                                               !.todo = EndpointsToRead(req), !.from = switch]]
    /\ UNCHANGED <<scene, switch, base, disturbed>>

(* The switch can be reached through some linked port.                          *)
Manageable(s) ==
    \E p \in Linked \cap s.sys.ports : s.sys.vlan = 0 \/ p \in Members(s.vlan, s.sys.vlan)

(* Where the reads of a call lead: to the plan, or, after a write that was not  *)
(* answered, to a second plan, which no longer has the write if it was taken.   *)
ConfirmedByAnswer(cl) == cl.req.kind = "apply"   \* mutant: any answer will do
Confirmed(cl) ==
    LET left == Writes(cl.read, Planned(cl.req, cl.read)) IN
    ~ \E i \in DOMAIN left : left[i].endpoint = Head(cl.writes).endpoint /\ left[i].phase = "apply"
Failed(cl) == Ended([cl EXCEPT !.failedAt = Head(cl.writes).endpoint], "incomplete")
Written(cl) ==
    LET next == [cl EXCEPT !.at = "write", !.writes = Tail(cl.writes),
                           !.written = cl.written \cup {Head(cl.writes).endpoint}] IN
    IF next.writes = <<>> THEN Ended(next, "done") ELSE next

AfterReads(cl, snapshot) ==
    IF cl.todo # <<>> THEN cl
    ELSE IF cl.at = "read" THEN Decide(cl, snapshot)
    ELSE IF Confirmed(cl) THEN Written(cl) ELSE Failed(cl)

Read(c) ==
    /\ call[c].at \in {"read", "confirm"} /\ Manageable(switch)
    /\ LET ep == Head(call[c].todo) IN
       call' = [call EXCEPT ![c] =
                  AfterReads([@ EXCEPT !.read[ep] = switch[ep], !.todo = Tail(call[c].todo)], base[c])]
    /\ UNCHANGED <<scene, switch, base, disturbed>>

ReadFails(c) ==
    /\ call[c].at \in {"read", "confirm"}
    /\ call' = [call EXCEPT ![c] = IF @.at = "read" THEN Ended(@, "failed") ELSE Failed(@)]
    /\ UNCHANGED <<scene, switch, base, disturbed>>

(* The POST: whether the switch takes it, and what the caller learns.  Without  *)
(* a way to the switch it is not taken.  Only a timeout is looked into.         *)
Landed(ep, value, c) ==
    /\ switch' = [switch EXCEPT ![ep] = value]
    /\ disturbed' = [d \in Callers |-> IF d = c THEN disturbed[d] ELSE disturbed[d] \cup {ep}]

AfterPost(cl, outcome) ==
    CASE outcome = "answered" -> Written(cl)
      [] outcome = "timeout" /\ cl.req.kind = "apply" /\ Head(cl.writes).phase = "apply" ->
           [cl EXCEPT !.at = "confirm", !.read = Unread, !.todo = EndpointsToRead(cl.req)]
      [] OTHER -> Failed(cl)

Post(c) ==
    /\ call[c].at = "write"
    /\ LET step == Head(call[c].writes) IN
       \E outcome \in {"answered", "timeout", "reset", "refused"} :
         /\ call' = [call EXCEPT ![c] = AfterPost(@, outcome)]
         /\ \/ /\ outcome # "refused" /\ Manageable(switch)
               /\ Landed(step.endpoint, step.value, c)
            \/ outcome # "answered" /\ UNCHANGED <<switch, disturbed>>
    /\ UNCHANGED <<scene, base>>

Next == \E c \in Callers : Begin(c) \/ Rollback(c) \/ Read(c) \/ ReadFails(c) \/ Post(c)
Spec == Init /\ [][Next]_vars

----------------------------------------------------------------------------
(* What a port does with frames.                                                *)
Untagged(s, p) == s.link[p] /\ s.fwd[p].recv # "only_tagged" /\ ~ UntaggedRisk(s, p)
Tagged(s, p) ==
    LET port == s.fwd[p] IN
    IF s.link[p] /\ port.mode # "disabled" /\ port.recv # "only_untagged" /\ ~ port.force
    THEN TaggedVlans(s, p) ELSE {}
Keeps(b, s, p) ==
    /\ Untagged(b, p) => /\ Untagged(s, p)
                         /\ s.fwd[p].mode = "disabled" \/ s.fwd[p].dvid = b.fwd[p].dvid
    /\ \/ s.fwd[p].mode = "disabled"
       \/ Tagged(b, p) \ (UntaggedVid(b.fwd[p]) \cup UntaggedVid(s.fwd[p])) \subseteq Tagged(s, p)

Quiet(c) == disturbed[c] = {}
(* The call has made its plan, and may have written some of it or all of it.    *)
HasPlan(cl) ==
    \/ cl.at \in {"write", "confirm"}
    \/ cl.at = "ended" /\ cl.told \in {"done", "incomplete", "noChange"}
(* What the call's writes lead to: the goal, and what it does not look at.      *)
Aim(c) ==
    [ep \in Endpoints |->
       IF call[c].req.kind = "restore" \/ ep \in ToSet(EndpointsToRead(call[c].req))
       THEN call[c].goal[ep] ELSE call[c].from[ep]]

(* Documents whose management risks the code may not see: those that change    *)
(* both how the switch is reached and the VLANs, and those that change the      *)
(* ports it is reached from and leave it in its VLAN.                           *)
MovesManagement(b, a) == a.sys # b.sys /\ ChangesVlans(b, a)
MovesPorts(b, a) == a.sys # b.sys /\ a.sys.vlan = b.sys.vlan /\ a.sys.vlan # 0

(* An apply that has not accepted a risk cuts nothing off: from its first read  *)
(* to whatever end it comes to, each linked port passes what it passed, and the *)
(* switch can be reached, but for the documents above.  Excepted are switches   *)
(* others write to meanwhile.                                                   *)
NothingIsCutOff ==
    \A c \in Callers :
      LET cl == call[c] IN
      cl.at # "idle" /\ Quiet(c) =>
        (cl.req.kind = "apply" /\ ~ cl.req.accept =>
           /\ \A p \in Linked : Keeps(base[c], switch, p)
           /\ \/ HasPlan(cl) /\ (MovesManagement(base[c], Aim(c)) \/ MovesPorts(base[c], Aim(c)))
              \/ Manageable(base[c]) => Manageable(switch))

(* "At no point is a port's default VLAN missing from the table or from its     *)
(* membership": an apply with its risks accepted, and a restore, of a linked    *)
(* port that takes untagged frames before and after.                            *)
NoPortIsStranded ==
    \A c \in Callers :
      LET cl == call[c] IN
      HasPlan(cl) /\ Quiet(c) /\ cl.req.kind # "blob" =>
        \A p \in Linked :
          Untagged(cl.from, p) /\ Untagged(Aim(c), p) => Untagged(switch, p)

(* What a call reports is so, endpoint by endpoint, wherever no other caller    *)
(* wrote: everything that was asked for, nothing at all, or no change outside   *)
(* the writes it names.  A restore's end is the snapshot.                       *)
Mine(c) == Endpoints \ disturbed[c]
ReportIsTrue ==
    \A c \in Callers :
      LET cl == call[c] IN
      cl.at = "ended" =>
        /\ cl.told = "done" => \A ep \in cl.written \cap Mine(c) : switch[ep] = cl.goal[ep]
        /\ cl.told \notin {"done", "incomplete", "failed"} => \A ep \in Mine(c) : switch[ep] = base[c][ep]
        /\ cl.told = "incomplete" /\ cl.req.kind # "restore" =>
             \A ep \in Mine(c) : switch[ep] = base[c][ep] \/ ep \in cl.written \cup {cl.failedAt}

(* A switch that can be reached before an apply, and could be after it, can be  *)
(* in between: a document that cannot be ordered so is refused, or its risk has *)
(* been accepted.                                                               *)
ManagementSurvives ==
    \A c \in Callers :
      LET cl == call[c] IN
      /\ HasPlan(cl) /\ Quiet(c) /\ cl.req.kind = "apply" /\ ~ cl.req.accept
      /\ Manageable(base[c]) /\ Manageable(Aim(c))
      => Manageable(switch)

(* "Lockout check on the state after the whole plan, unlisted settings          *)
(* included": an apply that writes, and has not accepted a risk, leads to a     *)
(* state without one.                                                           *)
JudgedOnWholeState ==
    \A c \in Callers :
      LET cl == call[c] IN
      HasPlan(cl) /\ Quiet(c) /\ cl.req.kind = "apply" /\ ~ cl.req.accept
      => Risks(base[c], Aim(c)) = {}
=============================================================================

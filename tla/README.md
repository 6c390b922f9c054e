# TLA+ specifications of MikroMCP

MikroMCP is an MCP server that lets language models manage MikroTik routers and
switches. Its hard part is not any one request: it is what happens when many
tool calls share one Node process, one circuit breaker per router and one data
directory, while routers stop answering and servers die. These modules model
that part, and what each writing tool does with the menu or the switch it
writes to. TLC checks them on small instances, and TLAPS proves their
invariants for every instance where that can be done (section 5). Paths below are relative to the repository
(`src/` is its own source directory); comments in the modules cite files by name.

    tlc -workers 2 -config MCCircuitBreaker.cfg MCCircuitBreaker
    tlapm CircuitBreakerProofs.tla

## 1. The system

| Component | State it keeps | Operations | What makes it correct |
|---|---|---|---|
| Circuit breaker (`adapter/circuit-breaker.ts`), one per router | state, consecutive failures, time of the last failure, probe flag | `execute` | opens at the threshold and only on router trouble, probes one at a time after a full cooldown, never locks a router out |
| Retry engine (`adapter/retry-engine.ts`) | none beyond the call | `withRetry` | bounded attempts, reads only |
| Tool executor (`mcp/tool-executor.ts`) | the breakers; one call's locals | `executeToolCall`: identity, authorization, platform, maintenance window, confirmation, snapshot, journal, breaker, handler, outcome | gates in order; a lost write is flagged; a write that can be undone has a journal entry |
| Plans and rollback (`domain/tools/change-management-tools.ts`) | none beyond the call | `plan_changes`, `apply_plan`, `rollback_change` | each step can be undone; a rollback restores what its write found |
| Snapshots and journal (`domain/snapshot/*.ts`) | snapshot files, `write-journal.ndjson`, its segments | persist, append, read, rotate, prune | no entry younger than `maxAgeDays` is lost; reads that overlap rotation are complete |
| Diff engine (`domain/snapshot/diff-engine.ts`) | none | `computeRestorePlan`, `applyRestorePlan` | the plan restores the snapshot and leaves alone what matches it, also when it stops half-way and is run again |
| Confirmation (`middleware/confirmation.ts`, `fleet-confirmation.ts`) | `usedTokens` of each gate, the process secret | `checkConfirmation`, `checkFleetConfirmation` | a destructive call runs once per approval |
| Fleet tools (`domain/tools/fleet-tools.ts`) | none beyond the call | `bulk_execute`, `bulk_read`, health checks | results of all routers survive the failure of one |
| Connection pool, REST/SSH/FTP/SFTP clients (`adapter/`) | pooled clients, sockets, timers | get, remove, close; requests | a rebuilt client has credentials that work; every request settles |
| SwOS client (`adapter/swos-client.ts`, `swos-maintenance-tools.ts`) | digest challenge, credentials | requests of up to three attempts, password change | client and switch agree on the password; what is said of a change is so |
| SwOS configuration (`domain/swos`, `domain/tools/swos-*.ts`) | none beyond the call | plan, judge the risks, order and post whole endpoints; look again after a timeout; roll back | nothing is cut off that was not accepted, at no point between two writes; reports are true |
| `manage_*` and other writing tools (`domain/tools/`) | none beyond the call | find, compare, preview, create / update / switch / remove | a record gets a twin only when calls overlap; repeating a call changes nothing; successes are true; dry runs say what the call would do |
| HTTP transport (`mcp/transports/http.ts`) | sessions, rate windows | limiter, session open, request, close, two sweeps | a session lasts as long as its own identity uses it; limits hold |
| Identities, authorization, configuration (`config/`, `middleware/auth*.ts`) | token cache | look-ups | pure predicates |
| CLI, observability, formatters, web sites, docs | files, log lines | | outside the models |

**How they interact.** Every call of a tool on a router goes through
`executeToolCall`. A write that can be undone first reads snapshots from the
router, persists them and starts an unawaited append to the journal. Then the
handler runs inside `cb.execute`, where reads run under `withRetry`. `apply_plan`
is such a handler: it repeats snapshot, journal and `cb.execute` for each step,
*inside* its own execution of the same breaker. `rollback_change` reads a journal
entry back, compares the router with the snapshot and sends the difference. The
fleet tools are handlers that fan out over several routers' breakers. Several
server processes (one per stdio client) may share the data directory; each
rotates and prunes the journal once as it starts. SwOS switches are reached through
one pooled client per device, whose digest challenge all calls share; the switch
takes whole endpoints only, so each SwOS writer reads, merges and posts. With the
HTTP transport, requests of several identities pass the rate limiter and find their
session before any of this.

**Which behaviour is hard.** Between two awaits of a call anything may happen: a
result comes back for a breaker that has changed its state since; a section
changes between snapshot and request, or between a tool's look at a menu and its
write to it; an answer is lost although the request was
carried out; another server renames the file an append has open; the process dies
between writing to the router and writing to the journal; a switch is left between
two of the writes of one document, with the port that leads to it in neither state. `PROJECT.json`
("hazards") lists each at its line with the property that covers it.

## 2. The modules

| Module | Models | Proofs |
|---|---|---|
| `CircuitBreaker` | `circuit-breaker.ts` under concurrent callers | `CircuitBreakerProofs` |
| `RouterCalls` | `executeToolCall`, `withRetry`, the classification of errors and seven ways handlers treat failures, over an instance of `CircuitBreaker` | `RouterCallsProofs` |
| `Approvals` | abstract: what a two-step confirmation promises | |
| `Confirmation` | both gates; implements `Approvals` | `ToolCallProofs` |
| `JournalRotation` | appends, rotation, pruning and reads of the journal by several servers | `JournalRotationProofs` |
| `Rollback` | a write's snapshot, journal entry, request and outcome, plans, and `rollback_change`, with lost answers and crashes | `RollbackProofs` |
| `RestorePlan` | `computeRestorePlan` and `applyRestorePlan` request by request | `RollbackProofs` |
| `ToolHandlers` | the handlers of the writing RouterOS tools, each as its sequence of steps | |
| `ManageTools` | two callers of such a handler on one menu, with lost and refused requests | `ToolCallProofs` |
| `SwosConfig` | `apply_swos_config`, `write_swos_blob` and the rollback of a switch, write by write | `SwosConfigProofs` |
| `SwosClient` | the pooled client of a switch: digest authentication and the password change | `SwosClientProofs` |
| `HttpSessions` | rate limiter, sessions and sweeps of the HTTP transport | `HttpSessionsProofs` |
| `MC<module>` | the TLC instance of each | |

**CircuitBreaker.** The variables are the class's private fields. The gate of
`execute` and each settling callback is one synchronous block, hence one action:
`Execute` (with `RejectOpen`, `RejectProbeInFlight`, `AdmitProbe`,
`AdmitNormal`) and `Finish` (`OnSuccess`, `OnFailure`, and the `finally` block as
`ClearProbeFlag`). `consecutiveFailures` saturates at the threshold, which is all
line 157 compares; `lastFailureTime` is kept as the time since, saturating at the
cooldown, which is all line 63 compares. `drained` is history.

**RouterCalls.** The breaker is instantiated with executions (a user's call, or a
step inside it) as callers. `pc` says what a call awaits. One action is the code
between two awaits: `Begin` and `Gate`, `SnapshotsDone`, `RetryRead`, `Settle`,
and for `apply_plan` `StepGate`, `StepSettle`, `PlanUnknownTool`, `PlanReturn`.
A request ends in one of eight ways, which `enrichError` and its readers tell apart:
answered `ok`; `refused` (4xx, and the 500 "not enough permissions"); `failed` (any
other 5xx, 429); `late` (408, 504); `closed` (400 "Session closed"); or not answered,
`lost` with a listed network code, in an SSH handshake that timed out
(`noHandshake`), or with a code that is `unlisted` (`UND_ERR_SOCKET`,
`UND_ERR_CONNECT_TIMEOUT`, `ENOTFOUND`), which becomes INTERNAL.

| | ok | refused | failed | late | closed | lost | noHandshake | unlisted |
|---|---|---|---|---|---|---|---|---|
| the breaker counts it (`Transient`) | | | x | x | | x | x | |
| a read is tried again (`Retryable`) | | | x | x | | x | | |
| a write is flagged (`Ambiguous`) | | | | x | x | x | x | |
| there was no answer (`Silent`) | | | | | | x | x | x |

A closed session is a ROUTER_TIMEOUT, but `isTransientFailure` excepts it by its code
(`circuit-breaker.ts:20`). The kinds of call differ in what the breaker sees of a failure
(`Seen`) and in what the caller is told (`CallerTold`); "bulk" is this router's share of a
write of `bulk_execute`, which keeps an error's message only. Left out: authorization and
maintenance windows (pure guards before all this), audit and metrics (observers), retry
delays.

**Confirmation.** A token is its signed content, so that signing the same call
twice in one millisecond gives the same token. Whether
`MIKROMCP_CONFIRMATION_SECRET` is set is chosen at each start. With it, tokens
outlive a restart while `usedTokens` does not, which is why the promise is made
per start of the server; without it the fleet's gate signs with a secret that dies with
the process and a router's gate is not asked. `Approvals` counts the starts of the server as
well, which the refinement maps to `incarnation`: only the step that raises it may open
a used approval again, and each run closes an approval that was open.

**JournalRotation.** Files are inodes, names point to them, and each system call
(`open`, `write`, `stat`, `unlink`, `rename`, `readdir`, `readFile`) is a step of
its own. `Span` bounds how long an append or a start-up pass takes: the code
relies on it ("Nothing writes to a segment that old"), and the ASSUME
`2 * Span <= MaxAge` is that reliance.

**Rollback.** The section is a set of records, the journal a sequence of entries
with their lines `pending`, `written` or `lost`. Every request may be answered,
carried out without an answer, or fail. Callers are `idle` again after their
call; `Crash` ends all calls at once and loses pending lines.

**ToolHandlers and ManageTools.** What tells the forty-odd writing tools apart is
which checks they make in which order before their request: whether an add compares
the record it finds, when the arguments are refused, where the dry run answers.
`ToolHandlers` has each handler as that sequence, translated from its file;
`ManageTools` gives the steps their meaning. A record is its key, the field the add
compares (`main`), one the tool writes without comparing (`side`) and whether it is
off; the router lists its records by the ids it gave them. Three handlers need more: a
route's `side` is its table, which is part of what it is found by only if the call
names one (`findTable`); the clock's `main` is its time, which moves on by itself
(`ClockRuns`); `manage_ip_address` compares and writes `disabled` in an update
(`unchangedState`). Refusals of arguments that no menu can change are one step
("named"), that of a routing rule's priority among them. The menus hold records that the
tools can add, so no routing rule without match fields; an `enable` or `remove` that names
none, which would find such a rule on the router, finds nothing here. `Begin`, `Find`, `Apply` and `Fail` are the pieces between awaits: the menu is
read in one, the request applied in another, and between them anyone else's request
may land. A request may be applied and its answer lost. Three history variables
carry what the properties need: the last undisturbed write, the last dry run, and
whether a record was ever made on a stale look.

**SwosConfig.** A switch is five endpoints: `vlan` (the table), `fwd` (each port's
VLAN settings), `link` (one flag for every setting whose change on a linked port is
a risk of its own: enabled, negotiation, link aggregation, isolation), `snmp` (what
reaches no port) and `sys` (management: `allow_from_vlan` and `allow_from_ports`; the document's `allow_from`,
`static_ip` and `address_acquisition`, `switch-config.ts:1203-1210`, can cut the switch off
too, need `includeManagement` like the others and are judged no further, and are left
out, so that `NothingIsCutOff` is about VLANs and
ports only). `Begin` takes the snapshot, `Read` one
endpoint after the other, `Decide` makes the plan - merging the document, judging
the risks (`Risks`), ordering the writes so that tables grow before and shrink
after the ports move (`Writes`) - and `Post` sends one write, which may be answered, be
lost, time out or be refused; without a way to the switch it cannot land.
After a timeout the call reads again and plans again (`Confirmed`). `Rollback`
restores the snapshot with the order the code gives it. The snapshot is one step,
where the code reads one endpoint after another.

**SwosClient.** A nonce is a number, a client is a password and the challenge it
answers. `Challenged` is a 401: the challenge is replaced for all calls on the client,
and the third one ends the call and, unless the call is confirming a change, drops
the pooled client; the next `Begin` builds one with the configured password.
`Changed`, `TimedOut` and `ConnectionLost` are the three ends of the password's POST, in
each of which the switch may have taken it or not.

**HttpSessions.** A request is three steps (`Arrive` past the limiter, `Find` after the
token check, `Handle` after the body), because the code awaits between them.
The limiter's sweep and the sessions' sweep have one period; their phase to the
limiter's windows is arbitrary, and so is the order of sweeps and requests of
one instant. `accepted` is history: when the requests of the last window were let
through, and how many of the same instant before each.

**RestorePlan.** Starts from *every* snapshot and *every* present content within
the bounds, for each kind of section, and applies the plan request by request;
any request may fail, and the rollback is tried again on what is left. Whether
the router refuses a second record of a name is a parameter of the section.

## 3. The runs

Passing runs; each property has a mutant, a plausible bug in a mapped definition,
under which TLC finds it violated.

| Run | Bounds | What it shows |
|---|---|---|
| `breaker` | 4 callers, threshold 2, cooldown 2 | state, count, clock and flag agree whatever order results come in; no lock-out; recovery |
| `calls` | 2 users, all seven kinds of call together, all eight ends of a request, threshold 2, cooldown 1, 1 retry, plans of 2 | no call is left waiting; the circuit opens after trouble with the router and nothing else, and trips unless a lost request was hidden from it; lost writes never pass for done and are flagged but for the named exceptions |
| `confirmation` | one request each to a router, to the fleet and of an exempt caller; lifetime 2, 4 instants, 2 starts | no run without an approval of its own; `Approvals` is implemented |
| `journal` | 2 entries, 2 servers, 1 reader, 5 instants | nothing recent is lost; a file has one name; reads are complete |
| `rollback` | 2 users, 2 records, plans of 2, 2 entries | an undisturbed rollback restores what its write found; callers are told of successful writes only |
| `restore_plan` | up to 2 records before and after, 2 names, 1 field of 2 values, 5 kinds of section, 2 attempts | the plan restores the snapshot, adds no user, keeps what matches, and is never refused over a name |
| `manage` | every handler, one at a time; 2 callers, 3 calls, 1 key (and none, or a bad one, where the tool asks), 2 values | twins need an overlap; a retry of an applied call changes nothing where the tool is annotated idempotent, but for `set_system_clock`; successes are true, but for an `add` of a route that names no table; dry runs forecast |
| `swos_config` | 2 linked ports, VLANs 1 and 2; alone: 108 starts and every document of up to two parts, with and without its risks accepted, then its rollback; access: a document that changes only the ports management comes from; together: a document and another document or blob | no apply cuts off what it did not accept, no port is stranded between two writes, reports are true |
| `swos_client` | 2 callers, 2 passwords, 3 calls, 3 nonces, restarts | what callers are told of a change is so; the pooled client keeps the password of the switch |
| `sessions` | 1 ip, 2 identities, 2 requests at once, quota 2, window 2, TTL 3, 8 instants, 1 session | fewer than two quotas in any window and none refused wrongly for ever; a session lasts as long as its identity uses it and one sweep longer |

Two configurations of `RouterCalls` extend `calls` and pass too:
`MCRouterCallsLive` (`CallsEnd`: with one step and threshold 1, every call ends,
also a plan that meets its own probe) and `MCRouterCallsReadWrite` (3 users,
reads and writes only, and no unlisted code: `TripsOnDeadRouter`, `LostWritesAreFlagged`,
`ClosesOnAnswer`, which the other kinds and the unlisted codes break, see section 4).

**Why the bounds suffice.** Threshold 2 is the least at which a count can be
below the threshold and not zero; cooldown 2 the least at which it can be partly
over. A stale result needs one call sent before the trip, a probe, and one more
caller that is wrongly admitted: three. The run has a fourth, so that nothing below depends on three being exactly enough.
A rotation race needs an old file and a young one, so two entries; two servers
are the race. Two records and two entries let one write's undo meet another
write; a plan of two is the least with a step after a step. Expiry needs an
instant after the lifetime, and two starts one restart. Three calls are a dry run
or a lost write, a call that overlaps and the retry; a menu never holds more than
what three calls and the start put there. One port that documents move is enough for what a write does to the ports, since the
planner judges each port by itself; the second port is there for management to move to, and two VLANs are the one it has and the one it moves to. Three
nonces let every attempt of a request meet an expired one. Eight instants are two
windows, a TTL and the sweep after it, at every phase.

**Symmetry** is used only for sets of model values in runs without liveness. `calls` has a
view besides (`Essence`): states count as one that differ only in what is left of calls
that have ended and lost nothing, which no action and no property but `TypeOK` reads.
Deadlock is checked in every run but those where the model comes to an end: a rollback of
`RestorePlan`, the calls of `ManageTools` and `SwosClient` once `MaxCalls` have been
made, those of `SwosConfig` once each caller has had its turn, the clock of
`HttpSessions` at `MaxTime`.

**Fairness.** `CircuitBreaker!Fairness` and `RouterCalls!FairSpec` let every call
in flight settle: each request carries a timeout (`rest-client.ts`), so its
promise settles. Time passes. For recovery and lock-out, clients keep calling:
the breaker has no timer, so nothing else could move it, and the property is
stated for that. No fairness is put on the router: it may fail for ever or
answer for ever.

## 4. Where code and documents disagree

Two runs end in a violation; each checks one statement of a document, comment or
message of the repository.

- `breaker_single_probe`: `SingleProbe`. The `finally` block clears the probe
  flag for every call, also for one sent before the trip; a second probe is then
  admitted beside the first. The comment at `circuit-breaker.ts:129` says it is safe.
- `swos_management`: `ManagementSurvives`. The description of `apply_swos_config`
  (`swos-config-tools.ts:301`) says that a document that moves management to another VLAN
  and changes the table at the same time is refused. The code refuses only a move to a
  VLAN above 0 (`c.to > 0`, line 342). A document that releases management from its
  VLAN and takes the management port out of that VLAN passes; the lockout check judges
  the end state, in which the switch can be reached; but the table shrinks before
  `sys.b` is written, and `sys.b` never lands. By the same order of
  writes a change of `allow_from_ports`, or the rollback of an older apply after
  management has moved, can cut off the switch before `sys.b`. `NothingIsCutOff` therefore excepts
  documents that change both, and those of `MCSwosAccess` below, for its part about management.

Further statements that the models refute, each with a configuration that
reproduces the counterexample:

| Configuration | Property | Statement and what happens |
|---|---|---|
| `MCRouterPlans` | `TripsOnDeadRouter` | `apply_plan` returns a result when a step fails; the outer `cb.execute` counts a success and resets what the step has just counted, so plans on a dead router never open the circuit |
| `MCRouterPlans`, with `-continue` | `LostWritesAreFlagged` | "now warns that the write may already have been applied" (CHANGELOG.md:284): a plan's lost step carries no warning |
| `MCRouterUnlisted` | `TripsOnDeadRouter` | "only genuine connectivity or server errors trip it" (Error-Handling.md:79) and "Network or TLS connectivity failure" as ROUTER_UNREACHABLE (Error-Handling.md:14): a network error with an unlisted code is INTERNAL, so a router that leaves all calls without an answer in this way never opens the circuit. `retry-engine.ts:23` names ENOTFOUND as one to retry, but the tools' errors have become INTERNAL before it looks |
| `MCRouterUnlisted`, with `-continue` | `LostWritesAreFlagged` | CHANGELOG.md:284: a write cut off with such a code carries no warning |
| `MCRouterBulk` | `LostWritesAreFlagged` | CHANGELOG.md:284: `bulk_execute` (fleet-tools.ts:422-452) reports a router's lost write as the text of its error, without the warning |
| `MCJournalTorn` | `TornLineIsContained` | the entry appended after a torn line is glued to it and lost too; `write-journal.ts:59` says the rest stays readable |
| `MCRollbackJournaled`, with `-continue` | `ToldIsFindable` | "pass to rollback_change to undo" (tool-executor.ts:323): a caller gets a journal id whose line was never written |
| `MCBreakerClosing` | `ClosesByProbeOnly` | "closes on the first successful probe" (Error-Handling.md:79): a late success of an old call closes an open circuit |
| `MCRouterHealth`, with `-continue` | `ClosesOnAnswer` | the same line: `check_router_health` turns a lost request into a result, which closes the circuit |
| `MCRouterRollback` | `TripsOnDeadRouter` | the same line: `rollback_change` lets raw errors through, which are not counted |
| `MCRouterTraffic` | `NoTrafficWhileOpen` | "no traffic sent" (Error-Handling.md:76): a write reads its snapshot before the gate |
| `MCSwosAccess` | `JudgedOnWholeState` | "Lockout check on the state after the whole plan, unlisted settings included" (switch-config.ts:1244): for a document of `system` settings alone `vlan.b` is not read (`endpointsToRead`), so that before and after it the management VLAN is "not in the table"; the two cancel, and `allow_from_ports` may name only ports outside that VLAN |
| `MCRouterReads` | `AtMostThreeAttempts` | "up to 3 attempts" (Architecture.md:150): `maxRetries` 3 makes four |
| `MCRouterReads`, with `-continue` | `ReadsDoNotTrip` | "does not trip on read failures" (Architecture.md:150): reads count like writes |
| `MCRouterHealth` | `HealthAlwaysReports` | "this never throws" (fleet-tools.ts:488): an open circuit refuses the health check |
| `MCRollbackJournaled` | `AppliedIsJournaled` | "append a journal entry before applying" (Security.md:53): the append is not awaited |
| `MCRollbackStep` | `UndoesOnlyItself` | "undo that step individually" (change-management-tools.ts:514): the whole section is restored, with it later steps are undone |
| `MCRestoreExactly` | `RestoresExactly` | "restore device state to before a write" (change-management-tools.ts:549): added fields stay; with the values that its comment gives, one of two equal records is not restored |
| `MCManageRefuted` | `RouteSuccessIsTrue` | "Routing table name (default: main)" (route-tools.ts:121): without a table `findExisting` (135-149) takes a route of any table, so an `add` for the table main answers "already exists" (197-204) when only another table has it |
| `MCManageRefuted`, with `-continue` | `OtherTablesAreKept` | the same line: a `remove` that names no table removes the route of another one |
| `MCManageRefuted`, with `-continue` | `ClockRetryChangesNothing` | "Idempotent: returns already_set if the values already match" (system-ops-tools.ts:78, annotation at 83): the clock has moved on since, so a repeated call with `time` writes again (105-108) and sets it back |

The handlers and clients also do the following, which no document denies and no
property therefore states:

- `network-services-tools.ts:243`: a netwatch `add` without a port makes a second record for
  a host that is watched on another port, and a removal by host takes only the first.
- A firewall rule without a comment has no identity to look for, so that a retry of a
  lost `add` makes a second one although the tool is annotated idempotent.
- Scripts, schedulers and containers answer CONFLICT to the retry of an `add` that was applied.
- `user-group-tools.ts:169`: an update compares the policy only, and its dry run answers
  "would update" where the call refuses an update that names nothing.
- `files-tools.ts:177`: the dry run of `upload_file` leaves its probe file on the router.
- `reboot` clears a pending reboot job before it schedules its own; if that fails, none is left.
- Updates that were compared send only what differed from the record as it was read; when two
  of them overlap, the record keeps a mixture.
- A SwOS document that only moves `allow_from_vlan` is always said to be a risk,
  since `vlan.b` is not read for it.
- A SwOS request whose nonce expires three times, or that overlaps a password
  change, fails as an authentication failure and drops the pooled client; a
  password change whose connection is lost, unlike one that times out, is not looked
  into; one that times out while another succeeds puts the client back to the old password.
- HTTP: a GET stream counts as used only when it opens, so the sweep closes one that
  outlives the TTL; legacy SSE sessions are not bound to an identity.

## 5. The proofs

All hold for every value of the constants that the named ASSUMEs admit, and TLC has
checked each inductive invariant on the bounds of its component's run.

| Module | Assumed of the constants |
|---|---|
| `CircuitBreaker`, `RouterCalls` | threshold and cooldown at least 1 (`ThresholdAssumption`, `CooldownAssumption`, `BreakerAssumption`); kinds of call and ends of a request among those that exist, "ok" and one without an answer among these (`KindsAssumption`, `AnswersAssumption`); plans of at least 1 step (`LimitsAssumption`). Any users |
| `Confirmation` | finitely many requests, lifetime at least 1. Any number of starts |
| `Rollback` | plans of at least 1 step. Any users and records |
| `ManageTools` | `HandlersAssumption`, which is how the handlers are written: one write, at the end, and one look before any other request (`LooksFirst`); before an add, a look and a check that ends the call or clears (`AddsLook`); after the preview no check but that of an empty update (`ChecksBeforePreview`); where the identity has the main field or the table, nothing changes it (`IdentityStays`); a step answers for its kind of action (`StepsSuit`). Idempotent handlers clear nothing (`IdempotentAssumption`); `None` is not a key (`NoneAssumption`). TLC evaluates these for every handler of `ToolHandlers`. Any other handlers, any callers and calls |
| `JournalRotation` | finitely many entries; `2 * Span <= MaxAge` (`TimesAssumption`), which is what the pruner relies on. Any servers and readers |
| `RestorePlan` | the kinds of section and the identifiers at the start are some of those there are, the latter not none. Any records, names and fields |
| `SwosConfig` | linked ports are ports (`LinkedAssumption`); a switch has the endpoints that `CONFIG_ENDPOINTS` names (`StartsAssumption`); what is asked for is a document or a blob of one of them (`AsksAssumption`). Any ports, callers, switches and documents |
| `SwosClient` | the configured password is a password. Any callers, passwords, calls and nonces |
| `HttpSessions` | a window of at least 1; any quota, TTL, ips, identities and sessions. `None` is not a session or a window |

**CircuitBreakerProofs** proves `BreakerInv`: `TypeOK`, the four state properties
of the run, and `DrainedHoldsFlag`, the strengthening: while a circuit that went
half-open with nothing in flight has a call running, that call is the probe and
the flag is set. Without it `OneProbeOnceDrained` is not inductive, since a
running call with the flag down would let a second one in. The theorems are
`TypeCorrect`, `ClosedBelowThreshold`, `ProbeFlagHasOwner`, `ProbesAreSpaced` and
`OneProbe`.

**RouterCallsProofs** first proves a refinement, `CallsUseBreaker`
(`Spec => B!Spec`): each action of a call is a step of `CircuitBreaker` with the
executions as callers, or leaves the breaker alone. `BreakerHolds` carries
`BreakerInv` over without proving it again. Next to it, `RouterInv` says that
what the breaker has counted lies between the calls that ended without an
answer, while none of them was hidden from it, and the requests that showed the router
in trouble (lost, or answered with 5xx, 408 or 429; `CountsAgree`); that a call waits only where its kind can (`WaitsAsKind`); and that a
lost write ends its call or its plan at once, with the result it deserves (`ReportsLoss`).
`DeadRouterTrips` needs the lower bound, `OpensAfterLosses` the upper one.
`ClosesAsCallReturns` and `OpensAfterLosses` are action properties.
`ExecutionsAreOwned` is the part of `NoCallIsStuck` that is about states: the
breaker knows an execution exactly while its call or step awaits it. The statements of
the docs that the other kinds and the unlisted codes break (section 4) are theorems for
servers where all calls are reads and writes (`PlainKinds`) and, the first two, no error has an
unlisted code (`CodesListed`): `PlainCallsTrip`, `PlainLossIsFlagged`, `PlainCallsClose`.

**ToolCallProofs** proves `ConfirmationInv`: a token spent since the start is
either still in `usedTokens` or expired (`SpentIsRemembered`, which is why the
sweep is harmless), and each request's runs are exactly the tokens spent on it,
all handed out and signed with the secret in force (`RunsAreSpent`). From it
follow `RunsAreApproved`, by comparing cardinalities, and
`ConfirmationImplements`: every step is one of `Approvals` or leaves it unchanged; an
accepted token is open before and not after, and only a new start opens a used one.
About the handlers of the tools it proves `ToolsInv`. An id belongs to one record and is not
given out again (`IdsAreUnique`), so that a record that a call found keeps its key
(`FoundHasKey`), whoever else writes; and a call about to add, on a menu nobody wrote since it
looked, finds nothing there of the identity it adds (`NewIsAbsent`). The last one rests
on the order of the handler's steps (`NothingWasFound`): it looked, and got past a check that ends the call for a
record that is there, or past clearing what it found. A write of another call makes
the read stale, and from then on an add counts as raced; so the fact needs to be kept only over
the call's own steps. `TwinsAreRaced` follows. The three action properties rest on more:

- `ForecastInv`: a call that is to look has passed every check before its look
  (`PassedChecks`), and while nobody writes, the last dry run's answer is the one its program
  gives on the menu there is (`ForecastHolds`). The real call takes the same way through
  the same program, so it meets that answer or goes on to the write (`ForecastIsMet`):
  `DryRunsForecast`.
- `RetryInv`: what a call found is what it would find now, unless somebody wrote since
  (`FoundIsCurrent`), and the last write still shows in the menu (`LastWriteHolds`, from
  `WriteIsDone`: a write by a read that is not stale, of one record at most, leaves the menu
  as asked). A second write finds nothing to remove, or changes a record into itself, or
  would add what `NewIsAbsent` excludes (`WriteTwice`): `RetriesChangeNothing`. The clock
  changes its record without a write, and is excepted.
- `SuccessInv` adds that a waiting call has not been told anything and has passed no check
  for a key it lacks, and that every record has a key where a removal that finds
  nothing is a success (`RecordsHaveKeys`): `SuccessesAreTrue`, for the answers after a look
  (`AnswerIsTrue`) and after a write (`DoneIsTrue`).

**JournalRotationProofs** proves `JournalInv`. Its heart is `LinkedOrDead`: a
file without a name is one nobody has open and in which all has expired.
To keep it over an `unlink`, the invariant follows the pruner between its `stat` and its
`unlink` (`DoomedAreDead`), which rests on the lemma `ExpiredIsDead`: an append that has
a segment open began within `Span` of the rotation that made it one (`LateAppends`) and
would have outlived another `Span` since; hence `2 * Span <= MaxAge`. `ReadersFind`
says of each reader that an entry it should return is in what it has, or in a
segment it has not read yet. `RotationLosesNothing`, `RenamesDoNotShare` and
`ReadsFindEverything` follow.

**RollbackProofs** proves `RollbackInv`: a write between snapshot and request, and
a rollback from its comparison on, know the section unless it was marked
disturbed (`KnowsSection`); calls refer to recorded entries (`KnowsEntry`); and
what is remembered of a write is its entry's snapshot (`UndoIsSnapshot`).
`RollbackUndoes` (`Spec => []UndoesWrite`) follows: with the restore plan empty,
the section equals the snapshot. Journal entries keep their snapshots, which
carries the invariant over the steps of others and over crashes. `ToldInv` adds that
a write under way has an entry of its own and without an outcome; without that, one write
could fail the entry that another was told of. `OnlySuccessIsTold` follows.

For `RestorePlan` the module proves `RestoreInv`, about the requests that are left: they concern
records that are there and names that will be free (`Fits`), and carried out they lead from
the section as it is to the snapshot (`Leads`): each record of the section is removed,
updated or right, each one of the snapshot created, updated to or there. The lemma
that `computeRestorePlan` establishes both is the correctness of the diff engine; that each
request, carried out or refused, keeps them is that of the order in
`applyRestorePlan`. With no request left, `Leads` is `RestoresContent`
(`CompletedRestores`).

**SwosClientProofs** proves `SwosInv`. Until something excuses it (an overlap, a restart,
a caller told that the switch was lost) a call has the pooled client to itself (`Alone`) and
knows, at each of its requests, which password client and switch have (`Knows`);
a client that nobody is out of touch with can log in (`InTouch`). A
change of the password is the only time when the client's password is not the switch's, and
`Knows` says which of the two each has. `AnswersAreTrue` and `ClientKeepsInTouch` follow.

**SwosConfigProofs** proves `ConfigInv`. It says of every caller that while it reads,
nobody but others has changed the switch (`Untouched`), and what it has read is so
(`Reading`); and of a plan (`PlanInv`), without a word about the concatenation that made it:

- the steps that are left are in the order of their `Slot` (`PlanShape`), which is the lemma
  `WritesSteps` about `Writes` and `RestoreSteps` about `RestoreWrites`;
- the goal is the document merged into what the switch was, and was judged so (`PlanSource`);
- an endpoint that nobody else wrote is as it was before its first step that is left, or as
  that step has it if it was posted without an answer, or as it is to be (`Progress`);
- while the table has still to grow no other endpoint has changed; it shrinks when no
  port's settings are left to write (`TableInOrder`); `sys` is last (`SysLast`).

Its hard case is the timeout: the second plan no longer has the step, hence the switch has taken
it (`ConfirmedIsSo`); that needs `Progress`, and that what is planned for an endpoint depends on that
endpoint alone (`PlannedAlone`). `ReportTrue` follows from `Progress` and `Reported`.
From the invariant the lemma `Stages` reads off what a switch can be like between two
writes: the ports' settings are the old or the new, the table is that of the same stage or
holds both, and `sys` changes last. `NoneStranded` follows. For `NothingCutOff` the plan's
risks have to be empty on what was read (`Judged`), and that has to carry over to the
settings that were not read (`PortsSafe`); then each linked port passes at every stage what
it passed (`PortKept`), and the switch can be reached (`Reachable`). The last lemma is where the
two kinds of document of section 4 have to be excepted.

**HttpSessionsProofs** proves two invariants. `SessionInv`: the timers that are due fire in the
instant they are due (`DueInPhase`), a session that is there was seen when it was
last used, at most a TTL and the phase of the timers ago (`Present`), and one that is
gone was closed or not used for the TTL (`Gone`). The bound by the phase is the
strengthening: that a session is at most a TTL and a sweep old is not inductive
without knowing how long ago the last sweep was. `SessionsLast` follows.
`LimiterInv`: in a window, as many requests passed as it has counted, and fewer than a
quota in the time before it (`WithinWindow`); between two windows, fewer than a quota in
the time of one (`BetweenWindows`), because the request that started the last window
is no longer among them. That last fact is what makes two quotas the bound that is not
reached. `QuotasHold` follows.

**Only model-checked:**

- Liveness (`NeverLocksOut`, `RecoversFromOutage`, `CallsEnd`) is beyond TLAPS, and so is
  `NoCallIsStuck`, which is stated with ENABLED.
- The configurations of section 4, which end in a violation.

## 6. Not modelled, and what comes next

- Pure conversions and predicates: the SwOS blob codec and wire conversions (SwOS Lite,
  port counts, secrets), the export of a SwOS document, queries and responses, schemas, the command
  guard, authorization, CIDR. They keep no state and their unit tests reach what matters.
- SSH, SFTP and FTP: each call opens a connection of its own and keeps nothing. That
  `SshClient.execute` may never settle depends on when the SSH library emits what,
  which the repository does not hold; a model would only repeat the assumption.
- `save_swos_backup`, `restore_swos_backup` and `upgrade_swos_firmware`: sequential
  exchanges of a file with the switch, whose effect, and the restart that follows, are
  the firmware's.
- `upload_file`, `run_command`, `export_config`, `fetch_url`: they hand a text to the
  router or bring one back. The `list_*`, `get_*` and diagnostic tools read and format.
- Legacy SSE sessions, which live as long as their connection; batching of fleet
  calls beyond two overlapping calls; pruning of snapshot files, of which nothing is
  promised but their age.
- Clock jumps: `HttpSessions`, `CircuitBreaker` and `Confirmation` let time pass forward.
- The CLI, logging, metrics and the sites.

What is worth proving next: what `Manageable` becomes when the documents that
`NothingIsCutOff` excepts are refused by the code.

------------------------------ MODULE Rollback ------------------------------
(***************************************************************************)
(* Writes to one section of one router and their undo: what                *)
(* executeToolCall and apply_plan do around a write (snapshot, journal     *)
(* entry, handler, outcome), and rollback_change, which restores a         *)
(* snapshot.                                                               *)
(*                                                                         *)
(* The section is a set of records, each told apart by its semantic key.   *)
(* A request that gets no answer may have been carried out.  The server    *)
(* may die at any time; journal lines are appended unawaited, and may fail *)
(* to be written or be lost with the server.                               *)
(*                                                                         *)
(* Entries of calls that take no snapshot (rollback_change and apply_plan  *)
(* themselves, plan_changes) restore nothing and are not followed here.    *)
(***************************************************************************)
EXTENDS Naturals, Sequences, FiniteSets

CONSTANTS
    Users,
    Record,         \* what the section may hold
    PlanSteps,      \* the longest plan
    MaxEntries      \* bound of the model: journal entries made

ASSUME BoundsAssumption == PlanSteps \in Nat \ {0} /\ MaxEntries \in Nat

VARIABLES
    section,        \* the records on the router
    call,           \* each user's call
    journal,        \* the entries, in the order they were recorded
    told,           \* entries that callers were told to roll back with
    undo            \* history: the section before each write that changed it alone

vars == <<section, call, journal, told, undo>>

None == 0
NoSnapshot == [taken |-> FALSE, records |-> {}]
Change == {"none", "add", "remove"} \X SUBSET Record
NoChange == <<"none", {}>>

Idle == [
    pc |-> "idle",
    plan |-> 0,             \* steps left of apply_plan, this one included; 0: a direct write
    change |-> NoChange,    \* what the write is to do
    entry |-> None,         \* the entry of the write, or the one being rolled back
    snapshot |-> NoSnapshot,\* the snapshot just read, or the one being restored
    results |-> {},         \* entries of the plan's steps done so far
    remove |-> {}, create |-> {},   \* what is left of the restore plan
    disturbed |-> FALSE]    \* history: others changed the section meanwhile

Init ==
    /\ section \in SUBSET Record
    /\ call = [u \in Users |-> Idle]
    /\ journal = <<>>
    /\ told = {}
    /\ undo = {}

At(u, pc) == call[u].pc = pc

\* The section becomes S by a request of user u, whose call goes on as c.
Effect(u, S, c) ==
    /\ section' = S
    /\ call' = [v \in Users |->
          IF v = u THEN c
          ELSE [call[v] EXCEPT !.disturbed =
                   @ \/ (S # section /\ call[v].pc \in {"persist", "check", "request", "restore"})]]

-----------------------------------------------------------------------------
(* A write, called directly or as a step of apply_plan.  What it is to do  *)
(* is chosen when the model first needs it.                                *)

Step(left, done) == [Idle EXCEPT !.pc = "snapshot", !.plan = left, !.results = done]

\* Mutant: the limit of a plan's steps is off by one.
BeginLongerWrite(u) ==
    /\ At(u, "idle")
    /\ \E left \in 0 .. PlanSteps + 1 : call' = [call EXCEPT ![u] = Step(left, {})]
    /\ UNCHANGED <<section, journal, told, undo>>

BeginWrite(u) ==
    /\ At(u, "idle")
    /\ \E left \in 0 .. PlanSteps : call' = [call EXCEPT ![u] = Step(left, {})]
    /\ UNCHANGED <<section, journal, told, undo>>

\* takeSnapshot reads the section ...
ReadSnapshot(u) ==
    /\ At(u, "snapshot")
    /\ call' = [call EXCEPT ![u].pc = "persist", ![u].disturbed = FALSE,
                            ![u].snapshot = [taken |-> TRUE, records |-> section]]
    /\ UNCHANGED <<section, journal, told, undo>>

\* recordAttempt, with the snapshots there are: the line is on its way.
Attempt(u, snapshot) ==
    /\ Len(journal) < MaxEntries
    /\ \E dry \in BOOLEAN :
          journal' = Append(journal, [line |-> "pending", snapshot |-> snapshot,
                                      dryRun |-> dry, outcome |-> "none"])
    /\ call' = [call EXCEPT ![u].pc = "check", ![u].entry = Len(journal'),
                            ![u].snapshot = NoSnapshot]

\* ... and writes its file, which is awaited; then the attempt is recorded.
PersistSnapshot(u) ==
    /\ At(u, "persist")
    /\ Attempt(u, call[u].snapshot)
    /\ UNCHANGED <<section, told, undo>>

\* The snapshot fails: the write proceeds without.
SnapshotFails(u) ==
    /\ At(u, "snapshot") \/ At(u, "persist")
    /\ Attempt(u, NoSnapshot)
    /\ UNCHANGED <<section, told, undo>>

Outcome(u, o) == [journal EXCEPT ![call[u].entry].outcome = o]

\* A direct write names its entry if it can be rolled back; a plan names all.
Named(u) ==
    LET e == call[u].entry
    IN  IF call[u].plan > 0 \/ (~journal[e].dryRun /\ journal[e].snapshot.taken)
        THEN call[u].results \cup {e} ELSE {}

\* Mutant: the snapshots of a plan are taken once, for all its steps.
SucceedsReusing(u) ==
    /\ At(u, "done")
    /\ journal' = Outcome(u, "success")
    /\ IF call[u].plan > 1
       THEN /\ call' = [call EXCEPT ![u] =
                  [Step(@.plan - 1, Named(u)) EXCEPT
                      !.pc = "persist", !.snapshot = journal[call[u].entry].snapshot]]
            /\ UNCHANGED told
       ELSE /\ call' = [call EXCEPT ![u] = Idle]
            /\ told' = told \cup Named(u)
    /\ UNCHANGED <<section, undo>>

\* recordOutcome, and the result or the next step of the plan.
Succeeds(u) ==
    /\ At(u, "done")
    /\ journal' = Outcome(u, "success")
    /\ IF call[u].plan > 1
       THEN /\ call' = [call EXCEPT ![u] = Step(@.plan - 1, Named(u))]
            /\ UNCHANGED told
       ELSE /\ call' = [call EXCEPT ![u] = Idle]
            /\ told' = told \cup Named(u)
    /\ UNCHANGED <<section, undo>>

\* Mutant: a plan that fails names the step that failed as well.
FailsNamingAll(u) ==
    /\ journal' = Outcome(u, "failure")
    /\ told' = told \cup call[u].results \cup (IF call[u].plan > 0 THEN {call[u].entry} ELSE {})

\* The error ends the call; a plan that fails still names the steps done.
Fails(u) ==
    /\ journal' = Outcome(u, "failure")
    /\ told' = told \cup call[u].results

\* The handler looks whether there is anything to do: a dry run and a record
\* that is there already end here, a removal has to find its record.
Check(u) ==
    /\ At(u, "check")
    /\ \E do \in {"add", "remove"}, r \in Record :
          IF journal[call[u].entry].dryRun \/ (do = "add" /\ r \in section)
          THEN call' = [call EXCEPT ![u].pc = "done"]
          ELSE /\ do = "add" \/ r \in section
               /\ call' = [call EXCEPT ![u].pc = "request", ![u].change = <<do, {r}>>]
    /\ UNCHANGED <<section, journal, told, undo>>

\* The breaker refuses, the read fails or the record to remove is not found.
CheckFails(u) ==
    /\ At(u, "check")
    /\ Fails(u)
    /\ call' = [call EXCEPT ![u] = Idle]
    /\ UNCHANGED <<section, undo>>

\* The section after change c, if the router accepts it.
Apply(c) == IF c[1] = "add" THEN section \cup c[2] ELSE section \ c[2]
Accepts(c) == Apply(c) # section

\* A write is remembered for its undo if no one else changed the section
\* between its snapshot and its request.
Remember(u) ==
    undo' = IF call[u].disturbed \/ ~journal[call[u].entry].snapshot.taken THEN undo
            ELSE undo \cup {[entry |-> call[u].entry, before |-> section,
                              added |-> Apply(call[u].change) \ section]}

\* The router carries the write out and answers.
RequestAnswered(u) ==
    /\ At(u, "request")
    /\ Accepts(call[u].change)
    /\ Effect(u, Apply(call[u].change),
              [call[u] EXCEPT !.pc = "done", !.change = NoChange, !.disturbed = FALSE])
    /\ Remember(u)
    /\ UNCHANGED <<journal, told>>

\* The router carries it out, but the answer is lost.
RequestUnanswered(u) ==
    /\ At(u, "request")
    /\ Accepts(call[u].change)
    /\ Effect(u, Apply(call[u].change), Idle)
    /\ Remember(u)
    /\ Fails(u)

\* The request is refused, or does not arrive.
RequestFails(u) ==
    /\ At(u, "request")
    /\ Fails(u)
    /\ call' = [call EXCEPT ![u] = Idle]
    /\ UNCHANGED <<section, undo>>

-----------------------------------------------------------------------------
(* rollback_change                                                         *)

\* findJournalEntry looks for the attempt line; an entry that is not there, a
\* dry run and an entry without snapshots are answered without any change.
BeginRollback(u, e) ==
    /\ At(u, "idle")
    /\ journal[e].line = "written"
    /\ ~journal[e].dryRun
    /\ journal[e].snapshot.taken
    /\ call' = [call EXCEPT ![u] =
          [Idle EXCEPT !.pc = "load", !.entry = e, !.snapshot = journal[e].snapshot]]
    /\ UNCHANGED <<section, journal, told, undo>>

\* The current section is read and computeRestorePlan compares.
Compare(u) ==
    /\ At(u, "load")
    /\ call' = [call EXCEPT ![u].pc = "restore", ![u].disturbed = FALSE,
                            ![u].remove = section \ call[u].snapshot.records,
                            ![u].create = call[u].snapshot.records \ section]
    /\ UNCHANGED <<section, journal, told, undo>>

\* applyRestorePlan: records that were not there are removed first ...
RestoreRemove(u, r) ==
    /\ At(u, "restore") /\ r \in call[u].remove
    /\ r \in section
    /\ Effect(u, section \ {r}, [call[u] EXCEPT !.remove = @ \ {r}])
    /\ UNCHANGED <<journal, told, undo>>

\* ... and then those that are missing are created.
RestoreCreate(u, r) ==
    /\ At(u, "restore") /\ call[u].remove = {} /\ r \in call[u].create
    /\ r \notin section
    /\ Effect(u, section \cup {r}, [call[u] EXCEPT !.create = @ \ {r}])
    /\ UNCHANGED <<journal, told, undo>>

RestoreDone(u) ==
    /\ At(u, "restore") /\ call[u].remove = {} /\ call[u].create = {}
    /\ call' = [call EXCEPT ![u] = Idle]
    /\ UNCHANGED <<section, journal, told, undo>>

\* A read or a request fails, or is carried out without an answer: rollback
\* stops where it is.
RestoreFails(u) ==
    /\ At(u, "load") \/ At(u, "restore")
    /\ \/ Effect(u, section, Idle)
       \/ \E r \in call[u].remove : Effect(u, section \ {r}, Idle)
       \/ \E r \in call[u].create :
             call[u].remove = {} /\ Effect(u, section \cup {r}, Idle)
    /\ UNCHANGED <<journal, told, undo>>

-----------------------------------------------------------------------------
(* The journal file and the server                                         *)

LineWritten(e) ==
    /\ journal[e].line = "pending"
    /\ journal' = [journal EXCEPT ![e].line = "written"]
    /\ UNCHANGED <<section, call, told, undo>>

\* appendLine only logs that it failed.
LineFails(e) ==
    /\ journal[e].line = "pending"
    /\ journal' = [journal EXCEPT ![e].line = "lost"]
    /\ UNCHANGED <<section, call, told, undo>>

\* The server dies and is started again.
Crash ==
    /\ call # [u \in Users |-> Idle]
    /\ call' = [u \in Users |-> Idle]
    /\ journal' = [e \in DOMAIN journal |->
          [journal[e] EXCEPT !.line = IF @ = "pending" THEN "lost" ELSE @]]
    /\ UNCHANGED <<section, told, undo>>

Next ==
    \/ \E u \in Users :
          \/ BeginWrite(u) \/ ReadSnapshot(u) \/ PersistSnapshot(u) \/ SnapshotFails(u)
          \/ Check(u) \/ CheckFails(u)
          \/ RequestAnswered(u) \/ RequestUnanswered(u) \/ RequestFails(u)
          \/ Succeeds(u)
          \/ (\E e \in DOMAIN journal : BeginRollback(u, e))
          \/ Compare(u) \/ RestoreDone(u) \/ RestoreFails(u)
          \/ (\E r \in Record : RestoreRemove(u, r) \/ RestoreCreate(u, r))
    \/ \E e \in DOMAIN journal : LineWritten(e) \/ LineFails(e)
    \/ Crash

Spec == Init /\ [][Next]_vars

-----------------------------------------------------------------------------
(* Properties                                                              *)

Snapshot == [taken : BOOLEAN, records : SUBSET Record]
Undo == [entry : 1 .. MaxEntries, before : SUBSET Record, added : SUBSET Record]
Call == [pc : {"idle", "snapshot", "persist", "check", "request", "done", "load", "restore"},
         plan : 0 .. PlanSteps, change : Change, entry : 0 .. MaxEntries,
         snapshot : Snapshot, results : SUBSET (1 .. MaxEntries),
         remove : SUBSET Record, create : SUBSET Record, disturbed : BOOLEAN]
JournalEntry == [line : {"pending", "written", "lost"}, snapshot : Snapshot,
                 dryRun : BOOLEAN, outcome : {"none", "success", "failure"}]

TypeOK ==
    /\ section \in SUBSET Record
    /\ call \in [Users -> Call]
    /\ journal \in Seq(JournalEntry) /\ Len(journal) <= MaxEntries
    /\ told \in SUBSET (1 .. MaxEntries)
    /\ undo \in SUBSET Undo

\* A rollback has done all of its restore plan, and no one else changed the
\* section since it was compared.
Restored(u) ==
    /\ At(u, "restore") /\ call[u].remove = {} /\ call[u].create = {}
    /\ ~call[u].disturbed

\* "Restore device state to before a write" (change-management-tools.ts:549):
\* a completed rollback leaves the section as it was when the write's request
\* arrived, whether the write was answered or not, direct or a step of a plan,
\* after rollbacks that stopped half-way and after crashes.  Only others that
\* wrote between the snapshot and the request, or during the rollback, can
\* change that.
UndoesWrite ==
    \A u \in Users : Restored(u) =>
        \A x \in undo : x.entry = call[u].entry => section = x.before

\* An entry that a caller is told to roll back with is that of a write that
\* was carried out and answered: never of one that failed, and of a dry run only
\* in a plan.
ToldSucceeded ==
    \A e \in told : journal[e].outcome = "success"

\* Security.md:53: write tools "append a journal entry before applying, so a
\* change can be reversed".
AppliedIsJournaled == \A x \in undo : journal[x.entry].line # "lost"

\* tool-executor.ts:320-323: "Journal ID: ... (pass to rollback_change to undo)".
ToldIsFindable == \A e \in told : journal[e].line # "lost"

\* change-management-tools.ts:514: "Each step has its own journalId - pass it
\* to rollback_change to undo that step individually."
UndoesOnlyItself ==
    \A u \in Users : At(u, "restore") =>
        \A x \in undo : x.entry # call[u].entry => x.added \cap call[u].remove = {}
=============================================================================

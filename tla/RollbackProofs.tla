--------------------------- MODULE RollbackProofs ---------------------------
(***************************************************************************)
(* A completed rollback undoes its write: for every set of users and of    *)
(* records, every length of plan and any number of journal entries.        *)
(*                                                                         *)
(* And the plan that such a rollback carries out restores any section to   *)
(* any snapshot of it, ids and fields included, after any number of        *)
(* rollbacks that stopped halfway; and none of them touches what the       *)
(* router made or what need not change (RestorePlan).                      *)
(***************************************************************************)
EXTENDS Rollback, RestorePlan, SequenceTheorems, TLAPS

\* Between its snapshot and its request a write knows the section, unless
\* others changed it; so does a rollback from its comparison on.
KnowsSection(u) ==
    LET c == call[u] IN
    /\ c.pc = "persist" /\ ~c.disturbed => c.snapshot.records = section
    /\ c.pc \in {"check", "request"} /\ ~c.disturbed /\ journal[c.entry].snapshot.taken
          => journal[c.entry].snapshot.records = section
    /\ c.pc = "restore" /\ ~c.disturbed
          => /\ c.remove = section \ c.snapshot.records
             /\ c.create = c.snapshot.records \ section

\* A call that has a journal entry refers to one that was recorded, and a
\* rollback restores the snapshot of its entry.
KnowsEntry(u) ==
    LET c == call[u] IN
    /\ c.pc \in {"check", "request", "done", "load", "restore"} => c.entry \in DOMAIN journal
    /\ c.pc \in {"load", "restore"} => c.snapshot = journal[c.entry].snapshot

\* What is remembered of a write is what its snapshot holds.
UndoIsSnapshot ==
    \A x \in undo : /\ x.entry \in DOMAIN journal
                    /\ journal[x.entry].snapshot.records = x.before

\* The inductive invariant.
RollbackInv ==
    /\ TypeOK
    /\ \A u \in Users : KnowsSection(u) /\ KnowsEntry(u)
    /\ UndoIsSnapshot

\* Journal entries keep their snapshots.
JournalKept ==
    /\ DOMAIN journal \subseteq DOMAIN journal'
    /\ \A e \in DOMAIN journal : journal'[e].snapshot = journal[e].snapshot

-----------------------------------------------------------------------------
(* Types                                                                   *)

LEMMA IdleIsCall == Idle \in Call
  <1>1. 0 \in 0 .. PlanSteps /\ None \in 0 .. MaxEntries
    BY BoundsAssumption DEF None
  <1>2. NoChange \in Change /\ NoSnapshot \in Snapshot
    BY DEF NoChange, Change, NoSnapshot, Snapshot
  <1>3. {} \in SUBSET (1 .. MaxEntries) /\ {} \in SUBSET Record
    OBVIOUS
  <1>4. QED
    BY <1>1, <1>2, <1>3, Zenon DEF Idle, Call

\* A step of a plan, or a direct write, starts as a call.
LEMMA StepIsCall ==
    ASSUME NEW left \in 0 .. PlanSteps, NEW done \in SUBSET (1 .. MaxEntries)
    PROVE  Step(left, done) \in Call
  BY IdleIsCall DEF Step, Call

\* The journal stays a sequence of entries when a line of it changes.
LEMMA JournalUpdate ==
    ASSUME TypeOK, NEW e \in DOMAIN journal, NEW entry \in JournalEntry,
           entry.snapshot = journal[e].snapshot,
           journal' = [journal EXCEPT ![e] = entry]
    PROVE  /\ journal' \in Seq(JournalEntry) /\ Len(journal') <= MaxEntries
           /\ JournalKept
  <1>1. journal \in Seq(JournalEntry)
    BY DEF TypeOK
  <1>2. journal' \in Seq(JournalEntry) /\ Len(journal') = Len(journal)
    BY <1>1, ExceptSeq
  <1>3. JournalKept
    BY <1>1, <1>2 DEF JournalKept
  <1>4. QED
    BY <1>2, <1>3 DEF TypeOK

\* recordOutcome changes the entry's outcome only.
LEMMA OutcomeUpdate ==
    ASSUME TypeOK, NEW u \in Users, call[u].entry \in DOMAIN journal,
           NEW o \in {"success", "failure"}, journal' = Outcome(u, o)
    PROVE  /\ journal' \in Seq(JournalEntry) /\ Len(journal') <= MaxEntries
           /\ JournalKept
  <1> DEFINE e == call[u].entry
             entry == [journal[e] EXCEPT !.outcome = o]
  <1>1. journal[e] \in JournalEntry
    BY ElementOfSeq DEF TypeOK
  <1>2. entry \in JournalEntry /\ entry.snapshot = journal[e].snapshot
    BY <1>1 DEF JournalEntry
  <1>3. journal' = [journal EXCEPT ![e] = entry]
    BY DEF Outcome
  <1> HIDE DEF entry
  <1>4. QED
    BY <1>2, <1>3, JournalUpdate

\* Entries that exist have numbers within the bound.
LEMMA EntryInRange == TypeOK => DOMAIN journal \in SUBSET (1 .. MaxEntries)
  BY BoundsAssumption DEF TypeOK

-----------------------------------------------------------------------------
(* How the invariant is kept                                               *)

\* What a user's call knows stays true as long as its own part of the state
\* and the snapshots do: a step of others that leaves the section alone.
LEMMA OthersKeep ==
    ASSUME RollbackInv, JournalKept, section' = section,
           NEW v \in Users, call'[v] = call[v]
    PROVE  KnowsSection(v)' /\ KnowsEntry(v)'
  BY DEF RollbackInv, KnowsSection, KnowsEntry, JournalKept

\* What is remembered stays true.
LEMMA UndoKept ==
    ASSUME RollbackInv, JournalKept, undo' = undo
    PROVE  UndoIsSnapshot'
  BY DEF RollbackInv, UndoIsSnapshot, JournalKept

\* A step of user u that leaves the section alone.
LEMMA QuietStep ==
    ASSUME RollbackInv, section' = section, undo' = undo,
           journal' \in Seq(JournalEntry), Len(journal') <= MaxEntries, JournalKept,
           told' \in SUBSET (1 .. MaxEntries),
           NEW u \in Users, NEW c \in Call, call' = [call EXCEPT ![u] = c],
           KnowsSection(u)', KnowsEntry(u)'
    PROVE  RollbackInv'
  <1>1. ASSUME NEW v \in Users PROVE KnowsSection(v)' /\ KnowsEntry(v)'
    <2>1. CASE v = u
      BY <2>1
    <2>2. CASE v # u
      BY <2>2, OthersKeep DEF RollbackInv, TypeOK
    <2>3. QED
      BY <2>1, <2>2
  <1>2. TypeOK'
    BY DEF RollbackInv, TypeOK
  <1>3. QED
    BY <1>1, <1>2, UndoKept DEF RollbackInv

\* A step that changes user u's call and nothing else.
LEMMA CallStep ==
    ASSUME RollbackInv, UNCHANGED <<section, journal, told, undo>>,
           NEW u \in Users, NEW c \in Call, call' = [call EXCEPT ![u] = c],
           KnowsSection(u)', KnowsEntry(u)'
    PROVE  RollbackInv'
  <1>1. JournalKept
    BY DEF JournalKept
  <1>2. /\ journal' \in Seq(JournalEntry) /\ Len(journal') <= MaxEntries
        /\ told' \in SUBSET (1 .. MaxEntries)
    BY DEF RollbackInv, TypeOK
  <1>3. QED
    BY <1>1, <1>2, QuietStep

\* A call that is over knows nothing.
LEMMA IdleKnows ==
    ASSUME NEW u \in Users, call'[u].pc \in {"idle", "snapshot"}
    PROVE  KnowsSection(u)' /\ KnowsEntry(u)'
  BY DEF KnowsSection, KnowsEntry

\* A request of user u that changes the section disturbs all others.
LEMMA EffectStep ==
    ASSUME RollbackInv, JournalKept, TypeOK', UndoIsSnapshot',
           NEW u \in Users, NEW S, NEW c, Effect(u, S, c),
           KnowsSection(u)', KnowsEntry(u)'
    PROVE  RollbackInv'
  <1>1. ASSUME NEW v \in Users, v # u PROVE KnowsSection(v)' /\ KnowsEntry(v)'
    <2> DEFINE busy == call[v].pc \in {"persist", "check", "request", "restore"}
    <2>1. call[v] \in Call
      BY DEF RollbackInv, TypeOK
    <2>2. call'[v] = [call[v] EXCEPT !.disturbed = @ \/ (S # section /\ busy)]
      BY <1>1 DEF Effect
    <2>3. /\ call'[v].pc = call[v].pc /\ call'[v].entry = call[v].entry
          /\ call'[v].snapshot = call[v].snapshot
          /\ call'[v].remove = call[v].remove /\ call'[v].create = call[v].create
          /\ call'[v].disturbed = (call[v].disturbed \/ (S # section /\ busy))
      BY <2>1, <2>2 DEF Call
    <2>4. KnowsEntry(v)'
      BY <2>3 DEF RollbackInv, KnowsEntry, JournalKept
    <2>5. CASE S = section
      <3>1. section' = section
        BY <2>5 DEF Effect
      <3>2. call[v].disturbed \in BOOLEAN
        BY <2>1 DEF Call
      <3>3. call'[v].disturbed = call[v].disturbed
        BY <2>3, <2>5, <3>2
      <3>4. QED
        BY <2>3, <3>1, <3>3 DEF RollbackInv, KnowsSection, KnowsEntry, JournalKept
    <2>6. CASE S # section
      BY <2>3, <2>4, <2>6 DEF KnowsSection
    <2>7. QED
      BY <2>4, <2>5, <2>6
  <1>2. QED
    BY <1>1 DEF RollbackInv

-----------------------------------------------------------------------------
(* The actions                                                             *)

LEMMA BeginWriteStep ==
    ASSUME RollbackInv, NEW u \in Users, BeginWrite(u)
    PROVE  RollbackInv'
  <1>1. PICK left \in 0 .. PlanSteps : call' = [call EXCEPT ![u] = Step(left, {})]
    BY DEF BeginWrite
  <1>2. Step(left, {}) \in Call
    BY StepIsCall
  <1>3. call'[u].pc = "snapshot"
    BY <1>1 DEF RollbackInv, TypeOK, Step, Idle
  <1>4. QED
    BY <1>1, <1>2, <1>3, IdleKnows, CallStep DEF BeginWrite

LEMMA ReadSnapshotStep ==
    ASSUME RollbackInv, NEW u \in Users, ReadSnapshot(u)
    PROVE  RollbackInv'
  <1> DEFINE c == [call[u] EXCEPT !.pc = "persist", !.disturbed = FALSE,
                                  !.snapshot = [taken |-> TRUE, records |-> section]]
  <1>1. call[u] \in Call /\ section \in SUBSET Record
    BY DEF RollbackInv, TypeOK
  <1>2. c \in Call
    BY <1>1 DEF Call, Snapshot
  <1>3. call' = [call EXCEPT ![u] = c]
    BY DEF ReadSnapshot
  <1>4. call'[u] = c
    BY <1>3 DEF RollbackInv, TypeOK
  <1>5. c.pc = "persist" /\ c.snapshot.records = section
    BY <1>1 DEF Call
  <1> HIDE DEF c
  <1>6. KnowsSection(u)' /\ KnowsEntry(u)'
    BY <1>4, <1>5 DEF KnowsSection, KnowsEntry, ReadSnapshot
  <1>7. QED
    BY <1>2, <1>3, <1>6, CallStep DEF ReadSnapshot

\* A new entry goes to the end of the journal.
LEMMA AttemptEntry ==
    ASSUME RollbackInv, NEW u \in Users, NEW snapshot \in Snapshot, Attempt(u, snapshot)
    PROVE  /\ journal' \in Seq(JournalEntry) /\ Len(journal') <= MaxEntries
           /\ JournalKept
           /\ Len(journal') \in DOMAIN journal' /\ Len(journal') \in 0 .. MaxEntries
           /\ journal'[Len(journal')].snapshot = snapshot
  <1>1. PICK dry \in BOOLEAN :
           journal' = Append(journal, [line |-> "pending", snapshot |-> snapshot,
                                       dryRun |-> dry, outcome |-> "none"])
    BY DEF Attempt
  <1> DEFINE entry == [line |-> "pending", snapshot |-> snapshot,
                       dryRun |-> dry, outcome |-> "none"]
  <1>2. entry \in JournalEntry /\ entry.snapshot = snapshot
    BY DEF JournalEntry
  <1>3. journal \in Seq(JournalEntry) /\ Len(journal) < MaxEntries
    BY DEF RollbackInv, TypeOK, Attempt
  <1> HIDE DEF entry
  <1>4. /\ journal' \in Seq(JournalEntry) /\ Len(journal') = Len(journal) + 1
        /\ \A e \in 1 .. Len(journal) : journal'[e] = journal[e]
        /\ journal'[Len(journal) + 1] = entry
    BY <1>1, <1>2, <1>3, AppendProperties DEF entry
  <1>5. Len(journal) \in Nat /\ DOMAIN journal = 1 .. Len(journal)
        /\ DOMAIN journal' = 1 .. (Len(journal) + 1)
    BY <1>3, <1>4, LenProperties
  <1>6. JournalKept
    BY <1>4, <1>5 DEF JournalKept
  <1>7. QED
    BY <1>2, <1>3, <1>4, <1>5, <1>6, BoundsAssumption

\* The attempt is recorded with the snapshot the call knows, or without one.
LEMMA AttemptStep ==
    ASSUME RollbackInv, NEW u \in Users, NEW snapshot \in Snapshot, Attempt(u, snapshot),
           UNCHANGED <<section, told, undo>>,
           snapshot.taken /\ ~call[u].disturbed => snapshot.records = section
    PROVE  RollbackInv'
  <1> DEFINE c == [call[u] EXCEPT !.pc = "check", !.entry = Len(journal'),
                                  !.snapshot = NoSnapshot]
  <1>1. call[u] \in Call /\ NoSnapshot \in Snapshot
    BY DEF RollbackInv, TypeOK, NoSnapshot, Snapshot
  <1>2. c \in Call
    BY <1>1, AttemptEntry DEF Call
  <1>3. call' = [call EXCEPT ![u] = c]
    BY DEF Attempt
  <1>4. call'[u] = c
    BY <1>3 DEF RollbackInv, TypeOK
  <1>5. c.pc = "check" /\ c.entry = Len(journal') /\ c.disturbed = call[u].disturbed
    BY <1>1 DEF Call
  <1> HIDE DEF c
  <1>6. KnowsSection(u)' /\ KnowsEntry(u)'
    BY <1>4, <1>5, AttemptEntry DEF KnowsSection, KnowsEntry
  <1>7. told' \in SUBSET (1 .. MaxEntries)
    BY DEF RollbackInv, TypeOK
  <1>8. QED
    BY <1>2, <1>3, <1>6, <1>7, AttemptEntry, QuietStep

LEMMA PersistSnapshotStep ==
    ASSUME RollbackInv, NEW u \in Users, PersistSnapshot(u)
    PROVE  RollbackInv'
  <1>1. call[u].snapshot \in Snapshot
    BY DEF RollbackInv, TypeOK, Call
  <1>2. ~call[u].disturbed => call[u].snapshot.records = section
    BY DEF RollbackInv, KnowsSection, PersistSnapshot, At
  <1>3. QED
    BY <1>1, <1>2, AttemptStep DEF PersistSnapshot

LEMMA SnapshotFailsStep ==
    ASSUME RollbackInv, NEW u \in Users, SnapshotFails(u)
    PROVE  RollbackInv'
  <1>1. NoSnapshot \in Snapshot /\ ~NoSnapshot.taken
    BY DEF NoSnapshot, Snapshot
  <1>2. QED
    BY <1>1, AttemptStep DEF SnapshotFails

LEMMA CheckStep ==
    ASSUME RollbackInv, NEW u \in Users, Check(u)
    PROVE  RollbackInv'
  <1>1. call[u] \in Call /\ call[u].pc = "check"
    BY DEF RollbackInv, TypeOK, Check, At
  <1>2. KnowsSection(u) /\ KnowsEntry(u)
    BY DEF RollbackInv
  <1>3. CASE call' = [call EXCEPT ![u].pc = "done"]
    <2> DEFINE c == [call[u] EXCEPT !.pc = "done"]
    <2>1. c \in Call /\ c.pc = "done" /\ c.entry = call[u].entry
      BY <1>1 DEF Call
    <2>2. call' = [call EXCEPT ![u] = c] /\ call'[u] = c
      BY <1>3 DEF RollbackInv, TypeOK
    <2> HIDE DEF c
    <2>3. KnowsSection(u)' /\ KnowsEntry(u)'
      BY <1>1, <1>2, <2>1, <2>2 DEF KnowsSection, KnowsEntry, Check
    <2>4. QED
      BY <2>1, <2>2, <2>3, CallStep DEF Check
  <1>4. ASSUME NEW do \in {"add", "remove"}, NEW r \in Record,
               call' = [call EXCEPT ![u].pc = "request", ![u].change = <<do, {r}>>]
        PROVE  RollbackInv'
    <2> DEFINE c == [call[u] EXCEPT !.pc = "request", !.change = <<do, {r}>>]
    <2>1. <<do, {r}>> \in Change
      BY DEF Change
    <2>2. /\ c \in Call /\ c.pc = "request" /\ c.entry = call[u].entry
          /\ c.disturbed = call[u].disturbed
      BY <1>1, <2>1 DEF Call
    <2>3. call' = [call EXCEPT ![u] = c] /\ call'[u] = c
      BY <1>4 DEF RollbackInv, TypeOK
    <2> HIDE DEF c
    <2>4. KnowsSection(u)' /\ KnowsEntry(u)'
      BY <1>1, <1>2, <2>2, <2>3 DEF KnowsSection, KnowsEntry, Check
    <2>5. QED
      BY <2>2, <2>3, <2>4, CallStep DEF Check
  <1>5. QED
    BY <1>3, <1>4 DEF Check

\* What Fails does to the journal and to what callers are told.
LEMMA FailsTypes ==
    ASSUME RollbackInv, NEW u \in Users, call[u].pc \in {"check", "request"}, Fails(u)
    PROVE  /\ journal' \in Seq(JournalEntry) /\ Len(journal') <= MaxEntries /\ JournalKept
           /\ told' \in SUBSET (1 .. MaxEntries)
  <1>1. call[u].entry \in DOMAIN journal
    BY DEF RollbackInv, KnowsEntry
  <1>2. told \in SUBSET (1 .. MaxEntries) /\ call[u].results \in SUBSET (1 .. MaxEntries)
    BY DEF RollbackInv, TypeOK, Call
  <1>3. QED
    BY <1>1, <1>2, OutcomeUpdate DEF RollbackInv, Fails

LEMMA FailStep ==
    ASSUME RollbackInv, NEW u \in Users, CheckFails(u) \/ RequestFails(u)
    PROVE  RollbackInv'
  <1>1. /\ call[u].pc \in {"check", "request"} /\ Fails(u)
        /\ call' = [call EXCEPT ![u] = Idle] /\ section' = section /\ undo' = undo
    BY DEF CheckFails, RequestFails, At
  <1>2. call'[u].pc = "idle"
    BY <1>1 DEF RollbackInv, TypeOK, Idle
  <1>3. QED
    BY <1>1, <1>2, FailsTypes, IdleIsCall, IdleKnows, QuietStep

LEMMA SucceedsStep ==
    ASSUME RollbackInv, NEW u \in Users, Succeeds(u)
    PROVE  RollbackInv'
  <1>1. call[u] \in Call /\ call[u].entry \in DOMAIN journal
    BY DEF RollbackInv, TypeOK, KnowsEntry, Succeeds, At
  <1>2. /\ journal' \in Seq(JournalEntry) /\ Len(journal') <= MaxEntries /\ JournalKept
    BY <1>1, OutcomeUpdate DEF RollbackInv, Succeeds
  <1>3. Named(u) \in SUBSET (1 .. MaxEntries)
    BY <1>1, EntryInRange DEF Named, RollbackInv, Call
  <1>4. told \in SUBSET (1 .. MaxEntries)
    BY DEF RollbackInv, TypeOK
  <1>5. CASE call[u].plan > 1
    <2>1. call[u].plan - 1 \in 0 .. PlanSteps
      BY <1>1, <1>5, BoundsAssumption DEF Call
    <2> DEFINE c == Step(call[u].plan - 1, Named(u))
    <2>2. c \in Call
      BY <1>3, <2>1, StepIsCall
    <2>3. call' = [call EXCEPT ![u] = c] /\ told' = told
      BY <1>5 DEF Succeeds
    <2>4. call'[u].pc = "snapshot"
      BY <2>3 DEF RollbackInv, TypeOK, Step, Idle
    <2>5. section' = section /\ undo' = undo
      BY DEF Succeeds
    <2> HIDE DEF c
    <2>6. QED
      BY <1>2, <1>4, <2>2, <2>3, <2>4, <2>5, IdleKnows, QuietStep
  <1>6. CASE ~(call[u].plan > 1)
    <2>1. /\ call' = [call EXCEPT ![u] = Idle] /\ told' = told \cup Named(u)
          /\ section' = section /\ undo' = undo
      BY <1>6 DEF Succeeds
    <2>2. call'[u].pc = "idle"
      BY <2>1 DEF RollbackInv, TypeOK, Idle
    <2>3. told' \in SUBSET (1 .. MaxEntries)
      BY <1>3, <1>4, <2>1
    <2>4. QED
      BY <1>2, <2>1, <2>2, <2>3, IdleIsCall, IdleKnows, QuietStep
  <1>7. QED
    BY <1>5, <1>6

LEMMA BeginRollbackStep ==
    ASSUME RollbackInv, NEW u \in Users, NEW e \in DOMAIN journal, BeginRollback(u, e)
    PROVE  RollbackInv'
  <1> DEFINE c == [Idle EXCEPT !.pc = "load", !.entry = e, !.snapshot = journal[e].snapshot]
  <1>1. journal[e].snapshot \in Snapshot
    <2>1. journal[e] \in JournalEntry
      BY ElementOfSeq DEF RollbackInv, TypeOK
    <2>2. QED
      BY <2>1 DEF JournalEntry
  <1>2. e \in 0 .. MaxEntries
    BY EntryInRange DEF RollbackInv
  <1>3. c \in Call /\ c.pc = "load" /\ c.entry = e /\ c.snapshot = journal[e].snapshot
    BY <1>1, <1>2, IdleIsCall DEF Call
  <1>4. call' = [call EXCEPT ![u] = c] /\ call'[u] = c
    BY DEF BeginRollback, RollbackInv, TypeOK
  <1> HIDE DEF c
  <1>5. KnowsSection(u)' /\ KnowsEntry(u)'
    BY <1>3, <1>4 DEF KnowsSection, KnowsEntry, BeginRollback
  <1>6. QED
    BY <1>3, <1>4, <1>5, CallStep DEF BeginRollback

LEMMA CompareStep ==
    ASSUME RollbackInv, NEW u \in Users, Compare(u)
    PROVE  RollbackInv'
  <1> DEFINE c == [call[u] EXCEPT !.pc = "restore", !.disturbed = FALSE,
                                  !.remove = section \ call[u].snapshot.records,
                                  !.create = call[u].snapshot.records \ section]
  <1>1. /\ call[u] \in Call /\ call[u].pc = "load" /\ section \in SUBSET Record
        /\ KnowsEntry(u)
    BY DEF RollbackInv, TypeOK, Compare, At
  <1>2. /\ section \ call[u].snapshot.records \in SUBSET Record
        /\ call[u].snapshot.records \ section \in SUBSET Record
    BY <1>1 DEF Call, Snapshot
  <1>3. /\ c \in Call /\ c.pc = "restore" /\ c.entry = call[u].entry
        /\ c.snapshot = call[u].snapshot
        /\ c.remove = section \ call[u].snapshot.records
        /\ c.create = call[u].snapshot.records \ section
    BY <1>1, <1>2 DEF Call
  <1>4. call' = [call EXCEPT ![u] = c] /\ call'[u] = c
    BY DEF Compare, RollbackInv, TypeOK
  <1> HIDE DEF c
  <1>5. KnowsSection(u)' /\ KnowsEntry(u)'
    BY <1>1, <1>3, <1>4 DEF KnowsSection, KnowsEntry, Compare
  <1>6. QED
    BY <1>3, <1>4, <1>5, CallStep DEF Compare

LEMMA RestoreDoneStep ==
    ASSUME RollbackInv, NEW u \in Users, RestoreDone(u)
    PROVE  RollbackInv'
  <1>1. call'[u].pc = "idle"
    BY DEF RestoreDone, RollbackInv, TypeOK, Idle
  <1>2. QED
    BY <1>1, IdleIsCall, IdleKnows, CallStep DEF RestoreDone

\* The types after a request.
LEMMA EffectTypes ==
    ASSUME RollbackInv, NEW u \in Users, NEW S \in SUBSET Record, NEW c \in Call, Effect(u, S, c)
    PROVE  section' \in SUBSET Record /\ call' \in [Users -> Call] /\ call'[u] = c
  <1>1. ASSUME NEW v \in Users, v # u
        PROVE  [call[v] EXCEPT !.disturbed =
                   @ \/ (S # section
                          /\ call[v].pc \in {"persist", "check", "request", "restore"})] \in Call
    <2> DEFINE b == S # section /\ call[v].pc \in {"persist", "check", "request", "restore"}
               d == call[v].disturbed \/ b
    <2>1. call[v] \in Call
      BY DEF RollbackInv, TypeOK
    <2>2. d \in BOOLEAN
      OBVIOUS
    <2> HIDE DEF d
    <2>3. [call[v] EXCEPT !.disturbed = d] \in Call
      BY <2>1, <2>2 DEF Call
    <2>4. QED
      BY <2>3 DEF d
  <1>2. QED
    BY <1>1 DEF Effect

\* A rollback changes the section but neither the journal nor what is told.
LEMMA RestoreEffect ==
    ASSUME RollbackInv, UNCHANGED <<journal, told, undo>>,
           NEW u \in Users, NEW S \in SUBSET Record, NEW c \in Call, Effect(u, S, c),
           KnowsSection(u)', KnowsEntry(u)'
    PROVE  RollbackInv'
  <1>1. JournalKept
    BY DEF JournalKept
  <1>2. TypeOK'
    BY EffectTypes DEF RollbackInv, TypeOK
  <1>3. UndoIsSnapshot'
    BY <1>1, UndoKept
  <1>4. QED
    BY <1>1, <1>2, <1>3, EffectStep

LEMMA RestoreRemoveStep ==
    ASSUME RollbackInv, NEW u \in Users, NEW r \in Record, RestoreRemove(u, r)
    PROVE  RollbackInv'
  <1> DEFINE c == [call[u] EXCEPT !.remove = @ \ {r}]
  <1>1. /\ call[u] \in Call /\ section \in SUBSET Record /\ call[u].pc = "restore"
        /\ KnowsSection(u) /\ KnowsEntry(u) /\ r \in section
    BY DEF RollbackInv, TypeOK, RestoreRemove, At
  <1>2. /\ c \in Call /\ c.pc = "restore" /\ c.entry = call[u].entry
        /\ c.snapshot = call[u].snapshot /\ c.disturbed = call[u].disturbed
        /\ c.create = call[u].create /\ c.remove = call[u].remove \ {r}
    BY <1>1 DEF Call
  <1>3. Effect(u, section \ {r}, c)
    BY DEF RestoreRemove
  <1>4. section' = section \ {r} /\ call'[u] = c
    BY <1>1, <1>2, <1>3, EffectTypes DEF Effect
  <1> HIDE DEF c
  <1>5. ~c.disturbed => /\ c.remove = section' \ c.snapshot.records
                        /\ c.create = c.snapshot.records \ section'
    <2>1. r \in call[u].remove
      BY DEF RestoreRemove
    <2>2. QED
      BY <1>1, <1>2, <1>4, <2>1 DEF KnowsSection
  <1>6. KnowsSection(u)' /\ KnowsEntry(u)'
    BY <1>1, <1>2, <1>4, <1>5 DEF KnowsSection, KnowsEntry, RestoreRemove
  <1>7. QED
    BY <1>1, <1>2, <1>3, <1>6, RestoreEffect DEF RestoreRemove

LEMMA RestoreCreateStep ==
    ASSUME RollbackInv, NEW u \in Users, NEW r \in Record, RestoreCreate(u, r)
    PROVE  RollbackInv'
  <1> DEFINE c == [call[u] EXCEPT !.create = @ \ {r}]
  <1>1. /\ call[u] \in Call /\ section \in SUBSET Record /\ call[u].pc = "restore"
        /\ KnowsSection(u) /\ KnowsEntry(u) /\ r \notin section
    BY DEF RollbackInv, TypeOK, RestoreCreate, At
  <1>2. /\ c \in Call /\ c.pc = "restore" /\ c.entry = call[u].entry
        /\ c.snapshot = call[u].snapshot /\ c.disturbed = call[u].disturbed
        /\ c.remove = call[u].remove /\ c.create = call[u].create \ {r}
    BY <1>1 DEF Call
  <1>3. Effect(u, section \cup {r}, c)
    BY DEF RestoreCreate
  <1>4. section' = section \cup {r} /\ call'[u] = c
    BY <1>1, <1>2, <1>3, EffectTypes DEF Effect
  <1> HIDE DEF c
  <1>5. ~c.disturbed => /\ c.remove = section' \ c.snapshot.records
                        /\ c.create = c.snapshot.records \ section'
    <2>1. r \in call[u].create
      BY DEF RestoreCreate
    <2>2. QED
      BY <1>1, <1>2, <1>4, <2>1 DEF KnowsSection
  <1>6. KnowsSection(u)' /\ KnowsEntry(u)'
    BY <1>1, <1>2, <1>4, <1>5 DEF KnowsSection, KnowsEntry, RestoreCreate
  <1>7. QED
    BY <1>1, <1>2, <1>3, <1>6, RestoreEffect DEF RestoreCreate

LEMMA RestoreFailsStep ==
    ASSUME RollbackInv, NEW u \in Users, RestoreFails(u)
    PROVE  RollbackInv'
  <1>1. call[u] \in Call /\ section \in SUBSET Record
    BY DEF RollbackInv, TypeOK
  <1>2. PICK S \in SUBSET Record : Effect(u, S, Idle)
    <2>1. call[u].create \in SUBSET Record
      BY <1>1 DEF Call
    <2>2. QED
      BY <1>1, <2>1 DEF RestoreFails
  <1>3. call'[u] = Idle
    BY <1>2, IdleIsCall, EffectTypes
  <1>4. KnowsSection(u)' /\ KnowsEntry(u)'
    BY <1>3, IdleKnows DEF Idle
  <1>5. QED
    BY <1>2, <1>4, IdleIsCall, RestoreEffect DEF RestoreFails

\* What a write remembers for its undo is what its snapshot holds.
LEMMA RememberKeeps ==
    ASSUME RollbackInv, JournalKept, NEW u \in Users, At(u, "request"),
           call[u].change \in Change, Remember(u)
    PROVE  UndoIsSnapshot' /\ undo' \in SUBSET Undo
  <1> DEFINE e == call[u].entry
             x == [entry |-> e, before |-> section, added |-> Apply(call[u].change) \ section]
  <1>1. /\ KnowsSection(u) /\ e \in DOMAIN journal /\ section \in SUBSET Record
        /\ undo \in SUBSET Undo
    BY DEF RollbackInv, TypeOK, KnowsEntry, At
  <1>2. CASE call[u].disturbed \/ ~journal[e].snapshot.taken
    <2>1. undo' = undo
      BY <1>2 DEF Remember
    <2>2. QED
      BY <1>1, <2>1, UndoKept
  <1>3. CASE ~call[u].disturbed /\ journal[e].snapshot.taken
    <2>1. undo' = undo \cup {x}
      BY <1>3 DEF Remember
    <2>2. journal[e].snapshot.records = section
      BY <1>1, <1>3 DEF KnowsSection, At
    <2>3. x.entry = e /\ x.before = section
      OBVIOUS
    <2>4. x \in Undo
      <3>1. e \in 1 .. MaxEntries
        BY <1>1, EntryInRange DEF RollbackInv
      <3>2. Apply(call[u].change) \ section \in SUBSET Record
        BY <1>1 DEF Apply, Change
      <3>3. QED
        BY <1>1, <3>1, <3>2 DEF Undo
    <2> HIDE DEF x
    <2>5. UndoIsSnapshot'
      BY <1>1, <2>1, <2>2, <2>3 DEF RollbackInv, UndoIsSnapshot, JournalKept
    <2>6. QED
      BY <1>1, <2>1, <2>4, <2>5
  <1>4. QED
    BY <1>2, <1>3

LEMMA RequestAnsweredStep ==
    ASSUME RollbackInv, NEW u \in Users, RequestAnswered(u)
    PROVE  RollbackInv'
  <1> DEFINE c == [call[u] EXCEPT !.pc = "done", !.change = NoChange, !.disturbed = FALSE]
  <1>1. /\ call[u] \in Call /\ section \in SUBSET Record /\ call[u].pc = "request"
        /\ KnowsEntry(u) /\ call[u].change \in Change /\ NoChange \in Change
    BY DEF RollbackInv, TypeOK, RequestAnswered, At, Call, Change, NoChange
  <1>2. c \in Call /\ c.pc = "done" /\ c.entry = call[u].entry
    BY <1>1 DEF Call
  <1>3. Apply(call[u].change) \in SUBSET Record
    BY <1>1 DEF Apply, Change
  <1>4. Effect(u, Apply(call[u].change), c)
    BY DEF RequestAnswered
  <1>5. section' \in SUBSET Record /\ call' \in [Users -> Call] /\ call'[u] = c
    BY <1>2, <1>3, <1>4, EffectTypes
  <1> HIDE DEF c
  <1>6. JournalKept
    BY DEF RequestAnswered, JournalKept
  <1>7. UndoIsSnapshot' /\ undo' \in SUBSET Undo
    BY <1>1, <1>6, RememberKeeps DEF RequestAnswered
  <1>8. TypeOK'
    BY <1>5, <1>7 DEF RequestAnswered, RollbackInv, TypeOK
  <1>9. KnowsSection(u)' /\ KnowsEntry(u)'
    BY <1>1, <1>2, <1>5 DEF KnowsSection, KnowsEntry, RequestAnswered
  <1>10. QED
    BY <1>4, <1>6, <1>7, <1>8, <1>9, EffectStep

LEMMA RequestUnansweredStep ==
    ASSUME RollbackInv, NEW u \in Users, RequestUnanswered(u)
    PROVE  RollbackInv'
  <1>1. /\ call[u] \in Call /\ section \in SUBSET Record /\ call[u].pc = "request"
        /\ call[u].change \in Change
    BY DEF RollbackInv, TypeOK, RequestUnanswered, At, Call
  <1>2. Apply(call[u].change) \in SUBSET Record
    BY <1>1 DEF Apply, Change
  <1>3. Effect(u, Apply(call[u].change), Idle) /\ Fails(u)
    BY DEF RequestUnanswered
  <1>4. section' \in SUBSET Record /\ call' \in [Users -> Call] /\ call'[u] = Idle
    BY <1>2, <1>3, IdleIsCall, EffectTypes
  <1>5. /\ journal' \in Seq(JournalEntry) /\ Len(journal') <= MaxEntries /\ JournalKept
        /\ told' \in SUBSET (1 .. MaxEntries)
    BY <1>1, <1>3, FailsTypes
  <1>6. UndoIsSnapshot' /\ undo' \in SUBSET Undo
    BY <1>1, <1>5, RememberKeeps DEF RequestUnanswered
  <1>7. TypeOK'
    BY <1>4, <1>5, <1>6 DEF TypeOK
  <1>8. KnowsSection(u)' /\ KnowsEntry(u)'
    BY <1>4, IdleKnows DEF Idle
  <1>9. QED
    BY <1>3, <1>5, <1>6, <1>7, <1>8, EffectStep

\* A journal line is written or lost.
LEMMA LineStep ==
    ASSUME RollbackInv, NEW e \in DOMAIN journal, LineWritten(e) \/ LineFails(e)
    PROVE  RollbackInv'
  <1>1. PICK l \in {"written", "lost"} : journal' = [journal EXCEPT ![e].line = l]
    BY DEF LineWritten, LineFails
  <1> DEFINE entry == [journal[e] EXCEPT !.line = l]
  <1>2. journal[e] \in JournalEntry
    BY ElementOfSeq DEF RollbackInv, TypeOK
  <1>3. entry \in JournalEntry /\ entry.snapshot = journal[e].snapshot
    BY <1>2 DEF JournalEntry
  <1>4. journal' = [journal EXCEPT ![e] = entry]
    BY <1>1
  <1>5. section' = section /\ call' = call /\ told' = told /\ undo' = undo
    BY DEF LineWritten, LineFails
  <1> HIDE DEF entry
  <1>6. journal' \in Seq(JournalEntry) /\ Len(journal') <= MaxEntries /\ JournalKept
    BY <1>3, <1>4, JournalUpdate DEF RollbackInv
  <1>7. TypeOK'
    BY <1>5, <1>6 DEF RollbackInv, TypeOK
  <1>8. \A v \in Users : KnowsSection(v)' /\ KnowsEntry(v)'
    BY <1>5, <1>6, OthersKeep
  <1>9. QED
    BY <1>5, <1>6, <1>7, <1>8, UndoKept DEF RollbackInv

\* After a restart all calls are over, and the lines on their way are lost.
LEMMA CrashStep ==
    ASSUME RollbackInv, Crash
    PROVE  RollbackInv'
  <1> DEFINE entry(e) == [journal[e] EXCEPT !.line = IF @ = "pending" THEN "lost" ELSE @]
  <1>1. journal \in Seq(JournalEntry) /\ DOMAIN journal = 1 .. Len(journal)
        /\ Len(journal) \in Nat
    BY LenProperties DEF RollbackInv, TypeOK
  <1>2. ASSUME NEW e \in DOMAIN journal
        PROVE  entry(e) \in JournalEntry /\ entry(e).snapshot = journal[e].snapshot
    <2>1. journal[e] \in JournalEntry
      BY <1>1, ElementOfSeq
    <2>2. QED
      BY <2>1 DEF JournalEntry
  <1>3. journal' = [e \in 1 .. Len(journal) |-> entry(e)]
    BY <1>1 DEF Crash
  <1> HIDE DEF entry
  <1>4. journal' \in Seq(JournalEntry) /\ Len(journal') = Len(journal)
    BY <1>1, <1>2, <1>3, SeqDef, LenProperties
  <1>5. JournalKept
    BY <1>1, <1>2, <1>3 DEF JournalKept
  <1>6. /\ section' = section /\ told' = told /\ undo' = undo
        /\ call' = [u \in Users |-> Idle]
    BY DEF Crash
  <1>7. TypeOK'
    BY <1>4, <1>6, IdleIsCall DEF RollbackInv, TypeOK
  <1>8. ASSUME NEW v \in Users PROVE KnowsSection(v)' /\ KnowsEntry(v)'
    BY <1>6, IdleKnows DEF Idle
  <1>9. QED
    BY <1>5, <1>6, <1>7, <1>8, UndoKept DEF RollbackInv

LEMMA InitEstablishes == Init => RollbackInv
  <1> SUFFICES ASSUME Init PROVE RollbackInv
    OBVIOUS
  <1>1. journal \in Seq(JournalEntry) /\ Len(journal) = 0
    BY EmptySeq DEF Init
  <1>2. TypeOK
    BY <1>1, IdleIsCall, BoundsAssumption DEF Init, TypeOK
  <1>3. \A u \in Users : KnowsSection(u) /\ KnowsEntry(u)
    BY DEF Init, Idle, KnowsSection, KnowsEntry
  <1>4. QED
    BY <1>2, <1>3 DEF Init, UndoIsSnapshot, RollbackInv

LEMMA NextKeeps == RollbackInv /\ [Next]_vars => RollbackInv'
  <1> SUFFICES ASSUME RollbackInv, [Next]_vars PROVE RollbackInv'
    OBVIOUS
  <1>1. CASE UNCHANGED vars
    BY <1>1 DEF vars, RollbackInv, TypeOK, KnowsSection, KnowsEntry, UndoIsSnapshot
  <1>2. ASSUME NEW u \in Users,
               \/ BeginWrite(u) \/ ReadSnapshot(u) \/ PersistSnapshot(u) \/ SnapshotFails(u)
               \/ Check(u) \/ CheckFails(u)
               \/ RequestAnswered(u) \/ RequestUnanswered(u) \/ RequestFails(u)
               \/ Succeeds(u)
        PROVE  RollbackInv'
    BY <1>2, BeginWriteStep, ReadSnapshotStep, PersistSnapshotStep, SnapshotFailsStep,
       CheckStep, FailStep, RequestAnsweredStep, RequestUnansweredStep, SucceedsStep
  <1>3. ASSUME NEW u \in Users,
               \/ \E e \in DOMAIN journal : BeginRollback(u, e)
               \/ Compare(u) \/ RestoreDone(u) \/ RestoreFails(u)
               \/ \E r \in Record : RestoreRemove(u, r) \/ RestoreCreate(u, r)
        PROVE  RollbackInv'
    BY <1>3, BeginRollbackStep, CompareStep, RestoreDoneStep, RestoreFailsStep,
       RestoreRemoveStep, RestoreCreateStep
  <1>4. CASE \E e \in DOMAIN journal : LineWritten(e) \/ LineFails(e)
    BY <1>4, LineStep
  <1>5. CASE Crash
    BY <1>5, CrashStep
  <1>6. QED
    BY <1>1, <1>2, <1>3, <1>4, <1>5 DEF Next

\* Every call knows the section it read, unless others changed it, and every
\* remembered write has a snapshot of what it found.
THEOREM RollbackInvariant == Spec => []RollbackInv
  <1>1. QED
    BY InitEstablishes, NextKeeps, PTL DEF Spec

\* The state stays within its types: entries keep their numbers across crashes.
THEOREM TypeCorrect == Spec => []TypeOK
  <1>1. RollbackInv => TypeOK
    BY DEF RollbackInv
  <1>2. QED
    BY <1>1, RollbackInvariant, PTL

\* A completed rollback leaves the section as the write found it
\* (rollback_change after executeToolCall or apply_plan).
THEOREM RollbackUndoes == Spec => []UndoesWrite
  <1>1. RollbackInv => UndoesWrite
    <2> SUFFICES ASSUME RollbackInv, NEW u \in Users, Restored(u),
                        NEW x \in undo, x.entry = call[u].entry
                 PROVE  section = x.before
      BY DEF UndoesWrite
    <2> DEFINE s == call[u].snapshot.records
    <2>1. section \ s = {} /\ s \ section = {}
      BY DEF Restored, At, RollbackInv, KnowsSection
    <2>2. s = x.before
      BY DEF Restored, At, RollbackInv, KnowsEntry, UndoIsSnapshot
    <2> HIDE DEF s
    <2>3. section = s
      BY <2>1
    <2>4. QED
      BY <2>2, <2>3
  <1>2. QED
    BY <1>1, RollbackInvariant, PTL

-----------------------------------------------------------------------------
(* What callers are told                                                   *)

\* The call is a write that has its own journal entry.
Writing(u) == call[u].pc \in {"check", "request", "done"}

Succeeded(e) == e \in DOMAIN journal /\ journal[e].outcome = "success"

\* Entries that are told, or kept to be told, have succeeded; the entry of a
\* write under way has no outcome, and is its own.
EntriesSettled ==
    /\ \A e \in told : Succeeded(e)
    /\ \A u \in Users : \A e \in call[u].results : Succeeded(e)
    /\ \A u \in Users : Writing(u) => journal[call[u].entry].outcome = "none"
    /\ \A u, v \in Users : Writing(u) /\ Writing(v) /\ u # v => call[u].entry # call[v].entry

ToldInv == RollbackInv /\ EntriesSettled

\* A step that gives no entry an outcome, and lets no write begin.
Settles ==
    /\ told' = told
    /\ DOMAIN journal \subseteq DOMAIN journal'
    /\ \A e \in DOMAIN journal : journal'[e].outcome = journal[e].outcome
    /\ \A v \in Users : /\ call'[v].results \subseteq call[v].results
                        /\ Writing(v)' => Writing(v) /\ call'[v].entry = call[v].entry

\* The calls of others go on with the entries they have.
OthersGoOn(u) ==
    \A v \in Users : v # u => /\ call'[v].results = call[v].results
                              /\ call'[v].pc = call[v].pc /\ call'[v].entry = call[v].entry

LEMMA SettledKept == ToldInv /\ Settles => EntriesSettled'
  <1> SUFFICES ASSUME ToldInv, Settles PROVE EntriesSettled'
    OBVIOUS
  <1>1. \A u \in Users : Writing(u) => call[u].entry \in DOMAIN journal
    BY DEF ToldInv, RollbackInv, KnowsEntry, Writing
  <1>2. \A e : Succeeded(e) => Succeeded(e)'
    BY DEF Settles, Succeeded
  <1>3. \A u \in Users : Writing(u)' => journal'[call'[u].entry].outcome = "none"
    BY <1>1 DEF Settles, ToldInv, EntriesSettled
  <1>4. \A u, v \in Users : Writing(u)' /\ Writing(v)' /\ u # v => call'[u].entry # call'[v].entry
    BY DEF Settles, ToldInv, EntriesSettled
  <1>5. QED
    BY <1>2, <1>3, <1>4 DEF Settles, ToldInv, EntriesSettled

\* Steps of a call that keep the journal, and what its write is.
LEMMA CallSettles ==
    ASSUME RollbackInv, UNCHANGED <<journal, told>>,
           NEW u \in Users, NEW c, call' = [call EXCEPT ![u] = c],
           c.results \subseteq call[u].results,
           c.pc \in {"check", "request", "done"} => Writing(u) /\ c.entry = call[u].entry
    PROVE  Settles
  BY DEF Settles, Writing, RollbackInv, TypeOK

\* Requests keep what the calls of others are.
LEMMA EffectSettles ==
    ASSUME RollbackInv, UNCHANGED <<journal, told>>,
           NEW u \in Users, NEW S, NEW c, Effect(u, S, c),
           c.results \subseteq call[u].results,
           c.pc \in {"check", "request", "done"} => Writing(u) /\ c.entry = call[u].entry
    PROVE  Settles
  <1>1. ASSUME NEW v \in Users
        PROVE  /\ call'[v].results \subseteq call[v].results
               /\ Writing(v)' => Writing(v) /\ call'[v].entry = call[v].entry
    <2>1. CASE v = u
      BY <2>1 DEF Effect, Writing
    <2>2. CASE v # u
      <3> DEFINE d == call[v].disturbed \/ (S # section
                        /\ call[v].pc \in {"persist", "check", "request", "restore"})
      <3>1. call[v] \in Call
        BY DEF RollbackInv, TypeOK
      <3>2. call'[v] = [call[v] EXCEPT !.disturbed = d]
        BY <2>2 DEF Effect
      <3> HIDE DEF d
      <3>3. /\ call'[v].results = call[v].results /\ call'[v].pc = call[v].pc
            /\ call'[v].entry = call[v].entry
        BY <3>1, <3>2 DEF Call
      <3>4. QED
        BY <3>3 DEF Writing
    <2>3. QED
      BY <2>1, <2>2
  <1>2. QED
    BY <1>1 DEF Settles

\* recordAttempt: the new entry is nobody else's.
LEMMA AttemptSettles ==
    ASSUME ToldInv, NEW u \in Users, NEW snapshot \in Snapshot, Attempt(u, snapshot), told' = told
    PROVE  EntriesSettled'
  <1> DEFINE n == Len(journal')
             c == [call[u] EXCEPT !.pc = "check", !.entry = n, !.snapshot = NoSnapshot]
  <1>1. PICK dry \in BOOLEAN :
           journal' = Append(journal, [line |-> "pending", snapshot |-> snapshot,
                                       dryRun |-> dry, outcome |-> "none"])
    BY DEF Attempt
  <1> DEFINE entry == [line |-> "pending", snapshot |-> snapshot,
                       dryRun |-> dry, outcome |-> "none"]
  <1>2. journal \in Seq(JournalEntry) /\ entry \in JournalEntry /\ entry.outcome = "none"
    BY DEF ToldInv, RollbackInv, TypeOK, JournalEntry
  <1> HIDE DEF entry
  <1>3. /\ Len(journal) \in Nat /\ n = Len(journal) + 1
        /\ DOMAIN journal = 1 .. Len(journal) /\ DOMAIN journal' = 1 .. n
        /\ \A e \in 1 .. Len(journal) : journal'[e] = journal[e]
        /\ journal'[n] = entry
    BY <1>1, <1>2, AppendProperties, LenProperties DEF entry
  <1>4. n \notin DOMAIN journal
    BY <1>3
  <1>5. call' = [call EXCEPT ![u] = c]
    BY DEF Attempt
  <1> HIDE DEF n
  <1>6. /\ call'[u].results = call[u].results /\ call'[u].entry = n
        /\ \A v \in Users : v # u => call'[v] = call[v]
    <2>1. call[u] \in Call
      BY DEF ToldInv, RollbackInv, TypeOK
    <2>2. c.results = call[u].results /\ c.entry = n
      BY <2>1 DEF Call
    <2>3. call'[u] = c /\ \A v \in Users : v # u => call'[v] = call[v]
      BY <1>5 DEF ToldInv, RollbackInv, TypeOK
    <2>4. QED
      BY <2>2, <2>3
  <1> HIDE DEF c
  <1>7. \A e : Succeeded(e) => Succeeded(e)'
    BY <1>3 DEF Succeeded
  <1>8. \A v \in Users : v # u /\ Writing(v)' =>
           Writing(v) /\ call'[v].entry = call[v].entry /\ call[v].entry \in DOMAIN journal
    BY <1>6 DEF Writing, ToldInv, RollbackInv, KnowsEntry
  <1>9. \A v \in Users : Writing(v)' => journal'[call'[v].entry].outcome = "none"
    <2> SUFFICES ASSUME NEW v \in Users, Writing(v)'
                 PROVE  journal'[call'[v].entry].outcome = "none"
      OBVIOUS
    <2>1. CASE v = u
      BY <1>2, <1>3, <1>6, <2>1
    <2>2. CASE v # u
      BY <1>3, <1>8, <2>2 DEF ToldInv, EntriesSettled
    <2>3. QED
      BY <2>1, <2>2
  <1>10. \A v, w \in Users : Writing(v)' /\ Writing(w)' /\ v # w => call'[v].entry # call'[w].entry
    BY <1>4, <1>6, <1>8 DEF ToldInv, EntriesSettled
  <1>11. \A v \in Users : \A e \in call'[v].results : Succeeded(e)'
    BY <1>6, <1>7 DEF ToldInv, EntriesSettled
  <1>12. QED
    BY <1>7, <1>9, <1>10, <1>11 DEF ToldInv, EntriesSettled

\* recordOutcome settles the entry of user u's write, which is over: nothing
\* that succeeded before is touched.
LEMMA OutcomeSettles ==
    ASSUME ToldInv, NEW u \in Users, Writing(u), NEW o \in {"success", "failure"},
           journal' = Outcome(u, o), ~Writing(u)',
           OthersGoOn(u),
           \A e \in told' \cup call'[u].results :
               Succeeded(e) \/ (o = "success" /\ e = call[u].entry)
    PROVE  EntriesSettled'
  <1> PICK x : x = call[u].entry
    OBVIOUS
  <1>1. /\ x \in DOMAIN journal /\ journal[x].outcome = "none"
        /\ \A v \in Users : Writing(v) => call[v].entry \in DOMAIN journal
    BY DEF ToldInv, RollbackInv, KnowsEntry, EntriesSettled, Writing
  <1>2. journal[x] \in JournalEntry
    BY <1>1, ElementOfSeq DEF ToldInv, RollbackInv, TypeOK
  <1>3. /\ DOMAIN journal' = DOMAIN journal
        /\ \A e \in DOMAIN journal : e # x => journal'[e] = journal[e]
        /\ journal'[x].outcome = o
    BY <1>1, <1>2 DEF Outcome, JournalEntry
  <1>4. \A e : Succeeded(e) => Succeeded(e)'
    BY <1>1, <1>3 DEF Succeeded
  <1>5. o = "success" => Succeeded(x)'
    BY <1>1, <1>3 DEF Succeeded
  <1>6. \A e \in told' \cup call'[u].results : Succeeded(e)'
    BY <1>4, <1>5
  <1>7. \A v \in Users : \A e \in call'[v].results : Succeeded(e)'
    BY <1>4, <1>6 DEF ToldInv, EntriesSettled, OthersGoOn
  <1>8. \A v \in Users : Writing(v)' =>
           v # u /\ Writing(v) /\ call'[v].entry = call[v].entry /\ call[v].entry # x
    BY DEF ToldInv, EntriesSettled, OthersGoOn, Writing
  <1>9. \A v \in Users : Writing(v)' => journal'[call'[v].entry].outcome = "none"
    BY <1>1, <1>3, <1>8 DEF ToldInv, EntriesSettled
  <1>10. \A v, w \in Users : Writing(v)' /\ Writing(w)' /\ v # w => call'[v].entry # call'[w].entry
    BY <1>8 DEF ToldInv, EntriesSettled
  <1>11. QED
    BY <1>6, <1>7, <1>9, <1>10 DEF EntriesSettled

\* A write that ends without an answer names only the steps done before.
LEMMA FailsSettles ==
    ASSUME ToldInv, NEW u \in Users, CheckFails(u) \/ RequestFails(u) \/ RequestUnanswered(u)
    PROVE  EntriesSettled'
  <1>1. Writing(u) /\ journal' = Outcome(u, "failure") /\ told' = told \cup call[u].results
    BY DEF CheckFails, RequestFails, RequestUnanswered, At, Writing, Fails
  <1>2. call'[u] = Idle /\ OthersGoOn(u)
    <2>1. CASE call' = [call EXCEPT ![u] = Idle]
      BY <2>1 DEF ToldInv, RollbackInv, TypeOK, OthersGoOn
    <2>2. ASSUME NEW S, Effect(u, S, Idle)
          PROVE  call'[u] = Idle /\ OthersGoOn(u)
      <3>1. call'[u] = Idle
        BY <2>2 DEF Effect
      <3>2. ASSUME NEW v \in Users, v # u
            PROVE  /\ call'[v].results = call[v].results
                   /\ call'[v].pc = call[v].pc /\ call'[v].entry = call[v].entry
        <4> DEFINE d == call[v].disturbed \/ (S # section
                          /\ call[v].pc \in {"persist", "check", "request", "restore"})
        <4>1. call[v] \in Call
          BY DEF ToldInv, RollbackInv, TypeOK
        <4>2. call'[v] = [call[v] EXCEPT !.disturbed = d]
          BY <2>2, <3>2 DEF Effect
        <4> HIDE DEF d
        <4>3. QED
          BY <4>1, <4>2 DEF Call
      <3>3. QED
        BY <3>1, <3>2 DEF OthersGoOn
    <2>3. QED
      BY <2>1, <2>2 DEF CheckFails, RequestFails, RequestUnanswered
  <1>3. Idle.results = {} /\ Idle.pc = "idle"
    BY DEF Idle
  <1>4. \A e \in told' \cup call'[u].results : Succeeded(e)
    BY <1>1, <1>2, <1>3 DEF ToldInv, EntriesSettled
  <1>5. QED
    BY <1>1, <1>2, <1>3, <1>4, OutcomeSettles DEF Writing

LEMMA SucceedsSettles ==
    ASSUME ToldInv, NEW u \in Users, Succeeds(u)
    PROVE  EntriesSettled'
  <1>1. Writing(u) /\ journal' = Outcome(u, "success")
    BY DEF Succeeds, At, Writing
  <1>2. \A e \in Named(u) : Succeeded(e) \/ e = call[u].entry
    BY DEF Named, ToldInv, EntriesSettled
  <1>3. PICK c :
          /\ call' = [call EXCEPT ![u] = c] /\ c.pc \in {"idle", "snapshot"}
          /\ c.results \subseteq Named(u) /\ told' \subseteq told \cup Named(u)
    <2>1. CASE call[u].plan > 1
      BY <2>1 DEF Succeeds, Step, Idle
    <2>2. CASE ~(call[u].plan > 1)
      BY <2>2 DEF Succeeds, Idle
    <2>3. QED
      BY <2>1, <2>2
  <1>4. call'[u] = c /\ \A v \in Users : v # u => call'[v] = call[v]
    BY <1>3 DEF ToldInv, RollbackInv, TypeOK
  <1>5. \A e \in told' \cup call'[u].results : Succeeded(e) \/ e = call[u].entry
    BY <1>2, <1>3, <1>4 DEF ToldInv, EntriesSettled
  <1>6. QED
    BY <1>1, <1>3, <1>4, <1>5, OutcomeSettles DEF Writing, OthersGoOn

LEMMA ToldKept == ToldInv /\ [Next]_vars => EntriesSettled'
  <1> SUFFICES ASSUME ToldInv, [Next]_vars PROVE EntriesSettled'
    OBVIOUS
  <1>1. /\ RollbackInv /\ \A u \in Users : call[u] \in Call
    BY DEF ToldInv, RollbackInv, TypeOK
  <1>2. Idle.pc = "idle" /\ Idle.results = {}
    BY DEF Idle
  <1>3. CASE UNCHANGED vars
    BY <1>3, SettledKept DEF vars, Settles, Writing
  <1>4. ASSUME NEW u \in Users, BeginWrite(u) \/ ReadSnapshot(u) \/ Check(u)
        PROVE  EntriesSettled'
    <2>1. UNCHANGED <<journal, told>>
      BY <1>4 DEF BeginWrite, ReadSnapshot, Check
    <2>2. CASE BeginWrite(u)
      <3>1. PICK left : call' = [call EXCEPT ![u] = Step(left, {})]
        BY <2>2 DEF BeginWrite
      <3>2. Step(left, {}).pc = "snapshot" /\ Step(left, {}).results = {}
        BY DEF Step, Idle
      <3>3. QED
        BY <1>1, <2>1, <3>1, <3>2, CallSettles, SettledKept
    <2>3. CASE ReadSnapshot(u)
      <3> DEFINE c == [call[u] EXCEPT !.pc = "persist", !.disturbed = FALSE,
                                      !.snapshot = [taken |-> TRUE, records |-> section]]
      <3>1. call' = [call EXCEPT ![u] = c]
        BY <2>3 DEF ReadSnapshot
      <3>2. c.pc = "persist" /\ c.results = call[u].results
        BY <1>1 DEF Call
      <3> HIDE DEF c
      <3>3. QED
        BY <1>1, <2>1, <3>1, <3>2, CallSettles, SettledKept
    <2>4. CASE Check(u)
      <3>1. PICK c : /\ call' = [call EXCEPT ![u] = c] /\ c.results = call[u].results
                     /\ c.entry = call[u].entry
        <4>1. CASE call' = [call EXCEPT ![u].pc = "done"]
          <5>1. [call[u] EXCEPT !.pc = "done"].results = call[u].results
                /\ [call[u] EXCEPT !.pc = "done"].entry = call[u].entry
            BY <1>1 DEF Call
          <5>2. QED
            BY <4>1, <5>1
        <4>2. ASSUME NEW ch, call' = [call EXCEPT ![u].pc = "request", ![u].change = ch]
              PROVE  \E c : /\ call' = [call EXCEPT ![u] = c] /\ c.results = call[u].results
                            /\ c.entry = call[u].entry
          <5> DEFINE c == [call[u] EXCEPT !.pc = "request", !.change = ch]
          <5>1. c.results = call[u].results /\ c.entry = call[u].entry
            BY <1>1 DEF Call
          <5>2. call' = [call EXCEPT ![u] = c]
            BY <4>2
          <5> HIDE DEF c
          <5>3. QED
            BY <5>1, <5>2
        <4>3. QED
          BY <2>4, <4>1, <4>2 DEF Check
      <3>2. Writing(u)
        BY <2>4 DEF Check, At, Writing
      <3>3. QED
        BY <1>1, <2>1, <3>1, <3>2, CallSettles, SettledKept
    <2>5. QED
      BY <1>4, <2>2, <2>3, <2>4
  <1>5. ASSUME NEW u \in Users, PersistSnapshot(u) \/ SnapshotFails(u)
        PROVE  EntriesSettled'
    <2>1. call[u].snapshot \in Snapshot /\ NoSnapshot \in Snapshot
      BY <1>1 DEF Call, NoSnapshot, Snapshot
    <2>2. QED
      BY <1>5, <2>1, AttemptSettles DEF PersistSnapshot, SnapshotFails
  <1>6. ASSUME NEW u \in Users, RequestAnswered(u)
        PROVE  EntriesSettled'
    <2> DEFINE c == [call[u] EXCEPT !.pc = "done", !.change = NoChange, !.disturbed = FALSE]
    <2>1. c.results = call[u].results /\ c.entry = call[u].entry /\ Writing(u)
      BY <1>1, <1>6 DEF Call, RequestAnswered, At, Writing
    <2>2. Effect(u, Apply(call[u].change), c) /\ UNCHANGED <<journal, told>>
      BY <1>6 DEF RequestAnswered
    <2> HIDE DEF c
    <2>3. QED
      BY <1>1, <2>1, <2>2, EffectSettles, SettledKept
  <1>7. ASSUME NEW u \in Users, NEW e \in DOMAIN journal, BeginRollback(u, e)
        PROVE  EntriesSettled'
    <2> DEFINE c == [Idle EXCEPT !.pc = "load", !.entry = e, !.snapshot = journal[e].snapshot]
    <2>1. c.pc = "load" /\ c.results = {}
      BY DEF Idle
    <2>2. call' = [call EXCEPT ![u] = c] /\ UNCHANGED <<journal, told>>
      BY <1>7 DEF BeginRollback
    <2> HIDE DEF c
    <2>3. QED
      BY <1>1, <2>1, <2>2, CallSettles, SettledKept
  <1>8. ASSUME NEW u \in Users, Compare(u) \/ RestoreDone(u)
        PROVE  EntriesSettled'
    <2> DEFINE c == [call[u] EXCEPT !.pc = "restore", !.disturbed = FALSE,
                                    !.remove = section \ call[u].snapshot.records,
                                    !.create = call[u].snapshot.records \ section]
    <2>1. c.pc = "restore" /\ c.results = call[u].results
      BY <1>1 DEF Call
    <2>2. /\ UNCHANGED <<journal, told>>
          /\ call' = [call EXCEPT ![u] = c] \/ call' = [call EXCEPT ![u] = Idle]
      BY <1>8 DEF Compare, RestoreDone
    <2> HIDE DEF c
    <2>3. QED
      BY <1>1, <1>2, <2>1, <2>2, CallSettles, SettledKept
  <1>9. ASSUME NEW u \in Users, RestoreFails(u)
        PROVE  EntriesSettled'
    <2>1. \E S : Effect(u, S, Idle)
      BY <1>9 DEF RestoreFails
    <2>2. UNCHANGED <<journal, told>>
      BY <1>9 DEF RestoreFails
    <2>3. QED
      BY <1>1, <1>2, <2>1, <2>2, EffectSettles, SettledKept
  <1>10. ASSUME NEW u \in Users, NEW r \in Record, RestoreRemove(u, r) \/ RestoreCreate(u, r)
         PROVE  EntriesSettled'
    <2>1. PICK S, c : /\ Effect(u, S, c) /\ c.results = call[u].results /\ c.pc = "restore"
      <3>1. /\ [call[u] EXCEPT !.remove = @ \ {r}].results = call[u].results
            /\ [call[u] EXCEPT !.remove = @ \ {r}].pc = call[u].pc
            /\ [call[u] EXCEPT !.create = @ \ {r}].results = call[u].results
            /\ [call[u] EXCEPT !.create = @ \ {r}].pc = call[u].pc
        BY <1>1 DEF Call
      <3>2. call[u].pc = "restore"
        BY <1>10 DEF RestoreRemove, RestoreCreate, At
      <3>3. \/ Effect(u, section \ {r}, [call[u] EXCEPT !.remove = @ \ {r}])
            \/ Effect(u, section \cup {r}, [call[u] EXCEPT !.create = @ \ {r}])
        BY <1>10 DEF RestoreRemove, RestoreCreate
      <3>4. QED
        BY <3>1, <3>2, <3>3
    <2>2. UNCHANGED <<journal, told>>
      BY <1>10 DEF RestoreRemove, RestoreCreate
    <2>3. QED
      BY <1>1, <2>1, <2>2, EffectSettles, SettledKept
  <1>11. ASSUME NEW e \in DOMAIN journal, LineWritten(e) \/ LineFails(e)
         PROVE  EntriesSettled'
    <2>1. PICK l : journal' = [journal EXCEPT ![e].line = l]
      BY <1>11 DEF LineWritten, LineFails
    <2>2. journal[e] \in JournalEntry
      BY ElementOfSeq DEF ToldInv, RollbackInv, TypeOK
    <2>3. DOMAIN journal' = DOMAIN journal
          /\ \A x \in DOMAIN journal : journal'[x].outcome = journal[x].outcome
      BY <2>1, <2>2 DEF JournalEntry
    <2>4. call' = call /\ told' = told
      BY <1>11 DEF LineWritten, LineFails
    <2>5. QED
      BY <2>3, <2>4, SettledKept DEF Settles, Writing
  <1>12. CASE Crash
    <2>1. ASSUME NEW x \in DOMAIN journal
          PROVE  journal'[x].outcome = journal[x].outcome
      <3>1. journal[x] \in JournalEntry
        BY ElementOfSeq DEF ToldInv, RollbackInv, TypeOK
      <3>2. QED
        BY <1>12, <3>1 DEF Crash, JournalEntry
    <2>2. /\ DOMAIN journal' = DOMAIN journal /\ told' = told
          /\ \A v \in Users : call'[v] = Idle
      BY <1>12 DEF Crash
    <2>3. QED
      BY <1>2, <2>1, <2>2, SettledKept DEF Settles, Writing
  <1>13. QED
    BY <1>3, <1>4, <1>5, <1>6, <1>7, <1>8, <1>9, <1>10, <1>11, <1>12, FailsSettles,
       SucceedsSettles DEF Next

\* executeToolCall and apply_plan: no caller is told to roll back with the entry
\* of a write that failed, whatever else runs, fails or crashes.
THEOREM OnlySuccessIsTold == Spec => []ToldSucceeded
  <1>1. Init => ToldInv
    BY InitEstablishes DEF Init, ToldInv, EntriesSettled, Writing, Idle
  <1>2. ToldInv /\ [Next]_vars => ToldInv'
    BY NextKeeps, ToldKept DEF ToldInv
  <1>3. ToldInv => ToldSucceeded
    BY DEF ToldInv, EntriesSettled, Succeeded, ToldSucceeded
  <1>4. QED
    BY <1>1, <1>2, <1>3, PTL DEF Spec

----------------------------------------------------------------------------
(* The plan of one rollback, request by request.                            *)

\* Both sides hold records; the snapshot holds none of the router's own.
TypeInv ==
    /\ path \in Path
    /\ \A j \in DOMAIN before : before[j] \in Rec /\ ~before[j].dynamic
    /\ \A i \in DOMAIN table : table[i] \in Rec
    /\ pc \in {"idle", "applying", "restored"}

\* What is known of the snapshot, and of a set menu.
SnapshotInv ==
    /\ path.unique => UniqueNames(before)
    /\ path.singleton => /\ DOMAIN before = {TheId} /\ DOMAIN table = {TheId}
                         /\ ~table[TheId].dynamic
                         /\ table[TheId].name = before[TheId].name

\* The requests of p concern records of t: a removal one that is nowhere in the
\* snapshot, an update one that differs from the record of its name, which is
\* the only one of that name, and a creation one whose name will be free.
Fits(t, p) ==
    /\ p \in [remove : SUBSET Static(t), create : SUBSET DOMAIN before,
              update : SUBSET (Static(t) \X DOMAIN before)]
    /\ \A i \in p.remove : \A j \in DOMAIN before : ~Equal(t[i], before[j])
    /\ \A u \in p.update : /\ u[1] \notin p.remove
                           /\ t[u[1]].name = before[u[2]].name
                           /\ ~Equal(t[u[1]], before[u[2]])
    /\ p.update # {} => UniqueNames(before)
    /\ path.singleton => p.remove = {} /\ p.create = {}
    /\ path.user => p.create = {}
    /\ path.unique => \A j \in p.create : \A i \in Static(t) \ p.remove :
                         t[i].name # before[j].name

\* What the requests of p lead to: each record of the section is removed,
\* updated, or carries a record of the snapshot; and each of these is created,
\* brought by an update, or carried by a record that stays.
Leads(t, p) ==
    /\ \A i \in Static(t) :
          \/ i \in p.remove
          \/ \E j \in DOMAIN before : Carries(t[i], before[j]) \/ <<i, j>> \in p.update
    /\ \A j \in DOMAIN before :
          \/ j \in p.create \/ path.user
          \/ \E i \in Static(t) \ p.remove : Carries(t[i], before[j]) \/ <<i, j>> \in p.update

\* The inductive invariant.
RestoreInv ==
    /\ TypeInv /\ SnapshotInv
    /\ Fits(table, plan)
    /\ pc # "applying" => plan = NoPlan
    /\ pc # "idle" => Leads(table, plan)
    /\ AddsNoUser
    /\ KeepsWhatMatches

-----------------------------------------------------------------------------
(* Records and sections                                                    *)

LEMMA PartialFacts ==
    ASSUME NEW S, NEW T, NEW f
    PROVE  f \in Partial(S, T)
             <=> /\ f = [x \in DOMAIN f |-> f[x]]
                 /\ DOMAIN f \subseteq S /\ \A x \in DOMAIN f : f[x] \in T
  BY DEF Partial

\* An update makes record i carry the record of the snapshot.
LEMMA PatchFacts ==
    ASSUME TypeInv, NEW i \in DOMAIN table, NEW j \in DOMAIN before
    PROVE  /\ Patched(i, before[j]) \in Rec
           /\ Patched(i, before[j]).dynamic = table[i].dynamic
           /\ Patched(i, before[j]).name = before[j].name
           /\ Carries(Patched(i, before[j]), before[j])
  <1> DEFINE r == before[j]
             named == DOMAIN r.fields
             kept == DOMAIN table[i].fields \ named
             fs == [f \in named \cup kept |->
                       IF f \in named THEN r.fields[f] ELSE table[i].fields[f]]
  <1>1. table[i] \in Rec /\ r \in Rec
    BY DEF TypeInv
  <1>2. r.fields \in Partial(Field, Value) /\ table[i].fields \in Partial(Field, Value)
    BY <1>1 DEF Rec, Fields
  <1>3. fs \in Fields
    <2>1. named \subseteq Field /\ kept \subseteq Field
      BY <1>2, PartialFacts
    <2>2. \A f \in named \cup kept : fs[f] \in Value
      BY <1>2, PartialFacts
    <2>3. fs \in [named \cup kept -> Value] /\ named \cup kept \in SUBSET Field
      BY <2>1, <2>2
    <2>4. QED
      BY <2>3 DEF Fields, Partial
  <1>4. \A f \in DOMAIN r.fields : f \in DOMAIN fs /\ fs[f] = r.fields[f]
    OBVIOUS
  <1>5. Patched(i, r) = [table[i] EXCEPT !.name = r.name, !.fields = fs]
    BY DEF Patched
  <1> HIDE DEF fs
  <1>6. /\ Patched(i, r) \in Rec /\ Patched(i, r).dynamic = table[i].dynamic
        /\ Patched(i, r).name = r.name /\ Patched(i, r).fields = fs
    BY <1>1, <1>3, <1>5 DEF Rec
  <1>7. QED
    BY <1>4, <1>6 DEF Carries

LEMMA WithoutFacts ==
    ASSUME NEW i
    PROVE  /\ DOMAIN Without(i) = DOMAIN table \ {i}
           /\ \A k \in DOMAIN Without(i) : Without(i)[k] = table[k]
  BY DEF Without

LEMMA EqualCarries ==
    ASSUME NEW a, NEW b, Equal(a, b)
    PROVE  Carries(a, b)
  BY DEF Equal, Carries

\* Nothing but static records is in a snapshot.
LEMMA SnapshotFacts ==
    ASSUME TypeInv
    PROVE  /\ Static(before) = DOMAIN before
           /\ UniqueNames(before) <=>
                \A i, j \in DOMAIN before : before[i].name = before[j].name => i = j
  BY DEF TypeInv, Static, UniqueNames

LEMMA NoPlanFits ==
    ASSUME NEW t
    PROVE  Fits(t, NoPlan)
  BY DEF Fits, NoPlan

-----------------------------------------------------------------------------
(* computeRestorePlan                                                      *)

LEMMA ByKey ==
    ASSUME TypeInv, SnapshotInv, UniqueNames(before), UniqueNames(table), ~path.singleton
    PROVE  Fits(table, applyUserRestriction(PlanByKey)) /\ Leads(table, applyUserRestriction(PlanByKey))
  <1> DEFINE p == applyUserRestriction(PlanByKey)
  <1>1. /\ PlanByKey.remove = {i \in Static(table) :
                                 \A j \in DOMAIN before : before[j].name # table[i].name}
        /\ PlanByKey.create = {j \in DOMAIN before :
                                 \A i \in Static(table) : before[j].name # table[i].name}
        /\ PlanByKey.update = {u \in Static(table) \X DOMAIN before :
                                 /\ table[u[1]].name = before[u[2]].name
                                 /\ ~Equal(table[u[1]], before[u[2]])}
        /\ PlanByKey \in [remove : SUBSET Static(table), create : SUBSET DOMAIN before,
                          update : SUBSET (Static(table) \X DOMAIN before)]
    BY DEF PlanByKey
  <1>2. /\ p.remove = PlanByKey.remove /\ p.update = PlanByKey.update
        /\ p.create = (IF path.user THEN {} ELSE PlanByKey.create)
        /\ p \in [remove : SUBSET Static(table), create : SUBSET DOMAIN before,
                  update : SUBSET (Static(table) \X DOMAIN before)]
    BY <1>1 DEF applyUserRestriction
  <1> HIDE DEF p
  <1>3. \A i \in p.remove : i \in Static(table) /\ \A j \in DOMAIN before :
            before[j].name # table[i].name
    BY <1>1, <1>2
  <1>4. \A j \in p.create : j \in DOMAIN before /\ \A i \in Static(table) :
            before[j].name # table[i].name
    BY <1>1, <1>2
  <1>5. \A u \in p.update : /\ u[1] \in Static(table) /\ u[2] \in DOMAIN before
                            /\ table[u[1]].name = before[u[2]].name
                            /\ ~Equal(table[u[1]], before[u[2]])
    BY <1>1, <1>2
  <1>6. \A i \in Static(table), j \in DOMAIN before :
            table[i].name = before[j].name =>
                i \notin p.remove /\ (Carries(table[i], before[j]) \/ <<i, j>> \in p.update)
    BY <1>1, <1>2, EqualCarries
  <1>7. Fits(table, p)
    BY <1>2, <1>3, <1>4, <1>5 DEF Fits, Equal
  <1>8. Leads(table, p)
    <2>1. \A i \in Static(table) :
             \/ i \in p.remove
             \/ \E j \in DOMAIN before : Carries(table[i], before[j]) \/ <<i, j>> \in p.update
      BY <1>1, <1>2, <1>6
    <2>2. \A j \in DOMAIN before :
             \/ j \in p.create \/ path.user
             \/ \E i \in Static(table) \ p.remove :
                  Carries(table[i], before[j]) \/ <<i, j>> \in p.update
      BY <1>1, <1>2, <1>6
    <2>3. QED
      BY <2>1, <2>2 DEF Leads
  <1>9. QED
    BY <1>7, <1>8 DEF p

LEMMA BySignature ==
    ASSUME TypeInv, SnapshotInv, ~path.singleton
    PROVE  Fits(table, applyUserRestriction(PlanBySignature)) /\ Leads(table, applyUserRestriction(PlanBySignature))
  <1> DEFINE p == applyUserRestriction(PlanBySignature)
  <1>1. /\ PlanBySignature.remove = {i \in Static(table) :
                                       \A j \in DOMAIN before : ~Equal(table[i], before[j])}
        /\ PlanBySignature.create = {j \in DOMAIN before :
                                       \A i \in Static(table) : ~Equal(table[i], before[j])}
        /\ PlanBySignature.update = {}
        /\ PlanBySignature \in [remove : SUBSET Static(table), create : SUBSET DOMAIN before,
                                update : SUBSET (Static(table) \X DOMAIN before)]
    BY DEF PlanBySignature
  <1>2. /\ p.remove = PlanBySignature.remove /\ p.update = {}
        /\ p.create = (IF path.user THEN {} ELSE PlanBySignature.create)
        /\ p \in [remove : SUBSET Static(table), create : SUBSET DOMAIN before,
                  update : SUBSET (Static(table) \X DOMAIN before)]
    BY <1>1 DEF applyUserRestriction
  <1> HIDE DEF p
  <1>3. \A i \in Static(table), j \in DOMAIN before :
            Equal(table[i], before[j]) => i \notin p.remove /\ Carries(table[i], before[j])
    BY <1>1, <1>2, EqualCarries
  <1>4. path.unique => \A j \in p.create : \A i \in Static(table) \ p.remove :
            table[i].name # before[j].name
    <2> SUFFICES ASSUME path.unique, NEW j \in p.create, NEW i \in Static(table) \ p.remove,
                        table[i].name = before[j].name
                 PROVE  FALSE
      OBVIOUS
    <2>1. PICK k \in DOMAIN before : Equal(table[i], before[k])
      BY <1>1, <1>2
    <2>2. j \in DOMAIN before /\ ~Equal(table[i], before[j])
      BY <1>1, <1>2
    <2>3. j = k
      BY <2>1, <2>2, SnapshotFacts DEF SnapshotInv, Equal
    <2>4. QED
      BY <2>1, <2>2, <2>3
  <1>5. Fits(table, p)
    BY <1>1, <1>2, <1>4 DEF Fits
  <1>6. Leads(table, p)
    BY <1>1, <1>2, <1>3 DEF Leads
  <1>7. QED
    BY <1>5, <1>6 DEF p

LEMMA Singleton ==
    ASSUME TypeInv, SnapshotInv, path.singleton
    PROVE  Fits(table, PlanSingleton) /\ Leads(table, PlanSingleton)
  <1>1. /\ DOMAIN before = {TheId} /\ Static(table) = {TheId}
        /\ table[TheId].name = before[TheId].name
    BY DEF SnapshotInv, Static
  <1>2. /\ PlanSingleton.remove = {} /\ PlanSingleton.create = {}
        /\ PlanSingleton.update = {u \in Static(table) \X DOMAIN before :
                                      ~Equal(table[u[1]], before[u[2]])}
        /\ PlanSingleton \in [remove : SUBSET Static(table), create : SUBSET DOMAIN before,
                              update : SUBSET (Static(table) \X DOMAIN before)]
    BY DEF PlanSingleton, NoPlan
  <1>3. \A u \in PlanSingleton.update : /\ u[1] = TheId /\ u[2] = TheId
                                        /\ ~Equal(table[u[1]], before[u[2]])
    BY <1>1, <1>2
  <1>4. UniqueNames(before)
    BY <1>1, SnapshotFacts
  <1>5. Fits(table, PlanSingleton)
    BY <1>1, <1>2, <1>3, <1>4 DEF Fits
  <1>6. Carries(table[TheId], before[TheId]) \/ <<TheId, TheId>> \in PlanSingleton.update
    BY <1>1, <1>2, EqualCarries
  <1>7. Leads(table, PlanSingleton)
    BY <1>1, <1>2, <1>6 DEF Leads
  <1>8. QED
    BY <1>5, <1>7

LEMMA PlanIsRight ==
    ASSUME TypeInv, SnapshotInv
    PROVE  Fits(table, computeRestorePlan) /\ Leads(table, computeRestorePlan)
  BY ByKey, BySignature, Singleton DEF computeRestorePlan, CanUseKeys

-----------------------------------------------------------------------------
(* applyRestorePlan                                                        *)

\* A request done, the rest of the plan follows or is dropped.
LEMMA GoesOn ==
    ASSUME RestoreInv, pc = "applying", NEW p, GoOn(p), UNCHANGED <<path, before, first>>,
           Fits(table', p), Leads(table', p),
           (TypeInv /\ SnapshotInv /\ AddsNoUser /\ KeepsWhatMatches)'
    PROVE  RestoreInv'
  <1>1. CASE plan' = p /\ UNCHANGED pc
    <2>1. Fits(table, plan)' /\ Leads(table, plan)'
      BY <1>1 DEF Fits, Leads
    <2>2. QED
      BY <1>1, <2>1 DEF RestoreInv
  <1>2. CASE plan' = NoPlan /\ pc' = "idle"
    <2>1. Fits(table, plan)'
      BY <1>2 DEF Fits, NoPlan
    <2>2. QED
      BY <1>2, <2>1 DEF RestoreInv
  <1>3. QED
    BY <1>1, <1>2 DEF GoOn

LEMMA StartKeeps ==
    ASSUME RestoreInv, StartRollback
    PROVE  RestoreInv'
  <1>1. Fits(table, computeRestorePlan) /\ Leads(table, computeRestorePlan)
    BY PlanIsRight DEF RestoreInv
  <1>2. /\ plan' = computeRestorePlan /\ pc' = "applying"
        /\ UNCHANGED <<path, before, table, first>>
    BY DEF StartRollback
  <1> HIDE DEF computeRestorePlan
  <1>3. Fits(table, plan)' /\ Leads(table, plan)'
    BY <1>1, <1>2 DEF Fits, Leads
  <1>4. (TypeInv /\ SnapshotInv /\ AddsNoUser /\ KeepsWhatMatches)'
    BY <1>2 DEF RestoreInv, TypeInv, SnapshotInv, AddsNoUser, KeepsWhatMatches
  <1>5. QED
    BY <1>2, <1>3, <1>4 DEF RestoreInv

LEMMA RemoveKeeps ==
    ASSUME RestoreInv, Remove
    PROVE  RestoreInv'
  <1>1. PICK i \in plan.remove : /\ table' = Without(i)
                                 /\ GoOn([plan EXCEPT !.remove = @ \ {i}])
    BY DEF Remove
  <1>2. pc = "applying" /\ UNCHANGED <<path, before, first>>
    BY DEF Remove
  <1>3. Fits(table, plan) /\ Leads(table, plan) /\ TypeInv /\ SnapshotInv
    BY <1>2 DEF RestoreInv
  <1>4. i \in Static(table) /\ \A j \in DOMAIN before : ~Equal(table[i], before[j])
    BY <1>3 DEF Fits
  <1> DEFINE p == [plan EXCEPT !.remove = @ \ {i}]
  <1>5. /\ p.remove = plan.remove \ {i} /\ p.create = plan.create /\ p.update = plan.update
        /\ p = [remove |-> p.remove, create |-> p.create, update |-> p.update]
    <2>1. plan = [remove |-> plan.remove, create |-> plan.create, update |-> plan.update]
      BY <1>3 DEF Fits
    <2>2. p = [remove |-> plan.remove \ {i}, create |-> plan.create, update |-> plan.update]
      BY <2>1
    <2> HIDE DEF p
    <2>3. QED
      BY <2>2
  <1>6. GoOn(p)
    BY <1>1
  <1> HIDE DEF p
  <1>7. /\ DOMAIN table' = DOMAIN table \ {i}
        /\ \A k \in DOMAIN table' : table'[k] = table[k]
        /\ Static(table') = Static(table) \ {i}
        /\ Static(table') \ p.remove = Static(table) \ plan.remove
    BY <1>1, <1>5, WithoutFacts DEF Static
  <1>8. Static(table') \subseteq DOMAIN table'
    BY DEF Static
  <1>9. Fits(table', p)
    <2>1. \A u \in p.update : /\ u[1] \in Static(table') /\ u[2] \in DOMAIN before
                              /\ u[1] \notin p.remove
                              /\ table'[u[1]].name = before[u[2]].name
                              /\ ~Equal(table'[u[1]], before[u[2]])
      BY <1>3, <1>5, <1>7, <1>8 DEF Fits
    <2>2. p.update \subseteq Static(table') \X DOMAIN before
      BY <1>3, <1>5, <2>1 DEF Fits
    <2>3. \A k \in p.remove : \A j \in DOMAIN before : ~Equal(table'[k], before[j])
      BY <1>3, <1>5, <1>7, <1>8 DEF Fits
    <2>4. p.remove \subseteq Static(table') /\ p.create \subseteq DOMAIN before
      BY <1>3, <1>5, <1>7 DEF Fits
    <2>5. path.unique => \A j \in p.create : \A k \in Static(table') \ p.remove :
              table'[k].name # before[j].name
      BY <1>3, <1>5, <1>7, <1>8 DEF Fits
    <2>6. /\ p.update # {} => UniqueNames(before)
          /\ path.singleton => p.remove = {} /\ p.create = {}
          /\ path.user => p.create = {}
      BY <1>3, <1>5 DEF Fits
    <2>7. QED
      BY <1>5, <2>1, <2>2, <2>3, <2>4, <2>5, <2>6 DEF Fits
  <1>10. Leads(table', p)
    BY <1>3, <1>5, <1>7, <1>8 DEF Leads
  <1>11. TypeInv' /\ SnapshotInv'
    <2>1. ~path.singleton
      BY <1>1, <1>3 DEF Fits
    <2>2. QED
      BY <1>2, <1>3, <1>6, <1>7, <2>1 DEF TypeInv, SnapshotInv, GoOn
  <1>12. AddsNoUser' /\ KeepsWhatMatches'
    <2>1. AddsNoUser'
      BY <1>2, <1>7 DEF RestoreInv, AddsNoUser
    <2>2. ASSUME NEW k \in DOMAIN first,
                 first[k].dynamic \/ \E j \in DOMAIN before : Equal(first[k], before[j])
          PROVE  k \in DOMAIN table' /\ table'[k] = first[k]
      <3>1. k \in DOMAIN table /\ table[k] = first[k]
        BY <2>2 DEF RestoreInv, KeepsWhatMatches
      <3>2. k # i
        BY <1>4, <2>2, <3>1 DEF Static
      <3>3. QED
        BY <1>7, <3>1, <3>2
    <2>3. QED
      BY <1>2, <2>1, <2>2 DEF KeepsWhatMatches
  <1>13. QED
    BY <1>2, <1>6, <1>9, <1>10, <1>11, <1>12, GoesOn

LEMMA CreateKeeps ==
    ASSUME RestoreInv, Create
    PROVE  RestoreInv'
  <1>1. PICK j \in plan.create, i \in Id \ DOMAIN table :
          /\ table' = With(i, before[j])
          /\ GoOn([plan EXCEPT !.create = @ \ {j}])
    BY DEF Create, CreatesNext
  <1>2. pc = "applying" /\ plan.remove = {} /\ UNCHANGED <<path, before, first>>
    BY DEF Create, CreatesNext
  <1>3. Fits(table, plan) /\ Leads(table, plan) /\ TypeInv /\ SnapshotInv
    BY <1>2 DEF RestoreInv
  <1>4. j \in DOMAIN before /\ before[j] \in Rec /\ ~before[j].dynamic
    BY <1>3 DEF Fits, TypeInv
  <1> DEFINE p == [plan EXCEPT !.create = @ \ {j}]
  <1>5. /\ p.remove = {} /\ p.create = plan.create \ {j} /\ p.update = plan.update
        /\ p = [remove |-> p.remove, create |-> p.create, update |-> p.update]
    BY <1>2, <1>3 DEF Fits
  <1>6. GoOn(p)
    BY <1>1
  <1> HIDE DEF p
  <1>7. /\ DOMAIN table' = DOMAIN table \cup {i} /\ table'[i] = before[j]
        /\ \A k \in DOMAIN table : table'[k] = table[k]
    BY <1>1 DEF With
  <1>8. /\ Static(table') = Static(table) \cup {i}
        /\ \A k \in Static(table) : table'[k] = table[k] /\ k # i
    BY <1>1, <1>4, <1>7 DEF Static
  <1>9. Fits(table', p)
    <2>1. \A u \in p.update : /\ u[1] \in Static(table') /\ u[2] \in DOMAIN before
                              /\ table'[u[1]].name = before[u[2]].name
                              /\ ~Equal(table'[u[1]], before[u[2]])
      BY <1>3, <1>5, <1>8 DEF Fits
    <2>2. p.update \subseteq Static(table') \X DOMAIN before
      BY <1>3, <1>5, <1>8 DEF Fits
    <2>3. p.create \subseteq DOMAIN before
      BY <1>3, <1>5 DEF Fits
    <2>4. path.unique => \A d \in p.create : \A k \in Static(table') \ p.remove :
              table'[k].name # before[d].name
      <3> SUFFICES ASSUME path.unique, NEW d \in p.create, NEW k \in Static(table')
                   PROVE  table'[k].name # before[d].name
        OBVIOUS
      <3>1. d \in plan.create /\ d \in DOMAIN before /\ d # j
        BY <1>5, <2>3
      <3>2. CASE k = i
        BY <1>3, <1>4, <1>7, <3>1, <3>2, SnapshotFacts DEF SnapshotInv
      <3>3. CASE k \in Static(table)
        BY <1>2, <1>3, <1>8, <3>1, <3>3 DEF Fits
      <3>4. QED
        BY <1>8, <3>2, <3>3
    <2>5. /\ p.update # {} => UniqueNames(before)
          /\ path.singleton => p.remove = {} /\ p.create = {}
          /\ path.user => p.create = {}
      BY <1>3, <1>5 DEF Fits
    <2>6. QED
      BY <1>5, <2>1, <2>2, <2>3, <2>4, <2>5 DEF Fits
  <1>10. Leads(table', p)
    <2>1. Carries(table'[i], before[j])
      BY <1>7 DEF Carries
    <2>2. QED
      BY <1>2, <1>3, <1>4, <1>5, <1>8, <2>1 DEF Leads
  <1>11. TypeInv' /\ SnapshotInv'
    <2>1. ~path.singleton
      BY <1>1, <1>3 DEF Fits
    <2>2. QED
      BY <1>2, <1>3, <1>4, <1>6, <1>7, <2>1 DEF TypeInv, SnapshotInv, GoOn
  <1>12. AddsNoUser' /\ KeepsWhatMatches'
    <2>1. ~path.user
      BY <1>1, <1>3 DEF Fits
    <2>2. QED
      BY <1>2, <1>7, <2>1 DEF RestoreInv, AddsNoUser, KeepsWhatMatches
  <1>13. QED
    BY <1>2, <1>6, <1>9, <1>10, <1>11, <1>12, GoesOn

LEMMA UpdateKeeps ==
    ASSUME RestoreInv, Update
    PROVE  RestoreInv'
  <1>1. PICK u \in plan.update : /\ table' = With(u[1], Patched(u[1], before[u[2]]))
                                 /\ GoOn([plan EXCEPT !.update = @ \ {u}])
    BY DEF Update
  <1>2. /\ pc = "applying" /\ plan.remove = {} /\ plan.create = {}
        /\ UNCHANGED <<path, before, first>>
    BY DEF Update
  <1>3. Fits(table, plan) /\ Leads(table, plan) /\ TypeInv /\ SnapshotInv
    BY <1>2 DEF RestoreInv
  <1> DEFINE i == u[1]
             j == u[2]
             r == Patched(i, before[j])
             p == [plan EXCEPT !.update = @ \ {u}]
  <1>4. /\ i \in Static(table) /\ i \in DOMAIN table /\ ~table[i].dynamic
        /\ j \in DOMAIN before /\ u = <<i, j>>
        /\ table[i].name = before[j].name /\ ~Equal(table[i], before[j])
    BY <1>3 DEF Fits, Static
  <1>5. /\ p.remove = {} /\ p.create = {} /\ p.update = plan.update \ {u}
        /\ p = [remove |-> p.remove, create |-> p.create, update |-> p.update]
    BY <1>2, <1>3 DEF Fits
  <1>6. GoOn(p) /\ table' = With(i, r)
    BY <1>1
  <1>7. r \in Rec /\ ~r.dynamic /\ r.name = before[j].name /\ Carries(r, before[j])
    BY <1>3, <1>4, PatchFacts
  <1>8. \A d \in DOMAIN before : before[d].name = before[j].name => d = j
    BY <1>1, <1>3, <1>4, SnapshotFacts DEF Fits
  <1> HIDE DEF p, i, j, r
  <1>9. /\ DOMAIN table' = DOMAIN table /\ table'[i] = r
        /\ \A k \in DOMAIN table : k # i => table'[k] = table[k]
    BY <1>4, <1>6 DEF With
  <1>10. /\ Static(table') = Static(table) /\ Static(table) \subseteq DOMAIN table
    BY <1>4, <1>7, <1>9 DEF Static
  <1>11. Fits(table', p)
    <2>1. ASSUME NEW w \in p.update
          PROVE  /\ w[1] \in Static(table') /\ w[2] \in DOMAIN before
                 /\ table'[w[1]].name = before[w[2]].name
                 /\ ~Equal(table'[w[1]], before[w[2]])
      <3>1. /\ w \in plan.update /\ w # <<i, j>> /\ w = <<w[1], w[2]>>
            /\ w[1] \in Static(table) /\ w[2] \in DOMAIN before
            /\ table[w[1]].name = before[w[2]].name
            /\ ~Equal(table[w[1]], before[w[2]])
        BY <1>3, <1>4, <1>5 DEF Fits
      <3>2. w[1] # i
        BY <1>4, <1>8, <3>1
      <3>3. QED
        BY <1>9, <1>10, <3>1, <3>2
    <2>2. p.update \subseteq Static(table') \X DOMAIN before
      BY <1>3, <1>5, <1>10 DEF Fits
    <2>3. p.update # {} => UniqueNames(before)
      BY <1>3, <1>5 DEF Fits
    <2>4. QED
      BY <1>5, <2>1, <2>2, <2>3 DEF Fits
  <1>12. Leads(table', p)
    <2>1. ASSUME NEW k \in Static(table')
          PROVE  \E d \in DOMAIN before :
                    Carries(table'[k], before[d]) \/ <<k, d>> \in p.update
      <3>1. CASE k = i
        BY <1>4, <1>7, <1>9, <3>1
      <3>2. CASE k # i
        <4>1. PICK d \in DOMAIN before :
                Carries(table[k], before[d]) \/ <<k, d>> \in plan.update
          BY <1>2, <1>3, <1>10 DEF Leads
        <4>2. <<k, d>> # u
          BY <1>4, <3>2
        <4>3. QED
          BY <1>5, <1>9, <1>10, <3>2, <4>1, <4>2
      <3>3. QED
        BY <3>1, <3>2
    <2>2. ASSUME NEW d \in DOMAIN before, ~path.user
          PROVE  \E k \in Static(table') :
                    Carries(table'[k], before[d]) \/ <<k, d>> \in p.update
      <3>1. CASE d = j
        BY <1>4, <1>7, <1>9, <1>10, <3>1
      <3>2. CASE d # j
        <4>1. PICK k \in Static(table) :
                Carries(table[k], before[d]) \/ <<k, d>> \in plan.update
          BY <1>2, <1>3, <2>2 DEF Leads
        <4>2. table[k].name = before[d].name
          BY <1>3, <4>1 DEF Carries, Fits
        <4>3. k # i
          BY <1>4, <1>8, <3>2, <4>2
        <4>4. <<k, d>> # u
          BY <1>4, <3>2
        <4>5. QED
          BY <1>5, <1>9, <1>10, <4>1, <4>3, <4>4
      <3>3. QED
        BY <3>1, <3>2
    <2>3. QED
      BY <1>2, <1>5, <2>1, <2>2 DEF Leads
  <1>13. TypeInv' /\ SnapshotInv'
    <2>1. TypeInv'
      BY <1>2, <1>3, <1>6, <1>7, <1>9 DEF TypeInv, GoOn
    <2>2. path.singleton => TheId = i /\ TheId = j
      BY <1>3, <1>4 DEF SnapshotInv
    <2>3. QED
      BY <1>2, <1>3, <1>7, <1>9, <2>1, <2>2 DEF SnapshotInv
  <1>14. AddsNoUser' /\ KeepsWhatMatches'
    <2>1. AddsNoUser'
      BY <1>2, <1>9 DEF RestoreInv, AddsNoUser
    <2>2. ASSUME NEW k \in DOMAIN first,
                 first[k].dynamic \/ \E d \in DOMAIN before : Equal(first[k], before[d])
          PROVE  k \in DOMAIN table' /\ table'[k] = first[k]
      <3>1. k \in DOMAIN table /\ table[k] = first[k]
        BY <2>2 DEF RestoreInv, KeepsWhatMatches
      <3>2. k # i
        BY <1>4, <1>8, <2>2, <3>1 DEF Equal
      <3>3. QED
        BY <1>9, <3>1, <3>2
    <2>3. QED
      BY <1>2, <2>1, <2>2 DEF KeepsWhatMatches
  <1>15. QED
    BY <1>2, <1>6, <1>11, <1>12, <1>13, <1>14, GoesOn

\* The rollback ends, or nothing happens.
LEMMA EndsKeep ==
    ASSUME RestoreInv, Fail \/ Done \/ UNCHANGED restoreVars
    PROVE  RestoreInv'
  <1>1. /\ UNCHANGED <<path, before, table, first>> /\ pc' \in {"idle", "applying", "restored"}
        /\ pc' # "applying" => plan' = NoPlan
        /\ plan' = NoPlan \/ plan' = plan
        /\ pc' # "idle" => pc # "idle" /\ plan' = plan
    BY DEF Fail, Done, restoreVars, RestoreInv, TypeInv
  <1>2. (TypeInv /\ SnapshotInv /\ AddsNoUser /\ KeepsWhatMatches)'
    BY <1>1 DEF RestoreInv, TypeInv, SnapshotInv, AddsNoUser, KeepsWhatMatches
  <1>3. Fits(table, plan)'
    <2>1. CASE plan' = NoPlan
      BY <2>1 DEF Fits, NoPlan
    <2>2. CASE plan' = plan
      BY <1>1, <2>2 DEF RestoreInv, Fits
    <2>3. QED
      BY <1>1, <2>1, <2>2
  <1>4. pc' # "idle" => Leads(table, plan)'
    BY <1>1 DEF RestoreInv, Leads
  <1>5. QED
    BY <1>1, <1>2, <1>3, <1>4 DEF RestoreInv

LEMMA RestoreBegins == RestoreInit => RestoreInv
  <1> SUFFICES ASSUME RestoreInit PROVE RestoreInv
    OBVIOUS
  <1>1. /\ path \in Paths /\ pc = "idle" /\ plan = NoPlan /\ first = table
        /\ table \in Tables /\ before \in Snapshots
        /\ Possible(path, table) /\ Possible(path, before)
        /\ path.singleton => table[TheId].name = before[TheId].name
    BY DEF RestoreInit
  <1>2. \A i \in DOMAIN table : table[i] \in Rec
    BY <1>1, PartialFacts DEF Tables
  <1>3. \A j \in DOMAIN before : before[j] \in Rec /\ ~before[j].dynamic
    BY <1>1, PartialFacts DEF Snapshots
  <1>4. TypeInv
    BY <1>1, <1>2, <1>3, PathsAssumption DEF TypeInv
  <1>5. SnapshotInv
    BY <1>1 DEF SnapshotInv, Possible
  <1>6. Fits(table, plan)
    BY <1>1 DEF Fits, NoPlan
  <1>7. AddsNoUser /\ KeepsWhatMatches
    BY <1>1 DEF AddsNoUser, KeepsWhatMatches
  <1>8. QED
    BY <1>1, <1>4, <1>5, <1>6, <1>7 DEF RestoreInv

-----------------------------------------------------------------------------

\* Rollbacks of a section, with requests that fail or whose answers are lost,
\* and further ones from wherever they stopped, keep the invariant.
THEOREM RestoreInvariant == RestoreSpec => []RestoreInv
  <1>1. RestoreInv /\ [RestoreNext]_restoreVars => RestoreInv'
    BY StartKeeps, RemoveKeeps, CreateKeeps, UpdateKeeps, EndsKeep DEF RestoreNext
  <1>2. QED
    BY <1>1, RestoreBegins, PTL DEF RestoreSpec

\* A rollback that completes has restored the section: computeRestorePlan
\* leaves out no record of the snapshot and nothing that is not in it, whether
\* it matches by key or by signature, and from whatever an earlier rollback
\* left behind.  Deleted users are the exception.
THEOREM CompletedRestores == RestoreSpec => []RestoresContent
  <1>1. RestoreInv => RestoresContent
    <2> SUFFICES ASSUME RestoreInv, pc = "restored"
                 PROVE  /\ \A j \in DOMAIN before :
                              \/ \E i \in Static(table) : Carries(table[i], before[j])
                              \/ path.user
                        /\ \A i \in Static(table) :
                              \E j \in DOMAIN before : Carries(table[i], before[j])
      BY DEF RestoresContent
    <2>1. Leads(table, NoPlan)
      BY DEF RestoreInv
    <2>2. QED
      BY <2>1 DEF Leads, NoPlan
  <1>2. QED
    BY <1>1, RestoreInvariant, PTL

\* A rollback gives no user a second life without a password
\* (applyUserRestriction).
THEOREM UsersStayAway == RestoreSpec => []AddsNoUser
  <1>1. RestoreInv => AddsNoUser
    BY DEF RestoreInv
  <1>2. QED
    BY <1>1, RestoreInvariant, PTL

\* Dynamic records, and records that are as they were in the snapshot, are out
\* of reach of every request of applyRestorePlan.
THEOREM MatchesAreKept == RestoreSpec => []KeepsWhatMatches
  <1>1. RestoreInv => KeepsWhatMatches
    BY DEF RestoreInv
  <1>2. QED
    BY <1>1, RestoreInvariant, PTL

\* No creation whose turn it is can be refused for its name: the order of
\* applyRestorePlan is what a router with unique names asks for.
THEOREM CreationsArePossible == RestoreSpec => []NamesAreFree
  <1>1. RestoreInv => NamesAreFree
    BY DEF RestoreInv, Fits, NamesAreFree, CreatesNext, Refused
  <1>2. QED
    BY <1>1, RestoreInvariant, PTL
=============================================================================

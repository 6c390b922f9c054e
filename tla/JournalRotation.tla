--------------------------- MODULE JournalRotation ---------------------------
(***************************************************************************)
(* The write journal's files, shared by several server processes           *)
(* (domain/snapshot/write-journal.ts and retention.ts): appends that run   *)
(* unawaited beside the server, the rotation and pruning each server does  *)
(* once as it starts (cli/serve.ts), and readers.  A step is one system    *)
(* call; between two of them anything else may happen.                     *)
(*                                                                         *)
(* A file is an inode, so that a rename or an unlink does not disturb who  *)
(* has it open.  A line is torn when its process died before the newline   *)
(* was written: the line that follows continues it.                        *)
(***************************************************************************)
EXTENDS Integers, Sequences, FiniteSets

CONSTANTS
    Entry,          \* the entries that are recorded, each appended once
    Servers,        \* the server processes, each started any number of times
    Readers,        \* calls of readJournalEntries
    RotateAfter,    \* JOURNAL_ROTATE_AFTER_MS
    MaxAge,         \* maxAgeDays
    Span,           \* the longest an append or a start-up pass takes
    MaxTime         \* bound of the model

ASSUME SetsAssumption == IsFiniteSet(Entry)
ASSUME TimesAssumption ==
    /\ RotateAfter \in Nat /\ MaxAge \in Nat /\ Span \in Nat /\ MaxTime \in Nat
    /\ 2 * Span <= MaxAge       \* "Nothing writes to a segment that old"

VARIABLES
    now,
    ts,             \* when each entry was recorded
    append,         \* how far its append has come
    fd,             \* the file its append has open
    lines,          \* what each file holds, in order
    mtime,          \* when each file was last written
    created,        \* files created so far
    current,        \* the file named write-journal.ndjson
    segments,       \* the rotated files, each with the time in its name
    pass,           \* what each server's start-up pass is about to do
    reading         \* what each reader has read, and has yet to read

vars == <<now, ts, append, fd, lines, mtime, created, current, segments, pass, reading>>
appendVars == <<ts, append, fd>>
fileVars == <<lines, mtime, created>>

File == 1 .. Cardinality(Entry)     \* every file is created by an append
None == 0
Segment == [file : File, stamp : 0 .. MaxTime]
Line == [entry : Entry, torn : BOOLEAN]

Idle == [pc |-> "idle", start |-> 0, todo |-> {}, doomed |-> {}]
NotReading == [pc |-> "idle", todo |-> {}, got |-> {}, known |-> {}]

Init ==
    /\ now = 0
    /\ ts = [e \in Entry |-> 0]
    /\ append = [e \in Entry |-> "new"]
    /\ fd = [e \in Entry |-> None]
    /\ lines = [f \in File |-> <<>>]
    /\ mtime = [f \in File |-> 0]
    /\ created = 0
    /\ current = None
    /\ segments = {}
    /\ pass = [s \in Servers |-> Idle]
    /\ reading = [r \in Readers |-> NotReading]

-----------------------------------------------------------------------------
(* appendLine                                                              *)

\* recordAttempt or recordOutcome starts an append and does not wait for it.
Record(e) ==
    /\ append[e] = "new"
    /\ append' = [append EXCEPT ![e] = "begun"]
    /\ ts' = [ts EXCEPT ![e] = now]
    /\ UNCHANGED <<now, fd, fileVars, current, segments, pass, reading>>

\* appendFile opens the journal by name, creating it if there is none.
Open(e) ==
    /\ append[e] = "begun"
    /\ append' = [append EXCEPT ![e] = "open"]
    /\ IF current = None
       THEN /\ created' = created + 1
            /\ current' = created'
            /\ mtime' = [mtime EXCEPT ![created'] = now]
       ELSE UNCHANGED <<created, current, mtime>>
    /\ fd' = [fd EXCEPT ![e] = current']
    /\ UNCHANGED <<now, ts, lines, segments, pass, reading>>

WriteTo(e, line) ==
    /\ lines' = [lines EXCEPT ![fd[e]] = Append(@, line)]
    /\ mtime' = [mtime EXCEPT ![fd[e]] = now]
    /\ fd' = [fd EXCEPT ![e] = None]

\* ... and writes the line to the file it opened, whatever its name is now.
Land(e) ==
    /\ append[e] = "open"
    /\ append' = [append EXCEPT ![e] = "landed"]
    /\ WriteTo(e, [entry |-> e, torn |-> FALSE])
    /\ UNCHANGED <<now, ts, created, current, segments, pass, reading>>

\* The server dies in the middle of the write.
Tear(e) ==
    /\ append[e] = "open"
    /\ append' = [append EXCEPT ![e] = "failed"]
    /\ WriteTo(e, [entry |-> e, torn |-> TRUE])
    /\ UNCHANGED <<now, ts, created, current, segments, pass, reading>>

\* The append fails, which is only logged, or the server dies before the write.
AppendFails(e) ==
    /\ append[e] \in {"begun", "open"}
    /\ append' = [append EXCEPT ![e] = "failed"]
    /\ fd' = [fd EXCEPT ![e] = None]
    /\ UNCHANGED <<now, ts, fileVars, current, segments, pass, reading>>

-----------------------------------------------------------------------------
(* parseJournal                                                            *)

\* The lines of a file that are JSON objects: a torn line is none, and neither
\* is the one written right after it.
Readable(f) ==
    {i \in DOMAIN lines[f] : ~lines[f][i].torn /\ (i > 1 => ~lines[f][i - 1].torn)}

parseJournal(f) == {lines[f][i].entry : i \in Readable(f)}

\* When the first readable entry of a file was recorded.
OldestTs(f) ==
    LET first == CHOOSE i \in Readable(f) : \A j \in Readable(f) : i <= j
    IN  ts[lines[f][first].entry]

-----------------------------------------------------------------------------
(* rotateAndPruneJournal, once as a server starts                          *)

\* journalSegmentPaths lists the segments; the clock is read once.
StartPass(s) ==
    /\ pass[s].pc = "idle"
    /\ pass' = [pass EXCEPT ![s] = [Idle EXCEPT !.pc = "prune", !.start = now, !.todo = segments]]
    /\ UNCHANGED <<now, appendVars, fileVars, current, segments, reading>>

\* Mutant: the cutoff counts from the time the name was given only.
ExpiredByName(g, start) == g.stamp < start - MaxAge

\* Rotated, and last written, longer ago than maxAgeDays.
Expired(g, start) == g.stamp < start - MaxAge /\ mtime[g.file] < start - MaxAge

\* The name is compared, then stat() awaited.
Stat(s) ==
    /\ pass[s].pc = "prune" /\ pass[s].doomed = {}
    /\ \E g \in pass[s].todo :
          pass' = [pass EXCEPT
              ![s].todo = @ \ {g},
              ![s].doomed = IF g \in segments /\ Expired(g, pass[s].start) THEN {g} ELSE {}]
    /\ UNCHANGED <<now, appendVars, fileVars, current, segments, reading>>

\* ... and then unlink(); another server may have been faster.
Unlink(s) ==
    /\ pass[s].doomed # {}
    /\ segments' = segments \ pass[s].doomed
    /\ pass' = [pass EXCEPT ![s].doomed = {}]
    /\ UNCHANGED <<now, appendVars, fileVars, current, reading>>

\* readFile of the current journal: is its oldest entry a day old?
ReadOldest(s) ==
    /\ pass[s].pc = "prune" /\ pass[s].todo = {} /\ pass[s].doomed = {}
    /\ pass' = [pass EXCEPT ![s] =
          IF /\ current # None
             /\ Readable(current) # {}
             /\ OldestTs(current) <= pass[s].start - RotateAfter
          THEN [@ EXCEPT !.pc = "rename"]
          ELSE Idle]
    /\ UNCHANGED <<now, appendVars, fileVars, current, segments, reading>>

\* Mutant: a segment is counted although there was no file left to rename.
RenameAnyway(s) ==
    /\ pass[s].pc = "rename"
    /\ segments' = segments \cup {[file |-> current, stamp |-> pass[s].start]}
    /\ current' = None
    /\ pass' = [pass EXCEPT ![s] = Idle]
    /\ UNCHANGED <<now, appendVars, fileVars, reading>>

\* Mutant: the journal is linked to its new name and keeps the old one.
RenameByLink(s) ==
    /\ pass[s].pc = "rename"
    /\ segments' = IF current = None THEN segments
                   ELSE segments \cup {[file |-> current, stamp |-> pass[s].start]}
    /\ pass' = [pass EXCEPT ![s] = Idle]
    /\ UNCHANGED <<now, appendVars, fileVars, current, reading>>

\* rename() moves whatever bears the name by then, under a name of its own.
Rename(s) ==
    /\ pass[s].pc = "rename"
    /\ segments' = IF current = None THEN segments
                   ELSE segments \cup {[file |-> current, stamp |-> pass[s].start]}
    /\ current' = None
    /\ pass' = [pass EXCEPT ![s] = Idle]
    /\ UNCHANGED <<now, appendVars, fileVars, reading>>

\* The server dies during its pass.
StopPass(s) ==
    /\ pass[s].pc # "idle"
    /\ pass' = [pass EXCEPT ![s] = Idle]
    /\ UNCHANGED <<now, appendVars, fileVars, current, segments, reading>>

-----------------------------------------------------------------------------
(* readJournalEntries: synchronous, but other processes go on meanwhile    *)

Landed == {e \in Entry : append[e] = "landed"}

\* Mutant: the segments are listed before the current file is read.
ReadCurrentLate(r) ==
    /\ reading[r].pc = "idle"
    /\ reading' = [reading EXCEPT ![r] =
          [pc |-> "segments", todo |-> segments, got |-> {}, known |-> Landed]]
    /\ UNCHANGED <<now, appendVars, fileVars, current, segments, pass>>

\* The current file is read first.
ReadCurrent(r) ==
    /\ reading[r].pc = "idle"
    /\ reading' = [reading EXCEPT ![r] =
          [pc |-> "list", todo |-> {}, known |-> Landed,
           got |-> IF current = None THEN {} ELSE parseJournal(current)]]
    /\ UNCHANGED <<now, appendVars, fileVars, current, segments, pass>>

ListSegments(r) ==
    /\ reading[r].pc = "list"
    /\ reading' = [reading EXCEPT ![r].pc = "segments", ![r].todo = segments]
    /\ UNCHANGED <<now, appendVars, fileVars, current, segments, pass>>

\* A segment pruned meanwhile counts as empty.
ReadSegment(r) ==
    /\ reading[r].pc = "segments"
    /\ \E g \in reading[r].todo :
          reading' = [reading EXCEPT
              ![r].todo = @ \ {g},
              ![r].got = @ \cup (IF g \in segments THEN parseJournal(g.file) ELSE {})]
    /\ UNCHANGED <<now, appendVars, fileVars, current, segments, pass>>

\* The entries are deduplicated, sorted and returned.
ReadReturns(r) ==
    /\ reading[r].pc = "segments" /\ reading[r].todo = {}
    /\ reading' = [reading EXCEPT ![r] = NotReading]
    /\ UNCHANGED <<now, appendVars, fileVars, current, segments, pass>>

-----------------------------------------------------------------------------

\* Time passes; no append and no start-up pass takes longer than Span.
Tick ==
    /\ now < MaxTime
    /\ \A e \in Entry : append[e] \in {"begun", "open"} => now < ts[e] + Span
    /\ \A s \in Servers : pass[s].pc # "idle" => now < pass[s].start + Span
    /\ now' = now + 1
    /\ UNCHANGED <<appendVars, fileVars, current, segments, pass, reading>>

Next ==
    \/ \E e \in Entry : Record(e) \/ Open(e) \/ Land(e) \/ Tear(e) \/ AppendFails(e)
    \/ \E s \in Servers :
          StartPass(s) \/ Stat(s) \/ Unlink(s) \/ ReadOldest(s) \/ Rename(s) \/ StopPass(s)
    \/ \E r \in Readers :
          ReadCurrent(r) \/ ListSegments(r) \/ ReadSegment(r) \/ ReadReturns(r)
    \/ Tick

Spec == Init /\ [][Next]_vars

-----------------------------------------------------------------------------
(* Properties                                                              *)

TypeOK ==
    /\ now \in 0 .. MaxTime
    /\ ts \in [Entry -> 0 .. MaxTime]
    /\ append \in [Entry -> {"new", "begun", "open", "landed", "failed"}]
    /\ fd \in [Entry -> {None} \cup File]
    /\ lines \in [File -> Seq(Line)]
    /\ mtime \in [File -> 0 .. MaxTime]
    /\ created \in 0 .. Cardinality(Entry)
    /\ current \in {None} \cup File
    /\ segments \subseteq Segment
    /\ pass \in [Servers -> [pc : {"idle", "prune", "rename"}, start : 0 .. MaxTime,
                              todo : SUBSET Segment, doomed : SUBSET Segment]]
    /\ reading \in [Readers -> [pc : {"idle", "list", "segments"}, todo : SUBSET Segment,
                                 got : SUBSET Entry, known : SUBSET Entry]]

\* The files that readers look at.
Linked == {g.file : g \in segments} \cup ({current} \ {None})

Recent(e) == now - ts[e] <= MaxAge

\* The entry was written right behind a torn line.
Swallowed(e) ==
    \E f \in File : \E i \in 2 .. Len(lines[f]) :
        lines[f][i].entry = e /\ lines[f][i - 1].torn

\* retention.ts:60-75: rotation and pruning, by any number of servers at once,
\* lose no entry that was appended within maxAgeDays, also one whose append was
\* under way when its file was renamed.  Only a torn line costs another entry.
NothingLost ==
    \A e \in Landed :
        Recent(e) /\ ~Swallowed(e) => \E f \in Linked : e \in parseJournal(f)

\* write-journal.ts:145-148: a read that overlaps rotations finds every entry
\* that had been appended when it began and has not expired since.
ReadsAreComplete ==
    \A r \in Readers :
        reading[r].pc = "segments" /\ reading[r].todo = {} =>
            \A e \in reading[r].known : Recent(e) /\ ~Swallowed(e) => e \in reading[r].got

\* A file bears one name: rotations that race never leave the journal and a
\* segment, or two segments, on the same file.
OneNamePerFile ==
    /\ \A g, h \in segments : g.file = h.file => g = h
    /\ \A g \in segments : g.file # current

\* write-journal.ts:57-60: a line torn by a crash "must not make the rest of the
\* journal unreadable".
TornLineIsContained ==
    \A e \in Landed : Recent(e) => \E f \in Linked : e \in parseJournal(f)
=============================================================================

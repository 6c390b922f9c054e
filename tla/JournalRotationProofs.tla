------------------------ MODULE JournalRotationProofs ------------------------
(***************************************************************************)
(* Rotation and pruning lose nothing, and reads that overlap them are      *)
(* complete: for any finite number of entries, any servers and readers,    *)
(* and any ages with 2 * Span <= MaxAge.                                   *)
(***************************************************************************)
EXTENDS JournalRotation, FiniteSetTheorems, SequenceTheorems, TLAPS

\* Entries and passes began in the past, and have not outlived Span.
Timely ==
    /\ \A e \in Entry : ts[e] <= now
    /\ \A e \in Entry : append[e] \in {"begun", "open"} => now <= ts[e] + Span
    /\ \A s \in Servers : pass[s].start <= now
    /\ \A s \in Servers : pass[s].pc # "idle" => now <= pass[s].start + Span

\* Entries that have opened a file, at most one new file for each.
Opened == {e \in Entry : append[e] \notin {"new", "begun"}}

\* Only files that have been created are named, open or written to.
FilesExist ==
    /\ created <= Cardinality(Opened)
    /\ current <= created
    /\ \A e \in Entry : fd[e] <= created
    /\ \A e \in Entry : append[e] = "open" <=> fd[e] # None
    /\ \A g \in segments : g.file <= created
    /\ \A f \in File : f > created => Len(lines[f]) = 0
    /\ \A f \in File : mtime[f] <= now

\* An append that has a segment open began before it was rotated.
LateAppends ==
    \A g \in segments : \A e \in Entry : fd[e] = g.file => ts[e] <= g.stamp + Span

\* Lines belong to appends that have ended, and are not younger than their file.
LinesAreEntries ==
    \A f \in File : \A i \in 1 .. Len(lines[f]) :
        LET e == lines[f][i].entry
        IN  ts[e] <= mtime[f] /\ append[e] \in {"landed", "failed"}

HasLine(e, f) ==
    \E i \in 1 .. Len(lines[f]) : lines[f][i].entry = e /\ ~lines[f][i].torn
LandedHaveLines == \A e \in Landed : \E f \in 1 .. created : HasLine(e, f)

\* Nobody writes to the file any more, and all that is in it has expired.
Dead(f) == mtime[f] < now - MaxAge /\ \A e \in Entry : fd[e] # f

LinkedOrDead == \A f \in 1 .. created : f \in Linked \/ Dead(f)

\* A segment about to be unlinked was dead when it was looked at, and stays so.
DoomedAreDead ==
    \A s \in Servers : \A g \in pass[s].doomed :
        g.file <= created /\ g.file # current /\ Dead(g.file)

\* What a reader should return it has got, or will find in a segment.
Expects(e) == Recent(e) /\ ~Swallowed(e)
InSegments(e, S) == \E g \in S \cap segments : e \in parseJournal(g.file)
ReaderFinds(r) ==
    \A e \in reading[r].known :
        /\ e \in Landed
        /\ Expects(e) =>
             /\ reading[r].pc = "list" => e \in reading[r].got \/ InSegments(e, segments)
             /\ reading[r].pc = "segments" =>
                    e \in reading[r].got \/ InSegments(e, reading[r].todo)
ReadersFind == \A r \in Readers : ReaderFinds(r)

\* The inductive invariant, but for the readers.
FilesInv ==
    /\ TypeOK
    /\ Timely
    /\ FilesExist
    /\ OneNamePerFile
    /\ LateAppends
    /\ LinesAreEntries
    /\ LandedHaveLines
    /\ LinkedOrDead
    /\ DoomedAreDead

JournalInv == FilesInv /\ ReadersFind

-----------------------------------------------------------------------------
LEMMA EntryCount == Cardinality(Entry) \in Nat
  BY SetsAssumption, FS_CardinalityType

LEMMA OpenedCount ==
    ASSUME NEW S \in SUBSET Entry
    PROVE  IsFiniteSet(S) /\ Cardinality(S) \in Nat /\ Cardinality(S) <= Cardinality(Entry)
  BY SetsAssumption, FS_Subset, FS_CardinalityType

\* The parts of the type invariant that bound files and times.
LEMMA Numbers ==
    ASSUME TypeOK
    PROVE  /\ now \in Nat /\ MaxTime \in Nat /\ Span \in Nat /\ MaxAge \in Nat
           /\ \A e \in Entry : ts[e] \in Nat /\ fd[e] \in Nat
           /\ \A f \in File : f \in Nat /\ f # None /\ mtime[f] \in Nat
           /\ created \in Nat /\ current \in Nat
           /\ \A g \in segments : g.file \in File /\ g.stamp \in Nat
           /\ \A s \in Servers : pass[s].start \in Nat
           /\ 1 .. created \subseteq File
  <1>1. /\ now \in Nat /\ MaxTime \in Nat /\ Span \in Nat /\ MaxAge \in Nat
        /\ created \in Nat /\ current \in Nat
        /\ 1 .. created \subseteq File
    BY EntryCount, TimesAssumption DEF TypeOK, File, None
  <1>2. \A f \in File : f \in Nat /\ f # None /\ mtime[f] \in Nat
    <2>1. \A f \in File : f \in Nat /\ f # None
      BY EntryCount DEF File, None
    <2>2. \A f \in File : mtime[f] \in 0 .. MaxTime
      BY DEF TypeOK
    <2>3. QED
      BY <2>1, <2>2, TimesAssumption
  <1>3. \A e \in Entry : ts[e] \in Nat /\ fd[e] \in Nat
    BY EntryCount, TimesAssumption DEF TypeOK, File, None
  <1>4. \A g \in segments : g.file \in File /\ g.stamp \in Nat
    BY TimesAssumption DEF TypeOK, Segment
  <1>5. \A s \in Servers : pass[s].start \in Nat
    BY TimesAssumption DEF TypeOK
  <1>6. QED
    BY <1>1, <1>2, <1>3, <1>4, <1>5

LEMMA LineFacts ==
    ASSUME TypeOK, NEW f \in File
    PROVE  /\ Len(lines[f]) \in Nat
           /\ DOMAIN lines[f] = 1 .. Len(lines[f])
           /\ \A i \in 1 .. Len(lines[f]) : lines[f][i] \in Line
  <1>1. lines[f] \in Seq(Line)
    BY DEF TypeOK
  <1>2. QED
    BY <1>1, LenProperties, ElementOfSeq

LEMMA InitFiles == Init => FilesInv
  <1> SUFFICES ASSUME Init PROVE FilesInv
    OBVIOUS
  <1> USE DEF Init
  <1>1. <<>> \in Seq(Line) /\ Len(<<>>) = 0
    BY EmptySeq
  <1>2. TypeOK
    BY <1>1, EntryCount, TimesAssumption DEF TypeOK, Idle, NotReading, None
  <1>3. Timely
    BY TimesAssumption DEF Timely, Idle
  <1>4. FilesExist
    BY <1>1, OpenedCount DEF FilesExist, None, Opened
  <1>5. OneNamePerFile /\ LateAppends
    BY DEF OneNamePerFile, LateAppends
  <1>6. LinesAreEntries /\ LandedHaveLines
    BY <1>1 DEF LinesAreEntries, LandedHaveLines, Landed
  <1>7. LinkedOrDead /\ DoomedAreDead
    BY DEF LinkedOrDead, DoomedAreDead, Idle
  <1>8. QED
    BY <1>2, <1>3, <1>4, <1>5, <1>6, <1>7 DEF FilesInv

-----------------------------------------------------------------------------
(* Appends                                                                 *)

LEMMA RecordFiles ==
    ASSUME FilesInv, NEW x \in Entry, Record(x)
    PROVE  FilesInv'
  <1> USE DEF FilesInv, Record, appendVars, fileVars
  <1>1. TypeOK'
    BY DEF TypeOK
  <1>2. Timely'
    BY Numbers, TimesAssumption DEF Timely, TypeOK
  <1>3. Opened' = Opened
    BY DEF Opened, TypeOK
  <1>4. FilesExist'
    BY <1>3 DEF FilesExist, TypeOK
  <1>5. fd[x] = None
    BY DEF FilesExist
  <1>6. OneNamePerFile' /\ LateAppends'
    BY <1>5, Numbers DEF OneNamePerFile, LateAppends, TypeOK
  <1>7. LinesAreEntries'
    BY LineFacts DEF LinesAreEntries, TypeOK, Line
  <1>8. Landed' = Landed
    BY DEF Landed, TypeOK
  <1>9. LandedHaveLines'
    BY <1>8 DEF LandedHaveLines, HasLine
  <1>10. LinkedOrDead' /\ DoomedAreDead'
    BY DEF LinkedOrDead, DoomedAreDead, Dead, Linked
  <1>11. QED
    BY <1>1, <1>2, <1>4, <1>6, <1>7, <1>9, <1>10

LEMMA OpenFiles ==
    ASSUME FilesInv, NEW x \in Entry, Open(x)
    PROVE  FilesInv'
  <1> USE DEF FilesInv
  <1>1. /\ append[x] = "begun" /\ append' = [append EXCEPT ![x] = "open"]
        /\ fd' = [fd EXCEPT ![x] = current']
        /\ UNCHANGED <<now, ts, lines, segments, pass, reading>>
    BY DEF Open
  <1>2. /\ x \notin Opened /\ Opened' = Opened \cup {x}
        /\ Cardinality(Opened') = Cardinality(Opened) + 1
        /\ Cardinality(Opened') <= Cardinality(Entry)
    <2>1. x \notin Opened /\ Opened' = Opened \cup {x} /\ Opened \subseteq Entry
      BY <1>1 DEF Opened, TypeOK
    <2>2. IsFiniteSet(Opened)
      BY <2>1, OpenedCount
    <2>3. QED
      BY <2>1, <2>2, FS_AddElement, OpenedCount
  <1>3. /\ created' \in {created, created + 1}
        /\ current' \in {current, created'} /\ current' # None
        /\ \A f \in 1 .. created : mtime'[f] = mtime[f]
        /\ mtime' \in [File -> 0 .. MaxTime]
        /\ \A f \in File : mtime[f] <= mtime'[f] /\ mtime'[f] <= now
        /\ created' <= Cardinality(Opened')
        /\ created' \in File
        /\ current # None => created' = created /\ current' = current
        /\ current = None => created' = created + 1 /\ current' = created + 1
    <2> USE Numbers, EntryCount
    <2>1. CASE current = None
      <3>1. created' = created + 1 /\ current' = created + 1
            /\ mtime' = [mtime EXCEPT ![created + 1] = now]
        BY <2>1 DEF Open
      <3>2. created + 1 <= Cardinality(Opened')
        BY <1>2, OpenedCount DEF FilesExist, Opened
      <3>3. created + 1 \in File
        BY <1>2, <3>2, OpenedCount DEF File, Opened
      <3>4. \A f \in File : mtime[f] <= mtime'[f] /\ mtime'[f] <= now
        BY <3>1, <3>3 DEF FilesExist, TypeOK
      <3>5. QED
        BY <2>1, <3>1, <3>2, <3>3, <3>4 DEF TypeOK, None
    <2>2. CASE current # None
      <3>1. created' = created /\ current' = current /\ mtime' = mtime
        BY <2>2 DEF Open
      <3>2. created <= Cardinality(Opened')
        BY <1>2, OpenedCount DEF FilesExist, Opened
      <3>3. created \in File
        BY <2>2 DEF FilesExist, TypeOK, File, None
      <3>4. QED
        BY <2>2, <3>1, <3>2, <3>3 DEF FilesExist, TypeOK, None
    <2>3. QED
      BY <2>1, <2>2
  <1>4. current' \in File /\ current' <= created' /\ created <= created'
    <2>1. created \in Nat /\ current \in Nat /\ created <= Cardinality(Entry)
      BY Numbers, EntryCount DEF TypeOK
    <2>2. CASE current = None
      BY <1>3, <2>1, <2>2
    <2>3. CASE current # None
      <3>1. current \in File /\ current <= created
        BY <2>3 DEF TypeOK, FilesExist
      <3>2. QED
        BY <1>3, <2>1, <2>3, <3>1
    <2>4. QED
      BY <2>2, <2>3
  <1>5. TypeOK'
    <2>1. /\ append' \in [Entry -> {"new", "begun", "open", "landed", "failed"}]
          /\ fd' \in [Entry -> {None} \cup File]
      BY <1>1, <1>4 DEF TypeOK
    <2>2. created' \in 0 .. Cardinality(Entry) /\ current' \in {None} \cup File
      BY <1>3, <1>4 DEF File
    <2>3. QED
      BY <1>1, <1>3, <2>1, <2>2 DEF TypeOK
  <1>6. Timely'
    BY <1>1 DEF Timely, TypeOK
  <1>7. FilesExist'
    <2>1. ASSUME NEW e \in Entry
          PROVE  fd'[e] <= created' /\ (append'[e] = "open" <=> fd'[e] # None)
      <3>1. CASE e = x
        BY <1>1, <1>3, <1>4, <3>1 DEF TypeOK
      <3>2. CASE e # x
        <4>1. fd'[e] = fd[e] /\ append'[e] = append[e] /\ fd[e] <= created
          BY <1>1, <3>2 DEF FilesExist, TypeOK
        <4>2. fd[e] \in Nat /\ created \in Nat /\ created' \in Nat
          BY <1>3, Numbers
        <4>3. QED
          BY <1>4, <4>1, <4>2 DEF FilesExist
      <3>3. QED
        BY <3>1, <3>2
    <2>2. \A g \in segments' : g.file <= created'
      BY <1>1, <1>3, <1>4, Numbers DEF FilesExist
    <2>3. \A f \in File : f > created' => Len(lines'[f]) = 0
      BY <1>1, <1>3, <1>4, Numbers DEF FilesExist
    <2>4. QED
      BY <1>1, <1>3, <1>4, <2>1, <2>2, <2>3 DEF FilesExist
  <1>8. \A g \in segments : g.file # current'
    BY <1>3, Numbers DEF OneNamePerFile, FilesExist
  <1>9. OneNamePerFile' /\ LateAppends'
    BY <1>1, <1>8 DEF OneNamePerFile, LateAppends, TypeOK
  <1>10. LinesAreEntries'
    <2> SUFFICES ASSUME NEW f \in File, NEW i \in 1 .. Len(lines[f])
                 PROVE  /\ ts[lines[f][i].entry] <= mtime'[f]
                        /\ append'[lines[f][i].entry] \in {"landed", "failed"}
      BY <1>1 DEF LinesAreEntries
    <2>1. lines[f][i].entry \in Entry
      BY LineFacts DEF Line
    <2>2. /\ ts[lines[f][i].entry] <= mtime[f]
          /\ append[lines[f][i].entry] \in {"landed", "failed"}
      BY DEF LinesAreEntries
    <2>3. mtime[f] <= mtime'[f] /\ mtime'[f] \in Nat
      BY <1>3, TimesAssumption
    <2>4. lines[f][i].entry # x /\ append'[lines[f][i].entry] = append[lines[f][i].entry]
      BY <1>1, <2>1, <2>2 DEF TypeOK
    <2>5. ts[lines[f][i].entry] \in Nat /\ mtime[f] \in Nat
      BY <2>1, Numbers
    <2>6. QED
      BY <2>2, <2>3, <2>4, <2>5
  <1>11. LandedHaveLines'
    <2>1. Landed' = Landed
      BY <1>1 DEF Landed, TypeOK
    <2>2. 1 .. created \subseteq 1 .. created'
      BY <1>3, Numbers
    <2>3. QED
      BY <1>1, <2>1, <2>2 DEF LandedHaveLines, HasLine
  <1>12. ASSUME NEW f \in 1 .. created, Dead(f), f # current'
         PROVE  Dead(f)'
    BY <1>1, <1>3, <1>12 DEF Dead, TypeOK
  <1>13. LinkedOrDead'
    <2> SUFFICES ASSUME NEW f \in 1 .. created', f \notin Linked'
                 PROVE  Dead(f)'
      BY DEF LinkedOrDead
    <2>1. f # current' /\ f \in 1 .. created
      BY <1>3, Numbers DEF Linked, None
    <2>2. f \notin Linked
      BY <1>1, <1>3, <2>1 DEF Linked
    <2>3. QED
      BY <1>12, <2>1, <2>2 DEF LinkedOrDead
  <1>14. DoomedAreDead'
    <2> SUFFICES ASSUME NEW s \in Servers, NEW g \in pass[s].doomed
                 PROVE  g.file <= created' /\ g.file # current' /\ Dead(g.file)'
      BY <1>1 DEF DoomedAreDead
    <2>1. g.file \in File /\ g.file <= created /\ g.file # current /\ Dead(g.file)
      BY DEF DoomedAreDead, TypeOK, Segment
    <2>2. g.file \in 1 .. created /\ g.file # current'
      BY <1>3, <2>1, Numbers DEF File
    <2>3. QED
      BY <1>3, <1>4, <1>12, <2>1, <2>2, Numbers
  <1>15. QED
    BY <1>5, <1>6, <1>7, <1>9, <1>10, <1>11, <1>13, <1>14

\* What a write to an open file does to the lines.
LEMMA WriteLines ==
    ASSUME FilesInv, NEW x \in Entry, append[x] = "open", NEW line \in Line, WriteTo(x, line)
    PROVE  /\ fd[x] \in File /\ fd[x] <= created
           /\ lines' \in [File -> Seq(Line)]
           /\ Len(lines'[fd[x]]) = Len(lines[fd[x]]) + 1
           /\ lines'[fd[x]][Len(lines[fd[x]]) + 1] = line
           /\ \A f \in File : f # fd[x] => lines'[f] = lines[f]
           /\ \A f \in File : \A i \in 1 .. Len(lines[f]) : lines'[f][i] = lines[f][i]
           /\ \A f \in File : Len(lines[f]) \in Nat /\ Len(lines[f]) <= Len(lines'[f])
  <1>1. fd[x] \in File /\ fd[x] <= created
    BY DEF FilesInv, FilesExist, TypeOK
  <1> DEFINE l == lines[fd[x]]
  <1>2. l \in Seq(Line)
    BY <1>1 DEF FilesInv, TypeOK
  <1>3. /\ Append(l, line) \in Seq(Line) /\ Len(l) \in Nat
        /\ Len(Append(l, line)) = Len(l) + 1
        /\ \A i \in 1 .. Len(l) : Append(l, line)[i] = l[i]
        /\ Append(l, line)[Len(l) + 1] = line
    BY <1>2, AppendProperties, LenProperties
  <1>4. lines' = [lines EXCEPT ![fd[x]] = Append(l, line)] /\ lines \in [File -> Seq(Line)]
    BY DEF WriteTo, FilesInv, TypeOK
  <1>5. \A f \in File : Len(lines[f]) \in Nat
    BY LineFacts DEF FilesInv
  <1>6. lines'[fd[x]] = Append(l, line) /\ \A f \in File : f # fd[x] => lines'[f] = lines[f]
    BY <1>1, <1>4
  <1>7. lines' \in [File -> Seq(Line)]
    BY <1>1, <1>3, <1>4
  <1> HIDE DEF l
  <1>8. \A f \in File : \A i \in 1 .. Len(lines[f]) : lines'[f][i] = lines[f][i]
    BY <1>3, <1>6 DEF l
  <1>9. \A f \in File : Len(lines[f]) <= Len(lines'[f])
    BY <1>3, <1>5, <1>6 DEF l
  <1>10. QED
    BY <1>1, <1>3, <1>5, <1>6, <1>7, <1>8, <1>9 DEF l

\* Land and Tear: the line is written, whole or torn.
LEMMA WriteFiles ==
    ASSUME FilesInv, NEW x \in Entry, Land(x) \/ Tear(x)
    PROVE  FilesInv'
  <1> USE DEF FilesInv
  <1>1. PICK line \in Line :
          /\ append[x] = "open" /\ WriteTo(x, line) /\ line.entry = x
          /\ append' = [append EXCEPT ![x] = IF line.torn THEN "failed" ELSE "landed"]
          /\ UNCHANGED <<now, ts, created, current, segments, pass, reading>>
    <2>1. CASE Land(x)
      <3>1. [entry |-> x, torn |-> FALSE] \in Line
        BY DEF Line
      <3>2. QED
        BY <2>1, <3>1 DEF Land
    <2>2. CASE Tear(x)
      <3>1. [entry |-> x, torn |-> TRUE] \in Line
        BY DEF Line
      <3>2. QED
        BY <2>2, <3>1 DEF Tear
    <2>3. QED
      BY <2>1, <2>2
  <1> DEFINE F == fd[x]
  <1>0. /\ lines' \in [File -> Seq(Line)]
        /\ Len(lines'[F]) = Len(lines[F]) + 1
        /\ lines'[F][Len(lines[F]) + 1] = line
        /\ \A f \in File : f # F => lines'[f] = lines[f]
        /\ \A f \in File : \A i \in 1 .. Len(lines[f]) : lines'[f][i] = lines[f][i]
        /\ \A f \in File : Len(lines[f]) \in Nat /\ Len(lines[f]) <= Len(lines'[f])
    BY <1>1, WriteLines
  <1>2. F \in File /\ F <= created /\ F \in 1 .. created
    BY <1>1, WriteLines, Numbers DEF File
  <1>3. /\ mtime' = [mtime EXCEPT ![F] = now] /\ fd' = [fd EXCEPT ![x] = None]
        /\ \A f \in File : mtime[f] <= mtime'[f] /\ mtime'[f] <= now
    <2>1. mtime' = [mtime EXCEPT ![F] = now] /\ fd' = [fd EXCEPT ![x] = None]
      BY <1>1 DEF WriteTo
    <2>2. \A f \in File : mtime'[f] = IF f = F THEN now ELSE mtime[f]
      BY <2>1 DEF TypeOK
    <2>3. now \in Nat /\ \A f \in File : mtime[f] \in Nat /\ mtime[f] <= now
      BY Numbers DEF FilesExist
    <2>4. \A f \in File : mtime[f] <= mtime'[f] /\ mtime'[f] <= now
      BY <2>2, <2>3
    <2>5. QED
      BY <2>1, <2>4
  <1>4. TypeOK'
    BY <1>1, <1>2, <1>3, WriteLines DEF TypeOK, Line
  <1>5. Timely'
    BY <1>1 DEF Timely, TypeOK, Line
  <1>6. FilesExist'
    <2>1. Opened' = Opened
      BY <1>1 DEF Opened, TypeOK, Line
    <2>2. \A f \in File : f > created' => Len(lines'[f]) = 0
      <3>1. ASSUME NEW f \in File, f > created' PROVE Len(lines'[f]) = 0
        <4>1. created' = created /\ created \in Nat /\ F \in Nat /\ f \in Nat
          BY <1>1, <1>2, Numbers
        <4>2. f # F /\ f > created
          BY <1>2, <3>1, <4>1
        <4>3. QED
          BY <1>0, <4>2 DEF FilesExist
      <3>2. QED
        BY <3>1
    <2>3. append'[x] # "open" /\ \A e \in Entry \ {x} : append'[e] = append[e]
      BY <1>1 DEF TypeOK
    <2>4. fd'[x] = None /\ \A e \in Entry \ {x} : fd'[e] = fd[e]
      BY <1>3 DEF TypeOK
    <2>5. \A e \in Entry : fd'[e] <= created /\ (append'[e] = "open" <=> fd'[e] # None)
      BY <2>3, <2>4, Numbers DEF FilesExist, None
    <2>6. QED
      BY <1>1, <1>3, <2>1, <2>2, <2>5 DEF FilesExist
  <1>7. OneNamePerFile' /\ LateAppends'
    BY <1>1, <1>3, Numbers DEF OneNamePerFile, LateAppends, TypeOK
  <1>8. LinesAreEntries'
    <2> SUFFICES ASSUME NEW f \in File, NEW i \in 1 .. Len(lines'[f])
                 PROVE  /\ ts[lines'[f][i].entry] <= mtime'[f]
                        /\ append'[lines'[f][i].entry] \in {"landed", "failed"}
      BY <1>1 DEF LinesAreEntries
    <2>1. CASE i \in 1 .. Len(lines[f])
      <3>1. lines'[f][i] = lines[f][i] /\ lines[f][i] \in Line
        BY <1>0, <2>1, LineFacts
      <3>2. /\ lines[f][i].entry \in Entry
            /\ ts[lines[f][i].entry] <= mtime[f]
            /\ append[lines[f][i].entry] \in {"landed", "failed"}
        BY <2>1, <3>1 DEF LinesAreEntries, Line
      <3>3. mtime[f] <= mtime'[f] /\ mtime'[f] \in Nat
        BY <1>3, <1>4, TimesAssumption DEF TypeOK
      <3>4. lines[f][i].entry # x /\ append'[lines[f][i].entry] = append[lines[f][i].entry]
        BY <1>1, <3>2 DEF TypeOK
      <3>5. ts[lines[f][i].entry] \in Nat /\ mtime[f] \in Nat
        BY <3>2, Numbers
      <3>6. QED
        BY <1>1, <3>1, <3>2, <3>3, <3>4, <3>5
    <2>2. CASE i \notin 1 .. Len(lines[f])
      <3>1. f = F /\ lines'[f][i] = line
        BY <1>0, <2>2
      <3>2. QED
        BY <1>1, <1>2, <1>3, <3>1 DEF Timely, TypeOK, Line
    <2>3. QED
      BY <2>1, <2>2
  <1>9. LandedHaveLines'
    <2> SUFFICES ASSUME NEW e \in Landed'
                 PROVE  \E f \in 1 .. created : HasLine(e, f)'
      BY <1>1 DEF LandedHaveLines
    <2>1. CASE e \in Landed
      <3>1. PICK f \in 1 .. created : HasLine(e, f)
        BY <2>1 DEF LandedHaveLines
      <3>2. f \in File
        BY Numbers
      <3>3. HasLine(e, f)'
        BY <1>0, <3>1, <3>2 DEF HasLine
      <3>4. QED
        BY <3>3
    <2>2. CASE e \notin Landed
      <3>1. e = x /\ ~line.torn
        BY <1>1, <2>2 DEF Landed, TypeOK
      <3>2. PICK f \in 1 .. created : f = F
        BY <1>2
      <3>3. Len(lines[f]) + 1 \in 1 .. Len(lines'[f]) /\ lines'[f][Len(lines[f]) + 1] = line
        BY <1>0, <1>2, <3>2
      <3>4. HasLine(e, f)'
        BY <1>1, <3>1, <3>3 DEF HasLine
      <3>5. QED
        BY <3>4
    <2>3. QED
      BY <2>1, <2>2
  <1>10. ASSUME NEW f \in File, Dead(f)
         PROVE  Dead(f)'
    <2>1. f # F /\ \A e \in Entry : fd[e] # f
      BY <1>10 DEF Dead
    <2>2. mtime'[f] = mtime[f] /\ now' = now
      BY <1>1, <1>3, <1>10, <2>1 DEF TypeOK
    <2>3. \A e \in Entry : fd'[e] # f
      BY <1>3, <1>10, <2>1, Numbers DEF TypeOK
    <2>4. QED
      BY <1>10, <2>2, <2>3 DEF Dead
  <1>11. UNCHANGED <<created, current, segments, pass>>
    BY <1>1
  <1>12. LinkedOrDead'
    <2>1. 1 .. created \subseteq File
      BY Numbers
    <2>2. QED
      BY <1>10, <1>11, <2>1 DEF LinkedOrDead, Linked
  <1>13. DoomedAreDead'
    <2>1. \A s \in Servers : \A g \in pass[s].doomed : g.file \in File
      BY DEF TypeOK, Segment
    <2>2. QED
      BY <1>10, <1>11, <2>1 DEF DoomedAreDead
  <1>14. QED
    BY <1>4, <1>5, <1>6, <1>7, <1>8, <1>9, <1>12, <1>13

LEMMA AppendFailsFiles ==
    ASSUME FilesInv, NEW x \in Entry, AppendFails(x)
    PROVE  FilesInv'
  <1> USE DEF FilesInv, AppendFails, fileVars
  <1>1. TypeOK'
    BY DEF TypeOK
  <1>2. Timely'
    BY DEF Timely, TypeOK
  <1>3. created <= Cardinality(Opened')
    <2>1. Opened \subseteq Opened' /\ Opened' \subseteq Entry
      BY DEF Opened, TypeOK
    <2>2. IsFiniteSet(Opened') /\ Cardinality(Opened) \in Nat /\ Cardinality(Opened') \in Nat
      BY <2>1, OpenedCount
    <2>3. Cardinality(Opened) <= Cardinality(Opened')
      BY <2>1, <2>2, FS_Subset
    <2>4. QED
      BY <2>2, <2>3, Numbers DEF FilesExist
  <1>4. FilesExist'
    BY <1>3, Numbers DEF FilesExist, TypeOK, None
  <1>5. OneNamePerFile' /\ LateAppends'
    BY Numbers DEF OneNamePerFile, LateAppends, TypeOK
  <1>6. LinesAreEntries'
    BY LineFacts DEF LinesAreEntries, TypeOK, Line
  <1>7. Landed' = Landed
    BY DEF Landed, TypeOK
  <1>8. LandedHaveLines'
    BY <1>7 DEF LandedHaveLines, HasLine
  <1>9. ASSUME NEW f \in File, Dead(f)
        PROVE  Dead(f)'
    BY <1>9, Numbers DEF Dead, TypeOK
  <1>10. LinkedOrDead' /\ DoomedAreDead'
    BY <1>9, Numbers DEF LinkedOrDead, DoomedAreDead, Linked, TypeOK, Segment
  <1>11. QED
    BY <1>1, <1>2, <1>4, <1>5, <1>6, <1>8, <1>10

-----------------------------------------------------------------------------
(* The start-up pass, and time                                             *)

\* A step that touches only passes or readers leaves the files' facts alone.
LEMMA FilesUntouched ==
    ASSUME FilesInv, UNCHANGED <<now, appendVars, fileVars, current, segments>>,
           TypeOK', Timely', DoomedAreDead'
    PROVE  FilesInv'
  <1> USE DEF FilesInv, appendVars, fileVars
  <1>1. FilesExist'
    BY DEF FilesExist, Opened
  <1>2. OneNamePerFile' /\ LateAppends'
    BY DEF OneNamePerFile, LateAppends
  <1>3. LinesAreEntries' /\ LandedHaveLines'
    BY DEF LinesAreEntries, LandedHaveLines, HasLine, Landed
  <1>4. LinkedOrDead'
    BY DEF LinkedOrDead, Linked, Dead
  <1>5. QED
    BY <1>1, <1>2, <1>3, <1>4

\* StartPass, ReadOldest and StopPass change what a server is about to do.
LEMMA PassFiles ==
    ASSUME FilesInv, NEW x \in Servers, StartPass(x) \/ ReadOldest(x) \/ StopPass(x)
    PROVE  FilesInv'
  <1> USE DEF FilesInv, appendVars, fileVars
  <1>1. PICK p \in [pc : {"idle", "prune", "rename"}, start : 0 .. MaxTime,
                    todo : SUBSET Segment, doomed : SUBSET Segment] :
          /\ pass' = [pass EXCEPT ![x] = p] /\ p.doomed = {}
          /\ p.start <= now /\ (p.pc # "idle" => now <= p.start + Span)
    <2>1. CASE StartPass(x)
      <3> DEFINE p == [Idle EXCEPT !.pc = "prune", !.start = now, !.todo = segments]
      <3>1. pass' = [pass EXCEPT ![x] = p]
        BY <2>1 DEF StartPass
      <3>2. segments \in SUBSET Segment /\ now \in 0 .. MaxTime /\ Span \in Nat
        BY TimesAssumption DEF TypeOK
      <3>3. p.pc = "prune" /\ p.start = now /\ p.doomed = {}
        BY DEF Idle
      <3>4. p \in [pc : {"idle", "prune", "rename"}, start : 0 .. MaxTime,
                   todo : SUBSET Segment, doomed : SUBSET Segment]
        BY <3>2 DEF Idle
      <3> HIDE DEF p
      <3>5. p.doomed = {} /\ p.start <= now /\ now <= p.start + Span
        BY <3>2, <3>3
      <3>6. QED
        BY <3>1, <3>4, <3>5
    <2>2. CASE ReadOldest(x)
      <3>1. \/ pass' = [pass EXCEPT ![x] = [pass[x] EXCEPT !.pc = "rename"]]
            \/ pass' = [pass EXCEPT ![x] = Idle]
        BY <2>2 DEF ReadOldest, TypeOK
      <3>2. pass[x].pc = "prune" /\ pass[x].doomed = {}
        BY <2>2 DEF ReadOldest
      <3>3. /\ [pass[x] EXCEPT !.pc = "rename"] \in
                 [pc : {"idle", "prune", "rename"}, start : 0 .. MaxTime,
                  todo : SUBSET Segment, doomed : SUBSET Segment]
            /\ [pass[x] EXCEPT !.pc = "rename"].doomed = {}
            /\ [pass[x] EXCEPT !.pc = "rename"].start = pass[x].start
        BY <3>2 DEF TypeOK
      <3>4. /\ Idle \in [pc : {"idle", "prune", "rename"}, start : 0 .. MaxTime,
                         todo : SUBSET Segment, doomed : SUBSET Segment]
            /\ Idle.doomed = {} /\ Idle.start <= now /\ Idle.pc = "idle"
        BY Numbers DEF Idle
      <3>5. pass[x].start <= now /\ now <= pass[x].start + Span
        BY <3>2 DEF Timely
      <3>6. QED
        BY <3>1, <3>3, <3>4, <3>5
    <2>3. CASE StopPass(x)
      <3>1. /\ Idle \in [pc : {"idle", "prune", "rename"}, start : 0 .. MaxTime,
                         todo : SUBSET Segment, doomed : SUBSET Segment]
            /\ Idle.doomed = {} /\ Idle.start <= now /\ Idle.pc = "idle"
        BY Numbers DEF Idle
      <3>2. QED
        BY <2>3, <3>1 DEF StopPass
    <2>4. QED
      BY <2>1, <2>2, <2>3
  <1>2. UNCHANGED <<now, appendVars, fileVars, current, segments, reading>>
    BY DEF StartPass, ReadOldest, StopPass
  <1>3. TypeOK'
    BY <1>1, <1>2 DEF TypeOK
  <1>4. Timely'
    BY <1>1, <1>2 DEF Timely, TypeOK
  <1>5. DoomedAreDead'
    BY <1>1, <1>2 DEF DoomedAreDead, Dead, TypeOK
  <1>6. QED
    BY <1>2, <1>3, <1>4, <1>5, FilesUntouched

\* A segment that has expired is dead: an append that has it open began within
\* Span of its rotation, and would have outlived Span again.
LEMMA ExpiredIsDead ==
    ASSUME FilesInv, NEW s \in Servers, NEW g \in segments, Expired(g, pass[s].start)
    PROVE  Dead(g.file)
  <1>1. /\ g.stamp < pass[s].start - MaxAge /\ mtime[g.file] < pass[s].start - MaxAge
        /\ pass[s].start <= now
    BY DEF Expired, FilesInv, Timely
  <1>2. /\ g.stamp \in Nat /\ mtime[g.file] \in Nat /\ pass[s].start \in Nat /\ now \in Nat
        /\ MaxAge \in Nat /\ Span \in Nat /\ 2 * Span <= MaxAge
    BY Numbers, TimesAssumption DEF FilesInv
  <1>3. mtime[g.file] < now - MaxAge
    BY <1>1, <1>2
  <1>4. ASSUME NEW e \in Entry, fd[e] = g.file
        PROVE  FALSE
    <2>1. append[e] = "open"
      BY <1>4, Numbers DEF FilesInv, FilesExist
    <2>2. ts[e] <= g.stamp + Span /\ now <= ts[e] + Span /\ ts[e] \in Nat
      BY <1>4, <2>1, Numbers DEF FilesInv, LateAppends, Timely
    <2>3. QED
      BY <1>1, <1>2, <2>2
  <1>5. QED
    BY <1>3, <1>4 DEF Dead

LEMMA StatFiles ==
    ASSUME FilesInv, NEW x \in Servers, Stat(x)
    PROVE  FilesInv'
  <1> USE DEF FilesInv, Stat, appendVars, fileVars
  <1>1. PICK g \in pass[x].todo :
          pass' = [pass EXCEPT
              ![x].todo = @ \ {g},
              ![x].doomed = IF g \in segments /\ Expired(g, pass[x].start) THEN {g} ELSE {}]
    OBVIOUS
  <1>2. /\ g \in Segment
        /\ \A s \in Servers : pass'[s].start = pass[s].start /\ pass'[s].pc = pass[s].pc
        /\ \A s \in Servers : s # x => pass'[s].doomed = pass[s].doomed
        /\ pass'[x].doomed \in SUBSET {g}
        /\ pass'[x].doomed # {} => g \in segments /\ Expired(g, pass[x].start)
    BY <1>1 DEF TypeOK
  <1>3. TypeOK'
    <2> DEFINE d == IF g \in segments /\ Expired(g, pass[x].start) THEN {g} ELSE {}
    <2>1. d \in SUBSET Segment
      BY <1>2
    <2> HIDE DEF d
    <2>2. [pass[x] EXCEPT !.todo = @ \ {g}, !.doomed = d] \in
              [pc : {"idle", "prune", "rename"}, start : 0 .. MaxTime,
               todo : SUBSET Segment, doomed : SUBSET Segment]
      <3>1. pass[x].todo \ {g} \in SUBSET Segment
        BY DEF TypeOK
      <3>2. pass[x] \in [pc : {"idle", "prune", "rename"}, start : 0 .. MaxTime,
                         todo : SUBSET Segment, doomed : SUBSET Segment]
        BY DEF TypeOK
      <3>3. QED
        BY <2>1, <3>1, <3>2
    <2>3. pass' = [pass EXCEPT ![x] = [pass[x] EXCEPT !.todo = @ \ {g}, !.doomed = d]]
      BY <1>1 DEF d, TypeOK
    <2>4. QED
      BY <2>2, <2>3 DEF TypeOK
  <1>4. Timely'
    BY <1>2 DEF Timely
  <1>5. DoomedAreDead'
    <2> SUFFICES ASSUME NEW s \in Servers, NEW h \in pass'[s].doomed
                 PROVE  h.file <= created /\ h.file # current /\ Dead(h.file)
      BY DEF DoomedAreDead, Dead
    <2>1. CASE s # x
      BY <1>2, <2>1 DEF DoomedAreDead
    <2>2. CASE s = x
      <3>1. h = g /\ g \in segments /\ Expired(g, pass[x].start)
        BY <1>2, <2>2
      <3>2. QED
        BY <3>1, ExpiredIsDead DEF FilesExist, OneNamePerFile
    <2>3. QED
      BY <2>1, <2>2
  <1>6. QED
    BY <1>3, <1>4, <1>5, FilesUntouched

LEMMA UnlinkFiles ==
    ASSUME FilesInv, NEW x \in Servers, Unlink(x)
    PROVE  FilesInv'
  <1> USE DEF FilesInv, Unlink, appendVars, fileVars
  <1>1. segments' \subseteq segments
    OBVIOUS
  <1>2. TypeOK'
    <2>0. pass[x] \in [pc : {"idle", "prune", "rename"}, start : 0 .. MaxTime,
                       todo : SUBSET Segment, doomed : SUBSET Segment]
      BY DEF TypeOK
    <2>1. [pass[x] EXCEPT !.doomed = {}] \in
              [pc : {"idle", "prune", "rename"}, start : 0 .. MaxTime,
               todo : SUBSET Segment, doomed : SUBSET Segment]
      <3> HIDE DEF FilesInv, Unlink
      <3>1. QED
        BY <2>0
    <2>2. pass' = [pass EXCEPT ![x] = [pass[x] EXCEPT !.doomed = {}]]
      BY DEF TypeOK
    <2>3. pass' \in [Servers -> [pc : {"idle", "prune", "rename"}, start : 0 .. MaxTime,
                                 todo : SUBSET Segment, doomed : SUBSET Segment]]
      BY <2>1, <2>2 DEF TypeOK
    <2>4. segments' \subseteq Segment
      BY <1>1 DEF TypeOK
    <2>5. QED
      BY <2>3, <2>4 DEF TypeOK
  <1>3. /\ \A s \in Servers : pass'[s].start = pass[s].start /\ pass'[s].pc = pass[s].pc
        /\ \A s \in Servers : pass'[s].doomed \subseteq pass[s].doomed
    BY DEF TypeOK
  <1>4. Timely'
    BY <1>3 DEF Timely
  <1>5. FilesExist'
    BY <1>1 DEF FilesExist, Opened
  <1>6. OneNamePerFile' /\ LateAppends'
    BY <1>1 DEF OneNamePerFile, LateAppends
  <1>7. LinesAreEntries' /\ LandedHaveLines'
    BY DEF LinesAreEntries, LandedHaveLines, HasLine, Landed
  <1>8. LinkedOrDead'
    <2> SUFFICES ASSUME NEW f \in 1 .. created, f \notin Linked'
                 PROVE  Dead(f)
      BY DEF LinkedOrDead, Dead
    <2>1. CASE f \in Linked
      <3>1. PICK g \in pass[x].doomed : g.file = f
        BY <2>1 DEF Linked
      <3>2. QED
        BY <3>1 DEF DoomedAreDead
    <2>2. CASE f \notin Linked
      BY <2>2 DEF LinkedOrDead
    <2>3. QED
      BY <2>1, <2>2
  <1>9. DoomedAreDead'
    BY <1>3 DEF DoomedAreDead, Dead
  <1>10. QED
    BY <1>2, <1>4, <1>5, <1>6, <1>7, <1>8, <1>9

LEMMA RenameFiles ==
    ASSUME FilesInv, NEW x \in Servers, Rename(x)
    PROVE  FilesInv'
  <1> USE DEF FilesInv, Rename, appendVars, fileVars
  <1> DEFINE seg == [file |-> current, stamp |-> pass[x].start]
  <1>1. /\ pass[x].pc = "rename" /\ pass[x].start \in 0 .. MaxTime
        /\ current # None => seg \in Segment
    BY DEF TypeOK, Segment, None
  <1>2. /\ current' = None /\ segments \subseteq segments'
        /\ current = None => segments' = segments
        /\ current # None => segments' = segments \cup {seg}
    OBVIOUS
  <1>3. /\ Idle \in [pc : {"idle", "prune", "rename"}, start : 0 .. MaxTime,
                     todo : SUBSET Segment, doomed : SUBSET Segment]
        /\ Idle.doomed = {} /\ Idle.start <= now /\ Idle.pc = "idle"
    BY Numbers DEF Idle
  <1>4. TypeOK'
    BY <1>1, <1>2, <1>3 DEF TypeOK
  <1>5. Timely'
    BY <1>3 DEF Timely, TypeOK
  <1>6. \A g \in segments' : g \in segments \/ (current # None /\ g.file = current
                                                 /\ g.stamp = pass[x].start)
    BY <1>2
  <1>7. FilesExist'
    BY <1>2, <1>6, Numbers DEF FilesExist, Opened, None
  <1>8. OneNamePerFile'
    <2>1. \A g \in segments' : g.file # None
      BY <1>4, Numbers DEF TypeOK, Segment
    <2>2. \A g, h \in segments' : g.file = h.file => g = h
      BY <1>2 DEF OneNamePerFile
    <2>3. QED
      BY <1>2, <2>1, <2>2 DEF OneNamePerFile
  <1>9. LateAppends'
    <2> SUFFICES ASSUME NEW g \in segments', NEW e \in Entry, fd[e] = g.file
                 PROVE  ts[e] <= g.stamp + Span
      BY DEF LateAppends
    <2>1. CASE g \in segments
      BY <2>1 DEF LateAppends
    <2>2. CASE g \notin segments
      <3>1. g.stamp = pass[x].start
        BY <1>6, <2>2
      <3>2. ts[e] <= now /\ now <= pass[x].start + Span
        BY <1>1 DEF Timely
      <3>3. QED
        BY <3>1, <3>2, Numbers
    <2>3. QED
      BY <2>1, <2>2
  <1>10. LinesAreEntries' /\ LandedHaveLines'
    BY DEF LinesAreEntries, LandedHaveLines, HasLine, Landed
  <1>11. Linked \subseteq Linked'
    <2>1. CASE current = None
      BY <1>2, <2>1 DEF Linked
    <2>2. CASE current # None
      <3>1. seg \in segments' /\ seg.file = current
        BY <1>2, <2>2
      <3> HIDE DEF seg
      <3>2. QED
        BY <1>2, <3>1 DEF Linked
    <2>3. QED
      BY <2>1, <2>2
  <1>12. LinkedOrDead'
    BY <1>11 DEF LinkedOrDead, Dead
  <1>13. DoomedAreDead'
    <2> SUFFICES ASSUME NEW s \in Servers, NEW g \in pass'[s].doomed
                 PROVE  g.file <= created /\ g.file # current' /\ Dead(g.file)
      BY DEF DoomedAreDead, Dead
    <2>1. g \in pass[s].doomed /\ g.file \in File
      BY <1>3 DEF TypeOK, Segment
    <2>2. QED
      BY <1>2, <2>1, Numbers DEF DoomedAreDead
  <1>14. QED
    BY <1>4, <1>5, <1>7, <1>8, <1>9, <1>10, <1>12, <1>13

LEMMA TickFiles ==
    ASSUME FilesInv, Tick
    PROVE  FilesInv'
  <1> USE DEF FilesInv, Tick, appendVars, fileVars
  <1>1. TypeOK'
    BY TimesAssumption DEF TypeOK
  <1>2. Timely'
    BY Numbers, TimesAssumption DEF Timely
  <1>3. FilesExist'
    BY Numbers DEF FilesExist, Opened
  <1>4. OneNamePerFile' /\ LateAppends'
    BY DEF OneNamePerFile, LateAppends
  <1>5. LinesAreEntries' /\ LandedHaveLines'
    BY DEF LinesAreEntries, LandedHaveLines, HasLine, Landed
  <1>6. ASSUME NEW f \in File, Dead(f)
        PROVE  Dead(f)'
    BY <1>6, Numbers DEF Dead
  <1>7. LinkedOrDead'
    BY <1>6, Numbers DEF LinkedOrDead, Linked
  <1>8. DoomedAreDead'
    BY <1>6 DEF DoomedAreDead, TypeOK, Segment
  <1>9. QED
    BY <1>1, <1>2, <1>3, <1>4, <1>5, <1>7, <1>8

\* Readers change nothing but what they have read.
LEMMA ReaderFiles ==
    ASSUME FilesInv, NEW x \in Readers,
           ReadCurrent(x) \/ ListSegments(x) \/ ReadSegment(x) \/ ReadReturns(x)
    PROVE  FilesInv'
  <1> USE DEF FilesInv
  <1>1. UNCHANGED <<now, appendVars, fileVars, current, segments, pass>>
    BY DEF ReadCurrent, ListSegments, ReadSegment, ReadReturns
  <1>2. \A f \in File : parseJournal(f) \subseteq Entry
    BY LineFacts DEF parseJournal, Readable, Line
  <1>3. reading' \in [Readers -> [pc : {"idle", "list", "segments"}, todo : SUBSET Segment,
                                  got : SUBSET Entry, known : SUBSET Entry]]
    <2>1. CASE ReadCurrent(x)
      <3>1. (IF current = None THEN {} ELSE parseJournal(current)) \in SUBSET Entry
        BY <1>2 DEF TypeOK
      <3>2. Landed \in SUBSET Entry
        BY DEF Landed
      <3>3. QED
        BY <2>1, <3>1, <3>2 DEF ReadCurrent, TypeOK
    <2>2. CASE ListSegments(x)
      <3>1. [reading[x] EXCEPT !.pc = "segments", !.todo = segments] \in
                [pc : {"idle", "list", "segments"}, todo : SUBSET Segment,
                 got : SUBSET Entry, known : SUBSET Entry]
        BY DEF TypeOK
      <3>2. reading' = [reading EXCEPT ![x] =
                          [reading[x] EXCEPT !.pc = "segments", !.todo = segments]]
        BY <2>2 DEF ListSegments, TypeOK
      <3>3. QED
        BY <3>1, <3>2 DEF TypeOK
    <2>3. CASE ReadSegment(x)
      <3>1. PICK g \in reading[x].todo :
              reading' = [reading EXCEPT
                  ![x].todo = @ \ {g},
                  ![x].got = @ \cup (IF g \in segments THEN parseJournal(g.file) ELSE {})]
        BY <2>3 DEF ReadSegment
      <3>2. (IF g \in segments THEN parseJournal(g.file) ELSE {}) \in SUBSET Entry
        BY <1>2, Numbers
      <3> DEFINE more == IF g \in segments THEN parseJournal(g.file) ELSE {}
      <3>3. reading' = [reading EXCEPT ![x] =
                          [reading[x] EXCEPT !.todo = @ \ {g}, !.got = @ \cup more]]
        BY <3>1 DEF TypeOK
      <3>4. more \in SUBSET Entry
        BY <3>2
      <3> HIDE DEF more
      <3>5. [reading[x] EXCEPT !.todo = @ \ {g}, !.got = @ \cup more] \in
                [pc : {"idle", "list", "segments"}, todo : SUBSET Segment,
                 got : SUBSET Entry, known : SUBSET Entry]
        BY <3>4 DEF TypeOK
      <3>6. QED
        BY <3>3, <3>5 DEF TypeOK
    <2>4. CASE ReadReturns(x)
      BY <2>4 DEF ReadReturns, TypeOK, NotReading
    <2>5. QED
      BY <2>1, <2>2, <2>3, <2>4
  <1>4. TypeOK'
    BY <1>1, <1>3 DEF TypeOK, appendVars, fileVars
  <1>5. Timely' /\ DoomedAreDead'
    BY <1>1 DEF Timely, DoomedAreDead, Dead, appendVars, fileVars
  <1>6. QED
    BY <1>1, <1>4, <1>5, FilesUntouched

LEMMA FilesKept == FilesInv /\ [Next]_vars => FilesInv'
  <1> SUFFICES ASSUME FilesInv, [Next]_vars PROVE FilesInv'
    OBVIOUS
  <1>1. CASE UNCHANGED vars
    <2>1. UNCHANGED <<now, appendVars, fileVars, current, segments, pass, reading>>
      BY <1>1 DEF vars, appendVars, fileVars
    <2>2. TypeOK' /\ Timely' /\ DoomedAreDead'
      BY <2>1 DEF FilesInv, TypeOK, Timely, DoomedAreDead, Dead, appendVars, fileVars
    <2>3. QED
      BY <2>1, <2>2, FilesUntouched
  <1>2. ASSUME NEW e \in Entry, Record(e) \/ Open(e) \/ Land(e) \/ Tear(e) \/ AppendFails(e)
        PROVE  FilesInv'
    BY <1>2, RecordFiles, OpenFiles, WriteFiles, AppendFailsFiles
  <1>3. ASSUME NEW s \in Servers,
               StartPass(s) \/ Stat(s) \/ Unlink(s) \/ ReadOldest(s) \/ Rename(s) \/ StopPass(s)
        PROVE  FilesInv'
    BY <1>3, PassFiles, StatFiles, UnlinkFiles, RenameFiles
  <1>4. ASSUME NEW r \in Readers,
               ReadCurrent(r) \/ ListSegments(r) \/ ReadSegment(r) \/ ReadReturns(r)
        PROVE  FilesInv'
    BY <1>4, ReaderFiles
  <1>5. CASE Tick
    BY <1>5, TickFiles
  <1>6. QED
    BY <1>1, <1>2, <1>3, <1>4, <1>5 DEF Next

-----------------------------------------------------------------------------
(* What readers look for                                                   *)

\* An entry that has landed, and was not written behind a torn line, is found
\* in a file that readers look at, or has expired.
LEMMA FoundOrExpired ==
    ASSUME FilesInv, NEW e \in Landed, Expects(e)
    PROVE  \E f \in Linked : e \in parseJournal(f)
  <1>1. PICK f \in 1 .. created : HasLine(e, f)
    BY DEF FilesInv, LandedHaveLines
  <1>2. PICK i \in 1 .. Len(lines[f]) : lines[f][i].entry = e /\ ~lines[f][i].torn
    BY <1>1 DEF HasLine
  <1>3. f \in File /\ DOMAIN lines[f] = 1 .. Len(lines[f]) /\ Len(lines[f]) \in Nat
    BY Numbers, LineFacts DEF FilesInv
  <1>4. i > 1 => ~lines[f][i - 1].torn
    BY <1>2, <1>3 DEF Expects, Swallowed
  <1>5. e \in parseJournal(f)
    BY <1>2, <1>3, <1>4 DEF parseJournal, Readable
  <1>6. ~Dead(f)
    <2>1. ts[e] <= mtime[f] /\ now - ts[e] <= MaxAge
      BY <1>2, <1>3 DEF FilesInv, LinesAreEntries, Expects, Recent
    <2>2. ts[e] \in Nat /\ mtime[f] \in Nat /\ now \in Nat /\ MaxAge \in Nat
      BY <1>3, Numbers DEF FilesInv, Landed
    <2>3. QED
      BY <2>1, <2>2 DEF Dead
  <1>7. QED
    BY <1>5, <1>6 DEF FilesInv, LinkedOrDead

\* What can be read from a file, and what is torn in it, only grows.
LEMMA LinesKept ==
    ASSUME FilesInv, [Next]_vars
    PROVE  /\ \A f \in File : parseJournal(f) \subseteq parseJournal(f)'
           /\ \A e \in Entry : Swallowed(e) => Swallowed(e)'
  <1>1. CASE \E x \in Entry : Land(x) \/ Tear(x)
    <2>1. PICK x \in Entry : Land(x) \/ Tear(x)
      BY <1>1
    <2>2. PICK line \in Line : append[x] = "open" /\ WriteTo(x, line)
      <3>1. [entry |-> x, torn |-> FALSE] \in Line /\ [entry |-> x, torn |-> TRUE] \in Line
        BY DEF Line
      <3>2. QED
        BY <2>1, <3>1 DEF Land, Tear
    <2>3. ASSUME NEW f \in File
          PROVE  /\ \A i \in 1 .. Len(lines[f]) : lines'[f][i] = lines[f][i]
                 /\ Len(lines[f]) \in Nat /\ Len(lines'[f]) \in Nat
                 /\ Len(lines[f]) <= Len(lines'[f])
                 /\ DOMAIN lines[f] = 1 .. Len(lines[f])
                 /\ DOMAIN lines'[f] = 1 .. Len(lines'[f])
      <3>1. lines'[f] \in Seq(Line)
        BY <2>2, WriteLines
      <3>2. QED
        BY <2>2, <3>1, WriteLines, LineFacts, LenProperties DEF FilesInv
    <2>4. ASSUME NEW f \in File, NEW e \in parseJournal(f)
          PROVE  e \in parseJournal(f)'
      <3>1. PICK i \in DOMAIN lines[f] : /\ ~lines[f][i].torn /\ lines[f][i].entry = e
                                         /\ i > 1 => ~lines[f][i - 1].torn
        BY <2>4 DEF parseJournal, Readable
      <3>2. /\ i \in DOMAIN lines'[f] /\ lines'[f][i] = lines[f][i]
            /\ i > 1 => lines'[f][i - 1] = lines[f][i - 1]
        BY <2>3, <3>1
      <3>3. QED
        BY <3>1, <3>2 DEF parseJournal, Readable
    <2>5. ASSUME NEW e \in Entry, Swallowed(e)
          PROVE  Swallowed(e)'
      <3>1. PICK f \in File : \E i \in 2 .. Len(lines[f]) :
                lines[f][i].entry = e /\ lines[f][i - 1].torn
        BY <2>5 DEF Swallowed
      <3> PICK i \in 2 .. Len(lines[f]) : lines[f][i].entry = e /\ lines[f][i - 1].torn
        BY <3>1
      <3>2. /\ i \in 2 .. Len(lines'[f]) /\ lines'[f][i] = lines[f][i]
            /\ lines'[f][i - 1] = lines[f][i - 1]
        BY <2>3
      <3>3. QED
        BY <3>2 DEF Swallowed
    <2>6. QED
      BY <2>4, <2>5
  <1>2. CASE ~ \E x \in Entry : Land(x) \/ Tear(x)
    <2>1. lines' = lines
      BY <1>2 DEF Next, vars, fileVars, Record, Open, AppendFails, StartPass, Stat, Unlink,
                  ReadOldest, Rename, StopPass, ReadCurrent, ListSegments, ReadSegment,
                  ReadReturns, Tick
    <2>2. QED
      BY <2>1 DEF parseJournal, Readable, Swallowed
  <1>3. QED
    BY <1>1, <1>2

\* No entry turns into one that a reader expects, once it has landed.
LEMMA ExpectedBefore ==
    ASSUME FilesInv, [Next]_vars, NEW e \in Landed
    PROVE  e \in Landed' /\ ts'[e] = ts[e] /\ (Expects(e)' => Expects(e))
  <1>1. e \in Entry /\ append[e] = "landed"
    BY DEF Landed
  <1>2. append'[e] = "landed" /\ ts'[e] = ts[e] /\ now' \in {now, now + 1}
    BY <1>1 DEF Next, vars, appendVars, Record, Open, Land, Tear, AppendFails, StartPass, Stat,
                Unlink, ReadOldest, Rename, StopPass, ReadCurrent, ListSegments, ReadSegment,
                ReadReturns, Tick, FilesInv, TypeOK
  <1>3. Recent(e)' => Recent(e)
    BY <1>1, <1>2, Numbers DEF Recent, FilesInv
  <1>4. QED
    BY <1>1, <1>2, <1>3, LinesKept DEF Expects, Landed

\* A segment that holds an entry a reader expects is not unlinked.
LEMMA SegmentsStay ==
    ASSUME FilesInv, [Next]_vars, NEW g \in segments, NEW e \in parseJournal(g.file), Expects(e)
    PROVE  g \in segments'
  <1>1. CASE \E s \in Servers : Unlink(s)
    <2>1. PICK s \in Servers : Unlink(s)
      BY <1>1
    <2> SUFFICES ASSUME g \in pass[s].doomed PROVE FALSE
      BY <2>1 DEF Unlink
    <2>2. g.file \in File /\ Dead(g.file)
      BY Numbers DEF FilesInv, DoomedAreDead
    <2>3. PICK i \in 1 .. Len(lines[g.file]) : lines[g.file][i].entry = e
      BY <2>2, LineFacts DEF parseJournal, Readable, FilesInv
    <2>4. ts[e] <= mtime[g.file] /\ e \in Entry
      BY <2>2, <2>3, LineFacts DEF FilesInv, LinesAreEntries, Line
    <2>5. QED
      BY <2>2, <2>4, Numbers DEF Expects, Recent, Dead, FilesInv
  <1>2. CASE ~ \E s \in Servers : Unlink(s)
    BY <1>2 DEF Next, vars, Record, Open, Land, Tear, AppendFails, StartPass, Stat,
                ReadOldest, Rename, StopPass, ReadCurrent, ListSegments, ReadSegment,
                ReadReturns, Tick
  <1>3. QED
    BY <1>1, <1>2

\* A step of anybody else.
LEMMA ReaderKept ==
    ASSUME FilesInv, [Next]_vars, NEW r \in Readers, ReaderFinds(r), reading'[r] = reading[r]
    PROVE  ReaderFinds(r)'
  <1> SUFFICES ASSUME NEW e \in reading[r].known
               PROVE  /\ e \in Landed'
                      /\ Expects(e)' =>
                           /\ reading[r].pc = "list" =>
                                  e \in reading[r].got \/ InSegments(e, segments)'
                           /\ reading[r].pc = "segments" =>
                                  e \in reading[r].got \/ InSegments(e, reading[r].todo)'
    BY DEF ReaderFinds
  <1>1. e \in Landed /\ e \in Landed' /\ (Expects(e)' => Expects(e))
    BY ExpectedBefore DEF ReaderFinds
  <1>2. ASSUME NEW g \in segments, e \in parseJournal(g.file), Expects(e)
        PROVE  g \in segments' /\ e \in parseJournal(g.file)'
    BY <1>2, SegmentsStay, LinesKept, Numbers DEF FilesInv
  <1>3. ASSUME Expects(e)', reading[r].pc = "list", e \notin reading[r].got
        PROVE  InSegments(e, segments)'
    BY <1>1, <1>2, <1>3 DEF ReaderFinds, InSegments
  <1>4. ASSUME Expects(e)', reading[r].pc = "segments", e \notin reading[r].got
        PROVE  InSegments(e, reading[r].todo)'
    BY <1>1, <1>2, <1>4 DEF ReaderFinds, InSegments
  <1>5. QED
    BY <1>1, <1>3, <1>4

\* A step of the reader's own.
LEMMA ReaderSteps ==
    ASSUME FilesInv, NEW r \in Readers, ReaderFinds(r),
           ReadCurrent(r) \/ ListSegments(r) \/ ReadSegment(r) \/ ReadReturns(r)
    PROVE  ReaderFinds(r)'
  <1>1. UNCHANGED <<now, appendVars, fileVars, current, segments, pass>>
    BY DEF ReadCurrent, ListSegments, ReadSegment, ReadReturns
  <1>2. /\ Landed' = Landed
        /\ \A e : Expects(e)' <=> Expects(e)
        /\ \A e, S : InSegments(e, S)' <=> InSegments(e, S)
    BY <1>1 DEF Landed, Expects, Recent, Swallowed, InSegments, parseJournal, Readable,
                appendVars, fileVars
  <1>3. CASE ReadCurrent(r)
    <2>1. /\ reading'[r].pc = "list" /\ reading'[r].known = Landed
          /\ reading'[r].got = IF current = None THEN {} ELSE parseJournal(current)
      BY <1>3 DEF ReadCurrent, FilesInv, TypeOK
    <2>2. ASSUME NEW e \in Landed, Expects(e)
          PROVE  e \in reading'[r].got \/ InSegments(e, segments)
      BY <2>1, <2>2, FoundOrExpired DEF Linked, InSegments
    <2>3. QED
      BY <1>1, <1>2, <2>1, <2>2 DEF ReaderFinds
  <1>4. CASE ListSegments(r)
    BY <1>1, <1>2, <1>4 DEF ListSegments, ReaderFinds, FilesInv, TypeOK
  <1>5. CASE ReadSegment(r)
    <2>1. PICK g \in reading[r].todo :
            reading' = [reading EXCEPT
                ![r].todo = @ \ {g},
                ![r].got = @ \cup (IF g \in segments THEN parseJournal(g.file) ELSE {})]
      BY <1>5 DEF ReadSegment
    <2>2. /\ reading'[r].pc = "segments" /\ reading[r].pc = "segments"
          /\ reading'[r].known = reading[r].known
          /\ reading'[r].todo = reading[r].todo \ {g}
          /\ reading[r].got \subseteq reading'[r].got
          /\ g \in segments => parseJournal(g.file) \subseteq reading'[r].got
      <3> DEFINE more == IF g \in segments THEN parseJournal(g.file) ELSE {}
      <3>1. reading' = [reading EXCEPT ![r] =
                          [reading[r] EXCEPT !.todo = @ \ {g}, !.got = @ \cup more]]
        BY <2>1 DEF FilesInv, TypeOK
      <3>2. g \in segments => more = parseJournal(g.file)
        OBVIOUS
      <3> HIDE DEF more
      <3>3. /\ reading'[r].pc = reading[r].pc /\ reading'[r].known = reading[r].known
            /\ reading'[r].todo = reading[r].todo \ {g}
            /\ reading'[r].got = reading[r].got \cup more
        BY <3>1 DEF FilesInv, TypeOK
      <3>4. QED
        BY <1>5, <3>2, <3>3 DEF ReadSegment
    <2>3. ASSUME NEW e \in reading[r].known, Expects(e)
          PROVE  e \in reading'[r].got \/ InSegments(e, reading'[r].todo)
      BY <2>2, <2>3 DEF ReaderFinds, InSegments
    <2>4. QED
      BY <1>2, <2>2, <2>3 DEF ReaderFinds
  <1>6. CASE ReadReturns(r)
    BY <1>6 DEF ReadReturns, ReaderFinds, NotReading, FilesInv, TypeOK
  <1>7. QED
    BY <1>3, <1>4, <1>5, <1>6

LEMMA ReadersKept == JournalInv /\ [Next]_vars => ReadersFind'
  <1> SUFFICES ASSUME JournalInv, [Next]_vars, NEW r \in Readers PROVE ReaderFinds(r)'
    BY DEF ReadersFind
  <1>1. FilesInv /\ ReaderFinds(r)
    BY DEF JournalInv, ReadersFind
  <1>2. CASE ReadCurrent(r) \/ ListSegments(r) \/ ReadSegment(r) \/ ReadReturns(r)
    BY <1>1, <1>2, ReaderSteps
  <1>3. CASE ~(ReadCurrent(r) \/ ListSegments(r) \/ ReadSegment(r) \/ ReadReturns(r))
    <2>1. reading'[r] = reading[r]
      <3>1. CASE \E x \in Readers :
                    ReadCurrent(x) \/ ListSegments(x) \/ ReadSegment(x) \/ ReadReturns(x)
        <4>1. PICK x \in Readers :
                    ReadCurrent(x) \/ ListSegments(x) \/ ReadSegment(x) \/ ReadReturns(x)
          BY <3>1
        <4>2. x # r /\ DOMAIN reading = Readers
          BY <1>1, <1>3, <4>1 DEF FilesInv, TypeOK
        <4>3. CASE ReadCurrent(x)
          BY <4>2, <4>3 DEF ReadCurrent
        <4>4. CASE ListSegments(x)
          BY <4>2, <4>4 DEF ListSegments
        <4>5. CASE ReadSegment(x)
          BY <4>2, <4>5 DEF ReadSegment
        <4>6. CASE ReadReturns(x)
          BY <4>2, <4>6 DEF ReadReturns
        <4>7. QED
          BY <4>1, <4>3, <4>4, <4>5, <4>6
      <3>2. CASE ~ \E x \in Readers :
                    ReadCurrent(x) \/ ListSegments(x) \/ ReadSegment(x) \/ ReadReturns(x)
        BY <3>2 DEF Next, vars, Record, Open, Land, Tear, AppendFails, StartPass, Stat, Unlink,
                    ReadOldest, Rename, StopPass, Tick
      <3>3. QED
        BY <3>1, <3>2
    <2>2. QED
      BY <1>1, <2>1, ReaderKept
  <1>4. QED
    BY <1>2, <1>3

-----------------------------------------------------------------------------

\* The inductive invariant holds in every state, whatever the servers, the
\* readers and the appends do and whenever they do it.
THEOREM JournalInvariant == Spec => []JournalInv
  <1>1. Init => JournalInv
    BY InitFiles DEF JournalInv, ReadersFind, ReaderFinds, Init, NotReading
  <1>2. JournalInv /\ [Next]_vars => JournalInv'
    BY FilesKept, ReadersKept DEF JournalInv
  <1>3. QED
    BY <1>1, <1>2, PTL DEF Spec

\* Every variable keeps its type: in particular a journal is created no more
\* often than there are appends, and a rename always finds a file or nothing.
THEOREM TypeCorrect == Spec => []TypeOK
  <1>1. JournalInv => TypeOK
    BY DEF JournalInv, FilesInv
  <1>2. QED
    BY <1>1, JournalInvariant, PTL

\* rotateAndPruneJournal and pruneSegments (retention.ts): rotation and pruning
\* by any number of servers lose no entry that was appended within maxAgeDays.
THEOREM RotationLosesNothing == Spec => []NothingLost
  <1>1. JournalInv => NothingLost
    BY FoundOrExpired DEF JournalInv, NothingLost, Expects
  <1>2. QED
    BY <1>1, JournalInvariant, PTL

\* rotateAndPruneJournal: renames that race leave no file under two names.
THEOREM RenamesDoNotShare == Spec => []OneNamePerFile
  <1>1. JournalInv => OneNamePerFile
    BY DEF JournalInv, FilesInv
  <1>2. QED
    BY <1>1, JournalInvariant, PTL

\* readJournalEntries: because the current file is read before the segments are
\* listed, a read that overlaps rotations misses nothing it should return.
THEOREM ReadsFindEverything == Spec => []ReadsAreComplete
  <1>1. JournalInv => ReadsAreComplete
    BY DEF JournalInv, ReadersFind, ReaderFinds, Expects, InSegments, ReadsAreComplete
  <1>2. QED
    BY <1>1, JournalInvariant, PTL
=============================================================================

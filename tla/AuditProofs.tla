------------------------------ MODULE AuditProofs ------------------------------
(***************************************************************************)
(* Proofs about the audit log, for any number of processes, failed writes, *)
(* kills, rotations and records: AuditLog alone, then AuditGap beside it,  *)
(* then AuditForward beside it.                                            *)
(*                                                                         *)
(* record_gap changes the log through append_event only and forwarding     *)
(* only reads it, so the invariant of the log, which every LogNext step    *)
(* keeps, holds in all three.                                              *)
(***************************************************************************)
EXTENDS AuditGap, AuditForward, FiniteSetTheorems, SequenceTheorems,
        WellFoundedInduction, TLAPS

--------------------------------------------------------------------------------
(* The hash to chain to *)

LEMMA MaxExists ==
    ASSUME NEW n \in Nat, NEW T \in SUBSET (1 .. n), T # {}
    PROVE  \E i \in T : \A j \in T : j <= i
<1> DEFINE D == {d \in Nat : n - d \in T}
<1>1. PICK k \in T : TRUE
  OBVIOUS
<1>2. n - k \in D
  <2>1. n - k \in Nat /\ n - (n - k) = k
    OBVIOUS
  <2>2. QED
    BY <2>1
<1>3. D \subseteq Nat /\ D # {}
  BY <1>2
<1>4. PICK d \in D : \A e \in D : ~(<<e, d>> \in OpToRel(<, Nat))
  <2> HIDE DEF D
  <2>1. QED
    BY <1>3, WFMin, NatLessThanWellFounded
<1>5. ASSUME NEW j \in T
      PROVE  j <= n - d
  <2>1. n - j \in Nat /\ n - (n - j) = j
    OBVIOUS
  <2>2. n - j \in D
    BY <2>1
  <2>3. ~(n - j < d)
    BY <1>4, <2>2 DEF OpToRel
  <2>4. QED
    BY <2>1, <2>3
<1>6. QED
  BY <1>4, <1>5

\* The readable lines among those LastSha looks at.
ReadableTail(lines, n) == {i \in 1 .. n : i > n - TailLines /\ Readable(lines[i])}

\* LastSha without its CHOOSE.
LEMMA LastShaIs ==
    ASSUME NEW lines, NEW n \in Nat
    PROVE  \/ ReadableTail(lines, n) = {} /\ LastSha(lines, n) = NoSha
           \/ \E i \in ReadableTail(lines, n) :
                 /\ \A j \in ReadableTail(lines, n) : j <= i
                 /\ LastSha(lines, n) = lines[i].sha
<1> DEFINE T == ReadableTail(lines, n)
           top == CHOOSE i \in T : \A j \in T : j <= i
<1>1. LastSha(lines, n) = IF T = {} THEN NoSha ELSE lines[top].sha
  BY DEF LastSha, ReadableTail
<1>2. T \in SUBSET (1 .. n)
  BY DEF ReadableTail
<1> HIDE DEF T
<1>3. ASSUME T # {}
      PROVE  top \in T /\ \A j \in T : j <= top
  <2>1. \E i \in T : \A j \in T : j <= i
    BY <1>2, <1>3, MaxExists
  <2>2. QED
    BY <2>1
<1> HIDE DEF top
<1>4. QED
  BY <1>1, <1>3 DEF T

LEMMA LastShaType ==
    ASSUME NEW lines \in Seq(Line), NEW n \in 0 .. Len(lines)
    PROVE  LastSha(lines, n) \in Nat
<1>1. ASSUME NEW i \in ReadableTail(lines, n)
      PROVE  lines[i].sha \in Nat
  <2>1. i \in 1 .. Len(lines)
    BY DEF ReadableTail
  <2>2. lines[i] \in Line
    BY <2>1
  <2>3. QED
    BY <2>2 DEF Line
<1>2. QED
  BY <1>1, LastShaIs DEF NoSha

\* A readable last line is the one to chain to.
LEMMA LastShaOfReadable ==
    ASSUME NEW lines, NEW n \in Nat \ {0}, Readable(lines[n])
    PROVE  LastSha(lines, n) = lines[n].sha
<1>1. n \in ReadableTail(lines, n)
  BY AuditAssumption DEF ReadableTail
<1>2. \A i \in ReadableTail(lines, n) : i \in Nat /\ i <= n
  BY DEF ReadableTail
<1>3. QED
  BY <1>1, <1>2, LastShaIs

\* What is readable up to a line decides what the next one chains to.
LEMMA LastShaPrefix ==
    ASSUME NEW lines, NEW more, NEW n \in Nat,
           \A i \in 1 .. n : more[i] = lines[i]
    PROVE  LastSha(more, n) = LastSha(lines, n)
<1>1. ReadableTail(more, n) = ReadableTail(lines, n)
  BY DEF ReadableTail
<1>2. \A i \in ReadableTail(lines, n) : i \in Nat /\ more[i] = lines[i]
  BY DEF ReadableTail
<1>3. \A i, j \in ReadableTail(lines, n) : i <= j /\ j <= i => i = j
  BY <1>2
<1>4. CASE ReadableTail(lines, n) = {}
  BY <1>1, <1>4, LastShaIs
<1>5. CASE ReadableTail(lines, n) # {}
  <2>1. PICK i \in ReadableTail(lines, n) :
            /\ \A j \in ReadableTail(lines, n) : j <= i
            /\ LastSha(lines, n) = lines[i].sha
    BY <1>5, LastShaIs
  <2>2. PICK k \in ReadableTail(lines, n) :
            /\ \A j \in ReadableTail(lines, n) : j <= k
            /\ LastSha(more, n) = more[k].sha
    BY <1>1, <1>5, LastShaIs
  <2>3. QED
    BY <1>2, <1>3, <2>1, <2>2
<1>6. QED
  BY <1>4, <1>5

--------------------------------------------------------------------------------
(* The invariant *)

\* Whoever writes or starts the log holds the lock.
WriterHolds == \A p \in Proc : pc[p] \in {"write", "marker"} => lockedBy = p

\* What the writer read is still the hash of the last record of the log, or of the
\* archive the new log goes on from.
DraftCurrent ==
    \A p \in Proc : ~draft[p].blind =>
        /\ pc[p] = "write" => draft[p].prev = LastShaOf(log)
        /\ pc[p] = "marker" => draft[p].prev = LastShaOf(archive[Len(archive)])

\* Between the rename and the marker there is an archive, and no log.
NothingYet == \A p \in Proc : pc[p] = "marker" => archive # <<>> /\ log = EmptyFile

\* What the record of line i chains to, arcs being the archives.
LinkOK(lines, i, arcs) ==
    IF i > 1 THEN lines[i].prev = LastSha(lines, i - 1)
    ELSE \/ lines[i].arch = 0 /\ lines[i].prev = NoSha
         \/ /\ lines[i].arch \in 1 .. Len(arcs)
            /\ lines[i].prev = LastShaOf(arcs[lines[i].arch])

Chained(lines, arcs) ==
    \A i \in 1 .. Len(lines) :
        Readable(lines[i]) /\ ~lines[i].blind => LinkOK(lines, i, arcs)

AllChained ==
    /\ Chained(log.lines, archive)
    /\ \A n \in 1 .. Len(archive) : Chained(archive[n].lines, archive)

\* A process that ends anywhere, also when it does nothing to the log.
Ends(p) ==
    /\ crashes' = crashes + 1
    /\ pc' = [pc EXCEPT ![p] = "idle"]
    /\ lockedBy' = IF lockedBy = p THEN None ELSE lockedBy
    /\ cutShort' = (cutShort \/ pc[p] = "marker")
    /\ UNCHANGED <<log, archive, gone, draft, nextSha, acked, notes, failures>>

\* The steps of Next, and those that record_gap takes through append_event: what
\* is proved below holds of the log under either.
LogNext == \E p \in Proc :
    \/ \E gap \in Nat \X Nat : StartAppend(p, gap)
    \/ AppendOK(p) \/ AppendFails(p) \/ NoteFailure(p)
    \/ Rotate(p) \/ WriteMarker(p) \/ MarkerFails(p) \/ Ends(p)

LEMMA NextIsLogNext == Next => LogNext
<1>1. NoGap \in Nat \X Nat
  BY DEF NoGap
<1>2. \A p \in Proc : Crash(p) => Ends(p)
  BY Zenon DEF Crash, Ends
<1>3. QED
  BY <1>1, <1>2, Zenon DEF Next, LogNext, AppendSteps, RotateSteps

--------------------------------------------------------------------------------
(* Types *)

LEMMA LineAdded ==
    ASSUME NEW file \in File, NEW line \in Line, NEW c \in BOOLEAN
    PROVE  /\ AddLine(file, line, c) \in File
           /\ AddLine(file, line, c).lines = Append(file.lines, line)
BY DEF AddLine, File

LEMMA FailedTyped ==
    ASSUME NEW file \in File, NEW line \in Line, NEW f \in FailedWrites(file, line)
    PROVE  /\ f \in File
           /\ \/ f.lines = file.lines
              \/ f.lines = Append(file.lines, Cut)
              \/ f.lines = Append(file.lines, line)
<1>1. Cut \in Line
  BY DEF Cut, Line, NoGap, NoSha
<1>2. [file EXCEPT !.mid = FALSE] \in File /\ [file EXCEPT !.mid = FALSE].lines = file.lines
  BY DEF File
<1>3. QED
  BY <1>1, <1>2, LineAdded DEF FailedWrites

LEMMA FilesTyped ==
    ASSUME TypeOK
    PROVE  /\ EmptyFile \in File
           /\ LastShaOf(log) \in Nat
           /\ \A n \in 1 .. Len(archive) : archive[n] \in File /\ LastShaOf(archive[n]) \in Nat
           /\ \A p \in Proc : Record(p) \in Line
           /\ \A p \in Proc : Marker(p) \in Line
<1>1. \A f \in File : f.lines \in Seq(Line) /\ Len(f.lines) \in 0 .. Len(f.lines)
  BY DEF File
<1>2. \A f \in File : LastShaOf(f) \in Nat
  BY <1>1, LastShaType DEF LastShaOf
<1>3. EmptyFile \in File
  BY DEF EmptyFile, File
<1>4. \A n \in 1 .. Len(archive) : archive[n] \in File
  BY DEF TypeOK
<1>5. \A p \in Proc : Record(p) \in Line
  BY DEF TypeOK, Record, Line
<1>6. \A p \in Proc : Marker(p) \in Line
  <2>1. Len(archive) \in Nat /\ NoGap \in Nat \X Nat
    BY DEF TypeOK, NoGap
  <2>2. QED
    BY <1>5, <2>1 DEF Marker, Line
<1>7. QED
  BY <1>2, <1>3, <1>4, <1>5, <1>6 DEF TypeOK

\* What an append can do to the log.
LEMMA LogGrows ==
    ASSUME TypeOK, NEW p \in Proc, AppendOK(p) \/ AppendFails(p)
    PROVE  \/ log'.lines = log.lines
           \/ log'.lines = Append(log.lines, Cut)
           \/ log'.lines = Append(log.lines, Record(p))
<1>1. log \in File /\ Record(p) \in Line
  BY FilesTyped DEF TypeOK
<1>2. log' = AddLine(log, Record(p), FALSE) \/ log' \in FailedWrites(log, Record(p))
  BY Zenon DEF AppendOK, AppendFails
<1>3. AddLine(log, Record(p), FALSE).lines = Append(log.lines, Record(p))
  BY <1>1, LineAdded
<1>4. QED
  BY <1>1, <1>2, <1>3, FailedTyped

LEMMA DraftIs ==
    ASSUME TypeOK, NEW p \in Proc, NEW gap \in Nat \X Nat, Draft(p, log, gap)
    PROVE  /\ failures' \in {failures, failures + 1} /\ failures' \in Nat
           /\ draft' \in [Proc -> [prev : Nat, gap : Nat \X Nat, blind : BOOLEAN]]
           /\ draft'[p].gap = gap
           /\ draft'[p].blind \/ draft'[p].prev = LastShaOf(log)
           /\ \A q \in Proc : q # p => draft'[q] = draft[q]
<1>1. PICK blind \in BOOLEAN :
          /\ failures' = IF blind THEN failures + 1 ELSE failures
          /\ draft' = [draft EXCEPT ![p] =
                [prev |-> IF blind THEN NoSha ELSE LastShaOf(log),
                 gap |-> gap, blind |-> blind]]
  BY Zenon DEF Draft
<1>2. failures' \in {failures, failures + 1} /\ failures' \in Nat
  BY <1>1 DEF TypeOK
<1> DEFINE link == [prev |-> IF blind THEN NoSha ELSE LastShaOf(log),
                    gap |-> gap, blind |-> blind]
<1>3. LastShaOf(log) \in Nat
  BY FilesTyped
<1>4. /\ link \in [prev : Nat, gap : Nat \X Nat, blind : BOOLEAN]
      /\ link.gap = gap /\ (link.blind \/ link.prev = LastShaOf(log))
  BY <1>3 DEF NoSha
<1>5. draft \in [Proc -> [prev : Nat, gap : Nat \X Nat, blind : BOOLEAN]]
  BY DEF TypeOK
<1>6. draft' = [draft EXCEPT ![p] = link]
  BY <1>1
<1> HIDE DEF link
<1>7. QED
  BY <1>2, <1>4, <1>5, <1>6

\* The lock passes between processes with the label that says so.
LEMMA LockTyped ==
    ASSUME TypeOK, NEW p \in Proc, NEW l,
           pc' = [pc EXCEPT ![p] = l],
           \/ lockedBy = None /\ lockedBy' = p /\ l \in {"write", "marker"}
           \/ pc[p] \in {"write", "marker"} /\ lockedBy' = None /\ l \notin {"write", "marker"}
           \/ /\ pc[p] \notin {"write", "marker"} /\ lockedBy' = lockedBy
              /\ l \notin {"write", "marker"}
    PROVE  \A q \in Proc : lockedBy' = q <=> pc'[q] \in {"write", "marker"}
<1>1. \A q \in Proc : pc'[q] = IF q = p THEN l ELSE pc[q]
  BY DEF TypeOK
<1>2. \A q \in Proc : lockedBy = q <=> pc[q] \in {"write", "marker"}
  BY DEF TypeOK
<1>3. \A q \in Proc : q # None
  BY AuditAssumption
<1>4. QED
  BY <1>1, <1>2, <1>3

LEMMA TypedInit ==
    ASSUME Init
    PROVE  TypeOK
<1>1. EmptyFile \in File
  BY DEF EmptyFile, File
<1>2. cutShort \in BOOLEAN
  BY Zenon DEF Init
<1>3. archive \in Seq(File) /\ gone \in Nat /\ gone <= Len(archive)
  BY DEF Init
<1>4. \A p \in Proc : lockedBy = p <=> pc[p] \in {"write", "marker"}
  BY AuditAssumption DEF Init
<1>5. [prev |-> NoSha, gap |-> NoGap, blind |-> FALSE]
          \in [prev : Nat, gap : Nat \X Nat, blind : BOOLEAN]
  BY DEF NoSha, NoGap
<1>6. QED
  BY <1>1, <1>2, <1>3, <1>4, <1>5 DEF Init, TypeOK

LEMMA TypedStep ==
    ASSUME TypeOK, NothingYet, [LogNext]_vars
    PROVE  TypeOK'
<1>1. CASE UNCHANGED vars
  BY <1>1 DEF TypeOK, vars
<1>2. ASSUME NEW p \in Proc, NEW gap \in Nat \X Nat, StartAppend(p, gap)
      PROVE  TypeOK'
  <2>1. /\ pc[p] = "idle" /\ lockedBy = None /\ lockedBy' = p /\ Draft(p, log, gap)
        /\ pc' = [pc EXCEPT ![p] = "write"]
        /\ UNCHANGED <<log, archive, gone, nextSha, acked, notes, cutShort, crashes>>
    BY <1>2, Zenon DEF StartAppend
  <2>2. /\ failures' \in Nat
        /\ draft' \in [Proc -> [prev : Nat, gap : Nat \X Nat, blind : BOOLEAN]]
    BY <2>1, DraftIs
  <2>3. \A q \in Proc : lockedBy' = q <=> pc'[q] \in {"write", "marker"}
    BY <2>1, LockTyped
  <2>4. QED
    BY <2>1, <2>2, <2>3 DEF TypeOK
<1>3. ASSUME NEW p \in Proc, AppendOK(p)
      PROVE  TypeOK'
  <2>1. log' \in File
    BY <1>3, FilesTyped, LineAdded DEF TypeOK, AppendOK
  <2>2. acked' \in SUBSET Nat
    BY <1>3 DEF TypeOK, AppendOK
  <2>3. /\ pc[p] = "write"
        /\ lockedBy' = None /\ pc' = [pc EXCEPT ![p] = "idle"] /\ nextSha' = nextSha + 1
        /\ UNCHANGED <<archive, gone, draft, notes, cutShort, failures, crashes>>
    BY <1>3, Zenon DEF AppendOK, Release
  <2>4. \A q \in Proc : lockedBy' = q <=> pc'[q] \in {"write", "marker"}
    BY <2>3, LockTyped
  <2>5. QED
    BY <2>1, <2>2, <2>3, <2>4 DEF TypeOK
<1>4. ASSUME NEW p \in Proc, AppendFails(p)
      PROVE  TypeOK'
  <2>1. log' \in File
    BY <1>4, FilesTyped, FailedTyped DEF TypeOK, AppendFails
  <2>2. /\ pc[p] = "write"
        /\ lockedBy' = None /\ pc' = [pc EXCEPT ![p] = "failed"] /\ nextSha' = nextSha + 1
        /\ failures' = failures + 1
        /\ UNCHANGED <<archive, gone, draft, acked, notes, cutShort, crashes>>
    BY <1>4, Zenon DEF AppendFails, Release
  <2>3. \A q \in Proc : lockedBy' = q <=> pc'[q] \in {"write", "marker"}
    BY <2>2, LockTyped
  <2>4. QED
    BY <2>1, <2>2, <2>3 DEF TypeOK
<1>5. ASSUME NEW p \in Proc, NoteFailure(p)
      PROVE  TypeOK'
  <2>1. /\ pc[p] = "failed" /\ pc' = [pc EXCEPT ![p] = "idle"] /\ lockedBy' = lockedBy
    BY <1>5, Zenon DEF NoteFailure
  <2>2. \A q \in Proc : lockedBy' = q <=> pc'[q] \in {"write", "marker"}
    BY <2>1, LockTyped
  <2>3. QED
    BY <1>5, <2>2 DEF TypeOK, NoteFailure
<1>6. ASSUME NEW p \in Proc, Rotate(p)
      PROVE  TypeOK'
  <2>1. /\ pc[p] = "idle" /\ lockedBy = None /\ lockedBy' = p /\ Draft(p, log, NoGap)
        /\ pc' = [pc EXCEPT ![p] = "marker"]
        /\ archive' = Append(archive, log) /\ gone' \in gone .. Len(archive)
        /\ log' = EmptyFile
        /\ UNCHANGED <<nextSha, acked, notes, cutShort, crashes>>
    BY <1>6, Zenon DEF Rotate
  <2>2. NoGap \in Nat \X Nat
    BY DEF NoGap
  <2>3. /\ failures' \in Nat
        /\ draft' \in [Proc -> [prev : Nat, gap : Nat \X Nat, blind : BOOLEAN]]
    BY <2>1, <2>2, DraftIs
  <2>4. \A q \in Proc : lockedBy' = q <=> pc'[q] \in {"write", "marker"}
    BY <2>1, LockTyped
  <2>5. archive' \in Seq(File) /\ gone' \in Nat /\ gone' <= Len(archive')
    BY <2>1 DEF TypeOK
  <2>6. EmptyFile \in File
    BY FilesTyped
  <2>7. QED
    BY <2>1, <2>3, <2>4, <2>5, <2>6 DEF TypeOK
<1>7. ASSUME NEW p \in Proc, WriteMarker(p)
      PROVE  TypeOK'
  <2>1. Marker(p) \in Line
    BY FilesTyped
  <2>2. log' \in File
    BY <1>7, <2>1, FilesTyped, LineAdded DEF WriteMarker
  <2>3. /\ pc[p] = "marker"
        /\ lockedBy' = None /\ pc' = [pc EXCEPT ![p] = "idle"] /\ nextSha' = nextSha + 1
        /\ UNCHANGED <<archive, gone, draft, acked, notes, cutShort, failures, crashes>>
    BY <1>7, Zenon DEF WriteMarker, Release
  <2>4. \A q \in Proc : lockedBy' = q <=> pc'[q] \in {"write", "marker"}
    BY <2>3, LockTyped
  <2>5. QED
    BY <2>2, <2>3, <2>4 DEF TypeOK
<1>8. ASSUME NEW p \in Proc, MarkerFails(p)
      PROVE  TypeOK'
  <2>1. Marker(p) \in Line
    BY FilesTyped
  <2>2. log' \in File
    BY <1>8, <2>1, FilesTyped, FailedTyped DEF MarkerFails
  <2>3. /\ pc[p] = "marker"
        /\ lockedBy' = None /\ pc' = [pc EXCEPT ![p] = "idle"] /\ nextSha' = nextSha + 1
        /\ failures' = failures + 1 /\ cutShort' = TRUE
        /\ UNCHANGED <<archive, gone, draft, acked, notes, crashes>>
    BY <1>8, Zenon DEF MarkerFails, Release
  <2>4. \A q \in Proc : lockedBy' = q <=> pc'[q] \in {"write", "marker"}
    BY <2>3, LockTyped
  <2>5. QED
    BY <2>2, <2>3, <2>4 DEF TypeOK
<1>9. ASSUME NEW p \in Proc, Ends(p)
      PROVE  TypeOK'
  <2>1. cutShort' \in BOOLEAN
    BY <1>9, Zenon DEF Ends
  <2>2. lockedBy' \in Proc \cup {None}
    BY <1>9 DEF TypeOK, Ends
  <2>3. pc' \in [Proc -> {"idle", "write", "failed", "marker"}]
    BY <1>9 DEF TypeOK, Ends
  <2>4. crashes' \in Nat
    BY <1>9 DEF TypeOK, Ends
  <2>5. UNCHANGED <<log, archive, gone, draft, nextSha, acked, notes, failures>>
    BY <1>9, Zenon DEF Ends
  <2>6. \A q \in Proc : lockedBy' = q <=> pc'[q] \in {"write", "marker"}
    <3>1. /\ pc' = [pc EXCEPT ![p] = "idle"]
          /\ lockedBy' = IF lockedBy = p THEN None ELSE lockedBy
      BY <1>9, Zenon DEF Ends
    <3>2. lockedBy = p <=> pc[p] \in {"write", "marker"}
      BY DEF TypeOK
    <3>3. QED
      BY <3>1, <3>2, LockTyped
  <2>7. QED
    BY <2>1, <2>2, <2>3, <2>4, <2>5, <2>6 DEF TypeOK
<1>10. QED
  BY <1>1, <1>2, <1>3, <1>4, <1>5, <1>6, <1>7, <1>8, <1>9 DEF LogNext

--------------------------------------------------------------------------------
(* The lock *)

\* Holding the lock, a process writes and starts the log alone.
LEMMA LockStep ==
    ASSUME TypeOK, WriterHolds, NothingYet, DraftCurrent, [LogNext]_vars
    PROVE  WriterHolds' /\ NothingYet' /\ DraftCurrent'
<1>1. CASE UNCHANGED vars
  BY <1>1, Zenon DEF WriterHolds, NothingYet, DraftCurrent, vars
<1>2. ASSUME NEW p \in Proc, NEW gap \in Nat \X Nat, StartAppend(p, gap)
      PROVE  WriterHolds' /\ NothingYet' /\ DraftCurrent'
  <2>1. \A q \in Proc : pc[q] \notin {"write", "marker"}
    BY <1>2, AuditAssumption DEF StartAppend, WriterHolds, TypeOK
  <2>2. \A q \in Proc : pc'[q] = IF q = p THEN "write" ELSE pc[q]
    BY <1>2 DEF StartAppend, TypeOK
  <2>3. /\ lockedBy' = p /\ log' = log /\ archive' = archive
        /\ draft'[p].blind \/ draft'[p].prev = LastShaOf(log)
    BY <1>2, DraftIs DEF StartAppend
  <2>4. QED
    BY <2>1, <2>2, <2>3 DEF WriterHolds, NothingYet, DraftCurrent
<1>3. ASSUME NEW p \in Proc, Rotate(p)
      PROVE  WriterHolds' /\ NothingYet' /\ DraftCurrent'
  <2>1. \A q \in Proc : pc[q] \notin {"write", "marker"}
    BY <1>3, AuditAssumption DEF Rotate, WriterHolds, TypeOK
  <2>2. \A q \in Proc : pc'[q] = IF q = p THEN "marker" ELSE pc[q]
    BY <1>3 DEF Rotate, TypeOK
  <2>3. lockedBy' = p /\ log' = EmptyFile /\ archive' # <<>>
    BY <1>3 DEF Rotate, TypeOK
  <2>4. NoGap \in Nat \X Nat /\ archive' = Append(archive, log) /\ Draft(p, log, NoGap)
    BY <1>3 DEF Rotate, NoGap
  <2>5. archive'[Len(archive')] = log
    BY <2>4 DEF TypeOK
  <2>6. draft'[p].blind \/ draft'[p].prev = LastShaOf(archive'[Len(archive')])
    BY <2>4, <2>5, DraftIs
  <2>7. QED
    BY <2>1, <2>2, <2>3, <2>6 DEF WriterHolds, NothingYet, DraftCurrent
<1>4. ASSUME NEW p \in Proc, pc[p] \in {"write", "marker"},
             \A q \in Proc : pc'[q] = IF q = p THEN pc'[p] ELSE pc[q],
             pc'[p] \notin {"write", "marker"}
      PROVE  WriterHolds' /\ NothingYet' /\ DraftCurrent'
  <2>1. \A q \in Proc : pc[q] \in {"write", "marker"} => q = p
    BY <1>4 DEF WriterHolds
  <2>2. \A q \in Proc : pc'[q] \notin {"write", "marker"}
    BY <1>4, <2>1
  <2>3. QED
    BY <2>2 DEF WriterHolds, NothingYet, DraftCurrent
<1>5. ASSUME NEW p \in Proc,
             AppendOK(p) \/ AppendFails(p) \/ WriteMarker(p) \/ MarkerFails(p)
      PROVE  WriterHolds' /\ NothingYet' /\ DraftCurrent'
  <2>1. pc[p] \in {"write", "marker"} /\ pc' \in {[pc EXCEPT ![p] = l] : l \in {"idle", "failed"}}
    BY <1>5 DEF AppendOK, AppendFails, WriteMarker, MarkerFails, Release
  <2>2. /\ \A q \in Proc : pc'[q] = IF q = p THEN pc'[p] ELSE pc[q]
        /\ pc'[p] \notin {"write", "marker"}
    BY <2>1 DEF TypeOK
  <2>3. QED
    BY <1>4, <2>1, <2>2
<1>6. ASSUME NEW p \in Proc, NoteFailure(p)
      PROVE  WriterHolds' /\ NothingYet' /\ DraftCurrent'
  <2>1. \A q \in Proc : pc'[q] \in {"write", "marker"} => pc'[q] = pc[q]
    BY <1>6 DEF NoteFailure, TypeOK
  <2>2. UNCHANGED <<log, archive, draft, lockedBy>>
    BY <1>6, Zenon DEF NoteFailure
  <2>3. QED
    BY <2>1, <2>2 DEF WriterHolds, NothingYet, DraftCurrent
<1>7. ASSUME NEW p \in Proc, Ends(p)
      PROVE  WriterHolds' /\ NothingYet' /\ DraftCurrent'
  <2>1. \A q \in Proc : pc'[q] \in {"write", "marker"} => pc'[q] = pc[q] /\ q # p
    BY <1>7 DEF Ends, TypeOK
  <2>2. UNCHANGED <<log, archive, draft>> /\ (lockedBy # p => lockedBy' = lockedBy)
    BY <1>7, Zenon DEF Ends
  <2>3. QED
    BY <2>1, <2>2 DEF WriterHolds, NothingYet, DraftCurrent
<1>8. QED
  BY <1>1, <1>2, <1>3, <1>5, <1>6, <1>7 DEF LogNext

--------------------------------------------------------------------------------
(* The chain *)

LEMMA LastShaEmpty ==
    ASSUME NEW lines
    PROVE  LastSha(lines, 0) = NoSha
BY LastShaIs DEF ReadableTail

LEMMA ChainedLonger ==
    ASSUME NEW lines \in Seq(Line), NEW arcs, Chained(lines, arcs),
           NEW line \in Line,
           Readable(line) /\ ~line.blind =>
               line.arch = 0 /\ line.prev = LastSha(lines, Len(lines))
    PROVE  Chained(Append(lines, line), arcs)
<1> DEFINE more == Append(lines, line)
<1>1. /\ Len(more) = Len(lines) + 1 /\ more[Len(lines) + 1] = line
      /\ \A i \in 1 .. Len(lines) : more[i] = lines[i]
  OBVIOUS
<1>2. Len(lines) \in Nat
  OBVIOUS
<1> HIDE DEF more
<1>3. ASSUME NEW n \in 0 .. Len(lines)
      PROVE  LastSha(more, n) = LastSha(lines, n)
  BY <1>1, LastShaPrefix
<1>4. ASSUME NEW i \in 1 .. Len(lines), Readable(more[i]), ~more[i].blind
      PROVE  LinkOK(more, i, arcs)
  BY <1>1, <1>3, <1>4 DEF Chained, LinkOK
<1>5. ASSUME Readable(line), ~line.blind
      PROVE  LinkOK(more, Len(lines) + 1, arcs)
  <2>1. LastSha(more, Len(lines)) = line.prev
    BY <1>2, <1>3, <1>5
  <2>2. CASE Len(lines) = 0
    BY <1>1, <1>5, <2>1, <2>2, LastShaEmpty DEF LinkOK
  <2>3. CASE Len(lines) # 0
    BY <1>1, <1>2, <2>1, <2>3 DEF LinkOK
  <2>4. QED
    BY <2>2, <2>3
<1>6. QED
  BY <1>1, <1>2, <1>4, <1>5 DEF Chained, more

\* A new archive breaks no link to an earlier one.
LEMMA ChainedInMore ==
    ASSUME NEW lines \in Seq(Line), NEW arcs \in Seq(File), NEW file \in File,
           Chained(lines, arcs)
    PROVE  Chained(lines, Append(arcs, file))
<1> DEFINE more == Append(arcs, file)
<1>1. \A n \in 1 .. Len(arcs) : n \in 1 .. Len(more) /\ more[n] = arcs[n]
  OBVIOUS
<1> HIDE DEF more
<1>2. ASSUME NEW i \in 1 .. Len(lines), LinkOK(lines, i, arcs)
      PROVE  LinkOK(lines, i, more)
  <2>1. CASE i > 1
    BY <1>2, <2>1 DEF LinkOK
  <2>2. CASE ~(i > 1)
    BY <1>1, <1>2, <2>2 DEF LinkOK
  <2>3. QED
    BY <2>1, <2>2
<1>3. Chained(lines, more)
  BY <1>2 DEF Chained
<1>4. QED
  BY <1>3 DEF more

\* A log that begins with its marker.
LEMMA ChainedMarker ==
    ASSUME TypeOK, DraftCurrent, archive # <<>>, NEW p \in Proc, pc[p] = "marker"
    PROVE  Chained(<<Marker(p)>>, archive)
<1>1. /\ Marker(p).arch = Len(archive)
      /\ ~Marker(p).blind => Marker(p).prev = LastShaOf(archive[Len(archive)])
  BY DEF Marker, Record, DraftCurrent
<1>2. Len(archive) \in 1 .. Len(archive)
  BY DEF TypeOK
<1> HIDE DEF Marker
<1>3. ~Marker(p).blind => LinkOK(<<Marker(p)>>, 1, archive)
  BY <1>1, <1>2 DEF LinkOK
<1>4. QED
  BY <1>3 DEF Chained

LEMMA ChainStep ==
    ASSUME TypeOK, DraftCurrent, NothingYet, AllChained, [LogNext]_vars
    PROVE  AllChained'
<1>1. CASE UNCHANGED <<log, archive>>
  BY <1>1, Zenon DEF AllChained
<1>2. /\ log \in File /\ log.lines \in Seq(Line)
      /\ archive \in Seq(File)
      /\ \A n \in 1 .. Len(archive) : archive[n].lines \in Seq(Line)
  <2>1. log \in File /\ archive \in Seq(File)
    BY DEF TypeOK
  <2>2. \A f \in File : f.lines \in Seq(Line)
    BY DEF File
  <2>3. \A n \in 1 .. Len(archive) : archive[n] \in File
    BY <2>1
  <2>4. QED
    BY <2>1, <2>2, <2>3
<1>3. Chained(<<>>, archive) /\ Chained(EmptyFile.lines, archive)
  BY DEF Chained, EmptyFile
<1>4. Cut \in Line /\ ~Readable(Cut)
  BY DEF Cut, Line, NoGap, NoSha, Readable
<1>5. ASSUME NEW p \in Proc, AppendOK(p) \/ AppendFails(p)
      PROVE  AllChained'
  <2>1. pc[p] = "write" /\ archive' = archive
    BY <1>5, Zenon DEF AppendOK, AppendFails
  <2>2. \/ log'.lines = log.lines
        \/ log'.lines = Append(log.lines, Cut)
        \/ log'.lines = Append(log.lines, Record(p))
    BY <1>5, LogGrows
  <2>3. /\ Record(p) \in Line /\ Record(p).arch = 0
        /\ ~Record(p).blind => Record(p).prev = LastSha(log.lines, Len(log.lines))
    BY <2>1, FilesTyped DEF Record, DraftCurrent, LastShaOf
  <2>4. /\ Chained(Append(log.lines, Cut), archive)
        /\ Chained(Append(log.lines, Record(p)), archive)
    BY <1>2, <1>4, <2>3, ChainedLonger DEF AllChained
  <2>5. QED
    BY <2>1, <2>2, <2>4 DEF AllChained
<1>6. ASSUME NEW p \in Proc, Rotate(p)
      PROVE  AllChained'
  <2>1. archive' = Append(archive, log) /\ log' = EmptyFile
    BY <1>6, Zenon DEF Rotate
  <2>2. /\ Len(archive') = Len(archive) + 1 /\ archive'[Len(archive) + 1] = log
        /\ \A n \in 1 .. Len(archive) : archive'[n] = archive[n]
    BY <1>2, <2>1
  <2>3. Chained(log.lines, archive')
    BY <1>2, <2>1, ChainedInMore DEF AllChained
  <2>4. \A n \in 1 .. Len(archive) : Chained(archive[n].lines, archive')
    BY <1>2, <2>1, ChainedInMore DEF AllChained
  <2>5. Chained(log'.lines, archive')
    BY <2>1 DEF Chained, EmptyFile
  <2>6. Len(archive) \in Nat
    BY <1>2
  <2>7. \A n \in 1 .. Len(archive') : Chained(archive'[n].lines, archive')
    BY <2>2, <2>3, <2>4, <2>6
  <2>8. QED
    BY <2>5, <2>7 DEF AllChained
<1>7. ASSUME NEW p \in Proc, WriteMarker(p) \/ MarkerFails(p)
      PROVE  AllChained'
  <2>1. archive # <<>> /\ archive' = archive /\ pc[p] = "marker"
    BY <1>7 DEF WriteMarker, MarkerFails, NothingYet
  <2>2. Marker(p) \in Line /\ EmptyFile \in File
    BY <2>1, FilesTyped
  <2>3. \/ log'.lines = <<>>
        \/ log'.lines = <<Cut>>
        \/ log'.lines = <<Marker(p)>>
    <3>1. EmptyFile.lines = <<>> /\ Append(<<>>, Cut) = <<Cut>> /\ Append(<<>>, Marker(p)) = <<Marker(p)>>
      BY <1>4, <2>2 DEF EmptyFile
    <3>2. log' = AddLine(EmptyFile, Marker(p), FALSE) \/ log' \in FailedWrites(EmptyFile, Marker(p))
      BY <1>7, Zenon DEF WriteMarker, MarkerFails
    <3>3. AddLine(EmptyFile, Marker(p), FALSE).lines = Append(EmptyFile.lines, Marker(p))
      BY <2>2, LineAdded
    <3>4. QED
      BY <2>2, <3>1, <3>2, <3>3, FailedTyped
  <2>4. Chained(<<Marker(p)>>, archive)
    BY <2>1, ChainedMarker
  <2>5. Chained(<<Cut>>, archive)
    BY <1>4 DEF Chained
  <2>6. QED
    BY <1>3, <2>1, <2>3, <2>4, <2>5 DEF AllChained
<1>8. ASSUME NEW p \in Proc,
             (\E gap \in Nat \X Nat : StartAppend(p, gap)) \/ NoteFailure(p) \/ Ends(p)
      PROVE  AllChained'
  <2>1. UNCHANGED <<log, archive>>
    BY <1>8, Zenon DEF StartAppend, NoteFailure, Ends
  <2>2. QED
    BY <1>1, <2>1
<1>9. QED
  BY <1>1, <1>5, <1>6, <1>7, <1>8 DEF LogNext, vars

LEMMA ChainedVerifies ==
    ASSUME NEW lines \in Seq(Line), Chained(lines, archive), Intact(lines)
    PROVE  Verifies(lines)
<1>1. ASSUME NEW i \in 1 .. Len(lines)
      PROVE  lines[i].prev = ExpectedPrev(lines, i)
  <2>1. LinkOK(lines, i, archive)
    BY DEF Chained, Intact
  <2>2. CASE i > 1
    <3>1. i - 1 \in Nat \ {0} /\ i - 1 \in 1 .. Len(lines)
      BY <2>2
    <3>2. LastSha(lines, i - 1) = lines[i - 1].sha
      BY <3>1, LastShaOfReadable DEF Intact
    <3>3. QED
      BY <2>1, <2>2, <3>2 DEF LinkOK, ExpectedPrev
  <2>3. CASE ~(i > 1)
    <3>1. i = 1
      BY <2>3
    <3>2. QED
      BY <2>1, <3>1 DEF LinkOK, ExpectedPrev
  <2>4. QED
    BY <2>2, <2>3
<1>2. ASSUME lines # <<>>
      PROVE  MarkerOK(lines[1])
  <2>1. 1 \in 1 .. Len(lines)
    BY <1>2
  <2>2. LinkOK(lines, 1, archive)
    BY <2>1 DEF Chained, Intact
  <2>3. QED
    BY <2>2 DEF LinkOK, MarkerOK
<1>3. QED
  BY <1>1, <1>2 DEF Verifies, Intact

--------------------------------------------------------------------------------
(* Acknowledged records *)

HasSha(lines, r) == \E i \in 1 .. Len(lines) : lines[i].sha = r

Kept == \A r \in acked : \/ HasSha(log.lines, r)
                         \/ \E n \in 1 .. Len(archive) : HasSha(archive[n].lines, r)

LEMMA HasShaLonger ==
    ASSUME NEW lines \in Seq(Line), NEW line
    PROVE  /\ HasSha(Append(lines, line), line.sha)
           /\ \A r : HasSha(lines, r) => HasSha(Append(lines, line), r)
<1> DEFINE more == Append(lines, line)
<1>1. /\ \A i \in 1 .. Len(lines) : i \in 1 .. Len(more) /\ more[i] = lines[i]
      /\ Len(lines) + 1 \in 1 .. Len(more) /\ more[Len(lines) + 1] = line
  OBVIOUS
<1> HIDE DEF more
<1>2. HasSha(more, line.sha) /\ \A r : HasSha(lines, r) => HasSha(more, r)
  BY <1>1 DEF HasSha
<1>3. QED
  BY <1>2 DEF more

LEMMA KeptStep ==
    ASSUME TypeOK, NothingYet, Kept, [LogNext]_vars
    PROVE  Kept'
<1>1. log \in File /\ log.lines \in Seq(Line) /\ archive \in Seq(File)
  BY DEF TypeOK, File
<1>2. CASE UNCHANGED <<log, archive, acked>>
  BY <1>2, Zenon DEF Kept
<1>3. ASSUME NEW p \in Proc, AppendOK(p)
      PROVE  Kept'
  <2>1. acked' = acked \cup {nextSha} /\ log' = AddLine(log, Record(p), FALSE) /\ archive' = archive
    BY <1>3, Zenon DEF AppendOK
  <2>2. log'.lines = Append(log.lines, Record(p)) /\ Record(p).sha = nextSha
    BY <1>1, <2>1, FilesTyped, LineAdded DEF Record
  <2>3. HasSha(log'.lines, nextSha) /\ \A r : HasSha(log.lines, r) => HasSha(log'.lines, r)
    BY <1>1, <2>2, HasShaLonger
  <2>4. QED
    BY <2>1, <2>3 DEF Kept
<1>4. ASSUME NEW p \in Proc, AppendFails(p)
      PROVE  Kept'
  <2>1. acked' = acked /\ log' \in FailedWrites(log, Record(p)) /\ archive' = archive
    BY <1>4, Zenon DEF AppendFails
  <2>2. \/ log'.lines = log.lines
        \/ log'.lines = Append(log.lines, Cut)
        \/ log'.lines = Append(log.lines, Record(p))
    BY <1>4, LogGrows
  <2>3. \A r : HasSha(log.lines, r) => HasSha(log'.lines, r)
    BY <1>1, <2>2, HasShaLonger
  <2>4. QED
    BY <2>1, <2>3 DEF Kept
<1>5. ASSUME NEW p \in Proc, Rotate(p)
      PROVE  Kept'
  <2>1. acked' = acked /\ archive' = Append(archive, log)
    BY <1>5, Zenon DEF Rotate
  <2>2. /\ \A n \in 1 .. Len(archive) : n \in 1 .. Len(archive') /\ archive'[n] = archive[n]
        /\ Len(archive) + 1 \in 1 .. Len(archive') /\ archive'[Len(archive) + 1] = log
    BY <1>1, <2>1
  <2>3. QED
    BY <2>1, <2>2 DEF Kept
<1>6. ASSUME NEW p \in Proc, WriteMarker(p) \/ MarkerFails(p)
      PROVE  Kept'
  <2>1. acked' = acked /\ archive' = archive /\ log = EmptyFile
    BY <1>6 DEF WriteMarker, MarkerFails, NothingYet
  <2>2. \A r : ~HasSha(log.lines, r)
    <3>1. Len(log.lines) = 0
      BY <2>1 DEF EmptyFile
    <3>2. QED
      BY <3>1 DEF HasSha
  <2>3. QED
    BY <2>1, <2>2 DEF Kept
<1>7. ASSUME NEW p \in Proc,
             (\E gap \in Nat \X Nat : StartAppend(p, gap)) \/ NoteFailure(p) \/ Ends(p)
      PROVE  Kept'
  <2>1. UNCHANGED <<log, archive, acked>>
    BY <1>7, Zenon DEF StartAppend, NoteFailure, Ends
  <2>2. QED
    BY <1>2, <2>1
<1>8. QED
  BY <1>2, <1>3, <1>4, <1>5, <1>6, <1>7 DEF LogNext, vars

--------------------------------------------------------------------------------
(* The marker of a new log *)

\* Until a rotation is cut short, an archive is followed by a log that names it,
\* or by one whose marker is being written.
Named ==
    ~cutShort /\ archive # <<>> =>
        \/ \E p \in Proc : pc[p] = "marker"
        \/ log.lines # <<>> /\ log.lines[1].arch = Len(archive)

LEMMA NamedStep ==
    ASSUME TypeOK, WriterHolds, NothingYet, Named, [LogNext]_vars
    PROVE  Named'
<1>1. log \in File /\ log.lines \in Seq(Line) /\ archive \in Seq(File)
  BY DEF TypeOK, File
<1>2. CASE UNCHANGED vars
  BY <1>2, Zenon DEF Named, vars
<1>3. ASSUME NEW p \in Proc, AppendOK(p) \/ AppendFails(p)
      PROVE  Named'
  <2>1. pc[p] = "write" /\ archive' = archive /\ cutShort' = cutShort
    BY <1>3, Zenon DEF AppendOK, AppendFails
  <2>2. \A q \in Proc : pc[q] # "marker"
    BY <2>1 DEF WriterHolds
  <2>3. \/ log'.lines = log.lines
        \/ log'.lines = Append(log.lines, Cut)
        \/ log'.lines = Append(log.lines, Record(p))
    BY <1>3, LogGrows
  <2>4. log.lines # <<>> => log'.lines # <<>> /\ log'.lines[1] = log.lines[1]
    BY <1>1, <2>3
  <2>5. QED
    BY <2>1, <2>2, <2>4 DEF Named
<1>4. ASSUME NEW p \in Proc, Rotate(p)
      PROVE  Named'
  <2>1. pc'[p] = "marker"
    BY <1>4 DEF Rotate, TypeOK
  <2>2. QED
    BY <2>1 DEF Named
<1>5. ASSUME NEW p \in Proc, WriteMarker(p)
      PROVE  Named'
  <2>1. log' = AddLine(EmptyFile, Marker(p), FALSE) /\ archive' = archive /\ archive # <<>>
    BY <1>5 DEF WriteMarker, NothingYet
  <2>2. log'.lines = Append(EmptyFile.lines, Marker(p))
    BY <2>1, FilesTyped, LineAdded
  <2>3. Marker(p).arch = Len(archive)
    BY DEF Marker
  <2>4. Marker(p) \in Line
    BY <2>1, FilesTyped
  <2> HIDE DEF Marker
  <2>5. log'.lines = Append(<<>>, Marker(p))
    BY <2>2 DEF EmptyFile
  <2>6. log'.lines # <<>> /\ log'.lines[1] = Marker(p)
    BY <2>4, <2>5
  <2>7. QED
    BY <2>1, <2>3, <2>6, Zenon DEF Named
<1>6. ASSUME NEW p \in Proc, MarkerFails(p)
      PROVE  Named'
  BY <1>6, Zenon DEF MarkerFails, Named
<1>7. ASSUME NEW p \in Proc, NEW l \in {"idle", "write"}, pc' = [pc EXCEPT ![p] = l],
             UNCHANGED <<log, archive>>, cutShort => cutShort',
             pc[p] = "marker" => cutShort'
      PROVE  Named'
  <2>1. \A q \in Proc : q # p => pc'[q] = pc[q]
    BY <1>7 DEF TypeOK
  <2>2. QED
    BY <1>7, <2>1, Zenon DEF Named
<1>8. ASSUME NEW p \in Proc, NEW gap \in Nat \X Nat, StartAppend(p, gap)
      PROVE  Named'
  <2>1. pc[p] # "marker"
    BY <1>8 DEF StartAppend
  <2>2. pc' = [pc EXCEPT ![p] = "write"] /\ UNCHANGED <<log, archive, cutShort>>
    BY <1>8, Zenon DEF StartAppend
  <2>3. QED
    BY <1>7, <2>1, <2>2
<1>9. ASSUME NEW p \in Proc, NoteFailure(p)
      PROVE  Named'
  <2>1. pc[p] # "marker"
    BY <1>9 DEF NoteFailure
  <2>2. pc' = [pc EXCEPT ![p] = "idle"] /\ UNCHANGED <<log, archive, cutShort>>
    BY <1>9, Zenon DEF NoteFailure
  <2>3. QED
    BY <1>7, <2>1, <2>2
<1>10. ASSUME NEW p \in Proc, Ends(p)
      PROVE  Named'
  <2>1. /\ pc' = [pc EXCEPT ![p] = "idle"] /\ UNCHANGED <<log, archive>>
        /\ cutShort => cutShort'
        /\ pc[p] = "marker" => cutShort'
    BY <1>10, Zenon DEF Ends
  <2>2. QED
    BY <1>7, <2>1
<1>11. QED
  BY <1>2, <1>3, <1>4, <1>5, <1>6, <1>8, <1>9, <1>10 DEF LogNext

--------------------------------------------------------------------------------
(* Damage *)

\* Lines in a row that no record can be read from are each the trace of a failed
\* write.
DamageShort(lines, bound) ==
    \A i \in 0 .. Len(lines), j \in 0 .. Len(lines) :
        (\A k \in i + 1 .. j : ~Readable(lines[k])) => j - i <= bound

LogDamageShort == DamageShort(log.lines, failures)

LEMMA DamageLonger ==
    ASSUME NEW lines \in Seq(Line), NEW n \in Nat, DamageShort(lines, n)
    PROVE  /\ DamageShort(lines, n + 1)
           /\ \A line \in Line : DamageShort(Append(lines, line), n + 1)
           /\ \A line \in Line : Readable(line) => DamageShort(Append(lines, line), n)
<1>1. Len(lines) \in Nat
  OBVIOUS
<1>2. DamageShort(lines, n + 1)
  BY <1>1 DEF DamageShort
<1>3. ASSUME NEW line \in Line, NEW i \in 0 .. Len(lines) + 1, NEW j \in 0 .. Len(lines) + 1,
             \A k \in i + 1 .. j : ~Readable(Append(lines, line)[k])
      PROVE  j - i <= n + 1 /\ (Readable(line) => j - i <= n)
  <2>1. \A k \in 1 .. Len(lines) : Append(lines, line)[k] = lines[k]
    OBVIOUS
  <2>2. Append(lines, line)[Len(lines) + 1] = line
    OBVIOUS
  <2>3. CASE j \in 0 .. Len(lines)
    <3>1. CASE i \in 0 .. Len(lines)
      <4>1. \A k \in i + 1 .. j : k \in 1 .. Len(lines)
        BY <2>3, <3>1
      <4>2. \A k \in i + 1 .. j : ~Readable(lines[k])
        BY <1>3, <2>1, <4>1
      <4>3. QED
        BY <2>3, <3>1, <4>2 DEF DamageShort
    <3>2. CASE i = Len(lines) + 1
      BY <1>1, <2>3, <3>2
    <3>3. QED
      BY <1>1, <3>1, <3>2
  <2>4. CASE j = Len(lines) + 1 /\ i \in 0 .. Len(lines)
    <3>1. j \in i + 1 .. j
      BY <1>1, <2>4
    <3>2. ~Readable(line)
      BY <1>3, <2>2, <2>4, <3>1
    <3>3. \A k \in i + 1 .. Len(lines) : k \in 1 .. Len(lines) /\ k \in i + 1 .. j
      BY <1>1, <2>4
    <3>4. \A k \in i + 1 .. Len(lines) : ~Readable(lines[k])
      BY <1>3, <2>1, <3>3
    <3>5. Len(lines) \in 0 .. Len(lines)
      BY <1>1
    <3>6. Len(lines) - i <= n
      BY <2>4, <3>4, <3>5 DEF DamageShort
    <3>7. QED
      BY <1>1, <2>4, <3>2, <3>6
  <2>5. CASE j = Len(lines) + 1 /\ i = Len(lines) + 1
    BY <1>1, <2>5
  <2>6. QED
    BY <1>1, <2>3, <2>4, <2>5
<1>4. \A line \in Line : Len(Append(lines, line)) = Len(lines) + 1
  OBVIOUS
<1>5. QED
  BY <1>2, <1>3, <1>4 DEF DamageShort

LEMMA DamageStep ==
    ASSUME TypeOK, NothingYet, LogDamageShort, [LogNext]_vars
    PROVE  LogDamageShort'
<1>1. log.lines \in Seq(Line) /\ failures \in Nat /\ nextSha # NoSha
  BY DEF TypeOK, File, NoSha
<1>2. CASE UNCHANGED <<log, failures>>
  BY <1>2, Zenon DEF LogDamageShort
<1>3. Cut \in Line /\ ~Readable(Cut)
  BY DEF Cut, Line, NoGap, NoSha, Readable
<1>4. ASSUME NEW n \in Nat
      PROVE  DamageShort(<<>>, n)
  BY DEF DamageShort
<1>5. DamageShort(log.lines, failures)
  BY DEF LogDamageShort
<1>6. ASSUME NEW p \in Proc, AppendOK(p)
      PROVE  LogDamageShort'
  <2>1. log' = AddLine(log, Record(p), FALSE) /\ failures' = failures
    BY <1>6, Zenon DEF AppendOK
  <2>2. log'.lines = Append(log.lines, Record(p)) /\ Record(p) \in Line
    BY <2>1, FilesTyped, LineAdded DEF TypeOK
  <2>3. Readable(Record(p))
    BY <1>1 DEF Record, Readable
  <2>4. QED
    BY <1>1, <1>5, <2>1, <2>2, <2>3, DamageLonger DEF LogDamageShort
<1>7. ASSUME NEW p \in Proc, AppendFails(p)
      PROVE  LogDamageShort'
  <2>1. failures' = failures + 1
    BY <1>7, Zenon DEF AppendFails
  <2>2. \/ log'.lines = log.lines
        \/ log'.lines = Append(log.lines, Cut)
        \/ log'.lines = Append(log.lines, Record(p))
    BY <1>7, LogGrows
  <2>3. Record(p) \in Line
    BY FilesTyped
  <2>4. QED
    BY <1>1, <1>3, <1>5, <2>1, <2>2, <2>3, DamageLonger DEF LogDamageShort
<1>8. ASSUME NEW p \in Proc, Rotate(p)
      PROVE  LogDamageShort'
  <2>1. NoGap \in Nat \X Nat /\ Draft(p, log, NoGap) /\ log'.lines = <<>>
    BY <1>8 DEF Rotate, EmptyFile, NoGap
  <2>2. failures' \in Nat
    BY <2>1, DraftIs
  <2>3. QED
    BY <1>4, <2>1, <2>2 DEF LogDamageShort
<1>9. ASSUME NEW p \in Proc, WriteMarker(p) \/ MarkerFails(p)
      PROVE  LogDamageShort'
  <2>1. archive # <<>>
    BY <1>9 DEF WriteMarker, MarkerFails, NothingYet
  <2>2. Marker(p) \in Line /\ EmptyFile \in File /\ EmptyFile.lines = <<>>
    BY <2>1, FilesTyped DEF EmptyFile
  <2>3. Readable(Marker(p))
    BY <1>1 DEF Marker, Record, Readable
  <2>4. <<>> \in Seq(Line) /\ DamageShort(<<>>, failures)
    BY <1>1, <1>4
  <2>5. /\ DamageShort(<<>>, failures + 1)
        /\ DamageShort(Append(<<>>, Cut), failures + 1)
        /\ DamageShort(Append(<<>>, Marker(p)), failures + 1)
        /\ DamageShort(Append(<<>>, Marker(p)), failures)
    BY <1>1, <1>3, <2>2, <2>3, <2>4, DamageLonger
  <2>6. CASE WriteMarker(p)
    <3>1. log' = AddLine(EmptyFile, Marker(p), FALSE) /\ failures' = failures
      BY <2>6, Zenon DEF WriteMarker
    <3>2. log'.lines = Append(<<>>, Marker(p))
      BY <2>2, <3>1, LineAdded
    <3>3. QED
      BY <2>5, <3>1, <3>2 DEF LogDamageShort
  <2>7. CASE MarkerFails(p)
    <3>1. log' \in FailedWrites(EmptyFile, Marker(p)) /\ failures' = failures + 1
      BY <2>7, Zenon DEF MarkerFails
    <3>2. \/ log'.lines = <<>>
          \/ log'.lines = Append(<<>>, Cut)
          \/ log'.lines = Append(<<>>, Marker(p))
      BY <2>2, <3>1, FailedTyped
    <3>3. QED
      BY <2>5, <3>1, <3>2 DEF LogDamageShort
  <2>8. QED
    BY <1>9, <2>6, <2>7
<1>10. ASSUME NEW p \in Proc, NoteFailure(p) \/ Ends(p)
       PROVE  LogDamageShort'
  <2>1. UNCHANGED <<log, failures>>
    BY <1>10, Zenon DEF NoteFailure, Ends
  <2>2. QED
    BY <1>2, <2>1
<1>11. ASSUME NEW p \in Proc, NEW gap \in Nat \X Nat, StartAppend(p, gap)
       PROVE  LogDamageShort'
  <2>1. log' = log /\ failures' \in {failures, failures + 1}
    BY <1>11, DraftIs DEF StartAppend
  <2>2. QED
    BY <1>1, <1>5, <2>1, DamageLonger DEF LogDamageShort
<1>12. QED
  BY <1>2, <1>6, <1>7, <1>8, <1>9, <1>10, <1>11 DEF LogNext, vars

--------------------------------------------------------------------------------
(* The theorems *)

IInv == /\ TypeOK /\ WriterHolds /\ DraftCurrent /\ NothingYet
        /\ AllChained /\ Kept /\ Named /\ LogDamageShort

LEMMA InvariantInit ==
    ASSUME Init
    PROVE  IInv
<1>1. TypeOK
  BY TypedInit
<1>2. /\ pc = [p \in Proc |-> "idle"] /\ log = EmptyFile /\ archive = <<>> /\ acked = {}
      /\ failures = 0
  BY Zenon DEF Init
<1>3. WriterHolds /\ DraftCurrent /\ NothingYet
  BY <1>2 DEF WriterHolds, DraftCurrent, NothingYet
<1>4. AllChained
  BY <1>2 DEF AllChained, Chained, EmptyFile
<1>5. Kept
  BY <1>2 DEF Kept
<1>6. Named
  BY <1>2 DEF Named
<1>7. LogDamageShort
  BY <1>2 DEF LogDamageShort, DamageShort, EmptyFile
<1>8. QED
  BY <1>1, <1>3, <1>4, <1>5, <1>6, <1>7 DEF IInv

LEMMA InvariantStep ==
    ASSUME IInv, [LogNext]_vars
    PROVE  IInv'
BY TypedStep, LockStep, ChainStep, KeptStep, NamedStep, DamageStep DEF IInv

LEMMA Invariant == Spec => []IInv
<1>1. Init => IInv
  BY InvariantInit
<1>2. IInv /\ [Next]_vars => IInv'
  BY InvariantStep, NextIsLogNext
<1>3. QED
  BY <1>1, <1>2, PTL DEF Spec

LEMMA InvariantVerifies ==
    ASSUME IInv
    PROVE  UntouchedLogVerifies
<1>1. \A f \in File : f.lines \in Seq(Line)
  BY DEF File
<1>2. log \in File /\ archive \in Seq(File)
  BY DEF IInv, TypeOK
<1>3. log.lines \in Seq(Line)
  BY <1>1, <1>2
<1>4. \A n \in 1 .. Len(archive) : archive[n].lines \in Seq(Line)
  BY <1>1, <1>2
<1>5. QED
  BY <1>2, <1>3, <1>4, ChainedVerifies DEF IInv, AllChained, UntouchedLogVerifies

LEMMA InvariantKeeps ==
    ASSUME IInv
    PROVE  AckedKept
<1>1. DOMAIN archive = 1 .. Len(archive) /\ DOMAIN log.lines = 1 .. Len(log.lines)
  BY DEF IInv, TypeOK, File
<1>2. \A n \in 1 .. Len(archive) : DOMAIN archive[n].lines = 1 .. Len(archive[n].lines)
  <2>1. \A f \in File : DOMAIN f.lines = 1 .. Len(f.lines)
    BY DEF File
  <2>2. QED
    BY <2>1 DEF IInv, TypeOK
<1>3. QED
  BY <1>1, <1>2 DEF IInv, Kept, HasSha, AckedKept

LEMMA InvariantContinues ==
    ASSUME IInv
    PROVE  ChainContinuesUndisturbed
<1> SUFFICES ASSUME ~cutShort, archive # <<>>, lockedBy = None, log.lines # <<>>
             PROVE  log.lines[1].arch = Len(archive)
  BY DEF ChainContinuesUndisturbed, ChainContinues
<1>1. \A p \in Proc : pc[p] # "marker"
  BY AuditAssumption DEF IInv, WriterHolds
<1>2. QED
  BY <1>1 DEF IInv, Named

\* The lines between two records are fewer than the window, so the second chains to
\* the first.
LEMMA InvariantSkips ==
    ASSUME IInv
    PROVE  ChainSkipsDamage
<1> SUFFICES ASSUME failures < TailLines,
                    NEW i \in 1 .. Len(log.lines), NEW j \in 1 .. Len(log.lines),
                    i < j, Readable(log.lines[i]), Readable(log.lines[j]),
                    \A k \in i + 1 .. j - 1 : ~Readable(log.lines[k]),
                    ~log.lines[j].blind
             PROVE  log.lines[j].prev = log.lines[i].sha
  BY Zenon DEF ChainSkipsDamage
<1>1. /\ Len(log.lines) \in Nat /\ failures \in Nat /\ TailLines \in Nat
      /\ i \in Nat /\ j \in Nat
  BY AuditAssumption DEF IInv, TypeOK, File
<1>2. j - 1 \in 0 .. Len(log.lines) /\ i \in 0 .. Len(log.lines) /\ j - 1 \in Nat
  BY <1>1
<1>3. j - 1 - i <= failures
  BY <1>2 DEF IInv, LogDamageShort, DamageShort
<1>4. i \in ReadableTail(log.lines, j - 1)
  BY <1>1, <1>3 DEF ReadableTail
<1>5. \A k \in ReadableTail(log.lines, j - 1) : k \in Nat /\ k <= i
  BY <1>1 DEF ReadableTail
<1>6. LastSha(log.lines, j - 1) = log.lines[i].sha
  <2>1. PICK k \in ReadableTail(log.lines, j - 1) :
            /\ \A m \in ReadableTail(log.lines, j - 1) : m <= k
            /\ LastSha(log.lines, j - 1) = log.lines[k].sha
    BY <1>2, <1>4, LastShaIs
  <2>2. i <= k /\ k <= i /\ k \in Nat
    BY <1>4, <1>5, <2>1
  <2>3. k = i
    BY <1>1, <2>2
  <2>4. QED
    BY <2>1, <2>3
<1>7. LinkOK(log.lines, j, archive) /\ j > 1
  BY <1>1 DEF IInv, AllChained, Chained
<1>8. QED
  BY <1>6, <1>7 DEF LinkOK

\* The log, its archives and what each process does stay well-formed.
THEOREM TypeCorrect == Spec => []TypeOK
<1>1. IInv => TypeOK
  BY DEF IInv
<1>2. QED
  BY <1>1, Invariant, PTL

\* However many processes append, rotate, fail or die, and wherever: a log that
\* holds no half-written line verifies, and so does each archive, so a report
\* of verify() always means that somebody else touched the file.
THEOREM Verified == Spec => []UntouchedLogVerifies
<1>1. IInv => UntouchedLogVerifies
  BY InvariantVerifies
<1>2. QED
  BY <1>1, Invariant, PTL

\* A record append_event returned is in the log or in one of the archives.
THEOREM NoneLost == Spec => []AckedKept
<1>1. IInv => AckedKept
  BY InvariantKeeps
<1>2. QED
  BY <1>1, Invariant, PTL

\* As long as no rotation was cut short before its marker, a log that has
\* records and that archives precede names the newest of them in its first line.
THEOREM Continued == Spec => []ChainContinuesUndisturbed
<1>1. IInv => ChainContinuesUndisturbed
  BY InvariantContinues
<1>2. QED
  BY <1>1, Invariant, PTL

\* While fewer writes have failed than _last_sha256_of looks back over lines
\* (audit.py), every record of the log chains to the one before it, however many
\* half-written lines, of whichever processes, lie between the two.
THEOREM DamageSkipped == Spec => []ChainSkipsDamage
<1>1. IInv => ChainSkipsDamage
  BY InvariantSkips
<1>2. QED
  BY <1>1, Invariant, PTL

--------------------------------------------------------------------------------
(* The ledger *)

LEMMA HashesEmpty == Hashes(<<>>) = {}
BY DEF Hashes

LEMMA HashesLonger ==
    ASSUME NEW lines \in Seq(Line), NEW line \in Line
    PROVE  Hashes(Append(lines, line)) = Hashes(lines) \cup ({line.sha} \ {NoSha})
<1> DEFINE more == Append(lines, line)
<1>1. /\ DOMAIN more = DOMAIN lines \cup {Len(lines) + 1}
      /\ \A i \in DOMAIN lines : more[i] = lines[i]
      /\ more[Len(lines) + 1] = line
  OBVIOUS
<1> HIDE DEF more
<1>2. Hashes(more) = Hashes(lines) \cup ({line.sha} \ {NoSha})
  BY <1>1 DEF Hashes
<1>3. QED
  BY <1>2 DEF more

Archived == UNION {Hashes(archive[n].lines) : n \in DOMAIN archive}

\* The hash of the next record is newer than every record's.
NewHashNext == \A r \in Recorded : r \in Nat /\ r < nextSha

\* A line more adds the hash of at most one record.
LEMMA HashAdded ==
    ASSUME TypeOK, NEW line \in Line, line.sha = nextSha,
           \/ log'.lines = log.lines
           \/ log'.lines = Append(log.lines, Cut)
           \/ log'.lines = Append(log.lines, line)
    PROVE  \/ Hashes(log'.lines) = Hashes(log.lines)
           \/ Hashes(log'.lines) = Hashes(log.lines) \cup {nextSha}
<1>1. log.lines \in Seq(Line) /\ nextSha # NoSha
  BY DEF TypeOK, File, NoSha
<1>2. Cut \in Line /\ Cut.sha = NoSha
  BY DEF Cut, Line, NoGap, NoSha
<1>3. Hashes(Append(log.lines, Cut)) = Hashes(log.lines)
  <2>1. Hashes(Append(log.lines, Cut)) = Hashes(log.lines) \cup ({Cut.sha} \ {NoSha})
    BY <1>1, <1>2, HashesLonger
  <2>2. QED
    BY <1>2, <2>1
<1>4. Hashes(Append(log.lines, line)) = Hashes(log.lines) \cup {nextSha}
  BY <1>1, HashesLonger
<1>5. QED
  BY <1>3, <1>4

\* What one step does to the records, as the ledger sees it.
LEMMA RecordedStep ==
    ASSUME TypeOK, NothingYet, [LogNext]_vars
    PROVE  \/ UNCHANGED <<Recorded, acked>> /\ nextSha' \in {nextSha, nextSha + 1}
           \/ /\ Recorded' = Recorded \cup {nextSha}
              /\ acked' \in {acked, acked \cup {nextSha}}
              /\ nextSha' = nextSha + 1
<1> DEFINE Goal == \/ UNCHANGED <<Recorded, acked>> /\ nextSha' \in {nextSha, nextSha + 1}
                   \/ /\ Recorded' = Recorded \cup {nextSha}
                      /\ acked' \in {acked, acked \cup {nextSha}}
                      /\ nextSha' = nextSha + 1
<1>1. log.lines \in Seq(Line) /\ archive \in Seq(File)
  BY DEF TypeOK, File
<1>2. Recorded = Hashes(log.lines) \cup Archived /\ Recorded' = Hashes(log'.lines) \cup Archived'
  BY DEF Recorded, Archived
<1>3. CASE UNCHANGED <<log, archive, acked, nextSha>>
  BY <1>3, Zenon DEF Recorded
<1>4. ASSUME archive' = archive
      PROVE  Archived' = Archived
  BY <1>4 DEF Archived
<1>6. nextSha # NoSha
  BY DEF TypeOK, NoSha
<1>7. ASSUME NEW p \in Proc, AppendOK(p)
      PROVE  Goal
  <2>1. /\ log' = AddLine(log, Record(p), FALSE) /\ archive' = archive
        /\ acked' = acked \cup {nextSha} /\ nextSha' = nextSha + 1
    BY <1>7, Zenon DEF AppendOK
  <2>2. log'.lines = Append(log.lines, Record(p)) /\ Record(p) \in Line /\ Record(p).sha = nextSha
    BY <2>1, FilesTyped, LineAdded DEF Record, TypeOK
  <2>3. Hashes(log'.lines) = Hashes(log.lines) \cup {nextSha}
    BY <1>1, <1>6, <2>2, HashesLonger
  <2>4. QED
    BY <1>2, <1>4, <2>1, <2>3
<1>8. ASSUME NEW p \in Proc, AppendFails(p)
      PROVE  Goal
  <2>1. archive' = archive /\ acked' = acked /\ nextSha' = nextSha + 1
    BY <1>8, Zenon DEF AppendFails
  <2>2. \/ log'.lines = log.lines
        \/ log'.lines = Append(log.lines, Cut)
        \/ log'.lines = Append(log.lines, Record(p))
    BY <1>8, LogGrows
  <2>3. Record(p) \in Line /\ Record(p).sha = nextSha
    BY FilesTyped DEF Record
  <2>4. \/ Hashes(log'.lines) = Hashes(log.lines)
        \/ Hashes(log'.lines) = Hashes(log.lines) \cup {nextSha}
    BY <2>2, <2>3, HashAdded
  <2>5. QED
    BY <1>2, <1>4, <2>1, <2>4
<1>9. ASSUME NEW p \in Proc, Rotate(p)
      PROVE  Goal
  <2>1. archive' = Append(archive, log) /\ log' = EmptyFile /\ UNCHANGED <<acked, nextSha>>
    BY <1>9, Zenon DEF Rotate
  <2>2. /\ DOMAIN archive' = DOMAIN archive \cup {Len(archive) + 1}
        /\ \A n \in DOMAIN archive : archive'[n] = archive[n]
        /\ archive'[Len(archive) + 1] = log
    BY <1>1, <2>1
  <2>3. Archived' = Archived \cup Hashes(log.lines)
    BY <2>2 DEF Archived
  <2>4. Hashes(log'.lines) = {}
    BY <2>1, HashesEmpty DEF EmptyFile
  <2>5. QED
    BY <1>2, <2>1, <2>3, <2>4
<1>10. ASSUME NEW p \in Proc, WriteMarker(p) \/ MarkerFails(p)
       PROVE  Goal
  <2>1. archive # <<>> /\ log = EmptyFile
    BY <1>10 DEF WriteMarker, MarkerFails, NothingYet
  <2>2. archive' = archive /\ acked' = acked /\ nextSha' = nextSha + 1
    BY <1>10, Zenon DEF WriteMarker, MarkerFails
  <2>3. log' = AddLine(EmptyFile, Marker(p), FALSE) \/ log' \in FailedWrites(EmptyFile, Marker(p))
    BY <1>10, Zenon DEF WriteMarker, MarkerFails
  <2>4. EmptyFile \in File /\ Marker(p) \in Line /\ Marker(p).sha = nextSha
    BY FilesTyped DEF Marker, Record
  <2>5. AddLine(EmptyFile, Marker(p), FALSE).lines = Append(EmptyFile.lines, Marker(p))
    BY <2>4, LineAdded
  <2>6. \/ log'.lines = log.lines
        \/ log'.lines = Append(log.lines, Cut)
        \/ log'.lines = Append(log.lines, Marker(p))
    BY <2>1, <2>3, <2>4, <2>5, FailedTyped
  <2>7. \/ Hashes(log'.lines) = Hashes(log.lines)
        \/ Hashes(log'.lines) = Hashes(log.lines) \cup {nextSha}
    BY <2>4, <2>6, HashAdded
  <2>8. QED
    BY <1>2, <1>4, <2>2, <2>7
<1>11. ASSUME NEW p \in Proc,
             (\E gap \in Nat \X Nat : StartAppend(p, gap)) \/ NoteFailure(p) \/ Ends(p)
       PROVE  Goal
  <2>1. UNCHANGED <<log, archive, acked, nextSha>>
    BY <1>11, Zenon DEF StartAppend, NoteFailure, Ends
  <2>2. QED
    BY <1>3, <2>1
<1>12. QED
  BY <1>3, <1>7, <1>8, <1>9, <1>10, <1>11 DEF LogNext, vars

LEMMA NewHashStep ==
    ASSUME TypeOK, NothingYet, NewHashNext, [LogNext]_vars
    PROVE  NewHashNext'
<1>1. nextSha \in Nat
  BY DEF TypeOK
<1>2. QED
  BY <1>1, RecordedStep DEF NewHashNext

LEMMA LedgerStep ==
    ASSUME IInv, NewHashNext, [LogNext]_vars
    PROVE  [AbstractLedger!Enter]_(AbstractLedger!ledgerVars)
<1>1. CASE UNCHANGED <<Recorded, acked>>
  BY <1>1 DEF AbstractLedger!ledgerVars
<1>2. CASE Recorded' = Recorded \cup {nextSha} /\ acked' \in {acked, acked \cup {nextSha}}
  <2>1. nextSha \notin Recorded /\ \A old \in Recorded : old < nextSha
    BY DEF NewHashNext
  <2>2. QED
    BY <1>2, <2>1 DEF AbstractLedger!Enter
<1>3. QED
  BY <1>1, <1>2, RecordedStep DEF IInv

LEMMA LedgerStart ==
    ASSUME Init
    PROVE  NewHashNext /\ AbstractLedger!LedgerInit
<1>1. Recorded = {} /\ acked = {}
  BY HashesEmpty DEF Init, Recorded, EmptyFile
<1>2. QED
  BY <1>1 DEF NewHashNext, AbstractLedger!LedgerInit

LEMMA NewHashAlways == Spec => []NewHashNext
<1>1. Init => NewHashNext
  BY LedgerStart
<1>2. IInv /\ NewHashNext /\ [Next]_vars => NewHashNext'
  BY NewHashStep, NextIsLogNext DEF IInv
<1>3. QED
  BY <1>1, <1>2, Invariant, PTL DEF Spec

\* The log implements the ledger: each step of a process enters one record
\* newer than the others, or changes nothing its callers could see.
THEOREM LedgerImplemented == Spec => ImplementsLedger
<1>1. Init => AbstractLedger!LedgerInit
  BY LedgerStart
<1>2. IInv /\ NewHashNext /\ [Next]_vars
        => [AbstractLedger!Enter]_(AbstractLedger!ledgerVars)
  BY LedgerStep, NextIsLogNext
<1>3. QED
  BY <1>1, <1>2, Invariant, NewHashAlways, PTL
  DEF Spec, ImplementsLedger, AbstractLedger!LedgerSpec

--------------------------------------------------------------------------------
(* Steps of record_gap, as the log sees them *)

\* Which step of record_gap its process is at.
AtWork ==
    gapBy # None =>
        /\ gpc # "none"
        /\ gpc \in {"scan", "ready", "mark"} => pc[gapBy] = "idle"
        /\ gpc = "append" => pc[gapBy] \in {"write", "failed"}

LEMMA GapCases ==
    ASSUME GNext
    PROVE  \E p \in Proc :
              \/ GapStart(p) \/ GapScan(p) \/ GapAppend(p) \/ GapAppended(p) \/ GapMark(p)
              \/ GapFailed(p) \/ GapCrash(p) \/ LogSteps(p)
              \/ (AppendFails(p) /\ UNCHANGED gapVars)
BY Zenon DEF GNext, GapSteps

LEMMA GapTyped ==
    ASSUME TypeOK, GTypeOK
    PROVE  /\ notes \in Nat /\ mark \in Nat /\ seen \in Nat /\ after \in Nat
           /\ mark <= notes /\ seen <= notes /\ after <= notes
           /\ <<after, seen>> \in Nat \X Nat
<1>1. notes \in Nat
  BY DEF TypeOK
<1>2. /\ mark \in Nat /\ seen \in Nat /\ after \in Nat
      /\ mark <= notes /\ seen <= notes /\ after <= notes
  BY <1>1 DEF GTypeOK
<1>3. QED
  BY <1>1, <1>2

LEMMA OneIsLogNext ==
    ASSUME NEW p \in Proc,
           \/ \E gap \in Nat \X Nat : StartAppend(p, gap)
           \/ AppendOK(p) \/ AppendFails(p) \/ NoteFailure(p)
           \/ Rotate(p) \/ WriteMarker(p) \/ MarkerFails(p) \/ Ends(p)
    PROVE  LogNext
BY Zenon DEF LogNext

LEMMA CrashEnds ==
    ASSUME NEW p \in Proc, TypeOK, GTypeOK, AtWork, GapCrash(p)
    PROVE  Ends(p)
<1>1. gapBy = p /\ pc[p] # "marker"
  <2>1. gapBy = p /\ p # None
    BY AuditAssumption, Zenon DEF GapCrash
  <2>2. gpc \in {"none", "scan", "ready", "append", "mark"}
    BY Zenon DEF GTypeOK
  <2>3. /\ gpc # "none"
        /\ gpc \in {"scan", "ready", "mark"} => pc[p] = "idle"
        /\ gpc = "append" => pc[p] \in {"write", "failed"}
    BY <2>1, Zenon DEF AtWork
  <2>4. pc[p] \in {"idle", "write", "failed"}
    BY <2>2, <2>3
  <2>5. QED
    BY <2>1, <2>4
<1>2. cutShort' = cutShort
  BY Zenon DEF GapCrash
<1>3. cutShort' = (cutShort \/ pc[p] = "marker")
  <2>1. cutShort \in BOOLEAN
    BY Zenon DEF TypeOK
  <2>2. QED
    BY <1>1, <1>2, <2>1
<1>4. QED
  BY <1>3, Zenon DEF GapCrash, Ends

LEMMA GapIsLogNext ==
    ASSUME TypeOK, GTypeOK, AtWork, [GNext]_allVars
    PROVE  [LogNext]_vars
<1>1. CASE UNCHANGED allVars
  BY <1>1, Zenon DEF allVars
<1>2. ASSUME NEW p \in Proc, GapStart(p) \/ GapScan(p) \/ GapMark(p)
      PROVE  [LogNext]_vars
  BY <1>2, Zenon DEF GapStart, GapScan, GapMark
<1>3. ASSUME NEW p \in Proc, GapAppend(p)
      PROVE  [LogNext]_vars
  <2>1. StartAppend(p, <<after, seen>>)
    BY <1>3, Zenon DEF GapAppend
  <2>2. \E gap \in Nat \X Nat : StartAppend(p, gap)
    BY <2>1, GapTyped
  <2>3. QED
    BY <2>2, OneIsLogNext, Zenon
<1>4. ASSUME NEW p \in Proc, GapAppended(p) \/ GapFailed(p)
      PROVE  [LogNext]_vars
  BY <1>4, OneIsLogNext, Zenon DEF GapAppended, GapFailed
<1>5. ASSUME NEW p \in Proc, GapCrash(p)
      PROVE  [LogNext]_vars
  BY <1>5, CrashEnds, OneIsLogNext, Zenon
<1>6. ASSUME NEW p \in Proc, LogSteps(p)
      PROVE  [LogNext]_vars
  <2>1. NoGap \in Nat \X Nat
    BY DEF NoGap
  <2>2. Crash(p) => Ends(p)
    BY Zenon DEF Crash, Ends
  <2>3. QED
    BY <1>6, <2>1, <2>2, OneIsLogNext, Zenon DEF LogSteps, RotateSteps
<1>7. ASSUME NEW p \in Proc, AppendFails(p)
      PROVE  [LogNext]_vars
  BY <1>7, OneIsLogNext, Zenon
<1>8. QED
  BY <1>1, <1>2, <1>3, <1>4, <1>5, <1>6, <1>7, GapCases

--------------------------------------------------------------------------------
(* What a run of record_gap knows *)

\* A process that writes a record of its own covers nothing; the one in record_gap
\* writes what it found missing.
DraftGap ==
    \A p \in Proc : pc[p] = "write" =>
        draft[p].gap = IF gapBy = p THEN <<after, seen>> ELSE NoGap

\* A run goes on only for notes that aren't recorded.
Backlog ==
    gapBy # None =>
        /\ gpc = "scan" => mark < seen
        /\ gpc \in {"ready", "append", "mark"} => after < seen

LEMMA NotesGrow ==
    ASSUME TypeOK, [LogNext]_vars
    PROVE  notes' \in Nat /\ notes <= notes'
<1>1. notes \in Nat
  BY DEF TypeOK
<1>2. notes' \in {notes, notes + 1}
  <2>1. CASE UNCHANGED vars
    BY <2>1 DEF vars
  <2>2. CASE LogNext
    BY <2>2, Zenon DEF LogNext, StartAppend, AppendOK, AppendFails, NoteFailure, Rotate,
                       WriteMarker, MarkerFails, Ends
  <2>3. QED
    BY <2>1, <2>2
<1>3. QED
  BY <1>1, <1>2

\* _covered_in_log returns the most a gap record of the active log covers, of those
\* that cover no more than the notes read.
LEMMA CoveredIs ==
    ASSUME TypeOK, GTypeOK
    PROVE  /\ Covered \in 0 .. seen
           /\ \/ Covered = 0
              \/ \E i \in 1 .. Len(log.lines) : log.lines[i].gap[2] = Covered
           /\ \A i \in 1 .. Len(log.lines) :
                 log.lines[i].gap[2] <= seen => log.lines[i].gap[2] <= Covered
<1> DEFINE S == {0} \cup {log.lines[i].gap[2] :
                            i \in {j \in DOMAIN log.lines : log.lines[j].gap[2] <= seen}}
           T == {s + 1 : s \in S}
<1>1. /\ DOMAIN log.lines = 1 .. Len(log.lines)
      /\ \A i \in 1 .. Len(log.lines) : log.lines[i].gap[2] \in Nat
  <2>1. log.lines \in Seq(Line)
    BY DEF TypeOK, File
  <2>2. \A i \in 1 .. Len(log.lines) : log.lines[i] \in Line
    BY <2>1
  <2>3. \A line \in Line : line.gap[2] \in Nat
    BY DEF Line
  <2>4. QED
    BY <2>1, <2>2, <2>3
<1>2. seen \in Nat
  BY GapTyped
<1>3. S \subseteq 0 .. seen /\ 0 \in S
  BY <1>1, <1>2
<1>4. Covered = Max(S)
  BY DEF Covered
<1>5. \A s \in S : s = 0 \/ \E i \in 1 .. Len(log.lines) : log.lines[i].gap[2] = s
  BY <1>1
<1>6. \A i \in 1 .. Len(log.lines) : log.lines[i].gap[2] <= seen => log.lines[i].gap[2] \in S
  BY <1>1
<1> HIDE DEF S
<1>7. T \in SUBSET (1 .. seen + 1) /\ T # {}
  BY <1>2, <1>3
<1>8. PICK t \in T : \A u \in T : u <= t
  <2> HIDE DEF T
  <2>1. seen + 1 \in Nat
    BY <1>2
  <2>2. QED
    BY <1>7, <2>1, MaxExists
<1>9. \E s \in S : \A r \in S : s >= r
  <2>1. PICK s \in S : t = s + 1
    BY <1>8
  <2>2. \A r \in S : r + 1 <= s + 1
    BY <1>8, <2>1
  <2>3. \A r \in S : s >= r
    BY <1>2, <1>3, <2>1, <2>2
  <2>4. QED
    BY <2>1, <2>3
<1>10. Max(S) \in S /\ \A r \in S : Max(S) >= r
  BY <1>9, Zenon DEF Max
<1>11. QED
  BY <1>1, <1>2, <1>3, <1>4, <1>5, <1>6, <1>10

\* Where record_gap stands after looking for a record an earlier run left.
LEMMA ScanResult ==
    ASSUME NEW p \in Proc, TypeOK, GTypeOK, GapScan(p)
    PROVE  /\ gapBy = p /\ gpc = "scan" /\ UNCHANGED vars /\ seen' = seen
           /\ mark' \in {mark, 0, Covered}
           /\ \/ gapBy' = None /\ gpc' = "none" /\ after' = after
              \/ /\ gapBy' = p /\ gpc' = "ready" /\ mark' = after'
                 /\ \/ after' = mark /\ Covered <= mark
                    \/ after' = Covered /\ mark < Covered /\ Covered < seen
<1>1. Covered \in Nat /\ mark \in Nat
  BY CoveredIs, GapTyped
<1>2. gapBy = p /\ gpc = "scan" /\ UNCHANGED vars /\ seen' = seen
  BY Zenon DEF GapScan
<1>3. CASE Covered > mark
  <2>1. /\ mark' \in {mark, 0, Covered}
        /\ IF mark' = Covered /\ Covered < seen
           THEN gpc' = "ready" /\ after' = Covered /\ gapBy' = gapBy
           ELSE gapBy' = None /\ gpc' = "none" /\ after' = after
    BY <1>3, Zenon DEF GapScan, MarkWrites, LeaveGap
  <2>2. QED
    BY <1>1, <1>2, <1>3, <2>1
<1>4. CASE ~(Covered > mark)
  <2>1. gpc' = "ready" /\ after' = mark /\ mark' = mark /\ gapBy' = gapBy
    BY <1>4, Zenon DEF GapScan
  <2>2. QED
    BY <1>1, <1>2, <1>4, <2>1
<1>5. QED
  BY <1>3, <1>4

LEMMA GTypedStep ==
    ASSUME TypeOK, GTypeOK, AtWork, [GNext]_allVars
    PROVE  GTypeOK'
<1> DEFINE Labels == {"none", "scan", "ready", "append", "mark"}
           Moves == /\ mark' \in {mark, 0, seen, Covered} /\ seen' \in {seen, notes}
                    /\ after' \in {after, mark, Covered}
                    /\ gapBy' \in Proc \cup {None} /\ gpc' \in Labels
<1>1. notes' \in Nat /\ notes <= notes'
  BY GapIsLogNext, NotesGrow
<1>2. /\ notes \in Nat /\ mark \in Nat /\ seen \in Nat /\ after \in Nat
      /\ mark <= notes /\ seen <= notes /\ after <= notes
  BY GapTyped
<1>3. gapBy \in Proc \cup {None} /\ gpc \in Labels
  BY Zenon DEF GTypeOK
<1>4. ASSUME UNCHANGED gapVars
      PROVE  Moves
  BY <1>3, <1>4 DEF gapVars
<1>5. ASSUME UNCHANGED allVars
      PROVE  Moves
  BY <1>4, <1>5 DEF allVars
<1>6. ASSUME NEW p \in Proc, GapStart(p)
      PROVE  Moves
  BY <1>6 DEF GapStart
<1>7. ASSUME NEW p \in Proc, GapScan(p)
      PROVE  Moves
  BY <1>7, ScanResult
<1>8. ASSUME NEW p \in Proc, GapAppend(p) \/ GapAppended(p)
      PROVE  Moves
  BY <1>3, <1>8 DEF GapAppend, GapAppended
<1>9. ASSUME NEW p \in Proc, GapMark(p) \/ GapFailed(p) \/ GapCrash(p)
      PROVE  Moves
  BY <1>9 DEF GapMark, GapFailed, GapCrash, MarkWrites, LeaveGap
<1>10. ASSUME NEW p \in Proc, LogSteps(p)
       PROVE  Moves
  BY <1>4, <1>10, Zenon DEF LogSteps
<1>11. Moves
  BY <1>4, <1>5, <1>6, <1>7, <1>8, <1>9, <1>10, GapCases
<1>12. mark' \in 0 .. notes' /\ seen' \in 0 .. notes' /\ after' \in 0 .. notes'
  BY <1>1, <1>2, <1>11, CoveredIs
<1>13. QED
  BY <1>11, <1>12, Zenon DEF GTypeOK

LEMMA WorkStep ==
    ASSUME TypeOK, GTypeOK, AtWork, DraftGap, Backlog, [GNext]_allVars
    PROVE  AtWork' /\ DraftGap' /\ Backlog'
<1> DEFINE Goal == AtWork' /\ DraftGap' /\ Backlog'
<1>1. None \notin Proc /\ DOMAIN pc = Proc /\ DOMAIN draft = Proc
  BY AuditAssumption DEF TypeOK
<1>2. CASE UNCHANGED allVars
  BY <1>2, Zenon DEF allVars, gapVars, vars, AtWork, DraftGap, Backlog
<1>3. ASSUME NEW p \in Proc, GapStart(p)
      PROVE  Goal
  <2>1. /\ gapBy = None /\ pc[p] = "idle" /\ notes > mark /\ gapBy' = p /\ gpc' = "scan"
        /\ seen' = notes /\ mark' = mark /\ pc' = pc /\ draft' = draft
    BY <1>3, Zenon DEF GapStart, vars
  <2>2. AtWork'
    BY <2>1 DEF AtWork
  <2>3. DraftGap'
    BY <1>1, <2>1 DEF DraftGap
  <2>4. Backlog'
    BY <2>1, GapTyped DEF Backlog
  <2>5. QED
    BY <2>2, <2>3, <2>4
<1>4. ASSUME NEW p \in Proc, GapScan(p)
      PROVE  Goal
  <2>1. gapBy = p /\ gpc = "scan" /\ pc' = pc /\ draft' = draft /\ seen' = seen
    BY <1>4, ScanResult DEF vars
  <2>2. pc[p] = "idle" /\ mark < seen
    BY <1>1, <2>1 DEF AtWork, Backlog
  <2>3. \/ gapBy' = None
        \/ gapBy' = p /\ gpc' = "ready" /\ after' < seen
    BY <1>4, <2>2, ScanResult
  <2>4. AtWork' /\ Backlog'
    BY <2>1, <2>2, <2>3 DEF AtWork, Backlog
  <2>5. \A q \in Proc : pc'[q] = "write" => q # p /\ draft'[q].gap = NoGap
    BY <2>1, <2>2 DEF DraftGap
  <2>6. DraftGap'
    BY <1>1, <2>3, <2>5 DEF DraftGap
  <2>7. QED
    BY <2>4, <2>6
<1>5. ASSUME NEW p \in Proc, GapAppend(p)
      PROVE  Goal
  <2>1. /\ gapBy = p /\ gpc = "ready" /\ gpc' = "append" /\ UNCHANGED <<mark, gapBy, seen, after>>
        /\ Draft(p, log, <<after, seen>>)
        /\ pc' = [pc EXCEPT ![p] = "write"]
    BY <1>5, Zenon DEF GapAppend, StartAppend
  <2>0. /\ draft'[p].gap = <<after, seen>>
        /\ \A q \in Proc : q # p => draft'[q] = draft[q]
    BY <2>1, GapTyped, DraftIs
  <2>2. pc'[p] = "write" /\ draft'[p].gap = <<after, seen>>
    BY <1>1, <2>0, <2>1
  <2>3. \A q \in Proc : q # p => pc'[q] = pc[q] /\ draft'[q] = draft[q]
    BY <1>1, <2>0, <2>1
  <2>4. AtWork' /\ Backlog'
    BY <1>1, <2>1, <2>2 DEF AtWork, Backlog
  <2>5. DraftGap'
    BY <2>1, <2>2, <2>3 DEF DraftGap
  <2>6. QED
    BY <2>4, <2>5
<1>6. ASSUME NEW p \in Proc, GapAppended(p)
      PROVE  Goal
  <2>1. /\ gapBy = p /\ gpc = "append" /\ gpc' = "mark" /\ UNCHANGED <<mark, gapBy, seen, after>>
        /\ draft' = draft /\ pc' = [pc EXCEPT ![p] = "idle"]
    BY <1>6, Zenon DEF GapAppended, AppendOK, Release
  <2>2. pc'[p] = "idle" /\ \A q \in Proc : q # p => pc'[q] = pc[q]
    BY <1>1, <2>1
  <2>3. AtWork' /\ Backlog'
    BY <1>1, <2>1, <2>2 DEF AtWork, Backlog
  <2>4. DraftGap'
    BY <2>1, <2>2 DEF DraftGap
  <2>5. QED
    BY <2>3, <2>4
<1>7. ASSUME NEW p \in Proc, GapMark(p) \/ GapFailed(p) \/ GapCrash(p)
      PROVE  Goal
  <2>1. /\ gapBy = p /\ gapBy' = None /\ draft' = draft
        /\ pc' \in {pc, [pc EXCEPT ![p] = "idle"]}
    BY <1>7, Zenon DEF GapMark, GapFailed, GapCrash, LeaveGap, NoteFailure, vars
  <2>2. pc'[p] = "idle"
    <3>1. CASE GapMark(p)
      <4>1. gpc = "mark" /\ pc' = pc
        BY <3>1, Zenon DEF GapMark, vars
      <4>2. QED
        BY <1>1, <2>1, <4>1 DEF AtWork
    <3>2. CASE GapFailed(p) \/ GapCrash(p)
      <4>1. pc' = [pc EXCEPT ![p] = "idle"]
        BY <3>2, Zenon DEF GapFailed, GapCrash, NoteFailure
      <4>2. QED
        BY <1>1, <4>1
    <3>3. QED
      BY <1>7, <3>1, <3>2
  <2>3. \A q \in Proc : q # p => pc'[q] = pc[q]
    BY <1>1, <2>1
  <2>4. AtWork' /\ Backlog'
    BY <2>1 DEF AtWork, Backlog
  <2>5. \A q \in Proc : pc'[q] = "write" => q # p /\ draft'[q].gap = NoGap
    BY <2>1, <2>2, <2>3 DEF DraftGap
  <2>6. DraftGap'
    BY <1>1, <2>1, <2>5 DEF DraftGap
  <2>7. QED
    BY <2>4, <2>6
<1>8. ASSUME NEW p \in Proc, gapBy # p, UNCHANGED gapVars,
             \A q \in Proc : q # p => pc'[q] = pc[q],
             \A q \in Proc : q # p => draft'[q] = draft[q],
             pc'[p] = "write" => draft'[p].gap = NoGap
      PROVE  Goal
  <2>1. UNCHANGED <<mark, gapBy, gpc, seen, after>>
    BY <1>8, Zenon DEF gapVars
  <2>2. gapBy \in Proc \cup {None}
    BY Zenon DEF GTypeOK
  <2>3. gapBy # None => pc'[gapBy] = pc[gapBy]
    BY <1>8, <2>2
  <2>4. AtWork' /\ Backlog'
    BY <2>1, <2>3 DEF AtWork, Backlog
  <2>5. ASSUME NEW q \in Proc, pc'[q] = "write"
        PROVE  draft'[q].gap = IF gapBy' = q THEN <<after', seen'>> ELSE NoGap
    BY <1>8, <2>1, <2>5 DEF DraftGap
  <2>6. QED
    BY <2>4, <2>5 DEF DraftGap
<1>9. ASSUME NEW p \in Proc, LogSteps(p)
      PROVE  Goal
  <2>1. /\ gapBy # p /\ UNCHANGED gapVars
        /\ \/ StartAppend(p, NoGap) \/ AppendOK(p) \/ NoteFailure(p) \/ Rotate(p)
           \/ WriteMarker(p) \/ MarkerFails(p) \/ Crash(p)
    BY <1>9, Zenon DEF LogSteps, RotateSteps
  <2>2. CASE StartAppend(p, NoGap) \/ Rotate(p)
    <3>1. /\ pc' = [pc EXCEPT ![p] = "write"] \/ pc' = [pc EXCEPT ![p] = "marker"]
          /\ Draft(p, log, NoGap)
      BY <2>2, Zenon DEF StartAppend, Rotate
    <3>0. NoGap \in Nat \X Nat
      BY DEF NoGap
    <3>2. /\ \A q \in Proc : q # p => pc'[q] = pc[q]
          /\ \A q \in Proc : q # p => draft'[q] = draft[q]
          /\ draft'[p].gap = NoGap
      BY <1>1, <3>0, <3>1, DraftIs
    <3>3. QED
      BY <1>8, <2>1, <3>2
  <2>3. CASE ~(StartAppend(p, NoGap) \/ Rotate(p))
    <3>1. draft' = draft /\ pc' = [pc EXCEPT ![p] = "idle"]
      BY <2>1, <2>3, Zenon DEF AppendOK, NoteFailure, WriteMarker, MarkerFails,
                               Crash, Release
    <3>2. pc'[p] # "write" /\ \A q \in Proc : q # p => pc'[q] = pc[q]
      BY <1>1, <3>1
    <3>3. QED
      BY <1>8, <2>1, <3>1, <3>2
  <2>4. QED
    BY <2>2, <2>3
<1>10. ASSUME NEW p \in Proc, AppendFails(p), UNCHANGED gapVars
       PROVE  Goal
  <2>1. pc[p] = "write" /\ draft' = draft /\ pc' = [pc EXCEPT ![p] = "failed"]
    BY <1>10, Zenon DEF AppendFails, Release
  <2>2. pc'[p] = "failed" /\ \A q \in Proc : q # p => pc'[q] = pc[q]
    BY <1>1, <2>1
  <2>3. CASE gapBy # p
    BY <1>8, <1>10, <2>1, <2>2, <2>3
  <2>4. CASE gapBy = p
    <3>1. gpc = "append"
      <4>1. gpc \in {"none", "scan", "ready", "append", "mark"}
        BY Zenon DEF GTypeOK
      <4>2. QED
        BY <1>1, <2>1, <2>4, <4>1 DEF AtWork
    <3>2. UNCHANGED <<mark, gapBy, gpc, seen, after>>
      BY <1>10, Zenon DEF gapVars
    <3>3. AtWork' /\ Backlog'
      BY <2>2, <2>4, <3>1, <3>2 DEF AtWork, Backlog
    <3>4. DraftGap'
      BY <2>1, <2>2, <3>2 DEF DraftGap
    <3>5. QED
      BY <3>3, <3>4
  <2>5. QED
    BY <2>3, <2>4
<1>11. QED
  BY <1>2, <1>3, <1>4, <1>5, <1>6, <1>7, <1>9, <1>10, GapCases

--------------------------------------------------------------------------------
(* The gap records *)

HasLine(lines, line) == \E i \in DOMAIN lines : lines[i] = line

LEMMA HasLineLonger ==
    ASSUME NEW lines \in Seq(Line), NEW line \in Line, NEW other
    PROVE  HasLine(Append(lines, line), other) <=> HasLine(lines, other) \/ other = line
<1> DEFINE more == Append(lines, line)
<1>1. /\ DOMAIN more = DOMAIN lines \cup {Len(lines) + 1}
      /\ \A i \in DOMAIN lines : more[i] = lines[i]
      /\ more[Len(lines) + 1] = line
  OBVIOUS
<1> HIDE DEF more
<1>2. HasLine(more, other) <=> HasLine(lines, other) \/ other = line
  BY <1>1 DEF HasLine
<1>3. QED
  BY <1>2 DEF more

LEMMA GapRecordsAre ==
    ASSUME NEW a
    PROVE  a \in GapRecords <=>
              /\ a.gap # NoGap
              /\ \/ HasLine(log.lines, a)
                 \/ \E n \in DOMAIN archive : HasLine(archive[n].lines, a)
BY DEF GapRecords, HasLine

LEMMA GapRecordsTyped ==
    ASSUME TypeOK
    PROVE  \A a \in GapRecords : a \in Line /\ a.gap \in Nat \X Nat
<1>1. log.lines \in Seq(Line) /\ archive \in Seq(File)
  BY DEF TypeOK, File
<1>2. \A n \in DOMAIN archive : archive[n].lines \in Seq(Line)
  <2>1. \A f \in File : f.lines \in Seq(Line)
    BY DEF File
  <2>2. QED
    BY <1>1, <2>1
<1>3. ASSUME NEW lines \in Seq(Line), NEW a, HasLine(lines, a)
      PROVE  a \in Line
  BY <1>3 DEF HasLine
<1>4. \A a \in GapRecords : a \in Line
  BY <1>1, <1>2, <1>3, GapRecordsAre
<1>5. QED
  BY <1>4 DEF Line

\* What an append leaves of the record it was to write.
LEMMA RecordsAppended ==
    ASSUME TypeOK, NEW p \in Proc, AppendOK(p) \/ AppendFails(p)
    PROVE  /\ \/ GapRecords' = GapRecords
              \/ Record(p).gap # NoGap /\ GapRecords' = GapRecords \cup {Record(p)}
           /\ AppendOK(p) /\ Record(p).gap # NoGap => Record(p) \in GapRecords'
<1>1. log \in File /\ log.lines \in Seq(Line) /\ Record(p) \in Line
  BY FilesTyped DEF TypeOK, File
<1>2. archive' = archive
  BY Zenon DEF AppendOK, AppendFails
<1>3. Cut \in Line /\ Cut.gap = NoGap
  BY DEF Cut, Line, NoGap, NoSha
<1>4. ASSUME NEW line \in Line, log'.lines = Append(log.lines, line)
      PROVE  /\ line.gap = NoGap => GapRecords' = GapRecords
             /\ line.gap # NoGap => GapRecords' = GapRecords \cup {line}
  <2>1. \A a : HasLine(log'.lines, a) <=> HasLine(log.lines, a) \/ a = line
    BY <1>1, <1>4, HasLineLonger
  <2>2. \A a : a \in GapRecords' <=>
            /\ a.gap # NoGap
            /\ \/ HasLine(log'.lines, a)
               \/ \E n \in DOMAIN archive' : HasLine(archive'[n].lines, a)
    BY DEF GapRecords, HasLine
  <2>3. \A a : a \in GapRecords' <=> a \in GapRecords \/ (a = line /\ a.gap # NoGap)
    BY <1>2, <2>1, <2>2, GapRecordsAre
  <2>4. QED
    BY <2>3
<1>5. ASSUME log'.lines = log.lines
      PROVE  GapRecords' = GapRecords
  BY <1>2, <1>5 DEF GapRecords
<1>6. \/ log'.lines = log.lines
      \/ log'.lines = Append(log.lines, Cut)
      \/ log'.lines = Append(log.lines, Record(p))
  BY LogGrows
<1>7. AppendOK(p) => log'.lines = Append(log.lines, Record(p))
  <2>1. AppendOK(p) => log' = AddLine(log, Record(p), FALSE)
    BY Zenon DEF AppendOK
  <2>2. QED
    BY <1>1, <2>1, LineAdded
<1>8. QED
  BY <1>1, <1>3, <1>4, <1>5, <1>6, <1>7

\* Whatever else happens, rotations included, loses no gap record and adds none.
LEMMA RecordsKept ==
    ASSUME TypeOK, NothingYet, [LogNext]_vars,
           \A p \in Proc : ~AppendOK(p) /\ ~AppendFails(p)
    PROVE  GapRecords' = GapRecords
<1>1. log.lines \in Seq(Line) /\ archive \in Seq(File)
  BY DEF TypeOK, File
<1>2. CASE UNCHANGED <<log, archive>>
  BY <1>2 DEF GapRecords
<1>3. \A a : a \in GapRecords' <=>
          /\ a.gap # NoGap
          /\ \/ HasLine(log'.lines, a)
             \/ \E n \in DOMAIN archive' : HasLine(archive'[n].lines, a)
  BY DEF GapRecords, HasLine
<1>4. \A a : ~HasLine(<<>>, a)
  BY DEF HasLine
<1>5. ASSUME NEW p \in Proc, Rotate(p)
      PROVE  GapRecords' = GapRecords
  <2>1. archive' = Append(archive, log) /\ log'.lines = <<>>
    BY <1>5 DEF Rotate, EmptyFile
  <2>2. /\ DOMAIN archive' = DOMAIN archive \cup {Len(archive) + 1}
        /\ \A n \in DOMAIN archive : archive'[n] = archive[n]
        /\ archive'[Len(archive) + 1] = log
    BY <1>1, <2>1
  <2>3. \A a : (\E n \in DOMAIN archive' : HasLine(archive'[n].lines, a)) <=>
               HasLine(log.lines, a) \/ \E n \in DOMAIN archive : HasLine(archive[n].lines, a)
    BY <2>2
  <2>4. \A a : a \in GapRecords' <=> a \in GapRecords
    BY <1>3, <1>4, <2>1, <2>3, GapRecordsAre
  <2>5. QED
    BY <2>4
<1>6. ASSUME NEW p \in Proc, WriteMarker(p) \/ MarkerFails(p)
      PROVE  GapRecords' = GapRecords
  <2>1. archive # <<>> /\ log = EmptyFile /\ archive' = archive
    BY <1>6 DEF WriteMarker, MarkerFails, NothingYet
  <2>2. EmptyFile \in File /\ EmptyFile.lines = <<>> /\ Marker(p) \in Line /\ Marker(p).gap = NoGap
    <3>1. Marker(p).gap = NoGap
      BY DEF Marker
    <3>2. EmptyFile.lines = <<>>
      BY DEF EmptyFile
    <3>3. QED
      BY <2>1, <3>1, <3>2, FilesTyped
  <2>3. Cut \in Line /\ Cut.gap = NoGap
    BY DEF Cut, Line, NoGap, NoSha
  <2>4. \/ log'.lines = <<>>
        \/ log'.lines = Append(<<>>, Cut)
        \/ log'.lines = Append(<<>>, Marker(p))
    <3>1. log' = AddLine(EmptyFile, Marker(p), FALSE) \/ log' \in FailedWrites(EmptyFile, Marker(p))
      BY <1>6, Zenon DEF WriteMarker, MarkerFails
    <3>2. AddLine(EmptyFile, Marker(p), FALSE).lines = Append(EmptyFile.lines, Marker(p))
      BY <2>2, LineAdded
    <3>3. QED
      BY <2>2, <3>1, <3>2, FailedTyped
  <2>5. <<>> \in Seq(Line)
    OBVIOUS
  <2>6. \A a : HasLine(log'.lines, a) => a.gap = NoGap
    <3>1. ASSUME NEW line \in Line, log'.lines = Append(<<>>, line)
          PROVE  \A a : HasLine(log'.lines, a) => a = line
      BY <1>4, <2>5, <3>1, HasLineLonger
    <3>2. CASE log'.lines = <<>>
      BY <1>4, <3>2
    <3>3. CASE log'.lines = Append(<<>>, Cut)
      BY <2>3, <3>1, <3>3
    <3>4. CASE log'.lines = Append(<<>>, Marker(p))
      BY <2>2, <3>1, <3>4
    <3>5. QED
      BY <2>4, <3>2, <3>3, <3>4
  <2>7. \A a : ~HasLine(log.lines, a)
    BY <1>4, <2>1, <2>2
  <2>8. \A a : a \in GapRecords' <=> a \in GapRecords
    BY <1>3, <2>1, <2>6, <2>7, GapRecordsAre
  <2>9. QED
    BY <2>8
<1>7. ASSUME NEW p \in Proc,
             (\E gap \in Nat \X Nat : StartAppend(p, gap)) \/ NoteFailure(p) \/ Ends(p)
      PROVE  GapRecords' = GapRecords
  <2>1. UNCHANGED <<log, archive>>
    BY <1>7, Zenon DEF StartAppend, NoteFailure, Ends
  <2>2. QED
    BY <1>2, <2>1
<1>8. QED
  BY <1>2, <1>5, <1>6, <1>7 DEF LogNext, vars

\* The step that may put a gap record into the log.
Records(p) ==
    /\ gapBy = p /\ gpc = "append" /\ pc[p] = "write" /\ pc'[p] # "write"
    /\ UNCHANGED <<mark, gapBy, seen, after, notes, archive>>
    /\ Record(p).gap = <<after, seen>> /\ Record(p).gap # NoGap
    /\ \/ /\ gpc' = "append"
          /\ GapRecords' = GapRecords \/ GapRecords' = GapRecords \cup {Record(p)}
       \/ gpc' = "mark" /\ GapRecords' = GapRecords \cup {Record(p)}

LEMMA RecordsStep ==
    ASSUME TypeOK, GTypeOK, NothingYet, AtWork, DraftGap, Backlog, [GNext]_allVars
    PROVE  \/ \E p \in Proc : Records(p)
           \/ GapRecords' = GapRecords /\ \A p \in Proc : ~GapAppended(p)
<1>1. [LogNext]_vars
  BY GapIsLogNext
<1>2. None \notin Proc /\ DOMAIN pc = Proc
  BY AuditAssumption DEF TypeOK
<1>3. ASSUME NEW p \in Proc, AppendOK(p) \/ AppendFails(p)
      PROVE  /\ pc[p] = "write" /\ pc'[p] # "write" /\ UNCHANGED <<notes, archive>>
             /\ Record(p).gap = IF gapBy = p THEN <<after, seen>> ELSE NoGap
  <2>1. pc[p] = "write" /\ UNCHANGED <<notes, archive>>
    BY <1>3, Zenon DEF AppendOK, AppendFails
  <2>2. pc' = [pc EXCEPT ![p] = "idle"] \/ pc' = [pc EXCEPT ![p] = "failed"]
    BY <1>3, Zenon DEF AppendOK, AppendFails, Release
  <2>3. Record(p).gap = draft[p].gap
    BY DEF Record
  <2>4. QED
    BY <1>2, <2>1, <2>2, <2>3 DEF DraftGap
<1>4. ASSUME NEW p \in Proc, gapBy = p
      PROVE  /\ pc[p] = "write" => gpc = "append"
             /\ gpc = "append" => <<after, seen>> # NoGap
  <2>1. gpc \in {"none", "scan", "ready", "append", "mark"}
    BY Zenon DEF GTypeOK
  <2>2. gpc = "append" => after < seen
    BY <1>2, <1>4 DEF Backlog
  <2>3. QED
    BY <1>2, <1>4, <2>1, <2>2, GapTyped DEF AtWork, NoGap
<1>5. ASSUME NEW p \in Proc, GapAppended(p)
      PROVE  Records(p)
  <2>1. gapBy = p /\ gpc = "append" /\ AppendOK(p) /\ gpc' = "mark" /\ UNCHANGED <<mark, gapBy, seen, after>>
    BY <1>5, Zenon DEF GapAppended
  <2>2. Record(p).gap = <<after, seen>> /\ Record(p).gap # NoGap
    BY <1>3, <1>4, <2>1
  <2>3. GapRecords' = GapRecords \cup {Record(p)}
    BY <2>1, <2>2, RecordsAppended
  <2>4. pc[p] = "write" /\ pc'[p] # "write" /\ UNCHANGED <<notes, archive>>
    BY <1>3, <2>1
  <2>5. QED
    BY <2>1, <2>2, <2>3, <2>4 DEF Records
<1>6. ASSUME NEW p \in Proc, AppendOK(p) \/ AppendFails(p), UNCHANGED gapVars
      PROVE  Records(p) \/ GapRecords' = GapRecords
  <2>1. UNCHANGED <<mark, gapBy, gpc, seen, after>>
    BY <1>6, Zenon DEF gapVars
  <2>2. CASE Record(p).gap = NoGap
    BY <1>6, <2>2, RecordsAppended
  <2>3. CASE Record(p).gap # NoGap
    <3>1. gapBy = p /\ gpc = "append" /\ Record(p).gap = <<after, seen>>
      BY <1>3, <1>4, <1>6, <2>3
    <3>2. GapRecords' = GapRecords \/ GapRecords' = GapRecords \cup {Record(p)}
      BY <1>6, RecordsAppended
    <3>3. pc[p] = "write" /\ pc'[p] # "write" /\ UNCHANGED <<notes, archive>>
      BY <1>3, <1>6
    <3>4. QED
      BY <2>1, <2>3, <3>1, <3>2, <3>3 DEF Records
  <2>4. QED
    BY <2>2, <2>3
<1>7. CASE \E p \in Proc : AppendOK(p) \/ AppendFails(p)
  <2>1. PICK p \in Proc : AppendOK(p) \/ AppendFails(p)
    BY <1>7
  <2>2. CASE \E q \in Proc : GapAppended(q)
    BY <1>5, <2>2
  <2>3. CASE ~\E q \in Proc : GapAppended(q)
    <3>1. UNCHANGED gapVars
      <4>1. nextSha' # nextSha
        <5>1. nextSha' = nextSha + 1
          BY <2>1, Zenon DEF AppendOK, AppendFails
        <5>2. QED
          BY <5>1 DEF TypeOK
      <4>2. ~UNCHANGED allVars
        BY <4>1, Zenon DEF allVars, vars
      <4>3. ASSUME NEW q \in Proc,
                   \/ GapStart(q) \/ GapScan(q) \/ GapAppend(q) \/ GapMark(q)
                   \/ GapFailed(q) \/ GapCrash(q)
            PROVE  FALSE
        BY <4>1, <4>3, Zenon DEF GapStart, GapScan, GapAppend, GapMark, GapFailed, GapCrash,
                                 StartAppend, NoteFailure, vars
      <4>4. \A q \in Proc : LogSteps(q) => UNCHANGED gapVars
        BY Zenon DEF LogSteps
      <4>5. QED
        BY <2>3, <4>2, <4>3, <4>4, GapCases
    <3>2. QED
      BY <1>6, <2>1, <2>3, <3>1
  <2>4. QED
    BY <2>2, <2>3
<1>8. CASE ~\E p \in Proc : AppendOK(p) \/ AppendFails(p)
  <2>1. \A p \in Proc : ~GapAppended(p)
    BY <1>8, Zenon DEF GapAppended
  <2>2. QED
    BY <1>1, <1>8, <2>1, RecordsKept
<1>9. QED
  BY <1>7, <1>8

--------------------------------------------------------------------------------
(* What is covered *)

CoveredBy(records, n) == \A k \in 1 .. n : \E a \in records : a.gap[1] < k /\ k <= a.gap[2]

\* The notes the mark covers, those a run leaves to earlier ones, and those ahead of
\* any gap record are all counted by a gap record.
AllCovered ==
    /\ CoveredBy(GapRecords, mark)
    /\ gapBy # None /\ gpc \in {"ready", "append", "mark"} => CoveredBy(GapRecords, after)
    /\ \A a \in GapRecords : CoveredBy(GapRecords, a.gap[1])

\* Before it writes the mark, a run has written its gap record.
Written == gapBy # None /\ gpc = "mark" => \E a \in GapRecords : a.gap = <<after, seen>>

Behind(records, n) == \A a \in records : a.gap[2] <= n

\* A run that is about to write a gap record has seen all there are, unless a rotation
\* hid some from it.
Scanned ==
    gapBy # None =>
        /\ gpc = "scan" => Behind(GapRecords, seen)
        /\ archive = <<>> /\ (gpc = "ready" \/ (gpc = "append" /\ pc[gapBy] = "write"))
               => Behind(GapRecords, after)

Accounted ==
    /\ AllCovered /\ Written /\ Behind(GapRecords, notes) /\ Scanned
    /\ FailuresRecordedOnceUnrotated

LEMMA CoveredMore ==
    ASSUME NEW S, NEW T, S \subseteq T, NEW n, CoveredBy(S, n)
    PROVE  CoveredBy(T, n)
BY DEF CoveredBy

\* What is ahead of a gap record, and what it counts, make up all it covers.
LEMMA CoveredThrough ==
    ASSUME NEW S, NEW a \in S, a.gap \in Nat \X Nat, CoveredBy(S, a.gap[1])
    PROVE  CoveredBy(S, a.gap[2])
<1>1. a.gap[1] \in Nat /\ a.gap[2] \in Nat
  OBVIOUS
<1>2. ASSUME NEW k \in 1 .. a.gap[2]
      PROVE  \E b \in S : b.gap[1] < k /\ k <= b.gap[2]
  <2>1. CASE k <= a.gap[1]
    BY <1>1, <2>1 DEF CoveredBy
  <2>2. CASE ~(k <= a.gap[1])
    BY <1>1, <2>2
  <2>3. QED
    BY <2>1, <2>2
<1>3. QED
  BY <1>2 DEF CoveredBy

\* What _covered_in_log returns is covered, and while there is no archive nothing
\* lies behind it.
LEMMA CoveredScanned ==
    ASSUME TypeOK, GTypeOK, AllCovered
    PROVE  /\ CoveredBy(GapRecords, Covered)
           /\ archive = <<>> /\ Behind(GapRecords, seen) => Behind(GapRecords, Covered)
<1>1. DOMAIN log.lines = 1 .. Len(log.lines)
  BY DEF TypeOK, File
<1>2. CoveredBy(GapRecords, Covered)
  <2>1. CASE Covered = 0
    BY <2>1 DEF CoveredBy
  <2>2. CASE Covered # 0
    <3>1. PICK i \in 1 .. Len(log.lines) : log.lines[i].gap[2] = Covered
      BY <2>2, CoveredIs
    <3>2. log.lines[i].gap # NoGap
      BY <2>2, <3>1 DEF NoGap
    <3>3. log.lines[i] \in GapRecords
      BY <1>1, <3>1, <3>2, GapRecordsAre DEF HasLine
    <3>4. CoveredBy(GapRecords, log.lines[i].gap[2])
      BY <3>3, GapRecordsTyped, CoveredThrough DEF AllCovered
    <3>5. QED
      BY <3>1, <3>4
  <2>3. QED
    BY <2>1, <2>2
<1>3. ASSUME archive = <<>>, Behind(GapRecords, seen)
      PROVE  Behind(GapRecords, Covered)
  <2>1. DOMAIN archive = {}
    BY <1>3
  <2>2. ASSUME NEW a \in GapRecords
        PROVE  a.gap[2] <= Covered
    <3>1. HasLine(log.lines, a)
      BY <2>1, GapRecordsAre
    <3>2. PICK i \in 1 .. Len(log.lines) : log.lines[i] = a
      BY <1>1, <3>1 DEF HasLine
    <3>3. a.gap[2] <= seen
      BY <1>3 DEF Behind
    <3>4. QED
      BY <3>2, <3>3, CoveredIs
  <2>3. QED
    BY <2>2 DEF Behind
<1>4. QED
  BY <1>2, <1>3

LEMMA ArchiveGrows ==
    ASSUME TypeOK, [LogNext]_vars, archive' = <<>>
    PROVE  archive = <<>>
<1>1. CASE archive' = archive
  BY <1>1
<1>2. ASSUME NEW p \in Proc, Rotate(p)
      PROVE  FALSE
  <2>1. archive' = Append(archive, log) /\ archive \in Seq(File) /\ log \in File
    BY <1>2 DEF Rotate, TypeOK
  <2>2. Len(archive') = Len(archive) + 1 /\ Len(archive) \in Nat
    BY <2>1
  <2>3. QED
    BY <2>2
<1>3. CASE UNCHANGED vars
  BY <1>1, <1>3 DEF vars
<1>4. CASE LogNext
  <2>1. (\E p \in Proc : Rotate(p)) \/ archive' = archive
    BY <1>4, Zenon DEF LogNext, StartAppend, AppendOK, AppendFails, NoteFailure,
                       WriteMarker, MarkerFails, Ends
  <2>2. QED
    BY <1>1, <1>2, <2>1
<1>5. QED
  BY <1>3, <1>4

\* A gap record goes in behind all others, and what is ahead of it is covered.
LEMMA RecordsAccounted ==
    ASSUME TypeOK, GTypeOK, AtWork, Backlog, Accounted, [GNext]_allVars,
           NEW p \in Proc, Records(p)
    PROVE  Accounted'
<1>1. None \notin Proc /\ gapBy = p
  BY AuditAssumption, Zenon DEF Records
<1> DEFINE r == Record(p)
<1>2. /\ gpc = "append" /\ pc[p] = "write" /\ pc'[p] # "write" /\ gpc' \in {"append", "mark"}
      /\ UNCHANGED <<mark, gapBy, seen, after, notes, archive>>
      /\ r.gap = <<after, seen>>
      /\ GapRecords' = GapRecords \/ GapRecords' = GapRecords \cup {r}
      /\ gpc' = "mark" => GapRecords' = GapRecords \cup {r}
  BY DEF Records
<1> HIDE DEF r
<1>3. GapRecords \subseteq GapRecords' /\ \A a \in GapRecords' : a \in GapRecords \/ a = r
  BY <1>2
<1>4. r.gap[1] = after /\ r.gap[2] = seen
  BY <1>2
<1>5. CoveredBy(GapRecords, mark) /\ CoveredBy(GapRecords, after)
  BY <1>1, <1>2 DEF Accounted, AllCovered
<1>6. AllCovered'
  <2>1. CoveredBy(GapRecords', mark') /\ CoveredBy(GapRecords', after')
    BY <1>2, <1>3, <1>5, CoveredMore
  <2>2. ASSUME NEW a \in GapRecords'
        PROVE  CoveredBy(GapRecords', a.gap[1])
    <3>1. CASE a \in GapRecords
      <4>1. CoveredBy(GapRecords, a.gap[1])
        BY <3>1 DEF Accounted, AllCovered
      <4>2. QED
        BY <1>3, <4>1, CoveredMore
    <3>2. CASE a = r
      BY <1>3, <1>4, <1>5, <3>2, CoveredMore
    <3>3. QED
      BY <1>3, <3>1, <3>2
  <2>3. QED
    BY <2>1, <2>2 DEF AllCovered
<1>7. Written'
  BY <1>2 DEF Written
<1>8. Behind(GapRecords', notes')
  <2>1. seen <= notes
    BY GapTyped
  <2>2. QED
    BY <1>2, <1>3, <1>4, <2>1 DEF Accounted, Behind
<1>9. Scanned'
  BY <1>1, <1>2 DEF Scanned
<1>10. FailuresRecordedOnceUnrotated'
  <2>1. ASSUME archive' = <<>>, NEW a \in GapRecords', NEW b \in GapRecords', a.sha # b.sha
        PROVE  a.gap[2] <= b.gap[1] \/ b.gap[2] <= a.gap[1]
    <3>1. archive = <<>> /\ Behind(GapRecords, after)
      BY <1>1, <1>2, <2>1 DEF Accounted, Scanned
    <3>2. CASE a \in GapRecords /\ b \in GapRecords
      BY <2>1, <3>1, <3>2 DEF Accounted, FailuresRecordedOnceUnrotated, FailuresRecordedOnce
    <3>3. CASE a = r /\ b \in GapRecords
      BY <1>4, <3>1, <3>3 DEF Behind
    <3>4. CASE b = r /\ a \in GapRecords
      BY <1>4, <3>1, <3>4 DEF Behind
    <3>5. QED
      BY <1>3, <2>1, <3>2, <3>3, <3>4
  <2>2. QED
    BY <2>1 DEF FailuresRecordedOnceUnrotated, FailuresRecordedOnce
<1>11. QED
  BY <1>6, <1>7, <1>8, <1>9, <1>10 DEF Accounted

LEMMA AccountedStep ==
    ASSUME TypeOK, GTypeOK, NothingYet, AtWork, DraftGap, Backlog, Accounted, [GNext]_allVars
    PROVE  Accounted'
<1>1. CASE \E p \in Proc : Records(p)
  BY <1>1, RecordsAccounted
<1>2. CASE GapRecords' = GapRecords /\ \A p \in Proc : ~GapAppended(p)
  <2> DEFINE Knows == AllCovered' /\ Written' /\ Scanned'
  <2>1. None \notin Proc /\ DOMAIN pc = Proc
    BY AuditAssumption DEF TypeOK
  <2>2. [LogNext]_vars
    BY GapIsLogNext
  <2>3. archive' = <<>> => archive = <<>>
    BY <2>2, ArchiveGrows
  <2>4. FailuresRecordedOnceUnrotated'
    BY <1>2, <2>3 DEF Accounted, FailuresRecordedOnceUnrotated, FailuresRecordedOnce
  <2>5. Behind(GapRecords', notes')
    <3>1. \A a \in GapRecords : a.gap[2] \in Nat /\ a.gap[2] <= notes
      BY GapRecordsTyped DEF Accounted, Behind
    <3>2. notes \in Nat /\ notes' \in Nat /\ notes <= notes'
      BY <2>2, NotesGrow, GapTyped
    <3>3. QED
      BY <1>2, <3>1, <3>2 DEF Behind
  <2>6. /\ CoveredBy(GapRecords, mark) /\ CoveredBy(GapRecords, 0)
        /\ \A a \in GapRecords' : CoveredBy(GapRecords', a.gap[1])
    BY <1>2 DEF Accounted, AllCovered, CoveredBy
  <2>7. ASSUME UNCHANGED gapVars,
               gapBy # None /\ gpc = "append" /\ pc'[gapBy] = "write" => pc[gapBy] = "write"
        PROVE  Knows
    <3>1. UNCHANGED <<mark, gapBy, gpc, seen, after>>
      BY <2>7, Zenon DEF gapVars
    <3>2. AllCovered' /\ Written'
      BY <1>2, <3>1 DEF Accounted, AllCovered, Written
    <3>3. Scanned'
      BY <1>2, <2>3, <2>7, <3>1 DEF Accounted, Scanned
    <3>4. QED
      BY <3>2, <3>3
  <2>8. ASSUME UNCHANGED allVars
        PROVE  Knows
    BY <2>7, <2>8, Zenon DEF allVars, vars
  <2>9. ASSUME NEW p \in Proc, GapStart(p)
        PROVE  Knows
    <3>1. mark' = mark /\ gapBy' = p /\ gpc' = "scan" /\ seen' = notes /\ UNCHANGED vars
      BY <2>9, Zenon DEF GapStart
    <3>2. QED
      BY <1>2, <2>1, <2>6, <3>1 DEF Accounted, AllCovered, Written, Scanned
  <2>10. ASSUME NEW p \in Proc, GapScan(p)
         PROVE  Knows
    <3>1. gapBy = p /\ gpc = "scan" /\ UNCHANGED vars /\ mark' \in {mark, 0, Covered}
      BY <2>10, ScanResult
    <3>2. CoveredBy(GapRecords, Covered)
      BY CoveredScanned DEF Accounted
    <3>3. CoveredBy(GapRecords', mark')
      BY <1>2, <2>6, <3>1, <3>2
    <3>4. \/ gapBy' = None
          \/ /\ gapBy' = p /\ gpc' = "ready" /\ after' = mark'
             /\ after' \in Nat /\ Covered <= after'
      BY <2>10, ScanResult, CoveredIs, GapTyped
    <3>5. AllCovered' /\ Written'
      BY <2>1, <2>6, <3>3, <3>4 DEF AllCovered, Written
    <3>6. archive = <<>> => Behind(GapRecords, Covered)
      BY <2>1, <3>1, CoveredScanned DEF Accounted, Scanned
    <3>7. archive = <<>> /\ gapBy' # None => Behind(GapRecords, after')
      <4>1. \A a \in GapRecords : a.gap[2] \in Nat
        BY GapRecordsTyped
      <4>2. Covered \in Nat
        BY CoveredIs, GapTyped
      <4>3. QED
        BY <3>4, <3>6, <4>1, <4>2 DEF Behind
    <3>8. Scanned'
      BY <1>2, <2>3, <3>4, <3>7 DEF Scanned
    <3>9. QED
      BY <3>5, <3>8
  <2>11. ASSUME NEW p \in Proc, GapAppend(p)
         PROVE  Knows
    <3>1. /\ gapBy = p /\ gpc = "ready" /\ gpc' = "append"
          /\ UNCHANGED <<mark, gapBy, seen, after>>
      BY <2>11, Zenon DEF GapAppend
    <3>2. AllCovered' /\ Written'
      BY <1>2, <2>1, <3>1 DEF Accounted, AllCovered, Written
    <3>3. Scanned'
      BY <1>2, <2>1, <2>3, <3>1 DEF Accounted, Scanned
    <3>4. QED
      BY <3>2, <3>3
  <2>12. ASSUME gapBy' = None, CoveredBy(GapRecords, mark')
         PROVE  Knows
    BY <1>2, <2>6, <2>12 DEF AllCovered, Written, Scanned
  <2>13. ASSUME NEW p \in Proc, GapMark(p)
         PROVE  Knows
    <3>1. gapBy = p /\ gpc = "mark" /\ mark' \in {mark, 0, seen} /\ gapBy' = None
      BY <2>13, Zenon DEF GapMark, MarkWrites, LeaveGap
    <3>2. PICK a \in GapRecords : a.gap = <<after, seen>>
      BY <2>1, <3>1 DEF Accounted, Written
    <3>3. CoveredBy(GapRecords, a.gap[2])
      BY GapRecordsTyped, CoveredThrough DEF Accounted, AllCovered
    <3>4. CoveredBy(GapRecords, seen)
      BY <3>2, <3>3
    <3>5. QED
      BY <2>6, <2>12, <3>1, <3>4
  <2>14. ASSUME NEW p \in Proc, GapFailed(p) \/ GapCrash(p)
         PROVE  Knows
    <3>1. gapBy' = None /\ mark' \in {mark, 0}
      BY <2>14 DEF GapFailed, GapCrash, LeaveGap
    <3>2. QED
      BY <2>6, <2>12, <3>1
  <2>15. ASSUME NEW p \in Proc, LogSteps(p)
         PROVE  Knows
    <3>1. gapBy # p /\ UNCHANGED gapVars
      BY <2>15, Zenon DEF LogSteps
    <3>2. \E l \in {"write", "idle", "marker"} : pc' = [pc EXCEPT ![p] = l]
      BY <2>15, Zenon DEF LogSteps, RotateSteps, StartAppend, AppendOK, NoteFailure, Rotate,
                          WriteMarker, MarkerFails, Crash, Release
    <3>3. \A q \in Proc : q # p => pc'[q] = pc[q]
      BY <2>1, <3>2
    <3>4. gapBy # None => gapBy \in Proc
      BY Zenon DEF GTypeOK
    <3>5. QED
      BY <2>7, <3>1, <3>3, <3>4
  <2>16. ASSUME NEW p \in Proc, AppendFails(p), UNCHANGED gapVars
         PROVE  Knows
    <3>1. pc[p] = "write" /\ pc' = [pc EXCEPT ![p] = "failed"]
      BY <2>16, Zenon DEF AppendFails, Release
    <3>2. gapBy # None => gapBy \in Proc
      BY Zenon DEF GTypeOK
    <3>3. \A q \in Proc : pc'[q] = "write" => pc[q] = "write"
      BY <2>1, <3>1
    <3>4. QED
      BY <2>7, <2>16, <3>2, <3>3
  <2>17. Knows
    BY <1>2, <2>8, <2>9, <2>10, <2>11, <2>13, <2>14, <2>15, <2>16, GapCases
  <2>18. QED
    BY <2>4, <2>5, <2>17 DEF Accounted
<1>3. QED
  BY <1>1, <1>2, RecordsStep

--------------------------------------------------------------------------------
(* The theorems *)

GapInv == IInv /\ GTypeOK /\ AtWork /\ DraftGap /\ Backlog /\ Accounted

LEMMA GapInvariant == GSpec => []GapInv
<1>1. GInit => GapInv
  <2> SUFFICES ASSUME GInit
               PROVE  GapInv
    OBVIOUS
  <2>1. IInv
    BY InvariantInit DEF GInit
  <2>2. /\ gapBy = None /\ gpc = "none" /\ mark = 0 /\ seen = 0 /\ after = 0
        /\ notes = 0 /\ archive = <<>> /\ log = EmptyFile /\ pc = [p \in Proc |-> "idle"]
    BY Zenon DEF GInit, Init
  <2>3. GTypeOK /\ AtWork /\ DraftGap /\ Backlog
    BY <2>2 DEF GTypeOK, AtWork, DraftGap, Backlog
  <2>4. GapRecords = {}
    <3>1. DOMAIN archive = {} /\ \A a : ~HasLine(log.lines, a)
      BY <2>2 DEF HasLine, EmptyFile
    <3>2. QED
      BY <3>1, GapRecordsAre
  <2>5. Accounted
    BY <2>2, <2>4 DEF Accounted, AllCovered, CoveredBy, Written, Behind, Scanned,
                      FailuresRecordedOnceUnrotated, FailuresRecordedOnce
  <2>6. QED
    BY <2>1, <2>3, <2>5 DEF GapInv
<1>2. GapInv /\ [GNext]_allVars => GapInv'
  <2> SUFFICES ASSUME GapInv, [GNext]_allVars
               PROVE  GapInv'
    OBVIOUS
  <2>1. /\ TypeOK /\ NothingYet /\ GTypeOK /\ AtWork /\ DraftGap /\ Backlog /\ Accounted
        /\ IInv
    BY DEF GapInv, IInv
  <2>2. IInv'
    BY <2>1, GapIsLogNext, InvariantStep
  <2>3. GTypeOK'
    BY <2>1, GTypedStep
  <2>4. AtWork' /\ DraftGap' /\ Backlog'
    BY <2>1, WorkStep
  <2>5. Accounted'
    BY <2>1, AccountedStep
  <2>6. QED
    BY <2>2, <2>3, <2>4, <2>5 DEF GapInv
<1>3. QED
  BY <1>1, <1>2, PTL DEF GSpec

\* The mark and what a run of record_gap holds stay within the notes there are.
THEOREM GapTypeCorrect == GSpec => [](TypeOK /\ GTypeOK)
<1>1. GapInv => TypeOK /\ GTypeOK
  BY DEF GapInv, IInv
<1>2. QED
  BY <1>1, GapInvariant, PTL

\* Whichever write of record_gap fails, wherever it is killed and however often the
\* log is rotated, a failure that the mark takes from the backlog is counted by a gap
\* record in the log or in an archive (audit.py, _record_gap_locked).
THEOREM MarkedAreLogged == GSpec => []MarkedFailuresAreInTheLog
<1>1. GapInv => MarkedFailuresAreInTheLog
  BY DEF GapInv, Accounted, AllCovered, CoveredBy, MarkedFailuresAreInTheLog
<1>2. QED
  BY <1>1, GapInvariant, PTL

\* As long as the log isn't rotated, no failed write is counted by two gap records:
\* a run that finds its mark lost or stale finds the record an earlier one wrote
\* (audit.py, _covered_in_log).
THEOREM RecordedOnce == GSpec => []FailuresRecordedOnceUnrotated
<1>1. GapInv => FailuresRecordedOnceUnrotated
  BY DEF GapInv, Accounted
<1>2. QED
  BY <1>1, GapInvariant, PTL

\* record_gap and its failures break nothing of what the log promises: untouched, it
\* verifies, keeps what was acknowledged, goes on across rotations and past damage.
THEOREM GapKeepsLog ==
    GSpec => []/\ UntouchedLogVerifies
               /\ AckedKept
               /\ ChainContinuesUndisturbed
               /\ ChainSkipsDamage
<1>1. GapInv => /\ UntouchedLogVerifies
                /\ AckedKept
                /\ ChainContinuesUndisturbed
                /\ ChainSkipsDamage
  BY InvariantVerifies, InvariantKeeps, InvariantContinues, InvariantSkips DEF GapInv
<1>2. QED
  BY <1>1, GapInvariant, PTL

\* Gap records are entries of the ledger like any other.
THEOREM GapLedgerImplemented == GSpec => ImplementsLedger
<1>1. GInit => NewHashNext /\ AbstractLedger!LedgerInit
  BY LedgerStart DEF GInit
<1>2. GapInv /\ [GNext]_allVars => IInv /\ [LogNext]_vars
  BY GapIsLogNext DEF GapInv, IInv
<1>3. IInv /\ NewHashNext /\ [LogNext]_vars
        => NewHashNext' /\ [AbstractLedger!Enter]_(AbstractLedger!ledgerVars)
  BY NewHashStep, LedgerStep DEF IInv
<1>4. QED
  BY <1>1, <1>2, <1>3, GapInvariant, PTL
  DEF GSpec, ImplementsLedger, AbstractLedger!LedgerSpec

--------------------------------------------------------------------------------
(* Forwarding: what the log looks like to a run *)

\* Hashes rise along a file.
Rising(lines) ==
    \A i, j \in 1 .. Len(lines) :
        i < j /\ Readable(lines[i]) /\ Readable(lines[j]) => lines[i].sha < lines[j].sha

\* They rise along the archives, and on into the log.
HashesRise ==
    /\ Rising(log.lines)
    /\ \A n \in 1 .. Len(archive) :
          /\ Rising(archive[n].lines)
          /\ \A r \in Hashes(archive[n].lines), s \in Hashes(log.lines) : r < s
          /\ \A m \in 1 .. Len(archive) :
                n < m => \A r \in Hashes(archive[n].lines), s \in Hashes(archive[m].lines) : r < s

\* The marker of a file is whole, and names an archive.
Names(file, n) ==
    /\ file.lines # <<>>
    /\ Readable(file.lines[1]) /\ file.lines[1].arch = n
    /\ Len(file.lines) = 1 => ~file.mid

\* Until a rotation is cut short, every archive but the first is led back from.
Led ==
    ~cutShort =>
        /\ \A n \in 2 .. Len(archive) : Names(archive[n], n - 1)
        /\ archive # <<>> => (\E p \in Proc : pc[p] = "marker") \/ Names(log, Len(archive))

\* What a step does to the log and the archives.
LogMoves ==
    \/ /\ UNCHANGED <<archive, gone>> /\ nextSha' \in {nextSha, nextSha + 1}
       /\ \/ log'.lines = log.lines /\ (log'.mid => log.mid)
          \/ log'.lines = Append(log.lines, Cut)
          \/ \E line \in Line : /\ line.sha = nextSha /\ nextSha' = nextSha + 1
                                /\ log'.lines = Append(log.lines, line)
    \/ /\ archive' = Append(archive, log) /\ log' = EmptyFile
       /\ gone' \in gone .. Len(archive) /\ nextSha' = nextSha

LEMMA FailedMoves ==
    ASSUME NEW file \in File, NEW line \in Line, NEW f \in FailedWrites(file, line)
    PROVE  \/ f.lines = file.lines /\ (f.mid => file.mid)
           \/ f.lines = Append(file.lines, Cut)
           \/ f.lines = Append(file.lines, line)
<1>1. CASE f = file
  BY <1>1, Zenon
<1>2. CASE f = [file EXCEPT !.mid = FALSE]
  <2>1. f.lines = file.lines /\ f.mid = FALSE
    BY <1>2 DEF File
  <2>2. QED
    BY <2>1
<1>3. CASE f = AddLine(file, Cut, TRUE) \/ f = AddLine(file, line, TRUE)
  <2>1. Cut \in Line
    BY DEF Cut, Line, NoGap, NoSha
  <2>2. QED
    BY <1>3, <2>1, LineAdded
<1>4. QED
  BY <1>1, <1>2, <1>3 DEF FailedWrites

LEMMA LogStep ==
    ASSUME TypeOK, NothingYet, [LogNext]_vars
    PROVE  LogMoves
<1>1. log \in File /\ EmptyFile \in File /\ \A p \in Proc : Record(p) \in Line
  BY FilesTyped DEF TypeOK
<1>2. ASSUME UNCHANGED <<log, archive, gone, nextSha>>
      PROVE  LogMoves
  <2>1. /\ UNCHANGED <<archive, gone>> /\ nextSha' \in {nextSha, nextSha + 1}
        /\ log'.lines = log.lines /\ (log'.mid => log.mid)
    BY <1>2, Zenon
  <2>2. QED
    BY <2>1, Zenon DEF LogMoves
<1>3. ASSUME NEW line \in Line, line.sha = nextSha, nextSha' = nextSha + 1,
             UNCHANGED <<archive, gone>>,
             log' = AddLine(log, line, FALSE) \/ log' \in FailedWrites(log, line)
      PROVE  LogMoves
  <2>1. \/ log'.lines = log.lines /\ (log'.mid => log.mid)
        \/ log'.lines = Append(log.lines, Cut)
        \/ log'.lines = Append(log.lines, line)
    <3>1. CASE log' = AddLine(log, line, FALSE)
      BY <1>1, <3>1, LineAdded
    <3>2. CASE log' \in FailedWrites(log, line)
      BY <1>1, <3>2, FailedMoves, Zenon
    <3>3. QED
      BY <1>3, <3>1, <3>2
  <2>2. nextSha' \in {nextSha, nextSha + 1}
    BY <1>3
  <2>3. QED
    BY <1>3, <2>1, <2>2, Zenon DEF LogMoves
<1>4. ASSUME NEW p \in Proc, AppendOK(p) \/ AppendFails(p)
      PROVE  LogMoves
  <2>1. /\ nextSha' = nextSha + 1 /\ UNCHANGED <<archive, gone>>
        /\ log' = AddLine(log, Record(p), FALSE) \/ log' \in FailedWrites(log, Record(p))
    BY <1>4, Zenon DEF AppendOK, AppendFails
  <2>2. Record(p) \in Line /\ Record(p).sha = nextSha
    BY <1>1 DEF Record
  <2>3. QED
    BY <1>3, <2>1, <2>2, Zenon
<1>5. ASSUME NEW p \in Proc, WriteMarker(p) \/ MarkerFails(p)
      PROVE  LogMoves
  <2>1. archive # <<>> /\ log = EmptyFile
    BY <1>5 DEF WriteMarker, MarkerFails, NothingYet
  <2>2. /\ nextSha' = nextSha + 1 /\ UNCHANGED <<archive, gone>>
        /\ log' = AddLine(EmptyFile, Marker(p), FALSE) \/ log' \in FailedWrites(EmptyFile, Marker(p))
    BY <1>5, Zenon DEF WriteMarker, MarkerFails
  <2>3. Marker(p) \in Line /\ Marker(p).sha = nextSha
    BY FilesTyped DEF Marker, Record
  <2>4. QED
    BY <1>3, <2>1, <2>2, <2>3, Zenon
<1>6. ASSUME NEW p \in Proc, Rotate(p)
      PROVE  LogMoves
  BY <1>6, Zenon DEF Rotate, LogMoves
<1>7. ASSUME NEW p \in Proc,
             (\E gap \in Nat \X Nat : StartAppend(p, gap)) \/ NoteFailure(p) \/ Ends(p)
      PROVE  LogMoves
  <2>1. UNCHANGED <<log, archive, gone, nextSha>>
    BY <1>7, Zenon DEF StartAppend, NoteFailure, Ends
  <2>2. QED
    BY <1>2, <2>1
<1>8. CASE UNCHANGED vars
  BY <1>2, <1>8 DEF vars
<1>9. QED
  BY <1>4, <1>5, <1>6, <1>7, <1>8 DEF LogNext

LEMMA RisingLonger ==
    ASSUME NEW lines \in Seq(Line), NEW line \in Line, Rising(lines),
           line.sha = NoSha \/ \A r \in Hashes(lines) : r < line.sha
    PROVE  Rising(Append(lines, line))
<1> DEFINE more == Append(lines, line)
<1>1. /\ Len(lines) \in Nat /\ Len(more) = Len(lines) + 1
      /\ \A i \in 1 .. Len(lines) : more[i] = lines[i]
      /\ more[Len(lines) + 1] = line
  OBVIOUS
<1>2. \A i \in 1 .. Len(lines) : Readable(lines[i]) => lines[i].sha \in Hashes(lines)
  BY DEF Readable, Hashes
<1> HIDE DEF more
<1>3. ASSUME NEW i \in 1 .. Len(more), NEW j \in 1 .. Len(more), i < j,
             Readable(more[i]), Readable(more[j])
      PROVE  more[i].sha < more[j].sha
  <2>1. i \in 1 .. Len(lines)
    BY <1>1, <1>3
  <2>2. CASE j \in 1 .. Len(lines)
    BY <1>1, <1>3, <2>1, <2>2 DEF Rising
  <2>3. CASE j \notin 1 .. Len(lines)
    <3>1. j = Len(lines) + 1
      BY <1>1, <2>3
    <3>2. line.sha # NoSha
      BY <1>1, <1>3, <3>1 DEF Readable
    <3>3. lines[i].sha \in Hashes(lines)
      BY <1>1, <1>2, <1>3, <2>1
    <3>4. QED
      BY <1>1, <2>1, <3>1, <3>2, <3>3
  <2>4. QED
    BY <2>2, <2>3
<1>4. Rising(more)
  BY <1>3 DEF Rising
<1>5. QED
  BY <1>4 DEF more

\* The hash of every record is older than the next one.
LEMMA HashesOld ==
    ASSUME TypeOK, NewHashNext
    PROVE  /\ nextSha \in Nat \ {0}
           /\ \A r \in Hashes(log.lines) : r \in Nat \ {0} /\ r < nextSha
           /\ \A n \in 1 .. Len(archive) : \A r \in Hashes(archive[n].lines) :
                 r \in Nat \ {0} /\ r < nextSha
<1>1. DOMAIN archive = 1 .. Len(archive)
  BY DEF TypeOK
<1>2. Hashes(log.lines) \subseteq Recorded
  BY DEF Recorded
<1>3. \A n \in 1 .. Len(archive) : Hashes(archive[n].lines) \subseteq Recorded
  BY <1>1 DEF Recorded
<1>4. 0 \notin Hashes(log.lines) /\ \A n \in 1 .. Len(archive) : 0 \notin Hashes(archive[n].lines)
  BY DEF Hashes, NoSha
<1>5. nextSha \in Nat \ {0}
  BY DEF TypeOK
<1>6. QED
  BY <1>2, <1>3, <1>4, <1>5 DEF NewHashNext

LEMMA RiseStep ==
    ASSUME TypeOK, NewHashNext, HashesRise, LogMoves
    PROVE  HashesRise'
<1>1. /\ log \in File /\ log.lines \in Seq(Line)
      /\ archive \in Seq(File) /\ Len(archive) \in Nat
  BY DEF TypeOK, File
<1>2. Cut \in Line /\ Cut.sha = NoSha
  BY DEF Cut, Line, NoGap, NoSha
<1>3. CASE archive' = archive /\ log'.lines = log.lines
  BY <1>3, Zenon DEF HashesRise
<1>4. ASSUME NEW line \in Line, line.sha = NoSha \/ line.sha = nextSha,
             archive' = archive, log'.lines = Append(log.lines, line)
      PROVE  HashesRise'
  <2>1. line.sha = NoSha \/ \A r \in Hashes(log.lines) : r < line.sha
    BY <1>4, HashesOld
  <2>2. Rising(log'.lines)
    BY <1>1, <1>4, <2>1, RisingLonger DEF HashesRise
  <2>3. Hashes(log'.lines) = Hashes(log.lines) \cup ({line.sha} \ {NoSha})
    BY <1>1, <1>4, HashesLonger
  <2>4. ASSUME NEW n \in 1 .. Len(archive), NEW r \in Hashes(archive[n].lines),
               NEW s \in Hashes(log'.lines)
        PROVE  r < s
    <3>1. CASE s \in Hashes(log.lines)
      BY <2>4, <3>1 DEF HashesRise
    <3>2. CASE s \notin Hashes(log.lines)
      <4>1. s = nextSha
        BY <1>4, <2>3, <3>2
      <4>2. QED
        BY <4>1, HashesOld
    <3>3. QED
      BY <3>1, <3>2
  <2>5. QED
    BY <1>4, <2>2, <2>4 DEF HashesRise
<1>5. ASSUME archive' = Append(archive, log), log' = EmptyFile
      PROVE  HashesRise'
  <2>1. /\ Len(archive') = Len(archive) + 1
        /\ \A n \in 1 .. Len(archive) : archive'[n] = archive[n]
        /\ archive'[Len(archive) + 1] = log
    BY <1>1, <1>5
  <2>2. Hashes(log'.lines) = {} /\ Rising(log'.lines)
    BY <1>5, HashesEmpty DEF EmptyFile, Rising
  <2>3. ASSUME NEW n \in 1 .. Len(archive')
        PROVE  Rising(archive'[n].lines)
    BY <1>1, <2>1 DEF HashesRise
  <2>4. ASSUME NEW n \in 1 .. Len(archive'), NEW m \in 1 .. Len(archive'), n < m,
               NEW r \in Hashes(archive'[n].lines), NEW s \in Hashes(archive'[m].lines)
        PROVE  r < s
    <3>1. n \in 1 .. Len(archive) /\ r \in Hashes(archive[n].lines)
      BY <1>1, <2>1, <2>4
    <3>2. CASE m \in 1 .. Len(archive)
      BY <2>1, <2>4, <3>1, <3>2 DEF HashesRise
    <3>3. CASE m \notin 1 .. Len(archive)
      <4>1. s \in Hashes(log.lines)
        BY <1>1, <2>1, <2>4, <3>3
      <4>2. QED
        BY <3>1, <4>1 DEF HashesRise
    <3>4. QED
      BY <3>2, <3>3
  <2>5. QED
    BY <2>2, <2>3, <2>4 DEF HashesRise
<1>6. QED
  BY <1>2, <1>3, <1>4, <1>5, Zenon DEF LogMoves

LEMMA NamesLonger ==
    ASSUME NEW file \in File, NEW file2, NEW line, NEW n,
           file2.lines = Append(file.lines, line), Names(file, n)
    PROVE  Names(file2, n)
<1>1. file.lines \in Seq(Line) /\ file.lines # <<>>
  BY DEF File, Names
<1>2. /\ file2.lines # <<>> /\ file2.lines[1] = file.lines[1] /\ Len(file2.lines) # 1
  BY <1>1
<1>3. QED
  BY <1>2 DEF Names

LEMMA LedStep ==
    ASSUME TypeOK, WriterHolds, NothingYet, Led, [LogNext]_vars
    PROVE  Led'
<1>1. log \in File /\ log.lines \in Seq(Line) /\ archive \in Seq(File) /\ Len(archive) \in Nat
  BY DEF TypeOK, File
<1>2. CASE UNCHANGED vars
  BY <1>2, Zenon DEF Led, vars
<1>3. ASSUME NEW p \in Proc, AppendOK(p) \/ AppendFails(p)
      PROVE  Led'
  <2>1. pc[p] = "write" /\ archive' = archive /\ cutShort' = cutShort
    BY <1>3, Zenon DEF AppendOK, AppendFails
  <2>2. \A q \in Proc : pc[q] # "marker"
    BY <2>1 DEF WriterHolds
  <2>3. ASSUME ~cutShort, archive # <<>>
        PROVE  Names(log', Len(archive))
    <3>1. Names(log, Len(archive))
      BY <2>2, <2>3, Zenon DEF Led
    <3>2. LogMoves
      BY <1>3, LogStep, Zenon DEF LogNext
    <3>3. archive # Append(archive, log)
      BY <1>1
    <3>4. CASE log'.lines = log.lines /\ (log'.mid => log.mid)
      BY <3>1, <3>4, Zenon DEF Names
    <3>5. CASE log'.lines = Append(log.lines, Cut)
      BY <1>1, <3>1, <3>5, NamesLonger, Zenon
    <3>6. ASSUME NEW line \in Line, log'.lines = Append(log.lines, line)
          PROVE  Names(log', Len(archive))
      BY <1>1, <3>1, <3>6, NamesLonger, Zenon
    <3>7. QED
      BY <2>1, <3>2, <3>3, <3>4, <3>5, <3>6, Zenon DEF LogMoves
  <2>4. QED
    BY <2>1, <2>3, Zenon DEF Led
<1>4. ASSUME NEW p \in Proc, Rotate(p)
      PROVE  Led'
  <2>1. pc'[p] = "marker"
    BY <1>4 DEF Rotate, TypeOK
  <2>2. /\ archive' = Append(archive, log) /\ cutShort' = cutShort
        /\ \A q \in Proc : pc[q] # "marker"
    BY <1>4, AuditAssumption DEF Rotate, WriterHolds
  <2>3. /\ Len(archive') = Len(archive) + 1
        /\ \A n \in 1 .. Len(archive) : archive'[n] = archive[n]
        /\ archive'[Len(archive) + 1] = log
    BY <1>1, <2>2
  <2>4. ASSUME ~cutShort, NEW n \in 2 .. Len(archive')
        PROVE  Names(archive'[n], n - 1)
    <3>1. CASE n \in 2 .. Len(archive)
      BY <2>3, <2>4, <3>1 DEF Led
    <3>2. CASE n \notin 2 .. Len(archive)
      <4>1. n = Len(archive) + 1 /\ archive # <<>> /\ n - 1 = Len(archive)
        BY <1>1, <2>3, <3>2
      <4>2. Names(log, Len(archive))
        BY <2>2, <2>4, <4>1, Zenon DEF Led
      <4>3. QED
        BY <2>3, <4>1, <4>2
    <3>3. QED
      BY <3>1, <3>2
  <2>5. QED
    BY <2>1, <2>2, <2>4, Zenon DEF Led
<1>5. ASSUME NEW p \in Proc, WriteMarker(p)
      PROVE  Led'
  <2>1. /\ log' = AddLine(EmptyFile, Marker(p), FALSE)
        /\ archive' = archive /\ archive # <<>> /\ cutShort' = cutShort
    BY <1>5 DEF WriteMarker, NothingYet
  <2>2. log'.lines = Append(EmptyFile.lines, Marker(p)) /\ log'.mid = FALSE
    BY <2>1, FilesTyped, LineAdded DEF AddLine
  <2>3. Marker(p).arch = Len(archive) /\ Readable(Marker(p))
    BY DEF Marker, Record, Readable, TypeOK, NoSha
  <2>4. Marker(p) \in Line
    BY <2>1, FilesTyped
  <2> HIDE DEF Marker
  <2>5. log'.lines = Append(<<>>, Marker(p))
    BY <2>2 DEF EmptyFile
  <2>6. log'.lines # <<>> /\ log'.lines[1] = Marker(p)
    BY <2>4, <2>5
  <2>7. Names(log', Len(archive))
    BY <2>2, <2>3, <2>6, Zenon DEF Names
  <2>8. QED
    BY <2>1, <2>7, Zenon DEF Led
<1>6. ASSUME NEW p \in Proc, MarkerFails(p)
      PROVE  Led'
  BY <1>6, Zenon DEF MarkerFails, Led
<1>7. ASSUME NEW p \in Proc, NEW l \in {"idle", "write"}, pc' = [pc EXCEPT ![p] = l],
             UNCHANGED <<log, archive>>, cutShort => cutShort',
             pc[p] = "marker" => cutShort'
      PROVE  Led'
  <2>1. \A q \in Proc : q # p => pc'[q] = pc[q]
    BY <1>7 DEF TypeOK
  <2>2. QED
    BY <1>7, <2>1, Zenon DEF Led
<1>8. ASSUME NEW p \in Proc, NEW gap \in Nat \X Nat, StartAppend(p, gap)
      PROVE  Led'
  <2>1. pc[p] # "marker"
    BY <1>8 DEF StartAppend
  <2>2. pc' = [pc EXCEPT ![p] = "write"] /\ UNCHANGED <<log, archive, cutShort>>
    BY <1>8, Zenon DEF StartAppend
  <2>3. QED
    BY <1>7, <2>1, <2>2
<1>9. ASSUME NEW p \in Proc, NoteFailure(p)
      PROVE  Led'
  <2>1. pc[p] # "marker"
    BY <1>9 DEF NoteFailure
  <2>2. pc' = [pc EXCEPT ![p] = "idle"] /\ UNCHANGED <<log, archive, cutShort>>
    BY <1>9, Zenon DEF NoteFailure
  <2>3. QED
    BY <1>7, <2>1, <2>2
<1>10. ASSUME NEW p \in Proc, Ends(p)
      PROVE  Led'
  <2>1. /\ pc' = [pc EXCEPT ![p] = "idle"] /\ UNCHANGED <<log, archive>>
        /\ cutShort => cutShort'
        /\ pc[p] = "marker" => cutShort'
    BY <1>10, Zenon DEF Ends
  <2>2. QED
    BY <1>7, <2>1
<1>11. QED
  BY <1>2, <1>3, <1>4, <1>5, <1>6, <1>8, <1>9, <1>10 DEF LogNext

\* The paths there is a file at.
Present == {Active} \cup (gone + 1 .. Len(archive))

\* The lines of a path a run may have to send, now or once a last line is ended.
Due(path) ==
    IF path = Active THEN {i \in DOMAIN log.lines : Readable(log.lines[i])}
    ELSE Complete(FileAt(path))

ShaAt(path, i) == FileAt(path).lines[i].sha

Held == UNION {{ShaAt(path, i) : i \in Due(path)} : path \in Present}

\* What is read and sent is older than the next record.
ShasOld == cursor.last < nextSha /\ \A b \in batch : b.sha < nextSha

ChainOpen == fpc \in {"locate", "read"} => Active \in chain

\* Without RotateInRun no run goes on beside a rotation.
NoRotation == fpc # "idle" => \A p \in Proc : pc[p] # "marker"

CursorSafe == \A r \in Held : r <= cursor.last => r \in sent

ChainWhole == fpc \in {"locate", "read"} => chain = Present

\* All that lies before the start was sent.
StartSafe ==
    fpc = "read" =>
        /\ start.log \in Present
        /\ start.line <= Len(FileAt(start.log).lines)
        /\ \A path \in Present : Older(path, start.log) =>
              \A i \in Due(path) : ShaAt(path, i) \in sent
        /\ \A i \in Due(start.log) : i <= start.line => ShaAt(start.log, i) \in sent

\* All up to the last record of the batch is in the batch or was sent.
BatchSafe ==
    /\ fpc \in {"send", "save"} =>
          \A b \in batch, r \in Held : r <= b.sha => r \in sent \cup Shas(batch)
    /\ fpc = "save" => Shas(batch) \subseteq sent

RunSafe == ~cutShort => CursorSafe /\ ChainWhole /\ StartSafe /\ BatchSafe

\* The place the cursor names is that of the record sent last, wherever that is.
CursorPlace ==
    \A path \in Present : \A i \in Due(path) : ShaAt(path, i) = cursor.last =>
        /\ i = cursor.line /\ i \in Complete(FileAt(path))
        /\ FirstSha(FileAt(path)) = cursor.first

\* Reading starts there, if the record is still there.
StartPlace ==
    fpc = "read" =>
        \A path \in Present : \A i \in Due(path) : ShaAt(path, i) = cursor.last =>
            start.log = path /\ start.line = i /\ ~start.lost

\* The lines to send are where they were read, and come after it.
BatchPlace ==
    fpc \in {"send", "save"} =>
        /\ \A b \in batch : /\ b.path \in Present /\ b.line \in Complete(FileAt(b.path))
                            /\ ShaAt(b.path, b.line) = b.sha
        /\ cursor.last \in Held => batch # {} /\ \A b \in batch : cursor.last < b.sha

PlaceInv == ~cutShort => CursorPlace /\ StartPlace /\ BatchPlace

--------------------------------------------------------------------------------
(* Forwarding: the files a run reads *)

LEMMA LeastExists ==
    ASSUME NEW S \in SUBSET Nat, S # {}
    PROVE  \E m \in S : \A k \in S : m <= k
<1>1. PICK m \in S : \A k \in S : ~(<<k, m>> \in OpToRel(<, Nat))
  BY WFMin, NatLessThanWellFounded
<1>2. ASSUME NEW k \in S
      PROVE  m <= k
  <2>1. ~(k < m)
    BY <1>1, <1>2 DEF OpToRel
  <2>2. QED
    BY <2>1
<1>3. QED
  BY <1>2

LEMMA OldestIs ==
    ASSUME NEW paths \in SUBSET Nat, paths # {}
    PROVE  Oldest(paths) \in paths /\ \A other \in paths : ~Older(other, Oldest(paths))
<1>1. \E path \in paths : \A other \in paths : ~Older(other, path)
  <2>1. CASE paths \subseteq {Active}
    BY <2>1 DEF Older
  <2>2. CASE ~(paths \subseteq {Active})
    <3>1. PICK m \in paths \ {Active} : \A k \in paths \ {Active} : m <= k
      <4>1. paths \ {Active} \in SUBSET Nat /\ paths \ {Active} # {}
        BY <2>2
      <4>2. QED
        BY <4>1, LeastExists
    <3>2. QED
      BY <3>1 DEF Older
  <2>3. QED
    BY <2>1, <2>2
<1>2. QED
  BY <1>1, Zenon DEF Oldest

LEMMA FileAtType ==
    ASSUME TypeOK, NEW path
    PROVE  FileAt(path) \in File
<1>1. EmptyFile \in File /\ log \in File
  BY FilesTyped DEF TypeOK
<1>2. Exists(path) => archive[path] \in File
  BY FilesTyped DEF Exists, TypeOK
<1>3. QED
  BY <1>1, <1>2, Zenon DEF FileAt

\* The lines of a complete record.
LEMMA CompleteLines ==
    ASSUME NEW file \in File
    PROVE  /\ file.lines \in Seq(Line) /\ Len(file.lines) \in Nat
           /\ Complete(file) \subseteq 1 .. Len(file.lines)
           /\ \A i \in Complete(file) :
                 /\ file.lines[i] \in Line /\ file.lines[i].sha \in Nat \ {0}
                 /\ file.lines[i].sha \in Hashes(file.lines)
<1>1. file.lines \in Seq(Line) /\ DOMAIN file.lines = 1 .. Len(file.lines)
      /\ Len(file.lines) \in Nat
  BY DEF File
<1>2. ASSUME NEW i \in Complete(file)
      PROVE  /\ i \in 1 .. Len(file.lines) /\ file.lines[i] \in Line
             /\ file.lines[i].sha \in Nat \ {0} /\ file.lines[i].sha \in Hashes(file.lines)
  <2>1. i \in DOMAIN file.lines /\ file.lines[i].sha # NoSha
    BY DEF Complete, Readable
  <2>2. i \in 1 .. Len(file.lines) /\ file.lines[i] \in Line
    BY <1>1, <2>1
  <2>3. file.lines[i].sha \in Nat
    BY <2>2 DEF Line
  <2>4. file.lines[i].sha \in Hashes(file.lines)
    BY <2>1 DEF Hashes
  <2>5. QED
    BY <2>1, <2>2, <2>3, <2>4 DEF NoSha
<1>3. QED
  BY <1>1, <1>2

LEMMA FirstIs ==
    ASSUME NEW file \in File, Complete(file) # {}
    PROVE  \E i \in Complete(file) : /\ \A j \in Complete(file) : i <= j
                                     /\ FirstRecord(file) = file.lines[i]
<1>1. Complete(file) \in SUBSET Nat
  BY CompleteLines
<1>2. \E i \in Complete(file) : \A j \in Complete(file) : i <= j
  BY <1>1, LeastExists
<1> DEFINE least == CHOOSE i \in Complete(file) : \A j \in Complete(file) : i <= j
<1>3. least \in Complete(file) /\ \A j \in Complete(file) : least <= j
  BY <1>2, Zenon
<1>4. FirstRecord(file) = file.lines[least]
  BY DEF FirstRecord
<1>5. QED
  BY <1>3, <1>4, Zenon

LEMMA FirstShaType ==
    ASSUME NEW file \in File
    PROVE  FirstSha(file) \in Nat
BY FirstIs, CompleteLines DEF FirstSha, NoSha

\* A file whose marker names an archive still there leads back to it.
LEMMA NamedLinked ==
    ASSUME NEW file \in File, NEW n, Names(file, n), Exists(n)
    PROVE  n \in Linked(file)
<1>1. 1 \in Complete(file)
  <2>1. 1 \in DOMAIN file.lines
    BY DEF File, Names
  <2>2. 1 = Len(file.lines) => ~file.mid
    BY Zenon DEF Names
  <2>3. Readable(file.lines[1])
    BY Zenon DEF Names
  <2>4. QED
    BY <2>1, <2>2, <2>3, Zenon DEF Complete
<1>2. PICK i \in Complete(file) : /\ \A j \in Complete(file) : i <= j
                                  /\ FirstRecord(file) = file.lines[i]
  BY <1>1, FirstIs
<1>3. i = 1
  BY <1>1, <1>2, CompleteLines
<1>4. FirstRecord(file).arch = n
  BY <1>2, <1>3, Zenon DEF Names
<1>5. QED
  BY <1>1, <1>4, Zenon DEF Linked, Exists

LEMMA PresentPaths ==
    ASSUME TypeOK
    PROVE  /\ Len(archive) \in Nat /\ gone \in Nat
           /\ Present \subseteq 0 .. Len(archive) /\ Active \in Present
           /\ \A n : n \in Present \ {Active} <=> Exists(n)
           /\ FileAt(Active) = log
           /\ \A n \in Present \ {Active} :
                 n \in 1 .. Len(archive) /\ FileAt(n) = archive[n]
<1>1. Len(archive) \in Nat /\ gone \in Nat
  BY DEF TypeOK
<1>2. QED
  BY <1>1 DEF Present, Active, Exists, FileAt

\* Until a rotation is cut short, the chain holds all the archives there are.
LEMMA ChainIs ==
    ASSUME TypeOK, Led, ~cutShort, \A p \in Proc : pc[p] # "marker",
           NEW paths, IsChain(paths)
    PROVE  paths = Present
<1>1. \A n \in paths \ {Active} : Exists(n)
  BY Zenon DEF IsChain, Linked, Exists
<1>2. paths \subseteq Present
  BY <1>1, PresentPaths
<1> DEFINE Missed == {d \in Nat : Len(archive) - d \in Present \ ({Active} \cup paths)}
<1>3. ASSUME NEW n \in Present \ paths
      PROVE  FALSE
  <2>1. n # Active /\ n \in 1 .. Len(archive) /\ Len(archive) \in Nat
    BY <1>3, PresentPaths DEF IsChain
  <2>2. Len(archive) - n \in Missed
    <3>1. Len(archive) - n \in Nat /\ Len(archive) - (Len(archive) - n) = n
      BY <2>1
    <3>2. QED
      BY <1>3, <2>1, <3>1
  <2>3. Missed \in SUBSET Nat /\ Missed # {}
    BY <2>2
  <2>4. PICK d \in Missed : \A e \in Missed : d <= e
    <3> HIDE DEF Missed
    <3>1. QED
      BY <2>3, LeastExists
  <2> DEFINE m == Len(archive) - d
  <2>5. /\ d \in Nat /\ m \in Present /\ m # Active /\ m \notin paths
        /\ m \in 1 .. Len(archive) /\ Exists(m)
    BY PresentPaths
  <2>6. CASE m = Len(archive)
    <3>1. archive # <<>>
      BY <2>1 DEF TypeOK
    <3>2. Names(log, m)
      BY <2>6, <3>1, Zenon DEF Led
    <3>3. m \in Linked(FileAt(Active))
      BY <2>5, <3>2, NamedLinked, PresentPaths, FileAtType
    <3>4. QED
      BY <2>5, <3>3, Zenon DEF IsChain
  <2>7. CASE m # Len(archive)
    <3>1. m + 1 \in 2 .. Len(archive) /\ m + 1 - 1 = m /\ d - 1 \in Nat
          /\ Len(archive) - (d - 1) = m + 1 /\ ~(d <= d - 1)
      BY <2>1, <2>5, <2>7
    <3>2. m + 1 \in Present /\ m + 1 # Active
      <4>1. \A k \in 1 .. Len(archive) :
               Exists(k) /\ k + 1 \in 2 .. Len(archive) => k + 1 \in Present /\ k + 1 # Active
        BY PresentPaths DEF Present, Active, Exists
      <4>2. QED
        BY <2>5, <3>1, <4>1
    <3>3. d - 1 \notin Missed
      BY <2>4, <3>1
    <3>4. m + 1 \in paths
      BY <3>1, <3>2, <3>3
    <3>5. Names(archive[m + 1], m)
      BY <3>1 DEF Led
    <3>6. FileAt(m + 1) = archive[m + 1]
      BY <3>2, PresentPaths
    <3>7. m \in Linked(FileAt(m + 1))
      BY <2>5, <3>5, <3>6, NamedLinked, FileAtType
    <3>8. QED
      BY <2>5, <3>4, <3>7 DEF IsChain
  <2>8. QED
    BY <2>6, <2>7
<1>4. QED
  BY <1>2, <1>3

LEMMA DueLines ==
    ASSUME TypeOK, NEW path \in Present, NEW i \in Due(path)
    PROVE  /\ i \in 1 .. Len(FileAt(path).lines) /\ Readable(FileAt(path).lines[i])
           /\ ShaAt(path, i) \in Nat \ {0}
           /\ ShaAt(path, i) \in Hashes(FileAt(path).lines)
<1>1. FileAt(path) \in File /\ FileAt(Active) = log
  BY FileAtType, PresentPaths
<1>2. CASE path = Active
  <2>1. i \in DOMAIN log.lines /\ log.lines[i].sha # NoSha
    BY <1>2, Zenon DEF Due, Readable
  <2>2. DOMAIN log.lines = 1 .. Len(log.lines) /\ log.lines \in Seq(Line)
    BY <1>1, <1>2 DEF File
  <2>3. log.lines[i].sha \in Nat
    <3>1. log.lines[i] \in Line
      BY <2>1, <2>2
    <3>2. QED
      BY <3>1 DEF Line
  <2>4. log.lines[i].sha \in Hashes(log.lines)
    BY <2>1 DEF Hashes
  <2>5. QED
    BY <1>1, <1>2, <2>1, <2>2, <2>3, <2>4 DEF ShaAt, Readable, NoSha
<1>3. CASE path # Active
  <2>1. i \in Complete(FileAt(path))
    BY <1>3, Zenon DEF Due
  <2>2. Readable(FileAt(path).lines[i])
    BY <2>1, Zenon DEF Complete
  <2>3. QED
    BY <1>1, <2>1, <2>2, CompleteLines DEF ShaAt
<1>4. QED
  BY <1>2, <1>3

\* A complete record is due.
LEMMA CompleteDue ==
    ASSUME NEW path
    PROVE  Complete(FileAt(path)) \subseteq Due(path)
BY Zenon DEF Complete, Due, FileAt

\* Hashes rise with the order in which records are read.
LEMMA DueRise ==
    ASSUME TypeOK, HashesRise, NEW a \in Present, NEW b \in Present,
           NEW i \in Due(a), NEW j \in Due(b), Older(a, b) \/ (a = b /\ i < j)
    PROVE  ShaAt(a, i) < ShaAt(b, j)
<1>1. /\ i \in 1 .. Len(FileAt(a).lines) /\ Readable(FileAt(a).lines[i])
      /\ ShaAt(a, i) \in Hashes(FileAt(a).lines)
      /\ j \in 1 .. Len(FileAt(b).lines) /\ Readable(FileAt(b).lines[j])
      /\ ShaAt(b, j) \in Hashes(FileAt(b).lines)
  BY DueLines
<1>2. /\ FileAt(Active) = log
      /\ \A n \in Present \ {Active} : n \in 1 .. Len(archive) /\ FileAt(n) = archive[n]
  BY PresentPaths
<1>3. CASE a = b /\ i < j
  <2>1. Rising(FileAt(a).lines)
    BY <1>2 DEF HashesRise
  <2>2. QED
    BY <1>1, <1>3, <2>1 DEF Rising, ShaAt
<1>4. CASE Older(a, b)
  <2>1. a # Active /\ a \in 1 .. Len(archive) /\ FileAt(a) = archive[a]
    BY <1>2, <1>4 DEF Older
  <2>2. CASE b = Active
    BY <1>1, <1>2, <2>1, <2>2 DEF HashesRise
  <2>3. CASE b # Active
    <3>1. b \in 1 .. Len(archive) /\ FileAt(b) = archive[b] /\ a < b
      BY <1>2, <1>4, <2>3 DEF Older
    <3>2. QED
      BY <1>1, <2>1, <3>1 DEF HashesRise
  <2>4. QED
    BY <2>2, <2>3
<1>5. QED
  BY <1>3, <1>4

LEMMA HeldOld ==
    ASSUME TypeOK, NewHashNext
    PROVE  /\ nextSha \in Nat \ {0}
           /\ \A r \in Held : r \in Nat \ {0} /\ r < nextSha
<1>1. ASSUME NEW path \in Present, NEW i \in Due(path)
      PROVE  ShaAt(path, i) \in Nat \ {0} /\ ShaAt(path, i) < nextSha
  <2>1. ShaAt(path, i) \in Hashes(FileAt(path).lines)
    BY DueLines
  <2>2. FileAt(path) = log \/ (path \in 1 .. Len(archive) /\ FileAt(path) = archive[path])
    BY PresentPaths
  <2>3. QED
    BY <2>1, <2>2, HashesOld
<1>2. QED
  BY <1>1, HashesOld DEF Held

LEMMA OnDiskHeld ==
    ASSUME TypeOK
    PROVE  OnDisk \subseteq Held
<1>1. ASSUME NEW file \in {log} \cup {archive[n] : n \in gone + 1 .. Len(archive)},
             NEW i \in Complete(file)
      PROVE  file.lines[i].sha \in Held
  <2>1. PICK path \in Present : FileAt(path) = file
    <3>1. CASE file = log
      BY <3>1, PresentPaths, Zenon
    <3>2. ASSUME NEW n \in gone + 1 .. Len(archive), file = archive[n]
          PROVE  \E path \in Present : FileAt(path) = file
      <4>1. n \in Present /\ n # Active
        BY PresentPaths DEF Present, Active
      <4>2. FileAt(n) = file
        BY <3>2, <4>1, PresentPaths
      <4>3. QED
        BY <4>1, <4>2
    <3>3. QED
      BY <3>1, <3>2
  <2>2. i \in Due(path)
    BY <1>1, <2>1, CompleteDue
  <2>3. ShaAt(path, i) \in Held
    BY <2>2 DEF Held
  <2>4. QED
    BY <2>1, <2>3 DEF ShaAt
<1>2. QED
  BY <1>1 DEF OnDisk

--------------------------------------------------------------------------------
(* Forwarding: the log under its steps *)

LogInv == IInv /\ NewHashNext /\ HashesRise /\ Led

\* A run that is killed changes nothing of the log but the count of kills.
OnlyCrashes ==
    /\ UNCHANGED <<log, archive, gone, lockedBy, pc, draft, nextSha, acked, notes,
                   cutShort, failures>>
    /\ crashes' = crashes + 1

LEMMA LogRunIsLogNext ==
    ASSUME LogRuns
    PROVE  LogNext /\ UNCHANGED forwardVars
<1>1. PICK p \in Proc :
         /\ \/ StartAppend(p, NoGap) \/ AppendSteps(p) \/ Crash(p) \/ RotateSteps(p)
         /\ UNCHANGED forwardVars
  BY Zenon DEF LogRuns
<1>2. NoGap \in Nat \X Nat
  BY DEF NoGap
<1>3. Crash(p) => Ends(p)
  BY Zenon DEF Crash, Ends
<1>4. QED
  BY <1>1, <1>2, <1>3, Zenon DEF LogNext, AppendSteps, RotateSteps

LEMMA ForwardKeepsVars ==
    ASSUME ForwardSteps
    PROVE  UNCHANGED vars
BY Zenon DEF ForwardSteps, ForwardStart, ForwardLocate, ForwardRead, ForwardSend,
             ForwardSendFails, ForwardSave, ForwardSaveFails

LEMMA ForwardCrashIs ==
    ASSUME ForwardCrash
    PROVE  /\ OnlyCrashes /\ UNCHANGED <<cursor, sent, sendErrors>>
           /\ fpc' = "idle" /\ chain' = {} /\ start' = NoStart /\ batch' = {}
BY Zenon DEF ForwardCrash, OnlyCrashes

LEMMA CrashKeeps ==
    ASSUME LogInv, OnlyCrashes
    PROVE  LogInv'
<1>1. /\ TypeOK /\ WriterHolds /\ DraftCurrent /\ NothingYet /\ AllChained /\ Kept /\ Named
      /\ LogDamageShort /\ NewHashNext /\ HashesRise /\ Led
  BY Zenon DEF LogInv, IInv
<1>2. /\ UNCHANGED <<log, archive, gone, lockedBy, pc, draft, nextSha, acked, notes,
                     cutShort, failures>>
      /\ crashes' = crashes + 1
  BY DEF OnlyCrashes
<1>3. TypeOK'
  BY <1>1, <1>2 DEF TypeOK
<1>4. WriterHolds' /\ DraftCurrent' /\ NothingYet' /\ Kept' /\ Named' /\ LogDamageShort'
  BY <1>1, <1>2, Zenon
  DEF WriterHolds, DraftCurrent, NothingYet, Kept, Named, LogDamageShort
<1>5. AllChained' /\ NewHashNext' /\ HashesRise' /\ Led'
  BY <1>1, <1>2, Zenon DEF AllChained, NewHashNext, Recorded, HashesRise, Led
<1>6. QED
  BY <1>3, <1>4, <1>5 DEF LogInv, IInv

LEMMA LogKeeps ==
    ASSUME LogInv, [LogNext]_vars
    PROVE  LogInv'
<1>1. IInv /\ TypeOK /\ WriterHolds /\ NothingYet /\ NewHashNext /\ HashesRise /\ Led
  BY Zenon DEF LogInv, IInv
<1>2. IInv' /\ NewHashNext'
  BY <1>1, InvariantStep, NewHashStep
<1>3. HashesRise'
  BY <1>1, LogStep, RiseStep
<1>4. Led'
  BY <1>1, LedStep
<1>5. QED
  BY <1>2, <1>3, <1>4 DEF LogInv

LEMMA LogInvStep ==
    ASSUME LogInv, [FNext]_forwardingVars
    PROVE  LogInv'
<1>1. CASE UNCHANGED forwardingVars
  BY <1>1, LogKeeps, Zenon DEF forwardingVars
<1>2. CASE ForwardRun
  BY <1>2, LogKeeps, ForwardKeepsVars, Zenon DEF ForwardRun
<1>3. CASE ForwardCrash
  BY <1>3, ForwardCrashIs, CrashKeeps
<1>4. CASE LogRuns
  BY <1>4, LogRunIsLogNext, LogKeeps, Zenon
<1>5. QED
  BY <1>1, <1>2, <1>3, <1>4, Zenon DEF FNext

--------------------------------------------------------------------------------
(* Forwarding: types *)

FInv == LogInv /\ FTypeOK /\ ShasOld /\ ChainOpen

\* The hash of a complete record, wherever it is.
LEMMA CompleteOld ==
    ASSUME TypeOK, NewHashNext, NEW path, NEW i \in Complete(FileAt(path))
    PROVE  /\ i \in Nat \ {0} /\ FileAt(path).lines[i].sha \in Nat \ {0}
           /\ FileAt(path).lines[i].sha < nextSha
<1>1. /\ i \in Nat \ {0} /\ FileAt(path).lines[i].sha \in Nat \ {0}
      /\ FileAt(path).lines[i].sha \in Hashes(FileAt(path).lines)
  BY FileAtType, CompleteLines
<1>2. \/ FileAt(path) = log
      \/ path \in 1 .. Len(archive) /\ FileAt(path) = archive[path]
      \/ FileAt(path) = EmptyFile
  <2>1. Exists(path) => path \in 1 .. Len(archive)
    BY DEF Exists, TypeOK
  <2>2. QED
    BY <2>1, Zenon DEF FileAt
<1>3. CASE FileAt(path) = EmptyFile
  BY <1>1, <1>3, HashesEmpty DEF EmptyFile
<1>4. QED
  BY <1>1, <1>2, <1>3, HashesOld

\* What a line to send is.
LEMMA PendingIs ==
    ASSUME NEW b \in AllPending
    PROVE  /\ b.path \in chain /\ ~Older(b.path, start.log)
           /\ b.line \in Complete(FileAt(b.path))
           /\ b.sha = FileAt(b.path).lines[b.line].sha
           /\ b.line > IF b.path = start.log THEN start.line ELSE 0
           /\ b = [path |-> b.path, line |-> b.line, sha |-> b.sha]
<1>1. PICK path \in {n \in chain : ~Older(n, start.log)} :
         b \in Pending(path, IF path = start.log THEN start.line ELSE 0)
  BY DEF AllPending
<1>2. PICK i \in {j \in Complete(FileAt(path)) : j > IF path = start.log THEN start.line ELSE 0} :
         b = [path |-> path, line |-> i, sha |-> FileAt(path).lines[i].sha]
  BY <1>1 DEF Pending
<1>3. b.path = path /\ b.line = i /\ b.sha = FileAt(path).lines[i].sha
  BY <1>2
<1>4. i \in Complete(FileAt(path)) /\ i > IF path = start.log THEN start.line ELSE 0
  BY <1>2
<1>5. QED
  BY <1>1, <1>2, <1>3, <1>4

\* A complete record behind the start is a line to send.
LEMMA IsPending ==
    ASSUME NEW path \in chain, ~Older(path, start.log), NEW i \in Complete(FileAt(path)),
           i > IF path = start.log THEN start.line ELSE 0
    PROVE  [path |-> path, line |-> i, sha |-> FileAt(path).lines[i].sha] \in AllPending
<1>1. [path |-> path, line |-> i, sha |-> FileAt(path).lines[i].sha]
        \in Pending(path, IF path = start.log THEN start.line ELSE 0)
  BY DEF Pending
<1>2. QED
  BY <1>1 DEF AllPending

LEMMA PendingTyped ==
    ASSUME TypeOK, NewHashNext, chain \subseteq 0 .. Len(archive)
    PROVE  \A b \in AllPending : b \in PendingLine /\ b.sha < nextSha
<1> SUFFICES ASSUME NEW b \in AllPending
             PROVE  b \in PendingLine /\ b.sha < nextSha
  OBVIOUS
<1>1. b.path \in 0 .. Len(archive) /\ b.line \in Nat \ {0} /\ b.sha \in Nat \ {0}
      /\ b.sha < nextSha
  BY PendingIs, CompleteOld
<1>2. b = [path |-> b.path, line |-> b.line, sha |-> b.sha]
  BY PendingIs
<1>3. [path |-> b.path, line |-> b.line, sha |-> b.sha] \in PendingLine
  BY <1>1 DEF PendingLine
<1>4. QED
  BY <1>1, <1>2, <1>3

LEMMA FInvParts ==
    ASSUME FInv
    PROVE  /\ LogInv /\ IInv /\ TypeOK /\ WriterHolds /\ NothingYet /\ NewHashNext
           /\ HashesRise /\ Led /\ FTypeOK /\ ShasOld /\ ChainOpen
           /\ Len(archive) \in Nat /\ nextSha \in Nat \ {0}
BY DEF FInv, LogInv, IInv, TypeOK

LEMMA ForwardInit ==
    ASSUME FInit
    PROVE  FInv
<1>1. /\ Init /\ cursor = NoCursor /\ fpc = "idle" /\ chain = {} /\ start = NoStart
      /\ batch = {} /\ sent = {} /\ sendErrors = 0
  BY Zenon DEF FInit
<1>2. /\ IInv /\ TypeOK /\ NewHashNext
  BY <1>1, InvariantInit, LedgerStart DEF IInv
<1>3. log = EmptyFile /\ archive = <<>> /\ nextSha = 1
  BY <1>1, Zenon DEF Init
<1>4. HashesRise /\ Led
  BY <1>3, HashesEmpty DEF HashesRise, Led, Rising, EmptyFile
<1>5. FTypeOK
  BY <1>1, <1>2, <1>3, ForwardAssumption
  DEF FTypeOK, NoCursor, NoStart, NoSha, Active, PendingLine
<1>6. ShasOld /\ ChainOpen
  BY <1>1, <1>3 DEF ShasOld, ChainOpen, NoCursor, NoSha
<1>7. QED
  BY <1>2, <1>4, <1>5, <1>6 DEF FInv, LogInv

\* A step of the log leaves what a run holds in its types.
LEMMA LogTyped ==
    ASSUME FInv, LogInv', Len(archive') \in Nat, Len(archive) <= Len(archive'),
           nextSha <= nextSha', UNCHANGED forwardVars
    PROVE  FTypeOK' /\ ShasOld' /\ ChainOpen'
<1>1. TypeOK' /\ nextSha' \in Nat
  BY DEF LogInv, IInv, TypeOK
<1>2. UNCHANGED <<cursor, fpc, chain, start, batch, sent, sendErrors>>
  BY DEF forwardVars
<1>3. 0 .. Len(archive) \subseteq 0 .. Len(archive') /\ 1 .. nextSha - 1 \subseteq 1 .. nextSha' - 1
  BY <1>1, FInvParts
<1>4. PendingLine \subseteq PendingLine'
  BY <1>3 DEF PendingLine
<1>5. start \in [log : 0 .. Len(archive'), line : Nat, lost : BOOLEAN]
  <2>1. start \in [log : 0 .. Len(archive), line : Nat, lost : BOOLEAN]
    BY FInvParts DEF FTypeOK
  <2>2. QED
    BY <1>3, <2>1
<1>6. FTypeOK'
  BY <1>1, <1>2, <1>3, <1>4, <1>5, FInvParts DEF FTypeOK
<1>7. ShasOld'
  <2>1. cursor.last \in Nat /\ \A b \in batch : b.sha \in Nat
    BY FInvParts DEF FTypeOK, PendingLine
  <2>2. QED
    BY <1>1, <1>2, <2>1, FInvParts DEF ShasOld
<1>8. QED
  BY <1>2, <1>6, <1>7, FInvParts DEF ChainOpen

LEMMA MovesGrow ==
    ASSUME TypeOK, LogMoves
    PROVE  /\ Len(archive') \in Nat /\ Len(archive) <= Len(archive') /\ nextSha <= nextSha'
<1>1. archive \in Seq(File) /\ nextSha \in Nat
  BY DEF TypeOK
<1>2. Len(archive) \in Nat
  BY <1>1
<1>3. archive' = archive \/ archive' = Append(archive, log)
  BY Zenon DEF LogMoves
<1>4. nextSha' \in {nextSha, nextSha + 1}
  BY DEF LogMoves
<1>5. archive' = Append(archive, log) => Len(archive') = Len(archive) + 1
  BY <1>1
<1>6. QED
  BY <1>1, <1>2, <1>3, <1>4, <1>5

CursorType == [first : Nat, line : Nat, last : Nat]
StartType == [log : 0 .. Len(archive), line : Nat, lost : BOOLEAN]

\* What holds of what a run has, taken apart.
LEMMA RunIs ==
    ASSUME FInv
    PROVE  /\ cursor \in CursorType /\ cursor.last < nextSha
           /\ fpc \in {"idle", "locate", "read", "send", "save"}
           /\ chain \subseteq 0 .. Len(archive)
           /\ fpc \in {"locate", "read"} => Active \in chain
           /\ start \in StartType
           /\ \A b \in batch : b \in PendingLine /\ b.sha \in Nat \ {0} /\ b.sha < nextSha
           /\ sent \subseteq 1 .. nextSha - 1 /\ sendErrors \in 0 .. MaxSendErrors
BY FInvParts DEF FTypeOK, ShasOld, ChainOpen, PendingLine, CursorType, StartType

\* A step of a run keeps the types if what it leaves has them.
LEMMA RunTyped ==
    ASSUME FInv, UNCHANGED vars,
           cursor' \in CursorType, cursor'.last < nextSha,
           fpc' \in {"idle", "locate", "read", "send", "save"},
           chain' \subseteq 0 .. Len(archive),
           fpc' \in {"locate", "read"} => Active \in chain',
           start' \in StartType,
           \A b \in batch' : b \in PendingLine /\ b.sha < nextSha,
           sent' \subseteq 1 .. nextSha - 1, sendErrors' \in 0 .. MaxSendErrors
    PROVE  FInv'
<1>1. LogInv' /\ TypeOK' /\ archive' = archive /\ nextSha' = nextSha
  <2>1. LogInv'
    BY LogKeeps, FInvParts
  <2>2. QED
    BY <2>1, Zenon DEF LogInv, IInv, vars
<1>2. PendingLine' = PendingLine
  BY <1>1, Zenon DEF PendingLine
<1>3. FTypeOK'
  BY <1>1, <1>2 DEF FTypeOK, CursorType, StartType
<1>4. ShasOld' /\ ChainOpen'
  BY <1>1 DEF ShasOld, ChainOpen
<1>5. QED
  BY <1>1, <1>3, <1>4 DEF FInv

LEMMA NothingLeft ==
    ASSUME TypeOK
    PROVE  NoStart \in StartType /\ NoCursor \in CursorType /\ NoCursor.last = 0
BY PresentPaths DEF NoStart, NoCursor, NoSha, Active, StartType, CursorType

LEMMA StartTyped ==
    ASSUME FInv, ForwardStart
    PROVE  FInv'
<1>1. /\ fpc' = "locate" /\ UNCHANGED <<vars, cursor, start, batch, sent, sendErrors>>
      /\ \E paths \in SUBSET (0 .. Len(archive)) : IsChain(paths) /\ chain' = paths
  BY Zenon DEF ForwardStart
<1>2. UNCHANGED vars
  BY <1>1
<1>3. chain' \subseteq 0 .. Len(archive) /\ Active \in chain'
  BY <1>1 DEF IsChain
<1>4. QED
  BY <1>1, <1>2, <1>3, RunIs, RunTyped

\* Where reading starts.
LEMMA LocateIs ==
    ASSUME FInv, ForwardLocate
    PROVE  /\ UNCHANGED <<vars, cursor, chain, batch, sent, sendErrors>>
           /\ fpc = "locate" /\ fpc' = "read"
           /\ \E at \in chain :
                 \/ /\ \A path \in chain : ~Older(path, at)
                    /\ \E lost \in BOOLEAN : start' = [log |-> at, line |-> 0, lost |-> lost]
                 \/ /\ Holds(FileAt(at))
                    /\ start' = [log |-> at, line |-> cursor.line, lost |-> FALSE]
<1>1. /\ UNCHANGED <<vars, cursor, chain, batch, sent, sendErrors>>
      /\ fpc = "locate" /\ fpc' = "read"
  BY Zenon DEF ForwardLocate
<1>2. chain \in SUBSET Nat /\ chain # {}
  BY <1>1, RunIs
<1>3. CASE cursor.first # NoSha /\ Same # {} /\ Holds(FileAt(Oldest(Same)))
  <2>1. start' = [log |-> Oldest(Same), line |-> cursor.line, lost |-> FALSE]
    BY <1>3 DEF ForwardLocate
  <2>2. Oldest(Same) \in Same
    BY <1>2, <1>3, OldestIs DEF Same
  <2>3. Oldest(Same) \in chain
    BY <2>2 DEF Same
  <2>4. QED
    BY <1>1, <1>3, <2>1, <2>3, Zenon
<1>4. CASE ~(cursor.first # NoSha /\ Same # {} /\ Holds(FileAt(Oldest(Same))))
  <2> DEFINE lost == cursor.first # NoSha
  <2>1. start' = [log |-> Oldest(chain), line |-> 0, lost |-> lost]
    BY <1>4 DEF ForwardLocate
  <2>2. lost \in BOOLEAN
    BY Zenon
  <2>3. Oldest(chain) \in chain /\ \A path \in chain : ~Older(path, Oldest(chain))
    BY <1>2, OldestIs
  <2> HIDE DEF lost
  <2>4. QED
    BY <1>1, <2>1, <2>2, <2>3, Zenon
<1>5. QED
  BY <1>3, <1>4

LEMMA LocateTyped ==
    ASSUME FInv, ForwardLocate
    PROVE  FInv'
<1>1. UNCHANGED vars /\ UNCHANGED <<cursor, chain, batch, sent, sendErrors>>
      /\ fpc = "locate" /\ fpc' = "read"
  BY LocateIs
<1>2. cursor.line \in Nat
  BY RunIs DEF CursorType
<1>3. start' \in StartType
  <2>1. PICK at \in chain :
           \/ \E lost \in BOOLEAN : start' = [log |-> at, line |-> 0, lost |-> lost]
           \/ start' = [log |-> at, line |-> cursor.line, lost |-> FALSE]
    BY LocateIs, Zenon
  <2>2. at \in 0 .. Len(archive)
    BY RunIs
  <2>3. /\ \A lost \in BOOLEAN : [log |-> at, line |-> 0, lost |-> lost] \in StartType
        /\ [log |-> at, line |-> cursor.line, lost |-> FALSE] \in StartType
    BY <1>2, <2>2 DEF StartType
  <2>4. QED
    BY <2>1, <2>3, Zenon
<1>4. QED
  BY <1>1, <1>3, RunIs, RunTyped

LEMMA ReadIs ==
    ASSUME ForwardRead
    PROVE  /\ UNCHANGED <<vars, cursor, sent, sendErrors>>
           /\ fpc = "read" /\ fpc' \in {"idle", "send"} /\ chain' = {} /\ start' = NoStart
           /\ Initial(batch', AllPending)
<1>1. /\ UNCHANGED <<vars, cursor, sent, sendErrors>>
      /\ fpc = "read" /\ chain' = {} /\ start' = NoStart
      /\ Initial(batch', AllPending)
  BY Zenon DEF ForwardRead
<1>2. fpc' \in {"idle", "send"}
  BY DEF ForwardRead
<1>3. QED
  BY <1>1, <1>2

LEMMA ReadTyped ==
    ASSUME FInv, ForwardRead
    PROVE  FInv'
<1>1. UNCHANGED vars /\ UNCHANGED <<cursor, sent, sendErrors>> /\ chain' = {}
      /\ start' = NoStart /\ fpc' \in {"idle", "send"}
  BY ReadIs
<1>2. \A b \in batch' : b \in PendingLine /\ b.sha < nextSha
  <2>1. batch' \subseteq AllPending
    BY ReadIs, Zenon DEF Initial
  <2>2. QED
    BY <2>1, FInvParts, RunIs, PendingTyped
<1>3. NoStart \in StartType
  BY FInvParts, NothingLeft
<1>4. QED
  BY <1>1, <1>2, <1>3, RunIs, RunTyped

LEMMA SentTyped ==
    ASSUME FInv, NEW some \in SUBSET batch
    PROVE  sent \cup Shas(some) \subseteq 1 .. nextSha - 1
<1>1. \A b \in some : b.sha \in 1 .. nextSha - 1
  BY RunIs, FInvParts
<1>2. QED
  BY <1>1, RunIs DEF Shas

LEMMA SendTyped ==
    ASSUME FInv, ForwardSend
    PROVE  FInv'
<1>1. UNCHANGED vars /\ UNCHANGED <<cursor, chain, start, batch, sendErrors>>
      /\ fpc' = "save" /\ sent' = sent \cup Shas(batch)
  BY Zenon DEF ForwardSend
<1>2. sent' \subseteq 1 .. nextSha - 1
  BY <1>1, SentTyped
<1>3. QED
  BY <1>1, <1>2, RunIs, RunTyped

LEMMA SendFailsIs ==
    ASSUME FInv, ForwardSendFails
    PROVE  /\ UNCHANGED vars /\ UNCHANGED <<cursor, chain, start>>
           /\ fpc' = "idle" /\ batch' = {} /\ sendErrors' \in 0 .. MaxSendErrors
           /\ sent \subseteq sent' /\ sent' \subseteq 1 .. nextSha - 1
<1>1. /\ UNCHANGED vars /\ UNCHANGED <<cursor, chain, start>>
      /\ fpc' = "idle" /\ batch' = {}
      /\ \E some \in SUBSET batch : sent' = sent \cup Shas(some)
  BY Zenon DEF ForwardSendFails
<1>2. sendErrors' \in 0 .. MaxSendErrors
  BY RunIs, ForwardAssumption DEF ForwardSendFails
<1>3. QED
  BY <1>1, <1>2, SentTyped

LEMMA SendFailsTyped ==
    ASSUME FInv, ForwardSendFails
    PROVE  FInv'
BY SendFailsIs, RunIs, RunTyped

\* What the cursor becomes.
LEMMA SaveIs ==
    ASSUME ForwardSave
    PROVE  /\ UNCHANGED vars /\ UNCHANGED <<chain, start, sent, sendErrors>>
           /\ fpc = "save" /\ fpc' = "idle" /\ batch' = {}
           /\ \/ cursor' = NoCursor
              \/ \E last \in batch :
                    cursor' = [first |-> FirstSha(FileAt(last.path)),
                               line |-> last.line, last |-> last.sha]
BY Zenon DEF ForwardSave

LEMMA SaveTyped ==
    ASSUME FInv, ForwardSave
    PROVE  FInv'
<1>1. UNCHANGED vars /\ UNCHANGED <<chain, start, sent, sendErrors>>
      /\ fpc = "save" /\ fpc' = "idle" /\ batch' = {}
  BY SaveIs
<1>2. cursor' \in CursorType /\ cursor'.last < nextSha
  <2>1. CASE cursor' = NoCursor
    BY <2>1, FInvParts, NothingLeft
  <2>2. ASSUME NEW last \in batch,
               cursor' = [first |-> FirstSha(FileAt(last.path)),
                          line |-> last.line, last |-> last.sha]
        PROVE  cursor' \in CursorType /\ cursor'.last < nextSha
    <3>1. FirstSha(FileAt(last.path)) \in Nat
      BY FInvParts, FileAtType, FirstShaType
    <3>2. last.line \in Nat /\ last.sha \in Nat /\ last.sha < nextSha
      BY RunIs DEF PendingLine
    <3>3. QED
      BY <2>2, <3>1, <3>2 DEF CursorType
  <2>3. QED
    BY <2>1, <2>2, SaveIs
<1>3. QED
  BY <1>1, <1>2, RunIs, RunTyped

LEMMA SaveFailsTyped ==
    ASSUME FInv, ForwardSaveFails
    PROVE  FInv'
<1>1. UNCHANGED vars /\ UNCHANGED <<cursor, chain, start, sent, sendErrors>>
      /\ fpc' = "idle" /\ batch' = {}
  BY Zenon DEF ForwardSaveFails
<1>2. QED
  BY <1>1, RunIs, RunTyped

LEMMA CrashTyped ==
    ASSUME FInv, ForwardCrash
    PROVE  FInv'
<1>1. /\ OnlyCrashes /\ UNCHANGED <<cursor, sent, sendErrors>>
      /\ fpc' = "idle" /\ chain' = {} /\ start' = NoStart /\ batch' = {}
  BY ForwardCrashIs
<1>2. LogInv' /\ TypeOK' /\ archive' = archive /\ nextSha' = nextSha
  <2>1. LogInv'
    BY <1>1, CrashKeeps, FInvParts
  <2>2. QED
    BY <1>1, <2>1, Zenon DEF LogInv, IInv, OnlyCrashes
<1>3. NoStart \in StartType
  BY FInvParts, NothingLeft
<1>4. FTypeOK'
  BY <1>1, <1>2, <1>3, RunIs DEF FTypeOK, StartType, CursorType
<1>5. ShasOld' /\ ChainOpen'
  BY <1>1, <1>2, RunIs DEF ShasOld, ChainOpen
<1>6. QED
  BY <1>2, <1>4, <1>5 DEF FInv

LEMMA FInvStep ==
    ASSUME FInv, [FNext]_forwardingVars
    PROVE  FInv'
<1>1. ASSUME [LogNext]_vars, UNCHANGED forwardVars
      PROVE  FInv'
  <2>1. LogInv'
    BY <1>1, LogKeeps, FInvParts
  <2>2. LogMoves
    BY <1>1, LogStep, FInvParts
  <2>3. FTypeOK' /\ ShasOld' /\ ChainOpen'
    BY <1>1, <2>1, <2>2, MovesGrow, LogTyped, FInvParts
  <2>4. QED
    BY <2>1, <2>3 DEF FInv
<1>2. CASE UNCHANGED forwardingVars
  BY <1>1, <1>2, Zenon DEF forwardingVars
<1>3. CASE ForwardRun
  <2>1. \/ ForwardStart \/ ForwardLocate \/ ForwardRead \/ ForwardSend
        \/ ForwardSendFails \/ ForwardSave \/ ForwardSaveFails
    BY <1>3, Zenon DEF ForwardRun, ForwardSteps
  <2>2. QED
    BY <2>1, StartTyped, LocateTyped, ReadTyped, SendTyped, SendFailsTyped, SaveTyped,
       SaveFailsTyped
<1>4. CASE LogRuns
  BY <1>1, <1>4, LogRunIsLogNext, Zenon
<1>5. CASE ForwardCrash
  BY <1>5, CrashTyped
<1>6. QED
  BY <1>2, <1>3, <1>4, <1>5, Zenon DEF FNext

\* Whatever is appended, rotated or killed while a run goes on, the cursor, the
\* position a run starts from and the lines it sends are such as pending() and
\* _forward_locked can make of the files (audit_forward.py:410, :501), and only
\* hashes of records that were written are sent.
THEOREM ForwardTypeCorrect == FSpec => []FTypeOK
<1>1. FInit => FInv
  BY ForwardInit
<1>2. FInv /\ [FNext]_forwardingVars => FInv'
  BY FInvStep
<1>3. FInv => FTypeOK
  BY FInvParts
<1>4. QED
  BY <1>1, <1>2, <1>3, PTL DEF FSpec

--------------------------------------------------------------------------------
(* Forwarding: what the cursor has passed *)

\* The next record's line is the only one an append makes due.
LEMMA DueLonger ==
    ASSUME TypeOK,
           \/ log'.lines = log.lines
           \/ log'.lines = Append(log.lines, Cut)
           \/ \E line \in Line : line.sha = nextSha /\ log'.lines = Append(log.lines, line)
    PROVE  /\ Len(log.lines) <= Len(log'.lines)
           /\ \A i \in Due(Active)' :
                 \/ i \in Due(Active) /\ log'.lines[i] = log.lines[i]
                 \/ i = Len(log.lines) + 1 /\ log'.lines[i].sha = nextSha
<1>1. log.lines \in Seq(Line) /\ Len(log.lines) \in Nat
  BY DEF TypeOK, File
<1>2. /\ Due(Active)' = {i \in DOMAIN log'.lines : Readable(log'.lines[i])}
      /\ Due(Active) = {i \in DOMAIN log.lines : Readable(log.lines[i])}
  BY DEF Due
<1>3. CASE log'.lines = log.lines
  BY <1>1, <1>2, <1>3
<1>4. ASSUME NEW line, log'.lines = Append(log.lines, line),
             Readable(line) => line.sha = nextSha
      PROVE  /\ Len(log.lines) <= Len(log'.lines)
             /\ \A i \in Due(Active)' :
                   \/ i \in Due(Active) /\ log'.lines[i] = log.lines[i]
                   \/ i = Len(log.lines) + 1 /\ log'.lines[i].sha = nextSha
  <2>1. /\ Len(log'.lines) = Len(log.lines) + 1
        /\ DOMAIN log'.lines = DOMAIN log.lines \cup {Len(log.lines) + 1}
        /\ \A i \in DOMAIN log.lines : log'.lines[i] = log.lines[i]
        /\ log'.lines[Len(log.lines) + 1] = line
    BY <1>1, <1>4
  <2>2. Len(log.lines) <= Len(log'.lines)
    BY <1>1, <2>1
  <2>3. QED
    BY <1>2, <1>4, <2>1, <2>2
<1>5. ~Readable(Cut)
  BY DEF Cut, Readable
<1>6. QED
  BY <1>3, <1>4, <1>5

\* Archives read the same while none is made.
LEMMA SameArchives ==
    ASSUME UNCHANGED <<archive, gone>>
    PROVE  /\ Present' = Present
           /\ \A path : path # Active =>
                 /\ FileAt(path)' = FileAt(path) /\ Due(path)' = Due(path)
<1>1. Present' = Present
  BY DEF Present
<1>2. ASSUME NEW path, path # Active
      PROVE  FileAt(path)' = FileAt(path) /\ Due(path)' = Due(path)
  <2>1. FileAt(path)' = FileAt(path)
    BY <1>2 DEF FileAt, Exists
  <2>2. Due(path) = Complete(FileAt(path)) /\ Due(path)' = Complete(FileAt(path)')
    BY <1>2, Zenon DEF Due, Complete
  <2>3. QED
    BY <2>1, <2>2
<1>3. QED
  BY <1>1, <1>2, Zenon

LEMMA HeldIs ==
    /\ \A path \in Present : \A i \in Due(path) : ShaAt(path, i) \in Held
    /\ \A r \in Held : \E path \in Present : \E i \in Due(path) : r = ShaAt(path, i)
BY DEF Held

LEMMA HeldIsNext ==
    \A r \in Held' : \E path \in Present' : \E i \in Due(path)' : r = FileAt(path)'.lines[i].sha
BY DEF Held, ShaAt

LEMMA FirstKept ==
    ASSUME TypeOK, TypeOK', LogMoves, UNCHANGED archive
    PROVE  /\ Complete(log) \subseteq Complete(log')
           /\ Complete(log) # {} => FirstSha(log') = FirstSha(log)
           /\ \A i \in Complete(log) : log'.lines[i] = log.lines[i]
<1>1. /\ log \in File /\ log.lines \in Seq(Line) /\ Len(log.lines) \in Nat
      /\ log' \in File /\ log'.lines \in Seq(Line) /\ Len(log'.lines) \in Nat
  <2>1. log \in File /\ log' \in File
    BY DEF TypeOK
  <2>2. \A file \in File : file.lines \in Seq(Line) /\ Len(file.lines) \in Nat
    BY DEF File
  <2>3. QED
    BY <2>1, <2>2
<1>2. /\ \A i \in 1 .. Len(log.lines) : log'.lines[i] = log.lines[i]
      /\ \/ Len(log'.lines) = Len(log.lines) /\ (log'.mid => log.mid)
         \/ Len(log'.lines) = Len(log.lines) + 1
  <2>1. archive # Append(archive, log)
    BY DEF TypeOK
  <2>2. \/ log'.lines = log.lines /\ (log'.mid => log.mid)
        \/ \E line : log'.lines = Append(log.lines, line)
    BY <2>1, Zenon DEF LogMoves
  <2>3. QED
    BY <1>1, <2>2
<1>3. ASSUME NEW i \in 1 .. Len(log.lines)
      PROVE  /\ i \in Complete(log) => i \in Complete(log')
             /\ i \in Complete(log') /\ i # Len(log.lines) => i \in Complete(log)
  <2>1. i \in DOMAIN log.lines /\ i \in DOMAIN log'.lines /\ log'.lines[i] = log.lines[i]
    BY <1>1, <1>2
  <2>2. i = Len(log'.lines) => i = Len(log.lines) /\ (log'.mid => log.mid)
    BY <1>1, <1>2
  <2>3. QED
    BY <2>1, <2>2, Zenon DEF Complete
<1>4. Complete(log) \subseteq 1 .. Len(log.lines) /\ Complete(log') \subseteq 1 .. Len(log'.lines)
  BY <1>1, CompleteLines
<1>5. Complete(log) \subseteq Complete(log') /\ \A i \in Complete(log) : log'.lines[i] = log.lines[i]
  BY <1>2, <1>3, <1>4
<1>6. ASSUME Complete(log) # {}
      PROVE  FirstSha(log') = FirstSha(log)
  <2>1. PICK i \in Complete(log) : /\ \A k \in Complete(log) : i <= k
                                   /\ FirstRecord(log) = log.lines[i]
    BY <1>1, <1>6, FirstIs
  <2>2. PICK j \in Complete(log') : /\ \A k \in Complete(log') : j <= k
                                    /\ FirstRecord(log') = log'.lines[j]
    BY <1>1, <1>5, <1>6, FirstIs
  <2>3. j <= i /\ i \in 1 .. Len(log.lines) /\ j \in 1 .. Len(log'.lines)
    BY <1>4, <1>5, <2>1, <2>2
  <2>4. j = i
    <3>1. CASE j = i
      BY <3>1
    <3>2. CASE j # i
      <4>1. j \in 1 .. Len(log.lines) /\ j # Len(log.lines) /\ ~(i <= j)
        BY <1>1, <2>3, <3>2
      <4>2. j \in Complete(log)
        BY <1>3, <2>2, <4>1
      <4>3. QED
        BY <2>1, <4>1, <4>2
    <3>3. QED
      BY <3>1, <3>2
  <2>5. FirstRecord(log') = FirstRecord(log)
    BY <1>5, <2>1, <2>2, <2>4
  <2>6. Complete(log') # {}
    BY <2>2
  <2>7. QED
    BY <1>6, <2>5, <2>6, Zenon DEF FirstSha
<1>7. QED
  BY <1>5, <1>6

\* What becomes of the place of a record that is in the log: q is where it was.
Stays(path, i, q) ==
    /\ i \in Due(q) /\ ShaAt(q, i) = FileAt(path)'.lines[i].sha
    /\ i \in Complete(FileAt(q)) =>
          i \in Complete(FileAt(path)') /\ FirstSha(FileAt(path)') = FirstSha(FileAt(q))

\* Beside an append a record stays where it is.
LEMMA DueBeside ==
    ASSUME TypeOK, TypeOK', LogMoves, UNCHANGED <<archive, gone>>,
           NEW path \in Present, NEW i \in Due(path)', FileAt(path)'.lines[i].sha # nextSha
    PROVE  Stays(path, i, path)
<1>1. FileAt(Active)' = log' /\ FileAt(Active) = log
  BY DEF FileAt
<1>2. CASE path = Active
  <2>1. \/ log'.lines = log.lines
        \/ log'.lines = Append(log.lines, Cut)
        \/ \E line \in Line : line.sha = nextSha /\ log'.lines = Append(log.lines, line)
    <3>1. archive # Append(archive, log)
      BY DEF TypeOK
    <3>2. QED
      BY <3>1, Zenon DEF LogMoves
  <2>2. i \in Due(Active)' /\ log'.lines[i].sha # nextSha
    BY <1>1, <1>2
  <2>3. i \in Due(Active) /\ log'.lines[i] = log.lines[i]
    BY <2>1, <2>2, DueLonger
  <2>4. i \in Complete(log) => i \in Complete(log') /\ FirstSha(log') = FirstSha(log)
    BY FirstKept
  <2>5. QED
    BY <1>1, <1>2, <2>3, <2>4 DEF Stays, ShaAt
<1>3. CASE path # Active
  <2>1. FileAt(path)' = FileAt(path) /\ Due(path)' = Due(path)
    BY <1>3, SameArchives
  <2>2. i \in Complete(FileAt(path))
    BY <1>3, <2>1, Zenon DEF Due
  <2>3. QED
    BY <2>1, <2>2 DEF Stays, ShaAt
<1>4. QED
  BY <1>2, <1>3

\* Nor does a rotation lose it: it goes where its log goes.
LEMMA DueStep ==
    ASSUME TypeOK, TypeOK', LogMoves, NEW path \in Present', NEW i \in Due(path)',
           FileAt(path)'.lines[i].sha # nextSha
    PROVE  \E q \in Present : Stays(path, i, q)
<1>1. log \in File /\ archive \in Seq(File) /\ Len(archive) \in Nat /\ gone \in Nat
      /\ gone <= Len(archive)
  BY DEF TypeOK
<1>2. FileAt(Active)' = log' /\ FileAt(Active) = log
  BY DEF FileAt
<1>3. CASE UNCHANGED <<archive, gone>>
  <2>1. path \in Present
    BY <1>3, SameArchives
  <2>2. Stays(path, i, path)
    BY <1>3, <2>1, DueBeside
  <2>3. QED
    BY <2>1, <2>2
<1>4. ASSUME archive' = Append(archive, log), log' = EmptyFile, gone' \in gone .. Len(archive)
      PROVE  \E q \in Present : Stays(path, i, q)
  <2>1. /\ Len(archive') = Len(archive) + 1
        /\ \A n \in 1 .. Len(archive) : archive'[n] = archive[n]
        /\ archive'[Len(archive) + 1] = log
    BY <1>1, <1>4
  <2>2. path # Active
    <3>1. Due(Active)' = {k \in DOMAIN log'.lines : Readable(log'.lines[k])}
      BY DEF Due
    <3>2. Due(Active)' = {}
      BY <1>4, <3>1 DEF EmptyFile
    <3>3. QED
      BY <3>2
  <2>3. path \in gone' + 1 .. Len(archive')
    BY <2>2 DEF Present
  <2>4. FileAt(path)' = archive'[path] /\ i \in Complete(archive'[path])
    <3>1. FileAt(path)' = archive'[path]
      BY <2>2, <2>3 DEF FileAt, Exists
    <3>2. Due(path)' = Complete(FileAt(path)')
      BY <2>2, Zenon DEF Due, Complete
    <3>3. QED
      BY <3>1, <3>2
  <2>5. CASE path = Len(archive) + 1
    <3>1. i \in Complete(log) /\ FileAt(path)' = log
      BY <2>1, <2>4, <2>5
    <3>2. i \in Due(Active)
      BY <1>2, <3>1, CompleteDue
    <3>3. Stays(path, i, Active)
      BY <1>2, <3>1, <3>2 DEF Stays, ShaAt
    <3>4. QED
      BY <3>3 DEF Present
  <2>6. CASE path # Len(archive) + 1
    <3>1. path \in gone + 1 .. Len(archive) /\ path \in 1 .. Len(archive)
      <4>1. gone' \in Nat /\ gone <= gone'
        BY <1>1, <1>4
      <4>2. \A g, h, n \in Nat : \A k \in h + 1 .. n + 1 :
               g <= h /\ k # n + 1 => k \in g + 1 .. n /\ k \in 1 .. n
        OBVIOUS
      <4>3. Len(archive) \in Nat /\ gone \in Nat /\ path \in gone' + 1 .. Len(archive) + 1
        BY <1>1, <2>1, <2>3, Zenon
      <4>4. QED
        BY <2>6, <4>1, <4>2, <4>3, Zenon
    <3>2. path \in Present /\ FileAt(path) = archive[path]
      BY <2>2, <3>1 DEF Present, FileAt, Exists
    <3>3. i \in Complete(FileAt(path)) /\ FileAt(path)' = FileAt(path)
      BY <2>1, <2>4, <3>1, <3>2
    <3>4. i \in Due(path)
      BY <3>3, CompleteDue
    <3>5. Stays(path, i, path)
      BY <3>3, <3>4 DEF Stays, ShaAt
    <3>6. QED
      BY <3>2, <3>5
  <2>7. QED
    BY <2>5, <2>6
<1>5. QED
  BY <1>3, <1>4, Zenon DEF LogMoves

\* No step but the writing of a record makes more of them to send.
LEMMA HeldStep ==
    ASSUME TypeOK, TypeOK', LogMoves
    PROVE  Held' \subseteq Held \cup {nextSha}
<1> SUFFICES ASSUME NEW r \in Held', r # nextSha
             PROVE  r \in Held
  OBVIOUS
<1>1. PICK path \in Present' : \E i \in Due(path)' : r = FileAt(path)'.lines[i].sha
  BY HeldIsNext
<1>2. PICK i \in Due(path)' : r = FileAt(path)'.lines[i].sha
  BY <1>1
<1>3. PICK q \in Present : Stays(path, i, q)
  BY <1>2, DueStep
<1>4. QED
  BY <1>2, <1>3, HeldIs DEF Stays

--------------------------------------------------------------------------------
(* Forwarding: the steps of a run *)

SafeInv == NoRotation /\ RunSafe

LEMMA CutShortStays ==
    ASSUME TypeOK, LogNext, cutShort
    PROVE  cutShort'
BY Zenon DEF LogNext, StartAppend, AppendOK, AppendFails, NoteFailure, Rotate, WriteMarker,
             MarkerFails, Ends

\* Beside a run, records are appended and no more.
LEMMA QuietRun ==
    ASSUME TypeOK, NoRotation, ~RotateInRun, LogRuns, fpc # "idle"
    PROVE  UNCHANGED <<archive, gone>> /\ \A p \in Proc : pc'[p] # "marker"
<1>1. PICK p \in Proc :
         \/ StartAppend(p, NoGap) \/ AppendSteps(p) \/ Crash(p)
         \/ (RotateInRun \/ fpc = "idle") /\ RotateSteps(p)
  BY Zenon DEF LogRuns
<1>2. StartAppend(p, NoGap) \/ AppendOK(p) \/ AppendFails(p) \/ NoteFailure(p) \/ Crash(p)
  BY <1>1, Zenon DEF AppendSteps
<1>3. UNCHANGED <<archive, gone>>
  BY <1>2, Zenon DEF StartAppend, AppendOK, AppendFails, NoteFailure, Crash
<1>4. \E label \in {"idle", "write", "failed"} : pc' = [pc EXCEPT ![p] = label]
  BY <1>2, Zenon DEF StartAppend, AppendOK, AppendFails, NoteFailure, Crash, Release
<1>5. \A q \in Proc : pc'[q] = pc[q] \/ pc'[q] \in {"idle", "write", "failed"}
  BY <1>4 DEF TypeOK
<1>6. QED
  BY <1>3, <1>5 DEF NoRotation

\* An append beside a run leaves what the run relies on.
LEMMA RunBesideAppend ==
    ASSUME FInv, TypeOK', LogMoves, UNCHANGED forwardVars, UNCHANGED <<archive, gone>>,
           CursorSafe, ChainWhole, StartSafe, BatchSafe
    PROVE  CursorSafe' /\ ChainWhole' /\ StartSafe' /\ BatchSafe'
<1>1. UNCHANGED <<cursor, fpc, chain, start, batch, sent>>
  BY DEF forwardVars
<1>2. Held' \subseteq Held \cup {nextSha} /\ nextSha \in Nat
  BY HeldStep, FInvParts
<1>3. cursor.last \in Nat /\ cursor.last < nextSha
      /\ \A b \in batch : b.sha \in Nat /\ b.sha < nextSha
  BY RunIs DEF CursorType
<1>4. CursorSafe'
  BY <1>1, <1>2, <1>3 DEF CursorSafe
<1>5. BatchSafe'
  BY <1>1, <1>2, <1>3 DEF BatchSafe
<1>6. /\ Present' = Present
      /\ \A path : path # Active =>
            /\ FileAt(path)' = FileAt(path) /\ Due(path)' = Due(path)
  BY SameArchives
<1>7. ChainWhole'
  BY <1>1, <1>6 DEF ChainWhole
<1>8. /\ Len(log.lines) <= Len(log'.lines)
      /\ \A i \in Due(Active)' :
            \/ i \in Due(Active) /\ log'.lines[i] = log.lines[i]
            \/ i = Len(log.lines) + 1 /\ log'.lines[i].sha = nextSha
  <2>1. archive # Append(archive, log)
    BY FInvParts DEF TypeOK
  <2>2. \/ log'.lines = log.lines
        \/ log'.lines = Append(log.lines, Cut)
        \/ \E line \in Line : line.sha = nextSha /\ log'.lines = Append(log.lines, line)
    BY <2>1, Zenon DEF LogMoves
  <2>3. QED
    BY <2>2, DueLonger, FInvParts
<1>9. FileAt(Active)' = log' /\ FileAt(Active) = log /\ Len(log.lines) \in Nat
      /\ Len(log'.lines) \in Nat /\ start.line \in Nat
  <2>1. log'.lines \in Seq(Line)
    <3>1. log.lines \in Seq(Line) /\ Cut \in Line
      BY FInvParts DEF TypeOK, File, Cut, Line, NoGap, NoSha
    <3>2. archive # Append(archive, log)
      BY FInvParts DEF TypeOK
    <3>3. QED
      BY <3>1, <3>2 DEF LogMoves
  <2>2. log \in File
    BY FInvParts, Zenon DEF TypeOK
  <2>3. Len(log.lines) \in Nat /\ start.line \in Nat
    BY <2>2, RunIs DEF File, StartType
  <2>4. QED
    BY <2>1, <2>3 DEF FileAt
<1>10. ASSUME fpc = "read", NEW at, at = start.log
       PROVE  /\ at \in Present'
              /\ start.line <= Len(FileAt(at)'.lines)
              /\ \A path \in Present' : Older(path, at) =>
                    \A i \in Due(path)' : FileAt(path)'.lines[i].sha \in sent
              /\ \A i \in Due(at)' : i <= start.line =>
                    FileAt(at)'.lines[i].sha \in sent
  <2>1. /\ at \in Present
        /\ start.line <= Len(FileAt(at).lines)
        /\ \A path \in Present : Older(path, at) =>
              \A i \in Due(path) : FileAt(path).lines[i].sha \in sent
        /\ \A i \in Due(at) : i <= start.line => FileAt(at).lines[i].sha \in sent
    BY <1>10, Zenon DEF StartSafe, ShaAt
  <2>2. \A path \in Present' : Older(path, at) =>
           \A i \in Due(path)' : FileAt(path)'.lines[i].sha \in sent
    BY <1>6, <2>1 DEF Older
  <2>3. CASE at # Active
    BY <1>6, <2>1, <2>2, <2>3
  <2>4. CASE at = Active
    <3>1. start.line <= Len(log.lines)
      BY <1>9, <2>1, <2>4
    <3>2. start.line <= Len(FileAt(at)'.lines)
      BY <1>8, <1>9, <2>4, <3>1
    <3>3. ASSUME NEW i \in Due(Active)', i <= start.line
          PROVE  log'.lines[i].sha \in sent
      <4>1. i \in Due(Active) /\ log'.lines[i] = log.lines[i]
        BY <1>8, <1>9, <3>1, <3>3
      <4>2. QED
        BY <1>9, <2>1, <2>4, <3>3, <4>1
    <3>4. QED
      BY <1>6, <1>9, <2>1, <2>2, <2>4, <3>2, <3>3
  <2>5. QED
    BY <2>3, <2>4
<1>11. StartSafe'
  <2>1. \A at : at = start.log /\ fpc = "read" =>
           /\ at \in Present'
           /\ start.line <= Len(FileAt(at)'.lines)
           /\ \A path \in Present' : Older(path, at) =>
                 \A i \in Due(path)' : FileAt(path)'.lines[i].sha \in sent
           /\ \A i \in Due(at)' : i <= start.line => FileAt(at)'.lines[i].sha \in sent
    BY <1>10, Zenon
  <2>2. start' = start /\ fpc' = fpc /\ sent' = sent
    BY <1>1
  <2>3. QED
    BY <2>1, <2>2 DEF StartSafe, ShaAt
<1>12. QED
  BY <1>4, <1>5, <1>7, <1>11

LEMMA SafeLogStep ==
    ASSUME FInv, SafeInv, ~RotateInRun, LogRuns
    PROVE  SafeInv'
<1>1. LogNext /\ UNCHANGED forwardVars /\ LogMoves /\ TypeOK'
  <2>1. LogNext /\ UNCHANGED forwardVars /\ LogMoves
    BY LogRunIsLogNext, LogStep, FInvParts, Zenon
  <2>2. LogInv'
    BY <2>1, LogKeeps, FInvParts
  <2>3. QED
    BY <2>1, <2>2, Zenon DEF LogInv, IInv
<1>2. UNCHANGED <<cursor, fpc, chain, start, batch, sent>>
  BY <1>1 DEF forwardVars
<1>3. CASE fpc # "idle"
  <2>1. UNCHANGED <<archive, gone>> /\ \A p \in Proc : pc'[p] # "marker"
    BY <1>3, QuietRun, FInvParts DEF SafeInv
  <2>2. NoRotation'
    BY <2>1 DEF NoRotation
  <2>3. ASSUME ~cutShort'
        PROVE  CursorSafe' /\ ChainWhole' /\ StartSafe' /\ BatchSafe'
    <3>1. ~cutShort
      BY <1>1, <2>3, CutShortStays, FInvParts, Zenon
    <3>2. QED
      BY <1>1, <2>1, <3>1, RunBesideAppend DEF SafeInv, RunSafe
  <2>4. QED
    BY <2>2, <2>3 DEF SafeInv, RunSafe
<1>4. CASE fpc = "idle"
  <2>1. fpc' = "idle"
    BY <1>2, <1>4
  <2>2. NoRotation' /\ ChainWhole' /\ StartSafe' /\ BatchSafe'
    BY <2>1 DEF NoRotation, ChainWhole, StartSafe, BatchSafe
  <2>3. ASSUME ~cutShort'
        PROVE  CursorSafe'
    <3>1. CursorSafe
      BY <1>1, <2>3, CutShortStays, FInvParts, Zenon DEF SafeInv, RunSafe
    <3>2. Held' \subseteq Held \cup {nextSha} /\ nextSha \in Nat
      BY <1>1, HeldStep, FInvParts
    <3>3. cursor.last \in Nat /\ cursor.last < nextSha
      BY RunIs DEF CursorType
    <3>4. QED
      BY <1>2, <3>1, <3>2, <3>3 DEF CursorSafe
  <2>4. QED
    BY <2>2, <2>3 DEF SafeInv, RunSafe
<1>5. QED
  BY <1>3, <1>4

\* What is on disk while the log and the archives stay as they are.
LEMMA FilesSame ==
    ASSUME UNCHANGED <<log, archive, gone, cutShort, pc>>
    PROVE  /\ Present' = Present /\ Held' = Held
           /\ \A path : FileAt(path)' = FileAt(path) /\ Due(path)' = Due(path)
<1>1. Present' = Present
  BY DEF Present
<1>2. ASSUME NEW path
      PROVE  FileAt(path)' = FileAt(path) /\ Due(path)' = Due(path)
  BY DEF FileAt, Due, Exists, Complete
<1>3. Held' = Held
  <2>1. Held' = UNION {{FileAt(path)'.lines[i].sha : i \in Due(path)'} : path \in Present'}
    BY DEF Held, ShaAt
  <2>2. Held = UNION {{FileAt(path).lines[i].sha : i \in Due(path)} : path \in Present}
    BY DEF Held, ShaAt
  <2>3. QED
    BY <1>1, <1>2, <2>1, <2>2
<1>4. QED
  BY <1>1, <1>2, <1>3

LEMMA VarsSame ==
    ASSUME UNCHANGED vars
    PROVE  /\ Present' = Present /\ Held' = Held /\ cutShort' = cutShort /\ pc' = pc
           /\ \A path : FileAt(path)' = FileAt(path) /\ Due(path)' = Due(path)
BY FilesSame, Zenon DEF vars

LEMMA StartIsSafe ==
    ASSUME FInv, SafeInv, \A p \in Proc : pc[p] # "marker", ForwardStart
    PROVE  SafeInv'
<1>1. /\ UNCHANGED vars /\ UNCHANGED <<cursor, sent>> /\ fpc' = "locate"
      /\ \E paths \in SUBSET (0 .. Len(archive)) : IsChain(paths) /\ chain' = paths
  BY Zenon DEF ForwardStart
<1>2. Present' = Present /\ Held' = Held /\ cutShort' = cutShort /\ pc' = pc
  BY <1>1, VarsSame
<1>3. NoRotation'
  BY <1>2 DEF NoRotation
<1>4. StartSafe' /\ BatchSafe'
  BY <1>1 DEF StartSafe, BatchSafe
<1>5. ASSUME ~cutShort
      PROVE  CursorSafe' /\ ChainWhole'
  <2>1. chain' = Present
    BY <1>1, <1>5, ChainIs, FInvParts
  <2>2. CursorSafe
    BY <1>5 DEF SafeInv, RunSafe
  <2>3. QED
    BY <1>1, <1>2, <2>1, <2>2 DEF CursorSafe, ChainWhole
<1>6. QED
  BY <1>2, <1>3, <1>4, <1>5 DEF SafeInv, RunSafe

\* Nothing before the place where reading starts is left to send.
LEMMA LocateIsSafe ==
    ASSUME FInv, SafeInv, ForwardLocate
    PROVE  SafeInv'
<1>1. /\ UNCHANGED vars /\ UNCHANGED <<cursor, chain, sent>>
      /\ fpc = "locate" /\ fpc' = "read"
  BY LocateIs
<1>2. /\ Present' = Present /\ Held' = Held /\ cutShort' = cutShort /\ pc' = pc
      /\ \A path : FileAt(path)' = FileAt(path) /\ Due(path)' = Due(path)
  BY <1>1, VarsSame
<1>3. NoRotation' /\ BatchSafe'
  BY <1>1, <1>2 DEF NoRotation, SafeInv, BatchSafe
<1>4. ASSUME ~cutShort
      PROVE  CursorSafe' /\ ChainWhole' /\ StartSafe'
  <2>1. CursorSafe /\ chain = Present
    BY <1>1, <1>4 DEF SafeInv, RunSafe, ChainWhole
  <2>2. PICK at \in Present :
           \/ /\ \A path \in Present : ~Older(path, at)
              /\ \E lost \in BOOLEAN : start' = [log |-> at, line |-> 0, lost |-> lost]
           \/ /\ Holds(FileAt(at))
              /\ start' = [log |-> at, line |-> cursor.line, lost |-> FALSE]
    BY <2>1, LocateIs, Zenon
  <2>3. FileAt(at) \in File /\ Len(FileAt(at).lines) \in Nat
    BY FileAtType, CompleteLines, FInvParts
  <2>4. start'.log = at
    BY <2>2
  <2>5. /\ start'.line <= Len(FileAt(at).lines)
        /\ \A path \in Present : Older(path, at) =>
              \A i \in Due(path) : ShaAt(path, i) \in sent
        /\ \A i \in Due(at) : i <= start'.line => ShaAt(at, i) \in sent
    <3>1. ASSUME \A path \in Present : ~Older(path, at), start'.line = 0
          PROVE  <2>5!1 /\ <2>5!2 /\ <2>5!3
      <4>1. \A i \in Due(at) : i \in 1 .. Len(FileAt(at).lines)
        BY DueLines, FInvParts
      <4>2. QED
        BY <2>3, <3>1, <4>1
    <3>2. ASSUME Holds(FileAt(at)), start'.line = cursor.line
          PROVE  <2>5!1 /\ <2>5!2 /\ <2>5!3
      <4>1. cursor.line \in Due(at) /\ ShaAt(at, cursor.line) = cursor.last
        BY <3>2, CompleteDue DEF Holds, ShaAt
      <4>2. cursor.line \in 1 .. Len(FileAt(at).lines) /\ cursor.last \in Nat
        BY <4>1, DueLines, FInvParts
      <4>3. ASSUME NEW path \in Present, NEW i \in Due(path),
                   Older(path, at) \/ (path = at /\ i <= cursor.line)
            PROVE  ShaAt(path, i) \in sent
        <5>1. /\ ShaAt(path, i) \in Held /\ ShaAt(path, i) \in Nat
              /\ i \in 1 .. Len(FileAt(path).lines)
          BY HeldIs, DueLines, FInvParts
        <5>2. CASE path = at /\ i = cursor.line
          BY <2>1, <4>1, <4>2, <5>1, <5>2 DEF CursorSafe
        <5>3. CASE Older(path, at) \/ (path = at /\ i < cursor.line)
          <6>1. ShaAt(path, i) < cursor.last
            BY <4>1, <5>3, DueRise, FInvParts
          <6>2. QED
            BY <2>1, <4>2, <5>1, <6>1 DEF CursorSafe
        <5>4. QED
          BY <4>2, <4>3, <5>1, <5>2, <5>3
      <4>4. QED
        BY <2>3, <3>2, <4>2, <4>3
    <3>3. QED
      BY <2>2, <3>1, <3>2
  <2>6. StartSafe'
    BY <1>1, <1>2, <2>4, <2>5 DEF StartSafe, ShaAt
  <2>7. QED
    BY <1>1, <1>2, <2>1, <2>6 DEF CursorSafe, ChainWhole
<1>5. QED
  BY <1>2, <1>3, <1>4 DEF SafeInv, RunSafe

\* A run reads everything up to the last record it keeps that was not sent yet.
LEMMA ReadComplete ==
    ASSUME FInv, StartSafe, chain = Present, fpc = "read",
           NEW some, Initial(some, AllPending),
           NEW b \in some, NEW r \in Held, r <= b.sha
    PROVE  r \in sent \cup Shas(some)
<1>1. PICK path \in Present : \E i \in Due(path) : r = ShaAt(path, i)
  BY HeldIs
<1>2. PICK i \in Due(path) : r = ShaAt(path, i)
  BY <1>1
<1>3. b \in AllPending
  BY Zenon DEF Initial
<1>4. /\ b.path \in Present /\ b.line \in Complete(FileAt(b.path))
      /\ b.sha = ShaAt(b.path, b.line)
  BY <1>3, PendingIs DEF ShaAt
<1>5. b.line \in Due(b.path)
  BY <1>4, CompleteDue
<1>6. /\ path \in Nat /\ b.path \in Nat /\ i \in Nat \ {0} /\ b.line \in Nat
      /\ b.line <= Len(FileAt(b.path).lines) /\ Len(FileAt(b.path).lines) \in Nat
      /\ r \in Nat /\ b.sha \in Nat
  BY <1>1, <1>2, <1>4, <1>5, DueLines, PresentPaths, FInvParts, FileAtType, CompleteLines
<1>7. ASSUME Older(b.path, path) \/ (b.path = path /\ b.line < i)
      PROVE  FALSE
  <2>1. b.sha < r
    BY <1>2, <1>4, <1>5, <1>7, DueRise, FInvParts
  <2>2. QED
    BY <1>6, <2>1
<1>8. CASE path = b.path /\ i = b.line
  BY <1>2, <1>4, <1>8 DEF Shas
<1>9. CASE Older(path, b.path) \/ (path = b.path /\ i < b.line)
  <2>1. i \in Complete(FileAt(path))
    <3>1. CASE path # Active
      BY <1>2, <3>1, Zenon DEF Due
    <3>2. CASE path = Active
      <4>1. b.path = Active /\ i < b.line
        BY <1>9, <3>2 DEF Older
      <4>2. i # Len(log.lines) /\ FileAt(path) = log
        BY <1>6, <3>2, <4>1, PresentPaths, FInvParts
      <4>3. i \in DOMAIN log.lines /\ Readable(log.lines[i])
        BY <1>2, <3>2, Zenon DEF Due
      <4>4. QED
        BY <4>2, <4>3, Zenon DEF Complete
    <3>3. QED
      BY <3>1, <3>2
  <2>2. CASE Older(path, start.log) \/ (path = start.log /\ i <= start.line)
    BY <1>2, <2>2, Zenon DEF StartSafe
  <2>3. CASE ~(Older(path, start.log) \/ (path = start.log /\ i <= start.line))
    <3> DEFINE q == [path |-> path, line |-> i, sha |-> FileAt(path).lines[i].sha]
    <3>1. start.line \in Nat
      BY RunIs DEF StartType
    <3>2. i > IF path = start.log THEN start.line ELSE 0
      BY <1>6, <2>3, <3>1
    <3>3. q \in AllPending
      BY <2>1, <2>3, <3>2, IsPending
    <3>4. q.path = path /\ q.line = i /\ q.sha = r
      BY <1>2 DEF ShaAt
    <3> HIDE DEF q
    <3>5. Before(q, b)
      BY <1>9, <3>4 DEF Before
    <3>6. q \in some
      BY <3>3, <3>5, Zenon DEF Initial
    <3>7. QED
      BY <3>4, <3>6 DEF Shas
  <2>4. QED
    BY <2>2, <2>3
<1>10. QED
  BY <1>6, <1>7, <1>8, <1>9 DEF Older, Active

LEMMA ReadIsSafe ==
    ASSUME FInv, SafeInv, ForwardRead
    PROVE  SafeInv'
<1>1. /\ UNCHANGED vars /\ UNCHANGED <<cursor, sent>>
      /\ fpc = "read" /\ fpc' \in {"idle", "send"} /\ Initial(batch', AllPending)
  BY ReadIs
<1>2. Present' = Present /\ Held' = Held /\ cutShort' = cutShort /\ pc' = pc
  BY <1>1, VarsSame
<1>3. NoRotation' /\ ChainWhole' /\ StartSafe'
  BY <1>1, <1>2 DEF NoRotation, SafeInv, ChainWhole, StartSafe
<1>4. ASSUME ~cutShort
      PROVE  CursorSafe' /\ BatchSafe'
  <2>1. CursorSafe /\ StartSafe /\ chain = Present
    BY <1>1, <1>4 DEF SafeInv, RunSafe, ChainWhole
  <2>2. \A b \in batch', r \in Held : r <= b.sha => r \in sent \cup Shas(batch')
    BY <1>1, <2>1, ReadComplete
  <2>3. QED
    BY <1>1, <1>2, <2>1, <2>2 DEF CursorSafe, BatchSafe
<1>5. QED
  BY <1>2, <1>3, <1>4 DEF SafeInv, RunSafe

LEMMA SendIsSafe ==
    ASSUME FInv, SafeInv, ForwardSend
    PROVE  SafeInv'
<1>1. /\ UNCHANGED vars /\ UNCHANGED <<cursor, batch>>
      /\ fpc = "send" /\ fpc' = "save" /\ sent' = sent \cup Shas(batch)
  BY Zenon DEF ForwardSend
<1>2. Held' = Held /\ cutShort' = cutShort /\ pc' = pc
  BY <1>1, VarsSame
<1>3. NoRotation' /\ ChainWhole' /\ StartSafe'
  BY <1>1, <1>2 DEF NoRotation, SafeInv, ChainWhole, StartSafe
<1>4. ASSUME ~cutShort
      PROVE  CursorSafe' /\ BatchSafe'
  BY <1>1, <1>2, <1>4 DEF CursorSafe, BatchSafe, SafeInv, RunSafe
<1>5. QED
  BY <1>2, <1>3, <1>4 DEF SafeInv, RunSafe

\* A run that ends where the cursor is, having sent some or none.
LEMMA EndIsSafe ==
    ASSUME FInv, SafeInv, UNCHANGED <<log, archive, gone, cutShort, pc>>,
           cursor' = cursor, fpc' = "idle", sent \subseteq sent'
    PROVE  SafeInv'
<1>1. Held' = Held
  BY FilesSame
<1>2. NoRotation' /\ ChainWhole' /\ StartSafe' /\ BatchSafe'
  BY DEF NoRotation, ChainWhole, StartSafe, BatchSafe
<1>3. ASSUME ~cutShort
      PROVE  CursorSafe'
  BY <1>1, <1>3 DEF CursorSafe, SafeInv, RunSafe
<1>4. QED
  BY <1>2, <1>3 DEF SafeInv, RunSafe

\* The cursor moves past what was sent, and to nothing else.
LEMMA SaveIsSafe ==
    ASSUME FInv, SafeInv, ForwardSave
    PROVE  SafeInv'
<1>1. UNCHANGED vars /\ UNCHANGED sent /\ fpc = "save" /\ fpc' = "idle" /\ batch' = {}
  BY SaveIs, Zenon
<1>2. Held' = Held /\ cutShort' = cutShort
  BY <1>1, VarsSame
<1>3. NoRotation' /\ ChainWhole' /\ StartSafe' /\ BatchSafe'
  BY <1>1 DEF NoRotation, ChainWhole, StartSafe, BatchSafe
<1>4. ASSUME ~cutShort
      PROVE  CursorSafe'
  <2>1. CASE cursor' = NoCursor
    <3>1. cursor'.last = 0
      BY <2>1, NothingLeft, FInvParts
    <3>2. \A r \in Held : r \in Nat \ {0}
      BY HeldOld, FInvParts
    <3>3. QED
      BY <1>2, <3>1, <3>2 DEF CursorSafe
  <2>2. ASSUME NEW last \in batch, cursor'.last = last.sha
        PROVE  CursorSafe'
    <3>1. \A r \in Held : r <= last.sha => r \in sent \cup Shas(batch)
      BY <1>1, <1>4 DEF SafeInv, RunSafe, BatchSafe
    <3>2. Shas(batch) \subseteq sent
      BY <1>1, <1>4 DEF SafeInv, RunSafe, BatchSafe
    <3>3. QED
      BY <1>1, <1>2, <2>2, <3>1, <3>2 DEF CursorSafe
  <2>3. QED
    <3>1. \/ cursor' = NoCursor
          \/ \E last \in batch : cursor' = [first |-> FirstSha(FileAt(last.path)),
                                            line |-> last.line, last |-> last.sha]
      BY SaveIs, Zenon
    <3>2. QED
      BY <2>1, <2>2, <3>1
<1>5. QED
  BY <1>2, <1>3, <1>4 DEF SafeInv, RunSafe

LEMMA SafeStep ==
    ASSUME FInv, SafeInv, ~RotateInRun, [FNext]_forwardingVars
    PROVE  SafeInv'
<1>1. CASE UNCHANGED forwardingVars
  <2>1. UNCHANGED vars /\ UNCHANGED <<cursor, fpc, chain, start, batch, sent, sendErrors>>
    BY <1>1 DEF forwardingVars, forwardVars
  <2>2. /\ Present' = Present /\ Held' = Held /\ cutShort' = cutShort /\ pc' = pc
        /\ \A path : FileAt(path)' = FileAt(path) /\ Due(path)' = Due(path)
    BY <2>1, VarsSame
  <2>3. NoRotation' /\ (CursorSafe => CursorSafe') /\ (ChainWhole => ChainWhole')
        /\ (BatchSafe => BatchSafe')
    BY <2>1, <2>2 DEF NoRotation, SafeInv, CursorSafe, ChainWhole, BatchSafe
  <2>4. start' = start /\ fpc' = fpc /\ sent' = sent
    BY <2>1
  <2>5. StartSafe => StartSafe'
    BY <2>2, <2>4 DEF StartSafe, ShaAt
  <2>6. QED
    BY <2>2, <2>3, <2>5 DEF SafeInv, RunSafe
<1>2. CASE ForwardRun
  <2>1. \A p \in Proc : pc[p] # "marker"
    BY <1>2, Zenon DEF ForwardRun
  <2>2. ASSUME ForwardSendFails
        PROVE  SafeInv'
    <3>1. UNCHANGED vars /\ cursor' = cursor /\ fpc' = "idle" /\ sent \subseteq sent'
      BY <2>2, SendFailsIs
    <3>2. QED
      BY <3>1, EndIsSafe DEF vars
  <2>3. ASSUME ForwardSaveFails
        PROVE  SafeInv'
    <3>1. UNCHANGED vars /\ cursor' = cursor /\ fpc' = "idle" /\ sent' = sent
      BY <2>3, Zenon DEF ForwardSaveFails
    <3>2. QED
      BY <3>1, EndIsSafe DEF vars
  <2>4. \/ ForwardStart \/ ForwardLocate \/ ForwardRead \/ ForwardSend
        \/ ForwardSendFails \/ ForwardSave \/ ForwardSaveFails
    BY <1>2, Zenon DEF ForwardRun, ForwardSteps
  <2>5. QED
    BY <2>1, <2>2, <2>3, <2>4, StartIsSafe, LocateIsSafe, ReadIsSafe, SendIsSafe, SaveIsSafe
<1>3. CASE ForwardCrash
  <2>1. /\ UNCHANGED <<log, archive, gone, cutShort, pc>>
        /\ cursor' = cursor /\ fpc' = "idle" /\ sent' = sent
    BY <1>3, ForwardCrashIs DEF OnlyCrashes
  <2>2. QED
    BY <2>1, EndIsSafe
<1>4. CASE LogRuns
  BY <1>4, SafeLogStep
<1>5. QED
  BY <1>1, <1>2, <1>3, <1>4, Zenon DEF FNext

LEMMA SafeStart ==
    ASSUME FInit
    PROVE  SafeInv
<1>1. fpc = "idle" /\ log = EmptyFile /\ archive = <<>> /\ gone = 0
  BY Zenon DEF FInit, Init
<1>2. NoRotation /\ ChainWhole /\ StartSafe /\ BatchSafe
  BY <1>1 DEF NoRotation, ChainWhole, StartSafe, BatchSafe
<1>3. Present = {Active}
  BY <1>1 DEF Present
<1>4. Due(Active) = {}
  BY <1>1 DEF Due, EmptyFile
<1>5. Held = {}
  BY <1>3, <1>4 DEF Held
<1>6. QED
  BY <1>2, <1>5 DEF SafeInv, RunSafe, CursorSafe

\* As long as rotate() waits for a run to end, which the code does not make it do
\* (audit_forward.py:422; the run audit_forward_race shows what comes of it), a
\* record is sent at least once (audit_forward.py:17): wherever a send or a save
\* fails, a process is killed or an archive is deleted, the cursor never passes a
\* record that is still on disk and was not sent, unless a rotation was cut short.
THEOREM NoneUnsent == ~RotateInRun => (FSpec => []SentAtLeastOnceUndisturbed)
<1> SUFFICES ASSUME ~RotateInRun
             PROVE  FSpec => []SentAtLeastOnceUndisturbed
  OBVIOUS
<1>1. FInit => FInv /\ SafeInv
  BY ForwardInit, SafeStart
<1>2. FInv /\ SafeInv /\ [FNext]_forwardingVars => FInv' /\ SafeInv'
  BY FInvStep, SafeStep
<1>3. FInv /\ SafeInv => SentAtLeastOnceUndisturbed
  BY OnDiskHeld, FInvParts
  DEF SafeInv, RunSafe, CursorSafe, SentAtLeastOnceUndisturbed, SentAtLeastOnce
<1>4. QED
  BY <1>1, <1>2, <1>3, PTL DEF FSpec

--------------------------------------------------------------------------------
(* Forwarding: the place is kept *)

\* The cursor's place stays good through every step of the log.
LEMMA CursorPlaceKept ==
    ASSUME TypeOK, TypeOK', LogMoves, cursor' = cursor, cursor.last \in Nat,
           nextSha \in Nat, cursor.last < nextSha, CursorPlace
    PROVE  CursorPlace'
<1>1. ASSUME NEW path \in Present', NEW i \in Due(path)',
             FileAt(path)'.lines[i].sha = cursor.last
      PROVE  /\ i = cursor.line /\ i \in Complete(FileAt(path)')
             /\ FirstSha(FileAt(path)') = cursor.first
  <2>1. PICK q \in Present : Stays(path, i, q)
    <3>1. FileAt(path)'.lines[i].sha # nextSha
      BY <1>1
    <3>2. QED
      BY <3>1, DueStep
  <2>2. i \in Due(q) /\ ShaAt(q, i) = cursor.last
    BY <1>1, <2>1 DEF Stays
  <2>3. i = cursor.line /\ i \in Complete(FileAt(q)) /\ FirstSha(FileAt(q)) = cursor.first
    BY <2>2 DEF CursorPlace
  <2>4. QED
    BY <2>1, <2>3, Zenon DEF Stays
<1>2. \A path \in Present' : \A i \in Due(path)' : ShaAt(path, i)' = cursor'.last =>
         /\ i = cursor'.line /\ i \in Complete(FileAt(path)')
         /\ FirstSha(FileAt(path)') = cursor'.first
  BY <1>1 DEF ShaAt
<1>3. QED
  BY <1>2, Zenon DEF CursorPlace, Complete, FirstSha, FirstRecord

\* Where a run reads and what it sends, beside an append.
LEMMA PlaceBesideAppend ==
    ASSUME FInv, TypeOK', LogMoves, UNCHANGED forwardVars, UNCHANGED <<archive, gone>>,
           StartPlace, BatchPlace
    PROVE  StartPlace' /\ BatchPlace'
<1>1. UNCHANGED <<cursor, fpc, start, batch>>
  BY DEF forwardVars
<1>2. /\ cursor.last \in Nat /\ nextSha \in Nat /\ cursor.last < nextSha
      /\ Held' \subseteq Held \cup {nextSha}
  BY RunIs, FInvParts, HeldStep DEF CursorType
<1>3. /\ Present' = Present /\ FileAt(Active)' = log' /\ FileAt(Active) = log
      /\ \A path : path # Active => FileAt(path)' = FileAt(path)
  BY SameArchives DEF FileAt
<1>4. ASSUME NEW at, at = start, fpc = "read", NEW path \in Present', NEW i \in Due(path)',
             FileAt(path)'.lines[i].sha = cursor.last
      PROVE  at.log = path /\ at.line = i /\ ~at.lost
  <2>1. Stays(path, i, path)
    <3>1. FileAt(path)'.lines[i].sha # nextSha /\ path \in Present
      BY <1>2, <1>3, <1>4
    <3>2. QED
      BY <3>1, DueBeside, FInvParts
  <2>2. QED
    BY <1>3, <1>4, <2>1 DEF Stays, StartPlace
<1>5. StartPlace'
  <2>1. \A at : at = start /\ fpc = "read" =>
           \A path \in Present' : \A i \in Due(path)' :
              FileAt(path)'.lines[i].sha = cursor.last =>
                 at.log = path /\ at.line = i /\ ~at.lost
    BY <1>4
  <2>2. QED
    BY <1>1, <2>1 DEF StartPlace, ShaAt
<1>6. ASSUME NEW path \in Present, NEW i \in Complete(FileAt(path))
      PROVE  i \in Complete(FileAt(path)') /\ FileAt(path)'.lines[i] = FileAt(path).lines[i]
  <2>1. CASE path = Active
    BY <1>3, <1>6, <2>1, FirstKept, FInvParts
  <2>2. CASE path # Active
    BY <1>3, <1>6, <2>2
  <2>3. QED
    BY <2>1, <2>2
<1>7. BatchPlace'
  <2>1. ASSUME fpc \in {"send", "save"}, NEW b \in batch
        PROVE  /\ b.path \in Present' /\ b.line \in Complete(FileAt(b.path)')
               /\ FileAt(b.path)'.lines[b.line].sha = b.sha
    BY <1>3, <1>6, <2>1 DEF BatchPlace, ShaAt
  <2>2. cursor.last \in Held' => cursor.last \in Held
    BY <1>2
  <2>3. fpc' \in {"send", "save"} =>
           /\ \A b \in batch' : /\ b.path \in Present' /\ b.line \in Complete(FileAt(b.path)')
                                /\ FileAt(b.path)'.lines[b.line].sha = b.sha
           /\ cursor'.last \in Held' => batch' # {} /\ \A b \in batch' : cursor'.last < b.sha
    BY <1>1, <2>1, <2>2 DEF BatchPlace
  <2>4. QED
    BY <2>3, Zenon DEF BatchPlace, ShaAt, Complete
<1>8. QED
  BY <1>5, <1>7

\* No record is in two places.
LEMMA OnePlace ==
    ASSUME TypeOK, HashesRise, NEW a \in Present, NEW b \in Present,
           NEW i \in Due(a), NEW j \in Due(b), ShaAt(a, i) = ShaAt(b, j)
    PROVE  a = b /\ i = j
<1>1. /\ a \in Nat /\ b \in Nat /\ i \in Nat /\ j \in Nat
      /\ ShaAt(a, i) \in Nat /\ ShaAt(b, j) \in Nat
  <2>1. Present \subseteq Nat
    BY PresentPaths
  <2>2. i \in 1 .. Len(FileAt(a).lines) /\ j \in 1 .. Len(FileAt(b).lines)
    BY DueLines
  <2>3. QED
    BY <2>1, <2>2, DueLines
<1>2. ~(Older(a, b) \/ (a = b /\ i < j))
  BY <1>1, DueRise
<1>3. ~(Older(b, a) \/ (b = a /\ j < i))
  <2>1. Older(b, a) \/ (b = a /\ j < i) => ShaAt(b, j) < ShaAt(a, i)
    BY DueRise
  <2>2. QED
    BY <1>1, <2>1
<1>4. QED
  BY <1>1, <1>2, <1>3 DEF Older, Active

\* Files that begin alike are one.
LEMMA FirstNames ==
    ASSUME TypeOK, HashesRise, NEW a \in Present, NEW b \in Present,
           FirstSha(FileAt(a)) = FirstSha(FileAt(b)), FirstSha(FileAt(a)) # NoSha
    PROVE  a = b
<1>1. \A path \in Present : FirstSha(FileAt(path)) # NoSha =>
         \E i \in Due(path) : ShaAt(path, i) = FirstSha(FileAt(path))
  <2> SUFFICES ASSUME NEW path \in Present, FirstSha(FileAt(path)) # NoSha
               PROVE  \E i \in Due(path) : ShaAt(path, i) = FirstSha(FileAt(path))
    OBVIOUS
  <2>1. Complete(FileAt(path)) # {} /\ FirstSha(FileAt(path)) = FirstRecord(FileAt(path)).sha
    BY DEF FirstSha
  <2>2. PICK i \in Complete(FileAt(path)) : FirstRecord(FileAt(path)) = FileAt(path).lines[i]
    BY <2>1, FileAtType, FirstIs
  <2>3. QED
    BY <2>1, <2>2, CompleteDue DEF ShaAt
<1>2. QED
  BY <1>1, OnePlace

\* A run that looks for the record sent last finds it.
LEMMA LocateKeepsPlace ==
    ASSUME FInv, ForwardLocate, CursorPlace, chain = Present
    PROVE  StartPlace'
<1>1. UNCHANGED vars /\ UNCHANGED cursor
  BY LocateIs
<1>2. ASSUME NEW path \in Present, NEW i \in Due(path), ShaAt(path, i) = cursor.last
      PROVE  start' = [log |-> path, line |-> i, lost |-> FALSE]
  <2>1. /\ i = cursor.line /\ i \in Complete(FileAt(path))
        /\ FirstSha(FileAt(path)) = cursor.first
    BY <1>2 DEF CursorPlace
  <2>2. cursor.first # NoSha
    <3>1. FirstRecord(FileAt(path)).sha # NoSha
      BY <2>1, FInvParts, FileAtType, FirstIs, CompleteLines DEF NoSha
    <3>2. QED
      BY <2>1, <3>1 DEF FirstSha
  <2>3. path \in Same
    BY <2>1 DEF Same
  <2>4. Oldest(Same) = path
    <3>1. Same \in SUBSET Nat
      BY RunIs DEF Same
    <3>2. Oldest(Same) \in Same
      BY <2>3, <3>1, OldestIs
    <3>3. Oldest(Same) \in Present /\ FirstSha(FileAt(Oldest(Same))) = cursor.first
      BY <3>2 DEF Same
    <3>4. QED
      BY <2>1, <2>2, <3>3, FirstNames, FInvParts
  <2>5. Holds(FileAt(path))
    BY <1>2, <2>1 DEF Holds, ShaAt
  <2>6. QED
    BY <2>1, <2>2, <2>3, <2>4, <2>5 DEF ForwardLocate
<1>3. /\ Present' = Present
      /\ \A path : FileAt(path)' = FileAt(path) /\ Due(path)' = Due(path)
  BY <1>1, VarsSame
<1>4. \A path \in Present : \A i \in Due(path) : FileAt(path).lines[i].sha = cursor.last =>
         start'.log = path /\ start'.line = i /\ ~start'.lost
  BY <1>2 DEF ShaAt
<1>5. QED
  BY <1>1, <1>3, <1>4 DEF StartPlace, ShaAt

\* What a run reads comes after the record sent last.
LEMMA ReadKeepsPlace ==
    ASSUME FInv, ForwardRead, StartPlace, chain = Present
    PROVE  BatchPlace'
<1>1. /\ UNCHANGED vars /\ UNCHANGED cursor
      /\ fpc = "read" /\ Initial(batch', AllPending)
  BY ReadIs
<1>2. /\ Present' = Present /\ Held' = Held
      /\ \A path : FileAt(path)' = FileAt(path) /\ Due(path)' = Due(path)
  BY <1>1, VarsSame
<1>3. batch' \subseteq AllPending
  BY <1>1, Zenon DEF Initial
<1>4. \A b \in batch' : /\ b.path \in Present /\ b.line \in Complete(FileAt(b.path))
                        /\ ShaAt(b.path, b.line) = b.sha
  BY <1>3, PendingIs DEF ShaAt
<1>5. ASSUME cursor.last \in Held
      PROVE  /\ fpc' = "send" => batch' # {}
             /\ \A b \in batch' : cursor.last < b.sha
  <2>1. PICK path \in Present : \E i \in Due(path) : cursor.last = ShaAt(path, i)
    BY <1>5, HeldIs
  <2>2. PICK i \in Due(path) : cursor.last = ShaAt(path, i)
    BY <2>1
  <2>3. start.log = path /\ start.line = i /\ ~start.lost
    BY <1>1, <2>2 DEF StartPlace
  <2>4. fpc' = "send" => batch' # {}
    <3>1. fpc' = "send" => AllPending # {}
      BY <2>3 DEF ForwardRead
    <3>2. batch' = AllPending \/ Cardinality(batch') = Batch
      BY Zenon DEF ForwardRead
    <3>3. Cardinality({}) # Batch
      BY FS_EmptySet, ForwardAssumption
    <3>4. QED
      BY <3>1, <3>2, <3>3
  <2>5. ASSUME NEW b \in batch'
        PROVE  cursor.last < b.sha
    <3>1. /\ b.path \in Present /\ ~Older(b.path, path) /\ b.line \in Due(b.path)
          /\ b.sha = ShaAt(b.path, b.line)
          /\ b.line > IF b.path = path THEN i ELSE 0
      BY <1>3, <1>4, <2>3, PendingIs, CompleteDue
    <3>2. path \in Nat /\ b.path \in Nat
      BY <3>1, PresentPaths, FInvParts
    <3>3. Older(path, b.path) \/ (path = b.path /\ i < b.line)
      <4>1. path = b.path \/ Older(path, b.path)
        BY <3>1, <3>2 DEF Older, Active
      <4>2. i \in Nat /\ b.line \in Nat
        BY <3>1, DueLines, FInvParts
      <4>3. path = b.path => i < b.line
        BY <3>1, <4>2
      <4>4. QED
        BY <4>1, <4>3
    <3>4. QED
      BY <2>2, <3>1, <3>3, DueRise, FInvParts
  <2>6. QED
    BY <2>4, <2>5
<1>6. fpc' # "save"
  BY <1>1, ReadIs
<1>7. fpc' \in {"send", "save"} =>
         /\ \A b \in batch' : /\ b.path \in Present' /\ b.line \in Complete(FileAt(b.path)')
                              /\ FileAt(b.path)'.lines[b.line].sha = b.sha
         /\ cursor'.last \in Held' => batch' # {} /\ \A b \in batch' : cursor'.last < b.sha
  BY <1>1, <1>2, <1>4, <1>5, <1>6 DEF ShaAt
<1>8. QED
  BY <1>7, Zenon DEF BatchPlace, ShaAt, Complete

\* The cursor is put where the last record of the batch is.
LEMMA SaveKeepsPlace ==
    ASSUME FInv, ForwardSave, BatchPlace
    PROVE  CursorPlace'
<1>1. UNCHANGED vars /\ fpc = "save"
  BY SaveIs
<1>2. /\ Present' = Present
      /\ \A path : FileAt(path)' = FileAt(path) /\ Due(path)' = Due(path)
  BY <1>1, VarsSame
<1>3. ASSUME NEW path \in Present, NEW i \in Due(path), ShaAt(path, i) = cursor'.last
      PROVE  /\ i = cursor'.line /\ i \in Complete(FileAt(path))
             /\ FirstSha(FileAt(path)) = cursor'.first
  <2>1. CASE cursor' = NoCursor
    <3>1. ShaAt(path, i) = 0
      BY <1>3, <2>1, NothingLeft, FInvParts
    <3>2. QED
      BY <3>1, DueLines, FInvParts
  <2>2. ASSUME NEW last \in batch,
               cursor' = [first |-> FirstSha(FileAt(last.path)),
                          line |-> last.line, last |-> last.sha]
        PROVE  /\ i = cursor'.line /\ i \in Complete(FileAt(path))
               /\ FirstSha(FileAt(path)) = cursor'.first
    <3>1. /\ last.path \in Present /\ last.line \in Complete(FileAt(last.path))
          /\ ShaAt(last.path, last.line) = last.sha
      BY <1>1 DEF BatchPlace
    <3>2. last.line \in Due(last.path) /\ ShaAt(path, i) = ShaAt(last.path, last.line)
      BY <1>3, <2>2, <3>1, CompleteDue
    <3>3. path = last.path /\ i = last.line
      BY <3>1, <3>2, OnePlace, FInvParts
    <3>4. QED
      BY <2>2, <3>1, <3>3
  <2>3. \/ cursor' = NoCursor
        \/ \E last \in batch : cursor' = [first |-> FirstSha(FileAt(last.path)),
                                          line |-> last.line, last |-> last.sha]
    BY SaveIs, Zenon
  <2>4. QED
    BY <2>1, <2>2, <2>3
<1>4. \A path \in Present' : \A i \in Due(path)' : FileAt(path)'.lines[i].sha = cursor'.last =>
         /\ i = cursor'.line /\ i \in Complete(FileAt(path)')
         /\ FirstSha(FileAt(path)') = cursor'.first
  BY <1>2, <1>3 DEF ShaAt
<1>5. QED
  BY <1>4, Zenon DEF CursorPlace, ShaAt, Complete, FirstSha, FirstRecord

LEMMA CursorPlaceSame ==
    ASSUME CursorPlace, UNCHANGED <<log, archive, gone, cutShort, pc>>, cursor' = cursor
    PROVE  CursorPlace'
<1>1. /\ Present' = Present
      /\ \A path : FileAt(path)' = FileAt(path) /\ Due(path)' = Due(path)
  BY FilesSame
<1>2. \A path \in Present' : \A i \in Due(path)' : FileAt(path)'.lines[i].sha = cursor'.last =>
         /\ i = cursor'.line /\ i \in Complete(FileAt(path)')
         /\ FirstSha(FileAt(path)') = cursor'.first
  BY <1>1 DEF CursorPlace, ShaAt
<1>3. QED
  BY <1>2, Zenon DEF CursorPlace, ShaAt, Complete, FirstSha, FirstRecord

\* Nothing changes but how far a run is, or whether it is.
LEMMA PlaceSame ==
    ASSUME PlaceInv, UNCHANGED <<log, archive, gone, cutShort, pc>>, cursor' = cursor,
           \/ fpc' \in {"idle", "locate"}
           \/ fpc' = fpc /\ start' = start /\ batch' = batch
           \/ fpc = "send" /\ fpc' = "save" /\ batch' = batch
    PROVE  PlaceInv'
<1>1. /\ Present' = Present /\ Held' = Held
      /\ \A path : FileAt(path)' = FileAt(path) /\ Due(path)' = Due(path)
  BY FilesSame
<1>2. CursorPlace => CursorPlace'
  BY CursorPlaceSame
<1>3. StartPlace => StartPlace'
  BY <1>1 DEF StartPlace, ShaAt
<1>4. BatchPlace => BatchPlace'
  <2>1. BatchPlace =>
           (fpc' \in {"send", "save"} =>
              /\ \A b \in batch' : /\ b.path \in Present' /\ b.line \in Complete(FileAt(b.path)')
                                   /\ FileAt(b.path)'.lines[b.line].sha = b.sha
              /\ cursor'.last \in Held' => batch' # {} /\ \A b \in batch' : cursor'.last < b.sha)
    BY <1>1 DEF BatchPlace, ShaAt
  <2>2. QED
    BY <2>1, Zenon DEF BatchPlace, ShaAt, Complete
<1>5. QED
  BY <1>2, <1>3, <1>4 DEF PlaceInv

LEMMA PlaceLogStep ==
    ASSUME FInv, FInv', SafeInv, PlaceInv, ~RotateInRun, LogRuns
    PROVE  PlaceInv'
<1>1. LogNext /\ UNCHANGED forwardVars /\ LogMoves
  BY LogRunIsLogNext, LogStep, FInvParts, Zenon
<1>2. UNCHANGED <<cursor, fpc, start, batch>>
  BY <1>1 DEF forwardVars
<1>3. TypeOK /\ TypeOK'
  BY Zenon DEF FInv, LogInv, IInv
<1>4. ASSUME ~cutShort'
      PROVE  CursorPlace' /\ StartPlace' /\ BatchPlace'
  <2>1. CursorPlace /\ StartPlace /\ BatchPlace
    BY <1>1, <1>3, <1>4, CutShortStays, Zenon DEF PlaceInv
  <2>2. CursorPlace'
    <3>1. cursor' = cursor /\ cursor.last \in Nat /\ nextSha \in Nat /\ cursor.last < nextSha
      BY <1>2, RunIs, FInvParts DEF CursorType
    <3>2. QED
      BY <1>1, <1>3, <2>1, <3>1, CursorPlaceKept
  <2>3. CASE fpc # "idle"
    <3>1. UNCHANGED <<archive, gone>>
      BY <1>3, <2>3, QuietRun DEF SafeInv
    <3>2. QED
      BY <1>1, <1>3, <2>1, <2>2, <3>1, PlaceBesideAppend
  <2>4. CASE fpc = "idle"
    BY <1>2, <2>2, <2>4 DEF StartPlace, BatchPlace
  <2>5. QED
    BY <2>3, <2>4
<1>5. QED
  BY <1>4 DEF PlaceInv

LEMMA PlaceStep ==
    ASSUME FInv, FInv', SafeInv, PlaceInv, ~RotateInRun, [FNext]_forwardingVars
    PROVE  PlaceInv'
<1>1. CASE UNCHANGED forwardingVars
  BY <1>1, PlaceSame DEF forwardingVars, forwardVars, vars
<1>2. CASE ForwardRun
  <2>1. UNCHANGED <<log, archive, gone, cutShort, pc>>
    BY <1>2, ForwardKeepsVars, Zenon DEF ForwardRun, vars
  <2>2. ASSUME ForwardStart
        PROVE  PlaceInv'
    <3>1. cursor' = cursor /\ fpc' = "locate"
      BY <2>2, Zenon DEF ForwardStart
    <3>2. QED
      BY <2>1, <3>1, PlaceSame
  <2>3. ASSUME ForwardLocate
        PROVE  PlaceInv'
    <3>1. cursor' = cursor /\ batch' = batch /\ fpc = "locate" /\ fpc' = "read"
      BY <2>3, LocateIs
    <3>2. ASSUME ~cutShort
          PROVE  CursorPlace' /\ StartPlace' /\ BatchPlace'
      <4>1. CursorPlace /\ chain = Present
        BY <3>1, <3>2 DEF PlaceInv, SafeInv, RunSafe, ChainWhole
      <4>2. CursorPlace'
        BY <2>1, <3>1, <4>1, CursorPlaceSame
      <4>3. StartPlace'
        BY <2>3, <4>1, LocateKeepsPlace
      <4>4. QED
        BY <3>1, <4>2, <4>3 DEF BatchPlace
    <3>3. QED
      BY <2>1, <3>2 DEF PlaceInv
  <2>4. ASSUME ForwardRead
        PROVE  PlaceInv'
    <3>1. cursor' = cursor /\ fpc = "read" /\ fpc' \in {"idle", "send"}
      BY <2>4, ReadIs
    <3>2. ASSUME ~cutShort
          PROVE  CursorPlace' /\ StartPlace' /\ BatchPlace'
      <4>1. CursorPlace /\ StartPlace /\ chain = Present
        BY <3>1, <3>2 DEF PlaceInv, SafeInv, RunSafe, ChainWhole
      <4>2. CursorPlace'
        BY <2>1, <3>1, <4>1, CursorPlaceSame
      <4>3. BatchPlace'
        BY <2>4, <4>1, ReadKeepsPlace
      <4>4. QED
        BY <3>1, <4>2, <4>3 DEF StartPlace
    <3>3. QED
      BY <2>1, <3>2 DEF PlaceInv
  <2>5. ASSUME ForwardSend
        PROVE  PlaceInv'
    <3>1. cursor' = cursor /\ fpc = "send" /\ fpc' = "save" /\ batch' = batch
      BY <2>5, Zenon DEF ForwardSend
    <3>2. QED
      BY <2>1, <3>1, PlaceSame
  <2>6. ASSUME ForwardSendFails \/ ForwardSaveFails
        PROVE  PlaceInv'
    <3>1. cursor' = cursor /\ fpc' = "idle"
      BY <2>6, Zenon DEF ForwardSendFails, ForwardSaveFails
    <3>2. QED
      BY <2>1, <3>1, PlaceSame
  <2>7. ASSUME ForwardSave
        PROVE  PlaceInv'
    <3>1. fpc = "save" /\ fpc' = "idle"
      BY <2>7, SaveIs
    <3>2. ASSUME ~cutShort
          PROVE  CursorPlace' /\ StartPlace' /\ BatchPlace'
      <4>1. CursorPlace'
        BY <2>7, <3>2, SaveKeepsPlace DEF PlaceInv
      <4>2. QED
        BY <3>1, <4>1 DEF StartPlace, BatchPlace
    <3>3. QED
      BY <2>1, <3>2 DEF PlaceInv
  <2>8. \/ ForwardStart \/ ForwardLocate \/ ForwardRead \/ ForwardSend
        \/ ForwardSendFails \/ ForwardSave \/ ForwardSaveFails
    BY <1>2, Zenon DEF ForwardRun, ForwardSteps
  <2>9. QED
    BY <2>2, <2>3, <2>4, <2>5, <2>6, <2>7, <2>8
<1>3. CASE ForwardCrash
  <2>1. /\ UNCHANGED <<log, archive, gone, cutShort, pc>>
        /\ cursor' = cursor /\ fpc' = "idle"
    BY <1>3, ForwardCrashIs DEF OnlyCrashes
  <2>2. QED
    BY <2>1, PlaceSame
<1>4. CASE LogRuns
  BY <1>4, PlaceLogStep
<1>5. QED
  BY <1>1, <1>2, <1>3, <1>4, Zenon DEF FNext

LEMMA PlaceStart ==
    ASSUME FInit
    PROVE  PlaceInv
<1>1. fpc = "idle" /\ cursor = NoCursor
  BY Zenon DEF FInit
<1>2. FInv
  BY ForwardInit
<1>3. CursorPlace
  <2>1. cursor.last = 0
    BY <1>1, <1>2, NothingLeft, FInvParts
  <2>2. \A path \in Present : \A i \in Due(path) : ShaAt(path, i) # 0
    BY <1>2, DueLines, FInvParts
  <2>3. QED
    BY <2>1, <2>2 DEF CursorPlace
<1>4. QED
  BY <1>1, <1>3 DEF PlaceInv, StartPlace, BatchPlace

\* The cursor only goes back when its record is gone.
LEMMA GoesOn ==
    ASSUME FInv, PlaceInv, ~cutShort, cursor.last \in Held, [FNext]_forwardingVars
    PROVE  ~(cursor'.last < cursor.last)
<1>1. cursor.last \in Nat
  BY RunIs DEF CursorType
<1>2. ASSUME cursor' # cursor
      PROVE  ForwardSave
  <2>1. ForwardRun \/ ForwardCrash \/ LogRuns
    BY <1>2, Zenon DEF FNext, forwardingVars, forwardVars
  <2>2. ~ForwardCrash
    BY <1>2, ForwardCrashIs
  <2>3. ~LogRuns
    BY <1>2, LogRunIsLogNext DEF forwardVars
  <2>4. \/ ForwardStart \/ ForwardLocate \/ ForwardRead \/ ForwardSend
        \/ ForwardSendFails \/ ForwardSave \/ ForwardSaveFails
    BY <2>1, <2>2, <2>3, Zenon DEF ForwardRun, ForwardSteps
  <2>5. QED
    BY <1>2, <2>4, Zenon DEF ForwardStart, ForwardLocate, ForwardRead, ForwardSend,
                             ForwardSendFails, ForwardSaveFails
<1>3. ASSUME ForwardSave
      PROVE  ~(cursor'.last < cursor.last)
  <2>1. batch # {} /\ \A b \in batch : cursor.last < b.sha /\ b.sha \in Nat
    BY <1>3, RunIs DEF PlaceInv, BatchPlace, ForwardSave
  <2>2. PICK last \in batch : cursor' = [first |-> FirstSha(FileAt(last.path)),
                                         line |-> last.line, last |-> last.sha]
    BY <1>3, <2>1, Zenon DEF ForwardSave
  <2>3. cursor'.last = last.sha
    BY <2>2
  <2>4. QED
    BY <1>1, <2>1, <2>3
<1>4. QED
  BY <1>1, <1>2, <1>3

\* As long as rotate() waits for a run to end, the first hash of a log and a line
\* in it (audit_forward.py:422) are enough to find the record sent last again:
\* through every append, rotation and deletion, forwarding starts over only when
\* that record is gone, unless a rotation was cut short.
THEOREM PlaceKept == ~RotateInRun => (FSpec => StartsOverOnlyWhenGone)
<1> SUFFICES ASSUME ~RotateInRun
             PROVE  FSpec => StartsOverOnlyWhenGone
  OBVIOUS
<1>1. FInit => FInv /\ SafeInv /\ PlaceInv
  BY ForwardInit, SafeStart, PlaceStart
<1>2. FInv /\ SafeInv /\ PlaceInv /\ [FNext]_forwardingVars => FInv' /\ SafeInv' /\ PlaceInv'
  BY FInvStep, SafeStep, PlaceStep
<1>3. FInv /\ SafeInv /\ PlaceInv /\ [FNext]_forwardingVars
        => [cursor'.last < cursor.last /\ ~cutShort => cursor.last \notin OnDisk]_forwardingVars
  BY GoesOn, OnDiskHeld, FInvParts
<1>4. QED
  BY <1>1, <1>2, <1>3, PTL DEF FSpec, StartsOverOnlyWhenGone

--------------------------------------------------------------------------------
(* Forwarding: the log beside it *)

\* Runs that read the log, stop half-way and are killed, rotations in the middle of
\* them included, take nothing from what the log promises: untouched, it verifies,
\* keeps what was acknowledged, goes on across rotations and past damage.
THEOREM ForwardKeepsLog ==
    FSpec => []/\ UntouchedLogVerifies
               /\ AckedKept
               /\ ChainContinuesUndisturbed
               /\ ChainSkipsDamage
<1>1. FInit => FInv
  BY ForwardInit
<1>2. FInv /\ [FNext]_forwardingVars => FInv'
  BY FInvStep
<1>3. FInv => /\ UntouchedLogVerifies
              /\ AckedKept
              /\ ChainContinuesUndisturbed
              /\ ChainSkipsDamage
  BY FInvParts, InvariantVerifies, InvariantKeeps, InvariantContinues, InvariantSkips
<1>4. QED
  BY <1>1, <1>2, <1>3, PTL DEF FSpec

\* To the ledger every step of a run is a stutter.
THEOREM ForwardLedgerImplemented == FSpec => ImplementsLedger
<1>1. FInit => FInv /\ AbstractLedger!LedgerInit
  BY ForwardInit, LedgerStart DEF FInit
<1>2. FInv /\ [FNext]_forwardingVars => FInv'
  BY FInvStep
<1>3. FInv /\ [FNext]_forwardingVars => [AbstractLedger!Enter]_(AbstractLedger!ledgerVars)
  <2> SUFFICES ASSUME FInv, [FNext]_forwardingVars
               PROVE  [AbstractLedger!Enter]_(AbstractLedger!ledgerVars)
    OBVIOUS
  <2>1. [LogNext]_vars \/ ForwardCrash
    BY LogRunIsLogNext, ForwardKeepsVars, Zenon DEF FNext, ForwardRun, forwardingVars
  <2>2. ASSUME ForwardCrash
        PROVE  UNCHANGED AbstractLedger!ledgerVars
    BY <2>2, ForwardCrashIs, Zenon DEF OnlyCrashes, Recorded, AbstractLedger!ledgerVars
  <2>3. QED
    BY <2>1, <2>2, LedgerStep, FInvParts
<1>4. QED
  BY <1>1, <1>2, <1>3, PTL DEF FSpec, ImplementsLedger, AbstractLedger!LedgerSpec
================================================================================

------------------------------- MODULE AuditLog -------------------------------
(***************************************************************************)
(* The project's audit log: audit.AuditTrail.append_event, rotate, verify  *)
(* and the note _record_failure leaves of a record that couldn't be        *)
(* written.                                                                *)
(*                                                                         *)
(* Every hook, CLI call, MCP server and daemon of a project appends to the *)
(* same file, each record carrying the hash of the one before it.  A       *)
(* member of Proc is one such process; appending and rotating hold a       *)
(* cross-process flock, which the OS drops when its holder dies.           *)
(*                                                                         *)
(* A line is a record or, when its sha is NoSha, what a full disk left of  *)
(* one.  A record's hash is abstracted to a number of its own (two records *)
(* never hash alike), so a chain is a sequence of prev/sha links.  An      *)
(* archive is named after its position: rotations at the default 100 MB    *)
(* never share the second their names are made of.                         *)
(*                                                                         *)
(* Left out: rotate(keep_days = 0), which would delete the archive it has  *)
(* just made and start the next log without a marker.  Nothing passes a    *)
(* keep_days, and under the default 90 that archive is never the one to go.*)
(***************************************************************************)
EXTENDS Integers, Sequences, FiniteSets

CONSTANTS Proc,
          None,        \* no process holds the lock
          TailLines,   \* lines _last_sha256_of looks back over (8 in the code)
          RotateAt,    \* max_bytes, in lines
          MaxSha,      \* bound: hashes given out
          MaxFailures, \* bound: writes that fail
          MaxCrashes   \* bound: processes killed

ASSUME AuditAssumption ==
    /\ None \notin Proc
    /\ TailLines \in Nat \ {0}
    /\ RotateAt \in Nat \ {0}
    /\ MaxSha \in Nat /\ MaxFailures \in Nat /\ MaxCrashes \in Nat

VARIABLES log,       \* audit_events.jsonl; a missing file reads as an empty one
          archive,   \* every archive rotate() made, oldest first
          gone,      \* how many of them, the oldest, rotate() has deleted since
          lockedBy,  \* holder of the append lock
          pc, draft, \* what each process does, and the record it is writing
          nextSha,
          acked,     \* history: hashes append_event has returned to its caller
          notes,     \* lines of the failures file
          cutShort,  \* history: a rotation ended without writing its marker
          failures, crashes

vars == <<log, archive, gone, lockedBy, pc, draft, nextSha, acked, notes,
          cutShort, failures, crashes>>

NoSha == 0          \* "0" * 64
NoGap == <<0, 0>>   \* a gap record tells which notes it covers: <<after, through>>

\* blind is history: the file to chain to couldn't be read.
Line == [sha : Nat, prev : Nat, arch : Nat, gap : Nat \X Nat, blind : BOOLEAN]
File == [lines : Seq(Line), mid : BOOLEAN]   \* mid: the last line has no newline
EmptyFile == [lines |-> <<>>, mid |-> FALSE]
Cut == [sha |-> NoSha, prev |-> NoSha, arch |-> 0, gap |-> NoGap, blind |-> FALSE]

Readable(line) == line.sha # NoSha

\* Mutant of LastSha: only the last line is looked at.
LastLineSha(lines, n) ==
    LET tail == {i \in 1 .. n : i = n /\ Readable(lines[i])}
    IN  IF tail = {} THEN NoSha
        ELSE lines[CHOOSE i \in tail : \A j \in tail : j <= i].sha

\* The hash of the last readable record among the first n lines, no further
\* back than the window the code keeps.
LastSha(lines, n) ==
    LET tail == {i \in 1 .. n : i > n - TailLines /\ Readable(lines[i])}
    IN  IF tail = {} THEN NoSha
        ELSE lines[CHOOSE i \in tail : \A j \in tail : j <= i].sha

LastShaOf(file) == LastSha(file.lines, Len(file.lines))

\* A write starts on a line of its own, whatever the last one left behind.
AddLine(file, line, cutOff) ==
    [lines |-> Append(file.lines, line), mid |-> cutOff]

\* What a failed write can leave: nothing, the newline that ends a cut line, a
\* part of the record, or all of it but the newline.
FailedWrites(file, line) ==
    {file, [file EXCEPT !.mid = FALSE], AddLine(file, Cut, TRUE),
     AddLine(file, line, TRUE)}

\* Types, and the lock is held by the process that is writing, and by no other.
TypeOK ==
    /\ log \in File
    /\ archive \in Seq(File)
    /\ gone \in Nat /\ gone <= Len(archive)
    /\ lockedBy \in Proc \cup {None}
    /\ pc \in [Proc -> {"idle", "write", "failed", "marker"}]
    /\ \A p \in Proc : lockedBy = p <=> pc[p] \in {"write", "marker"}
    /\ draft \in [Proc -> [prev : Nat, gap : Nat \X Nat, blind : BOOLEAN]]
    /\ nextSha \in Nat \ {0}
    /\ acked \in SUBSET Nat
    /\ notes \in Nat /\ cutShort \in BOOLEAN
    /\ failures \in Nat /\ crashes \in Nat

Init ==
    /\ log = EmptyFile /\ archive = <<>> /\ gone = 0
    /\ lockedBy = None
    /\ pc = [p \in Proc |-> "idle"]
    /\ draft = [p \in Proc |-> [prev |-> NoSha, gap |-> NoGap, blind |-> FALSE]]
    /\ nextSha = 1 /\ acked = {} /\ notes = 0
    /\ cutShort = FALSE /\ failures = 0 /\ crashes = 0

--------------------------------------------------------------------------------
\* Start a record on the hash of a file's last one.  A file that can't be read
\* counts as empty: the chain starts again from zeros.
Draft(p, file, gap) ==
    \E blind \in BOOLEAN :
        /\ blind => file.lines # <<>> /\ failures < MaxFailures
        /\ failures' = IF blind THEN failures + 1 ELSE failures
        /\ draft' = [draft EXCEPT ![p] =
                [prev |-> IF blind THEN NoSha ELSE LastShaOf(file),
                 gap |-> gap, blind |-> blind]]

--------------------------------------------------------------------------------
(* append_event *)

\* Mutant of StartAppend: a thread lock alone, which another process does not see.
StartAppendUnlocked(p, gap) ==
    /\ pc[p] = "idle"
    /\ nextSha <= MaxSha
    /\ lockedBy' = p
    /\ Draft(p, log, gap)
    /\ pc' = [pc EXCEPT ![p] = "write"]
    /\ UNCHANGED <<log, archive, gone, nextSha, acked, notes, cutShort, crashes>>

\* Take the lock and read the hash to chain to.
StartAppend(p, gap) ==
    /\ pc[p] = "idle"
    /\ lockedBy = None
    /\ nextSha <= MaxSha
    /\ lockedBy' = p
    /\ Draft(p, log, gap)
    /\ pc' = [pc EXCEPT ![p] = "write"]
    /\ UNCHANGED <<log, archive, gone, nextSha, acked, notes, cutShort, crashes>>

Record(p) ==
    [sha |-> nextSha, prev |-> draft[p].prev, arch |-> 0, gap |-> draft[p].gap,
     blind |-> draft[p].blind]

Release(p, label) ==
    /\ lockedBy' = None
    /\ pc' = [pc EXCEPT ![p] = label]

AppendOK(p) ==
    /\ pc[p] = "write"
    /\ log' = AddLine(log, Record(p), FALSE)
    /\ nextSha' = nextSha + 1
    /\ acked' = acked \cup {nextSha}
    /\ Release(p, "idle")
    /\ UNCHANGED <<archive, gone, draft, notes, cutShort, failures, crashes>>

\* Mutant of AppendFails: an error on the way out leaves the lock behind.
FailsHolding(p) ==
    /\ pc[p] = "write"
    /\ failures < MaxFailures
    /\ failures' = failures + 1
    /\ log' \in FailedWrites(log, Record(p))
    /\ nextSha' = nextSha + 1
    /\ pc' = [pc EXCEPT ![p] = "failed"]
    /\ UNCHANGED <<archive, gone, lockedBy, draft, acked, notes, cutShort, crashes>>

\* Mutant of AppendFails: the caller is told that the record is there.
FailsUnseen(p) ==
    /\ pc[p] = "write"
    /\ failures < MaxFailures
    /\ failures' = failures + 1
    /\ log' \in FailedWrites(log, Record(p))
    /\ nextSha' = nextSha + 1
    /\ acked' = acked \cup {nextSha}
    /\ Release(p, "idle")
    /\ UNCHANGED <<archive, gone, draft, notes, cutShort, crashes>>

AppendFails(p) ==
    /\ pc[p] = "write"
    /\ failures < MaxFailures
    /\ failures' = failures + 1
    /\ log' \in FailedWrites(log, Record(p))
    /\ nextSha' = nextSha + 1
    /\ Release(p, "failed")
    /\ UNCHANGED <<archive, gone, draft, acked, notes, cutShort, crashes>>

\* _record_failure, outside the lock: the note is written, or fails as well
\* (append_event then raises, and under security.profile: cui the caller
\* withholds the result).
NoteFailure(p) ==
    /\ pc[p] = "failed"
    /\ notes' \in {notes, notes + 1}
    /\ pc' = [pc EXCEPT ![p] = "idle"]
    /\ UNCHANGED <<log, archive, gone, lockedBy, draft, nextSha, acked, cutShort,
                   failures, crashes>>

--------------------------------------------------------------------------------
(* rotate *)

\* Mutant of Rotate: without the append lock.
RotateUnlocked(p) ==
    /\ pc[p] = "idle"
    /\ Len(log.lines) >= RotateAt
    /\ nextSha <= MaxSha
    /\ archive' = Append(archive, log)
    /\ gone' \in gone .. Len(archive)
    /\ log' = EmptyFile
    /\ Draft(p, log, NoGap)
    /\ pc' = [pc EXCEPT ![p] = "marker"]
    /\ UNCHANGED <<lockedBy, nextSha, acked, notes, cutShort, crashes>>

\* Mutant of Rotate: the new log is left to start by itself.
RotateNoMarker(p) ==
    /\ pc[p] = "idle"
    /\ lockedBy = None
    /\ Len(log.lines) >= RotateAt
    /\ nextSha <= MaxSha
    /\ archive' = Append(archive, log)
    /\ gone' \in gone .. Len(archive)
    /\ log' = EmptyFile
    /\ lockedBy' = None
    /\ pc' = [pc EXCEPT ![p] = "idle"]
    /\ UNCHANGED <<draft, nextSha, acked, notes, cutShort, failures, crashes>>

\* Under the lock: rename the log to an archive, delete the archives past
\* keep_days, which are the oldest ones, and read the last hash of the new one.
Rotate(p) ==
    /\ pc[p] = "idle"
    /\ lockedBy = None
    /\ Len(log.lines) >= RotateAt
    /\ nextSha <= MaxSha
    /\ archive' = Append(archive, log)
    /\ gone' \in gone .. Len(archive)
    /\ log' = EmptyFile
    /\ Draft(p, log, NoGap)
    /\ lockedBy' = p
    /\ pc' = [pc EXCEPT ![p] = "marker"]
    /\ UNCHANGED <<nextSha, acked, notes, cutShort, crashes>>

Marker(p) == [Record(p) EXCEPT !.arch = Len(archive), !.gap = NoGap]

\* open("w"): whatever is in the log by now is overwritten.
WriteMarker(p) ==
    /\ pc[p] = "marker"
    /\ log' = AddLine(EmptyFile, Marker(p), FALSE)
    /\ nextSha' = nextSha + 1
    /\ Release(p, "idle")
    /\ UNCHANGED <<archive, gone, draft, acked, notes, cutShort, failures, crashes>>

MarkerFails(p) ==
    /\ pc[p] = "marker"
    /\ failures < MaxFailures
    /\ failures' = failures + 1
    /\ log' \in FailedWrites(EmptyFile, Marker(p))
    /\ nextSha' = nextSha + 1
    /\ cutShort' = TRUE
    /\ Release(p, "idle")
    /\ UNCHANGED <<archive, gone, draft, acked, notes, crashes>>

--------------------------------------------------------------------------------
\* A process dies; another one will run under the same name.  Killed once its
\* write is out, it has done an AppendOK or a WriteMarker.
Crash(p) ==
    /\ pc[p] # "idle"
    /\ crashes < MaxCrashes
    /\ crashes' = crashes + 1
    /\ pc' = [pc EXCEPT ![p] = "idle"]
    /\ lockedBy' = IF lockedBy = p THEN None ELSE lockedBy
    /\ cutShort' = (cutShort \/ pc[p] = "marker")
    /\ UNCHANGED <<log, archive, gone, draft, nextSha, acked, notes, failures>>

AppendSteps(p) == AppendOK(p) \/ AppendFails(p) \/ NoteFailure(p)
RotateSteps(p) == Rotate(p) \/ WriteMarker(p) \/ MarkerFails(p)

Next == \E p \in Proc :
    StartAppend(p, NoGap) \/ AppendSteps(p) \/ RotateSteps(p) \/ Crash(p)

Spec == Init /\ [][Next]_vars

--------------------------------------------------------------------------------
(* verify *)

Exists(n) == n \in gone + 1 .. Len(archive)

MarkerOK(line) ==
    line.arch # 0 /\ Exists(line.arch) => line.prev = LastShaOf(archive[line.arch])

\* The hash verify() expects in the prev_sha256 of line i.
ExpectedPrev(lines, i) ==
    IF i > 1 THEN lines[i - 1].sha
    ELSE IF lines[1].arch # 0 THEN lines[1].prev ELSE NoSha

Verifies(lines) ==
    /\ \A i \in 1 .. Len(lines) : Readable(lines[i])
    /\ \A i \in 1 .. Len(lines) : lines[i].prev = ExpectedPrev(lines, i)
    /\ lines # <<>> => MarkerOK(lines[1])

--------------------------------------------------------------------------------
(* Properties *)

Intact(lines) == \A i \in 1 .. Len(lines) : Readable(lines[i]) /\ ~lines[i].blind

\* verify() never reports a log nobody has touched: whatever the processes do,
\* and wherever one is killed, a log with no half-written line, and no record
\* whose writer couldn't read what to chain to, verifies, and so does every archive.
UntouchedLogVerifies ==
    /\ Intact(log.lines) => Verifies(log.lines)
    /\ \A n \in DOMAIN archive :
           Intact(archive[n].lines) => Verifies(archive[n].lines)

\* "The next record chains to the last intact one": behind half-written lines,
\* as long as they are fewer than the window _last_sha256_of keeps, the chain
\* goes on from the record before them, so the damage stays those lines.  A
\* record whose writer couldn't read the log chains to nothing.
ChainSkipsDamage ==
    failures < TailLines =>
        \A i, j \in 1 .. Len(log.lines) :
            /\ i < j /\ Readable(log.lines[i]) /\ Readable(log.lines[j])
            /\ \A k \in i + 1 .. j - 1 : ~Readable(log.lines[k])
            /\ ~log.lines[j].blind
            => log.lines[j].prev = log.lines[i].sha

\* A record append_event returned is never truncated away or overwritten by a
\* rotation: it is in the log or in the archive it was rotated into.  An archive
\* that keep_days has deleted since counts as having kept what it held.
AckedKept ==
    \A r \in acked :
        \/ \E i \in DOMAIN log.lines : log.lines[i].sha = r
        \/ \E n \in DOMAIN archive :
              \E i \in DOMAIN archive[n].lines : archive[n].lines[i].sha = r

\* rotate() "preserves hash-chain continuity": between rotations a log that has
\* records, and that archives precede, begins with the marker that names the
\* newest of them.
ChainContinues ==
    (archive # <<>> /\ lockedBy = None /\ log.lines # <<>>)
        => log.lines[1].arch = Len(archive)

\* The same as long as no rotation is cut short before its marker is written, by
\* a kill or a full disk: whatever else fails or dies keeps the chain whole.
ChainContinuesUndisturbed == ~cutShort => ChainContinues

Hashes(lines) == {lines[i].sha : i \in DOMAIN lines} \ {NoSha}

\* The hashes of the records that the log and the archives hold, or held when
\* keep_days deleted them.
Recorded == Hashes(log.lines) \cup UNION {Hashes(archive[n].lines) : n \in DOMAIN archive}

\* The log implements the ledger its callers see: locking, rotating, failing and
\* dying are invisible, except that a record may be entered and not told of.
AbstractLedger == INSTANCE Ledger WITH entries <- Recorded, told <- acked
ImplementsLedger == AbstractLedger!LedgerSpec
================================================================================

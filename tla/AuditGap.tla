------------------------------- MODULE AuditGap -------------------------------
(***************************************************************************)
(* AuditTrail.record_gap, beside the processes of AuditLog: the notes of   *)
(* records that couldn't be written become one gap record in the log, and  *)
(* a mark (audit_write_failures.recorded.json) says which are covered.     *)
(*                                                                         *)
(* One run at a time holds record_gap's own lock; the gap record itself    *)
(* goes through append_event, so it can fail, and leave a note, like any   *)
(* other.  A mark or a covers field names notes by their number: the notes *)
(* file only grows, so the hash of a prefix tells as much.                 *)
(***************************************************************************)
EXTENDS AuditLog, FiniteSetsExt

VARIABLES mark,   \* notes the mark says are recorded; 0 when it can't be read
          gapBy,  \* the process in record_gap
          gpc, seen, after

gapVars == <<mark, gapBy, gpc, seen, after>>
allVars == <<vars, gapVars>>

GTypeOK ==
    /\ mark \in 0 .. notes
    /\ gapBy \in Proc \cup {None}
    /\ gpc \in {"none", "scan", "ready", "append", "mark"}
    /\ seen \in 0 .. notes /\ after \in 0 .. notes

GInit ==
    /\ Init
    /\ mark = 0 /\ gapBy = None /\ gpc = "none" /\ seen = 0 /\ after = 0

LeaveGap == gapBy' = None /\ gpc' = "none"

\* Mutant of GapStart: the blank line ahead of the first note counts as one.
GapStartBlank(p) ==
    /\ gapBy = None
    /\ pc[p] = "idle"
    /\ notes > mark
    /\ gapBy' = p
    /\ gpc' = "scan"
    /\ seen' = notes + 1
    /\ UNCHANGED <<vars, mark, after>>

\* Take the lock, read the notes and the mark: something is unrecorded.
GapStart(p) ==
    /\ gapBy = None
    /\ pc[p] = "idle"
    /\ notes > mark
    /\ gapBy' = p
    /\ gpc' = "scan"
    /\ seen' = notes
    /\ UNCHANGED <<vars, mark, after>>

\* _covered_in_log: the most notes a gap record of the active log covers.
Covered ==
    Max({0} \cup {log.lines[i].gap[2] :
            i \in {j \in DOMAIN log.lines : log.lines[j].gap[2] <= seen}})

\* What writing the mark can leave: nothing changed, a truncated file, the mark.
MarkWrites(through) == {mark, 0, through}

\* Mutant of GapScan: only the mark is asked what is recorded.
GapScanMark(p) ==
    /\ gapBy = p /\ gpc = "scan"
    /\ gpc' = "ready" /\ after' = mark
    /\ UNCHANGED <<vars, mark, gapBy, seen>>

\* An earlier run wrote the gap record but not its mark: write it now.
GapScan(p) ==
    /\ gapBy = p /\ gpc = "scan"
    /\ IF Covered > mark
       THEN /\ mark' \in MarkWrites(Covered)
            /\ IF mark' = Covered /\ Covered < seen
               THEN /\ gpc' = "ready" /\ after' = Covered /\ gapBy' = gapBy
               ELSE /\ LeaveGap /\ after' = after
       ELSE /\ gpc' = "ready" /\ after' = mark
            /\ UNCHANGED <<mark, gapBy>>
    /\ UNCHANGED <<vars, seen>>

GapAppend(p) ==
    /\ gapBy = p /\ gpc = "ready"
    /\ StartAppend(p, <<after, seen>>)
    /\ gpc' = "append"
    /\ UNCHANGED <<mark, gapBy, seen, after>>

GapAppended(p) ==
    /\ gapBy = p /\ gpc = "append"
    /\ AppendOK(p)
    /\ gpc' = "mark"
    /\ UNCHANGED <<mark, gapBy, seen, after>>

\* Mutant of GapMark: notes written meanwhile are marked too.
GapMarkLatest(p) ==
    /\ gapBy = p /\ gpc = "mark"
    /\ mark' \in MarkWrites(notes)
    /\ LeaveGap
    /\ UNCHANGED <<vars, seen, after>>

GapMark(p) ==
    /\ gapBy = p /\ gpc = "mark"
    /\ mark' \in MarkWrites(seen)
    /\ LeaveGap
    /\ UNCHANGED <<vars, seen, after>>

\* append_event notes the gap record it couldn't write and raises.
GapFailed(p) ==
    /\ gapBy = p /\ gpc = "append"
    /\ NoteFailure(p)
    /\ LeaveGap
    /\ UNCHANGED <<mark, seen, after>>

GapSteps(p) ==
    \/ GapStart(p) \/ GapScan(p) \/ GapAppend(p) \/ GapAppended(p) \/ GapMark(p)
    \/ GapFailed(p)

\* A kill in the middle of writing the mark leaves the file truncated.
GapCrash(p) ==
    /\ gapBy = p
    /\ crashes < MaxCrashes
    /\ crashes' = crashes + 1
    /\ mark' \in IF gpc = "mark" THEN {mark, 0} ELSE {mark}
    /\ LeaveGap
    /\ pc' = [pc EXCEPT ![p] = "idle"]
    /\ lockedBy' = IF lockedBy = p THEN None ELSE lockedBy
    /\ UNCHANGED <<log, archive, gone, draft, nextSha, acked, notes, cutShort,
                   failures, seen, after>>

\* What a process does outside record_gap.
LogSteps(p) ==
    /\ gapBy # p
    /\ StartAppend(p, NoGap) \/ AppendOK(p) \/ NoteFailure(p) \/ RotateSteps(p)
       \/ Crash(p)
    /\ UNCHANGED gapVars

GNext == \E p \in Proc :
    \/ GapSteps(p) \/ GapCrash(p) \/ LogSteps(p)
    \/ AppendFails(p) /\ UNCHANGED gapVars

GSpec == GInit /\ [][GNext]_allVars

--------------------------------------------------------------------------------
(* Properties *)

\* Every gap record, wherever it is now, with the hash that names it.
GapRecords ==
    {line \in UNION {{file.lines[i] : i \in DOMAIN file.lines} :
                        file \in {log} \cup {archive[n] : n \in DOMAIN archive}} :
        line.gap # NoGap}

\* "One run at a time, so two can't record the same failures twice", and "run
\* this again to restore it without a second gap record": no failed write is
\* counted as missing by two gap records.
FailuresRecordedOnce ==
    \A a, b \in GapRecords :
        a.sha # b.sha => a.gap[2] <= b.gap[1] \/ b.gap[2] <= a.gap[1]

\* The same as long as the log isn't rotated.
FailuresRecordedOnceUnrotated == archive = <<>> => FailuresRecordedOnce

\* The mark never covers a failure no gap record counts: whichever write fails
\* and wherever record_gap dies, a failure it drops from the backlog is in the
\* log or in an archive.
MarkedFailuresAreInTheLog ==
    \A n \in 1 .. mark : \E a \in GapRecords : a.gap[1] < n /\ n <= a.gap[2]
================================================================================

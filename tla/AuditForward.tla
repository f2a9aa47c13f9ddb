----------------------------- MODULE AuditForward -----------------------------
(***************************************************************************)
(* Forwarding the audit log to syslog: audit_forward.forward_pending and   *)
(* what it calls, run beside the processes of AuditLog.                    *)
(*                                                                         *)
(* A run holds the forward lock from reading the cursor to saving it, so   *)
(* there is one at a time and the model has one forwarder.  It takes no    *)
(* lock on the log: between the steps here the log may grow, and may be    *)
(* rotated.  A path is Active or the position of an archive, and the logs  *)
(* a run reads are a set of them: an archive's position is its place in    *)
(* the order, oldest first, as a marker names an archive from before it.   *)
(* Offsets are line numbers: the lines are taken to be of one length.      *)
(*                                                                         *)
(* Left out: a run that backs off after a failed send, or that finds no    *)
(* target, which does nothing.                                             *)
(***************************************************************************)
EXTENDS AuditLog

CONSTANTS Batch,        \* LIVE_BATCH: records the run behind an append sends
          RotateInRun,  \* whether rotate() may be called while a run is going on
          MaxSendErrors \* bound: sends that fail

ASSUME ForwardAssumption ==
    Batch \in Nat \ {0} /\ RotateInRun \in BOOLEAN /\ MaxSendErrors \in Nat

VARIABLES cursor,   \* audit_forwarded.json
          fpc,      \* where the run is
          chain,    \* the paths _chain returned
          start,    \* where reading starts: [log, line], and whether it was lost
          batch,    \* the lines to send: [path, line, sha]
          sent,     \* history: hashes syslog has received
          sendErrors

forwardVars == <<cursor, fpc, chain, start, batch, sent, sendErrors>>
forwardingVars == <<vars, forwardVars>>

Active == 0
NoCursor == [first |-> NoSha, line |-> 0, last |-> NoSha]

\* What a path reads as: an archive deleted since reads as an empty file.
FileAt(path) ==
    IF path = Active THEN log ELSE IF Exists(path) THEN archive[path] ELSE EmptyFile

\* The lines _records yields: complete, and a record.
Complete(file) ==
    {i \in DOMAIN file.lines :
        Readable(file.lines[i]) /\ (i = Len(file.lines) => ~file.mid)}

\* The first record of a file, which names the log.
FirstRecord(file) == file.lines[CHOOSE i \in Complete(file) : \A j \in Complete(file) : i <= j]

FirstSha(file) == IF Complete(file) = {} THEN NoSha ELSE FirstRecord(file).sha

\* The archive a file's first record names, if it is a marker and the archive
\* is still there.
Linked(file) ==
    {n \in gone + 1 .. Len(archive) : Complete(file) # {} /\ FirstRecord(file).arch = n}

\* _chain: the active log and the archives its markers lead back to.
IsChain(paths) ==
    /\ Active \in paths
    /\ \A path \in paths : Linked(FileAt(path)) \subseteq paths
    /\ \A n \in paths \ {Active} : \E path \in paths : n \in Linked(FileAt(path))

Older(path, other) == path # Active /\ (other = Active \/ path < other)

Oldest(paths) == CHOOSE path \in paths : \A other \in paths : ~Older(other, path)

NoStart == [log |-> Active, line |-> 0, lost |-> FALSE]

PendingLine == [path : 0 .. Len(archive), line : Nat \ {0}, sha : Nat \ {0}]

FTypeOK ==
    /\ TypeOK
    /\ cursor \in [first : Nat, line : Nat, last : Nat]
    /\ fpc \in {"idle", "locate", "read", "send", "save"}
    /\ chain \subseteq 0 .. Len(archive)
    /\ start \in [log : 0 .. Len(archive), line : Nat, lost : BOOLEAN]
    /\ batch \subseteq PendingLine
    /\ sent \subseteq 1 .. nextSha - 1
    /\ sendErrors \in 0 .. MaxSendErrors

FInit ==
    /\ Init
    /\ cursor = NoCursor /\ fpc = "idle" /\ chain = {}
    /\ start = NoStart
    /\ batch = {} /\ sent = {} /\ sendErrors = 0

--------------------------------------------------------------------------------
\* A run begins behind an append, in the process that made it, or by hand
\* (`neuralmind audit forward`), whatever the log holds.
ForwardStart ==
    /\ fpc = "idle"
    /\ \E paths \in SUBSET (0 .. Len(archive)) : IsChain(paths) /\ chain' = paths
    /\ fpc' = "locate"
    /\ UNCHANGED <<vars, cursor, start, batch, sent, sendErrors>>

\* The logs of the chain that begin as the cursor's did.
Same == {path \in chain : FirstSha(FileAt(path)) = cursor.first}

\* The record at the cursor's line of a log is the one sent last.
Holds(file) == cursor.line \in Complete(file) /\ file.lines[cursor.line].sha = cursor.last

\* Mutant of ForwardLocate: reading starts at the record sent last.
LocateBefore ==
    LET found == Same # {} /\ Holds(FileAt(Oldest(Same)))
    IN  /\ fpc = "locate"
        /\ start' =
             IF cursor.first # NoSha /\ found
             THEN [log |-> Oldest(Same), line |-> cursor.line - 1, lost |-> FALSE]
             ELSE [log |-> Oldest(chain), line |-> 0, lost |-> cursor.first # NoSha]
        /\ fpc' = "read"
        /\ UNCHANGED <<vars, cursor, chain, batch, sent, sendErrors>>

\* The first log of the chain that begins as the cursor's did; its line must
\* still hold the record sent last, or the position counts as lost.
ForwardLocate ==
    LET found == Same # {} /\ Holds(FileAt(Oldest(Same)))
    IN  /\ fpc = "locate"
        /\ start' =
             IF cursor.first # NoSha /\ found
             THEN [log |-> Oldest(Same), line |-> cursor.line, lost |-> FALSE]
             ELSE [log |-> Oldest(chain), line |-> 0, lost |-> cursor.first # NoSha]
        /\ fpc' = "read"
        /\ UNCHANGED <<vars, cursor, chain, batch, sent, sendErrors>>

\* Mutant of Pending: lines counted from 0.
PendingFromZero(path, line) ==
    {[path |-> path, line |-> i - 1, sha |-> FileAt(path).lines[i].sha] :
        i \in {j \in Complete(FileAt(path)) : j > line}}

\* The complete records of one path behind a line.
Pending(path, line) ==
    {[path |-> path, line |-> i, sha |-> FileAt(path).lines[i].sha] :
        i \in {j \in Complete(FileAt(path)) : j > line}}

\* Everything behind the start, over the rest of the chain.
AllPending ==
    UNION {Pending(path, IF path = start.log THEN start.line ELSE 0) :
              path \in {n \in chain : ~Older(n, start.log)}}

\* The order they are read in, and the first of them in it.
Before(r, q) == Older(r.path, q.path) \/ (r.path = q.path /\ r.line < q.line)

Initial(some, all) == some \subseteq all /\ \A r \in some, q \in all : Before(q, r) => q \in some

\* pending(): the run behind an append keeps the first Batch lines, `neuralmind
\* audit forward` keeps all.
ForwardRead ==
    /\ fpc = "read"
    /\ \E some \in SUBSET AllPending :
           /\ Initial(some, AllPending)
           /\ some = AllPending \/ Cardinality(some) = Batch
           /\ batch' = some
    /\ fpc' = IF AllPending = {} /\ ~start.lost THEN "idle" ELSE "send"
    /\ chain' = {} /\ start' = NoStart
    /\ UNCHANGED <<vars, cursor, sent, sendErrors>>

Shas(lines) == {r.sha : r \in lines}

ForwardSend ==
    /\ fpc = "send"
    /\ sent' = sent \cup Shas(batch)
    /\ fpc' = "save"
    /\ UNCHANGED <<vars, cursor, chain, start, batch, sendErrors>>

\* Mutant of ForwardSendFails: the cursor is saved all the same.
SendFailsUnseen ==
    /\ fpc = "send"
    /\ sendErrors < MaxSendErrors
    /\ sendErrors' = sendErrors + 1
    /\ \E some \in SUBSET batch : Initial(some, batch) /\ sent' = sent \cup Shas(some)
    /\ fpc' = "save"
    /\ UNCHANGED <<vars, cursor, chain, start, batch>>

\* A send fails part-way; the cursor keeps its place.
ForwardSendFails ==
    /\ fpc = "send"
    /\ sendErrors < MaxSendErrors
    /\ sendErrors' = sendErrors + 1
    /\ \E some \in SUBSET batch : Initial(some, batch) /\ sent' = sent \cup Shas(some)
    /\ fpc' = "idle" /\ batch' = {}
    /\ UNCHANGED <<vars, cursor, chain, start>>

\* Mutant of ForwardSave: the cursor names the active log.
SaveNamesActive ==
    /\ fpc = "save"
    /\ \/ batch = {} /\ cursor' = NoCursor
       \/ \E last \in batch :
              /\ \A r \in batch : ~Before(last, r)
              /\ cursor' = [first |-> FirstSha(log), line |-> last.line, last |-> last.sha]
    /\ fpc' = "idle" /\ batch' = {}
    /\ UNCHANGED <<vars, chain, start, sent, sendErrors>>

\* The log the last record came from is named by what is at its path now.  A
\* lost position with nothing to send is forgotten.
ForwardSave ==
    /\ fpc = "save"
    /\ \/ batch = {} /\ cursor' = NoCursor
       \/ \E last \in batch :
              /\ \A r \in batch : ~Before(last, r)
              /\ cursor' = [first |-> FirstSha(FileAt(last.path)),
                            line |-> last.line, last |-> last.sha]
    /\ fpc' = "idle" /\ batch' = {}
    /\ UNCHANGED <<vars, chain, start, sent, sendErrors>>

\* "The records went out; the next run sends them again rather than none."
ForwardSaveFails ==
    /\ fpc = "save"
    /\ fpc' = "idle" /\ batch' = {}
    /\ UNCHANGED <<vars, cursor, chain, start, sent, sendErrors>>

ForwardCrash ==
    /\ fpc # "idle"
    /\ crashes < MaxCrashes
    /\ crashes' = crashes + 1
    /\ fpc' = "idle" /\ chain' = {} /\ start' = NoStart /\ batch' = {}
    /\ UNCHANGED <<log, archive, gone, lockedBy, pc, draft, nextSha, acked, notes,
                   cutShort, failures, cursor, sent, sendErrors>>

ForwardSteps ==
    \/ ForwardStart \/ ForwardLocate \/ ForwardRead \/ ForwardSend
    \/ ForwardSendFails \/ ForwardSave \/ ForwardSaveFails

LogRuns ==
    \E p \in Proc :
        /\ \/ StartAppend(p, NoGap) \/ AppendSteps(p) \/ Crash(p)
           \/ (RotateInRun \/ fpc = "idle") /\ RotateSteps(p)
        /\ UNCHANGED forwardVars

\* Without RotateInRun a run also waits for a rotation to end.
ForwardRun ==
    /\ RotateInRun \/ \A p \in Proc : pc[p] # "marker"
    /\ ForwardSteps

FNext ==
    \/ ForwardRun
    \/ ForwardCrash
    \/ LogRuns

FSpec == FInit /\ [][FNext]_forwardingVars

\* A run that has begun goes on, and the cursor file can be written now and then.
\* Nothing obliges anyone to begin one, to append or to rotate, but a process that
\* has the log's lock gives it back.
FFairness ==
    /\ WF_forwardingVars(fpc # "idle" /\ ForwardRun)
    /\ SF_forwardingVars(ForwardSave)
    /\ \A p \in Proc : WF_forwardingVars((AppendSteps(p) \/ WriteMarker(p)) /\ UNCHANGED forwardVars)

FLiveSpec == FSpec /\ FFairness

--------------------------------------------------------------------------------
(* Properties *)

\* What the log and the archives still hold, in complete lines.
OnDisk ==
    UNION {{file.lines[i].sha : i \in Complete(file)} :
              file \in {log} \cup {archive[n] : n \in gone + 1 .. Len(archive)}}

\* "A record is sent at least once ... across a rotation of the log too": the
\* cursor never moves past a record that is still on disk and that syslog has
\* not received, since nothing would send it any more.
SentAtLeastOnce == \A r \in OnDisk : r <= cursor.last => r \in sent

\* The same wherever a process is killed or a write fails, as long as no
\* rotation is cut short before its marker, which leaves an archive that no
\* marker leads back to.
SentAtLeastOnceUndisturbed == ~cutShort => SentAtLeastOnce

\* A log is named by its first hash, "which a rotation's rename doesn't change":
\* forwarding starts over, and sends again what it has sent, only when the record
\* it had come to is no longer there, or a rotation that was cut short hides it.
StartsOverOnlyWhenGone ==
    [][cursor'.last < cursor.last /\ ~cutShort => cursor.last \notin OnDisk]_forwardingVars

\* A record syslog could still be sent: on disk, and a rotation that was cut
\* short doesn't hide it.
Waiting(r) == r \notin sent /\ ~cutShort /\ r \in OnDisk

\* "A syslog daemon that was down gets the backlog when it is back": while runs go
\* on being started, behind appends or by hand, no complete record waits for ever;
\* it reaches syslog, unless its archive is deleted first or a rotation is cut
\* short.  In a project nobody appends to again, what is left waits.
BacklogDelivered ==
    []<><<ForwardStart>>_forwardingVars => \A r \in 1 .. MaxSha : []<>~Waiting(r)
================================================================================

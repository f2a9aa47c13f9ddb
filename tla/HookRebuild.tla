------------------------------ MODULE HookRebuild ------------------------------
(***************************************************************************)
(* The background index rebuild that `neuralmind init-hook` puts in git's  *)
(* post-commit, post-merge, post-checkout and post-rewrite hooks, as       *)
(* cli._hook_rebuild_lines writes it.                                      *)
(*                                                                         *)
(* Every git event runs the shell lines once, in a process of its own (a   *)
(* number in Hook).  The events share the files of .neuralmind/:           *)
(*   .hook-build.pending   an event no build has started after             *)
(*   .hook-build.lock/     the mkdir lock; its pid file names the builder  *)
(*   .hook-build.failed    the last build failed                           *)
(* A hook that takes the lock forks a background subshell that loops over  *)
(* builds; the model gives the hook and its subshell one identity, since   *)
(* the foreground part ends when the subshell starts.                      *)
(*                                                                         *)
(* Abstractions: the working tree is the number of git events so far, and  *)
(* the index is the tree a finished build started from.  A value that no   *)
(* later command reads (seen, snap) is dropped.  PIDs are never reused.    *)
(* An hour passes over a lock only while no live builder stands between    *)
(* two of the commands that leave it without a pid file.  A shell command  *)
(* that is killed takes its short-lived children (rm, mkdir, touch) along; *)
(* `neuralmind build`, which runs for minutes, may outlive its subshell.   *)
(***************************************************************************)
EXTENDS Integers, FiniteSets

CONSTANTS Events,      \* bound: the number of git events
          NoPid,       \* the lock has no pid file
          Blank,       \* the pid file has nothing in it yet
          MaxCrashes,  \* bound: kills of hooks, subshells or builds
          MayFail      \* whether `neuralmind build` may exit with an error

\* The git events in the order they come, one hook process each.
Hook == 1 .. Events

ASSUME HookAssumption ==
    /\ Events \in Nat
    /\ NoPid \notin Hook /\ Blank \notin Hook /\ NoPid # Blank
    /\ MaxCrashes \in Nat
    /\ MayFail \in BOOLEAN

VARIABLES tree,     \* number of git events: the version of the working tree
          index,    \* the version the index answers for
          pending, lock, lockPid, failed,
          lockOld,  \* the lock directory was last changed over an hour ago
          open,     \* the builders that have the lock's pid file open to write it
          pc,       \* the next command of each hook
          seen,     \* $_nm_pid: the PID a hook read from the lock
          snap,     \* the tree version of a hook's new event, or of its build
          stolen,   \* history: a hook cleared the lock of a builder that lived
          crashes

vars == <<tree, index, pending, lock, lockPid, failed, lockOld, open, pc, seen, snap,
          stolen, crashes>>
files == <<pending, lock, lockPid, lockOld, open>>

Foreground == {"flag", "look", "probe", "age", "empty", "unlock", "take"}
Builder == {"pid", "name", "unflag", "start", "build", "mark", "again", "rmpid",
            "rmdir", "recheck", "retake"}
PC == Foreground \cup Builder \cup {"idle", "done", "orphan", "dead"}

TypeOK ==
    /\ tree \in 0 .. Events /\ index \in 0 .. tree
    /\ pending \in BOOLEAN /\ lock \in BOOLEAN /\ failed \in BOOLEAN
    /\ lockOld \in BOOLEAN
    /\ lockPid \in Hook \cup {NoPid, Blank}
    /\ lockPid # NoPid => lock
    /\ open \in SUBSET {h \in Hook : pc[h] = "name"}
    /\ pc \in [Hook -> PC]
    /\ seen \in [Hook -> Hook \cup {NoPid}]
    /\ snap \in [Hook -> 0 .. Events]
    /\ stolen \in BOOLEAN
    /\ crashes \in 0 .. MaxCrashes

Init ==
    /\ tree = 0 /\ index = 0
    /\ pending = FALSE /\ lock = FALSE /\ failed = FALSE /\ lockOld = FALSE
    /\ lockPid = NoPid /\ open = {}
    /\ pc = [h \in Hook |-> "idle"]
    /\ seen = [h \in Hook |-> NoPid]
    /\ snap = [h \in Hook |-> 0]
    /\ stolen = FALSE
    /\ crashes = 0

Goto(h, label) == pc' = [pc EXCEPT ![h] = label]

\* `kill -0`: a PID found in the lock is a builder's, and it lives as long as
\* the builder's subshell.
Alive(h) == pc[h] \in Builder

--------------------------------------------------------------------------------
(* The foreground part, run by git and waited for. *)

\* The tree changes (commit, merge, checkout, rewrite) and git runs the hook.
GitEvent(h) ==
    /\ pc[h] = "idle"
    /\ h = tree + 1
    /\ tree' = tree + 1
    /\ snap' = [snap EXCEPT ![h] = tree + 1]
    /\ Goto(h, "flag")
    /\ UNCHANGED <<index, files, failed, seen, stolen, crashes>>

\* Mutant of Flag: the event leaves no flag.
FlagForgotten(h) ==
    /\ pc[h] = "flag"
    /\ snap' = [snap EXCEPT ![h] = 0]
    /\ Goto(h, "look")
    /\ UNCHANGED <<tree, index, files, failed, seen, stolen, crashes>>

Flag(h) ==
    /\ pc[h] = "flag"
    /\ pending' = TRUE
    /\ snap' = [snap EXCEPT ![h] = 0]
    /\ Goto(h, "look")
    /\ UNCHANGED <<tree, index, lock, lockPid, lockOld, open, failed, seen, stolen, crashes>>

\* [ -d lock ] and the cat of its pid file: with no directory, or one that goes
\* between the two commands, there is no PID and nothing to clear.  An empty pid
\* file is as good as none.
Look(h) ==
    /\ pc[h] = "look"
    /\ seen' = [seen EXCEPT ![h] = IF lockPid \in Hook THEN lockPid ELSE NoPid]
    /\ Goto(h, IF ~lock THEN "take" ELSE IF lockPid \in Hook THEN "probe" ELSE "age")
    /\ UNCHANGED <<tree, index, files, failed, snap, stolen, crashes>>

\* Mutant of Probe: a PID in the lock is taken for a live one.
ProbeTrusting(h) ==
    /\ pc[h] = "probe"
    /\ seen' = [seen EXCEPT ![h] = NoPid]
    /\ Goto(h, "take")
    /\ UNCHANGED <<tree, index, files, failed, snap, stolen, crashes>>

Probe(h) ==
    /\ pc[h] = "probe"
    /\ seen' = [seen EXCEPT ![h] = NoPid]
    /\ Goto(h, IF Alive(seen[h]) THEN "take" ELSE "empty")
    /\ UNCHANGED <<tree, index, files, failed, snap, stolen, crashes>>

\* find -mmin +60
AgeTest(h) ==
    /\ pc[h] = "age"
    /\ Goto(h, IF lock /\ lockOld THEN "empty" ELSE "take")
    /\ UNCHANGED <<tree, index, files, failed, seen, snap, stolen, crashes>>

\* The builders between taking the lock and releasing it.
Holding == {h \in Hook : pc[h] \in Builder \ {"recheck", "retake"}}

\* rm -rf: first the pid file, then the directory, which stays if a pid file
\* has come back in between.
ClearPid(h) ==
    /\ pc[h] = "empty"
    /\ lockPid' = NoPid /\ open' = {}
    /\ lockOld' = (lockOld /\ lockPid = NoPid)
    /\ stolen' = (stolen \/ (lock /\ Holding # {}))
    /\ Goto(h, "unlock")
    /\ UNCHANGED <<tree, index, pending, lock, failed, seen, snap, crashes>>

ClearDir(h) ==
    /\ pc[h] = "unlock"
    /\ lock' = (lock /\ lockPid # NoPid)
    /\ stolen' = (stolen \/ (lock /\ Holding # {}))
    /\ Goto(h, "take")
    /\ UNCHANGED <<tree, index, pending, lockPid, lockOld, open, failed, seen, snap, crashes>>

\* Mutant of Take: mkdir -p, which succeeds on a lock that is there.
TakeAnyway(h) ==
    /\ pc[h] = "take"
    /\ lock' = TRUE
    /\ lockOld' = (lock /\ lockOld)
    /\ Goto(h, "pid")
    /\ UNCHANGED <<tree, index, pending, lockPid, open, failed, seen, snap, stolen, crashes>>

\* mkdir: the builder starts, or the hook leaves the event to the running one.
Take(h) ==
    /\ pc[h] = "take"
    /\ lock' = TRUE
    /\ lockOld' = (lock /\ lockOld)
    /\ Goto(h, IF lock THEN "done" ELSE "pid")
    /\ UNCHANGED <<tree, index, pending, lockPid, open, failed, seen, snap, stolen, crashes>>

--------------------------------------------------------------------------------
(* The background subshell: one pass of `while :; do` and its way out. *)

\* The shell opens the pid file before it runs `sh -c`: it creates or empties
\* the file, and only a new file touches the directory.  With the directory gone
\* the redirection fails and nothing is written.
OpenPid(h) ==
    /\ pc[h] = "pid"
    /\ lockPid' = IF lock THEN Blank ELSE lockPid
    /\ open' = IF lock THEN open \cup {h} ELSE open
    /\ lockOld' = (lockOld /\ lockPid # NoPid)
    /\ Goto(h, IF lock THEN "name" ELSE "unflag")
    /\ UNCHANGED <<tree, index, pending, lock, failed, seen, snap, stolen, crashes>>

\* Mutant of NamePid: `$$` in place of `$PPID`, the PID of the hook that forked
\* the subshell and has ended (here the negative of the subshell's).
NameForeground(h) ==
    /\ pc[h] = "name"
    /\ lockPid' = IF h \in open THEN -h ELSE lockPid
    /\ open' = open \ {h}
    /\ Goto(h, "unflag")
    /\ UNCHANGED <<tree, index, pending, lock, lockOld, failed, seen, snap, stolen, crashes>>

\* echo "$PPID": a pid file that was removed in between takes the text with it.
NamePid(h) ==
    /\ pc[h] = "name"
    /\ lockPid' = IF h \in open THEN h ELSE lockPid
    /\ open' = open \ {h}
    /\ Goto(h, "unflag")
    /\ UNCHANGED <<tree, index, pending, lock, lockOld, failed, seen, snap, stolen, crashes>>

Unflag(h) ==
    /\ pc[h] = "unflag"
    /\ pending' = FALSE
    /\ Goto(h, "start")
    /\ UNCHANGED <<tree, index, lock, lockPid, lockOld, open, failed, seen, snap, stolen, crashes>>

\* The build reads the tree...
StartBuild(h) ==
    /\ pc[h] = "start"
    /\ snap' = [snap EXCEPT ![h] = tree]
    /\ Goto(h, "build")
    /\ UNCHANGED <<tree, index, files, failed, seen, stolen, crashes>>

\* ... and writes the index, then its exit status moves the failed marker.
BuildOK(h) ==
    /\ pc[h] = "build"
    /\ index' = snap[h]
    /\ snap' = [snap EXCEPT ![h] = 0]
    /\ Goto(h, "mark")
    /\ UNCHANGED <<tree, files, failed, seen, stolen, crashes>>

MarkOK(h) ==
    /\ pc[h] = "mark"
    /\ failed' = FALSE
    /\ Goto(h, "again")
    /\ UNCHANGED <<tree, index, files, seen, snap, stolen, crashes>>

BuildFails(h) ==
    /\ MayFail
    /\ pc[h] = "build"
    /\ failed' = TRUE
    /\ snap' = [snap EXCEPT ![h] = 0]
    /\ Goto(h, "again")
    /\ UNCHANGED <<tree, index, files, seen, stolen, crashes>>

Again(h) ==
    /\ pc[h] = "again"
    /\ Goto(h, IF pending THEN "pid" ELSE "rmpid")
    /\ UNCHANGED <<tree, index, files, failed, seen, snap, stolen, crashes>>

RemovePid(h) ==
    /\ pc[h] = "rmpid"
    /\ lockPid' = NoPid /\ open' = {}
    /\ lockOld' = (lockOld /\ lockPid = NoPid)
    /\ Goto(h, "rmdir")
    /\ UNCHANGED <<tree, index, pending, lock, failed, seen, snap, stolen, crashes>>

\* Mutant of RemoveDir: the pid file goes, the directory stays.
RemoveDirForgotten(h) ==
    /\ pc[h] = "rmdir"
    /\ lock' = lock
    /\ Goto(h, "recheck")
    /\ UNCHANGED <<tree, index, pending, lockPid, lockOld, open, failed, seen, snap, stolen,
                   crashes>>

\* rmdir: a lock that holds a pid file stays.
RemoveDir(h) ==
    /\ pc[h] = "rmdir"
    /\ lock' = (lock /\ lockPid # NoPid)
    /\ Goto(h, "recheck")
    /\ UNCHANGED <<tree, index, pending, lockPid, lockOld, open, failed, seen, snap, stolen,
                   crashes>>

\* Mutant of Recheck: the builder leaves without looking at the flag again.
NoRecheck(h) ==
    /\ pc[h] = "recheck"
    /\ Goto(h, "done")
    /\ UNCHANGED <<tree, index, files, failed, seen, snap, stolen, crashes>>

Recheck(h) ==
    /\ pc[h] = "recheck"
    /\ Goto(h, IF pending THEN "retake" ELSE "done")
    /\ UNCHANGED <<tree, index, files, failed, seen, snap, stolen, crashes>>

Retake(h) ==
    /\ pc[h] = "retake"
    /\ lock' = TRUE
    /\ lockOld' = (lock /\ lockOld)
    /\ Goto(h, IF lock THEN "done" ELSE "pid")
    /\ UNCHANGED <<tree, index, pending, lockPid, open, failed, seen, snap, stolen, crashes>>

--------------------------------------------------------------------------------
(* The machine: a process is killed, or an hour passes. *)

\* A kill of a hook, of a subshell with what it runs (the machine goes down), or
\* of a build that has lost its subshell.  A build killed alone is BuildFails:
\* its subshell sees the exit status.
Crash(h) ==
    /\ pc[h] \in Foreground \cup Builder \cup {"orphan"}
    /\ crashes < MaxCrashes
    /\ crashes' = crashes + 1
    /\ open' = open \ {h}
    /\ seen' = [seen EXCEPT ![h] = NoPid]
    /\ snap' = [snap EXCEPT ![h] = 0]
    /\ Goto(h, "dead")
    /\ UNCHANGED <<tree, index, pending, lock, lockPid, lockOld, failed, stolen>>

\* A kill of the subshell alone, whose PID the lock holds: the build runs on.
CrashShell(h) ==
    /\ pc[h] = "build"
    /\ crashes < MaxCrashes
    /\ crashes' = crashes + 1
    /\ Goto(h, "orphan")
    /\ UNCHANGED <<tree, index, files, failed, seen, snap, stolen>>

\* Nobody moves the failed marker or looks at the flag when such a build ends.
OrphanEnds(h) ==
    /\ pc[h] = "orphan"
    /\ index' = snap[h] \/ (MayFail /\ index' = index)
    /\ snap' = [snap EXCEPT ![h] = 0]
    /\ Goto(h, "dead")
    /\ UNCHANGED <<tree, files, failed, seen, stolen, crashes>>

HourPasses ==
    /\ lock /\ ~lockOld
    /\ \A h \in Hook : pc[h] \in {"idle", "build", "done", "orphan", "dead"}
    /\ lockOld' = TRUE
    /\ UNCHANGED <<tree, index, pending, lock, lockPid, open, failed, pc, seen, snap, stolen,
                   crashes>>

Foregrounds(h) ==
    \/ Flag(h) \/ Look(h) \/ Probe(h) \/ AgeTest(h) \/ ClearPid(h) \/ ClearDir(h)
    \/ Take(h)

BuildLoop(h) ==
    \/ OpenPid(h) \/ NamePid(h) \/ Unflag(h) \/ StartBuild(h) \/ BuildOK(h) \/ MarkOK(h)
    \/ BuildFails(h) \/ Again(h) \/ RemovePid(h) \/ RemoveDir(h) \/ Recheck(h)
    \/ Retake(h) \/ OrphanEnds(h)

Next ==
    \/ \E h \in Hook :
        \/ GitEvent(h) \/ Foregrounds(h) \/ BuildLoop(h) \/ Crash(h) \/ CrashShell(h)
    \/ HourPasses

\* A started hook and a started builder are ordinary processes the OS schedules;
\* nothing promises that the user makes a git event or that a process is killed.
Fairness == \A h \in Hook : WF_vars(Foregrounds(h) \/ BuildLoop(h))

Spec == Init /\ [][Next]_vars /\ Fairness

--------------------------------------------------------------------------------
(* Properties *)

Building == {h \in Hook : pc[h] \in {"build", "mark", "orphan"}}
Quiet == \A h \in Hook : pc[h] \in {"idle", "done"}

\* The builds that run on although their subshell was killed and their lock is
\* no longer theirs: the next hook found the PID in it dead.
Unlocked == {h \in Hook : pc[h] = "orphan" /\ lockPid # h}

\* "A mkdir lock serializes builds", killed processes and failing builds
\* included, until a hook clears the lock of a builder that lives: two builds run
\* at once only when the subshell of one was killed, and then not before a hook
\* has cleared the lock that named it.
BuildsSerializedUnlessStolen == ~stolen => Cardinality(Building \ Unlocked) <= 1

\* The index never goes back to an older tree than it already covered, but for a
\* build that lost its subshell and then its lock: no other build that started
\* earlier finishes over one that started later.
IndexNeverOlder ==
    [][~stolen => index' >= index \/ \E h \in Unlocked : pc'[h] = "dead"]_index

\* While no process is killed, the lock is never left behind: a lock directory
\* means a live builder stands behind it, so `query_notice`'s "a background
\* rebuild is running" is true and no later event is turned away for nothing.
LockHasBuilder == crashes = 0 /\ lock => \E h \in Hook : Alive(h)

\* "An event that finds the lock taken is never lost": every tree version a git
\* event made is indexed in the end, and stays indexed, when builds succeed, no
\* process is killed and no live builder's lock is cleared.
EveryEventBuilt ==
    \A v \in 1 .. Events :
        tree >= v ~> (stolen \/ failed \/ crashes > 0 \/ [](stolen \/ crashes > 0 \/ index >= v))

\* An event is flagged, but the lock is there with no PID in it and no builder
\* behind it.
Stranded == pending /\ lock /\ lockPid \in {NoPid, Blank} /\ Holding = {}

\* With killed processes and failing builds: an event that comes after the last
\* kill is built, or a failed build is flagged for query_notice, or the event
\* stays flagged for good behind a lock nobody owns, because no event comes to
\* find that lock an hour old.
LaterEventNotLost ==
    \A v \in 1 .. Events :
        (crashes = MaxCrashes /\ \E h \in Hook : pc[h] = "flag" /\ snap[h] = v)
            ~> (stolen \/ index >= v \/ failed \/ []Stranded)

\* No process is left and nothing was killed: then no flag or lock remains, even
\* if a live builder's lock was cleared, and unless it was, the index is current
\* or the failed marker is up.
QuietIsSettled ==
    crashes = 0 /\ Quiet =>
        /\ ~pending /\ ~lock
        /\ stolen \/ index = tree \/ failed
================================================================================

--------------------------- MODULE HookRebuildProofs ---------------------------
(***************************************************************************)
(* Proofs about HookRebuild, for any number of git events, killed          *)
(* processes and failing builds.                                           *)
(***************************************************************************)
EXTENDS HookRebuild, FiniteSetTheorems, TLAPS

\* TypeOK without the bounds of the counters, which need the number of events.
Typed ==
    /\ tree \in Nat /\ index \in Nat
    /\ lock \in BOOLEAN /\ stolen \in BOOLEAN
    /\ lockPid \in Hook \cup {NoPid, Blank}
    /\ pc \in [Hook -> PC]
    /\ snap \in [Hook -> Nat]

\* A step of a hook, for proofs that treat the steps one by one.
LEMMA NextCases ==
    ASSUME [Next]_vars
    PROVE  \/ \E h \in Hook :
                \/ GitEvent(h) \/ Flag(h) \/ Look(h) \/ Probe(h) \/ AgeTest(h)
                \/ ClearPid(h) \/ ClearDir(h) \/ Take(h)
                \/ OpenPid(h) \/ NamePid(h) \/ Unflag(h) \/ StartBuild(h) \/ BuildOK(h) \/ MarkOK(h)
                \/ BuildFails(h) \/ Again(h) \/ RemovePid(h) \/ RemoveDir(h)
                \/ Recheck(h) \/ Retake(h) \/ OrphanEnds(h) \/ Crash(h)
                \/ CrashShell(h)
           \/ HourPasses
           \/ UNCHANGED vars
BY DEF Next, Foregrounds, BuildLoop

--------------------------------------------------------------------------------
(* Type correctness of what the proofs below use *)

LEMMA TypedStep ==
    ASSUME Typed, [Next]_vars
    PROVE  Typed'
<1> USE DEF Typed, Goto, PC, Foreground, Builder
<1>1. ASSUME NEW h \in Hook, GitEvent(h)
      PROVE  Typed'
  BY <1>1 DEF GitEvent, files
<1>2. ASSUME NEW h \in Hook, Flag(h) \/ Look(h) \/ Probe(h) \/ AgeTest(h)
      PROVE  Typed'
  BY <1>2 DEF Flag, Look, Probe, AgeTest, files
<1>3. ASSUME NEW h \in Hook, ClearPid(h) \/ ClearDir(h) \/ Take(h)
      PROVE  Typed'
  BY <1>3 DEF ClearPid, ClearDir, Take
<1>4. ASSUME NEW h \in Hook, OpenPid(h) \/ NamePid(h) \/ Unflag(h) \/ StartBuild(h)
      PROVE  Typed'
  BY <1>4 DEF OpenPid, NamePid, Unflag, StartBuild, files
<1>5. ASSUME NEW h \in Hook, BuildOK(h) \/ MarkOK(h) \/ BuildFails(h) \/ Again(h)
      PROVE  Typed'
  BY <1>5 DEF BuildOK, MarkOK, BuildFails, Again, files
<1>6. ASSUME NEW h \in Hook, RemovePid(h) \/ RemoveDir(h) \/ Recheck(h) \/ Retake(h)
      PROVE  Typed'
  BY <1>6 DEF RemovePid, RemoveDir, Recheck, Retake, files
<1>7. ASSUME NEW h \in Hook, OrphanEnds(h) \/ Crash(h) \/ CrashShell(h)
      PROVE  Typed'
  BY <1>7 DEF OrphanEnds, Crash, CrashShell, files
<1>8. CASE HourPasses \/ UNCHANGED vars
  BY <1>8 DEF HourPasses, vars
<1>9. QED
  BY <1>1, <1>2, <1>3, <1>4, <1>5, <1>6, <1>7, <1>8, NextCases

LEMMA TypedAlways == Spec => []Typed
<1>1. Init => Typed
  <2> SUFFICES ASSUME Init PROVE Typed
    OBVIOUS
  <2>1. lock \in BOOLEAN /\ stolen \in BOOLEAN /\ lockPid \in Hook \cup {NoPid, Blank}
    BY DEF Init
  <2>2. pc \in [Hook -> PC] /\ snap \in [Hook -> Nat]
    BY DEF Init, PC
  <2>3. QED
    BY <2>1, <2>2 DEF Init, Typed
<1>2. Typed /\ [Next]_vars => Typed'
  BY TypedStep
<1>3. QED
  BY <1>1, <1>2, PTL DEF Spec

--------------------------------------------------------------------------------
(* One build at a time *)

\* Who has the lock: a builder between taking it and releasing it, or a build
\* that lost its subshell and that the lock still names.
Owners == Holding \cup {h \in Hook : pc[h] = "orphan" /\ lockPid = h}

\* Until a live builder's lock is cleared, at most one of them has the lock, and
\* the lock is there while it does.
OneHolder ==
    ~stolen =>
        /\ \A g, h \in Owners : g = h
        /\ Owners # {} => lock

\* A step of one hook that takes no lock and leaves the lock alone: it may write
\* its own PID into the lock or remove the one that is there.
LEMMA HolderKept ==
    ASSUME Typed, OneHolder, NEW h \in Hook, NEW label \in PC,
           Goto(h, label), UNCHANGED <<lock, stolen>>,
           lockPid' \in {lockPid, NoPid, Blank, h},
           label \in (Builder \ {"recheck", "retake"}) \cup {"orphan"} => h \in Holding
    PROVE  OneHolder'
<1>1. \A g \in Hook : g # NoPid /\ g # Blank
  BY HookAssumption
<1>2. ASSUME NEW g \in Owners'
      PROVE  g \in Owners
  <2>1. g \in Hook /\ (g # h => pc'[g] = pc[g]) /\ pc'[h] = label
    BY <1>2 DEF Typed, Goto, Owners, Holding
  <2>2. CASE g = h
    BY <1>2, <2>1, <2>2 DEF Owners, Holding, Builder
  <2>3. CASE g # h
    BY <1>1, <1>2, <2>1, <2>3 DEF Owners, Holding
  <2>4. QED
    BY <2>2, <2>3
<1>3. QED
  BY <1>2 DEF OneHolder

\* mkdir: it succeeds only where no lock is, hence where nobody holds one.
LEMMA HolderTakes ==
    ASSUME Typed, OneHolder, NEW h \in Hook, lock' = TRUE, UNCHANGED <<lockPid, stolen>>,
           Goto(h, IF lock THEN "done" ELSE "pid")
    PROVE  OneHolder'
<1>1. CASE lock
  BY <1>1, HolderKept DEF PC, Builder
<1>2. CASE ~lock
  <2>1. ~stolen => Owners = {}
    BY <1>2 DEF OneHolder
  <2>2. Owners' \subseteq Owners \cup {h}
    BY <1>2 DEF Typed, Goto, Owners, Holding, Builder
  <2>3. QED
    BY <2>1, <2>2 DEF OneHolder
<1>3. QED
  BY <1>1, <1>2

LEMMA OneHolderStep ==
    ASSUME Typed, OneHolder, [Next]_vars
    PROVE  OneHolder'
<1>1. ASSUME NEW h \in Hook,
             \/ GitEvent(h) \/ Flag(h) \/ Look(h) \/ Probe(h) \/ AgeTest(h)
             \/ OrphanEnds(h) \/ Crash(h)
      PROVE  OneHolder'
  <2>1. \E label \in PC \ (Builder \cup {"orphan"}) : Goto(h, label)
    BY <1>1 DEF GitEvent, Flag, Look, Probe, AgeTest, OrphanEnds, Crash, Goto, PC,
                Foreground, Builder
  <2>2. UNCHANGED <<lock, lockPid, stolen>>
    BY <1>1 DEF GitEvent, Flag, Look, Probe, AgeTest, OrphanEnds, Crash, files
  <2>3. QED
    BY <2>1, <2>2, HolderKept
<1>2. ASSUME NEW h \in Hook, ClearPid(h)
      PROVE  OneHolder'
  <2>1. CASE stolen'
    BY <2>1 DEF OneHolder
  <2>2. CASE ~stolen'
    <3>1. \E label \in PC \ (Builder \cup {"orphan"}) : Goto(h, label)
      BY <1>2 DEF ClearPid, PC, Foreground, Builder
    <3>2. UNCHANGED <<lock, stolen>> /\ lockPid' = NoPid
      BY <1>2, <2>2 DEF ClearPid, Typed
    <3>3. QED
      BY <3>1, <3>2, HolderKept
  <2>3. QED
    BY <2>1, <2>2
<1>3. ASSUME NEW h \in Hook, ClearDir(h)
      PROVE  OneHolder'
  <2>1. Owners' \subseteq Owners
    BY <1>3 DEF ClearDir, Goto, Owners, Holding, Builder, Typed
  <2>2. stolen' = (stolen \/ (lock /\ Holding # {}))
    BY <1>3 DEF ClearDir
  <2>3. lock' = (lock /\ lockPid # NoPid)
    BY <1>3 DEF ClearDir
  <2>4. ASSUME ~stolen', Owners' # {}
        PROVE  lock'
    <3>1. lock /\ Holding = {} /\ Owners # {}
      BY <2>1, <2>2, <2>4 DEF OneHolder
    <3>2. \E g \in Hook : lockPid = g
      BY <3>1 DEF Owners
    <3>3. QED
      BY <2>3, <3>1, <3>2, HookAssumption
  <2>5. QED
    BY <2>1, <2>2, <2>4 DEF OneHolder
<1>4. ASSUME NEW h \in Hook, Take(h) \/ Retake(h)
      PROVE  OneHolder'
  BY <1>4, HolderTakes DEF Take, Retake
<1>5. ASSUME NEW h \in Hook,
             \/ OpenPid(h) \/ NamePid(h) \/ Unflag(h) \/ StartBuild(h) \/ BuildOK(h) \/ MarkOK(h)
             \/ BuildFails(h) \/ Again(h) \/ RemovePid(h) \/ Recheck(h) \/ CrashShell(h)
      PROVE  OneHolder'
  <2>1. UNCHANGED <<lock, stolen>> /\ lockPid' \in {lockPid, NoPid, Blank, h}
    BY <1>5 DEF OpenPid, NamePid, Unflag, StartBuild, BuildOK, MarkOK, BuildFails, Again,
                RemovePid, Recheck, CrashShell, files
  <2>2. CASE ~Recheck(h)
    <3>1. h \in Holding
      BY <1>5, <2>2 DEF OpenPid, NamePid, Unflag, StartBuild, BuildOK, MarkOK, BuildFails,
                Again, RemovePid, CrashShell, Holding, Builder
    <3>2. \E label \in PC : Goto(h, label)
      BY <1>5, <2>2 DEF OpenPid, NamePid, Unflag, StartBuild, BuildOK, MarkOK, BuildFails,
                Again, RemovePid, CrashShell, PC, Builder
    <3>3. QED
      BY <2>1, <3>1, <3>2, HolderKept
  <2>3. CASE Recheck(h)
    <3>1. Goto(h, "retake") \/ Goto(h, "done")
      BY <2>3 DEF Recheck
    <3>2. QED
      BY <2>1, <3>1, HolderKept DEF PC, Builder
  <2>4. QED
    BY <2>2, <2>3
<1>6. ASSUME NEW h \in Hook, RemoveDir(h)
      PROVE  OneHolder'
  <2>1. h \in Holding /\ Owners' \subseteq Owners \ {h} /\ UNCHANGED stolen
    BY <1>6 DEF RemoveDir, Goto, Owners, Holding, Builder, Typed
  <2>2. ~stolen => Owners' = {}
    BY <2>1 DEF OneHolder, Owners
  <2>3. QED
    BY <2>1, <2>2 DEF OneHolder
<1>7. CASE HourPasses \/ UNCHANGED vars
  BY <1>7 DEF HourPasses, vars, OneHolder, Owners, Holding
<1>8. QED
  BY <1>1, <1>2, <1>3, <1>4, <1>5, <1>6, <1>7, NextCases

LEMMA OneHolderAlways == Spec => []OneHolder
<1>1. Init => OneHolder
  BY DEF Init, OneHolder, Owners, Holding, Builder
<1>2. Typed /\ OneHolder /\ [Next]_vars => OneHolder'
  BY OneHolderStep
<1>3. QED
  BY <1>1, <1>2, TypedAlways, PTL DEF Spec

\* "A mkdir lock serializes builds" (cli.py:6968), whatever processes are killed
\* and builds fail, until a hook clears a live builder's lock: a build whose
\* subshell was killed and whose lock is cleared is the only one beside which
\* another may run.
THEOREM Serialized == Spec => []BuildsSerializedUnlessStolen
<1>1. OneHolder => BuildsSerializedUnlessStolen
  <2> DEFINE Locked == Building \ Unlocked
  <2> SUFFICES ASSUME OneHolder, ~stolen PROVE Cardinality(Locked) <= 1
    BY DEF BuildsSerializedUnlessStolen
  <2>1. Locked \subseteq Owners
    BY DEF Building, Unlocked, Owners, Holding, Builder
  <2>2. CASE Locked = {}
    BY <2>2, FS_EmptySet
  <2>3. ASSUME NEW h \in Locked
        PROVE  Cardinality(Locked) <= 1
    <3>1. Locked = {h}
      BY <2>1, <2>3 DEF OneHolder
    <3>2. QED
      BY <3>1, FS_Singleton
  <2>4. QED
    BY <2>2, <2>3
<1>2. QED
  BY <1>1, OneHolderAlways, PTL

--------------------------------------------------------------------------------
(* The index never goes back *)

\* The builds behind a lock: those of living builders, and those the lock still
\* names though their subshell was killed.
Under == {h \in Hook : pc[h] \in {"build", "orphan"}}
Kept == {h \in Hook : pc[h] = "build" \/ (pc[h] = "orphan" /\ lockPid = h)}

\* A build behind a lock covers a tree at least as new as the index and as any
\* other build under way, and no newer than the present one: it started last,
\* and no other behind a lock has moved the index since.
NewestBuild ==
    /\ index <= tree
    /\ \A h \in Under : snap[h] <= tree
    /\ ~stolen => \A h \in Kept : snap[h] >= index /\ \A g \in Under : snap[h] >= snap[g]

\* A step that starts and ends no build.
LEMMA NewestBuildKept ==
    ASSUME Typed, NewestBuild, tree' >= tree, UNCHANGED index, stolen => stolen',
           Under' \subseteq Under, Kept' \subseteq Kept, tree' \in Nat,
           \A h \in Under' : snap'[h] = snap[h]
    PROVE  NewestBuild'
<1>1. Kept' \subseteq Under' /\ Under \subseteq Hook
  BY DEF Kept, Under
<1>2. index' <= tree'
  BY DEF Typed, NewestBuild
<1>3. \A h \in Under' : snap'[h] <= tree'
  BY <1>1 DEF Typed, NewestBuild
<1>4. ASSUME ~stolen', NEW h \in Kept'
      PROVE  snap'[h] >= index' /\ \A g \in Under' : snap'[h] >= snap'[g]
  BY <1>1, <1>4 DEF NewestBuild
<1>5. QED
  BY <1>2, <1>3, <1>4 DEF NewestBuild

LEMMA NewestBuildStep ==
    ASSUME Typed, OneHolder, NewestBuild, [Next]_vars
    PROVE  NewestBuild'
<1> USE DEF Typed
<1>1. Kept \subseteq Owners /\ Kept \subseteq Under
  BY DEF Kept, Under, Owners, Holding, Builder
\* A step that neither starts a build nor writes the PID of one.
<1>2. ASSUME NEW h \in Hook, NEW label \in PC \ {"build", "orphan"}, Goto(h, label),
             \A g \in Hook \ {h} : lockPid' = g => lockPid = g
      PROVE  Under' \subseteq Under \ {h} /\ Kept' \subseteq Kept \ {h}
  BY <1>2 DEF Goto, Under, Kept
<1>3. ASSUME NEW h \in Hook, GitEvent(h)
      PROVE  NewestBuild'
  <2>1. Under' \subseteq Under \ {h} /\ Kept' \subseteq Kept
    BY <1>2, <1>3 DEF GitEvent, files, PC, Foreground, Builder
  <2>2. tree' = tree + 1 /\ snap' = [snap EXCEPT ![h] = tree + 1]
        /\ UNCHANGED <<index, stolen>>
    BY <1>3 DEF GitEvent
  <2>3. QED
    BY <2>1, <2>2, NewestBuildKept DEF Under
<1>4. ASSUME NEW h \in Hook, StartBuild(h)
      PROVE  NewestBuild'
  <2>1. /\ pc[h] = "start" /\ pc' = [pc EXCEPT ![h] = "build"]
        /\ snap' = [snap EXCEPT ![h] = tree]
        /\ UNCHANGED <<tree, index, lockPid, stolen>>
    BY <1>4 DEF StartBuild, Goto, files
  <2>2. Under' \subseteq Under \cup {h} /\ Kept' \subseteq Kept \cup {h} /\ h \notin Kept
    BY <2>1 DEF Under, Kept
  <2>3. h \in Owners
    BY <2>1 DEF Owners, Holding, Builder
  <2>4. ~stolen => Kept' \subseteq {h}
    BY <1>1, <2>2, <2>3 DEF OneHolder
  <2>5. \A g \in Under' : snap'[g] <= tree
    BY <2>1, <2>2 DEF NewestBuild, Under
  <2>6. snap'[h] = tree
    BY <2>1
  <2>7. QED
    BY <2>1, <2>4, <2>5, <2>6 DEF NewestBuild, Under
<1>5. ASSUME NEW h \in Hook, BuildOK(h) \/ OrphanEnds(h)
      PROVE  NewestBuild'
  <2>1. /\ h \in Under /\ index' \in {snap[h], index}
        /\ snap' = [snap EXCEPT ![h] = 0]
        /\ UNCHANGED <<tree, lockPid, stolen>>
    BY <1>5 DEF BuildOK, OrphanEnds, files, Under
  <2>2. Goto(h, "mark") \/ Goto(h, "dead")
    BY <1>5 DEF BuildOK, OrphanEnds
  <2>3. Under' \subseteq Under \ {h} /\ Kept' \subseteq Kept \ {h}
    BY <1>2, <2>1, <2>2 DEF PC, Builder
  <2>4. \A g \in Under' : snap'[g] = snap[g] /\ g \in Hook
    BY <2>1, <2>3 DEF Under
  <2>5. index' <= tree'
    BY <2>1 DEF NewestBuild
  <2>6. \A g \in Under' : snap'[g] <= tree'
    BY <2>1, <2>3, <2>4 DEF NewestBuild
  <2>7. ASSUME ~stolen', NEW g \in Kept'
        PROVE  snap'[g] >= index' /\ \A k \in Under' : snap'[g] >= snap'[k]
    <3>1. g \in Kept /\ g \in Under' /\ g \in Hook
      BY <2>3 DEF Kept, Under
    <3>2. snap[g] >= index /\ snap[g] >= snap[h] /\ \A k \in Under : snap[g] >= snap[k]
      BY <2>1, <2>7, <3>1 DEF NewestBuild
    <3>3. QED
      BY <2>1, <2>3, <2>4, <3>1, <3>2
  <2>8. QED
    BY <2>5, <2>6, <2>7 DEF NewestBuild
<1>6. ASSUME NEW h \in Hook,
             \/ Flag(h) \/ Look(h) \/ Probe(h) \/ AgeTest(h) \/ Take(h)
             \/ ClearPid(h) \/ ClearDir(h) \/ OpenPid(h) \/ NamePid(h) \/ Unflag(h)
             \/ MarkOK(h) \/ BuildFails(h) \/ Again(h) \/ RemovePid(h) \/ RemoveDir(h)
             \/ Recheck(h) \/ Retake(h) \/ Crash(h)
      PROVE  NewestBuild'
  <2>1. UNCHANGED <<tree, index>> /\ (stolen => stolen') /\ lockPid' \in {lockPid, NoPid, Blank, h}
    BY <1>6 DEF Flag, Look, Probe, AgeTest, Take, ClearPid, ClearDir, OpenPid, NamePid,
                Unflag, MarkOK, BuildFails, Again, RemovePid, RemoveDir, Recheck, Retake,
                Crash, files
  <2>2. snap' = snap \/ snap' = [snap EXCEPT ![h] = 0]
    BY <1>6 DEF Flag, Look, Probe, AgeTest, Take, ClearPid, ClearDir, OpenPid, NamePid,
                Unflag, MarkOK, BuildFails, Again, RemovePid, RemoveDir, Recheck, Retake,
                Crash
  <2>3. \E label \in PC \ {"build", "orphan"} : Goto(h, label)
    BY <1>6 DEF Flag, Look, Probe, AgeTest, Take, ClearPid, ClearDir, OpenPid, NamePid,
                Unflag, MarkOK, BuildFails, Again, RemovePid, RemoveDir, Recheck, Retake,
                Crash, PC, Foreground, Builder
  <2>4. \A g \in Hook \ {h} : lockPid' = g => lockPid = g
    BY <2>1, HookAssumption
  <2>5. Under' \subseteq Under \ {h} /\ Kept' \subseteq Kept
    BY <1>2, <2>3, <2>4
  <2>6. \A g \in Under' : snap'[g] = snap[g]
    BY <2>2, <2>5 DEF Under
  <2>7. QED
    BY <2>1, <2>5, <2>6, NewestBuildKept
<1>7. ASSUME NEW h \in Hook, CrashShell(h)
      PROVE  NewestBuild'
  <2>1. /\ pc[h] = "build" /\ pc' = [pc EXCEPT ![h] = "orphan"]
        /\ UNCHANGED <<tree, index, snap, lockPid, stolen>>
    BY <1>7 DEF CrashShell, Goto, files
  <2>2. Under' \subseteq Under /\ Kept' \subseteq Kept
    BY <2>1 DEF Under, Kept
  <2>3. QED
    BY <2>1, <2>2, NewestBuildKept
<1>8. CASE HourPasses \/ UNCHANGED vars
  <2>1. UNCHANGED <<tree, index, pc, snap, lockPid, stolen>>
    BY <1>8 DEF HourPasses, vars
  <2>2. QED
    BY <2>1, NewestBuildKept DEF Under, Kept
<1>9. QED
  BY <1>3, <1>4, <1>5, <1>6, <1>7, <1>8, NextCases

\* Only a build that ends moves the index.
LEMMA IndexStep ==
    ASSUME Typed, NewestBuild, [Next]_vars
    PROVE  [~stolen => index' >= index \/ \E h \in Unlocked : pc'[h] = "dead"]_index
<1>1. ASSUME NEW h \in Hook, BuildOK(h)
      PROVE  ~stolen => index' >= index
  BY <1>1 DEF BuildOK, NewestBuild, Kept
<1>2. ASSUME NEW h \in Hook, OrphanEnds(h)
      PROVE  ~stolen => index' >= index \/ \E g \in Unlocked : pc'[g] = "dead"
  <2>1. pc[h] = "orphan" /\ pc'[h] = "dead" /\ index' \in {snap[h], index}
    BY <1>2 DEF OrphanEnds, Goto, Typed
  <2>2. CASE lockPid = h
    <3>1. ~stolen => snap[h] >= index
      BY <2>1, <2>2 DEF NewestBuild, Kept
    <3>2. QED
      BY <2>1, <3>1 DEF Typed
  <2>3. CASE lockPid # h
    BY <2>1, <2>3 DEF Unlocked
  <2>4. QED
    BY <2>2, <2>3
<1>3. ASSUME NEW h \in Hook,
             \/ GitEvent(h) \/ Flag(h) \/ Look(h) \/ Probe(h) \/ AgeTest(h)
             \/ ClearPid(h) \/ ClearDir(h) \/ Take(h)
             \/ OpenPid(h) \/ NamePid(h) \/ Unflag(h) \/ StartBuild(h) \/ MarkOK(h)
             \/ BuildFails(h) \/ Again(h) \/ RemovePid(h) \/ RemoveDir(h)
             \/ Recheck(h) \/ Retake(h) \/ Crash(h) \/ CrashShell(h)
      PROVE  index' = index
  BY <1>3 DEF GitEvent, Flag, Look, Probe, AgeTest, ClearPid, ClearDir, Take, OpenPid,
              NamePid, Unflag, StartBuild, MarkOK, BuildFails, Again, RemovePid,
              RemoveDir, Recheck, Retake, Crash, CrashShell
<1>4. CASE HourPasses \/ UNCHANGED vars
  BY <1>4 DEF HourPasses, vars
<1>5. QED
  BY <1>1, <1>2, <1>3, <1>4, NextCases

\* No build replaces the index by an older one until a hook clears a live
\* builder's lock (the build started at cli.py:7034), but for a build that lost
\* its subshell and whose lock a later hook has cleared.
THEOREM IndexGrows == Spec => IndexNeverOlder
<1>1. Init => NewestBuild
  BY DEF Init, NewestBuild, Under, Kept
<1>2. Typed /\ OneHolder /\ NewestBuild /\ [Next]_vars => NewestBuild'
  BY NewestBuildStep
<1>3. Typed /\ NewestBuild /\ [Next]_vars
        => [~stolen => index' >= index \/ \E h \in Unlocked : pc'[h] = "dead"]_index
  BY IndexStep
<1>4. QED
  BY <1>1, <1>2, <1>3, TypedAlways, OneHolderAlways, PTL DEF Spec, IndexNeverOlder
--------------------------------------------------------------------------------
(* The counters *)

\* The events come in the order of their numbers, and neither the index nor a
\* build is of a tree still to come.
Counted ==
    /\ tree <= Events
    /\ \A h \in Hook : pc[h] # "idle" => h <= tree
    /\ index <= tree
    /\ \A h \in Hook : snap[h] <= tree

\* The variables TypeOK speaks of and Typed doesn't.
Flags ==
    /\ pending \in BOOLEAN /\ failed \in BOOLEAN /\ lockOld \in BOOLEAN
    /\ lockPid # NoPid => lock
    /\ open # {} => lockPid # NoPid
    /\ open \in SUBSET {h \in Hook : pc[h] = "name"}
    /\ seen \in [Hook -> Hook \cup {NoPid}]
    /\ crashes \in 0 .. MaxCrashes
    /\ \A h \in Hook : pc[h] = "orphan" => crashes > 0

\* A step of one hook that opens no pid file and puts no file into the lock.
LEMMA FlagsKept ==
    ASSUME Typed, Flags, NEW h \in Hook, NEW label \in PC \ {"orphan"}, Goto(h, label),
           pending' \in BOOLEAN, failed' \in BOOLEAN, lockOld' \in BOOLEAN,
           \/ lockPid' = lockPid /\ (lock => lock')
           \/ lockPid' = NoPid,
           open' = {} \/ (open' = open \ {h} /\ lockPid' = lockPid),
           seen' \in [Hook -> Hook \cup {NoPid}],
           crashes' \in {crashes, crashes + 1}, crashes' <= MaxCrashes
    PROVE  Flags'
<1> USE HookAssumption DEF Flags, Typed
<1>1. (lockPid' # NoPid => lock') /\ (open' # {} => lockPid' # NoPid)
  OBVIOUS
<1>2. open' \in SUBSET {g \in Hook : pc'[g] = "name"}
  BY DEF Goto
<1>3. crashes' \in 0 .. MaxCrashes
  OBVIOUS
<1>4. \A g \in Hook : pc'[g] = "orphan" => crashes' > 0
  BY DEF Goto
<1>5. QED
  BY <1>1, <1>2, <1>3, <1>4

LEMMA FlagsStep ==
    ASSUME Typed, Flags, [Next]_vars
    PROVE  Flags'
<1> USE HookAssumption DEF Flags, Typed
<1>1. ASSUME NEW h \in Hook,
             \/ GitEvent(h) \/ Flag(h) \/ Look(h) \/ Probe(h) \/ AgeTest(h) \/ ClearPid(h)
             \/ Take(h) \/ Unflag(h) \/ StartBuild(h) \/ BuildOK(h) \/ MarkOK(h)
             \/ BuildFails(h) \/ Again(h) \/ RemovePid(h) \/ Recheck(h) \/ Retake(h)
             \/ OrphanEnds(h) \/ Crash(h)
      PROVE  Flags'
  <2>1. \E label \in PC \ {"orphan"} : Goto(h, label)
    BY <1>1 DEF GitEvent, Flag, Look, Probe, AgeTest, ClearPid, Take, Unflag, StartBuild,
                BuildOK, MarkOK, BuildFails, Again, RemovePid, Recheck, Retake,
                OrphanEnds, Crash, PC, Foreground, Builder
  <2>2. pending' \in BOOLEAN /\ failed' \in BOOLEAN /\ lockOld' \in BOOLEAN
    BY <1>1 DEF GitEvent, Flag, Look, Probe, AgeTest, ClearPid, Take, Unflag, StartBuild,
                BuildOK, MarkOK, BuildFails, Again, RemovePid, Recheck, Retake,
                OrphanEnds, Crash, files
  <2>3. \/ lockPid' = lockPid /\ (lock => lock')
        \/ lockPid' = NoPid
    BY <1>1 DEF GitEvent, Flag, Look, Probe, AgeTest, ClearPid, Take, Unflag, StartBuild,
                BuildOK, MarkOK, BuildFails, Again, RemovePid, Recheck, Retake,
                OrphanEnds, Crash, files
  <2>4. open' = {} \/ (open' = open \ {h} /\ lockPid' = lockPid)
    BY <1>1 DEF GitEvent, Flag, Look, Probe, AgeTest, ClearPid, Take, Unflag, StartBuild,
                BuildOK, MarkOK, BuildFails, Again, RemovePid, Recheck, Retake,
                OrphanEnds, Crash, files
  <2>5. seen' \in [Hook -> Hook \cup {NoPid}]
    BY <1>1 DEF GitEvent, Flag, Look, Probe, AgeTest, ClearPid, Take, Unflag, StartBuild,
                BuildOK, MarkOK, BuildFails, Again, RemovePid, Recheck, Retake,
                OrphanEnds, Crash
  <2>6. crashes' \in {crashes, crashes + 1} /\ crashes' <= MaxCrashes
    BY <1>1 DEF GitEvent, Flag, Look, Probe, AgeTest, ClearPid, Take, Unflag, StartBuild,
                BuildOK, MarkOK, BuildFails, Again, RemovePid, Recheck, Retake,
                OrphanEnds, Crash
  <2>7. QED
    BY <2>1, <2>2, <2>3, <2>4, <2>5, <2>6, FlagsKept
<1>2. ASSUME NEW h \in Hook, ClearDir(h) \/ RemoveDir(h)
      PROVE  Flags'
  <2>1. \E label \in PC \ {"orphan"} : Goto(h, label)
    BY <1>2 DEF ClearDir, RemoveDir, PC, Foreground, Builder
  <2>2. /\ lock' = (lock /\ lockPid # NoPid)
        /\ UNCHANGED <<pending, failed, lockPid, lockOld, open, seen, crashes>>
    BY <1>2 DEF ClearDir, RemoveDir
  <2>3. open \ {h} = open
    BY <1>2 DEF ClearDir, RemoveDir
  <2>4. QED
    BY <2>1, <2>2, <2>3, FlagsKept
<1>3. ASSUME NEW h \in Hook, OpenPid(h) \/ NamePid(h)
      PROVE  Flags'
  <2>1. CASE OpenPid(h)
    BY <2>1 DEF OpenPid, Goto, PC, Builder
  <2>2. CASE NamePid(h)
    BY <2>2 DEF NamePid, Goto, PC, Builder
  <2>3. QED
    BY <1>3, <2>1, <2>2
<1>4. ASSUME NEW h \in Hook, CrashShell(h)
      PROVE  Flags'
  BY <1>4 DEF CrashShell, Goto, files
<1>5. CASE HourPasses \/ UNCHANGED vars
  BY <1>5 DEF HourPasses, vars
<1>6. QED
  BY <1>1, <1>2, <1>3, <1>4, <1>5, NextCases

LEMMA FlagsAlways == Spec => []Flags
<1>1. Init => Flags
  <2> SUFFICES ASSUME Init PROVE Flags
    OBVIOUS
  <2>1. pending \in BOOLEAN /\ failed \in BOOLEAN /\ lockOld \in BOOLEAN
    BY DEF Init
  <2>2. /\ lockPid = NoPid /\ open = {} /\ \A h \in Hook : pc[h] # "orphan"
        /\ seen \in [Hook -> Hook \cup {NoPid}]
        /\ crashes \in 0 .. MaxCrashes
    BY HookAssumption DEF Init
  <2>3. QED
    BY <2>1, <2>2 DEF Flags
<1>2. Typed /\ Flags /\ [Next]_vars => Flags'
  BY FlagsStep
<1>3. QED
  BY <1>1, <1>2, TypedAlways, PTL DEF Spec

LEMMA CountedStep ==
    ASSUME Typed, Counted, [Next]_vars
    PROVE  Counted'
<1> USE HookAssumption DEF Typed, Hook
<1>1. ASSUME NEW h \in Hook, GitEvent(h)
      PROVE  Counted'
  BY <1>1 DEF GitEvent, Goto, Counted
<1>2. ASSUME NEW h \in Hook,
             \/ Flag(h) \/ Look(h) \/ Probe(h) \/ AgeTest(h)
             \/ ClearPid(h) \/ ClearDir(h) \/ Take(h)
             \/ OpenPid(h) \/ NamePid(h) \/ Unflag(h) \/ StartBuild(h) \/ BuildOK(h)
             \/ MarkOK(h) \/ BuildFails(h) \/ Again(h) \/ RemovePid(h) \/ RemoveDir(h)
             \/ Recheck(h) \/ Retake(h) \/ OrphanEnds(h) \/ Crash(h) \/ CrashShell(h)
      PROVE  Counted'
  <2>1. pc[h] # "idle" /\ \E label \in PC : Goto(h, label)
    BY <1>2 DEF Flag, Look, Probe, AgeTest, ClearPid, ClearDir, Take, OpenPid, NamePid,
                Unflag, StartBuild, BuildOK, MarkOK, BuildFails, Again, RemovePid,
                RemoveDir, Recheck, Retake, OrphanEnds, Crash, CrashShell, PC,
                Foreground, Builder
  <2>2. \A g \in Hook : pc'[g] # "idle" => pc[g] # "idle"
    BY <2>1 DEF Goto
  <2>3. /\ tree' = tree
        /\ index' \in {index, snap[h]}
        /\ snap' = snap \/ \E n \in {0, tree} : snap' = [snap EXCEPT ![h] = n]
    BY <1>2 DEF Flag, Look, Probe, AgeTest, ClearPid, ClearDir, Take, OpenPid, NamePid,
                Unflag, StartBuild, BuildOK, MarkOK, BuildFails, Again, RemovePid,
                RemoveDir, Recheck, Retake, OrphanEnds, Crash, CrashShell
  <2>4. index' <= tree'
    BY <2>3 DEF Counted
  <2>5. ASSUME NEW g \in Hook
        PROVE  snap'[g] <= tree'
    <3>1. snap'[g] \in {snap[g], 0, tree}
      BY <2>3
    <3>2. QED
      BY <2>3, <3>1 DEF Counted
  <2>6. QED
    BY <2>2, <2>3, <2>4, <2>5 DEF Counted
<1>3. CASE HourPasses \/ UNCHANGED vars
  BY <1>3 DEF HourPasses, vars, Counted
<1>4. QED
  BY <1>1, <1>2, <1>3, NextCases

\* The files, the counters and what each hook and builder holds stay well-formed:
\* the PID in a lock is that of a subshell (cli.py:7032), a pid file lies in a
\* lock directory, and neither the index nor a build is ever ahead of the tree.
THEOREM TypeCorrect == Spec => []TypeOK
<1>1. Init => Counted
  BY HookAssumption DEF Init, Counted
<1>2. Typed /\ Counted /\ [Next]_vars => Counted'
  BY CountedStep
<1>3. Typed /\ Flags /\ Counted => TypeOK
  BY HookAssumption DEF Typed, Flags, Counted, TypeOK
<1>4. QED
  BY <1>1, <1>2, <1>3, TypedAlways, FlagsAlways, PTL DEF Spec
--------------------------------------------------------------------------------
(* While no process is killed: the lock has a builder, the flag a reader *)

\* The builders that stand between taking the lock and removing its pid file.
Named == {h \in Hook : pc[h] \in Builder \ {"rmdir", "recheck", "retake"}}

\* Behind a pid file in the lock stands a builder that will remove it, and behind
\* a lock directory one that will remove that.
LockKept ==
    crashes = 0 =>
        /\ lockPid # NoPid => Named # {}
        /\ lock => Holding # {}

\* A flagged event is one some process has still to look at.
FlagKept ==
    crashes = 0 /\ pending => \E h \in Hook : pc[h] \in (Foreground \ {"flag"}) \cup Builder

LEMMA LockKeptStep ==
    ASSUME Typed, Flags, LockKept, [Next]_vars
    PROVE  LockKept'
<1> USE DEF Typed, Flags
<1>1. ASSUME NEW h \in Hook,
             \/ GitEvent(h) \/ Flag(h) \/ Look(h) \/ Probe(h) \/ AgeTest(h) \/ Recheck(h)
             \/ (Take(h) \/ Retake(h)) /\ lock
      PROVE  LockKept'
  <2>1. h \notin Holding /\ UNCHANGED <<lockPid, lock, crashes>>
    BY <1>1 DEF GitEvent, Flag, Look, Probe, AgeTest, Recheck, Take, Retake, Holding,
                Builder, files
  <2>2. \E label \in PC : Goto(h, label)
    BY <1>1 DEF GitEvent, Flag, Look, Probe, AgeTest, Recheck, Take, Retake, PC,
                Foreground, Builder
  <2>3. Holding \subseteq Holding' /\ Named \subseteq Named'
    BY <2>1, <2>2 DEF Holding, Named, Goto
  <2>4. QED
    BY <2>1, <2>3 DEF LockKept
<1>2. ASSUME NEW h \in Hook, ClearPid(h) \/ ClearDir(h)
      PROVE  LockKept'
  <2>1. /\ lockPid' \in {lockPid, NoPid} /\ (lock' => lock) /\ UNCHANGED crashes
    BY <1>2 DEF ClearPid, ClearDir
  <2>2. Holding \subseteq Holding' /\ Named \subseteq Named'
    BY <1>2 DEF ClearPid, ClearDir, Holding, Named, Goto, Builder
  <2>3. QED
    BY <2>1, <2>2 DEF LockKept
<1>3. ASSUME NEW h \in Hook, Take(h) \/ Retake(h), ~lock
      PROVE  LockKept'
  <2>1. Goto(h, "pid") /\ UNCHANGED <<lockPid, crashes>>
    BY <1>3 DEF Take, Retake
  <2>2. h \in Holding' /\ Named \subseteq Named'
    BY <2>1 DEF Holding, Named, Goto, Builder
  <2>3. QED
    BY <2>1, <2>2 DEF LockKept
<1>4. ASSUME NEW h \in Hook,
             \/ OpenPid(h) \/ NamePid(h) \/ Unflag(h) \/ StartBuild(h) \/ BuildOK(h)
             \/ MarkOK(h) \/ BuildFails(h) \/ Again(h)
      PROVE  LockKept'
  <2>1. \E label \in Builder \ {"rmdir", "recheck", "retake"} : Goto(h, label)
    BY <1>4 DEF OpenPid, NamePid, Unflag, StartBuild, BuildOK, MarkOK, BuildFails, Again,
                Builder
  <2>2. UNCHANGED <<lock, crashes>>
    BY <1>4 DEF OpenPid, NamePid, Unflag, StartBuild, BuildOK, MarkOK, BuildFails, Again,
                files
  <2>3. h \in Named' /\ Holding \subseteq Holding'
    BY <2>1 DEF Holding, Named, Goto
  <2>4. QED
    BY <2>2, <2>3 DEF LockKept
<1>5. ASSUME NEW h \in Hook, RemovePid(h)
      PROVE  LockKept'
  <2>1. Holding \subseteq Holding' /\ lockPid' = NoPid /\ UNCHANGED <<lock, crashes>>
    BY <1>5 DEF RemovePid, Holding, Goto, Builder
  <2>2. QED
    BY <2>1 DEF LockKept
<1>6. ASSUME NEW h \in Hook, RemoveDir(h)
      PROVE  LockKept'
  <2>1. /\ lock' = (lock /\ lockPid # NoPid) /\ UNCHANGED <<lockPid, crashes>>
        /\ Named \subseteq Named' /\ Named' \subseteq Holding'
    BY <1>6 DEF RemoveDir, Holding, Named, Goto, Builder
  <2>2. QED
    BY <2>1 DEF LockKept
<1>7. ASSUME NEW h \in Hook, Crash(h) \/ CrashShell(h) \/ OrphanEnds(h)
      PROVE  LockKept'
  BY <1>7 DEF Crash, CrashShell, OrphanEnds, LockKept
<1>8. CASE HourPasses \/ UNCHANGED vars
  BY <1>8 DEF HourPasses, vars, LockKept, Holding, Named
<1>9. QED
  BY <1>1, <1>2, <1>3, <1>4, <1>5, <1>6, <1>7, <1>8, NextCases

LEMMA LockKeptAlways == Spec => []LockKept
<1>1. Init => LockKept
  BY DEF Init, LockKept
<1>2. Typed /\ Flags /\ LockKept /\ [Next]_vars => LockKept'
  BY LockKeptStep
<1>3. QED
  BY <1>1, <1>2, TypedAlways, FlagsAlways, PTL DEF Spec

\* "A background rebuild is running" is said of a lock directory that is there
\* (freshness.py:909): while no process is killed a builder stands behind it,
\* whichever hook cleared or took the lock before.
THEOREM LockOwned == Spec => []LockHasBuilder
<1>1. LockKept => LockHasBuilder
  BY DEF LockKept, LockHasBuilder, Holding, Alive, Builder
<1>2. QED
  BY <1>1, LockKeptAlways, PTL

\* A hook only leaves a flag behind when it saw a lock, whose builder will look
\* at the flag before it goes, or when it saw no flag.
LEMMA FlagKeptStep ==
    ASSUME Typed, Flags, LockKept, FlagKept, [Next]_vars
    PROVE  FlagKept'
<1> USE DEF Typed, Flags
<1>1. ASSUME NEW h \in Hook, GitEvent(h)
      PROVE  FlagKept'
  BY <1>1 DEF GitEvent, Goto, files, FlagKept, Foreground, Builder
<1>2. ASSUME NEW h \in Hook,
             \/ Flag(h) \/ Look(h) \/ Probe(h) \/ AgeTest(h) \/ ClearPid(h) \/ ClearDir(h)
             \/ OpenPid(h) \/ NamePid(h) \/ Unflag(h) \/ StartBuild(h) \/ BuildOK(h) \/ MarkOK(h)
             \/ BuildFails(h) \/ Again(h) \/ RemovePid(h) \/ RemoveDir(h)
      PROVE  FlagKept'
  <2>1. \E label \in (Foreground \ {"flag"}) \cup Builder : Goto(h, label)
    BY <1>2 DEF Flag, Look, Probe, AgeTest, ClearPid, ClearDir, OpenPid, NamePid, Unflag,
                StartBuild, BuildOK, MarkOK, BuildFails, Again, RemovePid, RemoveDir,
                Foreground, Builder
  <2>2. pc'[h] \in (Foreground \ {"flag"}) \cup Builder
    BY <2>1 DEF Goto
  <2>3. QED
    BY <2>2 DEF FlagKept
<1>3. ASSUME NEW h \in Hook, Take(h) \/ Retake(h), lock
      PROVE  FlagKept'
  <2>1. /\ \A g \in Hook \ {h} : pc'[g] = pc[g]
        /\ h \notin Holding /\ UNCHANGED crashes
    BY <1>3 DEF Take, Retake, Goto, Holding, Builder
  <2>2. crashes = 0 => \E g \in Hook \ {h} : pc'[g] \in Builder
    BY <1>3, <2>1 DEF LockKept, Holding
  <2>3. QED
    BY <2>1, <2>2 DEF FlagKept
<1>4. ASSUME NEW h \in Hook, Take(h) \/ Retake(h), ~lock
      PROVE  FlagKept'
  BY <1>4 DEF Take, Retake, Goto, FlagKept, Builder
<1>5. ASSUME NEW h \in Hook, Recheck(h)
      PROVE  FlagKept'
  <2>1. CASE pending
    BY <1>5, <2>1 DEF Recheck, Goto, FlagKept, Builder
  <2>2. CASE ~pending
    BY <1>5, <2>2 DEF Recheck, files, FlagKept
  <2>3. QED
    BY <2>1, <2>2
<1>6. ASSUME NEW h \in Hook, Crash(h) \/ CrashShell(h) \/ OrphanEnds(h)
      PROVE  FlagKept'
  <2>1. crashes' > 0
    BY <1>6 DEF Crash, CrashShell, OrphanEnds
  <2>2. QED
    BY <2>1 DEF FlagKept
<1>7. CASE HourPasses \/ UNCHANGED vars
  BY <1>7 DEF HourPasses, vars, FlagKept
<1>8. QED
  BY <1>1, <1>2, <1>3, <1>4, <1>5, <1>6, <1>7, NextCases

--------------------------------------------------------------------------------
(* Until a live builder's lock is cleared: every event is covered *)

\* An event has left its flag, or is about to.
Owed == pending \/ \E g \in Hook : pc[g] = "flag"

\* A build that runs or has just run is of the present tree, or an event is owed
\* a build; and when none runs or starts, the index is of the present tree, the
\* failed marker is up, or an event is owed a build.
Covered ==
    crashes = 0 /\ ~stolen =>
        /\ \A h \in Hook : pc[h] = "build" => snap[h] = tree \/ Owed
        /\ \A h \in Hook : pc[h] = "mark" => index = tree \/ Owed
        /\ \/ failed \/ index = tree \/ Owed
           \/ \E h \in Hook : pc[h] \in {"start", "build"}

LEMMA CoveredStep ==
    ASSUME Typed, Flags, OneHolder, Covered, [Next]_vars
    PROVE  Covered'
<1> USE DEF Typed, Flags
\* A step that touches neither a build nor what it covers.
<1>1. ASSUME NEW h \in Hook, NEW label \in PC \ {"start", "build", "mark"},
             pc[h] \notin {"start", "build", "mark", "flag"}, Goto(h, label),
             UNCHANGED <<tree, index, failed, pending, snap, crashes>>, stolen => stolen'
      PROVE  Covered'
  <2>1. Owed => Owed'
    BY <1>1 DEF Owed, Goto
  <2>2. \A g \in Hook : pc'[g] \in {"start", "build", "mark"} => pc'[g] = pc[g]
    BY <1>1 DEF Goto
  <2>3. \A g \in Hook : pc[g] \in {"start", "build", "mark"} => pc'[g] = pc[g]
    BY <1>1 DEF Goto
  <2>4. QED
    BY <1>1, <2>1, <2>2, <2>3 DEF Covered
<1>2. ASSUME NEW h \in Hook, GitEvent(h) \/ Flag(h)
      PROVE  Covered'
  <2>1. Owed'
    BY <1>2 DEF GitEvent, Flag, Goto, Owed
  <2>2. QED
    BY <2>1 DEF Covered
<1>3. ASSUME NEW h \in Hook,
             \/ Look(h) \/ Probe(h) \/ AgeTest(h) \/ ClearPid(h) \/ ClearDir(h) \/ Take(h)
             \/ OpenPid(h) \/ NamePid(h) \/ Again(h) \/ RemovePid(h) \/ RemoveDir(h) \/ Recheck(h)
             \/ Retake(h)
      PROVE  Covered'
  <2>1. pc[h] \notin {"start", "build", "mark", "flag"}
    BY <1>3 DEF Look, Probe, AgeTest, ClearPid, ClearDir, Take, OpenPid, NamePid, Again,
                RemovePid, RemoveDir, Recheck, Retake
  <2>2. \E label \in PC \ {"start", "build", "mark"} : Goto(h, label)
    BY <1>3 DEF Look, Probe, AgeTest, ClearPid, ClearDir, Take, OpenPid, NamePid, Again,
                RemovePid, RemoveDir, Recheck, Retake, PC, Foreground, Builder
  <2>3. /\ UNCHANGED <<tree, index, failed, pending, snap, crashes>> /\ (stolen => stolen')
    BY <1>3 DEF Look, Probe, AgeTest, ClearPid, ClearDir, Take, OpenPid, NamePid, Again,
                RemovePid, RemoveDir, Recheck, Retake, files
  <2>4. QED
    BY <1>1, <2>1, <2>2, <2>3
\* A step of the only builder.
<1>4. ASSUME NEW h \in Hook,
             Unflag(h) \/ StartBuild(h) \/ BuildOK(h) \/ MarkOK(h) \/ BuildFails(h)
      PROVE  Covered'
  <2> SUFFICES ASSUME crashes = 0, ~stolen PROVE Covered'
    BY <1>4 DEF Covered, Unflag, StartBuild, BuildOK, MarkOK, BuildFails
  <2>1. \A g \in Hook \ {h} : pc'[g] = pc[g] /\ pc'[g] \notin {"start", "build", "mark"}
    <3>1. h \in Holding
      BY <1>4 DEF Unflag, StartBuild, BuildOK, MarkOK, BuildFails, Holding, Builder
    <3>2. \A g \in Hook \ {h} : pc'[g] = pc[g]
      BY <1>4 DEF Unflag, StartBuild, BuildOK, MarkOK, BuildFails, Goto
    <3>3. QED
      BY <3>1, <3>2 DEF OneHolder, Owners, Holding, Builder
  <2>2. CASE Unflag(h)
    BY <2>1, <2>2 DEF Unflag, Goto, Covered
  <2>3. CASE StartBuild(h)
    BY <2>1, <2>3 DEF StartBuild, Goto, Covered
  <2>4. CASE BuildOK(h)
    <3>1. /\ pc[h] = "build" /\ pc'[h] = "mark" /\ index' = snap[h]
          /\ UNCHANGED <<tree, failed, pending>>
      BY <2>4 DEF BuildOK, Goto, files
    <3>2. Owed => Owed'
      BY <2>1, <3>1 DEF Owed
    <3>3. QED
      BY <2>1, <3>1, <3>2 DEF Covered
  <2>5. CASE MarkOK(h)
    <3>1. /\ pc[h] = "mark" /\ pc'[h] = "again" /\ UNCHANGED <<tree, index, pending>>
      BY <2>5 DEF MarkOK, Goto, files
    <3>2. Owed => Owed'
      BY <2>1, <3>1 DEF Owed
    <3>3. QED
      BY <2>1, <3>1, <3>2 DEF Covered
  <2>6. CASE BuildFails(h)
    BY <2>1, <2>6 DEF BuildFails, Goto, Covered
  <2>7. QED
    BY <1>4, <2>2, <2>3, <2>4, <2>5, <2>6
<1>5. ASSUME NEW h \in Hook, Crash(h) \/ CrashShell(h) \/ OrphanEnds(h)
      PROVE  Covered'
  BY <1>5 DEF Crash, CrashShell, OrphanEnds, Covered
<1>6. CASE HourPasses \/ UNCHANGED vars
  BY <1>6 DEF HourPasses, vars, Covered, Owed
<1>7. QED
  BY <1>2, <1>3, <1>4, <1>5, <1>6, NextCases

\* "An event that finds the lock taken is never lost" (cli.py:6984), as far as
\* safety goes: when all processes have left and none was killed, no flag and no
\* lock is left, and the index is of the present tree or the failed marker is
\* up, unless a hook cleared a live builder's lock.
THEOREM Settled == Spec => []QuietIsSettled
<1>1. Init => FlagKept /\ Covered
  BY DEF Init, FlagKept, Covered
<1>2. Typed /\ Flags /\ LockKept /\ FlagKept /\ [Next]_vars => FlagKept'
  BY FlagKeptStep
<1>3. Typed /\ Flags /\ OneHolder /\ Covered /\ [Next]_vars => Covered'
  BY CoveredStep
<1>4. LockKept /\ FlagKept /\ Covered => QuietIsSettled
  <2> SUFFICES ASSUME LockKept, FlagKept, Covered, crashes = 0, Quiet
               PROVE  ~pending /\ ~lock /\ (stolen \/ index = tree \/ failed)
    BY DEF QuietIsSettled
  <2>1. \A h \in Hook : pc[h] \notin Foreground \cup Builder
    BY DEF Quiet, Foreground, Builder
  <2>2. ~pending
    BY <2>1 DEF FlagKept
  <2>3. ~lock
    BY <2>1 DEF LockKept, Holding
  <2>4. stolen \/ index = tree \/ failed
    BY <2>1, <2>2 DEF Covered, Owed, Foreground, Builder
  <2>5. QED
    BY <2>2, <2>3, <2>4
<1>5. QED
  BY <1>1, <1>2, <1>3, <1>4, TypedAlways, FlagsAlways, OneHolderAlways, LockKeptAlways,
     PTL DEF Spec
================================================================================

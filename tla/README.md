# NeuralMind in TLA+

NeuralMind keeps a local index of a code base, and around it memories that
learn: which code is touched together, which decisions were made, which files an
agent has already read. Much of that state is in files of a project's
`.neuralmind/` directory that many short processes share: git hooks, Claude Code
hooks, CLI calls, MCP servers, a daemon. This directory models the parts where
that sharing is hard, checks them with TLC on small instances, and proves the
results that matter most for every instance with TLAPS. Paths are relative to
`src/neuralmind/`.

## 1. Inventory

### Audit log (`audit.py`) — modelled

*State.* `audit_events.jsonl`, one JSON record per line, each with the SHA-256 of
the one before; `audit_events.<time>.jsonl`, the archives;
`audit_write_failures.jsonl`, one line per record that couldn't be written;
`audit_write_failures.recorded.json`, the mark that says how much of it a gap record
covers.
*Operations.* `append_event`, `rotate`, `verify`, `_record_failure`,
`record_gap`; `search`, `read_events`, `export` only read.
*Interaction.* Every process appends to the same file. Appending and rotating
take a flock; `record_gap` takes a lock of its own and appends through
`append_event`; every append starts a forwarding run.
*Hard.* Two processes, a full disk at any write, a kill anywhere, a rotation in
between.
*Correct when* a log nobody touched verifies; no acknowledged record is lost; the
chain passes over damage and over rotations; each failure is counted once.
`rotate` has no caller in the program but the public API and the tests.

### Audit forwarding (`audit_forward.py`) — modelled

*State.* `audit_forwarded.json`, the cursor: first hash of the log reading is at,
line, hash of the record sent last.
*Operations.* `forward_pending` (a run) and what it calls.
*Interaction.* Reads the log and the archives without the append lock; one run at
a time behind a lock of its own.
*Hard.* Rotations between and during runs, sends that fail half-way, a cursor
that can't be saved, a kill.
*Correct when* no record on disk is passed over, forwarding goes on where it was as
long as the record it had come to is there, and a backlog is delivered.

### Audit checkpoints (`audit_checkpoint.py`) — not modelled

Signed heads of the log, appended to an anchor and to a local file; verified
against the log. Hard: a rotation between reading the log and signing, a torn or
missing line in one of the two files. Correct when an untouched log and its
checkpoints never fail `verify_checkpoints`.

### Git hook rebuild (`cli._hook_rebuild_lines`) — modelled

*State.* `.hook-build.pending`, `.hook-build.lock/` with `pid`,
`.hook-build.failed`, and the index.
*Operations.* The lines of shell that `init-hook` writes into four git hooks.
*Interaction.* Each git event runs them in a process of its own; the one that
takes the `mkdir` lock builds in the background for all.
*Hard.* Everything: there is no lock but a directory, the PID in it may be a dead
one's, and anybody may clear it.
*Correct when* builds are one at a time, the index never goes back, and no event
is lost.

### Read dedup (`read_dedup.py` and its hooks in `hooks.py`) — modelled

*State.* `read_cache.db`: for each session, agent, path and view the hash of the
text, when it was delivered in full, when it was last asked for, and whether the
last answer was a stub.
*Operations.* `observe`, `clear_session`, `prune`.
*Interaction.* A hook process per Read answers with a stub or lets the text
through; hooks at session start and before a compaction clear.
*Hard.* The cache guesses what is in an agent's context: edits, expiry,
compactions, resets that fail, a kill after the commit.
*Correct when* a stub is never followed by a stub, and only refers to a text the
agent holds.

### Synapse store (`synapses.py`, `namespaces.py`, `learned_decay.py`) — partly modelled

*State.* `synapses.db`: weighted undirected edges (and directed transitions) in
namespaces, the graph's structural edges, and `meta` with the time of the last
decay. A branch has a namespace of its own, beside personal, shared, ephemeral and
structural.
*Operations.* `reinforce`, `import_edges`, `penalize`, `decay_node`, `delete_edge`,
`clear_namespace`, `decay`, `persist_structural_edges`, `seed_from_structural`, the
migration from the tables without namespaces.
*Interaction.* Hooks, builds, servers and commands open the database at once.
*Hard.* Each write is one transaction, but what it rests on was read before: the
time, the list of namespaces, the format, the structural edges. A hook is killed at
its timeout.
*Correct when* an interval is decayed once, whatever overlaps; weights stay within
their cap; a build leaves no seeds of another graph; a migration loses nothing.

### Team memory (`team_memory.py` and helpers) — partly modelled

*State.* The bundle, a file committed with the project: associations and
retractions; per machine, the store's `shared` namespace, the queue of associations
that wait for a review and the hash of the bundle last imported.
*Operations.* `maybe_import_team_memory`, `publish_team_memory`,
`retract_team_edge`, the review commands.
*Interaction.* Session starts and builds import; a developer publishes, retracts and
reviews; git brings teammates' bundles at any moment.
*Hard.* A run is a dozen separate reads and writes of three stores with no lock over
them; nearly each failure is swallowed; the queue is read, changed and written back.
*Correct when* what a bundle retracts stays out of `shared` and of the queue, and no
retraction is lost from the bundle.

### Vector index (`turbovec_backend.py`, driven by `core.py`) — partly modelled

*State.* Node rows in SQLite, each with a uid, its text and a hash of it; an index
file with a vector per uid; the copy of the index each process has in memory;
`graph.json`.
*Operations.* `embed_nodes`, `embed_content`, `delete_nodes`, `search`, recovery of
an unreadable index from the rows; `build`, `update_files`, document ingestion and
`_purge_orphans` around them.
*Interaction.* `watch --reindex` keeps its copy for hours beside hooks and commands
that build and ingest.
*Hard.* Two stores without a common lock; the file is written whole from a copy that
may be old; a run that fails in `watch` leaves its transaction open; a kill between
the file and the commit; an upgrade that can't read the old file.
*Correct when* every committed row has a vector of its text, and a forced build puts
right what didn't.

### Event bus and event log (`event_bus.py`, `event_log.py`) — modelled

*State.* A bounded queue per subscription; `events.jsonl`; the tailer's open file,
position, inode and rest of a chunk.
*Operations.* `publish`, `EventLogWriter.write`, `Subscription._offer` and `get`,
`EventLogTailer._run`, and the bridge in `server.py` that ties them together.
*Interaction.* The server and processes like `neuralmind watch` append to one file;
the server's tailer hands the lines of the others to its browsers.
*Hard.* Threads racing for the slot one of them freed, renames and truncation at
any point of a poll, the server reading its own lines.
*Correct when* a browser sees an event at most once and in its publisher's order,
drops are counted, and no line of a file that stays is skipped.

### File watcher (`watcher.py`) — not modelled

A debounce buffer flushed by a timer thread. Hard: `stop()` with a batch waiting.
Correct when each edit is in one batch.

### Daemon (`daemon.py`, `daemon_client.py`, `cli.cmd_daemon`) — partly modelled

*State.* A discovery file for each user (`daemon.json`: pid, port, token), the port,
the daemon's processes; inside one, `ProjectRegistry` (a warm instance and a lock per
project) and `JobManager` (a bounded table of background builds).
*Operations.* `create_server`, `serve`, `write_discovery`, `clear_discovery`,
`connect`, and the commands `daemon start`, `restart`, `stop`.
*Interaction.* Every other command prefers a running daemon and cleans up after a
dead one.
*Hard.* Everybody may remove the file; a pid is checked, then acted on; a daemon that
is starting, ending or slow doesn't answer; it may be killed anywhere.
*Correct when* a daemon that serves is the one the file names, and a crash never
keeps a later start from working.
The registry and the job table aren't modelled: eviction of a job that hasn't run is
listed as a hazard.

### Others

| component | state | why it is hard, or not |
|---|---|---|
| session maintenance (`session_maintenance.py`) | a try-lock | one process at a time does decay, import and export, which `SynapseStore` and `TeamMemory` let run at any time |
| decision memory (`memory/`) | `memory.db` | supersession and invalidation by commits |
| graph cache (`graph_cache.py`) | a marshalled graph keyed by `stat` | a source replaced while it is read |
| freshness (`freshness.py`) | reads marker files of the git hooks | what it says of them is in HookRebuild's properties |
| index build (`core.py`, `graphgen.py`, …) | the graph | when a build writes what is in `VectorIndex`; parsing is sequential |
| context selection (`context_selector.py`, `l3_slots.py`, …) | none | pure ranking |
| self-improvement, reports, MCP and HTTP front ends, tier 2, measurement | files of their own | numeric search, read-only reports, dispatch, licences |

## 2. The modules

| module | models | extends |
|---|---|---|
| `Ledger` | what the audit log promises its callers | – |
| `AuditLog` | `append_event`, `rotate`, `verify`, `_record_failure` | – |
| `AuditForward` | `forward_pending` beside the log | `AuditLog` |
| `AuditGap` | `record_gap` beside the log | `AuditLog` |
| `HookRebuild` | the background rebuild of the git hooks | – |
| `EventFeed` | the bus, the log, its tailer and the server's bridge | – |
| `VectorIndex` | the row store and the index file under builds, updates, ingestion and search | – |
| `SynapseStore` | the synapses database under its writers | – |
| `TeamMemory` | the bundle, the shared namespace and the review queue | – |
| `Daemon` | the discovery file and the life of a daemon | – |
| `ReadDedup` | the read cache, its hooks and what agents hold | – |
| `AuditProofs` | theorems | `AuditGap`, `AuditForward` |
| `HookRebuildProofs`, `ReadDedupProofs`, `EventFeedProofs`, `VectorIndexProofs`, `SynapseStoreProofs`, `TeamMemoryProofs`, `DaemonProofs` | theorems | their module |
| `MC…` | instances for TLC | their module |

An operator whose comment begins with "Mutant of" is not part of a model: it is a
plausible bug, put in the place of the definition it names to see that a property
notices.

### AuditLog

A process is a member of `Proc`; `pc` tells where in `append_event` or `rotate` it
is, `draft` the record it is writing, `lockedBy` who has the flock (the OS frees it
when its holder dies). A line is a record with `sha`, `prev`, the archive it names if
it is a marker (`arch`) and the failures it covers if it is a gap record (`gap`);
`sha = NoSha` is what a full disk left of a record, and `mid` says that the file
doesn't end in a newline. Hashes are numbers handed out in order, so two records never
hash alike. When the file to chain to can't be read, `append_event` starts a new chain
at zeros; such a record is `blind` (history), `Verifies` fails at it as `verify` does,
and the properties about chains speak of logs without one.

| action | code |
|---|---|
| `StartAppend` | take the lock, `_last_sha256_from_file` |
| `AppendOK`, `AppendFails` | the write, whole, or cut at any of the four places that differ |
| `NoteFailure` | `_record_failure`, which can fail as well |
| `Rotate`, `WriteMarker`, `MarkerFails` | `_rotate_locked` up to the rename and pruning, then the marker |
| `Crash` | a kill between two of them; the lock goes |
| `Verifies`, `MarkerOK` | `verify`, `_check_rotation_marker`, as predicates on lines |

`archive` keeps every archive ever made and `gone` counts those that `rotate` has
deleted: a record that was pruned with its archive was not lost (`AckedKept`).
Left out: `rotate(keep_days=0)`, which would delete the archive it has just made and
then, finding it gone, write no marker (nothing passes a `keep_days`, and under the
default of 90 that archive is never the one to go); records from before there was a hash chain, the actor and the other
fields, `search` and `export`, two rotations in one second (which share an archive
name), records longer than the megabyte `_last_sha256_of` reads.

### Ledger

The abstract specification: a set of records that grows by one newer record at a
time, and the set of those a caller was told of. `AuditLog!ImplementsLedger` maps
`entries` to the hashes in the log and the archives and `told` to what
`append_event` returned: locks, renames, failures and kills are stutters.

### AuditForward

One run at a time (`fpc`), with no lock on the log: `ForwardStart` lists the logs
(`_chain`), `ForwardLocate` finds the cursor's place, `ForwardRead` collects
(`pending`), `ForwardSend`/`ForwardSendFails` send all or a prefix,
`ForwardSave`/`ForwardSaveFails` write the cursor. Between any two of them the log
may grow and, with `RotateInRun`, be rotated. The chain is the set of the logs a run
reads (`IsChain`: the active one, and what the markers lead back to); its order, and
`Oldest`, come from the archives' positions, since a marker names an archive from
before it. What is to be sent is a set of lines too, each with its path, its line
number and its hash; `Before` is the order they are read in, and a prefix of them is
an `Initial` set. Left out: message formats, targets, the back-off clock (a run that
backs off does nothing).

### AuditGap

`GapStart` … `GapMark` follow `_record_gap_locked`, under its own lock (`gapBy`),
through `StartAppend`, `AppendOK`, `AppendFails` and `NoteFailure` of the log. The
mark and the `covers` field hold a number of notes and the hash of that prefix; the
notes file only grows, so the number is enough.

### HookRebuild

The git events are numbered `1 .. Events` (`Hook`); a number stands for the event, its
hook process and, if that takes the lock, its background subshell. `pc` is the next
shell command; every command that reads or writes a shared file is one action, in the
order of the shell lines, with `&&` and `||` as guards. `> pid` is two: the shell
creates or empties the file (`OpenPid`, after which it reads as `Blank`; only a new
file touches the directory's mtime, which `find -mmin +60` tests) and `echo` then
fills the file it has open (`NamePid`), wherever that is by now. `tree` counts git
events, `index` is the tree the last finished build started from.

The PID in the lock is the subshell's, and `neuralmind build` is its child. `Crash`
kills a hook, a subshell with what it runs, or a build that has lost its subshell;
`CrashShell` kills the subshell alone, and its build runs on (`orphan`) until
`OrphanEnds`. The next hook finds the PID dead, clears the lock and may build beside
it: `Unlocked` are these builds, and `BuildsSerializedUnlessStolen` and
`IndexNeverOlder` except them and nothing else, other builds beside them included.
`stolen` is a history variable: a hook removed the lock of a builder whose subshell
lived. `LaterEventNotLost` ends in an event that is built, marked failed, or
`Stranded` for good: flagged behind a lock with no PID and no builder. What
`freshness.query_notice` says of a running rebuild comes down to the lock
(`LockHasBuilder`). Left out: PID reuse, and the `--sync` variant, which has no lock.

### ReadDedup

Each `observe` is an IMMEDIATE transaction and so one action (`ObserveMiss`,
`ObserveAfterStub`, `ObserveRepeat`); `ReadThrough` is the hook failing open.
`ContextReset` is a compaction or session start with its `clear_session`, which may
fail; `Forget` a text that leaves a context unannounced; `Prune` is `prune`. `held`
and `streak` are the agents' side. A `Root` is a project directory, whose
`.neuralmind/` the hook of a payload with that cwd uses.

### EventFeed

A publisher is a thread of the server (`Local`) or of another process (`Remote`).
`Publish` opens the log (making it, if it was renamed away) and `Write` appends, so
that a line can end up in a file renamed in between; `Put`, `Get`, `PutAgain` are
the three steps of `_offer`; `TailOpen`, `TailStat`, `TailInode`, `TailSize`,
`TailRead`, `TailDispatch` are the tailer's, with the two `stat`s of a poll apart.
`files` keeps every file the log has been, by inode. `skip`, `offered`, `got` and
`cut` are history. Left out: failing writes, several subscriptions and their end.

### VectorIndex

A row is a uid with a text, and so is a vector; `rows` is what is committed, `txn`
what the holder of SQLite's write lock (`writer`) sees, `file` the index file and
`mem` each process's copy. A run is a `job` in phases: delete, embed, purge. `Load`
is `_load_index`, with the recovery of an unreadable file (`RebuildOK`,
`RebuildFails`, and `RebuildUnsaved`, when the rebuilt index stays in memory because
its file couldn't be written); `Scan` decides what to embed and hands out uids;
`Write`, `WriteFails` are the upserts and the change of the copy; `Persist` writes the
copy to the file, or raises (`PersistFails`), `Commit` commits. `Build` and `Update`
only look at the source: `WriteGraph` and `LoadGraph` write `graph.json` and read it
back, and another process may do either in between. A `Long` process outlives its errors: its copy stays,
and so does the transaction of a run that raised. `excuse` collects the named ways in
which a row may lose its vector: `stale`, `subset`, `uid`, `leftover`, `killed`; the
module's header says where each comes from. The library that holds the vectors is
not in the repository: a write of it may be cut short by a kill, adding an id that is
there may raise or replace.

### SynapseStore

A row is a weight, a count and a time, by pair and namespace; an operation that
reads something before its transaction is two actions (`StartReinforce`/`Reinforce`,
`StartDecay`/`Decay`, `SeedRead`/`SeedReplace`, `OpenStore`/`Migrate`), the others
one. Weights are integers and time counts in shared half-lives. What some halvings
leave of a weight is the parameter `Remains`, of which `DecayAssumption` asks that it
compose as the exponential of the code does (but for the rounding of floats), so that
one decay over an interval and two over its parts can be compared; TLC takes halving
and rounding down, which composes exactly.
`base` is a history variable: each row as it was last written and since when it owes
decay. A namespace that had no row when `decay` listed the namespaces is let off up
to that decay (`late`); that is the code's, and `DecayedOnce` is stated with it.

### TeamMemory

The hash of a bundle stands for the bundle, so `imported` holds one. An import
(`StartImport`, `CheckHash`, `DeleteEdge`, `LoadQueue`, `DropPending`, `Gate`,
`AddPending`, `Promote`, `MarkImported`), a publish, a retraction and a review share
the actions that are the same code. Scores are left out: `Gate` may promote, queue or
reject any edge; a publish finds one of the sets of pairs `Learned`. The hash covers
weights as well, so that git may bring a bundle of the same pairs with another hash.

`broken` says that the bundle can't be parsed, as when git left conflict marks in it:
`Pull` may do that, `Repair` (a developer merges by hand) ends it. `Read` is what
`_read_bundle` then returns, nothing: an import does nothing, a retraction refuses, a
publish writes a bundle without the retractions that were there. `excuse` is true from
when one of four named cases comes about (`late`, a run writes what another has
overtaken; `unsaved`, the queue couldn't be written or read; `skipped`, a bundle that
was edited before it was imported is marked as imported; `clobber`, a bundle is written
over one that its run hasn't read, since it changed in between or can't be parsed)
until an undisturbed import has run. `RetractionsTravel` is an action property and has
only the last as its exception.
`MCTeamMemorySkipped.cfg` asks for the property without it.

### Daemon

`at` is where each daemon is between `spawned` and `dead`: it holds the port from
`Bind` to the second `Leave`. A command is in `cmd_daemon` (`stage`) and in `connect`
(`Read`, `CheckPid`, `ClearStale`, `Ping`); `Missing` and `Found` are what
`cmd_daemon` does with its answer. A dead daemon's pid may belong to another program
when it is checked. `excuse` is true once a start, restart or stop began before
the last one had settled, a serving daemon didn't answer in time, or a dead daemon's
file was another's when it was removed. One port, the default one: a `restart --port`
to another port takes away the order (file first, port second) that keeps a late
`clear_discovery` from removing the next daemon's file. `Clear` and `Spawn` are a
start in the background. `daemon start --foreground` clears and spawns nothing: it
looks for a running daemon as the other does and then serves in the command's own
process, and is left out.

## 3. The runs

| run | instance | shows |
|---|---|---|
| `audit_log` | 2 processes, 6 hashes, rotation at 2 lines, window of 3, 2 failed writes or reads, 1 kill, `record_gap` beside it | an untouched log verifies, damage is passed over, nothing acknowledged is lost, archives are named, each failure is in one gap record, the mark drops none, and the log implements `Ledger` |
| `audit_forward` | 1 process and the forwarder, 5 hashes, 1 failed write, send and kill, fair | the cursor passes no unsent record and keeps its place while its record is there, and the backlog is delivered while runs keep being started |
| `audit_forward_race` | rotation during a run | **violated**: finding 1 |
| `hook_rebuild` | 3 git events, 2 kills (of a hook, a subshell with its build, or a subshell alone), failing builds, fair | one build at a time and the index doesn't go back, but for builds that lost subshell and lock; no dead lock, settled when quiet, every event is built, one after the last kill built, marked or left flagged |
| `event_feed` | 1 server thread, 1 other process, 3 events, a queue of 1, 2 renames or truncations, fair | at most once, in order, drops counted, lines arrive |
| `read_dedup` | 2 agents, 1 key, 2 texts, clock to 3 | no two stubs in a row, a stub is true |
| `vector_index` | a long-lived process and a command, a code node and a document, 2 texts, 2 edits, 1 kill, upgrade, failed embedding or failed write of the index, rebuilds that fail at will | rows lose vectors only in the named ways; a forced build repairs them |
| `synapse_store` | 2 processes, 2 edges, 5 namespaces, clock to 2, 2 writes | decayed exactly once; no seeds of another graph after a build that ran alone |
| `synapse_migration` | the same | **violated**: finding 2 |
| `team_memory` | 2 processes, 2 associations, 1 pull (a merge or a conflict), 2 commands, failures or kills, a store that has learned both | what an imported bundle retracts stays out, but in the named cases; a retraction leaves the bundle only with one that a run hadn't read |
| `team_memory_skipped` | the same, without the named cases | **violated**: finding 3 |
| `daemon` | 2 commands, 2 daemons, 1 kill, 1 slow answer, fair | a serving daemon is found, and starting it again always gets one |

*Why the bounds are enough.* `AuditLog`: a window of 3 lines with 2 failures lets
damage of every length the code claims to pass come up, 6 hashes make two
rotations with records around them, and each failure and the kill can fall into
either. Two processes are all the lock can tell apart. `AuditForward`: one process
suffices, since appends are one at a time anyway and what matters is what happens
between two steps of a run; 5 hashes leave a marker and records on both sides of
it. `HookRebuild`: three hooks are a builder, an event that finds the lock taken, and
one that clears it; one kill can leave a build without its subshell and the other fall
on the hook or builder that follows. `EventFeed`: three
events are what it takes for two threads to lose two events and count one; two
renames put one into an open that another caused. `ReadDedup`: keys don't interact but in `prune`,
where the rows of two agents do; ages and the clock are chosen so that a row is
fresh, stale and pruned within a run. `VectorIndex`: a node of each scope (code,
document) and two processes give every order of two runs; two edits put a change
before and after a run; the excused ways each take one kill or none. `SynapseStore`:
two decays with old times, a write before and one between them; numbers are
chosen so that a row is capped, floored by long-term potentiation and pruned within
the clock. `TeamMemory`: one pull and two commands or faults are what each excused
case takes; one pair is retracted and the other must stay, and
a publish finds both in the store. `Daemon`: two commands
that overlap, a daemon that ends and one that starts; more of either wait for one of
these.

*Symmetry* is used for processes, hooks, agents, keys, pairs and texts where all
properties allow it, never in a run with a liveness property. Two runs also have a
*view* (`Distinct`), which takes two states for one when no property and no guard can
tell what follows them apart: in `VectorIndex`, how a row first may have lost its
vector, once one may have; in `TeamMemory`, what changed beside a run, but for what the
run's remaining steps ask. *Deadlock* is checked
in `VectorIndex`, `SynapseStore`, `TeamMemory` and `Daemon`: there is always something
a process may still do. It isn't in the others, which
may stop (no more git events, the bound on hashes, nothing to forward).

*Fairness.* `HookRebuild`: weak fairness of each started hook, its subshell and its
build, because they are ordinary processes; none for git events, kills or the hour that
has to pass. `AuditForward`: weak fairness of a run that has begun and of a process that
holds the log's lock; strong fairness of saving the cursor: a disk that is never
writable again keeps the cursor where it is, and no code helps that. Nothing makes a run
begin: the code begins one behind an append (`audit.py` 310, 336) or by command. So
`BacklogDelivered` has it as a hypothesis, that runs are begun again and again; in a
project that nobody appends to any more a backlog waits, and that is stated, not ruled
out.
`EventFeed`: weak fairness of the server's threads (the tailer polls for ever); none
for browsers and other processes.
`Daemon`: weak fairness of daemons and commands, which are ordinary processes; strong
fairness of someone starting the daemon again, because `StartServes` is about that;
none for kills, signals or slow answers.

*Findings.*

1. `audit_forward.py` lists the logs before it reads them and holds no log lock;
   a rotation in between hides the unsent end of the log from the run, whose
   cursor then passes it. The module says a record is sent at least once across a
   rotation.
2. `SynapseStore._init_schema` looks for the namespace column outside the migration's
   lock, and the migration doesn't look again: two processes that open an old store
   together can migrate it twice, and what was written to a branch or shared in
   between ends in personal (or the second constructor raises).
3. `retract_team_edge` and `publish_team_memory` mark the bundle they wrote as
   imported, even when the one they started from had come by `git pull` and was never
   imported: its retractions are not applied to this machine.

Known besides, and not run any more (each was found by a model here):

- `record_gap` looks for an earlier gap record in the active log only, so a rotation
  makes it record the same failures again (`FailuresRecordedOnceUnrotated` excludes
  it).
- A git hook reads a PID and tests it after the builder may have ended and another
  may have taken the lock: it then clears a live lock, two builds run, and the newest
  event can stay unindexed with no flag left (`stolen`). The same comes of a build that
  takes longer than an hour and goes round again: it empties the pid file of a lock that
  is now an hour old, and a hook that looks before the new PID is in the file clears it,
  though "a long build is never mistaken for a dead one" (`cli.py` 6976).
- `publish_team_memory` over a bundle that is there but can't be parsed writes one
  without its retractions (`team_memory.py` 401-407), though "retractions already in the
  committed bundle are carried forward" (373); `retract_team_edge` refuses then (462).
- The read cache belongs to the directory of the payload's cwd, so one session
  that moves between two projects can get two stubs in a row (`OneRoot`).
- `daemon start` clears the discovery file of a daemon that is up but hasn't answered
  yet, and spawns one that can't bind: the first serves on, unfound and holding the
  port. `connect` is careful to avoid that ("a startup race can't orphan a daemon
  that's about to be ready"); the case is `hasty` or `slow` in `Daemon`.

## 4. What is proved

TLAPS checks every step, for every value of the constants; nothing is assumed but the
`ASSUME`s on constants, which the models state and TLC evaluates, and where said one
hypothesis of a theorem. Hardly any property is inductive: each section names what
had to be added to it and why. TLC checked these invariants on the runs' instances
before they were proved.

**AuditProofs**, for any number of processes, hashes, failures and kills, has three
parts. First *the log*. The invariant adds: the one that writes holds
the lock (`WriterHolds`), what it read is still the last hash (`DraftCurrent`),
between the rename and the marker there is no log (`NothingYet`), every readable
line links to the last readable one of the window before it or to its archive
(`AllChained`), acknowledged records are there (`Kept`), an archive is followed
by its marker (`Named`), and the unreadable lines in a row are no more than the
writes that failed (`LogDamageShort`, which is what lets a search of a bounded window
always find the last record). From it: `TypeCorrect`, `Verified`
(`UntouchedLogVerifies`), `NoneLost` (`AckedKept`), `Continued`
(`ChainContinuesUndisturbed`), `DamageSkipped` (`ChainSkipsDamage`) and
`LedgerImplemented`, the refinement, by
`RecordedStep`: a step adds one hash, newer than the others, or none. The lemmas are
about `LogNext`, the steps of the log with any gap in the record, so that they hold
of whatever runs beside it.

Second, *`record_gap` beside the log*. A step of it is a step of the log or
leaves the log alone, and so all of the above holds with it too (`GapKeepsLog`,
`GapLedgerImplemented`). `GapTypeCorrect` needs that the process in `record_gap` is
where `gpc` says (`AtWork`). For the two properties: the gap record being appended
covers from the mark to what was read (`DraftGap`), the mark and what was read are no
more than the notes (`Backlog`), and (`Accounted`) every number up to the mark is
covered by a record in the log or an archive (`AllCovered`), a run at its mark has
written its record (`Written`), no record covers notes that aren't there (`Behind`)
and, until the log is rotated, a run past its scan has seen every gap record there is
(`Scanned`). From it `MarkedAreLogged` and `RecordedOnce`.

Third, *forwarding beside the log*. A run changes nothing of the log, and a step of the
log nothing of what a run holds, so again all of the first part holds with it
(`ForwardKeepsLog`, `ForwardLedgerImplemented`). `ForwardTypeCorrect` (`FTypeOK`)
adds that what is read or sent is older than the next record (`ShasOld`) and that the
chain has the active log (`ChainOpen`); it holds with rotations in the middle of a run
as well. The other two theorems have the hypothesis `~RotateInRun`, that of the run
`audit_forward`: without it both are false (finding 1; and a run whose log is renamed
before its save names the next log in the cursor, so that a later run starts over). They need to know what files a
run can meet: hashes rise along a file, from archive to archive and into the log
(`HashesRise`), and until a rotation is cut short every archive is named by the marker
of the file after it (`Led`). From `Led`, by induction from the newest archive down,
the chain is all there is (`ChainIs`); from `HashesRise`, no record is in two places
(`OnePlace`) and no two files begin alike (`FirstNames`). What is on disk grows by the
newest record only (`DueStep`, `HeldStep`); a line that still lacks its newline counts
(`Due`), since the next append ends it.
`NoneUnsent` (`SentAtLeastOnceUndisturbed`) follows a run: while it goes on no marker is
waiting to be written (`NoRotation`) and its chain is whole (`ChainWhole`); all up to
the cursor was sent (`CursorSafe`), all before the place where reading starts was
(`StartSafe`), and all up to the last line of the batch is in the batch or was
(`BatchSafe`).
`PlaceKept` (`StartsOverOnlyWhenGone`) follows the one record the cursor names: wherever
it is, first hash and line are those of the cursor (`CursorPlace`), a run starts behind
it (`StartPlace`), and what it then sends is newer, still where it was read, and
something (`BatchPlace`).

**HookRebuildProofs**, for any number of hooks and kills, failing builds included.
`OneHolder`: until a live lock is cleared, at most one of the `Owners` (builders between
taking and releasing the lock, and builds without a subshell that the lock still names)
is there, and then so is the lock. It gives `Serialized`. `NewestBuild` adds that a
build behind the lock (`Kept`) is of a tree no older than the index and than that of any
build under way (`Under`), and gives the action property in `IndexGrows`. `TypeCorrect`
takes that events come in the order of their numbers (`Counted`) and that a pid file is
open only in a lock that has one (`Flags`). `LockOwned` (`LockHasBuilder`) rests on `LockKept` and `Named`:
a lock has a process that will release it, and the PID in it is that of a builder.
`Settled` (`QuietIsSettled`) adds `FlagKept` (some process has still to look at a flag)
and `Covered`: unless the failed marker is up, an index older than the tree has a flag,
a hook about to flag, or a build that starts or runs, and a build that runs is of the
present tree unless an event is still owed one.

**ReadDedupProofs**, for any agents, keys, texts, ages and clock, assuming a single
project directory (`OneRoot`: without it the first of them fails, see *Known besides*). `TypeCorrect`;
`NeverTwo` from `StubInv`: an agent that got a stub last has a row that says so, or
none; `StubHeld` from `HeldInv`: while the cache is told of every loss, a row's text
is held since the time in the row.

**EventFeedProofs**, for any threads, processes, events, queue size, renames and
truncations. `TypeCorrect`: the queue stays within its size although its bound is
looked at one step before the put. `NoneSkipped` (`NoLineSkipped`), by the tailer's
position alone. `DropsTold` (`DropsCounted`) from `LossCounted`: at most two events are
lost for each drop counted, and one more for each thread that has made room and is
about to put again.
`InOrder` (`OnceAndInOrder`) from `Order`, which follows each event from its publisher
through the files, the tailer's batch and the queue to the browser: per publisher,
the numbers in each place are below those in the place before it, and no event is in
two places (`NewestOwn`, `Numbered`, `FilesOrdered`, `TailOrdered`, `ShownOrdered`).

**VectorIndexProofs**, for any processes, texts, edits, kills, upgrades and failed writes,
and finitely many nodes. `IndexTyped` (`TypeOK`) by `Shape`: no two rows share a uid, committed or in
a transaction (`TablesSound`), what is in memory can be read (`MemReads`), and a plan has
one entry a node, each with a uid of its own (`AllPlanned`); that new uids are new takes
the largest of a finite set, hence finitely many nodes. `RowsKeepVectors`
(`RowsHaveVectors`) by `HoldInv`: a process rebuilding the index starts without one
(`RebuildsAfresh`), and until a named way to lose a vector came about the one with the
write lock is about to persist or commit (`WriterAtWork`), the file has the vectors of
the rows it must serve, a writer's own once it has written the file (`FileHolds`), every
copy in memory no older than the file has them too (`MemHolds`), so have the rows a
rebuild goes by (`FromHolds`), and a writer without an index has only deleted
(`OnlyDeletes`). `ForcedBuilds` (the action property `ForcedBuildRepairs`) assumes none of
that, since it is about what puts losses right: by `PhaseInv` a forced run plans all it
wants before it writes (`InPhase`), and while a build is alone each entry of its plan is
still to be written, then in the rows and the copy, then in the rows and the file
(`Progress`).

**SynapseStoreProofs**, for any processes, pairs, branches and rates, and any way of
decaying that composes (`DecayAssumption`). The invariant `Typed` adds to the types
that what a process took with it into its transaction is still fine when that runs
(`JobsFine`: its time is not after the clock, its list has only usual namespaces), and
that a row owes decay since its activation, or since a decay before now (`RowsFine`).
`DecaysOnce` (`DecayedOnce`) is inductive with it. The core are two facts about
numbers: what a row owes at a time, counted from the last decay, is what it had not
yet decayed for, whether that time is newer or older than the last decay
(`OwedOnce`); and decaying twice is decaying once for both times, also across the
floor of long-term potentiation (`FadedTwice`). `SeedsReplaced` (`SeedsOfLastBuild`)
needs `Alone`: while no other build has overlapped one, the table holds, and the
build then read, the graph it persisted.

**TeamMemoryProofs**, for any processes, pairs and pulls. `TypeCorrect` rests on
`Shaped`, what a run holds at each of its places. `Travel` is the action property
`RetractionsTravel`, with no `excuse` in it, from `Fresh`: a run works on the bundle as
it is, or has been told that it changed or can't be parsed. `StaysOut`
(`RetractedStaysOutUndisturbed`) adds `Overlap` (runs that go on together know of each
other) and, until one of the named cases comes about, `Carried` (what the runs and the
imported bundle retract is in the bundle), `Sweeping` (what an import or a retraction
has passed of the retracted pairs is out) and `Clean` (nothing is shared or queued that
the bundle counted as imported retracts); an undisturbed import sweeps after such a
case as well, which is how the property comes back.

**DaemonProofs**, for any daemons, commands, kills and slow answers. `TypeCorrect`
includes that one daemon holds the port at a time. `ServingFound` (`ServingIsFound`)
from `StaleIsDead` (a command about to remove a file for its daemon's death is right
about the death) and `Kept`, which holds until a named case comes about: one command
changes things at a time (`Alone`), no daemon comes up but the one it waits for
(`NoneComing`, `Heading`), and a serving daemon's file is there (`FileKept`).

*Assumptions.* Besides bounds being natural numbers: marks for "nothing" are none of
the values they stand beside (`None` in `TeamMemory`, `Daemon`; `NoPid` and `Blank` are no
PIDs and differ in `HookRebuild`), the namespaces with a
policy are distinct, the learning rate is no more than the cap and the pruning
threshold no more than the floor (as in the code's constants), and the nodes of a vector
index are finitely many (they come from one graph file).

*Only model-checked.* Liveness (`EveryEventBuilt`, `LaterEventNotLost`,
`BacklogDelivered`, `LineArrives`, `StartServes`), which TLAPS can't prove. Every
invariant and action property of the passing runs is stated by a theorem.

## 5. Not modelled

- *Audit checkpoints, file watcher, decision memory, graph cache, session
  maintenance, the daemon's registry and job table*: they have state and
  interleavings of their own and are the next to be modelled.
- *Context selection, self-improvement, metrics, the numeric part of the index*:
  rankings over floating-point scores; what could go wrong is in the numbers.
- *Graph extraction, document parsing*: sequential code over text. `VectorIndex` and
  `HookRebuild` take their result as given.
- *MCP and HTTP servers, reports, doctor, tier 2, measurement, project files*:
  dispatch, reading, printing and configuration.
- *`cli.py`*, apart from the lines of `init-hook`, `daemon`, `watch` and the review
  commands: arguments and output.

## 6. Plan

1. *Done:* the audit log with forwarding and gaps, the git hooks, read dedup, the
   event feed, the vector index, the synapse store, team memory, the daemon's
   discovery; invariants, liveness, one refinement, the first theorems.
2. *Done:* the inductive invariants of all models, every safety and action property
   the runs check, and the refinement with `record_gap` and with forwarding.
3. `AuditCheckpoint` on `AuditLog`: create and verify, with rotations and torn
   appends. Torn lines and several subscriptions in `EventFeed`.
4. The daemon's registry and job table, the watcher, decision memory, the graph
   cache; abstract specification: one warm project per path.

------------------------------- MODULE ReadDedup -------------------------------
(***************************************************************************)
(* Read dedup: read_dedup.ReadCache and the hooks around it                *)
(* (hooks._dedup_read behind every Read, hooks._reset_read_dedup at        *)
(* session start and before a compaction).                                 *)
(*                                                                         *)
(* One Claude Code session with its agents (the main one and subagents).   *)
(* A Key is a path and a view of it (offset, limit, pages).  A Root is a   *)
(* directory with a .neuralmind/: a hook uses the database under its       *)
(* payload's cwd, wherever the file it reads is.  Each observe() is one    *)
(* IMMEDIATE transaction, hence one step, in the order of the commits.     *)
(*                                                                         *)
(* held is the agents' side, which the code never sees: the texts each     *)
(* agent got in full and still has in its context.  streak counts the      *)
(* stubs an agent got in a row for a key.  untold records that a text left *)
(* an agent's context and the rows were not deleted: the reset hook failed *)
(* (the database was busy), or nothing called it.                          *)
(***************************************************************************)
EXTENDS Integers, FiniteSets

CONSTANTS Agent, Key, Content, Root,
          NoRow,
          MaxAge,       \* MAX_AGE_SECS
          PruneAge,     \* PRUNE_AGE_SECS
          MaxRows,      \* MAX_ROWS
          MaxTime       \* bound on the clock

ASSUME DedupAssumption ==
    MaxAge \in Nat /\ PruneAge \in Nat /\ MaxRows \in Nat /\ MaxTime \in Nat

Time == 0 .. MaxTime
Row == [content : Content, at : Time, seenAt : Time, stubbed : BOOLEAN]
ASSUME NoRowAssumption == NoRow \notin Row

VARIABLES rows,   \* the reads table of each root's read_cache.db
          file,   \* what a read of the key returns now
          clock,
          held, streak, untold

vars == <<rows, file, clock, held, streak, untold>>

TypeOK ==
    /\ rows \in [Root -> [Agent \X Key -> Row \cup {NoRow}]]
    /\ file \in [Key -> Content]
    /\ clock \in Time
    /\ held \in [Agent -> SUBSET (Key \X Content \X Time)]
    /\ streak \in [Agent \X Key -> Nat]
    /\ untold \in BOOLEAN

Init ==
    /\ rows = [r \in Root |-> [ak \in Agent \X Key |-> NoRow]]
    /\ file \in [Key -> Content]
    /\ clock = 0
    /\ held = [a \in Agent |-> {}]
    /\ streak = [ak \in Agent \X Key |-> 0]
    /\ untold = FALSE

--------------------------------------------------------------------------------
(* A Read and its hook *)

PutRow(r, a, k, row) == rows' = [rows EXCEPT ![r][<<a, k>>] = row]

\* A text received again counts from the last time.
Older(k) == {<<k, file[k], t>> : t \in 0 .. clock - 1}

DeliverFull(a, k) ==
    /\ held' = [held EXCEPT ![a] = (@ \ Older(k)) \cup {<<k, file[k], clock>>}]
    /\ streak' = [streak EXCEPT ![<<a, k>>] = 0]

DeliverStub(a, k) ==
    /\ streak' = [streak EXCEPT ![<<a, k>>] = @ + 1]
    /\ UNCHANGED held

\* Mutant of Stale: a full read that is one tick too old still counts.
StaleOneLater(row, k) ==
    row # NoRow => row.content # file[k] \/ clock - row.at > MaxAge + 1

\* No row, another text, or a full read too long ago.
Stale(row, k) ==
    row # NoRow => row.content # file[k] \/ clock - row.at > MaxAge

ObserveMiss(r, a, k) ==
    /\ Stale(rows[r][<<a, k>>], k)
    /\ PutRow(r, a, k, [content |-> file[k], at |-> clock, seenAt |-> clock,
                        stubbed |-> FALSE])
    /\ DeliverFull(a, k)
    /\ UNCHANGED <<file, clock, untold>>

\* Mutant of ObserveAfterStub: the row keeps when the delivery expires.
AfterStubExpiry(r, a, k) ==
    LET row == rows[r][<<a, k>>] IN
    /\ ~Stale(row, k) /\ row.stubbed
    /\ PutRow(r, a, k, [row EXCEPT !.at = clock + MaxAge, !.seenAt = clock, !.stubbed = FALSE])
    /\ DeliverFull(a, k)
    /\ UNCHANGED <<file, clock, untold>>

\* The previous repeat was stubbed: this one goes through in full.
ObserveAfterStub(r, a, k) ==
    LET row == rows[r][<<a, k>>] IN
    /\ ~Stale(row, k) /\ row.stubbed
    /\ PutRow(r, a, k, [row EXCEPT !.at = clock, !.seenAt = clock, !.stubbed = FALSE])
    /\ DeliverFull(a, k)
    /\ UNCHANGED <<file, clock, untold>>

\* Mutant of ObserveRepeat: the stub is not noted in the row.
RepeatUnmarked(r, a, k) ==
    LET row == rows[r][<<a, k>>] IN
    /\ ~Stale(row, k) /\ ~row.stubbed
    /\ PutRow(r, a, k, [row EXCEPT !.seenAt = clock, !.stubbed = FALSE])
    /\ DeliverStub(a, k) \/ DeliverFull(a, k)
    /\ UNCHANGED <<file, clock, untold>>

\* A repeat: the stub replaces the text, unless the hook fails or is killed
\* after the commit, which leaves the read as it is.
ObserveRepeat(r, a, k) ==
    LET row == rows[r][<<a, k>>] IN
    /\ ~Stale(row, k) /\ ~row.stubbed
    /\ PutRow(r, a, k, [row EXCEPT !.seenAt = clock, !.stubbed = TRUE])
    /\ DeliverStub(a, k) \/ DeliverFull(a, k)
    /\ UNCHANGED <<file, clock, untold>>

\* Fail-open: the database is busy, or the read is not one to dedup.
ReadThrough(a, k) ==
    /\ DeliverFull(a, k)
    /\ UNCHANGED <<rows, file, clock, untold>>

--------------------------------------------------------------------------------
(* Resets *)

NoRows == [ak \in Agent \X Key |-> NoRow]

\* An agent's context goes: a compaction, or a session started, resumed or
\* cleared.  The hook ahead of it deletes the session's rows, all agents',
\* in the database of its own cwd.
ContextReset(a, r) ==
    /\ held' = [held EXCEPT ![a] = {}]
    /\ \/ rows' = [rows EXCEPT ![r] = NoRows] /\ untold' = untold
       \/ rows' = rows /\ untold' = TRUE
    /\ UNCHANGED <<file, clock, streak>>

\* An agent loses a text and no hook is told.
Forget(a) ==
    /\ \E text \in held[a] : held' = [held EXCEPT ![a] = @ \ {text}]
    /\ untold' = TRUE
    /\ UNCHANGED <<rows, file, clock, streak>>

Live(r) == {ak \in Agent \X Key : rows[r][ak] # NoRow}

\* prune(), from another session's reset or the background loop: rows not seen
\* for PruneAge, then all but the MaxRows seen last.
Prune(r) ==
    LET fresh == {ak \in Live(r) : rows[r][ak].seenAt >= clock - PruneAge} IN
    /\ \E keep \in SUBSET fresh :
         /\ Cardinality(keep) <= MaxRows
         /\ keep # fresh => Cardinality(keep) = MaxRows
         /\ \A ak \in keep, other \in fresh \ keep :
                rows[r][ak].seenAt >= rows[r][other].seenAt
         /\ rows' = [rows EXCEPT ![r] =
                        [ak \in Agent \X Key |-> IF ak \in keep THEN @[ak] ELSE NoRow]]
    /\ UNCHANGED <<file, clock, held, streak, untold>>

--------------------------------------------------------------------------------
(* The surroundings *)

Edit(k) ==
    /\ \E c \in Content \ {file[k]} : file' = [file EXCEPT ![k] = c]
    /\ UNCHANGED <<rows, clock, held, streak, untold>>

Tick ==
    /\ clock < MaxTime
    /\ clock' = clock + 1
    /\ UNCHANGED <<rows, file, held, streak, untold>>

Read(r, a, k) == ObserveMiss(r, a, k) \/ ObserveAfterStub(r, a, k) \/ ObserveRepeat(r, a, k)

Next ==
    \/ \E r \in Root, a \in Agent, k \in Key : Read(r, a, k)
    \/ \E a \in Agent, k \in Key : ReadThrough(a, k)
    \/ \E a \in Agent, r \in Root : ContextReset(a, r)
    \/ \E a \in Agent : Forget(a)
    \/ \E r \in Root : Prune(r)
    \/ \E k \in Key : Edit(k)
    \/ Tick

Spec == Init /\ [][Next]_vars

--------------------------------------------------------------------------------
(* Properties *)

\* "A stub is never followed by another stub for the same read", whatever
\* edits, resets, prunings and failed hooks come in between.
NeverTwoStubs == \A a \in Agent, k \in Key : streak[<<a, k>>] <= 1

\* A stub's claim is true: the agent that gets it holds the very text the read
\* would have returned, received in full no longer than MaxAge ago, as long as
\* the cache was told of every context that went.
StubMeansHeld ==
    [][\A a \in Agent, k \in Key :
          ~untold /\ streak'[<<a, k>>] > streak[<<a, k>>] =>
              \E t \in Time : <<k, file[k], t>> \in held[a] /\ clock - t <= MaxAge]_vars
================================================================================

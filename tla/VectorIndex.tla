----------------------------- MODULE VectorIndex -----------------------------
(***************************************************************************)
(* The vector index of a project: TurboVecEmbedder's node rows in SQLite   *)
(* beside the index file that holds their vectors, as processes build,     *)
(* update and ingest into them (NeuralMind.build, update_files and the     *)
(* ingest commands).                                                       *)
(*                                                                         *)
(* The two stores have no lock in common.  SQLite's write lock is held     *)
(* from the first changed row to the commit; each process keeps the index  *)
(* it loaded in memory and writes the whole of it back to the file.  A row *)
(* is [uid, text], and so is a vector: the text it was embedded from.      *)
(*                                                                         *)
(* turbovec is a library the repository doesn't hold.  A write cut short   *)
(* may leave the file unreadable, and adding an id that is there already   *)
(* may raise or replace it; apart from that a write is one step.           *)
(*                                                                         *)
(* Left out: the metadata columns, scopes, the BM25 file rebuilt from the  *)
(* rows behind each commit, deleting documents, the graph cache in front   *)
(* of graph.json, a write of graph.json read half-way, and SQLite's giving *)
(* up on a lock it has waited 5 s for.                                     *)
(***************************************************************************)
EXTENDS Naturals, FiniteSets, FiniteSetsExt

CONSTANTS Proc,      \* processes that open the store
          Long,      \* those that outlive a run and its errors: daemon, watch
          Does,      \* which process runs what: pairs of a process and a kind
          Node, Doc, \* nodes, and which of them are ingested documents
          Text, Gone, None,
          MaxEdits,  \* bound: changes to the source
          MaxTrouble \* bound: kills, upgrades, writes of the index file that
                     \* fail, and embeddings that do, a rebuild's not counted

ASSUME VectorAssumption ==
    /\ Long \subseteq Proc /\ Does \subseteq Proc \X {"build", "update", "ingest", "search"}
    /\ Doc \subseteq Node /\ Node \subseteq Nat /\ IsFiniteSet(Node)
    /\ Gone \notin Text /\ None \notin Proc
    /\ MaxEdits \in Nat /\ MaxTrouble \in Nat

VARIABLES source,  \* what the files say now
          graph,   \* graph.json: its nodes with their text
          rows,    \* committed rows
          writer,  \* who holds SQLite's write lock
          txn,     \* the rows as the writer sees them
          file,    \* the index file
          mem,     \* each process's index in memory
          pc, job, \* what each process is doing
          edits, trouble,
          behind,  \* history: whose index in memory is older than the file
          alone,   \* history: the process whose run no other run has overlapped
          excuse   \* history: what has gone wrong so far, named below

vars == <<source, graph, rows, writer, txn, file, mem, pc, job, edits, trouble,
          behind, alone, excuse>>

(* What may cost a row its vector, each at the step that does it.           *)
(*  stale     an index is written back over a file, or rebuilt from rows,    *)
(*            that another process has changed since it was read             *)
(*  subset    an index that is missing beside rows is begun anew             *)
(*  uid       an upsert finds the row under another uid than it planned      *)
(*  leftover  a long-lived process keeps the transaction of a run that failed *)
(*  killed    a kill between writing the file and committing the rows        *)
Excuses == {"stale", "subset", "uid", "leftover", "killed"}

Entry == [uid : Nat, text : Text \cup {Gone}]
NoRow == [uid |-> 0, text |-> Gone]
NoRows == [n \in Node |-> NoRow]

NoIndex == [is |-> "none", of |-> {}]
Unreadable == [is |-> "bad", of |-> {}]
IndexOf(vectors) == [is |-> "ok", of |-> vectors]

NoText == [n \in Node |-> Gone]
NoJob == [kind |-> "none", phase |-> "none", force |-> FALSE, want |-> NoText,
          pending |-> {}, drop |-> {}, from |-> {}]

View(p) == IF writer = p THEN txn ELSE rows
Stored(table) == {n \in Node : table[n] # NoRow}

TypeOK ==
    /\ source \in [Node -> Text \cup {Gone}] /\ graph \in [Node -> Text \cup {Gone}]
    /\ rows \in [Node -> Entry] /\ txn \in [Node -> Entry]
    /\ writer \in Proc \cup {None} /\ (writer = None => txn = NoRows)
    /\ file.is \in {"none", "bad", "ok"} /\ file.of \subseteq Entry
    /\ \A p \in Proc :
        /\ mem[p].is \in {"none", "ok"} /\ mem[p].of \subseteq Entry
        /\ pc[p] \in {"idle", "graph", "nodes", "load", "rebuild", "retry", "scan",
                      "write", "purge", "delete", "persist", "commit", "answer"}
        /\ job[p].kind \in {"none", "build", "update", "ingest", "search"}
    /\ \A m, n \in Stored(rows) : m # n => rows[m].uid # rows[n].uid
    /\ excuse \subseteq Excuses

Init ==
    /\ source = NoText /\ graph = NoText
    /\ rows = NoRows /\ writer = None /\ txn = NoRows
    /\ file = NoIndex
    /\ mem = [p \in Proc |-> NoIndex]
    /\ pc = [p \in Proc |-> "idle"] /\ job = [p \in Proc |-> NoJob]
    /\ edits = 0 /\ trouble = 0 /\ behind = {} /\ alone = None /\ excuse = {}

--------------------------------------------------------------------------------
Goto(p, label) == pc' = [pc EXCEPT ![p] = label]

\* A run is over, or failed: a long-lived process keeps its index in memory,
\* another exits.
Leave(p, index) ==
    /\ Goto(p, "idle")
    /\ job' = [job EXCEPT ![p] = NoJob]
    /\ mem' = [mem EXCEPT ![p] = IF p \in Long THEN index ELSE NoIndex]
    /\ alone' = IF alone = p THEN None ELSE alone

Forget(p) == IF p \in Long THEN {} ELSE {p}

Exit(p) ==
    /\ Leave(p, mem[p])
    /\ behind' = behind \ Forget(p)

\* A run fails with a transaction open.  A long-lived process logs the error and
\* keeps the transaction; the exit of another rolls it back.
Abort(p, index, table) ==
    /\ Leave(p, index)
    /\ behind' = behind \ Forget(p)
    /\ IF p \in Long
       THEN writer' = p /\ txn' = table /\ excuse' = excuse \cup {"leftover"}
       ELSE writer' = None /\ txn' = NoRows /\ excuse' = excuse

Rebuilding(p) == pc[p] \in {"rebuild", "retry"}

\* The whole index goes to the file; the others' copies are now behind it.
WriteFile(p, index) ==
    /\ file' = index
    /\ excuse' = IF p \in behind THEN excuse \cup {"stale"} ELSE excuse
    /\ behind' = {q \in Proc \ {p} : mem[q].is = "ok" \/ Rebuilding(q)}

CommitOwn(p) ==
    IF writer = p THEN rows' = txn /\ writer' = None /\ txn' = NoRows
    ELSE UNCHANGED <<rows, writer, txn>>

Scope(kind) == IF kind = "ingest" THEN Doc ELSE Node \ Doc

Begin(p, kind, phase, force, want, drop) ==
    /\ pc[p] = "idle" /\ <<p, kind>> \in Does
    /\ job' = [job EXCEPT ![p] = [NoJob EXCEPT !.kind = kind, !.phase = phase,
                                 !.force = force, !.want = want, !.drop = drop]]
    /\ alone' = IF \A q \in Proc : pc[q] = "idle" THEN p ELSE None

--------------------------------------------------------------------------------
\* build(): a new graph from the files, for graph.json; then embed_nodes, then
\* the purge.
Build(p, force) ==
    /\ Begin(p, "build", "embed", force,
             [n \in Node |-> IF n \in Doc THEN Gone ELSE source[n]], {})
    /\ Goto(p, "graph")
    /\ UNCHANGED <<source, graph, rows, writer, txn, file, mem, edits, trouble, behind, excuse>>

\* update_files(): graph.json is read and some changed files are parsed again into
\* it; what left it is deleted, then embed_nodes.
Update(p) ==
    /\ graph # NoText
    /\ \E paths \in SUBSET {n \in Node \ Doc : source[n] # graph[n]} :
        LET drop == {n \in paths : source[n] = Gone}
        IN  /\ paths # {}
            /\ Begin(p, "update", IF drop = {} THEN "embed" ELSE "delete", FALSE,
                     [n \in Node |-> IF n \in paths THEN source[n] ELSE graph[n]], drop)
    /\ Goto(p, "graph")
    /\ UNCHANGED <<source, graph, rows, writer, txn, file, mem, edits, trouble, behind, excuse>>

\* graph.json is written over, whatever another process has put there since.
WriteGraph(p) ==
    /\ pc[p] = "graph"
    /\ graph' = job[p].want
    /\ Goto(p, IF job[p].phase = "delete" THEN "load" ELSE "nodes")
    /\ UNCHANGED <<source, rows, writer, txn, file, mem, job, edits, trouble, behind,
                   excuse, alone>>

\* load_graph: what is embedded is what graph.json says by now.
LoadGraph(p) ==
    /\ pc[p] = "nodes"
    /\ job' = [job EXCEPT ![p].want = graph]
    /\ Goto(p, "load")
    /\ UNCHANGED <<source, graph, rows, writer, txn, file, mem, edits, trouble, behind,
                   excuse, alone>>

Ingest(p) ==
    /\ \E n \in Doc : source[n] # Gone
    /\ Begin(p, "ingest", "embed", FALSE,
             [n \in Node |-> IF n \in Doc THEN source[n] ELSE Gone], {})
    /\ Goto(p, "scan")
    /\ UNCHANGED <<source, graph, rows, writer, txn, file, mem, edits, trouble, behind, excuse>>

\* A search that finds an index in memory changes nothing.
Search(p) ==
    /\ mem[p].is = "none"
    /\ Begin(p, "search", "read", FALSE, NoText, {})
    /\ Goto(p, "load")
    /\ UNCHANGED <<source, graph, rows, writer, txn, file, mem, edits, trouble, behind, excuse>>

Loaded(p) ==
    CASE job[p].phase = "delete" -> "delete"
      [] job[p].phase = "read"   -> "answer"
      [] OTHER -> IF job[p].pending = {} THEN "scan" ELSE "write"

\* embed_nodes starts by rebuilding an index that is missing beside rows; nothing
\* else does, its own later touch (_ensure_index) included.
Retries(p) ==
    job[p].kind \in {"build", "update"} /\ job[p].phase = "embed" /\ job[p].pending = {}

\* Mutant of StartRebuild: only what the graph holds is rebuilt.
StartRebuildOfGraph(p, label) ==
    /\ Goto(p, label)
    /\ job' = [job EXCEPT ![p].from = {View(p)[n] : n \in Stored(View(p)) \ Doc}]
    /\ behind' = behind \ {p}

StartRebuild(p, label) ==
    /\ Goto(p, label)
    /\ job' = [job EXCEPT ![p].from = {View(p)[n] : n \in Stored(View(p))}]
    /\ behind' = behind \ {p}

\* _load_index: the index in memory, or the file, or (the file set aside when it
\* can't be read) one rebuilt from the rows, or none.
Load(p) ==
    /\ pc[p] = "load"
    /\ \/ /\ mem[p].is = "ok"
          /\ Goto(p, Loaded(p))
          /\ UNCHANGED <<file, mem, job, behind>>
       \/ /\ mem[p].is = "none" /\ file.is = "ok"
          /\ mem' = [mem EXCEPT ![p] = file]
          /\ behind' = behind \ {p}
          /\ Goto(p, Loaded(p))
          /\ UNCHANGED <<file, job>>
       \/ /\ mem[p].is = "none" /\ file.is # "ok"
          /\ file' = NoIndex
          /\ IF Stored(View(p)) # {} /\ (file.is = "bad" \/ Retries(p))
             THEN StartRebuild(p, IF file.is = "bad" THEN "rebuild" ELSE "retry")
             ELSE Goto(p, Loaded(p)) /\ UNCHANGED <<job, behind>>
          /\ UNCHANGED mem
    /\ UNCHANGED <<source, graph, rows, writer, txn, edits, trouble, excuse, alone>>

\* _rebuild_index_from_store: every row it read is embedded again.
RebuildOK(p) ==
    /\ Rebuilding(p)
    /\ writer \in {None, p}
    /\ CommitOwn(p)
    /\ mem' = [mem EXCEPT ![p] = IndexOf(job[p].from)]
    /\ WriteFile(p, IndexOf(job[p].from))
    /\ Goto(p, Loaded(p))
    /\ job' = [job EXCEPT ![p].from = {}]
    /\ UNCHANGED <<source, graph, edits, trouble, alone>>

\* The rebuilt index stays in memory, but the write to the file fails.
RebuildUnsaved(p) ==
    /\ Rebuilding(p)
    /\ writer \in {None, p}
    /\ CommitOwn(p)
    /\ file' \in {file, Unreadable}
    /\ Leave(p, IndexOf(job[p].from))
    /\ behind' = behind \ Forget(p)
    /\ UNCHANGED <<source, graph, edits, trouble, excuse>>

\* The text can't be embedded.  embed_nodes tries once more and then embeds
\* every node of the graph.
RebuildFails(p) ==
    /\ Rebuilding(p)
    /\ IF pc[p] = "rebuild" /\ Retries(p) /\ Stored(View(p)) # {}
       THEN StartRebuild(p, "retry")
       ELSE /\ Goto(p, Loaded(p))
            /\ job' = [job EXCEPT ![p].from = {}, ![p].force = @ \/ pc[p] = "retry"]
            /\ UNCHANGED behind
    /\ UNCHANGED <<source, graph, rows, writer, txn, file, mem, edits, trouble, excuse, alone>>

\* Mutant of Scan: force is forgotten.
ScanUnforced(p) ==
    LET table == View(p)
        want == job[p].want
        todo == {n \in Scope(job[p].kind) :
                    want[n] # Gone /\ table[n].text # want[n]}
        new == {n \in todo : table[n] = NoRow}
        next == Max({table[n].uid : n \in Node}) + 1
    IN  /\ pc[p] = "scan"
        /\ job' = [job EXCEPT ![p].pending =
                {[node |-> n, new |-> n \in new,
                  uid |-> IF n \in new THEN next + Cardinality({m \in new : m < n})
                          ELSE table[n].uid] : n \in todo}]
        /\ Goto(p, IF todo = {} THEN "persist" ELSE "load")
        /\ UNCHANGED <<source, graph, rows, writer, txn, file, mem, edits, trouble,
                       behind, excuse, alone>>

\* What the run wants embedded: rows whose text differs, and new nodes, which
\* get the uids behind the largest.
Scan(p) ==
    LET table == View(p)
        want == job[p].want
        todo == {n \in Scope(job[p].kind) :
                    want[n] # Gone /\ (job[p].force \/ table[n].text # want[n])}
        new == {n \in todo : table[n] = NoRow}
        next == Max({table[n].uid : n \in Node}) + 1
    IN  /\ pc[p] = "scan"
        /\ job' = [job EXCEPT ![p].pending =
                {[node |-> n, new |-> n \in new,
                  uid |-> IF n \in new THEN next + Cardinality({m \in new : m < n})
                          ELSE table[n].uid] : n \in todo}]
        /\ Goto(p, IF todo = {} THEN "persist" ELSE "load")
        /\ UNCHANGED <<source, graph, rows, writer, txn, file, mem, edits, trouble,
                       behind, excuse, alone>>

EmbedFails(p) ==
    /\ pc[p] = "load" /\ job[p].pending # {}
    /\ trouble < MaxTrouble /\ trouble' = trouble + 1
    /\ Exit(p)
    /\ UNCHANGED <<source, graph, rows, writer, txn, file, edits, excuse>>

\* The index and the rows with some of the pending nodes in them.  A row that is
\* there keeps its uid.
Uids(vectors) == {v.uid : v \in vectors}
Indexed(p, some) ==
    IndexOf({v \in mem[p].of : v.uid \notin Uids(some)}
            \cup {[uid |-> e.uid, text |-> job[p].want[e.node]] : e \in some})
Upserted(p, some) ==
    [n \in Node |->
        IF \E e \in some : e.node = n
        THEN LET e == CHOOSE e \in some : e.node = n
             IN  [uid |-> IF View(p)[n] = NoRow THEN e.uid ELSE View(p)[n].uid,
                  text |-> job[p].want[n]]
        ELSE View(p)[n]]

\* Mutant of Clashes: no row breaks the unique uid.
ClashesNever(p) == {}

\* Nodes whose uid another node's row has taken since the scan.
Clashes(p) ==
    {e.node : e \in {d \in job[p].pending :
                        \E m \in Node \ {d.node} : View(p)[m].uid = d.uid}}
Duplicate(p) == \E e \in job[p].pending : e.new /\ e.uid \in Uids(mem[p].of)

Write(p) ==
    /\ pc[p] = "write"
    /\ writer \in {None, p}
    /\ Clashes(p) = {}
    /\ writer' = p
    /\ txn' = Upserted(p, job[p].pending)
    /\ mem' = [mem EXCEPT ![p] = Indexed(p, job[p].pending)]
    /\ excuse' = excuse
          \cup (IF mem[p].is = "none" /\ Stored(View(p)) # {} THEN {"subset"} ELSE {})
          \cup (IF \E e \in job[p].pending : View(p)[e.node].uid \notin {0, e.uid}
                THEN {"uid"} ELSE {})
    /\ Goto(p, "persist")
    /\ UNCHANGED <<source, graph, rows, file, job, edits, trouble, behind, alone>>

\* A row breaks the unique uid, or the library refuses an id it has: the nodes
\* before it are written, and no new vector is added.
WriteFails(p) ==
    LET first == Min(Clashes(p))
        updates == {e \in job[p].pending : ~e.new}
    IN  /\ pc[p] = "write"
        /\ writer \in {None, p}
        /\ \/ /\ Clashes(p) # {}
              /\ Abort(p, Indexed(p, {e \in updates : e.node <= first}),
                       Upserted(p, {e \in job[p].pending : e.node < first}))
           \/ /\ Clashes(p) = {} /\ Duplicate(p)
              /\ Abort(p, Indexed(p, updates), Upserted(p, job[p].pending))
        /\ UNCHANGED <<source, graph, rows, file, edits, trouble>>

\* _purge_orphans: rows of nodes the graph no longer has, unless they are more
\* than half of the store and --prune isn't given.
Purge(p, prune) ==
    LET orphans == {n \in Stored(View(p)) \ Doc : job[p].want[n] = Gone}
    IN  /\ pc[p] = "purge"
        /\ IF orphans = {} \/ (~prune /\ 2 * Cardinality(orphans) > Cardinality(Stored(View(p))))
           THEN Exit(p)
           ELSE /\ job' = [job EXCEPT ![p].phase = "delete", ![p].drop = orphans]
                /\ Goto(p, "load")
                /\ UNCHANGED <<mem, behind, alone>>
        /\ UNCHANGED <<source, graph, rows, writer, txn, file, edits, trouble, excuse>>

\* The phases of a run that is not over yet.
Continues(p) ==
    \/ job[p].kind = "build" /\ job[p].phase = "embed"
    \/ job[p].kind = "update" /\ job[p].phase = "delete"

Proceed(p) ==
    IF Continues(p)
    THEN /\ IF job[p].kind = "build"
            THEN Goto(p, "purge") /\ job' = [job EXCEPT ![p].pending = {}]
            ELSE Goto(p, "nodes") /\ job' = [job EXCEPT ![p].phase = "embed", ![p].drop = {}]
         /\ UNCHANGED <<mem, alone>>
    ELSE Leave(p, mem[p])

\* delete_nodes, up to its commit.
Delete(p) ==
    LET drop == job[p].drop \cap Stored(View(p))
    IN  /\ pc[p] = "delete"
        /\ IF drop = {}
           THEN /\ Proceed(p)
                /\ behind' = behind \ (IF Continues(p) THEN {} ELSE Forget(p))
                /\ UNCHANGED <<writer, txn>>
           ELSE /\ writer \in {None, p}
                /\ writer' = p
                /\ txn' = [n \in Node |-> IF n \in drop THEN NoRow ELSE View(p)[n]]
                /\ mem' = [mem EXCEPT ![p].of =
                              {v \in @ : v.uid \notin Uids({View(p)[n] : n \in drop})}]
                /\ Goto(p, "persist")
                /\ UNCHANGED <<job, behind, alone>>
        /\ UNCHANGED <<source, graph, rows, file, edits, trouble, excuse>>

Persist(p) ==
    /\ pc[p] = "persist"
    /\ IF mem[p].is = "ok" THEN WriteFile(p, mem[p])
       ELSE UNCHANGED <<file, behind, excuse>>
    /\ Goto(p, "commit")
    /\ UNCHANGED <<source, graph, rows, writer, txn, mem, job, edits, trouble, alone>>

\* The write to the index file fails.
PersistFails(p) ==
    /\ pc[p] = "persist" /\ mem[p].is = "ok"
    /\ trouble < MaxTrouble /\ trouble' = trouble + 1
    /\ file' \in {file, Unreadable}
    /\ IF writer = p THEN Abort(p, mem[p], txn)
       ELSE Exit(p) /\ UNCHANGED <<writer, txn, excuse>>
    /\ UNCHANGED <<source, graph, rows, edits>>

Commit(p) ==
    /\ pc[p] = "commit"
    /\ CommitOwn(p)
    /\ Proceed(p)
    /\ behind' = (behind \cup IF writer = p THEN {q \in Proc : Rebuilding(q)} ELSE {})
                 \ (IF Continues(p) THEN {} ELSE Forget(p))
    /\ UNCHANGED <<source, graph, file, edits, trouble, excuse>>

Answer(p) ==
    /\ pc[p] = "answer"
    /\ Exit(p)
    /\ UNCHANGED <<source, graph, rows, writer, txn, file, edits, trouble, excuse>>

\* A kill rolls the transaction back, and may cut the file short.
Kill(p) ==
    /\ pc[p] # "idle" \/ mem[p].is = "ok"
    /\ trouble < MaxTrouble /\ trouble' = trouble + 1
    /\ Goto(p, "idle")
    /\ job' = [job EXCEPT ![p] = NoJob]
    /\ mem' = [mem EXCEPT ![p] = NoIndex]
    /\ IF writer = p THEN writer' = None /\ txn' = NoRows ELSE UNCHANGED <<writer, txn>>
    /\ file' \in IF pc[p] \in {"persist", "rebuild", "retry"} THEN {file, Unreadable} ELSE {file}
    /\ behind' = behind \ {p}
    /\ excuse' = IF pc[p] = "commit" /\ writer = p THEN excuse \cup {"killed"} ELSE excuse
    /\ alone' = IF alone = p THEN None ELSE alone
    /\ UNCHANGED <<source, graph, rows, edits>>

\* An upgrade of the library that can't read the file of the old one.
Upgrade ==
    /\ file.is = "ok"
    /\ trouble < MaxTrouble /\ trouble' = trouble + 1
    /\ file' = Unreadable
    /\ UNCHANGED <<source, graph, rows, writer, txn, mem, pc, job, edits, behind, excuse, alone>>

\* Files are edited, or another commit is checked out.
Edit ==
    /\ edits < MaxEdits /\ edits' = edits + 1
    /\ \E n \in Node, text \in Text \cup {Gone} :
           text # source[n] /\ source' = [source EXCEPT ![n] = text]
    /\ UNCHANGED <<graph, rows, writer, txn, file, mem, pc, job, trouble, behind, excuse, alone>>

RunSteps(p) ==
    \/ WriteGraph(p) \/ LoadGraph(p) \/ Load(p)
    \/ RebuildOK(p) \/ RebuildUnsaved(p) \/ RebuildFails(p)
    \/ Scan(p) \/ EmbedFails(p) \/ Write(p) \/ WriteFails(p)
    \/ (\E prune \in BOOLEAN : Purge(p, prune)) \/ Delete(p)
    \/ Persist(p) \/ PersistFails(p) \/ Commit(p) \/ Answer(p)

Next ==
    \/ \E p \in Proc :
        \/ (\E force \in BOOLEAN : Build(p, force))
        \/ Update(p) \/ Ingest(p) \/ Search(p) \/ RunSteps(p) \/ Kill(p)
    \/ Upgrade
    \/ Edit

Spec == Init /\ [][Next]_vars

--------------------------------------------------------------------------------
(* Properties *)

\* "The store is sufficient to rebuild every vector regardless of how it was
\* ingested": once its writer has committed, every row has a vector of its text in
\* a file that can be read, whatever was killed, upgraded or raced, but for the
\* cases excuse names.
RowsHaveVectors ==
    writer = None /\ file.is = "ok" /\ excuse = {}
      => \A n \in Stored(rows) : rows[n] \in file.of

\* "They stay unsearchable until the next forced re-embed": whatever went wrong
\* before, excused or not, a forced build that no other run overlaps leaves every
\* node of its graph with a row and a vector of its text.
ForcedBuildRepairs ==
    [][\A p \in Proc :
          /\ Commit(p) /\ job[p].force /\ job[p].phase = "embed"
          /\ p = alone /\ file.is = "ok"
          => \A n \in Node : job[p].want[n] # Gone =>
                /\ rows'[n].text = job[p].want[n]
                /\ rows'[n] \in file.of]_vars
==============================================================================

---------------------------- MODULE VectorIndexProofs ----------------------------
(***************************************************************************)
(* Proofs about VectorIndex, for any number of processes, nodes, texts,    *)
(* edits, kills and upgrades.                                              *)
(***************************************************************************)
EXTENDS VectorIndex, FunctionTheorems, FiniteSetTheorems, WellFoundedInduction, TLAPS

--------------------------------------------------------------------------------
(* Finite sets of numbers *)

\* A finite set of numbers that isn't empty has a largest one.
LEMMA LargestExists ==
    ASSUME NEW S \in SUBSET Nat, IsFiniteSet(S), S # {}
    PROVE  \E x \in S : \A y \in S : y <= x
<1> DEFINE Bad == {T \in FiniteSubsetsOf(S) : T # {} /\ ~\E x \in T : \A y \in T : y <= x}
<1>1. SUFFICES ASSUME S \in Bad PROVE FALSE
  BY DEF FiniteSubsetsOf
<1>2. PICK T \in Bad : \A U \in Bad : ~(<<U, T>> \in StrictSubsetOrdering(S))
  <2>1. Bad \subseteq FiniteSubsetsOf(S) /\ Bad # {}
    BY <1>1
  <2> HIDE DEF Bad
  <2>2. QED
    BY <2>1, WFMin, FS_StrictSubsetOrderingWellFounded
<1>3. IsFiniteSet(T) /\ T \in SUBSET S /\ T # {} /\ ~\E x \in T : \A y \in T : y <= x
  BY <1>2 DEF FiniteSubsetsOf
<1>4. PICK t \in T : TRUE
  BY <1>3
<1> DEFINE U == T \ {t}
<1>5. IsFiniteSet(U) /\ U \in SUBSET S /\ U # T /\ U \in SUBSET T
  BY <1>3, <1>4, FS_RemoveElement
<1>6. U \notin Bad
  <2>1. U \in FiniteSubsetsOf(S) /\ T \in FiniteSubsetsOf(S)
    BY <1>3, <1>5 DEF FiniteSubsetsOf
  <2>2. <<U, T>> \in StrictSubsetOrdering(S)
    BY <1>3, <1>5 DEF StrictSubsetOrdering
  <2>3. QED
    BY <1>2, <2>2
<1>7. CASE U = {}
  <2>1. \A y \in T : y = t
    BY <1>7
  <2>2. QED
    BY <1>3, <1>4, <2>1
<1>8. CASE U # {}
  <2>1. PICK x \in U : \A y \in U : y <= x
    BY <1>5, <1>6, <1>8 DEF FiniteSubsetsOf
  <2>2. x \in Nat /\ t \in Nat /\ x \in T /\ \A y \in T : y \in Nat /\ (y = t \/ y \in U)
    BY <1>3, <1>4, <2>1
  <2>3. CASE t <= x
    BY <1>3, <2>1, <2>2, <2>3
  <2>4. CASE x <= t
    <3>1. \A y \in T : y <= t
      BY <2>1, <2>2, <2>4
    <3>2. QED
      BY <1>3, <1>4, <3>1
  <2>5. QED
    BY <2>2, <2>3, <2>4
<1>9. QED
  BY <1>7, <1>8

LEMMA MaxIs ==
    ASSUME NEW S \in SUBSET Nat, IsFiniteSet(S), S # {}
    PROVE  Max(S) \in S /\ \A y \in S : y <= Max(S)
<1>1. \E x \in S : \A y \in S : y <= x
  BY LargestExists
<1>2. \E x \in S : \A y \in S : x >= y
  BY <1>1
<1>3. QED
  BY <1>2, <1>1 DEF Max

LEMMA MinIs ==
    ASSUME NEW S \in SUBSET Nat, S # {}
    PROVE  Min(S) \in S /\ \A y \in S : Min(S) <= y
<1>1. PICK x \in S : \A y \in S : ~(<<y, x>> \in OpToRel(<, Nat))
  BY WFMin, NatLessThanWellFounded
<1>2. ASSUME NEW y \in S
      PROVE  x <= y
  <2>1. x \in Nat /\ y \in Nat
    OBVIOUS
  <2>2. ~(y < x)
    BY <1>1, <2>1 DEF OpToRel
  <2>3. QED
    BY <2>1, <2>2
<1>3. \E u \in S : \A y \in S : u <= y
  BY <1>2
<1>4. QED
  BY <1>3 DEF Min

--------------------------------------------------------------------------------
(* Types *)

Index == [is : {"none", "bad", "ok"}, of : SUBSET Entry]
Todo == [node : Node, new : BOOLEAN, uid : Nat]
Job == [kind : {"none", "build", "update", "ingest", "search"},
        phase : {"none", "embed", "delete", "read"}, force : BOOLEAN,
        want : [Node -> Text \cup {Gone}], pending : SUBSET Todo,
        drop : SUBSET Node, from : SUBSET Entry]
Labels == {"idle", "graph", "nodes", "load", "rebuild", "retry", "scan", "write",
           "purge", "delete", "persist", "commit", "answer"}

\* A row that is there has a uid, and no other row has it.
Sound(table) ==
    /\ table \in [Node -> Entry]
    /\ \A n \in Node : table[n].uid = 0 => table[n] = NoRow
    /\ \A m, n \in Node : table[m] # NoRow /\ table[m].uid = table[n].uid => m = n

\* What is to be embedded: one entry a node, under a uid of its own.
Planned(pending) ==
    /\ \A e \in pending : e.uid # 0
    /\ \A d, e \in pending : d.node = e.node \/ d.uid = e.uid => d = e

Typed ==
    /\ source \in [Node -> Text \cup {Gone}] /\ graph \in [Node -> Text \cup {Gone}]
    /\ writer \in Proc \cup {None} /\ (writer = None => txn = NoRows)
    /\ file \in Index /\ mem \in [Proc -> Index]
    /\ pc \in [Proc -> Labels] /\ job \in [Proc -> Job]
    /\ behind \subseteq Proc /\ alone \in Proc \cup {None} /\ excuse \subseteq Excuses

TablesSound == Sound(rows) /\ Sound(txn)

\* An index in memory can be read; one that is missing holds nothing.
MemReads == \A p \in Proc : mem[p].is = "ok" \/ mem[p] = NoIndex

AllPlanned == \A p \in Proc : Planned(job[p].pending)

Shape == Typed /\ TablesSound /\ MemReads /\ AllPlanned

\* The rows of a table.
RowsOf(table) == {table[n] : n \in Stored(table)}

LEMMA Initials ==
    /\ NoRow \in Entry /\ NoRow.uid = 0 /\ NoRow.text = Gone
    /\ Sound(NoRows) /\ Stored(NoRows) = {}
    /\ NoIndex \in Index /\ Unreadable \in Index
    /\ \A vectors \in SUBSET Entry :
          IndexOf(vectors) \in Index /\ IndexOf(vectors).is = "ok" /\ IndexOf(vectors).of = vectors
    /\ NoJob \in Job /\ NoText \in [Node -> Text \cup {Gone}]
    /\ Planned({})
<1>1. NoRow \in Entry /\ NoRow.uid = 0 /\ NoRow.text = Gone
  BY DEF NoRow, Entry
<1>2. Sound(NoRows) /\ Stored(NoRows) = {}
  BY <1>1 DEF Sound, NoRows, Stored
<1>3. NoIndex \in Index /\ Unreadable \in Index
  BY DEF NoIndex, Unreadable, Index
<1>4. ASSUME NEW vectors \in SUBSET Entry
      PROVE  /\ IndexOf(vectors) \in Index /\ IndexOf(vectors).is = "ok"
             /\ IndexOf(vectors).of = vectors
  BY DEF IndexOf, Index
<1>5. NoJob \in Job /\ NoText \in [Node -> Text \cup {Gone}]
  BY DEF NoJob, NoText, Job
<1>6. QED
  BY <1>1, <1>2, <1>3, <1>4, <1>5 DEF Planned

LEMMA RowOf ==
    ASSUME NEW table, Sound(table), NEW n \in Node
    PROVE  /\ table[n] \in Entry /\ table[n].uid \in Nat /\ table[n].text \in Text \cup {Gone}
           /\ (n \in Stored(table) <=> table[n] # NoRow)
           /\ (n \in Stored(table) <=> table[n].uid # 0)
<1>1. table[n] \in Entry
  BY DEF Sound
<1>2. table[n].uid \in Nat /\ table[n].text \in Text \cup {Gone}
  BY <1>1 DEF Entry
<1>3. QED
  BY <1>1, <1>2 DEF Sound, Stored, NoRow

LEMMA ViewSound ==
    ASSUME TablesSound, NEW p
    PROVE  Sound(View(p)) /\ View(p) \in [Node -> Entry]
BY DEF TablesSound, View, Sound

LEMMA ShapeTyped ==
    ASSUME Shape
    PROVE  TypeOK
<1>1. rows \in [Node -> Entry] /\ txn \in [Node -> Entry]
  BY DEF Shape, TablesSound, Sound
<1>2. /\ source \in [Node -> Text \cup {Gone}] /\ graph \in [Node -> Text \cup {Gone}]
      /\ writer \in Proc \cup {None} /\ (writer = None => txn = NoRows)
      /\ excuse \subseteq Excuses
  BY DEF Shape, Typed
<1>3. file.is \in {"none", "bad", "ok"} /\ file.of \subseteq Entry
  BY DEF Shape, Typed, Index
<1>4. ASSUME NEW p \in Proc
      PROVE  /\ mem[p].is \in {"none", "ok"} /\ mem[p].of \subseteq Entry
             /\ pc[p] \in Labels
             /\ job[p].kind \in {"none", "build", "update", "ingest", "search"}
  BY DEF Shape, Typed, MemReads, NoIndex, Index, Job
<1>5. \A m, n \in Stored(rows) : m # n => rows[m].uid # rows[n].uid
  BY DEF Shape, TablesSound, Sound, Stored
<1>6. QED
  BY <1>1, <1>2, <1>3, <1>4, <1>5 DEF TypeOK, Labels

--------------------------------------------------------------------------------
(* What a step does to one process *)

LEMMA PcSet ==
    ASSUME Typed, NEW p \in Proc, NEW label \in Labels, Goto(p, label)
    PROVE  /\ pc' \in [Proc -> Labels] /\ pc'[p] = label
           /\ \A q \in Proc : q # p => pc'[q] = pc[q]
BY DEF Typed, Goto

LEMMA JobSet ==
    ASSUME Typed, NEW p \in Proc, NEW j \in Job, job' = [job EXCEPT ![p] = j]
    PROVE  /\ job' \in [Proc -> Job] /\ job'[p] = j
           /\ \A q \in Proc : q # p => job'[q] = job[q]
BY DEF Typed

LEMMA MemSet ==
    ASSUME Typed, NEW p \in Proc, NEW index \in Index, mem' = [mem EXCEPT ![p] = index]
    PROVE  /\ mem' \in [Proc -> Index] /\ mem'[p] = index
           /\ \A q \in Proc : q # p => mem'[q] = mem[q]
BY DEF Typed

LEMMA LeaveIs ==
    ASSUME Typed, NEW p \in Proc, NEW index \in Index, Leave(p, index)
    PROVE  /\ Goto(p, "idle") /\ job' = [job EXCEPT ![p] = NoJob]
           /\ mem' = [mem EXCEPT ![p] = IF p \in Long THEN index ELSE NoIndex]
           /\ alone' \in Proc \cup {None}
           /\ mem' \in [Proc -> Index]
           /\ mem'[p] = IF p \in Long THEN index ELSE NoIndex
           /\ \A q \in Proc : q # p => mem'[q] = mem[q]
<1>1. /\ Goto(p, "idle") /\ job' = [job EXCEPT ![p] = NoJob]
      /\ mem' = [mem EXCEPT ![p] = IF p \in Long THEN index ELSE NoIndex]
      /\ alone' = IF alone = p THEN None ELSE alone
  BY Zenon DEF Leave
<1>2. (IF p \in Long THEN index ELSE NoIndex) \in Index
  BY Initials
<1>3. QED
  BY <1>1, <1>2, MemSet DEF Typed

LEMMA LoadedIs ==
    ASSUME NEW p
    PROVE  /\ Loaded(p) \in {"delete", "answer", "scan", "write"}
           /\ Loaded(p) = "delete" => job[p].phase = "delete"
           /\ job[p].phase = "delete" => Loaded(p) = "delete"
           /\ job[p].phase = "embed" /\ job[p].pending # {} => Loaded(p) = "write"
           /\ Loaded(p) = "write" => job[p].pending # {}
<1>1. CASE job[p].phase = "delete"
  BY <1>1 DEF Loaded
<1>2. CASE job[p].phase = "read"
  BY <1>2 DEF Loaded
<1>3. CASE job[p].phase \notin {"delete", "read"}
  <2>1. Loaded(p) = IF job[p].pending = {} THEN "scan" ELSE "write"
    BY <1>3 DEF Loaded
  <2>2. QED
    BY <1>3, <2>1
<1>4. QED
  BY <1>1, <1>2, <1>3

LEMMA BeginIs ==
    ASSUME Typed, NEW p \in Proc,
           NEW kind \in {"build", "update", "ingest", "search"},
           NEW phase \in {"embed", "delete", "read"}, NEW force \in BOOLEAN,
           NEW want \in [Node -> Text \cup {Gone}], NEW drop \in SUBSET Node,
           Begin(p, kind, phase, force, want, drop)
    PROVE  /\ pc[p] = "idle"
           /\ job' \in [Proc -> Job]
           /\ \A q \in Proc : q # p => job'[q] = job[q]
           /\ job'[p].kind = kind /\ job'[p].phase = phase /\ job'[p].force = force
           /\ job'[p].want = want /\ job'[p].drop = drop
           /\ job'[p].pending = {} /\ job'[p].from = {}
           /\ alone' \in {p, None}
           /\ alone' = p => \A q \in Proc : pc[q] = "idle"
<1> DEFINE j == [NoJob EXCEPT !.kind = kind, !.phase = phase, !.force = force,
                             !.want = want, !.drop = drop]
<1>1. /\ pc[p] = "idle" /\ job' = [job EXCEPT ![p] = j]
      /\ alone' = IF \A q \in Proc : pc[q] = "idle" THEN p ELSE None
  BY Zenon DEF Begin
<1>2. /\ j \in Job
      /\ j.kind = kind /\ j.phase = phase /\ j.force = force
      /\ j.want = want /\ j.drop = drop /\ j.pending = {} /\ j.from = {}
  BY DEF NoJob, Job, NoText
<1> HIDE DEF j
<1>3. job' \in [Proc -> Job] /\ job'[p] = j /\ \A q \in Proc : q # p => job'[q] = job[q]
  BY <1>1, <1>2, JobSet
<1>4. p # None
  BY VectorAssumption
<1>5. alone' \in {p, None} /\ (alone' = p => \A q \in Proc : pc[q] = "idle")
  BY <1>1, <1>4, Zenon
<1>6. QED
  BY <1>1, <1>2, <1>3, <1>5

\* The rows as p sees them.
Seen(p) == RowsOf(View(p))

LEMMA RowsTyped ==
    ASSUME NEW table, Sound(table)
    PROVE  RowsOf(table) \subseteq Entry /\ \A n \in Stored(table) : n \in Node /\ table[n] \in RowsOf(table)
BY DEF Sound, RowsOf, Stored

LEMMA StartRebuildIs ==
    ASSUME Shape, NEW p \in Proc, NEW label \in {"rebuild", "retry"}, StartRebuild(p, label)
    PROVE  /\ Goto(p, label) /\ behind' = behind \ {p}
           /\ job' = [job EXCEPT ![p] = [job[p] EXCEPT !.from = Seen(p)]]
           /\ Seen(p) \in SUBSET Entry
<1>1. Seen(p) \in SUBSET Entry
  BY ViewSound, RowsTyped DEF Shape, Seen
<1>2. {View(p)[n] : n \in Stored(View(p))} = Seen(p)
  BY DEF Seen, RowsOf
<1>3. QED
  BY <1>1, <1>2 DEF StartRebuild

LEMMA ProceedIs ==
    ASSUME Shape, NEW p \in Proc, Proceed(p)
    PROVE  \/ /\ job[p].kind = "build" /\ job[p].phase = "embed"
              /\ Goto(p, "purge") /\ job' = [job EXCEPT ![p] = [job[p] EXCEPT !.pending = {}]]
              /\ UNCHANGED <<mem, alone>> /\ Continues(p)
           \/ /\ job[p].kind = "update" /\ job[p].phase = "delete"
              /\ Goto(p, "nodes")
              /\ job' = [job EXCEPT ![p] = [job[p] EXCEPT !.phase = "embed", !.drop = {}]]
              /\ UNCHANGED <<mem, alone>> /\ Continues(p)
           \/ Leave(p, mem[p]) /\ ~Continues(p)
<1>1. CASE Continues(p)
  <2>1. CASE job[p].kind = "build"
    <3>1. job[p].phase = "embed"
      BY <1>1, <2>1 DEF Continues
    <3>2. /\ Goto(p, "purge") /\ job' = [job EXCEPT ![p].pending = {}]
          /\ UNCHANGED <<mem, alone>>
      BY <1>1, <2>1, Zenon DEF Proceed
    <3>3. QED
      BY <1>1, <2>1, <3>1, <3>2
  <2>2. CASE job[p].kind # "build"
    <3>1. job[p].kind = "update" /\ job[p].phase = "delete"
      BY <1>1, <2>2 DEF Continues
    <3>2. /\ Goto(p, "nodes") /\ job' = [job EXCEPT ![p].phase = "embed", ![p].drop = {}]
          /\ UNCHANGED <<mem, alone>>
      BY <1>1, <2>2, Zenon DEF Proceed
    <3>3. [job EXCEPT ![p].phase = "embed", ![p].drop = {}]
            = [job EXCEPT ![p] = [job[p] EXCEPT !.phase = "embed", !.drop = {}]]
      BY DEF Shape, Typed, Job
    <3>4. QED
      BY <1>1, <3>1, <3>2, <3>3
  <2>3. QED
    BY <2>1, <2>2
<1>2. CASE ~Continues(p)
  BY <1>2, Zenon DEF Proceed
<1>3. QED
  BY <1>1, <1>2

--------------------------------------------------------------------------------
(* Rows and vectors *)

Free(p, some) == \A e \in some : \A m \in Node \ {e.node} : View(p)[m].uid # e.uid

LEMMA PendingTyped ==
    ASSUME Shape, NEW p \in Proc
    PROVE  /\ job[p] \in Job /\ job[p].pending \subseteq Todo /\ Planned(job[p].pending)
           /\ \A e \in job[p].pending :
                 /\ e.node \in Node /\ e.uid \in Nat /\ e.uid # 0 /\ e.new \in BOOLEAN
                 /\ job[p].want[e.node] \in Text \cup {Gone}
<1>1. job[p] \in Job /\ Planned(job[p].pending)
  BY DEF Shape, Typed, AllPlanned
<1>2. job[p].pending \subseteq Todo /\ job[p].want \in [Node -> Text \cup {Gone}]
  BY <1>1 DEF Job
<1>3. \A e \in Todo : e.node \in Node /\ e.uid \in Nat /\ e.new \in BOOLEAN
  BY DEF Todo
<1>4. QED
  BY <1>1, <1>2, <1>3 DEF Planned

\* Upserted without its CHOOSE.
LEMMA UpsertedIs ==
    ASSUME Shape, NEW p \in Proc, NEW some \in SUBSET job[p].pending
    PROVE  /\ \A e \in some :
                 Upserted(p, some)[e.node] =
                   [uid |-> IF View(p)[e.node] = NoRow THEN e.uid ELSE View(p)[e.node].uid,
                    text |-> job[p].want[e.node]]
           /\ \A n \in Node : (\A e \in some : e.node # n) => Upserted(p, some)[n] = View(p)[n]
           /\ Upserted(p, some) \in [Node -> Entry]
<1> DEFINE up == Upserted(p, some)
           Row(e) == [uid |-> IF View(p)[e.node] = NoRow THEN e.uid ELSE View(p)[e.node].uid,
                      text |-> job[p].want[e.node]]
<1>1. DOMAIN up = Node
  BY DEF Upserted
<1>2. ASSUME NEW n \in Node, \A e \in some : e.node # n
      PROVE  up[n] = View(p)[n]
  <2>1. ~\E e \in some : e.node = n
    BY <1>2
  <2>2. QED
    BY <2>1 DEF Upserted
<1>3. ASSUME NEW e \in some
      PROVE  e.node \in Node /\ up[e.node] = Row(e)
  <2> DEFINE n == e.node
             c == CHOOSE d \in some : d.node = n
  <2>1. n \in Node
    BY PendingTyped
  <2>2. c \in some /\ c.node = n
    <3>1. \E d \in some : d.node = n
      OBVIOUS
    <3>2. QED
      BY <3>1, Zenon
  <2>3. c = e
    BY <2>2, PendingTyped DEF Planned
  <2>4. up[n] = [uid |-> IF View(p)[n] = NoRow THEN c.uid ELSE View(p)[n].uid,
                 text |-> job[p].want[n]]
    BY <2>1 DEF Upserted
  <2>5. QED
    BY <2>1, <2>3, <2>4
<1>4. \A n \in Node : View(p)[n] \in Entry /\ View(p)[n].uid \in Nat
  BY ViewSound, RowOf DEF Shape
<1>5. ASSUME NEW e \in some
      PROVE  Row(e) \in Entry
  <2>1. e.uid \in Nat /\ e.node \in Node /\ job[p].want[e.node] \in Text \cup {Gone}
    BY PendingTyped
  <2>2. QED
    BY <1>4, <2>1 DEF Entry
<1>6. \A n \in Node : up[n] \in Entry
  BY <1>2, <1>3, <1>4, <1>5
<1>7. up \in [Node -> Entry]
  <2>1. up = [n \in Node |-> up[n]]
    BY DEF Upserted
  <2> HIDE DEF up
  <2>2. QED
    BY <1>6, <2>1
<1>8. QED
  BY <1>2, <1>3, <1>7

LEMMA UpsertSound ==
    ASSUME Shape, NEW p \in Proc, NEW some \in SUBSET job[p].pending, Free(p, some)
    PROVE  Sound(Upserted(p, some))
<1> DEFINE up == Upserted(p, some)
           old == View(p)
<1>1. Sound(old)
  BY ViewSound DEF Shape
<1>2. /\ \A e \in some :
            up[e.node].uid = IF old[e.node] = NoRow THEN e.uid ELSE old[e.node].uid
      /\ \A n \in Node : (\A e \in some : e.node # n) => up[n] = old[n]
      /\ up \in [Node -> Entry]
  <2>1. ASSUME NEW e \in some
        PROVE  up[e.node].uid = IF old[e.node] = NoRow THEN e.uid ELSE old[e.node].uid
    <3>1. up[e.node] = [uid |-> IF old[e.node] = NoRow THEN e.uid ELSE old[e.node].uid,
                        text |-> job[p].want[e.node]]
      BY UpsertedIs
    <3> HIDE DEF up, old
    <3>2. QED
      BY <3>1
  <2>2. QED
    BY <2>1, UpsertedIs
<1>3. \A e \in some : e.node \in Node /\ e.uid \in Nat /\ e.uid # 0
  BY PendingTyped
<1>4. \A n \in Node : old[n].uid \in Nat /\ (old[n] = NoRow <=> old[n].uid = 0)
  BY <1>1, RowOf DEF Stored, NoRow
<1>5. \A d, e \in some : d.uid = e.uid => d = e
  BY PendingTyped DEF Planned
<1>6. \A e \in some : \A m \in Node \ {e.node} : old[m].uid # e.uid
  BY DEF Free
<1>7. \A m, n \in Node : old[m].uid # 0 /\ old[m].uid = old[n].uid => m = n
  BY <1>1, <1>4 DEF Sound
<1> HIDE DEF up, old
\* The uid a row has: the one it had, or that of an entry.
<1>8. ASSUME NEW n \in Node
      PROVE  \/ up[n].uid = old[n].uid /\ (old[n].uid = 0 => up[n] = old[n])
             \/ \E e \in some : e.node = n /\ old[n].uid = 0 /\ up[n].uid = e.uid
  <2>1. CASE \E e \in some : e.node = n
    BY <1>2, <1>4, <2>1
  <2>2. CASE ~\E e \in some : e.node = n
    BY <1>2, <2>2
  <2>3. QED
    BY <2>1, <2>2
<1>9. \A n \in Node : up[n].uid = 0 => up[n] = NoRow
  BY <1>3, <1>4, <1>8
<1>10. ASSUME NEW m \in Node, NEW n \in Node, up[m].uid # 0, up[m].uid = up[n].uid
       PROVE  m = n
  <2>1. CASE up[m].uid = old[m].uid /\ up[n].uid = old[n].uid
    BY <1>7, <1>10, <2>1
  <2>2. CASE up[m].uid = old[m].uid /\ \E e \in some : e.node = n /\ up[n].uid = e.uid
    BY <1>6, <1>10, <2>2
  <2>3. CASE up[n].uid = old[n].uid /\ \E e \in some : e.node = m /\ up[m].uid = e.uid
    BY <1>6, <1>10, <2>3
  <2>4. CASE /\ \E e \in some : e.node = m /\ up[m].uid = e.uid
             /\ \E e \in some : e.node = n /\ up[n].uid = e.uid
    BY <1>5, <1>10, <2>4
  <2>5. QED
    BY <1>8, <2>1, <2>2, <2>3, <2>4
<1>11. Sound(up)
  BY <1>2, <1>9, <1>10 DEF Sound, NoRow
<1>12. QED
  BY <1>11 DEF up

\* Without clashes every entry's uid is free, and so is that of each entry below
\* the first clash.
LEMMA NoClash ==
    ASSUME Shape, NEW p \in Proc
    PROVE  /\ Clashes(p) = {} => Free(p, job[p].pending)
           /\ Clashes(p) # {} =>
                 Free(p, {e \in job[p].pending : e.node < Min(Clashes(p))})
<1>1. \A e \in job[p].pending : e.node \in Node
  BY PendingTyped
<1>2. \A e \in job[p].pending :
         e.node \notin Clashes(p) => \A m \in Node \ {e.node} : View(p)[m].uid # e.uid
  BY DEF Clashes
<1>3. Clashes(p) \in SUBSET Nat
  BY <1>1, VectorAssumption DEF Clashes
<1>4. ASSUME Clashes(p) # {}, NEW e \in job[p].pending, e.node < Min(Clashes(p))
      PROVE  e.node \notin Clashes(p)
  <2>1. /\ Min(Clashes(p)) \in Clashes(p)
        /\ \A y \in Clashes(p) : Min(Clashes(p)) <= y
    BY <1>3, <1>4, MinIs
  <2>2. e.node \in Nat /\ Min(Clashes(p)) \in Nat
    BY <1>1, <1>3, <2>1, VectorAssumption
  <2> HIDE DEF Min
  <2>3. QED
    BY <1>4, <2>1, <2>2
<1>5. QED
  BY <1>2, <1>4 DEF Free

LEMMA DeletedSound ==
    ASSUME NEW table, Sound(table), NEW drop \in SUBSET Node
    PROVE  Sound([n \in Node |-> IF n \in drop THEN NoRow ELSE table[n]])
<1> DEFINE less == [n \in Node |-> IF n \in drop THEN NoRow ELSE table[n]]
<1>1. \A n \in Node : table[n] \in Entry /\ (table[n].uid = 0 => table[n] = NoRow)
  BY DEF Sound
<1>2. \A m, n \in Node : table[m] # NoRow /\ table[m].uid = table[n].uid => m = n
  BY DEF Sound
<1>3. less \in [Node -> Entry]
  BY <1>1, Initials
<1>4. \A n \in Node : less[n] = IF n \in drop THEN NoRow ELSE table[n]
  OBVIOUS
<1>5. NoRow.uid = 0
  BY Initials
<1> HIDE DEF less
<1>6. \A n \in Node : less[n].uid = 0 => less[n] = NoRow
  BY <1>1, <1>4
<1>7. \A m, n \in Node : less[m] # NoRow /\ less[m].uid = less[n].uid => m = n
  BY <1>1, <1>2, <1>4, <1>5
<1>8. Sound(less)
  BY <1>3, <1>6, <1>7 DEF Sound
<1>9. QED
  BY <1>8 DEF less

LEMMA IndexedIs ==
    ASSUME Shape, NEW p \in Proc, NEW some \in SUBSET job[p].pending
    PROVE  /\ Indexed(p, some) \in Index /\ Indexed(p, some).is = "ok"
           /\ \A e \in some : [uid |-> e.uid, text |-> job[p].want[e.node]] \in Indexed(p, some).of
           /\ \A v \in mem[p].of : (\A e \in some : e.uid # v.uid) => v \in Indexed(p, some).of
<1> DEFINE kept == {v \in mem[p].of : v.uid \notin Uids(some)}
           added == {[uid |-> e.uid, text |-> job[p].want[e.node]] : e \in some}
<1>1. mem[p].of \subseteq Entry
  BY DEF Shape, Typed, Index
<1>2. added \subseteq Entry
  BY PendingTyped DEF Entry
<1>3. kept \cup added \in SUBSET Entry
  BY <1>1, <1>2
<1>4. Indexed(p, some) = IndexOf(kept \cup added)
  BY DEF Indexed
<1>5. /\ Indexed(p, some) \in Index /\ Indexed(p, some).is = "ok"
      /\ Indexed(p, some).of = kept \cup added
  BY <1>3, <1>4, Initials
<1>6. \A v \in mem[p].of : (\A e \in some : e.uid # v.uid) => v \in kept
  BY DEF Uids
<1>7. QED
  BY <1>5, <1>6

\* What Scan plans for some nodes.
PlanFor(p, nodes) ==
    LET table == View(p)
        new == {n \in nodes : table[n] = NoRow}
        next == Max({table[n].uid : n \in Node}) + 1
    IN  {[node |-> n, new |-> n \in new,
          uid |-> IF n \in new THEN next + Cardinality({m \in new : m < n})
                  ELSE table[n].uid] : n \in nodes}

LEMMA PlanIs ==
    ASSUME Shape, NEW p, NEW nodes \in SUBSET Node
    PROVE  /\ PlanFor(p, nodes) \subseteq Todo /\ Planned(PlanFor(p, nodes))
           /\ nodes = {} => PlanFor(p, nodes) = {}
           /\ \A n \in nodes : \E e \in PlanFor(p, nodes) : e.node = n
           /\ \A e \in PlanFor(p, nodes) :
                 View(p)[e.node] = NoRow \/ View(p)[e.node].uid = e.uid
<1> DEFINE table == View(p)
           new == {n \in nodes : table[n] = NoRow}
           all == {table[n].uid : n \in Node}
           next == Max(all) + 1
           Below(n) == {m \in new : m < n}
           U(n) == IF n \in new THEN next + Cardinality(Below(n)) ELSE table[n].uid
           Item(n) == [node |-> n, new |-> n \in new, uid |-> U(n)]
<1>1. \A n \in Node : table[n] \in Entry /\ table[n].uid \in Nat /\ (table[n].uid = 0 => table[n] = NoRow)
  BY ViewSound, RowOf DEF Shape, Stored
<1>2. \A m, n \in Node : table[m] # NoRow /\ table[m].uid = table[n].uid => m = n
  BY ViewSound DEF Shape, Sound
<1> HIDE DEF table
<1>3. IsFiniteSet(all) /\ all \in SUBSET Nat
  <2> DEFINE f == [n \in Node |-> table[n].uid]
  <2>1. f \in Surjection(Node, all)
    BY DEF Surjection
  <2>2. IsFiniteSet(all)
    BY <2>1, FS_Surjection, VectorAssumption
  <2>3. QED
    BY <1>1, <2>2
<1>4. ASSUME Node # {}
      PROVE  next \in Nat /\ next # 0 /\ \A n \in Node : table[n].uid < next
  <2>1. all # {}
    BY <1>4
  <2> HIDE DEF all
  <2>2. Max(all) \in all /\ \A y \in all : y <= Max(all)
    BY <1>3, <2>1, MaxIs
  <2>3. Max(all) \in Nat
    BY <1>3, <2>2
  <2>4. \A n \in Node : table[n].uid \in all
    BY DEF all
  <2> HIDE DEF Max
  <2>5. QED
    BY <1>1, <2>2, <2>3, <2>4
<1> HIDE DEF next, all
<1>5. \A n \in Node : n \in Nat
  BY VectorAssumption
<1>6. \A n \in Node : IsFiniteSet(Below(n)) /\ Cardinality(Below(n)) \in Nat
  <2>1. \A n \in Node : Below(n) \in SUBSET Node
    OBVIOUS
  <2>2. \A n \in Node : IsFiniteSet(Below(n))
    BY <2>1, FS_Subset, VectorAssumption
  <2> HIDE DEF Below
  <2>3. QED
    BY <2>2, FS_CardinalityType
<1>7. ASSUME NEW m \in new, NEW n \in new, m < n
      PROVE  Cardinality(Below(m)) < Cardinality(Below(n))
  <2>1. Below(m) \in SUBSET Below(n) /\ m \in Below(n) /\ m \notin Below(m)
    <3>1. m \in Nat /\ n \in Nat /\ \A k \in new : k \in Nat
      BY <1>5
    <3>2. \A i, j, k \in Nat : i < j /\ j < k => i < k
      OBVIOUS
    <3>3. \A k \in new : k < m => k < n
      BY <1>7, <3>1, <3>2
    <3>4. ~(m < m)
      BY <3>1
    <3>5. QED
      BY <1>7, <3>3, <3>4
  <2>2. m \in Node /\ n \in Node
    OBVIOUS
  <2> HIDE DEF Below, new
  <2>3. Cardinality(Below(m)) <= Cardinality(Below(n)) /\ Cardinality(Below(m)) # Cardinality(Below(n))
    BY <1>6, <2>1, <2>2, FS_Subset
  <2>4. QED
    BY <1>6, <2>2, <2>3
<1>8. \A n \in nodes : U(n) \in Nat /\ U(n) # 0 /\ (n \in new => next <= U(n)) /\ (n \notin new => U(n) = table[n].uid)
  <2>1. ASSUME NEW n \in nodes
        PROVE  next \in Nat /\ next # 0 /\ Cardinality(Below(n)) \in Nat /\ table[n].uid \in Nat
               /\ (n \notin new => table[n].uid # 0)
    BY <1>1, <1>4, <1>6
  <2> HIDE DEF Below
  <2>2. QED
    BY <2>1
<1>9. ASSUME NEW m \in nodes, NEW n \in nodes, U(m) = U(n)
      PROVE  m = n
  <2>1. next \in Nat /\ table[m].uid < next /\ table[n].uid < next /\ U(m) \in Nat /\ U(n) \in Nat
        /\ table[m].uid \in Nat /\ table[n].uid \in Nat
    BY <1>1, <1>4, <1>8
  <2>2. CASE m \notin new /\ n \notin new
    BY <1>2, <1>8, <1>9, <2>2
  <2>3. CASE m \in new /\ n \in new
    <3>1. U(m) = next + Cardinality(Below(m)) /\ U(n) = next + Cardinality(Below(n))
      BY <2>3
    <3>2. Cardinality(Below(m)) \in Nat /\ Cardinality(Below(n)) \in Nat
      BY <1>6
    <3> HIDE DEF U, Below
    <3>3. Cardinality(Below(m)) = Cardinality(Below(n))
      <4>1. \A i, j, k \in Nat : i + j = i + k => j = k
        OBVIOUS
      <4>2. next + Cardinality(Below(m)) = next + Cardinality(Below(n))
        BY <1>9, <3>1
      <4>3. QED
        BY <2>1, <3>2, <4>1, <4>2
    <3>4. m \in Nat /\ n \in Nat
      BY <1>5
    <3>5. ~(m < n) /\ ~(n < m)
      BY <1>7, <2>3, <3>2, <3>3
    <3>6. QED
      BY <3>4, <3>5
  <2>4. CASE m \in new /\ n \notin new
    <3>1. next <= U(m) /\ U(n) = table[n].uid
      BY <1>8, <2>4
    <3> HIDE DEF U
    <3>2. QED
      BY <1>9, <2>1, <3>1
  <2>5. CASE m \notin new /\ n \in new
    <3>1. next <= U(n) /\ U(m) = table[m].uid
      BY <1>8, <2>5
    <3> HIDE DEF U
    <3>2. QED
      BY <1>9, <2>1, <3>1
  <2>6. QED
    BY <2>2, <2>3, <2>4, <2>5
<1>10. PlanFor(p, nodes) = {Item(n) : n \in nodes}
  BY DEF PlanFor, table, next, all
<1>11. \A n \in nodes : Item(n).node = n /\ Item(n).uid = U(n) /\ Item(n) \in Todo
  <2>1. \A n \in nodes : n \in Node /\ U(n) \in Nat
    BY <1>8
  <2> HIDE DEF U, new
  <2>2. QED
    BY <2>1 DEF Todo
<1> HIDE DEF Item
<1>12. PlanFor(p, nodes) \subseteq Todo /\ (nodes = {} => PlanFor(p, nodes) = {})
  BY <1>10, <1>11
<1>13. \A n \in nodes : \E e \in PlanFor(p, nodes) : e.node = n
  BY <1>10, <1>11
<1>14. Planned(PlanFor(p, nodes))
  <2> HIDE DEF U
  <2>1. ASSUME NEW d \in PlanFor(p, nodes), NEW e \in PlanFor(p, nodes),
               d.node = e.node \/ d.uid = e.uid
        PROVE  d = e
    <3>1. PICK m \in nodes, n \in nodes : d = Item(m) /\ e = Item(n)
      BY <1>10
    <3>2. m = n
      BY <1>9, <1>11, <2>1, <3>1
    <3>3. QED
      BY <3>1, <3>2
  <2>2. \A e \in PlanFor(p, nodes) : e.uid # 0
    BY <1>8, <1>10, <1>11
  <2>3. QED
    BY <2>1, <2>2 DEF Planned
<1>15. ASSUME NEW e \in PlanFor(p, nodes)
       PROVE  table[e.node] = NoRow \/ table[e.node].uid = e.uid
  <2>1. PICK n \in nodes : e = Item(n)
    BY <1>10
  <2>2. e.node = n /\ e.uid = U(n)
    BY <1>11, <2>1
  <2>3. n \notin new => U(n) = table[n].uid
    BY <1>8
  <2>4. n \in new => table[n] = NoRow
    OBVIOUS
  <2> HIDE DEF U, new
  <2>5. QED
    BY <2>2, <2>3, <2>4
<1>16. QED
  BY <1>12, <1>13, <1>14, <1>15 DEF table

--------------------------------------------------------------------------------
(* Types, step by step *)

Reads(index) == index \in Index /\ (index.is = "ok" \/ index = NoIndex)

JobsShaped == job \in [Proc -> Job] /\ AllPlanned
MemShaped == mem \in [Proc -> Index] /\ MemReads

LEMMA JobMoves ==
    ASSUME Shape, NEW p \in Proc, NEW j \in Job, Planned(j.pending),
           job' = [job EXCEPT ![p] = j]
    PROVE  JobsShaped' /\ job'[p] = j /\ \A q \in Proc : q # p => job'[q] = job[q]
<1>1. Typed /\ AllPlanned
  BY DEF Shape
<1>2. job' \in [Proc -> Job] /\ job'[p] = j /\ \A q \in Proc : q # p => job'[q] = job[q]
  BY <1>1, JobSet
<1>3. AllPlanned'
  BY <1>1, <1>2 DEF AllPlanned
<1>4. QED
  BY <1>2, <1>3 DEF JobsShaped

LEMMA MemMoves ==
    ASSUME Shape, NEW p \in Proc, NEW index, Reads(index), mem' = [mem EXCEPT ![p] = index]
    PROVE  MemShaped' /\ mem'[p] = index /\ \A q \in Proc : q # p => mem'[q] = mem[q]
<1>1. Typed /\ MemReads /\ index \in Index /\ (index.is = "ok" \/ index = NoIndex)
  BY DEF Shape, Reads
<1>2. mem' \in [Proc -> Index] /\ mem'[p] = index /\ \A q \in Proc : q # p => mem'[q] = mem[q]
  BY <1>1, MemSet
<1>3. MemReads'
  BY <1>1, <1>2 DEF MemReads
<1>4. QED
  BY <1>2, <1>3 DEF MemShaped

LEMMA NoIndexReads == Reads(NoIndex)
BY Initials DEF Reads

LEMMA OwnReads ==
    ASSUME Shape, NEW p \in Proc
    PROVE  Reads(mem[p])
BY DEF Shape, Typed, MemReads, Reads

LEMMA LeaveMoves ==
    ASSUME Shape, NEW p \in Proc, NEW index, Reads(index), Leave(p, index)
    PROVE  /\ Goto(p, "idle") /\ JobsShaped' /\ MemShaped' /\ alone' \in Proc \cup {None}
           /\ job'[p] = NoJob /\ \A q \in Proc : q # p => job'[q] = job[q]
           /\ mem'[p] = IF p \in Long THEN index ELSE NoIndex
           /\ \A q \in Proc : q # p => mem'[q] = mem[q]
<1>1. /\ Goto(p, "idle") /\ job' = [job EXCEPT ![p] = NoJob] /\ alone' \in Proc \cup {None}
      /\ mem' = [mem EXCEPT ![p] = IF p \in Long THEN index ELSE NoIndex]
  BY LeaveIs DEF Shape, Reads
<1>2. Planned(NoJob.pending) /\ NoJob \in Job
  BY Initials DEF NoJob
<1>3. Reads(IF p \in Long THEN index ELSE NoIndex)
  BY NoIndexReads
<1>4. QED
  BY <1>1, <1>2, <1>3, JobMoves, MemMoves

\* A step that isn't an edit: what it leaves alone, what it sets.
LEMMA ShapeFrom ==
    ASSUME Shape, NEW p \in Proc, NEW label \in Labels, Goto(p, label),
           source' = source, graph' \in [Node -> Text \cup {Gone}],
           JobsShaped', MemShaped', alone' \in Proc \cup {None},
           file' \in Index, TablesSound',
           writer' \in Proc \cup {None}, writer' = None => txn' = NoRows,
           behind' \subseteq Proc, excuse' \subseteq Excuses
    PROVE  Shape'
<1>1. pc' \in [Proc -> Labels]
  BY PcSet DEF Shape
<1>2. source' \in [Node -> Text \cup {Gone}]
  BY DEF Shape, Typed
<1>3. QED
  BY <1>1, <1>2, Zenon DEF Shape, Typed, JobsShaped, MemShaped

\* What Shape says of the variables a step most often leaves alone.
LEMMA ShapeKeeps ==
    ASSUME Shape
    PROVE  /\ UNCHANGED graph => graph' \in [Node -> Text \cup {Gone}]
           /\ UNCHANGED job => JobsShaped'
           /\ UNCHANGED mem => MemShaped'
           /\ UNCHANGED alone => alone' \in Proc \cup {None}
           /\ UNCHANGED file => file' \in Index
           /\ UNCHANGED <<rows, txn>> => TablesSound'
           /\ UNCHANGED <<writer, txn>> =>
                 writer' \in Proc \cup {None} /\ (writer' = None => txn' = NoRows)
           /\ behind \subseteq Proc /\ excuse \subseteq Excuses
           /\ UNCHANGED behind => behind' \subseteq Proc
           /\ UNCHANGED excuse => excuse' \subseteq Excuses
BY Zenon DEF Shape, Typed, JobsShaped, MemShaped, MemReads, AllPlanned, TablesSound

LEMMA OwnCommits ==
    ASSUME Shape, NEW p \in Proc, CommitOwn(p)
    PROVE  /\ writer' \in Proc \cup {None} /\ (writer' = None => txn' = NoRows)
           /\ TablesSound'
           /\ rows' = View(p)
           /\ writer = p => writer' = None
           /\ writer # p => UNCHANGED <<rows, writer, txn>>
<1>1. Sound(NoRows)
  BY Initials
<1>2. CASE writer = p
  BY <1>1, <1>2, Zenon DEF CommitOwn, Shape, TablesSound, View
<1>3. CASE writer # p
  BY <1>3, Zenon DEF CommitOwn, Shape, Typed, TablesSound, View
<1>4. QED
  BY <1>2, <1>3

LEMMA FileWritten ==
    ASSUME Shape, NEW p \in Proc, NEW index \in Index, WriteFile(p, index)
    PROVE  /\ file' = index /\ file' \in Index
           /\ excuse' \subseteq Excuses /\ excuse \subseteq excuse'
           /\ p \in behind => excuse' # {}
           /\ behind' = {q \in Proc \ {p} : mem[q].is = "ok" \/ Rebuilding(q)}
           /\ behind' \subseteq Proc
<1>1. file' = index /\ behind' = {q \in Proc \ {p} : mem[q].is = "ok" \/ Rebuilding(q)}
  BY Zenon DEF WriteFile
<1>2. excuse' = IF p \in behind THEN excuse \cup {"stale"} ELSE excuse
  BY Zenon DEF WriteFile
<1>3. excuse \subseteq Excuses
  BY DEF Shape, Typed
<1>4. QED
  BY <1>1, <1>2, <1>3 DEF Excuses

LEMMA BeginShaped ==
    ASSUME Shape, NEW p \in Proc,
           NEW kind \in {"build", "update", "ingest", "search"},
           NEW phase \in {"embed", "delete", "read"}, NEW force \in BOOLEAN,
           NEW want \in [Node -> Text \cup {Gone}], NEW drop \in SUBSET Node,
           Begin(p, kind, phase, force, want, drop)
    PROVE  JobsShaped' /\ alone' \in Proc \cup {None}
<1>1. Typed /\ AllPlanned
  BY DEF Shape
<1>2. /\ job' \in [Proc -> Job] /\ job'[p].pending = {} /\ alone' \in {p, None}
      /\ \A q \in Proc : q # p => job'[q] = job[q]
  BY <1>1, BeginIs
<1>3. AllPlanned'
  BY <1>1, <1>2, Initials DEF AllPlanned
<1>4. QED
  BY <1>2, <1>3 DEF JobsShaped

\* The four ways a run starts.
LEMMA BeginCases ==
    ASSUME Shape, NEW p \in Proc,
           (\E force \in BOOLEAN : Build(p, force)) \/ Update(p) \/ Ingest(p) \/ Search(p)
    PROVE  /\ \E kind \in {"build", "update", "ingest", "search"},
                 phase \in {"embed", "delete", "read"}, force \in BOOLEAN,
                 want \in [Node -> Text \cup {Gone}], drop \in SUBSET Node,
                 label \in {"graph", "load", "scan"} :
                    /\ Begin(p, kind, phase, force, want, drop)
                    /\ Goto(p, label)
                    /\ label = "scan" => phase = "embed" /\ kind = "ingest"
                    /\ label = "graph" => kind # "ingest"
                    /\ kind = "ingest" => \A n \in Node : want[n] # Gone => n \in Doc
                    /\ kind # "ingest" => \A n \in Doc : want[n] \in {Gone, graph[n]}
           /\ UNCHANGED <<source, graph, rows, writer, txn, file, mem, edits, trouble,
                          behind, excuse>>
<1> DEFINE Starts ==
         \E kind \in {"build", "update", "ingest", "search"},
            phase \in {"embed", "delete", "read"}, force \in BOOLEAN,
            want \in [Node -> Text \cup {Gone}], drop \in SUBSET Node,
            label \in {"graph", "load", "scan"} :
               /\ Begin(p, kind, phase, force, want, drop)
               /\ Goto(p, label)
               /\ label = "scan" => phase = "embed" /\ kind = "ingest"
               /\ label = "graph" => kind # "ingest"
               /\ kind = "ingest" => \A n \in Node : want[n] # Gone => n \in Doc
               /\ kind # "ingest" => \A n \in Doc : want[n] \in {Gone, graph[n]}
<1>1. /\ source \in [Node -> Text \cup {Gone}] /\ graph \in [Node -> Text \cup {Gone}]
      /\ Doc \subseteq Node
  BY VectorAssumption DEF Shape, Typed
<1>2. ASSUME NEW force \in BOOLEAN, Build(p, force)
      PROVE  Starts
  <2> DEFINE want == [n \in Node |-> IF n \in Doc THEN Gone ELSE source[n]]
  <2>1. want \in [Node -> Text \cup {Gone}] /\ \A n \in Doc : want[n] = Gone
    BY <1>1
  <2>2. Begin(p, "build", "embed", force, want, {}) /\ Goto(p, "graph")
    BY <1>2, Zenon DEF Build
  <2> HIDE DEF want
  <2>3. QED
    BY <2>1, <2>2
<1>3. ASSUME Update(p)
      PROVE  Starts
  <2>1. Goto(p, "graph")
    BY <1>3, Zenon DEF Update
  <2>2. PICK paths \in SUBSET {n \in Node \ Doc : source[n] # graph[n]} :
          LET drop == {n \in paths : source[n] = Gone}
          IN  Begin(p, "update", IF drop = {} THEN "embed" ELSE "delete", FALSE,
                    [n \in Node |-> IF n \in paths THEN source[n] ELSE graph[n]], drop)
    BY <1>3, Zenon DEF Update
  <2> DEFINE drop == {n \in paths : source[n] = Gone}
             phase == IF drop = {} THEN "embed" ELSE "delete"
             want == [n \in Node |-> IF n \in paths THEN source[n] ELSE graph[n]]
  <2>3. want \in [Node -> Text \cup {Gone}] /\ \A n \in Doc : want[n] \in {Gone, graph[n]}
    BY <1>1
  <2>4. Begin(p, "update", phase, FALSE, want, drop)
    BY <2>2, Zenon
  <2>5. drop \in SUBSET Node /\ phase \in {"embed", "delete", "read"}
    OBVIOUS
  <2> HIDE DEF drop, phase, want
  <2>6. QED
    BY <2>1, <2>3, <2>4, <2>5
<1>4. ASSUME Ingest(p)
      PROVE  Starts
  <2> DEFINE want == [n \in Node |-> IF n \in Doc THEN source[n] ELSE Gone]
  <2>1. Begin(p, "ingest", "embed", FALSE, want, {}) /\ Goto(p, "scan")
    BY <1>4, Zenon DEF Ingest
  <2>2. want \in [Node -> Text \cup {Gone}] /\ \A n \in Node : want[n] # Gone => n \in Doc
    BY <1>1
  <2> HIDE DEF want
  <2>3. QED
    BY <2>1, <2>2
<1>5. ASSUME Search(p)
      PROVE  Starts
  <2>1. Begin(p, "search", "read", FALSE, NoText, {}) /\ Goto(p, "load")
    BY <1>5, Zenon DEF Search
  <2>2. NoText \in [Node -> Text \cup {Gone}] /\ \A n \in Doc : NoText[n] = Gone
    BY <1>1 DEF NoText
  <2>3. QED
    BY <2>1, <2>2
<1>6. UNCHANGED <<source, graph, rows, writer, txn, file, mem, edits, trouble, behind, excuse>>
  BY Zenon DEF Build, Update, Ingest, Search
<1> HIDE DEF Starts
<1>7. Starts
  BY <1>2, <1>3, <1>4, <1>5
<1>8. QED
  BY <1>6, <1>7 DEF Starts

\* graph.json is written, then read again for the run.
LEMMA GraphIs ==
    ASSUME Shape, NEW p \in Proc, WriteGraph(p) \/ LoadGraph(p)
    PROVE  /\ \/ /\ pc[p] = "graph" /\ graph' = job[p].want /\ job' = job
                 /\ \E label \in {"load", "nodes"} :
                       Goto(p, label) /\ (label = "load" => job[p].phase = "delete")
              \/ /\ pc[p] = "nodes" /\ graph' = graph /\ Goto(p, "load")
                 /\ job' = [job EXCEPT ![p] = [job[p] EXCEPT !.want = graph]]
           /\ graph' \in [Node -> Text \cup {Gone}]
           /\ job'[p] \in Job /\ job'[p].pending = job[p].pending
           /\ job'[p].kind = job[p].kind /\ job'[p].phase = job[p].phase
           /\ pc[p] = "nodes" => job'[p].want = graph
           /\ JobsShaped' /\ \A q \in Proc : q # p => job'[q] = job[q]
           /\ UNCHANGED <<source, rows, writer, txn, file, mem, edits, trouble, behind,
                          excuse, alone>>
<1>1. job[p] \in Job /\ graph \in [Node -> Text \cup {Gone}] /\ JobsShaped
  BY DEF Shape, Typed, JobsShaped
<1>2. UNCHANGED <<source, rows, writer, txn, file, mem, edits, trouble, behind, excuse, alone>>
  BY Zenon DEF WriteGraph, LoadGraph
<1>3. CASE WriteGraph(p)
  <2>1. pc[p] = "graph" /\ graph' = job[p].want /\ job' = job
    BY <1>3, Zenon DEF WriteGraph
  <2>2. \E label \in {"load", "nodes"} :
           Goto(p, label) /\ (label = "load" => job[p].phase = "delete")
    BY <1>3 DEF WriteGraph
  <2>3. graph' \in [Node -> Text \cup {Gone}]
    BY <1>1, <2>1 DEF Job
  <2>4. JobsShaped'
    BY <2>1, ShapeKeeps
  <2>5. QED
    BY <1>1, <1>2, <2>1, <2>2, <2>3, <2>4
<1>4. CASE LoadGraph(p)
  <2> DEFINE j == [job[p] EXCEPT !.want = graph]
  <2>1. pc[p] = "nodes" /\ graph' = graph /\ Goto(p, "load") /\ job' = [job EXCEPT ![p].want = graph]
    BY <1>4, Zenon DEF LoadGraph
  <2>2. /\ j \in Job /\ j.pending = job[p].pending /\ j.want = graph
        /\ j.kind = job[p].kind /\ j.phase = job[p].phase
    BY <1>1 DEF Job
  <2>3. job' = [job EXCEPT ![p] = j]
    BY <2>1
  <2>4. Planned(job[p].pending)
    BY DEF Shape, AllPlanned
  <2>5. JobsShaped' /\ job'[p] = j /\ \A q \in Proc : q # p => job'[q] = job[q]
    <3> HIDE DEF j
    <3>1. QED
      BY <2>2, <2>3, <2>4, JobMoves
  <2>6. QED
    BY <1>1, <1>2, <2>1, <2>2, <2>3, <2>5
<1>5. QED
  BY <1>3, <1>4

LEMMA GraphShape ==
    ASSUME Shape, NEW p \in Proc, WriteGraph(p) \/ LoadGraph(p)
    PROVE  Shape'
<1>1. \E label \in Labels : Goto(p, label)
  BY GraphIs DEF Labels
<1>2. QED
  BY <1>1, GraphIs, ShapeKeeps, ShapeFrom

LEMMA LoadShape ==
    ASSUME Shape, NEW p \in Proc, Load(p) \/ RebuildFails(p) \/ RebuildOK(p)
    PROVE  Shape'
<1>1. Typed /\ mem[p] \in Index /\ job[p] \in Job /\ file \in Index
  BY DEF Shape, Typed
<1>2. Loaded(p) \in Labels
  BY LoadedIs DEF Labels
<1>3. \A label \in {"rebuild", "retry"} : StartRebuild(p, label) => label \in Labels /\ Goto(p, label) /\ JobsShaped' /\ behind' \subseteq Proc
  <2>1. SUFFICES ASSUME NEW label \in {"rebuild", "retry"}, StartRebuild(p, label)
                 PROVE  label \in Labels /\ Goto(p, label) /\ JobsShaped' /\ behind' \subseteq Proc
    OBVIOUS
  <2> DEFINE j == [job[p] EXCEPT !.from = Seen(p)]
  <2>2. Goto(p, label) /\ behind' = behind \ {p} /\ job' = [job EXCEPT ![p] = j] /\ Seen(p) \in SUBSET Entry
    BY <2>1, StartRebuildIs
  <2>3. j \in Job /\ j.pending = job[p].pending
    BY <1>1, <2>2 DEF Job
  <2> HIDE DEF j
  <2>4. Planned(j.pending)
    BY <2>3 DEF Shape, AllPlanned
  <2>5. JobsShaped'
    BY <2>2, <2>3, <2>4, JobMoves
  <2>6. behind' \subseteq Proc
    BY <2>2 DEF Shape, Typed
  <2>7. QED
    BY <2>2, <2>5, <2>6 DEF Labels
<1>4. ASSUME Load(p)
      PROVE  Shape'
  <2>1. UNCHANGED <<source, graph, rows, writer, txn, edits, trouble, excuse, alone>>
    BY <1>4, Zenon DEF Load
  <2>2. CASE Goto(p, Loaded(p)) /\ UNCHANGED <<file, mem, job, behind>>
    BY <1>2, <2>1, <2>2, ShapeKeeps, ShapeFrom
  <2>3. CASE /\ file.is = "ok" /\ mem' = [mem EXCEPT ![p] = file] /\ behind' = behind \ {p}
             /\ Goto(p, Loaded(p)) /\ UNCHANGED <<file, job>>
    <3>1. MemShaped'
      BY <1>1, <2>3, MemMoves DEF Reads
    <3>2. behind' \subseteq Proc
      BY <2>3 DEF Shape, Typed
    <3>3. QED
      BY <1>2, <2>1, <2>3, <3>1, <3>2, ShapeKeeps, ShapeFrom
  <2>4. CASE /\ file' = NoIndex /\ UNCHANGED mem
             /\ \/ StartRebuild(p, "rebuild") \/ StartRebuild(p, "retry")
                \/ Goto(p, Loaded(p)) /\ UNCHANGED <<job, behind>>
    <3>1. file' \in Index
      BY <2>4, Initials
    <3>2. \E label \in Labels : Goto(p, label) /\ JobsShaped' /\ behind' \subseteq Proc
      BY <1>2, <1>3, <2>4, ShapeKeeps
    <3>3. QED
      BY <2>1, <2>4, <3>1, <3>2, ShapeKeeps, ShapeFrom
  <2>5. QED
    BY <1>4, <2>2, <2>3, <2>4, Zenon DEF Load
<1>5. ASSUME RebuildFails(p)
      PROVE  Shape'
  <2>1. UNCHANGED <<source, graph, rows, writer, txn, file, mem, edits, trouble, excuse, alone>>
    BY <1>5, Zenon DEF RebuildFails
  <2>2. CASE StartRebuild(p, "retry")
    BY <1>3, <2>1, <2>2, ShapeKeeps, ShapeFrom
  <2>3. CASE /\ Goto(p, Loaded(p)) /\ UNCHANGED behind
             /\ job' = [job EXCEPT ![p].from = {}, ![p].force = @ \/ pc[p] = "retry"]
    <3> DEFINE j == [job[p] EXCEPT !.from = {}, !.force = job[p].force \/ pc[p] = "retry"]
    <3>1. (job[p].force \/ pc[p] = "retry") \in BOOLEAN
      OBVIOUS
    <3>2. j \in Job /\ j.pending = job[p].pending
      BY <1>1, <3>1 DEF Job
    <3>3. job' = [job EXCEPT ![p] = j]
      BY <1>1, <2>3 DEF Typed, Job
    <3> HIDE DEF j
    <3>4. Planned(j.pending)
      BY <3>2 DEF Shape, AllPlanned
    <3>5. JobsShaped'
      BY <3>2, <3>3, <3>4, JobMoves
    <3>6. QED
      BY <1>2, <2>1, <2>3, <3>5, ShapeKeeps, ShapeFrom
  <2>4. QED
    BY <1>5, <2>2, <2>3, Zenon DEF RebuildFails
<1>6. ASSUME RebuildOK(p)
      PROVE  Shape'
  <2> DEFINE index == IndexOf(job[p].from)
             j == [job[p] EXCEPT !.from = {}]
  <2>1. /\ CommitOwn(p) /\ mem' = [mem EXCEPT ![p] = index] /\ WriteFile(p, index)
        /\ Goto(p, Loaded(p)) /\ job' = [job EXCEPT ![p] = j]
        /\ UNCHANGED <<source, graph, edits, trouble, alone>>
    BY <1>6, Zenon DEF RebuildOK
  <2>2. job[p].from \in SUBSET Entry
    BY <1>1 DEF Job
  <2>3. index \in Index /\ Reads(index)
    BY <2>2, Initials DEF Reads
  <2>4. j \in Job /\ j.pending = job[p].pending
    BY <1>1 DEF Job
  <2> HIDE DEF j, index
  <2>5. Planned(j.pending)
    BY <2>4 DEF Shape, AllPlanned
  <2>6. JobsShaped' /\ MemShaped'
    BY <2>1, <2>3, <2>4, <2>5, JobMoves, MemMoves
  <2>7. writer' \in Proc \cup {None} /\ (writer' = None => txn' = NoRows) /\ TablesSound'
    BY <2>1, OwnCommits
  <2>8. file' \in Index /\ excuse' \subseteq Excuses /\ behind' \subseteq Proc
    BY <2>1, <2>3, FileWritten
  <2>9. QED
    BY <1>2, <2>1, <2>6, <2>7, <2>8, ShapeKeeps, ShapeFrom
<1>7. QED
  BY <1>4, <1>5, <1>6

\* What Scan looks at.
TodoNodes(p) ==
    {n \in Scope(job[p].kind) :
        job[p].want[n] # Gone /\ (job[p].force \/ View(p)[n].text # job[p].want[n])}

LEMMA ScanIs ==
    ASSUME Shape, NEW p \in Proc, Scan(p)
    PROVE  /\ TodoNodes(p) \in SUBSET Node
           /\ job' = [job EXCEPT ![p] = [job[p] EXCEPT !.pending = PlanFor(p, TodoNodes(p))]]
           /\ Goto(p, IF TodoNodes(p) = {} THEN "persist" ELSE "load")
           /\ UNCHANGED <<source, graph, rows, writer, txn, file, mem, edits, trouble,
                          behind, excuse, alone>>
<1>1. TodoNodes(p) \in SUBSET Node
  BY VectorAssumption DEF TodoNodes, Scope
<1>2. job' = [job EXCEPT ![p].pending = PlanFor(p, TodoNodes(p))]
  BY Zenon DEF Scan, PlanFor, TodoNodes
<1>3. /\ Goto(p, IF TodoNodes(p) = {} THEN "persist" ELSE "load")
      /\ UNCHANGED <<source, graph, rows, writer, txn, file, mem, edits, trouble,
                     behind, excuse, alone>>
  BY Zenon DEF Scan, TodoNodes
<1>4. QED
  BY <1>1, <1>2, <1>3

LEMMA ScanShape ==
    ASSUME Shape, NEW p \in Proc, Scan(p)
    PROVE  Shape'
<1> DEFINE plan == PlanFor(p, TodoNodes(p))
           j == [job[p] EXCEPT !.pending = plan]
<1>1. plan \subseteq Todo /\ Planned(plan)
  BY ScanIs, PlanIs
<1>2. job[p] \in Job
  BY DEF Shape, Typed
<1>3. job' = [job EXCEPT ![p] = j]
  BY ScanIs
<1> HIDE DEF plan
<1>4. j \in Job /\ j.pending = plan
  BY <1>1, <1>2 DEF Job
<1> HIDE DEF j
<1>5. JobsShaped'
  BY <1>1, <1>3, <1>4, JobMoves
<1>6. \E label \in Labels : Goto(p, label)
  BY ScanIs DEF Labels
<1>7. QED
  BY <1>5, <1>6, ScanIs, ShapeKeeps, ShapeFrom

LEMMA ExitShape ==
    ASSUME Shape, NEW p \in Proc, Exit(p), file' \in Index,
           UNCHANGED <<source, graph, rows, writer, txn, excuse>>
    PROVE  Shape'
<1>1. Leave(p, mem[p]) /\ behind' = behind \ Forget(p)
  BY Zenon DEF Exit
<1>2. Goto(p, "idle") /\ JobsShaped' /\ MemShaped' /\ alone' \in Proc \cup {None}
  BY <1>1, OwnReads, LeaveMoves
<1>3. behind' \subseteq Proc /\ "idle" \in Labels
  BY <1>1 DEF Shape, Typed, Labels
<1>4. QED
  BY <1>2, <1>3, ShapeKeeps, ShapeFrom

LEMMA WriteShape ==
    ASSUME Shape, NEW p \in Proc, Write(p)
    PROVE  Shape'
<1> DEFINE index == Indexed(p, job[p].pending)
<1>1. /\ Clashes(p) = {} /\ writer' = p /\ txn' = Upserted(p, job[p].pending)
      /\ mem' = [mem EXCEPT ![p] = index] /\ Goto(p, "persist")
      /\ UNCHANGED <<source, graph, rows, file, job, edits, trouble, behind, alone>>
  BY Zenon DEF Write
<1>2. Sound(txn')
  BY <1>1, NoClash, UpsertSound
<1>3. index \in Index /\ index.is = "ok"
  BY IndexedIs
<1> HIDE DEF index
<1>4. MemShaped'
  BY <1>1, <1>3, MemMoves DEF Reads
<1>5. excuse' \subseteq Excuses
  BY DEF Write, Shape, Typed, Excuses
<1>6. TablesSound'
  BY <1>1, <1>2 DEF Shape, TablesSound
<1>7. p # None /\ "persist" \in Labels
  BY VectorAssumption DEF Labels
<1>8. QED
  BY <1>1, <1>4, <1>5, <1>6, <1>7, ShapeKeeps, ShapeFrom

LEMMA AbortShape ==
    ASSUME Shape, NEW p \in Proc, NEW index, Reads(index), NEW table, Sound(table),
           Abort(p, index, table), file' \in Index, UNCHANGED <<source, graph, rows>>
    PROVE  Shape'
<1>1. Leave(p, index) /\ behind' = behind \ Forget(p)
  BY Zenon DEF Abort
<1>2. Goto(p, "idle") /\ JobsShaped' /\ MemShaped' /\ alone' \in Proc \cup {None}
  BY <1>1, LeaveMoves
<1>3. behind' \subseteq Proc /\ "idle" \in Labels
  BY <1>1 DEF Shape, Typed, Labels
<1>4. \/ writer' = p /\ txn' = table /\ excuse' = excuse \cup {"leftover"}
      \/ writer' = None /\ txn' = NoRows /\ excuse' = excuse
  BY Zenon DEF Abort
<1>5. Sound(txn') /\ writer' \in Proc \cup {None} /\ (writer' = None => txn' = NoRows)
      /\ excuse' \subseteq Excuses
  <2>1. excuse \subseteq Excuses /\ "leftover" \in Excuses
    BY DEF Shape, Typed, Excuses
  <2>2. Sound(NoRows) /\ p # None
    BY Initials, VectorAssumption
  <2>3. QED
    BY <1>4, <2>1, <2>2
<1>6. TablesSound'
  BY <1>5 DEF Shape, TablesSound
<1>7. QED
  BY <1>2, <1>3, <1>5, <1>6, ShapeKeeps, ShapeFrom

LEMMA WriteFailsShape ==
    ASSUME Shape, NEW p \in Proc, WriteFails(p)
    PROVE  Shape'
<1> DEFINE first == Min(Clashes(p))
           updates == {e \in job[p].pending : ~e.new}
           before == {e \in updates : e.node <= first}
           some == {e \in job[p].pending : e.node < first}
<1>1. UNCHANGED <<source, graph, rows, file>>
  BY Zenon DEF WriteFails
<1>2. \/ Clashes(p) # {} /\ Abort(p, Indexed(p, before), Upserted(p, some))
      \/ Clashes(p) = {} /\ Abort(p, Indexed(p, updates), Upserted(p, job[p].pending))
  BY Zenon DEF WriteFails
<1>3. Reads(Indexed(p, before)) /\ Reads(Indexed(p, updates))
  <2>1. before \in SUBSET job[p].pending /\ updates \in SUBSET job[p].pending
    OBVIOUS
  <2> HIDE DEF before, updates
  <2>2. QED
    BY <2>1, IndexedIs DEF Reads
<1>4. Clashes(p) # {} => Sound(Upserted(p, some))
  <2>1. some \in SUBSET job[p].pending
    OBVIOUS
  <2>2. Clashes(p) # {} => Free(p, some)
    BY NoClash
  <2> HIDE DEF some
  <2>3. QED
    BY <2>1, <2>2, UpsertSound
<1>5. Clashes(p) = {} => Sound(Upserted(p, job[p].pending))
  BY NoClash, UpsertSound
<1> HIDE DEF some, before, updates
<1>6. file' \in Index
  BY <1>1, ShapeKeeps
<1>7. QED
  BY <1>1, <1>2, <1>3, <1>4, <1>5, <1>6, AbortShape

LEMMA ProceedMoves ==
    ASSUME Shape, NEW p \in Proc, Proceed(p)
    PROVE  /\ \E label \in Labels : Goto(p, label)
           /\ JobsShaped' /\ MemShaped' /\ alone' \in Proc \cup {None}
<1>1. job[p] \in Job
  BY DEF Shape, Typed
<1>2. CASE /\ Goto(p, "purge") /\ job' = [job EXCEPT ![p] = [job[p] EXCEPT !.pending = {}]]
           /\ UNCHANGED <<mem, alone>>
  <2> DEFINE j == [job[p] EXCEPT !.pending = {}]
  <2>1. j \in Job /\ j.pending = {} /\ job' = [job EXCEPT ![p] = j]
    BY <1>1, <1>2 DEF Job
  <2> HIDE DEF j
  <2>2. JobsShaped'
    BY <2>1, Initials, JobMoves
  <2>3. QED
    BY <1>2, <2>2, ShapeKeeps DEF Labels
<1>3. CASE /\ Goto(p, "nodes")
           /\ job' = [job EXCEPT ![p] = [job[p] EXCEPT !.phase = "embed", !.drop = {}]]
           /\ UNCHANGED <<mem, alone>>
  <2> DEFINE j == [job[p] EXCEPT !.phase = "embed", !.drop = {}]
  <2>1. j \in Job /\ j.pending = job[p].pending /\ job' = [job EXCEPT ![p] = j]
    BY <1>1, <1>3 DEF Job
  <2> HIDE DEF j
  <2>2. Planned(j.pending)
    BY <2>1 DEF Shape, AllPlanned
  <2>3. JobsShaped'
    BY <2>1, <2>2, JobMoves
  <2>4. QED
    BY <1>3, <2>3, ShapeKeeps DEF Labels
<1>4. CASE Leave(p, mem[p])
  BY <1>4, OwnReads, LeaveMoves DEF Labels
<1>5. QED
  BY <1>2, <1>3, <1>4, ProceedIs

\* What _purge_orphans would delete.
Orphans(p) == {n \in Stored(View(p)) \ Doc : job[p].want[n] = Gone}

LEMMA PurgeIs ==
    ASSUME Shape, NEW p \in Proc, NEW prune \in BOOLEAN, Purge(p, prune)
    PROVE  /\ pc[p] = "purge"
           /\ \/ Exit(p)
              \/ /\ job' = [job EXCEPT ![p] = [job[p] EXCEPT !.phase = "delete", !.drop = Orphans(p)]]
                 /\ Goto(p, "load") /\ UNCHANGED <<mem, behind, alone>>
           /\ Orphans(p) \in SUBSET Node
           /\ UNCHANGED <<source, graph, rows, writer, txn, file, edits, trouble, excuse>>
<1>1. /\ pc[p] = "purge"
      /\ \/ Exit(p)
         \/ /\ job' = [job EXCEPT ![p].phase = "delete", ![p].drop = Orphans(p)]
            /\ Goto(p, "load") /\ UNCHANGED <<mem, behind, alone>>
      /\ UNCHANGED <<source, graph, rows, writer, txn, file, edits, trouble, excuse>>
  BY Zenon DEF Purge, Orphans
<1>2. [job EXCEPT ![p].phase = "delete", ![p].drop = Orphans(p)]
        = [job EXCEPT ![p] = [job[p] EXCEPT !.phase = "delete", !.drop = Orphans(p)]]
  BY DEF Shape, Typed, Job
<1>3. Orphans(p) \in SUBSET Node
  BY DEF Orphans, Stored
<1>4. QED
  BY <1>1, <1>2, <1>3, Zenon

LEMMA PurgeShape ==
    ASSUME Shape, NEW p \in Proc, NEW prune \in BOOLEAN, Purge(p, prune)
    PROVE  Shape'
<1>1. CASE Exit(p)
  BY <1>1, PurgeIs, ExitShape, ShapeKeeps
<1>2. CASE /\ job' = [job EXCEPT ![p] = [job[p] EXCEPT !.phase = "delete", !.drop = Orphans(p)]]
           /\ Goto(p, "load") /\ UNCHANGED <<mem, behind, alone>>
  <2> DEFINE j == [job[p] EXCEPT !.phase = "delete", !.drop = Orphans(p)]
  <2>1. job[p] \in Job /\ Orphans(p) \in SUBSET Node
    BY PurgeIs DEF Shape, Typed
  <2>2. j \in Job /\ j.pending = job[p].pending /\ job' = [job EXCEPT ![p] = j]
    BY <1>2, <2>1 DEF Job
  <2> HIDE DEF j
  <2>3. Planned(j.pending) /\ "load" \in Labels
    BY <2>2 DEF Shape, AllPlanned, Labels
  <2>4. JobsShaped'
    BY <2>2, <2>3, JobMoves
  <2>5. QED
    BY <1>2, <2>3, <2>4, PurgeIs, ShapeKeeps, ShapeFrom
<1>3. QED
  BY <1>1, <1>2, PurgeIs

\* The rows that Delete leaves.
Without(p, drop) == [n \in Node |-> IF n \in drop THEN NoRow ELSE View(p)[n]]
Dropped(p) == job[p].drop \cap Stored(View(p))
Kept(p) == {v \in mem[p].of : v.uid \notin Uids({View(p)[n] : n \in Dropped(p)})}

LEMMA DeleteIs ==
    ASSUME Shape, NEW p \in Proc, Delete(p)
    PROVE  /\ pc[p] = "delete"
           /\ UNCHANGED <<source, graph, rows, file, edits, trouble, excuse>>
           /\ \/ /\ Dropped(p) = {} /\ Proceed(p) /\ UNCHANGED <<writer, txn>>
                 /\ behind' = behind \ (IF Continues(p) THEN {} ELSE Forget(p))
              \/ /\ Dropped(p) # {} /\ writer \in {None, p} /\ writer' = p
                 /\ txn' = Without(p, Dropped(p)) /\ Sound(txn')
                 /\ mem' = [mem EXCEPT ![p] = [mem[p] EXCEPT !.of = Kept(p)]]
                 /\ Reads([mem[p] EXCEPT !.of = Kept(p)])
                 /\ Goto(p, "persist") /\ UNCHANGED <<job, behind, alone>>
<1>1. /\ pc[p] = "delete"
      /\ UNCHANGED <<source, graph, rows, file, edits, trouble, excuse>>
  BY Zenon DEF Delete
<1>2. \/ /\ Dropped(p) = {} /\ Proceed(p) /\ UNCHANGED <<writer, txn>>
         /\ behind' = behind \ (IF Continues(p) THEN {} ELSE Forget(p))
      \/ /\ Dropped(p) # {} /\ writer \in {None, p} /\ writer' = p
         /\ txn' = Without(p, Dropped(p))
         /\ mem' = [mem EXCEPT ![p].of = Kept(p)]
         /\ Goto(p, "persist") /\ UNCHANGED <<job, behind, alone>>
  <2>1. mem' = [mem EXCEPT ![p].of = {v \in @ : v.uid \notin Uids({View(p)[n] : n \in Dropped(p)})}]
          => mem' = [mem EXCEPT ![p].of = Kept(p)]
    BY DEF Kept
  <2>2. QED
    BY <2>1, Zenon DEF Delete, Dropped, Without
<1>3. Sound(Without(p, Dropped(p)))
  <2>1. Dropped(p) \in SUBSET Node
    BY DEF Dropped, Stored
  <2>2. QED
    BY <2>1, ViewSound, DeletedSound DEF Shape, Without
<1>4. Reads([mem[p] EXCEPT !.of = Kept(p)])
  <2>1. mem[p] \in Index /\ (mem[p].is = "ok" \/ mem[p] = NoIndex)
    BY OwnReads DEF Reads
  <2>2. Kept(p) \in SUBSET Entry
    BY <2>1 DEF Kept, Index
  <2>3. [mem[p] EXCEPT !.of = Kept(p)] \in Index
    BY <2>1, <2>2 DEF Index
  <2>4. CASE mem[p].is = "ok"
    BY <2>1, <2>3, <2>4 DEF Reads, Index
  <2>5. CASE mem[p] = NoIndex
    <3>1. Kept(p) = {}
      BY <2>5 DEF Kept, NoIndex
    <3>2. [mem[p] EXCEPT !.of = Kept(p)] = NoIndex
      BY <2>5, <3>1 DEF NoIndex
    <3>3. QED
      BY <3>2, NoIndexReads
  <2>6. QED
    BY <2>1, <2>4, <2>5
<1>5. QED
  BY <1>1, <1>2, <1>3, <1>4

LEMMA DeleteShape ==
    ASSUME Shape, NEW p \in Proc, Delete(p)
    PROVE  Shape'
<1>1. UNCHANGED <<source, graph, rows, file, excuse>>
  BY DeleteIs
<1>2. CASE /\ Proceed(p) /\ UNCHANGED <<writer, txn>>
           /\ behind' = behind \ (IF Continues(p) THEN {} ELSE Forget(p))
  <2>1. behind' \subseteq Proc
    BY <1>2 DEF Shape, Typed
  <2>2. QED
    BY <1>1, <1>2, <2>1, ProceedMoves, ShapeKeeps, ShapeFrom
<1>3. CASE /\ writer' = p /\ Sound(txn')
           /\ mem' = [mem EXCEPT ![p] = [mem[p] EXCEPT !.of = Kept(p)]]
           /\ Reads([mem[p] EXCEPT !.of = Kept(p)])
           /\ Goto(p, "persist") /\ UNCHANGED <<job, behind, alone>>
  <2>1. MemShaped'
    BY <1>3, MemMoves
  <2>2. TablesSound'
    BY <1>1, <1>3 DEF Shape, TablesSound
  <2>3. p # None /\ "persist" \in Labels
    BY VectorAssumption DEF Labels
  <2>4. QED
    BY <1>1, <1>3, <2>1, <2>2, <2>3, ShapeKeeps, ShapeFrom
<1>4. QED
  BY <1>2, <1>3, DeleteIs

LEMMA PersistIs ==
    ASSUME Shape, NEW p \in Proc, Persist(p)
    PROVE  /\ pc[p] = "persist" /\ Goto(p, "commit")
           /\ UNCHANGED <<source, graph, rows, writer, txn, mem, job, edits, trouble, alone>>
           /\ \/ mem[p].is = "ok" /\ mem[p] \in Index /\ WriteFile(p, mem[p])
              \/ mem[p] = NoIndex /\ UNCHANGED <<file, behind, excuse>>
<1>1. mem[p] \in Index /\ (mem[p].is = "ok" \/ mem[p] = NoIndex)
  BY OwnReads DEF Reads
<1>2. QED
  BY <1>1 DEF Persist, NoIndex

LEMMA PersistShape ==
    ASSUME Shape, NEW p \in Proc, Persist(p)
    PROVE  Shape'
<1>1. file' \in Index /\ behind' \subseteq Proc /\ excuse' \subseteq Excuses
  <2>1. CASE mem[p] \in Index /\ WriteFile(p, mem[p])
    BY <2>1, FileWritten
  <2>2. CASE UNCHANGED <<file, behind, excuse>>
    BY <2>2, ShapeKeeps
  <2>3. QED
    BY <2>1, <2>2, PersistIs
<1>2. "commit" \in Labels
  BY DEF Labels
<1>3. QED
  BY <1>1, <1>2, PersistIs, ShapeKeeps, ShapeFrom

\* The ways to fail to write the index file.
LEMMA PersistFailsIs ==
    ASSUME Shape, NEW p \in Proc, PersistFails(p)
    PROVE  /\ pc[p] = "persist" /\ UNCHANGED <<source, graph, rows, edits>>
           /\ file' \in Index /\ (file' = file \/ file'.is # "ok")
           /\ \/ writer = p /\ Abort(p, mem[p], txn)
              \/ writer # p /\ Exit(p) /\ UNCHANGED <<writer, txn, excuse>>
           /\ Leave(p, mem[p]) /\ behind' = behind \ Forget(p) /\ Reads(mem[p])
<1>1. /\ pc[p] = "persist" /\ UNCHANGED <<source, graph, rows, edits>>
      /\ \/ writer = p /\ Abort(p, mem[p], txn)
         \/ writer # p /\ Exit(p) /\ UNCHANGED <<writer, txn, excuse>>
  BY Zenon DEF PersistFails
<1>2. file' \in {file, Unreadable}
  BY DEF PersistFails
<1>3. file' \in Index /\ (file' = file \/ file'.is # "ok")
  <2>1. file' \in Index
    BY <1>2, Initials DEF Shape, Typed
  <2>2. file' = file \/ file'.is # "ok"
    BY <1>2 DEF Unreadable
  <2>3. QED
    BY <2>1, <2>2
<1>4. Leave(p, mem[p]) /\ behind' = behind \ Forget(p)
  BY <1>1, Zenon DEF Abort, Exit
<1>5. QED
  BY <1>1, <1>3, <1>4, OwnReads

LEMMA PersistFailsShape ==
    ASSUME Shape, NEW p \in Proc, PersistFails(p)
    PROVE  Shape'
<1>1. Sound(txn)
  BY DEF Shape, TablesSound
<1>2. QED
  BY <1>1, PersistFailsIs, AbortShape, ExitShape

LEMMA UnsavedIs ==
    ASSUME Shape, NEW p \in Proc, RebuildUnsaved(p)
    PROVE  /\ Rebuilding(p) /\ writer \in {None, p} /\ CommitOwn(p)
           /\ file' \in Index /\ (file' = file \/ file'.is # "ok")
           /\ Leave(p, IndexOf(job[p].from)) /\ Reads(IndexOf(job[p].from))
           /\ IndexOf(job[p].from).of = job[p].from
           /\ behind' = behind \ Forget(p)
           /\ UNCHANGED <<source, graph, edits, excuse>>
<1>1. /\ Rebuilding(p) /\ writer \in {None, p} /\ CommitOwn(p)
      /\ Leave(p, IndexOf(job[p].from)) /\ behind' = behind \ Forget(p)
      /\ UNCHANGED <<source, graph, edits, excuse>>
  BY Zenon DEF RebuildUnsaved
<1>2. file' \in {file, Unreadable}
  BY DEF RebuildUnsaved
<1>3. file' \in Index /\ (file' = file \/ file'.is # "ok")
  <2>1. file' \in Index
    BY <1>2, Initials DEF Shape, Typed
  <2>2. file' = file \/ file'.is # "ok"
    BY <1>2 DEF Unreadable
  <2>3. QED
    BY <2>1, <2>2
<1>4. job[p].from \in SUBSET Entry
  BY DEF Shape, Typed, Job
<1>5. Reads(IndexOf(job[p].from)) /\ IndexOf(job[p].from).of = job[p].from
  BY <1>4, Initials DEF Reads
<1>6. QED
  BY <1>1, <1>3, <1>5

LEMMA UnsavedShape ==
    ASSUME Shape, NEW p \in Proc, RebuildUnsaved(p)
    PROVE  Shape'
<1>1. Goto(p, "idle") /\ JobsShaped' /\ MemShaped' /\ alone' \in Proc \cup {None}
  BY UnsavedIs, LeaveMoves
<1>2. writer' \in Proc \cup {None} /\ (writer' = None => txn' = NoRows) /\ TablesSound'
  BY UnsavedIs, OwnCommits
<1>3. behind' \subseteq Proc /\ "idle" \in Labels
  BY UnsavedIs DEF Shape, Typed, Labels
<1>4. QED
  BY <1>1, <1>2, <1>3, UnsavedIs, ShapeKeeps, ShapeFrom

LEMMA CommitShape ==
    ASSUME Shape, NEW p \in Proc, Commit(p)
    PROVE  Shape'
<1>1. CommitOwn(p) /\ Proceed(p) /\ UNCHANGED <<source, graph, file, edits, trouble, excuse>>
  BY Zenon DEF Commit
<1>2. behind' \subseteq Proc
  <2>1. behind' = (behind \cup IF writer = p THEN {q \in Proc : Rebuilding(q)} ELSE {})
                  \ (IF Continues(p) THEN {} ELSE Forget(p))
    BY Zenon DEF Commit
  <2>2. behind \subseteq Proc
    BY ShapeKeeps
  <2>3. QED
    BY <2>1, <2>2
<1>3. QED
  BY <1>1, <1>2, OwnCommits, ProceedMoves, ShapeKeeps, ShapeFrom

LEMMA KillIs ==
    ASSUME Shape, NEW p \in Proc, Kill(p)
    PROVE  /\ Goto(p, "idle") /\ job' = [job EXCEPT ![p] = NoJob]
           /\ mem' = [mem EXCEPT ![p] = NoIndex]
           /\ \/ writer = p /\ writer' = None /\ txn' = NoRows
              \/ writer # p /\ UNCHANGED <<writer, txn>>
           /\ file' \in {file, Unreadable} /\ file' \in Index
           /\ behind' = behind \ {p} /\ alone' \in Proc \cup {None}
           /\ alone' = IF alone = p THEN None ELSE alone
           /\ excuse' \subseteq Excuses /\ excuse \subseteq excuse'
           /\ pc[p] = "commit" /\ writer = p => excuse' # {}
           /\ UNCHANGED <<source, graph, rows, edits>>
<1>1. /\ Goto(p, "idle") /\ job' = [job EXCEPT ![p] = NoJob]
      /\ mem' = [mem EXCEPT ![p] = NoIndex]
      /\ behind' = behind \ {p} /\ alone' = IF alone = p THEN None ELSE alone
      /\ UNCHANGED <<source, graph, rows, edits>>
  BY Zenon DEF Kill
<1>2. \/ writer = p /\ writer' = None /\ txn' = NoRows
      \/ writer # p /\ UNCHANGED <<writer, txn>>
  BY Zenon DEF Kill
<1>3. excuse' = IF pc[p] = "commit" /\ writer = p THEN excuse \cup {"killed"} ELSE excuse
  BY Zenon DEF Kill
<1>4. file' \in {file, Unreadable}
  BY DEF Kill
<1>5. file' \in Index /\ alone' \in Proc \cup {None} /\ excuse \subseteq Excuses
  BY <1>1, <1>4, Initials DEF Shape, Typed
<1>6. excuse' \subseteq Excuses /\ excuse \subseteq excuse' /\ (pc[p] = "commit" /\ writer = p => excuse' # {})
  BY <1>3, <1>5 DEF Excuses
<1>7. QED
  BY <1>1, <1>2, <1>4, <1>5, <1>6

LEMMA KillShape ==
    ASSUME Shape, NEW p \in Proc, Kill(p)
    PROVE  Shape'
<1>1. JobsShaped' /\ MemShaped'
  <2>1. Planned(NoJob.pending) /\ NoJob \in Job
    BY Initials DEF NoJob
  <2>2. QED
    BY <2>1, KillIs, JobMoves, MemMoves, NoIndexReads
<1>2. TablesSound' /\ writer' \in Proc \cup {None} /\ (writer' = None => txn' = NoRows)
  <2>1. CASE writer' = None /\ txn' = NoRows
    BY <2>1, KillIs, Initials DEF Shape, TablesSound
  <2>2. CASE UNCHANGED <<writer, txn>>
    BY <2>2, KillIs, ShapeKeeps
  <2>3. QED
    BY <2>1, <2>2, KillIs
<1>3. behind' \subseteq Proc /\ "idle" \in Labels
  BY KillIs DEF Shape, Typed, Labels
<1>4. QED
  BY <1>1, <1>2, <1>3, KillIs, ShapeKeeps, ShapeFrom

LEMMA BeginsShape ==
    ASSUME Shape, NEW p \in Proc,
           (\E force \in BOOLEAN : Build(p, force)) \/ Update(p) \/ Ingest(p) \/ Search(p)
    PROVE  Shape'
<1>1. PICK kind \in {"build", "update", "ingest", "search"},
           phase \in {"embed", "delete", "read"}, force \in BOOLEAN,
           want \in [Node -> Text \cup {Gone}], drop \in SUBSET Node,
           label \in {"graph", "load", "scan"} :
              Begin(p, kind, phase, force, want, drop) /\ Goto(p, label)
  BY BeginCases
<1>2. JobsShaped' /\ alone' \in Proc \cup {None}
  BY <1>1, BeginShaped
<1>3. label \in Labels
  BY DEF Labels
<1>4. QED
  BY <1>1, <1>2, <1>3, BeginCases, ShapeKeeps, ShapeFrom

LEMMA StepCases ==
    ASSUME [Next]_vars
    PROVE  \/ UNCHANGED vars
           \/ \E p \in Proc :
                 \/ (\E force \in BOOLEAN : Build(p, force)) \/ Update(p) \/ Ingest(p) \/ Search(p)
                 \/ WriteGraph(p) \/ LoadGraph(p) \/ Load(p)
                 \/ RebuildOK(p) \/ RebuildUnsaved(p) \/ RebuildFails(p)
                 \/ Scan(p) \/ EmbedFails(p) \/ Write(p) \/ WriteFails(p)
                 \/ (\E prune \in BOOLEAN : Purge(p, prune)) \/ Delete(p)
                 \/ Persist(p) \/ PersistFails(p) \/ Commit(p) \/ Answer(p) \/ Kill(p)
           \/ Upgrade
           \/ Edit
BY Zenon DEF Next, RunSteps

LEMMA UpgradeIs ==
    ASSUME Upgrade
    PROVE  /\ file' = Unreadable
           /\ UNCHANGED <<source, graph, rows, writer, txn, mem, pc, job, edits, behind, excuse, alone>>
BY Zenon DEF Upgrade

LEMMA EditIs ==
    ASSUME Edit
    PROVE  UNCHANGED <<graph, rows, writer, txn, file, mem, pc, job, trouble, behind, excuse, alone>>
BY Zenon DEF Edit

LEMMA ShapeStep ==
    ASSUME Shape, [Next]_vars
    PROVE  Shape'
<1>1. CASE UNCHANGED vars
  BY <1>1, Zenon DEF vars, Shape, Typed, TablesSound, MemReads, AllPlanned
<1>2. CASE Upgrade
  <2>1. file' \in Index
    BY <1>2, UpgradeIs, Initials
  <2>2. UNCHANGED <<source, graph, rows, writer, txn, mem, pc, job, behind, excuse, alone>>
    BY <1>2, UpgradeIs
  <2>3. QED
    BY <2>1, <2>2, Zenon DEF Shape, Typed, TablesSound, MemReads, AllPlanned
<1>3. CASE Edit
  <2>1. source' \in [Node -> Text \cup {Gone}]
    BY <1>3 DEF Edit, Shape, Typed
  <2>2. UNCHANGED <<graph, rows, writer, txn, file, mem, pc, job, behind, excuse, alone>>
    BY <1>3, EditIs
  <2>3. QED
    BY <2>1, <2>2, Zenon DEF Shape, Typed, TablesSound, MemReads, AllPlanned
<1>4. ASSUME NEW p \in Proc, EmbedFails(p) \/ Answer(p)
      PROVE  Shape'
  <2>1. Exit(p) /\ UNCHANGED <<source, graph, rows, writer, txn, file, excuse>>
    BY <1>4, Zenon DEF EmbedFails, Answer
  <2>2. QED
    BY <2>1, ExitShape, ShapeKeeps
<1>5. QED
  BY <1>1, <1>2, <1>3, <1>4, StepCases, BeginsShape, GraphShape, LoadShape, UnsavedShape,
     ScanShape, WriteShape, WriteFailsShape, PurgeShape, DeleteShape, PersistShape,
     PersistFailsShape, CommitShape, KillShape

LEMMA ShapeInit ==
    ASSUME Init
    PROVE  Shape
<1>1. Typed
  BY Initials DEF Init, Typed, Labels
<1>2. TablesSound /\ MemReads
  BY Initials DEF Init, TablesSound, MemReads
<1>3. AllPlanned
  BY Initials DEF Init, AllPlanned, NoJob
<1>4. QED
  BY <1>1, <1>2, <1>3 DEF Shape

LEMMA ShapeAlways == Spec => []Shape
<1>1. Init => Shape
  BY ShapeInit
<1>2. Shape /\ [Next]_vars => Shape'
  BY ShapeStep
<1>3. QED
  BY <1>1, <1>2, PTL DEF Spec

\* The rows, the index file and what each process holds stay well-formed; a row's
\* uid, the key that names its vector (turbovec_backend.py:197), is never
\* given to another row.
THEOREM IndexTyped == Spec => []TypeOK
<1>1. Shape => TypeOK
  BY ShapeTyped
<1>2. QED
  BY <1>1, ShapeAlways, PTL

--------------------------------------------------------------------------------
(* Rows and their vectors *)

\* The rows that the file must have vectors for: a writer's own once it has
\* written the file, and else the committed ones.
RowsNow == IF writer # None /\ pc[writer] = "commit" THEN txn ELSE rows

RebuildsAfresh == \A p \in Proc : Rebuilding(p) => mem[p].is = "none"

WriterAtWork == writer # None => pc[writer] \in {"persist", "commit"}

FileHolds == file.is = "ok" => RowsOf(RowsNow) \subseteq file.of

\* An index in memory that is no older than the file has those rows' vectors; the
\* writer's has those of the rows it is writing.
Holds(p) ==
    mem[p].is = "ok" /\ p \notin behind
      => RowsOf(IF p = writer THEN txn ELSE RowsNow) \subseteq mem[p].of
MemHolds == \A p \in Proc : Holds(p)

FromHolds ==
    \A p \in Proc : Rebuilding(p) /\ p \notin behind => RowsOf(rows) \subseteq job[p].from

\* A writer without an index has only deleted rows.
OnlyDeletes == writer # None /\ mem[writer].is = "none" => RowsOf(txn) \subseteq RowsOf(rows)

VectorsKept == WriterAtWork /\ FileHolds /\ MemHolds /\ FromHolds /\ OnlyDeletes

HoldInv == RebuildsAfresh /\ (excuse = {} => VectorsKept)

LEMMA RowsNowIs ==
    ASSUME Shape
    PROVE  /\ writer = None => RowsNow = rows
           /\ \A p \in Proc : writer = p /\ pc[p] = "commit" => RowsNow = txn
           /\ \A p \in Proc : writer = p /\ pc[p] # "commit" => RowsNow = rows
BY VectorAssumption, Zenon DEF RowsNow

LEMMA AfreshFrom ==
    ASSUME Shape, RebuildsAfresh, NEW p \in Proc, NEW label \in Labels, Goto(p, label),
           \A q \in Proc : q # p => mem'[q] = mem[q],
           label \notin {"rebuild", "retry"} \/ mem'[p].is = "none"
    PROVE  RebuildsAfresh'
<1>1. pc'[p] = label /\ \A q \in Proc : q # p => pc'[q] = pc[q]
  BY PcSet DEF Shape
<1>2. QED
  BY <1>1 DEF RebuildsAfresh, Rebuilding

\* A step of a process that has no rows of its own, and that lets go of its index
\* or leaves it alone.
LEMMA HoldQuiet ==
    ASSUME Shape, HoldInv, NEW p \in Proc, NEW label \in Labels, Goto(p, label),
           pc[p] \notin {"persist", "commit"} \/ writer # p, label \notin {"rebuild", "retry"},
           UNCHANGED <<rows, writer, txn>>, file' = file \/ file'.is # "ok",
           excuse \subseteq excuse',
           \A q \in Proc : q # p => /\ mem'[q] = mem[q] /\ job'[q] = job[q]
                                    /\ q \in behind => q \in behind',
           \/ mem'[p] = NoIndex
           \/ mem'[p] = mem[p] /\ (p \in behind => p \in behind')
    PROVE  HoldInv'
<1>1. pc'[p] = label /\ \A q \in Proc : q # p => pc'[q] = pc[q]
  BY PcSet DEF Shape
<1>2. RebuildsAfresh'
  BY AfreshFrom DEF HoldInv
<1>3. ASSUME excuse' = {}
      PROVE  VectorsKept'
  <2>1. VectorsKept
    BY <1>3 DEF HoldInv
  <2>2. writer # p /\ (writer = None \/ writer \in Proc)
    BY <2>1, VectorAssumption DEF VectorsKept, WriterAtWork, Shape, Typed
  <2>3. RowsNow' = RowsNow
    BY <1>1, <2>2 DEF RowsNow
  <2>4. WriterAtWork'
    BY <1>1, <2>1, <2>2 DEF VectorsKept, WriterAtWork
  <2>5. FileHolds'
    BY <2>1, <2>3 DEF VectorsKept, FileHolds
  <2>6. MemHolds'
    <3>1. NoIndex.is # "ok"
      BY DEF NoIndex
    <3>2. ASSUME NEW q \in Proc
          PROVE  Holds(q)'
      BY <2>1, <2>2, <2>3, <3>1 DEF VectorsKept, MemHolds, Holds
    <3>3. QED
      BY <3>2 DEF MemHolds
  <2>7. FromHolds'
    <3>1. ~Rebuilding(p)'
      BY <1>1 DEF Rebuilding
    <3>2. \A q \in Proc : q # p => Rebuilding(q)' = Rebuilding(q)
      BY <1>1 DEF Rebuilding
    <3>3. RowsOf(rows)' = RowsOf(rows)
      OBVIOUS
    <3>4. QED
      BY <2>1, <3>1, <3>2, <3>3 DEF VectorsKept, FromHolds
  <2>8. OnlyDeletes'
    <3>1. RowsOf(txn)' = RowsOf(txn) /\ RowsOf(rows)' = RowsOf(rows)
      OBVIOUS
    <3>2. QED
      BY <2>1, <2>2, <3>1 DEF VectorsKept, OnlyDeletes
  <2>9. QED
    BY <2>4, <2>5, <2>6, <2>7, <2>8 DEF VectorsKept
<1>4. QED
  BY <1>2, <1>3 DEF HoldInv

LEMMA HoldBegins ==
    ASSUME Shape, HoldInv, NEW p \in Proc,
           (\E force \in BOOLEAN : Build(p, force)) \/ Update(p) \/ Ingest(p) \/ Search(p)
    PROVE  HoldInv'
<1>1. PICK kind \in {"build", "update", "ingest", "search"},
           phase \in {"embed", "delete", "read"}, force \in BOOLEAN,
           want \in [Node -> Text \cup {Gone}], drop \in SUBSET Node,
           label \in {"graph", "load", "scan"} :
              Begin(p, kind, phase, force, want, drop) /\ Goto(p, label)
  BY BeginCases
<1>2. pc[p] = "idle" /\ \A q \in Proc : q # p => job'[q] = job[q]
  BY <1>1, BeginIs DEF Shape
<1>3. label \in Labels /\ label \notin {"rebuild", "retry"}
  BY DEF Labels
<1>4. UNCHANGED <<rows, writer, txn, file, mem, behind, excuse>>
  BY BeginCases
<1>5. QED
  BY <1>1, <1>2, <1>3, <1>4, HoldQuiet

LEMMA HoldGraph ==
    ASSUME Shape, HoldInv, NEW p \in Proc, WriteGraph(p) \/ LoadGraph(p)
    PROVE  HoldInv'
<1>1. /\ pc[p] \in {"graph", "nodes"} /\ \A q \in Proc : q # p => job'[q] = job[q]
      /\ UNCHANGED <<rows, writer, txn, file, mem, behind, excuse>>
  BY GraphIs
<1>2. \E label \in Labels : Goto(p, label) /\ label \notin {"rebuild", "retry"}
  BY GraphIs DEF Labels
<1>3. QED
  BY <1>1, <1>2, HoldQuiet

LEMMA HoldExit ==
    ASSUME Shape, HoldInv, NEW p \in Proc, NEW index, Reads(index), Leave(p, index),
           index = mem[p] \/ p \notin Long,
           pc[p] \notin {"persist", "commit"} \/ writer # p, behind' = behind \ Forget(p),
           UNCHANGED <<rows, writer, txn>>, file' = file \/ file'.is # "ok",
           excuse \subseteq excuse'
    PROVE  HoldInv'
<1>1. /\ Goto(p, "idle") /\ \A q \in Proc : q # p => job'[q] = job[q] /\ mem'[q] = mem[q]
      /\ mem'[p] = IF p \in Long THEN index ELSE NoIndex
  BY LeaveMoves
<1>2. Forget(p) = IF p \in Long THEN {} ELSE {p}
  BY DEF Forget
<1>3. "idle" \in Labels
  BY DEF Labels
<1>4. QED
  BY <1>1, <1>2, <1>3, HoldQuiet

LEMMA HoldPurge ==
    ASSUME Shape, HoldInv, NEW p \in Proc, NEW prune \in BOOLEAN, Purge(p, prune)
    PROVE  HoldInv'
<1>1. pc[p] = "purge" /\ UNCHANGED <<rows, writer, txn, file, excuse>>
  BY PurgeIs
<1>2. CASE Exit(p)
  <2>1. Leave(p, mem[p]) /\ behind' = behind \ Forget(p)
    BY <1>2, Zenon DEF Exit
  <2>2. QED
    BY <1>1, <2>1, OwnReads, HoldExit
<1>3. CASE /\ job' = [job EXCEPT ![p] = [job[p] EXCEPT !.phase = "delete", !.drop = Orphans(p)]]
           /\ Goto(p, "load") /\ UNCHANGED <<mem, behind, alone>>
  <2>1. \A q \in Proc : q # p => job'[q] = job[q]
    BY <1>3 DEF Shape, Typed
  <2>2. "load" \in Labels
    BY DEF Labels
  <2>3. QED
    BY <1>1, <1>3, <2>1, <2>2, HoldQuiet
<1>4. QED
  BY <1>2, <1>3, PurgeIs

LEMMA HoldScan ==
    ASSUME Shape, HoldInv, NEW p \in Proc, Scan(p)
    PROVE  HoldInv'
<1>1. pc[p] = "scan"
  BY Zenon DEF Scan
<1>2. \A q \in Proc : q # p => job'[q] = job[q]
  BY ScanIs DEF Shape, Typed
<1>3. \E label \in Labels : Goto(p, label) /\ label \notin {"rebuild", "retry"}
  BY ScanIs DEF Labels
<1>4. UNCHANGED <<rows, writer, txn, file, mem, behind, excuse>>
  BY ScanIs
<1>5. QED
  BY <1>1, <1>2, <1>3, <1>4, HoldQuiet

\* The rows that are rebuilt are those that are there.
LEMMA HoldStart ==
    ASSUME Shape, HoldInv, NEW p \in Proc, NEW label \in {"rebuild", "retry"},
           StartRebuild(p, label), mem[p].is = "none", pc[p] \notin {"persist", "commit"},
           UNCHANGED <<rows, writer, txn, mem, excuse>>, file' = file \/ file'.is # "ok"
    PROVE  HoldInv'
<1>1. label \in Labels /\ Goto(p, label) /\ behind' = behind \ {p}
  BY StartRebuildIs DEF Labels
<1>2. pc'[p] = label /\ \A q \in Proc : q # p => pc'[q] = pc[q]
  BY <1>1, PcSet DEF Shape
<1>3. job'[p].from = Seen(p) /\ \A q \in Proc : q # p => job'[q] = job[q]
  <2>1. job' = [job EXCEPT ![p] = [job[p] EXCEPT !.from = Seen(p)]]
    BY StartRebuildIs
  <2>2. job[p] \in Job /\ job \in [Proc -> Job]
    BY DEF Shape, Typed
  <2>3. QED
    BY <2>1, <2>2 DEF Job
<1>4. RebuildsAfresh'
  BY <1>1, AfreshFrom DEF HoldInv
<1>5. ASSUME excuse' = {}
      PROVE  VectorsKept'
  <2>1. VectorsKept
    BY <1>5 DEF HoldInv
  <2>2. writer # p /\ (writer = None \/ writer \in Proc)
    BY <2>1, VectorAssumption DEF VectorsKept, WriterAtWork, Shape, Typed
  <2>3. RowsNow' = RowsNow
    BY <1>2, <2>2 DEF RowsNow
  <2>4. WriterAtWork'
    BY <1>2, <2>1, <2>2 DEF VectorsKept, WriterAtWork
  <2>5. FileHolds'
    BY <2>1, <2>3 DEF VectorsKept, FileHolds
  <2>6. MemHolds'
    <3>1. ASSUME NEW q \in Proc
          PROVE  Holds(q)'
      BY <1>1, <2>1, <2>2, <2>3 DEF VectorsKept, MemHolds, Holds
    <3>2. QED
      BY <3>1 DEF MemHolds
  <2>7. FromHolds'
    <3>1. Seen(p) = RowsOf(rows)
      BY <2>2 DEF Seen, View
    <3>2. \A q \in Proc : q # p => Rebuilding(q)' = Rebuilding(q)
      BY <1>2 DEF Rebuilding
    <3>3. RowsOf(rows)' = RowsOf(rows)
      OBVIOUS
    <3>4. QED
      BY <1>1, <1>3, <2>1, <3>1, <3>2, <3>3 DEF VectorsKept, FromHolds
  <2>8. OnlyDeletes'
    <3>1. RowsOf(txn)' = RowsOf(txn) /\ RowsOf(rows)' = RowsOf(rows)
      OBVIOUS
    <3>2. QED
      BY <2>1, <2>2, <3>1 DEF VectorsKept, OnlyDeletes
  <2>9. QED
    BY <2>4, <2>5, <2>6, <2>7, <2>8 DEF VectorsKept
<1>6. QED
  BY <1>4, <1>5 DEF HoldInv

LEMMA HoldLoad ==
    ASSUME Shape, HoldInv, NEW p \in Proc, Load(p)
    PROVE  HoldInv'
<1>1. pc[p] = "load" /\ UNCHANGED <<rows, writer, txn, excuse>>
  BY Zenon DEF Load
<1>2. Loaded(p) \in Labels /\ Loaded(p) \notin {"rebuild", "retry"}
  BY LoadedIs DEF Labels
<1>3. CASE Goto(p, Loaded(p)) /\ UNCHANGED <<file, mem, job, behind>>
  BY <1>1, <1>2, <1>3, HoldQuiet
<1>4. CASE /\ mem[p].is = "none" /\ file.is = "ok" /\ mem' = [mem EXCEPT ![p] = file]
           /\ behind' = behind \ {p} /\ Goto(p, Loaded(p)) /\ UNCHANGED <<file, job>>
  <2>1. pc'[p] = Loaded(p) /\ \A q \in Proc : q # p => pc'[q] = pc[q]
    BY <1>2, <1>4, PcSet DEF Shape
  <2>2. mem'[p] = file /\ \A q \in Proc : q # p => mem'[q] = mem[q]
    BY <1>4 DEF Shape, Typed
  <2>3. RebuildsAfresh'
    BY <1>2, <1>4, <2>2, AfreshFrom DEF HoldInv
  <2>4. ASSUME excuse' = {}
        PROVE  VectorsKept'
    <3>1. VectorsKept
      BY <1>1, <2>4 DEF HoldInv
    <3>2. writer # p /\ (writer = None \/ writer \in Proc)
      BY <1>1, <3>1, VectorAssumption DEF VectorsKept, WriterAtWork, Shape, Typed
    <3>3. RowsNow' = RowsNow
      BY <1>1, <2>1, <3>2 DEF RowsNow
    <3>4. WriterAtWork'
      BY <1>1, <2>1, <3>1, <3>2 DEF VectorsKept, WriterAtWork
    <3>5. FileHolds'
      BY <1>4, <3>1, <3>3 DEF VectorsKept, FileHolds
    <3>6. MemHolds'
      <4>1. ASSUME NEW q \in Proc
            PROVE  Holds(q)'
        BY <1>1, <1>4, <2>2, <3>1, <3>2, <3>3 DEF VectorsKept, MemHolds, Holds, FileHolds
      <4>2. QED
        BY <4>1 DEF MemHolds
    <3>7. FromHolds'
      <4>1. ~Rebuilding(p)' /\ \A q \in Proc : q # p => Rebuilding(q)' = Rebuilding(q)
        BY <1>2, <2>1 DEF Rebuilding
      <4>2. RowsOf(rows)' = RowsOf(rows)
        BY <1>1
      <4>3. QED
        BY <1>4, <3>1, <4>1, <4>2 DEF VectorsKept, FromHolds
    <3>8. OnlyDeletes'
      <4>1. RowsOf(txn)' = RowsOf(txn) /\ RowsOf(rows)' = RowsOf(rows) /\ writer' = writer
        BY <1>1
      <4>2. QED
        BY <2>2, <3>1, <3>2, <4>1 DEF VectorsKept, OnlyDeletes
    <3>9. QED
      BY <3>4, <3>5, <3>6, <3>7, <3>8 DEF VectorsKept
  <2>5. QED
    BY <2>3, <2>4 DEF HoldInv
<1>5. CASE /\ mem[p].is = "none" /\ file' = NoIndex /\ UNCHANGED mem
           /\ \/ StartRebuild(p, "rebuild") \/ StartRebuild(p, "retry")
              \/ Goto(p, Loaded(p)) /\ UNCHANGED <<job, behind>>
  <2>1. file'.is # "ok"
    BY <1>5 DEF NoIndex
  <2>2. CASE StartRebuild(p, "rebuild") \/ StartRebuild(p, "retry")
    BY <1>1, <1>5, <2>1, <2>2, HoldStart
  <2>3. CASE Goto(p, Loaded(p)) /\ UNCHANGED <<job, behind>>
    BY <1>1, <1>2, <1>5, <2>1, <2>3, HoldQuiet
  <2>4. QED
    BY <1>5, <2>2, <2>3
<1>6. QED
  BY <1>3, <1>4, <1>5, Zenon DEF Load

LEMMA HoldRebuildFails ==
    ASSUME Shape, HoldInv, NEW p \in Proc, RebuildFails(p)
    PROVE  HoldInv'
<1>1. /\ Rebuilding(p) /\ UNCHANGED <<rows, writer, txn, file, mem, excuse>>
      /\ \/ StartRebuild(p, "retry")
         \/ /\ Goto(p, Loaded(p)) /\ UNCHANGED behind
            /\ job' = [job EXCEPT ![p].from = {}, ![p].force = @ \/ pc[p] = "retry"]
  BY Zenon DEF RebuildFails
<1>2. pc[p] \notin {"persist", "commit"} /\ mem[p].is = "none"
  BY <1>1 DEF Rebuilding, HoldInv, RebuildsAfresh
<1>3. CASE StartRebuild(p, "retry")
  BY <1>1, <1>2, <1>3, HoldStart
<1>4. CASE /\ Goto(p, Loaded(p)) /\ UNCHANGED behind
           /\ job' = [job EXCEPT ![p].from = {}, ![p].force = @ \/ pc[p] = "retry"]
  <2>1. Loaded(p) \in Labels /\ Loaded(p) \notin {"rebuild", "retry"}
    BY LoadedIs DEF Labels
  <2>2. \A q \in Proc : q # p => job'[q] = job[q]
    BY <1>4 DEF Shape, Typed
  <2>3. QED
    BY <1>1, <1>2, <1>4, <2>1, <2>2, HoldQuiet
<1>5. QED
  BY <1>1, <1>3, <1>4

\* A step that something has gone wrong at, or before.
LEMMA HoldExcused ==
    ASSUME Shape, HoldInv, NEW p \in Proc, NEW label \in Labels, Goto(p, label),
           label \notin {"rebuild", "retry"}, excuse' # {},
           \A q \in Proc : q # p => mem'[q] = mem[q]
    PROVE  HoldInv'
BY AfreshFrom DEF HoldInv

\* An index of the rows that are there goes to memory alone.
LEMMA HoldTook ==
    ASSUME Shape, HoldInv, NEW p \in Proc, NEW label \in Labels, Goto(p, label),
           label \notin {"rebuild", "retry"}, VectorsKept, writer = None,
           UNCHANGED <<rows, writer, txn, behind>>, file' = file \/ file'.is # "ok",
           \A q \in Proc : q # p => mem'[q] = mem[q] /\ job'[q] = job[q],
           p \notin behind => RowsOf(rows) \subseteq mem'[p].of
    PROVE  HoldInv'
<1>1. pc'[p] = label /\ \A q \in Proc : q # p => pc'[q] = pc[q]
  BY PcSet DEF Shape
<1>2. RebuildsAfresh'
  BY AfreshFrom DEF HoldInv
<1>3. RowsNow' = RowsNow /\ RowsNow = rows
  BY DEF RowsNow
<1>4. WriterAtWork' /\ OnlyDeletes'
  BY DEF WriterAtWork, OnlyDeletes
<1>5. FileHolds'
  BY <1>3 DEF VectorsKept, FileHolds
<1>6. MemHolds'
  <2>1. ASSUME NEW q \in Proc
        PROVE  Holds(q)'
    BY <1>3, VectorAssumption DEF VectorsKept, MemHolds, Holds
  <2>2. QED
    BY <2>1 DEF MemHolds
<1>7. FromHolds'
  <2>1. ~Rebuilding(p)' /\ \A q \in Proc : q # p => Rebuilding(q)' = Rebuilding(q)
    BY <1>1 DEF Rebuilding
  <2>2. RowsOf(rows)' = RowsOf(rows)
    OBVIOUS
  <2>3. QED
    BY <2>1, <2>2 DEF VectorsKept, FromHolds
<1>8. QED
  BY <1>2, <1>4, <1>5, <1>6, <1>7 DEF HoldInv, VectorsKept

\* The process that writes the file puts every other behind it.
LEMMA HoldFiled ==
    ASSUME Shape, HoldInv, NEW p \in Proc, NEW label \in Labels, Goto(p, label),
           label \notin {"rebuild", "retry"},
           NEW index \in Index, index.is = "ok", WriteFile(p, index), mem'[p] = index,
           \A q \in Proc : q # p => mem'[q] = mem[q],
           excuse = {} /\ p \notin behind =>
              /\ WriterAtWork' /\ OnlyDeletes'
              /\ RowsOf(RowsNow)' \subseteq index.of
              /\ writer' = p => RowsOf(txn)' \subseteq index.of
    PROVE  HoldInv'
<1>1. /\ file' = index /\ excuse \subseteq excuse' /\ (p \in behind => excuse' # {})
      /\ behind' = {q \in Proc \ {p} : mem[q].is = "ok" \/ Rebuilding(q)}
  BY FileWritten
<1>2. pc'[p] = label /\ \A q \in Proc : q # p => pc'[q] = pc[q]
  BY PcSet DEF Shape
<1>3. RebuildsAfresh'
  BY AfreshFrom DEF HoldInv
<1>4. ASSUME excuse' = {}
      PROVE  VectorsKept'
  <2>1. /\ WriterAtWork' /\ OnlyDeletes' /\ RowsOf(RowsNow)' \subseteq index.of
        /\ writer' = p => RowsOf(txn)' \subseteq index.of
    BY <1>1, <1>4
  <2>2. FileHolds'
    BY <1>1, <2>1 DEF FileHolds
  <2>3. MemHolds'
    <3>1. Holds(p)'
      BY <2>1 DEF Holds
    <3>2. ASSUME NEW q \in Proc, q # p
          PROVE  Holds(q)'
      BY <1>1, <3>2 DEF Holds
    <3>3. QED
      BY <3>1, <3>2 DEF MemHolds
  <2>4. FromHolds'
    <3>1. ~Rebuilding(p)' /\ \A q \in Proc : q # p => Rebuilding(q)' = Rebuilding(q)
      BY <1>2 DEF Rebuilding
    <3>2. QED
      BY <1>1, <3>1 DEF FromHolds
  <2>5. QED
    BY <2>1, <2>2, <2>3, <2>4 DEF VectorsKept
<1>5. QED
  BY <1>3, <1>4 DEF HoldInv

LEMMA HoldRebuildOK ==
    ASSUME Shape, HoldInv, NEW p \in Proc, RebuildOK(p)
    PROVE  HoldInv'
<1> DEFINE index == IndexOf(job[p].from)
<1>1. /\ Rebuilding(p) /\ writer \in {None, p} /\ CommitOwn(p)
      /\ mem' = [mem EXCEPT ![p] = index] /\ WriteFile(p, index) /\ Goto(p, Loaded(p))
  BY Zenon DEF RebuildOK
<1>2. Loaded(p) \in Labels /\ Loaded(p) \notin {"rebuild", "retry"}
  BY LoadedIs DEF Labels
<1>3. index \in Index /\ index.is = "ok" /\ index.of = job[p].from
  <2>1. job[p].from \in SUBSET Entry
    BY DEF Shape, Typed, Job
  <2>2. QED
    BY <2>1, Initials
<1> HIDE DEF index
<1>4. mem'[p] = index /\ \A q \in Proc : q # p => mem'[q] = mem[q]
  BY <1>1, <1>3, MemSet DEF Shape
<1>5. ASSUME excuse = {}, p \notin behind
      PROVE  /\ WriterAtWork' /\ OnlyDeletes' /\ RowsOf(RowsNow)' \subseteq index.of
             /\ writer' # p
  <2>1. VectorsKept
    BY <1>5 DEF HoldInv
  <2>2. writer = None /\ p # None
    BY <1>1, <2>1, VectorAssumption DEF VectorsKept, WriterAtWork, Rebuilding
  <2>3. writer' = None /\ rows' = rows
    BY <1>1, <2>2, OwnCommits
  <2>4. RowsOf(RowsNow)' = RowsOf(rows)
    BY <2>3 DEF RowsNow
  <2>5. RowsOf(rows) \subseteq index.of
    BY <1>1, <1>3, <1>5, <2>1 DEF VectorsKept, FromHolds
  <2>6. QED
    BY <2>2, <2>3, <2>4, <2>5 DEF WriterAtWork, OnlyDeletes
<1>6. QED
  BY <1>1, <1>2, <1>3, <1>4, <1>5, HoldFiled

LEMMA HoldPersist ==
    ASSUME Shape, HoldInv, NEW p \in Proc, Persist(p)
    PROVE  HoldInv'
<1>1. /\ pc[p] = "persist" /\ Goto(p, "commit")
      /\ UNCHANGED <<source, graph, rows, writer, txn, mem, job, edits, trouble, alone>>
  BY PersistIs
<1>2. pc'[p] = "commit" /\ (\A q \in Proc : q # p => pc'[q] = pc[q]) /\ "commit" \in Labels
  BY <1>1, PcSet DEF Shape, Labels
<1>3. ASSUME excuse = {}
      PROVE  /\ VectorsKept /\ WriterAtWork' /\ OnlyDeletes' /\ p # None
             /\ writer = p => RowsOf(RowsNow)' = RowsOf(txn)
             /\ writer # p => RowsOf(RowsNow)' = RowsOf(RowsNow)
  <2>1. VectorsKept /\ p # None /\ writer \in Proc \cup {None}
    BY <1>3, VectorAssumption DEF HoldInv, Shape, Typed
  <2>2. WriterAtWork'
    BY <1>1, <1>2, <2>1 DEF VectorsKept, WriterAtWork
  <2>3. RowsOf(txn)' = RowsOf(txn) /\ RowsOf(rows)' = RowsOf(rows)
    BY <1>1
  <2>4. OnlyDeletes'
    BY <1>1, <2>1, <2>3 DEF VectorsKept, OnlyDeletes
  <2>5. writer = p => RowsNow' = txn
    BY <1>1, <1>2, <2>1 DEF RowsNow
  <2>6. writer # p => RowsNow' = RowsNow
    BY <1>1, <1>2, <2>1 DEF RowsNow
  <2>7. QED
    BY <2>1, <2>2, <2>4, <2>5, <2>6
<1>4. CASE mem[p].is = "ok" /\ mem[p] \in Index /\ WriteFile(p, mem[p])
  <2>1. ASSUME excuse = {}, p \notin behind
        PROVE  RowsOf(RowsNow)' \subseteq mem[p].of /\ (writer' = p => RowsOf(txn)' \subseteq mem[p].of)
    <3>1. RowsOf(IF p = writer THEN txn ELSE RowsNow) \subseteq mem[p].of
      BY <1>3, <1>4, <2>1 DEF VectorsKept, MemHolds, Holds
    <3>2. RowsOf(txn)' = RowsOf(txn) /\ writer' = writer
      BY <1>1
    <3>3. QED
      BY <1>3, <2>1, <3>1, <3>2
  <2>2. mem'[p] = mem[p] /\ \A q \in Proc : q # p => mem'[q] = mem[q]
    BY <1>1
  <2>3. QED
    BY <1>1, <1>2, <1>3, <1>4, <2>1, <2>2, HoldFiled
<1>5. CASE mem[p] = NoIndex /\ UNCHANGED <<file, behind, excuse>>
  <2>1. CASE writer # p
    BY <1>1, <1>2, <1>5, <2>1, HoldQuiet
  <2>2. CASE writer = p
    <3>1. RebuildsAfresh'
      BY <1>1, <1>2, AfreshFrom DEF HoldInv
    <3>2. ASSUME excuse' = {}
          PROVE  VectorsKept'
      <4>1. /\ VectorsKept /\ WriterAtWork' /\ OnlyDeletes'
            /\ RowsOf(RowsNow)' = RowsOf(txn) /\ RowsOf(txn) \subseteq RowsOf(rows)
            /\ p # None
        <5>1. excuse = {}
          BY <1>5, <3>2
        <5>2. mem[p].is = "none"
          BY <1>5 DEF NoIndex
        <5>3. QED
          BY <1>3, <2>2, <5>1, <5>2 DEF VectorsKept, OnlyDeletes
      <4>2. RowsNow = rows
        BY <1>1, <2>2, <4>1 DEF RowsNow
      <4>3. FileHolds'
        BY <1>5, <4>1, <4>2 DEF VectorsKept, FileHolds
      <4>4. MemHolds'
        <5>1. NoIndex.is # "ok"
          BY DEF NoIndex
        <5>2. ASSUME NEW q \in Proc
              PROVE  Holds(q)'
          BY <1>1, <1>5, <2>2, <4>1, <4>2, <5>1 DEF VectorsKept, MemHolds, Holds
        <5>3. QED
          BY <5>2 DEF MemHolds
      <4>5. FromHolds'
        <5>1. ~Rebuilding(p)' /\ \A q \in Proc : q # p => Rebuilding(q)' = Rebuilding(q)
          BY <1>2 DEF Rebuilding
        <5>2. RowsOf(rows)' = RowsOf(rows)
          BY <1>1
        <5>3. QED
          BY <1>1, <1>5, <4>1, <5>1, <5>2 DEF VectorsKept, FromHolds
      <4>6. QED
        BY <4>1, <4>3, <4>4, <4>5 DEF VectorsKept
    <3>3. QED
      BY <3>1, <3>2 DEF HoldInv
  <2>3. QED
    BY <2>1, <2>2
<1>6. QED
  BY <1>4, <1>5, PersistIs

\* What a process leaves as it was when it proceeds.
LEMMA ProceedKeeps ==
    ASSUME Shape, NEW p \in Proc, Proceed(p)
    PROVE  /\ \E label \in Labels \ {"rebuild", "retry"} : Goto(p, label)
           /\ \A q \in Proc : q # p => mem'[q] = mem[q] /\ job'[q] = job[q]
           /\ mem'[p] = NoIndex \/ (mem'[p] = mem[p] /\ (Continues(p) \/ p \in Long))
<1>1. CASE Continues(p) /\ UNCHANGED mem
  <2>1. \E label \in Labels \ {"rebuild", "retry"} : Goto(p, label)
    BY <1>1, ProceedIs DEF Labels
  <2>2. \A q \in Proc : q # p => job'[q] = job[q]
    BY <1>1, ProceedIs DEF Shape, Typed
  <2>3. QED
    BY <1>1, <2>1, <2>2
<1>2. CASE Leave(p, mem[p]) /\ ~Continues(p)
  BY <1>2, OwnReads, LeaveMoves DEF Labels
<1>3. QED
  BY <1>1, <1>2, ProceedIs

\* A process changes rows: the others wait for it to commit.
LEMMA HoldTakes ==
    ASSUME Shape, HoldInv, NEW p \in Proc, Goto(p, "persist"),
           pc[p] \notin {"persist", "commit"}, writer \in {None, p}, writer' = p,
           UNCHANGED <<rows, file, job, behind>>, excuse \subseteq excuse',
           \A q \in Proc : q # p => mem'[q] = mem[q],
           VectorsKept /\ excuse' = {} /\ writer = None =>
              /\ mem'[p].is = "ok" /\ p \notin behind => RowsOf(txn)' \subseteq mem'[p].of
              /\ mem'[p].is = "none" => RowsOf(txn)' \subseteq RowsOf(rows)
    PROVE  HoldInv'
<1>1. "persist" \in Labels /\ p # None
  BY VectorAssumption DEF Labels
<1>2. pc'[p] = "persist" /\ \A q \in Proc : q # p => pc'[q] = pc[q]
  BY <1>1, PcSet DEF Shape
<1>3. RebuildsAfresh'
  BY <1>1, AfreshFrom DEF HoldInv
<1>4. ASSUME excuse' = {}
      PROVE  VectorsKept'
  <2>1. VectorsKept
    BY <1>4 DEF HoldInv
  <2>2. writer = None
    BY <2>1 DEF VectorsKept, WriterAtWork
  <2>3. /\ mem'[p].is = "ok" /\ p \notin behind => RowsOf(txn)' \subseteq mem'[p].of
        /\ mem'[p].is = "none" => RowsOf(txn)' \subseteq RowsOf(rows)
    BY <1>4, <2>1, <2>2
  <2>4. RowsNow = rows /\ RowsNow' = rows /\ RowsOf(rows)' = RowsOf(rows)
    BY <1>1, <1>2, <2>2 DEF RowsNow
  <2>5. WriterAtWork'
    BY <1>2 DEF WriterAtWork
  <2>6. FileHolds'
    BY <2>1, <2>4 DEF VectorsKept, FileHolds
  <2>7. MemHolds'
    <3>1. Holds(p)'
      BY <2>3 DEF Holds
    <3>2. ASSUME NEW q \in Proc, q # p
          PROVE  Holds(q)'
      <4>1. q # None
        BY VectorAssumption
      <4>2. QED
        BY <2>1, <2>2, <2>4, <3>2, <4>1 DEF VectorsKept, MemHolds, Holds
    <3>3. QED
      BY <3>1, <3>2 DEF MemHolds
  <2>8. FromHolds'
    <3>1. ~Rebuilding(p)' /\ \A q \in Proc : q # p => Rebuilding(q)' = Rebuilding(q)
      BY <1>2 DEF Rebuilding
    <3>2. QED
      BY <2>1, <2>4, <3>1 DEF VectorsKept, FromHolds
  <2>9. OnlyDeletes'
    BY <2>3, <2>4 DEF OnlyDeletes
  <2>10. QED
    BY <2>5, <2>6, <2>7, <2>8, <2>9 DEF VectorsKept
<1>5. QED
  BY <1>3, <1>4 DEF HoldInv

LEMMA HoldWrite ==
    ASSUME Shape, HoldInv, NEW p \in Proc, Write(p)
    PROVE  HoldInv'
<1> DEFINE some == job[p].pending
           index == Indexed(p, some)
           up == Upserted(p, some)
<1>1. /\ pc[p] = "write" /\ writer \in {None, p} /\ Clashes(p) = {} /\ writer' = p
      /\ txn' = up /\ mem' = [mem EXCEPT ![p] = index] /\ Goto(p, "persist")
      /\ UNCHANGED <<source, graph, rows, file, job, edits, trouble, behind, alone>>
  BY Zenon DEF Write
<1>2. excuse' = excuse
          \cup (IF mem[p].is = "none" /\ Stored(View(p)) # {} THEN {"subset"} ELSE {})
          \cup (IF \E e \in some : View(p)[e.node].uid \notin {0, e.uid} THEN {"uid"} ELSE {})
  BY Zenon DEF Write
<1>3. /\ excuse \subseteq excuse'
      /\ excuse' = {} => /\ mem[p].is = "none" => Stored(View(p)) = {}
                         /\ \A e \in some : View(p)[e.node].uid \in {0, e.uid}
  BY <1>2
<1>4. /\ index \in Index /\ index.is = "ok"
      /\ \A e \in some : [uid |-> e.uid, text |-> job[p].want[e.node]] \in index.of
      /\ \A v \in mem[p].of : (\A e \in some : e.uid # v.uid) => v \in index.of
  BY IndexedIs
<1>5. /\ \A e \in some :
            up[e.node] = [uid |-> IF View(p)[e.node] = NoRow THEN e.uid ELSE View(p)[e.node].uid,
                          text |-> job[p].want[e.node]]
      /\ \A n \in Node : (\A e \in some : e.node # n) => up[n] = View(p)[n]
      /\ up \in [Node -> Entry]
  BY UpsertedIs
<1>6. \A e \in some : \A m \in Node \ {e.node} : View(p)[m].uid # e.uid
  BY <1>1, NoClash DEF Free
<1>7. mem'[p] = index /\ \A q \in Proc : q # p => mem'[q] = mem[q]
  BY <1>1, <1>4, MemSet DEF Shape
<1>8. \A n \in Node : View(p)[n].uid \in Nat /\ (View(p)[n] = NoRow <=> View(p)[n].uid = 0)
  BY ViewSound, RowOf DEF Shape
<1>9. \A e \in some : e.node \in Node
  BY PendingTyped
<1> HIDE DEF index, up
<1>10. ASSUME VectorsKept, excuse' = {}, writer = None, p \notin behind,
              NEW n \in Stored(up)
       PROVE  up[n] \in index.of
  <2>1. n \in Node /\ up[n] # NoRow
    BY DEF Stored
  <2>2. CASE \E e \in some : e.node = n
    <3>1. PICK e \in some : e.node = n
      BY <2>2
    <3>2. (IF View(p)[n] = NoRow THEN e.uid ELSE View(p)[n].uid) = e.uid
      BY <1>3, <1>8, <1>10, <2>1, <3>1
    <3>3. up[n] = [uid |-> e.uid, text |-> job[p].want[n]]
      BY <1>5, <3>1, <3>2
    <3>4. QED
      BY <1>4, <3>1, <3>3
  <2>3. CASE \A e \in some : e.node # n
    <3>1. up[n] = View(p)[n] /\ View(p)[n] # NoRow /\ View(p) = rows /\ p # None
      BY <1>5, <1>10, <2>1, <2>3, VectorAssumption DEF View
    <3>2. n \in Stored(View(p)) /\ rows[n] \in RowsOf(rows) /\ RowsNow = rows
      BY <1>10, <2>1, <3>1 DEF Stored, RowsOf, RowsNow
    <3>3. mem[p].is = "ok"
      BY <1>3, <1>10, <3>2 DEF Shape, MemReads, NoIndex
    <3>4. rows[n] \in mem[p].of
      BY <1>10, <3>1, <3>2, <3>3 DEF VectorsKept, MemHolds, Holds
    <3>5. \A e \in some : e.uid # rows[n].uid
      BY <1>6, <2>1, <2>3, <3>1
    <3>6. QED
      BY <1>4, <3>1, <3>4, <3>5
  <2>4. QED
    BY <2>2, <2>3
<1>11. ASSUME VectorsKept, excuse' = {}, writer = None, p \notin behind
       PROVE  RowsOf(txn)' \subseteq mem'[p].of
  <2>1. RowsOf(txn)' = {up[n] : n \in Stored(up)}
    BY <1>1 DEF RowsOf, Stored
  <2>2. QED
    BY <1>7, <1>10, <1>11, <2>1
<1>12. QED
  BY <1>1, <1>3, <1>4, <1>7, <1>11, HoldTakes

\* A write that fails ends the run.
LEMMA FailsAborts ==
    ASSUME Shape, NEW p \in Proc, WriteFails(p)
    PROVE  \E index, table : Reads(index) /\ Abort(p, index, table)
<1> DEFINE first == Min(Clashes(p))
           updates == {e \in job[p].pending : ~e.new}
           before == {e \in updates : e.node <= first}
           some == {e \in job[p].pending : e.node < first}
<1>1. \/ Abort(p, Indexed(p, before), Upserted(p, some))
      \/ Abort(p, Indexed(p, updates), Upserted(p, job[p].pending))
  BY Zenon DEF WriteFails
<1>2. before \in SUBSET job[p].pending /\ updates \in SUBSET job[p].pending
  OBVIOUS
<1> HIDE DEF before, updates, some
<1>3. Reads(Indexed(p, before)) /\ Reads(Indexed(p, updates))
  BY <1>2, IndexedIs DEF Reads
<1>4. QED
  BY <1>1, <1>3

LEMMA HoldWriteFails ==
    ASSUME Shape, HoldInv, NEW p \in Proc, WriteFails(p)
    PROVE  HoldInv'
<1>1. /\ pc[p] = "write" /\ writer \in {None, p}
      /\ UNCHANGED <<source, graph, rows, file, edits, trouble>>
  BY Zenon DEF WriteFails
<1>2. PICK index, table : Reads(index) /\ Abort(p, index, table)
  BY FailsAborts
<1>3. /\ Leave(p, index) /\ behind' = behind \ Forget(p)
      /\ p \in Long => excuse' = excuse \cup {"leftover"}
      /\ p \notin Long => writer' = None /\ txn' = NoRows /\ excuse' = excuse
  BY <1>2, Zenon DEF Abort
<1>4. Goto(p, "idle") /\ "idle" \in Labels /\ \A q \in Proc : q # p => mem'[q] = mem[q]
  BY <1>2, <1>3, LeaveMoves DEF Labels
<1>5. CASE excuse' # {}
  BY <1>4, <1>5, HoldExcused
<1>6. CASE excuse' = {}
  <2>1. p \notin Long /\ excuse = {} /\ writer' = None /\ txn' = NoRows
    BY <1>3, <1>6
  <2>2. writer = None
    BY <1>1, <2>1 DEF HoldInv, VectorsKept, WriterAtWork
  <2>3. UNCHANGED <<rows, writer, txn, file, excuse>>
    BY <1>1, <1>6, <2>1, <2>2 DEF Shape, Typed
  <2>4. QED
    BY <1>1, <1>2, <1>3, <2>1, <2>3, HoldExit
<1>7. QED
  BY <1>5, <1>6

LEMMA HoldDelete ==
    ASSUME Shape, HoldInv, NEW p \in Proc, Delete(p)
    PROVE  HoldInv'
<1>1. pc[p] = "delete" /\ UNCHANGED <<source, graph, rows, file, edits, trouble, excuse>>
  BY DeleteIs
<1>2. CASE /\ Proceed(p) /\ UNCHANGED <<writer, txn>>
           /\ behind' = behind \ (IF Continues(p) THEN {} ELSE Forget(p))
  <2>1. PICK label \in Labels \ {"rebuild", "retry"} : Goto(p, label)
    BY <1>2, ProceedKeeps
  <2>2. /\ \A q \in Proc : q # p => mem'[q] = mem[q] /\ job'[q] = job[q]
        /\ mem'[p] = NoIndex \/ (mem'[p] = mem[p] /\ (Continues(p) \/ p \in Long))
    BY <1>2, ProceedKeeps
  <2>3. /\ \A q \in Proc : q # p => (q \in behind => q \in behind')
        /\ Continues(p) \/ p \in Long => (p \in behind => p \in behind')
    BY <1>2 DEF Forget
  <2>4. QED
    BY <1>1, <1>2, <2>1, <2>2, <2>3, HoldQuiet
<1>3. CASE /\ writer \in {None, p} /\ writer' = p /\ txn' = Without(p, Dropped(p))
           /\ mem' = [mem EXCEPT ![p] = [mem[p] EXCEPT !.of = Kept(p)]]
           /\ Reads([mem[p] EXCEPT !.of = Kept(p)])
           /\ Goto(p, "persist") /\ UNCHANGED <<job, behind, alone>>
  <2> DEFINE index == [mem[p] EXCEPT !.of = Kept(p)]
  <2>1. index.is = mem[p].is /\ index.of = Kept(p)
    BY DEF Shape, Typed, Index
  <2> HIDE DEF index
  <2>2. mem'[p] = index /\ \A q \in Proc : q # p => mem'[q] = mem[q]
    BY <1>3, MemMoves DEF index
  <2>3. ASSUME VectorsKept, excuse' = {}, writer = None
        PROVE  /\ mem'[p].is = "ok" /\ p \notin behind => RowsOf(txn)' \subseteq mem'[p].of
               /\ mem'[p].is = "none" => RowsOf(txn)' \subseteq RowsOf(rows)
    <3>1. View(p) = rows /\ RowsNow = rows /\ writer # p
      BY <2>3, VectorAssumption DEF View, RowsNow
    <3>2. Sound(rows)
      BY DEF Shape, TablesSound
    <3>3. ASSUME NEW v \in RowsOf(txn)'
          PROVE  v \in RowsOf(rows) /\ v.uid \notin Uids({View(p)[n] : n \in Dropped(p)})
      <4>1. PICK n \in Node : txn'[n] # NoRow /\ v = txn'[n]
        BY DEF RowsOf, Stored
      <4>2. n \notin Dropped(p) /\ v = rows[n] /\ v # NoRow
        BY <1>3, <3>1, <4>1 DEF Without
      <4>3. v \in RowsOf(rows)
        BY <4>2 DEF RowsOf, Stored
      <4>4. \A m \in Node : rows[n].uid = rows[m].uid => n = m
        BY <3>2, <4>2 DEF Sound
      <4>5. Dropped(p) \subseteq Node
        BY DEF Dropped, Stored
      <4>6. QED
        BY <3>1, <4>2, <4>3, <4>4, <4>5 DEF Uids
    <3>4. ASSUME mem'[p].is = "ok", p \notin behind
          PROVE  RowsOf(txn)' \subseteq mem'[p].of
      <4>1. RowsOf(rows) \subseteq mem[p].of
        BY <2>1, <2>2, <2>3, <3>1, <3>4 DEF VectorsKept, MemHolds, Holds
      <4>2. QED
        BY <2>1, <2>2, <3>3, <4>1 DEF Kept
    <3>5. QED
      BY <3>3, <3>4
  <2>4. QED
    BY <1>1, <1>3, <2>2, <2>3, HoldTakes
<1>4. QED
  BY <1>2, <1>3, DeleteIs

LEMMA HoldCommit ==
    ASSUME Shape, HoldInv, NEW p \in Proc, Commit(p)
    PROVE  HoldInv'
<1>1. /\ pc[p] = "commit" /\ CommitOwn(p) /\ Proceed(p)
      /\ behind' = (behind \cup IF writer = p THEN {q \in Proc : Rebuilding(q)} ELSE {})
                   \ (IF Continues(p) THEN {} ELSE Forget(p))
      /\ UNCHANGED <<source, graph, file, edits, trouble, excuse>>
  BY Zenon DEF Commit
<1>2. PICK label \in Labels \ {"rebuild", "retry"} : Goto(p, label)
  BY <1>1, ProceedKeeps
<1>3. /\ \A q \in Proc : q # p => mem'[q] = mem[q] /\ job'[q] = job[q]
      /\ mem'[p] = NoIndex \/ (mem'[p] = mem[p] /\ (Continues(p) \/ p \in Long))
  BY <1>1, ProceedKeeps
<1>4. /\ \A q \in Proc : q # p => (q \in behind => q \in behind')
      /\ Continues(p) \/ p \in Long => (p \in behind => p \in behind')
  BY <1>1 DEF Forget
<1>5. CASE writer # p
  <2>1. UNCHANGED <<rows, writer, txn>>
    BY <1>1, <1>5, OwnCommits
  <2>2. QED
    BY <1>1, <1>2, <1>3, <1>4, <1>5, <2>1, HoldQuiet
<1>6. CASE writer = p
  <2>1. pc'[p] = label /\ \A q \in Proc : q # p => pc'[q] = pc[q]
    BY <1>2, PcSet DEF Shape
  <2>2. RebuildsAfresh'
    BY <1>2, <1>3, AfreshFrom DEF HoldInv
  <2>3. ASSUME excuse' = {}
        PROVE  VectorsKept'
    <3>1. VectorsKept /\ p # None
      BY <1>1, <2>3, VectorAssumption DEF HoldInv
    <3>2. RowsNow = txn
      BY <1>1, <1>6, <3>1 DEF RowsNow
    <3>3. writer' = None /\ rows' = txn
      BY <1>1, <1>6, OwnCommits DEF View
    <3>4. RowsOf(RowsNow)' = RowsOf(txn)
      BY <3>3 DEF RowsNow
    <3>5. WriterAtWork' /\ OnlyDeletes'
      BY <3>3 DEF WriterAtWork, OnlyDeletes
    <3>6. FileHolds'
      BY <1>1, <3>1, <3>2, <3>4 DEF VectorsKept, FileHolds
    <3>7. MemHolds'
      <4>1. ASSUME NEW q \in Proc, mem[q].is = "ok", q \notin behind
            PROVE  RowsOf(txn) \subseteq mem[q].of
        BY <3>1, <3>2, <4>1 DEF VectorsKept, MemHolds, Holds
      <4>2. NoIndex.is # "ok"
        BY DEF NoIndex
      <4>3. ASSUME NEW q \in Proc, mem'[q].is = "ok", q \notin behind'
            PROVE  RowsOf(txn) \subseteq mem'[q].of
        BY <1>3, <1>4, <4>1, <4>2, <4>3
      <4>4. \A q \in Proc : q # None
        BY VectorAssumption
      <4>5. QED
        BY <3>3, <3>4, <4>3, <4>4 DEF MemHolds, Holds
    <3>8. FromHolds'
      <4>1. ASSUME NEW q \in Proc, Rebuilding(q)'
            PROVE  q # p /\ Rebuilding(q)
        BY <1>2, <2>1, <4>1 DEF Rebuilding
      <4>2. \A q \in Proc : q # p /\ Rebuilding(q) => q \in behind'
        BY <1>1, <1>6 DEF Forget
      <4>3. QED
        BY <4>1, <4>2 DEF FromHolds
    <3>9. QED
      BY <3>5, <3>6, <3>7, <3>8 DEF VectorsKept
  <2>4. QED
    BY <2>2, <2>3 DEF HoldInv
<1>7. QED
  BY <1>5, <1>6

\* A writer that has not got to its commit rolls back, and lets go of its index.
LEMMA HoldRollback ==
    ASSUME Shape, HoldInv, NEW p \in Proc, Goto(p, "idle"), mem'[p] = NoIndex,
           \A q \in Proc : q # p => /\ mem'[q] = mem[q] /\ job'[q] = job[q]
                                    /\ q \in behind => q \in behind',
           file' = file \/ file'.is # "ok", excuse \subseteq excuse',
           pc[p] = "commit" => excuse' # {},
           rows' = rows, writer = p, writer' = None
    PROVE  HoldInv'
<1>1. pc'[p] = "idle" /\ \A q \in Proc : q # p => pc'[q] = pc[q]
  BY PcSet DEF Shape, Labels
<1>2. RebuildsAfresh'
  BY AfreshFrom DEF HoldInv, Labels
<1>3. ASSUME excuse' = {}
      PROVE  VectorsKept'
  <2>1. VectorsKept /\ p # None /\ pc[p] # "commit"
    BY <1>3, VectorAssumption DEF HoldInv
  <2>2. RowsNow = rows /\ RowsOf(RowsNow)' = RowsOf(rows)
    BY <2>1 DEF RowsNow
  <2>3. WriterAtWork' /\ OnlyDeletes'
    BY DEF WriterAtWork, OnlyDeletes
  <2>4. FileHolds'
    BY <2>1, <2>2 DEF VectorsKept, FileHolds
  <2>5. MemHolds'
    <3>1. NoIndex.is # "ok" /\ \A q \in Proc : q # None
      BY VectorAssumption DEF NoIndex
    <3>2. ASSUME NEW q \in Proc
          PROVE  Holds(q)'
      BY <2>1, <2>2, <3>1 DEF VectorsKept, MemHolds, Holds
    <3>3. QED
      BY <3>2 DEF MemHolds
  <2>6. FromHolds'
    <3>1. ~Rebuilding(p)' /\ \A q \in Proc : q # p => Rebuilding(q)' = Rebuilding(q)
      BY <1>1 DEF Rebuilding
    <3>2. RowsOf(rows)' = RowsOf(rows)
      OBVIOUS
    <3>3. QED
      BY <2>1, <3>1, <3>2 DEF VectorsKept, FromHolds
  <2>7. QED
    BY <2>3, <2>4, <2>5, <2>6 DEF VectorsKept
<1>4. QED
  BY <1>2, <1>3 DEF HoldInv

LEMMA HoldKill ==
    ASSUME Shape, HoldInv, NEW p \in Proc, Kill(p)
    PROVE  HoldInv'
<1>1. /\ Goto(p, "idle") /\ job' = [job EXCEPT ![p] = NoJob]
      /\ mem' = [mem EXCEPT ![p] = NoIndex] /\ file' \in {file, Unreadable}
      /\ behind' = behind \ {p} /\ excuse \subseteq excuse'
      /\ pc[p] = "commit" /\ writer = p => excuse' # {}
      /\ rows' = rows
  BY KillIs
<1>2. "idle" \in Labels /\ (file' = file \/ file'.is # "ok")
  BY <1>1 DEF Labels, Unreadable
<1>3. /\ mem'[p] = NoIndex
      /\ \A q \in Proc : q # p => mem'[q] = mem[q] /\ job'[q] = job[q]
  BY <1>1, Initials, MemSet, JobSet DEF Shape
<1>4. \A q \in Proc : q # p => (q \in behind => q \in behind')
  BY <1>1
<1>5. CASE writer # p /\ UNCHANGED <<writer, txn>>
  BY <1>1, <1>2, <1>3, <1>4, <1>5, HoldQuiet DEF Labels
<1>6. CASE writer = p /\ writer' = None /\ txn' = NoRows
  BY <1>1, <1>2, <1>3, <1>4, <1>6, HoldRollback
<1>7. QED
  BY <1>5, <1>6, KillIs

LEMMA HoldPersistFails ==
    ASSUME Shape, HoldInv, NEW p \in Proc, PersistFails(p)
    PROVE  HoldInv'
<1>1. /\ pc[p] = "persist" /\ rows' = rows /\ (file' = file \/ file'.is # "ok")
      /\ Leave(p, mem[p]) /\ behind' = behind \ Forget(p) /\ Reads(mem[p])
  BY PersistFailsIs
<1>2. /\ Goto(p, "idle") /\ "idle" \in Labels
      /\ \A q \in Proc : q # p => mem'[q] = mem[q] /\ job'[q] = job[q]
      /\ mem'[p] = IF p \in Long THEN mem[p] ELSE NoIndex
  BY <1>1, LeaveMoves DEF Labels
<1>3. CASE writer # p /\ UNCHANGED <<writer, txn, excuse>>
  BY <1>1, <1>3, HoldExit
<1>4. CASE writer = p /\ Abort(p, mem[p], txn)
  <2>1. /\ p \in Long => excuse' = excuse \cup {"leftover"}
        /\ p \notin Long => writer' = None /\ txn' = NoRows /\ excuse' = excuse
    BY <1>4, Zenon DEF Abort
  <2>2. CASE p \in Long
    BY <1>2, <2>1, <2>2, HoldExcused
  <2>3. CASE p \notin Long
    <3>1. \A q \in Proc : q # p => (q \in behind => q \in behind')
      BY <1>1, <2>3 DEF Forget
    <3>2. QED
      BY <1>1, <1>2, <1>4, <2>1, <2>3, <3>1, HoldRollback
  <2>4. QED
    BY <2>2, <2>3
<1>5. QED
  BY <1>3, <1>4, PersistFailsIs

LEMMA HoldUnsaved ==
    ASSUME Shape, HoldInv, NEW p \in Proc, RebuildUnsaved(p)
    PROVE  HoldInv'
<1> DEFINE index == IndexOf(job[p].from)
<1>1. /\ Rebuilding(p) /\ writer \in {None, p} /\ CommitOwn(p)
      /\ file' = file \/ file'.is # "ok"
      /\ Leave(p, index) /\ Reads(index) /\ index.of = job[p].from
      /\ behind' = behind \ Forget(p) /\ excuse' = excuse
  BY UnsavedIs
<1> HIDE DEF index
<1>2. /\ Goto(p, "idle") /\ "idle" \in Labels
      /\ \A q \in Proc : q # p => mem'[q] = mem[q] /\ job'[q] = job[q]
      /\ mem'[p] = IF p \in Long THEN index ELSE NoIndex
  BY <1>1, LeaveMoves DEF Labels
<1>3. CASE excuse' # {}
  BY <1>2, <1>3, HoldExcused
<1>4. CASE excuse' = {}
  <2>1. VectorsKept /\ p # None /\ pc[p] \notin {"persist", "commit"}
    BY <1>1, <1>4, VectorAssumption DEF HoldInv, Rebuilding
  <2>2. writer = None /\ writer # p /\ UNCHANGED <<rows, writer, txn>>
    BY <1>1, <2>1, OwnCommits DEF VectorsKept, WriterAtWork
  <2>3. CASE p \notin Long
    BY <1>1, <2>1, <2>2, <2>3, HoldExit
  <2>4. CASE p \in Long
    <3>1. behind' = behind /\ mem'[p] = index
      BY <1>1, <1>2, <2>4 DEF Forget
    <3>2. p \notin behind => RowsOf(rows) \subseteq index.of
      BY <1>1, <2>1 DEF VectorsKept, FromHolds
    <3>3. QED
      BY <1>1, <1>2, <2>1, <2>2, <3>1, <3>2, HoldTook
  <2>5. QED
    BY <2>3, <2>4
<1>5. QED
  BY <1>3, <1>4

\* No process takes a step.
LEMMA HoldStill ==
    ASSUME HoldInv, UNCHANGED <<rows, writer, txn, mem, pc, job, behind, excuse>>,
           file' = file \/ file'.is # "ok"
    PROVE  HoldInv'
<1>1. RebuildsAfresh' = RebuildsAfresh
  BY DEF RebuildsAfresh, Rebuilding
<1>2. WriterAtWork' = WriterAtWork /\ OnlyDeletes' = OnlyDeletes
  BY DEF WriterAtWork, OnlyDeletes, RowsOf, Stored
<1>3. RowsNow' = RowsNow
  BY DEF RowsNow
<1>4. MemHolds' = MemHolds
  BY <1>3 DEF MemHolds, Holds, RowsOf, Stored
<1>5. FromHolds' = FromHolds
  BY DEF FromHolds, Rebuilding, RowsOf, Stored
<1>6. FileHolds => FileHolds'
  BY <1>3 DEF FileHolds
<1>7. VectorsKept => VectorsKept'
  BY <1>2, <1>4, <1>5, <1>6 DEF VectorsKept
<1>8. QED
  BY <1>1, <1>7 DEF HoldInv

LEMMA HoldStep ==
    ASSUME Shape, HoldInv, [Next]_vars
    PROVE  HoldInv'
<1>1. CASE UNCHANGED vars \/ Edit
  <2>1. UNCHANGED <<rows, writer, txn, file, mem, pc, job, behind, excuse>>
    BY <1>1, EditIs, Zenon DEF vars
  <2>2. QED
    BY <2>1, HoldStill
<1>2. CASE Upgrade
  <2>1. file'.is # "ok"
    BY <1>2, UpgradeIs DEF Unreadable
  <2>2. QED
    BY <1>2, <2>1, UpgradeIs, HoldStill
<1>3. ASSUME NEW p \in Proc, EmbedFails(p) \/ Answer(p)
      PROVE  HoldInv'
  <2>1. /\ pc[p] \in {"load", "answer"} /\ Leave(p, mem[p]) /\ behind' = behind \ Forget(p)
        /\ UNCHANGED <<rows, writer, txn, file, excuse>>
    BY <1>3 DEF EmbedFails, Answer, Exit
  <2>2. QED
    BY <2>1, OwnReads, HoldExit
<1>4. QED
  BY <1>1, <1>2, <1>3, StepCases, HoldBegins, HoldGraph, HoldLoad, HoldRebuildOK, HoldUnsaved,
     HoldRebuildFails, HoldScan, HoldWrite, HoldWriteFails, HoldPurge, HoldDelete,
     HoldPersist, HoldPersistFails, HoldCommit, HoldKill

LEMMA HoldInit ==
    ASSUME Init
    PROVE  HoldInv
<1>1. RebuildsAfresh /\ WriterAtWork /\ OnlyDeletes
  BY DEF Init, RebuildsAfresh, Rebuilding, WriterAtWork, OnlyDeletes
<1>2. FileHolds /\ MemHolds /\ FromHolds
  BY DEF Init, FileHolds, MemHolds, Holds, FromHolds, Rebuilding, NoIndex
<1>3. QED
  BY <1>1, <1>2 DEF HoldInv, VectorsKept

LEMMA HoldAlways == Spec => [](Shape /\ HoldInv)
<1>1. Init => Shape /\ HoldInv
  BY ShapeInit, HoldInit
<1>2. Shape /\ HoldInv /\ [Next]_vars => (Shape /\ HoldInv)'
  BY ShapeStep, HoldStep
<1>3. QED
  BY <1>1, <1>2, PTL DEF Spec

\* The store is sufficient to rebuild every vector (turbovec_backend.py:510): however
\* builds, updates, ingests and searches interleave and whatever is killed or
\* upgraded between their steps, a row without a vector in the file takes one of
\* the five causes named in Excuses.
THEOREM RowsKeepVectors == Spec => []RowsHaveVectors
<1>1. Shape /\ HoldInv => RowsHaveVectors
  <2>1. SUFFICES ASSUME Shape, HoldInv, writer = None, file.is = "ok", excuse = {},
                        NEW n \in Stored(rows)
                 PROVE  rows[n] \in file.of
    BY DEF RowsHaveVectors
  <2>2. RowsOf(RowsNow) \subseteq file.of /\ RowsNow = rows
    BY <2>1 DEF HoldInv, VectorsKept, FileHolds, RowsNow
  <2>3. rows[n] \in RowsOf(rows)
    BY DEF RowsOf
  <2>4. QED
    BY <2>2, <2>3
<1>2. QED
  BY <1>1, HoldAlways, PTL

--------------------------------------------------------------------------------
(* A forced build that no other run overlaps *)

\* What a run j at a label has planned: a forced one everything it wants, before
\* it writes.
InPhase(j, label) ==
    /\ \A n \in Node : j.want[n] # Gone => n \in Scope(j.kind)
    /\ label \in {"graph", "nodes"} => j.pending = {} /\ j.kind # "ingest"
    /\ label = "write" => j.pending # {}
    /\ label \in {"retry", "purge"} => j.pending = {}
    /\ j.phase = "delete" => j.pending = {} /\ label # "scan"
    /\ label = "delete" => j.phase = "delete"
    /\ j.force /\ j.phase = "embed" /\ (label \in {"persist", "commit"} \/ j.pending # {}) =>
          \A n \in Node : j.want[n] # Gone => \E e \in j.pending : e.node = n

PhaseInv ==
    /\ \A n \in Doc : graph[n] = Gone
    /\ \A p \in Proc : InPhase(job[p], pc[p])

\* Where an entry of the plan is: still to be written, then in the rows and the
\* index in memory, then in the rows and the file.
Progress(p, e) ==
    /\ pc[p] \in {"load", "rebuild", "write"} =>
          View(p)[e.node] = NoRow \/ View(p)[e.node].uid = e.uid
    /\ pc[p] \in {"persist", "commit"} =>
          View(p)[e.node] = [uid |-> e.uid, text |-> job[p].want[e.node]]
    /\ pc[p] = "persist" => mem[p].is = "ok" /\ View(p)[e.node] \in mem[p].of
    /\ pc[p] = "commit" /\ file.is = "ok" => View(p)[e.node] \in file.of

Alone(p) ==
    /\ pc[p] # "idle" /\ \A q \in Proc \ {p} : pc[q] = "idle"
    /\ job[p].phase = "embed" => \A e \in job[p].pending : Progress(p, e)

AloneInv == alone # None => Alone(alone)

RepairInv == PhaseInv /\ AloneInv

\* A step of the loads and rebuilds changes neither the plan nor the rows seen.
LEMMA RebuildMoves ==
    ASSUME Shape, NEW p \in Proc, Load(p) \/ RebuildOK(p) \/ RebuildFails(p)
    PROVE  /\ \E label \in {"rebuild", "retry", Loaded(p)} :
                 Goto(p, label) /\ (label = "retry" => job[p].pending = {})
           /\ pc[p] \in {"load", "rebuild", "retry"}
           /\ job'[p].kind = job[p].kind /\ job'[p].phase = job[p].phase
           /\ job'[p].want = job[p].want /\ job'[p].pending = job[p].pending
           /\ job'[p].force => job[p].force \/ pc[p] = "retry"
           /\ \A q \in Proc : q # p => job'[q] = job[q]
           /\ View(p)' = View(p) /\ alone' = alone /\ graph' = graph
<1> DEFINE Moves ==
      /\ \E label \in {"rebuild", "retry", Loaded(p)} :
            Goto(p, label) /\ (label = "retry" => job[p].pending = {})
      /\ job'[p].kind = job[p].kind /\ job'[p].phase = job[p].phase
      /\ job'[p].want = job[p].want /\ job'[p].pending = job[p].pending
      /\ job'[p].force => job[p].force \/ pc[p] = "retry"
      /\ \A q \in Proc : q # p => job'[q] = job[q]
<1>1. pc[p] \in {"load", "rebuild", "retry"} /\ alone' = alone /\ graph' = graph
  <2>1. pc[p] \in {"load", "rebuild", "retry"}
    BY DEF Load, RebuildOK, RebuildFails, Rebuilding
  <2>2. alone' = alone /\ graph' = graph
    BY Zenon DEF Load, RebuildOK, RebuildFails
  <2>3. QED
    BY <2>1, <2>2
<1>2. View(p)' = View(p)
  <2>1. CASE UNCHANGED <<rows, writer, txn>>
    BY <2>1 DEF View
  <2>2. CASE CommitOwn(p)
    <3>1. rows' = View(p) /\ (writer = p => writer' = None) /\ (writer # p => UNCHANGED <<rows, writer, txn>>)
      BY <2>2, OwnCommits
    <3>2. p # None
      BY VectorAssumption
    <3>3. QED
      BY <3>1, <3>2 DEF View
  <2>3. QED
    BY <2>1, <2>2, Zenon DEF Load, RebuildOK, RebuildFails
<1>3. job[p] \in Job /\ job \in [Proc -> Job]
  BY DEF Shape, Typed
<1>4. ASSUME NEW label \in {"rebuild", "retry"}, StartRebuild(p, label),
             label = "retry" => job[p].pending = {}
      PROVE  Moves
  <2> DEFINE j == [job[p] EXCEPT !.from = Seen(p)]
  <2>1. Goto(p, label) /\ job' = [job EXCEPT ![p] = j] /\ Seen(p) \in SUBSET Entry
    BY <1>4, StartRebuildIs
  <2>2. /\ j \in Job /\ j.kind = job[p].kind /\ j.phase = job[p].phase /\ j.force = job[p].force
        /\ j.want = job[p].want /\ j.pending = job[p].pending
    BY <1>3, <2>1 DEF Job
  <2> HIDE DEF j
  <2>3. job'[p] = j /\ \A q \in Proc : q # p => job'[q] = job[q]
    BY <2>1, <2>2, JobSet DEF Shape
  <2>4. QED
    BY <1>4, <2>1, <2>2, <2>3
<1>5. ASSUME Load(p)
      PROVE  Moves
  <2>1. CASE Goto(p, Loaded(p)) /\ job' = job
    <3>1. Loaded(p) # "retry"
      BY LoadedIs
    <3>2. QED
      BY <2>1, <3>1
  <2>2. CASE file.is = "bad" /\ StartRebuild(p, "rebuild")
    BY <1>4, <2>2
  <2>3. CASE Retries(p) /\ StartRebuild(p, "retry")
    BY <1>4, <2>3 DEF Retries
  <2>4. QED
    BY <1>5, <2>1, <2>2, <2>3, Zenon DEF Load
<1>6. ASSUME RebuildFails(p)
      PROVE  Moves
  <2>1. CASE Retries(p) /\ StartRebuild(p, "retry")
    BY <1>4, <2>1 DEF Retries
  <2>2. CASE /\ Goto(p, Loaded(p))
             /\ job' = [job EXCEPT ![p].from = {}, ![p].force = @ \/ pc[p] = "retry"]
    <3> DEFINE j == [job[p] EXCEPT !.from = {}, !.force = job[p].force \/ pc[p] = "retry"]
    <3>1. (job[p].force \/ pc[p] = "retry") \in BOOLEAN
      OBVIOUS
    <3>2. /\ j \in Job /\ j.kind = job[p].kind /\ j.phase = job[p].phase
          /\ j.want = job[p].want /\ j.pending = job[p].pending
      BY <1>3, <3>1 DEF Job
    <3>3. j.force = (job[p].force \/ pc[p] = "retry")
      BY <1>3 DEF Job
    <3>4. job' = [job EXCEPT ![p] = j]
      BY <1>3, <2>2 DEF Job
    <3> HIDE DEF j
    <3>5. job'[p] = j /\ \A q \in Proc : q # p => job'[q] = job[q]
      BY <3>2, <3>4, JobSet DEF Shape
    <3>6. Loaded(p) # "retry"
      BY LoadedIs
    <3>7. job'[p].force => job[p].force \/ pc[p] = "retry"
      BY <3>3, <3>5
    <3>8. QED
      BY <2>2, <3>2, <3>5, <3>6, <3>7
  <2>3. QED
    BY <1>6, <2>1, <2>2, Zenon DEF RebuildFails
<1>7. ASSUME RebuildOK(p)
      PROVE  Moves
  <2> DEFINE j == [job[p] EXCEPT !.from = {}]
  <2>1. Goto(p, Loaded(p)) /\ job' = [job EXCEPT ![p] = j]
    BY <1>7, Zenon DEF RebuildOK
  <2>2. /\ j \in Job /\ j.kind = job[p].kind /\ j.phase = job[p].phase /\ j.force = job[p].force
        /\ j.want = job[p].want /\ j.pending = job[p].pending
    BY <1>3 DEF Job
  <2> HIDE DEF j
  <2>3. job'[p] = j /\ \A q \in Proc : q # p => job'[q] = job[q]
    BY <2>1, <2>2, JobSet DEF Shape
  <2>4. Loaded(p) # "retry"
    BY LoadedIs
  <2>5. QED
    BY <2>1, <2>2, <2>3, <2>4
<1> HIDE DEF Moves
<1>8. Moves
  BY <1>5, <1>6, <1>7
<1>9. QED
  BY <1>1, <1>2, <1>8 DEF Moves

LEMMA PhaseMoves ==
    ASSUME Shape, PhaseInv, NEW p \in Proc, NEW label \in Labels, Goto(p, label),
           InPhase(job'[p], label), \A q \in Proc : q # p => job'[q] = job[q],
           \A n \in Doc : graph'[n] \in {Gone, graph[n]}
    PROVE  PhaseInv'
<1>1. pc'[p] = label /\ \A q \in Proc : q # p => pc'[q] = pc[q]
  BY PcSet DEF Shape
<1>2. \A q \in Proc : InPhase(job'[q], pc'[q])
  BY <1>1 DEF PhaseInv
<1>3. \A n \in Doc : graph'[n] = Gone
  BY DEF PhaseInv
<1>4. PhaseInv' <=> (\A n \in Doc : graph'[n] = Gone) /\ \A q \in Proc : InPhase(job'[q], pc'[q])
  BY DEF PhaseInv, InPhase
<1>5. QED
  BY <1>2, <1>3, <1>4

LEMMA PhaseBegins ==
    ASSUME Shape, PhaseInv, NEW p \in Proc,
           (\E force \in BOOLEAN : Build(p, force)) \/ Update(p) \/ Ingest(p) \/ Search(p)
    PROVE  PhaseInv'
<1>1. PICK kind \in {"build", "update", "ingest", "search"},
           phase \in {"embed", "delete", "read"}, force \in BOOLEAN,
           want \in [Node -> Text \cup {Gone}], drop \in SUBSET Node,
           label \in {"graph", "load", "scan"} :
              /\ Begin(p, kind, phase, force, want, drop)
              /\ Goto(p, label)
              /\ label = "scan" => phase = "embed" /\ kind = "ingest"
              /\ label = "graph" => kind # "ingest"
              /\ kind = "ingest" => \A n \in Node : want[n] # Gone => n \in Doc
              /\ kind # "ingest" => \A n \in Doc : want[n] \in {Gone, graph[n]}
  BY BeginCases
<1>2. graph' = graph
  BY BeginCases
<1>3. /\ job'[p].kind = kind /\ job'[p].phase = phase /\ job'[p].want = want
      /\ job'[p].pending = {} /\ \A q \in Proc : q # p => job'[q] = job[q]
  BY <1>1, BeginIs DEF Shape
<1>4. ASSUME NEW n \in Node, want[n] # Gone
      PROVE  n \in Scope(kind)
  <2>1. CASE kind = "ingest"
    BY <1>1, <1>4, <2>1 DEF Scope
  <2>2. CASE kind # "ingest"
    <3>1. n \notin Doc
      BY <1>1, <1>4, <2>2 DEF PhaseInv
    <3>2. QED
      BY <2>2, <3>1 DEF Scope
  <2>3. QED
    BY <2>1, <2>2
<1>5. InPhase(job'[p], label)
  BY <1>1, <1>3, <1>4 DEF InPhase
<1>6. label \in Labels
  BY DEF Labels
<1>7. QED
  BY <1>1, <1>2, <1>3, <1>5, <1>6, PhaseMoves

LEMMA PhaseGraph ==
    ASSUME Shape, PhaseInv, NEW p \in Proc, WriteGraph(p) \/ LoadGraph(p)
    PROVE  PhaseInv' /\ job'[p].pending = {}
<1>1. /\ pc[p] \in {"graph", "nodes"} /\ InPhase(job[p], pc[p])
      /\ job[p].pending = {} /\ job[p].kind # "ingest"
  BY GraphIs DEF PhaseInv, InPhase
<1>2. /\ job'[p].pending = {} /\ job'[p].kind # "ingest" /\ job'[p].kind = job[p].kind
      /\ \A q \in Proc : q # p => job'[q] = job[q]
  BY <1>1, GraphIs
<1>3. Scope(job[p].kind) = Node \ Doc /\ Doc \subseteq Node
  BY <1>1, VectorAssumption DEF Scope
<1>4. PICK label \in {"load", "nodes"} : Goto(p, label)
  BY GraphIs
<1>5. CASE pc[p] = "graph" /\ graph' = job[p].want /\ job' = job
  <2>1. \A n \in Doc : graph'[n] = Gone
    BY <1>1, <1>3, <1>5 DEF InPhase
  <2>2. InPhase(job'[p], label)
    BY <1>1, <1>2, <1>5 DEF InPhase
  <2>3. QED
    BY <1>2, <1>4, <2>1, <2>2, PhaseMoves DEF Labels
<1>6. CASE pc[p] = "nodes" /\ graph' = graph /\ job'[p].want = graph
  <2>1. \A n \in Node : job'[p].want[n] # Gone => n \in Scope(job'[p].kind)
    BY <1>2, <1>3, <1>6 DEF PhaseInv
  <2>2. InPhase(job'[p], label)
    BY <1>2, <2>1 DEF InPhase
  <2>3. QED
    BY <1>2, <1>4, <1>6, <2>2, PhaseMoves DEF Labels
<1>7. QED
  BY <1>5, <1>6, GraphIs

LEMMA PhaseRebuilds ==
    ASSUME Shape, PhaseInv, NEW p \in Proc, Load(p) \/ RebuildOK(p) \/ RebuildFails(p)
    PROVE  PhaseInv'
<1>1. PICK label \in {"rebuild", "retry", Loaded(p)} :
              Goto(p, label) /\ (label = "retry" => job[p].pending = {})
  BY RebuildMoves
<1>2. /\ pc[p] \in {"load", "rebuild", "retry"}
      /\ job'[p].kind = job[p].kind /\ job'[p].phase = job[p].phase
      /\ job'[p].want = job[p].want /\ job'[p].pending = job[p].pending
      /\ job'[p].force => job[p].force \/ pc[p] = "retry"
      /\ \A q \in Proc : q # p => job'[q] = job[q]
      /\ graph' = graph
  BY RebuildMoves
<1>3. InPhase(job[p], pc[p])
  BY DEF PhaseInv
<1>4. /\ label \in Labels /\ label \in {"rebuild", "retry", "delete", "answer", "scan", "write"}
      /\ label = "delete" => job[p].phase = "delete"
      /\ job[p].phase = "delete" => label # "scan"
      /\ label = "write" => job[p].pending # {}
  BY LoadedIs DEF Labels
<1>5. InPhase(job'[p], label)
  BY <1>1, <1>2, <1>3, <1>4 DEF InPhase
<1>6. QED
  BY <1>1, <1>2, <1>4, <1>5, PhaseMoves

LEMMA PhaseScan ==
    ASSUME Shape, PhaseInv, NEW p \in Proc, Scan(p)
    PROVE  /\ PhaseInv'
           /\ pc[p] = "scan" /\ pc'[p] \in {"load", "persist"} /\ job'[p].phase = job[p].phase
           /\ job'[p].pending = PlanFor(p, TodoNodes(p))
           /\ pc'[p] = "persist" => job'[p].pending = {}
<1> DEFINE plan == PlanFor(p, TodoNodes(p))
           j == [job[p] EXCEPT !.pending = plan]
           label == IF TodoNodes(p) = {} THEN "persist" ELSE "load"
<1>1. /\ plan \subseteq Todo /\ (TodoNodes(p) = {} => plan = {})
      /\ \A n \in TodoNodes(p) : \E e \in plan : e.node = n
  BY ScanIs, PlanIs
<1>2. job[p] \in Job /\ pc[p] = "scan"
  BY Zenon DEF Shape, Typed, Scan
<1>3. job' = [job EXCEPT ![p] = j] /\ Goto(p, label) /\ graph' = graph
  BY ScanIs
<1> HIDE DEF plan
<1>4. /\ j \in Job /\ j.pending = plan /\ j.phase = job[p].phase /\ j.force = job[p].force
      /\ j.want = job[p].want /\ j.kind = job[p].kind
  BY <1>1, <1>2 DEF Job
<1> HIDE DEF j
<1>5. job'[p] = j /\ \A q \in Proc : q # p => job'[q] = job[q]
  BY <1>3, <1>4, JobSet DEF Shape
<1>6. InPhase(job[p], "scan")
  BY <1>2 DEF PhaseInv
<1>7. job[p].force =>
         \A n \in Node : job[p].want[n] # Gone => n \in TodoNodes(p)
  BY <1>6 DEF InPhase, TodoNodes
<1>8. InPhase(j, label)
  BY <1>1, <1>4, <1>6, <1>7 DEF InPhase
<1>9. label \in Labels /\ label \in {"load", "persist"} /\ (label = "persist" => plan = {})
  BY <1>1 DEF Labels
<1>10. pc'[p] = label
  BY <1>3, <1>9, PcSet DEF Shape
<1> HIDE DEF label
<1>11. PhaseInv'
  BY <1>3, <1>5, <1>8, <1>9, PhaseMoves
<1>12. QED
  BY <1>2, <1>4, <1>5, <1>9, <1>10, <1>11 DEF plan

\* A run that writes, or that persists, keeps its plan.
LEMMA PhaseWrites ==
    ASSUME Shape, PhaseInv, NEW p \in Proc, NEW label \in {"persist", "commit"}, Goto(p, label),
           UNCHANGED <<graph, job>>,
           pc[p] = "delete" \/ (pc[p] = "write" /\ job[p].pending # {}) \/ pc[p] = "persist"
    PROVE  PhaseInv'
<1>1. InPhase(job[p], pc[p])
  BY DEF PhaseInv
<1>2. InPhase(job'[p], label) /\ label \in Labels
  BY <1>1 DEF InPhase, Labels
<1>3. QED
  BY <1>2, PhaseMoves

LEMMA PhaseIdle ==
    ASSUME Shape, PhaseInv, NEW p \in Proc, Goto(p, "idle"), job'[p] = NoJob,
           \A q \in Proc : q # p => job'[q] = job[q], graph' = graph
    PROVE  PhaseInv'
<1>1. InPhase(NoJob, "idle") /\ "idle" \in Labels
  BY DEF InPhase, NoJob, NoText, Labels
<1>2. QED
  BY <1>1, PhaseMoves

LEMMA PhaseLeaves ==
    ASSUME Shape, PhaseInv, NEW p \in Proc, NEW index, Reads(index), Leave(p, index), graph' = graph
    PROVE  PhaseInv'
BY LeaveMoves, PhaseIdle

LEMMA PhasePurge ==
    ASSUME Shape, PhaseInv, NEW p \in Proc, NEW prune \in BOOLEAN, Purge(p, prune)
    PROVE  /\ PhaseInv' /\ pc[p] = "purge"
           /\ \/ Exit(p)
              \/ Goto(p, "load") /\ job'[p].phase = "delete" /\ UNCHANGED alone
<1>1. pc[p] = "purge" /\ graph' = graph
  BY PurgeIs
<1>2. CASE Exit(p)
  <2>1. Leave(p, mem[p])
    BY <1>2, Zenon DEF Exit
  <2>2. QED
    BY <1>1, <1>2, <2>1, OwnReads, PhaseLeaves
<1>3. CASE /\ job' = [job EXCEPT ![p] = [job[p] EXCEPT !.phase = "delete", !.drop = Orphans(p)]]
           /\ Goto(p, "load") /\ UNCHANGED <<mem, behind, alone>>
  <2> DEFINE j == [job[p] EXCEPT !.phase = "delete", !.drop = Orphans(p)]
  <2>1. job[p] \in Job /\ Orphans(p) \in SUBSET Node
    BY PurgeIs DEF Shape, Typed
  <2>2. /\ j \in Job /\ j.pending = job[p].pending /\ j.phase = "delete"
        /\ j.want = job[p].want /\ j.kind = job[p].kind
    BY <2>1 DEF Job
  <2>3. job' = [job EXCEPT ![p] = j]
    BY <1>3
  <2> HIDE DEF j
  <2>4. job'[p] = j /\ \A q \in Proc : q # p => job'[q] = job[q]
    BY <2>2, <2>3, JobSet DEF Shape
  <2>5. InPhase(job[p], "purge")
    BY <1>1 DEF PhaseInv
  <2>6. InPhase(j, "load") /\ "load" \in Labels
    BY <2>2, <2>5 DEF InPhase, Labels
  <2>7. PhaseInv'
    BY <1>1, <1>3, <2>4, <2>6, PhaseMoves
  <2>8. QED
    BY <1>1, <1>3, <2>2, <2>4, <2>7
<1>4. QED
  BY <1>2, <1>3, PurgeIs

LEMMA PhaseProceed ==
    ASSUME Shape, PhaseInv, NEW p \in Proc, Proceed(p), graph' = graph
    PROVE  /\ PhaseInv'
           /\ \/ Leave(p, mem[p])
              \/ \E label \in {"purge", "nodes"} :
                    Goto(p, label) /\ job'[p].pending = {} /\ UNCHANGED alone
<1>1. job[p] \in Job /\ InPhase(job[p], pc[p])
  BY DEF Shape, Typed, PhaseInv
<1>2. CASE /\ Goto(p, "purge") /\ job' = [job EXCEPT ![p] = [job[p] EXCEPT !.pending = {}]]
           /\ UNCHANGED <<mem, alone>>
  <2> DEFINE j == [job[p] EXCEPT !.pending = {}]
  <2>1. /\ j \in Job /\ j.pending = {} /\ j.want = job[p].want /\ j.kind = job[p].kind
        /\ job' = [job EXCEPT ![p] = j]
    BY <1>1, <1>2 DEF Job
  <2> HIDE DEF j
  <2>2. job'[p] = j /\ \A q \in Proc : q # p => job'[q] = job[q]
    BY <2>1, JobSet DEF Shape
  <2>3. InPhase(j, "purge") /\ "purge" \in Labels
    BY <1>1, <2>1 DEF InPhase, Labels
  <2>4. PhaseInv'
    BY <1>2, <2>2, <2>3, PhaseMoves
  <2>5. QED
    BY <1>2, <2>1, <2>2, <2>4
<1>3. CASE /\ job[p].kind = "update" /\ job[p].phase = "delete" /\ Goto(p, "nodes")
           /\ job' = [job EXCEPT ![p] = [job[p] EXCEPT !.phase = "embed", !.drop = {}]]
           /\ UNCHANGED <<mem, alone>>
  <2> DEFINE j == [job[p] EXCEPT !.phase = "embed", !.drop = {}]
  <2>1. /\ j \in Job /\ j.pending = job[p].pending /\ j.phase = "embed"
        /\ j.want = job[p].want /\ j.kind = job[p].kind
        /\ job' = [job EXCEPT ![p] = j]
    BY <1>1, <1>3 DEF Job
  <2> HIDE DEF j
  <2>2. job'[p] = j /\ \A q \in Proc : q # p => job'[q] = job[q]
    BY <2>1, JobSet DEF Shape
  <2>3. InPhase(j, "nodes") /\ "nodes" \in Labels /\ j.pending = {}
    BY <1>1, <1>3, <2>1 DEF InPhase, Labels
  <2>4. PhaseInv'
    BY <1>3, <2>2, <2>3, PhaseMoves
  <2>5. QED
    BY <1>3, <2>2, <2>3, <2>4
<1>4. CASE Leave(p, mem[p])
  BY <1>4, OwnReads, PhaseLeaves
<1>5. QED
  BY <1>2, <1>3, <1>4, ProceedIs

\* A step that the process that is alone, if any, takes.
LEMMA AloneMoves ==
    ASSUME Shape, AloneInv, NEW p \in Proc, NEW label \in Labels \ {"idle"}, Goto(p, label),
           pc[p] # "idle", alone' = alone,
           alone = p /\ job'[p].phase = "embed" => \A e \in job'[p].pending : Progress(p, e)'
    PROVE  AloneInv'
<1>1. pc'[p] = label /\ \A q \in Proc : q # p => pc'[q] = pc[q]
  BY PcSet DEF Shape
<1>2. SUFFICES ASSUME alone' # None PROVE Alone(alone)'
  BY DEF AloneInv
<1>3. alone \in Proc /\ Alone(alone)
  BY <1>2 DEF Shape, Typed, AloneInv
<1>4. alone = p
  BY <1>3 DEF Alone
<1>5. QED
  BY <1>1, <1>3, <1>4 DEF Alone

LEMMA AloneLeaves ==
    ASSUME Shape, AloneInv, NEW p \in Proc, NEW index, Leave(p, index), pc[p] # "idle"
    PROVE  AloneInv'
<1>1. alone' = IF alone = p THEN None ELSE alone
  BY Zenon DEF Leave
<1>2. alone' = None
  BY <1>1 DEF AloneInv, Alone, Shape, Typed
<1>3. QED
  BY <1>2 DEF AloneInv

LEMMA AloneBegins ==
    ASSUME Shape, AloneInv, NEW p \in Proc,
           (\E force \in BOOLEAN : Build(p, force)) \/ Update(p) \/ Ingest(p) \/ Search(p)
    PROVE  AloneInv'
<1>1. PICK kind \in {"build", "update", "ingest", "search"},
           phase \in {"embed", "delete", "read"}, force \in BOOLEAN,
           want \in [Node -> Text \cup {Gone}], drop \in SUBSET Node,
           label \in {"graph", "load", "scan"} :
              Begin(p, kind, phase, force, want, drop) /\ Goto(p, label)
  BY BeginCases
<1>2. /\ job'[p].pending = {} /\ alone' \in {p, None}
      /\ alone' = p => \A q \in Proc : pc[q] = "idle"
  BY <1>1, BeginIs DEF Shape
<1>3. label \in Labels /\ label # "idle"
  BY DEF Labels
<1>4. pc'[p] = label /\ \A q \in Proc : q # p => pc'[q] = pc[q]
  BY <1>1, <1>3, PcSet DEF Shape
<1>5. QED
  BY <1>2, <1>3, <1>4 DEF AloneInv, Alone

LEMMA AloneGraph ==
    ASSUME Shape, PhaseInv, AloneInv, NEW p \in Proc, WriteGraph(p) \/ LoadGraph(p)
    PROVE  PhaseInv' /\ AloneInv'
<1>1. PhaseInv' /\ job'[p].pending = {}
  BY PhaseGraph
<1>2. PICK label \in {"load", "nodes"} : Goto(p, label)
  BY GraphIs
<1>3. pc[p] # "idle" /\ alone' = alone /\ label \in Labels \ {"idle"}
  BY GraphIs DEF Labels
<1>4. QED
  BY <1>1, <1>2, <1>3, AloneMoves

LEMMA AloneRebuilds ==
    ASSUME Shape, PhaseInv, AloneInv, NEW p \in Proc, Load(p) \/ RebuildOK(p) \/ RebuildFails(p)
    PROVE  AloneInv'
<1>1. PICK label \in {"rebuild", "retry", Loaded(p)} :
              Goto(p, label) /\ (label = "retry" => job[p].pending = {})
  BY RebuildMoves
<1>2. /\ pc[p] \in {"load", "rebuild", "retry"}
      /\ job'[p].phase = job[p].phase /\ job'[p].pending = job[p].pending
      /\ View(p)' = View(p) /\ alone' = alone
  BY RebuildMoves
<1>3. label \in Labels \ {"idle"} /\ label \in {"rebuild", "retry", "delete", "answer", "scan", "write"}
  BY LoadedIs DEF Labels
<1>4. pc'[p] = label
  BY <1>1, <1>3, PcSet DEF Shape
<1>5. pc[p] = "retry" => job[p].pending = {}
  BY DEF PhaseInv, InPhase
<1>6. ASSUME alone = p, job'[p].phase = "embed", NEW e \in job'[p].pending
      PROVE  Progress(p, e)'
  <2>1. Progress(p, e) /\ pc[p] \in {"load", "rebuild"} /\ e \in job[p].pending
    <3>1. alone # None
      BY <1>6, VectorAssumption
    <3>2. Alone(p)
      BY <1>6, <3>1 DEF AloneInv
    <3>3. QED
      BY <1>2, <1>5, <1>6, <3>2 DEF Alone
  <2>2. View(p)[e.node] = NoRow \/ View(p)[e.node].uid = e.uid
    BY <2>1 DEF Progress
  <2>3. View(p)'[e.node] = NoRow \/ View(p)'[e.node].uid = e.uid
    BY <1>2, <2>2
  <2>4. QED
    BY <1>3, <1>4, <2>3 DEF Progress
<1>7. pc[p] # "idle"
  BY <1>2
<1>8. QED
  BY <1>1, <1>2, <1>3, <1>6, <1>7, AloneMoves

LEMMA AloneScan ==
    ASSUME Shape, PhaseInv, AloneInv, NEW p \in Proc, Scan(p)
    PROVE  AloneInv'
<1>1. /\ pc[p] = "scan" /\ pc'[p] \in {"load", "persist"}
      /\ job'[p].pending = PlanFor(p, TodoNodes(p))
      /\ pc'[p] = "persist" => job'[p].pending = {}
  BY PhaseScan
<1>2. TodoNodes(p) \in SUBSET Node /\ UNCHANGED <<rows, writer, txn, alone>>
  BY ScanIs
<1>3. \E label \in Labels \ {"idle"} : Goto(p, label)
  BY ScanIs DEF Labels
<1>4. ASSUME NEW e \in job'[p].pending
      PROVE  Progress(p, e)'
  <2>1. View(p)[e.node] = NoRow \/ View(p)[e.node].uid = e.uid
    BY <1>1, <1>2, PlanIs
  <2>2. View(p)' = View(p)
    BY <1>2 DEF View
  <2>3. View(p)'[e.node] = NoRow \/ View(p)'[e.node].uid = e.uid
    BY <2>1, <2>2
  <2>4. pc'[p] = "load"
    BY <1>1
  <2>5. QED
    BY <2>3, <2>4 DEF Progress
<1>5. QED
  BY <1>1, <1>2, <1>3, <1>4, AloneMoves

LEMMA AloneWrite ==
    ASSUME Shape, PhaseInv, AloneInv, NEW p \in Proc, Write(p)
    PROVE  PhaseInv' /\ AloneInv'
<1> DEFINE some == job[p].pending
           index == Indexed(p, some)
           up == Upserted(p, some)
<1>1. /\ pc[p] = "write" /\ writer' = p /\ txn' = up
      /\ mem' = [mem EXCEPT ![p] = index] /\ Goto(p, "persist")
      /\ UNCHANGED <<graph, job, alone>>
  BY Zenon DEF Write
<1>2. /\ index \in Index /\ index.is = "ok"
      /\ \A e \in some : [uid |-> e.uid, text |-> job[p].want[e.node]] \in index.of
  BY IndexedIs
<1>3. \A e \in some :
         up[e.node] = [uid |-> IF View(p)[e.node] = NoRow THEN e.uid ELSE View(p)[e.node].uid,
                       text |-> job[p].want[e.node]]
  BY UpsertedIs
<1>4. mem'[p] = index
  BY <1>1, <1>2, MemSet DEF Shape
<1>5. "persist" \in Labels \ {"idle"}
  BY DEF Labels
<1>6. pc'[p] = "persist"
  BY <1>1, <1>5, PcSet DEF Shape
<1> HIDE DEF index, up
<1>7. View(p)' = up
  BY <1>1 DEF View
<1>8. ASSUME alone = p, job'[p].phase = "embed", NEW e \in job'[p].pending
      PROVE  Progress(p, e)'
  <2>1. Progress(p, e) /\ e \in some
    BY <1>1, <1>8, VectorAssumption DEF AloneInv, Alone
  <2>2. View(p)[e.node] = NoRow \/ View(p)[e.node].uid = e.uid
    BY <1>1, <2>1 DEF Progress
  <2>3. (IF View(p)[e.node] = NoRow THEN e.uid ELSE View(p)[e.node].uid) = e.uid
    BY <2>2
  <2>4. up[e.node] = [uid |-> e.uid, text |-> job[p].want[e.node]]
    BY <1>3, <2>1, <2>3
  <2>5. up[e.node] \in index.of
    BY <1>2, <2>1, <2>4
  <2>6. View(p)'[e.node] = up[e.node] /\ job' = job
    BY <1>1, <1>7
  <2>7. QED
    BY <1>2, <1>4, <1>6, <2>4, <2>5, <2>6 DEF Progress
<1>9. AloneInv'
  BY <1>1, <1>5, <1>8, AloneMoves
<1>10. job[p].pending # {}
  BY <1>1 DEF PhaseInv, InPhase
<1>11. QED
  BY <1>1, <1>9, <1>10, PhaseWrites

LEMMA AlonePersist ==
    ASSUME Shape, PhaseInv, AloneInv, NEW p \in Proc, Persist(p)
    PROVE  PhaseInv' /\ AloneInv'
<1>1. /\ pc[p] = "persist" /\ Goto(p, "commit")
      /\ UNCHANGED <<graph, rows, writer, txn, mem, job, alone>>
      /\ \/ mem[p].is = "ok" /\ mem[p] \in Index /\ WriteFile(p, mem[p])
         \/ mem[p] = NoIndex
  BY PersistIs
<1>2. "commit" \in Labels \ {"idle"}
  BY DEF Labels
<1>3. pc'[p] = "commit"
  BY <1>1, <1>2, PcSet DEF Shape
<1>4. View(p)' = View(p)
  BY <1>1 DEF View
<1>5. ASSUME alone = p, job'[p].phase = "embed", NEW e \in job'[p].pending
      PROVE  Progress(p, e)'
  <2>1. Progress(p, e)
    BY <1>1, <1>5, VectorAssumption DEF AloneInv, Alone
  <2>2. /\ View(p)[e.node] = [uid |-> e.uid, text |-> job[p].want[e.node]]
        /\ mem[p].is = "ok" /\ View(p)[e.node] \in mem[p].of
    BY <1>1, <2>1 DEF Progress
  <2>3. file' = mem[p]
    BY <1>1, <2>2, FileWritten DEF NoIndex
  <2>4. View(p)'[e.node] = View(p)[e.node] /\ job' = job
    BY <1>1, <1>4
  <2>5. QED
    BY <1>3, <2>2, <2>3, <2>4 DEF Progress
<1>6. AloneInv'
  BY <1>1, <1>2, <1>5, AloneMoves
<1>7. QED
  BY <1>1, <1>6, PhaseWrites

LEMMA AlonePurge ==
    ASSUME Shape, PhaseInv, AloneInv, NEW p \in Proc, NEW prune \in BOOLEAN, Purge(p, prune)
    PROVE  AloneInv'
<1>1. /\ pc[p] = "purge"
      /\ \/ Exit(p)
         \/ Goto(p, "load") /\ job'[p].phase = "delete" /\ UNCHANGED alone
  BY PhasePurge
<1>2. Exit(p) => Leave(p, mem[p])
  BY Zenon DEF Exit
<1>3. "load" \in Labels \ {"idle"}
  BY DEF Labels
<1>4. QED
  BY <1>1, <1>2, <1>3, AloneMoves, AloneLeaves

LEMMA AloneProceed ==
    ASSUME Shape, PhaseInv, AloneInv, NEW p \in Proc, Proceed(p), graph' = graph, pc[p] # "idle"
    PROVE  PhaseInv' /\ AloneInv'
<1>1. /\ PhaseInv'
      /\ \/ Leave(p, mem[p])
         \/ \E label \in {"purge", "nodes"} :
               Goto(p, label) /\ job'[p].pending = {} /\ UNCHANGED alone
  BY PhaseProceed
<1>2. "nodes" \in Labels \ {"idle"} /\ "purge" \in Labels \ {"idle"}
  BY DEF Labels
<1>3. QED
  BY <1>1, <1>2, AloneMoves, AloneLeaves

LEMMA AloneDelete ==
    ASSUME Shape, PhaseInv, AloneInv, NEW p \in Proc, Delete(p)
    PROVE  PhaseInv' /\ AloneInv'
<1>1. pc[p] = "delete" /\ graph' = graph
  BY DeleteIs
<1>2. CASE Proceed(p)
  BY <1>1, <1>2, AloneProceed
<1>3. CASE Goto(p, "persist") /\ UNCHANGED <<job, behind, alone>>
  <2>1. job[p].pending = {} /\ "persist" \in Labels \ {"idle"}
    BY <1>1 DEF PhaseInv, InPhase, Labels
  <2>2. AloneInv'
    BY <1>1, <1>3, <2>1, AloneMoves
  <2>3. QED
    BY <1>1, <1>3, <2>2, PhaseWrites
<1>4. QED
  BY <1>2, <1>3, DeleteIs

\* What the process that is alone sees is not another's to change.
LEMMA AloneKill ==
    ASSUME Shape, PhaseInv, AloneInv, NEW p \in Proc, Kill(p)
    PROVE  PhaseInv' /\ AloneInv'
<1>1. /\ Goto(p, "idle") /\ job' = [job EXCEPT ![p] = NoJob]
      /\ mem' = [mem EXCEPT ![p] = NoIndex]
      /\ alone' = IF alone = p THEN None ELSE alone
      /\ file' \in {file, Unreadable} /\ UNCHANGED <<graph, rows>>
      /\ \/ writer = p /\ writer' = None
         \/ writer # p /\ UNCHANGED <<writer, txn>>
  BY KillIs
<1>2. NoJob \in Job /\ NoIndex \in Index /\ "idle" \in Labels
  BY Initials DEF Labels
<1>3. /\ job'[p] = NoJob /\ \A q \in Proc : q # p => job'[q] = job[q] /\ mem'[q] = mem[q]
      /\ pc'[p] = "idle" /\ \A q \in Proc : q # p => pc'[q] = pc[q]
  BY <1>1, <1>2, JobSet, MemSet, PcSet DEF Shape
<1>4. ASSUME alone' # None
      PROVE  Alone(alone)'
  <2>1. alone \in Proc /\ alone # p /\ alone' = alone /\ Alone(alone)
    BY <1>1, <1>4 DEF Shape, Typed, AloneInv
  <2>2. View(alone)' = View(alone)
    BY <1>1, <2>1, VectorAssumption DEF View
  <2>3. /\ job'[alone] = job[alone] /\ pc'[alone] = pc[alone] /\ mem'[alone] = mem[alone]
        /\ file'.is = "ok" => file' = file
    BY <1>1, <1>3, <2>1 DEF Unreadable
  <2>4. ASSUME NEW e \in job[alone].pending, Progress(alone, e)
        PROVE  Progress(alone, e)'
    <3>1. View(alone)'[e.node] = View(alone)[e.node]
      BY <2>2
    <3>2. QED
      BY <2>1, <2>3, <2>4, <3>1 DEF Progress
  <2>5. QED
    BY <1>3, <2>1, <2>3, <2>4 DEF Alone
<1>5. AloneInv'
  BY <1>4 DEF AloneInv
<1>6. PhaseInv'
  BY <1>1, <1>3, PhaseIdle
<1>7. QED
  BY <1>5, <1>6

LEMMA RepairStep ==
    ASSUME Shape, RepairInv, [Next]_vars
    PROVE  RepairInv'
<1>1. PhaseInv /\ AloneInv
  BY DEF RepairInv
<1>2. CASE UNCHANGED vars \/ Edit \/ Upgrade
  <2>1. /\ UNCHANGED <<graph, rows, writer, txn, mem, pc, job, alone>>
        /\ file' = file \/ file' = Unreadable
    BY <1>2, EditIs, UpgradeIs, Zenon DEF vars
  <2>2. PhaseInv' = PhaseInv
    BY <2>1 DEF PhaseInv, InPhase
  <2>3. file'.is = "ok" => file' = file
    BY <2>1 DEF Unreadable
  <2>4. ASSUME NEW p \in Proc, NEW e, Progress(p, e)
        PROVE  Progress(p, e)'
    <3>1. View(p)' = View(p)
      BY <2>1 DEF View
    <3>2. View(p)'[e.node] = View(p)[e.node]
      BY <3>1
    <3>3. QED
      BY <2>1, <2>3, <2>4, <3>2 DEF Progress
  <2>5. AloneInv'
    BY <1>1, <2>1, <2>4 DEF AloneInv, Alone, Shape, Typed
  <2>6. QED
    BY <1>1, <2>2, <2>5 DEF RepairInv
<1>3. ASSUME NEW p \in Proc,
             EmbedFails(p) \/ Answer(p) \/ WriteFails(p) \/ Commit(p)
               \/ PersistFails(p) \/ RebuildUnsaved(p)
      PROVE  PhaseInv' /\ AloneInv'
  <2>1. pc[p] # "idle" /\ graph' = graph
    BY <1>3 DEF EmbedFails, Answer, WriteFails, Commit, PersistFails, RebuildUnsaved, Rebuilding
  <2>2. CASE Commit(p)
    BY <1>1, <2>1, <2>2, AloneProceed DEF Commit
  <2>3. CASE EmbedFails(p) \/ Answer(p)
    <3>1. Leave(p, mem[p])
      BY <2>3, Zenon DEF EmbedFails, Answer, Exit
    <3>2. QED
      BY <1>1, <2>1, <3>1, OwnReads, PhaseLeaves, AloneLeaves
  <2>4. CASE WriteFails(p)
    <3>1. PICK index, table : Reads(index) /\ Abort(p, index, table)
      BY <2>4, FailsAborts
    <3>2. QED
      BY <1>1, <2>1, <3>1, PhaseLeaves, AloneLeaves DEF Abort
  <2>5. CASE PersistFails(p) \/ RebuildUnsaved(p)
    <3>1. \E index : Reads(index) /\ Leave(p, index)
      BY <2>5, PersistFailsIs, UnsavedIs
    <3>2. QED
      BY <1>1, <2>1, <3>1, PhaseLeaves, AloneLeaves
  <2>6. QED
    BY <1>3, <2>2, <2>3, <2>4, <2>5
<1>4. ASSUME NEW p \in Proc, Scan(p)
      PROVE  PhaseInv' /\ AloneInv'
  BY <1>1, <1>4, PhaseScan, AloneScan
<1>5. ASSUME NEW p \in Proc, NEW prune \in BOOLEAN, Purge(p, prune)
      PROVE  PhaseInv' /\ AloneInv'
  BY <1>1, <1>5, PhasePurge, AlonePurge
<1>6. ASSUME NEW p \in Proc, Load(p) \/ RebuildOK(p) \/ RebuildFails(p)
      PROVE  PhaseInv' /\ AloneInv'
  BY <1>1, <1>6, PhaseRebuilds, AloneRebuilds
<1>7. ASSUME NEW p \in Proc,
             (\E force \in BOOLEAN : Build(p, force)) \/ Update(p) \/ Ingest(p) \/ Search(p)
      PROVE  PhaseInv' /\ AloneInv'
  BY <1>1, <1>7, PhaseBegins, AloneBegins
<1>8. PhaseInv' /\ AloneInv' => RepairInv'
  BY DEF RepairInv
<1>9. QED
  BY <1>1, <1>2, <1>3, <1>4, <1>5, <1>6, <1>7, <1>8, StepCases, AloneWrite, AlonePersist,
     AloneDelete, AloneKill, AloneGraph

LEMMA RepairAlways == Spec => [](Shape /\ RepairInv)
<1>1. Init => RepairInv
  <2>1. ASSUME Init PROVE PhaseInv
    BY <2>1, VectorAssumption DEF Init, PhaseInv, InPhase, NoJob, NoText
  <2>2. ASSUME Init PROVE AloneInv
    BY <2>2 DEF Init, AloneInv
  <2>3. QED
    BY <2>1, <2>2 DEF RepairInv
<1>2. Init => Shape /\ RepairInv
  BY <1>1, ShapeInit
<1>3. Shape /\ RepairInv /\ [Next]_vars => (Shape /\ RepairInv)'
  BY ShapeStep, RepairStep
<1>4. QED
  BY <1>2, <1>3, PTL DEF Spec

\* What stays unsearchable does so until the next forced re-embed
\* (turbovec_backend.py:538): whatever was killed, raced or lost before, a forced
\* build that no other run overlaps commits a row of every node of its graph, with
\* the node's text and a vector in the file it wrote.
THEOREM ForcedBuilds == Spec => ForcedBuildRepairs
<1> DEFINE Repaired ==
      \A p \in Proc :
          /\ Commit(p) /\ job[p].force /\ job[p].phase = "embed"
          /\ p = alone /\ file.is = "ok"
          => \A n \in Node : job[p].want[n] # Gone =>
                /\ rows'[n].text = job[p].want[n]
                /\ rows'[n] \in file.of
<1>1. Shape /\ RepairInv => Repaired
  <2>1. SUFFICES ASSUME Shape, RepairInv, NEW p \in Proc,
                        Commit(p), job[p].force, job[p].phase = "embed",
                        p = alone, file.is = "ok",
                        NEW n \in Node, job[p].want[n] # Gone
                 PROVE  rows'[n].text = job[p].want[n] /\ rows'[n] \in file.of
    OBVIOUS
  <2>2. pc[p] = "commit" /\ CommitOwn(p)
    BY <2>1, Zenon DEF Commit
  <2>3. PICK e \in job[p].pending : e.node = n
    BY <2>1, <2>2 DEF RepairInv, PhaseInv, InPhase
  <2>4. Progress(p, e)
    BY <2>1, VectorAssumption DEF RepairInv, AloneInv, Alone
  <2>5. View(p)[n] = [uid |-> e.uid, text |-> job[p].want[n]] /\ View(p)[n] \in file.of
    BY <2>1, <2>2, <2>3, <2>4 DEF Progress
  <2>6. rows' = View(p)
    BY <2>1, <2>2, OwnCommits
  <2>7. QED
    BY <2>5, <2>6
<1>2. [](Shape /\ RepairInv) => [][Repaired]_vars
  BY <1>1, PTL
<1>3. ForcedBuildRepairs <=> [][Repaired]_vars
  BY DEF ForcedBuildRepairs
<1>4. QED
  BY <1>2, <1>3, RepairAlways, PTL
================================================================================

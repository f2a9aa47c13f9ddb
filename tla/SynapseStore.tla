---------------------------- MODULE SynapseStore ----------------------------
(***************************************************************************)
(* The synapse store: weighted edges between nodes, each in a namespace,   *)
(* in a SQLite database that hooks, builds, servers and commands open at   *)
(* once.                                                                   *)
(*                                                                         *)
(* Every write is one transaction.  What a process read before it, the     *)
(* time, the list of namespaces, the format of the tables, may be old by   *)
(* the time the transaction runs: those are the steps here.                *)
(*                                                                         *)
(* A weight is an integer, and what some halvings leave of it a parameter, *)
(* of which all that matters is that it composes as the exponential does;  *)
(* time counts in shared half-lives.                                       *)
(* Left out: transitions and activation counters, which take the same      *)
(* transactions; learned half-lives; normalize_hubs and the staleness pass;*)
(* documents and bundles as seeds; a transaction that fails, which rolls   *)
(* back and leaves no trace.                                               *)
(***************************************************************************)
EXTENDS Naturals, FiniteSets

CONSTANTS Proc, Pair,
          Personal, Shared, Ephemeral, Structural, \* the namespaces with a policy
          Branch,                                  \* branch:* and custom ones
          LearningRate, WeightCap, Penalty, Pruned, LtpThreshold, LtpFloor,
          Remains(_, _), \* what is left of a weight after so many halvings
          MaxOld,   \* bound: edges learned before namespaces
          MaxTime,  \* bound: the clock
          MaxWrites \* bound: writes and checkouts

ASSUME SynapseAssumption ==
    /\ {Personal, Shared, Ephemeral, Structural} \cap Branch = {}
    /\ Personal \notin {Shared, Ephemeral, Structural}
    /\ Shared \notin {Ephemeral, Structural} /\ Ephemeral # Structural
    /\ {LearningRate, WeightCap, Penalty, Pruned, LtpThreshold, LtpFloor} \subseteq Nat \ {0}
    /\ Pruned <= LtpFloor /\ LtpFloor <= WeightCap /\ LearningRate <= WeightCap
    /\ {MaxOld, MaxTime, MaxWrites} \subseteq Nat

\* Four halvings a unit of time are the most that any namespace owes, and decay_node
\* makes one.
SomeHalvings == 0 .. 4 * MaxTime + 1

ASSUME DecayAssumption ==
    \A w \in 0 .. WeightCap, m \in SomeHalvings, n \in SomeHalvings :
        /\ Remains(w, 0) = w /\ Remains(w, m) \in 0 .. w
        /\ Remains(Remains(w, m), n) = Remains(w, m + n)

VARIABLES format,     \* "v0", the tables without namespaces, or "v1"
          rows,       \* the synapses table, by pair and namespace
          last_decay, \* in meta
          table,      \* structural_edges: the pairs of the graph last persisted
          code,       \* the pairs of the graph of the code checked out
          clock, writes,
          job,        \* what each process is doing
          base,       \* history: each row as it was last written, in which namespace,
                      \* and since when it owes decay
          alone,      \* history: the build no other build has overlapped
          built       \* history: the graph of the last build, if it ran alone

vars == <<format, rows, last_decay, table, code, clock, writes, job, base,
          alone, built>>

Namespace == {Personal, Shared, Ephemeral, Structural} \cup Branch
Key == Pair \X Namespace
Row == [weight : 0..WeightCap, count : Nat, last : 0..MaxTime]

Closed == [op |-> "closed"]
Open == [op |-> "open"]

TypeOK ==
    /\ format \in {"v0", "v1"}
    /\ DOMAIN rows \subseteq Key /\ \A k \in DOMAIN rows : rows[k] \in Row
    /\ format = "v0" => \A k \in DOMAIN rows : k[2] = Personal
    /\ last_decay \in 0..clock /\ clock \in 0..MaxTime
    /\ table \subseteq Pair /\ code \subseteq Pair
    /\ \A k \in DOMAIN rows : rows[k].last <= clock
    /\ \A p \in Proc : job[p].op \in {"closed", "migrate", "open", "decay", "reinforce",
                                     "import", "persist", "seed", "replace"}
    /\ DOMAIN rows \subseteq DOMAIN base

Later(s, t) == IF s > t THEN s ELSE t

Since(row, ns, ts) ==
    [weight |-> row.weight, count |-> row.count, ns |-> ns, at |-> Later(row.last, ts)]

\* A store from before namespaces, with what it has learned, or a new one.
Init ==
    /\ format \in {"v0", "v1"}
    /\ \E old \in SUBSET Pair :
        /\ Cardinality(old) <= IF format = "v0" THEN MaxOld ELSE 0
        /\ rows = [k \in old \X {Personal} |-> [weight |-> WeightCap, count |-> 1, last |-> 0]]
    /\ last_decay = 0 /\ table = {} /\ code = {} /\ clock = 0 /\ writes = 0
    /\ job = [p \in Proc |-> Closed]
    /\ base = [k \in DOMAIN rows |-> Since(rows[k], k[2], 0)]
    /\ alone = {} /\ built = {}

--------------------------------------------------------------------------------
\* Mutant of Capped: the upsert adds without MIN.
NotCapped(w) == w

Capped(w) == IF w > WeightCap THEN WeightCap ELSE w
Less(w, v) == IF w > v THEN w - v ELSE 0

\* HALF_LIFE_DAYS, SHARED_HALF_LIFE_DAYS and EPHEMERAL_HALF_LIFE_DAYS, as halvings
\* in a unit of time.
Halvings(ns) ==
    CASE ns = Structural -> 0
      [] ns = Shared -> 1
      [] ns = Ephemeral -> 4
      [] OTHER -> 2

Ltp(ns, count) == ns # Ephemeral /\ count >= LtpThreshold

Faded(w, ns, count, halvings) ==
    LET left == Remains(w, halvings)
    IN IF Ltp(ns, count) /\ w >= LtpFloor THEN Later(left, LtpFloor) ELSE left

\* Mutant of Owed: decay since the last activation, whatever decayed before.
OwedSinceActivated(row, since, ts) == Less(ts, row.last)

\* The decay a row owes at ts.
Owed(row, since, ts) == Less(ts, Later(row.last, since))

Decayed(k, row, since, ts) ==
    [row EXCEPT !.weight = Faded(@, k[2], row.count, Halvings(k[2]) * Owed(row, since, ts))]

Dead(k, row) == row.weight < Pruned /\ ~Ltp(k[2], row.count)

Only(f, K) == [k \in K |-> f[k]]

\* A write: the rows it leaves, those whose weight it has set, and their history.
Write(left, set) ==
    /\ rows' = left
    /\ base' = [k \in (DOMAIN base \ (DOMAIN rows \ DOMAIN left)) \cup set |->
                  IF k \in set
                  THEN Since(left[k], k[2], last_decay) ELSE base[k]]

With(k, row) == [j \in DOMAIN rows \cup {k} |-> IF j = k THEN row ELSE rows[j]]

Goto(p, j) == job' = [job EXCEPT ![p] = j]

Begin(p, j) == job[p] = Open /\ Goto(p, j)

Counted == writes < MaxWrites /\ writes' = writes + 1

--------------------------------------------------------------------------------
Tick ==
    /\ clock < MaxTime /\ clock' = clock + 1
    /\ UNCHANGED <<format, rows, last_decay, table, code, writes, job, base,
                   alone, built>>

\* The constructor looks at the tables, and migrates them in a transaction.
OpenStore(p) ==
    /\ job[p] = Closed
    /\ Goto(p, IF format = "v0" THEN [op |-> "migrate"] ELSE Open)
    /\ UNCHANGED <<format, rows, last_decay, table, code, clock, writes, base,
                   alone, built>>

\* Every row goes to personal.  Two of one pair break the primary key: all is
\* rolled back and the constructor raises.
Collides == \E j, k \in DOMAIN rows : j # k /\ j[1] = k[1]

Migrate(p) ==
    /\ job[p].op = "migrate"
    /\ LET pairs == {k[1] : k \in DOMAIN rows}
           Of(f, q) == f[CHOOSE k \in DOMAIN rows : k[1] = q]
       IN IF Collides
          THEN Goto(p, Closed) /\ UNCHANGED <<format, rows, base>>
          ELSE /\ Goto(p, Open) /\ format' = "v1"
               /\ rows' = [k \in pairs \X {Personal} |-> Of(rows, k[1])]
               /\ base' = [k \in pairs \X {Personal} |-> Since(Of(rows, k[1]), Of(base, k[1]).ns, last_decay)]
    /\ UNCHANGED <<last_decay, table, code, clock, writes, alone, built>>

--------------------------------------------------------------------------------
StartReinforce(p, k) ==
    /\ k[2] \notin {Shared, Structural}
    /\ Begin(p, [op |-> "reinforce", ts |-> clock, key |-> k])
    /\ Counted
    /\ UNCHANGED <<format, rows, last_decay, table, code, clock, base, alone, built>>

Reinforce(p) ==
    /\ job[p].op = "reinforce"
    /\ LET k == job[p].key
           old == IF k \in DOMAIN rows THEN rows[k] ELSE [weight |-> 0, count |-> 0]
           new == [weight |-> Capped(old.weight + LearningRate), count |-> old.count + 1,
                   last |-> job[p].ts]
       IN Write(With(k, new), {k})
    /\ Goto(p, Open)
    /\ UNCHANGED <<format, last_decay, table, code, clock, writes, alone, built>>

StartImport(p, q, count) ==
    /\ Begin(p, [op |-> "import", ts |-> clock, key |-> <<q, Shared>>, count |-> count])
    /\ Counted
    /\ UNCHANGED <<format, rows, last_decay, table, code, clock, base, alone, built>>

ImportEdges(p) ==
    /\ job[p].op = "import"
    /\ LET k == job[p].key
           old == IF k \in DOMAIN rows THEN rows[k] ELSE [weight |-> 0, count |-> 0]
           new == [weight |-> Later(old.weight, WeightCap), count |-> Later(old.count, job[p].count),
                   last |-> job[p].ts]
       IN Write(With(k, new), {k})
    /\ Goto(p, Open)
    /\ UNCHANGED <<format, last_decay, table, code, clock, writes, alone, built>>

Penalize(p, k) ==
    /\ job[p] = Open /\ k \in DOMAIN rows /\ Counted
    /\ LET new == [rows[k] EXCEPT !.weight = Less(@, Penalty)]
       IN IF new.weight <= Pruned /\ new.count < LtpThreshold
          THEN Write(Only(rows, DOMAIN rows \ {k}), {})
          ELSE Write(With(k, new), {k})
    /\ UNCHANGED <<format, last_decay, table, code, clock, job, alone, built>>

\* decay_node: the edges of one node, in every namespace.
DecayNode(p, pairs) ==
    /\ job[p] = Open /\ Counted
    /\ LET mine == {k \in DOMAIN rows : k[1] \in pairs}
           halved == [k \in DOMAIN rows |->
                        IF k \in mine
                        THEN [rows[k] EXCEPT !.weight = Faded(@, k[2], rows[k].count, 1)]
                        ELSE rows[k]]
           left == {k \in DOMAIN rows : k \notin mine \/ ~Dead(k, halved[k])}
       IN mine # {} /\ Write(Only(halved, left), mine \cap left)
    /\ UNCHANGED <<format, last_decay, table, code, clock, job, alone, built>>

\* delete_edge, clear_namespace
Delete(p, keys) ==
    /\ job[p] = Open /\ keys \cap DOMAIN rows # {} /\ Counted
    /\ Write(Only(rows, DOMAIN rows \ keys), {})
    /\ UNCHANGED <<format, last_decay, table, code, clock, job, alone, built>>

--------------------------------------------------------------------------------
\* decay(): the time and the namespaces to decay by default, then the transaction.
DefaultNamespaces == {k[2] : k \in DOMAIN rows} \ {Shared, Ephemeral, Structural}

StartDecay(p) ==
    /\ Begin(p, [op |-> "decay", ts |-> clock, list |-> DefaultNamespaces])
    /\ UNCHANGED <<format, rows, last_decay, table, code, clock, writes, base,
                   alone, built>>

Decay(p) ==
    /\ job[p].op = "decay"
    /\ LET ts == job[p].ts
           due == {k \in DOMAIN rows : k[2] \in job[p].list \cup {Shared, Ephemeral}}
           after == [k \in DOMAIN rows |->
                       IF k \in due THEN Decayed(k, rows[k], last_decay, ts) ELSE rows[k]]
           \* a namespace with no row when they were listed: its new rows are
           \* let off what they owe up to now
           late == {k \in DOMAIN rows : k[2] \in DefaultNamespaces \ job[p].list}
       IN /\ rows' = Only(after, {k \in DOMAIN rows : k \notin due \/ ~Dead(k, after[k])})
          /\ last_decay' = Later(ts, last_decay)
          /\ base' = [k \in DOMAIN base |->
                        IF k \in late THEN Since(rows[k], base[k].ns, Later(ts, last_decay)) ELSE base[k]]
    /\ Goto(p, Open)
    /\ UNCHANGED <<format, table, code, clock, writes, alone, built>>

--------------------------------------------------------------------------------
Checkout(graph) ==
    /\ graph # code /\ code' = graph /\ Counted
    /\ UNCHANGED <<format, rows, last_decay, table, clock, job, base, alone, built>>

Building(p) == job[p].op \in {"persist", "seed", "replace"}

\* build() has loaded a graph, and goes on to persist it and to seed from it.
StartBuild(p) ==
    /\ Begin(p, [op |-> "persist", graph |-> code])
    /\ alone' = IF \E q \in Proc : Building(q) THEN {} ELSE {p}
    /\ built' = {}
    /\ UNCHANGED <<format, rows, last_decay, table, code, clock, writes, base>>

\* An empty graph leaves the last one; persist_structural_edges may also fail,
\* and build() goes on.
Persist(p, fails) ==
    /\ job[p].op = "persist"
    /\ table' = IF fails \/ job[p].graph = {} THEN table ELSE job[p].graph
    /\ alone' = IF fails \/ job[p].graph = {} THEN alone \ {p} ELSE alone
    /\ Goto(p, [op |-> "seed", graph |-> job[p].graph])
    /\ UNCHANGED <<format, rows, last_decay, code, clock, writes, base, built>>

SeedRead(p) ==
    /\ job[p].op = "seed"
    /\ Goto(p, [op |-> "replace", ts |-> clock, seen |-> table, graph |-> job[p].graph])
    /\ UNCHANGED <<format, rows, last_decay, table, code, clock, writes, base,
                   alone, built>>

\* Mutant of Learned: seeds are merged into what is there.
LearnedOrSeeded == DOMAIN rows

\* The namespace is emptied before the seeds go in.
Learned == {k \in DOMAIN rows : k[2] # Structural}

SeedReplace(p) ==
    /\ job[p].op = "replace"
    /\ LET seeds == job[p].seen \X {Structural}
           seed == [weight |-> LearningRate, count |-> 1, last |-> job[p].ts]
       IN Write([k \in Learned \cup seeds |-> IF k \in seeds THEN seed ELSE rows[k]], seeds)
    /\ built' = IF p \in alone THEN job[p].graph ELSE {}
    /\ alone' = alone \ {p}
    /\ Goto(p, Open)
    /\ UNCHANGED <<format, last_decay, table, code, clock, writes>>

\* A process is killed in the middle: its open transaction never was.
Kill(p) ==
    /\ job[p] \notin {Closed, Open}
    /\ Goto(p, Closed) /\ alone' = alone \ {p}
    /\ UNCHANGED <<format, rows, last_decay, table, code, clock, writes, base, built>>

Next ==
    \/ Tick
    \/ \E g \in SUBSET Pair : Checkout(g)
    \/ \E p \in Proc :
        \/ OpenStore(p) \/ Migrate(p)
        \/ \E k \in Key : StartReinforce(p, k) \/ Penalize(p, k) \/ Delete(p, {k})
        \/ Reinforce(p)
        \/ \E q \in Pair, n \in {1, LtpThreshold} : StartImport(p, q, n)
        \/ ImportEdges(p)
        \/ \E pairs \in SUBSET Pair : DecayNode(p, pairs)
        \/ \E ns \in Namespace : Delete(p, Pair \X {ns})
        \/ StartDecay(p) \/ Decay(p)
        \/ StartBuild(p) \/ Persist(p, TRUE) \/ Persist(p, FALSE) \/ SeedRead(p) \/ SeedReplace(p)
        \/ Kill(p)

Spec == Init /\ [][Next]_vars

--------------------------------------------------------------------------------
\* However many decay() calls run, at once, killed, or with a time from before
\* another one finished, each row has decayed exactly once for the time since it
\* was last written, and is pruned no sooner and no later (decay).
DecayedOnce ==
    \A k \in DOMAIN base :
        LET b == base[k]
            w == Faded(b.weight, k[2], b.count, Halvings(k[2]) * Less(last_decay, b.at))
        IN IF k \in DOMAIN rows THEN rows[k].weight = w /\ rows[k].count = b.count
           ELSE w < Pruned /\ ~Ltp(k[2], b.count)

\* After a build that no other build overlapped, the structural namespace has no
\* pair its graph does not have: nothing of another branch is left behind, whatever
\* earlier builds did, failed to do or were killed at (persist_structural_edges,
\* seed_from_structural).
SeedsOfLastBuild ==
    built # {} => {k[1] : k \in {j \in DOMAIN rows : j[2] = Structural}} \subseteq built

\* A row stays in the namespace it was written to, also when processes of the
\* new version open a database of the old one at once (_migrate_v0_to_v1).
NamespacesKept == \A k \in DOMAIN rows : base[k].ns = k[2]
================================================================================

--------------------------- MODULE SynapseStoreProofs ---------------------------
(***************************************************************************)
(* Proofs about SynapseStore, for any processes, edges, branches, rates    *)
(* and any way of halving that composes.                                   *)
(***************************************************************************)
EXTENDS SynapseStore, TLAPS

--------------------------------------------------------------------------------
(* Halvings *)

LEMMA Parameters ==
    /\ LearningRate \in Nat \ {0} /\ WeightCap \in Nat \ {0} /\ Penalty \in Nat \ {0}
    /\ Pruned \in Nat \ {0} /\ LtpThreshold \in Nat \ {0} /\ LtpFloor \in Nat \ {0}
    /\ Pruned <= LtpFloor /\ LtpFloor <= WeightCap /\ LearningRate <= WeightCap
    /\ MaxOld \in Nat /\ MaxTime \in Nat /\ MaxWrites \in Nat
BY SynapseAssumption

LEMMA Namespaces ==
    /\ {Personal, Shared, Ephemeral, Structural} \subseteq Namespace
    /\ Personal \notin {Shared, Ephemeral, Structural}
    /\ Shared \notin {Ephemeral, Structural} /\ Ephemeral # Structural
BY SynapseAssumption DEF Namespace

\* What decays in a unit of time, and in two times in a row.
LEMMA HalvingsAdd ==
    ASSUME NEW ns, NEW d \in Nat, NEW e \in Nat, d + e <= MaxTime
    PROVE  /\ Halvings(ns) * d \in SomeHalvings /\ Halvings(ns) * e \in SomeHalvings
           /\ Halvings(ns) * (d + e) \in SomeHalvings
           /\ Halvings(ns) * (d + e) = Halvings(ns) * d + Halvings(ns) * e
           /\ Halvings(ns) * 0 = 0
<1>1. Halvings(ns) \in {0, 1, 2, 4}
  BY DEF Halvings
<1>2. MaxTime \in Nat
  BY Parameters
<1>3. ASSUME NEW h \in {0, 1, 2, 4}
      PROVE  /\ h * d \in SomeHalvings /\ h * e \in SomeHalvings
             /\ h * (d + e) \in SomeHalvings
             /\ h * (d + e) = h * d + h * e
             /\ h * 0 = 0
  <2>1. CASE h = 0
    BY <1>2, <2>1 DEF SomeHalvings
  <2>2. CASE h = 1
    BY <1>2, <2>2 DEF SomeHalvings
  <2>3. CASE h = 2
    BY <1>2, <2>3 DEF SomeHalvings
  <2>4. CASE h = 4
    BY <1>2, <2>4 DEF SomeHalvings
  <2>5. QED
    BY <2>1, <2>2, <2>3, <2>4
<1>4. QED
  BY <1>1, <1>3

LEMMA StructuralNeverFades == Halvings(Structural) = 0
BY Namespaces DEF Halvings

LEMMA NoneOrOne == 0 \in SomeHalvings /\ 1 \in SomeHalvings
BY Parameters DEF SomeHalvings

LEMMA FadedIs ==
    ASSUME NEW w \in 0 .. WeightCap, NEW ns, NEW count, NEW m \in SomeHalvings
    PROVE  /\ Faded(w, ns, count, m) \in 0 .. WeightCap
           /\ Faded(w, ns, count, 0) = w
           /\ ~Ltp(ns, count) => Faded(w, ns, count, m) <= w
<1>1. Remains(w, 0) = w /\ Remains(w, m) \in 0 .. w
  BY NoneOrOne, DecayAssumption
<1>2. QED
  BY <1>1, Parameters DEF Faded, Later

\* Decaying for one time and then another is decaying once for both; the floor that
\* holds an edge with long-term potentiation changes nothing in that.
LEMMA FadedTwice ==
    ASSUME NEW w \in 0 .. WeightCap, NEW ns, NEW count,
           NEW m \in SomeHalvings, NEW n \in SomeHalvings, m + n \in SomeHalvings
    PROVE  Faded(Faded(w, ns, count, m), ns, count, n) = Faded(w, ns, count, m + n)
<1>1. /\ Remains(w, m) \in 0 .. w /\ Remains(w, m + n) \in 0 .. w
      /\ Remains(Remains(w, m), n) = Remains(w, m + n)
      /\ Remains(Remains(w, m), n) \in 0 .. Remains(w, m)
  <2>1. /\ Remains(w, m) \in 0 .. w /\ Remains(w, m + n) \in 0 .. w
        /\ Remains(Remains(w, m), n) = Remains(w, m + n)
    BY DecayAssumption
  <2>2. Remains(w, m) \in 0 .. WeightCap
    BY <2>1, Parameters
  <2>3. QED
    BY <2>1, <2>2, DecayAssumption
<1>2. Remains(LtpFloor, n) \in 0 .. LtpFloor
  <2>1. LtpFloor \in 0 .. WeightCap
    BY Parameters
  <2>2. QED
    BY <2>1, DecayAssumption
<1>3. CASE ~(Ltp(ns, count) /\ w >= LtpFloor)
  <2>1. Faded(w, ns, count, m) = Remains(w, m) /\ Faded(w, ns, count, m + n) = Remains(w, m + n)
    BY <1>3 DEF Faded
  <2>2. ~(Ltp(ns, count) /\ Remains(w, m) >= LtpFloor)
    BY <1>1, <1>3, Parameters
  <2>3. QED
    BY <1>1, <2>1, <2>2 DEF Faded
<1>4. CASE Ltp(ns, count) /\ w >= LtpFloor
  <2>1. /\ Faded(w, ns, count, m) = Later(Remains(w, m), LtpFloor)
        /\ Faded(w, ns, count, m + n) = Later(Remains(w, m + n), LtpFloor)
    BY <1>4 DEF Faded
  <2>2. CASE Remains(w, m) > LtpFloor
    <3>1. Faded(w, ns, count, m) = Remains(w, m)
      BY <2>1, <2>2 DEF Later
    <3>2. QED
      BY <1>1, <1>4, <2>1, <2>2, <3>1, Parameters DEF Faded
  <2>3. CASE ~(Remains(w, m) > LtpFloor)
    <3>1. Faded(w, ns, count, m) = LtpFloor
      BY <2>1, <2>3 DEF Later
    <3>2. Faded(LtpFloor, ns, count, n) = LtpFloor
      BY <1>2, <1>4, Parameters DEF Faded, Later
    <3>3. Later(Remains(w, m + n), LtpFloor) = LtpFloor
      BY <1>1, <2>3, Parameters DEF Later
    <3>4. QED
      BY <2>1, <3>1, <3>2, <3>3
  <2>4. QED
    BY <2>2, <2>3
<1>5. QED
  BY <1>3, <1>4

\* What a row owes at ts, counted from the last decay, is what it had not yet decayed
\* for: whether ts is older than the last decay, or the row newer.
LEMMA OwedOnce ==
    ASSUME NEW last \in Nat, NEW at \in Nat, NEW before \in Nat, NEW ts \in Nat,
           last <= at, at = last \/ at <= before
    PROVE  Less(Later(ts, before), at) = Less(before, at) + Less(ts, Later(last, before))
BY DEF Less, Later

LEMMA LessIs ==
    ASSUME NEW s \in Nat, NEW t \in Nat
    PROVE  /\ Less(s, t) \in 0 .. s
           /\ Later(s, t) \in Nat /\ s <= Later(s, t) /\ t <= Later(s, t)
           /\ Later(s, t) = s \/ Later(s, t) = t
           /\ s <= t => Less(s, t) = 0
BY DEF Less, Later
--------------------------------------------------------------------------------
(* The invariant *)

Usual == Namespace \ {Shared, Ephemeral, Structural}

\* What a process took with it into its transaction, at the time now.
JobFine(j, now, f) ==
    /\ j.op \in {"closed", "migrate", "open", "decay", "reinforce", "import", "persist",
                 "seed", "replace"}
    /\ j.op \in {"reinforce", "import", "decay", "replace"} => j.ts \in 0 .. now
    /\ j.op = "reinforce" => j.key \in Pair \X (Namespace \ {Shared, Structural})
    /\ j.op = "import" => j.key \in Pair \X {Shared} /\ j.count \in Nat
    /\ j.op = "decay" => j.list \subseteq Usual
    /\ j.op \in {"persist", "seed", "replace"} => j.graph \subseteq Pair
    /\ j.op = "replace" => j.seen \subseteq Pair
    /\ f = "v0" => j.op \in {"closed", "migrate"}

JobsFine == DOMAIN job = Proc /\ \A p \in Proc : JobFine(job[p], clock, format)

RowFine(row, now) == row \in Row /\ row.last <= now

Written(now) == [weight : 0 .. WeightCap, count : Nat, ns : Namespace, at : 0 .. now]

\* A row owes decay since it was activated, or since a decay after that.
RowsFine ==
    /\ DOMAIN rows \subseteq DOMAIN base /\ DOMAIN base \subseteq Key
    /\ \A k \in DOMAIN rows : RowFine(rows[k], clock)
    /\ \A k \in DOMAIN base : base[k] \in Written(clock)
    /\ \A k \in DOMAIN rows :
          /\ rows[k].last <= base[k].at
          /\ base[k].at = rows[k].last \/ base[k].at <= last_decay

Scalars ==
    /\ format \in {"v0", "v1"}
    /\ clock \in 0 .. MaxTime /\ last_decay \in 0 .. clock
    /\ table \subseteq Pair /\ code \subseteq Pair

OldFormat == format = "v0" => \A k \in DOMAIN rows : k[2] = Personal

Typed == Scalars /\ OldFormat /\ RowsFine /\ JobsFine

\* A build that no other overlapped finds, and read, the graph it persisted.
Alone ==
    /\ alone \subseteq Proc
    /\ \A p \in alone :
          /\ \A q \in Proc : Building(q) => q = p
          /\ job[p].op = "seed" => table = job[p].graph
          /\ job[p].op = "replace" => job[p].seen = job[p].graph

LEMMA TypedIsTypeOK ==
    ASSUME Typed
    PROVE  TypeOK
<1>1. /\ format \in {"v0", "v1"} /\ last_decay \in 0 .. clock /\ clock \in 0 .. MaxTime
      /\ table \subseteq Pair /\ code \subseteq Pair
      /\ format = "v0" => \A k \in DOMAIN rows : k[2] = Personal
  BY Zenon DEF Typed, Scalars, OldFormat
<1>2. /\ DOMAIN rows \subseteq Key /\ DOMAIN rows \subseteq DOMAIN base
      /\ \A k \in DOMAIN rows : rows[k] \in Row /\ rows[k].last <= clock
  BY DEF Typed, RowsFine, RowFine
<1>3. \A p \in Proc : job[p].op \in {"closed", "migrate", "open", "decay", "reinforce",
                                     "import", "persist", "seed", "replace"}
  BY Zenon DEF Typed, JobsFine, JobFine
<1>4. QED
  BY <1>1, <1>2, <1>3, Zenon DEF TypeOK

LEMMA Clocks ==
    ASSUME Typed
    PROVE  /\ clock \in Nat /\ clock <= MaxTime /\ MaxTime \in Nat
           /\ last_decay \in Nat /\ last_decay <= clock
BY Parameters DEF Typed, Scalars

LEMMA Weights ==
    ASSUME Typed
    PROVE  /\ \A k \in DOMAIN rows :
                 /\ rows[k].weight \in 0 .. WeightCap /\ rows[k].count \in Nat
                 /\ rows[k].last \in Nat /\ rows[k].last <= clock
                 /\ rows[k] = [weight |-> rows[k].weight, count |-> rows[k].count,
                               last |-> rows[k].last]
                 /\ k \in DOMAIN base
           /\ \A k \in DOMAIN base :
                 /\ base[k].weight \in 0 .. WeightCap /\ base[k].count \in Nat
                 /\ base[k].ns \in Namespace /\ base[k].at \in Nat /\ base[k].at <= clock
                 /\ k[1] \in Pair /\ k[2] \in Namespace /\ k = <<k[1], k[2]>>
<1>1. \A row \in Row :
         /\ row.weight \in 0 .. WeightCap /\ row.count \in Nat /\ row.last \in Nat
         /\ row = [weight |-> row.weight, count |-> row.count, last |-> row.last]
  BY Parameters DEF Row
<1>2. \A k \in DOMAIN rows : rows[k] \in Row /\ rows[k].last <= clock /\ k \in DOMAIN base
  BY DEF Typed, RowsFine, RowFine
<1>3. \A b \in Written(clock) :
         /\ b.weight \in 0 .. WeightCap /\ b.count \in Nat
         /\ b.ns \in Namespace /\ b.at \in Nat /\ b.at <= clock
  BY Clocks DEF Written
<1>4. \A k \in DOMAIN base : base[k] \in Written(clock) /\ k \in Key
  BY DEF Typed, RowsFine
<1>5. \A k \in Key : k[1] \in Pair /\ k[2] \in Namespace /\ k = <<k[1], k[2]>>
  BY DEF Key
<1>6. QED
  BY <1>1, <1>2, <1>3, <1>4, <1>5

\* What a process has taken with it stays fine, as time passes and others migrate.
LEMMA JobLater ==
    ASSUME NEW j, NEW now \in Nat, NEW then \in Nat, NEW f, now <= then, JobFine(j, now, f)
    PROVE  JobFine(j, then, f) /\ JobFine(j, then, "v1")
BY DEF JobFine

LEMMA OneJob ==
    ASSUME Typed, NEW p \in Proc, NEW j, Goto(p, j), JobFine(j, clock, format'),
           clock' = clock, format' \in {format, "v1"}
    PROVE  /\ JobsFine' /\ job'[p] = j
           /\ \A q \in Proc : q # p => job'[q] = job[q]
<1>1. DOMAIN job = Proc
  BY DEF Typed, JobsFine
<1>2. /\ DOMAIN job' = Proc /\ job'[p] = j
      /\ \A q \in Proc : q # p => job'[q] = job[q]
  BY <1>1 DEF Goto
<1>3. \A q \in Proc : JobFine(job[q], clock, format) /\ JobFine(job[q], clock, "v1")
  BY Clocks, JobLater DEF Typed, JobsFine
<1>4. \A q \in Proc : JobFine(job'[q], clock, format')
  BY <1>2, <1>3
<1>5. QED
  BY <1>2, <1>4 DEF JobsFine

LEMMA OpenJob ==
    ASSUME Typed, NEW p \in Proc, job[p] = Open
    PROVE  format = "v1" /\ ~Building(p)
<1>1. job[p].op = "open"
  BY DEF Open
<1>2. QED
  BY <1>1, Zenon DEF Typed, Scalars, JobsFine, JobFine, Building

LEMMA BusyJob ==
    ASSUME Typed, NEW p \in Proc
    PROVE  /\ JobFine(job[p], clock, format)
           /\ job[p].op \notin {"closed", "migrate"} => format = "v1"
<1>1. JobFine(job[p], clock, format) /\ format \in {"v0", "v1"}
  BY DEF Typed, JobsFine, Scalars
<1>2. QED
  BY <1>1 DEF JobFine

LEMMA RestFine ==
    ASSUME NEW now, NEW f
    PROVE  /\ JobFine(Closed, now, f) /\ JobFine(Open, now, "v1")
           /\ JobFine([op |-> "migrate"], now, f)
BY DEF JobFine, Closed, Open
--------------------------------------------------------------------------------
(* Writes *)

\* What is left of a row last written as b says, when decay last ran at ld.
Due(k, b, ld) == Faded(b.weight, k[2], b.count, Halvings(k[2]) * Less(ld, b.at))

Fits(k, b, ld, rs) ==
    IF k \in DOMAIN rs THEN rs[k].weight = Due(k, b, ld) /\ rs[k].count = b.count
    ELSE Due(k, b, ld) < Pruned /\ ~Ltp(k[2], b.count)

LEMMA DecayedOnceIs == DecayedOnce <=> \A k \in DOMAIN base : Fits(k, base[k], last_decay, rows)
BY DEF DecayedOnce, Fits, Due

\* A row that was just written, or is let off what it owed, owes nothing.
LEMMA SinceIs ==
    ASSUME NEW now \in Nat, now <= MaxTime, NEW row, RowFine(row, now), NEW ns \in Namespace,
           NEW ts \in 0 .. now, NEW k
    PROVE  /\ Since(row, ns, ts) \in Written(now)
           /\ row.last <= Since(row, ns, ts).at
           /\ Since(row, ns, ts).at = row.last \/ Since(row, ns, ts).at <= ts
           /\ Since(row, ns, ts).count = row.count
           /\ \A ld \in 0 .. ts : Due(k, Since(row, ns, ts), ld) = row.weight
<1>1. /\ row.weight \in 0 .. WeightCap /\ row.count \in Nat /\ row.last \in Nat
      /\ row.last <= now /\ MaxTime \in Nat
  BY Parameters DEF RowFine, Row
<1> DEFINE b == Since(row, ns, ts)
<1>2. b.weight = row.weight /\ b.count = row.count /\ b.ns = ns /\ b.at = Later(row.last, ts)
  BY DEF Since
<1>3. b = [weight |-> row.weight, count |-> row.count, ns |-> ns, at |-> Later(row.last, ts)]
  BY DEF Since
<1>4. Later(row.last, ts) \in 0 .. now
  BY <1>1 DEF Later
<1>5. b \in Written(now)
  BY <1>1, <1>3, <1>4 DEF Written
<1> HIDE DEF b
<1>6. ASSUME NEW ld \in 0 .. ts
      PROVE  Due(k, b, ld) = row.weight
  <2>1. Less(ld, b.at) = 0
    BY <1>1, <1>2 DEF Less, Later
  <2>2. Halvings(k[2]) * 0 = 0
    BY <1>1, HalvingsAdd
  <2>3. QED
    BY <1>1, <1>2, <2>1, <2>2, FadedIs, NoneOrOne DEF Due
<1>7. QED
  BY <1>1, <1>2, <1>5, <1>6 DEF b, Later

\* Setting weights and deleting rows keeps every row's account.
LEMMA WriteStep ==
    ASSUME Typed, DecayedOnce, NEW left, NEW set, Write(left, set),
           set \subseteq DOMAIN left, DOMAIN left \subseteq DOMAIN rows \cup set,
           set \subseteq Key,
           \A k \in DOMAIN left : k \notin set => left[k] = rows[k],
           \A k \in set : RowFine(left[k], clock),
           last_decay' = last_decay, clock' = clock
    PROVE  RowsFine' /\ DecayedOnce' /\ DOMAIN rows' = DOMAIN left
<1>1. /\ rows' = left
      /\ DOMAIN base' = (DOMAIN base \ (DOMAIN rows \ DOMAIN left)) \cup set
      /\ \A k \in DOMAIN base' : base'[k] = IF k \in set THEN Since(left[k], k[2], last_decay)
                                            ELSE base[k]
  BY DEF Write
<1>2. /\ clock \in Nat /\ clock <= MaxTime /\ last_decay \in 0 .. clock
      /\ last_decay \in 0 .. last_decay
  BY Clocks
<1>3. /\ DOMAIN rows \subseteq DOMAIN base /\ DOMAIN base \subseteq Key
      /\ \A k \in DOMAIN rows : RowFine(rows[k], clock)
      /\ \A k \in DOMAIN base : base[k] \in Written(clock)
      /\ \A k \in DOMAIN rows :
            /\ rows[k].last <= base[k].at
            /\ base[k].at = rows[k].last \/ base[k].at <= last_decay
  BY DEF Typed, RowsFine
<1>4. ASSUME NEW k \in set
      PROVE  /\ k \in DOMAIN rows' /\ k \in DOMAIN base' /\ k \in Key
             /\ RowFine(rows'[k], clock) /\ base'[k] \in Written(clock)
             /\ rows'[k].last <= base'[k].at
             /\ base'[k].at = rows'[k].last \/ base'[k].at <= last_decay
             /\ Fits(k, base'[k], last_decay, rows')
  <2>1. k \in DOMAIN rows' /\ k \in DOMAIN base' /\ rows'[k] = left[k] /\ RowFine(left[k], clock)
    BY <1>1
  <2>2. base'[k] = Since(left[k], k[2], last_decay) /\ k[2] \in Namespace
    BY <1>1, <2>1 DEF Key
  <2>3. /\ base'[k] \in Written(clock) /\ left[k].last <= base'[k].at
        /\ base'[k].at = left[k].last \/ base'[k].at <= last_decay
        /\ base'[k].count = left[k].count
        /\ Due(k, base'[k], last_decay) = left[k].weight
    BY <1>2, <2>1, <2>2, SinceIs
  <2>4. QED
    BY <2>1, <2>3 DEF Fits
<1>5. ASSUME NEW k \in DOMAIN base', k \notin set
      PROVE  k \in DOMAIN base /\ base'[k] = base[k] /\ Fits(k, base'[k], last_decay, rows')
  <2>1. k \in DOMAIN base /\ base'[k] = base[k] /\ (k \in DOMAIN rows' <=> k \in DOMAIN rows)
    BY <1>1, <1>5
  <2>2. k \in DOMAIN rows' => rows'[k] = rows[k]
    BY <1>1, <1>5
  <2>3. Fits(k, base[k], last_decay, rows)
    BY <2>1, DecayedOnceIs
  <2>4. QED
    BY <2>1, <2>2, <2>3 DEF Fits
<1>6. ASSUME NEW k \in DOMAIN rows', k \notin set
      PROVE  k \in DOMAIN rows /\ rows'[k] = rows[k] /\ k \in DOMAIN base'
  BY <1>1, <1>3, <1>6
<1>7. RowsFine'
  <2>1. DOMAIN rows' \subseteq DOMAIN base' /\ DOMAIN base' \subseteq Key
    BY <1>3, <1>4, <1>5, <1>6
  <2>2. \A k \in DOMAIN rows' :
            /\ RowFine(rows'[k], clock)
            /\ rows'[k].last <= base'[k].at
            /\ base'[k].at = rows'[k].last \/ base'[k].at <= last_decay
    BY <1>3, <1>4, <1>5, <1>6
  <2>3. \A k \in DOMAIN base' : base'[k] \in Written(clock)
    BY <1>3, <1>4, <1>5
  <2>4. QED
    BY <2>1, <2>2, <2>3 DEF RowsFine
<1>8. DecayedOnce'
  <2>1. \A k \in DOMAIN base' : Fits(k, base'[k], last_decay, rows')
    BY <1>4, <1>5
  <2>2. DecayedOnce' <=> \A k \in DOMAIN base' : Fits(k, base'[k], last_decay', rows')
    BY DEF DecayedOnce, Fits, Due
  <2>3. QED
    BY <2>1, <2>2
<1>9. QED
  BY <1>1, <1>7, <1>8
--------------------------------------------------------------------------------
(* Steps that leave the rows *)

LEMMA NextCases ==
    ASSUME Next
    PROVE  \/ Tick
           \/ \E g \in SUBSET Pair : Checkout(g)
           \/ \E p \in Proc :
                 \/ OpenStore(p) \/ Migrate(p)
                 \/ (\E k \in Key : StartReinforce(p, k)) \/ Reinforce(p)
                 \/ (\E q \in Pair, n \in {1, LtpThreshold} : StartImport(p, q, n))
                 \/ ImportEdges(p)
                 \/ (\E k \in Key : Penalize(p, k))
                 \/ (\E pairs \in SUBSET Pair : DecayNode(p, pairs))
                 \/ (\E keys : Delete(p, keys))
                 \/ StartDecay(p) \/ Decay(p)
                 \/ StartBuild(p) \/ Persist(p, TRUE) \/ Persist(p, FALSE)
                 \/ SeedRead(p) \/ SeedReplace(p) \/ Kill(p)
BY Zenon DEF Next

LEMMA RowsLater ==
    ASSUME Typed, DecayedOnce, UNCHANGED <<rows, base, last_decay>>,
           clock' \in Nat, clock <= clock'
    PROVE  RowsFine' /\ DecayedOnce'
<1>1. clock \in Nat
  BY Clocks
<1>2. \A row : RowFine(row, clock) => RowFine(row, clock')
  BY <1>1, Parameters DEF RowFine, Row
<1>3. Written(clock) \subseteq Written(clock')
  BY <1>1 DEF Written
<1>4. RowsFine'
  BY <1>2, <1>3, Zenon DEF Typed, RowsFine
<1>5. DecayedOnce'
  BY Zenon DEF DecayedOnce
<1>6. QED
  BY <1>4, <1>5

LEMMA TickStep ==
    ASSUME Typed, DecayedOnce, Tick
    PROVE  Typed' /\ DecayedOnce'
<1>1. /\ clock < MaxTime /\ clock' = clock + 1
      /\ UNCHANGED <<format, rows, last_decay, table, code, job, base>>
  BY Zenon DEF Tick
<1>2. /\ clock' \in Nat /\ clock <= clock' /\ clock' \in 0 .. MaxTime
      /\ last_decay \in 0 .. clock'
  BY <1>1, Clocks
<1>3. RowsFine' /\ DecayedOnce'
  BY <1>1, <1>2, RowsLater
<1>4. JobsFine'
  BY <1>1, <1>2, Clocks, JobLater DEF Typed, JobsFine
<1>5. Scalars' /\ OldFormat'
  BY <1>1, <1>2 DEF Typed, Scalars, OldFormat
<1>6. QED
  BY <1>3, <1>4, <1>5 DEF Typed

\* A step of one process that leaves the rows alone.
LEMMA OneJobStep ==
    ASSUME Typed, DecayedOnce, NEW p \in Proc, NEW j, Goto(p, j), JobFine(j, clock, format),
           UNCHANGED <<format, rows, last_decay, code, clock, base>>, table' \subseteq Pair
    PROVE  Typed' /\ DecayedOnce'
<1>1. clock' \in Nat /\ clock <= clock' /\ clock' = clock /\ format' = format
  BY Clocks
<1>2. RowsFine' /\ DecayedOnce'
  BY <1>1, RowsLater
<1>3. JobsFine'
  BY <1>1, OneJob
<1>4. Scalars' /\ OldFormat'
  BY DEF Typed, Scalars, OldFormat
<1>5. QED
  BY <1>2, <1>3, <1>4 DEF Typed

LEMMA CheckoutStep ==
    ASSUME Typed, DecayedOnce, NEW g \in SUBSET Pair, Checkout(g)
    PROVE  Typed' /\ DecayedOnce'
<1>1. code' = g /\ UNCHANGED <<format, rows, last_decay, table, clock, job, base>>
  BY Zenon DEF Checkout
<1>2. clock' \in Nat /\ clock <= clock'
  BY <1>1, Clocks
<1>3. RowsFine' /\ DecayedOnce'
  BY <1>1, <1>2, RowsLater
<1>4. Scalars' /\ OldFormat' /\ JobsFine'
  BY <1>1 DEF Typed, Scalars, OldFormat, JobsFine
<1>5. QED
  BY <1>3, <1>4 DEF Typed

LEMMA StartStep ==
    ASSUME Typed, DecayedOnce, NEW p \in Proc,
           \/ \E k \in Key : StartReinforce(p, k)
           \/ \E q \in Pair, n \in {1, LtpThreshold} : StartImport(p, q, n)
           \/ StartDecay(p) \/ StartBuild(p)
    PROVE  Typed' /\ DecayedOnce'
<1>1. job[p] = Open /\ UNCHANGED <<format, rows, last_decay, table, code, clock, base>>
  BY Zenon DEF StartReinforce, StartImport, StartDecay, StartBuild, Begin
<1>2. format = "v1" /\ clock \in 0 .. clock /\ table' \subseteq Pair /\ code \subseteq Pair
  BY <1>1, OpenJob, Clocks DEF Typed, Scalars
<1>3. ASSUME NEW k \in Key, StartReinforce(p, k)
      PROVE  Typed' /\ DecayedOnce'
  <2> DEFINE j == [op |-> "reinforce", ts |-> clock, key |-> k]
  <2>1. Goto(p, j) /\ k[2] \notin {Shared, Structural}
    BY <1>3, Zenon DEF StartReinforce, Begin
  <2>2. k \in Pair \X (Namespace \ {Shared, Structural})
    BY <2>1 DEF Key
  <2>3. JobFine(j, clock, format)
    BY <1>2, <2>2 DEF JobFine
  <2> HIDE DEF j
  <2>4. QED
    BY <1>1, <1>2, <2>1, <2>3, OneJobStep
<1>4. ASSUME NEW q \in Pair, NEW n \in {1, LtpThreshold}, StartImport(p, q, n)
      PROVE  Typed' /\ DecayedOnce'
  <2> DEFINE j == [op |-> "import", ts |-> clock, key |-> <<q, Shared>>, count |-> n]
  <2>1. Goto(p, j)
    BY <1>4, Zenon DEF StartImport, Begin
  <2>2. n \in Nat /\ <<q, Shared>> \in Pair \X {Shared}
    BY Parameters
  <2>3. JobFine(j, clock, format)
    BY <1>2, <2>2 DEF JobFine
  <2> HIDE DEF j
  <2>4. QED
    BY <1>1, <1>2, <2>1, <2>3, OneJobStep
<1>5. ASSUME StartDecay(p)
      PROVE  Typed' /\ DecayedOnce'
  <2> DEFINE j == [op |-> "decay", ts |-> clock, list |-> DefaultNamespaces]
  <2>1. Goto(p, j)
    BY <1>5, Zenon DEF StartDecay, Begin
  <2>2. DefaultNamespaces \subseteq Usual
    BY Weights DEF DefaultNamespaces, Usual
  <2>3. JobFine(j, clock, format)
    BY <1>2, <2>2 DEF JobFine
  <2> HIDE DEF j
  <2>4. QED
    BY <1>1, <1>2, <2>1, <2>3, OneJobStep
<1>6. ASSUME StartBuild(p)
      PROVE  Typed' /\ DecayedOnce'
  <2> DEFINE j == [op |-> "persist", graph |-> code]
  <2>1. Goto(p, j)
    BY <1>6, Zenon DEF StartBuild, Begin
  <2>2. JobFine(j, clock, format)
    BY <1>2 DEF JobFine
  <2> HIDE DEF j
  <2>3. QED
    BY <1>1, <1>2, <2>1, <2>2, OneJobStep
<1>7. QED
  BY <1>3, <1>4, <1>5, <1>6

\* Opening the store, the steps of a build before its seeds, and a kill.
LEMMA OnwardStep ==
    ASSUME Typed, DecayedOnce, NEW p \in Proc,
           OpenStore(p) \/ Persist(p, TRUE) \/ Persist(p, FALSE) \/ SeedRead(p) \/ Kill(p)
    PROVE  Typed' /\ DecayedOnce'
<1>1. UNCHANGED <<format, rows, last_decay, code, clock, base>>
  BY Zenon DEF OpenStore, Persist, SeedRead, Kill
<1>2. /\ format \in {"v0", "v1"} /\ table \subseteq Pair /\ clock \in 0 .. clock
      /\ JobFine(job[p], clock, format)
      /\ job[p].op \notin {"closed", "migrate"} => format = "v1"
  BY BusyJob, Clocks DEF Typed, Scalars
<1>3. ASSUME OpenStore(p)
      PROVE  Typed' /\ DecayedOnce'
  <2> DEFINE j == IF format = "v0" THEN [op |-> "migrate"] ELSE Open
  <2>1. Goto(p, j) /\ table' = table
    BY <1>3, Zenon DEF OpenStore
  <2>2. JobFine(j, clock, format)
    BY <1>2, RestFine
  <2> HIDE DEF j
  <2>3. QED
    BY <1>1, <1>2, <2>1, <2>2, OneJobStep
<1>4. ASSUME Persist(p, TRUE) \/ Persist(p, FALSE)
      PROVE  Typed' /\ DecayedOnce'
  <2> DEFINE j == [op |-> "seed", graph |-> job[p].graph]
  <2>1. /\ job[p].op = "persist" /\ Goto(p, j)
        /\ table' = table \/ table' = job[p].graph
    BY <1>4, Zenon DEF Persist
  <2>2. job[p].graph \subseteq Pair /\ format = "v1"
    BY <1>2, <2>1 DEF JobFine
  <2>3. JobFine(j, clock, format)
    BY <2>2 DEF JobFine
  <2> HIDE DEF j
  <2>4. QED
    BY <1>1, <1>2, <2>1, <2>2, <2>3, OneJobStep
<1>5. ASSUME SeedRead(p)
      PROVE  Typed' /\ DecayedOnce'
  <2> DEFINE j == [op |-> "replace", ts |-> clock, seen |-> table, graph |-> job[p].graph]
  <2>1. job[p].op = "seed" /\ Goto(p, j) /\ table' = table
    BY <1>5, Zenon DEF SeedRead
  <2>2. job[p].graph \subseteq Pair /\ format = "v1"
    BY <1>2, <2>1 DEF JobFine
  <2>3. JobFine(j, clock, format)
    BY <1>2, <2>2 DEF JobFine
  <2> HIDE DEF j
  <2>4. QED
    BY <1>1, <1>2, <2>1, <2>3, OneJobStep
<1>6. ASSUME Kill(p)
      PROVE  Typed' /\ DecayedOnce'
  <2>1. Goto(p, Closed) /\ table' = table
    BY <1>6, Zenon DEF Kill
  <2>2. QED
    BY <1>1, <1>2, <2>1, RestFine, OneJobStep
<1>7. QED
  BY <1>3, <1>4, <1>5, <1>6
--------------------------------------------------------------------------------
(* Steps that write rows *)

LEMMA WritesStep ==
    ASSUME Typed, DecayedOnce, NEW left, NEW set, Write(left, set),
           set \subseteq DOMAIN left, DOMAIN left \subseteq DOMAIN rows \cup set,
           set \subseteq Key,
           \A k \in DOMAIN left : k \notin set => left[k] = rows[k],
           \A k \in set : RowFine(left[k], clock),
           UNCHANGED <<format, last_decay, table, code, clock>>, format = "v1",
           JobsFine'
    PROVE  Typed' /\ DecayedOnce' /\ DOMAIN rows' = DOMAIN left
<1>1. RowsFine' /\ DecayedOnce' /\ DOMAIN rows' = DOMAIN left
  BY WriteStep
<1>2. Scalars' /\ OldFormat'
  BY DEF Typed, Scalars, OldFormat
<1>3. QED
  BY <1>1, <1>2 DEF Typed

LEMMA JobsSame ==
    ASSUME Typed, UNCHANGED <<job, clock, format>>
    PROVE  JobsFine'
BY DEF Typed, JobsFine

LEMMA BackOpen ==
    ASSUME Typed, NEW p \in Proc, Goto(p, Open), clock' = clock, format' = "v1"
    PROVE  JobsFine'
<1>1. format' \in {format, "v1"} /\ JobFine(Open, clock, format')
  BY RestFine
<1>2. QED
  BY <1>1, OneJob

LEMMA WithIs ==
    ASSUME NEW k, NEW row
    PROVE  /\ DOMAIN With(k, row) = DOMAIN rows \cup {k}
           /\ With(k, row)[k] = row
           /\ \A j \in DOMAIN With(k, row) : j \notin {k} => With(k, row)[j] = rows[j]
BY DEF With

LEMMA OnlyIs ==
    ASSUME NEW f, NEW K
    PROVE  DOMAIN Only(f, K) = K /\ \A k \in K : Only(f, K)[k] = f[k]
BY DEF Only

\* One row set: reinforce and import_edges.
LEMMA UpsertStep ==
    ASSUME Typed, DecayedOnce, NEW p \in Proc, Reinforce(p) \/ ImportEdges(p)
    PROVE  /\ Typed' /\ DecayedOnce'
           /\ \E k \in Key : k[2] # Structural /\ DOMAIN rows' = DOMAIN rows \cup {k}
<1>1. /\ job[p].op \in {"reinforce", "import"} /\ Goto(p, Open)
      /\ UNCHANGED <<format, last_decay, table, code, clock>>
  BY Zenon DEF Reinforce, ImportEdges
<1>2. /\ format = "v1" /\ job[p].ts \in 0 .. clock
      /\ job[p].op = "reinforce" => job[p].key \in Pair \X (Namespace \ {Shared, Structural})
      /\ job[p].op = "import" => job[p].key \in Pair \X {Shared} /\ job[p].count \in Nat
  BY <1>1, BusyJob DEF JobFine
<1>3. JobsFine'
  BY <1>1, <1>2, BackOpen
<1> DEFINE k == job[p].key
           old == IF k \in DOMAIN rows THEN rows[k] ELSE [weight |-> 0, count |-> 0]
<1>4. k \in Key /\ k[2] # Structural
  BY <1>1, <1>2, Namespaces DEF Key
<1>5. old.weight \in 0 .. WeightCap /\ old.count \in Nat
  <2>1. CASE k \in DOMAIN rows
    BY <2>1, Weights
  <2>2. CASE k \notin DOMAIN rows
    BY <2>2, Parameters
  <2>3. QED
    BY <2>1, <2>2
<1>6. clock \in 0 .. MaxTime
  BY DEF Typed, Scalars
<1>7. ASSUME NEW w \in 0 .. WeightCap, NEW c \in Nat,
             Write(With(k, [weight |-> w, count |-> c, last |-> job[p].ts]), {k})
      PROVE  Typed' /\ DecayedOnce' /\ DOMAIN rows' = DOMAIN rows \cup {k}
  <2> DEFINE new == [weight |-> w, count |-> c, last |-> job[p].ts]
  <2>1. RowFine(new, clock)
    BY <1>2, <1>6, Parameters DEF RowFine, Row
  <2> HIDE DEF new, k
  <2>2. /\ DOMAIN With(k, new) = DOMAIN rows \cup {k}
        /\ \A j \in DOMAIN With(k, new) : j \notin {k} => With(k, new)[j] = rows[j]
        /\ With(k, new)[k] = new
    BY WithIs
  <2>3. Write(With(k, new), {k})
    BY <1>7 DEF new
  <2>4. /\ {k} \subseteq DOMAIN With(k, new) /\ DOMAIN With(k, new) \subseteq DOMAIN rows \cup {k}
        /\ {k} \subseteq Key /\ \A j \in {k} : RowFine(With(k, new)[j], clock)
    BY <1>4, <2>1, <2>2
  <2>5. QED
    BY <1>1, <1>2, <1>3, <2>2, <2>3, <2>4, WritesStep
<1> HIDE DEF k
<1>8. CASE Reinforce(p)
  <2>1. Write(With(k, [weight |-> Capped(old.weight + LearningRate), count |-> old.count + 1,
                       last |-> job[p].ts]), {k})
    BY <1>8 DEF Reinforce, k
  <2>2. Capped(old.weight + LearningRate) \in 0 .. WeightCap /\ old.count + 1 \in Nat
    BY <1>5, Parameters DEF Capped
  <2> HIDE DEF old
  <2>3. QED
    BY <1>4, <1>7, <2>1, <2>2
<1>9. CASE ImportEdges(p)
  <2>1. Write(With(k, [weight |-> Later(old.weight, WeightCap),
                       count |-> Later(old.count, job[p].count), last |-> job[p].ts]), {k})
    BY <1>9 DEF ImportEdges, k
  <2>2. job[p].count \in Nat
    BY <1>2, <1>9 DEF ImportEdges
  <2>3. Later(old.weight, WeightCap) \in 0 .. WeightCap /\ Later(old.count, job[p].count) \in Nat
    BY <1>5, <2>2, Parameters DEF Later
  <2> HIDE DEF old
  <2>4. QED
    BY <1>4, <1>7, <2>1, <2>3
<1>10. QED
  BY <1>8, <1>9

\* Deletions: no row is set.
LEMMA FewerStep ==
    ASSUME Typed, DecayedOnce, NEW p \in Proc, job[p] = Open,
           NEW K \in SUBSET (DOMAIN rows), Write(Only(rows, K), {}),
           UNCHANGED <<format, last_decay, table, code, clock, job>>
    PROVE  Typed' /\ DecayedOnce' /\ DOMAIN rows' = K
<1>1. format = "v1" /\ JobsFine'
  BY OpenJob, JobsSame
<1>2. DOMAIN Only(rows, K) = K /\ \A k \in DOMAIN Only(rows, K) : Only(rows, K)[k] = rows[k]
  BY OnlyIs
<1>3. /\ {} \subseteq DOMAIN Only(rows, K) /\ DOMAIN Only(rows, K) \subseteq DOMAIN rows \cup {}
      /\ {} \subseteq Key /\ \A k \in {} : RowFine(Only(rows, K)[k], clock)
      /\ \A k \in DOMAIN Only(rows, K) : k \notin {} => Only(rows, K)[k] = rows[k]
  BY <1>2
<1>4. QED
  BY <1>1, <1>2, <1>3, WritesStep

LEMMA DeleteStep ==
    ASSUME Typed, DecayedOnce, NEW p \in Proc, NEW keys, Delete(p, keys)
    PROVE  Typed' /\ DecayedOnce' /\ DOMAIN rows' \subseteq DOMAIN rows
<1>1. /\ job[p] = Open /\ Write(Only(rows, DOMAIN rows \ keys), {})
      /\ UNCHANGED <<format, last_decay, table, code, clock, job>>
  BY Zenon DEF Delete
<1>2. QED
  BY <1>1, FewerStep

LEMMA PenalizeStep ==
    ASSUME Typed, DecayedOnce, NEW p \in Proc, NEW k \in Key, Penalize(p, k)
    PROVE  Typed' /\ DecayedOnce' /\ DOMAIN rows' \subseteq DOMAIN rows
<1>1. /\ job[p] = Open /\ k \in DOMAIN rows
      /\ UNCHANGED <<format, last_decay, table, code, clock, job>>
  BY Zenon DEF Penalize
<1> DEFINE new == [rows[k] EXCEPT !.weight = Less(@, Penalty)]
<1>2. \/ Write(Only(rows, DOMAIN rows \ {k}), {})
      \/ Write(With(k, new), {k})
  BY Zenon DEF Penalize
<1>3. RowFine(new, clock)
  <2>1. rows[k] \in Row /\ rows[k].last <= clock
    BY <1>1 DEF Typed, RowsFine, RowFine
  <2>2. Less(rows[k].weight, Penalty) \in 0 .. WeightCap
    BY <2>1, Parameters DEF Row, Less
  <2>3. QED
    BY <2>1, <2>2 DEF Row, RowFine
<1> HIDE DEF new
<1>4. CASE Write(Only(rows, DOMAIN rows \ {k}), {})
  BY <1>1, <1>4, FewerStep
<1>5. CASE Write(With(k, new), {k})
  <2>1. /\ DOMAIN With(k, new) = DOMAIN rows
        /\ \A j \in DOMAIN With(k, new) : j \notin {k} => With(k, new)[j] = rows[j]
        /\ With(k, new)[k] = new
    BY <1>1, WithIs
  <2>2. /\ {k} \subseteq DOMAIN With(k, new) /\ DOMAIN With(k, new) \subseteq DOMAIN rows \cup {k}
        /\ {k} \subseteq Key /\ \A j \in {k} : RowFine(With(k, new)[j], clock)
    BY <1>1, <1>3, <2>1
  <2>3. format = "v1" /\ JobsFine'
    BY <1>1, OpenJob, JobsSame
  <2>4. QED
    BY <1>1, <1>5, <2>1, <2>2, <2>3, WritesStep
<1>6. QED
  BY <1>2, <1>4, <1>5

\* decay_node halves the rows of a node and deletes those that die of it.
LEMMA DecayNodeStep ==
    ASSUME Typed, DecayedOnce, NEW p \in Proc, NEW pairs \in SUBSET Pair, DecayNode(p, pairs)
    PROVE  Typed' /\ DecayedOnce' /\ DOMAIN rows' \subseteq DOMAIN rows
<1> DEFINE mine == {k \in DOMAIN rows : k[1] \in pairs}
           halved == [k \in DOMAIN rows |->
                        IF k \in mine
                        THEN [rows[k] EXCEPT !.weight = Faded(@, k[2], rows[k].count, 1)]
                        ELSE rows[k]]
           left == {k \in DOMAIN rows : k \notin mine \/ ~Dead(k, halved[k])}
<1>1. /\ job[p] = Open /\ Write(Only(halved, left), mine \cap left)
      /\ UNCHANGED <<format, last_decay, table, code, clock, job>>
  BY Zenon DEF DecayNode
<1>2. ASSUME NEW k \in DOMAIN rows
      PROVE  RowFine(halved[k], clock) /\ (k \notin mine => halved[k] = rows[k])
  <2>1. rows[k] \in Row /\ rows[k].last <= clock
    BY DEF Typed, RowsFine, RowFine
  <2>2. rows[k].weight \in 0 .. WeightCap
    BY <2>1 DEF Row
  <2>3. Faded(rows[k].weight, k[2], rows[k].count, 1) \in 0 .. WeightCap
    BY <2>2, FadedIs, NoneOrOne
  <2>4. RowFine([rows[k] EXCEPT !.weight = Faded(@, k[2], rows[k].count, 1)], clock)
    BY <2>1, <2>3 DEF Row, RowFine
  <2>5. RowFine(rows[k], clock)
    BY <2>1 DEF RowFine
  <2>6. QED
    BY <2>4, <2>5
<1>3. left \subseteq DOMAIN rows /\ DOMAIN rows \subseteq Key
  BY DEF Typed, RowsFine
<1> HIDE DEF mine, halved, left
<1>4. DOMAIN Only(halved, left) = left /\ \A k \in left : Only(halved, left)[k] = halved[k]
  BY OnlyIs
<1>5. /\ mine \cap left \subseteq DOMAIN Only(halved, left)
      /\ DOMAIN Only(halved, left) \subseteq DOMAIN rows \cup (mine \cap left)
      /\ mine \cap left \subseteq Key
      /\ \A k \in DOMAIN Only(halved, left) :
            k \notin mine \cap left => Only(halved, left)[k] = rows[k]
      /\ \A k \in mine \cap left : RowFine(Only(halved, left)[k], clock)
  BY <1>2, <1>3, <1>4
<1>6. format = "v1" /\ JobsFine'
  BY <1>1, OpenJob, JobsSame
<1>7. Typed' /\ DecayedOnce' /\ DOMAIN rows' = DOMAIN Only(halved, left)
  BY <1>1, <1>5, <1>6, WritesStep
<1>8. QED
  BY <1>3, <1>4, <1>7

\* The seeds take the place of the structural rows.
LEMMA SeedReplaceStep ==
    ASSUME Typed, DecayedOnce, NEW p \in Proc, SeedReplace(p)
    PROVE  /\ Typed' /\ DecayedOnce'
           /\ \A k \in DOMAIN rows' : k[2] = Structural => k[1] \in job[p].seen
<1> DEFINE seeds == job[p].seen \X {Structural}
           seed == [weight |-> LearningRate, count |-> 1, last |-> job[p].ts]
           left == [k \in Learned \cup seeds |-> IF k \in seeds THEN seed ELSE rows[k]]
<1>1. /\ job[p].op = "replace" /\ Write(left, seeds) /\ Goto(p, Open)
      /\ UNCHANGED <<format, last_decay, table, code, clock>>
  BY Zenon DEF SeedReplace
<1>2. format = "v1" /\ job[p].ts \in 0 .. clock /\ job[p].seen \subseteq Pair
  BY <1>1, BusyJob DEF JobFine
<1>3. JobsFine'
  BY <1>1, <1>2, BackOpen
<1>4. seeds \subseteq Key
  BY <1>2, Namespaces DEF Key
<1>5. RowFine(seed, clock)
  <2>1. clock \in 0 .. MaxTime
    BY DEF Typed, Scalars
  <2>2. QED
    BY <1>2, <2>1, Parameters DEF RowFine, Row
<1>6. \A k \in seeds : k[1] \in job[p].seen
  OBVIOUS
<1> HIDE DEF seeds, seed
<1>7. Learned \subseteq DOMAIN rows /\ \A k \in Learned : k[2] # Structural
  BY DEF Learned
<1>8. /\ seeds \subseteq DOMAIN left /\ DOMAIN left \subseteq DOMAIN rows \cup seeds
      /\ \A k \in DOMAIN left : k \notin seeds => left[k] = rows[k]
      /\ \A k \in seeds : RowFine(left[k], clock)
  BY <1>5, <1>7
<1>9. Typed' /\ DecayedOnce' /\ DOMAIN rows' = DOMAIN left
  <2> HIDE DEF left
  <2>1. QED
    BY <1>1, <1>2, <1>3, <1>4, <1>8, WritesStep
<1>10. DOMAIN left = Learned \cup seeds
  OBVIOUS
<1>11. QED
  BY <1>6, <1>7, <1>9, <1>10
--------------------------------------------------------------------------------
(* Migration *)

LEMMA MigrateStep ==
    ASSUME Typed, DecayedOnce, NEW p \in Proc, Migrate(p)
    PROVE  /\ Typed' /\ DecayedOnce'
           /\ \/ rows' = rows
              \/ \A k \in DOMAIN rows' : k[2] = Personal
<1> DEFINE pairs == {k[1] : k \in DOMAIN rows}
           first(q) == CHOOSE k \in DOMAIN rows : k[1] = q
<1>1. UNCHANGED <<last_decay, table, code, clock>>
  BY Zenon DEF Migrate
<1>2. CASE Collides
  <2>1. Goto(p, Closed) /\ UNCHANGED <<format, rows, base>>
    BY <1>2, Zenon DEF Migrate
  <2>2. table' \subseteq Pair /\ JobFine(Closed, clock, format)
    BY <1>1, RestFine DEF Typed, Scalars
  <2>3. QED
    BY <1>1, <2>1, <2>2, OneJobStep
<1>3. CASE ~Collides
  <2>1. /\ Goto(p, Open) /\ format' = "v1"
        /\ rows' = [k \in pairs \X {Personal} |-> rows[first(k[1])]]
        /\ base' = [k \in pairs \X {Personal} |->
                      Since(rows[first(k[1])], base[first(k[1])].ns, last_decay)]
    BY <1>3 DEF Migrate
  <2>2. \A q \in pairs : first(q) \in DOMAIN rows
    <3>1. \A q \in pairs : \E k \in DOMAIN rows : k[1] = q
      OBVIOUS
    <3>2. QED
      BY <3>1, Zenon
  <2>3. pairs \X {Personal} \subseteq Key
    <3>1. \A k \in DOMAIN rows : k[1] \in Pair
      BY Weights
    <3>2. QED
      BY <3>1, Namespaces DEF Key
  <2> HIDE DEF pairs, first
  <2>4. /\ DOMAIN rows' = pairs \X {Personal} /\ DOMAIN base' = pairs \X {Personal}
        /\ \A k \in pairs \X {Personal} :
              /\ rows'[k] = rows[first(k[1])]
              /\ base'[k] = Since(rows[first(k[1])], base[first(k[1])].ns, last_decay)
    BY <2>1
  <2>5. /\ clock \in Nat /\ clock <= MaxTime /\ last_decay \in 0 .. clock
        /\ last_decay \in 0 .. last_decay
    BY Clocks
  <2>6. ASSUME NEW k \in pairs \X {Personal}
        PROVE  /\ RowFine(rows'[k], clock) /\ base'[k] \in Written(clock)
               /\ rows'[k].last <= base'[k].at
               /\ base'[k].at = rows'[k].last \/ base'[k].at <= last_decay
               /\ Fits(k, base'[k], last_decay, rows')
    <3>1. PICK o \in DOMAIN rows :
             rows'[k] = rows[o] /\ base'[k] = Since(rows[o], base[o].ns, last_decay)
      BY <2>2, <2>4
    <3>2. RowFine(rows[o], clock) /\ base[o].ns \in Namespace
      BY Weights DEF Typed, RowsFine
    <3>3. /\ base'[k] \in Written(clock) /\ rows[o].last <= base'[k].at
          /\ base'[k].at = rows[o].last \/ base'[k].at <= last_decay
          /\ base'[k].count = rows[o].count
          /\ Due(k, base'[k], last_decay) = rows[o].weight
      BY <2>5, <3>1, <3>2, SinceIs
    <3>4. QED
      BY <2>4, <3>1, <3>2, <3>3 DEF Fits
  <2>7. RowsFine'
    BY <1>1, <2>3, <2>4, <2>6 DEF RowsFine
  <2>8. DecayedOnce'
    <3>1. DecayedOnce' <=> \A k \in DOMAIN base' : Fits(k, base'[k], last_decay', rows')
      BY DEF DecayedOnce, Fits, Due
    <3>2. QED
      BY <1>1, <2>4, <2>6, <3>1
  <2>9. JobsFine'
    BY <1>1, <2>1, BackOpen
  <2>10. Scalars' /\ OldFormat'
    BY <1>1, <2>1 DEF Typed, Scalars, OldFormat
  <2>11. \A k \in DOMAIN rows' : k[2] = Personal
    BY <2>4
  <2>12. QED
    BY <2>7, <2>8, <2>9, <2>10, <2>11 DEF Typed
<1>4. QED
  BY <1>2, <1>3

--------------------------------------------------------------------------------
(* Decay *)

\* As time goes on, what is due is what was due, decayed further.
LEMMA DueLater ==
    ASSUME NEW k, NEW b, b.weight \in 0 .. WeightCap, b.at \in Nat,
           NEW ld \in Nat, NEW later \in Nat, NEW e \in Nat, later <= MaxTime,
           Less(later, b.at) = Less(ld, b.at) + e
    PROVE  /\ Due(k, b, ld) \in 0 .. WeightCap
           /\ Halvings(k[2]) * e \in SomeHalvings
           /\ Due(k, b, later) = Faded(Due(k, b, ld), k[2], b.count, Halvings(k[2]) * e)
<1> DEFINE d == Less(ld, b.at)
           h == Halvings(k[2])
<1>1. d \in Nat /\ d + e <= MaxTime /\ Less(later, b.at) = d + e
  <2>1. Less(ld, b.at) \in 0 .. ld /\ Less(later, b.at) \in 0 .. later
    BY LessIs
  <2>2. QED
    BY <2>1, Parameters
<1> HIDE DEF d
<1>2. /\ h * d \in SomeHalvings /\ h * e \in SomeHalvings /\ h * (d + e) \in SomeHalvings
      /\ h * (d + e) = h * d + h * e
  BY <1>1, HalvingsAdd
<1>3. /\ Due(k, b, ld) = Faded(b.weight, k[2], b.count, h * d)
      /\ Due(k, b, later) = Faded(b.weight, k[2], b.count, h * (d + e))
  BY <1>1 DEF Due, d
<1> HIDE DEF h
<1>4. Faded(Faded(b.weight, k[2], b.count, h * d), k[2], b.count, h * e)
        = Faded(b.weight, k[2], b.count, h * d + h * e)
  BY <1>2, FadedTwice
<1>5. Due(k, b, ld) \in 0 .. WeightCap
  BY <1>2, <1>3, FadedIs
<1>6. QED
  BY <1>2, <1>3, <1>4, <1>5 DEF h

LEMMA DecayStep ==
    ASSUME Typed, DecayedOnce, NEW p \in Proc, Decay(p)
    PROVE  Typed' /\ DecayedOnce' /\ DOMAIN rows' \subseteq DOMAIN rows
<1> DEFINE ts == job[p].ts
           due == {k \in DOMAIN rows : k[2] \in job[p].list \cup {Shared, Ephemeral}}
           after == [k \in DOMAIN rows |->
                       IF k \in due THEN Decayed(k, rows[k], last_decay, ts) ELSE rows[k]]
           late == {k \in DOMAIN rows : k[2] \in DefaultNamespaces \ job[p].list}
           left == {k \in DOMAIN rows : k \notin due \/ ~Dead(k, after[k])}
<1>1. /\ job[p].op = "decay" /\ Goto(p, Open)
      /\ UNCHANGED <<format, table, code, clock>>
      /\ rows' = Only(after, left) /\ last_decay' = Later(ts, last_decay)
      /\ base' = [k \in DOMAIN base |->
                    IF k \in late THEN Since(rows[k], base[k].ns, Later(ts, last_decay)) ELSE base[k]]
  BY Zenon DEF Decay
<1>2. format = "v1" /\ ts \in 0 .. clock /\ job[p].list \subseteq Usual
  BY <1>1, BusyJob DEF JobFine
<1>3. /\ clock \in Nat /\ clock <= MaxTime /\ MaxTime \in Nat
      /\ last_decay \in Nat /\ last_decay <= clock
  BY Clocks
<1>4. /\ last_decay' \in 0 .. clock /\ last_decay <= last_decay' /\ last_decay' \in Nat
      /\ last_decay' <= MaxTime /\ ts \in Nat
  BY <1>1, <1>2, <1>3 DEF Later
<1>5. /\ \A k \in late : k \in DOMAIN rows /\ k \notin due
      /\ \A k \in DOMAIN rows : k \notin due /\ k \notin late => k[2] = Structural
      /\ due \subseteq DOMAIN rows /\ left \subseteq DOMAIN rows
      /\ \A k \in DOMAIN rows : k \notin due => k \in left
  BY <1>2 DEF DefaultNamespaces, Usual
<1>6. /\ \A k \in DOMAIN rows : k \in due => after[k] = Decayed(k, rows[k], last_decay, ts)
      /\ \A k \in DOMAIN rows : k \notin due => after[k] = rows[k]
      /\ \A k \in due : k \notin left => Dead(k, after[k])
  OBVIOUS
<1> HIDE DEF due, after, late, left, ts
<1>7. /\ DOMAIN rows' = left /\ DOMAIN base' = DOMAIN base
      /\ \A k \in left : rows'[k] = after[k]
      /\ \A k \in late : base'[k] = Since(rows[k], base[k].ns, last_decay')
      /\ \A k \in DOMAIN base : k \notin late => base'[k] = base[k]
  <2>1. late \subseteq DOMAIN base
    BY <1>5, Weights
  <2>2. QED
    BY <1>1, <2>1, OnlyIs
<1> DEFINE Good(k) == /\ base'[k] \in Written(clock)
                      /\ Fits(k, base'[k], last_decay', rows')
                      /\ k \in left =>
                            /\ RowFine(rows'[k], clock) /\ rows'[k].last <= base'[k].at
                            /\ base'[k].at = rows'[k].last \/ base'[k].at <= last_decay'
\* let off
<1>8. ASSUME NEW k \in late
      PROVE  Good(k)
  <2>1. k \in left /\ rows'[k] = rows[k] /\ base'[k] = Since(rows[k], base[k].ns, last_decay')
    BY <1>5, <1>6, <1>7
  <2>2. RowFine(rows[k], clock) /\ base[k].ns \in Namespace /\ last_decay' \in 0 .. last_decay'
    BY <1>4, <1>5, Weights DEF Typed, RowsFine
  <2>3. /\ base'[k] \in Written(clock) /\ rows[k].last <= base'[k].at
        /\ base'[k].at = rows[k].last \/ base'[k].at <= last_decay'
        /\ base'[k].count = rows[k].count
        /\ Due(k, base'[k], last_decay') = rows[k].weight
    BY <1>3, <1>4, <2>1, <2>2, SinceIs
  <2>4. QED
    BY <1>7, <2>1, <2>2, <2>3 DEF Fits
<1>9. ASSUME NEW k \in DOMAIN base
      PROVE  /\ base[k].weight \in 0 .. WeightCap /\ base[k].at \in Nat /\ base[k].count \in Nat
             /\ base[k] \in Written(clock)
             /\ Fits(k, base[k], last_decay, rows)
  BY Weights, DecayedOnceIs DEF Typed, RowsFine
\* decayed, or dead of it
<1>10. ASSUME NEW k \in due
       PROVE  Good(k)
  <2> DEFINE o == Less(ts, Later(rows[k].last, last_decay))
             h == Halvings(k[2])
  <2>1. /\ k \in DOMAIN rows /\ k \in DOMAIN base /\ k \notin late
        /\ rows[k].weight \in 0 .. WeightCap /\ rows[k].count \in Nat /\ rows[k].last \in Nat
        /\ rows[k].last <= clock
        /\ rows[k] = [weight |-> rows[k].weight, count |-> rows[k].count, last |-> rows[k].last]
        /\ rows[k].last <= base[k].at
        /\ base[k].at = rows[k].last \/ base[k].at <= last_decay
    BY <1>5, Weights DEF Typed, RowsFine
  <2>2. rows[k].weight = Due(k, base[k], last_decay) /\ rows[k].count = base[k].count
    BY <1>9, <2>1 DEF Fits
  <2>3. Less(last_decay', base[k].at) = Less(last_decay, base[k].at) + o
    BY <1>1, <1>3, <1>4, <1>9, <2>1, OwedOnce
  <2>4. o \in Nat
    BY <1>3, <1>4, <2>1, LessIs
  <2>5. after[k] = [rows[k] EXCEPT !.weight = Faded(@, k[2], rows[k].count, h * o)]
    BY <1>6, <2>1 DEF Decayed, Owed
  <2> HIDE DEF o
  <2>6. /\ h * o \in SomeHalvings
        /\ Due(k, base[k], last_decay') = Faded(rows[k].weight, k[2], rows[k].count, h * o)
    BY <1>3, <1>4, <1>9, <2>1, <2>2, <2>3, <2>4, DueLater
  <2> HIDE DEF h
  <2>7. Faded(rows[k].weight, k[2], rows[k].count, h * o) \in 0 .. WeightCap
    BY <2>1, <2>6, FadedIs
  <2>8. PICK w \in 0 .. WeightCap : w = Faded(rows[k].weight, k[2], rows[k].count, h * o)
    BY <2>7
  <2>9. after[k] = [weight |-> w, count |-> rows[k].count, last |-> rows[k].last]
    BY <2>1, <2>5, <2>8
  <2>10. RowFine(after[k], clock)
    <3>1. rows[k].last \in 0 .. MaxTime
      BY <1>3, <2>1
    <3>2. QED
      BY <2>1, <2>9, <3>1 DEF RowFine, Row
  <2>11. base'[k] = base[k] /\ Due(k, base'[k], last_decay') = w
    BY <1>7, <2>1, <2>6, <2>8
  <2>12. CASE k \in left
    <3>1. rows'[k] = after[k]
      BY <1>7, <2>12
    <3>2. Fits(k, base'[k], last_decay', rows')
      BY <1>7, <2>2, <2>9, <2>11, <2>12, <3>1 DEF Fits
    <3>3. /\ rows'[k].last <= base'[k].at
          /\ base'[k].at = rows'[k].last \/ base'[k].at <= last_decay'
      BY <1>3, <1>4, <1>9, <2>1, <2>9, <2>11, <3>1
    <3>4. QED
      BY <1>9, <2>1, <2>10, <2>11, <3>1, <3>2, <3>3
  <2>13. CASE k \notin left
    <3>1. w < Pruned /\ ~Ltp(k[2], base[k].count)
      BY <1>6, <2>2, <2>9, <2>13 DEF Dead
    <3>2. Fits(k, base'[k], last_decay', rows')
      BY <1>7, <2>11, <2>13, <3>1 DEF Fits
    <3>3. QED
      BY <1>9, <2>1, <2>11, <2>13, <3>2
  <2>14. QED
    BY <2>12, <2>13
\* structural: it owes nothing ever
<1>11. ASSUME NEW k \in DOMAIN rows, k \notin due, k \notin late
       PROVE  Good(k)
  <2>1. /\ k \in left /\ k \in DOMAIN base /\ rows'[k] = rows[k] /\ base'[k] = base[k]
        /\ k[2] = Structural
    BY <1>5, <1>6, <1>7, <1>11, Weights
  <2>2. Halvings(k[2]) = 0
    BY <2>1, StructuralNeverFades
  <2>3. Due(k, base[k], last_decay') = Due(k, base[k], last_decay)
    <3>1. Less(last_decay, base[k].at) \in Nat /\ Less(last_decay', base[k].at) \in Nat
      BY <1>3, <1>4, <1>9, <2>1, LessIs
    <3>2. /\ Halvings(k[2]) * Less(last_decay, base[k].at) = 0
          /\ Halvings(k[2]) * Less(last_decay', base[k].at) = 0
      BY <2>2, <3>1
    <3>3. QED
      BY <3>2 DEF Due
  <2>4. Fits(k, base[k], last_decay, rows) /\ base[k] \in Written(clock) /\ base[k].at \in Nat
    BY <1>9, <2>1
  <2>5. Fits(k, base'[k], last_decay', rows')
    BY <1>7, <2>1, <2>3, <2>4 DEF Fits
  <2>6. /\ RowFine(rows[k], clock) /\ rows[k].last <= base[k].at
        /\ base[k].at = rows[k].last \/ base[k].at <= last_decay
    BY DEF Typed, RowsFine
  <2>7. QED
    BY <1>3, <1>4, <2>1, <2>4, <2>5, <2>6
\* already dead
<1>12. ASSUME NEW k \in DOMAIN base, k \notin DOMAIN rows
       PROVE  Good(k)
  <2> DEFINE e == Less(last_decay', base[k].at) - Less(last_decay, base[k].at)
  <2>1. k \notin left /\ k \notin late /\ base'[k] = base[k]
    BY <1>5, <1>7, <1>12
  <2>2. Due(k, base[k], last_decay) < Pruned /\ ~Ltp(k[2], base[k].count)
    BY <1>9, <1>12 DEF Fits
  <2>3. e \in Nat /\ Less(last_decay', base[k].at) = Less(last_decay, base[k].at) + e
    BY <1>3, <1>4, <1>9 DEF Less
  <2> HIDE DEF e
  <2>4. /\ Due(k, base[k], last_decay) \in 0 .. WeightCap
        /\ Halvings(k[2]) * e \in SomeHalvings
        /\ Due(k, base[k], last_decay')
             = Faded(Due(k, base[k], last_decay), k[2], base[k].count, Halvings(k[2]) * e)
    BY <1>3, <1>4, <1>9, <2>3, DueLater
  <2>5. /\ Due(k, base[k], last_decay') <= Due(k, base[k], last_decay)
        /\ Due(k, base[k], last_decay') \in 0 .. WeightCap
    BY <2>2, <2>4, FadedIs
  <2>6. Due(k, base[k], last_decay') < Pruned
    BY <2>2, <2>4, <2>5, Parameters
  <2>7. QED
    BY <1>7, <1>9, <2>1, <2>2, <2>6 DEF Fits
<1>13. ASSUME NEW k \in DOMAIN base
       PROVE  Good(k)
  BY <1>8, <1>10, <1>11, <1>12
<1>14. RowsFine'
  <2>1. left \subseteq DOMAIN base /\ DOMAIN base \subseteq Key
    BY <1>5 DEF Typed, RowsFine
  <2>2. QED
    BY <1>1, <1>7, <1>13, <2>1 DEF RowsFine
<1>15. DecayedOnce'
  <2>1. DecayedOnce' <=> \A k \in DOMAIN base' : Fits(k, base'[k], last_decay', rows')
    BY DEF DecayedOnce, Fits, Due
  <2>2. QED
    BY <1>7, <1>13, <2>1
<1>16. JobsFine'
  BY <1>1, <1>2, BackOpen
<1>17. Scalars' /\ OldFormat'
  BY <1>1, <1>2, <1>4 DEF Typed, Scalars, OldFormat
<1>18. QED
  BY <1>5, <1>7, <1>14, <1>15, <1>16, <1>17 DEF Typed

--------------------------------------------------------------------------------
(* Any step *)

\* Every step keeps the types and every row's account.
LEMMA TypedStep ==
    ASSUME Typed, DecayedOnce, Next
    PROVE  Typed' /\ DecayedOnce'
<1>1. CASE Tick
  BY <1>1, TickStep
<1>2. CASE \E g \in SUBSET Pair : Checkout(g)
  BY <1>2, CheckoutStep
<1>3. ASSUME NEW p \in Proc,
             \/ \E k \in Key : StartReinforce(p, k)
             \/ \E q \in Pair, n \in {1, LtpThreshold} : StartImport(p, q, n)
             \/ StartDecay(p) \/ StartBuild(p)
      PROVE  Typed' /\ DecayedOnce'
  BY <1>3, StartStep
<1>4. ASSUME NEW p \in Proc,
             OpenStore(p) \/ Persist(p, TRUE) \/ Persist(p, FALSE) \/ SeedRead(p) \/ Kill(p)
      PROVE  Typed' /\ DecayedOnce'
  BY <1>4, OnwardStep
<1>5. ASSUME NEW p \in Proc, Reinforce(p) \/ ImportEdges(p)
      PROVE  Typed' /\ DecayedOnce'
  BY <1>5, UpsertStep
<1>6. ASSUME NEW p \in Proc, NEW k \in Key, Penalize(p, k)
      PROVE  Typed' /\ DecayedOnce'
  BY <1>6, PenalizeStep
<1>7. ASSUME NEW p \in Proc, NEW pairs \in SUBSET Pair, DecayNode(p, pairs)
      PROVE  Typed' /\ DecayedOnce'
  BY <1>7, DecayNodeStep
<1>8. ASSUME NEW p \in Proc, NEW keys, Delete(p, keys)
      PROVE  Typed' /\ DecayedOnce'
  BY <1>8, DeleteStep
<1>9. ASSUME NEW p \in Proc, Decay(p)
      PROVE  Typed' /\ DecayedOnce'
  BY <1>9, DecayStep
<1>10. ASSUME NEW p \in Proc, SeedReplace(p)
       PROVE  Typed' /\ DecayedOnce'
  BY <1>10, SeedReplaceStep
<1>11. ASSUME NEW p \in Proc, Migrate(p)
       PROVE  Typed' /\ DecayedOnce'
  BY <1>11, MigrateStep
<1>12. QED
  BY NextCases, <1>1, <1>2, <1>3, <1>4, <1>5, <1>6, <1>7, <1>8, <1>9, <1>10, <1>11, Zenon

LEMMA InitFits ==
    ASSUME Init
    PROVE  Typed /\ DecayedOnce
<1>1. /\ format \in {"v0", "v1"} /\ last_decay = 0 /\ table = {} /\ code = {} /\ clock = 0
      /\ job = [p \in Proc |-> Closed]
      /\ base = [k \in DOMAIN rows |-> Since(rows[k], k[2], 0)]
  BY Zenon DEF Init
<1>2. PICK old \in SUBSET Pair :
        rows = [k \in old \X {Personal} |-> [weight |-> WeightCap, count |-> 1, last |-> 0]]
  BY Zenon DEF Init
<1>3. 0 \in 0 .. MaxTime /\ 0 \in 0 .. 0 /\ WeightCap \in 0 .. WeightCap
  BY Parameters
<1>4. DOMAIN rows \subseteq Key /\ \A k \in DOMAIN rows : k[2] = Personal /\ k[2] \in Namespace
  BY <1>2, Namespaces DEF Key
<1>5. \A k \in DOMAIN rows : RowFine(rows[k], 0)
  BY <1>2, <1>3 DEF RowFine, Row
<1>6. ASSUME NEW k \in DOMAIN rows
      PROVE  /\ base[k] \in Written(0) /\ rows[k].last <= base[k].at
             /\ base[k].at = rows[k].last \/ base[k].at <= 0
             /\ Fits(k, base[k], 0, rows)
  <2>1. base[k] = Since(rows[k], k[2], 0) /\ RowFine(rows[k], 0) /\ k[2] \in Namespace
    BY <1>1, <1>4, <1>5
  <2>2. /\ base[k] \in Written(0) /\ rows[k].last <= base[k].at
        /\ base[k].at = rows[k].last \/ base[k].at <= 0
        /\ base[k].count = rows[k].count
        /\ Due(k, base[k], 0) = rows[k].weight
    BY <1>3, <2>1, SinceIs
  <2>3. QED
    BY <2>2 DEF Fits
<1>7. DOMAIN base = DOMAIN rows
  BY <1>1
<1>8. RowsFine
  BY <1>1, <1>4, <1>5, <1>6, <1>7 DEF RowsFine
<1>9. DecayedOnce
  BY <1>1, <1>6, <1>7, DecayedOnceIs
<1>10. Scalars /\ OldFormat
  BY <1>1, <1>3, <1>4 DEF Scalars, OldFormat
<1>11. JobsFine
  BY <1>1, RestFine DEF JobsFine
<1>12. QED
  BY <1>8, <1>9, <1>10, <1>11 DEF Typed

--------------------------------------------------------------------------------
(* Builds that no other build overlaps *)

\* A step in which nobody goes on with a build, though some may leave theirs.
LEMMA AloneRest ==
    ASSUME Alone, alone' \subseteq alone, table' = table,
           \A q \in Proc : job'[q] = job[q] \/ ~Building(q)'
    PROVE  Alone'
<1>1. ASSUME NEW p \in alone'
      PROVE  /\ p \in Proc /\ p \in alone
             /\ \A q \in Proc : Building(q)' => q = p
             /\ job'[p].op = "seed" => table' = job'[p].graph
             /\ job'[p].op = "replace" => job'[p].seen = job'[p].graph
  <2>1. p \in alone /\ p \in Proc
    BY DEF Alone
  <2>2. \A q \in Proc : Building(q) => q = p
    BY <2>1 DEF Alone
  <2>3. \A q \in Proc : job'[q] = job[q] /\ Building(q)' => Building(q)
    BY DEF Building
  <2>4. /\ job[p].op = "seed" => table = job[p].graph
        /\ job[p].op = "replace" => job[p].seen = job[p].graph
    BY <2>1 DEF Alone
  <2>5. CASE job'[p] = job[p]
    BY <2>1, <2>2, <2>3, <2>4, <2>5
  <2>6. CASE ~Building(p)'
    BY <2>1, <2>2, <2>3, <2>6 DEF Building
  <2>7. QED
    BY <2>1, <2>5, <2>6
<1>2. QED
  BY <1>1 DEF Alone

LEMMA AloneOneJob ==
    ASSUME Typed, Alone, NEW p \in Proc, NEW j, Goto(p, j),
           j.op \notin {"persist", "seed", "replace"}, alone' \subseteq alone, table' = table
    PROVE  Alone'
<1>1. job'[p] = j /\ \A q \in Proc : q # p => job'[q] = job[q]
  BY DEF Goto, Typed, JobsFine
<1>2. QED
  BY <1>1, AloneRest DEF Building

LEMMA StartBuildAlone ==
    ASSUME Typed, Alone, NEW p \in Proc, StartBuild(p)
    PROVE  Alone'
<1>1. /\ Goto(p, [op |-> "persist", graph |-> code])
      /\ alone' = IF \E q \in Proc : Building(q) THEN {} ELSE {p}
  BY Zenon DEF StartBuild, Begin
<1>2. job'[p].op = "persist" /\ \A q \in Proc : q # p => job'[q] = job[q]
  BY <1>1 DEF Goto, Typed, JobsFine
<1>3. CASE \E q \in Proc : Building(q)
  BY <1>1, <1>3 DEF Alone
<1>4. CASE \A q \in Proc : ~Building(q)
  <2>1. alone' = {p}
    BY <1>1, <1>4
  <2>2. \A q \in Proc : Building(q)' => q = p
    BY <1>2, <1>4 DEF Building
  <2>3. QED
    BY <1>2, <2>1, <2>2 DEF Alone
<1>5. QED
  BY <1>3, <1>4

LEMMA PersistAlone ==
    ASSUME Typed, Alone, NEW p \in Proc, NEW fails, Persist(p, fails)
    PROVE  Alone'
<1> DEFINE skips == fails \/ job[p].graph = {}
<1>1. /\ job[p].op = "persist"
      /\ table' = IF skips THEN table ELSE job[p].graph
      /\ alone' = IF skips THEN alone \ {p} ELSE alone
      /\ Goto(p, [op |-> "seed", graph |-> job[p].graph])
  BY Zenon DEF Persist
<1>2. /\ job'[p].op = "seed" /\ job'[p].graph = job[p].graph
      /\ \A q \in Proc : q # p => job'[q] = job[q]
  BY <1>1 DEF Goto, Typed, JobsFine
<1>3. Building(p) /\ alone \subseteq Proc
  BY <1>1 DEF Building, Alone
<1>4. \A r \in alone : r = p /\ \A q \in Proc : Building(q) => q = p
  BY <1>3 DEF Alone
<1>5. ASSUME NEW r \in alone'
      PROVE  r = p /\ table' = job[p].graph /\ \A q \in Proc : Building(q)' => q = p
  <2>1. r = p /\ ~skips
    BY <1>1, <1>4
  <2>2. \A q \in Proc : q # p => (Building(q)' <=> Building(q))
    BY <1>2 DEF Building
  <2>3. QED
    BY <1>1, <1>4, <2>1, <2>2
<1>6. QED
  BY <1>2, <1>5 DEF Alone

LEMMA SeedReadAlone ==
    ASSUME Typed, Alone, NEW p \in Proc, SeedRead(p)
    PROVE  Alone'
<1>1. /\ job[p].op = "seed" /\ UNCHANGED <<table, alone>>
      /\ Goto(p, [op |-> "replace", ts |-> clock, seen |-> table, graph |-> job[p].graph])
  BY Zenon DEF SeedRead
<1>2. /\ job'[p].op = "replace" /\ job'[p].seen = table /\ job'[p].graph = job[p].graph
      /\ \A q \in Proc : q # p => job'[q] = job[q]
  BY <1>1 DEF Goto, Typed, JobsFine
<1>3. Building(p) /\ alone \subseteq Proc
  BY <1>1 DEF Building, Alone
<1>4. \A r \in alone : /\ r = p /\ table = job[p].graph
                       /\ \A q \in Proc : Building(q) => q = p
  BY <1>1, <1>3 DEF Alone
<1>5. \A q \in Proc : q # p => (Building(q)' <=> Building(q))
  BY <1>2 DEF Building
<1>6. QED
  BY <1>1, <1>2, <1>4, <1>5 DEF Alone

LEMMA AloneStep ==
    ASSUME Typed, Alone, Next
    PROVE  Alone'
<1>1. CASE Tick
  <2>1. UNCHANGED <<alone, table, job>>
    BY <1>1, Zenon DEF Tick
  <2>2. QED
    BY <2>1, AloneRest
<1>2. CASE \E g \in SUBSET Pair : Checkout(g)
  <2>1. UNCHANGED <<alone, table, job>>
    BY <1>2, Zenon DEF Checkout
  <2>2. QED
    BY <2>1, AloneRest
<1>3. ASSUME NEW p \in Proc, NEW k, StartReinforce(p, k)
      PROVE  Alone'
  <2>1. /\ UNCHANGED <<alone, table>>
        /\ Goto(p, [op |-> "reinforce", ts |-> clock, key |-> k])
    BY <1>3, Zenon DEF StartReinforce, Begin
  <2>2. QED
    BY <2>1, AloneOneJob
<1>4. ASSUME NEW p \in Proc, NEW q, NEW n, StartImport(p, q, n)
      PROVE  Alone'
  <2>1. /\ UNCHANGED <<alone, table>>
        /\ Goto(p, [op |-> "import", ts |-> clock, key |-> <<q, Shared>>, count |-> n])
    BY <1>4, Zenon DEF StartImport, Begin
  <2>2. QED
    BY <2>1, AloneOneJob
<1>5. ASSUME NEW p \in Proc, StartDecay(p)
      PROVE  Alone'
  <2>1. /\ UNCHANGED <<alone, table>>
        /\ Goto(p, [op |-> "decay", ts |-> clock, list |-> DefaultNamespaces])
    BY <1>5, Zenon DEF StartDecay, Begin
  <2>2. QED
    BY <2>1, AloneOneJob
<1>6. ASSUME NEW p \in Proc, Reinforce(p) \/ ImportEdges(p) \/ Decay(p) \/ SeedReplace(p)
      PROVE  Alone'
  <2>1. alone' \subseteq alone /\ table' = table /\ Goto(p, Open)
    <3>1. table' = table /\ Goto(p, Open) /\ (alone' = alone \/ alone' = alone \ {p})
      BY <1>6, Zenon DEF Reinforce, ImportEdges, Decay, SeedReplace
    <3>2. QED
      BY <3>1
  <2>2. Open.op \notin {"persist", "seed", "replace"}
    BY DEF Open
  <2>3. QED
    BY <2>1, <2>2, AloneOneJob
<1>7. ASSUME NEW p \in Proc, OpenStore(p) \/ Migrate(p) \/ Kill(p)
      PROVE  Alone'
  <2>1. /\ table' = table /\ (alone' = alone \/ alone' = alone \ {p})
        /\ Goto(p, [op |-> "migrate"]) \/ Goto(p, Open) \/ Goto(p, Closed)
    BY <1>7, Zenon DEF OpenStore, Migrate, Kill
  <2>2. /\ Open.op \notin {"persist", "seed", "replace"}
        /\ Closed.op \notin {"persist", "seed", "replace"}
        /\ [op |-> "migrate"].op \notin {"persist", "seed", "replace"}
    BY DEF Open, Closed
  <2>3. alone' \subseteq alone
    BY <2>1
  <2>4. QED
    BY <2>1, <2>2, <2>3, AloneOneJob
<1>8. ASSUME NEW p \in Proc, NEW k,
             Penalize(p, k) \/ DecayNode(p, k) \/ Delete(p, k)
      PROVE  Alone'
  <2>1. UNCHANGED <<alone, table, job>>
    BY <1>8, Zenon DEF Penalize, DecayNode, Delete
  <2>2. QED
    BY <2>1, AloneRest
<1>9. ASSUME NEW p \in Proc,
             StartBuild(p) \/ Persist(p, TRUE) \/ Persist(p, FALSE) \/ SeedRead(p)
      PROVE  Alone'
  BY <1>9, StartBuildAlone, PersistAlone, SeedReadAlone
<1>10. QED
  BY NextCases, <1>1, <1>2, <1>3, <1>4, <1>5, <1>6, <1>7, <1>8, <1>9, Zenon

LEMMA SeedsIs ==
    SeedsOfLastBuild <=>
        (built # {} => \A k \in DOMAIN rows : k[2] = Structural => k[1] \in built)
BY DEF SeedsOfLastBuild

\* No seed comes but by a build.
LEMMA SeedsRest ==
    ASSUME SeedsOfLastBuild, built' \in {built, {}},
           \A k \in DOMAIN rows' : k[2] = Structural => k \in DOMAIN rows
    PROVE  SeedsOfLastBuild'
<1>1. SeedsOfLastBuild' <=>
        (built' # {} => \A k \in DOMAIN rows' : k[2] = Structural => k[1] \in built')
  BY DEF SeedsOfLastBuild
<1>2. QED
  BY <1>1, SeedsIs

LEMMA SeedsStep ==
    ASSUME Typed, DecayedOnce, Alone, SeedsOfLastBuild, Next
    PROVE  SeedsOfLastBuild'
<1>1. CASE Tick \/ \E g \in SUBSET Pair : Checkout(g)
  <2>1. UNCHANGED <<rows, built>>
    BY <1>1, Zenon DEF Tick, Checkout
  <2>2. QED
    BY <2>1, SeedsRest
<1>2. ASSUME NEW p \in Proc,
             \/ \E k \in Key : StartReinforce(p, k)
             \/ \E q \in Pair, n \in {1, LtpThreshold} : StartImport(p, q, n)
             \/ StartDecay(p) \/ StartBuild(p)
             \/ OpenStore(p) \/ Persist(p, TRUE) \/ Persist(p, FALSE) \/ SeedRead(p) \/ Kill(p)
      PROVE  SeedsOfLastBuild'
  <2>1. rows' = rows /\ (built' = built \/ built' = {})
    BY <1>2, Zenon DEF StartReinforce, StartImport, StartDecay, StartBuild, OpenStore,
                       Persist, SeedRead, Kill
  <2>2. QED
    BY <2>1, SeedsRest
<1>3. ASSUME NEW p \in Proc, Reinforce(p) \/ ImportEdges(p)
      PROVE  SeedsOfLastBuild'
  <2>1. built' = built
    BY <1>3, Zenon DEF Reinforce, ImportEdges
  <2>2. PICK k \in Key : k[2] # Structural /\ DOMAIN rows' = DOMAIN rows \cup {k}
    BY <1>3, UpsertStep
  <2>3. QED
    BY <2>1, <2>2, SeedsRest
<1>4. ASSUME NEW p \in Proc,
             \/ \E k \in Key : Penalize(p, k)
             \/ \E pairs \in SUBSET Pair : DecayNode(p, pairs)
             \/ \E keys : Delete(p, keys)
             \/ Decay(p)
      PROVE  SeedsOfLastBuild'
  <2>1. built' = built
    BY <1>4, Zenon DEF Penalize, DecayNode, Delete, Decay
  <2>2. DOMAIN rows' \subseteq DOMAIN rows
    BY <1>4, PenalizeStep, DecayNodeStep, DeleteStep, DecayStep
  <2>3. QED
    BY <2>1, <2>2, SeedsRest
<1>5. ASSUME NEW p \in Proc, Migrate(p)
      PROVE  SeedsOfLastBuild'
  <2>1. built' = built
    BY <1>5, Zenon DEF Migrate
  <2>2. rows' = rows \/ \A k \in DOMAIN rows' : k[2] = Personal
    BY <1>5, MigrateStep
  <2>3. Personal # Structural
    BY Namespaces
  <2>4. QED
    BY <2>1, <2>2, <2>3, SeedsRest
\* what the build read is what it persisted, and that is the graph it loaded
<1>6. ASSUME NEW p \in Proc, SeedReplace(p)
      PROVE  SeedsOfLastBuild'
  <2>1. job[p].op = "replace" /\ built' = IF p \in alone THEN job[p].graph ELSE {}
    BY <1>6, Zenon DEF SeedReplace
  <2>2. \A k \in DOMAIN rows' : k[2] = Structural => k[1] \in job[p].seen
    BY <1>6, SeedReplaceStep
  <2>3. p \in alone => job[p].seen = job[p].graph
    BY <2>1 DEF Alone
  <2>4. built' # {} => \A k \in DOMAIN rows' : k[2] = Structural => k[1] \in built'
    BY <2>1, <2>2, <2>3
  <2>5. QED
    BY <2>4 DEF SeedsOfLastBuild
<1>7. QED
  BY NextCases, <1>1, <1>2, <1>3, <1>4, <1>5, <1>6, Zenon

--------------------------------------------------------------------------------
(* The theorems *)

LEMMA Stutters ==
    ASSUME UNCHANGED vars
    PROVE  /\ Typed => Typed'
           /\ DecayedOnce => DecayedOnce'
           /\ Alone => Alone'
           /\ SeedsOfLastBuild => SeedsOfLastBuild'
<1>1. UNCHANGED <<format, rows, last_decay, table, code, clock, job, base, alone, built>>
  BY Zenon DEF vars
<1>2. Typed => Typed'
  BY <1>1 DEF Typed, Scalars, OldFormat, RowsFine, JobsFine
<1>3. DecayedOnce => DecayedOnce'
  BY <1>1, Zenon DEF DecayedOnce
<1>4. Alone => Alone'
  BY <1>1 DEF Alone, Building
<1>5. SeedsOfLastBuild => SeedsOfLastBuild'
  BY <1>1, Zenon DEF SeedsOfLastBuild
<1>6. QED
  BY <1>2, <1>3, <1>4, <1>5

LEMMA AccountsKept == Spec => [](Typed /\ DecayedOnce)
<1>1. Init => Typed /\ DecayedOnce
  BY InitFits
<1>2. Typed /\ DecayedOnce /\ [Next]_vars => (Typed /\ DecayedOnce)'
  BY TypedStep, Stutters
<1>3. QED
  BY <1>1, <1>2, PTL DEF Spec

\* Whoever writes, with a time or a list of namespaces from before another's
\* transaction, the tables stay a store: no weight below nothing or above WEIGHT_CAP,
\* no row activated in the future, no row of a namespace in a database of the old
\* format (synapses.py:517 _migrate_v0_to_v1, :909 decay).
THEOREM TypeCorrect == Spec => []TypeOK
<1>1. Typed => TypeOK
  BY TypedIsTypeOK
<1>2. QED
  BY AccountsKept, <1>1, PTL

\* However many processes call decay(), at once, killed, with an older time or an
\* older list of namespaces than one that ran before, a row has decayed once for the
\* time since it was last written: the last_decay_at that decay() leaves, and
\* activations after it, say what each row still owes (synapses.py:909).
THEOREM DecaysOnce == Spec => []DecayedOnce
BY AccountsKept, PTL

\* A build that no other build overlapped leaves in the structural namespace no pair
\* that its graph does not have, whatever earlier ones left there: the graph
\* persisted replaces the last, and the seeds the last seeds (synapses.py:1210
\* persist_structural_edges, :1576 seed_from_structural).
THEOREM SeedsReplaced == Spec => []SeedsOfLastBuild
<1>1. Init => Alone /\ SeedsOfLastBuild
  BY DEF Init, Alone, SeedsOfLastBuild
<1>2. Typed /\ DecayedOnce /\ Alone /\ SeedsOfLastBuild /\ [Next]_vars
        => (Alone /\ SeedsOfLastBuild)'
  BY AloneStep, SeedsStep, Stutters
<1>3. QED
  BY AccountsKept, <1>1, <1>2, PTL DEF Spec
================================================================================

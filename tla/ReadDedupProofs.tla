---------------------------- MODULE ReadDedupProofs ----------------------------
(***************************************************************************)
(* Proofs about ReadDedup, for every number of agents, keys, texts, rows   *)
(* and every age limit, of what its runs check on small instances.  The    *)
(* stub properties need that the hooks of the session run in one project   *)
(* directory (OneRoot); with two, they fail (run read_dedup_two_roots).    *)
(***************************************************************************)
EXTENDS ReadDedup, TLAPS

OneRoot == \A r, s \in Root : r = s

--------------------------------------------------------------------------------
(* Type correctness *)

\* What every action does to the rows keeps them rows.
LEMMA RowTypes ==
    ASSUME TypeOK, NEW r \in Root, NEW a \in Agent, NEW k \in Key
    PROVE  /\ rows[r][<<a, k>>] \in Row \cup {NoRow}
           /\ file[k] \in Content /\ clock \in Time
           /\ <<a, k>> \in Agent \X Key
BY DEF TypeOK

LEMMA DeliveryTypes ==
    ASSUME TypeOK, NEW a \in Agent, NEW k \in Key,
           DeliverFull(a, k) \/ DeliverStub(a, k)
    PROVE  /\ held' \in [Agent -> SUBSET (Key \X Content \X Time)]
           /\ streak' \in [Agent \X Key -> Nat]
<1>1. <<k, file[k], clock>> \in Key \X Content \X Time
  BY DEF TypeOK
<1>2. CASE DeliverFull(a, k)
  BY <1>1, <1>2 DEF TypeOK, DeliverFull
<1>3. CASE DeliverStub(a, k)
  BY <1>3 DEF TypeOK, DeliverStub
<1>4. QED
  BY <1>2, <1>3

\* Putting a row into one root's table keeps the tables well-formed.
LEMMA PutRowType ==
    ASSUME TypeOK, NEW r \in Root, NEW a \in Agent, NEW k \in Key,
           NEW row \in Row, PutRow(r, a, k, row)
    PROVE  rows' \in [Root -> [Agent \X Key -> Row \cup {NoRow}]]
BY DEF TypeOK, PutRow

\* Type correctness of the read cache and of the agents' side of it: the table
\* read_dedup._SCHEMA declares only ever holds well-formed rows.
THEOREM TypeCorrect == Spec => []TypeOK
<1>1. Init => TypeOK
  <2> SUFFICES ASSUME Init PROVE TypeOK
    OBVIOUS
  <2>1. clock \in Time
    BY DedupAssumption DEF Init, Time
  <2>2. untold \in BOOLEAN
    BY DEF Init
  <2>3. /\ rows \in [Root -> [Agent \X Key -> Row \cup {NoRow}]]
        /\ held \in [Agent -> SUBSET (Key \X Content \X Time)]
        /\ streak \in [Agent \X Key -> Nat]
    BY DEF Init
  <2>4. QED
    BY <2>1, <2>2, <2>3 DEF Init, TypeOK
<1>2. TypeOK /\ [Next]_vars => TypeOK'
  <2> SUFFICES ASSUME TypeOK, [Next]_vars PROVE TypeOK'
    OBVIOUS
  <2>1. ASSUME NEW r \in Root, NEW a \in Agent, NEW k \in Key, ObserveMiss(r, a, k)
        PROVE  TypeOK'
    <3>1. [content |-> file[k], at |-> clock, seenAt |-> clock, stubbed |-> FALSE] \in Row
      BY RowTypes DEF Row
    <3>2. QED
      BY <2>1, <3>1, PutRowType, DeliveryTypes DEF ObserveMiss, TypeOK, Time
  <2>2. ASSUME NEW r \in Root, NEW a \in Agent, NEW k \in Key, ObserveAfterStub(r, a, k)
        PROVE  TypeOK'
    <3> DEFINE row == rows[r][<<a, k>>]
    <3>1. row \in Row
      BY <2>2, RowTypes DEF ObserveAfterStub, Stale
    <3>2. [row EXCEPT !.at = clock, !.seenAt = clock, !.stubbed = FALSE] \in Row
      BY <3>1, RowTypes DEF Row
    <3>3. QED
      BY <2>2, <3>2, PutRowType, DeliveryTypes DEF ObserveAfterStub, TypeOK
  <2>3. ASSUME NEW r \in Root, NEW a \in Agent, NEW k \in Key, ObserveRepeat(r, a, k)
        PROVE  TypeOK'
    <3> DEFINE row == rows[r][<<a, k>>]
    <3>1. row \in Row
      BY <2>3, RowTypes DEF ObserveRepeat, Stale
    <3>2. [row EXCEPT !.seenAt = clock, !.stubbed = TRUE] \in Row
      BY <3>1, RowTypes DEF Row
    <3>3. QED
      BY <2>3, <3>2, PutRowType, DeliveryTypes DEF ObserveRepeat, TypeOK
  <2>4. ASSUME NEW a \in Agent, NEW k \in Key, ReadThrough(a, k)
        PROVE  TypeOK'
    BY <2>4, DeliveryTypes DEF ReadThrough, TypeOK
  <2>5. ASSUME NEW a \in Agent, NEW r \in Root, ContextReset(a, r)
        PROVE  TypeOK'
    BY <2>5 DEF ContextReset, TypeOK, NoRows
  <2>6. ASSUME NEW a \in Agent, Forget(a)
        PROVE  TypeOK'
    BY <2>6 DEF Forget, TypeOK
  <2>7. ASSUME NEW r \in Root, Prune(r)
        PROVE  TypeOK'
    BY <2>7 DEF Prune, TypeOK
  <2>8. ASSUME NEW k \in Key, Edit(k)
        PROVE  TypeOK'
    BY <2>8 DEF Edit, TypeOK
  <2>9. CASE Tick
    BY <2>9, DedupAssumption DEF Tick, TypeOK, Time
  <2>10. CASE UNCHANGED vars
    BY <2>10 DEF TypeOK, vars
  <2>11. QED
    BY <2>1, <2>2, <2>3, <2>4, <2>5, <2>6, <2>7, <2>8, <2>9, <2>10 DEF Next, Read
<1>3. QED
  BY <1>1, <1>2, PTL DEF Spec

--------------------------------------------------------------------------------
(* Never two stubs in a row *)

\* What makes NeverTwoStubs inductive: an agent whose last answer for a key was
\* a stub has, if it has a row for the key at all, a row that says so.
StubInv ==
    \A a \in Agent, k \in Key :
        /\ streak[<<a, k>>] <= 1
        /\ \A r \in Root :
             streak[<<a, k>>] > 0 /\ rows[r][<<a, k>>] # NoRow => rows[r][<<a, k>>].stubbed

\* A step that neither delivers a read nor changes a row, other than by deleting
\* it, keeps StubInv: resets, prunings, edits, time.
LEMMA StubInvUndelivered ==
    ASSUME TypeOK, StubInv, UNCHANGED streak,
           \A r \in Root, ak \in Agent \X Key :
               rows'[r][ak] = rows[r][ak] \/ rows'[r][ak] = NoRow
    PROVE  StubInv'
<1> SUFFICES ASSUME NEW a \in Agent, NEW k \in Key
             PROVE  /\ streak[<<a, k>>] <= 1
                    /\ \A r \in Root :
                         streak[<<a, k>>] > 0 /\ rows'[r][<<a, k>>] # NoRow
                            => rows'[r][<<a, k>>].stubbed
  BY DEF StubInv
<1>1. <<a, k>> \in Agent \X Key
  OBVIOUS
<1>2. QED
  BY <1>1 DEF StubInv

\* Deletions never add or change a row.
LEMMA RowsOnlyGo ==
    ASSUME TypeOK, NEW r \in Root, (\E a \in Agent : ContextReset(a, r)) \/ Prune(r)
    PROVE  \A s \in Root, ak \in Agent \X Key :
               rows'[s][ak] = rows[s][ak] \/ rows'[s][ak] = NoRow
<1>1. CASE \E a \in Agent : ContextReset(a, r)
  BY <1>1 DEF TypeOK, ContextReset, NoRows
<1>2. CASE Prune(r)
  <2>1. PICK keep : rows' = [rows EXCEPT ![r] =
                       [ak \in Agent \X Key |-> IF ak \in keep THEN @[ak] ELSE NoRow]]
    BY <1>2 DEF Prune
  <2>2. QED
    BY <2>1 DEF TypeOK
<1>3. QED
  BY <1>1, <1>2

\* A full delivery resets the streak, so what the hook writes to the row of the
\* key does not matter.
LEMMA StubInvFull ==
    ASSUME TypeOK, StubInv, OneRoot, NEW a \in Agent, NEW k \in Key, DeliverFull(a, k),
           UNCHANGED rows \/ \E r \in Root : \E row \in Row : PutRow(r, a, k, row)
    PROVE  StubInv'
<1> SUFFICES ASSUME NEW b \in Agent, NEW j \in Key
             PROVE  /\ streak'[<<b, j>>] <= 1
                    /\ \A s \in Root :
                         streak'[<<b, j>>] > 0 /\ rows'[s][<<b, j>>] # NoRow
                            => rows'[s][<<b, j>>].stubbed
  BY DEF StubInv
<1>1. <<a, k>> \in Agent \X Key /\ <<b, j>> \in Agent \X Key
  OBVIOUS
<1>2. CASE <<a, k>> = <<b, j>>
  BY <1>1, <1>2 DEF DeliverFull, TypeOK
<1>3. CASE <<a, k>> # <<b, j>>
  <2>1. streak'[<<b, j>>] = streak[<<b, j>>]
    BY <1>1, <1>3 DEF DeliverFull, TypeOK
  <2>2. \A s \in Root : rows'[s][<<b, j>>] = rows[s][<<b, j>>]
    BY <1>1, <1>3 DEF PutRow, TypeOK
  <2>3. QED
    BY <2>1, <2>2 DEF StubInv
<1>4. QED
  BY <1>2, <1>3

\* The stub branch of observe(): it runs on a row that is not marked, so the
\* agent's last answer was not a stub, and it marks the row.
LEMMA StubInvStub ==
    ASSUME TypeOK, StubInv, OneRoot, NEW r \in Root, NEW a \in Agent, NEW k \in Key,
           rows[r][<<a, k>>] \in Row, ~rows[r][<<a, k>>].stubbed,
           NEW row \in Row, row.stubbed, PutRow(r, a, k, row), DeliverStub(a, k)
    PROVE  StubInv'
<1> SUFFICES ASSUME NEW b \in Agent, NEW j \in Key
             PROVE  /\ streak'[<<b, j>>] <= 1
                    /\ \A s \in Root :
                         streak'[<<b, j>>] > 0 /\ rows'[s][<<b, j>>] # NoRow
                            => rows'[s][<<b, j>>].stubbed
  BY DEF StubInv
<1>2. <<a, k>> \in Agent \X Key /\ <<b, j>> \in Agent \X Key /\ rows[r][<<a, k>>] # NoRow
  BY NoRowAssumption
<1>3. CASE <<a, k>> = <<b, j>>
  <2>1. streak[<<a, k>>] = 0
    <3>1. streak[<<a, k>>] \in Nat
      BY <1>2 DEF TypeOK
    <3>2. ~(streak[<<a, k>>] > 0)
      BY <1>2 DEF StubInv
    <3>3. QED
      BY <3>1, <3>2
  <2>2. streak'[<<a, k>>] = 1
    BY <1>2, <2>1 DEF DeliverStub, TypeOK
  <2>3. \A s \in Root : rows'[s][<<a, k>>] = row
    BY <1>2 DEF PutRow, TypeOK, OneRoot
  <2>4. QED
    BY <1>3, <2>2, <2>3
<1>4. CASE <<a, k>> # <<b, j>>
  <2>1. streak'[<<b, j>>] = streak[<<b, j>>]
    BY <1>2, <1>4 DEF DeliverStub, TypeOK
  <2>2. \A s \in Root : rows'[s][<<b, j>>] = rows[s][<<b, j>>]
    BY <1>2, <1>4 DEF PutRow, TypeOK
  <2>3. QED
    BY <2>1, <2>2 DEF StubInv
<1>5. QED
  BY <1>3, <1>4

\* "A stub is never followed by another stub for the same read"
\* (read_dedup.py:23), for a session whose hooks all run in one project
\* directory, whatever edits, resets, prunings and failed hooks come between.
THEOREM NeverTwo == OneRoot => (Spec => []NeverTwoStubs)
<1> SUFFICES ASSUME OneRoot PROVE Spec => []NeverTwoStubs
  OBVIOUS
<1>1. Init => StubInv
  BY DEF Init, StubInv
<1>2. TypeOK /\ StubInv /\ [Next]_vars => StubInv'
  <2> SUFFICES ASSUME TypeOK, StubInv, [Next]_vars PROVE StubInv'
    OBVIOUS
  <2>1. ASSUME NEW r \in Root, NEW a \in Agent, NEW k \in Key, ObserveMiss(r, a, k)
        PROVE  StubInv'
    <3>1. [content |-> file[k], at |-> clock, seenAt |-> clock, stubbed |-> FALSE] \in Row
      BY RowTypes DEF Row
    <3>2. QED
      BY <2>1, <3>1, StubInvFull DEF ObserveMiss
  <2>2. ASSUME NEW r \in Root, NEW a \in Agent, NEW k \in Key, ObserveAfterStub(r, a, k)
        PROVE  StubInv'
    <3> DEFINE row == rows[r][<<a, k>>]
    <3>1. row \in Row
      BY <2>2, RowTypes DEF ObserveAfterStub, Stale
    <3>2. [row EXCEPT !.at = clock, !.seenAt = clock, !.stubbed = FALSE] \in Row
      BY <3>1, RowTypes DEF Row
    <3>3. QED
      BY <2>2, <3>2, StubInvFull DEF ObserveAfterStub
  <2>3. ASSUME NEW r \in Root, NEW a \in Agent, NEW k \in Key, ObserveRepeat(r, a, k)
        PROVE  StubInv'
    <3> DEFINE row == rows[r][<<a, k>>]
    <3>1. row \in Row
      BY <2>3, RowTypes DEF ObserveRepeat, Stale
    <3>2. [row EXCEPT !.seenAt = clock, !.stubbed = TRUE] \in Row
      BY <3>1, RowTypes DEF Row
    <3>3. CASE DeliverFull(a, k)
      BY <2>3, <3>2, <3>3, StubInvFull DEF ObserveRepeat
    <3>4. CASE DeliverStub(a, k)
      <4>1. [row EXCEPT !.seenAt = clock, !.stubbed = TRUE].stubbed
        BY <3>1 DEF Row
      <4>2. QED
        BY <2>3, <3>1, <3>2, <3>4, <4>1, StubInvStub DEF ObserveRepeat
    <3>5. QED
      BY <2>3, <3>3, <3>4 DEF ObserveRepeat
  <2>4. ASSUME NEW a \in Agent, NEW k \in Key, ReadThrough(a, k)
        PROVE  StubInv'
    BY <2>4, StubInvFull DEF ReadThrough
  <2>5. ASSUME NEW a \in Agent, NEW r \in Root, ContextReset(a, r)
        PROVE  StubInv'
    <3>1. UNCHANGED streak
      BY <2>5 DEF ContextReset
    <3>2. QED
      BY <2>5, <3>1, RowsOnlyGo, StubInvUndelivered
  <2>6. ASSUME NEW r \in Root, Prune(r)
        PROVE  StubInv'
    <3>1. UNCHANGED streak
      BY <2>6 DEF Prune
    <3>2. QED
      BY <2>6, <3>1, RowsOnlyGo, StubInvUndelivered
  <2>7. CASE UNCHANGED <<rows, streak>>
    BY <2>7, StubInvUndelivered
  <2>8. ASSUME NEW a \in Agent, Forget(a)
        PROVE  UNCHANGED <<rows, streak>>
    BY <2>8 DEF Forget
  <2>9. ASSUME NEW k \in Key, Edit(k)
        PROVE  UNCHANGED <<rows, streak>>
    BY <2>9 DEF Edit
  <2>10. ASSUME Tick \/ UNCHANGED vars
         PROVE  UNCHANGED <<rows, streak>>
    BY <2>10 DEF Tick, vars
  <2>11. QED
    BY <2>1, <2>2, <2>3, <2>4, <2>5, <2>6, <2>7, <2>8, <2>9, <2>10 DEF Next, Read
<1>3. StubInv => NeverTwoStubs
  BY DEF StubInv, NeverTwoStubs
<1>4. QED
  BY <1>1, <1>2, <1>3, TypeCorrect, PTL DEF Spec

--------------------------------------------------------------------------------
(* What a stub claims *)

HoldsSince(texts, k, c, at) == \E t \in Time : at <= t /\ <<k, c, t>> \in texts

\* What makes StubMeansHeld hold: while the cache is told of every context that
\* goes, the text of every row is in its agent's context, since the full delivery
\* that the row dates or a later one.
HeldInv == ~untold =>
    \A r \in Root, a \in Agent, k \in Key :
        rows[r][<<a, k>>] # NoRow =>
            HoldsSince(held[a], k, rows[r][<<a, k>>].content, rows[r][<<a, k>>].at)

\* No agent loses a text it holds, if for one it got later.
NoneLoses ==
    \A b \in Agent, j \in Key, c \in Content, at \in Time :
        HoldsSince(held[b], j, c, at) => HoldsSince(held'[b], j, c, at)

\* A row written with the text and time of a delivery the agent holds after the
\* step keeps HeldInv, when no agent loses anything in the step.
LEMMA HeldInvPut ==
    ASSUME TypeOK, HeldInv, NEW r \in Root, NEW a \in Agent, NEW k \in Key,
           NEW row \in Row, PutRow(r, a, k, row), UNCHANGED untold, NoneLoses,
           HoldsSince(held'[a], k, row.content, row.at)
    PROVE  HeldInv'
<1> SUFFICES ASSUME ~untold, NEW s \in Root, NEW b \in Agent, NEW j \in Key,
                    rows'[s][<<b, j>>] # NoRow
             PROVE  HoldsSince(held'[b], j, rows'[s][<<b, j>>].content, rows'[s][<<b, j>>].at)
  BY DEF HeldInv
<1>1. <<a, k>> \in Agent \X Key /\ <<b, j>> \in Agent \X Key
  OBVIOUS
<1>2. CASE s = r /\ <<b, j>> = <<a, k>>
  <2>1. rows'[s][<<b, j>>] = row
    BY <1>1, <1>2 DEF PutRow, TypeOK
  <2>2. QED
    BY <1>2, <2>1
<1>3. CASE ~(s = r /\ <<b, j>> = <<a, k>>)
  <2>1. rows'[s][<<b, j>>] = rows[s][<<b, j>>]
    BY <1>1, <1>3 DEF PutRow, TypeOK
  <2>2. rows[s][<<b, j>>] \in Row
    BY <2>1, RowTypes
  <2>3. rows[s][<<b, j>>].content \in Content /\ rows[s][<<b, j>>].at \in Time
    BY <2>2 DEF Row
  <2>4. QED
    BY <2>1, <2>3 DEF HeldInv, NoneLoses
<1>4. QED
  BY <1>2, <1>3

\* A delivery takes nothing from any agent; a full one leaves the agent holding
\* the text.
LEMMA DeliveryKeeps ==
    ASSUME TypeOK, NEW a \in Agent, NEW k \in Key, DeliverFull(a, k) \/ DeliverStub(a, k)
    PROVE  /\ NoneLoses
           /\ DeliverFull(a, k) => HoldsSince(held'[a], k, file[k], clock)
<1>1. clock \in Time /\ clock \in Nat /\ \A t \in Time : t \in Nat
  BY DedupAssumption DEF TypeOK, Time
<1>2. ASSUME DeliverFull(a, k)
      PROVE  NoneLoses /\ HoldsSince(held'[a], k, file[k], clock)
  <2>1. /\ held'[a] = (held[a] \ Older(k)) \cup {<<k, file[k], clock>>}
        /\ \A b \in Agent : b # a => held'[b] = held[b]
    BY <1>2 DEF DeliverFull, TypeOK
  <2>2. HoldsSince(held'[a], k, file[k], clock)
    BY <1>1, <2>1 DEF HoldsSince
  <2>3. ASSUME NEW j \in Key, NEW c \in Content, NEW at \in Time,
               HoldsSince(held[a], j, c, at)
        PROVE  HoldsSince(held'[a], j, c, at)
    <3>1. PICK t \in Time : at <= t /\ <<j, c, t>> \in held[a]
      BY <2>3 DEF HoldsSince
    <3>2. CASE <<j, c, t>> \notin Older(k)
      BY <2>1, <3>1, <3>2 DEF HoldsSince
    <3>3. CASE <<j, c, t>> \in Older(k)
      <4>1. j = k /\ c = file[k] /\ t < clock
        <5>1. PICK u \in 0 .. clock - 1 : <<j, c, t>> = <<k, file[k], u>>
          BY <3>3 DEF Older
        <5>2. QED
          BY <1>1, <5>1
      <4>2. at <= clock
        BY <1>1, <3>1, <4>1, DedupAssumption DEF Time
      <4>3. QED
        BY <1>1, <2>1, <4>1, <4>2 DEF HoldsSince
    <3>4. QED
      BY <3>2, <3>3
  <2>4. NoneLoses
    <3>1. ASSUME NEW b \in Agent, NEW j \in Key, NEW c \in Content, NEW at \in Time,
                 HoldsSince(held[b], j, c, at)
          PROVE  HoldsSince(held'[b], j, c, at)
      BY <2>1, <2>3, <3>1
    <3>2. QED
      BY <3>1 DEF NoneLoses
  <2>5. QED
    BY <2>2, <2>4
<1>3. CASE DeliverStub(a, k)
  <2>1. held' = held
    BY <1>3 DEF DeliverStub
  <2>2. NoneLoses
    BY <2>1 DEF NoneLoses
  <2>3. QED
    BY <1>2, <2>2
<1>4. QED
  BY <1>2, <1>3

\* HeldInv is inductive when a session's hooks run in one project directory.
LEMMA HeldInvInductive ==
    ASSUME OneRoot, TypeOK, HeldInv, [Next]_vars
    PROVE  HeldInv'
<1>1. ASSUME NEW r \in Root, NEW a \in Agent, NEW k \in Key, ObserveMiss(r, a, k)
      PROVE  HeldInv'
  <2> DEFINE row == [content |-> file[k], at |-> clock, seenAt |-> clock, stubbed |-> FALSE]
  <2>1. row \in Row /\ row.content = file[k] /\ row.at = clock
    BY RowTypes DEF Row
  <2>2. DeliverFull(a, k) /\ PutRow(r, a, k, row) /\ UNCHANGED untold
    BY <1>1 DEF ObserveMiss
  <2>3. HoldsSince(held'[a], k, row.content, row.at)
    BY <2>1, <2>2, DeliveryKeeps
  <2> HIDE DEF row
  <2>4. QED
    BY <2>1, <2>2, <2>3, DeliveryKeeps, HeldInvPut
<1>2. ASSUME NEW r \in Root, NEW a \in Agent, NEW k \in Key, ObserveAfterStub(r, a, k)
      PROVE  HeldInv'
  <2> DEFINE old == rows[r][<<a, k>>]
             row == [old EXCEPT !.at = clock, !.seenAt = clock, !.stubbed = FALSE]
  <2>1. old \in Row /\ old.content = file[k]
    BY <1>2, RowTypes DEF ObserveAfterStub, Stale
  <2>2. row \in Row /\ row.content = file[k] /\ row.at = clock
    BY <2>1, RowTypes DEF Row
  <2>3. DeliverFull(a, k) /\ PutRow(r, a, k, row) /\ UNCHANGED untold
    BY <1>2 DEF ObserveAfterStub
  <2> HIDE DEF row
  <2>4. HoldsSince(held'[a], k, row.content, row.at)
    BY <2>2, <2>3, DeliveryKeeps
  <2>5. QED
    BY <2>2, <2>3, <2>4, DeliveryKeeps, HeldInvPut
<1>3. ASSUME NEW r \in Root, NEW a \in Agent, NEW k \in Key, ObserveRepeat(r, a, k)
      PROVE  HeldInv'
  <2> DEFINE old == rows[r][<<a, k>>]
             row == [old EXCEPT !.seenAt = clock, !.stubbed = TRUE]
  <2>1. old \in Row
    BY <1>3, RowTypes DEF ObserveRepeat, Stale
  <2>2. row \in Row /\ row.content = old.content /\ row.at = old.at
    BY <2>1, RowTypes DEF Row
  <2>3. /\ DeliverFull(a, k) \/ DeliverStub(a, k)
        /\ PutRow(r, a, k, row) /\ UNCHANGED untold
    BY <1>3 DEF ObserveRepeat
  <2>4. CASE untold
    BY <2>3, <2>4 DEF HeldInv
  <2>5. CASE ~untold
    <3>1. HoldsSince(held[a], k, old.content, old.at)
      BY <2>1, <2>5, NoRowAssumption DEF HeldInv
    <3>2. old.content \in Content /\ old.at \in Time
      BY <2>1 DEF Row
    <3> HIDE DEF row, old
    <3>3. HoldsSince(held'[a], k, row.content, row.at)
      BY <2>2, <2>3, <3>1, <3>2, DeliveryKeeps DEF NoneLoses
    <3>4. QED
      BY <2>2, <2>3, <3>3, DeliveryKeeps, HeldInvPut
  <2>6. QED
    BY <2>4, <2>5
<1>4. ASSUME NEW a \in Agent, NEW k \in Key, ReadThrough(a, k)
      PROVE  HeldInv'
  <2>1. rows' = rows /\ untold' = untold /\ NoneLoses
    BY <1>4, DeliveryKeeps DEF ReadThrough
  <2>2. \A r \in Root, b \in Agent, j \in Key :
            rows[r][<<b, j>>] # NoRow =>
                rows[r][<<b, j>>].content \in Content /\ rows[r][<<b, j>>].at \in Time
    BY RowTypes DEF Row
  <2>3. QED
    BY <2>1, <2>2 DEF HeldInv, NoneLoses
<1>5. ASSUME NEW a \in Agent, NEW r \in Root, ContextReset(a, r)
      PROVE  HeldInv'
  <2>1. untold' \/ \A s \in Root, ak \in Agent \X Key : rows'[s][ak] = NoRow
    BY <1>5 DEF ContextReset, NoRows, TypeOK, OneRoot
  <2>2. QED
    BY <2>1 DEF HeldInv
<1>6. ASSUME NEW r \in Root, Prune(r)
      PROVE  HeldInv'
  <2>1. held' = held /\ untold' = untold
    BY <1>6 DEF Prune
  <2>2. \A s \in Root, ak \in Agent \X Key :
            rows'[s][ak] = rows[s][ak] \/ rows'[s][ak] = NoRow
    BY <1>6, RowsOnlyGo
  <2>3. QED
    BY <2>1, <2>2 DEF HeldInv
<1>7. ASSUME UNCHANGED <<rows, held, untold>>
      PROVE  HeldInv'
  BY <1>7 DEF HeldInv
<1>8. ASSUME NEW a \in Agent, Forget(a)
      PROVE  HeldInv'
  BY <1>8 DEF Forget, HeldInv
<1>9. ASSUME NEW k \in Key, Edit(k)
      PROVE  UNCHANGED <<rows, held, untold>>
  BY <1>9 DEF Edit
<1>10. ASSUME Tick \/ UNCHANGED vars
       PROVE  UNCHANGED <<rows, held, untold>>
  BY <1>10 DEF Tick, vars
<1>11. QED
  BY <1>1, <1>2, <1>3, <1>4, <1>5, <1>6, <1>7, <1>8, <1>9, <1>10 DEF Next, Read

\* The step property: only a repeat's stub lengthens a streak, and it runs on a
\* row of the file's present text that is not too old.
LEMMA StubStep ==
    ASSUME TypeOK, HeldInv, [Next]_vars, NEW a \in Agent, NEW k \in Key, ~untold,
           streak'[<<a, k>>] > streak[<<a, k>>]
    PROVE  \E t \in Time : <<k, file[k], t>> \in held[a] /\ clock - t <= MaxAge
<1>1. <<a, k>> \in Agent \X Key /\ streak[<<a, k>>] \in Nat
  BY DEF TypeOK
<1>2. streak' # streak
  BY <1>1
<1>3. ASSUME NEW b \in Agent, NEW j \in Key, DeliverFull(b, j)
      PROVE  FALSE
  <2>1. streak'[<<a, k>>] = streak[<<a, k>>] \/ streak'[<<a, k>>] = 0
    BY <1>1, <1>3 DEF DeliverFull, TypeOK
  <2>2. QED
    BY <1>1, <2>1
<1>4. ASSUME NEW b \in Agent, NEW j \in Key, DeliverStub(b, j)
      PROVE  b = a /\ j = k
  BY <1>1, <1>4 DEF DeliverStub, TypeOK
<1>5. PICK r \in Root, b \in Agent, j \in Key : ObserveRepeat(r, b, j)
  <2>1. ASSUME NEW r \in Root, NEW b \in Agent, NEW j \in Key,
               ObserveMiss(r, b, j) \/ ObserveAfterStub(r, b, j)
        PROVE  FALSE
    BY <1>3, <2>1 DEF ObserveMiss, ObserveAfterStub
  <2>2. ASSUME NEW b \in Agent, NEW j \in Key, ReadThrough(b, j)
        PROVE  FALSE
    BY <1>3, <2>2 DEF ReadThrough
  <2>3. ASSUME NEW b \in Agent, NEW r \in Root, ContextReset(b, r)
        PROVE  FALSE
    BY <1>2, <2>3 DEF ContextReset
  <2>4. ASSUME NEW b \in Agent, Forget(b)
        PROVE  FALSE
    BY <1>2, <2>4 DEF Forget
  <2>5. ASSUME NEW r \in Root, Prune(r)
        PROVE  FALSE
    BY <1>2, <2>5 DEF Prune
  <2>6. ASSUME NEW j \in Key, Edit(j)
        PROVE  FALSE
    BY <1>2, <2>6 DEF Edit
  <2>7. ~Tick /\ ~UNCHANGED vars
    BY <1>2 DEF Tick, vars
  <2>8. QED
    BY <2>1, <2>2, <2>3, <2>4, <2>5, <2>6, <2>7 DEF Next, Read
<1>6. DeliverStub(b, j) /\ ~Stale(rows[r][<<b, j>>], j)
  BY <1>3, <1>5 DEF ObserveRepeat
<1>7. b = a /\ j = k
  BY <1>4, <1>6
<1>8. /\ rows[r][<<a, k>>] # NoRow /\ rows[r][<<a, k>>].content = file[k]
      /\ ~(clock - rows[r][<<a, k>>].at > MaxAge)
  BY <1>6, <1>7 DEF Stale
<1>9. rows[r][<<a, k>>].at \in Time
  BY <1>8, RowTypes DEF Row
<1>10. \A t \in Time : t \in Int
  BY DEF Time
<1>11. clock - rows[r][<<a, k>>].at <= MaxAge
  BY <1>8, <1>9, <1>10, DedupAssumption DEF TypeOK
<1>12. PICK t \in Time : rows[r][<<a, k>>].at <= t /\ <<k, file[k], t>> \in held[a]
  BY <1>8 DEF HeldInv, HoldsSince
<1>13. clock - t <= MaxAge
  BY <1>9, <1>10, <1>11, <1>12, DedupAssumption DEF TypeOK
<1>14. QED
  BY <1>12, <1>13

\* A stub's claim is true: the agent that gets "you already have this" holds the
\* very text the read would have returned, received in full within MaxAge, as
\* long as the cache is told of every context that goes (ReadCache.observe,
\* hooks._reset_read_dedup).
THEOREM StubHeld ==
    OneRoot => (Spec => StubMeansHeld)
<1> SUFFICES ASSUME OneRoot PROVE Spec => StubMeansHeld
  OBVIOUS
<1>1. Init => HeldInv
  BY DEF Init, HeldInv
<1>2. TypeOK /\ HeldInv /\ [Next]_vars => HeldInv'
  BY HeldInvInductive
<1>3. TypeOK /\ HeldInv /\ [Next]_vars =>
        [\A a \in Agent, k \in Key :
            ~untold /\ streak'[<<a, k>>] > streak[<<a, k>>] =>
                \E t \in Time : <<k, file[k], t>> \in held[a] /\ clock - t <= MaxAge]_vars
  BY StubStep
<1>4. QED
  BY <1>1, <1>2, <1>3, TypeCorrect, PTL DEF Spec, StubMeansHeld
================================================================================

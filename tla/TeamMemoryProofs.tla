-------------------------- MODULE TeamMemoryProofs --------------------------
(***************************************************************************)
(* Proofs about TeamMemory, for any number of processes, of pairs, of      *)
(* pulls, and of commands, failures and kills.                             *)
(***************************************************************************)
EXTENDS TeamMemory, TLAPS

Places(op) ==
    CASE op = "import" -> {"check", "delete", "load", "drop", "gate", "read", "add",
                           "promote", "mark"}
      [] op = "publish" -> {"write", "mark"}
      [] op = "retract" -> {"write", "delete", "load", "drop", "mark"}
      [] op = "approve" -> {"drop", "promote"}
      [] op = "reject" -> {"drop"}

Run == [op : {"import", "publish", "retract", "approve", "reject"},
        at : {"check", "write", "delete", "load", "drop", "gate", "read", "add",
              "promote", "mark"},
        bundle : Bundle, pair : Pair \cup {None}, todo : SUBSET Pair, queue : SUBSET Pair,
        promote : SUBSET Pair, unread : BOOLEAN, changed : SUBSET Changes]

\* What a run is, by its command and the place it has come to.
Shaped(j) ==
    /\ j.at \in Places(j.op)
    /\ j.op \in {"import", "publish"} => j.pair = None
    /\ j.op \in {"retract", "approve", "reject"} => j.pair \in Pair
    /\ j.op = "import" /\ j.at = "check" => j.todo = j.bundle.retracted
    /\ j.op = "import" /\ j.at \in {"read", "add"} => j.todo \cap j.bundle.retracted = {}
    /\ j.op = "import" => j.promote \cap j.bundle.retracted = {}
    /\ j.op = "retract" => j.pair \in j.bundle.retracted
    /\ j.op = "retract" /\ j.at = "write" => j.todo = {j.pair}

Running(p) == job[p] # Idle

Typed ==
    /\ bundle \in Bundle \cup {None} /\ imported \in Bundle \cup {None}
    /\ shared \subseteq Pair /\ pending \subseteq Pair /\ broken \in BOOLEAN
    /\ job \in [Proc -> {Idle} \cup Run]
    /\ \A p \in Proc : Running(p) => Shaped(job[p])
    /\ pulls \in 0..MaxPulls /\ events \in 0..MaxEvents /\ excuse \in BOOLEAN

\* A step of the system, for proofs that treat the steps one by one.
Starts(p) ==
    \/ StartImport(p) \/ StartPublish(p)
    \/ \E q \in Pair : \/ StartRetract(p, q)
                       \/ StartReview(p, "approve", q) \/ StartReview(p, "reject", q)

LEMMA NextCases ==
    ASSUME [Next]_vars
    PROVE  \/ Pull \/ Repair
           \/ \E p \in Proc : Starts(p) \/ ImportSteps(p) \/ WriteBundle(p) \/ Stop(p)
           \/ UNCHANGED vars
BY DEF Next, Starts

--------------------------------------------------------------------------------
(* What the steps do to the runs *)

\* v is run u gone on: its command and what it works on are the same.
After(u, v) ==
    v.op = u.op /\ v.bundle = u.bundle /\ v.pair = u.pair /\ v.unread = u.unread

LEMMA SetAt ==
    ASSUME NEW u \in Run,
           NEW a \in {"check", "write", "delete", "load", "drop", "gate", "read", "add",
                      "promote", "mark"},
           NEW v, v = [u EXCEPT !.at = a]
    PROVE  /\ v \in Run /\ After(u, v) /\ v.at = a /\ v.todo = u.todo /\ v.queue = u.queue
           /\ v.promote = u.promote /\ v.changed = u.changed
BY DEF Run, After

LEMMA SetTodo ==
    ASSUME NEW u \in Run, NEW a \in SUBSET Pair, NEW v, v = [u EXCEPT !.todo = a]
    PROVE  /\ v \in Run /\ After(u, v) /\ v.at = u.at /\ v.todo = a /\ v.queue = u.queue
           /\ v.promote = u.promote /\ v.changed = u.changed
BY DEF Run, After

LEMMA SetQueue ==
    ASSUME NEW u \in Run, NEW a \in SUBSET Pair, NEW v, v = [u EXCEPT !.queue = a]
    PROVE  /\ v \in Run /\ After(u, v) /\ v.at = u.at /\ v.todo = u.todo /\ v.queue = a
           /\ v.promote = u.promote /\ v.changed = u.changed
BY DEF Run, After

LEMMA SetPromote ==
    ASSUME NEW u \in Run, NEW a \in SUBSET Pair, NEW v, v = [u EXCEPT !.promote = a]
    PROVE  /\ v \in Run /\ After(u, v) /\ v.at = u.at /\ v.todo = u.todo /\ v.queue = u.queue
           /\ v.promote = a /\ v.changed = u.changed
BY DEF Run, After

LEMMA SetChanged ==
    ASSUME NEW u \in Run, NEW a \in SUBSET Changes, NEW v, v = [u EXCEPT !.changed = a]
    PROVE  /\ v \in Run /\ After(u, v) /\ v.at = u.at /\ v.todo = u.todo /\ v.queue = u.queue
           /\ v.promote = u.promote /\ v.changed = a
BY DEF Run, After

\* Run p goes on at place a, with what the others see of it unchanged.
Turn(p, a, todo, queue, promote, changed) ==
    /\ job' \in [Proc -> {Idle} \cup Run] /\ job'[p] \in Run /\ After(job[p], job'[p])
    /\ job'[p].at = a /\ job'[p].todo = todo /\ job'[p].queue = queue
    /\ job'[p].promote = promote /\ job'[p].changed = changed
    /\ \A r \in Proc \ {p} : job'[r] = job[r]

\* Run p ends.
Ends(p) ==
    /\ job' \in [Proc -> {Idle} \cup Run] /\ job'[p] = Idle
    /\ \A r \in Proc \ {p} : job'[r] = job[r]

\* Idle is no run.
LEMMA IdleIsNoRun == Idle \notin Run /\ \A u \in Run : u # Idle
<1>1. Idle.op = "none"
  BY DEF Idle
<1>2. \A u \in Run : u.op # "none"
  BY DEF Run
<1>3. QED
  BY <1>1, <1>2

LEMMA RunningIsRun ==
    ASSUME Typed, NEW p \in Proc, Running(p)
    PROVE  job[p] \in Run /\ Shaped(job[p])
BY DEF Typed, Running

LEMMA DoneEnds ==
    ASSUME Typed, NEW p \in Proc, Done(p)
    PROVE  Ends(p)
BY DEF Typed, Done, Ends

LEMMA GotoTurns ==
    ASSUME Typed, NEW p \in Proc, Running(p),
           NEW a \in {"check", "write", "delete", "load", "drop", "gate", "read", "add",
                      "promote", "mark"},
           Goto(p, a)
    PROVE  Turn(p, a, job[p].todo, job[p].queue, job[p].promote, job[p].changed)
<1>1. job[p] \in Run /\ job \in [Proc -> {Idle} \cup Run]
  BY RunningIsRun DEF Typed
<1>2. PICK v : v = [job[p] EXCEPT !.at = a]
  OBVIOUS
<1>3. job' = [job EXCEPT ![p] = v]
  BY <1>1, <1>2 DEF Goto
<1>4. QED
  BY <1>1, <1>2, <1>3, SetAt DEF Turn

LEMMA DeleteTurns ==
    ASSUME Typed, NEW p \in Proc, DeleteEdge(p)
    PROVE  \E q \in job[p].todo :
              /\ shared' = shared \ {q}
              /\ Turn(p, IF job[p].todo = {q} THEN "load" ELSE "delete", job[p].todo \ {q},
                      job[p].queue, job[p].promote, job[p].changed)
<1>1. job[p] \in Run /\ job \in [Proc -> {Idle} \cup Run]
  BY RunningIsRun DEF Typed, DeleteEdge, Running
<1>2. PICK q \in job[p].todo :
        /\ shared' = shared \ {q}
        /\ job' = [job EXCEPT ![p].todo = @ \ {q},
                              ![p].at = IF job[p].todo = {q} THEN "load" ELSE "delete"]
  BY DEF DeleteEdge
<1> DEFINE a == IF job[p].todo = {q} THEN "load" ELSE "delete"
<1>rest. PICK rest : rest = job[p].todo \ {q}
  OBVIOUS
<1>3. PICK u : u = [job[p] EXCEPT !.todo = rest]
  OBVIOUS
<1>4. PICK v : v = [u EXCEPT !.at = a]
  OBVIOUS
<1>5. job' = [job EXCEPT ![p] = v]
  BY <1>1, <1>2, <1>rest, <1>3, <1>4
<1>6. /\ u \in Run /\ After(job[p], u) /\ u.todo = job[p].todo \ {q} /\ u.queue = job[p].queue
      /\ u.promote = job[p].promote /\ u.changed = job[p].changed
  <2>1. rest \in SUBSET Pair
    BY <1>1, <1>rest DEF Run
  <2>2. u \in Run /\ After(job[p], u) /\ u.todo = rest /\ u.queue = job[p].queue
        /\ u.promote = job[p].promote /\ u.changed = job[p].changed
    BY <1>1, <1>3, <2>1, SetTodo
  <2>3. QED
    BY <1>rest, <2>2
<1>7. /\ v \in Run /\ After(u, v) /\ v.at = a /\ v.todo = u.todo /\ v.queue = u.queue
      /\ v.promote = u.promote /\ v.changed = u.changed
  BY <1>4, <1>6, SetAt
<1>8. QED
  BY <1>1, <1>2, <1>5, <1>6, <1>7 DEF Turn, After

LEMMA LoadTurns ==
    ASSUME Typed, NEW p \in Proc, NEW fails \in BOOLEAN, LoadQueue(p, fails)
    PROVE  Turn(p, IF job[p].at = "load" THEN "drop" ELSE "add", job[p].todo,
                IF fails THEN {} ELSE pending, job[p].promote, job[p].changed \cup Failed(fails))
<1>1. job[p] \in Run /\ job \in [Proc -> {Idle} \cup Run] /\ pending \subseteq Pair
  BY RunningIsRun DEF Typed, LoadQueue, Running
<1> DEFINE a == IF job[p].at = "load" THEN "drop" ELSE "add"
           queue == IF fails THEN {} ELSE pending
<1>2. PICK t : t = [job[p] EXCEPT !.queue = queue]
  OBVIOUS
<1>3. PICK u : u = [t EXCEPT !.changed = @ \cup Failed(fails)]
  OBVIOUS
<1>4. PICK v : v = [u EXCEPT !.at = IF @ = "load" THEN "drop" ELSE "add"]
  OBVIOUS
<1>5. job' = [job EXCEPT ![p] = v]
  BY <1>1, <1>2, <1>3, <1>4 DEF LoadQueue
<1>6. /\ t \in Run /\ After(job[p], t) /\ t.at = job[p].at /\ t.todo = job[p].todo
      /\ t.queue = queue /\ t.promote = job[p].promote /\ t.changed = job[p].changed
  <2>1. queue \in SUBSET Pair
    BY <1>1
  <2> HIDE DEF queue
  <2>2. QED
    BY <1>1, <1>2, <2>1, SetQueue
<1>7. /\ u \in Run /\ After(t, u) /\ u.at = t.at /\ u.todo = t.todo /\ u.queue = t.queue
      /\ u.promote = t.promote /\ u.changed = t.changed \cup Failed(fails)
  <2>1. t.changed \cup Failed(fails) \in SUBSET Changes
    BY <1>6 DEF Run, Failed, Changes
  <2>2. QED
    BY <1>3, <1>6, <2>1, SetChanged
<1>8. /\ v \in Run /\ After(u, v) /\ v.at = a /\ v.todo = u.todo /\ v.queue = u.queue
      /\ v.promote = u.promote /\ v.changed = u.changed
  BY <1>4, <1>6, <1>7, SetAt
<1>9. QED
  BY <1>1, <1>5, <1>6, <1>7, <1>8 DEF Turn, After

LEMMA DropTurns ==
    ASSUME Typed, NEW p \in Proc, NEW fails \in BOOLEAN, DropPending(p, fails)
    PROVE  \/ Ends(p) /\ job[p].op = "reject"
           \/ /\ job[p].op # "reject"
              /\ Turn(p, AfterDrop(p), job[p].todo, {}, job[p].promote,
                      job[p].changed \cup Failed(fails))
<1>1. /\ job[p] \in Run /\ job \in [Proc -> {Idle} \cup Run] /\ Shaped(job[p])
      /\ job[p].at = "drop"
  BY RunningIsRun DEF Typed, DropPending, Running
<1>2. /\ job[p].op \in {"import", "retract", "approve", "reject"}
      /\ AfterDrop(p) \in {"gate", "mark", "promote", "done"}
      /\ AfterDrop(p) = "done" <=> job[p].op = "reject"
  BY <1>1 DEF Shaped, Places, AfterDrop, Run
<1>3. CASE AfterDrop(p) = "done"
  BY <1>2, <1>3, DoneEnds DEF DropPending
<1>4. CASE AfterDrop(p) # "done"
  <2>1. PICK t : t = [job[p] EXCEPT !.at = AfterDrop(p)]
    OBVIOUS
  <2>2. PICK u : u = [t EXCEPT !.queue = {}]
    OBVIOUS
  <2>3. PICK changed : changed = job[p].changed \cup Failed(fails)
    OBVIOUS
  <2>4. PICK v : v = [u EXCEPT !.changed = changed]
    OBVIOUS
  <2>5. /\ t \in Run /\ After(job[p], t) /\ t.at = AfterDrop(p) /\ t.todo = job[p].todo
        /\ t.queue = job[p].queue /\ t.promote = job[p].promote /\ t.changed = job[p].changed
    BY <1>1, <1>2, <1>4, <2>1, SetAt
  <2>6. /\ u \in Run /\ After(t, u) /\ u.at = t.at /\ u.todo = t.todo /\ u.queue = {}
        /\ u.promote = t.promote /\ u.changed = t.changed
    BY <2>2, <2>5, SetQueue
  <2>7. job' = [job EXCEPT ![p] = v]
    BY <1>1, <1>4, <2>1, <2>2, <2>3, <2>4, <2>5, <2>6 DEF DropPending
  <2>8. /\ v \in Run /\ After(u, v) /\ v.at = u.at /\ v.todo = u.todo /\ v.queue = u.queue
        /\ v.promote = u.promote /\ v.changed = changed
    <3>1. changed \in SUBSET Changes
      BY <1>1, <2>3 DEF Run, Failed, Changes
    <3>2. QED
      BY <2>4, <2>6, <3>1, SetChanged
  <2>9. QED
    BY <1>1, <1>2, <1>4, <2>3, <2>5, <2>6, <2>7, <2>8 DEF Turn, After
<1>5. QED
  BY <1>3, <1>4

LEMMA GateTurns ==
    ASSUME Typed, NEW p \in Proc, Gate(p)
    PROVE  \E promote \in SUBSET Incoming(job[p].bundle) :
           \E review \in SUBSET (Incoming(job[p].bundle) \ promote) :
              Turn(p, IF review = {} THEN "promote" ELSE "read", review, job[p].queue,
                   promote, job[p].changed)
<1>1. job[p] \in Run /\ job \in [Proc -> {Idle} \cup Run] /\ Running(p)
  <2>1. Running(p)
    BY IdleIsNoRun DEF Gate, Running, Idle
  <2>2. QED
    BY <2>1, RunningIsRun DEF Typed
<1>2. PICK promote \in SUBSET Incoming(job[p].bundle) :
        \E review \in SUBSET (Incoming(job[p].bundle) \ promote) :
          job' = [job EXCEPT ![p].promote = promote, ![p].todo = review,
                             ![p].at = IF review = {} THEN "promote" ELSE "read"]
  BY DEF Gate
<1>review. PICK review \in SUBSET (Incoming(job[p].bundle) \ promote) :
        job' = [job EXCEPT ![p].promote = promote, ![p].todo = review,
                           ![p].at = IF review = {} THEN "promote" ELSE "read"]
  BY <1>2
<1>3. promote \in SUBSET Pair /\ review \in SUBSET Pair
  BY <1>1, <1>2 DEF Run, Bundle, Incoming
<1>4. PICK t : t = [job[p] EXCEPT !.promote = promote]
  OBVIOUS
<1>5. PICK u : u = [t EXCEPT !.todo = review]
  OBVIOUS
<1>6. PICK a : a = IF review = {} THEN "promote" ELSE "read"
  OBVIOUS
<1>7. PICK v : v = [u EXCEPT !.at = a]
  OBVIOUS
<1>8. job' = [job EXCEPT ![p] = v]
  BY <1>1, <1>review, <1>4, <1>5, <1>6, <1>7
<1>9. /\ t \in Run /\ After(job[p], t) /\ t.queue = job[p].queue
      /\ t.promote = promote /\ t.changed = job[p].changed
  BY <1>1, <1>3, <1>4, SetPromote
<1>10. /\ u \in Run /\ After(t, u) /\ u.todo = review /\ u.queue = t.queue
       /\ u.promote = t.promote /\ u.changed = t.changed
  BY <1>3, <1>5, <1>9, SetTodo
<1>11. /\ v \in Run /\ After(u, v) /\ v.at = a /\ v.todo = u.todo /\ v.queue = u.queue
       /\ v.promote = u.promote /\ v.changed = u.changed
  BY <1>6, <1>7, <1>10, SetAt
<1>12. Turn(p, a, review, job[p].queue, promote, job[p].changed)
  BY <1>1, <1>8, <1>9, <1>10, <1>11 DEF Turn, After
<1>13. QED
  BY <1>6, <1>12

LEMMA AddTurns ==
    ASSUME Typed, NEW p \in Proc, NEW fails \in BOOLEAN, AddPending(p, fails)
    PROVE  \E q \in job[p].todo :
              /\ SaveQueue(p, job[p].queue \cup {q}, fails)
              /\ Turn(p, IF job[p].todo = {q} THEN "promote" ELSE "read", job[p].todo \ {q},
                      {}, job[p].promote, job[p].changed \cup Failed(fails))
<1>1. job[p] \in Run /\ job \in [Proc -> {Idle} \cup Run]
  BY RunningIsRun DEF Typed, AddPending, Running
<1>2. PICK q \in job[p].todo :
        /\ SaveQueue(p, job[p].queue \cup {q}, fails)
        /\ job' = [job EXCEPT ![p].todo = @ \ {q},
                              ![p].queue = {}, ![p].changed = @ \cup Failed(fails),
                              ![p].at = IF job[p].todo = {q} THEN "promote" ELSE "read"]
  BY DEF AddPending
<1>3. PICK rest : rest = job[p].todo \ {q}
  OBVIOUS
<1>4. PICK s : s = [job[p] EXCEPT !.todo = rest]
  OBVIOUS
<1>5. PICK t : t = [s EXCEPT !.queue = {}]
  OBVIOUS
<1>6. PICK changed : changed = job[p].changed \cup Failed(fails)
  OBVIOUS
<1>7. PICK u : u = [t EXCEPT !.changed = changed]
  OBVIOUS
<1>8. PICK a : a = IF job[p].todo = {q} THEN "promote" ELSE "read"
  OBVIOUS
<1>9. PICK v : v = [u EXCEPT !.at = a]
  OBVIOUS
<1>10. /\ s \in Run /\ After(job[p], s) /\ s.todo = rest
       /\ s.promote = job[p].promote /\ s.changed = job[p].changed
  <2>1. rest \in SUBSET Pair
    BY <1>1, <1>3 DEF Run
  <2>2. QED
    BY <1>1, <1>4, <2>1, SetTodo
<1>11. /\ t \in Run /\ After(s, t) /\ t.todo = s.todo /\ t.queue = {}
       /\ t.promote = s.promote /\ t.changed = s.changed
  BY <1>5, <1>10, SetQueue
<1>12. /\ u \in Run /\ After(t, u) /\ u.todo = t.todo /\ u.queue = t.queue
       /\ u.promote = t.promote /\ u.changed = changed
  <2>1. changed \in SUBSET Changes
    BY <1>1, <1>6 DEF Run, Failed, Changes
  <2>2. QED
    BY <1>7, <1>11, <2>1, SetChanged
<1>13. /\ v \in Run /\ After(u, v) /\ v.at = a /\ v.todo = u.todo /\ v.queue = u.queue
       /\ v.promote = u.promote /\ v.changed = u.changed
  BY <1>8, <1>9, <1>12, SetAt
<1>14. job' = [job EXCEPT ![p] = v]
  BY <1>1, <1>2, <1>3, <1>4, <1>5, <1>6, <1>7, <1>8, <1>9, <1>10, <1>11
<1>15. Turn(p, a, rest, {}, job[p].promote, changed)
  BY <1>1, <1>10, <1>11, <1>12, <1>13, <1>14 DEF Turn, After
<1>16. QED
  BY <1>2, <1>3, <1>6, <1>8, <1>15

\* Run u was told of something that changed under it.
Told(u, v, what) ==
    /\ v \in Run /\ After(u, v) /\ v.at = u.at /\ v.todo = u.todo /\ v.queue = u.queue
    /\ v.promote = u.promote /\ v.changed = u.changed \cup {what}

LEMMA TellIs ==
    ASSUME NEW jobs \in [Proc -> {Idle} \cup Run], NEW p, NEW what \in Changes
    PROVE  /\ Tell(jobs, p, what) \in [Proc -> {Idle} \cup Run]
           /\ \A r \in Proc :
                /\ r = p \/ jobs[r] = Idle => Tell(jobs, p, what)[r] = jobs[r]
                /\ ~(r = p \/ jobs[r] = Idle) => Told(jobs[r], Tell(jobs, p, what)[r], what)
<1>1. ASSUME NEW r \in Proc, ~(r = p \/ jobs[r] = Idle)
      PROVE  Told(jobs[r], [jobs[r] EXCEPT !.changed = @ \cup {what}], what)
  <2>1. jobs[r] \in Run
    BY <1>1
  <2>2. PICK changed : changed = jobs[r].changed \cup {what}
    OBVIOUS
  <2>3. PICK v : v = [jobs[r] EXCEPT !.changed = changed]
    OBVIOUS
  <2>4. changed \in SUBSET Changes
    BY <2>1, <2>2 DEF Run
  <2>5. Told(jobs[r], v, what)
    <3>1. /\ v \in Run /\ After(jobs[r], v) /\ v.at = jobs[r].at /\ v.todo = jobs[r].todo
          /\ v.queue = jobs[r].queue /\ v.promote = jobs[r].promote /\ v.changed = changed
      BY <2>1, <2>3, <2>4, SetChanged
    <3>2. QED
      BY <2>2, <3>1 DEF Told
  <2>6. QED
    BY <2>2, <2>3, <2>5
<1>2. \A r \in Proc : ~(r = p \/ jobs[r] = Idle)
                      => [jobs[r] EXCEPT !.changed = @ \cup {what}] \in Run
  BY <1>1 DEF Told
<1>3. QED
  BY <1>1, <1>2 DEF Tell

LEMMA OnDiskIs ==
    Typed => /\ OnDisk \in Bundle /\ Empty \in Bundle /\ Read \in Bundle
             /\ Read.retracted \subseteq OnDisk.retracted
             /\ ~broken => Read = OnDisk
BY DEF Typed, OnDisk, Empty, Bundle, Read

LEMMA OnDiskNext == bundle' \in Bundle => (OnDisk.retracted)' = bundle'.retracted
BY TeamAssumption DEF OnDisk

\* A run that begins.
New(p, j) ==
    /\ job[p] = Idle /\ job' \in [Proc -> {Idle} \cup Run] /\ job'[p] = j
    /\ \A r \in Proc \ {p} : IF Running(r) THEN Told(job[r], job'[r], "run")
                                           ELSE job'[r] = Idle

LEMMA BeginIs ==
    ASSUME Typed, NEW p \in Proc, NEW j \in Run, Begin(p, j)
    PROVE  New(p, j)
<1> DEFINE jobs == [job EXCEPT ![p] = j]
<1>1. /\ jobs \in [Proc -> {Idle} \cup Run] /\ jobs[p] = j
      /\ \A r \in Proc \ {p} : jobs[r] = job[r]
  BY DEF Typed
<1>2. job' = Tell(jobs, p, "run") /\ job[p] = Idle
  BY DEF Begin
<1> HIDE DEF jobs
<1>3. /\ job' \in [Proc -> {Idle} \cup Run] /\ job'[p] = j
      /\ \A r \in Proc : ~(r = p \/ jobs[r] = Idle) => Told(jobs[r], job'[r], "run")
      /\ \A r \in Proc : jobs[r] = Idle => job'[r] = jobs[r]
  BY <1>1, <1>2, TellIs DEF Changes
<1>4. QED
  BY <1>1, <1>2, <1>3 DEF New, Running

\* What Job makes.
Made(j, op, a, b, q, todo, queue) ==
    /\ j \in Run /\ j.op = op /\ j.at = a /\ j.bundle = b /\ j.pair = q /\ j.todo = todo
    /\ j.queue = queue /\ j.promote = {} /\ (op \in {"publish", "retract"} /\ ~j.unread => bundle = imported)
    /\ j.changed \subseteq {"run"}
    /\ \A p \in Proc : Running(p) => "run" \in j.changed

LEMMA JobIs ==
    ASSUME Typed, NEW op \in {"import", "publish", "retract", "approve", "reject"},
           NEW a \in {"check", "write", "delete", "load", "drop", "gate", "read", "add",
                      "promote", "mark"},
           NEW b \in Bundle, NEW q \in Pair \cup {None},
           NEW todo \in SUBSET Pair, NEW queue \in SUBSET Pair
    PROVE  Made(Job(op, a, b, q, todo, queue), op, a, b, q, todo, queue)
<1>1. PICK ch : ch = IF \A p \in Proc : job[p] = Idle THEN {} ELSE {"run"}
  OBVIOUS
<1>2. PICK u \in BOOLEAN : u <=> (op \in {"publish", "retract"} /\ (broken \/ bundle # imported))
  <2>1. CASE op \in {"publish", "retract"} /\ (broken \/ bundle # imported)
    BY <2>1, Zenon
  <2>2. CASE ~(op \in {"publish", "retract"} /\ (broken \/ bundle # imported))
    BY <2>2, Zenon
  <2>3. QED
    BY <2>1, <2>2
<1>3. ch \in SUBSET Changes /\ ch \subseteq {"run"}
      /\ \A p \in Proc : Running(p) => "run" \in ch
  BY <1>1 DEF Changes, Running
<1>4. PICK j : j = [op |-> op, at |-> a, bundle |-> b, pair |-> q, todo |-> todo,
                    queue |-> queue, promote |-> {}, unread |-> u, changed |-> ch]
  OBVIOUS
<1>5. Job(op, a, b, q, todo, queue) = j
  <2>1. (op \in {"publish", "retract"} /\ (broken \/ bundle # imported)) = u
    BY <1>2, Zenon
  <2>2. QED
    BY <1>1, <1>4, <2>1 DEF Job
<1>6. j \in Run
  BY <1>3, <1>4 DEF Run
<1>7. Made(j, op, a, b, q, todo, queue)
  BY <1>2, <1>3, <1>4, <1>6 DEF Made
<1>8. QED
  BY <1>5, <1>7

\* What a run is when it begins.
AtStart(j) ==
    /\ j \in Run /\ j.changed \subseteq {"run"}
    /\ \A p \in Proc : Running(p) => "run" \in j.changed
    /\ \/ /\ j.op = "import" /\ j.at = "check" /\ bundle # None /\ j.bundle = bundle
          /\ j.todo = bundle.retracted /\ j.pair = None /\ j.promote = {}
       \/ /\ j.op = "publish" /\ j.at = "write" /\ j.bundle.retracted = Read.retracted
          /\ j.pair = None /\ (~j.unread => bundle = imported)
       \/ /\ j.op = "retract" /\ j.at = "write" /\ j.pair \in Pair /\ j.todo = {j.pair}
          /\ j.bundle.retracted = Read.retracted \cup {j.pair}
          /\ (~j.unread => bundle = imported)
       \/ /\ j.op \in {"approve", "reject"} /\ j.at = "drop" /\ j.pair \in pending
          /\ j.queue = pending /\ j.promote = {j.pair}

LEMMA StartIs ==
    ASSUME Typed, NEW p \in Proc, Starts(p)
    PROVE  /\ \E j : New(p, j) /\ AtStart(j)
           /\ UNCHANGED <<bundle, broken, shared, pending, imported, pulls, excuse>>
           /\ events' = events \/ (events < MaxEvents /\ events' = events + 1)
<1>1. OnDisk \in Bundle /\ Read \in Bundle /\ Empty \in Bundle /\ pending \in SUBSET Pair
      /\ bundle \in Bundle \cup {None} /\ shared \in SUBSET Pair
  BY OnDiskIs DEF Typed
<1>2. CASE StartImport(p)
  <2>1. PICK j : j = Job("import", "check", bundle, None, bundle.retracted, {})
    OBVIOUS
  <2>2. bundle \in Bundle /\ bundle.retracted \in SUBSET Pair /\ bundle # None
    BY <1>1, <1>2 DEF StartImport, Bundle
  <2>3. AtStart(j)
    <3>1. Made(j, "import", "check", bundle, None, bundle.retracted, {})
      BY <1>1, <2>1, <2>2, JobIs
    <3>2. QED
      BY <2>2, <3>1 DEF AtStart, Made
  <2>4. Begin(p, j)
    BY <1>2, <2>1 DEF StartImport
  <2>5. QED
    BY <1>2, <2>3, <2>4, BeginIs DEF StartImport, AtStart
<1>3. CASE StartPublish(p)
  <2>1. PICK edges \in Learned :
          Begin(p, Job("publish", "write", Published(edges), None, {}, {}))
    BY <1>3 DEF StartPublish
  <2>2. PICK j : j = Job("publish", "write", Published(edges), None, {}, {})
    OBVIOUS
  <2>3. Published(edges) \in Bundle /\ Published(edges).retracted = Read.retracted
    BY <1>1, TeamAssumption DEF Published, Bundle
  <2>4. AtStart(j)
    <3>1. Made(j, "publish", "write", Published(edges), None, {}, {})
      BY <1>1, <2>2, <2>3, JobIs
    <3>2. QED
      BY <2>3, <3>1 DEF AtStart, Made
  <2>5. Begin(p, j)
    BY <2>1, <2>2
  <2>6. QED
    BY <1>3, <2>4, <2>5, BeginIs DEF StartPublish, AtStart, Event
<1>4. ASSUME NEW q \in Pair, StartRetract(p, q)
      PROVE  /\ \E j : New(p, j) /\ AtStart(j)
             /\ UNCHANGED <<bundle, broken, shared, pending, imported, pulls, excuse>>
             /\ events < MaxEvents /\ events' = events + 1
  <2>1. PICK j : j = Job("retract", "write", Retracting(q), q, {q}, {})
    OBVIOUS
  <2>2. Retracting(q) \in Bundle /\ Retracting(q).retracted = Read.retracted \cup {q}
    BY <1>1, <1>4, OnDiskIs DEF Retracting, Bundle, StartRetract
  <2>3. AtStart(j)
    <3>1. Made(j, "retract", "write", Retracting(q), q, {q}, {})
      BY <1>1, <2>1, <2>2, JobIs
    <3>2. QED
      BY <2>2, <3>1 DEF AtStart, Made
  <2>4. Begin(p, j)
    BY <1>4, <2>1 DEF StartRetract
  <2>5. QED
    BY <1>4, <2>3, <2>4, BeginIs DEF StartRetract, AtStart, Event
<1>5. ASSUME NEW q \in Pair, NEW op \in {"approve", "reject"}, StartReview(p, op, q)
      PROVE  /\ \E j : New(p, j) /\ AtStart(j)
             /\ UNCHANGED <<bundle, broken, shared, pending, imported, pulls, excuse>>
             /\ events < MaxEvents /\ events' = events + 1
  <2>1. PICK u : u = Job(op, "drop", Empty, q, {}, pending)
    OBVIOUS
  <2>2. PICK j : j = [u EXCEPT !.promote = {q}]
    OBVIOUS
  <2>3. /\ u \in Run /\ u.op = op /\ u.at = "drop" /\ u.pair = q /\ u.queue = pending
        /\ u.changed \subseteq {"run"}
        /\ \A r \in Proc : Running(r) => "run" \in u.changed
    <3>1. Made(u, op, "drop", Empty, q, {}, pending)
      BY <1>1, <2>1, JobIs
    <3>2. QED
      BY <3>1 DEF Made
  <2>4. /\ j \in Run /\ After(u, j) /\ j.at = "drop" /\ j.queue = pending /\ j.promote = {q}
        /\ j.changed = u.changed
    <3>1. {q} \in SUBSET Pair
      OBVIOUS
    <3>2. QED
      BY <2>2, <2>3, <3>1, SetPromote
  <2>5. AtStart(j)
    BY <1>5, <2>3, <2>4 DEF AtStart, After, StartReview
  <2>6. Begin(p, j)
    BY <1>5, <2>1, <2>2 DEF StartReview
  <2>7. QED
    BY <1>5, <2>4, <2>5, <2>6, BeginIs DEF StartReview, Event
<1>6. QED
  BY <1>2, <1>3, <1>4, <1>5 DEF Starts

\* The write of the bundle, by a publish or a retract.
LEMMA WriteIs ==
    ASSUME Typed, NEW p \in Proc, WriteBundle(p)
    PROVE  /\ job[p] \in Run /\ Shaped(job[p]) /\ Running(p) /\ job[p].at = "write"
           /\ job[p].op \in {"publish", "retract"}
           /\ job' \in [Proc -> {Idle} \cup Run] /\ job'[p] \in Run /\ After(job[p], job'[p])
           /\ job'[p].at = (IF job[p].op = "retract" THEN "delete" ELSE "mark")
           /\ job'[p].todo = job[p].todo /\ job'[p].queue = job[p].queue
           /\ job'[p].promote = job[p].promote /\ job'[p].changed = job[p].changed
           /\ \A r \in Proc \ {p} : IF Running(r) THEN Told(job[r], job'[r], "bundle")
                                                  ELSE job'[r] = Idle
           /\ bundle' = job[p].bundle /\ bundle' \in Bundle
           /\ broken' = FALSE /\ (~excuse' => ~Unread(p) /\ ~excuse)
<1>1. /\ job[p] \in Run /\ job \in [Proc -> {Idle} \cup Run] /\ Shaped(job[p]) /\ Running(p)
      /\ job[p].at = "write"
  BY RunningIsRun DEF Typed, WriteBundle, Running
<1>2. job[p].op \in {"publish", "retract"}
  BY <1>1 DEF Shaped, Places, Run
<1>3. PICK a : a = IF job[p].op = "retract" THEN "delete" ELSE "mark"
  OBVIOUS
<1>4. PICK v : v = [job[p] EXCEPT !.at = a]
  OBVIOUS
<1>5. PICK jobs : jobs = [job EXCEPT ![p] = v]
  OBVIOUS
<1>6. job' = Tell(jobs, p, "bundle")
  BY <1>1, <1>3, <1>4, <1>5 DEF WriteBundle
<1>7. /\ v \in Run /\ After(job[p], v) /\ v.at = a /\ v.todo = job[p].todo
      /\ v.queue = job[p].queue /\ v.promote = job[p].promote /\ v.changed = job[p].changed
  BY <1>1, <1>3, <1>4, SetAt
<1>8. /\ jobs \in [Proc -> {Idle} \cup Run] /\ jobs[p] = v
      /\ \A r \in Proc \ {p} : jobs[r] = job[r]
  BY <1>1, <1>5, <1>7
<1>9. /\ job' \in [Proc -> {Idle} \cup Run] /\ job'[p] = v
      /\ \A r \in Proc : ~(r = p \/ jobs[r] = Idle) => Told(jobs[r], job'[r], "bundle")
      /\ \A r \in Proc : jobs[r] = Idle => job'[r] = jobs[r]
  BY <1>6, <1>8, TellIs DEF Changes
<1>10. bundle' = job[p].bundle /\ bundle' \in Bundle
       /\ broken' = FALSE /\ (~excuse' => ~Unread(p) /\ ~excuse)
  BY <1>1 DEF WriteBundle, Excused, Run
<1>11. QED
  BY <1>1, <1>2, <1>3, <1>7, <1>8, <1>9, <1>10 DEF Running

\* git pull, and the end of a merge by hand.
LEMMA PullIs ==
    ASSUME Typed, Pull \/ Repair
    PROVE  /\ job' \in [Proc -> {Idle} \cup Run]
           /\ \A r \in Proc : IF Running(r) THEN Told(job[r], job'[r], "bundle")
                                            ELSE job'[r] = Idle
           /\ bundle' \in Bundle \cup {None} /\ broken' \in BOOLEAN
           /\ OnDisk.retracted \subseteq (OnDisk.retracted)'
           /\ UNCHANGED <<shared, pending, imported, events, excuse>>
<1>1. job' = Tell(job, None, "bundle") /\ None \notin Proc /\ job \in [Proc -> {Idle} \cup Run]
  BY TeamAssumption DEF Pull, Repair, Typed
<1>2. /\ job' \in [Proc -> {Idle} \cup Run]
      /\ \A r \in Proc : ~(r = None \/ job[r] = Idle) => Told(job[r], job'[r], "bundle")
      /\ \A r \in Proc : job[r] = Idle => job'[r] = job[r]
  BY <1>1, TellIs DEF Changes
<1>3. /\ bundle' \in Bundle \cup {None} /\ broken' \in BOOLEAN
      /\ OnDisk.retracted \subseteq (OnDisk.retracted)'
  <2>1. CASE Merged
    BY <2>1, OnDiskNext DEF Merged
  <2>2. CASE broken' = TRUE /\ UNCHANGED bundle
    BY <2>2 DEF OnDisk, Typed
  <2>3. QED
    BY <2>1, <2>2 DEF Pull, Repair
<1>4. QED
  BY <1>1, <1>2, <1>3 DEF Pull, Repair, Running

\* The steps of a run leave the other runs alone, and it stays the run it is, or ends.
LEMMA StepIs ==
    ASSUME Typed, NEW p \in Proc, ImportSteps(p) \/ Stop(p)
    PROVE  /\ Running(p) /\ job[p] \in Run /\ Shaped(job[p])
           /\ job' \in [Proc -> {Idle} \cup Run] /\ \A r \in Proc \ {p} : job'[r] = job[r]
           /\ \/ job'[p] = Idle
              \/ /\ job'[p] \in Run /\ After(job[p], job'[p]) /\ Shaped(job'[p])
                 /\ job[p].changed \subseteq job'[p].changed
                 /\ job'[p].changed \subseteq job[p].changed \cup {"step"}
                 /\ job[p].at # "write" /\ job'[p].at # "write"
                 /\ job[p].op # "import" => job'[p].promote = job[p].promote
           /\ UNCHANGED <<bundle, broken, pulls>>
<1>1. Running(p)
  <2>1. CASE CheckHash(p) \/ Gate(p)
    <3>1. Idle.op = "none"
      BY DEF Idle
    <3>2. job[p].op = "import"
      BY <2>1 DEF CheckHash, Gate
    <3>3. QED
      BY <3>1, <3>2 DEF Running
  <2>2. QED
    BY <2>1 DEF ImportSteps, DeleteEdge, Promote, LoadQueue, DropPending, AddPending,
                MarkImported, Stop, Running
<1>2. job[p] \in Run /\ Shaped(job[p])
  BY <1>1, RunningIsRun
<1>3. UNCHANGED <<bundle, broken, pulls>>
  BY DEF ImportSteps, CheckHash, DeleteEdge, Gate, Promote, LoadQueue, DropPending, AddPending,
         MarkImported, Stop
<1> DEFINE Result ==
             /\ job' \in [Proc -> {Idle} \cup Run] /\ \A r \in Proc \ {p} : job'[r] = job[r]
             /\ \/ job'[p] = Idle
                \/ /\ job'[p] \in Run /\ After(job[p], job'[p]) /\ Shaped(job'[p])
                   /\ job[p].changed \subseteq job'[p].changed
                   /\ job'[p].changed \subseteq job[p].changed \cup {"step"}
                   /\ job[p].at # "write" /\ job'[p].at # "write"
                   /\ job[p].op # "import" => job'[p].promote = job[p].promote
<1>4. Done(p) => Result
  BY DoneEnds DEF Ends
<1>5. CASE CheckHash(p)
  <2>1. CASE Done(p)
    BY <1>3, <1>4, <2>1, <1>1, <1>2
  <2>2. CASE Goto(p, AfterDeletes(job[p]))
    <3>1. AfterDeletes(job[p]) \in {"gate", "delete"}
      BY DEF AfterDeletes
    <3>2. PICK a \in {"gate", "delete"} : a = AfterDeletes(job[p])
      BY <3>1
    <3>3. Turn(p, a, job[p].todo, job[p].queue, job[p].promote, job[p].changed)
      BY <1>1, <2>2, <3>2, GotoTurns
    <3>4. Shaped(job'[p])
      BY <1>2, <1>5, <3>3 DEF CheckHash, Turn, After, Shaped, Places
    <3>5. QED
      BY <1>1, <1>2, <1>3, <1>5, <3>3, <3>4 DEF Turn, CheckHash
  <2>3. QED
    BY <1>5, <2>1, <2>2 DEF CheckHash
<1>6. CASE DeleteEdge(p)
  <2>1. PICK q \in job[p].todo :
          Turn(p, IF job[p].todo = {q} THEN "load" ELSE "delete", job[p].todo \ {q},
               job[p].queue, job[p].promote, job[p].changed)
    BY <1>6, DeleteTurns
  <2>2. job[p].at = "delete" /\ job[p].op \in {"import", "retract"}
    BY <1>2, <1>6 DEF DeleteEdge, Shaped, Places, Run
  <2>3. Shaped(job'[p])
    BY <1>2, <2>1, <2>2 DEF Turn, After, Shaped, Places
  <2>4. QED
    BY <1>1, <1>2, <1>3, <2>1, <2>2, <2>3 DEF Turn
<1>7. ASSUME NEW fails \in BOOLEAN, LoadQueue(p, fails)
      PROVE  Result
  <2>1. Turn(p, IF job[p].at = "load" THEN "drop" ELSE "add", job[p].todo,
             IF fails THEN {} ELSE pending, job[p].promote, job[p].changed \cup Failed(fails))
    BY <1>7, LoadTurns
  <2>2. \/ job[p].at = "load" /\ job[p].op \in {"import", "retract"}
        \/ job[p].at = "read" /\ job[p].op = "import"
    BY <1>2, <1>7 DEF LoadQueue, Shaped, Places, Run
  <2>3. Shaped(job'[p])
    BY <1>2, <2>1, <2>2 DEF Turn, After, Shaped, Places
  <2>4. QED
    BY <2>1, <2>2, <2>3 DEF Turn, Failed
<1>8. ASSUME NEW fails \in BOOLEAN, DropPending(p, fails)
      PROVE  Result
  <2>1. CASE Ends(p)
    BY <2>1 DEF Ends
  <2>2. CASE Turn(p, AfterDrop(p), job[p].todo, {}, job[p].promote,
                  job[p].changed \cup Failed(fails)) /\ job[p].op # "reject"
    <3>1. job[p].at = "drop" /\ job[p].op \in {"import", "retract", "approve"}
      BY <1>2, <1>8, <2>2 DEF DropPending, Shaped, Places, Run
    <3>2. /\ job[p].op = "import" => AfterDrop(p) = "gate"
          /\ job[p].op = "retract" => AfterDrop(p) = "mark"
          /\ job[p].op = "approve" => AfterDrop(p) = "promote"
      BY DEF AfterDrop
    <3>3. Shaped(job'[p])
      BY <1>2, <2>2, <3>1, <3>2 DEF Turn, After, Shaped, Places
    <3>4. QED
      BY <2>2, <3>1, <3>2, <3>3 DEF Turn, Failed
  <2>3. QED
    BY <1>8, <2>1, <2>2, DropTurns
<1>9. CASE Gate(p)
  <2>1. PICK promote \in SUBSET Incoming(job[p].bundle) :
          \E review \in SUBSET (Incoming(job[p].bundle) \ promote) :
             Turn(p, IF review = {} THEN "promote" ELSE "read", review, job[p].queue,
                  promote, job[p].changed)
    BY <1>9, GateTurns
  <2>2. PICK review \in SUBSET (Incoming(job[p].bundle) \ promote) :
             Turn(p, IF review = {} THEN "promote" ELSE "read", review, job[p].queue,
                  promote, job[p].changed)
    BY <2>1
  <2>3. promote \cap job[p].bundle.retracted = {} /\ review \cap job[p].bundle.retracted = {}
    BY <2>1, <2>2 DEF Incoming
  <2>4. Shaped(job'[p])
    BY <1>2, <1>9, <2>2, <2>3 DEF Gate, Turn, After, Shaped, Places
  <2>5. QED
    BY <1>1, <1>2, <1>3, <1>9, <2>2, <2>4 DEF Turn, Gate
<1>10. ASSUME NEW fails \in BOOLEAN, AddPending(p, fails)
       PROVE  Result
  <2>1. PICK q \in job[p].todo :
          Turn(p, IF job[p].todo = {q} THEN "promote" ELSE "read", job[p].todo \ {q},
               {}, job[p].promote, job[p].changed \cup Failed(fails))
    BY <1>10, AddTurns
  <2>2. job[p].at = "add" /\ job[p].op = "import"
    BY <1>2, <1>10 DEF AddPending, Shaped, Places, Run
  <2>3. Shaped(job'[p])
    BY <1>2, <2>1, <2>2 DEF Turn, After, Shaped, Places
  <2>4. QED
    BY <2>1, <2>2, <2>3 DEF Turn, Failed
<1>11. CASE Promote(p)
  <2>1. CASE Done(p)
    BY <1>3, <1>4, <2>1, <1>1, <1>2
  <2>2. CASE Goto(p, "mark") /\ job[p].op # "approve"
    <3>1. Turn(p, "mark", job[p].todo, job[p].queue, job[p].promote, job[p].changed)
      BY <1>1, <2>2, GotoTurns
    <3>2. job[p].op = "import"
      BY <1>2, <1>11, <2>2 DEF Promote, Shaped, Places, Run
    <3>3. Shaped(job'[p])
      BY <1>2, <3>1, <3>2 DEF Turn, After, Shaped, Places
    <3>4. QED
      BY <1>1, <1>2, <1>3, <1>11, <3>1, <3>3 DEF Turn, Promote
  <2>3. QED
    BY <1>11, <2>1, <2>2 DEF Promote
<1>12. CASE Stop(p) \/ \E fails \in BOOLEAN : MarkImported(p, fails)
  BY <1>1, <1>2, <1>3, <1>4, <1>12 DEF Stop, MarkImported
<1>13. QED
  BY <1>1, <1>2, <1>3, <1>5, <1>6, <1>7, <1>8, <1>9, <1>10, <1>11, <1>12 DEF ImportSteps

--------------------------------------------------------------------------------
(* Type correctness of what the proofs below use *)

LEMMA BoundsNat == MaxPulls \in Nat /\ MaxEvents \in Nat
BY TeamAssumption

LEMMA ToldShaped ==
    ASSUME NEW u \in Run, Shaped(u), NEW v, NEW what, Told(u, v, what)
    PROVE  v \in Run /\ Shaped(v)
BY DEF Told, After, Shaped

LEMMA JobsTyped ==
    ASSUME Typed, [Next]_vars
    PROVE  job' \in [Proc -> {Idle} \cup Run] /\ \A p \in Proc : Running(p)' => Shaped(job'[p])
<1>1. \A r \in Proc : Running(r) => job[r] \in Run /\ Shaped(job[r])
  BY RunningIsRun
<1>2. CASE Pull \/ Repair
  BY <1>1, <1>2, PullIs, ToldShaped DEF Running
<1>3. ASSUME NEW p \in Proc, Starts(p)
      PROVE  /\ job' \in [Proc -> {Idle} \cup Run]
             /\ \A r \in Proc : Running(r)' => Shaped(job'[r])
  <2>1. PICK j : New(p, j) /\ AtStart(j)
    BY <1>3, StartIs
  <2>2. Shaped(j)
    <3>1. pending \subseteq Pair
      BY DEF Typed
    <3>2. QED
      BY <2>1, <3>1 DEF AtStart, Shaped, Places
  <2>3. \A r \in Proc \ {p} : Running(r)' => Shaped(job'[r])
    BY <1>1, <2>1, ToldShaped DEF New, Running
  <2>4. QED
    BY <2>1, <2>2, <2>3 DEF New
<1>4. ASSUME NEW p \in Proc, ImportSteps(p) \/ Stop(p)
      PROVE  /\ job' \in [Proc -> {Idle} \cup Run]
             /\ \A r \in Proc : Running(r)' => Shaped(job'[r])
  BY <1>1, <1>4, StepIs DEF Running
<1>5. ASSUME NEW p \in Proc, WriteBundle(p)
      PROVE  /\ job' \in [Proc -> {Idle} \cup Run]
             /\ \A r \in Proc : Running(r)' => Shaped(job'[r])
  <2>1. Shaped(job'[p])
    <3>1. /\ Shaped(job[p]) /\ job[p].op \in {"publish", "retract"} /\ After(job[p], job'[p])
          /\ job'[p].at = (IF job[p].op = "retract" THEN "delete" ELSE "mark")
          /\ job'[p].promote = job[p].promote
      BY <1>5, WriteIs
    <3>2. QED
      BY <3>1 DEF Shaped, Places, After
  <2>2. \A r \in Proc \ {p} : Running(r)' => Shaped(job'[r])
    BY <1>1, <1>5, WriteIs, ToldShaped DEF Running
  <2>3. QED
    BY <1>5, <2>1, <2>2, WriteIs
<1>6. CASE UNCHANGED vars
  BY <1>6 DEF vars, Typed, Running
<1>7. QED
  BY <1>2, <1>3, <1>4, <1>5, <1>6, NextCases

LEMMA StoreTyped ==
    ASSUME Typed, [Next]_vars
    PROVE  /\ shared' \subseteq Pair /\ pending' \subseteq Pair
           /\ bundle' \in Bundle \cup {None} /\ imported' \in Bundle \cup {None}
           /\ broken' \in BOOLEAN
<1>1. /\ shared \subseteq Pair /\ pending \subseteq Pair
      /\ bundle \in Bundle \cup {None} /\ imported \in Bundle \cup {None}
      /\ broken \in BOOLEAN
      /\ \A p \in Proc : Running(p) => /\ job[p].queue \subseteq Pair /\ job[p].todo \subseteq Pair
                                       /\ job[p].promote \subseteq Pair /\ job[p].bundle \in Bundle
  BY RunningIsRun DEF Typed, Run
<1>2. CASE Pull \/ Repair
  BY <1>1, <1>2, PullIs
<1>3. ASSUME NEW p \in Proc, Starts(p)
      PROVE  UNCHANGED <<bundle, broken, shared, pending, imported>>
  BY <1>3, StartIs
<1>4. ASSUME NEW p \in Proc, WriteBundle(p)
      PROVE  bundle' \in Bundle /\ broken' = FALSE /\ UNCHANGED <<shared, pending, imported>>
  BY <1>4, WriteIs DEF WriteBundle
<1>5. ASSUME NEW p \in Proc, Running(p), NEW fails \in BOOLEAN,
             \/ CheckHash(p) \/ DeleteEdge(p) \/ Gate(p) \/ Promote(p) \/ Stop(p)
             \/ LoadQueue(p, fails) \/ DropPending(p, fails) \/ AddPending(p, fails)
             \/ MarkImported(p, fails)
      PROVE  /\ UNCHANGED <<bundle, broken>>
             /\ shared' \subseteq Pair /\ pending' \subseteq Pair
             /\ imported' \in Bundle \cup {None}
  <2>1. CASE CheckHash(p) \/ Gate(p) \/ Stop(p) \/ LoadQueue(p, fails) \/ DeleteEdge(p)
    BY <1>1, <2>1 DEF CheckHash, Gate, Stop, LoadQueue, DeleteEdge
  <2>2. CASE Promote(p) \/ MarkImported(p, fails)
    BY <1>1, <1>5, <2>2 DEF Promote, MarkImported
  <2>3. CASE DropPending(p, fails) \/ AddPending(p, fails)
    BY <1>1, <1>5, <2>3 DEF DropPending, AddPending, SaveQueue
  <2>4. QED
    BY <1>5, <2>1, <2>2, <2>3
<1>6. ASSUME NEW p \in Proc, ImportSteps(p) \/ Stop(p)
      PROVE  /\ UNCHANGED <<bundle, broken>>
             /\ shared' \subseteq Pair /\ pending' \subseteq Pair
             /\ imported' \in Bundle \cup {None}
  <2>1. Running(p)
    BY <1>6, StepIs
  <2>2. QED
    BY <1>5, <1>6, <2>1 DEF ImportSteps
<1>7. CASE UNCHANGED vars
  BY <1>1, <1>7 DEF vars
<1>8. QED
  BY <1>1, <1>2, <1>3, <1>4, <1>6, <1>7, NextCases

LEMMA CountersTyped ==
    ASSUME Typed, [Next]_vars
    PROVE  pulls' \in 0..MaxPulls /\ events' \in 0..MaxEvents /\ excuse' \in BOOLEAN
<1>1. pulls' = pulls \/ (pulls < MaxPulls /\ pulls' = pulls + 1)
  <2>1. CASE Pull \/ Repair
    BY <2>1 DEF Pull, Repair
  <2>2. CASE UNCHANGED vars
    BY <2>2 DEF vars
  <2>3. QED
    BY <2>1, <2>2, NextCases, StartIs, StepIs DEF WriteBundle
<1>2. events' = events \/ (events < MaxEvents /\ events' = events + 1)
  <2>1. CASE Pull \/ Repair \/ \E p \in Proc : WriteBundle(p)
    BY <2>1 DEF Pull, Repair, WriteBundle
  <2>2. CASE UNCHANGED vars
    BY <2>2 DEF vars
  <2>3. ASSUME NEW p \in Proc, NEW fails \in BOOLEAN,
               \/ CheckHash(p) \/ DeleteEdge(p) \/ Gate(p) \/ Promote(p) \/ Stop(p)
               \/ LoadQueue(p, fails) \/ MarkImported(p, fails)
        PROVE  events' = events \/ (events < MaxEvents /\ events' = events + 1)
    BY <2>3 DEF CheckHash, DeleteEdge, Gate, Promote, Stop, LoadQueue, MarkImported, Event
  <2>4. ASSUME NEW p \in Proc, NEW fails \in BOOLEAN,
               DropPending(p, fails) \/ AddPending(p, fails)
        PROVE  events' = events \/ (events < MaxEvents /\ events' = events + 1)
    BY <2>4 DEF DropPending, AddPending, SaveQueue, Event
  <2>5. QED
    BY <2>1, <2>2, <2>3, <2>4, NextCases, StartIs DEF ImportSteps
<1>3. excuse' \in BOOLEAN
  <2>1. excuse \in BOOLEAN
    BY DEF Typed
  <2>2. CASE Pull \/ Repair \/ (\E p \in Proc : Starts(p)) \/ UNCHANGED vars
    BY <2>1, <2>2, StartIs DEF Pull, Repair, vars
  <2>3. ASSUME NEW p \in Proc, NEW fails \in BOOLEAN,
               \/ WriteBundle(p) \/ CheckHash(p) \/ DeleteEdge(p) \/ Gate(p) \/ Promote(p)
               \/ Stop(p) \/ LoadQueue(p, fails)
        PROVE  excuse' \in BOOLEAN
    BY <2>1, <2>3 DEF WriteBundle, CheckHash, DeleteEdge, Gate, Promote, Stop, LoadQueue, Excused
  <2>4. ASSUME NEW p \in Proc, NEW fails \in BOOLEAN, MarkImported(p, fails)
        PROVE  excuse' \in BOOLEAN
    <3>1. job[p].unread \in BOOLEAN
      BY <2>4, RunningIsRun DEF MarkImported, Run, Running
    <3>2. QED
      BY <2>1, <2>4, <3>1 DEF MarkImported
  <2>5. ASSUME NEW p \in Proc, NEW fails \in BOOLEAN,
               DropPending(p, fails) \/ AddPending(p, fails)
        PROVE  excuse' \in BOOLEAN
    BY <2>1, <2>5 DEF DropPending, AddPending, SaveQueue, Excused
  <2>6. QED
    BY <2>2, <2>3, <2>4, <2>5, NextCases DEF ImportSteps
<1>4. pulls' \in 0..MaxPulls /\ events' \in 0..MaxEvents
  BY <1>1, <1>2, BoundsNat DEF Typed
<1>5. QED
  BY <1>3, <1>4

LEMMA TypedAlways == Spec => []Typed
<1>1. Init => Typed
  <2> SUFFICES ASSUME Init PROVE Typed
    OBVIOUS
  <2>1. /\ bundle \in Bundle \cup {None} /\ imported \in Bundle \cup {None}
        /\ shared \subseteq Pair /\ pending \subseteq Pair
    BY DEF Init, Bundle
  <2>broken. broken \in BOOLEAN
    BY Zenon DEF Init
  <2>2. job \in [Proc -> {Idle} \cup Run] /\ \A p \in Proc : Running(p) => Shaped(job[p])
    BY DEF Init, Running
  <2>3. pulls \in 0..MaxPulls /\ events \in 0..MaxEvents
    BY BoundsNat DEF Init
  <2>4. QED
    BY <2>1, <2>broken, <2>2, <2>3 DEF Typed, Init
<1>2. Typed /\ [Next]_vars => Typed'
  BY JobsTyped, StoreTyped, CountersTyped DEF Typed
<1>3. QED
  BY <1>1, <1>2, PTL DEF Spec

--------------------------------------------------------------------------------
(* Retractions travel *)

\* A run that wasn't told of a change of the file works on the file as it is.
AsFound(j) ==
    "bundle" \notin j.changed =>
        /\ j.op = "import" => bundle = j.bundle
        /\ j.op = "publish" /\ j.at = "write" => j.bundle.retracted = Read.retracted
        /\ j.op = "retract" /\ j.at = "write" =>
              j.bundle.retracted = Read.retracted \cup {j.pair}

Fresh == \A p \in Proc : Running(p) => AsFound(job[p])

LEMMA FreshStep ==
    ASSUME Typed, Fresh, [Next]_vars
    PROVE  Fresh'
<1>1. CASE Pull \/ Repair
  <2>1. ASSUME NEW r \in Proc, Running(r)'
        PROVE  AsFound(job[r])'
    <3>1. Running(r) /\ Told(job[r], job'[r], "bundle")
      BY <1>1, <2>1, PullIs DEF Running
    <3>2. QED
      BY <3>1 DEF Told, AsFound
  <2>2. QED
    BY <2>1 DEF Fresh
<1>2. ASSUME NEW p \in Proc, Starts(p)
      PROVE  Fresh'
  <2>1. PICK j : New(p, j) /\ AtStart(j)
    BY <1>2, StartIs
  <2>2. bundle' = bundle /\ broken' = broken
    BY <1>2, StartIs
  <2>3. ASSUME NEW r \in Proc, Running(r)'
        PROVE  AsFound(job[r])'
    <3>1. CASE r = p
      BY <2>1, <2>2, <3>1 DEF New, AtStart, AsFound, OnDisk, Read
    <3>2. CASE r # p
      <4>1. Running(r) /\ Told(job[r], job'[r], "run") /\ AsFound(job[r])
        BY <2>1, <2>3, <3>2 DEF New, Running, Fresh
      <4>2. QED
        BY <2>2, <4>1 DEF Told, After, AsFound, OnDisk, Read
    <3>3. QED
      BY <3>1, <3>2
  <2>4. QED
    BY <2>3 DEF Fresh
<1>3. ASSUME NEW p \in Proc, ImportSteps(p) \/ Stop(p)
      PROVE  Fresh'
  <2>1. bundle' = bundle /\ broken' = broken
    BY <1>3, StepIs
  <2>2. ASSUME NEW r \in Proc, Running(r)'
        PROVE  AsFound(job[r])'
    <3>1. CASE r = p
      <4>1. AsFound(job[p]) /\ After(job[p], job'[p]) /\ job[p].changed \subseteq job'[p].changed
            /\ job'[p].at # "write"
        BY <1>3, <2>2, <3>1, StepIs DEF Fresh, Running
      <4>2. QED
        BY <2>1, <3>1, <4>1 DEF After, AsFound
    <3>2. CASE r # p
      <4>1. job'[r] = job[r] /\ AsFound(job[r])
        BY <1>3, <2>2, <3>2, StepIs DEF Fresh, Running
      <4>2. QED
        BY <2>1, <4>1 DEF AsFound, OnDisk, Read
    <3>3. QED
      BY <3>1, <3>2
  <2>3. QED
    BY <2>2 DEF Fresh
<1>4. ASSUME NEW p \in Proc, WriteBundle(p)
      PROVE  Fresh'
  <2>1. ASSUME NEW r \in Proc, Running(r)'
        PROVE  AsFound(job[r])'
    <3>1. CASE r = p
      BY <1>4, <3>1, WriteIs DEF After, AsFound
    <3>2. CASE r # p
      <4>1. Told(job[r], job'[r], "bundle")
        BY <1>4, <2>1, <3>2, WriteIs DEF Running
      <4>2. QED
        BY <4>1 DEF Told, AsFound
    <3>3. QED
      BY <3>1, <3>2
  <2>2. QED
    BY <2>1 DEF Fresh
<1>5. CASE UNCHANGED vars
  BY <1>5 DEF vars, Fresh, Running, AsFound, OnDisk, Read
<1>6. QED
  BY <1>1, <1>2, <1>3, <1>4, <1>5, NextCases

LEMMA FreshAlways == Spec => []Fresh
<1>1. Init => Fresh
  BY DEF Init, Fresh, Running
<1>2. Typed /\ Fresh /\ [Next]_vars => Fresh'
  BY FreshStep
<1>3. QED
  BY <1>1, <1>2, TypedAlways, PTL DEF Spec

\* A write of the bundle keeps its retractions, unless it goes over what wasn't read.
LEMMA WriteKeeps ==
    ASSUME Typed, Fresh, NEW p \in Proc, WriteBundle(p), ~Unread(p)
    PROVE  /\ OnDisk.retracted \subseteq bundle'.retracted
           /\ job[p].op = "retract" => job[p].pair \in bundle'.retracted
           /\ bundle'.retracted \ {job[p].pair} \subseteq OnDisk.retracted
<1>1. AsFound(job[p]) /\ job[p].at = "write" /\ job[p].op \in {"publish", "retract"}
      /\ bundle' = job[p].bundle
  BY WriteIs DEF Fresh
<1>2. QED
  BY <1>1, OnDiskIs DEF AsFound, Unread

\* What a step does to the retractions in the file, unless it writes over what its run
\* hasn't read.
LEMMA KeepsRetractions ==
    ASSUME Typed, Fresh, [Next]_vars,
           \A p \in Proc : WriteBundle(p) => ~Unread(p)
    PROVE  OnDisk.retracted \subseteq (OnDisk.retracted)'
<1>1. CASE Pull \/ Repair
  BY <1>1, PullIs
<1>2. ASSUME NEW p \in Proc, WriteBundle(p)
      PROVE  OnDisk.retracted \subseteq (OnDisk.retracted)'
  BY <1>2, WriteIs, WriteKeeps, OnDiskNext
<1>3. CASE UNCHANGED bundle
  BY <1>3 DEF OnDisk
<1>4. QED
  BY <1>1, <1>2, <1>3, NextCases, StartIs, StepIs DEF vars

\* "Retractions travel with the bundle" (team_memory.py:23): whatever is retracted in
\* the file stays so, over every publish, retraction and pull, but for a run that writes
\* over what it hasn't read: a bundle changed since, or one that publish can't parse.
THEOREM Travel == Spec => RetractionsTravel
<1>1. Typed /\ Fresh /\ [Next]_vars =>
        [OnDisk.retracted \subseteq OnDisk'.retracted
          \/ \E p \in Proc : job[p] # Idle /\ job[p].at = "write" /\ job[p] # job'[p] /\ Unread(p)]_vars
  <2> SUFFICES ASSUME Typed, Fresh, [Next]_vars,
                      ~\E p \in Proc : /\ job[p] # Idle /\ job[p].at = "write"
                                       /\ job[p] # job'[p] /\ Unread(p)
               PROVE  OnDisk.retracted \subseteq (OnDisk.retracted)'
    OBVIOUS
  <2>1. ASSUME NEW p \in Proc, WriteBundle(p), Unread(p)
        PROVE  FALSE
    <3>1. job[p] # Idle /\ job[p].at = "write" /\ job'[p].at \in {"delete", "mark"}
      BY <2>1, WriteIs DEF Running
    <3>2. job[p] # job'[p]
      BY <3>1
    <3>3. QED
      BY <2>1, <3>1, <3>2
  <2>2. QED
    BY <2>1, KeepsRetractions
<1>2. QED
  BY <1>1, TypedAlways, FreshAlways, PTL DEF Spec, RetractionsTravel

\* The state of the bundle, of the store and of every run is always one the code can
\* be in; an import promotes no pair its bundle retracts (team_memory.py:548).
THEOREM TypeCorrect == Spec => []TypeOK
<1>1. Typed => TypeOK
  <2> SUFFICES ASSUME Typed PROVE TypeOK
    OBVIOUS
  <2>1. ASSUME NEW p \in Proc, job[p] # Idle
        PROVE  /\ job[p].op \in {"import", "publish", "retract", "approve", "reject"}
               /\ job[p].at \in {"check", "write", "delete", "load", "drop", "gate", "read",
                                 "add", "promote", "mark"}
               /\ job[p].bundle \in Bundle /\ job[p].queue \subseteq Pair
               /\ job[p].todo \cup job[p].promote \subseteq Pair
               /\ job[p].changed \subseteq Changes
               /\ job[p].op = "import" => job[p].promote \cap job[p].bundle.retracted = {}
    <3>1. job[p] \in Run /\ Shaped(job[p])
      BY <2>1, RunningIsRun DEF Running
    <3>2. QED
      BY <3>1 DEF Run, Shaped
  <2>2. QED
    BY <2>1 DEF Typed, TypeOK
<1>2. QED
  BY <1>1, TypedAlways, PTL

--------------------------------------------------------------------------------
(* Runs that overlap, and the history variable excuse *)

\* Runs that go on at the same time know of each other.
Overlap ==
    \A p, r \in Proc : p # r /\ Running(p) /\ Running(r) => "run" \in job[p].changed

LEMMA OverlapStep ==
    ASSUME Typed, Overlap, [Next]_vars
    PROVE  Overlap'
<1>1. CASE Pull \/ Repair
  <2>1. \A r \in Proc : Running(r)' =>
          Running(r) /\ job[r].changed \subseteq job'[r].changed
    BY <1>1, PullIs DEF Running, Told
  <2>2. QED
    BY <2>1 DEF Overlap
<1>2. ASSUME NEW p \in Proc, Starts(p)
      PROVE  Overlap'
  <2>1. PICK j : New(p, j) /\ AtStart(j)
    BY <1>2, StartIs
  <2>2. \A r \in Proc \ {p} : Running(r)' => Running(r) /\ "run" \in job'[r].changed
    BY <2>1 DEF New, Running, Told
  <2>3. ASSUME NEW r \in Proc \ {p}, Running(r)'
        PROVE  "run" \in job'[p].changed
    BY <2>1, <2>2, <2>3 DEF New, AtStart
  <2>4. QED
    BY <2>2, <2>3 DEF Overlap
<1>3. ASSUME NEW p \in Proc, ImportSteps(p) \/ Stop(p) \/ WriteBundle(p)
      PROVE  Overlap'
  <2>1. \A r \in Proc : Running(r)' =>
          Running(r) /\ job[r].changed \subseteq job'[r].changed
    <3>1. CASE ImportSteps(p) \/ Stop(p)
      <4>1. Running(p)' => Running(p) /\ job[p].changed \subseteq job'[p].changed
        BY <3>1, StepIs DEF Running
      <4>2. \A r \in Proc \ {p} : job'[r] = job[r]
        BY <3>1, StepIs
      <4>3. QED
        BY <4>1, <4>2 DEF Running
    <3>2. CASE WriteBundle(p)
      <4>1. Running(p) /\ job[p].changed \subseteq job'[p].changed
        BY <3>2, WriteIs
      <4>2. \A r \in Proc \ {p} : Running(r)' =>
              Running(r) /\ job[r].changed \subseteq job'[r].changed
        BY <3>2, WriteIs DEF Running, Told
      <4>3. QED
        BY <4>1, <4>2
    <3>3. QED
      BY <1>3, <3>1, <3>2
  <2>2. QED
    BY <2>1 DEF Overlap
<1>4. CASE UNCHANGED vars
  BY <1>4 DEF vars, Overlap, Running
<1>5. QED
  BY <1>1, <1>2, <1>3, <1>4, NextCases

LEMMA OverlapAlways == Spec => []Overlap
<1>1. Init => Overlap
  BY DEF Init, Overlap, Running
<1>2. Typed /\ Overlap /\ [Next]_vars => Overlap'
  BY OverlapStep
<1>3. QED
  BY <1>1, <1>2, TypedAlways, PTL DEF Spec

\* The end of an import that nothing disturbed, which puts right what went wrong
\* before it.
PutsRight(p) ==
    MarkImported(p, FALSE) /\ job[p].op = "import" /\ job[p].changed = {}

LEMMA ExcuseCases ==
    ASSUME Typed, [Next]_vars, ~excuse'
    PROVE  ~excuse \/ \E p \in Proc : PutsRight(p)
<1>1. CASE Pull \/ Repair \/ UNCHANGED vars
  BY <1>1, PullIs DEF vars
<1>2. ASSUME NEW p \in Proc, Starts(p) \/ WriteBundle(p)
      PROVE  ~excuse
  BY <1>2, StartIs, WriteIs
<1>3. ASSUME NEW p \in Proc, NEW fails \in BOOLEAN,
             \/ CheckHash(p) \/ DeleteEdge(p) \/ Gate(p) \/ Promote(p) \/ Stop(p)
             \/ LoadQueue(p, fails)
      PROVE  ~excuse
  BY <1>3 DEF CheckHash, DeleteEdge, Gate, Promote, Stop, LoadQueue, Excused
<1>4. ASSUME NEW p \in Proc, NEW fails \in BOOLEAN,
             DropPending(p, fails) \/ AddPending(p, fails)
      PROVE  ~excuse
  BY <1>4 DEF DropPending, AddPending, SaveQueue, Excused
<1>5. ASSUME NEW p \in Proc, NEW fails \in BOOLEAN, MarkImported(p, fails)
      PROVE  ~excuse \/ PutsRight(p)
  BY <1>5 DEF MarkImported, PutsRight
<1>6. QED
  BY <1>1, <1>2, <1>3, <1>4, <1>5, NextCases DEF ImportSteps

LEMMA PutsRightIs ==
    ASSUME Typed, Fresh, Overlap, NEW p \in Proc, PutsRight(p)
    PROVE  /\ \A r \in Proc : ~Running(r)'
           /\ UNCHANGED <<bundle, shared, pending>>
           /\ bundle \in Bundle /\ bundle = job[p].bundle /\ imported' = bundle
           /\ Running(p) /\ job[p].at = "mark"
<1>1. Running(p) /\ job[p].at = "mark" /\ Done(p)
  BY DEF PutsRight, MarkImported, Running
<1>2. job[p] \in Run /\ AsFound(job[p])
  BY <1>1, RunningIsRun DEF Fresh
<1>3. bundle = job[p].bundle /\ bundle \in Bundle
  BY <1>2 DEF PutsRight, AsFound, Run
<1>4. imported' = bundle /\ UNCHANGED <<bundle, shared, pending>>
  BY <1>3 DEF PutsRight, MarkImported
<1>5. \A r \in Proc \ {p} : ~Running(r)
  BY <1>1 DEF PutsRight, Overlap
<1>6. Ends(p)
  BY <1>1, DoneEnds
<1>7. QED
  BY <1>1, <1>3, <1>4, <1>5, <1>6 DEF Ends, Running

--------------------------------------------------------------------------------
(* What the runs carry is in the bundle *)

KnownTo(b) == IF b = None THEN {} ELSE b.retracted

CarriedBy(j) ==
    /\ j.op = "import" => j.bundle.retracted \subseteq OnDisk.retracted
    /\ j.op \in {"publish", "retract"} =>
          j.bundle.retracted \ {j.pair} \subseteq OnDisk.retracted
    /\ j.op = "retract" /\ j.at # "write" => j.bundle.retracted \subseteq OnDisk.retracted

Carried ==
    ~excuse => /\ KnownTo(imported) \subseteq OnDisk.retracted
               /\ \A p \in Proc : Running(p) => CarriedBy(job[p])

LEMMA KnownIsOnDisk == OnDisk.retracted = KnownTo(bundle)
BY DEF OnDisk, Empty, KnownTo

LEMMA RetractionsStay ==
    ASSUME Typed, Fresh, [Next]_vars, ~excuse'
    PROVE  OnDisk.retracted \subseteq (OnDisk.retracted)'
BY WriteIs, KeepsRetractions

\* Only the mark at a run's end says that a bundle was imported.
LEMMA ImportedIs ==
    ASSUME Typed, [Next]_vars, imported' # imported
    PROVE  \E p \in Proc : /\ MarkImported(p, FALSE) /\ Running(p) /\ Ends(p)
                           /\ job[p].op \in {"import", "publish", "retract"}
                           /\ imported' = job[p].bundle
<1>1. PICK p \in Proc, fails \in BOOLEAN : MarkImported(p, fails)
  <2>1. ASSUME NEW p \in Proc, NEW fails \in BOOLEAN,
               \/ CheckHash(p) \/ DeleteEdge(p) \/ Gate(p) \/ Promote(p) \/ Stop(p)
               \/ LoadQueue(p, fails) \/ DropPending(p, fails) \/ AddPending(p, fails)
        PROVE  FALSE
    BY <2>1 DEF CheckHash, DeleteEdge, Gate, Promote, Stop, LoadQueue, DropPending, AddPending
  <2>2. QED
    BY <2>1, NextCases, StartIs, PullIs DEF ImportSteps, WriteBundle, vars
<1>2. /\ MarkImported(p, FALSE) /\ Running(p) /\ imported' = job[p].bundle /\ Ends(p)
      /\ job[p].at = "mark"
  BY <1>1, DoneEnds DEF MarkImported, Running
<1>3. job[p].op \in {"import", "publish", "retract"}
  BY <1>2, RunningIsRun DEF Shaped, Places, Run
<1>4. QED
  BY <1>2, <1>3

\* Run u went on as v without a step of its own.
Stays(u, v) ==
    /\ After(u, v) /\ v.at = u.at /\ v.todo = u.todo /\ v.queue = u.queue
    /\ v.promote = u.promote /\ u.changed \subseteq v.changed

\* Where a run comes from: it has begun, it stood still while another process or git
\* took a step, or it took one.
LEMMA RunCases ==
    ASSUME Typed, [Next]_vars, NEW r \in Proc, Running(r)'
    PROVE  \/ /\ ~Running(r) /\ AtStart(job'[r])
              /\ UNCHANGED <<bundle, broken, shared, pending, imported, excuse>>
           \/ /\ Running(r) /\ Stays(job[r], job'[r])
              /\ \/ UNCHANGED <<shared, pending, imported>>
                 \/ \E p \in Proc \ {r} : Running(p) /\ ImportSteps(p) /\ job'[r] = job[r]
           \/ Running(r) /\ (ImportSteps(r) \/ WriteBundle(r))
<1>1. CASE Pull \/ Repair
  BY <1>1, PullIs DEF Running, Told, Stays
<1>2. ASSUME NEW p \in Proc, Starts(p)
      PROVE  \/ /\ ~Running(r) /\ AtStart(job'[r])
                /\ UNCHANGED <<bundle, broken, shared, pending, imported, excuse>>
             \/ /\ Running(r) /\ Stays(job[r], job'[r])
                /\ UNCHANGED <<shared, pending, imported>>
  <2>1. PICK j : New(p, j) /\ AtStart(j)
    BY <1>2, StartIs
  <2>2. UNCHANGED <<bundle, broken, shared, pending, imported, excuse>>
    BY <1>2, StartIs
  <2>3. CASE r = p
    BY <2>1, <2>2, <2>3 DEF New, Running
  <2>4. CASE r # p
    <3>1. Running(r) /\ Told(job[r], job'[r], "run")
      BY <2>1, <2>4 DEF New, Running
    <3>2. QED
      BY <2>2, <3>1 DEF Told, Stays
  <2>5. QED
    BY <2>3, <2>4
<1>3. ASSUME NEW p \in Proc, ImportSteps(p) \/ Stop(p)
      PROVE  \/ /\ Running(r) /\ Stays(job[r], job'[r])
                /\ \/ UNCHANGED <<shared, pending, imported>>
                   \/ \E q \in Proc \ {r} : Running(q) /\ ImportSteps(q) /\ job'[r] = job[r]
             \/ Running(r) /\ ImportSteps(r)
  <2>1. CASE r = p
    <3>1. ~Stop(p)
      BY <2>1 DEF Stop, Done, Running, Typed
    <3>2. QED
      BY <1>3, <2>1, <3>1, StepIs
  <2>2. CASE r # p
    <3>1. job'[r] = job[r] /\ Running(r) /\ Running(p)
      BY <1>3, <2>2, StepIs DEF Running
    <3>2. Stays(job[r], job'[r])
      BY <3>1 DEF Stays, After
    <3>3. Stop(p) => UNCHANGED <<shared, pending, imported>>
      BY DEF Stop
    <3>4. QED
      BY <1>3, <2>2, <3>1, <3>2, <3>3
  <2>3. QED
    BY <2>1, <2>2
<1>4. ASSUME NEW p \in Proc, WriteBundle(p)
      PROVE  \/ /\ Running(r) /\ Stays(job[r], job'[r])
                /\ UNCHANGED <<shared, pending, imported>>
             \/ Running(r) /\ WriteBundle(r)
  <2>1. CASE r = p
    BY <1>4, <2>1, WriteIs
  <2>2. CASE r # p
    <3>1. Running(r) /\ Told(job[r], job'[r], "bundle")
      BY <1>4, <2>2, WriteIs DEF Running
    <3>2. QED
      BY <1>4, <3>1 DEF Told, Stays, WriteBundle
  <2>3. QED
    BY <2>1, <2>2
<1>5. CASE UNCHANGED vars
  <2>1. Running(r) /\ job'[r] = job[r] /\ UNCHANGED <<shared, pending, imported>>
    BY <1>5 DEF vars, Running
  <2>2. QED
    BY <2>1 DEF Stays, After
<1>6. QED
  BY <1>1, <1>2, <1>3, <1>4, <1>5, NextCases

LEMMA CarriedStep ==
    ASSUME Typed, Fresh, Overlap, Carried, [Next]_vars
    PROVE  Carried'
<1> SUFFICES ASSUME ~excuse'
             PROVE  /\ KnownTo(imported') \subseteq (OnDisk.retracted)'
                    /\ \A r \in Proc : Running(r)' => CarriedBy(job[r])'
  BY DEF Carried, KnownTo
<1>1. CASE \E p \in Proc : PutsRight(p)
  <2>1. PICK p \in Proc : PutsRight(p)
    BY <1>1
  <2>2. /\ \A r \in Proc : ~Running(r)'
        /\ imported' = bundle /\ bundle' = bundle /\ bundle \in Bundle
    BY <2>1, PutsRightIs
  <2>3. KnownTo(imported') = (OnDisk.retracted)'
    BY <2>2, OnDiskNext, TeamAssumption DEF KnownTo
  <2>4. QED
    BY <2>2, <2>3
<1>2. CASE ~excuse
  <2>1. /\ KnownTo(imported) \subseteq OnDisk.retracted
        /\ \A p \in Proc : Running(p) => CarriedBy(job[p])
        /\ OnDisk.retracted \subseteq (OnDisk.retracted)'
    BY <1>2, RetractionsStay DEF Carried
  <2>2. KnownTo(imported') \subseteq (OnDisk.retracted)'
    <3>1. CASE imported' = imported
      BY <2>1, <3>1
    <3>2. CASE imported' # imported
      <4>1. PICK p \in Proc : /\ MarkImported(p, FALSE) /\ Running(p)
                              /\ job[p].op \in {"import", "publish", "retract"}
                              /\ imported' = job[p].bundle
        BY <3>2, ImportedIs
      <4>2. CarriedBy(job[p]) /\ job[p] \in Run /\ Shaped(job[p]) /\ job[p].at = "mark"
        BY <2>1, <4>1, RunningIsRun DEF MarkImported
      <4>3. job[p].bundle.retracted \subseteq Pair /\ None \notin Pair
            /\ KnownTo(imported') = job[p].bundle.retracted
        BY <4>1, <4>2, TeamAssumption DEF Run, Bundle, KnownTo
      <4>4. job[p].bundle.retracted \subseteq OnDisk.retracted
        BY <4>1, <4>2, <4>3 DEF CarriedBy, Shaped
      <4>5. QED
        BY <2>1, <4>3, <4>4
    <3>3. QED
      BY <3>1, <3>2
  <2>3. ASSUME NEW r \in Proc, Running(r)'
        PROVE  CarriedBy(job[r])'
    <3>1. CASE ~Running(r) /\ AtStart(job'[r]) /\ bundle' = bundle
      <4>1. (OnDisk.retracted)' = OnDisk.retracted
        BY <3>1 DEF OnDisk
      <4>2. bundle # None => OnDisk.retracted = bundle.retracted
        BY DEF OnDisk
      <4>3. QED
        BY <3>1, <4>1, <4>2, OnDiskIs DEF AtStart, CarriedBy
    <3>2. CASE Running(r) /\ Stays(job[r], job'[r])
      BY <2>1, <3>2 DEF Stays, After, CarriedBy
    <3>3. CASE Running(r) /\ ImportSteps(r)
      <4>1. After(job[r], job'[r]) /\ job[r].at # "write"
        BY <2>3, <3>3, StepIs DEF Running
      <4>2. QED
        BY <2>1, <3>3, <4>1 DEF After, CarriedBy
    <3>4. CASE Running(r) /\ WriteBundle(r)
      <4>1. /\ After(job[r], job'[r]) /\ bundle' = job[r].bundle /\ bundle' \in Bundle
        BY <3>4, WriteIs
      <4>2. (OnDisk.retracted)' = job[r].bundle.retracted
        BY <4>1, OnDiskNext
      <4>3. QED
        BY <4>1, <4>2 DEF After, CarriedBy
    <3>5. QED
      BY <2>3, <3>1, <3>2, <3>3, <3>4, RunCases
  <2>4. QED
    BY <2>2, <2>3
<1>3. QED
  BY <1>1, <1>2, ExcuseCases

LEMMA CarriedAlways == Spec => []Carried
<1>1. Init => Carried
  BY DEF Init, Carried, Running, KnownTo
<1>2. Typed /\ Fresh /\ Overlap /\ Carried /\ [Next]_vars => Carried'
  BY CarriedStep
<1>3. QED
  BY <1>1, <1>2, TypedAlways, FreshAlways, OverlapAlways, PTL DEF Spec

--------------------------------------------------------------------------------
(* What the runs add to the store and the queue *)

\* No step puts a retracted pair into the queue, and only an approval that nothing
\* overlapped puts one into shared, but for the named cases.
LEMMA Added ==
    ASSUME Typed, Fresh, [Next]_vars, ~excuse'
    PROVE  /\ (pending' \ pending) \cap OnDisk.retracted = {}
           /\ \/ (shared' \ shared) \cap OnDisk.retracted = {}
              \/ \E p \in Proc : /\ Running(p) /\ job[p].op = "approve"
                                 /\ "run" \notin job[p].changed
                                 /\ shared' = shared \cup job[p].promote
<1>1. ASSUME NEW p \in Proc, NEW fails \in BOOLEAN,
             \/ CheckHash(p) \/ Gate(p) \/ Stop(p) \/ LoadQueue(p, fails)
             \/ MarkImported(p, fails) \/ DeleteEdge(p)
      PROVE  pending' = pending /\ shared' \subseteq shared
  BY <1>1 DEF CheckHash, Gate, Stop, LoadQueue, MarkImported, DeleteEdge
<1>2. ASSUME NEW p \in Proc, NEW fails \in BOOLEAN, DropPending(p, fails)
      PROVE  pending' \subseteq pending /\ shared' = shared
  BY <1>2 DEF DropPending, SaveQueue, Excused
<1>3. ASSUME NEW p \in Proc, NEW fails \in BOOLEAN, AddPending(p, fails)
      PROVE  (pending' \ pending) \cap OnDisk.retracted = {} /\ shared' = shared
  <2>1. PICK q \in job[p].todo : SaveQueue(p, job[p].queue \cup {q}, fails)
    BY <1>3, AddTurns
  <2>2. pending = job[p].queue /\ "bundle" \notin job[p].changed /\ ~fails
    BY <2>1 DEF SaveQueue, Excused, Overtaken
  <2>3. pending' = pending \cup {q}
    BY <2>1, <2>2 DEF SaveQueue
  <2>4. /\ Running(p) /\ job[p].at = "add" /\ job[p] \in Run /\ Shaped(job[p])
        /\ AsFound(job[p])
    BY <1>3, RunningIsRun DEF AddPending, Running, Fresh
  <2>5. job[p].op = "import"
    BY <2>4 DEF Shaped, Places, Run
  <2>6. bundle = job[p].bundle /\ job[p].todo \cap job[p].bundle.retracted = {}
        /\ job[p].bundle \in Bundle
    BY <2>2, <2>4, <2>5 DEF AsFound, Shaped, Run
  <2>7. q \notin OnDisk.retracted
    BY <2>6, TeamAssumption DEF OnDisk
  <2>8. QED
    BY <1>3, <2>3, <2>7 DEF AddPending
<1>4. ASSUME NEW p \in Proc, Promote(p)
      PROVE  /\ pending' = pending
             /\ \/ (shared' \ shared) \cap OnDisk.retracted = {}
                \/ /\ Running(p) /\ job[p].op = "approve" /\ "run" \notin job[p].changed
                   /\ shared' = shared \cup job[p].promote
  <2>1. /\ "bundle" \notin job[p].changed
        /\ "run" \in job[p].changed => job[p].promote \cap OnDisk.retracted = {}
        /\ shared' = shared \cup job[p].promote /\ pending' = pending
    BY <1>4 DEF Promote, Excused, Overtaken
  <2>2. /\ Running(p) /\ job[p].at = "promote" /\ job[p] \in Run /\ Shaped(job[p])
        /\ AsFound(job[p])
    BY <1>4, RunningIsRun DEF Promote, Running, Fresh
  <2>3. job[p].op \in {"import", "approve"}
    BY <2>2 DEF Shaped, Places, Run
  <2>4. CASE job[p].op = "import"
    <3>1. bundle = job[p].bundle /\ job[p].promote \cap job[p].bundle.retracted = {}
          /\ job[p].bundle \in Bundle
      BY <2>1, <2>2, <2>4 DEF AsFound, Shaped, Run
    <3>2. job[p].promote \cap OnDisk.retracted = {}
      BY <3>1, TeamAssumption DEF OnDisk
    <3>3. QED
      BY <2>1, <3>2
  <2>5. CASE job[p].op = "approve"
    BY <2>1, <2>2, <2>5
  <2>6. QED
    BY <2>3, <2>4, <2>5
<1>5. CASE UNCHANGED <<shared, pending>>
  BY <1>5
<1>6. ASSUME NEW p \in Proc, Starts(p) \/ WriteBundle(p)
      PROVE  UNCHANGED <<shared, pending>>
  BY <1>6, StartIs DEF WriteBundle
<1>7. Pull \/ Repair \/ UNCHANGED vars \/ (\E p \in Proc : Stop(p)) => UNCHANGED <<shared, pending>>
  BY DEF Pull, Repair, vars, Stop
<1>8. QED
  BY <1>1, <1>2, <1>3, <1>4, <1>5, <1>6, <1>7, NextCases DEF ImportSteps

--------------------------------------------------------------------------------
(* What a run has swept stays swept *)

\* The pairs a run takes out of shared and of the queue, and how far it has come.
Sweeps(j) == IF j.op = "retract" THEN {j.pair} ELSE j.bundle.retracted

Swept(j) ==
    /\ j.at = "delete" => shared \cap Sweeps(j) \subseteq j.todo
    /\ j.at \in {"load", "drop", "gate", "read", "add", "promote", "mark"}
          => shared \cap Sweeps(j) = {}
    /\ j.at = "drop" => pending \cap Sweeps(j) \subseteq j.queue
    /\ j.at \in {"gate", "read", "add", "promote", "mark"} => pending \cap Sweeps(j) = {}
    /\ j.at = "add" => j.queue \cap Sweeps(j) = {}

\* It can be relied on unless one of the named cases has come about; an import that
\* nothing has disturbed can be relied on even then.
Relied(j) ==
    j.op \in {"import", "retract"} /\ (~excuse \/ (j.op = "import" /\ j.changed = {}))

Sweeping == \A p \in Proc : Running(p) /\ Relied(job[p]) => Swept(job[p])

\* The sweep of a run itself.
LEMMA SweepOn ==
    ASSUME Typed, NEW p \in Proc, ImportSteps(p), Running(p), Running(p)',
           job[p].op \in {"import", "retract"}, Swept(job[p]), Relied(job[p])'
    PROVE  Swept(job[p])'
<1> DEFINE S == Sweeps(job[p])
<1>1. job[p] \in Run /\ Shaped(job[p]) /\ job' \in [Proc -> {Idle} \cup Run]
  BY RunningIsRun, StepIs
<1>2. After(job[p], job'[p]) /\ S = Sweeps(job'[p])
  BY StepIs DEF Running, After, Sweeps
<1>3. /\ job[p].at = "delete" => shared \cap S \subseteq job[p].todo
      /\ job[p].at \in {"load", "drop", "gate", "read", "add", "promote", "mark"}
           => shared \cap S = {}
      /\ job[p].at = "drop" => pending \cap S \subseteq job[p].queue
      /\ job[p].at \in {"gate", "read", "add", "promote", "mark"} => pending \cap S = {}
      /\ job[p].at = "add" => job[p].queue \cap S = {}
  BY DEF Swept
<1> HIDE DEF S
<1>4. SUFFICES /\ job'[p].at = "delete" => shared' \cap S \subseteq job'[p].todo
               /\ job'[p].at \in {"load", "drop", "gate", "read", "add", "promote", "mark"}
                    => shared' \cap S = {}
               /\ job'[p].at = "drop" => pending' \cap S \subseteq job'[p].queue
               /\ job'[p].at \in {"gate", "read", "add", "promote", "mark"}
                    => pending' \cap S = {}
               /\ job'[p].at = "add" => job'[p].queue \cap S = {}
  BY <1>2 DEF Swept
<1>5. job[p].op = "import" => S = job[p].bundle.retracted
  BY DEF S, Sweeps
<1>6. ASSUME NEW fails \in BOOLEAN, fails, excuse',
             job'[p].changed = job[p].changed \cup Failed(fails)
      PROVE  FALSE
  BY <1>6 DEF Relied, Failed
<1>7. CASE CheckHash(p)
  <2>1. ~Done(p)
    BY DEF Done, Running, Typed
  <2>2. PICK a : a = AfterDeletes(job[p])
    OBVIOUS
  <2>3. a \in {"gate", "delete"} /\ Goto(p, a) /\ (a = "gate" => job[p].todo = {})
    BY <1>7, <2>1, <2>2 DEF CheckHash, AfterDeletes
  <2>4. Turn(p, a, job[p].todo, job[p].queue, job[p].promote, job[p].changed)
    BY <2>3, GotoTurns
  <2>5. job[p].todo = S
    BY <1>1, <1>5, <1>7 DEF CheckHash, Shaped
  <2>6. UNCHANGED <<shared, pending>>
    BY <1>7 DEF CheckHash
  <2>7. QED
    BY <2>3, <2>4, <2>5, <2>6 DEF Turn
<1>8. CASE DeleteEdge(p)
  <2>1. PICK q \in job[p].todo :
          /\ shared' = shared \ {q}
          /\ Turn(p, IF job[p].todo = {q} THEN "load" ELSE "delete", job[p].todo \ {q},
                  job[p].queue, job[p].promote, job[p].changed)
    BY <1>8, DeleteTurns
  <2>2. job[p].at = "delete" /\ pending' = pending
    BY <1>8 DEF DeleteEdge
  <2>3. QED
    BY <1>3, <2>1, <2>2 DEF Turn
<1>9. ASSUME NEW fails \in BOOLEAN, LoadQueue(p, fails)
      PROVE  /\ job'[p].at = "delete" => shared' \cap S \subseteq job'[p].todo
             /\ job'[p].at \in {"load", "drop", "gate", "read", "add", "promote", "mark"}
                  => shared' \cap S = {}
             /\ job'[p].at = "drop" => pending' \cap S \subseteq job'[p].queue
             /\ job'[p].at \in {"gate", "read", "add", "promote", "mark"}
                  => pending' \cap S = {}
             /\ job'[p].at = "add" => job'[p].queue \cap S = {}
  <2>1. Turn(p, IF job[p].at = "load" THEN "drop" ELSE "add", job[p].todo,
             IF fails THEN {} ELSE pending, job[p].promote, job[p].changed \cup Failed(fails))
    BY <1>9, LoadTurns
  <2>2. job[p].at \in {"load", "read"} /\ UNCHANGED <<shared, pending>>
    BY <1>9 DEF LoadQueue
  <2>3. fails => excuse'
    BY <1>9 DEF LoadQueue, Excused
  <2>4. ~fails
    BY <1>6, <2>1, <2>3 DEF Turn
  <2>5. QED
    BY <1>3, <2>1, <2>2, <2>4 DEF Turn
<1>10. ASSUME NEW fails \in BOOLEAN, DropPending(p, fails)
       PROVE  /\ job'[p].at \notin {"delete", "drop", "add"} /\ shared' \cap S = {}
              /\ pending' \cap S = {}
  <2>1. Turn(p, AfterDrop(p), job[p].todo, {}, job[p].promote,
             job[p].changed \cup Failed(fails))
    BY <1>10, DropTurns
  <2>2. AfterDrop(p) \in {"gate", "mark"}
    BY DEF AfterDrop
  <2>3. Dropped(p) = S
    BY DEF Dropped, S, Sweeps
  <2>4. job[p].at = "drop" /\ UNCHANGED shared
    BY <1>10 DEF DropPending
  <2>5. \/ job[p].queue \cap S = {} /\ UNCHANGED pending
        \/ SaveQueue(p, job[p].queue \ S, fails)
    BY <1>10, <2>3 DEF DropPending
  <2>6. CASE job[p].queue \cap S = {} /\ UNCHANGED pending
    BY <1>3, <2>1, <2>2, <2>4, <2>6 DEF Turn
  <2>7. CASE SaveQueue(p, job[p].queue \ S, fails)
    <3>1. fails => excuse'
      BY <2>7 DEF SaveQueue, Excused
    <3>2. ~fails
      BY <1>6, <2>1, <3>1 DEF Turn
    <3>3. pending' = job[p].queue \ S
      BY <2>7, <3>2 DEF SaveQueue
    <3>4. QED
      BY <1>3, <2>1, <2>2, <2>4, <3>3 DEF Turn
  <2>8. QED
    BY <2>5, <2>6, <2>7
<1>11. CASE Gate(p)
  <2>1. PICK promote \in SUBSET Incoming(job[p].bundle) :
          \E review \in SUBSET (Incoming(job[p].bundle) \ promote) :
             Turn(p, IF review = {} THEN "promote" ELSE "read", review, job[p].queue,
                  promote, job[p].changed)
    BY <1>11, GateTurns
  <2>2. job'[p].at \in {"promote", "read"}
    BY <2>1 DEF Turn
  <2>3. job[p].at = "gate" /\ UNCHANGED <<shared, pending>>
    BY <1>11 DEF Gate
  <2>4. QED
    BY <1>3, <2>2, <2>3
<1>12. ASSUME NEW fails \in BOOLEAN, AddPending(p, fails)
       PROVE  /\ job'[p].at \in {"promote", "read"} /\ shared' \cap S = {}
              /\ pending' \cap S = {}
  <2>1. PICK q \in job[p].todo :
          /\ SaveQueue(p, job[p].queue \cup {q}, fails)
          /\ Turn(p, IF job[p].todo = {q} THEN "promote" ELSE "read", job[p].todo \ {q},
                  {}, job[p].promote, job[p].changed \cup Failed(fails))
    BY <1>12, AddTurns
  <2>2. fails => excuse'
    BY <2>1 DEF SaveQueue, Excused
  <2>3. ~fails
    BY <1>6, <2>1, <2>2 DEF Turn
  <2>4. pending' = job[p].queue \cup {q}
    BY <2>1, <2>3 DEF SaveQueue
  <2>5. job[p].at = "add" /\ shared' = shared
    BY <1>12 DEF AddPending
  <2>6. job[p].op = "import" /\ q \notin job[p].bundle.retracted
    BY <1>1, <2>1, <2>5 DEF Shaped, Places
  <2>7. QED
    BY <1>3, <1>5, <2>1, <2>4, <2>5, <2>6 DEF Turn
<1>13. CASE Promote(p)
  <2>1. job[p].op = "import" /\ job[p].at = "promote"
    BY <1>1, <1>13 DEF Promote, Shaped, Places
  <2>2. job[p].promote \cap S = {}
    BY <1>1, <1>5, <2>1 DEF Shaped
  <2>3. shared' = shared \cup job[p].promote /\ pending' = pending /\ Goto(p, "mark")
    BY <1>13, <2>1 DEF Promote
  <2>4. job'[p].at = "mark"
    BY <2>3, GotoTurns DEF Turn
  <2>5. QED
    BY <1>3, <2>1, <2>2, <2>3, <2>4
<1>14. \A fails \in BOOLEAN : ~MarkImported(p, fails)
  BY DEF MarkImported, Done, Running, Typed
<1>15. QED
  BY <1>7, <1>8, <1>9, <1>10, <1>11, <1>12, <1>13, <1>14 DEF ImportSteps

LEMMA SweepingStep ==
    ASSUME Typed, Fresh, Overlap, Carried, Sweeping, [Next]_vars
    PROVE  Sweeping'
<1> SUFFICES ASSUME NEW r \in Proc, Running(r)', Relied(job[r])'
             PROVE  Swept(job[r])'
  BY DEF Sweeping
<1>1. CASE ~Running(r) /\ AtStart(job'[r])
  BY <1>1 DEF AtStart, Relied, Swept
<1>2. ASSUME Running(r), After(job[r], job'[r]), job[r].changed \subseteq job'[r].changed
      PROVE  Relied(job[r]) /\ job[r].op \in {"import", "retract"}
  <2>1. job[r].op = job'[r].op /\ job[r].op \in {"import", "retract"}
    BY <1>2 DEF After, Relied
  <2>2. CASE ~excuse'
    <3>1. ~excuse
      BY <2>2, ExcuseCases, PutsRightIs
    <3>2. QED
      BY <2>1, <3>1 DEF Relied
  <2>3. CASE job'[r].op = "import" /\ job'[r].changed = {}
    BY <1>2, <2>1, <2>3 DEF Relied
  <2>4. QED
    BY <2>2, <2>3 DEF Relied
<1>3. CASE Running(r) /\ ImportSteps(r)
  <2>1. After(job[r], job'[r]) /\ job[r].changed \subseteq job'[r].changed
    BY <1>3, StepIs DEF Running
  <2>2. Swept(job[r]) /\ job[r].op \in {"import", "retract"}
    BY <1>2, <1>3, <2>1 DEF Sweeping
  <2>3. QED
    BY <1>3, <2>2, SweepOn
<1>4. CASE Running(r) /\ WriteBundle(r)
  <2>1. After(job[r], job'[r]) /\ job[r].op = "retract" /\ Shaped(job[r])
        /\ job[r].at = "write" /\ job'[r].at = "delete" /\ job'[r].todo = job[r].todo
    BY <1>4, WriteIs DEF Relied, After
  <2>2. Sweeps(job'[r]) = {job[r].pair} /\ job'[r].todo = {job[r].pair}
    BY <2>1 DEF After, Sweeps, Shaped
  <2>3. QED
    BY <2>1, <2>2 DEF Swept, Sweeps
<1>5. CASE Running(r) /\ Stays(job[r], job'[r])
  <2>1. Relied(job[r]) /\ Swept(job[r]) /\ Sweeps(job'[r]) = Sweeps(job[r])
    BY <1>2, <1>5 DEF Stays, Sweeping, Sweeps, After
  <2>2. CASE UNCHANGED <<shared, pending>>
    BY <1>5, <2>1, <2>2 DEF Stays, Swept
  <2>3. CASE \E p \in Proc \ {r} : Running(p) /\ ImportSteps(p) /\ job'[r] = job[r]
    <3>1. PICK p \in Proc \ {r} : Running(p) /\ ImportSteps(p) /\ job'[r] = job[r]
      BY <2>3
    <3>2. "run" \in job[r].changed /\ "run" \in job[p].changed
      BY <1>5, <3>1 DEF Overlap
    <3>3. ~excuse'
      BY <3>1, <3>2 DEF Relied
    <3>4. ~excuse
      BY <3>3, ExcuseCases, PutsRightIs
    <3>5. (pending' \ pending) \cap OnDisk.retracted = {}
      BY <3>3, Added
    <3>6. (shared' \ shared) \cap OnDisk.retracted = {}
      <4>1. ASSUME NEW q \in Proc, Running(q), job[q].op = "approve", "run" \notin job[q].changed
            PROVE  FALSE
        BY <1>5, <2>1, <4>1 DEF Overlap, Relied
      <4>2. QED
        BY <3>3, <4>1, Added
    <3>7. CASE job[r].at \in {"check", "write"}
      BY <3>1, <3>7 DEF Swept
    <3>8. CASE job[r].at \notin {"check", "write"}
      <4>1. Sweeps(job[r]) \subseteq OnDisk.retracted
        <5>1. CarriedBy(job[r]) /\ Shaped(job[r])
          BY <1>5, <3>4, RunningIsRun DEF Carried
        <5>2. QED
          BY <2>1, <3>8, <5>1 DEF CarriedBy, Shaped, Sweeps, Relied
      <4>2. shared' \cap Sweeps(job[r]) \subseteq shared /\ pending' \cap Sweeps(job[r]) \subseteq pending
        BY <3>5, <3>6, <4>1
      <4>3. QED
        BY <2>1, <3>1, <4>2 DEF Swept
    <3>9. QED
      BY <3>7, <3>8
  <2>4. QED
    BY <2>2, <2>3, <1>5, RunCases, <1>1, <1>3, <1>4
<1>6. QED
  BY <1>1, <1>3, <1>4, <1>5, RunCases

LEMMA SweepingAlways == Spec => []Sweeping
<1>1. Init => Sweeping
  BY DEF Init, Sweeping, Running
<1>2. Typed /\ Fresh /\ Overlap /\ Carried /\ Sweeping /\ [Next]_vars => Sweeping'
  BY SweepingStep
<1>3. QED
  BY <1>1, <1>2, TypedAlways, FreshAlways, OverlapAlways, CarriedAlways, PTL DEF Spec

--------------------------------------------------------------------------------
(* Retracted pairs stay out *)

\* No pair of S is shared or waits for a review.
Out(S) == (shared \cup pending) \cap S = {}

\* What the bundle that counts as imported retracts is out; so is what a publish or a
\* retract found in it and will mark as imported, and what an approval promotes isn't
\* among it, as long as they can be relied on.
CleanFor(j) ==
    /\ j.op \in {"publish", "retract"} /\ ~j.unread => Out(j.bundle.retracted \ {j.pair})
    /\ j.op = "approve" /\ "run" \notin j.changed => j.promote \cap KnownTo(imported) = {}

Clean ==
    ~excuse => /\ Out(KnownTo(imported))
               /\ \A p \in Proc : Running(p) => CleanFor(job[p])

\* A run that ends with the mark leaves what its bundle retracts out.
LEMMA MarkIsClean ==
    ASSUME Typed, Sweeping, Clean, ~excuse, NEW p \in Proc, Running(p),
           MarkImported(p, FALSE), ~excuse',
           job[p].op \in {"import", "publish", "retract"}
    PROVE  Out(job[p].bundle.retracted)
<1>1. job[p] \in Run /\ Shaped(job[p]) /\ job[p].at = "mark" /\ CleanFor(job[p])
  BY RunningIsRun DEF MarkImported, Clean
<1>2. CASE job[p].op = "import"
  BY <1>1, <1>2 DEF Sweeping, Relied, Swept, Sweeps, Out
<1>3. CASE job[p].op \in {"publish", "retract"}
  <2>1. ~job[p].unread
    BY <1>3 DEF MarkImported
  <2>2. Out(job[p].bundle.retracted \ {job[p].pair})
    BY <1>1, <1>3, <2>1 DEF CleanFor
  <2>3. CASE job[p].op = "publish"
    <3>1. job[p].pair \notin job[p].bundle.retracted
      BY <1>1, <2>3, TeamAssumption DEF Shaped, Run, Bundle
    <3>2. QED
      BY <2>2, <3>1 DEF Out
  <2>4. CASE job[p].op = "retract"
    <3>1. (shared \cup pending) \cap {job[p].pair} = {}
      BY <1>1, <2>4 DEF Sweeping, Relied, Swept, Sweeps
    <3>2. QED
      BY <2>2, <3>1 DEF Out
  <2>5. QED
    BY <1>3, <2>3, <2>4
<1>4. QED
  BY <1>2, <1>3

LEMMA CleanStep ==
    ASSUME Typed, Fresh, Overlap, Carried, Sweeping, Clean, [Next]_vars
    PROVE  Clean'
<1> SUFFICES ASSUME ~excuse'
             PROVE  /\ Out(KnownTo(imported))'
                    /\ \A r \in Proc : Running(r)' => CleanFor(job[r])'
  BY DEF Clean
<1>1. CASE \E p \in Proc : PutsRight(p)
  <2>1. PICK p \in Proc : PutsRight(p)
    BY <1>1
  <2>2. /\ \A r \in Proc : ~Running(r)'
        /\ UNCHANGED <<bundle, shared, pending>>
        /\ bundle \in Bundle /\ bundle = job[p].bundle /\ imported' = bundle
        /\ Running(p) /\ job[p].at = "mark"
    BY <2>1, PutsRightIs
  <2>3. Out(bundle.retracted)
    BY <2>1, <2>2 DEF PutsRight, Sweeping, Relied, Swept, Sweeps, Out
  <2>4. KnownTo(imported') = bundle.retracted
    BY <2>2, TeamAssumption DEF KnownTo
  <2>5. QED
    BY <2>2, <2>3, <2>4 DEF Out, KnownTo
<1>2. CASE ~excuse
  <2>1. /\ Out(KnownTo(imported)) /\ KnownTo(imported) \subseteq OnDisk.retracted
        /\ \A p \in Proc : Running(p) => CleanFor(job[p]) /\ CarriedBy(job[p])
    BY <1>2 DEF Clean, Carried
  <2>2. /\ (pending' \ pending) \cap OnDisk.retracted = {}
        /\ \/ (shared' \ shared) \cap OnDisk.retracted = {}
           \/ \E p \in Proc : /\ Running(p) /\ job[p].op = "approve"
                              /\ "run" \notin job[p].changed
                              /\ shared' = shared \cup job[p].promote
    BY Added
  <2>3. (shared' \cup pending') \cap KnownTo(imported) = {}
    <3>1. CASE (shared' \ shared) \cap OnDisk.retracted = {}
      BY <2>1, <2>2, <3>1 DEF Out
    <3>2. ASSUME NEW p \in Proc, Running(p), job[p].op = "approve", "run" \notin job[p].changed,
                 shared' = shared \cup job[p].promote
          PROVE  (shared' \cup pending') \cap KnownTo(imported) = {}
      <4>1. job[p].promote \cap KnownTo(imported) = {}
        BY <2>1, <3>2 DEF CleanFor
      <4>2. QED
        BY <2>1, <2>2, <3>2, <4>1 DEF Out
    <3>3. QED
      BY <2>2, <3>1, <3>2
  <2>4. Out(KnownTo(imported))'
    <3>1. CASE imported' = imported
      BY <2>3, <3>1 DEF Out, KnownTo
    <3>2. CASE imported' # imported
      <4>1. PICK p \in Proc : /\ MarkImported(p, FALSE) /\ Running(p)
                              /\ job[p].op \in {"import", "publish", "retract"}
                              /\ imported' = job[p].bundle
        BY <3>2, ImportedIs
      <4>2. Out(job[p].bundle.retracted) /\ UNCHANGED <<shared, pending>>
        BY <1>2, <4>1, MarkIsClean DEF MarkImported
      <4>3. KnownTo(imported') = job[p].bundle.retracted
        BY <4>1, RunningIsRun, TeamAssumption DEF KnownTo, Run
      <4>4. QED
        BY <4>2, <4>3 DEF Out, KnownTo
    <3>3. QED
      BY <3>1, <3>2
  <2>5. ASSUME NEW r \in Proc, Running(r)'
        PROVE  CleanFor(job[r])'
    <3>1. CASE /\ ~Running(r) /\ AtStart(job'[r])
               /\ UNCHANGED <<bundle, broken, shared, pending, imported, excuse>>
      <4>1. ASSUME job'[r].op \in {"publish", "retract"}, ~job'[r].unread
            PROVE  Out(job'[r].bundle.retracted \ {job'[r].pair})
        <5>1. /\ bundle = imported
              /\ job'[r].bundle.retracted \ {job'[r].pair} \subseteq OnDisk.retracted
          BY <3>1, <4>1, OnDiskIs DEF AtStart
        <5>2. OnDisk.retracted = KnownTo(imported)
          BY <5>1, KnownIsOnDisk
        <5>3. QED
          BY <2>1, <5>1, <5>2 DEF Out
      <4>2. ASSUME job'[r].op = "approve"
            PROVE  job'[r].promote \cap KnownTo(imported) = {}
        BY <2>1, <3>1, <4>2 DEF AtStart, Out
      <4>3. QED
        BY <3>1, <4>1, <4>2 DEF CleanFor, Out, KnownTo
    <3>2. ASSUME Running(r), After(job[r], job'[r]), job[r].changed \subseteq job'[r].changed,
                 job[r].op = "approve" => job'[r].promote = job[r].promote,
                 \A p \in Proc : MarkImported(p, FALSE) /\ Running(p) => p # r
          PROVE  CleanFor(job[r])'
      <4>1. ASSUME job'[r].op \in {"publish", "retract"}, ~job'[r].unread
            PROVE  (shared' \cup pending') \cap (job'[r].bundle.retracted \ {job'[r].pair}) = {}
        <5>1. job[r].op \in {"publish", "retract"} /\ ~job[r].unread
              /\ job'[r].bundle = job[r].bundle /\ job'[r].pair = job[r].pair
          BY <3>2, <4>1 DEF After
        <5>2. Out(job[r].bundle.retracted \ {job[r].pair})
              /\ job[r].bundle.retracted \ {job[r].pair} \subseteq OnDisk.retracted
          BY <2>1, <3>2, <5>1 DEF CleanFor, CarriedBy
        <5>3. ~\E p \in Proc : Running(p) /\ job[p].op = "approve" /\ "run" \notin job[p].changed
          BY <3>2, <5>1 DEF Overlap
        <5>4. (shared' \ shared) \cap OnDisk.retracted = {}
          BY <2>2, <5>3
        <5>5. QED
          BY <2>2, <5>1, <5>2, <5>4 DEF Out
      <4>2. ASSUME job'[r].op = "approve", "run" \notin job'[r].changed
            PROVE  job'[r].promote \cap KnownTo(imported') = {}
        <5>1. job[r].op = "approve" /\ "run" \notin job[r].changed
          BY <3>2, <4>2 DEF After
        <5>2. imported' = imported
          <6>1. ASSUME NEW p \in Proc, Running(p), MarkImported(p, FALSE)
                PROVE  FALSE
            BY <3>2, <5>1, <6>1 DEF Overlap
          <6>2. QED
            BY <6>1, ImportedIs
        <5>3. QED
          BY <2>1, <3>2, <5>1, <5>2 DEF CleanFor
      <4>3. QED
        BY <4>1, <4>2 DEF CleanFor, Out, KnownTo
    <3>3. CASE Running(r) /\ Stays(job[r], job'[r])
      <4>1. ASSUME NEW p \in Proc, MarkImported(p, FALSE), Running(p)
            PROVE  p # r
        BY <2>5, <4>1 DEF MarkImported, Done, Running, Typed
      <4>2. QED
        BY <3>2, <3>3, <4>1 DEF Stays
    <3>4. CASE Running(r) /\ (ImportSteps(r) \/ WriteBundle(r))
      <4>1. ASSUME NEW p \in Proc, MarkImported(p, FALSE), Running(p)
            PROVE  p # r
        BY <2>5, <4>1 DEF MarkImported, Done, Running, Typed
      <4>2. /\ After(job[r], job'[r]) /\ job[r].changed \subseteq job'[r].changed
            /\ job[r].op = "approve" => job'[r].promote = job[r].promote
        BY <2>5, <3>4, StepIs, WriteIs DEF Running
      <4>3. QED
        BY <3>2, <3>4, <4>1, <4>2
    <3>5. QED
      BY <2>5, <3>1, <3>3, <3>4, RunCases
  <2>6. QED
    BY <2>4, <2>5
<1>3. QED
  BY <1>1, <1>2, ExcuseCases

\* Once the machine counts the bundle as imported, no pair the bundle retracts is
\* shared or waits for a review ("importing it deletes the pair from each teammate's
\* shared memory", team_memory.py:24), whatever fails, is killed or overlaps, until
\* one of the named cases; and after one, an import that nothing disturbs makes it so
\* again.
THEOREM StaysOut == Spec => []RetractedStaysOutUndisturbed
<1>1. Init => Clean
  BY DEF Init, Clean, Running, Out, KnownTo
<1>2. Typed /\ Fresh /\ Overlap /\ Carried /\ Sweeping /\ Clean /\ [Next]_vars => Clean'
  BY CleanStep
<1>3. Clean => RetractedStaysOutUndisturbed
  BY DEF Clean, Out, KnownTo, RetractedStaysOutUndisturbed, RetractedStaysOut
<1>4. QED
  BY <1>1, <1>2, <1>3, TypedAlways, FreshAlways, OverlapAlways, CarriedAlways, SweepingAlways,
     PTL DEF Spec
================================================================================

----------------------------- MODULE EventFeedProofs -----------------------------
(***************************************************************************)
(* Proofs about EventFeed, for any number of publishers, events and        *)
(* rotations, and any size of the queue.                                   *)
(***************************************************************************)
EXTENDS EventFeed, SequenceTheorems, FiniteSetTheorems, TLAPS

--------------------------------------------------------------------------------
(* Sequences of events *)

\* No event of T is older than one of S by the same publisher, nor the same.
Below(S, T) == \A a \in S, b \in T : a.by = b.by => a.n < b.n

\* The events of each publisher stand in the order they were published.
Ordered(s) == \A i, j \in DOMAIN s : i < j /\ s[i].by = s[j].by => s[i].n < s[j].n

LEMMA AppendRange ==
    ASSUME NEW S, NEW s \in Seq(S), NEW e \in S
    PROVE  Range(Append(s, e)) = Range(s) \cup {e}
<1>1. /\ DOMAIN Append(s, e) = 1 .. Len(s) + 1 /\ DOMAIN s = 1 .. Len(s)
      /\ \A i \in 1 .. Len(s) : Append(s, e)[i] = s[i]
      /\ Append(s, e)[Len(s) + 1] = e
      /\ Len(s) \in Nat
  BY AppendProperties, LenProperties
<1>2. QED
  BY <1>1 DEF Range

LEMMA TailRange ==
    ASSUME NEW S, NEW s \in Seq(S), s # <<>>
    PROVE  /\ Head(s) \in S /\ Tail(s) \in Seq(S) /\ Head(s) = s[1]
           /\ Len(s) \in Nat \ {0} /\ Len(Tail(s)) = Len(s) - 1
           /\ \A i \in 1 .. Len(s) - 1 : Tail(s)[i] = s[i + 1]
           /\ Range(s) = {Head(s)} \cup Range(Tail(s))
<1>1. /\ Head(s) \in S /\ Tail(s) \in Seq(S) /\ Head(s) = s[1]
      /\ Len(s) \in Nat \ {0} /\ Len(Tail(s)) = Len(s) - 1
      /\ \A i \in 1 .. Len(s) - 1 : Tail(s)[i] = s[i + 1]
  BY HeadTailProperties, EmptySeq
<1>2. DOMAIN s = 1 .. Len(s) /\ DOMAIN Tail(s) = 1 .. Len(s) - 1
  BY <1>1, LenProperties
<1>3. ASSUME NEW i \in 1 .. Len(s)
      PROVE  s[i] \in {Head(s)} \cup Range(Tail(s))
  <2>1. CASE i = 1
    BY <1>1, <2>1
  <2>2. CASE i # 1
    <3>1. i - 1 \in 1 .. Len(s) - 1 /\ Tail(s)[i - 1] = s[i]
      BY <1>1, <2>2
    <3>2. QED
      BY <1>2, <3>1 DEF Range
  <2>3. QED
    BY <2>1, <2>2
<1>4. ASSUME NEW i \in 1 .. Len(s) - 1
      PROVE  Tail(s)[i] \in Range(s)
  <2>1. i + 1 \in 1 .. Len(s) /\ Tail(s)[i] = s[i + 1]
    BY <1>1
  <2>2. QED
    BY <1>2, <2>1 DEF Range
<1>5. Head(s) \in Range(s)
  BY <1>1, <1>2 DEF Range
<1>6. Range(s) \subseteq {Head(s)} \cup Range(Tail(s))
  BY <1>2, <1>3 DEF Range
<1>7. Range(Tail(s)) \subseteq Range(s)
  BY <1>2, <1>4 DEF Range
<1>8. QED
  BY <1>1, <1>5, <1>6, <1>7

LEMMA RangeOf ==
    ASSUME NEW S, NEW s \in Seq(S)
    PROVE  Range(s) = {s[i] : i \in DOMAIN s} /\ Range(s) \subseteq S
BY LenProperties DEF Range

LEMMA OrderedAppend ==
    ASSUME NEW S, NEW s \in Seq(S), NEW e \in S, Ordered(s), Below(Range(s), {e})
    PROVE  Ordered(Append(s, e))
<1>1. /\ DOMAIN Append(s, e) = 1 .. Len(s) + 1 /\ DOMAIN s = 1 .. Len(s)
      /\ \A i \in 1 .. Len(s) : Append(s, e)[i] = s[i]
      /\ Append(s, e)[Len(s) + 1] = e
      /\ Len(s) \in Nat
  BY AppendProperties, LenProperties
<1>2. \A i \in 1 .. Len(s) : s[i].by = e.by => s[i].n < e.n
  BY <1>1 DEF Below, Range
<1>3. QED
  BY <1>1, <1>2 DEF Ordered

LEMMA OrderedTail ==
    ASSUME NEW S, NEW s \in Seq(S), s # <<>>, Ordered(s)
    PROVE  Ordered(Tail(s)) /\ Below({Head(s)}, Range(Tail(s)))
<1>1. /\ Head(s) = s[1] /\ Len(s) \in Nat \ {0}
      /\ \A i \in 1 .. Len(s) - 1 : Tail(s)[i] = s[i + 1]
      /\ DOMAIN s = 1 .. Len(s) /\ DOMAIN Tail(s) = 1 .. Len(s) - 1
  BY TailRange, LenProperties
<1>2. QED
  BY <1>1 DEF Ordered, Below, Range

\* A line is written to one of the files.
LEMMA WriteProperties ==
    ASSUME NEW S, NEW f \in Seq(Seq(S)), NEW i \in 1 .. Len(f), NEW s \in Seq(S)
    PROVE  /\ [f EXCEPT ![i] = s] \in Seq(Seq(S))
           /\ Len([f EXCEPT ![i] = s]) = Len(f)
           /\ [f EXCEPT ![i] = s][i] = s
           /\ \A j \in 1 .. Len(f) : j # i => [f EXCEPT ![i] = s][j] = f[j]
BY ExceptSeq

--------------------------------------------------------------------------------
(* The steps *)

LEMMA NextCases ==
    ASSUME [Next]_vars
    PROVE  \/ \E t \in Local \cup Remote : Publish(t) \/ Write(t)
           \/ \E t \in Local \cup {Tailer} : Put(t) \/ Get(t) \/ PutAgain(t)
           \/ Consume \/ RenameAway \/ Truncate
           \/ TailOpen \/ TailStat \/ TailInode \/ TailSize \/ TailRead \/ TailDispatch
           \/ UNCHANGED vars
BY DEF Next, OfferSteps, TailSteps

--------------------------------------------------------------------------------
(* Types, and what each step finds in the variables it reads *)

Busy(t) == pc[t] # "idle"

\* The tailer holds a file unless it is to open one, and a batch while it hands
\* lines on; it reads no further than the file goes; it has the inode of the
\* file it opened if that is still events.jsonl.  A writer has a file open, and
\* every thread holds an event of its own, the tailer one of another process.
Shape ==
    /\ tpc = "open" <=> fh = 0
    /\ tpc = "dispatch" <=> batch # <<>>
    /\ (path = 0 \/ path = Len(files))
    /\ fh # 0 /\ ~cut => pos <= Len(files[fh])
    /\ tpc # "stat" /\ fh # 0 /\ path = fh => inode = fh
    /\ \A t \in Local \cup Remote :
          /\ pc[t] = "write" => at[t] \in 1 .. Len(files)
          /\ Busy(t) => ev[t] \in Event /\ ev[t].by = t
    /\ \A t \in Remote : pc[t] \in {"idle", "write"}
    /\ pc[Tailer] # "write"
    /\ Busy(Tailer) => ev[Tailer] \in Event /\ ev[Tailer].by \in Remote

Typed == TypeOK /\ Shape

LEMMA TypedInit == Init => Typed
<1> SUFFICES ASSUME Init PROVE Typed
  OBVIOUS
<1> USE DEF Init
<1>1. files \in Seq(Seq(Event)) /\ Len(files) \in Nat /\ path = Len(files)
  <2>1. <<>> \in Seq(Event) /\ <<>> \in Seq(Seq(Event))
    BY EmptySeq
  <2>2. <<<<>>>> \in Seq(Seq(Event))
    BY <2>1
  <2>3. files \in Seq(Seq(Event))
    BY <2>1, <2>2
  <2>4. QED
    BY <2>3, LenProperties
<1>2. /\ pc \in [Thread -> {"idle", "write", "put", "get", "again"}]
      /\ ev \in [Thread -> Event \cup {NoEvent}]
      /\ at \in [Local \cup Remote -> 0 .. Len(files)]
  BY <1>1
<1>3. atStart \in BOOLEAN /\ cut \in BOOLEAN
  BY Zenon
<1>4. /\ batch \in Seq(Event) /\ queue \in Seq(Event) /\ Len(queue) = 0
      /\ batch = <<>> /\ pos \in Nat /\ dropped \in Nat
      /\ fh = 0 /\ inode = 0 /\ tpc = "open"
      /\ skip \subseteq Event /\ got \subseteq Event /\ offered \subseteq Event
  OBVIOUS
<1>5. TypeOK
  <2>1. made \in 0 .. MaxEvents /\ rotations \in 0 .. MaxRotations /\ path \in 0 .. Len(files)
    BY <1>1, FeedAssumption
  <2>2. fh \in 0 .. Len(files) /\ inode \in 0 .. Len(files) /\ Len(queue) <= QueueSize
    BY <1>1, <1>4, FeedAssumption
  <2> HIDE DEF Init
  <2>3. QED
    BY <1>1, <1>2, <1>3, <1>4, <2>1, <2>2 DEF TypeOK
<1>6. \A t \in Thread : ~Busy(t)
  BY DEF Busy
<1>7. Shape
  BY <1>1, <1>4, <1>6 DEF Shape, Thread, Busy
<1>8. QED
  BY <1>5, <1>7 DEF Typed

LEMMA TypedPublish ==
    ASSUME Typed, NEW t \in Local \cup Remote, Publish(t)
    PROVE  Typed'
<1> USE DEF Typed
<1>1. /\ files' = IF path = 0 THEN Append(files, <<>>) ELSE files
      /\ path' = Len(files') /\ UNCHANGED <<rotations, tail, feed, offered>>
  BY DEF Publish
<1>2. /\ files \in Seq(Seq(Event)) /\ Len(files) \in Nat
  BY DEF TypeOK
<1>3. /\ files' \in Seq(Seq(Event)) /\ Len(files') \in Nat \ {0}
      /\ Len(files') = IF path = 0 THEN Len(files) + 1 ELSE Len(files)
      /\ \A i \in 1 .. Len(files) : files'[i] = files[i]
  <2>1. CASE path = 0
    <3>1. <<>> \in Seq(Event)
      OBVIOUS
    <3>2. QED
      BY <1>1, <1>2, <2>1, <3>1, AppendProperties
  <2>2. CASE path # 0
    BY <1>1, <1>2, <2>2 DEF Shape
  <2>3. QED
    BY <2>1, <2>2
<1>4. /\ pc' = [pc EXCEPT ![t] = "write"]
      /\ ev' = [ev EXCEPT ![t] = [by |-> t, n |-> made + 1]]
      /\ at' = [at EXCEPT ![t] = Len(files')] /\ made' = made + 1 /\ made < MaxEvents
  BY DEF Publish
<1>5. [by |-> t, n |-> made + 1] \in Event /\ made + 1 \in 0 .. MaxEvents
  BY <1>4, FeedAssumption DEF Event, TypeOK
<1>6. t \in Thread /\ t # Tailer
  BY FeedAssumption DEF Thread
<1>7. TypeOK'
  BY <1>1, <1>2, <1>3, <1>4, <1>5, <1>6 DEF TypeOK, tail, feed
<1>8. Shape'
  <2>1. \A i \in 1 .. Len(files) : Len(files'[i]) = Len(files[i])
    BY <1>3
  <2>2. fh \in 0 .. Len(files) /\ path \in 0 .. Len(files)
    BY DEF TypeOK
  <2>3. /\ tpc' = "open" <=> fh' = 0
        /\ tpc' = "dispatch" <=> batch' # <<>>
        /\ (path' = 0 \/ path' = Len(files'))
        /\ fh' # 0 /\ ~cut' => pos' <= Len(files'[fh'])
    BY <1>1, <1>2, <2>1, <2>2 DEF Shape, tail
  <2>4. tpc' # "stat" /\ fh' # 0 /\ path' = fh' => inode' = fh'
    BY <1>1, <1>2, <1>3, <2>2 DEF Shape, tail
  <2>5. /\ pc'[t] = "write" /\ \A u \in Thread \ {t} : pc'[u] = pc[u] /\ ev'[u] = ev[u]
        /\ ev'[t] = [by |-> t, n |-> made + 1] /\ at'[t] = Len(files')
        /\ \A u \in (Local \cup Remote) \ {t} : at'[u] = at[u]
    BY <1>4, <1>6 DEF TypeOK
  <2>6. \A u \in Local \cup Remote :
          /\ pc'[u] = "write" => at'[u] \in 1 .. Len(files')
          /\ Busy(u)' => ev'[u] \in Event /\ ev'[u].by = u
    <3>1. pc'[t] = "write" => at'[t] \in 1 .. Len(files')
      BY <1>3, <2>5
    <3>2. Busy(t)' => ev'[t] \in Event /\ ev'[t].by = t
      BY <1>5, <2>5
    <3>3. ASSUME NEW u \in (Local \cup Remote) \ {t}
          PROVE  /\ pc'[u] = "write" => at'[u] \in 1 .. Len(files')
                 /\ Busy(u)' => ev'[u] \in Event /\ ev'[u].by = u
      <4>1. u \in Thread \ {t} /\ pc'[u] = pc[u] /\ ev'[u] = ev[u] /\ at'[u] = at[u]
        BY <2>5 DEF Thread
      <4>2. pc[u] = "write" => at[u] \in 1 .. Len(files')
        BY <1>2, <1>3 DEF Shape
      <4>3. QED
        BY <4>1, <4>2 DEF Shape, Busy
    <3>4. QED
      BY <3>1, <3>2, <3>3
  <2>7. /\ \A u \in Remote : pc'[u] \in {"idle", "write"}
        /\ pc'[Tailer] # "write"
        /\ Busy(Tailer)' => ev'[Tailer] \in Event /\ ev'[Tailer].by \in Remote
    BY <1>6, <2>5 DEF Shape, Busy, Thread
  <2>8. QED
    BY <2>3, <2>4, <2>6, <2>7 DEF Shape
<1>9. QED
  BY <1>7, <1>8

\* What Write does to the files.
LEMMA WriteFiles ==
    ASSUME Typed, NEW t \in Local \cup Remote, Write(t)
    PROVE  /\ ev[t] \in Event /\ ev[t].by = t /\ pc[t] = "write"
           /\ at[t] \in 1 .. Len(files) /\ Len(files) \in Nat
           /\ files[at[t]] \in Seq(Event) /\ files'[at[t]] = Append(files[at[t]], ev[t])
           /\ files' \in Seq(Seq(Event)) /\ Len(files') = Len(files)
           /\ \A i \in 1 .. Len(files) : i # at[t] => files'[i] = files[i]
<1>1. /\ pc[t] = "write" /\ files' = [files EXCEPT ![at[t]] = Append(@, ev[t])]
  BY DEF Write
<1>2. /\ ev[t] \in Event /\ ev[t].by = t /\ at[t] \in 1 .. Len(files)
      /\ files \in Seq(Seq(Event)) /\ Len(files) \in Nat
  BY <1>1, LenProperties DEF Typed, TypeOK, Shape, Busy
<1>3. files[at[t]] \in Seq(Event)
  BY <1>2, ElementOfSeq
<1>4. Append(files[at[t]], ev[t]) \in Seq(Event)
  BY <1>2, <1>3, AppendProperties
<1>5. files' = [files EXCEPT ![at[t]] = Append(files[at[t]], ev[t])]
  BY <1>1
<1>6. QED
  BY <1>1, <1>2, <1>3, <1>4, <1>5, WriteProperties

LEMMA TypedWrite ==
    ASSUME Typed, NEW t \in Local \cup Remote, Write(t)
    PROVE  Typed'
<1> USE DEF Typed
<1>1. /\ ev[t] \in Event /\ pc[t] = "write" /\ at[t] \in 1 .. Len(files)
      /\ files' \in Seq(Seq(Event)) /\ Len(files') = Len(files) /\ Len(files) \in Nat
      /\ \A i \in 1 .. Len(files) : i # at[t] => files'[i] = files[i]
      /\ Len(files'[at[t]]) = Len(files[at[t]]) + 1 /\ Len(files[at[t]]) \in Nat
  BY WriteFiles, AppendProperties, LenProperties
<1>2. /\ at' = [at EXCEPT ![t] = 0]
      /\ \/ /\ t \in Local /\ pc' = [pc EXCEPT ![t] = "put"]
            /\ offered' = offered \cup {ev[t]} /\ UNCHANGED ev
         \/ /\ t \notin Local /\ pc' = [pc EXCEPT ![t] = "idle"]
            /\ ev' = [ev EXCEPT ![t] = NoEvent] /\ UNCHANGED offered
      /\ UNCHANGED <<made, path, rotations, tail, feed>>
  BY DEF Write
<1>3. t \in Thread /\ t # Tailer /\ Tailer \in Thread /\ Tailer \notin Remote
  BY FeedAssumption DEF Thread
<1>4. TypeOK'
  <2>1. pc' \in [Thread -> {"idle", "write", "put", "get", "again"}]
    BY <1>2, <1>3 DEF TypeOK
  <2>2. ev' \in [Thread -> Event \cup {NoEvent}] /\ offered' \subseteq Event
    BY <1>1, <1>2, <1>3 DEF TypeOK
  <2>3. at' \in [Local \cup Remote -> 0 .. Len(files')]
    BY <1>1, <1>2 DEF TypeOK
  <2>4. QED
    BY <1>1, <1>2, <2>1, <2>2, <2>3 DEF TypeOK, tail, feed
<1>5. Shape'
  <2>1. /\ tpc' = "open" <=> fh' = 0
        /\ tpc' = "dispatch" <=> batch' # <<>>
        /\ (path' = 0 \/ path' = Len(files'))
        /\ tpc' # "stat" /\ fh' # 0 /\ path' = fh' => inode' = fh'
    BY <1>1, <1>2 DEF Shape, tail
  <2>2. ASSUME fh' # 0, ~cut'
        PROVE  pos' <= Len(files'[fh'])
    <3>1. fh' = fh /\ pos' = pos /\ pos \in Nat /\ fh \in 1 .. Len(files) /\ pos <= Len(files[fh])
      BY <1>1, <1>2, <2>2 DEF Shape, tail, TypeOK
    <3>2. CASE fh = at[t]
      BY <1>1, <3>1, <3>2
    <3>3. CASE fh # at[t]
      BY <1>1, <3>1, <3>3
    <3>4. QED
      BY <3>2, <3>3
  <2>3. /\ pc'[t] \in {"put", "idle"} /\ (pc'[t] = "put" => t \in Local /\ ev'[t] = ev[t])
        /\ \A u \in Thread \ {t} : pc'[u] = pc[u] /\ ev'[u] = ev[u]
        /\ \A u \in (Local \cup Remote) \ {t} : at'[u] = at[u]
    BY <1>2, <1>3 DEF TypeOK
  <2>4. \A u \in Local \cup Remote :
          /\ pc'[u] = "write" => at'[u] \in 1 .. Len(files')
          /\ Busy(u)' => ev'[u] \in Event /\ ev'[u].by = u
    <3>1. /\ pc'[t] = "write" => at'[t] \in 1 .. Len(files')
          /\ Busy(t)' => ev'[t] \in Event /\ ev'[t].by = t
      BY <1>1, <2>3 DEF Shape, Busy
    <3>2. ASSUME NEW u \in (Local \cup Remote) \ {t}
          PROVE  /\ pc'[u] = "write" => at'[u] \in 1 .. Len(files')
                 /\ Busy(u)' => ev'[u] \in Event /\ ev'[u].by = u
      <4>1. pc'[u] = pc[u] /\ ev'[u] = ev[u] /\ at'[u] = at[u]
        BY <2>3 DEF Thread
      <4>2. QED
        BY <1>1, <4>1 DEF Shape, Busy
    <3>3. QED
      BY <3>1, <3>2
  <2>5. /\ \A u \in Remote : pc'[u] \in {"idle", "write"}
        /\ pc'[Tailer] # "write"
        /\ Busy(Tailer)' => ev'[Tailer] \in Event /\ ev'[Tailer].by \in Remote
    BY <1>3, <2>3, FeedAssumption DEF Shape, Busy, Thread
  <2>6. QED
    BY <2>1, <2>2, <2>4, <2>5 DEF Shape
<1>6. QED
  BY <1>4, <1>5

\* The steps of _offer: one thread, the queue and the counter.
LEMMA TypedOffer ==
    ASSUME Typed, NEW t \in Local \cup {Tailer}, Put(t) \/ Get(t) \/ PutAgain(t)
    PROVE  Typed'
<1> USE DEF Typed
<1>1. /\ t \in Thread /\ Busy(t) /\ Tailer \in Thread /\ t \notin Remote
  BY FeedAssumption DEF Thread, Put, Get, PutAgain, Busy
<1>2. UNCHANGED <<rotations, writing, tail, got, offered>>
  BY DEF Put, Get, PutAgain
<1>3. ev[t] \in Event
  BY <1>1 DEF Shape
<1>4. \/ pc' = [pc EXCEPT ![t] = "idle"] /\ ev' = [ev EXCEPT ![t] = NoEvent]
      \/ \E label \in {"get", "again"} : pc' = [pc EXCEPT ![t] = label] /\ UNCHANGED ev
  BY DEF Put, Get, PutAgain, Offered
<1>5. queue' \in Seq(Event) /\ Len(queue') <= QueueSize
  <2>1. queue \in Seq(Event) /\ Len(queue) \in Nat /\ Len(queue) <= QueueSize /\ QueueSize \in Nat
    BY LenProperties, FeedAssumption DEF TypeOK
  <2>2. CASE queue' = queue
    BY <2>1, <2>2
  <2>3. CASE queue' = Append(queue, ev[t]) /\ ~Full
    BY <1>3, <2>1, <2>3, AppendProperties DEF Full
  <2>4. CASE queue # <<>> /\ queue' = Tail(queue)
    BY <2>1, <2>4, TailRange
  <2>5. QED
    BY <2>2, <2>3, <2>4 DEF Put, Get, PutAgain
<1>6. dropped' \in Nat
  BY DEF TypeOK, Put, Get, PutAgain
<1>7. TypeOK'
  BY <1>1, <1>2, <1>4, <1>5, <1>6 DEF TypeOK, writing, tail
<1>8. Shape'
  <2>1. /\ tpc' = "open" <=> fh' = 0
        /\ tpc' = "dispatch" <=> batch' # <<>>
        /\ (path' = 0 \/ path' = Len(files'))
        /\ tpc' # "stat" /\ fh' # 0 /\ path' = fh' => inode' = fh'
        /\ fh' # 0 /\ ~cut' => pos' <= Len(files'[fh'])
    BY <1>2 DEF Shape, tail, writing
  <2>2. /\ pc'[t] # "write" /\ (pc'[t] # "idle" => ev'[t] = ev[t])
        /\ \A u \in Thread \ {t} : pc'[u] = pc[u] /\ ev'[u] = ev[u]
        /\ at' = at /\ files' = files
    BY <1>1, <1>2, <1>4 DEF TypeOK, writing
  <2>3. \A u \in Local \cup Remote :
          /\ pc'[u] = "write" => at'[u] \in 1 .. Len(files')
          /\ Busy(u)' => ev'[u] \in Event /\ ev'[u].by = u
    BY <1>1, <2>2 DEF Shape, Busy, Thread
  <2>4. /\ \A u \in Remote : pc'[u] \in {"idle", "write"}
        /\ pc'[Tailer] # "write"
        /\ Busy(Tailer)' => ev'[Tailer] \in Event /\ ev'[Tailer].by \in Remote
    BY <1>1, <2>2 DEF Shape, Busy, Thread
  <2>5. QED
    BY <2>1, <2>3, <2>4 DEF Shape
<1>9. QED
  BY <1>7, <1>8

LEMMA TypedConsume ==
    ASSUME Typed, Consume
    PROVE  Typed'
<1> USE DEF Typed
<1>1. /\ queue # <<>> /\ queue' = Tail(queue) /\ got' = got \cup {Head(queue)}
      /\ UNCHANGED <<rotations, writing, pc, ev, tail, dropped, offered>>
  BY DEF Consume
<1>2. queue \in Seq(Event) /\ Len(queue) <= QueueSize /\ QueueSize \in Nat
  BY FeedAssumption DEF TypeOK
<1>3. queue' \in Seq(Event) /\ Len(queue') <= QueueSize /\ got' \subseteq got \cup Event
  BY <1>1, <1>2, TailRange
<1>4. TypeOK'
  BY <1>1, <1>3 DEF TypeOK, writing, tail
<1>5. Shape'
  BY <1>1 DEF Shape, Busy, writing, tail
<1>6. QED
  BY <1>4, <1>5

LEMMA TypedRotate ==
    ASSUME Typed, RenameAway \/ Truncate
    PROVE  Typed'
<1> USE DEF Typed
<1>1. CASE RenameAway
  <2>1. TypeOK'
    BY <1>1, FeedAssumption DEF TypeOK, RenameAway, tail, feed
  <2>2. Shape'
    BY <1>1 DEF Shape, Busy, RenameAway, tail, feed
  <2>3. QED
    BY <2>1, <2>2
<1>2. CASE Truncate
  <2>1. /\ path \in 1 .. Len(files) /\ files' = [files EXCEPT ![path] = <<>>]
        /\ rotations' \in 0 .. MaxRotations /\ cut' = (cut \/ fh = path)
        /\ UNCHANGED <<made, path, at, pc, ev, tpc, fh, pos, inode, atStart, batch, skip,
                       feed, offered>>
    BY <1>2, FeedAssumption DEF TypeOK, Truncate
  <2>2. files \in Seq(Seq(Event)) /\ <<>> \in Seq(Event)
    BY EmptySeq DEF TypeOK
  <2>3. /\ files' \in Seq(Seq(Event)) /\ Len(files') = Len(files)
        /\ \A i \in 1 .. Len(files) : i # path => files'[i] = files[i]
    BY <2>1, <2>2, WriteProperties
  <2>4. cut' \in BOOLEAN
    BY <2>1
  <2>5. TypeOK'
    BY <2>1, <2>3, <2>4 DEF TypeOK, feed
  <2>6. fh' # 0 /\ ~cut' => pos' <= Len(files'[fh'])
    <3>1. CASE fh = path
      BY <2>1, <3>1
    <3>2. CASE fh # path
      <4>1. fh' = fh /\ pos' = pos /\ fh \in 0 .. Len(files) /\ (~cut' => ~cut)
        BY <2>1 DEF TypeOK
      <4>2. fh # 0 => files'[fh] = files[fh]
        BY <2>3, <3>2, <4>1
      <4>3. QED
        BY <4>1, <4>2 DEF Shape
    <3>3. QED
      BY <3>1, <3>2
  <2>7. Shape'
    BY <2>1, <2>3, <2>6 DEF Shape, Busy
  <2>8. QED
    BY <2>5, <2>7
<1>3. QED
  BY <1>1, <1>2

LEMMA TypedTailOpen ==
    ASSUME Typed, TailOpen
    PROVE  Typed'
<1> USE DEF Typed
<1>1. /\ path \in 1 .. Len(files) /\ fh' = path /\ cut' = FALSE /\ tpc = "open" /\ tpc' = "stat"
      /\ pos' = IF atStart THEN 0 ELSE Len(files[path])
      /\ skip' = IF atStart THEN skip ELSE Lines(path)
      /\ UNCHANGED <<inode, atStart, batch, rotations, writing, pc, ev, feed, offered>>
  BY DEF TailOpen, TypeOK
<1>2. files[path] \in Seq(Event) /\ Len(files[path]) \in Nat
  BY <1>1, ElementOfSeq, LenProperties DEF TypeOK
<1>3. Lines(path) \subseteq Event
  BY <1>2, RangeOf DEF Lines
<1>4. cut' \in BOOLEAN /\ skip' \subseteq Event /\ pos' \in Nat /\ pos' <= Len(files[path])
  <2>1. cut' \in BOOLEAN
    BY <1>1
  <2>2. skip' \subseteq Event
    BY <1>1, <1>3 DEF TypeOK
  <2>3. pos' \in Nat /\ pos' <= Len(files[path])
    BY <1>1, <1>2
  <2>4. QED
    BY <2>1, <2>2, <2>3
<1>5. TypeOK'
  BY <1>1, <1>4 DEF TypeOK, writing, feed
<1>6. Shape'
  BY <1>1, <1>4 DEF Shape, Busy, TypeOK, writing, feed
<1>7. QED
  BY <1>5, <1>6

LEMMA TypedTailStat ==
    ASSUME Typed, TailStat
    PROVE  Typed'
<1> USE DEF Typed
<1>1. /\ inode' = path /\ atStart' = FALSE /\ tpc = "stat" /\ tpc' = "inode"
      /\ UNCHANGED <<fh, pos, batch, cut, skip, rotations, writing, pc, ev, feed, offered>>
  BY DEF TailStat
<1>2. atStart' \in BOOLEAN
  BY <1>1
<1>3. TypeOK'
  BY <1>1, <1>2 DEF TypeOK, writing, feed
<1>4. Shape'
  BY <1>1 DEF Shape, Busy, writing
<1>5. QED
  BY <1>3, <1>4

\* TailInode and TailSize go on to the next test or close the file.
LEMMA TypedTailTest ==
    ASSUME Typed, TailInode \/ TailSize
    PROVE  Typed'
<1> USE DEF Typed
<1>1. UNCHANGED <<batch, skip, rotations, writing, pc, ev, feed, offered>>
  BY DEF TailInode, TailSize
<1>2. CASE Reopen
  <2>1. /\ fh' = 0 /\ pos' = 0 /\ inode' = 0 /\ tpc' = "open" /\ cut' \in BOOLEAN /\ atStart' \in BOOLEAN
    BY <1>2 DEF Reopen
  <2>2. batch = <<>>
    BY DEF TailInode, TailSize, Shape
  <2>3. TypeOK'
    BY <1>1, <2>1 DEF TypeOK, writing, feed
  <2>4. Shape'
    BY <1>1, <2>1, <2>2 DEF Shape, Busy, writing
  <2>5. QED
    BY <2>3, <2>4
<1>3. CASE ~Reopen
  <2>1. /\ tpc \in {"inode", "size"} /\ tpc' \in {"size", "read"}
        /\ UNCHANGED <<fh, pos, inode, cut, atStart>>
    BY <1>3 DEF TailInode, TailSize
  <2>2. TypeOK'
    BY <1>1, <2>1 DEF TypeOK, writing, feed
  <2>3. Shape'
    BY <1>1, <2>1 DEF Shape, Busy, writing
  <2>4. QED
    BY <2>2, <2>3
<1>4. QED
  BY <1>2, <1>3

\* What TailRead takes from the file: nothing, or the lines after the position.
LEMMA ReadBatch ==
    ASSUME Typed, TailRead
    PROVE  /\ fh \in 1 .. Len(files) /\ files[fh] \in Seq(Event) /\ batch = <<>> /\ tpc = "read"
           /\ UNCHANGED <<fh, inode, atStart, cut, skip, rotations, writing, pc, ev, feed, offered>>
           /\ \/ tpc' = "inode" /\ UNCHANGED <<pos, batch>>
              \/ \E k \in pos + 1 .. Len(files[fh]) :
                    /\ pos' = k /\ tpc' = "dispatch"
                    /\ batch' \in Seq(Event) /\ Len(batch') = k - pos /\ batch' # <<>>
                    /\ \A i \in 1 .. k - pos : batch'[i] = files[fh][pos + i]
<1>1. /\ fh \in 1 .. Len(files) /\ batch = <<>> /\ pos \in Nat /\ tpc = "read"
  BY DEF Typed, TypeOK, Shape, TailRead
<1>2. files[fh] \in Seq(Event) /\ Len(files[fh]) \in Nat
  BY <1>1, ElementOfSeq, LenProperties DEF Typed, TypeOK
<1>3. ASSUME NEW k \in pos + 1 .. Len(files[fh]), batch' = SubSeq(files[fh], pos + 1, k)
      PROVE  /\ batch' \in Seq(Event) /\ Len(batch') = k - pos /\ batch' # <<>>
             /\ \A i \in 1 .. k - pos : batch'[i] = files[fh][pos + i]
  <2>1. \A i \in pos + 1 .. k : files[fh][i] \in Event
    BY <1>1, <1>2, ElementOfSeq
  <2>2. /\ batch' \in Seq(Event)
        /\ Len(batch') = k - (pos + 1) + 1
        /\ \A i \in 1 .. k - (pos + 1) + 1 : batch'[i] = files[fh][(pos + 1) + i - 1]
    BY <1>1, <1>2, <1>3, <2>1, SubSeqProperties
  <2>3. /\ k \in Int /\ k - (pos + 1) + 1 = k - pos /\ k - pos > 0
        /\ \A i \in 1 .. k - pos : (pos + 1) + i - 1 = pos + i
    BY <1>1
  <2>4. Len(batch') = k - pos /\ \A i \in 1 .. k - pos : batch'[i] = files[fh][pos + i]
    BY <2>2, <2>3
  <2>5. QED
    BY <2>2, <2>3, <2>4, EmptySeq
<1>4. QED
  BY <1>1, <1>2, <1>3 DEF TailRead

LEMMA TypedTailRead ==
    ASSUME Typed, TailRead
    PROVE  Typed'
<1> USE DEF Typed
<1>1. /\ fh \in 1 .. Len(files) /\ files[fh] \in Seq(Event) /\ batch = <<>> /\ tpc = "read"
      /\ UNCHANGED <<fh, inode, atStart, cut, skip, rotations, writing, pc, ev, feed, offered>>
  BY ReadBatch
<1>2. CASE tpc' = "inode" /\ UNCHANGED <<pos, batch>>
  <2>1. TypeOK'
    BY <1>1, <1>2 DEF TypeOK, writing, feed
  <2>2. Shape'
    BY <1>1, <1>2 DEF Shape, Busy, writing
  <2>3. QED
    BY <2>1, <2>2
<1>3. ASSUME NEW k \in pos + 1 .. Len(files[fh]),
             pos' = k, tpc' = "dispatch", batch' \in Seq(Event), batch' # <<>>
      PROVE  Typed'
  <2>1. pos' \in Nat /\ pos' <= Len(files[fh])
    BY <1>1, <1>3, LenProperties DEF TypeOK
  <2>2. TypeOK'
    BY <1>1, <1>3, <2>1 DEF TypeOK, writing, feed
  <2>3. Shape'
    BY <1>1, <1>3, <2>1 DEF Shape, Busy, writing
  <2>4. QED
    BY <2>2, <2>3
<1>4. QED
  BY <1>2, <1>3, ReadBatch

LEMMA TypedTailDispatch ==
    ASSUME Typed, TailDispatch
    PROVE  Typed'
<1> USE DEF Typed
<1>1. /\ tpc = "dispatch" /\ batch # <<>> /\ batch' = Tail(batch) /\ ~Busy(Tailer)
      /\ tpc' = IF Len(batch) = 1 THEN "inode" ELSE "dispatch"
      /\ UNCHANGED <<fh, pos, inode, atStart, cut, skip, rotations, writing, feed>>
  BY DEF TailDispatch, Shape, Busy
<1>2. /\ Head(batch) \in Event /\ batch' \in Seq(Event) /\ Len(batch) \in Nat \ {0}
      /\ Len(batch') = Len(batch) - 1
  BY <1>1, TailRange DEF TypeOK
<1>3. batch' = <<>> <=> Len(batch) = 1
  BY <1>2, EmptySeq
<1>4. Tailer \in Thread /\ Tailer \notin Local \cup Remote
  BY FeedAssumption DEF Thread
<1>5. CASE Head(batch).by \in Local
  <2>1. UNCHANGED <<pc, ev, offered>>
    BY <1>5 DEF TailDispatch
  <2>2. TypeOK'
    BY <1>1, <1>2, <2>1 DEF TypeOK, writing, feed
  <2>3. Shape'
    BY <1>1, <1>3, <2>1 DEF Shape, Busy, writing
  <2>4. QED
    BY <2>2, <2>3
<1>6. CASE Head(batch).by \notin Local
  <2>1. /\ pc' = [pc EXCEPT ![Tailer] = "put"] /\ ev' = [ev EXCEPT ![Tailer] = Head(batch)]
        /\ offered' = offered \cup {Head(batch)}
    BY <1>6 DEF TailDispatch
  <2>2. Head(batch).by \in Remote
    BY <1>2, <1>6 DEF Event
  <2>3. TypeOK'
    <3>1. pc' \in [Thread -> {"idle", "write", "put", "get", "again"}]
      BY <1>4, <2>1 DEF TypeOK
    <3>2. ev' \in [Thread -> Event \cup {NoEvent}] /\ offered' \subseteq Event
      BY <1>2, <1>4, <2>1 DEF TypeOK
    <3>3. QED
      BY <1>1, <1>2, <3>1, <3>2 DEF TypeOK, writing, feed
  <2>4. Shape'
    <3>1. /\ pc'[Tailer] = "put" /\ ev'[Tailer] = Head(batch)
          /\ \A u \in Local \cup Remote : pc'[u] = pc[u] /\ ev'[u] = ev[u]
      BY <1>4, <2>1 DEF TypeOK, Thread
    <3>2. QED
      BY <1>1, <1>2, <1>3, <2>2, <3>1 DEF Shape, Busy, writing
  <2>5. QED
    BY <2>3, <2>4
<1>7. QED
  BY <1>5, <1>6

LEMMA TypedStep ==
    ASSUME Typed, [Next]_vars
    PROVE  Typed'
<1>1. CASE UNCHANGED vars
  <2>1. TypeOK'
    BY <1>1 DEF Typed, TypeOK, vars, writing, tail, feed
  <2>2. Shape'
    BY <1>1 DEF Typed, Shape, Busy, vars, writing, tail, feed
  <2>3. QED
    BY <2>1, <2>2 DEF Typed
<1>2. QED
  BY <1>1, NextCases, TypedPublish, TypedWrite, TypedOffer, TypedConsume, TypedRotate,
     TypedTailOpen, TypedTailStat, TypedTailTest, TypedTailRead, TypedTailDispatch

LEMMA TypedAlways == Spec => []Typed
<1>1. Typed /\ [Next]_vars => Typed'
  BY TypedStep
<1>2. QED
  BY <1>1, TypedInit, PTL DEF Spec

\* The queue never grows over its size, although its threads look and put in
\* two steps (event_bus.py:63); the tailer reads within the file it opened.
THEOREM TypeCorrect == Spec => []TypeOK
<1>1. Typed => TypeOK
  BY DEF Typed
<1>2. QED
  BY <1>1, TypedAlways, PTL

--------------------------------------------------------------------------------
(* No line is skipped *)

LEMMA NoLineSkippedStep ==
    ASSUME Typed, NoLineSkipped, [Next]_vars
    PROVE  NoLineSkipped'
<1> USE DEF Typed
<1>1. /\ files \in Seq(Seq(Event)) /\ Len(files) \in Nat /\ fh \in 0 .. Len(files) /\ pos \in Nat
      /\ \A i \in 1 .. Len(files) : files[i] \in Seq(Event) /\ Len(files[i]) \in Nat
  BY LenProperties, ElementOfSeq DEF TypeOK
\* A step that keeps what the tailer has read and the open file up to there.
<1>2. ASSUME UNCHANGED <<fh, pos, cut, skip, batch>>, offered \subseteq offered',
             fh # 0 /\ ~cut => \A k \in 1 .. pos : files'[fh][k] = files[fh][k]
      PROVE  NoLineSkipped'
  BY <1>2 DEF NoLineSkipped
<1>3. ASSUME NEW t \in Local \cup Remote, Publish(t)
      PROVE  NoLineSkipped'
  <2>1. \A i \in 1 .. Len(files) : files'[i] = files[i]
    BY <1>1, <1>3, AppendProperties, EmptySeq DEF Publish
  <2>2. QED
    BY <1>1, <1>2, <1>3, <2>1 DEF Publish, tail
<1>4. ASSUME NEW t \in Local \cup Remote, Write(t)
      PROVE  NoLineSkipped'
  <2>1. UNCHANGED tail /\ offered \subseteq offered'
    BY <1>4 DEF Write
  <2>2. ASSUME fh # 0, ~cut, NEW k \in 1 .. pos
        PROVE  files'[fh][k] = files[fh][k]
    <3>1. fh \in 1 .. Len(files) /\ k \in 1 .. Len(files[fh])
      BY <1>1, <2>2 DEF Shape
    <3>2. CASE fh = at[t]
      BY <1>1, <1>4, <3>1, <3>2, WriteFiles, AppendProperties
    <3>3. CASE fh # at[t]
      BY <1>4, <3>1, <3>3, WriteFiles
    <3>4. QED
      BY <3>2, <3>3
  <2>3. QED
    BY <1>2, <2>1, <2>2 DEF tail
<1>5. ASSUME NEW t \in Local \cup {Tailer}, Put(t) \/ Get(t) \/ PutAgain(t)
      PROVE  NoLineSkipped'
  BY <1>2, <1>5 DEF Put, Get, PutAgain, tail, writing
<1>6. CASE Consume \/ RenameAway \/ UNCHANGED vars
  BY <1>2, <1>6 DEF Consume, RenameAway, tail, writing, vars
<1>7. CASE Truncate
  <2>1. CASE fh = path
    BY <1>7, <2>1 DEF Truncate, NoLineSkipped
  <2>2. CASE fh # path
    <3>1. UNCHANGED <<fh, pos, skip, batch, offered>> /\ (cut' => cut) /\ (cut => cut')
      BY <1>7, <2>2 DEF Truncate, feed
    <3>2. fh # 0 => files'[fh] = files[fh]
      BY <1>1, <1>7, <2>2 DEF Truncate
    <3>3. QED
      BY <3>1, <3>2 DEF NoLineSkipped
  <2>3. QED
    BY <2>1, <2>2
<1>8. CASE TailOpen
  <2>1. /\ path \in 1 .. Len(files) /\ fh' = path /\ files' = files
        /\ \/ pos' = 0
           \/ pos' = Len(files[path]) /\ skip' = Lines(path)
    BY <1>8 DEF TailOpen, TypeOK, writing
  <2>2. \A k \in 1 .. Len(files[path]) : files[path][k] \in Lines(path)
    BY <1>1, <2>1, LenProperties DEF Lines
  <2>3. QED
    BY <2>1, <2>2 DEF NoLineSkipped
<1>9. CASE TailStat
  BY <1>2, <1>9 DEF TailStat, writing
<1>10. CASE TailInode \/ TailSize
  <2>1. CASE Reopen
    BY <2>1 DEF Reopen, NoLineSkipped
  <2>2. CASE ~Reopen
    BY <1>2, <1>10, <2>2 DEF TailInode, TailSize, writing
  <2>3. QED
    BY <2>1, <2>2
<1>11. CASE TailRead
  <2>1. /\ fh \in 1 .. Len(files) /\ batch = <<>>
        /\ UNCHANGED <<fh, cut, skip, offered, files>>
    BY <1>11, ReadBatch DEF writing
  <2>2. CASE UNCHANGED <<pos, batch>>
    BY <1>2, <2>1, <2>2
  <2>3. ASSUME NEW n \in pos + 1 .. Len(files[fh]), pos' = n,
               batch' \in Seq(Event), Len(batch') = n - pos,
               \A i \in 1 .. n - pos : batch'[i] = files[fh][pos + i]
        PROVE  NoLineSkipped'
    <3> SUFFICES ASSUME ~cut, NEW k \in 1 .. n, files[fh][k].by \in Remote
                 PROVE  \/ files[fh][k] \in skip \cup offered
                        \/ \E i \in DOMAIN batch' : batch'[i] = files[fh][k]
      BY <2>1, <2>3 DEF NoLineSkipped
    <3>1. DOMAIN batch' = 1 .. n - pos
      BY <2>3, LenProperties
    <3>2. CASE k <= pos
      BY <1>1, <2>1, <3>2 DEF NoLineSkipped
    <3>3. CASE k > pos
      <4>1. k - pos \in 1 .. n - pos /\ pos + (k - pos) = k
        BY <1>1, <3>3
      <4>2. batch'[k - pos] = files[fh][k]
        BY <2>3, <4>1
      <4>3. QED
        BY <3>1, <4>1, <4>2
    <3>4. QED
      BY <1>1, <3>2, <3>3
  <2>4. QED
    BY <1>11, <2>2, <2>3, ReadBatch
<1>12. CASE TailDispatch
  <2>1. /\ batch \in Seq(Event) /\ batch # <<>> /\ batch' = Tail(batch)
        /\ UNCHANGED <<fh, pos, cut, skip, files>>
        /\ offered \subseteq offered'
        /\ Head(batch).by \in Local \/ Head(batch) \in offered'
    BY <1>12 DEF TailDispatch, Shape, TypeOK, writing
  <2>2. Range(batch) = {Head(batch)} \cup Range(batch')
    BY <2>1, TailRange
  <2>3. Head(batch).by \in Remote => Head(batch) \in offered'
    BY <2>1, FeedAssumption
  <2>4. ASSUME fh # 0, ~cut, NEW k \in 1 .. pos, files[fh][k].by \in Remote
        PROVE  files[fh][k] \in skip \cup offered' \/ files[fh][k] \in Range(batch')
    <3>1. files[fh][k] \in skip \cup offered \/ files[fh][k] \in Range(batch)
      BY <2>4 DEF NoLineSkipped, Range
    <3>2. QED
      BY <2>1, <2>2, <2>3, <2>4, <3>1
  <2>5. QED
    BY <2>1, <2>4 DEF NoLineSkipped, Range
<1>13. QED
  BY <1>3, <1>4, <1>5, <1>6, <1>7, <1>8, <1>9, <1>10, <1>11, <1>12, NextCases

\* Every line before the tailer's position has been handed on, or was there when
\* it first opened the file (event_log.py:198), through rotations the tailer
\* notices late or takes for another file; only a truncation can lose lines.
THEOREM NoneSkipped == Spec => []NoLineSkipped
<1>1. Init => NoLineSkipped
  BY DEF Init, NoLineSkipped
<1>2. Typed /\ NoLineSkipped /\ [Next]_vars => NoLineSkipped'
  BY NoLineSkippedStep
<1>3. QED
  BY <1>1, <1>2, TypedAlways, PTL DEF Spec

--------------------------------------------------------------------------------
(* The drops are counted *)

Shown == got \cup Range(queue)
Offering == {t \in Local \cup {Tailer} : pc[t] \in {"put", "get", "again"}}
Retrying == {t \in Local \cup {Tailer} : pc[t] = "again"}

\* Lost: offered, not shown, and in no thread's hands.
Lost == offered \ (Shown \cup {ev[t] : t \in Offering})

\* A thread about to put again may have lost the event it made room for.
LossCounted ==
    /\ IsFiniteSet(offered) /\ IsFiniteSet(Retrying)
    /\ Cardinality(Lost) <= 2 * dropped + Cardinality(Retrying)

LEMMA LossStep ==
    ASSUME Typed, LossCounted, NEW lost, NEW e,
           Lost' \subseteq Lost \cup lost, lost \subseteq {e}
    PROVE  /\ IsFiniteSet(Lost') /\ Cardinality(Lost') \in Nat
           /\ Cardinality(Lost') <= 2 * dropped + Cardinality(Retrying) + 1
           /\ lost = {} => Cardinality(Lost') <= 2 * dropped + Cardinality(Retrying)
<1>1. IsFiniteSet(Lost)
  BY FS_Subset DEF Lost, LossCounted
<1>2. /\ IsFiniteSet(Lost \cup {e}) /\ Cardinality(Lost) \in Nat
      /\ Cardinality(Lost \cup {e}) <= Cardinality(Lost) + 1
  BY <1>1, FS_AddElement, FS_CardinalityType
<1>3. IsFiniteSet(Lost') /\ Cardinality(Lost') <= Cardinality(Lost \cup {e})
  BY <1>2, FS_Subset
<1>4. lost = {} => Cardinality(Lost') <= Cardinality(Lost)
  BY <1>1, FS_Subset
<1>5. Cardinality(Lost') \in Nat /\ Cardinality(Lost \cup {e}) \in Nat
  BY <1>2, <1>3, FS_CardinalityType
<1>6. dropped \in Nat /\ Cardinality(Retrying) \in Nat
  BY FS_CardinalityType DEF LossCounted, Typed, TypeOK
<1>7. QED
  BY <1>2, <1>3, <1>4, <1>5, <1>6 DEF LossCounted

LEMMA LossCountedStep ==
    ASSUME Typed, LossCounted, [Next]_vars
    PROVE  LossCounted'
<1> USE DEF Typed
<1>0. /\ queue \in Seq(Event) /\ dropped \in Nat /\ Cardinality(Retrying) \in Nat
      /\ pc \in [Thread -> {"idle", "write", "put", "get", "again"}]
      /\ ev \in [Thread -> Event \cup {NoEvent}]
      /\ Local \cup {Tailer} \subseteq Thread /\ Tailer \notin Local \cup Remote
  BY FS_CardinalityType, FeedAssumption DEF TypeOK, LossCounted, Thread
\* A step that loses nothing.
<1>1. ASSUME NEW e, offered' \in {offered, offered \cup {e}},
             Lost' \subseteq Lost, Retrying' = Retrying, dropped' = dropped
      PROVE  LossCounted'
  <2>1. IsFiniteSet(offered')
    BY <1>1, FS_AddElement DEF LossCounted
  <2>2. Cardinality(Lost') <= 2 * dropped + Cardinality(Retrying)
    BY <1>1, LossStep
  <2>3. QED
    BY <1>1, <2>1, <2>2 DEF LossCounted
<1>2. ASSUME NEW t \in Local \cup Remote, Publish(t) \/ (Write(t) /\ t \notin Local)
      PROVE  LossCounted'
  <2>1. /\ \A u \in Thread \ {t} : pc'[u] = pc[u] /\ ev'[u] = ev[u]
        /\ pc[t] \in {"idle", "write"} /\ pc'[t] \in {"idle", "write"}
        /\ UNCHANGED <<queue, got, offered, dropped>>
    BY <1>0, <1>2 DEF Publish, Write, feed, Thread
  <2>2. Offering' = Offering /\ Retrying' = Retrying /\ \A u \in Offering : ev'[u] = ev[u]
    BY <1>0, <2>1 DEF Offering, Retrying
  <2>3. Lost' = Lost
    BY <2>1, <2>2 DEF Lost, Shown
  <2>4. QED
    BY <1>1, <2>1, <2>2, <2>3
<1>3. ASSUME NEW t \in Local, Write(t)
      PROVE  LossCounted'
  <2>1. /\ pc[t] = "write" /\ pc' = [pc EXCEPT ![t] = "put"] /\ UNCHANGED ev
        /\ offered' = offered \cup {ev[t]}
        /\ UNCHANGED <<queue, got, dropped>>
    BY <1>3 DEF Write, feed
  <2>2. Offering' = Offering \cup {t} /\ Retrying' = Retrying
    BY <1>0, <2>1 DEF Offering, Retrying
  <2>3. Lost' \subseteq Lost
    BY <2>1, <2>2 DEF Lost, Shown
  <2>4. QED
    BY <1>1, <2>1, <2>2, <2>3
<1>4. ASSUME NEW t \in Local \cup {Tailer}, Put(t)
      PROVE  LossCounted'
  <2>1. ev[t] \in Event
    BY <1>4 DEF Put, Shape, Busy
  <2>2. UNCHANGED <<got, offered, dropped>> /\ pc[t] = "put"
    BY <1>4 DEF Put
  <2>3. CASE Full
    <3>1. pc' = [pc EXCEPT ![t] = "get"] /\ UNCHANGED <<ev, queue>>
      BY <1>4, <2>3 DEF Put
    <3>2. Offering' = Offering /\ Retrying' = Retrying
      BY <1>0, <2>2, <3>1 DEF Offering, Retrying
    <3>3. Lost' = Lost
      BY <2>2, <3>1, <3>2 DEF Lost, Shown
    <3>4. QED
      BY <1>1, <2>2, <3>2, <3>3
  <2>4. CASE ~Full
    <3>1. /\ pc' = [pc EXCEPT ![t] = "idle"] /\ ev' = [ev EXCEPT ![t] = NoEvent]
          /\ queue' = Append(queue, ev[t])
      BY <1>4, <2>4 DEF Put, Offered
    <3>2. Shown' = Shown \cup {ev[t]}
      BY <1>0, <2>1, <2>2, <3>1, AppendRange DEF Shown
    <3>3. Offering' = Offering \ {t} /\ Retrying' = Retrying /\ \A u \in Offering' : ev'[u] = ev[u]
      BY <1>0, <2>2, <3>1 DEF Offering, Retrying
    <3>4. Lost' \subseteq Lost
      BY <2>2, <3>2, <3>3 DEF Lost
    <3>5. QED
      BY <1>1, <2>2, <3>3, <3>4
  <2>5. QED
    BY <2>3, <2>4
\* The oldest event goes, and the thread will count it.
<1>5. ASSUME NEW t \in Local \cup {Tailer}, Get(t)
      PROVE  LossCounted'
  <2>1. /\ pc[t] = "get" /\ pc' = [pc EXCEPT ![t] = "again"]
        /\ UNCHANGED <<got, offered, dropped, ev>>
    BY <1>5 DEF Get
  <2>2. Offering' = Offering /\ Retrying' = Retrying \cup {t} /\ t \notin Retrying
    BY <1>0, <2>1 DEF Offering, Retrying
  <2>3. \E lost \in {{}, {Head(queue)}} : Lost' \subseteq Lost \cup lost
    <3>1. CASE queue = <<>>
      BY <1>5, <2>1, <2>2, <3>1 DEF Get, Lost, Shown
    <3>2. CASE queue # <<>>
      <4>1. Shown \subseteq Shown' \cup {Head(queue)}
        BY <1>0, <1>5, <2>1, <3>2, TailRange DEF Get, Shown
      <4>2. QED
        BY <2>1, <2>2, <4>1 DEF Lost
    <3>3. QED
      BY <3>1, <3>2
  <2>4. Cardinality(Lost') <= 2 * dropped + Cardinality(Retrying) + 1
    BY <2>3, LossStep
  <2>5. IsFiniteSet(Retrying') /\ Cardinality(Retrying') = Cardinality(Retrying) + 1
    BY <2>2, FS_AddElement DEF LossCounted
  <2>6. QED
    BY <1>0, <2>1, <2>4, <2>5 DEF LossCounted
\* One drop is counted, for the event that made room and for this one.
<1>6. ASSUME NEW t \in Local \cup {Tailer}, PutAgain(t)
      PROVE  LossCounted'
  <2>1. /\ pc[t] = "again" /\ pc' = [pc EXCEPT ![t] = "idle"] /\ ev' = [ev EXCEPT ![t] = NoEvent]
        /\ UNCHANGED <<got, offered>> /\ dropped' = dropped + 1
        /\ queue' \in {queue, Append(queue, ev[t])}
    BY <1>6 DEF PutAgain, Offered
  <2>2. ev[t] \in Event
    BY <2>1 DEF Shape, Busy
  <2>3. Shown \subseteq Shown'
    <3>1. CASE queue' = queue
      BY <2>1, <3>1 DEF Shown
    <3>2. CASE queue' = Append(queue, ev[t])
      BY <1>0, <2>1, <2>2, <3>2, AppendRange DEF Shown
    <3>3. QED
      BY <2>1, <3>1, <3>2
  <2>4. /\ Offering' = Offering \ {t} /\ \A u \in Offering' : ev'[u] = ev[u]
        /\ Retrying' = Retrying \ {t} /\ t \in Retrying
    BY <1>0, <2>1 DEF Offering, Retrying
  <2>5. Lost' \subseteq Lost \cup {ev[t]}
    BY <2>1, <2>3, <2>4 DEF Lost
  <2>6. /\ Cardinality(Lost') <= 2 * dropped + Cardinality(Retrying) + 1
        /\ Cardinality(Lost') \in Nat
    BY <2>5, LossStep
  <2>7. IsFiniteSet(Retrying') /\ Cardinality(Retrying') = Cardinality(Retrying) - 1
    BY <2>4, FS_RemoveElement DEF LossCounted
  <2>8. QED
    BY <1>0, <2>1, <2>6, <2>7 DEF LossCounted
<1>7. CASE Consume
  <2>1. /\ queue # <<>> /\ got' = got \cup {Head(queue)} /\ queue' = Tail(queue)
        /\ UNCHANGED <<pc, ev, dropped, offered>>
    BY <1>7 DEF Consume
  <2>2. Shown' = Shown
    BY <1>0, <2>1, TailRange DEF Shown
  <2>3. Lost' = Lost /\ Retrying' = Retrying
    BY <2>1, <2>2 DEF Lost, Offering, Retrying
  <2>4. QED
    BY <1>1, <2>1, <2>3
<1>8. CASE TailDispatch /\ Head(batch).by \notin Local
  <2>1. /\ pc[Tailer] = "idle" /\ pc' = [pc EXCEPT ![Tailer] = "put"]
        /\ ev' = [ev EXCEPT ![Tailer] = Head(batch)]
        /\ offered' = offered \cup {Head(batch)}
        /\ UNCHANGED <<queue, got, dropped>>
    BY <1>8 DEF TailDispatch, feed
  <2>2. /\ Offering' = Offering \cup {Tailer} /\ Retrying' = Retrying
        /\ ev'[Tailer] = Head(batch) /\ \A u \in Offering : ev'[u] = ev[u]
    BY <1>0, <2>1 DEF Offering, Retrying
  <2>3. Lost' \subseteq Lost
    BY <2>1, <2>2 DEF Lost, Shown
  <2>4. offered' \in {offered, offered \cup {Head(batch)}} /\ dropped' = dropped
    BY <2>1
  <2>5. QED
    BY <1>1, <2>2, <2>3, <2>4
<1>9. ASSUME UNCHANGED <<pc, ev, offered, feed>>
      PROVE  LossCounted'
  BY <1>9 DEF LossCounted, Lost, Shown, Offering, Retrying, feed
<1>10. CASE \/ RenameAway \/ Truncate \/ TailOpen \/ TailStat \/ TailInode \/ TailSize \/ TailRead
            \/ TailDispatch /\ Head(batch).by \in Local
            \/ UNCHANGED vars
  BY <1>9, <1>10 DEF RenameAway, Truncate, TailOpen, TailStat, TailInode, TailSize, TailRead,
                     TailDispatch, vars
<1>11. QED
  BY <1>2, <1>3, <1>4, <1>5, <1>6, <1>7, <1>8, <1>10, NextCases

\* `dropped` tells of every loss once no thread is in _offer: at most two events
\* are lost for each drop it counts (event_bus.py:57).
THEOREM DropsTold == Spec => []DropsCounted
<1>1. Init => LossCounted
  <2> SUFFICES ASSUME Init PROVE LossCounted
    OBVIOUS
  <2>1. Lost = {} /\ Retrying = {} /\ offered = {} /\ dropped = 0
    BY FeedAssumption DEF Init, Lost, Retrying, Thread
  <2>2. QED
    BY <2>1, FS_EmptySet DEF LossCounted
<1>2. Typed /\ LossCounted /\ [Next]_vars => LossCounted'
  BY LossCountedStep
<1>3. Typed /\ LossCounted => DropsCounted
  <2> SUFFICES ASSUME Typed, LossCounted,
                      \A t \in Local \cup {Tailer} : pc[t] \notin {"put", "get", "again"}
               PROVE  Cardinality(offered \ (got \cup {queue[i] : i \in DOMAIN queue}))
                          <= 2 * dropped
    BY DEF DropsCounted
  <2>1. Offering = {} /\ Retrying = {}
    BY DEF Offering, Retrying
  <2>2. Lost = offered \ (got \cup {queue[i] : i \in DOMAIN queue})
    BY <2>1 DEF Lost, Shown, Range
  <2>3. Cardinality(Retrying) = 0
    BY <2>1, FS_EmptySet
  <2>4. QED
    BY <2>2, <2>3 DEF LossCounted, Typed, TypeOK
<1>4. QED
  BY <1>1, <1>2, <1>3, TypedAlways, PTL DEF Spec

--------------------------------------------------------------------------------
(* Once and in order *)

RemoteOf(S) == {e \in S : e.by \in Remote}

AllLines == UNION {Lines(i) : i \in DOMAIN files}
InHand == IF Busy(Tailer) THEN {ev[Tailer]} ELSE {}

\* What the tailer has read: shown, in its hands, or still in its batch.
Passed == Shown \cup InHand \cup Range(batch)

\* The lines it may still read: those after its position and those of later
\* files; those of the file at the path when it has none open; and those of its
\* file if that has become shorter than the position, for it will be reopened.
UnreadAt(i) ==
    {k \in DOMAIN files[i] :
        \/ fh = 0 /\ i = path
        \/ fh # 0 /\ i = fh /\ (k > pos \/ pos > Len(files[i]))
        \/ fh # 0 /\ i > fh}
ToCome == UNION {{files[i][k] : k \in UnreadAt(i)} : i \in DOMAIN files}

\* An event a publisher holds is newer than all of its events that went before.
\* The file it has open is the last that has an event of its.
NewestOwn ==
    \A t \in Local \cup Remote :
        /\ Busy(t) => Below(Shown, {ev[t]})
        /\ pc[t] = "write" =>
              /\ Below(AllLines \cup Passed, {ev[t]})
              /\ \A i \in DOMAIN files : i > at[t] => \A e \in Lines(i) : e.by # t

Numbered ==
    /\ \A e \in AllLines \cup Passed : e.n <= made
    /\ \A t \in Thread : Busy(t) => ev[t].n <= made

FilesOrdered ==
    /\ \A i \in DOMAIN files : Ordered(files[i])
    /\ \A i, j \in DOMAIN files : i < j => Below(Lines(i), Lines(j))

\* What others have published and the tailer has shown, what it has in its
\* hands, the batch, and what it may still read follow one another.
TailOrdered ==
    /\ Ordered(batch)
    /\ Below(Shown, InHand)
    /\ Below(RemoteOf(Shown \cup InHand), Range(batch))
    /\ Below(RemoteOf(Passed), ToCome)

ShownOrdered == Below(got, Range(queue)) /\ Ordered(queue)

Order == NewestOwn /\ Numbered /\ FilesOrdered /\ TailOrdered /\ ShownOrdered

LEMMA ToComeGains ==
    ASSUME NEW new,
           \A i \in DOMAIN files' : \A k \in UnreadAt(i)' :
               \/ files'[i][k] \in new
               \/ i \in DOMAIN files /\ k \in UnreadAt(i) /\ files'[i][k] = files[i][k]
    PROVE  ToCome' \subseteq ToCome \cup new
BY DEF ToCome

LEMMA EventNumber ==
    ASSUME NEW e \in Event
    PROVE  e.n \in Nat
BY FeedAssumption DEF Event

LEMMA SetTypes ==
    ASSUME Typed
    PROVE  /\ DOMAIN files = 1 .. Len(files) /\ Len(files) \in Nat
           /\ \A i \in DOMAIN files : files[i] \in Seq(Event) /\ Lines(i) \subseteq Event
           /\ AllLines \subseteq Event /\ Shown \subseteq Event /\ InHand \subseteq Event
           /\ Range(batch) \subseteq Event /\ Range(queue) \subseteq Event
           /\ Passed \subseteq Event
           /\ ToCome \subseteq AllLines
           /\ made \in Nat
<1> USE DEF Typed
<1>1. /\ files \in Seq(Seq(Event)) /\ batch \in Seq(Event) /\ queue \in Seq(Event)
      /\ got \subseteq Event /\ made \in Nat
  BY FeedAssumption DEF TypeOK
<1>2. DOMAIN files = 1 .. Len(files) /\ Len(files) \in Nat
  BY <1>1, LenProperties
<1>3. \A i \in DOMAIN files : files[i] \in Seq(Event)
  BY <1>1, <1>2, ElementOfSeq
<1>4. \A i \in DOMAIN files : Lines(i) \subseteq Event
  BY <1>3, RangeOf DEF Lines
<1>5. AllLines \subseteq Event
  BY <1>4 DEF AllLines
<1>6. Range(batch) \subseteq Event /\ Range(queue) \subseteq Event
  BY <1>1, RangeOf
<1>7. InHand \subseteq Event
  BY DEF InHand, Shape
<1>8. ToCome \subseteq AllLines
  BY DEF ToCome, AllLines, Lines, UnreadAt
<1>9. QED
  BY <1>1, <1>2, <1>3, <1>4, <1>5, <1>6, <1>7, <1>8 DEF Shown, Passed

\* A step that hands nothing on and publishes nothing; files may lose lines.
LEMMA OrderKept ==
    ASSUME Typed, Order, UNCHANGED <<pc, ev, at, queue, got, batch, made>>,
           Len(files') = Len(files), DOMAIN files' = DOMAIN files,
           \A i \in DOMAIN files : files'[i] \in {files[i], <<>>},
           ToCome' \subseteq ToCome
    PROVE  Order'
<1>1. \A i \in DOMAIN files : Lines(i)' \subseteq Lines(i)
  BY DEF Lines
<1>2. AllLines' \subseteq AllLines
  BY <1>1 DEF AllLines
<1>3. Shown' = Shown /\ InHand' = InHand /\ Passed' = Passed /\ \A t : Busy(t)' = Busy(t)
  BY DEF Shown, InHand, Passed, Busy
<1>4. NewestOwn'
  BY <1>1, <1>2, <1>3 DEF Order, NewestOwn, Below
<1>5. Numbered'
  BY <1>2, <1>3 DEF Order, Numbered
<1>6. FilesOrdered'
  <2>1. \A i \in DOMAIN files : Ordered(files'[i])
    BY DEF Order, FilesOrdered, Ordered
  <2>2. QED
    BY <1>1, <2>1 DEF Order, FilesOrdered, Below
<1>7. TailOrdered' /\ ShownOrdered'
  BY <1>3 DEF Order, TailOrdered, ShownOrdered, Below
<1>8. QED
  BY <1>4, <1>5, <1>6, <1>7 DEF Order

LEMMA OrderRotate ==
    ASSUME Typed, Order, RenameAway \/ Truncate
    PROVE  Order'
<1>1. /\ files \in Seq(Seq(Event)) /\ Len(files) \in Nat /\ DOMAIN files = 1 .. Len(files)
      /\ path \in 1 .. Len(files) /\ fh \in 0 .. Len(files) /\ <<>> \in Seq(Event)
  BY SetTypes, EmptySeq DEF Typed, TypeOK, RenameAway, Truncate
<1>2. /\ UNCHANGED <<pc, ev, at, queue, got, batch, made, fh, pos>>
      /\ \/ path' = 0 /\ files' = files
         \/ path' = path /\ files' = [files EXCEPT ![path] = <<>>]
  BY DEF RenameAway, Truncate, tail, feed
<1>3. /\ Len(files') = Len(files) /\ DOMAIN files' = DOMAIN files
      /\ \A i \in DOMAIN files : files'[i] \in {files[i], <<>>}
  BY <1>1, <1>2, WriteProperties, LenProperties
<1>4. ToCome' \subseteq ToCome
  <2>1. \A i \in DOMAIN files' : \A k \in UnreadAt(i)' : k \in UnreadAt(i) /\ files'[i] = files[i]
    BY <1>1, <1>2, <1>3 DEF UnreadAt
  <2>2. QED
    BY <1>3, <2>1, ToComeGains
<1>5. QED
  BY <1>2, <1>3, <1>4, OrderKept

\* Opening and reopening: what the tailer may read from then on, it might have
\* read before, for it reopens its file only when that has become shorter.
LEMMA OrderOpen ==
    ASSUME Typed, Order, TailOpen \/ TailStat \/ TailInode \/ TailSize
    PROVE  Order'
<1>1. UNCHANGED <<pc, ev, at, queue, got, batch, made, files, path>>
  BY DEF TailOpen, TailStat, TailInode, TailSize, writing, feed
<1>2. /\ Len(files) \in Nat /\ DOMAIN files = 1 .. Len(files)
      /\ fh \in 0 .. Len(files) /\ (path = 0 \/ path = Len(files))
  BY SetTypes DEF Typed, TypeOK, Shape
<1>3. ASSUME NEW i \in DOMAIN files, NEW k \in UnreadAt(i)'
      PROVE  k \in UnreadAt(i)
  <2>1. CASE UNCHANGED <<fh, pos>>
    BY <1>1, <1>3, <2>1 DEF UnreadAt
  <2>2. CASE TailOpen
    <3>1. fh = 0 /\ fh' = path
      BY <2>2 DEF TailOpen, Typed, Shape
    <3>2. QED
      BY <1>1, <1>2, <1>3, <3>1 DEF UnreadAt
  <2>3. CASE Reopen
    <3>1. /\ fh # 0 /\ fh' = 0
          /\ path = fh => tpc = "size" /\ Len(files[fh]) < pos
      <4>1. CASE TailInode
        BY <2>3, <4>1 DEF TailInode, Reopen, Typed, Shape
      <4>2. CASE TailSize
        <5>1. fh # 0 /\ tpc = "size" /\ fh' = 0
          BY <2>3, <4>2 DEF TailSize, Reopen, Typed, Shape
        <5>2. path = 0 \/ ~(Len(files[path]) >= pos)
          BY <4>2, <5>1 DEF TailSize
        <5>3. files[fh] \in Seq(Event) /\ pos \in Nat
          <6>1. fh \in DOMAIN files
            BY <1>2, <5>1
          <6>2. QED
            BY <6>1, SetTypes DEF Typed, TypeOK
        <5>4. Len(files[fh]) \in Nat
          BY <5>3, LenProperties
        <5>5. QED
          BY <5>1, <5>2, <5>3, <5>4
      <4>3. QED
        BY <2>3, <4>1, <4>2 DEF TailOpen, TailStat, Reopen
    <3>2. i = path /\ k \in DOMAIN files[i]
      BY <1>1, <1>2, <1>3, <3>1 DEF UnreadAt
    <3>3. QED
      BY <1>2, <3>1, <3>2 DEF UnreadAt
  <2>4. QED
    BY <2>1, <2>2, <2>3 DEF TailStat, TailInode, TailSize
<1>4. ToCome' \subseteq ToCome
  BY <1>1, <1>3, ToComeGains
<1>5. QED
  BY <1>1, <1>4, OrderKept

LEMMA OrderPublish ==
    ASSUME Typed, Order, NEW t \in Local \cup Remote, Publish(t)
    PROVE  Order'
<1>1. /\ files \in Seq(Seq(Event)) /\ Len(files) \in Nat /\ DOMAIN files = 1 .. Len(files)
      /\ (path = 0 \/ path = Len(files)) /\ fh \in 0 .. Len(files)
      /\ made \in Nat
  BY SetTypes DEF Typed, TypeOK, Shape
<1>2. /\ pc' = [pc EXCEPT ![t] = "write"] /\ ~Busy(t)
      /\ ev' = [ev EXCEPT ![t] = [by |-> t, n |-> made + 1]]
      /\ at' = [at EXCEPT ![t] = Len(files')] /\ made' = made + 1
      /\ path' = Len(files')
      /\ UNCHANGED <<queue, got, batch, fh, pos>>
  BY DEF Publish, Busy, tail, feed
<1>3. /\ DOMAIN files' = 1 .. Len(files') /\ Len(files') \in Nat
      /\ Len(files') = IF path = 0 THEN Len(files) + 1 ELSE Len(files)
      /\ \A i \in 1 .. Len(files) : files'[i] = files[i]
      /\ \A i \in DOMAIN files' : i > Len(files) => files'[i] = <<>>
  <2>1. CASE path = 0
    <3>1. files' = Append(files, <<>>) /\ <<>> \in Seq(Event)
      BY <2>1, EmptySeq DEF Publish
    <3>2. QED
      BY <1>1, <2>1, <3>1, AppendProperties, LenProperties
  <2>2. CASE path # 0
    BY <1>1, <2>2 DEF Publish
  <2>3. QED
    BY <2>1, <2>2
<1>4. /\ \A i \in DOMAIN files : i \in DOMAIN files' /\ Lines(i)' = Lines(i)
      /\ \A i \in DOMAIN files' : i \notin DOMAIN files => Lines(i)' = {}
  <2>1. ASSUME NEW i \in DOMAIN files
        PROVE  i \in DOMAIN files' /\ files'[i] = files[i]
    BY <1>1, <1>3
  <2>2. ASSUME NEW i \in DOMAIN files', i \notin DOMAIN files
        PROVE  files'[i] = <<>>
    BY <1>1, <1>3, <2>2
  <2>3. QED
    BY <2>1, <2>2 DEF Lines
<1>5. AllLines' = AllLines
  BY <1>4 DEF AllLines
<1>6. ToCome' \subseteq ToCome
  <2>1. \A i \in DOMAIN files' : \A k \in UnreadAt(i)' : i \in 1 .. Len(files)
    BY <1>3 DEF UnreadAt
  <2>2. ASSUME NEW i \in 1 .. Len(files), NEW k \in UnreadAt(i)'
        PROVE  k \in UnreadAt(i)
    <3>1. files'[i] = files[i] /\ k \in DOMAIN files[i]
      BY <1>3, <2>2 DEF UnreadAt
    <3>2. CASE fh = 0
      <4>1. i = Len(files')
        BY <1>2, <2>2, <3>2 DEF UnreadAt
      <4>2. i = path
        <5>1. path # 0 /\ Len(files') = Len(files)
          <6>1. Len(files) \in Nat /\ Len(files') = IF path = 0 THEN Len(files) + 1 ELSE Len(files)
            BY <1>1, <1>3
          <6>2. QED
            BY <4>1, <6>1
        <5>2. path = Len(files)
          BY <1>1, <5>1
        <5>3. QED
          BY <4>1, <5>1, <5>2
      <4>3. QED
        BY <3>1, <3>2, <4>2 DEF UnreadAt
    <3>3. CASE fh # 0
      BY <1>2, <2>2, <3>1, <3>3 DEF UnreadAt
    <3>4. QED
      BY <3>2, <3>3
  <2>3. QED
    BY <1>1, <1>3, <2>1, <2>2, ToComeGains
<1>7. /\ t \in Thread /\ t # Tailer /\ Tailer \in Thread
      /\ Local \cup Remote \subseteq Thread
  BY FeedAssumption DEF Thread
<1>8. /\ \A u \in Thread \ {t} : Busy(u)' = Busy(u) /\ ev'[u] = ev[u] /\ pc'[u] = pc[u]
      /\ \A u \in (Local \cup Remote) \ {t} : at'[u] = at[u]
      /\ ev'[t].by = t /\ ev'[t].n = made + 1 /\ at'[t] = Len(files')
  BY <1>2, <1>7 DEF Typed, TypeOK, Busy
<1>9. Shown' = Shown /\ InHand' = InHand /\ Passed' = Passed
  BY <1>2, <1>7, <1>8 DEF Shown, InHand, Passed
<1>10. NewestOwn'
  <2>1. ASSUME NEW e \in AllLines \cup Passed
        PROVE  e.n < made + 1
    <3>1. e.n \in Nat /\ made \in Nat
      BY SetTypes, EventNumber
    <3>2. e.n <= made
      BY DEF Order, Numbered
    <3>3. QED
      BY <3>1, <3>2
  <2>2. /\ Below(Shown', {ev'[t]}) /\ Below(AllLines' \cup Passed', {ev'[t]})
    BY <1>5, <1>8, <1>9, <2>1 DEF Below, Passed
  <2>3. \A i \in DOMAIN files' : ~(i > at'[t])
    BY <1>3, <1>8
  <2>4. ASSUME NEW u \in (Local \cup Remote) \ {t}
        PROVE  /\ Busy(u)' => Below(Shown', {ev'[u]})
               /\ pc'[u] = "write" =>
                     /\ Below(AllLines' \cup Passed', {ev'[u]})
                     /\ \A i \in DOMAIN files' : i > at'[u] => \A e \in Lines(i)' : e.by # u
    <3>1. Busy(u)' = Busy(u) /\ ev'[u] = ev[u] /\ pc'[u] = pc[u] /\ at'[u] = at[u]
      BY <1>7, <1>8
    <3>2. QED
      BY <1>4, <1>5, <1>9, <3>1 DEF Order, NewestOwn
  <2>5. QED
    BY <2>2, <2>3, <2>4 DEF NewestOwn
<1>11. Numbered'
  <2>1. ASSUME NEW e \in AllLines \cup Passed
        PROVE  e.n <= made + 1
    <3>1. e.n \in Nat /\ made \in Nat
      BY SetTypes, EventNumber
    <3>2. e.n <= made
      BY DEF Order, Numbered
    <3>3. QED
      BY <3>1, <3>2
  <2>2. ASSUME NEW u \in Thread, Busy(u)'
        PROVE  ev'[u].n <= made + 1
    <3>0. made \in Nat
      BY <1>1
    <3>1. CASE u = t
      BY <1>8, <3>0, <3>1
    <3>2. CASE u # t
      <4>1. ev'[u] = ev[u] /\ ev[u] \in Event /\ ev[u].n <= made
        BY <1>8, <2>2, <3>2 DEF Order, Numbered, Typed, Shape, Thread
      <4>2. ev[u].n \in Nat
        BY <4>1, EventNumber
      <4>3. QED
        BY <3>0, <4>1, <4>2
    <3>3. QED
      BY <3>1, <3>2
  <2>3. QED
    BY <1>2, <1>5, <1>9, <2>1, <2>2 DEF Numbered
<1>12. FilesOrdered'
  <2>1. ASSUME NEW i \in DOMAIN files'
        PROVE  Ordered(files'[i])
    <3>1. CASE i \in DOMAIN files
      BY <1>1, <1>3, <3>1 DEF Order, FilesOrdered
    <3>2. CASE i \notin DOMAIN files
      <4>1. files'[i] = <<>>
        BY <1>1, <1>3, <3>2
      <4>2. QED
        BY <4>1 DEF Ordered
    <3>3. QED
      BY <3>1, <3>2
  <2>2. \A i, j \in DOMAIN files' : i < j => Below(Lines(i)', Lines(j)')
    BY <1>4 DEF Order, FilesOrdered, Below
  <2>3. QED
    BY <2>1, <2>2 DEF FilesOrdered
<1>13. TailOrdered' /\ ShownOrdered'
  BY <1>2, <1>6, <1>9 DEF Order, TailOrdered, ShownOrdered, Below
<1>14. QED
  BY <1>10, <1>11, <1>12, <1>13 DEF Order

LEMMA OrderWrite ==
    ASSUME Typed, Order, NEW t \in Local \cup Remote, Write(t)
    PROVE  Order'
<1>1. /\ ev[t] \in Event /\ ev[t].by = t /\ pc[t] = "write"
      /\ at[t] \in 1 .. Len(files) /\ Len(files) \in Nat
      /\ files[at[t]] \in Seq(Event) /\ files'[at[t]] = Append(files[at[t]], ev[t])
      /\ files' \in Seq(Seq(Event)) /\ Len(files') = Len(files)
      /\ \A i \in 1 .. Len(files) : i # at[t] => files'[i] = files[i]
  BY WriteFiles
<1>2. DOMAIN files = 1 .. Len(files) /\ DOMAIN files' = DOMAIN files
  BY <1>1, SetTypes, LenProperties
<1>3. /\ UNCHANGED <<made, path, queue, got, batch, fh, pos>>
      /\ at' = [at EXCEPT ![t] = 0]
      /\ \/ pc' = [pc EXCEPT ![t] = "put"] /\ UNCHANGED ev
         \/ pc' = [pc EXCEPT ![t] = "idle"] /\ ev' = [ev EXCEPT ![t] = NoEvent]
  BY DEF Write, tail, feed
<1>4. /\ t \in Thread /\ t # Tailer /\ Tailer \in Thread
      /\ Local \cup Remote \subseteq Thread
  BY FeedAssumption DEF Thread
<1>5. /\ \A u \in Thread \ {t} : Busy(u)' = Busy(u) /\ ev'[u] = ev[u] /\ pc'[u] = pc[u]
      /\ \A u \in (Local \cup Remote) \ {t} : at'[u] = at[u]
      /\ pc'[t] # "write" /\ (Busy(t)' => ev'[t] = ev[t]) /\ Busy(t)
  BY <1>1, <1>3, <1>4 DEF Typed, TypeOK, Busy
<1>6. Shown' = Shown /\ InHand' = InHand /\ Passed' = Passed
  BY <1>3, <1>4, <1>5 DEF Shown, InHand, Passed
<1>7. \A i \in DOMAIN files :
          Lines(i)' = IF i = at[t] THEN Lines(i) \cup {ev[t]} ELSE Lines(i)
  <2>1. Range(files'[at[t]]) = Range(files[at[t]]) \cup {ev[t]}
    BY <1>1, AppendRange
  <2>2. \A i \in DOMAIN files : Lines(i) = Range(files[i]) /\ Lines(i)' = Range(files'[i])
    BY DEF Lines, Range
  <2>3. QED
    BY <1>1, <1>2, <2>1, <2>2
<1>8. AllLines' = AllLines \cup {ev[t]}
  <2>1. at[t] \in DOMAIN files
    BY <1>1, <1>2
  <2>2. QED
    BY <1>2, <1>7, <2>1 DEF AllLines
<1>9. ToCome' \subseteq ToCome \cup {ev[t]}
  <2>1. ASSUME NEW i \in DOMAIN files, NEW k \in UnreadAt(i)'
        PROVE  files'[i][k] = ev[t] \/ (k \in UnreadAt(i) /\ files'[i][k] = files[i][k])
    <3>1. CASE i # at[t]
      BY <1>1, <1>2, <1>3, <2>1, <3>1 DEF UnreadAt
    <3>2. CASE i = at[t]
      <4>1. /\ Len(files[i]) \in Nat /\ DOMAIN files[i] = 1 .. Len(files[i])
            /\ DOMAIN files'[i] = 1 .. Len(files[i]) + 1
            /\ Len(files'[i]) = Len(files[i]) + 1
            /\ files'[i][Len(files[i]) + 1] = ev[t]
            /\ \A j \in 1 .. Len(files[i]) : files'[i][j] = files[i][j]
        <5>1. files[i] \in Seq(Event) /\ files'[i] = Append(files[i], ev[t]) /\ ev[t] \in Event
          BY <1>1, <3>2
        <5>2. files'[i] \in Seq(Event)
          BY <5>1, AppendProperties
        <5>3. QED
          BY <5>1, <5>2, AppendProperties, LenProperties
      <4>2. pos \in Nat
        BY DEF Typed, TypeOK
      <4>3. CASE k = Len(files[i]) + 1
        BY <4>1, <4>3
      <4>4. CASE k # Len(files[i]) + 1
        BY <1>3, <2>1, <4>1, <4>2, <4>4 DEF UnreadAt
      <4>5. QED
        BY <4>3, <4>4
    <3>3. QED
      BY <3>1, <3>2
  <2>2. QED
    BY <1>2, <2>1, ToComeGains
<1>10. Below(AllLines \cup Passed, {ev[t]}) /\ \A i \in DOMAIN files : i > at[t] => \A e \in Lines(i) : e.by # t
  BY <1>1 DEF Order, NewestOwn
<1>11. NewestOwn'
  <2>1. Busy(t)' => Below(Shown', {ev'[t]})
    BY <1>5, <1>6 DEF Order, NewestOwn
  <2>2. ASSUME NEW u \in (Local \cup Remote) \ {t}
        PROVE  /\ Busy(u)' => Below(Shown', {ev'[u]})
               /\ pc'[u] = "write" =>
                     /\ Below(AllLines' \cup Passed', {ev'[u]})
                     /\ \A i \in DOMAIN files' : i > at'[u] => \A e \in Lines(i)' : e.by # u
    <3>1. Busy(u)' = Busy(u) /\ ev'[u] = ev[u] /\ pc'[u] = pc[u] /\ at'[u] = at[u]
      BY <1>4, <1>5
    <3>2. Busy(u)' => Below(Shown', {ev'[u]})
      BY <1>6, <3>1 DEF Order, NewestOwn
    <3>3. ASSUME pc[u] = "write"
          PROVE  /\ Below(AllLines' \cup Passed', {ev'[u]})
                 /\ \A i \in DOMAIN files' : i > at'[u] => \A e \in Lines(i)' : e.by # u
      <4>1. /\ ev[u].by = u /\ Below(AllLines \cup Passed, {ev[u]})
            /\ \A i \in DOMAIN files : i > at[u] => \A e \in Lines(i) : e.by # u
        BY <3>3 DEF Order, NewestOwn, Typed, Shape, Busy
      <4>2. Below(AllLines' \cup Passed', {ev'[u]})
        BY <1>1, <1>6, <1>8, <3>1, <4>1 DEF Below
      <4>3. \A i \in DOMAIN files' : i > at'[u] => \A e \in Lines(i)' : e.by # u
        BY <1>1, <1>2, <1>7, <3>1, <4>1
      <4>4. QED
        BY <4>2, <4>3
    <3>4. QED
      BY <3>1, <3>2, <3>3
  <2>3. QED
    BY <1>5, <2>1, <2>2 DEF NewestOwn
<1>12. Numbered'
  BY <1>1, <1>3, <1>4, <1>5, <1>6, <1>8 DEF Order, Numbered
<1>13. FilesOrdered'
  <2>1. Ordered(files'[at[t]])
    <3>1. Below(Range(files[at[t]]), {ev[t]})
      BY <1>1, <1>2, <1>10 DEF Below, AllLines, Lines, Range
    <3>2. Ordered(files[at[t]])
      BY <1>1, <1>2 DEF Order, FilesOrdered
    <3>3. QED
      BY <1>1, <3>1, <3>2, OrderedAppend
  <2>2. \A i \in DOMAIN files' : Ordered(files'[i])
    BY <1>1, <1>2, <2>1 DEF Order, FilesOrdered
  <2>3. ASSUME NEW i \in DOMAIN files, NEW j \in DOMAIN files, i < j
        PROVE  Below(Lines(i)', Lines(j)')
    <3>1. Below(Lines(i), Lines(j)) /\ i # j
      BY <1>2, <2>3 DEF Order, FilesOrdered
    <3>2. Below(Lines(i), {ev[t]})
      BY <1>10 DEF Below, AllLines
    <3>3. i = at[t] => Below({ev[t]}, Lines(j))
      BY <1>1, <1>2, <1>10, <2>3 DEF Below
    <3>4. CASE i = at[t]
      BY <1>7, <3>1, <3>3, <3>4 DEF Below
    <3>5. CASE i # at[t]
      BY <1>7, <3>1, <3>2, <3>5 DEF Below
    <3>6. QED
      BY <3>4, <3>5
  <2>4. QED
    BY <1>2, <2>2, <2>3 DEF FilesOrdered
<1>14. TailOrdered' /\ ShownOrdered'
  BY <1>3, <1>6, <1>9, <1>10 DEF Order, TailOrdered, ShownOrdered, Below, RemoteOf
<1>15. QED
  BY <1>11, <1>12, <1>13, <1>14 DEF Order

\* One thread of _offer: its event joins what is shown, or the oldest goes.
LEMMA OrderOffer ==
    ASSUME Typed, Order, NEW t \in Local \cup {Tailer}, Put(t) \/ Get(t) \/ PutAgain(t)
    PROVE  Order'
<1>1. /\ t \in Thread /\ Tailer \in Thread /\ Local \cup Remote \subseteq Thread
      /\ t \notin Remote /\ Tailer \notin Local \cup Remote
      /\ Busy(t) /\ pc[t] # "write" /\ pc'[t] # "write"
  BY FeedAssumption DEF Thread, Put, Get, PutAgain, Offered, Busy, Typed, TypeOK
<1>2. /\ UNCHANGED <<made, files, path, at, got, batch, fh, pos>>
      /\ \/ pc' = [pc EXCEPT ![t] = "idle"] /\ ev' = [ev EXCEPT ![t] = NoEvent]
         \/ \E label \in {"get", "again"} : pc' = [pc EXCEPT ![t] = label] /\ UNCHANGED ev
  BY DEF Put, Get, PutAgain, Offered, writing, tail
<1>3. /\ \A u \in Thread \ {t} : Busy(u)' = Busy(u) /\ ev'[u] = ev[u] /\ pc'[u] = pc[u]
      /\ Busy(t)' => ev'[t] = ev[t]
      /\ \A u \in Thread : Busy(u)' => Busy(u) /\ ev'[u] = ev[u]
  BY <1>1, <1>2 DEF Typed, TypeOK, Busy
<1>4. ev[t] \in Event /\ queue \in Seq(Event)
  BY <1>1 DEF Typed, TypeOK, Shape
<1>5. /\ AllLines' = AllLines /\ \A i \in DOMAIN files : Lines(i)' = Lines(i)
  BY <1>2 DEF AllLines, Lines
<1>6. ToCome' = ToCome
  BY <1>2 DEF ToCome, UnreadAt
<1>7. Below(Shown, {ev[t]})
  BY <1>1 DEF Order, NewestOwn, TailOrdered, InHand
<1>8. \/ queue' = queue
      \/ queue' = Append(queue, ev[t]) /\ ~Busy(t)'
      \/ queue # <<>> /\ queue' = Tail(queue)
  <2>1. Offered(t) => ~Busy(t)'
    BY <1>1 DEF Offered, Busy, Typed, TypeOK
  <2>2. CASE Put(t) \/ PutAgain(t)
    BY <2>1, <2>2 DEF Put, PutAgain
  <2>3. CASE Get(t)
    BY <2>3 DEF Get
  <2>4. QED
    BY <2>2, <2>3
<1>9. ShownOrdered' /\ Shown' \subseteq Shown \cup {ev[t]} /\ (Busy(t)' => Shown' \subseteq Shown)
  <2>1. CASE queue' = queue
    BY <1>2, <2>1 DEF Order, ShownOrdered, Shown
  <2>2. CASE queue' = Append(queue, ev[t]) /\ ~Busy(t)'
    <3>1. Range(queue') = Range(queue) \cup {ev[t]}
      BY <1>4, <2>2, AppendRange
    <3>2. Below(got, {ev[t]}) /\ Below(Range(queue), {ev[t]})
      BY <1>7 DEF Below, Shown
    <3>3. Ordered(queue')
      BY <1>4, <2>2, <3>2, OrderedAppend DEF Order, ShownOrdered
    <3>4. Below(got', Range(queue'))
      BY <1>2, <3>1, <3>2 DEF Order, ShownOrdered, Below
    <3>5. QED
      BY <1>2, <2>2, <3>1, <3>3, <3>4 DEF ShownOrdered, Shown
  <2>3. CASE queue # <<>> /\ queue' = Tail(queue)
    <3>1. Range(queue') \subseteq Range(queue)
      BY <1>4, <2>3, TailRange
    <3>2. Ordered(queue')
      BY <1>4, <2>3, OrderedTail DEF Order, ShownOrdered
    <3>3. QED
      BY <1>2, <3>1, <3>2 DEF Order, ShownOrdered, Shown, Below
  <2>4. QED
    BY <1>8, <2>1, <2>2, <2>3
<1>10. InHand' \subseteq InHand /\ (t = Tailer => InHand = {ev[t]})
  BY <1>1, <1>3 DEF InHand
<1>11. Passed' \subseteq Passed \cup {ev[t]} /\ (t = Tailer => Passed' \subseteq Passed)
  BY <1>2, <1>9, <1>10 DEF Passed
<1>12. NewestOwn'
  <2> SUFFICES ASSUME NEW u \in Local \cup Remote, Busy(u)'
               PROVE  /\ Below(Shown', {ev'[u]})
                      /\ pc'[u] = "write" =>
                            /\ Below(AllLines' \cup Passed', {ev'[u]})
                            /\ \A i \in DOMAIN files' : i > at'[u] => \A e \in Lines(i)' : e.by # u
    BY <1>3 DEF NewestOwn, Busy
  <2>1. /\ u \in Thread /\ Busy(u) /\ ev'[u] = ev[u] /\ ev[u].by = u /\ u # Tailer
        /\ Below(Shown, {ev[u]})
    BY <1>1, <1>3 DEF Order, NewestOwn, Typed, Shape
  <2>2. CASE u = t
    BY <1>1, <1>3, <1>9, <2>1, <2>2 DEF Below
  <2>3. CASE u # t
    <3>1. pc'[u] = pc[u] /\ at'[u] = at[u]
      BY <1>2, <1>3, <2>1, <2>3
    <3>2. Below({ev[t]}, {ev[u]})
      <4>1. CASE t = Tailer
        <5>1. ev[t].by \in Remote
          BY <1>1, <4>1 DEF Typed, Shape
        <5>2. u \in Remote => pc[u] = "write"
          BY <2>1 DEF Typed, Shape, Busy
        <5>3. u \in Remote => Below(Passed, {ev[u]})
          BY <5>2 DEF Order, NewestOwn, Below
        <5>4. ev[t] \in Passed
          BY <1>10, <4>1 DEF Passed
        <5>5. QED
          BY <2>1, <5>1, <5>3, <5>4 DEF Below
      <4>2. CASE t # Tailer
        <5>1. ev[t].by = t
          BY <1>1, <4>2 DEF Typed, Shape
        <5>2. QED
          BY <2>1, <2>3, <5>1 DEF Below
      <4>3. QED
        BY <4>1, <4>2
    <3>3. Below(Shown', {ev'[u]})
      BY <1>9, <2>1, <3>2 DEF Below
    <3>4. ASSUME pc[u] = "write"
          PROVE  Below(AllLines' \cup Passed', {ev'[u]})
      <4>1. Below(AllLines \cup Passed, {ev[u]})
        BY <3>4 DEF Order, NewestOwn
      <4>2. QED
        BY <1>5, <1>11, <2>1, <3>2, <4>1 DEF Below
    <3>5. QED
      BY <1>2, <1>5, <3>1, <3>3, <3>4 DEF Order, NewestOwn
  <2>4. QED
    BY <2>2, <2>3
<1>13. Numbered'
  <2>1. ev[t].n <= made
    BY <1>1 DEF Order, Numbered
  <2>2. QED
    BY <1>2, <1>3, <1>5, <1>11, <2>1 DEF Order, Numbered
<1>14. FilesOrdered'
  BY <1>2, <1>5 DEF Order, FilesOrdered
<1>15. TailOrdered'
  <2>1. t # Tailer => ev[t].by \notin Remote
    BY <1>1, FeedAssumption DEF Typed, Shape
  <2>2. RemoteOf(Shown' \cup InHand') \subseteq RemoteOf(Shown \cup InHand)
    BY <1>9, <1>10, <2>1 DEF RemoteOf
  <2>3. RemoteOf(Passed') \subseteq RemoteOf(Passed)
    BY <1>11, <2>1 DEF RemoteOf
  <2>4. Below(Shown', InHand')
    <3>1. CASE t = Tailer
      BY <1>1, <1>3, <1>7, <1>9, <3>1 DEF InHand, Below
    <3>2. CASE t # Tailer
      <4>1. \A e \in InHand : e.by \in Remote
        BY DEF InHand, Typed, Shape
      <4>2. Below({ev[t]}, InHand)
        BY <1>1, <3>2, <4>1, FeedAssumption DEF Below, Typed, Shape
      <4>3. QED
        BY <1>9, <1>10, <4>2 DEF Order, TailOrdered, Below
    <3>3. QED
      BY <3>1, <3>2
  <2>5. QED
    BY <1>2, <1>6, <2>2, <2>3, <2>4 DEF Order, TailOrdered, Below
<1>16. QED
  BY <1>9, <1>12, <1>13, <1>14, <1>15 DEF Order

LEMMA OrderConsume ==
    ASSUME Typed, Order, Consume
    PROVE  Order'
<1>1. /\ queue # <<>> /\ queue \in Seq(Event)
      /\ got' = got \cup {Head(queue)} /\ queue' = Tail(queue)
      /\ UNCHANGED <<made, files, path, at, pc, ev, batch, fh, pos>>
  BY DEF Consume, Typed, TypeOK, writing, tail
<1>2. Range(queue) = {Head(queue)} \cup Range(queue')
  BY <1>1, TailRange
<1>3. /\ Shown' = Shown /\ InHand' = InHand /\ Passed' = Passed /\ \A t : Busy(t)' = Busy(t)
  BY <1>1, <1>2 DEF Shown, InHand, Passed, Busy
<1>4. /\ AllLines' = AllLines /\ ToCome' = ToCome /\ \A i : Lines(i)' = Lines(i)
  BY <1>1 DEF AllLines, Lines, ToCome, UnreadAt
<1>5. NewestOwn'
  BY <1>1, <1>3, <1>4 DEF Order, NewestOwn
<1>6. Numbered'
  BY <1>1, <1>3, <1>4 DEF Order, Numbered
<1>7. FilesOrdered' /\ TailOrdered'
  BY <1>1, <1>3, <1>4 DEF Order, FilesOrdered, TailOrdered
<1>8. ShownOrdered'
  BY <1>1, <1>2, OrderedTail DEF Order, ShownOrdered, Below
<1>9. QED
  BY <1>5, <1>6, <1>7, <1>8 DEF Order

LEMMA OrderRead ==
    ASSUME Typed, Order, TailRead
    PROVE  Order'
<1>1. /\ fh \in 1 .. Len(files) /\ files[fh] \in Seq(Event) /\ batch = <<>>
      /\ UNCHANGED <<fh, made, files, path, at, pc, ev, queue, got>>
  BY ReadBatch DEF writing, feed
<1>2. CASE UNCHANGED <<pos, batch>>
  <2>1. ToCome' = ToCome
    BY <1>1, <1>2 DEF ToCome, UnreadAt
  <2>2. QED
    BY <1>1, <1>2, <2>1, OrderKept
<1>3. ASSUME NEW n \in pos + 1 .. Len(files[fh]), pos' = n,
             batch' \in Seq(Event), Len(batch') = n - pos,
             \A i \in 1 .. n - pos : batch'[i] = files[fh][pos + i]
      PROVE  Order'
  <2>1. /\ pos \in Nat /\ Len(files[fh]) \in Nat /\ DOMAIN files[fh] = 1 .. Len(files[fh])
        /\ DOMAIN files = 1 .. Len(files) /\ Len(files) \in Nat /\ DOMAIN batch' = 1 .. n - pos
    BY <1>1, <1>3, SetTypes, LenProperties DEF Typed, TypeOK
  <2>2. ASSUME NEW i \in 1 .. n - pos
        PROVE  /\ pos + i \in UnreadAt(fh) /\ pos + i \in pos + 1 .. n
               /\ batch'[i] = files[fh][pos + i]
    BY <1>1, <1>3, <2>1 DEF UnreadAt
  <2>3. Range(batch') \subseteq ToCome
    BY <1>1, <2>1, <2>2 DEF Range, ToCome
  <2>4. ASSUME NEW i \in DOMAIN files, NEW k \in UnreadAt(i)'
        PROVE  k \in UnreadAt(i) /\ ((i = fh /\ k > n) \/ i > fh)
    BY <1>1, <1>3, <2>1, <2>4 DEF UnreadAt
  <2>5. ToCome' \subseteq ToCome
    BY <1>1, <2>4, ToComeGains
  <2>6. Below(Range(batch'), ToCome')
    <3>1. ASSUME NEW i \in 1 .. n - pos, NEW j \in DOMAIN files, NEW k \in UnreadAt(j)',
                 files[fh][pos + i].by = files[j][k].by
          PROVE  files[fh][pos + i].n < files[j][k].n
      <4>1. pos + i \in DOMAIN files[fh] /\ k \in DOMAIN files[j] /\ fh \in DOMAIN files
        BY <1>1, <2>1, <2>2, <2>4, <3>1 DEF UnreadAt
      <4>2. CASE j = fh /\ k > n
        <5>1. pos + i < k
          BY <2>1, <2>2, <3>1, <4>1, <4>2
        <5>2. Ordered(files[fh])
          BY <4>1 DEF Order, FilesOrdered
        <5>3. QED
          BY <3>1, <4>1, <4>2, <5>1, <5>2 DEF Ordered
      <4>3. CASE j > fh
        <5>1. Below(Lines(fh), Lines(j))
          BY <4>1, <4>3 DEF Order, FilesOrdered
        <5>2. files[fh][pos + i] \in Lines(fh) /\ files[j][k] \in Lines(j)
          BY <4>1 DEF Lines
        <5>3. QED
          BY <3>1, <5>1, <5>2 DEF Below
      <4>4. QED
        BY <2>4, <3>1, <4>2, <4>3
    <3>2. \A e \in Range(batch') : \E i \in 1 .. n - pos : e = files[fh][pos + i]
      BY <2>1, <2>2 DEF Range
    <3>3. \A e \in ToCome' : \E j \in DOMAIN files : \E k \in UnreadAt(j)' : e = files[j][k]
      BY <1>1 DEF ToCome
    <3>4. QED
      BY <3>1, <3>2, <3>3 DEF Below
  <2>7. Ordered(batch')
    <3>1. Ordered(files[fh])
      BY <1>1, <2>1 DEF Order, FilesOrdered
    <3>2. ASSUME NEW i \in 1 .. n - pos, NEW j \in 1 .. n - pos, i < j
          PROVE  pos + i < pos + j /\ pos + i \in DOMAIN files[fh] /\ pos + j \in DOMAIN files[fh]
      BY <1>3, <2>1, <2>2, <3>2
    <3>3. QED
      BY <2>1, <2>2, <3>1, <3>2 DEF Ordered
  <2>8. /\ Shown' = Shown /\ InHand' = InHand /\ AllLines' = AllLines
        /\ \A i : Lines(i)' = Lines(i) /\ \A t : Busy(t)' = Busy(t)
    BY <1>1 DEF Shown, InHand, AllLines, Lines, Busy
  <2>9. /\ Range(batch) = {} /\ Passed = Shown \cup InHand
        /\ Passed' = Shown \cup InHand \cup Range(batch')
        /\ AllLines' \cup Passed' \subseteq AllLines \cup Passed
    BY <1>1, <2>3, <2>8, SetTypes DEF Passed, Range
  <2>10. NewestOwn'
    BY <1>1, <2>8, <2>9 DEF Order, NewestOwn, Below
  <2>11. Numbered'
    BY <1>1, <2>8, <2>9 DEF Order, Numbered
  <2>12. TailOrdered'
    <3>1. Below(RemoteOf(Shown \cup InHand), Range(batch'))
      BY <2>3, <2>9 DEF Order, TailOrdered, Below
    <3>2. Below(RemoteOf(Passed'), ToCome')
      BY <2>5, <2>6, <2>9 DEF Order, TailOrdered, Below, RemoteOf
    <3>3. QED
      BY <2>7, <2>8, <3>1, <3>2 DEF Order, TailOrdered
  <2>13. FilesOrdered' /\ ShownOrdered'
    BY <1>1, <2>8 DEF Order, FilesOrdered, ShownOrdered
  <2>14. QED
    BY <2>10, <2>11, <2>12, <2>13 DEF Order
<1>4. QED
  BY <1>2, <1>3, ReadBatch

LEMMA OrderDispatch ==
    ASSUME Typed, Order, TailDispatch
    PROVE  Order'
<1>1. /\ batch # <<>> /\ batch \in Seq(Event) /\ batch' = Tail(batch) /\ ~Busy(Tailer)
      /\ UNCHANGED <<fh, pos, made, files, path, at, queue, got>>
  BY DEF TailDispatch, Typed, TypeOK, Shape, Busy, writing, feed
<1>2. Range(batch) = {Head(batch)} \cup Range(batch') /\ Head(batch) \in Event
  BY <1>1, TailRange
<1>3. Ordered(batch') /\ Below({Head(batch)}, Range(batch'))
  BY <1>1, OrderedTail DEF Order, TailOrdered
<1>4. /\ Shown' = Shown /\ AllLines' = AllLines /\ ToCome' = ToCome
      /\ \A i : Lines(i)' = Lines(i) /\ InHand = {}
  BY <1>1 DEF Shown, AllLines, Lines, ToCome, UnreadAt, InHand
<1>5. /\ Tailer \in Thread /\ Tailer \notin Local \cup Remote
      /\ Local \cup Remote \subseteq Thread
  BY FeedAssumption DEF Thread
<1>6. /\ \A u \in Thread \ {Tailer} : Busy(u)' = Busy(u) /\ ev'[u] = ev[u] /\ pc'[u] = pc[u]
      /\ \/ UNCHANGED <<pc, ev>> /\ Head(batch).by \in Local
         \/ ev'[Tailer] = Head(batch) /\ Head(batch).by \in Remote
  <2>1. CASE Head(batch).by \in Local
    BY <2>1 DEF TailDispatch, Busy
  <2>2. CASE Head(batch).by \notin Local
    BY <1>2, <1>5, <2>2 DEF TailDispatch, Busy, Typed, TypeOK, Event
  <2>3. QED
    BY <2>1, <2>2
<1>7. /\ InHand' \subseteq {Head(batch)} /\ (InHand' # {} => Head(batch).by \in Remote)
      /\ (Busy(Tailer)' => ev'[Tailer] = Head(batch))
  BY <1>1, <1>6 DEF InHand, Busy
<1>8. Passed' \subseteq Passed
  BY <1>2, <1>4, <1>7 DEF Passed
<1>9. NewestOwn'
  <2>1. \A u \in Local \cup Remote : Busy(u)' = Busy(u) /\ ev'[u] = ev[u] /\ pc'[u] = pc[u]
    BY <1>5, <1>6
  <2>2. QED
    BY <1>1, <1>4, <1>8, <2>1 DEF Order, NewestOwn, Below
<1>10. Numbered'
  <2>1. Head(batch).n <= made
    BY <1>2 DEF Order, Numbered, Passed
  <2>2. \A u \in Thread : Busy(u)' => ev'[u].n <= made
    BY <1>5, <1>6, <1>7, <2>1 DEF Order, Numbered
  <2>3. QED
    BY <1>1, <1>4, <1>8, <2>2 DEF Order, Numbered
<1>11. FilesOrdered' /\ ShownOrdered'
  BY <1>1, <1>4 DEF Order, FilesOrdered, ShownOrdered
<1>12. TailOrdered'
  <2>1. Below(Shown', InHand')
    BY <1>2, <1>4, <1>7 DEF Order, TailOrdered, Below, RemoteOf
  <2>2. Below(RemoteOf(Shown' \cup InHand'), Range(batch'))
    BY <1>2, <1>3, <1>4, <1>7 DEF Order, TailOrdered, Below, RemoteOf
  <2>3. Below(RemoteOf(Passed'), ToCome')
    BY <1>4, <1>8 DEF Order, TailOrdered, Below, RemoteOf
  <2>4. QED
    BY <1>3, <2>1, <2>2, <2>3 DEF TailOrdered
<1>13. QED
  BY <1>9, <1>10, <1>11, <1>12 DEF Order

LEMMA OrderStep ==
    ASSUME Typed, Order, [Next]_vars
    PROVE  Order'
<1>1. CASE UNCHANGED vars
  <2>1. UNCHANGED <<pc, ev, at, queue, got, batch, made, files, path, fh, pos>>
    BY <1>1 DEF vars, writing, tail, feed
  <2>2. ToCome' = ToCome
    BY <2>1 DEF ToCome, UnreadAt
  <2>3. QED
    BY <2>1, <2>2, OrderKept
<1>2. QED
  BY <1>1, NextCases, OrderPublish, OrderWrite, OrderOffer, OrderConsume, OrderRotate,
     OrderOpen, OrderRead, OrderDispatch

\* The browser sees each publisher's events once and in order, although the
\* server's threads and its tailer race for the queue (event_bus.py:57), the
\* server's own events are in the file it tails (event_log.py:256), and the file
\* may be renamed or truncated at any time (event_log.py:195).
THEOREM InOrder == Spec => []OnceAndInOrder
<1>1. Init => Order
  <2> SUFFICES ASSUME Init PROVE Order
    OBVIOUS
  <2>1. /\ \A t \in Thread : ~Busy(t)
        /\ Local \cup Remote \subseteq Thread /\ Tailer \in Thread
    BY DEF Init, Busy, Thread
  <2>2. /\ got = {} /\ queue = <<>> /\ batch = <<>> /\ \A i \in DOMAIN files : files[i] = <<>>
    BY DEF Init
  <2>3. Range(queue) = {} /\ Range(batch) = {} /\ \A i \in DOMAIN files : Lines(i) = {}
    BY <2>2 DEF Range, Lines
  <2>4. /\ Shown = {} /\ InHand = {} /\ Passed = {} /\ AllLines = {}
        /\ Ordered(queue) /\ Ordered(batch) /\ \A i \in DOMAIN files : Ordered(files[i])
    BY <2>1, <2>2, <2>3 DEF Shown, InHand, Passed, AllLines, Ordered
  <2>5. NewestOwn /\ Numbered
    BY <2>1, <2>4 DEF NewestOwn, Numbered, Busy
  <2>6. FilesOrdered /\ TailOrdered /\ ShownOrdered
    BY <2>2, <2>3, <2>4 DEF FilesOrdered, TailOrdered, ShownOrdered, Below, RemoteOf
  <2>7. QED
    BY <2>5, <2>6 DEF Order
<1>2. Typed /\ Order /\ [Next]_vars => Order'
  BY OrderStep
<1>3. Typed /\ Order => OnceAndInOrder
  <2> SUFFICES ASSUME Typed, Order, NEW j \in DOMAIN queue,
                      NEW e \in got \cup {queue[i] : i \in 1 .. j - 1}, e.by = queue[j].by
               PROVE  e.n < queue[j].n
    BY DEF OnceAndInOrder
  <2>1. DOMAIN queue = 1 .. Len(queue) /\ Len(queue) \in Nat
    BY LenProperties DEF Typed, TypeOK
  <2>2. CASE e \in got
    BY <2>2 DEF Order, ShownOrdered, Below, Range
  <2>3. CASE \E i \in 1 .. j - 1 : e = queue[i]
    BY <2>1, <2>3 DEF Order, ShownOrdered, Ordered
  <2>4. QED
    BY <2>2, <2>3
<1>4. QED
  BY <1>1, <1>2, <1>3, TypedAlways, PTL DEF Spec
================================================================================

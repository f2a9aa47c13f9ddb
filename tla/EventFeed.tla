------------------------------- MODULE EventFeed -------------------------------
(***************************************************************************)
(* The live feed of the graph view: event_bus.py and event_log.py, as      *)
(* server._start_event_log_bridge puts them together.                      *)
(*                                                                         *)
(* Threads of the server (Local) publish events to the queue of a browser  *)
(* and to events.jsonl.  Other processes (Remote), such as                 *)
(* `neuralmind watch`, publish to events.jsonl only.  The server's tailer  *)
(* thread polls that file and puts the lines of others in the queue, so    *)
(* it and the server's own threads race for the queue's slots.  Anybody    *)
(* may rename the file away or truncate it.                                *)
(*                                                                         *)
(* Abstractions: a line is an event and counts one in positions and sizes; *)
(* there is one subscription, open throughout; a file that was renamed     *)
(* away keeps its inode, so inodes, numbered in the order they appear, are *)
(* not reused.  Write errors and lines too long to be read are left out.   *)
(***************************************************************************)
EXTENDS Integers, Sequences, FiniteSets

CONSTANTS Local,        \* threads of the server that publish
          Remote,       \* threads of other processes that publish
          Tailer,       \* the server's tailer thread
          QueueSize,    \* max_queue
          MaxEvents,    \* bound: events published
          MaxRotations  \* bound: times the file is renamed away or truncated

ASSUME FeedAssumption ==
    /\ Local \cap Remote = {} /\ Tailer \notin Local \cup Remote
    /\ QueueSize \in Nat \ {0}
    /\ MaxEvents \in Nat /\ MaxRotations \in Nat

VARIABLES made,       \* number of events published
          rotations,
          files,      \* by inode, the lines of every events.jsonl there has been
          path,       \* the inode of events.jsonl, 0 when there is none
          pc, ev,     \* per thread: its next step, and the event in its hands
          at,         \* the inode a writer has open
          tpc, fh, pos, inode, atStart, batch,  \* _run's variables
          cut,        \* history: the tailer's open file has been truncated
          skip,       \* history: the lines there were at the tailer's first open
          queue, dropped,
          offered,    \* history: the events _offer was called with
          got         \* history: the events the browser took from the queue

writing == <<made, files, path, at>>
tail == <<tpc, fh, pos, inode, atStart, batch, cut, skip>>
feed == <<queue, dropped, got>>
vars == <<rotations, writing, pc, ev, tail, feed, offered>>

Event == [by : Local \cup Remote, n : 1 .. MaxEvents]
NoEvent == [by |-> Tailer, n |-> 0]
Thread == Local \cup Remote \cup {Tailer}
Lines(i) == {files[i][k] : k \in DOMAIN files[i]}

TypeOK ==
    /\ made \in 0 .. MaxEvents /\ rotations \in 0 .. MaxRotations
    /\ files \in Seq(Seq(Event)) /\ path \in 0 .. Len(files)
    /\ pc \in [Thread -> {"idle", "write", "put", "get", "again"}]
    /\ ev \in [Thread -> Event \cup {NoEvent}]
    /\ at \in [Local \cup Remote -> 0 .. Len(files)]
    /\ tpc \in {"open", "stat", "inode", "size", "read", "dispatch"}
    /\ fh \in 0 .. Len(files) /\ inode \in 0 .. Len(files) /\ pos \in Nat
    /\ atStart \in BOOLEAN /\ cut \in BOOLEAN
    /\ batch \in Seq(Event) /\ skip \subseteq Event
    /\ queue \in Seq(Event) /\ Len(queue) <= QueueSize
    /\ dropped \in Nat
    /\ offered \subseteq Event /\ got \subseteq Event

Init ==
    /\ made = 0 /\ rotations = 0
    /\ files \in {<<>>, <<<<>>>>} /\ path = Len(files)
    /\ pc = [t \in Thread |-> "idle"] /\ ev = [t \in Thread |-> NoEvent]
    /\ at = [t \in Local \cup Remote |-> 0]
    /\ tpc = "open" /\ fh = 0 /\ pos = 0 /\ inode = 0 /\ atStart = FALSE
    /\ batch = <<>> /\ cut = FALSE /\ skip = {}
    /\ queue = <<>> /\ dropped = 0
    /\ offered = {} /\ got = {}

--------------------------------------------------------------------------------
(* EventBus.publish, EventLogWriter.write and Subscription._offer *)

\* The event gets its time, and open(path, "ab") makes the file if it has to.
Publish(t) ==
    /\ pc[t] = "idle" /\ made < MaxEvents
    /\ made' = made + 1
    /\ ev' = [ev EXCEPT ![t] = [by |-> t, n |-> made + 1]]
    /\ files' = IF path = 0 THEN Append(files, <<>>) ELSE files
    /\ path' = Len(files')
    /\ at' = [at EXCEPT ![t] = Len(files')]
    /\ pc' = [pc EXCEPT ![t] = "write"]
    /\ UNCHANGED <<rotations, tail, feed, offered>>

\* The line goes to the end of the file that was opened.  Nobody subscribes to
\* the bus of another process than the server.
Write(t) ==
    /\ pc[t] = "write"
    /\ files' = [files EXCEPT ![at[t]] = Append(@, ev[t])]
    /\ at' = [at EXCEPT ![t] = 0]
    /\ IF t \in Local
       THEN pc' = [pc EXCEPT ![t] = "put"] /\ offered' = offered \cup {ev[t]}
                /\ UNCHANGED ev
       ELSE pc' = [pc EXCEPT ![t] = "idle"] /\ ev' = [ev EXCEPT ![t] = NoEvent]
                /\ UNCHANGED offered
    /\ UNCHANGED <<made, path, rotations, tail, feed>>

Full == Len(queue) >= QueueSize

Offered(t) == pc' = [pc EXCEPT ![t] = "idle"] /\ ev' = [ev EXCEPT ![t] = NoEvent]

\* Mutant of Put: the slot is taken without a look at the queue's size.
PutUnbounded(t) ==
    /\ pc[t] = "put"
    /\ queue' = Append(queue, ev[t])
    /\ Offered(t)
    /\ UNCHANGED <<rotations, writing, tail, dropped, got, offered>>

Put(t) ==
    /\ pc[t] = "put"
    /\ IF Full
       THEN pc' = [pc EXCEPT ![t] = "get"] /\ UNCHANGED <<ev, queue>>
       ELSE queue' = Append(queue, ev[t]) /\ Offered(t)
    /\ UNCHANGED <<rotations, writing, tail, dropped, got, offered>>

\* The oldest event is dropped, if the browser hasn't taken it meanwhile.
Get(t) ==
    /\ pc[t] = "get"
    /\ queue' = IF queue = <<>> THEN queue ELSE Tail(queue)
    /\ pc' = [pc EXCEPT ![t] = "again"]
    /\ UNCHANGED <<rotations, writing, ev, tail, dropped, got, offered>>

\* Mutant of PutAgain: a drop is counted only when the second put fails too.
PutAgainUncounted(t) ==
    /\ pc[t] = "again"
    /\ queue' = IF Full THEN queue ELSE Append(queue, ev[t])
    /\ dropped' = IF Full THEN dropped + 1 ELSE dropped
    /\ Offered(t)
    /\ UNCHANGED <<rotations, writing, tail, got, offered>>

\* If another thread took the freed slot, this event is dropped as well.
\* Either way one drop is counted.
PutAgain(t) ==
    /\ pc[t] = "again"
    /\ queue' = IF Full THEN queue ELSE Append(queue, ev[t])
    /\ dropped' = dropped + 1
    /\ Offered(t)
    /\ UNCHANGED <<rotations, writing, tail, got, offered>>

\* The browser's stream takes an event.
Consume ==
    /\ queue # <<>>
    /\ got' = got \cup {Head(queue)}
    /\ queue' = Tail(queue)
    /\ UNCHANGED <<rotations, writing, pc, ev, tail, dropped, offered>>

--------------------------------------------------------------------------------
(* What happens to the file *)

\* logrotate: the file is renamed away; the next write makes another.
RenameAway ==
    /\ path # 0 /\ rotations < MaxRotations
    /\ rotations' = rotations + 1
    /\ path' = 0
    /\ UNCHANGED <<made, files, at, pc, ev, tail, feed, offered>>

Truncate ==
    /\ path # 0 /\ files[path] # <<>> /\ rotations < MaxRotations
    /\ rotations' = rotations + 1
    /\ files' = [files EXCEPT ![path] = <<>>]
    /\ cut' = (cut \/ fh = path)
    /\ UNCHANGED <<made, path, at, pc, ev, tpc, fh, pos, inode, atStart, batch, skip,
                   feed, offered>>

--------------------------------------------------------------------------------
(* EventLogTailer._run; the thread is busy while it offers an event *)

\* Mutant of TailOpen: every open seeks to the end of the file.
TailOpenAtEnd ==
    /\ tpc = "open" /\ pc[Tailer] = "idle" /\ path # 0
    /\ fh' = path /\ cut' = FALSE
    /\ pos' = Len(files[path])
    /\ skip' = IF atStart THEN skip ELSE Lines(path)
    /\ tpc' = "stat"
    /\ UNCHANGED <<inode, atStart, batch, rotations, writing, pc, ev, feed, offered>>

\* _open: the first time at the end, so that nothing old is shown; after a
\* rotation at the start.  Without a file it is tried again.
TailOpen ==
    /\ tpc = "open" /\ pc[Tailer] = "idle" /\ path # 0
    /\ fh' = path /\ cut' = FALSE
    /\ pos' = IF atStart THEN 0 ELSE Len(files[path])
    /\ skip' = IF atStart THEN skip ELSE Lines(path)
    /\ tpc' = "stat"
    /\ UNCHANGED <<inode, atStart, batch, rotations, writing, pc, ev, feed, offered>>

\* _open takes the inode from the path, not from the file it opened: after a
\* rename in between it is another file's, or None (0).
TailStat ==
    /\ tpc = "stat"
    /\ inode' = path
    /\ atStart' = FALSE
    /\ tpc' = "inode"
    /\ UNCHANGED <<fh, pos, batch, cut, skip, rotations, writing, pc, ev, feed, offered>>

Reopen ==
    /\ fh' = 0 /\ pos' = 0 /\ inode' = 0 /\ cut' = FALSE
    /\ atStart' = TRUE
    /\ tpc' = "open"

\* Mutant of TailInode: rotation is noticed by the size alone.
TailInodeIgnored ==
    /\ tpc = "inode" /\ pc[Tailer] = "idle"
    /\ tpc' = "size"
    /\ UNCHANGED <<fh, pos, inode, atStart, batch, cut, skip, rotations, writing, pc, ev,
                   feed, offered>>

\* The two stats of a poll: has the path another inode, or no file?
TailInode ==
    /\ tpc = "inode" /\ pc[Tailer] = "idle"
    /\ IF path = inode
       THEN tpc' = "size" /\ UNCHANGED <<fh, pos, inode, cut, atStart>>
       ELSE Reopen
    /\ UNCHANGED <<batch, skip, rotations, writing, pc, ev, feed, offered>>

\* Has it shrunk, or gone since?
TailSize ==
    /\ tpc = "size"
    /\ IF path # 0 /\ Len(files[path]) >= pos
       THEN tpc' = "read" /\ UNCHANGED <<fh, pos, inode, cut, atStart>>
       ELSE Reopen
    /\ UNCHANGED <<batch, skip, rotations, writing, pc, ev, feed, offered>>

\* A chunk holds some of the lines that are there.  With none it waits.
TailRead ==
    /\ tpc = "read"
    /\ \/ /\ pos >= Len(files[fh])
          /\ tpc' = "inode"
          /\ UNCHANGED <<pos, batch>>
       \/ \E k \in pos + 1 .. Len(files[fh]) :
              /\ batch' = SubSeq(files[fh], pos + 1, k)
              /\ pos' = k
              /\ tpc' = "dispatch"
    /\ UNCHANGED <<fh, inode, atStart, cut, skip, rotations, writing, pc, ev, feed, offered>>

\* Mutant of TailDispatch: lines of the server itself are shown again.
TailDispatchAll ==
    /\ tpc = "dispatch" /\ pc[Tailer] = "idle"
    /\ pc' = [pc EXCEPT ![Tailer] = "put"]
    /\ ev' = [ev EXCEPT ![Tailer] = Head(batch)]
    /\ offered' = offered \cup {Head(batch)}
    /\ batch' = Tail(batch)
    /\ tpc' = IF Len(batch) = 1 THEN "inode" ELSE "dispatch"
    /\ UNCHANGED <<fh, pos, inode, atStart, cut, skip, rotations, writing, feed>>

\* on_external: lines with the server's own _pid are passed over, the others go
\* to the queue by _fanout_only, which writes nothing.
TailDispatch ==
    /\ tpc = "dispatch" /\ pc[Tailer] = "idle"
    /\ IF Head(batch).by \in Local
       THEN UNCHANGED <<pc, ev, offered>>
       ELSE /\ pc' = [pc EXCEPT ![Tailer] = "put"]
            /\ ev' = [ev EXCEPT ![Tailer] = Head(batch)]
            /\ offered' = offered \cup {Head(batch)}
    /\ batch' = Tail(batch)
    /\ tpc' = IF Len(batch) = 1 THEN "inode" ELSE "dispatch"
    /\ UNCHANGED <<fh, pos, inode, atStart, cut, skip, rotations, writing, feed>>

--------------------------------------------------------------------------------
OfferSteps(t) == Put(t) \/ Get(t) \/ PutAgain(t)

TailSteps == TailOpen \/ TailStat \/ TailInode \/ TailSize \/ TailRead \/ TailDispatch

Next ==
    \/ \E t \in Local \cup Remote : Publish(t) \/ Write(t)
    \/ \E t \in Local \cup {Tailer} : OfferSteps(t)
    \/ Consume
    \/ RenameAway \/ Truncate
    \/ TailSteps

Spec == Init /\ [][Next]_vars

\* The server's threads run; the browser may never read, the others never write.
FairSpec ==
    /\ Spec
    /\ WF_vars(TailSteps) /\ \A t \in Local \cup {Tailer} : WF_vars(OfferSteps(t))

--------------------------------------------------------------------------------
(* Properties *)

\* The browser sees the events of one publisher in the order they were published
\* and none of them twice, whatever is dropped, renamed or truncated, and
\* although the server's own events are in the file that its tailer reads.
OnceAndInOrder ==
    \A j \in DOMAIN queue :
        LET before == got \cup {queue[i] : i \in 1 .. j - 1}
        IN  \A e \in before : e.by = queue[j].by => e.n < queue[j].n

\* Once no thread is in _offer, `dropped` tells of every loss, if not of how
\* many: a thread that frees a slot and finds it taken by another has lost two
\* events and counts one drop (Subscription._offer).
DropsCounted ==
    LET lost == offered \ (got \cup {queue[i] : i \in DOMAIN queue})
    IN  (\A t \in Local \cup {Tailer} : pc[t] \notin {"put", "get", "again"})
            => Cardinality(lost) <= 2 * dropped

\* The tailer skips no line of the file it has open: all before its position
\* were there when it first opened the file, or have been handed on, unless the
\* file was truncated under it (EventLogTailer._open_at_start).
NoLineSkipped ==
    fh # 0 /\ ~cut =>
        \A k \in 1 .. pos :
            files[fh][k].by \in Remote =>
                \/ files[fh][k] \in skip \cup offered
                \/ \E i \in DOMAIN batch : batch[i] = files[fh][k]

\* The tailer took the inode of another file than it opened.
Mistaken == fh # 0 /\ tpc \notin {"open", "stat"} /\ fh # inode

\* A line in the file is handed on some time, if the file stays and the tailer
\* knows which file it reads (EventLogTailer._run).
LineArrives ==
    \A r \in Remote, n \in 1 .. MaxEvents :
        LET e == [by |-> r, n |-> n]
            there == path # 0 /\ e \in Lines(path)
        IN  there ~> (e \in offered \cup skip \/ ~there \/ cut \/ Mistaken)
================================================================================

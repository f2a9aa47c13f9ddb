---------------------------- MODULE DaemonProofs ----------------------------
(***************************************************************************)
(* Proofs about Daemon, for any number of commands and of daemons, killed  *)
(* and slow ones included.                                                 *)
(***************************************************************************)
EXTENDS Daemon, FiniteSetTheorems, TLAPS

Command == {"start", "restart", "stop", "query"}

\* What a command can be doing, and where in its code each kind of it gets.
Doing == [cmd : Command \cup {"none"}, stage : {"first", "again", "wait"},
          at : {"none", "read", "pid", "stale", "ping", "shutdown", "clear", "spawn"},
          saw : Pid \cup {None}]

Placed(v) ==
    /\ v.cmd = "none" => v = Idle
    /\ v.at = "none" => v.cmd = "none"
    /\ v.at \in {"pid", "stale", "ping", "shutdown"} => v.saw \in Pid
    /\ v.at = "shutdown" => v.cmd \in {"restart", "stop"} /\ v.stage = "first"
    /\ v.at = "clear" => v.cmd \in {"start", "restart", "stop"}
    /\ v.at \in {"clear", "spawn"} /\ v.cmd # "stop" => v.stage # "wait"
    /\ v.at = "spawn" => v.cmd \in {"start", "restart"}

Typed ==
    /\ file \in {None} \cup [pid : Pid, whole : BOOLEAN]
    /\ at \in [Pid -> {"dead", "spawned"} \cup Holding]
    /\ asked \subseteq {d \in Pid : at[d] \notin {"dead", "spawned"}}
    /\ cli \in [Cli -> Doing]
    /\ \A c \in Cli : Placed(cli[c])
    /\ kills \in 0..MaxKills /\ slow \in 0..MaxSlow /\ excuse \in BOOLEAN

\* Command c goes on as v.
Becomes(c, v) == cli' = [cli EXCEPT ![c] = v]

Starting(cmd, stage, place, saw) == [cmd |-> cmd, stage |-> stage, at |-> place, saw |-> saw]

\* A step of the system, for proofs that treat the steps one by one.
LEMMA NextCases ==
    ASSUME [Next]_vars
    PROVE  \/ \E d \in Pid : \/ Bind(d) \/ OpenDiscovery(d) \/ WriteDiscovery(d) \/ Serve(d)
                             \/ EndLoop(d) \/ Leave(d) \/ Signal(d) \/ Kill(d)
           \/ \E c \in Cli : \/ Read(c) \/ CheckPid(c) \/ ClearStale(c) \/ Ping(c)
                             \/ Shutdown(c) \/ Clear(c) \/ Spawn(c)
                             \/ \E cmd \in Command : Begin(c, cmd)
           \/ UNCHANGED vars
BY DEF Next, DaemonSteps, CliSteps, Command

--------------------------------------------------------------------------------
(* What the ways on of a command do to it *)

LEMMA Fields == \A u \in Doing : u = Starting(u.cmd, u.stage, u.at, u.saw)
BY DEF Doing, Starting

LEMMA GotoIs ==
    ASSUME Typed, NEW c \in Cli, NEW place, Goto(c, place)
    PROVE  Becomes(c, Starting(cli[c].cmd, cli[c].stage, place,
                               IF place \in {"clear", "spawn"} THEN None ELSE cli[c].saw))
<1> DEFINE saw == IF place \in {"clear", "spawn"} THEN None ELSE cli[c].saw
           u == [cli[c] EXCEPT !.at = place]
           v == [u EXCEPT !.saw = saw]
<1>1. cli[c] \in Doing /\ cli \in [Cli -> Doing]
  BY DEF Typed
<1>2. cli' = [cli EXCEPT ![c] = v]
  BY <1>1 DEF Goto, Doing
<1>3. v = Starting(cli[c].cmd, cli[c].stage, place, saw)
  <2>1. cli[c] = Starting(cli[c].cmd, cli[c].stage, cli[c].at, cli[c].saw)
    BY <1>1, Fields
  <2>2. u = Starting(cli[c].cmd, cli[c].stage, place, cli[c].saw)
    BY <2>1 DEF Starting
  <2> HIDE DEF u
  <2>3. QED
    BY <2>2 DEF Starting
<1>4. QED
  BY <1>2, <1>3 DEF Becomes

LEMMA LookIs ==
    ASSUME Typed, NEW c \in Cli, NEW stage, Look(c, stage)
    PROVE  Becomes(c, Starting(cli[c].cmd, stage, "read", None))
<1> DEFINE u == [cli[c] EXCEPT !.stage = stage]
           v == [u EXCEPT !.at = "read"]
           w == [v EXCEPT !.saw = None]
<1>1. cli[c] \in Doing /\ cli \in [Cli -> Doing]
  BY DEF Typed
<1>2. cli' = [cli EXCEPT ![c] = w]
  BY <1>1 DEF Look, Doing
<1>3. w = Starting(cli[c].cmd, stage, "read", None)
  <2>1. cli[c] = Starting(cli[c].cmd, cli[c].stage, cli[c].at, cli[c].saw)
    BY <1>1, Fields
  <2>2. u = Starting(cli[c].cmd, stage, cli[c].at, cli[c].saw)
    BY <2>1 DEF Starting
  <2> HIDE DEF u
  <2>3. v = Starting(cli[c].cmd, stage, "read", cli[c].saw)
    BY <2>2 DEF Starting
  <2> HIDE DEF v
  <2>4. QED
    BY <2>3 DEF Starting
<1>4. QED
  BY <1>2, <1>3 DEF Becomes

\* connect() gave no client.
LEMMA MissingIs ==
    ASSUME Typed, NEW c \in Cli, Missing(c), cli[c].cmd # "none"
    PROVE  \/ Becomes(c, Idle)
           \/ /\ cli[c].cmd = "restart" /\ cli[c].stage = "first"
              /\ Becomes(c, Starting("restart", "again", "read", None))
           \/ /\ \/ cli[c].cmd = "start" /\ cli[c].stage = "first"
                 \/ cli[c].cmd = "restart" /\ cli[c].stage = "again"
                 \/ cli[c].cmd = "stop" /\ cli[c].stage = "wait"
              /\ Becomes(c, Starting(cli[c].cmd, cli[c].stage, "clear", None))
           \/ /\ cli[c].cmd \in {"start", "restart"} /\ cli[c].stage = "wait"
              /\ Becomes(c, Starting(cli[c].cmd, "wait", "read", None))
<1>1. Goto(c, "clear") => Becomes(c, Starting(cli[c].cmd, cli[c].stage, "clear", None))
  BY GotoIs
<1>2. \A s \in {"again", "wait"} : Look(c, s) => Becomes(c, Starting(cli[c].cmd, s, "read", None))
  BY LookIs
<1>3. QED
  BY <1>1, <1>2 DEF Missing, Done, Becomes

\* connect() gave a client.
LEMMA FoundIs ==
    ASSUME Typed, NEW c \in Cli, Found(c), cli[c].cmd # "none", cli[c].saw \in Pid
    PROVE  \/ /\ Becomes(c, Idle)
              /\ ~(cli[c].cmd \in {"restart", "stop"} /\ cli[c].stage = "first")
           \/ /\ cli[c].cmd \in {"restart", "stop"} /\ cli[c].stage = "first"
              /\ Becomes(c, Starting(cli[c].cmd, "first", "shutdown", cli[c].saw))
           \/ /\ cli[c].cmd = "stop" /\ cli[c].stage # "first"
              /\ \/ Becomes(c, Starting("stop", "wait", "read", None))
                 \/ Becomes(c, Starting("stop", cli[c].stage, "clear", None))
<1>1. Goto(c, "clear") => Becomes(c, Starting(cli[c].cmd, cli[c].stage, "clear", None))
  BY GotoIs
<1>2. Goto(c, "shutdown")
      => Becomes(c, Starting(cli[c].cmd, cli[c].stage, "shutdown", cli[c].saw))
  BY GotoIs
<1>3. Look(c, "wait") => Becomes(c, Starting(cli[c].cmd, "wait", "read", None))
  BY LookIs
<1>4. QED
  BY <1>1, <1>2, <1>3 DEF Found, Done, Becomes

\* A command that goes on as a record of the right kind stays one of the right kind.
LEMMA BecomesTyped ==
    ASSUME Typed, NEW c \in Cli, NEW v \in Doing, Placed(v), Becomes(c, v)
    PROVE  /\ cli' \in [Cli -> Doing] /\ \A r \in Cli : Placed(cli'[r])
           /\ cli'[c] = v /\ \A r \in Cli \ {c} : cli'[r] = cli[r]
BY DEF Typed, Becomes
--------------------------------------------------------------------------------
(* Type correctness *)

LEMMA Working ==
    ASSUME Typed, NEW c \in Cli, cli[c].at # "none"
    PROVE  /\ cli[c].cmd \in Command /\ cli[c] \in Doing
           /\ cli[c].at \in {"pid", "stale", "ping", "shutdown"} => cli[c].saw \in Pid
<1>1. cli[c] \in Doing /\ Placed(cli[c])
  BY DEF Typed
<1>2. QED
  BY <1>1 DEF Doing, Placed, Idle

LEMMA IdleTyped == Idle \in Doing /\ Placed(Idle)
BY DEF Idle, Doing, Placed

LEMMA StartingTyped ==
    ASSUME NEW cmd \in Command, NEW stage \in {"first", "again", "wait"},
           NEW place \in {"read", "pid", "stale", "ping", "shutdown", "clear", "spawn"},
           NEW saw \in Pid \cup {None},
           place \in {"pid", "stale", "ping", "shutdown"} => saw \in Pid,
           place = "shutdown" => cmd \in {"restart", "stop"} /\ stage = "first",
           place = "clear" => cmd \in {"start", "restart", "stop"},
           place \in {"clear", "spawn"} /\ cmd # "stop" => stage # "wait",
           place = "spawn" => cmd \in {"start", "restart"}
    PROVE  Starting(cmd, stage, place, saw) \in Doing /\ Placed(Starting(cmd, stage, place, saw))
BY DEF Starting, Doing, Placed, Command

LEMMA MissingTyped ==
    ASSUME Typed, NEW c \in Cli, Missing(c), cli[c].at # "none"
    PROVE  cli' \in [Cli -> Doing] /\ \A r \in Cli : Placed(cli'[r])
<1>1. cli[c].cmd \in Command /\ cli[c].stage \in {"first", "again", "wait"}
  BY Working DEF Doing
<1>2. CASE Becomes(c, Idle)
  BY <1>2, IdleTyped, BecomesTyped
<1>3. CASE Becomes(c, Starting("restart", "again", "read", None))
  <2>1. /\ Starting("restart", "again", "read", None) \in Doing
        /\ Placed(Starting("restart", "again", "read", None))
    BY StartingTyped DEF Command
  <2>2. QED
    BY <1>3, <2>1, BecomesTyped
<1>4. CASE /\ \/ cli[c].cmd = "start" /\ cli[c].stage = "first"
              \/ cli[c].cmd = "restart" /\ cli[c].stage = "again"
              \/ cli[c].cmd = "stop" /\ cli[c].stage = "wait"
           /\ Becomes(c, Starting(cli[c].cmd, cli[c].stage, "clear", None))
  <2>1. /\ Starting(cli[c].cmd, cli[c].stage, "clear", None) \in Doing
        /\ Placed(Starting(cli[c].cmd, cli[c].stage, "clear", None))
    BY <1>1, <1>4, StartingTyped
  <2>2. QED
    BY <1>4, <2>1, BecomesTyped
<1>5. CASE Becomes(c, Starting(cli[c].cmd, "wait", "read", None))
  <2>1. /\ Starting(cli[c].cmd, "wait", "read", None) \in Doing
        /\ Placed(Starting(cli[c].cmd, "wait", "read", None))
    BY <1>1, StartingTyped
  <2>2. QED
    BY <1>5, <2>1, BecomesTyped
<1>6. cli[c].cmd # "none"
  BY <1>1 DEF Command
<1>7. QED
  BY <1>2, <1>3, <1>4, <1>5, <1>6, MissingIs

LEMMA FoundTyped ==
    ASSUME Typed, NEW c \in Cli, Found(c), cli[c].at = "ping"
    PROVE  cli' \in [Cli -> Doing] /\ \A r \in Cli : Placed(cli'[r])
<1>1. /\ cli[c].cmd \in Command /\ cli[c].stage \in {"first", "again", "wait"}
      /\ cli[c].saw \in Pid
  BY Working DEF Doing
<1>2. CASE Becomes(c, Idle)
  BY <1>2, IdleTyped, BecomesTyped
<1>3. CASE /\ cli[c].cmd \in {"restart", "stop"}
           /\ Becomes(c, Starting(cli[c].cmd, "first", "shutdown", cli[c].saw))
  <2>1. /\ Starting(cli[c].cmd, "first", "shutdown", cli[c].saw) \in Doing
        /\ Placed(Starting(cli[c].cmd, "first", "shutdown", cli[c].saw))
    BY <1>1, <1>3, StartingTyped
  <2>2. QED
    BY <1>3, <2>1, BecomesTyped
<1>4. CASE \/ Becomes(c, Starting("stop", "wait", "read", None))
           \/ Becomes(c, Starting("stop", cli[c].stage, "clear", None))
  <2>1. /\ Starting("stop", "wait", "read", None) \in Doing
        /\ Placed(Starting("stop", "wait", "read", None))
        /\ Starting("stop", cli[c].stage, "clear", None) \in Doing
        /\ Placed(Starting("stop", cli[c].stage, "clear", None))
    BY <1>1, StartingTyped DEF Command
  <2>2. QED
    BY <1>4, <2>1, BecomesTyped
<1>5. cli[c].cmd # "none"
  BY <1>1 DEF Command
<1>6. QED
  BY <1>1, <1>2, <1>3, <1>4, <1>5, FoundIs

LEMMA ReadIs ==
    ASSUME Typed, NEW c \in Cli, Read(c), file # None /\ file.whole
    PROVE  Becomes(c, Starting(cli[c].cmd, cli[c].stage, "pid", file.pid)) /\ file.pid \in Pid
<1> DEFINE u == [cli[c] EXCEPT !.saw = file.pid]
           v == [u EXCEPT !.at = "pid"]
<1>1. cli[c] \in Doing /\ cli \in [Cli -> Doing] /\ file.pid \in Pid
  BY DEF Typed
<1>2. cli' = [cli EXCEPT ![c] = v]
  BY <1>1 DEF Read, Doing
<1>3. v = Starting(cli[c].cmd, cli[c].stage, "pid", file.pid)
  <2>1. cli[c] = Starting(cli[c].cmd, cli[c].stage, cli[c].at, cli[c].saw)
    BY <1>1, Fields
  <2>2. u = Starting(cli[c].cmd, cli[c].stage, cli[c].at, file.pid)
    BY <2>1 DEF Starting
  <2> HIDE DEF u
  <2>3. QED
    BY <2>2 DEF Starting
<1>4. QED
  BY <1>1, <1>2, <1>3 DEF Becomes

\* The steps of a command leave all commands what they can be.
LEMMA CommandTyped ==
    ASSUME Typed, NEW c \in Cli,
           \/ Read(c) \/ CheckPid(c) \/ ClearStale(c) \/ Ping(c)
           \/ Shutdown(c) \/ Clear(c) \/ Spawn(c)
           \/ \E cmd \in Command : Begin(c, cmd)
    PROVE  cli' \in [Cli -> Doing] /\ \A r \in Cli : Placed(cli'[r])
<1>1. cli[c] \in Doing /\ Placed(cli[c])
  BY DEF Typed
<1>2. /\ cli[c].cmd \in Command \cup {"none"} /\ cli[c].stage \in {"first", "again", "wait"}
      /\ cli[c].saw \in Pid \cup {None}
      /\ cli[c].at # "none" => cli[c].cmd \in Command
  BY <1>1, Working DEF Doing
<1>3. ASSUME NEW cmd \in Command, NEW stage \in {"first", "again", "wait"},
             NEW place \in {"read", "pid", "stale", "ping", "shutdown", "clear", "spawn"},
             NEW saw \in Pid \cup {None},
             Becomes(c, Starting(cmd, stage, place, saw)),
             place \in {"pid", "stale", "ping", "shutdown"} => saw \in Pid,
             place = "shutdown" => cmd \in {"restart", "stop"} /\ stage = "first",
             place = "clear" => cmd \in {"start", "restart", "stop"},
             place \in {"clear", "spawn"} /\ cmd # "stop" => stage # "wait",
             place = "spawn" => cmd \in {"start", "restart"}
      PROVE  cli' \in [Cli -> Doing] /\ \A r \in Cli : Placed(cli'[r])
  <2>1. Starting(cmd, stage, place, saw) \in Doing /\ Placed(Starting(cmd, stage, place, saw))
    BY <1>3, StartingTyped
  <2>2. QED
    BY <1>3, <2>1, BecomesTyped
<1>4. Done(c) => cli' \in [Cli -> Doing] /\ \A r \in Cli : Placed(cli'[r])
  BY IdleTyped, BecomesTyped DEF Done, Becomes
<1>5. CASE Read(c)
  <2>1. cli[c].at = "read" /\ cli[c].cmd \in Command
    BY <1>2, <1>5 DEF Read
  <2>2. CASE file # None /\ file.whole
    BY <1>2, <1>3, <1>5, <2>1, <2>2, ReadIs
  <2>3. CASE ~(file # None /\ file.whole)
    <3>1. Missing(c)
      BY <1>5, <2>3 DEF Read
    <3>2. QED
      BY <2>1, <3>1, MissingTyped
  <2>4. QED
    BY <2>2, <2>3
<1>6. CASE CheckPid(c)
  <2>1. cli[c].at = "pid" /\ cli[c].cmd \in Command /\ cli[c].saw \in Pid
    BY <1>2, <1>6, Working DEF CheckPid
  <2>2. \/ Becomes(c, Starting(cli[c].cmd, cli[c].stage, "ping", cli[c].saw))
        \/ Becomes(c, Starting(cli[c].cmd, cli[c].stage, "stale", cli[c].saw))
    <3>1. \A place \in {"ping", "stale"} :
            Goto(c, place) => Becomes(c, Starting(cli[c].cmd, cli[c].stage, place, cli[c].saw))
      BY GotoIs
    <3>2. QED
      BY <1>6, <3>1 DEF CheckPid
  <2>3. QED
    BY <1>2, <1>3, <2>1, <2>2
<1>7. CASE ClearStale(c)
  BY <1>7, MissingTyped DEF ClearStale
<1>8. CASE Ping(c)
  BY <1>8, MissingTyped, FoundTyped DEF Ping
<1>9. CASE Shutdown(c)
  <2>1. /\ cli[c].at = "shutdown" /\ cli[c].cmd \in {"restart", "stop"}
        /\ cli[c].stage = "first"
    BY <1>1, <1>9 DEF Shutdown, Placed
  <2>2. CASE cli[c].cmd = "stop"
    <3>1. Becomes(c, Starting(cli[c].cmd, "wait", "read", None))
      BY <1>9, <2>2, LookIs DEF Shutdown
    <3>2. QED
      BY <1>2, <1>3, <2>1, <3>1
  <2>3. CASE cli[c].cmd # "stop"
    <3>1. Becomes(c, Starting(cli[c].cmd, cli[c].stage, "clear", None))
      BY <1>9, <2>3, GotoIs DEF Shutdown
    <3>2. QED
      BY <1>2, <1>3, <2>1, <3>1
  <2>4. QED
    BY <2>2, <2>3
<1>10. CASE Clear(c)
  <2>1. /\ cli[c].at = "clear" /\ cli[c].cmd \in {"start", "restart", "stop"}
        /\ cli[c].cmd # "stop" => cli[c].stage # "wait"
    BY <1>1, <1>10 DEF Clear, Placed
  <2>2. CASE cli[c].cmd = "stop"
    BY <1>4, <1>10, <2>2 DEF Clear
  <2>3. CASE cli[c].cmd = "restart" /\ cli[c].stage = "first"
    <3>1. Becomes(c, Starting(cli[c].cmd, "again", "read", None))
      BY <1>10, <2>3, LookIs DEF Clear
    <3>2. QED
      BY <1>2, <1>3, <2>1, <3>1
  <2>4. CASE cli[c].cmd # "stop" /\ ~(cli[c].cmd = "restart" /\ cli[c].stage = "first")
    <3>1. Becomes(c, Starting(cli[c].cmd, cli[c].stage, "spawn", None))
      BY <1>10, <2>4, GotoIs DEF Clear
    <3>2. QED
      BY <1>2, <1>3, <2>1, <2>4, <3>1
  <2>5. QED
    BY <2>2, <2>3, <2>4
<1>11. CASE Spawn(c)
  <2>1. Becomes(c, Starting(cli[c].cmd, "wait", "read", None))
    BY <1>11, LookIs DEF Spawn
  <2>2. QED
    BY <1>2, <1>3, <1>11, <2>1 DEF Spawn
<1>12. CASE \E cmd \in Command : Begin(c, cmd)
  <2>1. PICK cmd \in Command : Becomes(c, Starting(cmd, "first", "read", None))
    BY <1>12 DEF Begin, Becomes, Starting
  <2>2. QED
    BY <1>3, <2>1
<1>13. QED
  BY <1>5, <1>6, <1>7, <1>8, <1>9, <1>10, <1>11, <1>12

LEMMA BoundsNat == MaxKills \in Nat /\ MaxSlow \in Nat
BY DaemonAssumption

LEMMA TypedStep ==
    ASSUME Typed, [Next]_vars
    PROVE  Typed'
<1>1. ASSUME NEW d \in Pid,
             \/ Bind(d) \/ OpenDiscovery(d) \/ WriteDiscovery(d) \/ Serve(d)
             \/ EndLoop(d) \/ Leave(d) \/ Signal(d) \/ Kill(d)
      PROVE  Typed'
  <2>1. cli' \in [Cli -> Doing] /\ \A c \in Cli : Placed(cli'[c])
    BY <1>1 DEF Typed, Bind, OpenDiscovery, WriteDiscovery, Serve, EndLoop, Leave, Signal, Kill
  <2>2. /\ at' \in [Pid -> {"dead", "spawned"} \cup Holding]
        /\ asked' \subseteq {e \in Pid : at'[e] \notin {"dead", "spawned"}}
    <3>1. CASE Bind(d)
      BY <3>1 DEF Typed, Bind, Step, Holding
    <3>2. CASE OpenDiscovery(d) \/ WriteDiscovery(d) \/ Serve(d) \/ EndLoop(d)
      BY <3>2 DEF Typed, OpenDiscovery, WriteDiscovery, Serve, EndLoop, Step, Holding
    <3>3. CASE Leave(d)
      BY <3>3 DEF Typed, Leave, Step, Holding
    <3>4. CASE Signal(d) \/ Kill(d)
      BY <3>4 DEF Typed, Signal, Kill, Holding
    <3>5. QED
      BY <1>1, <3>1, <3>2, <3>3, <3>4
  <2>3. file' \in {None} \cup [pid : Pid, whole : BOOLEAN]
    <3>1. CASE OpenDiscovery(d) \/ WriteDiscovery(d)
      <4>1. \A b \in BOOLEAN : [pid |-> d, whole |-> b] \in [pid : Pid, whole : BOOLEAN]
        OBVIOUS
      <4>2. file' = file \/ \E b \in BOOLEAN : file' = [pid |-> d, whole |-> b]
        BY <3>1 DEF OpenDiscovery, WriteDiscovery
      <4>3. QED
        BY <4>1, <4>2 DEF Typed
    <3>2. CASE file' = None \/ UNCHANGED file
      BY <3>2 DEF Typed
    <3>3. QED
      BY <1>1, <3>1, <3>2 DEF Bind, Serve, EndLoop, Leave, Signal, Kill
  <2>4. kills' \in 0..MaxKills /\ slow' = slow /\ excuse' = excuse
    BY <1>1, BoundsNat
    DEF Typed, Bind, OpenDiscovery, WriteDiscovery, Serve, EndLoop, Leave, Signal, Kill
  <2>5. QED
    BY <2>1, <2>2, <2>3, <2>4 DEF Typed
<1>2. ASSUME NEW c \in Cli,
             \/ Read(c) \/ CheckPid(c) \/ ClearStale(c) \/ Ping(c)
             \/ Shutdown(c) \/ Clear(c) \/ Spawn(c)
             \/ \E cmd \in Command : Begin(c, cmd)
      PROVE  Typed'
  <2>1. cli' \in [Cli -> Doing] /\ \A r \in Cli : Placed(cli'[r])
    BY <1>2, CommandTyped
  <2>2. /\ at' \in [Pid -> {"dead", "spawned"} \cup Holding]
        /\ asked' \subseteq {e \in Pid : at'[e] \notin {"dead", "spawned"}}
    <3>1. CASE Spawn(c)
      BY <3>1 DEF Typed, Spawn, Step
    <3>2. CASE Shutdown(c)
      <4>1. cli[c].saw \in Pid
        BY <3>2, Working DEF Shutdown
      <4>2. QED
        BY <3>2, <4>1 DEF Typed, Shutdown, Answers
    <3>3. CASE UNCHANGED <<at, asked>>
      BY <3>3 DEF Typed
    <3>4. QED
      BY <1>2, <3>1, <3>2, <3>3 DEF Read, CheckPid, ClearStale, Ping, Clear, Begin
  <2>3. file' \in {None} \cup [pid : Pid, whole : BOOLEAN]
    BY <1>2 DEF Typed, Read, CheckPid, ClearStale, Ping, Shutdown, Clear, Spawn, Begin
  <2>4. kills' \in 0..MaxKills /\ slow' \in 0..MaxSlow
    <3>1. \/ slow' = slow
          \/ slow < MaxSlow /\ slow' = slow + 1
      BY <1>2 DEF Read, CheckPid, ClearStale, Ping, Shutdown, Clear, Spawn, Begin
    <3>2. kills' = kills
      BY <1>2 DEF Read, CheckPid, ClearStale, Ping, Shutdown, Clear, Spawn, Begin
    <3>3. QED
      BY <3>1, <3>2, BoundsNat DEF Typed
  <2>5. excuse' \in BOOLEAN
    BY <1>2 DEF Typed, Excuse, Read, CheckPid, ClearStale, Ping, Shutdown, Clear, Spawn, Begin
  <2>6. QED
    BY <2>1, <2>2, <2>3, <2>4, <2>5 DEF Typed
<1>3. CASE UNCHANGED vars
  BY <1>3 DEF vars, Typed
<1>4. QED
  BY <1>1, <1>2, <1>3, NextCases

LEMMA TypedAlways == Spec => []Typed
<1>1. Init => Typed
  <2> SUFFICES ASSUME Init PROVE Typed
    OBVIOUS
  <2>1. cli \in [Cli -> Doing] /\ \A c \in Cli : Placed(cli[c])
    BY IdleTyped DEF Init
  <2>2. /\ file = None /\ at \in [Pid -> {"dead", "spawned"} \cup Holding] /\ asked = {}
    BY DEF Init
  <2>3. kills \in 0..MaxKills /\ slow \in 0..MaxSlow
    BY BoundsNat DEF Init
  <2>4. QED
    BY <2>1, <2>2, <2>3 DEF Init, Typed
<1>2. Typed /\ [Next]_vars => Typed'
  BY TypedStep
<1>3. QED
  BY <1>1, <1>2, PTL DEF Spec

\* The port is held by one daemon at a time.
OnePort == \A d, e \in Pid : at[d] \in Holding /\ at[e] \in Holding => d = e

LEMMA OnePortStep ==
    ASSUME Typed, OnePort, [Next]_vars
    PROVE  OnePort'
<1>1. ASSUME NEW d \in Pid, Bind(d)
      PROVE  OnePort'
  BY <1>1 DEF Typed, OnePort, Bind, Step, PortFree, Holding
<1>2. ASSUME NEW d \in Pid,
             OpenDiscovery(d) \/ WriteDiscovery(d) \/ Serve(d) \/ EndLoop(d) \/ Leave(d)
      PROVE  OnePort'
  <2>1. /\ at[d] \in Holding /\ \A e \in Pid \ {d} : at'[e] = at[e]
    BY <1>2 DEF OpenDiscovery, WriteDiscovery, Serve, EndLoop, Leave, Step, Holding, Typed
  <2>2. QED
    BY <2>1 DEF OnePort
<1>3. ASSUME NEW d \in Pid, Signal(d) \/ Kill(d)
      PROVE  OnePort'
  BY <1>3 DEF OnePort, Signal, Kill, Holding, Typed
<1>4. ASSUME NEW c \in Cli,
             \/ Read(c) \/ CheckPid(c) \/ ClearStale(c) \/ Ping(c)
             \/ Shutdown(c) \/ Clear(c) \/ Spawn(c)
             \/ \E cmd \in Command : Begin(c, cmd)
      PROVE  OnePort'
  <2>1. CASE Spawn(c)
    BY <2>1 DEF OnePort, Spawn, Step, Holding, Typed
  <2>2. CASE UNCHANGED at
    BY <2>2 DEF OnePort
  <2>3. QED
    BY <1>4, <2>1, <2>2 DEF Read, CheckPid, ClearStale, Ping, Shutdown, Clear, Begin
<1>5. CASE UNCHANGED vars
  BY <1>5 DEF vars, OnePort
<1>6. QED
  BY <1>1, <1>2, <1>3, <1>4, <1>5, NextCases

LEMMA OnePortAlways == Spec => []OnePort
<1>1. Init => OnePort
  BY DEF Init, OnePort, Holding
<1>2. Typed /\ OnePort /\ [Next]_vars => OnePort'
  BY OnePortStep
<1>3. QED
  BY <1>1, <1>2, TypedAlways, PTL DEF Spec

\* The state of the file, of the daemons and of the commands is always one the
\* code can be in; in particular a second daemon that is given the same port ends
\* at bind() (daemon.py:719), so that no two daemons hold the port together.
THEOREM TypeCorrect == Spec => []TypeOK
<1>1. Typed /\ OnePort => TypeOK
  <2> SUFFICES ASSUME Typed, OnePort PROVE TypeOK
    OBVIOUS
  <2>1. ASSUME NEW c \in Cli, cli[c] # Idle
        PROVE  /\ cli[c].cmd \in {"start", "restart", "stop", "query"}
               /\ cli[c].stage \in {"first", "again", "wait"}
               /\ cli[c].at \in {"read", "pid", "stale", "ping", "shutdown", "clear", "spawn"}
               /\ cli[c].saw \in Pid \cup {None}
    <3>1. cli[c] \in Doing /\ Placed(cli[c])
      BY DEF Typed
    <3>2. QED
      BY <2>1, <3>1 DEF Doing, Placed, Command
  <2> DEFINE H == {d \in Pid : at[d] \in Holding}
  <2>2. Cardinality(H) <= 1
    <3>1. CASE H = {}
      BY <3>1, FS_EmptySet
    <3>2. CASE H # {}
      <4>1. PICK d \in H : TRUE
        BY <3>2
      <4>2. H = {d}
        BY <4>1 DEF OnePort
      <4>3. Cardinality(H) = 1
        BY <4>2, FS_Singleton
      <4>4. QED
        BY <4>3
    <3>3. QED
      BY <3>1, <3>2
  <2>3. QED
    BY <2>1, <2>2 DEF Typed, TypeOK
<1>2. QED
  BY <1>1, TypedAlways, OnePortAlways, PTL

--------------------------------------------------------------------------------
(* The discovery file *)

\* A command that starts, restarts or stops a daemon; and one that hasn't spawned
\* its daemon yet, or spawns none.
Mutates(c) == cli[c].cmd \in {"start", "restart", "stop"}
BeforeSpawn(c) == Mutates(c) /\ (cli[c].cmd = "stop" \/ cli[c].stage # "wait")

Reachable(d) == at[d] = "serving" /\ d \notin asked

\* Only a dead daemon's file is stale, and its pid isn't used again meanwhile.
StaleIsDead == \A c \in Cli : cli[c].at = "stale" => at[cli[c].saw] = "dead"

\* As long as no case of Excuse has come about: one command at a time mutates, no
\* daemon is coming up before that command has spawned one, a reachable daemon is
\* the one the command is heading for, and the file is of the daemon that opened it.
Alone == \A c, r \in Cli : Mutates(c) /\ Mutates(r) => c = r

NoneComing ==
    \A c \in Cli, d \in Pid :
        BeforeSpawn(c) => at[d] \notin {"spawned", "bound", "opened", "written"}

Heading ==
    \A c \in Cli, d \in Pid : BeforeSpawn(c) /\ Reachable(d) =>
        /\ cli[c].stage = "first" /\ cli[c].at \in {"read", "pid", "ping", "shutdown"}
        /\ cli[c].at # "read" => cli[c].saw = d

FileKept ==
    \A d \in Pid :
        /\ at[d] = "opened" => file = [pid |-> d, whole |-> FALSE]
        /\ at[d] = "written" \/ Reachable(d) => file = [pid |-> d, whole |-> TRUE]

Kept == ~excuse => Alone /\ NoneComing /\ Heading /\ FileKept

\* A command that goes on does so alone, as what it was: it doesn't mutate unless
\* it did, and doesn't go back to before its spawn.
LEMMA Onward ==
    ASSUME Typed, NEW c \in Cli,
           \/ Read(c) \/ CheckPid(c) \/ ClearStale(c) \/ Ping(c)
           \/ Shutdown(c) \/ Clear(c) \/ Spawn(c)
    PROVE  /\ \A r \in Cli \ {c} : cli'[r] = cli[r]
           /\ Mutates(c)' => Mutates(c)
           /\ BeforeSpawn(c)' => BeforeSpawn(c)
           /\ cli'[c].at = "stale" => CheckPid(c) /\ cli'[c].saw = cli[c].saw
                                                 /\ at[cli[c].saw] = "dead"
<1> DEFINE Same(v) == /\ v.cmd = cli[c].cmd
                      /\ v.cmd # "stop" /\ v.stage # "wait" => cli[c].stage # "wait"
           Result == /\ \A r \in Cli \ {c} : cli'[r] = cli[r]
                     /\ Mutates(c)' => Mutates(c)
                     /\ BeforeSpawn(c)' => BeforeSpawn(c)
<1>1. cli \in [Cli -> Doing] /\ cli[c] \in Doing /\ Placed(cli[c])
      /\ cli[c].at # "none" /\ cli[c].cmd # "none"
  BY Working DEF Typed, Command, Read, CheckPid, ClearStale, Ping, Shutdown, Clear, Spawn
<1>2. Becomes(c, Idle) => Result /\ cli'[c].at = "none"
  BY <1>1 DEF Becomes, Idle, Mutates, BeforeSpawn
<1>3. ASSUME NEW stage, NEW place, NEW saw,
             stage # "wait" /\ cli[c].cmd # "stop" => cli[c].stage # "wait",
             Becomes(c, Starting(cli[c].cmd, stage, place, saw))
      PROVE  Result /\ cli'[c].at = place /\ cli'[c].saw = saw
  BY <1>1, <1>3 DEF Becomes, Starting, Mutates, BeforeSpawn
<1>4. Missing(c) => Result /\ cli'[c].at # "stale"
  BY <1>1, <1>2, <1>3, MissingIs
<1>5. Goto(c, "clear") \/ Goto(c, "spawn") \/ Goto(c, "ping")
      => Result /\ cli'[c].at # "stale"
  <2>1. \A place : Goto(c, place) => Result /\ cli'[c].at = place
    BY <1>3, GotoIs
  <2>2. QED
    BY <2>1
<1>6. Look(c, "wait") => Result /\ cli'[c].at # "stale"
  BY <1>3, LookIs
<1>7. CASE Read(c)
  BY <1>3, <1>4, <1>7, ReadIs DEF Read
<1>8. CASE CheckPid(c)
  <2>1. CASE Goto(c, "ping")
    BY <1>5, <2>1
  <2>2. CASE at[cli[c].saw] = "dead" /\ Goto(c, "stale")
    BY <1>3, <1>8, <2>2, GotoIs
  <2>3. QED
    BY <1>8, <2>1, <2>2 DEF CheckPid
<1>9. CASE ClearStale(c)
  BY <1>4, <1>9 DEF ClearStale
<1>10. CASE Ping(c)
  <2>1. Found(c) => Result /\ cli'[c].at # "stale"
    <3>1. cli[c].saw \in Pid
      BY <1>10, Working DEF Ping
    <3>2. QED
      BY <1>1, <1>2, <1>3, <3>1, FoundIs
  <2>2. QED
    BY <1>4, <1>10, <2>1 DEF Ping
<1>11. CASE Shutdown(c)
  BY <1>5, <1>6, <1>11 DEF Shutdown
<1>12. CASE Clear(c)
  <2>1. CASE Done(c)
    BY <1>2, <2>1 DEF Done, Becomes
  <2>2. CASE cli[c].stage = "first" /\ Look(c, "again")
    BY <1>3, <2>2, LookIs
  <2>3. QED
    BY <1>5, <1>12, <2>1, <2>2 DEF Clear
<1>13. CASE Spawn(c)
  BY <1>6, <1>13 DEF Spawn
<1>14. QED
  BY <1>7, <1>8, <1>9, <1>10, <1>11, <1>12, <1>13

\* The daemons' steps leave the commands and the excuses alone; a daemon comes up
\* only from where a coming one is.
LEMMA DaemonSide ==
    ASSUME Typed, NEW d \in Pid,
           \/ Bind(d) \/ OpenDiscovery(d) \/ WriteDiscovery(d) \/ Serve(d)
           \/ EndLoop(d) \/ Leave(d) \/ Signal(d) \/ Kill(d)
    PROVE  /\ UNCHANGED <<cli, excuse>>
           /\ \A e \in Pid \ {d} : at'[e] = at[e]
           /\ at'[d] \in {"spawned", "bound", "opened", "written"}
                => at[d] \in {"spawned", "bound", "opened", "written"}
           /\ at[d] = "dead" => at'[d] = "dead"
           /\ \A e \in Pid : Reachable(e)' => Reachable(e) \/ (e = d /\ Serve(d))
<1>1. CASE Bind(d) \/ OpenDiscovery(d) \/ WriteDiscovery(d)
  BY <1>1 DEF Typed, Bind, OpenDiscovery, WriteDiscovery, Step, Reachable
<1>2. CASE Serve(d) \/ EndLoop(d)
  BY <1>2 DEF Typed, Serve, EndLoop, Step, Reachable
<1>3. CASE Leave(d)
  BY <1>3 DEF Typed, Leave, Step, Reachable
<1>4. CASE Signal(d) \/ Kill(d)
  BY <1>4 DEF Typed, Signal, Kill, Reachable
<1>5. QED
  BY <1>1, <1>2, <1>3, <1>4

\* The commands' steps make no daemon reachable, and spawn one in a single place.
LEMMA CommandSide ==
    ASSUME Typed, NEW c \in Cli,
           \/ Read(c) \/ CheckPid(c) \/ ClearStale(c) \/ Ping(c)
           \/ Shutdown(c) \/ Clear(c) \/ Spawn(c)
           \/ \E cmd \in Command : Begin(c, cmd)
    PROVE  /\ \A e \in Pid : Reachable(e)' => Reachable(e)
           /\ UNCHANGED at \/ Spawn(c)
           /\ UNCHANGED file \/ ClearStale(c) \/ Clear(c)
           /\ ~excuse' => ~excuse
<1>1. CASE Read(c) \/ CheckPid(c) \/ ClearStale(c) \/ \E cmd \in Command : Begin(c, cmd)
  BY <1>1 DEF Typed, Read, CheckPid, ClearStale, Begin, Excuse, Reachable
<1>2. CASE Ping(c) \/ Clear(c)
  BY <1>2 DEF Typed, Ping, Clear, Excuse, Reachable
<1>3. CASE Shutdown(c)
  BY <1>3 DEF Typed, Shutdown, Excuse, Reachable
<1>4. CASE Spawn(c)
  BY <1>4 DEF Typed, Spawn, Step, Reachable
<1>5. QED
  BY <1>1, <1>2, <1>3, <1>4

LEMMA BeginIs ==
    ASSUME Typed, NEW c \in Cli, NEW cmd \in Command, Begin(c, cmd)
    PROVE  /\ cli'[c].cmd = cmd /\ cli'[c].stage = "first" /\ cli'[c].at = "read"
           /\ \A r \in Cli \ {c} : cli'[r] = cli[r]
           /\ UNCHANGED <<at, asked, file>>
           /\ ~excuse' /\ cmd # "query" => Settled
BY DEF Typed, Begin, Excuse

LEMMA StaleIsDeadStep ==
    ASSUME Typed, StaleIsDead, [Next]_vars
    PROVE  StaleIsDead'
<1> SUFFICES ASSUME NEW r \in Cli, cli'[r].at = "stale"
             PROVE  at'[cli'[r].saw] = "dead"
  BY DEF StaleIsDead
<1>1. ASSUME NEW d \in Pid,
             \/ Bind(d) \/ OpenDiscovery(d) \/ WriteDiscovery(d) \/ Serve(d)
             \/ EndLoop(d) \/ Leave(d) \/ Signal(d) \/ Kill(d)
      PROVE  at'[cli'[r].saw] = "dead"
  <2>1. cli' = cli
    BY <1>1, DaemonSide
  <2>2. at[cli[r].saw] = "dead" /\ cli[r].saw \in Pid
    BY <2>1, Working DEF StaleIsDead
  <2>3. QED
    BY <1>1, <2>1, <2>2, DaemonSide
<1>2. ASSUME NEW c \in Cli,
             \/ Read(c) \/ CheckPid(c) \/ ClearStale(c) \/ Ping(c)
             \/ Shutdown(c) \/ Clear(c) \/ Spawn(c)
      PROVE  at'[cli'[r].saw] = "dead"
  <2>1. CASE r = c
    <3>1. CheckPid(c) /\ cli'[c].saw = cli[c].saw /\ at[cli[c].saw] = "dead"
      BY <1>2, <2>1, Onward
    <3>2. QED
      BY <2>1, <3>1 DEF CheckPid
  <2>2. CASE r # c
    <3>1. cli'[r] = cli[r]
      BY <1>2, <2>2, Onward
    <3>2. at[cli[r].saw] = "dead" /\ cli[r].saw \in Pid
      BY <3>1, Working DEF StaleIsDead
    <3>3. CASE Spawn(c)
      BY <2>2, <3>1, <3>2, <3>3 DEF Spawn, Step, Typed
    <3>4. CASE UNCHANGED at
      BY <3>1, <3>2, <3>4
    <3>5. QED
      BY <1>2, <3>3, <3>4, CommandSide
  <2>3. QED
    BY <2>1, <2>2
<1>3. ASSUME NEW c \in Cli, NEW cmd \in Command, Begin(c, cmd)
      PROVE  at'[cli'[r].saw] = "dead"
  <2>1. r # c /\ cli'[r] = cli[r] /\ at' = at
    BY <1>3, BeginIs
  <2>2. QED
    BY <2>1 DEF StaleIsDead
<1>4. CASE UNCHANGED vars
  BY <1>4 DEF vars, StaleIsDead
<1>5. QED
  BY <1>1, <1>2, <1>3, <1>4, NextCases

LEMMA StaleIsDeadAlways == Spec => []StaleIsDead
<1>1. Init => StaleIsDead
  BY DEF Init, StaleIsDead, Idle
<1>2. Typed /\ StaleIsDead /\ [Next]_vars => StaleIsDead'
  BY StaleIsDeadStep
<1>3. QED
  BY <1>1, <1>2, TypedAlways, PTL DEF Spec

LEMMA AloneStep ==
    ASSUME Typed, Alone, [Next]_vars, ~excuse'
    PROVE  Alone'
<1>1. ASSUME NEW d \in Pid,
             \/ Bind(d) \/ OpenDiscovery(d) \/ WriteDiscovery(d) \/ Serve(d)
             \/ EndLoop(d) \/ Leave(d) \/ Signal(d) \/ Kill(d)
      PROVE  Alone'
  <2>1. cli' = cli
    BY <1>1, DaemonSide
  <2>2. QED
    BY <2>1 DEF Alone, Mutates
<1>2. ASSUME NEW c \in Cli,
             \/ Read(c) \/ CheckPid(c) \/ ClearStale(c) \/ Ping(c)
             \/ Shutdown(c) \/ Clear(c) \/ Spawn(c)
      PROVE  Alone'
  <2>1. \A r \in Cli : Mutates(r)' => Mutates(r)
    BY <1>2, Onward DEF Mutates
  <2>2. QED
    BY <2>1 DEF Alone
<1>3. ASSUME NEW c \in Cli, NEW cmd \in Command, Begin(c, cmd)
      PROVE  Alone'
  <2>1. CASE cmd = "query"
    <3>1. ~Mutates(c)' /\ \A r \in Cli \ {c} : cli'[r] = cli[r]
      BY <1>3, <2>1, BeginIs DEF Mutates
    <3>2. QED
      BY <3>1 DEF Alone, Mutates
  <2>2. CASE cmd # "query"
    <3>1. \A r \in Cli \ {c} : ~Mutates(r)'
      BY <1>3, <2>2, BeginIs DEF Mutates, Settled
    <3>2. QED
      BY <3>1 DEF Alone
  <2>3. QED
    BY <2>1, <2>2
<1>4. CASE UNCHANGED vars
  BY <1>4 DEF vars, Alone, Mutates
<1>5. QED
  BY <1>1, <1>2, <1>3, <1>4, NextCases

LEMMA NoneComingStep ==
    ASSUME Typed, Alone, NoneComing, [Next]_vars, ~excuse'
    PROVE  NoneComing'
<1>1. ASSUME NEW d \in Pid,
             \/ Bind(d) \/ OpenDiscovery(d) \/ WriteDiscovery(d) \/ Serve(d)
             \/ EndLoop(d) \/ Leave(d) \/ Signal(d) \/ Kill(d)
      PROVE  NoneComing'
  <2>1. \A r \in Cli : BeforeSpawn(r)' => BeforeSpawn(r)
    BY <1>1, DaemonSide DEF BeforeSpawn, Mutates
  <2>2. \A e \in Pid : at'[e] \in {"spawned", "bound", "opened", "written"}
                         => at[e] \in {"spawned", "bound", "opened", "written"}
    BY <1>1, DaemonSide
  <2>3. QED
    BY <2>1, <2>2 DEF NoneComing
<1>2. ASSUME NEW c \in Cli,
             \/ Read(c) \/ CheckPid(c) \/ ClearStale(c) \/ Ping(c)
             \/ Shutdown(c) \/ Clear(c) \/ Spawn(c)
      PROVE  NoneComing'
  <2>1. \A r \in Cli : BeforeSpawn(r)' => BeforeSpawn(r)
    BY <1>2, Onward DEF BeforeSpawn, Mutates
  <2>2. CASE Spawn(c)
    <3>1. Mutates(c)
      <4>1. Placed(cli[c]) /\ cli[c].at = "spawn"
        BY <2>2 DEF Spawn, Typed
      <4>2. QED
        BY <4>1 DEF Placed, Mutates
    <3>2. ~BeforeSpawn(c)'
      <4>1. /\ cli'[c] = Starting(cli[c].cmd, "wait", "read", None)
            /\ cli[c].cmd # "stop"
        <5>1. Placed(cli[c]) /\ cli[c].at = "spawn" /\ cli \in [Cli -> Doing]
          BY <2>2 DEF Spawn, Typed
        <5>2. Becomes(c, Starting(cli[c].cmd, "wait", "read", None))
          BY <2>2, LookIs DEF Spawn
        <5>3. QED
          BY <5>1, <5>2 DEF Placed, Becomes
      <4>2. QED
        BY <4>1 DEF BeforeSpawn, Starting
    <3>3. \A r \in Cli : ~BeforeSpawn(r)'
      BY <2>1, <3>1, <3>2 DEF Alone, BeforeSpawn
    <3>4. QED
      BY <3>3 DEF NoneComing
  <2>3. CASE UNCHANGED at
    BY <2>1, <2>3 DEF NoneComing
  <2>4. QED
    BY <1>2, <2>2, <2>3, CommandSide
<1>3. ASSUME NEW c \in Cli, NEW cmd \in Command, Begin(c, cmd)
      PROVE  NoneComing'
  <2>1. CASE cmd = "query"
    <3>1. /\ ~BeforeSpawn(c)' /\ at' = at
          /\ \A r \in Cli \ {c} : cli'[r] = cli[r]
      BY <1>3, <2>1, BeginIs DEF BeforeSpawn, Mutates
    <3>2. QED
      BY <3>1 DEF NoneComing, BeforeSpawn, Mutates
  <2>2. CASE cmd # "query"
    BY <1>3, <2>2, BeginIs DEF Settled, NoneComing
  <2>3. QED
    BY <2>1, <2>2
<1>4. CASE UNCHANGED vars
  BY <1>4 DEF vars, NoneComing, BeforeSpawn, Mutates
<1>5. QED
  BY <1>1, <1>2, <1>3, <1>4, NextCases

\* The command itself, on its way to the daemon it heads for.
LEMMA HeadingOn ==
    ASSUME Typed, StaleIsDead, Heading, FileKept, ~excuse', NEW c \in Cli, NEW d \in Pid,
           \/ Read(c) \/ CheckPid(c) \/ ClearStale(c) \/ Ping(c)
           \/ Shutdown(c) \/ Clear(c) \/ Spawn(c),
           BeforeSpawn(c)', Reachable(d)'
    PROVE  /\ cli'[c].stage = "first" /\ cli'[c].at \in {"read", "pid", "ping", "shutdown"}
           /\ cli'[c].at # "read" => cli'[c].saw = d
<1>1. BeforeSpawn(c) /\ Reachable(d) /\ cli[c].cmd # "none" /\ cli \in [Cli -> Doing]
  BY Onward, CommandSide DEF BeforeSpawn, Mutates, Typed
<1>2. /\ cli[c].stage = "first" /\ cli[c].at \in {"read", "pid", "ping", "shutdown"}
      /\ cli[c].at # "read" => cli[c].saw = d
  BY <1>1 DEF Heading
<1>3. CASE Read(c)
  <2>1. file = [pid |-> d, whole |-> TRUE]
    BY <1>1 DEF FileKept
  <2>2. file # None /\ file.whole /\ file.pid = d
    <3>1. [pid |-> d, whole |-> TRUE] \in [pid : Pid, whole : BOOLEAN]
      OBVIOUS
    <3>2. QED
      BY <2>1, <3>1, DaemonAssumption
  <2>3. Becomes(c, Starting(cli[c].cmd, cli[c].stage, "pid", d))
    BY <1>3, <2>2, ReadIs
  <2>4. cli'[c] = Starting(cli[c].cmd, cli[c].stage, "pid", d)
    BY <1>1, <2>3 DEF Becomes
  <2>5. QED
    BY <1>2, <2>4 DEF Starting
<1>4. CASE CheckPid(c)
  <2>1. cli[c].saw = d /\ at[d] = "serving"
    BY <1>1, <1>2, <1>4 DEF CheckPid, Reachable
  <2>2. Becomes(c, Starting(cli[c].cmd, cli[c].stage, "ping", d))
    <3>1. Goto(c, "ping")
      BY <1>4, <2>1 DEF CheckPid
    <3>2. QED
      BY <2>1, <3>1, GotoIs
  <2>3. cli'[c] = Starting(cli[c].cmd, cli[c].stage, "ping", d)
    BY <1>1, <2>2 DEF Becomes
  <2>4. QED
    BY <1>2, <2>3 DEF Starting
<1>5. CASE Ping(c)
  <2>1. cli[c].saw = d /\ at[d] = "serving" /\ d \notin asked
    BY <1>1, <1>2, <1>5 DEF Ping, Reachable
  <2>2. Found(c)
    BY <1>1, <1>5, <2>1 DEF Ping, Answers, Excuse, BeforeSpawn, Mutates
  <2>4. ~Becomes(c, Idle)
    BY <1>1 DEF Becomes, Idle, BeforeSpawn, Mutates
  <2>5. Becomes(c, Starting(cli[c].cmd, "first", "shutdown", d))
    BY <1>1, <1>2, <2>1, <2>2, <2>4, FoundIs
  <2>6. cli'[c] = Starting(cli[c].cmd, "first", "shutdown", d)
    BY <1>1, <2>5 DEF Becomes
  <2>7. QED
    BY <2>6 DEF Starting
<1>6. CASE Shutdown(c)
  <2>1. cli[c].saw = d /\ at[d] = "serving"
    BY <1>1, <1>2, <1>6 DEF Shutdown, Reachable
  <2>2. d \in asked'
    BY <1>6, <2>1 DEF Shutdown, Answers, Excuse
  <2>3. QED
    BY <2>2 DEF Reachable
<1>7. CASE ClearStale(c) \/ Clear(c) \/ Spawn(c)
  BY <1>2, <1>7 DEF ClearStale, Clear, Spawn
<1>8. QED
  BY <1>3, <1>4, <1>5, <1>6, <1>7

LEMMA HeadingStep ==
    ASSUME Typed, StaleIsDead, NoneComing, Heading, FileKept, [Next]_vars, ~excuse'
    PROVE  Heading'
<1> SUFFICES ASSUME NEW r \in Cli, NEW e \in Pid, BeforeSpawn(r)', Reachable(e)'
             PROVE  /\ cli'[r].stage = "first"
                    /\ cli'[r].at \in {"read", "pid", "ping", "shutdown"}
                    /\ cli'[r].at # "read" => cli'[r].saw = e
  BY DEF Heading
<1> DEFINE Goal == /\ cli'[r].stage = "first"
                   /\ cli'[r].at \in {"read", "pid", "ping", "shutdown"}
                   /\ cli'[r].at # "read" => cli'[r].saw = e
<1>1. ASSUME cli'[r] = cli[r], Reachable(e)
      PROVE  Goal
  BY <1>1 DEF Heading, BeforeSpawn, Mutates
<1>2. ASSUME NEW d \in Pid,
             \/ Bind(d) \/ OpenDiscovery(d) \/ WriteDiscovery(d) \/ Serve(d)
             \/ EndLoop(d) \/ Leave(d) \/ Signal(d) \/ Kill(d)
      PROVE  Goal
  <2>1. cli' = cli /\ (Reachable(e) \/ (e = d /\ Serve(d)))
    BY <1>2, DaemonSide
  <2>2. CASE Serve(d)
    <3>1. BeforeSpawn(r) /\ at[d] = "written"
      BY <2>1, <2>2 DEF BeforeSpawn, Mutates, Serve, Step
    <3>2. QED
      BY <3>1 DEF NoneComing
  <2>3. QED
    BY <1>1, <2>1, <2>2
<1>3. ASSUME NEW c \in Cli,
             \/ Read(c) \/ CheckPid(c) \/ ClearStale(c) \/ Ping(c)
             \/ Shutdown(c) \/ Clear(c) \/ Spawn(c)
      PROVE  Goal
  <2>1. CASE r = c
    BY <1>3, <2>1, HeadingOn
  <2>2. CASE r # c
    BY <1>1, <1>3, <2>2, Onward, CommandSide
  <2>3. QED
    BY <2>1, <2>2
<1>4. ASSUME NEW c \in Cli, NEW cmd \in Command, Begin(c, cmd)
      PROVE  Goal
  <2>1. CASE r = c
    BY <1>4, <2>1, BeginIs
  <2>2. CASE r # c
    BY <1>1, <1>4, <2>2, BeginIs, CommandSide
  <2>3. QED
    BY <2>1, <2>2
<1>5. CASE UNCHANGED vars
  BY <1>1, <1>5 DEF vars, Reachable
<1>6. QED
  BY <1>2, <1>3, <1>4, <1>5, NextCases

LEMMA FileKeptStep ==
    ASSUME Typed, OnePort, StaleIsDead, NoneComing, Heading, FileKept, [Next]_vars, ~excuse'
    PROVE  FileKept'
<1>1. ASSUME NEW d \in Pid, OpenDiscovery(d) \/ WriteDiscovery(d)
      PROVE  FileKept'
  <2>1. /\ at[d] \in Holding /\ at \in [Pid -> {"dead", "spawned"} \cup Holding]
        /\ \A e \in Pid \ {d} : at'[e] = at[e]
        /\ asked' = asked
    BY <1>1 DEF OpenDiscovery, WriteDiscovery, Step, Holding, Typed
  <2>2. \A e \in Pid \ {d} : at'[e] \notin Holding
    BY <2>1 DEF OnePort
  <2>3. CASE OpenDiscovery(d)
    <3>1. at'[d] = "opened" /\ file' = [pid |-> d, whole |-> FALSE]
      BY <2>1, <2>3 DEF OpenDiscovery, Step
    <3>2. QED
      BY <2>2, <3>1 DEF FileKept, Reachable, Holding
  <2>4. CASE WriteDiscovery(d)
    <3>1. at'[d] = "written" /\ file' = [pid |-> d, whole |-> TRUE]
      BY <2>1, <2>4 DEF WriteDiscovery, Step, FileKept
    <3>2. QED
      BY <2>2, <3>1 DEF FileKept, Reachable, Holding
  <2>5. QED
    BY <1>1, <2>3, <2>4
<1>2. ASSUME NEW d \in Pid, Leave(d)
      PROVE  FileKept'
  <2>1. /\ at[d] \in {"ended", "cleared"} /\ at'[d] \in {"cleared", "dead"}
        /\ \A e \in Pid \ {d} : at'[e] = at[e]
    BY <1>2 DEF Leave, Step, Typed
  <2>2. \A e \in Pid \ {d} : at[e] \notin Holding
    BY <2>1 DEF OnePort, Holding
  <2>3. \A e \in Pid : at'[e] \notin {"opened", "written", "serving"}
    BY <2>1, <2>2 DEF Holding
  <2>4. QED
    BY <2>3 DEF FileKept, Reachable
<1>3. ASSUME NEW d \in Pid, Bind(d) \/ Serve(d) \/ EndLoop(d) \/ Signal(d) \/ Kill(d)
      PROVE  FileKept'
  <2>1. file' = file
    BY <1>3 DEF Bind, Serve, EndLoop, Signal, Kill
  <2>2. \A e \in Pid : /\ at'[e] = "opened" => at[e] = "opened"
                       /\ at'[e] = "written" => at[e] = "written"
    BY <1>3 DEF Bind, Serve, EndLoop, Signal, Kill, Step, Typed
  <2>3. \A e \in Pid : Reachable(e)' => Reachable(e) \/ at[e] = "written"
    BY <1>3, DaemonSide DEF Serve, Step
  <2>4. QED
    BY <2>1, <2>2, <2>3 DEF FileKept
<1>4. ASSUME NEW c \in Cli, ClearStale(c)
      PROVE  FileKept'
  <2>1. at' = at /\ asked' = asked /\ file' = None /\ (file = None \/ file.pid = cli[c].saw)
    BY <1>4 DEF ClearStale, Excuse
  <2>2. at[cli[c].saw] = "dead"
    BY <1>4 DEF ClearStale, StaleIsDead
  <2>3. ASSUME NEW e \in Pid, at[e] \in {"opened", "written"} \/ Reachable(e)
        PROVE  FALSE
    <3>1. PICK b \in BOOLEAN : file = [pid |-> e, whole |-> b]
      BY <2>3 DEF FileKept
    <3>2. [pid |-> e, whole |-> b] \in [pid : Pid, whole : BOOLEAN]
      OBVIOUS
    <3>3. file # None /\ file.pid = e
      BY <3>1, <3>2, DaemonAssumption
    <3>4. QED
      BY <2>1, <2>2, <2>3, <3>3 DEF Reachable
  <2>4. QED
    BY <2>1, <2>3 DEF FileKept, Reachable
<1>5. ASSUME NEW c \in Cli, Clear(c)
      PROVE  FileKept'
  <2>1. BeforeSpawn(c) /\ cli[c].at = "clear"
    <3>1. Placed(cli[c]) /\ cli[c].at = "clear"
      BY <1>5 DEF Clear, Typed
    <3>2. QED
      BY <3>1 DEF Placed, BeforeSpawn, Mutates
  <2>2. at' = at /\ asked' = asked
    BY <1>5 DEF Clear
  <2>3. \A e \in Pid : at[e] \notin {"opened", "written"} /\ ~Reachable(e)
    BY <2>1 DEF NoneComing, Heading
  <2>4. QED
    BY <2>2, <2>3 DEF FileKept, Reachable
<1>6. ASSUME NEW c \in Cli,
             \/ Read(c) \/ CheckPid(c) \/ Ping(c) \/ Shutdown(c) \/ Spawn(c)
             \/ \E cmd \in Command : Begin(c, cmd)
      PROVE  FileKept'
  <2>1. file' = file
    BY <1>6 DEF Read, CheckPid, Ping, Shutdown, Spawn, Begin
  <2>2. \A e \in Pid : /\ at'[e] = "opened" => at[e] = "opened"
                       /\ at'[e] = "written" => at[e] = "written"
    BY <1>6 DEF Read, CheckPid, Ping, Shutdown, Spawn, Begin, Step, Typed
  <2>3. \A e \in Pid : Reachable(e)' => Reachable(e)
    BY <1>6, CommandSide
  <2>4. QED
    BY <2>1, <2>2, <2>3 DEF FileKept
<1>7. CASE UNCHANGED vars
  BY <1>7 DEF vars, FileKept, Reachable
<1>8. QED
  BY <1>1, <1>2, <1>3, <1>4, <1>5, <1>6, <1>7, NextCases

\* "A startup race can't orphan a daemon that's about to be ready"
\* (daemon_client.py:130): unless one of the cases named at Excuse has come about, a
\* daemon that serves and wasn't told to stop is the one the discovery file names.
THEOREM ServingFound == Spec => []ServingIsFound
<1>1. Init => Kept
  BY DEF Init, Kept, Alone, NoneComing, Heading, FileKept, Mutates, BeforeSpawn, Reachable,
         Idle
<1>2. Typed /\ OnePort /\ StaleIsDead /\ Kept /\ [Next]_vars => Kept'
  <2> SUFFICES ASSUME Typed, OnePort, StaleIsDead, Kept, [Next]_vars, ~excuse'
               PROVE  Alone' /\ NoneComing' /\ Heading' /\ FileKept'
    BY DEF Kept
  <2>1. ~excuse
    <3>1. CASE \E d \in Pid : \/ Bind(d) \/ OpenDiscovery(d) \/ WriteDiscovery(d) \/ Serve(d)
                              \/ EndLoop(d) \/ Leave(d) \/ Signal(d) \/ Kill(d)
      BY <3>1, DaemonSide
    <3>2. CASE \E c \in Cli : \/ Read(c) \/ CheckPid(c) \/ ClearStale(c) \/ Ping(c)
                              \/ Shutdown(c) \/ Clear(c) \/ Spawn(c)
                              \/ \E cmd \in Command : Begin(c, cmd)
      BY <3>2, CommandSide
    <3>3. CASE UNCHANGED vars
      BY <3>3 DEF vars
    <3>4. QED
      BY <3>1, <3>2, <3>3, NextCases
  <2>2. Alone /\ NoneComing /\ Heading /\ FileKept
    BY <2>1 DEF Kept
  <2>3. QED
    BY <2>2, AloneStep, NoneComingStep, HeadingStep, FileKeptStep
<1>3. Kept => ServingIsFound
  BY DEF Kept, FileKept, Reachable, ServingIsFound
<1>4. QED
  BY <1>1, <1>2, <1>3, TypedAlways, OnePortAlways, StaleIsDeadAlways, PTL DEF Spec
================================================================================

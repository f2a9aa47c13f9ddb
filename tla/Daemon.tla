------------------------------- MODULE Daemon -------------------------------
(***************************************************************************)
(* The per-user daemon and the discovery file by which commands find it:   *)
(* `neuralmind daemon start', `restart' and `stop', the daemon processes   *)
(* they spawn and shut down, and every other command, which prefers a      *)
(* running daemon and cleans up after a dead one.  Each look at the file,  *)
(* at a pid or at the socket is a step, and so is each write.              *)
(*                                                                         *)
(* All daemons are given the same port, the default one.  Left out: what a *)
(* daemon serves (the project registry and its jobs), the token, which     *)
(* goes with the pid, permissions, and `start --foreground', which clears  *)
(* and spawns nothing and serves in the command's own process.             *)
(***************************************************************************)
EXTENDS Naturals, FiniteSets

CONSTANTS Cli,      \* command-line processes
          Pid,      \* daemon processes; a dead one's pid is used again
          None,
          MaxKills, \* bound: daemons killed
          MaxSlow   \* bound: requests a serving daemon doesn't answer in time

ASSUME DaemonAssumption ==
    {MaxKills, MaxSlow} \subseteq Nat /\ None \notin Pid \cup [pid : Pid, whole : BOOLEAN]

VARIABLES file,     \* the discovery file: None, or [pid, whole]
          at,       \* where each daemon is, "dead" when there is none
          asked,    \* daemons told to shut down
          cli,      \* what each command is doing
          kills, slow,
          excuse    \* history: one of the cases named at Excuse has come about

vars == <<file, at, asked, cli, kills, slow, excuse>>

Idle == [cmd |-> "none", stage |-> "first", at |-> "none", saw |-> None]

\* From bind() to server_close() a daemon holds the port.
Holding == {"bound", "opened", "written", "serving", "ended", "cleared"}

TypeOK ==
    /\ file \in {None} \cup [pid : Pid, whole : BOOLEAN]
    /\ at \in [Pid -> {"dead", "spawned"} \cup Holding]
    /\ asked \subseteq {d \in Pid : at[d] \notin {"dead", "spawned"}}
    /\ \A c \in Cli : cli[c] = Idle \/
        /\ cli[c].cmd \in {"start", "restart", "stop", "query"}
        /\ cli[c].stage \in {"first", "again", "wait"}
        /\ cli[c].at \in {"read", "pid", "stale", "ping", "shutdown", "clear", "spawn"}
        /\ cli[c].saw \in Pid \cup {None}
    /\ Cardinality({d \in Pid : at[d] \in Holding}) <= 1
    /\ kills \in 0..MaxKills /\ slow \in 0..MaxSlow /\ excuse \in BOOLEAN

Init ==
    /\ file = None
    /\ at = [d \in Pid |-> "dead"] /\ asked = {}
    /\ cli = [c \in Cli |-> Idle]
    /\ kills = 0 /\ slow = 0 /\ excuse = FALSE

--------------------------------------------------------------------------------
\* create_server and serve, of daemon d.
Step(d, from, to) == at[d] = from /\ at' = [at EXCEPT ![d] = to]

\* Mutants of PortFree: the listener shares its port; serve closes its socket
\* before it removes the file.
PortShared == TRUE
PortFreedFirst == \A e \in Pid : at[e] \notin Holding \ {"ended"}
PortFree == \A e \in Pid : at[e] \notin Holding

Bind(d) ==
    /\ Step(d, "spawned", IF PortFree THEN "bound" ELSE "dead")
    /\ UNCHANGED <<file, asked, cli, kills, slow, excuse>>

\* write_discovery: O_TRUNC, then the write, which is lost when the file was
\* unlinked in between.
OpenDiscovery(d) ==
    /\ Step(d, "bound", "opened") /\ file' = [pid |-> d, whole |-> FALSE]
    /\ UNCHANGED <<asked, cli, kills, slow, excuse>>

WriteDiscovery(d) ==
    /\ Step(d, "opened", "written")
    /\ file' = IF file = [pid |-> d, whole |-> FALSE] THEN [pid |-> d, whole |-> TRUE] ELSE file
    /\ UNCHANGED <<asked, cli, kills, slow, excuse>>

Serve(d) ==
    /\ Step(d, "written", "serving")
    /\ UNCHANGED <<file, asked, cli, kills, slow, excuse>>

\* SIGTERM, and Ctrl-C of a daemon in the foreground.
Signal(d) ==
    /\ at[d] \in {"written", "serving"} /\ asked' = asked \cup {d}
    /\ UNCHANGED <<file, at, cli, kills, slow, excuse>>

EndLoop(d) ==
    /\ d \in asked /\ Step(d, "serving", "ended")
    /\ UNCHANGED <<file, asked, cli, kills, slow, excuse>>

\* serve's finally: the file goes first, whoever it names, and the port after it.
Leave(d) ==
    /\ \/ Step(d, "ended", "cleared") /\ file' = None /\ UNCHANGED asked
       \/ Step(d, "cleared", "dead") /\ asked' = asked \ {d} /\ UNCHANGED file
    /\ UNCHANGED <<cli, kills, slow, excuse>>

Kill(d) ==
    /\ at[d] # "dead" /\ kills < MaxKills /\ kills' = kills + 1
    /\ at' = [at EXCEPT ![d] = "dead"] /\ asked' = asked \ {d}
    /\ UNCHANGED <<file, cli, slow, excuse>>

--------------------------------------------------------------------------------
\* What may leave a serving daemon without its file, or cost it the file:
\*   hasty    a start, restart or stop begins while another goes on, or before the
\*            daemons have settled
\*   slow     a request to a serving daemon isn't answered in time
\*   overtaken  the file is another's by the time a dead daemon's is removed
Excuse(why) == excuse' = (excuse \/ why)

Settled ==
    /\ \A d \in Pid : at[d] \in {"dead", "serving"} /\ d \notin asked
    /\ \A c \in Cli : cli[c].cmd \in {"none", "query"}

Begin(c, cmd) ==
    /\ cli[c] = Idle
    /\ cli' = [cli EXCEPT ![c] = [cmd |-> cmd, stage |-> "first", at |-> "read", saw |-> None]]
    /\ Excuse(cmd # "query" /\ ~Settled)
    /\ UNCHANGED <<file, at, asked, kills, slow>>

Goto(c, place) ==
    cli' = [cli EXCEPT ![c].at = place,
                       ![c].saw = IF place \in {"clear", "spawn"} THEN None ELSE @]
Done(c) == cli' = [cli EXCEPT ![c] = Idle]
Look(c, stage) == cli' = [cli EXCEPT ![c].stage = stage, ![c].at = "read", ![c].saw = None]

\* connect() gave no client: a waiting start tries again, or gives up.
Missing(c) ==
    LET cmd == cli[c].cmd stage == cli[c].stage IN
    \/ /\ cmd = "query" \/ (cmd = "stop" /\ stage = "first")
       /\ Done(c)
    \/ cmd = "restart" /\ stage = "first" /\ Look(c, "again")
    \/ cmd = "start" /\ stage = "first" /\ Goto(c, "clear")
    \/ cmd = "restart" /\ stage = "again" /\ Goto(c, "clear")
    \/ cmd = "stop" /\ stage = "wait" /\ Goto(c, "clear")
    \/ cmd \in {"start", "restart"} /\ stage = "wait" /\ (Look(c, "wait") \/ Done(c))

\* connect() gave a client: a waiting stop tries again, or has waited enough.
Found(c) ==
    LET cmd == cli[c].cmd stage == cli[c].stage IN
    IF cmd \in {"restart", "stop"} /\ stage = "first" THEN Goto(c, "shutdown")
    ELSE IF cmd = "stop" THEN Look(c, "wait") \/ Goto(c, "clear")
    ELSE Done(c)

\* connect(), a step at a time.  Mutant of Read: any file is a running daemon.
ReadTrusting(c) ==
    /\ cli[c].at = "read"
    /\ IF file # None /\ file.whole THEN Done(c) ELSE Missing(c)
    /\ UNCHANGED <<file, at, asked, kills, slow, excuse>>

Read(c) ==
    /\ cli[c].at = "read"
    /\ IF file # None /\ file.whole
       THEN cli' = [cli EXCEPT ![c].saw = file.pid, ![c].at = "pid"]
       ELSE Missing(c)
    /\ UNCHANGED <<file, at, asked, kills, slow, excuse>>

\* A dead daemon's pid may be another program's by now.
CheckPid(c) ==
    /\ cli[c].at = "pid"
    /\ Goto(c, "ping") \/ (at[cli[c].saw] = "dead" /\ Goto(c, "stale"))
    /\ UNCHANGED <<file, at, asked, kills, slow, excuse>>

ClearStale(c) ==
    /\ cli[c].at = "stale"
    /\ file' = None /\ Missing(c)
    /\ Excuse(file # None /\ file.pid # cli[c].saw)
    /\ UNCHANGED <<at, asked, kills, slow>>

Answers(d) == at[d] = "serving"

\* A daemon that was told to shut down may go on answering until it has.
Ping(c) ==
    /\ cli[c].at = "ping"
    /\ \/ Answers(cli[c].saw) /\ Found(c) /\ UNCHANGED <<slow, excuse>>
       \/ ~Answers(cli[c].saw) /\ Missing(c) /\ UNCHANGED <<slow, excuse>>
       \/ cli[c].saw \in asked /\ Missing(c) /\ UNCHANGED <<slow, excuse>>
       \/ /\ Answers(cli[c].saw) /\ Missing(c)
          /\ slow < MaxSlow /\ slow' = slow + 1 /\ Excuse(cli[c].cmd # "query")
    /\ UNCHANGED <<file, at, asked, kills>>

\* POST /shutdown, whose failure is ignored.
Shutdown(c) ==
    /\ cli[c].at = "shutdown"
    /\ IF cli[c].cmd = "stop" THEN Look(c, "wait") ELSE Goto(c, "clear")
    /\ \/ /\ asked' = IF Answers(cli[c].saw) THEN asked \cup {cli[c].saw} ELSE asked
          /\ UNCHANGED <<slow, excuse>>
       \/ Answers(cli[c].saw) /\ slow < MaxSlow /\ slow' = slow + 1 /\ Excuse(TRUE) /\ UNCHANGED asked
    /\ UNCHANGED <<file, at, kills>>

\* clear_discovery, of a command.
Clear(c) ==
    /\ cli[c].at = "clear"
    /\ file' = None
    /\ IF cli[c].cmd = "stop" THEN Done(c)
       ELSE IF cli[c].cmd = "restart" /\ cli[c].stage = "first" THEN Look(c, "again")
       ELSE Goto(c, "spawn")
    /\ UNCHANGED <<at, asked, kills, slow, excuse>>

Spawn(c) ==
    /\ cli[c].at = "spawn"
    /\ \E d \in Pid :
        /\ file \notin [pid : {d}, whole : BOOLEAN] /\ \A r \in Cli \ {c} : cli[r].saw # d
        /\ Step(d, "dead", "spawned")
    /\ Look(c, "wait")
    /\ UNCHANGED <<file, asked, kills, slow, excuse>>

--------------------------------------------------------------------------------
DaemonSteps(d) ==
    Bind(d) \/ OpenDiscovery(d) \/ WriteDiscovery(d) \/ Serve(d) \/ EndLoop(d) \/ Leave(d)

CliSteps(c) ==
    Read(c) \/ CheckPid(c) \/ ClearStale(c) \/ Ping(c) \/ Shutdown(c) \/ Clear(c) \/ Spawn(c)

Next ==
    \/ \E d \in Pid : DaemonSteps(d) \/ Signal(d) \/ Kill(d)
    \/ \E c \in Cli : \/ CliSteps(c)
                      \/ \E cmd \in {"start", "restart", "stop", "query"} : Begin(c, cmd)

\* Processes go on, and someone keeps starting the daemon.
Fairness ==
    /\ \A d \in Pid : WF_vars(DaemonSteps(d))
    /\ \A c \in Cli : WF_vars(CliSteps(c)) /\ SF_vars(Begin(c, "start"))

Spec == Init /\ [][Next]_vars /\ Fairness

--------------------------------------------------------------------------------
\* A daemon that serves, and wasn't told to stop, is the one the discovery file
\* names: nothing that a daemon or a command leaves behind, removes late or finds
\* half-written takes it out of the commands' reach (connect, serve, cmd_daemon).
ServingIsFound ==
    ~excuse => \A d \in Pid : at[d] = "serving" /\ d \notin asked =>
                    file = [pid |-> d, whole |-> TRUE]

\* A crash never wedges the commands: whatever files and processes are left, starting
\* the daemon again and again gets one that is found.
StartServes ==
    []<>(excuse \/ \E d \in Pid : at[d] = "serving" /\ file = [pid |-> d, whole |-> TRUE])
================================================================================

---------------------------- MODULE ClientLaunch ----------------------------
(***************************************************************************)
(* How the per-configuration client daemon is started, found, stopped and  *)
(* replaced (clientd/launch.rs, the attach, status and stop halves of      *)
(* clientd/daemon.rs, the Unix half of clientd/ipc.rs, update.rs).         *)
(*                                                                         *)
(* Commands (bare gregg, daemon stop, daemon restart, update) run in       *)
(* processes that share nothing but the launch lock and the two socket     *)
(* paths a daemon may bind.  A daemon may also be started without the lock *)
(* (gregg daemon run, login registration), killed at any step, or told to  *)
(* stop by a signal.                                                       *)
(*                                                                         *)
(* Time is abstract: a bounded wait may expire whenever what it waits for  *)
(* has not happened.  Versions are the values of PROTOCOL_VERSION.         *)
(***************************************************************************)
EXTENDS Integers, FiniteSets, FiniteSetsExt

CONSTANTS
    Launchers,       \* processes running one command each
    Commands,        \* the commands each of them may run
    MaxDaemons,      \* daemons that may ever be started, the initial one included
    MaxVersion,      \* newest protocol version
    MaxFaults,       \* starts without the lock, kills, signals, bad
                     \* configurations and late answers
    MismatchFrames   \* how a daemon of another version answers a handshake

CommandNames == {"ensure", "stop", "restart", "update"}
Free == "free"                      \* the launch lock's holder when it has none

ASSUME LaunchAssumption ==
    /\ Free \notin Launchers
    /\ Commands \in [Launchers -> SUBSET CommandNames]
    /\ {MaxDaemons, MaxVersion} \subseteq Nat \ {0}
    /\ MaxFaults \in Nat
    /\ MismatchFrames \subseteq {"protocolError", "versionMismatch"}

VARIABLES
    exe,       \* version of the installed executable
    socket,    \* what each candidate path names
    dmn,       \* the daemons: program counter, version, candidate in hand
    lock,      \* holder of the launch lock
    run,       \* the command each launcher is executing
    faults,
    calm       \* history: only commands holding the lock have acted so far

vars == <<exe, socket, dmn, lock, run, faults, calm>>

Daemons == 1..MaxDaemons
Nobody == 0
Stranger == MaxDaemons + 1          \* a live listener that is not Gregg's
Peers == Daemons \cup {Nobody, Stranger}
Versions == 1..MaxVersion

(* identity.rs candidates: beside the configuration, then the temporary    *)
(* directory.                                                              *)
Candidates == 1..2

DaemonPcs == {"unborn", "check", "remove", "bind",
              "serving", "draining", "closed", "gone"}

LauncherPcs == {"idle", "dial", "await", "lock", "spawn", "ack", "vanish",
                "replace", "done"}

Calls == {"probe", "reprobe", "status", "restatus", "halt", "final", "ready"}

DaemonStates == [pc : DaemonPcs, ver : Versions, at : Candidates]

LauncherStates ==
    [pc : LauncherPcs, cmd : CommandNames \cup {"none"}, call : Calls, ver : Versions,
     peer : Peers, told : Daemons \cup {Nobody}, ran : BOOLEAN,
     result : {"none", "ok", "failed"}]

TypeOK ==
    /\ exe \in Versions
    /\ socket \in [Candidates -> Peers]
    /\ dmn \in [Daemons -> DaemonStates]
    /\ lock \in Launchers \cup {Free}
    /\ run \in [Launchers -> LauncherStates]
    /\ faults \in 0..MaxFaults
    /\ calm \in BOOLEAN

-----------------------------------------------------------------------------
(* Whether a connect to what a path names succeeds: the listener lives     *)
(* until the accept loop of a stopping daemon has ended.                   *)
Connectable(s) ==
    \/ s = Stranger
    \/ s \in Daemons /\ dmn[s].pc \in {"serving", "draining"}

(* ipc.rs endpoint_is_live is path.exists(): a socket left by a crashed    *)
(* daemon counts as live.                                                  *)
EndpointGone == \A c \in Candidates : socket[c] = Nobody

(* What an exited process was is forgotten.                                *)
SetDaemon(d, pc) ==
    dmn' = [dmn EXCEPT ![d] = IF pc = "gone" THEN [pc |-> pc, ver |-> 1, at |-> 1]
                                             ELSE [@ EXCEPT !.pc = pc]]

(* A command ends; the lock guard, if held, is dropped, and only a success *)
(* says which daemon was reached.                                          *)
Finish(l, result) ==
    /\ run' = [run EXCEPT ![l].pc = "done", ![l].result = result, ![l].ran = FALSE,
                          ![l].peer = IF result = "ok" THEN @ ELSE Nobody]
    /\ lock' = IF lock = l THEN Free ELSE lock

Goto(l, pc) ==
    /\ run' = [run EXCEPT ![l].pc = pc]
    /\ UNCHANGED lock

Call(l, call) ==
    /\ run' = [run EXCEPT ![l].pc = "dial", ![l].call = call]
    /\ UNCHANGED lock

-----------------------------------------------------------------------------
(* The caller's reaction to one attach.  "older" is an identified daemon   *)
(* of an older protocol, "other" everything else that is not absence.      *)

(* ensure_running's probe outside the lock.                                *)
AfterProbe(l, outcome) ==
    CASE outcome = "hello"              -> Finish(l, "ok")
      [] outcome \in {"absent", "older"} -> Goto(l, "lock")
      [] outcome = "other"              -> Finish(l, "failed")

(* Its second probe, under the lock: the only one that may act.            *)
AfterReprobe(l, outcome) ==
    CASE outcome = "hello"  -> Finish(l, "ok")
      [] outcome = "absent" -> Goto(l, "spawn")
      [] outcome = "older"  -> Call(l, "halt")
      [] outcome = "other"  -> Finish(l, "failed")

(* daemon::stop begins with an attach; only a daemon that said hello is    *)
(* sent the shutdown request.                                              *)
AfterHalt(l, outcome) ==
    IF outcome = "hello"
    THEN /\ run' = [run EXCEPT ![l].pc = "ack", ![l].told = run[l].peer]
         /\ UNCHANGED lock
    ELSE Finish(l, "failed")

(* The attach that follows a rotation.                                     *)
AfterFinal(l, outcome) ==
    Finish(l, IF outcome = "hello" THEN "ok" ELSE "failed")

(* update.rs: whether a daemon is running is decided before anything else. *)
AfterStatus(l, outcome) ==
    /\ run' = [run EXCEPT ![l].pc = "replace", ![l].ran = (outcome = "hello")]
    /\ UNCHANGED lock

(* restart: a daemon that does not say hello is not running.               *)
AfterRestatus(l, outcome) ==
    IF outcome = "hello" THEN Call(l, "halt") ELSE Goto(l, "spawn")

(* wait_ready: any failure is retried until the deadline.                  *)
AfterReady(l, outcome) ==
    IF outcome = "hello" THEN Finish(l, "ok") ELSE Call(l, "ready")

Resolve(l, outcome) ==
    CASE run[l].call = "probe"    -> AfterProbe(l, outcome)
      [] run[l].call = "reprobe"  -> AfterReprobe(l, outcome)
      [] run[l].call = "status"   -> AfterStatus(l, outcome)
      [] run[l].call = "restatus" -> AfterRestatus(l, outcome)
      [] run[l].call = "halt"     -> AfterHalt(l, outcome)
      [] run[l].call = "final"    -> AfterFinal(l, outcome)
      [] run[l].call = "ready"    -> AfterReady(l, outcome)

-----------------------------------------------------------------------------
(* A command starts with the executable installed at that moment.          *)
FirstStep(cmd) ==
    CASE cmd = "ensure"  -> [pc |-> "dial", call |-> "probe"]
      [] cmd = "stop"    -> [pc |-> "dial", call |-> "halt"]
      [] cmd = "restart" -> [pc |-> "lock", call |-> "restatus"]
      [] cmd = "update"  -> [pc |-> "dial", call |-> "status"]

Start(l, cmd) ==
    /\ run[l].pc = "idle"
    /\ run' = [run EXCEPT ![l].cmd = cmd, ![l].ver = exe,
                          ![l].pc = FirstStep(cmd).pc,
                          ![l].call = FirstStep(cmd).call]
    /\ calm' = (calm /\ cmd \notin {"stop", "update"})
    /\ UNCHANGED <<exe, socket, dmn, lock, faults>>

(* ipc::connect: the first candidate that accepts; otherwise every error   *)
(* is NotFound or ConnectionRefused, which is absence.                     *)
Answering == {c \in Candidates : Connectable(socket[c])}

Dial(l) ==
    /\ run[l].pc = "dial"
    /\ IF Answering = {}
       THEN Resolve(l, "absent")
       ELSE /\ run' = [run EXCEPT ![l].pc = "await",
                                  ![l].peer = socket[Min(Answering)]]
            /\ UNCHANGED lock
    /\ UNCHANGED <<exe, socket, dmn, faults, calm>>

(* The first frame of the peer, as attach and classify read it.  The       *)
(* handshake check compares versions before it looks at the identity.      *)
FirstFrames(l) ==
    LET p == run[l].peer IN
    IF p = Stranger \/ dmn[p].pc = "gone" THEN {"other"}
    ELSE IF dmn[p].ver = run[l].ver THEN {"hello"}
    ELSE {IF frame = "protocolError" \/ dmn[p].ver > run[l].ver
            THEN "other" ELSE "older" : frame \in MismatchFrames}

Answer(l) ==
    /\ run[l].pc = "await"
    /\ \E outcome \in FirstFrames(l) : Resolve(l, outcome)
    /\ UNCHANGED <<exe, socket, dmn, faults, calm>>

(* The connection was queued when the listener was dropped, or a live      *)
(* daemon took longer than the handshake wait.                             *)
NoAnswer(l) ==
    /\ run[l].pc = "await"
    /\ run[l].peer \in Daemons
    /\ \/ /\ dmn[run[l].peer].pc \in {"draining", "closed"}
          /\ UNCHANGED <<faults, calm>>
       \/ /\ dmn[run[l].peer].pc = "serving"
          /\ faults < MaxFaults
          /\ faults' = faults + 1
          /\ calm' = FALSE
    /\ Resolve(l, "other")
    /\ UNCHANGED <<exe, socket, dmn>>

(* Variant: the launch lock does not exclude.                              *)
TakeLockShared(l) ==
    /\ run[l].pc = "lock"
    /\ lock' = l
    /\ run' = [run EXCEPT ![l].pc = "dial",
                          ![l].call = IF run[l].cmd = "ensure" THEN "reprobe"
                                                               ELSE "restatus"]
    /\ UNCHANGED <<exe, socket, dmn, faults, calm>>

(* acquire_launch_lock; a bare gregg probes again, a restart asks for the  *)
(* status, both under the lock.                                            *)
TakeLock(l) ==
    /\ run[l].pc = "lock"
    /\ lock = Free
    /\ lock' = l
    /\ run' = [run EXCEPT ![l].pc = "dial",
                          ![l].call = IF run[l].cmd = "ensure" THEN "reprobe"
                                                               ELSE "restatus"]
    /\ UNCHANGED <<exe, socket, dmn, faults, calm>>

LockTimeout(l) ==
    /\ run[l].pc = "lock"
    /\ lock # Free
    /\ Finish(l, "failed")
    /\ UNCHANGED <<exe, socket, dmn, faults, calm>>

-----------------------------------------------------------------------------
(* spawn_daemon starts what current_exe() names.  Once the file has been   *)
(* replaced under this process that is, depending on the platform, the new *)
(* image, the running one, or a name that no longer exists.                *)
Unborn == {d \in Daemons : dmn[d].pc = "unborn"}

SpawnDaemon(l) ==
    /\ run[l].pc = "spawn"
    /\ Unborn # {}
    /\ \E ver \in {exe, run[l].ver} :
         dmn' = [dmn EXCEPT ![Min(Unborn)] = [pc |-> "check", ver |-> ver, at |-> 1]]
    /\ Call(l, "ready")
    /\ UNCHANGED <<exe, socket, faults, calm>>

SpawnFails(l) ==
    /\ run[l].pc = "spawn"
    /\ exe # run[l].ver
    /\ Finish(l, "failed")
    /\ UNCHANGED <<exe, socket, dmn, faults, calm>>

(* Variant: readiness is awaited without a deadline.                       *)
ReadyUnbounded(l) == FALSE /\ UNCHANGED vars

(* wait_ready gives up at READY_TIMEOUT, whatever the child is doing.      *)
ReadyTimeout(l) ==
    /\ run[l].pc = "dial"
    /\ run[l].call = "ready"
    /\ Finish(l, "failed")
    /\ calm' = FALSE
    /\ UNCHANGED <<exe, socket, dmn, faults>>

-----------------------------------------------------------------------------

(* daemon::stop after the request: the acknowledgement of a serving daemon *)
(* or a clean disconnect is success.                                       *)
Stopped(l) ==
    /\ run[l].pc = "ack"
    /\ \/ /\ dmn[run[l].told].pc = "serving"
          /\ SetDaemon(run[l].told, "draining")
       \/ /\ dmn[run[l].told].pc = "gone"
          /\ UNCHANGED dmn
    /\ Goto(l, "vanish")
    /\ UNCHANGED <<exe, socket, faults, calm>>

AckTimeout(l) ==
    /\ run[l].pc = "ack"
    /\ \/ dmn[run[l].told].pc \in {"draining", "closed"} /\ UNCHANGED faults
       \/ dmn[run[l].told].pc = "serving" /\ faults < MaxFaults /\ faults' = faults + 1
    /\ Finish(l, "failed")
    /\ calm' = FALSE
    /\ UNCHANGED <<exe, socket, dmn>>

(* Two seconds for every candidate path to disappear; then stop's caller   *)
(* continues: the command itself is over, a rotation attaches, a restart   *)
(* spawns, an update goes on to a full restart.  wait_gone, in between for *)
(* the last three, only delays: it returns at its deadline too.            *)
Vanished(l) ==
    /\ run[l].pc = "vanish"
    /\ EndpointGone
    /\ CASE run[l].cmd = "stop" -> Finish(l, "ok")
         [] run[l].cmd = "ensure" -> Call(l, "final")
         [] run[l].cmd = "restart" -> Goto(l, "spawn")
         [] run[l].cmd = "update" -> Goto(l, IF lock = l THEN "spawn" ELSE "lock")
    /\ UNCHANGED <<exe, socket, dmn, faults, calm>>

VanishTimeout(l) ==
    /\ run[l].pc = "vanish"
    /\ ~EndpointGone
    /\ Finish(l, "failed")
    /\ calm' = FALSE
    /\ UNCHANGED <<exe, socket, dmn, faults>>

(* run_update replaces the executable, or finds it current and ends; a     *)
(* daemon that was seen running is then stopped and restarted.             *)
Replace(l) ==
    /\ run[l].pc = "replace"
    /\ \/ /\ exe < MaxVersion
          /\ exe' = exe + 1
          /\ IF run[l].ran THEN Call(l, "halt") ELSE Finish(l, "ok")
       \/ /\ Finish(l, "ok")
          /\ UNCHANGED exe
    /\ UNCHANGED <<socket, dmn, faults, calm>>

(* A launcher is killed: the operating system drops its lock.              *)
KillLauncher(l) ==
    /\ run[l].pc \notin {"idle", "done"}
    /\ faults < MaxFaults
    /\ faults' = faults + 1
    /\ Finish(l, "failed")
    /\ calm' = FALSE
    /\ UNCHANGED <<exe, socket, dmn>>

-----------------------------------------------------------------------------
(* run_daemon: the configuration is loaded, then the endpoint bound.       *)

(* Started by hand or at login, without the launch lock.                   *)
Boot ==
    /\ faults < MaxFaults
    /\ faults' = faults + 1
    /\ Unborn # {}
    /\ dmn' = [dmn EXCEPT ![Min(Unborn)] = [pc |-> "check", ver |-> exe, at |-> 1]]
    /\ calm' = FALSE
    /\ UNCHANGED <<exe, socket, lock, run>>

(* remove_stale_socket, its look at the path: absent, live, or stale.      *)
CheckStale(d) ==
    /\ dmn[d].pc = "check"
    /\ LET s == socket[dmn[d].at] IN
       SetDaemon(d, CASE s = Nobody -> "bind"
                      [] s # Nobody /\ Connectable(s) -> "gone"
                      [] s # Nobody /\ ~Connectable(s) -> "remove")
    /\ UNCHANGED <<exe, socket, lock, run, faults, calm>>

(* Its removal, which takes whatever the path names by now.                *)
RemoveStale(d) ==
    /\ dmn[d].pc = "remove"
    /\ LET c == dmn[d].at IN
       /\ SetDaemon(d, IF socket[c] = Nobody THEN "gone" ELSE "bind")
       /\ socket' = [socket EXCEPT ![c] = Nobody]
    /\ UNCHANGED <<exe, lock, run, faults, calm>>

(* A taken path is an error that moves on to the next candidate.           *)
Bind(d) ==
    /\ dmn[d].pc = "bind"
    /\ LET c == dmn[d].at IN
       IF socket[c] = Nobody
       THEN /\ socket' = [socket EXCEPT ![c] = d]
            /\ SetDaemon(d, "serving")
       ELSE /\ IF c = 1 THEN dmn' = [dmn EXCEPT ![d].pc = "check", ![d].at = 2]
                         ELSE SetDaemon(d, "gone")
            /\ UNCHANGED socket
    /\ UNCHANGED <<exe, lock, run, faults, calm>>

(* The end of run_daemon: the accept loop ends and drops the listener, the *)
(* path is removed whatever it names, the process exits.                   *)
EndAccept(d) ==
    /\ dmn[d].pc = "draining"
    /\ SetDaemon(d, "closed")
    /\ UNCHANGED <<exe, socket, lock, run, faults, calm>>

Cleanup(d) ==
    /\ dmn[d].pc = "closed"
    /\ socket' = [socket EXCEPT ![dmn[d].at] = Nobody]
    /\ SetDaemon(d, "gone")
    /\ UNCHANGED <<exe, lock, run, faults, calm>>

(* A termination signal ends the engine loop as a stop request does; a     *)
(* kill, or a configuration that does not load, leaves everything behind.  *)
Fault(d) ==
    /\ faults < MaxFaults
    /\ faults' = faults + 1
    /\ \/ dmn[d].pc = "serving" /\ SetDaemon(d, "draining")
       \/ dmn[d].pc \notin {"unborn", "gone"} /\ SetDaemon(d, "gone")
    /\ calm' = FALSE
    /\ UNCHANGED <<exe, socket, lock, run>>

-----------------------------------------------------------------------------
(* The first daemon may be running (any version), dead with its socket     *)
(* left behind, or never started; a stranger may hold a candidate.         *)
Init ==
    /\ exe \in Versions
    /\ \E first \in {"unborn", "serving", "gone"}, ver \in Versions :
         /\ first # "serving" => ver = 1
         /\ dmn = [d \in Daemons |->
                     [pc |-> IF d = 1 THEN first ELSE "unborn",
                      ver |-> IF d = 1 THEN ver ELSE 1, at |-> 1]]
         /\ socket \in
              IF first = "unborn"
              THEN {[c \in Candidates |-> IF c \in held THEN Stranger ELSE Nobody] :
                      held \in SUBSET Candidates}
              ELSE {[c \in Candidates |-> IF c = 1 THEN 1 ELSE Nobody]}
    /\ lock = Free
    /\ run = [l \in Launchers |->
                [pc |-> "idle", cmd |-> "none", call |-> "probe", ver |-> 1,
                 peer |-> Nobody, told |-> Nobody, ran |-> FALSE, result |-> "none"]]
    /\ faults = 0
    /\ calm = TRUE

(* The steps a running command takes by itself.                            *)
Proceed(l) ==
    \/ Dial(l) \/ Answer(l) \/ TakeLock(l) \/ LockTimeout(l) \/ SpawnDaemon(l)
    \/ SpawnFails(l) \/ Stopped(l) \/ Vanished(l) \/ VanishTimeout(l)
    \/ Replace(l)

LauncherStep(l) ==
    \/ \E cmd \in Commands[l] : Start(l, cmd)
    \/ Proceed(l)
    \/ NoAnswer(l)
    \/ ReadyTimeout(l)
    \/ AckTimeout(l)
    \/ KillLauncher(l)

DaemonStep(d) ==
    \/ CheckStale(d) \/ RemoveStale(d) \/ Bind(d)
    \/ EndAccept(d) \/ Cleanup(d)

Next ==
    \/ \E l \in Launchers : LauncherStep(l)
    \/ \E d \in Daemons : DaemonStep(d) \/ Fault(d)
    \/ Boot

Spec == Init /\ [][Next]_vars

(* Processes are scheduled; the readiness deadline passes even though the  *)
(* wait keeps redialling.                                                  *)
Fairness ==
    /\ \A l \in Launchers : WF_vars(Proceed(l)) /\ SF_vars(ReadyTimeout(l))
    /\ \A d \in Daemons : WF_vars(DaemonStep(d))

FairSpec == Spec /\ Fairness

-----------------------------------------------------------------------------
Serving == {d \in Daemons : dmn[d].pc = "serving"}

(* Among commands that go through the launch lock, none of whose bounded   *)
(* waits has expired, the lock suffices: at most one daemon serves, and    *)
(* it is the one its path names (launch.rs: "Exactly one process may cross *)
(* this point per config").                                                *)
LockSuffices ==
    calm => /\ Cardinality(Serving) <= 1
            /\ \A d \in Serving : socket[dmn[d].at] = d

(* What bare gregg promises without those conditions: "it must never leave *)
(* two daemons for one config" (launch.rs, ensure_running).                *)
OneDaemon == Cardinality(Serving) <= 1

(* No daemon ever serves beside a stranger that holds the primary path     *)
(* (launch.rs: "spawning a second daemon would either fail to bind or ...  *)
(* succeed somewhere the operator is not looking").                        *)
NothingBesideStranger == socket[1] = Stranger => Serving = {}

(* A stranger's endpoint is never unlinked or rebound by any command or    *)
(* daemon (launch.rs: never "overwrite a peer it does not own").           *)
StrangerUntouched ==
    [][\A c \in Candidates : socket[c] = Stranger => socket'[c] = Stranger]_vars

(* A stop that reports success has really stopped the daemon it spoke to:  *)
(* that daemon no longer serves, and no command presents it as ready       *)
(* afterwards (daemon.rs stop: neither a buffered document nor a timeout   *)
(* is an answer).                                                          *)
StopIsHonest ==
    \A l \in Launchers :
        run[l].result = "ok" /\ run[l].told # Nobody =>
            /\ dmn[run[l].told].pc # "serving"
            /\ run[l].cmd \in {"restart", "update"} => run[l].peer # run[l].told

(* What a command reports of the daemons is so: the lock leaves one to      *)
(* serve, and a stop that was reported has happened; and a stranger is      *)
(* neither displaced nor served beside.                                     *)
LaunchSound ==
    [](TypeOK /\ LockSuffices /\ StopIsHonest /\ NothingBesideStranger)
        /\ StrangerUntouched

(* "A version mismatch from a peer that is positively identified as ours   *)
(* ... is the one recoverable case: we stop it and relaunch with the       *)
(* current executable" (launch.rs): a bare gregg that classified the       *)
(* daemon as replaceable does not fail.                                    *)
UpgradeHeals ==
    \A l \in Launchers :
        ~ /\ run[l].cmd = "ensure"
          /\ run[l].call \in {"halt", "final"}
          /\ run[l].result = "failed"

(* Every command ends: each wait of ensure_running, stop, restart and      *)
(* update is bounded, whatever the daemons and the other commands do.      *)
CommandsEnd ==
    \A l \in Launchers : (run[l].pc # "idle") ~> (run[l].pc = "done")

=============================================================================

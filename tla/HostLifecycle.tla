--------------------------- MODULE HostLifecycle ---------------------------
(***************************************************************************)
(* The life of `greggd run' processes on one Unix host and one             *)
(* configuration, and the commands that start and stop them: the control   *)
(* socket (control.rs), the supervised daemon (run.rs), `stop',            *)
(* `restart', `croncheck', `update' and `uninstall' (main.rs, cli.rs,      *)
(* startup/install.rs, update.rs, uninstall.rs).                           *)
(*                                                                         *)
(* Processes share three things: two socket paths in the file system, the  *)
(* TCP endpoint, and the executable.  Each step below is one system call   *)
(* or one await of the code: inspecting a path, unlinking it and binding   *)
(* it are three steps, and so are asking for a stop and being answered.    *)
(***************************************************************************)
EXTENDS Integers, FiniteSets

CONSTANTS
    MaxInstances,  \* bound: processes a behaviour starts
    Clients,       \* terminals that run one command each
    OpsOf,         \* Clients -> the commands a terminal may run
    Registrations, \* what the service manager may hold about greggd
    MaxFaults      \* bound: kills, signals, failed tasks, refused calls,
                   \* starts and registrations by the manager

ASSUME HostAssumption ==
    /\ MaxInstances \in Nat \ {0} /\ MaxFaults \in Nat
    /\ Registrations \subseteq {"none", "own", "foreignSame", "foreignOther",
                                "foreignUnknown", "unknown"}
    /\ OpsOf \in [Clients -> SUBSET {"stop", "restart", "croncheck",
                                     "update", "uninstall"}]

VARIABLES
    ctl,      \* control path -> the process whose socket it names, or 0
    port,     \* the process that listens on the endpoint, or 0
    inst,     \* process -> its state
    cmd,      \* terminal -> its command
    born,     \* processes started so far
    disk,     \* the executable is installed
    reg,      \* the manager's registration
    unit,     \* the process the manager runs for this configuration, or 0
    faults,   \* such events so far
    crowded   \* history: processes that lived beside another

vars == <<ctl, port, inst, cmd, born, disk, reg, unit, faults, crowded>>

Procs == 1..MaxInstances

Paths == {1, 2}   \* 1 the primary control path, 2 the fallback

Starting == {"inspect", "unlink", "bind", "port"}

Phases == Starting \cup {"unborn", "running", "joining", "guard", "exit", "gone"}

Codes == {"none", "ok", "error", "killed"}   \* what a process ended with

ProcStates ==
    [pc : Phases, at : Paths, ear : BOOLEAN, queue : SUBSET Clients,
     told : BOOLEAN, server : BOOLEAN, sampler : BOOLEAN, code : Codes]

Unborn == [pc |-> "unborn", at |-> 1, ear |-> FALSE, queue |-> {},
           told |-> FALSE, server |-> FALSE, sampler |-> FALSE,
           code |-> "none"]

Ops == {"stop", "restart", "croncheck", "update", "uninstall"}

Points == {"idle", "dial", "await", "absent", "again", "check", "spawn", "ready",
           "route", "bounce", "bounced", "observe", "replace", "reobserve",
           "discover", "gate", "delete", "done"}

Lifecycles == {"managedRunning", "managedStopped", "foreignPreserved",
               "directRunning", "stopped"}

Verdicts == {"stopped", "absent", "uncertain", "denied"}   \* of send_stop

Reports == Verdicts \cup {"refused", "ok", "failed", "updated", "removed"}

CommandStates ==
    [op : Ops \cup {"none"}, pc : Points, cand : Paths, sev : 0..3,
     on : 0..MaxInstances, child : 0..MaxInstances, life : Lifecycles \cup {"none"},
     direct : BOOLEAN, said : Verdicts \cup {"none"}, up : SUBSET Procs,
     base : -1..MaxInstances, out : Reports \cup {"none"}]

Idle == [op |-> "none", pc |-> "idle", cand |-> 1, sev |-> 0, on |-> 0,
         child |-> 0, life |-> "none", direct |-> FALSE, said |-> "none",
         up |-> {}, base |-> -1, out |-> "none"]

Alive(i) == inst[i].pc \notin {"unborn", "gone"}

Living == {i \in Procs : Alive(i)}

UnitUp == unit \in Living

(* Processes a `stop' should find: their control socket accepts and nobody
   has told them to stop yet. *)
Listening == {i \in Procs : inst[i].pc \in {"port", "running"}
                            /\ inst[i].ear /\ ~inst[i].told}

(* A new `greggd run'.  It can only be started while the executable is there
   and the bound allows. *)
CanSpawn == disk /\ born < MaxInstances

Spawn(i) ==
    /\ inst' = [inst EXCEPT ![i] = [Unborn EXCEPT !.pc = "inspect"]]
    /\ born' = i
    /\ crowded' = IF Living = {} THEN crowded ELSE crowded \cup Living \cup {i}

-----------------------------------------------------------------------------
(* The daemon: binding the control socket *)

(* try_bind_secure failed on this path: the fallback is next; after the
   fallback the process ends with NoSecureControl and holds no guard. *)
PathRefused(i) ==
    inst' = [inst EXCEPT ![i] =
                IF @.at = 1 THEN [@ EXCEPT !.at = 2, !.pc = "inspect"]
                            ELSE [@ EXCEPT !.pc = "gone", !.code = "error"]]

(* prepare_final_path: a path that is free may be bound; one whose socket
   accepts is left alone; one that refuses is stale. *)
Inspect(i) ==
    /\ inst[i].pc = "inspect"
    /\ LET holder == ctl[inst[i].at]
       IN  IF holder # 0 /\ inst[holder].ear
             THEN PathRefused(i)
             ELSE inst' = [inst EXCEPT ![i].pc =
                              IF holder = 0 THEN "bind" ELSE "unlink"]
    /\ UNCHANGED <<ctl, port, cmd, born, disk, reg, unit, faults, crowded>>

(* The removal of what was found stale: whatever the path names by now. *)
Unlink(i) ==
    /\ inst[i].pc = "unlink"
    /\ ctl' = [ctl EXCEPT ![inst[i].at] = 0]
    /\ inst' = [inst EXCEPT ![i].pc = "bind"]
    /\ UNCHANGED <<port, cmd, born, disk, reg, unit, faults, crowded>>

(* bind reserves the path; restricting its permissions may then fail, which
   closes and removes the socket. *)
Bind(i) ==
    /\ inst[i].pc = "bind"
    /\ \/ /\ ctl[inst[i].at] = 0
          /\ ctl' = [ctl EXCEPT ![inst[i].at] = i]
          /\ inst' = [inst EXCEPT ![i].pc = "port", ![i].ear = TRUE]
          /\ UNCHANGED faults
       \/ /\ ctl[inst[i].at] # 0
          /\ PathRefused(i)
          /\ UNCHANGED <<ctl, faults>>
       \/ /\ ctl[inst[i].at] = 0 /\ faults < MaxFaults
          /\ PathRefused(i)
          /\ faults' = faults + 1
          /\ UNCHANGED ctl
    /\ UNCHANGED <<port, cmd, born, disk, reg, unit, crowded>>

-----------------------------------------------------------------------------
(* The daemon: serving and ending *)

(* The TCP listener is bound before any task starts; a bind that fails ends
   the process through the control socket's guard. *)
BindPort(i) ==
    /\ inst[i].pc = "port"
    /\ IF port = 0
         THEN /\ port' = i
              /\ inst' = [inst EXCEPT ![i].pc = "running", ![i].server = TRUE,
                                      ![i].sampler = TRUE]
         ELSE /\ inst' = [inst EXCEPT ![i].pc = "guard", ![i].code = "error"]
              /\ UNCHANGED port
    /\ UNCHANGED <<ctl, cmd, born, disk, reg, unit, faults, crowded>>

(* A critical task ends by itself: the server's listener goes with it. *)
TaskDies(i) ==
    /\ inst[i].pc = "running" /\ faults < MaxFaults
    /\ faults' = faults + 1
    /\ \/ /\ inst[i].server
          /\ inst' = [inst EXCEPT ![i].server = FALSE]
          /\ port' = 0
       \/ /\ inst[i].sampler
          /\ inst' = [inst EXCEPT ![i].sampler = FALSE]
          /\ UNCHANGED port
    /\ UNCHANGED <<ctl, cmd, born, disk, reg, unit, crowded>>

(* The outcomes supervise's select may take, through into_result: a stop that
   was asked for is success, the end of a critical task, clean or not, is an
   error. *)
IntoResult(i) == {code \in {"ok", "error"} :
    \/ code = "ok" /\ inst[i].told
    \/ code = "error" /\ (~inst[i].server \/ ~inst[i].sampler)}

(* supervise: any of the three branches that is ready may win. *)
Supervise(i) ==
    /\ inst[i].pc = "running"
    /\ \E code \in IntoResult(i) :
          inst' = [inst EXCEPT ![i].pc = "joining", ![i].code = code]
    /\ UNCHANGED <<ctl, port, cmd, born, disk, reg, unit, faults, crowded>>

(* After the notification each task ends in its own time, or not at all. *)
TaskEnds(i) ==
    /\ inst[i].pc = "joining"
    /\ \/ /\ inst[i].server
          /\ inst' = [inst EXCEPT ![i].server = FALSE]
          /\ port' = 0
       \/ /\ inst[i].sampler
          /\ inst' = [inst EXCEPT ![i].sampler = FALSE]
          /\ UNCHANGED port
    /\ UNCHANGED <<ctl, cmd, born, disk, reg, unit, faults, crowded>>

(* Variant: the join has no deadline. *)
JoinForever(i) ==
    /\ inst[i].pc = "joining" /\ ~inst[i].server /\ ~inst[i].sampler
    /\ inst' = [inst EXCEPT ![i].pc = "guard"]
    /\ UNCHANGED <<ctl, port, cmd, born, disk, reg, unit, faults, crowded>>

(* join_remaining_tasks: both tasks have ended or the one shared deadline has
   passed and the stragglers' handles are aborted.  A server that does not
   end keeps the listener until the runtime is dropped. *)
Join(i) ==
    /\ inst[i].pc = "joining"
    /\ inst' = [inst EXCEPT ![i].pc = "guard"]
    /\ UNCHANGED <<ctl, port, cmd, born, disk, reg, unit, faults, crowded>>

(* The drop of ControlSocketGuard: whatever socket the path names is
   removed. *)
DropGuard(i) ==
    /\ inst[i].pc = "guard"
    /\ ctl' = [ctl EXCEPT ![inst[i].at] = 0]
    /\ inst' = [inst EXCEPT ![i].pc = "exit"]
    /\ UNCHANGED <<port, cmd, born, disk, reg, unit, faults, crowded>>

(* What a process that ends lets go of. *)
Dead(r, code) == [r EXCEPT !.pc = "gone", !.ear = FALSE, !.queue = {},
                           !.server = FALSE, !.sampler = FALSE, !.code = code]

Released(i) == IF port = i THEN 0 ELSE port

(* The runtime is dropped: first its tasks, with every listener they hold. *)
DropTasks(i) ==
    /\ inst[i].pc = "exit"
    /\ inst[i].ear \/ inst[i].server \/ inst[i].sampler
    /\ inst' = [inst EXCEPT ![i].ear = FALSE, ![i].queue = {},
                            ![i].server = FALSE, ![i].sampler = FALSE]
    /\ port' = Released(i)
    /\ UNCHANGED <<ctl, cmd, born, disk, reg, unit, faults, crowded>>

(* Then its blocking pool: the process ends when no collection runs there any
   more, and nothing makes a native read return. *)
Exit(i) ==
    /\ inst[i].pc = "exit"
    /\ ~inst[i].ear /\ ~inst[i].server /\ ~inst[i].sampler
    /\ inst' = [inst EXCEPT ![i] = Dead(@, @.code)]
    /\ UNCHANGED <<ctl, port, cmd, born, disk, reg, unit, faults, crowded>>

-----------------------------------------------------------------------------
(* Faults of the host *)

(* SIGTERM before the handlers are installed kills, later it is a request. *)
Terminate(r) ==
    IF r.pc \in {"inspect", "unlink", "bind"} THEN Dead(r, "killed")
                                              ELSE [r EXCEPT !.told = TRUE]

Signal(i) ==
    /\ Alive(i) /\ ~inst[i].told /\ faults < MaxFaults
    /\ inst' = [inst EXCEPT ![i] = Terminate(@)]
    /\ faults' = faults + 1
    /\ UNCHANGED <<ctl, port, cmd, born, disk, reg, unit, crowded>>

(* SIGKILL or a crash: no guard runs, the socket file stays. *)
Kill(i) ==
    /\ Alive(i) /\ faults < MaxFaults
    /\ inst' = [inst EXCEPT ![i] = Dead(@, "killed")]
    /\ port' = Released(i)
    /\ faults' = faults + 1
    /\ UNCHANGED <<ctl, cmd, born, disk, reg, unit, crowded>>

(* A permanent accept error closes the control socket for good; the daemon
   then answers to signals only. *)
AcceptFails(i) ==
    /\ inst[i].ear /\ faults < MaxFaults
    /\ inst' = [inst EXCEPT ![i].ear = FALSE, ![i].queue = {}]
    /\ faults' = faults + 1
    /\ UNCHANGED <<ctl, port, cmd, born, disk, reg, unit, crowded>>

(* The manager starts its unit, or the registration is replaced while no
   unit runs.  External: systemd or launchd. *)
ManagerStart ==
    /\ reg \in {"own", "foreignSame"} /\ CanSpawn /\ faults < MaxFaults
    /\ ~UnitUp
    /\ Spawn(born + 1)
    /\ unit' = born + 1
    /\ faults' = faults + 1
    /\ UNCHANGED <<ctl, port, cmd, disk, reg>>

Reregister ==
    /\ faults < MaxFaults
    /\ ~UnitUp
    /\ \E r \in Registrations \ {reg} : reg' = r
    /\ unit' = 0
    /\ faults' = faults + 1
    /\ UNCHANGED <<ctl, port, inst, cmd, born, disk, crowded>>

Active(r) ==
    CASE r = "none" -> {FALSE}
      [] r \in {"own", "foreignSame"} -> {UnitUp}
      [] OTHER -> BOOLEAN

-----------------------------------------------------------------------------
(* Commands: send_stop *)

(* The command returns; what it did is kept for the properties. *)
Finish(k, out) == [Idle EXCEPT !.op = k.op, !.pc = "done", !.out = out,
                               !.said = k.said, !.up = k.up,
                               !.child = k.child, !.base = k.base]

(* The start of send_stop.  "up" remembers whom it ought to find. *)
Dialling(k) == [k EXCEPT !.pc = "dial", !.cand = 1, !.sev = 0, !.up = Listening]

(* What the caller of send_stop does with its outcome: `stop' reports it;
   the restart goes on after Stopped and NotRunning and refuses otherwise;
   the uninstall waits after Stopped, deletes after NotRunning and is
   blocked otherwise. *)
Concluded(k, said) ==
    LET told == [k EXCEPT !.said = said, !.on = 0]
        definite == said \in {"stopped", "absent"}
    IN  CASE k.op = "stop" -> Finish(told, said)
          [] k.op \in {"restart", "update"} ->
                IF definite THEN [told EXCEPT !.pc = "absent"]
                            ELSE Finish(told, "refused")
          [] k.op = "uninstall" ->
                CASE said = "stopped" -> [told EXCEPT !.pc = "absent"]
                  [] said = "absent"  -> [told EXCEPT !.pc = "delete"]
                  [] OTHER            -> Finish(told, "refused")

(* Variant: the last candidate's error wins. *)
RecordLast(old, new) == new

(* record_stop_error keeps the most severe error of the candidates:
   1 missing or refused, 2 anything else, 3 permission denied. *)
RecordStopError(old, new) == IF new > old THEN new ELSE old

(* A candidate gave no answer: the next one, or the verdict. *)
Missed(k, severity) ==
    LET sev == RecordStopError(k.sev, severity)
        kept == [k EXCEPT !.sev = sev, !.on = 0]
    IN  IF k.cand = 1 THEN [kept EXCEPT !.cand = 2, !.pc = "dial"]
        ELSE Concluded(kept, CASE sev = 1 -> "absent"
                               [] sev = 2 -> "uncertain"
                               [] sev = 3 -> "denied")

(* Connecting to a candidate and writing STOP.  A listener that has not yet
   been scheduled still takes the connection into its backlog. *)
Dial(c) ==
    /\ cmd[c].pc = "dial"
    /\ LET holder == ctl[cmd[c].cand]
       IN  IF holder # 0 /\ inst[holder].ear
             THEN /\ inst' = [inst EXCEPT ![holder].queue = @ \cup {c}]
                  /\ cmd' = [cmd EXCEPT ![c].pc = "await", ![c].on = holder]
             ELSE /\ cmd' = [cmd EXCEPT ![c] = Missed(@, 1)]
                  /\ UNCHANGED inst
    /\ UNCHANGED <<ctl, port, born, disk, reg, unit, faults, crowded>>

(* The path may not be searched, or the connect times out. *)
DialFails(c) ==
    /\ cmd[c].pc = "dial" /\ faults < MaxFaults
    /\ ctl[cmd[c].cand] # 0
    /\ \E severity \in {2, 3} : cmd' = [cmd EXCEPT ![c] = Missed(@, severity)]
    /\ faults' = faults + 1
    /\ UNCHANGED <<ctl, port, inst, born, disk, reg, unit, crowded>>

(* stop_loop answers one STOP, ends, and with it closes its listener; the
   request counts whether or not its sender still waits. *)
StopLoop(i) ==
    /\ inst[i].ear /\ inst[i].pc \in {"running", "joining"}
    /\ \E c \in inst[i].queue :
          cmd' = IF cmd[c].pc = "await" /\ cmd[c].on = i
                   THEN [cmd EXCEPT ![c] = Concluded(@, "stopped")] ELSE cmd
    /\ inst' = [inst EXCEPT ![i].ear = FALSE, ![i].queue = {}, ![i].told = TRUE]
    /\ UNCHANGED <<ctl, port, born, disk, reg, unit, faults, crowded>>

(* The answer does not come in time, or the peer is gone. *)
AwaitFails(c) ==
    /\ cmd[c].pc = "await"
    /\ cmd' = [cmd EXCEPT ![c] = Missed(@, 2)]
    /\ UNCHANGED <<ctl, port, inst, born, disk, reg, unit, faults, crowded>>

-----------------------------------------------------------------------------
(* Commands: the endpoint's health probe, starting and restarting *)

(* probe_greggd: refused is Absent, a valid answer is Running, and a daemon
   that is ending may give neither. *)
Probe == IF port = 0 THEN {"absent"}
         ELSE IF inst[port].pc = "running" THEN {"running"}
         ELSE {"running", "ambiguous"}

(* wait_for_endpoint_absence, of the restart and of the uninstall.  A free
   endpoint ends it, and so does its deadline. *)
AwaitAbsence(c) ==
    /\ cmd[c].pc = "absent"
    /\ cmd' = [cmd EXCEPT ![c] =
                  CASE port # 0 -> Finish(@, "refused")
                    [] port = 0 /\ @.op = "uninstall" -> [@ EXCEPT !.pc = "delete"]
                    [] port = 0 /\ @.op # "uninstall" -> [@ EXCEPT !.pc = "again"]]
    /\ UNCHANGED <<ctl, port, inst, born, disk, reg, unit, faults, crowded>>

(* restart_spawn_allowed: a second probe guards the spawn. *)
ProbeAgain(c) ==
    /\ cmd[c].pc = "again"
    /\ cmd' = [cmd EXCEPT ![c] = IF port = 0 THEN [@ EXCEPT !.pc = "spawn"]
                                             ELSE Finish(@, "refused")]
    /\ UNCHANGED <<ctl, port, inst, born, disk, reg, unit, faults, crowded>>

(* Croncheck starts a daemon only on a refused connection. *)
Croncheck(c) ==
    /\ cmd[c].pc = "check"
    /\ \E seen \in Probe :
          cmd' = [cmd EXCEPT ![c] =
                     CASE seen = "running"   -> Finish(@, "ok")
                       [] seen = "absent"    -> [@ EXCEPT !.pc = "spawn"]
                       [] seen = "ambiguous" -> Finish(@, "failed")]
    /\ UNCHANGED <<ctl, port, inst, born, disk, reg, unit, faults, crowded>>

SpawnChild(c) ==
    /\ cmd[c].pc = "spawn"
    /\ IF CanSpawn
         THEN /\ Spawn(born + 1)
              /\ cmd' = [cmd EXCEPT ![c].pc = "ready", ![c].child = born + 1]
         ELSE /\ cmd' = [cmd EXCEPT ![c] = Finish(@, "failed")]
              /\ UNCHANGED <<inst, born, crowded>>
    /\ UNCHANGED <<ctl, port, disk, reg, unit, faults>>

(* The wait for the new daemon's first answer.  A restart fails when its
   child has ended, and kills it at the deadline; a croncheck fails on an
   ambiguous answer and leaves its child alone at the deadline. *)
AwaitReady(c) ==
    /\ cmd[c].pc = "ready"
    /\ LET child == cmd[c].child
           patient == cmd[c].op # "croncheck"
       IN  \E seen \in Probe :
             \/ /\ seen = "running"
                /\ cmd' = [cmd EXCEPT ![c] = Finish(@, "ok")]
                /\ UNCHANGED <<inst, port>>
             \/ /\ seen # "running" /\ patient /\ Alive(child)
                /\ inst' = [inst EXCEPT ![child] = Dead(@, "killed")]
                /\ port' = Released(child)
                /\ cmd' = [cmd EXCEPT ![c] = Finish(@, "failed")]
             \/ /\ seen # "running" /\ (~patient \/ ~Alive(child))
                /\ cmd' = [cmd EXCEPT ![c] = Finish(@, "failed")]
                /\ UNCHANGED <<inst, port>>
    /\ UNCHANGED <<ctl, born, disk, reg, unit, faults, crowded>>

(* manager_restart_route: an owned registration is restarted by its manager,
   none or a foreign one for another configuration leaves the direct route,
   everything else is refused. *)
RestartRoute(r) ==
    CASE r = "own"                      -> "bounce"
      [] r \in {"none", "foreignOther"} -> "dial"
      [] OTHER                          -> "refused"

ChooseRoute(c) ==
    /\ cmd[c].pc = "route"
    /\ cmd' = [cmd EXCEPT ![c] =
                  CASE RestartRoute(reg) = "bounce"  -> [@ EXCEPT !.pc = "bounce"]
                    [] RestartRoute(reg) = "dial"    ->
                          [Dialling(@) EXCEPT !.direct = TRUE]
                    [] RestartRoute(reg) = "refused" -> Finish(@, "refused")]
    /\ UNCHANGED <<ctl, port, inst, born, disk, reg, unit, faults, crowded>>

(* `systemctl restart' and `systemctl stop': the manager signals its unit,
   waits for it, and for a restart starts another.  External. *)
Bounce(c) ==
    /\ cmd[c].pc = "bounce"
    /\ inst' = IF UnitUp
                 THEN [inst EXCEPT ![unit] = Terminate(@)] ELSE inst
    /\ cmd' = [cmd EXCEPT ![c].pc = "bounced"]
    /\ UNCHANGED <<ctl, port, born, disk, reg, unit, faults, crowded>>

(* The uninstall's teardown stops the unit, then disables and removes it.  A
   unit that is still up when the manager's call returns is a failure. *)
Bounced(c) ==
    /\ cmd[c].pc = "bounced"
    /\ IF UnitUp
         THEN /\ cmd' = [cmd EXCEPT ![c] = Finish(@, "failed")]
              /\ UNCHANGED <<inst, born, crowded, reg, unit>>
         ELSE IF cmd[c].op = "uninstall"
         THEN /\ reg' = "none" /\ unit' = 0
              /\ cmd' = [cmd EXCEPT ![c] = IF @.direct THEN Dialling(@)
                                           ELSE [@ EXCEPT !.pc = "gate"]]
              /\ UNCHANGED <<inst, born, crowded>>
         ELSE IF CanSpawn
         THEN /\ Spawn(born + 1)
              /\ unit' = born + 1
              /\ cmd' = [cmd EXCEPT ![c] = Finish([@ EXCEPT !.child = born + 1], "ok")]
              /\ UNCHANGED reg
         ELSE /\ cmd' = [cmd EXCEPT ![c] = Finish(@, "failed")]
              /\ UNCHANGED <<inst, born, crowded, reg, unit>>
    /\ UNCHANGED <<ctl, port, disk, faults>>

-----------------------------------------------------------------------------
(* Commands: update and uninstall *)

(* decide_unix_update_lifecycle. *)
DecideUnix(r, active, running) ==
    LET byEndpoint == IF running THEN "directRunning" ELSE "stopped"
    IN  CASE r = "own" -> IF active THEN "managedRunning" ELSE "managedStopped"
          [] r = "foreignSame" -> IF active THEN "foreignPreserved" ELSE byEndpoint
          [] r = "foreignOther" -> byEndpoint
          [] r = "foreignUnknown" -> IF active THEN "refused" ELSE byEndpoint
          [] r = "none" -> byEndpoint
          [] r = "unknown" -> IF active \/ running THEN "refused" ELSE "stopped"

(* run_update observes once the candidate is ready, before anything is
   changed. *)
Observe(c) ==
    /\ cmd[c].pc = "observe"
    /\ \E active \in Active(reg), seen \in Probe :
          LET life == DecideUnix(reg, active, seen = "running")
          IN  cmd' = [cmd EXCEPT ![c] =
                         IF life = "refused" THEN Finish(@, "refused")
                         ELSE [@ EXCEPT !.pc = "replace", !.life = life]]
    /\ UNCHANGED <<ctl, port, inst, born, disk, reg, unit, faults, crowded>>

(* replace_current_exe.  "base" remembers a host with nothing running: how
   many processes it had seen. *)
Replace(c) ==
    /\ cmd[c].pc = "replace"
    /\ cmd' = [cmd EXCEPT ![c] =
                  IF disk THEN [@ EXCEPT !.pc = "reobserve",
                                         !.base = IF Living = {} THEN born ELSE -1]
                          ELSE Finish(@, "failed")]
    /\ UNCHANGED <<ctl, port, inst, born, disk, reg, unit, faults, crowded>>

Running(life) == life \in {"managedRunning", "directRunning"}

(* Variant: what was seen before the replacement decides. *)
RestartAsObserved(c) ==
    /\ cmd[c].pc = "reobserve"
    /\ cmd' = [cmd EXCEPT ![c] = IF Running(@.life) THEN [@ EXCEPT !.pc = "route"]
                                 ELSE Finish(@, "updated")]
    /\ UNCHANGED <<ctl, port, inst, born, disk, reg, unit, faults, crowded>>

(* restart_after_update looks again: a daemon that stopped in between is not
   started, one that started is not restarted. *)
RestartAfterUpdate(c) ==
    /\ cmd[c].pc = "reobserve"
    /\ \E seen \in Probe :
          cmd' = [cmd EXCEPT ![c] =
                     IF Running(@.life) /\ seen = "running"
                       THEN [@ EXCEPT !.pc = "route"] ELSE Finish(@, "updated")]
    /\ UNCHANGED <<ctl, port, inst, born, disk, reg, unit, faults, crowded>>

(* discover and plan_from_discovery: the manager's teardown when the
   registration is owned, the direct stop when a daemon answers that no
   active manager explains; an active manager of unknown ownership blocks. *)
Discover(c) ==
    /\ cmd[c].pc = "discover"
    /\ \E active \in Active(reg), seen \in Probe :
          LET running == seen = "running"
              explained == active /\ reg \in {"own", "foreignSame"}
              unknown == active /\ reg = "unknown"
              direct == running /\ ~explained /\ ~unknown
              planned == [cmd[c] EXCEPT !.direct = direct]
          IN  cmd' = [cmd EXCEPT ![c] =
                         CASE running /\ unknown -> Finish(@, "refused")
                           [] reg = "own" -> [planned EXCEPT !.pc = "bounce"]
                           [] direct /\ reg # "own" -> Dialling(planned)
                           [] OTHER -> [planned EXCEPT !.pc = "gate"]]
    /\ UNCHANGED <<ctl, port, inst, born, disk, reg, unit, faults, crowded>>

(* The probe before the deletion, made when there was no direct stop. *)
Gate(c) ==
    /\ cmd[c].pc = "gate"
    /\ cmd' = [cmd EXCEPT ![c] = IF port = 0 THEN [@ EXCEPT !.pc = "delete"]
                                             ELSE Finish(@, "refused")]
    /\ UNCHANGED <<ctl, port, inst, born, disk, reg, unit, faults, crowded>>

Delete(c) ==
    /\ cmd[c].pc = "delete"
    /\ disk' = FALSE
    /\ cmd' = [cmd EXCEPT ![c] = Finish(@, "removed")]
    /\ UNCHANGED <<ctl, port, inst, born, reg, unit, faults, crowded>>

(* A command is entered at a terminal. *)
Begin(c) ==
    /\ cmd[c].pc = "idle"
    /\ \E op \in OpsOf[c] :
          LET k == [Idle EXCEPT !.op = op]
          IN  cmd' = [cmd EXCEPT ![c] =
                         CASE op = "stop"      -> Dialling(k)
                           [] op = "restart"   -> [k EXCEPT !.pc = "route"]
                           [] op = "croncheck" -> [k EXCEPT !.pc = "check"]
                           [] op = "update"    -> [k EXCEPT !.pc = "observe"]
                           [] op = "uninstall" -> [k EXCEPT !.pc = "discover"]]
    /\ UNCHANGED <<ctl, port, inst, born, disk, reg, unit, faults, crowded>>

-----------------------------------------------------------------------------
Command(c) ==
    \/ Dial(c) \/ DialFails(c) \/ AwaitFails(c) \/ AwaitAbsence(c)
    \/ ProbeAgain(c) \/ Croncheck(c) \/ SpawnChild(c) \/ AwaitReady(c)
    \/ ChooseRoute(c) \/ Bounce(c) \/ Bounced(c) \/ Observe(c) \/ Replace(c)
    \/ RestartAfterUpdate(c) \/ Discover(c) \/ Gate(c) \/ Delete(c)

Daemon(i) ==
    \/ Inspect(i) \/ Unlink(i) \/ Bind(i) \/ BindPort(i) \/ StopLoop(i)
    \/ Supervise(i) \/ Join(i) \/ DropGuard(i) \/ DropTasks(i)

(* Either nothing runs, or one daemon serves, started by hand or by the
   manager. *)
Init ==
    /\ born \in {0, 1}
    /\ ctl = [p \in Paths |-> IF p = 1 THEN born ELSE 0]
    /\ port = born
    /\ inst = [i \in Procs |->
                  IF i = born THEN [Unborn EXCEPT !.pc = "running", !.ear = TRUE,
                                       !.server = TRUE, !.sampler = TRUE]
                  ELSE Unborn]
    /\ cmd = [c \in Clients |-> Idle]
    /\ disk = TRUE
    /\ reg \in Registrations
    /\ unit \in IF reg \in {"own", "foreignSame"} THEN {0, born} ELSE {0}
    /\ faults = 0
    /\ crowded = {}

Next ==
    \/ \E c \in Clients : Begin(c) \/ Command(c)
    \/ \E i \in Procs : Daemon(i) \/ Exit(i) \/ TaskDies(i) \/ TaskEnds(i) \/ Signal(i)
                        \/ Kill(i) \/ AcceptFails(i)
    \/ ManagerStart \/ Reregister

Spec == Init /\ [][Next]_vars

(* A started process and a started command go on; the deadlines of their
   waits pass.  Nobody has to enter a command, nothing has to fail, and no
   native read that the end of a process waits for has to return. *)
FairSpec ==
    /\ Spec
    /\ \A c \in Clients : WF_vars(Command(c))
    /\ \A i \in Procs : WF_vars(Daemon(i))

-----------------------------------------------------------------------------
(* Properties *)

(* The shape of every variable. *)
TypeOK ==
    /\ ctl \in [Paths -> 0..MaxInstances] /\ port \in 0..MaxInstances
    /\ born \in 0..MaxInstances /\ unit \in 0..MaxInstances
    /\ faults \in 0..MaxFaults /\ reg \in Registrations \cup {"none"}
    /\ disk \in BOOLEAN
    /\ crowded \subseteq Procs
    /\ inst \in [Procs -> ProcStates]
    /\ cmd \in [Clients -> CommandStates]
    /\ \A i \in Procs : port = i => inst[i].server

(* send_stop says "not running" only of a host where nothing was left to
   stop: a daemon that was listening when it began and still is has shared
   the host with another process.  A silent, slow or inaccessible daemon is
   never called absent, whichever path it is on and whatever the other path
   says. *)
AbsentIsHonest ==
    \A c \in Clients : cmd[c].said = "absent" =>
        cmd[c].up \cap Listening \subseteq crowded

(* A daemon exits with success only if somebody asked it to stop: the end of
   the server or of the sampler, however clean, is a failure the manager can
   act on. *)
FailureIsReported == \A i \in Procs : inst[i].code = "ok" => inst[i].told

(* What processes report of themselves and of each other is so. *)
ReportsHonest == AbsentIsHonest /\ FailureIsReported

(* A restart or an update never tells the unit of a foreign manager to stop
   unless that unit started after the route was chosen. *)
ForeignUntouched ==
    [][\A c \in Clients :
          (cmd[c].op \in {"restart", "update"} /\ cmd'[c].said = "stopped"
             /\ cmd[c].said # "stopped" /\ reg = "foreignSame"
             /\ unit # 0 /\ cmd[c].on = unit)
          => unit \notin cmd[c].up]_vars

(* An update starts no daemon on a host where nothing ran when the new
   executable came into place, unless somebody else has started one since:
   the process born for it is then not the next one. *)
NoResurrection ==
    \A c \in Clients : (cmd[c].base >= 0 /\ cmd[c].child # 0)
        => cmd[c].child > cmd[c].base + 1

(* Restart and update neither start what did not run nor stop what another
   manager runs (update.rs, restart_after_update; install.rs, restart). *)
HostRespected == [](TypeOK /\ NoResurrection) /\ ForeignUntouched

(* A process that is left with nothing but a hung native read: it holds
   neither the endpoint nor a control socket. *)
OnlyHangs(i) ==
    /\ inst[i].pc = "exit" /\ port # i /\ ~inst[i].ear
    /\ ~inst[i].server /\ ~inst[i].sampler

(* The host comes to rest: a daemon that is told to stop, or has lost a
   critical task, is in the end gone or only hangs, although its tasks may
   never answer the notification; one that starts ends up serving, gone or
   hanging; and every command that is entered returns, whatever it waits
   for. *)
HostSettles ==
    <>[](/\ \A i \in Procs :
               \/ inst[i].pc \in {"unborn", "gone"} \/ OnlyHangs(i)
               \/ /\ inst[i].pc = "running" /\ inst[i].server
                  /\ inst[i].sampler /\ ~inst[i].told
         /\ \A c \in Clients : cmd[c].pc \in {"idle", "done"})

(* What uninstall's comments promise of its deletion gate: the executable is
   not deleted while a daemon that already listened when the uninstall asked
   it to stop still serves the endpoint. *)
NoOrphan ==
    \A c \in Clients : (cmd[c].op = "uninstall" /\ cmd[c].out = "removed")
        => port \notin cmd[c].up

=============================================================================

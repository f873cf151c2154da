----------------------------- MODULE ConfigStore -----------------------------
(***************************************************************************)
(* The client's configuration file under concurrent commands and crashes:  *)
(* ConfigStore (crates/gregg/src/config/store.rs), Config::write_atomic    *)
(* (config/model.rs), FileLockGuard (config/lock.rs) and the commands that *)
(* change the file and then nudge a running daemon (cli.rs).               *)
(*                                                                         *)
(* A process runs one command at a time, so the store's in-process mutex is *)
(* never contended and is left out.  A configuration is the systems by      *)
(* address (a host and a port), the EggPool entry and the refresh interval. *)
(* Names, timeouts and the wording of violations are left out.              *)
(***************************************************************************)
EXTENDS Integers, Sequences, FiniteSets, Functions

CONSTANTS
    Procs,        \* command-line processes
    Hosts, Ports, \* of systems
    Requests,     \* commands the operators issue
    EditorTexts,  \* configurations an editor may leave behind
    EditorIds,    \* the ids in them; an id that is generated is a new one
    Refreshes,    \* refresh intervals that validate
    MaxCommands,  \* bound: commands
    MaxCrashes,   \* bound: kills and power losses
    Corrupt,      \* bytes that do not parse or validate
    Missing,      \* no file
    None

VARIABLES
    file,     \* gregg.toml as processes see it: content and version
    durable,  \* gregg.toml as a power loss leaves it
    temps,    \* .gregg-*.toml.tmp files: name -> content, synced, stale
    lock,     \* the process holding the lock file's flock
    proc,     \* per process: where its command is
    daemon,   \* the client daemon: whether it runs, what it has loaded
    serial,   \* commands so far
    crashes,  \* kills and power losses so far
    acked     \* history: the newest version a command has acknowledged

vars == <<file, durable, temps, lock, proc, daemon, serial, crashes, acked>>

-----------------------------------------------------------------------------
(* The configuration and what the commands do to it.                         *)

Addresses == Hosts \X Ports
Ids == (1 .. MaxCommands) \cup EditorIds
Tables == UNION {[A -> Ids] : A \in SUBSET Addresses}

(* What validates: no two systems share an address or an id.                 *)
Configurations ==
    {c \in [systems : Tables, eggpool : Ids \cup {None}, refresh : {0} \cup Refreshes] :
        IsInjective(c.systems)}

Calls == [cmd : Requests, id : 1 .. MaxCommands]

ASSUME StoreAssumption ==
    /\ {MaxCommands, MaxCrashes} \subseteq Nat
    /\ None \notin Ports \cup Procs
    /\ None \notin [cmd : Calls, applied : BOOLEAN]
    /\ Corrupt # Missing /\ {Corrupt, Missing} \cap Configurations = {}
    /\ EditorTexts \subseteq Configurations
    /\ \A c \in EditorTexts : Range(c.systems) \subseteq EditorIds
    /\ EditorIds \cap (1 .. MaxCommands) = {}
    /\ Requests \subseteq
          [op : {"add"}, address : Addresses, replace : BOOLEAN]
            \cup [op : {"remove"}, host : Hosts, port : Ports \cup {None}]
            \cup [op : {"refresh"}, seconds : Nat]
            \cup [op : {"eggpool add"}, replace : BOOLEAN]
            \cup [op : {"eggpool remove"}, matches : BOOLEAN]
            \cup [op : {"edit"}]

Default == [systems |-> <<>>, eggpool |-> None, refresh |-> 0]
Refused == [refused |-> TRUE]

(* An address that is there already is refused, or with --replace keeps its   *)
(* stable id.                                                                *)
CmdAdd(c, cmd, id) ==
    IF cmd.address \in DOMAIN c.systems
    THEN IF cmd.replace THEN c ELSE Refused
    ELSE [c EXCEPT !.systems = [a \in DOMAIN @ \cup {cmd.address} |->
                                   IF a = cmd.address THEN id ELSE @[a]]]

(* Without a port every system of the host goes; nothing to remove is no      *)
(* error, and the file is written all the same.                              *)
CmdRemove(c, cmd, id) ==
    [c EXCEPT !.systems =
        Restrict(@, {a \in DOMAIN @ :
                        a[1] # cmd.host \/ (cmd.port # None /\ a[2] # cmd.port)})]

CmdRefresh(c, cmd, id) ==
    IF cmd.seconds \in Refreshes THEN [c EXCEPT !.refresh = cmd.seconds] ELSE Refused

CmdEggpoolAdd(c, cmd, id) ==
    IF c.eggpool = None THEN [c EXCEPT !.eggpool = id]
    ELSE IF cmd.replace THEN c ELSE Refused

CmdEggpoolRemove(c, cmd, id) ==
    IF cmd.matches THEN [c EXCEPT !.eggpool = None] ELSE c

Mutated(c, cmd, id) ==
    CASE cmd.op = "add" -> CmdAdd(c, cmd, id)
      [] cmd.op = "remove" -> CmdRemove(c, cmd, id)
      [] cmd.op = "refresh" -> CmdRefresh(c, cmd, id)
      [] cmd.op = "eggpool add" -> CmdEggpoolAdd(c, cmd, id)
      [] cmd.op = "eggpool remove" -> CmdEggpoolRemove(c, cmd, id)

(* Commands whose success nudges the daemon.                                 *)
MutatesNoEdit(cmd) == cmd.op \notin {"edit"}
MutatesConfig(cmd) ==
    cmd.op \in {"add", "remove", "refresh", "edit", "eggpool add", "eggpool remove"}

-----------------------------------------------------------------------------
(* Temporary files.  Their names hold a process id and a random id.           *)

EditTemp(p) == <<proc[p].id, "edit">>
WriteTemp(p) == <<proc[p].id, "write">>
With(name, content, synced) ==
    [n \in DOMAIN temps \cup {name} |->
        IF n = name THEN [content |-> content, synced |-> synced, stale |-> FALSE]
        ELSE temps[n]]
Without(names) == Restrict(temps, DOMAIN temps \ names)

(* cleanup_stale_temps, which every load runs without the lock.              *)
StaleTemps == {n \in DOMAIN temps : temps[n].stale}

(* Five minutes pass without a write to it.                                  *)
Age(n) ==
    /\ ~temps[n].stale
    /\ temps' = [temps EXCEPT ![n].stale = TRUE]
    /\ UNCHANGED <<file, durable, lock, proc, daemon, serial, crashes, acked>>

-----------------------------------------------------------------------------
(* A command.                                                                *)

Idle == [pc |-> "idle", cmd |-> None, id |-> 0, base |-> None, new |-> None]
At(p, pc) == proc[p].pc = pc
Goes(p, pc) == proc' = [proc EXCEPT ![p].pc = pc]

(* Dropping the guard closes the descriptor, and with it the lock goes.       *)
Unlocked(p) == IF lock = p THEN None ELSE lock

(* An error: the guard drops, the temporary files are removed.               *)
FailRemoving(p, names) ==
    /\ proc' = [proc EXCEPT ![p] = Idle]
    /\ lock' = Unlocked(p)
    /\ temps' = Without(names)
    /\ UNCHANGED <<file, durable, daemon, serial, crashes, acked>>

Invoke(p) ==
    /\ At(p, "idle") /\ serial < MaxCommands
    /\ serial' = serial + 1
    /\ \E r \in Requests :
          proc' = [proc EXCEPT ![p] =
                      [Idle EXCEPT !.pc = "lock", !.cmd = r, !.id = serial + 1]]
    /\ UNCHANGED <<file, durable, temps, lock, daemon, crashes, acked>>

(* flock without blocking, retried until LOCK_TIMEOUT_MS.                     *)
Available == lock = None
AcquireLock(p) ==
    /\ At(p, "lock") /\ Available
    /\ lock' = p
    /\ Goes(p, "load")
    /\ UNCHANGED <<file, durable, temps, daemon, serial, crashes, acked>>

LockFails(p) == At(p, "lock") /\ FailRemoving(p, {})

Loaded == IF file.content = Missing THEN Default ELSE file.content

(* load_or_default, the mutation and its validation.                          *)
LoadAndMutate(p) ==
    /\ At(p, "load") /\ proc[p].cmd.op # "edit"
    /\ LET new == Mutated(Loaded, proc[p].cmd, proc[p].id)
       IN  IF file.content = Corrupt \/ new = Refused
           THEN FailRemoving(p, StaleTemps)
           ELSE /\ proc' = [proc EXCEPT ![p].pc = "write", ![p].base = Loaded,
                                        ![p].new = new]
                /\ temps' = Without(StaleTemps)
                /\ UNCHANGED <<file, durable, lock, daemon, serial, crashes, acked>>

(* edit_transaction: the current configuration goes into a file of its own.   *)
LoadForEdit(p) ==
    /\ At(p, "load") /\ proc[p].cmd.op = "edit"
    /\ IF file.content = Corrupt THEN FailRemoving(p, StaleTemps)
       ELSE /\ proc' = [proc EXCEPT ![p].pc = "edit", ![p].base = Loaded]
            /\ temps' = Without(StaleTemps)
            /\ UNCHANGED <<file, durable, lock, daemon, serial, crashes, acked>>

CreateEditTemp(p) ==
    /\ At(p, "edit")
    /\ \/ FailRemoving(p, {EditTemp(p)})
       \/ /\ temps' = With(EditTemp(p), proc[p].base, TRUE)
          /\ Goes(p, "editor")
          /\ UNCHANGED <<file, durable, lock, daemon, serial, crashes, acked>>

(* An editor writes by name, so it puts back a file that was removed.        *)
EditorSaves(p) ==
    /\ At(p, "editor")
    /\ \E text \in EditorTexts \cup {Corrupt} :
          temps' = With(EditTemp(p), text, TRUE)
    /\ UNCHANGED <<file, durable, lock, proc, daemon, serial, crashes, acked>>

EditorFails(p) == At(p, "editor") /\ FailRemoving(p, {EditTemp(p)})

EditorExits(p) ==
    /\ At(p, "editor")
    /\ IF EditTemp(p) \in DOMAIN temps /\ temps[EditTemp(p)].content # Corrupt
       THEN /\ proc' = [proc EXCEPT ![p].pc = "write",
                                    ![p].new = temps[EditTemp(p)].content]
            /\ temps' = Without({EditTemp(p)})
            /\ UNCHANGED <<file, durable, lock, daemon, serial, crashes, acked>>
       ELSE FailRemoving(p, {EditTemp(p)})

-----------------------------------------------------------------------------
(* write_atomic.                                                             *)

(* The bytes written may not be the bytes meant.                             *)
WriteBytes(p) ==
    /\ At(p, "write")
    /\ \/ FailRemoving(p, StaleTemps \cup {WriteTemp(p)})
       \/ /\ \E content \in {proc[p].new, Corrupt} :
                temps' = [n \in (DOMAIN temps \ StaleTemps) \cup {WriteTemp(p)} |->
                             With(WriteTemp(p), content, FALSE)[n]]
          /\ Goes(p, "sync")
          /\ UNCHANGED <<file, durable, lock, daemon, serial, crashes, acked>>

Synced(name) ==
    IF name \in DOMAIN temps THEN [temps EXCEPT ![name].synced = TRUE] ELSE temps

SyncTemp(p) ==
    /\ At(p, "sync")
    /\ \/ FailRemoving(p, {WriteTemp(p)})
       \/ /\ temps' = Synced(WriteTemp(p))
          /\ Goes(p, "verify")
          /\ UNCHANGED <<file, durable, lock, daemon, serial, crashes, acked>>

VerifiedUnread(p) == WriteTemp(p) \in DOMAIN temps
Verified(p) ==
    WriteTemp(p) \in DOMAIN temps /\ temps[WriteTemp(p)].content = proc[p].new

VerifyTemp(p) ==
    /\ At(p, "verify")
    /\ IF Verified(p)
       THEN /\ Goes(p, "rename")
            /\ UNCHANGED <<file, durable, temps, lock, daemon, serial, crashes, acked>>
       ELSE FailRemoving(p, {WriteTemp(p)})

(* The rename fails when a cleanup has removed the file.                      *)
Renamed(p) ==
    /\ At(p, "rename") /\ WriteTemp(p) \in DOMAIN temps
    /\ file' = [content |-> temps[WriteTemp(p)].content, version |-> file.version + 1,
                whole |-> temps[WriteTemp(p)].synced]
    /\ temps' = Without({WriteTemp(p)})
    /\ Goes(p, "directory")
    /\ UNCHANGED <<durable, lock, daemon, serial, crashes, acked>>
RenameFails(p) == At(p, "rename") /\ FailRemoving(p, {WriteTemp(p)})

(* The directory is synced, the guards drop, the command reports.  Where the  *)
(* directory may not be opened the code warns and goes on; here it may.      *)
DirectoryUnsynced == durable
DirectorySynced == file
SyncDirectory(p) ==
    /\ At(p, "directory")
    /\ durable' = DirectorySynced
    /\ acked' = file.version
    /\ lock' = Unlocked(p)
    /\ IF MutatesConfig(proc[p].cmd) THEN Goes(p, "notify")
       ELSE proc' = [proc EXCEPT ![p] = Idle]
    /\ UNCHANGED <<file, temps, daemon, serial, crashes>>
SyncDirectoryFails(p) == At(p, "directory") /\ FailRemoving(p, {})

(* A running daemon is asked to reload; one that does not run is no error.    *)
NotifyRunningDaemon(p) ==
    /\ At(p, "notify")
    /\ daemon' = [daemon EXCEPT !.nudged = @ \/ daemon.up]
    /\ proc' = [proc EXCEPT ![p] = Idle]
    /\ UNCHANGED <<file, durable, temps, lock, serial, crashes, acked>>

-----------------------------------------------------------------------------
(* The daemon and other readers, which take no lock.                         *)

ReadFile ==
    temps' = Without(StaleTemps) /\
    UNCHANGED <<file, durable, lock, proc, serial, crashes, acked>>

StartDaemon ==
    /\ ~daemon.up /\ file.content # Corrupt
    /\ daemon' = [up |-> TRUE, nudged |-> FALSE, config |-> Loaded,
                  version |-> file.version]
    /\ ReadFile

(* A reload asked for by a command or by an operator; a file that cannot be   *)
(* read leaves the daemon with what it has.                                  *)
ReloadDaemon ==
    /\ daemon.up
    /\ daemon' = [daemon EXCEPT
                     !.nudged = FALSE,
                     !.config = IF file.content \in {Missing, Corrupt} THEN @
                                ELSE file.content,
                     !.version = IF file.content \in {Missing, Corrupt} THEN @
                                 ELSE file.version]
    /\ ReadFile

-----------------------------------------------------------------------------
(* Faults.                                                                   *)

Kill(p) ==
    /\ proc[p].pc # "idle" /\ crashes < MaxCrashes
    /\ crashes' = crashes + 1
    /\ proc' = [proc EXCEPT ![p] = Idle]
    /\ lock' = Unlocked(p)
    /\ UNCHANGED <<file, durable, temps, daemon, serial, acked>>

(* A rename that was not synced may be lost, and with it or without it the    *)
(* bytes that were not.                                                      *)
AfterPowerLoss(f) == IF f.whole THEN f ELSE [f EXCEPT !.content = Corrupt]
PowerLoss ==
    /\ crashes < MaxCrashes
    /\ crashes' = crashes + 1
    /\ file' \in {AfterPowerLoss(file), durable}
    /\ durable' = file'
    /\ proc' = [p \in Procs |-> Idle]
    /\ lock' = None
    /\ daemon' = [daemon EXCEPT !.up = FALSE, !.nudged = FALSE]
    /\ UNCHANGED <<temps, serial, acked>>

-----------------------------------------------------------------------------
Init ==
    /\ file \in [content : {Missing, Default}, version : {0}, whole : {TRUE}]
    /\ durable = file
    /\ temps = <<>>
    /\ lock = None
    /\ proc = [p \in Procs |-> Idle]
    /\ daemon = [up |-> FALSE, nudged |-> FALSE, config |-> Default, version |-> 0]
    /\ serial = 0 /\ crashes = 0 /\ acked = 0

Step(p) ==
    \/ AcquireLock(p) \/ LockFails(p) \/ LoadAndMutate(p) \/ LoadForEdit(p)
    \/ CreateEditTemp(p) \/ WriteBytes(p) \/ SyncTemp(p) \/ VerifyTemp(p)
    \/ Renamed(p) \/ RenameFails(p) \/ SyncDirectory(p) \/ SyncDirectoryFails(p)
    \/ NotifyRunningDaemon(p)
Editor(p) == EditorSaves(p) \/ EditorFails(p) \/ EditorExits(p)

Next ==
    \/ \E p \in Procs : Invoke(p) \/ Step(p) \/ Editor(p) \/ Kill(p)
    \/ \E n \in DOMAIN temps : Age(n)
    \/ StartDaemon \/ ReloadDaemon \/ PowerLoss

Spec == Init /\ [][Next]_vars

(* A command's own steps are taken; an operator may leave an editor open for  *)
(* ever.  A nudged daemon reloads.                                           *)
Fairness ==
    /\ \A p \in Procs : WF_vars(Step(p))
    /\ WF_vars(daemon.nudged /\ ReloadDaemon)

FairSpec == Spec /\ Fairness

-----------------------------------------------------------------------------
(* The file holds a whole, valid configuration or none, whatever was killed   *)
(* and whenever the power went; no two systems share an id.                  *)
FileIntact ==
    /\ file.content \in Configurations \cup {Missing}
    /\ durable.content \in Configurations \cup {Missing}

TypeOK ==
    /\ file.version \in Nat /\ durable.version \in 0 .. file.version
    /\ lock \in Procs \cup {None}
    /\ DOMAIN temps \subseteq (1 .. MaxCommands) \X {"edit", "write"}
    /\ \A p \in Procs : lock = p <=>
          proc[p].pc \in {"load", "edit", "editor", "write", "sync", "verify",
                          "rename", "directory"}
    /\ serial \in 0 .. MaxCommands /\ crashes \in 0 .. MaxCrashes

(* No lost update: what a command writes was computed from the configuration  *)
(* it replaces, however long its editor was open.                            *)
BaseIsCurrent ==
    \A p \in Procs :
        proc[p].pc \in {"edit", "editor", "write", "sync", "verify", "rename"} =>
            proc[p].base = Loaded

(* A command that reported success is never undone by a power loss.          *)
AckedIsDurable == durable.version >= acked

(* The store is an atomic register of configurations.                        *)
Value(f) == IF f.content = Missing THEN Default ELSE f.content
Outcomes(c, call) ==
    IF call.cmd.op = "edit" THEN EditorTexts \cup {c}
    ELSE {Mutated(c, call.cmd, call.id)}
Outstanding ==
    [p \in Procs |->
        IF proc[p].pc \in {"idle", "notify"} THEN None
        ELSE [cmd |-> [cmd |-> proc[p].cmd, id |-> proc[p].id],
              applied |-> proc[p].pc = "directory"]]
Register ==
    INSTANCE ConfigRegister WITH
        value <- Value(file), stable <- Value(durable), req <- Outstanding,
        Commands <- Calls,
        Results <- Outcomes
AtomicRegister == Register!Spec

(* A command without an editor ends, even when an editor elsewhere never does. *)
CommandsEnd ==
    \A p \in Procs : (proc[p].pc # "idle" /\ proc[p].cmd.op # "edit") ~> proc[p].pc = "idle"

(* A running daemon gets to a configuration at least as new as every one that  *)
(* a command has acknowledged and announced.                                  *)
DaemonFollows ==
    \A v \in 1 .. MaxCommands :
        (acked >= v /\ daemon.up) ~>
            (daemon.version >= v \/ ~daemon.up \/ crashes > 0)

(* Commands end, and the daemon gets to what they acknowledged.               *)
StoreProgress == CommandsEnd /\ DaemonFollows

(* A system that stays configured keeps its stable id through every command    *)
(* but an edit, add --replace included.                                       *)
IdsKept ==
    [][\A p \in Procs : (Renamed(p) /\ proc[p].cmd.op # "edit") =>
          \A a \in DOMAIN Value(file).systems \cap DOMAIN Value(file').systems :
              Value(file').systems[a] = Value(file).systems[a]]_vars

(* The file can be relied on: it is never torn, no update is lost, none that    *)
(* was acknowledged is undone (write_atomic, with_lock), and ids are kept.     *)
StoreSound == [](TypeOK /\ FileIntact /\ BaseIsCurrent /\ AckedIsDurable) /\ IdsKept
=============================================================================

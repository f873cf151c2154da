---------------------------- MODULE ServiceUnit ----------------------------
(***************************************************************************)
(* greggd's registration with the host's service manager: install and       *)
(* uninstall for systemd and launchd (crates/greggd/src/startup/systemd.rs,  *)
(* launchd.rs, install.rs) and the end of `greggd uninstall` that deletes     *)
(* the executable (greggd/src/uninstall.rs, execute_plan).                   *)
(*                                                                         *)
(* A registration is a file at one fixed path; what the manager has loaded    *)
(* of it and what is running are the manager's.  A file of ours names the    *)
(* standard executable and a configuration, a foreign one another program,   *)
(* a greggd of somebody else's perhaps, which may serve one of the same       *)
(* configurations.                                                          *)
(* Every manager command may fail; one that is killed at its deadline may    *)
(* have worked.  A probe that fails reads as "not active".                   *)
(***************************************************************************)
EXTENDS Integers, FiniteSets

CONSTANTS
    UnitConfigs,  \* configurations a registration of ours may name
    ForeignUnits, \* registrations that name another program
    Uses,         \* the configuration a foreign unit's greggd serves, if any
    MaxManaged    \* bound on the commands and the operator's interventions

VARIABLES
    manager,  \* "systemd" or "launchd"
    file,     \* what the unit or plist names
    loaded,   \* what the manager has read of it
    enabled,  \* started with the host (systemd; launchd keeps it in loaded)
    serving,  \* the registration that the manager runs
    task,     \* the command in progress
    deleted,  \* the executable is gone
    swallowed, \* a failure went unreported since the command began
    disturbed, \* somebody else changed the registration since then
    managed   \* bounded counter

unitVars == <<manager, file, loaded, enabled, serving, task, deleted, swallowed,
              disturbed, managed>>

Nothing == "nothing"
Registrations == UnitConfigs \cup ForeignUnits \cup {Nothing}
Ours(registration) == registration \in UnitConfigs
ASSUME UnitAssumption ==
    /\ Nothing \notin UnitConfigs \cup ForeignUnits
    /\ UnitConfigs \cap ForeignUnits = {}
    /\ Uses \in [ForeignUnits -> UnitConfigs \cup {Nothing}]

(* Whether the process of a registration answers on configuration c's endpoint. *)
Serves(registration, c) ==
    registration = c \/ (registration \in ForeignUnits /\ Uses[registration] = c)

NoTask == [op |-> "none", config |-> Nothing, at |-> "end", owned |-> FALSE, direct |-> FALSE,
           result |-> "none"]
Pending == task.at # "end"
Moves(next) == task' = [task EXCEPT !.at = next]
Finishes(result) == task' = [task EXCEPT !.at = "end", !.result = result]

(* A manager command at step `at`: it works, fails, or is killed at its          *)
(* deadline after it worked.                                                  *)
Manager(at, Effect, next) ==
    /\ task.at = at
    /\ \/ Effect /\ (Moves(next) \/ Finishes("error"))
       \/ UNCHANGED <<file, loaded, enabled, serving>> /\ Finishes("error")
    /\ UNCHANGED <<manager, deleted, swallowed, disturbed, managed>>

(* A command whose failure the code passes over.                               *)
BestEffort(at, Effect, next) ==
    /\ task.at = at
    /\ Moves(next)
    /\ \/ Effect /\ UNCHANGED swallowed
       \/ UNCHANGED <<file, loaded, enabled, serving>> /\ swallowed' = TRUE
    /\ UNCHANGED <<manager, deleted, disturbed, managed>>

(* systemd_is_active, launchd_is_loaded.                                        *)
Active == IF manager = "systemd" THEN serving # Nothing ELSE loaded # Nothing
Probe(at, ifActive, otherwise) ==
    /\ task.at = at
    /\ \E answer \in {Active, FALSE} :
          /\ Moves(IF answer THEN ifActive ELSE otherwise)
          /\ swallowed' = (swallowed \/ answer # Active)
    /\ UNCHANGED <<manager, file, loaded, enabled, serving, deleted, disturbed, managed>>

Reload == loaded' = file /\ UNCHANGED <<file, enabled, serving>>
Enable == file # Nothing /\ enabled' = TRUE /\ UNCHANGED <<file, loaded, serving>>
Disable == file # Nothing /\ enabled' = FALSE /\ UNCHANGED <<file, loaded, serving>>
(* Starting what runs already changes nothing and succeeds.                     *)
StartUnit ==
    /\ loaded # Nothing
    /\ serving' = IF serving = Nothing THEN loaded ELSE serving
    /\ UNCHANGED <<file, loaded, enabled>>
RestartUnit == loaded # Nothing /\ serving' = loaded /\ UNCHANGED <<file, loaded, enabled>>
StopUnit == serving' = Nothing /\ UNCHANGED <<file, loaded, enabled>>
Bootout ==
    /\ loaded # Nothing
    /\ loaded' = Nothing /\ serving' = Nothing /\ UNCHANGED <<file, enabled>>
Bootstrap ==
    /\ loaded = Nothing /\ file # Nothing
    /\ loaded' = file /\ serving' = file /\ UNCHANGED <<file, enabled>>

-----------------------------------------------------------------------------
(* A command begins.  An install has checked the manager, the executable's      *)
(* path and its privilege; an uninstall looks at who owns the registration.   *)
Begin(op, c) ==
    /\ ~Pending /\ ~deleted
    /\ managed < MaxManaged
    /\ managed' = managed + 1
    /\ task' = [NoTask EXCEPT !.op = op, !.config = c,
                              !.at = IF op = "install" THEN "prepare" ELSE "discover"]
    /\ swallowed' = FALSE /\ disturbed' = FALSE
    /\ UNCHANGED <<manager, file, loaded, enabled, serving, deleted>>

(* The account, the configuration and its permissions, then the file: a failure *)
(* on the way leaves the old one, and a failure to sync after the rename the   *)
(* new one.  Whose the old one is, is not looked at.                         *)
WriteFile ==
    /\ task.at = "prepare"
    /\ \/ file' = task.config
          /\ \/ Moves(IF manager = "systemd" THEN "reload" ELSE "loaded?")
             \/ Finishes("error")
       \/ file' = file /\ Finishes("error")
    /\ UNCHANGED <<manager, loaded, enabled, serving, deleted, swallowed, disturbed, managed>>

(* install_systemd from daemon-reload on.                                      *)
SystemdSteps ==
    /\ task.op = "install" /\ manager = "systemd"
    /\ \/ Manager("reload", Reload, "enable")
       \/ Manager("enable", Enable, "active?")
       \/ Probe("active?", "restart", "start")
       \/ Manager("restart", RestartUnit, "installed")

(* A failed start is followed by a restart.                                    *)
StartOrRestart ==
    /\ task.at = "start"
    /\ \/ StartUnit /\ (Moves("installed") \/ Moves("restart"))
       \/ UNCHANGED <<file, loaded, enabled, serving>> /\ Moves("restart")
    /\ UNCHANGED <<manager, deleted, swallowed, disturbed, managed>>

(* install_launchd from the probe on: whether the job was loaded decides which  *)
(* failures count.                                                           *)
LaunchdSteps ==
    /\ task.op = "install" /\ manager = "launchd"
    /\ \/ Probe("loaded?", "bootout", "bootstrap")
       \/ BestEffort("bootout", Bootout, "rebootstrap")
       \/ BestEffort("rebootstrap", Bootstrap, "kickstart")
       \/ Manager("rebootstrap", Bootstrap, "kickstart")
       \/ Manager("bootstrap", Bootstrap, "installed")
       \/ Manager("kickstart", RestartUnit, "installed")

Installed ==
    /\ task.at = "installed"
    /\ Finishes("installed")
    /\ UNCHANGED <<manager, file, loaded, enabled, serving, deleted, swallowed, disturbed, managed>>

-----------------------------------------------------------------------------
(* systemd_artifact_ownership, launchd_artifact_ownership: without a file the    *)
(* command that systemd has loaded is asked for; nothing is asked of launchd.  *)
Named == IF file # Nothing THEN file ELSE loaded
Ownership(active, readable) ==
    CASE file = Nothing /\ ~active -> "absent"
      [] readable /\ (file # Nothing \/ (active /\ manager = "systemd" /\ loaded # Nothing)) ->
            IF Ours(Named) THEN "owned" ELSE "foreign"
      [] OTHER -> "unknown"

Overlooks(active, readable) == swallowed \/ active # Active \/ ~readable

(* manager_explains_endpoint: an active manager whose unit names the selected    *)
(* configuration, or a foreign one that names none at all.                     *)
Explains(active, ownership, names) ==
    /\ active /\ ownership \in {"owned", "foreign"}
    /\ Serves(Named, task.config) \/ (ownership = "foreign" /\ ~names)

(* discover_for, plan_from_discovery: a daemon that answers on the selected      *)
(* configuration's endpoint and that no active manager accounts for is stopped  *)
(* directly; one that an unknown registration may run keeps the plan from       *)
(* being carried out.                                                        *)
Discover ==
    /\ task.at = "discover"
    /\ \E running \in {Serves(serving, task.config), FALSE},
         active \in {Active, FALSE}, readable \in BOOLEAN, names \in BOOLEAN :
          /\ swallowed' = \/ Overlooks(active, readable)
                           \/ running # Serves(serving, task.config)
          /\ LET ownership == Ownership(active, readable)
                 unknown == active /\ ownership = "unknown"
             IN IF running /\ unknown THEN Finishes("error")
                ELSE task' = [task EXCEPT
                       !.owned = ownership = "owned",
                       !.direct = running /\ ~Explains(active, ownership, names),
                       !.at = IF ownership = "owned" THEN "classify" ELSE "verify"]
    /\ UNCHANGED <<manager, file, loaded, enabled, serving, deleted, disturbed, managed>>

(* uninstall_systemd and uninstall_launchd look again, and do nothing about a    *)
(* registration that they no longer take for ours.                            *)
TeardownUnstopped(active) == IF manager = "systemd" THEN "disable" ELSE "remove"
TeardownSequence(active) ==
    CASE active /\ manager = "systemd" -> "stop"
      [] active /\ manager = "launchd" -> "unload"
      [] OTHER -> IF manager = "systemd" THEN "disable" ELSE "remove"

Classify ==
    /\ task.at = "classify"
    /\ \E active \in {Active, FALSE}, readable \in BOOLEAN :
          /\ swallowed' = Overlooks(active, readable)
          /\ Moves(IF Ownership(active, readable) = "owned" THEN TeardownSequence(active)
                   ELSE "verify")
    /\ UNCHANGED <<manager, file, loaded, enabled, serving, deleted, disturbed, managed>>

RemoveFile == file' = Nothing /\ UNCHANGED <<loaded, enabled, serving>>

(* The teardown; a step that fails ends the command with what is left.           *)
TeardownSteps ==
    /\ task.op = "uninstall"
    /\ \/ Manager("stop", StopUnit, "disable")
       \/ Manager("disable", Disable, IF file # Nothing THEN "remove" ELSE "verify")
       \/ Manager("remove", RemoveFile, IF manager = "systemd" THEN "forget" ELSE "verify")
       \/ Manager("forget", Reload, "verify")
       \/ Manager("unload", Bootout, IF file # Nothing THEN "remove" ELSE "verify")

(* direct_stop_and_gate: the control socket belongs to the configuration, so     *)
(* whoever serves it stops; a stop that is not certain ends the command.        *)
DirectStop ==
    /\ task.at = "verify" /\ task.direct
    /\ \/ /\ serving' = IF Serves(serving, task.config) THEN Nothing ELSE serving
          /\ Moves("delete") \/ Finishes("error")
       \/ UNCHANGED serving /\ Finishes("error")
    /\ UNCHANGED <<manager, file, loaded, enabled, deleted, swallowed, disturbed, managed>>

(* Without a direct stop the endpoint is looked at once more: an answer keeps    *)
(* the executable, an attempt that times out counts as none.                   *)
Verify ==
    /\ task.at = "verify" /\ ~task.direct
    /\ \E answers \in {Serves(serving, task.config), FALSE} :
          /\ swallowed' = (swallowed \/ answers # Serves(serving, task.config))
          /\ (~answers /\ Moves("delete")) \/ Finishes("error")
    /\ UNCHANGED <<manager, file, loaded, enabled, serving, deleted, disturbed, managed>>

DeleteExecutable ==
    /\ task.at = "delete"
    /\ \/ Finishes("uninstalled") /\ deleted' = TRUE
       \/ Finishes("error") /\ UNCHANGED deleted
    /\ UNCHANGED <<manager, file, loaded, enabled, serving, swallowed, disturbed, managed>>

-----------------------------------------------------------------------------
(* The operator or a package: starts and stops the unit, or puts another        *)
(* registration in place.                                                    *)
Intervenes ==
    /\ managed < MaxManaged
    /\ managed' = managed + 1
    /\ disturbed' = TRUE
    /\ \/ StartUnit \/ StopUnit
       \/ /\ file' \in Registrations \ {file}
          /\ UNCHANGED <<loaded, enabled, serving>>
    /\ UNCHANGED <<manager, task, deleted, swallowed>>

UnitInit ==
    /\ manager \in {"systemd", "launchd"}
    /\ file \in Registrations
    /\ loaded = file /\ enabled = (file # Nothing)
    /\ serving \in {Nothing, file}
    /\ task = NoTask
    /\ deleted = FALSE /\ swallowed = FALSE /\ disturbed = FALSE
    /\ managed = 0

UnitNext ==
    \/ \E op \in {"install", "uninstall"}, c \in UnitConfigs : Begin(op, c)
    \/ WriteFile \/ SystemdSteps \/ StartOrRestart \/ LaunchdSteps \/ Installed
    \/ Discover \/ Classify \/ TeardownSteps \/ DirectStop \/ Verify \/ DeleteExecutable
    \/ Intervenes

UnitSpec == UnitInit /\ [][UnitNext]_unitVars

-----------------------------------------------------------------------------
Concluded(op) == task.op = op /\ task.at = "end"

(* install_systemd, install_launchd: an install that says it is done, with no   *)
(* failure passed over and nobody interfering, leaves its configuration in     *)
(* the file, in the manager and in the process, whatever was registered,       *)
(* loaded or running before; under systemd it also starts with the host.       *)
InstallTakesEffect ==
    Concluded("install") /\ task.result = "installed" /\ ~disturbed =>
        /\ file = task.config /\ loaded = task.config /\ serving = task.config
        /\ manager = "systemd" => enabled
InstallHonest == swallowed \/ InstallTakesEffect

(* execute_plan: an uninstall that found a registration of its own and says it  *)
(* is done leaves nothing that names the executable it deleted: no file,       *)
(* nothing loaded and nothing running.                                       *)
UninstallHonest ==
    Concluded("uninstall") /\ deleted /\ task.owned /\ ~disturbed /\ ~swallowed =>
        ~Ours(file) /\ ~Ours(loaded) /\ ~Ours(serving)

(* systemd_artifact_ownership, manager_explains_endpoint: an uninstall leaves a  *)
(* foreign registration as it is, and its process too, even one that serves     *)
(* the selected configuration, unless a look at the manager has failed.        *)
ForeignKept ==
    [][task.op = "uninstall" /\ Pending /\ ~disturbed' /\ file \in ForeignUnits =>
          /\ UNCHANGED <<file, loaded, enabled>>
          /\ serving = file /\ ~swallowed => serving' = serving]_unitVars

(* uninstall.rs:233 "foreign and unknown artifacts remain visible in the        *)
(* rendered plan but are never removed"; the test at uninstall.rs:1263 wants    *)
(* an active foreign unit on the selected configuration preserved.  An          *)
(* is-active probe that fails takes the unit for inactive, and the daemon is    *)
(* stopped through its control socket.                                       *)
ForeignDaemonSpared ==
    [][task.op = "uninstall" /\ Pending /\ ~disturbed' /\ file \in ForeignUnits =>
          (serving = file => serving' = serving)]_unitVars

UnitSound == [](InstallHonest /\ UninstallHonest) /\ ForeignKept
=============================================================================

--------------------------- MODULE WindowsService ---------------------------
(***************************************************************************)
(* greggd as a Windows service (crates/greggd/src/service/windows.rs): the     *)
(* service worker, which reports its state to the service control manager     *)
(* and is stopped through a one-shot signal, and the commands that act on it   *)
(* through WindowsServiceManager: start, stop, restart, the unregister of an    *)
(* uninstall, and an update, which stops the service it owns, replaces the     *)
(* executable and restarts it.                                               *)
(*                                                                         *)
(* Commands overlap.  Every call to the manager may fail, and every wait for a  *)
(* state may run out.  The worker never reports StopPending: between a stop    *)
(* that was delivered and its end the service is still Running.               *)
(***************************************************************************)
EXTENDS Integers

CONSTANTS
    Operators,       \* terminals a command is given at
    MaxServiceCommands, \* bound on commands
    MaxRegistrations \* bound on registrations by an installer

VARIABLES
    registration,  \* "none", "ours", "foreign": the executable registered
    doomed,        \* the registration is marked for deletion
    scm,           \* the state last reported: "Stopped", "StartPending", "Running"
    daemon,        \* the worker: "none", "loading", "serving", "draining", "held"
    signal,        \* the one-shot shutdown signal was sent
    launches,      \* how often the service was launched
    request,       \* each operator's command
    registrations, commands  \* bounded counters

windowsVars == <<registration, doomed, scm, daemon, signal, launches, request,
                 registrations, commands>>

NoCommand == [kind |-> "none", at |-> "none", lifecycle |-> "none", base |-> 0, replaced |-> FALSE]

ServiceUnchanged == UNCHANGED <<registration, doomed, scm, daemon, signal, launches, registrations>>
Turns(o, next) == request' = [request EXCEPT ![o].at = next]
Ended(o) == request[o].at \in {"none", "ok", "error"}

-----------------------------------------------------------------------------
(* run_service_worker.  A worker that ends is Stopped to the manager, whether it *)
(* says so or dies; a registration marked for deletion goes with it.          *)
WorkerGone ==
    /\ daemon' = "none" /\ scm' = "Stopped"
    /\ registration' = (IF doomed THEN "none" ELSE registration) /\ doomed' = FALSE
    /\ UNCHANGED <<signal, launches, request, registrations, commands>>

(* The configuration, the collector, the listener; Running is reported when it is  *)
(* bound.                                                                   *)
ServiceReady ==
    /\ daemon = "loading"
    /\ daemon' = "serving" /\ scm' = "Running"
    /\ UNCHANGED <<registration, doomed, signal, launches, request, registrations, commands>>
LoadFails == daemon = "loading" /\ WorkerGone

(* The receiver is handed to the daemon: a signal sent before is still in it.     *)
DrainsOn(condition) ==
    /\ daemon = "serving" /\ condition
    /\ daemon' = "draining"
    /\ UNCHANGED <<registration, doomed, scm, signal, launches, request, registrations, commands>>
Drains == DrainsOn(signal)
TaskFails == DrainsOn(TRUE)

(* The closure's end drops the runtime, before Stopped is reported: the drop waits  *)
(* for a collection that still runs on the blocking pool, and nothing makes its   *)
(* native reads return.                                                       *)
Drained ==
    /\ daemon = "draining"
    /\ \/ WorkerGone
       \/ /\ daemon' = "held"
          /\ UNCHANGED <<registration, doomed, scm, signal, launches, request, registrations, commands>>
CollectionReturns == daemon = "held" /\ WorkerGone

WorkerDies == daemon # "none" /\ WorkerGone

-----------------------------------------------------------------------------
(* NativeScmAdapter.  query_state.                                            *)
State == IF registration = "none" THEN "NotInstalled" ELSE scm
Up == {"Running", "StartPending"}

(* start_service.                                                            *)
StartAccepted(o) ==
    /\ registration # "none" /\ ~doomed /\ scm = "Stopped"
    /\ scm' = "StartPending" /\ daemon' = "loading" /\ signal' = FALSE
    /\ launches' = launches + 1
    /\ Turns(o, "up")
    /\ UNCHANGED <<registration, doomed, registrations, commands>>

(* What a command does once its stop is over: a restart starts, an uninstall       *)
(* deletes, an update replaces the executable and later starts.                *)
StopIsOver(o) ==
    CASE request[o].kind = "stop" -> "ok"
      [] request[o].kind = "restart" -> "ask"
      [] request[o].kind = "unregister" -> "delete"
      [] request[o].kind = "update" -> IF request[o].replaced THEN "ask" ELSE "replace"

(* Variant: stop does not wait.                                               *)
AfterStopUnwaited(o) == StopIsOver(o)
(* stop_service, then wait_for_state(Stopped).                                  *)
AfterStop(o) == "down"
StopAccepted(o) ==
    /\ State \in Up
    /\ signal' = TRUE
    /\ Turns(o, AfterStop(o))
    /\ UNCHANGED <<registration, doomed, scm, daemon, launches, registrations, commands>>

(* delete_service: what is missing or marked already counts as deleted.          *)
Deleted(o) ==
    /\ registration' = (IF scm = "Stopped" THEN "none" ELSE registration)
    /\ doomed' = (registration # "none" /\ scm # "Stopped")
    /\ Turns(o, "ok")
    /\ UNCHANGED <<scm, daemon, signal, launches, registrations, commands>>

CallFails(o) ==
    /\ ~Ended(o)
    /\ Turns(o, "error")
    /\ UNCHANGED commands /\ ServiceUnchanged

-----------------------------------------------------------------------------
(* WindowsServiceManager.  A step of a command reads the state once.              *)
Does(o, from, next) ==
    /\ request[o].at = from
    /\ Turns(o, next)
    /\ UNCHANGED commands /\ ServiceUnchanged

(* The stop of `stop`, `restart`, `unregister` and `update`.                      *)
QueryBeforeStop(o) ==
    Does(o, "query", IF State \in Up THEN "stopping"
                     ELSE IF State = "NotInstalled" /\ request[o].kind = "unregister" THEN "ok"
                     ELSE StopIsOver(o))
StopService(o) == request[o].at = "stopping" /\ StopAccepted(o)
WaitStopped(o) == State = "Stopped" /\ Does(o, "down", StopIsOver(o))

QueryBeforeStart(o) == Does(o, "ask", IF State \in Up THEN "ok" ELSE "starting")
StartService(o) == request[o].at = "starting" /\ StartAccepted(o)
WaitRunning(o) == State = "Running" /\ Does(o, "up", "ok")
DeleteService(o) == request[o].at = "delete" /\ Deleted(o)

(* wait_for_state runs out: the state was not the one waited for.                 *)
WaitTimesOut(o) ==
    \/ State # "Stopped" /\ Does(o, "down", "error")
    \/ State # "Running" /\ Does(o, "up", "error")

-----------------------------------------------------------------------------
(* run_update on Windows.  decide_windows_update_lifecycle, with the refusal of a    *)
(* registration that was ours before the candidate was prepared.               *)
Lifecycle ==
    CASE registration = "none" -> "Stopped"
      [] registration = "foreign" -> "ForeignPreserved"
      [] registration = "ours" -> IF scm \in Up THEN "ManagedRunning" ELSE "ManagedStopped"
BeforePreparing(o) ==
    /\ request[o].at = "prepare"
    /\ request' = [request EXCEPT ![o].at = "observe",
                                  ![o].lifecycle = IF registration = "ours" THEN "ours" ELSE "none"]
    /\ UNCHANGED commands /\ ServiceUnchanged
ObserveLifecycle(o) ==
    /\ request[o].at = "observe"
    /\ request' = [request EXCEPT
          ![o].at = IF request[o].lifecycle = "ours" /\ Lifecycle = "ForeignPreserved"
                    THEN "error" ELSE "quiesce",
          ![o].lifecycle = Lifecycle]
    /\ UNCHANGED commands /\ ServiceUnchanged

(* quiesce_windows_service_if_needed.                                          *)
Quiesce(o) ==
    Does(o, "quiesce",
         IF request[o].lifecycle = "ManagedRunning" /\ registration = "ours" /\ scm \in Up
         THEN "query" ELSE "replace")

(* replace_current_exe and restart_after_update: only what was running is started.   *)
ReplaceExecutable(o) ==
    /\ request[o].at = "replace"
    /\ request' = [request EXCEPT
          ![o].at = IF request[o].lifecycle = "ManagedRunning" THEN "route" ELSE "ok",
          ![o].replaced = TRUE, ![o].base = launches]
    /\ UNCHANGED commands /\ ServiceUnchanged

(* restart_daemon: windows_restart_registration_route.                            *)
RestartRoute(o) == Does(o, "route", IF registration = "ours" THEN "query" ELSE "error")

-----------------------------------------------------------------------------
Entry(kind) == CASE kind = "start" -> "ask" [] kind = "update" -> "prepare" [] OTHER -> "query"
BeginCommand(o) ==
    /\ Ended(o) /\ commands < MaxServiceCommands
    /\ \E kind \in {"start", "stop", "restart", "unregister", "update"} :
          request' = [request EXCEPT ![o] =
              [NoCommand EXCEPT !.kind = kind, !.at = Entry(kind), !.base = launches]]
    /\ commands' = commands + 1
    /\ ServiceUnchanged

(* An installer's registration.                                               *)
Register(owner) ==
    /\ registration = "none" /\ registrations < MaxRegistrations
    /\ registration' = owner /\ registrations' = registrations + 1
    /\ UNCHANGED <<doomed, scm, daemon, signal, launches, request, commands>>

WindowsInit ==
    /\ registration \in {"none", "ours", "foreign"} /\ doomed = FALSE
    /\ \/ scm = "Stopped" /\ daemon = "none"
       \/ scm = "Running" /\ daemon = "serving" /\ registration # "none"
    /\ signal = FALSE /\ launches = 0
    /\ request = [o \in Operators |-> NoCommand]
    /\ registrations = 0 /\ commands = 0

WorkerStep == ServiceReady \/ LoadFails \/ Drains \/ Drained
CommandStep(o) ==
    \/ QueryBeforeStop(o) \/ StopService(o) \/ WaitStopped(o)
    \/ QueryBeforeStart(o) \/ StartService(o) \/ WaitRunning(o)
    \/ DeleteService(o) \/ WaitTimesOut(o) \/ CallFails(o)
    \/ BeforePreparing(o) \/ ObserveLifecycle(o) \/ Quiesce(o)
    \/ ReplaceExecutable(o) \/ RestartRoute(o)

WindowsNext ==
    \/ WorkerStep \/ CollectionReturns \/ TaskFails \/ WorkerDies
    \/ \E o \in Operators : BeginCommand(o) \/ CommandStep(o)
    \/ \E owner \in {"ours", "foreign"} : Register(owner)

(* The worker and the commands are scheduled; a wait ends at its deadline.  Nothing   *)
(* is assumed of a native read.                                                *)
WindowsFairness ==
    /\ WF_windowsVars(WorkerStep)
    /\ \A o \in Operators : WF_windowsVars(CommandStep(o))

WindowsSpec == WindowsInit /\ [][WindowsNext]_windowsVars /\ WindowsFairness

-----------------------------------------------------------------------------
(* `greggd host` and `greggd port` write the configuration and restart the service,  *)
(* an update replaces the executable and restarts it: when they answer ok, the   *)
(* service was launched after that, whoever launched it, and whatever the other   *)
(* commands did in between.                                                    *)
AnswersOk(o) == ~Ended(o) /\ request'[o].at = "ok"
RestartIsFresh ==
    [][ \A o \in Operators :
          AnswersOk(o) /\ request[o].at \in {"ask", "up"} /\ request[o].kind # "start"
             => launches > request[o].base ]_windowsVars

(* A stop or an uninstall that answers ok leaves no service behind, unless it was     *)
(* launched again since the command began.                                     *)
StopIsHonest ==
    [][ \A o \in Operators :
          AnswersOk(o) /\ request[o].kind \in {"stop", "unregister"}
             => daemon = "none" \/ launches > request[o].base ]_windowsVars

(* A stop that was delivered ends the service, also one delivered while it starts,    *)
(* except that the end may wait for a collection that hangs; every command answers,  *)
(* also one that waits for such an end.                                         *)
StopEnds == []((signal /\ daemon # "none") => <>(daemon \in {"none", "held"}))
CommandsAnswer == \A o \in Operators : []<>Ended(o)

WindowsSound == RestartIsFresh /\ StopIsHonest /\ StopEnds /\ CommandsAnswer

(* "an owned-to-foreign/unknown transition during the replacement window cannot make   *)
(* this stop a foreign service" (update.rs): the stop itself does not look at who    *)
(* owns the service.                                                           *)
UpdateSparesForeign ==
    [][ \A o \in Operators :
          request[o].kind = "update" /\ StopService(o) => registration = "ours" ]_windowsVars

(* "Already running or starting - idempotent": a start may be answered by a service     *)
(* that a delivered stop is about to end.                                       *)
StartIsLasting ==
    [][ \A o \in Operators :
          AnswersOk(o) /\ request[o].at \in {"ask", "up"} => ~signal ]_windowsVars
=============================================================================

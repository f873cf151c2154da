---------------------------- MODULE FleetPolling ----------------------------
(***************************************************************************)
(* The metrics plane of gregg's client daemon: the PollScheduler task      *)
(* (crates/gregg/src/scheduler.rs), the engine task that owns the fleet    *)
(* (clientd/daemon.rs, Engine::run) with the batch reducer and the reload  *)
(* reconciliation (state.rs, FleetState).  What becomes of a published      *)
(* document on its way to a frontend is the module IpcTransport.           *)
(*                                                                         *)
(* A configuration is the sequence of its systems.  An endpoint stands for *)
(* one spelling of a host and port, and Host gives the normalized target   *)
(* that equivalent_endpoint_host compares.  A document is what             *)
(* FleetState::to_dto projects, without the times and the latency, which   *)
(* the reducer leaves out of its change decision on purpose.  The EggPool  *)
(* and cron parts of a reload touch none of this state.                    *)
(*                                                                         *)
(* Three branches of the code cannot be taken while the engine holds the   *)
(* other end: ReceiverDropped, a closed command channel, and               *)
(* hub.shutdown, which only run_daemon cancels, once the engine returned.  *)
(***************************************************************************)
EXTENDS Integers, Sequences, FiniteSets, SequencesExt

CONSTANTS
    Ids,               \* stable system ids
    Endpoints,         \* spellings of host and port
    Host,              \* the normalized target of each spelling
    Configs,           \* configurations the file may hold
    Vals,              \* snapshot contents a greggd may answer with
    Failures,          \* failed poll outcomes other than Cancelled
    MaxConcurrent,     \* max_concurrent_requests, the semaphore's permits
    CommandCapacity,   \* of the SchedulerCommand channel (4)
    BatchCapacity,     \* of the PollBatch channel (4)
    MaxGeneration,     \* u64::MAX, where the generation wraps to 1
    None

ConfigOf(c) == \A i, j \in DOMAIN c : c[i].id = c[j].id => i = j

ASSUME ConstantsAssumption ==
    /\ Configs \subseteq Seq([id : Ids, endpoint : Endpoints])
    /\ \A c \in Configs : ConfigOf(c)
    /\ {"cancelled", "queued", "polling", None} \cap (Vals \cup Failures) = {}
    /\ Vals \cap Failures = {}
    /\ None \notin {Host[e] : e \in Endpoints} \X Vals
    /\ \A n \in {MaxConcurrent, CommandCapacity, BatchCapacity, MaxGeneration} :
          n \in Nat \ {0}

VARIABLES
    fleet,      \* FleetState: systems, last_applied_generation, reload error
    doc,        \* the document in the snapshots watch channel
    poller,     \* the poll task: where it is, its list, generation and polls
    commands,   \* the SchedulerCommand channel
    batches,    \* the PollBatch channel
    engine,     \* running, stopped, or failed with SchedulerStopped
    cancel,     \* the daemon was told to stop
    tasks,      \* the tasks token was cancelled
    refused     \* history: the command channel refused the newest endpoint list

vars == <<fleet, doc, poller, commands, batches, engine, cancel,
          tasks, refused>>

-----------------------------------------------------------------------------
Refresh == <<"refresh">>
Replace(c) == <<"replace", c>>
Failed == Failures \cup {"cancelled"}
Snapshots == {Host[e] : e \in Endpoints} \X Vals

(* reachability with what belongs to it: latest is a snapshot and the target  *)
(* it came from.                                                             *)
Systems ==
    [id : Ids, endpoint : Endpoints, reach : {"pending", "online", "offline"},
     latest : Snapshots \cup {None}, reason : Failed \cup {None}]

Polls == {"queued", "polling"} \cup Vals \cup Failed
Commands == {Refresh} \cup {Replace(c) : c \in Configs}
Results == [id : Ids, endpoint : Endpoints, outcome : Vals \cup Failed]
Batches == [generation : 1 .. MaxGeneration, results : Seq(Results)]

TypeOK ==
    /\ fleet \in [systems : Seq(Systems), last : 0 .. MaxGeneration,
                  reloadError : BOOLEAN]
    /\ ConfigOf(fleet.systems)
    /\ poller \in [pc : {"polling", "waiting", "ended", "dead"}, list : Configs,
                   generation : 0 .. MaxGeneration, polls : Seq(Polls)]
    /\ poller.pc = "polling" => Len(poller.polls) = Len(poller.list)
    /\ commands \in Seq(Commands) /\ Len(commands) <= CommandCapacity
    /\ batches \in Seq(Batches) /\ Len(batches) <= BatchCapacity
    /\ engine \in {"running", "stopped", "failed"}
    /\ cancel \in BOOLEAN /\ tasks \in BOOLEAN /\ refused \in BOOLEAN

-----------------------------------------------------------------------------
(* The poll task.                                                            *)

Advance(g) == IF g = MaxGeneration THEN 1 ELSE g + 1

(* advance_generation and the spawns at the top of poll_generation.          *)
Generation(list, g) ==
    [pc |-> "polling", list |-> list, generation |-> Advance(g),
     polls |-> [i \in DOMAIN list |-> "queued"]]
Waiting(list, g) ==
    [pc |-> "waiting", list |-> list, generation |-> g, polls |-> <<>>]

Ended(i) == poller.polls[i] \notin {"queued", "polling"}
Complete == poller.pc = "polling" /\ \A i \in DOMAIN poller.polls : Ended(i)

PollEnds(i, outcome) == poller' = [poller EXCEPT !.polls[i] = outcome]

(* A poll takes a permit of the semaphore.                                   *)
Acquire ==
    /\ poller.pc = "polling" /\ ~tasks
    /\ Cardinality({i \in DOMAIN poller.polls : poller.polls[i] = "polling"})
         < MaxConcurrent
    /\ \E i \in DOMAIN poller.polls :
          /\ poller.polls[i] = "queued"
          /\ PollEnds(i, "polling")
    /\ UNCHANGED <<fleet, doc, commands, batches, engine, cancel,
                   tasks, refused>>

(* client.poll_prepared answers or fails; a poll task that panics becomes a   *)
(* Cancelled result.                                                         *)
Answer ==
    /\ poller.pc = "polling" /\ ~tasks
    /\ \E i \in DOMAIN poller.polls, outcome \in Vals \cup Failed :
          /\ poller.polls[i] = "polling"
          /\ PollEnds(i, outcome)
    /\ UNCHANGED <<fleet, doc, commands, batches, engine, cancel,
                   tasks, refused>>

(* Both selects of a poll are biased towards cancellation.                   *)
CancelPoll ==
    /\ poller.pc = "polling" /\ tasks
    /\ \E i \in DOMAIN poller.polls :
          /\ ~Ended(i)
          /\ PollEnds(i, "cancelled")
    /\ UNCHANGED <<fleet, doc, commands, batches, engine, cancel,
                   tasks, refused>>

Batch ==
    [generation |-> poller.generation,
     results |-> [i \in DOMAIN poller.list |->
                    [id |-> poller.list[i].id,
                     endpoint |-> poller.list[i].endpoint,
                     outcome |-> poller.polls[i]]]]

Deliver ==
    /\ Complete /\ ~tasks
    /\ Len(batches) < BatchCapacity
    /\ batches' = Append(batches, Batch)
    /\ poller' = Waiting(poller.list, poller.generation)
    /\ UNCHANGED <<fleet, doc, commands, engine, cancel, tasks, refused>>

(* Cancellation is preferred to delivery; the loop then ends.                *)
DropBatch ==
    /\ Complete /\ tasks
    /\ poller' = Waiting(poller.list, poller.generation)
    /\ UNCHANGED <<fleet, doc, commands, batches, engine, cancel,
                   tasks, refused>>

PollerEnds ==
    /\ poller.pc = "waiting" /\ tasks
    /\ poller' = [poller EXCEPT !.pc = "ended"]
    /\ UNCHANGED <<fleet, doc, commands, batches, engine, cancel,
                   tasks, refused>>

(* The list a command leaves the poll task with.                             *)
ListAfterUnlessEmpty(list, command) ==
    IF command = Refresh \/ command = Replace(<<>>) THEN list ELSE command[2]
ListAfter(list, command) == IF command = Refresh THEN list ELSE command[2]

TakeCommand ==
    /\ poller.pc = "waiting" /\ ~tasks
    /\ commands # <<>>
    /\ commands' = Tail(commands)
    /\ LET list == ListAfter(poller.list, Head(commands))
       IN  poller' = IF list = <<>> THEN Waiting(list, poller.generation)
                                    ELSE Generation(list, poller.generation)
    /\ UNCHANGED <<fleet, doc, batches, engine, cancel, tasks, refused>>

(* The interval; a waiting command comes first.                              *)
Tick ==
    /\ poller.pc = "waiting" /\ ~tasks
    /\ commands = <<>> /\ poller.list # <<>>
    /\ poller' = Generation(poller.list, poller.generation)
    /\ UNCHANGED <<fleet, doc, commands, batches, engine, cancel,
                   tasks, refused>>

(* The poll task panics: the failure that closes its batch channel early.    *)
PollerDies ==
    /\ poller.pc \in {"polling", "waiting"}
    /\ poller' = [poller EXCEPT !.pc = "dead", !.polls = <<>>]
    /\ UNCHANGED <<fleet, doc, commands, batches, engine, cancel,
                   tasks, refused>>

-----------------------------------------------------------------------------
(* The fleet.                                                                *)

Equivalent(e, f) == Host[e] = Host[f]

FromEntry(entry) ==
    [id |-> entry.id, endpoint |-> entry.endpoint, reach |-> "pending",
     latest |-> None, reason |-> None]

Retained(system, entry) ==
    system.id = entry.id /\ Equivalent(system.endpoint, entry.endpoint)

(* reconcile_systems: an unchanged target keeps its state under its new       *)
(* spelling, everything else starts pending.                                 *)
Reconciled(systems, config) ==
    [k \in DOMAIN config |->
        IF \E s \in ToSet(systems) : Retained(s, config[k])
        THEN [(CHOOSE s \in ToSet(systems) : Retained(s, config[k]))
                EXCEPT !.endpoint = config[k].endpoint]
        ELSE FromEntry(config[k])]

Accepts(last, g) == g > last \/ (last = MaxGeneration /\ g = 1)

AnswersById(result, system) == result.id = system.id
Answers(result, system) ==
    result.id = system.id /\ Equivalent(result.endpoint, system.endpoint)

(* One result applied to its system; a failure keeps the latest snapshot.    *)
Applied(system, result) ==
    IF result.outcome \in Vals
    THEN [system EXCEPT !.reach = "online", !.reason = None,
                        !.latest = <<Host[result.endpoint], result.outcome>>]
    ELSE [system EXCEPT !.reach = "offline", !.reason = result.outcome]

AppliedAll(systems, results) ==
    [k \in DOMAIN systems |->
        IF \E r \in ToSet(results) : Answers(r, systems[k])
        THEN Applied(systems[k],
                     CHOOSE r \in ToSet(results) : Answers(r, systems[k]))
        ELSE systems[k]]

(* visible_changed, as the reducer decides it from the system before.        *)
Visibly(before, after) ==
    \/ before.reach # after.reach
    \/ after.reach = "online" /\ before.latest # after.latest
    \/ before.reason # after.reason

Document(f) ==
    [systems |-> f.systems, initialized |-> f.last # 0, error |-> f.reloadError]

-----------------------------------------------------------------------------
(* The engine task.  Publish is the end of an iteration of its loop.          *)

Publish(f, dirty) ==
    /\ fleet' = f
    /\ doc' = IF dirty THEN Document(f) ELSE doc

InitialFleet(config) ==
    [systems |-> [k \in DOMAIN config |-> FromEntry(config[k])], last |-> 0,
     reloadError |-> FALSE]

(* The engine returns, and run_daemon after it: the poll task is cancelled,    *)
(* the channels and the fleet are dropped.                                    *)
Stopped(how) ==
    /\ engine' = how
    /\ fleet' = InitialFleet(<<>>) /\ doc' = Document(fleet')
    /\ tasks' = TRUE
    /\ commands' = <<>> /\ batches' = <<>>

ApplyBatch ==
    /\ engine = "running" /\ batches # <<>>
    /\ batches' = Tail(batches)
    /\ LET batch == Head(batches)
           systems == AppliedAll(fleet.systems, batch.results)
       IN  IF Accepts(fleet.last, batch.generation)
           THEN Publish([fleet EXCEPT !.systems = systems,
                                      !.last = batch.generation],
                        \/ fleet.last = 0
                        \/ \E k \in DOMAIN systems :
                              Visibly(fleet.systems[k], systems[k]))
           ELSE UNCHANGED <<fleet, doc>>
    /\ UNCHANGED <<poller, commands, engine, cancel, tasks, refused>>

(* The batch channel is closed and drained: task_ended.                      *)
PollerGoneIgnored ==
    /\ engine = "running" /\ batches = <<>> /\ poller.pc = "dead" /\ cancel
    /\ Stopped("stopped")
    /\ UNCHANGED <<poller, cancel, refused>>
PollerGone ==
    /\ engine = "running" /\ batches = <<>> /\ poller.pc = "dead"
    /\ Stopped(IF cancel THEN "stopped" ELSE "failed")
    /\ UNCHANGED <<poller, cancel, refused>>

(* request_scheduler_poll: try_send, whose refusal is ignored.               *)
Fits == Len(commands) < CommandCapacity /\ poller.pc # "dead"
Request(command) == commands' = IF Fits THEN Append(commands, command) ELSE commands

(* The requests of the frontends.  They reach the engine whether or not their   *)
(* sender is still attached, so they are taken at any time.                  *)
(* ReloadConfig reads the file as the operator left it: reconcile and replace   *)
(* the list, or keep the fleet and poll when it does not load.               *)
ReloadConfig ==
    /\ engine = "running"
    /\ \/ \E file \in Configs :
          /\ Publish([fleet EXCEPT !.systems = Reconciled(fleet.systems, file),
                                   !.reloadError = FALSE], TRUE)
          /\ Request(Replace(file))
          /\ refused' = ~Fits
       \/ /\ Publish([fleet EXCEPT !.reloadError = TRUE], TRUE)
          /\ Request(Refresh)
          /\ UNCHANGED refused
    /\ UNCHANGED <<poller, batches, engine, cancel, tasks>>

Shutdown ==
    /\ engine = "running"
    /\ Stopped("stopped")
    /\ UNCHANGED <<poller, cancel, refused>>

ObserveCancel ==
    /\ engine = "running" /\ cancel
    /\ Stopped("stopped")
    /\ UNCHANGED <<poller, cancel, refused>>

-----------------------------------------------------------------------------
(* The environment.                                                          *)

Signal ==
    /\ engine = "running" /\ ~cancel
    /\ cancel' = TRUE
    /\ UNCHANGED <<fleet, doc, poller, commands, batches, engine,
                   tasks, refused>>

Init ==
    /\ \E config \in Configs :
          /\ fleet = InitialFleet(config)
          /\ poller = IF config = <<>> THEN Waiting(config, 0)
                                      ELSE Generation(config, 0)
    /\ doc = Document(fleet)
    /\ commands = <<>> /\ batches = <<>>
    /\ engine = "running" /\ cancel = FALSE /\ tasks = FALSE
    /\ refused = FALSE

PollTask ==
    Acquire \/ Answer \/ CancelPoll \/ Deliver \/ DropBatch \/ PollerEnds
        \/ TakeCommand \/ Tick
EngineTask == ApplyBatch \/ PollerGone \/ ReloadConfig \/ Shutdown \/ ObserveCancel
Environment == Signal \/ PollerDies

Next == PollTask \/ EngineTask \/ Environment

Spec == Init /\ [][Next]_vars

(* The poll task and the engine run; every poll ends, since the client has a   *)
(* whole-request deadline; select! starves no ready branch of the engine: a     *)
(* cancellation that stays is observed, which ends what enables it.           *)
Fairness ==
    /\ WF_vars(PollTask)
    /\ WF_vars(ApplyBatch \/ PollerGone)
    /\ []<>~(engine = "running" /\ cancel)
FairSpec == Spec /\ Fairness

-----------------------------------------------------------------------------
(* Properties.                                                               *)

(* What a system shows was answered by the target it is configured with, also *)
(* when a reload repoints, respells, moves, removes or re-adds the id while a  *)
(* poll of the old target is in flight (apply_batch_owned_changed's endpoint   *)
(* comparison, reconcile_systems), and a system without an answer is never     *)
(* online.                                                                   *)
NoForeignSnapshot ==
    \A s \in ToSet(fleet.systems) :
        /\ s.latest # None => s.latest[1] = Host[s.endpoint]
        /\ s.reach = "online" => s.latest # None

(* The generations from the fleet through the channel to the poll task follow  *)
(* each other, also over the wrap from u64::MAX to 1: no batch is ever skipped  *)
(* or rejected by accept_batch_generation.                                   *)
Follows(g, h) == h = IF g = MaxGeneration THEN 1 ELSE g + 1
Delivered == IF batches = <<>> THEN fleet.last ELSE batches[Len(batches)].generation
GenerationsConsecutive ==
    engine = "running" =>
        /\ batches # <<>> => Follows(fleet.last, batches[1].generation)
        /\ \A k \in 1 .. Len(batches) - 1 :
              Follows(batches[k].generation, batches[k + 1].generation)
        /\ poller.pc = "polling" => Follows(Delivered, poller.generation)

(* A step that publishes nothing changed nothing a document carries: the       *)
(* reducer's visible_changed and the first-generation rule never suppress a    *)
(* publication the frontends need (Engine::run, apply_batch_owned_changed).    *)
DocumentCurrent == engine = "running" => doc = Document(fleet)

FleetList ==
    [k \in DOMAIN fleet.systems |-> [id |-> fleet.systems[k].id,
                                     endpoint |-> fleet.systems[k].endpoint]]

(* Unless the command channel refused the newest endpoint list, what the poll   *)
(* task polls once it has read its commands is the fleet's own list: the last   *)
(* list still in the channel, or the one it has when none is.  No order of      *)
(* reloads, broken files and generations leaves it with another one.           *)
PollerFollowsFleet ==
    engine = "running" /\ ~refused =>
        LET lists == {k \in DOMAIN commands : commands[k] # Refresh}
        IN  IF lists = {} THEN poller.list = FleetList
            ELSE \A k \in lists :
                    (\A j \in lists : j <= k) => commands[k] = Replace(FleetList)

(* Everyone keeps up with the fleet: the served document, the poll task and    *)
(* the generations on their way between them (Engine::run,                    *)
(* request_scheduler_poll and accept_batch_generation keep them in step).     *)
FleetSound == TypeOK /\ GenerationsConsecutive /\ DocumentCurrent /\ PollerFollowsFleet

(* A refused command "costs at most the early poll", because "the fixed cadence *)
(* polls anyway" (request_scheduler_poll): with no command left to read, the    *)
(* cadence polls the fleet's list.                                           *)
CadencePollsFleet ==
    engine = "running" /\ poller.pc # "dead" /\ commands = <<>> =>
        poller.list = FleetList

Unpolled(i, h) ==
    \E s \in ToSet(fleet.systems) :
        s.id = i /\ Host[s.endpoint] = h /\ s.reach = "pending"
Targets == {<<s.id, Host[s.endpoint]>> : s \in UNION {ToSet(c) : c \in Configs}}
Down == engine # "running" \/ poller.pc = "dead"

(* A configured system is polled, unless its configuration changes first, the   *)
(* daemon stops or the newest list was refused (poll_loop, apply_batch).       *)
SystemsPolled ==
    \A t \in Targets : Unpolled(t[1], t[2]) ~> ~Unpolled(t[1], t[2]) \/ Down \/ refused

(* A stop signal ends the engine and the poll task, whatever is in flight; a    *)
(* dead poll task ends the daemon instead of freezing its metrics (task_ended). *)
StopEnds ==
    cancel \/ poller.pc = "dead" ~>
        engine # "running" /\ poller.pc \in {"ended", "dead"}

(* The daemon makes progress: systems are polled, and what ends, ends whole.   *)
FleetProgress == SystemsPolled /\ StopEnds
=============================================================================

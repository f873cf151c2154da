------------------------------ MODULE CronPlane ------------------------------
(***************************************************************************)
(* The scheduler-observation plane of gregg's client daemon: the CronWorker *)
(* task with its history gate (crates/gregg/src/clientd/cron.rs), the      *)
(* memory-only CronCache (cron.rs), the engine's cron branches and the     *)
(* reload reconciliation (clientd/daemon.rs, state.rs), and the frontends' *)
(* cron intents, which decide what history the document carries.           *)
(*                                                                         *)
(* A target is one normalized host and port; spellings of one target are   *)
(* FleetPolling's subject.  A remote greggd serves one job: a scheduler    *)
(* lifetime (epoch), a history revision, whether the job is waiting (a live *)
(* change that moves no revision) and the ring of its records, which are   *)
(* numbered in the order they finish.  Timestamps are left out.  A request  *)
(* of a frontend is handled when it is made: the queue in between, and what *)
(* it does to a frontend that has left, is EggpoolPlane's subject.         *)
(***************************************************************************)
EXTENDS Integers, Sequences, FiniteSets, SequencesExt, FiniteSetsExt

CONSTANTS
    Ids,             \* stable system ids
    Targets,         \* normalized endpoints
    Configs,         \* configurations the file may hold: id -> target
    Subscribers,     \* attached frontends
    Depths,          \* display_history values they ask for
    MaxInFlight,     \* CRON_MAX_IN_FLIGHT
    ChannelCapacity, \* CRON_CHANNEL_CAPACITY
    PerJob,          \* cron.cache_history, records kept per job
    TotalCap,        \* MAX_TOTAL_CRON_RECORDS
    Ring,            \* scheduler_history_limit of a remote greggd
    Past,            \* per target: runs finished before the client started
    MaxEvents,       \* bound: things that happen at the remotes
    MaxReloads,      \* bound: reloads
    None

ASSUME ConstantsAssumption ==
    /\ \A c \in Configs :
          /\ DOMAIN c \subseteq Ids /\ \A i \in DOMAIN c : c[i] \in Targets
          /\ \A i, k \in DOMAIN c : c[i] = c[k] => i = k
    /\ Past \in [Targets -> 0 .. Ring]
    /\ Depths \subseteq Nat \ {0}
    /\ {MaxInFlight, ChannelCapacity, PerJob, TotalCap, Ring} \subseteq Nat \ {0}
    /\ IsFiniteSet(Ids)
    /\ {MaxEvents, MaxReloads} \subseteq Nat

VARIABLES
    remote,    \* per target: the greggd there
    config,    \* FleetState.systems and Hub.cron_endpoints
    permit,    \* the permit of the reload Notify
    worker,    \* the CronWorker task: where it is, its round and its gate
    channel,   \* observations on their way to the engine
    cache,     \* FleetState.cron
    intents,   \* Hub.cron_intents
    moved,     \* its revision is not the one the engine last published at
    doc,       \* the cron part of the published document
    events,    \* things that happened at the remotes so far
    reloads,   \* reloads so far
    unread,    \* history: a reload the worker has not read the list since
    overtaken  \* history: a reload replaced a list the worker never read

vars == <<remote, config, permit, worker, channel, cache, intents, moved, doc,
          events, reloads, unread, overtaken>>

Epochs == Targets \X (1 .. MaxEvents + 1)
Records == [epoch : Epochs, seq : 1 .. Ring + MaxEvents]
Summaries == [epoch : Epochs, revision : Nat, job : BOOLEAN, waiting : BOOLEAN]
Histories == [epoch : Epochs, revision : Nat, records : Seq(Records)]
Capabilities == {"unknown", "unsupported", "supported"}
Systems ==
    [capability : Capabilities, summary : Summaries \cup {None},
     epoch : Epochs \cup {None}, revision : Nat \cup {None}, error : BOOLEAN,
     records : Seq(Records)]
Shown == [capability : Capabilities, summary : Summaries \cup {None}, error : BOOLEAN]
Commits == [key : Ids \X Targets, epoch : Epochs, revision : Nat]

ASSUME NoneAssumption ==
    None \notin Epochs /\ None \notin Summaries /\ None \notin Shown /\ None \notin Commits

-----------------------------------------------------------------------------
(* The remote greggds.                                                       *)

RemoteStates ==
    [up : BOOLEAN, supported : BOOLEAN, job : BOOLEAN, epoch : Epochs,
     revision : Nat, waiting : BOOLEAN, records : Seq(Records)]

NewRemote(t, n, supported, job) ==
    [up |-> TRUE, supported |-> supported, job |-> job, epoch |-> <<t, n>>,
     revision |-> 0, waiting |-> FALSE, records |-> <<>>]

(* A scheduler that has already run: its ring holds the runs of its past.      *)
PastRuns(t) == [n \in 1 .. Past[t] |-> [epoch |-> <<t, 1>>, seq |-> n]]
FirstRemote(t) ==
    [NewRemote(t, 1, TRUE, TRUE) EXCEPT !.revision = Past[t], !.records = PastRuns(t)]

Newest(s, n) == IF Len(s) > n THEN SubSeq(s, Len(s) - n + 1, Len(s)) ELSE s

RemoteStep(t, r) ==
    /\ events < MaxEvents
    /\ events' = events + 1
    /\ remote' = [remote EXCEPT ![t] = r]
    /\ UNCHANGED <<config, permit, worker, channel, cache, intents, moved, doc,
                   reloads, unread, overtaken>>

RunFinishes(t) ==
    /\ remote[t].supported /\ remote[t].job
    /\ LET record == [epoch |-> remote[t].epoch, seq |-> Ring + events + 1]
       IN  RemoteStep(t, [remote[t] EXCEPT
                             !.revision = @ + 1,
                             !.records = Newest(Append(@, record), Ring)])

JobWaits(t) ==
    /\ remote[t].job /\ ~remote[t].waiting
    /\ RemoteStep(t, [remote[t] EXCEPT !.waiting = TRUE])

(* A new lifetime restarts the revision and forgets the ring; it may be      *)
(* another build or another configuration.                                   *)
Restarts(t) ==
    \E supported, job \in BOOLEAN :
        /\ job => supported
        /\ RemoteStep(t, NewRemote(t, remote[t].epoch[2] + 1, supported, job))

Flaps(t) == RemoteStep(t, [remote[t] EXCEPT !.up = ~@])

Summary(r) == [epoch |-> r.epoch, revision |-> r.revision, job |-> r.job,
               waiting |-> r.waiting]
History(r) == [epoch |-> r.epoch, revision |-> r.revision, records |-> r.records]

-----------------------------------------------------------------------------
(* The history gate, keyed by system and target.                             *)

Needs(gate, key, s) ==
    key \notin DOMAIN gate \/ gate[key] # <<s.epoch, s.revision>>

Keys(list) == {<<i, list[i]>> : i \in DOMAIN list}
ForgetAbsent(gate, list) == [key \in DOMAIN gate \cap Keys(list) |-> gate[key]]

Commit(gate, commit) ==
    IF commit = None THEN gate
    ELSE [key \in DOMAIN gate \cup {commit.key} |->
             IF key = commit.key THEN <<commit.epoch, commit.revision>>
             ELSE gate[key]]

-----------------------------------------------------------------------------
(* One round: a window of fetches on the worker's own task, so none advances  *)
(* while a finished one is being handed over.                                *)

Pending == [phase |-> "pending"]
Finished(outcome, summary, attempt, history) ==
    [phase |-> "finished", outcome |-> outcome, summary |-> summary,
     attempt |-> attempt, history |-> history]
Done == [phase |-> "done"]

Polling == worker.pc = "round" /\ worker.held = None
InFlight == {i \in DOMAIN worker.fetches :
                worker.fetches[i].phase \in {"history", "finished"}}

WorkerStep(w) ==
    /\ worker' = w
    /\ UNCHANGED <<remote, config, cache, intents, moved, doc, events, reloads,
                   overtaken>>

(* The list is read and the gate pruned.  The code copies the gate for the    *)
(* round; an entry moves only after its own fetch, so the copy is left out.  *)
ReadList ==
    /\ worker.pc = "read"
    /\ WorkerStep([pc |-> "round", list |-> config, held |-> None,
                   gate |-> ForgetAbsent(worker.gate, config),
                   fetches |-> [i \in DOMAIN config |-> Pending]])
    /\ unread' = FALSE
    /\ UNCHANGED <<permit, channel>>

(* The summary route answers, and the gate says whether the history is       *)
(* fetched too.                                                              *)
FetchSummary(i) ==
    /\ Polling /\ worker.fetches[i] = Pending
    /\ Cardinality(InFlight) < MaxInFlight
    /\ LET r == remote[worker.list[i]]
       IN  WorkerStep([worker EXCEPT !.fetches[i] =
              IF ~r.up THEN Finished("failed", None, "suppressed", None)
              ELSE IF ~r.supported THEN Finished("unsupported", None, "suppressed", None)
              ELSE IF Needs(worker.gate, <<i, worker.list[i]>>, Summary(r))
              THEN [phase |-> "history", summary |-> Summary(r)]
              ELSE Finished("supported", Summary(r), "suppressed", None)])
    /\ UNCHANGED <<permit, channel, unread>>

FetchHistory(i) ==
    /\ Polling /\ worker.fetches[i].phase = "history"
    /\ LET r == remote[worker.list[i]]
       IN  WorkerStep([worker EXCEPT !.fetches[i] =
              Finished("supported", worker.fetches[i].summary, "fetched",
                       IF r.up /\ r.supported THEN History(r) ELSE None)])
    /\ UNCHANGED <<permit, channel, unread>>

(* settle: only a history of the summary's own lifetime and revision is       *)
(* handed over and may move the gate.                                        *)
Coherent(f) ==
    /\ f.history # None
    /\ f.history.epoch = f.summary.epoch
    /\ f.history.revision = f.summary.revision

Observation(i, f) ==
    [id |-> i, target |-> worker.list[i], outcome |-> f.outcome,
     summary |-> f.summary,
     history |-> IF Coherent(f) THEN f.history ELSE None,
     historyError |-> f.attempt = "fetched" /\ ~Coherent(f)]
PendingCommit(i, f) ==
    IF Coherent(f)
    THEN [key |-> <<i, worker.list[i]>>, epoch |-> f.history.epoch,
          revision |-> f.history.revision]
    ELSE None

(* The gate a settled fetch leaves behind: it may move only on delivery.      *)
CommittedOnSettling(gate, commit) == Commit(gate, commit)
AfterSettling(gate, commit) == gate

Settle(i) ==
    /\ Polling /\ ~permit /\ worker.fetches[i].phase = "finished"
    /\ LET f == worker.fetches[i]
       IN  WorkerStep([worker EXCEPT
              !.fetches[i] = Done,
              !.gate = AfterSettling(@, PendingCommit(i, f)),
              !.held = [observation |-> Observation(i, f),
                        commit |-> PendingCommit(i, f)]])
    /\ UNCHANGED <<permit, channel, unread>>

DeliverObservation ==
    /\ worker.pc = "round" /\ worker.held # None /\ ~permit
    /\ Len(channel) < ChannelCapacity
    /\ channel' = Append(channel, worker.held.observation)
    /\ WorkerStep([worker EXCEPT !.gate = Commit(@, worker.held.commit),
                                 !.held = None])
    /\ UNCHANGED <<permit, unread>>

Idle(pc, gate) ==
    [pc |-> pc, list |-> <<>>, gate |-> gate, held |-> None, fetches |-> <<>>]
Ended(pc) == Idle(pc, worker.gate)

(* A reload ends the round wherever it is and drops its requests.            *)
Preempted ==
    /\ worker.pc = "round" /\ permit
    /\ worker.held # None \/ \E i \in DOMAIN worker.fetches : worker.fetches[i] # Done
    /\ permit' = FALSE
    /\ WorkerStep(Ended("read"))
    /\ UNCHANGED <<channel, unread>>

RoundCompleted ==
    /\ Polling /\ \A i \in DOMAIN worker.fetches : worker.fetches[i] = Done
    /\ WorkerStep(Ended("wait"))
    /\ UNCHANGED <<permit, channel, unread>>

(* The cadence, or a reload, starts the next round.                          *)
Wake ==
    /\ worker.pc = "wait"
    /\ permit' \in {permit, FALSE}
    /\ WorkerStep([worker EXCEPT !.pc = "read"])
    /\ UNCHANGED <<channel, unread>>

-----------------------------------------------------------------------------
(* The cache.                                                                *)

Unknown ==
    [capability |-> "unknown", summary |-> None, epoch |-> None,
     revision |-> None, error |-> FALSE, records |-> <<>>]
System(c, i) == IF i \in DOMAIN c THEN c[i] ELSE Unknown

(* Merge by identity, keep the last PerJob; a job the summary no longer      *)
(* serves keeps nothing.                                                     *)
Merged(old, new) ==
    LET upTo[n \in 0 .. Len(new)] ==
            IF n = 0 THEN old
            ELSE IF new[n] \in ToSet(upTo[n - 1]) THEN upTo[n - 1]
            ELSE Append(upTo[n - 1], new[n])
    IN  upTo[Len(new)]

AppliedHistory(s, h) ==
    [s EXCEPT !.epoch = h.epoch, !.revision = h.revision,
              !.records = IF s.summary.job
                          THEN Newest(Merged(s.records, h.records), PerJob)
                          ELSE <<>>]

AppliedSystem(s, o) ==
    CASE o.outcome = "supported" ->
           LET read == [s EXCEPT !.capability = "supported", !.error = FALSE,
                                 !.summary = o.summary]
               held == IF o.history = None THEN read
                       ELSE AppliedHistory(read, o.history)
           IN  [held EXCEPT !.error = o.historyError]
      [] o.outcome = "unsupported" ->
           [s EXCEPT !.capability = "unsupported", !.error = FALSE,
                     !.summary = None]
      [] OTHER -> [s EXCEPT !.error = TRUE]

(* The records of all systems, by their places.                              *)
Retained(c) == UNION {{i} \X DOMAIN c[i].records : i \in DOMAIN c}
Total(c) == Cardinality(Retained(c))

(* The victim is the oldest of the systems' first records.                   *)
DropOldest(c) ==
    LET holding == {i \in DOMAIN c : c[i].records # <<>>}
        victim == CHOOSE i \in holding : \A k \in holding :
                     Head(c[i].records).seq <= Head(c[k].records).seq
    IN  [c EXCEPT ![victim].records = Tail(@)]

EnforceTotal(c) ==
    LET excess == IF Total(c) > TotalCap THEN Total(c) - TotalCap ELSE 0
        dropped[n \in 0 .. excess] == IF n = 0 THEN c ELSE DropOldest(dropped[n - 1])
    IN  dropped[excess]

Applied(c, o) ==
    LET next == [i \in DOMAIN c \cup {o.id} |->
                    IF i = o.id THEN AppliedSystem(System(c, i), o) ELSE c[i]]
    IN  IF o.history = None THEN next ELSE EnforceTotal(next)

Rendered(c, i) ==
    IF i \notin DOMAIN c THEN None
    ELSE [capability |-> c[i].capability, summary |-> c[i].summary,
          error |-> c[i].error]

Added(c, o) ==
    /\ o.history # None
    /\ Merged(System(c, o.id).records, o.history.records) # System(c, o.id).records

(* Whether an applied observation is published.                              *)
Visibly(c, o) ==
    Added(c, o) \/ Rendered(c, o.id) # Rendered(Applied(c, o), o.id)

-----------------------------------------------------------------------------
(* The engine.                                                               *)

(* The deepest of the requests for a system's job, or 0.                     *)
DepthOf(is, i) ==
    Max({0} \cup {is[s].depth : s \in {t \in Subscribers : is[t].id = i}})

(* What of the cache the document lets a frontend draw.                      *)
Document(c, cfg, is) ==
    [i \in DOMAIN cfg |->
        [capability |-> System(c, i).capability, summary |-> System(c, i).summary,
         error |-> System(c, i).error,
         history |-> Newest(System(c, i).records, DepthOf(is, i))]]

Accepts(o) == o.id \in DOMAIN config /\ config[o.id] = o.target

TakeObservation ==
    /\ channel # <<>>
    /\ channel' = Tail(channel)
    /\ LET o == Head(channel)
       IN  IF ~Accepts(o) THEN UNCHANGED <<cache, doc>>
           ELSE /\ cache' = Applied(cache, o)
                /\ doc' = IF Visibly(cache, o)
                          THEN Document(cache', config, intents) ELSE doc
    /\ UNCHANGED <<remote, config, permit, worker, intents, moved, events,
                   reloads, unread, overtaken>>

(* What a reload keeps: reset_system for a repointed id, retain_systems for a  *)
(* removed one.                                                              *)
Kept(c, old, new) ==
    [i \in {k \in DOMAIN c \cap DOMAIN new : k \in DOMAIN old => old[k] = new[k]}
        |-> c[i]]

ReloadConfig ==
    /\ reloads < MaxReloads
    /\ reloads' = reloads + 1
    /\ \E new \in Configs :
          /\ config' = new
          /\ cache' = Kept(cache, config, new)
          /\ doc' = Document(cache', new, intents)
    /\ permit' = TRUE
    /\ unread' = TRUE
    /\ overtaken' = (overtaken \/ unread)
    /\ UNCHANGED <<remote, worker, channel, intents, moved, events>>

(* SetCronIntent; its publication accounts for every change so far.          *)
Closed == [id |-> None, depth |-> 0]
Away == [id |-> None, depth |-> -1]
SetCronIntent(s) ==
    /\ intents[s] # Away
    /\ \E i \in Ids, d \in Depths :
          intents' = [intents EXCEPT ![s] = [id |-> i, depth |-> d]]
    /\ moved' = FALSE
    /\ doc' = Document(cache, config, intents')
    /\ UNCHANGED <<remote, config, permit, worker, channel, cache, events,
                   reloads, unread, overtaken>>

(* The connection task adds a closed intent and removes the intent of a      *)
(* departed frontend; only the revision tells the engine.                    *)
RevisionOnSet(removed) == ~removed
RevisionMoves(removed) == TRUE
IntentStep(s, intent) ==
    /\ intents' = [intents EXCEPT ![s] = intent]
    /\ moved' = (moved \/ RevisionMoves(intent = Away))
    /\ UNCHANGED <<remote, config, permit, worker, channel, cache, doc, events,
                   reloads, unread, overtaken>>
Handshake(s) == intents[s] = Away /\ IntentStep(s, Closed)
Disconnect(s) == intents[s] # Away /\ IntentStep(s, Away)

NoteRevision ==
    /\ moved /\ moved' = FALSE
    /\ doc' = Document(cache, config, intents)
    /\ UNCHANGED <<remote, config, permit, worker, channel, cache, intents,
                   events, reloads, unread, overtaken>>

-----------------------------------------------------------------------------
Init ==
    /\ remote = [t \in Targets |-> FirstRemote(t)]
    /\ config \in Configs
    /\ permit = FALSE
    /\ worker = Idle("read", <<>>)
    /\ channel = <<>> /\ cache = <<>>
    /\ intents = [s \in Subscribers |-> Away] /\ moved = FALSE
    /\ doc = Document(cache, config, intents)
    /\ events = 0 /\ reloads = 0 /\ unread = FALSE /\ overtaken = FALSE

RemoteEvent ==
    \E t \in Targets : RunFinishes(t) \/ JobWaits(t) \/ Restarts(t) \/ Flaps(t)
Fetch == \E i \in DOMAIN worker.fetches : FetchSummary(i) \/ FetchHistory(i)
SettleAny == \E i \in DOMAIN worker.fetches : Settle(i)
Frontends == \E s \in Subscribers : SetCronIntent(s) \/ Handshake(s) \/ Disconnect(s)

Next ==
    \/ RemoteEvent \/ ReadList \/ Fetch \/ SettleAny \/ DeliverObservation
    \/ Preempted \/ RoundCompleted \/ Wake
    \/ TakeObservation \/ ReloadConfig \/ NoteRevision \/ Frontends

Spec == Init /\ [][Next]_vars

(* The worker task is scheduled, requests end within the client's timeout,    *)
(* the cadence ticks, and the engine polls every branch of its select.       *)
Fairness ==
    /\ WF_vars(ReadList) /\ WF_vars(Fetch) /\ WF_vars(SettleAny)
    /\ WF_vars(DeliverObservation) /\ WF_vars(Preempted)
    /\ WF_vars(RoundCompleted) /\ WF_vars(Wake)
    /\ WF_vars(TakeObservation) /\ WF_vars(NoteRevision)

FairSpec == Spec /\ Fairness

-----------------------------------------------------------------------------
(* Per-job and fleet-wide bounds hold whatever the remotes serve, and the     *)
(* channel stays bounded.                                                    *)
TypeOK ==
    /\ config \in Configs /\ permit \in BOOLEAN /\ moved \in BOOLEAN
    /\ worker.pc \in {"read", "round", "wait"}
    /\ Cardinality(InFlight) <= MaxInFlight
    /\ Len(channel) <= ChannelCapacity
    /\ DOMAIN cache \subseteq DOMAIN config
    /\ \A i \in DOMAIN cache :
          cache[i] \in Systems /\ Len(cache[i].records) <= PerJob
    /\ Total(cache) <= TotalCap

(* A system shows only what was observed at the target it is configured with. *)
NoForeignState ==
    \A i \in DOMAIN cache :
        /\ cache[i].summary # None => cache[i].summary.epoch[1] = config[i]
        /\ \A r \in ToSet(cache[i].records) : r.epoch[1] = config[i]

(* No record is held twice, however often its document is fetched.           *)
RecordsUnique ==
    \A i \in DOMAIN cache :
        Cardinality(ToSet(cache[i].records)) = Len(cache[i].records)

(* The history applied never runs ahead of the summary it is shown with: an   *)
(* incoherent pair is never merged.                                          *)
HistoryOfSummary ==
    \A i \in DOMAIN cache :
        (cache[i].summary # None /\ cache[i].epoch = cache[i].summary.epoch)
            => cache[i].revision <= cache[i].summary.revision

(* A gate entry that says fetched means that the engine has, or is about to   *)
(* get, that document, unless two reloads fell between two reads of the list. *)
GateMeansDelivered ==
    \A key \in DOMAIN worker.gate :
        LET i == key[1]
            is(h) == <<h.epoch, h.revision>> = worker.gate[key]
        IN  (~overtaken /\ i \in DOMAIN config /\ config[i] = key[2]) =>
               \/ i \in DOMAIN cache /\ is(cache[i])
               \/ \E o \in ToSet(channel) :
                     o.id = i /\ o.history # None /\ is(o.history)

(* The document is current unless the intents moved: no live change, no       *)
(* recovery and no departed frontend is left out of it.                      *)
DocumentCurrent == ~moved => doc = Document(cache, config, intents)

(* What the worker and the engine know of the remote schedulers can be relied *)
(* on: it is of the right target, held once, coherent, within its bounds, the *)
(* gate stands for what was delivered (apply_observation, settle), and the    *)
(* document shows it.                                                       *)
ObservationSound ==
    /\ TypeOK /\ NoForeignState /\ RecordsUnique
    /\ HistoryOfSummary /\ GateMeansDelivered /\ DocumentCurrent

(* Whatever the frontends do, the document catches up with the cache and the  *)
(* intents: a departed frontend's history does not stay in it.               *)
DocumentCatchesUp == []<>(doc = Document(cache, config, intents))

(* A target that stays up and supported ends with its newest history in the   *)
(* cache, unless two reloads fell between two reads of the list.             *)
Fresh(i) ==
    /\ i \in DOMAIN cache /\ cache[i].summary = Summary(remote[config[i]])
    /\ <<cache[i].epoch, cache[i].revision>> = <<remote[config[i]].epoch,
                                                 remote[config[i]].revision>>
Reachable(i) ==
    i \in DOMAIN config /\ remote[config[i]].up /\ remote[config[i]].supported
HistoryArrives ==
    \A i \in Ids : <>[]Reachable(i) => <>[](Fresh(i) \/ overtaken)

(* A remote's history reaches the frontends: the cache gets it, and the        *)
(* document follows the cache and the intents.                              *)
DocumentFollows == DocumentCatchesUp /\ HistoryArrives

(* apply_history: the newest records are at the back and survive, so a job     *)
(* whose history is current holds the newest records its remote serves.      *)
NewestSurvive ==
    \A i \in DOMAIN cache :
        (Fresh(i) /\ cache[i].summary.job) =>
            ToSet(Newest(remote[config[i]].records, PerJob))
                \subseteq ToSet(cache[i].records)
=============================================================================

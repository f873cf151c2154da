---------------------------- MODULE EggpoolPlane ----------------------------
(***************************************************************************)
(* The EggPool plane of gregg's client daemon: the optional worker task    *)
(* (crates/gregg/src/eggpool.rs, spawn_worker), the engine that owns the   *)
(* pane's state and decides what the worker should fetch (clientd/         *)
(* daemon.rs, reduce_intents, sync_eggpool_worker, handle_request;         *)
(* state.rs, the eggpool methods of FleetState), and the connection tasks  *)
(* that add and remove the frontends' intents behind the engine's back.    *)
(*                                                                         *)
(* A fetch ends in a summary plane and a health plane, each a success or a *)
(* failure; what is shown of a plane is the pool (and window) it came from *)
(* and whether the last attempt failed.  No fetch ends in Cancelled, so    *)
(* that branch of the reducer has no input.  The retired worker of a       *)
(* reload has lost both ends of its channels: all it can do is abort, so   *)
(* it leaves the model with its handle.  Stopping the daemon is left to    *)
(* FleetPolling: it ends this plane with the engine.                       *)
(***************************************************************************)
EXTENDS Integers, Sequences, FiniteSets, FiniteSetsExt

CONSTANTS
    Subscribers,      \* connections, in the accept loop's numbering
    Pools,            \* EggPool entries the configuration may name
    Periods,          \* rolling windows, the shorter the smaller
    Hour,             \* the window a new entry and a new frontend start with
    ResultCapacity,   \* RESULT_CHANNEL_CAPACITY
    RequestCapacity,  \* REQUEST_CHANNEL_CAPACITY
    MaxRequests,      \* bound: requests all frontends send
    Outcomes,         \* how the summary and the health fetch may end
    Asks,             \* the SetEggpoolIntent requests frontends send
    None

ASSUME ConstantsAssumption ==
    /\ Periods \subseteq Nat /\ Hour \in Periods
    /\ ResultCapacity \in Nat \ {0} /\ RequestCapacity \in Nat \ {0}
    /\ MaxRequests \in Nat
    /\ Outcomes \subseteq [summary : BOOLEAN, health : BOOLEAN]
    /\ Asks \subseteq [active : BOOLEAN, period : Periods, refresh : BOOLEAN]
    /\ None \notin Pools

VARIABLES
    pool,       \* FleetState.eggpool
    doc,        \* the pool part of the published document
    intents,    \* Hub.intents, keyed by subscriber
    conn,       \* per subscriber: away, attached or gone
    requests,   \* the channel of inbound frontend requests
    sent,       \* how many were sent
    handling,   \* engine between the two locks of SetEggpoolIntent: refresh it?
    converged,  \* Engine.converged
    worker,     \* Engine.eggpool_worker with the task behind it
    engine      \* running, or failed with EggpoolWorkerStopped

vars == <<pool, doc, intents, conn, requests, sent, handling, converged,
          worker, engine>>

-----------------------------------------------------------------------------
Intents == [active : BOOLEAN, period : Periods]
DesiredStates == [active : BOOLEAN, period : Periods, generation : Nat]
Shown == [pool : Pools, period : Periods]
Results == [pool : Pools, period : Periods, generation : Nat,
            summary : BOOLEAN, health : BOOLEAN]

RefreshStates == {"idle", "refreshing", "unavailable"}
PoolStates ==
    [endpoint : Pools, period : Periods, generation : Nat,
     state : RefreshStates,
     summary : Shown \cup {None}, error : BOOLEAN,
     health : Pools \cup {None}, healthError : BOOLEAN]

InFlight == [period : Periods, generation : Nat]
WorkerStates ==
    [endpoint : Pools, alive : BOOLEAN,
     control : DesiredStates, unseen : BOOLEAN,
     desired : DesiredStates, request : InFlight \cup {None},
     deadline : BOOLEAN, held : Results \cup {None}, results : Seq(Results)]

(* None is no pool and no worker.                                            *)
ASSUME NoneAssumption == None \notin PoolStates /\ None \notin WorkerStates

Requests == [from : Subscribers, kind : {"reload"}]
              \cup [from : Subscribers, kind : {"intent"}, ask : Asks]

TypeOK ==
    /\ pool \in PoolStates \cup {None} /\ doc \in PoolStates \cup {None}
    /\ DOMAIN intents \subseteq Subscribers
    /\ \A s \in DOMAIN intents : intents[s] \in Intents
    /\ conn \in [Subscribers -> {"away", "attached", "gone"}]
    /\ requests \in Seq(Requests) /\ Len(requests) <= RequestCapacity
    /\ sent \in 0 .. MaxRequests
    /\ handling \in BOOLEAN \cup {None}
    /\ converged \in DesiredStates \cup {None}
    /\ worker \in WorkerStates \cup {None}
    /\ worker # None => Len(worker.results) <= ResultCapacity
    /\ engine \in {"running", "failed"}

-----------------------------------------------------------------------------
(* The frontends' intents and what they reduce to.                           *)

AnyActive(is) == \E s \in DOMAIN is : is[s].active
ActivePeriods(is) == {is[s].period : s \in {t \in DOMAIN is : is[t].active}}
ConvergedPeriod(is, fallback) ==
    IF AnyActive(is) THEN Min(ActivePeriods(is)) ELSE fallback

Desired(p, is) ==
    [active |-> AnyActive(is), period |-> ConvergedPeriod(is, p.period),
     generation |-> p.generation]
Inactive == [active |-> FALSE, period |-> Hour, generation |-> 0]

SetIntent(is, s, active, period) ==
    [t \in DOMAIN is \cup {s} |->
        IF t = s THEN [active |-> active, period |-> period] ELSE is[t]]
RemoveIntent(is, s) == [t \in DOMAIN is \ {s} |-> is[t]]

-----------------------------------------------------------------------------
(* The pane's state.                                                         *)

NewPool(e) ==
    [endpoint |-> e, period |-> Hour, generation |-> 0, state |-> "idle",
     summary |-> None, error |-> FALSE, health |-> None, healthError |-> FALSE]

Adopt(p, e) == IF p = None THEN NewPool(e) ELSE [p EXCEPT !.endpoint = e]

SetPeriod(p, period) ==
    IF p.period = period THEN p
    ELSE [p EXCEPT !.period = period, !.summary = None, !.error = FALSE]

(* begin_eggpool_request; the saturation of the 64-bit counter is out of      *)
(* reach.                                                                    *)
Begin(p, active) ==
    [p EXCEPT !.generation = @ + 1,
              !.state = IF active THEN "refreshing" ELSE "idle"]

Accepts(p, r) == r.generation = p.generation /\ r.period = p.period

(* apply_eggpool_result_changed: the planes are independent.                 *)
Applied(p, r) ==
    [p EXCEPT
        !.state = "idle",
        !.summary = IF r.summary THEN [pool |-> r.pool, period |-> r.period]
                                 ELSE @,
        !.error = ~r.summary,
        !.health = IF r.health THEN r.pool ELSE @,
        !.healthError = ~r.health]

-----------------------------------------------------------------------------
(* The worker task.                                                          *)

Spawned(e) ==
    [endpoint |-> e, alive |-> TRUE, control |-> Inactive, unseen |-> FALSE,
     desired |-> Inactive, request |-> None, deadline |-> FALSE,
     held |-> None, results |-> <<>>]

Supersedes(old, new) ==
    /\ new.active
    /\ \/ ~old.active
       \/ old.period # new.period
       \/ old.generation # new.generation

Request(d) == [period |-> d.period, generation |-> d.generation]

(* converge, and the start_request its caller makes when it says so.         *)
Converge(w, d) ==
    [w EXCEPT !.desired = d, !.unseen = FALSE,
              !.deadline = IF ~d.active \/ Supersedes(w.desired, d)
                           THEN FALSE ELSE @,
              !.request = IF ~d.active THEN None
                          ELSE IF Supersedes(w.desired, d) THEN Request(d)
                          ELSE @]

Working == worker # None /\ worker.alive /\ engine = "running"
Idle == Working /\ worker.held = None

ObserveControl ==
    /\ Idle /\ worker.unseen
    /\ worker' = Converge(worker, worker.control)
    /\ UNCHANGED <<pool, doc, intents, conn, requests, sent, handling,
                   converged, engine>>

(* The passive deadline adopts the newest published state first.             *)
PassiveRefresh ==
    /\ Idle /\ worker.deadline
    /\ LET w == Converge([worker EXCEPT !.deadline = FALSE], worker.control)
       IN  worker' = IF w.desired.active /\ w.request = None
                     THEN [w EXCEPT !.request = Request(w.desired)] ELSE w
    /\ UNCHANGED <<pool, doc, intents, conn, requests, sent, handling,
                   converged, engine>>

(* fetch and fetch_health classify whatever the pool answered, or did not     *)
(* answer within the client's timeout; a body is only shown once validated.  *)
SummaryFetched(outcome) == outcome.summary
HealthFetched(outcome) == outcome.health

(* Both fetches of the request task end.                                     *)
RequestEnds ==
    /\ Idle /\ worker.request # None
    /\ \E outcome \in Outcomes :
          worker' = [worker EXCEPT
                        !.request = None,
                        !.held = [pool |-> worker.endpoint,
                                  period |-> worker.request.period,
                                  generation |-> worker.request.generation,
                                  summary |-> SummaryFetched(outcome),
                                  health |-> HealthFetched(outcome)]]
    /\ UNCHANGED <<pool, doc, intents, conn, requests, sent, handling,
                   converged, engine>>

(* A panicked request task is reported as a failure of both planes under the  *)
(* worker's desired state.                                                   *)
PanicUnreported(w) == None
PanicResult(w) ==
    [pool |-> w.endpoint, period |-> w.desired.period,
     generation |-> w.desired.generation, summary |-> FALSE, health |-> FALSE]

RequestPanics ==
    /\ Idle /\ worker.request # None
    /\ worker' = [worker EXCEPT !.request = None, !.held = PanicResult(worker)]
    /\ UNCHANGED <<pool, doc, intents, conn, requests, sent, handling,
                   converged, engine>>

SupersedesResult(r, d) ==
    ~d.active \/ d.period # r.period \/ d.generation # r.generation

(* deliver_result_or_interrupt: newer intent is looked at before a slot.      *)
Interrupt ==
    /\ Working /\ worker.held # None /\ worker.unseen
    /\ worker' = IF SupersedesResult(worker.held, worker.control)
                 THEN Converge([worker EXCEPT !.held = None], worker.control)
                 ELSE [worker EXCEPT !.unseen = FALSE]
    /\ UNCHANGED <<pool, doc, intents, conn, requests, sent, handling,
                   converged, engine>>

Room(w) == Len(w.results) < ResultCapacity

DeliverResult ==
    /\ Working /\ worker.held # None /\ ~worker.unseen
    /\ Room(worker)
    /\ worker' = [worker EXCEPT !.results = Append(@, worker.held),
                                !.held = None,
                                !.deadline = IF worker.desired.active THEN TRUE ELSE @]
    /\ UNCHANGED <<pool, doc, intents, conn, requests, sent, handling,
                   converged, engine>>

(* The worker task panics: the end its results channel reports.              *)
WorkerDies ==
    /\ Working
    /\ worker' = [worker EXCEPT !.alive = FALSE, !.request = None, !.held = None]
    /\ UNCHANGED <<pool, doc, intents, conn, requests, sent, handling,
                   converged, engine>>

-----------------------------------------------------------------------------
(* The engine task.                                                          *)

Running == engine = "running" /\ handling = None

ApplyResult ==
    /\ Running /\ worker # None /\ worker.results # <<>>
    /\ worker' = [worker EXCEPT !.results = Tail(@)]
    /\ LET r == Head(worker.results)
       IN  IF Accepts(pool, r)
           THEN pool' = Applied(pool, r) /\ doc' = pool'
           ELSE UNCHANGED <<pool, doc>>
    /\ UNCHANGED <<intents, conn, requests, sent, handling, converged,
                   engine>>

(* The results channel is closed: the worker ended on its own.               *)
WorkerEnded == engine' = "failed"
ObserveWorkerEnd ==
    /\ Running /\ worker # None /\ worker.results = <<>> /\ ~worker.alive
    /\ WorkerEnded
    /\ UNCHANGED <<pool, doc, intents, conn, requests, sent, handling,
                   converged, worker>>

(* The window reduce_intents brings the pane to.                             *)
Windowed(p, d) ==
    IF p.period = d.period THEN p ELSE Begin(SetPeriod(p, d.period), d.active)

(* Whether reduce_intents reports a visible change.                          *)
ReducedVisibly(before, after) == before # after

ReduceIntents ==
    /\ Running /\ worker # None /\ pool # None
    /\ Desired(pool, intents) # converged
    /\ LET moved == Windowed(pool, Desired(pool, intents))
           desired == Desired(moved, intents)
       IN  /\ converged' = desired
           /\ pool' = IF worker.alive THEN moved
                      ELSE [moved EXCEPT !.state = "unavailable"]
           /\ worker' = IF worker.alive
                        THEN [worker EXCEPT !.control = desired, !.unseen = TRUE]
                        ELSE worker
           /\ doc' = IF ReducedVisibly(pool, moved) \/ ~worker.alive
                     THEN pool' ELSE doc
    /\ UNCHANGED <<intents, conn, requests, sent, handling, engine>>

(* sync_eggpool_worker, run after every request.                             *)
SyncedKeepingResults(w, p) ==
    IF w # None /\ p # None THEN [w EXCEPT !.endpoint = p.endpoint]
    ELSE IF p = None THEN None ELSE Spawned(p.endpoint)
Synced(w, p) ==
    IF p = None THEN None
    ELSE IF w # None /\ w.endpoint = p.endpoint THEN w
    ELSE Spawned(p.endpoint)

AfterRequest(p) ==
    /\ pool' = p /\ doc' = p
    /\ worker' = Synced(worker, p)
    /\ converged' = IF worker' = worker THEN converged ELSE None

Head1(kind) == Running /\ requests # <<>> /\ Head(requests).kind = kind

(* The entry the configuration names now, or an unreadable configuration.    *)
HandleReload ==
    /\ Head1("reload")
    /\ requests' = Tail(requests)
    /\ \/ \E e \in Pools : AfterRequest(Adopt(pool, e))
       \/ AfterRequest(None)
       \/ AfterRequest(pool)
    /\ UNCHANGED <<intents, conn, sent, handling, engine>>

(* SetEggpoolIntent takes the lock on the intents twice; a connection may    *)
(* drop one in between.                                                      *)
HandleIntent ==
    /\ Head1("intent")
    /\ LET s == Head(requests).from
           ask == Head(requests).ask
       IN  /\ intents' = SetIntent(intents, s, ask.active, ask.period)
           /\ handling' = (ask.refresh \/ s \notin DOMAIN intents
                              \/ intents[s] # intents'[s])
    /\ requests' = Tail(requests)
    /\ UNCHANGED <<pool, doc, conn, sent, converged, worker, engine>>

FinishIntent ==
    /\ engine = "running" /\ handling # None
    /\ handling' = None
    /\ IF pool = None THEN AfterRequest(pool)
       ELSE LET d == Desired(pool, intents)
                p == SetPeriod(pool, d.period)
            IN  AfterRequest(IF p # pool \/ handling THEN Begin(p, d.active) ELSE p)
    /\ UNCHANGED <<intents, conn, requests, sent, engine>>

-----------------------------------------------------------------------------
(* The connection tasks.  What they do once the engine has returned reaches   *)
(* nobody.                                                                   *)

Handshake(s) ==
    /\ conn[s] = "away" /\ engine = "running"
    /\ conn' = [conn EXCEPT ![s] = "attached"]
    /\ intents' = SetIntent(intents, s, FALSE, Hour)
    /\ UNCHANGED <<pool, doc, requests, sent, handling, converged, worker,
                   engine>>

(* A request is handed over with try_send; a full channel ends the           *)
(* connection.                                                               *)
Send(s) ==
    /\ conn[s] = "attached" /\ engine = "running" /\ sent < MaxRequests
    /\ sent' = sent + 1
    /\ IF Len(requests) < RequestCapacity
       THEN /\ \E r \in Requests :
                  r.from = s /\ requests' = Append(requests, r)
            /\ UNCHANGED <<conn, intents>>
       ELSE /\ conn' = [conn EXCEPT ![s] = "gone"]
            /\ intents' = RemoveIntent(intents, s)
            /\ UNCHANGED requests
    /\ UNCHANGED <<pool, doc, handling, converged, worker, engine>>

Disconnect(s) ==
    /\ conn[s] = "attached" /\ engine = "running"
    /\ conn' = [conn EXCEPT ![s] = "gone"]
    /\ intents' = RemoveIntent(intents, s)
    /\ UNCHANGED <<pool, doc, requests, sent, handling, converged, worker,
                   engine>>

-----------------------------------------------------------------------------
Init ==
    /\ \/ pool = None
       \/ \E e \in Pools : pool = NewPool(e)
    /\ doc = pool
    /\ worker = Synced(None, pool)
    /\ intents = <<>>
    /\ conn = [s \in Subscribers |-> "away"]
    /\ requests = <<>> /\ sent = 0 /\ handling = None
    /\ converged = None
    /\ engine = "running"

WorkerStep ==
    \/ ObserveControl \/ PassiveRefresh \/ RequestEnds
    \/ Interrupt \/ DeliverResult
EngineStep ==
    \/ ApplyResult \/ ObserveWorkerEnd \/ ReduceIntents
    \/ HandleReload \/ HandleIntent \/ FinishIntent
Connections == \E s \in Subscribers : Handshake(s) \/ Send(s) \/ Disconnect(s)

Next ==
    \/ WorkerStep \/ RequestPanics \/ WorkerDies
    \/ EngineStep \/ Connections

Spec == Init /\ [][Next]_vars

(* Every branch of the engine's select is polled; the worker task is         *)
(* scheduled, its timers fire and its fetches end.                           *)
Fairness ==
    /\ WF_vars(ObserveControl) /\ WF_vars(PassiveRefresh)
    /\ WF_vars(RequestEnds \/ RequestPanics)
    /\ WF_vars(Interrupt) /\ WF_vars(DeliverResult)
    /\ WF_vars(ApplyResult) /\ WF_vars(ObserveWorkerEnd)
    /\ WF_vars(ReduceIntents)
    /\ WF_vars(HandleReload \/ HandleIntent \/ FinishIntent)

FairSpec == Spec /\ Fairness

-----------------------------------------------------------------------------
(* The request in flight, and the result waiting for a slot with no newer     *)
(* intent unseen, are for the state the worker last converged on: what the   *)
(* panic branch of the worker relies on when it labels a result it has not   *)
(* got.                                                                      *)
RequestIsNewest ==
    worker # None =>
        /\ worker.request # None =>
              worker.desired.active /\ worker.request = Request(worker.desired)
        /\ worker.held # None =>
              /\ worker.held.period = worker.desired.period
              /\ worker.held.generation = worker.desired.generation

(* A summary on screen is for the window the pane says it shows, whatever     *)
(* order intents, disconnects, reloads and results came in.                  *)
SummaryOfWindow ==
    pool # None /\ pool.summary # None => pool.summary.period = pool.period

(* Once the engine has driven the worker with everything it knows, the fleet  *)
(* carries the window the worker fetches: otherwise every result would be    *)
(* rejected and the pane would freeze.                                       *)
DrivenWindowIsShown ==
    pool # None /\ converged # None /\ converged = Desired(pool, intents) =>
        /\ pool.period = converged.period
        /\ worker.alive => worker.control = converged

(* The published document is the pane's state: no suppressed publication      *)
(* hides a change.                                                           *)
DocumentCurrent == doc = pool

(* Data that reaches the pane comes from the pool it is configured with now,  *)
(* although results carry no endpoint.                                       *)
DataFromCurrentPool ==
    [][pool' # None =>
          /\ (pool'.summary # None /\ (pool = None \/ pool'.summary # pool.summary))
                => pool'.summary.pool = pool'.endpoint
          /\ (pool'.health # None /\ (pool = None \/ pool'.health # pool.health))
                => pool'.health = pool'.endpoint]_vars

(* The pane can be relied on: worker, fleet and document agree on the window  *)
(* (run_eggpool_worker, Engine::reduce_intents, apply_eggpool_result), and no  *)
(* other pool's data reaches it.                                             *)
PaneSound ==
    /\ [](TypeOK /\ RequestIsNewest /\ SummaryOfWindow /\ DrivenWindowIsShown /\ DocumentCurrent)
    /\ DataFromCurrentPool

(* While a frontend keeps the pane open on the window that wins, the window   *)
(* is fetched and answered, unless the daemon ends.                          *)
Wanted(p) ==
    /\ engine = "running" /\ pool # None
    /\ AnyActive(intents) /\ ConvergedPeriod(intents, Hour) = p
Answered(p) ==
    pool # None /\ pool.period = p /\ (pool.summary # None \/ pool.error)
PaneAnswered == \A p \in Periods : Wanted(p) ~> (Answered(p) \/ ~Wanted(p))

(* Refreshing is resolved while a frontend keeps the pane open.              *)
RefreshResolved ==
    (pool # None /\ pool.state = "refreshing" /\ AnyActive(intents))
       ~> (pool = None \/ pool.state # "refreshing" \/ ~AnyActive(intents)
             \/ engine # "running")

(* A worker that ended on its own ends the daemon instead of leaving a pane   *)
(* nothing can answer.                                                       *)
DeadWorkerEndsDaemon ==
    (worker # None /\ ~worker.alive) ~> (engine # "running" \/ worker = None
                                           \/ worker.alive)

(* Nothing is left to wait for ever: a pane that stays open is answered, a    *)
(* refresh is resolved, and a worker that can no longer resolve one ends the  *)
(* daemon.                                                                   *)
WaitsResolved == PaneAnswered /\ RefreshResolved /\ DeadWorkerEndsDaemon

(* The comment in serve: a departed frontend must stop shaping the worker,    *)
(* or the worker would stay activated for a window nobody is watching.       *)
DepartedStopsShaping == \A s \in DOMAIN intents : conn[s] # "gone"
=============================================================================

---------------------------- MODULE MetricsServer ----------------------------
(***************************************************************************)
(* greggd's metrics path: the Sampler loop and its blocking collection     *)
(* cycle (crates/greggd/src/sampler.rs), the hand-over to the server       *)
(* (run.rs, sync_sampler_state), and ServerState with the status and       *)
(* health handlers (server/mod.rs).                                        *)
(*                                                                         *)
(* A snapshot stands for its observed_at time; the status bytes cached     *)
(* with it are its serialization and are not kept apart.  Both health      *)
(* cells of a publication are always replaced together, so one cell        *)
(* identity (an Arc, compared with Arc::ptr_eq) stands for both.  The      *)
(* v1-only publication is unreachable: convert_sample always has a v2      *)
(* payload.                                                                *)
(***************************************************************************)
EXTENDS Integers, FiniteSets

CONSTANTS
    Requests,     \* concurrent HTTP requests
    Cells,        \* identities of health memo cells
    SupportsV1,   \* collector.supports_v1_snapshot(), per platform
    MaxFailures,  \* max_consecutive_failures; 0 disables the count policy
    MaxAge,       \* max_snapshot_age; 0 disables the age policy
    Asked,        \* bound: schema versions the requests ask for
    FailureCap,   \* bound: u32::MAX, where the failure counters saturate
    MaxNow,       \* bound: last wall-clock time
    NoCell        \* a request that holds no cell

ASSUME ConstantsAssumption ==
    /\ SupportsV1 \subseteq BOOLEAN /\ Asked \subseteq {1, 2}
    /\ MaxFailures \in Nat /\ MaxAge \in Nat /\ MaxNow \in Nat
    /\ FailureCap \in Nat \ {0} /\ MaxFailures <= FailureCap
    /\ NoCell \notin Cells

VARIABLES
    now,        \* the wall clock; PreEpoch while it precedes the Unix epoch
    v1,         \* the collector supports schema v1
    sampler,    \* Sampler: readiness, latest snapshots, consecutive failures
    pc,         \* where the sampling loop is
    handle,     \* in_flight: none, running, or what the finished cycle returned
    threads,    \* collection closures running on the blocking pool
    shutdown,   \* the shutdown broadcast was sent
    published,  \* PublishedState
    memo,       \* what each health cell was initialized with, by version
    req         \* the requests

vars == <<now, v1, sampler, pc, handle, threads, shutdown, published, memo, req>>
samplerVars == <<sampler, pc, handle, threads>>

-----------------------------------------------------------------------------
PreEpoch == -1
None == -1                       \* no snapshot
Times == 0 .. MaxNow
Snapshots == Times \cup {None}
Versions == {1, 2}
Readiness == {"warming", "ready", "failed"}
(* HealthMetadata: not_serving is a failure in the NotServing category.      *)
Health == Readiness \cup {"not_serving"}
(* What a cycle returns: metrics that convert, one of the two transient      *)
(* errors (warming, counter reset), or a failure: any other error, a panic,   *)
(* metrics without a CPU percentage or that do not convert.                  *)
Results == {"ok", "transient", "error"}

Saturating(n) == IF n < FailureCap THEN n + 1 ELSE n

Idle == [phase |-> "idle", version |-> 2, attempt |-> 0,
         snap |-> None, cell |-> NoCell, code |-> 0]
Codes == {0, 200, 500, 503}
RequestStates ==
    [phase : {"idle", "now", "init", "recheck", "answered"}, version : Versions,
     attempt : 0 .. 2, snap : Snapshots, cell : Cells \cup {NoCell},
     code : Codes]

TypeOK ==
    /\ now \in Times \cup {PreEpoch}
    /\ v1 \in BOOLEAN
    /\ sampler \in [readiness : Readiness, snap : [Versions -> Snapshots],
                    failures : 0 .. FailureCap]
    /\ pc \in {"top", "waiting", "publish", "sleeping", "joining", "stopped"}
    /\ handle \in Results \cup {"none", "running"}
    /\ threads \in Nat
    /\ shutdown \in BOOLEAN
    /\ published \in [snap : [Versions -> Snapshots], observed : Snapshots,
                      health : [Versions -> Health], cell : Cells,
                      failures : 0 .. FailureCap]
    /\ memo \in [Cells -> [Versions -> Snapshots]]
    /\ req \in [Requests -> RequestStates]

Init ==
    /\ now \in {0, PreEpoch}
    /\ v1 \in SupportsV1
    /\ sampler = [readiness |-> "warming", snap |-> [v \in Versions |-> None],
                  failures |-> 0]
    /\ pc = "top" /\ handle = "none" /\ threads = 0
    /\ shutdown = FALSE
    /\ memo = [c \in Cells |-> [v \in Versions |-> None]]
    /\ \E c \in Cells :
         published = [snap |-> [v \in Versions |-> None], observed |-> None,
                      health |-> [v \in Versions |-> "warming"], cell |-> c,
                      failures |-> 0]
    /\ req = [r \in Requests |-> Idle]

-----------------------------------------------------------------------------
(* The sampling loop.                                                       *)

(* sample_on_blocking_pool: a cycle that outlived its timeout is picked up   *)
(* again instead of starting another.                                       *)
StartCycle ==
    /\ pc = "top"
    /\ pc' = "waiting"
    /\ handle' = IF handle = "none" THEN "running" ELSE handle
    /\ threads' = IF handle = "none" THEN threads + 1 ELSE threads
    /\ UNCHANGED <<now, v1, sampler, shutdown, published, memo, req>>

(* collector.sample() ends on its blocking thread, or panics there.          *)
CollectorReturns(result) ==
    /\ handle = "running" /\ threads > 0
    /\ handle' = result
    /\ threads' = threads - 1
    /\ UNCHANGED <<now, v1, sampler, pc, shutdown, published, memo, req>>
DetachedCycleReturns ==
    /\ handle # "running" /\ threads > 0
    /\ threads' = threads - 1
    /\ UNCHANGED <<now, v1, sampler, pc, handle, shutdown, published, memo, req>>

(* apply_sample_result.                                                     *)
AppliedKeepingReady(result) ==
    CASE result = "ok" /\ now # PreEpoch ->
           [readiness |-> "ready", failures |-> 0,
            snap |-> [v \in Versions |-> IF v = 2 \/ v1 THEN now ELSE None]]
      [] result = "transient" -> sampler
      [] OTHER -> [sampler EXCEPT !.failures = Saturating(@),
                                  !.readiness = IF @ = "ready" THEN @ ELSE "failed"]
Applied(result) ==
    CASE result = "ok" /\ now # PreEpoch ->
           [readiness |-> "ready", failures |-> 0,
            snap |-> [v \in Versions |-> IF v = 2 \/ v1 THEN now ELSE None]]
      [] result = "transient" -> sampler
      [] OTHER -> [sampler EXCEPT !.failures = Saturating(@), !.readiness = "failed"]

CycleCompletes ==
    /\ pc = "waiting" /\ handle \in Results
    /\ sampler' = Applied(handle)
    /\ handle' = "none"
    /\ pc' = "publish"
    /\ UNCHANGED <<now, v1, threads, shutdown, published, memo, req>>

(* COLLECTION_TIMEOUT ends the wait, never the cycle: the handle stays.      *)
CycleTimesOutDroppingHandle ==
    /\ pc = "waiting" /\ handle = "running"
    /\ sampler' = Applied("error")
    /\ handle' = "none"
    /\ pc' = "publish"
    /\ UNCHANGED <<now, v1, threads, shutdown, published, memo, req>>
CycleTimesOut ==
    /\ pc = "waiting" /\ handle = "running"
    /\ sampler' = Applied("error")
    /\ pc' = "publish"
    /\ UNCHANGED <<now, v1, handle, threads, shutdown, published, memo, req>>

-----------------------------------------------------------------------------
(* Publication: sync_sampler_state and the ServerState operations it calls. *)

(* update_snapshot_arcs and update_snapshot_v2_only_arc.                     *)
Updated(cell) ==
    [snap |-> sampler.snap, observed |-> sampler.snap[2],
     health |-> [v \in Versions |->
                    IF sampler.snap[v] = None THEN "not_serving" ELSE "ready"],
     cell |-> cell, failures |-> 0]
SetWarming(cell) ==
    [snap |-> [v \in Versions |-> None], observed |-> None,
     health |-> [v \in Versions |-> "warming"], cell |-> cell, failures |-> 0]
(* set_failed keeps the snapshot, and a version that is not served.          *)
SetFailedUncounted(cell) ==
    [published EXCEPT
        !.health = [v \in Versions |->
                       IF @[v] = "not_serving" THEN @[v] ELSE "failed"],
        !.cell = cell]
SetFailed(cell) ==
    [published EXCEPT
        !.failures = Saturating(@),
        !.health = [v \in Versions |->
                       IF @[v] = "not_serving" THEN @[v] ELSE "failed"],
        !.cell = cell]

Synced(cell) ==
    CASE sampler.readiness = "ready"   -> Updated(cell)
      [] sampler.readiness = "warming" -> SetWarming(cell)
      [] sampler.readiness = "failed"  -> SetFailed(cell)

(* fresh_health_cell: an Arc nobody holds; those let go of are empty again.  *)
Unheld(c) == c # published.cell /\ \A r \in Requests : req[r].cell # c

(* sync_sampler_state, awaited inline by the loop under one write guard.     *)
Publish ==
    /\ pc = "publish"
    /\ \E c \in Cells :
         /\ Unheld(c)
         /\ published' = Synced(c)
         /\ memo' = [d \in Cells |-> IF Unheld(d) THEN [v \in Versions |-> None]
                                                  ELSE memo[d]]
    /\ pc' = "sleeping"
    /\ UNCHANGED <<now, v1, sampler, handle, threads, shutdown, req>>

SleepElapses ==
    /\ pc = "sleeping"
    /\ pc' = "top"
    /\ UNCHANGED <<now, v1, sampler, handle, threads, shutdown, published, memo, req>>

-----------------------------------------------------------------------------
(* Shutdown.                                                                *)
SendShutdown ==
    /\ ~shutdown
    /\ shutdown' = TRUE
    /\ UNCHANGED <<now, v1, samplerVars, published, memo, req>>

(* While a cycle is awaited the select is biased: a finished one goes first. *)
ObserveShutdown ==
    /\ shutdown
    /\ pc = "sleeping" \/ (pc = "waiting" /\ handle = "running")
    /\ pc' = "joining"
    /\ UNCHANGED <<now, v1, sampler, handle, threads, shutdown, published, memo, req>>

(* join_in_flight_cycle: nothing to join, a cycle that ends in time, or one  *)
(* that is detached after SHUTDOWN_JOIN_TIMEOUT.                             *)
JoinInFlightCycle ==
    /\ pc = "joining"
    /\ handle' = "none"
    /\ pc' = "stopped"
    /\ UNCHANGED <<now, v1, sampler, threads, shutdown, published, memo, req>>

-----------------------------------------------------------------------------
(* Requests.                                                                *)

(* is_stale.                                                                *)
StaleByCount == MaxFailures > 0 /\ published.failures >= MaxFailures
StaleByAge ==
    /\ MaxAge > 0
    /\ \/ now = PreEpoch
       \/ /\ published.observed # None
          /\ \/ now < published.observed
             \/ now - published.observed >= MaxAge
IsStale == StaleByCount \/ StaleByAge

Free(r) == req[r].phase \in {"idle", "answered"}
Answered(r, v, code, body) ==
    [Idle EXCEPT !.phase = "answered", !.version = v, !.code = code, !.snap = body]

(* v1_status_data, v2_status_data: one read guard, the clock read under it.  *)
StatusCode(v) == IF published.snap[v] # None /\ ~IsStale THEN 200 ELSE 503
Status(r, v) ==
    /\ Free(r)
    /\ req' = [req EXCEPT ![r] =
                  Answered(r, v, StatusCode(v),
                           IF StatusCode(v) = 200 THEN published.snap[v] ELSE None)]
    /\ UNCHANGED <<now, v1, samplerVars, shutdown, published, memo>>

HealthArrives(r, v) ==
    /\ Free(r)
    /\ req' = [req EXCEPT ![r] = [Idle EXCEPT !.phase = "now", !.version = v,
                                              !.attempt = 1]]
    /\ UNCHANGED <<now, v1, samplerVars, shutdown, published, memo>>

(* v1_health_now, v2_health_now: answer at once, or take the snapshot and    *)
(* the cell of the publication and let go of the guard.                      *)
HealthNow(r) ==
    LET q == req[r]
        ready == published.health[q.version] = "ready"
    IN /\ q.phase = "now"
       /\ req' = [req EXCEPT ![r] =
             IF ready /\ ~IsStale /\ published.snap[q.version] # None
             THEN [q EXCEPT !.phase = "init", !.cell = published.cell,
                            !.snap = published.snap[q.version]]
             ELSE Answered(r, q.version, 503, None)]
       /\ UNCHANGED <<now, v1, samplerVars, shutdown, published, memo>>

(* cell.get() or get_or_try_init: the first request to need the body         *)
(* serializes its snapshot, the others read what it left.                    *)
MemoInit(r) ==
    LET q == req[r]
        body == IF memo[q.cell][q.version] = None THEN q.snap
                ELSE memo[q.cell][q.version]
    IN /\ q.phase = "init"
       /\ memo' = [memo EXCEPT ![q.cell][q.version] = body]
       /\ req' = [req EXCEPT ![r].phase = "recheck", ![r].snap = body]
       /\ UNCHANGED <<now, v1, samplerVars, shutdown, published>>
(* A failed serialization leaves the cell empty and answers an error.        *)
MemoInitFails(r) ==
    /\ req[r].phase = "init"
    /\ memo[req[r].cell][req[r].version] = None
    /\ req' = [req EXCEPT ![r] = Answered(r, req[r].version, 500, None)]
    /\ UNCHANGED <<now, v1, samplerVars, shutdown, published, memo>>

(* memo_is_current.                                                          *)
AlwaysCurrent(cell, v) == TRUE
MemoIsCurrent(cell, v) == published.health[v] = "ready" /\ published.cell = cell

(* Answer 200 if the publication is still the same; otherwise try once more, *)
(* and then give up with 503.                                                *)
Recheck(r) ==
    LET q == req[r]
    IN /\ q.phase = "recheck"
       /\ req' = [req EXCEPT ![r] =
             CASE MemoIsCurrent(q.cell, q.version) ->
                    Answered(r, q.version, 200, q.snap)
               [] ~MemoIsCurrent(q.cell, q.version) /\ q.attempt < 2 ->
                    [Idle EXCEPT !.phase = "now", !.version = q.version,
                                 !.attempt = q.attempt + 1]
               [] OTHER -> Answered(r, q.version, 503, None)]
       /\ UNCHANGED <<now, v1, samplerVars, shutdown, published, memo>>

-----------------------------------------------------------------------------
(* The wall clock moves on, or is set forward or back.                       *)
ClockMoves ==
    /\ now' \in (Times \cup {PreEpoch}) \ {now}
    /\ UNCHANGED <<v1, samplerVars, shutdown, published, memo, req>>

SamplerStep ==
    StartCycle \/ CycleCompletes \/ CycleTimesOut \/ Publish \/ SleepElapses
Serve(r) == HealthNow(r) \/ MemoInit(r) \/ MemoInitFails(r) \/ Recheck(r)
Environment ==
    \/ \E result \in Results : CollectorReturns(result)
    \/ DetachedCycleReturns \/ SendShutdown
    \/ \E r \in Requests, v \in Asked : Status(r, v) \/ HealthArrives(r, v)
    \/ ClockMoves
Next ==
    \/ SamplerStep \/ ObserveShutdown \/ JoinInFlightCycle
    \/ \E r \in Requests : Serve(r)
    \/ Environment

Spec == Init /\ [][Next]_vars
(* The tasks run and their timers fire; a shutdown that keeps being polled   *)
(* together with an elapsed sleep is chosen eventually (tokio's select).     *)
FairSpec ==
    /\ Spec
    /\ WF_vars(SamplerStep) /\ SF_vars(ObserveShutdown) /\ WF_vars(JoinInFlightCycle)
    /\ \A r \in Requests : WF_vars(Serve(r))

-----------------------------------------------------------------------------
(* A health answer of 200 never contradicts the publication it is given      *)
(* under: at that moment the version is ready and the body is the published  *)
(* snapshot, however many publications and failures the request awaited      *)
(* through (memo_is_current, fresh_health_cell).                             *)
HealthAgrees ==
    [][\A r \in Requests :
          req[r].phase = "recheck" /\ req'[r].code = 200 =>
             /\ published.health[req[r].version] = "ready"
             /\ req'[r].snap = published.snap[req[r].version]]_vars

(* However long a native read hangs, and however often its wait times out,   *)
(* at most one collection runs on the blocking pool (Sampler::in_flight).    *)
OneCycleOutstanding == threads <= 1

(* The server's failure count, which the staleness policy uses, is never     *)
(* below the sampler's: no collection failure goes uncounted (set_failed).   *)
ServerNeverUndercounts ==
    pc # "publish" => published.failures >= sampler.failures

(* A platform without schema v1 keeps saying so: once a publication has       *)
(* answered not_serving, no later failure relabels it (set_failed).          *)
NotServingIsSticky ==
    [][\A v \in Versions : published.health[v] = "not_serving"
                             => published'.health[v] = "not_serving"]_vars

(* Both versions of a publication come from one collection, and a version     *)
(* that is ready has a snapshot to serve.                                    *)
PublicationCoherent ==
    \A v \in Versions :
        /\ published.health[v] = "ready" => published.snap[v] # None
        /\ published.snap[v] # None => published.snap[v] = published.observed

(* What is published can be relied on: failures are counted, both versions    *)
(* belong together, and not_serving stays (sync_sampler_state, set_failed).  *)
PublicationSound ==
    /\ [](TypeOK /\ ServerNeverUndercounts /\ PublicationCoherent)
    /\ NotServingIsSticky

(* A collection that hangs for good ends in 503 for good: its timeouts are    *)
(* counted until the preserved snapshot is stale (max_consecutive_failures). *)
HungReadGoesStale ==
    (<>[](handle = "running") /\ []~shutdown)
        => <>[](\A v \in Versions : StatusCode(v) = 503)

(* Shutdown ends the sampler even while a native read hangs.                 *)
ShutdownEnds == shutdown ~> pc = "stopped"

(* Every health request is answered, whatever publications it races.         *)
HealthAnswered ==
    \A r \in Requests : req[r].phase = "now" ~> req[r].phase = "answered"

(* The sampler and the health routes make progress under a hung read, under   *)
(* a shutdown and under publications that keep changing.                     *)
ServingProgress == HungReadGoesStale /\ ShutdownEnds /\ HealthAnswered

-----------------------------------------------------------------------------
(* docs/api.md: when the clock moves backward, a snapshot timestamp that is   *)
(* temporarily in the future is treated as fresh rather than stale.          *)
FutureIsFresh ==
    published.snap[2] # None /\ now # PreEpoch /\ now < published.observed
        /\ ~StaleByCount => StatusCode(2) = 200
=============================================================================

--------------------------- MODULE MaintScheduler ---------------------------
(***************************************************************************)
(* greggd's maintenance-job scheduler: Engine, the run loop and the        *)
(* observer (crates/greggd/src/scheduler.rs, scheduler/observation.rs).    *)
(*                                                                         *)
(* One task owns everything.  It wakes, ticks the engine (turning due      *)
(* civil occurrences into pending ones, expiring, deferring and selecting  *)
(* them), may spawn one child, publishes a read-only document, and sleeps  *)
(* until the next deadline, the child's completion or shutdown.            *)
(*                                                                         *)
(* Two clocks: the monotonic `now` (Instant) and civil time now + skew,    *)
(* which an operator or NTP may step.  Time may pass at every await, in    *)
(* particular between a tick and the deadline computed after its           *)
(* publication.                                                            *)
(***************************************************************************)
EXTENDS Integers, Sequences, FiniteSets

CONSTANTS
    N,               \* number of configured jobs; a job is its index
    NextAfter(_, _), \* LocalSchedule::next_after of job j after civil time w
    Gated,           \* the jobs with max_load
    MaxLoad,         \* max_load of a gated job
    Window,          \* effective_load_window of a gated job
    Windows,         \* the load windows
    Levels,          \* load average levels the sampler may report
    Retry,           \* effective_retry_interval_ms of a gated job
    MaxWait,         \* effective_max_wait_ms of a gated job
    Limit,           \* history_limit; 0 retains no record
    Recheck,         \* MAX_CIVIL_RECHECK
    Settle,          \* POST_EXIT_OUTPUT_SETTLE
    KillBound,       \* CHILD_SHUTDOWN_BOUND
    Skews,           \* possible civil - monotonic clock offsets
    MaxNow,          \* bound: the last monotonic instant
    MaxCivil         \* bound: the last civil instant

Jobs == 1 .. N
Civil == 0 .. MaxCivil
NoOccurrence == -1   \* next_after's error
NoLoad == -1         \* no reading: sampler not Ready, or no load average
NoGate == -2         \* last_gate is None

ASSUME JobAssumption == N \in Nat \ {0} /\ Gated \subseteq Jobs
ASSUME NextAfterAssumption ==
    \A j \in Jobs, w \in Civil :
        \/ NextAfter(j, w) = NoOccurrence
        \/ NextAfter(j, w) \in Nat /\ NextAfter(j, w) > w
ASSUME LoadAssumption ==
    /\ Levels \subseteq Nat
    /\ MaxLoad \in [Gated -> Nat]
    /\ Window \in [Gated -> Windows]
ASSUME TimingAssumption ==
    /\ Retry \in [Gated -> Nat \ {0}]
    /\ MaxWait \in [Gated -> Nat \ {0}]
    /\ Recheck \in Nat \ {0}
    /\ Settle \in Nat
    /\ KillBound \in Nat
    /\ Limit \in Nat
    /\ MaxNow \in Nat
    /\ MaxCivil \in Nat
    /\ Skews \subseteq Int

ChildOutcomes == {"success", "failed", "wait_failed"}
Outcomes == ChildOutcomes \cup {"spawn_failed", "load_expired"}

(* LoadGateState: every window has a level, or there is no reading at all.  *)
LoadStates == [Windows -> Levels] \cup {[w \in Windows |-> NoLoad]}

(* PendingOccurrence; `on` is the Option.                                   *)
Pending == [on : BOOLEAN, since : Nat, sinceUnix : Nat, sched : Nat,
            retry : Nat, retryUnix : Nat, coal : BOOLEAN]
NoPending == [on |-> FALSE, since |-> 0, sinceUnix |-> 0, sched |-> 0,
              retry |-> 0, retryUnix |-> 0, coal |-> FALSE]

(* RunningChild; job 0 is no child.  `proc` is the operating system's view: *)
(* running, or the wait result the scheduler has not observed yet; `exit`   *)
(* is the frozen wait result; `eof` says both output pipes are finished.    *)
Child == [job : 0 .. N, sched : Nat, coal : BOOLEAN, start : Nat,
          proc : {"running"} \cup ChildOutcomes,
          exit : {"none"} \cup ChildOutcomes,
          fin : Nat, settleAt : Nat, eof : BOOLEAN]
NoChild == [job |-> 0, sched |-> 0, coal |-> FALSE, start |-> 0,
            proc |-> "running", exit |-> "none",
            fin |-> 0, settleAt |-> 0, eof |-> FALSE]

(* SchedulerRunRecordV2, with the exit code and the output left out.        *)
Records == [seq : Nat, sched : Nat, outcome : Outcomes, coal : BOOLEAN,
            fin : Nat]

VARIABLES
    now, skew,    \* the clocks
    due,          \* JobState.next_due
    pending,      \* JobState.pending
    gate,         \* JobState.last_gate: the observed load, or NoGate
    active,       \* run's RunningChild
    phase,        \* where run is in its loop
    tickNow, tickWall, \* run's now and wall_now of the last tick
    wakeAt,       \* the armed sleep (or kill bound)
    nextSeq, revision, hist, \* SchedulerObserver
    pub,          \* the document behind SchedulerPublisher
    shutdown,     \* the shutdown broadcast was sent
    opened        \* history: occurrences that ever became pending

clocks == <<now, skew>>
engine == <<due, pending, gate>>
observer == <<nextSeq, revision, hist>>
loop == <<phase, tickNow, tickWall, wakeAt>>
vars == <<now, skew, due, pending, gate, active, phase, tickNow, tickWall,
          wakeAt, nextSeq, revision, hist, pub, shutdown, opened>>

wall == now + skew
SlotFree == active.job = 0

-----------------------------------------------------------------------------
(* load_gate: a time-only job has no gate; a missing reading fails closed.  *)
Observed(j, load) == IF j \in Gated THEN load[Window[j]] ELSE NoGate
Blocked(j, load) ==
    /\ j \in Gated
    /\ \/ load[Window[j]] = NoLoad
       \/ load[Window[j]] > MaxLoad[j]

(* tick's first loop: due occurrences become pending or coalesce.           *)
IsDue(j) == due[j] <= wall
Fresh(j) == IsDue(j) /\ ~pending[j].on
AfterDue(j) ==
    IF Fresh(j)
    THEN [on |-> TRUE, since |-> now, sinceUnix |-> wall, sched |-> due[j],
          retry |-> now, retryUnix |-> wall, coal |-> FALSE]
    ELSE [pending[j] EXCEPT !.coal = @ \/ IsDue(j)]

ExpiresLate(j, p, load) ==
    /\ p.on
    /\ Blocked(j, load)
    /\ now - p.since > MaxWait[j]

(* take_expired's condition, on the pending occurrence p of job j.          *)
Expires(j, p, load) ==
    /\ p.on
    /\ Blocked(j, load)
    /\ now - p.since >= MaxWait[j]

(* (since, index) order, and tick's selection among the pending ps.         *)
Before(p, j, q, k) == p.since < q.since \/ (p.since = q.since /\ j < k)
Candidate(p) == p.on /\ p.retry <= now
Eligible(j, p, load) == Candidate(p) /\ ~Blocked(j, load)
Selected(j, ps, load) ==
    /\ Eligible(j, ps[j], load)
    /\ \A k \in Jobs \ {j} :
          Eligible(k, ps[k], load) => Before(ps[j], j, ps[k], k)

(* defer_blocked_before, applied to one job; `lost` says that the job comes *)
(* before the winner, or that there is none.                                *)
Deferred(j, p, load, lost) == Candidate(p) /\ Blocked(j, load) /\ lost
RetryFromSince(j, p, load, lost) ==
    IF Deferred(j, p, load, lost)
    THEN [p EXCEPT !.retry = p.since + Retry[j], !.retryUnix = wall + Retry[j]]
    ELSE p
AfterDefer(j, p, load, lost) ==
    IF Deferred(j, p, load, lost)
    THEN [p EXCEPT !.retry = now + Retry[j], !.retryUnix = wall + Retry[j]]
    ELSE p

(* record_terminal: history is a bounded queue, oldest record out first.    *)
Trimmed(s) ==
    IF Len(s) > Limit THEN SubSeq(s, Len(s) - Limit + 1, Len(s)) ELSE s
Recorded(h, rec) == IF Limit = 0 THEN h ELSE Trimmed(Append(h, rec))

-----------------------------------------------------------------------------
(* The pieces of Engine::tick that all its outcomes share.                  *)
AfterExpiry(load) ==
    [j \in Jobs |-> IF Expires(j, AfterDue(j), load) THEN NoPending
                                                     ELSE AfterDue(j)]
ExpiredJobs(load) == {j \in Jobs : Expires(j, AfterDue(j), load)}
ExpiryRecord(j, load) ==
    [seq |-> nextSeq + Cardinality({k \in ExpiredJobs(load) : k < j}),
     sched |-> AfterDue(j).sched, outcome |-> "load_expired",
     coal |-> AfterDue(j).coal, fin |-> wall]
AfterExpiryHist(load) ==
    [j \in Jobs |-> IF j \in ExpiredJobs(load)
                    THEN Recorded(hist[j], ExpiryRecord(j, load))
                    ELSE hist[j]]
ExpiryUnnumbered(load) == nextSeq
AfterExpirySeq(load) == nextSeq + Cardinality(ExpiredJobs(load))
ExpiryKeepsRevision(load) == revision
AfterExpiryRevision(load) == revision + Cardinality(ExpiredJobs(load))
AfterDueGate(j) == IF Fresh(j) THEN NoGate ELSE gate[j]
NextRecomputed(j) == NextAfter(j, wall)
AfterDueNext(j) == IF IsDue(j) THEN NextAfter(j, wall) ELSE due[j]

(* run is about to tick: it loops, or its sleep has elapsed.                *)
Awake == phase = "loop" \/ (phase = "sleep" /\ now >= wakeAt)
OccurrenceErrorIgnored == FALSE
NoFutureOccurrence == \E j \in Jobs : IsDue(j) /\ NextAfter(j, wall) = NoOccurrence

TickStarts ==
    /\ Awake
    /\ ~NoFutureOccurrence
    /\ due' = [j \in Jobs |-> AfterDueNext(j)]
    /\ opened' = opened + Cardinality({j \in Jobs : Fresh(j)})
    /\ tickNow' = now
    /\ tickWall' = wall
    /\ UNCHANGED <<now, skew, wakeAt, pub, shutdown>>

ExpiryOnly(load) ==
    /\ hist' = AfterExpiryHist(load)
    /\ nextSeq' = AfterExpirySeq(load)
    /\ revision' = AfterExpiryRevision(load)

(* tick while a child holds the global slot.                                *)
TickBusy(load) ==
    /\ TickStarts
    /\ ~SlotFree
    /\ pending' = AfterExpiry(load)
    /\ gate' = [j \in Jobs |-> AfterDueGate(j)]
    /\ ExpiryOnly(load)
    /\ phase' = "publish_sleep"
    /\ UNCHANGED active

(* tick with a free slot and no eligible occurrence: all blocked ones wait. *)
TickNoneEligible(load) ==
    LET ps == AfterExpiry(load) IN
    /\ TickStarts
    /\ SlotFree
    /\ \A j \in Jobs : ~Eligible(j, ps[j], load)
    /\ pending' = [j \in Jobs |-> AfterDefer(j, ps[j], load, TRUE)]
    /\ gate' = [j \in Jobs |-> IF Deferred(j, ps[j], load, TRUE)
                               THEN Observed(j, load) ELSE AfterDueGate(j)]
    /\ ExpiryOnly(load)
    /\ phase' = "publish_sleep"
    /\ UNCHANGED active

(* tick hands the free slot to w; blocked candidates before w are deferred. *)
Grants(w, load) ==
    LET ps == AfterExpiry(load)
        lost(j) == Before(ps[j], j, ps[w], w)
    IN
    /\ TickStarts
    /\ SlotFree
    /\ Selected(w, ps, load)
    /\ pending' = [j \in Jobs |-> IF j = w THEN NoPending
                                  ELSE AfterDefer(j, ps[j], load, lost(j))]
    /\ gate' = [j \in Jobs |->
                 IF j = w \/ Deferred(j, ps[j], load, lost(j))
                 THEN Observed(j, load) ELSE AfterDueGate(j)]
    /\ phase' = "publish_loop"

(* start_child succeeds.                                                    *)
TickLaunch(w, load) ==
    /\ Grants(w, load)
    /\ active' = [NoChild EXCEPT !.job = w, !.start = wall,
                    !.sched = AfterDue(w).sched, !.coal = AfterDue(w).coal,
                    !.eof = (Limit = 0)]
    /\ ExpiryOnly(load)

(* start_child fails: a terminal record, and the slot stays free.           *)
TickSpawnFails(w, load) ==
    /\ Grants(w, load)
    /\ hist' = [AfterExpiryHist(load) EXCEPT ![w] =
                  Recorded(@, [seq |-> AfterExpirySeq(load),
                               sched |-> AfterDue(w).sched,
                               outcome |-> "spawn_failed",
                               coal |-> AfterDue(w).coal, fin |-> wall])]
    /\ nextSeq' = AfterExpirySeq(load) + 1
    /\ revision' = AfterExpiryRevision(load) + 1
    /\ UNCHANGED active

(* tick's time-domain error ends the task; dropping the child kills it.     *)
TickFails ==
    /\ Awake
    /\ NoFutureOccurrence
    /\ phase' = "failed"
    /\ active' = NoChild
    /\ UNCHANGED <<now, skew, due, pending, gate, tickNow, tickWall, wakeAt,
                   nextSeq, revision, hist, pub, shutdown, opened>>

-----------------------------------------------------------------------------
(* Engine::publish and SchedulerObserver::publish.                          *)
IsDeferred(j) == gate[j] # NoGate /\ active.job # j /\ pending[j].on
JobStateOf(j) ==
    CASE active.job = j                     -> "running"
      [] active.job # j /\ ~pending[j].on   -> "idle"
      [] active.job # j /\ pending[j].on /\ gate[j] = NoGate -> "waiting_for_slot"
      [] IsDeferred(j) /\ gate[j] = NoLoad  -> "load_unavailable"
      [] IsDeferred(j) /\ gate[j] # NoLoad  -> "load_high"
JobDoc(j) ==
    [due |-> due[j], state |-> JobStateOf(j), load |-> gate[j],
     pendingSince |-> IF pending[j].on THEN pending[j].sinceUnix ELSE -1,
     nextRetry |-> IF IsDeferred(j) THEN pending[j].retryUnix ELSE -1,
     runningSince |-> IF active.job = j THEN active.start ELSE -1,
     last |-> IF hist[j] = <<>> THEN 0 ELSE hist[j][Len(hist[j])].seq]
JobDocs == [j \in Jobs |-> JobDoc(j)]

(* A publisher serves the empty document until the first publication.       *)
EmptyDocument == [live |-> FALSE, revision |-> 0,
                  jobs |-> <<>>, hist |-> <<>>]
OnlyRevisionCompared == pub.live /\ pub.revision = revision
Unchanged == pub.live /\ pub.revision = revision /\ pub.jobs = JobDocs
Publish ==
    pub' = IF Unchanged THEN pub
           ELSE [live |-> TRUE, revision |-> revision,
                 jobs |-> JobDocs, hist |-> hist]

(* gregg_protocol's check_job (cross-field part) and check_job_history.     *)
ValidJob(d) ==
    LET deferred == d.state \in {"load_high", "load_unavailable"} IN
    /\ deferred => d.runningSince = -1 /\ d.load # NoGate
    /\ d.state = "load_unavailable" => d.load = NoLoad
    /\ ~deferred => d.nextRetry = -1
ValidHistories(h) ==
    \A j \in Jobs : \A i \in 2 .. Len(h[j]) : h[j][i].seq > h[j][i - 1].seq

(* Engine::next_deadline from the instant n, capped by bounded_wake_deadline.*)
UntilDue(j) == IF due[j] > tickWall THEN due[j] - tickWall ELSE 0
ElapsedExpiryKept(n) ==
    {n + UntilDue(j) : j \in Jobs}
      \cup {pending[j].retry : j \in {k \in Jobs :
              pending[k].on /\ SlotFree /\ pending[k].retry > n}}
      \cup {pending[j].since + MaxWait[j] : j \in {k \in Gated : pending[k].on}}
      \cup {n + Recheck}
Deadlines(n) ==
    {n + UntilDue(j) : j \in Jobs}
      \cup {pending[j].retry : j \in {k \in Jobs :
              pending[k].on /\ SlotFree /\ pending[k].retry > n}}
      \cup {pending[j].since + MaxWait[j] : j \in {k \in Gated :
              pending[k].on /\ pending[k].since + MaxWait[k] > n}}
      \cup {n + Recheck}

(* The publication after a launch, a spawn failure or a completion (and the *)
(* first one) goes back to the top of the loop ...                          *)
PublishAndLoop ==
    /\ phase = "publish_loop"
    /\ Publish
    /\ phase' = "loop"
    /\ UNCHANGED <<clocks, engine, active, tickNow, tickWall, wakeAt,
                   observer, shutdown, opened>>

(* ... the one after an idle tick arms the sleep.                           *)
PublishAndSleep ==
    /\ phase = "publish_sleep"
    /\ Publish
    /\ phase' = "sleep"
    /\ wakeAt' \in Deadlines(now)
    /\ \A d \in Deadlines(now) : wakeAt' <= d
    /\ UNCHANGED <<clocks, engine, active, tickNow, tickWall,
                   observer, shutdown, opened>>

-----------------------------------------------------------------------------
(* The direct child: it exits (external), its pipes reach EOF (external),   *)
(* await_child_completion freezes its exit and settles its output.          *)
ChildExits(o) ==
    /\ ~SlotFree
    /\ active.proc = "running"
    /\ active' = [active EXCEPT !.proc = o]
    /\ UNCHANGED <<clocks, engine, loop, observer, pub, shutdown, opened>>

OutputEnds ==
    /\ ~SlotFree
    /\ ~active.eof
    /\ active' = [active EXCEPT !.eof = TRUE]
    /\ UNCHANGED <<clocks, engine, loop, observer, pub, shutdown, opened>>

FreezeExit ==
    /\ phase = "sleep"
    /\ ~SlotFree
    /\ active.proc # "running"
    /\ active.exit = "none"
    /\ active' = [active EXCEPT !.exit = active.proc, !.fin = wall,
                                !.settleAt = now + Settle]
    /\ UNCHANGED <<clocks, engine, loop, observer, pub, shutdown, opened>>

(* settle_output returned: finish_child records under the child's own index.*)
FinishChild ==
    /\ phase = "sleep"
    /\ ~SlotFree
    /\ active.exit # "none"
    /\ active.eof \/ now >= active.settleAt
    /\ hist' = [hist EXCEPT ![active.job] =
                  Recorded(@, [seq |-> nextSeq, sched |-> active.sched,
                               outcome |-> active.exit,
                               coal |-> active.coal, fin |-> active.fin])]
    /\ nextSeq' = nextSeq + 1
    /\ revision' = revision + 1
    /\ active' = NoChild
    /\ phase' = "publish_loop"
    /\ UNCHANGED <<clocks, engine, tickNow, tickWall, wakeAt, pub, shutdown,
                   opened>>

-----------------------------------------------------------------------------
(* run_with_shutdown broadcasts; run sees it only in its select.            *)
RequestShutdown ==
    /\ ~shutdown
    /\ shutdown' = TRUE
    /\ UNCHANGED <<clocks, engine, active, loop, observer, pub, opened>>

ObserveShutdown ==
    /\ phase = "sleep"
    /\ shutdown
    /\ phase' = IF SlotFree THEN "stopped" ELSE "killing"
    /\ wakeAt' = now + KillBound
    /\ UNCHANGED <<clocks, engine, active, tickNow, tickWall, observer, pub,
                   shutdown, opened>>

(* The killed child was reaped, or the bound passed; run returns.           *)
StopWhenReaped ==
    /\ phase = "killing"
    /\ active.proc # "running"
    /\ phase' = "stopped"
    /\ active' = NoChild
    /\ UNCHANGED <<clocks, engine, tickNow, tickWall, wakeAt, observer, pub,
                   shutdown, opened>>
StopAfterKill ==
    /\ phase = "killing"
    /\ active.proc # "running" \/ now >= wakeAt
    /\ phase' = "stopped"
    /\ active' = NoChild
    /\ UNCHANGED <<clocks, engine, tickNow, tickWall, wakeAt, observer, pub,
                   shutdown, opened>>

(* The clocks.                                                              *)
TimePasses ==
    /\ now < MaxNow
    /\ wall < MaxCivil
    /\ now' = now + 1
    /\ UNCHANGED <<skew, engine, active, loop, observer, pub, shutdown, opened>>

ClockSteps(s) ==
    /\ s # skew
    /\ now + s \in Civil
    /\ skew' = s
    /\ UNCHANGED <<now, engine, active, loop, observer, pub, shutdown, opened>>

-----------------------------------------------------------------------------
(* Engine::new with the civil clock at its first reading.                   *)
Init ==
    /\ now = 0
    /\ skew \in Skews \cap Civil
    /\ \A j \in Jobs : NextAfter(j, wall) # NoOccurrence
    /\ due = [j \in Jobs |-> NextAfter(j, wall)]
    /\ pending = [j \in Jobs |-> NoPending]
    /\ gate = [j \in Jobs |-> NoGate]
    /\ active = NoChild
    /\ phase = "publish_loop"
    /\ tickNow = 0 /\ tickWall = wall /\ wakeAt = 0
    /\ nextSeq = 1 /\ revision = 0
    /\ hist = [j \in Jobs |-> <<>>]
    /\ pub = EmptyDocument
    /\ shutdown = FALSE
    /\ opened = 0

Tick ==
    \E load \in LoadStates :
        \/ TickBusy(load)
        \/ TickNoneEligible(load)
        \/ \E w \in Jobs : TickLaunch(w, load) \/ TickSpawnFails(w, load)

Next ==
    \/ Tick
    \/ TickFails
    \/ PublishAndLoop
    \/ PublishAndSleep
    \/ \E o \in ChildOutcomes : ChildExits(o)
    \/ OutputEnds
    \/ FreezeExit
    \/ FinishChild
    \/ RequestShutdown
    \/ ObserveShutdown
    \/ StopAfterKill
    \/ TimePasses
    \/ \E s \in Skews : ClockSteps(s)

Spec == Init /\ [][Next]_vars

(* The fairness the runtime gives: run's own steps happen, its unbiased     *)
(* select eventually picks a branch that stays ready, and the timer of the  *)
(* kill bound is reached, however often the civil clock is set (hence SF).  *)
(* Nothing makes a child exit, on its own or when it is killed.             *)
Fairness ==
    /\ WF_vars(Tick \/ TickFails \/ PublishAndLoop \/ PublishAndSleep)
    /\ SF_vars(ObserveShutdown)
    /\ WF_vars(StopAfterKill)
    /\ SF_vars(phase = "killing" /\ TimePasses)
FairSpec == Spec /\ Fairness

(* Whether run has something to do: a prompt runtime lets no time pass then. *)
CanAct ==
    \/ phase \in {"loop", "publish_loop", "publish_sleep"}
    \/ phase = "sleep" /\ now >= wakeAt
    \/ phase = "sleep" /\ active.exit # "none" /\ (active.eof \/ now >= active.settleAt)

-----------------------------------------------------------------------------
Ended == phase \in {"stopped", "failed"}
PendingJobs == {j \in Jobs : pending[j].on}

JobStates == {"running", "idle", "waiting_for_slot", "load_unavailable",
              "load_high"}
JobDocuments ==
    [due : Nat, state : JobStates, load : Int, pendingSince : Int,
     nextRetry : Int, runningSince : Int, last : Nat]

(* The type of every variable.                                              *)
TypeOK ==
    /\ now \in Nat /\ skew \in Int /\ wall \in Civil
    /\ due \in [Jobs -> Nat]
    /\ pending \in [Jobs -> Pending]
    /\ gate \in [Jobs -> Nat \cup {NoLoad, NoGate}]
    /\ active \in Child
    /\ phase \in {"loop", "publish_loop", "publish_sleep", "sleep",
                  "killing", "stopped", "failed"}
    /\ tickNow \in Nat /\ tickWall \in Civil /\ wakeAt \in Nat
    /\ nextSeq \in Nat /\ revision \in Nat
    /\ hist \in [Jobs -> Seq(Records)]
    /\ pub.live \in BOOLEAN /\ pub.revision \in Nat
    /\ pub.live => /\ pub.jobs \in [Jobs -> JobDocuments]
                   /\ pub.hist \in [Jobs -> Seq(Records)]
    /\ shutdown \in BOOLEAN /\ opened \in Nat

(* No occurrence is lost or recorded twice: until the scheduler ends, each  *)
(* occurrence that ever became pending is still pending, is the running     *)
(* child, or has exactly one terminal record.                               *)
OneRecordPerOccurrence ==
    ~Ended => opened = (nextSeq - 1) + Cardinality(PendingJobs)
                         + (IF SlotFree THEN 0 ELSE 1)

(* No civil occurrence of a job is run or recorded twice, even when the     *)
(* clock steps back.  (Records need not be in civil order: an occurrence    *)
(* may expire while the previous one is still running.)                     *)
NoOccurrenceTwice ==
    \A j \in Jobs :
        /\ \A i, k \in 1 .. Len(hist[j]) :
              i # k => hist[j][i].sched # hist[j][k].sched
        /\ \A i \in 1 .. Len(hist[j]) :
              /\ hist[j][i].sched < due[j]
              /\ active.job = j => hist[j][i].sched # active.sched
              /\ pending[j].on => hist[j][i].sched < pending[j].sched
        /\ active.job = j => active.sched < due[j]
        /\ active.job = j /\ pending[j].on => active.sched < pending[j].sched
        /\ pending[j].on => pending[j].sched < due[j]

(* With the slot free, a tick leaves no pending occurrence with an elapsed  *)
(* retry (scheduler.rs:452-453), so what it publishes counts down.          *)
NoElapsedRetry ==
    phase \in {"publish_sleep", "sleep"} /\ SlotFree =>
        \A j \in PendingJobs : pending[j].retry > tickNow

(* The load reading kept with a waiting occurrence is one that refused it:  *)
(* never the reading that let the job's previous occurrence run.            *)
ReadingRefused ==
    \A j \in PendingJobs :
        gate[j] # NoGate =>
            j \in Gated /\ (gate[j] = NoLoad \/ gate[j] > MaxLoad[j])

(* While run sleeps, the served document is the engine's current state: no  *)
(* transition goes unpublished, although publish skips unchanged state.     *)
ServedIsCurrent ==
    phase = "sleep" => pub = [live |-> TRUE, revision |-> revision,
                              jobs |-> JobDocs, hist |-> hist]

(* Every document the scheduler ever serves passes the validation clients   *)
(* apply to it before they use it.                                          *)
ServedIsValid ==
    pub.live => /\ \A j \in Jobs : ValidJob(pub.jobs[j])
                /\ ValidHistories(pub.hist)

(* What is served can be relied on: it is the engine's current state, it is *)
(* valid, and a reading it shows is one that refused its job.               *)
ServedIsSound == ServedIsCurrent /\ ServedIsValid /\ ReadingRefused

(* The history revision, which clients compare before they fetch history,   *)
(* never goes back and names one history only.                              *)
RevisionNamesHistory ==
    [][pub.live => /\ pub'.revision >= pub.revision
                   /\ pub'.revision = pub.revision => pub'.hist = pub.hist]_vars

(* The loop never arms a sleep that has already elapsed (it would spin).    *)
NoSpin == [][phase' = "sleep" /\ phase # "sleep" => wakeAt' > now]_vars

(* A wake inside the settle window neither restarts nor extends it, and the *)
(* recorded finish stays the exit's.                                        *)
SettleFixed ==
    [][active.exit # "none" /\ active'.job # 0 =>
          /\ active'.settleAt = active.settleAt
          /\ active'.fin = active.fin
          /\ active'.exit = active.exit]_vars

(* A waiting time-only occurrence is never overtaken: the slot goes to it   *)
(* or to an occurrence that has been waiting longer, one that has just come *)
(* due counting from now and a tie going to the job configured first.       *)
TimeOnlyNotOvertaken ==
    [][\A k \in Jobs \ Gated, w \in Jobs :
          (/\ pending[k].on /\ pending'[k].on
           /\ active.job = 0 /\ active'.job = w)
            => Before([since |-> IF pending[w].on THEN pending[w].since ELSE now],
                      w, pending[k], k)]_vars

(* What was decided stands in every later step: the revision of a served    *)
(* history, the end of a settle window and the order of the waiting jobs.   *)
DecisionsStand == RevisionNamesHistory /\ SettleFixed /\ TimeOnlyNotOvertaken

(* With a prompt runtime and a free slot a time-only occurrence does not    *)
(* wait, and a load-gated one waits less than max_wait plus one retry       *)
(* interval: at max_wait it may be unblocked yet short of its retry.        *)
WaitBounded ==
    phase = "sleep" /\ SlotFree =>
        \A j \in PendingJobs :
            j \in Gated /\ now - pending[j].since < MaxWait[j] + Retry[j]

(* scheduler.rs:503: a retry that next_deadline drops because it has        *)
(* elapsed is one the tick in front of it had already decided.              *)
DroppedRetryWasDecided ==
    phase = "sleep" /\ SlotFree =>
        \A j \in PendingJobs :
            pending[j].retry < wakeAt => pending[j].retry <= tickNow

(* The kill bound lies past the times the model computes with.              *)
KillBoundBeyond ==
    phase = "killing" /\ (wakeAt > MaxNow \/ wakeAt + skew > MaxCivil)

(* A shutdown request ends the scheduler, whatever its child does: a child  *)
(* that ignores its kill holds it up for the kill bound and no longer.      *)
ShutdownEnds == shutdown ~> (Ended \/ KillBoundBeyond)
=============================================================================

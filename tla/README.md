# A TLA+ verification of gregg

gregg is a private-LAN system monitor. A daemon, `greggd`, runs on every
watched host: it samples metrics, serves the newest sample over HTTP and runs
load-aware maintenance jobs. A client, `gregg`, keeps one daemon of its own per
configuration file, which polls the fleet, reduces the answers into one state
and hands documents to the attached terminals. This directory models the parts
of both that hold state over time and can go wrong in an order nobody tests.

`PROJECT.json` lists the components, the runs, the source lines behind every
definition, the mutants that show each property can fail, the hazards and the
theorems. This file explains how they belong together.

## 1. Inventory

### greggd (crates/greggd, crates/gregg-host)

| component | state | operations | what is hard | what makes it correct |
|---|---|---|---|---|
| maintenance scheduler (`scheduler.rs`, `scheduler/observation.rs`) | per job: next due time, pending occurrence, last load reading; one running child; histories with a revision; the published document | tick (due, coalesce, expire, defer, select, spawn), publish, sleep, freeze an exit, settle, finish, kill | two clocks, one of which is stepped; the document is awaited between a tick and its deadline; children that do not exit | every occurrence ends in exactly one record; the loop never spins; the document is current and valid |
| cron expressions (`scheduler/schedule.rs`) | masks of five fields | parse, `is_satisfiable`, `next_after` | gaps and repeated hours of the zone, sparse days, the search bound | the next occurrence exists iff the expression is satisfiable, and is the nearest |
| sampler (`sampler.rs`) | last snapshots, readiness, failure count, the in-flight collection | start, complete, time out, apply, publish, sleep, join | native reads that hang and cannot be aborted; shutdown in the same poll as a result | at most one collection runs; no failure goes uncounted; shutdown ends it |
| HTTP server (`server/mod.rs`) | one publication: two snapshots, two health states, memo cells, failure count | publish, fail, status, memoized health | the state is let go while a body is serialized; staleness by age and by count | a 200 agrees with what is published when it is given |
| supervision, control socket, lifecycle commands (`run.rs`, `control.rs`, `cli.rs`, `update.rs`, `uninstall.rs`) | tasks, the shutdown broadcast; socket paths, the TCP endpoint, the executable, the manager's unit | bind, serve, stop, restart, croncheck, update, uninstall | stale sockets, two daemons on one path, a host that changes between observation and action | a reported stop is real; a foreign service is never touched; an update resurrects nothing |
| startup registration (`startup/`) | crontab; unit or plist, what the manager loaded and runs | install, uninstall, classify ownership | overlapping rewrites of one table; manager commands that fail or hang | success means that the configuration serves; an uninstall leaves nothing behind |
| Windows service (`service/windows.rs`) | registration, reported state, shutdown signal | start, stop, restart, unregister, update | overlapping commands, waits that run out | a restart that answers ok is a fresh process |
| collectors (`gregg-host`) | counter baselines; drive cache with a worker thread | collect a cycle, refresh | devices that come and go, counter wraps, hung file systems | no rate over two intervals; the list never goes back |
| bounded commands (`startup/process.rs`; `gregg-update/src/exec.rs`; `gregg/src/startup_support.rs`) | a child, pipes, reader threads | feed, wait, kill, collect | full pipes, descendants that keep them open | a lossless capture is lossless; a call ends |
| configuration, CLI, status | none over time | parse, validate, print | - | - |

### gregg (crates/gregg)

| component | state | operations | what is hard | what makes it correct |
|---|---|---|---|---|
| poll scheduler (`scheduler.rs`), poller (`poller.rs`) | endpoint list, generation, polls in flight, two bounded channels | poll a generation under permits, deliver, take commands, tick | reloads while polls are in flight, full channels, cancellation | the list polled is the fleet's; batches arrive in order |
| fleet state (`state.rs`, `FleetState`) | systems with their last answer, last applied generation, EggPool and cron state | apply a batch, reconcile a reload | late batches, generation wrap, repointed ids | a system shows only its own target |
| client daemon (`clientd/daemon.rs`) | fleet, newest document, intents, tasks | select over batches, results, requests, ticks; publish when dirty | suppressed publications, dead tasks, refused commands | the document is the fleet's; a dead task ends the daemon |
| connections (`clientd/ipc.rs`, `protocol.rs`, `frontend.rs`) | buffers, handshake state, outbound slots, watch mark | handshake, read, notify, write, drop; on Windows a cancellable accept wait | partial writes, publication before the handshake, a wait that abort cannot reach | frames stay whole; an attached frontend gets the newest document |
| EggPool worker (`eggpool.rs`) | desired state, request, result slot | converge, fetch, deliver, abort | results that are superseded while they wait | the pane awaits a result only when one will come |
| cron observation (`clientd/cron.rs`, `cron.rs`) | history gate, cache | rounds, settle, deliver, commit | reloads within a round | a fetched history is never lost |
| launch and identity (`clientd/launch.rs`, `identity.rs`) | launch lock, endpoint paths | probe, lock, probe, rotate, spawn, wait, stop | several launchers, slow daemons, other versions | one daemon per configuration |
| configuration store (`config/store.rs`, `lock.rs`) | the file, its lock, temporary files | load, mutate, edit, write, nudge | crashes, long edits, lock timeouts | an atomic register; old or new file after a crash |
| terminal session (`state.rs` `AppState`, `main.rs`, `ui/layout.rs`) | selection, viewport, panes, intents sent | keys, documents, draw, send | documents that reorder and remove what is selected; a channel that refuses | the selection stays on its system; the screen shows the state |
| rendering (`ui/`), command line (`cli.rs`) | none over time | draw, parse, print | - | - |

### Libraries

`gregg-protocol` is the wire format and its validation; `gregg-update` looks
up, stages, verifies and replaces executables.

### How they interact

The sampler calls `sync_sampler_state` after every cycle, which writes the
publication that HTTP tasks read; the maintenance scheduler reads the load
averages of that publication and writes its own document for the scheduler
routes. A shutdown broadcast, from a signal, the control socket or a failed
task, reaches sampler, scheduler and server. Commands of other processes reach
a greggd only through its control socket, its TCP endpoint and the service
manager. On the client's side the poll task, the EggPool worker and the cron
worker send results to the engine and receive commands through small channels;
the engine publishes documents through a watch channel that every connection
task reads; frontends send requests through one bounded channel. Commands of
the client find its daemon through a socket path derived from the
configuration's path, and change it through the configuration file and a reload.

## 2. Modules

| module | models |
|---|---|
| `MaintScheduler` | greggd's maintenance scheduler, its observer and the document clients validate |
| `MaintPrompt` | the same scheduler with a history variable that tells a prompt runtime from a late one |
| `CronSchedule` | cron expressions over a small calendar |
| `MetricsServer` | sampler, `sync_sampler_state`, the publication and the request handlers that read it |
| `HostCollector`, `DriveRefresh` | the native collectors' rates and bounds; the drive refresh worker |
| `HostLifecycle` | greggd processes on a Unix host, the control socket, supervision, and the commands stop, restart, croncheck, update, uninstall |
| `WindowsService` | greggd under the Windows service manager |
| `ServiceUnit`, `Crontab` | registration with systemd, launchd and an account's crontab |
| `SelfUpdate` | the replacement of an executable by a release |
| `BoundedChild` | a command with a deadline, in its three implementations |
| `FleetPolling` | poll task, engine, fleet reducer, reload, connection marks |
| `EggpoolPlane` | EggPool worker, intents, pane state |
| `CronPlane` | cron worker, history gate, cache, intents |
| `IpcTransport`, `AcceptGate` | one connection over a Unix socket; the accept wait on a Windows pipe |
| `ClientLaunch` | start, attach, stop, restart and update of the client daemon |
| `ConfigRegister` | what the configuration store promises (abstract) |
| `ConfigStore` | how it keeps it: lock, temporary file, rename, crashes |
| `TerminalSession` | one terminal: `AppState`, event loop, layout, intents |
| `MCStandalone`, `MCEndpoints` | five parts each that share no state, one part per behaviour (below) |
| `MaintSchedulerProofs`, `FleetPollingProofs`, `EggpoolPlaneProofs`, `CronPlaneProofs`, `ConfigStoreProofs`, `ClientLaunchProofs`, `HostLifecycleProofs` | theorems about the module each is named after (section 4) |
| `PartsProofs` | theorems about the parts with a small state: `MetricsServer`, `SelfUpdate`, `ServiceUnit`, `WindowsService`, `HostCollector`, `AcceptGate`, `DriveRefresh`, `BoundedChild` |
| `MC...` | the small instances of the module named after `MC` |

### MaintScheduler

`due`, `pending` and `gate` are the fields of `JobState`; `active` is run's
`RunningChild`; `phase` is the point of the loop between two awaits; `hist`,
`nextSeq` and `revision` are the observer's; `pub` is the document behind
`SchedulerPublisher`. `now` is `Instant`, and civil time is `now + skew`, which
`ClockSteps` changes at any moment. Time passes between any two steps, also
between a tick and the deadline computed after its publication.

A tick is one action, in four cases by what becomes of the slot (`TickBusy`,
`TickNoneEligible`, `TickLaunch`, `TickSpawnFails`) and `TickFails` for a
calendar without a next occurrence; each computes the due loop, the expiries,
the selection and the deferrals of `Engine::tick` in the code's order.
`PublishAndSleep` is the publication with the deadline after it. `FreezeExit`
and `FinishChild` are the two halves of an exit with the settle window between
them; `ObserveShutdown` and `StopAfterKill` the kill. `NextAfter` is a
constant, because the scheduler uses nothing of the calendar but that it moves
forward; `CronSchedule` shows that it does.

Left out: the bytes of the output tails, exit codes, log lines. The two output
drains are one event, the end of both streams.

### CronSchedule

An expression is five sets of items `[star, lo, hi, step]`, as `parse_field`
reads them. The calendar has hours, minutes, months and weeks of a few units,
and the zone may skip or repeat an hour at one instant. `next_after` is what
the code computes: the first civil time, in order from the start of the day,
that has an instant after the start.

### MetricsServer

`sampler` holds the sampler's snapshots, readiness and failure count; `handle`
and `threads` are the retained collection and the threads of the blocking
pool; `published` is `PublishedState`, `memo` its `OnceCell`s by identity.
`pc` is the sampler's await. A collection returns a result chosen freely, or
never. A health request runs `HealthNow`, `MemoInit`, `Recheck` with other
tasks in between; a status request is one step, as the code reads under one
guard. The platform without schema v1 is an initial choice.

### FleetPolling

`poller` is the poll task (its list, generation and polls), `fleet` the
systems and the last applied generation, `doc` the watch channel's value and
`conn` each connection's watch mark and whether what it has written is the
newest document. A configuration file is an arbitrary valid or broken choice at
each reload. A frontend's requests may be taken at any time. The EggPool and
cron parts of a reload touch none of this state (`EggpoolPlane`, `CronPlane`). Three branches of the code
cannot be taken while the engine holds the other end and are left out:
`ReceiverDropped`, a closed command channel, and `hub.shutdown` before the
engine has returned. For the same reason no frontend receives `ShuttingDown`:
the connection tasks themselves hold the sender of the watch channel.

### EggpoolPlane

`pool` is the pane's state in `FleetState`, `doc` what is published of it,
`intents` the map in `Hub` that connection tasks change while the engine is
between two locks (`handling`), `converged` what the engine last told the
worker, and `worker` the task with its request and result slot. Fetches end in
any outcome, or panic; results wait for room; reloads add, remove and repoint
the pool. The retired worker of a reload can only abort and is left out.

### CronPlane

`remote` is the greggd behind each target (scheduler lifetime, revision, the
ring of records), `worker` the task with its round and gate, `channel` the
observations on the way to the engine, `cache` the `CronCache`, `intents` the
depths frontends ask for. Delivering an observation and committing its gate
entry are two steps; the reload permit is a `Notify` of one.

### ConfigStore and ConfigRegister

`ConfigRegister` is one register changed by commands that take effect at most
once between their start and their end; an acknowledged command survives a
power loss. `ConfigStore` is the code: a process takes the lock file, reads,
changes, writes a temporary file, syncs it, renames it, syncs the directory and
nudges the daemon, and may fail or be killed at each of these; a power loss
falls back to what was synced; readers remove temporary files that are old;
an editor works on a temporary file between two locks. `AtomicRegister` is the
refinement: `value` is the file, `stable` the durable file, a request takes
effect at the rename.

### ClientLaunch

`socket` says what each of the two candidate paths names, `dmn` is each
daemon's program counter from checking the path to leaving it, `lock` the
launch lock and `run` each command: dial, wait for an answer, lock, dial again,
spawn, wait until ready, and for a stop the acknowledgement and the
disappearance. Checking a path, removing it and binding it are three steps.
Waits may expire whenever what they wait for has not happened.

### HostLifecycle

`inst` is each `greggd run` process (socket inspected, unlinked, bound, port
bound, tasks running, joining, guard dropped), `cmd` each terminal's command
and what it has observed, `reg` and `unit` the service manager's registration
and process. Observation, replacement and restart of an update are separate
steps, so the host may change in between. The end of a process is the drop of
its runtime in two steps: `DropTasks` ends the tasks and with them every
listener they hold, `Exit` comes when no collection runs on the blocking pool
any more, which may be never.

### TerminalSession

`app` is `AppState` (selection, page, views, panes, highlight, EggPool and cron
selections), `drawn` what the last draw showed, `queue` and `wire` the requests
on their way, `heardEgg` and `heardCron` what the daemon knows. `Key`,
`Resize`, `Document` and the highlight's deadline are the branches of the event
loop; each includes the repairs and the intents that the code sends in it.

### IpcTransport and AcceptGate

`IpcTransport` cuts frames into units of which a socket holds a few. `conn` and
`front` are the two `Connection`s with read buffer, frame being written and the
one-slot queues behind it; the serve loop, the engine's request branch and the
frontend's reader take steps whenever tokio could run them. `AcceptGate` is
the Windows accept wait: a pool thread blocked in the kernel, its record under
the gate's mutex, and a stop that cancels from another thread.

### Crontab, ServiceUnit, SelfUpdate, BoundedChild

`Crontab` is a sequence of lines that commands list, rewrite and write back as
two steps, beside an operator who edits. `ServiceUnit` separates the file, what
the manager has loaded of it and what it runs; each manager command may fail,
work, or be killed after it worked, and each look at the manager, at a unit's
text or at the endpoint may miss what is there. A registration that names
another program may be somebody else's greggd and serve the very configuration
that is uninstalled (`Uses`). `SelfUpdate` runs two updaters while
versions, assets and checksums are published and withdrawn independently.
`BoundedChild` has a caller, two readers, a child and a descendant that keeps
the pipes, and the three versions of the caller in the repository. A reader may
fail with part of its stream read, which two versions return as an error and
the client's swallows; and the caller's `try_wait` may fail, which leaves the
child to itself.

### HostCollector, DriveRefresh, WindowsService

`HostCollector` is a collector's cycle: the time, the CPU counter with its
early return, the device tables, baselines, rates and the aggregate over those
that the source counts and that are no loopback, with devices plugged and
counters wrapping in between. `DriveRefresh` is the worker
thread of `slow_probe.rs` with its two channels of one. `WindowsService` is the
service worker, the state it reports, and each command as its sequence of
manager calls; every call may fail and every wait may run out. A worker that has
drained may be `held` by the drop of its runtime, which waits for a collection
that hangs.

## 3. Runs

| run | instance | shows |
|---|---|---|
| `maint` | a gated and a time-only job, 5 instants, history of 2, a runtime that may start to be late at any time | occurrences are conserved, retries and sleeps lie ahead, the served document is current and valid, decisions stand, and while the runtime is prompt a wait is shorter than `max_wait` plus one retry |
| `maint_clock` | one gated job, clock steps of one either way, end of the calendar | no civil occurrence runs twice; types; a shutdown ends the scheduler |
| `standalone` | 240 field combinations in three zones; two watchdogs and a client in one crontab with two overlapping commands; two configurations and two foreign units, of which one serves the first of them, under either manager, three commands or interventions; three versions and two updaters; two devices, one of them a loopback, with counters modulo 2 | `CalendarSound`, `CrontabSound`, `UnitSound`, `UpdateSound`, `CollectorSound` |
| `metrics` | one request, three cells, both platforms, failures capped at 2 | one collection at a time; publications coherent and failures counted; a true 200; under fairness a hung read ends in 503, health is answered, shutdown ends |
| `fleet` | two ids, three spellings of two targets, three configurations, channels of one, generations wrap at 2 | no foreign snapshot; document, generations and poll list current; systems are polled; a stop or a dead task ends the daemon |
| `eggpool` | two frontends, two pools, two windows, channels of one | the pane shows its own pool and window; waits are resolved; a dead worker ends the daemon |
| `cron_plane` | two ids, three targets, one event, one reload | gate, cache and bounds agree; the document follows |
| `config_store` | two processes, two commands with the editor, one crash | refinement of the register; no torn file, lost update or lost identity; commands end, the daemon follows |
| `launch` | two commands, four daemons, two versions, one fault | one reachable daemon among lock holders, strangers spared, a stop is real, commands end |
| `host` | two terminals, two processes, four registrations, one fault | honest reports, foreign units spared, nothing resurrected, everything settles but for processes held by a hung read |
| `session` | three systems, three fleets, heights 3 and 5, two keys, one document | screen and selection, intents remembered only when sent, highlights and requests end |
| `endpoints` | frames of two units in a socket of three; two cancel attempts; two operators; two drive versions; pipes of one unit | `EndpointSound`, `WindowsSound`, `DriveSound`, `CaptureSound` |

`standalone` and `endpoints` check independent parts in one run: a behaviour
chooses its part at the start and the others stay as they are, so the state
space is the sum of the parts', and each property is about its part alone.

What the composite properties say:

* `CrontabSound`: a rewrite of a table that nobody changed since it was read
  keeps every other line in its order; an install leaves its own block once,
  an uninstall none. `UnitSound`: an install in which no failure was passed over
  takes effect; an uninstall leaves nothing that names the deleted executable;
  a foreign registration is not touched, nor is its process, even where that
  serves the selected configuration, unless a look at the manager has failed
  (`ForeignDaemonSpared` in section 6). `UpdateSound`: what is installed answers,
  with a version that was the stable one, whatever is uploaded or withdrawn
  during an update; the version moves forward, except under an updater whose
  executable another one replaced meanwhile. `CollectorSound`: a rate is shown only for a device
  the previous enumeration found too, over the time between, never more than
  was moved; nor does the aggregate claim more than all but the loopbacks moved.
  The aggregate stays within the wire's bound and covers the members shown or
  is at the bound; a loopback is shown and no member.
* `EndpointSound`: frames stay whole and in order, `Hello` comes first, no
  document is missed but for the slot an ack took, both directions move, and on
  Windows a stop ends the accept wait. `WindowsSound`: a restart or update that
  answers ok found a service launched after it began; a stop that answers ok is
  real; a delivered stop ends the service or leaves it held by a hung read, and
  commands answer either way. `DriveSound`: the list never goes back,
  catches up once the drives are well, and the worker ends when dropped and
  only then. `CaptureSound`: a call that returns an
  exit status returns all that was written and fed all of its input, except of
  a stream whose reader failed in the client's version (`CaptureComplete` in
  section 6); no call leaves its child running but one whose `try_wait` failed;
  and a call ends, except that greggd's runner waits
  for a child that does not take its input and greggd's and the client's wait
  for a descendant that keeps a pipe.
* `PublicationSound`, `FleetSound`, `PaneSound`, `ObservationSound`,
  `StoreSound`, `LaunchSound`, `ReportsHonest`, `SessionSound` are conjunctions
  of the named properties of their modules.

### Bounds

`MaxNow` and `MaxCivil` end a behaviour of the scheduler after a few
instants: with periods 2 and 3, a retry of 1 and a `max_wait` of 2 this is
enough for coalescing, expiry while another child runs, a settle window and a
deferral to follow each other; the end of time is why those runs do not check
for deadlock. `LastOccurrence` makes `next_after` fail, as the code's search
bound does. In `MetricsServer` `FailureCap` stands for `u32::MAX`, where the
failure counts saturate, and is at least the count that staleness tells apart;
`Cells` are reused once no publication or request refers to them. In
`FleetPolling` `MaxGeneration` stands for `u64::MAX` and is so small that every
behaviour wraps. Channels hold one element, so that full ones happen at once,
except where the capacity itself matters. The counters of commands, faults,
crashes, reloads, documents, edits and publications bound how much happens in
one behaviour; two commands with one fault in between are enough for every
check-then-act of the code to be overtaken once. `TotalCap`, `PerJob` and `Ring`
of `CronPlane` are small enough to evict. Behaviours end at these bounds, which
is why the runs other than `metrics` do not check for deadlock; that nobody
waits for ever is stated as liveness instead.

### Fairness

Tasks whose next step is ready take it (weak fairness), because tokio polls
every woken task and the system schedules threads and processes. A branch of an
unbiased `select!` that is ready again and again is taken at last (strong
fairness of `ObserveShutdown`), because tokio starts at a random branch. Timers
fire: this gives `ReadyTimeout` of a launcher its strong fairness, as its wait
may be interrupted by failed probes. A poll, a fetch and an observation end,
because the HTTP client has a deadline for the whole request. A job's child that
is killed may ignore it: all that is assumed is that time passes (strong
fairness, as the civil clock may be set meanwhile), and `CHILD_SHUTDOWN_BOUND`
ends the wait. `ShutdownEnds` therefore excepts only a bound that lies past the
end of the model's time. `FleetPolling` also assumes that the engine
observes a cancellation that stays, and `IpcTransport` that documents and acks
do not come so fast that the other branches of `select!` are never chosen. `DriveRefresh` assumes that a call on healthy drives returns, and not
always with an error. Nothing is assumed of a job's child, of
a bounded command's child or descendant, of a native read, of frontends,
operators, editors, remote hosts or clocks. A native read may hang for ever, and
the drop of a runtime waits for it: `HostSettles` promises that a process is gone
or `OnlyHangs`, without endpoint, socket or task, and `StopEnds` that the service's
worker is gone or held. `CommandsEnd` of `launch` rests on the readiness deadline
alone: a daemon that drains answers and leaves by itself there, so that the
deadlines of the handshake and the acknowledgement bound a wait but are not
needed for its end.

## 4. Proofs

Each theorem holds for every value of the constants that the named assumptions
of its module allow, so for any number of jobs, requests, systems, processes or
terminals and whatever the bounds of the runs are. The assumptions say no more
than the types of the constants, that distinct markers are distinct, and, where
the code relies on it, what the environment keeps: a calendar's next occurrence
lies ahead (`NextAfterAssumption`), the ids an editor's user types are not
ids the store has generated (`StoreAssumption`), a configuration gives no two
systems the same target, because validation refuses a duplicate address
(`ConstantsAssumption` of `CronPlane`), and systems and devices are finitely many. TLC evaluates all of them on the
instances it checks.

### Maintenance scheduler (MaintSchedulerProofs)

* `TypeCorrect`: `TypeOK` is inductive. The work is in the tick, whose
  expiries add records to several histories at once; one lemma per stage of
  the tick (`AfterDueType`, `AfterExpiryType`, `AfterDeferType`, ...) keeps
  each leaf small.
* `OccurrencesConserved`: `OneRecordPerOccurrence`. A tick opens as many
  occurrences as it finds fresh jobs, and closes one per expiry and at most one
  by its launch; the cardinalities of the fresh, expired and pending jobs are
  related by `TickConserves`.
* `RetriesAhead`: `NoElapsedRetry`, from what a deferral writes.
* `NeverSpins`: `NoSpin`, an action property. It needs the stronger invariant
  `DueAhead` - between a tick and its sleep every due time is later than the
  tick's civil time - because the sleep is computed from that civil time and a
  newer instant.
* `OccurrencesDistinct`: `NoOccurrenceTwice`. It is inductive job by job
  (`JobDistinct`), because a job's records lie before its running and pending
  occurrences and these before its due time. `RecordedShape` says what
  `record_terminal` does to a bounded history (it shifts it), which is all the
  proof needs of sequences.
* `ServedSound`: `ServedIsSound`. The invariant `Served` adds that the served
  document follows the engine (`ServedFollows`) and that the sequence numbers
  in every history rise (`HistoriesRise`), from which the clients' validation of
  the histories follows.
* `Decided`: `DecisionsStand`, three action properties, from `Served`, from the
  shape of the child's record, and from `TimeOnlyReady`: the retry of a waiting
  time-only job has always elapsed, so it is a candidate of every tick.
* `PromptWaits`: `PromptWaitBounded` of `MaintPrompt`. `RetriesBounded`: a retry is
  set by a tick that found its occurrence short of `max_wait`, so it lies less than
  `max_wait` plus one interval after the occurrence began to wait.
  `PromptLoop`: while the runtime has been prompt, the publication happens at the
  tick's instant and a sleep with the slot free ends no later than any pending
  retry. The two together bound the wait.

### Sampler and server (PartsProofs)

* `AtMostOneCycle`: `OneCycleOutstanding`. `HandleCounts` ties the number of
  threads to the handle the sampler retains, and lets it go only at shutdown.
* `PublicationIsSound`: `PublicationSound`, with `TypeOK`. `SamplerCoherent`
  says what a cycle leaves in the sampler, `FailuresFollow` that the server lags
  by at most one failure, and only between a cycle and its publication,
  `NotServingIsV1` that only schema v1 is ever not served.
* `HealthAgreement`: `HealthAgrees`. `CellOfPublication`: a memo cell, and every
  request that has taken it, know only the snapshot of the publication the cell
  belongs to; a cell is not reused while somebody refers to it.

### Fleet (FleetPollingProofs)

* `TypeCorrect`: `TypeOK`, with `PollingCounted`.
* `SnapshotsAreOwn`: `NoForeignSnapshot` is inductive with the types. The step
  that matters is `ApplyBatch`: an answer is taken only by a system whose
  endpoint is still the one the poll was for.
* `EveryoneKeepsUp`: `FleetSound`. The generations need `WaitingDelivered` (a
  waiting poll task has delivered its number) and `EngineOwnsTasks` (nobody
  cancels it while the engine runs); the list of the poll task is compared with
  the newest list on the command channel, not with the next.

### EggPool pane (EggpoolPlaneProofs)

* `PaneIsSound`: `PaneSound`. A worker exists exactly for a pane and fetches from
  its pool (`WorkerOfPane`, `ResultsFromHere`). `Driven`: what the engine last sent
  is what a live worker is told, and the pane has moved to another window since
  only under a newer generation - which is why a late summary, whose generation
  is the one it was asked under, cannot pass for the new window's. `Newest`: the
  request in flight and the result held are for what the worker desires.
  `EggpoolPlane`'s shortest active period is a minimum of a set of naturals, taken
  from the well-foundedness of the order.

### Cron observation (CronPlaneProofs)

* `ObservationIsSound`: `ObservationSound`. The invariant `ObservationInv` says

  - of data: whatever the worker, the channel and the cache hold of a target was
    served there and is not newer than what is served now (`PastOf` in `FetchInv`,
    `HeldInv`, `ChannelInv`, `CacheInv`);
  - of order: what is learnt later is not older (`OrderInv`), along the way from
    the worker's hands through the channel to the cache;
  - of the gate: an entry is the last history of its key on the channel, or, if
    there is none, the one the cache holds, unless a reload the worker never saw
    reset the cache (`GateInv`; `ListInv` says when that can have happened);
  - of a summary whose history was suppressed: it follows that history, or finds
    an empty system (`QuietInv`);
  - of a scheduler's lifetime: it serves the job or it does not, in every summary
    known of it, and what it does not serve has no records (`JobInv`). Without the
    last two a summary could drop or keep the records of another revision, and
    neither `HistoryOfSummary` nor the document would be preserved.

  The loops of `apply_history` and `enforce_total` are recursive functions in the
  model; their lemmas are inductions over the set of the counts for which the
  statement holds.

### Configuration store (ConfigStoreProofs)

* `StoreIsSound`: `StoreSound`. `Inv` says who holds the lock (`LockHeld`), that a
  command's id is its own and in no file before its rename (`IdsFresh`), and what
  each process has read and made of it (`WorkSound`): the base of a process that
  works under the lock is the file's content, and what it renames is what it
  computed from that.
* `StoreIsARegister`: `Spec` implements `ConfigRegister`. Under the mapping of
  `AtomicRegister` the rename is the one step that changes the register's value,
  the directory sync the one that makes it stable and acknowledges; locking,
  reading, editing, writing and verifying stutter, a failure or a kill abandons
  the request, a power loss is the register's power loss. The step that needs `Inv` is
  the rename, whose new content must be an outcome of the call on the value that
  is there.

### Launch of the client daemon (ClientLaunchProofs)

* `LaunchIsSound`: `LaunchSound`. Three invariants: `StrangersApart`, a daemon that
  has looked beyond a path has no foreign listener there; `Told`, a daemon that a
  command has stopped is past serving, and once the paths were seen empty none
  will name it again; and `CalmInv`, about the lock. While only lock holders have
  acted and no wait has expired (`calm`), whatever a daemon does at its start or
  its end happens under the eyes of the holder (`StartsWatched`, `EndsWatched`),
  the holder is connected only to what still serves, and it spawns only where no
  daemon of its version is bound (`HolderSees`). `HostStep` says once what every
  step does to daemons and paths, so that what a command knows need be shown
  stable only once.

### Self-update (PartsProofs)

* `UpdatesSound`: `UpdateSound`. `PlanSound`: from `resolve_plan` on, the planned
  version is one that was offered and newer than the running one; what reaches
  the replacement answers with the planned version; and until another updater
  replaces it, the executable is the one its updater was started from.

### Processes and commands of a host (HostLifecycleProofs)

The invariant `Inv` has two halves. `HostInv` is about processes: the endpoint is
held by the process whose server runs, processes are born in order, two that
live at once are both `crowded`, and the control path of a process that is
alone still names it - the check-then-unlink of `prepare_final_path` can hurt only
processes that share the host. `Knows(k)` is about a command: whom it set out to
find has bound its socket before (`Named`), a first path that named no listener
leaves a lone daemon only the other path (`Searched`), an update with nothing
running goes on only when something was born after it (`Based`), and the direct
route is not open to a foreign manager's unit (`Apart`). Processes evolve in one
direction (`Evolves`: who has bound a socket never binds again or begins to
listen), and `KnowledgeStays` shows once that what a command knows survives
that; every action is then one lemma, from the half it changes.

* `ReportsAreHonest`: `ReportsHonest`, which follows from `Inv`.
* `HostIsRespected`: `HostRespected`. Its action property needs one more
  invariant, `WaitsKnown`: a command is connected to a process only while it
  awaits its answer.

### Parts with a small state (PartsProofs)

* `UnitIsSound`: `UnitSound`. `TaskPlaced` says where a command of a kind can
  stand under its manager; `InstallProgress` and `RemovalProgress` say, stage by
  stage, what an undisturbed install or uninstall has already achieved in the
  file, the manager and the process; `ForeignApart`, that a teardown has begun only
  on a registration of its own, and that the direct stop is planned for a foreign
  unit's daemon only after a look at the manager has failed. A disturbance ends a
  progress statement, not the command.
* `ServiceAnswersHonest`: `RestartIsFresh` and `StopIsHonest`, the safety parts of
  `WindowsSound`. `ServiceKnown`: the manager says stopped exactly when there is
  no worker; `CommandSound`: a command that has seen the service down since it
  began finds it up again only if it was launched in between.
* `CollectorIsSound`: `CollectorSound`. `SamplesSound`: a baseline was taken at the
  last enumeration if that found the device, and its counter has gained since,
  modulo the counter's width, no more than was moved. For the aggregate the bytes
  of its devices are a finite set: those that the rates claim are mapped into
  those that were moved (`BytesScale`), so there are no more of them.
* `GateLeavesNoWait`: `NoWaitLeftBehind`. The record names the thread from its
  publication to the end of its wait, and a stop raises the flag before it looks.
* `DrivesNeverGoBack`: `NeverGoesBack` and `WorkerStays`. What is on its way from
  worker to cache is never older than what is further along.
* `CapturesAreWhole`: `CaptureWhole` and `CaptureReaped`, the safety parts of
  `CaptureSound`, for all three runners, with the exceptions they state for a
  failed reader of the client's and a failed `try_wait`. `StreamSound`: the units of
  a stream are in its pipe or with its reader, and a reader ends past its cap,
  when nobody can write, or failed; `CallSound`: what the caller has waited for,
  by where it is.

### Model-checked only

* Liveness everywhere: it rests on fairness, which is outside the prover's
  reach. `DocumentFollows` is liveness alone; `EndpointSound`, `WindowsSound`,
  `DriveSound` and `CaptureSound` are conjunctions with liveness parts, of which
  the safety parts are proved, except for the framing in `EndpointSound`.
* `CalendarSound`: the search over civil times computes the result, and that the
  nearest one is found depends on the calendar and the zone of the instance.
* `CrontabSound`: it compares whole sequences of lines before and after several
  filters, an induction over the sequence for each.
* `SessionSound`: the layout sums row heights over the panes of a page, a fold
  over a sequence whose every prefix matters to the selection's row.
* The framing (`TransportSound` in `EndpointSound`): that the units of a stream are cut into
  frames again is an induction over the stream.

## 5. Hazards

`PROJECT.json` lists every hazard at its line with the properties against it.
Several carry a note: there the code has an exception that the property makes
explicit (a history variable such as `calm`, `crowded`, `overtaken`, `swallowed`
or `disturbed` marks the states it applies to), and section 6 says what happens
then.

## 6. Where code and documents disagree

Each of these properties states what a comment or a document of the repository
says; TLC finds it violated by what the code does when it takes the place of the
properties in the configuration of the run named (`CronIntentHeard` as a
PROPERTY, the others as an INVARIANT). `StandaloneClaims.cfg` and
`EndpointsClaims.cfg` hold several such properties, to be named one at a time.

| run | property | the claim | what happens |
|---|---|---|---|
| `maint` | `DroppedRetryWasDecided` | comment before `next_deadline`: an elapsed retry was decided by the tick | a retry between the tick and the instant read after publication is dropped; the occurrence waits for the next due time or the 60 s recheck |
| `metrics` | `FutureIsFresh` | `docs/api.md`: a snapshot from the future is fresh | the status routes answer 503 (`architecture/greggd-daemon.md` agrees with the code) |
| `fleet` | `CadencePollsFleet` | a refused command "costs at most the early poll" | a reload's endpoint list travels only in that command, so the old list goes on being polled |
| `eggpool` | `DepartedStopsShaping` | daemon.rs 978-985: a departed frontend stops shaping the worker | a request taken after the disconnect inserts its intent again; `SetCronIntent` likewise |
| `cron_plane` | `NewestSurvive` | cron.rs:380: the newest records are kept | an older document re-admits records that were evicted; global eviction has the same effect |
| `launch` | `OneDaemon` | launch.rs: "it must never leave two daemons for one config" | a start outside the lock, or a launcher that gives up at `READY_TIMEOUT`, leads to two |
| `launch` | `UpgradeHeals` | launch.rs: a version mismatch "is the one recoverable case: we stop it and relaunch with the current executable" | with the answer the protocol defines for it, `rotate` stops the daemon and nothing is launched |
| `host` | `NoOrphan` | uninstall.rs 770, 1050: a live daemon keeps the executable | a restart's stop is answered first, the uninstall finds the socket closed, takes it for not running and deletes the executable under the new daemon |
| `session` | `CronIntentHeard` | main.rs: a refused cron intent is retried "on the next drain" | `apply_document` never forwards it; it waits for the next key |
| `StandaloneClaims.cfg` | `DayStepsHonoured` | `plans/155`: "normal lists, ranges, wildcard, and step syntax" | `*/2` counts as a wildcard, so `0 0 */2 * *` runs every day |
| | `OthersSurvive` | startup/cron.rs: "installing one config's watchdog can never delete another's" | two overlapping installs: the second write loses the first |
| | `UninstallFindsItsBlock` | "uninstall still works after a second config's block is present" | the classifier answers unknown |
| | `InstallIsIdempotent` | "repeated installs stay idempotent" | a path with a quote or a shell character is not read back, so blocks pile up |
| | `ClientComesBack` | an uninstalled client can be installed again | the uninstall leaves a blank line, which reads as unknown |
| | `ClientKeepsJobs` | "leaving everything else alone" | a line the operator put between marker and command goes with the block |
| | `InstallTakesEffect` | launchd.rs: "the configuration the installed job must load" | a timed-out probe leads to `start`, which does nothing to a running unit; failed bootout and bootstrap are passed over, and the kickstart restarts the old job |
| | `ForeignDaemonSpared` | uninstall.rs:231-233: "foreign and unknown artifacts remain visible in the rendered plan but are never removed"; the test `foreign_active_systemd_using_selected_config_is_preserved` (1263) | a failed or timed-out `is-active` probe takes the foreign unit for inactive, no manager explains the endpoint, and the direct stop ends the foreign daemon (420-423, 786) |
| | `NeverDowngrades` | an update installs a newer version | of two overlapping updaters the one with the older release may be last |
| | `RateIsActual` | rate.rs: "divide by actual monotonic elapsed time" | the time is taken before the tables are read; a slow read inflates a rate |
| `EndpointsClaims.cfg` | `SlowFrontendCatchesUp` | ipc.rs, `queued`: "A frontend that cannot keep up skips to the newest one" | an ack may take the slot of a queued document |
| | `HeldRequestsLeave` | ipc.rs: pushed "on the caller's next flush_outbound, which both serve loops call on every tick" | the frontend's loop does not |
| | `LoopEndsTheWait` | "the loop ends either because a cancel was accepted or because the wait ended without one" | `ACCEPT_CANCEL_ATTEMPTS` may be used up |
| | `CapturesEnd` | process.rs: "must not hang an operator command forever"; startup_support.rs: "there is no unbounded wait anywhere in the client's startup path" | greggd's runner writes stdin before the deadline starts and joins its readers; the client's waits for a reader whose pipe a descendant holds |
| | `CaptureComplete` | startup_support.rs, `is_lossless`: a rewriter "must fail closed on anything but the manager's exact bytes" | `drain` swallows a read error (`let _ = ...read_to_end`) and sends what it has; a capture cut between characters counts as lossless |
| | `UpdateSparesForeign` | update.rs: it "cannot make this stop a foreign service" | the stop queries the state again, not the owner |
| | `StartIsLasting` | "Already running or starting - idempotent" | the service never reports StopPending, so a start answers ok while a stop is being carried out |

Met while modelling, without a property of their own:

* Maintenance scheduler. The retry instant in the document may lie in the past
  while another child holds the slot (`scheduler.rs:229-231` speaks of a future
  one; the tick returns before deferring, 429-431). In a repeated hour
  `next_after` goes from a minute of the first pass to the same minute of the
  second (`schedule.rs:84` against 107-113); `NextIsNearest` excepts exactly
  this. An output tail of exactly its capacity is marked truncated.
* Server. After a failed collection, warming and counter-reset results count as
  further failures in the server but not in the sampler; `ServerNeverUndercounts`
  is therefore an inequality.
* EggPool. When the last active frontend disconnects during a fetch the state
  stays "Refreshing", against the doc at state.rs 733-743.
* Cron observation. A system repointed away and back within one worker round
  leaves a gate entry although its cache was reset (`overtaken`); a dead cron
  worker freezes the plane without a word.
* Configuration store. An editor open for longer than `STALE_TEMP_AGE` loses its
  temporary file to any load; a failed directory sync after the rename reports
  an error for a change that took effect, and skips the nudge.
* Launch. No code sends `VersionMismatch`; removing a stale socket is not
  atomic; a stopping daemon's clean-up may unlink its successor's socket; a
  stale fallback file makes every stop report "still listening"; restart takes
  a slow daemon for one that is not running; after an update across protocol
  versions `wait_ready` accepts only the old one.
* greggd lifecycle. The socket guard unlinks whatever its path names by then;
  inspecting and removing a stale path can displace a live listener; a health
  probe that times out counts as unreachable and does not block a deletion;
  `decide_unix` says `DirectRunning` where `manager_restart_route` refuses;
  dropping the runtime may wait for a hung blocking read, after its listeners
  are closed and on Windows before Stopped is reported; only the selected
  configuration's endpoint is probed before the executable is deleted; `greggd
  install` overwrites a foreign unit; `disable` without a unit file fails once.
* Windows. `StopPending` branches are unreachable for greggd's own service;
  unregistering answers ok although the service was started in between; an
  update restarts a service that an operator stopped meanwhile, which Unix does
  not.
* Collectors. Rates of single devices are not capped although `validate_v2`
  rejects the whole payload above `MAX_RATE`; capacity sums are not capped;
  `retain_ids` takes ids to be unique.
* Connections. `accept_loop` returns on any other error while the daemon goes on;
  `FrontendFrame::ShuttingDown` is never sent; the handshake may send the same
  document twice.
* Terminal. A document that removes EggPool while its pane is open leaves a blank
  pane that `cycle_pane` cannot leave; `repair_cron_selection` is not called
  after every selection change, as its doc says; the first key sends a closed
  cron intent; at the longest or shortest window the opposite key cannot cancel
  a pending request, and a second window with a shorter period leaves a longer
  request pending.
* Client startup. The unit puts `Restart=always` under `[Unit]`, where systemd
  ignores it; an unmarked boot line is called removable and is left; uninstall
  stops the daemon and removes its startup before the Windows handoff and
  before the preflight that its text puts first; install does not restart a
  unit that runs; the crontab write ignores errors on stdin.
* Bounded commands. A `try_wait` that fails returns at once (`child.try_wait()?` in
  process.rs and exec.rs, `Err(_) => return None` in startup_support.rs): the child
  is neither killed nor reaped, against exec.rs, "no orphan keeps running after
  the caller gives up". A killed cargo leaves its compilers running.

## 7. Plan

Theorems to prove next: the framing of `IpcTransport` and the rewriting of
`Crontab`, with lemmas on concatenation and filtering of sequences; then the
layout of `TerminalSession`.

To model next: a composition of `FleetPolling`, `EggpoolPlane` and `CronPlane`
around one reload (they share only the reload and the publication), the client's
registration with service managers and its uninstall plan.

## 8. Not modelled

* Native reads of `/proc`, sysctl, Mach and Win32 and the parsing of what they
  return; percentages: pure data, one call at a time.
* The text of TOML, JSON, units and plists, and HTTP itself. Field-by-field
  validation of a metrics payload is a pure data check; the bounds a collector
  must meet and the scheduler document's validation are modelled, because their
  producers must satisfy them in every state.
* Terminal rendering below the layout: a function of the state.
* Argument parsing, greggd's configuration parsing, status output.
* The client's registration with systemd, launchd and the Windows task
  scheduler, and its uninstall plan with the Cargo handoff; its crontab part is
  in `Crontab`.
* Blocking writes on a Windows pipe, which hold up the daemon's task.
* Downloading an update: what arrives is a build, right or wrong.
* Packaging and installation scripts.

These are most of the repository's lines, but they are I/O, text and data
without a state of their own that another task could disturb; the modules cover
the code that has one.

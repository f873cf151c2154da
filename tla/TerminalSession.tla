--------------------------- MODULE TerminalSession ---------------------------
(***************************************************************************)
(* One gregg terminal session attached to the client daemon: the render    *)
(* model (crates/gregg/src/state.rs, AppState), the event loop that        *)
(* applies keys and documents to it and redraws only when something        *)
(* visible changed (main.rs, run_event_loop), the intents it sends to the  *)
(* daemon through a bounded channel (dispatch_action, apply_document,      *)
(* forward_cron_intent, clientd/frontend.rs), and the layout of the        *)
(* Systems pane (ui/layout.rs).                                            *)
(*                                                                         *)
(* The daemon is here only what the session sees of it: a document that    *)
(* changes by a poll, a reload or a scheduler summary, and the converged   *)
(* EggPool window; FleetPolling, EggpoolPlane and CronPlane model how it   *)
(* comes to them.  The session is the daemon's only frontend.  Metrics are *)
(* left out of a system's entry: what is kept is what places it on the     *)
(* screen.                                                                 *)
(***************************************************************************)
EXTENDS Integers, Sequences, FiniteSets, FiniteSetsExt, Functions

CONSTANTS
    Ids,              \* the systems a configuration may name
    Fleets,           \* the configurations: the systems named, in order
    WithNetwork,      \* the ones whose metrics carry network telemetry
    Targets,          \* the endpoints a system may be configured with
    JobLists,         \* the job lists a scheduler summary may carry
    Periods,          \* EggPool windows, the shorter the smaller
    Hour,             \* the window a new EggPool entry starts with
    Heights,          \* terminal heights
    BaseRows,         \* rows of an online entry in the normal view
    HeaderRows,       \* rows above the entries of the condensed view
    DetailRows,       \* rows of an open drive or network block
    RequestCapacity,  \* REQUEST_CHANNEL_CAPACITY
    Keys,             \* the actions keys translate to
    MaxKeys,          \* bound: actions of the operator
    MaxDocuments,     \* bound: changes of the document the session did not ask for
    None

ASSUME ConstantsAssumption ==
    /\ \A f \in Fleets : f \in Seq(Ids) /\ IsInjective(f)
    /\ WithNetwork \subseteq Ids
    /\ Periods \subseteq Nat /\ Hour \in Periods
    /\ Heights \subseteq Nat
    /\ {BaseRows, HeaderRows, DetailRows, RequestCapacity} \subseteq Nat \ {0}
    /\ {MaxKeys, MaxDocuments} \subseteq Nat

VARIABLES
    doc,        \* the daemon's published document
    app,        \* AppState
    armed,      \* highlight_deadline.is_some()
    lastEgg,    \* last_intent
    lastCron,   \* last_cron_intent
    queue,      \* the channel of requests to the frame stream
    wire,       \* requests written and not yet handled by the daemon
    heardEgg,   \* the EggPool intent the daemon holds for this session
    heardCron,  \* the cron intent it holds
    drawn,      \* the state the last draw showed
    running,    \* run_event_loop has not returned
    keys        \* actions so far

vars == <<doc, app, armed, lastEgg, lastCron, queue, wire, heardEgg, heardCron,
          drawn, running, keys>>
sends == <<lastEgg, lastCron, queue, wire, heardEgg, heardCron>>

-----------------------------------------------------------------------------
(* Documents.                                                               *)

Reachability == {"Online", "Offline", "Pending"}
SystemEntries == [id : Ids, target : Targets, reach : Reachability]
Moves == {"MoveDown", "MoveUp", "PageDown", "PageUp", "SelectFirst", "SelectLast"}
Expansions == {"drives", "network", "cron"}

IdsOf(systems) == {systems[n].id : n \in DOMAIN systems}
Online(s) == s.reach = "Online"

(* Online systems first, then the others, each in configured order.         *)
DisplayOrder(systems) ==
    SelectSeq(systems, Online) \o SelectSeq(systems, LAMBDA s : ~Online(s))

(* The position of an id in a display order; 0 stands for none.             *)
PositionOf(order, id) ==
    IF id \in IdsOf(order) THEN CHOOSE n \in DOMAIN order : order[n].id = id ELSE 0

SystemOf(systems, id) == systems[PositionOf(systems, id)]

(* A document is applied when it is newer than the last one, or the first.  *)
IsNewerThan(d, last) == last = 0 \/ d.generation > last

-----------------------------------------------------------------------------
(* The rows of the Systems pane.                                            *)

JobNames(a) == IF a.selected = None THEN <<>> ELSE a.jobs[a.selected]

(* The job whose history is open: the retained one while it exists.         *)
SelectedCronJob(a) ==
    LET names == JobNames(a)
    IN  IF names = <<>> THEN None
        ELSE IF \E n \in DOMAIN names : names[n] = a.job THEN a.job ELSE names[1]

NormalBase(s) == IF s.id \in WithNetwork THEN BaseRows + 1 ELSE BaseRows

Details(a, s) ==
    LET Rows(x) == CASE x = "drives"  -> DetailRows
                     [] x = "network" -> IF s.id \in WithNetwork THEN DetailRows ELSE 0
                     [] x = "cron"    -> 1 + Len(JobNames(a))
    IN  IF Online(s) /\ a.selected = s.id THEN MapThenSumSet(Rows, a.expanded) ELSE 0

(* Rows that must fit before an entry is drawn at all.                      *)
MinimumRows(a, s) == IF a.mode = "Normal" /\ Online(s) THEN NormalBase(s) ELSE 1
EntryHeight(a, s) == MinimumRows(a, s) + Details(a, s)

UsableHeight(a) ==
    LET header == IF a.mode = "Condensed" THEN HeaderRows ELSE 0
    IN  IF a.height > header THEN a.height - header ELSE 0

RowsBetween(a, order, from, to) ==
    LET Height(n) == EntryHeight(a, order[n]) IN MapThenSumSet(Height, from..to)

(* The positions drawn from a top position down.  The first entry is kept   *)
(* even when its details do not fit; a later one only as a whole.           *)
VisibleRange(a, order, top) ==
    IF UsableHeight(a) < MinimumRows(a, order[top]) THEN {}
    ELSE {n \in top..Len(order) :
             n = top \/ RowsBetween(a, order, top, n) <= UsableHeight(a)}

TopPosition(a, order) ==
    LET n == PositionOf(order, a.top) IN IF n = 0 THEN 1 ELSE n

EnsureSelectedVisible(a) ==
    LET order == DisplayOrder(a.systems)
        sel   == PositionOf(order, a.selected)
        top   == TopPosition(a, order)
        Back(c) == \A d \in c..(sel - 1) : sel \in VisibleRange(a, order, d)
    IN  IF sel = 0 \/ sel \in VisibleRange(a, order, top) THEN a
        ELSE IF sel < top THEN [a EXCEPT !.top = a.selected]
        ELSE [a EXCEPT !.top = order[Min({c \in top..sel : Back(c)})].id]

(* How many systems a page skips: those drawn, none if the first does not   *)
(* fit with its details.                                                    *)
PageSize(a, order) ==
    LET top == TopPosition(a, order)
        fit == {n \in top..Len(order) :
                  RowsBetween(a, order, top, n) <= UsableHeight(a)}
    IN  IF order # <<>> /\ EntryHeight(a, order[top]) > UsableHeight(a)
        THEN 0 ELSE Max({Cardinality(fit), 1})

-----------------------------------------------------------------------------
(* What render draws of a state.                                            *)

Entry(a, s, rows) ==
    LET open == a.selected = s.id /\ a.expanded # {}
    IN  [system |-> s, rows |-> rows,
         marked |-> a.selected = s.id /\ a.highlight,
         open   |-> IF open THEN a.expanded ELSE {},
         jobs   |-> IF open /\ "cron" \in a.expanded THEN JobNames(a) ELSE <<>>,
         job    |-> IF open /\ "cron" \in a.expanded THEN SelectedCronJob(a) ELSE None]

(* The entries of the Systems pane, the first one clipped to the screen.    *)
Entries(a) ==
    LET order == DisplayOrder(a.systems)
        top   == TopPosition(a, order)
        Clip(n) == IF n = top THEN Min({EntryHeight(a, order[n]), UsableHeight(a)})
                              ELSE EntryHeight(a, order[n])
    IN  IF order = <<>> THEN {}
        ELSE {<<n, Entry(a, order[n], Clip(n))>> : n \in VisibleRange(a, order, top)}

TooSmall(a) ==
    /\ a.systems # <<>>
    /\ a.height < IF a.mode = "Condensed" THEN HeaderRows + 1
                  ELSE MinimumRows(a, DisplayOrder(a.systems)[1])

View(a) ==
    LET Screen(name, mode, pool, entries) ==
            [screen |-> name, mode |-> mode, eggpool |-> pool, entries |-> entries,
             height |-> a.height]
    IN  IF a.systems = <<>> /\ a.eggpool = None THEN Screen("empty", "Normal", None, {})
        ELSE IF a.pane = "Eggpool" THEN Screen("Eggpool", "Normal", a.eggpool, {})
        ELSE IF TooSmall(a) THEN Screen("small", "Normal", None, {})
        ELSE Screen("Systems", a.mode, None, Entries(a))

-----------------------------------------------------------------------------
(* Keys: AppState::apply_action_changed.                                    *)

RequestPeriod(a, longer) ==
    LET further == {p \in Periods : IF longer THEN p > a.eggpool ELSE p < a.eggpool}
        next == IF longer THEN Min(further) ELSE Max(further)
    IN  IF a.eggpool = None \/ further = {} THEN a ELSE [a EXCEPT !.request = next]

(* Every selecting key lights the highlight, whether it moved or not.       *)
SelectPosition(a, order, n) ==
    EnsureSelectedVisible(
        [a EXCEPT !.selected = IF order = <<>> THEN None ELSE order[n].id,
                  !.highlight = TRUE])

MoveSelection(a, offset) ==
    LET order   == DisplayOrder(a.systems)
        current == IF PositionOf(order, a.selected) = 0 THEN 1
                   ELSE PositionOf(order, a.selected)
    IN  SelectPosition(a, order, Max({1, Min({Len(order), current + offset})}))

CyclePane(a) ==
    IF a.systems = <<>> \/ a.eggpool = None THEN a
    ELSE IF a.pane = "Systems"
         THEN [a EXCEPT !.pane = "Eggpool", !.highlight = FALSE]
         ELSE [a EXCEPT !.pane = "Systems"]

RepairCronSelection(a) == [a EXCEPT !.job = SelectedCronJob(a)]

StepCronJob(a, delta) ==
    LET names   == JobNames(a)
        current == CHOOSE n \in DOMAIN names : names[n] = SelectedCronJob(a)
    IN  [a EXCEPT !.job =
            IF names = <<>> THEN None
            ELSE names[Max({1, Min({Len(names), current + delta})})]]

Toggle(a, x) ==
    [a EXCEPT !.expanded = IF x \in @ THEN @ \ {x} ELSE @ \union {x}]

ToggleCron(a) ==
    LET b == Toggle(a, "cron")
    IN  IF "cron" \in b.expanded THEN RepairCronSelection(b) ELSE b

(* Network details open only where there are any.                           *)
ToggleNetwork(a) ==
    IF /\ a.selected \in WithNetwork
       /\ a.selected \in IdsOf(a.systems)
       /\ Online(SystemOf(a.systems, a.selected))
    THEN Toggle(a, "network") ELSE a

ToggleView(a) ==
    [a EXCEPT !.mode = IF @ = "Normal" THEN "Condensed" ELSE "Normal"]

Page(a) == PageSize(a, DisplayOrder(a.systems))

OnSystems(a, key) ==
    CASE key = "MoveDown"    -> MoveSelection(a, 1)
      [] key = "MoveUp"      -> MoveSelection(a, -1)
      [] key = "PageDown"    -> MoveSelection(a, Page(a))
      [] key = "PageUp"      -> MoveSelection(a, -Page(a))
      [] key = "SelectFirst" -> SelectPosition(a, DisplayOrder(a.systems), 1)
      [] key = "SelectLast"  -> SelectPosition(a, DisplayOrder(a.systems), Len(a.systems))
      [] key = "ToggleSystemView" -> EnsureSelectedVisible(ToggleView(a))
      [] key = "ToggleDrives"     -> EnsureSelectedVisible(Toggle(a, "drives"))
      [] key = "ToggleNetwork"    -> EnsureSelectedVisible(ToggleNetwork(a))
      [] key = "ToggleCron"       -> EnsureSelectedVisible(ToggleCron(a))
      [] key = "CronJobNext"      -> EnsureSelectedVisible(StepCronJob(a, 1))
      [] key = "CronJobPrevious"  -> EnsureSelectedVisible(StepCronJob(a, -1))
      [] OTHER -> a

(* The EggPool pane takes only the keys that move its window.               *)
OnEggpool(a, key) ==
    CASE key = "MoveDown" -> EnsureSelectedVisible(RequestPeriod(a, TRUE))
      [] key = "MoveUp"   -> EnsureSelectedVisible(RequestPeriod(a, FALSE))
      [] OTHER -> a

ApplyAction(a, key) ==
    IF key \in {"PreviousPane", "NextPane"} THEN EnsureSelectedVisible(CyclePane(a))
    ELSE IF a.pane = "Systems" THEN OnSystems(a, key) ELSE OnEggpool(a, key)

(* The render-visible fields the reducer compares.                          *)
Compared == {"selected", "top", "pane", "mode", "expanded", "job", "highlight",
             "height", "eggpool"}
ActionChanged(a, b) == \E f \in Compared : a[f] # b[f]

-----------------------------------------------------------------------------
(* Documents: AppState::adopt_snapshot.                                     *)

(* A host fails when a poll of the target it had finds it down.             *)
Failed(before, after, id) ==
    /\ id \in IdsOf(before) \intersect IdsOf(after)
    /\ Online(SystemOf(before, id))
    /\ SystemOf(after, id).reach = "Offline"
    /\ SystemOf(after, id).target = SystemOf(before, id).target

(* Variant: whoever is now at the old position. *)
InPlace(before, after, id) ==
    LET order == DisplayOrder(after)
    IN  order[Min({PositionOf(DisplayOrder(before), id), Len(order)})].id

(* The live host that took a failed one's place: the nearest one at or      *)
(* above its old position, else below, else whoever is there.               *)
LiveReplacement(before, after, id) ==
    LET order == DisplayOrder(after)
        limit == Min({PositionOf(DisplayOrder(before), id), Len(order)})
        live  == {n \in DOMAIN order : Online(order[n])}
        above == {n \in live : n <= limit}
    IN  order[IF above # {} THEN Max(above)
              ELSE IF live # {} THEN Min(live) ELSE limit].id

Repaired(before, after, id, fallback) ==
    IF Failed(before, after, id) THEN LiveReplacement(before, after, id)
    ELSE IF id \in IdsOf(after) THEN id ELSE fallback

FirstId(systems) == IF systems = <<>> THEN None ELSE systems[1].id

(* Variant: the pending window outlives the document that carries it. *)
TakeKeepingRequest(a, d) ==
    [a EXCEPT !.systems = d.systems, !.eggpool = d.eggpool, !.jobs = d.jobs,
              !.generation = d.generation, !.saw = @ \/ d.polled]

(* The fields of the document; a pending window is satisfied by the         *)
(* document that carries it.                                                *)
TakeDocument(a, d) ==
    [a EXCEPT !.systems = d.systems, !.eggpool = d.eggpool, !.jobs = d.jobs,
              !.generation = d.generation, !.saw = @ \/ d.polled,
              !.request = IF d.eggpool # None /\ d.eggpool = @ THEN None ELSE @]

(* The first document starts where the content is.                          *)
Start(a) ==
    [a EXCEPT !.pane = IF a.systems = <<>> /\ a.eggpool # None
                       THEN "Eggpool" ELSE "Systems",
              !.selected = FirstId(a.systems), !.top = FirstId(a.systems)]

(* A later one repairs the selection, its cron job and the window's anchor. *)
Repair(old, a) ==
    LET kept == IF old.selected \in IdsOf(a.systems) THEN old.selected
                ELSE FirstId(a.systems)
        sel  == Repaired(old.systems, a.systems, old.selected, FirstId(a.systems))
    IN  [a EXCEPT !.selected = sel,
                  !.top = Repaired(old.systems, a.systems, old.top, kept)]

(* The first document with polled reachability snaps to the display order.  *)
Snap(old, a) ==
    IF old.saw \/ ~a.saw \/ a.systems = <<>> THEN a
    ELSE LET first == DisplayOrder(a.systems)[1].id
         IN  [a EXCEPT !.selected = first, !.top = first]

Adopt(a, d) ==
    LET taken  == TakeDocument(a, d)
        placed == IF a.generation = 0 THEN Start(taken) ELSE Repair(a, taken)
    IN  Snap(a, RepairCronSelection(placed))

DocumentChanged(a, b) ==
    \E f \in {"systems", "eggpool", "jobs", "selected", "top", "pane"} : a[f] # b[f]

-----------------------------------------------------------------------------
(* Requests to the daemon.                                                  *)

Closed == [kind |-> "cron", system |-> None, job |-> None]
ReloadConfig == [kind |-> "reload"]
EggIntent(active, period, refresh) ==
    [kind |-> "egg", active |-> active, period |-> period, refresh |-> refresh]

(* A bounded try_send: a full channel refuses the request.                  *)
Offer(q, request) == IF Len(q) < RequestCapacity THEN Append(q, request) ELSE q

CronIntent(a) ==
    IF "cron" \in a.expanded /\ a.selected # None /\ SelectedCronJob(a) # None
    THEN [kind |-> "cron", system |-> a.selected, job |-> SelectedCronJob(a)]
    ELSE Closed

(* Variant: a refused request is remembered as sent. *)
RememberedAnyway(last, q, request) == request

(* What was last sent, given what was and what the channel said.            *)
Remembered(last, q, request) ==
    IF Len(q) < RequestCapacity THEN request ELSE last

(* The EggPool intent a key implies; None when there is nothing to say.     *)
ImpliedIntent(a, b, key) ==
    LET period == IF b.request # None THEN b.request ELSE b.eggpool
        intent == EggIntent(b.pane = "Eggpool", period, key = "RefreshNow")
    IN  IF \/ b.eggpool = None
           \/ key = "RefreshNow" /\ b.pane # "Eggpool"
           \/ /\ key # "RefreshNow"
              /\ a.pane = b.pane
              /\ a.eggpool = period
              /\ lastEgg = intent
        THEN None ELSE intent

(* dispatch_action: a reload first, then the cron intent if it changed, then *)
(* the EggPool intent.                                                       *)
Forward(a, b, key) ==
    LET q1 == IF key = "RefreshNow" /\ b.pane # "Eggpool" THEN Offer(queue, ReloadConfig)
              ELSE queue
        cron == CronIntent(b)
        egg  == ImpliedIntent(a, b, key)
        q2 == IF cron = lastCron THEN q1 ELSE Offer(q1, cron)
    IN  /\ lastCron' = IF cron = lastCron THEN lastCron
                       ELSE Remembered(lastCron, q1, cron)
        /\ lastEgg' = IF egg = None THEN lastEgg ELSE Remembered(lastEgg, q2, egg)
        /\ queue' = IF egg = None THEN q2 ELSE Offer(q2, egg)

(* A document re-offers the window it did not confirm.                      *)
RetryPendingIntent(a, q) ==
    LET intent == EggIntent(a.pane = "Eggpool", a.request, FALSE)
    IN  IF a.request = None \/ a.eggpool \in {None, a.request} \/ lastEgg = intent
        THEN queue' = q /\ lastEgg' = lastEgg
        ELSE queue' = Offer(q, intent) /\ lastEgg' = Remembered(lastEgg, q, intent)

-----------------------------------------------------------------------------
Blank(h) ==
    [height |-> h, systems |-> <<>>, eggpool |-> None, jobs |-> [i \in Ids |-> <<>>],
     generation |-> 0, saw |-> FALSE, request |-> None,
     selected |-> None, top |-> None, pane |-> "Systems", mode |-> "Normal",
     expanded |-> {}, job |-> None, highlight |-> FALSE]

NewEntry(id) == [id |-> id, target |-> CHOOSE t \in Targets : TRUE, reach |-> "Pending"]

(* A draw shows the state as it is; the fields render reads are kept.       *)
Rendered == {"systems", "eggpool", "jobs", "selected", "top", "height", "pane",
             "mode", "expanded", "job", "highlight"}
Draw(a) == [f \in Rendered |-> a[f]]
Redraw(dirty) == drawn' = IF dirty THEN Draw(app') ELSE drawn

Found(s, up) == [s EXCEPT !.reach = IF s.id \in up THEN "Online" ELSE "Offline"]

(* The session attaches, in the tallest window, to a daemon that has polled *)
(* its fleet or not yet.                                                    *)
Init ==
    /\ \E f \in Fleets, pool \in {None, Hour}, polled \in BOOLEAN, up \in SUBSET Ids,
         list \in JobLists \ {<<>>} :
         /\ up \subseteq {f[n] : n \in DOMAIN f}
         /\ ~polled => up = {}
         /\ doc = [generation |-> 1, polled |-> polled, eggpool |-> pool,
                   systems |-> [n \in DOMAIN f |->
                                  IF polled THEN Found(NewEntry(f[n]), up)
                                  ELSE NewEntry(f[n])],
                   jobs |-> [i \in Ids |-> IF i \in up THEN list ELSE <<>>]]
    /\ app = Blank(Max(Heights))
    /\ drawn = Draw(app)
    /\ armed = FALSE /\ running = TRUE /\ keys = 0
    /\ lastEgg = None /\ lastCron = None
    /\ queue = <<>> /\ wire = <<>>
    /\ heardEgg = None /\ heardCron = Closed

Pressed == running /\ keys < MaxKeys /\ keys' = keys + 1

(* One key: the reducer, the requests, the highlight's timer, the draw gate. *)
Press(key) ==
    /\ Pressed
    /\ app' = ApplyAction(app, key)
    /\ Forward(app, app', key)
    /\ armed' = IF app.pane = "Systems" /\ key \in Moves THEN TRUE
                ELSE IF app.highlight /\ ~app'.highlight THEN FALSE ELSE armed
    /\ Redraw(ActionChanged(app, app'))
    /\ UNCHANGED <<doc, wire, heardEgg, heardCron, running>>

(* The terminal is resized: always a redraw.                                *)
Resize(h) ==
    /\ Pressed
    /\ app' = EnsureSelectedVisible([app EXCEPT !.height = h])
    /\ Forward(app, app', "Resize")
    /\ Redraw(TRUE)
    /\ UNCHANGED <<doc, armed, wire, heardEgg, heardCron, running>>

(* About ten seconds after the last selecting key.                          *)
HighlightTimeout ==
    /\ running /\ armed
    /\ armed' = FALSE
    /\ \E dark \in {[app EXCEPT !.highlight = FALSE]} : app' = EnsureSelectedVisible(dark)
    /\ Redraw(ActionChanged(app, app'))
    /\ UNCHANGED <<doc, sends, running, keys>>

(* FrameStream::next with no frame to read: what is queued is written.      *)
WriteRequests ==
    /\ running /\ queue # <<>>
    /\ wire' = wire \o queue /\ queue' = <<>>
    /\ UNCHANGED <<doc, app, armed, lastEgg, lastCron, heardEgg, heardCron,
                   drawn, running, keys>>

(* The next frame is the newest document; what is queued is written first.  *)
ReceiveDocument ==
    /\ running /\ doc.generation # app.generation
    /\ wire' = wire \o queue
    /\ \E placed \in {IF IsNewerThan(doc, app.generation) THEN Adopt(app, doc) ELSE app} :
         app' \in {EnsureSelectedVisible(placed)}
    /\ Redraw(DocumentChanged(app, app'))
    /\ RetryPendingIntent(app', <<>>)
    /\ UNCHANGED <<doc, armed, lastCron, heardEgg, heardCron, running, keys>>

(* Quit, a signal, the daemon's farewell or a lost connection: the process  *)
(* is gone, and the daemon drops what it held for it.                       *)
Leave ==
    /\ running /\ running' = FALSE
    /\ app' = Blank(app.height) /\ drawn' = Draw(app')
    /\ armed' = FALSE /\ keys' = MaxKeys
    /\ lastEgg' = None /\ lastCron' = None /\ queue' = <<>> /\ wire' = <<>>
    /\ heardEgg' = None /\ heardCron' = Closed
    /\ UNCHANGED doc

-----------------------------------------------------------------------------
(* The daemon, as far as the session can tell.                              *)

Publish(d) == doc' = [d EXCEPT !.generation = doc.generation + 1]
Unasked ==
    /\ running
    /\ doc.generation <= MaxDocuments
    /\ UNCHANGED <<app, armed, sends, drawn, running, keys>>

(* A batch finds each system up or down.                                    *)
PollBatch ==
    /\ Unasked
    /\ \E up \in SUBSET IdsOf(doc.systems) :
         Publish([doc EXCEPT !.polled = TRUE,
                             !.systems = [n \in DOMAIN @ |-> Found(@[n], up)]])

(* A reload keeps, adds and removes systems, and the EggPool entry.         *)
ReloadFleet ==
    /\ Unasked
    /\ \E f \in Fleets, pool \in {None, IF doc.eggpool = None THEN Hour ELSE doc.eggpool} :
         LET old == IdsOf(doc.systems)
             Kept(i) == IF i \in old THEN SystemOf(doc.systems, i) ELSE NewEntry(i)
         IN  Publish([doc EXCEPT !.eggpool = pool,
                                 !.systems = [n \in DOMAIN f |-> Kept(f[n])],
                                 !.jobs = [i \in Ids |-> IF \E n \in DOMAIN f : f[n] = i
                                                         THEN @[i] ELSE <<>>]])

(* A reload points a system at another target.                              *)
Repoint ==
    /\ Unasked
    /\ \E n \in DOMAIN doc.systems, t \in Targets :
         /\ t # doc.systems[n].target
         /\ Publish([doc EXCEPT !.systems[n].target = t, !.systems[n].reach = "Pending",
                                !.jobs[doc.systems[n].id] = <<>>])

(* A system's scheduler summary arrives or changes.                         *)
Summary ==
    /\ Unasked
    /\ \E i \in IdsOf(doc.systems), list \in JobLists :
         /\ list # doc.jobs[i]
         /\ Publish([doc EXCEPT !.jobs[i] = list])

(* The daemon handles one request; it replaces what it held.                *)
HearRequest ==
    /\ wire # <<>> /\ wire' = Tail(wire)
    /\ heardEgg' = IF Head(wire).kind = "egg" THEN Head(wire) ELSE heardEgg
    /\ heardCron' = IF Head(wire).kind = "cron" THEN Head(wire) ELSE heardCron
    /\ UNCHANGED <<doc, app, armed, lastEgg, lastCron, queue, drawn, running, keys>>

(* An active intent's window becomes the pane's.                            *)
Converge ==
    /\ heardEgg # None /\ heardEgg.active
    /\ doc.eggpool \notin {None, heardEgg.period}
    /\ Publish([doc EXCEPT !.eggpool = heardEgg.period])
    /\ UNCHANGED <<app, armed, sends, drawn, running, keys>>

-----------------------------------------------------------------------------
Session ==
    \/ \E key \in Keys : Press(key)
    \/ \E h \in Heights : Resize(h)
    \/ HighlightTimeout
    \/ WriteRequests
    \/ ReceiveDocument
    \/ Leave

Daemon ==
    \/ PollBatch
    \/ ReloadFleet
    \/ Repoint
    \/ Summary
    \/ HearRequest
    \/ Converge

Next == Session \/ Daemon

(* The loop polls the frames and the timer whenever no key is waiting, and  *)
(* the daemon handles what it was sent.  Keys and changes need not come.    *)
(* The timeout, a write and a document each end their own guard, so weak    *)
(* fairness of the step says that the guard does not stay true.             *)
Fairness ==
    /\ []<>~(running /\ armed)
    /\ []<>~(running /\ queue # <<>>)
    /\ []<>~(running /\ doc.generation # app.generation)
    /\ WF_vars(HearRequest)
    /\ WF_vars(Converge)

Spec == Init /\ [][Next]_vars /\ Fairness

-----------------------------------------------------------------------------
TypeOK ==
    /\ doc.systems \in Seq(SystemEntries)
    /\ doc.eggpool \in Periods \union {None}
    /\ doc.generation \in Nat /\ doc.polled \in BOOLEAN
    /\ {app.selected, app.top} \subseteq Ids \union {None}
    /\ app.request \in Periods \union {None}
    /\ app.expanded \subseteq Expansions
    /\ {armed, running, app.highlight, app.saw} \subseteq BOOLEAN
    /\ Len(queue) <= RequestCapacity
    /\ keys \in 0..MaxKeys

(* The screen shows the state: no key, document or timeout changes what     *)
(* render would draw without reporting a visible change.  A field the       *)
(* reducers' comparisons (state.rs, apply_action_changed and                *)
(* adopt_snapshot_inner) miss would leave an old screen until the next key. *)
ScreenCurrent == View(drawn) = View(app)

(* What the session remembers as sent is what the daemon holds, or will     *)
(* once it has read what is on its way: a refused request is never          *)
(* remembered (main.rs, dispatch_action and forward_cron_intent), so it is  *)
(* offered again.                                                           *)
MemoryHonest ==
    LET pending == wire \o queue
        Newest(kind, held) ==
            LET of == {n \in DOMAIN pending : pending[n].kind = kind}
            IN  IF of = {} THEN held ELSE pending[Max(of)]
    IN  /\ lastEgg # None => Newest("egg", heardEgg) = lastEgg
        /\ lastCron # None => Newest("cron", heardCron) = lastCron

(* The selected system is one of the fleet, and it is on the screen         *)
(* whenever the screen has room for it (state.rs, ensure_selected_visible), *)
(* after any sequence of keys, resizes and documents.                       *)
SelectionShown ==
    LET order == DisplayOrder(app.systems)
        sel   == PositionOf(order, app.selected)
    IN  /\ app.systems = <<>> <=> sel = 0
        /\ sel # 0 /\ UsableHeight(app) >= MinimumRows(app, order[sel]) =>
              sel \in VisibleRange(app, order, TopPosition(app, order))

(* A lit highlight has a timer that will clear it.                          *)
HighlightArmed == app.highlight => armed

(* The session's state is well formed, the screen shows it with the          *)
(* selection in it, its highlight is timed and its memory of what it sent   *)
(* is true.                                                                 *)
SessionSound == TypeOK /\ ScreenCurrent /\ SelectionShown /\ HighlightArmed /\ MemoryHonest

(* A document leaves the operator where they were (state.rs,                *)
(* live_replacement): the pane and, but for the first polled document, the  *)
(* selection stay unless the selected system failed or left, then the       *)
(* selection is live if anything is; and a window whose top row failed      *)
(* starts at a live row when the selection is live.                         *)
FocusKept ==
    [][ app.generation # 0 /\ app'.generation > app.generation =>
          LET Live(id) == id # None /\ Online(SystemOf(app'.systems, id))
              Lost(id) == Failed(app.systems, app'.systems, id)
              live == \E n \in DOMAIN app'.systems : Online(app'.systems[n])
          IN  /\ app'.pane = app.pane
              /\ app.saw /\ app.selected \in IdsOf(app'.systems) /\ ~Lost(app.selected)
                    => app'.selected = app.selected
              /\ live /\ Lost(app.selected) => Live(app'.selected)
              /\ Lost(app.top) /\ Live(app'.selected) => Live(app'.top)
      ]_vars

(* The highlight goes out, and a window the daemon was asked for is         *)
(* confirmed or given up; neither waits for another key (main.rs, the       *)
(* highlight's arm of run_event_loop; state.rs, adopt_snapshot_inner).      *)
Asked ==
    /\ app.request # None /\ app.eggpool # None
    /\ lastEgg = EggIntent(TRUE, app.request, FALSE)
SessionProgress == (app.highlight ~> ~app.highlight) /\ (Asked ~> ~Asked)

(* The comment in forward_cron_intent: a request that was refused is retried *)
(* "on the next drain", so the daemon ends up holding the cron intent of the *)
(* session.                                                                 *)
CronIntentHeard == []<>(heardCron = CronIntent(app) \/ ~running)
=============================================================================

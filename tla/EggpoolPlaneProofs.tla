------------------------- MODULE EggpoolPlaneProofs -------------------------
(***************************************************************************)
(* Proofs about the EggPool plane of the client daemon, for any frontends, *)
(* pools and windows and any capacity of the channels: worker, fleet and   *)
(* document agree on the window, and only the configured pool's data       *)
(* reaches the pane.                                                       *)
(***************************************************************************)
EXTENDS EggpoolPlane, SequenceTheorems, WellFoundedInduction, TLAPS

(* A worker exists exactly for a pane, and fetches from the pane's pool.     *)
WorkerOfPane ==
    /\ worker # None <=> pool # None
    /\ worker # None => worker.endpoint = pool.endpoint

(* What the worker holds or has handed over was fetched from its own pool.   *)
ResultsFromHere(w) ==
    w # None =>
        /\ w.held # None => w.held.pool = w.endpoint
        /\ \A i \in 1 .. Len(w.results) : w.results[i].pool = w.endpoint

(* What the engine last drove the worker with is what a live worker is told; *)
(* the pane has moved to another window since only under a newer generation. *)
Driven ==
    converged # None /\ pool # None =>
        /\ converged.generation <= pool.generation
        /\ converged.generation = pool.generation => pool.period = converged.period
        /\ worker.alive => worker.control = converged

(* The request in flight and the result held, of one worker.                 *)
Newest(w) ==
    w # None =>
        /\ w.request # None =>
              w.desired.active /\ w.request = Request(w.desired)
        /\ w.held # None =>
              /\ w.held.period = w.desired.period
              /\ w.held.generation = w.desired.generation

PaneInv ==
    /\ TypeOK /\ WorkerOfPane /\ ResultsFromHere(worker) /\ Newest(worker)
    /\ Driven /\ SummaryOfWindow /\ DocumentCurrent

-----------------------------------------------------------------------------
(* The records of the module, field by field.                                *)

LEMMA PoolFields ==
    ASSUME NEW p \in PoolStates
    PROVE  /\ p.endpoint \in Pools /\ p.period \in Periods
           /\ p.generation \in Nat /\ p.state \in RefreshStates
           /\ p.summary \in Shown \cup {None} /\ p.error \in BOOLEAN
           /\ p.health \in Pools \cup {None} /\ p.healthError \in BOOLEAN
BY Zenon DEF PoolStates

LEMMA WorkerFields ==
    ASSUME NEW w \in WorkerStates
    PROVE  /\ w.endpoint \in Pools /\ w.alive \in BOOLEAN
           /\ w.control \in DesiredStates /\ w.unseen \in BOOLEAN
           /\ w.desired \in DesiredStates /\ w.request \in InFlight \cup {None}
           /\ w.deadline \in BOOLEAN /\ w.held \in Results \cup {None}
           /\ w.results \in Seq(Results)
BY Zenon DEF WorkerStates

LEMMA DesiredFields ==
    ASSUME NEW d \in DesiredStates
    PROVE  d.active \in BOOLEAN /\ d.period \in Periods /\ d.generation \in Nat
BY Zenon DEF DesiredStates

LEMMA ResultFields ==
    ASSUME NEW r \in Results
    PROVE  /\ r.pool \in Pools /\ r.period \in Periods /\ r.generation \in Nat
           /\ r.summary \in BOOLEAN /\ r.health \in BOOLEAN
BY Zenon DEF Results

LEMMA PoolRecord ==
    ASSUME NEW e \in Pools, NEW t \in Periods, NEW g \in Nat,
           NEW st \in RefreshStates, NEW s \in Shown \cup {None},
           NEW er \in BOOLEAN, NEW h \in Pools \cup {None}, NEW he \in BOOLEAN
    PROVE  [endpoint |-> e, period |-> t, generation |-> g, state |-> st,
            summary |-> s, error |-> er, health |-> h, healthError |-> he]
              \in PoolStates
BY Zenon DEF PoolStates

LEMMA WorkerRecord ==
    ASSUME NEW e \in Pools, NEW a \in BOOLEAN, NEW c \in DesiredStates,
           NEW u \in BOOLEAN, NEW d \in DesiredStates,
           NEW q \in InFlight \cup {None}, NEW dl \in BOOLEAN,
           NEW h \in Results \cup {None}, NEW rs \in Seq(Results)
    PROVE  [endpoint |-> e, alive |-> a, control |-> c, unseen |-> u,
            desired |-> d, request |-> q, deadline |-> dl, held |-> h,
            results |-> rs] \in WorkerStates
BY Zenon DEF WorkerStates

-----------------------------------------------------------------------------
(* What the frontends want is well formed: the shortest active window exists. *)

LEMMA SmallestExists ==
    ASSUME NEW S \in SUBSET Nat, S # {}
    PROVE  \E x \in S : \A y \in S : x <= y
<1>1. \E x \in S : \A y \in S : ~(y < x)
  <2> DEFINE R == OpToRel(<, Nat)
  <2>1. \A x, y \in Nat : x < y => <<x, y>> \in R BY DEF OpToRel
  <2>2. IsWellFoundedOn(R, Nat) BY NatLessThanWellFounded
  <2> HIDE DEF R
  <2>3. PICK x \in S : \A y \in S : ~(<<y, x>> \in R) BY <2>2, WFMin
  <2> QED BY <2>1, <2>3, Zenon
<1> QED BY <1>1

WellFormed(is) == \A s \in DOMAIN is : is[s] \in Intents

LEMMA ConvergedPeriodType ==
    ASSUME NEW is, WellFormed(is), NEW t \in Periods
    PROVE  ConvergedPeriod(is, t) \in Periods
<1>1. CASE AnyActive(is)
  <2>1. ActivePeriods(is) \subseteq Periods
    BY DEF ActivePeriods, WellFormed, Intents
  <2>2. ActivePeriods(is) # {}
    BY <1>1 DEF ActivePeriods, AnyActive
  <2>3. ActivePeriods(is) \in SUBSET Nat BY <2>1, ConstantsAssumption
  <2>4. Min(ActivePeriods(is)) \in ActivePeriods(is)
    BY <2>2, <2>3, SmallestExists DEF Min
  <2> QED BY <1>1, <2>1, <2>4 DEF ConvergedPeriod
<1>2. CASE ~AnyActive(is)
  BY <1>2 DEF ConvergedPeriod
<1> QED BY <1>1, <1>2

LEMMA DesiredType ==
    ASSUME NEW p \in PoolStates, NEW is, WellFormed(is)
    PROVE  /\ Desired(p, is) \in DesiredStates
           /\ Desired(p, is).active = AnyActive(is)
           /\ Desired(p, is).period = ConvergedPeriod(is, p.period)
           /\ Desired(p, is).generation = p.generation
<1>1. p.period \in Periods /\ p.generation \in Nat BY PoolFields
<1>2. ConvergedPeriod(is, p.period) \in Periods BY <1>1, ConvergedPeriodType
<1>3. AnyActive(is) \in BOOLEAN BY DEF AnyActive
<1> QED BY <1>1, <1>2, <1>3, Zenon DEF Desired, DesiredStates

LEMMA InactiveType == Inactive \in DesiredStates
BY ConstantsAssumption DEF Inactive, DesiredStates

-----------------------------------------------------------------------------
(* What the operations do to the pane's state.                               *)

LEMMA NewPoolType ==
    ASSUME NEW e \in Pools
    PROVE  /\ NewPool(e) \in PoolStates
           /\ NewPool(e).endpoint = e
           /\ NewPool(e).summary = None /\ NewPool(e).health = None
<1>1. Hour \in Periods /\ 0 \in Nat /\ "idle" \in RefreshStates
      /\ None \in Shown \cup {None} /\ None \in Pools \cup {None} /\ FALSE \in BOOLEAN
  BY ConstantsAssumption DEF RefreshStates
<1>2. NewPool(e) \in PoolStates
  BY <1>1, PoolRecord, Zenon DEF NewPool
<1> QED BY <1>2 DEF NewPool

LEMMA PoolUpdates ==
    ASSUME NEW p \in PoolStates, NEW e \in Pools, NEW t \in Periods,
           NEW g \in Nat, NEW st \in RefreshStates,
           NEW s \in Shown \cup {None}, NEW er \in BOOLEAN
    PROVE  /\ [p EXCEPT !.endpoint = e] \in PoolStates
           /\ [p EXCEPT !.period = t, !.summary = s, !.error = er] \in PoolStates
           /\ [p EXCEPT !.generation = g, !.state = st] \in PoolStates
           /\ [p EXCEPT !.state = st] \in PoolStates
<1> DEFINE A == Shown \cup {None}
           B == Pools \cup {None}
           C == BOOLEAN
<1>1. /\ s \in A /\ er \in C
      /\ PoolStates = [endpoint : Pools, period : Periods, generation : Nat,
                       state : RefreshStates, summary : A, error : C,
                       health : B, healthError : C]
  BY DEF PoolStates
<1> HIDE DEF A, B, C
<1> QED BY <1>1

(* q is the same pool's pane on the window t: an older window is left with    *)
(* its summary, and only under a newer generation.                          *)
Shifted(p, q, t) ==
    /\ q \in PoolStates /\ q.endpoint = p.endpoint /\ q.period = t
    /\ q.generation >= p.generation
    /\ q.generation = p.generation => p.period = t
    /\ q.summary = None \/ (q.summary = p.summary /\ p.period = t)
    /\ q.health = p.health

LEMMA SetPeriodEffect ==
    ASSUME NEW p \in PoolStates, NEW t \in Periods
    PROVE  LET q == SetPeriod(p, t)
           IN  /\ q \in PoolStates /\ q.endpoint = p.endpoint /\ q.period = t
               /\ q.generation = p.generation /\ q.health = p.health
               /\ q.summary = None \/ (q.summary = p.summary /\ p.period = t)
               /\ q # p => p.period # t
               /\ q = p => p.period = t
<1> DEFINE q == [p EXCEPT !.period = t, !.summary = None, !.error = FALSE]
<1>1. CASE p.period = t
  BY <1>1 DEF SetPeriod
<1>2. CASE p.period # t
  <2>1. SetPeriod(p, t) = q BY <1>2 DEF SetPeriod
  <2>2. q \in PoolStates
    <3>1. /\ p.endpoint \in Pools /\ 0 \in Nat /\ "idle" \in RefreshStates
          /\ None \in Shown \cup {None} /\ FALSE \in BOOLEAN
          /\ None \in Pools \cup {None}
      BY PoolFields DEF RefreshStates
    <3> QED BY <3>1, PoolUpdates
  <2>3. /\ q.endpoint = p.endpoint /\ q.period = t /\ q.summary = None
        /\ q.generation = p.generation /\ q.health = p.health
    BY DEF PoolStates
  <2> HIDE DEF q
  <2> QED BY <1>2, <2>1, <2>2, <2>3
<1> QED BY <1>1, <1>2

LEMMA BeginEffect ==
    ASSUME NEW p \in PoolStates, NEW a \in BOOLEAN
    PROVE  LET q == Begin(p, a)
           IN  /\ q \in PoolStates /\ q.endpoint = p.endpoint
               /\ q.period = p.period /\ q.generation = p.generation + 1
               /\ q.summary = p.summary /\ q.health = p.health
<1> DEFINE st == IF a THEN "refreshing" ELSE "idle"
           q == [p EXCEPT !.generation = p.generation + 1, !.state = st]
<1>1. Begin(p, a) = q BY DEF Begin
<1>2. st \in RefreshStates BY DEF RefreshStates
<1>3. p.generation + 1 \in Nat /\ p.endpoint \in Pools /\ p.period \in Periods
      /\ None \in Shown \cup {None} /\ FALSE \in BOOLEAN
      /\ None \in Pools \cup {None}
  BY PoolFields
<1> HIDE DEF st
<1>4. q \in PoolStates BY <1>2, <1>3, PoolUpdates
<1>5. /\ q.endpoint = p.endpoint /\ q.period = p.period
      /\ q.generation = p.generation + 1
      /\ q.summary = p.summary /\ q.health = p.health
  BY DEF PoolStates
<1> QED BY <1>1, <1>4, <1>5

LEMMA WindowedEffect ==
    ASSUME NEW p \in PoolStates, NEW d \in DesiredStates
    PROVE  Shifted(p, Windowed(p, d), d.period)
<1>1. d.period \in Periods /\ d.active \in BOOLEAN /\ p.generation \in Nat
  BY DesiredFields, PoolFields
<1>2. CASE p.period = d.period
  BY <1>1, <1>2 DEF Windowed, Shifted
<1>3. CASE p.period # d.period
  <2> DEFINE m == SetPeriod(p, d.period)
             q == Begin(m, d.active)
  <2>1. /\ m \in PoolStates /\ m.endpoint = p.endpoint /\ m.period = d.period
        /\ m.generation = p.generation /\ m.health = p.health
        /\ m.summary = None \/ (m.summary = p.summary /\ p.period = d.period)
    BY <1>1, SetPeriodEffect
  <2> HIDE DEF m
  <2>2. /\ q \in PoolStates /\ q.endpoint = m.endpoint
        /\ q.period = m.period /\ q.generation = m.generation + 1
        /\ q.summary = m.summary /\ q.health = m.health
    BY <1>1, <2>1, BeginEffect
  <2>3. Windowed(p, d) = q BY <1>3 DEF Windowed, m
  <2> HIDE DEF q
  <2> QED BY <1>1, <2>1, <2>2, <2>3 DEF Shifted
<1> QED BY <1>2, <1>3

(* The pane FinishIntent leaves.                                             *)
Refreshed(p, d, refresh) ==
    LET q == SetPeriod(p, d.period)
    IN  IF q # p \/ refresh THEN Begin(q, d.active) ELSE q

LEMMA RefreshedEffect ==
    ASSUME NEW p \in PoolStates, NEW d \in DesiredStates, NEW b \in BOOLEAN
    PROVE  Shifted(p, Refreshed(p, d, b), d.period)
<1> DEFINE m == SetPeriod(p, d.period)
           q == Begin(m, d.active)
<1>1. d.period \in Periods /\ d.active \in BOOLEAN /\ p.generation \in Nat
  BY DesiredFields, PoolFields
<1>2. /\ m \in PoolStates /\ m.endpoint = p.endpoint /\ m.period = d.period
      /\ m.generation = p.generation /\ m.health = p.health
      /\ m.summary = None \/ (m.summary = p.summary /\ p.period = d.period)
      /\ m = p => p.period = d.period
  BY <1>1, SetPeriodEffect
<1>3. Refreshed(p, d, b) = IF m # p \/ b THEN q ELSE m BY DEF Refreshed
<1> HIDE DEF m
<1>4. /\ q \in PoolStates /\ q.endpoint = m.endpoint
      /\ q.period = m.period /\ q.generation = m.generation + 1
      /\ q.summary = m.summary /\ q.health = m.health
  BY <1>1, <1>2, BeginEffect
<1> HIDE DEF q
<1>5. CASE m # p \/ b
  <2>1. Refreshed(p, d, b) = q BY <1>3, <1>5
  <2> QED BY <1>1, <1>2, <1>4, <2>1 DEF Shifted
<1>6. CASE m = p /\ ~b
  <2>1. Refreshed(p, d, b) = m BY <1>3, <1>6
  <2> QED BY <1>1, <1>2, <1>6, <2>1 DEF Shifted
<1> QED BY <1>5, <1>6

LEMMA AppliedEffect ==
    ASSUME NEW p \in PoolStates, NEW r \in Results
    PROVE  LET q == Applied(p, r)
           IN  /\ q \in PoolStates /\ q.endpoint = p.endpoint
               /\ q.period = p.period /\ q.generation = p.generation
               /\ \/ q.summary = p.summary
                  \/ q.summary = [pool |-> r.pool, period |-> r.period]
               /\ q.health = p.health \/ q.health = r.pool
<1> DEFINE s == IF r.summary THEN [pool |-> r.pool, period |-> r.period]
                             ELSE p.summary
           h == IF r.health THEN r.pool ELSE p.health
           er == ~r.summary
           he == ~r.health
           q == [p EXCEPT !.state = "idle", !.summary = s, !.error = er,
                          !.health = h, !.healthError = he]
<1>1. Applied(p, r) = q BY DEF Applied
<1>2. [pool |-> r.pool, period |-> r.period] \in Shown
  BY ResultFields DEF Shown
<1>3. s \in Shown \cup {None} /\ h \in Pools \cup {None}
  BY <1>2, PoolFields, ResultFields
<1>4. er \in BOOLEAN /\ he \in BOOLEAN BY ResultFields, Zenon
<1>5. /\ s = p.summary \/ s = [pool |-> r.pool, period |-> r.period]
      /\ h = p.health \/ h = r.pool
  OBVIOUS
<1>6. p.endpoint \in Pools /\ p.period \in Periods /\ p.generation \in Nat
      /\ "idle" \in RefreshStates
  BY PoolFields DEF RefreshStates
<1> HIDE DEF s, h, er, he
<1>7. q \in PoolStates
  <2> DEFINE A == Shown \cup {None}
             B == Pools \cup {None}
             C == BOOLEAN
  <2>1. /\ s \in A /\ h \in B /\ er \in C /\ he \in C
        /\ PoolStates = [endpoint : Pools, period : Periods, generation : Nat,
                         state : RefreshStates, summary : A, error : C,
                         health : B, healthError : C]
    BY <1>3, <1>4 DEF PoolStates
  <2> HIDE DEF A, B, C
  <2> QED BY <1>6, <2>1
<1>8. /\ q.endpoint = p.endpoint /\ q.period = p.period
      /\ q.generation = p.generation /\ q.summary = s /\ q.health = h
  BY DEF PoolStates
<1> QED BY <1>1, <1>5, <1>7, <1>8

LEMMA AdoptEffect ==
    ASSUME NEW p \in PoolStates \cup {None}, NEW e \in Pools
    PROVE  LET q == Adopt(p, e)
           IN  /\ q \in PoolStates /\ q.endpoint = e
               /\ p = None => q.summary = None /\ q.health = None
               /\ p # None => /\ q.period = p.period
                              /\ q.generation = p.generation
                              /\ q.summary = p.summary /\ q.health = p.health
<1>1. CASE p = None
  BY <1>1, NewPoolType DEF Adopt
<1>2. CASE p # None
  <2> DEFINE q == [p EXCEPT !.endpoint = e]
  <2>1. p \in PoolStates BY <1>2
  <2>2. Adopt(p, e) = q BY <1>2 DEF Adopt
  <2>3. p.period \in Periods /\ p.generation \in Nat /\ "idle" \in RefreshStates
        /\ None \in Shown \cup {None} /\ None \in Pools \cup {None} /\ FALSE \in BOOLEAN
    BY <2>1, PoolFields DEF RefreshStates
  <2>4. q \in PoolStates BY <2>1, <2>3, PoolUpdates
  <2>5. /\ q.endpoint = e /\ q.period = p.period
        /\ q.generation = p.generation
        /\ q.summary = p.summary /\ q.health = p.health
    BY <2>1 DEF PoolStates
  <2> QED BY <1>2, <2>2, <2>4, <2>5
<1> QED BY <1>1, <1>2

-----------------------------------------------------------------------------
(* What a step of the worker task does to its record.                        *)

LEMMA SpawnedType ==
    ASSUME NEW e \in Pools
    PROVE  /\ Spawned(e) \in WorkerStates /\ Spawned(e).endpoint = e
           /\ Spawned(e) # None /\ Len(Spawned(e).results) = 0
           /\ Newest(Spawned(e)) /\ ResultsFromHere(Spawned(e))
<1> DEFINE w == Spawned(e)
<1>1. /\ Inactive \in DesiredStates /\ TRUE \in BOOLEAN /\ FALSE \in BOOLEAN
      /\ None \in InFlight \cup {None} /\ None \in Results \cup {None}
      /\ <<>> \in Seq(Results)
  BY InactiveType
<1>2. w \in WorkerStates BY <1>1, WorkerRecord, Zenon DEF Spawned
<1>3. /\ w.endpoint = e /\ w.request = None /\ w.held = None /\ w.results = <<>>
  BY DEF Spawned
<1>4. Len(<<>>) = 0 OBVIOUS
<1>5. w # None BY <1>2, NoneAssumption
<1> HIDE DEF w
<1>6. Newest(w) BY <1>3 DEF Newest
<1>7. ResultsFromHere(w) BY <1>3, <1>4 DEF ResultsFromHere
<1> QED BY <1>2, <1>3, <1>4, <1>5, <1>6, <1>7 DEF w

LEMMA ConvergeEffect ==
    ASSUME NEW w \in WorkerStates, NEW d \in DesiredStates,
           w # None, Newest(w), w.held = None
    PROVE  LET v == Converge(w, d)
           IN  /\ v \in WorkerStates /\ v.endpoint = w.endpoint
               /\ v.alive = w.alive /\ v.control = w.control
               /\ v.held = None /\ v.results = w.results
               /\ v.desired = d /\ v.deadline \in BOOLEAN
               /\ v.request # None => d.active /\ v.request = Request(d)
<1> DEFINE dl == IF ~d.active \/ Supersedes(w.desired, d) THEN FALSE ELSE w.deadline
           q == IF ~d.active THEN None
                ELSE IF Supersedes(w.desired, d) THEN Request(d)
                ELSE w.request
           v == [w EXCEPT !.desired = d, !.unseen = FALSE, !.deadline = dl,
                          !.request = q]
<1>1. Converge(w, d) = v BY DEF Converge
<1>2. Request(d) \in InFlight BY DesiredFields DEF Request, InFlight
<1>3. /\ w.request \in InFlight \cup {None} /\ w.deadline \in BOOLEAN
      /\ w.desired \in DesiredStates
  BY WorkerFields
<1>4. q \in InFlight \cup {None} BY <1>2, <1>3
<1>5. dl \in BOOLEAN BY <1>3, Zenon
<1>6. q # None => d.active /\ q = Request(d)
  <2>1. CASE ~d.active BY <2>1
  <2>2. CASE d.active /\ Supersedes(w.desired, d) BY <2>2
  <2>3. CASE d.active /\ ~Supersedes(w.desired, d)
    <3>1. w.desired.period = d.period /\ w.desired.generation = d.generation
      BY <2>3 DEF Supersedes
    <3>2. Request(w.desired) = Request(d) BY <3>1 DEF Request
    <3> QED BY <2>3, <3>2 DEF Newest
  <2> QED BY <2>1, <2>2, <2>3
<1> HIDE DEF dl, q
<1>7. v \in WorkerStates
  <2> DEFINE A == InFlight \cup {None}
             B == Results \cup {None}
             C == BOOLEAN
             D == Seq(Results)
  <2>1. /\ q \in A /\ dl \in C /\ FALSE \in C
        /\ WorkerStates = [endpoint : Pools, alive : C, control : DesiredStates,
                           unseen : C, desired : DesiredStates, request : A,
                           deadline : C, held : B, results : D]
    BY <1>4, <1>5 DEF WorkerStates
  <2> HIDE DEF A, B, C, D
  <2> QED BY <2>1
<1>8. /\ v.endpoint = w.endpoint /\ v.alive = w.alive /\ v.control = w.control
      /\ v.held = w.held /\ v.results = w.results /\ v.desired = d
      /\ v.deadline = dl /\ v.request = q
  BY DEF WorkerStates
<1> HIDE DEF v
<1> QED BY <1>1, <1>5, <1>6, <1>7, <1>8

LEMMA WorkerUpdates ==
    ASSUME NEW w \in WorkerStates, NEW a \in BOOLEAN, NEW c \in DesiredStates,
           NEW u \in BOOLEAN, NEW q \in InFlight \cup {None},
           NEW dl \in BOOLEAN, NEW h \in Results \cup {None},
           NEW rs \in Seq(Results)
    PROVE  /\ [w EXCEPT !.deadline = dl] \in WorkerStates
           /\ [w EXCEPT !.unseen = u] \in WorkerStates
           /\ [w EXCEPT !.request = q] \in WorkerStates
           /\ [w EXCEPT !.held = h] \in WorkerStates
           /\ [w EXCEPT !.results = rs] \in WorkerStates
           /\ [w EXCEPT !.request = q, !.held = h] \in WorkerStates
           /\ [w EXCEPT !.alive = a, !.request = q, !.held = h] \in WorkerStates
           /\ [w EXCEPT !.results = rs, !.held = h, !.deadline = dl] \in WorkerStates
           /\ [w EXCEPT !.control = c, !.unseen = u] \in WorkerStates
<1> DEFINE A == InFlight \cup {None}
           B == Results \cup {None}
           C == BOOLEAN
           D == Seq(Results)
<1>1. /\ q \in A /\ h \in B /\ a \in C /\ u \in C /\ dl \in C /\ rs \in D
      /\ WorkerStates = [endpoint : Pools, alive : C, control : DesiredStates,
                         unseen : C, desired : DesiredStates, request : A,
                         deadline : C, held : B, results : D]
  BY DEF WorkerStates
<1> HIDE DEF A, B, C, D
<1> QED BY <1>1

(* The worker task, or its end, took the step from w to v.                   *)
Worked(w, v) ==
    /\ v \in WorkerStates /\ v.endpoint = w.endpoint /\ v.control = w.control
    /\ v.alive => w.alive
    /\ Len(v.results) <= ResultCapacity
    /\ Newest(v) /\ ResultsFromHere(v)

(* What is known of a worker between two steps.                              *)
Sound(w) ==
    /\ w \in WorkerStates /\ w # None /\ Len(w.results) <= ResultCapacity
    /\ Newest(w) /\ ResultsFromHere(w)

LEMMA ConvergeWorked ==
    ASSUME NEW w, Sound(w), NEW d \in DesiredStates, w.held = None
    PROVE  Worked(w, Converge(w, d))
<1> DEFINE v == Converge(w, d)
<1>1. /\ v \in WorkerStates /\ v.endpoint = w.endpoint
      /\ v.alive = w.alive /\ v.control = w.control
      /\ v.held = None /\ v.results = w.results
      /\ v.desired = d
      /\ v.request # None => d.active /\ v.request = Request(d)
  BY ConvergeEffect DEF Sound
<1> HIDE DEF v
<1>2. Newest(v) BY <1>1 DEF Newest
<1>3. ResultsFromHere(v) BY <1>1 DEF ResultsFromHere, Sound
<1>4. Worked(w, v) BY <1>1, <1>2, <1>3 DEF Worked, Sound
<1> QED BY <1>4 DEF v

(* Dropping the held result, or the passive deadline, leaves a sound worker. *)
LEMMA DroppedSound ==
    ASSUME NEW w, Sound(w)
    PROVE  LET v == [w EXCEPT !.held = None]
               u == [w EXCEPT !.deadline = FALSE]
           IN  /\ Sound(v) /\ v.held = None /\ v.control = w.control
               /\ v.endpoint = w.endpoint /\ v.alive = w.alive
               /\ Sound(u) /\ u.held = w.held /\ u.control = w.control
               /\ u.endpoint = w.endpoint /\ u.alive = w.alive
<1> DEFINE v == [w EXCEPT !.held = None]
           u == [w EXCEPT !.deadline = FALSE]
<1>0. w \in WorkerStates BY DEF Sound
<1>1. v \in WorkerStates /\ u \in WorkerStates
  <2>1. /\ TRUE \in BOOLEAN /\ FALSE \in BOOLEAN /\ Inactive \in DesiredStates
        /\ None \in InFlight \cup {None} /\ None \in Results \cup {None}
        /\ <<>> \in Seq(Results)
    BY InactiveType
  <2> QED BY <1>0, <2>1, WorkerUpdates
<1>2. v # None /\ u # None BY <1>1, NoneAssumption
<1>3. /\ v.held = None /\ v.control = w.control /\ v.endpoint = w.endpoint
      /\ v.alive = w.alive /\ v.request = w.request /\ v.desired = w.desired
      /\ v.results = w.results
  BY <1>0 DEF WorkerStates
<1>4. /\ u.held = w.held /\ u.control = w.control /\ u.endpoint = w.endpoint
      /\ u.alive = w.alive /\ u.request = w.request /\ u.desired = w.desired
      /\ u.results = w.results
  BY <1>0 DEF WorkerStates
<1> HIDE DEF v, u
<1>5. Newest(v) /\ ResultsFromHere(v)
  BY <1>2, <1>3 DEF Sound, Newest, ResultsFromHere
<1>6. Newest(u) /\ ResultsFromHere(u)
  BY <1>2, <1>4 DEF Sound, Newest, ResultsFromHere
<1>7. Sound(v) BY <1>1, <1>2, <1>3, <1>5 DEF Sound
<1>8. Sound(u) BY <1>1, <1>2, <1>4, <1>6 DEF Sound
<1> QED BY <1>3, <1>4, <1>7, <1>8 DEF v, u

-----------------------------------------------------------------------------
(* The steps of the worker task.                                             *)

LEMMA WorkerSound ==
    ASSUME PaneInv, worker # None
    PROVE  Sound(worker)
<1>1. worker \in WorkerStates BY DEF PaneInv, TypeOK
<1>2. Len(worker.results) <= ResultCapacity BY DEF PaneInv, TypeOK
<1> QED BY <1>1, <1>2 DEF PaneInv, Sound

LEMMA WorkedKeeps ==
    ASSUME PaneInv, worker # None, Worked(worker, worker'),
           UNCHANGED <<pool, doc, intents, conn, requests, sent, handling,
                       converged, engine>>
    PROVE  PaneInv'
<1>1. worker' \in WorkerStates /\ worker' # None /\ worker.alive \in BOOLEAN
  BY NoneAssumption, WorkerSound, WorkerFields DEF Worked, Sound
<1>2. TypeOK'
  <2>1. worker' \in WorkerStates \cup {None} BY <1>1
  <2>2. worker' # None => Len(worker'.results) <= ResultCapacity BY DEF Worked
  <2> QED BY <2>1, <2>2 DEF PaneInv, TypeOK
<1>3. WorkerOfPane' BY <1>1 DEF PaneInv, WorkerOfPane, Worked
<1>4. Driven' BY <1>1 DEF PaneInv, Driven, Worked
<1>5. Newest(worker)' /\ ResultsFromHere(worker)'
  BY DEF Worked, Newest, ResultsFromHere
<1>6. SummaryOfWindow' /\ DocumentCurrent'
  BY DEF PaneInv, SummaryOfWindow, DocumentCurrent
<1> QED BY <1>2, <1>3, <1>4, <1>5, <1>6 DEF PaneInv

LEMMA ObserveControlKeeps ==
    ASSUME PaneInv, ObserveControl
    PROVE  PaneInv'
<1>1. worker # None /\ worker.held = None BY DEF ObserveControl, Idle, Working
<1>2. Sound(worker) BY <1>1, WorkerSound
<1>3. worker.control \in DesiredStates BY <1>2, WorkerFields DEF Sound
<1>4. Worked(worker, worker') BY <1>1, <1>2, <1>3, ConvergeWorked DEF ObserveControl
<1> QED BY <1>1, <1>4, WorkedKeeps DEF ObserveControl

LEMMA PassiveRefreshKeeps ==
    ASSUME PaneInv, PassiveRefresh
    PROVE  PaneInv'
<1> DEFINE u == [worker EXCEPT !.deadline = FALSE]
           w == Converge(u, worker.control)
           v == [w EXCEPT !.request = Request(w.desired)]
<1>1. worker # None /\ worker.held = None BY DEF PassiveRefresh, Idle, Working
<1>2. Sound(worker) BY <1>1, WorkerSound
<1>3. worker.control \in DesiredStates BY <1>2, WorkerFields DEF Sound
<1>4. /\ Sound(u) /\ u.held = None /\ u.control = worker.control
      /\ u.endpoint = worker.endpoint /\ u.alive = worker.alive
  BY <1>1, <1>2, DroppedSound
<1>5. worker' = IF w.desired.active /\ w.request = None THEN v ELSE w
  BY DEF PassiveRefresh
<1> HIDE DEF u
<1>6. /\ Worked(u, w) /\ w \in WorkerStates /\ w.held = None /\ w.alive = u.alive
      /\ w.desired \in DesiredStates
  BY <1>3, <1>4, ConvergeWorked, ConvergeEffect DEF Sound
<1> HIDE DEF w
<1>7. Worked(worker, w) BY <1>4, <1>6 DEF Worked
<1>8. CASE w.desired.active /\ w.request = None
  <2>1. Request(w.desired) \in InFlight BY <1>6, DesiredFields DEF Request, InFlight
  <2>2. v \in WorkerStates
    <3>1. /\ TRUE \in BOOLEAN /\ Request(w.desired) \in InFlight \cup {None}
          /\ None \in Results \cup {None} /\ <<>> \in Seq(Results)
      BY <2>1
    <3> QED BY <1>3, <1>6, <3>1, WorkerUpdates
  <2>3. /\ v.endpoint = w.endpoint /\ v.control = w.control /\ v.alive = w.alive
        /\ v.held = None /\ v.results = w.results /\ v.desired = w.desired
        /\ v.request = Request(w.desired)
    BY <1>6 DEF WorkerStates
  <2>4. w # None BY <1>6, NoneAssumption
  <2>5. worker' = v BY <1>5, <1>8
  <2> HIDE DEF v
  <2>6. Newest(v) BY <1>8, <2>3 DEF Newest
  <2>7. ResultsFromHere(v) BY <1>7, <2>3, <2>4 DEF ResultsFromHere, Worked
  <2>8. Worked(worker, v) BY <1>7, <2>2, <2>3, <2>6, <2>7 DEF Worked
  <2> QED BY <1>1, <2>5, <2>8, WorkedKeeps DEF PassiveRefresh
<1>9. CASE ~(w.desired.active /\ w.request = None)
  <2>1. worker' = w BY <1>5, <1>9
  <2> QED BY <1>1, <1>7, <2>1, WorkedKeeps DEF PassiveRefresh
<1> QED BY <1>8, <1>9

(* A request that ends leaves a result of the worker's pool for the state it *)
(* was started with.                                                         *)
LEMMA EndedKeeps ==
    ASSUME PaneInv, worker # None, NEW r \in Results,
           r.pool = worker.endpoint, r.period = worker.desired.period,
           r.generation = worker.desired.generation,
           worker' = [worker EXCEPT !.request = None, !.held = r],
           UNCHANGED <<pool, doc, intents, conn, requests, sent, handling,
                       converged, engine>>
    PROVE  PaneInv'
<1> DEFINE v == [worker EXCEPT !.request = None, !.held = r]
<1>1. Sound(worker) /\ worker \in WorkerStates BY WorkerSound DEF Sound
<1>2. v \in WorkerStates
  <2>1. /\ TRUE \in BOOLEAN /\ None \in InFlight \cup {None}
        /\ r \in Results \cup {None} /\ <<>> \in Seq(Results)
        /\ Inactive \in DesiredStates
    BY InactiveType
  <2> QED BY <1>1, <2>1, WorkerUpdates
<1>3. /\ v.endpoint = worker.endpoint /\ v.control = worker.control
      /\ v.alive = worker.alive /\ v.held = r /\ v.results = worker.results
      /\ v.desired = worker.desired /\ v.request = None
  BY <1>1 DEF WorkerStates
<1>4. worker' = v OBVIOUS
<1> HIDE DEF v
<1>5. Newest(v) BY <1>3 DEF Newest
<1>6. ResultsFromHere(v) BY <1>1, <1>3 DEF ResultsFromHere, Sound
<1>7. Worked(worker, v) BY <1>1, <1>2, <1>3, <1>5, <1>6 DEF Worked, Sound
<1> QED BY <1>4, <1>7, WorkedKeeps

LEMMA RequestEndsKeeps ==
    ASSUME PaneInv, RequestEnds
    PROVE  PaneInv'
<1>1. worker # None /\ worker.request # None BY DEF RequestEnds, Idle, Working
<1>2. Sound(worker) /\ worker \in WorkerStates BY <1>1, WorkerSound DEF Sound
<1>3. worker.request = Request(worker.desired) BY <1>1, <1>2 DEF Sound, Newest
<1>4. /\ worker.request.period = worker.desired.period
      /\ worker.request.generation = worker.desired.generation
  BY <1>3 DEF Request
<1>5. PICK outcome \in Outcomes :
         worker' = [worker EXCEPT
                       !.request = None,
                       !.held = [pool |-> worker.endpoint,
                                 period |-> worker.request.period,
                                 generation |-> worker.request.generation,
                                 summary |-> SummaryFetched(outcome),
                                 health |-> HealthFetched(outcome)]]
  BY DEF RequestEnds
<1> DEFINE r == [pool |-> worker.endpoint,
                 period |-> worker.request.period,
                 generation |-> worker.request.generation,
                 summary |-> SummaryFetched(outcome),
                 health |-> HealthFetched(outcome)]
<1>6. worker.endpoint \in Pools /\ worker.desired.period \in Periods
      /\ worker.desired.generation \in Nat
  BY <1>2, WorkerFields, DesiredFields
<1>7. outcome.summary \in BOOLEAN /\ outcome.health \in BOOLEAN
  BY ConstantsAssumption, Zenon
<1>8. r \in Results
  BY <1>4, <1>6, <1>7, Zenon DEF Results, SummaryFetched, HealthFetched
<1>9. /\ r.pool = worker.endpoint /\ r.period = worker.desired.period
      /\ r.generation = worker.desired.generation
  BY <1>4
<1>10. worker' = [worker EXCEPT !.request = None, !.held = r] BY <1>5
<1> HIDE DEF r
<1> QED BY <1>1, <1>8, <1>9, <1>10, EndedKeeps DEF RequestEnds

LEMMA RequestPanicsKeeps ==
    ASSUME PaneInv, RequestPanics
    PROVE  PaneInv'
<1> DEFINE r == PanicResult(worker)
<1>1. worker # None BY DEF RequestPanics, Idle, Working
<1>2. worker \in WorkerStates BY <1>1, WorkerSound DEF Sound
<1>3. worker.endpoint \in Pools /\ worker.desired.period \in Periods
      /\ worker.desired.generation \in Nat
  BY <1>2, WorkerFields, DesiredFields
<1>4. r \in Results BY <1>3, Zenon DEF PanicResult, Results
<1>5. /\ r.pool = worker.endpoint /\ r.period = worker.desired.period
      /\ r.generation = worker.desired.generation
  BY DEF PanicResult
<1>6. worker' = [worker EXCEPT !.request = None, !.held = r] BY DEF RequestPanics
<1> HIDE DEF r
<1> QED BY <1>1, <1>4, <1>5, <1>6, EndedKeeps DEF RequestPanics

LEMMA InterruptKeeps ==
    ASSUME PaneInv, Interrupt
    PROVE  PaneInv'
<1>1. worker # None /\ worker.held # None BY DEF Interrupt, Working
<1>2. Sound(worker) /\ worker \in WorkerStates BY <1>1, WorkerSound DEF Sound
<1>3. worker.control \in DesiredStates BY <1>2, WorkerFields
<1>4. CASE SupersedesResult(worker.held, worker.control)
  <2> DEFINE u == [worker EXCEPT !.held = None]
             w == Converge(u, worker.control)
  <2>1. /\ Sound(u) /\ u.held = None /\ u.control = worker.control
        /\ u.endpoint = worker.endpoint /\ u.alive = worker.alive
    BY <1>2, DroppedSound
  <2>2. worker' = w BY <1>4 DEF Interrupt
  <2> HIDE DEF u
  <2>3. Worked(u, w) BY <1>3, <2>1, ConvergeWorked
  <2>4. Worked(worker, w) BY <2>1, <2>3 DEF Worked
  <2> QED BY <1>1, <2>2, <2>4, WorkedKeeps DEF Interrupt
<1>5. CASE ~SupersedesResult(worker.held, worker.control)
  <2> DEFINE v == [worker EXCEPT !.unseen = FALSE]
  <2>1. worker' = v BY <1>5 DEF Interrupt
  <2>2. v \in WorkerStates
    <3>1. /\ FALSE \in BOOLEAN /\ None \in InFlight \cup {None}
          /\ None \in Results \cup {None} /\ <<>> \in Seq(Results)
      OBVIOUS
    <3> QED BY <1>2, <1>3, <3>1, WorkerUpdates
  <2>3. /\ v.endpoint = worker.endpoint /\ v.control = worker.control
        /\ v.alive = worker.alive /\ v.held = worker.held
        /\ v.results = worker.results
        /\ v.desired = worker.desired /\ v.request = worker.request
    BY <1>2 DEF WorkerStates
  <2> HIDE DEF v
  <2>4. Newest(v) BY <1>1, <1>2, <2>3 DEF Newest, Sound
  <2>5. ResultsFromHere(v) BY <1>1, <1>2, <2>3 DEF ResultsFromHere, Sound
  <2>6. Worked(worker, v) BY <1>2, <2>2, <2>3, <2>4, <2>5 DEF Worked, Sound
  <2> QED BY <1>1, <2>1, <2>6, WorkedKeeps DEF Interrupt
<1> QED BY <1>4, <1>5

LEMMA DeliverResultKeeps ==
    ASSUME PaneInv, DeliverResult
    PROVE  PaneInv'
<1> DEFINE rs == Append(worker.results, worker.held)
           dl == IF worker.desired.active THEN TRUE ELSE worker.deadline
           v == [worker EXCEPT !.results = rs, !.held = None, !.deadline = dl]
<1>1. worker # None /\ worker.held # None /\ Len(worker.results) < ResultCapacity
  BY DEF DeliverResult, Working, Room
<1>2. Sound(worker) /\ worker \in WorkerStates BY <1>1, WorkerSound DEF Sound
<1>3. /\ worker.held \in Results /\ worker.results \in Seq(Results)
      /\ worker.deadline \in BOOLEAN /\ worker.control \in DesiredStates
  BY <1>1, <1>2, WorkerFields
<1>4. /\ rs \in Seq(Results) /\ Len(rs) = Len(worker.results) + 1
      /\ \A i \in 1 .. Len(rs) :
            rs[i] = IF i = Len(worker.results) + 1 THEN worker.held
                                                   ELSE worker.results[i]
      /\ Len(worker.results) \in Nat
  BY <1>3, AppendProperties, LenProperties
<1>5. dl \in BOOLEAN BY <1>3, Zenon
<1>6. worker' = v BY DEF DeliverResult
<1> HIDE DEF rs, dl
<1>7. v \in WorkerStates
  <2>1. /\ TRUE \in BOOLEAN /\ None \in InFlight \cup {None}
        /\ None \in Results \cup {None}
    OBVIOUS
  <2> QED BY <1>2, <1>3, <1>4, <1>5, <2>1, WorkerUpdates
<1>8. /\ v.endpoint = worker.endpoint /\ v.control = worker.control
      /\ v.alive = worker.alive /\ v.held = None /\ v.results = rs
      /\ v.desired = worker.desired /\ v.request = worker.request
  BY <1>2 DEF WorkerStates
<1> HIDE DEF v
<1>9. Newest(v) BY <1>1, <1>2, <1>8 DEF Newest, Sound
<1>10. ResultsFromHere(v)
  <2>1. ASSUME NEW i \in 1 .. Len(rs) PROVE rs[i].pool = worker.endpoint
    <3>1. CASE i = Len(worker.results) + 1
      BY <1>1, <1>2, <1>4, <3>1 DEF ResultsFromHere, Sound
    <3>2. CASE i # Len(worker.results) + 1
      <4>1. i \in 1 .. Len(worker.results) BY <1>4, <3>2
      <4> QED BY <1>1, <1>2, <1>4, <3>2, <4>1 DEF ResultsFromHere, Sound
    <3> QED BY <3>1, <3>2
  <2> QED BY <1>8, <2>1 DEF ResultsFromHere
<1>11. Len(rs) <= ResultCapacity BY <1>1, <1>4, ConstantsAssumption
<1>12. Worked(worker, v) BY <1>7, <1>8, <1>9, <1>10, <1>11 DEF Worked
<1> QED BY <1>1, <1>6, <1>12, WorkedKeeps DEF DeliverResult

LEMMA WorkerDiesKeeps ==
    ASSUME PaneInv, WorkerDies
    PROVE  PaneInv'
<1> DEFINE v == [worker EXCEPT !.alive = FALSE, !.request = None, !.held = None]
<1>1. worker # None BY DEF WorkerDies, Working
<1>2. Sound(worker) /\ worker \in WorkerStates BY <1>1, WorkerSound DEF Sound
<1>3. v \in WorkerStates
  <2>1. /\ FALSE \in BOOLEAN /\ None \in InFlight \cup {None}
        /\ None \in Results \cup {None} /\ <<>> \in Seq(Results)
        /\ Inactive \in DesiredStates
    BY InactiveType
  <2> QED BY <1>2, <2>1, WorkerUpdates
<1>4. /\ v.endpoint = worker.endpoint /\ v.control = worker.control
      /\ v.alive = FALSE /\ v.held = None /\ v.results = worker.results
      /\ v.desired = worker.desired /\ v.request = None
  BY <1>2 DEF WorkerStates
<1>5. worker' = v BY DEF WorkerDies
<1> HIDE DEF v
<1>6. Newest(v) BY <1>4 DEF Newest
<1>7. ResultsFromHere(v) BY <1>1, <1>2, <1>4 DEF ResultsFromHere, Sound
<1>8. Worked(worker, v) BY <1>2, <1>3, <1>4, <1>6, <1>7 DEF Worked, Sound
<1> QED BY <1>1, <1>5, <1>8, WorkedKeeps DEF WorkerDies

-----------------------------------------------------------------------------
(* The steps of the engine.                                                  *)

(* The types of what only the engine and its worker touch, and of the rest.  *)
PaneTypes ==
    /\ pool \in PoolStates \cup {None} /\ doc \in PoolStates \cup {None}
    /\ converged \in DesiredStates \cup {None}
    /\ worker \in WorkerStates \cup {None}
    /\ worker # None => Len(worker.results) <= ResultCapacity
RestTypes ==
    /\ DOMAIN intents \subseteq Subscribers /\ WellFormed(intents)
    /\ conn \in [Subscribers -> {"away", "attached", "gone"}]
    /\ requests \in Seq(Requests) /\ Len(requests) <= RequestCapacity
    /\ sent \in 0 .. MaxRequests
    /\ handling \in BOOLEAN \cup {None}
    /\ engine \in {"running", "failed"}

PaneAgrees ==
    /\ PaneTypes /\ WorkerOfPane /\ ResultsFromHere(worker) /\ Newest(worker)
    /\ Driven /\ SummaryOfWindow /\ DocumentCurrent

LEMMA InvSplits == PaneInv <=> PaneAgrees /\ RestTypes
BY DEF PaneInv, PaneAgrees, PaneTypes, RestTypes, TypeOK, WellFormed

(* Data that is new in the pane q is of the pool q is configured with.       *)
DataFrom(p, q) ==
    q # None =>
        /\ (q.summary # None /\ (p = None \/ q.summary # p.summary))
              => q.summary.pool = q.endpoint
        /\ (q.health # None /\ (p = None \/ q.health # p.health))
              => q.health = q.endpoint

LEMMA ApplyResultKeeps ==
    ASSUME PaneAgrees, ApplyResult
    PROVE  PaneAgrees' /\ DataFrom(pool, pool')
<1> DEFINE r == Head(worker.results)
           rs == Tail(worker.results)
           v == [worker EXCEPT !.results = rs]
<1>1. worker # None /\ worker.results # <<>> /\ worker' = v BY DEF ApplyResult
<1>2. worker \in WorkerStates /\ pool \in PoolStates
      /\ worker.endpoint = pool.endpoint /\ Len(worker.results) <= ResultCapacity
  BY <1>1 DEF PaneAgrees, PaneTypes, WorkerOfPane
<1>3. worker.results \in Seq(Results) /\ worker.control \in DesiredStates
      /\ worker.alive \in BOOLEAN
  BY <1>2, WorkerFields
<1>4. /\ rs \in Seq(Results) /\ Len(rs) = Len(worker.results) - 1
      /\ \A i \in 1 .. Len(rs) : rs[i] = worker.results[i + 1]
      /\ Len(worker.results) \in Nat /\ r \in Results /\ r = worker.results[1]
      /\ 1 \in 1 .. Len(worker.results)
  BY <1>1, <1>3, HeadTailProperties, LenProperties, EmptySeq
<1>5. r.pool = pool.endpoint
  BY <1>1, <1>2, <1>4 DEF PaneAgrees, ResultsFromHere
<1>6. \A i \in 1 .. Len(rs) : rs[i].pool = worker.endpoint
  <2> TAKE i \in 1 .. Len(rs)
  <2>1. i + 1 \in 1 .. Len(worker.results) BY <1>4
  <2> QED BY <1>1, <1>4, <2>1 DEF PaneAgrees, ResultsFromHere
<1>7. IF Accepts(pool, r) THEN pool' = Applied(pool, r) /\ doc' = pool'
                          ELSE UNCHANGED <<pool, doc>>
  BY DEF ApplyResult
<1> HIDE DEF r, rs
<1>8. v \in WorkerStates
  <2>1. /\ TRUE \in BOOLEAN /\ None \in InFlight \cup {None}
        /\ None \in Results \cup {None}
    OBVIOUS
  <2> QED BY <1>2, <1>3, <1>4, <2>1, WorkerUpdates
<1>9. /\ v.endpoint = worker.endpoint /\ v.control = worker.control
      /\ v.alive = worker.alive /\ v.held = worker.held /\ v.results = rs
      /\ v.desired = worker.desired /\ v.request = worker.request
  BY <1>2 DEF WorkerStates
<1>10. v # None /\ pool # None BY <1>2, <1>8, NoneAssumption
<1> HIDE DEF v
<1>11. Newest(v) /\ ResultsFromHere(v)
  BY <1>1, <1>6, <1>9 DEF PaneAgrees, Newest, ResultsFromHere
<1>12. Len(v.results) <= ResultCapacity
  BY <1>2, <1>4, <1>9, ConstantsAssumption
<1>13. /\ pool' \in PoolStates /\ pool'.endpoint = pool.endpoint
       /\ pool'.period = pool.period /\ pool'.generation = pool.generation
       /\ pool'.summary # None => pool'.summary.period = pool'.period
       /\ DataFrom(pool, pool') /\ doc' = pool'
  <2>1. CASE ~Accepts(pool, r)
    BY <1>2, <1>7, <1>10, <2>1
       DEF PaneAgrees, SummaryOfWindow, DocumentCurrent, DataFrom
  <2>2. CASE Accepts(pool, r)
    <3> DEFINE q == Applied(pool, r)
    <3>1. /\ q \in PoolStates /\ q.endpoint = pool.endpoint
          /\ q.period = pool.period /\ q.generation = pool.generation
          /\ \/ q.summary = pool.summary
             \/ q.summary = [pool |-> r.pool, period |-> r.period]
          /\ q.health = pool.health \/ q.health = r.pool
      BY <1>2, <1>4, AppliedEffect
    <3>2. pool' = q /\ doc' = q BY <1>7, <2>2
    <3> HIDE DEF q
    <3>3. r.period = pool.period BY <2>2 DEF Accepts
    <3>4. q.summary # None => q.summary.period = q.period
      BY <1>10, <3>1, <3>3 DEF PaneAgrees, SummaryOfWindow
    <3>5. DataFrom(pool, q) BY <1>5, <1>10, <3>1 DEF DataFrom
    <3> QED BY <3>1, <3>2, <3>4, <3>5
  <2> QED BY <2>1, <2>2
<1>14. pool' # None /\ converged' = converged
  BY <1>13, NoneAssumption DEF ApplyResult
<1>15. PaneTypes' BY <1>1, <1>8, <1>12, <1>13, <1>14 DEF PaneAgrees, PaneTypes
<1>16. WorkerOfPane' BY <1>1, <1>2, <1>9, <1>10, <1>13, <1>14 DEF WorkerOfPane
<1>17. Driven' BY <1>1, <1>9, <1>10, <1>13, <1>14 DEF PaneAgrees, Driven
<1>18. SummaryOfWindow' /\ DocumentCurrent'
  BY <1>13 DEF SummaryOfWindow, DocumentCurrent
<1>19. Newest(worker)' /\ ResultsFromHere(worker)'
  BY <1>1, <1>11 DEF Newest, ResultsFromHere
<1> QED BY <1>13, <1>15, <1>16, <1>17, <1>18, <1>19 DEF PaneAgrees

LEMMA ReduceIntentsKeeps ==
    ASSUME PaneAgrees, WellFormed(intents), ReduceIntents
    PROVE  PaneAgrees' /\ DataFrom(pool, pool')
<1> DEFINE d == Desired(pool, intents)
           m == Windowed(pool, d)
           c == Desired(m, intents)
           v == [worker EXCEPT !.control = c, !.unseen = TRUE]
           u == [m EXCEPT !.state = "unavailable"]
<1>1. /\ worker # None /\ pool # None /\ converged' = c
      /\ pool' = IF worker.alive THEN m ELSE u
      /\ worker' = IF worker.alive THEN v ELSE worker
      /\ doc' = IF ReducedVisibly(pool, m) \/ ~worker.alive THEN pool' ELSE doc
  BY DEF ReduceIntents
<1>2. worker \in WorkerStates /\ pool \in PoolStates /\ doc = pool
      /\ worker.endpoint = pool.endpoint /\ Len(worker.results) <= ResultCapacity
  BY <1>1 DEF PaneAgrees, PaneTypes, WorkerOfPane, DocumentCurrent
<1>3. /\ d \in DesiredStates /\ d.period = ConvergedPeriod(intents, pool.period)
  BY <1>2, DesiredType
<1>4. Shifted(pool, m, d.period) BY <1>2, <1>3, WindowedEffect
<1> HIDE DEF d, m
<1>5. /\ m \in PoolStates /\ m.endpoint = pool.endpoint /\ m.period = d.period
      /\ m.summary = None \/ (m.summary = pool.summary /\ pool.period = d.period)
      /\ m.health = pool.health /\ m.generation \in Nat
  BY <1>4, PoolFields DEF Shifted
<1>6. /\ c \in DesiredStates /\ c.generation = m.generation
      /\ c.period = ConvergedPeriod(intents, m.period)
  BY <1>5, DesiredType
<1>7. c.period = m.period
  BY <1>3, <1>5, <1>6 DEF ConvergedPeriod
<1> HIDE DEF c
<1>8. /\ worker.alive \in BOOLEAN /\ worker.results \in Seq(Results)
  BY <1>2, WorkerFields
<1>9. /\ u \in PoolStates /\ u.endpoint = m.endpoint /\ u.period = m.period
      /\ u.summary = m.summary /\ u.health = m.health
      /\ u.generation = m.generation
  <2>1. "unavailable" \in RefreshStates /\ m.endpoint \in Pools /\ m.period \in Periods
        /\ None \in Shown \cup {None} /\ FALSE \in BOOLEAN
    BY <1>5, PoolFields DEF RefreshStates
  <2>2. u \in PoolStates BY <1>5, <2>1, PoolUpdates
  <2>3. /\ u.endpoint = m.endpoint /\ u.period = m.period
        /\ u.summary = m.summary /\ u.health = m.health
        /\ u.generation = m.generation
    BY <1>5 DEF PoolStates
  <2> QED BY <2>2, <2>3
<1>10. v \in WorkerStates
  <2>1. /\ TRUE \in BOOLEAN /\ None \in InFlight \cup {None}
        /\ None \in Results \cup {None}
    OBVIOUS
  <2> QED BY <1>2, <1>6, <1>8, <2>1, WorkerUpdates
<1>11. /\ v.endpoint = worker.endpoint /\ v.control = c
       /\ v.alive = worker.alive /\ v.held = worker.held
       /\ v.results = worker.results
       /\ v.desired = worker.desired /\ v.request = worker.request
  BY <1>2 DEF WorkerStates
<1> HIDE DEF u, v
<1>12. v # None /\ Newest(v) /\ ResultsFromHere(v)
  BY <1>1, <1>10, <1>11, NoneAssumption DEF PaneAgrees, Newest, ResultsFromHere
<1>13. /\ worker' \in WorkerStates /\ worker' # None
       /\ worker'.endpoint = pool.endpoint /\ worker'.results = worker.results
       /\ worker'.alive => worker'.control = c
       /\ Newest(worker') /\ ResultsFromHere(worker')
  <2>1. CASE worker.alive BY <1>1, <1>2, <1>10, <1>11, <1>12, <2>1
  <2>2. CASE ~worker.alive BY <1>1, <1>2, <2>2 DEF PaneAgrees
  <2> QED BY <2>1, <2>2
<1>14. /\ pool' \in PoolStates /\ pool'.endpoint = pool.endpoint
       /\ pool'.period = c.period /\ pool'.generation = c.generation
       /\ pool'.summary = None \/ (pool'.summary = pool.summary /\ pool.period = c.period)
       /\ pool'.health = pool.health
  <2>1. CASE worker.alive BY <1>1, <1>5, <1>6, <1>7, <2>1
  <2>2. CASE ~worker.alive BY <1>1, <1>5, <1>6, <1>7, <1>9, <2>2
  <2> QED BY <2>1, <2>2
<1>15. doc' = pool' BY <1>1, <1>2 DEF ReducedVisibly
<1>16. pool' # None /\ c.generation \in Nat
  BY <1>14, <1>6, NoneAssumption, DesiredFields
<1>17. PaneTypes' BY <1>1, <1>2, <1>6, <1>13, <1>14, <1>15 DEF PaneTypes
<1>18. WorkerOfPane' BY <1>13, <1>14, <1>16 DEF WorkerOfPane
<1>19. Driven' BY <1>1, <1>13, <1>14, <1>16 DEF Driven
<1>20. SummaryOfWindow' BY <1>1, <1>14 DEF PaneAgrees, SummaryOfWindow
<1>21. Newest(worker)' /\ ResultsFromHere(worker)'
  BY <1>13 DEF Newest, ResultsFromHere
<1>22. DataFrom(pool, pool') BY <1>1, <1>14 DEF DataFrom
<1> QED BY <1>15, <1>17, <1>18, <1>19, <1>20, <1>21, <1>22
        DEF PaneAgrees, DocumentCurrent

(* After every request the worker follows the pane.                          *)
LEMMA AfterRequestKeeps ==
    ASSUME PaneAgrees, NEW p \in PoolStates \cup {None}, AfterRequest(p),
           p # None /\ p.summary # None => p.summary.period = p.period,
           p # None /\ pool # None =>
              /\ p.generation >= pool.generation
              /\ p.generation = pool.generation => p.period = pool.period
    PROVE  PaneAgrees'
<1>1. /\ pool' = p /\ doc' = p /\ worker' = Synced(worker, p)
      /\ converged' = IF worker' = worker THEN converged ELSE None
  BY DEF AfterRequest
<1>2. PaneTypes BY DEF PaneAgrees
<1>3. converged' \in DesiredStates \cup {None} BY <1>1, <1>2 DEF PaneTypes
<1>4. SummaryOfWindow' /\ DocumentCurrent'
  BY <1>1 DEF SummaryOfWindow, DocumentCurrent
<1>5. CASE p = None
  <2>1. worker' = None BY <1>1, <1>5 DEF Synced
  <2> QED BY <1>1, <1>3, <1>4, <1>5, <2>1
          DEF PaneAgrees, PaneTypes, WorkerOfPane, Newest, ResultsFromHere, Driven
<1>6. CASE p # None
  <2>1. p \in PoolStates /\ p.endpoint \in Pools BY <1>6, PoolFields
  <2>2. CASE worker # None /\ worker.endpoint = p.endpoint
    <3>1. worker' = worker /\ converged' = converged BY <1>1, <1>6, <2>2 DEF Synced
    <3>2. pool # None /\ pool \in PoolStates
      BY <1>2, <2>2 DEF PaneAgrees, WorkerOfPane, PaneTypes
    <3>3. PaneTypes' BY <1>1, <1>2, <1>3, <3>1 DEF PaneTypes
    <3>4. WorkerOfPane' BY <1>1, <1>6, <2>2, <3>1 DEF WorkerOfPane
    <3>5. Driven'
      <4>1. CASE converged = None BY <3>1, <4>1 DEF Driven
      <4>2. CASE converged # None
        <5>1. converged.generation \in Nat /\ pool.generation \in Nat
              /\ p.generation \in Nat
          BY <1>2, <2>1, <3>2, <4>2, DesiredFields, PoolFields DEF PaneTypes
        <5> QED BY <1>1, <1>6, <3>1, <3>2, <4>2, <5>1 DEF PaneAgrees, Driven
      <4> QED BY <4>1, <4>2
    <3>6. Newest(worker)' /\ ResultsFromHere(worker)'
      BY <3>1 DEF PaneAgrees, Newest, ResultsFromHere
    <3> QED BY <1>4, <3>3, <3>4, <3>5, <3>6 DEF PaneAgrees
  <2>3. CASE ~(worker # None /\ worker.endpoint = p.endpoint)
    <3> DEFINE v == Spawned(p.endpoint)
    <3>1. /\ v \in WorkerStates /\ v.endpoint = p.endpoint
          /\ v # None /\ Len(v.results) = 0
          /\ Newest(v) /\ ResultsFromHere(v)
      BY <2>1, SpawnedType
    <3>2. worker' = v BY <1>1, <1>6, <2>3 DEF Synced
    <3> HIDE DEF v
    <3>3. converged' = None BY <1>1, <2>3, <3>1, <3>2
    <3>4. PaneTypes'
      BY <1>1, <3>1, <3>2, <3>3, ConstantsAssumption DEF PaneTypes
    <3>5. WorkerOfPane' BY <1>1, <1>6, <3>1, <3>2 DEF WorkerOfPane
    <3>6. Driven' BY <3>3 DEF Driven
    <3>7. Newest(worker)' /\ ResultsFromHere(worker)'
      BY <3>1, <3>2 DEF Newest, ResultsFromHere
    <3> QED BY <1>4, <3>4, <3>5, <3>6, <3>7 DEF PaneAgrees
  <2> QED BY <2>2, <2>3
<1> QED BY <1>5, <1>6

(* The pane is as it was, whatever else moved.                               *)
LEMMA PaneStays ==
    ASSUME PaneAgrees, UNCHANGED <<pool, doc, converged, worker>>
    PROVE  PaneAgrees' /\ DataFrom(pool, pool')
BY DEF PaneAgrees, PaneTypes, WorkerOfPane, ResultsFromHere, Newest, Driven,
       SummaryOfWindow, DocumentCurrent, DataFrom

LEMMA TailOfRequests ==
    ASSUME requests \in Seq(Requests), Len(requests) <= RequestCapacity,
           requests # <<>>
    PROVE  /\ Tail(requests) \in Seq(Requests)
           /\ Len(Tail(requests)) <= RequestCapacity
           /\ Head(requests) \in Requests
<1>1. /\ Tail(requests) \in Seq(Requests) /\ Head(requests) \in Requests
      /\ Len(Tail(requests)) = Len(requests) - 1 /\ Len(requests) \in Nat
  BY HeadTailProperties, LenProperties, EmptySeq
<1> QED BY <1>1, ConstantsAssumption

LEMMA HandleReloadKeeps ==
    ASSUME PaneInv, HandleReload
    PROVE  PaneInv' /\ DataFrom(pool, pool')
<1>1. PaneAgrees /\ RestTypes BY InvSplits
<1>2. pool \in PoolStates \cup {None} BY <1>1 DEF PaneAgrees, PaneTypes
<1>3. pool # None => pool.generation \in Nat /\ pool.period \in Periods
  BY <1>2, PoolFields
<1>4. pool # None /\ pool.summary # None => pool.summary.period = pool.period
  BY <1>1 DEF PaneAgrees, SummaryOfWindow
<1>5. RestTypes'
  BY <1>1, TailOfRequests DEF RestTypes, HandleReload, Head1, WellFormed
<1>6. PaneAgrees' /\ DataFrom(pool, pool')
  <2>1. CASE \E e \in Pools : AfterRequest(Adopt(pool, e))
    <3>1. PICK e \in Pools : AfterRequest(Adopt(pool, e)) BY <2>1
    <3> DEFINE q == Adopt(pool, e)
    <3>2. /\ q \in PoolStates /\ q.endpoint = e
          /\ pool = None => q.summary = None /\ q.health = None
          /\ pool # None => /\ q.period = pool.period
                            /\ q.generation = pool.generation
                            /\ q.summary = pool.summary /\ q.health = pool.health
      BY <1>2, AdoptEffect
    <3>3. AfterRequest(q) BY <3>1
    <3> HIDE DEF q
    <3>4. pool' = q BY <3>3 DEF AfterRequest
    <3>5. DataFrom(pool, q) BY <3>2 DEF DataFrom
    <3>6. PaneAgrees'
      BY <1>1, <1>3, <1>4, <3>2, <3>3, AfterRequestKeeps
    <3> QED BY <3>4, <3>5, <3>6
  <2>2. CASE AfterRequest(None)
    BY <1>1, <2>2, AfterRequestKeeps DEF DataFrom, AfterRequest
  <2>3. CASE AfterRequest(pool)
    <3>1. pool' = pool BY <2>3 DEF AfterRequest
    <3>2. PaneAgrees' BY <1>1, <1>2, <1>3, <1>4, <2>3, AfterRequestKeeps
    <3> QED BY <3>1, <3>2 DEF DataFrom
  <2> QED BY <2>1, <2>2, <2>3 DEF HandleReload
<1> QED BY <1>5, <1>6, InvSplits, PTL

LEMMA SetIntentType ==
    ASSUME NEW is, DOMAIN is \subseteq Subscribers, WellFormed(is),
           NEW s \in Subscribers, NEW a \in BOOLEAN, NEW t \in Periods
    PROVE  /\ DOMAIN SetIntent(is, s, a, t) \subseteq Subscribers
           /\ WellFormed(SetIntent(is, s, a, t))
<1>1. [active |-> a, period |-> t] \in Intents BY DEF Intents
<1> QED BY <1>1 DEF SetIntent, WellFormed

LEMMA RemoveIntentType ==
    ASSUME NEW is, DOMAIN is \subseteq Subscribers, WellFormed(is),
           NEW s \in Subscribers
    PROVE  /\ DOMAIN RemoveIntent(is, s) \subseteq Subscribers
           /\ WellFormed(RemoveIntent(is, s))
BY DEF RemoveIntent, WellFormed

LEMMA HandleIntentKeeps ==
    ASSUME PaneInv, HandleIntent
    PROVE  PaneInv' /\ DataFrom(pool, pool')
<1> DEFINE s == Head(requests).from
           ask == Head(requests).ask
<1>1. PaneAgrees /\ RestTypes BY InvSplits
<1>2. Head(requests) \in Requests /\ Head(requests).kind = "intent"
  BY <1>1, TailOfRequests DEF RestTypes, HandleIntent, Head1
<1>3. s \in Subscribers /\ ask \in Asks BY <1>2 DEF Requests
<1>4. ask.active \in BOOLEAN /\ ask.period \in Periods
  BY <1>3, ConstantsAssumption, Zenon
<1>5. /\ intents' = SetIntent(intents, s, ask.active, ask.period)
      /\ handling' = (ask.refresh \/ s \notin DOMAIN intents
                         \/ intents[s] # intents'[s])
      /\ requests' = Tail(requests)
      /\ UNCHANGED <<pool, doc, conn, sent, converged, worker, engine>>
  BY DEF HandleIntent
<1>6. requests' \in Seq(Requests) /\ Len(requests') <= RequestCapacity
  BY <1>1, <1>5, TailOfRequests DEF RestTypes, HandleIntent, Head1
<1> HIDE DEF s, ask
<1>7. handling' \in BOOLEAN BY <1>5, Zenon
<1>8. DOMAIN intents' \subseteq Subscribers /\ WellFormed(intents')
  BY <1>1, <1>3, <1>4, <1>5, SetIntentType DEF RestTypes
<1>9. WellFormed(intents)' BY <1>8 DEF WellFormed
<1>10. RestTypes' BY <1>1, <1>5, <1>6, <1>7, <1>8, <1>9 DEF RestTypes
<1>11. PaneAgrees' /\ DataFrom(pool, pool') BY <1>1, <1>5, PaneStays
<1> QED BY <1>10, <1>11, InvSplits, PTL

LEMMA FinishIntentKeeps ==
    ASSUME PaneInv, FinishIntent
    PROVE  PaneInv' /\ DataFrom(pool, pool')
<1>1. PaneAgrees /\ RestTypes BY InvSplits
<1>2. RestTypes' BY <1>1 DEF RestTypes, FinishIntent, WellFormed
<1>3. pool \in PoolStates \cup {None} BY <1>1 DEF PaneAgrees, PaneTypes
<1>4. PaneAgrees' /\ DataFrom(pool, pool')
  <2>1. CASE pool = None
    <3>1. AfterRequest(None) BY <2>1 DEF FinishIntent
    <3> QED BY <1>1, <3>1, AfterRequestKeeps DEF DataFrom, AfterRequest
  <2>2. CASE pool # None
    <3> DEFINE d == Desired(pool, intents)
               q == Refreshed(pool, d, handling)
    <3>1. pool \in PoolStates BY <1>3, <2>2
    <3>2. d \in DesiredStates BY <1>1, <3>1, DesiredType DEF RestTypes
    <3>3. handling \in BOOLEAN BY <1>1 DEF RestTypes, FinishIntent
    <3>4. AfterRequest(q) BY <2>2 DEF FinishIntent, Refreshed
    <3> HIDE DEF d
    <3>5. Shifted(pool, q, d.period) BY <3>1, <3>2, <3>3, RefreshedEffect
    <3> HIDE DEF q
    <3>6. /\ q \in PoolStates /\ q.generation \in Nat /\ pool.generation \in Nat
      BY <3>1, <3>5, PoolFields DEF Shifted
    <3>7. /\ q.summary # None => q.summary.period = q.period
          /\ q.generation >= pool.generation
          /\ q.generation = pool.generation => q.period = pool.period
      BY <1>1, <2>2, <3>5 DEF Shifted, PaneAgrees, SummaryOfWindow
    <3>8. PaneAgrees' BY <1>1, <3>4, <3>6, <3>7, AfterRequestKeeps
    <3>9. pool' = q BY <3>4 DEF AfterRequest
    <3>10. DataFrom(pool, q) BY <2>2, <3>5 DEF DataFrom, Shifted
    <3> QED BY <3>8, <3>9, <3>10
  <2> QED BY <2>1, <2>2
<1> QED BY <1>2, <1>4, InvSplits, PTL

-----------------------------------------------------------------------------
(* The connection tasks.                                                     *)

LEMMA ConnectionsKeep ==
    ASSUME PaneInv, NEW s \in Subscribers, Handshake(s) \/ Send(s) \/ Disconnect(s)
    PROVE  PaneInv' /\ DataFrom(pool, pool')
<1>1. PaneAgrees /\ RestTypes BY InvSplits
<1>2. UNCHANGED <<pool, doc, converged, worker, handling, engine>>
  BY DEF Handshake, Send, Disconnect
<1>3. PaneAgrees' /\ DataFrom(pool, pool') BY <1>1, <1>2, PaneStays
<1> DEFINE C == {"away", "attached", "gone"}
<1>4. conn \in [Subscribers -> C] /\ "attached" \in C /\ "gone" \in C
  BY <1>1 DEF RestTypes
<1> HIDE DEF C
<1>5. DOMAIN intents \subseteq Subscribers /\ WellFormed(intents)
  BY <1>1 DEF RestTypes
<1>6. requests \in Seq(Requests) /\ Len(requests) <= RequestCapacity
      /\ sent \in 0 .. MaxRequests
  BY <1>1 DEF RestTypes
<1>7. /\ conn' \in [Subscribers -> C]
      /\ DOMAIN intents' \subseteq Subscribers /\ WellFormed(intents')
      /\ requests' \in Seq(Requests) /\ Len(requests') <= RequestCapacity
      /\ sent' \in 0 .. MaxRequests
  <2>1. CASE Handshake(s)
    <3>1. Hour \in Periods /\ FALSE \in BOOLEAN BY ConstantsAssumption
    <3>2. DOMAIN intents' \subseteq Subscribers /\ WellFormed(intents')
      BY <1>5, <2>1, <3>1, SetIntentType DEF Handshake
    <3>3. conn' \in [Subscribers -> C] BY <1>4, <2>1 DEF Handshake
    <3> QED BY <1>6, <2>1, <3>2, <3>3 DEF Handshake
  <2>2. CASE Disconnect(s)
    <3>1. DOMAIN intents' \subseteq Subscribers /\ WellFormed(intents')
      BY <1>5, <2>2, RemoveIntentType DEF Disconnect
    <3>2. conn' \in [Subscribers -> C] BY <1>4, <2>2 DEF Disconnect
    <3> QED BY <1>6, <2>2, <3>1, <3>2 DEF Disconnect
  <2>3. CASE Send(s)
    <3>1. sent' \in 0 .. MaxRequests
      BY <1>6, <2>3, ConstantsAssumption DEF Send
    <3>2. CASE Len(requests) < RequestCapacity
      <4>1. PICK r \in Requests : requests' = Append(requests, r)
        BY <2>3, <3>2 DEF Send
      <4>2. requests' \in Seq(Requests) /\ Len(requests') = Len(requests) + 1
            /\ Len(requests) \in Nat
        BY <1>6, <4>1, AppendProperties, LenProperties
      <4>3. Len(requests') <= RequestCapacity
        BY <3>2, <4>2, ConstantsAssumption
      <4>4. UNCHANGED <<conn, intents>> BY <2>3, <3>2 DEF Send
      <4> QED BY <1>4, <1>5, <3>1, <4>2, <4>3, <4>4 DEF WellFormed
    <3>3. CASE ~(Len(requests) < RequestCapacity)
      <4>1. /\ conn' = [conn EXCEPT ![s] = "gone"]
            /\ intents' = RemoveIntent(intents, s)
            /\ UNCHANGED requests
        BY <2>3, <3>3 DEF Send
      <4>2. DOMAIN intents' \subseteq Subscribers /\ WellFormed(intents')
        BY <1>5, <4>1, RemoveIntentType
      <4>3. conn' \in [Subscribers -> C] BY <1>4, <4>1
      <4> QED BY <1>6, <3>1, <4>1, <4>2, <4>3
    <3> QED BY <3>2, <3>3
  <2> QED BY <2>1, <2>2, <2>3
<1>8. WellFormed(intents)' BY <1>7 DEF WellFormed
<1>9. RestTypes' BY <1>1, <1>2, <1>7, <1>8 DEF RestTypes, C
<1> QED BY <1>3, <1>9, InvSplits, PTL

-----------------------------------------------------------------------------
LEMMA InitAgrees == Init => PaneInv
<1> SUFFICES ASSUME Init PROVE PaneInv
  OBVIOUS
<1>1. RestTypes
  BY ConstantsAssumption DEF Init, RestTypes, WellFormed
<1>2. doc = pool /\ worker = Synced(None, pool) /\ converged = None BY DEF Init
<1>3. CASE pool = None
  <2>1. worker = None BY <1>2, <1>3 DEF Synced
  <2>2. PaneAgrees
    BY <1>2, <1>3, <2>1
       DEF PaneAgrees, PaneTypes, WorkerOfPane, Newest, ResultsFromHere, Driven,
           SummaryOfWindow, DocumentCurrent
  <2> QED BY <1>1, <2>2, InvSplits
<1>4. ASSUME NEW e \in Pools, pool = NewPool(e) PROVE PaneInv
  <2>1. /\ pool \in PoolStates /\ pool.endpoint = e /\ pool.summary = None
    BY <1>4, NewPoolType
  <2>2. pool # None BY <2>1, NoneAssumption
  <2>3. worker = Spawned(e) BY <1>2, <2>1, <2>2 DEF Synced
  <2>4. /\ worker \in WorkerStates /\ worker.endpoint = e
        /\ worker # None /\ Len(worker.results) = 0
        /\ Newest(worker) /\ ResultsFromHere(worker)
    BY <2>3, SpawnedType
  <2>5. PaneTypes BY <1>2, <2>1, <2>4, ConstantsAssumption DEF PaneTypes
  <2>6. PaneAgrees
    BY <1>2, <2>1, <2>2, <2>4, <2>5
       DEF PaneAgrees, WorkerOfPane, Driven, SummaryOfWindow, DocumentCurrent
  <2> QED BY <1>1, <2>6, InvSplits
<1> QED BY <1>3, <1>4 DEF Init

LEMMA NextAgrees ==
    ASSUME PaneInv, [Next]_vars
    PROVE  PaneInv' /\ (pool' = pool \/ DataFrom(pool, pool'))
<1>1. CASE WorkerStep \/ RequestPanics \/ WorkerDies
  <2>1. pool' = pool
    BY <1>1 DEF WorkerStep, ObserveControl, PassiveRefresh, RequestEnds, Interrupt,
                DeliverResult, RequestPanics, WorkerDies
  <2>2. PaneInv'
    BY <1>1, ObserveControlKeeps, PassiveRefreshKeeps, RequestEndsKeeps,
       InterruptKeeps, DeliverResultKeeps, RequestPanicsKeeps, WorkerDiesKeeps
       DEF WorkerStep
  <2> QED BY <2>1, <2>2
<1>2. CASE ApplyResult
  <2>1. PaneAgrees /\ RestTypes BY InvSplits
  <2>2. RestTypes' BY <1>2, <2>1 DEF RestTypes, ApplyResult, WellFormed
  <2> QED BY <1>2, <2>1, <2>2, ApplyResultKeeps, InvSplits, PTL
<1>3. CASE ReduceIntents
  <2>1. PaneAgrees /\ RestTypes BY InvSplits
  <2>2. RestTypes' BY <1>3, <2>1 DEF RestTypes, ReduceIntents, WellFormed
  <2>3. WellFormed(intents) BY <2>1 DEF RestTypes
  <2> QED BY <1>3, <2>1, <2>2, <2>3, ReduceIntentsKeeps, InvSplits, PTL
<1>4. CASE ObserveWorkerEnd
  <2>1. PaneAgrees /\ RestTypes BY InvSplits
  <2>2. RestTypes'
    BY <1>4, <2>1 DEF RestTypes, ObserveWorkerEnd, WorkerEnded, WellFormed
  <2>3. UNCHANGED <<pool, doc, converged, worker>> BY <1>4 DEF ObserveWorkerEnd
  <2> QED BY <2>1, <2>2, <2>3, PaneStays, InvSplits, PTL
<1>5. CASE HandleReload BY <1>5, HandleReloadKeeps
<1>6. CASE HandleIntent BY <1>6, HandleIntentKeeps
<1>7. CASE FinishIntent BY <1>7, FinishIntentKeeps
<1>8. CASE Connections BY <1>8, ConnectionsKeep DEF Connections
<1>9. CASE UNCHANGED vars
  <2>1. PaneAgrees /\ RestTypes BY InvSplits
  <2>2. RestTypes' BY <1>9, <2>1 DEF RestTypes, vars, WellFormed
  <2>3. UNCHANGED <<pool, doc, converged, worker>> BY <1>9 DEF vars
  <2> QED BY <2>1, <2>2, <2>3, PaneStays, InvSplits, PTL
<1> QED BY <1>1, <1>2, <1>3, <1>4, <1>5, <1>6, <1>7, <1>8, <1>9
        DEF Next, EngineStep

(* Driven by the newest intents, the pane shows the window it is driven to.   *)
LEMMA DrivenIsShown == PaneInv => DrivenWindowIsShown
<1> SUFFICES ASSUME PaneInv, pool # None, converged # None,
                    converged = Desired(pool, intents)
             PROVE  /\ pool.period = converged.period
                    /\ worker.alive => worker.control = converged
  BY DEF DrivenWindowIsShown
<1>1. converged.generation = pool.generation BY DEF Desired
<1> QED BY <1>1 DEF PaneInv, Driven

(* Whatever order intents, disconnects, reloads, fetches, panics and results  *)
(* come in, worker, fleet and document agree on the window, a summary on      *)
(* screen is for it, and no other pool's data reaches the pane               *)
(* (run_eggpool_worker, Engine::reduce_intents, sync_eggpool_worker,          *)
(* apply_eggpool_result): for any frontends, pools, windows and capacities.   *)
THEOREM PaneIsSound == Spec => PaneSound
<1>1. PaneInv /\ [Next]_vars => PaneInv' BY NextAgrees
<1>2. PaneInv /\ [Next]_vars
        => [pool' # None =>
              /\ (pool'.summary # None /\ (pool = None \/ pool'.summary # pool.summary))
                    => pool'.summary.pool = pool'.endpoint
              /\ (pool'.health # None /\ (pool = None \/ pool'.health # pool.health))
                    => pool'.health = pool'.endpoint]_vars
  BY NextAgrees DEF DataFrom
<1>3. PaneInv => /\ TypeOK /\ RequestIsNewest /\ SummaryOfWindow
                 /\ DrivenWindowIsShown /\ DocumentCurrent
  BY DrivenIsShown DEF PaneInv, Newest, RequestIsNewest
<1> QED BY <1>1, <1>2, <1>3, InitAgrees, PTL DEF Spec, PaneSound, DataFromCurrentPool
=============================================================================

------------------------ MODULE MaintSchedulerProofs ------------------------
(***************************************************************************)
(* Proofs about the maintenance scheduler, for any number of jobs, any     *)
(* schedule, any load readings and any time bounds.                        *)
(***************************************************************************)
EXTENDS MaintPrompt, SequenceTheorems, FiniteSetTheorems, TLAPS

(* record_terminal keeps a job's history a sequence of records.             *)
LEMMA RecordedType ==
    ASSUME NEW h \in Seq(Records), NEW rec \in Records
    PROVE  Recorded(h, rec) \in Seq(Records)
<1>1. Append(h, rec) \in Seq(Records)
  OBVIOUS
<1>2. Trimmed(Append(h, rec)) \in Seq(Records)
  <2> DEFINE s == Append(h, rec)
  <2>1. CASE Len(s) > Limit
    <3>1. Len(s) - Limit + 1 \in 1 .. Len(s) + 1
      BY <1>1, <2>1, LenProperties, TimingAssumption
    <3>2. \A i \in (Len(s) - Limit + 1) .. Len(s) : s[i] \in Records
      BY <1>1, <3>1, ElementOfSeq, LenProperties
    <3>3. SubSeq(s, Len(s) - Limit + 1, Len(s)) \in Seq(Records)
      BY <1>1, <3>1, <3>2, SubSeqProperties, LenProperties
    <3> QED BY <2>1, <3>3 DEF Trimmed
  <2>2. CASE ~(Len(s) > Limit)
    BY <1>1, <2>2 DEF Trimmed
  <2> QED BY <2>1, <2>2
<1> QED BY <1>2 DEF Recorded

Gates == Nat \cup {NoLoad, NoGate}

-----------------------------------------------------------------------------
(* Types of what a tick computes.                                           *)

LEMMA AfterDueType ==
    ASSUME TypeOK, NEW j \in Jobs
    PROVE  AfterDue(j) \in Pending
<1>1. now \in Nat /\ wall \in Nat /\ due[j] \in Nat /\ pending[j] \in Pending
  BY TimingAssumption DEF TypeOK, Civil
<1>2. CASE Fresh(j)
  BY <1>1, <1>2 DEF AfterDue, Pending
<1>3. CASE ~Fresh(j)
  <2>1. (pending[j].coal \/ IsDue(j)) \in BOOLEAN
    OBVIOUS
  <2> QED BY <1>1, <1>3, <2>1 DEF AfterDue, Pending
<1> QED BY <1>2, <1>3

LEMMA AfterExpiryType ==
    ASSUME TypeOK, NEW load \in LoadStates
    PROVE  AfterExpiry(load) \in [Jobs -> Pending]
<1>1. NoPending \in Pending
  BY DEF NoPending, Pending
<1> QED BY <1>1, AfterDueType DEF AfterExpiry

LEMMA AfterDeferType ==
    ASSUME TypeOK, NEW j \in Jobs, NEW p \in Pending, NEW load, NEW lost
    PROVE  AfterDefer(j, p, load, lost) \in Pending
<1>1. CASE Deferred(j, p, load, lost)
  <2>1. j \in Gated
    BY <1>1 DEF Deferred, Blocked
  <2>2. now + Retry[j] \in Nat /\ wall + Retry[j] \in Nat
    BY <2>1, TimingAssumption DEF TypeOK, Civil
  <2> QED BY <1>1, <2>2 DEF AfterDefer, Pending
<1>2. CASE ~Deferred(j, p, load, lost)
  BY <1>2 DEF AfterDefer
<1> QED BY <1>1, <1>2

LEMMA ObservedType ==
    ASSUME NEW j \in Jobs, NEW load \in LoadStates
    PROVE  Observed(j, load) \in Gates
  BY LoadAssumption DEF Observed, LoadStates, Gates

LEMMA AfterDueGateType ==
    ASSUME TypeOK, NEW j \in Jobs
    PROVE  AfterDueGate(j) \in Gates
  BY DEF TypeOK, AfterDueGate, Gates

LEMMA JobSubsetsFinite ==
    ASSUME NEW S \in SUBSET Jobs
    PROVE  IsFiniteSet(S) /\ Cardinality(S) \in Nat
<1>1. IsFiniteSet(Jobs)
  BY FS_Interval, JobAssumption DEF Jobs
<1> QED BY <1>1, FS_Subset, FS_CardinalityType

LEMMA ExpiryRecordType ==
    ASSUME TypeOK, NEW load \in LoadStates, NEW j \in Jobs
    PROVE  ExpiryRecord(j, load) \in Records
<1>1. Cardinality({k \in ExpiredJobs(load) : k < j}) \in Nat
  BY JobSubsetsFinite DEF ExpiredJobs
<1>2. AfterDue(j) \in Pending
  BY AfterDueType
<1> QED BY <1>1, <1>2 DEF ExpiryRecord, Records, Pending, Outcomes, TypeOK, Civil

LEMMA ExpiryType ==
    ASSUME TypeOK, NEW load \in LoadStates
    PROVE  /\ AfterExpiryHist(load) \in [Jobs -> Seq(Records)]
           /\ AfterExpirySeq(load) \in Nat
           /\ AfterExpiryRevision(load) \in Nat
<1>1. Cardinality(ExpiredJobs(load)) \in Nat
  BY JobSubsetsFinite DEF ExpiredJobs
<1>2. \A j \in Jobs : Recorded(hist[j], ExpiryRecord(j, load)) \in Seq(Records)
  BY RecordedType, ExpiryRecordType DEF TypeOK
<1>3. AfterExpiryHist(load) \in [Jobs -> Seq(Records)]
  BY <1>2 DEF AfterExpiryHist, TypeOK
<1> QED BY <1>1, <1>3 DEF AfterExpirySeq, AfterExpiryRevision, TypeOK

LEMMA JobDocType ==
    ASSUME TypeOK, NEW j \in Jobs
    PROVE  JobDoc(j) \in JobDocuments
<1>1. JobStateOf(j) \in JobStates
  BY DEF JobStateOf, JobStates, IsDeferred, TypeOK, Pending
<1>2. hist[j] # <<>> => hist[j][Len(hist[j])].seq \in Nat
  <2>1. ASSUME hist[j] # <<>> PROVE hist[j][Len(hist[j])] \in Records
    BY <2>1, ElementOfSeq, EmptySeq, LenProperties DEF TypeOK
  <2> QED BY <2>1 DEF Records
<1>3. pending[j] \in Pending /\ active \in Child /\ due[j] \in Nat /\ gate[j] \in Int
  <2>1. gate \in [Jobs -> Nat \cup {NoLoad, NoGate}] BY DEF TypeOK
  <2>2. gate[j] \in Nat \cup {NoLoad, NoGate} BY <2>1
  <2>3. gate[j] \in Int BY <2>2 DEF NoLoad, NoGate
  <2>4. pending[j] \in Pending /\ active \in Child /\ due[j] \in Nat BY DEF TypeOK
  <2> QED BY <2>3, <2>4
<1>4. (IF pending[j].on THEN pending[j].sinceUnix ELSE -1) \in Int
  BY <1>3 DEF Pending
<1>5. (IF IsDeferred(j) THEN pending[j].retryUnix ELSE -1) \in Int
  BY <1>3 DEF Pending
<1>6. (IF active.job = j THEN active.start ELSE -1) \in Int
  BY <1>3 DEF Child
<1>7. (IF hist[j] = <<>> THEN 0 ELSE hist[j][Len(hist[j])].seq) \in Nat
  BY <1>2
<1> QED BY <1>1, <1>3, <1>4, <1>5, <1>6, <1>7 DEF JobDoc, JobDocuments

-----------------------------------------------------------------------------
(* Every step keeps the types.                                              *)

LEMMA TickStartsType ==
    ASSUME TypeOK, TickStarts
    PROVE  /\ now' \in Nat /\ skew' \in Int /\ wall' \in Civil
           /\ due' \in [Jobs -> Nat]
           /\ tickNow' \in Nat /\ tickWall' \in Civil /\ wakeAt' \in Nat
           /\ opened' \in Nat
           /\ UNCHANGED <<pub, shutdown>>
<1>1. \A j \in Jobs : AfterDueNext(j) \in Nat
  BY NextAfterAssumption DEF TickStarts, NoFutureOccurrence, AfterDueNext, TypeOK
<1>2. Cardinality({j \in Jobs : Fresh(j)}) \in Nat
  BY JobSubsetsFinite
<1> QED BY <1>1, <1>2 DEF TickStarts, TypeOK, wall

LEMMA PublishType ==
    ASSUME TypeOK, Publish
    PROVE  /\ pub'.live \in BOOLEAN /\ pub'.revision \in Nat
           /\ pub'.live => /\ pub'.jobs \in [Jobs -> JobDocuments]
                           /\ pub'.hist \in [Jobs -> Seq(Records)]
<1>1. JobDocs \in [Jobs -> JobDocuments]
  BY JobDocType DEF JobDocs
<1>2. CASE Unchanged
  BY <1>2 DEF TypeOK, Publish
<1>3. CASE ~Unchanged
  BY <1>1, <1>3 DEF TypeOK, Publish
<1> QED BY <1>2, <1>3

LEMMA TickType ==
    ASSUME TypeOK, Tick
    PROVE  TypeOK'
<1> PICK load \in LoadStates :
        \/ TickBusy(load)
        \/ TickNoneEligible(load)
        \/ \E w \in Jobs : TickLaunch(w, load) \/ TickSpawnFails(w, load)
  BY DEF Tick
<1>s. TickStarts
  BY DEF TickBusy, TickNoneEligible, TickLaunch, TickSpawnFails, Grants
<1> DEFINE ps == AfterExpiry(load)
<1>1. ps \in [Jobs -> Pending]
  BY AfterExpiryType
<1>2. \A j \in Jobs : Observed(j, load) \in Gates /\ AfterDueGate(j) \in Gates
  BY ObservedType, AfterDueGateType
<1>3. \A j \in Jobs : \A lost : AfterDefer(j, ps[j], load, lost) \in Pending
  BY <1>1, AfterDeferType
<1>4. NoPending \in Pending /\ \A j \in Jobs : AfterDue(j) \in Pending
  BY AfterDueType DEF NoPending, Pending
<1>5. pending' \in [Jobs -> Pending] /\ gate' \in [Jobs -> Gates]
  <2>1. CASE TickBusy(load)
    BY <2>1, <1>1, <1>2 DEF TickBusy
  <2>2. CASE TickNoneEligible(load)
    BY <2>2, <1>2, <1>3 DEF TickNoneEligible
  <2>3. ASSUME NEW w \in Jobs, Grants(w, load)
        PROVE  pending' \in [Jobs -> Pending] /\ gate' \in [Jobs -> Gates]
    BY <2>3, <1>2, <1>3, <1>4 DEF Grants
  <2> QED BY <2>1, <2>2, <2>3 DEF TickLaunch, TickSpawnFails
<1>6. active' \in Child /\ phase' \in {"publish_sleep", "publish_loop"}
  <2>1. CASE TickBusy(load) \/ TickNoneEligible(load)
    BY <2>1 DEF TickBusy, TickNoneEligible, TypeOK
  <2>2. ASSUME NEW w \in Jobs, TickLaunch(w, load)
        PROVE  active' \in Child /\ phase' \in {"publish_sleep", "publish_loop"}
    <3>1. wall \in Nat
      BY TimingAssumption DEF TypeOK, Civil
    <3>2. AfterDue(w).sched \in Nat /\ AfterDue(w).coal \in BOOLEAN
      BY <1>4 DEF Pending
    <3>3. w \in 0 .. N /\ (Limit = 0) \in BOOLEAN
      BY JobAssumption DEF Jobs
    <3>4. NoChild \in Child
      BY JobAssumption DEF NoChild, Child
    <3>5. \A x \in 0 .. N, st \in Nat, sc \in Nat, co \in BOOLEAN, e \in BOOLEAN :
             [NoChild EXCEPT !.job = x, !.start = st, !.sched = sc,
                             !.coal = co, !.eof = e] \in Child
      BY <3>4 DEF Child
    <3>6. active' \in Child
      BY <2>2, <3>1, <3>2, <3>3, <3>5 DEF TickLaunch
    <3> QED BY <2>2, <3>6 DEF TickLaunch, Grants
  <2>3. ASSUME NEW w \in Jobs, TickSpawnFails(w, load)
        PROVE  active' \in Child /\ phase' \in {"publish_sleep", "publish_loop"}
    BY <2>3 DEF TickSpawnFails, Grants, TypeOK
  <2> QED BY <2>1, <2>2, <2>3
<1>7. nextSeq' \in Nat /\ revision' \in Nat /\ hist' \in [Jobs -> Seq(Records)]
  <2>1. CASE ExpiryOnly(load)
    BY <2>1, ExpiryType DEF ExpiryOnly
  <2>2. ASSUME NEW w \in Jobs, TickSpawnFails(w, load)
        PROVE  nextSeq' \in Nat /\ revision' \in Nat /\ hist' \in [Jobs -> Seq(Records)]
    <3> DEFINE rec == [seq |-> AfterExpirySeq(load), sched |-> AfterDue(w).sched,
                       outcome |-> "spawn_failed", coal |-> AfterDue(w).coal,
                       fin |-> wall]
    <3>a. wall \in Nat
      BY TimingAssumption DEF TypeOK, Civil
    <3>b. AfterExpirySeq(load) \in Nat
      BY ExpiryType
    <3>c. AfterDue(w).sched \in Nat /\ AfterDue(w).coal \in BOOLEAN
      BY <1>4 DEF Pending
    <3>1. rec \in Records
      BY <3>a, <3>b, <3>c DEF Records, Outcomes
    <3>2. Recorded(AfterExpiryHist(load)[w], rec) \in Seq(Records)
      BY <3>1, ExpiryType, RecordedType
    <3> QED BY <2>2, <3>2, ExpiryType DEF TickSpawnFails
  <2> QED BY <2>1, <2>2 DEF TickBusy, TickNoneEligible, TickLaunch
<1> QED BY <1>s, <1>5, <1>6, <1>7, TickStartsType DEF TypeOK, Gates

LEMMA LoopType ==
    ASSUME TypeOK,
           PublishAndLoop \/ PublishAndSleep \/ TickFails
    PROVE  TypeOK'
<1>1. CASE PublishAndLoop
  BY <1>1, PublishType
     DEF PublishAndLoop, TypeOK, clocks, engine, observer, wall
<1>2. CASE PublishAndSleep
  <2>1. \A d \in Deadlines(now) : d \in Nat
    <3>1. \A j \in Jobs : now + UntilDue(j) \in Nat
      BY TimingAssumption DEF UntilDue, TypeOK, Civil
    <3>2. \A j \in Jobs : pending[j].retry \in Nat /\ pending[j].since \in Nat
      BY DEF TypeOK, Pending
    <3>3. \A j \in Gated : pending[j].since + MaxWait[j] \in Nat
      BY <3>2, JobAssumption, TimingAssumption
    <3>4. now + Recheck \in Nat
      BY TimingAssumption DEF TypeOK
    <3> QED BY <3>1, <3>2, <3>3, <3>4 DEF Deadlines
  <2>2. wakeAt' \in Nat
    BY <1>2, <2>1 DEF PublishAndSleep
  <2> QED BY <1>2, <2>2, PublishType
       DEF PublishAndSleep, TypeOK, clocks, engine, observer, wall
<1>3. CASE TickFails
  BY <1>3, JobAssumption DEF TickFails, TypeOK, Child, NoChild, wall
<1> QED BY <1>1, <1>2, <1>3

LEMMA ChildType ==
    ASSUME TypeOK,
           \/ \E o \in ChildOutcomes : ChildExits(o)
           \/ OutputEnds \/ FreezeExit \/ FinishChild
    PROVE  TypeOK'
<1> USE TimingAssumption, JobAssumption
<1>0. NoChild \in Child /\ wall \in Nat /\ now + Settle \in Nat
  BY DEF NoChild, Child, TypeOK, Civil
<1>1. ASSUME NEW o \in ChildOutcomes, ChildExits(o) PROVE TypeOK'
  BY <1>1 DEF ChildExits, TypeOK, Child, clocks, engine, loop, observer, wall
<1>2. CASE OutputEnds
  BY <1>2 DEF OutputEnds, TypeOK, Child, clocks, engine, loop, observer, wall
<1>3. CASE FreezeExit
  <2>1. active' \in Child
    BY <1>0, <1>3 DEF FreezeExit, TypeOK, Child
  <2> QED BY <1>3, <2>1 DEF FreezeExit, TypeOK, clocks, engine, loop, observer, wall
<1>4. CASE FinishChild
  <2> DEFINE rec == [seq |-> nextSeq, sched |-> active.sched,
                     outcome |-> active.exit, coal |-> active.coal,
                     fin |-> active.fin]
  <2>1. rec \in Records /\ active.job \in Jobs
    BY <1>4 DEF FinishChild, SlotFree, TypeOK, Child, Records, Outcomes, Jobs
  <2>2. Recorded(hist[active.job], rec) \in Seq(Records)
    BY <2>1, RecordedType DEF TypeOK
  <2>3. hist' \in [Jobs -> Seq(Records)]
    BY <1>4, <2>1, <2>2 DEF FinishChild, TypeOK
  <2> QED BY <1>0, <1>4, <2>3 DEF FinishChild, TypeOK, clocks, engine, wall
<1> QED BY <1>1, <1>2, <1>3, <1>4

LEMMA EnvironmentType ==
    ASSUME TypeOK,
           \/ RequestShutdown \/ ObserveShutdown \/ StopAfterKill \/ TimePasses
           \/ \E s \in Skews : ClockSteps(s)
    PROVE  TypeOK'
<1> USE TimingAssumption, JobAssumption
<1>1. CASE RequestShutdown
  BY <1>1 DEF RequestShutdown, TypeOK, clocks, engine, loop, observer, wall
<1>2. CASE ObserveShutdown
  BY <1>2 DEF ObserveShutdown, TypeOK, clocks, engine, observer, wall
<1>3. CASE StopAfterKill
  BY <1>3 DEF StopAfterKill, TypeOK, Child, NoChild, clocks, engine, observer, wall
<1>4. CASE TimePasses
  BY <1>4 DEF TimePasses, TypeOK, Civil, engine, loop, observer, wall
<1>5. ASSUME NEW s \in Skews, ClockSteps(s) PROVE TypeOK'
  BY <1>5 DEF ClockSteps, TypeOK, Civil, engine, loop, observer, wall
<1> QED BY <1>1, <1>2, <1>3, <1>4, <1>5

LEMMA InitType == Init => TypeOK
<1> SUFFICES ASSUME Init PROVE TypeOK
  OBVIOUS
<1>1. wall \in Civil /\ wall = skew
  BY TimingAssumption DEF Init, wall, Civil
<1>2. \A j \in Jobs : NextAfter(j, wall) \in Nat
  BY <1>1, NextAfterAssumption DEF Init
<1>3. NoPending \in Pending /\ NoChild \in Child /\ <<>> \in Seq(Records)
  BY JobAssumption DEF NoPending, Pending, NoChild, Child
<1>4. pub.live = FALSE /\ pub.revision = 0
  BY DEF Init, EmptyDocument
<1>5. /\ due \in [Jobs -> Nat] /\ pending \in [Jobs -> Pending]
      /\ gate \in [Jobs -> Nat \cup {NoLoad, NoGate}]
      /\ hist \in [Jobs -> Seq(Records)]
  BY <1>2, <1>3 DEF Init
<1>6. /\ now \in Nat /\ skew \in Int /\ tickNow \in Nat /\ tickWall \in Civil
      /\ wakeAt \in Nat /\ nextSeq \in Nat /\ revision \in Nat /\ opened \in Nat
      /\ shutdown \in BOOLEAN /\ active \in Child
  BY <1>1, <1>3, TimingAssumption DEF Init, Civil
<1> QED BY <1>1, <1>4, <1>5, <1>6 DEF Init, TypeOK

LEMMA TypeStep == TypeOK /\ [Next]_vars => TypeOK'
<1> SUFFICES ASSUME TypeOK, [Next]_vars PROVE TypeOK'
  OBVIOUS
<1>1. CASE Next
  BY <1>1, TickType, LoopType, ChildType, EnvironmentType DEF Next
<1>2. CASE UNCHANGED vars
  BY <1>2 DEF vars, TypeOK, wall
<1> QED BY <1>1, <1>2

(* Every reachable state of the scheduler is well typed: in particular the  *)
(* next occurrence is always a real civil time, never next_after's error.   *)
THEOREM TypeCorrect == Spec => []TypeOK
  BY InitType, TypeStep, PTL DEF Spec

-----------------------------------------------------------------------------
(* Occurrences are conserved.                                               *)

FreshJobs == {j \in Jobs : Fresh(j)}
PendingAfterExpiry(load) == {j \in Jobs : AfterExpiry(load)[j].on}

(* The due and expiry passes of a tick neither lose nor invent occurrences. *)
LEMMA TickConserves ==
    ASSUME TypeOK, NEW load \in LoadStates
    PROVE  /\ Cardinality(PendingAfterExpiry(load)) + Cardinality(ExpiredJobs(load))
                = Cardinality(PendingJobs) + Cardinality(FreshJobs)
           /\ Cardinality(PendingJobs) \in Nat
           /\ Cardinality(FreshJobs) \in Nat
           /\ Cardinality(PendingAfterExpiry(load)) \in Nat
           /\ Cardinality(ExpiredJobs(load)) \in Nat
<1> DEFINE P1 == PendingJobs \cup FreshJobs
           E == ExpiredJobs(load)
<1>1. \A j \in Jobs : AfterDue(j).on <=> j \in P1
  BY DEF AfterDue, PendingJobs, FreshJobs, Fresh, TypeOK, Pending
<1>2. E \subseteq P1
  BY <1>1 DEF ExpiredJobs, Expires
<1>3. PendingAfterExpiry(load) = P1 \ E
  BY <1>1 DEF PendingAfterExpiry, AfterExpiry, ExpiredJobs, NoPending, PendingJobs, FreshJobs
<1>4. PendingJobs \cap FreshJobs = {}
  BY DEF PendingJobs, FreshJobs, Fresh
<1>5. /\ IsFiniteSet(PendingJobs) /\ IsFiniteSet(FreshJobs) /\ IsFiniteSet(P1)
      /\ Cardinality(PendingJobs) \in Nat /\ Cardinality(FreshJobs) \in Nat
      /\ Cardinality(P1) \in Nat /\ Cardinality(E) \in Nat
      /\ Cardinality(PendingAfterExpiry(load)) \in Nat
  BY JobSubsetsFinite DEF PendingJobs, FreshJobs, ExpiredJobs, PendingAfterExpiry
<1>6. Cardinality(P1) = Cardinality(PendingJobs) + Cardinality(FreshJobs)
  <2>1. Cardinality(P1) = Cardinality(PendingJobs) + Cardinality(FreshJobs)
                            - Cardinality(PendingJobs \cap FreshJobs)
    BY <1>5, FS_Union
  <2>2. Cardinality(PendingJobs \cap FreshJobs) = 0
    BY <1>4, FS_EmptySet
  <2> QED BY <1>5, <2>1, <2>2
<1>7. P1 \cap E = E
  BY <1>2
<1>8. Cardinality(P1 \ E) = Cardinality(P1) - Cardinality(E)
  BY <1>5, <1>7, FS_Difference
<1> QED BY <1>3, <1>5, <1>6, <1>8

(* defer_blocked_before keeps every occurrence pending.                     *)
LEMMA DeferKeeps ==
    ASSUME NEW j, NEW p \in Pending, NEW load, NEW lost
    PROVE  AfterDefer(j, p, load, lost).on = p.on
<1>1. CASE Deferred(j, p, load, lost)
  BY <1>1 DEF AfterDefer, Pending
<1>2. CASE ~Deferred(j, p, load, lost)
  BY <1>2 DEF AfterDefer
<1> QED BY <1>1, <1>2

LEMMA RecordStep ==
    ASSUME TypeOK, OneRecordPerOccurrence, [Next]_vars
    PROVE  OneRecordPerOccurrence'
<1> SUFFICES ASSUME ~Ended'
             PROVE  opened' = (nextSeq' - 1) + Cardinality(PendingJobs')
                                + (IF active'.job = 0 THEN 0 ELSE 1)
  BY DEF OneRecordPerOccurrence, SlotFree
<1> USE DEF SlotFree
<1>1. ASSUME NEW load \in LoadStates, TickBusy(load) \/ TickNoneEligible(load)
      PROVE  opened' = (nextSeq' - 1) + Cardinality(PendingJobs')
                         + (IF active'.job = 0 THEN 0 ELSE 1)
  <2>0. \A j \in Jobs : pending'[j].on = AfterExpiry(load)[j].on
    <3>1. CASE TickBusy(load)
      BY <3>1 DEF TickBusy
    <3>2. CASE TickNoneEligible(load)
      <4>1. \A j \in Jobs : pending'[j] = AfterDefer(j, AfterExpiry(load)[j], load, TRUE)
        BY <3>2 DEF TickNoneEligible
      <4>2. \A j \in Jobs : AfterExpiry(load)[j] \in Pending
        BY AfterExpiryType
      <4>3. ASSUME NEW j \in Jobs
            PROVE  AfterDefer(j, AfterExpiry(load)[j], load, TRUE).on
                     = AfterExpiry(load)[j].on
        <5>1. AfterExpiry(load)[j] \in Pending
          BY <4>2
        <5> QED BY <5>1 DEF AfterDefer, Pending
      <4> QED BY <4>1, <4>3
    <3> QED BY <1>1, <3>1, <3>2
  <2>1. PendingJobs' = PendingAfterExpiry(load)
    BY <2>0 DEF PendingJobs, PendingAfterExpiry
  <2>2. /\ opened' = opened + Cardinality(FreshJobs)
        /\ nextSeq' = nextSeq + Cardinality(ExpiredJobs(load))
        /\ active' = active
        /\ ~Ended
    BY <1>1 DEF TickBusy, TickNoneEligible, TickStarts, ExpiryOnly, AfterExpirySeq,
                FreshJobs, Ended, Awake
  <2>3. nextSeq \in Nat /\ opened \in Nat
    BY DEF TypeOK
  <2>4. opened = (nextSeq - 1) + Cardinality(PendingJobs)
                   + (IF active.job = 0 THEN 0 ELSE 1)
    BY <2>2 DEF OneRecordPerOccurrence
  <2> HIDE DEF SlotFree
  <2> QED BY <2>1, <2>2, <2>3, <2>4, TickConserves
<1>2. ASSUME NEW load \in LoadStates, NEW w \in Jobs,
             TickLaunch(w, load) \/ TickSpawnFails(w, load)
      PROVE  opened' = (nextSeq' - 1) + Cardinality(PendingJobs')
                         + (IF active'.job = 0 THEN 0 ELSE 1)
  <2>0. Grants(w, load)
    BY <1>2 DEF TickLaunch, TickSpawnFails
  <2>a. \A j \in Jobs \ {w} : pending'[j].on = AfterExpiry(load)[j].on
    BY <2>0, AfterExpiryType, DeferKeeps DEF Grants
  <2>b. pending'[w].on = FALSE
    BY <2>0 DEF Grants, NoPending
  <2>1. PendingJobs' = PendingAfterExpiry(load) \ {w}
    BY <2>a, <2>b DEF PendingJobs, PendingAfterExpiry
  <2>2. w \in PendingAfterExpiry(load)
    BY <2>0 DEF Grants, Selected, Eligible, Candidate, PendingAfterExpiry
  <2>3. Cardinality(PendingJobs') = Cardinality(PendingAfterExpiry(load)) - 1
    BY <2>1, <2>2, FS_RemoveElement, JobSubsetsFinite DEF PendingAfterExpiry
  <2>4. /\ opened' = opened + Cardinality(FreshJobs)
        /\ active.job = 0
        /\ ~Ended
    BY <2>0 DEF Grants, TickStarts, FreshJobs, Ended, Awake
  <2>5. w # 0
    BY DEF Jobs
  <2>6. \/ /\ nextSeq' = nextSeq + Cardinality(ExpiredJobs(load))
           /\ active'.job = w
        \/ /\ nextSeq' = nextSeq + Cardinality(ExpiredJobs(load)) + 1
           /\ active' = active
    BY <1>2 DEF TickLaunch, TickSpawnFails, ExpiryOnly, AfterExpirySeq, NoChild
  <2>7. nextSeq \in Nat /\ opened \in Nat
    BY DEF TypeOK
  <2>8. /\ Cardinality(PendingAfterExpiry(load)) + Cardinality(ExpiredJobs(load))
              = Cardinality(PendingJobs) + Cardinality(FreshJobs)
        /\ Cardinality(PendingJobs) \in Nat /\ Cardinality(FreshJobs) \in Nat
        /\ Cardinality(PendingAfterExpiry(load)) \in Nat
        /\ Cardinality(ExpiredJobs(load)) \in Nat
    BY TickConserves
  <2>9. opened = (nextSeq - 1) + Cardinality(PendingJobs)
    BY <2>4, <2>7, <2>8 DEF OneRecordPerOccurrence
  <2>10. CASE nextSeq' = nextSeq + Cardinality(ExpiredJobs(load)) /\ active'.job = w
    BY <2>3, <2>4, <2>5, <2>7, <2>8, <2>9, <2>10
  <2>11. CASE /\ nextSeq' = nextSeq + Cardinality(ExpiredJobs(load)) + 1
              /\ active' = active
    BY <2>3, <2>4, <2>7, <2>8, <2>9, <2>11
  <2> QED BY <2>6, <2>10, <2>11
<1>3. CASE FinishChild
  <2>1. PendingJobs' = PendingJobs /\ Cardinality(PendingJobs) \in Nat
    BY <1>3, JobSubsetsFinite DEF FinishChild, engine, PendingJobs
  <2> QED BY <1>3, <2>1
       DEF FinishChild, OneRecordPerOccurrence, Ended, NoChild, TypeOK
<1>4. CASE TickFails \/ StopAfterKill
  BY <1>4 DEF TickFails, StopAfterKill, Ended
<1>5. CASE \/ PublishAndLoop \/ PublishAndSleep \/ OutputEnds \/ FreezeExit
           \/ (\E o \in ChildOutcomes : ChildExits(o))
           \/ RequestShutdown \/ ObserveShutdown \/ TimePasses
           \/ (\E s \in Skews : ClockSteps(s)) \/ UNCHANGED vars
  <2>1. /\ UNCHANGED <<opened, nextSeq, pending>>
        /\ active'.job = active.job
        /\ Ended => Ended'
    BY <1>5 DEF PublishAndLoop, PublishAndSleep, OutputEnds, FreezeExit, ChildExits,
       RequestShutdown, ObserveShutdown, TimePasses, ClockSteps, vars, engine,
       observer, loop, Ended, TypeOK, Child
  <2>2. PendingJobs' = PendingJobs
    BY <2>1 DEF PendingJobs
  <2> QED BY <2>1, <2>2 DEF OneRecordPerOccurrence
<1> QED BY <1>1, <1>2, <1>3, <1>4, <1>5 DEF Next, Tick

LEMMA InitRecord == Init => OneRecordPerOccurrence
<1> SUFFICES ASSUME Init PROVE opened = (nextSeq - 1) + Cardinality(PendingJobs)
                                         + (IF SlotFree THEN 0 ELSE 1)
  BY DEF OneRecordPerOccurrence
<1>1. PendingJobs = {}
  BY DEF Init, PendingJobs, NoPending
<1> QED BY <1>1, FS_EmptySet DEF Init, SlotFree, NoChild

(* Until the scheduler ends, every occurrence that became pending is still  *)
(* pending, is the running child, or has exactly one terminal record, for   *)
(* any number of jobs and any interleaving of load, failures and clocks.    *)
THEOREM OccurrencesConserved == Spec => []OneRecordPerOccurrence
<1>1. Init => TypeOK /\ OneRecordPerOccurrence
  BY InitType, InitRecord
<1>2. TypeOK /\ OneRecordPerOccurrence /\ [Next]_vars
        => (TypeOK /\ OneRecordPerOccurrence)'
  BY TypeStep, RecordStep
<1> QED BY <1>1, <1>2, PTL DEF Spec

-----------------------------------------------------------------------------
(* Retries, readings and sleeps.                                            *)

(* After a tick every job's next occurrence is ahead of the civil time the  *)
(* tick read; next_deadline's clamp to zero never applies.                  *)
DueAhead == phase = "publish_sleep" => \A j \in Jobs : due[j] > tickWall

LEMMA DueAheadStep ==
    ASSUME TypeOK, DueAhead, [Next]_vars
    PROVE  DueAhead'
<1>1. CASE TickStarts
  <2>1. \A j \in Jobs : AfterDueNext(j) > wall
    BY <1>1, NextAfterAssumption DEF TickStarts, NoFutureOccurrence, AfterDueNext,
       IsDue, TypeOK, Civil
  <2> QED BY <1>1, <2>1 DEF TickStarts, DueAhead
<1>2. CASE ~(\E load \in LoadStates :
               \/ TickBusy(load) \/ TickNoneEligible(load)
               \/ \E w \in Jobs : TickLaunch(w, load) \/ TickSpawnFails(w, load))
  <2>1. phase' = "publish_sleep" => phase = phase' /\ UNCHANGED <<due, tickWall>>
    BY <1>2 DEF Next, Tick, TickFails, PublishAndLoop, PublishAndSleep, OutputEnds,
       FreezeExit, ChildExits, FinishChild, RequestShutdown, ObserveShutdown,
       StopAfterKill, TimePasses, ClockSteps, vars, engine, loop
  <2> QED BY <2>1 DEF DueAhead
<1> QED BY <1>1, <1>2 DEF TickBusy, TickNoneEligible, TickLaunch, TickSpawnFails, Grants

LEMMA RetryStep ==
    ASSUME TypeOK, NoElapsedRetry, [Next]_vars
    PROVE  NoElapsedRetry'
<1>1. ASSUME NEW load \in LoadStates, TickNoneEligible(load)
      PROVE  NoElapsedRetry'
  <2> DEFINE ps == AfterExpiry(load)
  <2>1. ASSUME NEW j \in Jobs, pending'[j].on
        PROVE  pending'[j].retry > tickNow'
    <3>0. tickNow' = now /\ now \in Nat
      BY <1>1 DEF TickNoneEligible, TickStarts, TypeOK
    <3>1. pending'[j] = AfterDefer(j, ps[j], load, TRUE)
      BY <1>1 DEF TickNoneEligible
    <3>2. ps[j] \in Pending
      BY AfterExpiryType
    <3>3. CASE Deferred(j, ps[j], load, TRUE)
      <4>1. j \in Gated
        BY <3>3 DEF Deferred, Blocked
      <4>2. Retry[j] \in Nat \ {0}
        BY <4>1, TimingAssumption
      <4>3. pending'[j].retry = now + Retry[j]
        BY <3>1, <3>2, <3>3 DEF AfterDefer, Pending
      <4> QED BY <3>0, <4>2, <4>3
    <3>4. CASE ~Deferred(j, ps[j], load, TRUE)
      <4>1. pending'[j] = ps[j]
        BY <3>1, <3>4 DEF AfterDefer
      <4>2. ~Eligible(j, ps[j], load)
        BY <1>1 DEF TickNoneEligible
      <4>3. ~(ps[j].retry <= now)
        BY <2>1, <3>4, <4>1, <4>2 DEF Deferred, Eligible, Candidate
      <4> QED BY <3>0, <3>2, <4>1, <4>3 DEF Pending
    <3> QED BY <3>3, <3>4
  <2> QED BY <2>1 DEF NoElapsedRetry, PendingJobs
<1>2. ASSUME NEW load \in LoadStates, TickBusy(load)
      PROVE  NoElapsedRetry'
  BY <1>2 DEF TickBusy, NoElapsedRetry, SlotFree
<1>3. ASSUME NEW load \in LoadStates, NEW w \in Jobs,
             TickLaunch(w, load) \/ TickSpawnFails(w, load)
      PROVE  NoElapsedRetry'
  BY <1>3 DEF TickLaunch, TickSpawnFails, Grants, NoElapsedRetry
<1>4. CASE ~Tick
  <2>1. phase' \in {"publish_sleep", "sleep"} /\ SlotFree' =>
          /\ phase \in {"publish_sleep", "sleep"} /\ SlotFree
          /\ UNCHANGED <<pending, tickNow>>
    BY <1>4 DEF Next, TickFails, PublishAndLoop, PublishAndSleep, OutputEnds,
       FreezeExit, ChildExits, FinishChild, RequestShutdown, ObserveShutdown,
       StopAfterKill, TimePasses, ClockSteps, vars, engine, loop, SlotFree,
       TypeOK, Child
  <2> QED BY <2>1 DEF NoElapsedRetry, PendingJobs
<1> QED BY <1>1, <1>2, <1>3, <1>4 DEF Tick

LEMMA InitRetry == Init => NoElapsedRetry /\ DueAhead
  BY DEF Init, NoElapsedRetry, DueAhead

(* A tick with a free slot leaves no pending occurrence with an elapsed     *)
(* retry, whatever the load, the other jobs and the clocks do.              *)
THEOREM RetriesAhead == Spec => []NoElapsedRetry
<1>1. TypeOK /\ NoElapsedRetry /\ [Next]_vars => (TypeOK /\ NoElapsedRetry)'
  BY TypeStep, RetryStep
<1> QED BY <1>1, InitType, InitRetry, PTL DEF Spec

LEMMA SleepAhead ==
    ASSUME TypeOK, DueAhead, Next, phase' = "sleep", phase # "sleep"
    PROVE  wakeAt' > now
<1>1. PublishAndSleep
  <2>1. ~Tick
    BY DEF Tick, TickBusy, TickNoneEligible, TickLaunch, TickSpawnFails, Grants
  <2> QED BY <2>1 DEF Next, TickFails, PublishAndLoop, OutputEnds,
       FreezeExit, ChildExits, FinishChild, RequestShutdown, ObserveShutdown,
       StopAfterKill, TimePasses, ClockSteps, loop
<1>2. now \in Nat
  BY DEF TypeOK
<1>3. \A j \in Jobs : now + UntilDue(j) > now
  BY <1>1, TimingAssumption DEF PublishAndSleep, DueAhead, UntilDue, TypeOK, Civil
<1>4. now + Recheck > now
  BY <1>2, TimingAssumption
<1>5. \A d \in Deadlines(now) : d > now
  BY <1>2, <1>3, <1>4 DEF Deadlines
<1> QED BY <1>1, <1>5 DEF PublishAndSleep

(* The run loop never arms a sleep that has already elapsed, so no load,    *)
(* clock step or slow publication can make it spin.                         *)
THEOREM NeverSpins == Spec => NoSpin
<1>1. TypeOK /\ DueAhead /\ [Next]_vars => (TypeOK /\ DueAhead)'
  BY TypeStep, DueAheadStep
<1>2. TypeOK /\ DueAhead /\ [Next]_vars
        => [phase' = "sleep" /\ phase # "sleep" => wakeAt' > now]_vars
  BY SleepAhead
<1> QED BY <1>1, <1>2, InitType, InitRetry, PTL DEF Spec, NoSpin

-----------------------------------------------------------------------------
(* What the scheduler records and serves: no occurrence twice, a current    *)
(* and valid document, decisions that stand.                                *)

(* record_terminal: the end of the history with the new record.             *)

Shifted(h, rec, d, r) ==
    /\ Len(r) = Len(h) + 1 - d
    /\ \A i \in 1 .. Len(r) : r[i] = IF i + d = Len(h) + 1 THEN rec ELSE h[i + d]

LEMMA RecordedShape ==
    ASSUME NEW h \in Seq(Records), NEW rec \in Records
    PROVE  \/ Recorded(h, rec) = h
           \/ \E d \in 0 .. Len(h) : Shifted(h, rec, d, Recorded(h, rec))
<1> DEFINE s == Append(h, rec)
<1>1. /\ s \in Seq(Records) /\ Len(s) = Len(h) + 1 /\ Len(h) \in Nat
      /\ \A i \in 1 .. Len(s) : s[i] = IF i = Len(h) + 1 THEN rec ELSE h[i]
  BY AppendProperties, LenProperties
<1> HIDE DEF s
<1>2. CASE Limit = 0
  BY <1>2 DEF Recorded
<1>3. CASE Limit # 0 /\ Len(s) > Limit
  <2> DEFINE d == Len(h) + 1 - Limit
             r == SubSeq(s, Len(s) - Limit + 1, Len(s))
  <2>1. d \in 0 .. Len(h) /\ Len(s) - Limit + 1 = d + 1 /\ d + 1 \in 1 .. Len(s)
    BY <1>1, <1>3, TimingAssumption
  <2>2. Recorded(h, rec) = r
    BY <1>3 DEF Recorded, Trimmed, s
  <2>3. /\ Len(r) = Len(s) - (d + 1) + 1
        /\ \A i \in 1 .. Len(r) : r[i] = s[(d + 1) + i - 1]
    BY <1>1, <2>1, SubSeqProperties
  <2> HIDE DEF d, r
  <2>4. Shifted(h, rec, d, r)
    <3>1. Len(r) = Len(h) + 1 - d
      BY <1>1, <2>1, <2>3
    <3>2. ASSUME NEW i \in 1 .. Len(r)
          PROVE  r[i] = IF i + d = Len(h) + 1 THEN rec ELSE h[i + d]
      <4>1. i + d \in 1 .. Len(s) /\ (d + 1) + i - 1 = i + d
        BY <1>1, <2>1, <3>1
      <4> QED BY <1>1, <2>3, <4>1
    <3> QED BY <3>1, <3>2 DEF Shifted
  <2> QED BY <2>1, <2>2, <2>4
<1>4. CASE Limit # 0 /\ ~(Len(s) > Limit)
  <2>1. Recorded(h, rec) = s
    BY <1>4 DEF Recorded, Trimmed, s
  <2>2. Shifted(h, rec, 0, s)
    BY <1>1 DEF Shifted
  <2>3. 0 \in 0 .. Len(h)
    BY <1>1
  <2> QED BY <2>1, <2>2, <2>3
<1> QED BY <1>2, <1>3, <1>4

(* A new record differs from all others in what they differ in, and comes last. *)
LEMMA RecordedDistinct ==
    ASSUME NEW h \in Seq(Records), NEW rec \in Records,
           \A i, k \in 1 .. Len(h) : i # k => h[i].sched # h[k].sched,
           \A i \in 1 .. Len(h) : h[i].sched # rec.sched
    PROVE  LET r == Recorded(h, rec) IN
           /\ \A i, k \in 1 .. Len(r) : i # k => r[i].sched # r[k].sched
           /\ \A i \in 1 .. Len(r) : r[i] = rec \/ \E k \in 1 .. Len(h) : r[i] = h[k]
<1> DEFINE r == Recorded(h, rec)
<1>1. CASE r = h
  BY <1>1
<1>2. ASSUME NEW d \in 0 .. Len(h), Shifted(h, rec, d, r)
      PROVE  /\ \A i, k \in 1 .. Len(r) : i # k => r[i].sched # r[k].sched
             /\ \A i \in 1 .. Len(r) : r[i] = rec \/ \E k \in 1 .. Len(h) : r[i] = h[k]
  <2> HIDE DEF r
  <2>1. Len(h) \in Nat /\ Len(r) = Len(h) + 1 - d
    BY <1>2, LenProperties DEF Shifted
  <2>2. ASSUME NEW i \in 1 .. Len(r)
        PROVE  \/ i + d = Len(h) + 1 /\ r[i] = rec
               \/ i + d \in 1 .. Len(h) /\ r[i] = h[i + d]
    BY <1>2, <2>1 DEF Shifted
  <2>3. ASSUME NEW i \in 1 .. Len(r), NEW k \in 1 .. Len(r), i # k
        PROVE  r[i].sched # r[k].sched
    <3>1. i + d # k + d
      BY <2>1, <2>3
    <3> QED BY <2>2, <3>1
  <2> QED BY <2>2, <2>3
<1> QED BY <1>1, <1>2, RecordedShape

Rising(h, n) ==
    /\ \A i \in 2 .. Len(h) : h[i].seq > h[i - 1].seq
    /\ \A i \in 1 .. Len(h) : h[i].seq < n

LEMMA RecordedRises ==
    ASSUME NEW h \in Seq(Records), NEW rec \in Records, NEW m \in Nat, NEW n \in Nat,
           Rising(h, m), m <= rec.seq, rec.seq < n
    PROVE  Rising(Recorded(h, rec), n)
<1> DEFINE r == Recorded(h, rec)
<1>1. /\ Len(h) \in Nat /\ rec.seq \in Nat /\ m <= n
      /\ \A i \in 1 .. Len(h) : h[i].seq \in Nat /\ h[i].seq < rec.seq /\ h[i].seq < n
  <2>1. Len(h) \in Nat /\ rec.seq \in Nat
    BY LenProperties DEF Records
  <2>2. \A i \in 1 .. Len(h) : h[i].seq \in Nat /\ h[i].seq < m
    <3>1. \A i \in 1 .. Len(h) : h[i] \in Records
      BY ElementOfSeq
    <3>2. \A x \in Records : x.seq \in Nat
      BY DEF Records
    <3> QED BY <3>1, <3>2 DEF Rising
  <2> QED BY <2>1, <2>2
<1>2. CASE r = h
  BY <1>1, <1>2 DEF Rising
<1>3. ASSUME NEW d \in 0 .. Len(h), Shifted(h, rec, d, r)
      PROVE  Rising(r, n)
  <2> HIDE DEF r
  <2>1. Len(r) = Len(h) + 1 - d
    BY <1>3 DEF Shifted
  <2>2. ASSUME NEW i \in 1 .. Len(r)
        PROVE  \/ i + d = Len(h) + 1 /\ r[i] = rec
               \/ i + d \in 1 .. Len(h) /\ r[i] = h[i + d]
    BY <1>1, <1>3, <2>1 DEF Shifted
  <2>3. ASSUME NEW i \in 2 .. Len(r)
        PROVE  r[i].seq > r[i - 1].seq
    <3>1. i \in 1 .. Len(r) /\ i - 1 \in 1 .. Len(r) /\ (i - 1) + d = (i + d) - 1
      BY <1>1, <2>1
    <3>2. i - 1 + d \in 1 .. Len(h) /\ r[i - 1] = h[(i + d) - 1]
      BY <1>1, <1>3, <2>1, <3>1 DEF Shifted
    <3>3. CASE i + d = Len(h) + 1 /\ r[i] = rec
      BY <1>1, <3>1, <3>2, <3>3
    <3>4. CASE i + d \in 1 .. Len(h) /\ r[i] = h[i + d]
      <4>1. i + d \in 2 .. Len(h)
        BY <1>1, <3>4
      <4> QED BY <3>2, <3>4, <4>1 DEF Rising
    <3> QED BY <2>2, <3>1, <3>3, <3>4
  <2>4. \A i \in 1 .. Len(r) : r[i].seq < n
    BY <1>1, <2>2
  <2> QED BY <2>3, <2>4 DEF Rising
<1> QED BY <1>2, <1>3, RecordedShape

-----------------------------------------------------------------------------
(* What a tick does to one job: its occurrence goes on waiting (or there is  *)
(* none), ends with a record, or becomes the running child.                 *)

Waits(j) ==
    /\ pending'[j].on = AfterDue(j).on
    /\ pending'[j].sched = AfterDue(j).sched
    /\ pending'[j].since = AfterDue(j).since
    /\ j \notin Gated => pending'[j].retry = AfterDue(j).retry
    /\ hist'[j] = hist[j]

Adds(j, rec) ==
    /\ AfterDue(j).on /\ pending'[j] = NoPending
    /\ rec \in Records /\ rec.sched = AfterDue(j).sched
    /\ nextSeq <= rec.seq /\ rec.seq < nextSeq'
    /\ hist'[j] = Recorded(hist[j], rec)

Runs(j) ==
    /\ AfterDue(j).on /\ pending'[j] = NoPending
    /\ active.job = 0 /\ active'.job = j /\ active'.sched = AfterDue(j).sched
    /\ hist'[j] = hist[j]

LEMMA ExpiryFate ==
    ASSUME TypeOK, NEW load \in LoadStates, NEW j \in Jobs
    PROVE  /\ j \in ExpiredJobs(load) =>
                 /\ AfterDue(j).on /\ AfterExpiry(load)[j] = NoPending
                 /\ AfterExpiryHist(load)[j] = Recorded(hist[j], ExpiryRecord(j, load))
                 /\ ExpiryRecord(j, load) \in Records
                 /\ ExpiryRecord(j, load).sched = AfterDue(j).sched
                 /\ nextSeq <= ExpiryRecord(j, load).seq
                 /\ ExpiryRecord(j, load).seq < AfterExpirySeq(load)
           /\ j \notin ExpiredJobs(load) =>
                 /\ AfterExpiry(load)[j] = AfterDue(j)
                 /\ AfterExpiryHist(load)[j] = hist[j]
<1>1. CASE j \in ExpiredJobs(load)
  <2> DEFINE E == ExpiredJobs(load)
             B == {k \in E : k < j}
  <2>1. B \in SUBSET E /\ E \in SUBSET Jobs /\ B # E
    BY <1>1, JobAssumption DEF ExpiredJobs, Jobs
  <2>2. /\ Cardinality(B) \in Nat /\ Cardinality(E) \in Nat
        /\ Cardinality(B) < Cardinality(E)
    <3>1. IsFiniteSet(E) /\ Cardinality(E) \in Nat /\ Cardinality(B) \in Nat
      BY <2>1, JobSubsetsFinite
    <3>2. Cardinality(B) <= Cardinality(E) /\ (Cardinality(E) = Cardinality(B) => E = B)
      BY <2>1, <3>1, FS_Subset
    <3> QED BY <2>1, <3>1, <3>2
  <2>3. ExpiryRecord(j, load).seq = nextSeq + Cardinality(B)
    BY DEF ExpiryRecord
  <2>4. AfterExpirySeq(load) = nextSeq + Cardinality(E) /\ nextSeq \in Nat
    BY DEF AfterExpirySeq, TypeOK
  <2> HIDE DEF B
  <2>5. /\ nextSeq <= ExpiryRecord(j, load).seq
        /\ ExpiryRecord(j, load).seq < AfterExpirySeq(load)
    BY <2>2, <2>3, <2>4
  <2>6. ExpiryRecord(j, load).sched = AfterDue(j).sched
    BY DEF ExpiryRecord
  <2>7. AfterDue(j).on /\ AfterExpiry(load)[j] = NoPending
    BY <1>1 DEF ExpiredJobs, Expires, AfterExpiry
  <2>8. AfterExpiryHist(load)[j] = Recorded(hist[j], ExpiryRecord(j, load))
    BY <1>1 DEF AfterExpiryHist
  <2> QED BY <1>1, <2>5, <2>6, <2>7, <2>8, ExpiryRecordType
<1>2. CASE j \notin ExpiredJobs(load)
  BY <1>2 DEF ExpiredJobs, AfterExpiry, AfterExpiryHist
<1> QED BY <1>1, <1>2

LEMMA DeferFate ==
    ASSUME NEW j, NEW p \in Pending, NEW load, NEW lost
    PROVE  LET q == AfterDefer(j, p, load, lost) IN
           /\ q.on = p.on /\ q.sched = p.sched /\ q.since = p.since
           /\ j \notin Gated => q.retry = p.retry
<1>1. CASE Deferred(j, p, load, lost)
  <2>1. j \in Gated
    BY <1>1 DEF Deferred, Blocked
  <2> QED BY <1>1, <2>1 DEF AfterDefer, Pending
<1>2. CASE ~Deferred(j, p, load, lost)
  BY <1>2 DEF AfterDefer
<1> QED BY <1>1, <1>2

(* A job that is not granted the slot.                                      *)
LEMMA OthersFate ==
    ASSUME TypeOK, NEW load \in LoadStates, NEW j \in Jobs, NEW lost,
           \/ pending'[j] = AfterExpiry(load)[j]
           \/ pending'[j] = AfterDefer(j, AfterExpiry(load)[j], load, lost),
           hist'[j] = AfterExpiryHist(load)[j],
           nextSeq' >= AfterExpirySeq(load), nextSeq' \in Nat
    PROVE  Waits(j) \/ Adds(j, ExpiryRecord(j, load))
<1>1. CASE j \in ExpiredJobs(load)
  <2>1. AfterDefer(j, NoPending, load, lost) = NoPending
    BY DEF AfterDefer, Deferred, Candidate, NoPending
  <2>2. ExpiryRecord(j, load).seq \in Nat /\ AfterExpirySeq(load) \in Nat
    BY ExpiryRecordType, ExpiryType DEF Records
  <2>3. ExpiryRecord(j, load).seq < nextSeq'
    BY <1>1, <2>2, ExpiryFate
  <2> QED BY <1>1, <2>1, <2>3, ExpiryFate DEF Adds
<1>2. CASE j \notin ExpiredJobs(load)
  <2>1. AfterExpiry(load)[j] = AfterDue(j) /\ hist'[j] = hist[j] /\ AfterDue(j) \in Pending
    BY <1>2, ExpiryFate, AfterDueType
  <2>2. CASE pending'[j] = AfterDue(j)
    BY <2>1, <2>2 DEF Waits
  <2>3. CASE pending'[j] = AfterDefer(j, AfterDue(j), load, lost)
    <3> DEFINE q == AfterDefer(j, AfterDue(j), load, lost)
    <3>1. /\ q.on = AfterDue(j).on /\ q.sched = AfterDue(j).sched
          /\ q.since = AfterDue(j).since /\ (j \notin Gated => q.retry = AfterDue(j).retry)
      BY <2>1, DeferFate
    <3> QED BY <2>1, <2>3, <3>1 DEF Waits
  <2> QED BY <2>1, <2>2, <2>3
<1> QED BY <1>1, <1>2

(* The job that is granted the slot.                                        *)
LEMMA WinnerFate ==
    ASSUME TypeOK, NEW load \in LoadStates, NEW w \in Jobs, Grants(w, load)
    PROVE  /\ w \notin ExpiredJobs(load) /\ AfterDue(w).on /\ pending'[w] = NoPending
           /\ AfterExpiryHist(load)[w] = hist[w] /\ active.job = 0
<1>1. AfterExpiry(load)[w].on /\ pending'[w] = NoPending /\ active.job = 0
  BY DEF Grants, Selected, Eligible, Candidate, SlotFree
<1>2. w \notin ExpiredJobs(load)
  BY <1>1, ExpiryFate DEF NoPending
<1> QED BY <1>1, <1>2, ExpiryFate

LEMMA TickFates ==
    ASSUME TypeOK, Tick
    PROVE  /\ TickStarts
           /\ nextSeq' \in Nat /\ nextSeq' >= nextSeq
           /\ revision' \in Nat /\ revision' >= revision
           /\ revision' = revision => hist' = hist
           /\ \A j \in Jobs : Waits(j) \/ (\E rec : Adds(j, rec)) \/ Runs(j)
           /\ active' = active \/ \E w \in Jobs : Runs(w)
<1> PICK load \in LoadStates :
        \/ TickBusy(load)
        \/ TickNoneEligible(load)
        \/ \E w \in Jobs : TickLaunch(w, load) \/ TickSpawnFails(w, load)
  BY DEF Tick
<1>1. /\ nextSeq \in Nat /\ revision \in Nat /\ hist \in [Jobs -> Seq(Records)]
      /\ AfterExpirySeq(load) \in Nat /\ AfterExpiryRevision(load) \in Nat
      /\ AfterExpirySeq(load) >= nextSeq /\ AfterExpiryRevision(load) >= revision
      /\ AfterExpiryRevision(load) = revision => AfterExpiryHist(load) = hist
  <2>1. ExpiredJobs(load) \in SUBSET Jobs
    BY DEF ExpiredJobs
  <2>2. /\ Cardinality(ExpiredJobs(load)) \in Nat
        /\ Cardinality(ExpiredJobs(load)) = 0 => ExpiredJobs(load) = {}
    BY <2>1, JobSubsetsFinite, FS_EmptySet
  <2>3. nextSeq \in Nat /\ revision \in Nat /\ hist \in [Jobs -> Seq(Records)]
    BY DEF TypeOK
  <2>4. ExpiredJobs(load) = {} => AfterExpiryHist(load) = hist
    BY <2>3 DEF AfterExpiryHist
  <2>5. /\ AfterExpirySeq(load) = nextSeq + Cardinality(ExpiredJobs(load))
        /\ AfterExpiryRevision(load) = revision + Cardinality(ExpiredJobs(load))
    BY DEF AfterExpirySeq, AfterExpiryRevision
  <2> QED BY <2>2, <2>3, <2>4, <2>5
<1>2. CASE TickBusy(load) \/ TickNoneEligible(load)
  <2>1. /\ TickStarts /\ ExpiryOnly(load) /\ active' = active
        /\ \A j \in Jobs : \/ pending'[j] = AfterExpiry(load)[j]
                           \/ pending'[j] = AfterDefer(j, AfterExpiry(load)[j], load, TRUE)
    BY <1>2 DEF TickBusy, TickNoneEligible
  <2>2. /\ hist' = AfterExpiryHist(load) /\ nextSeq' = AfterExpirySeq(load)
        /\ revision' = AfterExpiryRevision(load)
    BY <2>1 DEF ExpiryOnly
  <2>3. nextSeq' >= AfterExpirySeq(load)
    BY <1>1, <2>2
  <2>4. \A j \in Jobs : Waits(j) \/ Adds(j, ExpiryRecord(j, load))
    BY <1>1, <2>1, <2>2, <2>3, OthersFate
  <2> QED BY <1>1, <2>1, <2>2, <2>4
<1>3. ASSUME NEW w \in Jobs, Grants(w, load),
             NEW m \in Nat, nextSeq' = m, m >= AfterExpirySeq(load),
             \A j \in Jobs \ {w} : hist'[j] = AfterExpiryHist(load)[j]
      PROVE  \A j \in Jobs \ {w} : Waits(j) \/ Adds(j, ExpiryRecord(j, load))
  <2>1. \A j \in Jobs \ {w} : \E lost :
           pending'[j] = AfterDefer(j, AfterExpiry(load)[j], load, lost)
    BY <1>3 DEF Grants
  <2> QED BY <1>3, <2>1, OthersFate
<1>4. ASSUME NEW w \in Jobs, TickLaunch(w, load)
      PROVE  /\ TickStarts
             /\ nextSeq' = AfterExpirySeq(load) /\ revision' = AfterExpiryRevision(load)
             /\ hist' = AfterExpiryHist(load)
             /\ \A j \in Jobs : Waits(j) \/ (\E rec : Adds(j, rec)) \/ Runs(j)
             /\ Runs(w)
  <2>1. /\ Grants(w, load) /\ ExpiryOnly(load)
        /\ active' = [NoChild EXCEPT !.job = w, !.start = wall,
                        !.sched = AfterDue(w).sched, !.coal = AfterDue(w).coal,
                        !.eof = (Limit = 0)]
    BY <1>4 DEF TickLaunch
  <2>2. active'.job = w /\ active'.sched = AfterDue(w).sched
    BY <2>1 DEF NoChild
  <2>3. /\ TickStarts /\ nextSeq' = AfterExpirySeq(load)
        /\ revision' = AfterExpiryRevision(load) /\ hist' = AfterExpiryHist(load)
    BY <2>1 DEF Grants, ExpiryOnly
  <2>4. Runs(w)
    BY <2>1, <2>2, <2>3, WinnerFate DEF Runs
  <2>5. AfterExpirySeq(load) >= AfterExpirySeq(load)
    BY <1>1
  <2>6. \A j \in Jobs \ {w} : Waits(j) \/ Adds(j, ExpiryRecord(j, load))
    BY <1>1, <1>3, <2>1, <2>3, <2>5
  <2> QED BY <2>3, <2>4, <2>6
<1>5. ASSUME NEW w \in Jobs, TickSpawnFails(w, load)
      PROVE  /\ TickStarts /\ active' = active
             /\ nextSeq' = AfterExpirySeq(load) + 1
             /\ revision' = AfterExpiryRevision(load) + 1
             /\ \A j \in Jobs : Waits(j) \/ (\E rec : Adds(j, rec))
  <2> DEFINE rec == [seq |-> AfterExpirySeq(load), sched |-> AfterDue(w).sched,
                     outcome |-> "spawn_failed", coal |-> AfterDue(w).coal, fin |-> wall]
  <2>1. /\ Grants(w, load) /\ active' = active
        /\ hist' = [AfterExpiryHist(load) EXCEPT ![w] = Recorded(@, rec)]
        /\ nextSeq' = AfterExpirySeq(load) + 1
        /\ revision' = AfterExpiryRevision(load) + 1
    BY <1>5 DEF TickSpawnFails
  <2>2. rec \in Records /\ rec.sched = AfterDue(w).sched /\ rec.seq = AfterExpirySeq(load)
    <3>1. wall \in Nat /\ AfterDue(w).sched \in Nat /\ AfterDue(w).coal \in BOOLEAN
      <4>1. wall \in Nat
        BY TimingAssumption DEF TypeOK, Civil
      <4>2. AfterDue(w) \in Pending
        BY AfterDueType
      <4> QED BY <4>1, <4>2 DEF Pending
    <3> QED BY <1>1, <3>1 DEF Records, Outcomes
  <2> HIDE DEF rec
  <2>3. hist'[w] = Recorded(hist[w], rec) /\ pending'[w] = NoPending /\ AfterDue(w).on
    BY <2>1, WinnerFate, ExpiryType
  <2>4. Adds(w, rec)
    BY <1>1, <2>1, <2>2, <2>3 DEF Adds
  <2>5. \A j \in Jobs \ {w} : hist'[j] = AfterExpiryHist(load)[j]
    BY <2>1, ExpiryType
  <2>6. AfterExpirySeq(load) + 1 \in Nat /\ AfterExpirySeq(load) + 1 >= AfterExpirySeq(load)
    BY <1>1
  <2>7. \A j \in Jobs \ {w} : Waits(j) \/ Adds(j, ExpiryRecord(j, load))
    BY <1>3, <2>1, <2>5, <2>6
  <2> QED BY <2>1, <2>4, <2>7 DEF Grants
<1>6. ASSUME NEW w \in Jobs, TickSpawnFails(w, load)
      PROVE  nextSeq' \in Nat /\ nextSeq' >= nextSeq /\ revision' \in Nat /\ revision' > revision
  BY <1>1, <1>5, <1>6
<1> QED BY <1>1, <1>2, <1>4, <1>5, <1>6

-----------------------------------------------------------------------------
(* No occurrence twice.                                                     *)

(* The occurrences of job j, with the instants h in its history.            *)
JobDistinct(j) ==
    /\ \A i, k \in 1 .. Len(hist[j]) : i # k => hist[j][i].sched # hist[j][k].sched
    /\ \A i \in 1 .. Len(hist[j]) :
          /\ hist[j][i].sched < due[j]
          /\ active.job = j => hist[j][i].sched # active.sched
          /\ pending[j].on => hist[j][i].sched < pending[j].sched
    /\ active.job = j => active.sched < due[j]
    /\ active.job = j /\ pending[j].on => active.sched < pending[j].sched
    /\ pending[j].on => pending[j].sched < due[j]

(* What a tick starts from, once due occurrences have become pending.       *)
LEMMA DueDistinct ==
    ASSUME TypeOK, TickStarts, NEW j \in Jobs, JobDistinct(j)
    PROVE  /\ due'[j] \in Nat /\ AfterDue(j).sched \in Nat
           /\ \A i \in 1 .. Len(hist[j]) :
                 /\ hist[j][i] \in Records /\ hist[j][i].sched \in Nat
                 /\ hist[j][i].sched < due'[j]
                 /\ AfterDue(j).on => hist[j][i].sched < AfterDue(j).sched
           /\ active.job = j => active.sched < due'[j]
           /\ active.job = j /\ AfterDue(j).on => active.sched < AfterDue(j).sched
           /\ AfterDue(j).on => AfterDue(j).sched < due'[j]
<1>1. /\ due[j] \in Nat /\ wall \in Civil /\ wall \in Nat /\ pending[j] \in Pending
      /\ active.sched \in Nat /\ hist[j] \in Seq(Records)
  BY TimingAssumption DEF TypeOK, Civil, Child
<1>2. pending[j].on \in BOOLEAN /\ pending[j].sched \in Nat
  BY <1>1 DEF Pending
<1>3. /\ due'[j] \in Nat /\ due[j] <= due'[j]
      /\ IsDue(j) => due[j] < due'[j]
  <2>1. due'[j] = AfterDueNext(j) /\ ~NoFutureOccurrence
    BY DEF TickStarts
  <2>2. CASE IsDue(j)
    <3>1. NextAfter(j, wall) \in Nat /\ NextAfter(j, wall) > wall
      BY <1>1, <2>1, <2>2, NextAfterAssumption DEF NoFutureOccurrence
    <3> QED BY <1>1, <2>1, <2>2, <3>1 DEF AfterDueNext, IsDue
  <2>3. CASE ~IsDue(j)
    BY <1>1, <2>1, <2>3 DEF AfterDueNext
  <2> QED BY <2>2, <2>3
<1>4. \A i \in 1 .. Len(hist[j]) : hist[j][i] \in Records /\ hist[j][i].sched \in Nat
  <2>1. \A i \in 1 .. Len(hist[j]) : hist[j][i] \in Records
    BY <1>1, ElementOfSeq
  <2> QED BY <2>1 DEF Records
<1>5. CASE Fresh(j)
  <2>1. IsDue(j) /\ AfterDue(j).sched = due[j]
    BY <1>5 DEF Fresh, AfterDue
  <2> QED BY <1>1, <1>3, <1>4, <2>1 DEF JobDistinct
<1>6. CASE ~Fresh(j)
  <2>1. AfterDue(j).sched = pending[j].sched /\ AfterDue(j).on = pending[j].on
    BY <1>1, <1>6 DEF AfterDue, Pending
  <2> QED BY <1>1, <1>2, <1>3, <1>4, <2>1 DEF JobDistinct
<1> QED BY <1>5, <1>6

LEMMA TickDistinct ==
    ASSUME TypeOK, Tick, NEW j \in Jobs, JobDistinct(j)
    PROVE  JobDistinct(j)'
<1> DEFINE a == AfterDue(j)
<1>1. /\ TickStarts
      /\ Waits(j) \/ (\E rec : Adds(j, rec)) \/ Runs(j)
      /\ active' = active \/ \E w \in Jobs : Runs(w)
  BY TickFates
<1>2. /\ due'[j] \in Nat /\ a.sched \in Nat
      /\ \A i \in 1 .. Len(hist[j]) :
            /\ hist[j][i] \in Records /\ hist[j][i].sched \in Nat
            /\ hist[j][i].sched < due'[j]
            /\ a.on => hist[j][i].sched < a.sched
      /\ active.job = j => active.sched < due'[j]
      /\ active.job = j /\ a.on => active.sched < a.sched
      /\ a.on => a.sched < due'[j]
  BY <1>1, DueDistinct
<1>3. hist[j] \in Seq(Records) /\ active.sched \in Nat
  BY DEF TypeOK, Child
<1>4. ~NoPending.on
  BY DEF NoPending
<1>5. \A i, k \in 1 .. Len(hist[j]) : i # k => hist[j][i].sched # hist[j][k].sched
  BY DEF JobDistinct
<1>6. active' = active \/ (active'.job = j => Runs(j))
  BY <1>1 DEF Runs
<1> HIDE DEF a
<1>7. CASE Waits(j)
  <2>1. /\ hist'[j] = hist[j] /\ pending'[j].on = a.on /\ pending'[j].sched = a.sched
    BY <1>7 DEF Waits, a
  <2>2. CASE active' = active
    BY <1>2, <1>3, <1>5, <2>1, <2>2 DEF JobDistinct
  <2>3. CASE active'.job # j
    BY <1>2, <1>3, <1>5, <2>1, <2>3 DEF JobDistinct
  <2>4. CASE active'.job = j /\ Runs(j)
    BY <1>2, <1>3, <1>4, <1>5, <2>4 DEF JobDistinct, Runs, a
  <2> QED BY <1>6, <2>2, <2>3, <2>4
<1>8. CASE Runs(j)
  BY <1>2, <1>3, <1>4, <1>5, <1>8 DEF JobDistinct, Runs, a
<1>9. ASSUME NEW rec, Adds(j, rec)
      PROVE  JobDistinct(j)'
  <2>1. /\ a.on /\ rec \in Records /\ rec.sched = a.sched
        /\ hist'[j] = Recorded(hist[j], rec) /\ ~pending'[j].on
    BY <1>4, <1>9 DEF Adds, a
  <2>2. \A i \in 1 .. Len(hist[j]) : hist[j][i].sched # rec.sched
    BY <1>2, <2>1
  <2> DEFINE r == Recorded(hist[j], rec)
  <2>3. /\ \A i, k \in 1 .. Len(r) : i # k => r[i].sched # r[k].sched
        /\ \A i \in 1 .. Len(r) :
              r[i] = rec \/ \E k \in 1 .. Len(hist[j]) : r[i] = hist[j][k]
    BY <1>3, <1>5, <2>1, <2>2, RecordedDistinct
  <2> HIDE DEF r
  <2>4. \A i \in 1 .. Len(r) : r[i].sched < due'[j] /\ r[i].sched <= a.sched
    BY <1>2, <2>1, <2>3
  <2>5. CASE active' = active
    <3>1. active.job = j => \A i \in 1 .. Len(r) : r[i].sched # active.sched
      <4>1. ASSUME active.job = j, NEW i \in 1 .. Len(r)
            PROVE  r[i].sched # active.sched
        BY <1>2, <1>3, <2>1, <2>3, <4>1 DEF JobDistinct
      <4> QED BY <4>1
    <3> QED BY <1>2, <2>1, <2>3, <2>4, <2>5, <3>1 DEF JobDistinct, r
  <2>6. CASE active'.job # j
    BY <1>2, <2>1, <2>3, <2>4, <2>6 DEF JobDistinct, r
  <2>7. CASE Runs(j)
    BY <1>2, <1>3, <1>4, <1>5, <2>7 DEF JobDistinct, Runs, a
  <2> QED BY <1>6, <2>5, <2>6, <2>7
<1> QED BY <1>1, <1>7, <1>8, <1>9

LEMMA FinishDistinct ==
    ASSUME TypeOK, FinishChild, NEW j \in Jobs, JobDistinct(j)
    PROVE  JobDistinct(j)'
<1> DEFINE rec == [seq |-> nextSeq, sched |-> active.sched, outcome |-> active.exit,
                   coal |-> active.coal, fin |-> active.fin]
<1>1. /\ hist' = [hist EXCEPT ![active.job] = Recorded(@, rec)]
      /\ active' = NoChild /\ UNCHANGED <<due, pending>>
      /\ active.job # 0 /\ active.exit # "none"
  BY DEF FinishChild, SlotFree, engine
<1>2. hist \in [Jobs -> Seq(Records)] /\ active \in Child /\ active'.job # j
  BY <1>1, JobAssumption DEF TypeOK, NoChild, Jobs
<1>3. CASE active.job # j
  <2>1. hist'[j] = hist[j]
    BY <1>1, <1>2, <1>3
  <2> QED BY <1>1, <1>2, <2>1 DEF JobDistinct
<1>4. CASE active.job = j
  <2>1. rec \in Records /\ rec.sched = active.sched
    BY <1>1, <1>2 DEF Records, Child, Outcomes, TypeOK
  <2> HIDE DEF rec
  <2>2. hist'[j] = Recorded(hist[j], rec) /\ hist[j] \in Seq(Records)
    BY <1>1, <1>2, <1>4
  <2> DEFINE r == Recorded(hist[j], rec)
  <2>3. /\ \A i, k \in 1 .. Len(r) : i # k => r[i].sched # r[k].sched
        /\ \A i \in 1 .. Len(r) :
              r[i] = rec \/ \E k \in 1 .. Len(hist[j]) : r[i] = hist[j][k]
    <3>1. /\ \A i, k \in 1 .. Len(hist[j]) : i # k => hist[j][i].sched # hist[j][k].sched
          /\ \A i \in 1 .. Len(hist[j]) : hist[j][i].sched # rec.sched
      BY <1>4, <2>1 DEF JobDistinct
    <3> QED BY <2>1, <2>2, <3>1, RecordedDistinct
  <2>0. hist'[j] = r
    BY <2>2
  <2> HIDE DEF r
  <2>4. \A i \in 1 .. Len(r) :
           r[i].sched < due[j] /\ (pending[j].on => r[i].sched < pending[j].sched)
    BY <1>4, <2>1, <2>3 DEF JobDistinct
  <2>5. pending'[j] = pending[j] /\ due'[j] = due[j] /\ (pending[j].on => pending[j].sched < due[j])
    BY <1>1 DEF JobDistinct
  <2> QED BY <1>2, <2>0, <2>3, <2>4, <2>5 DEF JobDistinct
<1> QED BY <1>3, <1>4

LEMMA DistinctStep ==
    ASSUME TypeOK, [Next]_vars, NEW j \in Jobs, JobDistinct(j)
    PROVE  JobDistinct(j)'
<1>1. CASE TickFails \/ StopAfterKill
  <2>1. UNCHANGED <<hist, due, pending>> /\ active'.job # j
    BY <1>1 DEF TickFails, StopAfterKill, engine, observer, NoChild, Jobs
  <2> QED BY <2>1 DEF JobDistinct
<1>2. CASE \/ PublishAndLoop \/ PublishAndSleep \/ OutputEnds \/ FreezeExit
           \/ (\E o \in ChildOutcomes : ChildExits(o))
           \/ RequestShutdown \/ ObserveShutdown \/ TimePasses
           \/ (\E s \in Skews : ClockSteps(s)) \/ UNCHANGED vars
  <2>1. /\ UNCHANGED <<hist, due, pending>>
        /\ active'.job = active.job /\ active'.sched = active.sched
    BY <1>2 DEF PublishAndLoop, PublishAndSleep, OutputEnds, FreezeExit, ChildExits,
       RequestShutdown, ObserveShutdown, TimePasses, ClockSteps, vars, engine,
       observer, TypeOK, Child
  <2> QED BY <2>1 DEF JobDistinct
<1> QED BY <1>1, <1>2, TickDistinct, FinishDistinct DEF Next

(* No civil occurrence of a job is run or recorded twice, even when the     *)
(* clock steps back (Engine::tick, take_expired, finish_child).             *)
THEOREM OccurrencesDistinct == Spec => []NoOccurrenceTwice
<1> DEFINE D == \A j \in Jobs : JobDistinct(j)
<1>1. Init => D
  BY DEF Init, JobDistinct, NoChild, NoPending, Jobs
<1>2. TypeOK /\ D /\ [Next]_vars => D'
  BY DistinctStep
<1>3. D => NoOccurrenceTwice
  BY DEF JobDistinct, NoOccurrenceTwice
<1> HIDE DEF D
<1> QED BY <1>1, <1>2, <1>3, TypeCorrect, PTL DEF Spec

-----------------------------------------------------------------------------
(* What is served.                                                          *)

(* The served document is one that was published, and a revision of the     *)
(* history stands for one history.                                          *)
Document == [live |-> TRUE, revision |-> revision, jobs |-> JobDocs, hist |-> hist]
ServedFollows ==
    /\ pub.live => pub = [live |-> TRUE, revision |-> pub.revision,
                          jobs |-> pub.jobs, hist |-> pub.hist]
    /\ pub.live => pub.revision <= revision
    /\ pub.live /\ pub.revision = revision => pub.hist = hist

HistoriesRise == \A j \in Jobs : Rising(hist[j], nextSeq)

(* The steps that leave the engine and its histories alone.                 *)
Beside ==
    /\ UNCHANGED <<due, pending, gate, hist, nextSeq, revision>>
    /\ active'.job = active.job /\ active'.start = active.start
    /\ active'.sched = active.sched

LEMMA BesideSteps ==
    ASSUME TypeOK,
           \/ PublishAndLoop \/ PublishAndSleep \/ OutputEnds \/ FreezeExit
           \/ (\E o \in ChildOutcomes : ChildExits(o))
           \/ RequestShutdown \/ ObserveShutdown \/ TimePasses
           \/ (\E s \in Skews : ClockSteps(s)) \/ UNCHANGED vars
    PROVE  Beside
  BY DEF PublishAndLoop, PublishAndSleep, OutputEnds, FreezeExit, ChildExits,
     RequestShutdown, ObserveShutdown, TimePasses, ClockSteps, vars, engine,
     observer, TypeOK, Child, Beside

LEMMA BesideDocument ==
    ASSUME Beside
    PROVE  JobDocs' = JobDocs /\ Document' = Document
<1>1. ASSUME NEW j \in Jobs PROVE JobDoc(j)' = JobDoc(j)
  BY DEF Beside, JobDoc, JobStateOf, IsDeferred
<1>2. JobDocs' = JobDocs
  BY <1>1 DEF JobDocs
<1> QED BY <1>2 DEF Beside, Document

LEMMA RiseStep ==
    ASSUME TypeOK, HistoriesRise, [Next]_vars
    PROVE  HistoriesRise'
<1>1. nextSeq \in Nat /\ hist \in [Jobs -> Seq(Records)]
  BY DEF TypeOK
<1>2. ASSUME NEW j \in Jobs, NEW n \in Nat, n >= nextSeq
      PROVE  Rising(hist[j], n)
  <2>1. \A i \in 1 .. Len(hist[j]) : hist[j][i] \in Records
    BY <1>1, ElementOfSeq
  <2>2. \A x \in Records : x.seq \in Nat
    BY DEF Records
  <2>3. Rising(hist[j], nextSeq)
    BY DEF HistoriesRise
  <2> QED BY <1>1, <1>2, <2>1, <2>2, <2>3 DEF Rising
<1>3. CASE Tick
  <2>1. /\ nextSeq' \in Nat /\ nextSeq' >= nextSeq
        /\ \A j \in Jobs : Waits(j) \/ (\E rec : Adds(j, rec)) \/ Runs(j)
    BY <1>3, TickFates
  <2>2. ASSUME NEW j \in Jobs
        PROVE  Rising(hist'[j], nextSeq')
    <3>1. CASE hist'[j] = hist[j]
      BY <1>2, <2>1, <3>1
    <3>2. ASSUME NEW rec, Adds(j, rec)
          PROVE  Rising(hist'[j], nextSeq')
      BY <1>1, <2>1, <3>2, RecordedRises DEF Adds, HistoriesRise
    <3> QED BY <2>1, <3>1, <3>2 DEF Waits, Runs
  <2> QED BY <2>2 DEF HistoriesRise, Rising
<1>4. CASE FinishChild
  <2> DEFINE rec == [seq |-> nextSeq, sched |-> active.sched, outcome |-> active.exit,
                     coal |-> active.coal, fin |-> active.fin]
  <2>1. /\ hist' = [hist EXCEPT ![active.job] = Recorded(@, rec)] /\ nextSeq' = nextSeq + 1
        /\ active.exit # "none" /\ active \in Child
    BY <1>4 DEF FinishChild, TypeOK
  <2>2. rec \in Records /\ rec.seq = nextSeq
    BY <1>1, <2>1 DEF Records, Child, Outcomes
  <2> HIDE DEF rec
  <2>3. ASSUME NEW j \in Jobs
        PROVE  Rising(hist'[j], nextSeq')
    <3>1. CASE j = active.job
      <4>1. hist'[j] = Recorded(hist[j], rec) /\ hist[j] \in Seq(Records)
        BY <1>1, <2>1, <3>1
      <4>2. Rising(hist[j], nextSeq) /\ nextSeq <= rec.seq /\ rec.seq < nextSeq'
            /\ nextSeq' \in Nat
        BY <1>1, <2>1, <2>2 DEF HistoriesRise
      <4> QED BY <1>1, <2>2, <4>1, <4>2, RecordedRises
    <3>2. CASE j # active.job
      BY <1>1, <1>2, <2>1, <3>2
    <3> QED BY <3>1, <3>2
  <2> QED BY <2>3 DEF HistoriesRise, Rising
<1>5. CASE TickFails \/ StopAfterKill
  BY <1>5 DEF TickFails, StopAfterKill, observer, HistoriesRise, Rising
<1>6. CASE Beside
  BY <1>6 DEF Beside, HistoriesRise, Rising
<1> QED BY <1>3, <1>4, <1>5, <1>6, BesideSteps DEF Next

(* The revision and the history a step leaves behind.                        *)
LEMMA RevisionMoves ==
    ASSUME TypeOK, [Next]_vars
    PROVE  revision' \in Nat /\ revision' >= revision /\ (revision' = revision => hist' = hist)
<1>1. revision \in Nat
  BY DEF TypeOK
<1>2. CASE FinishChild
  BY <1>1, <1>2 DEF FinishChild
<1>3. CASE TickFails \/ StopAfterKill
  BY <1>1, <1>3 DEF TickFails, StopAfterKill, observer
<1>4. CASE Beside
  BY <1>1, <1>4 DEF Beside
<1> QED BY <1>2, <1>3, <1>4, TickFates, BesideSteps DEF Next

(* What a publication leaves: the document of the current state, or the one   *)
(* that was there and says the same.                                        *)
Publishes == PublishAndLoop \/ PublishAndSleep

LEMMA PublishesCurrent ==
    ASSUME ServedFollows, Publish
    PROVE  pub' = Document
<1>1. CASE Unchanged
  BY <1>1 DEF Unchanged, ServedFollows, Publish, Document
<1>2. CASE ~Unchanged
  BY <1>2 DEF Publish, Document
<1> QED BY <1>1, <1>2

LEMMA PubUntouched ==
    ASSUME TypeOK, [Next]_vars, ~Publishes
    PROVE  pub' = pub
<1>1. CASE Tick
  BY <1>1, TickFates DEF TickStarts
<1>2. CASE ~Tick
  BY <1>2 DEF Next, Publishes, TickFails, ChildExits, OutputEnds, FreezeExit, FinishChild,
     RequestShutdown, ObserveShutdown, StopAfterKill, TimePasses, ClockSteps, vars
<1> QED BY <1>1, <1>2

LEMMA FollowsStep ==
    ASSUME TypeOK, ServedFollows, [Next]_vars
    PROVE  /\ ServedFollows'
           /\ pub.live => /\ pub'.revision >= pub.revision
                          /\ pub'.revision = pub.revision => pub'.hist = pub.hist
<1>1. revision \in Nat /\ pub.revision \in Nat
  BY DEF TypeOK
<1>2. revision' \in Nat /\ revision' >= revision /\ (revision' = revision => hist' = hist)
  BY RevisionMoves
<1>3. CASE Publishes
  <2>1. pub' = Document /\ Document' = Document /\ UNCHANGED <<revision, hist>>
    <3>1. Publish /\ Beside
      BY <1>3, BesideSteps DEF Publishes, PublishAndLoop, PublishAndSleep
    <3> QED BY <3>1, PublishesCurrent, BesideDocument DEF Beside
  <2>2. /\ pub'.live /\ pub'.revision = revision /\ pub'.jobs = JobDocs /\ pub'.hist = hist
        /\ pub' = [live |-> TRUE, revision |-> pub'.revision,
                   jobs |-> pub'.jobs, hist |-> pub'.hist]
    BY <2>1 DEF Document
  <2> QED BY <1>1, <1>2, <2>1, <2>2 DEF ServedFollows
<1>4. CASE ~Publishes
  <2>1. pub' = pub
    BY <1>4, PubUntouched
  <2>2. pub.live => pub.revision <= revision'
    BY <1>1, <1>2 DEF ServedFollows
  <2>3. pub.live /\ pub.revision = revision' => pub.hist = hist'
    BY <1>1, <1>2 DEF ServedFollows
  <2> QED BY <1>1, <2>1, <2>2, <2>3 DEF ServedFollows
<1> QED BY <1>3, <1>4

LEMMA DocumentValid ==
    ASSUME TypeOK, HistoriesRise
    PROVE  (\A j \in Jobs : ValidJob(JobDocs[j])) /\ ValidHistories(hist)
<1>1. ASSUME NEW j \in Jobs
      PROVE  ValidJob(JobDocs[j])
  <2>1. JobDocs[j] = JobDoc(j)
    BY DEF JobDocs
  <2>2. /\ JobDoc(j).state = JobStateOf(j) /\ JobDoc(j).load = gate[j]
        /\ JobDoc(j).nextRetry = IF IsDeferred(j) THEN pending[j].retryUnix ELSE -1
        /\ JobDoc(j).runningSince = IF active.job = j THEN active.start ELSE -1
    BY DEF JobDoc
  <2>3. pending[j].on \in BOOLEAN
    BY DEF TypeOK, Pending
  <2>4. CASE IsDeferred(j)
    <3>1. JobStateOf(j) = IF gate[j] = NoLoad THEN "load_unavailable" ELSE "load_high"
      BY <2>4 DEF JobStateOf, IsDeferred
    <3> QED BY <2>1, <2>2, <2>4, <3>1 DEF ValidJob, IsDeferred
  <2>5. CASE ~IsDeferred(j)
    <3>1. JobStateOf(j) \in {"running", "idle", "waiting_for_slot"}
      BY <2>3, <2>5 DEF JobStateOf, IsDeferred
    <3> QED BY <2>1, <2>2, <2>5, <3>1 DEF ValidJob
  <2> QED BY <2>4, <2>5
<1>2. ValidHistories(hist)
  BY DEF ValidHistories, HistoriesRise, Rising
<1> QED BY <1>1, <1>2

LEMMA ValidStep ==
    ASSUME TypeOK, HistoriesRise, ServedFollows, ServedIsValid, [Next]_vars
    PROVE  ServedIsValid'
<1>1. CASE Publishes
  <2>1. pub' = Document
    BY <1>1, PublishesCurrent DEF Publishes, PublishAndLoop, PublishAndSleep
  <2>2. pub'.jobs = JobDocs /\ pub'.hist = hist
    BY <2>1 DEF Document
  <2>3. (\A j \in Jobs : ValidJob(pub'.jobs[j])) /\ ValidHistories(pub'.hist)
    BY <2>2, DocumentValid
  <2> QED BY <2>3 DEF ServedIsValid, ValidJob, ValidHistories
<1>2. CASE ~Publishes
  BY <1>2, PubUntouched DEF ServedIsValid, ValidJob, ValidHistories
<1> QED BY <1>1, <1>2

LEMMA CurrentStep ==
    ASSUME TypeOK, ServedFollows, ServedIsCurrent, [Next]_vars
    PROVE  ServedIsCurrent'
<1> SUFFICES ASSUME phase' = "sleep"
             PROVE  pub' = Document'
  BY DEF ServedIsCurrent, Document
<1>1. CASE PublishAndSleep
  <2>1. Publish /\ Beside
    BY <1>1, BesideSteps DEF PublishAndSleep
  <2> QED BY <2>1, PublishesCurrent, BesideDocument
<1>2. CASE \/ OutputEnds \/ FreezeExit \/ (\E o \in ChildOutcomes : ChildExits(o))
           \/ RequestShutdown \/ TimePasses
           \/ (\E s \in Skews : ClockSteps(s)) \/ UNCHANGED vars
  <2>1. phase = "sleep" /\ pub' = pub
    BY <1>2 DEF OutputEnds, FreezeExit, ChildExits, RequestShutdown, TimePasses, ClockSteps,
       vars, loop
  <2>2. Document' = Document
    BY <1>2, BesideSteps, BesideDocument
  <2> QED BY <2>1, <2>2 DEF ServedIsCurrent, Document
<1>3. CASE Tick
  BY <1>3 DEF Tick, TickBusy, TickNoneEligible, TickLaunch, TickSpawnFails, Grants
<1>4. CASE TickFails \/ PublishAndLoop \/ FinishChild \/ ObserveShutdown \/ StopAfterKill
  BY <1>4 DEF TickFails, PublishAndLoop, FinishChild, ObserveShutdown, StopAfterKill
<1> QED BY <1>1, <1>2, <1>3, <1>4 DEF Next

(* The load reading of a waiting job.                                       *)
Refusing(j) == gate[j] # NoGate => j \in Gated /\ (gate[j] = NoLoad \/ gate[j] > MaxLoad[j])

LEMMA RefusedByTick ==
    ASSUME TypeOK, Tick, NEW j \in Jobs, pending'[j].on, pending[j].on => Refusing(j)
    PROVE  Refusing(j)'
<1> PICK load \in LoadStates :
        \/ TickBusy(load)
        \/ TickNoneEligible(load)
        \/ \E w \in Jobs : TickLaunch(w, load) \/ TickSpawnFails(w, load)
  BY DEF Tick
<1>1. AfterDue(j).on
  BY TickFates DEF Waits, Adds, Runs, NoPending
<1>2. ASSUME gate'[j] = AfterDueGate(j)
      PROVE  Refusing(j)'
  <2>1. CASE Fresh(j)
    BY <1>2, <2>1 DEF AfterDueGate, Refusing
  <2>2. CASE ~Fresh(j)
    <3>1. pending[j].on /\ gate'[j] = gate[j]
      BY <1>1, <1>2, <2>2 DEF AfterDue, AfterDueGate, TypeOK, Pending
    <3> QED BY <3>1 DEF Refusing
  <2> QED BY <2>1, <2>2
<1>3. ASSUME NEW p, NEW lost, Deferred(j, p, load, lost), gate'[j] = Observed(j, load)
      PROVE  Refusing(j)'
  BY <1>3 DEF Deferred, Blocked, Observed, Refusing
<1>4. CASE TickBusy(load)
  BY <1>2, <1>4 DEF TickBusy
<1>5. CASE TickNoneEligible(load)
  BY <1>2, <1>3, <1>5 DEF TickNoneEligible
<1>6. ASSUME NEW w \in Jobs, Grants(w, load)
      PROVE  Refusing(j)'
  <2>1. j # w
    BY <1>6, WinnerFate DEF NoPending
  <2>2. \/ gate'[j] = AfterDueGate(j)
        \/ \E lost : Deferred(j, AfterExpiry(load)[j], load, lost) /\ gate'[j] = Observed(j, load)
    BY <1>6, <2>1 DEF Grants
  <2> QED BY <1>2, <1>3, <2>2
<1> QED BY <1>4, <1>5, <1>6 DEF TickLaunch, TickSpawnFails

LEMMA RefusedStep ==
    ASSUME TypeOK, ReadingRefused, [Next]_vars
    PROVE  ReadingRefused'
<1>1. \A j \in Jobs : pending[j].on => Refusing(j)
  BY DEF ReadingRefused, PendingJobs, Refusing
<1>2. \A j \in Jobs : pending'[j].on => Refusing(j)'
  <2>1. CASE Tick
    BY <1>1, <2>1, RefusedByTick
  <2>2. CASE TickFails \/ StopAfterKill \/ FinishChild
    BY <1>1, <2>2 DEF TickFails, StopAfterKill, FinishChild, engine, Refusing
  <2>3. CASE Beside
    BY <1>1, <2>3 DEF Beside, Refusing
  <2> QED BY <2>1, <2>2, <2>3, BesideSteps DEF Next
<1> QED BY <1>2 DEF ReadingRefused, PendingJobs, Refusing

Served == ServedFollows /\ HistoriesRise /\ ServedIsCurrent /\ ServedIsValid /\ ReadingRefused

LEMMA ServedInvariance == Spec => []Served
<1>1. Init => Served
  <2> SUFFICES ASSUME Init PROVE Served
    OBVIOUS
  <2>1. ServedFollows /\ ServedIsValid /\ ServedIsCurrent
    BY DEF Init, EmptyDocument, ServedFollows, ServedIsValid, ServedIsCurrent
  <2>2. HistoriesRise /\ ReadingRefused
    BY DEF Init, HistoriesRise, Rising, ReadingRefused, PendingJobs, NoPending
  <2> QED BY <2>1, <2>2 DEF Served
<1>2. TypeOK /\ Served /\ [Next]_vars => Served'
  BY FollowsStep, RiseStep, CurrentStep, ValidStep, RefusedStep DEF Served
<1> QED BY <1>1, <1>2, TypeCorrect, PTL DEF Spec

(* What the scheduler serves is its current state while it sleeps, passes   *)
(* the validation clients apply, and shows no load reading but one that      *)
(* refused its job (Engine::publish, SchedulerObserver::publish).            *)
THEOREM ServedSound == Spec => []ServedIsSound
<1>1. Served => ServedIsSound
  BY DEF Served, ServedIsSound
<1> QED BY <1>1, ServedInvariance, PTL

-----------------------------------------------------------------------------
(* Decisions stand.                                                         *)

ChildOrNone == active.job = 0 => active = NoChild
TimeOnlyReady == \A k \in Jobs \ Gated : pending[k].on => pending[k].retry <= now

LEMMA ChildStep ==
    ASSUME TypeOK, ChildOrNone, [Next]_vars
    PROVE  ChildOrNone'
<1>1. CASE Tick
  BY <1>1, TickFates DEF ChildOrNone, Runs, Jobs
<1>2. CASE TickFails \/ StopAfterKill \/ FinishChild
  BY <1>2 DEF TickFails, StopAfterKill, FinishChild, ChildOrNone
<1>3. CASE OutputEnds \/ FreezeExit \/ (\E o \in ChildOutcomes : ChildExits(o))
  BY <1>3 DEF OutputEnds, FreezeExit, ChildExits, SlotFree, ChildOrNone, TypeOK, Child
<1>4. CASE \/ PublishAndLoop \/ PublishAndSleep \/ RequestShutdown \/ ObserveShutdown
           \/ TimePasses \/ (\E s \in Skews : ClockSteps(s)) \/ UNCHANGED vars
  BY <1>4 DEF PublishAndLoop, PublishAndSleep, RequestShutdown, ObserveShutdown, TimePasses,
     ClockSteps, vars, ChildOrNone
<1> QED BY <1>1, <1>2, <1>3, <1>4 DEF Next

(* A time-only job is a candidate for the slot as long as it waits.          *)
LEMMA TimeOnlyAfterDue ==
    ASSUME TypeOK, TimeOnlyReady, NEW k \in Jobs \ Gated, AfterDue(k).on
    PROVE  AfterDue(k).retry <= now
<1>1. now \in Nat /\ pending[k] \in Pending
  BY DEF TypeOK
<1>2. CASE Fresh(k)
  BY <1>1, <1>2 DEF AfterDue
<1>3. CASE ~Fresh(k)
  BY <1>1, <1>3 DEF AfterDue, Pending, TimeOnlyReady
<1> QED BY <1>2, <1>3

LEMMA ReadyStep ==
    ASSUME TypeOK, TimeOnlyReady, [Next]_vars
    PROVE  TimeOnlyReady'
<1>1. CASE Tick
  <2>1. now' = now
    BY <1>1, TickFates DEF TickStarts
  <2>2. ASSUME NEW k \in Jobs \ Gated, pending'[k].on
        PROVE  Waits(k) /\ AfterDue(k).on
    <3>1. Waits(k) \/ (\E rec : Adds(k, rec)) \/ Runs(k)
      BY <1>1, TickFates
    <3>2. pending'[k] # NoPending
      BY <2>2 DEF NoPending
    <3>3. Waits(k)
      BY <3>1, <3>2 DEF Adds, Runs
    <3> QED BY <2>2, <3>3 DEF Waits
  <2> QED BY <2>1, <2>2, TimeOnlyAfterDue DEF TimeOnlyReady, Waits
<1>2. CASE TimePasses
  <2>1. now \in Nat /\ now' = now + 1 /\ pending' = pending
        /\ \A k \in Jobs : pending[k].retry \in Nat
    BY <1>2 DEF TimePasses, engine, TypeOK, Pending
  <2> QED BY <2>1 DEF TimeOnlyReady
<1>3. CASE now' = now /\ pending' = pending
  BY <1>3 DEF TimeOnlyReady
<1>4. CASE ~Tick /\ ~TimePasses
  BY <1>3, <1>4 DEF Next, TickFails, PublishAndLoop, PublishAndSleep, ChildExits, OutputEnds,
     FreezeExit, FinishChild, RequestShutdown, ObserveShutdown, StopAfterKill, ClockSteps,
     vars, clocks, engine
<1> QED BY <1>1, <1>2, <1>4

LEMMA SettleKept ==
    ASSUME TypeOK, ChildOrNone, [Next]_vars, active.exit # "none", active'.job # 0
    PROVE  /\ active'.settleAt = active.settleAt /\ active'.fin = active.fin
           /\ active'.exit = active.exit
<1>1. active.job # 0
  BY DEF ChildOrNone, NoChild
<1>2. CASE Tick
  BY <1>1, <1>2, TickFates DEF Runs
<1>3. CASE TickFails \/ StopAfterKill \/ FinishChild
  BY <1>3 DEF TickFails, StopAfterKill, FinishChild, NoChild
<1>4. CASE OutputEnds \/ FreezeExit \/ (\E o \in ChildOutcomes : ChildExits(o))
  BY <1>4 DEF OutputEnds, FreezeExit, ChildExits, TypeOK, Child
<1>5. CASE \/ PublishAndLoop \/ PublishAndSleep \/ RequestShutdown \/ ObserveShutdown
           \/ TimePasses \/ (\E s \in Skews : ClockSteps(s)) \/ UNCHANGED vars
  BY <1>5 DEF PublishAndLoop, PublishAndSleep, RequestShutdown, ObserveShutdown, TimePasses,
     ClockSteps, vars
<1> QED BY <1>2, <1>3, <1>4, <1>5 DEF Next

LEMMA OnlyLaunchStarts ==
    ASSUME TypeOK, [Next]_vars, NEW w \in Jobs, active.job = 0, active'.job = w
    PROVE  \E load \in LoadStates : Grants(w, load)
<1>1. w # 0
  BY DEF Jobs
<1>2. CASE Tick
  <2> PICK load \in LoadStates :
          \/ TickBusy(load)
          \/ TickNoneEligible(load)
          \/ \E x \in Jobs : TickLaunch(x, load) \/ TickSpawnFails(x, load)
    BY <1>2 DEF Tick
  <2>1. CASE TickBusy(load) \/ TickNoneEligible(load)
    BY <1>1, <2>1 DEF TickBusy, TickNoneEligible
  <2>2. ASSUME NEW x \in Jobs, TickSpawnFails(x, load)
        PROVE  FALSE
    BY <1>1, <2>2 DEF TickSpawnFails
  <2>3. ASSUME NEW x \in Jobs, TickLaunch(x, load)
        PROVE  Grants(w, load)
    <3>1. Grants(x, load) /\ active'.job = x
      BY <2>3 DEF TickLaunch, NoChild
    <3> QED BY <3>1
  <2> QED BY <2>1, <2>2, <2>3
<1>3. CASE TickFails \/ StopAfterKill \/ FinishChild
  BY <1>1, <1>3 DEF TickFails, StopAfterKill, FinishChild, NoChild
<1>4. CASE Beside
  BY <1>1, <1>4 DEF Beside
<1> QED BY <1>2, <1>3, <1>4, BesideSteps DEF Next

LEMMA NotOvertaken ==
    ASSUME TypeOK, TimeOnlyReady, [Next]_vars, NEW k \in Jobs \ Gated, NEW w \in Jobs,
           pending[k].on, pending'[k].on, active.job = 0, active'.job = w
    PROVE  Before([since |-> IF pending[w].on THEN pending[w].since ELSE now],
                  w, pending[k], k)
<1>1. PICK load \in LoadStates : Grants(w, load)
  BY OnlyLaunchStarts
<1> DEFINE ps == AfterExpiry(load)
<1>2. w # k /\ Selected(w, ps, load)
  BY <1>1, WinnerFate DEF Grants, NoPending
<1>3. ps[w] = AfterDue(w) /\ AfterDue(w).on
  BY <1>1, WinnerFate, ExpiryFate
<1>4. ps[k] = AfterDue(k) /\ AfterDue(k).on /\ AfterDue(k).since = pending[k].since
  <2>1. k \notin ExpiredJobs(load)
    BY DEF ExpiredJobs, Expires, Blocked
  <2>2. AfterDue(k).on /\ AfterDue(k).since = pending[k].since
    BY DEF AfterDue, Fresh, TypeOK, Pending
  <2> QED BY <2>1, <2>2, ExpiryFate
<1>5. AfterDue(w).since = IF pending[w].on THEN pending[w].since ELSE now
  <2>1. CASE Fresh(w)
    BY <2>1 DEF AfterDue, Fresh
  <2>2. CASE ~Fresh(w)
    BY <1>3, <2>2 DEF AfterDue, TypeOK, Pending
  <2> QED BY <2>1, <2>2
<1>6. Eligible(k, ps[k], load)
  BY <1>4, TimeOnlyAfterDue DEF Eligible, Candidate, Blocked
<1>7. Before(ps[w], w, ps[k], k)
  BY <1>2, <1>6 DEF Selected
<1> QED BY <1>3, <1>4, <1>5, <1>7 DEF Before

(* What was decided stands: a revision of the history that was served names  *)
(* one history, a wake in the settle window changes nothing about it, and a   *)
(* waiting time-only job is not overtaken (SchedulerObserver::publish,         *)
(* await_child_completion, Engine::tick).                                   *)
THEOREM Decided == Spec => DecisionsStand
<1> DEFINE I == TypeOK /\ Served /\ ChildOrNone /\ TimeOnlyReady
<1>1. Init => ChildOrNone /\ TimeOnlyReady
  BY DEF Init, ChildOrNone, TimeOnlyReady, NoPending
<1>2. TypeOK /\ ChildOrNone /\ TimeOnlyReady /\ [Next]_vars => (ChildOrNone /\ TimeOnlyReady)'
  BY ChildStep, ReadyStep
<1>3. I /\ [Next]_vars =>
        (pub.live => /\ pub'.revision >= pub.revision
                     /\ pub'.revision = pub.revision => pub'.hist = pub.hist)
  BY FollowsStep DEF Served
<1>4. I /\ [Next]_vars =>
        (active.exit # "none" /\ active'.job # 0 =>
          /\ active'.settleAt = active.settleAt
          /\ active'.fin = active.fin
          /\ active'.exit = active.exit)
  BY SettleKept
<1>5. I /\ [Next]_vars =>
        \A k \in Jobs \ Gated, w \in Jobs :
          (/\ pending[k].on /\ pending'[k].on
           /\ active.job = 0 /\ active'.job = w)
            => Before([since |-> IF pending[w].on THEN pending[w].since ELSE now],
                      w, pending[k], k)
  BY NotOvertaken
<1> QED BY <1>1, <1>2, <1>3, <1>4, <1>5, TypeCorrect, ServedInvariance, PTL
        DEF Spec, DecisionsStand, RevisionNamesHistory, SettleFixed, TimeOnlyNotOvertaken

-----------------------------------------------------------------------------
(* The wait under a prompt runtime.                                         *)

(* A retry is set by a tick that found its occurrence short of max_wait.     *)
RetryBound(j, p) == p.on => p.retry < p.since + MaxWait[j] + Retry[j]
RetriesBounded == \A j \in Gated : RetryBound(j, pending[j])

LEMMA BoundAfterTick ==
    ASSUME TypeOK, RetriesBounded, NEW j \in Gated, NEW load \in LoadStates,
           NEW lost \in BOOLEAN
    PROVE  /\ RetryBound(j, AfterExpiry(load)[j])
           /\ RetryBound(j, AfterDefer(j, AfterExpiry(load)[j], load, lost))
<1> DEFINE p == AfterExpiry(load)[j]
           q == AfterDefer(j, p, load, lost)
<1>1. /\ now \in Nat /\ j \in Jobs /\ pending[j] \in Pending
      /\ MaxWait[j] \in Nat \ {0} /\ Retry[j] \in Nat \ {0}
  BY JobAssumption, TimingAssumption DEF TypeOK
<1>2. p \in Pending BY <1>1, AfterExpiryType
<1>3. p = IF Expires(j, AfterDue(j), load) THEN NoPending ELSE AfterDue(j)
  BY <1>1 DEF AfterExpiry
<1>4. p.on => /\ p = AfterDue(j) /\ ~Expires(j, AfterDue(j), load)
  BY <1>3 DEF NoPending
<1>5. RetryBound(j, AfterDue(j))
  <2>1. CASE Fresh(j)
    BY <1>1, <2>1 DEF AfterDue, RetryBound
  <2>2. CASE ~Fresh(j)
    <3>1. /\ AfterDue(j).on = pending[j].on /\ AfterDue(j).retry = pending[j].retry
          /\ AfterDue(j).since = pending[j].since
      BY <1>1, <2>2 DEF AfterDue, Pending
    <3> QED BY <3>1 DEF RetryBound, RetriesBounded
  <2> QED BY <2>1, <2>2
<1>6. RetryBound(j, p) BY <1>4, <1>5 DEF RetryBound
<1> HIDE DEF p
<1>7. RetryBound(j, q)
  <2>1. CASE Deferred(j, p, load, lost)
    <3>1. p.on /\ Blocked(j, load) BY <2>1 DEF Deferred, Candidate
    <3>2. now - p.since < MaxWait[j]
      BY <1>1, <1>2, <1>4, <3>1 DEF Expires, Pending
    <3>3. /\ q.since = p.since /\ q.retry = now + Retry[j]
      BY <1>2, <2>1 DEF AfterDefer, Pending
    <3>4. p.since \in Nat BY <1>2 DEF Pending
    <3> QED BY <1>1, <3>2, <3>3, <3>4 DEF RetryBound
  <2>2. CASE ~Deferred(j, p, load, lost)
    BY <1>6, <2>2 DEF AfterDefer
  <2> QED BY <2>1, <2>2
<1> QED BY <1>6, <1>7 DEF p

LEMMA BoundStep ==
    ASSUME TypeOK, RetriesBounded, [Next]_vars
    PROVE  RetriesBounded'
<1>1. ASSUME NEW j \in Gated, Tick PROVE RetryBound(j, pending'[j])
  <2>0. j \in Jobs BY JobAssumption
  <2>1. PICK load \in LoadStates :
           \/ TickBusy(load) \/ TickNoneEligible(load)
           \/ \E w \in Jobs : TickLaunch(w, load) \/ TickSpawnFails(w, load)
    BY <1>1 DEF Tick
  <2>2. CASE TickBusy(load)
    BY <2>0, <2>2, BoundAfterTick DEF TickBusy
  <2>3. CASE TickNoneEligible(load)
    BY <2>0, <2>3, BoundAfterTick DEF TickNoneEligible
  <2>4. ASSUME NEW w \in Jobs, Grants(w, load) PROVE RetryBound(j, pending'[j])
    <3> DEFINE ps == AfterExpiry(load)
               lost == Before(ps[j], j, ps[w], w)
    <3>1. pending'[j] = IF j = w THEN NoPending ELSE AfterDefer(j, ps[j], load, lost)
      BY <2>0, <2>4 DEF Grants
    <3>2. lost \in BOOLEAN BY DEF Before
    <3> HIDE DEF lost
    <3>3. RetryBound(j, AfterDefer(j, ps[j], load, lost)) BY <3>2, BoundAfterTick
    <3>4. RetryBound(j, NoPending) BY DEF RetryBound, NoPending
    <3> QED BY <3>1, <3>3, <3>4
  <2> QED BY <2>1, <2>2, <2>3, <2>4 DEF TickLaunch, TickSpawnFails
<1>2. CASE ~Tick
  <2>1. pending' = pending
    BY <1>2 DEF Next, TickFails, PublishAndLoop, PublishAndSleep, ChildExits, OutputEnds,
       FreezeExit, FinishChild, RequestShutdown, ObserveShutdown, StopAfterKill, TimePasses,
       ClockSteps, vars, engine
  <2> QED BY <2>1 DEF RetriesBounded, RetryBound
<1> QED BY <1>1, <1>2 DEF RetriesBounded, RetryBound

(* A prompt runtime publishes at the instant of the tick and wakes when the   *)
(* sleep ends; no retry elapses before it with the slot free, when only      *)
(* gated occurrences wait.                                                  *)
PromptLoop ==
    /\ phase = "publish_sleep" => tickNow = now
    /\ phase = "sleep" => now <= wakeAt
    /\ phase = "sleep" /\ SlotFree =>
          \A j \in PendingJobs : j \in Gated /\ wakeAt <= pending[j].retry

LEMMA PromptStep ==
    ASSUME TypeOK, NoElapsedRetry, DueAhead, TimeOnlyReady, PromptLoop, Next,
           ~(CanAct /\ now' # now)
    PROVE  PromptLoop'
<1>0. now \in Nat /\ wakeAt \in Nat /\ tickNow \in Nat BY DEF TypeOK
<1>1. CASE Tick
  <2>1. phase' \in {"publish_sleep", "publish_loop"} /\ now' = now /\ tickNow' = now
    BY <1>1 DEF Tick, TickBusy, TickNoneEligible, TickLaunch, TickSpawnFails, Grants, TickStarts
  <2> QED BY <2>1 DEF PromptLoop
<1>2. CASE PublishAndSleep
  <2>1. /\ phase = "publish_sleep" /\ phase' = "sleep" /\ now' = now
        /\ pending' = pending /\ active' = active /\ tickNow = now
        /\ \A d \in Deadlines(now) : wakeAt' <= d
    BY <1>2 DEF PublishAndSleep, PromptLoop, clocks, engine
  <2>2. wakeAt' > now BY <1>2, <2>1, SleepAhead
  <2>3. ASSUME SlotFree, NEW j \in Jobs, pending[j].on
        PROVE  j \in Gated /\ wakeAt' <= pending[j].retry
    <3>1. pending[j].retry > now
      BY <2>1, <2>3 DEF NoElapsedRetry, PendingJobs
    <3>2. pending[j].retry \in Nat BY DEF TypeOK, Pending
    <3>3. j \in Gated BY <1>0, <2>3, <3>1, <3>2 DEF TimeOnlyReady
    <3>4. pending[j].retry \in Deadlines(now) BY <2>3, <3>1 DEF Deadlines
    <3> QED BY <2>1, <3>3, <3>4
  <2>4. wakeAt' \in Nat BY <1>2, TypeStep DEF TypeOK
  <2> QED BY <1>0, <2>1, <2>2, <2>3, <2>4 DEF PromptLoop, PendingJobs, SlotFree
<1>3. CASE TimePasses
  <2>1. now' = now + 1 /\ UNCHANGED <<pending, active, phase, tickNow, wakeAt>>
    BY <1>3 DEF TimePasses, engine, loop
  <2>2. ~CanAct BY <1>0, <2>1
  <2>3. phase # "publish_sleep" /\ (phase = "sleep" => now < wakeAt)
    BY <1>0, <2>2 DEF CanAct
  <2>4. phase = "sleep" => now + 1 <= wakeAt BY <1>0, <2>3
  <2> QED BY <2>1, <2>3, <2>4 DEF PromptLoop, PendingJobs, SlotFree
<1>4. CASE ~Tick /\ ~PublishAndSleep /\ ~TimePasses
  <2>1. \/ phase' \notin {"publish_sleep", "sleep"}
        \/ /\ UNCHANGED <<now, phase, tickNow, wakeAt, pending>>
           /\ active'.job = active.job
    BY <1>4 DEF Next, TickFails, PublishAndLoop, ChildExits, OutputEnds, FreezeExit,
       FinishChild, RequestShutdown, ObserveShutdown, StopAfterKill, ClockSteps, clocks,
       engine, loop, TypeOK, Child
  <2> QED BY <2>1 DEF PromptLoop, PendingJobs, SlotFree
<1> QED BY <1>1, <1>2, <1>3, <1>4

PromptInv ==
    /\ TypeOK /\ NoElapsedRetry /\ DueAhead /\ TimeOnlyReady /\ RetriesBounded
    /\ ~late => PromptLoop

LEMMA PromptIsBounded == PromptInv => PromptWaitBounded
<1> SUFFICES ASSUME PromptInv, ~late, phase = "sleep", SlotFree,
                    NEW j \in Jobs, pending[j].on
             PROVE  j \in Gated /\ now - pending[j].since < MaxWait[j] + Retry[j]
  BY DEF PromptWaitBounded, WaitBounded, PendingJobs
<1>1. j \in Gated /\ now <= wakeAt /\ wakeAt <= pending[j].retry
  BY DEF PromptInv, PromptLoop, PendingJobs
<1>2. pending[j].retry < pending[j].since + MaxWait[j] + Retry[j]
  BY <1>1 DEF PromptInv, RetriesBounded, RetryBound
<1>3. /\ now \in Nat /\ wakeAt \in Nat /\ pending[j].retry \in Nat
      /\ pending[j].since \in Nat /\ MaxWait[j] \in Nat /\ Retry[j] \in Nat
  BY <1>1, TimingAssumption DEF PromptInv, TypeOK, Pending
<1> QED BY <1>1, <1>2, <1>3

(* With a prompt runtime and a free slot no time-only occurrence waits and a  *)
(* load-gated one waits less than max_wait plus one retry interval            *)
(* (Engine::tick, next_deadline), for any number of jobs, any calendar, any   *)
(* load readings and any step of the civil clock.                            *)
THEOREM PromptWaits == LateSpec => []PromptWaitBounded
<1>1. LateInit => PromptInv
  <2> SUFFICES ASSUME LateInit PROVE PromptInv
    OBVIOUS
  <2>1. TypeOK /\ NoElapsedRetry /\ DueAhead
    BY InitType, InitRetry DEF LateInit
  <2>2. phase = "publish_loop" /\ \A j \in Jobs : ~pending[j].on
    BY DEF LateInit, Init, NoPending
  <2> QED BY <2>1, <2>2, JobAssumption
          DEF PromptInv, TimeOnlyReady, RetriesBounded, RetryBound, PromptLoop
<1>2. PromptInv /\ [LateNext]_<<vars, late>> => PromptInv'
  <2> SUFFICES ASSUME PromptInv, [LateNext]_<<vars, late>> PROVE PromptInv'
    OBVIOUS
  <2>1. [Next]_vars BY DEF LateNext
  <2>2. (TypeOK /\ NoElapsedRetry /\ DueAhead /\ TimeOnlyReady /\ RetriesBounded)'
    BY <2>1, TypeStep, RetryStep, DueAheadStep, ReadyStep, BoundStep DEF PromptInv
  <2>3. ASSUME ~late' PROVE PromptLoop'
    <3>1. CASE LateNext
      <4>1. ~late /\ ~(CanAct /\ now' # now) /\ Next
        BY <2>3, <3>1 DEF LateNext
      <4> QED BY <4>1, PromptStep DEF PromptInv
    <3>2. CASE UNCHANGED <<vars, late>>
      BY <2>3, <3>2 DEF vars, PromptInv, PromptLoop, PendingJobs, SlotFree
    <3> QED BY <3>1, <3>2
  <2> QED BY <2>2, <2>3 DEF PromptInv
<1> QED BY <1>1, <1>2, PromptIsBounded, PTL DEF LateSpec
=============================================================================

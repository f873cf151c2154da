---------------------------- MODULE PartsProofs ----------------------------
(***************************************************************************)
(* Proofs about the parts that share no state with one another: the metrics  *)
(* path, the self-update, the service unit, the Windows service, the          *)
(* collector's cycles, the drive refresh, the captured command and the        *)
(* accept gate.  Each part has its own inductive invariant and the lemmas     *)
(* that carry it.                                                           *)
(***************************************************************************)
EXTENDS MetricsServer, SelfUpdate, ServiceUnit, WindowsService, HostCollector, DriveRefresh,
        BoundedChild, AcceptGate, FiniteSetTheorems, NaturalsInduction, WellFoundedInduction,
        TLAPS

-----------------------------------------------------------------------------
(* The metrics path, for any requests, memo cells, clock and staleness policy.*)

(* The one collection is the one the sampler holds a handle of, until a      *)
(* shutdown detaches it.                                                    *)
HandleCounts ==
    /\ threads <= 1
    /\ handle = "running" => threads = 1
    /\ handle # "running" /\ pc # "stopped" => threads = 0
    /\ pc = "stopped" => handle = "none"

(* What a cycle leaves in the sampler.  Warming is its first state only.     *)
SamplerCoherent ==
    /\ sampler.readiness # "failed" => sampler.failures = 0
    /\ sampler.readiness = "ready" => sampler.snap[2] # None /\ (v1 <=> sampler.snap[1] # None)
    /\ sampler.snap[1] # None => sampler.snap[1] = sampler.snap[2]

(* Between a cycle and its publication the server lags by one failure.       *)
FailuresFollow ==
    /\ pc # "publish" => sampler.failures <= published.failures
    /\ sampler.failures <= Saturating(published.failures)

(* Only schema v1 is ever not served, where the collector lacks it, and the   *)
(* sampler does not go back to warming afterwards.                           *)
NotServingIsV1 ==
    \A v \in Versions : published.health[v] = "not_serving" =>
        v = 1 /\ ~v1 /\ sampler.readiness # "warming"

PublicationInv ==
    HandleCounts /\ SamplerCoherent /\ FailuresFollow /\ PublicationCoherent /\ NotServingIsV1

(* A request between taking the cell and its answer, and the cell itself,    *)
(* know only the snapshot of the publication the cell belongs to.            *)
Holding(r) == req[r].phase \in {"init", "recheck"}
CellOfPublication ==
    /\ \A v \in Versions : memo[published.cell][v] \in {None, published.snap[v]}
    /\ \A r \in Requests :
          Holding(r) /\ req[r].cell = published.cell =>
             req[r].snap = published.snap[req[r].version]

(* A request holds a cell while it fills or rechecks one, and has no code      *)
(* before its answer.                                                        *)
RequestsCoherent ==
    \A r \in Requests :
        /\ Holding(r) => req[r].cell \in Cells
        /\ req[r].phase # "answered" => req[r].code = 0

-----------------------------------------------------------------------------
(* Types of what the steps compute.                                         *)

LEMMA SaturatingType ==
    ASSUME NEW n \in 0 .. FailureCap
    PROVE  Saturating(n) \in 0 .. FailureCap /\ n <= Saturating(n)
  BY ConstantsAssumption DEF Saturating

LEMMA AppliedType ==
    ASSUME TypeOK, NEW given
    PROVE  Applied(given) \in [readiness : Readiness, snap : [Versions -> Snapshots],
                                failures : 0 .. FailureCap]
<1>1. now # PreEpoch =>
        [v \in Versions |-> IF v = 2 \/ v1 THEN now ELSE None] \in [Versions -> Snapshots]
  BY DEF TypeOK, Snapshots
<1>2. 0 \in 0 .. FailureCap /\ Saturating(sampler.failures) \in 0 .. FailureCap
  BY SaturatingType, ConstantsAssumption DEF TypeOK
<1> QED BY <1>1, <1>2 DEF TypeOK, Applied, Readiness

LEMMA SyncedType ==
    ASSUME TypeOK, NEW c \in Cells
    PROVE  Synced(c) \in [snap : [Versions -> Snapshots], observed : Snapshots,
                          health : [Versions -> Health], cell : Cells,
                          failures : 0 .. FailureCap]
<1>1. Updated(c) \in [snap : [Versions -> Snapshots], observed : Snapshots,
                      health : [Versions -> Health], cell : Cells, failures : 0 .. FailureCap]
  BY ConstantsAssumption DEF TypeOK, Updated, Health, Readiness, Versions
<1>2. SetWarming(c) \in [snap : [Versions -> Snapshots], observed : Snapshots,
                         health : [Versions -> Health], cell : Cells, failures : 0 .. FailureCap]
  BY ConstantsAssumption DEF SetWarming, Health, Readiness, Snapshots
<1>3. SetFailed(c) \in [snap : [Versions -> Snapshots], observed : Snapshots,
                        health : [Versions -> Health], cell : Cells, failures : 0 .. FailureCap]
  BY SaturatingType DEF TypeOK, SetFailed, Health, Readiness
<1> QED BY <1>1, <1>2, <1>3 DEF Synced, TypeOK, Readiness

LEMMA IdleType == Idle \in RequestStates /\ Idle.cell = NoCell /\ Idle.code = 0
  BY DEF Idle, RequestStates, Snapshots, Versions, Codes

LEMMA AnsweredType ==
    ASSUME NEW r, NEW v \in Versions, NEW code \in Codes, NEW body \in Snapshots
    PROVE  /\ Answered(r, v, code, body) \in RequestStates
           /\ Answered(r, v, code, body).phase = "answered"
           /\ Answered(r, v, code, body).code = code
           /\ Answered(r, v, code, body).snap = body
           /\ Answered(r, v, code, body).cell = NoCell
  BY IdleType DEF Answered, RequestStates

LEMMA ArrivedType ==
    ASSUME NEW v \in Versions, NEW n \in 0 .. 2
    PROVE  LET arrived == [Idle EXCEPT !.phase = "now", !.version = v, !.attempt = n]
           IN  arrived \in RequestStates /\ arrived.phase = "now" /\ arrived.code = 0
  BY IdleType DEF RequestStates

-----------------------------------------------------------------------------
(* A step of a request changes that request and at most its memo cell.        *)

LEMMA HealthNowStep ==
    ASSUME TypeOK, RequestsCoherent, NEW r \in Requests, HealthNow(r)
    PROVE  /\ req' \in [Requests -> RequestStates]
           /\ \A s \in Requests \ {r} : req'[s] = req[s]
           /\ \/ /\ req'[r].phase = "init" /\ req'[r].cell = published.cell
                 /\ req'[r].code = 0
                 /\ req'[r].snap = published.snap[req'[r].version]
              \/ req'[r].phase = "answered" /\ req'[r].code = 503
           /\ UNCHANGED <<now, v1, samplerVars, shutdown, published, memo>>
<1>1. /\ req[r] \in RequestStates /\ published.snap[req[r].version] \in Snapshots
      /\ published.cell \in Cells /\ req[r].phase = "now" /\ req[r].code = 0
  BY DEF TypeOK, RequestStates, HealthNow, RequestsCoherent
<1> DEFINE taken == [req[r] EXCEPT !.phase = "init", !.cell = published.cell,
                                   !.snap = published.snap[req[r].version]]
<1>2. /\ taken \in RequestStates /\ taken.phase = "init" /\ taken.cell = published.cell
      /\ taken.code = 0 /\ taken.snap = published.snap[taken.version]
  BY <1>1 DEF RequestStates
<1> DEFINE refused == Answered(r, req[r].version, 503, None)
<1>3. refused \in RequestStates /\ refused.phase = "answered" /\ refused.code = 503
  BY <1>1, AnsweredType DEF RequestStates, Snapshots, Codes
<1>4. \/ req' = [req EXCEPT ![r] = taken]
      \/ req' = [req EXCEPT ![r] = refused]
  BY DEF HealthNow
<1> HIDE DEF taken, refused
<1>5. UNCHANGED <<now, v1, samplerVars, shutdown, published, memo>>
  BY DEF HealthNow
<1> QED BY <1>2, <1>3, <1>4, <1>5 DEF TypeOK

LEMMA MemoInitStep ==
    ASSUME TypeOK, RequestsCoherent, NEW r \in Requests, MemoInit(r)
    PROVE  LET q == req[r]
               body == IF memo[q.cell][q.version] = None THEN q.snap
                       ELSE memo[q.cell][q.version]
           IN  /\ q.cell \in Cells /\ q.version \in Versions /\ q.phase = "init"
               /\ memo' = [memo EXCEPT ![q.cell][q.version] = body]
               /\ memo' \in [Cells -> [Versions -> Snapshots]]
               /\ req' \in [Requests -> RequestStates]
               /\ \A s \in Requests \ {r} : req'[s] = req[s]
               /\ req'[r].phase = "recheck" /\ req'[r].snap = body
               /\ req'[r].cell = q.cell /\ req'[r].version = q.version
               /\ req'[r].code = 0
               /\ UNCHANGED <<now, v1, samplerVars, shutdown, published>>
<1> DEFINE q == req[r]
           body == IF memo[q.cell][q.version] = None THEN q.snap
                   ELSE memo[q.cell][q.version]
<1>1. /\ q \in RequestStates /\ q.cell \in Cells /\ q.version \in Versions
      /\ q.phase = "init" /\ q.code = 0 /\ q.snap \in Snapshots
  BY DEF TypeOK, RequestStates, MemoInit, RequestsCoherent, Holding
<1>2. body \in Snapshots
  BY <1>1 DEF TypeOK
<1>3. /\ memo' = [memo EXCEPT ![q.cell][q.version] = body]
      /\ req' = [req EXCEPT ![r].phase = "recheck", ![r].snap = body]
      /\ UNCHANGED <<now, v1, samplerVars, shutdown, published>>
  BY DEF MemoInit
<1> HIDE DEF body
<1>4. memo' \in [Cells -> [Versions -> Snapshots]]
  BY <1>1, <1>2, <1>3 DEF TypeOK
<1>5. /\ req'[r] \in RequestStates /\ req'[r].phase = "recheck" /\ req'[r].snap = body
      /\ req'[r].cell = q.cell /\ req'[r].version = q.version /\ req'[r].code = 0
  <2>1. req'[r] = [q EXCEPT !.phase = "recheck", !.snap = body]
    BY <1>3 DEF TypeOK, RequestStates
  <2> QED BY <1>1, <1>2, <2>1 DEF RequestStates
<1>6. req' \in [Requests -> RequestStates] /\ \A s \in Requests \ {r} : req'[s] = req[s]
  BY <1>3, <1>5 DEF TypeOK
<1> QED BY <1>1, <1>3, <1>4, <1>5, <1>6 DEF body

LEMMA RecheckStep ==
    ASSUME TypeOK, RequestsCoherent, NEW r \in Requests, Recheck(r)
    PROVE  /\ req' \in [Requests -> RequestStates]
           /\ \A s \in Requests \ {r} : req'[s] = req[s]
           /\ \/ /\ MemoIsCurrent(req[r].cell, req[r].version)
                 /\ req'[r].phase = "answered" /\ req'[r].snap = req[r].snap
              \/ req'[r].phase = "answered" /\ req'[r].code # 200
              \/ req'[r].phase = "now" /\ req'[r].code = 0
           /\ UNCHANGED <<now, v1, samplerVars, shutdown, published, memo>>
<1> DEFINE q == req[r]
           agreed == Answered(r, q.version, 200, q.snap)
           again == [Idle EXCEPT !.phase = "now", !.version = q.version,
                                 !.attempt = q.attempt + 1]
           refused == Answered(r, q.version, 503, None)
<1>1. q \in RequestStates
  BY DEF TypeOK
<1>2. agreed \in RequestStates /\ agreed.phase = "answered" /\ agreed.snap = q.snap
  BY <1>1, AnsweredType DEF RequestStates, Codes
<1>3. refused \in RequestStates /\ refused.phase = "answered" /\ refused.code # 200
  BY <1>1, AnsweredType DEF RequestStates, Snapshots, Codes
<1>4. q.attempt < 2 => again \in RequestStates /\ again.phase = "now" /\ again.code = 0
  <2>1. q.attempt \in 0 .. 2 /\ q.version \in Versions
    BY <1>1 DEF RequestStates
  <2>2. q.attempt < 2 => q.attempt + 1 \in 0 .. 2
    BY <2>1
  <2> QED BY <2>1, <2>2, ArrivedType
<1>5. \/ MemoIsCurrent(q.cell, q.version) /\ req' = [req EXCEPT ![r] = agreed]
      \/ q.attempt < 2 /\ req' = [req EXCEPT ![r] = again]
      \/ req' = [req EXCEPT ![r] = refused]
  BY DEF Recheck
<1>6. UNCHANGED <<now, v1, samplerVars, shutdown, published, memo>>
  BY DEF Recheck
<1> HIDE DEF agreed, again, refused
<1> QED BY <1>2, <1>3, <1>4, <1>5, <1>6 DEF TypeOK

(* A request that is answered at once, in one of three ways, or that arrives.  *)
LEMMA AnswerStep ==
    ASSUME TypeOK, NEW r \in Requests,
           \/ MemoInitFails(r)
           \/ \E v \in Asked : Status(r, v) \/ HealthArrives(r, v)
    PROVE  /\ req' \in [Requests -> RequestStates]
           /\ \A s \in Requests \ {r} : req'[s] = req[s]
           /\ req[r].phase # "recheck"
           /\ \/ req'[r].phase = "answered"
              \/ req'[r].phase = "now" /\ req'[r].code = 0
           /\ UNCHANGED <<now, v1, samplerVars, shutdown, published, memo>>
<1>1. CASE MemoInitFails(r)
  <2>1. req[r].version \in Versions
    BY DEF TypeOK, RequestStates
  <2>2. 500 \in Codes /\ None \in Snapshots
    BY DEF Codes, Snapshots
  <2>3. Answered(r, req[r].version, 500, None) \in RequestStates
        /\ Answered(r, req[r].version, 500, None).phase = "answered"
    BY <2>1, <2>2, AnsweredType
  <2> QED BY <1>1, <2>3 DEF MemoInitFails, TypeOK
<1>2. ASSUME NEW v \in Asked, Status(r, v)
      PROVE  /\ req' \in [Requests -> RequestStates]
             /\ \A s \in Requests \ {r} : req'[s] = req[s]
             /\ req[r].phase # "recheck" /\ req'[r].phase = "answered"
             /\ UNCHANGED <<now, v1, samplerVars, shutdown, published, memo>>
  <2>1. v \in Versions
    BY ConstantsAssumption DEF Versions
  <2> DEFINE body == IF StatusCode(v) = 200 THEN published.snap[v] ELSE None
  <2>2. body \in Snapshots /\ StatusCode(v) \in {200, 503}
    BY <2>1 DEF TypeOK, StatusCode, Snapshots
  <2>3. Answered(r, v, StatusCode(v), body) \in RequestStates
        /\ Answered(r, v, StatusCode(v), body).phase = "answered"
    BY <2>1, <2>2, AnsweredType DEF Codes
  <2> QED BY <1>2, <2>3 DEF Status, TypeOK, Free
<1>3. ASSUME NEW v \in Asked, HealthArrives(r, v)
      PROVE  /\ req' \in [Requests -> RequestStates]
             /\ \A s \in Requests \ {r} : req'[s] = req[s]
             /\ req[r].phase # "recheck" /\ req'[r].phase = "now" /\ req'[r].code = 0
             /\ UNCHANGED <<now, v1, samplerVars, shutdown, published, memo>>
  <2> DEFINE arrived == [Idle EXCEPT !.phase = "now", !.version = v, !.attempt = 1]
  <2>1. arrived \in RequestStates /\ arrived.phase = "now" /\ arrived.code = 0
    <3>1. v \in Versions /\ 1 \in 0 .. 2
      BY ConstantsAssumption DEF Versions
    <3> QED BY <3>1, ArrivedType
  <2>2. req' = [req EXCEPT ![r] = arrived]
    BY <1>3 DEF HealthArrives
  <2> HIDE DEF arrived
  <2>3. req[r].phase # "recheck" /\ UNCHANGED <<now, v1, samplerVars, shutdown, published, memo>>
    BY <1>3 DEF HealthArrives, Free
  <2> QED BY <2>1, <2>2, <2>3 DEF TypeOK
<1> QED BY <1>1, <1>2, <1>3

-----------------------------------------------------------------------------
LEMMA InitType == Init => TypeOK /\ RequestsCoherent
<1> SUFFICES ASSUME Init PROVE TypeOK /\ RequestsCoherent
  OBVIOUS
<1>2. req \in [Requests -> RequestStates] /\ RequestsCoherent
  BY IdleType DEF Init, RequestsCoherent, Holding, Idle
<1>3. None \in Snapshots /\ 0 \in 0 .. FailureCap /\ {0, PreEpoch} \subseteq Times \cup {PreEpoch}
  BY ConstantsAssumption DEF Snapshots, Times, PreEpoch
<1>4. published \in [snap : [Versions -> Snapshots], observed : Snapshots,
                      health : [Versions -> Health], cell : Cells,
                      failures : 0 .. FailureCap]
  BY <1>3 DEF Init, Health, Readiness
<1>5. sampler \in [readiness : Readiness, snap : [Versions -> Snapshots],
                    failures : 0 .. FailureCap]
  BY <1>3 DEF Init, Readiness
<1> QED BY <1>2, <1>3, <1>4, <1>5, ConstantsAssumption DEF Init, TypeOK

LEMMA TypeStep == TypeOK /\ RequestsCoherent /\ [Next]_vars => (TypeOK /\ RequestsCoherent)'
<1> SUFFICES ASSUME TypeOK, RequestsCoherent, [Next]_vars PROVE (TypeOK /\ RequestsCoherent)'
  OBVIOUS
<1>a. ASSUME UNCHANGED req PROVE RequestsCoherent'
  BY <1>a DEF RequestsCoherent, Holding
<1>1. CASE StartCycle
  BY <1>1, <1>a DEF TypeOK, StartCycle
<1>2. CASE CycleCompletes
  BY <1>2, <1>a, AppliedType DEF TypeOK, CycleCompletes
<1>3. CASE CycleTimesOut
  BY <1>3, <1>a, AppliedType DEF TypeOK, CycleTimesOut
<1>4. CASE Publish
  <2>1. PICK c \in Cells : published' = Synced(c)
    BY <1>4 DEF Publish
  <2>2. memo' \in [Cells -> [Versions -> Snapshots]]
    BY <1>4 DEF Publish, TypeOK, Snapshots
  <2> QED BY <1>4, <1>a, <2>1, <2>2, SyncedType DEF TypeOK, Publish
<1>5. CASE SleepElapses
  BY <1>5, <1>a DEF TypeOK, SleepElapses
<1>6. CASE ObserveShutdown
  BY <1>6, <1>a DEF TypeOK, ObserveShutdown
<1>7. CASE JoinInFlightCycle
  BY <1>7, <1>a DEF TypeOK, JoinInFlightCycle
<1>8. ASSUME NEW r \in Requests, HealthNow(r) PROVE (TypeOK /\ RequestsCoherent)'
  BY <1>8, HealthNowStep DEF TypeOK, samplerVars, RequestsCoherent, Holding
<1>9. ASSUME NEW r \in Requests, MemoInit(r) PROVE (TypeOK /\ RequestsCoherent)'
  <2>1. /\ memo' \in [Cells -> [Versions -> Snapshots]]
        /\ req' \in [Requests -> RequestStates]
        /\ \A s \in Requests \ {r} : req'[s] = req[s]
        /\ req'[r].cell \in Cells /\ req'[r].code = 0
        /\ UNCHANGED <<now, v1, samplerVars, shutdown, published>>
    BY <1>9, MemoInitStep
  <2> QED BY <2>1 DEF TypeOK, samplerVars, RequestsCoherent, Holding
<1>10. ASSUME NEW r \in Requests, Recheck(r) PROVE (TypeOK /\ RequestsCoherent)'
  BY <1>10, RecheckStep DEF TypeOK, samplerVars, RequestsCoherent, Holding
<1>11. ASSUME NEW r \in Requests,
              MemoInitFails(r) \/ \E v \in Asked : Status(r, v) \/ HealthArrives(r, v)
       PROVE  (TypeOK /\ RequestsCoherent)'
  BY <1>11, AnswerStep DEF TypeOK, samplerVars, RequestsCoherent, Holding
<1>12. ASSUME NEW given \in Results, CollectorReturns(given) PROVE (TypeOK /\ RequestsCoherent)'
  BY <1>12, <1>a DEF TypeOK, CollectorReturns
<1>13. CASE DetachedCycleReturns
  BY <1>13, <1>a DEF TypeOK, DetachedCycleReturns
<1>14. CASE SendShutdown
  BY <1>14, <1>a DEF TypeOK, SendShutdown, samplerVars
<1>15. CASE ClockMoves
  BY <1>15, <1>a DEF TypeOK, ClockMoves, samplerVars
<1>16. CASE UNCHANGED vars
  BY <1>16, <1>a DEF TypeOK, vars
<1> QED BY <1>1, <1>2, <1>3, <1>4, <1>5, <1>6, <1>7, <1>8, <1>9, <1>10, <1>11, <1>12, <1>13,
           <1>14, <1>15, <1>16 DEF Next, SamplerStep, Serve, Environment

(* The types of the sampler, the publication, the memo cells and the         *)
(* requests, in every state of the specification.                           *)
THEOREM TypeCorrect == Spec => [](TypeOK /\ RequestsCoherent)
  BY InitType, TypeStep, PTL DEF Spec

-----------------------------------------------------------------------------
(* The requests leave the sampler and what it published alone.                *)
LEMMA ServingLeavesPublication ==
    ASSUME TypeOK, RequestsCoherent,
           \/ \E r \in Requests : Serve(r)
           \/ \E r \in Requests, v \in Asked : Status(r, v) \/ HealthArrives(r, v)
    PROVE  UNCHANGED <<v1, samplerVars, published>>
  BY DEF Serve, HealthNow, MemoInit, MemoInitFails, Recheck, Status, HealthArrives

LEMMA PublicationInvInit == Init => PublicationInv
  BY ConstantsAssumption DEF Init, PublicationInv, HandleCounts, SamplerCoherent, FailuresFollow,
     PublicationCoherent, NotServingIsV1, Saturating, Versions

LEMMA AppliedCoherent ==
    ASSUME TypeOK, SamplerCoherent, FailuresFollow, pc # "publish", NEW given,
           sampler' = Applied(given), UNCHANGED <<v1, published>>
    PROVE  /\ SamplerCoherent'
           /\ sampler'.failures <= Saturating(published.failures)
           /\ sampler'.readiness = "warming" => sampler.readiness = "warming"
<1>1. CASE given = "ok" /\ now # PreEpoch
  BY <1>1, SaturatingType DEF Applied, SamplerCoherent, TypeOK, Versions, Times, None, PreEpoch
<1>2. CASE given = "transient"
  BY <1>2 DEF Applied, SamplerCoherent, FailuresFollow
<1>3. CASE given # "transient" /\ ~(given = "ok" /\ now # PreEpoch)
  <2>1. sampler' = [sampler EXCEPT !.failures = Saturating(@), !.readiness = "failed"]
    BY <1>3 DEF Applied
  <2>2. Saturating(sampler.failures) <= Saturating(published.failures)
    BY ConstantsAssumption DEF FailuresFollow, Saturating, TypeOK
  <2> QED BY <2>1, <2>2 DEF SamplerCoherent, TypeOK
<1> QED BY <1>1, <1>2, <1>3

LEMMA PublicationStep ==
    TypeOK /\ RequestsCoherent /\ PublicationInv /\ [Next]_vars => PublicationInv'
<1> SUFFICES ASSUME TypeOK, RequestsCoherent, PublicationInv, [Next]_vars PROVE PublicationInv'
  OBVIOUS
<1> USE DEF PublicationInv
<1>1. CASE StartCycle
  BY <1>1 DEF StartCycle, TypeOK, HandleCounts, SamplerCoherent, FailuresFollow,
     PublicationCoherent, NotServingIsV1
<1>2. CASE CycleCompletes
  <2>1. SamplerCoherent' /\ FailuresFollow' /\ NotServingIsV1'
    BY <1>2, AppliedCoherent DEF CycleCompletes, FailuresFollow, NotServingIsV1
  <2> QED BY <1>2, <2>1 DEF CycleCompletes, HandleCounts, PublicationCoherent, Results
<1>3. CASE CycleTimesOut
  <2>1. SamplerCoherent' /\ FailuresFollow' /\ NotServingIsV1'
    BY <1>3, AppliedCoherent DEF CycleTimesOut, FailuresFollow, NotServingIsV1
  <2> QED BY <1>3, <2>1 DEF CycleTimesOut, HandleCounts, PublicationCoherent
<1>4. CASE Publish
  <2>1. PICK c \in Cells : published' = Synced(c)
    BY <1>4 DEF Publish
  <2>2. HandleCounts' /\ SamplerCoherent'
    BY <1>4 DEF Publish, HandleCounts, SamplerCoherent
  <2>3. CASE sampler.readiness = "ready"
    BY <1>4, <2>1, <2>2, <2>3, SaturatingType, ConstantsAssumption DEF Publish, Synced, Updated,
       TypeOK, SamplerCoherent, FailuresFollow, PublicationCoherent, NotServingIsV1, Versions
  <2>4. CASE sampler.readiness = "warming"
    BY <1>4, <2>1, <2>2, <2>4, SaturatingType, ConstantsAssumption DEF Publish, Synced, SetWarming,
       TypeOK, SamplerCoherent, FailuresFollow, PublicationCoherent, NotServingIsV1, Versions
  <2>5. CASE sampler.readiness = "failed"
    <3>1. published' = SetFailed(c)
      BY <2>1, <2>5 DEF Synced
    <3>2. /\ published'.failures = Saturating(published.failures)
          /\ published'.snap = published.snap /\ published'.observed = published.observed
          /\ \A v \in Versions : published'.health[v] =
                IF published.health[v] = "not_serving" THEN "not_serving" ELSE "failed"
      BY <3>1 DEF SetFailed, TypeOK
    <3>3. published'.failures \in 0 .. FailureCap /\ sampler' = sampler /\ v1' = v1
      BY <1>4, <3>2, SaturatingType DEF Publish, TypeOK
    <3>4. published'.failures <= Saturating(published'.failures)
      BY <3>3, SaturatingType
    <3>5. FailuresFollow'
      BY <3>2, <3>3, <3>4, SaturatingType DEF FailuresFollow, TypeOK
    <3>6. PublicationCoherent' /\ NotServingIsV1'
      BY <2>5, <3>2, <3>3 DEF PublicationCoherent, NotServingIsV1
    <3> QED BY <2>2, <3>5, <3>6
  <2> QED BY <2>3, <2>4, <2>5 DEF TypeOK, Readiness
<1>5. CASE SleepElapses \/ ObserveShutdown \/ JoinInFlightCycle
  BY <1>5 DEF SleepElapses, ObserveShutdown, JoinInFlightCycle, HandleCounts, SamplerCoherent,
     FailuresFollow, PublicationCoherent, NotServingIsV1
<1>6. ASSUME NEW given \in Results, CollectorReturns(given) PROVE PublicationInv'
  BY <1>6 DEF CollectorReturns, Results, HandleCounts, SamplerCoherent, FailuresFollow,
     PublicationCoherent, NotServingIsV1
<1>7. CASE DetachedCycleReturns
  BY <1>7 DEF DetachedCycleReturns, TypeOK, HandleCounts, SamplerCoherent, FailuresFollow,
     PublicationCoherent, NotServingIsV1
<1>8. CASE UNCHANGED <<v1, samplerVars, published>>
  BY <1>8 DEF samplerVars, HandleCounts, SamplerCoherent, FailuresFollow,
     PublicationCoherent, NotServingIsV1
<1>9. CASE SendShutdown \/ ClockMoves \/ UNCHANGED vars
  BY <1>8, <1>9 DEF SendShutdown, ClockMoves, vars, samplerVars
<1> QED BY <1>1, <1>2, <1>3, <1>4, <1>5, <1>6, <1>7, <1>8, <1>9, ServingLeavesPublication
        DEF Next, SamplerStep, Environment

(* Sampler::in_flight: at most one collection runs on the blocking pool,      *)
(* however long a read hangs and however often its wait times out.           *)
THEOREM AtMostOneCycle == Spec => []OneCycleOutstanding
<1>1. PublicationInv => OneCycleOutstanding
  BY DEF PublicationInv, HandleCounts, OneCycleOutstanding
<1> QED BY <1>1, TypeCorrect, PublicationInvInit, PublicationStep, PTL DEF Spec

(* sync_sampler_state, set_failed: no failure goes uncounted, both versions of  *)
(* a publication belong together, and a version that is not served stays so.    *)
THEOREM PublicationIsSound == Spec => PublicationSound
<1>1. TypeOK /\ PublicationInv => ServerNeverUndercounts /\ PublicationCoherent
  BY DEF PublicationInv, FailuresFollow, ServerNeverUndercounts, TypeOK
<1>2. TypeOK /\ RequestsCoherent /\ PublicationInv /\ [Next]_vars =>
        [\A v \in Versions : published.health[v] = "not_serving"
                                => published'.health[v] = "not_serving"]_vars
  <2> SUFFICES ASSUME TypeOK, RequestsCoherent, PublicationInv, Next,
                      NEW v \in Versions, published.health[v] = "not_serving"
               PROVE  published'.health[v] = "not_serving"
    BY DEF vars
  <2>1. CASE Publish
    <3>1. PICK c \in Cells : published' = Synced(c)
      BY <2>1 DEF Publish
    <3>2. v = 1 /\ ~v1 /\ sampler.readiness # "warming"
      BY DEF PublicationInv, NotServingIsV1
    <3>3. CASE sampler.readiness = "ready"
      BY <3>1, <3>2, <3>3 DEF Synced, Updated, PublicationInv, SamplerCoherent, Versions
    <3>4. CASE sampler.readiness = "failed"
      BY <3>1, <3>4 DEF Synced, SetFailed, TypeOK
    <3> QED BY <3>2, <3>3, <3>4 DEF TypeOK, Readiness
  <2>2. CASE UNCHANGED published
    BY <2>2
  <2>3. Publish \/ UNCHANGED published
    BY ServingLeavesPublication DEF Next, SamplerStep, Environment, StartCycle, CycleCompletes,
       CycleTimesOut, SleepElapses, ObserveShutdown, JoinInFlightCycle, CollectorReturns,
       DetachedCycleReturns, SendShutdown, ClockMoves
  <2> QED BY <2>1, <2>2, <2>3
<1>3. Spec => [](TypeOK /\ RequestsCoherent /\ PublicationInv)
  BY TypeCorrect, PublicationInvInit, PublicationStep, PTL DEF Spec
<1>4. Spec => [](TypeOK /\ ServerNeverUndercounts /\ PublicationCoherent)
  BY <1>1, <1>3, PTL
<1>5. Spec => NotServingIsSticky
  BY <1>2, <1>3, PTL DEF Spec, NotServingIsSticky
<1> QED BY <1>4, <1>5 DEF PublicationSound

-----------------------------------------------------------------------------
LEMMA CellInit == Init => CellOfPublication
  BY DEF Init, CellOfPublication, Holding, Idle

LEMMA CellStep ==
    TypeOK /\ RequestsCoherent /\ CellOfPublication /\ [Next]_vars => CellOfPublication'
<1> SUFFICES ASSUME TypeOK, RequestsCoherent, CellOfPublication, [Next]_vars
             PROVE  CellOfPublication'
  OBVIOUS
<1>1. CASE Publish
  <2>1. PICK c \in Cells : Unheld(c) /\ published' = Synced(c)
    BY <1>1 DEF Publish
  <2>2. published'.cell = c
    BY <2>1 DEF Synced, Updated, SetWarming, SetFailed, TypeOK, Readiness
  <2>3. memo'[c] = [v \in Versions |-> None]
    BY <1>1, <2>1 DEF Publish
  <2> QED BY <1>1, <2>1, <2>2, <2>3 DEF Publish, Unheld, CellOfPublication, Holding
<1>2. CASE UNCHANGED <<published, memo, req>>
  BY <1>2 DEF CellOfPublication, Holding
<1>3. ASSUME NEW r \in Requests, HealthNow(r) PROVE CellOfPublication'
  BY <1>3, HealthNowStep DEF CellOfPublication, Holding
<1>4. ASSUME NEW r \in Requests, MemoInit(r) PROVE CellOfPublication'
  <2> DEFINE q == req[r]
             body == IF memo[q.cell][q.version] = None THEN q.snap
                     ELSE memo[q.cell][q.version]
  <2>1. /\ q.cell \in Cells /\ q.version \in Versions /\ q.phase = "init"
        /\ memo' = [memo EXCEPT ![q.cell][q.version] = body]
        /\ \A s \in Requests \ {r} : req'[s] = req[s]
        /\ req'[r].phase = "recheck" /\ req'[r].snap = body
        /\ req'[r].cell = q.cell /\ req'[r].version = q.version
        /\ published' = published
    BY <1>4, MemoInitStep
  <2>2. q.cell = published.cell => body = published.snap[q.version]
    BY <2>1 DEF CellOfPublication, Holding
  <2> HIDE DEF body
  <2>3. \A v \in Versions : memo'[published.cell][v] \in {None, published.snap[v]}
    BY <2>1, <2>2 DEF CellOfPublication, TypeOK
  <2> QED BY <2>1, <2>2, <2>3 DEF CellOfPublication, Holding
<1>5. ASSUME NEW r \in Requests, Recheck(r) PROVE CellOfPublication'
  BY <1>5, RecheckStep DEF CellOfPublication, Holding
<1>6. ASSUME NEW r \in Requests,
             MemoInitFails(r) \/ \E v \in Asked : Status(r, v) \/ HealthArrives(r, v)
      PROVE  CellOfPublication'
  BY <1>6, AnswerStep DEF CellOfPublication, Holding
<1> QED BY <1>1, <1>2, <1>3, <1>4, <1>5, <1>6
        DEF Next, SamplerStep, Serve, Environment, StartCycle, CycleCompletes, CycleTimesOut,
            SleepElapses, ObserveShutdown, JoinInFlightCycle, CollectorReturns,
            DetachedCycleReturns, SendShutdown, ClockMoves, vars

(* memo_is_current, fresh_health_cell: a 200 of a health route is given under  *)
(* a ready publication and carries its snapshot, however many publications,     *)
(* failures and other requests the request awaited through.                    *)
THEOREM HealthAgreement == Spec => HealthAgrees
<1>1. TypeOK /\ RequestsCoherent /\ CellOfPublication /\ [Next]_vars =>
        [\A r \in Requests :
            req[r].phase = "recheck" /\ req'[r].code = 200 =>
               /\ published.health[req[r].version] = "ready"
               /\ req'[r].snap = published.snap[req[r].version]]_vars
  <2> SUFFICES ASSUME TypeOK, RequestsCoherent, CellOfPublication, Next, NEW r \in Requests,
                      req[r].phase = "recheck", req'[r].code = 200
               PROVE  /\ published.health[req[r].version] = "ready"
                      /\ req'[r].snap = published.snap[req[r].version]
    BY DEF vars
  <2>1. req[r].code = 0
    BY DEF RequestsCoherent
  <2>2. CASE Recheck(r)
    BY <2>2, RecheckStep DEF MemoIsCurrent, CellOfPublication, Holding
  <2>3. CASE UNCHANGED req
    BY <2>1, <2>3
  <2>4. ASSUME NEW s \in Requests, s # r \/ ~Recheck(s),
               Serve(s) \/ \E v \in Asked : Status(s, v) \/ HealthArrives(s, v)
        PROVE  req'[r] = req[r]
    <3>1. CASE HealthNow(s)
      BY <3>1, HealthNowStep DEF HealthNow
    <3>2. CASE MemoInit(s)
      <4>1. req[s].phase = "init" /\ \A q \in Requests \ {s} : req'[q] = req[q]
        BY <3>2, MemoInitStep
      <4> QED BY <4>1
    <3>3. CASE Recheck(s)
      BY <2>4, <3>3, RecheckStep
    <3>4. CASE MemoInitFails(s) \/ \E v \in Asked : Status(s, v) \/ HealthArrives(s, v)
      BY <3>4, AnswerStep
    <3> QED BY <2>4, <3>1, <3>2, <3>3, <3>4 DEF Serve
  <2> QED BY <2>1, <2>2, <2>3, <2>4
          DEF Next, SamplerStep, Environment, StartCycle, CycleCompletes, CycleTimesOut, Publish,
              SleepElapses, ObserveShutdown, JoinInFlightCycle, CollectorReturns,
              DetachedCycleReturns, SendShutdown, ClockMoves
<1> QED BY <1>1, TypeCorrect, CellInit, CellStep, PTL DEF Spec, HealthAgrees

-----------------------------------------------------------------------------
(* The self-update: an updater installs only what was offered, and forward.  *)

(* The stages that follow resolve_plan.                                      *)
Planned == Stages \ {"end", "resolve"}

(* A plan stays newer than its process whatever is published meanwhile; only *)
(* a validated candidate reaches the replacement; and an executable nobody   *)
(* else replaced is the one its updater was started from.                     *)
PlanSound(p) ==
    /\ updater[p].at \in Planned =>
          updater[p].latest \in offered /\ updater[p].current < updater[p].latest
    /\ updater[p].at = "replace" => updater[p].candidate = updater[p].latest
    /\ Begun(p) /\ p \notin replaced => installed = updater[p].current
    /\ Begun(p) => updater[p].outcome = "none"
PlansSound == \A p \in Updaters : PlanSound(p)

UpdateInv ==
    UpdateTypeOK /\ InstalledWasOffered /\ stable \in offered /\ PlansSound

-----------------------------------------------------------------------------
(* A field of an updater's record is set without leaving its type.            *)
LEMMA UpdaterTyped ==
    ASSUME UpdateTypeOK, NEW p \in Updaters
    PROVE  /\ updater[p] \in UpdaterStates
           /\ updater[p].at \in Stages /\ updater[p].outcome \in Outcomes
           /\ updater[p].current \in VersionNumbers /\ updater[p].latest \in VersionNumbers
           /\ updater[p].candidate \in Builds \cup {Missing}
           /\ updater[p].sum \in Builds \cup {Missing}
BY DEF UpdateTypeOK, UpdaterStates

LEMMA NoUpdateTyped == NoUpdate \in UpdaterStates
BY UpdateAssumption
   DEF NoUpdate, UpdaterStates, Stages, Outcomes, VersionNumbers, Builds, Missing

(* A step that changes one updater's record u into a sound one, and neither   *)
(* the world nor the executable, keeps the invariant.                        *)
LEMMA UpdaterStep ==
    ASSUME UpdateInv, Aside, NEW p \in Updaters, NEW u \in UpdaterStates,
           updater' = [updater EXCEPT ![p] = u],
           u.at \in Planned => u.latest \in offered /\ u.current < u.latest,
           u.at = "replace" => u.candidate = u.latest,
           u.at # "end" => /\ Begun(p) /\ u.current = updater[p].current
                           /\ u.outcome = updater[p].outcome
    PROVE  UpdateInv'
<1>0. UpdateTypeOK /\ InstalledWasOffered /\ stable \in offered /\ PlansSound BY DEF UpdateInv
<1>1. UNCHANGED <<stable, offered, asset, checksum, releases, installed, replaced, updates>>
  BY DEF Aside, WorldUnchanged
<1>2. UpdateTypeOK'
  <2>1. updater' \in [Updaters -> UpdaterStates] BY <1>0 DEF UpdateTypeOK
  <2> QED BY <1>0, <1>1, <2>1 DEF UpdateTypeOK
<1>3. InstalledWasOffered' BY <1>0, <1>1 DEF InstalledWasOffered
<1>4. ASSUME NEW q \in Updaters PROVE PlanSound(q)'
  <2>1. PlanSound(q) BY <1>0 DEF PlansSound
  <2>2. updater'[q] = IF q = p THEN u ELSE updater[q] BY <1>0 DEF UpdateTypeOK
  <2>3. CASE q = p
    <3>1. updater'[q] = u BY <2>2, <2>3
    <3> QED BY <1>1, <2>1, <2>3, <3>1 DEF PlanSound, Begun
  <2>4. CASE q # p
    <3>1. updater'[q] = updater[q] BY <2>2, <2>4
    <3> QED BY <1>1, <2>1, <3>1 DEF PlanSound, Begun
  <2> QED BY <2>3, <2>4
<1> QED BY <1>0, <1>1, <1>2, <1>3, <1>4 DEF UpdateInv, PlansSound

(* The two shapes a step of an updater has besides its own fields.            *)
LEMMA StepRecord ==
    ASSUME UpdateInv, Aside, NEW p \in Updaters, NEW at \in Stages, Step(p, at), Begun(p),
           at \in Planned => updater[p].at \in Planned,
           at = "replace" => updater[p].candidate = updater[p].latest
    PROVE  UpdateInv'
<1> DEFINE u == [updater[p] EXCEPT !.at = at]
<1>1. UpdateTypeOK /\ PlanSound(p) BY DEF UpdateInv, PlansSound
<1>2. updater[p] \in UpdaterStates BY <1>1, UpdaterTyped
<1>3. u \in UpdaterStates BY <1>2 DEF UpdaterStates
<1>4. u.at = at /\ u.latest = updater[p].latest /\ u.candidate = updater[p].candidate
      /\ u.current = updater[p].current /\ u.outcome = updater[p].outcome
  BY <1>2 DEF UpdaterStates
<1>5. updater' = [updater EXCEPT ![p] = u] BY <1>1 DEF Step, UpdateTypeOK
<1> HIDE DEF u
<1> QED BY <1>1, <1>3, <1>4, <1>5, UpdaterStep DEF PlanSound

LEMMA OutcomeRecord ==
    ASSUME UpdateInv, Aside, NEW p \in Updaters, NEW o \in Outcomes, Outcome(p, o)
    PROVE  UpdateInv'
<1> DEFINE u == [updater[p] EXCEPT !.at = "end", !.outcome = o]
<1>1. UpdateTypeOK BY DEF UpdateInv
<1>2. updater[p] \in UpdaterStates BY <1>1, UpdaterTyped
<1>3. u \in UpdaterStates BY <1>2 DEF UpdaterStates, Stages
<1>4. u.at = "end" BY <1>2 DEF UpdaterStates
<1>5. updater' = [updater EXCEPT ![p] = u] BY <1>1 DEF Outcome, UpdateTypeOK
<1> HIDE DEF u
<1> QED BY <1>3, <1>4, <1>5, UpdaterStep DEF Planned

-----------------------------------------------------------------------------
LEMMA UpdateInitial == UpdateInit => UpdateInv
<1> SUFFICES ASSUME UpdateInit PROVE UpdateInv OBVIOUS
<1>1. 1 \in VersionNumbers BY UpdateAssumption DEF VersionNumbers
<1>2. updater \in [Updaters -> UpdaterStates] BY NoUpdateTyped DEF UpdateInit
<1>3. \A v \in VersionNumbers : v \in Builds \cup {Missing} BY DEF Builds
<1>4. asset \in [VersionNumbers -> Builds \cup {Missing}]
      /\ checksum \in [VersionNumbers -> Builds \cup {Missing}]
  BY <1>3 DEF UpdateInit
<1>5. UpdateTypeOK BY UpdateAssumption, <1>1, <1>2, <1>4 DEF UpdateInit, UpdateTypeOK, Builds
<1>6. PlansSound
  BY DEF PlansSound, PlanSound, Planned, Begun, NoUpdate, UpdateInit
<1> QED BY <1>5, <1>6 DEF UpdateInv, InstalledWasOffered, UpdateInit

LEMMA ReleaseKeeps == UpdateInv /\ Release => UpdateInv'
<1> SUFFICES ASSUME UpdateInv, Release PROVE UpdateInv' OBVIOUS
<1>0. UpdateTypeOK /\ InstalledWasOffered /\ stable \in offered /\ PlansSound BY DEF UpdateInv
<1>1. stable' \in VersionNumbers /\ stable' \in offered' /\ offered \subseteq offered' 
      /\ offered' \subseteq VersionNumbers
  BY <1>0 DEF Release, UpdateTypeOK
<1>2. asset' \in [VersionNumbers -> Builds \cup {Missing}]
      /\ checksum' \in [VersionNumbers -> Builds \cup {Missing}]
  BY <1>0 DEF Release, UpdateTypeOK
<1>3. releases' \in 0 .. MaxPublications
  BY <1>0, UpdateAssumption DEF Release, UpdateTypeOK
<1>4. UNCHANGED <<installed, updater, replaced, updates>> BY DEF Release
<1>5. UpdateTypeOK' BY <1>0, <1>1, <1>2, <1>3, <1>4 DEF UpdateTypeOK
<1>6. PlansSound' BY <1>0, <1>1, <1>4 DEF PlansSound, PlanSound, Begun
<1> QED BY <1>0, <1>1, <1>4, <1>5, <1>6 DEF UpdateInv, InstalledWasOffered

LEMMA BeginKeeps ==
    ASSUME UpdateInv, NEW p \in Updaters, BeginUpdate(p) PROVE UpdateInv'
<1> DEFINE u == [NoUpdate EXCEPT !.at = "resolve", !.current = installed]
<1>0. UpdateTypeOK /\ InstalledWasOffered /\ stable \in offered /\ PlansSound BY DEF UpdateInv
<1>1. UNCHANGED <<stable, offered, asset, checksum, releases, installed>>
  BY DEF BeginUpdate, WorldUnchanged
<1>2. u \in UpdaterStates
  BY NoUpdateTyped DEF BeginUpdate, UpdaterStates, Stages
<1>3. u.at = "resolve" /\ u.current = installed /\ u.outcome = "none" BY DEF NoUpdate
<1>4. updater' = [updater EXCEPT ![p] = u] BY DEF BeginUpdate
<1>5. updates' \in 0 .. MaxUpdates
  BY <1>0, UpdateAssumption DEF BeginUpdate, UpdateTypeOK
<1>6. replaced' = replaced \ {p} BY DEF BeginUpdate
<1> HIDE DEF u
<1>7. UpdateTypeOK'
  <2>1. updater' \in [Updaters -> UpdaterStates] BY <1>0, <1>2, <1>4 DEF UpdateTypeOK
  <2> QED BY <1>0, <1>1, <1>5, <1>6, <2>1 DEF UpdateTypeOK
<1>8. ASSUME NEW q \in Updaters PROVE PlanSound(q)'
  <2>1. PlanSound(q) BY <1>0 DEF PlansSound
  <2>2. CASE q = p
    <3>1. updater'[q] = u BY <1>0, <1>4, <2>2 DEF UpdateTypeOK
    <3> QED BY <1>1, <1>3, <2>2, <3>1 DEF PlanSound, Planned
  <2>3. CASE q # p
    <3>1. updater'[q] = updater[q] BY <1>0, <1>4, <2>3 DEF UpdateTypeOK
    <3> QED BY <1>1, <1>6, <2>1, <2>3, <3>1 DEF PlanSound, Begun
  <2> QED BY <2>2, <2>3
<1> QED BY <1>0, <1>1, <1>7, <1>8 DEF UpdateInv, PlansSound, InstalledWasOffered

LEMMA ResolveKeeps ==
    ASSUME UpdateInv, NEW p \in Updaters, Resolve(p) PROVE UpdateInv'
<1> DEFINE u == [updater[p] EXCEPT !.latest = LatestStable, !.at = "probe"]
<1>0. UpdateTypeOK /\ stable \in offered /\ Aside /\ updater[p].at = "resolve"
  BY DEF UpdateInv, Resolve
<1>1. CASE ~Newer(updater[p])
  BY <1>0, <1>1, OutcomeRecord DEF Resolve, Outcomes
<1>2. CASE Newer(updater[p])
  <2>1. updater[p] \in UpdaterStates BY <1>0, UpdaterTyped
  <2>2. u \in UpdaterStates
    BY <1>0, <2>1 DEF UpdaterStates, Stages, LatestStable, UpdateTypeOK
  <2>3. u.at = "probe" /\ u.latest = stable /\ u.current = updater[p].current
        /\ u.outcome = updater[p].outcome
    BY <2>1 DEF UpdaterStates, LatestStable
  <2>4. updater' = [updater EXCEPT ![p] = u]
    BY <1>0, <1>2 DEF Resolve, UpdateTypeOK
  <2>5. u.current < u.latest BY <1>2, <2>3 DEF Newer, LatestStable
  <2> HIDE DEF u
  <2> QED BY <1>0, <2>2, <2>3, <2>4, <2>5, UpdaterStep DEF Begun
<1> QED BY <1>1, <1>2

LEMMA FetchKeeps ==
    ASSUME UpdateInv, NEW p \in Updaters,
           \/ UpdateFails(p) \/ ProbeDirectory(p) \/ VerifyChecksum(p) \/ Validate(p)
    PROVE  UpdateInv'
<1>1. CASE UpdateFails(p) BY <1>1, OutcomeRecord DEF UpdateFails, Outcomes
<1>2. CASE ProbeDirectory(p)
  <2>1. Begun(p) /\ updater[p].at \in Planned BY <1>2 DEF ProbeDirectory, Begun, Planned, Stages
  <2>2. Aside /\ (Step(p, "download") \/ Step(p, "build")) BY <1>2 DEF ProbeDirectory
  <2>3. "download" \in Stages /\ "build" \in Stages BY DEF Stages
  <2> QED BY <2>1, <2>2, <2>3, StepRecord
<1>3. CASE VerifyChecksum(p)
  <2>1. Begun(p) /\ updater[p].at \in Planned BY <1>3 DEF VerifyChecksum, Begun, Planned, Stages
  <2>2. Aside /\ (Step(p, "validate") \/ Outcome(p, "error")) BY <1>3 DEF VerifyChecksum
  <2>3. "validate" \in Stages /\ "error" \in Outcomes BY DEF Stages, Outcomes
  <2> QED BY <2>1, <2>2, <2>3, StepRecord, OutcomeRecord
<1>4. CASE Validate(p)
  <2>1. Begun(p) /\ updater[p].at \in Planned BY <1>4 DEF Validate, Begun, Planned, Stages
  <2>2. Aside BY <1>4 DEF Validate
  <2>3. "replace" \in Stages /\ "error" \in Outcomes BY DEF Stages, Outcomes
  <2>4. CASE Identifies(updater[p])
    BY <1>4, <2>1, <2>2, <2>3, <2>4, StepRecord DEF Validate, Identifies
  <2>5. CASE ~Identifies(updater[p])
    BY <1>4, <2>2, <2>3, <2>5, OutcomeRecord DEF Validate
  <2> QED BY <2>4, <2>5
<1> QED BY <1>1, <1>2, <1>3, <1>4

(* What is downloaded or built becomes the candidate; the plan stands.         *)
LEMMA CandidateKeeps ==
    ASSUME UpdateInv, NEW p \in Updaters,
           DownloadAsset(p) \/ DownloadChecksum(p) \/ CargoBuild(p)
    PROVE  UpdateInv'
<1>0. UpdateTypeOK /\ PlanSound(p) BY DEF UpdateInv, PlansSound
<1>1. updater[p] \in UpdaterStates /\ updater[p].latest \in VersionNumbers
  BY <1>0, UpdaterTyped
<1>2. Aside /\ Begun(p) /\ updater[p].at \in Planned
  BY DEF DownloadAsset, DownloadChecksum, CargoBuild, Begun, Planned, Stages
<1>3. ASSUME NEW u \in UpdaterStates, updater' = [updater EXCEPT ![p] = u],
             u.at # "replace", u.latest = updater[p].latest,
             u.current = updater[p].current, u.outcome = updater[p].outcome
      PROVE  UpdateInv'
  BY <1>0, <1>2, <1>3, UpdaterStep DEF PlanSound
<1>4. CASE DownloadAsset(p)
  <2> DEFINE b == asset[updater[p].latest]
             u == [updater[p] EXCEPT !.candidate = b, !.at = "checksum"]
  <2>1. b \in Builds \cup {Missing} BY <1>0, <1>1 DEF UpdateTypeOK
  <2>2. CASE b = Missing
    BY <1>2, <1>4, <2>2, StepRecord DEF DownloadAsset, Stages
  <2>3. CASE b # Missing
    <3>1. u \in UpdaterStates BY <1>1, <2>1 DEF UpdaterStates, Stages
    <3>2. u.at = "checksum" /\ u.latest = updater[p].latest /\ u.current = updater[p].current
          /\ u.outcome = updater[p].outcome
      BY <1>1 DEF UpdaterStates
    <3>3. updater' = [updater EXCEPT ![p] = u]
      BY <1>0, <1>4, <2>3 DEF DownloadAsset, UpdateTypeOK
    <3> HIDE DEF u
    <3> QED BY <1>3, <3>1, <3>2, <3>3
  <2> QED BY <2>2, <2>3
<1>5. CASE DownloadChecksum(p)
  <2> DEFINE b == checksum[updater[p].latest]
             u == [updater[p] EXCEPT !.sum = b, !.at = "verify"]
  <2>1. b \in Builds \cup {Missing} BY <1>0, <1>1 DEF UpdateTypeOK
  <2>2. CASE b = Missing
    BY <1>2, <1>5, <2>2, OutcomeRecord DEF DownloadChecksum, Outcomes
  <2>3. CASE b # Missing
    <3>1. u \in UpdaterStates BY <1>1, <2>1 DEF UpdaterStates, Stages
    <3>2. u.at = "verify" /\ u.latest = updater[p].latest /\ u.current = updater[p].current
          /\ u.outcome = updater[p].outcome
      BY <1>1 DEF UpdaterStates
    <3>3. updater' = [updater EXCEPT ![p] = u]
      BY <1>0, <1>5, <2>3 DEF DownloadChecksum, UpdateTypeOK
    <3> HIDE DEF u
    <3> QED BY <1>3, <3>1, <3>2, <3>3
  <2> QED BY <2>2, <2>3
<1>6. CASE CargoBuild(p)
  <2> DEFINE u == [updater[p] EXCEPT !.candidate = updater[p].latest, !.at = "validate"]
  <2>1. u \in UpdaterStates BY <1>1 DEF UpdaterStates, Stages, Builds
  <2>2. u.at = "validate" /\ u.latest = updater[p].latest /\ u.current = updater[p].current
        /\ u.outcome = updater[p].outcome
    BY <1>1 DEF UpdaterStates
  <2>3. updater' = [updater EXCEPT ![p] = u] BY <1>0, <1>6 DEF CargoBuild, UpdateTypeOK
  <2> HIDE DEF u
  <2> QED BY <1>3, <2>1, <2>2, <2>3
<1> QED BY <1>4, <1>5, <1>6

(* The rename: what is installed is the validated candidate, and every other   *)
(* updater under way has lost the executable it was started from.             *)
LEMMA ReplaceKeeps ==
    ASSUME UpdateInv, NEW p \in Updaters, Replace(p) PROVE UpdateInv'
<1> DEFINE u == [updater[p] EXCEPT !.at = "end", !.outcome = "updated"]
<1>0. UpdateTypeOK /\ stable \in offered /\ PlansSound BY DEF UpdateInv
<1>1. UNCHANGED <<stable, offered, asset, checksum, releases, updates>>
  BY DEF Replace, WorldUnchanged
<1>2. updater[p] \in UpdaterStates BY <1>0, UpdaterTyped
<1>3. u \in UpdaterStates BY <1>2 DEF UpdaterStates, Stages, Outcomes
<1>4. u.at = "end" BY <1>2 DEF UpdaterStates
<1>5. updater' = [updater EXCEPT ![p] = u] BY <1>0 DEF Replace, Outcome, UpdateTypeOK
<1>6. installed' \in offered
  BY <1>0 DEF Replace, PlansSound, PlanSound, Planned, Stages
<1>7. replaced' = replaced \cup {q \in Updaters \ {p} : Begun(q)} BY DEF Replace
<1> HIDE DEF u
<1>8. UpdateTypeOK'
  <2>1. updater' \in [Updaters -> UpdaterStates] BY <1>0, <1>3, <1>5 DEF UpdateTypeOK
  <2>2. installed' \in Builds BY <1>0, <1>6 DEF UpdateTypeOK, Builds
  <2>3. replaced' \subseteq Updaters BY <1>0, <1>7 DEF UpdateTypeOK
  <2> QED BY <1>0, <1>1, <2>1, <2>2, <2>3 DEF UpdateTypeOK
<1>9. ASSUME NEW q \in Updaters PROVE PlanSound(q)'
  <2>1. PlanSound(q) BY <1>0 DEF PlansSound
  <2>2. CASE q = p
    <3>1. updater'[q] = u BY <1>0, <1>5, <2>2 DEF UpdateTypeOK
    <3> QED BY <1>4, <3>1 DEF PlanSound, Planned, Begun
  <2>3. CASE q # p
    <3>1. updater'[q] = updater[q] BY <1>0, <1>5, <2>3 DEF UpdateTypeOK
    <3>2. Begun(q) => q \in replaced' BY <1>7, <2>3
    <3> QED BY <1>1, <2>1, <3>1, <3>2 DEF PlanSound, Begun
  <2> QED BY <2>2, <2>3
<1> QED BY <1>0, <1>1, <1>6, <1>8, <1>9 DEF UpdateInv, PlansSound, InstalledWasOffered

-----------------------------------------------------------------------------
LEMMA UpdateInductive == UpdateInv /\ [UpdateNext]_updateVars => UpdateInv'
<1> SUFFICES ASSUME UpdateInv, [UpdateNext]_updateVars PROVE UpdateInv' OBVIOUS
<1>1. CASE Release BY <1>1, ReleaseKeeps
<1>2. ASSUME NEW p \in Updaters, BeginUpdate(p) PROVE UpdateInv' BY <1>2, BeginKeeps
<1>3. ASSUME NEW p \in Updaters, Resolve(p) PROVE UpdateInv' BY <1>3, ResolveKeeps
<1>4. ASSUME NEW p \in Updaters,
             UpdateFails(p) \/ ProbeDirectory(p) \/ VerifyChecksum(p) \/ Validate(p)
      PROVE  UpdateInv'
  BY <1>4, FetchKeeps
<1>5. ASSUME NEW p \in Updaters, DownloadAsset(p) \/ DownloadChecksum(p) \/ CargoBuild(p)
      PROVE  UpdateInv'
  BY <1>5, CandidateKeeps
<1>6. ASSUME NEW p \in Updaters, Replace(p) PROVE UpdateInv' BY <1>6, ReplaceKeeps
<1>7. CASE UNCHANGED updateVars
  BY <1>7 DEF updateVars, UpdateInv, UpdateTypeOK, InstalledWasOffered, PlansSound,
              PlanSound, Begun
<1> QED BY <1>1, <1>2, <1>3, <1>4, <1>5, <1>6, <1>7 DEF UpdateNext

(* Only the rename itself ends an updater as "updated", and it installs a      *)
(* version newer than its process.                                           *)
LEMMA StepForward ==
    ASSUME UpdateInv, [UpdateNext]_updateVars, NEW p \in Updaters,
           updater[p].at = "replace", updater'[p].outcome = "updated", p \notin replaced
    PROVE  installed < installed'
<1>0. UpdateTypeOK /\ PlanSound(p) BY DEF UpdateInv, PlansSound
<1>1. updater[p] \in UpdaterStates /\ updater[p].outcome = "none"
  BY <1>0, UpdaterTyped DEF PlanSound, Begun
<1>2. updater \in [Updaters -> UpdaterStates] BY <1>0 DEF UpdateTypeOK
<1>3. ASSUME updater' = updater PROVE FALSE BY <1>1, <1>3
<1>4. CASE Replace(p)
  <2>1. installed' = updater[p].latest /\ installed = updater[p].current
    BY <1>0, <1>4 DEF Replace, PlanSound, Begun
  <2>2. updater[p].current < updater[p].latest
    BY <1>0 DEF PlanSound, Planned, Stages
  <2> QED BY <2>1, <2>2
<1>5. ASSUME NEW q \in Updaters, q # p,
             \/ BeginUpdate(q) \/ UpdateFails(q) \/ Resolve(q) \/ ProbeDirectory(q)
             \/ DownloadAsset(q) \/ DownloadChecksum(q) \/ VerifyChecksum(q)
             \/ CargoBuild(q) \/ Validate(q) \/ Replace(q)
      PROVE  FALSE
  <2>1. updater'[p] = updater[p]
    BY <1>2, <1>5 DEF BeginUpdate, UpdateFails, Resolve, ProbeDirectory, DownloadAsset,
          DownloadChecksum, VerifyChecksum, CargoBuild, Validate, Replace, Step, Outcome
  <2> QED BY <1>1, <2>1
<1>6. CASE UpdateFails(p)
  <2>1. updater'[p].outcome = "error"
    BY <1>2, <1>6 DEF UpdateFails, Outcome, UpdaterStates
  <2> QED BY <2>1
<1>7. ~(\/ BeginUpdate(p) \/ Resolve(p) \/ ProbeDirectory(p) \/ DownloadAsset(p)
        \/ DownloadChecksum(p) \/ VerifyChecksum(p) \/ CargoBuild(p) \/ Validate(p))
  BY DEF BeginUpdate, Begun, Resolve, ProbeDirectory, DownloadAsset, DownloadChecksum,
         VerifyChecksum, CargoBuild, Validate
<1>8. CASE Release BY <1>3, <1>8 DEF Release
<1>9. CASE UNCHANGED updateVars BY <1>3, <1>9 DEF updateVars
<1> QED BY <1>4, <1>5, <1>6, <1>7, <1>8, <1>9 DEF UpdateNext

-----------------------------------------------------------------------------
(* The executable is always a build that crates.io has named as stable, and    *)
(* every update of an executable that no other updater touched moves it        *)
(* forward, whatever is published, replaced or withdrawn while it runs         *)
(* (validate_candidate, replace_current_exe, compare_versions).               *)
THEOREM UpdatesSound == UpdateSpec => UpdateSound
<1>1. UpdateInv => UpdateTypeOK /\ InstalledWasOffered BY DEF UpdateInv
<1>2. UpdateInv /\ [UpdateNext]_updateVars =>
        [\A p \in Updaters :
          updater[p].at = "replace" /\ updater'[p].outcome = "updated" /\ p \notin replaced =>
             installed < installed']_updateVars
  BY StepForward
<1> QED
  BY <1>1, <1>2, UpdateInitial, UpdateInductive, PTL
  DEF UpdateSpec, UpdateSound, UpdatesForward

-----------------------------------------------------------------------------
(* The service unit.                                                         *)

(* Where a command can stand.                                               *)
InstallStages ==
    {"prepare", "reload", "enable", "active?", "start", "restart", "loaded?", "bootout",
     "rebootstrap", "bootstrap", "kickstart", "installed"}
TeardownStages == {"stop", "disable", "remove", "forget", "unload"}
UninstallStages == TeardownStages \cup {"discover", "classify", "verify", "delete"}
UnitStages == InstallStages \cup UninstallStages \cup {"end"}
SystemdStages ==
    {"reload", "enable", "active?", "start", "restart", "stop", "disable", "forget"}
LaunchdStages == {"loaded?", "bootout", "rebootstrap", "bootstrap", "kickstart", "unload"}
UnitResults == {"none", "error", "installed", "uninstalled"}
TaskNames == {"none", "install", "uninstall"}
Configured == UnitConfigs \cup {Nothing}

TaskStates == [op : TaskNames, config : Configured, at : UnitStages, owned : BOOLEAN,
               direct : BOOLEAN, result : UnitResults]

UnitTypeOK ==
    /\ manager \in {"systemd", "launchd"}
    /\ task \in TaskStates
    /\ deleted \in BOOLEAN /\ swallowed \in BOOLEAN /\ disturbed \in BOOLEAN

(* A command stands where its kind and its manager put it, and the          *)
(* executable is gone only once an uninstall has said so.                    *)
TaskPlaced ==
    /\ task.op = "install" => task.at \in InstallStages \cup {"end"}
    /\ task.op = "uninstall" => task.at \in UninstallStages \cup {"end"}
    /\ task.op = "none" => task.at = "end"
    /\ task.op # "none" => task.config \in UnitConfigs
    /\ task.at \in SystemdStages => manager = "systemd"
    /\ task.at \in LaunchdStages => manager = "launchd"
    /\ Pending => task.result = "none"
    /\ deleted => task.op = "uninstall" /\ task.result = "uninstalled"

(* launchd runs nothing that it has not loaded.                              *)
LaunchdServes == manager = "launchd" /\ loaded = Nothing => serving = Nothing

(* How far an undisturbed install has come.                                  *)
InstallProgress ==
    task.op = "install" /\ ~disturbed /\ ~swallowed =>
        /\ task.at \notin {"prepare", "end"} => file = task.config
        /\ task.at \in {"enable", "active?", "start", "restart", "kickstart"} =>
              loaded = task.config
        /\ task.at \in {"active?", "start", "restart"} => enabled
        /\ task.at = "start" => serving = Nothing
        /\ task.at = "installed" \/ (task.at = "end" /\ task.result = "installed") =>
              /\ file = task.config /\ loaded = task.config /\ serving = task.config
              /\ manager = "systemd" => enabled

(* How far an undisturbed uninstall of a registration of ours has come.       *)
Gone == file = Nothing /\ loaded = Nothing /\ serving = Nothing
RemovalProgress ==
    task.op = "uninstall" /\ task.owned /\ ~disturbed /\ ~swallowed =>
        /\ task.at = "classify" => Ownership(Active, TRUE) = "owned"
        /\ task.at \in {"disable", "remove", "forget"} => serving = Nothing
        /\ task.at = "remove" /\ manager = "launchd" => loaded = Nothing
        /\ task.at = "forget" => file = Nothing
        /\ task.at \in {"verify", "delete"} => Gone
        /\ task.at = "end" /\ task.result = "uninstalled" => Gone

(* The teardown has begun only on a registration that was not foreign, and    *)
(* the direct stop is not for the process of a foreign one.                  *)
ForeignApart ==
    /\ task.at \in TeardownStages \cup {"classify"} /\ ~disturbed => file \notin ForeignUnits
    /\ task.at = "verify" /\ task.direct /\ ~disturbed /\ ~swallowed
         /\ file \in ForeignUnits /\ serving = file => Uses[file] # task.config

UnitInv ==
    /\ UnitTypeOK /\ TaskPlaced /\ LaunchdServes
    /\ InstallProgress /\ RemovalProgress /\ ForeignApart

-----------------------------------------------------------------------------
LEMMA TaskTyped ==
    ASSUME UnitTypeOK
    PROVE  /\ task.op \in TaskNames /\ task.config \in Configured /\ task.at \in UnitStages
           /\ task.owned \in BOOLEAN /\ task.direct \in BOOLEAN /\ task.result \in UnitResults
BY DEF UnitTypeOK, TaskStates

LEMMA NoTaskTyped == NoTask \in TaskStates
BY DEF NoTask, TaskStates, TaskNames, Configured, UnitStages, UnitResults

(* The task moves on, or ends.                                               *)
LEMMA Moved ==
    ASSUME UnitTypeOK, NEW next \in UnitStages, Moves(next)
    PROVE  /\ task' \in TaskStates /\ task'.at = next
           /\ task'.op = task.op /\ task'.config = task.config /\ task'.owned = task.owned
           /\ task'.direct = task.direct /\ task'.result = task.result
<1> DEFINE B == BOOLEAN
<1>1. task \in [op : TaskNames, config : Configured, at : UnitStages, owned : B,
                direct : B, result : UnitResults]
  BY DEF UnitTypeOK, TaskStates
<1>2. task' = [task EXCEPT !.at = next] BY DEF Moves
<1> HIDE DEF B
<1>3. /\ task' \in [op : TaskNames, config : Configured, at : UnitStages, owned : B,
                    direct : B, result : UnitResults]
      /\ task'.at = next
      /\ task'.op = task.op /\ task'.config = task.config /\ task'.owned = task.owned
      /\ task'.direct = task.direct /\ task'.result = task.result
  BY <1>1, <1>2
<1> QED BY <1>3 DEF TaskStates, B

LEMMA Finished ==
    ASSUME UnitTypeOK, NEW given \in UnitResults, Finishes(given)
    PROVE  /\ task' \in TaskStates /\ task'.at = "end" /\ task'.result = given
           /\ task'.op = task.op /\ task'.config = task.config /\ task'.owned = task.owned
           /\ task'.direct = task.direct
<1> DEFINE B == BOOLEAN
<1>1. task \in [op : TaskNames, config : Configured, at : UnitStages, owned : B,
                direct : B, result : UnitResults]
  BY DEF UnitTypeOK, TaskStates
<1>2. task' = [task EXCEPT !.at = "end", !.result = given] BY DEF Finishes
<1>3. "end" \in UnitStages BY DEF UnitStages
<1> HIDE DEF B
<1>4. /\ task' \in [op : TaskNames, config : Configured, at : UnitStages, owned : B,
                    direct : B, result : UnitResults]
      /\ task'.at = "end" /\ task'.result = given
      /\ task'.op = task.op /\ task'.config = task.config /\ task'.owned = task.owned
      /\ task'.direct = task.direct
  BY <1>1, <1>2, <1>3
<1> QED BY <1>4 DEF TaskStates, B

(* A command that ends in an error has promised nothing.                     *)
LEMMA ErrorKeeps ==
    ASSUME UnitInv, Pending, Finishes("error"), LaunchdServes',
           UNCHANGED <<manager, deleted, disturbed>>, swallowed' \in BOOLEAN
    PROVE  UnitInv'
<1>0. UnitTypeOK /\ TaskPlaced BY DEF UnitInv
<1>1. /\ task' \in TaskStates /\ task'.at = "end" /\ task'.result = "error"
      /\ task'.op = task.op /\ task'.config = task.config /\ task'.owned = task.owned
  BY <1>0, Finished DEF UnitResults
<1>2. UnitTypeOK' BY <1>0, <1>1 DEF UnitTypeOK
<1>3. TaskPlaced'
  BY <1>0, <1>1 DEF TaskPlaced, Pending, SystemdStages, LaunchdStages
<1>4. InstallProgress' BY <1>1 DEF InstallProgress
<1>5. RemovalProgress' BY <1>1 DEF RemovalProgress
<1>6. ForeignApart' BY <1>1 DEF ForeignApart, TeardownStages
<1> QED BY <1>2, <1>3, <1>4, <1>5, <1>6 DEF UnitInv

(* A move keeps the invariant when the next stage is one of the command's    *)
(* and the manager's, and what it promises holds.                            *)
LEMMA MoveKeeps ==
    ASSUME UnitInv, Pending, NEW next \in UnitStages \ {"end"}, Moves(next),
           UNCHANGED <<manager, deleted, disturbed>>, swallowed' \in BOOLEAN,
           task.op = "install" => next \in InstallStages,
           task.op = "uninstall" => next \in UninstallStages,
           next \in SystemdStages => manager = "systemd",
           next \in LaunchdStages => manager = "launchd",
           LaunchdServes', InstallProgress', RemovalProgress', ForeignApart'
    PROVE  UnitInv'
<1>0. UnitTypeOK /\ TaskPlaced BY DEF UnitInv
<1>1. /\ task' \in TaskStates /\ task'.at = next
      /\ task'.op = task.op /\ task'.config = task.config /\ task'.owned = task.owned
      /\ task'.direct = task.direct /\ task'.result = task.result
  BY <1>0, Moved
<1>2. UnitTypeOK' BY <1>0, <1>1 DEF UnitTypeOK
<1>3. TaskPlaced' BY <1>0, <1>1 DEF TaskPlaced, Pending
<1> QED BY <1>2, <1>3 DEF UnitInv

(* A stage tells the command's kind.                                         *)
LEMMA StageTells ==
    ASSUME UnitInv
    PROVE  /\ task.at \in InstallStages => task.op = "install"
           /\ task.at \in UninstallStages => task.op = "uninstall"
           /\ task.op # "none" => task.config \in UnitConfigs
<1>0. UnitTypeOK /\ TaskPlaced BY DEF UnitInv
<1>1. task.op \in TaskNames BY <1>0, TaskTyped
<1> QED
  BY <1>0, <1>1 DEF TaskPlaced, TaskNames, InstallStages, UninstallStages, TeardownStages

(* An install moves on.                                                      *)
LEMMA InstallMoves ==
    ASSUME UnitInv, Pending, task.op = "install",
           NEW next \in InstallStages, Moves(next),
           UNCHANGED <<manager, deleted, disturbed>>, swallowed' \in BOOLEAN,
           next \in SystemdStages => manager = "systemd",
           next \in LaunchdStages => manager = "launchd",
           LaunchdServes',
           ~disturbed /\ ~swallowed' =>
               /\ next # "prepare" => file' = task.config
               /\ next \in {"enable", "active?", "start", "restart", "kickstart", "installed"} =>
                     loaded' = task.config
               /\ next \in {"active?", "start", "restart"} => enabled'
               /\ next = "start" => serving' = Nothing
               /\ next = "installed" => /\ serving' = task.config
                                        /\ manager = "systemd" => enabled'
    PROVE  UnitInv'
<1>0. UnitTypeOK /\ TaskPlaced BY DEF UnitInv
<1>a. next \in UnitStages \ {"end"} BY DEF UnitStages, InstallStages
<1>1. /\ task'.at = next
      /\ task'.op = task.op /\ task'.config = task.config
  BY <1>0, <1>a, Moved
<1>2. InstallProgress' BY <1>0, <1>1, <1>a DEF InstallProgress
<1>3. RemovalProgress' BY <1>1 DEF RemovalProgress
<1>4. ForeignApart' BY <1>1 DEF ForeignApart, TeardownStages, InstallStages
<1> QED BY <1>a, <1>2, <1>3, <1>4, MoveKeeps

(* An uninstall moves on.                                                    *)
LEMMA RemovalMoves ==
    ASSUME UnitInv, Pending, task.op = "uninstall",
           NEW next \in UninstallStages \ {"classify", "discover"}, Moves(next),
           UNCHANGED <<manager, deleted, disturbed>>, swallowed' \in BOOLEAN,
           next \in SystemdStages => manager = "systemd",
           next \in LaunchdStages => manager = "launchd",
           LaunchdServes',
           next # "delete" /\ ~disturbed => file' \notin ForeignUnits,
           task.owned /\ ~disturbed /\ ~swallowed' =>
               /\ next \in {"disable", "remove", "forget"} => serving' = Nothing
               /\ next = "remove" /\ manager = "launchd" => loaded' = Nothing
               /\ next = "forget" => file' = Nothing
               /\ next \in {"verify", "delete"} => Gone'
    PROVE  UnitInv'
<1>0. UnitTypeOK /\ TaskPlaced BY DEF UnitInv
<1>a. next \in UnitStages \ {"end"}
  BY DEF UnitStages, UninstallStages, TeardownStages
<1>1. /\ task'.at = next /\ task'.owned = task.owned
      /\ task'.op = task.op /\ task'.config = task.config
  BY <1>0, <1>a, Moved
<1>2. InstallProgress' BY <1>1 DEF InstallProgress
<1>3. RemovalProgress' BY <1>0, <1>1, <1>a DEF RemovalProgress, UninstallStages
<1>4. ForeignApart' BY <1>1, <1>a DEF ForeignApart, TeardownStages
<1> QED BY <1>a, <1>2, <1>3, <1>4, MoveKeeps

-----------------------------------------------------------------------------
LEMMA BeginUnitInv ==
    ASSUME UnitInv, NEW op \in {"install", "uninstall"}, NEW c \in UnitConfigs, Begin(op, c)
    PROVE  UnitInv'
<1>0. UnitTypeOK /\ TaskPlaced /\ LaunchdServes BY DEF UnitInv
<1> DEFINE at == IF op = "install" THEN "prepare" ELSE "discover"
           B == BOOLEAN
<1>1. /\ UNCHANGED <<manager, file, loaded, enabled, serving, deleted>>
      /\ ~deleted /\ swallowed' = FALSE /\ disturbed' = FALSE
      /\ task' = [NoTask EXCEPT !.op = op, !.config = c, !.at = at]
  BY DEF Begin
<1>2. /\ NoTask.owned = FALSE /\ NoTask.direct = FALSE /\ NoTask.result = "none"
  BY DEF NoTask
<1>3. NoTask \in [op : TaskNames, config : Configured, at : UnitStages, owned : B,
                  direct : B, result : UnitResults]
  BY NoTaskTyped DEF TaskStates
<1>4. at \in UnitStages /\ op \in TaskNames /\ c \in Configured
  BY DEF UnitStages, InstallStages, UninstallStages, TaskNames, Configured
<1>5. /\ task' \in [op : TaskNames, config : Configured, at : UnitStages, owned : B,
                    direct : B, result : UnitResults]
      /\ task'.op = op /\ task'.config = c /\ task'.at = at
      /\ task'.owned = FALSE /\ task'.result = "none"
  <2> HIDE DEF at, B
  <2> QED BY <1>1, <1>2, <1>3, <1>4
<1>6. UnitTypeOK' BY <1>0, <1>1, <1>5 DEF UnitTypeOK, TaskStates
<1>7. TaskPlaced'
  BY <1>0, <1>1, <1>5
  DEF TaskPlaced, Pending, InstallStages, UninstallStages, SystemdStages, LaunchdStages
<1>8. LaunchdServes' BY <1>0, <1>1 DEF LaunchdServes
<1>9. InstallProgress' BY <1>5 DEF InstallProgress
<1>10. RemovalProgress' BY <1>5 DEF RemovalProgress
<1>11. ForeignApart' BY <1>5 DEF ForeignApart, TeardownStages
<1> QED BY <1>6, <1>7, <1>8, <1>9, <1>10, <1>11 DEF UnitInv

LEMMA WriteFileUnitInv ==
    ASSUME UnitInv, WriteFile
    PROVE  UnitInv'
<1>0. UnitTypeOK /\ TaskPlaced /\ LaunchdServes BY DEF UnitInv
<1>1. /\ UNCHANGED <<manager, deleted, disturbed, loaded, serving>>
      /\ swallowed' = swallowed /\ swallowed' \in BOOLEAN
      /\ task.at = "prepare" /\ Pending
  BY <1>0 DEF WriteFile, UnitTypeOK, Pending
<1>2. LaunchdServes' BY <1>0, <1>1 DEF LaunchdServes
<1>3. CASE Finishes("error") BY <1>1, <1>2, <1>3, ErrorKeeps
<1>4. ASSUME file' = task.config, Moves(IF manager = "systemd" THEN "reload" ELSE "loaded?")
      PROVE  UnitInv'
  <2> DEFINE next == IF manager = "systemd" THEN "reload" ELSE "loaded?"
  <2>1. task.op = "install" BY <1>1, StageTells DEF InstallStages
  <2>2. /\ next \in InstallStages
        /\ next \in SystemdStages => manager = "systemd"
        /\ next \in LaunchdStages => manager = "launchd"
        /\ next \notin {"enable", "active?", "start", "restart", "kickstart", "installed"}
    BY <1>0 DEF InstallStages, SystemdStages, LaunchdStages, UnitTypeOK
  <2>3. Moves(next) BY <1>4
  <2> HIDE DEF next
  <2> QED BY <1>1, <1>2, <1>4, <2>1, <2>2, <2>3, InstallMoves
<1> QED BY <1>3, <1>4 DEF WriteFile

(* What the probe answered is what is, or the failure was passed over.       *)
LEMMA Probed ==
    ASSUME UnitTypeOK, NEW at, NEW ifActive, NEW otherwise, Probe(at, ifActive, otherwise)
    PROVE  /\ UNCHANGED <<manager, file, loaded, enabled, serving, deleted, disturbed>>
           /\ task.at = at /\ swallowed' \in BOOLEAN
           /\ ~swallowed' => ~swallowed
           /\ \/ Moves(ifActive) /\ Active
              \/ Moves(otherwise) /\ (~swallowed' => ~Active)
<1>0. Active \in BOOLEAN BY DEF Active
<1>1. PICK answer \in {Active, FALSE} :
          /\ Moves(IF answer THEN ifActive ELSE otherwise)
          /\ swallowed' = (swallowed \/ answer # Active)
  BY DEF Probe
<1>2. answer \in BOOLEAN /\ (answer => Active)
  <2>1. CASE answer = Active BY <1>0, <2>1, Zenon
  <2>2. CASE answer = FALSE BY <2>2
  <2> QED BY <2>1, <2>2
<1>3. swallowed \in BOOLEAN BY DEF UnitTypeOK
<1>4. swallowed' \in BOOLEAN /\ (~swallowed' => ~swallowed) BY <1>1, <1>3
<1>5. CASE answer BY <1>1, <1>2, <1>4, <1>5 DEF Probe
<1>6. CASE ~answer
  <2>1. ~swallowed' => answer = Active BY <1>1, <1>3
  <2>2. ~swallowed' => ~Active BY <2>1, <1>6, <1>0, <1>2
  <2>3. Moves(otherwise) BY <1>1, <1>6
  <2> QED BY <2>2, <2>3, <1>4 DEF Probe
<1> QED BY <1>5, <1>6

LEMMA SystemdUnitInv ==
    ASSUME UnitInv, SystemdSteps
    PROVE  UnitInv'
<1>0. UnitTypeOK /\ TaskPlaced /\ LaunchdServes /\ InstallProgress BY DEF UnitInv
<1>1. /\ UNCHANGED <<manager, deleted, disturbed>> /\ swallowed' \in BOOLEAN
      /\ manager = "systemd" /\ task.op = "install"
  BY <1>0, Probed DEF SystemdSteps, Manager, UnitTypeOK
<1>2. LaunchdServes' BY <1>1 DEF LaunchdServes
<1>3. CASE Manager("reload", Reload, "enable")
  <2>1. task.at = "reload" /\ Pending /\ swallowed' = swallowed
    BY <1>3 DEF Manager, Pending
  <2>2. CASE Finishes("error") BY <1>1, <1>2, <2>1, <2>2, ErrorKeeps
  <2>3. CASE Moves("enable") /\ Reload
    <3>1. ~disturbed /\ ~swallowed' => file' = task.config /\ loaded' = task.config
      BY <1>0, <1>1, <2>1, <2>3 DEF InstallProgress, Reload
    <3> QED
      BY <1>1, <1>2, <2>1, <2>3, <3>1, InstallMoves
      DEF InstallStages, SystemdStages, LaunchdStages
  <2> QED BY <1>3, <2>2, <2>3 DEF Manager
<1>4. CASE Manager("enable", Enable, "active?")
  <2>1. task.at = "enable" /\ Pending /\ swallowed' = swallowed
    BY <1>4 DEF Manager, Pending
  <2>2. CASE Finishes("error") BY <1>1, <1>2, <2>1, <2>2, ErrorKeeps
  <2>3. CASE Moves("active?") /\ Enable
    <3>1. ~disturbed /\ ~swallowed' => file' = task.config /\ loaded' = task.config /\ enabled'
      BY <1>0, <1>1, <2>1, <2>3 DEF InstallProgress, Enable
    <3> QED
      BY <1>1, <1>2, <2>1, <2>3, <3>1, InstallMoves
      DEF InstallStages, SystemdStages, LaunchdStages
  <2> QED BY <1>4, <2>2, <2>3 DEF Manager
<1>5. CASE Probe("active?", "restart", "start")
  <2>1. /\ UNCHANGED <<file, loaded, enabled, serving>> /\ task.at = "active?" /\ Pending
        /\ ~swallowed' => ~swallowed
        /\ \/ Moves("restart") /\ Active
           \/ Moves("start") /\ (~swallowed' => ~Active)
    BY <1>0, <1>5, Probed DEF Pending
  <2>2. ~disturbed /\ ~swallowed' => file' = task.config /\ loaded' = task.config /\ enabled'
    BY <1>0, <1>1, <2>1 DEF InstallProgress
  <2>3. CASE Moves("restart")
    BY <1>1, <1>2, <2>1, <2>2, <2>3, InstallMoves
    DEF InstallStages, SystemdStages, LaunchdStages
  <2>4. CASE Moves("start") /\ (~swallowed' => ~Active)
    <3>1. ~swallowed' => serving' = Nothing BY <1>1, <2>1, <2>4 DEF Active
    <3> QED
      BY <1>1, <1>2, <2>1, <2>2, <2>4, <3>1, InstallMoves
      DEF InstallStages, SystemdStages, LaunchdStages
  <2> QED BY <2>1, <2>3, <2>4
<1>6. CASE Manager("restart", RestartUnit, "installed")
  <2>1. task.at = "restart" /\ Pending /\ swallowed' = swallowed
    BY <1>6 DEF Manager, Pending
  <2>2. CASE Finishes("error") BY <1>1, <1>2, <2>1, <2>2, ErrorKeeps
  <2>3. CASE Moves("installed") /\ RestartUnit
    <3>1. ~disturbed /\ ~swallowed' =>
              file' = task.config /\ loaded' = task.config /\ enabled' /\ serving' = task.config
      BY <1>0, <1>1, <2>1, <2>3 DEF InstallProgress, RestartUnit
    <3> QED
      BY <1>1, <1>2, <2>1, <2>3, <3>1, InstallMoves
      DEF InstallStages, SystemdStages, LaunchdStages
  <2> QED BY <1>6, <2>2, <2>3 DEF Manager
<1> QED BY <1>3, <1>4, <1>5, <1>6 DEF SystemdSteps

LEMMA StartUnitInv ==
    ASSUME UnitInv, StartOrRestart
    PROVE  UnitInv'
<1>0. UnitTypeOK /\ TaskPlaced /\ InstallProgress BY DEF UnitInv
<1>1. /\ UNCHANGED <<manager, deleted, disturbed>> /\ swallowed' \in BOOLEAN
      /\ swallowed' = swallowed /\ task.at = "start" /\ Pending
  BY <1>0 DEF StartOrRestart, UnitTypeOK, Pending
<1>2. task.op = "install" BY <1>1, StageTells DEF InstallStages
<1>3. manager = "systemd" BY <1>0, <1>1 DEF TaskPlaced, SystemdStages
<1>4. LaunchdServes' BY <1>1, <1>3 DEF LaunchdServes
<1>5. /\ UNCHANGED <<file, loaded, enabled>>
      /\ Moves("restart") \/ (StartUnit /\ Moves("installed"))
  BY DEF StartOrRestart, StartUnit
<1>6. ~disturbed /\ ~swallowed' =>
          file' = task.config /\ loaded' = task.config /\ enabled' /\ serving = Nothing
  BY <1>0, <1>1, <1>2, <1>5 DEF InstallProgress
<1>7. CASE Moves("restart")
  BY <1>1, <1>2, <1>3, <1>4, <1>6, <1>7, InstallMoves
  DEF InstallStages, SystemdStages, LaunchdStages
<1>8. CASE StartUnit /\ Moves("installed")
  <2>1. ~disturbed /\ ~swallowed' => serving' = task.config
    BY <1>5, <1>6, <1>8 DEF StartUnit
  <2> QED
    BY <1>1, <1>2, <1>3, <1>4, <1>6, <1>8, <2>1, InstallMoves
    DEF InstallStages, SystemdStages, LaunchdStages
<1> QED BY <1>5, <1>7, <1>8

LEMMA LaunchdUnitInv ==
    ASSUME UnitInv, LaunchdSteps
    PROVE  UnitInv'
<1>0. UnitTypeOK /\ TaskPlaced /\ LaunchdServes /\ InstallProgress BY DEF UnitInv
<1>1. /\ UNCHANGED <<manager, deleted, disturbed>> /\ swallowed' \in BOOLEAN
      /\ manager = "launchd" /\ task.op = "install"
  BY <1>0, Probed DEF LaunchdSteps, Manager, BestEffort, UnitTypeOK
<1>2. CASE Probe("loaded?", "bootout", "bootstrap")
  <2>1. /\ UNCHANGED <<file, loaded, enabled, serving>> /\ task.at = "loaded?" /\ Pending
        /\ ~swallowed' => ~swallowed
        /\ Moves("bootout") \/ Moves("bootstrap")
    BY <1>0, <1>2, Probed DEF Pending
  <2>2. ~disturbed /\ ~swallowed' => file' = task.config
    BY <1>0, <1>1, <2>1 DEF InstallProgress
  <2>3. LaunchdServes' BY <1>0, <1>1, <2>1 DEF LaunchdServes
  <2>4. CASE Moves("bootout")
    BY <1>1, <2>1, <2>2, <2>3, <2>4, InstallMoves
    DEF InstallStages, SystemdStages, LaunchdStages
  <2>5. CASE Moves("bootstrap")
    BY <1>1, <2>1, <2>2, <2>3, <2>5, InstallMoves
    DEF InstallStages, SystemdStages, LaunchdStages
  <2> QED BY <2>1, <2>4, <2>5
<1>3. CASE BestEffort("bootout", Bootout, "rebootstrap")
  <2>1. /\ task.at = "bootout" /\ Pending /\ Moves("rebootstrap") /\ file' = file
        /\ Bootout \/ UNCHANGED <<loaded, serving>>
        /\ ~swallowed' => ~swallowed
    BY <1>3 DEF BestEffort, Pending, Bootout
  <2>2. ~disturbed /\ ~swallowed' => file' = task.config
    BY <1>0, <1>1, <2>1 DEF InstallProgress
  <2>3. LaunchdServes' BY <1>0, <1>1, <2>1 DEF LaunchdServes, Bootout
  <2> QED
    BY <1>1, <2>1, <2>2, <2>3, InstallMoves
    DEF InstallStages, SystemdStages, LaunchdStages
<1>4. CASE BestEffort("rebootstrap", Bootstrap, "kickstart")
  <2>1. /\ task.at = "rebootstrap" /\ Pending /\ Moves("kickstart") /\ file' = file
        /\ Bootstrap \/ (UNCHANGED <<loaded, serving>> /\ swallowed' = TRUE)
        /\ ~swallowed' => ~swallowed
    BY <1>4 DEF BestEffort, Pending, Bootstrap
  <2>2. ~disturbed /\ ~swallowed' => file' = task.config /\ loaded' = task.config
    BY <1>0, <1>1, <2>1 DEF InstallProgress, Bootstrap
  <2>3. LaunchdServes' BY <1>0, <1>1, <2>1 DEF LaunchdServes, Bootstrap
  <2> QED
    BY <1>1, <2>1, <2>2, <2>3, InstallMoves
    DEF InstallStages, SystemdStages, LaunchdStages
<1>5. CASE Manager("rebootstrap", Bootstrap, "kickstart")
  <2>1. /\ task.at = "rebootstrap" /\ Pending /\ file' = file /\ swallowed' = swallowed
        /\ \/ Bootstrap /\ (Moves("kickstart") \/ Finishes("error"))
           \/ UNCHANGED <<loaded, serving>> /\ Finishes("error")
    BY <1>5 DEF Manager, Pending, Bootstrap
  <2>2. LaunchdServes' BY <1>0, <1>1, <2>1 DEF LaunchdServes, Bootstrap
  <2>3. CASE Finishes("error") BY <1>1, <2>1, <2>2, <2>3, ErrorKeeps
  <2>4. CASE Bootstrap /\ Moves("kickstart")
    <3>1. ~disturbed /\ ~swallowed' => file' = task.config /\ loaded' = task.config
      BY <1>0, <1>1, <2>1, <2>4 DEF InstallProgress, Bootstrap
    <3> QED
      BY <1>1, <2>1, <2>2, <2>4, <3>1, InstallMoves
      DEF InstallStages, SystemdStages, LaunchdStages
  <2> QED BY <2>1, <2>3, <2>4
<1>6. CASE Manager("bootstrap", Bootstrap, "installed")
  <2>1. /\ task.at = "bootstrap" /\ Pending /\ file' = file /\ swallowed' = swallowed
        /\ \/ Bootstrap /\ (Moves("installed") \/ Finishes("error"))
           \/ UNCHANGED <<loaded, serving>> /\ Finishes("error")
    BY <1>6 DEF Manager, Pending, Bootstrap
  <2>2. LaunchdServes' BY <1>0, <1>1, <2>1 DEF LaunchdServes, Bootstrap
  <2>3. CASE Finishes("error") BY <1>1, <2>1, <2>2, <2>3, ErrorKeeps
  <2>4. CASE Bootstrap /\ Moves("installed")
    <3>1. ~disturbed /\ ~swallowed' =>
              file' = task.config /\ loaded' = task.config /\ serving' = task.config
      BY <1>0, <1>1, <2>1, <2>4 DEF InstallProgress, Bootstrap
    <3> QED
      BY <1>1, <2>1, <2>2, <2>4, <3>1, InstallMoves
      DEF InstallStages, SystemdStages, LaunchdStages
  <2> QED BY <2>1, <2>3, <2>4
<1>7. CASE Manager("kickstart", RestartUnit, "installed")
  <2>1. /\ task.at = "kickstart" /\ Pending /\ UNCHANGED <<file, loaded>>
        /\ swallowed' = swallowed
        /\ \/ RestartUnit /\ (Moves("installed") \/ Finishes("error"))
           \/ UNCHANGED <<loaded, serving>> /\ Finishes("error")
    BY <1>7 DEF Manager, Pending, RestartUnit
  <2>2. LaunchdServes' BY <1>0, <1>1, <2>1 DEF LaunchdServes, RestartUnit
  <2>3. CASE Finishes("error") BY <1>1, <2>1, <2>2, <2>3, ErrorKeeps
  <2>4. CASE RestartUnit /\ Moves("installed")
    <3>1. ~disturbed /\ ~swallowed' =>
              file' = task.config /\ loaded' = task.config /\ serving' = task.config
      BY <1>0, <1>1, <2>1, <2>4 DEF InstallProgress, RestartUnit
    <3> QED
      BY <1>1, <2>1, <2>2, <2>4, <3>1, InstallMoves
      DEF InstallStages, SystemdStages, LaunchdStages
  <2> QED BY <2>1, <2>3, <2>4
<1> QED BY <1>2, <1>3, <1>4, <1>5, <1>6, <1>7 DEF LaunchdSteps

LEMMA InstalledUnitInv ==
    ASSUME UnitInv, Installed
    PROVE  UnitInv'
<1>0. UnitTypeOK /\ TaskPlaced /\ LaunchdServes /\ InstallProgress BY DEF UnitInv
<1>1. /\ UNCHANGED <<manager, file, loaded, enabled, serving, deleted, swallowed, disturbed>>
      /\ task.at = "installed"
  BY DEF Installed
<1>2. task.op = "install" BY <1>1, StageTells DEF InstallStages
<1>3. /\ task' \in TaskStates /\ task'.at = "end" /\ task'.result = "installed"
      /\ task'.op = task.op /\ task'.config = task.config /\ task'.owned = task.owned
  BY <1>0, Finished DEF Installed, UnitResults
<1>4. UnitTypeOK' BY <1>0, <1>1, <1>3 DEF UnitTypeOK
<1>5. TaskPlaced'
  BY <1>0, <1>1, <1>2, <1>3 DEF TaskPlaced, Pending, SystemdStages, LaunchdStages
<1>6. LaunchdServes' BY <1>0, <1>1 DEF LaunchdServes
<1>7. InstallProgress' BY <1>0, <1>1, <1>2, <1>3 DEF InstallProgress
<1>8. RemovalProgress' BY <1>2, <1>3 DEF RemovalProgress
<1>9. ForeignApart' BY <1>3 DEF ForeignApart, TeardownStages
<1> QED BY <1>4, <1>5, <1>6, <1>7, <1>8, <1>9 DEF UnitInv

-----------------------------------------------------------------------------
(* A look that passed nothing over saw what is; and a registration that is   *)
(* taken for ours is not foreign.                                            *)
LEMMA Looked ==
    ASSUME UnitTypeOK, NEW active \in {Active, FALSE}, NEW readable \in BOOLEAN
    PROVE  /\ active \in BOOLEAN /\ Active \in BOOLEAN
           /\ Overlooks(active, readable) \in BOOLEAN
           /\ ~Overlooks(active, readable) =>
                 /\ ~swallowed /\ active = Active
                 /\ Ownership(active, readable) = Ownership(Active, TRUE)
           /\ Ownership(active, readable) = "owned" => file \notin ForeignUnits
<1>0. Active \in BOOLEAN BY DEF Active
<1>2. active \in BOOLEAN
  <2>1. CASE active = Active BY <1>0, <2>1, Zenon
  <2>2. CASE active = FALSE BY <2>2
  <2> QED BY <2>1, <2>2
<1>3. swallowed \in BOOLEAN BY DEF UnitTypeOK
<1>4. Overlooks(active, readable) \in BOOLEAN BY <1>3 DEF Overlooks
<1>5. ASSUME ~Overlooks(active, readable)
      PROVE  ~swallowed /\ active = Active /\ Ownership(active, readable) = Ownership(Active, TRUE)
  <2>1. ~swallowed /\ active = Active /\ readable BY <1>3, <1>5 DEF Overlooks
  <2>2. readable = TRUE BY <2>1
  <2>3. Ownership(active, readable) = Ownership(Active, TRUE) BY <2>1, <2>2, Zenon
  <2> QED BY <2>1, <2>3
<1>6. ASSUME Ownership(active, readable) = "owned" PROVE file \notin ForeignUnits
  <2>1. SUFFICES ASSUME file \in ForeignUnits PROVE FALSE OBVIOUS
  <2>2. file # Nothing /\ ~Ours(Named) BY <2>1, UnitAssumption DEF Named, Ours
  <2>3. Ownership(active, readable) \in {"foreign", "unknown"}
    <3>1. CASE readable BY <2>2, <3>1 DEF Ownership
    <3>2. CASE ~readable BY <2>2, <3>2 DEF Ownership
    <3> QED BY <3>1, <3>2
  <2> QED BY <1>6, <2>3
<1> QED BY <1>0, <1>2, <1>4, <1>5, <1>6

(* An active foreign unit accounts for the daemon that it runs.              *)
LEMMA ForeignExplained ==
    ASSUME UnitTypeOK, LaunchdServes, file \in ForeignUnits, serving = file,
           Uses[file] = task.config, NEW names
    PROVE  Explains(Active, Ownership(Active, TRUE), names)
<1>1. file # Nothing /\ ~Ours(Named) /\ Named = file
  BY UnitAssumption DEF Named, Ours
<1>2. Active = TRUE
  <2>1. manager = "systemd" \/ manager = "launchd" BY DEF UnitTypeOK
  <2>2. CASE manager = "systemd" BY <1>1, <2>2 DEF Active
  <2>3. CASE manager = "launchd" BY <1>1, <2>3 DEF Active, LaunchdServes
  <2> QED BY <2>1, <2>2, <2>3
<1>3. Ownership(TRUE, TRUE) = "foreign" BY <1>1 DEF Ownership
<1>4. Serves(Named, task.config) BY <1>1 DEF Serves
<1> QED BY <1>2, <1>3, <1>4 DEF Explains

LEMMA DiscoverUnitInv ==
    ASSUME UnitInv, Discover
    PROVE  UnitInv'
<1>0. UnitTypeOK /\ TaskPlaced /\ LaunchdServes BY DEF UnitInv
<1>1. /\ UNCHANGED <<manager, file, loaded, enabled, serving, deleted, disturbed>>
      /\ task.at = "discover" /\ Pending
  BY DEF Discover, Pending
<1>2. task.op = "uninstall" BY <1>1, StageTells DEF UninstallStages
<1>3. LaunchdServes' BY <1>0, <1>1 DEF LaunchdServes
<1>a. PICK running \in {Serves(serving, task.config), FALSE},
          active \in {Active, FALSE}, readable \in BOOLEAN, names \in BOOLEAN :
          /\ swallowed' = \/ Overlooks(active, readable)
                           \/ running # Serves(serving, task.config)
          /\ LET ownership == Ownership(active, readable)
                 unknown == active /\ ownership = "unknown"
             IN IF running /\ unknown THEN Finishes("error")
                ELSE task' = [task EXCEPT
                       !.owned = ownership = "owned",
                       !.direct = running /\ ~Explains(active, ownership, names),
                       !.at = IF ownership = "owned" THEN "classify" ELSE "verify"]
  BY Zenon DEF Discover
<1> DEFINE ownership == Ownership(active, readable)
           explains == Explains(active, ownership, names)
           direct == running /\ ~explains
<1>b. direct \in BOOLEAN OBVIOUS
<1>4. /\ \/ Finishes("error")
         \/ task' = [task EXCEPT
                !.owned = ownership = "owned", !.direct = direct,
                !.at = IF ownership = "owned" THEN "classify" ELSE "verify"]
  BY <1>a, Zenon
<1>c. Serves(serving, task.config) \in BOOLEAN BY DEF Serves
<1>5. /\ swallowed' \in BOOLEAN
      /\ ~swallowed' => /\ ~swallowed /\ ownership = Ownership(Active, TRUE)
                        /\ active = Active
      /\ ownership = "owned" => file \notin ForeignUnits
  <2>1. /\ Overlooks(active, readable) \in BOOLEAN
        /\ ~Overlooks(active, readable) =>
              ~swallowed /\ active = Active /\ ownership = Ownership(Active, TRUE)
        /\ ownership = "owned" => file \notin ForeignUnits
    BY <1>0, Looked
  <2>2. /\ swallowed' \in BOOLEAN
        /\ ~swallowed' => ~Overlooks(active, readable)
    BY <1>a, <2>1
  <2> QED BY <2>1, <2>2
<1>d. ~swallowed' /\ file \in ForeignUnits /\ serving = file /\ Uses[file] = task.config => ~direct
  BY <1>0, <1>5, ForeignExplained
<1> HIDE DEF direct, ownership
<1>6. CASE Finishes("error") BY <1>1, <1>3, <1>5, <1>6, ErrorKeeps
<1>7. ASSUME task' = [task EXCEPT
                    !.owned = ownership = "owned", !.direct = direct,
                    !.at = IF ownership = "owned" THEN "classify" ELSE "verify"]
      PROVE  UnitInv'
  <2> DEFINE owned == ownership = "owned"
             next == IF ownership = "owned" THEN "classify" ELSE "verify"
             B == BOOLEAN
  <2>1. owned \in B /\ direct \in B /\ next \in UnitStages
    BY <1>b DEF UnitStages, UninstallStages
  <2>2. task \in [op : TaskNames, config : Configured, at : UnitStages, owned : B,
                  direct : B, result : UnitResults]
    BY <1>0 DEF UnitTypeOK, TaskStates
  <2>3. task' = [task EXCEPT !.owned = owned, !.direct = direct, !.at = next] BY <1>7
  <2>4. /\ task' \in [op : TaskNames, config : Configured, at : UnitStages, owned : B,
                      direct : B, result : UnitResults]
        /\ task'.op = task.op /\ task'.config = task.config /\ task'.at = next
        /\ task'.owned = owned /\ task'.result = task.result /\ task'.direct = direct
    <3> HIDE DEF owned, next, B
    <3> QED BY <2>1, <2>2, <2>3
  <2>5. UnitTypeOK' BY <1>0, <1>1, <1>5, <2>4 DEF UnitTypeOK, TaskStates
  <2>6. TaskPlaced'
    <3>1. /\ next \in UninstallStages /\ next # "end"
          /\ next \notin SystemdStages /\ next \notin LaunchdStages
      BY DEF UninstallStages, SystemdStages, LaunchdStages
    <3> HIDE DEF next
    <3> QED BY <1>0, <1>1, <1>2, <2>4, <3>1 DEF TaskPlaced, Pending
  <2>7. InstallProgress' BY <1>2, <2>4 DEF InstallProgress
  <2>8. RemovalProgress'
    <3>1. CASE ownership = "owned"
      <4>1. task'.at = "classify" BY <2>4, <3>1
      <4>2. Ownership(Active, TRUE)' = Ownership(Active, TRUE)
        BY <1>1 DEF Ownership, Active, Named, Ours
      <4>3. ~swallowed' => Ownership(Active, TRUE)' = "owned" BY <1>5, <3>1, <4>2
      <4> QED BY <4>1, <4>3 DEF RemovalProgress
    <3>2. CASE ownership # "owned"
      <4>1. ~task'.owned BY <2>4, <3>2
      <4> QED BY <4>1 DEF RemovalProgress
    <3> QED BY <3>1, <3>2
  <2>9. ForeignApart'
    <3>1. CASE ownership = "owned"
      <4>1. task'.at = "classify" /\ file' \notin ForeignUnits BY <1>1, <1>5, <2>4, <3>1
      <4> QED BY <4>1 DEF ForeignApart
    <3>2. CASE ownership # "owned"
      <4>1. task'.at = "verify" BY <2>4, <3>2
      <4>2. task'.direct = direct /\ task'.config = task.config BY <2>4
      <4> QED BY <1>1, <1>d, <4>1, <4>2 DEF ForeignApart, TeardownStages
    <3> QED BY <3>1, <3>2
  <2> QED BY <1>3, <2>5, <2>6, <2>7, <2>8, <2>9 DEF UnitInv
<1> QED BY <1>4, <1>6, <1>7

LEMMA ClassifyUnitInv ==
    ASSUME UnitInv, Classify
    PROVE  UnitInv'
<1>0. UnitTypeOK /\ TaskPlaced /\ LaunchdServes /\ RemovalProgress /\ ForeignApart
  BY DEF UnitInv
<1>1. /\ UNCHANGED <<manager, file, loaded, enabled, serving, deleted, disturbed>>
      /\ task.at = "classify" /\ Pending
  BY DEF Classify, Pending
<1>2. task.op = "uninstall" BY <1>1, StageTells DEF UninstallStages
<1>3. LaunchdServes' BY <1>0, <1>1 DEF LaunchdServes
<1>a. PICK active \in {Active, FALSE}, readable \in BOOLEAN :
          /\ swallowed' = Overlooks(active, readable)
          /\ Moves(IF Ownership(active, readable) = "owned" THEN TeardownSequence(active)
                   ELSE "verify")
  BY DEF Classify
<1> DEFINE ownership == Ownership(active, readable)
<1>4. Moves(IF ownership = "owned" THEN TeardownSequence(active) ELSE "verify") BY <1>a
<1>5. /\ swallowed' \in BOOLEAN /\ active \in BOOLEAN /\ Active \in BOOLEAN
      /\ ~swallowed' => ~swallowed /\ active = Active /\ ownership = Ownership(Active, TRUE)
  BY <1>0, <1>a, Looked
<1>b. ~disturbed => file' \notin ForeignUnits BY <1>0, <1>1 DEF ForeignApart
<1> HIDE DEF ownership
<1>6. task.owned /\ ~disturbed /\ ~swallowed' => ownership = "owned"
  BY <1>0, <1>1, <1>2, <1>5 DEF RemovalProgress
<1>7. manager \in {"systemd", "launchd"} BY <1>0 DEF UnitTypeOK
<1>8. CASE ownership = "owned"
  <2> DEFINE next == TeardownSequence(active)
  <2>1. Moves(next) BY <1>4, <1>8
  <2>2. /\ active /\ manager = "systemd" => next = "stop"
        /\ active /\ manager = "launchd" => next = "unload"
        /\ ~active /\ manager = "systemd" => next = "disable"
        /\ ~active /\ manager = "launchd" => next = "remove"
    BY <1>7 DEF TeardownSequence
  <2>3. ~active /\ ~swallowed' =>
            /\ serving' = Nothing
            /\ manager = "launchd" => loaded' = Nothing
    BY <1>0, <1>1, <1>5, <1>7 DEF Active, LaunchdServes
  <2> HIDE DEF next
  <2>4. CASE active
    BY <1>b, <1>1, <1>2, <1>3, <1>5, <1>7, <2>1, <2>2, <2>4, RemovalMoves
    DEF UninstallStages, TeardownStages, SystemdStages, LaunchdStages
  <2>5. CASE ~active
    BY <1>b, <1>1, <1>2, <1>3, <1>5, <1>7, <2>1, <2>2, <2>3, <2>5, RemovalMoves
    DEF UninstallStages, TeardownStages, SystemdStages, LaunchdStages
  <2> QED BY <1>5, <2>4, <2>5
<1>9. CASE ownership # "owned"
  <2>1. Moves("verify") BY <1>4, <1>9
  <2>2. ~(task.owned /\ ~disturbed /\ ~swallowed') BY <1>6, <1>9
  <2> QED
    BY <1>b, <1>1, <1>2, <1>3, <1>5, <2>1, <2>2, RemovalMoves
    DEF UninstallStages, TeardownStages, SystemdStages, LaunchdStages
<1> QED BY <1>8, <1>9

LEMMA TeardownUnitInv ==
    ASSUME UnitInv, TeardownSteps
    PROVE  UnitInv'
<1>0. UnitTypeOK /\ TaskPlaced /\ LaunchdServes /\ RemovalProgress /\ ForeignApart
  BY DEF UnitInv
<1>1. /\ UNCHANGED <<manager, deleted, disturbed, swallowed>> /\ swallowed' \in BOOLEAN
      /\ task.op = "uninstall"
  BY <1>0 DEF TeardownSteps, Manager, UnitTypeOK
<1>2. CASE Manager("stop", StopUnit, "disable")
  <2>1. /\ task.at = "stop" /\ Pending /\ UNCHANGED <<file, loaded>>
        /\ \/ StopUnit /\ (Moves("disable") \/ Finishes("error"))
           \/ UNCHANGED <<loaded, serving>> /\ Finishes("error")
    BY <1>2 DEF Manager, Pending, StopUnit
  <2>2. LaunchdServes' /\ manager = "systemd"
    BY <1>0, <1>1, <2>1 DEF LaunchdServes, TaskPlaced, SystemdStages
  <2>3. CASE Finishes("error") BY <1>1, <2>1, <2>2, <2>3, ErrorKeeps
  <2>4. CASE StopUnit /\ Moves("disable")
    <3>1. serving' = Nothing /\ (~disturbed => file' \notin ForeignUnits)
      BY <1>0, <2>1, <2>4 DEF StopUnit, ForeignApart, TeardownStages
    <3> QED
      BY <1>1, <2>1, <2>2, <2>4, <3>1, RemovalMoves
      DEF UninstallStages, TeardownStages, SystemdStages, LaunchdStages
  <2> QED BY <2>1, <2>3, <2>4
<1>3. CASE Manager("disable", Disable, IF file # Nothing THEN "remove" ELSE "verify")
  <2>1. /\ task.at = "disable" /\ Pending /\ UNCHANGED <<file, loaded, serving>>
        /\ \/ Disable /\ (Moves("remove") \/ Finishes("error"))
           \/ Finishes("error")
    BY <1>3 DEF Manager, Pending, Disable
  <2>2. LaunchdServes' /\ manager = "systemd"
    BY <1>0, <1>1, <2>1 DEF LaunchdServes, TaskPlaced, SystemdStages
  <2>3. CASE Finishes("error") BY <1>1, <2>1, <2>2, <2>3, ErrorKeeps
  <2>4. CASE Disable /\ Moves("remove")
    <3>1. /\ task.owned /\ ~disturbed /\ ~swallowed' => serving' = Nothing
          /\ ~disturbed => file' \notin ForeignUnits
      BY <1>0, <1>1, <2>1 DEF RemovalProgress, ForeignApart, TeardownStages
    <3> QED
      BY <1>1, <2>1, <2>2, <2>4, <3>1, RemovalMoves
      DEF UninstallStages, TeardownStages, SystemdStages, LaunchdStages
  <2> QED BY <2>1, <2>3, <2>4
<1>4. CASE Manager("remove", RemoveFile, IF manager = "systemd" THEN "forget" ELSE "verify")
  <2> DEFINE next == IF manager = "systemd" THEN "forget" ELSE "verify"
  <2>1. /\ task.at = "remove" /\ Pending /\ UNCHANGED <<loaded, serving>>
        /\ \/ RemoveFile /\ (Moves(next) \/ Finishes("error"))
           \/ Finishes("error")
    BY <1>4 DEF Manager, Pending, RemoveFile
  <2>2. LaunchdServes' BY <1>0, <1>1, <2>1 DEF LaunchdServes
  <2>3. CASE Finishes("error") BY <1>1, <2>1, <2>2, <2>3, ErrorKeeps
  <2>4. CASE RemoveFile /\ Moves(next)
    <3>1. file' = Nothing /\ file' \notin ForeignUnits BY <2>4, UnitAssumption DEF RemoveFile
    <3>2. task.owned /\ ~disturbed /\ ~swallowed' =>
              serving' = Nothing /\ (manager = "launchd" => loaded' = Nothing)
      BY <1>0, <1>1, <2>1 DEF RemovalProgress
    <3>3. CASE manager = "systemd"
      <4>1. Moves("forget") BY <2>4, <3>3
      <4> QED
        BY <1>1, <2>1, <2>2, <3>1, <3>2, <3>3, <4>1, RemovalMoves
        DEF UninstallStages, TeardownStages, SystemdStages, LaunchdStages
    <3>4. CASE manager = "launchd"
      <4>1. Moves("verify") BY <2>4, <3>4
      <4>2. task.owned /\ ~disturbed /\ ~swallowed' => Gone' BY <3>1, <3>2, <3>4 DEF Gone
      <4> QED
        BY <1>1, <2>1, <2>2, <3>1, <3>4, <4>1, <4>2, RemovalMoves
        DEF UninstallStages, TeardownStages, SystemdStages, LaunchdStages
    <3> QED BY <1>0, <3>3, <3>4 DEF UnitTypeOK
  <2> QED BY <2>1, <2>3, <2>4
<1>5. CASE Manager("forget", Reload, "verify")
  <2>1. /\ task.at = "forget" /\ Pending /\ UNCHANGED <<file, serving>>
        /\ \/ Reload /\ (Moves("verify") \/ Finishes("error"))
           \/ UNCHANGED <<loaded, serving>> /\ Finishes("error")
    BY <1>5 DEF Manager, Pending, Reload
  <2>2. LaunchdServes' /\ manager = "systemd"
    BY <1>0, <1>1, <2>1 DEF LaunchdServes, TaskPlaced, SystemdStages
  <2>3. CASE Finishes("error") BY <1>1, <2>1, <2>2, <2>3, ErrorKeeps
  <2>4. CASE Reload /\ Moves("verify")
    <3>1. task.owned /\ ~disturbed /\ ~swallowed' => Gone'
      BY <1>0, <1>1, <2>1, <2>4 DEF RemovalProgress, Reload, Gone
    <3>2. ~disturbed => file' \notin ForeignUnits
      BY <1>0, <2>1 DEF ForeignApart, TeardownStages
    <3> QED
      BY <3>2, <1>1, <2>1, <2>2, <2>4, <3>1, RemovalMoves
      DEF UninstallStages, TeardownStages, SystemdStages, LaunchdStages
  <2> QED BY <2>1, <2>3, <2>4
<1>6. CASE Manager("unload", Bootout, IF file # Nothing THEN "remove" ELSE "verify")
  <2> DEFINE next == IF file # Nothing THEN "remove" ELSE "verify"
  <2>1. /\ task.at = "unload" /\ Pending /\ file' = file
        /\ \/ Bootout /\ (Moves(next) \/ Finishes("error"))
           \/ UNCHANGED <<loaded, serving>> /\ Finishes("error")
    BY <1>6 DEF Manager, Pending, Bootout
  <2>2. LaunchdServes' /\ manager = "launchd"
    BY <1>0, <1>1, <2>1 DEF LaunchdServes, TaskPlaced, LaunchdStages, Bootout
  <2>3. CASE Finishes("error") BY <1>1, <2>1, <2>2, <2>3, ErrorKeeps
  <2>4. CASE Bootout /\ Moves(next)
    <3>1. /\ serving' = Nothing /\ loaded' = Nothing
          /\ ~disturbed => file' \notin ForeignUnits
      BY <1>0, <2>1, <2>4 DEF Bootout, ForeignApart, TeardownStages
    <3>2. CASE file # Nothing
      <4>1. Moves("remove") BY <2>4, <3>2
      <4> QED
        BY <1>1, <2>1, <2>2, <3>1, <4>1, RemovalMoves
        DEF UninstallStages, TeardownStages, SystemdStages, LaunchdStages
    <3>3. CASE file = Nothing
      <4>1. Moves("verify") BY <2>4, <3>3
      <4>2. Gone' BY <2>1, <3>1, <3>3 DEF Gone
      <4> QED
        BY <3>1, <1>1, <2>1, <2>2, <4>1, <4>2, RemovalMoves
        DEF UninstallStages, TeardownStages, SystemdStages, LaunchdStages
    <3> QED BY <3>2, <3>3
  <2> QED BY <2>1, <2>3, <2>4
<1> QED BY <1>2, <1>3, <1>4, <1>5, <1>6 DEF TeardownSteps

LEMMA EndpointUnitInv ==
    ASSUME UnitInv, DirectStop \/ Verify
    PROVE  UnitInv'
<1>0. UnitTypeOK /\ TaskPlaced /\ LaunchdServes /\ RemovalProgress BY DEF UnitInv
<1>1. /\ UNCHANGED <<manager, file, loaded, deleted, disturbed>>
      /\ swallowed' \in BOOLEAN /\ (~swallowed' => ~swallowed)
      /\ task.at = "verify" /\ Pending
      /\ serving' = serving \/ serving' = Nothing
      /\ Moves("delete") \/ Finishes("error")
  <2>1. /\ UNCHANGED <<manager, file, loaded, deleted, disturbed>>
        /\ task.at = "verify" /\ Pending
        /\ serving' = serving \/ serving' = Nothing
        /\ Moves("delete") \/ Finishes("error")
    BY DEF DirectStop, Verify, Pending
  <2>2. Serves(serving, task.config) \in BOOLEAN /\ swallowed \in BOOLEAN
    BY <1>0 DEF Serves, UnitTypeOK
  <2>3. CASE DirectStop
    <3>1. swallowed' = swallowed BY <2>3 DEF DirectStop
    <3> QED BY <2>1, <2>2, <3>1
  <2>4. CASE Verify
    <3>1. PICK answers \in {Serves(serving, task.config), FALSE} :
              swallowed' = (swallowed \/ answers # Serves(serving, task.config))
      BY <2>4 DEF Verify
    <3> QED BY <2>1, <2>2, <3>1
  <2> QED BY <2>3, <2>4
<1>2. task.op = "uninstall" BY <1>1, StageTells DEF UninstallStages
<1>3. LaunchdServes' BY <1>0, <1>1 DEF LaunchdServes
<1>4. CASE Finishes("error") BY <1>1, <1>3, <1>4, ErrorKeeps
<1>5. CASE Moves("delete")
  <2>1. task.owned /\ ~disturbed /\ ~swallowed' => Gone'
    BY <1>0, <1>1, <1>2 DEF RemovalProgress, Gone
  <2> QED
    BY <1>1, <1>2, <1>3, <1>5, <2>1, RemovalMoves
    DEF UninstallStages, TeardownStages, SystemdStages, LaunchdStages
<1> QED BY <1>1, <1>4, <1>5

LEMMA DeleteUnitInv ==
    ASSUME UnitInv, DeleteExecutable
    PROVE  UnitInv'
<1>0. UnitTypeOK /\ TaskPlaced /\ LaunchdServes /\ RemovalProgress BY DEF UnitInv
<1>1. /\ UNCHANGED <<manager, file, loaded, enabled, serving, disturbed, swallowed>>
      /\ task.at = "delete" /\ Pending /\ swallowed' \in BOOLEAN
  BY <1>0 DEF DeleteExecutable, UnitTypeOK, Pending
<1>2. task.op = "uninstall" BY <1>1, StageTells DEF UninstallStages
<1>3. LaunchdServes' BY <1>0, <1>1 DEF LaunchdServes
<1>4. CASE Finishes("error") /\ deleted' = deleted BY <1>1, <1>3, <1>4, ErrorKeeps
<1>5. CASE Finishes("uninstalled") /\ deleted' = TRUE
  <2>1. /\ task' \in TaskStates /\ task'.at = "end" /\ task'.result = "uninstalled"
        /\ task'.op = task.op /\ task'.config = task.config /\ task'.owned = task.owned
    BY <1>0, <1>5, Finished DEF UnitResults
  <2>2. UnitTypeOK' BY <1>0, <1>1, <1>5, <2>1 DEF UnitTypeOK
  <2>3. TaskPlaced'
    BY <1>0, <1>1, <1>2, <2>1 DEF TaskPlaced, Pending, SystemdStages, LaunchdStages
  <2>4. InstallProgress' BY <1>2, <2>1 DEF InstallProgress
  <2>5. RemovalProgress' BY <1>0, <1>1, <1>2, <2>1 DEF RemovalProgress, Gone
  <2>6. ForeignApart' BY <2>1 DEF ForeignApart, TeardownStages
  <2> QED BY <1>3, <2>2, <2>3, <2>4, <2>5, <2>6 DEF UnitInv
<1> QED BY <1>4, <1>5 DEF DeleteExecutable

LEMMA IntervenesUnitInv ==
    ASSUME UnitInv, Intervenes
    PROVE  UnitInv'
<1>0. UnitTypeOK /\ TaskPlaced /\ LaunchdServes BY DEF UnitInv
<1>1. /\ UNCHANGED <<manager, task, deleted, swallowed, loaded>> /\ disturbed' = TRUE
      /\ StartUnit \/ StopUnit \/ serving' = serving
  BY DEF Intervenes, StartUnit, StopUnit
<1>2. UnitTypeOK' BY <1>0, <1>1 DEF UnitTypeOK
<1>3. TaskPlaced' BY <1>0, <1>1 DEF TaskPlaced, Pending
<1>4. LaunchdServes' BY <1>0, <1>1 DEF LaunchdServes, StartUnit, StopUnit
<1>5. InstallProgress' BY <1>1 DEF InstallProgress
<1>6. RemovalProgress' BY <1>1 DEF RemovalProgress
<1>7. ForeignApart' BY <1>1 DEF ForeignApart
<1> QED BY <1>2, <1>3, <1>4, <1>5, <1>6, <1>7 DEF UnitInv

LEMMA UnitInitInv == UnitInit => UnitInv
<1> SUFFICES ASSUME UnitInit PROVE UnitInv OBVIOUS
<1>1. task = NoTask /\ task.op = "none" /\ task.at = "end" /\ deleted = FALSE
  BY DEF UnitInit, NoTask
<1>2. UnitTypeOK BY <1>1, NoTaskTyped DEF UnitInit, UnitTypeOK
<1>3. TaskPlaced BY <1>1 DEF TaskPlaced, Pending, SystemdStages, LaunchdStages
<1>4. LaunchdServes BY DEF UnitInit, LaunchdServes
<1>5. InstallProgress /\ RemovalProgress /\ ForeignApart
  BY <1>1 DEF InstallProgress, RemovalProgress, ForeignApart, TeardownStages
<1> QED BY <1>2, <1>3, <1>4, <1>5 DEF UnitInv

LEMMA UnitNextInv == UnitInv /\ [UnitNext]_unitVars => UnitInv'
<1> SUFFICES ASSUME UnitInv, [UnitNext]_unitVars PROVE UnitInv' OBVIOUS
<1>1. CASE UNCHANGED unitVars
  <2>1. UNCHANGED <<manager, file, loaded, enabled, serving, task, deleted, swallowed,
                    disturbed>>
    BY <1>1 DEF unitVars
  <2>2. UnitTypeOK' /\ LaunchdServes' BY <2>1 DEF UnitInv, UnitTypeOK, LaunchdServes
  <2>3. TaskPlaced' BY <2>1 DEF UnitInv, TaskPlaced, Pending
  <2>4. InstallProgress' /\ ForeignApart' BY <2>1 DEF UnitInv, InstallProgress, ForeignApart
  <2>5. Ownership(Active, TRUE)' = Ownership(Active, TRUE)
    BY <2>1 DEF Ownership, Active, Named, Ours
  <2>6. RemovalProgress
    BY DEF UnitInv
  <2>7. RemovalProgress' BY <2>1, <2>5, <2>6 DEF RemovalProgress, Gone
  <2> QED BY <2>2, <2>3, <2>4, <2>7 DEF UnitInv
<1> QED
  BY <1>1, BeginUnitInv, WriteFileUnitInv, SystemdUnitInv, StartUnitInv, LaunchdUnitInv,
     InstalledUnitInv, DiscoverUnitInv, ClassifyUnitInv, TeardownUnitInv, EndpointUnitInv,
     DeleteUnitInv, IntervenesUnitInv
  DEF UnitNext

LEMMA UnitInvariant == UnitSpec => []UnitInv
BY UnitInitInv, UnitNextInv, PTL DEF UnitSpec

LEMMA CommandsHonest == UnitInv => InstallHonest /\ UninstallHonest
<1> SUFFICES ASSUME UnitInv PROVE InstallHonest /\ UninstallHonest OBVIOUS
<1>1. InstallHonest
  BY DEF UnitInv, InstallHonest, InstallTakesEffect, Concluded, InstallProgress
<1>2. UninstallHonest
  <2>1. SUFFICES ASSUME Concluded("uninstall"), deleted, task.owned, ~disturbed, ~swallowed
                 PROVE  ~Ours(file) /\ ~Ours(loaded) /\ ~Ours(serving)
    BY DEF UninstallHonest
  <2>2. Gone BY <2>1 DEF UnitInv, Concluded, RemovalProgress, TaskPlaced
  <2> QED BY <2>2, UnitAssumption DEF Gone, Ours
<1> QED BY <1>1, <1>2

(* One step of a command, on a foreign registration.                         *)
LEMMA ForeignStep ==
    ASSUME UnitInv, [UnitNext]_unitVars, task.op = "uninstall", Pending, ~disturbed',
           file \in ForeignUnits
    PROVE  /\ UNCHANGED <<file, loaded, enabled>>
           /\ serving = file /\ ~swallowed => serving' = serving
<1>0. UnitTypeOK /\ TaskPlaced /\ ForeignApart BY DEF UnitInv
<1>1. /\ task.at \in UninstallStages /\ task.config \in UnitConfigs
  BY <1>0 DEF TaskPlaced, Pending
<1>2. CASE UNCHANGED unitVars BY <1>2 DEF unitVars
<1>3. CASE Intervenes BY <1>3 DEF Intervenes
<1>4. CASE \E op \in {"install", "uninstall"}, c \in UnitConfigs : Begin(op, c)
  BY <1>4 DEF Begin
<1>5. CASE WriteFile \/ SystemdSteps \/ StartOrRestart \/ LaunchdSteps \/ Installed
  <2>1. task.at \notin InstallStages
    BY <1>1 DEF InstallStages, UninstallStages, TeardownStages
  <2> QED
    BY <1>5, <2>1
    DEF WriteFile, SystemdSteps, StartOrRestart, LaunchdSteps, Installed, InstallStages
<1>6. CASE TeardownSteps
  <2>1. task.at \in TeardownStages /\ disturbed' = disturbed
    BY <1>6 DEF TeardownSteps, Manager, TeardownStages
  <2> QED BY <1>0, <2>1 DEF ForeignApart
<1>7. CASE DirectStop
  <2>1. /\ task.at = "verify" /\ task.direct /\ UNCHANGED <<file, loaded, enabled, disturbed>>
        /\ serving' = serving \/ Serves(serving, task.config)
    BY <1>7 DEF DirectStop
  <2>2. serving = file /\ ~swallowed => ~Serves(serving, task.config)
    BY <1>0, <1>1, <2>1, UnitAssumption DEF ForeignApart, Serves
  <2> QED BY <2>1, <2>2
<1>8. CASE Discover \/ Classify \/ Verify \/ DeleteExecutable
  <2>1. UNCHANGED <<file, loaded, enabled, serving>>
    <3>1. Discover => UNCHANGED <<file, loaded, enabled, serving>> BY Zenon DEF Discover
    <3>2. Classify => UNCHANGED <<file, loaded, enabled, serving>> BY Zenon DEF Classify
    <3>3. Verify => UNCHANGED <<file, loaded, enabled, serving>> BY Zenon DEF Verify
    <3> QED BY <1>8, <3>1, <3>2, <3>3 DEF DeleteExecutable
  <2> QED BY <2>1
<1> QED BY <1>2, <1>3, <1>4, <1>5, <1>6, <1>7, <1>8 DEF UnitNext

(* install_systemd, install_launchd, execute_plan: an install or an uninstall *)
(* that says it is done has done it, and a foreign registration is left as    *)
(* it is, with its process unless a look at the manager failed, for any       *)
(* configurations, any foreign units and any number of commands, failures    *)
(* and interventions.                                                        *)
THEOREM UnitIsSound == UnitSpec => UnitSound
<1>1. UnitSpec => [](InstallHonest /\ UninstallHonest)
  BY UnitInvariant, CommandsHonest, PTL
<1>2. UnitInv /\ [UnitNext]_unitVars =>
          [task.op = "uninstall" /\ Pending /\ ~disturbed' /\ file \in ForeignUnits =>
              /\ UNCHANGED <<file, loaded, enabled>>
              /\ serving = file /\ ~swallowed => serving' = serving]_unitVars
  BY ForeignStep
<1>3. UnitSpec => ForeignKept BY UnitInvariant, <1>2, PTL DEF UnitSpec, ForeignKept
<1> QED BY <1>1, <1>3 DEF UnitSound

-----------------------------------------------------------------------------
(* The Windows service.                                                      *)

CommandKinds == {"none", "start", "stop", "restart", "unregister", "update"}
StopKinds == {"stop", "restart", "unregister", "update"}
CommandStages ==
    {"none", "ok", "error", "query", "stopping", "down", "ask", "starting", "up", "delete",
     "prepare", "observe", "quiesce", "replace", "route"}
Lifecycles == {"none", "ours", "Stopped", "ForeignPreserved", "ManagedRunning", "ManagedStopped"}
CommandStates == [kind : CommandKinds, at : CommandStages, lifecycle : Lifecycles, base : Nat,
                  replaced : BOOLEAN]

ServiceTypeOK ==
    /\ registration \in {"none", "ours", "foreign"}
    /\ launches \in Nat /\ request \in [Operators -> CommandStates]

(* The manager says Stopped exactly when there is no worker, and what is not     *)
(* registered is stopped.                                                    *)
ServiceKnown ==
    /\ scm = "Stopped" <=> daemon = "none"
    /\ scm \in {"Stopped", "StartPending", "Running"}
    /\ registration = "none" => scm = "Stopped"

(* A command c, with the service's state and the count of launches: one that has seen the service down since its base finds it up again     *)
(* only if it was launched.                                                   *)
CommandSound(c, state, count) ==
    /\ c.base <= count
    /\ c.at \in {"query", "stopping", "down"} => c.kind \in StopKinds
    /\ c.at \in {"prepare", "observe", "quiesce", "replace", "route"} => c.kind = "update"
    /\ c.at \in {"ask", "starting", "up", "delete"} /\ c.kind # "start" =>
          state = "Stopped" \/ count > c.base

ServiceInv ==
    ServiceTypeOK /\ ServiceKnown /\ (\A o \in Operators : CommandSound(request[o], scm, launches))

LEMMA CommandTyped ==
    ASSUME ServiceTypeOK, NEW o \in Operators
    PROVE  /\ request[o] \in CommandStates
           /\ request[o].kind \in CommandKinds /\ request[o].at \in CommandStages
           /\ request[o].lifecycle \in Lifecycles /\ request[o].base \in Nat
           /\ request[o].replaced \in BOOLEAN
BY DEF ServiceTypeOK, CommandStates

LEMMA NoCommandTyped == NoCommand \in CommandStates
BY DEF NoCommand, CommandStates, CommandKinds, CommandStages, Lifecycles

(* A step of the service that no command takes.                               *)
LEMMA ServiceStep ==
    ASSUME ServiceInv, request' = request, launches' = launches,
           registration' \in {"none", "ours", "foreign"}, ServiceKnown',
           scm = "Stopped" => scm' = "Stopped"
    PROVE  ServiceInv'
<1>0. ServiceTypeOK /\ (\A o \in Operators : CommandSound(request[o], scm, launches)) BY DEF ServiceInv
<1>1. ServiceTypeOK' BY <1>0 DEF ServiceTypeOK
<1>2. ASSUME NEW o \in Operators PROVE CommandSound(request[o], scm, launches)'
  <2>1. CommandSound(request[o], scm, launches) BY <1>0
  <2> QED BY <2>1 DEF CommandSound
<1> QED BY <1>1, <1>2 DEF ServiceInv

(* A step of one command, which may launch the service.                       *)
LEMMA OperatorStep ==
    ASSUME ServiceInv, NEW o \in Operators, NEW c \in CommandStates,
           request' = [request EXCEPT ![o] = c],
           registration' \in {"none", "ours", "foreign"}, ServiceKnown',
           \/ launches' = launches /\ (scm = "Stopped" => scm' = "Stopped")
           \/ launches' = launches + 1,
           CommandSound(c, scm', launches')
    PROVE  ServiceInv'
<1>0. ServiceTypeOK /\ (\A p \in Operators : CommandSound(request[p], scm, launches)) BY DEF ServiceInv
<1>1. launches \in Nat /\ launches' \in Nat BY <1>0 DEF ServiceTypeOK
<1>2. ServiceTypeOK'
  <2>1. request' \in [Operators -> CommandStates] BY <1>0 DEF ServiceTypeOK
  <2> QED BY <1>1, <2>1 DEF ServiceTypeOK
<1>3. ASSUME NEW p \in Operators PROVE CommandSound(request'[p], scm', launches')
  <2>1. CommandSound(request[p], scm, launches) /\ request[p].base \in Nat BY <1>0, CommandTyped
  <2>2. request'[p] = IF p = o THEN c ELSE request[p] BY <1>0 DEF ServiceTypeOK
  <2>3. CASE p = o BY <2>2, <2>3
  <2>4. CASE p # o
    <3>1. request'[p] = request[p] BY <2>2, <2>4
    <3>2. CommandSound(request[p], scm', launches') BY <1>1, <2>1 DEF CommandSound
    <3> QED BY <3>1, <3>2
  <2> QED BY <2>3, <2>4
<1> QED BY <1>2, <1>3 DEF ServiceInv

(* A command turns to its next stage.                                         *)
LEMMA Turned ==
    ASSUME ServiceInv, NEW o \in Operators, NEW next \in CommandStages, Turns(o, next),
           registration' \in {"none", "ours", "foreign"}, ServiceKnown',
           \/ launches' = launches /\ (scm = "Stopped" => scm' = "Stopped")
           \/ launches' = launches + 1,
           next \in {"query", "stopping", "down"} => request[o].kind \in StopKinds,
           next \in {"prepare", "observe", "quiesce", "replace", "route"} =>
               request[o].kind = "update",
           next \in {"ask", "starting", "up", "delete"} /\ request[o].kind # "start" =>
               scm' = "Stopped" \/ launches' > request[o].base
    PROVE  ServiceInv'
<1>0. ServiceTypeOK /\ CommandSound(request[o], scm, launches) BY DEF ServiceInv
<1> DEFINE c == [request[o] EXCEPT !.at = next]
           B == BOOLEAN
<1>1. request' = [request EXCEPT ![o] = c] BY DEF Turns
<1>2. launches \in Nat /\ launches <= launches' BY <1>0 DEF ServiceTypeOK
<1>3. request[o] \in [kind : CommandKinds, at : CommandStages, lifecycle : Lifecycles, base : Nat,
                      replaced : B]
  BY <1>0, CommandTyped DEF CommandStates
<1>4. /\ c \in [kind : CommandKinds, at : CommandStages, lifecycle : Lifecycles, base : Nat,
                replaced : B]
      /\ c.at = next /\ c.kind = request[o].kind /\ c.base = request[o].base
      /\ request[o].base \in Nat
  <2> HIDE DEF B
  <2> QED BY <1>3
<1>5. c \in CommandStates BY <1>4 DEF CommandStates
<1> HIDE DEF c
<1>6. CommandSound(c, scm', launches') BY <1>0, <1>2, <1>4 DEF CommandSound, ServiceTypeOK
<1> QED BY <1>1, <1>5, <1>6, OperatorStep

(* A command that only looks.                                                *)
LEMMA Looking ==
    ASSUME ServiceInv, NEW o \in Operators, NEW next \in CommandStages, Turns(o, next),
           ServiceUnchanged,
           next \in {"query", "stopping", "down"} => request[o].kind \in StopKinds,
           next \in {"prepare", "observe", "quiesce", "replace", "route"} =>
               request[o].kind = "update",
           next \in {"ask", "starting", "up", "delete"} /\ request[o].kind # "start" =>
               scm = "Stopped" \/ launches > request[o].base
    PROVE  ServiceInv'
<1>1. UNCHANGED <<registration, scm, daemon, launches>> BY DEF ServiceUnchanged
<1>2. ServiceKnown' /\ registration' \in {"none", "ours", "foreign"}
  BY <1>1 DEF ServiceInv, ServiceKnown, ServiceTypeOK
<1> QED BY <1>1, <1>2, Turned

(* Not up is stopped.                                                        *)
LEMMA NotUp ==
    ASSUME ServiceInv
    PROVE  /\ State \notin Up => scm = "Stopped"
           /\ State = "Stopped" => scm = "Stopped"
           /\ scm = "Stopped" => State \notin Up
BY DEF ServiceInv, ServiceKnown, State, Up

LEMMA StopOver ==
    ASSUME ServiceInv, NEW o \in Operators, request[o].kind \in StopKinds
    PROVE  /\ StopIsOver(o) \in {"ok", "ask", "delete", "replace"}
           /\ StopIsOver(o) = "replace" => request[o].kind = "update"
           /\ StopIsOver(o) = "ok" => request[o].kind = "stop"
BY DEF StopIsOver, StopKinds

LEMMA WorkerServiceInv ==
    ASSUME ServiceInv, WorkerStep \/ CollectionReturns \/ TaskFails \/ WorkerDies
    PROVE  ServiceInv'
<1>0. ServiceTypeOK /\ ServiceKnown BY DEF ServiceInv
<1>1. CASE WorkerGone
  <2>1. ServiceKnown' /\ registration' \in {"none", "ours", "foreign"} /\ scm' = "Stopped"
        /\ request' = request /\ launches' = launches
    BY <1>0, <1>1 DEF WorkerGone, ServiceKnown, ServiceTypeOK
  <2> QED BY <2>1, ServiceStep
<1>2. CASE ServiceReady
  <2>1. ServiceKnown' /\ registration' \in {"none", "ours", "foreign"}
        /\ request' = request /\ launches' = launches /\ scm # "Stopped"
    BY <1>0, <1>2 DEF ServiceReady, ServiceKnown, ServiceTypeOK
  <2> QED BY <2>1, ServiceStep
<1>3. CASE Drains \/ TaskFails
  <2>1. ServiceKnown' /\ registration' \in {"none", "ours", "foreign"}
        /\ request' = request /\ launches' = launches /\ scm' = scm
    BY <1>0, <1>3 DEF Drains, TaskFails, DrainsOn, ServiceKnown, ServiceTypeOK
  <2> QED BY <2>1, ServiceStep
<1>4. CASE /\ daemon = "draining" /\ daemon' = "held"
           /\ UNCHANGED <<registration, scm, launches, request>>
  <2>1. ServiceKnown' /\ registration' \in {"none", "ours", "foreign"}
    BY <1>0, <1>4 DEF ServiceKnown, ServiceTypeOK
  <2> QED BY <1>4, <2>1, ServiceStep
<1> QED
  BY <1>1, <1>2, <1>3, <1>4 DEF WorkerStep, LoadFails, Drained, CollectionReturns, WorkerDies

LEMMA StopServiceInv ==
    ASSUME ServiceInv, NEW o \in Operators,
           QueryBeforeStop(o) \/ StopService(o) \/ WaitStopped(o)
    PROVE  ServiceInv'
<1>0. ServiceTypeOK /\ ServiceKnown /\ CommandSound(request[o], scm, launches)
  BY DEF ServiceInv
<1>1. request[o].kind \in StopKinds
  BY <1>0 DEF QueryBeforeStop, StopService, WaitStopped, Does, CommandSound
<1>2. /\ StopIsOver(o) \in {"ok", "ask", "delete", "replace"}
      /\ StopIsOver(o) = "replace" => request[o].kind = "update"
  BY <1>1, StopOver
<1> DEFINE over == StopIsOver(o)
<1>3. over \in CommandStages BY <1>2 DEF CommandStages
<1>4. CASE QueryBeforeStop(o)
  <2>1. /\ ServiceUnchanged
        /\ \/ Turns(o, "stopping")
           \/ Turns(o, "ok")
           \/ Turns(o, over) /\ State \notin Up
    BY <1>4 DEF QueryBeforeStop, Does
  <2>2. CASE Turns(o, "stopping") BY <1>1, <2>1, <2>2, Looking DEF CommandStages
  <2>3. CASE Turns(o, "ok") BY <2>1, <2>3, Looking DEF CommandStages
  <2>4. CASE Turns(o, over) /\ State \notin Up
    <3>1. scm = "Stopped" BY <2>4, NotUp
    <3> HIDE DEF over
    <3> QED BY <1>2, <1>3, <2>1, <2>4, <3>1, Looking DEF over
  <2> QED BY <2>1, <2>2, <2>3, <2>4
<1>5. CASE StopService(o)
  <2>1. /\ Turns(o, "down") /\ UNCHANGED <<registration, scm, daemon, launches>>
    BY <1>5 DEF StopService, StopAccepted, AfterStop
  <2>2. ServiceKnown' /\ registration' \in {"none", "ours", "foreign"}
    BY <1>0, <2>1 DEF ServiceKnown, ServiceTypeOK
  <2> QED BY <1>1, <2>1, <2>2, Turned DEF CommandStages
<1>6. CASE WaitStopped(o)
  <2>1. ServiceUnchanged /\ Turns(o, over) /\ State = "Stopped" BY <1>6 DEF WaitStopped, Does
  <2>2. scm = "Stopped" BY <2>1, NotUp
  <2> HIDE DEF over
  <2> QED BY <1>2, <1>3, <2>1, <2>2, Looking DEF over
<1> QED BY <1>4, <1>5, <1>6

LEMMA StartServiceInv ==
    ASSUME ServiceInv, NEW o \in Operators,
           QueryBeforeStart(o) \/ StartService(o) \/ WaitRunning(o)
    PROVE  ServiceInv'
<1>0. ServiceTypeOK /\ ServiceKnown /\ CommandSound(request[o], scm, launches)
  BY DEF ServiceInv
<1>1. CASE QueryBeforeStart(o)
  <2>1. /\ ServiceUnchanged /\ request[o].at = "ask"
        /\ Turns(o, "ok") \/ Turns(o, "starting")
    BY <1>1 DEF QueryBeforeStart, Does
  <2>2. CASE Turns(o, "ok") BY <2>1, <2>2, Looking DEF CommandStages
  <2>3. CASE Turns(o, "starting")
    BY <1>0, <2>1, <2>3, Looking DEF CommandStages, CommandSound
  <2> QED BY <2>1, <2>2, <2>3
<1>2. CASE StartService(o)
  <2>1. /\ Turns(o, "up") /\ launches' = launches + 1 /\ registration' = registration
        /\ registration # "none" /\ scm' = "StartPending" /\ daemon' = "loading"
    BY <1>2 DEF StartService, StartAccepted
  <2>2. ServiceKnown' /\ registration' \in {"none", "ours", "foreign"}
    BY <1>0, <2>1 DEF ServiceKnown, ServiceTypeOK
  <2>3. request[o].base \in Nat /\ request[o].base <= launches /\ launches \in Nat
    BY <1>0, CommandTyped DEF CommandSound, ServiceTypeOK
  <2>4. launches' > request[o].base BY <2>1, <2>3
  <2> QED BY <2>1, <2>2, <2>4, Turned DEF CommandStages
<1>3. CASE WaitRunning(o)
  BY <1>3, Looking DEF WaitRunning, Does, CommandStages
<1> QED BY <1>1, <1>2, <1>3

LEMMA EndServiceInv ==
    ASSUME ServiceInv, NEW o \in Operators,
           DeleteService(o) \/ WaitTimesOut(o) \/ CallFails(o)
    PROVE  ServiceInv'
<1>0. ServiceTypeOK /\ ServiceKnown BY DEF ServiceInv
<1>1. CASE DeleteService(o)
  <2>1. /\ Turns(o, "ok") /\ UNCHANGED <<scm, daemon, launches>>
        /\ registration' = IF scm = "Stopped" THEN "none" ELSE registration
    BY <1>1 DEF DeleteService, Deleted
  <2>2. ServiceKnown' /\ registration' \in {"none", "ours", "foreign"}
    BY <1>0, <2>1 DEF ServiceKnown, ServiceTypeOK
  <2> QED BY <2>1, <2>2, Turned DEF CommandStages
<1>2. CASE WaitTimesOut(o) \/ CallFails(o)
  <2>1. ServiceUnchanged /\ Turns(o, "error") BY <1>2 DEF WaitTimesOut, CallFails, Does
  <2> QED BY <2>1, Looking DEF CommandStages
<1> QED BY <1>1, <1>2

(* A command whose record is replaced while the service stays as it is.         *)
LEMMA Rewriting ==
    ASSUME ServiceInv, NEW o \in Operators, NEW c \in CommandStates,
           request' = [request EXCEPT ![o] = c], ServiceUnchanged,
           CommandSound(c, scm, launches)
    PROVE  ServiceInv'
<1>1. UNCHANGED <<registration, scm, daemon, launches>> BY DEF ServiceUnchanged
<1>2. ServiceKnown' /\ registration' \in {"none", "ours", "foreign"}
  BY <1>1 DEF ServiceInv, ServiceKnown, ServiceTypeOK
<1>3. CommandSound(c, scm', launches') BY <1>1
<1> QED BY <1>1, <1>2, <1>3, OperatorStep

LEMMA UpdateServiceInv ==
    ASSUME ServiceInv, NEW o \in Operators,
           \/ BeforePreparing(o) \/ ObserveLifecycle(o) \/ Quiesce(o)
           \/ ReplaceExecutable(o) \/ RestartRoute(o)
    PROVE  ServiceInv'
<1>0. ServiceTypeOK /\ ServiceKnown /\ CommandSound(request[o], scm, launches)
  BY DEF ServiceInv
<1>1. request[o].kind = "update"
  BY <1>0
  DEF BeforePreparing, ObserveLifecycle, Quiesce, ReplaceExecutable, RestartRoute, Does,
      CommandSound
<1> DEFINE B == BOOLEAN
<1>2. request[o] \in [kind : CommandKinds, at : CommandStages, lifecycle : Lifecycles, base : Nat,
                      replaced : B]
  BY <1>0, CommandTyped DEF CommandStates
<1>3. launches \in Nat /\ request[o].base <= launches BY <1>0 DEF ServiceTypeOK, CommandSound
<1>4. CASE BeforePreparing(o)
  <2> DEFINE life == IF registration = "ours" THEN "ours" ELSE "none"
             c == [request[o] EXCEPT !.at = "observe", !.lifecycle = life]
  <2>1. ServiceUnchanged /\ request' = [request EXCEPT ![o] = c] BY <1>4 DEF BeforePreparing
  <2>2. life \in Lifecycles /\ "observe" \in CommandStages BY DEF Lifecycles, CommandStages
  <2>3. /\ c \in [kind : CommandKinds, at : CommandStages, lifecycle : Lifecycles, base : Nat,
                  replaced : B]
        /\ c.at = "observe" /\ c.kind = request[o].kind /\ c.base = request[o].base
    <3> HIDE DEF B, life
    <3> QED BY <1>2, <2>2
  <2>4. c \in CommandStates BY <2>3 DEF CommandStates
  <2> HIDE DEF c
  <2>5. CommandSound(c, scm, launches) BY <1>1, <1>3, <2>3 DEF CommandSound
  <2> QED BY <2>1, <2>4, <2>5, Rewriting
<1>5. CASE ObserveLifecycle(o)
  <2> DEFINE next == IF request[o].lifecycle = "ours" /\ Lifecycle = "ForeignPreserved"
                     THEN "error" ELSE "quiesce"
             c == [request[o] EXCEPT !.at = next, !.lifecycle = Lifecycle]
  <2>1. ServiceUnchanged /\ request' = [request EXCEPT ![o] = c] BY <1>5 DEF ObserveLifecycle
  <2>2. Lifecycle \in Lifecycles /\ next \in CommandStages /\ next \in {"error", "quiesce"}
    BY <1>0 DEF Lifecycles, Lifecycle, CommandStages, ServiceTypeOK
  <2>3. /\ c \in [kind : CommandKinds, at : CommandStages, lifecycle : Lifecycles, base : Nat,
                  replaced : B]
        /\ c.at = next /\ c.kind = request[o].kind /\ c.base = request[o].base
    <3> HIDE DEF B, next
    <3> QED BY <1>2, <2>2
  <2>4. c \in CommandStates BY <2>3 DEF CommandStates
  <2> HIDE DEF c, next
  <2>5. CommandSound(c, scm, launches) BY <1>1, <1>3, <2>2, <2>3 DEF CommandSound
  <2> QED BY <2>1, <2>4, <2>5, Rewriting
<1>6. CASE Quiesce(o)
  <2>1. ServiceUnchanged /\ (Turns(o, "query") \/ Turns(o, "replace")) BY <1>6 DEF Quiesce, Does
  <2>2. CASE Turns(o, "query") BY <1>1, <2>1, <2>2, Looking DEF CommandStages, StopKinds
  <2>3. CASE Turns(o, "replace") BY <1>1, <2>1, <2>3, Looking DEF CommandStages
  <2> QED BY <2>1, <2>2, <2>3
<1>7. CASE ReplaceExecutable(o)
  <2> DEFINE next == IF request[o].lifecycle = "ManagedRunning" THEN "route" ELSE "ok"
             c == [request[o] EXCEPT !.at = next, !.replaced = TRUE, !.base = launches]
  <2>1. ServiceUnchanged /\ request' = [request EXCEPT ![o] = c] BY <1>7 DEF ReplaceExecutable
  <2>2. next \in CommandStages /\ next \in {"route", "ok"} /\ TRUE \in B BY DEF CommandStages
  <2>3. /\ c \in [kind : CommandKinds, at : CommandStages, lifecycle : Lifecycles, base : Nat,
                  replaced : B]
        /\ c.at = next /\ c.kind = request[o].kind /\ c.base = launches
    <3> HIDE DEF B, next
    <3> QED BY <1>2, <1>3, <2>2
  <2>4. c \in CommandStates BY <2>3 DEF CommandStates
  <2> HIDE DEF c, next
  <2>5. CommandSound(c, scm, launches) BY <1>1, <1>3, <2>2, <2>3 DEF CommandSound
  <2> QED BY <2>1, <2>4, <2>5, Rewriting
<1>8. CASE RestartRoute(o)
  <2>1. ServiceUnchanged /\ (Turns(o, "query") \/ Turns(o, "error"))
    BY <1>8 DEF RestartRoute, Does
  <2>2. CASE Turns(o, "query") BY <1>1, <2>1, <2>2, Looking DEF CommandStages, StopKinds
  <2>3. CASE Turns(o, "error") BY <2>1, <2>3, Looking DEF CommandStages
  <2> QED BY <2>1, <2>2, <2>3
<1> QED BY <1>4, <1>5, <1>6, <1>7, <1>8

LEMMA BeginServiceInv ==
    ASSUME ServiceInv, NEW o \in Operators, BeginCommand(o)
    PROVE  ServiceInv'
<1>0. ServiceTypeOK BY DEF ServiceInv
<1>1. PICK kind \in {"start", "stop", "restart", "unregister", "update"} :
          request' = [request EXCEPT ![o] =
              [NoCommand EXCEPT !.kind = kind, !.at = Entry(kind), !.base = launches]]
  BY DEF BeginCommand
<1> DEFINE B == BOOLEAN
           at == Entry(kind)
           c == [NoCommand EXCEPT !.kind = kind, !.at = at, !.base = launches]
<1>2. NoCommand \in [kind : CommandKinds, at : CommandStages, lifecycle : Lifecycles, base : Nat,
                     replaced : B]
  BY NoCommandTyped DEF CommandStates
<1>3. /\ kind \in CommandKinds /\ at \in CommandStages /\ launches \in Nat
      /\ kind = "start" => at = "ask"
      /\ kind = "update" => at = "prepare"
      /\ kind \notin {"start", "update"} => at = "query"
  BY <1>0 DEF CommandKinds, CommandStages, Entry, ServiceTypeOK
<1>4. /\ c \in [kind : CommandKinds, at : CommandStages, lifecycle : Lifecycles, base : Nat,
                replaced : B]
      /\ c.at = at /\ c.kind = kind /\ c.base = launches
  <2> HIDE DEF B, at
  <2> QED BY <1>2, <1>3
<1>5. c \in CommandStates BY <1>4 DEF CommandStates
<1>6. request' = [request EXCEPT ![o] = c] /\ ServiceUnchanged BY <1>1 DEF BeginCommand
<1> HIDE DEF c, at
<1>7. CommandSound(c, scm, launches) BY <1>3, <1>4 DEF CommandSound, StopKinds
<1> QED BY <1>5, <1>6, <1>7, Rewriting

LEMMA ServiceNextInv == ServiceInv /\ [WindowsNext]_windowsVars => ServiceInv'
<1> SUFFICES ASSUME ServiceInv, [WindowsNext]_windowsVars PROVE ServiceInv' OBVIOUS
<1>0. ServiceTypeOK /\ ServiceKnown BY DEF ServiceInv
<1>1. CASE UNCHANGED windowsVars
  <2>1. UNCHANGED <<registration, scm, daemon, launches, request>> BY <1>1 DEF windowsVars
  <2>2. ServiceKnown' /\ registration' \in {"none", "ours", "foreign"}
    BY <1>0, <2>1 DEF ServiceKnown, ServiceTypeOK
  <2> QED BY <2>1, <2>2, ServiceStep
<1>2. ASSUME NEW owner \in {"ours", "foreign"}, Register(owner) PROVE ServiceInv'
  <2>1. UNCHANGED <<scm, daemon, launches, request>> /\ registration' = owner
        /\ registration = "none"
    BY <1>2 DEF Register
  <2>2. ServiceKnown' /\ registration' \in {"none", "ours", "foreign"}
    BY <1>0, <2>1 DEF ServiceKnown, ServiceTypeOK
  <2> QED BY <2>1, <2>2, ServiceStep
<1>3. ASSUME NEW o \in Operators, CommandStep(o) PROVE ServiceInv'
  BY <1>3, StopServiceInv, StartServiceInv, EndServiceInv, UpdateServiceInv DEF CommandStep
<1> QED BY <1>1, <1>2, <1>3, WorkerServiceInv, BeginServiceInv DEF WindowsNext

LEMMA ServiceInitInv == WindowsInit => ServiceInv
<1> SUFFICES ASSUME WindowsInit PROVE ServiceInv OBVIOUS
<1>1. ServiceTypeOK BY NoCommandTyped DEF WindowsInit, ServiceTypeOK
<1>2. ServiceKnown BY DEF WindowsInit, ServiceKnown
<1>3. ASSUME NEW o \in Operators PROVE CommandSound(request[o], scm, launches)
  <2>1. request[o].at = "none" /\ request[o].base = 0 /\ launches = 0
    BY DEF WindowsInit, NoCommand
  <2> QED BY <2>1 DEF CommandSound
<1> QED BY <1>1, <1>2, <1>3 DEF ServiceInv

(* A command that answers ok has seen what it answers for.                    *)
LEMMA AnswerSeen ==
    ASSUME ServiceInv, WindowsNext, NEW o \in Operators, AnswersOk(o), request[o].kind # "start"
    PROVE  /\ request[o].at \in {"ask", "up"} => launches > request[o].base
           /\ request[o].kind \in {"stop", "unregister"} =>
                 daemon = "none" \/ launches > request[o].base
<1>0. ServiceTypeOK /\ ServiceKnown /\ CommandSound(request[o], scm, launches)
  BY DEF ServiceInv
<1>1. request'[o].at = "ok" /\ request[o].at \notin {"none", "ok", "error"}
  BY DEF AnswersOk, Ended
<1>2. /\ request' # request
  BY <1>1
<1>3. ASSUME NEW p \in Operators, p # o, BeginCommand(p) \/ CommandStep(p) PROVE FALSE
  <2>1. request'[o] = request[o]
    BY <1>0, <1>3
    DEF BeginCommand, CommandStep, QueryBeforeStop, StopService, WaitStopped, QueryBeforeStart,
        StartService, WaitRunning, DeleteService, WaitTimesOut, CallFails, BeforePreparing,
        ObserveLifecycle, Quiesce, ReplaceExecutable, RestartRoute, Does, Turns, StopAccepted,
        StartAccepted, Deleted, ServiceTypeOK
  <2> QED BY <1>1, <2>1
<1>4. BeginCommand(o) \/ CommandStep(o)
  BY <1>2, <1>3
  DEF WindowsNext, WorkerStep, TaskFails, WorkerDies, Drains, DrainsOn, Drained, LoadFails,
      CollectionReturns, ServiceReady, WorkerGone, Register
<1>5. ~BeginCommand(o) BY <1>1 DEF BeginCommand, Ended
<1>a. ASSUME NEW next, Turns(o, next) PROVE request'[o].at = next
  BY <1>0, <1>a, CommandTyped DEF Turns, ServiceTypeOK, CommandStates
<1>6. CASE QueryBeforeStop(o)
  <2>1. request[o].at = "query" /\ request[o].kind \in StopKinds
    BY <1>0, <1>6 DEF QueryBeforeStop, Does, CommandSound
  <2>2. CASE State \in Up
    <3>1. request'[o].at = "stopping" BY <1>6, <1>a, <2>2 DEF QueryBeforeStop, Does
    <3> QED BY <1>1, <3>1
  <2>3. CASE State \notin Up
    <3>1. daemon = "none" BY <1>0, <2>3, NotUp DEF ServiceKnown
    <3> QED BY <2>1, <3>1
  <2> QED BY <2>2, <2>3
<1>7. CASE StopService(o)
  <2>1. request'[o].at = "down" BY <1>7, <1>a DEF StopService, StopAccepted, AfterStop
  <2> QED BY <1>1, <2>1
<1>8. CASE WaitStopped(o)
  <2>1. daemon = "none" /\ request[o].at = "down"
    BY <1>0, <1>8, NotUp DEF WaitStopped, Does, ServiceKnown
  <2> QED BY <2>1
<1>9. CASE QueryBeforeStart(o)
  <2>1. request[o].at = "ask" BY <1>9 DEF QueryBeforeStart, Does
  <2>2. CASE State \in Up
    <3>1. scm # "Stopped" BY <2>2, NotUp
    <3> QED BY <1>0, <2>1, <3>1 DEF CommandSound
  <2>3. CASE State \notin Up
    <3>1. request'[o].at = "starting" BY <1>9, <1>a, <2>3 DEF QueryBeforeStart, Does
    <3> QED BY <1>1, <3>1
  <2> QED BY <2>2, <2>3
<1>10. CASE StartService(o)
  <2>1. request'[o].at = "up" BY <1>10, <1>a DEF StartService, StartAccepted
  <2> QED BY <1>1, <2>1
<1>11. CASE WaitRunning(o)
  <2>1. request[o].at = "up" /\ scm # "Stopped"
    BY <1>11, NotUp DEF WaitRunning, Does, State
  <2> QED BY <1>0, <2>1 DEF CommandSound
<1>12. CASE DeleteService(o)
  <2>1. request[o].at = "delete" BY <1>12 DEF DeleteService
  <2> QED BY <1>0, <2>1 DEF CommandSound, ServiceKnown
<1>13. CASE WaitTimesOut(o) \/ CallFails(o)
  <2>1. Turns(o, "error") BY <1>13 DEF WaitTimesOut, CallFails, Does
  <2> QED BY <1>1, <1>a, <2>1
<1>14. CASE \/ BeforePreparing(o) \/ ObserveLifecycle(o) \/ Quiesce(o)
            \/ ReplaceExecutable(o) \/ RestartRoute(o)
  <2>1. request[o].at \in {"prepare", "observe", "quiesce", "replace", "route"}
    BY <1>14
    DEF BeforePreparing, ObserveLifecycle, Quiesce, ReplaceExecutable, RestartRoute, Does
  <2> QED BY <1>0, <2>1 DEF CommandSound
<1> QED
  BY <1>4, <1>5, <1>6, <1>7, <1>8, <1>9, <1>10, <1>11, <1>12, <1>13, <1>14 DEF CommandStep

(* WindowsServiceManager's restart, stop and unregister and run_update: a restart   *)
(* that answers ok was followed by a launch, and a stop that answers ok left no      *)
(* service behind that was not launched since, for any number of overlapping       *)
(* commands.                                                                  *)
THEOREM ServiceAnswersHonest == WindowsSpec => RestartIsFresh /\ StopIsHonest
<1>1. WindowsSpec => []ServiceInv BY ServiceInitInv, ServiceNextInv, PTL DEF WindowsSpec
<1>2. ServiceInv /\ [WindowsNext]_windowsVars =>
        [ \A o \in Operators :
            AnswersOk(o) /\ request[o].at \in {"ask", "up"} /\ request[o].kind # "start"
              => launches > request[o].base ]_windowsVars
  BY AnswerSeen
<1>3. ServiceInv /\ [WindowsNext]_windowsVars =>
        [ \A o \in Operators :
            AnswersOk(o) /\ request[o].kind \in {"stop", "unregister"}
              => daemon = "none" \/ launches > request[o].base ]_windowsVars
  <2> SUFFICES ASSUME ServiceInv, WindowsNext, NEW o \in Operators, AnswersOk(o),
                      request[o].kind \in {"stop", "unregister"}
               PROVE  daemon = "none" \/ launches > request[o].base
    OBVIOUS
  <2>1. request[o].kind # "start" OBVIOUS
  <2> QED BY <2>1, AnswerSeen
<1>4. WindowsSpec => RestartIsFresh BY <1>1, <1>2, PTL DEF WindowsSpec, RestartIsFresh
<1>5. WindowsSpec => StopIsHonest BY <1>1, <1>3, PTL DEF WindowsSpec, StopIsHonest
<1> QED BY <1>4, <1>5

-----------------------------------------------------------------------------
(* The collector's cycles.                                                   *)

DeviceStates == [on : BOOLEAN, count : Nat, moved : Nat]
SampleStates == [at : Int, count : Int]

CollectorTypeOK ==
    /\ clock \in Nat /\ stamp \in Nat
    /\ device \in [Devices -> DeviceStates] /\ samples \in [Devices -> SampleStates]
    /\ lastRead.found \subseteq Devices /\ lastRead.stamp \in Int

(* A sample s of a device v, with the last enumeration that found the device or not at its     *)
(* stamp: it was taken then, and the counter has gained no more than was      *)
(* moved since.                                                             *)
SampleSound(s, v, found, time) ==
    s # NoSample => found /\ s.at = time /\ s.count \in Nat /\ v.count - s.count <= v.moved

SamplesSound ==
    \A d \in Devices :
       SampleSound(samples[d], device[d], d \in lastRead.found, lastRead.stamp)

CollectorInv == CollectorTypeOK /\ SamplesSound /\ AggregateAccepted

LEMMA DeviceFields ==
    ASSUME NEW v \in DeviceStates
    PROVE  v.on \in BOOLEAN /\ v.count \in Nat /\ v.moved \in Nat
BY DEF DeviceStates

(* Facts about numbers and finite sets.                                      *)
LEMMA QuotientTimesDivisor ==
    ASSUME NEW m \in Nat, NEW e \in Nat, e > 0
    PROVE  (m \div e) \in Nat /\ (m \div e) * e <= m
OBVIOUS

LEMMA RemainderIsSmaller ==
    ASSUME NEW m \in Nat, NEW e \in Nat \ {0}
    PROVE  (m % e) \in Nat /\ m % e <= m
OBVIOUS

LEMMA LeastOf ==
    ASSUME NEW S \in SUBSET Nat, S # {}
    PROVE  \E x \in S : \A y \in S : x <= y
<1>1. \E x \in S : \A y \in S : ~(y < x)
  <2> DEFINE R == OpToRel(<, Nat)
  <2>1. \A x, y \in Nat : x < y => <<x, y>> \in R BY DEF OpToRel
  <2>2. IsWellFoundedOn(R, Nat) BY NatLessThanWellFounded
  <2> HIDE DEF R
  <2>3. PICK x \in S : \A y \in S : ~(<<y, x>> \in R) BY <2>2, WFMin
  <2> QED BY <2>1, <2>3, Zenon
<1> QED BY <1>1

(* A finite set of numbers has a largest: the one with the fewest above it.     *)
LEMMA LargestOf ==
    ASSUME NEW F \in SUBSET Nat, IsFiniteSet(F), F # {}
    PROVE  \E x \in F : \A y \in F : y <= x
<1> DEFINE above(x) == {y \in F : y > x}
           sizes == {Cardinality(above(x)) : x \in F}
<1>1. \A x \in F : IsFiniteSet(above(x)) /\ Cardinality(above(x)) \in Nat
  BY FS_Subset, FS_CardinalityType
<1>2. sizes \in SUBSET Nat /\ sizes # {} BY <1>1
<1>3. PICK n \in sizes : \A k \in sizes : n <= k BY <1>2, LeastOf
<1>4. PICK x \in F : n = Cardinality(above(x)) BY <1>3
<1>5. ASSUME NEW y \in F, y > x PROVE FALSE
  <2>1. above(y) \in SUBSET above(x)
    <3>1. \A k \in F : k \in Nat OBVIOUS
    <3> QED BY <1>4, <1>5, <3>1
  <2>2. y \in above(x) /\ y \notin above(y) BY <1>5
  <2>3. Cardinality(above(y)) <= Cardinality(above(x)) /\ Cardinality(above(y)) # Cardinality(above(x))
    <3> HIDE DEF above
    <3> QED BY <2>1, <2>2, <1>1, FS_Subset
  <2>4. Cardinality(above(y)) \in sizes OBVIOUS
  <2> HIDE DEF above, sizes
  <2> QED BY <2>3, <2>4, <1>3, <1>4, <1>1
<1> QED BY <1>5

(* No more devices are shown than the limit.                                  *)
LEMMA FewAreShown ==
    ASSUME CollectorAssumption, NEW S \in SUBSET Devices
    PROVE  /\ First(S) \subseteq S /\ IsFiniteSet(First(S))
           /\ Cardinality(First(S)) <= MaxEntries
<1> DEFINE F == First(S)
<1>1. IsFiniteSet(S) /\ S \subseteq Nat BY FS_Subset DEF CollectorAssumption
<1>2. F \subseteq S BY DEF First
<1>3. IsFiniteSet(F) BY <1>1, <1>2, FS_Subset
<1>4. CASE F = {} BY <1>4, <1>2, <1>3, FS_EmptySet DEF CollectorAssumption
<1>5. CASE F # {}
  <2>1. PICK m \in F : \A y \in F : y <= m
    <3>1. F \in SUBSET Nat BY <1>1, <1>2
    <3> HIDE DEF F
    <3> QED BY <3>1, <1>3, <1>5, LargestOf
  <2> DEFINE below == {e \in S : e < m}
  <2>2. Cardinality(below) < MaxEntries /\ m \in S BY <2>1 DEF First
  <2>3. IsFiniteSet(below) /\ Cardinality(below) \in Nat BY <1>1, FS_Subset, FS_CardinalityType
  <2>4. m \notin below BY <1>1, <2>2
  <2>5. F \in SUBSET (below \cup {m})
    <3>1. \A y \in F : y \in Nat /\ y <= m /\ y \in S BY <2>1, <1>1, <1>2
    <3> HIDE DEF F
    <3> QED BY <3>1, <2>2, <1>1
  <2> HIDE DEF F, below
  <2>6. IsFiniteSet(below \cup {m}) /\ Cardinality(below \cup {m}) = Cardinality(below) + 1
    BY <2>3, <2>4, FS_AddElement
  <2>7. Cardinality(F) <= Cardinality(below \cup {m}) BY <2>5, <2>6, FS_Subset
  <2>8. Cardinality(F) \in Nat BY <1>3, FS_CardinalityType
  <2> QED BY <2>2, <2>3, <2>6, <2>7, <2>8, <1>2, <1>3 DEF CollectorAssumption, F
<1> QED BY <1>4, <1>5

(* The bytes of the devices are at least those of each of them.                *)
LEMMA BytesAdd ==
    ASSUME CollectorAssumption, NEW S \in SUBSET Devices, NEW rate,
           \A d \in S : rate[d] \in Nat
    PROVE  IsFiniteSet(BytesOf(rate, S)) /\ Cardinality(BytesOf(rate, S)) \in Nat
<1> DEFINE bytes(d) == {d} \X (1 .. rate[d])
           parts == {bytes(d) : d \in S}
<1>1. ASSUME NEW d \in S
      PROVE  IsFiniteSet(bytes(d)) /\ Cardinality(bytes(d)) = rate[d]
  <2>1. IsFiniteSet({d}) /\ Cardinality({d}) = 1 BY FS_Singleton
  <2>2. IsFiniteSet(1 .. rate[d]) /\ Cardinality(1 .. rate[d]) = rate[d]
    <3>1. rate[d] \in Nat BY <1>1
    <3>2. rate[d] \in Int /\ 1 \in Int BY <3>1
    <3>3. IsFiniteSet(1 .. rate[d])
          /\ Cardinality(1 .. rate[d]) = IF 1 > rate[d] THEN 0 ELSE rate[d] - 1 + 1
      BY <3>2, FS_Interval
    <3> QED BY <3>1, <3>3
  <2>3. IsFiniteSet(bytes(d)) /\ Cardinality(bytes(d)) = 1 * rate[d]
    BY <2>1, <2>2, FS_Product
  <2> QED BY <2>3
<1>2. IsFiniteSet(S) BY FS_Subset DEF CollectorAssumption
<1>3. IsFiniteSet(parts)
  <2> DEFINE f == [d \in S |-> bytes(d)]
  <2>1. f \in Surjection(S, parts)
    <3> HIDE DEF bytes
    <3> QED BY DEF Surjection
  <2> HIDE DEF f, parts
  <2> QED BY <1>2, <2>1, FS_Surjection
<1>4. \A P \in parts : IsFiniteSet(P)
  <2> HIDE DEF bytes
  <2> QED BY <1>1
<1>5. IsFiniteSet(UNION parts)
  <2> HIDE DEF parts
  <2> QED BY <1>3, <1>4, FS_UNION
<1>6. BytesOf(rate, S) = UNION parts BY DEF BytesOf
<1>7. Cardinality(UNION parts) \in Nat BY <1>5, FS_CardinalityType
<1> QED BY <1>5, <1>6, <1>7

LEMMA ByteIn ==
    ASSUME NEW S, NEW rate, NEW d \in S, NEW k \in 1 .. rate[d]
    PROVE  <<d, k>> \in BytesOf(rate, S)
BY DEF BytesOf

(* The bytes of some of the devices are no more than those of all.             *)
LEMMA FewerBytes ==
    ASSUME CollectorAssumption, NEW S \in SUBSET Devices, NEW T \in SUBSET S,
           NEW rate, NEW part, \A d \in S : rate[d] \in Nat,
           \A d \in T : part[d] = rate[d]
    PROVE  Cardinality(BytesOf(part, T)) <= Cardinality(BytesOf(rate, S))
<1>1. IsFiniteSet(BytesOf(rate, S)) BY BytesAdd
<1>2. BytesOf(part, T) \subseteq BytesOf(rate, S)
  <2> SUFFICES ASSUME NEW x \in BytesOf(part, T) PROVE x \in BytesOf(rate, S) OBVIOUS
  <2>1. PICK d \in T : \E k \in 1 .. part[d] : x = <<d, k>> BY DEF BytesOf
  <2>2. PICK k \in 1 .. part[d] : x = <<d, k>> BY <2>1
  <2>3. d \in S /\ k \in 1 .. rate[d] BY <2>2
  <2>4. <<d, k>> \in BytesOf(rate, S) BY <2>3, ByteIn
  <2> QED BY <2>2, <2>4
<1> QED BY <1>1, <1>2, FS_Subset

(* Byte k of a device, once for each of e moments, is a byte of its own.        *)
LEMMA SlotWithin ==
    ASSUME NEW r \in Nat, NEW m \in Nat, NEW e \in Nat, r * e <= m,
           NEW k \in 1 .. r, NEW j \in 1 .. e
    PROVE  (k - 1) * e + j \in 1 .. m
<1> DEFINE a == (k - 1) * e
           q == (r - k) * e
<1>1. k - 1 \in Nat /\ r - k \in Nat OBVIOUS
<1>2. a \in Nat /\ q \in Nat BY <1>1
<1>3. r * e = a + e + q OBVIOUS
<1> HIDE DEF a, q
<1> QED BY <1>2, <1>3 DEF a

LEMMA SlotsApart ==
    ASSUME NEW e \in Nat, NEW k \in Nat \ {0}, NEW l \in Nat \ {0}, k < l,
           NEW i \in 1 .. e, NEW j \in 1 .. e
    PROVE  (k - 1) * e + i # (l - 1) * e + j
<1> DEFINE a == (k - 1) * e
           q == (l - k - 1) * e
<1>1. k - 1 \in Nat /\ l - k - 1 \in Nat OBVIOUS
<1>2. a \in Nat /\ q \in Nat BY <1>1
<1>3. (l - 1) * e = a + e + q OBVIOUS
<1> HIDE DEF a, q
<1> QED BY <1>2, <1>3 DEF a

(* What is claimed for every moment of an interval was moved in it.             *)
LEMMA BytesScale ==
    ASSUME CollectorAssumption, NEW S \in SUBSET Devices, NEW T \in SUBSET Devices, S \subseteq T,
           NEW rate, NEW moved, NEW e \in Nat,
           \A d \in S : rate[d] \in Nat /\ rate[d] * e <= moved[d],
           \A d \in T : moved[d] \in Nat
    PROVE  Cardinality(BytesOf(rate, S)) * e <= Cardinality(BytesOf(moved, T))
<1> DEFINE A == BytesOf(rate, S)
           M == BytesOf(moved, T)
           E == 1 .. e
           f == [x \in A \X E |-> <<x[1][1], (x[1][2] - 1) * e + x[2]>>]
<1>1. IsFiniteSet(A) /\ Cardinality(A) \in Nat BY BytesAdd
<1>2. IsFiniteSet(M) /\ Cardinality(M) \in Nat BY BytesAdd
<1>3. IsFiniteSet(E) /\ Cardinality(E) = e
  <2>1. e \in Int /\ 1 \in Int OBVIOUS
  <2>2. IsFiniteSet(1 .. e) /\ Cardinality(1 .. e) = IF 1 > e THEN 0 ELSE e - 1 + 1
    BY <2>1, FS_Interval
  <2> QED BY <2>2
<1>4. \A x \in A : \E d \in S : \E k \in 1 .. rate[d] : x = <<d, k>> BY DEF BytesOf
<1>5. \A d \in T : \A k \in 1 .. moved[d] : <<d, k>> \in M BY ByteIn
<1>6. Cardinality(A \X E) = Cardinality(A) * e
  <2> HIDE DEF A, E
  <2> QED BY <1>1, <1>3, FS_Product
<1> HIDE DEF A, M
<1>7. ASSUME NEW x \in A, NEW j \in E
      PROVE  \E d \in S : \E k \in 1 .. rate[d] :
                /\ x = <<d, k>> /\ k \in Nat \ {0}
                /\ f[<<x, j>>] = <<d, (k - 1) * e + j>>
                /\ f[<<x, j>>] \in M
  <2>1. PICK d \in S : \E k \in 1 .. rate[d] : x = <<d, k>> BY <1>4
  <2>2. PICK k \in 1 .. rate[d] : x = <<d, k>> BY <2>1
  <2>3. rate[d] \in Nat /\ moved[d] \in Nat /\ rate[d] * e <= moved[d] /\ d \in T
    BY <2>2
  <2>4. (k - 1) * e + j \in 1 .. moved[d] BY <2>3, SlotWithin
  <2>5. <<x, j>> \in A \X E OBVIOUS
  <2>6. f[<<x, j>>] = <<d, (k - 1) * e + j>> BY <2>2, <2>5
  <2> DEFINE n == (k - 1) * e + j
  <2>7. <<d, n>> \in M BY <1>5, <2>3, <2>4
  <2> HIDE DEF n
  <2>8. f[<<x, j>>] \in M BY <2>6, <2>7 DEF n
  <2>9. k \in Nat \ {0} BY <2>3
  <2> HIDE DEF f
  <2> QED BY <2>2, <2>6, <2>8, <2>9
<1>8. f \in Injection(A \X E, M)
  <2>1. \A z \in A \X E : f[z] \in M
    <3> TAKE z \in A \X E
    <3>1. z = <<z[1], z[2]>> /\ z[1] \in A /\ z[2] \in E BY DEF E
    <3> HIDE DEF f, E
    <3> QED BY <1>7, <3>1
  <2>2. ASSUME NEW x \in A, NEW y \in A, NEW i \in E, NEW j \in E,
               f[<<x, i>>] = f[<<y, j>>]
        PROVE  x = y /\ i = j
    <3>1. PICK c \in S : \E k \in 1 .. rate[c] :
              x = <<c, k>> /\ k \in Nat \ {0} /\ f[<<x, i>>] = <<c, (k - 1) * e + i>>
      <4> HIDE DEF f, E
      <4> QED BY <1>7
    <3>2. PICK k \in 1 .. rate[c] :
              x = <<c, k>> /\ k \in Nat \ {0} /\ f[<<x, i>>] = <<c, (k - 1) * e + i>>
      BY <3>1
    <3>3. PICK d \in S : \E l \in 1 .. rate[d] :
              y = <<d, l>> /\ l \in Nat \ {0} /\ f[<<y, j>>] = <<d, (l - 1) * e + j>>
      <4> HIDE DEF f, E
      <4> QED BY <1>7
    <3>4. PICK l \in 1 .. rate[d] :
              y = <<d, l>> /\ l \in Nat \ {0} /\ f[<<y, j>>] = <<d, (l - 1) * e + j>>
      BY <3>3
    <3>5. c = d /\ (k - 1) * e + i = (l - 1) * e + j
      <4> DEFINE u == (k - 1) * e + i
                 v == (l - 1) * e + j
      <4>1. <<c, u>> = <<d, v>> BY <2>2, <3>2, <3>4
      <4> HIDE DEF u, v, f
      <4>2. c = d /\ u = v BY <4>1
      <4> QED BY <4>2 DEF u, v
    <3>6. k = l
      <4>0. k \in Nat \ {0} /\ l \in Nat \ {0} /\ i \in 1 .. e /\ j \in 1 .. e
        BY <3>2, <3>4 DEF E
      <4> HIDE DEF f, E
      <4>1. ~(k < l) BY <4>0, <3>5, SlotsApart
      <4>2. ~(l < k) BY <4>0, <3>5, SlotsApart
      <4>3. k \in Nat /\ l \in Nat BY <4>0
      <4> QED BY <4>1, <4>2, <4>3
    <3>7. i = j
      <4> DEFINE a == (k - 1) * e
      <4>1. a + i = a + j BY <3>5, <3>6
      <4>2. a \in Int BY <3>2
      <4> HIDE DEF a, f
      <4> QED BY <4>1, <4>2
    <3> QED BY <3>2, <3>4, <3>5, <3>6, <3>7
  <2>3. \A z \in A \X E : \A w \in A \X E : f[z] = f[w] => z = w
    <3> TAKE z \in A \X E
    <3> TAKE w \in A \X E
    <3>1. /\ z = <<z[1], z[2]>> /\ z[1] \in A /\ z[2] \in E
          /\ w = <<w[1], w[2]>> /\ w[1] \in A /\ w[2] \in E
      BY DEF E
    <3>2. f[z] = f[w] => z[1] = w[1] /\ z[2] = w[2]
      <4> HIDE DEF f, E
      <4> QED BY <2>2, <3>1
    <3> HIDE DEF f, E
    <3> QED BY <3>1, <3>2
  <2>4. f \in [A \X E -> M]
    <3> DEFINE D == A \X E
    <3>1. f = [z \in D |-> f[z]] OBVIOUS
    <3> HIDE DEF D, f
    <3> QED BY <2>1, <3>1 DEF D
  <2> HIDE DEF f, E
  <2> QED BY <2>3, <2>4 DEF Injection, IsInjective
<1> DEFINE D == A \X E
<1>9. f \in Injection(D, M) BY <1>8
<1>10. Cardinality(D) = Cardinality(A) * e BY <1>6
<1> HIDE DEF f, E, D
<1>11. Cardinality(D) <= Cardinality(M) BY <1>2, <1>9, FS_Injection
<1> QED BY <1>10, <1>11 DEF A, M

(* A payload is one the wire accepts, and its aggregate is over the members     *)
(* that have a rate.                                                         *)
LEMMA PayloadAccepted ==
    ASSUME CollectorAssumption, NEW D \in SUBSET Devices, NEW rate,
           DOMAIN rate = D, \A d \in D : rate[d] \in Nat \cup {NoRate},
           NEW members \in SUBSET (Devices \ Loopbacks)
    PROVE  LET rated == {d \in D : rate[d] # NoRate}
               p == Payload(rate, members)
           IN  /\ Shown(p) \subseteq rated
               /\ \A d \in Shown(p) : p.rates[d] = rate[d]
               /\ p.aggregate \in Nat /\ p.aggregate <= MaxRate
               /\ Cardinality(Shown(p)) <= MaxEntries
               /\ p.members \subseteq Shown(p) \ Loopbacks
               /\ Aggregate(p.rates, p.members) <= p.aggregate
               /\ p.aggregate <= Cardinality(BytesOf(rate, rated \cap members))
<1> DEFINE rated == {d \in D : rate[d] # NoRate}
           p == Payload(rate, members)
           summed == Cardinality(BytesOf(rate, rated \cap members))
<1>1. rated \in SUBSET Devices /\ rated \subseteq D OBVIOUS
<1>2. \A d \in rated : rate[d] \in Nat OBVIOUS
<1>3. MaxRate \in Nat /\ MaxEntries \in Nat BY DEF CollectorAssumption
<1>4. summed \in Nat
  <2> HIDE DEF rated
  <2>1. rated \cap members \in SUBSET Devices BY <1>1
  <2>2. \A d \in rated \cap members : rate[d] \in Nat BY <1>2
  <2> QED BY <2>1, <2>2, BytesAdd
<1>5. CASE First(rated) = {}
  <2>1. p = NoPayload BY <1>5 DEF Payload
  <2>2. Shown(NoPayload) = {} /\ NoPayload.aggregate = 0 /\ NoPayload.members = {}
    BY DEF Shown, NoPayload
  <2>3. BytesOf(NoPayload.rates, {}) = {} BY DEF BytesOf
  <2>4. Aggregate(NoPayload.rates, {}) <= 0
    BY <1>3, <2>3, FS_EmptySet DEF Aggregate
  <2> HIDE DEF p, rated, summed
  <2>5. Shown(p) = {} /\ p.aggregate = 0 /\ p.members = {} /\ Aggregate(p.rates, p.members) <= 0
    BY <2>1, <2>2, <2>4
  <2>6. Cardinality(Shown(p)) = 0 BY <2>5, FS_EmptySet
  <2>7. /\ Shown(p) \subseteq rated /\ \A d \in Shown(p) : p.rates[d] = rate[d]
        /\ p.aggregate \in Nat /\ p.aggregate <= MaxRate /\ Cardinality(Shown(p)) <= MaxEntries
        /\ p.members \subseteq Shown(p) \ Loopbacks
        /\ Aggregate(p.rates, p.members) <= p.aggregate /\ p.aggregate <= summed
    BY <2>5, <2>6, <1>3, <1>4
  <2> QED BY <2>7 DEF p, rated, summed
<1>6. CASE First(rated) # {}
  <2> DEFINE shown == First(rated)
             shownRates == [d \in shown |-> rate[d]]
  <2>1. p = [rates |-> shownRates, members |-> shown \cap members,
             aggregate |-> Aggregate(rate, rated \cap members)]
    BY <1>6 DEF Payload
  <2>2. shown \subseteq rated /\ Cardinality(shown) <= MaxEntries
    <3> HIDE DEF rated
    <3> QED BY <1>1, FewAreShown
  <2>3. Aggregate(rate, rated \cap members) = IF summed < MaxRate THEN summed ELSE MaxRate
    BY DEF Aggregate
  <2> HIDE DEF rated, shown, summed
  <2>4. /\ Shown(p) = shown /\ p.rates = shownRates /\ p.members = shown \cap members
        /\ p.aggregate = IF summed < MaxRate THEN summed ELSE MaxRate
    BY <2>1, <2>3 DEF Shown
  <2>5. Cardinality(BytesOf(shownRates, shown \cap members)) <= summed
    <3>1. rated \cap members \in SUBSET Devices /\ shown \cap members \in SUBSET (rated \cap members)
      BY <1>1, <2>2
    <3>2. \A d \in rated \cap members : rate[d] \in Nat BY <1>2
    <3>3. \A d \in shown \cap members : shownRates[d] = rate[d] OBVIOUS
    <3> HIDE DEF shownRates
    <3> QED BY <3>1, <3>2, <3>3, FewerBytes DEF summed
  <2>6. Cardinality(BytesOf(shownRates, shown \cap members)) \in Nat
    <3>1. shown \cap members \in SUBSET Devices BY <1>1, <2>2
    <3>2. \A d \in shown \cap members : shownRates[d] \in Nat BY <1>2, <2>2
    <3> HIDE DEF shownRates
    <3> QED BY <3>1, <3>2, BytesAdd
  <2>7. \A d \in shown : shownRates[d] = rate[d] OBVIOUS
  <2> HIDE DEF shownRates, p
  <2>8. Aggregate(p.rates, p.members) <= p.aggregate
    BY <2>4, <2>5, <2>6, <1>3, <1>4 DEF Aggregate
  <2>9. p.aggregate \in Nat /\ p.aggregate <= MaxRate /\ p.aggregate <= summed
    BY <2>4, <1>3, <1>4
  <2>10. /\ Shown(p) \subseteq rated /\ \A d \in Shown(p) : p.rates[d] = rate[d]
         /\ Cardinality(Shown(p)) <= MaxEntries
         /\ p.members \subseteq Shown(p) \ Loopbacks
    BY <2>2, <2>4, <2>7
  <2> QED BY <2>8, <2>9, <2>10 DEF p, rated, summed
<1> QED BY <1>5, <1>6

(* What Observe makes of a sample: a rate is given only for one from the last   *)
(* enumeration, and claims no more than was moved since.                      *)
LEMMA ObserveIsHonest ==
    ASSUME CollectorTypeOK, SamplesSound, NEW records \in SUBSET Devices, NEW d \in records
    PROVE  LET rate == Observe(RetainIds(records), d) IN
           /\ rate \in Nat \cup {NoRate}
           /\ rate # NoRate => /\ d \in lastRead.found /\ stamp - lastRead.stamp \in Nat
                               /\ rate * (stamp - lastRead.stamp) <= device[d].moved
<1> DEFINE s == samples[d]
           v == device[d]
           e == stamp - s.at
           m == v.count - s.count
<1>1. RetainIds(records)[d] = s BY DEF RetainIds
<1>2. Observe(RetainIds(records), d) =
          IF s = NoSample \/ e <= 0 \/ m < 0 THEN NoRate ELSE m \div e
  BY <1>1 DEF Observe
<1>3. v \in DeviceStates /\ s \in SampleStates BY DEF CollectorTypeOK
<1>4. v.count \in Nat /\ v.moved \in Nat /\ s.at \in Int /\ s.count \in Int
  BY <1>3 DEF DeviceStates, SampleStates
<1>5. stamp \in Nat /\ lastRead.stamp \in Int BY DEF CollectorTypeOK
<1>6. s # NoSample => d \in lastRead.found /\ s.at = lastRead.stamp /\ m <= v.moved
  BY DEF SamplesSound, SampleSound
<1>7. ASSUME s # NoSample, ~(e <= 0), ~(m < 0)
      PROVE  e \in Nat /\ (m \div e) \in Nat /\ (m \div e) * e <= v.moved
  <2>1. e \in Nat /\ e > 0 /\ m \in Nat BY <1>4, <1>5, <1>7
  <2> HIDE DEF e, m
  <2>2. (m \div e) \in Nat /\ (m \div e) * e <= m BY <2>1, QuotientTimesDivisor
  <2>3. (m \div e) * e \in Int BY <2>1, <2>2
  <2> DEFINE q == (m \div e) * e
  <2>4. q \in Int /\ q <= m BY <2>2, <2>3
  <2>5. m <= v.moved BY <1>6, <1>7
  <2> HIDE DEF q
  <2>6. q <= v.moved BY <2>4, <2>5, <2>1, <1>4
  <2> QED BY <2>1, <2>6, <2>2 DEF q
<1>8. s # NoSample => e = stamp - lastRead.stamp BY <1>6
<1> HIDE DEF e, m
<1> DEFINE rate == Observe(RetainIds(records), d)
<1>9. CASE s = NoSample \/ e <= 0 \/ m < 0
  <2>1. rate = NoRate BY <1>2, <1>9
  <2> QED BY <2>1
<1>10. CASE ~(s = NoSample \/ e <= 0 \/ m < 0)
  <2>1. rate = m \div e BY <1>2, <1>10
  <2>2. e \in Nat /\ rate \in Nat /\ rate * e <= v.moved BY <2>1, <1>7, <1>10
  <2> QED BY <2>2, <1>6, <1>8, <1>10
<1> QED BY <1>9, <1>10

(* A reading's payload.                                                      *)
LEMMA ReadingIsSound ==
    ASSUME CollectorAssumption, CollectorInv, NEW records \in SUBSET Devices,
           NEW counted \in SUBSET records, CollectDevices(records, counted)
    PROVE  /\ AggregateAccepted'
           /\ \A d \in Shown(payload') :
                 /\ d \in lastRead.found
                 /\ payload'.rates[d] * (stamp - lastRead.stamp) <= device[d].moved
           /\ payload'.aggregate * (stamp - lastRead.stamp) <= MovedBy(Devices \ Loopbacks)
<1> DEFINE rate == [d \in records |-> Observe(RetainIds(records), d)]
           members == Members(counted)
           p == Payload(rate, members)
           rated == {d \in records : rate[d] # NoRate}
           e == stamp - lastRead.stamp
<1>1. payload' = p BY DEF CollectDevices
<1>2. \A d \in records :
         /\ rate[d] \in Nat \cup {NoRate}
         /\ rate[d] # NoRate => /\ d \in lastRead.found /\ e \in Nat
                                /\ rate[d] * e <= device[d].moved
  BY ObserveIsHonest DEF CollectorInv
<1>3. DOMAIN rate = records OBVIOUS
<1>4. members \in SUBSET (Devices \ Loopbacks) BY DEF Members
<1>5. e \in Int BY DEF CollectorInv, CollectorTypeOK
<1>6. \A d \in Devices : device[d].moved \in Nat
  BY DeviceFields DEF CollectorInv, CollectorTypeOK
<1> HIDE DEF rate, members, e
<1>7. /\ Shown(p) \subseteq rated
      /\ \A d \in Shown(p) : p.rates[d] = rate[d]
      /\ p.aggregate \in Nat /\ p.aggregate <= MaxRate
      /\ Cardinality(Shown(p)) <= MaxEntries
      /\ p.members \subseteq Shown(p) \ Loopbacks
      /\ Aggregate(p.rates, p.members) <= p.aggregate
      /\ p.aggregate <= Cardinality(BytesOf(rate, rated \cap members))
  BY <1>2, <1>3, <1>4, PayloadAccepted
<1> HIDE DEF p
<1>8. AggregateAccepted' BY <1>1, <1>7 DEF AggregateAccepted
<1>9. \A d \in Shown(p) : d \in lastRead.found /\ p.rates[d] * e <= device[d].moved
  BY <1>2, <1>7
<1>10. p.aggregate * e <= MovedBy(Devices \ Loopbacks)
  <2> DEFINE S == rated \cap members
             T == Devices \ Loopbacks
             moved == [d \in T |-> device[d].moved]
             total == Cardinality(BytesOf(moved, T))
             summed == Cardinality(BytesOf(rate, S))
  <2>1. S \in SUBSET Devices /\ T \in SUBSET Devices /\ S \subseteq T /\ S \subseteq rated
    BY <1>4
  <2>2. \A d \in T : moved[d] = device[d].moved /\ moved[d] \in Nat BY <1>6
  <2>3. \A d \in rated : rate[d] \in Nat /\ rate[d] * e <= device[d].moved /\ e \in Nat
    BY <1>2
  <2>4. MovedBy(T) = total BY DEF MovedBy
  <2> HIDE DEF rated, S, T, moved
  <2>5. \A d \in S : rate[d] \in Nat /\ rate[d] * e <= moved[d] BY <2>1, <2>2, <2>3
  <2>6. summed \in Nat /\ total \in Nat BY <2>1, <2>2, <2>5, BytesAdd
  <2>7. p.aggregate \in Nat /\ p.aggregate <= summed BY <1>7 DEF S
  <2>8. CASE S = {}
    <3>1. BytesOf(rate, S) = {} BY <2>8 DEF BytesOf
    <3>2. summed = 0 BY <3>1, FS_EmptySet
    <3>3. p.aggregate = 0 BY <2>7, <3>2
    <3> HIDE DEF total, summed
    <3> QED BY <2>4, <2>6, <3>3, <1>5 DEF T
  <2>9. CASE S # {}
    <3>1. e \in Nat BY <2>1, <2>3, <2>9
    <3>2. summed * e <= total BY <3>1, <2>1, <2>2, <2>5, BytesScale
    <3> HIDE DEF total, summed
    <3> DEFINE x == p.aggregate * e
               y == (summed - p.aggregate) * e
    <3>3. summed * e = x + y BY <2>6, <2>7, <3>1
    <3>4. summed - p.aggregate \in Nat BY <2>6, <2>7
    <3>5. x \in Nat /\ y \in Nat BY <2>7, <3>1, <3>4
    <3> HIDE DEF x, y
    <3>6. x <= total BY <2>6, <3>2, <3>3, <3>5
    <3> QED BY <2>4, <3>6 DEF x, T
  <2> QED BY <2>8, <2>9
<1> QED BY <1>1, <1>8, <1>9, <1>10 DEF e

(* A payload without rates.                                                  *)
LEMMA NoPayloadAccepted ==
    ASSUME CollectorAssumption
    PROVE  /\ Shown(NoPayload) = {} /\ NoPayload.aggregate = 0 /\ NoPayload.members = {}
           /\ NoPayload.aggregate <= MaxRate
           /\ Cardinality(Shown(NoPayload)) <= MaxEntries
           /\ Aggregate(NoPayload.rates, NoPayload.members) <= NoPayload.aggregate
<1>1. Shown(NoPayload) = {} /\ NoPayload.aggregate = 0 /\ NoPayload.members = {}
  BY DEF Shown, NoPayload
<1>2. BytesOf(NoPayload.rates, {}) = {} BY DEF BytesOf
<1>3. Aggregate(NoPayload.rates, {}) <= 0
  BY <1>2, FS_EmptySet DEF Aggregate, CollectorAssumption
<1> QED BY <1>1, <1>3, FS_EmptySet DEF CollectorAssumption

LEMMA MovedIsCounted ==
    ASSUME CollectorAssumption, CollectorInv
    PROVE  MovedBy(Devices \ Loopbacks) \in Nat
<1> DEFINE T == Devices \ Loopbacks
           moved == [d \in T |-> device[d].moved]
<1>1. T \in SUBSET Devices OBVIOUS
<1>2. \A d \in T : moved[d] \in Nat
  BY DeviceFields DEF CollectorInv, CollectorTypeOK
<1>3. MovedBy(T) = Cardinality(BytesOf(moved, T)) BY DEF MovedBy
<1> HIDE DEF moved
<1>4. Cardinality(BytesOf(moved, T)) \in Nat BY <1>1, <1>2, BytesAdd
<1> QED BY <1>3, <1>4

LEMMA CollectorStarts ==
    ASSUME CollectorAssumption, CollectorInit
    PROVE  CollectorInv
<1>1. NoSample \in SampleStates BY DEF NoSample, NoRate, SampleStates
<1>2. [on |-> TRUE, count |-> 0, moved |-> 0] \in DeviceStates BY DEF DeviceStates
<1>3. CollectorTypeOK BY <1>1, <1>2 DEF CollectorInit, CollectorTypeOK, NoRate
<1>4. SamplesSound BY DEF SamplesSound, SampleSound, CollectorInit
<1>5. payload = NoPayload BY DEF CollectorInit
<1>6. AggregateAccepted BY <1>5, NoPayloadAccepted DEF AggregateAccepted
<1> QED BY <1>3, <1>4, <1>6 DEF CollectorInv

LEMMA DevicePlugged ==
    ASSUME NEW v \in DeviceStates, NEW b \in BOOLEAN
    PROVE  LET w == [v EXCEPT !.on = b, !.count = 0] IN
           w \in DeviceStates /\ w.count = 0 /\ w.moved = v.moved
<1> DEFINE B == BOOLEAN
<1>1. b \in B /\ v \in [on : B, count : Nat, moved : Nat] BY DEF DeviceStates
<1>2. DeviceStates = [on : B, count : Nat, moved : Nat] BY DEF DeviceStates
<1> HIDE DEF B
<1> QED BY <1>1, <1>2

LEMMA DeviceRead ==
    ASSUME NEW v \in DeviceStates
    PROVE  LET w == [v EXCEPT !.moved = 0] IN
           w \in DeviceStates /\ w.count = v.count /\ w.moved = 0
BY DEF DeviceStates

LEMMA TransfersKeep ==
    ASSUME CollectorAssumption, CollectorInv, NEW d \in Devices, Transfers(d)
    PROVE  CollectorInv'
<1> DEFINE v == device[d]
           n == (v.count + 1) % CounterRange
           w == [v EXCEPT !.count = n, !.moved = v.moved + 1]
<1>1. v \in DeviceStates /\ v.count \in Nat /\ v.moved \in Nat
  BY DeviceFields DEF CollectorInv, CollectorTypeOK
<1>2. n \in Nat /\ n <= v.count + 1
  <2>1. v.count + 1 \in Nat BY <1>1
  <2> QED BY <2>1, RemainderIsSmaller DEF CollectorAssumption
<1>3. device' = [device EXCEPT ![d] = w] BY DEF Transfers
<1> HIDE DEF n
<1>4. w \in DeviceStates /\ w.count = n /\ w.moved = v.moved + 1
  <2> DEFINE k == v.moved + 1
  <2>1. k \in Nat BY <1>1
  <2> HIDE DEF k, v
  <2>2. LET x == [v EXCEPT !.count = n, !.moved = k] IN
        x \in DeviceStates /\ x.count = n /\ x.moved = k
    <3>1. v \in DeviceStates /\ n \in Nat BY <1>1, <1>2
    <3> QED BY <3>1, <2>1 DEF DeviceStates
  <2> QED BY <2>2 DEF k, v
<1>5. UNCHANGED <<clock, stamp, samples, lastRead, payload>> BY DEF Transfers, CycleUnchanged
<1> HIDE DEF w
<1>6. CollectorTypeOK' BY <1>3, <1>4, <1>5 DEF CollectorInv, CollectorTypeOK
<1>7. SampleSound(samples[d], w, d \in lastRead.found, lastRead.stamp)
  <2>1. SampleSound(samples[d], v, d \in lastRead.found, lastRead.stamp)
    BY DEF CollectorInv, SamplesSound
  <2> QED BY <2>1, <1>1, <1>2, <1>4 DEF SampleSound
<1>8. SamplesSound'
  <2>1. \A x \in Devices : device'[x] = IF x = d THEN w ELSE device[x]
    BY <1>3 DEF CollectorInv, CollectorTypeOK
  <2> QED BY <2>1, <1>5, <1>7 DEF CollectorInv, SamplesSound
<1>9. AggregateAccepted' BY <1>5 DEF CollectorInv, AggregateAccepted
<1> QED BY <1>6, <1>8, <1>9 DEF CollectorInv

LEMMA PlugsKeep ==
    ASSUME CollectorAssumption, CollectorInv, NEW d \in Devices, Plugs(d)
    PROVE  CollectorInv'
<1> DEFINE v == device[d]
           w == [v EXCEPT !.on = ~v.on, !.count = 0]
<1>1. v \in DeviceStates /\ v.count \in Nat /\ v.moved \in Nat
  BY DeviceFields DEF CollectorInv, CollectorTypeOK
<1>2. (~v.on) \in BOOLEAN OBVIOUS
<1>3. device' = [device EXCEPT ![d] = w] BY DEF Plugs
<1>4. w \in DeviceStates /\ w.count = 0 /\ w.moved = v.moved
  <2> DEFINE b == ~v.on
  <2>1. b \in BOOLEAN BY <1>2
  <2> HIDE DEF b
  <2>2. [v EXCEPT !.on = b, !.count = 0] \in DeviceStates
        /\ [v EXCEPT !.on = b, !.count = 0].count = 0
        /\ [v EXCEPT !.on = b, !.count = 0].moved = v.moved
    BY <1>1, <2>1, DevicePlugged
  <2> QED BY <2>2 DEF b
<1>5. UNCHANGED <<clock, stamp, samples, lastRead, payload>> BY DEF Plugs, CycleUnchanged
<1> HIDE DEF w
<1>6. CollectorTypeOK' BY <1>3, <1>4, <1>5 DEF CollectorInv, CollectorTypeOK
<1>7. SampleSound(samples[d], w, d \in lastRead.found, lastRead.stamp)
  <2>1. SampleSound(samples[d], v, d \in lastRead.found, lastRead.stamp)
    BY DEF CollectorInv, SamplesSound
  <2> QED BY <2>1, <1>1, <1>4 DEF SampleSound
<1>8. SamplesSound'
  <2>1. \A x \in Devices : device'[x] = IF x = d THEN w ELSE device[x]
    BY <1>3 DEF CollectorInv, CollectorTypeOK
  <2> QED BY <2>1, <1>5, <1>7 DEF CollectorInv, SamplesSound
<1>9. AggregateAccepted' BY <1>5 DEF CollectorInv, AggregateAccepted
<1> QED BY <1>6, <1>8, <1>9 DEF CollectorInv

LEMMA ReadingKeeps ==
    ASSUME CollectorAssumption, CollectorInv, NEW records \in SUBSET Devices,
           NEW counted \in SUBSET records, CollectDevices(records, counted)
    PROVE  CollectorInv'
<1> DEFINE seen(d) == [at |-> stamp, count |-> device[d].count]
           read(d) == [device[d] EXCEPT !.moved = 0]
<1>1. /\ samples' = [d \in Devices |-> IF d \in records THEN seen(d) ELSE NoSample]
      /\ device' = [d \in Devices |-> IF d \in records THEN read(d) ELSE device[d]]
  BY DEF CollectDevices, RetainIds
<1>2. \A d \in Devices : device[d] \in DeviceStates BY DEF CollectorInv, CollectorTypeOK
<1>3. \A d \in Devices : device[d].count \in Nat BY <1>2, DeviceFields
<1>4. \A d \in Devices :
         /\ read(d) \in DeviceStates /\ read(d).moved = 0
         /\ read(d).count = device[d].count
  <2> TAKE d \in Devices
  <2>1. device[d] \in DeviceStates BY <1>2
  <2> QED BY <2>1, DeviceRead
<1>5. stamp \in Nat BY DEF CollectorInv, CollectorTypeOK
<1>6. \A d \in Devices : seen(d) \in SampleStates BY <1>3, <1>5 DEF SampleStates
<1>7. NoSample \in SampleStates BY DEF NoSample, NoRate, SampleStates
<1>8. lastRead'.found = records /\ lastRead'.stamp = stamp /\ UNCHANGED <<clock, stamp>>
  BY DEF CollectDevices
<1>9. \A d \in Devices : seen(d).at = stamp /\ seen(d).count = device[d].count OBVIOUS
<1> HIDE DEF seen, read
<1>10. CollectorTypeOK'
  <2>1. clock' \in Nat /\ stamp' \in Nat /\ lastRead'.found \subseteq Devices /\ lastRead'.stamp \in Int
    BY <1>5, <1>8 DEF CollectorInv, CollectorTypeOK
  <2>2. samples' \in [Devices -> SampleStates] BY <1>1, <1>6, <1>7
  <2>3. device' \in [Devices -> DeviceStates] BY <1>1, <1>2, <1>4
  <2> QED BY <2>1, <2>2, <2>3 DEF CollectorTypeOK
<1>11. SamplesSound'
  <2> SUFFICES ASSUME NEW d \in Devices
               PROVE  SampleSound(samples'[d], device'[d], d \in lastRead'.found, lastRead'.stamp)
    BY DEF SamplesSound
  <2>1. CASE d \in records
    <3>1. samples'[d] = seen(d) /\ device'[d] = read(d) BY <1>1, <2>1
    <3>2. /\ seen(d).at = lastRead'.stamp /\ d \in lastRead'.found
          /\ seen(d).count = device[d].count /\ device[d].count \in Nat
          /\ read(d).count = device[d].count /\ read(d).moved = 0
      BY <1>3, <1>4, <1>8, <1>9, <2>1
    <3> QED BY <3>1, <3>2 DEF SampleSound
  <2>2. CASE d \notin records BY <1>1, <2>2 DEF SampleSound
  <2> QED BY <2>1, <2>2
<1>12. AggregateAccepted' BY ReadingIsSound
<1> QED BY <1>10, <1>11, <1>12 DEF CollectorInv

LEMMA FailedReadingKeeps ==
    ASSUME CollectorAssumption, CollectorInv, EnumerationFails
    PROVE  CollectorInv' /\ payload' = NoPayload
<1>1. NoSample \in SampleStates BY DEF NoSample, NoRate, SampleStates
<1>2. CollectorTypeOK'
  BY <1>1 DEF EnumerationFails, HostUnchanged, CollectorInv, CollectorTypeOK
<1>3. SamplesSound' BY DEF EnumerationFails, SamplesSound, SampleSound
<1>4. payload' = NoPayload BY DEF EnumerationFails
<1>5. AggregateAccepted' BY <1>4, NoPayloadAccepted DEF AggregateAccepted
<1> QED BY <1>2, <1>3, <1>4, <1>5, NoPayloadAccepted DEF CollectorInv

(* The steps that touch neither the devices nor their samples.                 *)
LEMMA OthersKeep ==
    ASSUME CollectorInv, UNCHANGED <<device, samples, payload, lastRead>>,
           clock' \in Nat, stamp' \in Nat
    PROVE  CollectorInv'
<1>1. CollectorTypeOK' BY DEF CollectorInv, CollectorTypeOK
<1>2. SamplesSound' BY DEF CollectorInv, SamplesSound
<1>3. AggregateAccepted' BY DEF CollectorInv, AggregateAccepted
<1> QED BY <1>1, <1>2, <1>3 DEF CollectorInv

LEMMA CyclesKeep ==
    ASSUME CollectorInv,
           TimePasses \/ CpuRuns \/ ReadFails \/ Warms \/ CounterReset \/ DerivationFails
             \/ CpuSampled
    PROVE  CollectorInv' /\ ~(cycle = "devices" /\ cycle' = "idle")
<1>0. clock \in Nat /\ stamp \in Nat BY DEF CollectorInv, CollectorTypeOK
<1>1. CASE TimePasses
  BY <1>0, <1>1, OthersKeep DEF TimePasses, CycleUnchanged
<1>2. CASE CpuRuns
  BY <1>0, <1>2, OthersKeep DEF CpuRuns, CycleUnchanged
<1>3. CASE \E base : cycle = "idle" /\ Returns(base)
  BY <1>0, <1>3, OthersKeep DEF Returns, HostUnchanged
<1>4. CASE CpuSampled
  BY <1>0, <1>4, OthersKeep DEF CpuSampled, HostUnchanged
<1>5. ReadFails \/ Warms \/ CounterReset \/ DerivationFails =>
         \E base : cycle = "idle" /\ Returns(base)
  BY Zenon DEF ReadFails, Warms, CounterReset, DerivationFails
<1> QED BY <1>1, <1>2, <1>3, <1>4, <1>5

(* Every rate is for a device found by the enumeration before, over the time     *)
(* between the two, and claims no more than was moved; the aggregate claims no  *)
(* more than everything but loopbacks moved, covers the members shown and is    *)
(* held at its bound: CounterBaselines and the native collectors, for any       *)
(* devices, any of them loopbacks, any flags of the source, counter width,     *)
(* entry limit and rate bound.                                              *)
THEOREM CollectorIsSound == CollectorSpec => CollectorSound
<1>1. CollectorInit => CollectorInv BY CollectorStarts, CollectorAssumption
<1>2. CollectorInv /\ [CollectorNext]_collectorVars => CollectorInv'
  <2>1. SUFFICES ASSUME CollectorInv, [CollectorNext]_collectorVars PROVE CollectorInv' OBVIOUS
  <2>2. CASE UNCHANGED collectorVars
    <3>1. clock \in Nat /\ stamp \in Nat BY <2>1 DEF CollectorInv, CollectorTypeOK
    <3> QED BY <2>1, <2>2, <3>1, OthersKeep DEF collectorVars
  <2>3. CASE CollectorNext
    BY <2>1, <2>3, CollectorAssumption, CyclesKeep, TransfersKeep, PlugsKeep, ReadingKeeps,
       FailedReadingKeeps, Zenon DEF CollectorNext
  <2> QED BY <2>1, <2>2, <2>3
<1> DEFINE Honest == cycle = "devices" /\ cycle' = "idle" =>
                     /\ \A d \in Shown(payload') :
                           /\ d \in lastRead.found
                           /\ payload'.rates[d] * (stamp - lastRead.stamp) <= device[d].moved
                     /\ payload'.aggregate * (stamp - lastRead.stamp)
                          <= MovedBy(Devices \ Loopbacks)
<1>3. CollectorInv /\ [CollectorNext]_collectorVars => [Honest]_collectorVars
  <2>1. SUFFICES ASSUME CollectorInv, CollectorNext PROVE Honest OBVIOUS
  <2>2. CASE \E records \in SUBSET Devices : \E counted \in SUBSET records :
                CollectDevices(records, counted)
    BY <2>1, <2>2, CollectorAssumption, ReadingIsSound
  <2>3. CASE EnumerationFails
    <3>1. payload' = NoPayload BY <2>1, <2>3, CollectorAssumption, FailedReadingKeeps
    <3>2. Shown(payload') = {} /\ payload'.aggregate = 0
      BY <3>1, CollectorAssumption, NoPayloadAccepted
    <3>3. stamp - lastRead.stamp \in Int BY <2>1 DEF CollectorInv, CollectorTypeOK
    <3>4. MovedBy(Devices \ Loopbacks) \in Nat BY <2>1, CollectorAssumption, MovedIsCounted
    <3> QED BY <3>2, <3>3, <3>4
  <2>4. CASE \E d \in Devices : Transfers(d) \/ Plugs(d)
    BY <2>4 DEF Transfers, Plugs, CycleUnchanged
  <2>5. CASE TimePasses \/ CpuRuns \/ ReadFails \/ Warms \/ CounterReset \/ DerivationFails
               \/ CpuSampled
    BY <2>1, <2>5, CyclesKeep, Zenon
  <2> QED BY <2>1, <2>2, <2>3, <2>4, <2>5, Zenon DEF CollectorNext
<1>4. CollectorInv => AggregateAccepted BY DEF CollectorInv
<1> QED BY <1>1, <1>2, <1>3, <1>4, PTL DEF CollectorSpec, CollectorSound, RatesHonest

-----------------------------------------------------------------------------
(* The accept gate.                                                          *)

GateThreads ==
    {"pool", "begin", "duplicate", "lock", "gap", "kernel", "connected", "aborted", "failed",
     "struck"}
Stoppers == [pc : {"running", "cancelled", "requesting", "joining", "exiting"},
             made : 0 .. Attempts]

(* The record names the thread from its publication to the end of the wait;    *)
(* a stop raises the flag before it looks, and goes on looking only while     *)
(* it has attempts left.                                                     *)
GateInv ==
    /\ loop \in {"check", "waiting", "ended"} /\ thread \in GateThreads
    /\ record \in BOOLEAN /\ requested \in BOOLEAN /\ stopper \in Stoppers
    /\ record <=> thread \in {"gap", "kernel", "connected", "aborted", "failed"}
    /\ stopper.pc \in {"requesting", "joining", "exiting"} => requested
    /\ stopper.pc \in {"running", "cancelled", "requesting"} => stopper.made < Attempts
    /\ NoWaitLeftBehind

LEMMA GateInitInv == GateInit => GateInv
<1> SUFFICES ASSUME GateInit PROVE GateInv OBVIOUS
<1>1. stopper \in Stoppers /\ stopper.pc = "running" /\ stopper.made = 0
  BY AttemptsAssumption DEF GateInit, Stoppers
<1>2. loop = "check" /\ thread = "pool" /\ record = FALSE /\ requested = FALSE
  BY DEF GateInit
<1>3. stopper.made < Attempts BY <1>1, AttemptsAssumption
<1>4. NoWaitLeftBehind BY <1>1, <1>2 DEF NoWaitLeftBehind
<1> QED BY <1>1, <1>2, <1>3, <1>4 DEF GateInv, GateThreads

LEMMA GateTaskInv == GateInv /\ GateTask => GateInv'
<1> SUFFICES ASSUME GateInv, GateTask PROVE GateInv' OBVIOUS
<1>1. CASE NextAccept
  BY <1>1 DEF GateInv, NextAccept, GateThreads, NoWaitLeftBehind, Exhausted
<1>2. CASE BeginChecks
  BY <1>2 DEF GateInv, BeginChecks, Finish, GateThreads, NoWaitLeftBehind, Exhausted
<1>3. CASE Duplicates
  BY <1>3 DEF GateInv, Duplicates, Finish, GateThreads, NoWaitLeftBehind, Exhausted
<1>4. CASE Publishes
  BY <1>4 DEF GateInv, Publishes, MayPark, Finish, GateThreads, NoWaitLeftBehind, Exhausted
<1>5. CASE Enters
  BY <1>5 DEF GateInv, Enters, GateThreads, NoWaitLeftBehind, Exhausted
<1>6. CASE Ends
  BY <1>6
  DEF GateInv, Ends, RecordAfterWait, Finish, GateThreads, NoWaitLeftBehind, Exhausted
<1> QED BY <1>1, <1>2, <1>3, <1>4, <1>5, <1>6 DEF GateTask

LEMMA GateAttemptInv == GateInv /\ Attempt => GateInv'
<1> SUFFICES ASSUME GateInv, Attempt PROVE GateInv' OBVIOUS
<1> DEFINE done == [stopper EXCEPT !.pc = "joining"]
           again == [stopper EXCEPT !.made = @ + 1,
                        !.pc = IF stopper.made + 1 = Attempts THEN "joining" ELSE @]
<1>0. /\ stopper \in Stoppers /\ stopper.pc = "requesting" /\ stopper.made < Attempts
      /\ stopper.made \in Nat /\ requested
      /\ UNCHANGED <<loop, record, requested>>
  BY DEF GateInv, Attempt, Stoppers
<1>1. /\ done \in Stoppers /\ done.pc = "joining" /\ done.made = stopper.made
  BY <1>0 DEF Stoppers
<1>2. /\ again \in Stoppers /\ again.made = stopper.made + 1
      /\ again.pc = IF stopper.made + 1 = Attempts THEN "joining" ELSE "requesting"
  <2> DEFINE next == IF stopper.made + 1 = Attempts THEN "joining" ELSE stopper.pc
             P == {"running", "cancelled", "requesting", "joining", "exiting"}
             M == 0 .. Attempts
  <2>1. /\ next \in P /\ stopper.made + 1 \in M /\ stopper \in [pc : P, made : M]
        /\ next = IF stopper.made + 1 = Attempts THEN "joining" ELSE "requesting"
    BY <1>0, AttemptsAssumption DEF Stoppers
  <2>2. again = [stopper EXCEPT !.made = stopper.made + 1, !.pc = next] OBVIOUS
  <2> HIDE DEF next, P, M, again
  <2>3. again \in [pc : P, made : M] /\ again.made = stopper.made + 1 /\ again.pc = next
    BY <2>1, <2>2
  <2> QED BY <2>1, <2>3 DEF Stoppers, P, M
<1>3. \/ ~record /\ stopper' = done /\ thread' = thread
      \/ /\ record /\ IoPending /\ stopper' = done
         /\ thread' = IF thread = "kernel" THEN "aborted" ELSE "struck"
      \/ record /\ ~IoPending /\ stopper' = again /\ thread' = thread
  BY DEF Attempt
<1> HIDE DEF done, again
<1>4. CASE ~record /\ stopper' = done /\ thread' = thread
  BY <1>0, <1>1, <1>4 DEF GateInv, GateThreads, NoWaitLeftBehind, Exhausted
<1>5. CASE /\ record /\ IoPending /\ stopper' = done
           /\ thread' = IF thread = "kernel" THEN "aborted" ELSE "struck"
  BY <1>0, <1>1, <1>5 DEF GateInv, IoPending, GateThreads, NoWaitLeftBehind, Exhausted
<1>6. CASE record /\ ~IoPending /\ stopper' = again /\ thread' = thread
  BY <1>0, <1>2, <1>6, AttemptsAssumption
  DEF GateInv, GateThreads, NoWaitLeftBehind, Exhausted
<1> QED BY <1>3, <1>4, <1>5, <1>6

LEMMA GateNextInv == GateInv /\ [GateNext]_gateVars => GateInv'
<1> SUFFICES ASSUME GateInv, [GateNext]_gateVars PROVE GateInv' OBVIOUS
<1>0. stopper \in Stoppers BY DEF GateInv
<1>1. CASE GateTask BY <1>1, GateTaskInv
<1>2. CASE WaitReturns
  BY <1>2 DEF GateInv, WaitReturns, GateThreads, NoWaitLeftBehind, Exhausted
<1>3. CASE EngineReturns
  <2>1. stopper' \in Stoppers /\ stopper'.pc = "cancelled" /\ stopper'.made = stopper.made
    BY <1>0, <1>3 DEF EngineReturns, Stoppers
  <2> QED BY <1>3, <2>1 DEF GateInv, EngineReturns, GateThreads, NoWaitLeftBehind
<1>4. CASE RequestsStop
  <2>1. stopper' \in Stoppers /\ stopper'.pc = "requesting" /\ stopper'.made = stopper.made
    BY <1>0, <1>4 DEF RequestsStop, Stoppers
  <2> QED BY <1>4, <2>1 DEF GateInv, RequestsStop, GateThreads, NoWaitLeftBehind
<1>5. CASE Attempt BY <1>5, GateAttemptInv
<1>6. CASE Joins
  <2>1. stopper' \in Stoppers /\ stopper'.pc = "exiting" /\ stopper'.made = stopper.made
    BY <1>0, <1>6 DEF Joins, Stoppers
  <2> QED BY <1>6, <2>1 DEF GateInv, Joins, GateThreads, NoWaitLeftBehind, Exhausted
<1>7. CASE UNCHANGED gateVars
  BY <1>7 DEF gateVars, GateInv, GateThreads, NoWaitLeftBehind, Exhausted
<1> QED BY <1>1, <1>2, <1>3, <1>4, <1>5, <1>6, <1>7 DEF GateNext, GateStop

(* AcceptGate::request, begin and end: a stop leaves no accept wait behind and  *)
(* cancels nothing else, for any number of attempts.                          *)
THEOREM GateLeavesNoWait == GateSpec => [](GateTypeOK /\ NoWaitLeftBehind)
<1>1. GateInv => GateTypeOK /\ NoWaitLeftBehind
  BY DEF GateInv, GateTypeOK, GateThreads, Stoppers
<1> QED BY GateInitInv, GateNextInv, <1>1, PTL DEF GateSpec

-----------------------------------------------------------------------------
(* The drive refresh.                                                        *)

(* What is on its way is never older than what is already further along.     *)
RefreshInv ==
    /\ drives \in DriveLists /\ latest \in DriveLists \cup {Empty}
    /\ handed \in DriveLists \cup {Empty, Error} /\ parcel \in DriveLists \cup {Error}
    /\ latest <= drives
    /\ handed \in DriveLists => latest <= handed /\ handed <= drives
    /\ refresher = "sending" /\ parcel \in DriveLists =>
          latest <= parcel /\ parcel <= drives /\ handed <= parcel

LEMMA RefreshInitInv == DriveInit => RefreshInv
BY DriveVersionsAssumption DEF DriveInit, RefreshInv, DriveLists, Empty, Error

LEMMA RefreshNextInv == RefreshInv /\ [DriveNext]_driveVars => RefreshInv'
<1> SUFFICES ASSUME RefreshInv, [DriveNext]_driveVars PROVE RefreshInv' OBVIOUS
<1> USE DriveVersionsAssumption DEF RefreshInv, DriveLists, Empty, Error
<1>1. CASE DrivesChange BY <1>1 DEF DrivesChange
<1>2. CASE DrivesSicken BY <1>2 DEF DrivesSicken
<1>3. CASE RefreshDue \/ RefresherEnds \/ SendFails
  BY <1>3 DEF RefreshDue, RefresherEnds, SendFails
<1>4. CASE CollectDrives \/ CollectPanics
  BY <1>4 DEF CollectDrives, CollectPanics, Collected
<1>5. CASE HandsOver BY <1>5 DEF HandsOver
<1>6. CASE PollDrives BY <1>6 DEF PollDrives
<1>7. CASE DropCache BY <1>7 DEF DropCache
<1>8. CASE UNCHANGED driveVars BY <1>8 DEF driveVars
<1> QED BY <1>1, <1>2, <1>3, <1>4, <1>5, <1>6, <1>7, <1>8 DEF DriveNext

(* DriveRefreshCache::poll and the worker's loop: the list served never goes     *)
(* back and only a dropped cache loses its worker, for any number of changes.  *)
THEOREM DrivesNeverGoBack == DriveSpec => NeverGoesBack /\ WorkerStays
<1>1. DriveSpec => []RefreshInv BY RefreshInitInv, RefreshNextInv, PTL DEF DriveSpec
<1>2. RefreshInv /\ [DriveNext]_driveVars => [latest' >= latest]_driveVars
  <2> SUFFICES ASSUME RefreshInv, DriveNext PROVE latest' >= latest OBVIOUS
  <2>1. CASE PollDrives BY <2>1, DriveVersionsAssumption DEF PollDrives, RefreshInv, DriveLists, Empty, Error
  <2>2. CASE ~PollDrives
    <3>1. latest' = latest
      BY <2>2 DEF DriveNext, DrivesChange, DrivesSicken, RefreshDue, RefresherEnds, CollectDrives,
         CollectPanics, Collected, HandsOver, SendFails, DropCache
    <3> QED BY <3>1, DriveVersionsAssumption DEF RefreshInv, DriveLists, Empty
  <2> QED BY <2>1, <2>2
<1>3. DriveSpec => NeverGoesBack BY <1>1, <1>2, PTL DEF DriveSpec, NeverGoesBack
<1>4. [DriveNext]_driveVars => [refresher' = "ended" => refresher = "ended" \/ dropped]_driveVars
  BY DEF DriveNext, DrivesChange, DrivesSicken, RefreshDue, RefresherEnds, CollectDrives,
     CollectPanics, Collected, HandsOver, SendFails, PollDrives, DropCache
<1>5. DriveSpec => WorkerStays BY <1>4, PTL DEF DriveSpec, WorkerStays
<1> QED BY <1>3, <1>5

-----------------------------------------------------------------------------
(* A captured command.                                                       *)

ReaderStates == {"none", "reading", "done", "failed"}
ChildTypeOK ==
    /\ runner \in {"update", "manager", "client"} /\ feeds \in BOOLEAN
    /\ call \in {"feed", "start", "wait", "stdout", "stderr", "collected", "end"}
    /\ child \in {"running", "succeeded", "failed", "killed"}
    /\ heir \in BOOLEAN /\ fed \in Nat \cup {-1}
    /\ pipe \in [Streams -> Nat] /\ written \in [Streams -> Nat] /\ got \in [Streams -> Nat]
    /\ reader \in [Streams -> ReaderStates]

(* A stream's units are in its pipe or with its reader; a reader ends past the  *)
(* cap or when nobody can write any more; before the wait nobody reads.        *)
StreamSound(s) ==
    /\ got[s] + pipe[s] = written[s]
    /\ reader[s] # "done" => got[s] <= OutputCap
    /\ reader[s] = "done" => Clipped(s) \/ (pipe[s] = 0 /\ child # "running" /\ ~heir)
    /\ call \in {"feed", "start"} => reader[s] = "none" /\ got[s] = 0

(* What the caller has waited for, by where it is.                            *)
Settled(s) == Joined(s) /\ ~Loses(s)
CallSound ==
    /\ call \in {"stdout", "stderr", "collected"} => child # "running"
    /\ call = "end" /\ result # "wait error" => child # "running"
    /\ call = "stderr" /\ child # "killed" => Settled("stdout")
    /\ call = "collected" /\ child # "killed" => \A s \in Streams : Settled(s)
    /\ feeds /\ call = "start" => fed = -1
    /\ feeds /\ call \notin {"feed", "start"} => fed \in {-1, InputUnits}
    /\ call # "end" => result = "none"
    /\ result \in {"success", "failure"} => \A s \in Streams : Settled(s) /\ ~Clipped(s)
    /\ result = "success" => fed # -1

CaptureInv == ChildTypeOK /\ (\A s \in Streams : StreamSound(s)) /\ CallSound

LEMMA CaptureInitInv == ChildInit => CaptureInv
<1> SUFFICES ASSUME ChildInit PROVE CaptureInv OBVIOUS
<1> USE ChildAssumption
<1>1. ChildTypeOK BY DEF ChildInit, ChildTypeOK, ReaderStates
<1>2. ASSUME NEW s \in Streams PROVE StreamSound(s)
  BY DEF ChildInit, StreamSound
<1>3. call \in {"feed", "start"} /\ result = "none" /\ (feeds => call = "feed")
  BY DEF ChildInit
<1>4. CallSound BY <1>3 DEF CallSound
<1> QED BY <1>1, <1>2, <1>4 DEF CaptureInv

LEMMA CaptureProcessesInv == CaptureInv /\ Processes => CaptureInv'
<1> SUFFICES ASSUME CaptureInv, Processes PROVE CaptureInv' OBVIOUS
<1> USE ChildAssumption
<1>0. ChildTypeOK /\ (\A s \in Streams : StreamSound(s)) /\ CallSound BY DEF CaptureInv
<1>1. CASE ChildReads \/ Forks \/ ChildExits \/ HeirExits
  <2>1. /\ UNCHANGED <<runner, feeds, call, result, fed, pipe, written, reader, got>>
        /\ child' \in {"running", "succeeded", "failed", "killed"} /\ heir' \in BOOLEAN
        /\ child # "running" => child' = child
        /\ child # "running" /\ ~heir => ~heir'
    BY <1>0, <1>1
    DEF ChildReads, Forks, ChildExits, HeirExits, Fixed, ProcessUnchanged, OutputUnchanged,
        InputUnchanged, ChildTypeOK
  <2>2. ChildTypeOK' BY <1>0, <2>1 DEF ChildTypeOK
  <2>3. \A s \in Streams : StreamSound(s)' BY <1>0, <2>1 DEF StreamSound, Clipped
  <2>4. CallSound' BY <1>0, <2>1 DEF CallSound, Settled, Loses, Joined, Clipped
  <2> QED BY <2>2, <2>3, <2>4 DEF CaptureInv
<1>2. ASSUME NEW s \in Streams, WritesOutput(s) PROVE CaptureInv'
  <2>1. /\ UNCHANGED <<runner, feeds, call, result, fed, reader, got>>
        /\ child = "running" \/ heir
    BY <1>2 DEF WritesOutput, Fixed, InputUnchanged
  <2>2. CASE Broken(s)
    <3>1. /\ UNCHANGED <<pipe, written>> /\ child' \in {"running", "succeeded", "failed", "killed"}
          /\ heir' \in BOOLEAN /\ (child # "running" => child' = child)
          /\ child # "running" /\ ~heir => ~heir'
      BY <1>0, <1>2, <2>2 DEF WritesOutput, ChildTypeOK
    <3>2. ChildTypeOK' BY <1>0, <2>1, <3>1 DEF ChildTypeOK
    <3>3. \A r \in Streams : StreamSound(r)' BY <1>0, <2>1, <3>1 DEF StreamSound, Clipped
    <3>4. CallSound' BY <1>0, <2>1, <3>1 DEF CallSound, Settled, Loses, Joined, Clipped
    <3> QED BY <3>2, <3>3, <3>4 DEF CaptureInv
  <2>3. CASE ~Broken(s)
    <3>1. /\ UNCHANGED <<child, heir>> /\ pipe' = [pipe EXCEPT ![s] = @ + 1]
          /\ written' = [written EXCEPT ![s] = @ + 1] /\ reader[s] # "done"
      BY <1>2, <2>3 DEF WritesOutput, Broken
    <3>2. ChildTypeOK' BY <1>0, <2>1, <3>1 DEF ChildTypeOK
    <3>3. ASSUME NEW r \in Streams PROVE StreamSound(r)'
      <4>1. StreamSound(r) BY <1>0
      <4>2. /\ pipe'[r] = IF r = s THEN pipe[r] + 1 ELSE pipe[r]
            /\ written'[r] = IF r = s THEN written[r] + 1 ELSE written[r]
            /\ pipe[r] \in Nat /\ written[r] \in Nat /\ got[r] \in Nat
        BY <1>0, <3>1 DEF ChildTypeOK
      <4> QED BY <2>1, <3>1, <4>1, <4>2 DEF StreamSound, Clipped
    <3>4. CallSound' BY <1>0, <2>1, <3>1 DEF CallSound, Settled, Loses, Joined, Clipped
    <3> QED BY <3>2, <3>3, <3>4 DEF CaptureInv
  <2> QED BY <2>2, <2>3
<1> QED BY <1>1, <1>2 DEF Processes

LEMMA CaptureReadersInv == CaptureInv /\ Readers => CaptureInv'
<1> SUFFICES ASSUME CaptureInv, NEW s \in Streams,
                    ReadsOutput(s) \/ EndOfStream(s) \/ ReaderFails(s)
             PROVE  CaptureInv'
  BY DEF Readers
<1> USE ChildAssumption
<1>0. ChildTypeOK /\ (\A r \in Streams : StreamSound(r)) /\ CallSound BY DEF CaptureInv
<1>1. /\ UNCHANGED <<runner, feeds, call, result, child, heir, fed, written>>
      /\ reader[s] = "reading"
  BY DEF ReadsOutput, EndOfStream, ReaderFails, Fixed, ProcessUnchanged, InputUnchanged
<1>2. /\ \A r \in Streams : pipe[r] \in Nat /\ got[r] \in Nat /\ written[r] \in Nat
      /\ OutputCap \in Nat
  BY <1>0 DEF ChildTypeOK
<1>3. CASE ReadsOutput(s)
  <2>1. /\ pipe[s] > 0 /\ pipe' = [pipe EXCEPT ![s] = @ - 1] /\ got' = [got EXCEPT ![s] = @ + 1]
        /\ reader' = [reader EXCEPT ![s] = IF got[s] = OutputCap THEN "done" ELSE @]
    BY <1>3 DEF ReadsOutput
  <2>2. ChildTypeOK'
    <3>1. pipe' \in [Streams -> Nat] /\ got' \in [Streams -> Nat] BY <1>0, <1>2, <2>1 DEF ChildTypeOK
    <3>2. reader' \in [Streams -> ReaderStates] BY <1>0, <2>1 DEF ChildTypeOK, ReaderStates
    <3> QED BY <1>0, <1>1, <3>1, <3>2 DEF ChildTypeOK
  <2>3. ASSUME NEW r \in Streams PROVE StreamSound(r)' /\ (Settled(r) => Settled(r)')
    <3>1. StreamSound(r) /\ StreamSound(s) BY <1>0
    <3>2. /\ pipe'[r] = IF r = s THEN pipe[r] - 1 ELSE pipe[r]
          /\ got'[r] = IF r = s THEN got[r] + 1 ELSE got[r]
          /\ reader'[r] = IF r = s THEN IF got[s] = OutputCap THEN "done" ELSE "reading"
                          ELSE reader[r]
      BY <1>0, <1>1, <2>1 DEF ChildTypeOK
    <3> QED BY <1>1, <1>2, <2>1, <3>1, <3>2 DEF StreamSound, Clipped, Settled, Loses, Joined
  <2>4. CallSound'
    <3>1. result \notin {"success", "failure"} BY <1>0, <1>1 DEF CallSound, Settled, Joined
    <3>2. "stdout" \in Streams BY DEF Streams
    <3> QED BY <1>0, <1>1, <2>3, <3>1, <3>2 DEF CallSound
  <2> QED BY <2>2, <2>3, <2>4 DEF CaptureInv
<1>4. CASE EndOfStream(s)
  <2>1. /\ pipe[s] = 0 /\ UNCHANGED <<pipe, got>> /\ child # "running" /\ ~heir
        /\ reader' = [reader EXCEPT ![s] = "done"]
    BY <1>4 DEF EndOfStream
  <2>2. ChildTypeOK'
    <3>1. reader' \in [Streams -> ReaderStates] BY <1>0, <2>1 DEF ChildTypeOK, ReaderStates
    <3> QED BY <1>0, <1>1, <2>1, <3>1 DEF ChildTypeOK
  <2>3. ASSUME NEW r \in Streams PROVE StreamSound(r)' /\ (Settled(r) => Settled(r)')
    <3>1. StreamSound(r) /\ StreamSound(s) BY <1>0
    <3>2. reader'[r] = IF r = s THEN "done" ELSE reader[r] BY <1>0, <2>1 DEF ChildTypeOK
    <3> QED BY <1>1, <1>2, <2>1, <3>1, <3>2 DEF StreamSound, Clipped, Settled, Loses, Joined
  <2>4. CallSound'
    <3>1. result \notin {"success", "failure"} BY <1>0, <1>1 DEF CallSound, Settled, Joined
    <3>2. "stdout" \in Streams BY DEF Streams
    <3> QED BY <1>0, <1>1, <2>3, <3>1, <3>2 DEF CallSound
  <2> QED BY <2>2, <2>3, <2>4 DEF CaptureInv
<1>5. CASE ReaderFails(s)
  <2>1. UNCHANGED <<pipe, got>> /\ reader' = [reader EXCEPT ![s] = "failed"]
    BY <1>5 DEF ReaderFails
  <2>2. ChildTypeOK'
    <3>1. reader' \in [Streams -> ReaderStates] BY <1>0, <2>1 DEF ChildTypeOK, ReaderStates
    <3> QED BY <1>0, <1>1, <2>1, <3>1 DEF ChildTypeOK
  <2>3. ASSUME NEW r \in Streams PROVE StreamSound(r)' /\ (Settled(r) => Settled(r)')
    <3>1. StreamSound(r) /\ StreamSound(s) BY <1>0
    <3>2. reader'[r] = IF r = s THEN "failed" ELSE reader[r] BY <1>0, <2>1 DEF ChildTypeOK
    <3> QED BY <1>1, <1>2, <2>1, <3>1, <3>2 DEF StreamSound, Clipped, Settled, Loses, Joined
  <2>4. CallSound'
    <3>1. result \notin {"success", "failure"} BY <1>0, <1>1 DEF CallSound, Settled, Joined
    <3>2. "stdout" \in Streams BY DEF Streams
    <3> QED BY <1>0, <1>1, <2>3, <3>1, <3>2 DEF CallSound
  <2> QED BY <2>2, <2>3, <2>4 DEF CaptureInv
<1> QED BY <1>3, <1>4, <1>5

(* The caller changes no stream but where it starts the readers.              *)
LEMMA CallerKeeps ==
    ASSUME CaptureInv, UNCHANGED <<runner, feeds, heir, fed, pipe, written, reader, got>>,
           child' = child \/ (child = "running" /\ child' = "killed"),
           call' \in {"wait", "stdout", "stderr", "collected", "end"},
           call \notin {"feed", "start"}, CallSound'
    PROVE  CaptureInv'
<1>0. ChildTypeOK /\ (\A s \in Streams : StreamSound(s)) BY DEF CaptureInv
<1>1. ChildTypeOK' BY <1>0 DEF ChildTypeOK
<1>2. \A s \in Streams : StreamSound(s)' BY <1>0 DEF StreamSound, Clipped
<1> QED BY <1>1, <1>2 DEF CaptureInv

LEMMA CaptureCallerInv == CaptureInv /\ Caller => CaptureInv'
<1> SUFFICES ASSUME CaptureInv, Caller PROVE CaptureInv' OBVIOUS
<1> USE ChildAssumption
<1>0. ChildTypeOK /\ (\A s \in Streams : StreamSound(s)) /\ CallSound BY DEF CaptureInv
<1>1. CASE Feed
  <2>1. /\ UNCHANGED <<runner, feeds, child, heir, result, pipe, written, reader, got>>
        /\ call = "feed" /\ call' \in {"feed", "start"} /\ fed' \in Nat \cup {-1}
        /\ call' = "start" => fed' = -1
    BY <1>0, <1>1
    DEF Feed, Pass, Fixed, ProcessUnchanged, OutputUnchanged, ChildTypeOK
  <2>2. ChildTypeOK' BY <1>0, <2>1 DEF ChildTypeOK
  <2>3. \A s \in Streams : StreamSound(s)' BY <1>0, <2>1 DEF StreamSound, Clipped
  <2>4. CallSound' BY <1>0, <2>1 DEF CallSound
  <2> QED BY <2>2, <2>3, <2>4 DEF CaptureInv
<1>2. CASE StartReaders
  <2>1. /\ UNCHANGED <<runner, feeds, child, heir, fed, result, pipe, written, got>>
        /\ call' = "wait" /\ (call = "start" \/ (call = "feed" /\ fed = InputUnits))
        /\ reader' = [s \in Streams |-> "reading"]
    BY <1>2 DEF StartReaders, Pass, Fixed, ProcessUnchanged, InputUnchanged
  <2>2. ChildTypeOK' BY <1>0, <2>1 DEF ChildTypeOK, ReaderStates
  <2>3. ASSUME NEW s \in Streams PROVE StreamSound(s)'
    <3>1. StreamSound(s) /\ reader'[s] = "reading" BY <1>0, <2>1
    <3> QED BY <2>1, <3>1 DEF StreamSound
  <2>4. CallSound' BY <1>0, <2>1 DEF CallSound
  <2> QED BY <2>2, <2>3, <2>4 DEF CaptureInv
<1>3. CASE SeesExit
  <2>1. CallSound' BY <1>0, <1>3
    DEF CallSound, SeesExit, Exited, Pass, Fixed, ProcessUnchanged, InputUnchanged,
        OutputUnchanged, Settled, Loses, Joined, Clipped
  <2> QED BY <1>3, <2>1, CallerKeeps
    DEF SeesExit, Pass, Fixed, ProcessUnchanged, InputUnchanged, OutputUnchanged
<1>7. CASE WaitFails
  <2>1. CallSound' BY <1>0, <1>7
    DEF CallSound, WaitFails, Return, Fixed, ProcessUnchanged, InputUnchanged, OutputUnchanged,
        Settled, Loses, Joined, Clipped
  <2> QED BY <1>7, <2>1, CallerKeeps
    DEF WaitFails, Return, Fixed, ProcessUnchanged, InputUnchanged, OutputUnchanged
<1>4. CASE Deadline
  <2>1. CallSound' BY <1>0, <1>4
    DEF CallSound, Deadline, Pass, Return, Fixed, InputUnchanged, OutputUnchanged,
        Settled, Loses, Joined, Clipped
  <2> QED BY <1>4, <2>1, CallerKeeps
    DEF Deadline, Pass, Return, Fixed, InputUnchanged, OutputUnchanged
<1>5. CASE Collects
  <2>1. /\ UNCHANGED <<runner, feeds, child, heir, fed, pipe, written, reader, got>>
        /\ call = "collected" /\ call' = "end" /\ result' = Answer
    BY <1>5 DEF Collects, Return, Fixed, ProcessUnchanged, InputUnchanged, OutputUnchanged
  <2>2. /\ Answer \in {"success", "failure"} =>
              child # "killed" /\ \A s \in Streams : ~Clipped(s)
        /\ Answer = "success" => fed # -1
    <3>1. CASE child = "killed" BY <3>1 DEF Answer
    <3>2. CASE child # "killed" /\ \E s \in Streams : Clipped(s) BY <3>2 DEF Answer
    <3>3. CASE child # "killed" /\ ~\E s \in Streams : Clipped(s) BY <3>3 DEF Answer
    <3> QED BY <3>1, <3>2, <3>3
  <2>3. CallSound' BY <1>0, <2>1, <2>2 DEF CallSound, Settled, Loses, Joined, Clipped
  <2> QED BY <2>1, <2>3, CallerKeeps
<1>6. ASSUME NEW s \in Streams, Settle(s) \/ Abandons(s) PROVE CaptureInv'
  <2>1. /\ UNCHANGED <<runner, feeds, child, heir, fed, pipe, written, reader, got>>
        /\ call = s
        /\ \/ call' = After(s) /\ result' = result /\ (Settled(s) \/ child = "killed")
           \/ call' = "end" /\ result' \in {"read error", "too large", "unsettled"}
    BY <1>6 DEF Settle, Settled, Abandons, Pass, Return, Fixed, ProcessUnchanged, InputUnchanged, OutputUnchanged
  <2>2. s \in {"stdout", "stderr"} BY DEF Streams
  <2>3. CallSound'
    <3>1. CASE call' = "end" /\ result' \in {"read error", "too large", "unsettled"}
      BY <1>0, <2>1, <2>2, <3>1 DEF CallSound, Settled, Loses, Joined, Clipped
    <3>2. CASE call' = After(s) /\ result' = result /\ (Settled(s) \/ child = "killed")
      BY <1>0, <2>1, <2>2, <3>2 DEF CallSound, Settled, Loses, Joined, Clipped, After, Streams
    <3> QED BY <2>1, <3>1, <3>2
  <2> QED BY <2>1, <2>2, <2>3, CallerKeeps DEF After
<1> QED BY <1>1, <1>2, <1>3, <1>4, <1>5, <1>6, <1>7 DEF Caller

LEMMA CaptureNextInv == CaptureInv /\ [ChildNext]_childVars => CaptureInv'
<1> SUFFICES ASSUME CaptureInv, [ChildNext]_childVars PROVE CaptureInv' OBVIOUS
<1>1. CASE UNCHANGED childVars
  <2>0. ChildTypeOK /\ (\A s \in Streams : StreamSound(s)) /\ CallSound BY DEF CaptureInv
  <2>1. ChildTypeOK' BY <1>1, <2>0 DEF childVars, ChildTypeOK
  <2>2. \A s \in Streams : StreamSound(s)' BY <1>1, <2>0 DEF childVars, StreamSound, Clipped
  <2>3. CallSound' BY <1>1, <2>0 DEF childVars, CallSound, Settled, Loses, Joined, Clipped
  <2> QED BY <2>1, <2>2, <2>3 DEF CaptureInv
<1> QED
  BY <1>1, CaptureProcessesInv, CaptureReadersInv, CaptureCallerInv DEF ChildNext

(* run_child_with_timeout_capped_both and its two sisters: an exit status comes   *)
(* with all that was written, but for a stream whose reader failed in the        *)
(* client's version, and with all that was to be fed; and no call leaves the     *)
(* child unreaped but one that could not ask about it; for any pipe size, cap,   *)
(* input and output.                                                         *)
THEOREM CapturesAreWhole == ChildSpec => [](CaptureWhole /\ CaptureReaped)
<1>1. CaptureInv => CaptureWhole /\ CaptureReaped
  <2> SUFFICES ASSUME CaptureInv PROVE CaptureWhole /\ CaptureReaped OBVIOUS
  <2>0. ChildTypeOK /\ (\A s \in Streams : StreamSound(s)) /\ CallSound BY DEF CaptureInv
  <2>1. CaptureReaped BY <2>0 DEF CaptureReaped, CallSound
  <2>2. ASSUME result \in {"success", "failure"}
        PROVE  /\ \A s \in Streams : CutShort(s) \/ (got[s] = written[s] /\ ~heir)
               /\ result = "success" /\ feeds => fed = InputUnits
    <3>1. call = "end" /\ \A s \in Streams : Settled(s) /\ ~Clipped(s)
      BY <2>0, <2>2 DEF CallSound
    <3>2. ASSUME NEW s \in Streams, ~CutShort(s) PROVE got[s] = written[s] /\ ~heir
      <4>1. reader[s] = "done" BY <3>1, <3>2 DEF Settled, Joined, Loses, CutShort
      <4>2. pipe[s] = 0 /\ ~heir /\ got[s] + pipe[s] = written[s] /\ got[s] \in Nat
        BY <2>0, <3>1, <4>1 DEF StreamSound, ChildTypeOK
      <4> QED BY <4>2
    <3>3. result = "success" /\ feeds => fed = InputUnits BY <2>0, <3>1 DEF CallSound
    <3> QED BY <3>2, <3>3
  <2> QED BY <2>1, <2>2 DEF CaptureWhole
<1> QED BY CaptureInitInv, CaptureNextInv, <1>1, PTL DEF ChildSpec
=============================================================================

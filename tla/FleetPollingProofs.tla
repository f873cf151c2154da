------------------------- MODULE FleetPollingProofs -------------------------
(***************************************************************************)
(* Proofs about the client daemon's metrics plane, for any configurations,  *)
(* any targets and spellings of them, and any channel capacities.           *)
(***************************************************************************)
EXTENDS FleetPolling, SequenceTheorems, TLAPS

(* While the engine runs nobody cancels the poll task.                       *)
EngineOwnsTasks == engine = "running" => ~tasks

(* A poll task that waits has delivered its generation.                      *)
WaitingDelivered ==
    engine = "running" /\ poller.pc \in {"waiting", "ended"} =>
        poller.generation = Delivered

(* A generation that is being polled has a number.                           *)
PollingCounted == poller.pc = "polling" => 0 < poller.generation

-----------------------------------------------------------------------------
(* Types of what the steps compute.                                         *)

LEMMA ConstantTypes ==
    /\ MaxConcurrent \in Nat \ {0} /\ CommandCapacity \in Nat \ {0}
    /\ BatchCapacity \in Nat \ {0} /\ MaxGeneration \in Nat \ {0}
    /\ None \notin Snapshots
    /\ \A c \in Configs : c \in Seq([id : Ids, endpoint : Endpoints])
  BY ConstantsAssumption DEF Snapshots

LEMMA AdvanceType ==
    ASSUME NEW g \in 0 .. MaxGeneration
    PROVE  Advance(g) \in 1 .. MaxGeneration /\ Follows(g, Advance(g))
  BY ConstantTypes DEF Advance, Follows

LEMMA FromEntryType ==
    ASSUME NEW entry \in [id : Ids, endpoint : Endpoints]
    PROVE  FromEntry(entry) \in Systems
  BY DEF FromEntry, Systems

LEMMA AppliedType ==
    ASSUME NEW s \in Systems, NEW r \in Results
    PROVE  /\ Applied(s, r) \in Systems
           /\ Applied(s, r).id = s.id /\ Applied(s, r).endpoint = s.endpoint
<1>1. <<Host[r.endpoint], r.outcome>> \in Snapshots \/ r.outcome \notin Vals
  BY DEF Snapshots, Results
<1>2. r.outcome \in Vals \/ r.outcome \in Failed
  BY DEF Results
<1> QED BY <1>1, <1>2 DEF Applied, Systems

LEMMA AppliedAllType ==
    ASSUME NEW systems \in Seq(Systems), NEW results \in Seq(Results)
    PROVE  /\ AppliedAll(systems, results) \in Seq(Systems)
           /\ DOMAIN AppliedAll(systems, results) = DOMAIN systems
           /\ \A k \in DOMAIN systems :
                 /\ AppliedAll(systems, results)[k].id = systems[k].id
                 /\ AppliedAll(systems, results)[k].endpoint = systems[k].endpoint
                 /\ \/ AppliedAll(systems, results)[k] = systems[k]
                    \/ \E r \in Results :
                          /\ Answers(r, systems[k])
                          /\ AppliedAll(systems, results)[k] = Applied(systems[k], r)
<1>1. ASSUME NEW k \in DOMAIN systems
      PROVE  /\ systems[k] \in Systems
             /\ \/ AppliedAll(systems, results)[k] = systems[k]
                \/ \E r \in Results :
                      /\ Answers(r, systems[k])
                      /\ AppliedAll(systems, results)[k] = Applied(systems[k], r)
  <2>1. systems[k] \in Systems
    BY <1>1, ElementOfSeq
  <2>2. \A r \in ToSet(results) : r \in Results
    BY ElementOfSeq DEF ToSet
  <2>3. CASE \E r \in ToSet(results) : Answers(r, systems[k])
    <3> DEFINE chosen == CHOOSE r \in ToSet(results) : Answers(r, systems[k])
    <3>1. chosen \in ToSet(results) /\ Answers(chosen, systems[k])
      BY <2>3
    <3>2. AppliedAll(systems, results)[k] = Applied(systems[k], chosen)
      BY <2>3 DEF AppliedAll
    <3>3. chosen \in Results
      BY <3>1, <2>2
    <3> HIDE DEF chosen
    <3> QED BY <2>1, <3>1, <3>2, <3>3
  <2>4. CASE ~ \E r \in ToSet(results) : Answers(r, systems[k])
    BY <2>1, <2>4 DEF AppliedAll
  <2> QED BY <2>3, <2>4
<1>2. DOMAIN AppliedAll(systems, results) = DOMAIN systems
  BY DEF AppliedAll
<1>3. ASSUME NEW k \in DOMAIN systems
      PROVE  /\ AppliedAll(systems, results)[k] \in Systems
             /\ AppliedAll(systems, results)[k].id = systems[k].id
             /\ AppliedAll(systems, results)[k].endpoint = systems[k].endpoint
  BY <1>1, AppliedType
<1>4. AppliedAll(systems, results) \in Seq(Systems)
  <2>1. DOMAIN systems = 1 .. Len(systems) /\ Len(systems) \in Nat
    BY LenProperties
  <2>2. AppliedAll(systems, results) =
          [k \in 1 .. Len(systems) |-> AppliedAll(systems, results)[k]]
    BY <2>1 DEF AppliedAll
  <2> QED BY <2>1, <2>2, <1>3, IsASeq
<1> QED BY <1>1, <1>2, <1>3, <1>4

LEMMA ReconciledType ==
    ASSUME NEW systems \in Seq(Systems), NEW config \in Configs
    PROVE  /\ Reconciled(systems, config) \in Seq(Systems)
           /\ DOMAIN Reconciled(systems, config) = DOMAIN config
           /\ \A k \in DOMAIN config :
                 /\ Reconciled(systems, config)[k].id = config[k].id
                 /\ Reconciled(systems, config)[k].endpoint = config[k].endpoint
                 /\ \/ Reconciled(systems, config)[k] = FromEntry(config[k])
                    \/ \E s \in ToSet(systems) :
                          /\ Retained(s, config[k])
                          /\ Reconciled(systems, config)[k] =
                                [s EXCEPT !.endpoint = config[k].endpoint]
<1>1. config \in Seq([id : Ids, endpoint : Endpoints])
  BY ConstantTypes
<1>2. DOMAIN config = 1 .. Len(config) /\ Len(config) \in Nat
  BY <1>1, LenProperties
<1>3. ASSUME NEW k \in DOMAIN config
      PROVE  /\ Reconciled(systems, config)[k] \in Systems
             /\ Reconciled(systems, config)[k].id = config[k].id
             /\ Reconciled(systems, config)[k].endpoint = config[k].endpoint
             /\ \/ Reconciled(systems, config)[k] = FromEntry(config[k])
                \/ \E s \in ToSet(systems) :
                      /\ Retained(s, config[k])
                      /\ Reconciled(systems, config)[k] =
                            [s EXCEPT !.endpoint = config[k].endpoint]
  <2>1. config[k] \in [id : Ids, endpoint : Endpoints]
    BY <1>1, <1>2, <1>3, ElementOfSeq
  <2>2. \A s \in ToSet(systems) : s \in Systems
    BY ElementOfSeq DEF ToSet
  <2>3. CASE \E s \in ToSet(systems) : Retained(s, config[k])
    <3> DEFINE chosen == CHOOSE s \in ToSet(systems) : Retained(s, config[k])
    <3>1. chosen \in ToSet(systems) /\ Retained(chosen, config[k])
      BY <2>3
    <3>2. Reconciled(systems, config)[k] = [chosen EXCEPT !.endpoint = config[k].endpoint]
      BY <2>3 DEF Reconciled
    <3>3. chosen \in Systems
      BY <3>1, <2>2
    <3> HIDE DEF chosen
    <3>4. [chosen EXCEPT !.endpoint = config[k].endpoint] \in Systems
      BY <3>3, <2>1 DEF Systems
    <3>5. chosen.id = config[k].id
      BY <3>1 DEF Retained
    <3>6. /\ [chosen EXCEPT !.endpoint = config[k].endpoint].id = chosen.id
          /\ [chosen EXCEPT !.endpoint = config[k].endpoint].endpoint = config[k].endpoint
      BY <3>3 DEF Systems
    <3> QED BY <3>1, <3>2, <3>4, <3>5, <3>6
  <2>4. CASE ~ \E s \in ToSet(systems) : Retained(s, config[k])
    <3>1. Reconciled(systems, config)[k] = FromEntry(config[k])
      BY <2>4 DEF Reconciled
    <3> QED BY <3>1, <2>1, FromEntryType DEF FromEntry
  <2> QED BY <2>3, <2>4
<1>4. DOMAIN Reconciled(systems, config) = DOMAIN config
  BY DEF Reconciled
<1>5. Reconciled(systems, config) \in Seq(Systems)
  <2>1. Reconciled(systems, config) =
          [k \in 1 .. Len(config) |-> Reconciled(systems, config)[k]]
    BY <1>2 DEF Reconciled
  <2> QED BY <1>2, <1>3, <2>1, IsASeq
<1> QED BY <1>3, <1>4, <1>5

LEMMA InitialFleetType ==
    ASSUME NEW config \in Configs \cup {<<>>}
    PROVE  /\ InitialFleet(config) \in [systems : Seq(Systems), last : 0 .. MaxGeneration,
                                        reloadError : BOOLEAN]
           /\ ConfigOf(InitialFleet(config).systems)
           /\ \A s \in ToSet(InitialFleet(config).systems) :
                 s.latest = None /\ s.reach = "pending"
           /\ InitialFleet(config).last = 0
<1> DEFINE systems == [k \in DOMAIN config |-> FromEntry(config[k])]
<1>1. config \in Seq([id : Ids, endpoint : Endpoints])
  BY ConstantTypes, EmptySeq
<1>2. DOMAIN config = 1 .. Len(config) /\ Len(config) \in Nat
  BY <1>1, LenProperties
<1>3. \A k \in 1 .. Len(config) : FromEntry(config[k]) \in Systems
  BY <1>1, <1>2, ElementOfSeq, FromEntryType
<1>4. systems \in Seq(Systems)
  <2>1. systems = [k \in 1 .. Len(config) |-> FromEntry(config[k])]
    BY <1>2
  <2> QED BY <1>2, <1>3, <2>1, IsASeq
<1>5. ConfigOf(config)
  BY ConstantsAssumption DEF ConfigOf
<1>6. DOMAIN systems = DOMAIN config /\ \A k \in DOMAIN config : systems[k].id = config[k].id
  BY DEF FromEntry
<1>7. ConfigOf(systems)
  BY <1>5, <1>6 DEF ConfigOf
<1>8. \A s \in ToSet(systems) : s.latest = None /\ s.reach = "pending"
  BY DEF ToSet, FromEntry
<1>9. InitialFleet(config) = [systems |-> systems, last |-> 0, reloadError |-> FALSE]
  BY DEF InitialFleet
<1>10. 0 \in 0 .. MaxGeneration
  BY ConstantTypes
<1> HIDE DEF systems
<1> QED BY <1>4, <1>7, <1>8, <1>9, <1>10

PollerTypes == [pc : {"polling", "waiting", "ended", "dead"}, list : Configs,
                generation : 0 .. MaxGeneration, polls : Seq(Polls)]

LEMMA GenerationType ==
    ASSUME NEW list \in Configs, NEW g \in 0 .. MaxGeneration
    PROVE  /\ Generation(list, g) \in PollerTypes
           /\ Generation(list, g).pc = "polling"
           /\ Generation(list, g).list = list
           /\ Generation(list, g).generation = Advance(g)
           /\ Len(Generation(list, g).polls) = Len(list)
<1> DEFINE polls == [i \in DOMAIN list |-> "queued"]
<1>1. list \in Seq([id : Ids, endpoint : Endpoints])
  BY ConstantTypes
<1>2. DOMAIN list = 1 .. Len(list) /\ Len(list) \in Nat
  BY <1>1, LenProperties
<1>3. "queued" \in Polls
  BY DEF Polls
<1>4. polls \in Seq(Polls) /\ Len(polls) = Len(list)
  <2>1. polls = [i \in 1 .. Len(list) |-> "queued"]
    BY <1>2
  <2>2. polls \in Seq(Polls)
    BY <1>2, <1>3, <2>1, IsASeq
  <2> QED BY <1>2, <2>1, <2>2, LenProperties
<1>5. Generation(list, g) = [pc |-> "polling", list |-> list, generation |-> Advance(g),
                             polls |-> polls]
  BY DEF Generation
<1>6. Advance(g) \in 0 .. MaxGeneration
  BY AdvanceType
<1> HIDE DEF polls
<1> QED BY <1>4, <1>5, <1>6 DEF PollerTypes

LEMMA WaitingType ==
    ASSUME NEW list \in Configs, NEW g \in 0 .. MaxGeneration
    PROVE  /\ Waiting(list, g) \in PollerTypes
           /\ Waiting(list, g).pc = "waiting"
           /\ Waiting(list, g).list = list
           /\ Waiting(list, g).generation = g
  BY DEF Waiting, PollerTypes

LEMMA PollEndsType ==
    ASSUME poller \in PollerTypes, NEW i \in DOMAIN poller.polls, NEW outcome \in Polls,
           PollEnds(i, outcome)
    PROVE  /\ poller' \in PollerTypes
           /\ poller'.pc = poller.pc /\ poller'.list = poller.list
           /\ poller'.generation = poller.generation
           /\ Len(poller'.polls) = Len(poller.polls)
<1> DEFINE polls == [poller.polls EXCEPT ![i] = outcome]
<1>1. poller.polls \in Seq(Polls)
  BY DEF PollerTypes
<1>2. i \in 1 .. Len(poller.polls)
  BY <1>1, LenProperties
<1>3. polls \in Seq(Polls) /\ Len(polls) = Len(poller.polls)
  BY <1>1, <1>2, ExceptSeq
<1>4. poller' = [poller EXCEPT !.polls = polls]
  BY DEF PollEnds, PollerTypes
<1> HIDE DEF polls
<1> QED BY <1>3, <1>4 DEF PollerTypes

LEMMA BatchType ==
    ASSUME TypeOK, Complete, 0 < poller.generation
    PROVE  Batch \in Batches /\ Batch.generation = poller.generation
<1> DEFINE results == [i \in DOMAIN poller.list |->
                         [id |-> poller.list[i].id, endpoint |-> poller.list[i].endpoint,
                          outcome |-> poller.polls[i]]]
<1>1. poller.list \in Seq([id : Ids, endpoint : Endpoints])
  BY ConstantTypes DEF TypeOK
<1>2. DOMAIN poller.list = 1 .. Len(poller.list) /\ Len(poller.list) \in Nat
  BY <1>1, LenProperties
<1>3. poller.polls \in Seq(Polls) /\ Len(poller.polls) = Len(poller.list)
  BY DEF TypeOK, Complete
<1>4. ASSUME NEW i \in 1 .. Len(poller.list)
      PROVE  [id |-> poller.list[i].id, endpoint |-> poller.list[i].endpoint,
              outcome |-> poller.polls[i]] \in Results
  <2>1. poller.list[i] \in [id : Ids, endpoint : Endpoints]
    BY <1>1, <1>4, ElementOfSeq
  <2>2. i \in DOMAIN poller.polls /\ poller.polls[i] \in Polls
    BY <1>3, <1>4, ElementOfSeq, LenProperties
  <2>3. poller.polls[i] \in Vals \cup Failed
    BY <2>2 DEF Complete, Ended, Polls
  <2> QED BY <2>1, <2>3 DEF Results
<1>5. results \in Seq(Results)
  <2>1. results = [i \in 1 .. Len(poller.list) |->
                     [id |-> poller.list[i].id, endpoint |-> poller.list[i].endpoint,
                      outcome |-> poller.polls[i]]]
    BY <1>2
  <2> QED BY <1>2, <1>4, <2>1, IsASeq
<1>6. Batch = [generation |-> poller.generation, results |-> results]
  BY DEF Batch
<1>7. poller.generation \in 1 .. MaxGeneration
  BY ConstantTypes DEF TypeOK
<1> HIDE DEF results
<1> QED BY <1>5, <1>6, <1>7 DEF Batches

LEMMA ListAfterType ==
    ASSUME NEW list \in Configs, NEW command \in Commands
    PROVE  /\ ListAfter(list, command) \in Configs
           /\ command = Refresh => ListAfter(list, command) = list
           /\ command # Refresh => command = Replace(ListAfter(list, command))
<1>1. CASE command = Refresh
  BY <1>1 DEF ListAfter
<1>2. CASE command # Refresh
  <2>1. PICK c \in Configs : command = Replace(c)
    BY <1>2 DEF Commands
  <2>2. command[2] = c
    BY <2>1 DEF Replace
  <2> QED BY <1>2, <2>1, <2>2 DEF ListAfter
<1> QED BY <1>1, <1>2

LEMMA ReplaceInjective ==
    ASSUME NEW c, NEW d
    PROVE  /\ Replace(c) # Refresh
           /\ Replace(c) = Replace(d) => c = d
<1>1. Replace(c)[1] = "replace" /\ Refresh[1] = "refresh"
  BY DEF Replace, Refresh
<1>2. Replace(c)[2] = c /\ Replace(d)[2] = d
  BY DEF Replace
<1> QED BY <1>1, <1>2

LEMMA RequestType ==
    ASSUME TypeOK, NEW command \in Commands, Request(command)
    PROVE  commands' \in Seq(Commands) /\ Len(commands') <= CommandCapacity
<1>1. commands \in Seq(Commands) /\ Len(commands) \in Nat /\ CommandCapacity \in Nat
  BY LenProperties, ConstantTypes DEF TypeOK
<1>2. CASE Fits
  BY <1>1, <1>2, AppendProperties DEF Request, Fits
<1>3. CASE ~Fits
  BY <1>1, <1>3 DEF Request, TypeOK
<1> QED BY <1>2, <1>3

-----------------------------------------------------------------------------
(* Type correctness, one lemma per step.                                     *)

TypeInv == TypeOK /\ PollingCounted

FleetTypes == [systems : Seq(Systems), last : 0 .. MaxGeneration, reloadError : BOOLEAN]

LEMMA InitTypes ==
    ASSUME Init
    PROVE  TypeInv
<1>1. PICK config \in Configs :
        /\ fleet = InitialFleet(config)
        /\ poller = IF config = <<>> THEN Waiting(config, 0) ELSE Generation(config, 0)
  BY DEF Init
<1>2. 0 \in 0 .. MaxGeneration
  BY ConstantTypes
<1>3. fleet \in FleetTypes /\ ConfigOf(fleet.systems)
  BY <1>1, InitialFleetType DEF FleetTypes
<1>4. Waiting(config, 0) \in PollerTypes /\ Waiting(config, 0).pc = "waiting"
  BY <1>2, WaitingType
<1>5. /\ Generation(config, 0) \in PollerTypes
      /\ Len(Generation(config, 0).polls) = Len(Generation(config, 0).list)
      /\ 0 < Generation(config, 0).generation
  BY <1>2, GenerationType, AdvanceType, ConstantTypes
<1>6. /\ poller \in PollerTypes
      /\ poller.pc = "polling" =>
            Len(poller.polls) = Len(poller.list) /\ 0 < poller.generation
  BY <1>1, <1>4, <1>5
<1>7. /\ commands \in Seq(Commands) /\ Len(commands) <= CommandCapacity
      /\ batches \in Seq(Batches) /\ Len(batches) <= BatchCapacity
  BY ConstantTypes, EmptySeq DEF Init
<1> QED BY <1>3, <1>6, <1>7 DEF Init, TypeInv, TypeOK, PollingCounted, FleetTypes, PollerTypes

(* The steps of a poll touch only the poll task.                             *)
PollStep == Acquire \/ Answer \/ CancelPoll
LEMMA PollStepTypes ==
    ASSUME TypeInv, PollStep
    PROVE  /\ TypeInv'
           /\ poller.pc = "polling" /\ poller'.pc = "polling"
           /\ poller'.list = poller.list /\ poller'.generation = poller.generation
           /\ UNCHANGED <<fleet, doc, commands, batches, engine, cancel, tasks, refused>>
<1>1. /\ poller.pc = "polling"
      /\ UNCHANGED <<fleet, doc, commands, batches, engine, cancel, tasks, refused>>
  BY DEF PollStep, Acquire, Answer, CancelPoll
<1>2. "polling" \in Polls /\ "cancelled" \in Polls /\ Vals \cup Failed \subseteq Polls
  BY DEF Polls, Failed
<1>3. PICK i \in DOMAIN poller.polls, outcome \in Polls : PollEnds(i, outcome)
  BY <1>2 DEF PollStep, Acquire, Answer, CancelPoll
<1>4. poller \in PollerTypes /\ Len(poller.polls) = Len(poller.list)
  BY <1>1 DEF TypeInv, TypeOK, PollerTypes
<1>5. /\ poller' \in PollerTypes
      /\ poller'.pc = poller.pc /\ poller'.list = poller.list
      /\ poller'.generation = poller.generation
      /\ Len(poller'.polls) = Len(poller.polls)
  BY <1>3, <1>4, PollEndsType
<1>6. PollingCounted'
  BY <1>1, <1>5 DEF TypeInv, PollingCounted
<1>7. TypeOK'
  BY <1>1, <1>4, <1>5 DEF TypeInv, TypeOK, PollerTypes
<1> QED BY <1>1, <1>5, <1>6, <1>7 DEF TypeInv

LEMMA DeliverTypes ==
    ASSUME TypeInv, Deliver
    PROVE  /\ TypeInv'
           /\ batches' \in Seq(Batches) /\ Len(batches') = Len(batches) + 1
           /\ \A k \in 1 .. Len(batches) : batches'[k] = batches[k]
           /\ batches'[Len(batches) + 1].generation = poller.generation
           /\ poller' \in PollerTypes /\ poller'.pc = "waiting"
           /\ poller'.list = poller.list /\ poller'.generation = poller.generation
<1>1. Complete /\ TypeOK /\ poller.pc = "polling" /\ 0 < poller.generation
  BY DEF Deliver, TypeInv, PollingCounted, Complete
<1>2. Batch \in Batches /\ Batch.generation = poller.generation
  BY <1>1, BatchType
<1>3. batches \in Seq(Batches) /\ Len(batches) \in Nat /\ BatchCapacity \in Nat
  BY <1>1, LenProperties, ConstantTypes DEF TypeOK
<1>4. /\ batches' \in Seq(Batches) /\ Len(batches') = Len(batches) + 1
      /\ \A k \in 1 .. Len(batches) : batches'[k] = batches[k]
      /\ batches'[Len(batches) + 1] = Batch
  BY <1>2, <1>3, AppendProperties DEF Deliver
<1>5. poller.list \in Configs /\ poller.generation \in 0 .. MaxGeneration
  BY <1>1 DEF TypeOK
<1>6. /\ poller' \in PollerTypes /\ poller'.pc = "waiting"
      /\ poller'.list = poller.list /\ poller'.generation = poller.generation
  BY <1>5, WaitingType DEF Deliver
<1>7. Len(batches') <= BatchCapacity
  BY <1>3, <1>4 DEF Deliver
<1>8. TypeOK' /\ PollingCounted'
  BY <1>1, <1>4, <1>6, <1>7 DEF Deliver, TypeOK, PollerTypes, PollingCounted
<1> QED BY <1>2, <1>4, <1>6, <1>8 DEF TypeInv

LEMMA TakeCommandTypes ==
    ASSUME TypeInv, TakeCommand
    PROVE  /\ TypeInv'
           /\ Head(commands) \in Commands
           /\ poller'.list = ListAfter(poller.list, Head(commands))
           /\ \/ poller'.pc = "waiting" /\ poller'.generation = poller.generation
              \/ poller'.pc = "polling" /\ poller'.generation = Advance(poller.generation)
<1> DEFINE list == ListAfter(poller.list, Head(commands))
<1>1. TypeOK /\ commands \in Seq(Commands) /\ Len(commands) \in Nat /\ commands # <<>>
  BY LenProperties DEF TypeInv, TypeOK, TakeCommand
<1>2. /\ Head(commands) \in Commands
      /\ Tail(commands) \in Seq(Commands)
      /\ Len(Tail(commands)) = Len(commands) - 1
  BY <1>1, HeadTailProperties
<1>3. poller.list \in Configs /\ poller.generation \in 0 .. MaxGeneration
  BY <1>1 DEF TypeOK
<1>4. list \in Configs
  BY <1>2, <1>3, ListAfterType
<1>5. poller' = IF list = <<>> THEN Waiting(list, poller.generation)
                ELSE Generation(list, poller.generation)
  BY DEF TakeCommand
<1> HIDE DEF list
<1>8. /\ poller' \in PollerTypes /\ poller'.list = list
      /\ \/ poller'.pc = "waiting" /\ poller'.generation = poller.generation
         \/ /\ poller'.pc = "polling" /\ poller'.generation = Advance(poller.generation)
            /\ Len(poller'.polls) = Len(poller'.list)
  <2>1. CASE list = <<>>
    BY <1>3, <1>4, <1>5, <2>1, WaitingType
  <2>2. CASE list # <<>>
    BY <1>3, <1>4, <1>5, <2>2, GenerationType
  <2> QED BY <2>1, <2>2
<1>9. PollingCounted'
  BY <1>3, <1>8, AdvanceType, ConstantTypes DEF PollingCounted
<1>10. /\ commands' \in Seq(Commands) /\ Len(commands') <= CommandCapacity
  BY <1>1, <1>2, ConstantTypes DEF TakeCommand, TypeOK
<1>11. TypeOK'
  BY <1>1, <1>8, <1>10 DEF TypeOK, PollerTypes, TakeCommand
<1> QED BY <1>2, <1>8, <1>9, <1>11 DEF TypeInv, list

LEMMA TickTypes ==
    ASSUME TypeInv, Tick
    PROVE  /\ TypeInv'
           /\ poller'.list = poller.list
           /\ poller'.pc = "polling" /\ poller'.generation = Advance(poller.generation)
<1>1. TypeOK /\ poller.list \in Configs /\ poller.generation \in 0 .. MaxGeneration
  BY DEF TypeInv, TypeOK
<1>2. /\ poller' \in PollerTypes /\ poller'.pc = "polling"
      /\ poller'.list = poller.list
      /\ poller'.generation = Advance(poller.generation)
      /\ Len(poller'.polls) = Len(poller'.list)
  BY <1>1, GenerationType DEF Tick
<1>3. PollingCounted'
  BY <1>1, <1>2, AdvanceType, ConstantTypes DEF PollingCounted
<1>4. TypeOK'
  BY <1>1, <1>2 DEF TypeOK, PollerTypes, Tick
<1> QED BY <1>2, <1>3, <1>4 DEF TypeInv

(* The poll task gives up its work without delivering it, or ends.            *)
LEMMA QuietTypes ==
    ASSUME TypeInv, DropBatch \/ PollerEnds \/ PollerDies
    PROVE  /\ TypeInv'
           /\ poller'.pc # "polling" /\ poller'.list = poller.list
           /\ poller'.generation = poller.generation
           /\ poller'.pc = "dead" \/ tasks
           /\ UNCHANGED <<fleet, doc, commands, batches, engine, cancel, tasks, refused>>
<1>1. /\ TypeOK /\ poller \in PollerTypes
      /\ poller.list \in Configs /\ poller.generation \in 0 .. MaxGeneration
  BY DEF TypeInv, TypeOK, PollerTypes
<1>2. /\ poller' \in PollerTypes /\ poller'.pc # "polling"
      /\ poller'.list = poller.list /\ poller'.generation = poller.generation
      /\ poller'.pc = "dead" \/ tasks
  <2>1. CASE DropBatch
    BY <1>1, <2>1, WaitingType DEF DropBatch
  <2>2. CASE PollerEnds
    BY <1>1, <2>2 DEF PollerEnds, PollerTypes
  <2>3. CASE PollerDies
    BY <1>1, <2>3, EmptySeq DEF PollerDies, PollerTypes
  <2> QED BY <2>1, <2>2, <2>3
<1>3. UNCHANGED <<fleet, doc, commands, batches, engine, cancel, tasks, refused>>
  BY DEF DropBatch, PollerEnds, PollerDies
<1>4. TypeOK' /\ PollingCounted'
  BY <1>1, <1>2, <1>3 DEF TypeOK, PollerTypes, PollingCounted
<1> QED BY <1>2, <1>3, <1>4 DEF TypeInv

(* A batch is applied to the fleet, or rejected.                             *)
LEMMA ApplyBatchTypes ==
    ASSUME TypeInv, ApplyBatch
    PROVE  /\ TypeInv'
           /\ batches # <<>> /\ Head(batches) \in Batches
           /\ batches' = Tail(batches)
           /\ DOMAIN fleet'.systems = DOMAIN fleet.systems
           /\ fleet'.reloadError = fleet.reloadError
           /\ \/ ~Accepts(fleet.last, Head(batches).generation) /\ UNCHANGED <<fleet, doc>>
              \/ /\ Accepts(fleet.last, Head(batches).generation)
                 /\ fleet'.systems = AppliedAll(fleet.systems, Head(batches).results)
                 /\ fleet'.last = Head(batches).generation
<1> DEFINE batch == Head(batches)
           systems == AppliedAll(fleet.systems, batch.results)
<1>1. /\ TypeOK /\ fleet \in FleetTypes /\ ConfigOf(fleet.systems)
      /\ batches \in Seq(Batches) /\ Len(batches) \in Nat /\ batches # <<>>
  BY LenProperties DEF TypeInv, TypeOK, FleetTypes, ApplyBatch
<1>2. batch \in Batches /\ Tail(batches) \in Seq(Batches) /\ Len(Tail(batches)) = Len(batches) - 1
  BY <1>1, HeadTailProperties
<1>3. fleet.systems \in Seq(Systems) /\ batch.results \in Seq(Results)
  BY <1>1, <1>2 DEF FleetTypes, Batches
<1>4. /\ systems \in Seq(Systems)
      /\ DOMAIN systems = DOMAIN fleet.systems
      /\ \A k \in DOMAIN fleet.systems : systems[k].id = fleet.systems[k].id
  BY <1>3, AppliedAllType
<1>5. \/ ~Accepts(fleet.last, batch.generation) /\ UNCHANGED <<fleet, doc>>
      \/ /\ Accepts(fleet.last, batch.generation)
         /\ fleet' = [fleet EXCEPT !.systems = systems, !.last = batch.generation]
  BY DEF ApplyBatch, Publish
<1>6. /\ batches' = Tail(batches)
      /\ UNCHANGED <<poller, commands, engine, cancel, tasks, refused>>
  BY DEF ApplyBatch
<1>7. batch.generation \in 0 .. MaxGeneration
  BY <1>2, ConstantTypes DEF Batches
<1> HIDE DEF systems, batch
<1>8. /\ fleet' \in FleetTypes
      /\ DOMAIN fleet'.systems = DOMAIN fleet.systems
      /\ \A k \in DOMAIN fleet.systems : fleet'.systems[k].id = fleet.systems[k].id
      /\ fleet'.reloadError = fleet.reloadError
      /\ \/ UNCHANGED fleet
         \/ fleet'.systems = systems /\ fleet'.last = batch.generation
  BY <1>1, <1>4, <1>5, <1>7 DEF FleetTypes
<1>9. ConfigOf(fleet.systems)'
  BY <1>1, <1>8 DEF ConfigOf
<1>10. batches' \in Seq(Batches) /\ Len(batches') <= BatchCapacity
  BY <1>1, <1>2, <1>6, ConstantTypes DEF TypeOK
<1>11. TypeOK' /\ PollingCounted'
  BY <1>1, <1>6, <1>8, <1>9, <1>10 DEF TypeInv, TypeOK, FleetTypes, PollingCounted
<1>12. Accepts(fleet.last, batch.generation) =>
          fleet'.systems = systems /\ fleet'.last = batch.generation
  BY <1>1, <1>4, <1>5, <1>7 DEF FleetTypes
<1> QED BY <1>1, <1>2, <1>5, <1>6, <1>8, <1>11, <1>12 DEF TypeInv, batch, systems

(* A reload takes a new configuration, or only notes that there is none.      *)
LEMMA ReloadConfigTypes ==
    ASSUME TypeInv, ReloadConfig
    PROVE  /\ TypeInv'
           /\ fleet' \in FleetTypes
           /\ fleet'.last = fleet.last /\ doc' = Document(fleet')
           /\ \/ \E file \in Configs :
                    /\ fleet'.systems = Reconciled(fleet.systems, file)
                    /\ Request(Replace(file)) /\ refused' = ~Fits
              \/ fleet'.systems = fleet.systems /\ Request(Refresh) /\ refused' = refused
<1>1. TypeOK /\ fleet \in FleetTypes /\ ConfigOf(fleet.systems) /\ fleet.systems \in Seq(Systems)
  BY DEF TypeInv, TypeOK, FleetTypes
<1>2. UNCHANGED <<poller, batches, engine, cancel, tasks>> /\ Fits \in BOOLEAN
  BY DEF ReloadConfig, Fits
<1>3. ASSUME NEW file \in Configs,
             Publish([fleet EXCEPT !.systems = Reconciled(fleet.systems, file),
                                   !.reloadError = FALSE], TRUE),
             Request(Replace(file)), refused' = ~Fits
      PROVE  /\ fleet' \in FleetTypes /\ ConfigOf(fleet'.systems)
             /\ fleet'.last = fleet.last /\ doc' = Document(fleet')
             /\ fleet'.systems = Reconciled(fleet.systems, file)
             /\ commands' \in Seq(Commands) /\ Len(commands') <= CommandCapacity
             /\ refused' \in BOOLEAN
  <2> DEFINE systems == Reconciled(fleet.systems, file)
  <2>1. /\ systems \in Seq(Systems) /\ DOMAIN systems = DOMAIN file
        /\ \A k \in DOMAIN file : systems[k].id = file[k].id
    BY <1>1, ReconciledType
  <2>2. ConfigOf(file)
    BY ConstantsAssumption
  <2>3. ConfigOf(systems)
    BY <2>1, <2>2 DEF ConfigOf
  <2>4. /\ fleet' = [fleet EXCEPT !.systems = systems, !.reloadError = FALSE]
        /\ doc' = Document(fleet')
    BY <1>3 DEF Publish
  <2> HIDE DEF systems
  <2>5. fleet' \in FleetTypes /\ fleet'.systems = systems /\ fleet'.last = fleet.last
    BY <1>1, <2>1, <2>4 DEF FleetTypes
  <2>6. Replace(file) \in Commands
    BY DEF Commands
  <2>7. commands' \in Seq(Commands) /\ Len(commands') <= CommandCapacity
    BY <1>1, <1>3, <2>6, RequestType
  <2> QED BY <1>2, <1>3, <2>3, <2>4, <2>5, <2>7 DEF systems
<1>4. ASSUME Publish([fleet EXCEPT !.reloadError = TRUE], TRUE), Request(Refresh), UNCHANGED refused
      PROVE  /\ fleet' \in FleetTypes /\ ConfigOf(fleet'.systems)
             /\ fleet'.last = fleet.last /\ doc' = Document(fleet')
             /\ fleet'.systems = fleet.systems
             /\ commands' \in Seq(Commands) /\ Len(commands') <= CommandCapacity
             /\ refused' \in BOOLEAN
  <2>1. fleet' = [fleet EXCEPT !.reloadError = TRUE] /\ doc' = Document(fleet')
    BY <1>4 DEF Publish
  <2>2. Refresh \in Commands
    BY DEF Commands
  <2>3. commands' \in Seq(Commands) /\ Len(commands') <= CommandCapacity
    BY <1>1, <1>4, <2>2, RequestType
  <2>4. fleet' \in FleetTypes /\ fleet'.last = fleet.last /\ fleet'.systems = fleet.systems
    BY <1>1, <2>1 DEF FleetTypes
  <2> QED BY <1>1, <1>4, <2>1, <2>3, <2>4 DEF TypeOK
<1>5. \/ \E file \in Configs :
            /\ Publish([fleet EXCEPT !.systems = Reconciled(fleet.systems, file),
                                     !.reloadError = FALSE], TRUE)
            /\ Request(Replace(file)) /\ refused' = ~Fits
      \/ /\ Publish([fleet EXCEPT !.reloadError = TRUE], TRUE)
         /\ Request(Refresh) /\ UNCHANGED refused
  BY DEF ReloadConfig
<1>6. /\ fleet' \in FleetTypes /\ ConfigOf(fleet'.systems)
      /\ fleet'.last = fleet.last /\ doc' = Document(fleet')
      /\ commands' \in Seq(Commands) /\ Len(commands') <= CommandCapacity
      /\ refused' \in BOOLEAN
      /\ \/ \E file \in Configs :
               /\ fleet'.systems = Reconciled(fleet.systems, file)
               /\ Request(Replace(file)) /\ refused' = ~Fits
         \/ fleet'.systems = fleet.systems /\ Request(Refresh) /\ refused' = refused
  BY <1>3, <1>4, <1>5
<1>7. TypeOK' /\ PollingCounted'
  BY <1>1, <1>2, <1>6 DEF TypeInv, TypeOK, FleetTypes, PollingCounted
<1> QED BY <1>6, <1>7 DEF TypeInv

(* The engine ends: its fleet is gone and the poll task is cancelled.         *)
Ends == PollerGone \/ Shutdown \/ ObserveCancel
LEMMA EndsTypes ==
    ASSUME TypeInv, Ends
    PROVE  /\ TypeInv'
           /\ engine' # "running" /\ fleet' = InitialFleet(<<>>)
<1>1. /\ engine' \in {"stopped", "failed"} /\ fleet' = InitialFleet(<<>>) /\ tasks' = TRUE
      /\ commands' = <<>> /\ batches' = <<>>
      /\ UNCHANGED <<poller, cancel, refused>>
  BY DEF Ends, PollerGone, Shutdown, ObserveCancel, Stopped
<1>2. fleet' \in FleetTypes /\ ConfigOf(fleet'.systems)
  BY <1>1, InitialFleetType DEF FleetTypes
<1>3. /\ commands' \in Seq(Commands) /\ Len(commands') <= CommandCapacity
      /\ batches' \in Seq(Batches) /\ Len(batches') <= BatchCapacity
  BY <1>1, EmptySeq, ConstantTypes
<1> QED BY <1>1, <1>2, <1>3 DEF TypeInv, TypeOK, FleetTypes, PollingCounted

LEMMA SignalTypes ==
    ASSUME TypeInv, Signal
    PROVE  TypeInv'
  BY DEF TypeInv, TypeOK, PollingCounted, Signal

LEMMA StutterTypes ==
    ASSUME TypeInv, UNCHANGED vars
    PROVE  TypeInv'
  BY DEF TypeInv, TypeOK, PollingCounted, vars

LEMMA Steps ==
    ASSUME [Next]_vars
    PROVE  \/ PollStep \/ Deliver \/ TakeCommand \/ Tick
           \/ DropBatch \/ PollerEnds \/ PollerDies
           \/ ApplyBatch \/ ReloadConfig \/ Ends \/ Signal \/ UNCHANGED vars
  BY DEF Next, PollTask, EngineTask, Environment, PollStep, Ends

LEMMA NextTypes ==
    ASSUME TypeInv, [Next]_vars
    PROVE  TypeInv'
  BY Steps, PollStepTypes, DeliverTypes, TakeCommandTypes, TickTypes, QuietTypes,
     ApplyBatchTypes, ReloadConfigTypes, EndsTypes, SignalTypes, StutterTypes

(* Every variable keeps its type, in every behaviour of the daemon: the       *)
(* channels stay within their capacities, the ids of the fleet stay distinct,   *)
(* and a generation being polled has a number and a poll for every system.     *)
THEOREM TypeCorrect == Spec => [](TypeOK /\ PollingCounted)
<1>1. Init => TypeInv
  BY InitTypes
<1>2. TypeInv /\ [Next]_vars => TypeInv'
  BY NextTypes
<1>3. TypeInv => TypeOK /\ PollingCounted
  BY DEF TypeInv
<1> QED BY <1>1, <1>2, <1>3, PTL DEF Spec

-----------------------------------------------------------------------------
(* No system shows what another target answered.                             *)

Own(s) ==
    /\ s.latest # None => s.latest[1] = Host[s.endpoint]
    /\ s.reach = "online" => s.latest # None

LEMMA FromEntryOwn ==
    ASSUME NEW entry
    PROVE  Own(FromEntry(entry))
  BY DEF Own, FromEntry

LEMMA AppliedOwn ==
    ASSUME NEW s \in Systems, Own(s), NEW r \in Results, Answers(r, s)
    PROVE  Own(Applied(s, r))
<1>1. Host[r.endpoint] = Host[s.endpoint]
  BY DEF Answers, Equivalent
<1>2. CASE r.outcome \in Vals
  <2> DEFINE snapshot == <<Host[r.endpoint], r.outcome>>
  <2>1. snapshot \in Snapshots /\ snapshot[1] = Host[s.endpoint]
    BY <1>1, <1>2 DEF Snapshots, Results
  <2>2. snapshot # None
    BY <2>1, ConstantTypes
  <2>3. Applied(s, r) = [s EXCEPT !.reach = "online", !.reason = None, !.latest = snapshot]
    BY <1>2 DEF Applied
  <2> HIDE DEF snapshot
  <2>4. Applied(s, r).latest = snapshot /\ Applied(s, r).endpoint = s.endpoint
    BY <2>3 DEF Systems
  <2> QED BY <2>1, <2>2, <2>4 DEF Own
<1>3. CASE r.outcome \notin Vals
  <2>1. Applied(s, r) = [s EXCEPT !.reach = "offline", !.reason = r.outcome]
    BY <1>3 DEF Applied
  <2>2. /\ Applied(s, r).latest = s.latest /\ Applied(s, r).endpoint = s.endpoint
        /\ Applied(s, r).reach = "offline"
    BY <2>1 DEF Systems
  <2> QED BY <2>2 DEF Own
<1> QED BY <1>2, <1>3

LEMMA RespelledOwn ==
    ASSUME NEW s \in Systems, Own(s), NEW entry \in [id : Ids, endpoint : Endpoints],
           Retained(s, entry)
    PROVE  Own([s EXCEPT !.endpoint = entry.endpoint])
<1> DEFINE t == [s EXCEPT !.endpoint = entry.endpoint]
<1>1. Host[s.endpoint] = Host[entry.endpoint]
  BY DEF Retained, Equivalent
<1>2. t.latest = s.latest /\ t.reach = s.reach /\ t.endpoint = entry.endpoint
  BY DEF Systems
<1> HIDE DEF t
<1>3. Own(t)
  BY <1>1, <1>2 DEF Own
<1> QED BY <1>3 DEF t

LEMMA ForeignFree ==
    ASSUME NEW systems
    PROVE  (\A s \in ToSet(systems) : Own(s)) <=> (\A k \in DOMAIN systems : Own(systems[k]))
  BY DEF ToSet

(* A result is applied only where its target is the system's own.            *)
LEMMA ApplyBatchOwn ==
    ASSUME TypeInv, ApplyBatch, \A s \in ToSet(fleet.systems) : Own(s)
    PROVE  \A s \in ToSet(fleet'.systems) : Own(s)
<1>1. TypeOK /\ fleet.systems \in Seq(Systems)
  BY DEF TypeInv, TypeOK
<1>2. CASE UNCHANGED fleet
  BY <1>2
<1>3. CASE fleet'.systems = AppliedAll(fleet.systems, Head(batches).results)
  <2>1. Head(batches).results \in Seq(Results)
    BY ApplyBatchTypes DEF Batches
  <2>2. \A k \in DOMAIN fleet.systems : fleet.systems[k] \in Systems /\ Own(fleet.systems[k])
    BY <1>1, ElementOfSeq, LenProperties DEF ToSet
  <2>3. /\ DOMAIN fleet'.systems = DOMAIN fleet.systems
        /\ \A k \in DOMAIN fleet.systems :
              \/ fleet'.systems[k] = fleet.systems[k]
              \/ \E r \in Results : /\ Answers(r, fleet.systems[k])
                                    /\ fleet'.systems[k] = Applied(fleet.systems[k], r)
    BY <1>1, <1>3, <2>1, AppliedAllType
  <2>4. \A k \in DOMAIN fleet.systems : Own(fleet'.systems[k])
    BY <2>2, <2>3, AppliedOwn
  <2> QED BY <2>3, <2>4, ForeignFree
<1> QED BY <1>2, <1>3, ApplyBatchTypes

(* A system keeps its answers over a reload only when its target stays.       *)
LEMMA ReloadConfigOwn ==
    ASSUME TypeInv, ReloadConfig, \A s \in ToSet(fleet.systems) : Own(s)
    PROVE  \A s \in ToSet(fleet'.systems) : Own(s)
<1>1. TypeOK /\ fleet.systems \in Seq(Systems)
  BY DEF TypeInv, TypeOK
<1>2. CASE fleet'.systems = fleet.systems
  BY <1>2
<1>3. CASE \E file \in Configs : fleet'.systems = Reconciled(fleet.systems, file)
  <2>1. PICK file \in Configs : fleet'.systems = Reconciled(fleet.systems, file)
    BY <1>3
  <2>2. \A s \in ToSet(fleet.systems) : s \in Systems
    BY <1>1, ElementOfSeq, LenProperties DEF ToSet
  <2>3. file \in Seq([id : Ids, endpoint : Endpoints])
    BY ConstantTypes
  <2>4. \A k \in DOMAIN file : file[k] \in [id : Ids, endpoint : Endpoints]
    BY <2>3, ElementOfSeq, LenProperties
  <2>5. DOMAIN fleet'.systems = DOMAIN file
    BY <1>1, <2>1, ReconciledType
  <2>6. ASSUME NEW k \in DOMAIN file
        PROVE  Own(fleet'.systems[k])
    <3>1. \/ fleet'.systems[k] = FromEntry(file[k])
          \/ \E s \in ToSet(fleet.systems) :
                /\ Retained(s, file[k])
                /\ fleet'.systems[k] = [s EXCEPT !.endpoint = file[k].endpoint]
      <4>1. \/ Reconciled(fleet.systems, file)[k] = FromEntry(file[k])
            \/ \E s \in ToSet(fleet.systems) :
                  /\ Retained(s, file[k])
                  /\ Reconciled(fleet.systems, file)[k] =
                        [s EXCEPT !.endpoint = file[k].endpoint]
        BY <1>1, ReconciledType, Zenon
      <4> QED BY <2>1, <4>1, Zenon
    <3>2. CASE fleet'.systems[k] = FromEntry(file[k])
      BY <3>2, FromEntryOwn
    <3>3. ASSUME NEW s \in ToSet(fleet.systems), Retained(s, file[k]),
                 fleet'.systems[k] = [s EXCEPT !.endpoint = file[k].endpoint]
          PROVE  Own(fleet'.systems[k])
      <4>1. Own([s EXCEPT !.endpoint = file[k].endpoint])
        BY <2>2, <2>4, <3>3, RespelledOwn
      <4> QED BY <3>3, <4>1
    <3> QED BY <3>1, <3>2, <3>3
  <2> QED BY <2>5, <2>6, ForeignFree
<1> QED BY <1>2, <1>3, ReloadConfigTypes

LEMMA OwnKept ==
    ASSUME TypeInv, NoForeignSnapshot, [Next]_vars
    PROVE  NoForeignSnapshot'
<1> USE DEF Own, NoForeignSnapshot
<1>1. CASE UNCHANGED fleet
  BY <1>1
<1>2. CASE ApplyBatch
  BY <1>2, ApplyBatchOwn
<1>3. CASE ReloadConfig
  BY <1>3, ReloadConfigOwn
<1>4. CASE Ends
  BY <1>4, EndsTypes, InitialFleetType
<1>5. UNCHANGED fleet \/ ApplyBatch \/ ReloadConfig \/ Ends
  BY Steps DEF PollStep, Acquire, Answer, CancelPoll, Deliver, TakeCommand, Tick, DropBatch,
     PollerEnds, PollerDies, Signal, vars
<1> QED BY <1>1, <1>2, <1>3, <1>4, <1>5

(* Whatever the reloads repoint, respell, move, remove or re-add while polls  *)
(* of the old targets are under way, what a system shows was answered by the   *)
(* target it is configured with (apply_batch_owned_changed,                  *)
(* reconcile_systems).                                                       *)
THEOREM SnapshotsAreOwn == Spec => []NoForeignSnapshot
<1>1. Init => NoForeignSnapshot
  BY InitialFleetType DEF Init, NoForeignSnapshot
<1>2. TypeInv /\ NoForeignSnapshot /\ [Next]_vars => NoForeignSnapshot'
  BY OwnKept
<1>3. TypeOK /\ PollingCounted => TypeInv
  BY DEF TypeInv
<1> QED BY <1>1, <1>2, <1>3, TypeCorrect, PTL DEF Spec

-----------------------------------------------------------------------------
(* The generations.                                                          *)

GenerationInv == GenerationsConsecutive /\ WaitingDelivered /\ EngineOwnsTasks

LEMMA InitGenerations ==
    ASSUME Init
    PROVE  GenerationInv
<1>1. PICK config \in Configs :
        /\ fleet = InitialFleet(config)
        /\ poller = IF config = <<>> THEN Waiting(config, 0) ELSE Generation(config, 0)
  BY DEF Init
<1>2. 0 \in 0 .. MaxGeneration /\ fleet.last = 0 /\ batches = <<>> /\ Delivered = 0
  BY <1>1, ConstantTypes, InitialFleetType DEF Init, Delivered
<1>3. Len(batches) = 0
  BY <1>2, EmptySeq
<1>4. \/ poller.pc = "waiting" /\ poller.generation = 0
      \/ poller.pc = "polling" /\ poller.generation = Advance(0)
  BY <1>1, <1>2, WaitingType, GenerationType
<1> QED BY <1>2, <1>3, <1>4, AdvanceType
        DEF Init, GenerationInv, GenerationsConsecutive, WaitingDelivered, EngineOwnsTasks

LEMMA DeliverGenerations ==
    ASSUME TypeInv, GenerationInv, Deliver
    PROVE  GenerationInv'
<1>1. /\ batches \in Seq(Batches) /\ Len(batches) \in Nat
      /\ engine' = engine /\ tasks' = tasks /\ fleet' = fleet
      /\ poller.pc = "polling" /\ poller'.pc = "waiting"
      /\ poller'.generation = poller.generation
  BY DeliverTypes, LenProperties DEF TypeInv, TypeOK, Deliver, Complete
<1>2. /\ Len(batches') = Len(batches) + 1 /\ batches' # <<>>
      /\ \A k \in 1 .. Len(batches) : batches'[k] = batches[k]
      /\ batches'[Len(batches) + 1].generation = poller.generation
  BY <1>1, DeliverTypes, EmptySeq
<1>3. batches = <<>> <=> Len(batches) = 0
  BY <1>1, EmptySeq
<1>4. Delivered' = poller.generation
  BY <1>1, <1>2 DEF Delivered
<1>5. engine = "running" => Follows(Delivered, poller.generation)
  BY <1>1 DEF GenerationInv, GenerationsConsecutive
<1>6. ASSUME engine = "running"
      PROVE  /\ Follows(fleet.last, batches'[1].generation)
             /\ \A k \in 1 .. Len(batches') - 1 :
                   Follows(batches'[k].generation, batches'[k + 1].generation)
  <2>1. CASE Len(batches) = 0
    BY <1>1, <1>2, <1>3, <1>5, <1>6, <2>1 DEF Delivered
  <2>2. CASE Len(batches) > 0
    <3>1. /\ Follows(fleet.last, batches[1].generation)
          /\ \A k \in 1 .. Len(batches) - 1 :
                Follows(batches[k].generation, batches[k + 1].generation)
          /\ Follows(batches[Len(batches)].generation, poller.generation)
      BY <1>1, <1>3, <1>5, <1>6, <2>2 DEF Delivered, GenerationInv, GenerationsConsecutive
    <3> QED BY <1>1, <1>2, <2>2, <3>1
  <2>3. Len(batches) = 0 \/ Len(batches) > 0
    BY <1>1
  <2> QED BY <2>1, <2>2, <2>3
<1> QED BY <1>1, <1>4, <1>6 DEF GenerationInv, GenerationsConsecutive, WaitingDelivered,
                                EngineOwnsTasks, Follows

(* The next batch is the generation after the last one that was applied, so   *)
(* it is accepted.                                                          *)
LEMMA HeadAccepted ==
    ASSUME TypeInv, GenerationInv, engine = "running", batches # <<>>
    PROVE  /\ Head(batches) = batches[1]
           /\ Follows(fleet.last, batches[1].generation)
           /\ Accepts(fleet.last, batches[1].generation)
<1>1. batches \in Seq(Batches) /\ fleet.last \in 0 .. MaxGeneration
  BY DEF TypeInv, TypeOK
<1>2. Head(batches) = batches[1]
  BY <1>1
<1>3. Follows(fleet.last, batches[1].generation)
  BY DEF GenerationInv, GenerationsConsecutive
<1> QED BY <1>1, <1>2, <1>3, ConstantTypes DEF Follows, Accepts

LEMMA ApplyBatchGenerations ==
    ASSUME TypeInv, GenerationInv, ApplyBatch
    PROVE  GenerationInv'
<1>1. /\ engine = "running" /\ batches # <<>> /\ batches' = Tail(batches)
      /\ UNCHANGED <<poller, commands, engine, cancel, tasks, refused>>
  BY DEF ApplyBatch
<1>2. batches \in Seq(Batches) /\ Len(batches) \in Nat /\ Len(batches) > 0
  BY <1>1, LenProperties, EmptySeq DEF TypeInv, TypeOK
<1>3. /\ batches' \in Seq(Batches) /\ Len(batches') = Len(batches) - 1
      /\ \A k \in 1 .. Len(batches') : batches'[k] = batches[k + 1]
  BY <1>1, <1>2, HeadTailProperties
<1>4. fleet'.last = batches[1].generation
  BY <1>1, HeadAccepted, ApplyBatchTypes
<1>5. batches' = <<>> <=> Len(batches) = 1
  <2>1. batches' = <<>> <=> Len(batches') = 0
    BY <1>3, EmptySeq
  <2> QED BY <1>2, <1>3, <2>1
<1>6. \A k \in 1 .. Len(batches) - 1 : Follows(batches[k].generation, batches[k + 1].generation)
  BY <1>1 DEF GenerationInv, GenerationsConsecutive
<1>7. Delivered' = Delivered
  <2>1. CASE Len(batches) = 1
    BY <1>1, <1>4, <1>5, <2>1 DEF Delivered
  <2>2. CASE Len(batches) > 1
    <3>1. Len(batches') \in 1 .. Len(batches') /\ Len(batches') + 1 = Len(batches)
      BY <1>2, <1>3, <2>2
    <3>2. batches'[Len(batches')] = batches[Len(batches)]
      BY <1>3, <3>1
    <3> QED BY <1>1, <1>2, <1>5, <2>2, <3>2 DEF Delivered
  <2>3. Len(batches) = 1 \/ Len(batches) > 1
    <3>1. \A n \in Nat : n > 0 => n = 1 \/ n > 1
      OBVIOUS
    <3> QED BY <1>2, <3>1, Zenon
  <2> QED BY <2>1, <2>2, <2>3
<1>8. batches' # <<>> => Follows(fleet'.last, batches'[1].generation)
  BY <1>2, <1>3, <1>4, <1>5, <1>6
<1>9. \A k \in 1 .. Len(batches') - 1 :
          Follows(batches'[k].generation, batches'[k + 1].generation)
  BY <1>2, <1>3, <1>6
<1>10. GenerationsConsecutive'
  BY <1>1, <1>7, <1>8, <1>9 DEF GenerationInv, GenerationsConsecutive, Follows
<1> QED BY <1>1, <1>7, <1>10 DEF GenerationInv, WaitingDelivered, EngineOwnsTasks

(* The poll task starts a generation only after it delivered the last one.    *)
LEMMA StartGenerations ==
    ASSUME TypeInv, GenerationInv, TakeCommand \/ Tick
    PROVE  GenerationInv'
<1>1. /\ poller.pc = "waiting" /\ UNCHANGED <<fleet, batches, engine, tasks>>
      /\ poller.generation \in 0 .. MaxGeneration
  BY DEF TakeCommand, Tick, TypeInv, TypeOK
<1>2. \/ poller'.pc = "waiting" /\ poller'.generation = poller.generation
      \/ poller'.pc = "polling" /\ poller'.generation = Advance(poller.generation)
  BY TakeCommandTypes, TickTypes
<1>3. engine = "running" => poller.generation = Delivered
  BY <1>1 DEF GenerationInv, WaitingDelivered
<1>4. Delivered' = Delivered
  BY <1>1 DEF Delivered
<1>5. engine = "running" /\ poller'.pc = "polling" => Follows(Delivered, poller'.generation)
  BY <1>1, <1>2, <1>3, AdvanceType
<1> QED BY <1>1, <1>2, <1>3, <1>4, <1>5
        DEF GenerationInv, GenerationsConsecutive, WaitingDelivered, EngineOwnsTasks, Follows

LEMMA GenerationsKept ==
    ASSUME TypeInv, GenerationInv, [Next]_vars
    PROVE  GenerationInv'
<1> USE DEF GenerationInv, GenerationsConsecutive, WaitingDelivered, EngineOwnsTasks, Delivered
<1>1. CASE PollStep
  BY <1>1, PollStepTypes DEF Follows
<1>2. CASE DropBatch \/ PollerEnds \/ PollerDies
  BY <1>2, QuietTypes DEF Follows
<1>3. CASE ReloadConfig
  <2>1. fleet'.last = fleet.last /\ UNCHANGED <<poller, batches, engine, tasks>>
    BY <1>3, ReloadConfigTypes DEF ReloadConfig
  <2> QED BY <2>1 DEF Follows
<1>4. CASE Ends
  BY <1>4, EndsTypes
<1>5. CASE Signal \/ UNCHANGED vars
  BY <1>5 DEF Signal, vars, Follows
<1> QED BY <1>1, <1>2, <1>3, <1>4, <1>5, Steps, DeliverGenerations, ApplyBatchGenerations,
           StartGenerations

-----------------------------------------------------------------------------
(* The document.                                                             *)

LEMMA InvisibleIsEqual ==
    ASSUME NEW s \in Systems, NEW r \in Results, ~Visibly(s, Applied(s, r))
    PROVE  Applied(s, r) = s
<1>1. CASE r.outcome \in Vals
  <2> DEFINE t == [s EXCEPT !.reach = "online", !.reason = None,
                            !.latest = <<Host[r.endpoint], r.outcome>>]
  <2>1. Applied(s, r) = t
    BY <1>1 DEF Applied
  <2>2. t.reach = "online" /\ t.id = s.id /\ t.endpoint = s.endpoint
    BY DEF Systems
  <2>3. s.reach = t.reach /\ s.latest = t.latest /\ s.reason = t.reason
    BY <2>1, <2>2 DEF Visibly
  <2>4. t \in Systems
    BY <2>1, AppliedType
  <2> HIDE DEF t
  <2>5. t = s
    BY <2>2, <2>3, <2>4 DEF Systems
  <2> QED BY <2>1, <2>5
<1>2. CASE r.outcome \notin Vals
  <2> DEFINE t == [s EXCEPT !.reach = "offline", !.reason = r.outcome]
  <2>1. Applied(s, r) = t
    BY <1>2 DEF Applied
  <2>2. t.latest = s.latest /\ t.id = s.id /\ t.endpoint = s.endpoint
    BY DEF Systems
  <2>3. s.reach = t.reach /\ s.reason = t.reason
    BY <2>1 DEF Visibly
  <2>4. t \in Systems
    BY <2>1, AppliedType
  <2> HIDE DEF t
  <2>5. t = s
    BY <2>2, <2>3, <2>4 DEF Systems
  <2> QED BY <2>1, <2>5
<1> QED BY <1>1, <1>2

(* A batch that is not published left every system as it was.                *)
LEMMA ApplyBatchDocument ==
    ASSUME TypeInv, DocumentCurrent, ApplyBatch
    PROVE  DocumentCurrent'
<1> DEFINE batch == Head(batches)
           systems == AppliedAll(fleet.systems, batch.results)
           dirty == \/ fleet.last = 0
                    \/ \E k \in DOMAIN systems : Visibly(fleet.systems[k], systems[k])
<1>1. fleet.systems \in Seq(Systems) /\ fleet \in FleetTypes
  BY DEF TypeInv, TypeOK, FleetTypes
<1>2. batch \in Batches /\ batch.results \in Seq(Results)
  BY ApplyBatchTypes DEF Batches
<1>3. engine = "running" /\ engine' = engine /\ doc = Document(fleet)
  BY DEF ApplyBatch, DocumentCurrent
<1>4. CASE UNCHANGED <<fleet, doc>>
  BY <1>3, <1>4 DEF DocumentCurrent
<1>5. CASE Accepts(fleet.last, batch.generation)
  <2>1. doc' = IF dirty THEN Document(fleet') ELSE doc
    BY <1>5 DEF ApplyBatch, Publish
  <2>2. CASE dirty
    BY <1>3, <2>1, <2>2 DEF DocumentCurrent
  <2>3. CASE ~dirty
    <3>1. /\ DOMAIN systems = DOMAIN fleet.systems
          /\ \A k \in DOMAIN fleet.systems :
                \/ systems[k] = fleet.systems[k]
                \/ \E r \in Results : systems[k] = Applied(fleet.systems[k], r)
      BY <1>1, <1>2, AppliedAllType
    <3>2. \A k \in DOMAIN fleet.systems : fleet.systems[k] \in Systems
      BY <1>1, ElementOfSeq, LenProperties
    <3>3. \A k \in DOMAIN fleet.systems : systems[k] = fleet.systems[k]
      BY <2>3, <3>1, <3>2, InvisibleIsEqual
    <3>4. systems \in Seq(Systems)
      BY <1>1, <1>2, AppliedAllType
    <3>5. systems = fleet.systems
      BY <1>1, <3>1, <3>3, <3>4, SeqEqual, LenProperties
    <3>6. batch.generation # 0 /\ fleet.last # 0
      BY <1>2, <2>3, ConstantTypes DEF Batches
    <3>7. /\ fleet'.systems = fleet.systems /\ fleet'.last # 0
          /\ fleet'.reloadError = fleet.reloadError
      BY <1>5, <3>5, <3>6, ApplyBatchTypes
    <3> QED BY <1>3, <2>1, <2>3, <3>6, <3>7 DEF DocumentCurrent, Document
  <2> QED BY <2>2, <2>3
<1> QED BY <1>4, <1>5, ApplyBatchTypes

LEMMA DocumentKept ==
    ASSUME TypeInv, DocumentCurrent, [Next]_vars
    PROVE  DocumentCurrent'
<1>1. CASE ApplyBatch
  BY <1>1, ApplyBatchDocument
<1>2. CASE ReloadConfig
  BY <1>2, ReloadConfigTypes DEF DocumentCurrent
<1>3. CASE Ends
  BY <1>3, EndsTypes DEF DocumentCurrent
<1>4. UNCHANGED <<fleet, doc, engine>> \/ ApplyBatch \/ ReloadConfig \/ Ends
  BY Steps DEF PollStep, Acquire, Answer, CancelPoll, Deliver, TakeCommand, Tick, DropBatch,
     PollerEnds, PollerDies, Signal, vars
<1>5. CASE UNCHANGED <<fleet, doc, engine>>
  BY <1>5 DEF DocumentCurrent, Document
<1> QED BY <1>1, <1>2, <1>3, <1>4, <1>5

-----------------------------------------------------------------------------
(* The poll task's list.  What it will have once it has read its commands is  *)
(* the last list among them, or the one it has.                              *)

Leads(cmds, list, target) ==
    /\ (\A k \in DOMAIN cmds : cmds[k] = Refresh) => list = target
    /\ \A k \in DOMAIN cmds :
          /\ cmds[k] # Refresh
          /\ \A j \in DOMAIN cmds : cmds[j] # Refresh => j <= k
          => cmds[k] = Replace(target)

LEMMA FollowsIsLeads ==
    PollerFollowsFleet <=>
        (engine = "running" /\ ~refused => Leads(commands, poller.list, FleetList))
<1> DEFINE lists == {k \in DOMAIN commands : commands[k] # Refresh}
<1>1. CASE lists = {}
  BY <1>1 DEF PollerFollowsFleet, Leads
<1>2. CASE lists # {}
  <2>1. ~ \A k \in DOMAIN commands : commands[k] = Refresh
    BY <1>2
  <2>2. (\A k \in lists : (\A j \in lists : j <= k) => commands[k] = Replace(FleetList))
          <=> Leads(commands, poller.list, FleetList)
    BY <2>1 DEF Leads
  <2> QED BY <1>2, <2>2 DEF PollerFollowsFleet
<1> QED BY <1>1, <1>2

LEMMA FollowsIsLeadsNext ==
    PollerFollowsFleet' <=>
        (engine' = "running" /\ ~refused' => Leads(commands', poller'.list, FleetList'))
<1> DEFINE lists == {k \in DOMAIN commands' : commands'[k] # Refresh}
<1>1. CASE lists = {}
  BY <1>1 DEF PollerFollowsFleet, Leads
<1>2. CASE lists # {}
  <2>1. ~ \A k \in DOMAIN commands' : commands'[k] = Refresh
    BY <1>2
  <2>2. (\A k \in lists : (\A j \in lists : j <= k) => commands'[k] = Replace(FleetList'))
          <=> Leads(commands', poller'.list, FleetList')
    BY <2>1 DEF Leads
  <2> QED BY <1>2, <2>2 DEF PollerFollowsFleet
<1> QED BY <1>1, <1>2

LEMMA LeadsHead ==
    ASSUME NEW cmds \in Seq(Commands), cmds # <<>>, NEW list \in Configs, NEW target,
           Leads(cmds, list, target)
    PROVE  Leads(Tail(cmds), ListAfter(list, Head(cmds)), target)
<1>1. /\ DOMAIN cmds = 1 .. Len(cmds) /\ Len(cmds) \in Nat /\ Len(cmds) > 0
      /\ DOMAIN Tail(cmds) = 1 .. Len(cmds) - 1
      /\ \A k \in 1 .. Len(cmds) - 1 : Tail(cmds)[k] = cmds[k + 1]
      /\ Head(cmds) = cmds[1] /\ Head(cmds) \in Commands
  BY LenProperties, EmptySeq, HeadTailProperties
<1>2. ASSUME \A k \in DOMAIN Tail(cmds) : Tail(cmds)[k] = Refresh
      PROVE  ListAfter(list, Head(cmds)) = target
  <2>1. \A k \in DOMAIN cmds : k = 1 \/ cmds[k] = Refresh
    <3>1. ASSUME NEW k \in DOMAIN cmds, k # 1
          PROVE  cmds[k] = Refresh
      <4>1. k - 1 \in 1 .. Len(cmds) - 1 /\ (k - 1) + 1 = k
        BY <1>1, <3>1
      <4>2. Tail(cmds)[k - 1] = cmds[k] /\ Tail(cmds)[k - 1] = Refresh
        BY <1>1, <1>2, <4>1
      <4> QED BY <4>2
    <3> QED BY <3>1
  <2>2. CASE cmds[1] = Refresh
    BY <1>1, <2>1, <2>2, ListAfterType DEF Leads
  <2>3. CASE cmds[1] # Refresh
    <3>1. 1 \in DOMAIN cmds /\ \A j \in DOMAIN cmds : cmds[j] # Refresh => j <= 1
      BY <1>1, <2>1
    <3>2. cmds[1] = Replace(target)
      BY <2>3, <3>1 DEF Leads
    <3>3. cmds[1] = Replace(ListAfter(list, Head(cmds)))
      BY <1>1, <2>3, ListAfterType
    <3> QED BY <3>2, <3>3, ReplaceInjective
  <2> QED BY <2>2, <2>3
<1>3. ASSUME NEW k \in DOMAIN Tail(cmds), Tail(cmds)[k] # Refresh,
             \A j \in DOMAIN Tail(cmds) : Tail(cmds)[j] # Refresh => j <= k
      PROVE  Tail(cmds)[k] = Replace(target)
  <2>1. k + 1 \in DOMAIN cmds /\ Tail(cmds)[k] = cmds[k + 1]
    BY <1>1, <1>3
  <2>2. ASSUME NEW j \in DOMAIN cmds, cmds[j] # Refresh
        PROVE  j <= k + 1
    <3>1. CASE j = 1
      BY <1>1, <1>3, <3>1
    <3>2. CASE j # 1
      <4>1. j - 1 \in DOMAIN Tail(cmds) /\ (j - 1) + 1 = j
        BY <1>1, <2>2, <3>2
      <4>2. Tail(cmds)[j - 1] # Refresh
        BY <1>1, <2>2, <4>1
      <4>3. j - 1 <= k
        BY <1>3, <4>1, <4>2
      <4> QED BY <1>1, <2>2, <1>3, <4>3
    <3> QED BY <3>1, <3>2
  <2> QED BY <1>3, <2>1, <2>2 DEF Leads
<1> QED BY <1>2, <1>3 DEF Leads

LEMMA LeadsAppend ==
    ASSUME NEW cmds \in Seq(Commands), NEW list, NEW target, NEW command \in Commands,
           \/ command = Replace(target)
           \/ command = Refresh /\ Leads(cmds, list, target)
    PROVE  Leads(Append(cmds, command), list, target)
<1> DEFINE all == Append(cmds, command)
           n == Len(cmds) + 1
<1>1. /\ DOMAIN cmds = 1 .. Len(cmds) /\ Len(cmds) \in Nat
      /\ DOMAIN all = 1 .. n /\ all[n] = command
      /\ \A k \in 1 .. Len(cmds) : all[k] = cmds[k]
  BY LenProperties, AppendProperties
<1>2. n \in DOMAIN all /\ n \in Nat /\ \A j \in DOMAIN all : j <= n
  BY <1>1
<1>3. \A k \in DOMAIN all : k = n \/ k \in DOMAIN cmds
  BY <1>1
<1> HIDE DEF all
<1>4. CASE command = Replace(target)
  <2>1. all[n] # Refresh
    BY <1>1, <1>4, ReplaceInjective
  <2>2. \A k \in DOMAIN all : n <= k => k = n
    BY <1>1
  <2>3. Leads(all, list, target)
    BY <1>1, <1>2, <1>4, <2>1, <2>2 DEF Leads
  <2> QED BY <2>3 DEF all
<1>5. CASE command = Refresh /\ Leads(cmds, list, target)
  <2>1. (\A k \in DOMAIN all : all[k] = Refresh) => list = target
    BY <1>1, <1>5 DEF Leads
  <2>2. ASSUME NEW k \in DOMAIN all, all[k] # Refresh,
               \A j \in DOMAIN all : all[j] # Refresh => j <= k
        PROVE  all[k] = Replace(target)
    <3>1. k \in DOMAIN cmds /\ cmds[k] = all[k]
      BY <1>1, <1>3, <1>5, <2>2
    <3>2. \A j \in DOMAIN cmds : cmds[j] # Refresh => j <= k
      BY <1>1, <2>2
    <3> QED BY <1>5, <2>2, <3>1, <3>2 DEF Leads
  <2>3. Leads(all, list, target)
    BY <2>1, <2>2 DEF Leads
  <2> QED BY <2>3 DEF all
<1> QED BY <1>4, <1>5

LEMMA TakeCommandFollows ==
    ASSUME TypeInv, PollerFollowsFleet, TakeCommand
    PROVE  PollerFollowsFleet'
<1>1. /\ commands \in Seq(Commands) /\ commands # <<>> /\ commands' = Tail(commands)
      /\ UNCHANGED <<fleet, engine, refused>> /\ poller.list \in Configs
  BY DEF TypeInv, TypeOK, TakeCommand
<1>2. poller'.list = ListAfter(poller.list, Head(commands))
  BY TakeCommandTypes
<1>3. FleetList' = FleetList
  BY <1>1 DEF FleetList
<1>4. engine = "running" /\ ~refused => Leads(commands, poller.list, FleetList)
  BY FollowsIsLeads
<1>5. ASSUME engine = "running", ~refused
      PROVE  Leads(commands', poller'.list, FleetList)
  BY <1>1, <1>2, <1>4, <1>5, LeadsHead
<1>6. engine' = "running" /\ ~refused' => Leads(commands', poller'.list, FleetList')
  BY <1>1, <1>3, <1>5
<1> QED BY <1>6, FollowsIsLeadsNext

(* The fleet's list is the file's after a reload.                             *)
LEMMA ReconciledList ==
    ASSUME TypeInv, NEW file \in Configs, fleet'.systems = Reconciled(fleet.systems, file)
    PROVE  FleetList' = file
<1>1. fleet.systems \in Seq(Systems) /\ file \in Seq([id : Ids, endpoint : Endpoints])
  BY ConstantTypes DEF TypeInv, TypeOK
<1>2. /\ DOMAIN fleet'.systems = DOMAIN file
      /\ \A k \in DOMAIN file : /\ fleet'.systems[k].id = file[k].id
                                /\ fleet'.systems[k].endpoint = file[k].endpoint
  BY <1>1, ReconciledType
<1>3. \A k \in DOMAIN file : file[k] \in [id : Ids, endpoint : Endpoints]
  BY <1>1, ElementOfSeq, LenProperties
<1>4. \A k \in DOMAIN file :
        [id |-> fleet'.systems[k].id, endpoint |-> fleet'.systems[k].endpoint] = file[k]
  BY <1>2, <1>3
<1>5. FleetList' = [k \in DOMAIN file |-> file[k]]
  BY <1>2, <1>4 DEF FleetList
<1>6. file = [k \in DOMAIN file |-> file[k]]
  BY <1>1
<1> QED BY <1>5, <1>6

LEMMA SameList ==
    ASSUME DOMAIN fleet'.systems = DOMAIN fleet.systems,
           \A k \in DOMAIN fleet.systems :
              /\ fleet'.systems[k].id = fleet.systems[k].id
              /\ fleet'.systems[k].endpoint = fleet.systems[k].endpoint
    PROVE  FleetList' = FleetList
  BY DEF FleetList

LEMMA ReloadConfigFollows ==
    ASSUME TypeInv, PollerFollowsFleet, ReloadConfig
    PROVE  PollerFollowsFleet'
<1>1. /\ commands \in Seq(Commands) /\ poller' = poller /\ engine' = engine
      /\ Refresh \in Commands /\ \A c \in Configs : Replace(c) \in Commands
  BY DEF TypeInv, TypeOK, ReloadConfig, Commands
<1>2. ASSUME NEW file \in Configs, fleet'.systems = Reconciled(fleet.systems, file),
             Request(Replace(file)), refused' = ~Fits
      PROVE  ~refused' => Leads(commands', poller'.list, FleetList')
  <2>1. FleetList' = file
    BY <1>2, ReconciledList
  <2>2. ~refused' => commands' = Append(commands, Replace(file))
    BY <1>2 DEF Request
  <2>3. Leads(Append(commands, Replace(file)), poller'.list, file)
    BY <1>1, LeadsAppend
  <2> QED BY <2>1, <2>2, <2>3
<1>3. ASSUME fleet'.systems = fleet.systems, Request(Refresh), refused' = refused
      PROVE  engine' = "running" /\ ~refused' => Leads(commands', poller'.list, FleetList')
  <2>1. FleetList' = FleetList
    BY <1>3, SameList
  <2>2. commands' = commands \/ commands' = Append(commands, Refresh)
    BY <1>3 DEF Request
  <2>3. engine = "running" /\ ~refused => Leads(commands, poller.list, FleetList)
    BY FollowsIsLeads
  <2>4. Leads(commands, poller.list, FleetList) =>
          Leads(Append(commands, Refresh), poller.list, FleetList)
    BY <1>1, LeadsAppend
  <2> QED BY <1>1, <1>3, <2>1, <2>2, <2>3, <2>4
<1>4. engine' = "running" /\ ~refused' => Leads(commands', poller'.list, FleetList')
  BY <1>2, <1>3, ReloadConfigTypes
<1> QED BY <1>4, FollowsIsLeadsNext

LEMMA ApplyBatchList ==
    ASSUME TypeInv, ApplyBatch
    PROVE  FleetList' = FleetList
<1>1. fleet.systems \in Seq(Systems)
  BY DEF TypeInv, TypeOK
<1>2. CASE UNCHANGED fleet
  BY <1>2 DEF FleetList
<1>3. CASE fleet'.systems = AppliedAll(fleet.systems, Head(batches).results)
  <2>1. Head(batches).results \in Seq(Results)
    BY ApplyBatchTypes DEF Batches
  <2> QED BY <1>1, <1>3, <2>1, AppliedAllType, SameList
<1> QED BY <1>2, <1>3, ApplyBatchTypes

LEMMA FollowsKept ==
    ASSUME TypeInv, PollerFollowsFleet, [Next]_vars
    PROVE  PollerFollowsFleet'
<1>1. CASE /\ UNCHANGED <<commands, engine, refused>>
           /\ poller'.list = poller.list /\ FleetList' = FleetList
  <2>1. engine' = "running" /\ ~refused' => Leads(commands', poller'.list, FleetList')
    BY <1>1, FollowsIsLeads
  <2> QED BY <2>1, FollowsIsLeadsNext
<1>2. CASE ApplyBatch
  BY <1>1, <1>2, ApplyBatchList DEF ApplyBatch
<1>3. CASE Ends
  BY <1>3, EndsTypes DEF PollerFollowsFleet
<1>4. CASE \/ PollStep \/ Deliver \/ Tick \/ DropBatch \/ PollerEnds \/ PollerDies
           \/ Signal \/ UNCHANGED vars
  <2>1. UNCHANGED <<fleet, commands, engine, refused>>
    BY <1>4 DEF PollStep, Acquire, Answer, CancelPoll, Deliver, Tick, DropBatch, PollerEnds,
       PollerDies, Signal, vars
  <2>2. poller'.list = poller.list
    BY <1>4, PollStepTypes, DeliverTypes, TickTypes, QuietTypes DEF Signal, vars
  <2>3. FleetList' = FleetList
    BY <2>1 DEF FleetList
  <2> QED BY <1>1, <2>1, <2>2, <2>3
<1> QED BY <1>2, <1>3, <1>4, Steps, TakeCommandFollows, ReloadConfigFollows

(* The document, the poll task's list and the generations keep up with the     *)
(* fleet, for any channel capacities and any wrap: no batch is skipped or      *)
(* rejected, no change is left unpublished, and no order of reloads leaves the *)
(* poll task with another list, unless the channel refused one.               *)
THEOREM EveryoneKeepsUp == Spec => []FleetSound
<1> DEFINE Inv == GenerationInv /\ DocumentCurrent /\ PollerFollowsFleet
<1>1. Init => Inv
  <2> SUFFICES ASSUME Init PROVE Inv
    OBVIOUS
  <2>1. GenerationInv
    BY InitGenerations
  <2>2. DocumentCurrent
    BY DEF Init, DocumentCurrent
  <2>3. PollerFollowsFleet
    <3>1. PICK config \in Configs :
            /\ fleet = InitialFleet(config)
            /\ poller = IF config = <<>> THEN Waiting(config, 0) ELSE Generation(config, 0)
      BY DEF Init
    <3>2. poller.list = config
      BY <3>1, WaitingType, GenerationType, ConstantTypes
    <3>3. config \in Seq([id : Ids, endpoint : Endpoints])
      BY ConstantTypes
    <3>4. \A k \in DOMAIN config : config[k] \in [id : Ids, endpoint : Endpoints]
      BY <3>3, ElementOfSeq, LenProperties
    <3>5. /\ DOMAIN fleet.systems = DOMAIN config
          /\ \A k \in DOMAIN config : /\ fleet.systems[k].id = config[k].id
                                      /\ fleet.systems[k].endpoint = config[k].endpoint
      BY <3>1 DEF InitialFleet, FromEntry
    <3>6. \A k \in DOMAIN config :
            [id |-> fleet.systems[k].id, endpoint |-> fleet.systems[k].endpoint] = config[k]
      BY <3>4, <3>5
    <3>7. FleetList = [k \in DOMAIN config |-> config[k]]
      BY <3>5, <3>6 DEF FleetList
    <3>8. FleetList = config
      BY <3>3, <3>7
    <3>9. DOMAIN commands = {}
      BY DEF Init
    <3> QED BY <3>2, <3>8, <3>9, FollowsIsLeads DEF Leads
  <2> QED BY <2>1, <2>2, <2>3
<1>2. TypeInv /\ Inv /\ [Next]_vars => Inv'
  BY GenerationsKept, DocumentKept, FollowsKept
<1>3. TypeOK /\ PollingCounted => TypeInv
  BY DEF TypeInv
<1>4. TypeOK /\ Inv => FleetSound
  BY DEF FleetSound, GenerationInv
<1> QED BY <1>1, <1>2, <1>3, <1>4, TypeCorrect, PTL DEF Spec
=============================================================================

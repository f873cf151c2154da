--------------------------- MODULE HostCollector ---------------------------
(***************************************************************************)
(* One cycle after another of a native collector (crates/gregg-host:        *)
(* linux/mod.rs and its three sisters, rate.rs) and the wire bounds its      *)
(* payload has to meet (gregg-protocol/src/validate_v2.rs).                  *)
(*                                                                         *)
(* A device is plugged in and out and counts what it moves in a counter that  *)
(* wraps; the CPU has one counter, which a reset sets to zero.  The          *)
(* collector reads the devices after it has taken the time of the cycle, and *)
(* time passes in between.  Disk and network tables are read the same way, in *)
(* one direction here: a record is left out when either of its two counters  *)
(* went back.  Every disk is counted in the aggregate; of the interfaces those *)
(* that the source counts (no slaves, none whose flags it could not read) and  *)
(* that are no loopback.                                                     *)
(***************************************************************************)
EXTENDS Integers, FiniteSets

CONSTANTS
    Devices,       \* a set of numbers, in the order of the device's ids
    Loopbacks,     \* those of them that are loopback interfaces
    CounterRange,  \* counters are taken modulo this
    MaxEntries,    \* limits.max_disk_io_entries
    MaxRate,       \* MAX_RATE_BYTES_PER_SEC
    MaxClock,      \* bound on time
    MaxTraffic,    \* bound on what is moved
    MaxPlugs       \* bound on plugging and unplugging

ASSUME CollectorAssumption ==
    /\ Devices \subseteq Nat /\ IsFiniteSet(Devices) /\ Loopbacks \subseteq Devices
    /\ CounterRange \in Nat \ {0} /\ {MaxEntries, MaxRate} \subseteq Nat

VARIABLES
    linux,     \* the platform orders its steps like linux/mod.rs
    clock,     \* Instant
    ticks,     \* the CPU's counter
    previousCpu, \* previous_cpu, -1 before the first reading
    device,    \* each device: plugged, its counter, what it moved since it was read
    samples,   \* CounterBaselines::samples
    cycle,     \* "idle", or "devices" between the CPU's part and the devices'
    stamp,     \* the cycle's `now`
    payload,   \* the last payload: the devices shown with their rates, which of
               \* them are aggregate members, and the aggregate
    lastRead,  \* when the devices were last enumerated, and which were found
    traffic, plugs \* bounded counters

collectorVars == <<linux, clock, ticks, previousCpu, device, samples, cycle,
                   stamp, payload, lastRead, traffic, plugs>>

NoRate == -1
NoSample == [at |-> NoRate, count |-> NoRate]
NoPayload == [rates |-> <<>>, members |-> {}, aggregate |-> 0]
Shown(p) == DOMAIN p.rates

HostUnchanged == UNCHANGED <<clock, ticks, device, traffic, plugs>>
CycleUnchanged == UNCHANGED <<previousCpu, samples, cycle, stamp, payload, lastRead>>

-----------------------------------------------------------------------------
(* The host.                                                                 *)
TimePasses ==
    /\ clock < MaxClock
    /\ clock' = clock + 1
    /\ UNCHANGED <<linux, ticks, device, traffic, plugs>> /\ CycleUnchanged

CpuRuns ==
    /\ ticks' \in {0, 1 - ticks}
    /\ UNCHANGED <<linux, clock, device, traffic, plugs>> /\ CycleUnchanged

Transfers(d) ==
    /\ device[d].on /\ traffic < MaxTraffic
    /\ traffic' = traffic + 1
    /\ device' = [device EXCEPT ![d].count = (@ + 1) % CounterRange, ![d].moved = @ + 1]
    /\ UNCHANGED <<linux, clock, ticks, plugs>> /\ CycleUnchanged

Plugs(d) ==
    /\ plugs < MaxPlugs
    /\ plugs' = plugs + 1
    /\ device' = [device EXCEPT ![d].on = ~@, ![d].count = 0]
    /\ UNCHANGED <<linux, clock, ticks, traffic>> /\ CycleUnchanged

-----------------------------------------------------------------------------
(* sample: every early return leaves the devices and their baselines alone.     *)
Returns(base) ==
    /\ previousCpu' = base
    /\ UNCHANGED <<linux, samples, cycle, stamp, payload, lastRead>> /\ HostUnchanged

(* A source that cannot be read.                                              *)
ReadFails == cycle = "idle" /\ Returns(previousCpu)

(* The first reading, and one in which no counter advanced: both are the next   *)
(* interval's baseline.                                                      *)
Warms == cycle = "idle" /\ previousCpu = NoRate /\ Returns(ticks)
CounterReset == cycle = "idle" /\ previousCpu # NoRate /\ ticks <= previousCpu /\ Returns(ticks)

(* Memory or load that does not make sense: only Linux keeps the baseline.      *)
DerivationFails ==
    /\ cycle = "idle" /\ previousCpu # NoRate /\ ticks > previousCpu
    /\ Returns(IF linux THEN previousCpu ELSE ticks)

CpuSampled ==
    /\ cycle = "idle" /\ previousCpu # NoRate /\ ticks > previousCpu
    /\ previousCpu' = ticks
    /\ stamp' = clock /\ cycle' = "devices"
    /\ UNCHANGED <<linux, samples, payload, lastRead>> /\ HostUnchanged

(* CounterBaselines::observe.                                                 *)
Observe(known, d) ==
    LET elapsed == stamp - known[d].at
        moved == device[d].count - known[d].count
    IN  IF known[d] = NoSample \/ elapsed <= 0 \/ moved < 0 THEN NoRate ELSE moved \div elapsed

(* Variant: absent devices keep their baselines.                              *)
RetainEvery(records) == samples
(* CounterBaselines::retain_ids.                                              *)
RetainIds(records) == [d \in Devices |-> IF d \in records THEN samples[d] ELSE NoSample]

(* The limit holds for what is shown, not for what is added up.                *)
First(S) == {d \in S : Cardinality({e \in S : e < d}) < MaxEntries}
(* The rates added up, every byte of them told apart, and held at the bound.   *)
BytesOf(rate, S) == UNION {{d} \X (1 .. rate[d]) : d \in S}
Aggregate(rate, S) ==
    LET sum == Cardinality(BytesOf(rate, S)) IN IF sum < MaxRate THEN sum ELSE MaxRate

(* aggregate_member && !is_loopback.                                          *)
Members(counted) == counted \ Loopbacks

(* collect_disk_io, collect_network: the first devices that have a rate are      *)
(* shown; the aggregate is over every member that has one.                    *)
Payload(rate, members) ==
    LET rated == {d \in DOMAIN rate : rate[d] # NoRate}
        shown == First(rated)
    IN  IF shown = {} THEN NoPayload
        ELSE [rates |-> [d \in shown |-> rate[d]],
              members |-> shown \cap members,
              aggregate |-> Aggregate(rate, rated \cap members)]

CollectDevices(records, counted) ==
    LET known == RetainIds(records) IN
    /\ cycle = "devices" /\ records \subseteq {d \in Devices : device[d].on}
    /\ payload' = Payload([d \in records |-> Observe(known, d)], Members(counted))
    /\ samples' = [d \in Devices |->
                      IF d \in records THEN [at |-> stamp, count |-> device[d].count] ELSE known[d]]
    /\ device' = [d \in Devices |->
                      IF d \in records THEN [device[d] EXCEPT !.moved = 0] ELSE device[d]]
    /\ lastRead' = [stamp |-> stamp, clock |-> clock, found |-> records]
    /\ cycle' = "idle"
    /\ UNCHANGED <<linux, clock, ticks, previousCpu, stamp, traffic, plugs>>

(* A table that cannot be enumerated: every baseline is forgotten.              *)
EnumerationFails ==
    /\ cycle = "devices"
    /\ payload' = NoPayload
    /\ samples' = [d \in Devices |-> NoSample]
    /\ lastRead' = [stamp |-> stamp, clock |-> clock, found |-> {}]
    /\ cycle' = "idle"
    /\ UNCHANGED <<linux, previousCpu, stamp>> /\ HostUnchanged

-----------------------------------------------------------------------------
CollectorInit ==
    /\ linux \in BOOLEAN
    /\ clock = 0 /\ ticks = 0 /\ previousCpu = NoRate
    /\ device = [d \in Devices |-> [on |-> TRUE, count |-> 0, moved |-> 0]]
    /\ samples = [d \in Devices |-> NoSample]
    /\ cycle = "idle" /\ stamp = 0
    /\ payload = NoPayload
    /\ lastRead = [stamp |-> NoRate, clock |-> NoRate, found |-> {}]
    /\ traffic = 0 /\ plugs = 0

CollectorNext ==
    \/ TimePasses \/ CpuRuns
    \/ \E d \in Devices : Transfers(d) \/ Plugs(d)
    \/ ReadFails \/ Warms \/ CounterReset \/ DerivationFails \/ CpuSampled
    \/ \E records \in SUBSET Devices : \E counted \in SUBSET records :
          CollectDevices(records, counted)
    \/ EnumerationFails

CollectorSpec == CollectorInit /\ [][CollectorNext]_collectorVars

-----------------------------------------------------------------------------
(* What the devices of S moved since they were last read.                      *)
MovedBy(S) == Cardinality(BytesOf([d \in S |-> device[d].moved], S))

(* rate.rs: "first observations, counter decreases, zero/backward elapsed time,  *)
(* and identity disappearance/reappearance all establish a fresh baseline".    *)
(* A rate is given only for a device that the enumeration before this one also *)
(* found, it is over the time between the two, and it never claims more than   *)
(* was moved between them, across failed cycles, wraps and exchanged devices;  *)
(* nor does the aggregate claim more than everything but loopbacks moved.      *)
RatesHonest ==
    [][ cycle = "devices" /\ cycle' = "idle" =>
          /\ \A d \in Shown(payload') :
                /\ d \in lastRead.found
                /\ payload'.rates[d] * (stamp - lastRead.stamp) <= device[d].moved
          /\ payload'.aggregate * (stamp - lastRead.stamp) <= MovedBy(Devices \ Loopbacks)
      ]_collectorVars

(* "Mirrors the wire bound so detail truncation can never trip validation via a  *)
(* saturated aggregate" (model.rs), validate_network_interface: the aggregate  *)
(* is within its bound, covers the members shown or is at the bound, and no    *)
(* loopback is a member.                                                     *)
AggregateAccepted ==
    /\ payload.aggregate <= MaxRate /\ Cardinality(Shown(payload)) <= MaxEntries
    /\ payload.members \subseteq Shown(payload) \ Loopbacks
    /\ Aggregate(payload.rates, payload.members) <= payload.aggregate

CollectorSound == RatesHonest /\ []AggregateAccepted

(* "divide by actual monotonic elapsed time" (rate.rs): the time is that of the  *)
(* cycle, not of the reading.                                               *)
RateIsActual ==
    [][ cycle = "devices" /\ cycle' = "idle" =>
          \A d \in Shown(payload') :
             payload'.rates[d] * (clock - lastRead.clock) <= device[d].moved ]_collectorVars
=============================================================================

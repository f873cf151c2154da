--------------------------- MODULE CronPlaneProofs ---------------------------
(***************************************************************************)
(* Proofs about the client daemon's observation of remote schedulers, for any *)
(* systems, targets, configurations, frontends, channel and window sizes,     *)
(* history depths and caps.                                                 *)
(***************************************************************************)
EXTENDS CronPlane, SequenceTheorems, FiniteSetTheorems, NaturalsInduction, WellFoundedInduction,
        TLAPS

-----------------------------------------------------------------------------
(* What is known of a remote, and in which order it was learnt.               *)

(* x, a summary, a history or what the cache holds, is not newer than y.       *)
Before(x, y) == x.epoch = y.epoch => x.revision <= y.revision
PastOf(x, r) == x.epoch[2] <= r.epoch[2] /\ Before(x, r)
Stamp(x) == <<x.epoch, x.revision>>

RecordsOf(s, t) == s \in Seq(Records) /\ \A n \in DOMAIN s : s[n].epoch[1] = t
SummaryOf(s, t, r) == s \in Summaries /\ s.epoch[1] = t /\ PastOf(s, r)
HistoryOf(h, t, r) ==
    h \in Histories /\ h.epoch[1] = t /\ RecordsOf(h.records, t) /\ PastOf(h, r)

RemoteOf(r, t, n) ==
    r \in RemoteStates /\ r.epoch[1] = t /\ r.epoch[2] <= n + 1 /\ RecordsOf(r.records, t)

Supports(o) == o.outcome = "supported"
HasHistory(o) == o.history # None
Quiet(o) == Supports(o) /\ ~HasHistory(o) /\ ~o.historyError
Of(o, i, t) == o.id = i /\ o.target = t

ObservationOf(o, rem) ==
    /\ o.id \in Ids /\ o.target \in Targets
    /\ o.outcome \in {"supported", "unsupported", "failed"} /\ o.historyError \in BOOLEAN
    /\ Supports(o) => SummaryOf(o.summary, o.target, rem[o.target])
    /\ HasHistory(o) =>
          /\ Supports(o) /\ ~o.historyError
          /\ HistoryOf(o.history, o.target, rem[o.target])
          /\ Stamp(o.history) = Stamp(o.summary)

Reads(f) == f.phase = "history" \/ (f.phase = "finished" /\ f.outcome = "supported")
FetchOf(f, t, r) ==
    /\ f.phase \in {"pending", "history", "finished", "done"}
    /\ Reads(f) => SummaryOf(f.summary, t, r)
    /\ f.phase = "finished" =>
          /\ f.outcome \in {"supported", "unsupported", "failed"}
          /\ f.history # None =>
                f.outcome = "supported" /\ f.attempt = "fetched" /\ HistoryOf(f.history, t, r)

SystemOf(s, t, r) ==
    /\ s \in Systems /\ Len(s.records) <= PerJob /\ RecordsOf(s.records, t)
    /\ IsInjective(s.records)
    /\ s.summary # None => SummaryOf(s.summary, t, r)
    /\ s.epoch # None => s.epoch[1] = t /\ s.revision \in Nat /\ PastOf(s, r)
    /\ s.epoch # None /\ s.summary # None => Before(s, s.summary)

-----------------------------------------------------------------------------
(* The parts of the inductive invariant.                                     *)

RemoteInv == DOMAIN remote = Targets /\ \A t \in Targets : RemoteOf(remote[t], t, events)

BooksInv ==
    /\ config \in Configs /\ {permit, moved, unread, overtaken} \subseteq BOOLEAN
    /\ events \in 0 .. MaxEvents

(* The worker's round: on the list it read, with the gate pruned to it; a        *)
(* reload it has not read ends the round.                                    *)
WorkerInv ==
    /\ DOMAIN worker = {"pc", "list", "gate", "held", "fetches"}
    /\ worker.pc \in {"read", "round", "wait"}
    /\ DOMAIN worker.list \subseteq Ids /\ \A i \in DOMAIN worker.list : worker.list[i] \in Targets
    /\ DOMAIN worker.gate \subseteq Ids \X Targets
    /\ DOMAIN worker.fetches = DOMAIN worker.list
    /\ worker.pc # "round" => DOMAIN worker.fetches = {} /\ worker.held = None
    /\ IsFiniteSet(InFlight) /\ Cardinality(InFlight) <= MaxInFlight

ListInv ==
    /\ worker.pc = "round" /\ ~unread => worker.list = config
    /\ worker.pc # "read" /\ unread => permit
    /\ ~unread => DOMAIN worker.gate \subseteq Keys(config)

(* A fetch that was suppressed is one whose gate entry is its summary.          *)
Gated(gate, i, t, s) == <<i, t>> \in DOMAIN gate /\ gate[<<i, t>>] = Stamp(s)

FetchInv ==
    \A i \in DOMAIN worker.fetches :
       /\ FetchOf(worker.fetches[i], worker.list[i], remote[worker.list[i]])
       /\ worker.fetches[i].phase = "finished" /\ Reads(worker.fetches[i])
             /\ worker.fetches[i].attempt # "fetched" =>
             Gated(worker.gate, i, worker.list[i], worker.fetches[i].summary)

HeldInv ==
    worker.held # None =>
       LET o == worker.held.observation IN
       /\ ObservationOf(o, remote)
       /\ o.id \in DOMAIN worker.fetches /\ o.target = worker.list[o.id]
       /\ worker.fetches[o.id] = Done
       /\ worker.held.commit =
             IF HasHistory(o) THEN [key |-> <<o.id, o.target>>, epoch |-> o.history.epoch,
                                    revision |-> o.history.revision]
             ELSE None
       /\ Quiet(o) => Gated(worker.gate, o.id, o.target, o.summary)

ChannelInv ==
    /\ channel \in Seq(Range(channel)) /\ Len(channel) <= ChannelCapacity
    /\ \A n \in DOMAIN channel : ObservationOf(channel[n], remote)

CacheInv ==
    /\ DOMAIN cache \subseteq DOMAIN config
    /\ cache \in [DOMAIN cache -> Systems]
    /\ \A i \in DOMAIN cache : SystemOf(cache[i], config[i], remote[config[i]])
    /\ Total(cache) <= TotalCap

(* What the worker has in its hands.                                          *)
InHand(w) ==
    {[id |-> i, target |-> w.list[i], summary |-> w.fetches[i].summary] :
        i \in {k \in DOMAIN w.fetches : Reads(w.fetches[k])}}
    \cup {o \in IF w.held = None THEN {} ELSE {w.held.observation} : Supports(o)}

(* What is learnt later is not older.                                        *)
AfterCache(x, c, cfg) ==
    x.id \in DOMAIN c /\ cfg[x.id] = x.target /\ c[x.id].epoch # None => Before(c[x.id], x.summary)
AfterChannel(x, ch, n) ==
    \A m \in 1 .. n : Of(ch[m], x.id, x.target) /\ HasHistory(ch[m]) => Before(ch[m].history, x.summary)

OrderInv ==
    /\ \A n \in DOMAIN channel : Supports(channel[n]) =>
          AfterCache(channel[n], cache, config) /\ AfterChannel(channel[n], channel, n - 1)
    /\ \A x \in InHand(worker) :
          AfterCache(x, cache, config) /\ AfterChannel(x, channel, Len(channel))

(* The gate stands for the last history on its way, or else for the cache's, unless a reload          *)
(* that the worker did not see has reset it.                                  *)
HistoriesOf(ch, n, i, t) == {m \in 1 .. n : Of(ch[m], i, t) /\ HasHistory(ch[m])}
Latest(ch, S, g) == \E n \in S : Stamp(ch[n].history) = g /\ \A m \in S : m <= n
Configured(cfg, i, t) == i \in DOMAIN cfg /\ cfg[i] = t

GateStands(g, i, t, ch, c, cfg, over) ==
    LET S == HistoriesOf(ch, Len(ch), i, t) IN
    \/ Latest(ch, S, g)
    \/ /\ S = {}
       /\ Configured(cfg, i, t) =>
             \/ i \in DOMAIN c /\ Stamp(c[i]) = g
             \/ over /\ (i \in DOMAIN c => c[i].records = <<>>)

GateInv ==
    \A key \in DOMAIN worker.gate :
       GateStands(worker.gate[key], key[1], key[2], channel, cache, config, overtaken)

(* A summary without its history comes after that history, or into an empty system.     *)
QuietStands(o, n, ch, c, cfg) ==
    LET S == HistoriesOf(ch, n - 1, o.id, o.target) IN
    \/ Latest(ch, S, Stamp(o.summary))
    \/ /\ S = {}
       /\ Configured(cfg, o.id, o.target) /\ o.id \in DOMAIN c =>
             Stamp(c[o.id]) = Stamp(o.summary) \/ c[o.id].records = <<>>

QuietInv ==
    \A n \in DOMAIN channel :
       Quiet(channel[n]) => QuietStands(channel[n], n, channel, cache, config)

(* The summaries known anywhere.  A lifetime serves the job or it does not,     *)
(* and what it does not serve has no records.                                *)
Known ==
    {Summary(remote[t]) : t \in Targets} \cup {x.summary : x \in InHand(worker)}
      \cup {channel[n].summary : n \in {k \in DOMAIN channel : Supports(channel[k])}}
      \cup {cache[i].summary : i \in {k \in DOMAIN cache : cache[k].summary # None}}
LivesAgree(K) == \A a, b \in K : a.epoch = b.epoch => a.job = b.job
EndedEmpty(K, c) ==
    \A i \in DOMAIN c : \A a \in K : a.epoch = c[i].epoch /\ ~a.job => c[i].records = <<>>
QuietEmpty(c) ==
    \A i \in DOMAIN c :
       c[i].summary # None /\ ~c[i].error => c[i].summary.job \/ c[i].records = <<>>
JobInv == LivesAgree(Known) /\ EndedEmpty(Known, cache) /\ QuietEmpty(cache)

ObservationInv ==
    /\ RemoteInv /\ BooksInv /\ WorkerInv /\ ListInv /\ FetchInv /\ HeldInv /\ ChannelInv
    /\ CacheInv /\ OrderInv /\ GateInv /\ QuietInv /\ JobInv /\ DocumentCurrent

-----------------------------------------------------------------------------
(* Numbers and sequences.                                                    *)

LEMMA LeastOf ==
    ASSUME NEW S \in SUBSET Nat, S # {}
    PROVE  \E x \in S : \A y \in S : x <= y
<1>1. \E x \in S : \A y \in S : ~(y < x)
  <2> DEFINE R == OpToRel(<, Nat)
  <2>1. \A x, y \in Nat : x < y => <<x, y>> \in R BY DEF OpToRel
  <2>2. IsWellFoundedOn(R, Nat) BY NatLessThanWellFounded
  <2> HIDE DEF R
  <2>3. PICK x \in S : \A y \in S : ~(<<y, x>> \in R) BY <2>2, WFMin
  <2> QED BY <2>1, <2>3, Zenon
<1> QED BY <1>1

(* Induction up to N, on a set of numbers.                                    *)
LEMMA UpTo ==
    ASSUME NEW N \in Nat, NEW P, 0 \in P, \A n \in 1 .. N : n - 1 \in P => n \in P
    PROVE  \A n \in 0 .. N : n \in P
<1> DEFINE Q == {n \in 0 .. N : n \notin P}
<1>1. SUFFICES ASSUME Q # {} PROVE FALSE OBVIOUS
<1>2. Q \in SUBSET Nat OBVIOUS
<1>3. PICK x \in Q : \A y \in Q : x <= y
  <2> HIDE DEF Q
  <2> QED BY <1>1, <1>2, LeastOf
<1>4. x \in 1 .. N /\ x - 1 \in 0 .. N /\ x - 1 < x BY <1>3
<1>5. x - 1 \notin Q
  <2> HIDE DEF Q
  <2> QED BY <1>3, <1>4
<1>6. x - 1 \in P BY <1>4, <1>5
<1> QED BY <1>3, <1>4, <1>6

LEMMA NewestFacts ==
    ASSUME NEW R, NEW s \in Seq(R), NEW k \in Nat
    PROVE  /\ Newest(s, k) \in Seq(R) /\ Len(Newest(s, k)) <= k
           /\ Len(s) <= k => Newest(s, k) = s
           /\ \E d \in Nat : \A n \in DOMAIN Newest(s, k) :
                 n + d \in DOMAIN s /\ Newest(s, k)[n] = s[n + d]
<1> DEFINE w == Newest(s, k)
<1>1. CASE Len(s) <= k
  <2>1. w = s BY <1>1 DEF Newest
  <2>2. \A n \in DOMAIN w : n + 0 \in DOMAIN s /\ w[n] = s[n + 0]
    BY <2>1, LenProperties
  <2> HIDE DEF w
  <2>3. \E d \in Nat : \A n \in DOMAIN w : n + d \in DOMAIN s /\ w[n] = s[n + d]
    BY <2>2
  <2> QED BY <2>1, <2>3, <1>1 DEF w
<1>2. CASE ~(Len(s) <= k)
  <2> DEFINE d == Len(s) - k
  <2>1. Len(s) \in Nat /\ d \in Nat /\ d + 1 \in 1 .. Len(s) + 1 /\ Len(s) \in d .. Len(s)
    BY <1>2, LenProperties
  <2>2. w = SubSeq(s, d + 1, Len(s)) BY <1>2, <2>1 DEF Newest
  <2>3. w \in Seq(R) /\ Len(w) = k /\ \A n \in 1 .. Len(w) : w[n] = s[d + n]
    BY <1>2, <2>1, <2>2, SubSeqProperties
  <2>4. \A n \in DOMAIN w : n + d \in DOMAIN s /\ w[n] = s[n + d]
    BY <2>1, <2>3, LenProperties
  <2> HIDE DEF w, d
  <2>5. \E e \in Nat : \A n \in DOMAIN w : n + e \in DOMAIN s /\ w[n] = s[n + e]
    BY <2>1, <2>4
  <2> QED BY <2>3, <2>5, <1>2 DEF w
<1> QED BY <1>1, <1>2, LenProperties

(* What is taken of a sequence at its back is injective if the sequence is.      *)
LEMMA ShiftedInjective ==
    ASSUME NEW s, NEW w, NEW d \in Nat, DOMAIN w \subseteq Nat, IsInjective(s),
           \A n \in DOMAIN w : n + d \in DOMAIN s /\ w[n] = s[n + d]
    PROVE  IsInjective(w)
BY DEF IsInjective

LEMMA NewestKeeps ==
    ASSUME NEW s, NEW k \in Nat, NEW t, RecordsOf(s, t), IsInjective(s)
    PROVE  /\ RecordsOf(Newest(s, k), t) /\ IsInjective(Newest(s, k))
           /\ Len(Newest(s, k)) <= k /\ (Len(s) <= k => Newest(s, k) = s)
<1>1. s \in Seq(Records) BY DEF RecordsOf
<1> DEFINE w == Newest(s, k)
<1>2. w \in Seq(Records) /\ Len(w) <= k /\ (Len(s) <= k => w = s) BY <1>1, NewestFacts
<1>3. PICK d \in Nat : \A n \in DOMAIN w : n + d \in DOMAIN s /\ w[n] = s[n + d]
  BY <1>1, NewestFacts
<1> HIDE DEF w
<1>4. DOMAIN w \subseteq Nat BY <1>2, LenProperties
<1>5. IsInjective(w) BY <1>3, <1>4, ShiftedInjective
<1>6. RecordsOf(w, t) BY <1>2, <1>3 DEF RecordsOf
<1> QED BY <1>2, <1>5, <1>6 DEF w

LEMMA TailKeeps ==
    ASSUME NEW s \in Seq(Records), s # <<>>
    PROVE  /\ Tail(s) \in Seq(Records) /\ Len(s) \in Nat \ {0}
           /\ DOMAIN Tail(s) = 1 .. Len(s) - 1 /\ DOMAIN s = 1 .. Len(s)
           /\ Len(Tail(s)) <= Len(s) /\ Head(s) \in Records
           /\ \A t : RecordsOf(s, t) => RecordsOf(Tail(s), t)
           /\ IsInjective(s) => IsInjective(Tail(s))
<1> DEFINE w == Tail(s)
<1>2. w \in Seq(Records) /\ Len(w) = Len(s) - 1 /\ \A n \in 1 .. Len(w) : w[n] = s[n + 1]
  BY HeadTailProperties
<1>3. Len(s) \in Nat /\ DOMAIN s = 1 .. Len(s) /\ Len(w) \in Nat /\ DOMAIN w = 1 .. Len(w)
  BY <1>2, LenProperties
<1>4. Len(s) # 0 /\ Head(s) \in Records BY EmptySeq, HeadTailProperties
<1> HIDE DEF w
<1>5. \A n \in DOMAIN w : n + 1 \in DOMAIN s /\ w[n] = s[n + 1] BY <1>2, <1>3
<1>6. DOMAIN w \subseteq Nat BY <1>3
<1>7. IsInjective(s) => IsInjective(w) BY <1>5, <1>6, ShiftedInjective
<1>8. \A t : RecordsOf(s, t) => RecordsOf(w, t) BY <1>2, <1>5 DEF RecordsOf
<1> QED BY <1>2, <1>3, <1>4, <1>7, <1>8 DEF w

(* Merged goes through the new records one by one.                            *)
LEMMA MergedUnfolds ==
    ASSUME NEW old, NEW new, Len(new) \in Nat
    PROVE  \E g : /\ DOMAIN g = 0 .. Len(new) /\ g[0] = old
                  /\ \A n \in 1 .. Len(new) :
                        g[n] = IF new[n] \in ToSet(g[n - 1]) THEN g[n - 1]
                               ELSE Append(g[n - 1], new[n])
                  /\ Merged(old, new) = g[Len(new)]
<1> DEFINE N == Len(new)
           Next1(x, n) == IF new[n] \in ToSet(x) THEN x ELSE Append(x, new[n])
           Steps(f, k) == f = [n \in 0 .. k |-> IF n = 0 THEN old ELSE Next1(f[n - 1], n)]
           P == {k \in 0 .. N : \E f : Steps(f, k)}
           G == CHOOSE f : Steps(f, N)
<1> HIDE DEF Next1
<1>1. 0 \in P
  <2>1. Steps([n \in 0 .. 0 |-> old], 0) OBVIOUS
  <2> HIDE DEF Steps
  <2> QED BY <2>1
<1>2. ASSUME NEW n \in 1 .. N, n - 1 \in P PROVE n \in P
  <2>1. PICK f : Steps(f, n - 1) BY <1>2
  <2> DEFINE h == [k \in 0 .. n |-> IF k < n THEN f[k] ELSE Next1(f[n - 1], n)]
  <2>2. \A k \in 0 .. n : h[k] = IF k = 0 THEN old ELSE Next1(h[k - 1], k)
    <3> TAKE k \in 0 .. n
    <3>1. CASE k = n
      <4>1. h[k] = Next1(f[n - 1], n) /\ h[k - 1] = f[n - 1] BY <3>1
      <4> QED BY <4>1, <3>1
    <3>2. CASE k < n
      <4>1. h[k] = f[k] /\ k \in 0 .. n - 1 BY <3>2
      <4>2. f[k] = IF k = 0 THEN old ELSE Next1(f[k - 1], k) BY <2>1, <4>1
      <4>3. k # 0 => h[k - 1] = f[k - 1] BY <3>2
      <4> QED BY <4>1, <4>2, <4>3
    <3> QED BY <3>1, <3>2
  <2>3. h = [k \in 0 .. n |-> h[k]] OBVIOUS
  <2> HIDE DEF h
  <2>4. Steps(h, n) BY <2>2, <2>3
  <2> HIDE DEF Steps
  <2> QED BY <2>4
<1>3. N \in P
  <2> HIDE DEF P
  <2>1. \A n \in 0 .. N : n \in P BY <1>1, <1>2, UpTo
  <2> QED BY <2>1
<1>4. Steps(G, N)
  <2>1. \E f : Steps(f, N) BY <1>3
  <2> HIDE DEF Steps
  <2> QED BY <2>1
<1>5. Merged(old, new) = G[N] BY DEF Merged, Next1
<1> HIDE DEF G
<1>6. DOMAIN G = 0 .. N /\ G[0] = old /\ \A n \in 1 .. N : G[n] = Next1(G[n - 1], n)
  BY <1>4
<1> QED BY <1>5, <1>6 DEF Next1

LEMMA MergedKeeps ==
    ASSUME NEW t, NEW old, NEW new, RecordsOf(old, t), RecordsOf(new, t), IsInjective(old)
    PROVE  RecordsOf(Merged(old, new), t) /\ IsInjective(Merged(old, new))
<1>1. new \in Seq(Records) /\ Len(new) \in Nat /\ DOMAIN new = 1 .. Len(new)
  BY LenProperties DEF RecordsOf
<1> DEFINE N == Len(new)
<1>2. PICK g : /\ DOMAIN g = 0 .. N /\ g[0] = old
               /\ \A n \in 1 .. N :
                     g[n] = IF new[n] \in ToSet(g[n - 1]) THEN g[n - 1]
                            ELSE Append(g[n - 1], new[n])
               /\ Merged(old, new) = g[N]
  BY <1>1, MergedUnfolds
<1> DEFINE P == {n \in 0 .. N : RecordsOf(g[n], t) /\ IsInjective(g[n])}
<1>3. 0 \in P BY <1>1, <1>2
<1>4. ASSUME NEW n \in 1 .. N, n - 1 \in P PROVE n \in P
  <2> DEFINE s == g[n - 1]
             r == new[n]
             w == Append(s, r)
  <2>1. RecordsOf(s, t) /\ IsInjective(s) BY <1>4
  <2>2. r \in Records /\ r.epoch[1] = t
    <3>1. n \in DOMAIN new BY <1>1
    <3>2. new \in [1 .. N -> Records] BY <1>1, LenProperties
    <3> QED BY <3>1, <3>2 DEF RecordsOf
  <2>3. CASE r \in ToSet(s)
    <3>1. g[n] = s BY <1>2, <2>3
    <3> QED BY <3>1, <2>1
  <2>4. CASE r \notin ToSet(s)
    <3>1. g[n] = w BY <1>2, <2>4
    <3>2. s \in Seq(Records) /\ Len(s) \in Nat /\ DOMAIN s = 1 .. Len(s)
      BY <2>1, LenProperties DEF RecordsOf
    <3> HIDE DEF s, r
    <3>3. /\ w \in Seq(Records) /\ Len(w) = Len(s) + 1
          /\ \A k \in 1 .. Len(s) : w[k] = s[k]
          /\ w[Len(s) + 1] = r
      BY <3>2, <2>2, AppendProperties
    <3>4. DOMAIN w = 1 .. Len(s) + 1 BY <3>3, LenProperties
    <3> HIDE DEF w
    <3>5. RecordsOf(w, t) BY <2>1, <2>2, <3>2, <3>3, <3>4 DEF RecordsOf
    <3>6. \A k \in 1 .. Len(s) : s[k] # r BY <2>4, <3>2 DEF ToSet
    <3>7. IsInjective(w) BY <2>1, <3>2, <3>3, <3>4, <3>6 DEF IsInjective
    <3> QED BY <3>1, <3>5, <3>7
  <2> QED BY <2>3, <2>4
<1>5. N \in P
  <2> HIDE DEF P
  <2>1. \A n \in 0 .. N : n \in P BY <1>1, <1>3, <1>4, UpTo
  <2> QED BY <1>1, <2>1
<1> QED BY <1>2, <1>5

-----------------------------------------------------------------------------
(* The records a cache holds, and how it drops the oldest.                    *)

CacheOf(c) == DOMAIN c \subseteq Ids /\ c \in [DOMAIN c -> Systems]

(* b is a with fewer records.                                                *)
Shrunk(a, b) ==
    /\ b \in Systems
    /\ b.capability = a.capability /\ b.summary = a.summary /\ b.epoch = a.epoch
    /\ b.revision = a.revision /\ b.error = a.error
    /\ Len(b.records) <= Len(a.records) /\ (a.records = <<>> => b.records = <<>>)
    /\ \A t : RecordsOf(a.records, t) => RecordsOf(b.records, t)
    /\ IsInjective(a.records) => IsInjective(b.records)
ShrunkCache(c, d) == CacheOf(d) /\ DOMAIN d = DOMAIN c /\ \A i \in DOMAIN c : Shrunk(c[i], d[i])

LEMMA CachedRecords ==
    ASSUME NEW c, CacheOf(c), NEW i \in DOMAIN c
    PROVE  /\ c[i].records \in Seq(Records) /\ Len(c[i].records) \in Nat
           /\ DOMAIN c[i].records = 1 .. Len(c[i].records)
<1>1. c[i] \in Systems BY DEF CacheOf
<1>2. c[i].records \in Seq(Records) BY <1>1 DEF Systems
<1> QED BY <1>2, LenProperties

LEMMA RetainedFinite ==
    ASSUME NEW c, CacheOf(c)
    PROVE  IsFiniteSet(Retained(c)) /\ Total(c) \in Nat
<1> DEFINE D == DOMAIN c
           places(i) == {i} \X DOMAIN c[i].records
           parts == {places(i) : i \in D}
<1>1. ASSUME NEW i \in D PROVE IsFiniteSet(places(i))
  <2> DEFINE n == Len(c[i].records)
  <2>1. n \in Nat /\ DOMAIN c[i].records = 1 .. n BY CachedRecords
  <2>2. n \in Int /\ 1 \in Int BY <2>1
  <2>3. IsFiniteSet(1 .. n) BY <2>2, FS_Interval
  <2>4. IsFiniteSet({i}) BY FS_Singleton
  <2>5. IsFiniteSet(DOMAIN c[i].records) BY <2>1, <2>3
  <2> QED BY <2>4, <2>5, FS_Product
<1>2. IsFiniteSet(D) BY FS_Subset, ConstantsAssumption DEF CacheOf, ConstantsAssumption
<1>3. IsFiniteSet(parts)
  <2> DEFINE f == [i \in D |-> places(i)]
  <2>1. f \in Surjection(D, parts)
    <3> HIDE DEF places
    <3> QED BY DEF Surjection
  <2> HIDE DEF f, parts
  <2> QED BY <1>2, <2>1, FS_Surjection
<1>4. \A P \in parts : IsFiniteSet(P)
  <2> HIDE DEF places
  <2> QED BY <1>1
<1>5. IsFiniteSet(UNION parts)
  <2> HIDE DEF parts
  <2> QED BY <1>3, <1>4, FS_UNION
<1>6. Retained(c) = UNION parts BY DEF Retained
<1> QED BY <1>5, <1>6, FS_CardinalityType DEF Total

LEMMA InRetained ==
    ASSUME NEW c, NEW p
    PROVE  p \in Retained(c) <=> \E i \in DOMAIN c : \E n \in DOMAIN c[i].records : p = <<i, n>>
BY DEF Retained

(* A cache whose systems hold at most the same places holds no more.            *)
LEMMA RetainedSubset ==
    ASSUME NEW c, NEW d, CacheOf(c), CacheOf(d),
           \A i \in DOMAIN d : \A n \in DOMAIN d[i].records :
              i \in DOMAIN c /\ n \in DOMAIN c[i].records
    PROVE  Total(d) <= Total(c)
<1>1. Retained(d) \in SUBSET Retained(c)
  <2>1. ASSUME NEW p \in Retained(d) PROVE p \in Retained(c)
    <3>1. PICK i \in DOMAIN d : \E n \in DOMAIN d[i].records : p = <<i, n>> BY InRetained
    <3> QED BY <3>1, InRetained
  <2> QED BY <2>1
<1> QED BY <1>1, RetainedFinite, FS_Subset DEF Total

LEMMA ShrinksItself ==
    ASSUME NEW c, CacheOf(c)
    PROVE  ShrunkCache(c, c)
<1>1. \A i \in DOMAIN c : Shrunk(c[i], c[i])
  <2> TAKE i \in DOMAIN c
  <2>1. c[i] \in Systems BY DEF CacheOf
  <2>2. Len(c[i].records) \in Nat BY CachedRecords
  <2> QED BY <2>1, <2>2 DEF Shrunk
<1> QED BY <1>1 DEF ShrunkCache

LEMMA ShrinksFurther ==
    ASSUME NEW c, NEW d, NEW e, CacheOf(c), ShrunkCache(c, d), ShrunkCache(d, e)
    PROVE  ShrunkCache(c, e)
<1>1. CacheOf(d) /\ CacheOf(e) /\ DOMAIN d = DOMAIN c /\ DOMAIN e = DOMAIN c BY DEF ShrunkCache
<1>2. \A i \in DOMAIN c : Shrunk(c[i], e[i])
  <2> TAKE i \in DOMAIN c
  <2>1. Shrunk(c[i], d[i]) /\ Shrunk(d[i], e[i]) BY <1>1 DEF ShrunkCache
  <2>2. /\ Len(c[i].records) \in Nat /\ Len(d[i].records) \in Nat
        /\ Len(e[i].records) \in Nat
    BY <1>1, CachedRecords
  <2>3. Len(e[i].records) <= Len(c[i].records) BY <2>1, <2>2 DEF Shrunk
  <2> QED BY <2>1, <2>3, Zenon DEF Shrunk
<1> QED BY <1>1, <1>2 DEF ShrunkCache

(* The record of the oldest system goes, and only it.                         *)
LEMMA DropOldestFacts ==
    ASSUME NEW c, CacheOf(c), Total(c) > 0
    PROVE  ShrunkCache(c, DropOldest(c)) /\ Total(DropOldest(c)) = Total(c) - 1
<1> DEFINE holding == {i \in DOMAIN c : c[i].records # <<>>}
           age(i) == Head(c[i].records).seq
           ages == {age(i) : i \in holding}
           v == CHOOSE i \in holding : \A k \in holding : age(i) <= age(k)
           d == [c EXCEPT ![v].records = Tail(@)]
<1>1. DropOldest(c) = d BY DEF DropOldest
<1>2. holding # {}
  <2>1. Retained(c) # {} BY FS_EmptySet DEF Total
  <2>2. PICK i \in DOMAIN c : \E n \in DOMAIN c[i].records : TRUE BY <2>1, InRetained
  <2>3. c[i].records # <<>>
    <3>1. Len(<<>>) = 0 BY EmptySeq
    <3> QED BY <2>2, <3>1, CachedRecords
  <2> QED BY <2>3
<1>3. \A i \in holding : age(i) \in Nat
  <2> TAKE i \in holding
  <2>1. Head(c[i].records) \in Records BY CachedRecords, TailKeeps
  <2>2. 1 .. Ring + MaxEvents \subseteq Nat
    <3>1. Ring \in Nat /\ MaxEvents \in Nat BY ConstantsAssumption DEF ConstantsAssumption
    <3> QED BY <3>1
  <2> QED BY <2>1, <2>2 DEF Records
<1>4. \E i \in holding : \A k \in holding : age(i) <= age(k)
  <2>1. ages \in SUBSET Nat BY <1>3
  <2>2. ages # {} BY <1>2
  <2>3. PICK a \in ages : \A b \in ages : a <= b
    <3> HIDE DEF ages
    <3> QED BY <2>1, <2>2, LeastOf
  <2> QED BY <2>3
<1>5. v \in holding
  <2> HIDE DEF holding, age
  <2> QED BY <1>4
<1> HIDE DEF v
<1> DEFINE s == c[v].records
<1>6. s \in Seq(Records) /\ s # <<>> /\ v \in DOMAIN c /\ c[v] \in Systems
  BY <1>5, CachedRecords DEF CacheOf
<1>7. /\ DOMAIN d = DOMAIN c /\ \A i \in DOMAIN c : i # v => d[i] = c[i]
      /\ d[v] = [c[v] EXCEPT !.records = Tail(s)]
  BY <1>6
<1>8. /\ d[v].capability = c[v].capability /\ d[v].summary = c[v].summary
      /\ d[v].epoch = c[v].epoch /\ d[v].revision = c[v].revision
      /\ d[v].error = c[v].error /\ d[v].records = Tail(s) /\ d[v] \in Systems
  <2>1. Tail(s) \in Seq(Records) BY <1>6, TailKeeps
  <2> DEFINE S1 == Summaries \cup {None}
             S2 == Epochs \cup {None}
             S3 == Nat \cup {None}
             S4 == Seq(Records)
  <2>2. c[v] \in [capability : Capabilities, summary : S1, epoch : S2, revision : S3,
                  error : BOOLEAN, records : S4]
    BY <1>6 DEF Systems
  <2>3. d[v] \in [capability : Capabilities, summary : S1, epoch : S2, revision : S3,
                  error : BOOLEAN, records : S4]
    <3> HIDE DEF S1, S2, S3, S4, d, s
    <3> QED BY <2>1, <2>2, <1>7 DEF S4
  <2>4. d[v] \in Systems BY <2>3 DEF Systems
  <2> HIDE DEF S1, S2, S3, S4, d, s
  <2> QED BY <2>2, <2>4, <1>7
<1> HIDE DEF d
<1>9. CacheOf(d)
  <2>1. \A i \in DOMAIN d : d[i] \in Systems BY <1>7, <1>8 DEF CacheOf
  <2>2. d \in [DOMAIN d -> Systems]
    <3>1. d = [i \in DOMAIN d |-> d[i]] BY DEF d
    <3> QED BY <3>1, <2>1
  <2> QED BY <2>2, <1>7 DEF CacheOf
<1>10. ShrunkCache(c, d)
  <2>1. Shrunk(c[v], d[v]) BY <1>6, <1>8, TailKeeps DEF Shrunk
  <2>2. \A i \in DOMAIN c : Shrunk(c[i], c[i]) BY ShrinksItself DEF ShrunkCache
  <2> QED BY <2>1, <2>2, <1>7, <1>9 DEF ShrunkCache
<1>11. Retained(d) = Retained(c) \ {<<v, Len(s)>>}
  <2>1. /\ DOMAIN d[v].records = 1 .. Len(s) - 1 /\ DOMAIN c[v].records = 1 .. Len(s)
        /\ Len(s) \in Nat \ {0}
    BY <1>6, <1>8, TailKeeps
  <2> HIDE DEF s
  <2>2. ASSUME NEW p \in Retained(d) PROVE p \in Retained(c) \ {<<v, Len(s)>>}
    <3>1. PICK i \in DOMAIN d : \E n \in DOMAIN d[i].records : p = <<i, n>> BY <2>2, InRetained
    <3>2. PICK n \in DOMAIN d[i].records : p = <<i, n>> BY <3>1
    <3>3. n \in DOMAIN c[i].records /\ (i = v => n # Len(s))
      <4>1. CASE i = v BY <4>1, <3>2, <2>1
      <4>2. CASE i # v BY <4>2, <3>2, <1>7
      <4> QED BY <4>1, <4>2
    <3> QED BY <3>2, <3>3, <1>7, InRetained
  <2>3. ASSUME NEW p \in Retained(c), p # <<v, Len(s)>> PROVE p \in Retained(d)
    <3>1. PICK i \in DOMAIN c : \E n \in DOMAIN c[i].records : p = <<i, n>> BY <2>3, InRetained
    <3>2. PICK n \in DOMAIN c[i].records : p = <<i, n>> BY <3>1
    <3>3. n \in DOMAIN d[i].records
      <4>1. CASE i = v
        <5>1. n # Len(s) BY <4>1, <3>2, <2>3
        <5> QED BY <4>1, <5>1, <3>2, <2>1
      <4>2. CASE i # v BY <4>2, <3>2, <1>7
      <4> QED BY <4>1, <4>2
    <3> QED BY <3>2, <3>3, <1>7, InRetained
  <2> QED BY <2>2, <2>3
<1>12. <<v, Len(s)>> \in Retained(c) BY <1>6, TailKeeps, InRetained
<1>13. Total(d) = Total(c) - 1
  <2>1. IsFiniteSet(Retained(c)) BY RetainedFinite
  <2>2. Cardinality(Retained(c) \ {<<v, Len(s)>>}) = Cardinality(Retained(c)) - 1
    BY <1>12, <2>1, FS_RemoveElement
  <2> QED BY <1>11, <2>2 DEF Total
<1> QED BY <1>1, <1>10, <1>13 DEF d

(* EnforceTotal drops one record after another.                               *)
LEMMA EnforceUnfolds ==
    ASSUME NEW c, NEW N \in Nat, N = IF Total(c) > TotalCap THEN Total(c) - TotalCap ELSE 0
    PROVE  \E g : /\ DOMAIN g = 0 .. N /\ g[0] = c
                  /\ \A n \in 1 .. N : g[n] = DropOldest(g[n - 1])
                  /\ EnforceTotal(c) = g[N]
<1> DEFINE Steps(f, k) == f = [n \in 0 .. k |-> IF n = 0 THEN c ELSE DropOldest(f[n - 1])]
           P == {k \in 0 .. N : \E f : Steps(f, k)}
           G == CHOOSE f : Steps(f, N)
<1>1. 0 \in P
  <2>1. Steps([n \in 0 .. 0 |-> c], 0) OBVIOUS
  <2> HIDE DEF Steps
  <2> QED BY <2>1
<1>2. ASSUME NEW n \in 1 .. N, n - 1 \in P PROVE n \in P
  <2>1. PICK f : Steps(f, n - 1) BY <1>2
  <2> DEFINE h == [k \in 0 .. n |-> IF k < n THEN f[k] ELSE DropOldest(f[n - 1])]
  <2>2. \A k \in 0 .. n : h[k] = IF k = 0 THEN c ELSE DropOldest(h[k - 1])
    <3> TAKE k \in 0 .. n
    <3>1. CASE k = n
      <4>1. h[k] = DropOldest(f[n - 1]) /\ h[k - 1] = f[n - 1] BY <3>1
      <4> QED BY <4>1, <3>1
    <3>2. CASE k < n
      <4>1. h[k] = f[k] /\ k \in 0 .. n - 1 BY <3>2
      <4>2. f[k] = IF k = 0 THEN c ELSE DropOldest(f[k - 1]) BY <2>1, <4>1
      <4>3. k # 0 => h[k - 1] = f[k - 1] BY <3>2
      <4> QED BY <4>1, <4>2, <4>3
    <3> QED BY <3>1, <3>2
  <2>3. h = [k \in 0 .. n |-> h[k]] OBVIOUS
  <2> HIDE DEF h
  <2>4. Steps(h, n) BY <2>2, <2>3
  <2> HIDE DEF Steps
  <2> QED BY <2>4
<1>3. N \in P
  <2> HIDE DEF P
  <2>1. \A n \in 0 .. N : n \in P BY <1>1, <1>2, UpTo
  <2> QED BY <2>1
<1>4. Steps(G, N)
  <2>1. \E f : Steps(f, N) BY <1>3
  <2> HIDE DEF Steps
  <2> QED BY <2>1
<1>5. EnforceTotal(c) = G[N] BY DEF EnforceTotal
<1> HIDE DEF G
<1>6. DOMAIN G = 0 .. N /\ G[0] = c /\ \A n \in 1 .. N : G[n] = DropOldest(G[n - 1])
  BY <1>4
<1> QED BY <1>5, <1>6

LEMMA EnforceTotalFacts ==
    ASSUME NEW c, CacheOf(c)
    PROVE  /\ ShrunkCache(c, EnforceTotal(c)) /\ Total(EnforceTotal(c)) <= TotalCap
           /\ Total(c) <= TotalCap => EnforceTotal(c) = c
<1>1. Total(c) \in Nat /\ TotalCap \in Nat
  BY RetainedFinite, ConstantsAssumption DEF ConstantsAssumption
<1> DEFINE N == IF Total(c) > TotalCap THEN Total(c) - TotalCap ELSE 0
<1>2. N \in Nat BY <1>1
<1>3. PICK g : /\ DOMAIN g = 0 .. N /\ g[0] = c
               /\ \A n \in 1 .. N : g[n] = DropOldest(g[n - 1])
               /\ EnforceTotal(c) = g[N]
  BY <1>2, EnforceUnfolds
<1> DEFINE P == {n \in 0 .. N : ShrunkCache(c, g[n]) /\ Total(g[n]) = Total(c) - n}
<1>4. 0 \in P BY <1>1, <1>2, <1>3, ShrinksItself
<1>5. ASSUME NEW n \in 1 .. N, n - 1 \in P PROVE n \in P
  <2>1. ShrunkCache(c, g[n - 1]) /\ Total(g[n - 1]) = Total(c) - (n - 1) BY <1>5
  <2>2. CacheOf(g[n - 1]) /\ Total(g[n - 1]) > 0 BY <1>1, <2>1 DEF ShrunkCache
  <2>3. g[n] = DropOldest(g[n - 1]) BY <1>3
  <2>4. ShrunkCache(g[n - 1], g[n]) /\ Total(g[n]) = Total(g[n - 1]) - 1
    BY <2>2, <2>3, DropOldestFacts
  <2>5. ShrunkCache(c, g[n]) BY <2>1, <2>4, ShrinksFurther
  <2>6. Total(g[n]) = Total(c) - n BY <1>1, <2>1, <2>4
  <2> QED BY <2>5, <2>6
<1>6. N \in P
  <2> HIDE DEF P
  <2>1. \A n \in 0 .. N : n \in P BY <1>2, <1>4, <1>5, UpTo
  <2> QED BY <1>2, <2>1
<1>7. ShrunkCache(c, g[N]) /\ Total(g[N]) = Total(c) - N BY <1>6
<1> QED BY <1>1, <1>3, <1>7

-----------------------------------------------------------------------------
(* What an observation does to one system of the cache.                       *)

SystemFields == {"capability", "summary", "epoch", "revision", "error", "records"}

(* A record with the fields of a system, each of its set, is one.               *)
LEMMA IsSystem ==
    ASSUME NEW s, DOMAIN s = SystemFields, s = [x \in SystemFields |-> s[x]],
           s.capability \in Capabilities, s.summary \in Summaries \cup {None},
           s.epoch \in Epochs \cup {None}, s.revision \in Nat \cup {None},
           s.error \in BOOLEAN, s.records \in Seq(Records)
    PROVE  s \in Systems
<1> DEFINE S1 == Summaries \cup {None}
           S2 == Epochs \cup {None}
           S3 == Nat \cup {None}
           S4 == Seq(Records)
<1>1. s.summary \in S1 /\ s.epoch \in S2 /\ s.revision \in S3 /\ s.records \in S4 OBVIOUS
<1>2. s \in [capability : Capabilities, summary : S1, epoch : S2, revision : S3,
             error : BOOLEAN, records : S4]
  <2> HIDE DEF S1, S2, S3, S4
  <2> QED BY <1>1 DEF SystemFields
<1> QED BY <1>2 DEF Systems

LEMMA SystemParts ==
    ASSUME NEW s \in Systems
    PROVE  /\ DOMAIN s = SystemFields /\ s = [x \in SystemFields |-> s[x]]
           /\ s.capability \in Capabilities /\ s.summary \in Summaries \cup {None}
           /\ s.epoch \in Epochs \cup {None} /\ s.revision \in Nat \cup {None}
           /\ s.error \in BOOLEAN /\ s.records \in Seq(Records)
<1> DEFINE S1 == Summaries \cup {None}
           S2 == Epochs \cup {None}
           S3 == Nat \cup {None}
           S4 == Seq(Records)
<1>1. s \in [capability : Capabilities, summary : S1, epoch : S2, revision : S3,
             error : BOOLEAN, records : S4]
  BY DEF Systems
<1>2. /\ DOMAIN s = SystemFields /\ s = [x \in SystemFields |-> s[x]]
      /\ s.capability \in Capabilities /\ s.summary \in S1 /\ s.epoch \in S2
      /\ s.revision \in S3 /\ s.error \in BOOLEAN /\ s.records \in S4
  <2> HIDE DEF S1, S2, S3, S4
  <2> QED BY <1>1 DEF SystemFields
<1> QED BY <1>2

LEMMA NoRecords ==
    ASSUME NEW t
    PROVE  RecordsOf(<<>>, t) /\ IsInjective(<<>>) /\ Len(<<>>) = 0 /\ <<>> \in Seq(Records)
<1>1. <<>> \in Seq(Records) /\ Len(<<>>) = 0 BY EmptySeq
<1>2. DOMAIN <<>> = {} BY <1>1, LenProperties
<1> QED BY <1>1, <1>2 DEF RecordsOf, IsInjective

LEMMA PerJobNat == PerJob \in Nat /\ TotalCap \in Nat
BY ConstantsAssumption DEF ConstantsAssumption

LEMMA UnknownSystem ==
    ASSUME NEW t, NEW r
    PROVE  SystemOf(Unknown, t, r)
<1>1. /\ Unknown.capability = "unknown" /\ Unknown.summary = None /\ Unknown.epoch = None
      /\ Unknown.revision = None /\ Unknown.error = FALSE /\ Unknown.records = <<>>
      /\ DOMAIN Unknown = SystemFields /\ Unknown = [x \in SystemFields |-> Unknown[x]]
  BY DEF Unknown, SystemFields
<1>2. Unknown \in Systems BY <1>1, IsSystem, NoRecords DEF Capabilities
<1> QED BY <1>1, <1>2, NoRecords, PerJobNat DEF SystemOf

LEMMA SystemKnown ==
    ASSUME NEW c, NEW i, NEW t, NEW r, i \in DOMAIN c => SystemOf(c[i], t, r)
    PROVE  SystemOf(System(c, i), t, r)
BY UnknownSystem DEF System

(* The fields of a system after an observation.                               *)
LEMMA AppliedFields ==
    ASSUME NEW s \in Systems, NEW o, o.outcome \in {"supported", "unsupported", "failed"},
           HasHistory(o) => Supports(o), o.historyError \in BOOLEAN
    PROVE  LET n == AppliedSystem(s, o) IN
           /\ DOMAIN n = SystemFields /\ n = [x \in SystemFields |-> n[x]]
           /\ n.capability = (IF o.outcome = "failed" THEN s.capability ELSE o.outcome)
           /\ n.summary = (IF Supports(o) THEN o.summary
                           ELSE IF o.outcome = "failed" THEN s.summary ELSE None)
           /\ n.error = (IF Supports(o) THEN o.historyError ELSE o.outcome = "failed")
           /\ HasHistory(o) =>
                 /\ n.epoch = o.history.epoch /\ n.revision = o.history.revision
                 /\ n.records = (IF o.summary.job
                                 THEN Newest(Merged(s.records, o.history.records), PerJob)
                                 ELSE <<>>)
           /\ ~HasHistory(o) =>
                 n.epoch = s.epoch /\ n.revision = s.revision /\ n.records = s.records
<1>1. DOMAIN s = SystemFields /\ s = [x \in SystemFields |-> s[x]] BY SystemParts
<1> DEFINE n == AppliedSystem(s, o)
<1>2. CASE Supports(o)
  <2> DEFINE a == [s EXCEPT !.capability = "supported", !.error = FALSE, !.summary = o.summary]
             b == IF o.history = None THEN a ELSE AppliedHistory(a, o.history)
  <2>1. n = [b EXCEPT !.error = o.historyError] BY <1>2 DEF AppliedSystem, Supports
  <2>2. /\ a.capability = "supported" /\ a.summary = o.summary /\ a.epoch = s.epoch
        /\ a.revision = s.revision /\ a.records = s.records
        /\ DOMAIN a = SystemFields /\ a = [x \in SystemFields |-> a[x]]
    BY <1>1 DEF SystemFields
  <2>3. CASE HasHistory(o)
    <3>1. b = AppliedHistory(a, o.history) BY <2>3 DEF HasHistory
    <3> HIDE DEF a, b
    <3> DEFINE recs == IF a.summary.job
                       THEN Newest(Merged(a.records, o.history.records), PerJob) ELSE <<>>
    <3>2. b = [a EXCEPT !.epoch = o.history.epoch, !.revision = o.history.revision,
                        !.records = recs]
      BY <3>1 DEF AppliedHistory
    <3> HIDE DEF recs
    <3>3. /\ b.capability = a.capability /\ b.summary = a.summary
          /\ b.epoch = o.history.epoch /\ b.revision = o.history.revision
          /\ b.records = recs
          /\ DOMAIN b = SystemFields /\ b = [x \in SystemFields |-> b[x]]
      BY <2>2, <3>2 DEF SystemFields
    <3>4. /\ n.capability = b.capability /\ n.summary = b.summary
          /\ n.epoch = b.epoch /\ n.revision = b.revision
          /\ n.records = b.records /\ n.error = o.historyError
          /\ DOMAIN n = SystemFields /\ n = [x \in SystemFields |-> n[x]]
      <4> HIDE DEF n
      <4> QED BY <2>1, <3>3 DEF SystemFields
    <3> HIDE DEF n
    <3> QED BY <2>2, <2>3, <3>3, <3>4, <1>2 DEF Supports, recs, n
  <2>4. CASE ~HasHistory(o)
    <3>1. b = a BY <2>4 DEF HasHistory
    <3> HIDE DEF a, b
    <3>2. /\ n.capability = a.capability /\ n.summary = a.summary
          /\ n.epoch = a.epoch /\ n.revision = a.revision
          /\ n.records = a.records /\ n.error = o.historyError
          /\ DOMAIN n = SystemFields /\ n = [x \in SystemFields |-> n[x]]
      <4> HIDE DEF n
      <4> QED BY <2>1, <2>2, <3>1 DEF SystemFields
    <3> HIDE DEF n
    <3> QED BY <2>2, <2>4, <3>2, <1>2 DEF Supports, n
  <2> QED BY <2>3, <2>4
<1>3. CASE o.outcome = "unsupported"
  <2>1. n = [s EXCEPT !.capability = "unsupported", !.error = FALSE, !.summary = None]
    BY <1>3 DEF AppliedSystem
  <2>2. ~Supports(o) /\ ~HasHistory(o) BY <1>3 DEF Supports
  <2> HIDE DEF n
  <2> QED BY <1>1, <1>3, <2>1, <2>2 DEF SystemFields, n
<1>4. CASE o.outcome = "failed"
  <2>1. n = [s EXCEPT !.error = TRUE] BY <1>4 DEF AppliedSystem
  <2>2. ~Supports(o) /\ ~HasHistory(o) BY <1>4 DEF Supports
  <2> HIDE DEF n
  <2> QED BY <1>1, <1>4, <2>1, <2>2 DEF SystemFields, n
<1> QED BY <1>2, <1>3, <1>4 DEF Supports

LEMMA AppliedSound ==
    ASSUME NEW s, NEW t, NEW rem, SystemOf(s, t, rem[t]), NEW o, ObservationOf(o, rem),
           o.target = t, Supports(o) /\ s.epoch # None => Before(s, o.summary)
    PROVE  SystemOf(AppliedSystem(s, o), t, rem[t])
<1> DEFINE n == AppliedSystem(s, o)
           r == rem[t]
<1>1. s \in Systems BY DEF SystemOf
<1>2. /\ o.outcome \in {"supported", "unsupported", "failed"} /\ o.historyError \in BOOLEAN
      /\ Supports(o) => SummaryOf(o.summary, t, r)
      /\ HasHistory(o) => Supports(o) /\ HistoryOf(o.history, t, r)
                          /\ Stamp(o.history) = Stamp(o.summary)
  BY DEF ObservationOf
<1>3. /\ DOMAIN n = SystemFields /\ n = [x \in SystemFields |-> n[x]]
      /\ n.capability = (IF o.outcome = "failed" THEN s.capability ELSE o.outcome)
      /\ n.summary = (IF Supports(o) THEN o.summary
                      ELSE IF o.outcome = "failed" THEN s.summary ELSE None)
      /\ n.error = (IF Supports(o) THEN o.historyError ELSE o.outcome = "failed")
      /\ HasHistory(o) =>
            /\ n.epoch = o.history.epoch /\ n.revision = o.history.revision
            /\ n.records = (IF o.summary.job
                            THEN Newest(Merged(s.records, o.history.records), PerJob)
                            ELSE <<>>)
      /\ ~HasHistory(o) =>
            n.epoch = s.epoch /\ n.revision = s.revision /\ n.records = s.records
  BY <1>1, <1>2, AppliedFields
<1> HIDE DEF n
<1>4. /\ Len(n.records) <= PerJob /\ RecordsOf(n.records, t) /\ IsInjective(n.records)
  <2>1. RecordsOf(s.records, t) /\ IsInjective(s.records) /\ Len(s.records) <= PerJob
    BY DEF SystemOf
  <2>2. CASE HasHistory(o) /\ o.summary.job
    <3>1. RecordsOf(o.history.records, t) BY <1>2, <2>2 DEF HistoryOf
    <3>2. RecordsOf(Merged(s.records, o.history.records), t)
          /\ IsInjective(Merged(s.records, o.history.records))
      BY <2>1, <3>1, MergedKeeps
    <3> QED BY <1>3, <2>2, <3>2, NewestKeeps, PerJobNat
  <2>3. CASE HasHistory(o) /\ ~o.summary.job BY <1>3, <2>3, NoRecords, PerJobNat
  <2>4. CASE ~HasHistory(o) BY <1>3, <2>1, <2>4
  <2> QED BY <2>2, <2>3, <2>4
<1>5. n.summary # None => SummaryOf(n.summary, t, r) BY <1>2, <1>3 DEF SystemOf
<1>6. n.epoch # None => /\ n.epoch[1] = t /\ n.revision \in Nat /\ n.epoch \in Epochs
                        /\ PastOf(n, r)
  <2>1. CASE HasHistory(o)
    <3>1. HistoryOf(o.history, t, r) BY <1>2, <2>1
    <3>2. o.history.epoch \in Epochs /\ o.history.revision \in Nat
      BY <3>1 DEF HistoryOf, Histories
    <3> QED BY <1>3, <2>1, <3>1, <3>2 DEF HistoryOf, PastOf, Before
  <2>2. CASE ~HasHistory(o)
    <3>1. s.epoch # None => s.epoch \in Epochs BY <1>1, SystemParts
    <3> QED BY <1>3, <2>2, <3>1 DEF SystemOf, PastOf, Before
  <2> QED BY <2>1, <2>2
<1>7. n.epoch # None /\ n.summary # None => Before(n, n.summary)
  <2>1. CASE HasHistory(o)
    <3>1. HistoryOf(o.history, t, r) /\ Supports(o) /\ Stamp(o.history) = Stamp(o.summary)
      BY <1>2, <2>1
    <3>2. o.history.revision \in Nat BY <3>1 DEF HistoryOf, Histories
    <3>3. o.history.revision = o.summary.revision BY <3>1 DEF Stamp
    <3>4. n.revision = o.history.revision /\ n.summary = o.summary BY <1>3, <2>1, <3>1
    <3> QED BY <3>2, <3>3, <3>4 DEF Before
  <2>2. CASE ~HasHistory(o) /\ Supports(o) BY <1>3, <2>2 DEF Before
  <2>3. CASE ~HasHistory(o) /\ ~Supports(o) BY <1>3, <2>3 DEF Before, SystemOf
  <2> QED BY <2>1, <2>2, <2>3
<1>8. n \in Systems
  <2>1. n.summary \in Summaries \cup {None} BY <1>5 DEF SummaryOf
  <2>2. n.epoch \in Epochs \cup {None} BY <1>6
  <2>3. n.revision \in Nat \cup {None}
    <3>1. CASE HasHistory(o)
      <4>1. o.history.revision \in Nat BY <1>2, <3>1 DEF HistoryOf, Histories
      <4> QED BY <1>3, <3>1, <4>1
    <3>2. CASE ~HasHistory(o) BY <1>1, <1>3, <3>2, SystemParts
    <3> QED BY <3>1, <3>2
  <2>4. n.error \in BOOLEAN BY <1>2, <1>3
  <2>5. n.capability \in Capabilities
    <3>1. s.capability \in Capabilities BY <1>1, SystemParts
    <3> QED BY <1>2, <1>3, <3>1 DEF Capabilities
  <2>6. n.records \in Seq(Records) BY <1>4 DEF RecordsOf
  <2> QED BY <1>3, <2>1, <2>2, <2>3, <2>4, <2>5, <2>6, IsSystem
<1> QED BY <1>4, <1>5, <1>6, <1>7, <1>8 DEF SystemOf, n

-----------------------------------------------------------------------------
(* What an observation does to the cache and to the document.                 *)

LEMMA ShrunkSystem ==
    ASSUME NEW a, NEW b, NEW t, NEW r, SystemOf(a, t, r), Shrunk(a, b)
    PROVE  SystemOf(b, t, r)
<1>1. Len(a.records) \in Nat /\ Len(b.records) \in Nat
  <2>1. a \in Systems /\ b \in Systems BY DEF SystemOf, Shrunk
  <2>2. a.records \in Seq(Records) /\ b.records \in Seq(Records) BY <2>1, SystemParts
  <2> QED BY <2>2, LenProperties
<1>2. Len(b.records) <= PerJob BY <1>1, PerJobNat DEF SystemOf, Shrunk
<1> QED BY <1>2 DEF SystemOf, Shrunk, PastOf, Before

(* The cache with o applied, before the cap is enforced.                       *)
Written(c, o) ==
    [i \in DOMAIN c \cup {o.id} |->
        IF i = o.id THEN AppliedSystem(System(c, i), o) ELSE c[i]]

LEMMA WrittenCache ==
    ASSUME NEW c, CacheOf(c), NEW cfg, DOMAIN c \subseteq DOMAIN cfg, NEW rem,
           \A i \in DOMAIN c : SystemOf(c[i], cfg[i], rem[cfg[i]]),
           NEW o, ObservationOf(o, rem), o.id \in DOMAIN cfg, cfg[o.id] = o.target,
           Supports(o) => AfterCache(o, c, cfg)
    PROVE  LET w == Written(c, o) IN
           /\ CacheOf(w) /\ DOMAIN w = DOMAIN c \cup {o.id}
           /\ w[o.id] = AppliedSystem(System(c, o.id), o)
           /\ \A i \in DOMAIN c : i # o.id => w[i] = c[i]
           /\ \A i \in DOMAIN w : SystemOf(w[i], cfg[i], rem[cfg[i]])
<1> DEFINE w == Written(c, o)
           s == System(c, o.id)
<1>1. /\ DOMAIN w = DOMAIN c \cup {o.id} /\ w = [i \in DOMAIN w |-> w[i]]
      /\ w[o.id] = AppliedSystem(s, o) /\ \A i \in DOMAIN c : i # o.id => w[i] = c[i]
  BY DEF Written
<1> HIDE DEF w
<1>2. SystemOf(s, cfg[o.id], rem[cfg[o.id]]) BY SystemKnown
<1>3. Supports(o) /\ s.epoch # None => Before(s, o.summary)
  <2>1. CASE o.id \in DOMAIN c BY <2>1 DEF AfterCache, System
  <2>2. CASE o.id \notin DOMAIN c
    <3>1. s.epoch = None BY <2>2 DEF System, Unknown
    <3> QED BY <3>1
  <2> QED BY <2>1, <2>2
<1> HIDE DEF s
<1>4. SystemOf(w[o.id], cfg[o.id], rem[cfg[o.id]])
  <2> DEFINE t == o.target
  <2>1. SystemOf(s, t, rem[t]) /\ o.target = t BY <1>2
  <2>2. SystemOf(AppliedSystem(s, o), t, rem[t])
    <3> HIDE DEF t
    <3> QED BY <1>3, <2>1, AppliedSound
  <2> QED BY <1>1, <2>2
<1>5. \A i \in DOMAIN w : SystemOf(w[i], cfg[i], rem[cfg[i]]) BY <1>1, <1>4
<1>6. \A i \in DOMAIN w : w[i] \in Systems BY <1>5 DEF SystemOf
<1>7. CacheOf(w)
  <2>1. w \in [DOMAIN w -> Systems] BY <1>1, <1>6
  <2>2. o.id \in Ids BY DEF ObservationOf
  <2> QED BY <1>1, <2>1, <2>2 DEF CacheOf
<1> QED BY <1>1, <1>5, <1>7 DEF w, s

LEMMA AppliedCache ==
    ASSUME NEW c, CacheOf(c), NEW cfg, DOMAIN c \subseteq DOMAIN cfg, NEW rem,
           \A i \in DOMAIN c : SystemOf(c[i], cfg[i], rem[cfg[i]]), Total(c) <= TotalCap,
           NEW o, ObservationOf(o, rem), o.id \in DOMAIN cfg, cfg[o.id] = o.target,
           Supports(o) => AfterCache(o, c, cfg)
    PROVE  LET d == Applied(c, o) IN
           /\ ShrunkCache(Written(c, o), d)
           /\ ~HasHistory(o) => d = Written(c, o)
           /\ \A i \in DOMAIN d : SystemOf(d[i], cfg[i], rem[cfg[i]])
           /\ Total(d) <= TotalCap
           /\ Written(c, o)[o.id].records = System(c, o.id).records => d = Written(c, o)
<1> DEFINE w == Written(c, o)
           s == System(c, o.id)
           d == Applied(c, o)
<1>1. /\ CacheOf(w) /\ DOMAIN w = DOMAIN c \cup {o.id}
      /\ w[o.id] = AppliedSystem(System(c, o.id), o)
      /\ \A i \in DOMAIN c : i # o.id => w[i] = c[i]
      /\ \A i \in DOMAIN w : SystemOf(w[i], cfg[i], rem[cfg[i]])
  BY WrittenCache
<1>2. d = IF HasHistory(o) THEN EnforceTotal(w) ELSE w BY DEF Applied, Written, HasHistory
<1>3. w[o.id].records = s.records => Total(w) <= TotalCap
  <2> SUFFICES ASSUME w[o.id].records = s.records PROVE Total(w) <= TotalCap OBVIOUS
  <2>1. ASSUME NEW i \in DOMAIN w, NEW n \in DOMAIN w[i].records
        PROVE  i \in DOMAIN c /\ n \in DOMAIN c[i].records
    <3>1. CASE i \in DOMAIN c BY <3>1, <2>1, <1>1 DEF System
    <3>2. CASE i \notin DOMAIN c
      <4>1. i = o.id /\ s.records = <<>> BY <3>2, <2>1, <1>1 DEF System, Unknown
      <4>2. DOMAIN <<>> = {}
        <5>1. Len(<<>>) = 0 /\ <<>> \in Seq(Records) BY NoRecords
        <5> QED BY <5>1, LenProperties
      <4> QED BY <2>1, <4>1, <4>2
    <3> QED BY <3>1, <3>2
  <2> HIDE DEF w
  <2>2. Total(w) <= Total(c) BY <1>1, <2>1, RetainedSubset
  <2>3. Total(w) \in Nat /\ Total(c) \in Nat BY <1>1, RetainedFinite
  <2> QED BY <2>2, <2>3, PerJobNat
<1>4. ~HasHistory(o) => w[o.id].records = s.records
  <2>1. s \in Systems
    <3>1. SystemOf(s, cfg[o.id], rem[cfg[o.id]]) BY SystemKnown
    <3> QED BY <3>1 DEF SystemOf
  <2>2. o.outcome \in {"supported", "unsupported", "failed"} /\ o.historyError \in BOOLEAN
        /\ (HasHistory(o) => Supports(o))
    BY DEF ObservationOf
  <2> HIDE DEF s
  <2>3. ~HasHistory(o) => AppliedSystem(s, o).records = s.records BY <2>1, <2>2, AppliedFields
  <2> QED BY <1>1, <2>3 DEF s
<1> HIDE DEF w, d, s
<1>5. /\ ShrunkCache(w, EnforceTotal(w)) /\ Total(EnforceTotal(w)) <= TotalCap
      /\ Total(w) <= TotalCap => EnforceTotal(w) = w
      /\ ShrunkCache(w, w)
  BY <1>1, EnforceTotalFacts, ShrinksItself
<1>6. ShrunkCache(w, d) /\ (~HasHistory(o) => d = w) /\ Total(d) <= TotalCap
      /\ (w[o.id].records = s.records => d = w)
  BY <1>2, <1>3, <1>4, <1>5
<1>7. \A i \in DOMAIN d : SystemOf(d[i], cfg[i], rem[cfg[i]])
  <2> TAKE i \in DOMAIN d
  <2>1. i \in DOMAIN w /\ Shrunk(w[i], d[i]) BY <1>6 DEF ShrunkCache
  <2>2. SystemOf(w[i], cfg[i], rem[cfg[i]]) BY <1>1, <2>1
  <2> QED BY <2>1, <2>2, ShrunkSystem
<1> QED BY <1>6, <1>7 DEF w, d, s

(* What is not published would not show: the document is the same.              *)
LEMMA UnseenDocument ==
    ASSUME NEW c, CacheOf(c), NEW cfg, DOMAIN c \subseteq DOMAIN cfg, NEW rem, NEW is,
           \A i \in DOMAIN c : SystemOf(c[i], cfg[i], rem[cfg[i]]), Total(c) <= TotalCap,
           NEW o, ObservationOf(o, rem), o.id \in DOMAIN cfg, cfg[o.id] = o.target,
           Supports(o) => AfterCache(o, c, cfg), QuietEmpty(c), ~Visibly(c, o)
    PROVE  Document(Applied(c, o), cfg, is) = Document(c, cfg, is)
<1> DEFINE w == Written(c, o)
           s == System(c, o.id)
           d == Applied(c, o)
           n == AppliedSystem(s, o)
<1>1. /\ CacheOf(w) /\ DOMAIN w = DOMAIN c \cup {o.id} /\ w[o.id] = n
      /\ \A i \in DOMAIN c : i # o.id => w[i] = c[i]
  <2>1. w[o.id] = AppliedSystem(System(c, o.id), o) BY DEF Written
  <2>2. CacheOf(w) /\ DOMAIN w = DOMAIN c \cup {o.id}
        /\ \A i \in DOMAIN c : i # o.id => w[i] = c[i]
    BY WrittenCache
  <2> QED BY <2>1, <2>2
<1>2. /\ ShrunkCache(w, d) /\ (w[o.id].records = s.records => d = w)
  <2> HIDE DEF w, d, s
  <2> QED BY AppliedCache DEF w, d, s
<1>3. SystemOf(s, cfg[o.id], rem[cfg[o.id]]) BY SystemKnown
<1>4. /\ o.outcome \in {"supported", "unsupported", "failed"} /\ o.historyError \in BOOLEAN
      /\ HasHistory(o) => Supports(o) /\ ~o.historyError
  BY DEF ObservationOf
<1>5. /\ n.summary = (IF Supports(o) THEN o.summary
                      ELSE IF o.outcome = "failed" THEN s.summary ELSE None)
      /\ n.error = (IF Supports(o) THEN o.historyError ELSE o.outcome = "failed")
      /\ HasHistory(o) =>
            n.records = (IF o.summary.job
                         THEN Newest(Merged(s.records, o.history.records), PerJob)
                         ELSE <<>>)
      /\ ~HasHistory(o) => n.records = s.records
  <2>1. s \in Systems BY <1>3 DEF SystemOf
  <2> HIDE DEF s
  <2> QED BY <1>4, <2>1, AppliedFields
<1>6. ~Added(c, o) /\ Rendered(c, o.id) = Rendered(d, o.id) BY DEF Visibly
<1>7. DOMAIN d = DOMAIN c \cup {o.id} /\ o.id \in DOMAIN d /\ Shrunk(n, d[o.id])
  BY <1>1, <1>2 DEF ShrunkCache
<1> HIDE DEF w, d, n
<1>8. o.id \in DOMAIN c
  <2>1. d[o.id] \in Systems BY <1>7 DEF Shrunk
  <2>2. /\ d[o.id].capability \in Capabilities /\ d[o.id].summary \in Summaries \cup {None}
        /\ d[o.id].error \in BOOLEAN
    BY <2>1, SystemParts
  <2>3. Rendered(d, o.id) \in Shown
    <3> DEFINE S1 == Summaries \cup {None}
    <3>1. [capability |-> d[o.id].capability, summary |-> d[o.id].summary, error |-> d[o.id].error]
             \in [capability : Capabilities, summary : S1, error : BOOLEAN]
      <4>1. d[o.id].summary \in S1 BY <2>2
      <4> HIDE DEF S1
      <4> QED BY <2>2, <4>1
    <3> QED BY <1>7, <3>1 DEF Rendered, Shown
  <2> QED BY <1>6, <2>3, NoneAssumption DEF Rendered, NoneAssumption
<1>9. /\ d[o.id].capability = s.capability /\ d[o.id].summary = s.summary
      /\ d[o.id].error = s.error /\ s = c[o.id]
  BY <1>6, <1>7, <1>8 DEF Rendered, System
<1>10. n.summary = s.summary /\ n.error = s.error BY <1>7, <1>9 DEF Shrunk
<1>11. n.records = s.records
  <2>1. CASE ~HasHistory(o) BY <1>5, <2>1
  <2>2. CASE HasHistory(o) /\ o.summary.job
    <3>1. Merged(s.records, o.history.records) = s.records
      BY <1>6, <2>2 DEF Added, HasHistory
    <3>2. RecordsOf(s.records, cfg[o.id]) /\ IsInjective(s.records) /\ Len(s.records) <= PerJob
      BY <1>3 DEF SystemOf
    <3>3. Newest(s.records, PerJob) = s.records BY <3>2, NewestKeeps, PerJobNat
    <3> QED BY <1>5, <2>2, <3>1, <3>3
  <2>3. CASE HasHistory(o) /\ ~o.summary.job
    <3>1. Supports(o) /\ ~o.historyError BY <1>4, <2>3
    <3>2. s.summary = o.summary /\ ~s.error BY <1>5, <1>10, <3>1
    <3>3. o.summary # None
      BY <3>1, NoneAssumption DEF ObservationOf, SummaryOf, NoneAssumption
    <3>4. s.records = <<>> BY <1>8, <1>9, <2>3, <3>2, <3>3 DEF QuietEmpty
    <3> QED BY <1>5, <2>3, <3>4
  <2> QED BY <2>1, <2>2, <2>3
<1>12. d = w BY <1>1, <1>2, <1>11
<1>13. /\ System(d, o.id).capability = System(c, o.id).capability
       /\ System(d, o.id).summary = System(c, o.id).summary
       /\ System(d, o.id).error = System(c, o.id).error
       /\ System(d, o.id).records = System(c, o.id).records
  <2>1. System(d, o.id) = d[o.id] /\ d[o.id] = n BY <1>1, <1>7, <1>12 DEF System
  <2> QED BY <2>1, <1>9, <1>11 DEF s
<1>14. \A i \in DOMAIN cfg : i # o.id => System(d, i) = System(c, i)
  BY <1>1, <1>12 DEF System
<1>15. \A i \in DOMAIN cfg :
          /\ System(d, i).capability = System(c, i).capability
          /\ System(d, i).summary = System(c, i).summary
          /\ System(d, i).error = System(c, i).error
          /\ System(d, i).records = System(c, i).records
  BY <1>13, <1>14
<1> QED BY <1>15, Zenon DEF Document, d

-----------------------------------------------------------------------------
(* What happens at the remotes.                                              *)

Advances(r, q) ==
    \/ q.epoch = r.epoch /\ r.revision <= q.revision /\ q.job = r.job
    \/ q.epoch[1] = r.epoch[1] /\ q.epoch[2] = r.epoch[2] + 1
Ahead(rem, new) == \A t \in Targets : Advances(rem[t], new[t])

LEMMA EpochParts ==
    ASSUME NEW e \in Epochs
    PROVE  e[1] \in Targets /\ e[2] \in Nat /\ e = <<e[1], e[2]>>
<1>1. MaxEvents + 1 \in Nat BY ConstantsAssumption DEF ConstantsAssumption
<1>2. 1 .. MaxEvents + 1 \subseteq Nat BY <1>1
<1> QED BY <1>2 DEF Epochs

LEMMA RemoteParts ==
    ASSUME NEW r, NEW t, NEW n, RemoteOf(r, t, n)
    PROVE  /\ r.epoch \in Epochs /\ r.epoch[1] = t /\ r.epoch[2] \in Nat
           /\ r.revision \in Nat /\ r.job \in BOOLEAN /\ r.waiting \in BOOLEAN
           /\ r.records \in Seq(Records)
<1>1. r.epoch \in Epochs /\ r.revision \in Nat /\ r.job \in BOOLEAN /\ r.waiting \in BOOLEAN
      /\ r.records \in Seq(Records)
  <2> DEFINE S1 == Seq(Records)
  <2>1. r \in [up : BOOLEAN, supported : BOOLEAN, job : BOOLEAN, epoch : Epochs,
               revision : Nat, waiting : BOOLEAN, records : S1]
    BY DEF RemoteOf, RemoteStates
  <2> HIDE DEF S1
  <2> QED BY <2>1 DEF S1
<1> QED BY <1>1, EpochParts DEF RemoteOf

LEMMA PastStays ==
    ASSUME NEW x, x.epoch \in Epochs, x.revision \in Nat, NEW r, NEW q, NEW t, NEW m, NEW n,
           RemoteOf(r, t, m), RemoteOf(q, t, n), Advances(r, q), PastOf(x, r)
    PROVE  PastOf(x, q)
<1>1. /\ x.epoch[2] \in Nat /\ r.epoch[2] \in Nat /\ q.epoch[2] \in Nat
      /\ r.revision \in Nat /\ q.revision \in Nat
  BY EpochParts, RemoteParts
<1>2. CASE q.epoch = r.epoch /\ r.revision <= q.revision BY <1>1, <1>2 DEF PastOf, Before
<1>3. CASE q.epoch[2] = r.epoch[2] + 1
  <2>1. x.epoch[2] <= r.epoch[2] BY DEF PastOf
  <2>2. x.epoch[2] < q.epoch[2] BY <1>1, <1>3, <2>1
  <2>3. x.epoch # q.epoch BY <1>1, <2>2
  <2> QED BY <1>1, <2>2, <2>3 DEF PastOf, Before
<1> QED BY <1>2, <1>3 DEF Advances

(* What was observed stays in the past of its remote.                         *)
LEMMA ObservedStays ==
    ASSUME NEW rem, NEW new, NEW m, NEW n, Ahead(rem, new),
           \A t \in Targets : RemoteOf(rem[t], t, m) /\ RemoteOf(new[t], t, n)
    PROVE  /\ \A t \in Targets : \A s : SummaryOf(s, t, rem[t]) => SummaryOf(s, t, new[t])
           /\ \A t \in Targets : \A h : HistoryOf(h, t, rem[t]) => HistoryOf(h, t, new[t])
           /\ \A t \in Targets : \A s : SystemOf(s, t, rem[t]) => SystemOf(s, t, new[t])
           /\ \A t \in Targets : \A f : FetchOf(f, t, rem[t]) => FetchOf(f, t, new[t])
           /\ \A o : ObservationOf(o, rem) => ObservationOf(o, new)
<1>1. ASSUME NEW t \in Targets, NEW s, SummaryOf(s, t, rem[t]) PROVE SummaryOf(s, t, new[t])
  <2>1. s.epoch \in Epochs /\ s.revision \in Nat BY <1>1 DEF SummaryOf, Summaries
  <2>2. PastOf(s, rem[t]) BY <1>1 DEF SummaryOf
  <2>3. RemoteOf(rem[t], t, m) /\ RemoteOf(new[t], t, n) /\ Advances(rem[t], new[t])
    BY DEF Ahead
  <2>4. PastOf(s, new[t]) BY <2>1, <2>2, <2>3, PastStays
  <2> QED BY <1>1, <2>4 DEF SummaryOf
<1>2. ASSUME NEW t \in Targets, NEW h, HistoryOf(h, t, rem[t]) PROVE HistoryOf(h, t, new[t])
  <2>1. h.epoch \in Epochs /\ h.revision \in Nat BY <1>2 DEF HistoryOf, Histories
  <2>2. PastOf(h, rem[t]) BY <1>2 DEF HistoryOf
  <2>3. RemoteOf(rem[t], t, m) /\ RemoteOf(new[t], t, n) /\ Advances(rem[t], new[t])
    BY DEF Ahead
  <2>4. PastOf(h, new[t]) BY <2>1, <2>2, <2>3, PastStays
  <2> QED BY <1>2, <2>4 DEF HistoryOf
<1>3. ASSUME NEW t \in Targets, NEW s, SystemOf(s, t, rem[t]) PROVE SystemOf(s, t, new[t])
  <2>1. s.summary # None => SummaryOf(s.summary, t, new[t]) BY <1>1, <1>3 DEF SystemOf
  <2>2. s.epoch # None => PastOf(s, new[t])
    <3> SUFFICES ASSUME s.epoch # None PROVE PastOf(s, new[t]) OBVIOUS
    <3>1. s.epoch \in Epochs
      <4>1. s \in Systems BY <1>3 DEF SystemOf
      <4> QED BY <4>1, SystemParts
    <3>2. s.revision \in Nat /\ PastOf(s, rem[t]) BY <1>3 DEF SystemOf
    <3>3. RemoteOf(rem[t], t, m) /\ RemoteOf(new[t], t, n) /\ Advances(rem[t], new[t])
      BY DEF Ahead
    <3> QED BY <3>1, <3>2, <3>3, PastStays
  <2> QED BY <1>3, <2>1, <2>2 DEF SystemOf
<1>4. ASSUME NEW t \in Targets, NEW f, FetchOf(f, t, rem[t]) PROVE FetchOf(f, t, new[t])
  BY <1>1, <1>2, <1>4 DEF FetchOf
<1>5. ASSUME NEW o, ObservationOf(o, rem) PROVE ObservationOf(o, new)
  BY <1>1, <1>2, <1>5 DEF ObservationOf
<1> QED BY <1>1, <1>2, <1>3, <1>4, <1>5

LEMMA RunFinished ==
    ASSUME NEW r, NEW t, NEW n \in Nat, RemoteOf(r, t, n), n < MaxEvents,
           NEW q, q = [r EXCEPT !.revision = @ + 1,
                                !.records = Newest(Append(@, [epoch |-> r.epoch, seq |-> Ring + n + 1]), Ring)]
    PROVE  RemoteOf(q, t, n + 1) /\ Advances(r, q)
<1>1. r.epoch \in Epochs /\ r.epoch[1] = t /\ r.epoch[2] \in Nat /\ r.revision \in Nat
  BY RemoteParts
<1>2. Ring \in Nat /\ MaxEvents \in Nat BY ConstantsAssumption DEF ConstantsAssumption
<1> DEFINE rec == [epoch |-> r.epoch, seq |-> Ring + n + 1]
           app == Append(r.records, rec)
           w == Newest(app, Ring)
<1>3. rec \in Records /\ rec.epoch[1] = t
  <2>1. Ring + n + 1 \in 1 .. Ring + MaxEvents BY <1>2
  <2> QED BY <1>1, <2>1 DEF Records
<1>4. r.records \in Seq(Records) /\ \A k \in DOMAIN r.records : r.records[k].epoch[1] = t
  BY RemoteParts DEF RemoteOf, RecordsOf
<1> HIDE DEF rec
<1>5. RecordsOf(app, t)
  <2>1. /\ app \in Seq(Records) /\ Len(app) = Len(r.records) + 1
        /\ \A k \in 1 .. Len(r.records) : app[k] = r.records[k]
        /\ app[Len(r.records) + 1] = rec
    BY <1>3, <1>4, AppendProperties
  <2>2. Len(r.records) \in Nat /\ DOMAIN r.records = 1 .. Len(r.records)
        /\ DOMAIN app = 1 .. Len(app)
    BY <1>4, <2>1, LenProperties
  <2> HIDE DEF app
  <2> QED BY <1>3, <1>4, <2>1, <2>2 DEF RecordsOf
<1>6. RecordsOf(w, t)
  <2>1. app \in Seq(Records) BY <1>5 DEF RecordsOf
  <2> HIDE DEF app
  <2>2. w \in Seq(Records) BY <1>2, <2>1, NewestFacts
  <2>3. PICK d \in Nat : \A k \in DOMAIN w : k + d \in DOMAIN app /\ w[k] = app[k + d]
    BY <1>2, <2>1, NewestFacts
  <2> HIDE DEF w
  <2> QED BY <1>5, <2>2, <2>3 DEF RecordsOf
<1>7. q = [r EXCEPT !.revision = r.revision + 1, !.records = w] BY DEF rec
<1> HIDE DEF w
<1> DEFINE S1 == Seq(Records)
<1>8. r \in [up : BOOLEAN, supported : BOOLEAN, job : BOOLEAN, epoch : Epochs,
             revision : Nat, waiting : BOOLEAN, records : S1]
  BY DEF RemoteOf, RemoteStates
<1>9. w \in S1 BY <1>6 DEF RecordsOf
<1> HIDE DEF S1
<1>10. /\ q.epoch = r.epoch /\ q.revision = r.revision + 1 /\ q.job = r.job /\ q.records = w
       /\ q \in [up : BOOLEAN, supported : BOOLEAN, job : BOOLEAN, epoch : Epochs,
                 revision : Nat, waiting : BOOLEAN, records : S1]
  <2>1. r.revision + 1 \in Nat BY <1>1
  <2> DEFINE m == r.revision + 1
             B == BOOLEAN
  <2>2. q = [r EXCEPT !.revision = m, !.records = w] /\ m \in Nat BY <1>7, <2>1
  <2> HIDE DEF m, B
  <2>3. q.epoch = r.epoch /\ q.revision = m /\ q.job = r.job /\ q.records = w
    BY <1>8, <2>2
  <2>4. q \in [up : B, supported : B, job : B, epoch : Epochs,
               revision : Nat, waiting : B, records : S1]
    BY <1>8, <1>9, <2>2 DEF B
  <2> QED BY <2>3, <2>4 DEF m, B
<1>11. q \in RemoteStates BY <1>10 DEF RemoteStates, S1
<1>12. r.epoch[2] <= n + 1 + 1 BY <1>1 DEF RemoteOf
<1> QED BY <1>1, <1>6, <1>10, <1>11, <1>12 DEF RemoteOf, Advances

(* Neither the job's live state nor the network changes what was observed.        *)
LEMMA LiveChanged ==
    ASSUME NEW r, NEW t, NEW n \in Nat, RemoteOf(r, t, n), NEW q,
           q = [r EXCEPT !.waiting = TRUE] \/ q = [r EXCEPT !.up = ~@]
    PROVE  RemoteOf(q, t, n + 1) /\ Advances(r, q)
<1>1. r.epoch \in Epochs /\ r.epoch[1] = t /\ r.epoch[2] \in Nat /\ r.revision \in Nat
  BY RemoteParts
<1> DEFINE S1 == Seq(Records)
<1>2. r \in [up : BOOLEAN, supported : BOOLEAN, job : BOOLEAN, epoch : Epochs,
             revision : Nat, waiting : BOOLEAN, records : S1]
  BY DEF RemoteOf, RemoteStates
<1> HIDE DEF S1
<1>3. TRUE \in BOOLEAN /\ (~(r.up)) \in BOOLEAN OBVIOUS
<1>4. /\ q.epoch = r.epoch /\ q.revision = r.revision /\ q.job = r.job
      /\ q.records = r.records
      /\ q \in [up : BOOLEAN, supported : BOOLEAN, job : BOOLEAN, epoch : Epochs,
                revision : Nat, waiting : BOOLEAN, records : S1]
  <2>1. CASE q = [r EXCEPT !.waiting = TRUE] BY <1>2, <1>3, <2>1
  <2>2. CASE q = [r EXCEPT !.up = ~@] BY <1>2, <1>3, <2>2
  <2> QED BY <2>1, <2>2
<1>5. q \in RemoteStates BY <1>4 DEF RemoteStates, S1
<1>6. r.epoch[2] <= n + 1 + 1 BY <1>1 DEF RemoteOf
<1> QED BY <1>1, <1>4, <1>5, <1>6 DEF RemoteOf, Advances

LEMMA Restarted ==
    ASSUME NEW r, NEW t \in Targets, NEW n \in Nat, RemoteOf(r, t, n), n < MaxEvents,
           NEW supported \in BOOLEAN, NEW job \in BOOLEAN
    PROVE  LET q == NewRemote(t, r.epoch[2] + 1, supported, job) IN
           RemoteOf(q, t, n + 1) /\ Advances(r, q)
<1> DEFINE e == r.epoch[2] + 1
           q == NewRemote(t, e, supported, job)
<1>1. r.epoch[1] = t /\ r.epoch[2] \in Nat /\ r.epoch[2] <= n + 1
  BY RemoteParts DEF RemoteOf
<1>2. MaxEvents \in Nat BY ConstantsAssumption DEF ConstantsAssumption
<1>3. e \in 1 .. MaxEvents + 1 /\ e <= n + 1 + 1 BY <1>1, <1>2
<1>4. /\ q.epoch = <<t, e>> /\ q.records = <<>> /\ q.up = TRUE /\ q.supported = supported
      /\ q.job = job /\ q.revision = 0 /\ q.waiting = FALSE
      /\ q = [up |-> q.up, supported |-> q.supported, job |-> q.job, epoch |-> q.epoch,
              revision |-> q.revision, waiting |-> q.waiting, records |-> q.records]
  BY DEF NewRemote
<1> HIDE DEF e, q
<1>5. <<t, e>> \in Epochs /\ <<t, e>>[1] = t /\ <<t, e>>[2] = e BY <1>3 DEF Epochs
<1>6. q \in RemoteStates
  <2> DEFINE S1 == Seq(Records)
  <2>1. q.records \in S1 BY <1>4, NoRecords
  <2> HIDE DEF S1
  <2> DEFINE B == BOOLEAN
  <2>3. /\ q.up \in B /\ q.supported \in B /\ q.job \in B /\ q.waiting \in B
        /\ q.epoch \in Epochs /\ q.revision \in Nat
    <3>1. q.up \in B /\ q.supported \in B /\ q.job \in B /\ q.waiting \in B BY <1>4, Zenon
    <3>2. q.revision \in Nat BY <1>4
    <3> QED BY <1>4, <1>5, <3>1, <3>2, Zenon
  <2>4. q = [up |-> q.up, supported |-> q.supported, job |-> q.job, epoch |-> q.epoch,
             revision |-> q.revision, waiting |-> q.waiting, records |-> q.records]
    BY <1>4
  <2>2. q \in [up : BOOLEAN, supported : BOOLEAN, job : BOOLEAN, epoch : Epochs,
               revision : Nat, waiting : BOOLEAN, records : S1]
    <3> HIDE DEF B
    <3>1. q \in [up : B, supported : B, job : B, epoch : Epochs,
                 revision : Nat, waiting : B, records : S1]
      BY <2>1, <2>3, <2>4
    <3> QED BY <3>1 DEF B
  <2> QED BY <2>2 DEF RemoteStates, S1
<1>7. RecordsOf(q.records, t) BY <1>4, NoRecords
<1> QED BY <1>1, <1>3, <1>4, <1>5, <1>6, <1>7 DEF RemoteOf, Advances, e, q

(* One remote moves on, and nothing else changes.                             *)
LEMMA RemoteEventMoves ==
    ASSUME RemoteInv, BooksInv, RemoteEvent
    PROVE  /\ RemoteInv' /\ events < MaxEvents /\ events' = events + 1
           /\ Ahead(remote, remote')
           /\ UNCHANGED <<config, permit, worker, channel, cache, intents, moved, doc,
                          reloads, unread, overtaken>>
<1>1. PICK t \in Targets : RunFinishes(t) \/ JobWaits(t) \/ Restarts(t) \/ Flaps(t)
  BY DEF RemoteEvent
<1>2. RemoteOf(remote[t], t, events) /\ events \in Nat BY DEF RemoteInv, BooksInv
<1>3. PICK q : RemoteStep(t, q) /\ RemoteOf(q, t, events + 1) /\ Advances(remote[t], q)
  <2>1. CASE RunFinishes(t)
    <3> DEFINE q == [remote[t] EXCEPT
                 !.revision = @ + 1,
                 !.records = Newest(Append(@, [epoch |-> remote[t].epoch,
                                               seq |-> Ring + events + 1]), Ring)]
    <3>1. RemoteStep(t, q) BY <2>1 DEF RunFinishes
    <3>2. events < MaxEvents BY <3>1 DEF RemoteStep
    <3>3. RemoteOf(q, t, events + 1) /\ Advances(remote[t], q) BY <1>2, <3>2, RunFinished, Zenon
    <3> HIDE DEF q
    <3> QED BY <3>1, <3>3
  <2>2. CASE JobWaits(t)
    <3> DEFINE q == [remote[t] EXCEPT !.waiting = TRUE]
    <3>1. RemoteStep(t, q) BY <2>2 DEF JobWaits
    <3>2. RemoteOf(q, t, events + 1) /\ Advances(remote[t], q) BY <1>2, LiveChanged
    <3> HIDE DEF q
    <3> QED BY <3>1, <3>2
  <2>3. CASE Flaps(t)
    <3> DEFINE q == [remote[t] EXCEPT !.up = ~@]
    <3>1. RemoteStep(t, q) BY <2>3 DEF Flaps
    <3>2. RemoteOf(q, t, events + 1) /\ Advances(remote[t], q) BY <1>2, LiveChanged
    <3> HIDE DEF q
    <3> QED BY <3>1, <3>2
  <2>4. CASE Restarts(t)
    <3>1. PICK supported \in BOOLEAN, job \in BOOLEAN :
             RemoteStep(t, NewRemote(t, remote[t].epoch[2] + 1, supported, job))
      BY <2>4 DEF Restarts
    <3>2. events < MaxEvents BY <3>1 DEF RemoteStep
    <3> DEFINE q == NewRemote(t, remote[t].epoch[2] + 1, supported, job)
    <3>3. RemoteOf(q, t, events + 1) /\ Advances(remote[t], q) BY <1>2, <3>2, Restarted
    <3> HIDE DEF q
    <3> QED BY <3>1, <3>3 DEF q
  <2> QED BY <1>1, <2>1, <2>2, <2>3, <2>4
<1>4. /\ events < MaxEvents /\ events' = events + 1 /\ remote' = [remote EXCEPT ![t] = q]
      /\ UNCHANGED <<config, permit, worker, channel, cache, intents, moved, doc,
                     reloads, unread, overtaken>>
  BY <1>3 DEF RemoteStep
<1>5. DOMAIN remote' = Targets /\ remote'[t] = q /\ \A u \in Targets : u # t => remote'[u] = remote[u]
  BY <1>4 DEF RemoteInv
<1>6. \A u \in Targets : RemoteOf(remote[u], u, events) /\ RemoteOf(remote[u], u, events + 1)
  <2> TAKE u \in Targets
  <2>1. RemoteOf(remote[u], u, events) BY DEF RemoteInv
  <2>2. remote[u].epoch[2] \in Nat BY <2>1, RemoteParts
  <2>3. remote[u].epoch[2] <= events + 1 + 1 BY <2>1, <2>2, <1>2 DEF RemoteOf
  <2> QED BY <2>1, <2>3 DEF RemoteOf
<1>7. RemoteInv' BY <1>3, <1>4, <1>5, <1>6 DEF RemoteInv
<1>8. Ahead(remote, remote')
  <2> SUFFICES ASSUME NEW u \in Targets PROVE Advances(remote[u], remote'[u]) BY DEF Ahead
  <2>1. remote[u].revision \in Nat BY <1>6, RemoteParts
  <2>2. CASE u = t BY <1>3, <1>5, <2>2
  <2>3. CASE u # t BY <1>5, <2>1, <2>3 DEF Advances
  <2> QED BY <2>2, <2>3
<1> QED BY <1>4, <1>7, <1>8

LEMMA ConfigParts ==
    ASSUME NEW cfg \in Configs
    PROVE  /\ DOMAIN cfg \subseteq Ids /\ \A i \in DOMAIN cfg : cfg[i] \in Targets
           /\ \A i, k \in DOMAIN cfg : cfg[i] = cfg[k] => i = k
BY ConstantsAssumption DEF ConstantsAssumption

LEMMA RemoteSummary ==
    ASSUME NEW r, NEW t, NEW n, RemoteOf(r, t, n)
    PROVE  /\ SummaryOf(Summary(r), t, r) /\ Summary(r).epoch = r.epoch
           /\ Summary(r).revision = r.revision /\ Summary(r).job = r.job
<1>1. /\ r.epoch \in Epochs /\ r.epoch[1] = t /\ r.epoch[2] \in Nat
      /\ r.revision \in Nat /\ r.job \in BOOLEAN /\ r.waiting \in BOOLEAN
  BY RemoteParts
<1>2. /\ Summary(r).epoch = r.epoch /\ Summary(r).revision = r.revision
      /\ Summary(r).job = r.job
  BY DEF Summary
<1>3. Summary(r) \in Summaries BY <1>1 DEF Summary, Summaries
<1>4. PastOf(Summary(r), r) BY <1>1, <1>2 DEF PastOf, Before
<1> QED BY <1>1, <1>2, <1>3, <1>4 DEF SummaryOf

(* Every summary known anywhere is of some target's past.                     *)
LEMMA KnownObserved ==
    ASSUME RemoteInv, BooksInv, WorkerInv, FetchInv, HeldInv, ChannelInv, CacheInv,
           NEW a \in Known
    PROVE  \E t \in Targets : SummaryOf(a, t, remote[t])
<1>1. CASE a \in {Summary(remote[t]) : t \in Targets}
  <2>1. PICK t \in Targets : a = Summary(remote[t]) BY <1>1
  <2>2. RemoteOf(remote[t], t, events) BY DEF RemoteInv
  <2> QED BY <2>1, <2>2, RemoteSummary
<1>2. CASE a \in {x.summary : x \in InHand(worker)}
  <2>1. PICK x \in InHand(worker) : a = x.summary BY <1>2
  <2>2. CASE \E i \in DOMAIN worker.fetches :
                /\ Reads(worker.fetches[i])
                /\ x = [id |-> i, target |-> worker.list[i], summary |-> worker.fetches[i].summary]
    <3>1. PICK i \in DOMAIN worker.fetches :
                /\ Reads(worker.fetches[i])
                /\ x = [id |-> i, target |-> worker.list[i], summary |-> worker.fetches[i].summary]
      BY <2>2
    <3>2. a = worker.fetches[i].summary BY <2>1, <3>1
    <3>3. worker.list[i] \in Targets BY DEF WorkerInv
    <3>4. FetchOf(worker.fetches[i], worker.list[i], remote[worker.list[i]]) BY DEF FetchInv
    <3> QED BY <3>1, <3>2, <3>3, <3>4 DEF FetchOf
  <2>3. CASE worker.held # None /\ x = worker.held.observation /\ Supports(x)
    <3>1. ObservationOf(x, remote) BY <2>3 DEF HeldInv
    <3> QED BY <2>1, <2>3, <3>1 DEF ObservationOf
  <2> QED BY <2>1, <2>2, <2>3 DEF InHand
<1>3. CASE a \in {channel[n].summary : n \in {k \in DOMAIN channel : Supports(channel[k])}}
  <2>1. PICK n \in DOMAIN channel : Supports(channel[n]) /\ a = channel[n].summary BY <1>3
  <2>2. ObservationOf(channel[n], remote) BY <2>1 DEF ChannelInv
  <2> QED BY <2>1, <2>2 DEF ObservationOf
<1>4. CASE a \in {cache[i].summary : i \in {k \in DOMAIN cache : cache[k].summary # None}}
  <2>1. PICK i \in DOMAIN cache : cache[i].summary # None /\ a = cache[i].summary BY <1>4
  <2>2. SystemOf(cache[i], config[i], remote[config[i]]) /\ i \in DOMAIN config
    BY <2>1 DEF CacheInv
  <2>3. config[i] \in Targets BY <2>2, ConfigParts DEF BooksInv
  <2> QED BY <2>1, <2>2, <2>3 DEF SystemOf
<1> QED BY <1>1, <1>2, <1>3, <1>4 DEF Known

LEMMA RemoteEventKeepsJobs ==
    ASSUME RemoteInv, BooksInv, WorkerInv, FetchInv, HeldInv, ChannelInv, CacheInv, JobInv,
           RemoteInv', Ahead(remote, remote'), UNCHANGED <<config, worker, channel, cache>>
    PROVE  JobInv'
<1> DEFINE old(a) == \E k \in Known : k.epoch = a.epoch /\ k.job = a.job
           fresh(a, t) == /\ a = Summary(remote'[t]) /\ a.epoch[1] = t
                          /\ a.epoch \in Epochs
                          /\ a.epoch[2] = remote[t].epoch[2] + 1
<1>1. \A t \in Targets : RemoteOf(remote[t], t, events) /\ RemoteOf(remote'[t], t, events')
  BY DEF RemoteInv
<1>2. ASSUME NEW a \in Known' PROVE old(a) \/ \E t \in Targets : fresh(a, t)
  <2>1. CASE a \in Known BY <2>1
  <2>2. CASE a \notin Known
    <3>1. PICK t \in Targets : a = Summary(remote'[t]) BY <1>2, <2>2 DEF Known
    <3>2. Advances(remote[t], remote'[t]) BY DEF Ahead
    <3>3. /\ a.epoch = remote'[t].epoch /\ a.job = remote'[t].job
          /\ Summary(remote[t]).epoch = remote[t].epoch
          /\ Summary(remote[t]).job = remote[t].job
      BY <3>1, <1>1, RemoteSummary
    <3>4. CASE remote'[t].epoch = remote[t].epoch /\ remote'[t].job = remote[t].job
      <4>1. Summary(remote[t]) \in Known BY DEF Known
      <4> QED BY <3>3, <3>4, <4>1
    <3>5. CASE /\ remote'[t].epoch[1] = remote[t].epoch[1]
               /\ remote'[t].epoch[2] = remote[t].epoch[2] + 1
      <4>1. remote[t].epoch[1] = t /\ remote'[t].epoch \in Epochs BY <1>1, RemoteParts
      <4>2. fresh(a, t) BY <3>1, <3>3, <3>5, <4>1
      <4> HIDE DEF fresh
      <4> QED BY <4>2
    <3> QED BY <3>2, <3>4, <3>5 DEF Advances
  <2> QED BY <2>1, <2>2
<1>3. ASSUME NEW a, NEW t \in Targets, fresh(a, t), NEW x, x.epoch = a.epoch, NEW u \in Targets,
             x.epoch[1] = u, x.epoch[2] <= remote[u].epoch[2]
      PROVE  FALSE
  <2>1. u = t /\ x.epoch[2] = remote[t].epoch[2] + 1 BY <1>3
  <2>2. remote[t].epoch[2] \in Nat BY <1>1, RemoteParts
  <2> QED BY <1>3, <2>1, <2>2
<1>4. ASSUME NEW a, NEW t \in Targets, fresh(a, t), NEW k \in Known, k.epoch = a.epoch
      PROVE  FALSE
  <2>1. PICK u \in Targets : SummaryOf(k, u, remote[u]) BY KnownObserved
  <2>2. k.epoch[1] = u /\ k.epoch[2] <= remote[u].epoch[2] BY <2>1 DEF SummaryOf, PastOf
  <2> HIDE DEF fresh
  <2> QED BY <1>3, <1>4, <2>2
<1>5. LivesAgree(Known')
  <2> SUFFICES ASSUME NEW a \in Known', NEW b \in Known', a.epoch = b.epoch
               PROVE  a.job = b.job
    BY DEF LivesAgree
  <2>1. CASE old(a) /\ old(b) BY <2>1 DEF JobInv, LivesAgree
  <2>2. CASE \E t \in Targets : fresh(a, t)
    <3>1. PICK t \in Targets : fresh(a, t) BY <2>2
    <3>2. ~old(b) BY <1>4, <3>1
    <3>3. PICK u \in Targets : fresh(b, u) BY <1>2, <3>2
    <3> QED BY <3>1, <3>3
  <2>3. CASE \E t \in Targets : fresh(b, t)
    <3>1. PICK t \in Targets : fresh(b, t) BY <2>3
    <3>2. ~old(a) BY <1>4, <3>1
    <3>3. PICK u \in Targets : fresh(a, u) BY <1>2, <3>2
    <3> QED BY <3>1, <3>3
  <2> HIDE DEF old, fresh
  <2> QED BY <1>2, <2>1, <2>2, <2>3
<1>6. EndedEmpty(Known', cache)
  <2> SUFFICES ASSUME NEW i \in DOMAIN cache, NEW a \in Known',
                      a.epoch = cache[i].epoch, ~a.job
               PROVE  cache[i].records = <<>>
    BY DEF EndedEmpty
  <2>1. CASE old(a) BY <2>1 DEF JobInv, EndedEmpty
  <2>2. CASE \E t \in Targets : fresh(a, t)
    <3>1. PICK t \in Targets : fresh(a, t) BY <2>2
    <3>2. cache[i].epoch # None BY <3>1, NoneAssumption DEF NoneAssumption
    <3>3. SystemOf(cache[i], config[i], remote[config[i]]) /\ i \in DOMAIN config
      BY DEF CacheInv
    <3>4. config[i] \in Targets BY <3>3, ConfigParts DEF BooksInv
    <3>5. cache[i].epoch[1] = config[i] /\ cache[i].epoch[2] <= remote[config[i]].epoch[2]
      BY <3>2, <3>3 DEF SystemOf, PastOf
    <3> HIDE DEF fresh
    <3> QED BY <1>3, <3>1, <3>4, <3>5
  <2> HIDE DEF old, fresh
  <2> QED BY <1>2, <2>1, <2>2
<1>7. cache' = cache /\ QuietEmpty(cache) BY DEF JobInv
<1>8. EndedEmpty(Known', cache') /\ QuietEmpty(cache') BY <1>6, <1>7
<1> QED BY <1>5, <1>8 DEF JobInv

LEMMA RemoteEventKeeps == ObservationInv /\ RemoteEvent => ObservationInv'
<1> SUFFICES ASSUME ObservationInv, RemoteEvent PROVE ObservationInv' OBVIOUS
<1>1. /\ RemoteInv /\ BooksInv /\ WorkerInv /\ ListInv /\ FetchInv /\ HeldInv /\ ChannelInv
      /\ CacheInv /\ OrderInv /\ GateInv /\ QuietInv /\ JobInv /\ DocumentCurrent
  BY DEF ObservationInv
<1>2. /\ RemoteInv' /\ events < MaxEvents /\ events' = events + 1 /\ Ahead(remote, remote')
      /\ UNCHANGED <<config, permit, worker, channel, cache, intents, moved, doc,
                     reloads, unread, overtaken>>
  BY <1>1, RemoteEventMoves
<1>3. /\ config' = config /\ permit' = permit /\ worker' = worker /\ channel' = channel
      /\ cache' = cache /\ intents' = intents /\ moved' = moved /\ doc' = doc
      /\ unread' = unread /\ overtaken' = overtaken
  BY <1>2
<1>4. BooksInv'
  <2>1. MaxEvents \in Nat BY ConstantsAssumption DEF ConstantsAssumption
  <2>2. events' \in 0 .. MaxEvents BY <1>1, <1>2, <2>1 DEF BooksInv
  <2> QED BY <1>1, <1>3, <2>2, Zenon DEF BooksInv
<1>5. /\ \A t \in Targets : \A s : SystemOf(s, t, remote[t]) => SystemOf(s, t, remote'[t])
      /\ \A t \in Targets : \A f : FetchOf(f, t, remote[t]) => FetchOf(f, t, remote'[t])
      /\ \A o : ObservationOf(o, remote) => ObservationOf(o, remote')
  <2>1. \A t \in Targets : RemoteOf(remote[t], t, events) /\ RemoteOf(remote'[t], t, events')
    BY <1>1, <1>2 DEF RemoteInv
  <2> QED BY <1>2, <2>1, ObservedStays
<1>6. WorkerInv' /\ ListInv' BY <1>1, <1>3 DEF WorkerInv, ListInv, InFlight
<1>7. FetchInv'
  <2>1. \A i \in DOMAIN worker.fetches : worker.list[i] \in Targets BY <1>1 DEF WorkerInv
  <2>2. \A i \in DOMAIN worker.fetches :
           FetchOf(worker.fetches[i], worker.list[i], remote'[worker.list[i]])
    BY <1>1, <1>5, <2>1 DEF FetchInv
  <2> QED BY <1>1, <1>3, <2>2 DEF FetchInv
<1>8. HeldInv' BY <1>1, <1>3, <1>5 DEF HeldInv
<1>9. ChannelInv' BY <1>1, <1>3, <1>5 DEF ChannelInv
<1>10. CacheInv'
  <2>1. \A i \in DOMAIN cache : i \in DOMAIN config /\ config[i] \in Targets
    BY <1>1, ConfigParts DEF CacheInv, BooksInv
  <2>2. \A i \in DOMAIN cache : SystemOf(cache[i], config[i], remote'[config[i]])
    BY <1>1, <1>5, <2>1 DEF CacheInv
  <2> QED BY <1>1, <1>3, <2>2 DEF CacheInv
<1>11. OrderInv' BY <1>1, <1>3 DEF OrderInv
<1>12. GateInv' /\ QuietInv' BY <1>1, <1>3 DEF GateInv, QuietInv
<1>13. JobInv' BY <1>1, <1>2, RemoteEventKeepsJobs
<1>14. DocumentCurrent' BY <1>1, <1>3 DEF DocumentCurrent
<1> QED BY <1>2, <1>4, <1>6, <1>7, <1>8, <1>9, <1>10, <1>11, <1>12, <1>13, <1>14 DEF ObservationInv

-----------------------------------------------------------------------------
(* The frontends change what the document shows and nothing else.             *)

LEMMA FrontendKeeps ==
    ObservationInv /\ (Frontends \/ NoteRevision) => ObservationInv'
<1> SUFFICES ASSUME ObservationInv, Frontends \/ NoteRevision PROVE ObservationInv' OBVIOUS
<1>1. /\ RemoteInv /\ BooksInv /\ WorkerInv /\ ListInv /\ FetchInv /\ HeldInv /\ ChannelInv
      /\ CacheInv /\ OrderInv /\ GateInv /\ QuietInv /\ JobInv /\ DocumentCurrent
  BY DEF ObservationInv
<1> DEFINE kept ==
              /\ remote' = remote /\ config' = config /\ permit' = permit /\ worker' = worker
              /\ channel' = channel /\ cache' = cache /\ events' = events /\ unread' = unread
              /\ overtaken' = overtaken /\ moved' \in BOOLEAN
              /\ DocumentCurrent'
<1>2. kept
  <2>1. ASSUME NEW s \in Subscribers, SetCronIntent(s) PROVE kept
    BY <2>1 DEF SetCronIntent, DocumentCurrent
  <2>2. ASSUME NEW s \in Subscribers, Handshake(s) PROVE kept
    BY <2>2 DEF Handshake, IntentStep, RevisionMoves, DocumentCurrent
  <2>3. ASSUME NEW s \in Subscribers, Disconnect(s) PROVE kept
    BY <2>3 DEF Disconnect, IntentStep, RevisionMoves, DocumentCurrent
  <2>4. ASSUME NoteRevision PROVE kept BY <2>4 DEF NoteRevision, DocumentCurrent
  <2> HIDE DEF kept
  <2>5. CASE Frontends BY <2>1, <2>2, <2>3, <2>5 DEF Frontends
  <2> QED BY <2>4, <2>5
<1>3. RemoteInv' BY <1>1, <1>2 DEF RemoteInv
<1>4. BooksInv' BY <1>1, <1>2 DEF BooksInv
<1>5. WorkerInv' /\ ListInv' BY <1>1, <1>2 DEF WorkerInv, ListInv, InFlight
<1>6. FetchInv' /\ HeldInv' BY <1>1, <1>2 DEF FetchInv, HeldInv
<1>7. ChannelInv' /\ CacheInv' BY <1>1, <1>2 DEF ChannelInv, CacheInv
<1>8. OrderInv' BY <1>1, <1>2 DEF OrderInv
<1>9. GateInv' /\ QuietInv' BY <1>1, <1>2 DEF GateInv, QuietInv
<1>10. JobInv' BY <1>1, <1>2 DEF JobInv, Known
<1> QED BY <1>2, <1>3, <1>4, <1>5, <1>6, <1>7, <1>8, <1>9, <1>10 DEF ObservationInv

-----------------------------------------------------------------------------
(* The worker.                                                               *)

LEMMA JobsStay ==
    ASSUME JobInv, Known' \subseteq Known, cache' = cache
    PROVE  JobInv'
<1>1. LivesAgree(Known') BY DEF JobInv, LivesAgree
<1>2. EndedEmpty(Known', cache') /\ QuietEmpty(cache') BY DEF JobInv, EndedEmpty
<1> QED BY <1>1, <1>2 DEF JobInv

Timely(x) == /\ AfterCache(x, cache, config) /\ AfterChannel(x, channel, Len(channel))
             /\ x.summary \in Known

(* What is in hand is what the invariant says it is.                          *)
LEMMA InHandTimely ==
    ASSUME OrderInv
    PROVE  \A x \in InHand(worker) : Timely(x)
BY DEF OrderInv, Timely, Known

(* A step of the worker that hands nothing over, forgets or keeps gate         *)
(* entries, and whose hands hold what they held or a new summary.              *)
LEMMA WorkerKeeps ==
    ASSUME ObservationInv, channel' = channel,
           remote' = remote, config' = config, cache' = cache, intents' = intents,
           moved' = moved, doc' = doc, events' = events, overtaken' = overtaken,
           permit' \in BOOLEAN, unread' \in BOOLEAN,
           WorkerInv', ListInv', FetchInv', HeldInv',
           \A x \in InHand(worker') : Timely(x),
           \A key \in DOMAIN worker'.gate :
              key \in DOMAIN worker.gate /\ worker'.gate[key] = worker.gate[key]
    PROVE  ObservationInv'
<1>1. /\ RemoteInv /\ BooksInv /\ ChannelInv
      /\ CacheInv /\ OrderInv /\ GateInv /\ QuietInv /\ JobInv /\ DocumentCurrent
  BY DEF ObservationInv
<1>2. RemoteInv' BY <1>1 DEF RemoteInv
<1>3. BooksInv' BY <1>1 DEF BooksInv
<1>4. ChannelInv' /\ CacheInv' BY <1>1 DEF ChannelInv, CacheInv
<1>5. OrderInv' BY <1>1 DEF OrderInv, Timely
<1>6. GateInv' /\ QuietInv' BY <1>1 DEF GateInv, QuietInv
<1>7. Known' \subseteq Known
  <2> SUFFICES ASSUME NEW a \in Known' PROVE a \in Known OBVIOUS
  <2>1. CASE \E x \in InHand(worker') : a = x.summary BY <2>1 DEF Timely
  <2>2. CASE ~\E x \in InHand(worker') : a = x.summary BY <2>2 DEF Known
  <2> QED BY <2>1, <2>2
<1>8. JobInv' BY <1>1, <1>7, JobsStay
<1>9. DocumentCurrent' BY <1>1 DEF DocumentCurrent
<1> QED BY <1>2, <1>3, <1>4, <1>5, <1>6, <1>8, <1>9 DEF ObservationInv

LEMMA EmptyDomain == DOMAIN <<>> = {}
<1>1. <<>> \in Seq(Records) /\ Len(<<>>) = 0 BY EmptySeq
<1> QED BY <1>1, LenProperties

(* A worker between rounds has nothing in its hands.                          *)
LEMMA IdleKeeps ==
    ASSUME ObservationInv, channel' = channel,
           remote' = remote, config' = config, cache' = cache, intents' = intents,
           moved' = moved, doc' = doc, events' = events, overtaken' = overtaken,
           permit' \in BOOLEAN, unread' = unread,
           DOMAIN worker' = {"pc", "list", "gate", "held", "fetches"},
           worker'.pc \in {"read", "wait"}, worker'.gate = worker.gate,
           worker'.list = <<>>, worker'.held = None, worker'.fetches = <<>>,
           worker'.pc # "read" /\ unread => permit'
    PROVE  ObservationInv'
<1>1. BooksInv /\ WorkerInv /\ ListInv BY DEF ObservationInv
<1>2. DOMAIN worker'.fetches = {} /\ DOMAIN worker'.list = {} BY EmptyDomain
<1>3. InFlight' = {} BY <1>2 DEF InFlight
<1>4. WorkerInv'
  <2>1. IsFiniteSet(InFlight') /\ Cardinality(InFlight') <= MaxInFlight
    <3>1. MaxInFlight \in Nat BY ConstantsAssumption DEF ConstantsAssumption
    <3>2. IsFiniteSet({}) /\ Cardinality({}) = 0 BY FS_EmptySet
    <3> QED BY <1>3, <3>1, <3>2
  <2> QED BY <1>1, <1>2, <2>1 DEF WorkerInv
<1>5. ListInv' BY <1>1 DEF ListInv
<1>6. FetchInv' BY <1>2 DEF FetchInv
<1>7. HeldInv' BY DEF HeldInv
<1>8. InHand(worker') = {} BY <1>2 DEF InHand
<1>9. unread' \in BOOLEAN BY <1>1 DEF BooksInv
<1> QED BY <1>4, <1>5, <1>6, <1>7, <1>8, <1>9, WorkerKeeps

LEMMA RoundEndsKeeps ==
    ObservationInv /\ (Preempted \/ RoundCompleted \/ Wake) => ObservationInv'
<1> SUFFICES ASSUME ObservationInv, Preempted \/ RoundCompleted \/ Wake
             PROVE  ObservationInv'
  OBVIOUS
<1>1. BooksInv /\ WorkerInv /\ ListInv BY DEF ObservationInv
<1>2. permit \in BOOLEAN BY <1>1 DEF BooksInv
<1>3. CASE Preempted
  <2>1. WorkerStep(Ended("read")) /\ permit' = FALSE /\ channel' = channel /\ unread' = unread
    BY <1>3 DEF Preempted
  <2>2. worker' = Idle("read", worker.gate) BY <2>1 DEF WorkerStep, Ended
  <2>3. /\ DOMAIN worker' = {"pc", "list", "gate", "held", "fetches"}
        /\ worker'.pc = "read" /\ worker'.gate = worker.gate
        /\ worker'.list = <<>> /\ worker'.held = None /\ worker'.fetches = <<>>
    BY <2>2 DEF Idle
  <2>4. permit' \in BOOLEAN BY <2>1
  <2> QED BY <2>1, <2>3, <2>4, IdleKeeps DEF WorkerStep
<1>4. CASE RoundCompleted
  <2>1. WorkerStep(Ended("wait")) /\ permit' = permit /\ channel' = channel /\ unread' = unread
        /\ worker.pc = "round"
    BY <1>4 DEF RoundCompleted, Polling
  <2>2. worker' = Idle("wait", worker.gate) BY <2>1 DEF WorkerStep, Ended
  <2>3. /\ DOMAIN worker' = {"pc", "list", "gate", "held", "fetches"}
        /\ worker'.pc = "wait" /\ worker'.gate = worker.gate
        /\ worker'.list = <<>> /\ worker'.held = None /\ worker'.fetches = <<>>
    BY <2>2 DEF Idle
  <2>4. permit' \in BOOLEAN BY <1>2, <2>1
  <2>5. unread => permit' BY <1>1, <2>1 DEF ListInv
  <2> QED BY <2>1, <2>3, <2>4, <2>5, IdleKeeps DEF WorkerStep
<1>5. CASE Wake
  <2>1. /\ WorkerStep([worker EXCEPT !.pc = "read"]) /\ permit' \in {permit, FALSE}
        /\ channel' = channel /\ unread' = unread /\ worker.pc = "wait"
    BY <1>5 DEF Wake
  <2>2. worker' = [worker EXCEPT !.pc = "read"] BY <2>1 DEF WorkerStep
  <2>3. DOMAIN worker = {"pc", "list", "gate", "held", "fetches"} BY <1>1 DEF WorkerInv
  <2>4. /\ DOMAIN worker' = {"pc", "list", "gate", "held", "fetches"}
        /\ worker'.pc = "read" /\ worker'.gate = worker.gate
        /\ worker'.list = worker.list /\ worker'.held = worker.held
        /\ worker'.fetches = worker.fetches
    BY <2>2, <2>3
  <2>5. DOMAIN worker.fetches = {} /\ worker.held = None /\ DOMAIN worker.list = {}
    BY <1>1, <2>1 DEF WorkerInv
  <2>6. permit' \in BOOLEAN /\ unread' \in BOOLEAN BY <1>1, <1>2, <2>1 DEF BooksInv
  <2>7. InHand(worker') = {} BY <2>4, <2>5 DEF InHand
  <2>8. InFlight' = InFlight BY <2>4 DEF InFlight
  <2>9. WorkerInv' BY <1>1, <2>4, <2>5, <2>8 DEF WorkerInv
  <2>10. ListInv' BY <1>1, <2>1, <2>4 DEF ListInv, WorkerStep
  <2>11. FetchInv' BY <2>4, <2>5 DEF FetchInv
  <2>12. HeldInv' BY <2>4, <2>5 DEF HeldInv
  <2> QED BY <2>1, <2>4, <2>6, <2>7, <2>9, <2>10, <2>11, <2>12, WorkerKeeps DEF WorkerStep
<1> QED BY <1>3, <1>4, <1>5

LEMMA ReadListKeeps == ObservationInv /\ ReadList => ObservationInv'
<1> SUFFICES ASSUME ObservationInv, ReadList PROVE ObservationInv' OBVIOUS
<1>1. BooksInv /\ WorkerInv /\ ListInv BY DEF ObservationInv
<1> DEFINE w == [pc |-> "round", list |-> config, held |-> None,
                 gate |-> ForgetAbsent(worker.gate, config),
                 fetches |-> [i \in DOMAIN config |-> Pending]]
<1>2. WorkerStep(w) /\ unread' = FALSE /\ permit' = permit /\ channel' = channel
  BY DEF ReadList
<1>3. /\ worker' = w /\ remote' = remote /\ config' = config /\ cache' = cache
      /\ intents' = intents /\ moved' = moved /\ doc' = doc /\ events' = events
      /\ overtaken' = overtaken
  BY <1>2 DEF WorkerStep
<1>4. /\ DOMAIN worker' = {"pc", "list", "gate", "held", "fetches"}
      /\ worker'.pc = "round" /\ worker'.list = config /\ worker'.held = None
      /\ worker'.gate = ForgetAbsent(worker.gate, config)
      /\ worker'.fetches = [i \in DOMAIN config |-> Pending]
  BY <1>3
<1>5. /\ DOMAIN worker'.gate = DOMAIN worker.gate \cap Keys(config)
      /\ \A key \in DOMAIN worker'.gate :
            key \in DOMAIN worker.gate /\ worker'.gate[key] = worker.gate[key]
  BY <1>4 DEF ForgetAbsent
<1>6. /\ DOMAIN worker'.fetches = DOMAIN config
      /\ \A i \in DOMAIN config : worker'.fetches[i].phase = "pending" /\ ~Reads(worker'.fetches[i])
  BY <1>4 DEF Pending, Reads
<1>7. config \in Configs BY <1>1 DEF BooksInv
<1>8. InFlight' = {} BY <1>6 DEF InFlight
<1>9. WorkerInv'
  <2>1. IsFiniteSet(InFlight') /\ Cardinality(InFlight') <= MaxInFlight
    <3>1. MaxInFlight \in Nat BY ConstantsAssumption DEF ConstantsAssumption
    <3>2. IsFiniteSet({}) /\ Cardinality({}) = 0 BY FS_EmptySet
    <3> QED BY <1>8, <3>1, <3>2
  <2>2. DOMAIN worker'.list \subseteq Ids /\ \A i \in DOMAIN worker'.list : worker'.list[i] \in Targets
    BY <1>4, <1>7, ConfigParts
  <2> QED BY <1>1, <1>4, <1>5, <1>6, <2>1, <2>2 DEF WorkerInv
<1>10. ListInv' BY <1>2, <1>3, <1>4, <1>5 DEF ListInv
<1>11. FetchInv' BY <1>6 DEF FetchInv, FetchOf
<1>12. HeldInv' BY <1>4 DEF HeldInv
<1>13. InHand(worker') = {} BY <1>4, <1>6 DEF InHand
<1>14. permit' \in BOOLEAN /\ unread' \in BOOLEAN BY <1>1, <1>2 DEF BooksInv
<1> QED BY <1>2, <1>3, <1>5, <1>9, <1>10, <1>11, <1>12, <1>13, <1>14, WorkerKeeps

(* A step of the round on one fetch.                                         *)
LEMMA FetchMoves ==
    ASSUME ObservationInv, NEW i \in DOMAIN worker.fetches, NEW f,
           WorkerStep([worker EXCEPT !.fetches[i] = f]), worker.held = None,
           worker.pc = "round", worker.fetches[i] # Done,
           UNCHANGED <<permit, channel, unread>>,
           FetchOf(f, worker.list[i], remote[worker.list[i]]),
           f.phase = "finished" /\ Reads(f) /\ f.attempt # "fetched" =>
              Gated(worker.gate, i, worker.list[i], f.summary),
           Reads(f) => Timely([id |-> i, target |-> worker.list[i], summary |-> f.summary]),
           worker.fetches[i].phase \in {"history", "finished"} \/ Cardinality(InFlight) < MaxInFlight
    PROVE  ObservationInv'
<1>1. BooksInv /\ WorkerInv /\ ListInv /\ FetchInv /\ OrderInv BY DEF ObservationInv
<1>2. /\ worker' = [worker EXCEPT !.fetches[i] = f]
      /\ remote' = remote /\ config' = config /\ cache' = cache
      /\ intents' = intents /\ moved' = moved /\ doc' = doc /\ events' = events
      /\ overtaken' = overtaken /\ permit' = permit /\ channel' = channel /\ unread' = unread
  BY DEF WorkerStep
<1>3. DOMAIN worker = {"pc", "list", "gate", "held", "fetches"} BY <1>1 DEF WorkerInv
<1>4. /\ DOMAIN worker' = {"pc", "list", "gate", "held", "fetches"}
      /\ worker'.pc = worker.pc /\ worker'.list = worker.list /\ worker'.held = worker.held
      /\ worker'.gate = worker.gate
      /\ worker'.fetches = [worker.fetches EXCEPT ![i] = f]
  BY <1>2, <1>3
<1>5. /\ DOMAIN worker'.fetches = DOMAIN worker.fetches /\ worker'.fetches[i] = f
      /\ \A k \in DOMAIN worker.fetches : k # i => worker'.fetches[k] = worker.fetches[k]
  BY <1>4
<1>6. IsFiniteSet(InFlight') /\ Cardinality(InFlight') <= MaxInFlight
  <2>1. IsFiniteSet(InFlight) /\ Cardinality(InFlight) \in Nat /\ Cardinality(InFlight) <= MaxInFlight
    BY <1>1, FS_CardinalityType DEF WorkerInv
  <2>2. MaxInFlight \in Nat BY ConstantsAssumption DEF ConstantsAssumption
  <2>3. InFlight' \in SUBSET (InFlight \cup {i}) BY <1>5 DEF InFlight
  <2>4. /\ IsFiniteSet(InFlight \cup {i})
        /\ Cardinality(InFlight \cup {i}) =
              IF i \in InFlight THEN Cardinality(InFlight) ELSE Cardinality(InFlight) + 1
    BY <2>1, FS_AddElement
  <2>5. i \in InFlight \/ Cardinality(InFlight) < MaxInFlight BY DEF InFlight
  <2>6. Cardinality(InFlight \cup {i}) <= MaxInFlight BY <2>1, <2>2, <2>4, <2>5
  <2>7. /\ IsFiniteSet(InFlight') /\ Cardinality(InFlight') <= Cardinality(InFlight \cup {i})
    BY <2>3, <2>4, FS_Subset
  <2>8. Cardinality(InFlight') \in Nat /\ Cardinality(InFlight \cup {i}) \in Nat
    BY <2>4, <2>7, FS_CardinalityType
  <2> QED BY <2>2, <2>6, <2>7, <2>8
<1>7. WorkerInv' BY <1>1, <1>4, <1>5, <1>6 DEF WorkerInv
<1>8. ListInv' BY <1>1, <1>2, <1>4 DEF ListInv
<1>9. FetchInv'
  <2> SUFFICES ASSUME NEW k \in DOMAIN worker.fetches
               PROVE  /\ FetchOf(worker'.fetches[k], worker.list[k], remote[worker.list[k]])
                      /\ worker'.fetches[k].phase = "finished" /\ Reads(worker'.fetches[k])
                            /\ worker'.fetches[k].attempt # "fetched" =>
                            Gated(worker.gate, k, worker.list[k], worker'.fetches[k].summary)
    BY <1>2, <1>4, <1>5 DEF FetchInv
  <2>1. CASE k = i BY <1>5, <2>1
  <2>2. CASE k # i BY <1>1, <1>5, <2>2 DEF FetchInv
  <2> QED BY <2>1, <2>2
<1>10. HeldInv' BY <1>4 DEF HeldInv
<1>11. \A x \in InHand(worker') : Timely(x)
  <2> TAKE x \in InHand(worker')
  <2>1. PICK k \in DOMAIN worker.fetches :
           /\ Reads(worker'.fetches[k])
           /\ x = [id |-> k, target |-> worker.list[k], summary |-> worker'.fetches[k].summary]
    BY <1>4, <1>5 DEF InHand
  <2>2. CASE k = i BY <1>5, <2>1, <2>2
  <2>3. CASE k # i
    <3>1. x \in InHand(worker) BY <1>5, <2>1, <2>3 DEF InHand
    <3> QED BY <3>1, <1>1, InHandTimely
  <2> QED BY <2>2, <2>3
<1>12. permit' \in BOOLEAN /\ unread' \in BOOLEAN BY <1>1, <1>2 DEF BooksInv
<1> QED BY <1>2, <1>4, <1>7, <1>8, <1>9, <1>10, <1>11, <1>12, WorkerKeeps

(* What a remote answers now is not older than anything learnt of it.          *)
LEMMA NewestTimely ==
    ASSUME RemoteInv, BooksInv, ChannelInv, CacheInv, NEW i, NEW t \in Targets
    PROVE  Timely([id |-> i, target |-> t, summary |-> Summary(remote[t])])
<1> DEFINE s == Summary(remote[t])
           x == [id |-> i, target |-> t, summary |-> s]
<1>1. RemoteOf(remote[t], t, events) BY DEF RemoteInv
<1>2. s.epoch = remote[t].epoch /\ s.revision = remote[t].revision BY <1>1, RemoteSummary
<1>3. s \in Known BY DEF Known
<1>4. x.id = i /\ x.target = t /\ x.summary = s OBVIOUS
<1> HIDE DEF s, x
<1>5. AfterCache(x, cache, config)
  <2> SUFFICES ASSUME i \in DOMAIN cache, config[i] = t, cache[i].epoch # None
               PROVE  Before(cache[i], s)
    BY <1>4 DEF AfterCache
  <2>1. SystemOf(cache[i], t, remote[t]) BY DEF CacheInv
  <2>2. PastOf(cache[i], remote[t]) BY <2>1 DEF SystemOf
  <2> QED BY <1>2, <2>2 DEF PastOf, Before
<1>6. AfterChannel(x, channel, Len(channel))
  <2> SUFFICES ASSUME NEW m \in 1 .. Len(channel), Of(channel[m], i, t), HasHistory(channel[m])
               PROVE  Before(channel[m].history, s)
    BY <1>4 DEF AfterChannel
  <2>1. m \in DOMAIN channel BY LenProperties DEF ChannelInv
  <2>2. ObservationOf(channel[m], remote) BY <2>1 DEF ChannelInv
  <2>3. PastOf(channel[m].history, remote[t]) BY <2>2 DEF ObservationOf, HistoryOf, Of
  <2> QED BY <1>2, <2>3 DEF PastOf, Before
<1> QED BY <1>3, <1>4, <1>5, <1>6 DEF Timely, x, s

LEMMA FetchSummaryKeeps ==
    ASSUME ObservationInv, NEW i \in DOMAIN worker.fetches, FetchSummary(i)
    PROVE  ObservationInv'
<1>1. RemoteInv /\ BooksInv /\ WorkerInv /\ ChannelInv /\ CacheInv BY DEF ObservationInv
<1> DEFINE t == worker.list[i]
           r == remote[t]
           f == IF ~r.up THEN Finished("failed", None, "suppressed", None)
                ELSE IF ~r.supported THEN Finished("unsupported", None, "suppressed", None)
                ELSE IF Needs(worker.gate, <<i, worker.list[i]>>, Summary(r))
                THEN [phase |-> "history", summary |-> Summary(r)]
                ELSE Finished("supported", Summary(r), "suppressed", None)
<1>2. /\ WorkerStep([worker EXCEPT !.fetches[i] = f])
      /\ worker.held = None /\ worker.pc = "round" /\ worker.fetches[i] = Pending
      /\ Cardinality(InFlight) < MaxInFlight /\ UNCHANGED <<permit, channel, unread>>
  BY DEF FetchSummary, Polling
<1>3. t \in Targets BY <1>1 DEF WorkerInv
<1>4. RemoteOf(r, t, events) BY <1>1, <1>3 DEF RemoteInv
<1>5. SummaryOf(Summary(r), t, r) BY <1>4, RemoteSummary
<1>6. Timely([id |-> i, target |-> t, summary |-> Summary(r)]) BY <1>1, <1>3, NewestTimely
<1>7. Pending # Done BY DEF Pending, Done
<1> DEFINE ok(g) ==
              /\ FetchOf(g, t, r)
              /\ g.phase = "finished" /\ Reads(g) /\ g.attempt # "fetched" =>
                    Gated(worker.gate, i, t, g.summary)
              /\ Reads(g) => Timely([id |-> i, target |-> t, summary |-> g.summary])
<1>8. ASSUME NEW o \in {"failed", "unsupported"}
      PROVE  ok(Finished(o, None, "suppressed", None))
  <2> DEFINE g == Finished(o, None, "suppressed", None)
  <2>1. g.phase = "finished" /\ g.outcome = o /\ g.history = None BY DEF Finished
  <2> HIDE DEF g
  <2>2. ~Reads(g) BY <2>1 DEF Reads
  <2>3. FetchOf(g, t, r) BY <2>1, <2>2 DEF FetchOf
  <2>4. ok(g) BY <2>2, <2>3
  <2> QED BY <2>4 DEF g
<1>9. ok([phase |-> "history", summary |-> Summary(r)])
  <2> DEFINE g == [phase |-> "history", summary |-> Summary(r)]
  <2>1. g.phase = "history" /\ g.summary = Summary(r) OBVIOUS
  <2> HIDE DEF g, r, t
  <2>2. FetchOf(g, t, r) BY <1>5, <2>1 DEF FetchOf
  <2> QED BY <1>6, <2>1, <2>2 DEF g
<1>10. ASSUME ~Needs(worker.gate, <<i, worker.list[i]>>, Summary(r))
       PROVE  ok(Finished("supported", Summary(r), "suppressed", None))
  <2> DEFINE g == Finished("supported", Summary(r), "suppressed", None)
  <2>1. g.phase = "finished" /\ g.outcome = "supported" /\ g.history = None
        /\ g.summary = Summary(r)
    BY DEF Finished
  <2>2. Gated(worker.gate, i, t, Summary(r)) BY <1>10 DEF Needs, Gated, Stamp
  <2> HIDE DEF g, r, t
  <2>3. FetchOf(g, t, r) BY <1>5, <2>1 DEF FetchOf
  <2> QED BY <1>6, <2>1, <2>2, <2>3 DEF g
<1>11. ok(f)
  <2> HIDE DEF ok, r
  <2> QED BY <1>8, <1>9, <1>10
<1> HIDE DEF f
<1> QED BY <1>2, <1>7, <1>11, FetchMoves

LEMMA FetchHistoryKeeps ==
    ASSUME ObservationInv, NEW i \in DOMAIN worker.fetches, FetchHistory(i)
    PROVE  ObservationInv'
<1>1. RemoteInv /\ BooksInv /\ WorkerInv /\ FetchInv /\ OrderInv BY DEF ObservationInv
<1> DEFINE t == worker.list[i]
           r == remote[t]
           s == worker.fetches[i].summary
           h == IF r.up /\ r.supported THEN History(r) ELSE None
           f == Finished("supported", s, "fetched", h)
<1>2. /\ WorkerStep([worker EXCEPT !.fetches[i] = f])
      /\ worker.held = None /\ worker.pc = "round" /\ worker.fetches[i].phase = "history"
      /\ UNCHANGED <<permit, channel, unread>>
  BY DEF FetchHistory, Polling
<1>3. t \in Targets BY <1>1 DEF WorkerInv
<1>4. RemoteOf(r, t, events) BY <1>1, <1>3 DEF RemoteInv
<1>5. /\ f.phase = "finished" /\ f.outcome = "supported" /\ f.summary = s
      /\ f.attempt = "fetched" /\ f.history = h
  BY DEF Finished
<1>6. SummaryOf(s, t, r) BY <1>1, <1>2 DEF FetchInv, FetchOf, Reads
<1>7. Timely([id |-> i, target |-> t, summary |-> s])
  <2>1. [id |-> i, target |-> t, summary |-> s] \in InHand(worker)
    BY <1>2 DEF InHand, Reads
  <2> QED BY <1>1, <2>1, InHandTimely
<1>8. HistoryOf(History(r), t, r)
  <2>1. /\ r.epoch \in Epochs /\ r.epoch[1] = t /\ r.epoch[2] \in Nat
        /\ r.revision \in Nat /\ r.records \in Seq(Records) /\ RecordsOf(r.records, t)
    BY <1>4, RemoteParts DEF RemoteOf
  <2> HIDE DEF r, t
  <2>2. /\ History(r).epoch = r.epoch /\ History(r).revision = r.revision
        /\ History(r).records = r.records
    BY DEF History
  <2>3. History(r) \in Histories BY <2>1 DEF History, Histories
  <2>4. PastOf(History(r), r) BY <2>1, <2>2 DEF PastOf, Before
  <2> QED BY <2>1, <2>2, <2>3, <2>4 DEF HistoryOf
<1>9. h # None => HistoryOf(h, t, r) BY <1>8
<1> HIDE DEF f, h
<1>10. FetchOf(f, t, r) BY <1>5, <1>6, <1>9 DEF FetchOf
<1>11. worker.fetches[i] # Done BY <1>2 DEF Done
<1> QED BY <1>2, <1>5, <1>7, <1>10, <1>11, FetchMoves

(* A settled fetch is in the worker's hand until it is delivered.              *)
LEMMA SettleKeeps ==
    ASSUME ObservationInv, NEW i \in DOMAIN worker.fetches, Settle(i)
    PROVE  ObservationInv'
<1>1. BooksInv /\ WorkerInv /\ ListInv /\ FetchInv /\ OrderInv BY DEF ObservationInv
<1> DEFINE t == worker.list[i]
           f == worker.fetches[i]
           o == Observation(i, f)
           m == PendingCommit(i, f)
<1>2. /\ WorkerStep([worker EXCEPT !.fetches[i] = Done, !.gate = AfterSettling(@, m),
                                   !.held = [observation |-> o, commit |-> m]])
      /\ worker.held = None /\ worker.pc = "round" /\ f.phase = "finished"
      /\ UNCHANGED <<permit, channel, unread>>
  BY DEF Settle, Polling
<1>3. /\ remote' = remote /\ config' = config /\ cache' = cache
      /\ intents' = intents /\ moved' = moved /\ doc' = doc /\ events' = events
      /\ overtaken' = overtaken /\ permit' = permit /\ channel' = channel /\ unread' = unread
  BY <1>2 DEF WorkerStep
<1>4. DOMAIN worker = {"pc", "list", "gate", "held", "fetches"} BY <1>1 DEF WorkerInv
<1>5. worker' = [worker EXCEPT !.fetches[i] = Done, !.gate = worker.gate,
                               !.held = [observation |-> o, commit |-> m]]
  BY <1>2 DEF WorkerStep, AfterSettling
<1>6. /\ o.id = i /\ o.target = t /\ o.outcome = f.outcome /\ o.summary = f.summary
      /\ o.history = (IF Coherent(f) THEN f.history ELSE None)
      /\ o.historyError = (f.attempt = "fetched" /\ ~Coherent(f))
  BY DEF Observation
<1>7. HasHistory(o) <=> Coherent(f) BY <1>6 DEF HasHistory, Coherent
<1>8. m = IF HasHistory(o) THEN [key |-> <<o.id, o.target>>, epoch |-> o.history.epoch,
                                 revision |-> o.history.revision]
          ELSE None
  BY <1>6, <1>7 DEF PendingCommit
<1>9. t \in Targets /\ i \in Ids BY <1>1 DEF WorkerInv
<1>10. FetchOf(f, t, remote[t]) BY <1>1 DEF FetchInv
<1> HIDE DEF o, m, f, t
<1> DEFINE hand == [observation |-> o, commit |-> m]
<1>11. hand.observation = o /\ hand.commit = m OBVIOUS
<1> HIDE DEF hand
<1>12. /\ DOMAIN worker' = {"pc", "list", "gate", "held", "fetches"}
       /\ worker'.pc = worker.pc /\ worker'.list = worker.list /\ worker'.held = hand
       /\ worker'.gate = worker.gate
       /\ worker'.fetches = [worker.fetches EXCEPT ![i] = Done]
  BY <1>4, <1>5 DEF hand
<1>13. /\ DOMAIN worker'.fetches = DOMAIN worker.fetches /\ worker'.fetches[i] = Done
       /\ \A k \in DOMAIN worker.fetches : k # i => worker'.fetches[k] = worker.fetches[k]
  BY <1>12
<1>14. ObservationOf(o, remote)
  <2>1. o.outcome \in {"supported", "unsupported", "failed"} BY <1>2, <1>6, <1>10 DEF FetchOf
  <2>2. o.historyError \in BOOLEAN BY <1>6
  <2>3. Supports(o) => SummaryOf(o.summary, t, remote[t])
    BY <1>2, <1>6, <1>10 DEF FetchOf, Reads, Supports
  <2>4. ASSUME HasHistory(o)
        PROVE  /\ Supports(o) /\ ~o.historyError /\ HistoryOf(o.history, t, remote[t])
               /\ Stamp(o.history) = Stamp(o.summary)
    <3>1. Coherent(f) BY <1>7, <2>4
    <3>2. o.history = f.history /\ ~o.historyError BY <1>6, <3>1
    <3>3. f.outcome = "supported" /\ HistoryOf(f.history, t, remote[t])
      BY <1>2, <1>10, <3>1 DEF FetchOf, Coherent
    <3> QED BY <1>6, <3>1, <3>2, <3>3 DEF Supports, Coherent, Stamp
  <2> QED BY <1>6, <1>9, <2>1, <2>2, <2>3, <2>4 DEF ObservationOf
<1>15. Quiet(o) => Gated(worker.gate, i, t, o.summary)
  <2> SUFFICES ASSUME Quiet(o) PROVE Gated(worker.gate, i, t, o.summary) OBVIOUS
  <2>1. f.outcome = "supported" /\ f.attempt # "fetched" BY <1>6, <1>7 DEF Quiet, Supports
  <2> QED BY <1>1, <1>2, <1>6, <2>1 DEF FetchInv, Reads, f, t
<1>16. HeldInv'
  BY <1>3, <1>6, <1>8, <1>11, <1>12, <1>13, <1>14, <1>15 DEF HeldInv, t
<1>17. InFlight' \in SUBSET InFlight BY <1>13 DEF InFlight, Done
<1>18. IsFiniteSet(InFlight') /\ Cardinality(InFlight') <= MaxInFlight
  <2>1. IsFiniteSet(InFlight) /\ Cardinality(InFlight) \in Nat /\ Cardinality(InFlight) <= MaxInFlight
    BY <1>1, FS_CardinalityType DEF WorkerInv
  <2>2. MaxInFlight \in Nat BY ConstantsAssumption DEF ConstantsAssumption
  <2>3. IsFiniteSet(InFlight') /\ Cardinality(InFlight') <= Cardinality(InFlight)
    BY <1>17, <2>1, FS_Subset
  <2>4. Cardinality(InFlight') \in Nat BY <2>3, FS_CardinalityType
  <2> QED BY <2>1, <2>2, <2>3, <2>4
<1>19. WorkerInv' BY <1>1, <1>2, <1>12, <1>13, <1>18 DEF WorkerInv
<1>20. ListInv' BY <1>1, <1>3, <1>12 DEF ListInv
<1>21. FetchInv'
  <2>1. FetchOf(Done, worker.list[i], remote[worker.list[i]]) /\ Done.phase = "done"
    BY DEF FetchOf, Reads, Done
  <2> SUFFICES ASSUME NEW k \in DOMAIN worker.fetches
               PROVE  /\ FetchOf(worker'.fetches[k], worker.list[k], remote[worker.list[k]])
                      /\ worker'.fetches[k].phase = "finished" /\ Reads(worker'.fetches[k])
                            /\ worker'.fetches[k].attempt # "fetched" =>
                            Gated(worker.gate, k, worker.list[k], worker'.fetches[k].summary)
    BY <1>3, <1>12, <1>13 DEF FetchInv
  <2>2. CASE k = i BY <1>13, <2>1, <2>2
  <2>3. CASE k # i BY <1>1, <1>13, <2>3 DEF FetchInv
  <2> QED BY <2>2, <2>3
<1>22. \A x \in InHand(worker') : Timely(x)
  <2> TAKE x \in InHand(worker')
  <2>1. CASE \E k \in DOMAIN worker.fetches :
           /\ Reads(worker'.fetches[k])
           /\ x = [id |-> k, target |-> worker.list[k], summary |-> worker'.fetches[k].summary]
    <3>1. PICK k \in DOMAIN worker.fetches :
             /\ Reads(worker'.fetches[k])
             /\ x = [id |-> k, target |-> worker.list[k], summary |-> worker'.fetches[k].summary]
      BY <2>1
    <3>2. k # i BY <1>13, <3>1 DEF Reads, Done
    <3>3. x \in InHand(worker) BY <1>13, <3>1, <3>2 DEF InHand
    <3> QED BY <3>3, <1>1, InHandTimely
  <2>2. CASE x = o /\ Supports(o)
    <3>1. Reads(f) BY <1>2, <1>6, <2>2 DEF Reads, Supports
    <3>2. [id |-> i, target |-> t, summary |-> f.summary] \in InHand(worker)
      BY <3>1 DEF InHand, f, t
    <3>3. Timely([id |-> i, target |-> t, summary |-> f.summary]) BY <1>1, <3>2, InHandTimely
    <3> QED BY <1>6, <2>2, <3>3 DEF Timely, AfterCache, AfterChannel
  <2> QED BY <1>11, <1>12, <1>13, <2>1, <2>2 DEF InHand
<1>23. permit' \in BOOLEAN /\ unread' \in BOOLEAN BY <1>1, <1>3 DEF BooksInv
<1> QED BY <1>3, <1>12, <1>16, <1>19, <1>20, <1>21, <1>22, <1>23, WorkerKeeps

-----------------------------------------------------------------------------
(* The channel.                                                              *)

LEMMA AppendedChannel ==
    ASSUME NEW ch, ch \in Seq(Range(ch)), NEW o
    PROVE  LET d == Append(ch, o) IN
           /\ d \in Seq(Range(d)) /\ Len(ch) \in Nat /\ DOMAIN ch = 1 .. Len(ch)
           /\ Len(d) = Len(ch) + 1 /\ DOMAIN d = 1 .. Len(ch) + 1
           /\ \A n \in 1 .. Len(ch) : d[n] = ch[n]
           /\ d[Len(ch) + 1] = o
<1> DEFINE S == Range(ch) \cup {o}
           d == Append(ch, o)
<1>1. ch \in Seq(S) BY SeqMonotonic
<1>2. o \in S OBVIOUS
<1> HIDE DEF S
<1>3. /\ d \in Seq(S) /\ Len(d) = Len(ch) + 1
      /\ \A n \in 1 .. Len(ch) : d[n] = ch[n]
      /\ d[Len(ch) + 1] = o
  BY <1>1, <1>2, AppendProperties
<1> HIDE DEF d
<1>4. DOMAIN d = 1 .. Len(d) /\ Len(ch) \in Nat /\ DOMAIN ch = 1 .. Len(ch)
  BY <1>1, <1>3, LenProperties
<1>5. d \in Seq(Range(d)) BY <1>3, SeqOfRange
<1> QED BY <1>3, <1>4, <1>5 DEF d

LEMMA TailChannel ==
    ASSUME NEW ch, ch \in Seq(Range(ch)), ch # <<>>
    PROVE  LET d == Tail(ch) IN
           /\ d \in Seq(Range(d)) /\ Len(ch) \in Nat \ {0} /\ DOMAIN ch = 1 .. Len(ch)
           /\ Len(d) = Len(ch) - 1 /\ DOMAIN d = 1 .. Len(ch) - 1
           /\ \A n \in 1 .. Len(ch) - 1 : d[n] = ch[n + 1]
           /\ Head(ch) = ch[1]
<1> DEFINE S == Range(ch)
           d == Tail(ch)
<1>1. ch \in Seq(S) OBVIOUS
<1> HIDE DEF S
<1>2. d \in Seq(S) /\ Len(d) = Len(ch) - 1 /\ \A n \in 1 .. Len(d) : d[n] = ch[n + 1]
  BY <1>1, HeadTailProperties
<1>3. Len(ch) \in Nat /\ DOMAIN ch = 1 .. Len(ch) /\ DOMAIN d = 1 .. Len(d)
  BY <1>1, <1>2, LenProperties
<1>4. Len(ch) # 0 BY <1>1, EmptySeq
<1>5. d \in Seq(Range(d)) BY <1>2, SeqOfRange
<1>6. Head(ch) = ch[1] BY <1>1, <1>3, <1>4 DEF Head
<1> HIDE DEF d
<1> QED BY <1>2, <1>3, <1>4, <1>5, <1>6 DEF d

(* The histories of a system among the first n observations, when one more        *)
(* comes in at the back.                                                      *)
LEMMA HistoriesAppended ==
    ASSUME NEW ch, ch \in Seq(Range(ch)), NEW o, NEW n \in 0 .. Len(ch), NEW i, NEW t, NEW g
    PROVE  LET d == Append(ch, o) IN
           /\ HistoriesOf(d, n, i, t) = HistoriesOf(ch, n, i, t)
           /\ Latest(ch, HistoriesOf(ch, n, i, t), g) => Latest(d, HistoriesOf(ch, n, i, t), g)
<1> DEFINE d == Append(ch, o)
           S == HistoriesOf(ch, n, i, t)
<1>1. Len(ch) \in Nat /\ \A m \in 1 .. Len(ch) : d[m] = ch[m] BY AppendedChannel
<1> HIDE DEF d
<1>2. \A m \in 1 .. n : m \in 1 .. Len(ch) BY <1>1
<1>3. HistoriesOf(d, n, i, t) = S BY <1>1, <1>2 DEF HistoriesOf
<1>4. \A m \in S : d[m] = ch[m] BY <1>1, <1>2 DEF HistoriesOf
<1>5. Latest(ch, S, g) => Latest(d, S, g)
  <2> HIDE DEF S
  <2> QED BY <1>4 DEF Latest
<1> QED BY <1>3, <1>5 DEF d

(* The same when the first one is taken out.                                  *)
TakesHistory(ch, d, n, i, t, g) ==
    LET S == HistoriesOf(ch, n, i, t)
        T == HistoriesOf(d, n - 1, i, t)
        had == Of(ch[1], i, t) /\ HasHistory(ch[1])
    IN  /\ Latest(ch, S, g) => Latest(d, T, g) \/ (T = {} /\ had /\ Stamp(ch[1].history) = g)
        /\ S = {} => T = {} /\ ~had

LEMMA HistoriesTaken ==
    ASSUME NEW ch, ch \in Seq(Range(ch)), ch # <<>>
    PROVE  \A n \in 1 .. Len(ch) : \A i, t, g : TakesHistory(ch, Tail(ch), n, i, t, g)
<1> SUFFICES ASSUME NEW n \in 1 .. Len(ch), NEW i, NEW t, NEW g
             PROVE  TakesHistory(ch, Tail(ch), n, i, t, g)
  OBVIOUS
<1> DEFINE d == Tail(ch)
           S == HistoriesOf(ch, n, i, t)
           T == HistoriesOf(d, n - 1, i, t)
<1>1. Len(ch) \in Nat \ {0} /\ \A m \in 1 .. Len(ch) - 1 : d[m] = ch[m + 1] BY TailChannel
<1> HIDE DEF d
<1>2. S \subseteq 1 .. n /\ T \subseteq 1 .. n - 1 /\ n \in Nat \ {0} BY <1>1 DEF HistoriesOf
<1>3. \A m \in 1 .. n - 1 : d[m] = ch[m + 1] /\ m + 1 \in 1 .. n /\ m + 1 - 1 = m BY <1>1
<1>4. \A m \in 1 .. n - 1 : m \in T <=> m + 1 \in S BY <1>3 DEF HistoriesOf
<1>5. 1 \in S <=> Of(ch[1], i, t) /\ HasHistory(ch[1]) BY <1>2 DEF HistoriesOf
<1> HIDE DEF S, T
<1>6. ASSUME Latest(ch, S, g), ~Latest(d, T, g)
      PROVE  T = {} /\ 1 \in S /\ Stamp(ch[1].history) = g
  <2>1. PICK k \in S : Stamp(ch[k].history) = g /\ \A m \in S : m <= k BY <1>6 DEF Latest
  <2>2. k = 1
    <3> SUFFICES ASSUME k # 1 PROVE FALSE OBVIOUS
    <3>1. k - 1 \in 1 .. n - 1 /\ k - 1 + 1 = k BY <1>2, <2>1
    <3>2. k - 1 \in T /\ d[k - 1] = ch[k] BY <1>3, <1>4, <2>1, <3>1
    <3>3. \A m \in T : m <= k - 1
      <4> TAKE m \in T
      <4>1. m \in 1 .. n - 1 BY <1>2
      <4>2. m + 1 \in S BY <1>4, <4>1
      <4> QED BY <2>1, <3>1, <4>1, <4>2
    <3> QED BY <1>6, <2>1, <3>2, <3>3 DEF Latest
  <2>3. T = {}
    <3> SUFFICES ASSUME NEW m \in T PROVE FALSE OBVIOUS
    <3>1. m \in 1 .. n - 1 BY <1>2
    <3>2. m + 1 \in S BY <1>4, <3>1
    <3> QED BY <2>1, <2>2, <3>1, <3>2
  <2> QED BY <2>1, <2>2, <2>3
<1>7. S = {} => T = {} BY <1>2, <1>4
<1> QED BY <1>5, <1>6, <1>7 DEF TakesHistory, d, S, T

LEMMA DeliverKeeps == ObservationInv /\ DeliverObservation => ObservationInv'
<1> SUFFICES ASSUME ObservationInv, DeliverObservation PROVE ObservationInv' OBVIOUS
<1>1. /\ RemoteInv /\ BooksInv /\ WorkerInv /\ ListInv /\ FetchInv /\ HeldInv /\ ChannelInv
      /\ CacheInv /\ OrderInv /\ GateInv /\ QuietInv /\ JobInv /\ DocumentCurrent
  BY DEF ObservationInv
<1> DEFINE o == worker.held.observation
           m == worker.held.commit
           L == Len(channel)
<1>2. /\ worker.pc = "round" /\ worker.held # None /\ ~permit /\ L < ChannelCapacity
      /\ channel' = Append(channel, o)
      /\ worker' = [worker EXCEPT !.gate = Commit(@, m), !.held = None]
      /\ remote' = remote /\ config' = config /\ cache' = cache
      /\ intents' = intents /\ moved' = moved /\ doc' = doc /\ events' = events
      /\ overtaken' = overtaken /\ permit' = permit /\ unread' = unread
  BY DEF DeliverObservation, WorkerStep
<1>3. /\ ObservationOf(o, remote) /\ o.id \in DOMAIN worker.fetches
      /\ o.target = worker.list[o.id] /\ worker.fetches[o.id] = Done
      /\ m = IF HasHistory(o) THEN [key |-> <<o.id, o.target>>, epoch |-> o.history.epoch,
                                    revision |-> o.history.revision]
             ELSE None
      /\ Quiet(o) => Gated(worker.gate, o.id, o.target, o.summary)
  BY <1>1, <1>2 DEF HeldInv
<1>4. DOMAIN worker = {"pc", "list", "gate", "held", "fetches"} BY <1>1 DEF WorkerInv
<1>5. /\ DOMAIN worker' = {"pc", "list", "gate", "held", "fetches"}
      /\ worker'.pc = worker.pc /\ worker'.list = worker.list /\ worker'.held = None
      /\ worker'.gate = Commit(worker.gate, m) /\ worker'.fetches = worker.fetches
  BY <1>2, <1>4
<1>6. /\ channel' \in Seq(Range(channel')) /\ L \in Nat /\ DOMAIN channel = 1 .. L
      /\ Len(channel') = L + 1 /\ DOMAIN channel' = 1 .. L + 1
      /\ \A n \in 1 .. L : channel'[n] = channel[n]
      /\ channel'[L + 1] = o
  BY <1>1, <1>2, AppendedChannel DEF ChannelInv
<1>7. channel \in Seq(Range(channel)) BY <1>1 DEF ChannelInv
<1>8. Supports(o) => o \in InHand(worker) BY <1>2 DEF InHand
<1> HIDE DEF o, m, L
<1>9. ~unread /\ worker.list = config BY <1>1, <1>2 DEF ListInv, BooksInv
<1> DEFINE key0 == <<o.id, o.target>>
<1>10. /\ HasHistory(o) =>
             /\ DOMAIN worker'.gate = DOMAIN worker.gate \cup {key0}
             /\ worker'.gate[key0] = Stamp(o.history)
             /\ \A key \in DOMAIN worker.gate : key # key0 => worker'.gate[key] = worker.gate[key]
       /\ ~HasHistory(o) => worker'.gate = worker.gate
  <2>1. CASE HasHistory(o)
    <3>1. m = [key |-> key0, epoch |-> o.history.epoch, revision |-> o.history.revision]
      BY <1>3, <2>1
    <3>2. HistoryOf(o.history, o.target, remote[o.target]) /\ o.id \in Ids /\ o.target \in Targets
      BY <1>3, <2>1 DEF ObservationOf
    <3>3. m \in Commits
      <4>1. o.history.epoch \in Epochs /\ o.history.revision \in Nat
        BY <3>2 DEF HistoryOf, Histories
      <4>2. key0 \in Ids \X Targets BY <3>2
      <4> HIDE DEF key0
      <4> QED BY <3>1, <4>1, <4>2 DEF Commits
    <3>4. m # None BY <3>3, NoneAssumption DEF NoneAssumption
    <3>5. m.key = key0 /\ <<m.epoch, m.revision>> = Stamp(o.history) BY <3>1 DEF Stamp
    <3> HIDE DEF key0
    <3>6. worker'.gate = [key \in DOMAIN worker.gate \cup {key0} |->
                             IF key = key0 THEN Stamp(o.history) ELSE worker.gate[key]]
      BY <1>5, <3>4, <3>5 DEF Commit
    <3> QED BY <2>1, <3>6
  <2>2. CASE ~HasHistory(o) BY <1>3, <1>5, <2>2 DEF Commit
  <2> QED BY <2>1, <2>2
<1>11. key0 \in Keys(config) /\ key0 \in Ids \X Targets
  <2>1. o.id \in DOMAIN config /\ o.target = config[o.id] BY <1>1, <1>3, <1>9 DEF WorkerInv
  <2>2. o.id \in Ids /\ o.target \in Targets BY <1>3 DEF ObservationOf
  <2> QED BY <2>1, <2>2 DEF Keys
<1>12. DOMAIN worker'.gate \subseteq DOMAIN worker.gate \cup {key0} BY <1>10
<1>13. RemoteInv' /\ BooksInv' BY <1>1, <1>2 DEF RemoteInv, BooksInv
<1>14. WorkerInv'
  <2>1. InFlight' = InFlight BY <1>5 DEF InFlight
  <2>2. DOMAIN worker'.gate \subseteq Ids \X Targets BY <1>1, <1>11, <1>12 DEF WorkerInv
  <2> QED BY <1>1, <1>2, <1>5, <2>1, <2>2 DEF WorkerInv
<1>15. ListInv'
  <2>1. DOMAIN worker'.gate \subseteq Keys(config) BY <1>1, <1>9, <1>11, <1>12 DEF ListInv
  <2> QED BY <1>2, <1>5, <1>9, <2>1 DEF ListInv
<1>16. FetchInv'
  <2> SUFFICES ASSUME NEW k \in DOMAIN worker.fetches
               PROVE  /\ FetchOf(worker.fetches[k], worker.list[k], remote[worker.list[k]])
                      /\ worker.fetches[k].phase = "finished" /\ Reads(worker.fetches[k])
                            /\ worker.fetches[k].attempt # "fetched" =>
                            Gated(worker'.gate, k, worker.list[k], worker.fetches[k].summary)
    BY <1>2, <1>5 DEF FetchInv
  <2>1. FetchOf(worker.fetches[k], worker.list[k], remote[worker.list[k]]) BY <1>1 DEF FetchInv
  <2>2. ASSUME worker.fetches[k].phase = "finished", Reads(worker.fetches[k]),
               worker.fetches[k].attempt # "fetched"
        PROVE  Gated(worker'.gate, k, worker.list[k], worker.fetches[k].summary)
    <3>1. Gated(worker.gate, k, worker.list[k], worker.fetches[k].summary)
      BY <1>1, <2>2 DEF FetchInv
    <3>2. k # o.id BY <1>3, <2>2 DEF Done
    <3>3. <<k, worker.list[k]>> # key0 BY <3>2
    <3> HIDE DEF key0
    <3> QED BY <1>10, <3>1, <3>3 DEF Gated
  <2> QED BY <2>1, <2>2
<1>17. HeldInv' BY <1>5 DEF HeldInv
<1>18. ChannelInv'
  <2>1. ChannelCapacity \in Nat BY ConstantsAssumption DEF ConstantsAssumption
  <2>2. Len(channel') <= ChannelCapacity BY <1>2, <1>6, <2>1 DEF L
  <2>3. \A n \in DOMAIN channel' : ObservationOf(channel'[n], remote)
    <3> TAKE n \in DOMAIN channel'
    <3>1. CASE n = L + 1 BY <1>3, <1>6, <3>1
    <3>2. CASE n # L + 1
      <4>1. n \in 1 .. L BY <1>6, <3>2
      <4> QED BY <1>1, <1>6, <4>1 DEF ChannelInv
    <3> QED BY <3>1, <3>2
  <2> QED BY <1>2, <1>6, <2>2, <2>3 DEF ChannelInv
<1>19. CacheInv' BY <1>1, <1>2 DEF CacheInv
<1>20. OrderInv'
  <2>1. ASSUME NEW n \in DOMAIN channel', Supports(channel'[n])
        PROVE  AfterCache(channel'[n], cache, config) /\ AfterChannel(channel'[n], channel', n - 1)
    <3>1. CASE n = L + 1
      <4>1. channel'[n] = o /\ n - 1 = L BY <1>6, <3>1
      <4>2. AfterCache(o, cache, config) /\ AfterChannel(o, channel, L)
        BY <1>1, <1>8, <2>1, <4>1 DEF OrderInv, L
      <4>3. AfterChannel(o, channel', L) BY <1>6, <4>2 DEF AfterChannel
      <4> QED BY <4>1, <4>2, <4>3
    <3>2. CASE n # L + 1
      <4>1. n \in 1 .. L BY <1>6, <3>2
      <4>2. channel'[n] = channel[n] BY <1>6, <4>1
      <4>3. AfterCache(channel[n], cache, config) /\ AfterChannel(channel[n], channel, n - 1)
        BY <1>1, <1>6, <2>1, <4>1, <4>2 DEF OrderInv
      <4>4. \A k \in 1 .. n - 1 : channel'[k] = channel[k] BY <1>6, <4>1
      <4>5. AfterChannel(channel[n], channel', n - 1) BY <4>3, <4>4 DEF AfterChannel
      <4> QED BY <4>2, <4>3, <4>5
    <3> QED BY <3>1, <3>2
  <2>2. ASSUME NEW x \in InHand(worker')
        PROVE  AfterCache(x, cache, config) /\ AfterChannel(x, channel', Len(channel'))
    <3>1. PICK k \in DOMAIN worker.fetches :
             /\ Reads(worker.fetches[k])
             /\ x = [id |-> k, target |-> worker.list[k], summary |-> worker.fetches[k].summary]
      BY <1>5, <2>2 DEF InHand
    <3>2. x \in InHand(worker) BY <3>1 DEF InHand
    <3>3. AfterCache(x, cache, config) /\ AfterChannel(x, channel, L)
      BY <1>1, <3>2 DEF OrderInv, L
    <3>4. k # o.id BY <1>3, <3>1 DEF Reads, Done
    <3>5. ~Of(channel'[L + 1], x.id, x.target) BY <1>6, <3>1, <3>4 DEF Of
    <3>6. AfterChannel(x, channel', L + 1)
      <4> SUFFICES ASSUME NEW j \in 1 .. L + 1, Of(channel'[j], x.id, x.target),
                          HasHistory(channel'[j])
                   PROVE  Before(channel'[j].history, x.summary)
        BY DEF AfterChannel
      <4>1. j # L + 1 BY <3>5
      <4>2. j \in 1 .. L BY <1>6, <4>1
      <4>3. channel'[j] = channel[j] BY <1>6, <4>2
      <4> QED BY <3>3, <4>2, <4>3 DEF AfterChannel
    <3> QED BY <1>6, <3>3, <3>6
  <2> QED BY <1>2, <2>1, <2>2 DEF OrderInv
<1>21. \A n \in 0 .. L : \A i, t, g :
          /\ HistoriesOf(channel', n, i, t) = HistoriesOf(channel, n, i, t)
          /\ Latest(channel, HistoriesOf(channel, n, i, t), g)
                => Latest(channel', HistoriesOf(channel, n, i, t), g)
  <2> SUFFICES ASSUME NEW n \in 0 .. L, NEW i, NEW t, NEW g
               PROVE  /\ HistoriesOf(channel', n, i, t) = HistoriesOf(channel, n, i, t)
                      /\ Latest(channel, HistoriesOf(channel, n, i, t), g)
                            => Latest(channel', HistoriesOf(channel, n, i, t), g)
    OBVIOUS
  <2>1. n \in 0 .. Len(channel) BY DEF L
  <2> QED BY <1>2, <1>7, <2>1, HistoriesAppended
<1>22. L \in 0 .. L BY <1>6
<1>23. GateInv'
  <2> SUFFICES ASSUME NEW key \in DOMAIN worker'.gate
               PROVE  GateStands(worker'.gate[key], key[1], key[2], channel', cache, config, overtaken)
    BY <1>2 DEF GateInv
  <2> DEFINE S == HistoriesOf(channel, L, key[1], key[2])
             T == HistoriesOf(channel', L + 1, key[1], key[2])
  <2>1. CASE HasHistory(o) /\ key = key0
    <3>1. key[1] = o.id /\ key[2] = o.target BY <2>1
    <3>2. Of(channel'[L + 1], key[1], key[2]) /\ HasHistory(channel'[L + 1])
      BY <1>6, <2>1, <3>1 DEF Of
    <3>3. L + 1 \in T /\ \A k \in T : k <= L + 1 BY <1>6, <3>2 DEF HistoriesOf
    <3>4. Stamp(channel'[L + 1].history) = worker'.gate[key] BY <1>6, <1>10, <2>1
    <3>5. Latest(channel', T, worker'.gate[key])
      <4> HIDE DEF T
      <4> QED BY <3>3, <3>4 DEF Latest
    <3> QED BY <1>6, <3>5 DEF GateStands
  <2>2. CASE ~(HasHistory(o) /\ key = key0)
    <3>1. key \in DOMAIN worker.gate /\ worker'.gate[key] = worker.gate[key]
      BY <1>10, <2>2
    <3>2. key = <<key[1], key[2]>> BY <1>1, <3>1 DEF WorkerInv
    <3>3. ~(Of(o, key[1], key[2]) /\ HasHistory(o))
      <4>1. Of(o, key[1], key[2]) => key = key0 BY <3>2 DEF Of
      <4> QED BY <2>2, <4>1
    <3>4. T = S
      <4>1. HistoriesOf(channel', L, key[1], key[2]) = S BY <1>21, <1>22
      <4>2. \A k \in 1 .. L + 1 : k \in 1 .. L \/ k = L + 1 BY <1>6
      <4>3. \A k \in 1 .. L : k \in 1 .. L + 1 BY <1>6
      <4>4. T = HistoriesOf(channel', L, key[1], key[2])
        BY <1>6, <3>3, <4>2, <4>3 DEF HistoriesOf
      <4> QED BY <4>1, <4>4
    <3>5. GateStands(worker.gate[key], key[1], key[2], channel, cache, config, overtaken)
      BY <1>1, <3>1 DEF GateInv
    <3>6. Latest(channel, S, worker.gate[key]) => Latest(channel', S, worker.gate[key])
      BY <1>21, <1>22
    <3> HIDE DEF S, T
    <3> QED BY <1>6, <3>1, <3>4, <3>5, <3>6 DEF GateStands, S, T, L
  <2> QED BY <2>1, <2>2
<1>24. QuietInv'
  <2> SUFFICES ASSUME NEW n \in DOMAIN channel', Quiet(channel'[n])
               PROVE  QuietStands(channel'[n], n, channel', cache, config)
    BY <1>2 DEF QuietInv
  <2> DEFINE q == channel'[n]
             S == HistoriesOf(channel, n - 1, q.id, q.target)
  <2>1. n - 1 \in 0 .. L BY <1>6
  <2>2. /\ HistoriesOf(channel', n - 1, q.id, q.target) = S
        /\ Latest(channel, S, Stamp(q.summary)) => Latest(channel', S, Stamp(q.summary))
    BY <1>21, <2>1
  <2>3. \/ Latest(channel, S, Stamp(q.summary))
        \/ /\ S = {}
           /\ Configured(config, q.id, q.target) /\ q.id \in DOMAIN cache =>
                 Stamp(cache[q.id]) = Stamp(q.summary) \/ cache[q.id].records = <<>>
    <3>1. CASE n = L + 1
      <4>1. q = o /\ n - 1 = L BY <1>6, <3>1
      <4>2. Gated(worker.gate, o.id, o.target, o.summary) BY <1>3, <4>1
      <4>3. GateStands(worker.gate[key0], key0[1], key0[2], channel, cache, config, overtaken)
        BY <1>1, <4>2 DEF GateInv, Gated
      <4>4. GateStands(Stamp(o.summary), o.id, o.target, channel, cache, config, overtaken)
        BY <4>2, <4>3 DEF Gated
      <4> HIDE DEF q
      <4> QED BY <4>1, <4>4 DEF GateStands, L
    <3>2. CASE n # L + 1
      <4>1. n \in 1 .. L BY <1>6, <3>2
      <4>2. q = channel[n] BY <1>6, <4>1
      <4>3. QuietStands(q, n, channel, cache, config) BY <1>1, <1>6, <4>1, <4>2 DEF QuietInv
      <4> HIDE DEF q
      <4> QED BY <4>3 DEF QuietStands
    <3> QED BY <3>1, <3>2
  <2> HIDE DEF S
  <2> QED BY <2>2, <2>3 DEF QuietStands
<1>25. JobInv'
  <2>1. Known' \subseteq Known
    <3> SUFFICES ASSUME NEW a \in Known' PROVE a \in Known OBVIOUS
    <3>1. CASE \E x \in InHand(worker') : a = x.summary
      <4>1. InHand(worker') \subseteq InHand(worker) BY <1>5 DEF InHand
      <4> QED BY <3>1, <4>1 DEF Known
    <3>2. CASE \E n \in DOMAIN channel' : Supports(channel'[n]) /\ a = channel'[n].summary
      <4>1. PICK n \in DOMAIN channel' : Supports(channel'[n]) /\ a = channel'[n].summary BY <3>2
      <4>2. CASE n = L + 1 BY <1>6, <1>8, <4>1, <4>2 DEF Known
      <4>3. CASE n # L + 1
        <5>1. n \in 1 .. L BY <1>6, <4>3
        <5> QED BY <1>6, <4>1, <5>1 DEF Known
      <4> QED BY <4>2, <4>3
    <3>3. CASE a \in {Summary(remote[t]) : t \in Targets} BY <3>3 DEF Known
    <3>4. CASE a \in {cache[i].summary : i \in {k \in DOMAIN cache : cache[k].summary # None}}
      BY <3>4 DEF Known
    <3> QED BY <1>2, <3>1, <3>2, <3>3, <3>4 DEF Known
  <2> QED BY <1>1, <1>2, <2>1, JobsStay
<1>26. DocumentCurrent' BY <1>1, <1>2 DEF DocumentCurrent
<1> QED BY <1>13, <1>14, <1>15, <1>16, <1>17, <1>18, <1>19, <1>20, <1>23, <1>24, <1>25, <1>26
        DEF ObservationInv

-----------------------------------------------------------------------------
(* The engine takes an observation.                                           *)

(* What the cache d says after it took o, against c before.                    *)
TookIn(o, c, d, cfg) ==
    \A i \in DOMAIN cfg :
       /\ Of(o, i, cfg[i]) /\ HasHistory(o) => i \in DOMAIN d /\ Stamp(d[i]) = Stamp(o.history)
       /\ ~(Of(o, i, cfg[i]) /\ HasHistory(o)) =>
             /\ i \in DOMAIN c => i \in DOMAIN d /\ Stamp(d[i]) = Stamp(c[i])
             /\ i \in DOMAIN d /\ i \notin DOMAIN c => d[i].epoch = None /\ d[i].records = <<>>
             /\ i \in DOMAIN c /\ i \in DOMAIN d /\ c[i].records = <<>> => d[i].records = <<>>

LEMMA TookApplied ==
    ASSUME NEW c, CacheOf(c), NEW cfg, DOMAIN c \subseteq DOMAIN cfg, NEW rem,
           \A i \in DOMAIN c : SystemOf(c[i], cfg[i], rem[cfg[i]]), Total(c) <= TotalCap,
           NEW o, ObservationOf(o, rem), o.id \in DOMAIN cfg, cfg[o.id] = o.target,
           Supports(o) => AfterCache(o, c, cfg)
    PROVE  TookIn(o, c, Applied(c, o), cfg)
<1> DEFINE d == Applied(c, o)
           w == Written(c, o)
           s == System(c, o.id)
           n == AppliedSystem(s, o)
<1>1. ShrunkCache(w, d)
  <2> HIDE DEF w, d
  <2> QED BY AppliedCache DEF w, d
<1>2. DOMAIN w = DOMAIN c \cup {o.id} /\ w[o.id] = n /\ \A i \in DOMAIN c : i # o.id => w[i] = c[i]
  BY DEF Written
<1>3. s \in Systems
  <2>1. SystemOf(s, cfg[o.id], rem[cfg[o.id]]) BY SystemKnown
  <2> QED BY <2>1 DEF SystemOf
<1>4. o.outcome \in {"supported", "unsupported", "failed"} /\ o.historyError \in BOOLEAN
      /\ (HasHistory(o) => Supports(o))
  BY DEF ObservationOf
<1>5. o.id \in DOMAIN c => s = c[o.id] BY DEF System
<1>6. o.id \notin DOMAIN c => s.epoch = None /\ s.records = <<>> BY DEF System, Unknown
<1> HIDE DEF s
<1>7. /\ HasHistory(o) => n.epoch = o.history.epoch /\ n.revision = o.history.revision
      /\ ~HasHistory(o) =>
            n.epoch = s.epoch /\ n.revision = s.revision /\ n.records = s.records
  BY <1>3, <1>4, AppliedFields
<1> HIDE DEF d, w, n
<1>8. /\ DOMAIN d = DOMAIN c \cup {o.id}
      /\ \A i \in DOMAIN d : /\ d[i].epoch = w[i].epoch /\ d[i].revision = w[i].revision
                             /\ w[i].records = <<>> => d[i].records = <<>>
  BY <1>1, <1>2 DEF ShrunkCache, Shrunk
<1>9. ASSUME NEW i \in DOMAIN cfg, Of(o, i, cfg[i]), HasHistory(o)
      PROVE  i \in DOMAIN d /\ Stamp(d[i]) = Stamp(o.history)
  <2>1. i = o.id BY <1>9 DEF Of
  <2> QED BY <1>2, <1>7, <1>8, <1>9, <2>1 DEF Stamp
<1>10. ASSUME NEW i \in DOMAIN cfg, ~(Of(o, i, cfg[i]) /\ HasHistory(o))
       PROVE  /\ i \in DOMAIN c => i \in DOMAIN d /\ Stamp(d[i]) = Stamp(c[i])
              /\ i \in DOMAIN d /\ i \notin DOMAIN c => d[i].epoch = None /\ d[i].records = <<>>
              /\ i \in DOMAIN c /\ i \in DOMAIN d /\ c[i].records = <<>> => d[i].records = <<>>
  <2>1. CASE i = o.id
    <3>1. ~HasHistory(o) BY <1>10, <2>1 DEF Of
    <3>2. w[i].epoch = s.epoch /\ w[i].revision = s.revision /\ w[i].records = s.records
      BY <1>2, <1>7, <2>1, <3>1
    <3>3. i \in DOMAIN d BY <1>8, <2>1
    <3> QED BY <1>5, <1>6, <1>8, <2>1, <3>2, <3>3 DEF Stamp
  <2>2. CASE i # o.id BY <1>2, <1>8, <2>2 DEF Stamp
  <2> QED BY <2>1, <2>2
<1>11. TookIn(o, c, d, cfg) BY <1>9, <1>10 DEF TookIn
<1> QED BY <1>11 DEF d

(* A job that is over leaves nothing, and the summaries are known ones.         *)
LEMMA AppliedJobs ==
    ASSUME NEW c, CacheOf(c), NEW cfg, DOMAIN c \subseteq DOMAIN cfg, NEW rem,
           \A i \in DOMAIN c : SystemOf(c[i], cfg[i], rem[cfg[i]]), Total(c) <= TotalCap,
           NEW o, ObservationOf(o, rem), o.id \in DOMAIN cfg, cfg[o.id] = o.target,
           Supports(o) => AfterCache(o, c, cfg), NEW K,
           \A i \in DOMAIN c : c[i].summary # None => c[i].summary \in K,
           Supports(o) => o.summary \in K, LivesAgree(K), EndedEmpty(K, c), QuietEmpty(c),
           Quiet(o) /\ o.id \in DOMAIN c =>
              Stamp(c[o.id]) = Stamp(o.summary) \/ c[o.id].records = <<>>
    PROVE  LET d == Applied(c, o) IN
           /\ \A i \in DOMAIN d : d[i].summary # None => d[i].summary \in K
           /\ EndedEmpty(K, d) /\ QuietEmpty(d)
<1> DEFINE d == Applied(c, o)
           w == Written(c, o)
           s == System(c, o.id)
           n == AppliedSystem(s, o)
<1>1. ShrunkCache(w, d)
  <2> HIDE DEF w, d
  <2> QED BY AppliedCache DEF w, d
<1>2. DOMAIN w = DOMAIN c \cup {o.id} /\ w[o.id] = n /\ \A i \in DOMAIN c : i # o.id => w[i] = c[i]
  BY DEF Written
<1>3. s \in Systems
  <2>1. SystemOf(s, cfg[o.id], rem[cfg[o.id]]) BY SystemKnown
  <2> QED BY <2>1 DEF SystemOf
<1>4. /\ o.outcome \in {"supported", "unsupported", "failed"} /\ o.historyError \in BOOLEAN
      /\ HasHistory(o) => Supports(o) /\ Stamp(o.history) = Stamp(o.summary)
  BY DEF ObservationOf
<1>5. o.id \in DOMAIN c => s = c[o.id] BY DEF System
<1>6. o.id \notin DOMAIN c => s.epoch = None /\ s.records = <<>> /\ s.summary = None
  BY DEF System, Unknown
<1> HIDE DEF s
<1>7. /\ n.summary = (IF Supports(o) THEN o.summary
                      ELSE IF o.outcome = "failed" THEN s.summary ELSE None)
      /\ n.error = (IF Supports(o) THEN o.historyError ELSE o.outcome = "failed")
      /\ HasHistory(o) => n.epoch = o.history.epoch /\ (~o.summary.job => n.records = <<>>)
      /\ ~HasHistory(o) => n.epoch = s.epoch /\ n.records = s.records
  BY <1>3, <1>4, AppliedFields
<1> HIDE DEF d, w, n
<1>8. /\ DOMAIN d = DOMAIN c \cup {o.id}
      /\ \A i \in DOMAIN d : /\ d[i].epoch = w[i].epoch /\ d[i].summary = w[i].summary
                             /\ d[i].error = w[i].error
                             /\ w[i].records = <<>> => d[i].records = <<>>
  BY <1>1, <1>2 DEF ShrunkCache, Shrunk
<1>9. ASSUME NEW i \in DOMAIN d, d[i].summary # None PROVE d[i].summary \in K
  <2>1. CASE i = o.id BY <1>2, <1>5, <1>6, <1>7, <1>8, <1>9, <2>1
  <2>2. CASE i # o.id BY <1>2, <1>8, <1>9, <2>2
  <2> QED BY <2>1, <2>2
<1>10. EndedEmpty(K, d)
  <2> SUFFICES ASSUME NEW i \in DOMAIN d, NEW a \in K, a.epoch = d[i].epoch, ~a.job
               PROVE  d[i].records = <<>>
    BY DEF EndedEmpty
  <2>1. CASE i = o.id /\ HasHistory(o)
    <3>1. Supports(o) /\ o.history.epoch = o.summary.epoch BY <1>4, <2>1 DEF Stamp
    <3>2. a.epoch = o.summary.epoch BY <1>2, <1>7, <1>8, <2>1, <3>1
    <3>3. ~o.summary.job BY <3>1, <3>2 DEF LivesAgree
    <3> QED BY <1>2, <1>7, <1>8, <2>1, <3>3
  <2>2. CASE i = o.id /\ ~HasHistory(o)
    <3>1. a.epoch = s.epoch BY <1>2, <1>7, <1>8, <2>2
    <3>2. s.records = <<>> BY <1>5, <1>6, <2>2, <3>1 DEF EndedEmpty
    <3> QED BY <1>2, <1>7, <1>8, <2>2, <3>2
  <2>3. CASE i # o.id
    <3>1. i \in DOMAIN c /\ w[i] = c[i] BY <1>2, <1>8, <2>3
    <3>2. c[i].records = <<>> BY <1>8, <3>1 DEF EndedEmpty
    <3> QED BY <1>8, <3>1, <3>2
  <2> QED BY <2>1, <2>2, <2>3
<1>11. QuietEmpty(d)
  <2> SUFFICES ASSUME NEW i \in DOMAIN d, d[i].summary # None, ~d[i].error, ~d[i].summary.job
               PROVE  d[i].records = <<>>
    BY DEF QuietEmpty
  <2>1. CASE i = o.id
    <3>1. n.summary # None /\ ~n.error /\ ~n.summary.job BY <1>2, <1>8, <2>1
    <3>2. Supports(o) /\ n.summary = o.summary /\ ~o.historyError
      BY <1>7, <3>1
    <3>3. n.records = <<>>
      <4>1. CASE HasHistory(o) BY <1>7, <3>1, <3>2, <4>1
      <4>2. CASE ~HasHistory(o) /\ o.id \in DOMAIN c
        <5>1. Quiet(o) BY <3>2, <4>2 DEF Quiet
        <5>2. Stamp(c[o.id]) = Stamp(o.summary) => c[o.id].records = <<>>
          BY <3>1, <3>2, <4>2 DEF EndedEmpty, Stamp
        <5> QED BY <1>5, <1>7, <4>2, <5>1, <5>2
      <4>3. CASE ~HasHistory(o) /\ o.id \notin DOMAIN c BY <1>6, <1>7, <4>3
      <4> QED BY <4>1, <4>2, <4>3
    <3> QED BY <1>2, <1>8, <2>1, <3>3
  <2>2. CASE i # o.id
    <3>1. i \in DOMAIN c /\ w[i] = c[i] BY <1>2, <1>8, <2>2
    <3>2. c[i].records = <<>> BY <1>8, <3>1 DEF QuietEmpty
    <3> QED BY <1>8, <3>1, <3>2
  <2> QED BY <2>1, <2>2
<1> QED BY <1>9, <1>10, <1>11 DEF d

(* The rest of the invariant, whether the observation was applied or not.       *)
LEMMA TakeKeeps ==
    ASSUME ObservationInv, channel # <<>>, channel' = Tail(channel),
           remote' = remote, config' = config, permit' = permit, worker' = worker,
           events' = events, unread' = unread, overtaken' = overtaken, moved' = moved,
           TookIn(channel[1], cache, cache', config), CacheInv', DocumentCurrent',
           \A i \in DOMAIN cache' : cache'[i].summary # None => cache'[i].summary \in Known,
           EndedEmpty(Known, cache'), QuietEmpty(cache')
    PROVE  ObservationInv'
<1>1. /\ RemoteInv /\ BooksInv /\ WorkerInv /\ ListInv /\ FetchInv /\ HeldInv /\ ChannelInv
      /\ CacheInv /\ OrderInv /\ GateInv /\ QuietInv /\ JobInv
  BY DEF ObservationInv
<1> DEFINE L == Len(channel)
           o == channel[1]
<1>2. channel \in Seq(Range(channel)) BY <1>1 DEF ChannelInv
<1>3. /\ channel' \in Seq(Range(channel')) /\ L \in Nat \ {0} /\ DOMAIN channel = 1 .. L
      /\ Len(channel') = L - 1 /\ DOMAIN channel' = 1 .. L - 1
      /\ \A n \in 1 .. L - 1 : channel'[n] = channel[n + 1]
  BY <1>2, TailChannel
<1>4. RemoteInv' /\ BooksInv' BY <1>1 DEF RemoteInv, BooksInv
<1>5. WorkerInv' /\ ListInv' BY <1>1 DEF WorkerInv, ListInv, InFlight
<1>6. FetchInv' /\ HeldInv' BY <1>1 DEF FetchInv, HeldInv
<1>7. ChannelInv'
  <2>1. ChannelCapacity \in Nat BY ConstantsAssumption DEF ConstantsAssumption
  <2>2. Len(channel') <= ChannelCapacity BY <1>1, <1>3, <2>1 DEF ChannelInv
  <2>3. \A n \in DOMAIN channel' : ObservationOf(channel'[n], remote)
    <3> TAKE n \in DOMAIN channel'
    <3>1. n + 1 \in DOMAIN channel /\ channel'[n] = channel[n + 1] BY <1>3
    <3> QED BY <1>1, <3>1 DEF ChannelInv
  <2> QED BY <1>3, <2>2, <2>3 DEF ChannelInv
<1> HIDE DEF L
<1>8. ASSUME NEW x, AfterCache(x, cache, config), NEW k \in Nat \ {0}, AfterChannel(x, channel, k)
      PROVE  AfterCache(x, cache', config)
  <2> SUFFICES ASSUME x.id \in DOMAIN cache', config[x.id] = x.target,
                      cache'[x.id].epoch # None
               PROVE  Before(cache'[x.id], x.summary)
    BY DEF AfterCache
  <2>1. x.id \in DOMAIN config BY DEF CacheInv
  <2>2. CASE Of(o, x.id, x.target) /\ HasHistory(o)
    <3>1. Stamp(cache'[x.id]) = Stamp(o.history) BY <2>1, <2>2 DEF TookIn
    <3>2. 1 \in 1 .. k OBVIOUS
    <3>3. Before(o.history, x.summary) BY <1>8, <2>2, <3>2 DEF AfterChannel
    <3> QED BY <3>1, <3>3 DEF Before, Stamp
  <2>3. CASE ~(Of(o, x.id, x.target) /\ HasHistory(o))
    <3>1. x.id \in DOMAIN cache /\ Stamp(cache'[x.id]) = Stamp(cache[x.id])
      BY <2>1, <2>3 DEF TookIn
    <3>2. Before(cache[x.id], x.summary) BY <1>8, <3>1 DEF AfterCache, Stamp
    <3> QED BY <3>1, <3>2 DEF Before, Stamp
  <2> QED BY <2>2, <2>3
<1>9. ASSUME NEW x, NEW n \in 0 .. L - 1, AfterChannel(x, channel, n + 1)
      PROVE  AfterChannel(x, channel', n)
  <2> SUFFICES ASSUME NEW m \in 1 .. n, Of(channel'[m], x.id, x.target), HasHistory(channel'[m])
               PROVE  Before(channel'[m].history, x.summary)
    BY DEF AfterChannel
  <2>1. m \in 1 .. L - 1 /\ m + 1 \in 1 .. n + 1 BY <1>3
  <2>2. channel'[m] = channel[m + 1] BY <1>3, <2>1
  <2> QED BY <1>9, <2>1, <2>2 DEF AfterChannel
<1>10. OrderInv'
  <2>1. ASSUME NEW n \in DOMAIN channel', Supports(channel'[n])
        PROVE  AfterCache(channel'[n], cache', config) /\ AfterChannel(channel'[n], channel', n - 1)
    <3>1. n + 1 \in DOMAIN channel /\ channel'[n] = channel[n + 1] /\ n + 1 - 1 = n
          /\ n \in Nat \ {0} /\ n - 1 \in 0 .. L - 1 /\ n - 1 + 1 = n
      BY <1>3
    <3>2. AfterCache(channel[n + 1], cache, config) /\ AfterChannel(channel[n + 1], channel, n)
      BY <1>1, <2>1, <3>1 DEF OrderInv
    <3>3. AfterCache(channel[n + 1], cache', config) BY <1>8, <3>1, <3>2
    <3>4. AfterChannel(channel[n + 1], channel', n - 1) BY <1>9, <3>1, <3>2
    <3> QED BY <3>1, <3>3, <3>4
  <2>2. ASSUME NEW x \in InHand(worker)
        PROVE  AfterCache(x, cache', config) /\ AfterChannel(x, channel', Len(channel'))
    <3>1. AfterCache(x, cache, config) /\ AfterChannel(x, channel, L)
      BY <1>1 DEF OrderInv, L
    <3>2. L - 1 \in 0 .. L - 1 /\ L - 1 + 1 = L BY <1>3
    <3>3. AfterChannel(x, channel', L - 1) BY <1>9, <3>1, <3>2
    <3> QED BY <1>3, <1>8, <3>1, <3>3
  <2> QED BY <2>1, <2>2 DEF OrderInv
<1>11. \A n \in 1 .. L : \A i, t, g : TakesHistory(channel, channel', n, i, t, g)
  <2>1. \A n \in 1 .. Len(channel) : \A i, t, g : TakesHistory(channel, Tail(channel), n, i, t, g)
    BY <1>2, HistoriesTaken
  <2> QED BY <2>1 DEF L
<1>12. GateInv'
  <2> SUFFICES ASSUME NEW key \in DOMAIN worker.gate
               PROVE  GateStands(worker.gate[key], key[1], key[2], channel', cache', config, overtaken)
    BY DEF GateInv
  <2> DEFINE i == key[1]
             t == key[2]
             g == worker.gate[key]
             S == HistoriesOf(channel, L, i, t)
             T == HistoriesOf(channel', L - 1, i, t)
  <2>1. GateStands(g, i, t, channel, cache, config, overtaken) BY <1>1 DEF GateInv
  <2>2. L \in 1 .. L BY <1>3
  <2>3. /\ Latest(channel, S, g) =>
              \/ Latest(channel', T, g)
              \/ T = {} /\ Of(o, i, t) /\ HasHistory(o) /\ Stamp(o.history) = g
        /\ S = {} => T = {} /\ ~(Of(o, i, t) /\ HasHistory(o))
    BY <1>11, <2>2 DEF TakesHistory
  <2> HIDE DEF o, i, t, g
  <2>4. \/ Latest(channel, S, g)
        \/ /\ S = {}
           /\ Configured(config, i, t) =>
                 \/ i \in DOMAIN cache /\ Stamp(cache[i]) = g
                 \/ overtaken /\ (i \in DOMAIN cache => cache[i].records = <<>>)
    BY <2>1 DEF GateStands, L
  <2> HIDE DEF S, T
  <2>5. \/ Latest(channel', T, g)
        \/ /\ T = {}
           /\ Configured(config, i, t) =>
                 \/ i \in DOMAIN cache' /\ Stamp(cache'[i]) = g
                 \/ overtaken /\ (i \in DOMAIN cache' => cache'[i].records = <<>>)
    <3>1. CASE T = {} /\ Of(o, i, t) /\ HasHistory(o) /\ Stamp(o.history) = g
      BY <3>1 DEF TookIn, Configured, o
    <3>2. CASE S = {}
      <4> SUFFICES ASSUME Configured(config, i, t)
                   PROVE  \/ i \in DOMAIN cache' /\ Stamp(cache'[i]) = g
                          \/ overtaken /\ (i \in DOMAIN cache' => cache'[i].records = <<>>)
        BY <2>3, <3>2
      <4>1. i \in DOMAIN config /\ ~(Of(o, i, config[i]) /\ HasHistory(o))
        BY <2>3, <3>2 DEF Configured
      <4>2. CASE i \in DOMAIN cache /\ Stamp(cache[i]) = g
        BY <4>1, <4>2 DEF TookIn, o
      <4>3. CASE overtaken /\ (i \in DOMAIN cache => cache[i].records = <<>>)
        BY <4>1, <4>3 DEF TookIn, o
      <4>4. ~Latest(channel, S, g) BY <3>2 DEF Latest
      <4> QED BY <2>4, <4>2, <4>3, <4>4
    <3> QED BY <2>3, <2>4, <3>1, <3>2
  <2> QED BY <1>3, <2>5 DEF GateStands, T, i, t, g
<1>13. QuietInv'
  <2> SUFFICES ASSUME NEW n \in DOMAIN channel', Quiet(channel'[n])
               PROVE  QuietStands(channel'[n], n, channel', cache', config)
    BY DEF QuietInv
  <2> DEFINE q == channel'[n]
             g == Stamp(q.summary)
             i == q.id
             t == q.target
             S == HistoriesOf(channel, n, i, t)
             T == HistoriesOf(channel', n - 1, i, t)
  <2>1. n \in 1 .. L /\ n + 1 \in DOMAIN channel /\ q = channel[n + 1] /\ n + 1 - 1 = n BY <1>3
  <2>2. QuietStands(q, n + 1, channel, cache, config) BY <1>1, <2>1 DEF QuietInv
  <2>3. /\ Latest(channel, S, g) =>
              \/ Latest(channel', T, g)
              \/ T = {} /\ Of(o, i, t) /\ HasHistory(o) /\ Stamp(o.history) = g
        /\ S = {} => T = {} /\ ~(Of(o, i, t) /\ HasHistory(o))
    BY <1>11, <2>1 DEF TakesHistory
  <2> HIDE DEF o, q
  <2>4. \/ Latest(channel, S, g)
        \/ /\ S = {}
           /\ Configured(config, i, t) /\ i \in DOMAIN cache =>
                 Stamp(cache[i]) = g \/ cache[i].records = <<>>
    BY <2>1, <2>2 DEF QuietStands
  <2> HIDE DEF S, T, i, t, g
  <2>5. \/ Latest(channel', T, g)
        \/ /\ T = {}
           /\ Configured(config, i, t) /\ i \in DOMAIN cache' =>
                 Stamp(cache'[i]) = g \/ cache'[i].records = <<>>
    <3>1. CASE T = {} /\ Of(o, i, t) /\ HasHistory(o) /\ Stamp(o.history) = g
      BY <3>1 DEF TookIn, Configured, o
    <3>2. CASE S = {}
      <4> SUFFICES ASSUME Configured(config, i, t), i \in DOMAIN cache'
                   PROVE  Stamp(cache'[i]) = g \/ cache'[i].records = <<>>
        BY <2>3, <3>2
      <4>1. i \in DOMAIN config /\ ~(Of(o, i, config[i]) /\ HasHistory(o))
        BY <2>3, <3>2 DEF Configured
      <4>2. CASE i \notin DOMAIN cache BY <4>1, <4>2 DEF TookIn, o
      <4>3. CASE i \in DOMAIN cache
        <5>1. ~Latest(channel, S, g) BY <3>2 DEF Latest
        <5>2. Stamp(cache[i]) = g \/ cache[i].records = <<>> BY <2>4, <4>3, <5>1
        <5> QED BY <4>1, <4>3, <5>2 DEF TookIn, o
      <4> QED BY <4>2, <4>3
    <3> QED BY <2>3, <2>4, <3>1, <3>2
  <2> QED BY <2>5 DEF QuietStands, T, i, t, g, q
<1>14. JobInv'
  <2>1. Known' \subseteq Known
    <3> SUFFICES ASSUME NEW a \in Known' PROVE a \in Known OBVIOUS
    <3>1. CASE \E n \in DOMAIN channel' : Supports(channel'[n]) /\ a = channel'[n].summary
      <4>1. PICK n \in DOMAIN channel' : Supports(channel'[n]) /\ a = channel'[n].summary BY <3>1
      <4>2. n + 1 \in DOMAIN channel /\ channel'[n] = channel[n + 1] BY <1>3
      <4> QED BY <4>1, <4>2 DEF Known
    <3>2. CASE \E i \in DOMAIN cache' : cache'[i].summary # None /\ a = cache'[i].summary
      BY <3>2
    <3>3. CASE a \in {Summary(remote[t]) : t \in Targets} \cup {x.summary : x \in InHand(worker)}
      BY <3>3 DEF Known
    <3> QED BY <3>1, <3>2, <3>3 DEF Known
  <2>2. LivesAgree(Known') BY <1>1, <2>1 DEF JobInv, LivesAgree
  <2>3. EndedEmpty(Known', cache') BY <2>1 DEF EndedEmpty
  <2> QED BY <2>2, <2>3 DEF JobInv
<1> QED BY <1>4, <1>5, <1>6, <1>7, <1>10, <1>12, <1>13, <1>14 DEF ObservationInv

LEMMA TakeObservationKeeps == ObservationInv /\ TakeObservation => ObservationInv'
<1> SUFFICES ASSUME ObservationInv, TakeObservation PROVE ObservationInv' OBVIOUS
<1>1. /\ BooksInv /\ ChannelInv /\ CacheInv /\ OrderInv /\ QuietInv /\ JobInv /\ DocumentCurrent
  BY DEF ObservationInv
<1> DEFINE o == channel[1]
<1>2. channel # <<>> /\ channel' = Tail(channel) BY DEF TakeObservation
<1>3. /\ remote' = remote /\ config' = config /\ permit' = permit /\ worker' = worker
      /\ intents' = intents /\ moved' = moved /\ events' = events /\ unread' = unread
      /\ overtaken' = overtaken
  BY DEF TakeObservation
<1>4. Len(channel) \in Nat \ {0} /\ DOMAIN channel = 1 .. Len(channel) /\ Head(channel) = o
  BY <1>1, <1>2, TailChannel DEF ChannelInv
<1>5. 1 \in DOMAIN channel /\ 1 - 1 = 0 BY <1>4
<1>6. \/ ~Accepts(o) /\ cache' = cache /\ doc' = doc
      \/ /\ Accepts(o) /\ cache' = Applied(cache, o)
         /\ doc' = IF Visibly(cache, o) THEN Document(cache', config, intents) ELSE doc
  BY <1>4 DEF TakeObservation
<1>7. CacheOf(cache)
  <2>1. DOMAIN config \subseteq Ids BY <1>1, ConfigParts DEF BooksInv
  <2> QED BY <1>1, <2>1 DEF CacheInv, CacheOf
<1>8. /\ DOMAIN cache \subseteq DOMAIN config /\ Total(cache) <= TotalCap
      /\ \A i \in DOMAIN cache : SystemOf(cache[i], config[i], remote[config[i]])
  BY <1>1 DEF CacheInv
<1>9. ObservationOf(o, remote) BY <1>1, <1>5 DEF ChannelInv
<1>10. Supports(o) => AfterCache(o, cache, config) BY <1>1, <1>5 DEF OrderInv
<1>11. /\ \A i \in DOMAIN cache : cache[i].summary # None => cache[i].summary \in Known
       /\ Supports(o) => o.summary \in Known
  BY <1>5 DEF Known
<1>12. LivesAgree(Known) /\ EndedEmpty(Known, cache) /\ QuietEmpty(cache) BY <1>1 DEF JobInv
<1>13. CASE ~Accepts(o) /\ cache' = cache /\ doc' = doc
  <2>1. \A i \in DOMAIN config : ~Of(o, i, config[i]) BY <1>13 DEF Accepts, Of
  <2>2. TookIn(o, cache, cache', config)
    <3> HIDE DEF o
    <3> QED BY <1>13, <2>1 DEF TookIn
  <2>3. CacheInv' BY <1>1, <1>3, <1>13 DEF CacheInv
  <2>4. DocumentCurrent' BY <1>1, <1>3, <1>13 DEF DocumentCurrent
  <2>5. /\ \A i \in DOMAIN cache' : cache'[i].summary # None => cache'[i].summary \in Known
        /\ EndedEmpty(Known, cache') /\ QuietEmpty(cache')
    BY <1>11, <1>12, <1>13
  <2> QED BY <1>2, <1>3, <2>2, <2>3, <2>4, <2>5, TakeKeeps
<1>14. CASE /\ Accepts(o) /\ cache' = Applied(cache, o)
            /\ doc' = IF Visibly(cache, o) THEN Document(cache', config, intents) ELSE doc
  <2>1. o.id \in DOMAIN config /\ config[o.id] = o.target BY <1>14 DEF Accepts
  <2>2. Quiet(o) /\ o.id \in DOMAIN cache =>
           Stamp(cache[o.id]) = Stamp(o.summary) \/ cache[o.id].records = <<>>
    <3> SUFFICES ASSUME Quiet(o), o.id \in DOMAIN cache
                 PROVE  Stamp(cache[o.id]) = Stamp(o.summary) \/ cache[o.id].records = <<>>
      OBVIOUS
    <3>1. QuietStands(o, 1, channel, cache, config) BY <1>1, <1>5 DEF QuietInv
    <3>2. HistoriesOf(channel, 1 - 1, o.id, o.target) = {}
      <4>1. HistoriesOf(channel, 0, o.id, o.target) = {} BY DEF HistoriesOf
      <4> QED BY <1>5, <4>1
    <3>3. ~Latest(channel, HistoriesOf(channel, 1 - 1, o.id, o.target), Stamp(o.summary))
      BY <3>2 DEF Latest
    <3>4. Configured(config, o.id, o.target) BY <2>1 DEF Configured
    <3> QED BY <3>1, <3>2, <3>3, <3>4 DEF QuietStands
  <2> HIDE DEF o
  <2>3. TookIn(o, cache, cache', config)
    BY <1>7, <1>8, <1>9, <1>10, <1>14, <2>1, TookApplied
  <2>4. /\ \A i \in DOMAIN cache' : cache'[i].summary # None => cache'[i].summary \in Known
        /\ EndedEmpty(Known, cache') /\ QuietEmpty(cache')
    BY <1>7, <1>8, <1>9, <1>10, <1>11, <1>12, <1>14, <2>1, <2>2, AppliedJobs
  <2>5. /\ ShrunkCache(Written(cache, o), cache') /\ Total(cache') <= TotalCap
        /\ \A i \in DOMAIN cache' : SystemOf(cache'[i], config[i], remote[config[i]])
    BY <1>7, <1>8, <1>9, <1>10, <1>14, <2>1, AppliedCache
  <2>6. CacheInv'
    <3>1. DOMAIN Written(cache, o) = DOMAIN cache \cup {o.id} BY DEF Written
    <3>2. DOMAIN cache' = DOMAIN cache \cup {o.id} /\ CacheOf(cache')
      BY <2>5, <3>1 DEF ShrunkCache
    <3>3. DOMAIN cache' \subseteq DOMAIN config BY <1>8, <2>1, <3>2
    <3> QED BY <1>3, <2>5, <3>2, <3>3 DEF CacheInv, CacheOf
  <2>7. DocumentCurrent'
    <3> SUFFICES ASSUME ~moved PROVE doc' = Document(cache', config, intents)
      BY <1>3 DEF DocumentCurrent
    <3>1. CASE Visibly(cache, o) BY <1>14, <3>1
    <3>2. CASE ~Visibly(cache, o)
      <4>1. doc' = doc /\ doc = Document(cache, config, intents)
        BY <1>1, <1>14, <3>2 DEF DocumentCurrent
      <4>2. Document(Applied(cache, o), config, intents) = Document(cache, config, intents)
        BY <1>7, <1>8, <1>9, <1>10, <1>12, <2>1, <3>2, UnseenDocument
      <4> QED BY <1>14, <4>1, <4>2
    <3> QED BY <3>1, <3>2
  <2> QED BY <1>2, <1>3, <2>3, <2>4, <2>6, <2>7, TakeKeeps DEF o
<1> QED BY <1>6, <1>13, <1>14

-----------------------------------------------------------------------------
(* A reload.                                                                 *)

LEMMA ReloadKeeps == ObservationInv /\ ReloadConfig => ObservationInv'
<1> SUFFICES ASSUME ObservationInv, ReloadConfig PROVE ObservationInv' OBVIOUS
<1>1. /\ RemoteInv /\ BooksInv /\ WorkerInv /\ ListInv /\ FetchInv /\ HeldInv /\ ChannelInv
      /\ CacheInv /\ OrderInv /\ GateInv /\ QuietInv /\ JobInv
  BY DEF ObservationInv
<1>2. PICK new \in Configs : /\ config' = new /\ cache' = Kept(cache, config, new)
                             /\ doc' = Document(cache', new, intents)
  BY DEF ReloadConfig
<1>3. /\ remote' = remote /\ worker' = worker /\ channel' = channel /\ intents' = intents
      /\ moved' = moved /\ events' = events /\ permit' = TRUE /\ unread' = TRUE
      /\ overtaken' = (overtaken \/ unread)
  BY DEF ReloadConfig
<1>4. DOMAIN cache \subseteq DOMAIN config BY <1>1 DEF CacheInv
<1>5. /\ DOMAIN cache' = {k \in DOMAIN cache \cap DOMAIN new : config[k] = new[k]}
      /\ \A i \in DOMAIN cache' : cache'[i] = cache[i]
      /\ cache' = [i \in DOMAIN cache' |-> cache'[i]]
  BY <1>2, <1>4 DEF Kept
<1>6. RemoteInv' BY <1>1, <1>3 DEF RemoteInv
<1>7. BooksInv'
  <2>1. overtaken' \in BOOLEAN BY <1>3
  <2>2. permit' \in BOOLEAN /\ unread' \in BOOLEAN /\ moved' \in BOOLEAN BY <1>1, <1>3 DEF BooksInv
  <2>3. config' \in Configs /\ events' \in 0 .. MaxEvents BY <1>1, <1>2, <1>3 DEF BooksInv
  <2> QED BY <2>1, <2>2, <2>3, Zenon DEF BooksInv
<1>8. WorkerInv' BY <1>1, <1>3 DEF WorkerInv, InFlight
<1>9. ListInv' BY <1>3 DEF ListInv
<1>10. FetchInv' /\ HeldInv' /\ ChannelInv' BY <1>1, <1>3 DEF FetchInv, HeldInv, ChannelInv
<1>11. CacheOf(cache) /\ CacheOf(cache')
  <2>1. DOMAIN config \subseteq Ids BY <1>1, ConfigParts DEF BooksInv
  <2>2. CacheOf(cache) BY <1>1, <2>1 DEF CacheInv, CacheOf
  <2>3. \A i \in DOMAIN cache' : cache'[i] \in Systems BY <1>5, <2>2 DEF CacheOf
  <2>4. cache' \in [DOMAIN cache' -> Systems] BY <1>5, <2>3
  <2>5. DOMAIN cache' \subseteq Ids BY <1>4, <1>5, <2>1
  <2> QED BY <2>2, <2>4, <2>5 DEF CacheOf
<1>12. CacheInv'
  <2>1. DOMAIN cache' \subseteq DOMAIN new BY <1>5
  <2>2. \A i \in DOMAIN cache' : SystemOf(cache'[i], new[i], remote[new[i]])
    BY <1>1, <1>5 DEF CacheInv
  <2>3. Total(cache') <= TotalCap
    <3>1. \A i \in DOMAIN cache' : \A n \in DOMAIN cache'[i].records :
             i \in DOMAIN cache /\ n \in DOMAIN cache[i].records
      BY <1>5
    <3>2. Total(cache') <= Total(cache) BY <1>11, <3>1, RetainedSubset
    <3>3. Total(cache') \in Nat /\ Total(cache) \in Nat BY <1>11, RetainedFinite
    <3>4. Total(cache) <= TotalCap BY <1>1 DEF CacheInv
    <3> QED BY <3>2, <3>3, <3>4, PerJobNat
  <2> QED BY <1>2, <1>3, <1>11, <2>1, <2>2, <2>3 DEF CacheInv, CacheOf
<1>13. \A x : AfterCache(x, cache, config) => AfterCache(x, cache', new)
  BY <1>5 DEF AfterCache
<1>14. OrderInv' BY <1>1, <1>2, <1>3, <1>13 DEF OrderInv
<1>15. GateInv'
  <2> SUFFICES ASSUME NEW key \in DOMAIN worker.gate
               PROVE  GateStands(worker.gate[key], key[1], key[2], channel, cache', new, overtaken')
    BY <1>2, <1>3 DEF GateInv
  <2> DEFINE i == key[1]
             t == key[2]
             g == worker.gate[key]
             S == HistoriesOf(channel, Len(channel), i, t)
  <2>1. GateStands(g, i, t, channel, cache, config, overtaken) BY <1>1 DEF GateInv
  <2>2. ~unread => Configured(config, i, t)
    <3> SUFFICES ASSUME ~unread PROVE Configured(config, i, t) OBVIOUS
    <3>1. key \in Keys(config) BY <1>1 DEF ListInv
    <3> QED BY <3>1 DEF Keys, Configured
  <2> HIDE DEF i, t, g
  <2>3. \/ Latest(channel, S, g)
        \/ /\ S = {}
           /\ Configured(config, i, t) =>
                 \/ i \in DOMAIN cache /\ Stamp(cache[i]) = g
                 \/ overtaken /\ (i \in DOMAIN cache => cache[i].records = <<>>)
    BY <2>1 DEF GateStands
  <2> HIDE DEF S
  <2>4. \/ Latest(channel, S, g)
        \/ /\ S = {}
           /\ Configured(new, i, t) =>
                 \/ i \in DOMAIN cache' /\ Stamp(cache'[i]) = g
                 \/ overtaken' /\ (i \in DOMAIN cache' => cache'[i].records = <<>>)
    <3> SUFFICES ASSUME Configured(new, i, t),
                        Configured(config, i, t) =>
                           \/ i \in DOMAIN cache /\ Stamp(cache[i]) = g
                           \/ overtaken /\ (i \in DOMAIN cache => cache[i].records = <<>>)
                 PROVE  \/ i \in DOMAIN cache' /\ Stamp(cache'[i]) = g
                        \/ overtaken' /\ (i \in DOMAIN cache' => cache'[i].records = <<>>)
      BY <2>3
    <3>1. CASE i \in DOMAIN cache'
      <4>1. i \in DOMAIN cache /\ Configured(config, i, t) /\ cache'[i] = cache[i]
        BY <1>4, <1>5, <3>1 DEF Configured
      <4> QED BY <1>3, <3>1, <4>1
    <3>2. CASE i \notin DOMAIN cache'
      <4>1. Configured(config, i, t) => i \notin DOMAIN cache BY <1>5, <3>2 DEF Configured
      <4>2. overtaken \/ unread BY <2>2, <4>1
      <4> QED BY <1>3, <3>2, <4>2
    <3> QED BY <3>1, <3>2
  <2> QED BY <2>4 DEF GateStands, S, i, t, g
<1>16. QuietInv'
  <2> SUFFICES ASSUME NEW n \in DOMAIN channel, Quiet(channel[n])
               PROVE  QuietStands(channel[n], n, channel, cache', new)
    BY <1>2, <1>3 DEF QuietInv
  <2> DEFINE q == channel[n]
  <2>1. QuietStands(q, n, channel, cache, config) BY <1>1 DEF QuietInv
  <2>2. Configured(new, q.id, q.target) /\ q.id \in DOMAIN cache' =>
           /\ Configured(config, q.id, q.target) /\ q.id \in DOMAIN cache
           /\ cache'[q.id] = cache[q.id]
    BY <1>4, <1>5 DEF Configured
  <2> HIDE DEF q
  <2>3. QuietStands(q, n, channel, cache', new) BY <2>1, <2>2 DEF QuietStands
  <2> QED BY <2>3 DEF q
<1>17. JobInv'
  <2>1. Known' \subseteq Known BY <1>3, <1>5 DEF Known
  <2>2. LivesAgree(Known') BY <1>1, <2>1 DEF JobInv, LivesAgree
  <2>3. EndedEmpty(Known', cache') BY <1>1, <1>5, <2>1 DEF JobInv, EndedEmpty
  <2>4. QuietEmpty(cache') BY <1>1, <1>5 DEF JobInv, QuietEmpty
  <2> QED BY <2>2, <2>3, <2>4 DEF JobInv
<1>18. DocumentCurrent' BY <1>2, <1>3 DEF DocumentCurrent
<1> QED BY <1>6, <1>7, <1>8, <1>9, <1>10, <1>12, <1>14, <1>15, <1>16, <1>17, <1>18
        DEF ObservationInv

-----------------------------------------------------------------------------
(* The invariant, and what it says of the system.                             *)

LEMMA ServedRecords ==
    ASSUME NEW t \in Targets, NEW n \in 0 .. Ring
    PROVE  RecordsOf([k \in 1 .. n |-> [epoch |-> <<t, 1>>, seq |-> k]], t)
<1> DEFINE rec(k) == [epoch |-> <<t, 1>>, seq |-> k]
           s == [k \in 1 .. n |-> rec(k)]
<1>1. Ring \in Nat /\ MaxEvents \in Nat BY ConstantsAssumption DEF ConstantsAssumption
<1>2. \A k \in 1 .. n : rec(k) \in Records
  <2> TAKE k \in 1 .. n
  <2>1. <<t, 1>> \in Epochs BY <1>1 DEF Epochs
  <2>2. k \in 1 .. Ring + MaxEvents BY <1>1
  <2> QED BY <2>1, <2>2 DEF Records
<1>3. \A k \in 1 .. n : rec(k).epoch[1] = t OBVIOUS
<1>4. n \in Nat BY <1>1
<1> HIDE DEF rec
<1>5. s \in Seq(Records) BY <1>2, <1>4
<1>6. DOMAIN s = 1 .. n /\ \A k \in 1 .. n : s[k] = rec(k) OBVIOUS
<1> HIDE DEF s
<1>7. RecordsOf(s, t) BY <1>3, <1>5, <1>6 DEF RecordsOf
<1> QED BY <1>7 DEF s, rec

LEMMA InitObservation == Init => ObservationInv
<1> SUFFICES ASSUME Init PROVE ObservationInv OBVIOUS
<1>1. /\ config \in Configs /\ permit = FALSE /\ worker = Idle("read", <<>>)
      /\ channel = <<>> /\ cache = <<>> /\ moved = FALSE
      /\ doc = Document(cache, config, intents)
      /\ events = 0 /\ unread = FALSE /\ overtaken = FALSE
  BY DEF Init
<1>2. /\ Ring \in Nat /\ MaxEvents \in Nat /\ MaxInFlight \in Nat /\ ChannelCapacity \in Nat
      /\ TotalCap \in Nat /\ Past \in [Targets -> 0 .. Ring]
  BY ConstantsAssumption DEF ConstantsAssumption
<1>3. /\ DOMAIN worker = {"pc", "list", "gate", "held", "fetches"}
      /\ worker.pc = "read" /\ worker.gate = <<>> /\ worker.list = <<>> /\ worker.held = None
      /\ worker.fetches = <<>>
  BY <1>1 DEF Idle
<1>4. DOMAIN <<>> = {} BY EmptyDomain
<1>5. RemoteInv
  <2>1. remote = [t \in Targets |-> FirstRemote(t)] BY DEF Init
  <2>2. ASSUME NEW t \in Targets PROVE RemoteOf(FirstRemote(t), t, 0)
    <3>1. Past[t] \in 0 .. Ring BY <1>2
    <3>2. RecordsOf(PastRuns(t), t) BY <3>1, ServedRecords DEF PastRuns
    <3> DEFINE r == FirstRemote(t)
               b == NewRemote(t, 1, TRUE, TRUE)
               e == <<t, 1>>
    <3> HIDE DEF e
    <3>a. /\ b = [up |-> TRUE, supported |-> TRUE, job |-> TRUE, epoch |-> e,
                  revision |-> 0, waiting |-> FALSE, records |-> <<>>]
      BY DEF NewRemote, e
    <3> HIDE DEF b
    <3>b. r = [b EXCEPT !.revision = Past[t], !.records = PastRuns(t)] BY DEF FirstRemote, b
    <3> HIDE DEF r
    <3>3. /\ r.epoch = <<t, 1>> /\ r.records = PastRuns(t) /\ r.up = TRUE /\ r.supported = TRUE
          /\ r.job = TRUE /\ r.revision = Past[t] /\ r.waiting = FALSE
          /\ r = [up |-> r.up, supported |-> r.supported, job |-> r.job, epoch |-> r.epoch,
                  revision |-> r.revision, waiting |-> r.waiting, records |-> r.records]
      <4> DEFINE p == Past[t]
                 q == PastRuns(t)
                 T == TRUE
                 F == FALSE
      <4>1. r = [b EXCEPT !.revision = p, !.records = q] BY <3>b
      <4>2. b = [up |-> T, supported |-> T, job |-> T, epoch |-> e,
                 revision |-> 0, waiting |-> F, records |-> <<>>] BY <3>a
      <4> HIDE DEF p, q, T, F
      <4>3. r = [up |-> T, supported |-> T, job |-> T, epoch |-> e,
                 revision |-> p, waiting |-> F, records |-> q] BY <4>1, <4>2
      <4>4. /\ r.epoch = e /\ r.records = q /\ r.up = T /\ r.supported = T
            /\ r.job = T /\ r.revision = p /\ r.waiting = F
            /\ r = [up |-> r.up, supported |-> r.supported, job |-> r.job, epoch |-> r.epoch,
                    revision |-> r.revision, waiting |-> r.waiting, records |-> r.records]
        BY <4>3
      <4> QED BY <4>4 DEF p, q, T, F, e
    <3>4. <<t, 1>> \in Epochs BY <1>2 DEF Epochs
    <3>5. r \in RemoteStates
      <4> DEFINE B == BOOLEAN
                 S1 == Seq(Records)
      <4>1. r.up \in B /\ r.supported \in B /\ r.job \in B /\ r.waiting \in B BY <3>3, Zenon
      <4>2. r.revision \in Nat BY <1>2, <3>1, <3>3
      <4>3. r.records \in S1 BY <3>2, <3>3 DEF RecordsOf
      <4>4. r.epoch \in Epochs BY <3>3, <3>4
      <4>5. r = [up |-> r.up, supported |-> r.supported, job |-> r.job, epoch |-> r.epoch,
                 revision |-> r.revision, waiting |-> r.waiting, records |-> r.records]
        BY <3>3
      <4> HIDE DEF B, S1
      <4>6. r \in [up : B, supported : B, job : B, epoch : Epochs,
                   revision : Nat, waiting : B, records : S1]
        BY <4>1, <4>2, <4>3, <4>4, <4>5
      <4> QED BY <4>6 DEF RemoteStates, B, S1
    <3>6. RemoteOf(r, t, 0) BY <3>2, <3>3, <3>5 DEF RemoteOf
    <3> QED BY <3>6 DEF r
  <2> QED BY <1>1, <2>1, <2>2 DEF RemoteInv
<1>6. BooksInv
  <2>1. events \in 0 .. MaxEvents BY <1>1, <1>2
  <2> QED BY <1>1, <2>1, Zenon DEF BooksInv
<1>7. WorkerInv
  <2>1. InFlight = {} BY <1>3, <1>4 DEF InFlight
  <2>2. IsFiniteSet({}) /\ Cardinality({}) = 0 BY FS_EmptySet
  <2> QED BY <1>2, <1>3, <1>4, <2>1, <2>2 DEF WorkerInv
<1>8. ListInv BY <1>1, <1>3, <1>4 DEF ListInv
<1>9. FetchInv BY <1>3, <1>4 DEF FetchInv
<1>10. HeldInv BY <1>3 DEF HeldInv
<1>11. ChannelInv
  <2>1. <<>> \in Seq(Range(<<>>)) /\ Len(<<>>) = 0 BY EmptySeq
  <2> QED BY <1>1, <1>2, <1>4, <2>1 DEF ChannelInv
<1>12. CacheInv
  <2>1. cache \in [DOMAIN cache -> Systems]
    <3>1. <<>> \in Seq(Systems) BY EmptySeq
    <3>2. <<>> \in [DOMAIN <<>> -> Systems] BY <3>1, LenProperties
    <3> QED BY <1>1, <3>2
  <2>2. Total(cache) = 0
    <3>1. Retained(<<>>) = {} BY <1>4, InRetained
    <3> QED BY <1>1, <3>1, FS_EmptySet DEF Total
  <2> QED BY <1>1, <1>2, <1>4, <2>1, <2>2 DEF CacheInv
<1>13. InHand(worker) = {} BY <1>3, <1>4 DEF InHand
<1>14. OrderInv BY <1>1, <1>4, <1>13 DEF OrderInv
<1>15. GateInv BY <1>3, <1>4 DEF GateInv
<1>16. QuietInv BY <1>1, <1>4 DEF QuietInv
<1>17. JobInv
  <2>1. Known = {Summary(remote[t]) : t \in Targets} BY <1>1, <1>4, <1>13 DEF Known
  <2>2. LivesAgree(Known)
    <3> SUFFICES ASSUME NEW t \in Targets, NEW u \in Targets,
                        Summary(remote[t]).epoch = Summary(remote[u]).epoch
                 PROVE  Summary(remote[t]).job = Summary(remote[u]).job
      BY <2>1 DEF LivesAgree
    <3>1. RemoteOf(remote[t], t, events) /\ RemoteOf(remote[u], u, events) BY <1>5 DEF RemoteInv
    <3>2. t = u BY <3>1, RemoteSummary, RemoteParts
    <3> QED BY <3>2
  <2>3. EndedEmpty(Known, cache) /\ QuietEmpty(cache) BY <1>1, <1>4 DEF EndedEmpty, QuietEmpty
  <2> QED BY <2>2, <2>3 DEF JobInv
<1>18. DocumentCurrent BY <1>1 DEF DocumentCurrent
<1> QED BY <1>5, <1>6, <1>7, <1>8, <1>9, <1>10, <1>11, <1>12, <1>14, <1>15, <1>16, <1>17, <1>18
        DEF ObservationInv

LEMMA ObservationStep == ObservationInv /\ [Next]_vars => ObservationInv'
<1> SUFFICES ASSUME ObservationInv, [Next]_vars PROVE ObservationInv' OBVIOUS
<1>1. CASE RemoteEvent BY <1>1, RemoteEventKeeps
<1>2. CASE ReadList BY <1>2, ReadListKeeps
<1>3. CASE Fetch BY <1>3, FetchSummaryKeeps, FetchHistoryKeeps DEF Fetch
<1>4. CASE SettleAny BY <1>4, SettleKeeps DEF SettleAny
<1>5. CASE DeliverObservation BY <1>5, DeliverKeeps
<1>6. CASE Preempted \/ RoundCompleted \/ Wake BY <1>6, RoundEndsKeeps
<1>7. CASE TakeObservation BY <1>7, TakeObservationKeeps
<1>8. CASE ReloadConfig BY <1>8, ReloadKeeps
<1>9. CASE NoteRevision \/ Frontends BY <1>9, FrontendKeeps
<1>10. CASE UNCHANGED vars
  <2>1. /\ remote' = remote /\ config' = config /\ permit' = permit /\ worker' = worker
        /\ channel' = channel /\ cache' = cache /\ intents' = intents /\ moved' = moved
        /\ doc' = doc /\ events' = events /\ unread' = unread /\ overtaken' = overtaken
    BY <1>10 DEF vars
  <2>2. /\ RemoteInv /\ BooksInv /\ WorkerInv /\ ListInv /\ FetchInv /\ HeldInv /\ ChannelInv
        /\ CacheInv /\ OrderInv /\ GateInv /\ QuietInv /\ JobInv /\ DocumentCurrent
    BY DEF ObservationInv
  <2>3. RemoteInv' /\ BooksInv' BY <2>1, <2>2 DEF RemoteInv, BooksInv
  <2>4. WorkerInv' /\ ListInv' BY <2>1, <2>2 DEF WorkerInv, ListInv, InFlight
  <2>5. FetchInv' /\ HeldInv' BY <2>1, <2>2 DEF FetchInv, HeldInv
  <2>6. ChannelInv' /\ CacheInv' BY <2>1, <2>2 DEF ChannelInv, CacheInv
  <2>7. OrderInv' BY <2>1, <2>2 DEF OrderInv
  <2>8. GateInv' /\ QuietInv' BY <2>1, <2>2 DEF GateInv, QuietInv
  <2>9. JobInv' BY <2>1, <2>2 DEF JobInv, Known
  <2>10. DocumentCurrent' BY <2>1, <2>2 DEF DocumentCurrent
  <2> QED BY <2>3, <2>4, <2>5, <2>6, <2>7, <2>8, <2>9, <2>10 DEF ObservationInv
<1> QED BY <1>1, <1>2, <1>3, <1>4, <1>5, <1>6, <1>7, <1>8, <1>9, <1>10 DEF Next

(* An injective sequence holds as many records as it is long.                  *)
LEMMA InjectiveUnique ==
    ASSUME NEW s \in Seq(Records), IsInjective(s)
    PROVE  Cardinality(ToSet(s)) = Len(s)
<1>1. Len(s) \in Nat /\ DOMAIN s = 1 .. Len(s) /\ s \in [1 .. Len(s) -> Records]
  BY LenProperties
<1>2. ToSet(s) = {s[n] : n \in 1 .. Len(s)} BY <1>1 DEF ToSet
<1>3. s \in Bijection(1 .. Len(s), ToSet(s))
  <2> DEFINE D == 1 .. Len(s)
  <2>1. DOMAIN s = D /\ s = [n \in D |-> s[n]] /\ ToSet(s) = {s[n] : n \in D} BY <1>1, <1>2
  <2> HIDE DEF D
  <2>2. s \in [D -> ToSet(s)] BY <2>1
  <2>3. \A a, b \in D : s[a] = s[b] => a = b BY <2>1 DEF IsInjective
  <2>4. \A x \in ToSet(s) : \E a \in D : s[a] = x BY <2>1
  <2>5. s \in Bijection(D, ToSet(s))
    BY <2>2, <2>3, <2>4 DEF Bijection, Injection, Surjection
  <2> QED BY <2>5 DEF D
<1>4. IsFiniteSet(1 .. Len(s)) /\ Cardinality(1 .. Len(s)) = Len(s)
  <2>1. Len(s) \in Int /\ 1 \in Int BY <1>1
  <2>2. IsFiniteSet(1 .. Len(s))
        /\ Cardinality(1 .. Len(s)) = IF 1 > Len(s) THEN 0 ELSE Len(s) - 1 + 1
    BY <2>1, FS_Interval
  <2> QED BY <1>1, <2>2
<1>5. ExistsBijection(1 .. Len(s), ToSet(s)) BY <1>3, Zenon DEF ExistsBijection
<1>6. Cardinality(ToSet(s)) = Cardinality(1 .. Len(s)) BY <1>4, <1>5, FS_Bijection, Zenon
<1> QED BY <1>4, <1>6

LEMMA ObservationInvSound == ObservationInv => ObservationSound
<1> SUFFICES ASSUME ObservationInv PROVE ObservationSound OBVIOUS
<1>1. BooksInv /\ WorkerInv /\ ChannelInv /\ CacheInv /\ GateInv /\ DocumentCurrent
  BY DEF ObservationInv
<1>2. \A i \in DOMAIN cache : SystemOf(cache[i], config[i], remote[config[i]])
  BY <1>1 DEF CacheInv
<1>3. TypeOK
  <2>1. config \in Configs /\ permit \in BOOLEAN /\ moved \in BOOLEAN
    BY <1>1, Zenon DEF BooksInv
  <2>2. worker.pc \in {"read", "round", "wait"} /\ Cardinality(InFlight) <= MaxInFlight
    BY <1>1 DEF WorkerInv
  <2>3. Len(channel) <= ChannelCapacity BY <1>1 DEF ChannelInv
  <2>4. DOMAIN cache \subseteq DOMAIN config /\ Total(cache) <= TotalCap BY <1>1 DEF CacheInv
  <2>5. \A i \in DOMAIN cache : cache[i] \in Systems /\ Len(cache[i].records) <= PerJob
    BY <1>2 DEF SystemOf
  <2> QED BY <2>1, <2>2, <2>3, <2>4, <2>5 DEF TypeOK
<1>4. NoForeignState
  <2> SUFFICES ASSUME NEW i \in DOMAIN cache
               PROVE  /\ cache[i].summary # None => cache[i].summary.epoch[1] = config[i]
                      /\ \A r \in ToSet(cache[i].records) : r.epoch[1] = config[i]
    BY DEF NoForeignState
  <2>1. SystemOf(cache[i], config[i], remote[config[i]]) BY <1>2
  <2>2. cache[i].summary # None => cache[i].summary.epoch[1] = config[i]
    BY <2>1 DEF SystemOf, SummaryOf
  <2>3. \A r \in ToSet(cache[i].records) : r.epoch[1] = config[i]
    BY <2>1 DEF SystemOf, RecordsOf, ToSet
  <2> QED BY <2>2, <2>3
<1>5. RecordsUnique
  <2> SUFFICES ASSUME NEW i \in DOMAIN cache
               PROVE  Cardinality(ToSet(cache[i].records)) = Len(cache[i].records)
    BY DEF RecordsUnique
  <2>1. cache[i].records \in Seq(Records) /\ IsInjective(cache[i].records)
    BY <1>2 DEF SystemOf, RecordsOf
  <2> QED BY <2>1, InjectiveUnique
<1>6. HistoryOfSummary
  <2> SUFFICES ASSUME NEW i \in DOMAIN cache, cache[i].summary # None,
                      cache[i].epoch = cache[i].summary.epoch
               PROVE  cache[i].revision <= cache[i].summary.revision
    BY DEF HistoryOfSummary
  <2>1. SystemOf(cache[i], config[i], remote[config[i]]) BY <1>2
  <2>2. cache[i].summary.epoch \in Epochs BY <2>1 DEF SystemOf, SummaryOf, Summaries
  <2>3. cache[i].epoch # None BY <2>2, NoneAssumption DEF NoneAssumption
  <2> QED BY <2>1, <2>3 DEF SystemOf, Before
<1>7. GateMeansDelivered
  <2> SUFFICES ASSUME NEW key \in DOMAIN worker.gate, ~overtaken,
                      key[1] \in DOMAIN config, config[key[1]] = key[2]
               PROVE  \/ key[1] \in DOMAIN cache
                         /\ <<cache[key[1]].epoch, cache[key[1]].revision>> = worker.gate[key]
                      \/ \E o \in ToSet(channel) :
                            o.id = key[1] /\ o.history # None
                            /\ <<o.history.epoch, o.history.revision>> = worker.gate[key]
    BY DEF GateMeansDelivered
  <2> DEFINE i == key[1]
             t == key[2]
             g == worker.gate[key]
             S == HistoriesOf(channel, Len(channel), i, t)
  <2>1. GateStands(g, i, t, channel, cache, config, overtaken) BY <1>1 DEF GateInv
  <2>2. Configured(config, i, t) BY DEF Configured
  <2>3. CASE Latest(channel, S, g)
    <3>1. PICK n \in S : Stamp(channel[n].history) = g BY <2>3 DEF Latest
    <3>2. n \in 1 .. Len(channel) /\ Of(channel[n], i, t) /\ HasHistory(channel[n])
      BY <3>1 DEF HistoriesOf
    <3>3. n \in DOMAIN channel BY <1>1, <3>2, LenProperties DEF ChannelInv
    <3>4. channel[n] \in ToSet(channel) BY <3>3 DEF ToSet
    <3> QED BY <3>1, <3>2, <3>4 DEF Stamp, Of, HasHistory
  <2>4. CASE i \in DOMAIN cache /\ Stamp(cache[i]) = g BY <2>4 DEF Stamp
  <2> HIDE DEF i, t, g, S
  <2> QED BY <2>1, <2>2, <2>3, <2>4 DEF GateStands, S
<1> QED BY <1>1, <1>3, <1>4, <1>5, <1>6, <1>7 DEF ObservationSound

(* Whatever the remotes, the frontends, the reloads and the worker do, and in   *)
(* whatever order, the cache and the document can be relied on                *)
(* (apply_observation, settle, the history gate).                             *)
THEOREM ObservationIsSound == Spec => []ObservationSound
<1>1. Spec => []ObservationInv
  <2> QED BY InitObservation, ObservationStep, PTL DEF Spec
<1> QED BY <1>1, ObservationInvSound, PTL

=============================================================================

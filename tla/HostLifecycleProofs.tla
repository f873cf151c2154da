------------------------ MODULE HostLifecycleProofs ------------------------
(***************************************************************************)
(* The daemons and the commands of one host report honestly and respect     *)
(* what they find, for any number of processes, terminals and faults.        *)
(*                                                                         *)
(* The argument has two halves.  HostInv is about processes: a process that   *)
(* never shared the host is still the one its control path names.           *)
(* Knows(k) is about a command k: what it has learnt of the processes that    *)
(* were listening when it began to ask.  Processes evolve in one direction   *)
(* (Evolves), and whatever a command knows survives that.                   *)
(***************************************************************************)
EXTENDS HostLifecycle, TLAPS

Early == {"unborn", "inspect", "unlink", "bind"}
Past(r) == r.pc \notin Early
Lives(r) == r.pc \notin {"unborn", "gone"}
Listens(r) == r.pc \in {"port", "running"} /\ r.ear /\ ~r.told

-----------------------------------------------------------------------------
(* Processes.                                                               *)

HostTyped ==
    /\ ctl \in [Paths -> 0..MaxInstances] /\ port \in 0..MaxInstances
    /\ born \in 0..MaxInstances /\ unit \in 0..MaxInstances
    /\ reg \in Registrations \cup {"none"}
    /\ crowded \subseteq Procs
    /\ inst \in [Procs -> ProcStates]

(* The endpoint is held by the process whose server runs.                     *)
PortHeld == \A i \in Procs :
    /\ inst[i].server <=> port = i
    /\ inst[i].server => inst[i].pc \in {"running", "joining", "guard", "exit"}

BornInOrder == \A i \in Procs : i > born => inst[i].pc = "unborn"

(* Two processes that live at once are both recorded as crowded.               *)
CrowdKnown == \A i, j \in Procs :
    Lives(inst[i]) /\ Lives(inst[j]) /\ i # j => i \in crowded

(* Nobody unlinks the socket of a process that is alone.                       *)
PathKept == \A i \in Procs :
    inst[i].pc \in {"port", "running"} /\ i \notin crowded => ctl[inst[i].at] = i

HostInv ==
    /\ HostTyped /\ PortHeld /\ BornInOrder /\ CrowdKnown /\ PathKept
    /\ FailureIsReported

-----------------------------------------------------------------------------
(* Commands.  k is a command, w the processes, n how many were born, crowd     *)
(* the crowded ones, u and g the manager's unit and registration.             *)

(* Whom it set out to find has bound its control socket before.               *)
Named(k, w) == \A i \in k.up : Past(w[i])

Asking == {"dial", "await"}

(* A verdict is given once, and no search follows it.                          *)
Spoken(k) ==
    k.said # "none" =>
        k.pc \in {"absent", "again", "spawn", "ready", "delete", "done"}

(* After a first path that named no listener, a daemon that is alone and still *)
(* listens is on the other one.                                              *)
Searched(k, w, crowd) ==
    k.pc \in Asking =>
        /\ k.cand = 1 => k.sev = 0
        /\ k.cand = 2 => k.sev > 0
        /\ k.cand = 2 /\ k.sev = 1 =>
              \A i \in k.up : Listens(w[i]) /\ i \notin crowd => w[i].at = 2

Honest(k, w, crowd) ==
    k.said = "absent" => \A i \in k.up : Listens(w[i]) => i \in crowd

(* An update that found nothing running goes on only when something was born  *)
(* after that.                                                              *)
Driven == {"route", "bounce", "bounced", "dial", "await", "absent", "again", "spawn"}
Fresh == {"idle", "check", "observe", "replace", "discover"}
Based(k, w, n) ==
    /\ k.pc \in Fresh => k.base = -1
    /\ k.base >= 0 =>
          /\ k.base <= n
          /\ k.pc = "reobserve" /\ k.base = n => \A i \in Procs : ~Lives(w[i])
          /\ k.pc \in Driven => k.base < n
          /\ k.child # 0 => k.child > k.base + 1

(* The direct route is not taken to a foreign manager's unit.                  *)
Apart(k, u, g) ==
    k.op \in {"restart", "update"} /\ k.pc \in Asking /\ g = "foreignSame" =>
        u \notin k.up

(* Which command is where.                                                    *)
Placed(k) ==
    /\ k.pc \in Asking => k.op \in {"stop", "restart", "update", "uninstall"}
    /\ k.pc = "route" => k.op \in {"restart", "update"}
    /\ k.pc \in {"observe", "replace", "reobserve"} => k.op = "update"
    /\ k.pc = "discover" => k.op = "uninstall"
    /\ k.pc \in {"observe", "replace"} => k.child = 0
    /\ k.pc = "ready" => k.child # 0

Knows(k, w, n, crowd, u, g) ==
    /\ Named(k, w) /\ Spoken(k) /\ Searched(k, w, crowd) /\ Honest(k, w, crowd)
    /\ Based(k, w, n) /\ Apart(k, u, g) /\ Placed(k)

CommandsKnow == \A c \in Clients : Knows(cmd[c], inst, born, crowded, unit, reg)

Inv ==
    /\ HostInv /\ CommandsKnow
    /\ cmd \in [Clients -> CommandStates]
    /\ faults \in 0..MaxFaults /\ disk \in BOOLEAN

-----------------------------------------------------------------------------
(* Records.                                                                 *)

LEMMA ProcFields ==
    ASSUME NEW r \in ProcStates
    PROVE  /\ r.pc \in Phases /\ r.at \in Paths /\ r.queue \subseteq Clients
           /\ r.ear \in BOOLEAN /\ r.told \in BOOLEAN /\ r.server \in BOOLEAN
           /\ r.sampler \in BOOLEAN /\ r.code \in Codes
BY Zenon DEF ProcStates

LEMMA CommandFields ==
    ASSUME NEW k \in CommandStates
    PROVE  /\ k.op \in Ops \cup {"none"} /\ k.pc \in Points /\ k.cand \in Paths
           /\ k.sev \in 0..3 /\ k.on \in 0..MaxInstances /\ k.child \in 0..MaxInstances
           /\ k.life \in Lifecycles \cup {"none"} /\ k.direct \in BOOLEAN
           /\ k.said \in Verdicts \cup {"none"} /\ k.up \subseteq Procs
           /\ k.base \in -1..MaxInstances /\ k.out \in Reports \cup {"none"}
<1>1. /\ k.op \in Ops \cup {"none"} /\ k.pc \in Points /\ k.cand \in Paths
      /\ k.sev \in 0..3 /\ k.on \in 0..MaxInstances /\ k.child \in 0..MaxInstances
      /\ k.life \in Lifecycles \cup {"none"} /\ k.direct \in BOOLEAN
      /\ k.said \in Verdicts \cup {"none"} /\ k.up \in SUBSET Procs
      /\ k.base \in -1..MaxInstances /\ k.out \in Reports \cup {"none"}
  BY Zenon DEF CommandStates
<1> QED BY <1>1

(* The ways in which the steps change a process's record.                      *)
LEMMA ProcUpdates ==
    ASSUME NEW r \in ProcStates, NEW p \in Phases, NEW q \in Codes, NEW a \in Paths,
           NEW Q \in SUBSET Clients, NEW e \in BOOLEAN, NEW t \in BOOLEAN,
           NEW s \in BOOLEAN, NEW m \in BOOLEAN
    PROVE  /\ [r EXCEPT !.pc = p] \in ProcStates
           /\ [r EXCEPT !.pc = p, !.ear = e] \in ProcStates
           /\ [r EXCEPT !.pc = p, !.code = q] \in ProcStates
           /\ [r EXCEPT !.at = a, !.pc = p] \in ProcStates
           /\ [r EXCEPT !.queue = Q] \in ProcStates
           /\ [r EXCEPT !.ear = e, !.queue = Q] \in ProcStates
           /\ [r EXCEPT !.ear = e, !.queue = Q, !.told = t] \in ProcStates
           /\ [r EXCEPT !.told = t] \in ProcStates
           /\ [r EXCEPT !.server = s] \in ProcStates
           /\ [r EXCEPT !.sampler = m] \in ProcStates
           /\ [r EXCEPT !.pc = p, !.server = s, !.sampler = m] \in ProcStates
           /\ [r EXCEPT !.pc = p, !.ear = e, !.server = s, !.sampler = m] \in ProcStates
           /\ [r EXCEPT !.pc = p, !.ear = e, !.queue = Q, !.server = s, !.sampler = m,
                        !.code = q] \in ProcStates
<1> DEFINE B == BOOLEAN
           C == SUBSET Clients
<1>1. e \in B /\ t \in B /\ s \in B /\ m \in B /\ Q \in C OBVIOUS
<1>2. ProcStates = [pc : Phases, at : Paths, ear : B, queue : C, told : B, server : B,
                    sampler : B, code : Codes]
  BY DEF ProcStates
<1> HIDE DEF B, C
<1> QED BY <1>1, <1>2

-----------------------------------------------------------------------------
(* Processes evolve in one direction.                                         *)

(* From w to v, with n and m born and crowd and crowd2 crowded: a process that *)
(* has bound its control socket never binds again and does not begin to        *)
(* listen; the dead stay dead; who shared the host has shared it.             *)
Evolves(w, v, n, m, crowd, crowd2) ==
    /\ \A i \in Procs : Past(w[i]) => Past(v[i])
    /\ \A i \in Procs : Past(w[i]) /\ Listens(v[i]) => Listens(w[i]) /\ v[i].at = w[i].at
    /\ n = m => \A i \in Procs : ~Lives(w[i]) => ~Lives(v[i])
    /\ n <= m
    /\ crowd \subseteq crowd2

(* The manager's unit is dropped, or replaced by a process just born.          *)
UnitMoves(w, u, u2, g, g2) == u2 = 0 \/ (g2 = g /\ (u2 = u \/ ~Past(w[u2])))

(* What a command knows survives every evolution of the processes.             *)
LEMMA KnowledgeStays ==
    ASSUME NEW k \in CommandStates, NEW w, NEW v, NEW n \in Nat, NEW m \in Nat, NEW crowd,
           NEW crowd2, NEW u, NEW u2, NEW g, NEW g2,
           Knows(k, w, n, crowd, u, g),
           Evolves(w, v, n, m, crowd, crowd2), UnitMoves(w, u, u2, g, g2)
    PROVE  Knows(k, v, m, crowd2, u2, g2)
<1>1. k.up \subseteq Procs /\ k.base \in -1..MaxInstances /\ k.child \in 0..MaxInstances
  BY CommandFields
<1>2. Named(k, w) /\ Spoken(k) /\ Placed(k) BY DEF Knows
<1>3. Named(k, v) BY <1>1, <1>2 DEF Named, Evolves
<1>4. ASSUME NEW i \in k.up, Listens(v[i]) PROVE Listens(w[i]) /\ v[i].at = w[i].at
  BY <1>1, <1>2, <1>4 DEF Named, Evolves
<1>5. crowd \subseteq crowd2 BY DEF Evolves
<1>6. Searched(k, v, crowd2) BY <1>4, <1>5 DEF Knows, Searched
<1>7. Honest(k, v, crowd2) BY <1>4, <1>5 DEF Knows, Honest
<1>8. Based(k, v, m)
  <2>1. Based(k, w, n) /\ n <= m BY DEF Knows, Evolves
  <2>2. ASSUME k.base >= 0, k.pc = "reobserve", k.base = m
        PROVE  \A i \in Procs : ~Lives(v[i])
    <3>1. k.base = n BY <1>1, <2>1, <2>2 DEF Based
    <3>2. \A i \in Procs : ~Lives(w[i]) BY <2>1, <2>2, <3>1 DEF Based
    <3> QED BY <2>2, <3>1, <3>2 DEF Evolves
  <2> QED BY <1>1, <2>1, <2>2 DEF Based
<1>9. Apart(k, u2, g2)
  <2>1. CASE u2 = 0 BY <1>1, <2>1 DEF Apart, Procs
  <2>2. CASE g2 = g /\ u2 = u BY <2>2 DEF Knows
  <2>3. CASE ~Past(w[u2]) BY <1>2, <2>3 DEF Apart, Named
  <2> QED BY <2>1, <2>2, <2>3 DEF UnitMoves
<1> QED BY <1>2, <1>3, <1>6, <1>7, <1>8, <1>9 DEF Knows

(* A command that goes on without asking anybody keeps what it knows.          *)
LEMMA KnowledgeMoves ==
    ASSUME NEW k \in CommandStates, NEW k2 \in CommandStates, NEW w, NEW n \in Nat, NEW crowd,
           NEW u, NEW g,
           k2.up = k.up, k2.said = k.said, k2.child = k.child, k2.base = k.base,
           Named(k, w), Honest(k, w, crowd), Based(k, w, n),
           k2.pc \notin Asking, k2.pc # "reobserve",
           k2.pc \in Fresh => k.base = -1,
           k2.pc \in Driven /\ k.base >= 0 => k.base < n,
           Spoken(k2), Placed(k2)
    PROVE  Knows(k2, w, n, crowd, u, g)
<1>1. Named(k2, w) /\ Honest(k2, w, crowd) BY DEF Named, Honest
<1>2. Based(k2, w, n) BY DEF Based
<1>3. Searched(k2, w, crowd) /\ Apart(k2, u, g) BY DEF Searched, Apart
<1> QED BY <1>1, <1>2, <1>3 DEF Knows

-----------------------------------------------------------------------------
(* A step of one process.                                                     *)

LEMMA LivingProcs == \A i \in Procs : i \in Living <=> Lives(inst[i])
BY DEF Living, Alive, Lives

(* What r, the new record of process i, has to satisfy.                        *)
LEMMA ProcStep ==
    ASSUME HostInv, NEW i \in Procs, NEW r \in ProcStates,
           inst' = [inst EXCEPT ![i] = r], UNCHANGED <<born, crowded>>,
           ctl' \in [Paths -> 0..MaxInstances], port' \in 0..MaxInstances,
           unit' \in 0..MaxInstances, reg' \in Registrations \cup {"none"},
           inst[i].pc = "unborn" => r.pc = "unborn",
           Lives(r) => Lives(inst[i]),
           Past(inst[i]) => Past(r),
           Past(inst[i]) /\ Listens(r) => Listens(inst[i]) /\ r.at = inst[i].at,
           r.server => r.pc \in {"running", "joining", "guard", "exit"},
           r.server <=> port' = i,
           \A j \in Procs : j # i => (port' = j <=> port = j),
           r.code = "ok" => r.told,
           ctl' = ctl \/ Lives(inst[i]),
           r.pc \in {"port", "running"} /\ i \notin crowded => ctl'[r.at] = i
    PROVE  HostInv' /\ Evolves(inst, inst', born, born', crowded, crowded')
<1>0. HostTyped /\ PortHeld /\ BornInOrder /\ CrowdKnown /\ PathKept /\ FailureIsReported
  BY DEF HostInv
<1>1. inst \in [Procs -> ProcStates] /\ born \in 0..MaxInstances /\ crowded \subseteq Procs
  BY <1>0 DEF HostTyped
<1>2. inst'[i] = r /\ \A j \in Procs : j # i => inst'[j] = inst[j] BY <1>1
<1>3. HostTyped' BY <1>0, <1>1 DEF HostTyped
<1>4. PortHeld' BY <1>0, <1>2 DEF PortHeld
<1>5. BornInOrder' BY <1>0, <1>2 DEF BornInOrder
<1>6. \A j \in Procs : Lives(inst'[j]) => Lives(inst[j]) BY <1>2
<1>7. CrowdKnown' BY <1>0, <1>6 DEF CrowdKnown, Lives
<1>8. PathKept'
  <2> SUFFICES ASSUME NEW j \in Procs, inst'[j].pc \in {"port", "running"}, j \notin crowded
               PROVE  ctl'[inst'[j].at] = j
    BY DEF PathKept
  <2>1. CASE j = i BY <1>2, <2>1
  <2>2. CASE j # i
    <3>1. inst'[j] = inst[j] /\ Lives(inst[j]) BY <1>2, <2>2 DEF Lives
    <3>2. ~Lives(inst[i]) BY <1>0, <2>2, <3>1 DEF CrowdKnown
    <3> QED BY <1>0, <3>1, <3>2 DEF PathKept
  <2> QED BY <2>1, <2>2
<1>9. FailureIsReported' BY <1>0, <1>2 DEF FailureIsReported
<1>10. Evolves(inst, inst', born, born', crowded, crowded')
  BY <1>1, <1>2, <1>6 DEF Evolves
<1> QED BY <1>3, <1>4, <1>5, <1>7, <1>8, <1>9, <1>10 DEF HostInv

(* A process is born.                                                         *)
LEMMA SpawnStep ==
    ASSUME HostInv, CanSpawn, Spawn(born + 1), UNCHANGED <<ctl, port>>,
           unit' \in 0..MaxInstances, reg' \in Registrations \cup {"none"}
    PROVE  /\ HostInv' /\ Evolves(inst, inst', born, born', crowded, crowded')
           /\ born + 1 \in Procs /\ born' = born + 1 /\ ~Past(inst[born + 1])
<1> DEFINE i == born + 1
           r == [Unborn EXCEPT !.pc = "inspect"]
<1>0. HostTyped /\ PortHeld /\ BornInOrder /\ CrowdKnown /\ PathKept /\ FailureIsReported
  BY DEF HostInv
<1>1. inst \in [Procs -> ProcStates] /\ born \in 0..MaxInstances /\ crowded \subseteq Procs
  BY <1>0 DEF HostTyped
<1>2. i \in Procs /\ born' = i BY <1>1, HostAssumption DEF CanSpawn, Procs, Spawn
<1>3. inst[i].pc = "unborn" BY <1>0, <1>1, <1>2 DEF BornInOrder
<1>4. r \in ProcStates
  <2>1. Unborn \in ProcStates
    BY Zenon DEF Unborn, ProcStates, Phases, Starting, Paths, Codes
  <2>2. "inspect" \in Phases BY DEF Phases, Starting
  <2> QED BY <2>1, <2>2, ProcUpdates DEF Codes, Paths
<1>5. r.pc = "inspect" /\ r.server = FALSE /\ r.code = "none" BY DEF Unborn
<1>6. inst' = [inst EXCEPT ![i] = r]
      /\ crowded' = IF Living = {} THEN crowded ELSE crowded \cup Living \cup {i}
  BY DEF Spawn
<1> HIDE DEF r
<1>7. inst'[i] = r /\ \A j \in Procs : j # i => inst'[j] = inst[j] BY <1>1, <1>2, <1>6
<1>8. crowded \subseteq crowded' /\ crowded' \subseteq Procs
      /\ \A j \in Procs : j # i /\ Lives(inst[j]) => j \in crowded' /\ i \in crowded'
  BY <1>1, <1>2, <1>6, LivingProcs DEF Living
<1>9. HostTyped'
  <2>1. inst' \in [Procs -> ProcStates] BY <1>1, <1>4, <1>6
  <2>2. born' \in 0..MaxInstances BY <1>2 DEF Procs
  <2> QED BY <1>0, <1>8, <2>1, <2>2 DEF HostTyped
<1>10. PortHeld'
  <2>1. port # i BY <1>0, <1>2, <1>3 DEF PortHeld
  <2> QED BY <1>0, <1>5, <1>7, <2>1 DEF PortHeld
<1>11. BornInOrder'
  <2> SUFFICES ASSUME NEW j \in Procs, j > born' PROVE inst'[j].pc = "unborn"
    BY DEF BornInOrder
  <2>1. j # i /\ j > born BY <1>1, <1>2 DEF Procs
  <2> QED BY <1>0, <1>7, <2>1 DEF BornInOrder
<1>12. CrowdKnown'
  <2> SUFFICES ASSUME NEW j \in Procs, NEW l \in Procs, Lives(inst'[j]), Lives(inst'[l]), j # l
               PROVE  j \in crowded'
    BY DEF CrowdKnown, Lives
  <2>1. CASE j = i BY <1>7, <1>8, <2>1
  <2>2. CASE l = i BY <1>7, <1>8, <2>2
  <2>3. CASE j # i /\ l # i BY <1>0, <1>7, <1>8, <2>3 DEF CrowdKnown
  <2> QED BY <2>1, <2>2, <2>3
<1>13. PathKept' BY <1>0, <1>5, <1>7, <1>8 DEF PathKept
<1>14. FailureIsReported' BY <1>0, <1>5, <1>7 DEF FailureIsReported
<1>15. Evolves(inst, inst', born, born', crowded, crowded')
  <2>1. \A j \in Procs : Past(inst[j]) => j # i BY <1>3 DEF Past, Early
  <2>2. born # born' /\ born <= born' BY <1>1, <1>2
  <2> QED BY <1>7, <1>8, <2>1, <2>2 DEF Evolves
<1>16. ~Past(inst[i]) BY <1>3 DEF Past, Early
<1> QED
  BY <1>2, <1>9, <1>10, <1>11, <1>12, <1>13, <1>14, <1>15, <1>16 DEF HostInv

-----------------------------------------------------------------------------
(* From the processes and one command to the whole state.                      *)

Typed == faults' \in 0..MaxFaults /\ disk' \in BOOLEAN

LEMMA WorldStep ==
    ASSUME Inv, HostInv', Typed, UNCHANGED cmd,
           Evolves(inst, inst', born, born', crowded, crowded'),
           UnitMoves(inst, unit, unit', reg, reg')
    PROVE  Inv'
<1>1. born \in Nat /\ born' \in Nat
  BY HostAssumption DEF Inv, HostInv, HostTyped
<1>2. ASSUME NEW d \in Clients
      PROVE  Knows(cmd'[d], inst', born', crowded', unit', reg')
  <2>1. cmd[d] \in CommandStates /\ Knows(cmd[d], inst, born, crowded, unit, reg)
    BY DEF Inv, CommandsKnow
  <2> QED BY <1>1, <2>1, KnowledgeStays
<1>3. CommandsKnow' BY <1>2 DEF CommandsKnow
<1> QED BY <1>3 DEF Inv, Typed

LEMMA CommandWorldStep ==
    ASSUME Inv, HostInv', Typed, NEW c \in Clients, NEW k \in CommandStates,
           cmd' = [cmd EXCEPT ![c] = k],
           Knows(k, inst, born, crowded, unit, reg),
           Evolves(inst, inst', born, born', crowded, crowded'),
           UnitMoves(inst, unit, unit', reg, reg')
    PROVE  Inv'
<1>1. born \in Nat /\ born' \in Nat
  BY HostAssumption DEF Inv, HostInv, HostTyped
<1>2. cmd \in [Clients -> CommandStates] BY DEF Inv
<1>3. ASSUME NEW d \in Clients
      PROVE  Knows(cmd'[d], inst', born', crowded', unit', reg')
  <2>1. CASE d = c
    <3>1. cmd'[d] = k BY <1>2, <2>1
    <3> QED BY <1>1, <3>1, KnowledgeStays
  <2>2. CASE d # c
    <3>1. cmd'[d] = cmd[d] BY <1>2, <2>2
    <3>2. cmd[d] \in CommandStates /\ Knows(cmd[d], inst, born, crowded, unit, reg)
      BY DEF Inv, CommandsKnow
    <3> QED BY <1>1, <3>1, <3>2, KnowledgeStays
  <2> QED BY <2>1, <2>2
<1>4. CommandsKnow' BY <1>3 DEF CommandsKnow
<1>5. cmd' \in [Clients -> CommandStates] BY <1>2
<1> QED BY <1>4, <1>5 DEF Inv, Typed

LEMMA Still ==
    ASSUME HostInv, UNCHANGED <<ctl, port, inst, born, crowded, unit, reg>>
    PROVE  /\ HostInv' /\ Evolves(inst, inst', born, born', crowded, crowded')
           /\ UnitMoves(inst, unit, unit', reg, reg')
<1>1. HostInv'
  BY DEF HostInv, HostTyped, PortHeld, BornInOrder, CrowdKnown, PathKept, FailureIsReported
<1>2. born \in 0..MaxInstances BY DEF HostInv, HostTyped
<1> QED BY <1>1, <1>2 DEF Evolves, UnitMoves

(* A command goes on by itself.                                               *)
LEMMA CommandStep ==
    ASSUME Inv, NEW c \in Clients, NEW k \in CommandStates, cmd' = [cmd EXCEPT ![c] = k],
           UNCHANGED <<ctl, port, inst, born, crowded, unit, reg>>, Typed,
           Knows(k, inst, born, crowded, unit, reg)
    PROVE  Inv'
<1>1. HostInv BY DEF Inv
<1> QED BY <1>1, Still, CommandWorldStep

LEMMA InvFacts ==
    ASSUME Inv
    PROVE  /\ HostInv /\ HostTyped /\ PortHeld /\ PathKept /\ FailureIsReported
           /\ inst \in [Procs -> ProcStates] /\ cmd \in [Clients -> CommandStates]
           /\ \A i \in Procs : inst[i] \in ProcStates
           /\ \A c \in Clients : /\ cmd[c] \in CommandStates
                                 /\ Knows(cmd[c], inst, born, crowded, unit, reg)
           /\ born \in Nat /\ faults \in 0..MaxFaults /\ disk \in BOOLEAN
           /\ ctl \in [Paths -> 0..MaxInstances] /\ port \in 0..MaxInstances
<1>1. HostInv /\ HostTyped BY DEF Inv, HostInv
<1>2. inst \in [Procs -> ProcStates] /\ cmd \in [Clients -> CommandStates]
  BY <1>1 DEF Inv, HostTyped
<1> QED BY <1>1, <1>2 DEF Inv, HostInv, HostTyped, CommandsKnow

(* One more fault.                                                            *)
LEMMA Fault ==
    ASSUME Inv, faults < MaxFaults, faults' = faults + 1, UNCHANGED disk PROVE Typed
BY HostAssumption DEF Inv, Typed

(* A step of process i that no command sees.                                   *)
LEMMA ProcWorldStep ==
    ASSUME Inv, Typed, UNCHANGED <<cmd, unit, reg>>,
           HostInv', Evolves(inst, inst', born, born', crowded, crowded')
    PROVE  Inv'
BY WorldStep DEF UnitMoves

-----------------------------------------------------------------------------
(* The steps of a daemon.                                                     *)

LEMMA RefusedStep ==
    ASSUME Inv, NEW i \in Procs, inst[i].pc \in {"inspect", "bind"}, PathRefused(i),
           UNCHANGED <<ctl, port, born, crowded, unit, reg, cmd>>, Typed
    PROVE  Inv'
<1> DEFINE r == IF inst[i].at = 1 THEN [inst[i] EXCEPT !.at = 2, !.pc = "inspect"]
                ELSE [inst[i] EXCEPT !.pc = "gone", !.code = "error"]
<1>1. inst[i] \in ProcStates /\ HostInv BY InvFacts
<1>2. r \in ProcStates
  <2>1. "inspect" \in Phases /\ "gone" \in Phases /\ 2 \in Paths /\ "error" \in Codes
    BY DEF Phases, Starting, Paths, Codes
  <2> QED BY <1>1, <2>1, ProcUpdates
<1>3. inst' = [inst EXCEPT ![i] = r] BY DEF PathRefused
<1>4. r.pc \in {"inspect", "gone"} /\ r.server = inst[i].server /\ r.told = inst[i].told
      /\ (r.code = "ok" => inst[i].code = "ok")
  BY <1>1 DEF ProcStates
<1>5. inst[i].server = FALSE /\ port # i
  <2>1. inst[i].server \in BOOLEAN BY <1>1, ProcFields
  <2> QED BY <1>1, <2>1 DEF HostInv, PortHeld
<1>6. r.code = "ok" => r.told BY <1>1, <1>4 DEF HostInv, FailureIsReported
<1>7. ~Listens(r) /\ ~Past(inst[i]) /\ Lives(inst[i])
  BY <1>4 DEF Listens, Past, Early, Lives
<1>8. ctl' \in [Paths -> 0..MaxInstances] /\ port' \in 0..MaxInstances
      /\ unit' \in 0..MaxInstances /\ reg' \in Registrations \cup {"none"}
  BY <1>1 DEF HostInv, HostTyped
<1> HIDE DEF r
<1>9. HostInv' /\ Evolves(inst, inst', born, born', crowded, crowded')
  BY <1>1, <1>2, <1>3, <1>4, <1>5, <1>6, <1>7, <1>8, ProcStep
<1> QED BY <1>9, ProcWorldStep

(* The bookkeeping of a step that moves process i to the record r.             *)
LEMMA DaemonStep ==
    ASSUME Inv, Typed, NEW i \in Procs, NEW r \in ProcStates,
           inst' = [inst EXCEPT ![i] = r], UNCHANGED <<born, crowded, unit, reg, cmd>>,
           ctl' \in [Paths -> 0..MaxInstances], port' \in 0..MaxInstances,
           Lives(inst[i]),
           Past(inst[i]) => Past(r),
           Past(inst[i]) /\ Listens(r) => Listens(inst[i]) /\ r.at = inst[i].at,
           r.server => r.pc \in {"running", "joining", "guard", "exit"},
           r.server <=> port' = i,
           \A j \in Procs : j # i => (port' = j <=> port = j),
           r.code = "ok" => r.told,
           r.pc \in {"port", "running"} /\ i \notin crowded => ctl'[r.at] = i
    PROVE  Inv'
<1>1. HostInv /\ inst[i].pc # "unborn" BY DEF Inv, Lives
<1>2. unit' \in 0..MaxInstances /\ reg' \in Registrations \cup {"none"}
  BY <1>1 DEF HostInv, HostTyped
<1>3. HostInv' /\ Evolves(inst, inst', born, born', crowded, crowded')
  BY <1>1, <1>2, ProcStep
<1> QED BY <1>3, ProcWorldStep

(* A step that moves i to another phase, and ctl with it at most.              *)
LEMMA PhaseStep ==
    ASSUME Inv, Typed, NEW i \in Procs, NEW p \in Phases,
           inst' = [inst EXCEPT ![i] = [inst[i] EXCEPT !.pc = p]],
           UNCHANGED <<port, born, crowded, unit, reg, cmd>>,
           ctl' \in [Paths -> 0..MaxInstances],
           Lives(inst[i]), p \notin {"port", "running"},
           inst[i].pc \notin Early => p \notin Early,
           inst[i].pc \in {"running", "joining", "guard", "exit"} =>
              p \in {"running", "joining", "guard", "exit"}
    PROVE  Inv'
<1> DEFINE r == [inst[i] EXCEPT !.pc = p]
<1>1. HostInv /\ inst[i] \in ProcStates BY InvFacts
<1>2. r.pc = p /\ r.server = inst[i].server /\ r.told = inst[i].told
      /\ r.code = inst[i].code
  BY <1>1 DEF ProcStates
<1>3. r \in ProcStates BY <1>1, ProcUpdates DEF Codes, Paths
<1>4. /\ inst[i].server <=> port' = i
      /\ inst[i].server => inst[i].pc \in {"running", "joining", "guard", "exit"}
      /\ inst[i].code = "ok" => inst[i].told
      /\ port' \in 0..MaxInstances
  BY <1>1 DEF HostInv, PortHeld, FailureIsReported, HostTyped
<1>5. inst' = [inst EXCEPT ![i] = r] OBVIOUS
<1>6. (Past(inst[i]) => Past(r)) /\ ~Listens(r) BY <1>2 DEF Past, Listens
<1> HIDE DEF r
<1> QED BY <1>2, <1>3, <1>4, <1>5, <1>6, DaemonStep

LEMMA BindingKeeps ==
    ASSUME Inv, NEW i \in Procs, Inspect(i) \/ Unlink(i) \/ Bind(i) PROVE Inv'
<1>1. inst[i] \in ProcStates /\ inst \in [Procs -> ProcStates] /\ HostInv
      /\ ctl \in [Paths -> 0..MaxInstances] /\ faults \in 0..MaxFaults /\ disk \in BOOLEAN
  BY InvFacts
<1>2. inst[i].at \in Paths BY <1>1, ProcFields
<1>3. "bind" \in Phases /\ "unlink" \in Phases /\ "port" \in Phases BY DEF Phases, Starting
<1>4. CASE Inspect(i)
  <2> DEFINE holder == ctl[inst[i].at]
             stale == holder # 0 /\ inst[holder].ear
  <2>0. UNCHANGED <<ctl, port, cmd, born, disk, reg, unit, faults, crowded>> BY <1>4 DEF Inspect
  <2>1. Typed BY <1>1, <2>0 DEF Typed
  <2>2. inst[i].pc = "inspect" BY <1>4 DEF Inspect
  <2>3. CASE stale BY <1>4, <2>0, <2>1, <2>2, <2>3, RefusedStep DEF Inspect
  <2>4. CASE ~stale
    <3>1. PICK p \in {"bind", "unlink"} : inst' = [inst EXCEPT ![i] = [inst[i] EXCEPT !.pc = p]]
      BY <1>4, <2>4 DEF Inspect
    <3>2. p \in Phases /\ p \notin {"port", "running"} BY <1>3
    <3>3. Lives(inst[i]) /\ inst[i].pc \in Early
          /\ inst[i].pc \notin {"running", "joining", "guard", "exit"}
      BY <2>2 DEF Lives, Early
    <3> QED BY <1>1, <2>0, <2>1, <3>1, <3>2, <3>3, PhaseStep
  <2> QED BY <2>3, <2>4
<1>5. CASE Unlink(i)
  <2>0. UNCHANGED <<port, cmd, born, disk, reg, unit, faults, crowded>> BY <1>5 DEF Unlink
  <2>1. Typed BY <1>1, <2>0 DEF Typed
  <2>2. Lives(inst[i]) /\ inst[i].pc \in Early
        /\ inst[i].pc \notin {"running", "joining", "guard", "exit"}
    BY <1>5 DEF Unlink, Lives, Early
  <2>3. ctl' \in [Paths -> 0..MaxInstances] BY <1>1, <1>2, <1>5, HostAssumption DEF Unlink
  <2>4. inst' = [inst EXCEPT ![i] = [inst[i] EXCEPT !.pc = "bind"]] BY <1>5 DEF Unlink
  <2> QED BY <1>3, <2>0, <2>1, <2>2, <2>3, <2>4, PhaseStep
<1>6. CASE Bind(i)
  <2>0. UNCHANGED <<port, cmd, born, disk, reg, unit, crowded>> /\ inst[i].pc = "bind"
    BY <1>6 DEF Bind
  <2>1. CASE PathRefused(i) /\ UNCHANGED ctl /\ (UNCHANGED faults \/ (faults < MaxFaults /\ faults' = faults + 1))
    <3>1. Typed BY <1>1, <2>0, <2>1, Fault DEF Typed
    <3> QED BY <2>0, <2>1, <3>1, RefusedStep
  <2>2. CASE /\ ctl' = [ctl EXCEPT ![inst[i].at] = i]
             /\ inst' = [inst EXCEPT ![i].pc = "port", ![i].ear = TRUE]
             /\ UNCHANGED faults
    <3> DEFINE r == [inst[i] EXCEPT !.pc = "port", !.ear = TRUE]
    <3>1. r \in ProcStates BY <1>1, <1>3, ProcUpdates DEF Codes, Paths
    <3>2. r.pc = "port" /\ r.server = inst[i].server /\ r.told = inst[i].told
          /\ r.code = inst[i].code /\ r.at = inst[i].at
      BY <1>1 DEF ProcStates
    <3>3. inst' = [inst EXCEPT ![i] = r] BY <1>1, <2>2
    <3>4. ctl' \in [Paths -> 0..MaxInstances] /\ ctl'[inst[i].at] = i
      BY <1>1, <1>2, <2>2 DEF Procs
    <3>5. /\ inst[i].server <=> port' = i
          /\ ~inst[i].server
          /\ inst[i].code = "ok" => inst[i].told
          /\ port' \in 0..MaxInstances
      BY <1>1, <2>0 DEF HostInv, PortHeld, FailureIsReported, HostTyped
    <3>6. Lives(inst[i]) /\ ~Past(inst[i]) BY <2>0 DEF Lives, Past, Early
    <3>7. Typed BY <1>1, <2>0, <2>2 DEF Typed
    <3> HIDE DEF r
    <3> QED BY <2>0, <3>1, <3>2, <3>3, <3>4, <3>5, <3>6, <3>7, DaemonStep
  <2> QED BY <1>6, <2>1, <2>2 DEF Bind
<1> QED BY <1>4, <1>5, <1>6

LEMMA BindPortKeeps ==
    ASSUME Inv, NEW i \in Procs, BindPort(i) PROVE Inv'
<1>1. inst[i] \in ProcStates /\ inst \in [Procs -> ProcStates] /\ HostInv
      /\ ctl \in [Paths -> 0..MaxInstances] /\ faults \in 0..MaxFaults /\ disk \in BOOLEAN
  BY InvFacts
<1>2. UNCHANGED <<ctl, cmd, born, disk, reg, unit, faults, crowded>> /\ inst[i].pc = "port"
  BY DEF BindPort
<1>3. Typed BY <1>1, <1>2 DEF Typed
<1>4. "running" \in Phases /\ "guard" \in Phases /\ "error" \in Codes
  BY DEF Phases, Starting, Codes
<1>5. /\ inst[i].server <=> port = i
      /\ ~inst[i].server
      /\ inst[i].code = "ok" => inst[i].told
      /\ port \in 0..MaxInstances
      /\ i \notin crowded => ctl[inst[i].at] = i
  BY <1>1, <1>2 DEF HostInv, PortHeld, FailureIsReported, HostTyped, PathKept
<1>6. Lives(inst[i]) BY <1>2 DEF Lives
<1>7. CASE port = 0
  <2> DEFINE r == [inst[i] EXCEPT !.pc = "running", !.server = TRUE, !.sampler = TRUE]
  <2>1. r \in ProcStates BY <1>1, <1>4, ProcUpdates DEF Codes, Paths
  <2>2. r.pc = "running" /\ r.server = TRUE /\ r.told = inst[i].told
        /\ r.code = inst[i].code /\ r.at = inst[i].at /\ r.ear = inst[i].ear
    BY <1>1 DEF ProcStates
  <2>3. inst' = [inst EXCEPT ![i] = r] /\ port' = i BY <1>1, <1>7 DEF BindPort
  <2>4. Past(r) /\ (Listens(r) => Listens(inst[i]))
    BY <1>2, <2>2 DEF Past, Early, Listens
  <2>5. port' \in 0..MaxInstances /\ \A j \in Procs : j # i => (port' = j <=> port = j)
    BY <1>7, <2>3 DEF Procs
  <2> HIDE DEF r
  <2> QED BY <1>1, <1>2, <1>3, <1>5, <1>6, <2>1, <2>2, <2>3, <2>4, <2>5, DaemonStep
<1>8. CASE port # 0
  <2> DEFINE r == [inst[i] EXCEPT !.pc = "guard", !.code = "error"]
  <2>1. r \in ProcStates BY <1>1, <1>4, ProcUpdates DEF Paths
  <2>2. r.pc = "guard" /\ r.server = inst[i].server /\ r.code = "error"
    BY <1>1 DEF ProcStates
  <2>3. inst' = [inst EXCEPT ![i] = r] /\ port' = port BY <1>1, <1>8 DEF BindPort
  <2>4. Past(r) /\ ~Listens(r) BY <2>2 DEF Past, Early, Listens
  <2> HIDE DEF r
  <2> QED BY <1>1, <1>2, <1>3, <1>5, <1>6, <2>1, <2>2, <2>3, <2>4, DaemonStep
<1> QED BY <1>7, <1>8

(* A task ends, of itself or after the notification; the listener goes with    *)
(* the server.                                                               *)
LEMMA TaskStep ==
    ASSUME Inv, Typed, NEW i \in Procs, inst[i].pc \in {"running", "joining"},
           UNCHANGED <<ctl, born, crowded, unit, reg, cmd>>,
           \/ inst[i].server /\ inst' = [inst EXCEPT ![i].server = FALSE] /\ port' = 0
           \/ inst' = [inst EXCEPT ![i].sampler = FALSE] /\ UNCHANGED port
    PROVE  Inv'
<1>1. inst[i] \in ProcStates /\ inst \in [Procs -> ProcStates] /\ HostInv
      /\ ctl \in [Paths -> 0..MaxInstances]
  BY InvFacts
<1>2. /\ inst[i].server <=> port = i
      /\ inst[i].code = "ok" => inst[i].told
      /\ port \in 0..MaxInstances
      /\ inst[i].pc \in {"port", "running"} /\ i \notin crowded => ctl[inst[i].at] = i
  BY <1>1 DEF HostInv, PortHeld, FailureIsReported, HostTyped, PathKept
<1>3. Lives(inst[i]) /\ Past(inst[i]) BY DEF Lives, Past, Early
<1>4. ASSUME NEW r \in ProcStates, inst' = [inst EXCEPT ![i] = r], r.pc = inst[i].pc,
             r.at = inst[i].at, r.ear = inst[i].ear, r.told = inst[i].told,
             r.code = inst[i].code, r.server <=> port' = i, port' \in {0, port},
             \A j \in Procs : j # i => (port' = j <=> port = j)
      PROVE  Inv'
  <2>1. Past(r) /\ (Listens(r) => Listens(inst[i])) BY <1>3, <1>4 DEF Past, Listens
  <2>2. port' \in 0..MaxInstances BY <1>2, <1>4, HostAssumption
  <2> QED BY <1>1, <1>2, <1>3, <1>4, <2>1, <2>2, DaemonStep
<1>5. CASE inst[i].server /\ inst' = [inst EXCEPT ![i].server = FALSE] /\ port' = 0
  <2> DEFINE r == [inst[i] EXCEPT !.server = FALSE]
  <2>1. r \in ProcStates BY <1>1, ProcUpdates DEF Codes, Paths, Phases
  <2>2. r.pc = inst[i].pc /\ r.at = inst[i].at /\ r.ear = inst[i].ear
        /\ r.told = inst[i].told /\ r.code = inst[i].code /\ r.server = FALSE
    BY <1>1 DEF ProcStates
  <2>3. port = i /\ port' = 0 BY <1>2, <1>5
  <2>4. i # 0 /\ \A j \in Procs : j # i => (port' = j <=> port = j) BY <2>3 DEF Procs
  <2>5. inst' = [inst EXCEPT ![i] = r] BY <1>5
  <2> HIDE DEF r
  <2> QED BY <1>4, <2>1, <2>2, <2>3, <2>4, <2>5
<1>6. CASE inst' = [inst EXCEPT ![i].sampler = FALSE] /\ UNCHANGED port
  <2> DEFINE r == [inst[i] EXCEPT !.sampler = FALSE]
  <2>1. r \in ProcStates BY <1>1, ProcUpdates DEF Codes, Paths, Phases
  <2>2. r.pc = inst[i].pc /\ r.at = inst[i].at /\ r.ear = inst[i].ear
        /\ r.told = inst[i].told /\ r.code = inst[i].code /\ r.server = inst[i].server
    BY <1>1 DEF ProcStates
  <2>3. inst' = [inst EXCEPT ![i] = r] BY <1>6
  <2> HIDE DEF r
  <2> QED BY <1>2, <1>4, <1>6, <2>1, <2>2, <2>3
<1> QED BY <1>5, <1>6

LEMMA TasksKeep ==
    ASSUME Inv, NEW i \in Procs, TaskDies(i) \/ TaskEnds(i) PROVE Inv'
<1>1. faults \in 0..MaxFaults /\ disk \in BOOLEAN BY InvFacts
<1>2. Typed BY <1>1, Fault DEF TaskDies, TaskEnds, Typed
<1>3. UNCHANGED <<ctl, born, crowded, unit, reg, cmd>> /\ inst[i].pc \in {"running", "joining"}
  BY DEF TaskDies, TaskEnds
<1>4. \/ inst[i].server /\ inst' = [inst EXCEPT ![i].server = FALSE] /\ port' = 0
      \/ inst' = [inst EXCEPT ![i].sampler = FALSE] /\ UNCHANGED port
  BY DEF TaskDies, TaskEnds
<1> QED BY <1>2, <1>3, <1>4, TaskStep

LEMMA EndingKeeps ==
    ASSUME Inv, NEW i \in Procs, Supervise(i) \/ Join(i) \/ DropGuard(i) PROVE Inv'
<1>1. inst[i] \in ProcStates /\ inst \in [Procs -> ProcStates] /\ HostInv
      /\ ctl \in [Paths -> 0..MaxInstances] /\ faults \in 0..MaxFaults /\ disk \in BOOLEAN
  BY InvFacts
<1>2. Typed /\ UNCHANGED <<port, born, crowded, unit, reg, cmd>>
  BY <1>1 DEF Supervise, Join, DropGuard, Typed
<1>3. "joining" \in Phases /\ "guard" \in Phases /\ "exit" \in Phases BY DEF Phases
<1>4. inst[i].pc \in {"running", "joining", "guard"} BY DEF Supervise, Join, DropGuard
<1>5. Lives(inst[i]) /\ Past(inst[i]) BY <1>4 DEF Lives, Past, Early
<1>6. CASE Supervise(i)
  <2>1. PICK code \in IntoResult(i) :
          inst' = [inst EXCEPT ![i].pc = "joining", ![i].code = code]
    BY <1>6 DEF Supervise
  <2> DEFINE r == [inst[i] EXCEPT !.pc = "joining", !.code = code]
  <2>2. code \in Codes /\ (code = "ok" => inst[i].told) BY DEF IntoResult, Codes
  <2>3. r \in ProcStates BY <1>1, <1>3, <2>2, ProcUpdates DEF Paths
  <2>4. r.pc = "joining" /\ r.server = inst[i].server /\ r.told = inst[i].told /\ r.code = code
    BY <1>1 DEF ProcStates
  <2>5. inst' = [inst EXCEPT ![i] = r] BY <1>1, <2>1
  <2>6. (inst[i].server <=> port' = i) /\ port' \in 0..MaxInstances
    BY <1>1, <1>2 DEF HostInv, PortHeld, HostTyped
  <2>7. ctl' = ctl BY <1>6 DEF Supervise
  <2>8. Past(r) /\ ~Listens(r) BY <2>4 DEF Past, Early, Listens
  <2> HIDE DEF r
  <2> QED BY <1>1, <1>2, <1>5, <2>2, <2>3, <2>4, <2>5, <2>6, <2>7, <2>8, DaemonStep
<1>7. CASE Join(i)
  <2>1. inst' = [inst EXCEPT ![i] = [inst[i] EXCEPT !.pc = "guard"]] /\ ctl' = ctl
    BY <1>7 DEF Join
  <2> QED BY <1>1, <1>2, <1>3, <1>5, <2>1, PhaseStep DEF Early
<1>8. CASE DropGuard(i)
  <2>1. inst' = [inst EXCEPT ![i] = [inst[i] EXCEPT !.pc = "exit"]]
        /\ ctl' = [ctl EXCEPT ![inst[i].at] = 0]
    BY <1>8 DEF DropGuard
  <2>2. 0 \in 0..MaxInstances BY HostAssumption
  <2>3. ctl' \in [Paths -> 0..MaxInstances] BY <1>1, <2>1, <2>2
  <2> QED BY <1>1, <1>2, <1>3, <1>5, <2>1, <2>3, PhaseStep DEF Early
<1> QED BY <1>6, <1>7, <1>8

-----------------------------------------------------------------------------
(* The end of a process.                                                      *)

LEMMA DeathStep ==
    ASSUME Inv, NEW i \in Procs, NEW code \in Codes, Lives(inst[i]),
           code = "ok" => inst[i].told,
           inst' = [inst EXCEPT ![i] = Dead(inst[i], code)], port' = Released(i),
           UNCHANGED <<ctl, born, crowded, unit, reg>>
    PROVE  HostInv' /\ Evolves(inst, inst', born, born', crowded, crowded')
<1> DEFINE r == Dead(inst[i], code)
<1>1. inst[i] \in ProcStates /\ inst \in [Procs -> ProcStates] /\ HostInv BY InvFacts
<1>2. r \in ProcStates
  <2>1. "gone" \in Phases BY DEF Phases
  <2> QED BY <1>1, <2>1, ProcUpdates DEF Dead, Paths
<1>3. r.pc = "gone" /\ r.server = FALSE /\ r.code = code /\ r.told = inst[i].told
  BY <1>1 DEF ProcStates, Dead
<1>4. /\ port \in 0..MaxInstances /\ ctl \in [Paths -> 0..MaxInstances]
      /\ unit \in 0..MaxInstances /\ reg \in Registrations \cup {"none"}
  BY <1>1 DEF HostInv, HostTyped
<1>5. port' \in 0..MaxInstances /\ port' # i
      /\ \A j \in Procs : j # i => (port' = j <=> port = j)
  BY <1>4, HostAssumption DEF Released, Procs
<1>6. inst' = [inst EXCEPT ![i] = r] OBVIOUS
<1>7. Past(r) /\ ~Listens(r) /\ ~Lives(r) BY <1>3 DEF Past, Early, Listens, Lives
<1>8. inst[i].pc # "unborn" BY DEF Lives
<1> HIDE DEF r
<1> QED BY <1>1, <1>2, <1>3, <1>4, <1>5, <1>6, <1>7, <1>8, ProcStep

(* The control socket closes, is asked or answers: ear, queue and told.        *)
LEMMA EarStep ==
    ASSUME Inv, NEW i \in Procs, NEW r \in ProcStates, inst' = [inst EXCEPT ![i] = r],
           UNCHANGED <<ctl, port, born, crowded, unit, reg>>,
           r.pc = inst[i].pc, r.at = inst[i].at, r.server = inst[i].server,
           r.code = inst[i].code, r.ear => inst[i].ear, inst[i].told => r.told
    PROVE  HostInv' /\ Evolves(inst, inst', born, born', crowded, crowded')
<1>1. inst[i] \in ProcStates /\ HostInv BY InvFacts
<1>2. /\ inst[i].server <=> port' = i
      /\ inst[i].server => inst[i].pc \in {"running", "joining", "guard", "exit"}
      /\ inst[i].code = "ok" => inst[i].told
      /\ inst[i].pc \in {"port", "running"} /\ i \notin crowded => ctl'[inst[i].at] = i
      /\ port' \in 0..MaxInstances /\ ctl' \in [Paths -> 0..MaxInstances]
      /\ unit' \in 0..MaxInstances /\ reg' \in Registrations \cup {"none"}
  BY <1>1 DEF HostInv, PortHeld, FailureIsReported, HostTyped, PathKept
<1>3. (Past(inst[i]) => Past(r)) /\ (Listens(r) => Listens(inst[i]))
      /\ (Lives(r) => Lives(inst[i]))
  BY DEF Past, Listens, Lives
<1> QED BY <1>1, <1>2, <1>3, ProcStep

(* A signal: death before the handlers are installed, a request afterwards.    *)
LEMMA TerminateStep ==
    ASSUME Inv, NEW i \in Procs, Lives(inst[i]),
           inst' = [inst EXCEPT ![i] = Terminate(inst[i])],
           UNCHANGED <<ctl, port, born, crowded, unit, reg>>
    PROVE  HostInv' /\ Evolves(inst, inst', born, born', crowded, crowded')
<1>1. inst[i] \in ProcStates /\ inst \in [Procs -> ProcStates] /\ HostInv BY InvFacts
<1>2. CASE inst[i].pc \in {"inspect", "unlink", "bind"}
  <2>1. port # i
    <3>1. ~inst[i].server BY <1>1, <1>2 DEF HostInv, PortHeld
    <3> QED BY <1>1, <3>1 DEF HostInv, PortHeld
  <2>2. port' = Released(i) BY <2>1 DEF Released
  <2>3. inst' = [inst EXCEPT ![i] = Dead(inst[i], "killed")] BY <1>2 DEF Terminate
  <2>4. "killed" \in Codes BY DEF Codes
  <2> QED BY <2>2, <2>3, <2>4, DeathStep
<1>3. CASE inst[i].pc \notin {"inspect", "unlink", "bind"}
  <2> DEFINE r == [inst[i] EXCEPT !.told = TRUE]
  <2>1. r \in ProcStates BY <1>1, ProcUpdates DEF Phases, Codes, Paths
  <2>2. r.pc = inst[i].pc /\ r.server = inst[i].server /\ r.told = TRUE /\ r.at = inst[i].at
        /\ r.code = inst[i].code /\ r.ear = inst[i].ear
    BY <1>1 DEF ProcStates
  <2>3. inst' = [inst EXCEPT ![i] = r] BY <1>3 DEF Terminate
  <2> HIDE DEF r
  <2> QED BY <2>1, <2>2, <2>3, EarStep
<1> QED BY <1>2, <1>3

(* The tasks of a process that ends are dropped with their listeners.          *)
LEMMA DropTasksKeeps ==
    ASSUME Inv, NEW i \in Procs, DropTasks(i) PROVE Inv'
<1> DEFINE r == [inst[i] EXCEPT !.pc = "exit", !.ear = FALSE, !.queue = {}, !.server = FALSE,
                                !.sampler = FALSE, !.code = inst[i].code]
<1>1. inst[i] \in ProcStates /\ inst \in [Procs -> ProcStates] /\ HostInv
      /\ faults \in 0..MaxFaults /\ disk \in BOOLEAN /\ inst[i].code \in Codes
  BY InvFacts, ProcFields
<1>2. Typed BY <1>1 DEF DropTasks, Typed
<1>3. inst[i].pc = "exit" /\ port' = Released(i)
      /\ UNCHANGED <<ctl, born, crowded, unit, reg, cmd>>
  BY DEF DropTasks
<1>4. r \in ProcStates
  <2>1. "exit" \in Phases /\ {} \in SUBSET Clients /\ FALSE \in BOOLEAN BY DEF Phases
  <2> QED BY <1>1, <2>1, ProcUpdates DEF Paths
<1>5. r.pc = "exit" /\ r.server = FALSE /\ r.told = inst[i].told /\ r.code = inst[i].code
      /\ r.at = inst[i].at
  BY <1>1 DEF ProcStates
<1>6. inst' = [inst EXCEPT ![i] = r] BY <1>1, <1>3 DEF DropTasks, ProcStates
<1> HIDE DEF r
<1>7. /\ port' # i /\ port' \in 0..MaxInstances
      /\ \A j \in Procs : j # i => (port' = j <=> port = j)
  BY <1>1, <1>3, HostAssumption DEF Released, Procs, HostInv, HostTyped
<1>8. /\ ctl' \in [Paths -> 0..MaxInstances] /\ unit' \in 0..MaxInstances
      /\ reg' \in Registrations \cup {"none"} /\ (inst[i].code = "ok" => inst[i].told)
  BY <1>1, <1>3 DEF HostInv, HostTyped, FailureIsReported
<1>9. HostInv' /\ Evolves(inst, inst', born, born', crowded, crowded')
  BY <1>1, <1>3, <1>4, <1>5, <1>6, <1>7, <1>8, ProcStep DEF Lives, Past, Listens, Early
<1> QED BY <1>2, <1>3, <1>9, ProcWorldStep

LEMMA DeathsKeep ==
    ASSUME Inv, NEW i \in Procs, Exit(i) \/ Signal(i) \/ Kill(i) PROVE Inv'
<1>1. inst[i] \in ProcStates /\ faults \in 0..MaxFaults /\ disk \in BOOLEAN
      /\ FailureIsReported
  BY InvFacts
<1>2. Typed BY <1>1, Fault DEF Exit, Signal, Kill, Typed
<1>3. UNCHANGED <<ctl, born, crowded, unit, reg, cmd>> BY DEF Exit, Signal, Kill
<1>4. Lives(inst[i]) BY DEF Exit, Signal, Kill, Lives, Alive
<1>5. HostInv' /\ Evolves(inst, inst', born, born', crowded, crowded')
  <2>1. CASE Exit(i)
    <3>1. inst[i].code \in Codes /\ (inst[i].code = "ok" => inst[i].told)
      BY <1>1, ProcFields DEF FailureIsReported
    <3>2. inst' = [inst EXCEPT ![i] = Dead(inst[i], inst[i].code)] /\ port' = port
          /\ ~inst[i].server
      BY <2>1 DEF Exit
    <3>3. port' = Released(i) BY <3>2, InvFacts DEF HostInv, PortHeld, Released
    <3> QED BY <1>3, <1>4, <3>1, <3>2, <3>3, DeathStep
  <2>2. CASE Signal(i) BY <1>3, <1>4, <2>2, TerminateStep DEF Signal
  <2>3. CASE Kill(i)
    <3>1. "killed" \in Codes BY DEF Codes
    <3>2. inst' = [inst EXCEPT ![i] = Dead(inst[i], "killed")] /\ port' = Released(i)
      BY <2>3 DEF Kill
    <3> QED BY <1>3, <1>4, <3>1, <3>2, DeathStep
  <2> QED BY <2>1, <2>2, <2>3
<1> QED BY <1>2, <1>3, <1>5, ProcWorldStep

LEMMA AcceptFailsKeeps ==
    ASSUME Inv, NEW i \in Procs, AcceptFails(i) PROVE Inv'
<1> DEFINE r == [inst[i] EXCEPT !.ear = FALSE, !.queue = {}]
<1>1. inst[i] \in ProcStates /\ inst \in [Procs -> ProcStates] /\ disk \in BOOLEAN
  BY InvFacts
<1>2. Typed BY Fault DEF AcceptFails
<1>3. r \in ProcStates BY <1>1, ProcUpdates DEF Phases, Codes, Paths
<1>4. r.pc = inst[i].pc /\ r.at = inst[i].at /\ r.server = inst[i].server
      /\ r.code = inst[i].code /\ r.ear = FALSE /\ r.told = inst[i].told
  BY <1>1 DEF ProcStates
<1>5. inst' = [inst EXCEPT ![i] = r] BY <1>1 DEF AcceptFails
<1>6. UNCHANGED <<ctl, port, born, crowded, unit, reg, cmd>> BY DEF AcceptFails
<1> HIDE DEF r
<1> QED BY <1>2, <1>3, <1>4, <1>5, <1>6, EarStep, ProcWorldStep

-----------------------------------------------------------------------------
(* The manager.                                                              *)
LEMMA ManagerKeeps == Inv /\ (ManagerStart \/ Reregister) => Inv'
<1> SUFFICES ASSUME Inv, ManagerStart \/ Reregister PROVE Inv' OBVIOUS
<1>1. HostInv /\ HostTyped /\ disk \in BOOLEAN /\ born \in Nat BY InvFacts
<1>2. Typed BY Fault DEF ManagerStart, Reregister
<1>3. CASE ManagerStart
  <2>1. CanSpawn /\ Spawn(born + 1) /\ UNCHANGED <<ctl, port, cmd, reg>> /\ unit' = born + 1
    BY <1>3 DEF ManagerStart
  <2>2. unit' \in 0..MaxInstances /\ reg' \in Registrations \cup {"none"}
    BY <1>1, <2>1, HostAssumption DEF CanSpawn, HostTyped
  <2>3. HostInv' /\ Evolves(inst, inst', born, born', crowded, crowded') /\ ~Past(inst[unit'])
    BY <1>1, <2>1, <2>2, SpawnStep
  <2>4. UnitMoves(inst, unit, unit', reg, reg') BY <2>1, <2>3 DEF UnitMoves
  <2> QED BY <1>2, <2>1, <2>3, <2>4, WorldStep
<1>4. CASE Reregister
  <2>1. unit' = 0 /\ reg' \in Registrations /\ UNCHANGED <<ctl, port, inst, cmd, born, crowded>>
    BY <1>4 DEF Reregister
  <2>2. HostInv'
    BY <1>1, <2>1, HostAssumption
    DEF HostInv, HostTyped, PortHeld, BornInOrder, CrowdKnown, PathKept, FailureIsReported
  <2>3. Evolves(inst, inst', born, born', crowded, crowded') BY <1>1, <2>1 DEF Evolves
  <2>4. UnitMoves(inst, unit, unit', reg, reg') BY <2>1 DEF UnitMoves
  <2> QED BY <1>2, <2>1, <2>2, <2>3, <2>4, WorldStep
<1> QED BY <1>3, <1>4

-----------------------------------------------------------------------------
(* The records of commands.                                                   *)

LEMMA CommandUpdates ==
    ASSUME NEW k \in CommandStates
    PROVE  /\ \A p \in Points : [k EXCEPT !.pc = p] \in CommandStates
           /\ \A p \in Points, l \in Lifecycles :
                 [k EXCEPT !.pc = p, !.life = l] \in CommandStates
           /\ \A p \in Points, b \in -1..MaxInstances :
                 [k EXCEPT !.pc = p, !.base = b] \in CommandStates
           /\ \A p \in Points, o \in 0..MaxInstances :
                 [k EXCEPT !.pc = p, !.on = o] \in CommandStates
           /\ \A p \in Points, h \in 0..MaxInstances :
                 [k EXCEPT !.pc = p, !.child = h] \in CommandStates
           /\ \A h \in 0..MaxInstances : [k EXCEPT !.child = h] \in CommandStates
           /\ \A t \in BOOLEAN : [k EXCEPT !.direct = t] \in CommandStates
           /\ \A q \in Verdicts, o \in 0..MaxInstances :
                 [k EXCEPT !.said = q, !.on = o] \in CommandStates
           /\ \A v \in 0..3, o \in 0..MaxInstances :
                 [k EXCEPT !.sev = v, !.on = o] \in CommandStates
           /\ \A d \in Paths, p \in Points : [k EXCEPT !.cand = d, !.pc = p] \in CommandStates
           /\ \A p \in Points, d \in Paths, v \in 0..3, U \in SUBSET Procs :
                 [k EXCEPT !.pc = p, !.cand = d, !.sev = v, !.up = U] \in CommandStates
<1> DEFINE B == BOOLEAN
           S == SUBSET Procs
           O == Ops \cup {"none"}
           L == Lifecycles \cup {"none"}
           V == Verdicts \cup {"none"}
           R == Reports \cup {"none"}
           I == 0..MaxInstances
           J == -1..MaxInstances
           N == 0..3
<1>1. Lifecycles \subseteq L /\ Verdicts \subseteq V OBVIOUS
<1>2. CommandStates =
        [op : O, pc : Points, cand : Paths, sev : N, on : I, child : I, life : L,
         direct : B, said : V, up : S, base : J, out : R]
  BY DEF CommandStates
<1> HIDE DEF B, S, O, L, V, R, I, J, N
<1>3. \A p \in Points : [k EXCEPT !.pc = p] \in CommandStates BY <1>2
<1>4. \A p \in Points, l \in Lifecycles : [k EXCEPT !.pc = p, !.life = l] \in CommandStates
  BY <1>1, <1>2
<1>5. \A p \in Points, b \in J : [k EXCEPT !.pc = p, !.base = b] \in CommandStates BY <1>2
<1>6. \A p \in Points, o \in I : [k EXCEPT !.pc = p, !.on = o] \in CommandStates BY <1>2
<1>7. \A p \in Points, h \in I : [k EXCEPT !.pc = p, !.child = h] \in CommandStates BY <1>2
<1>8. \A h \in I : [k EXCEPT !.child = h] \in CommandStates BY <1>2
<1>9. \A t \in B : [k EXCEPT !.direct = t] \in CommandStates BY <1>2
<1>10. \A q \in Verdicts, o \in I : [k EXCEPT !.said = q, !.on = o] \in CommandStates
  BY <1>1, <1>2
<1>11. \A v \in N, o \in I : [k EXCEPT !.sev = v, !.on = o] \in CommandStates BY <1>2
<1>12. \A d \in Paths, p \in Points : [k EXCEPT !.cand = d, !.pc = p] \in CommandStates
  BY <1>2
<1>13. \A p \in Points, d \in Paths, v \in N, U \in S :
         [k EXCEPT !.pc = p, !.cand = d, !.sev = v, !.up = U] \in CommandStates
  BY <1>2
<1> USE DEF B, S, I, J, N
<1> QED
  BY ONLY <1>3, <1>4, <1>5, <1>6, <1>7, <1>8, <1>9, <1>10, <1>11, <1>12, <1>13, Zenon

LEMMA IdleTyped == Idle \in CommandStates
<1> DEFINE S == SUBSET Procs
           O == Ops \cup {"none"}
           L == Lifecycles \cup {"none"}
           V == Verdicts \cup {"none"}
           R == Reports \cup {"none"}
           I == 0..MaxInstances
           J == -1..MaxInstances
           N == 0..3
<1>1. /\ "idle" \in Points /\ 1 \in Paths /\ 0 \in N /\ 0 \in I /\ "none" \in L
      /\ FALSE \in BOOLEAN /\ "none" \in R /\ "none" \in O /\ "none" \in V /\ {} \in S
      /\ -1 \in J
  BY HostAssumption DEF Points, Paths
<1>2. CommandStates =
        [op : O, pc : Points, cand : Paths, sev : N, on : I, child : I, life : L,
         direct : BOOLEAN, said : V, up : S, base : J, out : R]
  BY DEF CommandStates
<1> HIDE DEF S, O, L, V, R, I, J, N
<1> QED BY <1>1, <1>2, Zenon DEF Idle

LEMMA FinishTyped ==
    ASSUME NEW k \in CommandStates, NEW f \in Reports
    PROVE  /\ Finish(k, f) \in CommandStates
           /\ Finish(k, f).pc = "done" /\ Finish(k, f).op = k.op
           /\ Finish(k, f).said = k.said /\ Finish(k, f).up = k.up
           /\ Finish(k, f).child = k.child /\ Finish(k, f).base = k.base
<1> DEFINE S == SUBSET Procs
           B == BOOLEAN
           O == Ops \cup {"none"}
           L == Lifecycles \cup {"none"}
           V == Verdicts \cup {"none"}
           R == Reports \cup {"none"}
           I == 0..MaxInstances
           J == -1..MaxInstances
           N == 0..3
<1>1. "done" \in Points /\ f \in R BY DEF Points
<1>2. CommandStates =
        [op : O, pc : Points, cand : Paths, sev : N, on : I, child : I, life : L,
         direct : B, said : V, up : S, base : J, out : R]
  BY DEF CommandStates
<1> HIDE DEF S, B, O, L, V, R, I, J, N
<1>3. Idle \in CommandStates BY IdleTyped
<1> QED BY <1>1, <1>2, <1>3 DEF Finish

-----------------------------------------------------------------------------
(* What a command knows after each way of going on.                            *)

KnowsNow(k) == Knows(k, inst, born, crowded, unit, reg)
Sees(k) == Named(k, inst) /\ Honest(k, inst, crowded) /\ Based(k, inst, born)

LEMMA KnowsSees ==
    ASSUME NEW k, KnowsNow(k) PROVE Sees(k) /\ Spoken(k) /\ Placed(k)
BY DEF KnowsNow, Knows, Sees

LEMMA FinishKnows ==
    ASSUME Inv, NEW k \in CommandStates, NEW f \in Reports, Sees(k)
    PROVE  Finish(k, f) \in CommandStates /\ KnowsNow(Finish(k, f))
<1> DEFINE r == Finish(k, f)
<1>1. /\ r \in CommandStates /\ r.pc = "done" /\ r.said = k.said /\ r.up = k.up
      /\ r.child = k.child /\ r.base = k.base
  BY FinishTyped
<1>2. born \in Nat BY InvFacts
<1> HIDE DEF r
<1>3. Spoken(r) /\ Placed(r) BY <1>1 DEF Spoken, Placed, Asking
<1>4. r.pc \notin Asking /\ r.pc \notin Fresh /\ r.pc \notin Driven /\ r.pc # "reobserve"
  BY <1>1 DEF Asking, Fresh, Driven
<1>5. KnowsNow(r) BY <1>1, <1>2, <1>3, <1>4, KnowledgeMoves DEF Sees, KnowsNow
<1> QED BY <1>1, <1>5 DEF r

LEMMA PointKnows ==
    ASSUME Inv, NEW k \in CommandStates, NEW p \in Points, NEW r \in CommandStates,
           r.pc = p, r.op = k.op, r.said = k.said, r.up = k.up, r.child = k.child,
           r.base = k.base,
           KnowsNow(k), p \notin Asking, p # "reobserve",
           p \in Fresh => k.base = -1,
           p \in Driven /\ k.base >= 0 => k.base < born,
           k.said = "none" \/ p \in {"absent", "again", "spawn", "ready", "delete", "done"},
           p = "route" => k.op \in {"restart", "update"},
           p \in {"observe", "replace"} => k.op = "update" /\ k.child = 0,
           p = "discover" => k.op = "uninstall",
           p = "ready" => k.child # 0
    PROVE  KnowsNow(r)
<1>1. Sees(k) BY KnowsSees
<1>2. born \in Nat BY InvFacts
<1>3. Spoken(r) /\ Placed(r) BY DEF Spoken, Placed
<1> QED BY <1>1, <1>2, <1>3, KnowledgeMoves DEF Sees, KnowsNow

(* The plain move to a point.                                                 *)
LEMMA GotoKnows ==
    ASSUME Inv, NEW k \in CommandStates, NEW p \in Points, KnowsNow(k),
           p \notin Asking, p \notin {"reobserve", "ready"},
           p \in Fresh => k.base = -1,
           p \in Driven /\ k.base >= 0 => k.base < born,
           k.said = "none" \/ p \in {"absent", "again", "spawn", "ready", "delete", "done"},
           p = "route" => k.op \in {"restart", "update"},
           p \in {"observe", "replace"} => k.op = "update" /\ k.child = 0,
           p = "discover" => k.op = "uninstall"
    PROVE  [k EXCEPT !.pc = p] \in CommandStates /\ KnowsNow([k EXCEPT !.pc = p])
<1> DEFINE r == [k EXCEPT !.pc = p]
<1>1. /\ r.pc = p /\ r.op = k.op /\ r.said = k.said /\ r.up = k.up /\ r.child = k.child
      /\ r.base = k.base
  BY DEF CommandStates
<1>2. r \in CommandStates BY CommandUpdates
<1> HIDE DEF r
<1>3. KnowsNow(r) BY <1>1, <1>2, PointKnows
<1> QED BY <1>2, <1>3 DEF r

(* The start of a search.                                                     *)
LEMMA DialKnows ==
    ASSUME Inv, NEW k \in CommandStates, NEW r \in CommandStates,
           r.pc = "dial", r.cand = 1, r.sev = 0, r.up = Listening,
           r.op = k.op, r.said = k.said, r.child = k.child, r.base = k.base,
           Based(k, inst, born), k.said = "none", k.base >= 0 => k.base < born,
           k.op \in {"stop", "restart", "update", "uninstall"},
           k.op \in {"restart", "update"} => reg # "foreignSame"
    PROVE  KnowsNow(r)
<1>1. Named(r, inst) BY DEF Named, Listening, Past, Early
<1>2. Spoken(r) /\ Honest(r, inst, crowded) BY DEF Spoken, Honest
<1>3. Searched(r, inst, crowded) BY DEF Searched
<1>4. Based(r, inst, born) BY DEF Based, Fresh
<1>5. Apart(r, unit, reg) BY DEF Apart
<1>6. Placed(r) BY DEF Placed
<1> QED BY <1>1, <1>2, <1>3, <1>4, <1>5, <1>6 DEF KnowsNow, Knows

LEMMA DiallingTyped ==
    ASSUME NEW k \in CommandStates
    PROVE  /\ Dialling(k) \in CommandStates
           /\ [Dialling(k) EXCEPT !.direct = TRUE] \in CommandStates
           /\ \A r \in {Dialling(k), [Dialling(k) EXCEPT !.direct = TRUE]} :
                 /\ r.pc = "dial" /\ r.cand = 1 /\ r.sev = 0 /\ r.up = Listening
                 /\ r.op = k.op /\ r.said = k.said /\ r.child = k.child /\ r.base = k.base
<1> DEFINE r == [k EXCEPT !.pc = "dial", !.cand = 1, !.sev = 0, !.up = Listening]
           r2 == [r EXCEPT !.direct = TRUE]
<1>1. r \in CommandStates
  <2>1. /\ "dial" \in Points /\ 1 \in Paths /\ 0 \in 0..3 /\ Listening \in SUBSET Procs
    BY DEF Points, Paths, Listening
  <2> QED BY <2>1, CommandUpdates
<1>2. /\ r.pc = "dial" /\ r.cand = 1 /\ r.sev = 0 /\ r.up = Listening
      /\ r.op = k.op /\ r.said = k.said /\ r.child = k.child /\ r.base = k.base
  BY DEF CommandStates
<1>3. Dialling(k) = r BY DEF Dialling
<1> HIDE DEF r
<1>4. r2 \in CommandStates BY <1>1, CommandUpdates
<1>5. /\ r2.pc = "dial" /\ r2.cand = 1 /\ r2.sev = 0 /\ r2.up = Listening
      /\ r2.op = k.op /\ r2.said = k.said /\ r2.child = k.child /\ r2.base = k.base
  BY <1>1, <1>2 DEF CommandStates
<1>6. [Dialling(k) EXCEPT !.direct = TRUE] = r2 BY <1>3
<1> HIDE DEF r2
<1> QED BY <1>1, <1>2, <1>3, <1>4, <1>5, <1>6

(* send_stop has its verdict.                                                 *)
LEMMA ConcludedKnows ==
    ASSUME Inv, NEW k \in CommandStates, NEW said \in Verdicts,
           Named(k, inst), Based(k, inst, born), k.pc \in Asking, Placed(k),
           said = "absent" => \A i \in k.up : Listens(inst[i]) => i \in crowded
    PROVE  Concluded(k, said) \in CommandStates /\ KnowsNow(Concluded(k, said))
<1> DEFINE told == [k EXCEPT !.said = said, !.on = 0]
<1>1. told \in CommandStates
  <2>1. 0 \in 0..MaxInstances BY HostAssumption
  <2> QED BY <2>1, CommandUpdates
<1>2. /\ told.said = said /\ told.pc = k.pc /\ told.op = k.op /\ told.up = k.up
      /\ told.child = k.child /\ told.base = k.base
  BY DEF CommandStates
<1>3. Concluded(k, said) =
        CASE k.op = "stop" -> Finish(told, said)
          [] k.op \in {"restart", "update"} ->
                IF said \in {"stopped", "absent"} THEN [told EXCEPT !.pc = "absent"]
                ELSE Finish(told, "refused")
          [] k.op = "uninstall" ->
                CASE said = "stopped" -> [told EXCEPT !.pc = "absent"]
                  [] said = "absent"  -> [told EXCEPT !.pc = "delete"]
                  [] OTHER            -> Finish(told, "refused")
  BY DEF Concluded
<1> HIDE DEF told
<1>4. Sees(told) BY <1>2 DEF Sees, Named, Honest, Based
<1>5. ASSUME NEW f \in Reports
      PROVE  Finish(told, f) \in CommandStates /\ KnowsNow(Finish(told, f))
  BY <1>1, <1>4, FinishKnows
<1>6. ASSUME NEW p \in {"absent", "delete"}
      PROVE  [told EXCEPT !.pc = p] \in CommandStates /\ KnowsNow([told EXCEPT !.pc = p])
  <2> DEFINE r == [told EXCEPT !.pc = p]
  <2>1. r \in CommandStates
    <3>1. p \in Points BY DEF Points
    <3> QED BY <1>1, <3>1, CommandUpdates
  <2>2. /\ r.pc = p /\ r.said = told.said /\ r.op = told.op /\ r.up = told.up
        /\ r.child = told.child /\ r.base = told.base
    BY <1>1 DEF CommandStates
  <2> HIDE DEF r
  <2>3. Spoken(r) /\ Placed(r) BY <2>2 DEF Spoken, Placed, Asking
  <2>4. k.base >= 0 => k.base < born BY DEF Based, Asking, Driven
  <2>5. r.pc \notin Asking /\ r.pc # "reobserve" /\ r.pc \notin Fresh
    BY <2>2 DEF Asking, Fresh
  <2>6. born \in Nat BY InvFacts
  <2>7. KnowsNow(r)
    BY <1>1, <1>2, <1>4, <2>1, <2>2, <2>3, <2>4, <2>5, <2>6, KnowledgeMoves DEF Sees, KnowsNow
  <2> QED BY <2>1, <2>7 DEF r
<1>7. k.op \in {"stop", "restart", "update", "uninstall"} BY DEF Placed
<1>8. said \in Reports /\ "refused" \in Reports BY DEF Reports
<1>9. CASE k.op = "stop"
  <2>1. Concluded(k, said) = Finish(told, said) BY <1>3, <1>9
  <2> QED BY <1>5, <1>8, <2>1
<1>10. CASE k.op \in {"restart", "update"}
  <2>1. \/ Concluded(k, said) = [told EXCEPT !.pc = "absent"]
        \/ Concluded(k, said) = Finish(told, "refused")
    BY <1>3, <1>10
  <2> QED BY <1>5, <1>6, <1>8, <2>1
<1>11. CASE k.op = "uninstall"
  <2>1. \/ Concluded(k, said) = [told EXCEPT !.pc = "absent"]
        \/ Concluded(k, said) = [told EXCEPT !.pc = "delete"]
        \/ Concluded(k, said) = Finish(told, "refused")
    BY <1>3, <1>11
  <2> QED BY <1>5, <1>6, <1>8, <2>1
<1> QED BY <1>7, <1>9, <1>10, <1>11

(* A candidate gave no answer.  When its path was missing or refused, no       *)
(* daemon that is alone listens there.                                       *)
LEMMA MissedKnows ==
    ASSUME Inv, NEW k \in CommandStates, KnowsNow(k), k.pc \in Asking, NEW severity \in 1..3,
           severity = 1 =>
              \A i \in k.up : Listens(inst[i]) /\ i \notin crowded => inst[i].at # k.cand
    PROVE  Missed(k, severity) \in CommandStates /\ KnowsNow(Missed(k, severity))
<1> DEFINE sev == RecordStopError(k.sev, severity)
           kept == [k EXCEPT !.sev = sev, !.on = 0]
<1>1. Named(k, inst) /\ Spoken(k) /\ Searched(k, inst, crowded) /\ Based(k, inst, born)
      /\ Apart(k, unit, reg) /\ Placed(k)
  BY DEF KnowsNow, Knows
<1>2. k.sev \in 0..3 /\ k.cand \in Paths /\ k.up \subseteq Procs BY CommandFields
<1>3. k.said = "none" BY <1>1 DEF Spoken, Asking
<1>4. sev \in 1..3 /\ (sev = 1 => severity = 1 /\ k.sev <= 1) BY <1>2 DEF RecordStopError
<1>5. kept \in CommandStates
  <2>1. 0 \in 0..MaxInstances /\ sev \in 0..3 BY <1>4, HostAssumption
  <2> HIDE DEF sev
  <2> QED BY <2>1, CommandUpdates
<1>6. /\ kept.sev = sev /\ kept.pc = k.pc /\ kept.op = k.op /\ kept.up = k.up
      /\ kept.child = k.child /\ kept.base = k.base /\ kept.said = k.said
      /\ kept.cand = k.cand
  BY DEF CommandStates
<1>7. Missed(k, severity) =
        IF k.cand = 1 THEN [kept EXCEPT !.cand = 2, !.pc = "dial"]
        ELSE Concluded(kept, CASE sev = 1 -> "absent" [] sev = 2 -> "uncertain"
                               [] sev = 3 -> "denied")
  BY DEF Missed
<1> HIDE DEF kept, sev
<1>8. ASSUME NEW i \in k.up, sev = 1, Listens(inst[i]), i \notin crowded
      PROVE  inst[i].at \in Paths /\ inst[i].at # k.cand /\ (k.cand = 2 => inst[i].at = 2)
  <2>1. inst[i].at \in Paths BY <1>2, InvFacts, ProcFields
  <2>2. k.cand = 2 => k.sev = 1 BY <1>1, <1>2, <1>4, <1>8 DEF Searched
  <2> QED BY <1>1, <1>4, <1>8, <2>1, <2>2 DEF Searched
<1>9. CASE k.cand = 1
  <2> DEFINE r == [kept EXCEPT !.cand = 2, !.pc = "dial"]
  <2>1. r \in CommandStates
    <3>1. 2 \in Paths /\ "dial" \in Points BY DEF Paths, Points
    <3> QED BY <1>5, <3>1, CommandUpdates
  <2>2. /\ r.pc = "dial" /\ r.cand = 2 /\ r.sev = sev /\ r.op = k.op /\ r.up = k.up
        /\ r.child = k.child /\ r.base = k.base /\ r.said = "none"
    BY <1>3, <1>5, <1>6 DEF CommandStates
  <2> HIDE DEF r
  <2>3. Named(r, inst) /\ Spoken(r) /\ Honest(r, inst, crowded)
    BY <1>1, <2>2 DEF Named, Spoken, Honest
  <2>4. Searched(r, inst, crowded)
    <3>1. sev > 0 BY <1>4
    <3>2. ASSUME NEW i \in k.up, sev = 1, Listens(inst[i]), i \notin crowded
          PROVE  inst[i].at = 2
      BY <1>8, <1>9, <3>2 DEF Paths
    <3> QED BY <2>2, <3>1, <3>2 DEF Searched
  <2>5. Based(r, inst, born) BY <1>1, <2>2 DEF Based, Asking, Driven, Fresh
  <2>6. Apart(r, unit, reg) BY <1>1, <2>2 DEF Apart, Asking
  <2>7. Placed(r) BY <1>1, <2>2 DEF Placed, Asking
  <2>8. KnowsNow(r) BY <2>3, <2>4, <2>5, <2>6, <2>7 DEF KnowsNow, Knows
  <2> QED BY <1>7, <1>9, <2>1, <2>8 DEF r
<1>10. CASE k.cand = 2
  <2> DEFINE said == CASE sev = 1 -> "absent" [] sev = 2 -> "uncertain" [] sev = 3 -> "denied"
  <2>1. said \in Verdicts /\ (said = "absent" => sev = 1) BY <1>4 DEF Verdicts
  <2>2. Missed(k, severity) = Concluded(kept, said) BY <1>7, <1>10
  <2> HIDE DEF said
  <2>3. said = "absent" => \A i \in kept.up : Listens(inst[i]) => i \in crowded
    BY <1>6, <1>8, <1>10, <2>1
  <2>4. Named(kept, inst) /\ Placed(kept) BY <1>1, <1>6 DEF Named, Placed
  <2>5. Based(kept, inst, born) BY <1>1, <1>6 DEF Based
  <2> QED BY <1>5, <1>6, <2>1, <2>2, <2>3, <2>4, <2>5, ConcludedKnows
<1> QED BY <1>2, <1>9, <1>10 DEF Paths

-----------------------------------------------------------------------------
(* The steps of commands: send_stop.                                           *)

(* A path that names no listener is not that of a daemon that is alone.        *)
LEMMA DialKeeps ==
    ASSUME Inv, NEW c \in Clients, Dial(c) PROVE Inv'
<1> DEFINE k == cmd[c]
           holder == ctl[k.cand]
           heard == holder # 0 /\ inst[holder].ear
<1>1. /\ k \in CommandStates /\ KnowsNow(k) /\ PathKept /\ HostInv
      /\ \A i \in Procs : inst[i] \in ProcStates
      /\ inst \in [Procs -> ProcStates]
      /\ ctl \in [Paths -> 0..MaxInstances] /\ faults \in 0..MaxFaults /\ disk \in BOOLEAN
  BY InvFacts DEF KnowsNow
<1>2. k.cand \in Paths /\ k.up \subseteq Procs BY <1>1, CommandFields
<1>3. k.pc = "dial" /\ UNCHANGED <<ctl, port, born, disk, reg, unit, faults, crowded>>
  BY DEF Dial
<1>4. Typed BY <1>1, <1>3 DEF Typed
<1>5. CASE heard
  <2> DEFINE q == [inst[holder] EXCEPT !.queue = inst[holder].queue \cup {c}]
             r == [k EXCEPT !.pc = "await", !.on = holder]
  <2>1. holder \in Procs /\ holder \in 0..MaxInstances
    BY <1>1, <1>2, <1>5 DEF Procs
  <2>2. q \in ProcStates
    <3>1. inst[holder] \in ProcStates BY <1>1, <2>1
    <3>2. inst[holder].queue \cup {c} \in SUBSET Clients BY <3>1, ProcFields
    <3> QED BY <3>1, <3>2, ProcUpdates DEF Phases, Codes, Paths
  <2>3. /\ q.pc = inst[holder].pc /\ q.at = inst[holder].at /\ q.server = inst[holder].server
        /\ q.code = inst[holder].code /\ q.ear = inst[holder].ear
        /\ q.told = inst[holder].told
    BY <1>1, <2>1 DEF ProcStates
  <2>4. inst' = [inst EXCEPT ![holder] = q] /\ cmd' = [cmd EXCEPT ![c] = r]
    BY <1>5 DEF Dial
  <2>5. r \in CommandStates
    <3>1. "await" \in Points BY DEF Points
    <3> QED BY <1>1, <2>1, <3>1, CommandUpdates
  <2>6. /\ r.pc = "await" /\ r.op = k.op /\ r.said = k.said /\ r.up = k.up
        /\ r.child = k.child /\ r.base = k.base /\ r.cand = k.cand /\ r.sev = k.sev
    BY <1>1 DEF CommandStates
  <2> HIDE DEF q, r
  <2>7. HostInv' /\ Evolves(inst, inst', born, born', crowded, crowded')
    <3> HIDE DEF holder
    <3> QED BY <1>3, <2>1, <2>2, <2>3, <2>4, EarStep
  <2>8. KnowsNow(r)
    <3> USE DEF KnowsNow, Knows
    <3> HIDE DEF k, holder
    <3>1. Named(r, inst) BY <1>1, <2>6 DEF Named
    <3>2. Spoken(r) BY <1>1, <1>3, <2>6 DEF Spoken
    <3>3. Searched(r, inst, crowded) BY <1>1, <1>3, <2>6 DEF Searched, Asking
    <3>4. Honest(r, inst, crowded) BY <1>1, <2>6 DEF Honest
    <3>5. Based(r, inst, born) BY <1>1, <1>3, <2>6 DEF Based, Fresh, Driven
    <3>6. Apart(r, unit, reg) BY <1>1, <1>3, <2>6 DEF Apart, Asking
    <3>7. Placed(r) BY <1>1, <1>3, <2>6 DEF Placed, Asking
    <3> QED BY <3>1, <3>2, <3>3, <3>4, <3>5, <3>6, <3>7
  <2>9. UnitMoves(inst, unit, unit', reg, reg') BY <1>3 DEF UnitMoves
  <2> QED BY <1>4, <2>4, <2>5, <2>7, <2>8, <2>9, CommandWorldStep DEF KnowsNow
<1>6. CASE ~heard
  <2>1. cmd' = [cmd EXCEPT ![c] = Missed(k, 1)] /\ inst' = inst BY <1>6 DEF Dial
  <2>2. ASSUME NEW i \in k.up, Listens(inst[i]), i \notin crowded
        PROVE  inst[i].at # k.cand
    <3>1. i \in Procs /\ inst[i].pc \in {"port", "running"} /\ inst[i].ear
      BY <1>2, <2>2 DEF Listens
    <3>2. ctl[inst[i].at] = i /\ i # 0 BY <1>1, <2>2, <3>1 DEF PathKept, Procs
    <3> QED BY <1>6, <3>1, <3>2
  <2> HIDE DEF k
  <2>3. Missed(k, 1) \in CommandStates /\ KnowsNow(Missed(k, 1))
    BY <1>1, <1>3, <2>2, MissedKnows DEF Asking
  <2> QED BY <1>3, <1>4, <2>1, <2>3, CommandStep DEF KnowsNow
<1> QED BY <1>5, <1>6

LEMMA FailuresKeep ==
    ASSUME Inv, NEW c \in Clients, DialFails(c) \/ AwaitFails(c) PROVE Inv'
<1>1. /\ cmd[c] \in CommandStates /\ KnowsNow(cmd[c])
      /\ faults \in 0..MaxFaults /\ disk \in BOOLEAN
  BY InvFacts DEF KnowsNow
<1>2. UNCHANGED <<ctl, port, inst, born, disk, reg, unit, crowded>> /\ cmd[c].pc \in Asking
  BY DEF DialFails, AwaitFails, Asking
<1>3. Typed BY <1>1, Fault DEF DialFails, AwaitFails, Typed
<1>4. PICK severity \in {2, 3} : cmd' = [cmd EXCEPT ![c] = Missed(cmd[c], severity)]
  BY DEF DialFails, AwaitFails
<1>5. severity \in 1..3 /\ severity # 1 OBVIOUS
<1>6. Missed(cmd[c], severity) \in CommandStates /\ KnowsNow(Missed(cmd[c], severity))
  BY <1>1, <1>2, <1>5, MissedKnows
<1> QED BY <1>2, <1>3, <1>4, <1>6, CommandStep DEF KnowsNow

LEMMA StopLoopKeeps ==
    ASSUME Inv, NEW i \in Procs, StopLoop(i) PROVE Inv'
<1> DEFINE q == [inst[i] EXCEPT !.ear = FALSE, !.queue = {}, !.told = TRUE]
<1>1. inst[i] \in ProcStates /\ inst \in [Procs -> ProcStates] /\ HostInv
      /\ faults \in 0..MaxFaults /\ disk \in BOOLEAN
  BY InvFacts
<1>2. UNCHANGED <<ctl, port, born, disk, reg, unit, faults, crowded>> BY DEF StopLoop
<1>3. Typed BY <1>1, <1>2 DEF Typed
<1>4. q \in ProcStates BY <1>1, ProcUpdates DEF Phases, Codes, Paths
<1>5. /\ q.pc = inst[i].pc /\ q.at = inst[i].at /\ q.server = inst[i].server
      /\ q.code = inst[i].code /\ q.ear = FALSE /\ q.told = TRUE
  BY <1>1 DEF ProcStates
<1>6. inst' = [inst EXCEPT ![i] = q] BY <1>1 DEF StopLoop
<1> HIDE DEF q
<1>7. HostInv' /\ Evolves(inst, inst', born, born', crowded, crowded')
  BY <1>2, <1>4, <1>5, <1>6, EarStep
<1>8. PICK c \in inst[i].queue :
        cmd' = IF cmd[c].pc = "await" /\ cmd[c].on = i
               THEN [cmd EXCEPT ![c] = Concluded(cmd[c], "stopped")] ELSE cmd
  BY DEF StopLoop
<1>9. c \in Clients BY <1>1, ProcFields
<1>10. UnitMoves(inst, unit, unit', reg, reg') BY <1>2 DEF UnitMoves
<1>11. CASE cmd[c].pc = "await" /\ cmd[c].on = i
  <2>1. cmd[c] \in CommandStates /\ KnowsNow(cmd[c]) BY <1>9, InvFacts DEF KnowsNow
  <2>2. Concluded(cmd[c], "stopped") \in CommandStates
        /\ KnowsNow(Concluded(cmd[c], "stopped"))
    <3>1. "stopped" \in Verdicts BY DEF Verdicts
    <3>2. Named(cmd[c], inst) /\ Based(cmd[c], inst, born) /\ Placed(cmd[c])
      BY <2>1 DEF KnowsNow, Knows
    <3>3. cmd[c].pc \in Asking BY <1>11 DEF Asking
    <3> QED BY <2>1, <3>1, <3>2, <3>3, ConcludedKnows
  <2>3. cmd' = [cmd EXCEPT ![c] = Concluded(cmd[c], "stopped")] BY <1>8, <1>11
  <2> QED BY <1>3, <1>7, <1>9, <1>10, <2>2, <2>3, CommandWorldStep DEF KnowsNow
<1>12. CASE ~(cmd[c].pc = "await" /\ cmd[c].on = i)
  <2>1. cmd' = cmd BY <1>8, <1>12
  <2> QED BY <1>3, <1>7, <1>10, <2>1, WorldStep
<1> QED BY <1>11, <1>12

-----------------------------------------------------------------------------
(* The other steps of commands.                                               *)

LEMMA CommandFacts ==
    ASSUME Inv, NEW c \in Clients
    PROVE  /\ cmd[c] \in CommandStates /\ KnowsNow(cmd[c]) /\ Sees(cmd[c])
           /\ Spoken(cmd[c]) /\ Placed(cmd[c])
           /\ faults \in 0..MaxFaults /\ disk \in BOOLEAN /\ born \in Nat
<1>1. cmd[c] \in CommandStates /\ KnowsNow(cmd[c]) BY InvFacts DEF KnowsNow
<1> QED BY <1>1, KnowsSees, InvFacts

(* A command that finishes, or goes on to another point.                       *)
LEMMA FinishStep ==
    ASSUME Inv, NEW c \in Clients, NEW f \in Reports, cmd' = [cmd EXCEPT ![c] = Finish(cmd[c], f)],
           UNCHANGED <<ctl, port, inst, born, reg, unit, faults, crowded>>, disk' \in BOOLEAN
    PROVE  Inv'
<1>1. Typed BY CommandFacts DEF Typed
<1>2. Finish(cmd[c], f) \in CommandStates /\ KnowsNow(Finish(cmd[c], f))
  BY CommandFacts, FinishKnows
<1> QED BY <1>1, <1>2, CommandStep DEF KnowsNow

LEMMA GotoStep ==
    ASSUME Inv, NEW c \in Clients, NEW p \in Points,
           cmd' = [cmd EXCEPT ![c] = [cmd[c] EXCEPT !.pc = p]],
           UNCHANGED <<ctl, port, inst, born, disk, reg, unit, faults, crowded>>,
           p \in {"again", "spawn", "delete", "bounce"},
           p = "delete" \/ cmd[c].pc \in Driven \cup {"check"},
           p = "bounce" => cmd[c].pc \in {"route", "check"}
    PROVE  Inv'
<1>1. Typed BY CommandFacts DEF Typed
<1>2. cmd[c] \in CommandStates /\ KnowsNow(cmd[c]) /\ Spoken(cmd[c]) /\ Sees(cmd[c])
  BY CommandFacts
<1>3. p \in Driven /\ cmd[c].base >= 0 => cmd[c].base < born
  BY <1>2 DEF Sees, Based, Fresh, Driven
<1>4. cmd[c].said = "none" \/ p \in {"absent", "again", "spawn", "ready", "delete", "done"}
  BY <1>2 DEF Spoken
<1>5. p \notin Asking /\ p \notin Fresh BY DEF Asking, Fresh
<1>6. /\ [cmd[c] EXCEPT !.pc = p] \in CommandStates
      /\ KnowsNow([cmd[c] EXCEPT !.pc = p])
  BY <1>2, <1>3, <1>4, <1>5, GotoKnows
<1> QED BY <1>1, <1>6, CommandStep DEF KnowsNow

LEMMA ProbesKeep ==
    ASSUME Inv, NEW c \in Clients,
           AwaitAbsence(c) \/ ProbeAgain(c) \/ Croncheck(c) \/ Gate(c) \/ Delete(c)
    PROVE  Inv'
<1>1. disk' \in BOOLEAN
  BY CommandFacts DEF AwaitAbsence, ProbeAgain, Croncheck, Gate, Delete
<1>2. UNCHANGED <<ctl, port, inst, born, reg, unit, faults, crowded>>
  BY DEF AwaitAbsence, ProbeAgain, Croncheck, Gate, Delete
<1>3. ASSUME NEW f \in {"refused", "ok", "failed", "removed"},
             cmd' = [cmd EXCEPT ![c] = Finish(cmd[c], f)]
      PROVE  Inv'
  <2>1. f \in Reports BY DEF Reports
  <2> QED BY <1>1, <1>2, <1>3, <2>1, FinishStep
<1>4. ASSUME NEW p \in {"again", "spawn", "delete"}, UNCHANGED disk,
             cmd' = [cmd EXCEPT ![c] = [cmd[c] EXCEPT !.pc = p]],
             p = "delete" \/ cmd[c].pc \in {"absent", "again", "check"}
      PROVE  Inv'
  <2>1. p \in Points /\ (p = "delete" \/ cmd[c].pc \in Driven \cup {"check"})
    BY <1>4 DEF Points, Driven
  <2> QED BY <1>2, <1>4, <2>1, GotoStep
<1>5. CASE AwaitAbsence(c)
  <2>1. \/ cmd' = [cmd EXCEPT ![c] = Finish(cmd[c], "refused")]
        \/ cmd' = [cmd EXCEPT ![c] = [cmd[c] EXCEPT !.pc = "delete"]]
        \/ cmd' = [cmd EXCEPT ![c] = [cmd[c] EXCEPT !.pc = "again"]]
    BY <1>5 DEF AwaitAbsence
  <2> QED BY <1>3, <1>4, <1>5, <2>1 DEF AwaitAbsence
<1>6. CASE ProbeAgain(c)
  <2>1. \/ cmd' = [cmd EXCEPT ![c] = Finish(cmd[c], "refused")]
        \/ cmd' = [cmd EXCEPT ![c] = [cmd[c] EXCEPT !.pc = "spawn"]]
    BY <1>6 DEF ProbeAgain
  <2> QED BY <1>3, <1>4, <1>6, <2>1 DEF ProbeAgain
<1>7. CASE Croncheck(c)
  <2>1. \/ cmd' = [cmd EXCEPT ![c] = Finish(cmd[c], "ok")]
        \/ cmd' = [cmd EXCEPT ![c] = Finish(cmd[c], "failed")]
        \/ cmd' = [cmd EXCEPT ![c] = [cmd[c] EXCEPT !.pc = "spawn"]]
    <3>1. Probe \subseteq {"running", "absent", "ambiguous"} BY DEF Probe
    <3> QED BY <1>7, <3>1 DEF Croncheck
  <2> QED BY <1>3, <1>4, <1>7, <2>1 DEF Croncheck
<1>8. CASE Gate(c)
  <2>1. \/ cmd' = [cmd EXCEPT ![c] = Finish(cmd[c], "refused")]
        \/ cmd' = [cmd EXCEPT ![c] = [cmd[c] EXCEPT !.pc = "delete"]]
    BY <1>8 DEF Gate
  <2> QED BY <1>3, <1>4, <1>8, <2>1 DEF Gate
<1>9. CASE Delete(c) BY <1>3, <1>9 DEF Delete
<1> QED BY <1>5, <1>6, <1>7, <1>8, <1>9

(* restart: only a registration that is absent or another's is passed by.       *)
LEMMA ChooseRouteKeeps ==
    ASSUME Inv, NEW c \in Clients, ChooseRoute(c) PROVE Inv'
<1> DEFINE k == cmd[c]
           d == [Dialling(k) EXCEPT !.direct = TRUE]
<1>1. /\ k \in CommandStates /\ KnowsNow(k) /\ Sees(k) /\ Spoken(k) /\ Placed(k)
      /\ disk \in BOOLEAN
  BY CommandFacts
<1>2. k.pc = "route" /\ UNCHANGED <<ctl, port, inst, born, disk, reg, unit, faults, crowded>>
  BY DEF ChooseRoute
<1>3. Typed BY <1>2, CommandFacts DEF Typed
<1>4. CASE RestartRoute(reg) = "bounce"
  <2>1. cmd' = [cmd EXCEPT ![c] = [k EXCEPT !.pc = "bounce"]] BY <1>4 DEF ChooseRoute
  <2>2. "bounce" \in Points /\ k.pc \in Driven BY <1>2 DEF Points, Driven
  <2> QED BY <1>2, <2>1, <2>2, GotoStep
<1>5. CASE RestartRoute(reg) = "dial"
  <2>1. cmd' = [cmd EXCEPT ![c] = d] BY <1>5 DEF ChooseRoute
  <2>2. reg # "foreignSame" BY <1>5 DEF RestartRoute
  <2>3. d \in CommandStates
        /\ d.pc = "dial" /\ d.cand = 1 /\ d.sev = 0 /\ d.up = Listening
        /\ d.op = k.op /\ d.said = k.said /\ d.child = k.child /\ d.base = k.base
    BY <1>1, DiallingTyped
  <2> HIDE DEF d
  <2>4. k.said = "none" BY <1>1, <1>2 DEF Spoken
  <2>5. k.op \in {"restart", "update"} BY <1>1, <1>2 DEF Placed
  <2>6. Based(k, inst, born) /\ (k.base >= 0 => k.base < born)
    BY <1>1, <1>2 DEF Sees, Based, Driven
  <2>7. KnowsNow(d) BY <1>1, <2>2, <2>3, <2>4, <2>5, <2>6, DialKnows
  <2> QED BY <1>2, <1>3, <2>1, <2>3, <2>7, CommandStep DEF KnowsNow
<1>6. CASE RestartRoute(reg) = "refused"
  <2>1. cmd' = [cmd EXCEPT ![c] = Finish(k, "refused")] BY <1>6 DEF ChooseRoute
  <2>2. "refused" \in Reports BY DEF Reports
  <2> QED BY <1>1, <1>2, <2>1, <2>2, FinishStep
<1> QED BY <1>4, <1>5, <1>6 DEF RestartRoute

(* The update's two looks at the host, and the replacement between them.        *)
LEMMA UpdateKeeps ==
    ASSUME Inv, NEW c \in Clients, Observe(c) \/ Replace(c) \/ RestartAfterUpdate(c)
    PROVE  Inv'
<1> DEFINE k == cmd[c]
<1>1. /\ k \in CommandStates /\ KnowsNow(k) /\ Sees(k) /\ Spoken(k) /\ Placed(k)
      /\ disk \in BOOLEAN /\ born \in Nat
  BY CommandFacts
<1>2. UNCHANGED <<ctl, port, inst, born, disk, reg, unit, faults, crowded>>
      /\ k.pc \in {"observe", "replace", "reobserve"}
  BY DEF Observe, Replace, RestartAfterUpdate
<1>3. Typed BY <1>2, CommandFacts DEF Typed
<1>4. k.said = "none" /\ k.op = "update" BY <1>1, <1>2 DEF Spoken, Placed
<1>5. ASSUME NEW f \in {"refused", "failed", "updated"}, cmd' = [cmd EXCEPT ![c] = Finish(k, f)]
      PROVE  Inv'
  <2>1. f \in Reports BY DEF Reports
  <2> QED BY <1>1, <1>2, <1>5, <2>1, FinishStep
<1>6. CASE Observe(c)
  <2>1. PICK active \in Active(reg), seen \in Probe :
          LET life == DecideUnix(reg, active, seen = "running")
          IN  cmd' = [cmd EXCEPT ![c] = IF life = "refused" THEN Finish(k, "refused")
                                        ELSE [k EXCEPT !.pc = "replace", !.life = life]]
    BY <1>6 DEF Observe
  <2> DEFINE life == DecideUnix(reg, active, seen = "running")
             r == [k EXCEPT !.pc = "replace", !.life = life]
  <2>2. CASE life = "refused"
    <3>1. cmd' = [cmd EXCEPT ![c] = Finish(k, "refused")] BY <2>1, <2>2
    <3> QED BY <1>5, <3>1
  <2>3. CASE life # "refused"
    <3>0. cmd' = [cmd EXCEPT ![c] = r] BY <2>1, <2>3
    <3>1. life \in Lifecycles
      <4>1. reg \in {"none", "own", "foreignSame", "foreignOther", "foreignUnknown", "unknown"}
        BY HostAssumption, InvFacts DEF HostTyped
      <4> QED BY <2>3, <4>1 DEF DecideUnix, Lifecycles
    <3> HIDE DEF life
    <3>2. r \in CommandStates
      <4>1. "replace" \in Points BY DEF Points
      <4> QED BY <1>1, <3>1, <4>1, CommandUpdates
    <3>3. /\ r.pc = "replace" /\ r.op = k.op /\ r.said = k.said /\ r.up = k.up
          /\ r.child = k.child /\ r.base = k.base
      BY <1>1 DEF CommandStates
    <3> HIDE DEF r
    <3>4. k.base = -1 /\ k.child = 0
      BY <1>1, <1>6 DEF Observe, Sees, Based, Fresh, Placed
    <3>5. "replace" \in Points /\ "replace" \notin Asking /\ "replace" \notin Driven
      BY DEF Points, Asking, Driven
    <3>6. KnowsNow(r) BY <1>1, <1>4, <3>2, <3>3, <3>4, <3>5, PointKnows
    <3> QED BY <1>2, <1>3, <3>0, <3>2, <3>6, CommandStep DEF KnowsNow
  <2> QED BY <2>2, <2>3
<1>7. CASE Replace(c)
  <2> DEFINE b == IF Living = {} THEN born ELSE -1
             r == [k EXCEPT !.pc = "reobserve", !.base = b]
  <2>1. CASE ~disk
    <3>1. cmd' = [cmd EXCEPT ![c] = Finish(k, "failed")] BY <1>7, <2>1 DEF Replace
    <3> QED BY <1>5, <3>1
  <2>2. CASE disk
    <3>0. cmd' = [cmd EXCEPT ![c] = r] BY <1>7, <2>2 DEF Replace
    <3>1. b \in -1..MaxInstances /\ (b >= 0 => b = born /\ Living = {})
      <4>1. born \in 0..MaxInstances BY InvFacts DEF HostTyped
      <4> QED BY <4>1, HostAssumption
    <3> HIDE DEF b
    <3>2. r \in CommandStates
      <4>1. "reobserve" \in Points BY DEF Points
      <4> QED BY <1>1, <3>1, <4>1, CommandUpdates
    <3>3. /\ r.pc = "reobserve" /\ r.op = k.op /\ r.said = k.said /\ r.up = k.up
          /\ r.child = k.child /\ r.base = b
      BY <1>1 DEF CommandStates
    <3> HIDE DEF r
    <3>4. Named(r, inst) /\ Spoken(r) /\ Honest(r, inst, crowded)
      BY <1>1, <1>4, <3>3 DEF Sees, Named, Spoken, Honest
    <3>5. Searched(r, inst, crowded) /\ Apart(r, unit, reg)
      BY <3>3 DEF Searched, Apart, Asking
    <3>6. k.child = 0
      BY <1>1, <1>7 DEF Replace, Placed
    <3>7. Based(r, inst, born)
      <4>1. Living = {} => \A i \in Procs : ~Lives(inst[i]) BY LivingProcs
      <4>2. "reobserve" \notin Fresh /\ "reobserve" \notin Driven BY DEF Fresh, Driven
      <4> QED BY <1>1, <3>1, <3>3, <3>6, <4>1, <4>2 DEF Based
    <3>8. Placed(r) BY <1>4, <3>3 DEF Placed, Asking
    <3>9. KnowsNow(r) BY <3>4, <3>5, <3>7, <3>8 DEF KnowsNow, Knows
    <3> QED BY <1>2, <1>3, <3>0, <3>2, <3>9, CommandStep DEF KnowsNow
  <2> QED BY <2>1, <2>2
<1>8. CASE RestartAfterUpdate(c)
  <2>1. PICK seen \in Probe :
          cmd' = [cmd EXCEPT ![c] = IF Running(k.life) /\ seen = "running"
                                    THEN [k EXCEPT !.pc = "route"] ELSE Finish(k, "updated")]
    BY <1>8 DEF RestartAfterUpdate
  <2>2. CASE ~(Running(k.life) /\ seen = "running")
    <3>1. cmd' = [cmd EXCEPT ![c] = Finish(k, "updated")] BY <2>1, <2>2
    <3> QED BY <1>5, <3>1
  <2>3. CASE Running(k.life) /\ seen = "running"
    <3>0. cmd' = [cmd EXCEPT ![c] = [k EXCEPT !.pc = "route"]] BY <2>1, <2>3
    <3>1. port # 0 BY <2>1, <2>3 DEF Probe
    <3>2. port \in Procs /\ Lives(inst[port])
      <4>1. port \in Procs BY <3>1, InvFacts DEF Procs
      <4>2. inst[port].server /\ inst[port].pc \in {"running", "joining", "guard", "exit"}
        BY <4>1, InvFacts DEF PortHeld
      <4> QED BY <4>1, <4>2 DEF Lives
    <3>3. k.base >= 0 => k.base < born
      <4>1. k.base \in -1..MaxInstances BY <1>1, CommandFields
      <4>2. k.base >= 0 => k.base <= born /\ k.base # born
        BY <1>1, <1>8, <3>2 DEF Sees, Based, RestartAfterUpdate
      <4> QED BY <1>1, <4>1, <4>2
    <3>4. "route" \in Points /\ "route" \notin Asking /\ "route" \notin Fresh
      BY DEF Points, Asking, Fresh
    <3>5. [k EXCEPT !.pc = "route"] \in CommandStates /\ KnowsNow([k EXCEPT !.pc = "route"])
      <4> HIDE DEF k
      <4> QED BY <1>1, <1>4, <3>3, <3>4, GotoKnows
    <3> QED BY <1>2, <1>3, <3>0, <3>5, CommandStep DEF KnowsNow
  <2> QED BY <2>2, <2>3
<1> QED BY <1>6, <1>7, <1>8

LEMMA DiscoverKeeps ==
    ASSUME Inv, NEW c \in Clients, Discover(c) PROVE Inv'
<1> DEFINE k == cmd[c]
<1>1. /\ k \in CommandStates /\ KnowsNow(k) /\ Sees(k) /\ Spoken(k) /\ Placed(k)
      /\ disk \in BOOLEAN /\ born \in Nat
  BY CommandFacts
<1>2. UNCHANGED <<ctl, port, inst, born, disk, reg, unit, faults, crowded>>
      /\ k.pc = "discover"
  BY DEF Discover
<1>3. Typed BY <1>2, CommandFacts DEF Typed
<1>4. k.said = "none" /\ k.op = "uninstall" /\ k.base = -1
  BY <1>1, <1>2 DEF Spoken, Placed, Sees, Based, Fresh
<1>5. PICK active \in Active(reg), seen \in Probe :
        LET running == seen = "running"
            explained == active /\ reg \in {"own", "foreignSame"}
            unknown == active /\ reg = "unknown"
            direct == running /\ ~explained /\ ~unknown
            planned == [k EXCEPT !.direct = direct]
        IN  cmd' = [cmd EXCEPT ![c] =
                       CASE running /\ unknown -> Finish(k, "refused")
                         [] reg = "own" -> [planned EXCEPT !.pc = "bounce"]
                         [] direct /\ reg # "own" -> Dialling(planned)
                         [] OTHER -> [planned EXCEPT !.pc = "gate"]]
  BY <1>2 DEF Discover
<1> DEFINE running == seen = "running"
           explained == active /\ reg \in {"own", "foreignSame"}
           unknown == active /\ reg = "unknown"
           direct == running /\ ~explained /\ ~unknown
           planned == [k EXCEPT !.direct = direct]
<1>6. \/ cmd' = [cmd EXCEPT ![c] = Finish(k, "refused")]
      \/ cmd' = [cmd EXCEPT ![c] = [planned EXCEPT !.pc = "bounce"]]
      \/ cmd' = [cmd EXCEPT ![c] = Dialling(planned)]
      \/ cmd' = [cmd EXCEPT ![c] = [planned EXCEPT !.pc = "gate"]]
  <2>1. CASE running /\ unknown BY <1>5, <2>1
  <2>2. CASE ~(running /\ unknown) /\ reg = "own" BY <1>5, <2>2
  <2>3. CASE ~(running /\ unknown) /\ reg # "own" /\ direct BY <1>5, <2>3
  <2>4. CASE ~(running /\ unknown) /\ reg # "own" /\ ~direct BY <1>5, <2>4
  <2> QED BY <2>1, <2>2, <2>3, <2>4
<1>7. direct \in BOOLEAN OBVIOUS
<1> HIDE DEF direct
<1>8. planned \in CommandStates BY <1>1, <1>7, CommandUpdates
<1>9. /\ planned.pc = "discover" /\ planned.op = k.op /\ planned.said = k.said
      /\ planned.up = k.up /\ planned.child = k.child /\ planned.base = k.base
  BY <1>1, <1>2 DEF CommandStates
<1> HIDE DEF planned
<1>10. KnowsNow(planned)
  <2>1. "discover" \in Points /\ "discover" \notin Asking /\ "discover" \notin Driven
    BY DEF Points, Asking, Driven
  <2> HIDE DEF k
  <2> QED BY <1>1, <1>4, <1>8, <1>9, <2>1, PointKnows
<1>11. CASE cmd' = [cmd EXCEPT ![c] = Finish(k, "refused")]
  <2>1. "refused" \in Reports BY DEF Reports
  <2> QED BY <1>1, <1>2, <1>11, <2>1, FinishStep
<1>12. ASSUME NEW p \in {"bounce", "gate"}, cmd' = [cmd EXCEPT ![c] = [planned EXCEPT !.pc = p]]
       PROVE  Inv'
  <2>1. p \in Points /\ p \notin Asking /\ p \notin Fresh BY DEF Points, Asking, Fresh
  <2>2. [planned EXCEPT !.pc = p] \in CommandStates /\ KnowsNow([planned EXCEPT !.pc = p])
    BY <1>4, <1>8, <1>9, <1>10, <2>1, GotoKnows
  <2> QED BY <1>2, <1>3, <1>12, <2>2, CommandStep DEF KnowsNow
<1>13. CASE cmd' = [cmd EXCEPT ![c] = Dialling(planned)]
  <2> DEFINE d == Dialling(planned)
  <2>1. d \in CommandStates
        /\ d.pc = "dial" /\ d.cand = 1 /\ d.sev = 0 /\ d.up = Listening
        /\ d.op = planned.op /\ d.said = planned.said /\ d.child = planned.child
        /\ d.base = planned.base
    BY <1>8, DiallingTyped
  <2>2. cmd' = [cmd EXCEPT ![c] = d] BY <1>13
  <2> HIDE DEF d
  <2>3. Based(planned, inst, born) BY <1>10 DEF KnowsNow, Knows
  <2>4. KnowsNow(d) BY <1>4, <1>8, <1>9, <2>1, <2>3, DialKnows
  <2> QED BY <1>2, <1>3, <2>1, <2>2, <2>4, CommandStep DEF KnowsNow
<1> QED BY <1>6, <1>11, <1>12, <1>13

LEMMA BeginKeeps ==
    ASSUME Inv, NEW c \in Clients, Begin(c) PROVE Inv'
<1>1. UNCHANGED <<ctl, port, inst, born, disk, reg, unit, faults, crowded>> BY DEF Begin
<1>2. Typed BY <1>1, CommandFacts DEF Typed
<1>3. PICK op \in OpsOf[c] :
        LET k == [Idle EXCEPT !.op = op]
        IN  cmd' = [cmd EXCEPT ![c] =
                       CASE op = "stop"      -> Dialling(k)
                         [] op = "restart"   -> [k EXCEPT !.pc = "route"]
                         [] op = "croncheck" -> [k EXCEPT !.pc = "check"]
                         [] op = "update"    -> [k EXCEPT !.pc = "observe"]
                         [] op = "uninstall" -> [k EXCEPT !.pc = "discover"]]
  BY DEF Begin
<1> DEFINE k == [Idle EXCEPT !.op = op]
<1>4. op \in {"stop", "restart", "croncheck", "update", "uninstall"} BY HostAssumption
<1>5. k \in CommandStates
  <2> DEFINE B == BOOLEAN
             S == SUBSET Procs
             O == Ops \cup {"none"}
             L == Lifecycles \cup {"none"}
             V == Verdicts \cup {"none"}
             R == Reports \cup {"none"}
             I == 0..MaxInstances
             J == -1..MaxInstances
             N == 0..3
  <2>1. op \in O BY <1>4 DEF Ops
  <2>2. CommandStates =
          [op : O, pc : Points, cand : Paths, sev : N, on : I, child : I, life : L,
           direct : B, said : V, up : S, base : J, out : R]
    BY DEF CommandStates
  <2> HIDE DEF B, S, O, L, V, R, I, J, N
  <2> QED BY <2>1, <2>2, IdleTyped
<1>6. /\ k.pc = "idle" /\ k.op = op /\ k.said = "none" /\ k.up = {} /\ k.child = 0
      /\ k.base = -1
  BY DEF Idle
<1>7. \/ op = "stop" /\ cmd' = [cmd EXCEPT ![c] = Dialling(k)]
      \/ op = "restart" /\ cmd' = [cmd EXCEPT ![c] = [k EXCEPT !.pc = "route"]]
      \/ op = "croncheck" /\ cmd' = [cmd EXCEPT ![c] = [k EXCEPT !.pc = "check"]]
      \/ op = "update" /\ cmd' = [cmd EXCEPT ![c] = [k EXCEPT !.pc = "observe"]]
      \/ op = "uninstall" /\ cmd' = [cmd EXCEPT ![c] = [k EXCEPT !.pc = "discover"]]
  BY <1>3, <1>4
<1> HIDE DEF k
<1>8. KnowsNow(k)
  <2>1. Based(k, inst, born) BY <1>6 DEF Based
  <2> QED BY <1>6, <2>1 DEF KnowsNow, Knows, Named, Spoken, Searched, Honest, Apart, Placed,
                            Asking
<1>9. ASSUME NEW p \in {"route", "check", "observe", "discover"},
             p = "route" => op = "restart", p = "observe" => op = "update",
             p = "discover" => op = "uninstall",
             cmd' = [cmd EXCEPT ![c] = [k EXCEPT !.pc = p]]
      PROVE  Inv'
  <2>1. p \in Points /\ p \notin Asking BY DEF Points, Asking
  <2>2. [k EXCEPT !.pc = p] \in CommandStates /\ KnowsNow([k EXCEPT !.pc = p])
    BY <1>5, <1>6, <1>8, <1>9, <2>1, GotoKnows
  <2> QED BY <1>1, <1>2, <1>9, <2>2, CommandStep DEF KnowsNow
<1>10. CASE op = "stop" /\ cmd' = [cmd EXCEPT ![c] = Dialling(k)]
  <2> DEFINE d == Dialling(k)
  <2>1. d \in CommandStates
        /\ d.pc = "dial" /\ d.cand = 1 /\ d.sev = 0 /\ d.up = Listening
        /\ d.op = k.op /\ d.said = k.said /\ d.child = k.child /\ d.base = k.base
    BY <1>5, DiallingTyped
  <2>2. cmd' = [cmd EXCEPT ![c] = d] BY <1>10
  <2> HIDE DEF d
  <2>3. Based(k, inst, born) BY <1>8 DEF KnowsNow, Knows
  <2>4. KnowsNow(d) BY <1>5, <1>6, <1>10, <2>1, <2>3, DialKnows
  <2> QED BY <1>1, <1>2, <2>1, <2>2, <2>4, CommandStep DEF KnowsNow
<1> QED BY <1>7, <1>9, <1>10

(* A command's own child.                                                     *)
LEMMA SpawnChildKeeps ==
    ASSUME Inv, NEW c \in Clients, SpawnChild(c) PROVE Inv'
<1> DEFINE k == cmd[c]
           r == [k EXCEPT !.pc = "ready", !.child = born + 1]
<1>1. /\ k \in CommandStates /\ KnowsNow(k) /\ Sees(k) /\ Spoken(k) /\ Placed(k)
      /\ disk \in BOOLEAN /\ born \in Nat /\ HostInv /\ HostTyped
  BY CommandFacts, InvFacts
<1>2. UNCHANGED <<ctl, port, disk, reg, unit, faults>> /\ k.pc = "spawn" BY DEF SpawnChild
<1>3. Typed BY <1>2, CommandFacts DEF Typed
<1>4. CASE CanSpawn
  <2>1. Spawn(born + 1) /\ cmd' = [cmd EXCEPT ![c] = r] BY <1>4 DEF SpawnChild
  <2>2. unit' \in 0..MaxInstances /\ reg' \in Registrations \cup {"none"}
    BY <1>1, <1>2 DEF HostTyped
  <2>3. HostInv' /\ Evolves(inst, inst', born, born', crowded, crowded') /\ born + 1 \in Procs
    BY <1>1, <1>2, <1>4, <2>1, <2>2, SpawnStep
  <2>4. r \in CommandStates
    <3>1. "ready" \in Points BY DEF Points
    <3>2. born + 1 \in 0..MaxInstances BY <2>3 DEF Procs
    <3> QED BY <1>1, <3>1, <3>2, CommandUpdates
  <2>5. /\ r.pc = "ready" /\ r.op = k.op /\ r.said = k.said /\ r.up = k.up
        /\ r.child = born + 1 /\ r.base = k.base
    BY <1>1 DEF CommandStates
  <2> HIDE DEF r
  <2>6. KnowsNow(r)
    <3>1. Named(r, inst) /\ Spoken(r) /\ Honest(r, inst, crowded)
      BY <1>1, <2>5 DEF Sees, Named, Spoken, Honest
    <3>2. Searched(r, inst, crowded) /\ Apart(r, unit, reg)
      BY <2>5 DEF Searched, Apart, Asking
    <3>3. Based(r, inst, born)
      <4>1. k.base \in -1..MaxInstances BY <1>1, CommandFields
      <4>2. k.base >= 0 => k.base < born BY <1>1, <1>2 DEF Sees, Based, Driven
      <4>3. "ready" \notin Fresh /\ "ready" \notin Driven BY DEF Fresh, Driven
      <4> QED BY <1>1, <2>5, <4>1, <4>2, <4>3 DEF Based
    <3>4. Placed(r) BY <1>1, <2>5 DEF Placed, Asking
    <3> QED BY <3>1, <3>2, <3>3, <3>4 DEF KnowsNow, Knows
  <2>7. UnitMoves(inst, unit, unit', reg, reg') BY <1>2 DEF UnitMoves
  <2> QED BY <1>3, <2>1, <2>3, <2>4, <2>6, <2>7, CommandWorldStep DEF KnowsNow
<1>5. CASE ~CanSpawn
  <2>1. cmd' = [cmd EXCEPT ![c] = Finish(k, "failed")] /\ UNCHANGED <<inst, born, crowded>>
    BY <1>5 DEF SpawnChild
  <2>2. "failed" \in Reports BY DEF Reports
  <2> QED BY <1>1, <1>2, <2>1, <2>2, FinishStep
<1> QED BY <1>4, <1>5

LEMMA AwaitReadyKeeps ==
    ASSUME Inv, NEW c \in Clients, AwaitReady(c) PROVE Inv'
<1> DEFINE k == cmd[c]
           child == k.child
<1>1. /\ k \in CommandStates /\ KnowsNow(k) /\ Sees(k) /\ Placed(k) /\ disk \in BOOLEAN
  BY CommandFacts
<1>2. UNCHANGED <<ctl, born, disk, reg, unit, faults, crowded>> /\ k.pc = "ready"
  BY DEF AwaitReady
<1>3. Typed BY <1>2, CommandFacts DEF Typed
<1>4. child \in Procs BY <1>1, <1>2, CommandFields DEF Placed, Procs
<1>5. "ok" \in Reports /\ "failed" \in Reports BY DEF Reports
<1>6. CASE UNCHANGED <<inst, port>>
           /\ \E f \in {"ok", "failed"} : cmd' = [cmd EXCEPT ![c] = Finish(k, f)]
  BY <1>1, <1>2, <1>5, <1>6, FinishStep
<1>7. CASE /\ Alive(child) /\ inst' = [inst EXCEPT ![child] = Dead(inst[child], "killed")]
           /\ port' = Released(child) /\ cmd' = [cmd EXCEPT ![c] = Finish(k, "failed")]
  <2>1. Lives(inst[child]) BY <1>7 DEF Alive, Lives
  <2>2. "killed" \in Codes BY DEF Codes
  <2>3. HostInv' /\ Evolves(inst, inst', born, born', crowded, crowded')
    <3> HIDE DEF child
    <3> QED BY <1>2, <1>4, <1>7, <2>1, <2>2, DeathStep
  <2>4. Finish(k, "failed") \in CommandStates /\ KnowsNow(Finish(k, "failed"))
    BY <1>1, <1>5, FinishKnows
  <2>5. UnitMoves(inst, unit, unit', reg, reg') BY <1>2 DEF UnitMoves
  <2> QED BY <1>3, <1>7, <2>3, <2>4, <2>5, CommandWorldStep DEF KnowsNow
<1> QED BY <1>6, <1>7 DEF AwaitReady

(* The manager's restart and stop.                                            *)
LEMMA BounceKeeps ==
    ASSUME Inv, NEW c \in Clients, Bounce(c) PROVE Inv'
<1> DEFINE k == cmd[c]
           r == [k EXCEPT !.pc = "bounced"]
<1>1. /\ k \in CommandStates /\ KnowsNow(k) /\ Sees(k) /\ Spoken(k) /\ disk \in BOOLEAN
      /\ HostInv
  BY CommandFacts, InvFacts
<1>2. UNCHANGED <<ctl, port, born, disk, reg, unit, faults, crowded>> /\ k.pc = "bounce"
      /\ cmd' = [cmd EXCEPT ![c] = r]
  BY DEF Bounce
<1>3. Typed BY <1>2, CommandFacts DEF Typed
<1>4. r \in CommandStates /\ KnowsNow(r)
  <2>1. "bounced" \in Points /\ "bounced" \notin Asking /\ "bounced" \notin Fresh
    BY DEF Points, Asking, Fresh
  <2>2. k.said = "none" BY <1>1, <1>2 DEF Spoken
  <2>3. k.base >= 0 => k.base < born BY <1>1, <1>2 DEF Sees, Based, Driven
  <2> HIDE DEF k
  <2> QED BY <1>1, <2>1, <2>2, <2>3, GotoKnows
<1>5. HostInv' /\ Evolves(inst, inst', born, born', crowded, crowded')
  <2>1. CASE UnitUp
    <3>1. unit \in Procs /\ Lives(inst[unit]) BY <2>1, LivingProcs DEF UnitUp, Living
    <3>2. inst' = [inst EXCEPT ![unit] = Terminate(inst[unit])] BY <2>1 DEF Bounce
    <3> QED BY <1>2, <3>1, <3>2, TerminateStep
  <2>2. CASE ~UnitUp
    <3>1. inst' = inst BY <2>2 DEF Bounce
    <3> QED BY <1>1, <1>2, <3>1, Still
  <2> QED BY <2>1, <2>2
<1>6. UnitMoves(inst, unit, unit', reg, reg') BY <1>2 DEF UnitMoves
<1> HIDE DEF r
<1> QED BY <1>2, <1>3, <1>4, <1>5, <1>6, CommandWorldStep DEF KnowsNow

LEMMA BouncedKeeps ==
    ASSUME Inv, NEW c \in Clients, Bounced(c) PROVE Inv'
<1> DEFINE k == cmd[c]
<1>1. /\ k \in CommandStates /\ KnowsNow(k) /\ Sees(k) /\ Spoken(k) /\ Placed(k)
      /\ disk \in BOOLEAN /\ born \in Nat /\ HostInv /\ HostTyped
  BY CommandFacts, InvFacts
<1>2. UNCHANGED <<ctl, port, disk, faults>> /\ k.pc = "bounced" BY DEF Bounced
<1>3. Typed BY <1>2, CommandFacts DEF Typed
<1>4. k.said = "none" /\ Based(k, inst, born) /\ (k.base >= 0 => k.base < born)
  BY <1>1, <1>2 DEF Spoken, Sees, Based, Driven
<1>5. "ok" \in Reports /\ "failed" \in Reports BY DEF Reports
<1>6. CASE UNCHANGED <<inst, born, crowded, reg, unit>>
           /\ cmd' = [cmd EXCEPT ![c] = Finish(k, "failed")]
  BY <1>1, <1>2, <1>5, <1>6, FinishStep
<1>7. CASE ~UnitUp /\ k.op = "uninstall"
  <2>1. /\ reg' = "none" /\ unit' = 0 /\ UNCHANGED <<inst, born, crowded>>
        /\ \/ cmd' = [cmd EXCEPT ![c] = Dialling(k)]
           \/ cmd' = [cmd EXCEPT ![c] = [k EXCEPT !.pc = "gate"]]
    BY <1>7 DEF Bounced
  <2>2. HostInv'
    BY <1>1, <1>2, <2>1, HostAssumption
    DEF HostInv, HostTyped, PortHeld, BornInOrder, CrowdKnown, PathKept, FailureIsReported
  <2>3. Evolves(inst, inst', born, born', crowded, crowded') BY <1>1, <2>1 DEF Evolves
  <2>4. UnitMoves(inst, unit, unit', reg, reg') BY <2>1 DEF UnitMoves
  <2>5. CASE cmd' = [cmd EXCEPT ![c] = Dialling(k)]
    <3> DEFINE d == Dialling(k)
    <3>1. d \in CommandStates
          /\ d.pc = "dial" /\ d.cand = 1 /\ d.sev = 0 /\ d.up = Listening
          /\ d.op = k.op /\ d.said = k.said /\ d.child = k.child /\ d.base = k.base
      BY <1>1, DiallingTyped
    <3>2. cmd' = [cmd EXCEPT ![c] = d] BY <2>5
    <3> HIDE DEF d
    <3>3. KnowsNow(d) BY <1>1, <1>4, <1>7, <3>1, DialKnows
    <3> QED BY <1>3, <2>2, <2>3, <2>4, <3>1, <3>2, <3>3, CommandWorldStep DEF KnowsNow
  <2>6. CASE cmd' = [cmd EXCEPT ![c] = [k EXCEPT !.pc = "gate"]]
    <3> DEFINE r == [k EXCEPT !.pc = "gate"]
    <3>1. "gate" \in Points /\ "gate" \notin Asking /\ "gate" \notin Fresh
          /\ "gate" \notin Driven
      BY DEF Points, Asking, Fresh, Driven
    <3>2. r \in CommandStates /\ KnowsNow(r)
      <4> HIDE DEF k
      <4> QED BY <1>1, <1>4, <3>1, GotoKnows
    <3>3. cmd' = [cmd EXCEPT ![c] = r] BY <2>6
    <3> HIDE DEF r
    <3> QED BY <1>3, <2>2, <2>3, <2>4, <3>2, <3>3, CommandWorldStep DEF KnowsNow
  <2> QED BY <2>1, <2>5, <2>6
<1>8. CASE ~UnitUp /\ k.op # "uninstall" /\ CanSpawn
  <2> DEFINE h == [k EXCEPT !.child = born + 1]
             r == Finish(h, "ok")
  <2>1. /\ Spawn(born + 1) /\ unit' = born + 1 /\ cmd' = [cmd EXCEPT ![c] = r]
        /\ UNCHANGED reg
    BY <1>8 DEF Bounced
  <2>2. unit' \in 0..MaxInstances /\ reg' \in Registrations \cup {"none"}
    BY <1>1, <1>8, <2>1, HostAssumption DEF CanSpawn, HostTyped
  <2>3. HostInv' /\ Evolves(inst, inst', born, born', crowded, crowded') /\ ~Past(inst[unit'])
    BY <1>1, <1>2, <1>8, <2>1, <2>2, SpawnStep
  <2>4. UnitMoves(inst, unit, unit', reg, reg') BY <2>1, <2>3 DEF UnitMoves
  <2>5. h \in CommandStates
    <3>1. born + 1 \in 0..MaxInstances BY <2>1, <2>2
    <3> QED BY <1>1, <3>1, CommandUpdates
  <2>6. /\ h.pc = k.pc /\ h.said = k.said /\ h.up = k.up /\ h.child = born + 1
        /\ h.base = k.base
    BY <1>1 DEF CommandStates
  <2> HIDE DEF h
  <2>7. Sees(h)
    <3>1. k.base \in -1..MaxInstances BY <1>1, CommandFields
    <3>2. Based(h, inst, born) BY <1>1, <1>2, <1>4, <2>6, <3>1 DEF Based
    <3> QED BY <1>1, <2>6, <3>2 DEF Sees, Named, Honest
  <2>8. r \in CommandStates /\ KnowsNow(r) BY <1>5, <2>5, <2>7, FinishKnows
  <2> HIDE DEF r
  <2> QED BY <1>3, <2>1, <2>3, <2>4, <2>8, CommandWorldStep DEF KnowsNow
<1> QED BY <1>6, <1>7, <1>8 DEF Bounced
-----------------------------------------------------------------------------
(* The invariant.                                                            *)

LEMMA Initial == Init => Inv
<1> SUFFICES ASSUME Init PROVE Inv OBVIOUS
<1> DEFINE s == [Unborn EXCEPT !.pc = "running", !.ear = TRUE, !.server = TRUE,
                               !.sampler = TRUE]
<1>1. born \in {0, 1} /\ born \in 0..MaxInstances BY HostAssumption DEF Init
<1>2. Unborn \in ProcStates
  BY Zenon DEF Unborn, ProcStates, Phases, Starting, Paths, Codes
<1>3. "running" \in Phases /\ 1 \in Paths /\ "none" \in Codes BY DEF Phases, Paths, Codes
<1>4. s \in ProcStates BY <1>2, <1>3, ProcUpdates, Zenon
<1>5. /\ s.pc = "running" /\ s.server = TRUE /\ s.code = "none" /\ s.at = 1
  BY DEF Unborn
<1>6. /\ Unborn.pc = "unborn" /\ Unborn.server = FALSE /\ Unborn.code = "none"
  BY DEF Unborn
<1>7. inst = [i \in Procs |-> IF i = born THEN s ELSE Unborn] BY DEF Init
<1> HIDE DEF s
<1>8. /\ inst \in [Procs -> ProcStates]
      /\ \A i \in Procs : inst[i] = IF i = born THEN s ELSE Unborn
  BY <1>2, <1>4, <1>7
<1>9. HostTyped
  <2>1. ctl \in [Paths -> 0..MaxInstances]
    <3>1. ctl = [p \in Paths |-> IF p = 1 THEN born ELSE 0] BY DEF Init
    <3>2. 0 \in 0..MaxInstances BY HostAssumption
    <3> QED BY <1>1, <3>1, <3>2
  <2>2. unit \in 0..MaxInstances BY <1>1, HostAssumption DEF Init
  <2> QED BY <1>1, <1>8, <2>1, <2>2 DEF HostTyped, Init
<1>10. PortHeld BY <1>5, <1>6, <1>8 DEF PortHeld, Init
<1>11. BornInOrder BY <1>1, <1>6, <1>8 DEF BornInOrder, Procs
<1>12. CrowdKnown BY <1>6, <1>8 DEF CrowdKnown, Lives
<1>13. PathKept
  <2>1. ctl[1] = born BY DEF Init, Paths
  <2> QED BY <1>5, <1>6, <1>8, <2>1 DEF PathKept
<1>14. FailureIsReported BY <1>5, <1>6, <1>8 DEF FailureIsReported
<1>15. ASSUME NEW c \in Clients PROVE Knows(cmd[c], inst, born, crowded, unit, reg)
  <2>1. cmd[c] = Idle BY DEF Init
  <2>2. /\ Idle.op = "none" /\ Idle.pc = "idle" /\ Idle.said = "none" /\ Idle.up = {}
        /\ Idle.base = -1
    BY DEF Idle
  <2> HIDE DEF Idle
  <2>3. Named(Idle, inst) /\ Spoken(Idle) /\ Searched(Idle, inst, crowded)
        /\ Honest(Idle, inst, crowded) /\ Apart(Idle, unit, reg) /\ Placed(Idle)
    BY <2>2 DEF Named, Spoken, Searched, Honest, Apart, Placed, Asking
  <2>4. Based(Idle, inst, born) BY <2>2 DEF Based
  <2> QED BY <2>1, <2>3, <2>4 DEF Knows
<1>16. cmd \in [Clients -> CommandStates] BY IdleTyped DEF Init
<1>17. faults \in 0..MaxFaults /\ disk \in BOOLEAN BY HostAssumption DEF Init
<1> QED
  BY <1>9, <1>10, <1>11, <1>12, <1>13, <1>14, <1>15, <1>16, <1>17
  DEF Inv, HostInv, CommandsKnow

LEMMA CommandKeeps ==
    ASSUME Inv, NEW c \in Clients, Command(c) PROVE Inv'
<1>1. CASE Dial(c) BY <1>1, DialKeeps
<1>2. CASE DialFails(c) \/ AwaitFails(c) BY <1>2, FailuresKeep
<1>3. CASE \/ AwaitAbsence(c) \/ ProbeAgain(c) \/ Croncheck(c) \/ Gate(c) \/ Delete(c)
  BY <1>3, ProbesKeep
<1>4. CASE SpawnChild(c) BY <1>4, SpawnChildKeeps
<1>5. CASE AwaitReady(c) BY <1>5, AwaitReadyKeeps
<1>6. CASE ChooseRoute(c) BY <1>6, ChooseRouteKeeps
<1>7. CASE Bounce(c) BY <1>7, BounceKeeps
<1>8. CASE Bounced(c) BY <1>8, BouncedKeeps
<1>9. CASE Observe(c) \/ Replace(c) \/ RestartAfterUpdate(c) BY <1>9, UpdateKeeps
<1>10. CASE Discover(c) BY <1>10, DiscoverKeeps
<1> QED
  BY <1>1, <1>2, <1>3, <1>4, <1>5, <1>6, <1>7, <1>8, <1>9, <1>10 DEF Command

LEMMA DaemonKeeps ==
    ASSUME Inv, NEW i \in Procs, Daemon(i) PROVE Inv'
<1>1. CASE Inspect(i) \/ Unlink(i) \/ Bind(i) BY <1>1, BindingKeeps
<1>2. CASE BindPort(i) BY <1>2, BindPortKeeps
<1>3. CASE StopLoop(i) BY <1>3, StopLoopKeeps
<1>4. CASE Supervise(i) \/ Join(i) \/ DropGuard(i) BY <1>4, EndingKeeps
<1>5. CASE DropTasks(i) BY <1>5, DropTasksKeeps
<1> QED BY <1>1, <1>2, <1>3, <1>4, <1>5 DEF Daemon

LEMMA Inductive == Inv /\ [Next]_vars => Inv'
<1> SUFFICES ASSUME Inv, [Next]_vars PROVE Inv' OBVIOUS
<1>1. ASSUME NEW c \in Clients, Begin(c) PROVE Inv' BY <1>1, BeginKeeps
<1>2. ASSUME NEW c \in Clients, Command(c) PROVE Inv' BY <1>2, CommandKeeps
<1>3. ASSUME NEW i \in Procs, Daemon(i) PROVE Inv' BY <1>3, DaemonKeeps
<1>4. ASSUME NEW i \in Procs, TaskDies(i) \/ TaskEnds(i) PROVE Inv' BY <1>4, TasksKeep
<1>5. ASSUME NEW i \in Procs, Exit(i) \/ Signal(i) \/ Kill(i) PROVE Inv' BY <1>5, DeathsKeep
<1>6. ASSUME NEW i \in Procs, AcceptFails(i) PROVE Inv' BY <1>6, AcceptFailsKeeps
<1>7. CASE ManagerStart \/ Reregister BY <1>7, ManagerKeeps
<1>8. CASE UNCHANGED vars
  <2>1. UNCHANGED <<ctl, port, inst, born, crowded, unit, reg>> /\ UNCHANGED <<cmd, faults, disk>>
    BY <1>8 DEF vars
  <2>2. HostInv /\ Typed BY <2>1, InvFacts DEF Typed
  <2> QED BY <2>1, <2>2, Still, WorldStep
<1> QED BY <1>1, <1>2, <1>3, <1>4, <1>5, <1>6, <1>7, <1>8 DEF Next

LEMMA Invariance == Spec => []Inv
BY Initial, Inductive, PTL DEF Spec

-----------------------------------------------------------------------------
(* A command is connected to a process only while it awaits the answer.        *)

Waiting(k) == k.on # 0 => k.pc = "await"

WaitsKnown == \A c \in Clients : Waiting(cmd[c])

(* Only the command of terminal c goes on.                                    *)
Alone(c) == \A d \in Clients : d # c => cmd'[d] = cmd[d]

LEMMA WaitStep ==
    ASSUME WaitsKnown, NEW c \in Clients, Alone(c), Waiting(cmd[c])' PROVE WaitsKnown'
BY DEF WaitsKnown, Alone, Waiting

LEMMA FinishWaits == \A k, f : Finish(k, f).on = 0
BY DEF Finish, Idle

LEMMA ConcludedWaits ==
    ASSUME NEW k \in CommandStates, NEW said, k.op \in {"stop", "restart", "update", "uninstall"}
    PROVE  Concluded(k, said).on = 0
<1> DEFINE told == [k EXCEPT !.said = said, !.on = 0]
<1>1. /\ [told EXCEPT !.pc = "absent"].on = 0 /\ [told EXCEPT !.pc = "delete"].on = 0
  BY DEF CommandStates
<1>2. Concluded(k, said) =
        CASE k.op = "stop" -> Finish(told, said)
          [] k.op \in {"restart", "update"} ->
                IF said \in {"stopped", "absent"} THEN [told EXCEPT !.pc = "absent"]
                ELSE Finish(told, "refused")
          [] k.op = "uninstall" ->
                CASE said = "stopped" -> [told EXCEPT !.pc = "absent"]
                  [] said = "absent"  -> [told EXCEPT !.pc = "delete"]
                  [] OTHER            -> Finish(told, "refused")
  BY DEF Concluded
<1> HIDE DEF told
<1>3. CASE k.op = "stop" BY <1>2, <1>3, FinishWaits
<1>4. CASE k.op \in {"restart", "update"} BY <1>1, <1>2, <1>4, FinishWaits
<1>5. CASE k.op = "uninstall" BY <1>1, <1>2, <1>5, FinishWaits
<1> QED BY <1>3, <1>4, <1>5

LEMMA MissedWaits ==
    ASSUME NEW k \in CommandStates, NEW severity \in 1..3, Placed(k), k.pc \in Asking
    PROVE  Missed(k, severity).on = 0
<1> DEFINE sev == RecordStopError(k.sev, severity)
           kept == [k EXCEPT !.sev = sev, !.on = 0]
           r == [kept EXCEPT !.cand = 2, !.pc = "dial"]
<1>1. k.sev \in 0..3 BY CommandFields
<1>2. kept \in CommandStates
  <2>1. 0 \in 0..MaxInstances /\ sev \in 0..3 BY <1>1, HostAssumption DEF RecordStopError
  <2>2. \A v \in 0..3, o \in 0..MaxInstances :
          [k EXCEPT !.sev = v, !.on = o] \in CommandStates
    BY CommandUpdates, Zenon
  <2> HIDE DEF sev
  <2> QED BY ONLY <2>1, <2>2, Zenon DEF kept
<1>3. kept.on = 0 /\ kept.op = k.op BY DEF CommandStates
<1>4. r.on = 0
  <2> HIDE DEF kept
  <2> QED BY <1>2, <1>3 DEF CommandStates
<1>5. k.op \in {"stop", "restart", "update", "uninstall"} BY DEF Placed
<1>6. Missed(k, severity) = r \/ \E said : Missed(k, severity) = Concluded(kept, said)
  BY DEF Missed
<1> HIDE DEF kept, r
<1> QED BY <1>2, <1>3, <1>4, <1>5, <1>6, ConcludedWaits

LEMMA BeginWaits ==
    ASSUME Inv, WaitsKnown, NEW c \in Clients, Begin(c) PROVE WaitsKnown'
<1>1. PICK op \in OpsOf[c] :
        LET k == [Idle EXCEPT !.op = op]
        IN  cmd' = [cmd EXCEPT ![c] =
                       CASE op = "stop"      -> Dialling(k)
                         [] op = "restart"   -> [k EXCEPT !.pc = "route"]
                         [] op = "croncheck" -> [k EXCEPT !.pc = "check"]
                         [] op = "update"    -> [k EXCEPT !.pc = "observe"]
                         [] op = "uninstall" -> [k EXCEPT !.pc = "discover"]]
  BY Zenon DEF Begin
<1> DEFINE k == [Idle EXCEPT !.op = op]
<1>2. op \in {"stop", "restart", "croncheck", "update", "uninstall"} BY HostAssumption
<1>3. /\ Dialling(k).on = 0 /\ [k EXCEPT !.pc = "route"].on = 0
      /\ [k EXCEPT !.pc = "check"].on = 0 /\ [k EXCEPT !.pc = "observe"].on = 0
      /\ [k EXCEPT !.pc = "discover"].on = 0
  BY DEF Idle, Dialling
<1>4. cmd'[c] = CASE op = "stop"      -> Dialling(k)
                  [] op = "restart"   -> [k EXCEPT !.pc = "route"]
                  [] op = "croncheck" -> [k EXCEPT !.pc = "check"]
                  [] op = "update"    -> [k EXCEPT !.pc = "observe"]
                  [] op = "uninstall" -> [k EXCEPT !.pc = "discover"]
  <2> HIDE DEF k
  <2>1. cmd' = [cmd EXCEPT ![c] =
          CASE op = "stop"      -> Dialling(k)
            [] op = "restart"   -> [k EXCEPT !.pc = "route"]
            [] op = "croncheck" -> [k EXCEPT !.pc = "check"]
            [] op = "update"    -> [k EXCEPT !.pc = "observe"]
            [] op = "uninstall" -> [k EXCEPT !.pc = "discover"]]
    BY <1>1 DEF k
  <2> QED BY <2>1, InvFacts
<1>5. Alone(c)
  <2> HIDE DEF k
  <2>1. ASSUME NEW d \in Clients, d # c PROVE cmd'[d] = cmd[d]
    <3>1. cmd \in [Clients -> CommandStates] BY InvFacts
    <3> QED BY <1>1, <2>1, <3>1
  <2> QED BY <2>1 DEF Alone
<1> HIDE DEF k
<1>6. cmd'[c].on = 0 BY <1>2, <1>3, <1>4
<1> QED BY <1>5, <1>6, WaitStep DEF Waiting

LEMMA CommandWaits ==
    ASSUME Inv, WaitsKnown, NEW c \in Clients, Command(c) PROVE WaitsKnown'
<1> DEFINE k == cmd[c]
<1>1. k \in CommandStates /\ Placed(k) /\ Waiting(k) /\ cmd \in [Clients -> CommandStates]
  BY CommandFacts, InvFacts DEF WaitsKnown
<1>2. Alone(c)
  <2>1. CASE Dial(c) BY <1>1, <2>1 DEF Alone, Dial
  <2>2. CASE DialFails(c) BY <1>1, <2>2 DEF Alone, DialFails
  <2>3. CASE AwaitFails(c) BY <1>1, <2>3 DEF Alone, AwaitFails
  <2>4. CASE AwaitAbsence(c) BY <1>1, <2>4 DEF Alone, AwaitAbsence
  <2>5. CASE ProbeAgain(c) BY <1>1, <2>5 DEF Alone, ProbeAgain
  <2>6. CASE Croncheck(c) BY <1>1, <2>6 DEF Alone, Croncheck
  <2>7. CASE SpawnChild(c) BY <1>1, <2>7 DEF Alone, SpawnChild
  <2>8. CASE AwaitReady(c) BY <1>1, <2>8 DEF Alone, AwaitReady
  <2>9. CASE ChooseRoute(c) BY <1>1, <2>9 DEF Alone, ChooseRoute
  <2>10. CASE Bounce(c) BY <1>1, <2>10 DEF Alone, Bounce
  <2>11. CASE Bounced(c) BY <1>1, <2>11 DEF Alone, Bounced
  <2>12. CASE Observe(c) BY <1>1, <2>12 DEF Alone, Observe
  <2>13. CASE Replace(c) BY <1>1, <2>13 DEF Alone, Replace
  <2>14. CASE RestartAfterUpdate(c) BY <1>1, <2>14 DEF Alone, RestartAfterUpdate
  <2>15. CASE Discover(c) BY <1>1, <2>15 DEF Alone, Discover
  <2>16. CASE Gate(c) BY <1>1, <2>16 DEF Alone, Gate
  <2>17. CASE Delete(c) BY <1>1, <2>17 DEF Alone, Delete
  <2> QED
    BY <2>1, <2>2, <2>3, <2>4, <2>5, <2>6, <2>7, <2>8,
       <2>9, <2>10, <2>11, <2>12, <2>13, <2>14, <2>15, <2>16, <2>17
    DEF Command
<1>3. CASE Dial(c)
  <2>1. k.pc \in Asking BY <1>3 DEF Dial, Asking
  <2>2. Missed(k, 1).on = 0 BY <1>1, <2>1, MissedWaits
  <2>3. cmd'[c].pc = "await" \/ cmd'[c] = Missed(k, 1)
    BY <1>1, <1>3 DEF Dial, CommandStates
  <2> QED BY <1>2, <2>2, <2>3, WaitStep DEF Waiting
<1>4. CASE DialFails(c) \/ AwaitFails(c)
  <2>1. k.pc \in Asking /\ \E v \in {2, 3} : cmd'[c] = Missed(k, v)
    BY <1>1, <1>4 DEF DialFails, AwaitFails, Asking
  <2>2. \A v \in {2, 3} : Missed(k, v).on = 0 BY <1>1, <2>1, MissedWaits
  <2> QED BY <1>2, <2>1, <2>2, WaitStep DEF Waiting
<1>5. ASSUME ~(Dial(c) \/ DialFails(c) \/ AwaitFails(c)), Command(c) PROVE cmd'[c].on = 0
  <2>1. k.on = 0
    <3>1. AwaitAbsence(c) => k.pc # "await" BY DEF AwaitAbsence
    <3>2. ProbeAgain(c) => k.pc # "await" BY DEF ProbeAgain
    <3>3. Croncheck(c) => k.pc # "await" BY DEF Croncheck
    <3>4. SpawnChild(c) => k.pc # "await" BY DEF SpawnChild
    <3>5. AwaitReady(c) => k.pc # "await" BY DEF AwaitReady
    <3>6. ChooseRoute(c) => k.pc # "await" BY DEF ChooseRoute
    <3>7. Bounce(c) => k.pc # "await" BY DEF Bounce
    <3>8. Bounced(c) => k.pc # "await" BY DEF Bounced
    <3>9. Observe(c) => k.pc # "await" BY DEF Observe
    <3>10. Replace(c) => k.pc # "await" BY DEF Replace
    <3>11. RestartAfterUpdate(c) => k.pc # "await" BY DEF RestartAfterUpdate
    <3>12. Discover(c) => k.pc # "await" BY DEF Discover
    <3>13. Gate(c) => k.pc # "await" BY DEF Gate
    <3>14. Delete(c) => k.pc # "await" BY DEF Delete
    <3> QED
      BY <1>1, <1>5, <3>1, <3>2, <3>3, <3>4, <3>5, <3>6, <3>7, <3>8,
         <3>9, <3>10, <3>11, <3>12, <3>13, <3>14
      DEF Waiting, Command
  <2>2. CASE AwaitAbsence(c)
    <3>1. port # 0 \/ (port = 0 /\ k.op = "uninstall") \/ (port = 0 /\ k.op # "uninstall")
      OBVIOUS
    <3> QED BY <1>1, <2>1, <2>2, <3>1, FinishWaits DEF AwaitAbsence, CommandStates
  <2>3. CASE ProbeAgain(c) BY <1>1, <2>1, <2>3, FinishWaits DEF ProbeAgain, CommandStates
  <2>4. CASE Croncheck(c) BY <1>1, <2>1, <2>4, FinishWaits DEF Croncheck, Probe, CommandStates
  <2>5. CASE Gate(c) \/ Delete(c)
    BY <1>1, <2>1, <2>5, FinishWaits DEF Gate, Delete, CommandStates
  <2>6. CASE SpawnChild(c) BY <1>1, <2>1, <2>6, FinishWaits DEF SpawnChild, CommandStates
  <2>7. CASE AwaitReady(c) BY <1>1, <2>1, <2>7, FinishWaits DEF AwaitReady
  <2>8. CASE ChooseRoute(c)
    BY <1>1, <2>1, <2>8, FinishWaits DEF ChooseRoute, RestartRoute, Dialling, CommandStates
  <2>9. CASE Bounce(c) BY <1>1, <2>1, <2>9 DEF Bounce, CommandStates
  <2>10. CASE Bounced(c)
    <3>1. \/ \E h, f : cmd'[c] = Finish(h, f)
          \/ cmd'[c] = Dialling(k)
          \/ cmd'[c] = [k EXCEPT !.pc = "gate"]
      <4>1. CASE UnitUp BY <1>1, <2>10, <4>1 DEF Bounced
      <4>2. CASE ~UnitUp /\ k.op = "uninstall" BY <1>1, <2>10, <4>2 DEF Bounced
      <4>3. CASE ~UnitUp /\ k.op # "uninstall" BY <1>1, <2>10, <4>3 DEF Bounced
      <4> QED BY <4>1, <4>2, <4>3
    <3>2. Dialling(k).on = 0 /\ [k EXCEPT !.pc = "gate"].on = 0
      BY <1>1, <2>1 DEF Dialling, CommandStates
    <3>3. ASSUME NEW h, NEW f, cmd'[c] = Finish(h, f) PROVE cmd'[c].on = 0
      BY <3>3, FinishWaits
    <3> QED BY <3>1, <3>2, <3>3
  <2>11. CASE Observe(c) BY <1>1, <2>1, <2>11, FinishWaits DEF Observe, CommandStates
  <2>12. CASE Replace(c) BY <1>1, <2>1, <2>12, FinishWaits DEF Replace, CommandStates
  <2>13. CASE RestartAfterUpdate(c)
    BY <1>1, <2>1, <2>13, FinishWaits DEF RestartAfterUpdate, CommandStates
  <2>14. CASE Discover(c)
    BY <1>1, <2>1, <2>14, FinishWaits DEF Discover, Dialling, CommandStates
  <2> QED
    BY <1>5, <2>2, <2>3, <2>4, <2>5, <2>6, <2>7, <2>8, <2>9, <2>10, <2>11, <2>12, <2>13, <2>14
    DEF Command
<1> QED BY <1>2, <1>3, <1>4, <1>5, WaitStep DEF Waiting

LEMMA StopLoopWaits ==
    ASSUME Inv, WaitsKnown, NEW i \in Procs, StopLoop(i) PROVE WaitsKnown'
<1>1. PICK c \in inst[i].queue :
        cmd' = IF cmd[c].pc = "await" /\ cmd[c].on = i
               THEN [cmd EXCEPT ![c] = Concluded(cmd[c], "stopped")] ELSE cmd
  BY DEF StopLoop
<1>2. c \in Clients BY InvFacts, ProcFields
<1>3. CASE cmd[c].pc = "await" /\ cmd[c].on = i
  <2>1. cmd' = [cmd EXCEPT ![c] = Concluded(cmd[c], "stopped")] BY <1>1, <1>3
  <2>2. cmd[c] \in CommandStates /\ cmd[c].op \in {"stop", "restart", "update", "uninstall"}
    BY <1>2, <1>3, CommandFacts DEF Placed, Asking
  <2>3. cmd'[c].on = 0 /\ Alone(c)
    BY <1>2, <2>1, <2>2, ConcludedWaits, InvFacts DEF Alone
  <2> QED BY <1>2, <2>3, WaitStep DEF Waiting
<1>4. CASE ~(cmd[c].pc = "await" /\ cmd[c].on = i)
  <2>1. cmd' = cmd BY <1>1, <1>4
  <2> QED BY <2>1 DEF WaitsKnown
<1> QED BY <1>3, <1>4

LEMMA WaitsInductive == Inv /\ WaitsKnown /\ [Next]_vars => WaitsKnown'
<1> SUFFICES ASSUME Inv, WaitsKnown, [Next]_vars PROVE WaitsKnown' OBVIOUS
<1>1. ASSUME NEW c \in Clients, Begin(c) \/ Command(c) PROVE WaitsKnown'
  BY <1>1, BeginWaits, CommandWaits
<1>2. ASSUME NEW i \in Procs, StopLoop(i) PROVE WaitsKnown' BY <1>2, StopLoopWaits
<1>3. CASE UNCHANGED cmd BY <1>3 DEF WaitsKnown
<1>4. ASSUME NEW i \in Procs,
             \/ Daemon(i) \/ Exit(i) \/ TaskDies(i) \/ TaskEnds(i) \/ Signal(i) \/ Kill(i)
             \/ AcceptFails(i),
             ~StopLoop(i)
      PROVE  UNCHANGED cmd
  BY <1>4 DEF Daemon, Inspect, Unlink, Bind, BindPort, Supervise, Join, DropGuard, DropTasks,
              Exit, TaskDies, TaskEnds, Signal, Kill, AcceptFails
<1>5. ManagerStart \/ Reregister \/ UNCHANGED vars => UNCHANGED cmd
  BY DEF ManagerStart, Reregister, vars
<1> QED BY <1>1, <1>2, <1>3, <1>4, <1>5 DEF Next

-----------------------------------------------------------------------------
(* The theorems.                                                             *)

LEMMA InvImplies == Inv => TypeOK /\ NoResurrection /\ ReportsHonest
<1> SUFFICES ASSUME Inv PROVE TypeOK /\ NoResurrection /\ ReportsHonest OBVIOUS
<1>1. TypeOK BY InvFacts DEF Inv, HostTyped, PortHeld, TypeOK
<1>2. NoResurrection
  <2> SUFFICES ASSUME NEW c \in Clients, cmd[c].base >= 0, cmd[c].child # 0
               PROVE  cmd[c].child > cmd[c].base + 1
    BY DEF NoResurrection
  <2>1. Based(cmd[c], inst, born) BY CommandFacts DEF Sees
  <2> QED BY <2>1 DEF Based
<1>3. AbsentIsHonest
  <2> SUFFICES ASSUME NEW c \in Clients, cmd[c].said = "absent",
                      NEW i \in cmd[c].up \cap Listening
               PROVE  i \in crowded
    BY DEF AbsentIsHonest
  <2>1. Honest(cmd[c], inst, crowded) BY CommandFacts DEF Sees
  <2>2. Listens(inst[i]) BY DEF Listening, Listens
  <2> QED BY <2>1, <2>2 DEF Honest
<1>4. FailureIsReported BY InvFacts
<1> QED BY <1>1, <1>2, <1>3, <1>4 DEF ReportsHonest

(* Who is asked to stop is the process the command is connected to, and the    *)
(* direct route is not open to a foreign manager's unit.                       *)
LEMMA ForeignStep ==
    ASSUME Inv, WaitsKnown, NEW c \in Clients, cmd[c].op \in {"restart", "update"},
           reg = "foreignSame", unit # 0, cmd[c].on = unit
    PROVE  unit \notin cmd[c].up
<1>1. cmd[c].pc \in Asking BY DEF WaitsKnown, Waiting, Asking
<1>2. Apart(cmd[c], unit, reg) BY CommandFacts DEF KnowsNow, Knows
<1> QED BY <1>1, <1>2 DEF Apart

(* Whatever the kills, signals, refused calls and interleavings: send_stop      *)
(* calls a host "not running" only if every daemon that listened when it began  *)
(* and still does has shared the host with another process, and a daemon exits  *)
(* with success only when it was told to stop (control.rs, send_stop; run.rs,   *)
(* supervise).                                                               *)
THEOREM ReportsAreHonest == Spec => []ReportsHonest
BY Invariance, InvImplies, PTL

(* An update starts nothing on a host where nothing ran, and a restart or an    *)
(* update stops no unit that a foreign manager runs (update.rs,                *)
(* restart_after_update; startup/install.rs, manager_restart_route).           *)
THEOREM HostIsRespected == Spec => HostRespected
<1>1. Init => WaitsKnown
  <2>1. Idle.on = 0 BY DEF Idle
  <2> QED BY <2>1 DEF Init, WaitsKnown, Waiting
<1>2. Spec => [](Inv /\ WaitsKnown)
  BY <1>1, Initial, Inductive, WaitsInductive, PTL DEF Spec
<1>3. Inv /\ WaitsKnown =>
        \A c \in Clients :
           (cmd[c].op \in {"restart", "update"} /\ cmd'[c].said = "stopped"
              /\ cmd[c].said # "stopped" /\ reg = "foreignSame"
              /\ unit # 0 /\ cmd[c].on = unit)
           => unit \notin cmd[c].up
  BY ForeignStep
<1>4. Spec => ForeignUntouched BY <1>2, <1>3, PTL DEF ForeignUntouched
<1>5. Spec => [](TypeOK /\ NoResurrection) BY Invariance, InvImplies, PTL
<1> QED BY <1>4, <1>5 DEF HostRespected
=============================================================================

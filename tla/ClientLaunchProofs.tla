------------------------- MODULE ClientLaunchProofs -------------------------
(***************************************************************************)
(* The launch lock suffices, a reported stop is real and a stranger is left *)
(* alone, for any number of commands, daemons, versions and faults.         *)
(*                                                                         *)
(* Three invariants carry the argument.  StrangerApart is about one daemon: *)
(* once it looks beyond a path, no stranger is there.  Told is about one    *)
(* command: a daemon it has stopped is past serving, and once the paths     *)
(* were seen empty no path will ever name that daemon again.  CalmInv is    *)
(* about the lock: while only lock holders have acted, whatever a daemon    *)
(* does at its start or at its end it does under the eyes of the holder.    *)
(***************************************************************************)
EXTENDS ClientLaunch, FiniteSetTheorems, WellFoundedInduction, TLAPS

Starting(r) == r.pc \in {"check", "remove", "bind"}
Ending(r) == r.pc \in {"draining", "closed"}
Bound(r) == r.pc \in {"serving", "draining", "closed"}
Ended(r) == r.pc \in {"draining", "closed", "gone"}

-----------------------------------------------------------------------------
(* A daemon r, with what the paths name in s.                               *)
StrangerApart(r, s) ==
    /\ r.pc \in {"remove", "bind", "serving", "draining", "closed"} => s[r.at] # Stranger
    /\ r.pc \notin {"unborn", "gone"} /\ r.at = 2 => s[1] # Stranger

StrangersApart == \A d \in Daemons : StrangerApart(dmn[d], socket)

(* A command k, with the daemons w and the paths s.                         *)
Placed(k) ==
    /\ k.pc # "idle" => k.cmd # "none"
    /\ k.pc # "done" => k.result = "none"
    /\ k.pc = "ack" => k.told # Nobody
    /\ k.pc = "await" => k.peer # Nobody
    /\ k.pc \in {"idle", "replace"} \/ k.call = "status" => k.told = Nobody

Forgotten(k, s) ==
    /\ \A c \in Candidates : s[c] # k.told
    /\ k.pc \in {"await", "done"} => k.peer # k.told

Told(k, w, s) ==
    k.told # Nobody /\ k.pc # "ack" /\ k.result # "failed" =>
        /\ Ended(w[k.told])
        /\ k.cmd \in {"restart", "update"} /\ k.pc # "vanish" => Forgotten(k, s)

CommandsKnow == \A l \in Launchers : Placed(run[l]) /\ Told(run[l], dmn, socket)

-----------------------------------------------------------------------------
(* While only lock holders have acted.                                      *)

(* Where a command acts only with the lock in hand.                         *)
Holding(k) ==
    \/ k.pc \in {"ack", "vanish", "spawn", "replace"}
    \/ k.pc \in {"dial", "await"} /\ k.call # "probe"
Readying(k) == k.pc \in {"dial", "await"} /\ k.call = "ready"

NoneBound(w) == \A d \in Daemons : ~Bound(w[d])
NoneOf(w, v) == \A d \in Daemons : Bound(w[d]) => w[d].ver # v

Locked ==
    \A l \in Launchers : /\ run[l].cmd \in {"none", "ensure", "restart"}
                         /\ Holding(run[l]) => lock = l

BoundAtFirst ==
    \A d \in Daemons : /\ dmn[d].at = 1
                       /\ Bound(dmn[d]) => socket[1] = d

EndsWatched ==
    \A d \in Daemons : Ending(dmn[d]) => lock # Free /\ run[lock].pc = "vanish"

(* The holder waits for the one daemon it started; another that serves is   *)
(* of a version whose hello the holder will not get.                        *)
StartsWatched ==
    \A d \in Daemons :
        /\ Starting(dmn[d]) =>
              /\ lock # Free /\ Readying(run[lock]) /\ NoneOf(dmn, run[lock].ver)
              /\ \A e \in Daemons : Starting(dmn[e]) => e = d
        /\ dmn[d].pc \in {"remove", "bind"} => NoneBound(dmn)
        /\ dmn[d].pc = "bind" => socket[1] = Nobody

(* What the holder is connected to still serves; it spawns only where no    *)
(* daemon of its version is bound.                                          *)
HolderSees(k, w) ==
    /\ k.pc # "idle"
    /\ k.pc = "await" =>
          /\ k.peer = Stranger \/ (k.peer \in Daemons /\ w[k.peer].pc = "serving")
          /\ k.peer = Stranger /\ k.call # "ready" => NoneBound(w)
    /\ k.pc = "spawn" => NoneOf(w, k.ver)

CalmInv ==
    /\ Locked /\ BoundAtFirst /\ EndsWatched /\ StartsWatched
    /\ lock # Free => HolderSees(run[lock], dmn)

Inv ==
    /\ TypeOK /\ StrangersApart /\ CommandsKnow
    /\ calm => CalmInv

-----------------------------------------------------------------------------
(* Numbers and records.                                                     *)

LEMMA Numbers ==
    /\ Daemons \subseteq Nat /\ Nobody \notin Daemons /\ Stranger \notin Daemons
    /\ Stranger # Nobody /\ 1 \in Daemons /\ Candidates = {1, 2} /\ 1 \in Versions
    /\ Versions \subseteq Nat
BY LaunchAssumption DEF Daemons, Nobody, Stranger, Candidates, Versions

LEMMA SmallestExists ==
    ASSUME NEW S \in SUBSET Nat, S # {}
    PROVE  \E x \in S : \A y \in S : x <= y
<1>1. \E x \in S : \A y \in S : ~(y < x)
  <2> DEFINE R == OpToRel(<, Nat)
  <2>1. \A x, y \in Nat : x < y => <<x, y>> \in R BY DEF OpToRel
  <2>2. IsWellFoundedOn(R, Nat) BY NatLessThanWellFounded
  <2> HIDE DEF R
  <2>3. PICK x \in S : \A y \in S : ~(<<y, x>> \in R) BY <2>2, WFMin
  <2> QED BY <2>1, <2>3, Zenon
<1> QED BY <1>1

LEMMA MinIsMember ==
    ASSUME NEW S \in SUBSET Nat, S # {}
    PROVE  Min(S) \in S /\ \A y \in S : Min(S) <= y
BY SmallestExists DEF Min

LEMMA DaemonFields ==
    ASSUME NEW r \in DaemonStates
    PROVE  r.pc \in DaemonPcs /\ r.ver \in Versions /\ r.at \in Candidates
BY Zenon DEF DaemonStates

LEMMA LauncherFields ==
    ASSUME NEW k \in LauncherStates
    PROVE  /\ k.pc \in LauncherPcs /\ k.cmd \in CommandNames \cup {"none"}
           /\ k.call \in Calls /\ k.ver \in Versions /\ k.peer \in Peers
           /\ k.told \in Daemons \cup {Nobody} /\ k.ran \in BOOLEAN
           /\ k.result \in {"none", "ok", "failed"}
BY Zenon DEF LauncherStates

LEMMA TypeFacts ==
    ASSUME TypeOK
    PROVE  /\ \A d \in Daemons : dmn[d] \in DaemonStates
           /\ \A l \in Launchers : run[l] \in LauncherStates
           /\ \A c \in Candidates : socket[c] \in Peers
BY DEF TypeOK

(* The ways in which the steps change a command's record.                   *)
LEMMA LauncherUpdates ==
    ASSUME NEW k \in LauncherStates, NEW p \in LauncherPcs, NEW q \in Calls,
           NEW v \in Versions, NEW c \in CommandNames, NEW e \in Peers,
           NEW t \in Daemons \cup {Nobody}, NEW b \in BOOLEAN,
           NEW res \in {"none", "ok", "failed"}
    PROVE  /\ [k EXCEPT !.pc = p] \in LauncherStates
           /\ [k EXCEPT !.pc = p, !.call = q] \in LauncherStates
           /\ [k EXCEPT !.pc = p, !.told = t] \in LauncherStates
           /\ [k EXCEPT !.pc = p, !.ran = b] \in LauncherStates
           /\ [k EXCEPT !.pc = p, !.peer = e] \in LauncherStates
           /\ [k EXCEPT !.cmd = c, !.ver = v, !.pc = p, !.call = q] \in LauncherStates
           /\ [k EXCEPT !.pc = p, !.result = res, !.ran = b, !.peer = e] \in LauncherStates
<1> DEFINE B == BOOLEAN
           C == CommandNames \cup {"none"}
           T == Daemons \cup {Nobody}
           R == {"none", "ok", "failed"}
<1>1. b \in B /\ c \in C /\ t \in T /\ res \in R OBVIOUS
<1>2. LauncherStates = [pc : LauncherPcs, cmd : C, call : Calls, ver : Versions,
                        peer : Peers, told : T, ran : B, result : R]
  BY DEF LauncherStates
<1> HIDE DEF B, C, T, R
<1> QED BY <1>1, <1>2

Others(l) == \A m \in Launchers : m # l => run'[m] = run[m]

(* What stays of a command whichever way it moves on.                       *)
Kept(k, k2) == k2.cmd = k.cmd /\ k2.ver = k.ver

LEMMA OneMoves ==
    ASSUME TypeOK, NEW l \in Launchers, NEW r \in LauncherStates,
           run' = [run EXCEPT ![l] = r]
    PROVE  run' \in [Launchers -> LauncherStates] /\ run'[l] = r /\ Others(l)
BY DEF TypeOK, Others

LEMMA FinishEffect ==
    ASSUME TypeOK, NEW l \in Launchers, NEW res \in {"ok", "failed"}, Finish(l, res)
    PROVE  /\ run' \in [Launchers -> LauncherStates] /\ Others(l)
           /\ run'[l].pc = "done" /\ run'[l].result = res
           /\ run'[l].call = run[l].call /\ run'[l].told = run[l].told
           /\ res = "ok" => run'[l].peer = run[l].peer
           /\ Kept(run[l], run'[l])
           /\ lock' \in Launchers \cup {Free}
           /\ lock = l => lock' = Free
           /\ lock # l => lock' = lock
<1> DEFINE k == run[l]
           e == IF res = "ok" THEN k.peer ELSE Nobody
           r == [k EXCEPT !.pc = "done", !.result = res, !.ran = FALSE, !.peer = e]
<1>1. k \in LauncherStates BY TypeFacts
<1>2. run' = [run EXCEPT ![l] = r] BY <1>1 DEF Finish, TypeOK, LauncherStates
<1>3. /\ e \in Peers /\ "done" \in LauncherPcs /\ res \in {"none", "ok", "failed"}
      /\ 1 \in Versions /\ "probe" \in Calls /\ "stop" \in CommandNames
      /\ Nobody \in Daemons \cup {Nobody} /\ FALSE \in BOOLEAN
  BY <1>1, LauncherFields, Numbers DEF Peers, LauncherPcs, Calls, CommandNames
<1>4. r \in LauncherStates BY <1>1, <1>3, LauncherUpdates
<1>5. /\ r.pc = "done" /\ r.result = res /\ r.call = k.call /\ r.told = k.told
      /\ res = "ok" => r.peer = k.peer
      /\ Kept(k, r)
  BY <1>1 DEF LauncherStates, Kept
<1> HIDE DEF r
<1>6. run' \in [Launchers -> LauncherStates] /\ run'[l] = r /\ Others(l)
  BY <1>2, <1>4, OneMoves
<1>7. /\ lock' \in Launchers \cup {Free}
      /\ lock = l => lock' = Free
      /\ lock # l => lock' = lock
  BY DEF Finish, TypeOK
<1> QED BY <1>5, <1>6, <1>7

LEMMA GotoEffect ==
    ASSUME TypeOK, NEW l \in Launchers, NEW p \in LauncherPcs, Goto(l, p)
    PROVE  /\ run' \in [Launchers -> LauncherStates] /\ Others(l)
           /\ run'[l].pc = p /\ run'[l].call = run[l].call
           /\ run'[l].told = run[l].told /\ run'[l].peer = run[l].peer
           /\ run'[l].result = run[l].result /\ Kept(run[l], run'[l])
           /\ lock' = lock
<1> DEFINE k == run[l]
           r == [k EXCEPT !.pc = p]
<1>1. k \in LauncherStates BY TypeFacts
<1>2. run' = [run EXCEPT ![l] = r] BY <1>1 DEF Goto, TypeOK, LauncherStates
<1>3. 1 \in Versions /\ "probe" \in Calls /\ "stop" \in CommandNames /\ Nobody \in Peers
  BY Numbers DEF Calls, CommandNames, Peers
<1>4. r \in LauncherStates BY <1>1, <1>3, LauncherUpdates
<1>5. /\ r.pc = p /\ r.call = k.call /\ r.told = k.told /\ r.peer = k.peer
      /\ r.result = k.result /\ Kept(k, r)
  BY <1>1 DEF LauncherStates, Kept
<1> HIDE DEF r
<1>6. run' \in [Launchers -> LauncherStates] /\ run'[l] = r /\ Others(l)
  BY <1>2, <1>4, OneMoves
<1> QED BY <1>5, <1>6 DEF Goto

LEMMA CallEffect ==
    ASSUME TypeOK, NEW l \in Launchers, NEW q \in Calls, Call(l, q)
    PROVE  /\ run' \in [Launchers -> LauncherStates] /\ Others(l)
           /\ run'[l].pc = "dial" /\ run'[l].call = q
           /\ run'[l].told = run[l].told /\ run'[l].peer = run[l].peer
           /\ run'[l].result = run[l].result /\ Kept(run[l], run'[l])
           /\ lock' = lock
<1> DEFINE k == run[l]
           r == [k EXCEPT !.pc = "dial", !.call = q]
<1>1. k \in LauncherStates BY TypeFacts
<1>2. run' = [run EXCEPT ![l] = r] BY <1>1 DEF Call, TypeOK, LauncherStates
<1>3. 1 \in Versions /\ "dial" \in LauncherPcs /\ "stop" \in CommandNames /\ Nobody \in Peers
  BY Numbers DEF LauncherPcs, CommandNames, Peers
<1>4. r \in LauncherStates BY <1>1, <1>3, LauncherUpdates
<1>5. /\ r.pc = "dial" /\ r.call = q /\ r.told = k.told /\ r.peer = k.peer
      /\ r.result = k.result /\ Kept(k, r)
  BY <1>1 DEF LauncherStates, Kept
<1> HIDE DEF r
<1>6. run' \in [Launchers -> LauncherStates] /\ run'[l] = r /\ Others(l)
  BY <1>2, <1>4, OneMoves
<1> QED BY <1>5, <1>6 DEF Call

LEMMA HaltedEffect ==
    ASSUME TypeOK, NEW l \in Launchers, run[l].peer \in Daemons, AfterHalt(l, "hello")
    PROVE  /\ run' \in [Launchers -> LauncherStates] /\ Others(l)
           /\ run'[l].pc = "ack" /\ run'[l].call = run[l].call
           /\ run'[l].told = run[l].peer
           /\ run'[l].result = run[l].result /\ Kept(run[l], run'[l])
           /\ lock' = lock
<1> DEFINE k == run[l]
           r == [k EXCEPT !.pc = "ack", !.told = k.peer]
<1>1. k \in LauncherStates BY TypeFacts
<1>2. run' = [run EXCEPT ![l] = r] /\ lock' = lock
  BY <1>1 DEF AfterHalt, TypeOK, LauncherStates
<1>3. /\ 1 \in Versions /\ "ack" \in LauncherPcs /\ "stop" \in CommandNames
      /\ "probe" \in Calls /\ Nobody \in Peers /\ k.peer \in Daemons \cup {Nobody}
  BY Numbers DEF LauncherPcs, CommandNames, Peers, Calls
<1>4. r \in LauncherStates BY <1>1, <1>3, LauncherUpdates
<1>5. /\ r.pc = "ack" /\ r.call = k.call /\ r.told = k.peer /\ r.result = k.result
      /\ Kept(k, r)
  BY <1>1 DEF LauncherStates, Kept
<1> HIDE DEF r
<1>6. run' \in [Launchers -> LauncherStates] /\ run'[l] = r /\ Others(l)
  BY <1>2, <1>4, OneMoves
<1> QED BY <1>2, <1>5, <1>6

LEMMA StatusEffect ==
    ASSUME TypeOK, NEW l \in Launchers, NEW outcome, AfterStatus(l, outcome)
    PROVE  /\ run' \in [Launchers -> LauncherStates] /\ Others(l)
           /\ run'[l].pc = "replace" /\ run'[l].call = run[l].call
           /\ run'[l].told = run[l].told
           /\ run'[l].result = run[l].result /\ Kept(run[l], run'[l])
           /\ lock' = lock
<1> DEFINE k == run[l]
           b == outcome = "hello"
           r == [k EXCEPT !.pc = "replace", !.ran = b]
<1>1. k \in LauncherStates BY TypeFacts
<1>2. run' = [run EXCEPT ![l] = r] /\ lock' = lock
  BY <1>1 DEF AfterStatus, TypeOK, LauncherStates
<1>3. /\ 1 \in Versions /\ "replace" \in LauncherPcs /\ "stop" \in CommandNames
      /\ "probe" \in Calls /\ Nobody \in Peers
  BY Numbers DEF LauncherPcs, CommandNames, Peers, Calls
<1>b. b \in BOOLEAN OBVIOUS
<1> HIDE DEF b
<1>4. r \in LauncherStates BY <1>1, <1>3, <1>b, LauncherUpdates
<1>5. /\ r.pc = "replace" /\ r.call = k.call /\ r.told = k.told /\ r.result = k.result
      /\ Kept(k, r)
  BY <1>1 DEF LauncherStates, Kept
<1> HIDE DEF r
<1>6. run' \in [Launchers -> LauncherStates] /\ run'[l] = r /\ Others(l)
  BY <1>2, <1>4, OneMoves
<1> QED BY <1>2, <1>5, <1>6

Heard == {"hello", "absent", "older", "other"}

(* Everything an attach can lead to.                                        *)
LEMMA ResolveCases ==
    ASSUME TypeOK, NEW l \in Launchers, NEW outcome \in Heard, Resolve(l, outcome)
    PROVE  \/ /\ outcome = "hello" /\ run[l].call \in {"probe", "reprobe", "final", "ready"}
              /\ Finish(l, "ok")
           \/ run[l].call # "ready" /\ Finish(l, "failed")
           \/ run[l].call = "probe" /\ Goto(l, "lock")
           \/ /\ \/ run[l].call = "reprobe" /\ outcome = "absent"
                 \/ run[l].call = "restatus" /\ outcome # "hello"
              /\ Goto(l, "spawn")
           \/ run[l].call \in {"reprobe", "restatus"} /\ Call(l, "halt")
           \/ run[l].call = "halt" /\ outcome = "hello" /\ AfterHalt(l, "hello")
           \/ run[l].call = "status" /\ AfterStatus(l, outcome)
           \/ run[l].call = "ready" /\ outcome # "hello" /\ Call(l, "ready")
<1>1. run[l].call \in Calls BY TypeFacts, LauncherFields
<1>2. CASE run[l].call = "probe"
  <2>1. AfterProbe(l, outcome) BY <1>2 DEF Resolve
  <2> QED BY <1>2, <2>1 DEF AfterProbe, Heard
<1>3. CASE run[l].call = "reprobe"
  <2>1. AfterReprobe(l, outcome) BY <1>3 DEF Resolve
  <2> QED BY <1>3, <2>1 DEF AfterReprobe, Heard
<1>4. CASE run[l].call = "status"
  <2>1. AfterStatus(l, outcome) BY <1>4 DEF Resolve
  <2> QED BY <1>4, <2>1
<1>5. CASE run[l].call = "restatus"
  <2>1. AfterRestatus(l, outcome) BY <1>5 DEF Resolve
  <2> QED BY <1>5, <2>1 DEF AfterRestatus
<1>6. CASE run[l].call = "halt"
  <2>1. AfterHalt(l, outcome) BY <1>6 DEF Resolve
  <2>2. CASE outcome = "hello" BY <1>6, <2>1, <2>2
  <2>3. CASE outcome # "hello"
    <3>1. Finish(l, "failed") BY <2>1, <2>3 DEF AfterHalt
    <3> QED BY <1>6, <3>1
  <2> QED BY <2>2, <2>3
<1>7. CASE run[l].call = "final"
  <2>1. AfterFinal(l, outcome) BY <1>7 DEF Resolve
  <2>2. CASE outcome = "hello"
    <3>1. Finish(l, "ok") BY <2>1, <2>2 DEF AfterFinal
    <3> QED BY <1>7, <2>2, <3>1
  <2>3. CASE outcome # "hello"
    <3>1. Finish(l, "failed") BY <2>1, <2>3 DEF AfterFinal
    <3> QED BY <1>7, <3>1
  <2> QED BY <2>2, <2>3
<1>8. CASE run[l].call = "ready"
  <2>1. AfterReady(l, outcome) BY <1>8 DEF Resolve
  <2> QED BY <1>8, <2>1 DEF AfterReady
<1> QED BY <1>1, <1>2, <1>3, <1>4, <1>5, <1>6, <1>7, <1>8 DEF Calls

-----------------------------------------------------------------------------
(* Daemons.                                                                 *)

OtherDaemons(d) == \A e \in Daemons : e # d => dmn'[e] = dmn[e]

LEMMA DaemonUpdates ==
    ASSUME NEW r \in DaemonStates, NEW p \in DaemonPcs, NEW v \in Versions
    PROVE  /\ [r EXCEPT !.pc = p] \in DaemonStates
           /\ [r EXCEPT !.pc = p, !.at = 2] \in DaemonStates
           /\ [pc |-> p, ver |-> v, at |-> 1] \in DaemonStates
BY Numbers DEF DaemonStates

LEMMA OneDaemonMoves ==
    ASSUME TypeOK, NEW d \in Daemons, NEW r \in DaemonStates,
           dmn' = [dmn EXCEPT ![d] = r]
    PROVE  dmn' \in [Daemons -> DaemonStates] /\ dmn'[d] = r /\ OtherDaemons(d)
BY DEF TypeOK, OtherDaemons

LEMMA SetDaemonEffect ==
    ASSUME TypeOK, NEW d \in Daemons, NEW p \in DaemonPcs, SetDaemon(d, p)
    PROVE  /\ dmn' \in [Daemons -> DaemonStates] /\ OtherDaemons(d)
           /\ dmn'[d].pc = p
           /\ p # "gone" => dmn'[d].at = dmn[d].at /\ dmn'[d].ver = dmn[d].ver
           /\ p = "gone" => dmn'[d].at = 1
<1> DEFINE r == IF p = "gone" THEN [pc |-> p, ver |-> 1, at |-> 1]
                ELSE [dmn[d] EXCEPT !.pc = p]
<1>1. dmn[d] \in DaemonStates /\ 1 \in Versions BY TypeFacts, Numbers
<1>2. dmn' = [dmn EXCEPT ![d] = r] BY DEF SetDaemon, TypeOK
<1>3. r \in DaemonStates BY <1>1, DaemonUpdates
<1>4. /\ r.pc = p
      /\ p # "gone" => r.at = dmn[d].at /\ r.ver = dmn[d].ver
      /\ p = "gone" => r.at = 1
  BY <1>1 DEF DaemonStates
<1> HIDE DEF r
<1>5. dmn' \in [Daemons -> DaemonStates] /\ dmn'[d] = r /\ OtherDaemons(d)
  BY <1>2, <1>3, OneDaemonMoves
<1> QED BY <1>4, <1>5

LEMMA BirthEffect ==
    ASSUME TypeOK, Unborn # {}, NEW v \in Versions,
           dmn' = [dmn EXCEPT ![Min(Unborn)] = [pc |-> "check", ver |-> v, at |-> 1]]
    PROVE  \E d \in Daemons :
              /\ dmn[d].pc = "unborn" /\ OtherDaemons(d)
              /\ dmn'[d].pc = "check" /\ dmn'[d].at = 1
              /\ dmn' \in [Daemons -> DaemonStates]
<1> DEFINE d == Min(Unborn)
           r == [pc |-> "check", ver |-> v, at |-> 1]
<1>1. d \in Unborn BY MinIsMember, Numbers DEF Unborn
<1>2. d \in Daemons /\ dmn[d].pc = "unborn" BY <1>1 DEF Unborn
<1> HIDE DEF d
<1>3. dmn' = [dmn EXCEPT ![d] = r] BY DEF d
<1>4. 1 \in Daemons /\ dmn[1] \in DaemonStates /\ "check" \in DaemonPcs
  BY Numbers, TypeFacts DEF DaemonPcs
<1>5. r \in DaemonStates BY <1>4, DaemonUpdates
<1>6. r.pc = "check" /\ r.at = 1 OBVIOUS
<1> HIDE DEF r
<1>7. dmn' \in [Daemons -> DaemonStates] /\ dmn'[d] = r /\ OtherDaemons(d)
  BY <1>2, <1>3, <1>5, OneDaemonMoves
<1> QED BY <1>2, <1>6, <1>7

(* From the daemons w and paths s to v and t: who has ended stays ended, and *)
(* only a daemon that was binding is newly named.                           *)
Evolves(w, v, s, t) ==
    /\ \A d \in Daemons : Ended(w[d]) => Ended(v[d])
    /\ \A c \in Candidates, d \in Daemons : t[c] = d => s[c] = d \/ w[d].pc = "bind"

LEMMA ToldStays ==
    ASSUME NEW k \in LauncherStates, NEW w, NEW v, NEW s, NEW t,
           Told(k, w, s), Evolves(w, v, s, t)
    PROVE  Told(k, v, t)
<1>1. k.told \in Daemons \cup {Nobody} BY LauncherFields
<1> QED BY <1>1 DEF Told, Evolves, Forgotten, Ended

(* A stranger stays where it is, and comes nowhere else.                    *)
StrangersKept == \A c \in Candidates : socket'[c] = Stranger <=> socket[c] = Stranger

LEMMA ApartStays ==
    ASSUME NEW r \in DaemonStates, StrangerApart(r, socket), StrangersKept
    PROVE  StrangerApart(r, socket')
<1>1. r.at \in Candidates /\ 1 \in Candidates BY DaemonFields, Numbers
<1> QED BY <1>1 DEF StrangerApart, StrangersKept

LEMMA ApartStep ==
    ASSUME TypeOK, StrangersApart, NEW d \in Daemons, OtherDaemons(d), StrangersKept,
           StrangerApart(dmn'[d], socket')
    PROVE  StrangersApart'
<1>1. \A e \in Daemons : e # d => StrangerApart(dmn'[e], socket')
  BY ApartStays, TypeFacts DEF StrangersApart, OtherDaemons
<1>2. \A e \in Daemons : StrangerApart(dmn'[e], socket') BY <1>1
<1> QED BY <1>2 DEF StrangersApart

(* What every step does to the daemons and the paths.                       *)
HostStep ==
    /\ socket' \in [Candidates -> Peers] /\ dmn' \in [Daemons -> DaemonStates]
    /\ StrangersApart' /\ StrangersKept /\ Evolves(dmn, dmn', socket, socket')

LEMMA HostStill ==
    ASSUME TypeOK, StrangersApart, UNCHANGED <<dmn, socket>>
    PROVE  HostStep
BY DEF HostStep, StrangersKept, StrangersApart, Evolves, TypeOK

LEMMA BirthStep ==
    ASSUME TypeOK, StrangersApart, Unborn # {}, NEW v \in Versions,
           dmn' = [dmn EXCEPT ![Min(Unborn)] = [pc |-> "check", ver |-> v, at |-> 1]],
           UNCHANGED socket
    PROVE  HostStep
<1>1. PICK d \in Daemons :
              /\ dmn[d].pc = "unborn" /\ OtherDaemons(d)
              /\ dmn'[d].pc = "check" /\ dmn'[d].at = 1
              /\ dmn' \in [Daemons -> DaemonStates]
  BY BirthEffect
<1>2. StrangersKept BY DEF StrangersKept
<1>3. StrangersApart' BY <1>1, <1>2, ApartStep DEF StrangerApart
<1>4. Evolves(dmn, dmn', socket, socket') BY <1>1 DEF Evolves, OtherDaemons, Ended
<1> QED BY <1>1, <1>2, <1>3, <1>4 DEF HostStep, TypeOK

(* A daemon moves on without touching a path.                               *)
LEMMA PhaseStep ==
    ASSUME TypeOK, StrangersApart, NEW d \in Daemons, NEW p \in DaemonPcs, SetDaemon(d, p),
           UNCHANGED socket, Ended(dmn[d]) => p \in {"draining", "closed", "gone"},
           dmn[d].pc # "unborn", dmn[d].pc # "gone" \/ p = "gone",
           \/ p = "gone" \/ socket[dmn[d].at] # Stranger
    PROVE  HostStep
<1>1. /\ dmn' \in [Daemons -> DaemonStates] /\ OtherDaemons(d)
      /\ dmn'[d].pc = p
      /\ p # "gone" => dmn'[d].at = dmn[d].at /\ dmn'[d].ver = dmn[d].ver
      /\ p = "gone" => dmn'[d].at = 1
  BY SetDaemonEffect
<1>2. StrangersKept BY DEF StrangersKept
<1>3. StrangerApart(dmn'[d], socket') BY <1>1 DEF StrangersApart, StrangerApart
<1>4. StrangersApart' BY <1>1, <1>2, <1>3, ApartStep
<1>5. Evolves(dmn, dmn', socket, socket') BY <1>1 DEF Evolves, OtherDaemons, Ended
<1> QED BY <1>1, <1>2, <1>4, <1>5 DEF HostStep, TypeOK

(* A daemon writes the path it is at, which no stranger holds.              *)
LEMMA PathStep ==
    ASSUME TypeOK, StrangersApart, NEW d \in Daemons, NEW p \in DaemonPcs, SetDaemon(d, p),
           dmn[d].pc \in {"remove", "bind", "closed"},
           dmn[d].pc = "closed" => p = "gone",
           NEW x \in Daemons \cup {Nobody}, x # Nobody => x = d /\ dmn[d].pc = "bind",
           socket' = [socket EXCEPT ![dmn[d].at] = x]
    PROVE  HostStep
<1>1. /\ dmn' \in [Daemons -> DaemonStates] /\ OtherDaemons(d)
      /\ dmn'[d].pc = p
      /\ p # "gone" => dmn'[d].at = dmn[d].at /\ dmn'[d].ver = dmn[d].ver
      /\ p = "gone" => dmn'[d].at = 1
  BY SetDaemonEffect
<1>2. dmn[d].at \in Candidates /\ socket[dmn[d].at] # Stranger /\ x # Stranger
  BY TypeFacts, DaemonFields, Numbers DEF StrangersApart, StrangerApart
<1>3. socket' \in [Candidates -> Peers] /\ StrangersKept
  BY <1>2 DEF TypeOK, Peers, StrangersKept
<1>4. StrangerApart(dmn'[d], socket')
  <2>1. StrangerApart(dmn[d], socket) BY DEF StrangersApart
  <2>2. 1 \in Candidates BY Numbers
  <2> QED BY <1>1, <1>2, <1>3, <2>1, <2>2 DEF StrangerApart, StrangersKept
<1>5. StrangersApart' BY <1>1, <1>3, <1>4, ApartStep
<1>6. Evolves(dmn, dmn', socket, socket')
  <2>1. \A e \in Daemons : Ended(dmn[e]) => Ended(dmn'[e])
    BY <1>1 DEF OtherDaemons, Ended
  <2>2. \A c \in Candidates, e \in Daemons :
           socket'[c] = e => socket[c] = e \/ dmn[e].pc = "bind"
    BY <1>2, Numbers DEF TypeOK
  <2> QED BY <2>1, <2>2 DEF Evolves
<1> QED BY <1>1, <1>3, <1>5, <1>6 DEF HostStep

LEMMA Phases == {"unborn", "check", "remove", "bind", "serving", "draining", "closed",
                 "gone"} = DaemonPcs
BY DEF DaemonPcs

LEMMA CheckStaleHost ==
    ASSUME TypeOK, StrangersApart, NEW d \in Daemons, CheckStale(d) PROVE HostStep
<1> DEFINE s == socket[dmn[d].at]
<1>1. dmn[d].pc = "check" /\ UNCHANGED socket BY DEF CheckStale
<1>2. \/ s = Nobody /\ SetDaemon(d, "bind")
      \/ s # Nobody /\ Connectable(s) /\ SetDaemon(d, "gone")
      \/ s # Nobody /\ ~Connectable(s) /\ SetDaemon(d, "remove")
  <2>1. SetDaemon(d, CASE s = Nobody -> "bind"
                      [] s # Nobody /\ Connectable(s) -> "gone"
                      [] s # Nobody /\ ~Connectable(s) -> "remove")
    BY DEF CheckStale
  <2> HIDE DEF s
  <2>2. CASE s = Nobody BY <2>1, <2>2
  <2>3. CASE s # Nobody /\ Connectable(s) BY <2>1, <2>3
  <2>4. CASE s # Nobody /\ ~Connectable(s) BY <2>1, <2>4
  <2> QED BY <2>2, <2>3, <2>4
<1>3. ~Connectable(s) => s # Stranger BY DEF Connectable
<1>4. CASE s = Nobody /\ SetDaemon(d, "bind")
  BY <1>1, <1>4, PhaseStep, Numbers, Phases DEF Ended
<1>5. CASE SetDaemon(d, "gone") BY <1>1, <1>5, PhaseStep, Phases
<1>6. CASE ~Connectable(s) /\ SetDaemon(d, "remove")
  BY <1>1, <1>3, <1>6, PhaseStep, Phases DEF Ended
<1> QED BY <1>2, <1>4, <1>5, <1>6

LEMMA RemoveStaleHost ==
    ASSUME TypeOK, StrangersApart, NEW d \in Daemons, RemoveStale(d) PROVE HostStep
<1>1. PICK p \in {"gone", "bind"} : SetDaemon(d, p)
  <2>1. CASE socket[dmn[d].at] = Nobody BY <2>1 DEF RemoveStale
  <2>2. CASE socket[dmn[d].at] # Nobody BY <2>2 DEF RemoveStale
  <2> QED BY <2>1, <2>2
<1>2. dmn[d].pc = "remove" /\ socket' = [socket EXCEPT ![dmn[d].at] = Nobody]
  BY DEF RemoveStale
<1> QED BY <1>1, <1>2, PathStep, Phases

LEMMA BindHost ==
    ASSUME TypeOK, StrangersApart, NEW d \in Daemons, Bind(d) PROVE HostStep
<1>1. dmn[d].pc = "bind" BY DEF Bind
<1>2. CASE socket[dmn[d].at] = Nobody
  <2>1. SetDaemon(d, "serving") /\ socket' = [socket EXCEPT ![dmn[d].at] = d]
    BY <1>2 DEF Bind
  <2> QED BY <1>1, <2>1, PathStep, Phases
<1>3. CASE socket[dmn[d].at] # Nobody /\ dmn[d].at = 1
  <2> DEFINE r == [dmn[d] EXCEPT !.pc = "check", !.at = 2]
  <2>1. dmn[d] \in DaemonStates /\ 1 \in Versions /\ "check" \in DaemonPcs
    BY TypeFacts, Numbers, Phases
  <2>2. dmn' = [dmn EXCEPT ![d] = r] /\ UNCHANGED socket BY <1>3, <2>1 DEF Bind, TypeOK
  <2>3. r \in DaemonStates BY <2>1, DaemonUpdates
  <2>4. r.pc = "check" /\ r.at = 2 BY <2>1 DEF DaemonStates
  <2> HIDE DEF r
  <2>5. dmn' \in [Daemons -> DaemonStates] /\ dmn'[d] = r /\ OtherDaemons(d)
    BY <2>2, <2>3, OneDaemonMoves
  <2>6. StrangersKept BY <2>2 DEF StrangersKept
  <2>7. StrangerApart(dmn'[d], socket')
    BY <1>1, <1>3, <2>2, <2>4, <2>5 DEF StrangersApart, StrangerApart
  <2>8. StrangersApart' BY <2>5, <2>6, <2>7, ApartStep
  <2>9. Evolves(dmn, dmn', socket, socket')
    BY <1>1, <2>2, <2>5 DEF Evolves, OtherDaemons, Ended
  <2> QED BY <2>2, <2>5, <2>6, <2>8, <2>9 DEF HostStep, TypeOK
<1>4. CASE socket[dmn[d].at] # Nobody /\ dmn[d].at # 1
  <2>1. SetDaemon(d, "gone") /\ UNCHANGED socket BY <1>4 DEF Bind
  <2> QED BY <1>1, <2>1, PhaseStep, Phases
<1> QED BY <1>2, <1>3, <1>4

LEMMA DaemonHost ==
    ASSUME TypeOK, StrangersApart, NEW d \in Daemons, DaemonStep(d) \/ Fault(d)
    PROVE  HostStep
<1>1. CASE EndAccept(d)
  <2>1. dmn[d].pc = "draining" /\ SetDaemon(d, "closed") /\ UNCHANGED socket
    BY <1>1 DEF EndAccept
  <2>2. socket[dmn[d].at] # Stranger BY <2>1 DEF StrangersApart, StrangerApart
  <2> QED BY <2>1, <2>2, PhaseStep, Phases
<1>2. CASE Cleanup(d)
  <2>1. /\ dmn[d].pc = "closed" /\ SetDaemon(d, "gone")
        /\ socket' = [socket EXCEPT ![dmn[d].at] = Nobody]
    BY <1>2 DEF Cleanup
  <2> QED BY <2>1, PathStep, Phases
<1>3. CASE Fault(d)
  <2>0. UNCHANGED socket BY <1>3 DEF Fault
  <2>1. CASE dmn[d].pc = "serving" /\ SetDaemon(d, "draining")
    <3>1. socket[dmn[d].at] # Stranger BY <2>1 DEF StrangersApart, StrangerApart
    <3> QED BY <2>0, <2>1, <3>1, PhaseStep, Phases
  <2>2. CASE dmn[d].pc \notin {"unborn", "gone"} /\ SetDaemon(d, "gone")
    BY <2>0, <2>2, PhaseStep, Phases
  <2> QED BY <1>3, <2>1, <2>2 DEF Fault
<1> QED BY <1>1, <1>2, <1>3, CheckStaleHost, RemoveStaleHost, BindHost DEF DaemonStep

-----------------------------------------------------------------------------
(* Commands.                                                                *)

LEMMA KnowStep ==
    ASSUME TypeOK, CommandsKnow, HostStep, NEW l \in Launchers, Others(l),
           Placed(run'[l]), Told(run'[l], dmn', socket')
    PROVE  CommandsKnow'
<1>1. Evolves(dmn, dmn', socket, socket') BY DEF HostStep
<1>2. \A m \in Launchers :
         m # l => Placed(run'[m]) /\ Told(run'[m], dmn', socket')
  BY <1>1, ToldStays, TypeFacts DEF CommandsKnow, Others
<1>3. \A m \in Launchers : Placed(run'[m]) /\ Told(run'[m], dmn', socket') BY <1>2
<1> QED BY <1>3 DEF CommandsKnow

LEMMA NobodyMoves ==
    ASSUME TypeOK, CommandsKnow, HostStep, UNCHANGED run
    PROVE  CommandsKnow'
<1>1. Evolves(dmn, dmn', socket, socket') BY DEF HostStep
<1>2. \A m \in Launchers : Placed(run'[m]) /\ Told(run'[m], dmn', socket')
  BY <1>1, ToldStays, TypeFacts DEF CommandsKnow
<1> QED BY <1>2 DEF CommandsKnow

(* What a launcher's step adds to the invariant apart from the calm.        *)
CommandStep(l) ==
    /\ run' \in [Launchers -> LauncherStates] /\ Others(l)
    /\ lock' \in Launchers \cup {Free}
    /\ HostStep /\ CommandsKnow'

LEMMA FinishKnows ==
    ASSUME TypeOK, StrangersApart, CommandsKnow, UNCHANGED <<dmn, socket>>,
           NEW l \in Launchers, NEW res \in {"ok", "failed"}, Finish(l, res),
           run[l].pc \notin {"idle", "done"},
           res = "ok" => \/ run[l].pc = "await"
                         \/ run[l].pc = "vanish" /\ run[l].cmd = "stop"
                         \/ run[l].told = Nobody
    PROVE  CommandStep(l)
<1>1. HostStep BY HostStill
<1>2. /\ run' \in [Launchers -> LauncherStates] /\ Others(l)
      /\ run'[l].pc = "done" /\ run'[l].result = res
      /\ run'[l].call = run[l].call /\ run'[l].told = run[l].told
      /\ res = "ok" => run'[l].peer = run[l].peer
      /\ Kept(run[l], run'[l])
      /\ lock' \in Launchers \cup {Free}
  BY FinishEffect
<1>3. Placed(run[l]) /\ Told(run[l], dmn, socket) BY DEF CommandsKnow
<1>4. Placed(run'[l]) BY <1>2, <1>3 DEF Placed, Kept
<1>5. Told(run'[l], dmn', socket')
  BY <1>2, <1>3 DEF Told, Placed, Kept, Forgotten
<1> QED BY <1>1, <1>2, <1>4, <1>5, KnowStep DEF CommandStep

(* A command goes on without an answer to keep in mind.                     *)
LEMMA GoesOnKnows ==
    ASSUME TypeOK, StrangersApart, CommandsKnow, HostStep,
           NEW l \in Launchers, run[l].pc \notin {"idle", "done", "ack"},
           run[l].pc # "vanish" \/ EndpointGone \/ run[l].cmd \notin {"restart", "update"},
           run' \in [Launchers -> LauncherStates], Others(l),
           run'[l].pc \in {"lock", "spawn", "dial"}, run'[l].told = run[l].told,
           run'[l].result = run[l].result, Kept(run[l], run'[l]), lock' = lock,
           run'[l].call = "status" => run[l].told = Nobody
    PROVE  CommandStep(l)
<1>1. Placed(run[l]) /\ Told(run[l], dmn, socket) /\ run[l] \in LauncherStates
  BY TypeFacts DEF CommandsKnow
<1>2. Told(run[l], dmn', socket') BY <1>1, ToldStays DEF HostStep
<1>3. Placed(run'[l]) BY <1>1 DEF Placed, Kept
<1>4. CASE run[l].pc # "vanish" \/ run[l].cmd \notin {"restart", "update"}
  <2>1. Told(run'[l], dmn', socket') BY <1>1, <1>2, <1>4 DEF Told, Placed, Kept, Forgotten
  <2> QED BY <1>3, <2>1, KnowStep DEF CommandStep, TypeOK
<1>5. CASE run[l].pc = "vanish" /\ EndpointGone
  <2>1. run[l].told \in Daemons \cup {Nobody} BY <1>1, LauncherFields
  <2>2. run[l].told # Nobody => Ended(dmn[run[l].told])
    BY <1>1, <1>5 DEF Told, Placed
  <2>3. run[l].told # Nobody => \A c \in Candidates : socket'[c] # run[l].told
    BY <1>5, <2>1, <2>2, Numbers DEF HostStep, Evolves, EndpointGone, Ended
  <2>4. Told(run'[l], dmn', socket')
    BY <1>1, <1>2, <1>5, <2>3 DEF Told, Placed, Kept, Forgotten
  <2> QED BY <1>3, <2>4, KnowStep DEF CommandStep, TypeOK
<1> QED BY <1>4, <1>5

LEMMA ResolveKnows ==
    ASSUME TypeOK, StrangersApart, CommandsKnow, UNCHANGED <<dmn, socket>>,
           NEW l \in Launchers, NEW outcome \in Heard, Resolve(l, outcome),
           run[l].pc \in {"dial", "await"},
           outcome = "hello" => run[l].pc = "await" /\ run[l].peer \in Daemons
    PROVE  CommandStep(l)
<1>0. HostStep BY HostStill
<1>1. Placed(run[l]) BY DEF CommandsKnow
<1>2. {"lock", "spawn", "dial"} \subseteq LauncherPcs /\ {"halt", "ready"} \subseteq Calls
  BY DEF LauncherPcs, Calls
<1>3. CASE outcome = "hello" /\ Finish(l, "ok") BY <1>3, FinishKnows
<1>4. CASE Finish(l, "failed") BY <1>4, FinishKnows
<1>5. ASSUME NEW p \in {"lock", "spawn"}, run[l].call # "status", Goto(l, p)
      PROVE  CommandStep(l)
  <2>1. /\ run' \in [Launchers -> LauncherStates] /\ Others(l)
        /\ run'[l].pc = p /\ run'[l].call = run[l].call
        /\ run'[l].told = run[l].told
        /\ run'[l].result = run[l].result /\ Kept(run[l], run'[l])
        /\ lock' = lock
    BY <1>2, <1>5, GotoEffect
  <2> QED BY <1>0, <1>5, <2>1, GoesOnKnows
<1>6. ASSUME NEW q \in {"halt", "ready"}, Call(l, q) PROVE CommandStep(l)
  <2>1. /\ run' \in [Launchers -> LauncherStates] /\ Others(l)
        /\ run'[l].pc = "dial" /\ run'[l].call = q
        /\ run'[l].told = run[l].told
        /\ run'[l].result = run[l].result /\ Kept(run[l], run'[l])
        /\ lock' = lock
    BY <1>2, <1>6, CallEffect
  <2> QED BY <1>0, <2>1, GoesOnKnows
<1>7. CASE run[l].call = "halt" /\ outcome = "hello" /\ AfterHalt(l, "hello")
  <2>1. /\ run' \in [Launchers -> LauncherStates] /\ Others(l)
        /\ run'[l].pc = "ack" /\ run'[l].call = run[l].call
        /\ run'[l].told = run[l].peer
        /\ run'[l].result = run[l].result /\ Kept(run[l], run'[l]) /\ lock' = lock
    BY <1>7, HaltedEffect
  <2>2. Placed(run'[l]) /\ Told(run'[l], dmn', socket')
    BY <1>1, <1>7, <2>1, Numbers DEF Placed, Told, Kept
  <2> QED BY <1>0, <2>1, <2>2, KnowStep DEF CommandStep, TypeOK
<1>8. CASE run[l].call = "status" /\ AfterStatus(l, outcome)
  <2>1. /\ run' \in [Launchers -> LauncherStates] /\ Others(l)
        /\ run'[l].pc = "replace" /\ run'[l].call = run[l].call
        /\ run'[l].told = run[l].told
        /\ run'[l].result = run[l].result /\ Kept(run[l], run'[l]) /\ lock' = lock
    BY <1>8, StatusEffect
  <2>2. Placed(run'[l]) /\ Told(run'[l], dmn', socket')
    BY <1>1, <1>8, <2>1 DEF Placed, Told, Kept
  <2> QED BY <1>0, <2>1, <2>2, KnowStep DEF CommandStep, TypeOK
<1> QED BY <1>3, <1>4, <1>5, <1>6, <1>7, <1>8, ResolveCases

LEMMA ConnectedPeer ==
    ASSUME NEW s, Connectable(s) PROVE s = Stranger \/ s \in Daemons
BY DEF Connectable

(* A dial that somebody accepts.                                            *)
LEMMA DialEffect ==
    ASSUME TypeOK, NEW l \in Launchers, Dial(l), Answering # {}
    PROVE  /\ run' \in [Launchers -> LauncherStates] /\ Others(l)
           /\ run'[l].pc = "await" /\ run'[l].call = run[l].call
           /\ run'[l].told = run[l].told
           /\ run'[l].result = run[l].result /\ Kept(run[l], run'[l])
           /\ lock' = lock
           /\ \E c \in Candidates :
                 /\ run'[l].peer = socket[c] /\ Connectable(socket[c])
                 /\ \A e \in Candidates : Connectable(socket[e]) => c <= e
<1> DEFINE k == run[l]
           c == Min(Answering)
           r == [k EXCEPT !.pc = "await", !.peer = socket[c]]
<1>1. k \in LauncherStates BY TypeFacts
<1>2. run' = [run EXCEPT ![l] = r] /\ lock' = lock
  BY <1>1 DEF Dial, TypeOK, LauncherStates
<1>3. c \in Answering /\ \A e \in Answering : c <= e
  BY MinIsMember, Numbers DEF Answering
<1>4. c \in Candidates /\ Connectable(socket[c]) BY <1>3 DEF Answering
<1> HIDE DEF c
<1>5. /\ 1 \in Versions /\ "await" \in LauncherPcs /\ "stop" \in CommandNames
      /\ "probe" \in Calls /\ socket[c] \in Peers
  BY <1>4, Numbers, TypeFacts DEF LauncherPcs, CommandNames, Calls
<1>6. r \in LauncherStates BY <1>1, <1>5, LauncherUpdates
<1>7. /\ r.pc = "await" /\ r.call = k.call /\ r.told = k.told /\ r.result = k.result
      /\ Kept(k, r) /\ r.peer = socket[c]
  BY <1>1 DEF LauncherStates, Kept
<1> HIDE DEF r
<1>8. run' \in [Launchers -> LauncherStates] /\ run'[l] = r /\ Others(l)
  BY <1>2, <1>6, OneMoves
<1>9. \A e \in Candidates : Connectable(socket[e]) => c <= e BY <1>3 DEF Answering
<1> QED BY <1>2, <1>4, <1>7, <1>8, <1>9

LEMMA DialKnows ==
    ASSUME TypeOK, StrangersApart, CommandsKnow, NEW l \in Launchers, Dial(l)
    PROVE  CommandStep(l)
<1>1. run[l].pc = "dial" /\ UNCHANGED <<dmn, socket>> BY DEF Dial
<1>2. CASE Answering = {}
  <2>1. Resolve(l, "absent") BY <1>2 DEF Dial
  <2> QED BY <1>1, <2>1, ResolveKnows DEF Heard
<1>3. CASE Answering # {}
  <2>1. /\ run' \in [Launchers -> LauncherStates] /\ Others(l)
        /\ run'[l].pc = "await" /\ run'[l].call = run[l].call
        /\ run'[l].told = run[l].told
        /\ run'[l].result = run[l].result /\ Kept(run[l], run'[l])
        /\ lock' = lock
    BY <1>3, DialEffect
  <2>2. PICK c \in Candidates : run'[l].peer = socket[c] /\ Connectable(socket[c])
    BY <1>3, DialEffect
  <2>3. Placed(run[l]) /\ Told(run[l], dmn, socket) BY DEF CommandsKnow
  <2>4. Placed(run'[l])
    BY <1>1, <2>1, <2>2, <2>3, ConnectedPeer, Numbers DEF Placed, Kept
  <2>5. Told(run'[l], dmn', socket')
    BY <1>1, <2>1, <2>2, <2>3 DEF Told, Placed, Kept, Forgotten
  <2> QED BY <1>1, <2>1, <2>4, <2>5, KnowStep, HostStill DEF CommandStep, TypeOK
<1> QED BY <1>2, <1>3

LEMMA FrameFacts ==
    ASSUME TypeOK, NEW l \in Launchers, run[l].pc = "await", Placed(run[l]),
           NEW outcome \in FirstFrames(l)
    PROVE  /\ outcome \in Heard /\ outcome # "absent"
           /\ outcome = "hello" =>
                 run[l].peer \in Daemons /\ dmn[run[l].peer].ver = run[l].ver
           /\ outcome # "hello" /\ run[l].peer # Stranger /\ dmn[run[l].peer].pc # "gone"
                 => dmn[run[l].peer].ver # run[l].ver
<1> DEFINE p == run[l].peer
<1>1. p \in Daemons \cup {Stranger}
  BY TypeFacts, LauncherFields DEF Placed, Peers
<1>2. CASE p = Stranger \/ dmn[p].pc = "gone"
  <2>1. outcome = "other" BY <1>2 DEF FirstFrames
  <2> QED BY <1>2, <2>1 DEF Heard
<1>3. CASE ~(p = Stranger \/ dmn[p].pc = "gone") /\ dmn[p].ver = run[l].ver
  <2>1. outcome = "hello" BY <1>3 DEF FirstFrames
  <2> QED BY <1>1, <1>3, <2>1 DEF Heard
<1>4. CASE ~(p = Stranger \/ dmn[p].pc = "gone") /\ dmn[p].ver # run[l].ver
  <2>1. outcome \in {IF frame = "protocolError" \/ dmn[p].ver > run[l].ver
                       THEN "other" ELSE "older" : frame \in MismatchFrames}
    BY <1>4 DEF FirstFrames
  <2>2. outcome \in {"other", "older"} BY <2>1
  <2> QED BY <1>4, <2>2 DEF Heard
<1> QED BY <1>2, <1>3, <1>4

LEMMA AnswerKnows ==
    ASSUME TypeOK, StrangersApart, CommandsKnow, NEW l \in Launchers,
           Answer(l) \/ NoAnswer(l)
    PROVE  CommandStep(l)
<1>1. run[l].pc = "await" /\ UNCHANGED <<dmn, socket>> BY DEF Answer, NoAnswer
<1>2. Placed(run[l]) BY DEF CommandsKnow
<1>3. CASE Answer(l)
  <2>1. PICK outcome \in FirstFrames(l) : Resolve(l, outcome) BY <1>3 DEF Answer
  <2> QED BY <1>1, <1>2, <2>1, FrameFacts, ResolveKnows
<1>4. CASE NoAnswer(l)
  <2>1. Resolve(l, "other") BY <1>4 DEF NoAnswer
  <2> QED BY <1>1, <2>1, ResolveKnows DEF Heard
<1> QED BY <1>3, <1>4

LEMMA StartEffect ==
    ASSUME TypeOK, NEW l \in Launchers, NEW cmd \in Commands[l], Start(l, cmd)
    PROVE  /\ run' \in [Launchers -> LauncherStates] /\ Others(l)
           /\ run'[l].pc = FirstStep(cmd).pc /\ run'[l].call = FirstStep(cmd).call
           /\ run'[l].cmd = cmd /\ cmd \in CommandNames
           /\ run'[l].pc \in {"dial", "lock"}
           /\ run'[l].told = run[l].told
           /\ run'[l].result = run[l].result
           /\ lock' = lock
<1> DEFINE k == run[l]
           f == FirstStep(cmd)
           r == [k EXCEPT !.cmd = cmd, !.ver = exe, !.pc = f.pc, !.call = f.call]
<1>1. k \in LauncherStates BY TypeFacts
<1>2. run' = [run EXCEPT ![l] = r] /\ lock' = lock
  BY <1>1 DEF Start, TypeOK, LauncherStates
<1>3. cmd \in CommandNames BY LaunchAssumption
<1>4. f.pc \in {"dial", "lock"} /\ f.call \in Calls
  <2>1. CASE cmd = "ensure" BY <2>1 DEF FirstStep, Calls
  <2>2. CASE cmd = "stop" BY <2>2 DEF FirstStep, Calls
  <2>3. CASE cmd = "restart" BY <2>3 DEF FirstStep, Calls
  <2>4. CASE cmd = "update" BY <2>4 DEF FirstStep, Calls
  <2> QED BY <1>3, <2>1, <2>2, <2>3, <2>4 DEF CommandNames
<1> HIDE DEF f
<1>5. f.pc \in LauncherPcs /\ Nobody \in Peers /\ exe \in Versions
  BY <1>4 DEF LauncherPcs, Peers, TypeOK
<1>6. r \in LauncherStates BY <1>1, <1>3, <1>4, <1>5, LauncherUpdates
<1>7. /\ r.pc = f.pc /\ r.call = f.call /\ r.cmd = cmd /\ r.told = k.told
      /\ r.result = k.result
  BY <1>1 DEF LauncherStates
<1> HIDE DEF r
<1>8. run' \in [Launchers -> LauncherStates] /\ run'[l] = r /\ Others(l)
  BY <1>2, <1>6, OneMoves
<1> QED BY <1>2, <1>3, <1>4, <1>7, <1>8 DEF f

LEMMA StartKnows ==
    ASSUME TypeOK, StrangersApart, CommandsKnow, NEW l \in Launchers,
           NEW cmd \in Commands[l], Start(l, cmd)
    PROVE  CommandStep(l)
<1>1. run[l].pc = "idle" /\ UNCHANGED <<dmn, socket>> BY DEF Start
<1>2. Placed(run[l]) BY DEF CommandsKnow
<1>3. /\ run' \in [Launchers -> LauncherStates] /\ Others(l)
      /\ run'[l].pc \in {"dial", "lock"} /\ run'[l].told = run[l].told
      /\ run'[l].result = run[l].result /\ lock' = lock
      /\ run'[l].cmd \in CommandNames
  BY StartEffect
<1>4. Placed(run'[l]) /\ Told(run'[l], dmn', socket')
  BY <1>1, <1>2, <1>3 DEF Placed, Told, CommandNames
<1> QED BY <1>1, <1>3, <1>4, KnowStep, HostStill DEF CommandStep, TypeOK

LEMMA TakeLockEffect ==
    ASSUME TypeOK, NEW l \in Launchers, TakeLock(l)
    PROVE  /\ run' \in [Launchers -> LauncherStates] /\ Others(l)
           /\ run'[l].pc = "dial" /\ run'[l].call \in {"reprobe", "restatus"}
           /\ run'[l].told = run[l].told
           /\ run'[l].result = run[l].result /\ Kept(run[l], run'[l])
           /\ lock = Free /\ lock' = l
<1> DEFINE k == run[l]
           q == IF k.cmd = "ensure" THEN "reprobe" ELSE "restatus"
           r == [k EXCEPT !.pc = "dial", !.call = q]
<1>1. k \in LauncherStates BY TypeFacts
<1>2. run' = [run EXCEPT ![l] = r] /\ lock = Free /\ lock' = l
  BY <1>1 DEF TakeLock, TypeOK, LauncherStates
<1>3. /\ 1 \in Versions /\ "dial" \in LauncherPcs /\ "stop" \in CommandNames
      /\ Nobody \in Peers /\ q \in Calls /\ q \in {"reprobe", "restatus"}
  BY Numbers DEF LauncherPcs, CommandNames, Peers, Calls
<1> HIDE DEF q
<1>4. r \in LauncherStates BY <1>1, <1>3, LauncherUpdates
<1>5. /\ r.pc = "dial" /\ r.call = q /\ r.told = k.told
      /\ r.result = k.result /\ Kept(k, r)
  BY <1>1 DEF LauncherStates, Kept
<1> HIDE DEF r
<1>6. run' \in [Launchers -> LauncherStates] /\ run'[l] = r /\ Others(l)
  BY <1>2, <1>4, OneMoves
<1> QED BY <1>2, <1>3, <1>5, <1>6

LEMMA TakeLockKnows ==
    ASSUME TypeOK, StrangersApart, CommandsKnow, NEW l \in Launchers, TakeLock(l)
    PROVE  CommandStep(l)
<1>1. run[l].pc = "lock" /\ UNCHANGED <<dmn, socket>> BY DEF TakeLock
<1>2. Placed(run[l]) /\ Told(run[l], dmn, socket) BY DEF CommandsKnow
<1>3. /\ run' \in [Launchers -> LauncherStates] /\ Others(l)
      /\ run'[l].pc = "dial" /\ run'[l].call \in {"reprobe", "restatus"}
      /\ run'[l].told = run[l].told
      /\ run'[l].result = run[l].result /\ Kept(run[l], run'[l])
      /\ lock' = l
  BY TakeLockEffect
<1>4. Placed(run'[l]) BY <1>1, <1>2, <1>3 DEF Placed, Kept
<1>5. Told(run'[l], dmn', socket')
  BY <1>1, <1>2, <1>3 DEF Placed, Told, Kept, Forgotten
<1> QED BY <1>1, <1>3, <1>4, <1>5, KnowStep, HostStill DEF CommandStep, TypeOK

LEMMA SpawnKnows ==
    ASSUME TypeOK, StrangersApart, CommandsKnow, NEW l \in Launchers, SpawnDaemon(l)
    PROVE  CommandStep(l)
<1>1. run[l].pc = "spawn" /\ Unborn # {} /\ UNCHANGED socket /\ Call(l, "ready")
  BY DEF SpawnDaemon
<1>2. PICK v \in {exe, run[l].ver} :
         dmn' = [dmn EXCEPT ![Min(Unborn)] = [pc |-> "check", ver |-> v, at |-> 1]]
  BY DEF SpawnDaemon
<1>3. v \in Versions BY TypeFacts, LauncherFields DEF TypeOK
<1>4. HostStep BY <1>1, <1>2, <1>3, BirthStep
<1>5. "ready" \in Calls BY DEF Calls
<1>6. /\ run' \in [Launchers -> LauncherStates] /\ Others(l)
      /\ run'[l].pc = "dial" /\ run'[l].call = "ready"
      /\ run'[l].told = run[l].told
      /\ run'[l].result = run[l].result /\ Kept(run[l], run'[l])
      /\ lock' = lock
  BY <1>1, <1>5, CallEffect
<1> QED BY <1>1, <1>4, <1>6, GoesOnKnows

LEMMA StoppedHost ==
    ASSUME TypeOK, StrangersApart, CommandsKnow, NEW l \in Launchers, Stopped(l)
    PROVE  /\ run[l].told \in Daemons /\ HostStep /\ Ended(dmn'[run[l].told])
           /\ UNCHANGED socket
<1> DEFINE d == run[l].told
<1>1. run[l].pc = "ack" /\ UNCHANGED socket BY DEF Stopped
<1>2. d \in Daemons BY <1>1, TypeFacts, LauncherFields DEF CommandsKnow, Placed
<1>3. CASE dmn[d].pc = "serving" /\ SetDaemon(d, "draining")
  <2>1. socket[dmn[d].at] # Stranger BY <1>2, <1>3 DEF StrangersApart, StrangerApart
  <2>2. HostStep BY <1>1, <1>2, <1>3, <2>1, PhaseStep, Phases
  <2>3. dmn'[d].pc = "draining" BY <1>2, <1>3, SetDaemonEffect, Phases
  <2> QED BY <1>1, <1>2, <2>2, <2>3 DEF Ended
<1>4. CASE dmn[d].pc = "gone" /\ UNCHANGED dmn
  BY <1>1, <1>2, <1>4, HostStill DEF Ended
<1> QED BY <1>3, <1>4 DEF Stopped

LEMMA StoppedKnows ==
    ASSUME TypeOK, StrangersApart, CommandsKnow, NEW l \in Launchers, Stopped(l)
    PROVE  CommandStep(l)
<1>1. run[l].pc = "ack" /\ Goto(l, "vanish") BY DEF Stopped
<1>2. HostStep /\ Ended(dmn'[run[l].told]) BY StoppedHost
<1>3. /\ run' \in [Launchers -> LauncherStates] /\ Others(l)
      /\ run'[l].pc = "vanish" /\ run'[l].call = run[l].call
      /\ run'[l].told = run[l].told /\ run'[l].result = run[l].result
      /\ Kept(run[l], run'[l]) /\ lock' = lock
  BY <1>1, GotoEffect DEF LauncherPcs
<1>4. Placed(run[l]) BY DEF CommandsKnow
<1>5. Placed(run'[l]) /\ Told(run'[l], dmn', socket')
  BY <1>1, <1>2, <1>3, <1>4 DEF Placed, Told, Kept
<1> QED BY <1>2, <1>3, <1>5, KnowStep DEF CommandStep, TypeOK

(* The three ways on from the paths that have disappeared.                  *)
LEMMA VanishedCases ==
    ASSUME TypeOK, CommandsKnow, NEW l \in Launchers, Vanished(l)
    PROVE  /\ run[l].pc = "vanish" /\ EndpointGone /\ UNCHANGED <<dmn, socket, calm>>
           /\ \/ run[l].cmd = "stop" /\ Finish(l, "ok")
              \/ run[l].cmd = "ensure" /\ Call(l, "final")
              \/ run[l].cmd \in {"restart", "update"} /\ Goto(l, "spawn")
              \/ run[l].cmd = "update" /\ Goto(l, "lock")
<1>1. run[l].pc = "vanish" /\ EndpointGone /\ UNCHANGED <<dmn, socket, calm>> BY DEF Vanished
<1>2. run[l].cmd \in CommandNames
  BY <1>1, TypeFacts, LauncherFields DEF CommandsKnow, Placed
<1>3. CASE run[l].cmd = "stop"
  <2>1. Finish(l, "ok") BY <1>3 DEF Vanished
  <2> QED BY <1>1, <1>3, <2>1
<1>4. CASE run[l].cmd = "ensure"
  <2>1. Call(l, "final") BY <1>4 DEF Vanished
  <2> QED BY <1>1, <1>4, <2>1
<1>5. CASE run[l].cmd = "restart"
  <2>1. Goto(l, "spawn") BY <1>5 DEF Vanished
  <2> QED BY <1>1, <1>5, <2>1
<1>6. CASE run[l].cmd = "update"
  <2>1. Goto(l, IF lock = l THEN "spawn" ELSE "lock") BY <1>6 DEF Vanished
  <2> QED BY <1>1, <1>6, <2>1
<1> QED BY <1>2, <1>3, <1>4, <1>5, <1>6 DEF CommandNames

LEMMA VanishedKnows ==
    ASSUME TypeOK, StrangersApart, CommandsKnow, NEW l \in Launchers, Vanished(l)
    PROVE  CommandStep(l)
<1>1. run[l].pc = "vanish" /\ EndpointGone /\ UNCHANGED <<dmn, socket>> BY VanishedCases
<1>2. Placed(run[l]) /\ HostStep BY <1>1, HostStill DEF CommandsKnow
<1>3. "final" \in Calls /\ {"lock", "spawn"} \subseteq LauncherPcs BY DEF Calls, LauncherPcs
<1>4. CASE run[l].cmd = "stop" /\ Finish(l, "ok") BY <1>1, <1>4, FinishKnows
<1>5. CASE run[l].cmd = "ensure" /\ Call(l, "final")
  <2>1. /\ run' \in [Launchers -> LauncherStates] /\ Others(l)
        /\ run'[l].pc = "dial" /\ run'[l].call = "final"
        /\ run'[l].told = run[l].told
        /\ run'[l].result = run[l].result /\ Kept(run[l], run'[l])
        /\ lock' = lock
    BY <1>3, <1>5, CallEffect
  <2> QED BY <1>1, <1>2, <2>1, GoesOnKnows
<1>6. ASSUME NEW p \in {"spawn", "lock"}, Goto(l, p) PROVE CommandStep(l)
  <2>1. /\ run' \in [Launchers -> LauncherStates] /\ Others(l)
        /\ run'[l].pc = p /\ run'[l].call = run[l].call
        /\ run'[l].told = run[l].told
        /\ run'[l].result = run[l].result /\ Kept(run[l], run'[l])
        /\ lock' = lock
    BY <1>3, <1>6, GotoEffect
  <2>2. run'[l].call = "status" => run[l].told = Nobody BY <1>2, <2>1 DEF Placed
  <2> QED BY <1>1, <1>2, <2>1, <2>2, GoesOnKnows
<1> QED BY <1>4, <1>5, <1>6, VanishedCases

LEMMA ReplaceKnows ==
    ASSUME TypeOK, StrangersApart, CommandsKnow, NEW l \in Launchers, Replace(l)
    PROVE  CommandStep(l) /\ exe' \in Versions
<1>1. run[l].pc = "replace" /\ UNCHANGED <<dmn, socket>> BY DEF Replace
<1>2. Placed(run[l]) /\ HostStep BY <1>1, HostStill DEF CommandsKnow
<1>3. exe' \in Versions BY LaunchAssumption DEF Replace, TypeOK, Versions
<1>4. Finish(l, "ok") \/ Call(l, "halt") BY DEF Replace
<1>5. CASE Finish(l, "ok") BY <1>1, <1>2, <1>3, <1>5, FinishKnows DEF Placed
<1>6. CASE Call(l, "halt")
  <2>1. /\ run' \in [Launchers -> LauncherStates] /\ Others(l)
        /\ run'[l].pc = "dial" /\ run'[l].call = "halt"
        /\ run'[l].told = run[l].told
        /\ run'[l].result = run[l].result /\ Kept(run[l], run'[l])
        /\ lock' = lock
    BY <1>6, CallEffect DEF Calls
  <2> QED BY <1>1, <1>2, <1>3, <2>1, GoesOnKnows
<1> QED BY <1>4, <1>5, <1>6

(* A wait that expires, a spawn that fails, a kill.                         *)
LEMMA FailureKnows ==
    ASSUME TypeOK, StrangersApart, CommandsKnow, NEW l \in Launchers,
           \/ LockTimeout(l) \/ SpawnFails(l) \/ VanishTimeout(l) \/ ReadyTimeout(l)
           \/ AckTimeout(l) \/ KillLauncher(l)
    PROVE  CommandStep(l)
<1>1. /\ run[l].pc \notin {"idle", "done"} /\ Finish(l, "failed")
      /\ UNCHANGED <<dmn, socket>>
  BY DEF LockTimeout, SpawnFails, VanishTimeout, ReadyTimeout, AckTimeout, KillLauncher
<1> QED BY <1>1, FinishKnows

LEMMA LauncherKnows ==
    ASSUME TypeOK, StrangersApart, CommandsKnow, NEW l \in Launchers, LauncherStep(l)
    PROVE  CommandStep(l)
BY StartKnows, DialKnows, AnswerKnows, TakeLockKnows, SpawnKnows, StoppedKnows,
   VanishedKnows, ReplaceKnows, FailureKnows
   DEF LauncherStep, Proceed

-----------------------------------------------------------------------------
(* The calm: what the lock guards.                                          *)

NoneStarting == \A d \in Daemons : ~Starting(dmn[d])
NoneEnding == \A d \in Daemons : ~Ending(dmn[d])

LEMMA Watched ==
    ASSUME TypeOK, CalmInv
    PROVE  /\ lock = Free => NoneStarting /\ NoneEnding
           /\ lock # Free /\ run[lock].pc # "vanish" => NoneEnding
           /\ lock # Free /\ ~Readying(run[lock]) => NoneStarting
BY DEF CalmInv, EndsWatched, StartsWatched, NoneStarting, NoneEnding

LEMMA NotFree == \A l \in Launchers : l # Free
BY LaunchAssumption

(* The holder moves on, among daemons that do not move.                     *)
LEMMA HolderStep ==
    ASSUME TypeOK, CalmInv, UNCHANGED <<dmn, socket>>, NEW l \in Launchers, lock = l,
           lock' = l, Others(l), Kept(run[l], run'[l]),
           NoneEnding, NoneStarting \/ Readying(run'[l]), HolderSees(run'[l], dmn)
    PROVE  CalmInv'
<1>1. Locked' BY NotFree DEF CalmInv, Locked, Others, Kept
<1>2. BoundAtFirst' BY DEF CalmInv, BoundAtFirst, Bound
<1>3. EndsWatched' BY DEF EndsWatched, NoneEnding, Ending
<1>4. NoneBound(dmn) => NoneBound(dmn') BY DEF NoneBound, Bound
<1>5. NoneOf(dmn, run[l].ver) => NoneOf(dmn', run'[l].ver) BY DEF NoneOf, Bound, Kept
<1>6. StartsWatched'
  <2>1. StartsWatched BY DEF CalmInv
  <2> QED BY <1>4, <1>5, <2>1, NotFree
          DEF StartsWatched, NoneStarting, Starting
<1>7. HolderSees(run'[lock'], dmn')
  <2>1. NoneOf(dmn, run'[l].ver) => NoneOf(dmn', run'[l].ver) BY DEF NoneOf, Bound
  <2> QED BY <1>4, <2>1 DEF HolderSees
<1> QED BY <1>1, <1>2, <1>3, <1>6, <1>7 DEF CalmInv

(* The holder lets go.                                                      *)
LEMMA ReleaseStep ==
    ASSUME TypeOK, CalmInv, UNCHANGED <<dmn, socket>>, NEW l \in Launchers, lock = l,
           lock' = Free, Others(l), Kept(run[l], run'[l]), run'[l].pc = "done",
           NoneEnding, NoneStarting
    PROVE  CalmInv'
<1>1. Locked' BY NotFree DEF CalmInv, Locked, Others, Kept, Holding
<1>2. BoundAtFirst' BY DEF CalmInv, BoundAtFirst, Bound
<1>3. EndsWatched' BY DEF EndsWatched, NoneEnding, Ending
<1>4. StartsWatched' BY DEF StartsWatched, NoneStarting, Starting
<1> QED BY <1>1, <1>2, <1>3, <1>4 DEF CalmInv

(* A command without the lock moves on without it.                          *)
LEMMA OutsideStep ==
    ASSUME TypeOK, CalmInv, UNCHANGED <<dmn, socket>>, NEW l \in Launchers, lock # l,
           lock' = lock, Others(l), run'[l].cmd \in {"none", "ensure", "restart"},
           ~Holding(run'[l])
    PROVE  CalmInv'
<1>0. lock # Free => lock \in Launchers /\ run'[lock] = run[lock]
  BY DEF TypeOK, Others
<1>1. Locked' BY DEF CalmInv, Locked, Others
<1>2. BoundAtFirst' BY DEF CalmInv, BoundAtFirst, Bound
<1>3. EndsWatched' BY <1>0 DEF CalmInv, EndsWatched, Ending
<1>4. NoneBound(dmn) => NoneBound(dmn') BY DEF NoneBound, Bound
<1>5. lock # Free /\ NoneOf(dmn, run[lock].ver) => NoneOf(dmn', run'[lock].ver)
  BY <1>0 DEF NoneOf, Bound
<1>6. StartsWatched'
  <2>1. StartsWatched BY DEF CalmInv
  <2> QED BY <1>0, <1>4, <1>5, <2>1 DEF StartsWatched, Starting
<1>7. lock' # Free => HolderSees(run'[lock'], dmn')
  <2>1. lock # Free => HolderSees(run[lock], dmn) BY DEF CalmInv
  <2> QED BY <1>0, <1>4, <1>5, <2>1 DEF HolderSees
<1> QED BY <1>1, <1>2, <1>3, <1>6, <1>7 DEF CalmInv

(* A command ends, with or without the lock.                                *)
LEMMA FinishCalm ==
    ASSUME TypeOK, CalmInv, UNCHANGED <<dmn, socket>>, NEW l \in Launchers,
           NEW res \in {"ok", "failed"}, Finish(l, res),
           lock = l => NoneEnding /\ NoneStarting
    PROVE  CalmInv'
<1>1. /\ Others(l) /\ run'[l].pc = "done" /\ Kept(run[l], run'[l])
      /\ lock = l => lock' = Free
      /\ lock # l => lock' = lock
  BY FinishEffect
<1>2. CASE lock = l BY <1>1, <1>2, ReleaseStep
<1>3. CASE lock # l
  <2>1. run'[l].cmd \in {"none", "ensure", "restart"} /\ ~Holding(run'[l])
    BY <1>1 DEF CalmInv, Locked, Kept, Holding
  <2> QED BY <1>1, <1>3, <2>1, OutsideStep
<1> QED BY <1>2, <1>3

(* With nothing ending, a bound daemon is reached at the first path.        *)
LEMMA BoundAnswers ==
    ASSUME CalmInv, NoneEnding, NEW d \in Daemons, Bound(dmn[d])
    PROVE  socket[1] = d /\ Connectable(socket[1]) /\ dmn[d].pc = "serving"
BY DEF CalmInv, BoundAtFirst, NoneEnding, Ending, Bound, Connectable

LEMMA ResolveCalm ==
    ASSUME TypeOK, CalmInv, UNCHANGED <<dmn, socket>>, NEW l \in Launchers,
           NEW outcome \in Heard, Resolve(l, outcome), run[l].pc \in {"dial", "await"},
           outcome = "hello" => /\ run[l].pc = "await" /\ run[l].peer \in Daemons
                                /\ dmn[run[l].peer].ver = run[l].ver,
           lock = l /\ outcome # "hello" /\ run[l].call # "ready"
               => NoneOf(dmn, run[l].ver)
    PROVE  CalmInv'
<1>1. {"lock", "spawn"} \subseteq LauncherPcs /\ {"halt", "ready"} \subseteq Calls
  BY DEF LauncherPcs, Calls
<1>2. CASE lock # l
  <2>1. run[l].call = "probe" BY <1>2 DEF CalmInv, Locked, Holding
  <2>2. \/ Finish(l, "ok") \/ Finish(l, "failed") \/ Goto(l, "lock")
    BY <2>1, ResolveCases
  <2>3. ASSUME Goto(l, "lock") PROVE CalmInv'
    <3>1. Others(l) /\ run'[l].pc = "lock" /\ Kept(run[l], run'[l]) /\ lock' = lock
      BY <1>1, <2>3, GotoEffect
    <3>2. run'[l].cmd \in {"none", "ensure", "restart"} /\ ~Holding(run'[l])
      BY <3>1 DEF CalmInv, Locked, Kept, Holding
    <3> QED BY <1>2, <3>1, <3>2, OutsideStep
  <2> QED BY <1>2, <2>2, <2>3, FinishCalm
<1>3. CASE lock = l
  <2>1. lock # Free /\ HolderSees(run[l], dmn) BY <1>3, NotFree DEF CalmInv
  <2>2. NoneEnding BY <1>3, <2>1, Watched
  <2>3. run[l].call # "ready" => NoneStarting BY <1>3, <2>1, Watched DEF Readying
  <2>4. CASE outcome = "hello" /\ Finish(l, "ok")
    <3>1. Bound(dmn[run[l].peer])
      BY <2>1, <2>4, Numbers DEF HolderSees, Bound
    <3>2. NoneStarting
      BY <1>3, <2>1, <2>4, <3>1 DEF CalmInv, StartsWatched, NoneOf, NoneStarting
    <3> QED BY <2>2, <2>4, <3>2, FinishCalm
  <2>5. CASE run[l].call # "ready" /\ Finish(l, "failed")
    BY <2>2, <2>3, <2>5, FinishCalm
  <2>6. ASSUME run[l].call # "ready", NEW p \in {"lock", "spawn"}, Goto(l, p),
               p = "spawn" => outcome # "hello"
        PROVE  CalmInv'
    <3>1. Others(l) /\ run'[l].pc = p /\ Kept(run[l], run'[l]) /\ lock' = lock
      BY <1>1, <2>6, GotoEffect
    <3>2. HolderSees(run'[l], dmn) BY <1>3, <2>6, <3>1 DEF HolderSees, Kept
    <3> QED BY <1>3, <2>2, <2>3, <2>6, <3>1, <3>2, HolderStep
  <2>7. ASSUME NEW q \in {"halt", "ready"}, Call(l, q), q = "halt" => run[l].call # "ready"
        PROVE  CalmInv'
    <3>1. /\ Others(l) /\ run'[l].pc = "dial" /\ run'[l].call = q
          /\ Kept(run[l], run'[l]) /\ lock' = lock
      BY <1>1, <2>7, CallEffect
    <3>2. HolderSees(run'[l], dmn) BY <3>1 DEF HolderSees
    <3>3. NoneStarting \/ Readying(run'[l]) BY <2>3, <2>7, <3>1 DEF Readying
    <3> QED BY <1>3, <2>2, <3>1, <3>2, <3>3, HolderStep
  <2>8. CASE run[l].call = "halt" /\ outcome = "hello" /\ AfterHalt(l, "hello")
    <3>1. Others(l) /\ run'[l].pc = "ack" /\ Kept(run[l], run'[l]) /\ lock' = lock
      BY <2>8, HaltedEffect
    <3>2. HolderSees(run'[l], dmn) BY <3>1 DEF HolderSees
    <3> QED BY <1>3, <2>2, <2>3, <2>8, <3>1, <3>2, HolderStep
  <2>9. CASE run[l].call = "status" /\ AfterStatus(l, outcome)
    <3>1. Others(l) /\ run'[l].pc = "replace" /\ Kept(run[l], run'[l]) /\ lock' = lock
      BY <2>9, StatusEffect
    <3>2. HolderSees(run'[l], dmn) BY <3>1 DEF HolderSees
    <3> QED BY <1>3, <2>2, <2>3, <2>9, <3>1, <3>2, HolderStep
  <2> QED BY <2>4, <2>5, <2>6, <2>7, <2>8, <2>9, ResolveCases
<1> QED BY <1>2, <1>3

LEMMA DialCalm ==
    ASSUME TypeOK, CalmInv, NEW l \in Launchers, Dial(l)
    PROVE  CalmInv'
<1>1. run[l].pc = "dial" /\ UNCHANGED <<dmn, socket>> BY DEF Dial
<1>2. lock = l => NoneEnding BY <1>1, Watched, NotFree
<1>3. CASE Answering = {}
  <2>1. Resolve(l, "absent") BY <1>3 DEF Dial
  <2>2. 1 \in Candidates BY Numbers
  <2>3. lock = l => NoneOf(dmn, run[l].ver)
    BY <1>2, <1>3, <2>2, BoundAnswers DEF NoneOf, Answering
  <2> QED BY <1>1, <2>1, <2>3, ResolveCalm DEF Heard
<1>4. CASE Answering # {}
  <2>1. /\ Others(l) /\ run'[l].pc = "await" /\ run'[l].call = run[l].call
        /\ Kept(run[l], run'[l]) /\ lock' = lock
    BY <1>4, DialEffect
  <2>2. PICK c \in Candidates :
           /\ run'[l].peer = socket[c] /\ Connectable(socket[c])
           /\ \A e \in Candidates : Connectable(socket[e]) => c <= e
    BY <1>4, DialEffect
  <2>3. CASE lock # l
    <3>1. run'[l].cmd \in {"none", "ensure", "restart"} /\ ~Holding(run'[l])
      BY <1>1, <2>1, <2>3 DEF CalmInv, Locked, Kept, Holding
    <3> QED BY <1>1, <2>1, <2>3, <3>1, OutsideStep
  <2>4. CASE lock = l
    <3>1. NoneStarting \/ Readying(run'[l])
      BY <1>1, <2>1, <2>4, Watched, NotFree DEF Readying
    <3>2. socket[c] = Stranger \/ (socket[c] \in Daemons /\ dmn[socket[c]].pc = "serving")
      BY <1>2, <2>2, <2>4 DEF Connectable, NoneEnding, Ending
    <3>3. ASSUME socket[c] = Stranger PROVE NoneBound(dmn)
      <4> SUFFICES ASSUME NEW d \in Daemons, Bound(dmn[d]) PROVE FALSE BY DEF NoneBound
      <4>1. socket[1] = d /\ Connectable(socket[1]) BY <1>2, <2>4, BoundAnswers
      <4>2. c = 1 BY <2>2, <4>1, Numbers
      <4> QED BY <3>3, <4>1, <4>2, Numbers
    <3>4. HolderSees(run'[l], dmn) BY <2>1, <2>2, <3>2, <3>3 DEF HolderSees
    <3> QED BY <1>1, <1>2, <2>1, <2>4, <3>1, <3>4, HolderStep
  <2> QED BY <2>3, <2>4
<1> QED BY <1>3, <1>4

LEMMA AnswerCalm ==
    ASSUME TypeOK, CommandsKnow, CalmInv, NEW l \in Launchers, Answer(l)
    PROVE  CalmInv'
<1>1. run[l].pc = "await" /\ UNCHANGED <<dmn, socket>> BY DEF Answer
<1>2. PICK outcome \in FirstFrames(l) : Resolve(l, outcome) BY DEF Answer
<1>3. Placed(run[l]) BY DEF CommandsKnow
<1>4. /\ outcome \in Heard
      /\ outcome = "hello" =>
            run[l].peer \in Daemons /\ dmn[run[l].peer].ver = run[l].ver
      /\ outcome # "hello" /\ run[l].peer # Stranger /\ dmn[run[l].peer].pc # "gone"
            => dmn[run[l].peer].ver # run[l].ver
  BY <1>1, <1>2, <1>3, FrameFacts
<1>5. ASSUME lock = l, outcome # "hello", run[l].call # "ready"
      PROVE  NoneOf(dmn, run[l].ver)
  <2>1. HolderSees(run[l], dmn) /\ NoneEnding BY <1>1, <1>5, NotFree, Watched DEF CalmInv
  <2>2. CASE run[l].peer = Stranger
    BY <1>1, <1>5, <2>1, <2>2 DEF HolderSees, NoneBound, NoneOf
  <2>3. CASE run[l].peer \in Daemons /\ dmn[run[l].peer].pc = "serving"
    <3>1. dmn[run[l].peer].ver # run[l].ver BY <1>4, <1>5, <2>3, Numbers
    <3>2. Bound(dmn[run[l].peer]) BY <2>3 DEF Bound
    <3>3. \A d \in Daemons : Bound(dmn[d]) => d = run[l].peer
      BY <2>1, <2>3, <3>2, BoundAnswers
    <3> QED BY <3>1, <3>3 DEF NoneOf
  <2> QED BY <1>1, <2>1, <2>2, <2>3 DEF HolderSees
<1> QED BY <1>1, <1>2, <1>4, <1>5, ResolveCalm

(* A live daemon that takes too long is a fault; one that is stopping is    *)
(* not what the holder is connected to.                                     *)
LEMMA NoAnswerCalm ==
    ASSUME TypeOK, CalmInv, NEW l \in Launchers, NoAnswer(l), calm'
    PROVE  CalmInv'
<1>1. /\ run[l].pc = "await" /\ UNCHANGED <<dmn, socket>> /\ Resolve(l, "other")
      /\ run[l].peer \in Daemons /\ dmn[run[l].peer].pc \in {"draining", "closed"}
  BY DEF NoAnswer
<1>2. lock # l BY <1>1, NotFree, Numbers DEF CalmInv, HolderSees
<1> QED BY <1>1, <1>2, ResolveCalm DEF Heard

LEMMA StartCalm ==
    ASSUME TypeOK, CalmInv, NEW l \in Launchers, NEW cmd \in Commands[l], Start(l, cmd), calm'
    PROVE  CalmInv'
<1>1. run[l].pc = "idle" /\ UNCHANGED <<dmn, socket>> /\ cmd \notin {"stop", "update"}
  BY DEF Start
<1>2. /\ Others(l) /\ run'[l].pc = FirstStep(cmd).pc /\ run'[l].call = FirstStep(cmd).call
      /\ run'[l].cmd = cmd /\ cmd \in CommandNames /\ lock' = lock
  BY StartEffect
<1>3. lock # l BY <1>1, NotFree DEF CalmInv, HolderSees
<1>4. ~Holding(run'[l])
  <2>1. CASE cmd = "ensure" BY <1>2, <2>1 DEF FirstStep, Holding
  <2>2. CASE cmd = "restart" BY <1>2, <2>2 DEF FirstStep, Holding
  <2> QED BY <1>1, <1>2, <2>1, <2>2 DEF CommandNames
<1>5. run'[l].cmd \in {"none", "ensure", "restart"} BY <1>1, <1>2 DEF CommandNames
<1> QED BY <1>1, <1>2, <1>3, <1>4, <1>5, OutsideStep

LEMMA TakeLockCalm ==
    ASSUME TypeOK, CalmInv, NEW l \in Launchers, TakeLock(l)
    PROVE  CalmInv'
<1>0. UNCHANGED <<dmn, socket>> BY DEF TakeLock
<1>1. /\ Others(l) /\ run'[l].pc = "dial" /\ Kept(run[l], run'[l])
      /\ lock = Free /\ lock' = l
  BY TakeLockEffect
<1>2. NoneStarting /\ NoneEnding BY <1>1, Watched
<1>3. Locked' BY <1>1, NotFree DEF CalmInv, Locked, Others, Kept
<1>4. BoundAtFirst' BY <1>0 DEF CalmInv, BoundAtFirst, Bound
<1>5. EndsWatched' BY <1>0, <1>2 DEF EndsWatched, NoneEnding, Ending
<1>6. StartsWatched' BY <1>0, <1>2 DEF StartsWatched, NoneStarting, Starting
<1>7. HolderSees(run'[lock'], dmn') BY <1>1 DEF HolderSees
<1> QED BY <1>3, <1>4, <1>5, <1>6, <1>7 DEF CalmInv

(* Empty paths tell the holder that nothing is bound.                       *)
LEMMA VanishedCalm ==
    ASSUME TypeOK, CommandsKnow, CalmInv, NEW l \in Launchers, Vanished(l)
    PROVE  CalmInv'
<1>1. run[l].pc = "vanish" /\ EndpointGone /\ UNCHANGED <<dmn, socket>> BY VanishedCases
<1>2. lock = l /\ run[l].cmd \in {"none", "ensure", "restart"}
  BY <1>1 DEF CalmInv, Locked, Holding
<1>3. NoneBound(dmn)
  BY <1>1, Numbers DEF EndpointGone, CalmInv, BoundAtFirst, NoneBound
<1>4. NoneEnding BY <1>3 DEF NoneBound, Bound, NoneEnding, Ending
<1>5. NoneStarting BY <1>1, <1>2, Watched, NotFree DEF Readying
<1>6. CASE Call(l, "final")
  <2>1. Others(l) /\ run'[l].pc = "dial" /\ Kept(run[l], run'[l]) /\ lock' = lock
    BY <1>6, CallEffect DEF Calls
  <2>2. HolderSees(run'[l], dmn) BY <2>1 DEF HolderSees
  <2> QED BY <1>1, <1>2, <1>4, <1>5, <2>1, <2>2, HolderStep
<1>7. CASE Goto(l, "spawn")
  <2>1. Others(l) /\ run'[l].pc = "spawn" /\ Kept(run[l], run'[l]) /\ lock' = lock
    BY <1>7, GotoEffect DEF LauncherPcs
  <2>2. HolderSees(run'[l], dmn) BY <1>3, <2>1 DEF HolderSees, NoneOf, NoneBound
  <2> QED BY <1>1, <1>2, <1>4, <1>5, <2>1, <2>2, HolderStep
<1> QED BY <1>2, <1>6, <1>7, VanishedCases

LEMMA ReplaceCalm ==
    ASSUME TypeOK, CalmInv, NEW l \in Launchers, Replace(l)
    PROVE  CalmInv'
<1>1. run[l].pc = "replace" /\ UNCHANGED <<dmn, socket>> BY DEF Replace
<1>2. lock = l BY <1>1 DEF CalmInv, Locked, Holding
<1>3. NoneEnding /\ NoneStarting BY <1>1, <1>2, Watched, NotFree DEF Readying
<1>4. Finish(l, "ok") \/ Call(l, "halt") BY DEF Replace
<1>5. CASE Finish(l, "ok") BY <1>1, <1>3, <1>5, FinishCalm
<1>6. CASE Call(l, "halt")
  <2>1. Others(l) /\ run'[l].pc = "dial" /\ Kept(run[l], run'[l]) /\ lock' = lock
    BY <1>6, CallEffect DEF Calls
  <2>2. HolderSees(run'[l], dmn) BY <2>1 DEF HolderSees
  <2> QED BY <1>1, <1>2, <1>3, <2>1, <2>2, HolderStep
<1> QED BY <1>4, <1>5, <1>6

LEMMA GivesUpCalm ==
    ASSUME TypeOK, CalmInv, NEW l \in Launchers, LockTimeout(l) \/ SpawnFails(l)
    PROVE  CalmInv'
<1>1. /\ run[l].pc \in {"lock", "spawn"} /\ Finish(l, "failed")
      /\ UNCHANGED <<dmn, socket>>
  BY DEF LockTimeout, SpawnFails
<1>2. lock = l => NoneEnding /\ NoneStarting BY <1>1, Watched, NotFree DEF Readying
<1> QED BY <1>1, <1>2, FinishCalm

(* The holder starts the one daemon it will wait for.                       *)
LEMMA SpawnCalm ==
    ASSUME TypeOK, CalmInv, NEW l \in Launchers, SpawnDaemon(l)
    PROVE  CalmInv'
<1>1. run[l].pc = "spawn" /\ Unborn # {} /\ UNCHANGED socket /\ Call(l, "ready")
  BY DEF SpawnDaemon
<1>2. PICK v \in {exe, run[l].ver} :
         dmn' = [dmn EXCEPT ![Min(Unborn)] = [pc |-> "check", ver |-> v, at |-> 1]]
  BY DEF SpawnDaemon
<1>3. v \in Versions BY TypeFacts, LauncherFields DEF TypeOK
<1>4. PICK d \in Daemons :
              /\ dmn[d].pc = "unborn" /\ OtherDaemons(d)
              /\ dmn'[d].pc = "check" /\ dmn'[d].at = 1
  BY <1>1, <1>2, <1>3, BirthEffect
<1>5. /\ Others(l) /\ run'[l].pc = "dial" /\ run'[l].call = "ready"
      /\ Kept(run[l], run'[l]) /\ lock' = lock
  BY <1>1, CallEffect DEF Calls
<1>6. lock = l /\ l # Free BY <1>1, NotFree DEF CalmInv, Locked, Holding
<1>7. NoneEnding /\ NoneStarting BY <1>1, <1>6, Watched DEF Readying
<1>8. NoneOf(dmn, run[l].ver) BY <1>1, <1>6 DEF CalmInv, HolderSees
<1>9. \A e \in Daemons : Bound(dmn'[e]) => e # d /\ dmn'[e] = dmn[e]
  BY <1>4 DEF OtherDaemons, Bound
<1>10. \A e \in Daemons : Starting(dmn'[e]) => e = d
  BY <1>4, <1>7 DEF OtherDaemons, NoneStarting
<1>11. Locked' BY <1>5, <1>6 DEF CalmInv, Locked, Others, Kept
<1>12. BoundAtFirst' BY <1>1, <1>4, <1>9 DEF CalmInv, BoundAtFirst, OtherDaemons
<1>13. EndsWatched' BY <1>7, <1>9 DEF EndsWatched, NoneEnding, Ending, Bound
<1>14. NoneOf(dmn', run'[l].ver) BY <1>5, <1>8, <1>9 DEF NoneOf, Kept
<1>15. StartsWatched'
  <2>1. \A e \in Daemons : dmn'[e].pc \notin {"remove", "bind"}
    BY <1>4, <1>10 DEF Starting
  <2>2. Readying(run'[l]) BY <1>5 DEF Readying
  <2> QED BY <1>5, <1>6, <1>10, <1>14, <2>1, <2>2 DEF StartsWatched
<1>16. HolderSees(run'[lock'], dmn') BY <1>5, <1>6 DEF HolderSees
<1> QED BY <1>11, <1>12, <1>13, <1>15, <1>16 DEF CalmInv

(* The daemon the holder told to stop ends while the holder waits for it.   *)
LEMMA StoppedCalm ==
    ASSUME TypeOK, StrangersApart, CommandsKnow, CalmInv, NEW l \in Launchers, Stopped(l)
    PROVE  CalmInv'
<1> DEFINE d == run[l].told
<1>1. run[l].pc = "ack" /\ Goto(l, "vanish") BY DEF Stopped
<1>2. d \in Daemons /\ UNCHANGED socket BY StoppedHost
<1>3. Others(l) /\ run'[l].pc = "vanish" /\ Kept(run[l], run'[l]) /\ lock' = lock
  BY <1>1, GotoEffect DEF LauncherPcs
<1>4. lock = l /\ l # Free BY <1>1, NotFree DEF CalmInv, Locked, Holding
<1>5. NoneEnding /\ NoneStarting BY <1>1, <1>4, Watched DEF Readying
<1>6. CASE dmn[d].pc = "serving" /\ SetDaemon(d, "draining")
  <2>1. OtherDaemons(d) /\ dmn'[d].pc = "draining" /\ dmn'[d].at = dmn[d].at
    BY <1>2, <1>6, SetDaemonEffect, Phases
  <2>2. Locked' BY <1>3, <1>4 DEF CalmInv, Locked, Others, Kept
  <2>3. BoundAtFirst' BY <1>2, <1>6, <2>1 DEF CalmInv, BoundAtFirst, OtherDaemons, Bound
  <2>4. EndsWatched' BY <1>3, <1>4 DEF EndsWatched
  <2>5. \A e \in Daemons : ~Starting(dmn'[e])
    BY <1>5, <2>1 DEF OtherDaemons, NoneStarting, Starting
  <2>6. StartsWatched' BY <2>5 DEF StartsWatched, Starting
  <2>7. HolderSees(run'[lock'], dmn') BY <1>3, <1>4 DEF HolderSees
  <2> QED BY <2>2, <2>3, <2>4, <2>6, <2>7 DEF CalmInv
<1>7. CASE UNCHANGED dmn
  <2>1. HolderSees(run'[l], dmn) BY <1>3 DEF HolderSees
  <2> QED BY <1>2, <1>3, <1>4, <1>5, <1>7, <2>1, HolderStep
<1> QED BY <1>6, <1>7 DEF Stopped

(* What is left of the calm when a daemon moves and no command does.        *)
LEMMA DaemonMoves ==
    ASSUME TypeOK, CalmInv, UNCHANGED <<run, lock>>, BoundAtFirst', EndsWatched',
           StartsWatched', lock # Free => HolderSees(run[lock], dmn')
    PROVE  CalmInv'
BY DEF CalmInv, Locked, Holding

LEMMA CheckCalm ==
    ASSUME TypeOK, CalmInv, NEW d \in Daemons, CheckStale(d)
    PROVE  CalmInv'
<1> DEFINE s == socket[1]
<1>0. dmn[d].pc = "check" /\ UNCHANGED <<socket, run, lock>> BY DEF CheckStale
<1>1. dmn[d].at = 1 /\ Starting(dmn[d])
  BY <1>0 DEF CalmInv, BoundAtFirst, Starting
<1>2. /\ lock # Free /\ Readying(run[lock]) /\ NoneOf(dmn, run[lock].ver)
      /\ \A e \in Daemons : Starting(dmn[e]) => e = d
  BY <1>1 DEF CalmInv, StartsWatched
<1>3. NoneEnding BY <1>2, Watched DEF Readying
<1>4. PICK p \in {"bind", "gone", "remove"} :
         /\ SetDaemon(d, p)
         /\ p = "bind" => s = Nobody
         /\ p = "remove" => ~Connectable(s)
  <2>1. SetDaemon(d, CASE s = Nobody -> "bind"
                      [] s # Nobody /\ Connectable(s) -> "gone"
                      [] s # Nobody /\ ~Connectable(s) -> "remove")
    BY <1>1 DEF CheckStale
  <2> HIDE DEF s
  <2>2. CASE s = Nobody BY <2>1, <2>2
  <2>3. CASE s # Nobody /\ Connectable(s) BY <2>1, <2>3
  <2>4. CASE s # Nobody /\ ~Connectable(s) BY <2>1, <2>4
  <2> QED BY <2>2, <2>3, <2>4
<1>5. /\ OtherDaemons(d) /\ dmn'[d].pc = p /\ dmn'[d].at = 1
  BY <1>1, <1>4, SetDaemonEffect, Phases
<1>6. p # "gone" => NoneBound(dmn)
  BY <1>3, <1>4, BoundAnswers, Numbers DEF NoneBound
<1>7. \A e \in Daemons : Bound(dmn'[e]) => e # d /\ dmn'[e] = dmn[e]
  BY <1>4, <1>5 DEF OtherDaemons, Bound
<1>8. \A e \in Daemons : Starting(dmn'[e]) => e = d
  BY <1>2, <1>5 DEF OtherDaemons
<1>9. BoundAtFirst' BY <1>0, <1>5, <1>7 DEF CalmInv, BoundAtFirst, OtherDaemons
<1>10. EndsWatched' BY <1>3, <1>7 DEF EndsWatched, NoneEnding, Ending, Bound
<1>11. NoneOf(dmn', run[lock].ver) BY <1>2, <1>7 DEF NoneOf
<1>12. NoneBound(dmn) => NoneBound(dmn') BY <1>7 DEF NoneBound
<1>13. StartsWatched'
  BY <1>0, <1>2, <1>4, <1>5, <1>6, <1>8, <1>11, <1>12 DEF StartsWatched, Starting
<1>14. HolderSees(run[lock], dmn')
  BY <1>0, <1>2, <1>5, <1>11, <1>12 DEF CalmInv, HolderSees, Readying, OtherDaemons
<1> QED BY <1>0, <1>9, <1>10, <1>13, <1>14, DaemonMoves

LEMMA RemoveCalm ==
    ASSUME TypeOK, CalmInv, NEW d \in Daemons, RemoveStale(d)
    PROVE  CalmInv'
<1>0. dmn[d].pc = "remove" /\ UNCHANGED <<run, lock>> BY DEF RemoveStale
<1>1. dmn[d].at = 1 /\ Starting(dmn[d])
  BY <1>0 DEF CalmInv, BoundAtFirst, Starting
<1>2. /\ lock # Free /\ Readying(run[lock])
      /\ \A e \in Daemons : Starting(dmn[e]) => e = d
      /\ NoneBound(dmn)
  BY <1>0, <1>1 DEF CalmInv, StartsWatched
<1>3. socket' = [socket EXCEPT ![1] = Nobody] BY <1>1 DEF RemoveStale
<1>4. PICK p \in {"gone", "bind"} : SetDaemon(d, p)
  <2>1. CASE socket[dmn[d].at] = Nobody BY <2>1 DEF RemoveStale
  <2>2. CASE socket[dmn[d].at] # Nobody BY <2>2 DEF RemoveStale
  <2> QED BY <2>1, <2>2
<1>5. /\ OtherDaemons(d) /\ dmn'[d].pc = p /\ dmn'[d].at = 1
  BY <1>1, <1>4, SetDaemonEffect, Phases
<1>6. socket'[1] = Nobody BY <1>3, Numbers DEF TypeOK
<1>7. NoneBound(dmn') BY <1>2, <1>4, <1>5 DEF NoneBound, Bound, OtherDaemons
<1>8. \A e \in Daemons : Starting(dmn'[e]) => e = d
  BY <1>2, <1>5 DEF OtherDaemons
<1>9. BoundAtFirst' BY <1>5, <1>7 DEF CalmInv, BoundAtFirst, OtherDaemons, NoneBound
<1>10. EndsWatched' BY <1>7 DEF EndsWatched, NoneBound, Ending, Bound
<1>11. NoneOf(dmn', run[lock].ver) BY <1>7 DEF NoneOf, NoneBound
<1>12. StartsWatched'
  BY <1>0, <1>2, <1>6, <1>7, <1>8, <1>11 DEF StartsWatched
<1>13. HolderSees(run[lock], dmn')
  BY <1>0, <1>2, <1>5, <1>7, <1>11
  DEF CalmInv, HolderSees, Readying, OtherDaemons, NoneBound, Bound
<1> QED BY <1>0, <1>9, <1>10, <1>12, <1>13, DaemonMoves

LEMMA BindCalm ==
    ASSUME TypeOK, CalmInv, NEW d \in Daemons, Bind(d)
    PROVE  CalmInv'
<1>0. dmn[d].pc = "bind" /\ UNCHANGED <<run, lock>> BY DEF Bind
<1>1. dmn[d].at = 1 /\ Starting(dmn[d])
  BY <1>0 DEF CalmInv, BoundAtFirst, Starting
<1>2. /\ lock # Free /\ Readying(run[lock])
      /\ \A e \in Daemons : Starting(dmn[e]) => e = d
      /\ NoneBound(dmn) /\ socket[1] = Nobody
  BY <1>0, <1>1 DEF CalmInv, StartsWatched
<1>3. socket' = [socket EXCEPT ![1] = d] /\ SetDaemon(d, "serving") BY <1>1, <1>2 DEF Bind
<1>4. /\ OtherDaemons(d) /\ dmn'[d].pc = "serving" /\ dmn'[d].at = 1
  BY <1>1, <1>3, SetDaemonEffect, Phases
<1>5. socket'[1] = d BY <1>3, Numbers DEF TypeOK
<1>6. \A e \in Daemons : Bound(dmn'[e]) => e = d
  BY <1>2, <1>4 DEF NoneBound, OtherDaemons
<1>7. \A e \in Daemons : ~Starting(dmn'[e])
  BY <1>2, <1>4 DEF OtherDaemons, Starting
<1>8. BoundAtFirst' BY <1>4, <1>5, <1>6 DEF CalmInv, BoundAtFirst, OtherDaemons
<1>9. EndsWatched' BY <1>4, <1>6 DEF EndsWatched, Ending, Bound
<1>10. StartsWatched' BY <1>7 DEF StartsWatched, Starting
<1>11. HolderSees(run[lock], dmn')
  BY <1>2 DEF CalmInv, HolderSees, Readying, NoneBound, Bound
<1> QED BY <1>0, <1>8, <1>9, <1>10, <1>11, DaemonMoves

LEMMA EndCalm ==
    ASSUME TypeOK, CalmInv, NEW d \in Daemons, EndAccept(d) \/ Cleanup(d)
    PROVE  CalmInv'
<1>0. Ending(dmn[d]) /\ UNCHANGED <<run, lock>> BY DEF EndAccept, Cleanup, Ending
<1>1. lock # Free /\ run[lock].pc = "vanish" BY <1>0 DEF CalmInv, EndsWatched
<1>2. NoneStarting BY <1>1, Watched DEF Readying
<1>3. dmn[d].at = 1 /\ socket[1] = d /\ Bound(dmn[d])
  BY <1>0 DEF CalmInv, BoundAtFirst, Ending, Bound
<1>4. \A e \in Daemons : Bound(dmn[e]) => e = d BY <1>3 DEF CalmInv, BoundAtFirst
<1>5. PICK p \in {"closed", "gone"} :
         /\ SetDaemon(d, p)
         /\ p = "closed" => UNCHANGED socket
  BY DEF EndAccept, Cleanup
<1>6. /\ OtherDaemons(d) /\ dmn'[d].pc = p /\ dmn'[d].at = 1
  BY <1>3, <1>5, SetDaemonEffect, Phases
<1>7. BoundAtFirst'
  <2>1. \A e \in Daemons : dmn'[e].at = 1
    BY <1>6 DEF CalmInv, BoundAtFirst, OtherDaemons
  <2>2. \A e \in Daemons : Bound(dmn'[e]) => e = d /\ p = "closed"
    BY <1>4, <1>6 DEF OtherDaemons, Bound
  <2> QED BY <1>3, <1>5, <2>1, <2>2 DEF BoundAtFirst
<1>8. EndsWatched' BY <1>0, <1>1 DEF EndsWatched
<1>9. \A e \in Daemons : ~Starting(dmn'[e])
  BY <1>2, <1>6 DEF OtherDaemons, NoneStarting, Starting
<1>10. StartsWatched' BY <1>9 DEF StartsWatched, Starting
<1>11. HolderSees(run[lock], dmn') BY <1>1 DEF HolderSees
<1> QED BY <1>0, <1>7, <1>8, <1>10, <1>11, DaemonMoves

LEMMA CalmInductive ==
    ASSUME TypeOK, StrangersApart, CommandsKnow, calm => CalmInv, Next, calm'
    PROVE  CalmInv'
<1>1. calm /\ CalmInv
  BY DEF Next, LauncherStep, Proceed, DaemonStep, Start, Dial, Answer, NoAnswer, TakeLock,
         LockTimeout, SpawnDaemon, SpawnFails, Stopped, Vanished, VanishTimeout, Replace,
         ReadyTimeout, AckTimeout, KillLauncher, CheckStale, RemoveStale, Bind, EndAccept,
         Cleanup, Fault, Boot
<1>2. ASSUME NEW l \in Launchers, LauncherStep(l) PROVE CalmInv'
  <2>1. ~(VanishTimeout(l) \/ ReadyTimeout(l) \/ AckTimeout(l) \/ KillLauncher(l))
    BY DEF VanishTimeout, ReadyTimeout, AckTimeout, KillLauncher
  <2> QED BY <1>1, <1>2, <2>1, StartCalm, DialCalm, AnswerCalm, NoAnswerCalm, TakeLockCalm,
             SpawnCalm, StoppedCalm, VanishedCalm, ReplaceCalm, GivesUpCalm
          DEF LauncherStep, Proceed
<1>3. ASSUME NEW d \in Daemons, DaemonStep(d) \/ Fault(d) PROVE CalmInv'
  <2>1. ~Fault(d) BY DEF Fault
  <2> QED BY <1>1, <1>3, <2>1, CheckCalm, RemoveCalm, BindCalm, EndCalm DEF DaemonStep
<1>4. ~Boot BY DEF Boot
<1> QED BY <1>2, <1>3, <1>4 DEF Next

-----------------------------------------------------------------------------
(* The invariant.                                                           *)

LEMMA Initially == Init => Inv
<1> SUFFICES ASSUME Init PROVE Inv OBVIOUS
<1>1. PICK first \in {"unborn", "serving", "gone"}, ver \in Versions :
         /\ dmn = [d \in Daemons |->
                     [pc |-> IF d = 1 THEN first ELSE "unborn",
                      ver |-> IF d = 1 THEN ver ELSE 1, at |-> 1]]
         /\ socket \in
              IF first = "unborn"
              THEN {[c \in Candidates |-> IF c \in held THEN Stranger ELSE Nobody] :
                      held \in SUBSET Candidates}
              ELSE {[c \in Candidates |-> IF c = 1 THEN 1 ELSE Nobody]}
  BY DEF Init
<1>2. dmn \in [Daemons -> DaemonStates]
  BY <1>1, Numbers, Phases DEF DaemonStates
<1>3. \A d \in Daemons : /\ dmn[d].at = 1
                         /\ dmn[d].pc \in {"unborn", "serving", "gone"}
                         /\ dmn[d].pc = "serving" => d = 1 /\ first = "serving"
  BY <1>1
<1>4. /\ socket \in [Candidates -> Peers]
      /\ first = "serving" => socket[1] = 1
  <2>1. CASE first = "unborn"
    <3>1. PICK held \in SUBSET Candidates :
             socket = [c \in Candidates |-> IF c \in held THEN Stranger ELSE Nobody]
      BY <1>1, <2>1
    <3> QED BY <2>1, <3>1 DEF Peers
  <2>2. CASE first # "unborn"
    <3>1. socket = [c \in Candidates |-> IF c = 1 THEN 1 ELSE Nobody] BY <1>1, <2>2
    <3> QED BY <3>1, Numbers DEF Peers
  <2> QED BY <2>1, <2>2
<1> DEFINE r == [pc |-> "idle", cmd |-> "none", call |-> "probe", ver |-> 1,
                 peer |-> Nobody, told |-> Nobody, ran |-> FALSE, result |-> "none"]
<1>5. r \in LauncherStates
  <2> DEFINE B == BOOLEAN
             C == CommandNames \cup {"none"}
             T == Daemons \cup {Nobody}
             R == {"none", "ok", "failed"}
  <2>1. /\ FALSE \in B /\ "none" \in C /\ Nobody \in T /\ "none" \in R /\ 1 \in Versions
        /\ "idle" \in LauncherPcs /\ "probe" \in Calls /\ Nobody \in Peers
    BY Numbers DEF LauncherPcs, Calls, Peers
  <2>2. LauncherStates = [pc : LauncherPcs, cmd : C, call : Calls, ver : Versions,
                          peer : Peers, told : T, ran : B, result : R]
    BY DEF LauncherStates
  <2> HIDE DEF B, C, T, R
  <2> QED BY <2>1, <2>2
<1>6. \A l \in Launchers : run[l] = r BY DEF Init
<1>7. /\ Placed(r) /\ ~Holding(r) /\ r.cmd = "none" /\ r.told = Nobody
  BY DEF Placed, Holding
<1>8. run \in [Launchers -> LauncherStates] BY <1>5 DEF Init
<1> HIDE DEF r
<1>9. TypeOK
  <2>1. exe \in Versions /\ lock = Free /\ faults = 0 /\ calm = TRUE BY DEF Init
  <2>2. faults \in 0..MaxFaults /\ lock \in Launchers \cup {Free}
    BY <2>1, LaunchAssumption
  <2> QED BY <1>2, <1>4, <1>8, <2>1, <2>2 DEF TypeOK
<1>10. StrangersApart BY <1>3, <1>4, Numbers DEF StrangersApart, StrangerApart
<1>11. CommandsKnow BY <1>6, <1>7 DEF CommandsKnow, Told
<1>12. CalmInv
  <2>1. Locked BY <1>6, <1>7 DEF Locked
  <2>2. BoundAtFirst BY <1>3, <1>4 DEF BoundAtFirst, Bound
  <2>3. EndsWatched BY <1>3 DEF EndsWatched, Ending
  <2>4. StartsWatched BY <1>3 DEF StartsWatched, Starting
  <2> QED BY <2>1, <2>2, <2>3, <2>4 DEF CalmInv, Init
<1> QED BY <1>9, <1>10, <1>11, <1>12 DEF Inv

LEMMA Counters ==
    ASSUME TypeOK, Next
    PROVE  exe' \in Versions /\ faults' \in 0..MaxFaults /\ calm' \in BOOLEAN
<1>1. faults' = faults \/ (faults < MaxFaults /\ faults' = faults + 1)
  BY DEF Next, LauncherStep, Proceed, DaemonStep, Start, Dial, Answer, NoAnswer, TakeLock,
         LockTimeout, SpawnDaemon, SpawnFails, Stopped, Vanished, VanishTimeout, Replace,
         ReadyTimeout, AckTimeout, KillLauncher, CheckStale, RemoveStale, Bind, EndAccept,
         Cleanup, Fault, Boot
<1>2. calm' \in BOOLEAN
  BY DEF Next, LauncherStep, Proceed, DaemonStep, Start, Dial, Answer, NoAnswer, TakeLock,
         LockTimeout, SpawnDaemon, SpawnFails, Stopped, Vanished, VanishTimeout, Replace,
         ReadyTimeout, AckTimeout, KillLauncher, CheckStale, RemoveStale, Bind, EndAccept,
         Cleanup, Fault, Boot, TypeOK
<1>3. exe' = exe \/ (exe < MaxVersion /\ exe' = exe + 1)
  BY DEF Next, LauncherStep, Proceed, DaemonStep, Start, Dial, Answer, NoAnswer, TakeLock,
         LockTimeout, SpawnDaemon, SpawnFails, Stopped, Vanished, VanishTimeout, Replace,
         ReadyTimeout, AckTimeout, KillLauncher, CheckStale, RemoveStale, Bind, EndAccept,
         Cleanup, Fault, Boot
<1> QED BY <1>1, <1>2, <1>3, LaunchAssumption DEF TypeOK, Versions

LEMMA BootHost ==
    ASSUME TypeOK, StrangersApart, Boot
    PROVE  HostStep /\ UNCHANGED <<run, lock>>
<1>1. /\ Unborn # {} /\ UNCHANGED <<socket, run, lock>> /\ exe \in Versions
      /\ dmn' = [dmn EXCEPT ![Min(Unborn)] = [pc |-> "check", ver |-> exe, at |-> 1]]
  BY DEF Boot, TypeOK
<1> QED BY <1>1, BirthStep

LEMMA HostMoves ==
    ASSUME TypeOK, StrangersApart, CommandsKnow, Next
    PROVE  /\ HostStep /\ CommandsKnow'
           /\ run' \in [Launchers -> LauncherStates] /\ lock' \in Launchers \cup {Free}
<1>1. ASSUME NEW l \in Launchers, LauncherStep(l)
      PROVE  /\ HostStep /\ CommandsKnow'
             /\ run' \in [Launchers -> LauncherStates] /\ lock' \in Launchers \cup {Free}
  BY <1>1, LauncherKnows DEF CommandStep
<1>2. ASSUME NEW d \in Daemons, DaemonStep(d) \/ Fault(d)
      PROVE  HostStep /\ UNCHANGED <<run, lock>>
  BY <1>2, DaemonHost
  DEF DaemonStep, Fault, CheckStale, RemoveStale, Bind, EndAccept, Cleanup
<1>3. (\E l \in Launchers : LauncherStep(l)) \/ (HostStep /\ UNCHANGED <<run, lock>>)
  BY <1>2, BootHost DEF Next
<1> QED BY <1>1, <1>3, NobodyMoves DEF TypeOK

LEMMA Inductive == Inv /\ [Next]_vars => Inv'
<1> SUFFICES ASSUME Inv, [Next]_vars PROVE Inv' OBVIOUS
<1>1. CASE Next
  <2>1. TypeOK /\ StrangersApart /\ CommandsKnow /\ (calm => CalmInv) BY DEF Inv
  <2>2. /\ HostStep /\ CommandsKnow'
        /\ run' \in [Launchers -> LauncherStates] /\ lock' \in Launchers \cup {Free}
    BY <1>1, <2>1, HostMoves
  <2>3. exe' \in Versions /\ faults' \in 0..MaxFaults /\ calm' \in BOOLEAN
    BY <1>1, <2>1, Counters
  <2>4. TypeOK' BY <2>2, <2>3 DEF TypeOK, HostStep
  <2>5. calm' => CalmInv' BY <1>1, <2>1, CalmInductive
  <2> QED BY <2>2, <2>4, <2>5 DEF Inv, HostStep
<1>2. CASE UNCHANGED vars
  BY <1>2 DEF vars, Inv, TypeOK, StrangersApart, CommandsKnow, CalmInv, Locked, BoundAtFirst,
              EndsWatched, StartsWatched
<1> QED BY <1>1, <1>2

LEMMA Invariance == Spec => []Inv
BY Initially, Inductive, PTL DEF Spec

-----------------------------------------------------------------------------
(* The theorems.                                                            *)

LEMMA OneServes ==
    ASSUME Inv PROVE LockSuffices
<1> SUFFICES ASSUME calm
             PROVE  /\ Cardinality(Serving) <= 1
                    /\ \A d \in Serving : socket[dmn[d].at] = d
  BY DEF LockSuffices
<1>1. \A d \in Serving : d \in Daemons /\ dmn[d].at = 1 /\ socket[1] = d
  BY DEF Inv, CalmInv, BoundAtFirst, Serving, Bound
<1>2. CASE Serving = {}
  <2>1. Cardinality(Serving) = 0 BY <1>2, FS_EmptySet
  <2> QED BY <1>1, <2>1
<1>3. CASE Serving # {}
  <2>1. PICK d : d \in Serving BY <1>3
  <2>2. Serving = {d} BY <1>1, <2>1
  <2>3. Cardinality(Serving) = 1 BY <2>2, FS_Singleton
  <2> QED BY <1>1, <2>3
<1> QED BY <1>2, <1>3

LEMMA StopHonest ==
    ASSUME Inv PROVE StopIsHonest
<1> SUFFICES ASSUME NEW l \in Launchers, run[l].result = "ok", run[l].told # Nobody
             PROVE  /\ dmn[run[l].told].pc # "serving"
                    /\ run[l].cmd \in {"restart", "update"} => run[l].peer # run[l].told
  BY DEF StopIsHonest
<1>1. Placed(run[l]) /\ Told(run[l], dmn, socket) BY DEF Inv, CommandsKnow
<1>2. run[l].pc = "done" BY <1>1 DEF Placed
<1> QED BY <1>1, <1>2 DEF Told, Ended, Forgotten

LEMMA StrangerAlone ==
    ASSUME Inv PROVE NothingBesideStranger
<1> SUFFICES ASSUME socket[1] = Stranger, NEW d \in Serving PROVE FALSE
  BY DEF NothingBesideStranger
<1>1. d \in Daemons /\ dmn[d].pc = "serving" BY DEF Serving
<1>2. dmn[d].at \in Candidates BY <1>1, TypeFacts, DaemonFields DEF Inv
<1>3. StrangerApart(dmn[d], socket) BY <1>1 DEF Inv, StrangersApart
<1> QED BY <1>1, <1>2, <1>3, Numbers DEF StrangerApart

(* Whatever the commands, kills, signals and starts outside the lock, and    *)
(* however their steps interleave: while only lock holders have acted one     *)
(* daemon serves and its path names it, a stop that was reported has happened *)
(* and is not contradicted by what the command presents, and a stranger's     *)
(* endpoint is neither removed nor served beside (launch.rs, ensure_running,  *)
(* restart; daemon.rs, stop; ipc.rs, bind, remove_stale_socket, cleanup).     *)
THEOREM LaunchIsSound == Spec => LaunchSound
<1>1. Inv => TypeOK /\ LockSuffices /\ StopIsHonest /\ NothingBesideStranger
  BY OneServes, StopHonest, StrangerAlone DEF Inv
<1>2. Inv /\ [Next]_vars =>
        [\A c \in Candidates : socket[c] = Stranger => socket'[c] = Stranger]_vars
  <2> SUFFICES ASSUME Inv, [Next]_vars, ~UNCHANGED vars
               PROVE  \A c \in Candidates : socket[c] = Stranger => socket'[c] = Stranger
    OBVIOUS
  <2>1. HostStep BY HostMoves DEF Inv
  <2> QED BY <2>1 DEF HostStep, StrangersKept
<1>3. Spec => StrangerUntouched
  BY <1>2, Invariance, PTL DEF Spec, StrangerUntouched
<1>4. Spec => [](TypeOK /\ LockSuffices /\ StopIsHonest /\ NothingBesideStranger)
  BY <1>1, Invariance, PTL
<1> QED BY <1>3, <1>4 DEF LaunchSound
=============================================================================

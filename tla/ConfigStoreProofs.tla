------------------------- MODULE ConfigStoreProofs -------------------------
(***************************************************************************)
(* Proofs about the client's configuration store, for any processes,        *)
(* commands, editors' texts and bounds: the file can be relied on, and the   *)
(* store implements the atomic register of ConfigRegister.                  *)
(***************************************************************************)
EXTENDS ConfigStore, TLAPS

(* Where a command may be: it holds the lock, works on a copy of the          *)
(* configuration, or has a new one to put in its place.                      *)
Writing == {"write", "sync", "verify", "rename"}
Working == {"edit", "editor"} \cup Writing
Holding == {"load", "directory"} \cup Working
Pending == {"lock", "load"} \cup Working
Places == {"idle", "notify", "directory"} \cup Pending

Files == [content : Configurations \cup {Missing}, version : Nat, whole : {TRUE}]
Temporaries == [content : Configurations \cup {Corrupt}, synced : BOOLEAN, stale : BOOLEAN]
Processes == [pc : Places, cmd : Requests \cup {None}, id : 0 .. MaxCommands,
              base : Configurations \cup {None}, new : Configurations \cup {None}]

TempsTyped ==
    /\ DOMAIN temps \subseteq (1 .. MaxCommands) \X {"edit", "write"}
    /\ \A n \in DOMAIN temps : temps[n] \in Temporaries

StateTyped ==
    /\ file \in Files /\ durable \in Files /\ durable.version <= file.version
    /\ acked \in Nat /\ acked <= durable.version
    /\ lock \in Procs \cup {None} /\ proc \in [Procs -> Processes]
    /\ serial \in 0 .. MaxCommands /\ crashes \in 0 .. MaxCrashes

Call(p) == [cmd |-> proc[p].cmd, id |-> proc[p].id]
Busy(p) == proc[p].pc # "idle"

(* The ids that stand in the file, or in the one a power loss brings back.    *)
UsedIds == Range(Value(file).systems) \cup Range(Value(durable).systems)

(* A command has an id of its own, which is in no file before it is renamed.  *)
IdsFresh ==
    /\ UsedIds \subseteq (1 .. serial) \cup EditorIds
    /\ \A p \in Procs :
          Busy(p) => proc[p].cmd \in Requests /\ proc[p].id \in 1 .. serial
    /\ \A p, q \in Procs : p # q /\ Busy(p) /\ Busy(q) => proc[p].id # proc[q].id
    /\ \A p \in Procs : proc[p].pc \in Pending => proc[p].id \notin UsedIds

LockHeld == \A p \in Procs : lock = p <=> proc[p].pc \in Holding

(* What a process holds was computed from the file as it is, and what its      *)
(* temporary files hold, as far as they are there, is what it put there.     *)
WorkSound(p) ==
    /\ proc[p].pc \in Working => proc[p].base = Value(file)
    /\ proc[p].pc \in {"edit", "editor"} => proc[p].cmd.op = "edit"
    /\ proc[p].pc \in Writing =>
          proc[p].new \in Configurations /\ proc[p].new \in Outcomes(proc[p].base, Call(p))
    /\ proc[p].pc = "editor" /\ EditTemp(p) \in DOMAIN temps =>
          temps[EditTemp(p)].content \in EditorTexts \cup {proc[p].base, Corrupt}
    /\ proc[p].pc \in {"verify", "rename"} /\ WriteTemp(p) \in DOMAIN temps =>
          temps[WriteTemp(p)].synced
    /\ proc[p].pc = "rename" /\ WriteTemp(p) \in DOMAIN temps =>
          temps[WriteTemp(p)].content = proc[p].new

Inv ==
    /\ StateTyped /\ TempsTyped /\ IdsFresh /\ LockHeld
    /\ \A p \in Procs : WorkSound(p)

-----------------------------------------------------------------------------
(* What a command does to a configuration.                                   *)

LEMMA TableType ==
    ASSUME NEW f
    PROVE  /\ f \in Tables => DOMAIN f \subseteq Addresses /\ f \in [DOMAIN f -> Ids]
           /\ \A A \in SUBSET Addresses : f \in [A -> Ids] => f \in Tables
  BY DEF Tables

Header == [systems : Tables, eggpool : Ids \cup {None}, refresh : {0} \cup Refreshes]

LEMMA WithSystems ==
    ASSUME NEW c \in Configurations, NEW f \in Tables, IsInjective(f)
    PROVE  /\ [c EXCEPT !.systems = f] \in Configurations
           /\ [c EXCEPT !.systems = f].systems = f
<1>1. c \in Header
  BY DEF Configurations, Header
<1>2. [c EXCEPT !.systems = f] \in Header /\ [c EXCEPT !.systems = f].systems = f
  BY <1>1 DEF Header
<1> QED BY <1>2 DEF Configurations, Header

LEMMA ConfigurationType ==
    ASSUME NEW c \in Configurations
    PROVE  /\ DOMAIN c.systems \subseteq Addresses
           /\ c.systems \in [DOMAIN c.systems -> Ids]
           /\ IsInjective(c.systems)
<1>1. c.systems \in Tables /\ IsInjective(c.systems)
  BY DEF Configurations
<1> QED BY <1>1, TableType

(* The configuration d keeps the ids of c and brings at most a new one.       *)
Keeps(c, d, id) ==
    /\ Range(d.systems) \subseteq Range(c.systems) \cup {id}
    /\ \A a \in DOMAIN c.systems \cap DOMAIN d.systems : d.systems[a] = c.systems[a]

LEMMA AddSound ==
    ASSUME NEW c \in Configurations, NEW cmd, cmd.address \in Addresses,
           NEW id \in 1 .. MaxCommands, id \notin Range(c.systems),
           CmdAdd(c, cmd, id) # Refused
    PROVE  CmdAdd(c, cmd, id) \in Configurations /\ Keeps(c, CmdAdd(c, cmd, id), id)
<1>1. CASE cmd.address \in DOMAIN c.systems
  <2>1. CmdAdd(c, cmd, id) = c
    BY <1>1 DEF CmdAdd
  <2> QED BY <2>1 DEF Keeps
<1>2. CASE cmd.address \notin DOMAIN c.systems
  <2> DEFINE D == DOMAIN c.systems \cup {cmd.address}
             f == [a \in D |-> IF a = cmd.address THEN id ELSE c.systems[a]]
  <2>1. CmdAdd(c, cmd, id) = [c EXCEPT !.systems = f]
    BY <1>2 DEF CmdAdd
  <2>2. /\ DOMAIN c.systems \subseteq Addresses /\ c.systems \in [DOMAIN c.systems -> Ids]
        /\ IsInjective(c.systems)
    BY ConfigurationType
  <2>3. D \in SUBSET Addresses /\ f \in [D -> Ids]
    BY <2>2 DEF Ids
  <2>4. f \in Tables
    BY <2>3, TableType
  <2>5. \A a \in DOMAIN c.systems : c.systems[a] # id
    BY DEF Range
  <2>6. IsInjective(f)
    BY <2>2, <2>5 DEF IsInjective
  <2>7. CmdAdd(c, cmd, id) \in Configurations /\ CmdAdd(c, cmd, id).systems = f
    BY <2>1, <2>4, <2>6, WithSystems
  <2>8. \A a \in DOMAIN c.systems : f[a] = c.systems[a]
    BY <1>2
  <2>9. Range(f) \subseteq Range(c.systems) \cup {id}
    BY DEF Range
  <2> QED BY <2>7, <2>8, <2>9 DEF Keeps
<1> QED BY <1>1, <1>2

LEMMA RemoveSound ==
    ASSUME NEW c \in Configurations, NEW cmd, NEW id
    PROVE  CmdRemove(c, cmd, id) \in Configurations /\ Keeps(c, CmdRemove(c, cmd, id), id)
<1> DEFINE D == {a \in DOMAIN c.systems :
                    a[1] # cmd.host \/ (cmd.port # None /\ a[2] # cmd.port)}
           f == Restrict(c.systems, D)
<1>1. CmdRemove(c, cmd, id) = [c EXCEPT !.systems = f]
  BY DEF CmdRemove
<1>2. /\ DOMAIN c.systems \subseteq Addresses /\ c.systems \in [DOMAIN c.systems -> Ids]
      /\ IsInjective(c.systems)
  BY ConfigurationType
<1>3. D \subseteq DOMAIN c.systems
  OBVIOUS
<1>4. f = [a \in D |-> c.systems[a]]
  BY DEF Restrict
<1> HIDE DEF D, f
<1>5. f \in Tables
  <2>1. D \in SUBSET Addresses /\ f \in [D -> Ids]
    BY <1>2, <1>3, <1>4
  <2> QED BY <2>1, TableType
<1>6. IsInjective(f)
  BY <1>2, <1>3, <1>4 DEF IsInjective
<1>7. CmdRemove(c, cmd, id) \in Configurations /\ CmdRemove(c, cmd, id).systems = f
  BY <1>1, <1>5, <1>6, WithSystems
<1>8. /\ Range(f) \subseteq Range(c.systems)
      /\ \A a \in DOMAIN f : a \in DOMAIN c.systems /\ f[a] = c.systems[a]
  BY <1>3, <1>4 DEF Range
<1> QED BY <1>7, <1>8 DEF Keeps

(* The commands that leave the systems alone.                                *)
LEMMA OtherSound ==
    ASSUME NEW c \in Configurations, NEW cmd, NEW id \in 1 .. MaxCommands, NEW d,
           d \in {CmdRefresh(c, cmd, id), CmdEggpoolAdd(c, cmd, id),
                  CmdEggpoolRemove(c, cmd, id)},
           d # Refused
    PROVE  d \in Configurations /\ Keeps(c, d, id)
<1>1. c \in Header /\ IsInjective(c.systems) /\ id \in Ids
  BY DEF Configurations, Header, Ids
<1>2. d \in Header /\ d.systems = c.systems
  <2>1. CASE d = c
    BY <1>1, <2>1
  <2>2. CASE d = [c EXCEPT !.refresh = cmd.seconds] /\ cmd.seconds \in Refreshes
    BY <1>1, <2>2 DEF Header
  <2>3. CASE d = [c EXCEPT !.eggpool = id]
    BY <1>1, <2>3 DEF Header
  <2>4. CASE d = [c EXCEPT !.eggpool = None]
    BY <1>1, <2>4 DEF Header
  <2> QED BY <2>1, <2>2, <2>3, <2>4 DEF CmdRefresh, CmdEggpoolAdd, CmdEggpoolRemove
<1> QED BY <1>1, <1>2 DEF Configurations, Header, Keeps

Editing(cmd) == cmd.op = "edit"

(* What a command makes of a valid configuration validates, keeps the ids that  *)
(* are there and brings none but its own.                                     *)
LEMMA MutatedSound ==
    ASSUME NEW c \in Configurations, NEW cmd \in Requests, ~Editing(cmd),
           NEW id \in 1 .. MaxCommands, id \notin Range(c.systems),
           Mutated(c, cmd, id) # Refused
    PROVE  Mutated(c, cmd, id) \in Configurations /\ Keeps(c, Mutated(c, cmd, id), id)
<1>1. cmd.op \in {"add", "remove", "refresh", "eggpool add", "eggpool remove"}
  BY StoreAssumption DEF Editing
<1>2. CASE cmd.op = "add"
  <2>1. cmd.address \in Addresses
    BY <1>2, StoreAssumption
  <2>2. Mutated(c, cmd, id) = CmdAdd(c, cmd, id)
    BY <1>2 DEF Mutated
  <2> QED BY <2>1, <2>2, AddSound
<1>3. CASE cmd.op = "remove"
  <2>1. Mutated(c, cmd, id) = CmdRemove(c, cmd, id)
    BY <1>3 DEF Mutated
  <2> QED BY <2>1, RemoveSound
<1>4. CASE cmd.op \in {"refresh", "eggpool add", "eggpool remove"}
  <2>1. Mutated(c, cmd, id) \in {CmdRefresh(c, cmd, id), CmdEggpoolAdd(c, cmd, id),
                                 CmdEggpoolRemove(c, cmd, id)}
    BY <1>4 DEF Mutated
  <2> QED BY <2>1, OtherSound
<1> QED BY <1>1, <1>2, <1>3, <1>4

LEMMA DefaultValid == Default \in Configurations
<1>1. <<>> \in [{} -> Ids] /\ {} \in SUBSET Addresses
  OBVIOUS
<1>2. <<>> \in Tables /\ IsInjective(<<>>)
  BY <1>1, TableType DEF IsInjective
<1> QED BY <1>2 DEF Default, Configurations

LEMMA ValueValid ==
    ASSUME NEW f \in Files
    PROVE  Value(f) \in Configurations /\ Value(f) \in {f.content, Default}
  BY DefaultValid DEF Value, Files

LEMMA Constants ==
    /\ MaxCommands \in Nat /\ MaxCrashes \in Nat
    /\ None \notin Procs /\ Corrupt \notin Configurations /\ Missing \notin Configurations
    /\ EditorTexts \subseteq Configurations
    /\ \A c \in EditorTexts : Range(c.systems) \subseteq EditorIds
    /\ \A i \in 1 .. MaxCommands : i \notin EditorIds
  BY StoreAssumption

-----------------------------------------------------------------------------
(* The temporary files.                                                      *)

Own(p) == {EditTemp(p), WriteTemp(p)}

(* Outside the names N a step brings no file and changes none, but may remove  *)
(* some.                                                                     *)
Carried(N) ==
    \A n \in DOMAIN temps' \ N :
        /\ n \in DOMAIN temps
        /\ temps'[n].content = temps[n].content /\ temps'[n].synced = temps[n].synced

LEMMA WithoutTemps ==
    ASSUME TempsTyped, NEW names, temps' = Without(names)
    PROVE  /\ TempsTyped' /\ \A N : Carried(N)
           /\ \A n \in DOMAIN temps' : n \in DOMAIN temps \ names /\ temps'[n] = temps[n]
<1>1. /\ DOMAIN temps' = DOMAIN temps \ names
      /\ \A n \in DOMAIN temps' : temps'[n] = temps[n]
  BY DEF Without, Restrict
<1> QED BY <1>1 DEF TempsTyped, Carried

(* A step writes the file name and keeps or removes the others.               *)
Puts(name, new) ==
    /\ DOMAIN temps' \subseteq DOMAIN temps \cup {name}
    /\ name \in DOMAIN temps' /\ temps'[name] = new
    /\ \A n \in DOMAIN temps' : n # name => temps'[n] = temps[n]

Written(content, synced) == [content |-> content, synced |-> synced, stale |-> FALSE]

LEMMA WrittenType ==
    ASSUME NEW content \in Configurations \cup {Corrupt}, NEW synced \in BOOLEAN
    PROVE  /\ Written(content, synced) \in Temporaries
           /\ Written(content, synced).content = content
           /\ Written(content, synced).synced = synced
  BY DEF Written, Temporaries

LEMMA PutsTemps ==
    ASSUME TempsTyped, NEW name \in (1 .. MaxCommands) \X {"edit", "write"},
           NEW new \in Temporaries, NEW N, name \in N, Puts(name, new)
    PROVE  TempsTyped' /\ Carried(N)
<1>1. TempsTyped'
  BY DEF TempsTyped, Puts
<1>2. Carried(N)
  BY DEF Carried, Puts
<1> QED BY <1>1, <1>2

LEMMA NameTypes ==
    ASSUME Inv, NEW p \in Procs, Busy(p)
    PROVE  /\ EditTemp(p) \in (1 .. MaxCommands) \X {"edit", "write"}
           /\ WriteTemp(p) \in (1 .. MaxCommands) \X {"edit", "write"}
           /\ EditTemp(p) # WriteTemp(p)
           /\ proc[p] \in Processes /\ proc[p].id \in 1 .. MaxCommands
           /\ proc[p].cmd \in Requests
<1>1. proc[p].id \in 1 .. serial /\ serial \in 0 .. MaxCommands /\ proc[p].cmd \in Requests
  BY DEF Inv, StateTyped, IdsFresh
<1>2. proc[p].id \in 1 .. MaxCommands
  BY <1>1, Constants
<1> QED BY <1>1, <1>2 DEF EditTemp, WriteTemp, Inv, StateTyped

(* Two busy processes name their files differently.                          *)
LEMMA NamesApart ==
    ASSUME Inv, NEW p \in Procs, NEW q \in Procs, p # q, Busy(p), Busy(q)
    PROVE  EditTemp(q) \notin Own(p) /\ WriteTemp(q) \notin Own(p)
<1>1. proc[p].id # proc[q].id
  BY DEF Inv, IdsFresh
<1> QED BY <1>1 DEF Own, EditTemp, WriteTemp

(* A process that does nothing keeps what it has.                             *)
LEMMA BystanderWork ==
    ASSUME NEW q \in Procs, WorkSound(q), proc'[q] = proc[q], NEW N, Carried(N),
           Busy(q) => EditTemp(q) \notin N /\ WriteTemp(q) \notin N,
           proc[q].pc \in Working => Value(file)' = Value(file)
    PROVE  WorkSound(q)'
<1>1. CASE ~Busy(q)
  BY <1>1 DEF WorkSound, Busy, Working, Writing
<1>2. CASE Busy(q)
  <2>1. EditTemp(q)' = EditTemp(q) /\ WriteTemp(q)' = WriteTemp(q) /\ Call(q)' = Call(q)
    BY DEF EditTemp, WriteTemp, Call
  <2>2. \A n \in {EditTemp(q), WriteTemp(q)} : n \in DOMAIN temps' =>
           /\ n \in DOMAIN temps
           /\ temps'[n].content = temps[n].content /\ temps'[n].synced = temps[n].synced
    BY <1>2 DEF Carried
  <2> HIDE DEF EditTemp, WriteTemp, Call
  <2>3. /\ proc'[q].pc \in Working => proc'[q].base = Value(file)'
        /\ proc'[q].pc \in {"edit", "editor"} => proc'[q].cmd.op = "edit"
    BY DEF WorkSound
  <2>4. proc'[q].pc \in Writing =>
          proc'[q].new \in Configurations /\ proc'[q].new \in Outcomes(proc'[q].base, Call(q)')
    BY <2>1 DEF WorkSound
  <2>5. proc'[q].pc = "editor" /\ EditTemp(q)' \in DOMAIN temps' =>
          temps'[EditTemp(q)'].content \in EditorTexts \cup {proc'[q].base, Corrupt}
    BY <2>1, <2>2 DEF WorkSound
  <2>6. /\ proc'[q].pc \in {"verify", "rename"} /\ WriteTemp(q)' \in DOMAIN temps' =>
              temps'[WriteTemp(q)'].synced
        /\ proc'[q].pc = "rename" /\ WriteTemp(q)' \in DOMAIN temps' =>
              temps'[WriteTemp(q)'].content = proc'[q].new
    BY <2>1, <2>2 DEF WorkSound
  <2> QED BY <2>3, <2>4, <2>5, <2>6 DEF WorkSound
<1> QED BY <1>1, <1>2

-----------------------------------------------------------------------------
(* The steps by their kind: a process gives up or ends, it goes on with its    *)
(* command, and those that start a command or change the file.               *)

LEMMA IdleType == Idle \in Processes /\ Idle.pc = "idle"
  BY Constants DEF Idle, Processes, Places

LEMMA IdleStep ==
    ASSUME Inv, NEW p \in Procs, proc' = [proc EXCEPT ![p] = Idle], lock' = Unlocked(p),
           TempsTyped', Carried({}), crashes' \in 0 .. MaxCrashes,
           UNCHANGED <<file, durable, serial, acked>>
    PROVE  Inv'
<1>1. /\ proc' \in [Procs -> Processes] /\ proc'[p] = Idle
      /\ \A q \in Procs : q # p => proc'[q] = proc[q]
  BY IdleType DEF Inv, StateTyped
<1>2. ~Busy(p)' /\ proc'[p].pc \notin Pending
  BY <1>1, IdleType DEF Busy, Pending, Working, Writing
<1>3. StateTyped'
  BY <1>1 DEF Inv, StateTyped, Unlocked
<1>4. UsedIds' = UsedIds
  BY DEF UsedIds, Value
<1>5. IdsFresh'
  <2>1. \A q \in Procs : Busy(q)' => q # p /\ Busy(q) /\ proc'[q] = proc[q]
    BY <1>1, <1>2 DEF Busy
  <2>2. \A q \in Procs : proc'[q].pc \in Pending => proc'[q] = proc[q]
    BY <1>1, <1>2
  <2> QED BY <1>4, <2>1, <2>2 DEF Inv, IdsFresh
<1>6. LockHeld'
  <2>1. ASSUME NEW q \in Procs
        PROVE  lock' = q <=> proc'[q].pc \in Holding
    <3>1. CASE q = p
      BY <1>1, <3>1, IdleType, Constants DEF Unlocked, Holding, Working, Writing
    <3>2. CASE q # p
      <4>1. lock = q <=> proc[q].pc \in Holding
        BY DEF Inv, LockHeld
      <4> QED BY <1>1, <3>2, <4>1, Constants DEF Unlocked
    <3> QED BY <3>1, <3>2
  <2> QED BY <2>1 DEF LockHeld
<1>7. ASSUME NEW q \in Procs
      PROVE  WorkSound(q)'
  <2>1. CASE q = p
    BY <1>1, <2>1, IdleType DEF WorkSound, Working, Writing
  <2>2. CASE q # p
    BY <1>1, <2>2, BystanderWork DEF Inv, Value
  <2> QED BY <2>1, <2>2
<1> QED BY <1>3, <1>5, <1>6, <1>7 DEF Inv

LEMMA MoveStep ==
    ASSUME Inv, NEW p \in Procs, NEW r \in Processes, proc' = [proc EXCEPT ![p] = r],
           proc[p].pc \in Pending, r.pc \in Pending,
           r.id = proc[p].id, r.cmd = proc[p].cmd,
           lock' \in Procs \cup {None}, LockHeld',
           TempsTyped', Carried(Own(p)), WorkSound(p)',
           UNCHANGED <<file, durable, serial, crashes, acked>>
    PROVE  Inv'
<1>1. /\ proc' \in [Procs -> Processes] /\ proc'[p] = r
      /\ \A q \in Procs : q # p => proc'[q] = proc[q]
  BY DEF Inv, StateTyped
<1>2. Busy(p) /\ Busy(p)'
  BY <1>1 DEF Busy, Pending, Working, Writing
<1>3. StateTyped'
  BY <1>1 DEF Inv, StateTyped
<1>4. UsedIds' = UsedIds
  BY DEF UsedIds, Value
<1>5. IdsFresh'
  <2>1. \A q \in Procs : /\ Busy(q)' <=> Busy(q)
                         /\ proc'[q].id = proc[q].id /\ proc'[q].cmd = proc[q].cmd
                         /\ proc'[q].pc \in Pending <=> proc[q].pc \in Pending
    BY <1>1, <1>2 DEF Busy
  <2> QED BY <1>4, <2>1 DEF Inv, IdsFresh
<1>6. ASSUME NEW q \in Procs, q # p
      PROVE  WorkSound(q)'
  BY <1>1, <1>2, <1>6, NamesApart, BystanderWork DEF Inv, Value
<1> QED BY <1>3, <1>5, <1>6 DEF Inv

LEMMA FailStep ==
    ASSUME Inv, NEW p \in Procs, NEW names, FailRemoving(p, names)
    PROVE  Inv'
<1>1. TempsTyped' /\ Carried({})
  BY WithoutTemps DEF Inv, FailRemoving
<1> QED BY <1>1, IdleStep DEF FailRemoving, Inv, StateTyped

(* A process keeps the lock it holds while it goes on.                        *)
LEMMA KeepsLock ==
    ASSUME Inv, NEW p \in Procs, NEW r \in Processes, proc' = [proc EXCEPT ![p] = r],
           proc[p].pc \in Holding, r.pc \in Holding, lock' = lock
    PROVE  LockHeld' /\ lock' \in Procs \cup {None}
<1>1. proc'[p] = r /\ \A q \in Procs : q # p => proc'[q] = proc[q]
  BY DEF Inv, StateTyped
<1> QED BY <1>1 DEF Inv, LockHeld, StateTyped

LEMMA InvokeStep ==
    ASSUME Inv, NEW p \in Procs, Invoke(p)
    PROVE  Inv'
<1>1. PICK r \in Requests :
         proc' = [proc EXCEPT ![p] = [Idle EXCEPT !.pc = "lock", !.cmd = r, !.id = serial + 1]]
  BY DEF Invoke
<1> DEFINE started == [Idle EXCEPT !.pc = "lock", !.cmd = r, !.id = serial + 1]
<1>2. /\ serial' = serial + 1 /\ serial \in Nat /\ serial' \in 0 .. MaxCommands
      /\ serial' \in 1 .. MaxCommands
      /\ proc[p].pc = "idle" /\ UNCHANGED <<file, durable, temps, lock, crashes, acked>>
  BY Constants DEF Invoke, Inv, StateTyped, At
<1>3. /\ started \in Processes /\ started.pc = "lock" /\ started.cmd = r
      /\ started.id = serial'
  BY <1>2, Constants DEF Idle, Processes, Places, Pending
<1>4. proc' = [proc EXCEPT ![p] = started]
  BY <1>1
<1> HIDE DEF started
<1>5. /\ proc' \in [Procs -> Processes] /\ proc'[p] = started
      /\ \A q \in Procs : q # p => proc'[q] = proc[q]
  BY <1>3, <1>4 DEF Inv, StateTyped
<1>6. StateTyped' /\ TempsTyped'
  BY <1>2, <1>5 DEF Inv, StateTyped, TempsTyped
<1>7. UsedIds' = UsedIds /\ serial' \notin UsedIds
  <2>1. UsedIds' = UsedIds
    BY <1>2 DEF UsedIds, Value
  <2>2. UsedIds \subseteq (1 .. serial) \cup EditorIds
    BY DEF Inv, IdsFresh
  <2> QED BY <1>2, <2>1, <2>2, Constants
<1>8. IdsFresh'
  <2>1. \A q \in Procs : q # p => (Busy(q)' <=> Busy(q)) /\ proc'[q] = proc[q]
    BY <1>5 DEF Busy
  <2>2. \A q \in Procs : q # p /\ Busy(q) => proc[q].id \in 1 .. serial /\ proc[q].id # serial'
    BY <1>2 DEF Inv, IdsFresh
  <2>3. UsedIds' \subseteq (1 .. serial') \cup EditorIds
    BY <1>2, <1>7 DEF Inv, IdsFresh
  <2>4. \A q \in Procs : Busy(q)' => proc'[q].cmd \in Requests /\ proc'[q].id \in 1 .. serial'
    <3>1. ASSUME NEW q \in Procs, Busy(q)'
          PROVE  proc'[q].cmd \in Requests /\ proc'[q].id \in 1 .. serial'
      <4>1. CASE q = p
        BY <1>2, <1>3, <1>5, <4>1
      <4>2. CASE q # p
        BY <1>2, <2>1, <2>2, <3>1, <4>2 DEF Inv, IdsFresh
      <4> QED BY <4>1, <4>2
    <3> QED BY <3>1
  <2>5. \A x, q \in Procs : x # q /\ Busy(x)' /\ Busy(q)' => proc'[x].id # proc'[q].id
    BY <1>3, <1>5, <2>1, <2>2 DEF Inv, IdsFresh
  <2>6. \A q \in Procs : proc'[q].pc \in Pending => proc'[q].id \notin UsedIds'
    BY <1>3, <1>5, <1>7 DEF Inv, IdsFresh
  <2> QED BY <2>3, <2>4, <2>5, <2>6 DEF IdsFresh
<1>9. LockHeld'
  BY <1>2, <1>3, <1>5 DEF Inv, LockHeld, Holding, Working, Writing
<1>10. ASSUME NEW q \in Procs
       PROVE  WorkSound(q)'
  <2>1. CASE q = p
    BY <1>3, <1>5, <2>1 DEF WorkSound, Working, Writing
  <2>2. CASE q # p
    <3>1. Carried({})
      BY <1>2 DEF Carried
    <3> QED BY <1>2, <1>5, <2>2, <3>1, BystanderWork DEF Inv, Value
  <2> QED BY <2>1, <2>2
<1> QED BY <1>6, <1>8, <1>9, <1>10 DEF Inv

LEMMA AcquireLockStep ==
    ASSUME Inv, NEW p \in Procs, AcquireLock(p)
    PROVE  Inv'
<1> DEFINE r == [proc[p] EXCEPT !.pc = "load"]
<1>1. /\ proc[p] \in Processes /\ proc[p].pc = "lock" /\ lock = None /\ lock' = p
      /\ UNCHANGED <<file, durable, temps, serial, crashes, acked>>
  BY DEF AcquireLock, Available, At, Inv, StateTyped
<1>2. proc' = [proc EXCEPT ![p] = r]
  BY DEF AcquireLock, Goes, Inv, StateTyped
<1>3. r \in Processes /\ r.pc = "load" /\ r.id = proc[p].id /\ r.cmd = proc[p].cmd
  BY <1>1 DEF Processes, Places, Pending
<1> HIDE DEF r
<1>4. proc'[p] = r /\ \A q \in Procs : q # p => proc'[q] = proc[q]
  BY <1>2 DEF Inv, StateTyped
<1>5. LockHeld' /\ lock' \in Procs \cup {None}
  BY <1>1, <1>3, <1>4, Constants DEF Inv, LockHeld, Holding
<1>6. WorkSound(p)' /\ TempsTyped' /\ Carried(Own(p))
  BY <1>1, <1>3, <1>4 DEF WorkSound, Working, Writing, Inv, TempsTyped, Carried
<1> QED BY <1>1, <1>2, <1>3, <1>5, <1>6, MoveStep DEF Pending

LEMMA LoadedIsValue ==
    ASSUME Inv
    PROVE  Loaded = Value(file) /\ Loaded \in Configurations /\ file.content # Corrupt
<1>1. file \in Files
  BY DEF Inv, StateTyped
<1>2. Value(file) \in Configurations /\ file.content \in Configurations \cup {Missing}
  BY <1>1, ValueValid DEF Files
<1>3. Loaded = Value(file)
  BY DEF Loaded, Value
<1> QED BY <1>2, <1>3, Constants, StoreAssumption

LEMMA LoadAndMutateStep ==
    ASSUME Inv, NEW p \in Procs, LoadAndMutate(p)
    PROVE  Inv'
<1> DEFINE new == Mutated(Loaded, proc[p].cmd, proc[p].id)
           r == [proc[p] EXCEPT !.pc = "write", !.base = Loaded, !.new = new]
<1>1. proc[p].pc = "load" /\ ~Editing(proc[p].cmd)
  BY DEF LoadAndMutate, At, Editing
<1>2. CASE FailRemoving(p, StaleTemps)
  BY <1>2, FailStep
<1>3. CASE /\ new # Refused
           /\ proc' = [proc EXCEPT ![p].pc = "write", ![p].base = Loaded, ![p].new = new]
           /\ temps' = Without(StaleTemps)
           /\ UNCHANGED <<file, durable, lock, daemon, serial, crashes, acked>>
  <2>1. /\ Busy(p) /\ proc[p] \in Processes /\ proc[p].cmd \in Requests
        /\ proc[p].id \in 1 .. MaxCommands
    BY <1>1, NameTypes DEF Busy
  <2>2. proc[p].id \notin Range(Loaded.systems)
    BY <1>1, LoadedIsValue DEF Inv, IdsFresh, UsedIds, Pending
  <2>3. new \in Configurations
    BY <1>1, <1>3, <2>1, <2>2, LoadedIsValue, MutatedSound
  <2>4. new \in Outcomes(Loaded, [cmd |-> proc[p].cmd, id |-> proc[p].id])
    BY <1>1 DEF Outcomes, Editing
  <2> HIDE DEF new
  <2>5. proc' = [proc EXCEPT ![p] = r]
    BY <1>3 DEF Inv, StateTyped
  <2>6. /\ r \in Processes /\ r.pc = "write" /\ r.id = proc[p].id /\ r.cmd = proc[p].cmd
        /\ r.base = Loaded /\ r.new = new
    BY <2>1, <2>3, LoadedIsValue DEF Processes, Places, Pending, Working, Writing
  <2> HIDE DEF r
  <2>7. proc'[p] = r
    BY <2>5 DEF Inv, StateTyped
  <2>8. TempsTyped' /\ Carried(Own(p))
    BY <1>3, WithoutTemps DEF Inv
  <2>9. LockHeld' /\ lock' \in Procs \cup {None}
    BY <1>1, <1>3, <2>5, <2>6, KeepsLock DEF Holding, Working, Writing
  <2>10. Value(file)' = Loaded /\ Call(p)' = [cmd |-> proc[p].cmd, id |-> proc[p].id]
    BY <1>3, <2>6, <2>7, LoadedIsValue DEF Value, Call
  <2>11. WorkSound(p)'
    BY <2>3, <2>4, <2>6, <2>7, <2>10 DEF WorkSound, Working, Writing
  <2> QED BY <1>1, <1>3, <2>5, <2>6, <2>8, <2>9, <2>11, MoveStep DEF Pending, Working, Writing
<1> QED BY <1>2, <1>3 DEF LoadAndMutate

LEMMA LoadForEditStep ==
    ASSUME Inv, NEW p \in Procs, LoadForEdit(p)
    PROVE  Inv'
<1> DEFINE r == [proc[p] EXCEPT !.pc = "edit", !.base = Loaded]
<1>1. proc[p].pc = "load" /\ proc[p].cmd.op = "edit"
  BY DEF LoadForEdit, At
<1>2. CASE FailRemoving(p, StaleTemps)
  BY <1>2, FailStep
<1>3. CASE /\ proc' = [proc EXCEPT ![p].pc = "edit", ![p].base = Loaded]
           /\ temps' = Without(StaleTemps)
           /\ UNCHANGED <<file, durable, lock, daemon, serial, crashes, acked>>
  <2>1. proc[p] \in Processes
    BY DEF Inv, StateTyped
  <2>2. proc' = [proc EXCEPT ![p] = r]
    BY <1>3 DEF Inv, StateTyped
  <2>3. /\ r \in Processes /\ r.pc = "edit" /\ r.id = proc[p].id /\ r.cmd = proc[p].cmd
        /\ r.base = Loaded
    BY <2>1, LoadedIsValue DEF Processes, Places, Pending, Working
  <2> HIDE DEF r
  <2>4. proc'[p] = r
    BY <2>2 DEF Inv, StateTyped
  <2>5. TempsTyped' /\ Carried(Own(p))
    BY <1>3, WithoutTemps DEF Inv
  <2>6. LockHeld' /\ lock' \in Procs \cup {None}
    BY <1>1, <1>3, <2>2, <2>3, KeepsLock DEF Holding, Working, Writing
  <2>7. Value(file)' = Loaded
    BY <1>3, LoadedIsValue DEF Value
  <2>8. WorkSound(p)'
    BY <1>1, <2>3, <2>4, <2>7 DEF WorkSound, Working, Writing
  <2> QED BY <1>1, <1>3, <2>2, <2>3, <2>5, <2>6, <2>8, MoveStep DEF Pending, Working, Writing
<1> QED BY <1>2, <1>3 DEF LoadForEdit

LEMMA CreateEditTempStep ==
    ASSUME Inv, NEW p \in Procs, CreateEditTemp(p)
    PROVE  Inv'
<1> DEFINE r == [proc[p] EXCEPT !.pc = "editor"]
<1>1. proc[p].pc = "edit"
  BY DEF CreateEditTemp, At
<1>2. CASE FailRemoving(p, {EditTemp(p)})
  BY <1>2, FailStep
<1>3. CASE /\ temps' = With(EditTemp(p), proc[p].base, TRUE)
           /\ Goes(p, "editor")
           /\ UNCHANGED <<file, durable, lock, daemon, serial, crashes, acked>>
  <2>1. /\ Busy(p) /\ proc[p] \in Processes
        /\ EditTemp(p) \in (1 .. MaxCommands) \X {"edit", "write"}
    BY <1>1, NameTypes DEF Busy
  <2>2. /\ proc[p].base = Value(file) /\ proc[p].cmd.op = "edit"
        /\ proc[p].base \in Configurations
    <3>1. proc[p].base = Value(file) /\ proc[p].cmd.op = "edit"
      BY <1>1 DEF Inv, WorkSound, Working
    <3> QED BY <3>1, LoadedIsValue
  <2>3. proc' = [proc EXCEPT ![p] = r]
    BY <1>3 DEF Goes, Inv, StateTyped
  <2>4. /\ r \in Processes /\ r.pc = "editor" /\ r.id = proc[p].id /\ r.cmd = proc[p].cmd
        /\ r.base = proc[p].base
    BY <2>1 DEF Processes, Places, Pending, Working
  <2> HIDE DEF r
  <2>5. proc'[p] = r
    BY <2>3 DEF Inv, StateTyped
  <2> DEFINE new == Written(proc[p].base, TRUE)
  <2>6. new \in Temporaries /\ new.content = proc[p].base
    BY <2>2, WrittenType
  <2>7. /\ TempsTyped' /\ Carried(Own(p))
        /\ temps'[EditTemp(p)].content = proc[p].base
    <3>1. TempsTyped /\ EditTemp(p) \in Own(p)
      BY DEF Inv, Own
    <3>2. Puts(EditTemp(p), new)
      BY <1>3 DEF With, Written, Puts
    <3> HIDE DEF new
    <3>3. TempsTyped' /\ Carried(Own(p))
      BY <2>1, <2>6, <3>1, <3>2, PutsTemps
    <3> QED BY <2>6, <3>2, <3>3 DEF Puts
  <2>8. LockHeld' /\ lock' \in Procs \cup {None}
    BY <1>1, <1>3, <2>3, <2>4, KeepsLock DEF Holding, Working, Writing
  <2>9. EditTemp(p)' = EditTemp(p) /\ Value(file)' = Value(file)
    BY <1>3, <2>4, <2>5 DEF EditTemp, Value
  <2>10. WorkSound(p)'
    BY <2>2, <2>4, <2>5, <2>7, <2>9 DEF WorkSound, Working, Writing
  <2> QED BY <1>1, <1>3, <2>3, <2>4, <2>7, <2>8, <2>10, MoveStep DEF Pending, Working, Writing
<1> QED BY <1>2, <1>3 DEF CreateEditTemp

LEMMA EditorSavesStep ==
    ASSUME Inv, NEW p \in Procs, EditorSaves(p)
    PROVE  Inv'
<1>1. /\ proc[p].pc = "editor"
      /\ UNCHANGED <<file, durable, lock, proc, daemon, serial, crashes, acked>>
  BY DEF EditorSaves, At
<1>2. PICK text \in EditorTexts \cup {Corrupt} : temps' = With(EditTemp(p), text, TRUE)
  BY DEF EditorSaves
<1>3. /\ Busy(p) /\ proc[p] \in Processes
      /\ EditTemp(p) \in (1 .. MaxCommands) \X {"edit", "write"}
  BY <1>1, NameTypes DEF Busy
<1>4. text \in Configurations \cup {Corrupt}
  BY Constants
<1> DEFINE new == Written(text, TRUE)
<1>5. new \in Temporaries /\ new.content = text
  BY <1>4, WrittenType
<1>6. TempsTyped' /\ Carried(Own(p)) /\ temps'[EditTemp(p)].content = text
  <2>1. TempsTyped /\ EditTemp(p) \in Own(p)
    BY DEF Inv, Own
  <2>2. Puts(EditTemp(p), new)
    BY <1>2 DEF With, Written, Puts
  <2> HIDE DEF new
  <2>3. TempsTyped' /\ Carried(Own(p))
    BY <1>3, <1>5, <2>1, <2>2, PutsTemps
  <2> QED BY <1>5, <2>2, <2>3 DEF Puts
<1>7. proc' = [proc EXCEPT ![p] = proc[p]]
  BY <1>1 DEF Inv, StateTyped
<1>8. LockHeld' /\ lock' \in Procs \cup {None}
  BY <1>1 DEF Inv, LockHeld, StateTyped
<1>9. EditTemp(p)' = EditTemp(p) /\ Value(file)' = Value(file) /\ proc'[p] = proc[p]
  BY <1>1 DEF EditTemp, Value
<1>10. WorkSound(p)
  BY DEF Inv
<1>11. WorkSound(p)'
  BY <1>1, <1>6, <1>9, <1>10 DEF WorkSound, Working, Writing
<1> QED BY <1>1, <1>3, <1>6, <1>7, <1>8, <1>11, MoveStep DEF Pending, Working, Writing

LEMMA EditorExitsStep ==
    ASSUME Inv, NEW p \in Procs, EditorExits(p)
    PROVE  Inv'
<1> DEFINE new == temps[EditTemp(p)].content
           r == [proc[p] EXCEPT !.pc = "write", !.new = new]
<1>1. proc[p].pc = "editor"
  BY DEF EditorExits, At
<1>2. CASE FailRemoving(p, {EditTemp(p)})
  BY <1>2, FailStep
<1>3. CASE /\ EditTemp(p) \in DOMAIN temps /\ new # Corrupt
           /\ proc' = [proc EXCEPT ![p].pc = "write", ![p].new = new]
           /\ temps' = Without({EditTemp(p)})
           /\ UNCHANGED <<file, durable, lock, daemon, serial, crashes, acked>>
  <2>1. proc[p] \in Processes
    BY DEF Inv, StateTyped
  <2>2. proc[p].base = Value(file) /\ proc[p].cmd.op = "edit" /\ proc[p].base \in Configurations
    <3>1. proc[p].base = Value(file) /\ proc[p].cmd.op = "edit"
      BY <1>1 DEF Inv, WorkSound, Working
    <3> QED BY <3>1, LoadedIsValue
  <2>3. new \in EditorTexts \cup {proc[p].base}
    BY <1>1, <1>3 DEF Inv, WorkSound
  <2>4. new \in Configurations
    BY <2>2, <2>3, Constants
  <2>5. new \in Outcomes(proc[p].base, [cmd |-> proc[p].cmd, id |-> proc[p].id])
    BY <2>2, <2>3 DEF Outcomes
  <2> HIDE DEF new
  <2>6. proc' = [proc EXCEPT ![p] = r]
    BY <1>3 DEF Inv, StateTyped
  <2>7. /\ r \in Processes /\ r.pc = "write" /\ r.id = proc[p].id /\ r.cmd = proc[p].cmd
        /\ r.base = proc[p].base /\ r.new = new
    BY <2>1, <2>4 DEF Processes, Places, Pending, Working, Writing
  <2> HIDE DEF r
  <2>8. proc'[p] = r
    BY <2>6 DEF Inv, StateTyped
  <2>9. TempsTyped' /\ Carried(Own(p))
    BY <1>3, WithoutTemps DEF Inv
  <2>10. LockHeld' /\ lock' \in Procs \cup {None}
    BY <1>1, <1>3, <2>6, <2>7, KeepsLock DEF Holding, Working, Writing
  <2>11. Value(file)' = Value(file) /\ Call(p)' = [cmd |-> proc[p].cmd, id |-> proc[p].id]
    BY <1>3, <2>7, <2>8 DEF Value, Call
  <2>12. WorkSound(p)'
    BY <2>2, <2>4, <2>5, <2>7, <2>8, <2>11 DEF WorkSound, Working, Writing
  <2> QED BY <1>1, <1>3, <2>6, <2>7, <2>9, <2>10, <2>12, MoveStep DEF Pending, Working, Writing
<1> QED BY <1>2, <1>3 DEF EditorExits

(* What a command that goes on in write_atomic keeps.                         *)
LEMMA WritingStep ==
    ASSUME Inv, NEW p \in Procs, proc[p].pc \in Writing, NEW pc \in Writing,
           Goes(p, pc), TempsTyped', Carried(Own(p)),
           UNCHANGED <<file, durable, lock, serial, crashes, acked>>,
           pc \in {"verify", "rename"} /\ WriteTemp(p) \in DOMAIN temps' =>
              temps'[WriteTemp(p)].synced,
           pc = "rename" /\ WriteTemp(p) \in DOMAIN temps' =>
              temps'[WriteTemp(p)].content = proc[p].new
    PROVE  Inv'
<1> DEFINE r == [proc[p] EXCEPT !.pc = pc]
<1>1. proc[p] \in Processes
  BY DEF Inv, StateTyped
<1>2. proc' = [proc EXCEPT ![p] = r]
  BY DEF Goes, Inv, StateTyped
<1>3. /\ r \in Processes /\ r.pc = pc /\ r.id = proc[p].id /\ r.cmd = proc[p].cmd
      /\ r.base = proc[p].base /\ r.new = proc[p].new
  BY <1>1 DEF Processes, Places, Pending, Working
<1> HIDE DEF r
<1>4. proc'[p] = r
  BY <1>2 DEF Inv, StateTyped
<1>5. LockHeld' /\ lock' \in Procs \cup {None}
  BY <1>2, <1>3, KeepsLock DEF Holding, Working
<1>6. /\ Value(file)' = Value(file) /\ Call(p)' = Call(p) /\ WriteTemp(p)' = WriteTemp(p)
      /\ pc # "edit" /\ pc # "editor"
  BY <1>3, <1>4 DEF Value, Call, WriteTemp, Writing
<1>7. WorkSound(p)
  BY DEF Inv
<1>8. WorkSound(p)'
  BY <1>3, <1>4, <1>6, <1>7 DEF WorkSound, Working
<1> QED BY <1>2, <1>3, <1>5, <1>8, MoveStep DEF Pending, Working

LEMMA WriteBytesStep ==
    ASSUME Inv, NEW p \in Procs, WriteBytes(p)
    PROVE  Inv'
<1>1. proc[p].pc = "write"
  BY DEF WriteBytes, At
<1>2. CASE FailRemoving(p, StaleTemps \cup {WriteTemp(p)})
  BY <1>2, FailStep
<1>3. ASSUME NEW content \in {proc[p].new, Corrupt},
             temps' = [n \in (DOMAIN temps \ StaleTemps) \cup {WriteTemp(p)} |->
                         With(WriteTemp(p), content, FALSE)[n]],
             Goes(p, "sync"),
             UNCHANGED <<file, durable, lock, daemon, serial, crashes, acked>>
      PROVE  Inv'
  <2>1. Busy(p) /\ WriteTemp(p) \in (1 .. MaxCommands) \X {"edit", "write"}
    BY <1>1, NameTypes DEF Busy
  <2>2. content \in Configurations \cup {Corrupt}
    BY <1>1, <1>3 DEF Inv, WorkSound, Writing
  <2>3. TempsTyped /\ WriteTemp(p) \in Own(p)
    BY DEF Inv, Own
  <2> DEFINE new == Written(content, FALSE)
  <2>4. new \in Temporaries
    BY <2>2, WrittenType
  <2>5. TempsTyped' /\ Carried(Own(p))
    <3>1. Puts(WriteTemp(p), new)
      BY <1>3 DEF With, Written, Puts
    <3> HIDE DEF new
    <3> QED BY <2>1, <2>3, <2>4, <3>1, PutsTemps
  <2> QED BY <1>1, <1>3, <2>5, WritingStep DEF Writing
<1> QED BY <1>2, <1>3 DEF WriteBytes

LEMMA SyncTempStep ==
    ASSUME Inv, NEW p \in Procs, SyncTemp(p)
    PROVE  Inv'
<1>1. proc[p].pc = "sync" /\ TempsTyped
  BY DEF SyncTemp, At, Inv
<1>2. CASE FailRemoving(p, {WriteTemp(p)})
  BY <1>2, FailStep
<1>3. CASE /\ temps' = Synced(WriteTemp(p)) /\ Goes(p, "verify")
           /\ UNCHANGED <<file, durable, lock, daemon, serial, crashes, acked>>
  <2>1. /\ DOMAIN temps' = DOMAIN temps
        /\ \A n \in DOMAIN temps : n # WriteTemp(p) => temps'[n] = temps[n]
        /\ WriteTemp(p) \in DOMAIN temps =>
              temps'[WriteTemp(p)] = [temps[WriteTemp(p)] EXCEPT !.synced = TRUE]
    BY <1>3 DEF Synced
  <2>2. WriteTemp(p) \in DOMAIN temps =>
          temps'[WriteTemp(p)] \in Temporaries /\ temps'[WriteTemp(p)].synced
    BY <1>1, <2>1 DEF TempsTyped, Temporaries
  <2>3. TempsTyped' /\ Carried(Own(p))
    BY <1>1, <2>1, <2>2 DEF TempsTyped, Carried, Own
  <2> QED BY <1>1, <1>3, <2>1, <2>2, <2>3, WritingStep DEF Writing
<1> QED BY <1>2, <1>3 DEF SyncTemp

LEMMA VerifyTempStep ==
    ASSUME Inv, NEW p \in Procs, VerifyTemp(p)
    PROVE  Inv'
<1>1. proc[p].pc = "verify" /\ TempsTyped
  BY DEF VerifyTemp, At, Inv
<1>2. CASE FailRemoving(p, {WriteTemp(p)})
  BY <1>2, FailStep
<1>3. CASE /\ Verified(p) /\ Goes(p, "rename")
           /\ UNCHANGED <<file, durable, temps, lock, daemon, serial, crashes, acked>>
  <2>1. TempsTyped' /\ Carried(Own(p))
    BY <1>1, <1>3 DEF TempsTyped, Carried
  <2>2. /\ temps[WriteTemp(p)].content = proc[p].new
        /\ WriteTemp(p) \in DOMAIN temps => temps[WriteTemp(p)].synced
    BY <1>1, <1>3 DEF Verified, Inv, WorkSound
  <2> QED BY <1>1, <1>3, <2>1, <2>2, WritingStep DEF Writing
<1> QED BY <1>2, <1>3 DEF VerifyTemp

(* What is renamed is the configuration the process means, whole, with no id    *)
(* in it but those of the file it replaces, its own and an editor's.          *)
LEMMA RenamedFile ==
    ASSUME Inv, NEW p \in Procs, Renamed(p)
    PROVE  /\ file' \in Files /\ file'.version = file.version + 1
           /\ Value(file') = proc[p].new /\ proc[p].new \in Configurations
           /\ proc[p].new \in Outcomes(Value(file), Call(p))
           /\ Range(Value(file').systems) \subseteq
                 Range(Value(file).systems) \cup {proc[p].id} \cup EditorIds
           /\ ~Editing(proc[p].cmd) => Keeps(Value(file), Value(file'), proc[p].id)
<1>1. proc[p].pc = "rename" /\ WriteTemp(p) \in DOMAIN temps /\ WorkSound(p)
  BY DEF Renamed, At, Inv
<1>2. /\ proc[p].new \in Configurations /\ proc[p].new \in Outcomes(Value(file), Call(p))
      /\ temps[WriteTemp(p)].content = proc[p].new /\ temps[WriteTemp(p)].synced
  BY <1>1 DEF WorkSound, Working, Writing
<1>3. temps[WriteTemp(p)].synced = TRUE
  BY <1>1, <1>2 DEF Inv, TempsTyped, Temporaries
<1>4. file' = [content |-> proc[p].new, version |-> file.version + 1, whole |-> TRUE]
  BY <1>2, <1>3 DEF Renamed
<1>5. file.version \in Nat /\ file \in Files
  BY DEF Inv, StateTyped, Files
<1>6. file' \in Files /\ file'.version = file.version + 1 /\ file'.content = proc[p].new
  BY <1>2, <1>4, <1>5 DEF Files
<1>7. Value(file') = proc[p].new
  BY <1>2, <1>6, Constants DEF Value
<1>8. Value(file) \in Configurations
  BY <1>5, ValueValid
<1>9. Busy(p) /\ proc[p].cmd \in Requests /\ proc[p].id \in 1 .. MaxCommands
  BY <1>1, NameTypes DEF Busy
<1>10. proc[p].id \notin Range(Value(file).systems)
  BY <1>1 DEF Inv, IdsFresh, UsedIds, Pending, Working, Writing
<1>11. CASE Editing(proc[p].cmd)
  <2>1. proc[p].new \in EditorTexts \cup {Value(file)}
    BY <1>2, <1>11 DEF Outcomes, Call, Editing
  <2> QED BY <1>2, <1>6, <1>7, <1>11, <2>1, Constants
<1>12. CASE ~Editing(proc[p].cmd)
  <2>1. proc[p].new = Mutated(Value(file), proc[p].cmd, proc[p].id)
    BY <1>2, <1>12 DEF Outcomes, Call, Editing
  <2>2. Refused \notin Configurations
    BY DEF Refused, Configurations
  <2>3. Keeps(Value(file), proc[p].new, proc[p].id)
    BY <1>2, <1>8, <1>9, <1>10, <1>12, <2>1, <2>2, MutatedSound
  <2> QED BY <1>2, <1>6, <1>7, <2>3 DEF Keeps
<1> QED BY <1>11, <1>12

LEMMA RenamedStep ==
    ASSUME Inv, NEW p \in Procs, Renamed(p)
    PROVE  Inv'
<1> DEFINE r == [proc[p] EXCEPT !.pc = "directory"]
<1>1. /\ proc[p].pc = "rename" /\ temps' = Without({WriteTemp(p)})
      /\ UNCHANGED <<durable, lock, serial, crashes, acked>>
  BY DEF Renamed, At
<1>2. proc[p] \in Processes
  BY DEF Inv, StateTyped
<1>3. proc' = [proc EXCEPT ![p] = r]
  BY DEF Renamed, Goes, Inv, StateTyped
<1>4. r \in Processes /\ r.pc = "directory" /\ r.id = proc[p].id /\ r.cmd = proc[p].cmd
  BY <1>2 DEF Processes, Places
<1> HIDE DEF r
<1>5. /\ proc' \in [Procs -> Processes] /\ proc'[p] = r
      /\ \A q \in Procs : q # p => proc'[q] = proc[q]
  BY <1>3, <1>4 DEF Inv, StateTyped
<1>6. TempsTyped' /\ Carried({})
  BY <1>1, WithoutTemps DEF Inv
<1>7. StateTyped'
  <2>1. file' \in Files /\ file'.version = file.version + 1
    BY RenamedFile
  <2>2. /\ file.version \in Nat /\ durable.version \in Nat
        /\ durable.version <= file.version
    BY DEF Inv, StateTyped, Files
  <2> QED BY <1>1, <1>5, <2>1, <2>2 DEF Inv, StateTyped
<1>8. LockHeld' /\ lock = p
  <2>1. LockHeld'
    BY <1>1, <1>3, <1>4, KeepsLock DEF Holding, Working, Writing
  <2> QED BY <1>1, <2>1 DEF Inv, LockHeld, Holding, Working, Writing
<1>9. UsedIds' \subseteq UsedIds \cup {proc[p].id} \cup EditorIds
  <2>1. Range(Value(file').systems) \subseteq
          Range(Value(file).systems) \cup {proc[p].id} \cup EditorIds
    BY RenamedFile
  <2>2. UsedIds' = Range(Value(file').systems) \cup Range(Value(durable).systems)
    BY <1>1 DEF UsedIds, Value
  <2> QED BY <2>1, <2>2 DEF UsedIds
<1>10. IdsFresh'
  <2>1. Busy(p) /\ proc[p].id \in 1 .. serial
    BY <1>1 DEF Busy, Inv, IdsFresh
  <2>2. UsedIds' \subseteq (1 .. serial') \cup EditorIds
    BY <1>1, <1>9, <2>1 DEF Inv, IdsFresh
  <2>3. \A q \in Procs : /\ Busy(q)' => Busy(q)
                         /\ proc'[q].id = proc[q].id /\ proc'[q].cmd = proc[q].cmd
    BY <1>4, <1>5, <2>1 DEF Busy
  <2>4. ASSUME NEW q \in Procs, proc'[q].pc \in Pending
        PROVE  proc'[q].id \notin UsedIds'
    <3>1. q # p /\ proc'[q] = proc[q] /\ Busy(q)
      BY <1>4, <1>5, <2>4 DEF Pending, Working, Writing, Busy
    <3>2. proc[q].id \notin UsedIds /\ proc[q].id # proc[p].id
      BY <2>1, <2>4, <3>1 DEF Inv, IdsFresh
    <3>3. proc[q].id \notin EditorIds
      BY <3>1, NameTypes, Constants
    <3> QED BY <1>9, <3>1, <3>2, <3>3
  <2> QED BY <1>1, <2>2, <2>3, <2>4 DEF Inv, IdsFresh
<1>11. ASSUME NEW q \in Procs
       PROVE  WorkSound(q)'
  <2>1. CASE q = p
    BY <1>4, <1>5, <2>1 DEF WorkSound, Working, Writing
  <2>2. CASE q # p
    <3>1. proc[q].pc \notin Working
      BY <1>8, <2>2 DEF Inv, LockHeld, Holding
    <3> QED BY <1>5, <1>6, <2>2, <3>1, BystanderWork DEF Inv
  <2> QED BY <2>1, <2>2
<1> QED BY <1>6, <1>7, <1>8, <1>10, <1>11 DEF Inv

(* The update is on disk, the lock goes and the command says so.              *)
LEMMA SyncDirectoryStep ==
    ASSUME Inv, NEW p \in Procs, SyncDirectory(p)
    PROVE  Inv'
<1>1. /\ proc[p].pc = "directory" /\ durable' = file /\ acked' = file.version
      /\ lock' = Unlocked(p) /\ UNCHANGED <<file, temps, serial, crashes>>
  BY DEF SyncDirectory, At, DirectorySynced
<1>2. proc[p] \in Processes /\ file \in Files
  BY DEF Inv, StateTyped
<1>3. PICK r \in Processes :
         /\ proc' = [proc EXCEPT ![p] = r]
         /\ \/ r.pc = "idle"
            \/ r.pc = "notify" /\ r.id = proc[p].id /\ r.cmd = proc[p].cmd
  <2>1. CASE proc' = [proc EXCEPT ![p] = Idle]
    <3>1. Idle \in Processes /\ Idle.pc = "idle"
      BY IdleType
    <3> QED BY <2>1, <3>1, Zenon
  <2>2. CASE Goes(p, "notify")
    <3> DEFINE r == [proc[p] EXCEPT !.pc = "notify"]
    <3>1. proc' = [proc EXCEPT ![p] = r]
      BY <2>2 DEF Goes, Inv, StateTyped
    <3>2. r \in Processes /\ r.pc = "notify" /\ r.id = proc[p].id /\ r.cmd = proc[p].cmd
      BY <1>2 DEF Processes, Places
    <3> HIDE DEF r
    <3> QED BY <3>1, <3>2
  <2> QED BY <2>1, <2>2 DEF SyncDirectory
<1>4. /\ proc' \in [Procs -> Processes] /\ proc'[p] = r
      /\ \A q \in Procs : q # p => proc'[q] = proc[q]
  BY <1>3 DEF Inv, StateTyped
<1>5. StateTyped'
  <2>1. file.version \in Nat /\ file.version <= file.version
    BY <1>2 DEF Files
  <2> QED BY <1>1, <1>2, <1>4, <2>1 DEF Inv, StateTyped, Unlocked
<1>6. TempsTyped' /\ Carried({})
  BY <1>1 DEF Inv, TempsTyped, Carried
<1>7. UsedIds' \subseteq UsedIds
  BY <1>1 DEF UsedIds, Value
<1>8. IdsFresh'
  <2>1. r.pc \notin Pending /\ Busy(p)
    BY <1>1, <1>3 DEF Pending, Working, Writing, Busy
  <2>2. \A q \in Procs : Busy(q)' =>
           Busy(q) /\ proc'[q].id = proc[q].id /\ proc'[q].cmd = proc[q].cmd
    BY <1>3, <1>4, <2>1 DEF Busy
  <2>3. \A q \in Procs : proc'[q].pc \in Pending => proc'[q] = proc[q]
    BY <1>4, <2>1
  <2> QED BY <1>1, <1>7, <2>2, <2>3 DEF Inv, IdsFresh
<1>9. LockHeld'
  <2>1. lock = p /\ lock' = None
    BY <1>1 DEF Inv, LockHeld, Holding, Unlocked
  <2>2. r.pc \notin Holding
    BY <1>3 DEF Holding, Working, Writing
  <2>3. \A q \in Procs : q # p => proc[q].pc \notin Holding
    BY <2>1 DEF Inv, LockHeld
  <2> QED BY <1>4, <2>1, <2>2, <2>3, Constants DEF LockHeld
<1>10. ASSUME NEW q \in Procs
       PROVE  WorkSound(q)'
  <2>1. CASE q = p
    BY <1>3, <1>4, <2>1 DEF WorkSound, Working, Writing
  <2>2. CASE q # p
    BY <1>1, <1>4, <1>6, <2>2, BystanderWork DEF Inv, Value
  <2> QED BY <2>1, <2>2
<1> QED BY <1>5, <1>6, <1>8, <1>9, <1>10 DEF Inv

(* The steps that leave the processes and the file alone.                     *)
LEMMA AsideStep ==
    ASSUME Inv, UNCHANGED <<file, durable, lock, proc, serial, crashes, acked>>,
           TempsTyped', Carried({})
    PROVE  Inv'
<1>1. StateTyped' /\ LockHeld' /\ UsedIds' = UsedIds
  BY DEF Inv, StateTyped, LockHeld, UsedIds, Value
<1>2. IdsFresh'
  BY <1>1 DEF Inv, IdsFresh, Busy
<1>3. \A q \in Procs : WorkSound(q)'
  BY BystanderWork DEF Inv, Value
<1> QED BY <1>1, <1>2, <1>3 DEF Inv

LEMMA ReadStep ==
    ASSUME Inv, StartDaemon \/ ReloadDaemon
    PROVE  Inv'
<1>1. /\ temps' = Without(StaleTemps)
      /\ UNCHANGED <<file, durable, lock, proc, serial, crashes, acked>>
  BY DEF StartDaemon, ReloadDaemon, ReadFile
<1>2. TempsTyped' /\ Carried({})
  BY <1>1, WithoutTemps DEF Inv
<1> QED BY <1>1, <1>2, AsideStep

LEMMA AgeStep ==
    ASSUME Inv, NEW n \in DOMAIN temps, Age(n)
    PROVE  Inv'
<1>1. /\ temps' = [temps EXCEPT ![n].stale = TRUE]
      /\ UNCHANGED <<file, durable, lock, proc, serial, crashes, acked>>
  BY DEF Age
<1>2. /\ DOMAIN temps' = DOMAIN temps
      /\ \A m \in DOMAIN temps : m # n => temps'[m] = temps[m]
      /\ temps'[n] = [temps[n] EXCEPT !.stale = TRUE]
  BY <1>1
<1>3. temps[n] \in Temporaries
  BY DEF Inv, TempsTyped
<1>4. /\ temps'[n] \in Temporaries
      /\ temps'[n].content = temps[n].content /\ temps'[n].synced = temps[n].synced
  BY <1>2, <1>3 DEF Temporaries
<1>5. TempsTyped' /\ Carried({})
  BY <1>2, <1>4 DEF Inv, TempsTyped, Carried
<1> QED BY <1>1, <1>5, AsideStep

LEMMA EndsStep ==
    ASSUME Inv, NEW p \in Procs, Kill(p) \/ NotifyRunningDaemon(p)
    PROVE  Inv'
<1>1. /\ proc' = [proc EXCEPT ![p] = Idle] /\ UNCHANGED <<file, durable, temps, serial, acked>>
      /\ crashes' \in 0 .. MaxCrashes
  BY Constants DEF Kill, NotifyRunningDaemon, Inv, StateTyped
<1>2. lock' = Unlocked(p)
  <2>1. CASE Kill(p)
    BY <2>1 DEF Kill
  <2>2. CASE NotifyRunningDaemon(p)
    BY <2>2 DEF NotifyRunningDaemon, At, Unlocked, Inv, LockHeld, Holding, Working, Writing
  <2> QED BY <2>1, <2>2
<1>3. TempsTyped' /\ Carried({})
  BY <1>1 DEF Inv, TempsTyped, Carried
<1> QED BY <1>1, <1>2, <1>3, IdleStep

LEMMA PowerLossFile ==
    ASSUME Inv, PowerLoss
    PROVE  file' \in {file, durable} /\ durable' = file'
<1>1. file.whole = TRUE
  BY DEF Inv, StateTyped, Files
<1> QED BY <1>1 DEF PowerLoss, AfterPowerLoss

LEMMA PowerLossStep ==
    ASSUME Inv, PowerLoss
    PROVE  Inv'
<1>1. /\ proc' = [q \in Procs |-> Idle] /\ lock' = None /\ UNCHANGED <<temps, serial, acked>>
      /\ crashes' \in 0 .. MaxCrashes
  BY Constants DEF PowerLoss, Inv, StateTyped
<1>2. file' \in {file, durable} /\ durable' = file'
  BY PowerLossFile
<1>3. \A q \in Procs : proc'[q] = Idle /\ proc'[q].pc = "idle"
  BY <1>1, IdleType
<1>4. StateTyped'
  <2>1. /\ file \in Files /\ durable \in Files /\ acked \in Nat
        /\ file.version \in Nat /\ durable.version \in Nat
        /\ acked <= durable.version /\ durable.version <= file.version
    BY DEF Inv, StateTyped, Files
  <2>2. /\ file' \in Files /\ durable' \in Files /\ acked <= durable'.version
        /\ durable'.version <= file'.version
    BY <1>2, <2>1
  <2> QED BY <1>1, <1>2, <2>1, <2>2, IdleType DEF Inv, StateTyped
<1>5. IdsFresh'
  <2>1. UsedIds' \subseteq UsedIds
    BY <1>2 DEF UsedIds, Value
  <2> QED BY <1>1, <1>3, <2>1 DEF Inv, IdsFresh, Busy, Pending, Working, Writing
<1>6. LockHeld' /\ TempsTyped' /\ \A q \in Procs : WorkSound(q)'
  BY <1>1, <1>3, Constants
     DEF Inv, LockHeld, TempsTyped, WorkSound, Holding, Working, Writing
<1> QED BY <1>4, <1>5, <1>6 DEF Inv

LEMMA StutterStep ==
    ASSUME Inv, UNCHANGED vars
    PROVE  Inv'
<1>1. TempsTyped' /\ Carried({})
  BY DEF vars, Inv, TempsTyped, Carried
<1> QED BY <1>1, AsideStep DEF vars

LEMMA InitInv ==
    ASSUME Init
    PROVE  Inv
<1>1. /\ file \in Files /\ durable = file /\ file.version = 0 /\ Value(file) = Default
      /\ temps = <<>> /\ lock = None /\ proc = [p \in Procs |-> Idle]
      /\ serial = 0 /\ crashes = 0 /\ acked = 0
  <2>1. /\ file \in [content : {Missing, Default}, version : {0}, whole : {TRUE}]
        /\ durable = file
        /\ temps = <<>> /\ lock = None /\ proc = [p \in Procs |-> Idle]
        /\ serial = 0 /\ crashes = 0 /\ acked = 0
    BY DEF Init
  <2>2. file.content \in {Missing, Default} /\ file.version = 0
    BY <2>1
  <2>3. file \in Files
    <3> DEFINE C == {Missing, Default}
               Z == {0}
               W == {TRUE}
    <3>1. C \subseteq Configurations \cup {Missing}
      BY DefaultValid
    <3>2. file \in [content : C, version : Z, whole : W]
      BY <2>1, Zenon
    <3>3. Z \subseteq Nat
      OBVIOUS
    <3>4. Files = [content : Configurations \cup {Missing}, version : Nat, whole : W]
      BY DEF Files
    <3> HIDE DEF C, Z, W
    <3> QED BY <3>1, <3>2, <3>3, <3>4
  <2> QED BY <2>1, <2>2, <2>3 DEF Value
<1>2. \A q \in Procs : proc[q] = Idle /\ proc[q].pc = "idle"
  BY <1>1, IdleType
<1>3. StateTyped
  BY <1>1, <1>2, IdleType, Constants DEF StateTyped
<1>4. UsedIds = {}
  BY <1>1 DEF UsedIds, Default, Range
<1>5. IdsFresh
  BY <1>1, <1>2, <1>4 DEF IdsFresh, Busy, Pending, Working, Writing
<1>6. LockHeld /\ TempsTyped /\ \A q \in Procs : WorkSound(q)
  BY <1>1, <1>2, Constants DEF LockHeld, TempsTyped, WorkSound, Holding, Working, Writing
<1> QED BY <1>3, <1>5, <1>6 DEF Inv

LEMMA NextInv ==
    ASSUME Inv, [Next]_vars
    PROVE  Inv'
<1>1. ASSUME NEW p \in Procs, Step(p)
      PROVE  Inv'
  BY <1>1, AcquireLockStep, LoadAndMutateStep, LoadForEditStep, CreateEditTempStep,
     WriteBytesStep, SyncTempStep, VerifyTempStep, RenamedStep, SyncDirectoryStep, EndsStep,
     FailStep DEF Step, LockFails, RenameFails, SyncDirectoryFails
<1>2. ASSUME NEW p \in Procs, Editor(p)
      PROVE  Inv'
  BY <1>2, EditorSavesStep, EditorExitsStep, FailStep DEF Editor, EditorFails
<1>3. ASSUME NEW p \in Procs, Invoke(p) \/ Kill(p)
      PROVE  Inv'
  BY <1>3, InvokeStep, EndsStep
<1>4. CASE \/ \E n \in DOMAIN temps : Age(n)
           \/ StartDaemon \/ ReloadDaemon \/ PowerLoss \/ UNCHANGED vars
  BY <1>4, AgeStep, ReadStep, PowerLossStep, StutterStep
<1> QED BY <1>1, <1>2, <1>3, <1>4 DEF Next

LEMMA Invariance == Spec => []Inv
<1>1. Init => Inv
  BY InitInv
<1>2. Inv /\ [Next]_vars => Inv'
  BY NextInv
<1> QED BY <1>1, <1>2, PTL DEF Spec

-----------------------------------------------------------------------------
LEMMA InvSound ==
    ASSUME Inv
    PROVE  TypeOK /\ FileIntact /\ BaseIsCurrent /\ AckedIsDurable
<1>1. /\ file \in Files /\ durable \in Files
      /\ file.version \in Nat /\ durable.version \in Nat /\ acked \in Nat
      /\ acked <= durable.version /\ durable.version <= file.version
  BY DEF Inv, StateTyped, Files
<1>2. TypeOK
  BY <1>1 DEF Inv, StateTyped, TempsTyped, LockHeld, Holding, Working, Writing, TypeOK
<1>3. FileIntact
  BY <1>1 DEF Files, FileIntact
<1>4. BaseIsCurrent
  BY DEF Inv, WorkSound, Working, Writing, BaseIsCurrent, Loaded, Value
<1>5. AckedIsDurable
  BY <1>1 DEF AckedIsDurable
<1> QED BY <1>2, <1>3, <1>4, <1>5

LEMMA RenamedKeeps ==
    ASSUME Inv, NEW p \in Procs, Renamed(p), proc[p].cmd.op # "edit",
           NEW a \in DOMAIN Value(file).systems \cap DOMAIN Value(file').systems
    PROVE  Value(file').systems[a] = Value(file).systems[a]
<1>1. Keeps(Value(file), Value(file'), proc[p].id)
  BY RenamedFile DEF Editing
<1> QED BY <1>1 DEF Keeps

(* Whatever the processes, their commands, the editors and the crashes are: the *)
(* file is never torn, no command overwrites an update it has not read, a power *)
(* loss undoes none that was acknowledged, and a system keeps its id            *)
(* (ConfigStore::with_lock, edit_transaction, Config::write_atomic).           *)
THEOREM StoreIsSound == Spec => StoreSound
<1>1. Inv => TypeOK /\ FileIntact /\ BaseIsCurrent /\ AckedIsDurable
  BY InvSound
<1>2. Inv => \A p \in Procs : (Renamed(p) /\ proc[p].cmd.op # "edit") =>
                \A a \in DOMAIN Value(file).systems \cap DOMAIN Value(file').systems :
                    Value(file').systems[a] = Value(file).systems[a]
  BY RenamedKeeps
<1> QED BY <1>1, <1>2, Invariance, PTL DEF StoreSound, IdsKept

-----------------------------------------------------------------------------
(* The register.                                                             *)

Request(r) ==
    IF r.pc \in {"idle", "notify"} THEN None
    ELSE [cmd |-> [cmd |-> r.cmd, id |-> r.id], applied |-> r.pc = "directory"]

LEMMA OutstandingIs ==
    ASSUME NEW p \in Procs
    PROVE  Outstanding[p] = Request(proc[p])
  BY DEF Outstanding, Request

LEMMA OutstandingMoves ==
    ASSUME Inv, NEW p \in Procs, NEW r, proc' = [proc EXCEPT ![p] = r]
    PROVE  Outstanding' = [Outstanding EXCEPT ![p] = Request(r)]
<1>1. /\ proc'[p] = r
      /\ \A q \in Procs : q # p => proc'[q] = proc[q]
  BY DEF Inv, StateTyped
<1>2. Outstanding' = [q \in Procs |-> Request(proc'[q])]
  BY DEF Outstanding, Request
<1>3. Outstanding = [q \in Procs |-> Request(proc[q])]
  BY DEF Outstanding, Request
<1> QED BY <1>1, <1>2, <1>3

(* The steps as the register sees them: a command ends, or goes on unseen.    *)
Ends(p) ==
    /\ proc' = [proc EXCEPT ![p] = Idle]
    /\ UNCHANGED <<file, durable>>

Advances(p, r) ==
    /\ proc' = [proc EXCEPT ![p] = r]
    /\ proc[p].pc \in Pending /\ r.pc \in Pending
    /\ r.cmd = proc[p].cmd /\ r.id = proc[p].id
    /\ UNCHANGED <<file, durable>>

Unseen == UNCHANGED <<file, durable, proc>>

LEMMA GoesAdvances ==
    ASSUME Inv, NEW p \in Procs, NEW place \in Pending, Goes(p, place),
           proc[p].pc \in Pending, UNCHANGED <<file, durable>>
    PROVE  Advances(p, [proc[p] EXCEPT !.pc = place])
<1>1. proc[p] \in Processes
  BY DEF Inv, StateTyped
<1>2. proc' = [proc EXCEPT ![p] = [proc[p] EXCEPT !.pc = place]]
  BY DEF Goes, Inv, StateTyped
<1> QED BY <1>1, <1>2 DEF Advances, Processes

LEMMA StepKinds ==
    ASSUME Inv, NEW p \in Procs, Step(p) \/ Editor(p) \/ Kill(p)
    PROVE  Ends(p) \/ (\E r : Advances(p, r)) \/ Unseen \/ Renamed(p) \/ SyncDirectory(p)
<1>1. ASSUME NEW names, FailRemoving(p, names)
      PROVE  Ends(p)
  BY <1>1 DEF FailRemoving, Ends
<1>2. CASE Kill(p) \/ NotifyRunningDaemon(p)
  BY <1>2 DEF Kill, NotifyRunningDaemon, Ends
<1>3. CASE LockFails(p) \/ RenameFails(p) \/ SyncDirectoryFails(p) \/ EditorFails(p)
  BY <1>1, <1>3 DEF LockFails, RenameFails, SyncDirectoryFails, EditorFails
<1>4. CASE EditorSaves(p)
  BY <1>4 DEF EditorSaves, Unseen
<1>5. ASSUME NEW place \in Pending, Goes(p, place), proc[p].pc \in Pending,
             UNCHANGED <<file, durable>>
      PROVE  \E r : Advances(p, r)
  BY <1>5, GoesAdvances
<1>6. CASE AcquireLock(p)
  BY <1>5, <1>6 DEF AcquireLock, At, Pending
<1>7. CASE CreateEditTemp(p)
  BY <1>1, <1>5, <1>7 DEF CreateEditTemp, At, Pending, Working
<1>8. CASE WriteBytes(p)
  BY <1>1, <1>5, <1>8 DEF WriteBytes, At, Pending, Working, Writing
<1>9. CASE SyncTemp(p)
  BY <1>1, <1>5, <1>9 DEF SyncTemp, At, Pending, Working, Writing
<1>10. CASE VerifyTemp(p)
  BY <1>1, <1>5, <1>10 DEF VerifyTemp, At, Pending, Working, Writing
<1>11. proc[p] \in Processes
  BY DEF Inv, StateTyped
<1>12. CASE LoadAndMutate(p)
  <2> DEFINE new == Mutated(Loaded, proc[p].cmd, proc[p].id)
             r == [proc[p] EXCEPT !.pc = "write", !.base = Loaded, !.new = new]
  <2>1. CASE FailRemoving(p, StaleTemps)
    BY <1>1, <2>1
  <2>2. CASE /\ proc' = [proc EXCEPT ![p].pc = "write", ![p].base = Loaded, ![p].new = new]
             /\ UNCHANGED <<file, durable>>
    <3> HIDE DEF new
    <3>1. proc' = [proc EXCEPT ![p] = r]
      BY <2>2 DEF Inv, StateTyped
    <3>2. r.pc = "write" /\ r.cmd = proc[p].cmd /\ r.id = proc[p].id /\ proc[p].pc = "load"
      BY <1>11, <1>12 DEF Processes, LoadAndMutate, At
    <3> HIDE DEF r
    <3>3. Advances(p, r)
      BY <2>2, <3>1, <3>2 DEF Advances, Pending, Working, Writing
    <3> QED BY <3>3
  <2> QED BY <1>12, <2>1, <2>2 DEF LoadAndMutate
<1>13. CASE LoadForEdit(p)
  <2> DEFINE r == [proc[p] EXCEPT !.pc = "edit", !.base = Loaded]
  <2>1. CASE FailRemoving(p, StaleTemps)
    BY <1>1, <2>1
  <2>2. CASE /\ proc' = [proc EXCEPT ![p].pc = "edit", ![p].base = Loaded]
             /\ UNCHANGED <<file, durable>>
    <3>1. proc' = [proc EXCEPT ![p] = r]
      BY <2>2 DEF Inv, StateTyped
    <3>2. r.pc = "edit" /\ r.cmd = proc[p].cmd /\ r.id = proc[p].id /\ proc[p].pc = "load"
      BY <1>11, <1>13 DEF Processes, LoadForEdit, At
    <3> HIDE DEF r
    <3>3. Advances(p, r)
      BY <2>2, <3>1, <3>2 DEF Advances, Pending, Working
    <3> QED BY <3>3
  <2> QED BY <1>13, <2>1, <2>2 DEF LoadForEdit
<1>14. CASE EditorExits(p)
  <2> DEFINE new == temps[EditTemp(p)].content
             r == [proc[p] EXCEPT !.pc = "write", !.new = new]
  <2>1. CASE FailRemoving(p, {EditTemp(p)})
    BY <1>1, <2>1
  <2>2. CASE /\ proc' = [proc EXCEPT ![p].pc = "write", ![p].new = new]
             /\ UNCHANGED <<file, durable>>
    <3> HIDE DEF new
    <3>1. proc' = [proc EXCEPT ![p] = r]
      BY <2>2 DEF Inv, StateTyped
    <3>2. r.pc = "write" /\ r.cmd = proc[p].cmd /\ r.id = proc[p].id /\ proc[p].pc = "editor"
      BY <1>11, <1>14 DEF Processes, EditorExits, At
    <3> HIDE DEF r
    <3>3. Advances(p, r)
      BY <2>2, <3>1, <3>2 DEF Advances, Pending, Working, Writing
    <3> QED BY <3>3
  <2> QED BY <1>14, <2>1, <2>2 DEF EditorExits
<1> QED BY <1>2, <1>3, <1>4, <1>6, <1>7, <1>8, <1>9, <1>10, <1>12, <1>13, <1>14
        DEF Step, Editor

(* A step of the store is a step of the register or leaves it alone.          *)
RegisterStep == [Register!Next]_(Register!vars)

LEMMA RecordNotNone ==
    ASSUME NEW p \in Procs, Inv, Busy(p)
    PROVE  [cmd |-> [cmd |-> proc[p].cmd, id |-> proc[p].id],
            applied |-> proc[p].pc = "directory"] # None
<1>1. proc[p].cmd \in Requests /\ proc[p].id \in 1 .. MaxCommands
  BY NameTypes
<1>2. [cmd |-> proc[p].cmd, id |-> proc[p].id] \in Calls
  BY <1>1 DEF Calls
<1>3. None \notin [cmd : Calls, applied : BOOLEAN]
  BY StoreAssumption, Zenon
<1>4. \A c \in Calls, b \in BOOLEAN : [cmd |-> c, applied |-> b] \in [cmd : Calls, applied : BOOLEAN]
  OBVIOUS
<1>5. (proc[p].pc = "directory") \in BOOLEAN
  OBVIOUS
<1> QED BY <1>2, <1>3, <1>4, <1>5, Zenon

LEMMA UnseenRefines ==
    ASSUME Unseen
    PROVE  RegisterStep
  BY DEF Unseen, RegisterStep, Register!vars, Value, Outstanding

LEMMA AdvancesRefines ==
    ASSUME Inv, NEW p \in Procs, NEW r, Advances(p, r)
    PROVE  RegisterStep
<1>1. Request(r) = Request(proc[p])
  BY DEF Advances, Request, Pending, Working, Writing
<1>2. Outstanding' = [Outstanding EXCEPT ![p] = Outstanding[p]]
  BY <1>1, OutstandingMoves, OutstandingIs DEF Advances
<1>3. Outstanding' = Outstanding
  BY <1>2 DEF Outstanding
<1>4. Value(file)' = Value(file) /\ Value(durable)' = Value(durable)
  BY DEF Advances, Value
<1> QED BY <1>3, <1>4 DEF RegisterStep, Register!vars

LEMMA EndsRefines ==
    ASSUME Inv, NEW p \in Procs, Ends(p)
    PROVE  RegisterStep
<1>1. Outstanding' = [Outstanding EXCEPT ![p] = None]
  <2>1. Request(Idle) = None
    BY IdleType DEF Request
  <2> QED BY <2>1, OutstandingMoves DEF Ends
<1>2. Value(file)' = Value(file) /\ Value(durable)' = Value(durable)
  BY DEF Ends, Value
<1>3. CASE Outstanding[p] = None
  <2>1. Outstanding' = Outstanding
    BY <1>1, <1>3 DEF Outstanding
  <2> QED BY <1>2, <2>1 DEF RegisterStep, Register!vars
<1>4. CASE Outstanding[p] # None
  <2>1. Register!Abandon(p)
    BY <1>1, <1>2, <1>4 DEF Register!Abandon
  <2> QED BY <2>1 DEF RegisterStep, Register!Next
<1> QED BY <1>3, <1>4

LEMMA InvokeRefines ==
    ASSUME Inv, NEW p \in Procs, Invoke(p)
    PROVE  RegisterStep
<1>1. PICK r \in Requests :
         proc' = [proc EXCEPT ![p] = [Idle EXCEPT !.pc = "lock", !.cmd = r, !.id = serial + 1]]
  BY Zenon DEF Invoke
<1> DEFINE started == [Idle EXCEPT !.pc = "lock", !.cmd = r, !.id = serial + 1]
           call == [cmd |-> r, id |-> serial + 1]
<1>2. serial + 1 \in 1 .. MaxCommands
  BY Constants DEF Invoke, Inv, StateTyped
<1>3. call \in Calls
  BY <1>2 DEF Calls
<1>4. Request(started) = [cmd |-> call, applied |-> FALSE]
  BY DEF Request, Idle
<1>5. Outstanding' = [Outstanding EXCEPT ![p] = Request(started)]
  BY <1>1, OutstandingMoves
<1>6. Outstanding[p] = None
  BY OutstandingIs DEF Request, Invoke, At
<1>7. Value(file)' = Value(file) /\ Value(durable)' = Value(durable)
  BY DEF Invoke, Value
<1> HIDE DEF started, call
<1>8. Register!Begin(p)
  BY <1>3, <1>4, <1>5, <1>6, <1>7 DEF Register!Begin
<1> QED BY <1>8 DEF RegisterStep, Register!Next

LEMMA RenamedRefines ==
    ASSUME Inv, NEW p \in Procs, Renamed(p)
    PROVE  RegisterStep
<1> DEFINE r == [proc[p] EXCEPT !.pc = "directory"]
<1>1. proc[p].pc = "rename" /\ UNCHANGED durable /\ proc[p] \in Processes
  BY DEF Renamed, At, Inv, StateTyped
<1>2. proc' = [proc EXCEPT ![p] = r]
  BY DEF Renamed, Goes, Inv, StateTyped
<1>3. r.pc = "directory" /\ r.cmd = proc[p].cmd /\ r.id = proc[p].id
  BY <1>1 DEF Processes
<1> HIDE DEF r
<1>4. Request(r) = [cmd |-> Call(p), applied |-> TRUE]
  BY <1>3 DEF Request, Call
<1>5. Outstanding[p] = [cmd |-> Call(p), applied |-> FALSE]
  BY <1>1, OutstandingIs DEF Request, Call
<1>6. Outstanding[p] # None
  BY <1>1, OutstandingIs, RecordNotNone DEF Request, Busy
<1>7. Outstanding' = [Outstanding EXCEPT ![p] = [cmd |-> Outstanding[p].cmd, applied |-> TRUE]]
  <2>1. Outstanding' = [Outstanding EXCEPT ![p] = Request(r)]
    BY <1>2, OutstandingMoves
  <2>2. Outstanding[p].cmd = Call(p)
    BY <1>5
  <2> QED BY <1>4, <2>1, <2>2
<1>8. Value(file)' \in Outcomes(Value(file), Outstanding[p].cmd)
  <2>1. Value(file') \in Outcomes(Value(file), Call(p))
    BY RenamedFile
  <2>2. Value(file)' = Value(file')
    BY DEF Value
  <2> QED BY <1>5, <2>1, <2>2
<1>9. Value(durable)' = Value(durable)
  BY <1>1 DEF Value
<1>10. Register!TakeEffect(p)
  BY <1>5, <1>6, <1>7, <1>8, <1>9 DEF Register!TakeEffect
<1> QED BY <1>10 DEF RegisterStep, Register!Next

LEMMA SyncDirectoryRefines ==
    ASSUME Inv, NEW p \in Procs, SyncDirectory(p)
    PROVE  RegisterStep
<1>1. proc[p].pc = "directory" /\ durable' = file /\ UNCHANGED file /\ proc[p] \in Processes
  BY DEF SyncDirectory, At, DirectorySynced, Inv, StateTyped
<1>2. Outstanding' = [Outstanding EXCEPT ![p] = None]
  <2>1. CASE proc' = [proc EXCEPT ![p] = Idle]
    <3>1. Request(Idle) = None
      BY IdleType DEF Request
    <3> QED BY <2>1, <3>1, OutstandingMoves
  <2>2. CASE Goes(p, "notify")
    <3> DEFINE r == [proc[p] EXCEPT !.pc = "notify"]
    <3>1. proc' = [proc EXCEPT ![p] = r]
      BY <2>2 DEF Goes, Inv, StateTyped
    <3>2. Request(r) = None
      BY <1>1 DEF Request, Processes
    <3> HIDE DEF r
    <3> QED BY <3>1, <3>2, OutstandingMoves
  <2> QED BY <2>1, <2>2 DEF SyncDirectory
<1>3. Outstanding[p].applied /\ Outstanding[p] # None
  <2>1. Outstanding[p] = [cmd |-> [cmd |-> proc[p].cmd, id |-> proc[p].id], applied |-> TRUE]
    BY <1>1, OutstandingIs DEF Request
  <2>2. Outstanding[p] # None
    BY <1>1, OutstandingIs, RecordNotNone DEF Request, Busy
  <2> QED BY <2>1, <2>2
<1>4. Value(durable)' = Value(file) /\ Value(file)' = Value(file)
  BY <1>1 DEF Value
<1>5. Register!Acknowledge(p)
  BY <1>2, <1>3, <1>4 DEF Register!Acknowledge
<1> QED BY <1>5 DEF RegisterStep, Register!Next

LEMMA PowerLossRefines ==
    ASSUME Inv, PowerLoss
    PROVE  RegisterStep
<1>1. Outstanding' = [q \in Procs |-> None]
  <2>1. \A q \in Procs : proc'[q].pc = "idle"
    BY IdleType DEF PowerLoss
  <2> QED BY <2>1 DEF Outstanding
<1>2. Value(file)' \in {Value(file), Value(durable)} /\ Value(durable)' = Value(file)'
  BY PowerLossFile DEF Value
<1>3. Register!PowerLoss
  BY <1>1, <1>2 DEF Register!PowerLoss
<1> QED BY <1>3 DEF RegisterStep, Register!Next

LEMMA StoreRefines ==
    ASSUME Inv, [Next]_vars
    PROVE  RegisterStep
<1>1. CASE \E p \in Procs : Step(p) \/ Editor(p) \/ Kill(p)
  BY <1>1, StepKinds, EndsRefines, AdvancesRefines, UnseenRefines, RenamedRefines,
     SyncDirectoryRefines
<1>2. CASE \E p \in Procs : Invoke(p)
  BY <1>2, InvokeRefines
<1>3. CASE PowerLoss
  BY <1>3, PowerLossRefines
<1>4. CASE StartDaemon \/ ReloadDaemon \/ (\E n \in DOMAIN temps : Age(n)) \/ UNCHANGED vars
  BY <1>4, UnseenRefines DEF StartDaemon, ReloadDaemon, ReadFile, Age, vars, Unseen
<1> QED BY <1>1, <1>2, <1>3, <1>4 DEF Next

(* Concurrent commands, editors left open, kills and power losses together are  *)
(* an atomic register: a command takes effect at most once, at its rename, on   *)
(* the configuration that is there, and what it acknowledged survives           *)
(* (ConfigStore::with_lock, Config::write_atomic).                             *)
THEOREM StoreIsARegister == Spec => AtomicRegister
<1>1. Init => Register!Init
  <2> SUFFICES ASSUME Init
               PROVE  Register!Init
    OBVIOUS
  <2>1. \A q \in Procs : proc[q].pc = "idle"
    BY IdleType DEF Init
  <2> QED BY <2>1 DEF Init, Register!Init, Outstanding
<1>2. Inv /\ [Next]_vars => [Register!Next]_(Register!vars)
  BY StoreRefines DEF RegisterStep
<1> QED BY <1>1, <1>2, Invariance, PTL DEF Spec, AtomicRegister, Register!Spec
=============================================================================

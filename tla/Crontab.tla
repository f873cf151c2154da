------------------------------ MODULE Crontab ------------------------------
(***************************************************************************)
(* One account's crontab and the commands that rewrite it: the install and  *)
(* uninstall of greggd's watchdog (crates/greggd/src/startup/cron.rs, the   *)
(* cron part of greggd/src/uninstall.rs) and of the client daemon's         *)
(* (crates/gregg/src/clientd/startup.rs).                                   *)
(*                                                                         *)
(* The table is one file: `crontab -l` reads it and `crontab -` replaces it  *)
(* whole, with nothing to keep two commands, or a command and an operator's  *)
(* `crontab -e`, apart.  A line is a record.  An owner is what a managed      *)
(* line names: an executable, a configuration and whether it is explicit.    *)
(***************************************************************************)
EXTENDS Integers, Sequences, FiniteSets, SequencesExt

CONSTANTS
    Owners,       \* registrations of greggd
    Unquotable,   \* those whose written line the parser does not read back
    Users,        \* registrations of the client daemon
    Jobs,         \* the operator's own lines
    Commands,     \* command processes
    InsertsAnywhere, \* the operator also inserts within the table
    MaxEdits,     \* bound on the operator's edits
    MaxCommands   \* bound on the commands that are run

VARIABLES
    table,     \* the lines of the crontab
    command,   \* what each command process is doing
    edits, ran \* bounded counters

crontabVars == <<table, command, edits, ran>>

Marker == [kind |-> "marker"]
Blank == [kind |-> "blank"]
Watch(o) == [kind |-> "watch", owner |-> o]
ClientMarker(u) == [kind |-> "client", owner |-> u]
Boot(u) == [kind |-> "boot", owner |-> u]
Job(j) == [kind |-> "job", id |-> j]

IsKind(k, line) == line.kind = k

(* The lines of a table that Keep holds of, by position, in their order.      *)
Positions(t, P) ==
    LET kept[i \in 0 .. Len(t)] ==
            IF i = 0 THEN <<>>
            ELSE IF i \in P THEN Append(kept[i - 1], t[i]) ELSE kept[i - 1]
    IN kept[Len(t)]

(* Both merges append behind the last line that is not blank.                 *)
WithoutTrailingBlanks(t) ==
    SubSeq(t, 1, CHOOSE n \in 0 .. Len(t) :
                    /\ n = 0 \/ t[n] # Blank
                    /\ \A i \in n + 1 .. Len(t) : t[i] = Blank)

-----------------------------------------------------------------------------
(* greggd: a block is the marker and every croncheck line right behind it.    *)
MarkersOf(t) == {i \in DOMAIN t : t[i] = Marker}
BodyOf(t, i) ==
    {k \in i + 1 .. Len(t) : \A n \in i + 1 .. k : IsKind("watch", t[n])}

(* parse_cron_command_parts, whose quoting rules know fewer characters than    *)
(* shell_quote writes.                                                       *)
Reads(line, o) == line = Watch(o) /\ o \notin Unquotable
ReadsBack(line) == IsKind("watch", line) /\ line.owner \notin Unquotable

BlockIsOwned(t, i, o) ==
    BodyOf(t, i) # {} /\ \A k \in BodyOf(t, i) : Reads(t[k], o)

OwnedBlocks(t, o) == {i \in MarkersOf(t) : BlockIsOwned(t, i, o)}

Without(t, blocks) ==
    LET rest == Positions(t, DOMAIN t \ UNION {{i} \cup BodyOf(t, i) : i \in blocks})
    IN IF rest = <<Blank>> THEN <<>> ELSE rest
RemoveEveryManaged(t, o) == Without(t, MarkersOf(t))
RemoveManaged(t, o) == Without(t, OwnedBlocks(t, o))

Merge(t, o) ==
    WithoutTrailingBlanks(RemoveManaged(t, o)) \o <<Marker, Watch(o), Watch(o)>>

(* cron_block_ownership_for_config: a verdict on the table as a whole.         *)
Evidence(t, o) ==
    IF MarkersOf(t) = {} THEN "absent"
    ELSE LET i == CHOOSE m \in MarkersOf(t) : TRUE
         IN IF \/ Cardinality(MarkersOf(t)) # 1
               \/ i + 2 > Len(t)
               \/ ~ReadsBack(t[i + 1]) \/ t[i + 2] # t[i + 1]
               \/ i + 3 <= Len(t) /\ IsKind("watch", t[i + 3])
            THEN "unknown"
            ELSE IF Reads(t[i + 1], o) THEN "owned" ELSE "foreign"

-----------------------------------------------------------------------------
(* The client: a block is its marker and the one line behind it.               *)
ClientLines(t, u) ==
    LET skip[i \in 0 .. Len(t)] ==
            IF i = 0 THEN "none"
            ELSE IF skip[i - 1] = "marker" THEN "command"
            ELSE IF t[i] = ClientMarker(u) THEN "marker" ELSE "none"
    IN {i \in DOMAIN t : skip[i] # "none"}

ClientRest(t, u) == Positions(t, DOMAIN t \ ClientLines(t, u))

ClientMerge(t, u) ==
    WithoutTrailingBlanks(ClientRest(t, u)) \o <<ClientMarker(u), Boot(u)>>

(* An empty remainder is written as one newline.                               *)
ClientRemove(t, u) ==
    LET rest == WithoutTrailingBlanks(ClientRest(t, u))
    IN IF rest = <<>> THEN <<Blank>> ELSE rest

ClientOwnership(t, u) ==
    LET marked == \E i \in DOMAIN t : IsKind("client", t[i])
        wanted == \E i \in DOMAIN t : t[i] = Boot(u)
    IN CASE t = <<>> -> "absent"
         [] t # <<>> /\ wanted -> "owned"
         [] t # <<>> /\ marked /\ ~wanted -> "foreign"
         [] OTHER -> "unknown"

-----------------------------------------------------------------------------
(* A command reads once to decide, and an uninstall again to rewrite.  Its      *)
(* history: the verdict it acted on, and whether the table has changed since    *)
(* it was last read.                                                         *)
Idle == [op |-> "none", owner |-> "nobody", at |-> "end", read |-> <<>>,
         verdict |-> "none", overtaken |-> FALSE, result |-> "none"]

IsInstall(c) == c.op \in {"install", "client_install"}
IsClient(c) == c.op \in {"client_install", "client_uninstall"}
Running(p) == command[p].at # "end"

Finish(p, result) == [command EXCEPT ![p].at = "end", ![p].result = result]

(* Everybody who has read the table before it changed is overtaken.            *)
Replaced(t, commands) ==
    /\ table' = t
    /\ command' = [p \in Commands |->
                      [commands[p] EXCEPT !.overtaken = @ \/ t # table]]

Run(p, op, o) ==
    /\ ~Running(p)
    /\ ran < MaxCommands
    /\ ran' = ran + 1
    /\ command' = [command EXCEPT ![p] = [Idle EXCEPT !.op = op, !.owner = o, !.at = "list"]]
    /\ UNCHANGED <<table, edits>>

(* run_crontab_list, run_crontab: without the program, after the deadline or    *)
(* with an unreadable answer a command gives up.                              *)
ListFails(p) ==
    /\ command[p].at \in {"list", "relist"}
    /\ command' = Finish(p, "error")
    /\ UNCHANGED <<table, edits, ran>>

Verdict(c) ==
    CASE c.op = "install" -> "owned"
      [] c.op = "uninstall" -> Evidence(table, c.owner)
      [] OTHER -> ClientOwnership(table, c.owner)

Goes(c, verdict) == verdict = "owned" \/ (c.op = "client_install" /\ verdict = "absent")

Decide(p) ==
    LET c == command[p] IN
    /\ c.at = "list"
    /\ LET verdict == Verdict(c)
           next == IF ~Goes(c, verdict) THEN "end"
                   ELSE IF IsInstall(c) THEN "write" ELSE "relist"
       IN command' = [command EXCEPT
            ![p] = [c EXCEPT !.verdict = verdict, !.read = table, !.overtaken = FALSE,
                             !.at = next,
                             !.result = IF next # "end" THEN "none"
                                        ELSE IF c.op = "client_install" THEN "refused"
                                        ELSE "left"]]
    /\ UNCHANGED <<table, edits, ran>>

Rewritten(c) ==
    CASE c.op = "install" -> Merge(c.read, c.owner)
      [] c.op = "uninstall" -> RemoveManaged(c.read, c.owner)
      [] c.op = "client_install" -> ClientMerge(c.read, c.owner)
      [] OTHER -> ClientRemove(c.read, c.owner)

NothingToRemove(c, t) ==
    IF c.op = "uninstall" THEN RemoveManaged(t, c.owner) = t
    ELSE ClientLines(t, c.owner) = {}

Relist(p) ==
    LET c == command[p] IN
    /\ c.at = "relist"
    /\ command' = [command EXCEPT
         ![p] = [c EXCEPT !.read = table, !.overtaken = FALSE,
                          !.at = IF NothingToRemove(c, table) THEN "end" ELSE "write",
                          !.result = IF NothingToRemove(c, table) THEN "left" ELSE "none"]]
    /\ UNCHANGED <<table, edits, ran>>

Write(p) ==
    /\ command[p].at = "write"
    /\ table' = Rewritten(command[p])
    /\ LET other == Rewritten(command[p]) # table
       IN command' = [q \in Commands |->
            IF q = p THEN [command[p] EXCEPT !.at = "end", !.result = "ok"]
            ELSE [command[q] EXCEPT !.overtaken = @ \/ other]]
    /\ UNCHANGED <<edits, ran>>

(* A refused or interrupted `crontab -`: only the answer of a killed one is     *)
(* unknown.                                                                  *)
WriteFails(p) ==
    /\ command[p].at = "write"
    /\ \E t \in {table, Rewritten(command[p])} : Replaced(t, Finish(p, "error"))
    /\ UNCHANGED <<edits, ran>>

(* crontab -e.                                                               *)
Edits(t) ==
    /\ edits < MaxEdits
    /\ edits' = edits + 1
    /\ Replaced(t, command)
    /\ UNCHANGED ran

OperatorAdds(j) ==
    /\ \A i \in DOMAIN table : table[i] # Job(j)
    /\ \E n \in IF InsertsAnywhere THEN 0 .. Len(table) ELSE {Len(table)} :
          Edits(InsertAt(table, n + 1, Job(j)))

OperatorRemoves(i) == Edits(Positions(table, DOMAIN table \ {i}))

-----------------------------------------------------------------------------
CrontabInit ==
    /\ table \in {<<>>} \cup {<<Job(j)>> : j \in Jobs}
    /\ command = [p \in Commands |-> Idle]
    /\ edits = 0 /\ ran = 0

CrontabNext ==
    \/ \E p \in Commands :
          \/ \E op \in {"install", "uninstall"}, o \in Owners : Run(p, op, o)
          \/ \E op \in {"client_install", "client_uninstall"}, u \in Users : Run(p, op, u)
          \/ ListFails(p) \/ Decide(p) \/ Relist(p) \/ Write(p) \/ WriteFails(p)
    \/ \E j \in Jobs : OperatorAdds(j)
    \/ \E i \in DOMAIN table : OperatorRemoves(i)

CrontabSpec == CrontabInit /\ [][CrontabNext]_crontabVars

-----------------------------------------------------------------------------
Writes(p) == command[p].at = "write" /\ command'[p].at = "end" /\ edits' = edits
Informed(p) == Writes(p) /\ ~command[p].overtaken
Succeeds(p) == Informed(p) /\ command'[p].result = "ok"

(* The lines that a command has no business with, blank ones aside.            *)
NotOf(c, line) ==
    /\ line # Blank
    /\ line \notin IF IsClient(c) THEN {ClientMarker(c.owner), Boot(c.owner)}
                   ELSE {Marker, Watch(c.owner)}

Whole(t) == \A i \in DOMAIN t : IsKind("client", t[i]) =>
                i < Len(t) /\ t[i + 1] = Boot(t[i].owner)

(* remove_managed_cron_block_for_config, merge_cron_block: a rewrite of a table *)
(* that nobody has changed since it was read keeps every line of the operator, *)
(* of the other program and of the other registrations, in their order, and    *)
(* every block of another registration stays a block.  For the client this    *)
(* takes that nobody has come between a marker and its command.               *)
KeepsOthers ==
    [][\A p \in Commands :
          Informed(p) /\ (IsClient(command[p]) => Whole(table)) =>
             /\ LET Other(line) == NotOf(command[p], line)
                IN SelectSeq(table', Other) = SelectSeq(table, Other)
             /\ \A o \in Owners \ {command[p].owner} :
                   Cardinality(OwnedBlocks(table', o)) = Cardinality(OwnedBlocks(table, o))
      ]_crontabVars

(* merge_crontab, cron_uninstall_changed_for_config and the client's pair:      *)
(* after an install that succeeded its registration has one block, however    *)
(* often it was installed before, and after an uninstall that removed it none. *)
BlocksOf(c, t) ==
    IF IsClient(c) THEN {i \in DOMAIN t : t[i] = ClientMarker(c.owner)}
    ELSE OwnedBlocks(t, c.owner)

OneBlockOrNone ==
    [][\A p \in Commands :
          Succeeds(p) /\ (IsClient(command[p]) => Whole(table)) =>
             Cardinality(BlocksOf(command[p], table')) =
                IF IsInstall(command[p]) THEN 1 ELSE 0]_crontabVars

CrontabSound == KeepsOthers /\ OneBlockOrNone

-----------------------------------------------------------------------------
(* What the comments say and the code does not do.                            *)

(* "installing one config's watchdog can never delete another's" (cron.rs): a   *)
(* rewrite keeps the blocks of the others, whoever else is at work.            *)
OthersSurvive ==
    [][\A p \in Commands, o \in Owners :
          Writes(p) /\ ~IsClient(command[p]) /\ o # command[p].owner =>
             Cardinality(OwnedBlocks(table', o)) >= Cardinality(OwnedBlocks(table, o))
      ]_crontabVars

(* "uninstall still works after a second config's block is present" (cron.rs).  *)
UninstallFindsItsBlock ==
    [][\A p \in Commands :
          command[p].op = "uninstall" /\ command[p].at = "list" /\ command'[p].result = "left" =>
             OwnedBlocks(table, command[p].owner) = {}
      ]_crontabVars

(* "repeated installs stay idempotent for the block they own" (cron.rs).        *)
InstallIsIdempotent ==
    \A o \in Owners : Cardinality({i \in MarkersOf(table) :
        BodyOf(table, i) # {} /\ \A k \in BodyOf(table, i) : table[k] = Watch(o)}) <= 1

(* The client's uninstall leaves a table its install accepts (startup.rs).      *)
ClientComesBack ==
    [][\A p \in Commands :
          command'[p].result = "refused" =>
             \E i \in DOMAIN table : table[i].kind \notin {"blank"}]_crontabVars

(* "Replace or append this config's managed cron block, leaving everything      *)
(* else alone" (startup.rs).                                                  *)
ClientKeepsJobs ==
    [][\A p \in Commands, j \in Jobs :
          /\ Informed(p) /\ IsClient(command[p])
          /\ \E i \in DOMAIN table : table[i] = Job(j)
          => \E i \in DOMAIN table' : table'[i] = Job(j)]_crontabVars
=============================================================================

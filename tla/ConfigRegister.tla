--------------------------- MODULE ConfigRegister ---------------------------
(***************************************************************************)
(* What the client's configuration store promises: one register that       *)
(* commands change one at a time.  A command takes effect at most once,     *)
(* between its start and its end, on the value that is there at that        *)
(* moment; a command that is acknowledged has survived a power loss.        *)
(***************************************************************************)
CONSTANTS
    Procs,          \* processes that run commands
    Commands,       \* commands
    Results(_, _),  \* the values a command may leave behind
    None

VARIABLES
    value,   \* the configuration
    stable,  \* the configuration a power loss may fall back to
    req      \* per process: its command, and whether it has taken effect

vars == <<value, stable, req>>

Begin(p) ==
    /\ req[p] = None
    /\ \E c \in Commands : req' = [req EXCEPT ![p] = [cmd |-> c, applied |-> FALSE]]
    /\ UNCHANGED <<value, stable>>

TakeEffect(p) ==
    /\ req[p] # None /\ ~req[p].applied
    /\ value' \in Results(value, req[p].cmd)
    /\ req' = [req EXCEPT ![p] = [cmd |-> req[p].cmd, applied |-> TRUE]]
    /\ UNCHANGED stable

Acknowledge(p) ==
    /\ req[p] # None /\ req[p].applied
    /\ stable' = value
    /\ req' = [req EXCEPT ![p] = None]
    /\ UNCHANGED value

(* An error or a kill ends a command, whether or not it has taken effect.     *)
Abandon(p) ==
    /\ req[p] # None
    /\ req' = [req EXCEPT ![p] = None]
    /\ UNCHANGED <<value, stable>>

PowerLoss ==
    /\ value' \in {value, stable}
    /\ stable' = value'
    /\ req' = [p \in Procs |-> None]

Next ==
    PowerLoss \/ \E p \in Procs : Begin(p) \/ TakeEffect(p) \/ Acknowledge(p) \/ Abandon(p)

Init == value = stable /\ req = [p \in Procs |-> None]

Spec == Init /\ [][Next]_vars
=============================================================================

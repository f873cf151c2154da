----------------------------- MODULE MCEndpoints -----------------------------
(* Five parts that share no state, one per behaviour: the client daemon's       *)
(* endpoint over a Unix socket, its accept wait on a Windows pipe, greggd as a   *)
(* Windows service, the collector's drive refresh, and a command run with a     *)
(* deadline.                                                                *)
EXTENDS IpcTransport, AcceptGate, WindowsService, DriveRefresh, BoundedChild

VARIABLE part

(* A document and a request are cut in two by a full socket; the other frames   *)
(* are one unit.                                                             *)
MCSize(frame) == IF frame[1] \in {"document", "request"} THEN 2 ELSE 1

-----------------------------------------------------------------------------
(* The parts that a behaviour is not about stay in one of their initial        *)
(* states, in which nothing fair is to be done.                               *)
ServiceAside == WindowsInit /\ registration = "none"
DrivesAside ==
    /\ drives = 0 /\ sick = FALSE /\ refresher = "ended" /\ dueNow = FALSE
    /\ parcel = Error /\ handed = Empty /\ latest = Empty /\ dropped = TRUE
ChildAside ==
    /\ runner = "update" /\ feeds = FALSE /\ call = "end" /\ result = "none"
    /\ child = "failed" /\ heir = FALSE /\ forked = FALSE /\ intake = 0 /\ fed = 0
    /\ pipe = [s \in Streams |-> 0] /\ written = pipe /\ got = pipe
    /\ reader = [s \in Streams |-> "none"]

MCInit ==
    /\ part \in {"socket", "pipe", "service", "drives", "child"}
    /\ Init /\ GateInit
    /\ IF part = "service" THEN WindowsInit ELSE ServiceAside
    /\ IF part = "drives" THEN DriveInit ELSE DrivesAside
    /\ IF part = "child" THEN ChildInit ELSE ChildAside

MCNext ==
    \/ part = "socket" /\ Next /\ UNCHANGED <<gateVars, windowsVars, driveVars, childVars, part>>
    \/ part = "pipe" /\ GateNext /\ UNCHANGED <<vars, windowsVars, driveVars, childVars, part>>
    \/ part = "service" /\ WindowsNext /\ UNCHANGED <<vars, gateVars, driveVars, childVars, part>>
    \/ part = "drives" /\ DriveNext /\ UNCHANGED <<vars, gateVars, windowsVars, childVars, part>>
    \/ part = "child" /\ ChildNext /\ UNCHANGED <<vars, gateVars, windowsVars, driveVars, part>>

(* The transport's fair actions all wait for a frontend to dial, which none     *)
(* does in the other parts.                                                  *)
MCSpec ==
    /\ MCInit /\ [][MCNext]_<<vars, gateVars, windowsVars, driveVars, childVars, part>>
    /\ Fairness
    /\ WF_gateVars(part = "pipe" /\ GateTask)
    /\ WF_gateVars(part = "pipe" /\ GateStop)
    /\ WindowsFairness /\ DriveFairness /\ ChildFairness

(* Both of the client daemon's endpoints are sound, and both come to an end.     *)
EndpointSound ==
    /\ [](TransportSound /\ GateTypeOK /\ NoWaitLeftBehind)
    /\ TransportProgress /\ ExitNotHeld

(* Of the captured command alone.                                            *)
CapturesEnd == part = "child" => EveryCallEnds
=============================================================================

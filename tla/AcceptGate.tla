----------------------------- MODULE AcceptGate -----------------------------
(***************************************************************************)
(* How the client daemon ends its accept wait on Windows                   *)
(* (crates/gregg/src/clientd/ipc.rs, mod imp: Listener, AcceptGate,         *)
(* connect_instance; clientd/daemon.rs: accept_loop and the end of          *)
(* run_daemon).  The wait blocks a pool thread in ConnectNamedPipe, which    *)
(* abort cannot reach, so the stop finds that thread through the gate and    *)
(* cancels its I/O, from another thread.                                   *)
(*                                                                         *)
(* A section under the gate's mutex is one step.  CancelSynchronousIo       *)
(* cancels what the recorded thread has pending, whatever that is, and is    *)
(* not remembered; between publishing its record and entering the kernel a   *)
(* thread has nothing pending.                                             *)
(***************************************************************************)
EXTENDS Integers

CONSTANT Attempts   \* ACCEPT_CANCEL_ATTEMPTS (256)

ASSUME AttemptsAssumption == Attempts \in Nat \ {0}

VARIABLES
    loop,       \* the accept task: check, waiting for its pool thread, ended
    thread,     \* where the pool thread is; pool is any other job
    record,     \* the gate's parked record names the thread
    requested,  \* the gate's flag
    stopper     \* run_daemon's end: where it is and the attempts it made

gateVars == <<loop, thread, record, requested, stopper>>

GateTypeOK ==
    /\ loop \in {"check", "waiting", "ended"}
    /\ thread \in {"pool", "begin", "duplicate", "lock", "gap", "kernel",
                    "connected", "aborted", "failed", "struck"}
    /\ record \in BOOLEAN /\ requested \in BOOLEAN
    /\ stopper.pc \in {"running", "cancelled", "requesting", "joining", "exiting"}
    /\ stopper.made \in 0 .. Attempts

GateInit ==
    /\ loop = "check" /\ thread = "pool" /\ record = FALSE /\ requested = FALSE
    /\ stopper = [pc |-> "running", made |-> 0]

-----------------------------------------------------------------------------
(* The accept task.                                                          *)

(* Its check of the token, a new pipe instance, and the job for the pool; an   *)
(* instance that cannot be created ends the loop.                            *)
NextAccept ==
    /\ loop = "check" /\ thread = "pool"
    /\ \/ /\ stopper.pc # "running"
          /\ loop' = "ended" /\ UNCHANGED thread
       \/ /\ stopper.pc = "running"
          /\ \/ loop' = "waiting" /\ thread' = "begin"
             \/ loop' = "ended" /\ UNCHANGED thread
    /\ UNCHANGED <<record, requested, stopper>>

(* The job is over: the task goes on, or ends on an error it does not expect.   *)
(* An aborted task is not there to see it.                                   *)
Finish(result) ==
    /\ thread' = "pool"
    /\ loop' = IF loop = "ended" \/ result = "failed" THEN "ended" ELSE "check"

(* begin: the flag, the duplicate handle, then the flag again under the lock.  *)
BeginChecks ==
    /\ thread = "begin"
    /\ IF requested THEN Finish("disconnected")
                    ELSE thread' = "duplicate" /\ UNCHANGED loop
    /\ UNCHANGED <<record, requested, stopper>>

Duplicates ==
    /\ thread = "duplicate"
    /\ \/ thread' = "lock" /\ UNCHANGED loop
       \/ Finish("disconnected")
    /\ UNCHANGED <<record, requested, stopper>>

MayPark == ~requested

Publishes ==
    /\ thread = "lock"
    /\ IF MayPark THEN thread' = "gap" /\ record' = TRUE /\ UNCHANGED loop
                  ELSE Finish("disconnected") /\ UNCHANGED record
    /\ UNCHANGED <<requested, stopper>>

Enters ==
    /\ thread = "gap"
    /\ thread' = "kernel"
    /\ UNCHANGED <<loop, record, requested, stopper>>

(* ConnectNamedPipe returns by itself: a client, or an error.                *)
WaitReturns ==
    /\ thread = "kernel"
    /\ thread' \in {"connected", "failed"}
    /\ UNCHANGED <<loop, record, requested, stopper>>

(* end: the record goes before the thread is handed back to the pool.        *)
RecordAfterWait == FALSE

Ends ==
    /\ thread \in {"connected", "aborted", "failed"}
    /\ record' = RecordAfterWait
    /\ Finish(thread)
    /\ UNCHANGED <<requested, stopper>>

-----------------------------------------------------------------------------
(* The end of run_daemon.                                                    *)

EngineReturns ==
    /\ stopper.pc = "running"
    /\ stopper' = [stopper EXCEPT !.pc = "cancelled"]
    /\ UNCHANGED <<loop, thread, record, requested>>

RequestsStop ==
    /\ stopper.pc = "cancelled"
    /\ requested' = TRUE
    /\ stopper' = [stopper EXCEPT !.pc = "requesting"]
    /\ UNCHANGED <<loop, thread, record>>

(* One attempt: nobody is parked, a cancel that is accepted, or one that finds  *)
(* nothing pending.  A thread back in the pool may have another job's I/O      *)
(* pending.                                                                  *)
IoPending == thread \in {"kernel", "pool"}

Attempt ==
    /\ stopper.pc = "requesting"
    /\ LET done == [stopper EXCEPT !.pc = "joining"]
           again == [stopper EXCEPT !.made = @ + 1,
                        !.pc = IF stopper.made + 1 = Attempts THEN "joining" ELSE @]
       IN  \/ /\ ~record
              /\ stopper' = done /\ UNCHANGED thread
           \/ /\ record /\ IoPending
              /\ thread' = IF thread = "kernel" THEN "aborted" ELSE "struck"
              /\ stopper' = done
           \/ /\ record /\ ~IoPending
              /\ stopper' = again /\ UNCHANGED thread
    /\ UNCHANGED <<loop, record, requested>>

(* The accept task ends within ACCEPT_STOP_GRACE, or is aborted.             *)
Joins ==
    /\ stopper.pc = "joining"
    /\ loop' = "ended"
    /\ stopper' = [stopper EXCEPT !.pc = "exiting"]
    /\ UNCHANGED <<thread, record, requested>>

GateTask == NextAccept \/ BeginChecks \/ Duplicates \/ Publishes \/ Enters \/ Ends
GateStop == RequestsStop \/ Attempt \/ Joins
GateNext == GateTask \/ WaitReturns \/ EngineReturns \/ GateStop

(* The threads run; no client need ever come.                                *)
GateFairness == WF_gateVars(GateTask) /\ WF_gateVars(GateStop)

GateSpec == GateInit /\ [][GateNext]_gateVars /\ GateFairness

-----------------------------------------------------------------------------
(* Properties.                                                               *)

Exhausted == stopper.made = Attempts

(* A stop never leaves a wait behind it: once the requester has given up looking,  *)
(* no thread parks or stays parked, unless one stood between its record and the    *)
(* kernel for all the attempts; and it cancels nothing but the accept wait (begin's  *)
(* second check, end before the thread returns to the pool).                  *)
NoWaitLeftBehind ==
    /\ stopper.pc \in {"joining", "exiting"} /\ ~Exhausted =>
          thread \notin {"gap", "kernel"}
    /\ thread # "struck"

(* Once the engine returned, the pool thread comes back, so the runtime can be      *)
(* dropped and the process exits (accept_stop.request in run_daemon).          *)
ExitNotHeld == stopper.pc = "cancelled" ~> thread = "pool" \/ Exhausted

(* "The loop ends either because a cancel was accepted or because the wait ended     *)
(* without one" (AcceptGate::request): it never gives up on a wait that is up.  *)
LoopEndsTheWait == stopper.pc \in {"joining", "exiting"} => thread \notin {"gap", "kernel"}
=============================================================================

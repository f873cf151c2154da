---------------------------- MODULE BoundedChild ----------------------------
(***************************************************************************)
(* A command run with a deadline and captured output, in the three versions *)
(* of the repository:                                                      *)
(*   "update"   gregg-update's run_child_with_timeout_capped_both (exec.rs), *)
(*   "manager"  greggd's run_bounded_command_with_stdin                      *)
(*              (greggd/src/startup/process.rs),                            *)
(*   "client"   run_bounded (gregg/src/startup_support.rs).                  *)
(*                                                                         *)
(* The caller, one reader thread for each stream, the child, and a            *)
(* descendant that inherited the child's ends of the pipes take their steps  *)
(* in any order; nothing makes the child or the descendant take any.  A       *)
(* pipe holds PipeUnits; output is counted in units.                         *)
(***************************************************************************)
EXTENDS Integers

CONSTANTS
    PipeUnits,     \* what a pipe holds
    OutputCap,     \* the most that is captured of one stream
    MaxOutput,     \* bound on what is written to one stream
    InputUnits     \* what the caller feeds the child, when it does

ASSUME ChildAssumption == {PipeUnits, OutputCap, MaxOutput, InputUnits} \subseteq Nat

VARIABLES
    runner,   \* the version
    feeds,    \* the caller has input for the child
    call,     \* where the caller is
    result,   \* what the call returned
    child,    \* "running", "succeeded", "failed" or "killed"
    heir,     \* the descendant is alive
    forked,   \* there has been one
    intake,   \* units of input in their pipe
    fed,      \* units of input written to it, -1 after an error
    pipe,     \* units of each stream in its pipe
    written,  \* units of each stream ever written
    reader,   \* each reader thread: "none", "reading", "done" or "failed"
    got       \* units of each stream that its reader has

childVars == <<runner, feeds, call, result, child, heir, forked, intake, fed,
               pipe, written, reader, got>>

Streams == {"stdout", "stderr"}
Exited == child \in {"succeeded", "failed"}
Broken(s) == reader[s] \in {"done", "failed"}

Pass(next) == call' = next /\ UNCHANGED result
Return(answer) == call' = "end" /\ result' = answer

OutputUnchanged == UNCHANGED <<pipe, written, reader, got>>
ProcessUnchanged == UNCHANGED <<child, heir, forked>>
InputUnchanged == UNCHANGED <<intake, fed>>
Fixed == UNCHANGED <<runner, feeds>>

-----------------------------------------------------------------------------
(* The child and its descendant.                                             *)
ChildReads ==
    /\ child = "running" /\ intake > 0
    /\ intake' = intake - 1
    /\ UNCHANGED <<call, result, fed>> /\ Fixed /\ ProcessUnchanged /\ OutputUnchanged

(* A full pipe makes the writer wait; a pipe whose reader is gone ends it.      *)
WritesOutput(s) ==
    /\ child = "running" \/ heir
    /\ written[s] < MaxOutput
    /\ IF Broken(s)
       THEN /\ \/ child = "running" /\ child' = "failed" /\ UNCHANGED heir
               \/ heir /\ heir' = FALSE /\ UNCHANGED child
            /\ UNCHANGED <<pipe, written>>
       ELSE /\ pipe[s] < PipeUnits
            /\ pipe' = [pipe EXCEPT ![s] = @ + 1]
            /\ written' = [written EXCEPT ![s] = @ + 1]
            /\ UNCHANGED <<child, heir>>
    /\ UNCHANGED <<call, result, forked, reader, got>> /\ Fixed /\ InputUnchanged

Forks ==
    /\ child = "running" /\ ~forked
    /\ forked' = TRUE /\ heir' = TRUE
    /\ UNCHANGED <<call, result, child>> /\ Fixed /\ InputUnchanged /\ OutputUnchanged

ChildExits ==
    /\ child = "running"
    /\ child' \in {"succeeded", "failed"}
    /\ UNCHANGED <<call, result, heir, forked>> /\ Fixed /\ InputUnchanged /\ OutputUnchanged

HeirExits ==
    /\ heir
    /\ heir' = FALSE
    /\ UNCHANGED <<call, result, child, forked>> /\ Fixed /\ InputUnchanged /\ OutputUnchanged

-----------------------------------------------------------------------------
(* pipe_reader_limited, read_pipe, drain: up to one unit past the cap, or the   *)
(* end of the stream, which comes when nobody holds its other end.            *)
ReadsOutput(s) ==
    /\ reader[s] = "reading" /\ pipe[s] > 0
    /\ pipe' = [pipe EXCEPT ![s] = @ - 1]
    /\ got' = [got EXCEPT ![s] = @ + 1]
    /\ reader' = [reader EXCEPT ![s] = IF got[s] = OutputCap THEN "done" ELSE @]
    /\ UNCHANGED <<call, result, written>> /\ Fixed /\ ProcessUnchanged /\ InputUnchanged

EndOfStream(s) ==
    /\ reader[s] = "reading" /\ pipe[s] = 0
    /\ child # "running" /\ ~heir
    /\ reader' = [reader EXCEPT ![s] = "done"]
    /\ UNCHANGED <<call, result, pipe, written, got>> /\ Fixed /\ ProcessUnchanged /\ InputUnchanged

(* read_to_end returns an error; what it has read stays with the reader.        *)
ReaderFails(s) ==
    /\ reader[s] = "reading"
    /\ reader' = [reader EXCEPT ![s] = "failed"]
    /\ UNCHANGED <<call, result, pipe, written, got>> /\ Fixed /\ ProcessUnchanged /\ InputUnchanged

-----------------------------------------------------------------------------
(* stdin.write_all comes before the readers and before the deadline; a child    *)
(* that is gone breaks the pipe.                                              *)
Feed ==
    /\ call = "feed" /\ fed < InputUnits
    /\ IF child = "running" \/ heir
       THEN intake < PipeUnits /\ intake' = intake + 1 /\ fed' = fed + 1 /\ Pass("feed")
       ELSE fed' = -1 /\ UNCHANGED intake /\ Pass("start")
    /\ Fixed /\ ProcessUnchanged /\ OutputUnchanged
StartReaders ==
    /\ call = "start" \/ (call = "feed" /\ fed = InputUnits)
    /\ reader' = [s \in Streams |-> "reading"]
    /\ Pass("wait")
    /\ UNCHANGED <<pipe, written, got>> /\ Fixed /\ ProcessUnchanged /\ InputUnchanged

SeesExit ==
    /\ call = "wait" /\ Exited
    /\ Pass("stdout")
    /\ Fixed /\ ProcessUnchanged /\ InputUnchanged /\ OutputUnchanged

(* try_wait returns an error: the call ends at once, the child is left to itself. *)
WaitFails ==
    /\ call = "wait"
    /\ Return("wait error")
    /\ Fixed /\ ProcessUnchanged /\ InputUnchanged /\ OutputUnchanged

(* The deadline: the child is killed and reaped; the client's version then      *)
(* leaves its readers to themselves.                                         *)
Deadline ==
    /\ call = "wait" /\ child = "running"
    /\ child' = "killed"
    /\ IF runner = "client" THEN Return("timeout") ELSE Pass("stdout")
    /\ UNCHANGED <<heir, forked>> /\ Fixed /\ InputUnchanged /\ OutputUnchanged

(* What is returned when the streams have been collected: an output past its    *)
(* cap is an error, an input error counts when the child succeeded.           *)
ClippedNever(s) == FALSE
Clipped(s) == got[s] > OutputCap
Answer ==
    CASE child = "killed" -> "timeout"
      [] child # "killed" /\ (\E s \in Streams : Clipped(s)) -> "too large"
      [] child = "succeeded" /\ ~(\E s \in Streams : Clipped(s)) ->
            IF fed = -1 THEN "input error" ELSE "success"
      [] OTHER -> "failure"

(* settle_pipe, join_pipe, settle: one stream after the other.  After a kill      *)
(* what comes of it is ignored; else a failed reader's error is returned, but   *)
(* the client's `let _ = read_to_end` sends what it has like a whole output.   *)
After(s) == IF s = "stdout" THEN "stderr" ELSE "collected"
Joined(s) == reader[s] \in {"done", "failed"}
Loses(s) == reader[s] = "failed" /\ runner # "client"
Settle(s) ==
    /\ call = s /\ Joined(s)
    /\ IF child # "killed" /\ Loses(s) THEN Return("read error")
       ELSE IF child # "killed" /\ s = "stdout" /\ Clipped(s) /\ runner # "client"
            THEN Return("too large")
            ELSE Pass(After(s))
    /\ Fixed /\ ProcessUnchanged /\ InputUnchanged /\ OutputUnchanged
(* Only gregg-update's readers are waited for with a bound of their own.        *)
Abandons(s) ==
    /\ runner = "update"
    /\ call = s /\ reader[s] = "reading"
    /\ IF child = "killed" THEN Pass(After(s)) ELSE Return("unsettled")
    /\ Fixed /\ ProcessUnchanged /\ InputUnchanged /\ OutputUnchanged
Collects ==
    /\ call = "collected"
    /\ Return(Answer)
    /\ Fixed /\ ProcessUnchanged /\ InputUnchanged /\ OutputUnchanged

-----------------------------------------------------------------------------
ChildInit ==
    /\ runner \in {"update", "manager", "client"}
    /\ feeds \in BOOLEAN /\ (feeds => runner = "manager")
    /\ call = IF feeds THEN "feed" ELSE "start"
    /\ result = "none"
    /\ child = "running" /\ heir = FALSE /\ forked = FALSE
    /\ intake = 0 /\ fed = 0
    /\ pipe = [s \in Streams |-> 0]
    /\ written = [s \in Streams |-> 0]
    /\ reader = [s \in Streams |-> "none"]
    /\ got = [s \in Streams |-> 0]

Processes ==
    \/ ChildReads \/ Forks \/ ChildExits \/ HeirExits
    \/ \E s \in Streams : WritesOutput(s)
Readers == \E s \in Streams : ReadsOutput(s) \/ EndOfStream(s) \/ ReaderFails(s)
Caller ==
    \/ Feed \/ StartReaders \/ SeesExit \/ WaitFails \/ Deadline \/ Collects
    \/ \E s \in Streams : Settle(s) \/ Abandons(s)

ChildNext == Processes \/ Readers \/ Caller

(* The caller and the reader threads are scheduled, and time passes.            *)
ChildFairness ==
    /\ WF_childVars(Caller)
    /\ \A s \in Streams : WF_childVars(ReadsOutput(s) \/ EndOfStream(s))
ChildSpec == ChildInit /\ [][ChildNext]_childVars /\ ChildFairness

-----------------------------------------------------------------------------
(* recv_within: "an incomplete capture that looks complete" does not occur.  A    *)
(* call that returns an exit status returns all that was written to either     *)
(* stream, up to its end, except of a stream whose reader failed in the        *)
(* client's version; and it has fed all of its input if the status is success. *)
CutShort(s) == reader[s] = "failed" /\ runner = "client"
CaptureWhole ==
    result \in {"success", "failure"} =>
        /\ \A s \in Streams : CutShort(s) \/ (got[s] = written[s] /\ ~heir)
        /\ result = "success" /\ feeds => fed = InputUnits

(* run_child_with_timeout: "no orphan keeps running after the caller gives up":   *)
(* no call leaves the child running or unreaped, but one that could not ask     *)
(* about it.                                                                 *)
CaptureReaped == call = "end" /\ result # "wait error" => child # "running"

(* run_child_with_timeout: a call ends whatever the child and its descendants   *)
(* do; but greggd's version waits without a bound for a child that does not    *)
(* take its input, and the two others than gregg-update's for a descendant.   *)
HeldOpen == runner # "update" /\ (heir \/ call = "feed")
CaptureEnds == <>[](call = "end" \/ HeldOpen)

CaptureSound == [](CaptureWhole /\ CaptureReaped) /\ CaptureEnds

(* "Bounded child-process execution" (process.rs), "there is no unbounded wait   *)
(* anywhere in the client's startup path" (startup_support.rs).                *)
EveryCallEnds == <>(call = "end")

(* is_lossless: "callers that rewrite a file from it must fail closed on anything  *)
(* but the manager's exact bytes"; recv_within's "an incomplete capture that     *)
(* looks complete" for every version.                                         *)
CaptureComplete ==
    [](result \in {"success", "failure"} => \A s \in Streams : got[s] = written[s])
=============================================================================

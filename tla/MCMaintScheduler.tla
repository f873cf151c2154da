------------------------- MODULE MCMaintScheduler -------------------------
(* Small instances of the maintenance scheduler: one or two jobs on a civil   *)
(* calendar of periodic occurrences.                                         *)
EXTENDS MaintScheduler

CONSTANT LastOccurrence  \* bound: later occurrences cannot be computed

(* Job j is due at the multiples of its period.                              *)
Period == <<2, 3>>
MCNextAfter(j, w) ==
    LET n == ((w \div Period[j]) + 1) * Period[j]
    IN IF n > LastOccurrence THEN NoOccurrence ELSE n

(* Only the first job is gated.                                              *)
FirstMaxLoad == <<0>>
FirstWindow == <<"15m">>
FirstRetry == <<1>>
FirstMaxWait == <<2>>

(* The civil clock may be stepped forward and back.                          *)
SteppedSkews == {-1, 1}
=============================================================================

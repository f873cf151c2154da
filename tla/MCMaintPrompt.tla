--------------------------- MODULE MCMaintPrompt ---------------------------
(* The small instances of the maintenance scheduler under a runtime that may  *)
(* be prompt or late.                                                        *)
EXTENDS MCMaintScheduler, MaintPrompt
=============================================================================

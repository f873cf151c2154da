---------------------------- MODULE MaintPrompt ----------------------------
(* The maintenance scheduler with a history variable that tells a runtime    *)
(* that has been prompt so far from one that has delayed the loop.           *)
EXTENDS MaintScheduler

VARIABLE late  \* time has passed while run had something to do

LateInit == Init /\ late = FALSE
LateNext == Next /\ late' = (late \/ (CanAct /\ now' # now))
LateSpec == LateInit /\ [][LateNext]_<<vars, late>>

(* While the runtime has been prompt and the slot is free, an occurrence      *)
(* waits less than max_wait plus one retry interval (Engine::tick and         *)
(* next_deadline wake for both), whatever the other jobs do.                  *)
PromptWaitBounded == ~late => WaitBounded
=============================================================================

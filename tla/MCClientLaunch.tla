--------------------------- MODULE MCClientLaunch ---------------------------
(***************************************************************************)
(* Instances of ClientLaunch for TLC.  The commands are dealt so that      *)
(* every pair that can meet does meet, each once.                          *)
(***************************************************************************)
EXTENDS ClientLaunch

CONSTANTS l1, l2

BothLaunchers == {l1, l2}

Dealt ==
    [l \in BothLaunchers |-> IF l = l1 THEN {"ensure", "restart"}
                                       ELSE {"ensure", "stop", "update"}]

=============================================================================

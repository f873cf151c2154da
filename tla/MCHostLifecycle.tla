-------------------------- MODULE MCHostLifecycle --------------------------
(* Small instances of HostLifecycle. *)
EXTENDS HostLifecycle

CONSTANTS t1, t2

TwoTerminals == {t1, t2}

(* One terminal changes the daemon, the other looks after it. *)
ChangerAndWatcher ==
    [c \in TwoTerminals |-> IF c = t1 THEN {"restart", "update", "uninstall"}
                            ELSE {"stop", "croncheck"}]

=============================================================================

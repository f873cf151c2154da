----------------------------- MODULE MCCronPlane -----------------------------
EXTENDS CronPlane

(* Two systems whose greggds have finished runs; one of them repointed to a    *)
(* greggd that has not, with the other removed.                              *)
MCConfigs == {[i \in {"a", "b"} |-> IF i = "a" THEN "t1" ELSE "t2"],
              [i \in {"a"} |-> "t3"]}
MCPast == [t \in Targets |-> IF t = "t3" THEN 0 ELSE 2]
=============================================================================

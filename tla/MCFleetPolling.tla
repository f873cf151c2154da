--------------------------- MODULE MCFleetPolling ---------------------------
EXTENDS FleetPolling

(* Two targets; e1 and e1x are two spellings of the first.                   *)
MCHost == [e \in Endpoints |-> IF e = "e2" THEN "h2" ELSE "h1"]

At(i, e) == [id |-> i, endpoint |-> e]

(* Empty; two systems; the second one moved to the front and repointed.      *)
MCConfigs ==
    {<<>>, <<At("b", "e2"), At("a", "e1x")>>, <<At("a", "e2")>>}
=============================================================================

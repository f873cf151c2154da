--------------------------- MODULE MCConfigStore ---------------------------
EXTENDS ConfigStore

MCRequests ==
    {[op |-> "add", address |-> <<"h", 1>>, replace |-> TRUE],
     [op |-> "add", address |-> <<"h", 2>>, replace |-> FALSE],
     [op |-> "remove", host |-> "h", port |-> None],
     [op |-> "refresh", seconds |-> 1], [op |-> "refresh", seconds |-> 2],
     [op |-> "eggpool add", replace |-> FALSE], [op |-> "eggpool remove", matches |-> TRUE],
     [op |-> "edit"]}

(* An editor that names the first system itself.                             *)
MCTexts == {[systems |-> [a \in {<<"h", 1>>} |-> 0], eggpool |-> None, refresh |-> 1]}
=============================================================================

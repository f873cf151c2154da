-------------------------- MODULE MCTerminalSession --------------------------
EXTENDS TerminalSession

CONSTANTS sa, sb, sc

MCFleets == {<<>>, <<sb>>, <<sc, sa, sb>>}
MCWithNetwork == {sb}
MCJobLists == {<<>>, <<"x", "y">>}

(* The keys left out differ from these in their direction or in the block    *)
(* they open: PageUp, SelectFirst, PreviousPane, CronJobPrevious and         *)
(* ToggleDrives.                                                             *)
MCKeys ==
    {"MoveDown", "MoveUp", "PageDown", "SelectLast", "NextPane", "ToggleSystemView",
     "ToggleNetwork", "ToggleCron", "CronJobNext", "RefreshNow"}
=============================================================================

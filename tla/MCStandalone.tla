---------------------------- MODULE MCStandalone ----------------------------
(* Five parts that share no state, one per behaviour: the calendar of         *)
(* greggd's schedules, an account's crontab, greggd's registration with a      *)
(* service manager, a self-update, and a native collector.                    *)
EXTENDS CronSchedule, Crontab, ServiceUnit, SelfUpdate, HostCollector

VARIABLE part

(* A calendar of six-minute days: three hours of two minutes, months of        *)
(* three and two days, weeks of three days, so that the calendar repeats     *)
(* after fifteen.                                                            *)
Star(step) == [star |-> TRUE, lo |-> 0, hi |-> 0, step |-> step]
Only(n) == [star |-> FALSE, lo |-> n, hi |-> n, step |-> 1]
Span(lo, hi, step) == [star |-> FALSE, lo |-> lo, hi |-> hi, step |-> step]

MCExpressions ==
    [minute : {{Star(1)}, {Only(1)}, {Star(0)}},
     hour : {{Star(1)}, {Only(1)}, {Span(0, 2, 2)}, {Span(1, 3, 1)}},
     mday : {{Star(1)}, {Only(2)}, {Star(2)}, {Only(3)}, {Only(0)}},
     month : {{Star(1)}, {Only(2)}},
     wday : {{Star(1)}, {Only(0), Only(2)}}]

TwoMonths == <<3, 2>>

(* No change, a gap of an hour, a repeated hour.                             *)
AllOffsets == {-2, 0, 2}

(* One foreign unit serves a configuration of ours, any other none.           *)
MCUses ==
    [f \in ForeignUnits |->
        IF f = CHOOSE g \in ForeignUnits : TRUE THEN CHOOSE c \in UnitConfigs : TRUE
        ELSE Nothing]

-----------------------------------------------------------------------------
(* The parts that a behaviour is not about stay in one of their initial        *)
(* states.                                                                   *)
CalendarAside ==
    /\ expr = CHOOSE e \in Expressions : Parses(e)
    /\ offset = 0 /\ cursor = 0 /\ asked = FALSE /\ failed = FALSE
CrontabAside == CrontabInit /\ table = <<>>
UnitAside == UnitInit /\ manager = "systemd" /\ file = Nothing
UpdateAside == UpdateInit /\ stable = 1
CollectorAside == CollectorInit /\ linux

Parts == {"calendar", "crontab", "unit", "update", "collector"}

MCInit ==
    /\ part \in Parts
    /\ IF part = "calendar" THEN Init ELSE CalendarAside
    /\ IF part = "crontab" THEN CrontabInit ELSE CrontabAside
    /\ IF part = "unit" THEN UnitInit ELSE UnitAside
    /\ IF part = "update" THEN UpdateInit ELSE UpdateAside
    /\ IF part = "collector" THEN CollectorInit ELSE CollectorAside

MCNext ==
    \/ /\ part = "calendar" /\ Next
       /\ UNCHANGED <<crontabVars, unitVars, updateVars, collectorVars, part>>
    \/ /\ part = "crontab" /\ CrontabNext
       /\ UNCHANGED <<vars, unitVars, updateVars, collectorVars, part>>
    \/ /\ part = "unit" /\ UnitNext
       /\ UNCHANGED <<vars, crontabVars, updateVars, collectorVars, part>>
    \/ /\ part = "update" /\ UpdateNext
       /\ UNCHANGED <<vars, crontabVars, unitVars, collectorVars, part>>
    \/ /\ part = "collector" /\ CollectorNext
       /\ UNCHANGED <<vars, crontabVars, unitVars, updateVars, part>>

MCSpec ==
    MCInit /\ [][MCNext]_<<vars, crontabVars, unitVars, updateVars, collectorVars, part>>

(* Every accepted expression has a next occurrence, and it is the nearest.      *)
CalendarSound == []SatisfiableIsComputable /\ NextIsNearest
=============================================================================

---------------------------- MODULE CronSchedule ----------------------------
(***************************************************************************)
(* LocalSchedule (crates/greggd/src/scheduler/schedule.rs): five-field     *)
(* cron expressions evaluated in local civil time.                         *)
(*                                                                         *)
(* The calendar is a cyclic one of a few days of a few hours of a few      *)
(* minutes, with at most one change of the local offset, which leaves a    *)
(* gap in civil time or makes an hour happen twice.  An expression's text  *)
(* is its five fields, a field the set of its comma-separated items.       *)
(* The state machine walks a schedule's occurrences the way the engine     *)
(* does: it asks for the next occurrence after the last one.               *)
(***************************************************************************)
EXTENDS Integers, Sequences, FiniteSetsExt, SequencesExt

CONSTANTS
    Hours, Minutes,    \* hours in a day, minutes in an hour
    MonthLengths,      \* days in each month, the year being all of them
    WeekDays,          \* days in a week
    CycleDays,         \* MAX_SEARCH_DAYS: the calendar repeats after it
    ChangeAt,          \* the instant at which the local offset changes
    Offsets,           \* possible offsets from ChangeAt on (0 before it)
    LastInstant,       \* bound: last instant a walk starts at
    Expressions        \* the configured expressions

VARIABLES
    expr,     \* the expression
    offset,   \* the local offset from ChangeAt on
    cursor,   \* the last occurrence, or the time the walk began at
    asked,    \* next_after has answered at least once
    failed    \* next_after has found no occurrence

vars == <<expr, offset, cursor, asked, failed>>

Months == Len(MonthLengths)
MonthDays == Max(Range(MonthLengths))

-----------------------------------------------------------------------------
(* parse_field: an item is a range lo .. hi with a step; `*` is the whole   *)
(* field and makes it a wildcard, with a step too; n/s is the range n .. max *)
(* with step s, and n the range n .. n.                                     *)
ItemValid(item, min, max) ==
    /\ item.step > 0
    /\ item.star \/ (item.lo \in min .. max /\ item.hi \in min .. max)
    /\ item.lo <= item.hi
ItemValues(item, min, max) ==
    LET lo == IF item.star THEN min ELSE item.lo
        hi == IF item.star THEN max ELSE item.hi
    IN {n \in lo .. hi : (n - lo) % item.step = 0}
FieldValid(items, min, max) ==
    items # {} /\ \A item \in items : ItemValid(item, min, max)
Mask(items, min, max) == UNION {ItemValues(item, min, max) : item \in items}
Wildcard(items) == \E item \in items : item.star

(* LocalSchedule::parse: every field is valid.                              *)
Parses(e) ==
    /\ FieldValid(e.minute, 0, Minutes - 1)
    /\ FieldValid(e.hour, 0, Hours - 1)
    /\ FieldValid(e.mday, 1, MonthDays)
    /\ FieldValid(e.month, 1, Months)
    /\ FieldValid(e.wday, 0, WeekDays - 1)

-----------------------------------------------------------------------------
(* The calendar (chrono): a civil time is a number of minutes since day 0.  *)
DayLength == Hours * Minutes
DateOf(civil) == civil \div DayLength
HourOf(civil) == (civil % DayLength) \div Minutes
MinuteOf(civil) == civil % Minutes
DaysBefore(month) == FoldSeq(LAMBDA n, sum : n + sum, 0,
                             SubSeq(MonthLengths, 1, month - 1))
YearDay(date) == date % DaysBefore(Months + 1)
MonthOf(date) == Max({m \in 1 .. Months : DaysBefore(m) <= YearDay(date)})
MonthDayOf(date) == YearDay(date) - DaysBefore(MonthOf(date)) + 1
WeekDayOf(date) == date % WeekDays

Local(t) == IF t >= ChangeAt THEN t + offset ELSE t
Horizon == LastInstant + (CycleDays + 1) * DayLength
Instants == 0 .. Horizon
(* TimeZone::from_local_datetime: none, one or two instants.                *)
FromLocal(civil) == {t \in (civil - Minutes) .. (civil + Minutes) :
                        t >= 0 /\ Local(t) = civil}

(* date_matches: a wildcard day field defers to the other one; two          *)
(* restricted day fields are alternatives.                                  *)
DaysConjoined(e, date) ==
    /\ MonthOf(date) \in Mask(e.month, 1, Months)
    /\ MonthDayOf(date) \in Mask(e.mday, 1, MonthDays)
    /\ WeekDayOf(date) \in Mask(e.wday, 0, WeekDays - 1)
DateMatches(e, date) ==
    LET mday == MonthDayOf(date) \in Mask(e.mday, 1, MonthDays)
        wday == WeekDayOf(date) \in Mask(e.wday, 0, WeekDays - 1)
    IN /\ MonthOf(date) \in Mask(e.month, 1, Months)
       /\ CASE Wildcard(e.mday) /\ Wildcard(e.wday)   -> TRUE
            [] Wildcard(e.mday) /\ ~Wildcard(e.wday)  -> wday
            [] ~Wildcard(e.mday) /\ Wildcard(e.wday)  -> mday
            [] ~Wildcard(e.mday) /\ ~Wildcard(e.wday) -> mday \/ wday
CivilMatches(e, civil) ==
    /\ DateMatches(e, DateOf(civil))
    /\ HourOf(civil) \in Mask(e.hour, 0, Hours - 1)
    /\ MinuteOf(civil) \in Mask(e.minute, 0, Minutes - 1)

(* is_satisfiable: some date of one cycle matches.                          *)
SatisfiableConjoined(e) == \E date \in 0 .. CycleDays - 1 : DaysConjoined(e, date)
Satisfiable(e) == \E date \in 0 .. CycleDays - 1 : DateMatches(e, date)

(* next_after scans civil times in order from the start of after's day; the *)
(* first one with an instant later than `after` decides.                    *)
Answers(e, after, first) ==
    {c \in first * DayLength .. (first + CycleDays) * DayLength - 1 :
        CivilMatches(e, c) /\ \E t \in FromLocal(c) : t > after}
ScannedFromTomorrow(e, after) == Answers(e, after, DateOf(Local(after)) + 1)
Scanned(e, after) == Answers(e, after, DateOf(Local(after)))
NextAfter(e, after) ==
    Min({t \in FromLocal(Min(Scanned(e, after))) : t > after})

-----------------------------------------------------------------------------
(* The engine starts at any time, with any expression that parses.          *)
Init ==
    /\ expr \in {e \in Expressions : Parses(e)}
    /\ offset \in Offsets
    /\ cursor \in 0 .. LastInstant
    /\ asked = FALSE
    /\ failed = FALSE

Advance ==
    /\ ~failed
    /\ cursor <= LastInstant
    /\ Scanned(expr, cursor) # {}
    /\ cursor' = NextAfter(expr, cursor)
    /\ asked' = TRUE
    /\ UNCHANGED <<expr, offset, failed>>

(* next_after's error: nothing within the search bound.                     *)
Fail ==
    /\ ~failed
    /\ cursor <= LastInstant
    /\ Scanned(expr, cursor) = {}
    /\ failed' = TRUE
    /\ UNCHANGED <<expr, offset, cursor, asked>>

Next == Advance \/ Fail
Spec == Init /\ [][Next]_vars

-----------------------------------------------------------------------------
(* What an expression means: the instants whose civil time has the minute   *)
(* and hour, the month, and, by the cron convention, the day.               *)
Occurs(e, t) == t \in Instants /\ CivilMatches(e, Local(t))
Skipped(t) == cursor < t /\ t < cursor' /\ Occurs(expr, t)

(* next_after always moves forward, to an instant the expression names, and *)
(* outside the first pass of a repeated hour it skips none.                 *)
NextIsNearest ==
    [][cursor' # cursor =>
          /\ cursor' > cursor
          /\ Occurs(expr, cursor')
          /\ \A t \in cursor .. cursor' :
                Skipped(t) => \E u \in FromLocal(Local(t)) : u > t]_vars

(* is_satisfiable, which configuration checks once and away from the clock, *)
(* agrees with every later call of next_after, wherever it starts and       *)
(* whatever the zone does: an accepted expression always has a next         *)
(* occurrence, a rejected one never has.                                    *)
SatisfiableIsComputable ==
    /\ failed => ~Satisfiable(expr)
    /\ asked => Satisfiable(expr)

(* Step syntax in the day fields: with every weekday selected, an           *)
(* occurrence falls on a selected day of the month.                         *)
DayStepsHonoured ==
    asked /\ Mask(expr.wday, 0, WeekDays - 1) = 0 .. WeekDays - 1
          /\ Wildcard(expr.wday)
        => MonthDayOf(DateOf(Local(cursor))) \in Mask(expr.mday, 1, MonthDays)
=============================================================================

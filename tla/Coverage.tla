------------------------------- MODULE Coverage -------------------------------
(***************************************************************************)
(* When a door that opens is worth an alert: Notifier::checkIfInCoverage() *)
(* of src/PiCam/Notifier.h, over the rows of the table coverage_intervals. *)
(***************************************************************************)
EXTENDS Naturals, Sequences

DaysPerWeek == 7
HoursPerDay == 24

Weekdays == 0 .. DaysPerWeek - 1
Hours == 0 .. HoursPerDay - 1

\* A row: an hour of a day of the week to another, both included.
Times == [weekday : Weekdays, hour : Hours]
CoverageIntervals == [begin : Times, end : Times]

\* Hours counted from the beginning of Sunday.
HourOfTheWeek(t) == t.weekday * HoursPerDay + t.hour

\* Mutant: the last hour is left out.
CoversToTheHour(interval, now) ==
    /\ HourOfTheWeek(now) >= HourOfTheWeek(interval.begin)
    /\ HourOfTheWeek(now) < HourOfTheWeek(interval.end)

Covers(interval, now) ==
    /\ HourOfTheWeek(now) >= HourOfTheWeek(interval.begin)
    /\ HourOfTheWeek(now) <= HourOfTheWeek(interval.end)

\* checkIfInCoverage() looks for a row that covers the present hour, unless
\* coverage is always on.
InCoverage(alwaysOn, table, now) ==
    alwaysOn \/ \E i \in DOMAIN table : Covers(table[i], now)

------------------------------------------------------------------------------
\* The reference: the hours met on the way round the week from an interval's
\* begin to its end.
Wraps(interval) == HourOfTheWeek(interval.end) < HourOfTheWeek(interval.begin)

AroundTheWeek(interval) ==
    {t \in Times :
        LET begin == HourOfTheWeek(interval.begin)
            end == HourOfTheWeek(interval.end)
            now == HourOfTheWeek(t)
        IN  IF Wraps(interval) THEN now >= begin \/ now <= end
                               ELSE now >= begin /\ now <= end}
==============================================================================

---------------------------- MODULE CoverageTable ----------------------------
(***************************************************************************)
(* The table of covered hours in the page src/WebClient/index.html: for    *)
(* each interval in a status, write_coverage_in_table() walks from its     *)
(* begin to its end, over the end of the week if need be, and paints every *)
(* cell on the way.  The status is made by RemoteControl::sendStatus() from*)
(* the same rows as the decision of module Coverage, after four flags.     *)
(***************************************************************************)
EXTENDS Coverage

CONSTANT Tables        \* what coverage_intervals may hold: sequences of rows

ASSUME TablesAssumption == Tables \subseteq Seq(CoverageIntervals)

VARIABLES
    table,             \* the rows, in the order the query returns them
    at,                \* where the page is: idle, between fields, in the walk
    i,                 \* the field of the status, counted from 0
    wWeekday, wHour,   \* the cell the walk has come to
    painted            \* the cells whose class is week_row_on

vars == <<table, at, i, wWeekday, wHour, painted>>

Steps == {"idle", "fields", "walk"}

NumberOfFlags == 4     \* the fields before the intervals
FirstFieldRead == 6    \* the field at which the page begins

\* The row that field k of the status carries.
Field(k) == table[k - NumberOfFlags + 1]
NumberOfFields == NumberOfFlags + Len(table)

Cell == [weekday |-> wWeekday, hour |-> wHour]

Init ==
    /\ table \in Tables
    /\ at = "idle"
    /\ i = 0
    /\ wWeekday = 0
    /\ wHour = 0
    /\ painted = {}

\* A status arrives.  Cells painted before stay painted.
ParseMessage ==
    /\ at = "idle"
    /\ i' = FirstFieldRead
    /\ at' = "fields"
    /\ UNCHANGED <<table, wWeekday, wHour, painted>>

\* The walk over an interval starts at its begin.
StartWalk ==
    /\ at = "fields"
    /\ i < NumberOfFields
    /\ wWeekday' = Field(i).begin.weekday
    /\ wHour' = Field(i).begin.hour
    /\ at' = "walk"
    /\ UNCHANGED <<table, i, painted>>

\* Mutant: the hour is compared with > 24.
AdvanceToHour24 ==
    IF wHour + 1 > HoursPerDay
    THEN /\ wHour' = 0
         /\ wWeekday' = IF wWeekday + 1 >= DaysPerWeek THEN 0 ELSE wWeekday + 1
    ELSE wHour' = wHour + 1 /\ wWeekday' = wWeekday

\* Mutant: the walk stays on the last day of the week.
AdvanceOnSaturday ==
    IF wHour + 1 >= HoursPerDay
    THEN /\ wHour' = 0
         /\ wWeekday' = IF wWeekday + 1 >= DaysPerWeek THEN wWeekday ELSE wWeekday + 1
    ELSE wHour' = wHour + 1 /\ wWeekday' = wWeekday

\* The next hour, of the next day after the last, of Sunday after Saturday.
Advance ==
    IF wHour + 1 >= HoursPerDay
    THEN /\ wHour' = 0
         /\ wWeekday' = IF wWeekday + 1 >= DaysPerWeek THEN 0 ELSE wWeekday + 1
    ELSE wHour' = wHour + 1 /\ wWeekday' = wWeekday

Walk ==
    /\ at = "walk"
    /\ Cell # Field(i).end
    /\ painted' = painted \cup {Cell}
    /\ Advance
    /\ UNCHANGED <<table, at, i>>

\* Mutant: the cell after the loop is not painted.
EndWalkUnpainted ==
    /\ at = "walk"
    /\ Cell = Field(i).end
    /\ i' = i + 1
    /\ at' = "fields"
    /\ UNCHANGED <<table, wWeekday, wHour, painted>>

\* The end is painted after the loop.
EndWalk ==
    /\ at = "walk"
    /\ Cell = Field(i).end
    /\ painted' = painted \cup {Cell}
    /\ i' = i + 1
    /\ at' = "fields"
    /\ UNCHANGED <<table, wWeekday, wHour>>

\* No field is left.
EndMessage ==
    /\ at = "fields"
    /\ i >= NumberOfFields
    /\ at' = "idle"
    /\ UNCHANGED <<table, i, wWeekday, wHour, painted>>

Handler == StartWalk \/ Walk \/ EndWalk \/ EndMessage

Next == ParseMessage \/ Handler

\* A script that runs keeps running.  No status has to arrive.
Spec == Init /\ [][Next]_vars /\ WF_vars(Handler)

------------------------------------------------------------------------------
\* Properties.

\* Types; every cell the walk comes to is one of the page's, for any other
\* getElementById() would not find.
TypeOK ==
    /\ table \in Tables
    /\ at \in Steps
    /\ i \in Nat
    /\ wWeekday \in Weekdays
    /\ wHour \in Hours
    /\ painted \subseteq Times

\* The rows that the page reads: all but the first two.
Displayed == {k \in DOMAIN table : k > FirstFieldRead - NumberOfFlags}

\* A status handled to its end has painted the hours of the displayed intervals,
\* each from its begin round the week to its end, and no others.
PaintedIsDisplayed ==
    at = "idle" /\ i > 0 =>
        painted = UNION {AroundTheWeek(table[k]) : k \in Displayed}

\* How the page and the decision to alert agree: an hour that is covered is
\* painted unless a row the page skips is the one that covers it, and an hour
\* that is painted is covered unless the interval that painted it wraps around
\* the week, which the decision never matches.
PageAgainstDecision ==
    at = "idle" /\ i > 0 =>
        \A now \in Times :
            /\ InCoverage(FALSE, table, now) /\ now \notin painted =>
                  \E k \in DOMAIN table \ Displayed : Covers(table[k], now)
            /\ now \in painted /\ ~InCoverage(FALSE, table, now) =>
                  \E k \in Displayed :
                      Wraps(table[k]) /\ now \in AroundTheWeek(table[k])

\* Every status is handled to its end: no walk goes past its interval's end
\* and round the week for ever.
WalksEnd == at = "fields" ~> at = "idle"
==============================================================================

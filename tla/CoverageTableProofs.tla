------------------------- MODULE CoverageTableProofs -------------------------
(***************************************************************************)
(* The walks of CoverageTable paint what they should for every table, and  *)
(* what that says of the decision to alert.                                *)
(***************************************************************************)
EXTENDS CoverageTable, TLAPS

\* Where the page is in the status.
FieldInv ==
    /\ at # "idle" => i >= FirstFieldRead
    /\ at = "walk" => i < NumberOfFields
    /\ at = "idle" /\ i > 0 => i >= FirstFieldRead /\ i >= NumberOfFields

Sound == painted \subseteq UNION {AroundTheWeek(table[k]) : k \in Displayed}

Complete ==
    \A k \in Displayed :
        k + NumberOfFlags - 1 < i => AroundTheWeek(table[k]) \subseteq painted

\* The hours that a walk from interval's begin has left behind at cell c.
Behind(interval, c, t) ==
    LET begin == HourOfTheWeek(interval.begin)
        here == HourOfTheWeek(c)
        hour == HourOfTheWeek(t)
    IN  IF here >= begin THEN hour >= begin /\ hour < here
                         ELSE hour >= begin \/ hour < here

WalkInv ==
    at = "walk" =>
        /\ Cell \in AroundTheWeek(Field(i))
        /\ \A t \in Times : Behind(Field(i), Cell, t) => t \in painted

IInv == TypeOK /\ FieldInv /\ Sound /\ Complete /\ WalkInv

------------------------------------------------------------------------------
\* Days and hours are told apart in their sum.
LEMMA DaysAndHours ==
    ASSUME NEW a \in 0 .. 6, NEW b \in 0 .. 23, NEW c \in 0 .. 6, NEW d \in 0 .. 23,
           a * 24 + b = c * 24 + d
    PROVE  a = c /\ b = d
OBVIOUS

\* No hour lies between a begin and an earlier end.
LEMMA NothingBetween ==
    ASSUME NEW b \in 0 .. 167, NEW e \in 0 .. 167, NEW n \in 0 .. 167, e < b
    PROVE  ~(n >= b /\ n <= e)
OBVIOUS

\* The hours of the week number the times.
LEMMA TimeFacts ==
    /\ \A t \in Times : HourOfTheWeek(t) \in 0 .. 167
    /\ \A s, t \in Times : HourOfTheWeek(s) = HourOfTheWeek(t) => s = t
<1>1. ASSUME NEW t \in Times
      PROVE  HourOfTheWeek(t) \in 0 .. 167
  <2>1. t.weekday \in 0 .. 6 /\ t.hour \in 0 .. 23
    BY DEF Times, Weekdays, Hours, DaysPerWeek, HoursPerDay
  <2> QED
    BY <2>1 DEF HourOfTheWeek, HoursPerDay
<1>2. ASSUME NEW s \in Times, NEW t \in Times, HourOfTheWeek(s) = HourOfTheWeek(t)
      PROVE  s = t
  <2>1. /\ s.weekday \in 0 .. 6 /\ s.hour \in 0 .. 23
        /\ t.weekday \in 0 .. 6 /\ t.hour \in 0 .. 23
    BY DEF Times, Weekdays, Hours, DaysPerWeek, HoursPerDay
  <2>2. PICK d \in 0 .. 6, h \in 0 .. 23 : d = s.weekday /\ h = s.hour
    BY <2>1
  <2>3. PICK e \in 0 .. 6, k \in 0 .. 23 : e = t.weekday /\ k = t.hour
    BY <2>1
  <2>4. HourOfTheWeek(s) = d * 24 + h
    BY <2>2, Zenon DEF HourOfTheWeek, HoursPerDay
  <2>5. HourOfTheWeek(t) = e * 24 + k
    BY <2>3, Zenon DEF HourOfTheWeek, HoursPerDay
  <2>6. d * 24 + h = e * 24 + k
    BY <1>2, <2>4, <2>5, Zenon
  <2>7. d \in 0 .. 6 /\ h \in 0 .. 23 /\ e \in 0 .. 6 /\ k \in 0 .. 23
    BY <2>2, <2>3, Zenon
  <2>8. d = e /\ h = k
    BY <2>6, <2>7, DaysAndHours
  <2>9. s.weekday = t.weekday /\ s.hour = t.hour
    BY <2>2, <2>3, <2>8
  <2> QED
    BY <2>9 DEF Times
<1> QED
    BY <1>1, <1>2

\* The decision is the reference for intervals that do not wrap around the week,
\* and none at all for those that do.
THEOREM CoversIsAroundTheWeek ==
    ASSUME NEW interval \in CoverageIntervals, NEW now \in Times
    PROVE  Covers(interval, now) <=> now \in AroundTheWeek(interval) /\ ~Wraps(interval)
<1>1. interval.begin \in Times /\ interval.end \in Times
    BY DEF CoverageIntervals
<1>2. /\ HourOfTheWeek(interval.begin) \in 0 .. 167
      /\ HourOfTheWeek(interval.end) \in 0 .. 167
      /\ HourOfTheWeek(now) \in 0 .. 167
    BY <1>1, TimeFacts
<1>3. now \in AroundTheWeek(interval)
        <=> IF HourOfTheWeek(interval.end) < HourOfTheWeek(interval.begin)
            THEN \/ HourOfTheWeek(now) >= HourOfTheWeek(interval.begin)
                 \/ HourOfTheWeek(now) <= HourOfTheWeek(interval.end)
            ELSE Covers(interval, now)
    BY DEF AroundTheWeek, Wraps, Covers
<1>4. Wraps(interval) => ~Covers(interval, now)
    BY <1>2, NothingBetween DEF Covers, Wraps
<1> QED
    BY <1>3, <1>4 DEF Wraps

\* The rows of the table, and the row a walk is about.
LEMMA RowFacts ==
    ASSUME TypeOK
    PROVE  /\ Len(table) \in Nat
           /\ DOMAIN table = 1 .. Len(table)
           /\ \A k \in DOMAIN table : table[k] \in CoverageIntervals
           /\ Cell \in Times
<1>1. table \in Seq(CoverageIntervals)
    BY TablesAssumption DEF TypeOK
<1>2. Cell \in Times
    BY DEF TypeOK, Cell, Times
<1> QED
    BY <1>1, <1>2

LEMMA FieldFacts ==
    ASSUME TypeOK, FieldInv, i < NumberOfFields, at # "idle"
    PROVE  /\ i - NumberOfFlags + 1 \in Displayed
           /\ Field(i) = table[i - NumberOfFlags + 1]
           /\ Field(i) \in CoverageIntervals
<1>1. i \in Nat /\ i >= 6 /\ i < 4 + Len(table)
    BY DEF TypeOK, FieldInv, NumberOfFields, NumberOfFlags, FirstFieldRead
<1>2. i - NumberOfFlags + 1 \in Displayed
    BY <1>1, RowFacts DEF Displayed, NumberOfFlags, FirstFieldRead
<1> QED
    BY <1>2, RowFacts DEF Displayed, Field

\* One step of a walk that has not come to the end: the next cell is on the way,
\* and what is behind it is what was behind this one, and this one.
LEMMA AdvanceFacts ==
    ASSUME NEW interval \in CoverageIntervals, NEW c \in Times, NEW d \in Times,
           c \in AroundTheWeek(interval), c # interval.end,
           \/ HourOfTheWeek(d) = HourOfTheWeek(c) + 1
           \/ HourOfTheWeek(c) = 167 /\ HourOfTheWeek(d) = 0
    PROVE  /\ d \in AroundTheWeek(interval)
           /\ \A t \in Times : Behind(interval, d, t) => Behind(interval, c, t) \/ t = c
<1> DEFINE b == HourOfTheWeek(interval.begin)
           e == HourOfTheWeek(interval.end)
           hc == HourOfTheWeek(c)
           hd == HourOfTheWeek(d)
<1>1. interval.begin \in Times /\ interval.end \in Times
    BY DEF CoverageIntervals
<1>2. b \in 0 .. 167 /\ e \in 0 .. 167 /\ hc \in 0 .. 167 /\ hd \in 0 .. 167
    BY <1>1, TimeFacts
<1>3. hc # e
    BY <1>1, TimeFacts
<1>4. IF e < b THEN hc >= b \/ hc <= e ELSE hc >= b /\ hc <= e
    BY DEF AroundTheWeek, Wraps
<1>5. hd = hc + 1 \/ (hc = 167 /\ hd = 0)
    OBVIOUS
<1>6. d \in AroundTheWeek(interval)
  <2>1. IF e < b THEN hd >= b \/ hd <= e ELSE hd >= b /\ hd <= e
    <3> HIDE DEF b, e, hc, hd
    <3> QED
      BY <1>2, <1>3, <1>4, <1>5
  <2> QED
    BY <2>1 DEF AroundTheWeek, Wraps
<1>7. ASSUME NEW t \in Times, Behind(interval, d, t)
      PROVE  Behind(interval, c, t) \/ t = c
  <2> DEFINE ht == HourOfTheWeek(t)
  <2>1. ht \in 0 .. 167
    BY TimeFacts
  <2>2. IF hd >= b THEN ht >= b /\ ht < hd ELSE ht >= b \/ ht < hd
    BY <1>7 DEF Behind
  <2>3. ht = hc \/ (IF hc >= b THEN ht >= b /\ ht < hc ELSE ht >= b \/ ht < hc)
    <3> HIDE DEF b, e, hc, hd, ht
    <3> QED
      BY <1>2, <1>3, <1>4, <1>5, <2>1, <2>2
  <2>4. ht = hc => t = c
    BY TimeFacts
  <2> QED
    BY <2>3, <2>4 DEF Behind
<1> QED
    BY <1>6, <1>7

\* Nothing is behind the cell a walk starts at, and at its end all of the way but
\* that cell is.
LEMMA WayFacts ==
    ASSUME NEW interval \in CoverageIntervals
    PROVE  /\ interval.begin \in AroundTheWeek(interval)
           /\ \A t \in Times : ~Behind(interval, interval.begin, t)
           /\ \A t \in AroundTheWeek(interval) :
                 t = interval.end \/ Behind(interval, interval.end, t)
<1> DEFINE b == HourOfTheWeek(interval.begin)
           e == HourOfTheWeek(interval.end)
<1>1. interval.begin \in Times /\ interval.end \in Times
    BY DEF CoverageIntervals
<1>2. b \in 0 .. 167 /\ e \in 0 .. 167
    BY <1>1, TimeFacts
<1>3. interval.begin \in AroundTheWeek(interval)
  <2>1. IF e < b THEN b >= b \/ b <= e ELSE b >= b /\ b <= e
    <3> HIDE DEF b, e
    <3> QED
      BY <1>2
  <2> QED
    BY <1>1, <2>1 DEF AroundTheWeek, Wraps
<1>4. ASSUME NEW t \in Times
      PROVE  ~Behind(interval, interval.begin, t)
  <2> DEFINE ht == HourOfTheWeek(t)
  <2>1. ht \in 0 .. 167
    BY TimeFacts
  <2>2. ~(IF b >= b THEN ht >= b /\ ht < b ELSE ht >= b \/ ht < b)
    <3> HIDE DEF b, ht
    <3> QED
      BY <1>2, <2>1
  <2> QED
    BY <2>2 DEF Behind
<1>5. ASSUME NEW t \in AroundTheWeek(interval)
      PROVE  t = interval.end \/ Behind(interval, interval.end, t)
  <2> DEFINE ht == HourOfTheWeek(t)
  <2>1. t \in Times /\ (IF e < b THEN ht >= b \/ ht <= e ELSE ht >= b /\ ht <= e)
    BY DEF AroundTheWeek, Wraps
  <2>2. ht \in 0 .. 167
    BY <2>1, TimeFacts
  <2>3. ht = e => t = interval.end
    BY <1>1, <2>1, TimeFacts
  <2>4. ht = e \/ (IF e >= b THEN ht >= b /\ ht < e ELSE ht >= b \/ ht < e)
    <3> HIDE DEF b, e, ht
    <3> QED
      BY <1>2, <2>1, <2>2
  <2> QED
    BY <2>3, <2>4 DEF Behind
<1> QED
    BY <1>3, <1>4, <1>5

\* Advance moves a cell by one hour, or from the last to the first.
LEMMA CellAdvances ==
    ASSUME TypeOK, Advance
    PROVE  /\ Cell' \in Times
           /\ wWeekday' \in Weekdays /\ wHour' \in Hours
           /\ \/ HourOfTheWeek(Cell') = HourOfTheWeek(Cell) + 1
              \/ HourOfTheWeek(Cell) = 167 /\ HourOfTheWeek(Cell') = 0
<1>1. wWeekday \in 0 .. 6 /\ wHour \in 0 .. 23
    BY DEF TypeOK, Weekdays, Hours, DaysPerWeek, HoursPerDay
<1>2. wWeekday' \in Weekdays /\ wHour' \in Hours
    BY <1>1 DEF Advance, Weekdays, Hours, DaysPerWeek, HoursPerDay
<1>3. Cell' \in Times
    BY <1>2 DEF Cell, Times
<1>4. /\ HourOfTheWeek(Cell) = wWeekday * 24 + wHour
      /\ HourOfTheWeek(Cell') = wWeekday' * 24 + wHour'
    BY DEF HourOfTheWeek, Cell, HoursPerDay
<1>5. CASE wHour + 1 >= 24
  <2>1. wHour = 23 /\ wHour' = 0
    BY <1>1, <1>5 DEF Advance, HoursPerDay
  <2>2. wWeekday' = IF wWeekday + 1 >= 7 THEN 0 ELSE wWeekday + 1
    BY <1>5 DEF Advance, HoursPerDay, DaysPerWeek
  <2> QED
    BY <1>1, <1>2, <1>3, <1>4, <2>1, <2>2
<1>6. CASE ~(wHour + 1 >= 24)
    BY <1>1, <1>2, <1>3, <1>4, <1>6 DEF Advance, HoursPerDay
<1> QED
    BY <1>5, <1>6

------------------------------------------------------------------------------
\* The invariant is inductive.
LEMMA InitInv == Init => IInv
<1> SUFFICES ASSUME Init PROVE IInv
    OBVIOUS
<1>1. TypeOK
    BY DEF Init, TypeOK, Steps, Weekdays, Hours, DaysPerWeek, HoursPerDay
<1>2. FieldInv /\ Sound /\ WalkInv
    BY DEF Init, FieldInv, Sound, WalkInv
<1>3. Complete
    BY RowFacts, <1>1 DEF Init, Complete, Displayed, NumberOfFlags, FirstFieldRead
<1> QED
    BY <1>1, <1>2, <1>3 DEF IInv

LEMMA ParseMessageInv == IInv /\ ParseMessage => IInv'
<1> SUFFICES ASSUME IInv, ParseMessage PROVE IInv'
    OBVIOUS
<1>1. TypeOK'
    BY DEF IInv, TypeOK, ParseMessage, Steps, FirstFieldRead
<1>2. FieldInv'
    BY DEF ParseMessage, FieldInv, FirstFieldRead
<1>3. Sound'
    BY DEF IInv, Sound, ParseMessage, Displayed
<1>4. Complete'
    BY RowFacts DEF IInv, Complete, ParseMessage, Displayed, NumberOfFlags, FirstFieldRead
<1>5. WalkInv'
    BY DEF ParseMessage, WalkInv
<1> QED
    BY <1>1, <1>2, <1>3, <1>4, <1>5 DEF IInv

LEMMA StartWalkInv == IInv /\ StartWalk => IInv'
<1> SUFFICES ASSUME IInv, StartWalk PROVE IInv'
    OBVIOUS
<1>1. Field(i) \in CoverageIntervals
    BY FieldFacts DEF IInv, StartWalk
<1>2. Field(i).begin \in Times
    BY <1>1 DEF CoverageIntervals
<1>3. Cell' = Field(i).begin /\ Field(i)' = Field(i)
    BY <1>2 DEF StartWalk, Cell, Field, Times
<1>4. TypeOK'
    BY <1>2 DEF IInv, TypeOK, StartWalk, Steps, Times
<1>5. FieldInv'
    BY DEF IInv, FieldInv, StartWalk, NumberOfFields
<1>6. Sound' /\ Complete'
    BY DEF IInv, Sound, Complete, StartWalk, Displayed
<1>7. WalkInv'
    BY <1>1, <1>3, WayFacts DEF WalkInv
<1> QED
    BY <1>4, <1>5, <1>6, <1>7 DEF IInv

LEMMA WalkStepInv == IInv /\ Walk => IInv'
<1> SUFFICES ASSUME IInv, Walk PROVE IInv'
    OBVIOUS
<1> DEFINE row == Field(i)
<1>1. /\ row \in CoverageIntervals
      /\ i - NumberOfFlags + 1 \in Displayed
      /\ row = table[i - NumberOfFlags + 1]
    BY FieldFacts DEF IInv, FieldInv, Walk
<1>2. /\ Cell \in Times /\ Cell \in AroundTheWeek(row) /\ Cell # row.end
      /\ \A t \in Times : Behind(row, Cell, t) => t \in painted
    BY RowFacts DEF IInv, WalkInv, Walk
<1>3. /\ Cell' \in Times /\ wWeekday' \in Weekdays /\ wHour' \in Hours
      /\ \/ HourOfTheWeek(Cell') = HourOfTheWeek(Cell) + 1
         \/ HourOfTheWeek(Cell) = 167 /\ HourOfTheWeek(Cell') = 0
    BY CellAdvances DEF IInv, Walk
<1>4. /\ Cell' \in AroundTheWeek(row)
      /\ \A t \in Times : Behind(row, Cell', t) => Behind(row, Cell, t) \/ t = Cell
    BY <1>1, <1>2, <1>3, AdvanceFacts
<1>5. Field(i)' = row /\ painted' = painted \cup {Cell} /\ at' = at /\ table' = table /\ i' = i
    BY DEF Walk, Field
<1>6. TypeOK'
    BY <1>2, <1>3, <1>5 DEF IInv, TypeOK
<1>7. FieldInv'
    BY <1>5 DEF IInv, FieldInv, NumberOfFields
<1>8. Sound'
    BY <1>1, <1>2, <1>5 DEF IInv, Sound, Displayed
<1>9. Complete'
    BY <1>5 DEF IInv, Complete, Displayed
<1>10. WalkInv'
    BY <1>2, <1>4, <1>5 DEF WalkInv
<1> QED
    BY <1>6, <1>7, <1>8, <1>9, <1>10 DEF IInv

LEMMA EndWalkInv == IInv /\ EndWalk => IInv'
<1> SUFFICES ASSUME IInv, EndWalk PROVE IInv'
    OBVIOUS
<1> DEFINE row == Field(i)
<1>1. /\ row \in CoverageIntervals
      /\ i - NumberOfFlags + 1 \in Displayed
      /\ row = table[i - NumberOfFlags + 1]
      /\ i \in Nat /\ i >= FirstFieldRead
    BY FieldFacts DEF IInv, FieldInv, EndWalk, TypeOK
<1>2. /\ Cell \in Times /\ Cell \in AroundTheWeek(row) /\ Cell = row.end
      /\ \A t \in Times : Behind(row, Cell, t) => t \in painted
    BY RowFacts DEF IInv, WalkInv, EndWalk
<1>3. AroundTheWeek(row) \subseteq painted'
  <2>1. AroundTheWeek(row) \subseteq Times
    BY DEF AroundTheWeek
  <2> QED
    BY <1>1, <1>2, <2>1, WayFacts DEF EndWalk
<1>4. painted' = painted \cup {Cell} /\ at' = "fields" /\ table' = table /\ i' = i + 1
    BY DEF EndWalk
<1>5. TypeOK'
    BY <1>1, <1>2, <1>4 DEF IInv, TypeOK, EndWalk, Steps
<1>6. FieldInv'
    BY <1>1, <1>4 DEF FieldInv, FirstFieldRead
<1>7. Sound'
    BY <1>1, <1>2, <1>4 DEF IInv, Sound, Displayed
<1>8. Complete'
  <2> SUFFICES ASSUME NEW k \in Displayed, k + NumberOfFlags - 1 < i + 1
               PROVE  AroundTheWeek(table[k]) \subseteq painted'
    BY <1>4 DEF Complete, Displayed
  <2>1. k \in Nat
    BY RowFacts DEF IInv, Displayed
  <2>2. CASE k + NumberOfFlags - 1 < i
    BY <1>4, <2>2 DEF IInv, Complete
  <2>3. CASE k = i - NumberOfFlags + 1
    BY <1>1, <1>3, <2>3
  <2> QED
    BY <1>1, <2>1, <2>2, <2>3 DEF NumberOfFlags
<1>9. WalkInv'
    BY <1>4 DEF WalkInv
<1> QED
    BY <1>5, <1>6, <1>7, <1>8, <1>9 DEF IInv

LEMMA EndMessageInv == IInv /\ EndMessage => IInv'
<1> SUFFICES ASSUME IInv, EndMessage PROVE IInv'
    OBVIOUS
<1>1. TypeOK'
    BY DEF IInv, TypeOK, EndMessage, Steps
<1>2. FieldInv'
    BY DEF IInv, FieldInv, EndMessage, NumberOfFields
<1>3. Sound' /\ Complete' /\ WalkInv'
    BY DEF IInv, Sound, Complete, WalkInv, EndMessage, Displayed
<1> QED
    BY <1>1, <1>2, <1>3 DEF IInv

LEMMA StepInv == IInv /\ [Next]_vars => IInv'
<1>1. IInv /\ UNCHANGED vars => IInv'
    BY DEF vars, IInv, TypeOK, FieldInv, Sound, Complete, WalkInv, Cell, Field,
           NumberOfFields, Displayed
<1> QED
    BY <1>1, ParseMessageInv, StartWalkInv, WalkStepInv, EndWalkInv, EndMessageInv
       DEF Next, Handler

THEOREM Invariance == Spec => []IInv
    BY InitInv, StepInv, PTL DEF Spec

------------------------------------------------------------------------------
\* The types: for every table, the walk never leaves the page's cells.
THEOREM TypeCorrect == Spec => []TypeOK
<1>1. IInv => TypeOK
    BY DEF IInv
<1> QED
    BY <1>1, Invariance, PTL

LEMMA PaintedFacts == IInv => PaintedIsDisplayed
<1> SUFFICES ASSUME IInv, at = "idle", i > 0
             PROVE  painted = UNION {AroundTheWeek(table[k]) : k \in Displayed}
    BY DEF PaintedIsDisplayed
<1>1. ASSUME NEW k \in Displayed
      PROVE  AroundTheWeek(table[k]) \subseteq painted
  <2>1. k \in 1 .. Len(table) /\ Len(table) \in Nat /\ i \in Nat
    BY RowFacts DEF IInv, Displayed, TypeOK
  <2>2. k + NumberOfFlags - 1 < i
    BY <2>1 DEF IInv, FieldInv, NumberOfFields, NumberOfFlags
  <2> QED
    BY <2>2 DEF IInv, Complete
<1> QED
    BY <1>1 DEF IInv, Sound

\* When a status has been handled to its end, the painted cells are the hours of
\* the displayed intervals, whatever the table holds.
THEOREM PaintedCorrectly == Spec => []PaintedIsDisplayed
    BY Invariance, PaintedFacts, PTL

LEMMA AgreementFacts == IInv => PageAgainstDecision
<1> SUFFICES ASSUME IInv, at = "idle", i > 0, NEW now \in Times
             PROVE  /\ InCoverage(FALSE, table, now) /\ now \notin painted =>
                          \E k \in DOMAIN table \ Displayed : Covers(table[k], now)
                    /\ now \in painted /\ ~InCoverage(FALSE, table, now) =>
                          \E k \in Displayed :
                              Wraps(table[k]) /\ now \in AroundTheWeek(table[k])
    BY DEF PageAgainstDecision
<1>1. painted = UNION {AroundTheWeek(table[k]) : k \in Displayed}
    BY PaintedFacts DEF PaintedIsDisplayed
<1>2. ASSUME NEW k \in DOMAIN table
      PROVE  Covers(table[k], now)
                <=> now \in AroundTheWeek(table[k]) /\ ~Wraps(table[k])
    BY RowFacts, CoversIsAroundTheWeek DEF IInv
<1>3. Displayed \subseteq DOMAIN table
    BY DEF Displayed
<1>4. ASSUME InCoverage(FALSE, table, now), now \notin painted
      PROVE  \E k \in DOMAIN table \ Displayed : Covers(table[k], now)
  <2>1. PICK k \in DOMAIN table : Covers(table[k], now)
    BY <1>4 DEF InCoverage
  <2>2. k \notin Displayed
    BY <1>1, <1>2, <1>4, <2>1
  <2> QED
    BY <2>1, <2>2
<1>5. ASSUME now \in painted, ~InCoverage(FALSE, table, now)
      PROVE  \E k \in Displayed : Wraps(table[k]) /\ now \in AroundTheWeek(table[k])
  <2>1. PICK k \in Displayed : now \in AroundTheWeek(table[k])
    BY <1>1, <1>5
  <2>2. ~Covers(table[k], now)
    BY <1>3, <1>5 DEF InCoverage
  <2> QED
    BY <1>2, <1>3, <2>1, <2>2
<1> QED
    BY <1>4, <1>5

\* Page and decision differ in the rows the page skips and in the intervals that
\* wrap around the week, and in nothing else.
THEOREM AgreesWithDecision == Spec => []PageAgainstDecision
    BY Invariance, AgreementFacts, PTL

------------------------------------------------------------------------------
\* How far the page is from the end of the status: the fields it has not done
\* with, and the hours from the cell of a walk forward, round the week if need be,
\* to the end of the interval.
FieldsLeft == NumberOfFields - i

HoursLeft ==
    LET here == HourOfTheWeek(Cell)
        end == HourOfTheWeek(Field(i).end)
    IN  IF here <= end THEN end - here ELSE end + DaysPerWeek * HoursPerDay - here

CloserToItsEnd ==
    /\ StartWalk => FieldsLeft > 0 /\ FieldsLeft' = FieldsLeft
    /\ Walk => /\ FieldsLeft' = FieldsLeft
               /\ HoursLeft \in 1 .. 167 /\ HoursLeft' = HoursLeft - 1
    /\ EndWalk => FieldsLeft > 0 /\ FieldsLeft' = FieldsLeft - 1

WalksCloseIn == [][CloserToItsEnd]_vars

LEMMA WalkClosesIn == IInv /\ Walk => HoursLeft \in 1 .. 167 /\ HoursLeft' = HoursLeft - 1
<1> SUFFICES ASSUME IInv, Walk
             PROVE  HoursLeft \in 1 .. 167 /\ HoursLeft' = HoursLeft - 1
    OBVIOUS
<1>1. Field(i) \in CoverageIntervals /\ Field(i)' = Field(i)
    BY FieldFacts DEF IInv, FieldInv, Walk, Field
<1>2. Field(i).end \in Times /\ Cell \in Times /\ Cell # Field(i).end
    BY <1>1, RowFacts DEF IInv, CoverageIntervals, Walk
<1>3. /\ Cell' \in Times
      /\ \/ HourOfTheWeek(Cell') = HourOfTheWeek(Cell) + 1
         \/ HourOfTheWeek(Cell) = 167 /\ HourOfTheWeek(Cell') = 0
    BY CellAdvances DEF IInv, Walk
<1>4. PICK h \in 0 .. 167, g \in 0 .. 167, e \in 0 .. 167 :
         h = HourOfTheWeek(Cell) /\ g = HourOfTheWeek(Cell') /\ e = HourOfTheWeek(Field(i).end)
  <2>1. /\ HourOfTheWeek(Cell) \in 0 .. 167 /\ HourOfTheWeek(Cell') \in 0 .. 167
        /\ HourOfTheWeek(Field(i).end) \in 0 .. 167
    BY <1>2, <1>3, TimeFacts
  <2> QED
    BY <2>1, Zenon
<1>5. h # e /\ (g = h + 1 \/ (h = 167 /\ g = 0))
    BY <1>2, <1>3, <1>4, TimeFacts
<1>6. /\ HoursLeft = IF h <= e THEN e - h ELSE e + 168 - h
      /\ HoursLeft' = IF g <= e THEN e - g ELSE e + 168 - g
    BY <1>1, <1>4 DEF HoursLeft, DaysPerWeek, HoursPerDay
<1>7. CASE h = 167 /\ g = 0
  <2>1. HoursLeft = e + 168 - 167 /\ HoursLeft' = e - 0 /\ e \in 0 .. 166
    BY <1>5, <1>6, <1>7
  <2> QED
    BY <2>1
<1>8. CASE g = h + 1
  <2>1. CASE h < e
    <3>1. HoursLeft = e - h /\ HoursLeft' = e - (h + 1)
      BY <1>6, <1>8, <2>1
    <3> QED
      BY <2>1, <3>1
  <2>2. CASE h > e
    <3>1. HoursLeft = e + 168 - h /\ HoursLeft' = e + 168 - (h + 1)
      BY <1>6, <1>8, <2>2
    <3> QED
      BY <2>2, <3>1
  <2> QED
    BY <1>5, <2>1, <2>2
<1> QED
    BY <1>5, <1>7, <1>8

LEMMA EveryStepClosesIn == IInv /\ [Next]_vars => [CloserToItsEnd]_vars
<1> SUFFICES ASSUME IInv, Next
             PROVE  CloserToItsEnd
    OBVIOUS
<1>1. i \in Nat /\ NumberOfFields \in Nat
    BY RowFacts DEF IInv, TypeOK, NumberOfFields, NumberOfFlags
<1>2. ASSUME StartWalk
      PROVE  FieldsLeft > 0 /\ FieldsLeft' = FieldsLeft
    BY <1>1, <1>2 DEF StartWalk, FieldsLeft, NumberOfFields
<1>3. ASSUME Walk
      PROVE  FieldsLeft' = FieldsLeft /\ HoursLeft \in 1 .. 167 /\ HoursLeft' = HoursLeft - 1
    BY <1>3, WalkClosesIn DEF Walk, FieldsLeft, NumberOfFields
<1>4. ASSUME EndWalk
      PROVE  FieldsLeft > 0 /\ FieldsLeft' = FieldsLeft - 1
  <2>1. i < NumberOfFields
    BY <1>4 DEF IInv, FieldInv, EndWalk
  <2>2. NumberOfFields' = NumberOfFields /\ i' = i + 1
    BY <1>4 DEF EndWalk, NumberOfFields
  <2> QED
    BY <1>1, <2>1, <2>2 DEF FieldsLeft
<1> QED
    BY <1>2, <1>3, <1>4 DEF CloserToItsEnd

\* No walk passes its interval's end: each of its steps brings it one hour nearer,
\* and the end of a walk leaves one field fewer.  With a script that keeps running
\* this is why WalksEnd holds, for every table.
THEOREM WalksComeToTheirEnd == Spec => WalksCloseIn
    BY Invariance, EveryStepClosesIn, PTL DEF Spec, WalksCloseIn
==============================================================================

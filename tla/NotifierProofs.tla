---------------------------- MODULE NotifierProofs ----------------------------
(***************************************************************************)
(* The safety of Notifier for any contents of the database, any number of  *)
(* texts that wait and any number of the operator's transactions.          *)
(***************************************************************************)
EXTENDS Notifier, SequenceTheorems, TLAPS

\* mLight stands for the demands; the pin follows it, but for a program started
\* on a lit pin.
LightInv ==
    /\ mLight = (mDoorSwitch \/ mLightOverride)
    /\ at = "down" => ~mLight
    /\ at # "down" => gpioLight = mLight \/ (kept /\ gpioLight /\ ~mLight)

\* A check begins at the first row; while recipients are read, the statement that
\* matched keeps the database as it was decided on.
AlertInv ==
    /\ at = "alwaysOn" => cursor["alwaysOn"] = 0
    /\ at = "coverage" => cursor["coverage"] = 0
    /\ at \in {"alwaysOn", "coverage"} => texts = {} /\ emails = {}
    /\ at \in {"sms", "email"} =>
          /\ cursor["alwaysOn"] # 0 \/ cursor["coverage"] # 0
          /\ decidedOn = db
    /\ at = "sms" =>
          /\ texts = {row \in 1 .. cursor["sms"] : db.sms[row]}
          /\ emails = {}
    /\ at = "email" => emails = {row \in 1 .. cursor["email"] : db.email[row]}

IInv == TypeOK /\ LightInv /\ AlertInv

------------------------------------------------------------------------------
\* What the operator leaves are tables.
LEMMA Tables ==
    ASSUME NEW d \in Contents
    PROVE  /\ d.intervals \in Seq(CoverageIntervals)
           /\ d.sms \in Seq(BOOLEAN)
           /\ d.email \in Seq(BOOLEAN)
           /\ DOMAIN d.intervals = 1 .. Len(d.intervals) /\ Len(d.intervals) \in Nat
           /\ DOMAIN d.sms = 1 .. Len(d.sms) /\ Len(d.sms) \in Nat
           /\ DOMAIN d.email = 1 .. Len(d.email) /\ Len(d.email) \in Nat
BY ContentsAssumption

\* Clearing puts the statements of the places before their first row and leaves
\* the others where they are.
LEMMA Clearing ==
    ASSUME TypeOK, NEW places
    PROVE  /\ Reset(places) \in [Selects -> Nat]
           /\ \A s \in Selects : Reset(places)[s] \in {0, cursor[s]}
           /\ \A s \in Selects : s \in places => Reset(places)[s] = 0
<1>1. cursor \in [Selects -> Nat]
    BY DEF TypeOK
<1>2. \A s \in Selects : SelectAt(s) = s
    BY DEF Selects, SelectAt
<1> QED
    BY <1>1, <1>2 DEF Reset

\* A cursor is within its table as long as that table stays as it is.
CursorsOK(c, d) ==
    /\ c \in [Selects -> Nat]
    /\ c["alwaysOn"] \in {0, 1}
    /\ c["coverage"] \in 0 .. Len(d.intervals)
    /\ c["sms"] \in 0 .. Len(d.sms)
    /\ c["email"] \in 0 .. Len(d.email)

LEMMA ClearedCursors ==
    ASSUME TypeOK, NEW places
    PROVE  CursorsOK(Reset(places), db)
<1>1. CursorsOK(cursor, db)
    BY DEF TypeOK, CursorsOK
<1>2. \A s \in Selects : Reset(places)[s] \in {0, cursor[s]}
    BY Clearing
<1>3. Len(db.intervals) \in Nat /\ Len(db.sms) \in Nat /\ Len(db.email) \in Nat
    BY Tables DEF TypeOK
<1> QED
    BY <1>1, <1>2, <1>3, Clearing DEF CursorsOK, Selects

\* The types, but for the cursors.
PlainOK ==
    /\ Control!TypeOK
    /\ db \in Contents
    /\ writer \in {"none", "reserved", "pending"}
    /\ writes \in Nat
    /\ at \in Places
    /\ iValue \in BOOLEAN
    /\ wNow \in Moments
    /\ mSmsQueue \in Seq(Nat)
    /\ sms \in {"starting", "idle", "curl"}
    /\ sms = "curl" => mSmsQueue # <<>>
    /\ texts \subseteq Nat
    /\ emails \subseteq Nat
    /\ decidedOn \in Contents
    /\ failed \in BOOLEAN
    /\ kept \in BOOLEAN

LEMMA TypeParts == TypeOK <=> PlainOK /\ CursorsOK(cursor, db)
BY DEF TypeOK, PlainOK, CursorsOK

LEMMA TypePartsNext == PlainOK' /\ CursorsOK(cursor', db') => TypeOK'
BY DEF TypeOK, PlainOK, CursorsOK

\* Where the worker goes is a place.
LEMMA AfterIsAPlace ==
    /\ "constructing" \in Places /\ "idle" \in Places
    /\ "notify" \in Places /\ "down" \in Places
    /\ "alwaysOn" \in Places /\ "update" \in Places
    /\ "coverage" \in Places /\ "sms" \in Places /\ "email" \in Places
    /\ \A place \in Queries : After[place] \in Places
    /\ After["sms"] = "email"
    /\ After["email"] = "notify"
    /\ After["alwaysOn"] = "coverage"
    /\ After["coverage"] = "notify"
BY DEF After, Queries, Places

------------------------------------------------------------------------------
LEMMA InitInv == Init => IInv
<1> SUFFICES ASSUME Init PROVE IInv
    OBVIOUS
<1>0. Control!TypeOK
    BY DEF Init, Control!Init, Control!TypeOK
<1>1. PlainOK
  <2>1. at \in Places /\ mSmsQueue \in Seq(Nat)
    BY AfterIsAPlace DEF Init
  <2>2. db \in Contents /\ decidedOn \in Contents /\ wNow \in Moments
    BY DEF Init
  <2>3. texts \subseteq Nat /\ emails \subseteq Nat
    BY DEF Init
  <2>4. iValue \in BOOLEAN /\ failed \in BOOLEAN /\ kept \in BOOLEAN /\ writes \in Nat
    BY DEF Init
  <2> QED
    BY <1>0, <2>1, <2>2, <2>3, <2>4 DEF Init, PlainOK
<1>2. CursorsOK(cursor, db)
    BY Tables DEF Init, CursorsOK, Selects
<1>3. LightInv
    BY DEF Init, LightInv, Control!Init
<1>4. AlertInv
    BY DEF Init, AlertInv
<1> QED
    BY <1>1, <1>2, <1>3, <1>4, TypeParts DEF IInv

------------------------------------------------------------------------------
\* What most steps leave alone.

Quiet == Places \ {"alwaysOn", "coverage", "sms", "email", "down"}

LEMMA QuietPlaces ==
    /\ Quiet \subseteq Places
    /\ {"constructing", "idle", "notify", "update", "tellFlag", "tellIntervals"} \subseteq Quiet
BY DEF Quiet, Places, Queries, After

LEMMA LightKept ==
    ASSUME LightInv, UNCHANGED control, at # "down", at' # "down"
    PROVE  LightInv'
BY DEF LightInv, control

LEMMA AlertOver ==
    ASSUME at' \in Quiet \cup {"down"}
    PROVE  AlertInv'
BY DEF AlertInv, Quiet

\* A step that leaves the control, the database, the cursors and the texts.
LEMMA StepToQuiet ==
    ASSUME IInv, at # "down", at' \in Quiet, CursorsOK(cursor', db'),
           UNCHANGED <<control, database, wNow, smsVars, alert>>,
           iValue' \in BOOLEAN, failed' \in BOOLEAN
    PROVE  IInv'
<1>1. PlainOK'
    BY QuietPlaces, TypeParts
       DEF IInv, PlainOK, control, database, smsVars, alert, Control!TypeOK
<1>2. LightInv'
    BY LightKept DEF IInv, Quiet
<1> QED
    BY <1>1, <1>2, AlertOver, TypePartsNext DEF IInv

LEMMA MovedStep ==
    ASSUME IInv, Moved PROVE IInv'
BY StepToQuiet, QuietPlaces, TypeParts DEF Moved, IInv, PlainOK, database
\* Where the end of the rows takes the worker, and what it clears.
LEMMA EndOfRowsFacts ==
    ASSUME TypeOK, at \in Queries, EndOfRows, UNCHANGED db
    PROVE  /\ CursorsOK(cursor', db')
           /\ at' \in Quiet \/ (at = "alwaysOn" /\ at' = "coverage")
                            \/ (at = "sms" /\ at' = "email")
           /\ \A s \in Selects : cursor'[s] \in {0, cursor[s]}
           /\ \A s \in Selects : s \notin {SelectAt(at), SelectAt(After[at])} => cursor'[s] = cursor[s]
           /\ at' \in Selects => cursor'[at'] = 0
<1>1. CursorsOK(cursor', db')
    BY ClearedCursors DEF EndOfRows
<1>2. at' \in Quiet \/ (at = "alwaysOn" /\ at' = "coverage")
                   \/ (at = "sms" /\ at' = "email")
    BY DEF EndOfRows, Queries, After, Quiet, Places
<1>3. \A s \in Selects : cursor'[s] \in {0, cursor[s]}
    BY Clearing DEF EndOfRows
<1>4. at' \in Selects => cursor'[at'] = 0
    BY Clearing DEF EndOfRows
<1>5. \A s \in Selects : s \notin {SelectAt(at), SelectAt(After[at])} => cursor'[s] = cursor[s]
    BY DEF EndOfRows, Reset, TypeOK
<1> QED
    BY <1>1, <1>2, <1>3, <1>4, <1>5

LEMMA QuietItemStep ==
    ASSUME IInv, GetStatus \/ \E value \in BOOLEAN : CoverageAlwaysOn(value)
    PROVE  IInv'
<1>1. /\ at # "down" /\ at' \in Quiet /\ iValue' \in BOOLEAN /\ failed' \in BOOLEAN
      /\ UNCHANGED <<control, database, wNow, smsVars, alert, cursor>>
    BY QuietPlaces, TypeParts DEF GetStatus, CoverageAlwaysOn, IInv, PlainOK
<1>2. CursorsOK(cursor', db')
    BY <1>1, TypeParts DEF IInv, database
<1> QED
    BY <1>1, <1>2, StepToQuiet

LEMMA NotifyStep ==
    ASSUME IInv, Notify
    PROVE  IInv'
<1>1. /\ at # "down" /\ at' \in Quiet /\ iValue' \in BOOLEAN /\ failed' \in BOOLEAN
      /\ UNCHANGED <<control, database, wNow, smsVars, alert>>
    BY QuietPlaces, TypeParts DEF Notify, IInv, PlainOK
<1>2. CursorsOK(cursor', db')
    BY <1>1, TypeParts, ClearedCursors DEF IInv, database, Notify
<1> QED
    BY <1>1, <1>2, StepToQuiet

LEMMA UpdateStep ==
    ASSUME IInv, Update
    PROVE  IInv'
<1>1. /\ at = "update" /\ at' = "notify" /\ EndOfRows
      /\ UNCHANGED <<control, db, writer, writes, iValue, wNow, smsVars, alert, failed>>
      /\ coverageAlwaysOn' = iValue
    BY AfterIsAPlace DEF Update, EndOfRows, Control!CoverageAlwaysOn, control, After
<1>2. PlainOK'
    BY <1>1, AfterIsAPlace, TypeParts
       DEF IInv, PlainOK, control, smsVars, alert, Control!TypeOK
<1>3. CursorsOK(cursor', db')
    BY <1>1, ClearedCursors DEF IInv, EndOfRows
<1>4. LightInv' /\ AlertInv'
    BY <1>1, LightKept, AlertOver, QuietPlaces DEF IInv
<1> QED
    BY <1>2, <1>3, <1>4, TypePartsNext DEF IInv

\* A query that is over: the other query of the check, or the other recipients,
\* begin anew, and the statement that matched stays where it is.
LEMMA EndOfRowsStep ==
    ASSUME IInv, at \in Queries, EndOfRows, failed' \in BOOLEAN,
           UNCHANGED <<control, database, iValue, wNow, smsVars, alert>>
    PROVE  IInv'
<1>1. /\ CursorsOK(cursor', db')
      /\ at # "down"
      /\ iValue' \in BOOLEAN
    BY EndOfRowsFacts, TypeParts DEF IInv, PlainOK, database, Queries, After
<1>2. CASE at' \in Quiet
    BY <1>1, <1>2, StepToQuiet
<1>3. CASE at' \in {"coverage", "email"}
  <2>1. PlainOK'
      BY <1>3, AfterIsAPlace, TypeParts
         DEF IInv, PlainOK, control, database, smsVars, alert, Control!TypeOK
  <2>2. LightInv'
      BY <1>1, <1>3, LightKept DEF IInv
  <2>3. at \in {"alwaysOn", "sms"} /\ (at = "alwaysOn" <=> at' = "coverage")
      BY <1>3, EndOfRowsFacts, QuietPlaces DEF IInv, Quiet, database
  <2>4. /\ at' = "coverage" => cursor'["coverage"] = 0
        /\ at' = "email" => cursor'["email"] = 0
      BY <1>3, EndOfRowsFacts DEF IInv, Selects, database
  <2>5. at = "sms" => /\ cursor'["alwaysOn"] = cursor["alwaysOn"]
                      /\ cursor'["coverage"] = cursor["coverage"]
      BY EndOfRowsFacts DEF IInv, Selects, SelectAt, After, database
  <2>6. AlertInv'
      BY <1>3, <2>3, <2>4, <2>5 DEF IInv, AlertInv, alert, database
  <2> QED
      BY <1>1, <2>1, <2>2, <2>6, TypePartsNext DEF IInv
<1> QED
    BY <1>2, <1>3, EndOfRowsFacts DEF IInv, database

LEMMA QueryOverStep ==
    ASSUME IInv, StatementFails \/ Tell \/ NoMoreRows
    PROVE  IInv'
<1>1. CASE StatementFails
    BY <1>1, EndOfRowsStep DEF StatementFails
<1>2. CASE Tell \/ NoMoreRows
  <2>1. at \in Queries
      BY <1>2 DEF Tell, NoMoreRows, Queries, After
  <2>2. failed' \in BOOLEAN
      BY <1>2, TypeParts DEF Tell, NoMoreRows, IInv, PlainOK
  <2> QED
      BY <1>2, <2>1, <2>2, EndOfRowsStep DEF Tell, NoMoreRows
<1> QED
    BY <1>1, <1>2

------------------------------------------------------------------------------
\* The first row that matches, if there is one.
LEMMA CheckStep ==
    ASSUME IInv, NEW place \in {"alwaysOn", "coverage"}, NEW matching,
           matching \subseteq 1 .. (IF place = "alwaysOn" THEN 1 ELSE Len(db.intervals)),
           Check(place, matching)
    PROVE  IInv'
<1> DEFINE ahead == {row \in matching : row > cursor[place]}
<1>1. CASE ahead = {}
  <2>1. EndOfRows /\ UNCHANGED <<control, database, iValue, wNow, smsVars, alert, failed>>
      BY <1>1 DEF Check, alert
  <2>2. at \in Queries /\ failed' \in BOOLEAN
      BY <2>1, TypeParts DEF Check, Queries, After, IInv, PlainOK
  <2> QED
      BY <2>1, <2>2, EndOfRowsStep
<1>2. CASE ahead # {}
  <2>1. /\ at = place
        /\ UNCHANGED <<control, database, iValue, wNow, smsVars, texts, emails, failed>>
        /\ at' = "sms"
        /\ decidedOn' = db
      BY <1>2 DEF Check
  <2>2. PICK row \in ahead :
            cursor' = [cursor EXCEPT ![place] = row, !["sms"] = 0]
      BY <1>2 DEF Check
  <2>3. CursorsOK(cursor, db) /\ Len(db.intervals) \in Nat /\ Len(db.sms) \in Nat
      BY TypeParts, Tables DEF IInv, PlainOK
  <2>4. row \in Nat /\ row # 0 /\ row <= IF place = "alwaysOn" THEN 1 ELSE Len(db.intervals)
      BY <2>2, <2>3
  <2>5. /\ CursorsOK(cursor', db')
        /\ cursor'[place] # 0
        /\ cursor'["sms"] = 0
      BY <2>1, <2>2, <2>3, <2>4 DEF CursorsOK, Selects, database
  <2>6. PlainOK'
      BY <2>1, AfterIsAPlace, TypeParts
         DEF IInv, PlainOK, control, database, smsVars, Control!TypeOK
  <2>7. LightInv'
      BY <2>1, LightKept DEF IInv
  <2>8. AlertInv'
      BY <2>1, <2>5 DEF IInv, AlertInv, database
  <2> QED
      BY <2>5, <2>6, <2>7, <2>8, TypePartsNext DEF IInv
<1> QED
    BY <1>1, <1>2

LEMMA CheckAlwaysOnStep ==
    ASSUME IInv, CheckAlwaysOn
    PROVE  IInv'
BY CheckStep DEF CheckAlwaysOn

LEMMA CheckCoverageStep ==
    ASSUME IInv, CheckCoverage
    PROVE  IInv'
<1> DEFINE matching == {row \in DOMAIN db.intervals : Covers(db.intervals[row], wNow)}
<1>1. matching \subseteq 1 .. Len(db.intervals)
    BY Tables, TypeParts DEF IInv, PlainOK
<1>2. Check("coverage", matching)
    BY DEF CheckCoverage
<1> QED
    BY <1>1, <1>2, CheckStep
\* An opening begins its check with its query cleared.
LEMMA DoorOpensStep ==
    ASSUME IInv, DoorOpens
    PROVE  IInv'
<1>1. /\ Control!TypeOK' /\ coverageAlwaysOn' = coverageAlwaysOn
      /\ mDoorSwitch' /\ mLight' /\ (gpioLight' = IF mLight THEN gpioLight ELSE TRUE)
    BY DEF DoorOpens, Control!DoorSwitch, Control!LightOn, Control!TypeOK, IInv, TypeOK
<1>2. PlainOK'
    BY <1>1, AfterIsAPlace, TypeParts DEF DoorOpens, IInv, PlainOK, smsVars
<1>3. CursorsOK(cursor', db')
    BY ClearedCursors DEF DoorOpens, IInv
<1>4. LightInv'
    BY <1>1 DEF DoorOpens, IInv, LightInv, TypeOK, Control!TypeOK
<1>5. cursor'["alwaysOn"] = 0
    BY Clearing DEF DoorOpens, IInv, Selects
<1>6. AlertInv'
    BY <1>5 DEF DoorOpens, AlertInv
<1> QED
    BY <1>2, <1>3, <1>4, <1>6, TypePartsNext DEF IInv

\* Closing the door and the override touch the light, and the alert not.
LEMMA LightItemStep ==
    ASSUME IInv, DoorCloses \/ \E value \in BOOLEAN : LightOverride(value)
    PROVE  IInv'
<1>1. /\ at = "idle" /\ at' = "notify"
      /\ UNCHANGED <<db, writer, writes, iValue, wNow, cursor, smsVars, alert, failed>>
    BY DEF DoorCloses, LightOverride
<1>2. Control!TypeOK /\ LightInv /\ kept \in BOOLEAN
    BY DEF IInv, TypeOK
<1>3. ASSUME DoorCloses PROVE Control!TypeOK' /\ kept' \in BOOLEAN /\ LightInv'
  <2>1. Control!TypeOK' /\ kept' \in BOOLEAN
      BY <1>2, <1>3 DEF DoorCloses, Control!DoorSwitch, Control!LightOn, Control!LightOff, Control!TypeOK
  <2>2. LightInv'
      BY <1>1, <1>2, <1>3
         DEF DoorCloses, Control!DoorSwitch, Control!LightOn, Control!LightOff, Control!TypeOK, LightInv
  <2> QED
      BY <2>1, <2>2
<1>4. ASSUME NEW value \in BOOLEAN, LightOverride(value)
      PROVE  Control!TypeOK' /\ kept' \in BOOLEAN /\ LightInv'
  <2>1. Control!TypeOK' /\ kept' \in BOOLEAN
      BY <1>2, <1>4 DEF LightOverride, Control!LightOverride, Control!LightOn, Control!LightOff, Control!TypeOK
  <2>2. LightInv'
      BY <1>1, <1>2, <1>4
         DEF LightOverride, Control!LightOverride, Control!LightOn, Control!LightOff, Control!TypeOK, LightInv
  <2> QED
      BY <2>1, <2>2
<1>5. PlainOK'
    BY <1>1, <1>3, <1>4, AfterIsAPlace, TypeParts DEF IInv, PlainOK, smsVars, alert
<1>6. CursorsOK(cursor', db')
    BY <1>1, TypeParts DEF IInv
<1> QED
    BY <1>1, <1>3, <1>4, <1>5, <1>6, AlertOver, QuietPlaces, TypePartsNext DEF IInv

\* The next row of the recipients is read: those before it have been seen to.
LEMMA RowStep ==
    ASSUME IInv, NEW place \in {"sms", "email"}, NextRow(place)
    PROVE  /\ CursorsOK(cursor', db')
           /\ cursor[place] \in Nat /\ cursor'[place] = cursor[place] + 1
           /\ cursor'[place] \in 1 .. Len(db[place])
           /\ \A s \in Selects \ {place} : cursor'[s] = cursor[s]
           /\ LightInv'
<1>1. CursorsOK(cursor, db) /\ Len(db.sms) \in Nat /\ Len(db.email) \in Nat
    BY TypeParts, Tables DEF IInv, PlainOK
<1>2. /\ at = place /\ cursor[place] < Len(db[place])
      /\ cursor' = [cursor EXCEPT ![place] = @ + 1]
      /\ UNCHANGED <<control, db, at>>
    BY DEF NextRow, database
<1>3. cursor[place] \in Nat /\ Len(db[place]) \in Nat
    BY <1>1 DEF CursorsOK, Selects
<1>4. /\ CursorsOK(cursor', db')
      /\ cursor'[place] = cursor[place] + 1
      /\ \A s \in Selects \ {place} : cursor'[s] = cursor[s]
    BY <1>1, <1>2, <1>3 DEF CursorsOK, Selects
<1>5. LightInv'
    BY <1>2, LightKept DEF IInv
<1> QED
    BY <1>2, <1>3, <1>4, <1>5

\* One more row is the rows so far and it.
LEMMA RowsSoFar ==
    ASSUME NEW n \in Nat, NEW enabled
    PROVE  {row \in 1 .. n + 1 : enabled[row]} =
              {row \in 1 .. n : enabled[row]} \cup {row \in {n + 1} : enabled[row]}
OBVIOUS

LEMMA TextStep ==
    ASSUME IInv, Text
    PROVE  IInv'
<1> DEFINE next == cursor["sms"] + 1
<1>1. NextRow("sms")
    BY DEF Text
<1>2. /\ CursorsOK(cursor', db')
      /\ cursor["sms"] \in Nat /\ cursor'["sms"] = next
      /\ next \in 1 .. Len(db["sms"])
      /\ cursor'["alwaysOn"] = cursor["alwaysOn"]
      /\ cursor'["coverage"] = cursor["coverage"]
      /\ LightInv'
    BY <1>1, RowStep DEF Selects
<1>3. /\ at = "sms"
      /\ UNCHANGED <<control, database, at, iValue, wNow, decidedOn, failed, sms, emails>>
    BY DEF Text, NextRow
<1>4. texts' = texts \cup {row \in {next} : db.sms[row]}
  <2>1. \/ db.sms[next] /\ texts' = texts \cup {next}
        \/ ~db.sms[next] /\ texts' = texts
      BY DEF Text
  <2> QED
      BY <2>1
<1>5. mSmsQueue' \in Seq(Nat) /\ (sms = "curl" => mSmsQueue' = mSmsQueue)
  <2>1. /\ mSmsQueue \in Seq(Nat) /\ next \in Nat
        /\ \/ sms # "curl" /\ mSmsQueue' = Append(mSmsQueue, next)
           \/ mSmsQueue' = mSmsQueue
      BY <1>2, TypeParts DEF Text, IInv, PlainOK
  <2> QED
      BY <2>1, AppendProperties
<1>6. texts' \subseteq Nat
    BY <1>2, <1>4, TypeParts DEF IInv, PlainOK
<1>7. PlainOK'
    BY <1>3, <1>5, <1>6, TypeParts DEF IInv, PlainOK, control, database, Control!TypeOK
<1>8. texts' = {row \in 1 .. next : db.sms[row]}
    BY <1>2, <1>3, <1>4, RowsSoFar DEF IInv, AlertInv
<1>9. AlertInv'
    BY <1>2, <1>3, <1>8 DEF IInv, AlertInv, database
<1> QED
    BY <1>2, <1>7, <1>9, TypePartsNext DEF IInv

LEMMA EmailStep ==
    ASSUME IInv, Email
    PROVE  IInv'
<1> DEFINE next == cursor["email"] + 1
<1>1. NextRow("email")
    BY DEF Email
<1>2. /\ CursorsOK(cursor', db')
      /\ cursor["email"] \in Nat /\ cursor'["email"] = next
      /\ cursor'["alwaysOn"] = cursor["alwaysOn"]
      /\ cursor'["coverage"] = cursor["coverage"]
      /\ LightInv'
    BY <1>1, RowStep DEF Selects
<1>3. /\ at = "email"
      /\ UNCHANGED <<control, database, at, iValue, wNow, decidedOn, failed, smsVars, texts>>
    BY DEF Email, NextRow
<1>4. emails' = emails \cup {row \in {next} : db.email[row]}
    BY DEF Email
<1>5. emails' \subseteq Nat
    BY <1>2, <1>4, TypeParts DEF IInv, PlainOK
<1>6. PlainOK'
    BY <1>3, <1>5, TypeParts DEF IInv, PlainOK, control, database, smsVars, Control!TypeOK
<1>7. emails' = {row \in 1 .. next : db.email[row]}
    BY <1>2, <1>3, <1>4, RowsSoFar DEF IInv, AlertInv
<1>8. AlertInv'
    BY <1>2, <1>3, <1>7 DEF IInv, AlertInv, database
<1> QED
    BY <1>2, <1>6, <1>8, TypePartsNext DEF IInv
------------------------------------------------------------------------------
\* The end of the program loses what it had in memory, and not the pin.
LEMMA EndsStep ==
    ASSUME IInv, Ends
    PROVE  IInv'
<1>1. PlainOK'
  <2>1. Control!TypeOK'
      BY DEF Ends, IInv, TypeOK, Control!TypeOK, database
  <2>2. mSmsQueue' \in Seq(Nat) /\ sms' = "starting"
      BY DEF Ends
  <2> QED
      BY <2>1, <2>2, AfterIsAPlace, TypeParts DEF Ends, IInv, PlainOK, database, alert
<1>2. CursorsOK(cursor', db')
    BY TypeParts, Tables DEF Ends, IInv, PlainOK, CursorsOK, Selects, database
<1>3. LightInv'
    BY DEF Ends, LightInv
<1> QED
    BY <1>1, <1>2, <1>3, AlertOver, TypePartsNext DEF IInv, Ends

LEMMA RestartStep ==
    ASSUME IInv, Restart
    PROVE  IInv'
<1>1. /\ at = "down" /\ at' = "constructing"
      /\ \/ gpioLight' = FALSE /\ kept' = FALSE
         \/ gpioLight' = gpioLight /\ kept' = gpioLight
      /\ UNCHANGED <<mDoorSwitch, mLight, mLightOverride, database, iValue, wNow,
                     cursor, smsVars, alert, failed>>
    BY DEF Restart
<1>2. PlainOK'
  <2>1. Control!TypeOK' /\ kept' \in BOOLEAN
      BY <1>1 DEF IInv, TypeOK, Control!TypeOK, database
  <2> QED
      BY <1>1, <2>1, AfterIsAPlace, TypeParts DEF IInv, PlainOK, database, alert, smsVars
<1>3. CursorsOK(cursor', db')
    BY <1>1, TypeParts DEF IInv, database
<1>4. LightInv'
    BY <1>1 DEF IInv, LightInv, TypeOK, Control!TypeOK
<1> QED
    BY <1>1, <1>2, <1>3, <1>4, AlertOver, QuietPlaces, TypePartsNext DEF IInv

\* mSmsSender's thread leaves the worker and the database alone.
LEMMA SmsThreadStep ==
    ASSUME IInv, SmsThread
    PROVE  IInv'
<1>1. CASE SmsThreadStarts /\ Ends
    BY <1>1, EndsStep
<1>2. ASSUME \/ SmsThreadStarts /\ ~Ends
             \/ CurlStarts
             \/ CurlEnds
      PROVE  IInv'
  <2>1. UNCHANGED <<control, database, at, iValue, wNow, cursor, alert, failed>>
      BY <1>2 DEF SmsThreadStarts, CurlStarts, CurlEnds
  <2>2. mSmsQueue \in Seq(Nat) /\ (sms = "curl" => mSmsQueue # <<>>)
      BY DEF IInv, TypeOK
  <2>3. \/ sms' = "idle" /\ mSmsQueue' = mSmsQueue
        \/ sms' = "curl" /\ mSmsQueue' = mSmsQueue /\ mSmsQueue # <<>>
        \/ sms' = "idle" /\ mSmsQueue' = Tail(mSmsQueue) /\ mSmsQueue # <<>>
      BY <1>2, <2>2 DEF SmsThreadStarts, CurlStarts, CurlEnds
  <2>4. /\ mSmsQueue' \in Seq(Nat) /\ sms' \in {"idle", "curl"}
        /\ sms' = "curl" => mSmsQueue' # <<>>
      BY <2>2, <2>3, HeadTailProperties, EmptySeq
  <2>5. PlainOK'
      BY <2>1, <2>4, TypeParts DEF IInv, PlainOK, control, database, alert, Control!TypeOK
  <2>6. CursorsOK(cursor', db')
      BY <2>1, TypeParts DEF IInv, database
  <2>7. LightInv' /\ AlertInv'
      BY <2>1 DEF IInv, LightInv, AlertInv, control, database, alert
  <2> QED
      BY <2>5, <2>6, <2>7, TypePartsNext DEF IInv
<1> QED
    BY <1>1, <1>2 DEF SmsThread

\* While a statement has stopped on a row, the operator's transaction waits.
LEMMA WriterStaysOut ==
    ASSUME IInv, ~SharedLock, NEW d \in Contents
    PROVE  CursorsOK(cursor, d) /\ at \notin {"sms", "email"}
<1>1. \A s \in Selects : cursor[s] = 0
    BY DEF SharedLock
<1>2. cursor["alwaysOn"] = 0 /\ cursor["coverage"] = 0 /\ cursor["sms"] = 0 /\ cursor["email"] = 0
    BY <1>1 DEF Selects
<1> QED
    BY <1>2, Tables DEF IInv, TypeOK, CursorsOK, AlertInv

LEMMA OperatorStep ==
    ASSUME IInv, WriterBegins \/ WriterWaits \/ WriterCommits \/ WriterGivesUp
    PROVE  IInv'
<1>1. /\ UNCHANGED <<control, at, iValue, wNow, cursor, smsVars, alert, failed>>
      /\ writer' \in {"none", "reserved", "pending"}
    BY DEF WriterBegins, WriterWaits, WriterCommits, WriterGivesUp, WriterStep
<1>2. writes' \in Nat /\ coverageAlwaysOn' \in BOOLEAN
    BY TypeParts
       DEF WriterBegins, WriterWaits, WriterCommits, WriterGivesUp, IInv, PlainOK, Control!TypeOK
<1>3. db' = db \/ (~SharedLock /\ db' \in Contents)
    BY DEF WriterBegins, WriterWaits, WriterCommits, WriterGivesUp
<1>4. db' \in Contents
    BY <1>3 DEF IInv, TypeOK
<1>5. PlainOK'
  <2>1. Control!TypeOK'
      BY <1>1, <1>2 DEF IInv, TypeOK, Control!TypeOK, control
  <2> QED
      BY <1>1, <1>2, <1>4, <2>1, TypeParts DEF IInv, PlainOK, control, smsVars, alert
<1>6. CursorsOK(cursor', db')
    BY <1>1, <1>3, WriterStaysOut, TypeParts DEF IInv
<1>7. LightInv'
    BY <1>1 DEF IInv, LightInv, control
<1>8. AlertInv'
    BY <1>1, <1>3, WriterStaysOut DEF IInv, AlertInv, alert
<1> QED
    BY <1>5, <1>6, <1>7, <1>8, TypePartsNext DEF IInv

LEMMA StepInv == IInv /\ [Next]_vars => IInv'
<1>1. ASSUME IInv, UNCHANGED vars PROVE IInv'
  <2>1. PlainOK' /\ CursorsOK(cursor', db')
      BY <1>1, TypeParts
         DEF IInv, PlainOK, vars, control, database, smsVars, alert, Control!TypeOK
  <2>2. LightInv' /\ AlertInv'
      BY <1>1 DEF IInv, LightInv, AlertInv, vars, control, database, smsVars, alert
  <2> QED
      BY <2>1, <2>2, TypePartsNext DEF IInv
<1>2. ASSUME IInv, Item PROVE IInv'
    BY <1>2, DoorOpensStep, LightItemStep, QuietItemStep DEF Item
<1>3. ASSUME IInv, Continues PROVE IInv'
    BY <1>3, MovedStep, CheckAlwaysOnStep, CheckCoverageStep, TextStep, EmailStep,
       QueryOverStep, UpdateStep, NotifyStep DEF Continues
<1>4. ASSUME IInv, StatementThrows \/ Crash PROVE IInv'
    BY <1>4, EndsStep DEF StatementThrows, Crash
<1> QED
    BY <1>1, <1>2, <1>3, <1>4, SmsThreadStep, QueryOverStep, RestartStep, OperatorStep DEF Next

\* Every reachable state satisfies the invariant.
THEOREM Invariance == Spec => []IInv
BY InitInv, StepInv, PTL DEF Spec

\* A statement's cursor is within its table, whatever the operator does, for he is
\* kept out while one is on a row.
THEOREM TypeCorrect == Spec => []TypeOK
<1>1. IInv => TypeOK
    BY DEF IInv
<1> QED
    BY <1>1, Invariance, PTL

\* The light obeys its rule through every crash and restart, but for a program
\* started on a lit pin that it has not switched on since.
THEOREM LightHolds == Spec => []LightAcrossRestarts
<1>1. IInv => LightAcrossRestarts
    BY DEF IInv, LightInv, LightAcrossRestarts, Control!LightRule
<1> QED
    BY <1>1, Invariance, PTL

\* Every check goes by the tables as they are when it reads them.
THEOREM ChecksAreCurrent == Spec => DecisionIsCurrent
<1> DEFINE A == (at \in {"alwaysOn", "coverage"}) /\ at' \notin {at, "down"} /\ ~failed'
                   => (at' = "sms" <=> Decided)
<1>1. IInv /\ [Next]_vars => [A]_vars
  <2> SUFFICES ASSUME IInv, Next, at \in {"alwaysOn", "coverage"},
                      at' \notin {at, "down"}, ~failed'
               PROVE  at' = "sms" <=> Decided
      OBVIOUS
  <2>1. CheckAlwaysOn \/ CheckCoverage
      BY DEF Next, Item, DoorOpens, DoorCloses, GetStatus, LightOverride, CoverageAlwaysOn,
             Continues, Moved, Text, Email, NextRow, NoMoreRows, Update, Notify, Tell,
             SmsThread, SmsThreadStarts, CurlStarts, CurlEnds, Ends,
             StatementFails, StatementThrows, Crash, Restart,
             WriterBegins, WriterWaits, WriterCommits, WriterGivesUp, WriterStep
  <2>2. CASE CheckAlwaysOn
    <3>1. at = "alwaysOn" /\ cursor["alwaysOn"] = 0
        BY <2>2 DEF CheckAlwaysOn, Check, IInv, AlertInv
    <3>2. at' = "sms" <=> coverageAlwaysOn
        BY <2>2, <3>1, AfterIsAPlace DEF CheckAlwaysOn, Check, EndOfRows
    <3> QED
        BY <3>1, <3>2 DEF Decided
  <2>3. CASE CheckCoverage
    <3> DEFINE matching == {row \in DOMAIN db.intervals : Covers(db.intervals[row], wNow)}
    <3>1. at = "coverage" /\ cursor["coverage"] = 0
        BY <2>3 DEF CheckCoverage, Check, IInv, AlertInv
    <3>2. \A row \in matching : row > 0
        BY Tables DEF IInv, TypeOK
    <3>3. at' = "sms" <=> matching # {}
        BY <2>3, <3>1, <3>2, AfterIsAPlace DEF CheckCoverage, Check, EndOfRows
    <3> QED
        BY <3>1, <3>3 DEF Decided, InCoverage
  <2> QED
      BY <2>1, <2>2, <2>3
<1> QED
    BY <1>1, Invariance, PTL DEF Spec, DecisionIsCurrent

\* Each recipient enabled in the database decided on gets a text and an email, and
\* none gets two: those told so far are among the rows passed.
THEOREM AlertsAreWhole == Spec => AlertIsWhole
<1> DEFINE Whole == /\ at = "sms" /\ at' = "email" /\ ~failed' =>
                          texts' = {row \in DOMAIN decidedOn.sms : decidedOn.sms[row]}
                    /\ at = "email" /\ at' = "notify" /\ ~failed' =>
                          emails' = {row \in DOMAIN decidedOn.email : decidedOn.email[row]}
           Once == /\ at = "sms" /\ cursor'["sms"] > cursor["sms"] =>
                          cursor'["sms"] \notin texts
                   /\ at = "email" /\ cursor'["email"] > cursor["email"] =>
                          cursor'["email"] \notin emails
<1>1. IInv /\ [Next]_vars => [Whole]_vars
  <2> SUFFICES ASSUME IInv, Next, ~failed',
                      (at = "sms" /\ at' = "email") \/ (at = "email" /\ at' = "notify")
               PROVE  Whole
      OBVIOUS
  <2>1. NoMoreRows
      BY DEF Next, Item, DoorOpens, DoorCloses, GetStatus, LightOverride, CoverageAlwaysOn,
             Continues, Moved, CheckAlwaysOn, CheckCoverage, Check, Text, Email, NextRow,
             Update, Notify, Tell, SmsThread, SmsThreadStarts, CurlStarts, CurlEnds, Ends,
             StatementFails, StatementThrows, Crash, Restart,
             WriterBegins, WriterWaits, WriterCommits, WriterGivesUp, WriterStep
  <2>2. /\ cursor[at] >= Len(db[at]) /\ decidedOn = db
        /\ texts' = texts /\ emails' = emails
      BY <2>1 DEF NoMoreRows, alert, IInv, AlertInv
  <2>3. /\ cursor["sms"] \in 0 .. Len(db.sms) /\ DOMAIN db.sms = 1 .. Len(db.sms)
        /\ cursor["email"] \in 0 .. Len(db.email) /\ DOMAIN db.email = 1 .. Len(db.email)
        /\ Len(db.sms) \in Nat /\ Len(db.email) \in Nat
      BY Tables DEF IInv, TypeOK
  <2>4. at = "sms" => texts = {row \in DOMAIN db.sms : db.sms[row]}
      BY <2>2, <2>3 DEF IInv, AlertInv
  <2>5. at = "email" => emails = {row \in DOMAIN db.email : db.email[row]}
      BY <2>2, <2>3 DEF IInv, AlertInv
  <2> QED
      BY <2>2, <2>4, <2>5
<1>2. IInv => Once
  <2>1. ASSUME IInv PROVE cursor["sms"] \in Nat /\ cursor["email"] \in Nat
      BY <2>1, Tables DEF IInv, TypeOK
  <2> QED
      BY <2>1 DEF IInv, AlertInv
<1>3. IInv /\ [Next]_vars => [Whole /\ Once]_vars
    BY <1>1, <1>2
<1> QED
    BY <1>3, Invariance, PTL DEF Spec, AlertIsWhole

------------------------------------------------------------------------------
\* Recipients are on a row only while they are told, and before the intervals of a
\* status are read the flag's query has come to its end.
LockInv ==
    /\ at # "sms" => cursor["sms"] = 0
    /\ at # "email" => cursor["email"] = 0
    /\ at = "tellIntervals" => cursor["alwaysOn"] = 0

\* What a query that is over leaves on a row.
LEMMA EndOfRowsClears ==
    ASSUME TypeOK, at \in Queries, EndOfRows, LockInv
    PROVE  LockInv' /\ (at = "tellIntervals" => ~SharedLock')
           /\ (~SharedLock => ~SharedLock')
<1>1. at' = After[at] /\ cursor' = Reset({at, After[at]})
    BY DEF EndOfRows
<1>2. \A s \in Selects : cursor'[s] \in {0, cursor[s]}
    BY <1>1, Clearing
<1>3. \A s \in Selects : s = SelectAt(at) \/ s = SelectAt(After[at]) => cursor'[s] = 0
    BY <1>1 DEF Reset
<1>4. /\ at = "sms" => cursor'["sms"] = 0
      /\ at = "email" => cursor'["email"] = 0
      /\ at = "tellFlag" => cursor'["alwaysOn"] = 0
      /\ at = "tellIntervals" => cursor'["coverage"] = 0
    BY <1>3 DEF SelectAt, Selects
<1>5. /\ at' # "sms"
      /\ at' = "tellIntervals" => at = "tellFlag"
    BY <1>1 DEF Queries, After
<1>6. LockInv'
    BY <1>2, <1>4, <1>5 DEF LockInv, Selects
<1>7. at = "tellIntervals" => ~SharedLock'
    BY <1>2, <1>4 DEF LockInv, SharedLock, Selects
<1>8. ~SharedLock => ~SharedLock'
    BY <1>2 DEF SharedLock
<1> QED
    BY <1>6, <1>7, <1>8

LEMMA LockStep == IInv /\ LockInv /\ [Next]_vars => LockInv'
<1> SUFFICES ASSUME IInv, LockInv, [Next]_vars
             PROVE  LockInv'
    OBVIOUS
<1>0. TypeOK
    BY DEF IInv
<1>1. CASE at' = at /\ cursor' = cursor
    BY <1>1 DEF LockInv
<1>2. CASE DoorOpens
  <2>1. at = "idle" /\ at' = "alwaysOn" /\ cursor' = Reset({"alwaysOn"})
    BY <1>2 DEF DoorOpens
  <2>2. \A s \in Selects : cursor'[s] \in {0, cursor[s]}
    BY <1>0, <2>1, Clearing
  <2> QED
    BY <2>1, <2>2 DEF LockInv, Selects
<1>3. CASE NoMoreRows \/ Update \/ Tell \/ StatementFails
  <2>1. at \in Queries /\ EndOfRows
    BY <1>3 DEF NoMoreRows, Update, Tell, StatementFails, Queries, After
  <2> QED
    BY <1>0, <2>1, EndOfRowsClears
<1>4. CASE CheckAlwaysOn \/ CheckCoverage
  <2>1. PICK place, matching :
            place \in {"alwaysOn", "coverage"} /\ Check(place, matching)
    BY <1>4 DEF CheckAlwaysOn, CheckCoverage
  <2>2. CASE EndOfRows
    BY <1>0, <2>1, <2>2, EndOfRowsClears DEF Check, Queries, After
  <2>3. CASE ~EndOfRows
    <3>1. PICK row : cursor' = [cursor EXCEPT ![place] = row, !["sms"] = 0]
      BY <2>1, <2>3 DEF Check
    <3>2. at = place /\ at' = "sms" /\ cursor \in [Selects -> Nat]
      BY <1>0, <2>1, <2>3 DEF Check, TypeOK
    <3>3. cursor'["email"] = cursor["email"]
      BY <2>1, <3>1, <3>2 DEF Selects
    <3> QED
      BY <2>1, <3>2, <3>3 DEF LockInv
  <2> QED
    BY <2>2, <2>3
<1>5. CASE Text \/ Email
  <2>1. PICK place \in {"sms", "email"} : NextRow(place)
    BY <1>5 DEF Text, Email
  <2>2. at = place /\ at' = at /\ \A s \in Selects \ {place} : cursor'[s] = cursor[s]
    BY <2>1, RowStep DEF NextRow
  <2> QED
    BY <2>1, <2>2 DEF LockInv, Selects
<1>6. CASE Notify
  <2>1. /\ at = "notify" /\ at' \in {"idle", "tellFlag"}
        /\ cursor' = cursor \/ cursor' = Reset({"tellFlag"})
    BY <1>6 DEF Notify
  <2>2. \A s \in Selects : cursor'[s] \in {0, cursor[s]}
    BY <1>0, <2>1, Clearing
  <2> QED
    BY <2>1, <2>2 DEF LockInv, Selects
<1>7. CASE Ends
    BY <1>7 DEF Ends, LockInv, Selects
<1>8. CASE Moved \/ Restart \/ DoorCloses \/ GetStatus
           \/ \E value \in BOOLEAN : LightOverride(value) \/ CoverageAlwaysOn(value)
  <2>1. /\ at \in {"constructing", "down", "idle"} /\ cursor' = cursor
        /\ at' \in {"idle", "constructing", "notify", "update"}
    BY <1>8 DEF Moved, Restart, DoorCloses, GetStatus, LightOverride, CoverageAlwaysOn
  <2> QED
    BY <2>1 DEF LockInv
<1>9. CASE UNCHANGED vars \/ SmsThread \/ WriterBegins \/ WriterWaits \/ WriterCommits
           \/ WriterGivesUp
  <2>1. Ends \/ (at' = at /\ cursor' = cursor)
    BY <1>9 DEF vars, SmsThread, SmsThreadStarts, CurlStarts, CurlEnds, WriterBegins,
                WriterWaits, WriterCommits, WriterGivesUp, WriterStep
  <2> QED
    BY <1>1, <1>7, <2>1
<1> QED
    BY <1>2, <1>3, <1>4, <1>5, <1>6, <1>7, <1>8, <1>9
       DEF Next, Item, Continues, StatementThrows, Crash

\* The shared lock is taken out of a query by the decision to alert and by nothing
\* else, and no status is told that leaves it taken: only between an alert and the
\* next status can a writer be kept waiting by a worker that is doing nothing.
THEOREM LocksAreFromAlerts == Spec => LockFromAlertToStatus
<1> DEFINE A == /\ ~SharedLock /\ SharedLock' => at' = "sms"
                /\ at = "tellIntervals" /\ at' # at => ~SharedLock'
<1>1. IInv /\ LockInv /\ [Next]_vars => [A]_vars
  <2> SUFFICES ASSUME IInv, LockInv, Next PROVE A
    OBVIOUS
  <2>0. TypeOK
    BY DEF IInv
  <2>1. CASE at \in Queries /\ EndOfRows
    BY <2>0, <2>1, EndOfRowsClears
  <2>2. CASE Ends
    BY <2>2 DEF Ends, SharedLock
  <2>3. CASE DoorOpens \/ Notify
    <3>1. /\ at # "tellIntervals"
          /\ \/ cursor' = cursor \/ cursor' = Reset({"alwaysOn"})
             \/ cursor' = Reset({"tellFlag"})
      BY <2>3 DEF DoorOpens, Notify
    <3>2. \A s \in Selects : cursor'[s] \in {0, cursor[s]}
      BY <2>0, <3>1, Clearing
    <3> QED
      BY <3>1, <3>2 DEF SharedLock
  <2>4. CASE (CheckAlwaysOn \/ CheckCoverage) /\ ~EndOfRows
    BY <2>4 DEF CheckAlwaysOn, CheckCoverage, Check
  <2>5. CASE Text \/ Email
    <3>1. at \in {"sms", "email"}
      BY <2>5 DEF Text, Email, NextRow
    <3>2. SharedLock
      BY <3>1 DEF IInv, AlertInv, SharedLock, Selects
    <3> QED
      BY <3>1, <3>2
  <2>6. CASE cursor' = cursor /\ (at' = at \/ at # "tellIntervals")
    BY <2>6 DEF SharedLock
  <2>7. NoMoreRows \/ Update \/ Tell \/ StatementFails => at \in Queries /\ EndOfRows
    BY DEF NoMoreRows, Update, Tell, StatementFails, Queries, After
  <2>8. CheckAlwaysOn \/ CheckCoverage => at \in Queries
    BY DEF CheckAlwaysOn, CheckCoverage, Check, Queries, After
  <2>9. SmsThread => Ends \/ (at' = at /\ cursor' = cursor)
    BY DEF SmsThread, SmsThreadStarts, CurlStarts, CurlEnds
  <2>10. WriterBegins \/ WriterWaits \/ WriterCommits \/ WriterGivesUp =>
            at' = at /\ cursor' = cursor
    BY DEF WriterBegins, WriterWaits, WriterCommits, WriterGivesUp, WriterStep
  <2>11. Moved \/ Restart \/ DoorCloses \/ GetStatus
            \/ (\E value \in BOOLEAN : LightOverride(value) \/ CoverageAlwaysOn(value)) =>
            cursor' = cursor /\ at # "tellIntervals"
    BY DEF Moved, Restart, DoorCloses, GetStatus, LightOverride, CoverageAlwaysOn
  <2> QED
    BY <2>1, <2>2, <2>3, <2>4, <2>5, <2>6, <2>7, <2>8, <2>9, <2>10, <2>11
       DEF Next, Item, Continues, StatementThrows, Crash
<1>2. Init => LockInv
    BY DEF Init, LockInv, Selects
<1> QED
    BY <1>1, <1>2, LockStep, Invariance, PTL DEF Spec, LockFromAlertToStatus

------------------------------------------------------------------------------
\* The most steps of its own that the worker is from the end of its item, as the
\* tables are: the places to come and the rows of the recipients, of which there
\* are n to be texted and m to be emailed, the first t and e of them done.
StepsFrom(place, n, m, t, e) ==
    IF place \in {"idle", "down"} THEN 0
    ELSE IF place \in {"constructing", "tellIntervals"} THEN 1
    ELSE IF place = "tellFlag" THEN 2
    ELSE IF place = "notify" THEN 3
    ELSE IF place = "update" THEN 4
    ELSE IF place = "email" THEN 4 + (m - e)
    ELSE IF place = "sms" THEN 5 + m + (n - t)
    ELSE IF place = "coverage" THEN 6 + m + n
    ELSE 7 + m + n

StepsLeft == StepsFrom(at, Len(db.sms), Len(db.email), cursor["sms"], cursor["email"])

Nearer == StepsLeft \in Nat /\ StepsLeft' \in Nat /\ StepsLeft' < StepsLeft

\* Every step of the worker brings its item nearer to its end, nothing else takes it
\* back but a commit that changes the tables, and no such commit comes between the
\* decision to alert and the last of the recipients.
ItemsComeToTheirEnd ==
    [][/\ Continues \/ StatementFails => Nearer
       /\ at \notin {"idle", "down"} /\ ~WriterCommits => StepsLeft' <= StepsLeft
       /\ WriterCommits => at \notin {"sms", "email"}
      ]_vars

\* What StepsLeft is computed from.
LEMMA RowsLeft ==
    ASSUME TypeOK
    PROVE  \E n, m, t, e \in Nat :
               /\ t <= n /\ e <= m
               /\ n = Len(db.sms) /\ m = Len(db.email)
               /\ t = cursor["sms"] /\ e = cursor["email"]
               /\ StepsLeft = StepsFrom(at, n, m, t, e)
<1>1. /\ Len(db.sms) \in Nat /\ Len(db.email) \in Nat
      /\ cursor["sms"] \in 0 .. Len(db.sms) /\ cursor["email"] \in 0 .. Len(db.email)
    BY Tables DEF TypeOK
<1>2. \A a, b, c, d : StepsLeft = StepsFrom(at, a, b, c, d)
                      \/ a # Len(db.sms) \/ b # Len(db.email)
                      \/ c # cursor["sms"] \/ d # cursor["email"]
    BY Zenon DEF StepsLeft
<1>3. /\ cursor["sms"] \in Nat /\ cursor["sms"] <= Len(db.sms)
      /\ cursor["email"] \in Nat /\ cursor["email"] <= Len(db.email)
    BY <1>1
<1> QED
    BY <1>1, <1>2, <1>3, Zenon

LEMMA StepsFromIsANumber ==
    ASSUME NEW n \in Nat, NEW m \in Nat, NEW t \in 0 .. n, NEW e \in 0 .. m, NEW place
    PROVE  StepsFrom(place, n, m, t, e) \in Nat
<1>1. 4 + (m - e) \in Nat /\ 5 + m + (n - t) \in Nat /\ 6 + m + n \in Nat /\ 7 + m + n \in Nat
    OBVIOUS
<1> QED
    BY <1>1 DEF StepsFrom

\* The end of a query's rows.
LEMMA EndOfRowsNears ==
    ASSUME TypeOK, at \in Queries, EndOfRows, db' = db
    PROVE  Nearer
<1>1. /\ at' = After[at]
      /\ cursor' = Reset({at, After[at]})
    BY DEF EndOfRows
<1>2. at = "sms" => cursor'["email"] = 0
    BY <1>1, AfterIsAPlace DEF Reset, Selects, SelectAt
<1>3. /\ at = "sms" => at' = "email"
      /\ at = "email" => at' = "notify"
      /\ at = "coverage" => at' = "notify"
      /\ at = "update" => at' = "notify"
      /\ at = "alwaysOn" => at' = "coverage"
      /\ at = "tellFlag" => at' = "tellIntervals"
      /\ at = "tellIntervals" => at' = "idle"
    BY <1>1 DEF After
<1>4. at \in {"sms", "email", "coverage", "update", "alwaysOn", "tellFlag", "tellIntervals"}
    BY DEF Queries, After
<1>5. PICK n, m, t, e \in Nat :
          /\ t <= n /\ e <= m
          /\ n = Len(db.sms) /\ m = Len(db.email)
          /\ StepsLeft = StepsFrom(at, n, m, t, e)
    BY RowsLeft
<1>6. StepsLeft' = StepsFrom(at', n, m, cursor'["sms"], cursor'["email"])
    BY <1>5 DEF StepsLeft
<1>7. CASE at = "sms"
  <2>1. StepsLeft = 5 + m + (n - t) /\ StepsLeft' = 4 + (m - 0)
    BY <1>2, <1>3, <1>5, <1>6, <1>7 DEF StepsFrom
  <2>2. PICK k \in Nat : k = n - t
    BY <1>5
  <2> QED
    BY <2>1, <2>2 DEF Nearer
<1>8. CASE at = "email"
  <2>1. StepsLeft = 4 + (m - e) /\ StepsLeft' = 3
    BY <1>3, <1>5, <1>6, <1>8 DEF StepsFrom
  <2>2. m - e \in Nat
    BY <1>5
  <2> QED
    BY <2>1, <2>2 DEF Nearer
<1>9. CASE at = "coverage"
  <2>1. StepsLeft = 6 + m + n /\ StepsLeft' = 3
    BY <1>3, <1>5, <1>6, <1>9 DEF StepsFrom
  <2> QED
    BY <2>1 DEF Nearer
<1>10. CASE at = "alwaysOn"
  <2>1. StepsLeft = 7 + m + n /\ StepsLeft' = 6 + m + n
    BY <1>3, <1>5, <1>6, <1>10 DEF StepsFrom
  <2> QED
    BY <2>1 DEF Nearer
<1>11. CASE at \in {"update", "tellFlag", "tellIntervals"}
  <2>1. \/ StepsLeft = 4 /\ StepsLeft' = 3
        \/ StepsLeft = 2 /\ StepsLeft' = 1
        \/ StepsLeft = 1 /\ StepsLeft' = 0
    BY <1>3, <1>5, <1>6, <1>11 DEF StepsFrom
  <2> QED
    BY <2>1 DEF Nearer
<1> QED
    BY <1>4, <1>7, <1>8, <1>9, <1>10, <1>11

\* A check that comes to its end or begins an alert.
LEMMA CheckNears ==
    ASSUME TypeOK, NEW place \in {"alwaysOn", "coverage"}, NEW matching,
           Check(place, matching)
    PROVE  Nearer
<1>1. at = place /\ db' = db
    BY DEF Check, database
<1>2. CASE EndOfRows
    BY <1>1, <1>2, EndOfRowsNears DEF Queries, After
<1>3. CASE ~EndOfRows
  <2>1. PICK row : cursor' = [cursor EXCEPT ![place] = row, !["sms"] = 0]
    BY <1>3 DEF Check
  <2>2. at' = "sms" /\ cursor \in [Selects -> Nat]
    BY <1>3 DEF Check, TypeOK
  <2>3. cursor'["sms"] = 0 /\ cursor'["email"] = cursor["email"]
    BY <2>1, <2>2 DEF Selects
  <2>4. PICK n, m, t, e \in Nat :
            /\ t <= n /\ e <= m
            /\ n = Len(db.sms) /\ m = Len(db.email) /\ e = cursor["email"]
            /\ StepsLeft = StepsFrom(at, n, m, t, e)
    BY RowsLeft
  <2>5. StepsLeft' = 5 + m + (n - 0)
    BY <1>1, <2>2, <2>3, <2>4 DEF StepsLeft, StepsFrom
  <2>6. StepsLeft = 6 + m + n \/ StepsLeft = 7 + m + n
    BY <1>1, <2>4 DEF StepsFrom
  <2> QED
    BY <2>5, <2>6 DEF Nearer
<1> QED
    BY <1>2, <1>3

\* A row of the recipients.
LEMMA RowNears ==
    ASSUME TypeOK, NEW place \in {"sms", "email"}, NextRow(place)
    PROVE  Nearer
<1>1. /\ at = place /\ at' = at /\ db' = db
      /\ cursor[place] < Len(db[place])
      /\ cursor' = [cursor EXCEPT ![place] = @ + 1]
      /\ cursor \in [Selects -> Nat]
    BY DEF NextRow, TypeOK, database
<1>2. cursor'[place] = cursor[place] + 1
    BY <1>1 DEF Selects
<1>3. PICK n, m, t, e \in Nat :
          /\ t <= n /\ e <= m
          /\ n = Len(db.sms) /\ m = Len(db.email)
          /\ t = cursor["sms"] /\ e = cursor["email"]
          /\ StepsLeft = StepsFrom(at, n, m, t, e)
    BY RowsLeft
<1>4. CASE place = "sms"
  <2>1. t < n /\ StepsLeft = 5 + m + (n - t) /\ StepsLeft' = 5 + m + (n - (t + 1))
    BY <1>1, <1>2, <1>3, <1>4 DEF StepsLeft, StepsFrom
  <2>2. PICK k \in Nat : k = n - (t + 1) /\ k + 1 = n - t
    BY <2>1
  <2> QED
    BY <2>1, <2>2 DEF Nearer
<1>5. CASE place = "email"
  <2>1. e < m /\ StepsLeft = 4 + (m - e) /\ StepsLeft' = 4 + (m - (e + 1))
    BY <1>1, <1>2, <1>3, <1>5 DEF StepsLeft, StepsFrom
  <2>2. PICK k \in Nat : k = m - (e + 1) /\ k + 1 = m - e
    BY <2>1
  <2> QED
    BY <2>1, <2>2 DEF Nearer
<1> QED
    BY <1>4, <1>5

\* Every step of the worker.
LEMMA ContinuesNears == TypeOK /\ (Continues \/ StatementFails) => Nearer
<1> SUFFICES ASSUME TypeOK, Continues \/ StatementFails
             PROVE  Nearer
    OBVIOUS
<1>1. CASE Moved
  <2>1. at = "constructing" /\ at' = "idle"
    BY <1>1 DEF Moved
  <2>2. StepsLeft = 1 /\ StepsLeft' = 0
    BY <2>1 DEF StepsLeft, StepsFrom
  <2> QED
    BY <2>2 DEF Nearer
<1>2. CASE CheckAlwaysOn \/ CheckCoverage
    BY <1>2, CheckNears DEF CheckAlwaysOn, CheckCoverage
<1>3. CASE Text \/ Email
    BY <1>3, RowNears DEF Text, Email
<1>4. CASE NoMoreRows \/ Update \/ Tell \/ StatementFails
  <2>1. at \in Queries /\ EndOfRows /\ db' = db
    BY <1>4 DEF NoMoreRows, Update, Tell, StatementFails, Queries, After, database
  <2> QED
    BY <2>1, EndOfRowsNears
<1>5. CASE Notify
  <2>1. at = "notify" /\ at' \in {"idle", "tellFlag"}
    BY <1>5 DEF Notify
  <2>2. StepsLeft = 3 /\ StepsLeft' \in {0, 2}
    BY <2>1 DEF StepsLeft, StepsFrom
  <2> QED
    BY <2>2 DEF Nearer
<1> QED
    BY <1>1, <1>2, <1>3, <1>4, <1>5 DEF Continues

\* While recipients are read, a statement that matched keeps the operator out.
LEMMA AlertsKeepTheTables == IInv /\ WriterCommits => at \notin {"sms", "email"}
    BY DEF IInv, AlertInv, WriterCommits, SharedLock, Selects

\* Every other step, once an item is under way.
LEMMA OthersWait ==
    ASSUME TypeOK, Next, at \notin {"idle", "down"}, ~WriterCommits,
           ~Continues, ~StatementFails
    PROVE  StepsLeft' <= StepsLeft
<1>1. at' = "down" \/ (at' = at /\ db' = db /\ cursor' = cursor)
    BY DEF Next, Item, DoorOpens, DoorCloses, GetStatus, LightOverride, CoverageAlwaysOn,
           SmsThread, SmsThreadStarts, CurlStarts, CurlEnds, Ends, StatementThrows, Crash,
           Restart, WriterBegins, WriterWaits, WriterGivesUp, WriterStep, database
<1>2. PICK n, m, t, e \in Nat :
          /\ t <= n /\ e <= m
          /\ StepsLeft = StepsFrom(at, n, m, t, e)
    BY RowsLeft
<1>3. StepsLeft \in Nat
    BY <1>2, StepsFromIsANumber
<1>4. StepsLeft' = 0 \/ StepsLeft' = StepsLeft
    BY <1>1 DEF StepsLeft, StepsFrom
<1> QED
    BY <1>3, <1>4

\* An item that is not kept waiting comes to its end, and an alert goes through one
\* and the same tables.  With a worker that runs on this is the half of
\* OnlyTheUpdateSticks that speaks of steps, for any number of recipients; where the
\* worker can be kept waiting is what remains of it.
THEOREM ItemsEnd == Spec => ItemsComeToTheirEnd
<1> DEFINE Step ==
       /\ Continues \/ StatementFails => Nearer
       /\ at \notin {"idle", "down"} /\ ~WriterCommits => StepsLeft' <= StepsLeft
       /\ WriterCommits => at \notin {"sms", "email"}
<1>1. IInv /\ [Next]_vars => [Step]_vars
  <2> SUFFICES ASSUME IInv, Next PROVE Step
    OBVIOUS
  <2>1. TypeOK
    BY DEF IInv
  <2>2. Continues \/ StatementFails => Nearer
    BY <2>1, ContinuesNears
  <2>3. WriterCommits => at \notin {"sms", "email"}
    BY AlertsKeepTheTables
  <2>4. ASSUME at \notin {"idle", "down"}, ~WriterCommits
        PROVE  StepsLeft' <= StepsLeft
    <3>1. CASE Continues \/ StatementFails
      BY <2>2, <3>1 DEF Nearer
    <3>2. CASE ~(Continues \/ StatementFails)
      BY <2>1, <2>4, <3>2, OthersWait
    <3> QED
      BY <3>1, <3>2
  <2> QED
    BY <2>2, <2>3, <2>4
<1> QED
    BY <1>1, Invariance, PTL DEF Spec, ItemsComeToTheirEnd
==============================================================================

------------------------------ MODULE Notifier ------------------------------
(***************************************************************************)
(* The alert: Notifier.h, Statement.h and the alert's part in              *)
(* CameraAndLightControl.h, on one database that an operator may edit      *)
(* meanwhile, through failing statements, crashes and restarts.            *)
(*                                                                         *)
(* The worker of the control runs one item at a time.  A SELECT that has   *)
(* stopped on a row holds SQLite's shared lock until it comes to its end   *)
(* or is cleared, and a writer commits only while nobody holds it.  A      *)
(* second ActiveObject runs curl, once per text message, with its queue's  *)
(* mutex held, as module ActiveObject has it.                              *)
(***************************************************************************)
EXTENDS Coverage

CONSTANTS
    Contents,          \* what the operator may leave in the database
    Moments,           \* the times at which the door may open
    MaxTexts,          \* bound on the texts that wait when the door opens
    MaxWrites          \* bound on the operator's transactions

ASSUME ContentsAssumption ==
    /\ Contents \subseteq [intervals : Seq(CoverageIntervals),
                           sms : Seq(BOOLEAN), email : Seq(BOOLEAN)]
    /\ Moments \subseteq Times
    /\ MaxTexts \in Nat
    /\ MaxWrites \in Nat

VARIABLES
    \* the control; coverageAlwaysOn is in the database
    mDoorSwitch, mLight, mLightOverride, coverageAlwaysOn, gpioLight,
    db,                \* the tables: intervals, and who is enabled by row
    writer, writes,    \* the operator's transaction, and how many so far
    at,                \* where the worker is; "down" when the program has ended
    iValue,            \* what coverageAlwaysOn() was called with
    wNow,              \* the time checkIfInCoverage() has read
    cursor,            \* the row each SELECT has stopped on, 0 for none
    mSmsQueue, sms,    \* mSmsSender's queue and its thread
    \* histories of the alert under way: the rows texted and emailed, the
    \* database decided on, whether a statement has failed unseen
    texts, emails, decidedOn, failed,
    kept               \* history: started on a lit pin, not switched on since

control == <<mDoorSwitch, mLight, mLightOverride, gpioLight, kept>>
database == <<db, coverageAlwaysOn, writer, writes>>
smsVars == <<mSmsQueue, sms>>
alert == <<texts, emails, decidedOn>>
vars == <<control, database, at, iValue, wNow, cursor, smsVars, alert, failed>>

Control == INSTANCE CameraAndLightControl

Selects == {"alwaysOn", "coverage", "sms", "email"}

\* Where the worker steps a statement, and where it goes when there are no more
\* rows.  retrieveUrl() has no place of its own: it always finds the lock held.
After ==
    [alwaysOn |-> "coverage", coverage |-> "notify", sms |-> "email",
     email |-> "notify", update |-> "notify",
     tellFlag |-> "tellIntervals", tellIntervals |-> "idle"]
Queries == DOMAIN After
Places == Queries \cup {"constructing", "idle", "notify", "down"}

\* The SELECT that is stepped there.
SelectAt(place) ==
    CASE place = "tellFlag" -> "alwaysOn"
      [] place = "tellIntervals" -> "coverage"
      [] OTHER -> place

\* Statement::clear(), with which every query begins, and the end of the rows.
Reset(places) == [s \in Selects |-> IF \E p \in places : s = SelectAt(p) THEN 0 ELSE cursor[s]]

SharedLock == \E s \in Selects : cursor[s] # 0

\* When sqlite3_step() of a SELECT does not return SQLITE_BUSY.
CanRead == SharedLock \/ writer # "pending"

Init ==
    /\ Control!Init
    /\ db \in Contents
    /\ writer = "none"
    /\ writes = 0
    /\ at = "constructing"
    /\ iValue = FALSE
    /\ wNow \in Moments
    /\ cursor = [s \in Selects |-> 0]
    /\ mSmsQueue = <<>>
    /\ sms = "starting"
    /\ texts = {}
    /\ emails = {}
    /\ decidedOn = db
    /\ failed = FALSE
    /\ kept = FALSE

------------------------------------------------------------------------------
\* The items of the control's queue.

\* The Notifier is in its place, moved from the one that was constructed.
Moved ==
    /\ at = "constructing"
    /\ at' = "idle"
    /\ UNCHANGED <<control, database, iValue, wNow, cursor, smsVars, alert, failed>>

\* Mutant: the query is not cleared.
DoorOpensUncleared ==
    /\ at = "idle"
    /\ ~mDoorSwitch
    /\ Len(mSmsQueue) <= MaxTexts
    /\ Control!DoorSwitch(TRUE)
    /\ kept' = FALSE
    /\ wNow' \in Moments
    /\ at' = "alwaysOn"
    /\ texts' = {}
    /\ emails' = {}
    /\ failed' = FALSE
    /\ UNCHANGED <<db, writer, writes, iValue, smsVars, decidedOn, cursor>>

\* doorSwitch(true), to the first query of perform().
DoorOpens ==
    /\ at = "idle"
    /\ ~mDoorSwitch
    /\ Len(mSmsQueue) <= MaxTexts
    /\ Control!DoorSwitch(TRUE)
    /\ kept' = FALSE
    /\ wNow' \in Moments
    /\ at' = "alwaysOn"
    /\ cursor' = Reset({"alwaysOn"})
    /\ texts' = {}
    /\ emails' = {}
    /\ failed' = FALSE
    /\ UNCHANGED <<db, writer, writes, iValue, smsVars, decidedOn>>

DoorCloses ==
    /\ at = "idle"
    /\ mDoorSwitch
    /\ Control!DoorSwitch(FALSE)
    /\ at' = "notify"
    /\ UNCHANGED <<db, writer, writes, iValue, wNow, cursor, smsVars, alert, failed, kept>>

LightOverride(iOverride) ==
    /\ at = "idle"
    /\ Control!LightOverride(iOverride)
    /\ kept' = (kept /\ ~iOverride)
    /\ at' = "notify"
    /\ UNCHANGED <<db, writer, writes, iValue, wNow, cursor, smsVars, alert, failed>>

CoverageAlwaysOn(value) ==
    /\ at = "idle"
    /\ iValue' = value
    /\ at' = "update"
    /\ UNCHANGED <<control, database, wNow, cursor, smsVars, alert, failed>>

GetStatus ==
    /\ at = "idle"
    /\ at' = "notify"
    /\ UNCHANGED <<control, database, iValue, wNow, cursor, smsVars, alert, failed>>

------------------------------------------------------------------------------
\* The rest of an item.

\* The rows are at an end, or the result is one that runOnce()'s callers do not
\* look at: the next query begins.
EndOfRows ==
    /\ at' = After[at]
    /\ cursor' = Reset({at, After[at]})

\* checkCoverageForStatement(): a row that matches leaves the statement as it is,
\* and the alert begins.
Check(place, matching) ==
    /\ at = place
    /\ CanRead
    /\ LET ahead == {row \in matching : row > cursor[place]}
       IN  \/ /\ ahead # {}
              /\ \E row \in ahead :
                    /\ \A other \in ahead : row <= other
                    /\ cursor' = [cursor EXCEPT ![place] = row, !["sms"] = 0]
              /\ at' = "sms"
              /\ decidedOn' = db
           \/ ahead = {} /\ EndOfRows /\ UNCHANGED decidedOn
    /\ UNCHANGED <<control, database, iValue, wNow, smsVars, texts, emails, failed>>

\* Mutant: the statement that matched is reset before the alert.
CheckAlwaysOnAndReset ==
    /\ at = "alwaysOn"
    /\ CanRead
    /\ cursor' = Reset({"alwaysOn", "coverage", "sms"})
    /\ at' = IF coverageAlwaysOn THEN "sms" ELSE "coverage"
    /\ decidedOn' = IF coverageAlwaysOn THEN db ELSE decidedOn
    /\ UNCHANGED <<control, database, iValue, wNow, smsVars, texts, emails, failed>>

CheckAlwaysOn == Check("alwaysOn", IF coverageAlwaysOn THEN {1} ELSE {})

CheckCoverage ==
    Check("coverage", {row \in DOMAIN db.intervals : Covers(db.intervals[row], wNow)})

NextRow(place) ==
    /\ at = place
    /\ cursor[place] < Len(db[place])
    /\ cursor' = [cursor EXCEPT ![place] = @ + 1]
    /\ UNCHANGED <<control, database, at, iValue, wNow, decidedOn, failed>>

\* sendSms(): the push waits for the curl that runs.
Text ==
    /\ NextRow("sms")
    /\ \/ /\ db.sms[cursor["sms"] + 1]
          /\ sms # "curl"
          /\ mSmsQueue' = Append(mSmsQueue, cursor["sms"] + 1)
          /\ texts' = texts \cup {cursor["sms"] + 1}
       \/ ~db.sms[cursor["sms"] + 1] /\ UNCHANGED <<mSmsQueue, texts>>
    /\ UNCHANGED <<sms, emails>>

\* sendEmail(): one attempt, whatever becomes of it.
Email ==
    /\ NextRow("email")
    /\ emails' = emails \cup {row \in {cursor["email"] + 1} : db.email[row]}
    /\ UNCHANGED <<smsVars, texts>>

NoMoreRows ==
    /\ at \in {"sms", "email"}
    /\ cursor[at] >= Len(db[at])
    /\ EndOfRows
    /\ UNCHANGED <<control, database, iValue, wNow, smsVars, alert, failed>>

\* Mutant: the statement has a connection of its own.
UpdateElsewhere ==
    /\ at = "update"
    /\ writer = "none"
    /\ ~SharedLock
    /\ Control!CoverageAlwaysOn(iValue)
    /\ EndOfRows
    /\ UNCHANGED <<db, writer, writes, iValue, wNow, smsVars, alert, failed, kept>>

\* The UPDATE, once it is not busy: another's transaction keeps it so, and the
\* SELECTs of its own connection do not.
Update ==
    /\ at = "update"
    /\ writer = "none"
    /\ Control!CoverageAlwaysOn(iValue)
    /\ EndOfRows
    /\ UNCHANGED <<db, writer, writes, iValue, wNow, smsVars, alert, failed, kept>>

\* Nobody is connected, or sendStatus() begins.
Notify ==
    /\ at = "notify"
    /\ \/ at' = "idle" /\ UNCHANGED cursor
       \/ at' = "tellFlag" /\ cursor' = Reset({"tellFlag"})
    /\ UNCHANGED <<control, database, iValue, wNow, smsVars, alert, failed>>

\* Mutant: coverageAlwaysOn() reads one row, which is all there is.
TellFirstRow ==
    /\ at \in {"tellFlag", "tellIntervals"}
    /\ CanRead
    /\ at' = After[at]
    /\ cursor' = [Reset({at, After[at]}) EXCEPT !["alwaysOn"] = IF at = "tellFlag" THEN 1 ELSE @]
    /\ UNCHANGED <<control, database, iValue, wNow, smsVars, alert, failed>>

\* coverageAlwaysOn() and coverageIntervals() read all rows.
Tell ==
    /\ at \in {"tellFlag", "tellIntervals"}
    /\ CanRead
    /\ EndOfRows
    /\ UNCHANGED <<control, database, iValue, wNow, smsVars, alert, failed>>

\* A result that is neither a row nor SQLITE_BUSY nor SQLITE_ERROR.
StatementFails ==
    /\ at \in Queries
    /\ EndOfRows
    /\ failed' = TRUE
    /\ UNCHANGED <<control, database, iValue, wNow, smsVars, alert>>

------------------------------------------------------------------------------
\* The end of the program and its next start.

Ends ==
    /\ at' = "down"
    /\ cursor' = [s \in Selects |-> 0]
    /\ mSmsQueue' = <<>>
    /\ sms' = "starting"
    /\ mDoorSwitch' = FALSE
    /\ mLight' = FALSE
    /\ mLightOverride' = FALSE
    /\ kept' = FALSE
    /\ UNCHANGED <<gpioLight, database, iValue, wNow, alert, failed>>

\* SQLITE_ERROR: runOnce() throws, and nothing on the thread catches.
StatementThrows == at \in Queries /\ Ends

Crash == at # "down" /\ Ends

\* go.sh runs gpio.sh, which switches the light off; picam.sh alone does not.
\* The constructor writes nothing to the pin.
Restart ==
    /\ at = "down"
    /\ at' = "constructing"
    /\ \/ gpioLight' = FALSE /\ kept' = FALSE
       \/ gpioLight' = gpioLight /\ kept' = gpioLight
    /\ UNCHANGED <<mDoorSwitch, mLight, mLightOverride, database, iValue, wNow,
                   cursor, smsVars, alert, failed>>

------------------------------------------------------------------------------
\* mSmsSender's thread.

\* The thread reads mSmsSender of the Notifier that was constructed.  If that has
\* been moved from, it reads null and the program ends.
SmsThreadStarts ==
    /\ sms = "starting"
    /\ at # "down"
    /\ \/ /\ at = "constructing"
          /\ sms' = "idle"
          /\ UNCHANGED <<control, database, at, iValue, wNow, cursor, mSmsQueue, alert, failed>>
       \/ at # "constructing" /\ Ends

\* Mutant: the wait for a message has no predicate.
CurlStartsUnasked ==
    /\ sms = "idle"
    /\ sms' = "curl"
    /\ UNCHANGED <<control, database, at, iValue, wNow, cursor, mSmsQueue, alert, failed>>

CurlStarts ==
    /\ sms = "idle"
    /\ mSmsQueue # <<>>
    /\ sms' = "curl"
    /\ UNCHANGED <<control, database, at, iValue, wNow, cursor, mSmsQueue, alert, failed>>

\* waitpid() returns, whatever curl's result.
CurlEnds ==
    /\ sms = "curl"
    /\ sms' = "idle"
    /\ mSmsQueue' = Tail(mSmsQueue)
    /\ UNCHANGED <<control, database, at, iValue, wNow, cursor, alert, failed>>

------------------------------------------------------------------------------
\* The operator's transaction on the same file: it reserves the right to write,
\* waits for the readers with new ones kept out, commits or gives up.

WriterStep(from, to) ==
    /\ writer = from
    /\ writer' = to
    /\ UNCHANGED <<control, at, iValue, wNow, cursor, smsVars, alert, failed>>

WriterBegins ==
    /\ writes < MaxWrites
    /\ WriterStep("none", "reserved")
    /\ writes' = writes + 1
    /\ UNCHANGED <<db, coverageAlwaysOn>>

WriterWaits == WriterStep("reserved", "pending") /\ UNCHANGED <<db, coverageAlwaysOn, writes>>

WriterCommits ==
    /\ ~SharedLock
    /\ WriterStep("pending", "none")
    /\ db' \in Contents
    /\ coverageAlwaysOn' \in BOOLEAN
    /\ UNCHANGED writes

WriterGivesUp ==
    /\ \E from \in {"reserved", "pending"} : WriterStep(from, "none")
    /\ UNCHANGED <<db, coverageAlwaysOn, writes>>

------------------------------------------------------------------------------
Item ==
    \/ DoorOpens \/ DoorCloses \/ GetStatus
    \/ \E value \in BOOLEAN : LightOverride(value) \/ CoverageAlwaysOn(value)

Continues ==
    \/ Moved \/ CheckAlwaysOn \/ CheckCoverage \/ Text \/ Email \/ NoMoreRows
    \/ Update \/ Notify \/ Tell

SmsThread == SmsThreadStarts \/ CurlStarts \/ CurlEnds

Next ==
    \/ Item \/ Continues \/ SmsThread
    \/ StatementFails \/ StatementThrows \/ Crash \/ Restart
    \/ WriterBegins \/ WriterWaits \/ WriterCommits \/ WriterGivesUp

\* The threads run on: mail servers and curl answer in the end.  A writer that
\* waits for the readers commits when it can.  Nothing else has to happen.
Spec ==
    /\ Init /\ [][Next]_vars
    /\ WF_vars(Continues) /\ WF_vars(SmsThread) /\ WF_vars(WriterCommits)

------------------------------------------------------------------------------
\* Properties.

\* Types; a SELECT has stopped on a row that its table has, and the writer is
\* kept out for as long as it has.
TypeOK ==
    /\ Control!TypeOK
    /\ db \in Contents
    /\ writer \in {"none", "reserved", "pending"}
    /\ writes \in Nat
    /\ at \in Places
    /\ iValue \in BOOLEAN
    /\ wNow \in Moments
    /\ cursor \in [Selects -> Nat]
    /\ cursor["alwaysOn"] \in {0, 1}
    /\ cursor["coverage"] \in 0 .. Len(db.intervals)
    /\ cursor["sms"] \in 0 .. Len(db.sms)
    /\ cursor["email"] \in 0 .. Len(db.email)
    /\ mSmsQueue \in Seq(Nat)
    /\ sms \in {"starting", "idle", "curl"}
    /\ sms = "curl" => mSmsQueue # <<>>
    /\ texts \subseteq Nat
    /\ emails \subseteq Nat
    /\ decidedOn \in Contents
    /\ failed \in BOOLEAN
    /\ kept \in BOOLEAN

\* Every opening is judged by the whole of the table as it is, however the query
\* before it was left: one that stopped on a matching row is never continued.
Decided ==
    IF at = "alwaysOn" THEN coverageAlwaysOn ELSE InCoverage(FALSE, db.intervals, wNow)

DecisionIsCurrent ==
    [][(at \in {"alwaysOn", "coverage"}) /\ at' \notin {at, "down"} /\ ~failed' =>
          (at' = "sms" <=> Decided)]_vars

\* An alert is whole and of one piece: if no statement has failed, each recipient
\* enabled in the database that was decided on gets a text and an email, and
\* nobody else does, although the operator may want to write at any time and the
\* texts wait for curl.  Failing or not, it tells nobody twice.
AlertIsWhole ==
    [][(at = "sms" /\ at' = "email" /\ ~failed' =>
           texts' = {row \in DOMAIN decidedOn.sms : decidedOn.sms[row]})
       /\
       (at = "email" /\ at' = "notify" /\ ~failed' =>
           emails' = {row \in DOMAIN decidedOn.email : decidedOn.email[row]})
       /\
       (at = "sms" /\ cursor'["sms"] > cursor["sms"] => cursor'["sms"] \notin texts)
       /\
       (at = "email" /\ cursor'["email"] > cursor["email"] => cursor'["email"] \notin emails)
      ]_vars

\* The light through crashes and restarts: the pin obeys the demands, but for a
\* program started on a lit pin, and that only until it first switches it on.
LightAcrossRestarts ==
    at # "down" => Control!LightRule \/ (kept /\ gpioLight /\ ~mLight)

\* The lock that an alert leaves behind: the worker takes the shared lock out of a
\* query only when it decides to alert, and whoever is told a status after that,
\* the lock is given back, whatever fails on the way and whoever else wants it.
LockFromAlertToStatus ==
    [][(~SharedLock /\ SharedLock' => at' = "sms")
       /\
       (at = "tellIntervals" /\ at' # at => ~SharedLock')
      ]_vars

\* Somebody keeps a transaction open and does not even try to commit it.
LeftOpen == at = "update" /\ writer = "reserved"

\* The UPDATE waits for a writer, and the writer for the lock that an alert has
\* left to the worker: neither can go on, unless the writer gives up.
MutualWait == at = "update" /\ writer = "pending" /\ SharedLock

\* A busy database stops the worker for good in two ways only, both of them at the
\* UPDATE: a transaction left open, and the wait of worker and writer for each
\* other.  Nor do the texts stop it, however many wait.
OnlyTheUpdateSticks ==
    []<>(at \in {"idle", "down"}) \/ <>[]LeftOpen \/ <>[]MutualWait
==============================================================================

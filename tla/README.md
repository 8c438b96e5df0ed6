# PiCam in TLA+

PiCam (src/PiCam) is the program of a Raspberry Pi that watches a door: it debounces a door switch, switches a
light, alerts people by e-mail and SMS when the door opens during the covered hours, and lets browsers watch and
command it over a WebSocket.  This directory models the program's own logic in TLA+, checks it with TLC on small
instances, and proves its main safety properties with TLAPS for every instance.

Everything modelled is translated from the source; a line number below is a line of the file named.
`PROJECT.json` maps every definition to the lines it stands for.

## The system

### Threads

| thread | code | what it does |
|---|---|---|
| main | `startServerAndMonitorPins()`, `PiCam/main.cpp` | samples the door every 10 ms, debounces, pushes `doorSwitch()` |
| io_service | `TcpServer`, `TcpConnection` | accepts clients, reads handshakes and frames, pushes what they ask |
| control worker | the `ActiveObject` of `DataActiveObject<CameraAndLightControl>` | runs everything that touches the control, the observers' `update()` and the sockets' `send()` included |
| SMS worker | the `ActiveObject` in `Notifier` | runs curl once per message |

The first three meet in one place, the control's work queue.  `workHandler()` calls each function **with the queue's
mutex held** (`ActiveObject.h:50-66`), so a thread that pushes waits for the running function; and constructors and
destructors of `RemoteControl` push a function and wait for it (`RemoteControl.h:32-70`).  These two facts decide
most of what can go wrong.

### Components

| component | state | operations | what makes it correct |
|---|---|---|---|
| ActiveObject (`ActiveObject.h`) | deque, mutex, condition variable | `push`, `stop`, `workHandler` | first in, first out, once each; no lost wake-up; `stop()` drains |
| GPIO monitor (`main.cpp`) | counter 0..10, debounced flag, the file stream | the 10 ms loop | neither flicker nor deafness, at either end of the range |
| CameraAndLightControl | `mDoorSwitch`, `mLight`, `mLightOverride`, the pin, a flag in the database | `doorSwitch`, `lightOverride`, `coverageAlwaysOn`, `attach`, `detach`, `notify` | the pin is on iff a demand for it stands; `mLight` never disagrees with the pin |
| Subject / IObserver | vector of raw observer pointers | `attach`, `detach`, `notify` | no pointer outlives its object |
| RemoteControl | `weak_ptr` to its sender, the worker's queue | copy constructor, destructor, `operator()`, `update`, `sendStatus` | clients hold the current state; nothing used after its end |
| TcpServer | acceptor, one `RemoteControl` | `startAccept`, `handleAccept` | the next client can always be accepted |
| TcpConnection | socket, 16 KB buffer, `RemoteControl`, reference count | handshake, frame header, size, mask, payload | life cycle; sizes when data comes in pieces |
| Notifier (`Notifier.h`, `Statement.h`) | sqlite database, SMS queue | `perform`, coverage queries | an alert iff the hour is covered; failures; the two queues together |
| SendEmail, Operations | none | an SMTP dialogue, a curl | blocking calls |
| ConnectionMonitor | sequence number, timer, count of lost replies | send, time out, receive | late, duplicated replies |
| ServerManager | a child process | a restart loop | unreachable, see below |
| WebClient | the page's copy of the flags, the coverage table | `onmessage`, toggles | the page and the server agree in the end |
| Scripts | the pins, the processes | start-up | the pin is off when PiCam starts |

How they interact: main and io_service push lambdas to the control's queue; the worker calls the observers
(`Subject::notify`), each observer writes to its connection through a `weak_ptr` it turns into a `shared_ptr` for the
duration of the write; the io thread's pending asynchronous operation holds the other `shared_ptr`.  Whoever drops
the last one runs `~TcpConnection()`, which runs `~RemoteControl()`, which pushes to the queue.

Hard to test: the interleavings of those threads (who holds the last reference; a push while a function runs; a
connection that dies between the lock of its `weak_ptr` and the end of the write), notifications against changes,
the two ends of the debounce range, failures of one step among several (a database statement, an accept, a read),
frames in pieces, the wrap-around of a week.  `PROJECT.json` lists them under `hazards`, each at its line.

## The modules

```
WorkQueue  <--implements--  ActiveObject  --EXTENDS--  MCActiveObject
                                 ^-- ActiveObjectProofs
GpioMonitor  <-- GpioMonitorProofs
CameraAndLightControl  --INSTANCE-->  RemoteControl  --EXTENDS--  MCRemoteControl
StatusFeed  <--implements--  RemoteControl
SyncCall  --INSTANCE-->  MCSyncCall
RemoteControl, MCSyncCall  <-- RemoteControlProofs
CameraAndLightControl, Coverage  -->  Notifier  --EXTENDS--  MCNotifier
                                          ^-- NotifierProofs
TcpFrames  --EXTENDS--  MCTcpFrames
      ^-- TcpFramesProofs
WebClient  --EXTENDS--  MCWebClient
      ^-- WebClientProofs
Coverage  <--EXTENDS--  CoverageTable  --EXTENDS--  MCCoverageTable
                             ^-- CoverageTableProofs
Pinger  <-- PingerProofs
```

**WorkQueue** is what an ActiveObject promises: the sequence `accepted`, and `executed`, which follows it one entry at
a time up to the first termination entry.

**ActiveObject** is the code.  `caller[c]` is where a thread is in `doPush()`: outside (or blocked), inside the
`lock_guard`'s scope, or past it and about to `notify_one()`.  `worker` is where the worker is in `workHandler()`.
`WorkerSleep` gives up the mutex and sleeps in one step, which is what `std::condition_variable` guarantees;
`WorkerSpuriousWakeup` is the wake-up the standard allows.  `WorkerSelfPush` is a function that pushes to its own
queue: the mutex is not recursive, the worker stops at `selfLocked`.  Locking the mutex again is undefined behaviour
in C++; with the libraries this program is built with, it blocks, and that is the outcome modelled.  `accepted` and
`executed` are histories and are the refinement mapping.  `StopDrainsTheQueue` is about the class: in this program
nobody reaches a `stop()`.

**GpioMonitor** is the loop in `main.cpp`, one action per iteration: `Sample` reads (`Reads`), counts (`LeavesRange`,
`Count`, `Saturate`) and decides (`Edge`); `Push` is the return of `dataPush()`, before which no sample is taken.  The
door moves at any time, so a sample may read anything.  A stream that fails once stays failed, because nothing calls
`clear()`.  `evidence` and `streak` are histories: the differing samples since the last edge, and the differing
samples in a row; they are written by the actions, never read by a guard.

**CameraAndLightControl** has the operations of the class as action operators on its five variables; it has no Next
of its own, because the program calls it only through the queue.

**RemoteControl** composes main, io thread, worker, observers and connections.

| code | action |
|---|---|
| `wDataActiveObject->dataPush(doorSwitch)` in main.cpp | `PushDoor` |
| the lambdas of `operator()`, the constructor, the destructor | `RunGetStatus`, `RunDoorSwitch`, `RunLightOverride`, `RunCoverageAlwaysOn`, `RunAttach`, `RunDetach` |
| `update()` / `sendStatus()`: `mSender.lock()` empty or not | `UpdateSkips`, `UpdateLocks` |
| `send()` returns, `wSender` is released | `SendStatus`; `SendStatusToOrphan` when it is the last reference |
| the item is popped | `FinishItem` (part of `RunAttach`, `RunDetach`, which notify nobody) |
| `handleAccept()` with `listen()` and `startAccept()` | `Accept`, then `PushAttach`, `AttachReturns` for the constructor of the next connection |
| `handleAccept()` with an error | `AcceptFails` |
| `handleReadHandshake()`, `handleWriteHandshake()` | `ReadHandshake`, `WriteHandshake` |
| a whole message, `RemoteControl::operator()` | `ReadMessage` |
| an error, an opcode not supported / a frame not masked | `Disconnect` / `UnmaskedFrame`; both `Drop` the io thread's reference |
| `~RemoteControl()` on the io thread | `PushDetach`, `DetachReturns` |

`life[c]` is the life of a connection; `orphaned` is one that only `sendStatus()` still holds.

What is abstracted:

- Lock, emplace and notify are one step here, `DataPush`, possible only while no item runs; module ActiveObject shows
  that this is what the threads' steps amount to (`NoPushWhileRunning`, `WorkQueueSafety`).
- The order of the observers in the vector is left open: `notifying` is the set that has yet to be updated.
- The condition variable on which a constructor or destructor waits is the flag `synced`; its own lifetime is the
  subject of module SyncCall.
- Messages arrive whole; how they are put together from frames, and frames from reads, is module TcpFrames.
- A payload is what it asks for.  A message that asks for nothing (an unknown command, `coverage_always_on` with no
  value) changes nothing and is a stutter; a handler reading part of a frame is one too.
- A status is the four flags.  The intervals that follow them come from the database and nothing modelled here changes
  them.
- `mSender` is assigned by the io thread and locked by the worker without a common mutex.  The model takes the
  outcomes of whole accesses, no sender or the sender; a torn read of the two words is not modelled.
- `coverage_always_on` is stored by a database statement that succeeds; failing statements are in module Notifier.
- The program does not crash here, but in module Notifier.  `Init` is the state after `createTcpServer()` has returned.

**StatusFeed** is what all of this promises a client, with neither threads nor queue: one status, whose light follows
the two demands; a change that is owed to every client connected and waits until nobody is owed the one before; and
what each client was told last.  RemoteControl implements it (`FeedsTheStatus`): the status is the control's, a client
is connected from the accept to the end of its connection, it is owed the status while it is in `notifying` or is being
written to, and `sent` is what it was told.

**SyncCall** is the call by which `RemoteControl`'s constructors and destructor wait for the worker (`RemoteControl.h:19-32`
and its two copies).  `frame` is the call whose mutex, flag and condition variable stand on the io thread's stack; the
frames of successive calls stand in the same place, which is the worst case for a worker that still uses an earlier
one.  The caller's steps are `Push`, `Lock`, `Check`, `Wait`, `Return`; `WakeSpuriously` is a wake-up nobody asked for.
The worker's are `Begin`, which runs `attach()` or `detach()`, `WorkerLocks`, `SetAndUnlock`, `NotifyOne` and `Pop`.
`NotifyOne` comes after the mutex is released, so the waiter may have returned: by the C++ standard it then uses a
destroyed object.  The effect of that notification is modelled as what the memory now holds allows: it wakes whoever waits
there.  No later call can, because its push waits until the worker has popped the item (`Push` needs an idle worker).
MCSyncCall gives the module's queue and worker names of their own, so that it can stand beside RemoteControl, whose
calls it describes and whose proofs it shares.

**Notifier** composes `Notifier.h` and `Statement.h` with the control, the queue of texts, the database file and its
other users.

| code | action |
|---|---|
| `doorSwitch(true)` up to the first query / `doorSwitch(false)` | `DoorOpens` / `DoorCloses` |
| `lightOverride()`, `coverageAlwaysOn()`, the `get_status` lambda | `LightOverride`, `CoverageAlwaysOn`, `GetStatus` |
| `checkIfInCoverage()`, one query each | `CheckAlwaysOn`, `CheckCoverage` |
| a row of `sendSms()` / of `sendEmail()` / their end | `Text` / `Email` / `NoMoreRows` |
| the UPDATE of `coverageAlwaysOn(bool)` | `Update` |
| `notify()`, and the two queries of `sendStatus()` | `Notify`, `Tell` |
| a result other than a row, busy or an error, which nobody looks at / `SQLITE_ERROR`, which throws | `StatementFails` / `StatementThrows` |
| the constructor's thread against the move | `SmsThreadStarts`, `Moved` |
| `::sendSms()` on its thread | `CurlStarts`, `CurlEnds` |
| go.sh with gpio.sh, or picam.sh alone | `Restart` |
| another program's transaction on the file | `WriterBegins`, `WriterWaits`, `WriterCommits`, `WriterGivesUp` |

`cursor[s]` is the row on which a SELECT has stopped.  A SELECT on a row holds SQLite's shared lock, which is what
`runOnce()` without `clear()` leaves behind when a row matches (`Notifier.h:213-216`).  What is modelled of SQLite is
its locks in the rollback-journal mode, which is the default and which nothing changes: readers share; a writer reserves, waits as `pending`
with new readers kept out, and commits when no reader is left; `SQLITE_BUSY` is the step that is not enabled, and the
loop in `runOnce()` the waiting for it.  A connection that holds the shared lock already reads on past a pending writer,
and its own open SELECTs do not keep it from writing.  `kept`, `failed` and the alert's rows are histories; no guard
reads them.  Abstracted: the two queries of the URL, which always run while another SELECT holds the lock; the rows of a
status, read in one step; the clients.  The time of an opening (`wNow`) is chosen when the item begins.  `Ends` is the
end of the whole process: the locks are gone, the queue of texts is lost, and the pin stays as it is.

**TcpFrames** is the reading half of `TcpConnection.h` once the handshake is done.  `ReadSome` is one `read_some` within `async_read()` with the
completion condition of line 143: it subtracts the bytes of the whole read so far each time it is called, and the
subtraction wraps (`Width`).  `Start`, `Length`, `LengthX`, `MaskingKey` and `PayloadComplete` are the states of `handleFragment()`.
A byte is its place in the client's stream: a header says what its frame says when it is read at that frame's place,
and anything elsewhere.  `Lost` is the `get()` at the end of the buffer, after which what is handed on is made of bytes
that were never there; the model stops there.  Abstracted: pieces have any size up to the room there is (the library reads at most 512
bytes or what is free at a time); opcodes 1 and 2 are one; unmasked frames are in RemoteControl.

**WebClient** is the page's script against a server that runs requests in the order in which they come: `Load`,
`ParseMessage` and `Click` on one side, `Handle` and `DoorSwitch` on the other, and two FIFO channels per page.  What
RemoteControl shows of connections (every observer is told, the last status is the current one) is taken as the
server here.  `Leave` is a page that is closed or cut off; nothing in the script connects again, a `Load` does.
`recording_override()` is left out: the server ignores the request and no status mentions the flag.

**Coverage** is the decision of `Notifier::checkIfInCoverage()` as operators on the rows of the table
`coverage_intervals`: `Covers` for one row, `InCoverage` for all of them and the always-on flag.  Next to it stands the
reference `AroundTheWeek`, the hours met on the way from an interval's begin to its end, over the end of the week if
need be.

**CoverageTable** is what the page does with the same rows: `ParseMessage` takes a status, `StartWalk`, `Walk` and
`EndWalk` are the loop of `write_coverage_in_table()`, one action per turn, `EndMessage` is the end of the fields.
`Field(k)` is the row `sendStatus()` put into field k, after four flags; the page starts at field 6, so it skips two
rows.  Cells that are painted are never cleared, and an interval that wraps around the week (as Saturday 22 to
Sunday 7 in the shipped table) is painted but never matches the decision.  The page and the decision therefore
differ; `PageAgainstDecision` says exactly where, and that they differ nowhere else.  The rows are whatever the
database holds, with weekdays and hours in range: nothing in the code checks them, but Boost throws on a weekday
that is not one.  The flags of a status are left out, and the table does not change while the program runs.

**Pinger** is the program in `ConnectionMonitor/main.cpp`.  Its handlers are actions: `StartSend`, `HandleTimeout`,
`GiveUp` (the fifth error, exit 1), `HandleReceive`; `SendFails` is a `send_to()` that throws (exit 2).  `waits` is the
sequence of asynchronous waits on the timer: `expires_at()` and `cancel()` complete the pending one, and its handler,
which does not look at the error code, runs as if the time had come.  `Tick` is the passing of a second, `network` the
replies under way, each with the number of requests sent since its own: they are delivered in any order, more than
once or never (`Lose`).  A reply outlives at most `Lifetime` later requests, and `Lifetime < SequenceNumbers`: the real
counter has 16 bits and a request takes a second or more, so a number is used again after eighteen hours.  The first
`send_to()`, in the constructor, succeeds.

## The runs

| run | instance | what it shows |
|---|---|---|
| `active_object` | 2 pushing threads, 4 pushes, work that may push to its own queue | types and the reference `wWorkItem`, no lost wake-up, `stop()` drains, no push completes while a function runs, and the safety part of the refinement to WorkQueue |
| `active_object_live` | the same with work that does not | the whole refinement: accepted work that no termination entry precedes is run in the end |
| `gpio_monitor` | Threshold 10, the code's | no flicker, no deafness, a steady door is reported, a stream that fails with the door closed never opens it |
| `remote_control` | 3 connections, 2 edges, 2 requests, 2 departures, connections symmetric | no dangling observer, clients always observed and current, the control follows the door, and the whole implements StatusFeed |
| `remote_control_live` | 2 connections, 2 edges, 2 requests, 1 departure | the worker locking its own mutex is the only way to get stuck; the light follows the door; a status is answered |
| `remote_control_unmasked` | 2 connections, 1 edge, 1 request, 1 departure | a violation, see Findings |
| `pinger` | 4 sequence numbers, replies outlive 3 later requests, up to 3 replies handled between two requests | one chain of requests, never less than a second apart; the error count is the number of requests lost in a row; silence ends the program |
| `coverage_table` | the shipped table; two skipped rows before one or two that end at the edges of days and of the week | the page paints what it reads and nothing else, where it differs from the decision, and every walk ends |
| `notifier` | 2 tables, with a wrapping and a matching interval or none; recipients enabled and not; 2 times; 2 openings' texts waiting; 1 transaction of the operator | every opening is judged by the whole table as it is; an alert is whole; the light across restarts; the lock an alert leaves lasts to the next status and no longer; the two waits that can stop the worker |
| `tcp_frames` | 3 frames of 4 lengths in the 3 forms, 1 longer than the buffer, pieces of any size | messages are handed on as sent until a read in pieces stops too soon; reads in one piece always go through |
| `web_client` | 2 pages, 2 clicks, 2 edges, 3 loads | a page with nothing on its way is right, flags included; every page gets there again and again |
| `sync_call` | 3 calls, 2 items in the queue | the frame outlives its use by the worker, no later call is woken by an earlier one's notification, every call returns |

The properties, in the words of the hazards: see the comment above each in its module.

**Bounds.**  The bounds are named constants and stand in the guards of what the environment does.  `MaxPushes = 4`
lets a caller push twice while another has unlocked but not notified, and puts work on both sides of a termination
entry.  Three connections are one that ends, one that stays, and one that waits to be accepted; with two departures
a second one ends during the life of another.  Two edges open and close the door; two requests set and reset the
override, or put a `get_status` behind a change.  The debounce loop needs no bound: its count has a range and its
histories stop at the threshold.  The safety proofs hold without any of these bounds: what TLC shows on the
small instance TLAPS proves for every number of threads, connections, edges and requests.

`CHECK_DEADLOCK FALSE` is said where the environment may go quiet: nobody has to push, no client has to speak, and a
worker with an empty queue sleeps.  The stuck states that matter are excluded by properties (`EverythingIsRun`).  The
debounce loop never stops, and its run does check for deadlock.  So does the page's, which can always take another
status.  The pinger stops by design, when it exits.

Four sequence numbers with replies that outlive three later requests make numbers come back as soon as they may, and five errors
take more requests than there are numbers.  The tables of `coverage_table` have every pair of the first and last hour
of a first, a middle and a last day, so that walks start and end on the edges, wrap, and overlap a wrapping interval.

In `notifier` one transaction is enough to have a writer before, during and after an alert, and two waiting texts let the
next opening's push wait for curl.  Nothing bounds openings, requests, failures, crashes and restarts: their histories
are reset.  In `tcp_frames` the buffer holds the eight bytes of the longest length and no more, so that all forms are
read, a full buffer happens and a payload does not fit; the lengths that take 2 and 8 bytes to say begin at 2 and 3
instead of 126 and 65536, and a `size_t` has 256 values, which is more than the bytes of a read that fills the buffer
byte by byte can subtract, as it is with the real sizes (`SizesAssumption`).  In `web_client` two clicks on one page cross a status and each
other, two on two pages fight over a flag, and the third load is a page that comes back.  In `sync_call` a third call
follows one that has returned before its notification.

`notifier` and `sync_call` check for deadlock.  `tcp_frames` and `web_client` do not: a connection that has ended and
pages whose clicks are used up may rest.

**Fairness.**  Weak fairness of the steps of a thread that runs: the worker, a caller inside `doPush()`, the io
thread inside a handler (`IoContinues`), the main loop.  Nobody has to push, no client has to send or to leave, and
nothing relies on spurious wake-ups.  The main loop is fair in the iterations that leave the stream as it is
(`Continues`): fairness of the whole loop would ask for a failing read as soon as that is the only step that changes
anything, and every property of a stream that never fails would hold of nothing.  Two assumptions hide in it.  A worker's step ends: clients read what is written
to them and the mail server answers.  And a thread that waits for the mutex gets it: a mutex is not fair, but with
bounded pushes (and, in the code, work that arrives at the pace of people and doors) the queue runs empty and the
worker sleeps, so that weak fairness is enough.  In the pinger, time passes (`Tick`) and the timer's handlers
run (`TimerHandler`); no reply has to come.  In the page, a script that runs keeps running (`Handler`); no status has to
come.

In `notifier` the worker and the SMS thread run (mail server and curl answer), and another program's transaction that waits for the
readers commits when it can, since SQLite's writers retry; a transaction need not be finished (`WriterBegins` and
`WriterWaits` are not fair), nor need it be given up (`WriterGivesUp`).  These are the two exceptions that
`OnlyTheUpdateSticks` names, `LeftOpen` and `MutualWait`.  In `tcp_frames` what was
sent arrives and is handled; in `web_client` the same.  In `sync_call` threads run, and the three waits for a mutex
(`Lock`, `WorkerLocks`, `Push`) are strongly fair: the mutex is free again and again, between which a spurious wake-up
may take it, and with weak fairness a thread could be passed over for ever, which no scheduler of the program's
platform does.

## Findings

`remote_control_unmasked`.  `TcpConnection.h:191` says of an unmasked frame "as per websocket protocol doc, must close
connection to unmasked client".  The handler closes it by returning without a new read, so that the last `shared_ptr`
goes.  If the worker is in `sendStatus()` for that connection at that moment (a status it asked for, or a door edge),
the worker holds a `shared_ptr` as well (`RemoteControl.h:120`), and drops the last one when `send()` returns: it runs
`~RemoteControl()`, which pushes `detach()` to the queue whose mutex this very thread holds.  The worker never
returns, the connection is never closed, and main and io thread stop at their next push.  The same happens to any
connection that ends while a status is written to it; the unmasked frame is the case for which the source states what
must happen.  `EverythingIsRun` shows that there is no other way to get stuck.

## The proofs

`tlapm` checks every proof; no module assumes anything but its constants' named assumptions:

- ActiveObject: the worker is not a caller and `NoThread` is neither; self-pushing functions are functions.
- GpioMonitor: the threshold is a natural number.
- RemoteControl: `Server` and `None` are not connections and differ; the bounds are natural numbers.
- Pinger: there are two sequence numbers or more, and a reply outlives fewer later requests than there are numbers.
- CoverageTable: a table is a sequence of rows.
- Notifier: the tables have their columns' types, times are times, the bounds are natural numbers.
- WebClient: what a page shows before its first status is not a status; the bounds are natural numbers.
- TcpFrames: a payload's length fits its word, the buffer holds the eight bytes of the longest length, and the bytes
  that a read into it can subtract do not exhaust the word.
- MCSyncCall: the bounds are natural numbers.

**ActiveObjectProofs.**  `TypeCorrect`, `WakeupsAreKept`, `StopDrains`, `PushersWait`, `Refinement`.  The inductive
invariant adds to the types who holds the mutex at each position (a caller exactly when `locked`, the worker exactly
at `test`, `run`, `pop` and `selfLocked`), and that the accepted entries are the executed ones followed by the queue
(less the front between its call and its pop).  The second is what makes `StopDrainsTheQueue` and the refinement
steps go through; the first is what makes a wake-up impossible to lose: an emplace cannot come between the worker's
test and its sleep.

**GpioMonitorProofs.**  `TypeCorrect`, `NoDeafness`, `NoFlicker`, `LevelsAreInReach`, `ReadingsCount`,
`FailuresNeverOpen`, for every threshold.  The invariant bounds the
histories by the count: with the debounced value false, the run of high samples is at most the count and the count at
most the evidence; with it true, the same holds for threshold minus the count.
`StepsTo(level)` is how many steps of the loop, heeding a level, are left until it is reported; each of them takes one
off, and a stream that has failed reads a closed door for ever.  `FailedInv` says that what is
pushed after a failure is a closing.

**RemoteControlProofs.**  `TypeCorrect`, `NoDangling`, `Attached`, `StatusIsCurrent`, `DoorIsFollowed`, `LightIsRuled`,
`WaitsAreServed`, `AskersGetTheStatus`, `OpeningsAreLit`, `StatusIsFed`, and on SyncCall `FramesOutliveTheirUse` and `NotificationsAreKept`, for
any number of connections.  The inductive invariant is the conjunction of

- `TypeOK`;
- `LifeInv`: where the io thread is says which connection is under construction or destruction, and an orphan is what
  the worker holds;
- `QueueInv`: an `attach` or `detach` is in the queue only while the io thread waits for it, and only door edges come
  behind it; without this, `synced` could have been set by another's item, or a `get_status` outlive its object;
- `ObserverInv`: who is in the observer list, by life and by what is still queued;
- `PointerInv`: what the worker can reach exists, which `NoDanglingRemoteControl` says;
- `StatusInv`: while an item runs, an observer that is connected is up to date or still in `notifying`;
- `DoorInv` and `LightRule`.

Theorem by theorem the argument is Init, one step per action, and PTL.

`WaitInv` adds to it that who waits for an item has it in the queue (`WaitIsServed`) and that, while a request for the
status is run, its client is yet to be told or has been (`AskersInv`); the first is what would have to fail for the io
thread to wait for nothing.  `FeedInv` adds that the client being written to is no longer in `notifying`
(`SenderInv`), which the refinement of StatusFeed needs: there a client that has been told is owed nothing.  The
refinement is proved step by step: an item that changes a flag is a `Change`, the end of a write a `Tell`, a request an
`Ask`, an accept a `Join`, a connection that ends a `Leave`, and all else stutters.

Of SyncCall the invariant is `SyncInv`: types; the only call pending is the one awaited, its frame is there and its
flag is not set (`PendingInv`); who holds the mutex and what is then known of the flag (`MutexInv`); a flag that is set
is the work of that call's own lambda (`ServedInv`); and who waits with the flag set is about to be notified
(`NotificationIsKept`).  `PendingInv` holds because a push waits for the worker to pop, which is what keeps the
notification that comes too late away from the next call.

**TcpFramesProofs.**  `MessagesAreHandedAsSent` and `NoReadInVain`, for frames in any number and buffers and words of any
size.  The invariant is `TypeInv` (nothing is taken out that has not been put in), `FramesInv` (frames follow each
other), `HandedInv` (what has been handed on is what was sent), `ParserInv` (the parser has read some number of whole
frames, stands in the next one where its state says, and has collected those not handed on), `ReadInv` (a read in one
piece brings what the parser takes next, as far as it fits) and `LostInv` (only a read in pieces or a payload longer
than the buffer makes it take bytes that were never there).  `NoReadInVain` says that a read of whole pieces never
waits for bytes nobody sends: when all that was sent has arrived, every message has been handed on.

**PingerProofs.**  `TypeCorrect`, `ErrorsAreLosses`, `Spaced`, `PatienceIsBounded`, `SilenceEndsIt`.  `TimerInv` ties the waits to the handler that follows and
its deadline, `NetworkInv` ties the number of a reply to its age, so that none under way carries the number of a later
request, and `SilenceInv` is the count itself.  `Patience` counts the steps of clock and timer that are left to a program
whose requests go unanswered; each step takes some, and a stray reply gives none back, because it cannot match.

**CoverageTableProofs.**  `CoversIsAroundTheWeek` compares the decision with the reference for every interval and hour.
`TypeCorrect`, `PaintedCorrectly`, `AgreesWithDecision` and `WalksComeToTheirEnd` hold for every table.  The invariant says that what is
painted lies on the way of some displayed interval (`Sound`), that the intervals of the fields already handled are
painted (`Complete`), and that a walk stands on its interval's way with all that is `Behind` it painted (`WalkInv`);
`AdvanceFacts` is the arithmetic of one step, with the week's end.  `HoursLeft` is the way still to go, one less with
each step.

**NotifierProofs.**  `TypeCorrect`, `LightHolds`, `ChecksAreCurrent`, `AlertsAreWhole`, `LocksAreFromAlerts`,
`ItemsEnd`.  `LightInv` is the light: `mLight`
stands for the demands, and the pin for `mLight`, but for a program started on a lit pin.  `AlertInv` is the alert: a
check starts at the first row; while recipients are read, one of the coverage SELECTs is still on its row, so that the
database is the one decided on; and those told are the enabled ones among the rows passed.  The second conjunct is
needed for the operator's commit: the statement that the code forgets to reset is what keeps recipients from
changing in the middle of an alert (the mutant of `AlertIsWhole` resets it).  `LockInv` says that the recipients'
queries are on a row only while recipients are told, which leaves the two coverage queries as the only ones that can
keep the lock after an item; a status steps both of them to their ends.  `StepsLeft` counts the places and rows that the worker's item has yet to come
to; its own steps, failing statements included, take some off, and only a commit can add any, never in an alert.

**WebClientProofs.**  `TypeCorrect`, `QuietPagesAgree`.  `PageInv`: the last status on its way to a page is the control's, and if there is
none, and no request that would bring one, the page agrees already.

**Only model-checked.**  Liveness under fairness, and whatever mentions ENABLED, is beyond this prover:
`ImplementsWorkQueue`'s fairness, `SteadyDoorIsReported`, `EverythingIsRun`, `OpeningIsLit`,
`GetStatusIsAnswered`, `SilenceIsNoticed`, `WalksEnd`, `OnlyTheUpdateSticks`, `WholeReadsGoThrough`,
`EveryPageCatchesUp`, `EveryCallReturns`, and the violation.  For most of them a theorem states the half that is safety:

| checked by TLC | proved |
|---|---|
| `SteadyDoorIsReported` | `LevelsAreInReach`, `ReadingsCount` |
| `EverythingIsRun` | `WaitsAreServed` |
| `GetStatusIsAnswered` | `AskersGetTheStatus` |
| `OpeningIsLit` | `OpeningsAreLit` |
| `SilenceIsNoticed` | `PatienceIsBounded`, `SilenceEndsIt` |
| `WalksEnd` | `WalksComeToTheirEnd` |
| `OnlyTheUpdateSticks` | `ItemsEnd` |
| `WholeReadsGoThrough` | `NoReadInVain` |
| `EveryCallReturns` | `NotificationsAreKept` |

What remains to TLC in each is that a thread which can step does.  Every safety invariant and action property that a
passing run checks has its theorem.  Induction over data and RECURSIVE operators are beyond the prover too; the modules
have none.

## What the newer modules show of the code

- **Restart (`CameraAndLightControl.h:25`).**  A program started by picam.sh alone on a lit pin believes the light off, and
  `lightOff()` does nothing until something has switched it on.  `LightAcrossRestarts` says that this is the only case.
- **The unreset query (`Notifier.h:213`).**  The query that matched keeps the shared lock after the alert, until it is
  used again.  `DecisionIsCurrent` shows that no later decision is hurt by it, and `AlertIsWhole` that the alert
  depends on it.  But with nobody connected the lock outlasts the item, by as long as it takes until the door opens
  again or a status is told (`LockFromAlertToStatus`), and a writer that has come to its commit waits for it as
  `pending`.  If the next item is a `coverage_always_on`, its UPDATE finds the database busy because of that writer and
  spins in `runOnce()` with the queue's mutex held: worker and writer wait for each other, and main and io thread stop at
  their next push, until the writer gives up.  That is `MutualWait`, a defect of the program's own.  A page that asks for the
  status when it loads takes the lock away first; it needs a client that goes while the door's item and its own
  request are both queued, or one that sends the request and nothing else.  No document of the repository says that it
  cannot happen, so it is no run of its own; TLC shows it when the exception is left out.
- **Busy (`Statement.h:26`).**  Only the UPDATE can wait without end: behind a transaction that somebody leaves open
  (`LeftOpen`), or behind a writer that waits for the worker itself (`MutualWait`, above).
- **The SMS thread (`Notifier.h:20`).**  If it starts after the move it reads a null pointer; the outcome modelled is the
  end of the program.  The `Notifier` is moved long before the first opening, so that this is a failing start, never a lost alert.
- **Reads in pieces (`TcpConnection.h:147`).**  A header or payload that comes in pieces may end its read too early, or
  wrap and wait for more than there is; `HandedAsSent` says that bytes too many do no harm, and that until one is missing
  every message is handed on as sent.
- **Toggles (`WebClient/index.html:119`).**  A status may take a click back on the page; `QuietMeansAgreed` says that this
  never lasts.

## Not modelled, and the plan

| part | why not |
|---|---|
| ServerManager | its options are declared as strings and read as paths, which throws before the loop; nothing to check |
| `TcpServer::stop()`, what follows the loop in `main.cpp`, `~Notifier()`, `stop()` of the SMS queue | unreachable: the loop has no end |
| the bytes of `send()` and of the handshake, and their order on the socket | nothing in the repository says what a client must see of a status before its handshake is answered |
| the SMTP dialogue, curl's arguments, wording, the page's layout | pure output; failures are swallowed, as the Notifier has it |
| SQLite (`sqlite3.h`), hamigaki, Boost.Asio, the ICMP headers | third-party; of SQLite the locks, of Asio the composed read are modelled as external |
| a torn access to `mSender`, a wall clock that is set, an accept loop that has ended | listed as hazards, with the reason why no property covers them |

What is left, in this order: WebClient's server, which is taken from reading RemoteControl, on StatusFeed's promise (a
page's channel carries what `Tell` tells, in its order); the safety half of `EveryPageCatchesUp`; and of `EverythingIsRun`, that the worker locking its own mutex is the only state in which nobody can step.

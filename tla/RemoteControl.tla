---------------------------- MODULE RemoteControl ----------------------------
(***************************************************************************)
(* PiCam as it runs: the main thread that pushes door edges (main.cpp), the*)
(* io_service thread that accepts WebSocket clients and reads their frames *)
(* (TcpServer.h, TcpConnection.h), and the thread of the ActiveObject that *)
(* owns the CameraAndLightControl and, through Subject.h, calls the        *)
(* observers: one RemoteControl (RemoteControl.h) inside each connection,  *)
(* one inside the TcpServer.                                               *)
(*                                                                         *)
(* The work queue is here what module ActiveObject shows it to be: items   *)
(* run one at a time, in order, and a push completes only while none runs. *)
(* RemoteControl objects are raw pointers in the observer list and in the  *)
(* queue; constructor and destructor push attach() or detach() and wait    *)
(* for it to run.  Connections are shared_ptrs: the io thread's pending    *)
(* operation holds one, and sendStatus() another while it sends.           *)
(***************************************************************************)
EXTENDS Naturals, Sequences

CONSTANTS
    Connections,       \* the TcpConnections ever made; names their observers too
    Server,            \* the observer inside the TcpServer, which never sends
    None,              \* no connection, no status
    MaxDoorEdges,      \* bound on the edges of the door
    MaxRequests,       \* bound on the clients' requests
    MaxDepartures      \* bound on the connections that end

ASSUME NamesAssumption ==
    /\ Server \notin Connections
    /\ None \notin Connections \cup {Server}

ASSUME BoundsAssumption ==
    /\ MaxDoorEdges \in Nat
    /\ MaxRequests \in Nat
    /\ MaxDepartures \in Nat

VARIABLES
    \* the control
    mDoorSwitch, mLight, mLightOverride, coverageAlwaysOn, gpioLight,
    mObservers,            \* Subject's list; its order is left open
    \* its ActiveObject
    mWorkQueue,
    worker,                \* what the worker is doing
    notifying,             \* observers that the running item has yet to update
    wSender,               \* the connection sendStatus() holds a reference to
    \* the main thread
    wGpioDebouncedValue,   \* the last door edge pushed
    doorEdges,             \* edges pushed so far
    \* the io_service thread
    io,                    \* what it is doing, and for which connection
    synced,                \* wObserverAttached or wObserverDetached
    life,                  \* life[c]: the life of connection c
    \* the clients
    sent,                  \* sent[c]: the last status written to c
    unmasked,              \* those that have sent an unmasked frame
    requests, departures   \* how many so far

control == <<mDoorSwitch, mLight, mLightOverride, coverageAlwaysOn, gpioLight>>
queueVars == <<mWorkQueue, worker, notifying, wSender>>
mainVars == <<wGpioDebouncedValue, doorEdges>>
ioVars == <<io, synced, life, unmasked, requests, departures>>
vars == <<control, mObservers, queueVars, mainVars, ioVars, sent>>

Control == INSTANCE CameraAndLightControl

\* What sendStatus() writes.  The coverage intervals that follow the flags are
\* those of the database, which nothing here changes.
Status ==
    [doorSwitch |-> mDoorSwitch, light |-> mLight,
     lightOverride |-> mLightOverride, coverageAlwaysOn |-> coverageAlwaysOn]

Statuses ==
    [doorSwitch : BOOLEAN, light : BOOLEAN,
     lightOverride : BOOLEAN, coverageAlwaysOn : BOOLEAN]

\* The lambdas that are pushed, with what they capture: a value, or `this`.
ValueOps == {"doorSwitch", "lightOverride", "coverageAlwaysOn"}
SyncOps == {"attach", "detach"}
Work(op, value) == [op |-> op, value |-> value, this |-> None]
Call(op, c) == [op |-> op, value |-> FALSE, this |-> c]
Items ==
    [op : ValueOps, value : BOOLEAN, this : {None}]
      \cup [op : SyncOps \cup {"getStatus"}, value : {FALSE}, this : Connections]

\* The life of a connection: under construction, given to async_accept(), its
\* client's handshake being read, answered, its frames being read; then no
\* longer held by the io thread but by sendStatus(), being destroyed, gone.
Lives == {"none", "constructing", "accepting", "handshaking", "responding",
          "open", "orphaned", "destroying", "freed"}

\* The connections whose mSender is set and not expired.
Connected == {c \in Connections : life[c] \in {"handshaking", "responding", "open"}}

\* The connections whose RemoteControl exists.
Alive == {c \in Connections : life[c] \notin {"none", "freed"}}

IoSteps == {"run", "pushAttach", "waitAttach", "pushDetach", "waitDetach"}
Running == [at |-> "run", who |-> None]
At(step, c) == [at |-> step, who |-> c]

\* createTcpServer() has returned: the server's own observer is attached, and
\* the first connection's, which waits for a client.
Init ==
    /\ Control!Init
    /\ mWorkQueue = <<>>
    /\ worker = "idle"
    /\ notifying = {}
    /\ wSender = None
    /\ wGpioDebouncedValue = FALSE
    /\ doorEdges = 0
    /\ io = Running
    /\ synced = FALSE
    /\ \E first \in Connections :
          /\ life = [c \in Connections |-> IF c = first THEN "accepting" ELSE "none"]
          /\ mObservers = {Server, first}
    /\ sent = [c \in Connections |-> None]
    /\ unmasked = {}
    /\ requests = 0
    /\ departures = 0

------------------------------------------------------------------------------
\* dataPush(), called by any thread but the worker: it waits for the running
\* item, for workHandler() keeps the mutex until the item is popped.

\* Mutant: emplace_front() instead of emplace_back().
PushFront(item) ==
    /\ worker = "idle"
    /\ mWorkQueue' = <<item>> \o mWorkQueue
    /\ UNCHANGED <<worker, notifying, wSender>>

DataPush(item) ==
    /\ worker = "idle"
    /\ mWorkQueue' = Append(mWorkQueue, item)
    /\ UNCHANGED <<worker, notifying, wSender>>

\* The main thread's debounce loop has seen an edge.
PushDoor ==
    /\ doorEdges < MaxDoorEdges
    /\ DataPush(Work("doorSwitch", ~wGpioDebouncedValue))
    /\ wGpioDebouncedValue' = ~wGpioDebouncedValue
    /\ doorEdges' = doorEdges + 1
    /\ UNCHANGED <<control, mObservers, ioVars, sent>>

------------------------------------------------------------------------------
\* The worker.

\* workHandler() takes the front item, whose lambda is this one.
Takes(op) == worker = "idle" /\ mWorkQueue # <<>> /\ Head(mWorkQueue).op = op

\* Mutant: the lambda attaches and does not tell the constructor.
RunAttachUntold ==
    /\ Takes("attach")
    /\ mObservers' = mObservers \cup {Head(mWorkQueue).this}
    /\ mWorkQueue' = Tail(mWorkQueue)
    /\ UNCHANGED <<control, worker, notifying, wSender, mainVars, ioVars, sent>>

\* The lambdas of the constructor and the destructor: they update the list,
\* and tell the thread that waits.
RunAttach ==
    /\ Takes("attach")
    /\ mObservers' = mObservers \cup {Head(mWorkQueue).this}
    /\ mWorkQueue' = Tail(mWorkQueue)
    /\ synced' = TRUE
    /\ UNCHANGED <<control, worker, notifying, wSender, mainVars, io, life,
                   unmasked, requests, departures, sent>>

RunDetach ==
    /\ Takes("detach")
    /\ mObservers' = mObservers \ {Head(mWorkQueue).this}
    /\ mWorkQueue' = Tail(mWorkQueue)
    /\ synced' = TRUE
    /\ UNCHANGED <<control, worker, notifying, wSender, mainVars, io, life,
                   unmasked, requests, departures, sent>>

\* The observers o are about to be updated, one after the other.
Notify(o) ==
    /\ notifying' = o
    /\ worker' = "update"
    /\ UNCHANGED <<mObservers, mWorkQueue, wSender, mainVars, ioVars, sent>>

\* Mutant: the handler that was copied is updated, not the copy.
RunGetStatusOfServer ==
    /\ Takes("getStatus")
    /\ Notify({Server})
    /\ UNCHANGED control

\* notifyOne(*this).
RunGetStatus ==
    /\ Takes("getStatus")
    /\ Notify({Head(mWorkQueue).this})
    /\ UNCHANGED control

RunDoorSwitch ==
    /\ Takes("doorSwitch")
    /\ Control!DoorSwitch(Head(mWorkQueue).value)
    /\ Notify(mObservers)

RunLightOverride ==
    /\ Takes("lightOverride")
    /\ Control!LightOverride(Head(mWorkQueue).value)
    /\ Notify(mObservers)

\* Mutant: the parameter is stored and nobody is notified.
RunCoverageSilently ==
    /\ Takes("coverageAlwaysOn")
    /\ Control!CoverageAlwaysOn(Head(mWorkQueue).value)
    /\ Notify({})

RunCoverageAlwaysOn ==
    /\ Takes("coverageAlwaysOn")
    /\ Control!CoverageAlwaysOn(Head(mWorkQueue).value)
    /\ Notify(mObservers)

\* update(): mSender.lock() finds no sender, or one that has expired.
UpdateSkips(o) ==
    /\ worker = "update"
    /\ o \in notifying \ Connected
    /\ notifying' = notifying \ {o}
    /\ UNCHANGED <<control, mObservers, mWorkQueue, worker, wSender, mainVars,
                   ioVars, sent>>

\* update(): the worker holds the connection and begins to write to it.
UpdateLocks(c) ==
    /\ worker = "update"
    /\ c \in notifying \cap Connected
    /\ wSender' = c
    /\ worker' = "send"
    /\ notifying' = notifying \ {c}
    /\ UNCHANGED <<control, mObservers, mWorkQueue, mainVars, ioVars, sent>>

\* Mutant: the reference is kept once the status is sent.
SendStatusKeepingSender ==
    /\ worker = "send"
    /\ life[wSender] # "orphaned"
    /\ sent' = [sent EXCEPT ![wSender] = Status]
    /\ worker' = "update"
    /\ UNCHANGED <<control, mObservers, mWorkQueue, notifying, wSender, mainVars,
                   ioVars>>

\* send() returns and wSender goes out of scope while the io thread still holds
\* the connection.
SendStatus ==
    /\ worker = "send"
    /\ life[wSender] # "orphaned"
    /\ sent' = [sent EXCEPT ![wSender] = Status]
    /\ wSender' = None
    /\ worker' = "update"
    /\ UNCHANGED <<control, mObservers, mWorkQueue, notifying, mainVars, ioVars>>

\* send() returns, wSender is the last reference: ~TcpConnection() calls
\* ~RemoteControl(), which pushes to the queue this very thread has locked.
SendStatusToOrphan ==
    /\ worker = "send"
    /\ life[wSender] = "orphaned"
    /\ sent' = [sent EXCEPT ![wSender] = Status]
    /\ worker' = "selfLocked"
    /\ UNCHANGED <<control, mObservers, mWorkQueue, notifying, wSender, mainVars,
                   ioVars>>

\* Every observer is updated: the lambda returns and the item is popped.
FinishItem ==
    /\ worker = "update"
    /\ notifying = {}
    /\ worker' = "idle"
    /\ mWorkQueue' = Tail(mWorkQueue)
    /\ UNCHANGED <<control, mObservers, notifying, wSender, mainVars, ioVars, sent>>

WorkerStep ==
    \/ RunAttach \/ RunDetach
    \/ RunGetStatus \/ RunDoorSwitch \/ RunLightOverride \/ RunCoverageAlwaysOn
    \/ \E o \in Connections \cup {Server} : UpdateSkips(o) \/ UpdateLocks(o)
    \/ SendStatus \/ SendStatusToOrphan \/ FinishItem

------------------------------------------------------------------------------
\* The io_service thread.  A handler runs to its end before the next one, so a
\* handler that waits for the worker keeps every client waiting.

\* handleAccept() without error: listen() sets the sender and reads the
\* handshake, startAccept() makes the next connection.
Accept(c, fresh) ==
    /\ io = Running
    /\ life[c] = "accepting"
    /\ life[fresh] = "none"
    /\ life' = [life EXCEPT ![c] = "handshaking", ![fresh] = "constructing"]
    /\ io' = At("pushAttach", fresh)
    /\ UNCHANGED <<control, mObservers, queueVars, mainVars, synced, unmasked,
                   requests, departures, sent>>

\* RemoteControl(const RemoteControl &), in the connection's constructor.
PushAttach ==
    /\ io.at = "pushAttach"
    /\ DataPush(Call("attach", io.who))
    /\ synced' = FALSE
    /\ io' = At("waitAttach", io.who)
    /\ UNCHANGED <<control, mObservers, mainVars, life, unmasked, requests,
                   departures, sent>>

\* Mutant: the constructor does not wait for the observer to be attached.
AttachNotAwaited ==
    /\ io.at = "waitAttach"
    /\ life' = [life EXCEPT ![io.who] = "accepting"]
    /\ io' = Running
    /\ UNCHANGED <<control, mObservers, queueVars, mainVars, synced, unmasked,
                   requests, departures, sent>>

\* The constructor returns and async_accept() has the connection.
AttachReturns ==
    /\ io.at = "waitAttach"
    /\ synced
    /\ life' = [life EXCEPT ![io.who] = "accepting"]
    /\ io' = Running
    /\ UNCHANGED <<control, mObservers, queueVars, mainVars, synced, unmasked,
                   requests, departures, sent>>

\* handleReadHandshake() has read the empty line and answers.
ReadHandshake(c) ==
    /\ io = Running
    /\ life[c] = "handshaking"
    /\ life' = [life EXCEPT ![c] = "responding"]
    /\ UNCHANGED <<control, mObservers, queueVars, mainVars, io, synced, unmasked,
                   requests, departures, sent>>

\* handleWriteHandshake() starts reading frames.
WriteHandshake(c) ==
    /\ io = Running
    /\ life[c] = "responding"
    /\ life' = [life EXCEPT ![c] = "open"]
    /\ UNCHANGED <<control, mObservers, queueVars, mainVars, io, synced, unmasked,
                   requests, departures, sent>>

\* handleFragment() has a whole masked message and hands it to
\* RemoteControl::operator(), which pushes what it asks for.
Message(c, item) ==
    /\ io = Running
    /\ life[c] = "open"
    /\ requests < MaxRequests
    /\ DataPush(item)
    /\ requests' = requests + 1
    /\ UNCHANGED <<control, mObservers, mainVars, io, synced, life, unmasked,
                   departures, sent>>

ReadMessage(c) ==
    \/ Message(c, Call("getStatus", c))
    \/ \E value \in BOOLEAN : \/ Message(c, Work("lightOverride", value))
                              \/ Message(c, Work("coverageAlwaysOn", value))

\* A handler returns without a new operation, and the io thread's reference to
\* the connection goes.  If it is the last one the connection is destroyed here,
\* and its RemoteControl pushes detach(); else the worker has it now.
Drop(c) ==
    /\ departures < MaxDepartures
    /\ departures' = departures + 1
    /\ \/ /\ wSender = c
          /\ life' = [life EXCEPT ![c] = "orphaned"]
          /\ io' = io
       \/ /\ wSender # c
          /\ life' = [life EXCEPT ![c] = "destroying"]
          /\ io' = At("pushDetach", c)
    /\ UNCHANGED <<control, mObservers, queueVars, mainVars, synced, requests, sent>>

\* handleAccept() with an error: no further connection is made.
AcceptFails(c) ==
    /\ io = Running
    /\ life[c] = "accepting"
    /\ Drop(c)
    /\ UNCHANGED unmasked

\* A handler gets an error, or a frame whose opcode it does not support.
Disconnect(c) ==
    /\ io = Running
    /\ c \in Connected
    /\ Drop(c)
    /\ UNCHANGED unmasked

\* handleFragment() finds a frame that is not masked.
UnmaskedFrame(c) ==
    /\ io = Running
    /\ life[c] = "open"
    /\ Drop(c)
    /\ unmasked' = unmasked \cup {c}

\* ~RemoteControl().
PushDetach ==
    /\ io.at = "pushDetach"
    /\ DataPush(Call("detach", io.who))
    /\ synced' = FALSE
    /\ io' = At("waitDetach", io.who)
    /\ UNCHANGED <<control, mObservers, mainVars, life, unmasked, requests,
                   departures, sent>>

\* Mutant: the destructor does not wait for the observer to be detached.
DetachNotAwaited ==
    /\ io.at = "waitDetach"
    /\ life' = [life EXCEPT ![io.who] = "freed"]
    /\ io' = Running
    /\ UNCHANGED <<control, mObservers, queueVars, mainVars, synced, unmasked,
                   requests, departures, sent>>

\* The destructor returns: the RemoteControl and its connection are gone.
DetachReturns ==
    /\ io.at = "waitDetach"
    /\ synced
    /\ life' = [life EXCEPT ![io.who] = "freed"]
    /\ io' = Running
    /\ UNCHANGED <<control, mObservers, queueVars, mainVars, synced, unmasked,
                   requests, departures, sent>>

\* What the io thread does without hearing from a client.
IoContinues == PushAttach \/ AttachReturns \/ PushDetach \/ DetachReturns

IoHandles(c) ==
    \/ \E fresh \in Connections : Accept(c, fresh)
    \/ AcceptFails(c) \/ ReadHandshake(c) \/ WriteHandshake(c)
    \/ ReadMessage(c) \/ Disconnect(c) \/ UnmaskedFrame(c)

------------------------------------------------------------------------------
Next ==
    \/ PushDoor
    \/ WorkerStep
    \/ IoContinues
    \/ \E c \in Connections : IoHandles(c)

\* The worker and a handler under way go on.  Neither the door nor a client has
\* to do anything.
Fairness == WF_vars(WorkerStep) /\ WF_vars(IoContinues)

Spec == Init /\ [][Next]_vars /\ Fairness

------------------------------------------------------------------------------
\* Properties.

\* Types; the worker has the front item for as long as it runs it, and between
\* two items it owes nobody an update and holds no connection.
TypeOK ==
    /\ Control!TypeOK
    /\ mObservers \subseteq Connections \cup {Server}
    /\ mWorkQueue \in Seq(Items)
    /\ worker \in {"idle", "update", "send", "selfLocked"}
    /\ notifying \subseteq Connections \cup {Server}
    /\ IF worker \in {"send", "selfLocked"} THEN wSender \in Connections
                                            ELSE wSender = None
    /\ IF worker = "idle" THEN notifying = {} ELSE mWorkQueue # <<>>
    /\ wGpioDebouncedValue \in BOOLEAN
    /\ doorEdges \in Nat
    /\ io \in {Running} \cup [at : IoSteps \ {"run"}, who : Connections]
    /\ synced \in BOOLEAN
    /\ life \in [Connections -> Lives]
    /\ sent \in [Connections -> Statuses \cup {None}]
    /\ unmasked \subseteq Connections
    /\ requests \in Nat
    /\ departures \in Nat

\* No RemoteControl is used after its end: every raw pointer the worker can
\* still reach, in the observer list, in the loop over it or captured in the
\* queue, is to an object that exists.  It is about the destructor's wait, and
\* about detach() being behind every get_status of its connection.
NoDanglingRemoteControl ==
    LET queued == {mWorkQueue[i].this : i \in 1 .. Len(mWorkQueue)}
    IN  mObservers \cup notifying \cup queued \subseteq Alive \cup {Server, None}

\* No client goes without updates: from the moment its connection can be
\* accepted until it is destroyed, its observer is in the list.
AttachedWhileConnected ==
    /\ Connected \subseteq mObservers
    /\ {c \in Connections : life[c] = "accepting"} \subseteq mObservers

\* Between two items, whatever was last written to a client that is still
\* connected is the control's present state: no change goes without its
\* notification, and none is overtaken by an older one.
LastStatusIsCurrent ==
    worker = "idle" => \A c \in Connected : sent[c] \in {None, Status}

\* The control's idea of the door is the debounce loop's, up to the edges still
\* in the queue: the last of them is where the door is now.
DoorFollowsGpio ==
    LET first == IF worker = "idle" THEN 1 ELSE 2
        edges == {i \in first .. Len(mWorkQueue) : mWorkQueue[i].op = "doorSwitch"}
    IN  /\ edges = {} => mDoorSwitch = wGpioDebouncedValue
        /\ \A i \in edges : (\A j \in edges : j <= i)
              => mWorkQueue[i].value = wGpioDebouncedValue

\* CameraAndLightControl's rule for the pin, whichever threads asked for what.
LightRule == Control!LightRule

\* Whom the running item has yet to tell the status, and what the clients know.
Owed == (notifying \cup {wSender}) \cap Connected
Seen == [c \in Connections |-> IF c \in Connected THEN sent[c] ELSE None]

Feed == INSTANCE StatusFeed WITH
    status <- Status, pin <- gpioLight, connected <- Connected,
    owed <- Owed, seen <- Seen

\* To its clients PiCam is a status feed: one change at a time, each told to all
\* who are connected before the next, whatever the threads, the queue, and the
\* clients that come and go make of it.
FeedsTheStatus == Feed!Spec

\* The one way to get stuck is the worker locking its own mutex.  If it does
\* not, everything pushed is run and no thread waits for ever, through any
\* mixture of constructors and destructors that wait for the worker and items
\* that hold the queue.
EverythingIsRun ==
    [](worker # "selfLocked")
        => []<>(worker = "idle" /\ mWorkQueue = <<>> /\ io = Running)

\* If the worker does not lock itself, the light follows the door's opening,
\* however many items and clients come first.
OpeningIsLit ==
    [](worker # "selfLocked")
        => (wGpioDebouncedValue ~> (gpioLight \/ ~wGpioDebouncedValue))

\* If the worker does not lock itself, a client that asks for the status and
\* stays gets one.
GetStatusIsAnswered ==
    [](worker # "selfLocked")
        => \A c \in Connections :
              (\E i \in 1 .. Len(mWorkQueue) : mWorkQueue[i] = Call("getStatus", c))
                  ~> (sent[c] # None \/ c \notin Connected)

\* "must close connection to unmasked client" (TcpConnection.h:191): a client
\* whose unmasked frame was read has its connection closed in the end.
UnmaskedClientIsClosed ==
    \A c \in Connections : c \in unmasked ~> life[c] = "freed"
==============================================================================

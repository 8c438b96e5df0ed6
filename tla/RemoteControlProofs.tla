-------------------------- MODULE RemoteControlProofs --------------------------
(***************************************************************************)
(* The safety of RemoteControl for any number of connections, door edges,  *)
(* requests and departures.                                                *)
(***************************************************************************)
EXTENDS RemoteControl, MCSyncCall, SequenceTheorems, TLAPS

\* Which connection the io thread is making or destroying, and which one the
\* worker may be the last to hold.
LifeInv ==
    /\ \A c \in Connections :
          life[c] = "constructing"
            <=> io.at \in {"pushAttach", "waitAttach"} /\ io.who = c
    /\ \A c \in Connections :
          life[c] = "destroying"
            <=> io.at \in {"pushDetach", "waitDetach"} /\ io.who = c
    /\ \A c \in Connections :
          wSender = c => life[c] \in {"handshaking", "responding", "open", "orphaned"}
    /\ \A c \in Connections : life[c] = "orphaned" => wSender = c

\* The lambda of a constructor or destructor in the queue is the one that the
\* io thread waits for; only the main thread pushes behind it, and once it has
\* run only door edges are left.
QueueInv ==
    /\ \A i \in 1 .. Len(mWorkQueue) : mWorkQueue[i].op = "attach" =>
          io = At("waitAttach", mWorkQueue[i].this) /\ ~synced
    /\ \A i \in 1 .. Len(mWorkQueue) : mWorkQueue[i].op = "detach" =>
          io = At("waitDetach", mWorkQueue[i].this) /\ ~synced
    /\ \A i, j \in 1 .. Len(mWorkQueue) :
          i < j /\ mWorkQueue[i].op \in SyncOps => mWorkQueue[j].op = "doorSwitch"
    /\ io.at \in {"waitAttach", "waitDetach"} /\ synced =>
          \A i \in 1 .. Len(mWorkQueue) : mWorkQueue[i].op = "doorSwitch"
    /\ worker # "idle" => mWorkQueue[1].op \notin SyncOps

\* Who is in the observer list.
ObserverInv ==
    /\ \A c \in Connections :
          life[c] \in {"accepting", "handshaking", "responding", "open", "orphaned"}
            => c \in mObservers
    /\ io.at = "waitAttach" /\ synced => io.who \in mObservers
    /\ io.at = "waitDetach" /\ synced => io.who \notin mObservers \cup notifying

\* Every raw pointer is to an object that exists.
PointerInv ==
    /\ \A o \in mObservers \cup notifying : o \in Alive \cup {Server}
    /\ \A i \in 1 .. Len(mWorkQueue) : mWorkQueue[i].this \in Alive \cup {None}

\* A connected client that the running item has updated, or need not update,
\* has the present status if it has any.
StatusInv ==
    /\ \A c \in Connected :
          c \notin notifying /\ c # wSender => sent[c] \in {None, Status}
    /\ \A c \in Connections :
          life[c] \in {"none", "constructing", "accepting"} => sent[c] = None

\* The items that have not begun, and the last door edge among them.
First == IF worker = "idle" THEN 1 ELSE 2
EdgeAt(i) == i \in First .. Len(mWorkQueue) /\ mWorkQueue[i].op = "doorSwitch"

DoorInv ==
    /\ (\A i \in Nat : ~EdgeAt(i)) => mDoorSwitch = wGpioDebouncedValue
    /\ \A i \in Nat :
          EdgeAt(i) /\ (\A j \in Nat : EdgeAt(j) => j <= i)
            => mWorkQueue[i].value = wGpioDebouncedValue

IInv ==
    /\ TypeOK
    /\ LifeInv
    /\ QueueInv
    /\ ObserverInv
    /\ PointerInv
    /\ StatusInv
    /\ DoorInv
    /\ LightRule
------------------------------------------------------------------------------
\* What the lambdas capture.
LEMMA ItemFacts ==
    /\ \A item \in Items :
          /\ item.op \in ValueOps \cup SyncOps \cup {"getStatus"}
          /\ item.op \in ValueOps => item.this = None
          /\ item.op \notin ValueOps => item.this \in Connections
          /\ item.value \in BOOLEAN
    /\ \A op \in ValueOps, value \in BOOLEAN :
          /\ Work(op, value) \in Items
          /\ Work(op, value).op = op
          /\ Work(op, value).value = value
          /\ Work(op, value).this = None
    /\ \A op \in SyncOps \cup {"getStatus"}, c \in Connections :
          /\ Call(op, c) \in Items
          /\ Call(op, c).op = op
          /\ Call(op, c).this = c
BY DEF Items, ValueOps, SyncOps, Work, Call

\* The front item, and what is left once it is popped.
LEMMA FrontFacts ==
    ASSUME TypeOK, mWorkQueue # <<>>
    PROVE  /\ Head(mWorkQueue) = mWorkQueue[1]
           /\ mWorkQueue[1] \in Items
           /\ Len(mWorkQueue) \in Nat \ {0}
           /\ Tail(mWorkQueue) \in Seq(Items)
           /\ Len(Tail(mWorkQueue)) = Len(mWorkQueue) - 1
           /\ \A i \in 1 .. Len(mWorkQueue) - 1 :
                 Tail(mWorkQueue)[i] = mWorkQueue[i + 1]
<1>1. mWorkQueue \in Seq(Items)
    BY DEF TypeOK
<1> QED
    BY <1>1, HeadTailProperties, EmptySeq

\* The queue after a push.
LEMMA PushFacts ==
    ASSUME TypeOK, NEW item \in Items, DataPush(item)
    PROVE  /\ worker = "idle"
           /\ UNCHANGED <<worker, notifying, wSender>>
           /\ mWorkQueue' \in Seq(Items)
           /\ Len(mWorkQueue) \in Nat
           /\ Len(mWorkQueue') = Len(mWorkQueue) + 1
           /\ \A i \in 1 .. Len(mWorkQueue) : mWorkQueue'[i] = mWorkQueue[i]
           /\ mWorkQueue'[Len(mWorkQueue) + 1] = item
<1>1. mWorkQueue \in Seq(Items)
    BY DEF TypeOK
<1> QED
    BY <1>1, AppendProperties DEF DataPush

\* What a step may change of the control.
ControlStep ==
    \/ UNCHANGED control
    \/ \E value \in BOOLEAN : \/ Control!DoorSwitch(value)
                              \/ Control!LightOverride(value)
                              \/ Control!CoverageAlwaysOn(value)

\* Only the worker touches the control, one whole operation at a time.
LEMMA ControlSteps == TypeOK /\ Next => ControlStep
<1> SUFFICES ASSUME TypeOK, Next PROVE ControlStep
    OBVIOUS
<1>1. CASE RunDoorSwitch \/ RunLightOverride \/ RunCoverageAlwaysOn
  <2>1. mWorkQueue # <<>>
    BY <1>1 DEF RunDoorSwitch, RunLightOverride, RunCoverageAlwaysOn, Takes
  <2>2. Head(mWorkQueue).value \in BOOLEAN
    BY <2>1, FrontFacts, ItemFacts
  <2> QED
    BY <1>1, <2>2 DEF RunDoorSwitch, RunLightOverride, RunCoverageAlwaysOn,
           ControlStep
<1> QED
    BY <1>1 DEF Next, PushDoor, WorkerStep, RunAttach, RunDetach, RunGetStatus,
           UpdateSkips, UpdateLocks, SendStatus, SendStatusToOrphan, FinishItem,
           IoContinues, PushAttach, AttachReturns, PushDetach, DetachReturns,
           IoHandles, Accept, AcceptFails, ReadHandshake, WriteHandshake,
           ReadMessage, Message, Disconnect, UnmaskedFrame, Drop, ControlStep

\* The control keeps its types and the rule for the pin.
LEMMA ControlInv ==
    ASSUME Control!TypeOK, LightRule, ControlStep
    PROVE  Control!TypeOK' /\ LightRule'
<1> USE DEF LightRule, Control!LightRule, Control!TypeOK
<1>1. CASE UNCHANGED control
    BY <1>1 DEF control
<1>2. ASSUME NEW value \in BOOLEAN, Control!DoorSwitch(value)
      PROVE  Control!TypeOK' /\ LightRule'
    BY <1>2, Zenon DEF Control!DoorSwitch, Control!LightOn, Control!LightOff
<1>3. ASSUME NEW value \in BOOLEAN, Control!LightOverride(value)
      PROVE  Control!TypeOK' /\ LightRule'
    BY <1>3, Zenon DEF Control!LightOverride, Control!LightOn, Control!LightOff
<1>4. ASSUME NEW value \in BOOLEAN, Control!CoverageAlwaysOn(value)
      PROVE  Control!TypeOK' /\ LightRule'
    BY <1>4 DEF Control!CoverageAlwaysOn
<1> QED
    BY <1>1, <1>2, <1>3, <1>4 DEF ControlStep

------------------------------------------------------------------------------
\* The initial states satisfy the invariant.
LEMMA InitInv == Init => IInv
<1> SUFFICES ASSUME Init PROVE IInv
    OBVIOUS
<1> USE NamesAssumption DEF Init
<1>1. PICK first \in Connections :
         /\ life = [c \in Connections |-> IF c = first THEN "accepting" ELSE "none"]
         /\ mObservers = {Server, first}
    OBVIOUS
<1>2. TypeOK
  <2>1. Control!TypeOK
    BY DEF Control!Init, Control!TypeOK
  <2>2. life \in [Connections -> Lives]
    BY <1>1 DEF Lives
  <2>3. mWorkQueue \in Seq(Items)
    OBVIOUS
  <2>4. mObservers \subseteq Connections \cup {Server}
    BY <1>1
  <2>5. sent \in [Connections -> Statuses \cup {None}]
    OBVIOUS
  <2> QED
    BY <2>1, <2>2, <2>3, <2>4, <2>5 DEF TypeOK
<1>3. LifeInv
    BY <1>1 DEF LifeInv, Running
<1>4. QueueInv
    BY DEF QueueInv, Running
<1>5. ObserverInv
    BY <1>1 DEF ObserverInv, Running
<1>6. PointerInv
    BY <1>1 DEF PointerInv, Alive
<1>7. StatusInv
    BY <1>1 DEF StatusInv, Connected
<1>8. DoorInv
  <2>1. First .. Len(mWorkQueue) = {}
    BY DEF First
  <2>2. mDoorSwitch = wGpioDebouncedValue
    BY DEF Control!Init
  <2> QED
    BY <2>1, <2>2 DEF DoorInv, EdgeAt
<1>9. LightRule
    BY DEF LightRule, Control!LightRule, Control!Init
<1> QED
    BY <1>2, <1>3, <1>4, <1>5, <1>6, <1>7, <1>8, <1>9 DEF IInv

\* Steps of the worker that leave the control, the queue and the lives alone.
Updates ==
    \/ \E o \in Connections \cup {Server} : UpdateSkips(o) \/ UpdateLocks(o)
    \/ SendStatus \/ SendStatusToOrphan

\* Steps that begin an item that ends in updates.
Runs == RunGetStatus \/ RunDoorSwitch \/ RunLightOverride \/ RunCoverageAlwaysOn

\* Steps that pop an item.
Pops == RunAttach \/ RunDetach \/ FinishItem

\* Steps that push one.
Pushes == PushDoor \/ PushAttach \/ PushDetach \/ \E c \in Connections : ReadMessage(c)

\* Steps of the io thread that move a connection through its life.
Moves ==
    \/ AttachReturns \/ DetachReturns
    \/ \E c \in Connections :
          \/ \E fresh \in Connections : Accept(c, fresh)
          \/ ReadHandshake(c) \/ WriteHandshake(c)
          \/ AcceptFails(c) \/ Disconnect(c) \/ UnmaskedFrame(c)

\* These are all the steps.
LEMMA Steps == Next => Updates \/ Runs \/ Pops \/ Pushes \/ Moves
BY DEF Next, Updates, Runs, Pops, Pushes, Moves, WorkerStep, IoContinues, IoHandles

\* The item a step pushes, and what else it changes.
LEMMA PushSteps ==
    ASSUME TypeOK, Pushes
    PROVE  /\ \E item \in Items :
                /\ DataPush(item)
                /\ \/ /\ PushDoor
                      /\ item = Work("doorSwitch", ~wGpioDebouncedValue)
                   \/ PushAttach /\ item = Call("attach", io.who)
                   \/ PushDetach /\ item = Call("detach", io.who)
                   \/ \E c \in Connections :
                         /\ Message(c, item)
                         /\ \/ item = Call("getStatus", c)
                            \/ /\ item.op \in ValueOps \ {"doorSwitch"}
                               /\ item.this = None
           /\ UNCHANGED <<control, mObservers, life, sent>>
<1>1. CASE PushDoor
  <2>1. (~wGpioDebouncedValue) \in BOOLEAN
    OBVIOUS
  <2>2. Work("doorSwitch", ~wGpioDebouncedValue) \in Items
    BY <2>1, ItemFacts DEF ValueOps
  <2> QED
    BY <1>1, <2>2 DEF PushDoor, ioVars
<1>2. CASE PushAttach
  <2>1. io.who \in Connections
    BY <1>2 DEF TypeOK, PushAttach, Running
  <2>2. Call("attach", io.who) \in Items
    BY <2>1, ItemFacts DEF SyncOps
  <2> QED
    BY <1>2, <2>2 DEF PushAttach
<1>3. CASE PushDetach
  <2>1. io.who \in Connections
    BY <1>3 DEF TypeOK, PushDetach, Running
  <2>2. Call("detach", io.who) \in Items
    BY <2>1, ItemFacts DEF SyncOps
  <2> QED
    BY <1>3, <2>2 DEF PushDetach
<1>4. ASSUME NEW c \in Connections, Message(c, Call("getStatus", c))
      PROVE  /\ \E item \in Items :
                  /\ DataPush(item)
                  /\ Message(c, item)
                  /\ item = Call("getStatus", c)
             /\ UNCHANGED <<control, mObservers, life, sent>>
    BY <1>4, ItemFacts DEF Message
<1>5. ASSUME NEW c \in Connections, NEW value \in BOOLEAN,
             NEW op \in ValueOps \ {"doorSwitch"}, Message(c, Work(op, value))
      PROVE  /\ \E item \in Items :
                  /\ DataPush(item)
                  /\ Message(c, item)
                  /\ item.op \in ValueOps \ {"doorSwitch"}
                  /\ item.this = None
             /\ UNCHANGED <<control, mObservers, life, sent>>
  <2>1. /\ Work(op, value) \in Items
        /\ Work(op, value).op = op
        /\ Work(op, value).this = None
    BY ItemFacts
  <2> QED
    BY <1>5, <2>1 DEF Message
<1>6. {"lightOverride", "coverageAlwaysOn"} \subseteq ValueOps \ {"doorSwitch"}
    BY DEF ValueOps
<1>7. ASSUME NEW c \in Connections, ReadMessage(c)
      PROVE  /\ \E item \in Items :
                  /\ DataPush(item)
                  /\ Message(c, item)
                  /\ \/ item = Call("getStatus", c)
                     \/ /\ item.op \in ValueOps \ {"doorSwitch"}
                        /\ item.this = None
             /\ UNCHANGED <<control, mObservers, life, sent>>
  <2>1. CASE Message(c, Call("getStatus", c))
    BY <2>1, <1>4
  <2>2. ASSUME NEW value \in BOOLEAN, Message(c, Work("lightOverride", value))
        PROVE  \E op \in ValueOps \ {"doorSwitch"} : Message(c, Work(op, value))
    BY <2>2, <1>6
  <2>3. ASSUME NEW value \in BOOLEAN, Message(c, Work("coverageAlwaysOn", value))
        PROVE  \E op \in ValueOps \ {"doorSwitch"} : Message(c, Work(op, value))
    BY <2>3, <1>6
  <2> QED
    BY <1>5, <1>7, <2>1, <2>2, <2>3 DEF ReadMessage
<1> QED
    BY <1>1, <1>2, <1>3, <1>7 DEF Pushes

\* The front item begins and the observers to update are chosen.
LEMMA RunSteps ==
    ASSUME TypeOK, Runs
    PROVE  /\ worker = "idle" /\ worker' = "update"
           /\ mWorkQueue # <<>>
           /\ mWorkQueue[1].op \notin SyncOps
           /\ notifying' \in {mObservers, {mWorkQueue[1].this}}
           /\ notifying' # mObservers => RunGetStatus
           /\ UNCHANGED <<mObservers, mWorkQueue, wSender, mainVars, ioVars, sent>>
<1>1. worker = "idle" /\ mWorkQueue # <<>>
    BY DEF Runs, RunGetStatus, RunDoorSwitch, RunLightOverride,
           RunCoverageAlwaysOn, Takes
<1>2. Head(mWorkQueue) = mWorkQueue[1]
    BY <1>1, FrontFacts
<1> QED
    BY <1>1, <1>2 DEF Runs, RunGetStatus, RunDoorSwitch, RunLightOverride,
           RunCoverageAlwaysOn, Takes, Notify, SyncOps

\* An item leaves the queue.
LEMMA PopSteps ==
    ASSUME TypeOK, Pops
    PROVE  /\ mWorkQueue # <<>>
           /\ mWorkQueue' = Tail(mWorkQueue)
           /\ worker' = "idle"
           /\ notifying = {} /\ wSender = None
           /\ UNCHANGED <<control, notifying, wSender, mainVars, io, life, sent>>
BY DEF TypeOK, Pops, RunAttach, RunDetach, FinishItem, Takes, ioVars

\* What changes while observers are updated.
LEMMA UpdateSteps ==
    ASSUME TypeOK, Updates
    PROVE  /\ worker # "idle"
           /\ worker' # "idle"
           /\ notifying' \subseteq notifying
           /\ UNCHANGED <<control, mObservers, mWorkQueue, mainVars, ioVars>>
BY DEF Updates, UpdateSkips, UpdateLocks, SendStatus, SendStatusToOrphan

\* What changes when the io thread moves a connection through its life.
LEMMA MoveSteps ==
    ASSUME Moves
    PROVE  UNCHANGED <<control, mObservers, queueVars, mainVars, synced, sent>>
BY DEF Moves, AttachReturns, DetachReturns, Accept, ReadHandshake, WriteHandshake,
       AcceptFails, Disconnect, UnmaskedFrame, Drop

------------------------------------------------------------------------------
\* Every step keeps the types.
LEMMA TypeStep ==
    ASSUME IInv, Next
    PROVE  TypeOK'
<1>1. TypeOK /\ LifeInv /\ PointerInv
    BY DEF IInv
<1>2. Control!TypeOK'
    BY <1>1, ControlSteps, ControlInv DEF IInv, TypeOK
<1> USE NamesAssumption
<1>3. CASE Updates
  <2> USE <1>1, <1>2, <1>3, UpdateSteps
  <2>1. ASSUME NEW o \in Connections \cup {Server}, UpdateSkips(o)
        PROVE  TypeOK'
    BY <2>1 DEF UpdateSkips, TypeOK, ioVars, mainVars
  <2>2. ASSUME NEW o \in Connections \cup {Server}, UpdateLocks(o)
        PROVE  TypeOK'
    BY <2>2 DEF UpdateLocks, TypeOK, ioVars, mainVars, Connected
  <2>3. CASE SendStatus \/ SendStatusToOrphan
    <3>1. Status \in Statuses
      BY DEF Status, Statuses, TypeOK, Control!TypeOK
    <3>2. sent' \in [Connections -> Statuses \cup {None}]
      BY <2>3, <3>1 DEF SendStatus, SendStatusToOrphan, TypeOK
    <3> QED
      BY <2>3, <3>2 DEF SendStatus, SendStatusToOrphan, TypeOK, ioVars, mainVars
  <2> QED
    BY <2>1, <2>2, <2>3 DEF Updates
<1>4. CASE Runs
  <2>1. mWorkQueue[1] \in Items /\ notifying' \subseteq Connections \cup {Server}
    <3>1. mWorkQueue # <<>> /\ mWorkQueue[1] \in Items
      BY <1>1, <1>4, RunSteps, FrontFacts
    <3>2. CASE RunGetStatus
      <4>1. Head(mWorkQueue).op = "getStatus" /\ notifying' = {Head(mWorkQueue).this}
        BY <3>2 DEF RunGetStatus, Takes, Notify
      <4>2. Head(mWorkQueue).this \in Connections
        BY <1>1, <3>1, <4>1, FrontFacts, ItemFacts DEF ValueOps
      <4> QED
        BY <3>1, <4>1, <4>2
    <3>3. CASE notifying' = mObservers
      BY <1>1, <3>1, <3>3 DEF TypeOK
    <3> QED
      BY <1>1, <1>4, <3>2, <3>3, RunSteps
  <2> QED
    BY <1>1, <1>2, <1>4, <2>1, RunSteps DEF TypeOK, ioVars, mainVars
<1>5. CASE Pops
  <2>1. /\ mWorkQueue # <<>>
        /\ mWorkQueue' \in Seq(Items)
    BY <1>1, <1>5, PopSteps, FrontFacts
  <2>2. mObservers' \subseteq Connections \cup {Server}
    <3>1. CASE RunAttach
      <4>1. Head(mWorkQueue).op = "attach" /\ Head(mWorkQueue) \in Items
        BY <1>1, <2>1, <3>1, FrontFacts DEF RunAttach, Takes
      <4>2. Head(mWorkQueue).this \in Connections
        BY <4>1, ItemFacts DEF ValueOps
      <4> QED
        BY <1>1, <3>1, <4>2 DEF RunAttach, TypeOK
    <3>2. CASE RunDetach \/ FinishItem
      BY <1>1, <3>2 DEF RunDetach, FinishItem, TypeOK
    <3> QED
      BY <1>5, <3>1, <3>2 DEF Pops
  <2>3. synced' \in BOOLEAN /\ UNCHANGED <<unmasked, requests, departures>>
    BY <1>1, <1>5 DEF Pops, RunAttach, RunDetach, FinishItem, TypeOK, ioVars
  <2> QED
    BY <1>1, <1>2, <1>5, <2>1, <2>2, <2>3, PopSteps DEF TypeOK, mainVars
<1>6. CASE Pushes
  <2>1. PICK item \in Items :
           /\ DataPush(item)
           /\ PushDoor \/ PushAttach \/ PushDetach
                \/ \E c \in Connections : Message(c, item)
    BY <1>1, <1>6, PushSteps
  <2>2. /\ mWorkQueue' \in Seq(Items)
        /\ worker = "idle"
        /\ UNCHANGED <<worker, notifying, wSender>>
    BY <1>1, <2>1, PushFacts
  <2>3. UNCHANGED <<control, mObservers, life, sent>>
    BY <1>1, <1>6, PushSteps
  <2>0. wGpioDebouncedValue' \in BOOLEAN
    <3>1. CASE PushDoor
      BY <3>1, Zenon DEF PushDoor
    <3>2. CASE PushAttach \/ PushDetach \/ \E c \in Connections : Message(c, item)
      BY <1>1, <3>2 DEF PushAttach, PushDetach, Message, TypeOK, mainVars
    <3> QED
      BY <2>1, <3>1, <3>2
  <2>4. /\ doorEdges' \in Nat
        /\ synced' \in BOOLEAN
        /\ unmasked' \subseteq Connections
        /\ requests' \in Nat
        /\ departures' \in Nat
    <3>1. CASE PushDoor
      BY <1>1, <3>1 DEF PushDoor, TypeOK, ioVars
    <3>2. CASE PushAttach \/ PushDetach
      BY <1>1, <3>2 DEF PushAttach, PushDetach, TypeOK, mainVars
    <3>3. ASSUME NEW c \in Connections, Message(c, item)
          PROVE  /\ UNCHANGED <<doorEdges, synced, unmasked, departures>>
                 /\ requests' = requests + 1
      BY <3>3 DEF Message, mainVars
    <3> QED
      BY <1>1, <2>1, <3>1, <3>2, <3>3 DEF TypeOK
  <2>5. io' \in {Running} \cup [at : IoSteps \ {"run"}, who : Connections]
    <3>1. CASE PushDoor \/ \E c \in Connections : Message(c, item)
      BY <1>1, <3>1 DEF PushDoor, Message, TypeOK, ioVars
    <3>2. CASE PushAttach \/ PushDetach
      <4>1. io.who \in Connections
        BY <1>1, <3>2 DEF PushAttach, PushDetach, TypeOK, Running
      <4> QED
        BY <3>2, <4>1 DEF PushAttach, PushDetach, At, IoSteps
    <3> QED
      BY <2>1, <3>1, <3>2
  <2> QED
    BY <1>1, <1>2, <2>0, <2>2, <2>3, <2>4, <2>5 DEF TypeOK
<1>7. CASE Moves
  <2>1. UNCHANGED <<control, mObservers, queueVars, mainVars, synced, sent>>
    BY <1>7, MoveSteps
  <2>2. /\ life' \in [Connections -> Lives]
        /\ unmasked' \subseteq Connections
        /\ requests' \in Nat
        /\ departures' \in Nat
    BY <1>1, <1>7 DEF Moves, AttachReturns, DetachReturns, Accept, ReadHandshake,
       WriteHandshake, AcceptFails, Disconnect, UnmaskedFrame, Drop, TypeOK, Lives
  <2>3. io' \in {Running} \cup [at : IoSteps \ {"run"}, who : Connections]
    <3>1. \A c \in Connections, at \in IoSteps \ {"run"} :
             At(at, c) \in [at : IoSteps \ {"run"}, who : Connections]
      BY DEF At
    <3>2. {"pushAttach", "pushDetach"} \subseteq IoSteps \ {"run"}
      BY DEF IoSteps
    <3> QED
      BY <1>1, <1>7, <3>1, <3>2 DEF Moves, AttachReturns, DetachReturns, Accept,
         ReadHandshake, WriteHandshake, AcceptFails, Disconnect, UnmaskedFrame,
         Drop, TypeOK
  <2> QED
    BY <1>1, <1>2, <2>1, <2>2, <2>3 DEF TypeOK, queueVars, mainVars
<1> QED
    BY <1>3, <1>4, <1>5, <1>6, <1>7, Steps

\* Every step keeps the account of who holds which connection.
LEMMA LifeStep ==
    ASSUME IInv, Next
    PROVE  LifeInv'
<1>1. TypeOK /\ LifeInv
    BY DEF IInv
<1> USE NamesAssumption
<1>2. CASE Updates
  <2>1. ASSUME NEW o \in Connections \cup {Server}, UpdateSkips(o) PROVE LifeInv'
    BY <1>1, <2>1 DEF UpdateSkips, LifeInv, ioVars
  <2>2. ASSUME NEW o \in Connections \cup {Server}, UpdateLocks(o) PROVE LifeInv'
    BY <1>1, <2>2 DEF UpdateLocks, LifeInv, ioVars, Connected, TypeOK
  <2>3. CASE SendStatus
    BY <1>1, <2>3 DEF SendStatus, LifeInv, ioVars, TypeOK
  <2>4. CASE SendStatusToOrphan
    BY <1>1, <2>4 DEF SendStatusToOrphan, LifeInv, ioVars
  <2> QED
    BY <1>2, <2>1, <2>2, <2>3, <2>4 DEF Updates
<1>3. CASE Runs
    BY <1>1, <1>3, RunSteps DEF LifeInv, ioVars
<1>4. CASE Pops
    BY <1>1, <1>4, PopSteps DEF LifeInv
<1>5. CASE Pushes
  <2>1. UNCHANGED <<life, wSender>>
    BY <1>1, <1>5, PushSteps, PushFacts
  <2>2. CASE io' = io
    BY <1>1, <2>1, <2>2 DEF LifeInv
  <2>3. CASE PushAttach
    BY <1>1, <2>1, <2>3 DEF LifeInv, PushAttach, At
  <2>4. CASE PushDetach
    BY <1>1, <2>1, <2>4 DEF LifeInv, PushDetach, At
  <2>5. io' = io \/ PushAttach \/ PushDetach
    BY <1>5 DEF Pushes, PushDoor, ReadMessage, Message, ioVars
  <2> QED
    BY <2>2, <2>3, <2>4, <2>5
<1>6. CASE Moves
  <2> USE <1>1 DEF TypeOK, LifeInv, Running, At
  <2>1. CASE AttachReturns
    BY <2>1 DEF AttachReturns, queueVars
  <2>2. CASE DetachReturns
    BY <2>2 DEF DetachReturns, queueVars
  <2>3. ASSUME NEW c \in Connections, NEW fresh \in Connections, Accept(c, fresh)
        PROVE  LifeInv'
    BY <2>3 DEF Accept, queueVars
  <2>4. ASSUME NEW c \in Connections, ReadHandshake(c) \/ WriteHandshake(c)
        PROVE  LifeInv'
    BY <2>4 DEF ReadHandshake, WriteHandshake, queueVars
  <2>5. ASSUME NEW c \in Connections,
               AcceptFails(c) \/ Disconnect(c) \/ UnmaskedFrame(c)
        PROVE  LifeInv'
    <3>1. /\ io = Running
          /\ life[c] \in {"accepting", "handshaking", "responding", "open"}
          /\ Drop(c)
      BY <2>5 DEF AcceptFails, Disconnect, UnmaskedFrame, Connected
    <3> QED
      BY <3>1 DEF Drop, queueVars
  <2> QED
    BY <1>6, <2>1, <2>2, <2>3, <2>4, <2>5 DEF Moves
<1> QED
    BY <1>2, <1>3, <1>4, <1>5, <1>6, Steps

\* Every step keeps the order of the constructors' and destructors' items.
LEMMA QueueStep ==
    ASSUME IInv, Next
    PROVE  QueueInv'
<1>1. TypeOK /\ LifeInv /\ QueueInv
    BY DEF IInv
<1>2. CASE Updates
    BY <1>1, <1>2, UpdateSteps DEF QueueInv, ioVars
<1>3. CASE Runs
    BY <1>1, <1>3, RunSteps DEF QueueInv, ioVars
<1>4. CASE Pops
  <2>1. /\ mWorkQueue # <<>>
        /\ mWorkQueue' = Tail(mWorkQueue)
        /\ worker' = "idle"
        /\ io' = io
    BY <1>1, <1>4, PopSteps
  <2>2. /\ Len(mWorkQueue) \in Nat \ {0}
        /\ Head(mWorkQueue) = mWorkQueue[1]
        /\ Len(mWorkQueue') = Len(mWorkQueue) - 1
        /\ \A i \in 1 .. Len(mWorkQueue) - 1 : mWorkQueue'[i] = mWorkQueue[i + 1]
    BY <1>1, <2>1, FrontFacts
  <2>3. \A i \in 1 .. Len(mWorkQueue') :
           /\ i + 1 \in 1 .. Len(mWorkQueue)
           /\ mWorkQueue'[i] = mWorkQueue[i + 1]
    BY <2>2
  <2>4. ASSUME NEW i \in 1 .. Len(mWorkQueue'), NEW j \in 1 .. Len(mWorkQueue'),
               i < j, mWorkQueue'[i].op \in SyncOps
        PROVE  mWorkQueue'[j].op = "doorSwitch"
    <3>1. i + 1 < j + 1
      BY <2>2, <2>4
    <3>2. mWorkQueue[i + 1].op \in SyncOps
      BY <2>3, <2>4
    <3>3. mWorkQueue[j + 1].op = "doorSwitch"
      BY <1>1, <2>3, <3>1, <3>2 DEF QueueInv
    <3> QED
      BY <2>3, <3>3
  <2>5. CASE FinishItem
    <3>1. synced' = synced
      BY <2>5 DEF FinishItem, ioVars
    <3> QED
      BY <1>1, <2>1, <2>3, <2>4, <3>1 DEF QueueInv
  <2>6. CASE RunAttach \/ RunDetach
    <3>1. mWorkQueue[1].op \in SyncOps
      BY <2>2, <2>6 DEF RunAttach, RunDetach, Takes, SyncOps
    <3>2. \A i \in 1 .. Len(mWorkQueue') : mWorkQueue'[i].op = "doorSwitch"
      <4> TAKE i \in 1 .. Len(mWorkQueue')
      <4>1. 1 \in 1 .. Len(mWorkQueue) /\ 1 < i + 1 /\ i + 1 \in 1 .. Len(mWorkQueue)
        BY <2>2, <2>3
      <4> QED
        BY <1>1, <2>3, <3>1, <4>1 DEF QueueInv
    <3> QED
      BY <2>1, <2>4, <3>2 DEF QueueInv
  <2> QED
    BY <1>4, <2>5, <2>6 DEF Pops
<1>5. CASE Pushes
  <2>1. PICK item \in Items :
           /\ DataPush(item)
           /\ \/ PushDoor /\ item = Work("doorSwitch", ~wGpioDebouncedValue)
              \/ PushAttach /\ item = Call("attach", io.who)
              \/ PushDetach /\ item = Call("detach", io.who)
              \/ \E c \in Connections :
                    /\ Message(c, item)
                    /\ \/ item = Call("getStatus", c)
                       \/ item.op \in ValueOps \ {"doorSwitch"}
    BY <1>1, <1>5, PushSteps
  <2>2. /\ worker' = "idle"
        /\ Len(mWorkQueue) \in Nat
        /\ Len(mWorkQueue') = Len(mWorkQueue) + 1
        /\ \A i \in 1 .. Len(mWorkQueue) : mWorkQueue'[i] = mWorkQueue[i]
        /\ mWorkQueue'[Len(mWorkQueue) + 1] = item
    BY <1>1, <2>1, PushFacts
  <2>3. CASE PushDoor /\ item = Work("doorSwitch", ~wGpioDebouncedValue)
    <3>1. item.op = "doorSwitch"
      BY <2>3 DEF Work
    <3>2. io' = io /\ synced' = synced
      BY <2>3 DEF PushDoor, ioVars
    <3>3. \A i \in 1 .. Len(mWorkQueue') :
             \/ i \in 1 .. Len(mWorkQueue) /\ mWorkQueue'[i] = mWorkQueue[i]
             \/ i = Len(mWorkQueue) + 1 /\ mWorkQueue'[i].op = "doorSwitch"
      BY <2>2, <3>1
    <3> QED
      BY <1>1, <2>2, <3>2, <3>3 DEF QueueInv, SyncOps
  <2>4. CASE io.at \notin {"waitAttach", "waitDetach"}
    <3>1. \A i \in 1 .. Len(mWorkQueue) : mWorkQueue[i].op \notin SyncOps
      BY <1>1, <2>4 DEF QueueInv, SyncOps, At
    <3>2. \A i \in 1 .. Len(mWorkQueue') :
             \/ i \in 1 .. Len(mWorkQueue) /\ mWorkQueue'[i].op \notin SyncOps
             \/ i = Len(mWorkQueue) + 1 /\ mWorkQueue'[i] = item
      BY <2>2, <3>1
    <3>3. ASSUME NEW i \in 1 .. Len(mWorkQueue'), NEW j \in 1 .. Len(mWorkQueue'),
                 i < j
          PROVE  mWorkQueue'[i].op \notin SyncOps
      BY <2>2, <3>2, <3>3
    <3>4. CASE PushAttach /\ item = Call("attach", io.who)
      <4>1. /\ io' = At("waitAttach", io.who)
            /\ ~synced'
            /\ item.op = "attach" /\ item.this = io.who
        BY <3>4 DEF PushAttach, Call
      <4> QED
        BY <2>2, <3>2, <3>3, <4>1 DEF QueueInv, SyncOps
    <3>5. CASE PushDetach /\ item = Call("detach", io.who)
      <4>1. /\ io' = At("waitDetach", io.who)
            /\ ~synced'
            /\ item.op = "detach" /\ item.this = io.who
        BY <3>5 DEF PushDetach, Call
      <4> QED
        BY <2>2, <3>2, <3>3, <4>1 DEF QueueInv, SyncOps
    <3>6. CASE \E c \in Connections :
                  /\ Message(c, item)
                  /\ \/ item = Call("getStatus", c)
                     \/ item.op \in ValueOps \ {"doorSwitch"}
      <4>1. io' = io /\ item.op \notin SyncOps
        BY <3>6 DEF Message, Call, ValueOps, SyncOps
      <4> QED
        BY <2>2, <2>4, <3>2, <3>3, <4>1 DEF QueueInv, SyncOps
    <3> QED
      BY <2>1, <2>3, <3>4, <3>5, <3>6
  <2>5. PushDoor \/ io.at \notin {"waitAttach", "waitDetach"}
    BY <2>1 DEF PushAttach, PushDetach, Message, Running
  <2> QED
    BY <2>1, <2>3, <2>4, <2>5 DEF PushAttach, PushDetach, Message, Running
<1>6. CASE Moves
  <2>1. UNCHANGED <<mWorkQueue, worker, synced>>
    BY <1>6, MoveSteps DEF queueVars
  <2>2. CASE AttachReturns \/ DetachReturns
    <3>1. synced /\ io.at \in {"waitAttach", "waitDetach"} /\ io' = Running
      BY <2>2 DEF AttachReturns, DetachReturns
    <3> QED
      BY <1>1, <2>1, <3>1 DEF QueueInv, Running
  <2>3. CASE io = Running
    <3>1. io' = Running \/ \E c \in Connections :
                             io' \in {At("pushAttach", c), At("pushDetach", c)}
      BY <1>6, <2>3 DEF Moves, AttachReturns, DetachReturns, Accept, ReadHandshake,
         WriteHandshake, AcceptFails, Disconnect, UnmaskedFrame, Drop
    <3>2. io'.at \notin {"waitAttach", "waitDetach"}
      BY <3>1 DEF Running, At
    <3>3. \A i \in 1 .. Len(mWorkQueue) : mWorkQueue[i].op \notin SyncOps
      BY <1>1, <2>3 DEF QueueInv, SyncOps, At, Running
    <3> QED
      BY <1>1, <2>1, <3>2, <3>3 DEF QueueInv, SyncOps
  <2>4. AttachReturns \/ DetachReturns \/ io = Running
    BY <1>6 DEF Moves, Accept, ReadHandshake, WriteHandshake, AcceptFails,
       Disconnect, UnmaskedFrame
  <2> QED
    BY <2>2, <2>3, <2>4
<1> QED
    BY <1>2, <1>3, <1>4, <1>5, <1>6, Steps

\* Every step keeps the observers of the connections in the list.
LEMMA ObserverStep ==
    ASSUME IInv, Next
    PROVE  ObserverInv'
<1>1. TypeOK /\ LifeInv /\ QueueInv /\ ObserverInv /\ PointerInv
    BY DEF IInv
<1>2. CASE Updates
    BY <1>1, <1>2, UpdateSteps DEF ObserverInv, ioVars
<1>3. CASE Runs
  <2>1. /\ notifying' \in {mObservers, {mWorkQueue[1].this}}
        /\ mWorkQueue # <<>>
        /\ UNCHANGED <<mObservers, ioVars>>
    BY <1>1, <1>3, RunSteps
  <2>2. ASSUME io.at = "waitDetach", synced PROVE io.who \notin notifying'
    <3>1. 1 \in 1 .. Len(mWorkQueue) /\ Head(mWorkQueue) = mWorkQueue[1]
      BY <1>1, <2>1, FrontFacts
    <3>2. mWorkQueue[1].op = "doorSwitch"
      BY <1>1, <2>2, <3>1 DEF QueueInv
    <3>3. notifying' = mObservers
      BY <1>1, <1>3, <3>1, <3>2, RunSteps DEF RunGetStatus, Takes
    <3> QED
      BY <1>1, <2>2, <3>3 DEF ObserverInv
  <2> QED
    BY <1>1, <2>1, <2>2 DEF ObserverInv, ioVars
<1>4. CASE Pops
  <2>1. /\ mWorkQueue # <<>>
        /\ notifying = {}
        /\ UNCHANGED <<io, life, notifying>>
    BY <1>1, <1>4, PopSteps
  <2>2. 1 \in 1 .. Len(mWorkQueue) /\ Head(mWorkQueue) = mWorkQueue[1]
    BY <1>1, <2>1, FrontFacts
  <2>3. CASE RunAttach
    <3>1. /\ mObservers' = mObservers \cup {mWorkQueue[1].this}
          /\ io = At("waitAttach", mWorkQueue[1].this)
      BY <1>1, <2>2, <2>3 DEF RunAttach, Takes, QueueInv
    <3> QED
      BY <1>1, <2>1, <3>1 DEF ObserverInv, At
  <2>4. CASE RunDetach
    <3>1. /\ mObservers' = mObservers \ {mWorkQueue[1].this}
          /\ io = At("waitDetach", mWorkQueue[1].this)
      BY <1>1, <2>2, <2>4 DEF RunDetach, Takes, QueueInv
    <3>2. io.who \in Connections => life[io.who] = "destroying"
      BY <1>1, <3>1 DEF LifeInv, At
    <3> QED
      BY <1>1, <2>1, <3>1, <3>2 DEF ObserverInv, At
  <2>5. CASE FinishItem
    BY <1>1, <2>5 DEF FinishItem, ObserverInv, ioVars
  <2> QED
    BY <1>4, <2>3, <2>4, <2>5 DEF Pops
<1>5. CASE Pushes
  <2>1. UNCHANGED <<mObservers, life, notifying>>
    BY <1>1, <1>5, PushSteps, PushFacts
  <2>2. \/ UNCHANGED <<io, synced>>
        \/ ~synced'
    BY <1>5 DEF Pushes, PushDoor, PushAttach, PushDetach, ReadMessage, Message,
       ioVars
  <2> QED
    BY <1>1, <2>1, <2>2 DEF ObserverInv
<1>6. CASE Moves
  <2>1. UNCHANGED <<mObservers, notifying, synced>>
    BY <1>6, MoveSteps DEF queueVars
  <2> USE <1>1, <2>1 DEF ObserverInv, LifeInv, TypeOK, Running, At
  <2>2. CASE AttachReturns
    BY <2>2 DEF AttachReturns
  <2>3. CASE DetachReturns
    BY <2>3 DEF DetachReturns
  <2>4. ASSUME NEW c \in Connections, NEW fresh \in Connections, Accept(c, fresh)
        PROVE  ObserverInv'
    BY <2>4 DEF Accept
  <2>5. ASSUME NEW c \in Connections, ReadHandshake(c) \/ WriteHandshake(c)
        PROVE  ObserverInv'
    BY <2>5 DEF ReadHandshake, WriteHandshake
  <2>6. ASSUME NEW c \in Connections,
               AcceptFails(c) \/ Disconnect(c) \/ UnmaskedFrame(c)
        PROVE  ObserverInv'
    <3>1. /\ io = Running
          /\ life[c] \in {"accepting", "handshaking", "responding", "open"}
          /\ Drop(c)
      BY <2>6 DEF AcceptFails, Disconnect, UnmaskedFrame, Connected
    <3> QED
      BY <3>1 DEF Drop
  <2> QED
    BY <1>6, <2>2, <2>3, <2>4, <2>5, <2>6 DEF Moves
<1> QED
    BY <1>2, <1>3, <1>4, <1>5, <1>6, Steps

\* Every step keeps the pointers to objects that exist.
LEMMA PointerStep ==
    ASSUME IInv, Next
    PROVE  PointerInv'
<1>1. TypeOK /\ LifeInv /\ QueueInv /\ ObserverInv /\ PointerInv
    BY DEF IInv
<1> USE NamesAssumption
<1>2. CASE Updates
    BY <1>1, <1>2, UpdateSteps DEF PointerInv, Alive, ioVars
<1>3. CASE Runs
  <2>1. /\ mWorkQueue # <<>>
        /\ notifying' \in {mObservers, {mWorkQueue[1].this}}
        /\ notifying' # mObservers => RunGetStatus
        /\ UNCHANGED <<mObservers, mWorkQueue, life>>
    BY <1>1, <1>3, RunSteps DEF ioVars
  <2>2. 1 \in 1 .. Len(mWorkQueue) /\ Head(mWorkQueue) = mWorkQueue[1]
        /\ mWorkQueue[1] \in Items
    BY <1>1, <2>1, FrontFacts
  <2>3. CASE RunGetStatus
    <3>1. mWorkQueue[1].op = "getStatus"
      BY <2>2, <2>3 DEF RunGetStatus, Takes
    <3>2. mWorkQueue[1].this \in Connections
      BY <2>2, <3>1, ItemFacts DEF ValueOps
    <3>3. mWorkQueue[1].this \in Alive
      BY <1>1, <2>2, <3>2 DEF PointerInv
    <3> QED
      BY <1>1, <2>1, <3>3 DEF PointerInv, Alive
  <2>4. CASE notifying' = mObservers
    BY <1>1, <2>1, <2>4 DEF PointerInv, Alive
  <2> QED
    BY <2>1, <2>3, <2>4
<1>4. CASE Pops
  <2>1. /\ mWorkQueue # <<>>
        /\ mWorkQueue' = Tail(mWorkQueue)
        /\ UNCHANGED <<notifying, life>>
    BY <1>1, <1>4, PopSteps
  <2>2. /\ 1 \in 1 .. Len(mWorkQueue)
        /\ Head(mWorkQueue) = mWorkQueue[1]
        /\ mWorkQueue[1] \in Items
        /\ \A i \in 1 .. Len(mWorkQueue') :
              i + 1 \in 1 .. Len(mWorkQueue) /\ mWorkQueue'[i] = mWorkQueue[i + 1]
    BY <1>1, <2>1, FrontFacts
  <2>3. \A o \in mObservers' : o \in Alive \cup {Server}
    <3>1. CASE RunAttach
      <4>1. mWorkQueue[1].op = "attach"
        BY <2>2, <3>1 DEF RunAttach, Takes
      <4>2. mWorkQueue[1].this \in Connections
        BY <2>2, <4>1, ItemFacts DEF ValueOps
      <4>3. mWorkQueue[1].this \in Alive
        BY <1>1, <2>2, <4>2 DEF PointerInv
      <4> QED
        BY <1>1, <2>2, <3>1, <4>3 DEF RunAttach, PointerInv
    <3>2. CASE RunDetach \/ FinishItem
      BY <1>1, <3>2 DEF RunDetach, FinishItem, PointerInv
    <3> QED
      BY <1>4, <3>1, <3>2 DEF Pops
  <2> QED
    BY <1>1, <2>1, <2>2, <2>3 DEF PointerInv, Alive
<1>5. CASE Pushes
  <2>1. PICK item \in Items :
           /\ DataPush(item)
           /\ \/ PushDoor /\ item = Work("doorSwitch", ~wGpioDebouncedValue)
              \/ PushAttach /\ item = Call("attach", io.who)
              \/ PushDetach /\ item = Call("detach", io.who)
              \/ \E c \in Connections :
                    /\ Message(c, item)
                    /\ item = Call("getStatus", c) \/ item.this = None
    BY <1>1, <1>5, PushSteps
  <2>2. /\ UNCHANGED notifying
        /\ \A i \in 1 .. Len(mWorkQueue') :
              \/ i \in 1 .. Len(mWorkQueue) /\ mWorkQueue'[i] = mWorkQueue[i]
              \/ mWorkQueue'[i] = item
    BY <1>1, <2>1, PushFacts
  <2>3. UNCHANGED <<mObservers, life>>
    BY <1>1, <1>5, PushSteps
  <2>4. item.this \in Alive \cup {None}
    <3>1. CASE PushDoor /\ item = Work("doorSwitch", ~wGpioDebouncedValue)
      BY <3>1 DEF Work
    <3>2. CASE PushAttach /\ item = Call("attach", io.who)
      <4>1. io.who \in Connections /\ life[io.who] = "constructing"
        BY <1>1, <3>2 DEF PushAttach, TypeOK, LifeInv, Running
      <4> QED
        BY <3>2, <4>1 DEF Call, Alive
    <3>3. CASE PushDetach /\ item = Call("detach", io.who)
      <4>1. io.who \in Connections /\ life[io.who] = "destroying"
        BY <1>1, <3>3 DEF PushDetach, TypeOK, LifeInv, Running
      <4> QED
        BY <3>3, <4>1 DEF Call, Alive
    <3>4. ASSUME NEW c \in Connections, Message(c, item),
                 item = Call("getStatus", c) \/ item.this = None
          PROVE  item.this \in Alive \cup {None}
      BY <3>4 DEF Message, Call, Alive
    <3> QED
      BY <2>1, <3>1, <3>2, <3>3, <3>4
  <2> QED
    BY <1>1, <2>2, <2>3, <2>4 DEF PointerInv, Alive
<1>6. CASE Moves
  <2>1. UNCHANGED <<mObservers, mWorkQueue, notifying, synced>>
    BY <1>6, MoveSteps DEF queueVars
  <2>2. CASE DetachReturns
    <3>1. /\ io.at = "waitDetach" /\ synced /\ io.who \in Connections
          /\ life' = [life EXCEPT ![io.who] = "freed"]
      BY <1>1, <2>2 DEF DetachReturns, TypeOK, Running
    <3>2. io.who \notin mObservers \cup notifying
      BY <1>1, <3>1 DEF ObserverInv
    <3>3. \A i \in 1 .. Len(mWorkQueue) : mWorkQueue[i].op = "doorSwitch"
      BY <1>1, <3>1 DEF QueueInv
    <3>4. \A i \in 1 .. Len(mWorkQueue) : mWorkQueue[i] \in Items
      BY <1>1 DEF TypeOK
    <3>5. \A i \in 1 .. Len(mWorkQueue) : mWorkQueue[i].this = None
      BY <3>3, <3>4, ItemFacts DEF ValueOps
    <3>6. \A c \in Alive : c # io.who => c \in Alive'
      BY <1>1, <3>1 DEF Alive, TypeOK
    <3> QED
      BY <1>1, <2>1, <3>2, <3>5, <3>6 DEF PointerInv
  <2>3. CASE ~DetachReturns
    <3>1. Alive \subseteq Alive'
      BY <1>1, <1>6, <2>3 DEF Moves, AttachReturns, Accept, ReadHandshake,
         WriteHandshake, AcceptFails, Disconnect, UnmaskedFrame, Drop, Alive, TypeOK
    <3> QED
      BY <1>1, <2>1, <3>1 DEF PointerInv
  <2> QED
    BY <2>2, <2>3
<1> QED
    BY <1>2, <1>3, <1>4, <1>5, <1>6, Steps

\* Every step keeps the clients that need no update up to date.
LEMMA StatusStep ==
    ASSUME IInv, Next
    PROVE  StatusInv'
<1>1. TypeOK /\ LifeInv /\ ObserverInv /\ StatusInv
    BY DEF IInv
<1> USE NamesAssumption
<1>2. CASE Updates
  <2>1. UNCHANGED <<Status, Connected, life>>
    BY <1>1, <1>2, UpdateSteps DEF Status, control, Connected, ioVars
  <2>2. ASSUME NEW o \in Connections \cup {Server}, UpdateSkips(o) PROVE StatusInv'
    BY <1>1, <2>1, <2>2 DEF UpdateSkips, StatusInv
  <2>3. ASSUME NEW o \in Connections \cup {Server}, UpdateLocks(o) PROVE StatusInv'
    <3>1. wSender = None
      BY <1>1, <2>3 DEF UpdateLocks, TypeOK
    <3> QED
      BY <1>1, <2>1, <2>3, <3>1 DEF UpdateLocks, StatusInv, Connected
  <2>4. CASE SendStatus \/ SendStatusToOrphan
    <3>1. /\ wSender \in Connections
          /\ life[wSender] \in {"handshaking", "responding", "open", "orphaned"}
      BY <1>1, <2>4 DEF SendStatus, SendStatusToOrphan, TypeOK, LifeInv
    <3>2. /\ notifying' = notifying
          /\ sent'[wSender] = Status
          /\ \A c \in Connections : c # wSender => sent'[c] = sent[c]
      BY <1>1, <2>4, <3>1 DEF SendStatus, SendStatusToOrphan, TypeOK
    <3> QED
      BY <1>1, <2>1, <3>1, <3>2 DEF StatusInv, Connected
  <2> QED
    BY <1>2, <2>2, <2>3, <2>4 DEF Updates
<1>3. CASE Runs
  <2>1. /\ worker = "idle"
        /\ notifying' # mObservers => RunGetStatus
        /\ UNCHANGED <<wSender, life, sent>>
    BY <1>1, <1>3, RunSteps DEF ioVars
  <2>2. CASE RunGetStatus
    <3>1. UNCHANGED <<Status, Connected>>
      BY <2>1, <2>2 DEF RunGetStatus, Status, control, Connected
    <3>2. notifying = {}
      BY <1>1, <2>1 DEF TypeOK
    <3> QED
      BY <1>1, <2>1, <3>1, <3>2 DEF StatusInv
  <2>3. CASE notifying' = mObservers
    <3>1. \A c \in Connected' : c \in notifying'
      BY <1>1, <2>1, <2>3 DEF ObserverInv, Connected
    <3> QED
      BY <1>1, <2>1, <3>1 DEF StatusInv
  <2> QED
    BY <2>1, <2>2, <2>3
<1>4. CASE Pops
  <2>1. UNCHANGED <<control, notifying, wSender, life, sent>>
    BY <1>1, <1>4, PopSteps
  <2> QED
    BY <1>1, <2>1 DEF StatusInv, Status, control, Connected
<1>5. CASE Pushes
  <2>1. UNCHANGED <<control, notifying, wSender, life, sent>>
    BY <1>1, <1>5, PushSteps, PushFacts
  <2> QED
    BY <1>1, <2>1 DEF StatusInv, Status, control, Connected
<1>6. CASE Moves
  <2>1. UNCHANGED <<Status, notifying, wSender, sent>>
    BY <1>6, MoveSteps DEF queueVars, control, Status
  <2>2. \A c \in Connected' : c \in Connected \/ life[c] = "accepting"
    BY <1>1, <1>6 DEF Moves, AttachReturns, DetachReturns, Accept, ReadHandshake,
       WriteHandshake, AcceptFails, Disconnect, UnmaskedFrame, Drop, Connected,
       TypeOK, LifeInv
  <2>3. \A c \in Connections :
           life'[c] \in {"none", "constructing", "accepting"}
             => life[c] \in {"none", "constructing", "accepting"}
    BY <1>1, <1>6 DEF Moves, AttachReturns, DetachReturns, Accept, ReadHandshake,
       WriteHandshake, AcceptFails, Disconnect, UnmaskedFrame, Drop, TypeOK,
       LifeInv, Running
  <2> QED
    BY <1>1, <2>1, <2>2, <2>3 DEF StatusInv, Connected
<1> QED
    BY <1>2, <1>3, <1>4, <1>5, <1>6, Steps

\* Every step keeps the last pending edge, or the control, at the door's value.
LEMMA DoorStep ==
    ASSUME IInv, Next
    PROVE  DoorInv'
<1>1. TypeOK /\ DoorInv
    BY DEF IInv
<1>2. CASE Updates
  <2>1. UNCHANGED <<mDoorSwitch, mWorkQueue, wGpioDebouncedValue, First>>
    BY <1>1, <1>2, UpdateSteps DEF control, mainVars, First
  <2> QED
    BY <1>1, <2>1 DEF DoorInv, EdgeAt
<1>3. CASE Runs
  <2>1. /\ worker = "idle" /\ worker' = "update"
        /\ mWorkQueue # <<>>
        /\ UNCHANGED <<mWorkQueue, wGpioDebouncedValue>>
    BY <1>1, <1>3, RunSteps DEF mainVars
  <2>2. /\ Len(mWorkQueue) \in Nat \ {0}
        /\ Head(mWorkQueue) = mWorkQueue[1]
    BY <1>1, <2>1, FrontFacts
  <2>3. \A i \in Nat : EdgeAt(i) <=> EdgeAt(i)' \/ (i = 1 /\ EdgeAt(1))
    BY <2>1, <2>2 DEF EdgeAt, First
  <2>4. ~EdgeAt(1)' /\ \A i \in Nat : EdgeAt(i)' => i > 1
    BY <2>1, <2>2 DEF EdgeAt, First
  <2>5. CASE RunDoorSwitch
    <3>1. EdgeAt(1) /\ mDoorSwitch' = mWorkQueue[1].value
      BY <2>1, <2>2, <2>5 DEF RunDoorSwitch, Takes, Control!DoorSwitch, EdgeAt, First
    <3>2. ASSUME \A i \in Nat : ~EdgeAt(i)'
          PROVE  mDoorSwitch' = wGpioDebouncedValue'
      <4>1. \A j \in Nat : EdgeAt(j) => j <= 1
        BY <2>3, <3>2
      <4> QED
        BY <1>1, <2>1, <3>1, <4>1 DEF DoorInv
    <3>3. ASSUME NEW i \in Nat, EdgeAt(i)', \A j \in Nat : EdgeAt(j)' => j <= i
          PROVE  mWorkQueue'[i].value = wGpioDebouncedValue'
      <4>1. EdgeAt(i) /\ \A j \in Nat : EdgeAt(j) => j <= i
        BY <2>3, <2>4, <3>3
      <4> QED
        BY <1>1, <2>1, <4>1 DEF DoorInv
    <3> QED
      BY <3>2, <3>3 DEF DoorInv
  <2>6. CASE RunGetStatus \/ RunLightOverride \/ RunCoverageAlwaysOn
    <3>1. mDoorSwitch' = mDoorSwitch /\ ~EdgeAt(1)
      BY <2>2, <2>6 DEF RunGetStatus, RunLightOverride, RunCoverageAlwaysOn, Takes,
         Control!LightOverride, Control!CoverageAlwaysOn, EdgeAt, control
    <3>2. \A i \in Nat : EdgeAt(i) <=> EdgeAt(i)'
      BY <2>3, <3>1
    <3> QED
      BY <1>1, <2>1, <3>1, <3>2 DEF DoorInv
  <2> QED
    BY <1>3, <2>5, <2>6 DEF Runs
<1>4. CASE Pops
  <2>1. /\ mWorkQueue # <<>>
        /\ mWorkQueue' = Tail(mWorkQueue)
        /\ worker' = "idle"
        /\ UNCHANGED <<mDoorSwitch, wGpioDebouncedValue>>
    BY <1>1, <1>4, PopSteps DEF control, mainVars
  <2>2. /\ Len(mWorkQueue) \in Nat \ {0}
        /\ Head(mWorkQueue) = mWorkQueue[1]
        /\ Len(mWorkQueue') = Len(mWorkQueue) - 1
        /\ \A i \in 1 .. Len(mWorkQueue) - 1 : mWorkQueue'[i] = mWorkQueue[i + 1]
    BY <1>1, <2>1, FrontFacts
  <2>3. ~EdgeAt(1)
    BY <1>4, <2>2 DEF Pops, RunAttach, RunDetach, FinishItem, Takes, EdgeAt, First
  <2>4. \A i \in Nat : EdgeAt(i)' <=> EdgeAt(i + 1)
    <3> TAKE i \in Nat
    <3>1. EdgeAt(i)' <=> i \in 1 .. Len(mWorkQueue) - 1
                           /\ mWorkQueue[i + 1].op = "doorSwitch"
      BY <2>1, <2>2 DEF EdgeAt, First
    <3>2. EdgeAt(i + 1) => i + 1 \in 2 .. Len(mWorkQueue)
      <4>1. EdgeAt(i + 1) => i + 1 \in 1 .. Len(mWorkQueue) /\ i + 1 # 1
        BY <2>2, <2>3 DEF EdgeAt, First
      <4> QED
        BY <2>2, <4>1
    <3>3. i + 1 \in 2 .. Len(mWorkQueue) <=> i \in 1 .. Len(mWorkQueue) - 1
      BY <2>2
    <3>4. i + 1 \in 2 .. Len(mWorkQueue) => i + 1 \in First .. Len(mWorkQueue)
      BY <2>2 DEF First
    <3> QED
      BY <3>1, <3>2, <3>3, <3>4 DEF EdgeAt
  <2>5. \A j \in Nat : EdgeAt(j) => j - 1 \in Nat /\ EdgeAt(j - 1)'
    <3> TAKE j \in Nat
    <3>1. EdgeAt(j) => j \in 1 .. Len(mWorkQueue)
      BY <2>2 DEF EdgeAt, First
    <3>2. EdgeAt(j) => j - 1 \in Nat /\ (j - 1) + 1 = j
      BY <2>2, <3>1
    <3> QED
      BY <2>4, <3>2
  <2>6. ASSUME \A i \in Nat : ~EdgeAt(i)'
        PROVE  mDoorSwitch' = wGpioDebouncedValue'
    BY <1>1, <2>1, <2>5, <2>6 DEF DoorInv
  <2>7. ASSUME NEW i \in Nat, EdgeAt(i)', \A j \in Nat : EdgeAt(j)' => j <= i
        PROVE  mWorkQueue'[i].value = wGpioDebouncedValue'
    <3>1. EdgeAt(i + 1) /\ i + 1 \in Nat
      BY <2>4, <2>7
    <3>2. ASSUME NEW j \in Nat, EdgeAt(j) PROVE j <= i + 1
      <4>1. j - 1 \in Nat /\ j - 1 <= i
        BY <2>5, <2>7, <3>2
      <4> QED
        BY <4>1
    <3>3. mWorkQueue[i + 1].value = wGpioDebouncedValue
      BY <1>1, <3>1, <3>2 DEF DoorInv
    <3>4. i \in 1 .. Len(mWorkQueue) - 1
      BY <2>1, <2>2, <2>7 DEF EdgeAt, First
    <3> QED
      BY <2>1, <2>2, <3>3, <3>4
  <2> QED
    BY <2>6, <2>7 DEF DoorInv
<1>5. CASE Pushes
  <2>1. PICK item \in Items :
           /\ DataPush(item)
           /\ \/ PushDoor /\ item = Work("doorSwitch", ~wGpioDebouncedValue)
              \/ PushAttach /\ item = Call("attach", io.who)
              \/ PushDetach /\ item = Call("detach", io.who)
              \/ \E c \in Connections :
                    /\ Message(c, item)
                    /\ \/ item = Call("getStatus", c)
                       \/ item.op \in ValueOps \ {"doorSwitch"}
    BY <1>1, <1>5, PushSteps
  <2>2. /\ worker = "idle" /\ worker' = "idle"
        /\ Len(mWorkQueue) \in Nat
        /\ Len(mWorkQueue') = Len(mWorkQueue) + 1
        /\ \A i \in 1 .. Len(mWorkQueue) : mWorkQueue'[i] = mWorkQueue[i]
        /\ mWorkQueue'[Len(mWorkQueue) + 1] = item
    BY <1>1, <2>1, PushFacts
  <2>3. UNCHANGED mDoorSwitch
    BY <1>1, <1>5, PushSteps DEF control
  <2>4. \A i \in Nat : EdgeAt(i) => i <= Len(mWorkQueue) /\ mWorkQueue'[i] = mWorkQueue[i]
    BY <2>2 DEF EdgeAt, First
  <2>5. \A i \in Nat :
           EdgeAt(i)' <=> \/ EdgeAt(i)
                          \/ i = Len(mWorkQueue) + 1 /\ item.op = "doorSwitch"
    BY <2>2 DEF EdgeAt, First
  <2>6. CASE PushDoor /\ item = Work("doorSwitch", ~wGpioDebouncedValue)
    <3>1. /\ item.op = "doorSwitch"
          /\ item.value = wGpioDebouncedValue'
      BY <2>6 DEF PushDoor, Work
    <3>2. \E last \in Nat : last = Len(mWorkQueue) + 1 /\ EdgeAt(last)'
      BY <2>2, <2>5, <3>1
    <3>3. ASSUME NEW i \in Nat, EdgeAt(i)', \A j \in Nat : EdgeAt(j)' => j <= i
          PROVE  mWorkQueue'[i].value = wGpioDebouncedValue'
      <4>1. i = Len(mWorkQueue) + 1
        BY <2>2, <2>4, <2>5, <3>2, <3>3
      <4> QED
        BY <2>2, <3>1, <4>1
    <3> QED
      BY <3>2, <3>3 DEF DoorInv
  <2>7. CASE item.op # "doorSwitch" /\ wGpioDebouncedValue' = wGpioDebouncedValue
    BY <1>1, <2>3, <2>4, <2>5, <2>7 DEF DoorInv
  <2>8. \/ PushDoor /\ item = Work("doorSwitch", ~wGpioDebouncedValue)
        \/ item.op # "doorSwitch" /\ wGpioDebouncedValue' = wGpioDebouncedValue
    BY <2>1 DEF PushAttach, PushDetach, Message, Call, mainVars
  <2> QED
    BY <2>6, <2>7, <2>8
<1>6. CASE Moves
  <2>1. UNCHANGED <<mDoorSwitch, mWorkQueue, worker, wGpioDebouncedValue>>
    BY <1>6, MoveSteps DEF control, queueVars, mainVars
  <2> QED
    BY <1>1, <2>1 DEF DoorInv, EdgeAt, First
<1> QED
    BY <1>2, <1>3, <1>4, <1>5, <1>6, Steps

------------------------------------------------------------------------------
\* The invariant is inductive.
LEMMA StepInv == IInv /\ [Next]_vars => IInv'
<1>1. ASSUME IInv, Next PROVE IInv'
  <2>1. LightRule'
    BY <1>1, ControlSteps, ControlInv DEF IInv, TypeOK
  <2> QED
    BY <1>1, <2>1, TypeStep, LifeStep, QueueStep, ObserverStep, PointerStep,
       StatusStep, DoorStep DEF IInv
<1>2. ASSUME IInv, UNCHANGED vars PROVE IInv'
  <2> USE <1>2 DEF vars, control, queueVars, mainVars, ioVars, IInv
  <2>1. TypeOK' /\ LightRule'
    BY DEF TypeOK, Control!TypeOK, LightRule, Control!LightRule
  <2>2. LifeInv' /\ QueueInv' /\ ObserverInv'
    BY DEF LifeInv, QueueInv, ObserverInv
  <2>3. PointerInv' /\ StatusInv' /\ DoorInv'
    BY DEF PointerInv, Alive, StatusInv, Connected, Status, DoorInv, EdgeAt, First
  <2> QED
    BY <2>1, <2>2, <2>3
<1> QED
    BY <1>1, <1>2

\* Every reachable state satisfies the invariant.
THEOREM Invariance == Spec => []IInv
BY InitInv, StepInv, PTL DEF Spec

\* The state keeps its types, and the worker has an item for as long as it runs.
THEOREM TypeCorrect == Spec => []TypeOK
<1>1. IInv => TypeOK
    BY DEF IInv
<1> QED
    BY <1>1, Invariance, PTL

\* No observer is used before its constructor or after its destructor, for any
\* number of clients that come and go.
THEOREM NoDangling == Spec => []NoDanglingRemoteControl
<1>1. IInv => NoDanglingRemoteControl
    BY DEF IInv, PointerInv, NoDanglingRemoteControl
<1> QED
    BY <1>1, Invariance, PTL

\* A connection's observer is in the list for as long as it has a client.
THEOREM Attached == Spec => []AttachedWhileConnected
<1>1. IInv => AttachedWhileConnected
    BY DEF IInv, ObserverInv, AttachedWhileConnected, Connected
<1> QED
    BY <1>1, Invariance, PTL

\* Between two items no connected client holds an outdated status.
THEOREM StatusIsCurrent == Spec => []LastStatusIsCurrent
<1>1. IInv => LastStatusIsCurrent
  <2> SUFFICES ASSUME IInv, worker = "idle", NEW c \in Connected
               PROVE  sent[c] \in {None, Status}
    BY DEF LastStatusIsCurrent
  <2>1. notifying = {} /\ wSender = None
    BY DEF IInv, TypeOK
  <2>2. c # None
    BY NamesAssumption DEF Connected
  <2> QED
    BY <2>1, <2>2 DEF IInv, StatusInv
<1> QED
    BY <1>1, Invariance, PTL

\* Once the pending edges have run, the control has the door where the debounce
\* loop has it.
THEOREM DoorIsFollowed == Spec => []DoorFollowsGpio
<1>1. IInv => DoorFollowsGpio
  <2> SUFFICES ASSUME IInv PROVE DoorFollowsGpio
    OBVIOUS
  <2>1. Len(mWorkQueue) \in Nat
    BY DEF IInv, TypeOK
  <2>2. \A i : i \in First .. Len(mWorkQueue) => i \in Nat
    BY <2>1 DEF First
  <2> QED
    BY <2>2 DEF IInv, DoorInv, EdgeAt, First, DoorFollowsGpio
<1> QED
    BY <1>1, Invariance, PTL

\* The pin follows the two demands for light, whichever threads made them.
THEOREM LightIsRuled == Spec => []LightRule
<1>1. IInv => LightRule
    BY DEF IInv
<1> QED
    BY <1>1, Invariance, PTL
------------------------------------------------------------------------------
(***************************************************************************)
(* What liveness rests on, beside fairness: nobody waits for what nobody is*)
(* going to do, and what is done is what was asked for.                    *)
(***************************************************************************)

\* A constructor or destructor that waits and has not been told has its own item
\* in the queue, which the worker can always run unless it has locked itself.
Awaited == IF io.at = "waitAttach" THEN "attach" ELSE "detach"

WaitIsServed ==
    io.at \in {"waitAttach", "waitDetach"} /\ ~synced =>
        \E i \in 1 .. Len(mWorkQueue) :
            mWorkQueue[i].op = Awaited /\ mWorkQueue[i].this = io.who

\* A client that has asked has got through its handshake and is not yet gone, and
\* while its request is run it is yet to be told or has been.
AskersInv ==
    /\ \A i \in 1 .. Len(mWorkQueue) : mWorkQueue[i].op = "getStatus" =>
          life[mWorkQueue[i].this] \in {"open", "orphaned", "destroying"}
    /\ worker # "idle" /\ mWorkQueue[1].op = "getStatus" =>
          LET c == mWorkQueue[1].this
          IN  c \in Connected => c \in notifying \/ c = wSender \/ sent[c] = Status

WaitInv == IInv /\ WaitIsServed /\ AskersInv

LEMMA WaitInit == Init => WaitInv
BY InitInv DEF Init, Running, WaitInv, WaitIsServed, AskersInv

LEMMA WaitIsServedStep ==
    ASSUME WaitInv, Next
    PROVE  WaitIsServed'
<1>1. TypeOK /\ QueueInv /\ WaitIsServed
    BY DEF WaitInv, IInv
<1>2. CASE Updates
    BY <1>1, <1>2, UpdateSteps DEF WaitIsServed, Awaited, ioVars
<1>3. CASE Runs
    BY <1>1, <1>3, RunSteps DEF WaitIsServed, Awaited, ioVars
<1>4. CASE Pops
  <2>1. /\ mWorkQueue # <<>>
        /\ mWorkQueue' = Tail(mWorkQueue)
        /\ io' = io
    BY <1>1, <1>4, PopSteps
  <2>2. /\ Len(mWorkQueue) \in Nat \ {0}
        /\ Len(mWorkQueue') = Len(mWorkQueue) - 1
        /\ \A i \in 1 .. Len(mWorkQueue) - 1 : mWorkQueue'[i] = mWorkQueue[i + 1]
    BY <1>1, <2>1, FrontFacts
  <2>3. CASE RunAttach \/ RunDetach
    BY <2>3 DEF RunAttach, RunDetach, WaitIsServed
  <2>4. CASE FinishItem
    <3> SUFFICES ASSUME io.at \in {"waitAttach", "waitDetach"}, ~synced
                 PROVE  \E i \in 1 .. Len(mWorkQueue') :
                            /\ mWorkQueue'[i].op = Awaited
                            /\ mWorkQueue'[i].this = io.who
      BY <2>1, <2>4 DEF FinishItem, ioVars, WaitIsServed, Awaited
    <3>1. PICK i \in 1 .. Len(mWorkQueue) :
             mWorkQueue[i].op = Awaited /\ mWorkQueue[i].this = io.who
      BY <1>1 DEF WaitIsServed
    <3>2. i # 1
      BY <1>1, <2>4, <3>1 DEF FinishItem, QueueInv, SyncOps, Awaited
    <3>3. i - 1 \in 1 .. Len(mWorkQueue') /\ mWorkQueue'[i - 1] = mWorkQueue[i]
      BY <2>2, <3>1, <3>2
    <3> QED
      BY <3>1, <3>3
  <2> QED
    BY <1>4, <2>3, <2>4 DEF Pops
<1>5. CASE Pushes
  <2>1. PICK item \in Items :
           /\ DataPush(item)
           /\ \/ PushDoor
              \/ PushAttach /\ item = Call("attach", io.who)
              \/ PushDetach /\ item = Call("detach", io.who)
              \/ \E c \in Connections : Message(c, item)
    BY <1>1, <1>5, PushSteps
  <2>2. /\ Len(mWorkQueue) \in Nat
        /\ Len(mWorkQueue') = Len(mWorkQueue) + 1
        /\ \A i \in 1 .. Len(mWorkQueue) : mWorkQueue'[i] = mWorkQueue[i]
        /\ mWorkQueue'[Len(mWorkQueue) + 1] = item
    BY <1>1, <2>1, PushFacts
  <2>3. CASE PushDoor \/ \E c \in Connections : Message(c, item)
    <3>1. io' = io /\ synced' = synced
      BY <2>3 DEF PushDoor, Message, ioVars
    <3>2. \A i \in 1 .. Len(mWorkQueue) : i \in 1 .. Len(mWorkQueue')
      BY <2>2
    <3> QED
      BY <1>1, <2>2, <3>1, <3>2 DEF WaitIsServed, Awaited
  <2>4. CASE /\ PushAttach \/ PushDetach
             /\ \/ PushAttach /\ item = Call("attach", io.who)
                \/ PushDetach /\ item = Call("detach", io.who)
    <3>1. /\ io'.who = io.who
          /\ item.op = Awaited' /\ item.this = io.who
      BY <2>4 DEF PushAttach, PushDetach, At, Call, Awaited
    <3>2. \E i \in 1 .. Len(mWorkQueue') : mWorkQueue'[i] = item
      BY <2>2
    <3> QED
      BY <3>1, <3>2 DEF WaitIsServed
  <2> QED
    BY <2>1, <2>3, <2>4
<1>6. CASE Moves
  <2>1. UNCHANGED <<mWorkQueue, synced>>
    BY <1>6, MoveSteps DEF queueVars
  <2>2. io' = io \/ io'.at \notin {"waitAttach", "waitDetach"}
    BY <1>6 DEF Moves, AttachReturns, DetachReturns, Accept, ReadHandshake,
       WriteHandshake, AcceptFails, Disconnect, UnmaskedFrame, Drop, Running, At
  <2> QED
    BY <1>1, <2>1, <2>2 DEF WaitIsServed, Awaited
<1> QED
    BY <1>2, <1>3, <1>4, <1>5, <1>6, Steps

LEMMA AskersStep ==
    ASSUME WaitInv, Next
    PROVE  AskersInv'
<1>1. TypeOK /\ LifeInv /\ QueueInv /\ AskersInv
    BY DEF WaitInv, IInv
<1> USE NamesAssumption
<1>2. \A i \in 1 .. Len(mWorkQueue) :
         /\ mWorkQueue[i] \in Items
         /\ mWorkQueue[i].op = "getStatus" => mWorkQueue[i].this \in Connections
  <2>1. \A i \in 1 .. Len(mWorkQueue) : mWorkQueue[i] \in Items
    BY <1>1 DEF TypeOK
  <2> QED
    BY <2>1, ItemFacts DEF ValueOps
<1>3. mWorkQueue # <<>> => 1 \in 1 .. Len(mWorkQueue)
    BY <1>1, FrontFacts
<1>4. worker # "idle" => mWorkQueue # <<>>
    BY <1>1 DEF TypeOK
<1>5. CASE Updates
  <2>1. /\ worker # "idle"
        /\ UNCHANGED <<mWorkQueue, life, Connected, Status>>
    BY <1>1, <1>5, UpdateSteps DEF ioVars, Connected, control, Status
  <2> DEFINE c == mWorkQueue[1].this
  <2>2. ASSUME mWorkQueue[1].op = "getStatus", c \in Connected
        PROVE  c \in notifying' \/ c = wSender' \/ sent'[c] = Status'
    <3>1. c \in notifying \/ c = wSender \/ sent[c] = Status
      BY <1>1, <2>1, <2>2 DEF AskersInv
    <3>2. ASSUME NEW o \in Connections \cup {Server}, UpdateSkips(o)
          PROVE  c \in notifying' \/ c = wSender' \/ sent'[c] = Status'
      BY <2>1, <2>2, <3>1, <3>2 DEF UpdateSkips
    <3>3. ASSUME NEW o \in Connections \cup {Server}, UpdateLocks(o)
          PROVE  c \in notifying' \/ c = wSender' \/ sent'[c] = Status'
      <4>1. wSender = None
        BY <1>1, <3>3 DEF UpdateLocks, TypeOK
      <4>2. c # None
        BY <2>2 DEF Connected
      <4> QED
        BY <2>1, <3>1, <3>3, <4>1, <4>2 DEF UpdateLocks
    <3>4. CASE SendStatus \/ SendStatusToOrphan
      <4>1. Status' = Status
        BY <2>1
      <4>2. sent' = [sent EXCEPT ![wSender] = Status] /\ notifying' = notifying
        BY <3>4 DEF SendStatus, SendStatusToOrphan
      <4>3. sent \in [Connections -> Statuses \cup {None}] /\ c \in Connections
        BY <1>1, <2>2 DEF TypeOK, Connected
      <4> QED
        BY <3>1, <4>1, <4>2, <4>3
    <3> QED
      BY <1>5, <3>2, <3>3, <3>4 DEF Updates
  <2> QED
    BY <1>1, <2>1, <2>2 DEF AskersInv
<1>6. CASE Runs
  <2>1. /\ notifying' # mObservers => RunGetStatus
        /\ UNCHANGED <<mWorkQueue, life>>
        /\ mWorkQueue # <<>>
    BY <1>1, <1>6, RunSteps DEF ioVars
  <2>2. mWorkQueue[1].op = "getStatus" => mWorkQueue[1].this \in notifying'
    BY <1>1, <1>6, <2>1, FrontFacts
       DEF Runs, RunGetStatus, RunDoorSwitch, RunLightOverride, RunCoverageAlwaysOn,
           Takes, Notify
  <2> QED
    BY <1>1, <2>1, <2>2 DEF AskersInv
<1>7. CASE Pops
  <2>1. /\ mWorkQueue # <<>>
        /\ mWorkQueue' = Tail(mWorkQueue)
        /\ worker' = "idle"
        /\ UNCHANGED life
    BY <1>1, <1>7, PopSteps
  <2>2. \A i \in 1 .. Len(mWorkQueue') :
           i + 1 \in 1 .. Len(mWorkQueue) /\ mWorkQueue'[i] = mWorkQueue[i + 1]
    BY <1>1, <2>1, FrontFacts
  <2> QED
    BY <1>1, <2>1, <2>2 DEF AskersInv
<1>8. CASE Pushes
  <2>1. PICK item \in Items :
           /\ DataPush(item)
           /\ \/ PushDoor /\ item = Work("doorSwitch", ~wGpioDebouncedValue)
              \/ PushAttach /\ item = Call("attach", io.who)
              \/ PushDetach /\ item = Call("detach", io.who)
              \/ \E c \in Connections :
                    /\ Message(c, item)
                    /\ \/ item = Call("getStatus", c)
                       \/ item.op \in ValueOps \ {"doorSwitch"}
    BY <1>1, <1>8, PushSteps
  <2>2. /\ worker' = "idle"
        /\ UNCHANGED life
        /\ \A i \in 1 .. Len(mWorkQueue') :
              \/ i \in 1 .. Len(mWorkQueue) /\ mWorkQueue'[i] = mWorkQueue[i]
              \/ mWorkQueue'[i] = item
    BY <1>1, <1>8, <2>1, PushSteps, PushFacts
  <2>3. item.op = "getStatus" => life[item.this] = "open"
    BY <2>1 DEF Message, Work, Call, ValueOps
  <2> QED
    BY <1>1, <2>2, <2>3 DEF AskersInv
<1>9. CASE Moves
  <2>1. UNCHANGED <<mWorkQueue, worker, notifying, wSender, sent, synced, Status>>
    BY <1>9, MoveSteps DEF queueVars, control, Status
  <2>2. ASSUME NEW i \in 1 .. Len(mWorkQueue), mWorkQueue[i].op = "getStatus"
        PROVE  /\ life'[mWorkQueue[i].this] \in {"open", "orphaned", "destroying"}
               /\ mWorkQueue[i].this \in Connected' => mWorkQueue[i].this \in Connected
    <3> DEFINE c == mWorkQueue[i].this
    <3>1. c \in Connections /\ life[c] \in {"open", "orphaned", "destroying"}
      BY <1>1, <1>2, <2>2 DEF AskersInv
    <3>2. ~DetachReturns
      <4>1. DetachReturns => io.at = "waitDetach" /\ synced
        BY DEF DetachReturns
      <4> QED
        BY <1>1, <2>2, <4>1 DEF QueueInv
    <3>3. life'[c] \in {"open", "orphaned", "destroying"}
      BY <1>1, <1>9, <3>1, <3>2 DEF Moves, AttachReturns, Accept, ReadHandshake,
         WriteHandshake, AcceptFails, Disconnect, UnmaskedFrame, Drop, TypeOK,
         LifeInv, Running
    <3>4. life'[c] = "open" => life[c] = "open"
      BY <1>1, <1>9, <3>1, <3>2 DEF Moves, AttachReturns, Accept, ReadHandshake,
         WriteHandshake, AcceptFails, Disconnect, UnmaskedFrame, Drop, TypeOK,
         LifeInv, Running
    <3> QED
      BY <3>1, <3>3, <3>4 DEF Connected
  <2>3. \A i \in 1 .. Len(mWorkQueue) : mWorkQueue[i].op = "getStatus" =>
           life'[mWorkQueue[i].this] \in {"open", "orphaned", "destroying"}
    BY <2>2
  <2>4. worker # "idle" /\ mWorkQueue[1].op = "getStatus" =>
           (mWorkQueue[1].this \in Connected' => mWorkQueue[1].this \in Connected)
    BY <1>3, <1>4, <2>2
  <2> QED
    BY <1>1, <2>1, <2>3, <2>4 DEF AskersInv
<1> QED
    BY <1>5, <1>6, <1>7, <1>8, <1>9, Steps

LEMMA WaitStep == WaitInv /\ [Next]_vars => WaitInv'
<1>1. ASSUME WaitInv, Next PROVE WaitInv'
    BY <1>1, StepInv, WaitIsServedStep, AskersStep DEF WaitInv
<1>2. ASSUME WaitInv, UNCHANGED vars PROVE WaitInv'
  <2>1. IInv'
    BY <1>2, StepInv DEF WaitInv
  <2>2. WaitIsServed' /\ AskersInv'
    BY <1>2 DEF WaitInv, vars, queueVars, ioVars, WaitIsServed, Awaited, AskersInv,
                Connected, control, Status
  <2> QED
    BY <2>1, <2>2 DEF WaitInv
<1> QED
    BY <1>1, <1>2

\* No constructor or destructor waits for an item that is not there, or that has
\* run for somebody else.
THEOREM WaitsAreServed == Spec => []WaitIsServed
<1>1. WaitInv => WaitIsServed
    BY DEF WaitInv
<1> QED
    BY <1>1, WaitInit, WaitStep, PTL DEF Spec

\* When a get_status leaves the queue, its client has the present status, unless
\* it is no longer connected.
AskersAreTold ==
    [][\A c \in Connections :
          /\ mWorkQueue # <<>>
          /\ Head(mWorkQueue) = Call("getStatus", c)
          /\ mWorkQueue' = Tail(mWorkQueue)
          => c \notin Connected \/ sent[c] = Status]_vars

THEOREM AskersGetTheStatus == Spec => AskersAreTold
<1>1. WaitInv /\ [Next]_vars
        => [\A c \in Connections :
               /\ mWorkQueue # <<>>
               /\ Head(mWorkQueue) = Call("getStatus", c)
               /\ mWorkQueue' = Tail(mWorkQueue)
               => c \notin Connected \/ sent[c] = Status]_vars
  <2> SUFFICES ASSUME WaitInv, Next, NEW c \in Connections, c \in Connected,
                      mWorkQueue # <<>>, Head(mWorkQueue) = Call("getStatus", c),
                      mWorkQueue' = Tail(mWorkQueue)
               PROVE  sent[c] = Status
    OBVIOUS
  <2>1. TypeOK /\ AskersInv
    BY DEF WaitInv, IInv
  <2>2. /\ Head(mWorkQueue) = mWorkQueue[1]
        /\ Len(mWorkQueue) \in Nat \ {0}
        /\ Len(mWorkQueue') = Len(mWorkQueue) - 1
    BY <2>1, FrontFacts
  <2>3. mWorkQueue[1].op = "getStatus" /\ mWorkQueue[1].this = c
    BY <2>2 DEF Call
  <2>4. Pops
    <3>1. PICK n \in Nat : Len(mWorkQueue) = n /\ Len(mWorkQueue') = n - 1
      BY <2>2
    <3>2. ~(n - 1 = n + 1) /\ ~(n - 1 = n)
      BY n \in Nat
    <3>3. Pushes => n - 1 = n + 1
      BY <2>1, <3>1, PushSteps, PushFacts
    <3>4. Updates \/ Runs \/ Moves => mWorkQueue' = mWorkQueue
      BY <2>1, UpdateSteps, RunSteps, MoveSteps DEF queueVars
    <3>5. mWorkQueue' = mWorkQueue => n - 1 = n
      BY <3>1
    <3> QED
      BY <3>2, <3>3, <3>4, <3>5, Steps
  <2>5. FinishItem
    BY <2>2, <2>3, <2>4 DEF Pops, RunAttach, RunDetach, Takes
  <2>6. worker # "idle" /\ notifying = {} /\ wSender = None
    BY <2>1, <2>5 DEF FinishItem, TypeOK
  <2> QED
    BY <2>1, <2>3, <2>6, NamesAssumption DEF AskersInv, Connected
<1> QED
    BY <1>1, WaitInit, WaitStep, PTL DEF Spec, AskersAreTold

\* With nothing left to run, an open door is lit, whatever was asked meanwhile.
OpenDoorIsLit ==
    worker = "idle" /\ mWorkQueue = <<>> /\ wGpioDebouncedValue => gpioLight

THEOREM OpeningsAreLit == Spec => []OpenDoorIsLit
<1>1. IInv => OpenDoorIsLit
  <2> SUFFICES ASSUME IInv, worker = "idle", mWorkQueue = <<>>, wGpioDebouncedValue
               PROVE  gpioLight
    BY DEF OpenDoorIsLit
  <2>1. \A i \in Nat : ~EdgeAt(i)
    BY DEF EdgeAt, First
  <2>2. mDoorSwitch
    BY <2>1 DEF IInv, DoorInv
  <2> QED
    BY <2>2 DEF IInv, LightRule, Control!LightRule
<1> QED
    BY <1>1, Invariance, PTL
------------------------------------------------------------------------------
(***************************************************************************)
(* RemoteControl implements StatusFeed.                                    *)
(***************************************************************************)

\* The connection that the worker writes to is no longer among those it has yet
\* to update.
SenderInv == wSender \notin notifying

FeedInv == IInv /\ SenderInv

LEMMA FeedInvInit == Init => FeedInv
BY InitInv DEF Init, FeedInv, SenderInv

LEMMA FeedInvStep == FeedInv /\ [Next]_vars => FeedInv'
<1> SUFFICES ASSUME FeedInv, [Next]_vars
             PROVE  FeedInv'
    OBVIOUS
<1>1. IInv'
    BY StepInv DEF FeedInv
<1>2. SenderInv'
  <2>1. IInv /\ TypeOK /\ TypeOK' /\ SenderInv
    BY <1>1 DEF FeedInv, IInv
  <2>2. CASE UNCHANGED vars
    BY <2>1, <2>2 DEF vars, queueVars, SenderInv
  <2>3. CASE Updates
    BY <2>1, <2>3, NamesAssumption
       DEF Updates, UpdateSkips, UpdateLocks, SendStatus, SendStatusToOrphan, SenderInv, TypeOK
  <2>4. CASE Runs
    BY <2>1, <2>4, RunSteps, NamesAssumption DEF SenderInv, TypeOK
  <2>5. CASE Pops
    BY <2>1, <2>5, PopSteps DEF SenderInv
  <2>6. CASE Pushes
    BY <2>1, <2>6, PushSteps DEF DataPush, SenderInv
  <2>7. CASE Moves
    BY <2>1, <2>7, MoveSteps DEF queueVars, SenderInv
  <2> QED
    BY <2>2, <2>3, <2>4, <2>5, <2>6, <2>7, Steps
<1> QED
    BY <1>1, <1>2 DEF FeedInv

LEMMA FeedInit == Init => Feed!Init
<1> SUFFICES ASSUME Init
             PROVE  Feed!Init
    OBVIOUS
<1>1. Connected = {}
    BY DEF Init, Connected
<1>2. /\ mDoorSwitch = FALSE /\ mLight = FALSE /\ mLightOverride = FALSE
      /\ coverageAlwaysOn \in BOOLEAN /\ gpioLight = FALSE
    BY DEF Init, Control!Init
<1>3. Status = Feed!Flags(FALSE, FALSE, coverageAlwaysOn)
  <2>1. Feed!Flags(FALSE, FALSE, coverageAlwaysOn)
           = [doorSwitch |-> FALSE, light |-> FALSE,
              lightOverride |-> FALSE, coverageAlwaysOn |-> coverageAlwaysOn]
    BY DEF Feed!Flags
  <2> QED
    BY <1>2, <2>1 DEF Status
<1>4. Owed = {} /\ Seen = [c \in Connections |-> None]
    BY <1>1 DEF Owed, Seen
<1> QED
    BY <1>1, <1>2, <1>3, <1>4 DEF Feed!Init

\* What does not concern the clients is no step of the feed.
LEMMA FeedStutters ==
    ASSUME UNCHANGED control, Connected' = Connected, Owed' = Owed, Seen' = Seen
    PROVE  UNCHANGED Feed!vars
BY DEF control, Status, Feed!vars

LEMMA FeedKept ==
    ASSUME UNCHANGED <<control, life, sent, notifying, wSender>>
    PROVE  UNCHANGED Feed!vars
<1>1. Connected' = Connected
    BY DEF Connected
<1>2. Owed' = Owed /\ Seen' = Seen
    BY <1>1 DEF Owed, Seen
<1> QED
    BY <1>1, <1>2, FeedStutters

\* Between two items nobody is owed the status.
LEMMA NobodyIsOwed ==
    ASSUME TypeOK, worker = "idle"
    PROVE  Owed = {}
BY NamesAssumption DEF TypeOK, Owed, Connected

\* A flag that is set, with the pin, is a change of the feed.
LEMMA FeedChanges ==
    ASSUME IInv, NEW value \in BOOLEAN, worker = "idle",
           \/ Control!DoorSwitch(value)
           \/ Control!LightOverride(value)
           \/ Control!CoverageAlwaysOn(value),
           notifying' = mObservers, UNCHANGED <<wSender, life, sent>>
    PROVE  Feed!Change
<1>1. TypeOK /\ Control!TypeOK /\ LightRule /\ LightRule' /\ ObserverInv
    BY ControlInv DEF IInv, TypeOK, ControlStep
<1>2. Connected' = Connected /\ Seen' = Seen
    BY DEF Connected, Seen
<1>3. Owed = {}
    BY <1>1, NobodyIsOwed
<1>4. Owed' = Connected
  <2>1. Connected \subseteq mObservers
    BY <1>1 DEF ObserverInv, Connected
  <2>2. wSender' = None
    BY <1>1 DEF TypeOK
  <2> QED
    BY <1>2, <2>1, <2>2, NamesAssumption DEF Owed, Connected
<1>5. gpioLight' = Status'.light
    BY <1>1 DEF LightRule, Control!LightRule, Status
<1>6. \/ Status' = Feed!Flags(value, Status.lightOverride, Status.coverageAlwaysOn)
      \/ Status' = Feed!Flags(Status.doorSwitch, value, Status.coverageAlwaysOn)
      \/ Status' = Feed!Flags(Status.doorSwitch, Status.lightOverride, value)
  <2>1. /\ mLight = (mDoorSwitch \/ mLightOverride)
        /\ mLight' = (mDoorSwitch' \/ mLightOverride')
    BY <1>1 DEF LightRule, Control!LightRule
  <2>2. Status' = Feed!Flags(mDoorSwitch', mLightOverride', coverageAlwaysOn')
    BY <2>1, Zenon DEF Status, Feed!Flags
  <2>3. /\ Status.doorSwitch = mDoorSwitch /\ Status.lightOverride = mLightOverride
        /\ Status.coverageAlwaysOn = coverageAlwaysOn
    BY DEF Status
  <2>4. \/ mDoorSwitch' = value /\ UNCHANGED <<mLightOverride, coverageAlwaysOn>>
        \/ mLightOverride' = value /\ UNCHANGED <<mDoorSwitch, coverageAlwaysOn>>
        \/ coverageAlwaysOn' = value /\ UNCHANGED <<mDoorSwitch, mLightOverride>>
    BY DEF Control!DoorSwitch, Control!LightOverride, Control!CoverageAlwaysOn
  <2> QED
    BY <2>2, <2>3, <2>4, Zenon
<1> QED
    BY <1>2, <1>3, <1>4, <1>5, <1>6 DEF Feed!Change

LEMMA FeedRuns ==
    ASSUME IInv, Runs
    PROVE  [Feed!Next]_(Feed!vars)
<1>1. /\ TypeOK /\ worker = "idle" /\ mWorkQueue # <<>>
      /\ UNCHANGED <<mObservers, mWorkQueue, wSender, life, sent>>
    BY RunSteps DEF IInv, ioVars
<1>2. /\ Head(mWorkQueue) = mWorkQueue[1] /\ mWorkQueue[1] \in Items
      /\ mWorkQueue[1].value \in BOOLEAN
    BY <1>1, FrontFacts, ItemFacts
<1>3. CASE RunDoorSwitch \/ RunLightOverride \/ RunCoverageAlwaysOn
  <2>1. /\ notifying' = mObservers
        /\ \/ Control!DoorSwitch(mWorkQueue[1].value)
           \/ Control!LightOverride(mWorkQueue[1].value)
           \/ Control!CoverageAlwaysOn(mWorkQueue[1].value)
    BY <1>2, <1>3 DEF RunDoorSwitch, RunLightOverride, RunCoverageAlwaysOn, Notify
  <2>2. Feed!Change
    BY <1>1, <1>2, <2>1, FeedChanges
  <2> QED
    BY <2>2 DEF Feed!Next
<1>4. CASE RunGetStatus
  <2> DEFINE c == mWorkQueue[1].this
  <2>1. UNCHANGED control /\ notifying' = {c} /\ mWorkQueue[1].op = "getStatus"
    BY <1>2, <1>4 DEF RunGetStatus, Takes, Notify
  <2>2. c \in Connections
    BY <1>2, <2>1, ItemFacts DEF ValueOps
  <2>3. Connected' = Connected /\ Seen' = Seen
    BY <1>1 DEF Connected, Seen
  <2>4. Owed = {} /\ wSender' = None
    BY <1>1, NobodyIsOwed DEF TypeOK
  <2>5. Owed' = {c} \cap Connected
    BY <2>1, <2>3, <2>4, NamesAssumption DEF Owed, Connected
  <2>6. CASE c \in Connected
    <3>1. Status' = Status /\ gpioLight' = gpioLight
      BY <2>1 DEF control, Status
    <3>2. Feed!Ask(c)
      BY <2>3, <2>4, <2>5, <2>6, <3>1 DEF Feed!Ask
    <3> QED
      BY <2>2, <3>2 DEF Feed!Next
  <2>7. CASE c \notin Connected
    BY <2>1, <2>3, <2>4, <2>5, <2>7, FeedStutters
  <2> QED
    BY <2>6, <2>7
<1> QED
    BY <1>3, <1>4 DEF Runs

LEMMA FeedUpdates ==
    ASSUME FeedInv, Updates
    PROVE  [Feed!Next]_(Feed!vars)
<1>1. /\ TypeOK /\ LifeInv /\ SenderInv
      /\ UNCHANGED <<control, life>>
    BY UpdateSteps DEF FeedInv, IInv, ioVars
<1>2. Connected' = Connected
    BY <1>1 DEF Connected
<1>3. ASSUME NEW o \in Connections \cup {Server}, UpdateSkips(o) \/ UpdateLocks(o)
      PROVE  UNCHANGED Feed!vars
  <2>1. sent' = sent
    BY <1>3 DEF UpdateSkips, UpdateLocks
  <2>2. Seen' = Seen
    BY <1>2, <2>1 DEF Seen
  <2>3. Owed' = Owed
    BY <1>1, <1>2, <1>3, NamesAssumption DEF UpdateSkips, UpdateLocks, Owed, Connected, TypeOK
  <2> QED
    BY <1>1, <1>2, <2>2, <2>3, FeedStutters
<1>4. CASE SendStatusToOrphan
  <2>1. /\ sent' = [sent EXCEPT ![wSender] = Status] /\ wSender \notin Connected
        /\ UNCHANGED <<notifying, wSender>>
    BY <1>4 DEF SendStatusToOrphan, Connected
  <2>2. Seen' = Seen /\ Owed' = Owed
    BY <1>1, <1>2, <2>1 DEF Seen, Owed, TypeOK
  <2> QED
    BY <1>1, <1>2, <2>2, FeedStutters
<1>5. CASE SendStatus
  <2>1. /\ worker = "send" /\ life[wSender] # "orphaned" /\ wSender' = None
        /\ sent' = [sent EXCEPT ![wSender] = Status] /\ notifying' = notifying
    BY <1>5 DEF SendStatus
  <2>2. wSender \in Connections /\ wSender \in Connected
    BY <1>1, <2>1 DEF TypeOK, LifeInv, Connected
  <2>3. Seen' = [Seen EXCEPT ![wSender] = Status]
    BY <1>1, <1>2, <2>1, <2>2 DEF Seen, TypeOK
  <2>4. wSender \in Owed /\ Owed' = Owed \ {wSender}
    BY <1>1, <1>2, <2>1, <2>2, NamesAssumption DEF Owed, SenderInv, Connected
  <2>5. Status' = Status /\ gpioLight' = gpioLight
    BY <1>1 DEF control, Status
  <2>6. Feed!Tell(wSender)
    BY <1>2, <2>3, <2>4, <2>5 DEF Feed!Tell
  <2> QED
    BY <2>2, <2>6 DEF Feed!Next
<1> QED
    BY <1>3, <1>4, <1>5 DEF Updates

LEMMA FeedMoves ==
    ASSUME IInv, Moves
    PROVE  [Feed!Next]_(Feed!vars)
<1>1. /\ TypeOK /\ LifeInv /\ StatusInv /\ life \in [Connections -> Lives]
      /\ UNCHANGED <<control, notifying, wSender, sent>>
    BY MoveSteps DEF IInv, TypeOK, queueVars
<1>2. Status' = Status /\ gpioLight' = gpioLight
    BY <1>1 DEF control, Status
<1>3. ASSUME NEW c \in Connections, NEW step, life' = [life EXCEPT ![c] = step],
             \/ life[c] \in {"handshaking", "responding", "open"}
                  /\ step \in {"handshaking", "responding", "open"}
             \/ life[c] \notin {"handshaking", "responding", "open"}
                  /\ step \notin {"handshaking", "responding", "open"}
      PROVE  UNCHANGED Feed!vars
  <2>1. Connected' = Connected
    BY <1>1, <1>3 DEF Connected
  <2> QED
    BY <1>1, <2>1, FeedStutters DEF Owed, Seen
<1>4. CASE AttachReturns \/ DetachReturns
  <2>1. io.who \in Connections /\ life[io.who] \in {"constructing", "destroying"}
    BY <1>1, <1>4 DEF AttachReturns, DetachReturns, LifeInv, TypeOK, Running
  <2> QED
    BY <1>3, <1>4, <2>1 DEF AttachReturns, DetachReturns
<1>5. ASSUME NEW c \in Connections, ReadHandshake(c) \/ WriteHandshake(c) \/ AcceptFails(c)
      PROVE  UNCHANGED Feed!vars
    BY <1>3, <1>5 DEF ReadHandshake, WriteHandshake, AcceptFails, Drop
<1>6. ASSUME NEW c \in Connections, NEW fresh \in Connections, Accept(c, fresh)
      PROVE  Feed!Join(c)
  <2>1. /\ life[c] = "accepting" /\ life[fresh] = "none" /\ c # fresh
        /\ life' = [life EXCEPT ![c] = "handshaking", ![fresh] = "constructing"]
    BY <1>6 DEF Accept
  <2>2. c \notin Connected /\ Connected' = Connected \cup {c}
    BY <1>1, <2>1 DEF Connected
  <2>3. sent[c] = None
    BY <1>1, <2>1 DEF StatusInv
  <2>4. Seen' = Seen
    BY <1>1, <2>2, <2>3 DEF Seen
  <2>5. Owed' \in {Owed, Owed \cup {c}}
    BY <1>1, <2>2 DEF Owed
  <2> QED
    BY <1>2, <2>2, <2>4, <2>5 DEF Feed!Join
<1>7. ASSUME NEW c \in Connections, Disconnect(c) \/ UnmaskedFrame(c)
      PROVE  Feed!Leave(c)
  <2>1. PICK step \in {"orphaned", "destroying"} : life' = [life EXCEPT ![c] = step]
    BY <1>7 DEF Disconnect, UnmaskedFrame, Drop
  <2>2. c \in Connected
    BY <1>7 DEF Disconnect, UnmaskedFrame, Connected
  <2>3. Connected' = Connected \ {c}
    BY <1>1, <2>1 DEF Connected
  <2>4. Seen' = [Seen EXCEPT ![c] = None]
    BY <1>1, <2>3 DEF Seen
  <2>5. Owed' = Owed \ {c}
    BY <1>1, <2>3 DEF Owed
  <2> QED
    BY <1>2, <2>2, <2>3, <2>4, <2>5 DEF Feed!Leave
<1> QED
    BY <1>4, <1>5, <1>6, <1>7 DEF Moves, Feed!Next

\* To its clients PiCam is a status feed, for any number of connections, edges,
\* requests and departures.
THEOREM StatusIsFed == Spec => FeedsTheStatus
<1>1. FeedInv /\ [Next]_vars => [Feed!Next]_(Feed!vars)
  <2> SUFFICES ASSUME FeedInv, [Next]_vars
               PROVE  [Feed!Next]_(Feed!vars)
    OBVIOUS
  <2>1. IInv /\ TypeOK
    BY DEF FeedInv, IInv
  <2>2. CASE UNCHANGED vars
    BY <2>2, FeedKept DEF vars, queueVars, ioVars
  <2>3. CASE Pushes
    BY <2>1, <2>3, PushSteps, FeedKept DEF DataPush
  <2>4. CASE Pops
    BY <2>1, <2>4, PopSteps, FeedKept
  <2> QED
    BY <2>1, <2>2, <2>3, <2>4, FeedRuns, FeedUpdates, FeedMoves, Steps
<1> QED
    BY <1>1, FeedInit, FeedInvInit, FeedInvStep, PTL DEF Spec, FeedsTheStatus, Feed!Spec

------------------------------------------------------------------------------
(***************************************************************************)
(* The calls that constructors and destructors make: module SyncCall.  Its *)
(* variables stand beside those above, with which they share nothing.      *)
(***************************************************************************)
\* Where the caller is once it has pushed and before it has seen the flag.
Awaits == {"locking", "checking", "entering", "waiting"}

\* The calls in the queue whose lambda has not set the flag.
Pending ==
    {i \in 1 .. Len(syncQueue) :
        syncQueue[i] # 0 /\ ~(i = 1 /\ syncWorker \in {"notifying", "popping"})}

SyncTypes ==
    /\ {calls, frame} \subseteq Nat
    /\ wSyncMutex \in {"none", "caller", "worker"}
    /\ wObserverAttached \in BOOLEAN
    /\ caller \in {"idle", "pushing", "returning"} \cup Awaits
    /\ syncQueue \in Seq(Nat)
    /\ syncWorker \in {"idle", "locking", "setting", "notifying", "popping"}
    /\ syncWorker # "idle" => syncQueue # <<>>
    /\ syncWorker \in {"locking", "setting", "notifying"} => syncQueue[1] # 0

\* The caller awaits the only pending call, and its frame is there.
PendingInv ==
    /\ \A i, j \in Pending : i = j
    /\ \A i \in Pending : caller \in Awaits /\ syncQueue[i] = frame /\ ~wObserverAttached

\* Who holds the mutex, and what is then known of the flag.
MutexInv ==
    /\ caller \in {"checking", "entering"} <=> wSyncMutex = "caller"
    /\ syncWorker = "setting" <=> wSyncMutex = "worker"
    /\ caller \in {"pushing", "entering"} => ~wObserverAttached

\* A flag that is set is the work of the call's own lambda.
ServedInv ==
    /\ syncWorker \in {"locking", "setting"} => syncQueue[1] \in attached
    /\ caller \in Awaits /\ wObserverAttached => frame \in attached
    /\ caller = "returning" => frame \in attached
    /\ syncWorker = "notifying" /\ caller \in Awaits => syncQueue[1] = frame

\* A notification is not lost: who waits with the flag set is to be notified.
NotificationIsKept ==
    caller = "waiting" /\ wObserverAttached => syncWorker = "notifying"

SyncInv == SyncTypes /\ PendingInv /\ MutexInv /\ ServedInv /\ NotificationIsKept

LEMMA SyncInit == Sync!Init => SyncInv
<1> SUFFICES ASSUME Sync!Init
             PROVE  SyncInv
    OBVIOUS
<1>1. /\ calls = 0 /\ frame = 0 /\ wSyncMutex = "none" /\ wObserverAttached = FALSE
      /\ caller = "idle" /\ syncQueue = <<>> /\ syncWorker = "idle" /\ attached = {}
    BY DEF Sync!Init
<1>2. SyncTypes
  <2>1. syncQueue \in Seq(Nat) /\ calls \in Nat /\ frame \in Nat
    BY <1>1, EmptySeq
  <2> QED
    BY <1>1, <2>1 DEF SyncTypes
<1>3. Pending = {}
    BY <1>1 DEF Pending
<1> QED
    BY <1>1, <1>2, <1>3 DEF SyncInv, PendingInv, MutexInv, ServedInv, NotificationIsKept, Awaits

\* The queue's entries and the worker stay: so do the pending calls.
LEMMA SyncQueueKept ==
    ASSUME syncQueue' = syncQueue, syncWorker' = syncWorker
    PROVE  Pending' = Pending
BY DEF Pending

\* A new call begins when none is pending.
LEMMA SyncCallKeeps ==
    ASSUME SyncInv, Sync!Call
    PROVE  SyncInv'
<1> USE DEF SyncInv, Awaits
<1>1. /\ caller = "idle" /\ calls' = calls + 1 /\ frame' = calls + 1 /\ wSyncMutex' = "none"
      /\ wObserverAttached' = FALSE /\ caller' = "pushing" /\ syncQueue' = syncQueue
      /\ syncWorker' = syncWorker /\ attached' = attached
    BY DEF Sync!Call
<1>2. Pending = {} /\ Pending' = Pending
    BY <1>1, SyncQueueKept DEF PendingInv
<1>3. SyncTypes'
  <2>1. calls' \in Nat /\ frame' \in Nat
    BY <1>1 DEF SyncTypes
  <2> QED
    BY <1>1, <2>1 DEF SyncTypes
<1>4. PendingInv'
    BY <1>2 DEF PendingInv
<1>5. syncWorker \notin {"locking", "setting"}
  <2> SUFFICES ASSUME syncWorker \in {"locking", "setting"}
               PROVE  FALSE
    OBVIOUS
  <2>1. 1 \in Pending
    BY DEF SyncTypes, Pending
  <2> QED
    BY <1>2, <2>1
<1>6. MutexInv'
    BY <1>1, <1>5 DEF MutexInv
<1>7. ServedInv' /\ NotificationIsKept'
    BY <1>1, <1>5 DEF ServedInv, NotificationIsKept
<1> QED
    BY <1>3, <1>4, <1>6, <1>7

\* A push comes last, while no item runs; the caller's is the one that is pending.
LEMMA SyncPushKeeps ==
    ASSUME SyncInv, Sync!Push \/ Sync!OtherPush
    PROVE  SyncInv'
<1> USE DEF SyncInv, Awaits
<1>1. PICK entry \in Nat :
          /\ syncWorker = "idle" /\ syncQueue' = Append(syncQueue, entry)
          /\ syncWorker' = syncWorker /\ calls' = calls /\ frame' = frame
          /\ wSyncMutex' = wSyncMutex /\ wObserverAttached' = wObserverAttached
          /\ attached' = attached
          /\ \/ caller = "pushing" /\ caller' = "locking" /\ entry = frame
             \/ caller' = caller /\ entry = 0
    BY DEF Sync!Push, Sync!OtherPush, Sync!sync, SyncTypes
<1>2. /\ syncQueue \in Seq(Nat) /\ Len(syncQueue) \in Nat
      /\ syncQueue' \in Seq(Nat) /\ Len(syncQueue') = Len(syncQueue) + 1
      /\ \A i \in 1 .. Len(syncQueue) : syncQueue'[i] = syncQueue[i]
      /\ syncQueue'[Len(syncQueue) + 1] = entry
    BY <1>1, AppendProperties DEF SyncTypes
<1>3. SyncTypes'
    BY <1>1, <1>2 DEF SyncTypes
<1>4. \A i \in Pending' : i \in Pending \/ (i = Len(syncQueue) + 1 /\ entry # 0)
    BY <1>1, <1>2 DEF Pending
<1>5. \A i \in Pending : i \in 1 .. Len(syncQueue)
    BY DEF Pending
<1>6. PendingInv'
  <2>1. CASE caller = "pushing" /\ caller' = "locking" /\ entry = frame
    <3>1. Pending = {} /\ ~wObserverAttached
      BY <2>1 DEF PendingInv, MutexInv
    <3> QED
      BY <1>1, <1>2, <1>4, <2>1, <3>1 DEF PendingInv
  <2>2. CASE caller' = caller /\ entry = 0
    BY <1>1, <1>2, <1>4, <1>5, <2>2 DEF PendingInv
  <2> QED
    BY <1>1, <2>1, <2>2
<1>7. MutexInv' /\ ServedInv' /\ NotificationIsKept'
    BY <1>1 DEF MutexInv, ServedInv, NotificationIsKept
<1> QED
    BY <1>3, <1>6, <1>7

\* The caller's steps around the wait.
LEMMA SyncCallerKeeps ==
    ASSUME SyncInv, Sync!Lock \/ Sync!Check \/ Sync!Wait \/ Sync!Return \/ Sync!WakeSpuriously
    PROVE  SyncInv'
<1> USE DEF SyncInv, Awaits, Sync!CallerStep
<1>1. /\ syncQueue' = syncQueue /\ syncWorker' = syncWorker /\ calls' = calls
      /\ wObserverAttached' = wObserverAttached /\ attached' = attached
      /\ Pending' = Pending
    BY SyncQueueKept DEF Sync!Lock, Sync!Check, Sync!Wait, Sync!Return, Sync!WakeSpuriously, Sync!sync
<1>2. CASE Sync!Lock
    BY <1>1, <1>2 DEF Sync!Lock, SyncTypes, PendingInv, MutexInv, ServedInv, NotificationIsKept
<1>3. CASE Sync!Check
  <2>1. CASE wObserverAttached
    <3>1. Pending = {} /\ caller = "checking" /\ caller' = "returning" /\ wSyncMutex' = "none"
          /\ frame' = frame
      BY <1>3, <2>1 DEF Sync!Check, PendingInv
    <3> QED
      BY <1>1, <2>1, <3>1 DEF SyncTypes, PendingInv, MutexInv, ServedInv, NotificationIsKept
  <2>2. CASE ~wObserverAttached
    BY <1>1, <1>3, <2>2
       DEF Sync!Check, SyncTypes, PendingInv, MutexInv, ServedInv, NotificationIsKept
  <2> QED
    BY <2>1, <2>2
<1>4. CASE Sync!Wait
    BY <1>1, <1>4 DEF Sync!Wait, SyncTypes, PendingInv, MutexInv, ServedInv, NotificationIsKept
<1>5. CASE Sync!WakeSpuriously
    BY <1>1, <1>5
       DEF Sync!WakeSpuriously, SyncTypes, PendingInv, MutexInv, ServedInv, NotificationIsKept
<1>6. CASE Sync!Return
    BY <1>1, <1>6
       DEF Sync!Return, Sync!sync, SyncTypes, PendingInv, MutexInv, ServedInv, NotificationIsKept
<1> QED
    BY <1>2, <1>3, <1>4, <1>5, <1>6

\* The worker's steps: the lambda sets the flag once, in the frame of its own call.
LEMMA SyncWorkerKeeps ==
    ASSUME SyncInv, Sync!Worker
    PROVE  SyncInv'
<1> USE DEF SyncInv, Awaits
<1>1. /\ calls' = calls /\ frame' = frame
    BY DEF Sync!Worker, Sync!Begin, Sync!WorkerLocks, Sync!SetAndUnlock, Sync!NotifyOne, Sync!Pop
<1>2. syncQueue # <<>> => Head(syncQueue) = syncQueue[1] /\ 1 \in 1 .. Len(syncQueue)
    BY DEF SyncTypes
<1>3. CASE Sync!Begin
  <2>1. /\ syncWorker = "idle" /\ syncQueue # <<>> /\ syncQueue' = syncQueue
        /\ UNCHANGED <<wSyncMutex, wObserverAttached, caller>>
        /\ \/ syncQueue[1] = 0 /\ syncWorker' = "popping" /\ attached' = attached
           \/ /\ syncQueue[1] # 0 /\ syncWorker' = "locking"
              /\ attached' = attached \cup {syncQueue[1]}
    BY <1>2, <1>3 DEF Sync!Begin, Sync!sync
  <2>2. Pending' = Pending
    BY <2>1 DEF Pending
  <2> QED
    BY <1>1, <2>1, <2>2 DEF SyncTypes, PendingInv, MutexInv, ServedInv, NotificationIsKept
<1>4. CASE Sync!WorkerLocks
  <2>1. /\ syncWorker = "locking" /\ wSyncMutex = "none" /\ syncWorker' = "setting"
        /\ wSyncMutex' = "worker"
        /\ UNCHANGED <<wObserverAttached, caller, syncQueue, attached>>
    BY <1>4 DEF Sync!WorkerLocks
  <2>2. Pending' = Pending
    BY <2>1 DEF Pending
  <2> QED
    BY <1>1, <2>1, <2>2 DEF SyncTypes, PendingInv, MutexInv, ServedInv, NotificationIsKept
<1>5. CASE Sync!SetAndUnlock
  <2>1. /\ syncWorker = "setting" /\ syncWorker' = "notifying" /\ wObserverAttached' = TRUE
        /\ wSyncMutex' = "none" /\ UNCHANGED <<caller, syncQueue, attached>>
    BY <1>5 DEF Sync!SetAndUnlock
  <2>2. 1 \in Pending
    BY <1>2, <2>1 DEF Pending, SyncTypes
  <2>3. Pending' = {}
    BY <2>1, <2>2 DEF Pending, PendingInv
  <2>4. caller \in Awaits /\ syncQueue[1] = frame /\ syncQueue[1] \in attached
        /\ caller # "entering"
    BY <2>1, <2>2 DEF PendingInv, ServedInv, MutexInv
  <2> QED
    BY <1>1, <2>1, <2>3, <2>4
       DEF SyncTypes, PendingInv, MutexInv, ServedInv, NotificationIsKept
<1>6. CASE Sync!NotifyOne
  <2>1. /\ syncWorker = "notifying" /\ syncWorker' = "popping"
        /\ caller' = IF caller = "waiting" THEN "locking" ELSE caller
        /\ UNCHANGED <<wSyncMutex, wObserverAttached, syncQueue, attached>>
    BY <1>6 DEF Sync!NotifyOne, Sync!sync
  <2>2. Pending' = Pending
    BY <2>1 DEF Pending
  <2> QED
    BY <1>1, <2>1, <2>2 DEF SyncTypes, PendingInv, MutexInv, ServedInv, NotificationIsKept
<1>7. CASE Sync!Pop
  <2>1. /\ syncWorker = "popping" /\ syncWorker' = "idle" /\ syncQueue' = Tail(syncQueue)
        /\ UNCHANGED <<wSyncMutex, wObserverAttached, caller, attached>>
        /\ syncQueue # <<>> /\ syncQueue \in Seq(Nat)
    BY <1>7 DEF Sync!Pop, Sync!sync, SyncTypes
  <2>2. /\ syncQueue' \in Seq(Nat) /\ Len(syncQueue) \in Nat \ {0}
        /\ Len(syncQueue') = Len(syncQueue) - 1
        /\ \A i \in 1 .. Len(syncQueue') : syncQueue'[i] = syncQueue[i + 1]
    BY <2>1, HeadTailProperties, EmptySeq
  <2>3. \A i \in Pending' : i + 1 \in Pending /\ syncQueue'[i] = syncQueue[i + 1] /\ i \in Nat
    BY <2>1, <2>2 DEF Pending
  <2>4. \A i, j \in Pending' : i = j
    <3> TAKE i, j \in Pending'
    <3>1. i + 1 = j + 1 /\ i \in Nat /\ j \in Nat
      BY <2>3 DEF PendingInv
    <3> QED
      BY <3>1
  <2>5. PendingInv'
    BY <1>1, <2>1, <2>3, <2>4 DEF PendingInv
  <2> QED
    BY <1>1, <2>1, <2>2, <2>5 DEF SyncTypes, MutexInv, ServedInv, NotificationIsKept
<1> QED
    BY <1>3, <1>4, <1>5, <1>6, <1>7 DEF Sync!Worker

LEMMA SyncNext == SyncInv /\ [Sync!Next]_(Sync!vars) => SyncInv'
<1> SUFFICES ASSUME SyncInv, [Sync!Next]_(Sync!vars)
             PROVE  SyncInv'
    OBVIOUS
<1>1. CASE Sync!Next
    BY <1>1, SyncCallKeeps, SyncPushKeeps, SyncCallerKeeps, SyncWorkerKeeps
       DEF Sync!Next, Sync!Caller
<1>2. CASE UNCHANGED Sync!vars
  <2>1. /\ UNCHANGED <<calls, frame, wSyncMutex, wObserverAttached, caller, attached>>
        /\ UNCHANGED <<syncQueue, syncWorker>>
    BY <1>2 DEF Sync!vars, Sync!sync
  <2>2. Pending' = Pending
    BY <2>1, SyncQueueKept
  <2> QED
    BY <2>1, <2>2 DEF SyncInv, SyncTypes, PendingInv, MutexInv, ServedInv, NotificationIsKept
<1> QED
    BY <1>1, <1>2

\* The mutex and the flag are used in the frame of the call that they belong to,
\* and a call returns when it has been served, for any number of calls and items.
THEOREM FramesOutliveTheirUse == SyncSpec => []FrameOutlivesItsUse
<1>1. SyncInv => FrameOutlivesItsUse
  <2> SUFFICES ASSUME SyncInv
               PROVE  FrameOutlivesItsUse
    OBVIOUS
  <2>1. syncQueue # <<>> => Head(syncQueue) = syncQueue[1] /\ 1 \in 1 .. Len(syncQueue)
    BY DEF SyncInv, SyncTypes
  <2>2. ASSUME syncWorker \in {"locking", "setting"}
        PROVE  frame = Head(syncQueue)
    <3>1. 1 \in Pending /\ syncQueue # <<>>
      BY <2>1, <2>2 DEF SyncInv, SyncTypes, Pending
    <3> QED
      BY <2>1, <3>1 DEF SyncInv, PendingInv
  <2>3. ASSUME syncWorker = "notifying", caller = "waiting"
        PROVE  frame = Head(syncQueue)
    BY <2>1, <2>3 DEF SyncInv, SyncTypes, ServedInv, Awaits
  <2>4. caller = "returning" => frame \in attached
    BY DEF SyncInv, ServedInv
  <2> QED
    BY <2>2, <2>3, <2>4 DEF FrameOutlivesItsUse, Sync!FrameOutlivesItsUse
<1> QED
    BY <1>1, SyncInit, SyncNext, PTL DEF SyncSpec, Sync!Spec

\* Who waits with the flag set is about to be notified: no notification falls
\* between the check and the wait.
THEOREM NotificationsAreKept == SyncSpec => []NotificationIsKept
<1>1. SyncInv => NotificationIsKept
    BY DEF SyncInv
<1> QED
    BY <1>1, SyncInit, SyncNext, PTL DEF SyncSpec, Sync!Spec
==============================================================================

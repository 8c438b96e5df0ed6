------------------------------ MODULE SyncCall ------------------------------
(***************************************************************************)
(* How RemoteControl's constructors and destructor (RemoteControl.h) call  *)
(* the worker and wait: a mutex, a flag and a condition variable in their  *)
(* own stack frame, which the lambda they push refers to.  The frames of   *)
(* the io_service thread's calls lie one after the other in the same place.*)
(* The worker holds its queue's mutex while it runs an item, so that a     *)
(* push waits for it, as module ActiveObject has it.                       *)
(***************************************************************************)
EXTENDS Naturals, Sequences

CONSTANTS
    MaxCalls,          \* bounds on the calls, and on the items that wait
    MaxQueue

VARIABLES
    calls,             \* how many have been made
    frame,             \* the call whose frame is there, 0 for none
    wSyncMutex,        \* who holds it
    wObserverAttached,
    caller,            \* where the io_service thread is
    mWorkQueue,        \* the calls, 0 for another item
    worker,            \* where the worker is in the first of them
    attached           \* the calls whose attach() or detach() has run

sync == <<wSyncMutex, wObserverAttached>>
vars == <<calls, frame, sync, caller, mWorkQueue, worker, attached>>

Init ==
    /\ calls = 0
    /\ frame = 0
    /\ wSyncMutex = "none"
    /\ wObserverAttached = FALSE
    /\ caller = "idle"
    /\ mWorkQueue = <<>>
    /\ worker = "idle"
    /\ attached = {}

------------------------------------------------------------------------------
\* The caller.

Call ==
    /\ caller = "idle"
    /\ calls < MaxCalls
    /\ calls' = calls + 1
    /\ frame' = calls + 1
    /\ wSyncMutex' = "none"
    /\ wObserverAttached' = FALSE
    /\ caller' = "pushing"
    /\ UNCHANGED <<mWorkQueue, worker, attached>>

\* Mutant: a queue whose mutex is free while an item runs.
PushAnyTime ==
    /\ caller = "pushing"
    /\ Len(mWorkQueue) < MaxQueue
    /\ mWorkQueue' = Append(mWorkQueue, frame)
    /\ caller' = "locking"
    /\ UNCHANGED <<calls, frame, sync, worker, attached>>

Push ==
    /\ caller = "pushing"
    /\ worker = "idle"
    /\ Len(mWorkQueue) < MaxQueue
    /\ mWorkQueue' = Append(mWorkQueue, frame)
    /\ caller' = "locking"
    /\ UNCHANGED <<calls, frame, sync, worker, attached>>

CallerStep(from, to) ==
    /\ caller = from
    /\ caller' = to
    /\ UNCHANGED <<calls, frame, wObserverAttached, mWorkQueue, worker, attached>>

Lock ==
    /\ wSyncMutex = "none"
    /\ CallerStep("locking", "checking")
    /\ wSyncMutex' = "caller"

\* wait()'s predicate.
Check ==
    \/ wObserverAttached /\ CallerStep("checking", "returning") /\ wSyncMutex' = "none"
    \/ ~wObserverAttached /\ CallerStep("checking", "entering") /\ UNCHANGED wSyncMutex

Wait == CallerStep("entering", "waiting") /\ wSyncMutex' = "none"

WakeSpuriously == CallerStep("waiting", "locking") /\ UNCHANGED wSyncMutex

\* The frame is gone.
Return ==
    /\ caller = "returning"
    /\ caller' = "idle"
    /\ frame' = 0
    /\ UNCHANGED <<calls, sync, mWorkQueue, worker, attached>>

------------------------------------------------------------------------------
\* The worker.

\* Others push, too.
OtherPush ==
    /\ worker = "idle"
    /\ Len(mWorkQueue) < MaxQueue
    /\ mWorkQueue' = Append(mWorkQueue, 0)
    /\ UNCHANGED <<calls, frame, sync, caller, worker, attached>>

\* workHandler() takes the mutex, and the item runs: another's, or attach().
Begin ==
    /\ worker = "idle"
    /\ mWorkQueue # <<>>
    /\ \/ Head(mWorkQueue) = 0 /\ worker' = "popping" /\ UNCHANGED attached
       \/ Head(mWorkQueue) # 0 /\ worker' = "locking" /\ attached' = attached \cup {Head(mWorkQueue)}
    /\ UNCHANGED <<calls, frame, sync, caller, mWorkQueue>>

\* Mutant: the flag is set without the mutex.
WorkerLocksNot ==
    /\ worker = "locking"
    /\ worker' = "notifying"
    /\ wObserverAttached' = TRUE
    /\ UNCHANGED <<calls, frame, wSyncMutex, caller, mWorkQueue, attached>>

WorkerLocks ==
    /\ worker = "locking"
    /\ wSyncMutex = "none"
    /\ worker' = "setting"
    /\ wSyncMutex' = "worker"
    /\ UNCHANGED <<calls, frame, wObserverAttached, caller, mWorkQueue, attached>>

\* The end of the lock_guard's block releases the mutex.
SetAndUnlock ==
    /\ worker = "setting"
    /\ worker' = "notifying"
    /\ wObserverAttached' = TRUE
    /\ wSyncMutex' = "none"
    /\ UNCHANGED <<calls, frame, caller, mWorkQueue, attached>>

\* notify_one() wakes whoever waits on the condition variable that is there now.
NotifyOne ==
    /\ worker = "notifying"
    /\ worker' = "popping"
    /\ caller' = IF caller = "waiting" THEN "locking" ELSE caller
    /\ UNCHANGED <<calls, frame, sync, mWorkQueue, attached>>

Pop ==
    /\ worker = "popping"
    /\ worker' = "idle"
    /\ mWorkQueue' = Tail(mWorkQueue)
    /\ UNCHANGED <<calls, frame, sync, caller, attached>>

------------------------------------------------------------------------------
Caller == Push \/ Lock \/ Check \/ Wait \/ Return

Worker == Begin \/ WorkerLocks \/ SetAndUnlock \/ NotifyOne \/ Pop

Next == Call \/ Caller \/ WakeSpuriously \/ OtherPush \/ Worker

\* Both threads run, and each gets a mutex that is free again and again.
Spec ==
    /\ Init /\ [][Next]_vars
    /\ WF_vars(Worker) /\ SF_vars(WorkerLocks)
    /\ SF_vars(Push) /\ SF_vars(Lock)
    /\ WF_vars(Check) /\ WF_vars(Wait) /\ WF_vars(Return)

------------------------------------------------------------------------------
\* Properties.

\* The mutex and the flag are used only while their frame is there, and a call
\* returns only when it has been served.  The notification may come when the frame
\* has gone, but never when a later call waits in its place.
FrameOutlivesItsUse ==
    /\ worker \in {"locking", "setting"} => frame = Head(mWorkQueue)
    /\ worker = "notifying" /\ caller = "waiting" => frame = Head(mWorkQueue)
    /\ caller = "returning" => frame \in attached

\* Every call returns: no notification is lost between the check and the wait.
EveryCallReturns == caller = "pushing" ~> caller = "idle"
==============================================================================

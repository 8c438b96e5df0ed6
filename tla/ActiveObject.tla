----------------------------- MODULE ActiveObject -----------------------------
(***************************************************************************)
(* The work queue of src/PiCam/ActiveObject.h: a deque, a std::mutex and a *)
(* std::condition_variable shared by the threads that push and the one     *)
(* thread that runs workHandler().  PiCam has two of them: the one that    *)
(* owns CameraAndLightControl and the one that sends SMS messages.         *)
(*                                                                         *)
(* workHandler() calls the function of the front entry while it holds      *)
(* mQueueMutex (ActiveObject.h:50-58), so every thread that pushes waits   *)
(* for the running function, and a function that pushes to its own queue   *)
(* locks a mutex its thread already owns and never returns.                *)
(***************************************************************************)
EXTENDS Naturals, Sequences

CONSTANTS Callers,       \* threads that push work
          Worker,        \* the thread inside workHandler()
          NoThread,      \* the mutex's owner when it is free
          Functions,     \* the callables pushed
          SelfPushing,   \* those that push to the queue they run on
          MaxPushes      \* bound on the entries emplaced

ASSUME ThreadsAssumption ==
    /\ Worker \notin Callers
    /\ NoThread \notin Callers \cup {Worker}

ASSUME WorkAssumption ==
    /\ SelfPushing \subseteq Functions
    /\ MaxPushes \in Nat

VARIABLES
    mWorkQueue,          \* the deque of entries, front first
    mQueueMutex,         \* the thread that owns the mutex, or NoThread
    caller,              \* caller[c]: where thread c is in doPush()
    worker,              \* where the worker is in workHandler()
    accepted,            \* history: the entries emplaced, in order
    executed             \* history: the entries whose function was called

vars == <<mWorkQueue, mQueueMutex, caller, worker, accepted, executed>>

Entries == [terminate : BOOLEAN, function : Functions]

\* Positions in doPush(): outside or blocked on the mutex, inside the
\* lock_guard's scope, past it and about to notify_one().
CallerSteps == {"outside", "locked", "notify"}

\* Positions in workHandler(): about to lock, testing wait()'s predicate with
\* the lock held, asleep in wait(), calling the front's function, about to
\* pop it, out of the loop, blocked on the mutex it owns.
WorkerSteps == {"lock", "test", "asleep", "run", "pop", "stopped", "selfLocked"}

Init ==
    /\ mWorkQueue = <<>>
    /\ mQueueMutex = NoThread
    /\ caller = [c \in Callers |-> "outside"]
    /\ worker = "lock"
    /\ accepted = <<>>
    /\ executed = <<>>

------------------------------------------------------------------------------
\* doPush(), called by push(f) with (false, f) and by stop() with
\* (true, []() {}); ~ActiveObject() calls stop() once more.

\* std::lock_guard: the caller gets the mutex.
Lock(c) ==
    /\ caller[c] = "outside"
    /\ Len(accepted) < MaxPushes
    /\ mQueueMutex = NoThread
    /\ mQueueMutex' = c
    /\ caller' = [caller EXCEPT ![c] = "locked"]
    /\ UNCHANGED <<mWorkQueue, worker, accepted, executed>>

\* Mutant: the caller returns without notify_one().
EmplaceWithoutNotify(c, e) ==
    /\ caller[c] = "locked"
    /\ mWorkQueue' = Append(mWorkQueue, e)
    /\ accepted' = Append(accepted, e)
    /\ mQueueMutex' = NoThread
    /\ caller' = [caller EXCEPT ![c] = "outside"]
    /\ UNCHANGED <<worker, executed>>

\* Mutant: emplace_front() instead of emplace_back().
EmplaceFront(c, e) ==
    /\ caller[c] = "locked"
    /\ mWorkQueue' = <<e>> \o mWorkQueue
    /\ accepted' = Append(accepted, e)
    /\ mQueueMutex' = NoThread
    /\ caller' = [caller EXCEPT ![c] = "notify"]
    /\ UNCHANGED <<worker, executed>>

\* emplace_back(), and the lock_guard's scope ends.
Emplace(c, e) ==
    /\ caller[c] = "locked"
    /\ mWorkQueue' = Append(mWorkQueue, e)
    /\ accepted' = Append(accepted, e)
    /\ mQueueMutex' = NoThread
    /\ caller' = [caller EXCEPT ![c] = "notify"]
    /\ UNCHANGED <<worker, executed>>

\* mWorkSignal.notify_one(): wakes the worker if it is asleep, and is
\* forgotten otherwise.
Notify(c) ==
    /\ caller[c] = "notify"
    /\ caller' = [caller EXCEPT ![c] = "outside"]
    /\ worker' = IF worker = "asleep" THEN "lock" ELSE worker
    /\ UNCHANGED <<mWorkQueue, mQueueMutex, accepted, executed>>

------------------------------------------------------------------------------
\* workHandler(): one iteration of the loop.

\* The unique_lock of a new iteration, or wait() locking again once woken.
WorkerLock ==
    /\ worker = "lock"
    /\ mQueueMutex = NoThread
    /\ mQueueMutex' = Worker
    /\ worker' = "test"
    /\ UNCHANGED <<mWorkQueue, caller, accepted, executed>>

\* wait() finds the queue empty: it releases the mutex and falls asleep in
\* one step, as std::condition_variable guarantees.
WorkerSleep ==
    /\ worker = "test"
    /\ mWorkQueue = <<>>
    /\ mQueueMutex' = NoThread
    /\ worker' = "asleep"
    /\ UNCHANGED <<mWorkQueue, caller, accepted, executed>>

\* wait() may return with nobody having notified.
WorkerSpuriousWakeup ==
    /\ worker = "asleep"
    /\ worker' = "lock"
    /\ UNCHANGED <<mWorkQueue, mQueueMutex, caller, accepted, executed>>

\* Mutant: the loop ends when a termination entry is anywhere in the queue.
StopAtAnyTermination ==
    /\ worker = "test"
    /\ \E i \in 1 .. Len(mWorkQueue) : mWorkQueue[i].terminate
    /\ mQueueMutex' = NoThread
    /\ worker' = "stopped"
    /\ UNCHANGED <<mWorkQueue, caller, accepted, executed>>

\* The front is a termination entry: break.  The entry stays in the deque and
\* the unique_lock's destructor frees the mutex.
WorkerStop ==
    /\ worker = "test"
    /\ mWorkQueue # <<>>
    /\ Head(mWorkQueue).terminate
    /\ mQueueMutex' = NoThread
    /\ worker' = "stopped"
    /\ UNCHANGED <<mWorkQueue, caller, accepted, executed>>

\* Mutant: the mutex is released while the function runs.
TakeAndUnlock ==
    /\ worker = "test"
    /\ mWorkQueue # <<>>
    /\ ~Head(mWorkQueue).terminate
    /\ mQueueMutex' = NoThread
    /\ worker' = "run"
    /\ UNCHANGED <<mWorkQueue, caller, accepted, executed>>

\* Mutant: wait() without its predicate takes a wake-up for an entry.
TakeUntested ==
    /\ worker = "test"
    /\ mWorkQueue = <<>> \/ ~Head(mWorkQueue).terminate
    /\ worker' = "run"
    /\ UNCHANGED <<mWorkQueue, mQueueMutex, caller, accepted, executed>>

\* The front is work: its function is about to be called, under the lock.
WorkerTake ==
    /\ worker = "test"
    /\ mWorkQueue # <<>>
    /\ ~Head(mWorkQueue).terminate
    /\ worker' = "run"
    /\ UNCHANGED <<mWorkQueue, mQueueMutex, caller, accepted, executed>>

\* wWorkItem.second() returns.
WorkerRun ==
    /\ worker = "run"
    /\ Head(mWorkQueue).function \notin SelfPushing
    /\ executed' = Append(executed, Head(mWorkQueue))
    /\ worker' = "pop"
    /\ UNCHANGED <<mWorkQueue, mQueueMutex, caller, accepted>>

\* wWorkItem.second() calls doPush() on the queue it was taken from: the
\* lock_guard waits for a mutex this thread holds.
WorkerSelfPush ==
    /\ worker = "run"
    /\ Head(mWorkQueue).function \in SelfPushing
    /\ worker' = "selfLocked"
    /\ UNCHANGED <<mWorkQueue, mQueueMutex, caller, accepted, executed>>

\* Mutant: the queue is popped twice.
PopTwice ==
    /\ worker = "pop"
    /\ mWorkQueue' = IF Len(mWorkQueue) > 1 THEN Tail(Tail(mWorkQueue)) ELSE <<>>
    /\ mQueueMutex' = NoThread
    /\ worker' = "lock"
    /\ UNCHANGED <<caller, accepted, executed>>

\* pop_front(), and the unique_lock's scope ends.
WorkerPop ==
    /\ worker = "pop"
    /\ mWorkQueue' = Tail(mWorkQueue)
    /\ mQueueMutex' = NoThread
    /\ worker' = "lock"
    /\ UNCHANGED <<caller, accepted, executed>>

------------------------------------------------------------------------------
WorkerStep ==
    \/ WorkerLock \/ WorkerSleep \/ WorkerStop \/ WorkerTake
    \/ WorkerRun \/ WorkerSelfPush \/ WorkerPop

CallerReturns(c) == Notify(c) \/ \E e \in Entries : Emplace(c, e)

Next ==
    \/ WorkerStep
    \/ WorkerSpuriousWakeup
    \/ \E c \in Callers : Lock(c) \/ CallerReturns(c)

\* A thread that runs keeps running: the worker and a caller inside doPush()
\* take their next step.  Nobody has to push, and nobody relies on a spurious
\* wake-up.
Fairness ==
    /\ WF_vars(WorkerStep)
    /\ \A c \in Callers : WF_vars(CallerReturns(c))

Spec == Init /\ [][Next]_vars /\ Fairness

------------------------------------------------------------------------------
\* Properties.

\* Types, and wWorkItem: the reference workHandler() takes to the front of the
\* deque (ActiveObject.h:57) refers to an entry for as long as it is used.
TypeOK ==
    /\ worker \in {"run", "pop", "selfLocked"} => mWorkQueue # <<>>
    /\ mWorkQueue \in Seq(Entries)
    /\ mQueueMutex \in Callers \cup {Worker, NoThread}
    /\ caller \in [Callers -> CallerSteps]
    /\ worker \in WorkerSteps
    /\ accepted \in Seq(Entries)
    /\ executed \in Seq(Entries)

\* No wake-up is lost: whenever the worker sleeps although the deque holds an
\* entry, some caller has emplaced and has yet to reach notify_one().  It is
\* about doPush() notifying after it has unlocked, and wait() testing the deque
\* under the lock.
NoLostWakeup ==
    worker = "asleep" /\ mWorkQueue # <<>> =>
        \E c \in Callers : caller[c] = "notify"

\* The loop ends only at a termination entry, and by then every function
\* accepted before that entry has been called: stop() drains the queue, it
\* does not cut it short.
StopDrainsTheQueue ==
    worker = "stopped" =>
        /\ Len(executed) < Len(accepted)
        /\ accepted[Len(executed) + 1].terminate
        /\ \A i \in 1 .. Len(executed) : ~accepted[i].terminate

\* From the moment the worker has chosen an entry until it has popped it, no
\* thread's push completes: the price of calling the function under the lock.
NoPushWhileRunning ==
    [][(worker \in {"run", "pop", "selfLocked"}) => accepted' = accepted]_vars

WQ == INSTANCE WorkQueue WITH accepted <- accepted, executed <- executed

\* Every step of the threads is a step of the abstract queue or a stutter:
\* functions are called in the order of acceptance, each once, and none behind
\* a termination entry.
WorkQueueSafety == WQ!Init /\ [][WQ!Next]_(WQ!vars)

\* The same with the abstract queue's fairness: accepted work that no
\* termination entry precedes is eventually called.  It needs work that does
\* not push to its own queue.
ImplementsWorkQueue == WQ!Spec
==============================================================================

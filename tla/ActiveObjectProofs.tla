-------------------------- MODULE ActiveObjectProofs --------------------------
(***************************************************************************)
(* The safety of ActiveObject for any number of threads, any callables and *)
(* any number of pushes.  The inductive invariant says who may own the     *)
(* mutex, and that the deque is what remains of the accepted entries once  *)
(* the executed ones are gone.                                             *)
(***************************************************************************)
EXTENDS ActiveObject, SequenceTheorems, TLAPS

\* The positions at which workHandler() owns the mutex.
Holding == {"test", "run", "pop", "selfLocked"}

\* Who owns the mutex is told by where the threads are.
LockInv ==
    /\ \A c \in Callers : caller[c] = "locked" <=> mQueueMutex = c
    /\ worker \in Holding <=> mQueueMutex = Worker

\* The number of entries popped: the function of the front entry has already
\* been called when the worker is about to pop it.
Popped == IF worker = "pop" THEN Len(executed) - 1 ELSE Len(executed)

\* The deque is the accepted entries without the popped ones, and the executed
\* entries are the first accepted ones.
QueueInv ==
    /\ Popped \in Nat
    /\ Len(accepted) = Popped + Len(mWorkQueue)
    /\ \A i \in 1 .. Len(mWorkQueue) : mWorkQueue[i] = accepted[Popped + i]
    /\ \A i \in 1 .. Len(executed) :
          executed[i] = accepted[i] /\ ~accepted[i].terminate

\* What the worker has read at the front of the deque.
FrontInv ==
    /\ worker \in {"run", "pop", "selfLocked"} => ~mWorkQueue[1].terminate
    /\ worker = "stopped" => mWorkQueue # <<>> /\ mWorkQueue[1].terminate

IInv == TypeOK /\ LockInv /\ QueueInv /\ FrontInv /\ NoLostWakeup

------------------------------------------------------------------------------
\* The initial state satisfies the invariant.
LEMMA InitInv == Init => IInv
<1> SUFFICES ASSUME Init PROVE IInv
    OBVIOUS
<1> USE DEF Init
<1>1. TypeOK
    BY ThreadsAssumption DEF TypeOK, CallerSteps, WorkerSteps
<1>2. LockInv
    BY ThreadsAssumption DEF LockInv, Holding
<1>3. QueueInv
    BY DEF QueueInv, Popped
<1>4. FrontInv /\ NoLostWakeup
    BY DEF FrontInv, NoLostWakeup
<1> QED
    BY <1>1, <1>2, <1>3, <1>4 DEF IInv

\* A caller that gets the mutex disturbs neither the deque nor the worker.
LEMMA LockStep ==
    ASSUME IInv, NEW c \in Callers, Lock(c)
    PROVE  IInv'
<1> USE DEF IInv, Lock
<1>1. TypeOK'
    BY DEF TypeOK, CallerSteps
<1>2. LockInv'
    BY ThreadsAssumption DEF TypeOK, LockInv
<1>3. QueueInv' /\ FrontInv'
    BY DEF QueueInv, Popped, FrontInv
<1>4. NoLostWakeup'
    BY DEF NoLostWakeup, TypeOK
<1> QED
    BY <1>1, <1>2, <1>3, <1>4

\* An entry goes to the end of the deque and of the history alike.
LEMMA EmplaceStep ==
    ASSUME IInv, NEW c \in Callers, NEW e \in Entries, Emplace(c, e)
    PROVE  IInv'
<1> USE DEF IInv, Emplace
<1>1. /\ mWorkQueue \in Seq(Entries)
      /\ accepted \in Seq(Entries)
    BY DEF TypeOK
<1>2. /\ mWorkQueue' \in Seq(Entries)
      /\ Len(mWorkQueue') = Len(mWorkQueue) + 1
      /\ \A i \in 1 .. Len(mWorkQueue) : mWorkQueue'[i] = mWorkQueue[i]
      /\ mWorkQueue'[Len(mWorkQueue) + 1] = e
      /\ mWorkQueue' # <<>>
    BY <1>1, AppendProperties
<1>3. /\ accepted' \in Seq(Entries)
      /\ Len(accepted') = Len(accepted) + 1
      /\ \A i \in 1 .. Len(accepted) : accepted'[i] = accepted[i]
      /\ accepted'[Len(accepted) + 1] = e
    BY <1>1, AppendProperties
<1>4. TypeOK'
    BY <1>2, <1>3 DEF TypeOK, CallerSteps
<1>5. LockInv'
    BY ThreadsAssumption DEF TypeOK, LockInv
<1>6. worker \notin Holding
    BY ThreadsAssumption DEF LockInv
<1>7. QueueInv'
  <2>1. Popped = Len(executed) /\ Popped' = Len(executed)
    BY <1>6 DEF Popped, Holding
  <2>2. /\ Len(mWorkQueue) \in Nat
        /\ Len(accepted) \in Nat
        /\ Len(executed) \in Nat
    BY DEF TypeOK
  <2>3. /\ Len(accepted) = Len(executed) + Len(mWorkQueue)
        /\ \A i \in 1 .. Len(mWorkQueue) : mWorkQueue[i] = accepted[Len(executed) + i]
        /\ \A i \in 1 .. Len(executed) :
              executed[i] = accepted[i] /\ ~accepted[i].terminate
    BY <2>1 DEF QueueInv
  <2>4. ASSUME NEW i \in 1 .. Len(mWorkQueue')
        PROVE  mWorkQueue'[i] = accepted'[Len(executed) + i]
    <3>1. CASE i = Len(mWorkQueue) + 1
      BY <3>1, <1>2, <1>3, <2>2, <2>3
    <3>2. CASE i # Len(mWorkQueue) + 1
      <4>1. i \in 1 .. Len(mWorkQueue) /\ Len(executed) + i \in 1 .. Len(accepted)
        BY <3>2, <1>2, <2>2, <2>3
      <4> QED
        BY <4>1, <1>2, <1>3, <2>3
    <3> QED
      BY <3>1, <3>2
  <2>5. ASSUME NEW i \in 1 .. Len(executed)
        PROVE  executed[i] = accepted'[i] /\ ~accepted'[i].terminate
    <3>1. i \in 1 .. Len(accepted)
      BY <2>2, <2>3
    <3> QED
      BY <3>1, <1>3, <2>3
  <2>6. /\ Popped' \in Nat
        /\ Len(accepted') = Popped' + Len(mWorkQueue')
    BY <2>1, <2>2, <2>3, <1>2, <1>3
  <2>7. executed' = executed
    OBVIOUS
  <2> QED
    BY ONLY <2>1, <2>4, <2>5, <2>6, <2>7 DEF QueueInv
<1>8. FrontInv'
    BY <1>2, <1>6, HeadTailProperties, EmptySeq, <1>1 DEF FrontInv, Holding
<1>9. NoLostWakeup'
    BY DEF NoLostWakeup, TypeOK
<1> QED
    BY <1>4, <1>5, <1>7, <1>8, <1>9

\* notify_one() leaves nobody asleep.
LEMMA NotifyStep ==
    ASSUME IInv, NEW c \in Callers, Notify(c)
    PROVE  IInv'
<1> USE DEF IInv, Notify
<1>1. TypeOK'
    BY DEF TypeOK, CallerSteps, WorkerSteps
<1>2. LockInv'
    BY ThreadsAssumption DEF TypeOK, LockInv, Holding
<1>3. QueueInv' /\ FrontInv' /\ NoLostWakeup'
    BY DEF QueueInv, Popped, FrontInv, NoLostWakeup
<1> QED
    BY <1>1, <1>2, <1>3

\* Steps of workHandler() that touch neither the deque nor the histories.
LEMMA WorkerControlStep ==
    ASSUME IInv,
           WorkerLock \/ WorkerSleep \/ WorkerSpuriousWakeup
             \/ WorkerStop \/ WorkerTake \/ WorkerSelfPush
    PROVE  IInv'
<1> USE DEF IInv
<1>1. UNCHANGED <<mWorkQueue, caller, accepted, executed>>
    BY DEF WorkerLock, WorkerSleep, WorkerSpuriousWakeup, WorkerStop,
           WorkerTake, WorkerSelfPush
<1>2. mWorkQueue # <<>> => Head(mWorkQueue) = mWorkQueue[1]
    BY HeadTailProperties, EmptySeq DEF TypeOK
<1>3. TypeOK'
    BY <1>1 DEF TypeOK, WorkerSteps, WorkerLock, WorkerSleep,
           WorkerSpuriousWakeup, WorkerStop, WorkerTake, WorkerSelfPush
<1>4. LockInv'
    BY <1>1, ThreadsAssumption DEF TypeOK, LockInv, Holding, WorkerLock,
           WorkerSleep, WorkerSpuriousWakeup, WorkerStop, WorkerTake,
           WorkerSelfPush
<1>5. QueueInv'
    BY <1>1 DEF QueueInv, Popped, WorkerLock, WorkerSleep,
           WorkerSpuriousWakeup, WorkerStop, WorkerTake, WorkerSelfPush
<1>6. FrontInv'
    BY <1>1, <1>2 DEF FrontInv, WorkerLock, WorkerSleep,
           WorkerSpuriousWakeup, WorkerStop, WorkerTake, WorkerSelfPush
<1>7. NoLostWakeup'
    BY <1>1 DEF NoLostWakeup, WorkerLock, WorkerSleep,
           WorkerSpuriousWakeup, WorkerStop, WorkerTake, WorkerSelfPush
<1> QED
    BY <1>3, <1>4, <1>5, <1>6, <1>7

\* The function called is that of the first accepted entry not yet executed.
LEMMA WorkerRunStep ==
    ASSUME IInv, WorkerRun
    PROVE  IInv' /\ accepted[Len(executed) + 1] = Head(mWorkQueue)
<1> USE DEF IInv, WorkerRun
<1>1. /\ mWorkQueue \in Seq(Entries)
      /\ mWorkQueue # <<>>
      /\ accepted \in Seq(Entries)
      /\ executed \in Seq(Entries)
    BY DEF TypeOK
<1>2. /\ Head(mWorkQueue) = mWorkQueue[1]
      /\ mWorkQueue[1] \in Entries
      /\ Len(mWorkQueue) \in Nat \ {0}
      /\ Len(executed) \in Nat
    BY <1>1, HeadTailProperties, EmptySeq
<1>3. /\ executed' \in Seq(Entries)
      /\ Len(executed') = Len(executed) + 1
      /\ \A i \in 1 .. Len(executed) : executed'[i] = executed[i]
      /\ executed'[Len(executed) + 1] = mWorkQueue[1]
    BY <1>1, <1>2, AppendProperties
<1>4. Popped = Len(executed) /\ Popped' = Len(executed)
    BY <1>2, <1>3 DEF Popped
<1>5. /\ accepted[Len(executed) + 1] = mWorkQueue[1]
      /\ ~mWorkQueue[1].terminate
    BY <1>2, <1>4 DEF QueueInv, FrontInv
<1>6. TypeOK'
    BY <1>1, <1>3 DEF TypeOK, WorkerSteps
<1>7. LockInv'
    BY DEF LockInv, Holding
<1>8. QueueInv'
  <2>1. ASSUME NEW i \in 1 .. Len(executed')
        PROVE  executed'[i] = accepted[i] /\ ~accepted[i].terminate
    <3>1. CASE i = Len(executed) + 1
      BY <3>1, <1>3, <1>5
    <3>2. CASE i # Len(executed) + 1
      BY <3>2, <1>2, <1>3 DEF QueueInv
    <3> QED
      BY <3>1, <3>2
  <2> QED
    BY <2>1, <1>2, <1>4 DEF QueueInv
<1>9. FrontInv' /\ NoLostWakeup'
    BY DEF FrontInv, NoLostWakeup
<1> QED
    BY <1>2, <1>5, <1>6, <1>7, <1>8, <1>9

\* The entry popped is the one that was executed last.
LEMMA WorkerPopStep ==
    ASSUME IInv, WorkerPop
    PROVE  IInv'
<1> USE DEF IInv, WorkerPop
<1>1. /\ mWorkQueue \in Seq(Entries)
      /\ mWorkQueue # <<>>
      /\ Len(executed) \in Nat
    BY DEF TypeOK
<1>2. /\ mWorkQueue' \in Seq(Entries)
      /\ Len(mWorkQueue) \in Nat \ {0}
      /\ Len(mWorkQueue') = Len(mWorkQueue) - 1
      /\ \A i \in 1 .. Len(mWorkQueue) - 1 : mWorkQueue'[i] = mWorkQueue[i + 1]
    BY <1>1, HeadTailProperties, EmptySeq
<1>3. Popped = Len(executed) - 1 /\ Popped' = Len(executed)
    BY DEF Popped
<1>4. TypeOK'
    BY <1>2 DEF TypeOK, WorkerSteps
<1>5. LockInv'
    BY ThreadsAssumption DEF TypeOK, LockInv, Holding
<1>6. QueueInv'
  <2>1. ASSUME NEW i \in 1 .. Len(mWorkQueue')
        PROVE  mWorkQueue'[i] = accepted[Len(executed) + i]
    <3>1. i \in 1 .. Len(mWorkQueue) - 1 /\ i + 1 \in 1 .. Len(mWorkQueue)
      BY <1>2
    <3>2. mWorkQueue[i + 1] = accepted[Popped + (i + 1)]
      BY <3>1 DEF QueueInv
    <3>3. Popped + (i + 1) = Len(executed) + i
      BY <1>1, <1>3
    <3> QED
      BY <3>1, <3>2, <3>3, <1>2
  <2> QED
    BY <2>1, <1>1, <1>2, <1>3 DEF QueueInv
<1>7. FrontInv' /\ NoLostWakeup'
    BY DEF FrontInv, NoLostWakeup
<1> QED
    BY <1>4, <1>5, <1>6, <1>7

------------------------------------------------------------------------------
\* The invariant is inductive: no step of any thread breaks it.
LEMMA StepInv == IInv /\ [Next]_vars => IInv'
<1> SUFFICES ASSUME IInv, [Next]_vars PROVE IInv'
    OBVIOUS
<1>1. CASE UNCHANGED vars
    BY <1>1 DEF vars, IInv, TypeOK, LockInv, QueueInv, Popped, FrontInv,
           NoLostWakeup
<1>2. ASSUME NEW c \in Callers, Lock(c) \/ CallerReturns(c) PROVE IInv'
    BY <1>2, LockStep, EmplaceStep, NotifyStep DEF CallerReturns
<1>3. CASE WorkerSpuriousWakeup
    BY <1>3, WorkerControlStep
<1>4. CASE WorkerStep
    BY <1>4, WorkerControlStep, WorkerRunStep, WorkerPopStep DEF WorkerStep
<1> QED
    BY <1>1, <1>2, <1>3, <1>4 DEF Next

\* Every reachable state satisfies the invariant.
THEOREM Invariance == Spec => []IInv
BY InitInv, StepInv, PTL DEF Spec

\* The deque, the mutex and the threads keep their types, and the reference to
\* the front entry stays valid while the entry's function runs.
THEOREM TypeCorrect == Spec => []TypeOK
<1>1. IInv => TypeOK
    BY DEF IInv
<1> QED
    BY <1>1, Invariance, PTL

\* No wake-up is lost, whatever the number of threads that push.
THEOREM WakeupsAreKept == Spec => []NoLostWakeup
<1>1. IInv => NoLostWakeup
    BY DEF IInv
<1> QED
    BY <1>1, Invariance, PTL

\* The worker leaves its loop only when every function accepted before the
\* first termination entry has been called.
THEOREM StopDrains == Spec => []StopDrainsTheQueue
<1>1. IInv => StopDrainsTheQueue
  <2> SUFFICES ASSUME IInv, worker = "stopped" PROVE StopDrainsTheQueue
    BY DEF StopDrainsTheQueue
  <2> USE DEF IInv
  <2>1. mWorkQueue # <<>> /\ mWorkQueue[1].terminate
    BY DEF FrontInv
  <2>2. Len(mWorkQueue) \in Nat \ {0} /\ Len(executed) \in Nat
    BY <2>1, HeadTailProperties, EmptySeq DEF TypeOK
  <2>3. Popped = Len(executed)
    BY DEF Popped
  <2> QED
    BY <2>1, <2>2, <2>3 DEF QueueInv, StopDrainsTheQueue
<1> QED
    BY <1>1, Invariance, PTL

\* While a function runs nothing is accepted: whoever pushes waits for it.
THEOREM PushersWait == Spec => NoPushWhileRunning
<1>1. IInv /\ [Next]_vars
        => [(worker \in {"run", "pop", "selfLocked"}) => accepted' = accepted]_vars
  <2> SUFFICES ASSUME IInv, Next, worker \in {"run", "pop", "selfLocked"}
               PROVE  accepted' = accepted
    OBVIOUS
  <2>1. \A c \in Callers : caller[c] # "locked"
    BY ThreadsAssumption DEF IInv, LockInv, Holding
  <2> QED
    BY <2>1 DEF Next, WorkerStep, CallerReturns, Lock, Emplace, Notify,
           WorkerLock, WorkerSleep, WorkerSpuriousWakeup, WorkerStop,
           WorkerTake, WorkerRun, WorkerSelfPush, WorkerPop
<1> QED
    BY <1>1, Invariance, PTL DEF Spec, NoPushWhileRunning

\* The threads implement the abstract queue: every function is called once, in
\* the order of acceptance, and none behind a termination entry.
THEOREM Refinement == Spec => WorkQueueSafety
<1>1. Init => WQ!Init
    BY DEF Init, WQ!Init
<1>2. IInv /\ [Next]_vars => [WQ!Next]_(WQ!vars)
  <2> SUFFICES ASSUME IInv, [Next]_vars
               PROVE  WQ!Next \/ UNCHANGED <<accepted, executed>>
    BY DEF WQ!vars
  <2>1. ASSUME NEW c \in Callers, NEW e \in Entries, Emplace(c, e)
        PROVE  WQ!Next
    BY <2>1 DEF Emplace, WQ!Next, WQ!Accept, WQ!Entries, Entries
  <2>2. CASE WorkerRun
    <3>1. accepted[Len(executed) + 1] = Head(mWorkQueue)
      BY <2>2, WorkerRunStep
    <3>2. /\ mWorkQueue \in Seq(Entries)
          /\ mWorkQueue # <<>>
          /\ Len(executed) \in Nat
      BY <2>2 DEF IInv, TypeOK, WorkerRun
    <3>3. /\ Head(mWorkQueue) = mWorkQueue[1]
          /\ Len(mWorkQueue) \in Nat \ {0}
      BY <3>2, HeadTailProperties, EmptySeq
    <3>4. Len(executed) + 1 <= Len(accepted) /\ ~Head(mWorkQueue).terminate
      BY <2>2, <3>2, <3>3 DEF IInv, QueueInv, Popped, FrontInv, WorkerRun
    <3> QED
      BY <2>2, <3>1, <3>4 DEF WorkerRun, WQ!Next, WQ!Run
  <2> QED
    BY <2>1, <2>2 DEF Next, vars, WorkerStep, CallerReturns, Lock, Notify,
           WorkerLock, WorkerSleep, WorkerSpuriousWakeup, WorkerStop,
           WorkerTake, WorkerSelfPush, WorkerPop
<1> QED
    BY <1>1, <1>2, Invariance, PTL DEF Spec, WorkQueueSafety
==============================================================================

------------------------------ MODULE MCSyncCall ------------------------------
(***************************************************************************)
(* SyncCall for TLC and for the proofs, with a queue and a worker of names *)
(* of their own, so that it can stand beside RemoteControl, whose calls it *)
(* describes.                                                              *)
(***************************************************************************)
EXTENDS Naturals

CONSTANTS
    MaxCalls,          \* bounds on the calls, and on the items that wait
    MaxQueue

ASSUME SyncCallAssumption == {MaxCalls, MaxQueue} \subseteq Nat \ {0}

VARIABLES calls, frame, wSyncMutex, wObserverAttached, caller, attached,
          syncQueue, syncWorker

Sync == INSTANCE SyncCall WITH mWorkQueue <- syncQueue, worker <- syncWorker

SyncSpec == Sync!Spec

\* The mutex and the flag of RemoteControl.h:19-32 are used only while their
\* frame is there, and the late notify_one() never meets a later call.
FrameOutlivesItsUse == Sync!FrameOutlivesItsUse

\* Every constructor and destructor returns.
EveryCallReturns == Sync!EveryCallReturns
==============================================================================

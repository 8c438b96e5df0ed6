------------------------------ MODULE WorkQueue ------------------------------
(***************************************************************************)
(* What an ActiveObject (src/PiCam/ActiveObject.h) promises the threads    *)
(* that push work to it: the functions run one at a time, in the order in  *)
(* which they were accepted, each exactly once, until a termination entry  *)
(* is reached; nothing behind a termination entry ever runs.  How threads  *)
(* lock, sleep and wake each other is left to module ActiveObject, which   *)
(* implements this one.                                                    *)
(***************************************************************************)
EXTENDS Naturals, Sequences

CONSTANT Functions                \* the callables a thread may push

\* An entry of the queue: std::pair<bool, Function>.  The pair that stop()
\* emplaces carries an empty lambda, so its function is immaterial.
Entries == [terminate : BOOLEAN, function : Functions]

VARIABLES accepted,               \* every entry emplaced so far, in order
          executed                \* every entry whose function was called

vars == <<accepted, executed>>

Init == accepted = <<>> /\ executed = <<>>

\* push() and stop(), at the moment the entry is in the queue.
Accept(e) ==
    /\ accepted' = Append(accepted, e)
    /\ UNCHANGED executed

\* The next accepted entry runs, unless it is a termination entry.
Run ==
    LET next == Len(executed) + 1
    IN  /\ next <= Len(accepted)
        /\ ~accepted[next].terminate
        /\ executed' = Append(executed, accepted[next])
        /\ UNCHANGED accepted

Next == Run \/ \E e \in Entries : Accept(e)

Spec == Init /\ [][Next]_vars /\ WF_vars(Run)
==============================================================================

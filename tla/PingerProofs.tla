----------------------------- MODULE PingerProofs -----------------------------
(***************************************************************************)
(* The safety of Pinger for any number of sequence numbers and any life of *)
(* a reply shorter than a turn of them.                                    *)
(***************************************************************************)
EXTENDS Pinger, SequenceTheorems, TLAPS

\* The one wait there is, what it waits for, and how the replies handled since
\* the latest request show in it.
TimerInv ==
    process = "running" =>
        LET w == waits[1]
        IN  /\ w.handler = "handleTimeout" =>
                  expiry = ReplyTimeout /\ (w.cancelled <=> mNumReplies > 0)
            /\ w.handler = "startSend" =>
                  /\ expiry = RequestInterval
                  /\ (w.cancelled \/ mNumReplies = 0) => elapsed >= RequestInterval

\* The sequence number of a reply is as many behind the present one as requests
\* were sent since, modulo SequenceNumbers.
NetworkInv ==
    process = "running" =>
        \A r \in network :
            \/ r.sequence + r.age = mSequenceNumber
            \/ r.sequence + r.age = mSequenceNumber + SequenceNumbers

SilenceInv ==
    /\ ErrorsAreSilence
    /\ mNumReplies > 0 <=> silent = 0
    /\ process = "running" => silent <= MaxErrors /\ mNumErrors < MaxErrors

IInv == TypeOK /\ TimerInv /\ NetworkInv /\ SilenceInv

------------------------------------------------------------------------------
\* The next sequence number.
LEMMA NextSequenceNumber ==
    ASSUME NEW n \in 0 .. SequenceNumbers - 1
    PROVE  /\ n + 1 < SequenceNumbers => (n + 1) % SequenceNumbers = n + 1
           /\ n + 1 = SequenceNumbers => (n + 1) % SequenceNumbers = 0
BY SequenceAssumption

\* A reply to the request just sent.
LEMMA NewReply ==
    ASSUME NEW n \in 0 .. SequenceNumbers - 1
    PROVE  ReplyTo(n) \in Replies /\ ReplyTo(n).sequence + ReplyTo(n).age = n
<1>1. ReplyTo(n).sequence = n /\ ReplyTo(n).age = 0
    BY DEF ReplyTo
<1>2. n + 0 = n
    BY SequenceAssumption
<1> QED
    BY <1>1, <1>2, SequenceAssumption DEF ReplyTo, Replies

\* Only a reply to the latest request has its sequence number.
LEMMA OnlyTheLatestMatches ==
    ASSUME TypeOK, NetworkInv, process = "running", NEW r \in network
    PROVE  Matches(r) <=> r.age = 0
<1>1. /\ r.age \in 0 .. Lifetime
      /\ r.sequence \in 0 .. SequenceNumbers - 1
      /\ mSequenceNumber \in 0 .. SequenceNumbers - 1
    BY DEF TypeOK, Replies
<1>2. \/ r.sequence + r.age = mSequenceNumber
      \/ r.sequence + r.age = mSequenceNumber + SequenceNumbers
    BY DEF NetworkInv
<1> QED
    BY <1>1, <1>2, SequenceAssumption DEF Matches

\* There is one wait.
LEMMA OneWait ==
    ASSUME TypeOK
    PROVE  /\ waits # <<>>
           /\ Head(waits) = waits[1]
           /\ waits[1] \in Waits
BY DEF TypeOK

\* Cancelling marks the waits of a sequence and leaves their handlers.
LEMMA CancelWaits ==
    ASSUME NEW ws \in Seq(Waits)
    PROVE  /\ Cancelled(ws) \in Seq(Waits)
           /\ Len(Cancelled(ws)) = Len(ws)
           /\ \A i \in 1 .. Len(ws) :
                 Cancelled(ws)[i].handler = ws[i].handler /\ Cancelled(ws)[i].cancelled
<1>1. Len(ws) \in Nat /\ DOMAIN ws = 1 .. Len(ws)
    OBVIOUS
<1>2. \A i \in 1 .. Len(ws) : ws[i] \in Waits
    OBVIOUS
<1>3. \A i \in 1 .. Len(ws) : [ws[i] EXCEPT !.cancelled = TRUE] \in Waits
    BY <1>2 DEF Waits
<1>4. Cancelled(ws) = [i \in 1 .. Len(ws) |-> [ws[i] EXCEPT !.cancelled = TRUE]]
    BY <1>1 DEF Cancelled
<1>5. Cancelled(ws) \in [1 .. Len(ws) -> Waits]
    BY <1>3, <1>4
<1>6. Cancelled(ws) \in Seq(Waits) /\ Len(Cancelled(ws)) = Len(ws)
    BY <1>1, <1>5
<1>7. \A i \in 1 .. Len(ws) : Cancelled(ws)[i] = [ws[i] EXCEPT !.cancelled = TRUE]
    BY <1>4
<1> QED
    BY <1>2, <1>6, <1>7 DEF Waits

\* Re-arming the timer replaces the wait.
LEMMA RearmTheWait ==
    ASSUME TypeOK, NEW delay, NEW handler \in Handlers, Rearm(delay, handler)
    PROVE  /\ expiry' = delay
           /\ waits' \in Seq(Waits)
           /\ Len(waits') = 1
           /\ Head(waits') = waits'[1]
           /\ waits'[1] = AsyncWait(handler)
<1>1. waits \in Seq(Waits) /\ Len(waits) = 1
    BY DEF TypeOK
<1>2. Tail(waits) \in Seq(Waits) /\ Len(Tail(waits)) = 0
    BY <1>1, HeadTailProperties, EmptySeq
<1>3. Cancelled(Tail(waits)) \in Seq(Waits) /\ Len(Cancelled(Tail(waits))) = 0
    BY <1>2, CancelWaits
<1>4. AsyncWait(handler) \in Waits
    BY DEF AsyncWait, Waits
<1>5. /\ waits' \in Seq(Waits)
      /\ Len(waits') = 1
      /\ waits'[1] = AsyncWait(handler)
    BY <1>3, <1>4, AppendProperties DEF Rearm
<1> QED
    BY <1>5 DEF Rearm

------------------------------------------------------------------------------
\* The initial states satisfy the invariant.
LEMMA InitInv == Init => IInv
<1> SUFFICES ASSUME Init PROVE IInv
    OBVIOUS
<1> USE SequenceAssumption DEF Init
<1>1. AsyncWait("handleTimeout") \in Waits
    BY DEF AsyncWait, Waits, Handlers
<1>2. /\ waits \in Seq(Waits) /\ Len(waits) = 1
      /\ Head(waits) = waits[1]
      /\ waits[1].handler = "handleTimeout"
      /\ ~waits[1].cancelled
    BY <1>1 DEF AsyncWait
<1>3. TypeOK
    BY <1>2 DEF TypeOK, Replies, ReplyTo, MaxErrors, ReplyTimeout, RequestInterval
<1>4. TimerInv /\ SilenceInv
    BY <1>2 DEF TimerInv, SilenceInv, ErrorsAreSilence, MaxErrors, ReplyTimeout
<1>5. NetworkInv
    BY DEF NetworkInv, ReplyTo
<1> QED
    BY <1>3, <1>4, <1>5 DEF IInv

\* A second that passes makes no wait less due.
LEMMA TickStep == ASSUME IInv, Tick PROVE IInv'
<1> USE DEF IInv, Tick, counters, timer
<1>1. TypeOK'
    BY DEF TypeOK, ReplyTimeout
<1>2. TimerInv'
    BY DEF TimerInv, TypeOK, ReplyTimeout, RequestInterval
<1>3. NetworkInv' /\ SilenceInv'
    BY DEF NetworkInv, SilenceInv, ErrorsAreSilence
<1> QED
    BY <1>1, <1>2, <1>3

\* A lost reply is one the invariant says less about.
LEMMA LoseStep == ASSUME IInv, NEW r \in network, Lose(r) PROVE IInv'
<1> USE DEF IInv, Lose, counters, timer
<1>1. TypeOK' /\ NetworkInv'
    BY DEF TypeOK, NetworkInv
<1>2. TimerInv' /\ SilenceInv'
    BY DEF TimerInv, SilenceInv, ErrorsAreSilence
<1> QED
    BY <1>1, <1>2

\* A request starts a new wait, and every reply under way is one request older.
LEMMA StartSendStep ==
    ASSUME IInv, NEW answered \in BOOLEAN, StartSend(answered)
    PROVE  IInv'
<1>1. /\ TypeOK /\ TimerInv /\ NetworkInv /\ SilenceInv
      /\ Rearm(ReplyTimeout, "handleTimeout")
      /\ "handleTimeout" \in Handlers
      /\ mSequenceNumber' = (mSequenceNumber + 1) % SequenceNumbers
      /\ mNumReplies' = 0 /\ mNumErrors' = mNumErrors
      /\ elapsed' = 0
      /\ network' = Aged(answered)
      /\ silent' = IF silent > MaxErrors THEN silent ELSE silent + 1
    BY DEF IInv, StartSend, Handlers
<1>2. /\ expiry' = ReplyTimeout
      /\ waits' \in Seq(Waits) /\ Len(waits') = 1
      /\ Head(waits') = waits'[1]
      /\ waits'[1].handler = "handleTimeout"
      /\ ~waits'[1].cancelled
  <2>1. /\ expiry' = ReplyTimeout
        /\ waits' \in Seq(Waits) /\ Len(waits') = 1
        /\ Head(waits') = waits'[1]
        /\ waits'[1] = AsyncWait("handleTimeout")
    BY <1>1, RearmTheWait
  <2> QED
    BY <2>1 DEF AsyncWait
<1>3. /\ process = "running" /\ process' = "running"
      /\ Head(waits).handler = "startSend"
    BY DEF StartSend, Completes
<1>4. /\ mSequenceNumber \in 0 .. SequenceNumbers - 1
      /\ mSequenceNumber' \in 0 .. SequenceNumbers - 1
      /\ \/ mSequenceNumber' = mSequenceNumber + 1
         \/ mSequenceNumber + 1 = SequenceNumbers /\ mSequenceNumber' = 0
    BY <1>1, NextSequenceNumber, SequenceAssumption DEF TypeOK
<1>5. ASSUME NEW r \in network'
      PROVE  /\ r \in Replies
             /\ \/ r.sequence + r.age = mSequenceNumber'
                \/ r.sequence + r.age = mSequenceNumber' + SequenceNumbers
  <2>1. CASE r = ReplyTo(mSequenceNumber')
    BY <2>1, <1>4, NewReply
  <2>2. ASSUME NEW q \in network, q.age < Lifetime, r = [q EXCEPT !.age = @ + 1]
        PROVE  /\ r \in Replies
               /\ \/ r.sequence + r.age = mSequenceNumber'
                  \/ r.sequence + r.age = mSequenceNumber' + SequenceNumbers
    <3>1. q \in Replies
      BY <1>1 DEF TypeOK
    <3>2. /\ q.sequence \in 0 .. SequenceNumbers - 1
          /\ q.age \in 0 .. Lifetime
      BY <3>1 DEF Replies
    <3>3. r.sequence = q.sequence /\ r.age = q.age + 1 /\ r \in Replies
      BY <2>2, <3>1, <3>2, SequenceAssumption DEF Replies
    <3>4. \/ q.sequence + q.age = mSequenceNumber
          \/ q.sequence + q.age = mSequenceNumber + SequenceNumbers
      BY <1>1, <1>3 DEF NetworkInv
    <3> QED
      BY <1>4, <2>2, <3>2, <3>3, <3>4, SequenceAssumption
  <2> QED
    BY <1>1, <2>1, <2>2 DEF Aged
<1>6. NetworkInv' /\ network' \subseteq Replies
    BY <1>5 DEF NetworkInv
<1>7. silent \in 0 .. MaxErrors /\ mNumErrors = silent
    BY <1>1, <1>3 DEF SilenceInv, ErrorsAreSilence, TypeOK
<1>8. silent' = silent + 1 /\ mNumErrors' = silent
    BY <1>1, <1>7 DEF MaxErrors
<1>9. TypeOK'
    BY <1>1, <1>2, <1>3, <1>4, <1>6, <1>7, <1>8 DEF TypeOK, MaxErrors, ReplyTimeout
<1>10. TimerInv'
    BY <1>1, <1>2 DEF TimerInv
<1>11. SilenceInv'
    BY <1>1, <1>2, <1>3, <1>7, <1>8 DEF SilenceInv, ErrorsAreSilence, MaxErrors
<1> QED
    BY <1>6, <1>9, <1>10, <1>11 DEF IInv

\* The exception ends the program.
LEMMA SendFailsStep == ASSUME IInv, SendFails PROVE IInv'
<1> USE DEF IInv, SendFails, timer
<1>1. mSequenceNumber \in 0 .. SequenceNumbers - 1
    BY DEF TypeOK
<1>2. TypeOK'
    BY <1>1, NextSequenceNumber, SequenceAssumption DEF TypeOK, ReplyTimeout
<1>3. TimerInv' /\ NetworkInv' /\ SilenceInv'
    BY DEF TimerInv, NetworkInv, SilenceInv, ErrorsAreSilence
<1> QED
    BY <1>2, <1>3

\* A timeout leads to the wait for the next request.
LEMMA HandleTimeoutStep == ASSUME IInv, HandleTimeout PROVE IInv'
<1>1. /\ TypeOK /\ TimerInv /\ NetworkInv /\ SilenceInv
      /\ Rearm(RequestInterval, "startSend")
      /\ "startSend" \in Handlers
      /\ Completes("handleTimeout")
      /\ \/ mNumReplies > 0 /\ mNumErrors' = mNumErrors
         \/ mNumReplies = 0 /\ mNumErrors' = mNumErrors + 1 /\ mNumErrors' < MaxErrors
      /\ UNCHANGED <<process, mSequenceNumber, mNumReplies, elapsed, network, silent>>
    BY DEF IInv, HandleTimeout, Handlers
<1>2. /\ expiry' = RequestInterval
      /\ waits' \in Seq(Waits) /\ Len(waits') = 1
      /\ Head(waits') = waits'[1]
      /\ waits'[1].handler = "startSend"
      /\ ~waits'[1].cancelled
  <2>1. /\ expiry' = RequestInterval
        /\ waits' \in Seq(Waits) /\ Len(waits') = 1
        /\ Head(waits') = waits'[1]
        /\ waits'[1] = AsyncWait("startSend")
    BY <1>1, RearmTheWait
  <2> QED
    BY <2>1 DEF AsyncWait
<1>3. /\ process = "running"
      /\ waits[1].handler = "handleTimeout"
      /\ Head(waits) = waits[1]
      /\ waits[1].cancelled \/ elapsed >= expiry
    BY <1>1, OneWait DEF Completes
<1>4. mNumReplies \in Nat /\ silent \in 0 .. MaxErrors /\ mNumErrors \in 0 .. MaxErrors - 1
    BY <1>1, <1>3 DEF TypeOK, SilenceInv, MaxErrors
<1>5. mNumErrors' = silent /\ mNumErrors' < MaxErrors
    BY <1>1, <1>3, <1>4 DEF SilenceInv, ErrorsAreSilence, MaxErrors
<1>6. mNumReplies = 0 => elapsed >= ReplyTimeout
    BY <1>1, <1>3 DEF TimerInv
<1>7. TypeOK'
    BY <1>1, <1>2, <1>4, <1>5 DEF TypeOK, MaxErrors
<1>8. TimerInv'
    BY <1>1, <1>2, <1>6, <1>7 DEF TimerInv, TypeOK, ReplyTimeout, RequestInterval
<1>9. NetworkInv' /\ SilenceInv'
    BY <1>1, <1>2, <1>4, <1>5 DEF NetworkInv, SilenceInv, ErrorsAreSilence, MaxErrors
<1> QED
    BY <1>7, <1>8, <1>9 DEF IInv

\* The last straw.
LEMMA GiveUpStep == ASSUME IInv, GiveUp PROVE IInv'
<1>1. /\ TypeOK /\ SilenceInv
      /\ Completes("handleTimeout")
      /\ mNumReplies = 0
      /\ mNumErrors' = mNumErrors + 1 /\ mNumErrors' >= MaxErrors
      /\ process' = "disconnected"
      /\ UNCHANGED <<mSequenceNumber, mNumReplies, timer, elapsed, network, silent>>
    BY DEF IInv, GiveUp
<1>2. process = "running" /\ Head(waits).handler = "handleTimeout"
    BY <1>1 DEF Completes
<1>3. silent \in 1 .. MaxErrors /\ mNumErrors = silent - 1 /\ silent = MaxErrors
    BY <1>1, <1>2 DEF TypeOK, SilenceInv, ErrorsAreSilence, MaxErrors
<1>4. TypeOK'
    BY <1>1, <1>3 DEF TypeOK, timer, MaxErrors
<1>5. TimerInv' /\ NetworkInv' /\ SilenceInv'
    BY <1>1, <1>3 DEF TimerInv, NetworkInv, SilenceInv, ErrorsAreSilence, timer, MaxErrors
<1> QED
    BY <1>4, <1>5 DEF IInv

\* A reply counts exactly when it is one to the latest request.
LEMMA HandleReceiveStep ==
    ASSUME IInv, NEW r \in network, NEW again \in BOOLEAN, HandleReceive(r, again)
    PROVE  IInv'
<1>1. /\ TypeOK /\ TimerInv /\ NetworkInv /\ SilenceInv
      /\ process = "running"
      /\ network' = IF again THEN network ELSE network \ {r}
      /\ silent' = IF r.age = 0 THEN 0 ELSE silent
      /\ UNCHANGED <<process, mSequenceNumber, expiry, elapsed>>
    BY DEF IInv, HandleReceive
<1>2. Matches(r) <=> r.age = 0
    BY <1>1, OnlyTheLatestMatches
<1>3. network' \subseteq network
    BY <1>1
<1>4. NetworkInv'
    BY <1>1, <1>3 DEF NetworkInv
<1>5. CASE ~Matches(r)
  <2>1. UNCHANGED <<waits, mNumReplies, mNumErrors, silent>>
    BY <1>1, <1>2, <1>5 DEF HandleReceive
  <2>2. TypeOK' /\ TimerInv' /\ SilenceInv'
    BY <1>1, <1>3, <2>1 DEF TypeOK, TimerInv, SilenceInv, ErrorsAreSilence
  <2> QED
    BY <1>4, <2>2 DEF IInv
<1>6. CASE Matches(r)
  <2>1. /\ FirstReplyCancels
        /\ mNumReplies' = mNumReplies + 1
        /\ mNumErrors' = 0
        /\ silent' = 0
    BY <1>1, <1>2, <1>6 DEF HandleReceive
  <2>2. waits \in Seq(Waits) /\ Len(waits) = 1 /\ mNumReplies \in Nat
    BY <1>1 DEF TypeOK
  <2>3. /\ waits' \in Seq(Waits) /\ Len(waits') = 1
        /\ waits'[1].handler = waits[1].handler
        /\ mNumReplies = 0 => waits'[1].cancelled
        /\ mNumReplies # 0 => waits' = waits
    <3>1. CASE mNumReplies = 0
      BY <2>1, <2>2, <3>1, CancelWaits DEF FirstReplyCancels
    <3>2. CASE mNumReplies # 0
      BY <2>1, <2>2, <3>2 DEF FirstReplyCancels
    <3> QED
      BY <3>1, <3>2
  <2>4. TypeOK'
    BY <1>1, <1>3, <2>1, <2>2, <2>3 DEF TypeOK, MaxErrors
  <2>5. TimerInv'
    BY <1>1, <2>1, <2>2, <2>3 DEF TimerInv
  <2>6. SilenceInv'
    BY <1>1, <2>1, <2>2, <2>3 DEF SilenceInv, ErrorsAreSilence, MaxErrors
  <2> QED
    BY <1>4, <2>4, <2>5, <2>6 DEF IInv
<1> QED
    BY <1>5, <1>6

\* Every step keeps the invariant.
LEMMA StepInv == IInv /\ [Next]_vars => IInv'
<1> SUFFICES ASSUME IInv, [Next]_vars PROVE IInv'
    OBVIOUS
<1>1. CASE UNCHANGED vars
    BY <1>1 DEF vars, counters, timer, IInv, TypeOK, TimerInv, NetworkInv, SilenceInv,
           ErrorsAreSilence
<1> QED
    BY <1>1, TickStep, LoseStep, StartSendStep, SendFailsStep, HandleTimeoutStep,
       GiveUpStep, HandleReceiveStep
       DEF Next, TimerHandler, Network

\* Every reachable state satisfies the invariant.
THEOREM Invariance == Spec => []IInv
BY InitInv, StepInv, PTL DEF Spec

\* Each handler leaves exactly one wait on the timer.
THEOREM TypeCorrect == Spec => []TypeOK
<1>1. IInv => TypeOK
    BY DEF IInv
<1> QED
    BY <1>1, Invariance, PTL

\* The error count is the number of requests in a row lost, whatever replies come
\* late, twice, or a turn of the sequence numbers ago.
THEOREM ErrorsAreLosses == Spec => []ErrorsAreSilence
<1>1. IInv => ErrorsAreSilence
    BY DEF IInv, SilenceInv
<1> QED
    BY <1>1, Invariance, PTL

\* Two requests are never sent less than a second apart.
THEOREM Spaced == Spec => RequestsAreSpaced
<1>1. IInv /\ [Next]_vars
        => [mSequenceNumber' # mSequenceNumber => elapsed >= RequestInterval]_vars
  <2> SUFFICES ASSUME IInv, Next, mSequenceNumber' # mSequenceNumber
               PROVE  elapsed >= RequestInterval
    OBVIOUS
  <2>1. Completes("startSend")
    BY DEF Next, Tick, TimerHandler, HandleTimeout, GiveUp, SendFails, StartSend,
           Network, Lose, HandleReceive, counters
  <2>2. /\ process = "running"
        /\ waits[1].handler = "startSend"
        /\ waits[1].cancelled \/ elapsed >= expiry
    BY <2>1, OneWait DEF IInv, Completes
  <2> QED
    BY <2>2 DEF IInv, TimerInv
<1> QED
    BY <1>1, Invariance, PTL DEF Spec, RequestsAreSpaced

------------------------------------------------------------------------------
\* The most steps, of the clock and of the timer's handlers, that are left until
\* the program ends if no reply comes to the latest request or to one after it.
\* A lost request takes seven: five seconds, the timeout and the next request.
Patience ==
    IF process # "running" THEN 0
    ELSE 7 * (MaxErrors - 1 - mNumErrors) + (ReplyTimeout - elapsed)
         + (IF Head(waits).handler = "startSend" THEN 7
            ELSE IF mNumReplies > 0 THEN 8 ELSE 1)

PatienceIsShort == Patience \in 0 .. 41 /\ (Patience = 0 <=> process # "running")

\* Each of those steps uses up some of it, and neither a loss nor a reply to an
\* earlier request, whatever its sequence number, gives any back.
SilenceWearsOut ==
    [][/\ Tick \/ TimerHandler => Patience' < Patience
       /\ \A r \in network, again \in BOOLEAN :
             Lose(r) \/ (r.age > 0 /\ HandleReceive(r, again)) => Patience' = Patience
      ]_vars

\* What Patience is computed from.
LEMMA PatienceFacts ==
    ASSUME IInv
    PROVE  /\ mNumErrors \in 0 .. MaxErrors /\ elapsed \in 0 .. ReplyTimeout
           /\ mNumReplies \in Nat
           /\ waits # <<>> /\ Head(waits) = waits[1]
           /\ waits[1].handler \in {"handleTimeout", "startSend"}
           /\ process = "running" => mNumErrors < MaxErrors
           /\ process = "running" /\ mNumReplies > 0 => mNumErrors = 0
<1>1. waits # <<>> /\ Head(waits) = waits[1] /\ waits[1] \in Waits
    BY OneWait DEF IInv
<1>2. process = "running" /\ mNumReplies > 0 => mNumErrors = 0
    BY DEF IInv, SilenceInv, ErrorsAreSilence
<1> QED
    BY <1>1, <1>2 DEF IInv, TypeOK, SilenceInv, Waits, Handlers

LEMMA PatienceRange == IInv => PatienceIsShort
<1> SUFFICES ASSUME IInv PROVE PatienceIsShort
    OBVIOUS
<1>1. CASE process # "running"
    BY <1>1 DEF Patience, PatienceIsShort
<1>2. CASE process = "running"
  <2>1. PICK e \in 0 .. 4, s \in 0 .. 5 : e = mNumErrors /\ s = elapsed
    BY <1>2, PatienceFacts DEF MaxErrors, ReplyTimeout
  <2>2. PICK n \in {1, 7, 8} :
            /\ Patience = 7 * (4 - e) + (5 - s) + n
            /\ n = 8 => e = 0
    BY <1>2, <2>1, PatienceFacts DEF Patience, MaxErrors, ReplyTimeout
  <2>3. 7 * (4 - e) + (5 - s) + n \in 1 .. 41
    BY <2>1, <2>2
  <2> QED
    BY <1>2, <2>2, <2>3 DEF PatienceIsShort
<1> QED
    BY <1>1, <1>2

LEMMA TickWears == IInv /\ Tick => Patience' < Patience
<1> SUFFICES ASSUME IInv, Tick PROVE Patience' < Patience
    OBVIOUS
<1>1. /\ process = "running" /\ elapsed' = elapsed + 1
      /\ UNCHANGED <<process, mNumErrors, mNumReplies, waits>>
    BY DEF Tick, counters, timer
<1>2. PICK rest \in Nat :
          /\ Patience = rest + (ReplyTimeout - elapsed)
          /\ Patience' = rest + (ReplyTimeout - (elapsed + 1))
  <2>1. PICK n \in {1, 7, 8}, k \in Nat :
            /\ k = 7 * (MaxErrors - 1 - mNumErrors)
            /\ Patience = k + (ReplyTimeout - elapsed) + n
            /\ Patience' = k + (ReplyTimeout - (elapsed + 1)) + n
    BY <1>1, PatienceFacts DEF Patience, MaxErrors
  <2>2. elapsed \in Nat /\ ReplyTimeout \in Nat /\ k + n \in Nat
    BY PatienceFacts DEF ReplyTimeout
  <2> QED
    BY <2>1, <2>2
<1>3. elapsed \in Nat /\ ReplyTimeout \in Nat
    BY PatienceFacts DEF ReplyTimeout
<1> QED
    BY <1>2, <1>3

LEMMA StartSendWears ==
    ASSUME IInv, NEW answered \in BOOLEAN, StartSend(answered)
    PROVE  Patience' < Patience
<1>1. /\ process = "running" /\ process' = "running"
      /\ Head(waits).handler = "startSend"
      /\ mNumErrors' = mNumErrors /\ mNumReplies' = 0 /\ elapsed' = 0
      /\ Rearm(ReplyTimeout, "handleTimeout")
    BY DEF StartSend, Completes
<1>2. Head(waits').handler = "handleTimeout"
    BY <1>1, RearmTheWait DEF IInv, Handlers, AsyncWait
<1> QED
    BY <1>1, <1>2, PatienceFacts DEF Patience, MaxErrors, ReplyTimeout

LEMMA HandleTimeoutWears == IInv /\ HandleTimeout => Patience' < Patience
<1> SUFFICES ASSUME IInv, HandleTimeout PROVE Patience' < Patience
    OBVIOUS
<1>1. /\ process = "running" /\ Head(waits).handler = "handleTimeout"
      /\ Head(waits).cancelled \/ elapsed >= expiry
      /\ \/ mNumReplies > 0 /\ mNumErrors' = mNumErrors
         \/ mNumReplies = 0 /\ mNumErrors' = mNumErrors + 1
      /\ UNCHANGED <<process, mNumReplies, elapsed>>
      /\ Rearm(RequestInterval, "startSend")
    BY DEF HandleTimeout, Completes
<1>2. Head(waits').handler = "startSend"
    BY <1>1, RearmTheWait DEF IInv, Handlers, AsyncWait
<1>3. mNumReplies = 0 => elapsed >= ReplyTimeout
    BY <1>1, PatienceFacts DEF IInv, TimerInv
<1>4. CASE mNumReplies > 0
    BY <1>1, <1>2, <1>4, PatienceFacts DEF Patience, MaxErrors, ReplyTimeout
<1>5. CASE mNumReplies = 0
    BY <1>1, <1>2, <1>3, <1>5, PatienceFacts DEF Patience, MaxErrors, ReplyTimeout
<1> QED
    BY <1>4, <1>5, PatienceFacts

LEMMA EndWears == IInv /\ (GiveUp \/ SendFails) => Patience' < Patience
<1> SUFFICES ASSUME IInv, GiveUp \/ SendFails PROVE Patience' < Patience
    OBVIOUS
<1>1. process = "running" /\ process' # "running"
    BY DEF GiveUp, SendFails, Completes
<1>2. Patience \in 0 .. 41 /\ Patience # 0
    BY <1>1, PatienceRange DEF PatienceIsShort
<1> QED
    BY <1>1, <1>2 DEF Patience

LEMMA StraysChangeNothing ==
    ASSUME IInv, NEW r \in network, NEW again \in BOOLEAN,
           Lose(r) \/ (r.age > 0 /\ HandleReceive(r, again))
    PROVE  Patience' = Patience
<1>1. CASE Lose(r)
    BY <1>1 DEF Lose, Patience, counters, timer
<1>2. CASE r.age > 0 /\ HandleReceive(r, again)
  <2>1. ~Matches(r)
    BY <1>2, OnlyTheLatestMatches DEF IInv, HandleReceive, TypeOK, Replies
  <2> QED
    BY <1>2, <2>1 DEF HandleReceive, Patience
<1> QED
    BY <1>1, <1>2

\* The program's patience with a silent network is bounded.
THEOREM PatienceIsBounded == Spec => []PatienceIsShort
    BY Invariance, PatienceRange, PTL

\* Every step of the clock and of the timer uses some of it up, and stray replies
\* give none back.  With a clock and a timer that go on this is why SilenceIsNoticed
\* holds, however many sequence numbers there are.
THEOREM SilenceEndsIt == Spec => SilenceWearsOut
<1> DEFINE Step ==
       /\ Tick \/ TimerHandler => Patience' < Patience
       /\ \A r \in network, again \in BOOLEAN :
             Lose(r) \/ (r.age > 0 /\ HandleReceive(r, again)) => Patience' = Patience
<1>1. IInv /\ [Next]_vars => [Step]_vars
  <2>1. IInv /\ TimerHandler => Patience' < Patience
    BY StartSendWears, HandleTimeoutWears, EndWears DEF TimerHandler
  <2> QED
    BY <2>1, TickWears, StraysChangeNothing
<1> QED
    BY <1>1, Invariance, PTL DEF Spec, SilenceWearsOut
==============================================================================

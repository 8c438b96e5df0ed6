-------------------------------- MODULE Pinger --------------------------------
(***************************************************************************)
(* The Pinger of src/ConnectionMonitor/main.cpp: it sends an echo request, *)
(* waits five seconds for a reply, and ends the program once five requests *)
(* in a row have gone without one.                                         *)
(*                                                                         *)
(* One timer serves two handlers.  Cancelling the timer, or giving it a new*)
(* expiry, completes the waits under way; their handlers ignore the error  *)
(* they are given and run all the same.  One thread runs all handlers, in  *)
(* an order left open between the timer and the socket.  Packets that are  *)
(* not echo replies to this process change nothing and are left out.       *)
(***************************************************************************)
EXTENDS Naturals, Sequences

CONSTANTS
    SequenceNumbers,   \* 2^16: mSequenceNumber is an unsigned short
    Lifetime,          \* bound on the requests sent while a reply is under way
    MaxReplies         \* bound on the replies handled between two requests

ASSUME SequenceAssumption ==
    /\ SequenceNumbers \in Nat \ {0, 1}
    /\ Lifetime \in Nat
    /\ Lifetime < SequenceNumbers
    /\ MaxReplies \in Nat

ReplyTimeout == 5      \* seconds to wait for a reply
RequestInterval == 1   \* seconds between two requests
MaxErrors == 5         \* requests without reply that end the program

VARIABLES
    process,           \* running, ended by exit(1), or by send_to()'s exception
    mSequenceNumber, mNumReplies, mNumErrors,
    expiry,            \* mTimer's, in seconds from mTimeSent
    waits,             \* the waits on mTimer, the oldest first
    elapsed,           \* seconds since mTimeSent, counted up to ReplyTimeout
    network,           \* the replies under way, with the requests sent since
    silent             \* history: the latest requests, in a row, to which no
                       \* reply was handled before the next one was sent

counters == <<mSequenceNumber, mNumReplies, mNumErrors>>
timer == <<expiry, waits>>
vars == <<process, counters, timer, elapsed, network, silent>>

Handlers == {"handleTimeout", "startSend"}
Waits == [handler : Handlers, cancelled : BOOLEAN]
Replies == [sequence : 0 .. SequenceNumbers - 1, age : 0 .. Lifetime]

AsyncWait(handler) == [handler |-> handler, cancelled |-> FALSE]
ReplyTo(sequence) == [sequence |-> sequence, age |-> 0]

\* mTimer.cancel(), which expires_at() calls as well.
Cancelled(ws) == [i \in DOMAIN ws |-> [ws[i] EXCEPT !.cancelled = TRUE]]

\* The request that the constructor's startSend() has sent is answered or not.
Init ==
    /\ process = "running"
    /\ mSequenceNumber = 1
    /\ mNumReplies = 0
    /\ mNumErrors = 0
    /\ expiry = ReplyTimeout
    /\ waits = <<AsyncWait("handleTimeout")>>
    /\ elapsed = 0
    /\ network \in {{}, {ReplyTo(1)}}
    /\ silent = 1

------------------------------------------------------------------------------
\* A second passes.
Tick ==
    /\ process = "running"
    /\ elapsed < ReplyTimeout
    /\ elapsed' = elapsed + 1
    /\ UNCHANGED <<process, counters, timer, network, silent>>

\* A reply is lost.
Lose(r) ==
    /\ process = "running"
    /\ r \in network
    /\ network' = network \ {r}
    /\ UNCHANGED <<process, counters, timer, elapsed, silent>>

\* The oldest wait is over, and its handler is this one.
Completes(handler) ==
    /\ process = "running"
    /\ waits # <<>>
    /\ Head(waits).handler = handler
    /\ Head(waits).cancelled \/ elapsed >= expiry

\* expires_at() and async_wait(), with the completed wait out of the way.
Rearm(delay, handler) ==
    /\ expiry' = delay
    /\ waits' = Append(Cancelled(Tail(waits)), AsyncWait(handler))

\* The replies under way once a new request is sent: each is one request older,
\* and the new one may have its own.
Aged(answered) ==
    {[r EXCEPT !.age = @ + 1] : r \in {q \in network : q.age < Lifetime}}
      \cup IF answered THEN {ReplyTo(mSequenceNumber')} ELSE {}

\* Mutant: mNumReplies is not reset.
StartSendKeepingReplies(answered) ==
    /\ Completes("startSend")
    /\ mSequenceNumber' = (mSequenceNumber + 1) % SequenceNumbers
    /\ elapsed' = 0
    /\ Rearm(ReplyTimeout, "handleTimeout")
    /\ network' = Aged(answered)
    /\ silent' = IF silent > MaxErrors THEN silent ELSE silent + 1
    /\ UNCHANGED <<process, mNumReplies, mNumErrors>>

\* startSend().
StartSend(answered) ==
    /\ Completes("startSend")
    /\ mSequenceNumber' = (mSequenceNumber + 1) % SequenceNumbers
    /\ mNumReplies' = 0
    /\ elapsed' = 0
    /\ Rearm(ReplyTimeout, "handleTimeout")
    /\ network' = Aged(answered)
    /\ silent' = IF silent > MaxErrors THEN silent ELSE silent + 1
    /\ UNCHANGED <<process, mNumErrors>>

\* startSend() when send_to() throws: main() catches it and calls exit(2).
SendFails ==
    /\ Completes("startSend")
    /\ process' = "failed"
    /\ mSequenceNumber' = (mSequenceNumber + 1) % SequenceNumbers
    /\ elapsed' = 0
    /\ UNCHANGED <<mNumReplies, mNumErrors, timer, network, silent>>

\* handleTimeout(): the request is answered, or lost and not the last straw.
HandleTimeout ==
    /\ Completes("handleTimeout")
    /\ \/ mNumReplies > 0 /\ mNumErrors' = mNumErrors
       \/ mNumReplies = 0 /\ mNumErrors' = mNumErrors + 1 /\ mNumErrors' < MaxErrors
    /\ Rearm(RequestInterval, "startSend")
    /\ UNCHANGED <<process, mSequenceNumber, mNumReplies, elapsed, network, silent>>

\* handleTimeout(): exit(1).
GiveUp ==
    /\ Completes("handleTimeout")
    /\ mNumReplies = 0
    /\ mNumErrors' = mNumErrors + 1
    /\ mNumErrors' >= MaxErrors
    /\ process' = "disconnected"
    /\ UNCHANGED <<mSequenceNumber, mNumReplies, timer, elapsed, network, silent>>

\* Mutant: every reply cancels, not only the first.
EveryReplyCancels == waits' = Cancelled(waits)

\* Mutant: the handler starts the wait for the next request itself.
FirstReplyRearms ==
    waits' = IF mNumReplies = 0
             THEN Append(Cancelled(waits), AsyncWait("startSend")) ELSE waits

\* The first reply cuts the wait for it short.
FirstReplyCancels == waits' = IF mNumReplies = 0 THEN Cancelled(waits) ELSE waits

\* Mutant: any reply to this process will do.
MatchesAny(r) == r \in network

\* The reply is taken for one to the latest request.
Matches(r) == r.sequence = mSequenceNumber

\* handleReceive(), for a reply that may come again.
HandleReceive(r, again) ==
    /\ process = "running"
    /\ r \in network
    /\ network' = IF again THEN network ELSE network \ {r}
    /\ \/ /\ Matches(r)
          /\ mNumReplies < MaxReplies
          /\ FirstReplyCancels
          /\ mNumReplies' = mNumReplies + 1
          /\ mNumErrors' = 0
       \/ /\ ~Matches(r)
          /\ UNCHANGED <<waits, mNumReplies, mNumErrors>>
    /\ silent' = IF r.age = 0 THEN 0 ELSE silent
    /\ UNCHANGED <<process, mSequenceNumber, expiry, elapsed>>

------------------------------------------------------------------------------
TimerHandler ==
    HandleTimeout \/ GiveUp \/ SendFails \/ \E answered \in BOOLEAN : StartSend(answered)

Network == \E r \in network : \/ Lose(r)
                              \/ \E again \in BOOLEAN : HandleReceive(r, again)

Next == Tick \/ TimerHandler \/ Network

\* Time passes and expired timers are served.  Nothing has to arrive.
Spec == Init /\ [][Next]_vars /\ WF_vars(Tick) /\ WF_vars(TimerHandler)

------------------------------------------------------------------------------
\* Properties.

\* Types; and each handler leaves exactly one wait behind, although handlers of
\* cancelled waits run like any other: there is one chain of requests, not two.
TypeOK ==
    /\ process \in {"running", "disconnected", "failed"}
    /\ mSequenceNumber \in 0 .. SequenceNumbers - 1
    /\ mNumReplies \in Nat
    /\ mNumErrors \in 0 .. MaxErrors
    /\ expiry \in {RequestInterval, ReplyTimeout}
    /\ waits \in Seq(Waits) /\ Len(waits) = 1
    /\ elapsed \in 0 .. ReplyTimeout
    /\ network \subseteq Replies
    /\ silent \in 0 .. MaxErrors + 1

\* mNumErrors is the number of the latest requests in a row that have run into
\* their timeout without a reply to them: replies that come late, twice or to a
\* sequence number used before neither hide a loss nor count as one, and the
\* program gives the connection up only after MaxErrors losses in a row.
ErrorsAreSilence ==
    /\ process = "running" =>
          mNumErrors = IF Head(waits).handler = "handleTimeout" /\ silent > 0
                       THEN silent - 1 ELSE silent
    /\ process = "disconnected" => silent = MaxErrors

\* "Requests must be sent no less than one second apart" (main.cpp:64), although
\* a reply cancels whatever the timer is waiting for, the next request included.
RequestsAreSpaced ==
    [][mSequenceNumber' # mSequenceNumber => elapsed >= RequestInterval]_vars

\* If from some time on no request is answered before the next one is sent, the
\* program ends, whatever stray replies still come in.
SilenceIsNoticed ==
    <>[](\A r \in network : r.age > 0) => <>(process # "running")
==============================================================================

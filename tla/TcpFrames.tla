------------------------------ MODULE TcpFrames ------------------------------
(***************************************************************************)
(* How TcpConnection.h reads a client's frames: async_read() with a        *)
(* completion condition of its own, and handleFragment(), which takes from *)
(* the streambuf what its state needs.  A byte is its place in the client's*)
(* stream: what a header says is known at the place where a header stands, *)
(* and may be anything elsewhere.                                          *)
(***************************************************************************)
EXTENDS Naturals, Sequences, SequencesExt

CONSTANTS
    Lengths,           \* of the payloads
    Extended1,         \* 126: lengths from here on take 2 bytes more
    Extended2,         \* 65536: and from here on 8
    BufferSize,        \* of mPayloadBuffer, 16 * 1024
    Width,             \* 2^64, the values of a size_t
    MaxFrames          \* bound on the frames of the client

\* The lengths read at most fill the buffer again and again, so that the counter
\* below, which only wraps once, is not zero by chance.
ASSUME SizesAssumption ==
    /\ Lengths \subseteq 0 .. Width - 1
    /\ {Extended1, Extended2, MaxFrames} \subseteq Nat
    /\ BufferSize \in Nat \ 0 .. 7
    /\ Width \in Nat /\ BufferSize * BufferSize < Width

VARIABLES
    frames,                  \* those the client has sent
    received, consumed,      \* bytes put into mPayloadBuffer, and taken out
    at,                      \* async_read() under way, its handler, the end, or lost
    mReceiveState, mOpcode, mPayloadLength,
    mCurrentMessageSize,     \* what the completion condition has left
    total,                   \* asio's count of the bytes this read has transferred
    mInboundMessage,         \* the frames whose payloads it holds, 0 for another
    handed,                  \* history: the messages mPayloadHandler was called with
    pieces                   \* history: a read has come in pieces

socket == <<frames, received>>
parser == <<mReceiveState, mOpcode, mPayloadLength>>
read == <<mCurrentMessageSize, total>>
message == <<mInboundMessage, handed>>
vars == <<socket, consumed, at, parser, read, message, pieces>>

Lesser(m, n) == IF m <= n THEN m ELSE n

\* opcode "more" is 0, "text" 1 or 2, "other" any that ends the connection.
Opcodes == [opcode : {"more", "text", "other"}, fin : BOOLEAN]

LengthBytes(length) ==
    IF length < Extended1 THEN 0 ELSE IF length < Extended2 THEN 2 ELSE 8

\* Where the frame's payload begins, and where the frame ends.
Payload(f) == f.start + 2 + LengthBytes(f.length) + 4
End(f) == Payload(f) + f.length

SentBytes == IF frames = <<>> THEN 0 ELSE End(Last(frames))
Buffered == received - consumed

Init ==
    /\ frames = <<>>
    /\ received = 0 /\ consumed = 0
    /\ at = "reading"
    /\ mReceiveState = "START"
    /\ mOpcode = [opcode |-> "more", fin |-> FALSE]
    /\ mPayloadLength = 0
    /\ mCurrentMessageSize = 1 /\ total = 0
    /\ mInboundMessage = <<>>
    /\ handed = <<>>
    /\ pieces = FALSE

------------------------------------------------------------------------------
\* The client: a message is one text frame or more, of which the last says fin.
ClientSends(kind, length) ==
    /\ Len(frames) < MaxFrames
    /\ kind.opcode = "more" <=> frames # <<>> /\ ~Last(frames).kind.fin
    /\ kind.opcode = "other" => kind.fin
    /\ frames' = Append(frames, [start |-> SentBytes, kind |-> kind, length |-> length])
    /\ UNCHANGED <<received, consumed, at, parser, read, message, pieces>>

\* The end of the stream, or an error: the handler does not read on.
Breaks ==
    /\ at = "reading"
    /\ at' = "ended"
    /\ UNCHANGED <<socket, consumed, parser, read, message, pieces>>

------------------------------------------------------------------------------
\* async_read(): what arrives of what the condition and the buffer have room for,
\* and none when they have no room.

Room == Lesser(mCurrentMessageSize, BufferSize - Buffered)

\* Mutant: a read of no bytes waits for one.
ReadSomeAwaiting(bytes) ==
    /\ at = "reading"
    /\ bytes \in 1 .. Lesser(Room, SentBytes - received)
    /\ UNCHANGED <<frames, consumed, parser, message>>
    /\ received' = received + bytes
    /\ total' = total + bytes
    /\ mCurrentMessageSize' = (Width + mCurrentMessageSize - total') % Width
    /\ at' = IF Room' = 0 THEN "handling" ELSE "reading"
    /\ pieces' = (pieces \/ at' = "reading")

\* The condition subtracts not these bytes but all so far, again for each piece.
ReadSome(bytes) ==
    /\ at = "reading"
    /\ bytes <= Lesser(Room, SentBytes - received)
    /\ bytes = 0 <=> Room = 0
    /\ UNCHANGED <<frames, consumed, parser, message>>
    /\ received' = received + bytes
    /\ total' = total + bytes
    /\ mCurrentMessageSize' = (Width + mCurrentMessageSize - total') % Width
    /\ at' = IF bytes = 0 \/ Room' = 0 THEN "handling" ELSE "reading"
    /\ pieces' = (pieces \/ at' = "reading")

ListenForPayload(iNumberOfBytes) ==
    /\ mCurrentMessageSize' = iNumberOfBytes
    /\ total' = 0
    /\ at' = "reading"

------------------------------------------------------------------------------
\* handleFragment().

\* The bytes its get() calls take in a state.
Takes ==
    CASE mReceiveState \in {"START", "LENGTH"} -> 1
      [] mReceiveState = "LENGTH_X1" -> 2
      [] mReceiveState = "LENGTH_X2" -> 8
      [] mReceiveState = "MASKING_KEY" -> 4
      [] mReceiveState = "PAYLOAD" -> mPayloadLength

Handles(state) ==
    /\ at = "handling"
    /\ mReceiveState = state
    /\ Buffered >= Takes
    /\ consumed' = consumed + Takes
    /\ UNCHANGED <<socket, pieces>>

\* get() at the end of the buffer gives what is no byte, and what is missing is
\* taken for the next header when it comes.  From here on anything may be handed on.
Lost ==
    /\ at = "handling"
    /\ Buffered < Takes
    /\ at' = "lost"
    /\ UNCHANGED <<socket, consumed, parser, read, message, pieces>>

\* What a header field says: the frame's own if it stands here, or anything.
ReadAs(offset, anything, field) ==
    LET here == {f \in ToSet(frames) : f.start + offset = consumed}
    IN  IF here # {} THEN {f[field] : f \in here} ELSE anything

Start ==
    /\ Handles("START")
    /\ mOpcode' \in ReadAs(0, Opcodes, "kind")
    /\ \/ mOpcode'.opcode # "other" /\ mReceiveState' = "LENGTH" /\ ListenForPayload(1)
       \/ mOpcode'.opcode = "other" /\ at' = "ended" /\ UNCHANGED <<read, mReceiveState>>
    /\ UNCHANGED <<mPayloadLength, message>>

\* The mask bit is set, and the length says itself or how many bytes say it.
Length ==
    /\ Handles("LENGTH")
    /\ \E length \in ReadAs(1, Lengths, "length") :
          CASE LengthBytes(length) = 0 ->
                  /\ mPayloadLength' = length
                  /\ mReceiveState' = "MASKING_KEY"
                  /\ ListenForPayload(4)
            [] LengthBytes(length) = 2 ->
                  /\ mReceiveState' = "LENGTH_X1"
                  /\ ListenForPayload(2)
                  /\ UNCHANGED mPayloadLength
            [] OTHER ->
                  /\ mReceiveState' = "LENGTH_X2"
                  /\ ListenForPayload(8)
                  /\ UNCHANGED mPayloadLength
    /\ UNCHANGED <<mOpcode, message>>

LengthX(state) ==
    /\ Handles(state)
    /\ mPayloadLength' \in ReadAs(2, Lengths, "length")
    /\ mReceiveState' = "MASKING_KEY"
    /\ ListenForPayload(4)
    /\ UNCHANGED <<mOpcode, message>>

MaskingKey ==
    /\ Handles("MASKING_KEY")
    /\ mReceiveState' = "PAYLOAD"
    /\ ListenForPayload(mPayloadLength)
    /\ UNCHANGED <<mOpcode, mPayloadLength, message>>

\* The frame whose payload is at the front of the buffer.
FrameRead ==
    LET here == {i \in DOMAIN frames : /\ Payload(frames[i]) = consumed
                                       /\ frames[i].kind = mOpcode
                                       /\ frames[i].length = mPayloadLength}
    IN  IF here = {} THEN 0 ELSE CHOOSE i \in here : TRUE

\* Mutant: each frame replaces what was read before it.
PayloadReplaces ==
    /\ Handles("PAYLOAD")
    /\ mReceiveState' = "START"
    /\ mInboundMessage' = <<FrameRead>>
    /\ handed' = IF mOpcode.fin THEN Append(handed, mInboundMessage') ELSE handed
    /\ ListenForPayload(1)
    /\ UNCHANGED <<mOpcode, mPayloadLength>>

PayloadComplete ==
    /\ Handles("PAYLOAD")
    /\ mReceiveState' = "START"
    /\ mInboundMessage' =
          Append(IF mOpcode.opcode = "more" THEN mInboundMessage ELSE <<>>, FrameRead)
    /\ handed' = IF mOpcode.fin THEN Append(handed, mInboundMessage') ELSE handed
    /\ ListenForPayload(1)
    /\ UNCHANGED <<mOpcode, mPayloadLength>>

------------------------------------------------------------------------------
HandleFragment ==
    \/ Start \/ Length \/ MaskingKey \/ PayloadComplete
    \/ LengthX("LENGTH_X1") \/ LengthX("LENGTH_X2") \/ Lost

Reads == (\E bytes \in 0 .. BufferSize : ReadSome(bytes)) \/ HandleFragment

Next ==
    \/ Reads \/ Breaks
    \/ \E kind \in Opcodes, length \in Lengths : ClientSends(kind, length)

\* What has been sent arrives, and the io_service runs on.
Spec == Init /\ [][Next]_vars /\ WF_vars(Reads)

------------------------------------------------------------------------------
\* Properties.

\* The last frame of the mth message that was handed on.
HandedTo(m) == IF m = 0 THEN 0 ELSE Last(handed[m])

\* The client's frames from first to last are one message, and all of it.
IsMessage(first, last) ==
    /\ frames[first].kind.opcode = "text"
    /\ \A i \in first + 1 .. last : frames[i].kind.opcode = "more"
    /\ \A i \in first .. last : frames[i].kind.fin <=> i = last

\* The handler gets the client's messages, in order, whole and once, however many
\* bytes too many a read has left in the buffer; that ends only when a read in
\* several pieces stops too soon, or a payload is longer than the buffer.
HandedAsSent ==
    /\ \A m \in DOMAIN handed :
          LET before == HandedTo(m - 1)
              last == HandedTo(m)
          IN  /\ last \in before + 1 .. Len(frames)
              /\ IsMessage(before + 1, last)
              /\ handed[m] = [k \in 1 .. last - before |-> before + k]
    /\ at = "lost" => pieces \/ \E f \in ToSet(frames) : f.length > BufferSize

\* Every message that the client has finished is handed on.
AllHanded ==
    \A i \in DOMAIN frames :
        frames[i].kind.fin /\ frames[i].kind.opcode # "other" => i <= HandedTo(Len(handed))

\* As long as reads come in one piece, every message sent is handed on, whatever
\* the sizes: nothing waits for bytes that are not to come.
WholeReadsGoThrough ==
    [](~pieces /\ at # "lost") => []<>(at = "ended" \/ AllHanded)
==============================================================================

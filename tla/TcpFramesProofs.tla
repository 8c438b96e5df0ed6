--------------------------- MODULE TcpFramesProofs ---------------------------
(***************************************************************************)
(* The safety of TcpFrames for payloads, buffers and words of any size and *)
(* any number of frames.                                                   *)
(***************************************************************************)
EXTENDS TcpFrames, TLAPS

Frames == [start : Nat, kind : Opcodes, length : Lengths]

States == {"START", "LENGTH", "LENGTH_X1", "LENGTH_X2", "MASKING_KEY", "PAYLOAD"}

\* Types; nothing is taken out that has not been put in, nor put in that has not
\* been sent.
TypeInv ==
    /\ frames \in Seq(Frames)
    /\ {received, consumed, mCurrentMessageSize, total} \subseteq Nat
    /\ consumed <= received
    /\ received <= SentBytes
    /\ at \in {"reading", "handling", "ended", "lost"}
    /\ mReceiveState \in States
    /\ mOpcode \in Opcodes
    /\ mPayloadLength \in 0 .. Width - 1
    /\ mInboundMessage \in Seq(Nat)
    /\ handed \in Seq(Seq(Nat))
    /\ pieces \in BOOLEAN

\* The frames follow each other, and are parts of messages as the protocol has it.
FramesInv ==
    /\ \A i \in 1 .. Len(frames) :
          /\ frames[i].start = IF i = 1 THEN 0 ELSE End(frames[i - 1])
          /\ frames[i].kind.opcode = "more" <=> i > 1 /\ ~frames[i - 1].kind.fin
          /\ frames[i].kind.opcode = "other" => frames[i].kind.fin
    /\ \A i, j \in 1 .. Len(frames) : i < j => End(frames[i]) <= frames[j].start

\* The first part of HandedAsSent, which stays as it is however the connection ends.
HandedInv ==
    \A m \in 1 .. Len(handed) :
        /\ HandedTo(m) \in 1 .. Len(frames)
        /\ HandedTo(m - 1) < HandedTo(m)
        /\ IsMessage(HandedTo(m - 1) + 1, HandedTo(m))
        /\ handed[m] = [k \in 1 .. HandedTo(m) - HandedTo(m - 1) |-> HandedTo(m - 1) + k]

Handed == HandedTo(Len(handed))

\* The parser has read i frames and stands in the next one where its state says.
Parsed(i) ==
    IF mReceiveState = "START"
    THEN consumed = IF i = 0 THEN 0 ELSE End(frames[i])
    ELSE /\ i + 1 \in 1 .. Len(frames)
         /\ mOpcode = frames[i + 1].kind
         /\ mOpcode.opcode # "other"
         /\ mReceiveState = "LENGTH" => consumed = frames[i + 1].start + 1
         /\ mReceiveState \in {"LENGTH_X1", "LENGTH_X2"} => consumed = frames[i + 1].start + 2
         /\ mReceiveState = "LENGTH_X1" => LengthBytes(frames[i + 1].length) = 2
         /\ mReceiveState = "LENGTH_X2" => LengthBytes(frames[i + 1].length) = 8
         /\ mReceiveState \in {"MASKING_KEY", "PAYLOAD"} => mPayloadLength = frames[i + 1].length
         /\ mReceiveState = "MASKING_KEY" => consumed + 4 = Payload(frames[i + 1])
         /\ mReceiveState = "PAYLOAD" => consumed = Payload(frames[i + 1])

\* Those of the i frames that are not handed on are collected.
Collected(i) ==
    /\ Handed <= i
    /\ \A j \in 1 .. i : frames[j].kind.opcode # "other"
    /\ \A j \in Handed + 1 .. i : ~frames[j].kind.fin
    /\ Handed < i => mInboundMessage = [k \in 1 .. i - Handed |-> Handed + k]

ParserInv ==
    at \in {"reading", "handling"} =>
        \E i \in 0 .. Len(frames) : Parsed(i) /\ Collected(i)

\* A read in one piece brings what the parser takes next, as far as it fits.
ReadInv ==
    ~pieces =>
        /\ at = "reading" => Buffered = 0 /\ total = 0 /\ mCurrentMessageSize = Takes
        /\ at = "handling" => Buffered = Lesser(Takes, BufferSize)

LostInv == at = "lost" => pieces \/ \E f \in ToSet(frames) : f.length > BufferSize

IInv == TypeInv /\ FramesInv /\ HandedInv /\ ParserInv /\ ReadInv /\ LostInv

------------------------------------------------------------------------------
\* The sizes are numbers, and a frame has a header and may have a payload.
LEMMA Sizes ==
    /\ Lengths \subseteq Nat
    /\ Extended1 \in Nat /\ Extended2 \in Nat
    /\ BufferSize \in Nat /\ BufferSize >= 8
    /\ Width \in Nat /\ Width > BufferSize
    /\ \A length \in Lengths : length < Width
<1>1. /\ BufferSize \in Nat /\ BufferSize >= 8 /\ Width \in Nat
      /\ BufferSize * BufferSize < Width
    BY SizesAssumption
<1>2. BufferSize * BufferSize >= BufferSize
    BY <1>1
<1>3. Width > BufferSize
    BY <1>1, <1>2
<1> QED
    BY <1>1, <1>3, SizesAssumption

LEMMA FrameSizes ==
    ASSUME NEW f \in Frames
    PROVE  /\ f.start \in Nat /\ f.length \in Nat /\ f.length \in Lengths
           /\ f.kind \in Opcodes
           /\ LengthBytes(f.length) \in {0, 2, 8}
           /\ Payload(f) = f.start + 2 + LengthBytes(f.length) + 4
           /\ Payload(f) \in Nat /\ End(f) \in Nat
           /\ f.start + 6 <= Payload(f) /\ End(f) = Payload(f) + f.length
<1>1. f.start \in Nat /\ f.kind \in Opcodes /\ f.length \in Lengths
    BY DEF Frames
<1>2. f.length \in Nat
    BY <1>1, Sizes
<1>3. LengthBytes(f.length) \in {0, 2, 8}
    BY DEF LengthBytes
<1>4. Payload(f) = f.start + 2 + LengthBytes(f.length) + 4
    BY DEF Payload
<1>5. End(f) = Payload(f) + f.length
    BY DEF End
<1>6. Payload(f) \in Nat /\ f.start + 6 <= Payload(f)
    BY <1>1, <1>3, <1>4
<1> QED
    BY <1>1, <1>2, <1>3, <1>4, <1>5, <1>6

LEMMA FramesAreSent ==
    ASSUME TypeInv
    PROVE  /\ Len(frames) \in Nat
           /\ \A i \in 1 .. Len(frames) : frames[i] \in Frames
           /\ DOMAIN frames = 1 .. Len(frames)
           /\ SentBytes = IF Len(frames) = 0 THEN 0 ELSE End(frames[Len(frames)])
           /\ SentBytes \in Nat
           /\ ToSet(frames) = {frames[i] : i \in 1 .. Len(frames)}
<1>1. frames \in Seq(Frames)
    BY DEF TypeInv
<1>2. /\ Len(frames) \in Nat /\ DOMAIN frames = 1 .. Len(frames)
      /\ \A i \in 1 .. Len(frames) : frames[i] \in Frames
    BY <1>1
<1>3. frames = <<>> <=> Len(frames) = 0
    BY <1>1
<1>4. SentBytes = IF Len(frames) = 0 THEN 0 ELSE End(frames[Len(frames)])
    BY <1>3 DEF SentBytes, Last
<1>5. SentBytes \in Nat
  <2>1. CASE Len(frames) = 0
    BY <1>4, <2>1
  <2>2. CASE Len(frames) # 0
    <3>1. frames[Len(frames)] \in Frames
      BY <1>2, <2>2
    <3> QED
      BY <1>4, <2>2, <3>1, FrameSizes
  <2> QED
    BY <2>1, <2>2
<1> QED
    BY <1>2, <1>4, <1>5 DEF ToSet

LEMMA FramePlace ==
    ASSUME TypeInv, NEW i \in 1 .. Len(frames)
    PROVE  /\ frames[i].start \in Nat /\ frames[i].length \in Nat
           /\ LengthBytes(frames[i].length) \in {0, 2, 8}
           /\ Payload(frames[i]) \in Nat /\ End(frames[i]) \in Nat
           /\ Payload(frames[i]) = frames[i].start + 2 + LengthBytes(frames[i].length) + 4
           /\ frames[i].start + 6 <= Payload(frames[i])
           /\ End(frames[i]) = Payload(frames[i]) + frames[i].length
<1>1. frames[i] \in Frames
    BY FramesAreSent
<1> QED
    BY <1>1, FrameSizes

\* Nothing ends after what has been sent.
LEMMA FrameEnds ==
    ASSUME TypeInv, FramesInv, NEW i \in 1 .. Len(frames)
    PROVE  End(frames[i]) <= SentBytes
<1> DEFINE n == Len(frames)
<1>1. n \in 1 .. n /\ n \in Nat /\ SentBytes = End(frames[n])
    BY FramesAreSent
<1>2. CASE i = n
    BY <1>1, <1>2, FramePlace
<1>3. CASE i # n
  <2>1. i < n
    BY <1>1, <1>3
  <2>2. End(frames[i]) <= frames[n].start
    BY <1>1, <2>1 DEF FramesInv
  <2>3. /\ frames[n].start \in Nat /\ frames[n].length \in Nat /\ End(frames[i]) \in Nat
        /\ Payload(frames[n]) \in Nat /\ frames[n].start + 6 <= Payload(frames[n])
        /\ End(frames[n]) = Payload(frames[n]) + frames[n].length
    BY <1>1, FramePlace
  <2> QED
    BY <1>1, <2>2, <2>3
<1> QED
    BY <1>2, <1>3

\* No two frames begin at the same place, nor do their payloads.
LEMMA FramesApart ==
    ASSUME TypeInv, FramesInv, NEW i \in 1 .. Len(frames), NEW j \in 1 .. Len(frames),
           \/ frames[i].start = frames[j].start
           \/ Payload(frames[i]) = Payload(frames[j])
    PROVE  i = j
<1>1. \A k \in 1 .. Len(frames) :
          /\ frames[k].start \in Nat /\ Payload(frames[k]) \in Nat /\ End(frames[k]) \in Nat
          /\ frames[k].start < Payload(frames[k]) /\ Payload(frames[k]) <= End(frames[k])
  <2> TAKE k \in 1 .. Len(frames)
  <2>1. /\ frames[k].start \in Nat /\ frames[k].length \in Nat
        /\ Payload(frames[k]) \in Nat /\ End(frames[k]) \in Nat
        /\ frames[k].start + 6 <= Payload(frames[k])
        /\ End(frames[k]) = Payload(frames[k]) + frames[k].length
    BY FramePlace
  <2> QED
    BY <2>1
<1>2. \A k, l \in 1 .. Len(frames) : k < l => End(frames[k]) <= frames[l].start
    BY DEF FramesInv
<1>3. Len(frames) \in Nat
    BY FramesAreSent
<1> QED
    BY <1>1, <1>2, <1>3

\* A header field is the frame's own where the frame stands.
LEMMA HeaderRead ==
    ASSUME TypeInv, FramesInv, NEW i \in 1 .. Len(frames), NEW offset \in Nat,
           consumed = frames[i].start + offset, NEW anything, NEW field
    PROVE  ReadAs(offset, anything, field) = {frames[i][field]}
<1> DEFINE here == {f \in ToSet(frames) : f.start + offset = consumed}
<1>1. frames[i] \in here
    BY FramesAreSent
<1>2. \A f \in here : f = frames[i]
  <2> TAKE f \in here
  <2>1. PICK j \in 1 .. Len(frames) : f = frames[j]
    BY FramesAreSent
  <2>2. frames[j].start + offset = frames[i].start + offset
    BY <2>1
  <2>3. frames[j].start \in Nat /\ frames[i].start \in Nat
    BY FramesAreSent DEF Frames
  <2>4. frames[j].start = frames[i].start
    BY <2>2, <2>3
  <2> QED
    BY <2>1, <2>4, FramesApart
<1>3. here = {frames[i]}
    BY <1>1, <1>2
<1> HIDE DEF here
<1>4. ReadAs(offset, anything, field) =
          IF here # {} THEN {f[field] : f \in here} ELSE anything
    BY DEF ReadAs, here
<1> QED
    BY <1>3, <1>4

LEMMA PayloadRead ==
    ASSUME TypeInv, FramesInv, NEW i \in 1 .. Len(frames),
           Payload(frames[i]) = consumed,
           frames[i].kind = mOpcode, frames[i].length = mPayloadLength
    PROVE  FrameRead = i
<1> DEFINE here == {j \in DOMAIN frames : /\ Payload(frames[j]) = consumed
                                          /\ frames[j].kind = mOpcode
                                          /\ frames[j].length = mPayloadLength}
<1>1. i \in here
    BY FramesAreSent
<1>2. \A j \in here : j = i
    BY FramesAreSent, FramesApart
<1>3. here = {i}
    BY <1>1, <1>2
<1> HIDE DEF here
<1>4. FrameRead = IF here = {} THEN 0 ELSE CHOOSE j \in here : TRUE
    BY DEF FrameRead, here
<1> QED
    BY <1>3, <1>4

\* After i frames, a byte that has come is the first of another.
LEMMA NextFrame ==
    ASSUME TypeInv, FramesInv, NEW i \in 0 .. Len(frames),
           consumed = IF i = 0 THEN 0 ELSE End(frames[i]), Buffered >= 1
    PROVE  i + 1 \in 1 .. Len(frames) /\ frames[i + 1].start = consumed
<1>1. consumed < received /\ received <= SentBytes /\ {consumed, received} \subseteq Nat
    BY DEF TypeInv, Buffered
<1>2. i # Len(frames)
  <2>1. SentBytes = IF Len(frames) = 0 THEN 0 ELSE End(frames[Len(frames)])
    BY FramesAreSent
  <2> SUFFICES ASSUME i = Len(frames) PROVE FALSE
    OBVIOUS
  <2>2. consumed = SentBytes
    BY <2>1
  <2> QED
    BY <1>1, <2>2, FramesAreSent
<1>3. i + 1 \in 1 .. Len(frames)
  <2>1. Len(frames) \in Nat
    BY FramesAreSent
  <2> QED
    BY <1>2, <2>1
<1> QED
    BY <1>3 DEF FramesInv

\* What the parser takes next, and that no header takes more than the buffer holds.
LEMMA TakesSome ==
    ASSUME TypeInv
    PROVE  /\ Takes \in Nat /\ Takes < Width
           /\ mReceiveState # "PAYLOAD" => Takes <= BufferSize
           /\ mReceiveState = "PAYLOAD" => Takes = mPayloadLength
<1>1. mReceiveState \in States /\ mPayloadLength \in 0 .. Width - 1
    BY DEF TypeInv
<1>2. CASE mReceiveState = "PAYLOAD"
    BY <1>1, <1>2, Sizes DEF Takes
<1>3. CASE mReceiveState # "PAYLOAD"
  <2>1. Takes \in Nat /\ Takes <= 8
    BY <1>1, <1>3 DEF States, Takes
  <2> QED
    BY <1>3, <2>1, Sizes
<1> QED
    BY <1>2, <1>3

\* The last frame handed on is one of the client's, and the last of a message.
LEMMA HandedFacts ==
    ASSUME TypeInv, HandedInv
    PROVE  /\ Len(handed) \in Nat /\ Len(frames) \in Nat
           /\ \A m \in 0 .. Len(handed) : HandedTo(m) \in 0 .. Len(frames)
           /\ Handed \in 0 .. Len(frames)
           /\ Handed > 0 => frames[Handed].kind.fin
<1>1. Len(handed) \in Nat /\ Len(frames) \in Nat
    BY DEF TypeInv
<1>2. \A m \in 0 .. Len(handed) : HandedTo(m) \in 0 .. Len(frames)
  <2> TAKE m \in 0 .. Len(handed)
  <2>1. CASE m = 0
    BY <1>1, <2>1 DEF HandedTo
  <2>2. CASE m # 0
    <3>1. m \in 1 .. Len(handed)
      BY <1>1, <2>2
    <3>2. HandedTo(m) \in 1 .. Len(frames)
      BY <3>1 DEF HandedInv
    <3> QED
      BY <1>1, <3>2
  <2> QED
    BY <2>1, <2>2
<1>3. Handed \in 0 .. Len(frames)
    BY <1>1, <1>2 DEF Handed
<1>4. ASSUME Handed > 0
      PROVE  frames[Handed].kind.fin
  <2>1. Len(handed) \in 1 .. Len(handed)
    BY <1>1, <1>4 DEF Handed, HandedTo
  <2>2. IsMessage(HandedTo(Len(handed) - 1) + 1, Handed) /\ HandedTo(Len(handed) - 1) < Handed
    BY <2>1 DEF HandedInv, Handed
  <2>3. HandedTo(Len(handed) - 1) \in Nat
    BY <1>1, <1>2, <2>1
  <2>4. Handed \in HandedTo(Len(handed) - 1) + 1 .. Handed
    BY <1>1, <1>3, <2>2, <2>3
  <2> QED
    BY <2>2, <2>4 DEF IsMessage
<1> QED
    BY <1>1, <1>2, <1>3, <1>4

\* The steps of the reading side leave what has been sent as it is.
LEMMA FramesKept ==
    ASSUME TypeInv, FramesInv, frames' = frames
    PROVE  FramesInv' /\ SentBytes' = SentBytes
<1>1. FramesInv'
    BY DEF FramesInv, End, Payload, LengthBytes
<1>2. SentBytes' = SentBytes
    BY DEF SentBytes, End, Payload, LengthBytes, Last
<1> QED
    BY <1>1, <1>2

LEMMA HandedKept ==
    ASSUME TypeInv, HandedInv, frames' = frames, handed' = handed
    PROVE  HandedInv' /\ Handed' = Handed
BY DEF HandedInv, HandedTo, IsMessage, Handed, Last

\* A read brings bytes and changes nothing that the parser has done.
LEMMA ReadSomeKeeps ==
    ASSUME IInv, NEW bytes \in 0 .. BufferSize, ReadSome(bytes)
    PROVE  IInv'
<1>1. /\ TypeInv /\ FramesInv /\ HandedInv /\ ParserInv /\ ReadInv
      /\ at = "reading" /\ frames' = frames /\ handed' = handed /\ consumed' = consumed
      /\ mInboundMessage' = mInboundMessage /\ at' \in {"reading", "handling"}
      /\ mReceiveState' = mReceiveState /\ mOpcode' = mOpcode
      /\ mPayloadLength' = mPayloadLength
    BY DEF IInv, ReadSome, parser, message
<1>2. FramesInv' /\ HandedInv' /\ SentBytes' = SentBytes /\ Handed' = Handed
    BY <1>1, FramesKept, HandedKept
<1>3. TypeInv'
  <2>1. {received, consumed, total, mCurrentMessageSize, SentBytes} \subseteq Nat
    BY <1>1, FramesAreSent DEF TypeInv
  <2>2. bytes <= SentBytes - received
    BY <2>1, Sizes DEF ReadSome, Lesser, Room, Buffered
  <2>3. received' \in Nat /\ total' \in Nat /\ consumed' <= received' /\ received' <= SentBytes'
    <3>1. received' = received + bytes /\ total' = total + bytes /\ bytes \in Nat
      BY Sizes DEF ReadSome
    <3>2. consumed <= received
      BY <1>1 DEF TypeInv
    <3> QED
      BY <1>1, <1>2, <2>1, <2>2, <3>1, <3>2
  <2>4. Width + mCurrentMessageSize - total' \in Int /\ Width \in Nat /\ Width > 0
    BY <2>1, <2>3, Sizes
  <2>5. mCurrentMessageSize' \in Nat
    BY <2>4 DEF ReadSome
  <2>6. pieces' \in BOOLEAN
    BY <1>1 DEF ReadSome, TypeInv
  <2> QED
    BY <1>1, <2>1, <2>3, <2>5, <2>6 DEF TypeInv
<1>4. ParserInv'
  <2>1. PICK i \in 0 .. Len(frames) : Parsed(i) /\ Collected(i)
    BY <1>1 DEF ParserInv
  <2>2. Parsed(i)'
    BY <1>1, <2>1 DEF Parsed, End, Payload, LengthBytes
  <2>3. Collected(i)'
    BY <1>1, <1>2, <2>1 DEF Collected
  <2> QED
    BY <1>1, <2>2, <2>3 DEF ParserInv
<1>5. ReadInv'
  <2> SUFFICES ASSUME ~pieces'
               PROVE  at' = "handling" /\ Buffered' = Lesser(Takes, BufferSize)
    BY <1>1 DEF ReadInv, Takes, Lesser
  <2>1. ~pieces /\ at' = "handling"
    BY <1>1 DEF ReadSome
  <2>2. Buffered = 0 /\ total = 0 /\ mCurrentMessageSize = Takes
    BY <1>1, <2>1 DEF ReadInv
  <2>3. /\ Takes \in Nat /\ Takes < Width /\ bytes \in Nat
        /\ BufferSize \in Nat /\ Width \in Nat
    BY <1>1, TakesSome, Sizes
  <2>4. Room = Lesser(Takes, BufferSize)
    BY <2>2, <2>3 DEF Room
  <2>5. bytes <= Takes /\ bytes <= BufferSize /\ (bytes = 0 <=> Lesser(Takes, BufferSize) = 0)
    <3>1. bytes <= Lesser(Room, SentBytes - received) /\ (bytes = 0 <=> Room = 0)
      BY <1>1 DEF ReadSome
    <3>2. SentBytes - received \in Int /\ Room \in Nat
      BY <1>1, <2>3, <2>4, FramesAreSent DEF TypeInv, Lesser
    <3>3. bytes <= Room
      BY <2>3, <3>1, <3>2 DEF Lesser
    <3>4. bytes <= Takes /\ bytes <= BufferSize
      BY <2>3, <2>4, <3>3 DEF Lesser
    <3> QED
      BY <2>4, <3>1, <3>4
  <2>6. Buffered' = bytes
    BY <1>1, <2>2, <2>3 DEF ReadSome, Buffered, TypeInv
  <2>7. CASE bytes = 0
    BY <2>1, <2>5, <2>6, <2>7
  <2>8. CASE bytes # 0
    <3>1. Room' = 0
      BY <2>1, <2>8 DEF ReadSome
    <3>2. mCurrentMessageSize' = (Width + (Takes - bytes)) % Width
      BY <2>2, <2>3 DEF ReadSome
    <3>3. Takes - bytes \in 0 .. Width - 1
      BY <2>3, <2>5
    <3>4. mCurrentMessageSize' = Takes - bytes
      BY <2>3, <3>2, <3>3
    <3>5. Lesser(Takes - bytes, BufferSize - bytes) = 0
      BY <3>1, <3>4, <2>6 DEF Room, Lesser
    <3> QED
      BY <2>1, <2>3, <2>5, <2>6, <3>5 DEF Lesser
  <2> QED
    BY <2>7, <2>8
<1>6. LostInv'
    BY <1>1 DEF LostInv
<1> QED
    BY <1>2, <1>3, <1>4, <1>5, <1>6 DEF IInv

\* A state of the parser that has the bytes it takes leaves no other in the buffer
\* when reads come in one piece.
LEMMA HandlingFacts ==
    ASSUME IInv, NEW state, Handles(state)
    PROVE  /\ TypeInv /\ FramesInv /\ HandedInv /\ ParserInv /\ ReadInv
           /\ at = "handling" /\ mReceiveState = state
           /\ frames' = frames /\ received' = received /\ pieces' = pieces
           /\ FramesInv' /\ SentBytes' = SentBytes
           /\ {consumed, received, consumed'} \subseteq Nat
           /\ Takes \in Nat /\ Buffered >= Takes
           /\ consumed' = consumed + Takes
           /\ consumed' <= received' /\ received' <= SentBytes'
           /\ ~pieces' => Buffered' = 0
<1>1. /\ TypeInv /\ FramesInv /\ HandedInv /\ ParserInv /\ ReadInv
      /\ at = "handling" /\ mReceiveState = state
      /\ frames' = frames /\ received' = received /\ pieces' = pieces
      /\ Buffered >= Takes /\ consumed' = consumed + Takes
    BY DEF IInv, Handles, socket
<1>2. FramesInv' /\ SentBytes' = SentBytes
    BY <1>1, FramesKept
<1>3. Takes \in Nat /\ BufferSize \in Nat
    BY <1>1, TakesSome, Sizes
<1>4. {consumed, received} \subseteq Nat /\ received <= SentBytes
    BY <1>1 DEF TypeInv
<1>5. consumed + Takes \in Nat /\ consumed + Takes <= received
    BY <1>1, <1>3, <1>4 DEF Buffered
<1>6. ASSUME ~pieces'
      PROVE  Buffered' = 0
  <2>1. Buffered = Lesser(Takes, BufferSize)
    BY <1>1, <1>6 DEF ReadInv
  <2>2. Buffered = Takes
    BY <1>1, <1>3, <2>1 DEF Lesser
  <2> QED
    BY <1>1, <1>3, <1>4, <2>2 DEF Buffered
<1> QED
    BY <1>1, <1>2, <1>3, <1>4, <1>5, <1>6

\* What the parser asks for next is what the next state takes.
LEMMA Listening ==
    ASSUME IInv, NEW state, Handles(state), NEW bytes, ListenForPayload(bytes),
           Takes' = bytes
    PROVE  at' = "reading" /\ total' = 0 /\ mCurrentMessageSize' = bytes /\ ReadInv' /\ LostInv'
<1>1. at' = "reading" /\ total' = 0 /\ mCurrentMessageSize' = bytes
    BY DEF ListenForPayload
<1>2. ~pieces' => Buffered' = 0
    BY HandlingFacts
<1>3. ReadInv'
    BY <1>1, <1>2 DEF ReadInv
<1>4. LostInv'
    BY <1>1 DEF LostInv
<1> QED
    BY <1>1, <1>3, <1>4

LEMMA StartKeeps ==
    ASSUME IInv, Start
    PROVE  IInv'
<1>1. Handles("START") /\ mPayloadLength' = mPayloadLength
      /\ mInboundMessage' = mInboundMessage /\ handed' = handed
    BY DEF Start, message
<1>2. /\ TypeInv /\ FramesInv /\ HandedInv /\ ParserInv /\ ReadInv
      /\ at = "handling" /\ mReceiveState = "START"
      /\ frames' = frames /\ pieces' = pieces /\ FramesInv' /\ SentBytes' = SentBytes
      /\ {consumed, received, consumed', received'} \subseteq Nat
      /\ consumed' = consumed + Takes /\ Buffered >= Takes
      /\ consumed' <= received' /\ received' <= SentBytes'
    BY <1>1, HandlingFacts
<1>3. HandedInv' /\ Handed' = Handed
    BY <1>1, <1>2, HandedKept
<1>4. Takes = 1
    BY <1>2 DEF Takes
<1>5. PICK i \in 0 .. Len(frames) : Parsed(i) /\ Collected(i)
    BY <1>2 DEF ParserInv
<1>6. i + 1 \in 1 .. Len(frames) /\ frames[i + 1].start = consumed
  <2>1. consumed = IF i = 0 THEN 0 ELSE End(frames[i])
    BY <1>2, <1>5 DEF Parsed
  <2> QED
    BY <1>2, <1>4, <2>1, NextFrame
<1>7. frames[i + 1] \in Frames /\ frames[i + 1].start \in Nat
    BY <1>2, <1>6, FramesAreSent
<1>8. ReadAs(0, Opcodes, "kind") = {frames[i + 1]["kind"]}
    BY <1>2, <1>6, <1>7, HeaderRead
<1>9. mOpcode' = frames[i + 1].kind /\ mOpcode' \in Opcodes
    BY <1>7, <1>8 DEF Start, Frames
<1>10. CASE mOpcode'.opcode # "other" /\ mReceiveState' = "LENGTH" /\ ListenForPayload(1)
  <2>1. Takes' = 1
    BY <1>10 DEF Takes
  <2>2. at' = "reading" /\ total' = 0 /\ mCurrentMessageSize' = 1 /\ ReadInv' /\ LostInv'
    BY <1>1, <1>10, <2>1, Listening
  <2>3. TypeInv'
    BY <1>1, <1>2, <1>9, <1>10, <2>2 DEF TypeInv, States
  <2>4. Parsed(i)'
    BY <1>2, <1>4, <1>6, <1>9, <1>10 DEF Parsed
  <2>5. Collected(i)'
    BY <1>1, <1>2, <1>3, <1>5 DEF Collected
  <2>6. ParserInv'
    BY <1>2, <2>4, <2>5 DEF ParserInv
  <2> QED
    BY <1>2, <1>3, <2>2, <2>3, <2>6 DEF IInv
<1>11. CASE at' = "ended" /\ UNCHANGED <<read, mReceiveState>>
  <2>1. TypeInv'
    BY <1>1, <1>2, <1>9, <1>11 DEF TypeInv, read
  <2>2. ParserInv' /\ ReadInv' /\ LostInv'
    BY <1>11 DEF ParserInv, ReadInv, LostInv
  <2> QED
    BY <1>2, <1>3, <2>1, <2>2 DEF IInv
<1> QED
    BY <1>10, <1>11 DEF Start

\* The frame whose header or payload the parser is in.
LEMMA HeaderFacts ==
    ASSUME IInv, NEW state, Handles(state), state # "START"
    PROVE  \E i \in 0 .. Len(frames) :
               /\ Parsed(i) /\ Collected(i)
               /\ i + 1 \in 1 .. Len(frames)
               /\ frames[i + 1] \in Frames
               /\ frames[i + 1].start \in Nat
               /\ frames[i + 1].length \in Lengths
               /\ frames[i + 1].length \in 0 .. Width - 1
               /\ mOpcode = frames[i + 1].kind /\ mOpcode.opcode # "other"
<1>1. TypeInv /\ ParserInv /\ at = "handling" /\ mReceiveState = state
    BY HandlingFacts
<1>2. PICK i \in 0 .. Len(frames) : Parsed(i) /\ Collected(i)
    BY <1>1 DEF ParserInv
<1>3. i + 1 \in 1 .. Len(frames) /\ mOpcode = frames[i + 1].kind /\ mOpcode.opcode # "other"
    BY <1>1, <1>2 DEF Parsed
<1>4. frames[i + 1] \in Frames
    BY <1>1, <1>3, FramesAreSent
<1>5. /\ frames[i + 1].start \in Nat
      /\ frames[i + 1].length \in Lengths
      /\ frames[i + 1].length \in 0 .. Width - 1
    BY <1>4, Sizes, SizesAssumption DEF Frames
<1> QED
    BY <1>2, <1>3, <1>4, <1>5

\* A step from one part of a header to the next, or to the payload.
LEMMA HeaderStepKeeps ==
    ASSUME IInv, NEW state, Handles(state), state # "START",
           NEW i \in 0 .. Len(frames), Collected(i), Parsed(i)',
           NEW bytes, ListenForPayload(bytes), Takes' = bytes, bytes \in Nat,
           mReceiveState' \in States, mPayloadLength' \in 0 .. Width - 1,
           mOpcode' = mOpcode, message' = message
    PROVE  IInv'
<1>1. /\ TypeInv /\ FramesInv /\ HandedInv
      /\ frames' = frames /\ pieces' = pieces /\ FramesInv'
      /\ {consumed, received, consumed', received'} \subseteq Nat
      /\ consumed' <= received' /\ received' <= SentBytes'
    BY HandlingFacts
<1>2. mInboundMessage' = mInboundMessage /\ handed' = handed
    BY DEF message
<1>3. HandedInv' /\ Handed' = Handed
    BY <1>1, <1>2, HandedKept
<1>4. at' = "reading" /\ total' = 0 /\ mCurrentMessageSize' = bytes /\ ReadInv' /\ LostInv'
    BY Listening
<1>5. TypeInv'
    BY <1>1, <1>2, <1>4 DEF TypeInv
<1>6. Collected(i)'
    BY <1>1, <1>2, <1>3 DEF Collected
<1>7. ParserInv'
    BY <1>1, <1>6 DEF ParserInv
<1> QED
    BY <1>1, <1>3, <1>4, <1>5, <1>7 DEF IInv

LEMMA LengthKeeps ==
    ASSUME IInv, Length
    PROVE  IInv'
<1>1. Handles("LENGTH") /\ mOpcode' = mOpcode /\ message' = message
    BY DEF Length
<1>2. /\ TypeInv /\ FramesInv /\ mReceiveState = "LENGTH" /\ frames' = frames
      /\ consumed' = consumed + Takes /\ consumed \in Nat
    BY <1>1, HandlingFacts
<1>3. PICK i \in 0 .. Len(frames) :
          /\ Parsed(i) /\ Collected(i)
          /\ i + 1 \in 1 .. Len(frames)
          /\ frames[i + 1] \in Frames
          /\ frames[i + 1].start \in Nat
          /\ frames[i + 1].length \in 0 .. Width - 1
          /\ mOpcode = frames[i + 1].kind /\ mOpcode.opcode # "other"
    BY <1>1, HeaderFacts
<1> DEFINE length == frames[i + 1].length
<1>4. Takes = 1 /\ consumed = frames[i + 1].start + 1
    BY <1>2, <1>3 DEF Takes, Parsed
<1>5. consumed' = frames[i + 1].start + 2
    BY <1>2, <1>3, <1>4
<1>6. ReadAs(1, Lengths, "length") = {frames[i + 1]["length"]}
    BY <1>2, <1>3, <1>4, HeaderRead
<1>7. LengthBytes(length) \in {0, 2, 8}
    BY DEF LengthBytes
<1>8. Payload(frames[i + 1]) = frames[i + 1].start + 2 + LengthBytes(length) + 4
    BY DEF Payload
<1>9. \/ /\ LengthBytes(length) = 0 /\ mPayloadLength' = length
         /\ mReceiveState' = "MASKING_KEY" /\ ListenForPayload(4)
      \/ /\ LengthBytes(length) = 2 /\ mReceiveState' = "LENGTH_X1"
         /\ ListenForPayload(2) /\ mPayloadLength' = mPayloadLength
      \/ /\ LengthBytes(length) = 8 /\ mReceiveState' = "LENGTH_X2"
         /\ ListenForPayload(8) /\ mPayloadLength' = mPayloadLength
    BY <1>6, <1>7 DEF Length
<1>10. mPayloadLength \in 0 .. Width - 1
    BY <1>2 DEF TypeInv
<1>11. CASE /\ LengthBytes(length) = 0 /\ mPayloadLength' = length
            /\ mReceiveState' = "MASKING_KEY" /\ ListenForPayload(4)
  <2>1. consumed' + 4 = Payload(frames[i + 1])
    BY <1>3, <1>5, <1>8, <1>11
  <2>2. Parsed(i)'
    BY <1>1, <1>2, <1>3, <1>11, <2>1 DEF Parsed, Payload, LengthBytes
  <2>3. Takes' = 4 /\ mReceiveState' \in States /\ mPayloadLength' \in 0 .. Width - 1
    BY <1>3, <1>11 DEF Takes, States
  <2> QED
    BY <1>1, <1>3, <1>11, <2>2, <2>3, HeaderStepKeeps
<1>12. CASE /\ LengthBytes(length) = 2 /\ mReceiveState' = "LENGTH_X1"
            /\ ListenForPayload(2) /\ mPayloadLength' = mPayloadLength
  <2>1. Parsed(i)'
    BY <1>1, <1>2, <1>3, <1>5, <1>12 DEF Parsed, LengthBytes
  <2>2. Takes' = 2 /\ mReceiveState' \in States
    BY <1>12 DEF Takes, States
  <2> QED
    BY <1>1, <1>3, <1>10, <1>12, <2>1, <2>2, HeaderStepKeeps
<1>13. CASE /\ LengthBytes(length) = 8 /\ mReceiveState' = "LENGTH_X2"
            /\ ListenForPayload(8) /\ mPayloadLength' = mPayloadLength
  <2>1. Parsed(i)'
    BY <1>1, <1>2, <1>3, <1>5, <1>13 DEF Parsed, LengthBytes
  <2>2. Takes' = 8 /\ mReceiveState' \in States
    BY <1>13 DEF Takes, States
  <2> QED
    BY <1>1, <1>3, <1>10, <1>13, <2>1, <2>2, HeaderStepKeeps
<1> QED
    BY <1>9, <1>11, <1>12, <1>13

LEMMA LengthXKeeps ==
    ASSUME IInv, NEW state \in {"LENGTH_X1", "LENGTH_X2"}, LengthX(state)
    PROVE  IInv'
<1>1. /\ Handles(state) /\ state # "START" /\ mOpcode' = mOpcode /\ message' = message
      /\ mReceiveState' = "MASKING_KEY" /\ ListenForPayload(4)
    BY DEF LengthX
<1>2. /\ TypeInv /\ FramesInv /\ mReceiveState = state /\ frames' = frames
      /\ consumed' = consumed + Takes /\ consumed \in Nat
    BY <1>1, HandlingFacts
<1>3. PICK i \in 0 .. Len(frames) :
          /\ Parsed(i) /\ Collected(i)
          /\ i + 1 \in 1 .. Len(frames)
          /\ frames[i + 1] \in Frames
          /\ frames[i + 1].start \in Nat
          /\ frames[i + 1].length \in 0 .. Width - 1
          /\ mOpcode = frames[i + 1].kind /\ mOpcode.opcode # "other"
    BY <1>1, HeaderFacts
<1>4. /\ consumed = frames[i + 1].start + 2
      /\ Takes = LengthBytes(frames[i + 1].length) /\ Takes \in {2, 8}
    BY <1>2, <1>3 DEF Takes, Parsed
<1>5. ReadAs(2, Lengths, "length") = {frames[i + 1]["length"]}
    BY <1>2, <1>3, <1>4, HeaderRead
<1>6. mPayloadLength' = frames[i + 1].length
    BY <1>5 DEF LengthX
<1>7. consumed' + 4 = Payload(frames[i + 1])
    BY <1>2, <1>3, <1>4 DEF Payload
<1>8. Parsed(i)'
    BY <1>1, <1>2, <1>3, <1>6, <1>7 DEF Parsed, Payload, LengthBytes
<1>9. Takes' = 4 /\ mReceiveState' \in States /\ mPayloadLength' \in 0 .. Width - 1
    BY <1>1, <1>3, <1>6 DEF Takes, States
<1> QED
    BY <1>1, <1>3, <1>8, <1>9, HeaderStepKeeps

LEMMA MaskingKeyKeeps ==
    ASSUME IInv, MaskingKey
    PROVE  IInv'
<1>1. /\ Handles("MASKING_KEY") /\ mOpcode' = mOpcode /\ message' = message
      /\ mPayloadLength' = mPayloadLength
      /\ mReceiveState' = "PAYLOAD" /\ ListenForPayload(mPayloadLength)
    BY DEF MaskingKey
<1>2. /\ TypeInv /\ mReceiveState = "MASKING_KEY" /\ frames' = frames
      /\ consumed' = consumed + Takes /\ consumed \in Nat
    BY <1>1, HandlingFacts
<1>3. PICK i \in 0 .. Len(frames) :
          /\ Parsed(i) /\ Collected(i)
          /\ i + 1 \in 1 .. Len(frames)
          /\ mOpcode = frames[i + 1].kind /\ mOpcode.opcode # "other"
    BY <1>1, HeaderFacts
<1>4. /\ Takes = 4 /\ consumed + 4 = Payload(frames[i + 1])
      /\ mPayloadLength = frames[i + 1].length
    BY <1>2, <1>3 DEF Takes, Parsed
<1>5. consumed' = Payload(frames[i + 1])
    BY <1>2, <1>4
<1>6. Parsed(i)'
    BY <1>1, <1>2, <1>3, <1>4, <1>5 DEF Parsed, Payload, LengthBytes
<1>7. mPayloadLength \in 0 .. Width - 1 /\ Width \in Nat
    BY <1>2, Sizes DEF TypeInv
<1>8. Takes' = mPayloadLength /\ mPayloadLength \in Nat /\ mReceiveState' \in States
    BY <1>1, <1>7 DEF Takes, States
<1> QED
    BY <1>1, <1>3, <1>6, <1>7, <1>8, HeaderStepKeeps

\* A payload that follows the collected ones is the next part of their message, or
\* the first of one.
LEMMA NextPayload ==
    ASSUME TypeInv, FramesInv, HandedInv, NEW i \in 0 .. Len(frames), Collected(i),
           i + 1 \in 1 .. Len(frames), frames[i + 1].kind.opcode # "other"
    PROVE  /\ Append(IF frames[i + 1].kind.opcode = "more" THEN mInboundMessage ELSE <<>>, i + 1)
                  = [k \in 1 .. i + 1 - Handed |-> Handed + k]
           /\ frames[i + 1].kind.fin => IsMessage(Handed + 1, i + 1)
<1>1. /\ Handed \in Nat /\ i \in Nat /\ Handed <= i /\ Len(frames) \in Nat
      /\ Handed > 0 => frames[Handed].kind.fin
    BY HandedFacts DEF Collected
<1>2. \A j \in 1 .. i + 1 : frames[j].kind.opcode # "other" /\ j \in 1 .. Len(frames)
    BY <1>1 DEF Collected
<1>3. \A j \in Handed + 1 .. i : ~frames[j].kind.fin
    BY DEF Collected
<1>4. \A j \in 1 .. i + 1 : frames[j].kind.opcode = "more" <=> j > 1 /\ ~frames[j - 1].kind.fin
    BY <1>2 DEF FramesInv
<1>5. frames[i + 1].kind.opcode = "more" <=> Handed < i
  <2>1. CASE Handed < i
    <3>1. i \in Handed + 1 .. i /\ i + 1 \in 1 .. i + 1
      BY <1>1, <2>1
    <3> QED
      BY <1>1, <1>3, <1>4, <2>1, <3>1
  <2>2. CASE Handed = i
    <3>1. i + 1 \in 1 .. i + 1
      BY <1>1
    <3> QED
      BY <1>1, <1>4, <2>2, <3>1
  <2> QED
    BY <1>1, <2>1, <2>2
<1>6. Append(IF frames[i + 1].kind.opcode = "more" THEN mInboundMessage ELSE <<>>, i + 1)
          = [k \in 1 .. i + 1 - Handed |-> Handed + k]
  <2>1. CASE Handed < i
    <3>1. mInboundMessage = [k \in 1 .. i - Handed |-> Handed + k] /\ i - Handed \in Nat
      BY <1>1, <2>1 DEF Collected
    <3>2. mInboundMessage \in Seq(Nat) /\ Len(mInboundMessage) = i - Handed
      BY <1>1, <3>1
    <3> QED
      BY <1>1, <1>5, <2>1, <3>1, <3>2
  <2>2. CASE Handed = i
    <3>1. Append(<<>>, i + 1) = [k \in 1 .. 1 |-> Handed + k]
      BY <1>1, <2>2
    <3> QED
      BY <1>1, <1>5, <2>2, <3>1
  <2>3. Handed < i \/ Handed = i
    BY <1>1
  <2> QED
    BY <2>1, <2>2, <2>3
<1>7. ASSUME frames[i + 1].kind.fin
      PROVE  IsMessage(Handed + 1, i + 1)
  <2>1. \A j \in Handed + 1 .. i + 1 : frames[j].kind.fin <=> j = i + 1
    BY <1>1, <1>3, <1>7
  <2>2. ASSUME NEW j \in (Handed + 1) + 1 .. i + 1
        PROVE  frames[j].kind.opcode = "more"
    <3>1. j \in 1 .. i + 1 /\ j > 1 /\ j - 1 \in Handed + 1 .. i
      BY <1>1
    <3> QED
      BY <1>3, <1>4, <3>1
  <2>3. frames[Handed + 1].kind.opcode = "text"
    <3>1. Handed + 1 \in 1 .. i + 1
      BY <1>1
    <3>2. frames[Handed + 1].kind.opcode # "more"
      BY <1>1, <1>4, <3>1
    <3>3. frames[Handed + 1] \in Frames
      BY <1>2, <3>1, FramesAreSent
    <3> QED
      BY <1>2, <3>1, <3>2, <3>3 DEF Frames, Opcodes
  <2> QED
    BY <2>1, <2>2, <2>3 DEF IsMessage
<1> QED
    BY <1>6, <1>7

\* A message that follows the last one handed on is handed on.
LEMMA HandingOn ==
    ASSUME TypeInv, HandedInv, frames' = frames, NEW last \in 1 .. Len(frames),
           Handed < last, IsMessage(Handed + 1, last),
           NEW new \in Seq(Nat), Len(new) = last - Handed,
           \A k \in 1 .. last - Handed : new[k] = Handed + k,
           handed' = Append(handed, new)
    PROVE  HandedInv' /\ Handed' = last /\ handed' \in Seq(Seq(Nat))
<1>1. /\ Handed \in Nat /\ Len(handed) \in Nat /\ Len(frames) \in Nat
      /\ handed \in Seq(Seq(Nat))
    BY HandedFacts DEF TypeInv
<1>2. last - Handed \in Nat /\ last - Handed > 0
    BY <1>1
<1>3. /\ new = [k \in 1 .. last - Handed |-> Handed + k]
      /\ Len(new) = last - Handed /\ new[Len(new)] = last
    BY <1>1, <1>2
<1>4. /\ handed' \in Seq(Seq(Nat)) /\ Len(handed') = Len(handed) + 1
      /\ \A m \in 1 .. Len(handed) : handed'[m] = handed[m]
      /\ handed'[Len(handed) + 1] = new
    BY <1>1, <1>3
<1>5. \A m \in 0 .. Len(handed) : HandedTo(m)' = HandedTo(m)
    BY <1>1, <1>4 DEF HandedTo, Last
<1>6. \A m \in Nat : m = Len(handed) + 1 => HandedTo(m)' = last
    BY <1>1, <1>3, <1>4 DEF HandedTo, Last
<1>7. Handed' = last
  <2>1. Handed' = Last(handed'[Len(handed')])
    <3>1. Len(handed') # 0
      BY <1>1, <1>4
    <3> QED
      BY <3>1 DEF Handed, HandedTo
  <2> QED
    BY <1>3, <1>4, <2>1 DEF Last
<1>8. \A first, end : IsMessage(first, end)' <=> IsMessage(first, end)
    BY DEF IsMessage
<1>9. ASSUME NEW m \in 1 .. Len(handed')
      PROVE  /\ HandedTo(m)' \in 1 .. Len(frames')
             /\ HandedTo(m - 1)' < HandedTo(m)'
             /\ IsMessage(HandedTo(m - 1) + 1, HandedTo(m))'
             /\ handed'[m] = [k \in 1 .. HandedTo(m)' - HandedTo(m - 1)' |-> HandedTo(m - 1)' + k]
  <2>1. CASE m \in 1 .. Len(handed)
    <3>1. HandedTo(m)' = HandedTo(m) /\ HandedTo(m - 1)' = HandedTo(m - 1) /\ handed'[m] = handed[m]
      BY <1>1, <1>4, <1>5, <2>1
    <3> QED
      BY <2>1, <3>1 DEF HandedInv, IsMessage
  <2>2. CASE m = Len(handed) + 1
    <3>1. HandedTo(m - 1)' = Handed
      BY <1>1, <1>5, <2>2 DEF Handed
    <3>2. HandedTo(m)' = last /\ handed'[m] = new
      BY <1>1, <1>4, <1>6, <2>2
    <3> QED
      BY <1>3, <3>1, <3>2 DEF IsMessage
  <2>3. m \in 1 .. Len(handed) \/ m = Len(handed) + 1
    BY <1>1, <1>4
  <2> QED
    BY <2>1, <2>2, <2>3
<1>10. HandedInv'
    BY <1>9 DEF HandedInv
<1> QED
    BY <1>4, <1>7, <1>10

LEMMA PayloadCompleteKeeps ==
    ASSUME IInv, PayloadComplete
    PROVE  IInv'
<1>1. /\ Handles("PAYLOAD") /\ mOpcode' = mOpcode /\ mPayloadLength' = mPayloadLength
      /\ mReceiveState' = "START" /\ ListenForPayload(1)
      /\ mInboundMessage' =
            Append(IF mOpcode.opcode = "more" THEN mInboundMessage ELSE <<>>, FrameRead)
      /\ handed' = IF mOpcode.fin THEN Append(handed, mInboundMessage') ELSE handed
    BY DEF PayloadComplete
<1>2. /\ TypeInv /\ FramesInv /\ HandedInv /\ mReceiveState = "PAYLOAD"
      /\ frames' = frames /\ pieces' = pieces /\ FramesInv' /\ SentBytes' = SentBytes
      /\ {consumed, received, consumed', received'} \subseteq Nat
      /\ consumed' = consumed + Takes
      /\ consumed' <= received' /\ received' <= SentBytes'
    BY <1>1, HandlingFacts
<1>3. PICK i \in 0 .. Len(frames) :
          /\ Parsed(i) /\ Collected(i)
          /\ i + 1 \in 1 .. Len(frames)
          /\ mOpcode = frames[i + 1].kind /\ mOpcode.opcode # "other"
    BY <1>1, HeaderFacts
<1>4. consumed = Payload(frames[i + 1]) /\ mPayloadLength = frames[i + 1].length
    BY <1>2, <1>3 DEF Parsed
<1>5. FrameRead = i + 1
    BY <1>2, <1>3, <1>4, PayloadRead
<1>6. /\ mInboundMessage' = [k \in 1 .. i + 1 - Handed |-> Handed + k]
      /\ mOpcode.fin => IsMessage(Handed + 1, i + 1)
    BY <1>1, <1>2, <1>3, <1>5, NextPayload
<1>7. Handed \in Nat /\ Handed <= i /\ i \in Nat /\ Len(frames) \in Nat
    BY <1>2, <1>3, HandedFacts DEF Collected
<1>8. consumed' = End(frames[i + 1])
    BY <1>2, <1>4 DEF Takes, End
<1>9. Parsed(i + 1)'
    BY <1>1, <1>2, <1>7, <1>8 DEF Parsed, End, Payload, LengthBytes
<1>10. /\ HandedInv' /\ handed' \in Seq(Seq(Nat))
       /\ Handed' = IF mOpcode.fin THEN i + 1 ELSE Handed
  <2>1. CASE mOpcode.fin
    <3>1. handed' = Append(handed, mInboundMessage')
      BY <1>1, <2>1
    <3>2. /\ mInboundMessage' \in Seq(Nat) /\ Len(mInboundMessage') = i + 1 - Handed
          /\ \A k \in 1 .. i + 1 - Handed : mInboundMessage'[k] = Handed + k
      BY <1>6, <1>7
    <3>3. Handed < i + 1 /\ IsMessage(Handed + 1, i + 1)
      BY <1>6, <1>7, <2>1
    <3>4. PICK last \in 1 .. Len(frames) : last = i + 1
      BY <1>3
    <3>5. PICK new \in Seq(Nat) : new = mInboundMessage'
      BY <3>2
    <3>6. Handed < last /\ IsMessage(Handed + 1, last) /\ Len(new) = last - Handed
      BY <1>7, <3>2, <3>3, <3>4, <3>5
    <3>7. \A k \in 1 .. last - Handed : new[k] = Handed + k
      BY <1>7, <3>2, <3>4, <3>5
    <3>8. handed' = Append(handed, new)
      BY <3>1, <3>5
    <3>9. HandedInv' /\ Handed' = last /\ handed' \in Seq(Seq(Nat))
      BY <1>2, <3>6, <3>7, <3>8, HandingOn
    <3> QED
      BY <2>1, <3>4, <3>9
  <2>2. CASE ~mOpcode.fin
    BY <1>1, <1>2, <2>2, HandedKept DEF TypeInv
  <2> QED
    BY <2>1, <2>2
<1>11. Collected(i + 1)'
  <2>1. \A j \in 1 .. i + 1 : frames[j].kind.opcode # "other"
    BY <1>3, <1>7 DEF Collected
  <2>2. \A j \in Handed + 1 .. i : ~frames[j].kind.fin
    BY <1>3 DEF Collected
  <2>3. CASE mOpcode.fin
    BY <1>2, <1>7, <1>10, <2>1, <2>3 DEF Collected
  <2>4. CASE ~mOpcode.fin
    <3>1. \A j \in Handed + 1 .. i + 1 : ~frames[j].kind.fin
      BY <1>3, <1>7, <2>2, <2>4
    <3> QED
      BY <1>2, <1>6, <1>7, <1>10, <2>1, <2>4, <3>1 DEF Collected
  <2> QED
    BY <2>3, <2>4
<1>12. ParserInv'
    BY <1>2, <1>3, <1>7, <1>9, <1>11 DEF ParserInv
<1>13. at' = "reading" /\ total' = 0 /\ mCurrentMessageSize' = 1 /\ ReadInv' /\ LostInv'
  <2>1. Takes' = 1
    BY <1>1 DEF Takes
  <2> QED
    BY <1>1, <2>1, Listening
<1>14. mInboundMessage' \in Seq(Nat)
    BY <1>6, <1>7
<1>15. TypeInv'
    BY <1>1, <1>2, <1>10, <1>13, <1>14 DEF TypeInv, States
<1> QED
    BY <1>2, <1>10, <1>12, <1>13, <1>15 DEF IInv

\* What is missing when a read came in one piece is what the buffer does not hold.
LEMMA LostKeeps ==
    ASSUME IInv, Lost
    PROVE  IInv'
<1>1. /\ TypeInv /\ FramesInv /\ HandedInv /\ ParserInv /\ ReadInv
      /\ at = "handling" /\ at' = "lost" /\ Buffered < Takes
      /\ frames' = frames /\ received' = received /\ pieces' = pieces /\ consumed' = consumed
      /\ parser' = parser /\ read' = read /\ message' = message
    BY DEF IInv, Lost, socket
<1>2. handed' = handed
    BY <1>1 DEF message
<1>3. FramesInv' /\ SentBytes' = SentBytes /\ HandedInv'
    BY <1>1, <1>2, FramesKept, HandedKept
<1>4. TypeInv'
    BY <1>1, <1>3 DEF TypeInv, parser, read, message
<1>5. ParserInv' /\ ReadInv'
    BY <1>1 DEF ParserInv, ReadInv
<1>6. ASSUME ~pieces
      PROVE  \E f \in ToSet(frames) : f.length > BufferSize
  <2>1. Buffered = Lesser(Takes, BufferSize) /\ Takes \in Nat /\ BufferSize \in Nat
    BY <1>1, <1>6, TakesSome, Sizes DEF ReadInv
  <2>2. BufferSize < Takes
    BY <1>1, <2>1 DEF Lesser
  <2>3. mReceiveState = "PAYLOAD" /\ Takes = mPayloadLength
    BY <1>1, <2>1, <2>2, TakesSome
  <2>4. PICK i \in 0 .. Len(frames) : Parsed(i) /\ Collected(i)
    BY <1>1 DEF ParserInv
  <2>5. i + 1 \in 1 .. Len(frames) /\ frames[i + 1].length = mPayloadLength
    BY <2>3, <2>4 DEF Parsed
  <2>6. frames[i + 1] \in ToSet(frames)
    BY <1>1, <2>5, FramesAreSent
  <2>7. frames[i + 1].length > BufferSize
    BY <2>1, <2>2, <2>3, <2>5
  <2> QED
    BY <2>6, <2>7
<1>7. LostInv'
    BY <1>1, <1>6 DEF LostInv
<1> QED
    BY <1>3, <1>4, <1>5, <1>7 DEF IInv

LEMMA BreaksKeeps ==
    ASSUME IInv, Breaks
    PROVE  IInv'
<1>1. /\ TypeInv /\ FramesInv /\ HandedInv /\ at' = "ended"
      /\ frames' = frames /\ received' = received /\ pieces' = pieces /\ consumed' = consumed
      /\ parser' = parser /\ read' = read /\ message' = message /\ handed' = handed
    BY DEF IInv, Breaks, socket, message
<1>2. FramesInv' /\ SentBytes' = SentBytes /\ HandedInv'
    BY <1>1, FramesKept, HandedKept
<1>3. TypeInv'
    BY <1>1, <1>2 DEF TypeInv, parser, read, message
<1>4. ParserInv' /\ ReadInv' /\ LostInv'
    BY <1>1 DEF ParserInv, ReadInv, LostInv
<1> QED
    BY <1>1, <1>2, <1>3, <1>4 DEF IInv

\* A frame that is sent comes after all that the parser and the messages are about.
LEMMA ClientSendsKeeps ==
    ASSUME IInv, NEW kind \in Opcodes, NEW length \in Lengths, ClientSends(kind, length)
    PROVE  IInv'
<1> DEFINE new == [start |-> SentBytes, kind |-> kind, length |-> length]
<1> DEFINE n == Len(frames)
<1>1. /\ TypeInv /\ FramesInv /\ HandedInv /\ ParserInv /\ ReadInv /\ LostInv
      /\ kind.opcode = "more" <=> frames # <<>> /\ ~Last(frames).kind.fin
      /\ kind.opcode = "other" => kind.fin
      /\ frames' = Append(frames, new)
      /\ UNCHANGED <<received, consumed, at, parser, read, message, pieces>>
    BY DEF IInv, ClientSends
<1>2. /\ n \in Nat /\ SentBytes \in Nat /\ frames \in Seq(Frames)
      /\ \A i \in 1 .. n : frames[i] \in Frames
      /\ SentBytes = IF n = 0 THEN 0 ELSE End(frames[n])
      /\ DOMAIN frames = 1 .. n
      /\ ToSet(frames) = {frames[i] : i \in 1 .. n}
    BY <1>1, FramesAreSent DEF TypeInv
<1>3. new \in Frames /\ new.start = SentBytes /\ new.kind = kind /\ new.length = length
    BY <1>2 DEF Frames
<1> HIDE DEF new
<1>4. /\ frames' \in Seq(Frames) /\ Len(frames') = n + 1
      /\ \A i \in 1 .. n : frames'[i] = frames[i]
      /\ frames'[n + 1] = new
    BY <1>1, <1>2, <1>3
<1> HIDE DEF n
<1>5. SentBytes' = End(new) /\ SentBytes' \in Nat /\ SentBytes <= SentBytes'
  <2>1. SentBytes' = End(new)
    <3>1. Len(frames') # 0 /\ frames' # <<>>
      BY <1>2, <1>4
    <3> QED
      BY <1>4, <3>1 DEF SentBytes, Last, End, Payload, LengthBytes
  <2>2. /\ End(new) \in Nat /\ Payload(new) \in Nat /\ new.length \in Nat
        /\ new.start + 6 <= Payload(new) /\ End(new) = Payload(new) + new.length
    BY <1>3, FrameSizes
  <2> QED
    BY <1>2, <1>3, <2>1, <2>2
<1>6. TypeInv'
  <2>1. received' <= SentBytes'
    BY <1>1, <1>2, <1>5 DEF TypeInv
  <2> QED
    BY <1>1, <1>4, <2>1 DEF TypeInv, parser, read, message
<1>7. \A i \in 1 .. n : End(frames[i]) <= SentBytes
    BY <1>1, FrameEnds DEF n
<1>8. FramesInv'
  <2>1. ASSUME NEW i \in 1 .. n + 1
        PROVE  /\ frames'[i].start = IF i = 1 THEN 0 ELSE End(frames'[i - 1])
               /\ frames'[i].kind.opcode = "more" <=> i > 1 /\ ~frames'[i - 1].kind.fin
               /\ frames'[i].kind.opcode = "other" => frames'[i].kind.fin
    <3>1. CASE i \in 1 .. n
      <4>1. frames'[i] = frames[i] /\ (i > 1 => frames'[i - 1] = frames[i - 1])
        BY <1>2, <1>4, <3>1
      <4>2. /\ frames[i].start = IF i = 1 THEN 0 ELSE End(frames[i - 1])
            /\ frames[i].kind.opcode = "more" <=> i > 1 /\ ~frames[i - 1].kind.fin
            /\ frames[i].kind.opcode = "other" => frames[i].kind.fin
        BY <1>1, <3>1 DEF FramesInv, n
      <4> QED
        BY <1>2, <3>1, <4>1, <4>2
    <3>2. CASE i = n + 1
      <4>1. frames'[i] = new
        BY <1>4, <3>2
      <4>2. CASE n = 0
        <5>1. frames = <<>>
          BY <1>2, <4>2 DEF n
        <5> QED
          BY <1>1, <1>2, <1>3, <3>2, <4>1, <4>2, <5>1
      <4>3. CASE n # 0
        <5>1. frames # <<>> /\ Last(frames) = frames[n] /\ i - 1 = n /\ frames'[i - 1] = frames[n]
          BY <1>2, <1>4, <3>2, <4>3 DEF n, Last
        <5> QED
          BY <1>1, <1>2, <1>3, <3>2, <4>1, <4>3, <5>1
      <4> QED
        BY <4>2, <4>3
    <3> QED
      BY <1>2, <3>1, <3>2
  <2>2. ASSUME NEW i \in 1 .. n + 1, NEW j \in 1 .. n + 1, i < j
        PROVE  End(frames'[i]) <= frames'[j].start
    <3>1. i \in 1 .. n /\ frames'[i] = frames[i]
      BY <1>2, <1>4, <2>2
    <3>2. CASE j \in 1 .. n
      BY <1>1, <1>4, <2>2, <3>1, <3>2 DEF FramesInv, n
    <3>3. CASE j = n + 1
      BY <1>3, <1>4, <1>7, <3>1, <3>3
    <3> QED
      BY <1>2, <3>2, <3>3
  <2> QED
    BY <1>4, <2>1, <2>2 DEF FramesInv, End, Payload, LengthBytes
<1>9. HandedInv' /\ Handed' = Handed
  <2>1. handed' = handed
    BY <1>1 DEF message
  <2>2. (\A m : HandedTo(m)' = HandedTo(m)) /\ Handed' = Handed
    BY <2>1 DEF HandedTo, Handed, Last
  <2>3. ASSUME NEW m \in 1 .. Len(handed)
        PROVE  /\ HandedTo(m) \in 1 .. n + 1
               /\ HandedTo(m - 1) < HandedTo(m)
               /\ IsMessage(HandedTo(m - 1) + 1, HandedTo(m))'
               /\ handed[m] = [k \in 1 .. HandedTo(m) - HandedTo(m - 1) |-> HandedTo(m - 1) + k]
    <3>1. /\ HandedTo(m) \in 1 .. n
          /\ HandedTo(m - 1) < HandedTo(m)
          /\ IsMessage(HandedTo(m - 1) + 1, HandedTo(m))
          /\ handed[m] = [k \in 1 .. HandedTo(m) - HandedTo(m - 1) |-> HandedTo(m - 1) + k]
      BY <1>1 DEF HandedInv, n
    <3>2. m - 1 \in 0 .. Len(handed)
      BY <1>1, HandedFacts
    <3>3. HandedTo(m - 1) \in Nat
      BY <1>1, <3>2, HandedFacts
    <3>4. \A i \in HandedTo(m - 1) + 1 .. HandedTo(m) : frames'[i] = frames[i]
      BY <1>2, <1>4, <3>1, <3>3
    <3>5. HandedTo(m - 1) + 1 \in HandedTo(m - 1) + 1 .. HandedTo(m)
      BY <1>2, <3>1, <3>3
    <3>6. IsMessage(HandedTo(m - 1) + 1, HandedTo(m))'
      <4>1. PICK p \in Nat, q \in Nat : p = HandedTo(m - 1) + 1 /\ q = HandedTo(m)
        BY <1>2, <3>1, <3>3
      <4>2. p <= q /\ p \in p .. q /\ \A i \in p .. q : frames'[i] = frames[i]
        BY <3>4, <3>5, <4>1
      <4>3. IsMessage(p, q)'
        BY <3>1, <4>1, <4>2 DEF IsMessage
      <4>4. p = (HandedTo(m - 1) + 1)' /\ q = HandedTo(m)'
        BY <2>2, <4>1
      <4> QED
        BY <4>3, <4>4
    <3>7. HandedTo(m) \in 1 .. n + 1
      BY <1>2, <3>1
    <3> QED
      BY <3>1, <3>6, <3>7
  <2> QED
    BY <1>4, <2>1, <2>2, <2>3 DEF HandedInv
<1>10. ParserInv'
  <2> SUFFICES ASSUME at \in {"reading", "handling"}
               PROVE  ParserInv'
    BY <1>1 DEF ParserInv
  <2>1. PICK i \in 0 .. n : Parsed(i) /\ Collected(i)
    BY <1>1 DEF ParserInv, n
  <2>2. /\ \A j \in 1 .. i : frames'[j] = frames[j]
        /\ i + 1 \in 1 .. n => frames'[i + 1] = frames[i + 1]
        /\ i # 0 => i \in 1 .. i
        /\ i \in 0 .. n + 1
    BY <1>2, <1>4
  <2>3. Parsed(i)'
    <3>1. CASE mReceiveState = "START"
      BY <1>1, <2>1, <2>2, <3>1 DEF Parsed, parser, End, Payload, LengthBytes
    <3>2. CASE mReceiveState # "START"
      <4>1. i + 1 \in 1 .. n /\ i + 1 \in 1 .. n + 1
        BY <1>2, <2>1, <3>2 DEF Parsed, n
      <4> QED
        BY <1>1, <1>4, <2>1, <2>2, <3>2, <4>1 DEF Parsed, parser, Payload, LengthBytes
    <3> QED
      BY <3>1, <3>2
  <2>4. Collected(i)'
    <3>1. Handed \in 0 .. n
      BY <1>1, HandedFacts DEF n
    <3>2. \A j \in Handed + 1 .. i : j \in 1 .. i
      BY <1>2, <3>1
    <3> QED
      BY <1>1, <1>9, <2>1, <2>2, <3>2 DEF Collected, message
  <2> QED
    BY <1>4, <2>2, <2>3, <2>4 DEF ParserInv
<1>11. ReadInv'
  <2>1. Takes' = Takes /\ Buffered' = Buffered
    BY <1>1 DEF Takes, Buffered, parser
  <2> QED
    BY <1>1, <2>1 DEF ReadInv, read, Lesser
<1>12. LostInv'
  <2>1. ToSet(frames) \subseteq ToSet(frames')
    <3>1. ToSet(frames') = {frames'[i] : i \in 1 .. n + 1}
      BY <1>4 DEF ToSet
    <3> QED
      BY <1>2, <1>4, <3>1
  <2> QED
    BY <1>1, <2>1 DEF LostInv
<1> QED
    BY <1>6, <1>8, <1>9, <1>10, <1>11, <1>12 DEF IInv

------------------------------------------------------------------------------
LEMMA InitIInv == Init => IInv
<1> SUFFICES ASSUME Init
             PROVE  IInv
    OBVIOUS
<1>1. /\ frames = <<>> /\ Len(frames) = 0 /\ received = 0 /\ consumed = 0 /\ at = "reading"
      /\ mReceiveState = "START" /\ mOpcode \in Opcodes /\ mPayloadLength = 0
      /\ mCurrentMessageSize = 1 /\ total = 0 /\ mInboundMessage = <<>>
      /\ handed = <<>> /\ Len(handed) = 0 /\ pieces = FALSE
    BY DEF Init, Opcodes
<1>2. frames \in Seq(Frames) /\ handed \in Seq(Seq(Nat)) /\ mInboundMessage \in Seq(Nat)
    BY <1>1
<1>3. SentBytes = 0
    BY <1>1 DEF SentBytes
<1>4. TypeInv
  <2>1. 0 \in 0 .. Width - 1
    BY Sizes
  <2>2. SentBytes \in Nat /\ {received, consumed, mCurrentMessageSize, total} \subseteq Nat
    BY <1>1, <1>3
  <2>3. consumed <= received /\ received <= SentBytes
    BY <1>1, <1>3
  <2>4. at \in {"reading", "handling", "ended", "lost"} /\ mReceiveState \in States
    BY <1>1 DEF States
  <2>5. mPayloadLength \in 0 .. Width - 1 /\ pieces \in BOOLEAN
    BY <1>1, <2>1
  <2> QED
    BY <1>1, <1>2, <2>2, <2>3, <2>4, <2>5 DEF TypeInv
<1>5. FramesInv /\ HandedInv /\ LostInv
    BY <1>1 DEF FramesInv, HandedInv, LostInv
<1>6. ReadInv
    BY <1>1 DEF ReadInv, Takes, Buffered
<1>7. Parsed(0) /\ Collected(0)
    BY <1>1 DEF Parsed, Collected, Handed, HandedTo
<1>8. ParserInv
    BY <1>1, <1>7 DEF ParserInv
<1> QED
    BY <1>4, <1>5, <1>6, <1>8 DEF IInv

LEMMA NextIInv == IInv /\ [Next]_vars => IInv'
<1> SUFFICES ASSUME IInv, [Next]_vars
             PROVE  IInv'
    OBVIOUS
<1>1. CASE UNCHANGED vars
  <2>1. /\ frames' = frames /\ received' = received /\ consumed' = consumed /\ at' = at
        /\ mReceiveState' = mReceiveState /\ mOpcode' = mOpcode
        /\ mPayloadLength' = mPayloadLength /\ mCurrentMessageSize' = mCurrentMessageSize
        /\ total' = total /\ mInboundMessage' = mInboundMessage /\ handed' = handed
        /\ pieces' = pieces
    BY <1>1 DEF vars, socket, parser, read, message
  <2>2. /\ TypeInv /\ FramesInv /\ HandedInv /\ ParserInv /\ ReadInv /\ LostInv
    BY DEF IInv
  <2>3. FramesInv' /\ SentBytes' = SentBytes /\ HandedInv' /\ Handed' = Handed
    BY <2>1, <2>2, FramesKept, HandedKept
  <2>4. TypeInv'
    BY <2>1, <2>2, <2>3 DEF TypeInv
  <2>5. ParserInv'
    <3>1. \A i \in 0 .. Len(frames) : Parsed(i)' <=> Parsed(i)
      BY <2>1 DEF Parsed, End, Payload, LengthBytes
    <3>2. \A i \in 0 .. Len(frames) : Collected(i)' <=> Collected(i)
      BY <2>1, <2>3 DEF Collected
    <3> QED
      BY <2>1, <2>2, <3>1, <3>2 DEF ParserInv
  <2>6. ReadInv' /\ LostInv'
    BY <2>1, <2>2 DEF ReadInv, Takes, Buffered, Lesser, LostInv, ToSet
  <2> QED
    BY <2>3, <2>4, <2>5, <2>6 DEF IInv
<1>2. CASE Next
    BY <1>2, ReadSomeKeeps, StartKeeps, LengthKeeps, LengthXKeeps, MaskingKeyKeeps,
       PayloadCompleteKeeps, LostKeeps, BreaksKeeps, ClientSendsKeeps
    DEF Next, Reads, HandleFragment
<1> QED
    BY <1>1, <1>2

\* The parser always stands in the client's stream where it believes to stand.
THEOREM Invariance == Spec => []IInv
BY InitIInv, NextIInv, PTL DEF Spec

\* The handler gets the client's messages in order, whole and once, whatever the
\* sizes; what ends that is a read in several pieces, or too long a payload.
THEOREM MessagesAreHandedAsSent == Spec => []HandedAsSent
<1>1. IInv => HandedAsSent
  <2> SUFFICES ASSUME IInv
               PROVE  HandedAsSent
    OBVIOUS
  <2>1. TypeInv /\ HandedInv /\ LostInv
    BY DEF IInv
  <2>2. /\ DOMAIN handed = 1 .. Len(handed) /\ Len(handed) \in Nat /\ Len(frames) \in Nat
        /\ \A m \in 0 .. Len(handed) : HandedTo(m) \in 0 .. Len(frames)
    BY <2>1, HandedFacts DEF TypeInv
  <2>3. ASSUME NEW m \in DOMAIN handed
        PROVE  HandedTo(m) \in HandedTo(m - 1) + 1 .. Len(frames)
    <3>1. HandedTo(m) \in 1 .. Len(frames) /\ HandedTo(m - 1) < HandedTo(m)
      BY <2>1, <2>2 DEF HandedInv
    <3>2. HandedTo(m - 1) \in 0 .. Len(frames)
      BY <2>2
    <3> QED
      BY <2>2, <3>1, <3>2
  <2> QED
    BY <2>1, <2>2, <2>3 DEF HandedAsSent, HandedInv, LostInv
<1> QED
    BY <1>1, Invariance, PTL

\* No read of whole pieces waits for bytes that are not to come: when all that was
\* sent has arrived and it still has room, every message has been handed on.
ReadsAreDue ==
    at = "reading" /\ ~pieces /\ Room # 0 /\ received = SentBytes => AllHanded

THEOREM NoReadInVain == Spec => []ReadsAreDue
<1>1. IInv => ReadsAreDue
  <2> SUFFICES ASSUME IInv, at = "reading", ~pieces, Room # 0, received = SentBytes
               PROVE  AllHanded
    BY DEF ReadsAreDue
  <2>1. /\ TypeInv /\ FramesInv /\ HandedInv /\ ParserInv
        /\ Buffered = 0 /\ mCurrentMessageSize = Takes
    BY DEF IInv, ReadInv
  <2>2. /\ Len(frames) \in Nat /\ DOMAIN frames = 1 .. Len(frames)
        /\ \A i \in 1 .. Len(frames) : frames[i] \in Frames
        /\ SentBytes = IF Len(frames) = 0 THEN 0 ELSE End(frames[Len(frames)])
    BY <2>1, FramesAreSent
  <2>3. consumed = SentBytes /\ Takes \in Nat /\ Takes # 0
    BY <2>1, TakesSome, Sizes DEF TypeInv, Buffered, Room, Lesser
  <2>4. PICK i \in 0 .. Len(frames) : Parsed(i) /\ Collected(i)
    BY <2>1 DEF ParserInv
  <2>5. mReceiveState = "START"
    <3> SUFFICES ASSUME mReceiveState # "START"
                 PROVE  FALSE
      OBVIOUS
    <3>1. i + 1 \in 1 .. Len(frames) /\ mReceiveState \in States
      BY <2>1, <2>4 DEF Parsed, TypeInv
    <3> DEFINE f == frames[i + 1]
    <3>2. /\ f.start \in Nat /\ f.length \in Nat
          /\ Payload(f) \in Nat /\ End(f) \in Nat
          /\ f.start + 6 <= Payload(f)
          /\ End(f) = Payload(f) + f.length
          /\ End(f) <= SentBytes
      BY <2>1, <3>1, FramePlace, FrameEnds
    <3> HIDE DEF f
    <3>3. PICK start \in Nat, length \in Nat, payload \in Nat :
             /\ start = f.start /\ length = f.length /\ payload = Payload(f)
             /\ End(f) = payload + length /\ start + 6 <= payload
      BY <3>2
    <3>4. PICK c \in Nat, t \in Nat : c = consumed /\ t = Takes
      BY <2>1, <2>3 DEF TypeInv
    <3>5. c + t <= payload + length
      <4>1. CASE mReceiveState \in {"LENGTH", "LENGTH_X1"}
        <5>1. t \in 1 .. 2 /\ c \in {start + 1, start + 2}
          BY <2>4, <3>3, <3>4, <4>1 DEF Parsed, Takes, f
        <5>2. start + 6 <= payload /\ start \in Nat /\ payload \in Nat /\ length \in Nat
          BY <3>3
        <5> QED
          BY <5>1, <5>2
      <4>2. CASE mReceiveState = "LENGTH_X2"
        <5>1. t = 8 /\ c = start + 2 /\ LengthBytes(f.length) = 8
          BY <2>4, <3>3, <3>4, <4>2 DEF Parsed, Takes, f
        <5>2. payload = start + 2 + 8 + 4
          BY <3>3, <5>1 DEF Payload
        <5>3. start \in Nat /\ length \in Nat
          BY <3>3
        <5>4. t = 8 /\ c = start + 2
          BY <5>1
        <5> QED
          BY <5>2, <5>3, <5>4
      <4>3. CASE mReceiveState = "MASKING_KEY"
        <5>1. t = 4 /\ c + 4 = payload
          BY <2>4, <3>3, <3>4, <4>3 DEF Parsed, Takes, f
        <5> QED
          BY <5>1
      <4>4. CASE mReceiveState = "PAYLOAD"
        <5>1. t = length /\ c = payload
          BY <2>4, <3>3, <3>4, <4>4 DEF Parsed, Takes, f
        <5> QED
          BY <5>1
      <4> QED
        BY <3>1, <4>1, <4>2, <4>3, <4>4 DEF States
    <3>6. c + t <= c /\ t # 0
      BY <2>3, <3>2, <3>3, <3>4, <3>5
    <3> QED
      BY <3>4, <3>6
  <2>6. i = Len(frames)
    <3> SUFFICES ASSUME i # Len(frames)
                 PROVE  FALSE
      OBVIOUS
    <3>1. i + 1 \in 1 .. Len(frames) /\ consumed = IF i = 0 THEN 0 ELSE End(frames[i])
      <4>1. Len(frames) \in Nat
        BY <2>2
      <4>2. i + 1 \in 1 .. Len(frames)
        BY <4>1
      <4> QED
        BY <2>4, <2>5, <4>2 DEF Parsed
    <3>2. frames[i + 1].start = IF i + 1 = 1 THEN 0 ELSE End(frames[(i + 1) - 1])
      BY <2>1, <3>1 DEF FramesInv
    <3>3. frames[i + 1].start = consumed
      BY <3>1, <3>2
    <3>4. /\ frames[i + 1].start \in Nat /\ frames[i + 1].length \in Nat
          /\ Payload(frames[i + 1]) \in Nat
          /\ frames[i + 1].start + 6 <= Payload(frames[i + 1])
          /\ End(frames[i + 1]) = Payload(frames[i + 1]) + frames[i + 1].length
          /\ End(frames[i + 1]) <= SentBytes
      BY <2>1, <3>1, FramePlace, FrameEnds
    <3> QED
      BY <2>3, <3>3, <3>4
  <2>7. Handed \in 0 .. Len(frames)
    BY <2>1, HandedFacts
  <2> QED
    BY <2>2, <2>4, <2>6, <2>7 DEF AllHanded, Collected, Handed
<1> QED
    BY <1>1, Invariance, PTL
==============================================================================

------------------------------- MODULE Framing -------------------------------
(***************************************************************************)
(* The wire format: ProtobufCodecLite over net/Buffer, as IMCodec uses it. *)
(* Frames are put together in an empty Buffer (fillEmptyBuffer), the       *)
(* socket hands them over in pieces of any size (Buffer::readFd), and      *)
(* onMessage takes them apart again.                                       *)
(*                                                                         *)
(* A cell stands for some bytes: two for the length, one for the tag, one  *)
(* for the checksum, any number for the message.  A Buffer is its size,    *)
(* readerIndex, readable cells, and whether its assertions have held.      *)
(*                                                                         *)
(* History variables: sent, built, delivered.                              *)
(***************************************************************************)
EXTENDS Integers, Sequences

CONSTANTS
  CheapPrepend, InitialSize, \* of Buffer
  ExtraBuf,    \* readFd's buffer on the stack
  MaxLen,      \* kMaxMessageLen
  BodySizes,   \* sizes of messages
  Damages,     \* damaged frames: "short", "long", "sum", "tag", "body"
  MaxFrames    \* bound: frames

VARIABLES
  input,      \* the connection's inputBuffer_
  ahead,      \* cells on the way, not read yet
  decoding,   \* inside onMessage
  shut,       \* the error callback shut the connection down
  sent,       \* history: the frames sent, <<"ok", body>> or <<"damaged", how>>
  built,      \* history: every assertion held while frames were put together
  delivered   \* history: bodies handed to the message callback

framingVars == <<input, ahead, decoding, shut, sent, built, delivered>>

-----------------------------------------------------------------------------
(* net/Buffer *)

New == [size |-> CheapPrepend + InitialSize, r |-> CheapPrepend, data |-> <<>>, ok |-> TRUE]

WriterIndex(b) == b.r + Len(b.data)
Writable(b) == b.size - WriterIndex(b)
Check(b, cond) == [b EXCEPT !.ok = @ /\ cond]

TooSmall(b, n) == Writable(b) + b.r < n + CheapPrepend

\* makeSpace: grow, or move the readable cells to the front.
MakeSpace(b, n) ==
  IF TooSmall(b, n) THEN [b EXCEPT !.size = WriterIndex(b) + n]
  ELSE [Check(b, CheapPrepend < b.r) EXCEPT !.r = CheapPrepend]

EnsureWritable(b, n) ==
  LET c == IF Writable(b) < n THEN MakeSpace(b, n) ELSE b
  IN Check(c, Writable(c) >= n)

AppendCells(b, s) == LET c == EnsureWritable(b, Len(s)) IN [c EXCEPT !.data = @ \o s]

Prepend(b, s) ==
  [Check(b, Len(s) <= b.r) EXCEPT !.r = @ - Len(s), !.data = s \o @]

\* retrieve, which becomes retrieveAll when nothing is left.
Retrieve(b, n) ==
  IF n < Len(b.data)
  THEN [b EXCEPT !.r = @ + n, !.data = SubSeq(@, n + 1, Len(@))]
  ELSE [Check(b, n = Len(b.data)) EXCEPT !.r = CheapPrepend, !.data = <<>>]

\* readFd: what does not fit goes through extrabuf and is appended.
ReadFd(b, s) ==
  IF Len(s) <= Writable(b) THEN [b EXCEPT !.data = @ \o s]
  ELSE AppendCells([b EXCEPT !.data = @ \o SubSeq(s, 1, Writable(b))],
                   SubSeq(s, Writable(b) + 1, Len(s)))

-----------------------------------------------------------------------------
(* Putting a frame together *)

HeaderLen == 2
TagLen == 1
ChecksumLen == 1
MinLen == TagLen + ChecksumLen

Header(n) == <<<<"len", n, 1>>, <<"len", n, 2>>>>
Tag == <<<<"tag">>>>
Checksum(s) == <<<<"sum", s>>>>
Body(f, n) == [i \in 1 .. n |-> <<"body", f, i, n>>]

\* fillEmptyBuffer: tag, message, checksum, and the length in front.
FillEmptyBuffer(body) ==
  LET a == AppendCells(New, Tag)
      b == EnsureWritable(a, Len(body) + ChecksumLen)
      c == [b EXCEPT !.data = @ \o body]
      d == AppendCells(c, Checksum(c.data))
  IN Prepend(d, Header(Len(d.data)))

\* A frame that another program, or a broken one, puts on the wire.
Damaged(damage, body) ==
  LET bare == CASE damage = "tag"  -> <<<<"gat">>>> \o body
                [] damage = "body" -> Tag \o <<<<"junk">>>>
                [] OTHER           -> Tag \o body
      sum  == IF damage = "sum" THEN <<<<"mus">>>> ELSE Checksum(bare)
      n    == CASE damage = "short" -> MinLen - 1
                [] damage = "long"  -> MaxLen + 1
                [] OTHER            -> Len(bare) + ChecksumLen
  IN Header(n) \o bare \o sum

-----------------------------------------------------------------------------
(* Actions *)

Init ==
  /\ input = New
  /\ ahead = <<>> /\ sent = <<>> /\ delivered = <<>>
  /\ decoding = FALSE /\ shut = FALSE /\ built = TRUE

\* IMCodec::send, or sendRaw of a cached container.
SendFrame(n) ==
  LET body == Body(Len(sent) + 1, n)
      b == FillEmptyBuffer(body)
  IN /\ Len(sent) < MaxFrames
     /\ ahead' = ahead \o b.data
     /\ sent' = Append(sent, <<"ok", body>>)
     /\ built' = (built /\ b.ok)
     /\ UNCHANGED <<input, decoding, shut, delivered>>

SendDamaged(n, damage) ==
  /\ Len(sent) < MaxFrames
  /\ ahead' = ahead \o Damaged(damage, Body(Len(sent) + 1, n))
  /\ sent' = Append(sent, <<"damaged", damage>>)
  /\ UNCHANGED <<input, decoding, shut, built, delivered>>

\* handleRead: some of the cells, then OnRead and onMessage.
Read(n) ==
  /\ ~ decoding
  /\ n <= Writable(input) + (IF Writable(input) < ExtraBuf THEN ExtraBuf ELSE 0)
  /\ input' = ReadFd(input, SubSeq(ahead, 1, n))
  /\ ahead' = SubSeq(ahead, n + 1, Len(ahead))
  /\ decoding' = TRUE
  /\ UNCHANGED <<shut, sent, built, delivered>>

\* peekInt32
PeekInt32(b) ==
  IF b.data[1][1] = "len" /\ b.data[2] = <<"len", b.data[1][2], 2>> THEN b.data[1][2] ELSE -1

\* parse: checksum, tag, message.
Parse(s) ==
  LET bare == SubSeq(s, 1, Len(s) - ChecksumLen)
      body == SubSeq(bare, TagLen + 1, Len(bare))
  IN IF SubSeq(s, Len(s), Len(s)) # Checksum(bare) THEN "CheckSumError"
     ELSE IF SubSeq(bare, 1, TagLen) # Tag THEN "UnknownMessageType"
     ELSE IF \E i \in 1 .. Len(body) : body[i][1] # "body" THEN "ParseError"
     ELSE "NoError"

Complete == Len(input.data) >= HeaderLen + PeekInt32(input)
Whole == SubSeq(input.data, HeaderLen + 1, HeaderLen + PeekInt32(input))

HasHeader == Len(input.data) >= MinLen + HeaderLen
BadLength == PeekInt32(input) > MaxLen \/ PeekInt32(input) < MinLen

FrameLen == HeaderLen + PeekInt32(input)

\* A frame is whole and sound: the message callback, then retrieve.
Deliver ==
  /\ decoding /\ HasHeader /\ ~ BadLength /\ Complete
  /\ Parse(Whole) = "NoError"
  /\ delivered' = Append(delivered, SubSeq(Whole, TagLen + 1, Len(Whole) - ChecksumLen))
  /\ input' = Retrieve(input, FrameLen)
  /\ UNCHANGED <<decoding, ahead, shut, sent, built>>

\* Mutant: the bad frame is passed over, so that the next read goes on behind it.
Stops_Skips(b) == IF Len(b.data) < FrameLen THEN b ELSE Retrieve(b, FrameLen)

\* Nothing is taken out of the buffer.
Stops(b) == b

\* The error callback: shutdown, and the loop ends.
Reject ==
  /\ decoding /\ HasHeader
  /\ IF BadLength THEN TRUE ELSE Complete /\ Parse(Whole) # "NoError"
  /\ shut' = TRUE
  /\ input' = Stops(input)
  /\ decoding' = FALSE
  /\ UNCHANGED <<ahead, sent, built, delivered>>

\* Too little for a frame: onMessage returns.
NeedMore ==
  /\ decoding
  /\ ~ (HasHeader /\ (BadLength \/ Complete))
  /\ decoding' = FALSE
  /\ UNCHANGED <<input, ahead, shut, sent, built, delivered>>

Next ==
  \/ \E n \in BodySizes : SendFrame(n) \/ \E d \in Damages : SendDamaged(n, d)
  \/ \E n \in 1 .. Len(ahead) : Read(n)
  \/ Deliver \/ Reject \/ NeedMore

\* The loop polls again and the callback runs to its end.
Fairness ==
  /\ WF_framingVars(\E n \in 1 .. Len(ahead) : Read(n))
  /\ WF_framingVars(Deliver \/ Reject \/ NeedMore)

Spec == Init /\ [][Next]_framingVars /\ Fairness

-----------------------------------------------------------------------------
(* Properties *)

\* Frames before the first damaged one.
Sound == CHOOSE k \in 0 .. Len(sent) :
  /\ \A i \in 1 .. k : sent[i][1] = "ok"
  /\ k < Len(sent) => sent[k + 1][1] = "damaged"

\* However the stream is cut, the messages delivered are the ones sent, in
\* order, each once, and none from behind a damaged frame.
FramesInOrder ==
  /\ Len(delivered) <= Sound
  /\ \A i \in 1 .. Len(delivered) : delivered[i] = sent[i][2]

\* No assertion of Buffer fails while frames are put together, read and
\* retrieved, and the indices stay within the buffer.
BufferSound ==
  /\ input.ok /\ built
  /\ CheapPrepend <= input.r /\ WriterIndex(input) <= input.size

\* Every sound frame ahead of the first damaged one is delivered: no frame waits
\* in the buffer for a read that never comes.
FrameIsDelivered == Len(delivered) < Sound ~> Len(delivered) = Sound

\* ProtobufCodecLite and Buffer: of any cut and damaged stream the sound frames
\* are delivered in order, and no assertion of Buffer fails.
FramingSound ==
  /\ FramesInOrder
  /\ BufferSound
=============================================================================

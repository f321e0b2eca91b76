-------------------------------- MODULE Frame --------------------------------
(***************************************************************************)
(* The framing of messages on a byte stream (src/src/frame.rs) and the     *)
(* loop that reads frames from a connection (use_reader of client.rs and   *)
(* client_sync.rs; spawn_reader of server.rs has the same loop).           *)
(*                                                                         *)
(* The stream delivers the bytes written to it in order, in chunks of any  *)
(* size, so frames are split and merged arbitrarily.  Bytes are numbers;   *)
(* the sizes of the code (1024-byte buffer, 255-byte small messages) are   *)
(* constants, and a byte of a large length counts in base SmallMax + 1.    *)
(***************************************************************************)
EXTENDS Integers, Sequences, SequencesExt

CONSTANTS
  BufSize,     \* BUF_SIZE
  MaxBufSize,  \* MAX_BUF_SIZE
  SmallMax,    \* u8::MAX, the longest payload of a small frame
  Sizes,       \* the payload lengths the peer uses: frame_message panics above u32::MAX
  MaxSent,     \* bound: messages the peer sends
  MaxBeats     \* bound: heartbeats the peer sends

ASSUME FrameAssumption ==
  /\ BufSize \in Nat \ {0} /\ MaxBufSize \in Nat \ {0} /\ SmallMax \in Nat \ {0}
  /\ Sizes \subseteq 0..((SmallMax + 1) * (SmallMax + 1) * (SmallMax + 1) * (SmallMax + 1) - 1)
  /\ MaxSent \in Nat /\ MaxBeats \in Nat

VARIABLES
  buffer,     \* Frame::buffer, its len() many bytes
  capacity,   \* of that Vec
  bytesRead,  \* Frame::bytes_read
  reader,     \* the loop: "read", "parse", or how it ended: "done", "panicked"
  wire,       \* bytes written and not yet read
  link,       \* "open", "closed" by the peer after its last byte, or "broken"
  sent,       \* payloads the peer has sent
  got,        \* payloads the loop has produced
  beats       \* heartbeats the peer has sent

frame == <<buffer, capacity, bytesRead>>
peer == <<wire, link, sent, beats>>
vars == <<buffer, capacity, bytesRead, reader, wire, link, sent, got, beats>>

-----------------------------------------------------------------------------
(* Frames                                                                  *)

Unset == 0
Small == 1
Large == 2
Heartbeat == 42

Base == SmallMax + 1

\* put_u32 and u32::from_be_bytes.
High(n) == n \div Base
ToBigEndian(n) == <<High(High(High(n))), High(High(n)) % Base, High(n) % Base, n % Base>>
FromBigEndian(b) == ((b[1] * Base + b[2]) * Base + b[3]) * Base + b[4]

\* Frame::frame_message.
FrameMessage(data) ==
  IF Len(data) <= SmallMax
  THEN <<Small, Len(data)>> \o data
  ELSE <<Large>> \o ToBigEndian(Len(data)) \o data

\* Vec::resize, filling with zeroes.
Resize(v, n) ==
  [i \in 1..n |-> IF i <= Len(v) THEN v[i] ELSE 0]

\* The capacity after Vec grows to n: doubled at least.
Reserve(cap, n) == IF n <= cap THEN cap ELSE IF n <= 2 * cap THEN 2 * cap ELSE n

\* Mutant: a header needs a byte more than it has.
HasRangeLate(header) == bytesRead > (IF header = Small THEN 2 ELSE 5)

\* Frame::range: the offset of the payload and its end, once its header is read.
HeaderLen(header) == IF header = Small THEN 2 ELSE 5
HasRange(header) == bytesRead >= HeaderLen(header)
RangeEnd(header) ==
  HeaderLen(header) + (IF header = Small THEN buffer[2] ELSE FromBigEndian(SubSeq(buffer, 2, 5)))

-----------------------------------------------------------------------------
(* Reading                                                                 *)

Full == bytesRead = Len(buffer)

\* Mutant: only an empty buffer is given room.
GrowsOnce == Full /\ buffer = <<>>

\* Mutant: the limit on the capacity is not checked.
GrowsUnbounded == Full

\* Frame::available_slice_mut grows a full buffer, up to a limit.
Grows == Full /\ capacity < MaxBufSize

Grown == IF Grows THEN Resize(buffer, Len(buffer) + BufSize) ELSE buffer
GrownCapacity == IF Grows THEN Reserve(capacity, Len(buffer) + BufSize) ELSE capacity

\* Mutant: the buffer is shrunk while it still holds more.
ShrunkTooSoon(v, n, cap) == IF cap > BufSize THEN Resize(v, BufSize) ELSE v

\* The end of read: n bytes, or none, are now in the buffer v.
Shrunk(v, n, cap) == IF n < BufSize /\ cap > BufSize THEN Resize(v, BufSize) ELSE v

\* Frame::read_async / read and inner_read, n bytes being available.
Read(n) ==
  /\ reader = "read"
  /\ n \in 1..Len(wire)
  /\ n <= Len(Grown) - bytesRead
  /\ LET filled == [i \in DOMAIN Grown |->
           IF i > bytesRead /\ i <= bytesRead + n THEN wire[i - bytesRead] ELSE Grown[i]] IN
       buffer' = Shrunk(filled, bytesRead + n, GrownCapacity)
  /\ capacity' = GrownCapacity
  /\ bytesRead' = bytesRead + n
  /\ wire' = SubSeq(wire, n + 1, Len(wire))
  /\ reader' = "parse"
  /\ UNCHANGED <<link, sent, got, beats>>

\* Ok(0): the end of the stream, and also a read into an empty slice.
ReadNothing ==
  /\ reader = "read"
  /\ (link = "closed" /\ wire = <<>>) \/ Len(Grown) = bytesRead
  /\ buffer' = Grown /\ capacity' = GrownCapacity
  /\ reader' = "done"
  /\ UNCHANGED <<bytesRead, got>> /\ UNCHANGED peer

\* The read fails.
ReadFailed ==
  /\ reader = "read" /\ link = "broken"
  /\ buffer' = Grown /\ capacity' = GrownCapacity
  /\ reader' = "done"
  /\ UNCHANGED <<bytesRead, got>> /\ UNCHANGED peer

-----------------------------------------------------------------------------
(* Frame::try_msg, called until it has no message                          *)

Parsing(header) ==
  /\ reader = "parse" /\ bytesRead > 0
  /\ buffer[1] = header
  /\ UNCHANGED peer

\* The payload, or even its length, is not there yet.
Incomplete(header) == HasRange(header) => RangeEnd(header) > bytesRead

TryNothing ==
  /\ reader = "parse"
  /\ \/ bytesRead = 0
     \/ \E h \in {Small, Large} : bytesRead > 0 /\ buffer[1] = h /\ Incomplete(h)
  /\ reader' = "read"
  /\ UNCHANGED <<frame, got>> /\ UNCHANGED peer

\* A heartbeat is dropped from the END of what was read.
TryHeartbeat ==
  /\ Parsing(Heartbeat)
  /\ bytesRead' = bytesRead - 1
  /\ UNCHANGED <<buffer, capacity, reader, got>>

\* Mutant: the rest of the buffer is not moved to its front.
ShiftNothing(end) == buffer

\* Frame::shift_down: what follows the frame moves to the front.
ShiftDown(end) ==
  [i \in DOMAIN buffer |-> IF i <= bytesRead - end THEN buffer[end + i] ELSE buffer[i]]

TryMessage ==
  \E h \in {Small, Large} :
    LET end == RangeEnd(h)
        rest == bytesRead - end IN
    /\ Parsing(h) /\ ~Incomplete(h)
    /\ got' = Append(got, SubSeq(buffer, HeaderLen(h) + 1, end))
    /\ bytesRead' = rest
    /\ buffer' = IF rest <= BufSize /\ capacity > BufSize
                 THEN Resize(ShiftDown(end), BufSize) ELSE ShiftDown(end)
    /\ UNCHANGED <<capacity, reader>>

\* Err(MalformedHeader) ends the loop; an Unset header is unreachable!().
TryMalformed ==
  /\ reader = "parse" /\ bytesRead > 0
  /\ buffer[1] \notin {Small, Large, Heartbeat}
  /\ reader' = IF buffer[1] = Unset THEN "panicked" ELSE "done"
  /\ UNCHANGED <<frame, got>> /\ UNCHANGED peer

-----------------------------------------------------------------------------
(* The peer                                                                *)

\* The payload of the k-th message; its bytes are no header.
Payload(k, n) == [i \in 1..n |-> 100 + k]

WriteMessage(n) ==
  /\ link = "open" /\ Len(sent) < MaxSent
  /\ sent' = Append(sent, Payload(Len(sent) + 1, n))
  /\ wire' = wire \o FrameMessage(Payload(Len(sent) + 1, n))
  /\ UNCHANGED <<frame, reader, link, got, beats>>

WriteHeartbeat ==
  /\ link = "open" /\ beats < MaxBeats
  /\ beats' = beats + 1
  /\ wire' = Append(wire, Heartbeat)
  /\ UNCHANGED <<frame, reader, link, sent, got>>

CloseLink ==
  /\ link = "open"
  /\ link' \in {"closed", "broken"}
  /\ UNCHANGED <<frame, reader, wire, sent, got, beats>>

-----------------------------------------------------------------------------
ReaderStep ==
  \/ \E n \in 1..Len(wire) : Read(n)
  \/ ReadNothing \/ ReadFailed
  \/ TryNothing \/ TryHeartbeat \/ TryMessage \/ TryMalformed

PeerStep == (\E n \in Sizes : WriteMessage(n)) \/ WriteHeartbeat \/ CloseLink

Init ==
  /\ buffer = <<>> /\ capacity = BufSize /\ bytesRead = 0
  /\ reader = "read"
  /\ wire = <<>> /\ link = "open"
  /\ sent = <<>> /\ got = <<>> /\ beats = 0

Next == ReaderStep \/ PeerStep

Spec == Init /\ [][Next]_vars

\* The runtime polls the reading task whenever it can read.
FairSpec == Spec /\ WF_vars(ReaderStep)

-----------------------------------------------------------------------------
(* Properties                                                              *)

\* The types, and the bounds that keep the indexing and the pointer copy of
\* shift_down inside the buffer.
TypeOK ==
  /\ buffer \in Seq(Nat) /\ wire \in Seq(Nat)
  /\ capacity \in Nat /\ bytesRead \in Nat /\ beats \in Nat
  /\ bytesRead <= Len(buffer) /\ Len(buffer) <= capacity
  /\ reader \in {"read", "parse", "done", "panicked"}
  /\ link \in {"open", "closed", "broken"}
  /\ sent \in Seq(Seq(Nat)) /\ got \in Seq(Seq(Nat))

\* Whatever is sent, the buffer does not outgrow the limit by more than one step.
BufferBounded == Len(buffer) < MaxBufSize + BufSize

\* The frames of the messages sent and not yet produced.
Missing == [i \in 1..(Len(sent) - Len(got)) |-> FrameMessage(sent[Len(got) + i])]

\* Nothing is lost, cut or merged on the way, however the stream is chunked: the
\* bytes in the buffer and on the wire are exactly the frames of the messages
\* sent and not yet produced.
NothingLost == SubSeq(buffer, 1, bytesRead) \o wire = FlattenSeq(Missing)

\* The messages produced are those sent, whole and in order: the Frame "is able
\* to separate these messages" (frame.rs:58).
InOrder == IsPrefix(got, sent)

\* The reading loop ends only at the end of the stream or with an error of it.
ReadsToTheEnd ==
  reader = "done" => \/ link = "broken"
                     \/ link = "closed" /\ wire = <<>> /\ bytesRead = 0

\* The framed stream behaves as a pipe of messages.
Messages == {Payload(k, n) : k \in 1..MaxSent, n \in Sizes}
P == INSTANCE Pipe WITH Message <- Messages
IsPipe == P!PipeSpec

\* Every message sent is produced, unless the connection breaks.
AllArrive ==
  \A k \in 1..MaxSent : Len(sent) >= k ~> Len(got) >= k \/ link = "broken"
=============================================================================

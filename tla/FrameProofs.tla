----------------------------- MODULE FrameProofs -----------------------------
(***************************************************************************)
(* Proofs about Frame, for any sizes of the buffer, any number of messages *)
(* and any way the stream is cut: the types and bounds, and, as long as no *)
(* heartbeat is sent, that the framed stream is a pipe of messages.        *)
(***************************************************************************)
EXTENDS Frame, SequenceLemmas

-----------------------------------------------------------------------------
(* Frames                                                                  *)

\* A number is its last byte and the rest.
LEMMA HighLow ==
  ASSUME NEW n \in Nat
  PROVE  High(n) \in Nat /\ n % Base \in 0..SmallMax /\ High(n) * Base + (n % Base) = n
<1>1. Base \in Nat /\ Base > 0 
  BY FrameAssumption DEF Base
<1>2. n \div Base \in Int /\ n % Base \in 0..(Base - 1) /\ (n \div Base) * Base + (n % Base) = n 
  BY <1>1
<1>3. n \div Base \in Nat
  BY <1>1
<1>4. 0..(Base - 1) = 0..SmallMax
  BY FrameAssumption DEF Base
<1>. QED BY <1>2, <1>3, <1>4 DEF High

\* from_be_bytes undoes put_u32.
LEMMA BigEndian ==
  ASSUME NEW n \in Nat
  PROVE  /\ ToBigEndian(n) \in Seq(Nat) /\ Len(ToBigEndian(n)) = 4
         /\ FromBigEndian(ToBigEndian(n)) = n
<1>. DEFINE a == High(n)
            b == High(a)
            c == High(b)
<1>1. Base \in Nat
  BY FrameAssumption DEF Base
<1>2. a \in Nat /\ n % Base \in Nat /\ a * Base + (n % Base) = n
  BY HighLow
<1>3. b \in Nat /\ a % Base \in Nat /\ b * Base + (a % Base) = a
  BY <1>2, HighLow
<1>4. c \in Nat /\ b % Base \in Nat /\ c * Base + (b % Base) = b
  BY <1>3, HighLow
<1>5. ToBigEndian(n) = <<c, b % Base, a % Base, n % Base>>
  BY DEF ToBigEndian
<1>. HIDE DEF a, b, c
<1>6. ToBigEndian(n) \in Seq(Nat) /\ Len(ToBigEndian(n)) = 4
  BY <1>2, <1>3, <1>4, <1>5
<1>7. FromBigEndian(ToBigEndian(n)) = ((c * Base + (b % Base)) * Base + (a % Base)) * Base + (n % Base)
  BY <1>5 DEF FromBigEndian
<1>. QED BY <1>2, <1>3, <1>4, <1>6, <1>7

\* The header a message gets.
HeaderOf(data) == IF Len(data) <= SmallMax THEN Small ELSE Large

\* What a frame holds, and where.
LEMMA FrameShape ==
  ASSUME NEW data \in Seq(Nat)
  PROVE  /\ FrameMessage(data) \in Seq(Nat)
         /\ Len(FrameMessage(data)) = HeaderLen(HeaderOf(data)) + Len(data)
         /\ FrameMessage(data)[1] = HeaderOf(data)
         /\ HeaderOf(data) = Small => FrameMessage(data)[2] = Len(data)
         /\ HeaderOf(data) = Large =>
              \A i \in 1..4 : FrameMessage(data)[i + 1] = ToBigEndian(Len(data))[i]
         /\ \A i \in 1..Len(data) : FrameMessage(data)[HeaderLen(HeaderOf(data)) + i] = data[i]
<1>1. Len(data) \in Nat /\ SmallMax \in Nat
  BY LenProperties, FrameAssumption
<1>. DEFINE w == FrameMessage(data)
<1>2. CASE Len(data) <= SmallMax
  <2>. DEFINE t == <<Small, Len(data)>>
  <2>1. t \in Seq(Nat) /\ Len(t) = 2 /\ t[1] = Small /\ t[2] = Len(data)
    BY <1>1 DEF Small
  <2>2. w = t \o data
    BY <1>2 DEF FrameMessage
  <2>3. HeaderOf(data) = Small /\ HeaderLen(HeaderOf(data)) = 2 /\ HeaderOf(data) # Large
    BY <1>2 DEF HeaderOf, HeaderLen, Small, Large
  <2>. HIDE DEF t, w
  <2>4. /\ w \in Seq(Nat) /\ Len(w) = 2 + Len(data)
        /\ \A i \in 1..2 : w[i] = t[i]
        /\ \A i \in 1..Len(data) : w[2 + i] = data[i]
    <3>1. w \in Seq(Nat) /\ Joins(w, t, data)
      BY <2>1, <2>2, ConcatJoins
    <3>. QED BY <2>1, <3>1 DEF Joins
  <2>5. w[1] = Small /\ w[2] = Len(data)
    BY <2>1, <2>4
  <2>. QED BY <2>3, <2>4, <2>5 DEF w
<1>3. CASE ~(Len(data) <= SmallMax)
  <2>. DEFINE b == ToBigEndian(Len(data))
              u == <<Large>>
              t == u \o b
  <2>1. b \in Seq(Nat) /\ Len(b) = 4
    BY <1>1, BigEndian
  <2>2. u \in Seq(Nat) /\ Len(u) = 1 /\ u[1] = Large
    BY DEF Large
  <2>3. w = t \o data
    BY <1>3 DEF FrameMessage
  <2>4. HeaderOf(data) = Large /\ HeaderLen(HeaderOf(data)) = 5 /\ HeaderOf(data) # Small
    BY <1>3 DEF HeaderOf, HeaderLen, Small, Large
  <2>5. t = u \o b
    OBVIOUS
  <2>. HIDE DEF b, t, u, w
  <2>6. t \in Seq(Nat) /\ Len(t) = 5 /\ t[1] = u[1] /\ \A i \in 1..4 : t[1 + i] = b[i]
    <3>1. t \in Seq(Nat) /\ Joins(t, u, b)
      BY <2>1, <2>2, <2>5, ConcatJoins
    <3>. QED BY <2>1, <2>2, <3>1 DEF Joins
  <2>7. /\ w \in Seq(Nat) /\ Len(w) = 5 + Len(data)
        /\ \A i \in 1..5 : w[i] = t[i]
        /\ \A i \in 1..Len(data) : w[5 + i] = data[i]
    <3>1. w \in Seq(Nat) /\ Joins(w, t, data)
      BY <2>3, <2>6, ConcatJoins
    <3>. QED BY <2>6, <3>1 DEF Joins
  <2>8. w[1] = Large
    BY <2>2, <2>6, <2>7
  <2>9. ASSUME NEW i \in 1..4 PROVE w[i + 1] = b[i]
    <3>1. i + 1 \in 1..5 /\ 1 + i = i + 1
      OBVIOUS
    <3>. QED BY <2>6, <2>7, <3>1
  <2>. QED BY <2>4, <2>7, <2>8, <2>9 DEF b, w
<1>. QED BY <1>2, <1>3

-----------------------------------------------------------------------------
(* The buffer                                                              *)

\* A resized buffer has the length asked for and keeps what fits.
LEMMA ResizeProperties ==
  ASSUME NEW v \in Seq(Nat), NEW n \in Nat
  PROVE  /\ Resize(v, n) \in Seq(Nat) /\ Len(Resize(v, n)) = n
         /\ \A i \in 1..n : i <= Len(v) => Resize(v, n)[i] = v[i]
<1>1. Len(v) \in Nat /\ \A i \in 1..Len(v) : v[i] \in Nat
  BY LenProperties, ElementOfSeq
<1>2. Resize(v, n) \in [1..n -> Nat]
  BY <1>1 DEF Resize
<1>3. \A i \in 1..n : i <= Len(v) => Resize(v, n)[i] = v[i]
  BY DEF Resize
<1>. QED BY <1>2, <1>3, FunctionIsSeq

\* Room is made without moving what the buffer holds: the buffer never shrinks
\* there, and a full one below the limit gains BufSize bytes.
LEMMA GrownProperties ==
  ASSUME TypeOK
  PROVE  /\ Grown \in Seq(Nat) /\ GrownCapacity \in Nat
         /\ Len(Grown) = IF Grows THEN Len(buffer) + BufSize ELSE Len(buffer)
         /\ Len(Grown) <= GrownCapacity /\ capacity <= GrownCapacity
         /\ \A i \in 1..Len(buffer) : Grown[i] = buffer[i]
<1>1. /\ buffer \in Seq(Nat) /\ Len(buffer) \in Nat /\ capacity \in Nat /\ BufSize \in Nat
      /\ Len(buffer) <= capacity
  BY FrameAssumption, LenProperties DEF TypeOK
<1>2. CASE Grows
  <2>. DEFINE n == Len(buffer) + BufSize
  <2>1. n \in Nat /\ Len(buffer) <= n
    BY <1>1
  <2>2. Grown = Resize(buffer, n) /\ GrownCapacity = Reserve(capacity, n)
    BY <1>2 DEF Grown, GrownCapacity
  <2>. HIDE DEF n
  <2>3. Reserve(capacity, n) \in Nat /\ n <= Reserve(capacity, n) /\ capacity <= Reserve(capacity, n)
    BY <1>1, <2>1 DEF Reserve
  <2>4. /\ Resize(buffer, n) \in Seq(Nat) /\ Len(Resize(buffer, n)) = n
        /\ \A i \in 1..n : i <= Len(buffer) => Resize(buffer, n)[i] = buffer[i]
    BY <1>1, <2>1, ResizeProperties
  <2>5. \A i \in 1..Len(buffer) : i \in 1..n /\ i <= Len(buffer)
    BY <1>1, <2>1
  <2>6. \A i \in 1..Len(buffer) : Grown[i] = buffer[i]
    BY <2>2, <2>4, <2>5
  <2>. QED BY <1>2, <2>2, <2>3, <2>4, <2>6 DEF n
<1>3. CASE ~Grows
  BY <1>1, <1>3 DEF Grown, GrownCapacity
<1>. QED BY <1>2, <1>3

\* The end of a frame whose length is there is a position after its header.
LEMMA RangeProperties ==
  ASSUME TypeOK, NEW h \in {Small, Large}, HasRange(h)
  PROVE  RangeEnd(h) \in Nat /\ HeaderLen(h) \in {2, 5} /\ HeaderLen(h) <= RangeEnd(h)
<1>1. /\ buffer \in Seq(Nat) /\ bytesRead \in Nat /\ Len(buffer) \in Nat /\ bytesRead <= Len(buffer)
      /\ \A i \in 1..Len(buffer) : buffer[i] \in Nat
  BY LenProperties, ElementOfSeq DEF TypeOK
<1>2. Base \in Nat
  BY FrameAssumption DEF Base
<1>3. CASE h = Small
  <2>1. HeaderLen(h) = 2 /\ RangeEnd(h) = 2 + buffer[2]
    BY <1>3 DEF HeaderLen, RangeEnd
  <2>2. 2 \in 1..Len(buffer)
    BY <1>1, <2>1 DEF HasRange
  <2>. QED BY <1>1, <2>1, <2>2
<1>4. CASE h = Large
  <2>. DEFINE b == SubSeq(buffer, 2, 5)
  <2>1. HeaderLen(h) = 5 /\ RangeEnd(h) = 5 + FromBigEndian(b)
    BY <1>4 DEF HeaderLen, RangeEnd, Small, Large
  <2>2. \A i \in 2..5 : buffer[i] \in Nat
    BY <1>1, <2>1 DEF HasRange
  <2>3. b \in Seq(Nat) /\ Len(b) = 4
    BY <2>2, SubSeqProperties
  <2>. HIDE DEF b
  <2>4. b[1] \in Nat /\ b[2] \in Nat /\ b[3] \in Nat /\ b[4] \in Nat
    <3>1. \A i \in 1..Len(b) : b[i] \in Nat
      BY <2>3, ElementOfSeq
    <3>. QED BY <2>3, <3>1
  <2>5. FromBigEndian(b) \in Nat
    BY <1>2, <2>4 DEF FromBigEndian
  <2>. QED BY <2>1, <2>5
<1>. QED BY <1>3, <1>4

\* What is left after a frame of the buffer is at its front, at the same length.
LEMMA ShiftProperties ==
  ASSUME TypeOK, NEW end \in Nat, end <= bytesRead
  PROVE  /\ ShiftDown(end) \in Seq(Nat) /\ Len(ShiftDown(end)) = Len(buffer)
         /\ \A i \in 1..(bytesRead - end) : ShiftDown(end)[i] = buffer[end + i]
<1>1. /\ buffer \in Seq(Nat) /\ bytesRead \in Nat /\ Len(buffer) \in Nat /\ bytesRead <= Len(buffer)
      /\ \A i \in 1..Len(buffer) : buffer[i] \in Nat
      /\ DOMAIN buffer = 1..Len(buffer)
  BY LenProperties, ElementOfSeq DEF TypeOK
<1>2. ShiftDown(end) \in [1..Len(buffer) -> Nat]
  <2>1. \A i \in 1..Len(buffer) : i <= bytesRead - end => end + i \in 1..Len(buffer)
    BY <1>1
  <2>. QED BY <1>1, <2>1 DEF ShiftDown
<1>3. \A i \in 1..(bytesRead - end) : i \in 1..Len(buffer) /\ i <= bytesRead - end
  BY <1>1
<1>4. \A i \in 1..(bytesRead - end) : ShiftDown(end)[i] = buffer[end + i]
  BY <1>1, <1>3 DEF ShiftDown
<1>. QED BY <1>1, <1>2, <1>4, FunctionIsSeq

-----------------------------------------------------------------------------
(* The steps of the reader that move bytes                                 *)

\* A read appends the first n bytes of the wire to those in the buffer, inside it.
LEMMA ReadProperties ==
  ASSUME TypeOK, NEW n \in 1..Len(wire), Read(n)
  PROVE  /\ buffer' \in Seq(Nat) /\ capacity' = GrownCapacity
         /\ bytesRead' = bytesRead + n /\ bytesRead' <= Len(buffer') /\ Len(buffer') <= GrownCapacity
         /\ Len(buffer') <= Len(Grown) \/ Len(buffer') = BufSize
         /\ \A i \in 1..bytesRead : buffer'[i] = buffer[i]
         /\ \A i \in 1..n : buffer'[bytesRead + i] = wire[i]
         /\ wire' \in Seq(Nat) /\ wire' = SubSeq(wire, n + 1, Len(wire))
<1>. DEFINE filled == [i \in DOMAIN Grown |->
                        IF i > bytesRead /\ i <= bytesRead + n THEN wire[i - bytesRead] ELSE Grown[i]]
<1>1. /\ buffer \in Seq(Nat) /\ wire \in Seq(Nat) /\ bytesRead \in Nat /\ BufSize \in Nat
      /\ bytesRead <= Len(buffer) /\ Len(buffer) \in Nat /\ Len(wire) \in Nat /\ n \in Nat
      /\ n <= Len(wire) /\ \A i \in 1..Len(wire) : wire[i] \in Nat
  BY FrameAssumption, LenProperties, ElementOfSeq DEF TypeOK
<1>2. /\ Grown \in Seq(Nat) /\ Len(Grown) \in Nat /\ Len(buffer) <= Len(Grown)
      /\ DOMAIN Grown = 1..Len(Grown) /\ \A i \in 1..Len(Grown) : Grown[i] \in Nat
      /\ \A i \in 1..Len(buffer) : Grown[i] = buffer[i]
      /\ GrownCapacity \in Nat /\ Len(Grown) <= GrownCapacity
  BY <1>1, GrownProperties, LenProperties, ElementOfSeq, SMTT(30)
<1>3. /\ n <= Len(Grown) - bytesRead
      /\ buffer' = Shrunk(filled, bytesRead + n, GrownCapacity)
      /\ capacity' = GrownCapacity /\ bytesRead' = bytesRead + n
      /\ wire' = SubSeq(wire, n + 1, Len(wire))
  BY DEF Read
<1>4. /\ filled \in Seq(Nat) /\ Len(filled) = Len(Grown)
      /\ \A i \in 1..bytesRead : filled[i] = buffer[i]
      /\ \A i \in 1..n : filled[bytesRead + i] = wire[i]
  <2>1. filled \in [1..Len(Grown) -> Nat]
    <3>1. \A i \in 1..Len(Grown) : i > bytesRead /\ i <= bytesRead + n => i - bytesRead \in 1..Len(wire)
      BY <1>1, <1>2
    <3>. QED BY <1>1, <1>2, <3>1
  <2>2. ASSUME NEW i \in 1..bytesRead PROVE filled[i] = buffer[i]
    <3>1. i \in 1..Len(Grown) /\ ~(i > bytesRead) /\ i \in 1..Len(buffer)
      BY <1>1, <1>2
    <3>. QED BY <1>2, <3>1
  <2>3. ASSUME NEW i \in 1..n PROVE filled[bytesRead + i] = wire[i]
    <3>1. /\ bytesRead + i \in 1..Len(Grown) /\ bytesRead + i > bytesRead
          /\ bytesRead + i <= bytesRead + n /\ (bytesRead + i) - bytesRead = i
      BY <1>1, <1>2, <1>3
    <3>. QED BY <1>2, <3>1
  <2>. QED BY <1>2, <2>1, <2>2, <2>3, FunctionIsSeq
<1>. HIDE DEF filled
<1>5. /\ buffer' \in Seq(Nat) /\ bytesRead + n <= Len(buffer') /\ Len(buffer') <= GrownCapacity
      /\ Len(buffer') <= Len(Grown) \/ Len(buffer') = BufSize
      /\ \A i \in 1..(bytesRead + n) : buffer'[i] = filled[i]
  <2>1. CASE bytesRead + n < BufSize /\ GrownCapacity > BufSize
    <3>1. buffer' = Resize(filled, BufSize)
      BY <1>3, <2>1 DEF Shrunk
    <3>2. /\ Resize(filled, BufSize) \in Seq(Nat) /\ Len(Resize(filled, BufSize)) = BufSize
          /\ \A i \in 1..BufSize : i <= Len(filled) => Resize(filled, BufSize)[i] = filled[i]
      BY <1>1, <1>4, ResizeProperties
    <3>3. bytesRead + n \in Nat /\ bytesRead + n <= BufSize /\ bytesRead + n <= Len(filled)
      BY <1>1, <1>2, <1>3, <1>4, <2>1
    <3>4. ASSUME NEW i \in 1..(bytesRead + n) PROVE buffer'[i] = filled[i]
      <4>1. BufSize \in Nat /\ Len(filled) \in Nat
        BY <1>1, <1>4
      <4>2. i \in Nat /\ 1 <= i /\ i <= bytesRead + n
        BY <3>3
      <4>3. i \in 1..BufSize /\ i <= Len(filled)
        BY <3>3, <4>1, <4>2
      <4>. QED BY <3>1, <3>2, <4>3
    <3>5. Len(buffer') = BufSize /\ BufSize <= GrownCapacity /\ buffer' \in Seq(Nat)
      BY <1>1, <1>2, <2>1, <3>1, <3>2
    <3>. QED BY <3>3, <3>4, <3>5
  <2>2. CASE ~(bytesRead + n < BufSize /\ GrownCapacity > BufSize)
    BY <1>1, <1>2, <1>3, <1>4, <2>2 DEF Shrunk
  <2>. QED BY <2>1, <2>2
<1>6. wire' \in Seq(Nat)
  BY <1>1, <1>3, SubSeqProperties
<1>7. ASSUME NEW i \in 1..bytesRead PROVE buffer'[i] = buffer[i]
  BY <1>1, <1>4, <1>5
<1>8. ASSUME NEW i \in 1..n PROVE buffer'[bytesRead + i] = wire[i]
  <2>1. bytesRead + i \in 1..(bytesRead + n)
    BY <1>1
  <2>. QED BY <1>4, <1>5, <2>1
<1>. QED BY <1>3, <1>5, <1>6, <1>7, <1>8

\* A message is taken from the front of what was read, which keeps the rest.
LEMMA TakeProperties ==
  ASSUME TypeOK, TryMessage
  PROVE  \E h \in {Small, Large} :
           /\ reader = "parse" /\ bytesRead > 0 /\ buffer[1] = h /\ HasRange(h)
           /\ RangeEnd(h) <= bytesRead /\ bytesRead' = bytesRead - RangeEnd(h)
           /\ SubSeq(buffer, HeaderLen(h) + 1, RangeEnd(h)) \in Seq(Nat)
           /\ got' = Append(got, SubSeq(buffer, HeaderLen(h) + 1, RangeEnd(h)))
           /\ buffer' \in Seq(Nat) /\ bytesRead' <= Len(buffer') /\ Len(buffer') <= capacity
           /\ Len(buffer') <= Len(buffer) \/ Len(buffer') = BufSize
           /\ \A i \in 1..(bytesRead - RangeEnd(h)) : buffer'[i] = buffer[RangeEnd(h) + i]
           /\ UNCHANGED <<capacity, reader, wire, link, sent, beats>>
<1>1. PICK h \in {Small, Large} :
        /\ Parsing(h) /\ ~Incomplete(h)
        /\ got' = Append(got, SubSeq(buffer, HeaderLen(h) + 1, RangeEnd(h)))
        /\ bytesRead' = bytesRead - RangeEnd(h)
        /\ buffer' = IF bytesRead - RangeEnd(h) <= BufSize /\ capacity > BufSize
                     THEN Resize(ShiftDown(RangeEnd(h)), BufSize) ELSE ShiftDown(RangeEnd(h))
        /\ UNCHANGED <<capacity, reader>>
  BY Zenon DEF TryMessage
<1>2. /\ reader = "parse" /\ bytesRead > 0 /\ buffer[1] = h
      /\ UNCHANGED <<capacity, reader, wire, link, sent, beats>>
  BY <1>1 DEF Parsing, peer
<1>3. /\ buffer \in Seq(Nat) /\ bytesRead \in Nat /\ capacity \in Nat /\ BufSize \in Nat
      /\ Len(buffer) \in Nat /\ bytesRead <= Len(buffer) /\ Len(buffer) <= capacity
      /\ \A i \in 1..Len(buffer) : buffer[i] \in Nat
  BY FrameAssumption, LenProperties, ElementOfSeq DEF TypeOK
<1>4. HasRange(h) /\ ~(RangeEnd(h) > bytesRead)
  BY <1>1 DEF Incomplete
<1>. DEFINE end == RangeEnd(h)
            hl == HeaderLen(h)
            moved == ShiftDown(end)
<1>5. end \in Nat /\ hl \in Nat /\ end <= bytesRead
  BY <1>3, <1>4, RangeProperties
<1>6. /\ moved \in Seq(Nat) /\ Len(moved) = Len(buffer)
      /\ \A i \in 1..(bytesRead - end) : moved[i] = buffer[end + i]
  BY <1>5, ShiftProperties
<1>7. SubSeq(buffer, hl + 1, end) \in Seq(Nat)
  <2>1. \A i \in (hl + 1)..end : buffer[i] \in Nat
    BY <1>3, <1>5
  <2>. QED BY <1>5, <2>1, SubSeqProperties
<1>. HIDE DEF end, hl, moved
<1>8. /\ buffer' \in Seq(Nat) /\ bytesRead - end <= Len(buffer') /\ Len(buffer') <= capacity
      /\ Len(buffer') <= Len(buffer) \/ Len(buffer') = BufSize
      /\ \A i \in 1..(bytesRead - end) : buffer'[i] = moved[i]
  <2>1. CASE bytesRead - end <= BufSize /\ capacity > BufSize
    <3>1. buffer' = Resize(moved, BufSize)
      BY <1>1, <2>1 DEF moved, end
    <3>2. /\ Resize(moved, BufSize) \in Seq(Nat) /\ Len(Resize(moved, BufSize)) = BufSize
          /\ \A i \in 1..BufSize : i <= Len(moved) => Resize(moved, BufSize)[i] = moved[i]
      BY <1>3, <1>6, ResizeProperties
    <3>3. \A i \in 1..(bytesRead - end) : i \in 1..BufSize /\ i <= Len(moved)
      BY <1>3, <1>5, <1>6, <2>1
    <3>. QED BY <1>3, <2>1, <3>1, <3>2, <3>3
  <2>2. CASE ~(bytesRead - end <= BufSize /\ capacity > BufSize)
    <3>1. buffer' = moved
      BY <1>1, <2>2 DEF moved, end
    <3>. QED BY <1>3, <1>5, <1>6, <3>1
  <2>. QED BY <2>1, <2>2
<1>9. \A i \in 1..(bytesRead - end) : buffer'[i] = buffer[end + i]
  BY <1>6, <1>8
<1>10. bytesRead' = bytesRead - end /\ got' = Append(got, SubSeq(buffer, hl + 1, end))
  BY <1>1 DEF end, hl
<1>. QED BY <1>2, <1>4, <1>5, <1>7, <1>8, <1>9, <1>10 DEF end, hl

-----------------------------------------------------------------------------
(* The types and the limit of the buffer                                   *)

\* The payloads a peer can send.
LEMMA PayloadTyped ==
  ASSUME NEW k \in Nat, NEW n \in Sizes
  PROVE  Payload(k, n) \in Seq(Nat) /\ Len(Payload(k, n)) = n /\ n \in Nat
<1>1. n \in Nat
  BY FrameAssumption
<1>2. Payload(k, n) \in [1..n -> Nat]
  BY <1>1 DEF Payload
<1>. QED BY <1>1, <1>2, FunctionIsSeq

\* A byte written to the wire keeps it a sequence of bytes.
LEMMA WrittenTyped ==
  ASSUME TypeOK, NEW n \in Sizes, WriteMessage(n)
  PROVE  wire' \in Seq(Nat) /\ sent' \in Seq(Seq(Nat))
<1>1. Len(sent) + 1 \in Nat
  BY LenProperties DEF TypeOK
<1>2. Payload(Len(sent) + 1, n) \in Seq(Nat)
  BY <1>1, PayloadTyped
<1>. DEFINE m == Payload(Len(sent) + 1, n)
            w == FrameMessage(m)
<1>3. w \in Seq(Nat)
  BY <1>2, FrameShape
<1>4. sent' = Append(sent, m) /\ wire' = wire \o w
  BY DEF WriteMessage
<1>. HIDE DEF m, w
<1>5. m \in Seq(Nat)
  BY <1>2 DEF m
<1>6. wire \in Seq(Nat) /\ sent \in Seq(Seq(Nat))
  BY DEF TypeOK
<1>7. wire \o w \in Seq(Nat)
  BY <1>3, <1>6, ConcatProperties
<1>8. Append(sent, m) \in Seq(Seq(Nat))
  BY <1>5, <1>6, AppendProperties
<1>. QED BY <1>4, <1>7, <1>8

\* A step keeps the types, whatever the bytes in the buffer say.
LEMMA TypeStep ==
  ASSUME TypeOK, [Next]_vars
  PROVE  TypeOK'
<1>. USE DEF TypeOK
<1>1. ASSUME NEW n \in 1..Len(wire), Read(n) PROVE TypeOK'
  <2>1. /\ buffer' \in Seq(Nat) /\ capacity' = GrownCapacity /\ bytesRead' = bytesRead + n
        /\ bytesRead' <= Len(buffer') /\ Len(buffer') <= GrownCapacity /\ wire' \in Seq(Nat)
    BY <1>1, ReadProperties
  <2>2. GrownCapacity \in Nat
    BY GrownProperties
  <2>3. reader' = "parse" /\ UNCHANGED <<link, sent, got, beats>>
    BY <1>1 DEF Read
  <2>4. n \in Nat
    BY LenProperties
  <2>. QED BY <2>1, <2>2, <2>3, <2>4
<1>2. ASSUME ReadNothing \/ ReadFailed PROVE TypeOK'
  <2>1. /\ buffer' = Grown /\ capacity' = GrownCapacity /\ reader' = "done"
        /\ UNCHANGED <<bytesRead, got, wire, link, sent, beats>>
    BY <1>2 DEF ReadNothing, ReadFailed, peer
  <2>2. /\ Grown \in Seq(Nat) /\ GrownCapacity \in Nat /\ Len(Grown) <= GrownCapacity
        /\ Len(Grown) = IF Grows THEN Len(buffer) + BufSize ELSE Len(buffer)
    BY GrownProperties
  <2>3. bytesRead <= Len(Grown)
    BY <2>2, FrameAssumption, LenProperties
  <2>. QED BY <2>1, <2>2, <2>3
<1>3. ASSUME TryNothing PROVE TypeOK'
  BY <1>3 DEF TryNothing, frame, peer
<1>4. ASSUME TryHeartbeat PROVE TypeOK'
  BY <1>4, LenProperties DEF TryHeartbeat, Parsing, peer
<1>5. ASSUME TryMessage PROVE TypeOK'
  <2>1. PICK h \in {Small, Large} :
          /\ HasRange(h) /\ RangeEnd(h) <= bytesRead /\ bytesRead' = bytesRead - RangeEnd(h)
          /\ SubSeq(buffer, HeaderLen(h) + 1, RangeEnd(h)) \in Seq(Nat)
          /\ got' = Append(got, SubSeq(buffer, HeaderLen(h) + 1, RangeEnd(h)))
          /\ buffer' \in Seq(Nat) /\ bytesRead' <= Len(buffer') /\ Len(buffer') <= capacity
          /\ UNCHANGED <<capacity, reader, wire, link, sent, beats>>
    BY <1>5, TakeProperties
  <2>2. RangeEnd(h) \in Nat
    BY <2>1, RangeProperties
  <2>3. bytesRead' \in Nat
    BY <2>1, <2>2
  <2>4. got' \in Seq(Seq(Nat))
    BY <2>1, AppendProperties
  <2>. QED BY <2>1, <2>3, <2>4
<1>6. ASSUME TryMalformed PROVE TypeOK'
  BY <1>6 DEF TryMalformed, frame, peer
<1>7. ASSUME NEW n \in Sizes, WriteMessage(n) PROVE TypeOK'
  <2>1. wire' \in Seq(Nat) /\ sent' \in Seq(Seq(Nat))
    BY <1>7, WrittenTyped
  <2>2. UNCHANGED <<buffer, capacity, bytesRead, reader, link, got, beats>>
    BY <1>7 DEF WriteMessage, frame
  <2>. QED BY <2>1, <2>2
<1>8. ASSUME WriteHeartbeat PROVE TypeOK'
  <2>1. Heartbeat \in Nat
    BY DEF Heartbeat
  <2>2. wire' \in Seq(Nat)
    BY <1>8, <2>1, AppendProperties DEF WriteHeartbeat
  <2>3. beats' \in Nat /\ UNCHANGED <<buffer, capacity, bytesRead, reader, link, sent, got>>
    BY <1>8 DEF WriteHeartbeat, frame
  <2>. QED BY <2>2, <2>3
<1>9. ASSUME CloseLink PROVE TypeOK'
  BY <1>9 DEF CloseLink, frame
<1>10. ASSUME UNCHANGED vars PROVE TypeOK'
  BY <1>10 DEF vars
<1>. QED BY <1>1, <1>2, <1>3, <1>4, <1>5, <1>6, <1>7, <1>8, <1>9, <1>10 DEF Next, ReaderStep, PeerStep

\* The types, and that no index of the parser and no move of shift_down leaves
\* the buffer, whatever bytes the peer sends and however they are cut.
THEOREM TypeCorrect == Spec => []TypeOK
<1>1. Init => TypeOK
  BY FrameAssumption DEF Init, TypeOK
<1>2. TypeOK /\ [Next]_vars => TypeOK'
  BY TypeStep
<1>. QED BY <1>1, <1>2, PTL DEF Spec

\* A step keeps the limit of the buffer: it grows only below it.
LEMMA BoundStep ==
  ASSUME TypeOK, BufferBounded, [Next]_vars
  PROVE  BufferBounded'
<1>1. /\ Len(buffer) \in Nat /\ capacity \in Nat /\ Len(buffer) <= capacity
      /\ BufSize \in Nat /\ MaxBufSize \in Nat \ {0} /\ Len(buffer) < MaxBufSize + BufSize
  BY FrameAssumption, LenProperties DEF TypeOK, BufferBounded
<1>2. Len(Grown) \in Nat /\ Len(Grown) < MaxBufSize + BufSize
  <2>1. Grown \in Seq(Nat) /\ Len(Grown) = IF Grows THEN Len(buffer) + BufSize ELSE Len(buffer)
    BY GrownProperties
  <2>2. Grows => capacity < MaxBufSize
    BY DEF Grows
  <2>. QED BY <1>1, <2>1, <2>2, LenProperties
<1>3. ASSUME NEW n \in 1..Len(wire), Read(n) PROVE BufferBounded'
  <2>1. buffer' \in Seq(Nat) /\ (Len(buffer') <= Len(Grown) \/ Len(buffer') = BufSize)
    BY <1>3, ReadProperties
  <2>. QED BY <1>1, <1>2, <2>1, LenProperties DEF BufferBounded
<1>4. ASSUME ReadNothing \/ ReadFailed PROVE BufferBounded'
  BY <1>2, <1>4 DEF ReadNothing, ReadFailed, BufferBounded
<1>5. ASSUME TryMessage PROVE BufferBounded'
  <2>1. buffer' \in Seq(Nat) /\ (Len(buffer') <= Len(buffer) \/ Len(buffer') = BufSize)
    BY <1>5, TakeProperties
  <2>. QED BY <1>1, <2>1, LenProperties DEF BufferBounded
<1>6. ASSUME UNCHANGED buffer PROVE BufferBounded'
  BY <1>6 DEF BufferBounded
<1>7. TryNothing \/ TryHeartbeat \/ TryMalformed \/ PeerStep \/ UNCHANGED vars => UNCHANGED buffer
  BY DEF TryNothing, TryHeartbeat, TryMalformed, PeerStep, WriteMessage, WriteHeartbeat, CloseLink,
         frame, vars
<1>. QED BY <1>3, <1>4, <1>5, <1>6, <1>7 DEF Next, ReaderStep

\* Whatever lengths the peer announces, the buffer of a connection stays within
\* one step of MAX_BUF_SIZE.
THEOREM BufferBoundedCorrect == Spec => []BufferBounded
<1>1. Init => BufferBounded
  BY FrameAssumption DEF Init, BufferBounded
<1>2. TypeOK /\ BufferBounded /\ [Next]_vars => BufferBounded'
  BY BoundStep
<1>. QED BY <1>1, <1>2, TypeCorrect, PTL DEF Spec

-----------------------------------------------------------------------------
(* The stream: the bytes in the buffer and on the wire                     *)

\* The frames of the messages of s that g does not have yet.
Frames(s, g) == [i \in 1..(Len(s) - Len(g)) |-> FrameMessage(s[Len(g) + i])]

\* The frames of the messages not yet produced are sequences of bytes.
LEMMA FramesTyped ==
  ASSUME NEW s \in Seq(Seq(Nat)), NEW g \in Seq(Seq(Nat)), Len(g) <= Len(s)
  PROVE  /\ Frames(s, g) \in Seq(Seq(Nat)) /\ Len(Frames(s, g)) = Len(s) - Len(g)
         /\ \A i \in 1..(Len(s) - Len(g)) : Frames(s, g)[i] = FrameMessage(s[Len(g) + i])
<1>1. /\ Len(s) \in Nat /\ Len(g) \in Nat /\ Len(s) - Len(g) \in Nat
      /\ \A i \in 1..Len(s) : s[i] \in Seq(Nat)
  BY LenProperties, ElementOfSeq
<1>2. \A i \in 1..(Len(s) - Len(g)) : FrameMessage(s[Len(g) + i]) \in Seq(Nat)
  <2>. SUFFICES ASSUME NEW i \in 1..(Len(s) - Len(g))
                PROVE  FrameMessage(s[Len(g) + i]) \in Seq(Nat)
    OBVIOUS
  <2>1. Len(g) + i \in 1..Len(s)
    BY <1>1
  <2>2. s[Len(g) + i] \in Seq(Nat)
    BY <1>1, <2>1
  <2>. QED BY <2>2, FrameShape
<1>3. Frames(s, g) \in [1..(Len(s) - Len(g)) -> Seq(Nat)]
  BY <1>2 DEF Frames
<1>4. \A i \in 1..(Len(s) - Len(g)) : Frames(s, g)[i] = FrameMessage(s[Len(g) + i])
  BY DEF Frames
<1>. QED BY <1>1, <1>3, <1>4, FunctionIsSeq

\* A message sent adds its frame at the end.
LEMMA FramesAppend ==
  ASSUME NEW s \in Seq(Seq(Nat)), NEW g \in Seq(Seq(Nat)), Len(g) <= Len(s), NEW m \in Seq(Nat)
  PROVE  Frames(Append(s, m), g) = Append(Frames(s, g), FrameMessage(m))
<1>. DEFINE n == Len(s) - Len(g)
            t == Append(s, m)
            a == Frames(s, g)
            b == Frames(t, g)
            f == FrameMessage(m)
            c == Append(a, f)
<1>1. Len(s) \in Nat /\ Len(g) \in Nat /\ n \in Nat /\ Len(g) + n = Len(s)
  BY LenProperties
<1>2. t \in Seq(Seq(Nat)) /\ Len(t) = Len(s) + 1 /\ t[Len(s) + 1] = m /\ \A i \in 1..Len(s) : t[i] = s[i]
  BY AppendProperties
<1>3. a \in Seq(Seq(Nat)) /\ Len(a) = n /\ \A i \in 1..n : a[i] = FrameMessage(s[Len(g) + i])
  BY FramesTyped
<1>. HIDE DEF t
<1>4. /\ b \in Seq(Seq(Nat)) /\ Len(b) = Len(t) - Len(g)
      /\ \A i \in 1..(Len(t) - Len(g)) : b[i] = FrameMessage(t[Len(g) + i])
  <2>1. Len(g) <= Len(t)
    BY <1>1, <1>2
  <2>. QED BY <1>2, <2>1, FramesTyped
<1>5. f \in Seq(Nat)
  BY FrameShape
<1>. HIDE DEF a, b, f
<1>6. /\ c \in Seq(Seq(Nat)) /\ Len(c) = n + 1 /\ c[n + 1] = f /\ \A i \in 1..n : c[i] = a[i]
  BY <1>3, <1>5, AppendProperties
<1>. HIDE DEF n, c
<1>7. Len(t) - Len(g) = n + 1
  BY <1>1, <1>2
<1>8. ASSUME NEW i \in 1..(n + 1) PROVE b[i] = c[i]
  <2>1. CASE i = n + 1
    <3>1. Len(g) + i = Len(s) + 1 /\ i \in 1..(Len(t) - Len(g))
      BY <1>1, <1>7, <2>1
    <3>2. b[i] = FrameMessage(m)
      BY <1>2, <1>4, <3>1
    <3>. QED BY <1>6, <2>1, <3>2 DEF f
  <2>2. CASE i # n + 1
    <3>1. i \in 1..n /\ Len(g) + i \in 1..Len(s) /\ i \in 1..(Len(t) - Len(g))
      BY <1>1, <1>7, <2>2
    <3>2. b[i] = FrameMessage(s[Len(g) + i])
      BY <1>2, <1>4, <3>1
    <3>. QED BY <1>3, <1>6, <3>1, <3>2
  <2>. QED BY <2>1, <2>2
<1>9. b = c
  BY <1>4, <1>6, <1>7, <1>8, SeqEqual
<1>. QED BY <1>9 DEF a, b, c, f, t

\* A message produced takes its frame from the front.
LEMMA FramesTake ==
  ASSUME NEW s \in Seq(Seq(Nat)), NEW g \in Seq(Seq(Nat)), Len(g) < Len(s), NEW m \in Seq(Nat)
  PROVE  /\ Frames(s, g) # <<>> /\ Head(Frames(s, g)) = FrameMessage(s[Len(g) + 1])
         /\ Frames(s, Append(g, m)) = Tail(Frames(s, g))
<1>. DEFINE n == Len(s) - Len(g)
            t == Append(g, m)
            a == Frames(s, g)
            b == Frames(s, t)
            c == Tail(a)
<1>1. Len(s) \in Nat /\ Len(g) \in Nat /\ n \in Nat \ {0} /\ Len(g) <= Len(s)
  BY LenProperties
<1>2. t \in Seq(Seq(Nat)) /\ Len(t) = Len(g) + 1
  BY AppendProperties
<1>3. a \in Seq(Seq(Nat)) /\ Len(a) = n /\ \A i \in 1..n : a[i] = FrameMessage(s[Len(g) + i])
  BY <1>1, FramesTyped
<1>. HIDE DEF t, n
<1>4. /\ b \in Seq(Seq(Nat)) /\ Len(b) = Len(s) - Len(t)
      /\ \A i \in 1..(Len(s) - Len(t)) : b[i] = FrameMessage(s[Len(t) + i])
  <2>1. Len(t) <= Len(s)
    BY <1>1, <1>2
  <2>. QED BY <1>2, <2>1, FramesTyped
<1>. HIDE DEF a, b
<1>5. a # <<>> /\ Head(a) = a[1]
  BY <1>1, <1>3, EmptySeq
<1>6. /\ c \in Seq(Seq(Nat)) /\ Len(c) = n - 1 /\ \A i \in 1..(n - 1) : c[i] = a[i + 1]
  BY <1>3, <1>5, HeadTailProperties
<1>. HIDE DEF c
<1>7. Len(s) - Len(t) = n - 1
  BY <1>1, <1>2 DEF n
<1>8. ASSUME NEW i \in 1..(n - 1) PROVE b[i] = c[i]
  <2>1. Len(t) + i = Len(g) + (i + 1) /\ i + 1 \in 1..n
    BY <1>1, <1>2
  <2>2. b[i] = FrameMessage(s[Len(t) + i]) /\ c[i] = a[i + 1]
    BY <1>4, <1>6, <1>7
  <2>3. a[i + 1] = FrameMessage(s[Len(g) + (i + 1)])
    BY <1>3, <2>1
  <2>. QED BY <2>1, <2>2, <2>3
<1>9. b = c
  BY <1>4, <1>6, <1>7, <1>8, SeqEqual
<1>10. Head(a) = FrameMessage(s[Len(g) + 1])
  <2>1. 1 \in 1..n
    BY <1>1
  <2>. QED BY <1>3, <1>5, <2>1
<1>. QED BY <1>5, <1>9, <1>10 DEF a, b, c, t

-----------------------------------------------------------------------------
(* Nothing is lost, and messages come out as they went in                  *)

\* The bytes read and not yet parsed.
InBuffer == SubSeq(buffer, 1, bytesRead)

\* What was produced is what was sent, as far as it goes.
Produced(s, g) == Len(g) <= Len(s) /\ \A k \in 1..Len(g) : g[k] = s[k]

\* The inductive invariant, as long as no heartbeat is sent: the stream is the
\* frames still missing, so a frame is read where it was written.
StreamInv == Produced(sent, got) /\ NothingLost

\* What has been read is as long as bytes_read says.
LEMMA InBufferTyped ==
  ASSUME TypeOK
  PROVE  /\ InBuffer \in Seq(Nat) /\ Len(InBuffer) = bytesRead
         /\ \A i \in 1..bytesRead : InBuffer[i] = buffer[i]
<1>1. buffer \in Seq(Nat) /\ bytesRead \in Nat /\ bytesRead <= Len(buffer)
  BY DEF TypeOK
<1>. QED BY <1>1, FrontProperties DEF InBuffer

\* And so it is after a step.
LEMMA InBufferPrimed ==
  ASSUME TypeOK'
  PROVE  /\ InBuffer' \in Seq(Nat) /\ Len(InBuffer') = bytesRead'
         /\ \A i \in 1..bytesRead' : InBuffer'[i] = buffer'[i]
<1>1. buffer' \in Seq(Nat) /\ bytesRead' \in Nat /\ bytesRead' <= Len(buffer')
  BY DEF TypeOK
<1>2. InBuffer' = SubSeq(buffer', 1, bytesRead')
  BY DEF InBuffer
<1>. QED BY <1>1, <1>2, FrontProperties

\* The same bytes in the buffer after a step.
LEMMA InBufferKept ==
  ASSUME TypeOK, TypeOK', bytesRead' = bytesRead, \A i \in 1..bytesRead : buffer'[i] = buffer[i]
  PROVE  InBuffer' = InBuffer
<1>. DEFINE a == InBuffer'
            b == InBuffer
<1>1. b \in Seq(Nat) /\ Len(b) = bytesRead /\ \A i \in 1..bytesRead : b[i] = buffer[i]
  BY InBufferTyped
<1>2. a \in Seq(Nat) /\ Len(a) = bytesRead' /\ \A i \in 1..bytesRead' : a[i] = buffer'[i]
  BY InBufferPrimed
<1>. HIDE DEF a, b
<1>3. \A i \in 1..bytesRead : a[i] = b[i]
  BY <1>1, <1>2
<1>4. a = b
  BY <1>1, <1>2, <1>3, SeqEqual
<1>. QED BY <1>4 DEF a, b

\* A read moves bytes of the stream from the wire to the buffer.
LEMMA ReadKeepsStream ==
  ASSUME TypeOK, NEW n \in 1..Len(wire), Read(n)
  PROVE  InBuffer' \o wire' = InBuffer \o wire
<1>. DEFINE a == InBuffer
            u == SubSeq(wire, 1, n)
            v == SubSeq(wire, n + 1, Len(wire))
            b == SubSeq(buffer', 1, bytesRead + n)
<1>1. wire \in Seq(Nat) /\ Len(wire) \in Nat /\ n \in Nat /\ n \in 0..Len(wire) /\ bytesRead \in Nat
  BY LenProperties DEF TypeOK
<1>2. a \in Seq(Nat) /\ Len(a) = bytesRead /\ \A i \in 1..bytesRead : a[i] = buffer[i]
  BY InBufferTyped
<1>3. u \in Seq(Nat) /\ Len(u) = n /\ v \in Seq(Nat) /\ u \o v = wire
  BY <1>1, SplitAt
<1>4. \A i \in 1..n : u[i] = wire[i]
  BY <1>1, FrontProperties
<1>5. /\ buffer' \in Seq(Nat) /\ bytesRead' = bytesRead + n /\ bytesRead + n <= Len(buffer')
      /\ \A i \in 1..bytesRead : buffer'[i] = buffer[i]
      /\ \A i \in 1..n : buffer'[bytesRead + i] = wire[i]
      /\ wire' = v
  BY ReadProperties
<1>6. InBuffer' = b
  BY <1>5 DEF InBuffer
<1>7. b \in Seq(Nat) /\ Len(b) = bytesRead + n /\ \A i \in 1..(bytesRead + n) : b[i] = buffer'[i]
  BY <1>1, <1>5, FrontProperties, SMTT(30)
<1>. HIDE DEF a, u, v, b
<1>8. Joins(b, a, u)
  <2>1. ASSUME NEW i \in 1..bytesRead PROVE b[i] = a[i]
    <3>1. i \in 1..(bytesRead + n)
      BY <1>1
    <3>. QED BY <1>2, <1>5, <1>7, <3>1
  <2>2. ASSUME NEW i \in 1..n PROVE b[bytesRead + i] = u[i]
    <3>1. bytesRead + i \in 1..(bytesRead + n)
      BY <1>1
    <3>. QED BY <1>4, <1>5, <1>7, <3>1
  <2>. QED BY <1>1, <1>2, <1>3, <1>7, <2>1, <2>2 DEF Joins
<1>9. b = a \o u
  BY <1>2, <1>3, <1>7, <1>8, JoinsIsConcat
<1>10. b \o v = a \o wire
  <2>1. (a \o u) \o v = a \o (u \o v)
    <3>1. a \in Seq(Nat) /\ u \in Seq(Nat) /\ v \in Seq(Nat)
      BY <1>2, <1>3
    <3>. QED BY ONLY <3>1, ConcatAssociative, SMTT(30)
  <2>. QED BY <1>3, <1>9, <2>1
<1>. QED BY <1>5, <1>6, <1>10 DEF a

\* As long as there are bytes in the buffer, a message is missing and the stream
\* starts with its frame.
LEMMA FirstFrame ==
  ASSUME TypeOK, StreamInv, bytesRead > 0
  PROVE  /\ Len(got) < Len(sent) /\ sent[Len(got) + 1] \in Seq(Nat)
         /\ InBuffer \o wire = FrameMessage(sent[Len(got) + 1]) \o FlattenSeq(Tail(Frames(sent, got)))
         /\ Tail(Frames(sent, got)) \in Seq(Seq(Nat))
<1>. DEFINE ff == Frames(sent, got)
            a == InBuffer
<1>1. /\ sent \in Seq(Seq(Nat)) /\ got \in Seq(Seq(Nat)) /\ Len(got) <= Len(sent)
      /\ Len(sent) \in Nat /\ Len(got) \in Nat /\ bytesRead \in Nat /\ wire \in Seq(Nat)
  BY LenProperties DEF TypeOK, StreamInv, Produced
<1>2. a \o wire = FlattenSeq(ff)
  BY DEF StreamInv, NothingLost, Missing, Frames, InBuffer
<1>3. ff \in Seq(Seq(Nat)) /\ Len(ff) = Len(sent) - Len(got)
  BY <1>1, FramesTyped
<1>4. a \in Seq(Nat) /\ Len(a) = bytesRead
  BY InBufferTyped
<1>. HIDE DEF a, ff
<1>5. ff # <<>>
  <2>. SUFFICES ASSUME ff = <<>> PROVE FALSE
    OBVIOUS
  <2>1. a \o wire = <<>>
    BY <1>2, <1>3, FlattenAppend
  <2>2. a = <<>>
    BY <1>1, <1>4, <2>1, ConcatEqualIffEmpty
  <2>3. Len(a) = 0
    BY <2>2, EmptySeq
  <2>. QED BY <1>1, <1>4, <2>3
<1>6. Len(got) < Len(sent)
  BY <1>1, <1>3, <1>5, EmptySeq
<1>7. sent[Len(got) + 1] \in Seq(Nat)
  <2>1. Len(got) + 1 \in 1..Len(sent)
    BY <1>1, <1>6
  <2>. QED BY <1>1, <2>1, ElementOfSeq
<1>8. Head(ff) = FrameMessage(sent[Len(got) + 1])
  BY <1>1, <1>6, <1>7, FramesTake DEF ff
<1>9. FlattenSeq(ff) = Head(ff) \o FlattenSeq(Tail(ff)) /\ Tail(ff) \in Seq(Seq(Nat))
  BY <1>3, <1>5, FlattenHead, HeadTailProperties
<1>. QED BY <1>2, <1>6, <1>7, <1>8, <1>9 DEF a, ff

\* The first message missing.
Awaited == sent[Len(got) + 1]

\* What the buffer holds of it, byte for byte.
LEMMA FirstBytes ==
  ASSUME TypeOK, StreamInv, bytesRead > 0
  PROVE  \A i \in 1..bytesRead : i <= Len(FrameMessage(Awaited)) => buffer[i] = FrameMessage(Awaited)[i]
<1>. DEFINE a == InBuffer
            w == FrameMessage(Awaited)
            r == FlattenSeq(Tail(Frames(sent, got)))
            st == a \o wire
<1>1. a \o wire = w \o r /\ Awaited \in Seq(Nat) /\ Tail(Frames(sent, got)) \in Seq(Seq(Nat))
  BY FirstFrame DEF Awaited
<1>2. a \in Seq(Nat) /\ Len(a) = bytesRead /\ (\A i \in 1..bytesRead : a[i] = buffer[i]) /\ wire \in Seq(Nat)
  BY InBufferTyped DEF TypeOK
<1>3. w \in Seq(Nat) /\ r \in Seq(Nat)
  BY <1>1, FrameShape, FlattenAppend
<1>4. st = a \o wire
  OBVIOUS
<1>. HIDE DEF a, w, r, st
<1>5. Joins(st, a, wire)
  BY <1>2, <1>4, ConcatJoins
<1>6. Joins(st, w, r)
  BY <1>1, <1>3, <1>4, ConcatJoins
<1>7. ASSUME NEW i \in 1..bytesRead, i <= Len(w) PROVE buffer[i] = w[i]
  <2>1. i \in 1..Len(w) /\ i \in 1..Len(a)
    BY <1>2, <1>3, <1>7, LenProperties DEF TypeOK
  <2>2. st[i] = a[i] /\ st[i] = w[i]
    BY <1>5, <1>6, <2>1 DEF Joins
  <2>. QED BY <1>2, <2>2
<1>. QED BY <1>7 DEF w

\* So the parser finds its header and, once it is there, its length.
LEMMA FirstHeader ==
  ASSUME TypeOK, StreamInv, bytesRead > 0
  PROVE  /\ buffer[1] = HeaderOf(Awaited)
         /\ HasRange(HeaderOf(Awaited)) => RangeEnd(HeaderOf(Awaited)) = Len(FrameMessage(Awaited))
<1>. DEFINE m == Awaited
            w == FrameMessage(m)
            h == HeaderOf(m)
<1>1. m \in Seq(Nat) /\ Len(m) \in Nat
  BY FirstFrame, LenProperties DEF Awaited
<1>2. /\ w \in Seq(Nat) /\ Len(w) = HeaderLen(h) + Len(m) /\ w[1] = h
      /\ h = Small => w[2] = Len(m)
      /\ h = Large => \A i \in 1..4 : w[i + 1] = ToBigEndian(Len(m))[i]
  BY <1>1, FrameShape
<1>3. \A i \in 1..bytesRead : i <= Len(w) => buffer[i] = w[i]
  BY FirstBytes
<1>4. \/ h = Small /\ HeaderLen(h) = 2
      \/ h = Large /\ HeaderLen(h) = 5 /\ h # Small
  BY DEF HeaderOf, HeaderLen, Small, Large
<1>5. buffer \in Seq(Nat) /\ Len(buffer) \in Nat /\ bytesRead \in Nat /\ bytesRead <= Len(buffer)
  BY LenProperties DEF TypeOK
<1>. HIDE DEF m, w, h
<1>6. buffer[1] = h
  <2>1. 1 \in 1..bytesRead /\ 1 <= Len(w)
    BY <1>1, <1>2, <1>4, <1>5
  <2>. QED BY <1>2, <1>3, <2>1
<1>7. ASSUME HasRange(h) PROVE RangeEnd(h) = Len(w)
  <2>1. CASE h = Small /\ HeaderLen(h) = 2
    <3>1. 2 \in 1..bytesRead /\ 2 <= Len(w)
      BY <1>1, <1>2, <1>5, <1>7, <2>1 DEF HasRange
    <3>2. buffer[2] = Len(m)
      BY <1>2, <1>3, <2>1, <3>1
    <3>3. RangeEnd(h) = 2 + buffer[2]
      BY <2>1 DEF RangeEnd
    <3>. QED BY <1>2, <2>1, <3>2, <3>3
  <2>2. CASE h = Large /\ HeaderLen(h) = 5 /\ h # Small
    <3>. DEFINE b == SubSeq(buffer, 2, 5)
                e == ToBigEndian(Len(m))
    <3>1. RangeEnd(h) = 5 + FromBigEndian(b)
      BY <2>2 DEF RangeEnd
    <3>2. bytesRead >= 5 /\ 5 <= Len(w) /\ 5 <= Len(buffer)
      BY <1>1, <1>2, <1>5, <1>7, <2>2 DEF HasRange
    <3>3. /\ b \in Seq(Nat) /\ Len(b) = (5 + 1) - 2
          /\ \A i \in 1..((5 + 1) - 2) : b[i] = buffer[(2 + i) - 1]
      BY <1>5, <3>2, PartProperties, SMTT(30)
    <3>4. e \in Seq(Nat) /\ Len(e) = 4 /\ FromBigEndian(e) = Len(m)
      BY <1>1, BigEndian
    <3>5. \A i \in 1..4 : w[i + 1] = e[i]
      BY <1>2, <2>2
    <3>. HIDE DEF b, e
    <3>6. ASSUME NEW i \in 1..4 PROVE b[i] = e[i]
      <4>1. (2 + i) - 1 = i + 1 /\ i + 1 \in 1..bytesRead /\ i + 1 <= Len(w) /\ (5 + 1) - 2 = 4
        BY <1>1, <1>2, <1>5, <3>2
      <4>2. b[i] = buffer[i + 1]
        BY <3>3, <4>1
      <4>3. buffer[i + 1] = w[i + 1]
        BY <1>3, <4>1
      <4>. QED BY <3>5, <4>2, <4>3
    <3>7. b = e
      <4>1. Len(b) = Len(e) /\ Len(b) = 4
        BY <3>3, <3>4
      <4>. QED BY <3>3, <3>4, <3>6, <4>1, SeqEqual
    <3>. QED BY <1>2, <2>2, <3>1, <3>4, <3>7
  <2>. QED BY <1>4, <2>1, <2>2
<1>. QED BY <1>6, <1>7 DEF m, w, h

\* And once all of it is there, its payload.
LEMMA FirstPayload ==
  ASSUME TypeOK, StreamInv, bytesRead > 0, Len(FrameMessage(Awaited)) <= bytesRead
  PROVE  SubSeq(buffer, HeaderLen(HeaderOf(Awaited)) + 1, Len(FrameMessage(Awaited))) = Awaited
<1>. DEFINE m == Awaited
            w == FrameMessage(m)
            hl == HeaderLen(HeaderOf(m))
            p == SubSeq(buffer, hl + 1, Len(w))
<1>1. m \in Seq(Nat) /\ Len(m) \in Nat
  BY FirstFrame, LenProperties DEF Awaited
<1>2. /\ w \in Seq(Nat) /\ Len(w) = hl + Len(m) /\ \A i \in 1..Len(m) : w[hl + i] = m[i]
  BY <1>1, FrameShape
<1>3. \A i \in 1..bytesRead : i <= Len(w) => buffer[i] = w[i]
  BY FirstBytes
<1>4. hl \in Nat
  BY DEF HeaderLen
<1>5. /\ buffer \in Seq(Nat) /\ Len(buffer) \in Nat /\ bytesRead \in Nat /\ bytesRead <= Len(buffer)
      /\ Len(w) <= bytesRead
  BY LenProperties DEF TypeOK
<1>. HIDE DEF m, w, hl
<1>6. /\ p \in Seq(Nat) /\ Len(p) = (Len(w) + 1) - (hl + 1)
      /\ \A i \in 1..((Len(w) + 1) - (hl + 1)) : p[i] = buffer[((hl + 1) + i) - 1]
  <2>1. hl + 1 \in Nat \ {0} /\ Len(w) \in Nat /\ Len(w) <= Len(buffer) /\ hl + 1 <= Len(w) + 1
    BY <1>1, <1>2, <1>4, <1>5
  <2>. QED BY <1>5, <2>1, PartProperties, SMTT(30)
<1>. HIDE DEF p
<1>7. (Len(w) + 1) - (hl + 1) = Len(m)
  BY <1>1, <1>2, <1>4
<1>8. ASSUME NEW i \in 1..Len(m) PROVE p[i] = m[i]
  <2>1. ((hl + 1) + i) - 1 = hl + i /\ hl + i \in 1..bytesRead /\ hl + i <= Len(w)
    BY <1>1, <1>2, <1>4, <1>5
  <2>2. p[i] = buffer[hl + i]
    BY <1>6, <1>7, <2>1
  <2>3. buffer[hl + i] = w[hl + i]
    BY <1>3, <2>1
  <2>. QED BY <1>2, <2>2, <2>3
<1>9. p = m
  BY <1>1, <1>6, <1>7, <1>8, SeqEqual
<1>. QED BY <1>9 DEF m, w, hl, p

\* The parser meets nothing but frames of messages.
LEMMA OnlyMessages ==
  ASSUME TypeOK, StreamInv
  PROVE  ~TryHeartbeat /\ ~TryMalformed
<1>. SUFFICES ASSUME TryHeartbeat \/ TryMalformed PROVE FALSE
  OBVIOUS
<1>1. bytesRead > 0 /\ buffer[1] \notin {Small, Large}
  BY DEF TryHeartbeat, TryMalformed, Parsing, Heartbeat, Small, Large
<1>2. buffer[1] = HeaderOf(Awaited)
  BY <1>1, FirstHeader
<1>. QED BY <1>1, <1>2 DEF HeaderOf

\* A step keeps the stream, as long as it is not the sending of a heartbeat.
LEMMA StreamStep ==
  ASSUME TypeOK, TypeOK', StreamInv, [Next]_vars, ~WriteHeartbeat
  PROVE  StreamInv'
<1>1. /\ sent \in Seq(Seq(Nat)) /\ got \in Seq(Seq(Nat)) /\ wire \in Seq(Nat)
      /\ Len(got) <= Len(sent) /\ \A k \in 1..Len(got) : got[k] = sent[k]
      /\ Len(sent) \in Nat /\ Len(got) \in Nat /\ bytesRead \in Nat
  BY LenProperties DEF TypeOK, StreamInv, Produced
<1>2. InBuffer \o wire = FlattenSeq(Frames(sent, got))
  BY DEF StreamInv, NothingLost, Missing, Frames, InBuffer
<1>3. ASSUME Produced(sent', got'), InBuffer' \o wire' = FlattenSeq(Frames(sent', got'))
      PROVE  StreamInv'
  BY <1>3 DEF StreamInv, NothingLost, Missing, Frames, InBuffer
<1>4. ASSUME InBuffer' = InBuffer, UNCHANGED <<wire, sent, got>> PROVE StreamInv'
  BY <1>2, <1>3, <1>4 DEF StreamInv
<1>5. ASSUME UNCHANGED <<buffer, bytesRead, wire, sent, got>> PROVE StreamInv'
  BY <1>4, <1>5 DEF InBuffer
<1>6. ASSUME NEW n \in 1..Len(wire), Read(n) PROVE StreamInv'
  <2>1. InBuffer' \o wire' = InBuffer \o wire
    BY <1>6, ReadKeepsStream
  <2>2. UNCHANGED <<sent, got>>
    BY <1>6 DEF Read
  <2>. QED BY <1>2, <1>3, <2>1, <2>2 DEF StreamInv
<1>7. ASSUME ReadNothing \/ ReadFailed PROVE StreamInv'
  <2>1. buffer' = Grown /\ UNCHANGED <<bytesRead, wire, sent, got>>
    BY <1>7 DEF ReadNothing, ReadFailed, peer
  <2>2. \A i \in 1..bytesRead : Grown[i] = buffer[i]
    <3>1. \A i \in 1..bytesRead : i \in 1..Len(buffer)
      BY LenProperties DEF TypeOK
    <3>. QED BY <3>1, GrownProperties
  <2>3. InBuffer' = InBuffer
    BY <2>1, <2>2, InBufferKept
  <2>. QED BY <1>4, <2>1, <2>3
<1>8. ASSUME TryHeartbeat \/ TryMalformed PROVE FALSE
  BY <1>8, OnlyMessages
<1>9. ASSUME TryMessage PROVE StreamInv'
  <2>1. PICK h \in {Small, Large} :
          /\ bytesRead > 0 /\ buffer[1] = h /\ HasRange(h)
          /\ RangeEnd(h) <= bytesRead /\ bytesRead' = bytesRead - RangeEnd(h)
          /\ got' = Append(got, SubSeq(buffer, HeaderLen(h) + 1, RangeEnd(h)))
          /\ \A i \in 1..(bytesRead - RangeEnd(h)) : buffer'[i] = buffer[RangeEnd(h) + i]
          /\ UNCHANGED <<wire, sent>>
    BY <1>9, TakeProperties
  <2>. DEFINE w == FrameMessage(Awaited)
              a == InBuffer
              b == InBuffer'
              ff == Frames(sent, got)
              rest == FlattenSeq(Tail(ff))
  <2>2. h = HeaderOf(Awaited) /\ RangeEnd(h) = Len(w)
    BY <2>1, FirstHeader
  <2>3. Len(got) < Len(sent) /\ Awaited \in Seq(Nat) /\ a \o wire = w \o rest /\ Tail(ff) \in Seq(Seq(Nat))
    BY <2>1, FirstFrame DEF Awaited
  <2>4. got' = Append(got, Awaited)
    BY <2>1, <2>2, FirstPayload
  <2>5. Frames(sent', got') = Tail(ff)
    BY <1>1, <2>1, <2>3, <2>4, FramesTake
  <2>6. Produced(sent', got')
    <3>1. Len(got') = Len(got) + 1 /\ got'[Len(got) + 1] = sent[Len(got) + 1]
          /\ \A k \in 1..Len(got) : got'[k] = got[k]
      BY <1>1, <2>3, <2>4, AppendProperties DEF Awaited
    <3>2. ASSUME NEW k \in 1..Len(got') PROVE got'[k] = sent[k]
      <4>1. k \in 1..Len(got) \/ k = Len(got) + 1
        BY <1>1, <3>1
      <4>. QED BY <1>1, <3>1, <4>1
    <3>3. Len(got') <= Len(sent) /\ sent' = sent
      BY <1>1, <2>1, <2>3, <3>1
    <3>4. Produced(sent, got')
      BY <3>2, <3>3 DEF Produced
    <3>. QED BY <3>3, <3>4
  <2>7. w \in Seq(Nat) /\ rest \in Seq(Nat) /\ Len(w) \in Nat
    BY <2>3, FrameShape, FlattenAppend, LenProperties
  <2>8. a \in Seq(Nat) /\ Len(a) = bytesRead /\ \A i \in 1..bytesRead : a[i] = buffer[i]
    BY InBufferTyped
  <2>9. b \in Seq(Nat) /\ Len(b) = bytesRead' /\ \A i \in 1..bytesRead' : b[i] = buffer'[i]
    BY InBufferPrimed
  <2>10. \A i \in 1..bytesRead : i <= Len(w) => buffer[i] = w[i]
    BY <2>1, FirstBytes
  <2>. HIDE DEF w, a, b, ff, rest
  <2>11. Joins(a, w, b)
    <3>1. Len(w) <= bytesRead /\ bytesRead' = bytesRead - Len(w)
      BY <2>1, <2>2
    <3>2. ASSUME NEW i \in 1..Len(w) PROVE a[i] = w[i]
      <4>1. i \in 1..bytesRead /\ i <= Len(w)
        BY <1>1, <2>7, <3>1
      <4>. QED BY <2>8, <2>10, <4>1
    <3>3. ASSUME NEW i \in 1..Len(b) PROVE a[Len(w) + i] = b[i]
      <4>1. i \in 1..(bytesRead - RangeEnd(h)) /\ i \in 1..bytesRead' /\ Len(w) + i \in 1..bytesRead
        BY <1>1, <2>2, <2>7, <2>9, <3>1
      <4>2. buffer'[i] = buffer[Len(w) + i]
        BY <2>1, <2>2, <4>1
      <4>. QED BY <2>8, <2>9, <4>1, <4>2
    <3>4. Len(a) = Len(w) + Len(b) /\ Len(b) \in Nat
      BY <1>1, <2>7, <2>8, <2>9, <3>1
    <3>. QED BY <2>7, <3>2, <3>3, <3>4 DEF Joins
  <2>12. a = w \o b
    BY <2>7, <2>8, <2>9, <2>11, JoinsIsConcat
  <2>13. (w \o b) \o wire = w \o (b \o wire)
    <3>1. w \in Seq(Nat) /\ b \in Seq(Nat) /\ wire \in Seq(Nat)
      BY <1>1, <2>7, <2>9
    <3>. QED BY ONLY <3>1, ConcatAssociative, SMTT(30)
  <2>14. b \o wire = rest
    <3>1. w \o (b \o wire) = w \o rest
      BY <2>3, <2>12, <2>13
    <3>2. w \in Seq(Nat) /\ b \o wire \in Seq(Nat) /\ rest \in Seq(Nat)
      BY <1>1, <2>7, <2>9, ConcatProperties
    <3>. QED BY ONLY <3>1, <3>2, ConcatSimplifications
  <2>. QED BY <1>3, <2>1, <2>5, <2>6, <2>14 DEF b, ff, rest
<1>10. ASSUME NEW n \in Sizes, WriteMessage(n) PROVE StreamInv'
  <2>. DEFINE m == Payload(Len(sent) + 1, n)
              w == FrameMessage(m)
              a == InBuffer
              ff == Frames(sent, got)
  <2>1. /\ sent' = Append(sent, m) /\ wire' = wire \o w
        /\ UNCHANGED <<buffer, bytesRead, got>>
    BY <1>10 DEF WriteMessage, frame
  <2>2. m \in Seq(Nat)
    BY <1>1, PayloadTyped
  <2>3. w \in Seq(Nat)
    BY <2>2, FrameShape
  <2>4. Frames(sent', got') = Append(ff, w)
    <3>. HIDE DEF m
    <3>. QED BY <1>1, <2>1, <2>2, FramesAppend
  <2>5. ff \in Seq(Seq(Nat))
    BY <1>1, FramesTyped
  <2>6. InBuffer' = a
    BY <2>1 DEF InBuffer
  <2>7. a \in Seq(Nat)
    BY InBufferTyped
  <2>8. Produced(sent', got')
    <3>. HIDE DEF m
    <3>1. Len(sent') = Len(sent) + 1 /\ \A k \in 1..Len(sent) : sent'[k] = sent[k]
      BY <1>1, <2>1, <2>2, AppendProperties
    <3>2. \A k \in 1..Len(got) : k \in 1..Len(sent)
      BY <1>1
    <3>3. \A k \in 1..Len(got) : got[k] = sent'[k]
      BY <1>1, <3>1, <3>2
    <3>4. Len(got) <= Len(sent')
      BY <1>1, <3>1
    <3>. QED BY <2>1, <3>3, <3>4 DEF Produced
  <2>. HIDE DEF m, w, a, ff
  <2>9. FlattenSeq(Append(ff, w)) = FlattenSeq(ff) \o w
    BY <2>3, <2>5, FlattenAppend
  <2>10. (a \o wire) \o w = a \o (wire \o w)
    <3>1. a \in Seq(Nat) /\ wire \in Seq(Nat) /\ w \in Seq(Nat)
      BY <1>1, <2>3, <2>7
    <3>. QED BY ONLY <3>1, ConcatAssociative
  <2>11. a \o wire = FlattenSeq(ff)
    BY <1>2 DEF a, ff
  <2>12. InBuffer' \o wire' = FlattenSeq(Frames(sent', got'))
    BY <2>1, <2>4, <2>6, <2>9, <2>10, <2>11
  <2>. QED BY <1>3, <2>8, <2>12
<1>11. TryNothing \/ CloseLink \/ UNCHANGED vars => UNCHANGED <<buffer, bytesRead, wire, sent, got>>
  BY DEF TryNothing, CloseLink, vars, frame, peer
<1>. QED BY <1>5, <1>6, <1>7, <1>8, <1>9, <1>10, <1>11 DEF Next, ReaderStep, PeerStep

\* At the start there is no stream.
LEMMA StreamInit == Init => StreamInv
<1>. SUFFICES ASSUME Init PROVE StreamInv
  OBVIOUS
<1>1. buffer = <<>> /\ bytesRead = 0 /\ wire = <<>> /\ sent = <<>> /\ got = <<>>
  BY DEF Init
<1>2. Produced(sent, got)
  BY <1>1 DEF Produced
<1>3. Missing = <<>>
  <2>1. <<>> \in Seq(Seq(Nat)) /\ Len(<<>>) = 0
    BY EmptySeq
  <2>2. Frames(<<>>, <<>>) \in Seq(Seq(Nat)) /\ Len(Frames(<<>>, <<>>)) = 0
    <3>. DEFINE e == <<>>
    <3>1. e \in Seq(Seq(Nat)) /\ Len(e) <= Len(e) /\ Len(e) - Len(e) = 0
      BY <2>1
    <3>. HIDE DEF e
    <3>2. Frames(e, e) \in Seq(Seq(Nat)) /\ Len(Frames(e, e)) = 0
      BY <3>1, FramesTyped
    <3>. QED BY <3>2 DEF e
  <2>3. Frames(<<>>, <<>>) = <<>>
    BY <2>2, EmptySeq
  <2>. QED BY <1>1, <2>3 DEF Missing, Frames
<1>4. SubSeq(buffer, 1, bytesRead) = <<>>
  <2>1. buffer \in Seq(Nat) /\ Len(buffer) = 0 /\ 0 \in Nat
    BY <1>1, EmptySeq
  <2>2. SubSeq(buffer, 1, 0) \in Seq(Nat) /\ Len(SubSeq(buffer, 1, 0)) = 0
    BY <2>1, FrontProperties
  <2>. QED BY <1>1, <2>2, EmptySeq
<1>5. NothingLost
  <2>1. <<>> \in Seq(Seq(Nat)) /\ <<>> \in Seq(Nat)
    BY EmptySeq
  <2>2. FlattenSeq(<<>>) = <<>>
    BY <2>1, FlattenAppend
  <2>3. <<>> \o <<>> = <<>>
    BY <2>1, ConcatEmptySeq
  <2>. QED BY <1>1, <1>3, <1>4, <2>2, <2>3 DEF NothingLost
<1>. QED BY <1>2, <1>5 DEF StreamInv

\* Only the sending of a heartbeat counts one.
LEMMA BeatsStep ==
  ASSUME [Next]_vars, ~WriteHeartbeat
  PROVE  beats' = beats
  BY DEF Next, ReaderStep, PeerStep, Read, ReadNothing, ReadFailed, TryNothing, TryHeartbeat,
         TryMessage, TryMalformed, Parsing, WriteMessage, CloseLink, peer, vars

\* The invariant, until the first heartbeat.
LEMMA StreamCorrect == Spec => [](TypeOK /\ (beats = 0 => StreamInv))
<1>1. Init => (beats = 0 => StreamInv)
  BY StreamInit
<1>2. TypeOK /\ TypeOK' /\ (beats = 0 => StreamInv) /\ [Next]_vars => (beats = 0 => StreamInv)'
  <2>. SUFFICES ASSUME TypeOK, TypeOK', beats = 0 => StreamInv, [Next]_vars, beats' = 0 PROVE StreamInv'
    OBVIOUS
  <2>1. beats \in Nat
    BY DEF TypeOK
  <2>2. ~WriteHeartbeat
    BY <2>1 DEF WriteHeartbeat
  <2>3. beats' = beats
    BY <2>2, BeatsStep
  <2>. QED BY <2>2, <2>3, StreamStep
<1>. QED BY <1>1, <1>2, TypeCorrect, PTL DEF Spec

\* Until a heartbeat is sent, the bytes in the buffer and on the wire are exactly
\* the frames of the messages sent and not yet produced, for any sizes of the
\* messages and of the buffer and however the stream is cut.
THEOREM NothingLostCorrect == Spec => [](beats = 0 => NothingLost)
<1>1. StreamInv => NothingLost
  BY DEF StreamInv
<1>. QED BY <1>1, StreamCorrect, PTL

\* And the messages produced are those sent, whole and in order: only heartbeats,
\* which the code drops from the wrong end, can break that.
THEOREM InOrderCorrect == Spec => [](beats = 0 => InOrder)
<1>1. TypeOK /\ StreamInv => InOrder
  <2>. SUFFICES ASSUME TypeOK, StreamInv PROVE InOrder
    OBVIOUS
  <2>1. /\ sent \in Seq(Seq(Nat)) /\ got \in Seq(Seq(Nat)) /\ Len(got) \in Nat
        /\ Len(got) <= Len(sent) /\ \A k \in 1..Len(got) : got[k] = sent[k]
    BY LenProperties DEF TypeOK, StreamInv, Produced
  <2>. DEFINE a == SubSeq(got, 1, Len(got))
              b == SubSeq(sent, 1, Len(got))
  <2>2. a \in Seq(Seq(Nat)) /\ Len(a) = Len(got) /\ \A k \in 1..Len(got) : a[k] = got[k]
    BY <2>1, FrontProperties
  <2>3. b \in Seq(Seq(Nat)) /\ Len(b) = Len(got) /\ \A k \in 1..Len(got) : b[k] = sent[k]
    BY <2>1, FrontProperties
  <2>. HIDE DEF a, b
  <2>4. \A k \in 1..Len(a) : a[k] = b[k]
    BY <2>1, <2>2, <2>3
  <2>5. a = b
    BY <2>2, <2>3, <2>4, SeqEqual
  <2>. QED BY <2>1, <2>5 DEF InOrder, IsPrefix, a, b
<1>. QED BY <1>1, StreamCorrect, PTL

\* Every step is a step of the pipe, or none of its own.
LEMMA PipeStep ==
  ASSUME TypeOK, StreamInv, [Next]_vars, ~WriteHeartbeat
  PROVE  [P!Put \/ P!Get]_<<sent, got>>
<1>1. sent \in Seq(Seq(Nat)) /\ Len(sent) \in Nat /\ MaxSent \in Nat
  BY FrameAssumption, LenProperties DEF TypeOK
<1>2. ASSUME NEW n \in Sizes, WriteMessage(n) PROVE P!Put
  <2>. DEFINE m == Payload(Len(sent) + 1, n)
  <2>1. Len(sent) + 1 \in 1..MaxSent
    BY <1>1, <1>2 DEF WriteMessage
  <2>2. m \in Messages
    BY <2>1 DEF Messages
  <2>3. sent' = Append(sent, m) /\ got' = got
    BY <1>2 DEF WriteMessage
  <2>. HIDE DEF m
  <2>. QED BY <2>2, <2>3 DEF P!Put
<1>3. ASSUME TryMessage PROVE P!Get
  <2>1. PICK h \in {Small, Large} :
          /\ bytesRead > 0 /\ buffer[1] = h /\ HasRange(h) /\ RangeEnd(h) <= bytesRead
          /\ got' = Append(got, SubSeq(buffer, HeaderLen(h) + 1, RangeEnd(h)))
          /\ sent' = sent
    BY <1>3, TakeProperties
  <2>2. h = HeaderOf(Awaited) /\ RangeEnd(h) = Len(FrameMessage(Awaited))
    BY <2>1, FirstHeader
  <2>3. got' = Append(got, Awaited)
    BY <2>1, <2>2, FirstPayload
  <2>4. Len(got) < Len(sent)
    BY <2>1, FirstFrame
  <2>. QED BY <2>1, <2>3, <2>4 DEF P!Get, Awaited
<1>4. ASSUME \E n \in 1..Len(wire) : Read(n) PROVE UNCHANGED <<sent, got>>
  BY <1>4 DEF Read
<1>5. ReadNothing \/ ReadFailed \/ TryNothing \/ TryHeartbeat \/ TryMalformed \/ CloseLink \/ UNCHANGED vars
      => UNCHANGED <<sent, got>>
  BY DEF ReadNothing, ReadFailed, TryNothing, TryHeartbeat, TryMalformed, Parsing, CloseLink, peer, vars
<1>. QED BY <1>2, <1>3, <1>4, <1>5 DEF Next, ReaderStep, PeerStep

\* Without heartbeats the framed stream implements a pipe of whole messages,
\* whatever the sizes and however the stream is cut.
THEOREM FrameIsPipe == MaxBeats = 0 /\ Spec => IsPipe
<1>. DEFINE Quiet == MaxBeats = 0 /\ beats = 0
<1>1. MaxBeats = 0 /\ Init => P!PipeInit /\ Quiet
  BY DEF Init, P!PipeInit
<1>2. Quiet /\ [Next]_vars => Quiet'
  BY BeatsStep DEF WriteHeartbeat
<1>3. TypeOK /\ (beats = 0 => StreamInv) /\ Quiet /\ [Next]_vars => [P!Put \/ P!Get]_<<sent, got>>
  BY PipeStep DEF WriteHeartbeat
<1>. HIDE DEF Quiet
<1>4. MaxBeats = 0 /\ Spec => P!PipeInit /\ [][P!Put \/ P!Get]_<<sent, got>>
  BY <1>1, <1>2, <1>3, StreamCorrect, PTL DEF Spec
<1>. QED BY <1>4, PTL DEF IsPipe, P!PipeSpec

-----------------------------------------------------------------------------
(* The loop reads to the end of the stream                                 *)

\* The largest frame fits: the capacity, which doubles, stays below the limit
\* until the frame is complete.
Roomy == BufSize < MaxBufSize /\ \A n \in Sizes : 2 * (n + BufSize + 3) < MaxBufSize

\* The inductive invariant: the buffer can grow whenever it is full, and whenever
\* the loop reads, the frame at the front is not complete.
RoomInv ==
  /\ BufSize <= capacity /\ capacity < MaxBufSize
  /\ \A k \in 1..Len(sent) : Len(sent[k]) \in Sizes
  /\ reader = "read" => bytesRead = 0 \/ bytesRead < Len(FrameMessage(Awaited))
  /\ ReadsToTheEnd

\* The growth for an incomplete frame stays below the limit.
LEMMA RoomToGrow ==
  ASSUME TypeOK, StreamInv, Roomy, RoomInv, reader = "read"
  PROVE  BufSize <= GrownCapacity /\ GrownCapacity < MaxBufSize
<1>1. /\ capacity \in Nat /\ bytesRead \in Nat /\ BufSize \in Nat \ {0} /\ MaxBufSize \in Nat
      /\ BufSize <= capacity /\ capacity < MaxBufSize
  BY FrameAssumption DEF TypeOK, RoomInv
<1>2. CASE ~Grows
  BY <1>1, <1>2 DEF GrownCapacity
<1>3. CASE Grows
  <2>1. Len(buffer) = bytesRead /\ GrownCapacity = Reserve(capacity, bytesRead + BufSize)
    BY <1>3 DEF Grows, Full, GrownCapacity
  <2>2. CASE bytesRead = 0
    BY <1>1, <2>1, <2>2 DEF Reserve
  <2>3. CASE bytesRead # 0
    <3>. DEFINE n == Len(Awaited)
    <3>1. Len(got) < Len(sent) /\ Awaited \in Seq(Nat)
      BY <1>1, <2>3, FirstFrame DEF Awaited
    <3>2. n \in Sizes
      <4>1. Len(got) + 1 \in 1..Len(sent)
        BY <3>1, LenProperties DEF TypeOK
      <4>. QED BY <4>1 DEF RoomInv, Awaited
    <3>3. n \in Nat /\ 2 * (n + BufSize + 3) < MaxBufSize
      BY <3>1, <3>2, LenProperties DEF Roomy
    <3>4. Len(FrameMessage(Awaited)) = HeaderLen(HeaderOf(Awaited)) + n
      BY <3>1, FrameShape
    <3>5. HeaderLen(HeaderOf(Awaited)) \in {2, 5}
      BY DEF HeaderLen
    <3>6. bytesRead < Len(FrameMessage(Awaited))
      BY <2>3 DEF RoomInv
    <3>. HIDE DEF n
    <3>7. bytesRead < n + 5
      BY <1>1, <3>3, <3>4, <3>5, <3>6
    <3>. QED BY <1>1, <2>1, <3>3, <3>7 DEF Reserve
  <2>. QED BY <2>2, <2>3
<1>. QED BY <1>2, <1>3

\* A step keeps that, as long as it is not the sending of a heartbeat.
LEMMA RoomStep ==
  ASSUME TypeOK, TypeOK', StreamInv, Roomy, RoomInv, [Next]_vars, ~WriteHeartbeat
  PROVE  RoomInv'
<1>1. /\ capacity \in Nat /\ bytesRead \in Nat /\ BufSize \in Nat \ {0} /\ MaxBufSize \in Nat
      /\ Len(buffer) \in Nat /\ bytesRead <= Len(buffer)
      /\ sent \in Seq(Seq(Nat)) /\ Len(sent) \in Nat /\ Len(got) \in Nat
      /\ BufSize <= capacity /\ capacity < MaxBufSize
      /\ \A k \in 1..Len(sent) : Len(sent[k]) \in Sizes
  BY FrameAssumption, LenProperties DEF TypeOK, RoomInv
<1>2. ASSUME NEW n \in 1..Len(wire), Read(n) PROVE RoomInv'
  <2>1. reader = "read" /\ capacity' = GrownCapacity /\ reader' = "parse" /\ sent' = sent
    BY <1>2 DEF Read
  <2>2. BufSize <= capacity' /\ capacity' < MaxBufSize
    BY <2>1, RoomToGrow
  <2>. QED BY <1>1, <2>1, <2>2 DEF RoomInv, ReadsToTheEnd
<1>3. ASSUME ReadNothing PROVE RoomInv'
  <2>1. /\ reader = "read" /\ capacity' = GrownCapacity /\ reader' = "done"
        /\ (link = "closed" /\ wire = <<>>) \/ Len(Grown) = bytesRead
        /\ UNCHANGED <<bytesRead, got, wire, link, sent, beats>>
    BY <1>3 DEF ReadNothing, peer
  <2>2. BufSize <= capacity' /\ capacity' < MaxBufSize
    BY <2>1, RoomToGrow
  <2>3. Len(Grown) # bytesRead
    <3>. SUFFICES ASSUME Len(Grown) = bytesRead PROVE FALSE
      OBVIOUS
    <3>1. Len(Grown) = IF Grows THEN Len(buffer) + BufSize ELSE Len(buffer)
      BY GrownProperties
    <3>2. Len(buffer) = bytesRead
      BY <1>1, <3>1
    <3>3. Grows
      BY <1>1, <3>2 DEF Grows, Full
    <3>. QED BY <1>1, <3>1, <3>2, <3>3
  <2>4. bytesRead = 0
    <3>. SUFFICES ASSUME bytesRead > 0 PROVE FALSE
      BY <1>1
    <3>. DEFINE a == InBuffer
                w == FrameMessage(Awaited)
                r == FlattenSeq(Tail(Frames(sent, got)))
    <3>1. a \o wire = w \o r /\ Awaited \in Seq(Nat) /\ Tail(Frames(sent, got)) \in Seq(Seq(Nat))
      BY FirstFrame DEF Awaited
    <3>2. a \in Seq(Nat) /\ Len(a) = bytesRead
      BY InBufferTyped
    <3>3. w \in Seq(Nat) /\ r \in Seq(Nat) /\ Len(w) \in Nat /\ Len(r) \in Nat
      BY <3>1, FrameShape, FlattenAppend, LenProperties
    <3>4. bytesRead < Len(w)
      BY <2>1 DEF RoomInv
    <3>. HIDE DEF a, w, r
    <3>5. a \o wire = a
      BY <2>1, <2>3, <3>2, ConcatEmptySeq
    <3>6. Len(w \o r) = Len(w) + Len(r)
      BY <3>3, ConcatProperties
    <3>. QED BY <1>1, <3>1, <3>2, <3>3, <3>4, <3>5, <3>6
  <2>5. ReadsToTheEnd'
    BY <2>1, <2>3, <2>4 DEF ReadsToTheEnd
  <2>. QED BY <1>1, <2>1, <2>2, <2>5 DEF RoomInv
<1>4. ASSUME ReadFailed PROVE RoomInv'
  <2>1. /\ reader = "read" /\ link = "broken" /\ capacity' = GrownCapacity /\ reader' = "done"
        /\ UNCHANGED <<bytesRead, got, wire, link, sent, beats>>
    BY <1>4 DEF ReadFailed, peer
  <2>2. BufSize <= capacity' /\ capacity' < MaxBufSize
    BY <2>1, RoomToGrow
  <2>. QED BY <1>1, <2>1, <2>2 DEF RoomInv, ReadsToTheEnd
<1>5. ASSUME TryNothing PROVE RoomInv'
  <2>1. /\ reader' = "read" /\ UNCHANGED <<buffer, capacity, bytesRead, got, wire, link, sent, beats>>
        /\ bytesRead = 0 \/ \E h \in {Small, Large} : bytesRead > 0 /\ buffer[1] = h /\ Incomplete(h)
    BY <1>5 DEF TryNothing, frame, peer
  <2>2. bytesRead = 0 \/ bytesRead < Len(FrameMessage(Awaited))
    <3>. SUFFICES ASSUME bytesRead # 0 PROVE bytesRead < Len(FrameMessage(Awaited))
      OBVIOUS
    <3>. DEFINE h == HeaderOf(Awaited)
    <3>1. bytesRead > 0 /\ Incomplete(h)
      <4>1. PICK g \in {Small, Large} : bytesRead > 0 /\ buffer[1] = g /\ Incomplete(g)
        BY <2>1
      <4>2. g = h
        BY <4>1, FirstHeader
      <4>. QED BY <4>1, <4>2
    <3>2. HasRange(h) => RangeEnd(h) = Len(FrameMessage(Awaited))
      BY <3>1, FirstHeader
    <3>3. Len(FrameMessage(Awaited)) = HeaderLen(h) + Len(Awaited) /\ Len(Awaited) \in Nat
      BY <3>1, FirstFrame, FrameShape, LenProperties DEF Awaited
    <3>4. HeaderLen(h) \in {2, 5}
      BY DEF HeaderLen
    <3>. HIDE DEF h
    <3>5. CASE HasRange(h)
      BY <1>1, <3>1, <3>2, <3>3, <3>4, <3>5 DEF Incomplete
    <3>6. CASE ~HasRange(h)
      BY <1>1, <3>3, <3>4, <3>6 DEF HasRange
    <3>. QED BY <3>5, <3>6
  <2>3. Awaited' = Awaited
    BY <2>1 DEF Awaited
  <2>4. FrameMessage(Awaited)' = FrameMessage(Awaited)
    BY <2>3 DEF FrameMessage, ToBigEndian, High
  <2>. QED BY <1>1, <2>1, <2>2, <2>4 DEF RoomInv, ReadsToTheEnd
<1>6. ASSUME TryMessage PROVE RoomInv'
  <2>1. reader = "parse" /\ UNCHANGED <<capacity, reader, wire, link, sent, beats>>
    BY <1>6, TakeProperties
  <2>. QED BY <1>1, <2>1 DEF RoomInv, ReadsToTheEnd
<1>7. ASSUME NEW n \in Sizes, WriteMessage(n) PROVE RoomInv'
  <2>. DEFINE m == Payload(Len(sent) + 1, n)
  <2>1. /\ link = "open" /\ sent' = Append(sent, m)
        /\ UNCHANGED <<buffer, capacity, bytesRead, reader, link, got, beats>>
    BY <1>7 DEF WriteMessage, frame
  <2>2. m \in Seq(Nat) /\ Len(m) = n
    BY <1>1, PayloadTyped
  <2>. HIDE DEF m
  <2>3. /\ Len(sent') = Len(sent) + 1 /\ sent'[Len(sent) + 1] = m
        /\ \A k \in 1..Len(sent) : sent'[k] = sent[k]
    BY <1>1, <2>1, <2>2, AppendProperties
  <2>4. ASSUME NEW k \in 1..Len(sent') PROVE Len(sent'[k]) \in Sizes
    <3>1. k \in 1..Len(sent) \/ k = Len(sent) + 1
      BY <1>1, <2>3
    <3>. QED BY <1>1, <2>2, <2>3, <3>1
  <2>5. reader # "done"
    BY <2>1 DEF RoomInv, ReadsToTheEnd
  <2>6. ASSUME bytesRead # 0 PROVE Awaited' = Awaited
    <3>1. Len(got) < Len(sent)
      BY <1>1, <2>6, FirstFrame
    <3>2. Len(got) + 1 \in 1..Len(sent)
      BY <1>1, <3>1
    <3>. QED BY <2>1, <2>3, <3>2 DEF Awaited
  <2>7. reader = "read" => bytesRead = 0 \/ bytesRead < Len(FrameMessage(Awaited'))
    BY <2>6 DEF RoomInv
  <2>8. FrameMessage(Awaited)' = FrameMessage(Awaited')
    BY DEF FrameMessage, ToBigEndian, High
  <2>. QED BY <1>1, <2>1, <2>4, <2>5, <2>7, <2>8 DEF RoomInv, ReadsToTheEnd
<1>8. ASSUME CloseLink PROVE RoomInv'
  <2>1. /\ link = "open"
        /\ UNCHANGED <<buffer, capacity, bytesRead, reader, wire, sent, got, beats>>
    BY <1>8 DEF CloseLink, frame
  <2>2. reader # "done"
    BY <2>1 DEF RoomInv, ReadsToTheEnd
  <2>3. Awaited' = Awaited
    BY <2>1 DEF Awaited
  <2>. QED BY <2>1, <2>2, <2>3 DEF RoomInv, ReadsToTheEnd
<1>9. ASSUME UNCHANGED vars PROVE RoomInv'
  <2>1. Awaited' = Awaited
    BY <1>9 DEF vars, Awaited
  <2>. QED BY <1>9, <2>1 DEF vars, RoomInv, ReadsToTheEnd
<1>. QED BY <1>2, <1>3, <1>4, <1>5, <1>6, <1>7, <1>8, <1>9, OnlyMessages DEF Next, ReaderStep, PeerStep

\* When the buffer can hold the largest message, the reading loop ends only at
\* the end of the stream or with an error of it, until a heartbeat is sent.
THEOREM ReadsToTheEndCorrect == Roomy /\ Spec => [](beats = 0 => ReadsToTheEnd)
<1>. DEFINE Inv == beats = 0 => RoomInv
            Old == TypeOK /\ (beats = 0 => StreamInv)
<1>1. Roomy /\ Init => Inv
  <2>. SUFFICES ASSUME Roomy, Init PROVE RoomInv
    OBVIOUS
  <2>1. sent = <<>> /\ Len(sent) = 0
    BY EmptySeq DEF Init
  <2>2. capacity = BufSize /\ bytesRead = 0 /\ reader = "read" /\ BufSize \in Nat /\ BufSize < MaxBufSize
    BY FrameAssumption DEF Init, Roomy
  <2>. QED BY <2>1, <2>2 DEF RoomInv, ReadsToTheEnd
<1>2. Old /\ Old' /\ Roomy /\ Inv /\ [Next]_vars => Inv'
  <2>. SUFFICES ASSUME Old, Old', Roomy, Inv, [Next]_vars, beats' = 0 PROVE RoomInv'
    OBVIOUS
  <2>1. ~WriteHeartbeat
    BY DEF TypeOK, WriteHeartbeat
  <2>2. beats' = beats
    BY <2>1, BeatsStep
  <2>. QED BY <2>1, <2>2, RoomStep
<1>3. Roomy => Roomy'
  BY DEF Roomy
<1>4. Inv => (beats = 0 => ReadsToTheEnd)
  BY DEF RoomInv
<1>. HIDE DEF Inv
<1>. QED BY <1>1, <1>2, <1>3, <1>4, StreamCorrect, PTL DEF Spec
=============================================================================

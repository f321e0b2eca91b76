---------------------------- MODULE ClientProofs ----------------------------
(***************************************************************************)
(* Proofs about Client, for any bounds, heartbeats and socket sizes: the   *)
(* types, and what the writer writes.                                      *)
(***************************************************************************)
EXTENDS Client, SequenceLemmas, FiniteSetTheorems

-----------------------------------------------------------------------------
(* Type correctness                                                        *)

\* What the tasks and the application put into the queue is a ClientMessage.
LEMMA MessagesTyped ==
  /\ {Quit, Heartbeat, Raw} \subseteq ClientMessage
  /\ \A k \in 1..MaxSends : Payload(k) \in ClientMessage
  BY DEF ClientMessage

\* The messages sent can be counted.
LEMMA SentTyped ==
  ASSUME accepted \in Seq(ClientMessage)
  PROVE  Sent \in Nat
<1>1. IsFiniteSet(DOMAIN accepted)
  BY FS_Interval, LenProperties
<1>2. IsFiniteSet({i \in DOMAIN accepted : accepted[i].kind \in {"Payload", "Raw"}})
  BY <1>1, FS_Subset
<1>. QED BY <1>2, FS_CardinalityType DEF Sent, Count

\* The channel of the writer keeps its types when m is put in.
LEMMA EnqueueTyped ==
  ASSUME TypeOK, NEW m \in ClientMessage, Enqueue(m)
  PROVE  /\ queue' \in Seq(ClientMessage) /\ accepted' \in Seq(ClientMessage)
         /\ writer = "done" => queue' = <<>>
<1>1. queue \in Seq(ClientMessage) /\ accepted \in Seq(ClientMessage) /\ (writer = "done" => queue = <<>>)
  BY DEF TypeOK
<1>2. Append(queue, m) \in Seq(ClientMessage) /\ Append(accepted, m) \in Seq(ClientMessage)
  BY <1>1, AppendProperties
<1>. QED BY <1>1, <1>2 DEF Enqueue

\* A client starts with its types.
LEMMA TypeInit == Init => TypeOK
<1>. SUFFICES ASSUME Init PROVE TypeOK
  OBVIOUS
<1>1. <<>> \in Seq(ClientMessage) /\ <<>> \in Seq(Frames)
  BY EmptySeq
<1>2. 0 \in Nat /\ 0 \in 0..MaxFrames /\ 0 \in 0..WireRoom
  BY ClientAssumption
<1>. QED BY <1>1, <1>2 DEF Init, TypeOK

\* The heartbeat keeps the types.
LEMMA HeartbeatTyped ==
  ASSUME TypeOK, HeartbeatStep
  PROVE  TypeOK'
<1>1. CASE BeatPanics
  BY <1>1 DEF BeatPanics, TypeOK, made, writing, reading, peer
<1>2. CASE Beat
  BY <1>2, EnqueueTyped, MessagesTyped DEF Beat, TypeOK, made, reading, peer
<1>. QED BY <1>1, <1>2 DEF HeartbeatStep

\* The reader keeps the types.
LEMMA ReaderTyped ==
  ASSUME TypeOK, ReaderStep
  PROVE  TypeOK'
<1>1. ASSUME NEW kind, Reads(kind) PROVE inbound' \in Seq(Frames)
  BY <1>1, HeadTailProperties DEF Reads, TypeOK
<1>2. ASSUME EndReader
      PROVE  queue' \in Seq(ClientMessage) /\ accepted' \in Seq(ClientMessage) /\ (writer = "done" => queue' = <<>>)
  BY <1>2, EnqueueTyped, MessagesTyped DEF EndReader
<1>3. CASE ReadMessage
  BY <1>1, <1>3 DEF ReadMessage, Reads, TypeOK, made, writing, peer
<1>4. CASE ReadHeartbeat
  BY <1>1, <1>4 DEF ReadHeartbeat, Reads, TypeOK, made, writing, reading, peer
<1>5. CASE ReadMalformed
  BY <1>1, <1>2, <1>5 DEF ReadMalformed, EndReader, Reads, TypeOK, made, peer
<1>6. CASE ReadUnset
  BY <1>1, <1>6 DEF ReadUnset, Reads, TypeOK, made, writing, peer
<1>7. CASE ReadEnd
  BY <1>2, <1>7 DEF ReadEnd, EndReader, TypeOK, made, peer
<1>. QED BY <1>3, <1>4, <1>5, <1>6, <1>7 DEF ReaderStep

\* The writer keeps the types.
LEMMA WriterTyped ==
  ASSUME TypeOK, WriterStep
  PROVE  TypeOK'
<1>1. ASSUME EndWriter, UNCHANGED <<made, beat, reading, holds, peer>> PROVE TypeOK'
  BY <1>1, EmptySeq DEF EndWriter, TypeOK, made, reading, peer
<1>2. CASE WriteStop \/ WriteFailed \/ WriteClosed
  BY <1>1, <1>2 DEF WriteStop, WriteFailed, WriteClosed, Takes
<1>3. CASE Write
  <2>1. PICK m \in ClientMessage :
          /\ Takes(m) /\ wire < WireRoom /\ wire' = wire + 1
          /\ queue' = Tail(queue) /\ written' = Append(written, m)
          /\ UNCHANGED <<accepted, writer, shut>>
    BY <1>3 DEF Write
  <2>2. queue' \in Seq(ClientMessage) /\ written' \in Seq(ClientMessage)
    BY <2>1, HeadTailProperties, AppendProperties DEF Takes, TypeOK
  <2>3. wire' \in 0..WireRoom
    BY <2>1, ClientAssumption DEF TypeOK
  <2>. QED BY <2>1, <2>2, <2>3 DEF Takes, TypeOK, made, reading, peer
<1>. QED BY <1>2, <1>3 DEF WriterStep

\* What the application sends is a message.
LEMMA AppSendTyped ==
  ASSUME TypeOK, NEW m \in {Payload(Sent + 1), Raw, Quit}, AppSend(m)
  PROVE  m \in ClientMessage
<1>1. CASE m \in {Raw, Quit}
  BY <1>1, MessagesTyped
<1>2. CASE m \notin {Raw, Quit}
  <2>1. m = Payload(Sent + 1) /\ Sent < MaxSends
    BY <1>2 DEF AppSend
  <2>2. Sent + 1 \in 1..MaxSends
    BY <2>1, SentTyped, ClientAssumption DEF TypeOK
  <2>. QED BY <2>1, <2>2, MessagesTyped
<1>. QED BY <1>1, <1>2

\* The application keeps the types.
LEMMA AppTyped ==
  ASSUME TypeOK, AppStep
  PROVE  TypeOK'
<1>1. ASSUME NEW m \in {Payload(Sent + 1), Raw, Quit}, AppSend(m) PROVE TypeOK'
  <2>1. m \in ClientMessage
    BY <1>1, AppSendTyped
  <2>. QED BY <1>1, <2>1, EnqueueTyped DEF AppSend, TypeOK, made, reading, peer
<1>2. CASE AppRecv
  BY <1>2 DEF AppRecv, TypeOK, made, writing, peer
<1>3. ASSUME NEW end \in {"sender", "receiver"}, AppDrops(end) PROVE TypeOK'
  BY <1>3 DEF AppDrops, TypeOK, made, writing, peer
<1>. QED BY <1>1, <1>2, <1>3 DEF AppStep

\* The peer keeps the types.
LEMMA PeerTyped ==
  ASSUME TypeOK, PeerStep
  PROVE  TypeOK'
<1>1. CASE PeerSends
  <2>1. frames' \in 0..MaxFrames
    BY <1>1, ClientAssumption DEF PeerSends, TypeOK
  <2>2. inbound' \in Seq(Frames)
    BY <1>1, AppendProperties DEF PeerSends, TypeOK
  <2>. QED BY <1>1, <2>1, <2>2 DEF PeerSends, TypeOK, made, writing, reading
<1>2. CASE PeerReads
  BY <1>2, ClientAssumption DEF PeerReads, TypeOK, made, reading, peer
<1>3. CASE PeerSeesEnd \/ LinkEnds
  BY <1>3 DEF PeerSeesEnd, LinkEnds, TypeOK, made, writing, reading
<1>. QED BY <1>1, <1>2, <1>3 DEF PeerStep

\* Every step keeps the types.
LEMMA TypeStep ==
  ASSUME TypeOK, [Next]_vars
  PROVE  TypeOK'
<1>1. CASE UNCHANGED vars
  BY <1>1 DEF vars, TypeOK
<1>. QED BY <1>1, HeartbeatTyped, ReaderTyped, WriterTyped, AppTyped, PeerTyped DEF Next

\* Every variable keeps its type, the socket never holds more than it has room
\* for, and a channel without a receiver is empty, for any bounds
\* (src/src/client.rs, use_reader and use_writer).
THEOREM TypeCorrect == Spec => []TypeOK
<1>1. TypeOK /\ [Next]_vars => TypeOK'
  BY TypeStep
<1>. QED BY <1>1, TypeInit, PTL DEF Spec

-----------------------------------------------------------------------------
(* What the writer writes                                                  *)

Stops == {Quit, Raw}

\* While the writer runs, what it has written and what is queued is what was
\* accepted; afterwards what it has written is a beginning of that, and if the
\* connection is still there, one that ends where a Quit or Raw follows or where
\* nothing does.
DrainInv ==
  /\ \A i \in DOMAIN written : written[i] \notin Stops
  /\ writer = "run" => written \o queue = accepted
  /\ writer = "done" =>
       /\ \E rest \in Seq(ClientMessage) : accepted = written \o rest
       /\ link = "open" => \/ accepted = written
                           \/ \E rest \in Seq(ClientMessage) :
                                accepted = written \o rest /\ rest # <<>> /\ rest[1] \in Stops

\* Where the messages before the first stop end.
LEMMA BeforeStopProperties ==
  ASSUME NEW s \in Seq(ClientMessage), NEW rest \in Seq(ClientMessage),
         \A i \in DOMAIN s : s[i] \notin Stops
  PROVE  /\ IsPrefix(s, BeforeStop(s \o rest))
         /\ rest = <<>> \/ rest[1] \in Stops => s = BeforeStop(s \o rest)
<1>. DEFINE t == s \o rest
            n == Len(s)
            stops == {i \in DOMAIN t : t[i] \in Stops}
<1>1. n \in Nat /\ DOMAIN s = 1..n /\ Len(rest) \in Nat /\ \A i \in 1..n : s[i] \in ClientMessage
  BY LenProperties, ElementOfSeq
<1>2. t \in Seq(ClientMessage) /\ Len(t) = n + Len(rest) /\ DOMAIN t = 1..(n + Len(rest))
  BY <1>1, ConcatProperties, LenProperties
<1>3. \A i \in 1..(n + Len(rest)) : t[i] = IF i <= n THEN s[i] ELSE rest[i - n]
  BY <1>1, ConcatProperties
<1>4. \A i \in DOMAIN t : t[i] \in ClientMessage
  BY <1>2, ElementOfSeq
<1>5. BeforeStop(t) = IF stops = {} THEN t ELSE SubSeq(t, 1, Min(stops) - 1)
  BY DEF BeforeStop, Stops
<1>. HIDE DEF t, stops
<1>6. s = SubSeq(s, 1, n)
  BY SubSeqFull
\* A sequence that goes on where s ends.
<1>7. ASSUME NEW u \in Seq(ClientMessage), n <= Len(u), \A i \in 1..n : u[i] = t[i]
      PROVE  IsPrefix(s, u) /\ (Len(u) = n => s = u)
  <2>1. Len(u) \in Nat /\ \A i \in 1..n : u[i] = s[i] /\ u[i] \in ClientMessage
    BY <1>1, <1>3, <1>7, LenProperties
  <2>. DEFINE v == SubSeq(u, 1, n)
  <2>2. v \in Seq(ClientMessage) /\ Len(v) = n /\ \A i \in 1..n : v[i] = u[i]
    BY <1>1, <2>1, SubSeqProperties
  <2>. HIDE DEF v
  <2>3. s = v
    BY <2>1, <2>2, SeqEqual
  <2>4. IsPrefix(s, u)
    BY <1>6, <1>7, <2>3 DEF IsPrefix, v
  <2>5. Len(u) = n => s = u
    BY <2>1, SeqEqual
  <2>. QED BY <2>4, <2>5
<1>8. stops \subseteq (n + 1)..(n + Len(rest))
  BY <1>1, <1>2, <1>3 DEF stops
<1>9. CASE stops = {}
  <2>1. BeforeStop(t) = t
    BY <1>5, <1>9
  <2>2. IsPrefix(s, t) /\ (Len(t) = n => s = t)
    <3>1. n <= Len(t) /\ \A i \in 1..n : t[i] = t[i]
      BY <1>1, <1>2
    <3>. QED BY <1>2, <1>7, <3>1
  <2>3. rest = <<>> \/ rest[1] \in Stops => Len(t) = n
    <3>1. CASE rest = <<>>
      BY <1>1, <1>2, <3>1, EmptySeq
    <3>2. ASSUME rest # <<>>, rest[1] \in Stops PROVE FALSE
      <4>1. n + 1 \in DOMAIN t /\ (n + 1) - n = 1
        BY <1>1, <1>2, <3>2, EmptySeq
      <4>2. t[n + 1] = rest[1]
        BY <1>1, <1>2, <1>3, <4>1
      <4>. QED BY <1>9, <3>2, <4>1, <4>2 DEF stops
    <3>. QED BY <3>1, <3>2
  <2>. QED BY <2>1, <2>2, <2>3 DEF t
<1>10. CASE stops # {}
  <2>. DEFINE k == Min(stops)
              u == SubSeq(t, 1, k - 1)
  <2>1. k \in stops /\ \A y \in stops : k <= y
    <3>1. stops \subseteq Nat
      BY <1>1, <1>8
    <3>. QED BY <1>10, <3>1, MinOfNats
  <2>. HIDE DEF k
  <2>2. k \in (n + 1)..(n + Len(rest))
    BY <1>8, <2>1
  <2>3. u \in Seq(ClientMessage) /\ Len(u) = k - 1 /\ \A i \in 1..(k - 1) : u[i] = t[i]
    BY <1>1, <1>2, <1>4, <2>2, SubSeqProperties
  <2>4. BeforeStop(t) = u
    BY <1>5, <1>10 DEF k
  <2>. HIDE DEF u
  <2>5. IsPrefix(s, u) /\ (Len(u) = n => s = u)
    BY <1>1, <1>7, <2>2, <2>3
  <2>6. rest = <<>> \/ rest[1] \in Stops => Len(u) = n
    <3>1. rest # <<>>
      BY <1>1, <2>2, EmptySeq
    <3>2. ASSUME rest[1] \in Stops PROVE Len(u) = n
      <4>1. n + 1 \in DOMAIN t /\ (n + 1) - n = 1
        BY <1>1, <1>2, <2>2
      <4>2. t[n + 1] = rest[1]
        BY <1>1, <1>2, <1>3, <4>1
      <4>3. k <= n + 1
        BY <2>1, <3>2, <4>1, <4>2 DEF stops
      <4>. QED BY <1>1, <2>2, <2>3, <4>3
    <3>. QED BY <3>1, <3>2
  <2>. QED BY <2>4, <2>5, <2>6 DEF t
<1>. QED BY <1>9, <1>10

\* The invariant gives the property.
LEMMA DrainsFromInv ==
  ASSUME TypeOK, DrainInv
  PROVE  Drains
<1>1. written \in Seq(ClientMessage) /\ queue \in Seq(ClientMessage) /\ <<>> \in Seq(ClientMessage)
  BY EmptySeq DEF TypeOK
<1>2. \A i \in DOMAIN written : written[i] \notin Stops
  BY DEF DrainInv
<1>3. CASE writer = "run"
  BY <1>1, <1>2, <1>3, BeforeStopProperties DEF DrainInv, Drains
<1>4. CASE writer = "done"
  <2>1. PICK rest \in Seq(ClientMessage) : accepted = written \o rest
    BY <1>4 DEF DrainInv
  <2>2. IsPrefix(written, BeforeStop(accepted))
    BY <1>1, <1>2, <2>1, BeforeStopProperties
  <2>3. ASSUME link = "open" PROVE written = BeforeStop(accepted)
    <3>1. \E r \in Seq(ClientMessage) : accepted = written \o r /\ (r = <<>> \/ r[1] \in Stops)
      BY <1>1, <1>4, <2>3, ConcatEmptySeq DEF DrainInv
    <3>. QED BY <1>1, <1>2, <3>1, BeforeStopProperties
  <2>. QED BY <1>4, <2>2, <2>3 DEF Drains
<1>. QED BY <1>3, <1>4 DEF TypeOK

\* Putting a message into the channel keeps the invariant.
LEMMA DrainEnqueue ==
  ASSUME TypeOK, DrainInv, NEW m \in ClientMessage, Enqueue(m), UNCHANGED <<writer, written>>,
         link' = "open" => link = "open"
  PROVE  DrainInv'
<1>1. CASE writer = "run"
  <2>1. accepted = written \o queue /\ queue' = Append(queue, m) /\ accepted' = Append(accepted, m)
    BY <1>1 DEF Enqueue, DrainInv
  <2>2. written \o queue' = accepted'
    BY <2>1, MoveHead, SMTT(30) DEF TypeOK
  <2>. QED BY <1>1, <2>2 DEF DrainInv
<1>2. CASE writer # "run"
  BY <1>2 DEF Enqueue, DrainInv
<1>. QED BY <1>1, <1>2

\* The writer ends for one of its reasons.
LEMMA DrainEnd ==
  ASSUME TypeOK, DrainInv, writer = "run", EndWriter, link' = link,
         queue = <<>> \/ link # "open" \/ (queue # <<>> /\ Head(queue) \in Stops)
  PROVE  DrainInv'
<1>1. accepted = written \o queue /\ UNCHANGED <<accepted, written>> /\ writer' = "done"
  BY DEF DrainInv, EndWriter
<1>2. queue \in Seq(ClientMessage)
  BY DEF TypeOK
<1>3. queue # <<>> => queue[1] = Head(queue)
  OBVIOUS
<1>4. queue = <<>> => accepted = written
  BY <1>1, ConcatEmptySeq DEF TypeOK
<1>. QED BY <1>1, <1>2, <1>3, <1>4 DEF DrainInv

\* Every step keeps the invariant.
LEMMA DrainStep ==
  ASSUME TypeOK, DrainInv, [Next]_vars
  PROVE  DrainInv'
<1>1. CASE UNCHANGED <<queue, accepted, writer, written>> /\ (link' = "open" => link = "open")
  BY <1>1 DEF DrainInv
<1>2. CASE HeartbeatStep
  BY <1>1, <1>2, DrainEnqueue, MessagesTyped DEF HeartbeatStep, BeatPanics, Beat, writing, peer
<1>3. CASE ReaderStep
  <2>1. ASSUME EndReader, link' = link PROVE DrainInv'
    BY <2>1, DrainEnqueue, MessagesTyped DEF EndReader
  <2>. QED BY <1>1, <1>3, <2>1
       DEF ReaderStep, ReadMessage, ReadHeartbeat, ReadMalformed, ReadUnset, ReadEnd, Reads, writing, peer
<1>4. CASE WriteStop \/ WriteFailed \/ WriteClosed
  BY <1>4, DrainEnd DEF WriteStop, WriteFailed, WriteClosed, Takes, peer, Stops
<1>5. CASE Write
  <2>1. PICK m \in ClientMessage \ Stops :
          /\ writer = "run" /\ queue # <<>> /\ m = Head(queue)
          /\ queue' = Tail(queue) /\ written' = Append(written, m) /\ UNCHANGED <<accepted, writer>>
    BY <1>5 DEF Write, Takes, Stops
  <2>2. written \in Seq(ClientMessage) /\ queue \in Seq(ClientMessage)
    BY DEF TypeOK
  <2>3. written' \o queue' = accepted'
    BY <2>1, <2>2, MoveHead DEF DrainInv
  <2>4. \A i \in DOMAIN written' : written'[i] \notin Stops
    <3>1. \A i \in DOMAIN written' : (i \in DOMAIN written /\ written'[i] = written[i]) \/ written'[i] = m
      BY <2>1, <2>2, AppendProperties, LenProperties
    <3>. QED BY <2>1, <3>1 DEF DrainInv
  <2>. QED BY <2>1, <2>3, <2>4 DEF DrainInv
<1>6. CASE AppStep
  <2>1. ASSUME NEW m, m \in {Payload(Sent + 1), Raw, Quit}, AppSend(m) PROVE DrainInv'
    <3>1. m \in ClientMessage
      BY <2>1, AppSendTyped
    <3>. QED BY <2>1, <3>1, DrainEnqueue DEF AppSend, peer
  <2>. QED BY <1>1, <1>6, <2>1 DEF AppStep, AppRecv, AppDrops, writing, peer
<1>7. CASE PeerStep \/ UNCHANGED vars
  BY <1>1, <1>7 DEF PeerStep, PeerSends, PeerReads, PeerSeesEnd, LinkEnds, writing, peer, vars
<1>. QED BY <1>2, <1>3, <1>4, <1>5, <1>6, <1>7 DEF Next, WriterStep

\* The writer writes what was queued, in order, all of it up to the first Quit or
\* Raw and nothing after it unless the connection fails, for any bounds and
\* whatever the application, the heartbeat and the reader queue
\* (src/src/client.rs, use_writer).
THEOREM DrainsCorrect == Spec => []Drains
<1>1. Init => TypeOK /\ DrainInv
  <2>. SUFFICES ASSUME Init PROVE DrainInv
    BY TypeInit
  <2>1. <<>> \o <<>> = <<>>
    BY EmptySeq, ConcatEmptySeq
  <2>. QED BY <2>1 DEF Init, DrainInv
<1>2. (TypeOK /\ DrainInv) /\ [Next]_vars => (TypeOK /\ DrainInv)'
  BY TypeStep, DrainStep
<1>. QED BY <1>1, <1>2, DrainsFromInv, PTL DEF Spec
=============================================================================

---------------------------- MODULE BridgeProofs ----------------------------
(***************************************************************************)
(* Theorems about Bridge, for any word size, any contents of the messages  *)
(* and any number of clients.                                              *)
(***************************************************************************)
EXTENDS Bridge, SequenceLemmas

-----------------------------------------------------------------------------
(* The encoding of bridge messages                                         *)

\* take_while stops at the first separator, whatever follows it.
LEMMA FirstSep ==
  ASSUME NEW S, Sep \in S, NEW a \in Seq(S), NEW b \in Seq(S), NoSep(a)
  PROVE  UpToSep(a \o <<Sep>> \o b) = Len(a)
<1> DEFINE s == a \o <<Sep>> \o b
           P(n) == /\ \A i \in 1..n : s[i] # Sep
                   /\ n < Len(s) => s[n + 1] = Sep
<1>1. /\ Len(s) = Len(a) + 1 + Len(b)
      /\ Len(a) \in Nat /\ Len(b) \in Nat
      /\ \A i \in 1..Len(a) : s[i] = a[i]
      /\ s[Len(a) + 1] = Sep
  OBVIOUS
<1>2. \A i \in 1..Len(a) : s[i] # Sep
  BY <1>1 DEF NoSep
<1> HIDE DEF s
<1>3. P(Len(a)) /\ Len(a) \in 0..Len(s)
  BY <1>1, <1>2
<1>4. ASSUME NEW n \in 0..Len(s), P(n)
      PROVE  n = Len(a)
  <2>1. CASE n < Len(a)
    BY <1>1, <1>2, <1>4, <2>1
  <2>2. CASE n > Len(a)
    BY <1>1, <1>4, <2>2
  <2> QED BY <1>1, <2>1, <2>2
<1>5. (CHOOSE n \in 0..Len(s) : P(n)) = Len(a)
  BY <1>3, <1>4
<1> QED BY <1>5 DEF UpToSep, s

\* What is before the first separator, and what is behind it.
LEMMA AroundSep ==
  ASSUME NEW S, Sep \in S, NEW a \in Seq(S), NEW b \in Seq(S)
  PROVE  /\ Len(a \o <<Sep>> \o b) = Len(a) + 1 + Len(b)
         /\ SubSeq(a \o <<Sep>> \o b, 1, Len(a)) = a
         /\ SubSeq(a \o <<Sep>> \o b, Len(a) + 2, Len(a \o <<Sep>> \o b)) = b
<1> DEFINE s == a \o <<Sep>> \o b
           t == SubSeq(s, Len(a) + 2, Len(s))
<1>1. /\ Len(s) = Len(a) + 1 + Len(b)
      /\ Len(a) \in Nat /\ Len(b) \in Nat
      /\ s \in Seq(S)
      /\ \A i \in 1..Len(a) : s[i] = a[i]
      /\ \A i \in 1..Len(b) : s[Len(a) + 1 + i] = b[i]
  OBVIOUS
<1> HIDE DEF s
<1>2. SubSeq(s, 1, Len(a)) = a
  BY <1>1
<1>3. t \in Seq(S) /\ Len(t) = Len(b) /\ \A i \in 1..Len(b) : t[i] = b[i]
  BY <1>1
<1>4. t = b
  <2> HIDE DEF t
  <2> QED BY <1>3, SeqEqual
<1> QED BY <1>1, <1>2, <1>4 DEF s, t

\* What one router puts together another takes apart again: BridgeMessageOut::new,
\* then handle_payload and BridgeMessageIn::decode, for all sequences of bytes as
\* long as the recipient's and the sender's hold no separator.
THEOREM RoundTrip ==
  ASSUME NEW S, Sep \in S,
         NEW m \in [remote : Seq(S), sender : Seq(S), bytes : Seq(S)],
         NoSep(m.remote), NoSep(m.sender)
  PROVE  Received(m) = Meant(m)
<1> DEFINE rest == m.sender \o <<Sep>> \o m.bytes
<1>1. /\ m.remote \in Seq(S) /\ m.sender \in Seq(S) /\ m.bytes \in Seq(S)
      /\ rest \in Seq(S) /\ Len(rest) >= 1
  OBVIOUS
<1>2. Encode(m) = m.remote \o <<Sep>> \o rest
  BY <1>1, SMTT(30) DEF Encode
<1>3. HandlePayload(Encode(m)) = [kind |-> "Remote", to |-> m.remote, bytes |-> rest]
  <2> HIDE DEF rest
  <2>1. UpToSep(Encode(m)) = Len(m.remote)
    BY <1>1, <1>2, FirstSep
  <2>2. /\ Len(Encode(m)) = Len(m.remote) + 1 + Len(rest)
        /\ SubSeq(Encode(m), 1, Len(m.remote)) = m.remote
        /\ SubSeq(Encode(m), Len(m.remote) + 2, Len(Encode(m))) = rest
    <3> DEFINE e == m.remote \o <<Sep>> \o rest
    <3>1. /\ Len(e) = Len(m.remote) + 1 + Len(rest)
          /\ SubSeq(e, 1, Len(m.remote)) = m.remote
          /\ SubSeq(e, Len(m.remote) + 2, Len(e)) = rest
      BY <1>1, AroundSep, ZenonT(40)
    <3> QED BY <1>2, <3>1
  <2>3. ~(Len(m.remote) + 1 >= Len(Encode(m)))
    BY <1>1, <2>2
  <2> QED BY <2>1, <2>2, <2>3 DEF HandlePayload
<1>4. Decode(rest) = Meant(m).message
  <2>1. UpToSep(rest) = Len(m.sender)
    BY <1>1, FirstSep
  <2>2. /\ Len(rest) = Len(m.sender) + 1 + Len(m.bytes)
        /\ SubSeq(rest, 1, Len(m.sender)) = m.sender
        /\ SubSeq(rest, Len(m.sender) + 2, Len(rest)) = m.bytes
    BY <1>1, AroundSep, ZenonT(40)
  <2> HIDE DEF rest
  <2>3. (Len(m.sender) + 1 >= Len(rest)) <=> m.bytes = <<>>
    BY <1>1, <2>2
  <2> QED BY <2>1, <2>2, <2>3 DEF Decode, Meant
<1> QED BY <1>3, <1>4 DEF Received, Meant

-----------------------------------------------------------------------------
(* Types                                                                   *)

\* Min of two naturals is one of them.
LEMMA MinOfTwo ==
  ASSUME NEW a \in Nat, NEW b \in Nat
  PROVE  Min({a, b}) \in {a, b} /\ Min({a, b}) <= a /\ Min({a, b}) <= b
<1>1. \E x \in {a, b} : \A y \in {a, b} : x <= y
  OBVIOUS
<1> QED BY <1>1 DEF Min

\* BackOff keeps the seconds in their word.
LEMMA BackOffTyped ==
  ASSUME TypeOK, BackOff
  PROVE  seconds' \in Word /\ wait' \in Word
<1>1. /\ seconds \in Word /\ wait \in Word
      /\ asked.reconnect.seconds \in Word /\ asked.reconnect.max \in Word
      /\ Modulus \in Nat \ {0}
  BY BridgeAssumption DEF TypeOK, Reconnect
<1>2. CASE asked.reconnect.kind = "Constant"
  BY <1>1, <1>2 DEF BackOff
<1>3. CASE asked.reconnect.kind # "Constant"
  <2>1. wait' = Min({seconds, asked.reconnect.max}) /\ seconds' = (seconds * 2) % Modulus
    BY <1>3 DEF BackOff
  <2>2. wait' \in {seconds, asked.reconnect.max}
    BY <1>1, <2>1, MinOfTwo DEF Word
  <2>3. \A k \in Nat : k % Modulus \in 0..(Modulus - 1)
    BY <1>1
  <2>4. seconds * 2 \in Nat
    BY <1>1 DEF Word
  <2>5. seconds' \in 0..(Modulus - 1)
    BY <2>1, <2>3, <2>4
  <2> QED BY <1>1, <2>2, <2>5 DEF Word
<1> QED BY <1>2, <1>3

\* One client changes: the others, and how many there are, stay.
LEMMA OneClient ==
  ASSUME clients \in Seq(Client), NEW c \in DOMAIN clients, NEW k \in Client,
         clients' = [clients EXCEPT ![c] = k]
  PROVE  clients' \in Seq(Client) /\ Len(clients') = Len(clients)
OBVIOUS

\* The fields of a client.
LEMMA ClientFields ==
  ASSUME NEW k \in Client
  PROVE  /\ k.queue \in Seq(0..MaxMsgs) /\ k.output \in {0, 1} /\ k.wire \in 0..WireRoom
         /\ k.given \in Seq(0..MaxMsgs) /\ k.arrived \in Seq(1..MaxMsgs)
         /\ k.writer \in {"run", "beat", "done"} /\ k.reader \in {"run", "done", "panicked"}
         /\ k.link \in {"open", "closed", "broken"}
BY DEF Client

\* A client with another queue, that was given more.
LEMMA WithQueue ==
  ASSUME NEW k \in Client, NEW q \in Seq(0..MaxMsgs), NEW h \in Seq(0..MaxMsgs)
  PROVE  /\ [k EXCEPT !.queue = q, !.given = h] \in Client
         /\ [k EXCEPT !.reader = "done", !.queue = q, !.given = h] \in Client
BY DEF Client

\* A client with another queue, that wrote a message.
LEMMA WithArrived ==
  ASSUME NEW k \in Client, NEW q \in Seq(0..MaxMsgs), NEW h \in Seq(1..MaxMsgs), NEW w \in 0..WireRoom
  PROVE  [k EXCEPT !.queue = q, !.arrived = h, !.wire = w] \in Client
BY DEF Client

\* A client with more or less on the wire.
LEMMA WithWire ==
  ASSUME NEW k \in Client, NEW w \in 0..WireRoom
  PROVE  /\ [k EXCEPT !.wire = w] \in Client
         /\ [k EXCEPT !.writer = "run", !.wire = w] \in Client
BY DEF Client

\* A client with other output.
LEMMA WithOutput ==
  ASSUME NEW k \in Client, NEW o \in {0, 1}
  PROVE  [k EXCEPT !.output = o] \in Client
BY DEF Client

\* A new client is one.
LEMMA NewClientTyped == NewClient \in Client
<1>1. 0 \in 0..WireRoom /\ <<>> \in Seq(0..MaxMsgs) /\ <<>> \in Seq(1..MaxMsgs) /\ 0 \in 0..1
  BY BridgeAssumption
<1> QED BY <1>1 DEF NewClient, Client

\* The steps of connect_to keep the types.
LEMMA ConnectTyped ==
  ASSUME TypeOK, Connected \/ ConnectFailed \/ WakeUp \/ FirstConnect \/ ClientClosed
  PROVE  TypeOK'
<1> USE BridgeAssumption
<1>1. CASE Connected
  <2>1. NewClient \in Client
    BY NewClientTyped
  <2>2. clients' \in Seq(Client) /\ Len(clients') = Len(clients) + 1
    BY <1>1, <2>1 DEF TypeOK, Connected
  <2>3. conn' \in 0..Len(clients')
    BY <1>1, <2>2 DEF TypeOK, Connected
  <2>4. UNCHANGED <<asked, seconds, left, wait, fails, agent, failed, sent, registered>>
    BY <1>1 DEF Connected, connecting
  <2>5. exec' = "select"
    BY <1>1 DEF Connected
  <2> QED BY <2>2, <2>3, <2>4, <2>5 DEF TypeOK
<1>2. CASE ConnectFailed
  <2>1. seconds' \in Word /\ wait' \in Word
    BY <1>2, BackOffTyped DEF ConnectFailed
  <2>2. exec' \in {"failed", "sleeping"} /\ left' \in Nat
    BY <1>2 DEF ConnectFailed, RetryOrGiveUp, TypeOK
  <2>3. fails' \in [now : 0..MaxFails, all : 0..MaxFails] /\ fails'.now <= fails'.all
    BY <1>2 DEF ConnectFailed, TypeOK
  <2>4. UNCHANGED <<asked, conn, agent, clients, failed, sent, registered>>
    BY <1>2 DEF ConnectFailed
  <2> QED BY <2>1, <2>2, <2>3, <2>4 DEF TypeOK
<1>3. CASE WakeUp
  BY <1>3 DEF WakeUp, TypeOK, connecting
<1>4. CASE FirstConnect \/ ClientClosed
  <2>1. /\ exec' = "connecting" /\ left' \in Nat
        /\ fails' \in [now : 0..MaxFails, all : 0..MaxFails] /\ fails'.now <= fails'.all
        /\ UNCHANGED <<seconds, wait>>
        /\ UNCHANGED <<asked, conn, agent, clients, failed, sent, registered>>
    BY <1>4, BridgeAssumption DEF FirstConnect, ClientClosed, StartConnecting, TypeOK, Retry
  <2> QED BY <2>1 DEF TypeOK
<1> QED BY <1>1, <1>2, <1>3, <1>4

\* The other steps of exec, and the router's deliveries, keep the types.
LEMMA ExecTyped ==
  ASSUME TypeOK,
         \/ InputDropped \/ Forwarded \/ NotForwarded \/ HandedOver
         \/ CallAgain \/ DropBridge \/ AgentClosed \/ RouterDelivers \/ RouterUnregisters
  PROVE  TypeOK'
<1> USE BridgeAssumption
<1>1. CASE InputDropped
  <2>1. conn \in DOMAIN clients /\ clients[conn] \in Client /\ clients[conn].output > 0
    BY <1>1 DEF InputDropped, Selecting, TypeOK
  <2>2. [clients[conn] EXCEPT !.output = @ - 1] \in Client
    <3>1. clients[conn].output \in {0, 1}
      BY <2>1, ClientFields
    <3>2. clients[conn].output - 1 \in {0, 1}
      BY <2>1, <3>1
    <3> QED BY <2>1, <3>2, WithOutput
  <2>3. clients' = [clients EXCEPT ![conn] = [clients[conn] EXCEPT !.output = @ - 1]]
    BY <1>1 DEF InputDropped
  <2>4. clients' \in Seq(Client) /\ Len(clients') = Len(clients)
    BY <2>1, <2>2, <2>3, OneClient DEF TypeOK
  <2> QED BY <1>1, <2>4 DEF InputDropped, TypeOK, connecting
<1>2. CASE Forwarded
  <2>1. conn \in DOMAIN clients /\ clients[conn] \in Client
    BY <1>2 DEF Forwarded, TakesFromAgent, Selecting, TypeOK
  <2>2. agent # <<>> /\ Head(agent) \in AgentMessages /\ agent' \in Seq(AgentMessages) /\ Len(agent') <= Cap
    BY <1>2 DEF Forwarded, TakesFromAgent, TypeOK
  <2>3. Head(agent).id \in 1..MaxMsgs
    BY <2>2 DEF AgentMessages
  <2> DEFINE q == Append(clients[conn].queue, Head(agent).id)
             h == Append(clients[conn].given, Head(agent).id)
  <2>4. [clients[conn] EXCEPT !.queue = q, !.given = h] \in Client
    <3>1. /\ clients[conn].queue \in Seq(0..MaxMsgs) /\ Head(agent).id \in 0..MaxMsgs
          /\ clients[conn].given \in Seq(0..MaxMsgs)
      BY <2>1, <2>3, ClientFields
    <3>2. q \in Seq(0..MaxMsgs) /\ h \in Seq(0..MaxMsgs)
      BY <2>3, <3>1
    <3> HIDE DEF q, h
    <3> QED BY <2>1, <3>2, WithQueue
  <2>5. clients' = [clients EXCEPT ![conn] = [clients[conn] EXCEPT !.queue = q, !.given = h]]
    BY <1>2 DEF Forwarded
  <2>6. clients' \in Seq(Client) /\ Len(clients') = Len(clients)
    BY <2>1, <2>4, <2>5, OneClient DEF TypeOK
  <2>8. UNCHANGED <<asked, exec, seconds, left, wait, fails, conn, failed, sent, registered>>
    BY <1>2 DEF Forwarded, TakesFromAgent, connecting
  <2> QED BY <2>2, <2>6, <2>8 DEF TypeOK
<1>3. CASE NotForwarded
  <2>1. agent # <<>> /\ Head(agent) \in AgentMessages /\ agent' \in Seq(AgentMessages) /\ Len(agent') <= Cap
    BY <1>3 DEF NotForwarded, TakesFromAgent, TypeOK
  <2>2. failed' \subseteq 1..MaxMsgs
    BY <1>3, <2>1 DEF NotForwarded, AgentMessages, TypeOK
  <2> QED BY <1>3, <2>1, <2>2 DEF NotForwarded, TakesFromAgent, TypeOK, connecting
<1>4. CASE HandedOver
  <2>1. agent' \in Seq(AgentMessages) /\ Len(agent') <= Cap
    BY <1>4 DEF HandedOver, TakesFromAgent, TypeOK
  <2> QED BY <1>4, <2>1 DEF HandedOver, TakesFromAgent, TypeOK, connecting
<1>5. CASE CallAgain \/ AgentClosed \/ RouterUnregisters
  BY <1>5 DEF CallAgain, AgentClosed, RouterUnregisters, TypeOK, connecting
<1>6. CASE DropBridge
  <2>1. conn' = 0 /\ agent' = <<>> /\ conn' \in 0..Len(clients) /\ exec' = "dropped"
    BY <1>6 DEF DropBridge, TypeOK
  <2>2. registered' \in BOOLEAN
    BY <1>6 DEF DropBridge
  <2>3. agent' \in Seq(AgentMessages) /\ Len(agent') <= Cap
    BY <2>1
  <2>4. UNCHANGED <<asked, seconds, left, wait, fails, clients, failed, sent>>
    BY <1>6 DEF DropBridge, connecting
  <2> QED BY <2>1, <2>2, <2>3, <2>4 DEF TypeOK
<1>7. CASE RouterDelivers
  <2>1. sent' \in 1..MaxMsgs
    BY <1>7 DEF RouterDelivers, TypeOK
  <2>2. PICK m \in {Value(sent'), Wrong(sent'), Other(sent')} : agent' = Append(agent, m)
    BY <1>7 DEF RouterDelivers
  <2>3. m \in AgentMessages
    BY <2>1, <2>2 DEF AgentMessages, Value, Wrong, Other
  <2>4. agent' \in Seq(AgentMessages) /\ Len(agent') <= Cap
    BY <1>7, <2>2, <2>3 DEF RouterDelivers, TypeOK
  <2> QED BY <1>7, <2>1, <2>4 DEF RouterDelivers, TypeOK, connecting
<1> QED BY <1>1, <1>2, <1>3, <1>4, <1>5, <1>6, <1>7

\* The tasks of a client and its peer change clients only.
LEMMA ClientsOnly ==
  ASSUME NEW c, ClientStep(c) \/ PeerStep(c)
  PROVE  ClientOnly
BY DEF ClientStep, PeerStep, ReaderEnds, ReaderRejects, EndReader, Writes, WriterEnds, BeatTaken, BeatWritten,
       ReaderGets, ReaderPanics, PeerReads, LinkEnds, PeerSeesEnd

\* The end of a reader puts a client in the place of another.
LEMMA EndReaderTyped ==
  ASSUME TypeOK, NEW c \in DOMAIN clients, EndReader(c)
  PROVE  \E new \in Client : clients' = [clients EXCEPT ![c] = new]
<1> DEFINE k == clients[c]
<1>1. k \in Client
  BY DEF TypeOK
<1>2. CASE k.writer = "done"
  <2> DEFINE new == [k EXCEPT !.reader = "done"]
  <2>1. new \in Client
    BY <1>1 DEF Client
  <2>2. clients' = [clients EXCEPT ![c] = new]
    BY <1>2 DEF EndReader
  <2> QED BY <2>1, <2>2
<1>3. CASE k.writer # "done"
  <2> DEFINE q == Append(k.queue, Quit)
             h == Append(k.given, Quit)
             new == [k EXCEPT !.reader = "done", !.queue = q, !.given = h]
  <2>1. k.queue \in Seq(0..MaxMsgs) /\ k.given \in Seq(0..MaxMsgs) /\ Quit \in 0..MaxMsgs
    BY <1>1, ClientFields, BridgeAssumption DEF Quit
  <2>2. q \in Seq(0..MaxMsgs) /\ h \in Seq(0..MaxMsgs)
    <3> HIDE DEF k
    <3> QED BY <2>1
  <2>3. clients' = [clients EXCEPT ![c] = new]
    BY <1>3 DEF EndReader
  <2> HIDE DEF q, h, k
  <2>4. new \in Client
    BY <1>1, <2>2, WithQueue
  <2> QED BY <2>3, <2>4 DEF k
<1> QED BY <1>2, <1>3

\* The steps of a client and of its peer keep the types: every one of them puts a
\* client in the place of another.
LEMMA ClientTyped ==
  ASSUME TypeOK, NEW c \in DOMAIN clients, ClientStep(c) \/ PeerStep(c)
  PROVE  TypeOK'
<1> DEFINE k == clients[c]
<1>1. k \in Client /\ c \in Nat
  BY DEF TypeOK
<1>2. /\ k.queue \in Seq(0..MaxMsgs) /\ k.arrived \in Seq(1..MaxMsgs)
      /\ k.wire \in 0..WireRoom /\ WireRoom \in Nat
  BY <1>1, ClientFields, BridgeAssumption
<1>3. SUFFICES \E new \in Client : clients' = [clients EXCEPT ![c] = new]
  <2>1. PICK new \in Client : clients' = [clients EXCEPT ![c] = new]
    BY <1>3
  <2>2. clients' \in Seq(Client) /\ Len(clients') = Len(clients)
    BY <2>1, OneClient DEF TypeOK
  <2>3. UNCHANGED <<asked, exec, seconds, left, wait, fails, conn, agent, failed, sent, registered>>
    BY ClientsOnly DEF ClientOnly, connecting
  <2> QED BY <2>2, <2>3 DEF TypeOK
<1>4. CASE ReaderEnds(c) \/ ReaderRejects(c)
  BY <1>4, EndReaderTyped DEF ReaderEnds, ReaderRejects
<1>5. CASE Writes(c)
  <2>1. /\ k.queue # <<>> /\ Head(k.queue) # Quit /\ k.wire + 1 \in 0..WireRoom
        /\ clients' = [clients EXCEPT ![c].queue = Tail(@), ![c].arrived = Append(@, Head(k.queue)),
                                      ![c].wire = @ + 1]
    BY <1>2, <1>5 DEF Writes, Writing, CanWrite
  <2> DEFINE q == Tail(k.queue)
             h == Append(k.arrived, Head(k.queue))
             w == k.wire + 1
             new == [k EXCEPT !.queue = q, !.arrived = h, !.wire = w]
  <2>2. clients' = [clients EXCEPT ![c] = new]
    BY <2>1
  <2>3. q \in Seq(0..MaxMsgs) /\ h \in Seq(1..MaxMsgs)
    <3> DEFINE r == k.queue
               t == k.arrived
    <3>1. r \in Seq(0..MaxMsgs) /\ r # <<>> /\ Head(r) # Quit /\ t \in Seq(1..MaxMsgs) /\ MaxMsgs \in Nat
      BY <1>2, <2>1, BridgeAssumption
    <3> HIDE DEF r, t, k
    <3>2. Head(r) \in 1..MaxMsgs
      BY <3>1 DEF Quit
    <3>3. Tail(r) \in Seq(0..MaxMsgs) /\ Append(t, Head(r)) \in Seq(1..MaxMsgs)
      BY <3>1, <3>2
    <3> QED BY <3>3 DEF r, t
  <2>4. w \in 0..WireRoom
    BY <2>1
  <2> HIDE DEF q, h, w, k
  <2>5. new \in Client
    BY <1>1, <2>3, <2>4, WithArrived
  <2> QED BY <2>2, <2>5 DEF k
<1>6. CASE WriterEnds(c)
  <2> DEFINE new == [k EXCEPT !.writer = "done", !.queue = <<>>]
  <2>1. new \in Client
    <3>1. <<>> \in Seq(0..MaxMsgs)
      OBVIOUS
    <3> HIDE DEF k
    <3> QED BY <1>1, <3>1 DEF Client
  <2>2. clients' = [clients EXCEPT ![c] = new]
    BY <1>6 DEF WriterEnds
  <2> QED BY <2>1, <2>2
<1>7. CASE BeatTaken(c)
  <2> DEFINE new == [k EXCEPT !.writer = "beat"]
  <2>1. new \in Client
    BY <1>1 DEF Client
  <2>2. clients' = [clients EXCEPT ![c] = new]
    BY <1>7 DEF BeatTaken
  <2> QED BY <2>1, <2>2
<1>8. CASE BeatWritten(c)
  <2> DEFINE w == k.wire + 1
             new == [k EXCEPT !.writer = "run", !.wire = w]
  <2>1. w \in 0..WireRoom
    BY <1>2, <1>8 DEF BeatWritten, CanWrite
  <2>2. clients' = [clients EXCEPT ![c] = new]
    BY <1>8 DEF BeatWritten
  <2> HIDE DEF w, k
  <2>3. new \in Client
    BY <1>1, <2>1, WithWire
  <2> QED BY <2>2, <2>3 DEF k
<1>9. CASE PeerReads(c)
  <2> DEFINE w == k.wire - 1
             new == [k EXCEPT !.wire = w]
  <2>1. w \in 0..WireRoom
    BY <1>2, <1>9 DEF PeerReads
  <2>2. clients' = [clients EXCEPT ![c] = new]
    BY <1>9 DEF PeerReads
  <2> HIDE DEF w, k
  <2>3. new \in Client
    BY <1>1, <2>1, WithWire
  <2> QED BY <2>2, <2>3 DEF k
<1>10. CASE ReaderGets(c)
  <2> DEFINE new == [k EXCEPT !.output = 1]
  <2>1. new \in Client
    BY <1>1, WithOutput
  <2>2. clients' = [clients EXCEPT ![c] = new]
    BY <1>10 DEF ReaderGets
  <2> QED BY <2>1, <2>2
<1>11. CASE ReaderPanics(c)
  <2> DEFINE new == [k EXCEPT !.reader = "panicked"]
  <2>1. new \in Client
    BY <1>1 DEF Client
  <2>2. clients' = [clients EXCEPT ![c] = new]
    BY <1>11 DEF ReaderPanics
  <2> QED BY <2>1, <2>2
<1>12. CASE LinkEnds(c) \/ PeerSeesEnd(c)
  <2>1. PICK l \in {"closed", "broken"} : clients' = [clients EXCEPT ![c].link = l]
    BY <1>12 DEF LinkEnds, PeerSeesEnd
  <2> DEFINE new == [k EXCEPT !.link = l]
  <2>2. new \in Client
    BY <1>1 DEF Client
  <2>3. clients' = [clients EXCEPT ![c] = new]
    BY <2>1
  <2> QED BY <2>2, <2>3
<1> QED BY <1>4, <1>5, <1>6, <1>7, <1>8, <1>9, <1>10, <1>11, <1>12 DEF ClientStep, PeerStep

\* The bridge starts with its types.
LEMMA TypeInit == Init => TypeOK
<1> SUFFICES ASSUME Init PROVE TypeOK
  OBVIOUS
<1>1. asked \in Asked /\ asked.reconnect \in Reconnect
  BY BridgeAssumption DEF Init
<1>2. seconds \in Word /\ wait \in Word /\ left \in Nat
  BY <1>1, BridgeAssumption DEF Init, Reconnect, Word
<1>3. registered \in BOOLEAN
  BY DEF Init
<1> QED BY <1>1, <1>2, <1>3, BridgeAssumption DEF Init, TypeOK

\* Every step keeps the types.
LEMMA StepTyped ==
  ASSUME TypeOK, [Next]_vars
  PROVE  TypeOK'
<1>1. CASE UNCHANGED vars
  BY <1>1 DEF vars, TypeOK
<1>2. CASE Next
  BY <1>2, ConnectTyped, ExecTyped, ClientTyped DEF Next, ExecStep
<1> QED BY <1>1, <1>2

\* Whatever the bridge, its clients and its peer do, the seconds stay in their
\* word and the agent's channel within its capacity.
THEOREM TypeCorrect == Spec => []TypeOK
<1>1. Init => TypeOK
  BY TypeInit
<1>2. TypeOK /\ [Next]_vars => TypeOK'
  BY StepTyped
<1> QED BY <1>1, <1>2, PTL DEF Spec

-----------------------------------------------------------------------------
(* Retries, and what arrives                                               *)

\* While connect_to runs with a count, what is left and what has failed add up to
\* the count: the retries start anew with every call and lose one per failure.
Counted ==
  exec \in {"connecting", "sleeping"} /\ asked.retry.kind = "Count" =>
    left + fails.now = asked.retry.n

\* While connect_to runs with no retries it has not failed yet.
NeverFailed ==
  exec \in {"connecting", "sleeping"} /\ asked.retry.kind = "Never" => fails.now = 0

\* Bridge::new's arguments stay.
LEMMA AskedStays ==
  ASSUME [Next]_vars
  PROVE  asked' = asked
<1>1. ASSUME NEW c, ClientStep(c) \/ PeerStep(c)
      PROVE  asked' = asked
  BY <1>1, ClientsOnly DEF ClientOnly
<1> QED BY <1>1 DEF Next, vars, ExecStep, FirstConnect, Connected, ConnectFailed, WakeUp, ClientClosed,
           InputDropped, Forwarded, NotForwarded, HandedOver, TakesFromAgent, AgentClosed, CallAgain,
           DropBridge, RouterDelivers, RouterUnregisters

\* Only a failed attempt puts connect_to to sleep, and only a call starts it.
LEMMA OtherSteps ==
  ASSUME [Next]_vars, ~(FirstConnect \/ ClientClosed \/ ConnectFailed)
  PROVE  /\ UNCHANGED connecting
         /\ exec' = "sleeping" => exec = "sleeping"
         /\ exec' \in {"connecting", "sleeping"} => exec \in {"connecting", "sleeping"}
<1>1. ASSUME NEW c, ClientStep(c) \/ PeerStep(c)
      PROVE  UNCHANGED connecting /\ exec' = exec
  BY <1>1, ClientsOnly DEF ClientOnly
<1>2. CASE \/ Connected \/ WakeUp \/ InputDropped \/ Forwarded \/ NotForwarded \/ HandedOver \/ AgentClosed
           \/ CallAgain \/ DropBridge \/ RouterDelivers \/ RouterUnregisters
  BY <1>2 DEF Connected, WakeUp, InputDropped, Forwarded, NotForwarded, HandedOver, TakesFromAgent, AgentClosed,
              CallAgain, DropBridge, RouterDelivers, RouterUnregisters
<1>3. CASE UNCHANGED vars
  BY <1>3 DEF vars, connecting
<1> QED BY <1>1, <1>2, <1>3 DEF Next, ExecStep

RetryInv == TypeOK /\ Counted /\ NeverFailed

\* Every step keeps the count of the retries; only connect_to changes it.
LEMMA StepCounted ==
  ASSUME RetryInv, [Next]_vars
  PROVE  RetryInv'
<1>1. TypeOK /\ TypeOK'
  BY StepTyped DEF RetryInv
<1>2. /\ asked.retry.n \in Nat /\ left \in Nat /\ fails.now \in Nat /\ fails.all \in Nat
      /\ fails \in [now : 0..MaxFails, all : 0..MaxFails]
      /\ asked.retry.kind \in {"Never", "Forever", "Count"}
  <2>2. asked.retry \in Retry
    BY <1>1, BridgeAssumption DEF TypeOK
  <2>3. left \in Nat /\ fails \in [now : 0..MaxFails, all : 0..MaxFails]
    BY <1>1 DEF TypeOK
  <2> QED BY <2>2, <2>3, BridgeAssumption DEF Retry
<1>3. asked' = asked
  BY AskedStays
<1>4. CASE FirstConnect \/ ClientClosed
  <2>1. exec' = "connecting" /\ left' = asked.retry.n /\ fails'.now = 0
    BY <1>2, <1>4 DEF FirstConnect, ClientClosed, StartConnecting
  <2> QED BY <1>1, <1>2, <1>3, <2>1 DEF RetryInv, Counted, NeverFailed
<1>5. CASE ConnectFailed
  <2>1. exec = "connecting" /\ fails'.now = fails.now + 1 /\ RetryOrGiveUp
    BY <1>5 DEF ConnectFailed
  <2> QED BY <1>1, <1>2, <1>3, <2>1 DEF RetryInv, Counted, NeverFailed, RetryOrGiveUp
<1>6. CASE ~(FirstConnect \/ ClientClosed \/ ConnectFailed)
  <2>1. /\ UNCHANGED <<left, fails>>
        /\ exec' \in {"connecting", "sleeping"} => exec \in {"connecting", "sleeping"}
    BY <1>6, OtherSteps DEF connecting
  <2> QED BY <1>1, <1>3, <2>1 DEF RetryInv, Counted, NeverFailed
<1> QED BY <1>4, <1>5, <1>6

\* connect_to gives up exactly when the retries it was given are used up, for any
\* count and however often the bridge has reconnected before.
THEOREM RetriesCorrect == Spec => RetriesAsAsked
<1>1. Init => RetryInv
  BY TypeInit DEF Init, RetryInv, Counted, NeverFailed
<1>2. RetryInv /\ [Next]_vars => RetryInv'
  BY StepCounted
<1> DEFINE Right ==
      fails'.all > fails.all =>
        LET allowed == IF asked.retry.kind = "Never" THEN 0 ELSE asked.retry.n IN
        exec' = IF asked.retry.kind # "Forever" /\ fails'.now > allowed THEN "failed" ELSE "sleeping"
<1>3. RetryInv /\ [Next]_vars => [Right]_vars
  <2> SUFFICES ASSUME RetryInv, Next, fails'.all > fails.all
               PROVE  Right
    BY DEF RetryInv
  <2>1. /\ asked.retry.n \in Nat /\ left \in Nat
        /\ fails \in [now : 0..MaxFails, all : 0..MaxFails] /\ fails.now \in Nat /\ fails.all \in Nat
        /\ asked.retry.kind \in {"Never", "Forever", "Count"}
    BY BridgeAssumption DEF RetryInv, TypeOK, Retry
  <2>2. ConnectFailed
    <3>1. ~(fails' = fails)
      BY <2>1
    <3>2. ~(FirstConnect \/ ClientClosed)
      BY <2>1 DEF FirstConnect, ClientClosed, StartConnecting
    <3> QED BY <3>1, <3>2, OtherSteps DEF connecting
  <2>3. exec = "connecting" /\ fails'.now = fails.now + 1 /\ RetryOrGiveUp
    BY <2>2 DEF ConnectFailed
  <2> QED BY <2>1, <2>3 DEF RetryInv, Counted, NeverFailed, RetryOrGiveUp
<1> QED BY <1>1, <1>2, <1>3, PTL DEF Spec, RetriesAsAsked

\* Whatever reaches the peer, over whichever client and after whatever outages, is
\* taken apart as it was put together, for all contents of the messages.
THEOREM ArrivalsCorrect == Spec => []ArrivesAsMeant
<1>1. TypeOK => ArrivesAsMeant
  <2> SUFFICES ASSUME TypeOK, NEW c \in DOMAIN clients, NEW i \in DOMAIN clients[c].arrived
               PROVE  LET m == Contents[clients[c].arrived[i]] IN Received(m) = Meant(m)
    BY DEF ArrivesAsMeant
  <2> DEFINE k == clients[c].arrived[i]
             m == Contents[k]
  <2>1. k \in 1..MaxMsgs
    <3>1. clients[c] \in Client
      BY DEF TypeOK
    <3>2. clients[c].arrived \in Seq(1..MaxMsgs)
      BY <3>1, ClientFields
    <3> DEFINE s == clients[c].arrived
    <3>3. s \in Seq(1..MaxMsgs) /\ i \in DOMAIN s
      BY <3>2
    <3> HIDE DEF s
    <3>4. i \in 1..Len(s)
      BY <3>3
    <3>5. s[i] \in 1..MaxMsgs
      BY <3>3, <3>4, ElementOfSeq
    <3> QED BY <3>5 DEF s
  <2>2. /\ m \in [remote : Seq(Bytes), sender : Seq(Bytes), bytes : Seq(Bytes)]
        /\ NoSep(m.remote) /\ NoSep(m.sender) /\ Sep \in Bytes
    BY <2>1, BridgeAssumption
  <2> HIDE DEF m
  <2>3. Received(m) = Meant(m)
    BY <2>2, RoundTrip
  <2> QED BY <2>3 DEF m
<1> QED BY <1>1, TypeCorrect, PTL

-----------------------------------------------------------------------------
(* The back-off                                                            *)

\* f holds the powers of two up to the n-th.
Doublings(n, f) ==
  /\ f \in [0..n -> Nat]
  /\ f[0] = 1
  /\ \A i \in 0..(n - 1) : f[i + 1] = 2 * f[i]

\* There are powers of two up to every n.
LEMMA DoublingsExist ==
  ASSUME NEW n \in Nat
  PROVE  \E f : Doublings(n, f)
<1> DEFINE T == {k \in Nat : \E f : Doublings(k, f)}
<1>1. 0 \in T
  <2>1. Doublings(0, [i \in 0..0 |-> 1])
    BY DEF Doublings
  <2> QED BY <2>1
<1>2. ASSUME NEW k \in Nat, k \in T
      PROVE  k + 1 \in T
  <2>1. PICK f : Doublings(k, f)
    BY <1>2
  <2> DEFINE g == [i \in 0..(k + 1) |-> IF i = k + 1 THEN 2 * f[k] ELSE f[i]]
  <2>2. g \in [0..(k + 1) -> Nat] /\ g[0] = 1
    BY <2>1 DEF Doublings
  <2>3. ASSUME NEW i \in 0..k
        PROVE  g[i + 1] = 2 * g[i]
    <3>1. i \in 0..(k + 1) /\ i + 1 \in 0..(k + 1) /\ i # k + 1
      OBVIOUS
    <3>2. g[i] = f[i] /\ g[i + 1] = IF i + 1 = k + 1 THEN 2 * f[k] ELSE f[i + 1]
      BY <3>1
    <3>3. CASE i = k
      BY <3>2, <3>3
    <3>4. CASE i # k
      <4>1. i \in 0..(k - 1) /\ i + 1 # k + 1
        BY <3>4
      <4>2. f[i + 1] = 2 * f[i]
        BY <2>1, <4>1 DEF Doublings
      <4> QED BY <3>2, <4>1, <4>2
    <3> QED BY <3>3, <3>4
  <2>4. (k + 1) - 1 = k
    OBVIOUS
  <2> HIDE DEF g
  <2>5. Doublings(k + 1, g)
    BY <2>2, <2>3, <2>4 DEF Doublings
  <2> QED BY <2>5
<1> HIDE DEF T
<1>3. Nat \subseteq T
  BY <1>1, <1>2, AllNats
<1> QED BY <1>3 DEF T

\* And they are the same, however far they go.
LEMMA DoublingsAgree ==
  ASSUME NEW n \in Nat, NEW m \in Nat, NEW f, NEW g, Doublings(n, f), Doublings(m, g)
  PROVE  \A i \in Nat : i <= n /\ i <= m => f[i] = g[i]
<1> DEFINE T == {i \in Nat : i <= n /\ i <= m => f[i] = g[i]}
<1>1. 0 \in T
  BY DEF Doublings
<1>2. ASSUME NEW i \in Nat, i \in T
      PROVE  i + 1 \in T
  <2> SUFFICES ASSUME i + 1 <= n, i + 1 <= m
               PROVE  f[i + 1] = g[i + 1]
    OBVIOUS
  <2>1. i \in 0..(n - 1) /\ i \in 0..(m - 1) /\ i <= n /\ i <= m
    OBVIOUS
  <2>2. f[i + 1] = 2 * f[i] /\ g[i + 1] = 2 * g[i]
    BY <2>1 DEF Doublings
  <2> QED BY <1>2, <2>1, <2>2
<1> HIDE DEF T
<1>3. Nat \subseteq T
  BY <1>1, <1>2, AllNats
<1> QED BY <1>3 DEF T

\* Doubled is what its definition says: there is such a function.
LEMMA DoubledLaw ==
  /\ Doubled \in [Nat -> Nat]
  /\ Doubled[0] = 1
  /\ \A n \in Nat : Doubled[n + 1] = 2 * Doubled[n]
<1> DEFINE D(n) == CHOOSE f : Doublings(n, f)
           F == [n \in Nat |-> D(n)[n]]
<1>1. \A n \in Nat : Doublings(n, D(n))
  BY DoublingsExist
<1> HIDE DEF D
<1>2. \A n \in Nat : F[n] = D(n)[n] /\ F[n] \in Nat
  BY <1>1 DEF Doublings
<1>3. F \in [Nat -> Nat] /\ F[0] = 1
  BY <1>1, <1>2 DEF Doublings
<1>4. ASSUME NEW n \in Nat
      PROVE  F[n + 1] = 2 * F[n]
  <2>1. Doublings(n, D(n)) /\ Doublings(n + 1, D(n + 1)) /\ n + 1 \in Nat
    BY <1>1
  <2>2. n \in 0..((n + 1) - 1)
    OBVIOUS
  <2>3. D(n + 1)[n + 1] = 2 * D(n + 1)[n]
    BY <2>1, <2>2 DEF Doublings
  <2>4. D(n + 1)[n] = D(n)[n]
    BY <2>1, DoublingsAgree
  <2> QED BY <1>2, <2>1, <2>3, <2>4
<1> HIDE DEF F
<1>5. F = [n \in Nat |-> IF n = 0 THEN 1 ELSE 2 * F[n - 1]]
  <2>1. ASSUME NEW n \in Nat, n # 0
        PROVE  F[n] = 2 * F[n - 1]
    <3>1. n - 1 \in Nat /\ (n - 1) + 1 = n
      BY <2>1
    <3> QED BY <1>4, <3>1
  <2> QED BY <1>3, <2>1
<1>6. Doubled = [n \in Nat |-> IF n = 0 THEN 1 ELSE 2 * Doubled[n - 1]]
  BY <1>5 DEF Doubled
<1>7. Doubled[0] = 1 /\ \A n \in Nat : Doubled[n + 1] = 2 * Doubled[n]
  <2>1. ASSUME NEW n \in Nat
        PROVE  Doubled[n + 1] = 2 * Doubled[n]
    <3>1. n + 1 \in Nat /\ n + 1 # 0 /\ (n + 1) - 1 = n
      OBVIOUS
    <3> QED BY <1>6, <3>1
  <2> QED BY <1>6, <2>1
<1>8. \A n \in Nat : Doubled[n] \in Nat
  <2> DEFINE T == {n \in Nat : Doubled[n] \in Nat}
  <2>1. 0 \in T /\ \A n \in Nat : n \in T => n + 1 \in T
    BY <1>7
  <2> HIDE DEF T
  <2>2. Nat \subseteq T
    BY <2>1, AllNats
  <2> QED BY <2>2 DEF T
<1> QED BY <1>6, <1>7, <1>8

\* The seconds have doubled with every failure so far, and kept what fits the word.
Doubling ==
  asked.reconnect.kind # "Constant" =>
    seconds = (asked.reconnect.seconds * Doubled[fails.all]) % Modulus

BackOffInv == TypeOK /\ Doubling /\ BackOffLaw

\* Every step keeps the law of the sleeps; only a failed connect changes them.
LEMMA StepBacksOff ==
  ASSUME BackOffInv, [Next]_vars
  PROVE  BackOffInv'
<1>1. TypeOK /\ TypeOK' /\ Doubling /\ BackOffLaw
  BY StepTyped DEF BackOffInv
<1>2. /\ asked.reconnect.seconds \in Nat /\ Modulus \in Nat \ {0}
      /\ fails.all \in Nat /\ fails \in [now : 0..MaxFails, all : 0..MaxFails]
      /\ Doubled[fails.all] \in Nat
  <2>1. asked.reconnect \in Reconnect /\ fails \in [now : 0..MaxFails, all : 0..MaxFails]
    BY <1>1, BridgeAssumption DEF TypeOK
  <2>2. asked.reconnect.seconds \in Nat /\ fails.all \in Nat
    BY <2>1, BridgeAssumption DEF Reconnect, Word
  <2> QED BY <2>1, <2>2, DoubledLaw, BridgeAssumption
<1>3. asked' = asked
  BY AskedStays
<1>4. CASE ConnectFailed
  <2>1. fails'.all = fails.all + 1 /\ fails'.all - 1 = fails.all /\ BackOff
    BY <1>2, <1>4 DEF ConnectFailed
  <2>2. CASE asked.reconnect.kind = "Constant"
    BY <1>1, <1>3, <2>1, <2>2 DEF BackOff, BackOffInv, Doubling, BackOffLaw
  <2>3. CASE asked.reconnect.kind # "Constant"
    <3> DEFINE d == Doubled[fails.all]
               x == asked.reconnect.seconds * d
    <3>1. wait' = Min({seconds, asked.reconnect.max}) /\ seconds' = (seconds * 2) % Modulus
      BY <2>1, <2>3 DEF BackOff
    <3>2. seconds = x % Modulus
      BY <1>1, <2>3 DEF Doubling
    <3>3. Doubled[fails'.all] = 2 * d
      BY <1>2, <2>1, DoubledLaw
    <3>4. x \in Nat /\ asked.reconnect.seconds * Doubled[fails'.all] = 2 * x
      BY <1>2, <3>3
    <3> HIDE DEF x
    <3>5. ((x % Modulus) * 2) % Modulus = (2 * x) % Modulus
      BY <1>2, <3>4, ModDoubled
    <3>6. Doubling'
      BY <1>3, <3>1, <3>2, <3>4, <3>5 DEF Doubling
    <3>7. wait' = Min({x % Modulus, asked.reconnect.max})
      BY <3>1, <3>2
    <3>8. BackOffLaw'
      BY <1>3, <2>1, <2>3, <3>7 DEF BackOffLaw, x
    <3> QED BY <1>1, <3>6, <3>8 DEF BackOffInv
  <2> QED BY <2>2, <2>3
<1>5. CASE ~ConnectFailed
  <2>1. UNCHANGED <<seconds, wait>> /\ fails'.all = fails.all /\ (exec' = "sleeping" => exec = "sleeping")
    <3>1. CASE FirstConnect \/ ClientClosed
      <4>1. /\ exec' = "connecting" /\ fails' = [fails EXCEPT !.now = 0]
            /\ UNCHANGED <<seconds, wait>>
        BY <3>1 DEF FirstConnect, ClientClosed, StartConnecting
      <4>2. fails'.all = fails.all
        BY <1>2, <4>1
      <4> QED BY <4>1, <4>2
    <3>2. CASE ~(FirstConnect \/ ClientClosed)
      BY <1>5, <3>2, OtherSteps DEF connecting
    <3> QED BY <3>1, <3>2
  <2> QED BY <1>1, <1>3, <2>1 DEF BackOffInv, Doubling, BackOffLaw
<1> QED BY <1>4, <1>5

\* A sleep is what the failures so far make it, for every word size, cap and number of
\* failures, wherever the doubling leaves the word.
THEOREM BackOffCorrect == Spec => []BackOffLaw
<1>1. Init => BackOffInv
  <2> SUFFICES ASSUME Init PROVE BackOffInv
    OBVIOUS
  <2>1. TypeOK
    BY TypeInit
  <2>2. exec = "select" /\ fails.all = 0 /\ seconds = asked.reconnect.seconds /\ seconds \in Word
    BY <2>1 DEF Init, TypeOK
  <2>3. seconds * Doubled[fails.all] = seconds /\ seconds \in Nat
    <3>1. seconds \in Nat
      BY <2>2, BridgeAssumption DEF Word
    <3>2. Doubled[fails.all] = 1
      BY <2>2, DoubledLaw
    <3> QED BY <3>1, <3>2
  <2>4. seconds % Modulus = seconds
    <3>1. Modulus \in Nat \ {0} /\ seconds \in 0..(Modulus - 1) /\ seconds = Modulus * 0 + seconds
      BY <2>2, <2>3, BridgeAssumption DEF Word
    <3> QED BY <2>3, <3>1, ModUnique
  <2> QED BY <2>1, <2>2, <2>3, <2>4 DEF BackOffInv, Doubling, BackOffLaw
<1>2. BackOffInv /\ [Next]_vars => BackOffInv'
  BY StepBacksOff
<1> QED BY <1>1, <1>2, PTL DEF Spec, BackOffInv
=============================================================================

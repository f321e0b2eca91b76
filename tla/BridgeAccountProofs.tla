------------------------ MODULE BridgeAccountProofs ------------------------
(***************************************************************************)
(* Theorem: a bridge repeats no message, and loses none that was given to  *)
(* a working client, for any number of clients, messages and failures, any *)
(* capacity and any back-off.                                              *)
(***************************************************************************)
EXTENDS BridgeProofs

-----------------------------------------------------------------------------
(* One client                                                              *)

\* What arrives is no Quit, and may be compared with a queue.
LEMMA AmongNumbers ==
  ASSUME NEW s \in Seq(1..MaxMsgs)
  PROVE  s \in Seq(0..MaxMsgs)
<1> DEFINE T == 0..MaxMsgs
           n == Len(s)
<1>1. \A i \in 1..MaxMsgs : i \in T
  BY BridgeAssumption
<1>2. n \in Nat /\ s \in [1..n -> 1..MaxMsgs]
  BY LenProperties
<1> HIDE DEF T, n
<1>3. s \in [1..n -> T]
  BY <1>1, <1>2
<1>4. s \in Seq(T)
  BY <1>2, <1>3, FunctionIsSeq
<1> QED BY <1>4 DEF T

\* A sequence is a prefix of what it begins.
LEMMA PrefixOfJoin ==
  ASSUME NEW S, NEW s \in Seq(S), NEW t \in Seq(S)
  PROVE  IsPrefix(s, s \o t)
<1> DEFINE u == s \o t
<1>1. /\ u \in Seq(S) /\ Len(s) \in Nat /\ Len(t) \in Nat /\ Len(u) = Len(s) + Len(t)
      /\ \A i \in 1..Len(s) : u[i] = s[i]
  OBVIOUS
<1> HIDE DEF u
<1>2. /\ SubSeq(s, 1, Len(s)) \in Seq(S) /\ Len(SubSeq(s, 1, Len(s))) = Len(s)
      /\ \A i \in 1..Len(s) : SubSeq(s, 1, Len(s))[i] = s[i]
  BY <1>1, FrontProperties
<1>3. /\ SubSeq(u, 1, Len(s)) \in Seq(S) /\ Len(SubSeq(u, 1, Len(s))) = Len(s)
      /\ \A i \in 1..Len(s) : SubSeq(u, 1, Len(s))[i] = u[i]
  <2>1. Len(s) <= Len(u)
    BY <1>1
  <2> QED BY <1>1, <2>1, FrontProperties
<1>4. \A i \in 1..Len(s) : SubSeq(s, 1, Len(s))[i] = SubSeq(u, 1, Len(s))[i]
  BY <1>1, <1>2, <1>3
<1>5. SubSeq(s, 1, Len(s)) = SubSeq(u, 1, Len(s))
  BY <1>2, <1>3, <1>4, SeqEqual
<1> QED BY <1>1, <1>5 DEF IsPrefix, u

\* While the writer runs, what it has written and what waits is all there is to say.
LEMMA RunningKept ==
  ASSUME NEW k \in Client, k.writer # "done", k.given = k.arrived \o k.queue,
         (\E i \in DOMAIN k.given : k.given[i] = Quit) => k.reader = "done"
  PROVE  Kept(k)
<1>1. k.arrived \in Seq(0..MaxMsgs) /\ k.queue \in Seq(0..MaxMsgs)
  BY ClientFields, AmongNumbers
<1>2. IsPrefix(k.arrived, k.given)
  BY <1>1, PrefixOfJoin
<1> QED BY <1>2 DEF Kept

\* A client is given a message, or the Quit of its reader that ends.
LEMMA GiveKeeps ==
  ASSUME NEW k \in Client, k.writer # "done", Kept(k), NEW m \in 0..MaxMsgs, NEW new \in Client,
         new.queue = Append(k.queue, m), new.given = Append(k.given, m), new.arrived = k.arrived,
         new.writer # "done", k.reader = "done" \/ m = Quit => new.reader = "done"
  PROVE  Kept(new)
<1> DEFINE q == k.queue
           a == k.arrived
           g == k.given
<1>1. /\ q \in Seq(0..MaxMsgs) /\ a \in Seq(0..MaxMsgs) /\ g \in Seq(0..MaxMsgs)
      /\ g = a \o q
  BY ClientFields, AmongNumbers DEF Kept
<1>2. new.given = new.arrived \o new.queue
  <2> HIDE DEF q, a, g
  <2>1. a \o Append(q, m) = Append(a \o q, m)
    BY <1>1, MoveHead
  <2> QED BY <1>1, <2>1 DEF q, a, g
<1>3. ASSUME NEW i \in DOMAIN new.given, new.given[i] = Quit
      PROVE  new.reader = "done"
  <2>1. /\ Len(g) \in Nat /\ DOMAIN g = 1..Len(g) /\ DOMAIN new.given = 1..(Len(g) + 1)
        /\ new.given[Len(g) + 1] = m /\ \A j \in DOMAIN g : new.given[j] = g[j]
    <3> DEFINE h == Append(g, m)
    <3> HIDE DEF g
    <3>1. /\ Len(g) \in Nat /\ DOMAIN g = 1..Len(g) /\ DOMAIN h = 1..(Len(g) + 1)
          /\ h[Len(g) + 1] = m /\ \A j \in DOMAIN g : h[j] = g[j]
      <4>1. g \in Seq(0..MaxMsgs)
        BY <1>1
      <4> QED BY ONLY <4>1, m \in 0..MaxMsgs DEF h
    <3>2. new.given = h
      BY DEF g
    <3> HIDE DEF h
    <3> QED BY <3>1, <3>2
  <2>2. CASE i = Len(g) + 1
    BY <1>3, <2>1, <2>2
  <2>3. CASE i # Len(g) + 1
    <3>1. i \in DOMAIN g /\ g[i] = Quit
      BY <1>3, <2>1, <2>3
    <3> QED BY <3>1 DEF Kept
  <2> QED BY <2>2, <2>3
<1> QED BY <1>2, <1>3, RunningKept

\* The writer writes the message at the head of its queue.
LEMMA WriteKeeps ==
  ASSUME NEW k \in Client, k.writer = "run", Kept(k), k.queue # <<>>, NEW new \in Client,
         new.queue = Tail(k.queue), new.arrived = Append(k.arrived, Head(k.queue)), new.given = k.given,
         new.writer = "run", new.reader = k.reader
  PROVE  Kept(new)
<1> DEFINE q == k.queue
           a == k.arrived
<1>1. q \in Seq(0..MaxMsgs) /\ q # <<>> /\ a \in Seq(0..MaxMsgs) /\ k.given = a \o q
  BY ClientFields, AmongNumbers DEF Kept
<1> HIDE DEF q, a
<1>2. Append(a, Head(q)) \o Tail(q) = a \o q
  BY <1>1, MoveHead
<1>3. new.given = new.arrived \o new.queue
  BY <1>1, <1>2 DEF q, a
<1>4. (\E i \in DOMAIN new.given : new.given[i] = Quit) => new.reader = "done"
  BY DEF Kept
<1> QED BY <1>3, <1>4, RunningKept

\* The writer ends with an empty queue, at a Quit, or on a connection that has ended.
LEMMA EndKeeps ==
  ASSUME NEW k \in Client, k.writer # "done", Kept(k), NEW new \in Client,
         \/ k.link # "open"
         \/ k.queue = <<>>
         \/ k.queue # <<>> /\ Head(k.queue) = Quit,
         new.arrived = k.arrived, new.given = k.given,
         new.writer = "done", new.reader = k.reader, new.link = k.link
  PROVE  Kept(new)
<1> DEFINE q == k.queue
           a == k.arrived
           g == k.given
<1>1. q \in Seq(0..MaxMsgs) /\ a \in Seq(0..MaxMsgs) /\ g = a \o q
  BY ClientFields, AmongNumbers DEF Kept
<1>2. k.link # "open" \/ a = g \/ g[Len(a) + 1] = Quit
  <2> HIDE DEF q, a, g
  <2>1. CASE q = <<>>
    BY <1>1, <2>1, ConcatEmptySeq
  <2>2. CASE q # <<>> /\ Head(q) = Quit
    BY <1>1, <2>2
  <2> QED BY <2>1, <2>2 DEF q
<1> QED BY <1>2 DEF Kept

\* Nothing is given, written or taken from the queue, and the connection is none the
\* better for it.
LEMMA SameKept ==
  ASSUME NEW k \in Client, Kept(k), NEW new \in Client,
         new.queue = k.queue, new.arrived = k.arrived, new.given = k.given,
         new.writer # "done" <=> k.writer # "done",
         new.link = "open" => k.link = "open",
         k.reader = "done" => new.reader = "done"
  PROVE  Kept(new)
BY DEF Kept

\* Only a Quit is new in what a client was given.
OnlyQuits(old, new) ==
  \A i \in DOMAIN new : new[i] # Quit => i \in DOMAIN old /\ new[i] = old[i]

\* The reader ends and leaves its Quit, if the writer still is there to take it.
LEMMA EndReaderKeeps ==
  ASSUME NEW k \in Client, Kept(k), NEW new \in Client,
         new = IF k.writer = "done"
               THEN [k EXCEPT !.reader = "done"]
               ELSE [k EXCEPT !.reader = "done", !.queue = Append(@, Quit), !.given = Append(@, Quit)]
  PROVE  OnlyQuits(k.given, new.given) /\ Kept(new)
<1>1. CASE k.writer = "done"
  <2>1. /\ new.queue = k.queue /\ new.arrived = k.arrived /\ new.given = k.given
        /\ new.writer = k.writer /\ new.link = k.link /\ new.reader = "done"
    BY <1>1 DEF Client
  <2>2. Kept(new)
    BY <2>1, SameKept
  <2> QED BY <2>1, <2>2 DEF OnlyQuits
<1>2. CASE k.writer # "done"
  <2>1. /\ new.queue = Append(k.queue, Quit) /\ new.given = Append(k.given, Quit)
        /\ new.arrived = k.arrived /\ new.writer = k.writer /\ new.reader = "done"
    BY <1>2 DEF Client
  <2>2. Quit \in 0..MaxMsgs
    BY BridgeAssumption DEF Quit
  <2>3. Kept(new)
    BY <1>2, <2>1, <2>2, GiveKeeps
  <2>4. OnlyQuits(k.given, new.given)
    <3> DEFINE g == k.given
    <3>1. g \in Seq(0..MaxMsgs) /\ new.given = Append(g, Quit)
      BY <2>1, ClientFields
    <3> DEFINE h == new.given
    <3> HIDE DEF g, h
    <3>2. \A i \in DOMAIN h : h[i] # Quit => i \in DOMAIN g /\ h[i] = g[i]
      <4>1. h = Append(g, Quit)
        BY <3>1 DEF h
      <4> QED BY <2>2, <3>1, <4>1
    <3> QED BY <3>2 DEF OnlyQuits, g, h
  <2> QED BY <2>3, <2>4
<1> QED BY <1>1, <1>2

\* Every step of a client's tasks and of its peer keeps what the client was given
\* accounted for, and gives it nothing but a Quit.
LEMMA ClientKeeps ==
  ASSUME TypeOK, TypeOK', NEW c \in DOMAIN clients, Kept(clients[c]), ClientStep(c) \/ PeerStep(c)
  PROVE  /\ DOMAIN clients' = DOMAIN clients
         /\ \A d \in DOMAIN clients : d # c => clients'[d] = clients[d]
         /\ OnlyQuits(clients[c].given, clients'[c].given)
         /\ Kept(clients'[c])
<1> DEFINE k == clients[c]
           Goal(new) == new \in Client => OnlyQuits(k.given, new.given) /\ Kept(new)
<1>1. k \in Client /\ c \in Nat
  BY DEF TypeOK
<1> HIDE DEF k
<1>2. Kept(k)
  BY DEF k
<1>3. SUFFICES \E new : clients' = [clients EXCEPT ![c] = new] /\ Goal(new)
  <2>1. PICK new : clients' = [clients EXCEPT ![c] = new] /\ Goal(new)
    BY <1>3
  <2>2. clients \in Seq(Client) /\ clients' \in Seq(Client)
    BY DEF TypeOK
  <2>3. DOMAIN clients' = DOMAIN clients /\ clients'[c] = new
        /\ \A d \in DOMAIN clients : d # c => clients'[d] = clients[d]
    BY <2>1, <2>2
  <2>4. new \in Client
    BY <2>2, <2>3
  <2> QED BY <2>1, <2>3, <2>4 DEF k
<1>4. ASSUME NEW new, new.given = k.given
      PROVE  OnlyQuits(k.given, new.given)
  BY <1>4 DEF OnlyQuits
<1>5. CASE ReaderEnds(c) \/ ReaderRejects(c)
  <2> DEFINE new == IF k.writer = "done"
                    THEN [k EXCEPT !.reader = "done"]
                    ELSE [k EXCEPT !.reader = "done", !.queue = Append(@, Quit), !.given = Append(@, Quit)]
  <2>1. clients' = [clients EXCEPT ![c] = new]
    BY <1>5 DEF ReaderEnds, ReaderRejects, EndReader, k
  <2>2. Goal(new)
    BY <1>1, <1>2, EndReaderKeeps
  <2> HIDE DEF new
  <2> QED BY <2>1, <2>2
<1>6. CASE Writes(c)
  <2> DEFINE new == [k EXCEPT !.queue = Tail(@), !.arrived = Append(@, Head(k.queue)), !.wire = @ + 1]
  <2>1. clients' = [clients EXCEPT ![c] = new]
    BY <1>6 DEF Writes, k
  <2>2. k.writer = "run" /\ k.queue # <<>>
    BY <1>6 DEF Writes, Writing, k
  <2>3. /\ new.queue = Tail(k.queue) /\ new.arrived = Append(k.arrived, Head(k.queue)) /\ new.given = k.given
        /\ new.writer = "run" /\ new.reader = k.reader
    BY <1>1, <2>2 DEF Client
  <2> HIDE DEF new
  <2>4. Goal(new)
    BY <1>1, <1>2, <1>4, <2>2, <2>3, WriteKeeps
  <2> QED BY <2>1, <2>4
<1>7. CASE WriterEnds(c)
  <2> DEFINE new == [k EXCEPT !.writer = "done", !.queue = <<>>]
  <2>1. clients' = [clients EXCEPT ![c] = new]
    BY <1>7 DEF WriterEnds, k
  <2>2. /\ k.writer # "done"
        /\ \/ k.link # "open"
           \/ k.queue = <<>>
           \/ k.queue # <<>> /\ Head(k.queue) = Quit
    BY <1>7 DEF WriterEnds, Writing, k
  <2>3. /\ new.arrived = k.arrived /\ new.given = k.given
        /\ new.writer = "done" /\ new.reader = k.reader /\ new.link = k.link
    BY <1>1 DEF Client
  <2> HIDE DEF new
  <2>4. Goal(new)
    BY <1>1, <1>2, <1>4, <2>2, <2>3, EndKeeps
  <2> QED BY <2>1, <2>4
<1>8. ASSUME NEW new, clients' = [clients EXCEPT ![c] = new],
             new.queue = k.queue, new.arrived = k.arrived, new.given = k.given,
             new.writer # "done" <=> k.writer # "done",
             new.link = "open" => k.link = "open",
             k.reader = "done" => new.reader = "done"
      PROVE  \E x : clients' = [clients EXCEPT ![c] = x] /\ Goal(x)
  <2>1. Goal(new)
    BY <1>1, <1>2, <1>4, <1>8, SameKept
  <2> QED BY <1>8, <2>1
<1>9. CASE BeatTaken(c) \/ BeatWritten(c)
  <2>1. k.writer # "done" /\ \E w \in {"run", "beat"}, n \in {k.wire, k.wire + 1} :
          clients' = [clients EXCEPT ![c] = [k EXCEPT !.writer = w, !.wire = n]]
    <3>1. CASE BeatTaken(c)
      <4>1. [k EXCEPT !.writer = "beat", !.wire = k.wire] = [k EXCEPT !.writer = "beat"]
        BY <1>1 DEF Client
      <4>2. k.writer # "done" /\ clients' = [clients EXCEPT ![c] = [k EXCEPT !.writer = "beat"]]
        BY <3>1 DEF BeatTaken, k
      <4> QED BY <4>1, <4>2
    <3>2. CASE BeatWritten(c)
      BY <3>2 DEF BeatWritten, k
    <3> QED BY <1>9, <3>1, <3>2
  <2>2. PICK w \in {"run", "beat"}, n \in {k.wire, k.wire + 1} :
          clients' = [clients EXCEPT ![c] = [k EXCEPT !.writer = w, !.wire = n]]
    BY <2>1
  <2> DEFINE new == [k EXCEPT !.writer = w, !.wire = n]
  <2>3. /\ new.queue = k.queue /\ new.arrived = k.arrived /\ new.given = k.given
        /\ new.writer # "done" /\ new.link = k.link /\ new.reader = k.reader
    BY <1>1 DEF Client
  <2> HIDE DEF new, Goal
  <2>4. clients' = [clients EXCEPT ![c] = new]
    BY <2>2 DEF new
  <2> QED BY <1>8, <2>1, <2>3, <2>4
<1>10. CASE PeerReads(c)
  <2> DEFINE new == [k EXCEPT !.wire = @ - 1]
  <2>1. clients' = [clients EXCEPT ![c] = new]
    BY <1>10 DEF PeerReads, k
  <2>2. /\ new.queue = k.queue /\ new.arrived = k.arrived /\ new.given = k.given
        /\ new.writer = k.writer /\ new.link = k.link /\ new.reader = k.reader
    BY <1>1 DEF Client
  <2> HIDE DEF new, Goal
  <2> QED BY <1>8, <2>1, <2>2
<1>11. CASE ReaderGets(c)
  <2> DEFINE new == [k EXCEPT !.output = 1]
  <2>1. clients' = [clients EXCEPT ![c] = new]
    BY <1>11 DEF ReaderGets, k
  <2>2. /\ new.queue = k.queue /\ new.arrived = k.arrived /\ new.given = k.given
        /\ new.writer = k.writer /\ new.link = k.link /\ new.reader = k.reader
    BY <1>1 DEF Client
  <2> HIDE DEF new, Goal
  <2> QED BY <1>8, <2>1, <2>2
<1>12. CASE ReaderPanics(c)
  <2> DEFINE new == [k EXCEPT !.reader = "panicked"]
  <2>1. clients' = [clients EXCEPT ![c] = new] /\ k.reader = "run"
    BY <1>12 DEF ReaderPanics, k
  <2>2. /\ new.queue = k.queue /\ new.arrived = k.arrived /\ new.given = k.given
        /\ new.writer = k.writer /\ new.link = k.link
    BY <1>1 DEF Client
  <2> HIDE DEF new, Goal
  <2> QED BY <1>8, <2>1, <2>2
<1>13. CASE LinkEnds(c) \/ PeerSeesEnd(c)
  <2>1. PICK l \in {"closed", "broken"} : clients' = [clients EXCEPT ![c] = [k EXCEPT !.link = l]]
    BY <1>13 DEF LinkEnds, PeerSeesEnd, k
  <2> DEFINE new == [k EXCEPT !.link = l]
  <2>2. /\ new.queue = k.queue /\ new.arrived = k.arrived /\ new.given = k.given
        /\ new.writer = k.writer /\ new.link # "open" /\ new.reader = k.reader
    BY <1>1 DEF Client
  <2>3. clients' = [clients EXCEPT ![c] = new]
    BY <2>1
  <2> HIDE DEF new, Goal
  <2> QED BY <1>8, <2>2, <2>3
<1> QED BY <1>5, <1>6, <1>7, <1>9, <1>10, <1>11, <1>12, <1>13 DEF ClientStep, PeerStep

-----------------------------------------------------------------------------
(* The order of the numbers                                                *)

\* The bridge holds the newest client or none.
Newest == conn \in {0, Len(clients)}

\* What waits in the agent's channel is numbered as the router delivered it.
Waits ==
  /\ \A i, j \in DOMAIN agent : i < j => agent[i].id < agent[j].id
  /\ \A i \in DOMAIN agent : agent[i].id <= sent

\* The number of a message that has been taken from the channel: it was delivered,
\* and is older than all that waits.
Behind(id) == id <= sent /\ \A i \in DOMAIN agent : id < agent[i].id

\* What a client was given, and what exec failed on, has been taken.
Older ==
  /\ \A c \in DOMAIN clients : \A i \in DOMAIN clients[c].given :
       clients[c].given[i] # Quit => Behind(clients[c].given[i])
  /\ \A id \in failed : Behind(id)

NoneFailed ==
  \A c \in DOMAIN clients : \A i \in DOMAIN clients[c].given :
    clients[c].given[i] # Quit => clients[c].given[i] \notin failed

Order == Waits /\ Older /\ GivenInOrder /\ NoneFailed

\* The numbers in the agent's channel, and those given.
LEMMA NumbersTyped ==
  ASSUME TypeOK
  PROVE  /\ DOMAIN agent = 1..Len(agent) /\ Len(agent) \in Nat /\ sent \in Nat
         /\ \A i \in DOMAIN agent : agent[i].id \in 1..MaxMsgs /\ agent[i].id \in Nat
         /\ \A c \in DOMAIN clients :
              /\ clients[c] \in Client /\ c \in Nat
              /\ clients[c].given \in Seq(0..MaxMsgs)
              /\ \A i \in DOMAIN clients[c].given : clients[c].given[i] \in Nat
         /\ \A id \in failed : id \in Nat
<1>1. agent \in Seq(AgentMessages) /\ sent \in Nat /\ clients \in Seq(Client) /\ failed \subseteq 1..MaxMsgs
  BY BridgeAssumption DEF TypeOK
<1>2. \A i \in DOMAIN agent : agent[i] \in AgentMessages
  BY <1>1
<1>3. \A i \in DOMAIN agent : agent[i].id \in 1..MaxMsgs
  BY <1>2 DEF AgentMessages
<1>4. ASSUME NEW c \in DOMAIN clients
      PROVE  /\ clients[c] \in Client /\ c \in Nat
             /\ clients[c].given \in Seq(0..MaxMsgs)
             /\ \A i \in DOMAIN clients[c].given : clients[c].given[i] \in Nat
  <2> DEFINE g == clients[c].given
  <2>1. clients[c] \in Client /\ c \in Nat
    BY <1>1
  <2>2. g \in Seq(0..MaxMsgs)
    BY <2>1, ClientFields
  <2> HIDE DEF g
  <2>3. \A i \in DOMAIN g : g[i] \in 0..MaxMsgs
    BY <2>2, LenProperties, ElementOfSeq
  <2> QED BY <2>1, <2>2, <2>3 DEF g
<1>5. \A n \in 0..MaxMsgs : n \in Nat
  BY BridgeAssumption
<1> QED BY <1>1, <1>3, <1>4, <1>5

\* A step that gives no client anything but a Quit keeps the order, if what was taken stays
\* taken and what newly failed was not taken before.
LEMMA NothingGiven ==
  ASSUME TypeOK, Order, Waits',
         \A c \in DOMAIN clients' : \A i \in DOMAIN clients'[c].given :
           clients'[c].given[i] # Quit =>
             /\ c \in DOMAIN clients /\ i \in DOMAIN clients[c].given
             /\ clients'[c].given[i] = clients[c].given[i],
         \A id \in Nat : Behind(id) => Behind(id)',
         \A id \in failed' : id \in failed \/ (Behind(id)' /\ \A x \in Nat : Behind(x) => x < id)
  PROVE  Order'
<1>1. /\ \A c \in DOMAIN clients : \A i \in DOMAIN clients[c].given : clients[c].given[i] # Quit =>
           Behind(clients[c].given[i]) /\ clients[c].given[i] \in Nat /\ clients[c].given[i] \notin failed
      /\ \A id \in failed : Behind(id) /\ id \in Nat
  BY NumbersTyped DEF Order, Older, NoneFailed
<1>2. Older'
  <2>1. ASSUME NEW c \in DOMAIN clients', NEW i \in DOMAIN clients'[c].given, clients'[c].given[i] # Quit
        PROVE  /\ clients'[c].given[i] <= sent'
               /\ \A j \in DOMAIN agent' : clients'[c].given[i] < agent'[j].id
    <3>1. PICK x \in Nat : x = clients[c].given[i] /\ Behind(x)
      BY <1>1, <2>1
    <3>2. Behind(x)' /\ x = clients'[c].given[i]
      BY <2>1, <3>1
    <3> QED BY <3>2 DEF Behind
  <2>2. ASSUME NEW id \in failed'
        PROVE  Behind(id)'
    BY <1>1
  <2> QED BY <2>1, <2>2 DEF Older, Behind
<1>3. GivenInOrder'
  BY DEF Order, GivenInOrder
<1>4. NoneFailed'
  <2>1. ASSUME NEW c \in DOMAIN clients', NEW i \in DOMAIN clients'[c].given, clients'[c].given[i] # Quit
        PROVE  clients'[c].given[i] \notin failed'
    <3>1. PICK x \in Nat : x = clients[c].given[i] /\ x = clients'[c].given[i] /\ Behind(x) /\ x \notin failed
      BY <1>1, <2>1
    <3>2. ~(x < x)
      BY <3>1
    <3> QED BY <3>1, <3>2
  <2> QED BY <2>1 DEF NoneFailed
<1> QED BY <1>2, <1>3, <1>4 DEF Order

\* A message is taken from the channel: it was older than those left, and newer than
\* all that had been taken before.
LEMMA HeadTaken ==
  ASSUME TypeOK, Waits, agent # <<>>, agent' = Tail(agent), sent' = sent
  PROVE  /\ Waits'
         /\ \A id \in Nat : Behind(id) => Behind(id)'
         /\ Head(agent).id \in 1..MaxMsgs
         /\ \A h \in Nat : h = Head(agent).id => Behind(h)' /\ \A id \in Nat : Behind(id) => id < h
<1>1. /\ DOMAIN agent = 1..Len(agent) /\ Len(agent) \in Nat /\ Len(agent) > 0 /\ sent \in Nat
      /\ \A i \in DOMAIN agent : agent[i].id \in 1..MaxMsgs /\ agent[i].id \in Nat
      /\ agent \in Seq(AgentMessages)
  BY NumbersTyped, EmptySeq DEF TypeOK
<1>2. /\ DOMAIN agent' = 1..(Len(agent) - 1) /\ Head(agent) = agent[1]
      /\ \A i \in DOMAIN agent' : agent'[i] = agent[i + 1] /\ i + 1 \in DOMAIN agent /\ i \in Nat
  BY <1>1, HeadTailProperties
<1>3. 1 \in DOMAIN agent /\ \A i \in DOMAIN agent' : 1 < i + 1
  BY <1>1, <1>2
<1>4. Waits'
  <2>1. \A i, j \in DOMAIN agent' : i < j => i + 1 < j + 1
    BY <1>2
  <2> QED BY <1>2, <2>1 DEF Waits
<1>5. \A id \in Nat : Behind(id) => Behind(id)' /\ id < agent[1].id
  BY <1>2, <1>3 DEF Behind
<1>6. \A i \in DOMAIN agent' : agent[1].id < agent'[i].id
  BY <1>2, <1>3 DEF Waits
<1>7. agent[1].id <= sent'
  BY <1>3 DEF Waits
<1> QED BY <1>1, <1>2, <1>3, <1>4, <1>5, <1>6, <1>7 DEF Behind

\* The router delivers a message: it is newer than all that went before.
LEMMA DeliveryLast ==
  ASSUME TypeOK, Waits, RouterDelivers
  PROVE  Waits' /\ \A id \in Nat : Behind(id) => Behind(id)'
<1>1. /\ DOMAIN agent = 1..Len(agent) /\ Len(agent) \in Nat /\ sent \in Nat
      /\ \A i \in DOMAIN agent : agent[i].id \in Nat
      /\ agent \in Seq(AgentMessages)
  BY NumbersTyped DEF TypeOK
<1>2. PICK m \in {Value(sent'), Wrong(sent'), Other(sent')} : agent' = Append(agent, m)
  BY DEF RouterDelivers
<1>3. sent' = sent + 1 /\ m.id = sent + 1
  BY <1>2 DEF RouterDelivers, Value, Wrong, Other
<1>4. /\ DOMAIN agent' = 1..(Len(agent) + 1) /\ agent'[Len(agent) + 1] = m
      /\ \A i \in DOMAIN agent : agent'[i] = agent[i]
  BY <1>1, <1>2
<1>5. \A i \in DOMAIN agent' : i \in Nat /\ (i \in DOMAIN agent \/ i = Len(agent) + 1)
  BY <1>1, <1>4
<1>6. \A i \in DOMAIN agent : agent[i].id <= sent /\ agent[i].id < sent + 1 /\ i < Len(agent) + 1
  BY <1>1 DEF Waits
<1>7. ASSUME NEW i \in DOMAIN agent', NEW j \in DOMAIN agent', i < j
      PROVE  agent'[i].id < agent'[j].id
  <2>1. i \in DOMAIN agent
    BY <1>1, <1>4, <1>5, <1>7
  <2>2. CASE j \in DOMAIN agent
    BY <1>4, <1>7, <2>1, <2>2 DEF Waits
  <2>3. CASE j = Len(agent) + 1
    BY <1>3, <1>4, <1>6, <2>1, <2>3
  <2> QED BY <1>5, <2>2, <2>3
<1>8. ASSUME NEW i \in DOMAIN agent'
      PROVE  agent'[i].id <= sent'
  <2>1. CASE i \in DOMAIN agent
    BY <1>1, <1>3, <1>4, <1>6, <2>1
  <2>2. CASE i = Len(agent) + 1
    BY <1>1, <1>3, <1>4, <2>2
  <2> QED BY <1>5, <2>1, <2>2
<1>9. ASSUME NEW id \in Nat, Behind(id)
      PROVE  Behind(id)'
  <2>1. id <= sent /\ id < sent + 1 /\ id <= sent'
    BY <1>1, <1>3, <1>9 DEF Behind
  <2>2. ASSUME NEW i \in DOMAIN agent'
        PROVE  id < agent'[i].id
    BY <1>3, <1>4, <1>5, <1>9, <2>1 DEF Behind
  <2> QED BY <2>1, <2>2 DEF Behind
<1> QED BY <1>7, <1>8, <1>9 DEF Waits

\* A message is forwarded to the newest client, the one exec holds: nothing that any
\* client was given, or that failed, is as new as it.
LEMMA ForwardLast ==
  ASSUME TypeOK, TypeOK', Order, Newest, Forwarded
  PROVE  Order'
<1>1. /\ DOMAIN agent = 1..Len(agent) /\ Len(agent) \in Nat
      /\ \A i \in DOMAIN agent : agent[i].id \in Nat
      /\ \A c \in DOMAIN clients :
           /\ clients[c] \in Client /\ c \in Nat
           /\ clients[c].given \in Seq(0..MaxMsgs)
           /\ \A i \in DOMAIN clients[c].given : clients[c].given[i] \in Nat
      /\ \A id \in failed : id \in Nat
  BY NumbersTyped
<1>2. /\ conn = Len(clients) /\ conn \in DOMAIN clients /\ agent # <<>> /\ agent' = Tail(agent) /\ sent' = sent
      /\ failed' = failed
      /\ clients' = [clients EXCEPT ![conn].queue = Append(@, Head(agent).id),
                                    ![conn].given = Append(@, Head(agent).id)]
      /\ clients \in Seq(Client)
  BY DEF Forwarded, TakesFromAgent, Selecting, Newest, TypeOK
<1>3. PICK h \in Nat : h = Head(agent).id
  <2>1. Head(agent).id \in 1..MaxMsgs
    BY <1>2, HeadTaken DEF Order
  <2>2. Head(agent).id \in Nat
    BY <2>1, BridgeAssumption
  <2> QED BY <2>2
<1>4. /\ Waits' /\ Behind(h)' /\ h \in 1..MaxMsgs
      /\ \A id \in Nat : Behind(id) => Behind(id)' /\ id < h
  BY <1>2, <1>3, HeadTaken DEF Order
<1> DEFINE g == clients[conn].given
<1>5. g \in Seq(0..MaxMsgs) /\ DOMAIN g = 1..Len(g) /\ Len(g) \in Nat
  BY <1>1, <1>2
<1>6. /\ DOMAIN clients' = DOMAIN clients
      /\ clients'[conn].given = Append(g, h)
      /\ \A c \in DOMAIN clients : c # conn => clients'[c].given = clients[c].given
  <2> DEFINE k == clients[conn]
             new == [k EXCEPT !.queue = Append(@, h), !.given = Append(@, h)]
  <2>1. k \in Client /\ clients' = [clients EXCEPT ![conn] = new]
    BY <1>1, <1>2, <1>3
  <2>2. new.given = Append(k.given, h)
    BY <2>1 DEF Client
  <2> HIDE DEF new
  <2> QED BY <1>2, <2>1, <2>2
<1> DEFINE G == clients'[conn].given
<1>7. /\ DOMAIN G = 1..(Len(g) + 1) /\ G[Len(g) + 1] = h
      /\ \A i \in DOMAIN g : G[i] = g[i]
  <2> HIDE DEF g
  <2> QED BY <1>4, <1>5, <1>6
    \* Old: the client had this one before; New: it is the one just given.
<1> DEFINE Old(c, i) == c \in DOMAIN clients /\ i \in DOMAIN clients[c].given
                        /\ clients'[c].given[i] = clients[c].given[i]
           New(c, i) == c = conn /\ i = Len(g) + 1 /\ clients'[c].given[i] = h
<1>8. \A c \in DOMAIN clients' : \A i \in DOMAIN clients'[c].given : i \in Nat /\ (Old(c, i) \/ New(c, i))
  <2>1. ASSUME NEW c \in DOMAIN clients, c # conn, NEW i \in DOMAIN clients[c].given
        PROVE  i \in Nat
    <3> DEFINE s == clients[c].given
    <3>1. s \in Seq(0..MaxMsgs) /\ i \in DOMAIN s
      BY <1>1, <2>1
    <3> HIDE DEF s
    <3> QED BY <3>1, LenProperties
  <2>2. ASSUME NEW i \in DOMAIN G
        PROVE  i \in Nat /\ (i \in DOMAIN g \/ i = Len(g) + 1)
    <3> HIDE DEF G, g
    <3> QED BY <1>5, <1>7
  <2> QED BY <1>6, <1>7, <2>1, <2>2
<1>9. \A c \in DOMAIN clients : \A i \in DOMAIN clients[c].given : clients[c].given[i] # Quit =>
        /\ clients[c].given[i] \in Nat /\ Behind(clients[c].given[i])
        /\ clients[c].given[i] \notin failed
  BY <1>1 DEF Order, Older, NoneFailed
<1>10. \A c \in DOMAIN clients' : \A i \in DOMAIN clients'[c].given :
         Old(c, i) /\ clients'[c].given[i] # Quit =>
           /\ clients'[c].given[i] \in Nat /\ Behind(clients'[c].given[i])
           /\ clients'[c].given[i] < h /\ clients'[c].given[i] \notin failed
  <2>1. ASSUME NEW c \in DOMAIN clients', NEW i \in DOMAIN clients'[c].given, Old(c, i),
               clients'[c].given[i] # Quit
        PROVE  /\ clients'[c].given[i] \in Nat /\ clients'[c].given[i] < h
               /\ clients'[c].given[i] <= sent /\ \A j \in DOMAIN agent : clients'[c].given[i] < agent[j].id
               /\ clients'[c].given[i] \notin failed
    <3>1. PICK x \in Nat : x = clients[c].given[i] /\ Behind(x) /\ x \notin failed
      BY <1>9, <2>1
    <3>2. x < h /\ x = clients'[c].given[i]
      BY <1>4, <2>1, <3>1
    <3> QED BY <3>1, <3>2 DEF Behind
  <2> HIDE DEF Old
  <2> QED BY <2>1 DEF Behind
<1>11. GivenInOrder'
  <2> SUFFICES ASSUME NEW c \in DOMAIN clients', NEW d \in DOMAIN clients',
                      NEW i \in DOMAIN clients'[c].given, NEW j \in DOMAIN clients'[d].given,
                      clients'[c].given[i] # Quit, clients'[d].given[j] # Quit,
                      c < d \/ (c = d /\ i < j)
               PROVE  clients'[c].given[i] < clients'[d].given[j]
    BY DEF GivenInOrder
  <2>1. c \in 1..conn /\ d \in 1..conn /\ conn \in Nat /\ i \in Nat /\ j \in Nat
    <3>1. DOMAIN clients = 1..conn /\ conn \in Nat
      BY <1>2
    <3> QED BY <1>6, <1>8, <3>1
  <2>2. Old(c, i)
    <3>1. ASSUME New(c, i)
          PROVE  FALSE
      <4>1. c = conn /\ i = Len(g) + 1 /\ d = conn /\ i < j
        BY <2>1, <3>1
      <4>2. j \in DOMAIN G
        BY <4>1
      <4> HIDE DEF G, g
      <4> QED BY <1>5, <1>7, <2>1, <4>1, <4>2
    <3> QED BY <1>8, <3>1
  <2>3. CASE New(d, j)
    <3>1. clients'[c].given[i] < h
      BY <1>10, <2>2
    <3> QED BY <2>3, <3>1
  <2>4. CASE Old(d, j)
    BY <2>2, <2>4 DEF Order, GivenInOrder
  <2> QED BY <1>8, <2>3, <2>4
<1>12. Older'
  <2>1. ASSUME NEW c \in DOMAIN clients', NEW i \in DOMAIN clients'[c].given, clients'[c].given[i] # Quit
        PROVE  /\ clients'[c].given[i] <= sent'
               /\ \A j \in DOMAIN agent' : clients'[c].given[i] < agent'[j].id
    <3>1. PICK x \in Nat : x = clients'[c].given[i] /\ (Behind(x) \/ x = h)
      <4>1. CASE Old(c, i)
        <5>1. PICK x \in Nat : x = clients[c].given[i] /\ Behind(x)
          BY <1>9, <2>1, <4>1
        <5> QED BY <4>1, <5>1
      <4>2. CASE New(c, i)
        BY <4>2
      <4> QED BY <1>8, <4>1, <4>2
    <3>2. Behind(x)'
      BY <1>4, <3>1
    <3> QED BY <3>1, <3>2 DEF Behind
  <2>2. ASSUME NEW id \in failed'
        PROVE  Behind(id)'
    BY <1>1, <1>2, <1>4 DEF Order, Older
  <2> QED BY <2>1, <2>2 DEF Older, Behind
<1>13. NoneFailed'
  <2>1. ASSUME NEW id \in failed
        PROVE  id < h /\ id # h
    <3>1. id \in Nat /\ Behind(id)
      BY <1>1 DEF Order, Older
    <3>2. id < h
      BY <1>4, <3>1
    <3> QED BY <3>1, <3>2
  <2>2. ASSUME NEW c \in DOMAIN clients', NEW i \in DOMAIN clients'[c].given, clients'[c].given[i] # Quit
        PROVE  clients'[c].given[i] \notin failed'
    BY <1>2, <1>8, <1>9, <2>1, <2>2
  <2> QED BY <2>2 DEF NoneFailed
<1> QED BY <1>4, <1>11, <1>12, <1>13 DEF Order

-----------------------------------------------------------------------------
(* No message lost or repeated                                             *)

AllKept == \A c \in DOMAIN clients : Kept(clients[c])

AccountInv == TypeOK /\ Newest /\ Order /\ AllKept

\* A step that leaves the clients, the channel and the failures alone.
LEMMA Elsewhere ==
  ASSUME AccountInv, UNCHANGED <<conn, agent, clients, failed, sent>>
  PROVE  Newest' /\ Order' /\ AllKept'
BY DEF AccountInv, Newest, Order, Waits, Older, Behind, GivenInOrder, NoneFailed, AllKept

\* The steps of exec, of the application and of the router.
LEMMA ExecKeeps ==
  ASSUME AccountInv, TypeOK',
         \/ ExecStep \/ CallAgain \/ DropBridge \/ RouterDelivers \/ RouterUnregisters
  PROVE  Newest' /\ Order' /\ AllKept'
<1>1. /\ TypeOK /\ Newest /\ Order /\ Waits /\ AllKept
      /\ clients \in Seq(Client) /\ clients' \in Seq(Client) /\ Len(clients) \in Nat
  BY DEF AccountInv, Order, TypeOK
<1>2. CASE Connected
  <2>1. clients' = Append(clients, NewClient) /\ conn' = Len(clients') /\ UNCHANGED <<agent, failed, sent>>
    BY <1>2 DEF Connected
  <2> DEFINE n == Len(clients)
  <2>2. /\ DOMAIN clients = 1..n /\ DOMAIN clients' = 1..(n + 1)
        /\ clients'[n + 1] = NewClient /\ \A c \in DOMAIN clients : clients'[c] = clients[c]
    <3>1. NewClient \in Client
      BY NewClientTyped
    <3> QED BY <1>1, <2>1, <3>1
  <2>3. \A c \in DOMAIN clients' : c \in DOMAIN clients \/ clients'[c] = NewClient
    BY <1>1, <2>2
  <2>4. /\ NewClient.given = <<>> /\ NewClient.arrived = <<>> /\ NewClient.queue = <<>>
        /\ NewClient.writer = "run" /\ NewClient \in Client
    BY NewClientTyped DEF NewClient
  <2>5. Kept(NewClient)
    <3>1. <<>> \in Seq(0..MaxMsgs) /\ DOMAIN <<>> = {}
      OBVIOUS
    <3>2. <<>> \o <<>> = <<>>
      BY <3>1, ConcatEmptySeq
    <3>3. NewClient.given = NewClient.arrived \o NewClient.queue
      BY <2>4, <3>2
    <3>4. ~\E i \in DOMAIN NewClient.given : NewClient.given[i] = Quit
      BY <2>4, <3>1
    <3>5. NewClient.writer # "done"
      BY <2>4
    <3> QED BY <2>4, <3>3, <3>4, <3>5, RunningKept
  <2>6. AllKept'
    BY <1>1, <2>2, <2>3, <2>5 DEF AllKept
  <2>7. Newest'
    BY <2>1 DEF Newest
  <2>8. Order'
    <3>1. \A c \in DOMAIN clients' : \A i \in DOMAIN clients'[c].given :
            c \in DOMAIN clients /\ clients'[c].given = clients[c].given
      <4>1. DOMAIN NewClient.given = {}
        BY <2>4
      <4> QED BY <2>2, <2>3, <4>1
    <3>2. Waits' /\ \A id \in Nat : Behind(id) => Behind(id)'
      BY <1>1, <2>1 DEF Waits, Behind
    <3> QED BY <1>1, <2>1, <3>1, <3>2, NothingGiven
  <2> QED BY <2>6, <2>7, <2>8
<1>3. CASE InputDropped
  <2>1. /\ conn \in DOMAIN clients /\ UNCHANGED <<agent, failed, sent, conn>>
        /\ clients' = [clients EXCEPT ![conn].output = @ - 1]
    BY <1>1, <1>3 DEF InputDropped, Selecting, TypeOK
  <2> DEFINE k == clients[conn]
             new == [k EXCEPT !.output = @ - 1]
  <2>2. clients' = [clients EXCEPT ![conn] = new] /\ k \in Client
    BY <1>1, <2>1
  <2>3. /\ new.queue = k.queue /\ new.given = k.given /\ new.arrived = k.arrived
        /\ new.writer = k.writer /\ new.reader = k.reader /\ new.link = k.link
    BY <2>2 DEF Client
  <2> HIDE DEF new
  <2>4. /\ DOMAIN clients' = DOMAIN clients /\ Len(clients') = Len(clients) /\ clients'[conn] = new
        /\ \A c \in DOMAIN clients : c # conn => clients'[c] = clients[c]
    BY <1>1, <2>1, <2>2
  <2>5. AllKept'
    <3>1. Kept(new)
      BY <1>1, <2>1, <2>3 DEF AllKept, Kept
    <3> QED BY <1>1, <2>4, <3>1 DEF AllKept
  <2>6. Newest'
    BY <1>1, <2>1, <2>4 DEF Newest
  <2>7. Order'
    <3>1. \A c \in DOMAIN clients' : c \in DOMAIN clients /\ clients'[c].given = clients[c].given
      BY <2>3, <2>4
    <3>2. Waits' /\ \A id \in Nat : Behind(id) => Behind(id)'
      BY <1>1, <2>1 DEF Waits, Behind
    <3> QED BY <1>1, <2>1, <3>1, <3>2, NothingGiven
  <2> QED BY <2>5, <2>6, <2>7
<1>4. CASE Forwarded
  <2>1. /\ conn \in DOMAIN clients /\ conn' = conn /\ agent # <<>> /\ clients[conn].writer # "done"
        /\ agent' = Tail(agent) /\ sent' = sent
        /\ clients' = [clients EXCEPT ![conn].queue = Append(@, Head(agent).id),
                                      ![conn].given = Append(@, Head(agent).id)]
    BY <1>1, <1>4 DEF Forwarded, TakesFromAgent, Selecting, TypeOK
  <2> DEFINE k == clients[conn]
             m == Head(agent).id
             new == [k EXCEPT !.queue = Append(@, m), !.given = Append(@, m)]
  <2>2. m \in 1..MaxMsgs
    BY <1>1, <2>1, HeadTaken
  <2> HIDE DEF m
  <2>3. clients' = [clients EXCEPT ![conn] = new] /\ k \in Client
    <3>1. k \in Client
      BY <1>1, <2>1
    <3>2. clients' = [clients EXCEPT ![conn] = new]
      BY ONLY <2>1 DEF m
    <3> QED BY <3>1, <3>2
  <2>4. /\ DOMAIN clients' = DOMAIN clients /\ Len(clients') = Len(clients) /\ clients'[conn] = new
        /\ \A c \in DOMAIN clients : c # conn => clients'[c] = clients[c]
    <3> HIDE DEF new
    <3> QED BY <1>1, <2>1, <2>3
  <2>5. new \in Client
    <3> HIDE DEF new
    <3> QED BY <1>1, <2>1, <2>4
  <2>6. Kept(new)
    <3>1. Kept(k) /\ k.writer # "done" /\ m \in 0..MaxMsgs /\ m # Quit
      BY <1>1, <2>1, <2>2, BridgeAssumption DEF AllKept, Quit
    <3> HIDE DEF k
    <3>2. /\ new.queue = Append(k.queue, m) /\ new.given = Append(k.given, m) /\ new.arrived = k.arrived
          /\ new.writer = k.writer /\ new.reader = k.reader
      BY <2>3 DEF Client
    <3> HIDE DEF new
    <3> QED BY <2>3, <2>5, <3>1, <3>2, GiveKeeps
  <2>7. AllKept'
    <3> HIDE DEF new
    <3> QED BY <1>1, <2>4, <2>6 DEF AllKept
  <2>8. Newest'
    BY <1>1, <2>1, <2>4 DEF Newest
  <2> QED BY <1>1, <1>4, <2>7, <2>8, ForwardLast
<1>5. CASE NotForwarded \/ HandedOver
  <2>1. agent # <<>> /\ agent' = Tail(agent) /\ UNCHANGED <<sent, conn, clients>>
        /\ failed' \subseteq failed \cup {Head(agent).id}
    BY <1>5 DEF NotForwarded, HandedOver, TakesFromAgent
  <2>2. PICK h \in Nat : h = Head(agent).id
    <3>1. Head(agent).id \in 1..MaxMsgs
      BY <1>1, <2>1, HeadTaken
    <3>2. Head(agent).id \in Nat
      BY <3>1, BridgeAssumption
    <3> QED BY <3>2
  <2>3. /\ Waits' /\ Behind(h)'
        /\ \A id \in Nat : Behind(id) => Behind(id)' /\ id < h
    BY <1>1, <2>1, <2>2, HeadTaken
  <2>4. \A id \in failed' : id \in failed \/ (Behind(id)' /\ \A x \in Nat : Behind(x) => x < id)
    <3>1. \A id \in failed' : id \in failed \/ id = h
      BY <2>1, <2>2
    <3>2. ASSUME NEW id \in failed', id = h
          PROVE  Behind(id)' /\ \A x \in Nat : Behind(x) => x < id
      BY <2>3, <3>2
    <3> QED BY <3>1, <3>2
  <2>5. Order'
    BY <1>1, <2>1, <2>3, <2>4, NothingGiven
  <2> QED BY <1>1, <2>1, <2>5 DEF Newest, AllKept
<1>6. CASE RouterDelivers
  <2>1. UNCHANGED <<conn, clients, failed>>
    BY <1>6 DEF RouterDelivers
  <2>2. Waits' /\ \A id \in Nat : Behind(id) => Behind(id)'
    BY <1>1, <1>6, DeliveryLast
  <2>3. Order'
    BY <1>1, <2>1, <2>2, NothingGiven
  <2> QED BY <1>1, <2>1, <2>3 DEF Newest, AllKept
<1>7. CASE DropBridge
  <2>1. conn' = 0 /\ agent' = <<>> /\ UNCHANGED <<clients, failed, sent>>
    BY <1>7 DEF DropBridge
  <2>2. Waits' /\ \A id \in Nat : Behind(id) => Behind(id)'
    BY <2>1 DEF Waits, Behind
  <2>3. Order'
    BY <1>1, <2>1, <2>2, NothingGiven
  <2> QED BY <1>1, <2>1, <2>3 DEF Newest, AllKept
<1>8. CASE \/ FirstConnect \/ ConnectFailed \/ WakeUp \/ ClientClosed \/ AgentClosed
           \/ CallAgain \/ RouterUnregisters
  <2>1. UNCHANGED <<conn, agent, clients, failed, sent>>
    BY <1>8 DEF FirstConnect, ConnectFailed, WakeUp, ClientClosed, AgentClosed, CallAgain, RouterUnregisters
  <2> QED BY <2>1, Elsewhere
<1> QED BY <1>2, <1>3, <1>4, <1>5, <1>6, <1>7, <1>8 DEF ExecStep

\* Every step of the bridge, its clients and its peer keeps the invariant.
LEMMA StepAccounts ==
  ASSUME AccountInv, [Next]_vars
  PROVE  AccountInv'
<1>1. TypeOK /\ TypeOK'
  BY StepTyped DEF AccountInv
<1>2. CASE UNCHANGED vars
  BY <1>1, <1>2, Elsewhere DEF vars, AccountInv
<1>3. CASE \/ ExecStep \/ CallAgain \/ DropBridge \/ RouterDelivers \/ RouterUnregisters
  BY <1>1, <1>3, ExecKeeps DEF AccountInv
<1>4. ASSUME NEW c \in DOMAIN clients, ClientStep(c) \/ PeerStep(c)
      PROVE  AccountInv'
  <2>1. /\ DOMAIN clients' = DOMAIN clients
        /\ \A d \in DOMAIN clients : d # c => clients'[d] = clients[d]
        /\ OnlyQuits(clients[c].given, clients'[c].given)
        /\ Kept(clients'[c])
    BY <1>1, <1>4, ClientKeeps DEF AccountInv, AllKept
  <2>2. UNCHANGED <<conn, agent, failed, sent>>
    BY <1>4, ClientsOnly DEF ClientOnly
  <2>3. AllKept'
    BY <2>1 DEF AccountInv, AllKept
  <2>4. Newest'
    <3>1. clients \in Seq(Client) /\ clients' \in Seq(Client)
      BY <1>1 DEF TypeOK
    <3>2. Len(clients') = Len(clients)
      BY <2>1, <3>1
    <3> QED BY <2>2, <3>2 DEF AccountInv, Newest
  <2>5. Order'
    <3>1. Waits' /\ \A id \in Nat : Behind(id) => Behind(id)'
      BY <2>2 DEF AccountInv, Order, Waits, Behind
    <3>2. \A d \in DOMAIN clients' : \A i \in DOMAIN clients'[d].given : clients'[d].given[i] # Quit =>
            /\ d \in DOMAIN clients /\ i \in DOMAIN clients[d].given
            /\ clients'[d].given[i] = clients[d].given[i]
      BY <2>1 DEF OnlyQuits
    <3> QED BY <1>1, <2>2, <3>1, <3>2, NothingGiven DEF AccountInv
  <2> QED BY <1>1, <2>3, <2>4, <2>5 DEF AccountInv
<1> QED BY <1>2, <1>3, <1>4 DEF Next

\* Whatever outages there are, however exec and the readers end: a message exec took
\* with Ok went to one client, once and in order, and that client wrote it, or still
\* holds it; or its connection has ended, or the message was behind the Quit of a
\* reader that has.
THEOREM AccountedCorrect == Spec => []Accounted
<1>1. Init => AccountInv
  <2> SUFFICES ASSUME Init PROVE AccountInv
    OBVIOUS
  <2>1. TypeOK
    BY TypeInit
  <2>2. conn = 0 /\ agent = <<>> /\ clients = <<>> /\ failed = {}
    BY DEF Init
  <2>3. DOMAIN agent = {} /\ DOMAIN clients = {}
    BY <2>2
  <2>4. Newest /\ AllKept
    BY <2>2, <2>3 DEF Newest, AllKept
  <2>5. Order
    BY <2>2, <2>3 DEF Order, Waits, Older, GivenInOrder, NoneFailed
  <2> QED BY <2>1, <2>4, <2>5 DEF AccountInv
<1>2. AccountInv /\ [Next]_vars => AccountInv'
  BY StepAccounts
<1>3. AccountInv => Accounted
  <2> SUFFICES ASSUME AccountInv PROVE Accounted
    OBVIOUS
  <2>1. Quit \notin failed
    BY DEF AccountInv, TypeOK, Quit
  <2> QED BY <2>1 DEF AccountInv, Order, NoneFailed, AllKept, Accounted
<1> QED BY <1>1, <1>2, <1>3, PTL DEF Spec
=============================================================================

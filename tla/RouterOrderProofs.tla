-------------------------- MODULE RouterOrderProofs --------------------------
(***************************************************************************)
(* More proofs about Router: the order of the messages, and the lists of   *)
(* trackers.                                                               *)
(***************************************************************************)
EXTENDS RouterProofs, SequenceLemmas

-----------------------------------------------------------------------------
(* Order: the inbox and the channels are queues of messages whose numbers  *)
(* are the posts                                                           *)

\* No message of s has a number above n.
Within(s, n) == \A i \in DOMAIN s : Numbered(s[i]) => s[i].n <= n

\* Appending a message younger than all of s.
LEMMA AppendOrder ==
  ASSUME NEW S, NEW s \in Seq(S), NEW m \in S
  PROVE  /\ Increasing(s) /\ (\A i \in DOMAIN s : Numbered(s[i]) /\ Numbered(m) => s[i].n < m.n)
              => Increasing(Append(s, m))
         /\ \A n \in Nat : Within(s, n) /\ (Numbered(m) => m.n <= n) => Within(Append(s, m), n)
         /\ \A r : Below(r, s) /\ (\A i \in DOMAIN r : Numbered(r[i]) /\ Numbered(m) => r[i].n < m.n)
                   => Below(r, Append(s, m))
         /\ \A r : Below(s, r) /\ (\A i \in DOMAIN r : Numbered(r[i]) /\ Numbered(m) => m.n < r[i].n)
                   => Below(Append(s, m), r)
<1>1. /\ Len(s) \in Nat /\ DOMAIN s = 1..Len(s) /\ DOMAIN Append(s, m) = 1..(Len(s) + 1)
      /\ \A i \in 1..Len(s) : Append(s, m)[i] = s[i]
      /\ Append(s, m)[Len(s) + 1] = m
  BY AppendProperties, LenProperties
<1>. DEFINE t == Append(s, m)
<1>. HIDE DEF t
<1>2. \A i \in DOMAIN t : (i \in DOMAIN s /\ t[i] = s[i]) \/ (i = Len(s) + 1 /\ t[i] = m)
  BY <1>1 DEF t
<1>3. ASSUME Increasing(s), \A i \in DOMAIN s : Numbered(s[i]) /\ Numbered(m) => s[i].n < m.n
      PROVE  Increasing(t)
  <2>. SUFFICES ASSUME NEW i \in DOMAIN t, NEW j \in DOMAIN t, i < j, Numbered(t[i]), Numbered(t[j])
                PROVE  t[i].n < t[j].n
    BY DEF Increasing
  <2>1. i \in DOMAIN s /\ t[i] = s[i]
    BY <1>1, <1>2
  <2>. QED BY <1>2, <1>3, <2>1 DEF Increasing
<1>4. \A n \in Nat : Within(s, n) /\ (Numbered(m) => m.n <= n) => Within(t, n)
  BY <1>2 DEF Within
<1>5. \A r : Below(r, s) /\ (\A i \in DOMAIN r : Numbered(r[i]) /\ Numbered(m) => r[i].n < m.n)
              => Below(r, t)
  BY <1>2 DEF Below
<1>6. \A r : Below(s, r) /\ (\A i \in DOMAIN r : Numbered(r[i]) /\ Numbered(m) => m.n < r[i].n)
              => Below(t, r)
  BY <1>2 DEF Below
<1>. QED BY <1>3, <1>4, <1>5, <1>6 DEF t

\* Taking the oldest message.
LEMMA TailOrder ==
  ASSUME NEW S, NEW s \in Seq(S), s # <<>>
  PROVE  /\ Increasing(s) => Increasing(Tail(s))
         /\ \A n \in Nat : Within(s, n) => Within(Tail(s), n)
         /\ \A t : Below(t, s) => Below(t, Tail(s))
         /\ \A t : Below(s, t) => Below(Tail(s), t)
<1>1. \A i \in DOMAIN Tail(s) : i \in Nat /\ i + 1 \in DOMAIN s /\ Tail(s)[i] = s[i + 1]
  BY HeadTailProperties, LenProperties
<1>. DEFINE r == Tail(s)
<1>. HIDE DEF r
<1>2. \A i \in DOMAIN r : i \in Nat /\ i + 1 \in DOMAIN s /\ r[i] = s[i + 1]
  BY <1>1 DEF r
<1>3. Increasing(s) => Increasing(r)
  <2>. SUFFICES ASSUME Increasing(s), NEW i \in DOMAIN r, NEW j \in DOMAIN r,
                       i < j, Numbered(r[i]), Numbered(r[j])
                PROVE  r[i].n < r[j].n
    BY DEF Increasing
  <2>1. i + 1 < j + 1
    BY <1>2
  <2>. QED BY <1>2, <2>1 DEF Increasing
<1>4. \A n \in Nat : Within(s, n) => Within(r, n)
  BY <1>2 DEF Within
<1>5. \A t : Below(t, s) => Below(t, r)
  BY <1>2 DEF Below
<1>6. \A t : Below(s, t) => Below(r, t)
  BY <1>2 DEF Below
<1>. QED BY <1>3, <1>4, <1>5, <1>6 DEF r

\* Nobody has a message with a number that was not given yet.
OrderInv ==
  /\ Ordered
  /\ Within(inbox, posts) /\ \A a \in Agents : Within(queue[a], posts)

\* Numbers can be compared.
LEMMA NumbersTyped ==
  ASSUME TypeOK
  PROVE  /\ posts \in Nat
         /\ \A i \in DOMAIN inbox : Numbered(inbox[i]) => inbox[i].n \in Nat
         /\ \A a \in Agents : \A i \in DOMAIN queue[a] : Numbered(queue[a][i]) => queue[a][i].n \in Nat
<1>1. \A i \in DOMAIN inbox : inbox[i] \in RouterMessage
  BY ElementOfSeq, LenProperties DEF TypeOK
<1>2. \A a \in Agents : \A i \in DOMAIN queue[a] : queue[a][i] \in AgentMsg
  BY ElementOfSeq, LenProperties DEF TypeOK
<1>3. \A m \in RouterMessage : Numbered(m) => m.n \in Nat
  BY EnvelopesTyped DEF Envelopes, Numbers, Numbered
<1>4. \A m \in AgentMsg : Numbered(m) => m.n \in Nat
  BY DEF AgentMsg, Envelopes, Numbers, Numbered, EnvelopeKinds, ShutdownMsg
<1>5. posts \in Nat
  BY AgentsAssumption DEF TypeOK
<1>. QED BY <1>1, <1>2, <1>3, <1>4, <1>5

\* A post: what is appended to the inbox is younger than all there is.
LEMMA OrderedTell ==
  ASSUME TypeOK, OrderInv, NEW m \in RouterMessage, Tell(m), UNCHANGED queue,
         posts' \in {posts, posts + 1},
         Numbered(m) => m.n = posts + 1 /\ posts' = posts + 1
  PROVE  OrderInv'
<1>1. posts' \in Nat /\ posts <= posts' /\ inbox \in Seq(RouterMessage)
  BY NumbersTyped DEF TypeOK
<1>2. /\ \A i \in DOMAIN inbox : Numbered(inbox[i]) => inbox[i].n < posts + 1 /\ inbox[i].n <= posts'
      /\ \A a \in Agents : \A i \in DOMAIN queue[a] :
           Numbered(queue[a][i]) => queue[a][i].n < posts + 1 /\ queue[a][i].n <= posts'
  BY <1>1, NumbersTyped DEF OrderInv, Within
<1>3. Within(inbox, posts') /\ \A a \in Agents : Within(queue[a], posts')
  BY <1>2 DEF Within
<1>4. CASE phase = "stopped"
  BY <1>3, <1>4 DEF Tell, OrderInv, Ordered
<1>5. CASE phase # "stopped"
  <2>1. inbox' = Append(inbox, m)
    BY <1>5 DEF Tell
  <2>2. Increasing(Append(inbox, m))
    BY <1>1, <1>2, AppendOrder DEF OrderInv, Ordered
  <2>3. Within(Append(inbox, m), posts')
    BY <1>1, <1>3, AppendOrder
  <2>4. \A a \in Agents : Below(queue[a], Append(inbox, m))
    BY <1>1, <1>2, AppendOrder DEF OrderInv, Ordered
  <2>. QED BY <1>3, <2>1, <2>2, <2>3, <2>4 DEF OrderInv, Ordered
<1>. QED BY <1>4, <1>5

\* A put into a channel: what is appended is younger than all the channel holds
\* and older than all of the inbox, if it has a number at all.
LEMMA OrderedPut ==
  ASSUME TypeOK, OrderInv, NEW b \in Agents, NEW e \in AgentMsg,
         queue' = [queue EXCEPT ![b] = Append(@, e)], posts' = posts,
         Increasing(inbox'), Within(inbox', posts), \A a \in Agents : Below(queue[a], inbox'),
         Numbered(e) => /\ e.n <= posts
                        /\ \A i \in DOMAIN queue[b] : Numbered(queue[b][i]) => queue[b][i].n < e.n
                        /\ \A i \in DOMAIN inbox' : Numbered(inbox'[i]) => e.n < inbox'[i].n
  PROVE  OrderInv'
<1>1. posts \in Nat /\ queue[b] \in Seq(AgentMsg) /\ queue \in [Agents -> Seq(AgentMsg)]
  BY NumbersTyped DEF TypeOK
<1>. DEFINE q == Append(queue[b], e)
<1>2. Increasing(q)
  BY <1>1, AppendOrder DEF OrderInv, Ordered
<1>3. Within(q, posts)
  BY <1>1, AppendOrder DEF OrderInv
<1>4. Below(q, inbox')
  BY <1>1, AppendOrder
<1>. HIDE DEF q
<1>5. \A a \in Agents : queue'[a] = IF a = b THEN q ELSE queue[a]
  BY <1>1 DEF q
<1>6. \A a \in Agents : Increasing(queue'[a]) /\ Within(queue'[a], posts) /\ Below(queue'[a], inbox')
  BY <1>2, <1>3, <1>4, <1>5 DEF OrderInv, Ordered
<1>. QED BY <1>6 DEF OrderInv, Ordered

\* The router takes m, and puts nothing with a number but m into a channel.
LEMMA OrderedTake ==
  ASSUME TypeOK, OrderInv, NEW m, Takes(m), posts' = posts,
         \/ queue' = queue
         \/ \E b \in Agents, e \in AgentMsg : /\ Numbered(e) => e = m
                                              /\ queue' = [queue EXCEPT ![b] = Append(@, e)]
  PROVE  OrderInv'
<1>1. inbox \in Seq(RouterMessage) /\ inbox # <<>> /\ inbox' = Tail(inbox) /\ posts \in Nat
  BY NumbersTyped DEF TypeOK, Takes
<1>2. Increasing(inbox') /\ Within(inbox', posts) /\ \A a \in Agents : Below(queue[a], inbox')
  BY <1>1, TailOrder DEF OrderInv, Ordered
<1>3. CASE queue' = queue
  BY <1>2, <1>3 DEF OrderInv, Ordered
<1>4. ASSUME NEW b \in Agents, NEW e \in AgentMsg, Numbered(e) => e = m,
             queue' = [queue EXCEPT ![b] = Append(@, e)]
      PROVE  OrderInv'
  <2>1. 1 \in DOMAIN inbox /\ inbox[1] = m
    BY <1>1, TakesEffect
  <2>2. ASSUME Numbered(e) PROVE e.n <= posts
    BY <1>4, <2>1, <2>2 DEF OrderInv, Within
  <2>3. ASSUME Numbered(e), NEW i \in DOMAIN queue[b], Numbered(queue[b][i])
        PROVE  queue[b][i].n < e.n
    BY <1>4, <2>1, <2>3 DEF OrderInv, Ordered, Below
  <2>4. ASSUME Numbered(e), NEW i \in DOMAIN inbox', Numbered(inbox'[i])
        PROVE  e.n < inbox'[i].n
    <3>1. i + 1 \in DOMAIN inbox /\ inbox'[i] = inbox[i + 1] /\ 1 < i + 1
      BY <1>1, TakesEffect
    <3>. QED BY <1>4, <2>1, <2>4, <3>1 DEF OrderInv, Ordered, Increasing
  <2>. QED BY <1>2, <1>4, <2>2, <2>3, <2>4, OrderedPut
<1>. QED BY <1>3, <1>4

\* The steps of an agent keep the order.
LEMMA OrderedAgentStep ==
  ASSUME TypeOK, OrderInv, NEW a \in Agents, AgentStep(a)
  PROVE  OrderInv'
<1>1. ASSUME NEW m \in RouterMessage, Post(a, m) \/ ReaderPost(a, m),
             Numbered(m) => m.n = posts + 1
      PROVE  OrderInv'
  BY <1>1, OrderedTell DEF Post, ReaderPost
<1>2. ASSUME NEW m \in RouterMessage, ~Numbered(m), Tell(m), posts' = posts, queue' = queue
      PROVE  OrderInv'
  BY <1>2, OrderedTell
<1>3. ASSUME posts < MaxPosts, NEW k \in EnvelopeKinds, NEW x \in Addresses
      PROVE  Envelope(k, x, posts + 1) \in RouterMessage /\ Envelope(k, x, posts + 1).n = posts + 1
  <2>1. posts + 1 \in Numbers
    BY <1>3, AgentsAssumption DEF TypeOK, Numbers
  <2>. QED BY <2>1, MessagesTyped DEF Envelope
<1>4. ASSUME NEW x \in Addresses, Send(a, x) \/ Request(a, x) \/ ReaderSend(a, x) PROVE OrderInv'
  <2>1. posts < MaxPosts
    BY <1>4 DEF Send, Request, ReaderSend, Post, ReaderPost
  <2>. QED BY <1>1, <1>3, <1>4, <2>1 DEF Send, Request, ReaderSend, EnvelopeKinds
<1>5. ASSUME NEW x \in Addresses, TrackAddress(a, x) \/ ReverseTrack(a, x) \/ SendShutdown(a, x)
      PROVE  OrderInv'
  <2>1. \A y, z \in Addresses : Track(y, z) \in RouterMessage /\ ~Numbered(Track(y, z))
    BY MessagesTyped, MessagesDiffer DEF Numbered, EnvelopeKinds
  <2>2. Shutdown(x) \in RouterMessage /\ ~Numbered(Shutdown(x))
    BY MessagesTyped, MessagesDiffer DEF Numbered, EnvelopeKinds
  <2>3. AddressOf[a] \in Addresses
    BY AgentsAssumption
  <2>. QED BY <1>1, <1>5, <2>1, <2>2, <2>3 DEF TrackAddress, ReverseTrack, SendShutdown
<1>6. CASE SendShutdownRouter(a) \/ ReaderShutdown(a)
  <2>1. /\ ShutdownRouter \in RouterMessage /\ ~Numbered(ShutdownRouter)
        /\ Shutdown(AddressOf[a]) \in RouterMessage /\ ~Numbered(Shutdown(AddressOf[a]))
    BY AgentsAssumption, MessagesTyped, MessagesDiffer DEF Numbered, EnvelopeKinds
  <2>. QED BY <1>1, <1>6, <2>1 DEF SendShutdownRouter, ReaderShutdown
<1>7. ASSUME NEW c \in Agents, NewAgent(a, c) PROVE OrderInv'
  <2>1. Register(c) \in RouterMessage /\ ~Numbered(Register(c))
    BY MessagesTyped, MessagesDiffer DEF Numbered, EnvelopeKinds
  <2>. QED BY <1>2, <1>7, <2>1 DEF NewAgent
<1>8. CASE RegisterFailed(a) \/ CancelNewAgent(a) \/ DropAgent(a)
  <2>1. Unregister(AddressOf[a]) \in RouterMessage /\ ~Numbered(Unregister(AddressOf[a]))
    BY AgentsAssumption, MessagesTyped, MessagesDiffer DEF Numbered, EnvelopeKinds
  <2>. QED BY <1>2, <1>8, <2>1 DEF RegisterFailed, CancelNewAgent, DropAgent, Dropped
<1>9. CASE Recv(a)
  <2>1. /\ queue[a] \in Seq(AgentMsg) /\ queue[a] # <<>> /\ posts \in Nat
        /\ queue \in [Agents -> Seq(AgentMsg)]
        /\ queue' = [queue EXCEPT ![a] = Tail(@)] /\ UNCHANGED <<inbox, posts>>
    BY <1>9, NumbersTyped DEF TypeOK, Recv
  <2>2. Increasing(Tail(queue[a])) /\ Within(Tail(queue[a]), posts) /\ Below(Tail(queue[a]), inbox)
    BY <2>1, TailOrder DEF OrderInv, Ordered
  <2>3. \A b \in Agents : queue'[b] = IF b = a THEN Tail(queue[a]) ELSE queue[b]
    BY <2>1
  <2>4. \A b \in Agents : Increasing(queue'[b]) /\ Within(queue'[b], posts) /\ Below(queue'[b], inbox)
    BY <2>2, <2>3 DEF OrderInv, Ordered
  <2>. QED BY <2>1, <2>4 DEF OrderInv, Ordered
<1>10. CASE \/ RecvClosed(a) \/ ResponseFailed(a) \/ AbandonResponse(a)
            \/ \E n \in Numbers : Reply(a, n) \/ DiscardRequest(a, n)
  <2>1. UNCHANGED <<inbox, queue, posts>>
    BY <1>10 DEF RecvClosed, ResponseFailed, AbandonResponse, ResponseEnds, Reply, DiscardRequest
  <2>. QED BY <2>1 DEF OrderInv, Ordered
<1>. QED BY <1>4, <1>5, <1>6, <1>7, <1>8, <1>9, <1>10 DEF AgentStep, Call

\* The steps of the router keep the order.
LEMMA OrderedRouterStep ==
  ASSUME TypeOK, OrderInv, RouterStep
  PROVE  OrderInv'
<1>1. CASE HandleEnvelope
  <2>. DEFINE m == Head(inbox)
  <2>1. Takes(m) /\ m \in RouterMessage /\ m.kind \in EnvelopeKinds /\ posts' = posts
    BY <1>1, TakesEffect DEF HandleEnvelope, TypeOK
  <2>2. m \in AgentMsg /\ m.to \in Addresses
    BY <2>1, EnvelopesTyped
  <2>3. \/ queue' = queue
        \/ \E b \in Agents : queue' = [queue EXCEPT ![b] = Append(@, m)]
    BY <1>1, <2>2 DEF HandleEnvelope, DeliverNoChannel, DeliverSent, DeliverFailed, TypeOK
  <2>. HIDE DEF m
  <2>. QED BY <2>1, <2>2, <2>3, OrderedTake
<1>2. ASSUME NEW a \in Agents, HandleRegister(a) PROVE OrderInv'
  BY <1>2, OrderedTake DEF HandleRegister
<1>3. ASSUME NEW x \in Addresses, NEW y \in Addresses, HandleTrack(x, y) PROVE OrderInv'
  BY <1>3, OrderedTake DEF HandleTrack, agentVars
<1>4. ASSUME NEW x \in Addresses, HandleUnregister(x) PROVE OrderInv'
  BY <1>4, OrderedTake DEF HandleUnregister, agentVars
<1>5. ASSUME NEW x \in Addresses, HandleShutdown(x) PROVE OrderInv'
  <2>1. Takes(Shutdown(x)) /\ posts' = posts
    BY <1>5 DEF HandleShutdown
  <2>2. ShutdownMsg \in AgentMsg /\ ~Numbered(ShutdownMsg)
    BY MessagesTyped DEF ShutdownMsg, Numbered, EnvelopeKinds
  <2>3. \/ queue' = queue
        \/ \E b \in Agents : queue' = [queue EXCEPT ![b] = Append(@, ShutdownMsg)]
    BY <1>5 DEF HandleShutdown, TypeOK
  <2>. QED BY <2>1, <2>2, <2>3, OrderedTake
<1>6. CASE HandleShutdownRouter
  BY <1>6, OrderedTake DEF HandleShutdownRouter, agentVars
<1>7. CASE NotifyTracker
  <2>. DEFINE g == Head(notify).gone
  <2>. Head(notify) \in [to : Addresses, gone : Addresses]
    BY <1>7, HeadTailProperties DEF NotifyTracker, TypeOK
  <2>1. g \in Addresses /\ Head(notify).to \in Addresses
    OBVIOUS
  <2>2. AgentRemoved(g) \in AgentMsg /\ ~Numbered(AgentRemoved(g))
    BY <2>1, MessagesTyped DEF AgentRemoved, Numbered, EnvelopeKinds
  <2>3. \/ queue' = queue
        \/ \E b \in Agents : queue' = [queue EXCEPT ![b] = Append(@, AgentRemoved(g))]
    BY <1>7, <2>1 DEF NotifyTracker, TypeOK
  <2>. HIDE DEF g
  <2>4. UNCHANGED <<inbox, posts>>
    BY <1>7 DEF NotifyTracker
  <2>5. CASE queue' = queue
    BY <2>4, <2>5 DEF OrderInv, Ordered
  <2>6. CASE \E b \in Agents : queue' = [queue EXCEPT ![b] = Append(@, AgentRemoved(g))]
    BY <2>2, <2>4, <2>6, OrderedPut DEF OrderInv, Ordered
  <2>. QED BY <2>3, <2>5, <2>6
<1>. QED BY <1>1, <1>2, <1>3, <1>4, <1>5, <1>6, <1>7 DEF RouterStep

\* Every step keeps the order.
LEMMA OrderedStep ==
  ASSUME TypeOK, OrderInv, [Next]_vars
  PROVE  OrderInv'
<1>1. CASE Run
  BY <1>1 DEF Run, agentVars, OrderInv, Ordered
<1>2. ASSUME NEW a \in Agents, RouterNewAgent(a) PROVE OrderInv'
  BY <1>2 DEF RouterNewAgent, OrderInv, Ordered
<1>3. ASSUME NEW a \in Agents, SendFarewell(a) PROVE OrderInv'
  <2>1. ShutdownMsg \in AgentMsg /\ ~Numbered(ShutdownMsg)
    BY MessagesTyped DEF ShutdownMsg, Numbered, EnvelopeKinds
  <2>2. CASE Alive(a)
    BY <1>3, <2>1, <2>2, OrderedPut DEF SendFarewell, OrderInv, Ordered
  <2>3. CASE ~Alive(a)
    BY <1>3, <2>3 DEF SendFarewell, OrderInv, Ordered
  <2>. QED BY <2>2, <2>3
<1>4. CASE UNCHANGED vars
  BY <1>4 DEF vars, OrderInv, Ordered
<1>. QED BY <1>1, <1>2, <1>3, <1>4, OrderedAgentStep, OrderedRouterStep DEF Next

\* Messages are handled and received in the order they were posted, without a
\* duplicate, for any number of agents and any capacities, however often the
\* router had to wait (src/src/router.rs, the sends of `run`).
THEOREM OrderedCorrect == Spec => []Ordered
<1>1. Init => TypeOK /\ OrderInv
  <2>. SUFFICES ASSUME Init PROVE OrderInv
    BY TypeInit
  <2>. QED BY DEF Init, OrderInv, Ordered, Increasing, Below, Within
<1>2. (TypeOK /\ OrderInv) /\ [Next]_vars => (TypeOK /\ OrderInv)'
  BY TypeStep, OrderedStep
<1>3. TypeOK /\ OrderInv => Ordered
  BY DEF OrderInv
<1>. QED BY <1>1, <1>2, <1>3, PTL DEF Spec

-----------------------------------------------------------------------------
(* The lists of trackers                                                   *)

\* Retain does to a list without duplicates what Vec::retain does to any list:
\* x is gone, and the others are still there, each of them once.
LEMMA RetainProperties ==
  ASSUME NEW S, NEW trackers \in Seq(S), IsInjective(trackers), NEW x
  PROVE  /\ IsInjective(Retain(trackers, x))
         /\ ~Contains(Retain(trackers, x), x)
         /\ \A y : y # x => (Contains(Retain(trackers, x), y) <=> Contains(trackers, y))
<1>. Len(trackers) \in Nat /\ DOMAIN trackers = 1..Len(trackers)
  BY LenProperties
<1>1. CASE Contains(trackers, x)
  <2>. DEFINE k == CHOOSE i \in 1..Len(trackers) : trackers[i] = x
              r == RemoveAt(trackers, k)
  <2>1. k \in DOMAIN trackers /\ trackers[k] = x
    BY <1>1 DEF Contains
  <2>2. Retain(trackers, x) = r
    BY <1>1 DEF Retain
  <2>. HIDE DEF k
  <2>3. /\ DOMAIN r = 1..(Len(trackers) - 1)
        /\ \A i \in DOMAIN r : r[i] = IF i < k THEN trackers[i] ELSE trackers[i + 1]
    BY <2>1, RemoveAtProperties
  <2>4. Len(r) = Len(trackers) - 1
    BY <2>1, RemoveAtProperties
  <2>. HIDE DEF r
  <2>5. IsInjective(r)
    BY <2>1, <2>3 DEF IsInjective
  <2>6. ~Contains(r, x)
    BY <2>1, <2>3, <2>4 DEF IsInjective, Contains
  <2>7. ASSUME NEW y, y # x PROVE Contains(r, y) <=> Contains(trackers, y)
    <3>1. ASSUME NEW i \in DOMAIN trackers, trackers[i] = y PROVE \E j \in DOMAIN r : r[j] = y
      <4>1. CASE i < k
        BY <2>1, <2>3, <3>1, <4>1
      <4>2. CASE i > k
        <5>1. i - 1 \in DOMAIN r /\ r[i - 1] = trackers[i]
          BY <2>1, <2>3, <4>2
        <5>. QED BY <3>1, <5>1
      <4>3. i # k
        BY <2>1, <2>7, <3>1
      <4>. QED BY <2>1, <4>1, <4>2, <4>3
    <3>2. ASSUME NEW j \in DOMAIN r, r[j] = y PROVE \E i \in DOMAIN trackers : trackers[i] = y
      <4>1. j \in DOMAIN trackers /\ j + 1 \in DOMAIN trackers
        BY <2>3
      <4>. QED BY <2>3, <3>2, <4>1
    <3>3. Contains(r, y) <=> \E j \in DOMAIN r : r[j] = y
      BY <2>3, <2>4 DEF Contains
    <3>4. Contains(trackers, y) <=> \E i \in DOMAIN trackers : trackers[i] = y
      BY DEF Contains
    <3>. QED BY <3>1, <3>2, <3>3, <3>4
  <2>. QED BY <2>2, <2>5, <2>6, <2>7
<1>2. CASE ~Contains(trackers, x)
  BY <1>2 DEF Retain
<1>. QED BY <1>1, <1>2

\* unregister keeps the lists free of duplicates, and owes each notice once.
LEMMA UnregisterTracking ==
  ASSUME TypeOK, NoDuplicateTracking, NEW x \in Addresses, UnregisterAddress(x)
  PROVE  NoDuplicateTracking'
<1>1. CASE channels[x] = NoAgent
  BY <1>1 DEF UnregisterAddress, NoDuplicateTracking
<1>2. CASE channels[x] # NoAgent
  <2>1. \A y \in Addresses : subscriptions[y] \in Seq(Addresses) /\ IsInjective(subscriptions[y])
    BY DEF TypeOK, NoDuplicateTracking
  <2>2. \A y \in Addresses : IsInjective(Retain(subscriptions[y], x))
    BY <2>1, RetainProperties
  <2>3. IsInjective(<<>>)
    BY DEF IsInjective
  <2>4. \A y \in Addresses : IsInjective(subscriptions'[y])
    BY <1>2, <2>1, <2>2, <2>3 DEF UnregisterAddress
  <2>5. notify' = [i \in DOMAIN subscriptions[x] |-> [to |-> subscriptions[x][i], gone |-> x]]
    BY <1>2 DEF UnregisterAddress, Notices
  <2>6. IsInjective(notify')
    BY <2>1, <2>5 DEF IsInjective
  <2>. QED BY <2>4, <2>6 DEF NoDuplicateTracking
<1>. QED BY <1>1, <1>2

\* A new tracker is appended where it is not listed yet.
LEMMA TrackTracking ==
  ASSUME TypeOK, NoDuplicateTracking, NEW x \in Addresses, NEW y \in Addresses, HandleTrack(x, y)
  PROVE  NoDuplicateTracking'
<1>1. notify' = notify
  BY DEF HandleTrack
<1>2. CASE Contains(subscriptions[y], x)
  BY <1>1, <1>2 DEF HandleTrack, NoDuplicateTracking
<1>3. CASE ~Contains(subscriptions[y], x)
  <2>1. subscriptions[y] \in Seq(Addresses) /\ IsInjective(subscriptions[y])
    BY DEF TypeOK, NoDuplicateTracking
  <2>. DEFINE s == subscriptions[y]
              t == Append(s, x)
  <2>2. /\ Len(s) \in Nat /\ DOMAIN s = 1..Len(s) /\ DOMAIN t = 1..(Len(s) + 1)
        /\ (\A i \in 1..Len(s) : t[i] = s[i]) /\ t[Len(s) + 1] = x
    BY <2>1, AppendProperties, LenProperties
  <2>3. \A i \in DOMAIN s : s[i] # x
    BY <1>3, <2>2 DEF Contains
  <2>4. \A z \in Addresses : subscriptions'[z] = IF z = y THEN t ELSE subscriptions[z]
    BY <1>3 DEF HandleTrack, TypeOK
  <2>. HIDE DEF t
  <2>5. IsInjective(t)
    BY <2>1, <2>2, <2>3 DEF IsInjective
  <2>. QED BY <1>1, <2>4, <2>5 DEF NoDuplicateTracking
<1>. QED BY <1>2, <1>3

\* Every step keeps the lists free of duplicates.
LEMMA TrackingStep ==
  ASSUME TypeOK, NoDuplicateTracking, [Next]_vars
  PROVE  NoDuplicateTracking'
<1>1. CASE UNCHANGED <<subscriptions, notify>>
  BY <1>1 DEF NoDuplicateTracking
<1>2. CASE HandleEnvelope
  <2>. DEFINE m == Head(inbox)
  <2>1. m.to \in Addresses
    BY <1>2, TakesEffect, EnvelopesTyped DEF HandleEnvelope, TypeOK
  <2>2. DeliverNoChannel(m) \/ DeliverSent(m) \/ DeliverFailed(m)
    BY <1>2 DEF HandleEnvelope
  <2>. HIDE DEF m
  <2>3. UnregisterAddress(m.to) \/ UNCHANGED <<subscriptions, notify>>
    BY <2>2 DEF DeliverNoChannel, DeliverSent, DeliverFailed, KeepRegistry
  <2>. QED BY <1>1, <2>1, <2>3, UnregisterTracking
<1>3. ASSUME NEW x \in Addresses, HandleUnregister(x) \/ HandleShutdown(x) PROVE NoDuplicateTracking'
  BY <1>3, UnregisterTracking DEF HandleUnregister, HandleShutdown
<1>4. CASE HandleShutdownRouter
  BY <1>4 DEF HandleShutdownRouter, NoDuplicateTracking, IsInjective
<1>5. CASE NotifyTracker
  <2>1. notify # <<>> /\ notify' = Tail(notify) /\ UNCHANGED subscriptions
    BY <1>5 DEF NotifyTracker
  <2>. DEFINE N == [to : Addresses, gone : Addresses]
  <2>. HIDE DEF N
  <2>2. \A i \in DOMAIN notify' : i \in Nat /\ i + 1 \in DOMAIN notify /\ notify'[i] = notify[i + 1]
    <3>1. notify \in Seq(N)
      BY DEF TypeOK, N
    <3>. QED BY <2>1, <3>1, HeadTailProperties, LenProperties
  <2>3. IsInjective(notify')
    <3>. SUFFICES ASSUME NEW i \in DOMAIN notify', NEW j \in DOMAIN notify', notify'[i] = notify'[j]
                  PROVE  i = j
      BY DEF IsInjective
    <3>1. i + 1 = j + 1
      BY <2>2 DEF NoDuplicateTracking, IsInjective
    <3>. QED BY <2>2, <3>1
  <2>. QED BY <2>1, <2>3 DEF NoDuplicateTracking
<1>6. ASSUME NEW a \in Agents, HandleRegister(a) PROVE NoDuplicateTracking'
  BY <1>1, <1>6 DEF HandleRegister
<1>7. ASSUME NEW a \in Agents, RouterNewAgent(a) \/ SendFarewell(a) \/ AgentStep(a)
      PROVE  NoDuplicateTracking'
  <2>1. UNCHANGED <<subscriptions, notify>>
    BY <1>7 DEF RouterNewAgent, SendFarewell, AgentStep, Call, Send, Request, TrackAddress, ReverseTrack,
       SendShutdown, SendShutdownRouter, Post, NewAgent, ReaderSend, ReaderShutdown, ReaderPost,
       RegisterFailed, CancelNewAgent, DropAgent, Dropped, Recv, RecvClosed, ResponseFailed,
       AbandonResponse, ResponseEnds, Reply, DiscardRequest
  <2>. QED BY <1>1, <2>1
<1>8. CASE Run \/ UNCHANGED vars
  BY <1>1, <1>8 DEF Run, vars
<1>. QED BY <1>2, <1>3, <1>4, <1>5, <1>6, <1>7, <1>8, TrackTracking DEF Next, RouterStep

\* A tracker is listed once per address and owed at most one notice, for any
\* number of addresses (src/src/router.rs, the Track arm of `run` and unregister).
THEOREM NoDuplicateTrackingCorrect == Spec => []NoDuplicateTracking
<1>1. Init => TypeOK /\ NoDuplicateTracking
  <2>1. IsInjective(<<>>)
    BY DEF IsInjective
  <2>. QED BY <2>1, TypeInit DEF Init, NoDuplicateTracking
<1>2. (TypeOK /\ NoDuplicateTracking) /\ [Next]_vars => (TypeOK /\ NoDuplicateTracking)'
  BY TypeStep, TrackingStep
<1>. QED BY <1>1, <1>2, PTL DEF Spec
=============================================================================

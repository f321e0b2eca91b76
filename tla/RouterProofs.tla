---------------------------- MODULE RouterProofs ----------------------------
(***************************************************************************)
(* Proofs about Router, for every set of addresses and agents, every       *)
(* assignment of addresses and capacities, and every program of the agents.*)
(***************************************************************************)
EXTENDS Router, SequenceTheorems, TLAPS

-----------------------------------------------------------------------------
(* The inbox and the channels                                              *)

\* What a send on the inbox leaves in it.
LEMMA TellEffect ==
  ASSUME inbox \in Seq(RouterMessage), NEW m \in RouterMessage, Tell(m)
  PROVE  /\ inbox' \in Seq(RouterMessage)
         /\ \A i \in DOMAIN inbox : i \in DOMAIN inbox' /\ inbox'[i] = inbox[i]
         /\ \A i \in DOMAIN inbox' :
              \/ i \in DOMAIN inbox /\ inbox'[i] = inbox[i]
              \/ /\ phase # "stopped" /\ inbox'[i] = m
                 /\ \A j \in DOMAIN inbox : j < i
         /\ phase # "stopped" => Len(inbox) + 1 \in DOMAIN inbox' /\ inbox'[Len(inbox) + 1] = m
<1>1. CASE phase = "stopped"
  BY <1>1 DEF Tell
<1>2. CASE phase # "stopped"
  <2>1. inbox' = Append(inbox, m)
    BY <1>2 DEF Tell
  <2>2. DOMAIN inbox = 1..Len(inbox) /\ DOMAIN inbox' = 1..(Len(inbox) + 1) /\ Len(inbox) \in Nat
    BY <2>1, AppendProperties, LenProperties
  <2>. QED BY <1>2, <2>1, <2>2, AppendProperties
<1>. QED BY <1>1, <1>2

\* What the router takes, and what it leaves in the inbox.
LEMMA TakesEffect ==
  ASSUME inbox \in Seq(RouterMessage), NEW m, Takes(m)
  PROVE  /\ m \in RouterMessage
         /\ phase = "running" /\ notify = <<>>
         /\ 1 \in DOMAIN inbox /\ inbox[1] = m
         /\ inbox' \in Seq(RouterMessage)
         /\ \A i \in DOMAIN inbox : i \in Nat \ {0}
         /\ \A i \in DOMAIN inbox \ {1} : i - 1 \in DOMAIN inbox' /\ inbox'[i - 1] = inbox[i]
         /\ \A i \in DOMAIN inbox' : i + 1 \in DOMAIN inbox /\ inbox'[i] = inbox[i + 1] /\ i \in Nat \ {0}
<1>1. inbox # <<>> /\ m = Head(inbox) /\ inbox' = Tail(inbox)
  BY DEF Takes
<1>2. Len(inbox) \in Nat \ {0} /\ DOMAIN inbox = 1..Len(inbox)
  BY <1>1, EmptySeq, LenProperties
<1>3. Tail(inbox) \in Seq(RouterMessage) /\ Len(Tail(inbox)) = Len(inbox) - 1
  BY <1>1, HeadTailProperties
<1>4. DOMAIN inbox' = 1..(Len(inbox) - 1)
  BY <1>1, <1>3, LenProperties
<1>5. \A i \in 1..(Len(inbox) - 1) : inbox'[i] = inbox[i + 1]
  BY <1>1, <1>3, HeadTailProperties
<1>. QED BY <1>1, <1>2, <1>3, <1>4, <1>5, HeadTailProperties DEF Takes

\* The type of the channels' contents, with the bound on their length.
QueuesOK ==
  /\ queue \in [Agents -> Seq(AgentMsg)]
  /\ \A a \in Agents : Len(queue[a]) <= Cap[a]

\* A send that waited for room keeps the capacity.
LEMMA PutTyped ==
  ASSUME QueuesOK, NEW a \in Agents, NEW m \in AgentMsg, Room(a),
         queue' = [queue EXCEPT ![a] = Append(@, m)]
  PROVE  QueuesOK'
<1>1. queue[a] \in Seq(AgentMsg) /\ Append(queue[a], m) \in Seq(AgentMsg)
  BY AppendProperties DEF QueuesOK
<1>2. Len(Append(queue[a], m)) = Len(queue[a]) + 1 /\ Len(queue[a]) \in Nat
  BY <1>1, AppendProperties, LenProperties
<1>3. Len(queue[a]) < Cap[a] /\ Cap[a] \in Nat
  BY AgentsAssumption DEF Room
<1>. QED BY <1>1, <1>2, <1>3 DEF QueuesOK

\* Retain returns a part of the list it is given.
LEMMA RetainTyped ==
  ASSUME NEW trackers \in Seq(Addresses), NEW x \in Addresses
  PROVE  Retain(trackers, x) \in Seq(Addresses)
<1>1. CASE Contains(trackers, x)
  <2>. DEFINE k == CHOOSE i \in 1..Len(trackers) : trackers[i] = x
  <2>1. k \in 1..Len(trackers)
    BY <1>1 DEF Contains
  <2>2. Len(trackers) \in Nat /\ \A i \in 1..Len(trackers) : trackers[i] \in Addresses
    BY LenProperties, ElementOfSeq
  <2>. HIDE DEF k
  <2>3. SubSeq(trackers, 1, k - 1) \in Seq(Addresses)
    BY <2>1, <2>2, SubSeqProperties
  <2>4. SubSeq(trackers, k + 1, Len(trackers)) \in Seq(Addresses)
    BY <2>1, <2>2, SubSeqProperties
  <2>5. RemoveAt(trackers, k) \in Seq(Addresses)
    BY <2>3, <2>4, ConcatProperties DEF RemoveAt
  <2>. QED BY <1>1, <2>5 DEF Retain, k
<1>2. CASE ~Contains(trackers, x)
  BY <1>2 DEF Retain
<1>. QED BY <1>1, <1>2

\* unregister keeps the types of what it changes, and only ever removes the
\* registration of its own address.
LEMMA UnregisterTyped ==
  ASSUME TypeOK, NEW x \in Addresses, UnregisterAddress(x)
  PROVE  /\ channels' \in [Addresses -> Agents \cup {NoAgent}]
         /\ subscriptions' \in [Addresses -> Seq(Addresses)]
         /\ notify' \in Seq([to : Addresses, gone : Addresses])
         /\ channels' = [channels EXCEPT ![x] = NoAgent]
<1>1. CASE channels[x] = NoAgent
  BY <1>1 DEF UnregisterAddress, TypeOK
<1>2. CASE channels[x] # NoAgent
  <2>1. subscriptions[x] \in Seq(Addresses)
    BY DEF TypeOK
  <2>2. DOMAIN subscriptions[x] = 1..Len(subscriptions[x]) /\ Len(subscriptions[x]) \in Nat
    BY <2>1, LenProperties
  <2>3. Notices(x) \in Seq([to : Addresses, gone : Addresses])
    BY <2>1, <2>2, ElementOfSeq, IsASeq DEF Notices
  <2>4. \A y \in Addresses : Retain(subscriptions[y], x) \in Seq(Addresses) /\ subscriptions[y] \in Seq(Addresses)
    BY RetainTyped DEF TypeOK
  <2>5. <<>> \in Seq(Addresses)
    BY EmptySeq
  <2>6. subscriptions' \in [Addresses -> Seq(Addresses)]
    BY <1>2, <2>4, <2>5 DEF UnregisterAddress
  <2>. QED BY <1>2, <2>3, <2>6 DEF UnregisterAddress, TypeOK
<1>. QED BY <1>1, <1>2

-----------------------------------------------------------------------------
(* Type correctness                                                        *)

\* The router and its agents start with their types.
LEMMA TypeInit == Init => TypeOK
  BY AgentsAssumption, EmptySeq DEF Init, TypeOK, AgentState

\* The constructors build messages of the router's type.
LEMMA MessagesTyped ==
  /\ \A k \in EnvelopeKinds, x \in Addresses, n \in Numbers : Envelope(k, x, n) \in RouterMessage
  /\ \A a \in Agents : Register(a) \in RouterMessage
  /\ \A x \in Addresses : Unregister(x) \in RouterMessage /\ Shutdown(x) \in RouterMessage
  /\ \A x, y \in Addresses : Track(x, y) \in RouterMessage
  /\ ShutdownRouter \in RouterMessage
  /\ \A x \in Addresses : AgentRemoved(x) \in AgentMsg
  /\ ShutdownMsg \in AgentMsg
<1>1. \A k \in EnvelopeKinds, x \in Addresses, n \in Numbers : Envelope(k, x, n) \in RouterMessage
  BY DEF RouterMessage, Envelopes, Envelope
<1>2. \A a \in Agents : Register(a) \in RouterMessage
  BY DEF RouterMessage, Register
<1>3. \A x \in Addresses : Unregister(x) \in RouterMessage /\ Shutdown(x) \in RouterMessage
  BY DEF RouterMessage, Unregister, Shutdown
<1>4. \A x, y \in Addresses : Track(x, y) \in RouterMessage
  BY DEF RouterMessage, Track
<1>5. ShutdownRouter \in RouterMessage /\ ShutdownMsg \in AgentMsg
  BY DEF RouterMessage, AgentMsg
<1>6. \A x \in Addresses : AgentRemoved(x) \in AgentMsg
  BY DEF AgentMsg, AgentRemoved
<1>. QED BY <1>1, <1>2, <1>3, <1>4, <1>5, <1>6

\* A message of one of the envelope kinds is an envelope.
LEMMA EnvelopesTyped ==
  ASSUME NEW m \in RouterMessage, m.kind \in EnvelopeKinds
  PROVE  m \in Envelopes /\ m.to \in Addresses /\ m \in AgentMsg
  BY DEF RouterMessage, EnvelopeKinds, Envelopes, AgentMsg, ShutdownRouter

\* A program's post keeps the types.
LEMMA PostTyped ==
  ASSUME TypeOK, NEW a \in Agents, NEW m \in RouterMessage, Post(a, m),
         awaiting' \in [Agents -> 0..MaxPosts]
  PROVE  TypeOK'
<1>1. inbox' \in Seq(RouterMessage)
  BY TellEffect DEF TypeOK, Post
<1>2. posts' \in 0..MaxPosts
  BY AgentsAssumption DEF TypeOK, Post
<1>. QED BY <1>1, <1>2 DEF TypeOK, Post

\* Dropping an agent keeps the types.
LEMMA DroppedTyped ==
  ASSUME TypeOK, NEW a \in Agents, Dropped(a)
  PROVE  TypeOK'
<1>1. inbox' \in Seq(RouterMessage)
  BY TellEffect, MessagesTyped, AgentsAssumption DEF TypeOK, Dropped
<1>2. state' \in [Agents -> AgentState]
  BY DEF TypeOK, Dropped, AgentState
<1>. QED BY <1>1, <1>2 DEF TypeOK, Dropped

\* Every step of an agent keeps the types.
LEMMA AgentStepTyped ==
  ASSUME TypeOK, NEW a \in Agents, AgentStep(a)
  PROVE  TypeOK'
<1>1. ASSUME NEW x \in Addresses, Send(a, x) PROVE TypeOK'
  <2>1. posts + 1 \in Numbers
    BY <1>1, AgentsAssumption DEF Send, Post, TypeOK, Numbers
  <2>2. Envelope("Message", x, posts + 1) \in RouterMessage
    BY <2>1, MessagesTyped DEF EnvelopeKinds
  <2>. QED BY <1>1, <2>2, PostTyped DEF Send, TypeOK
<1>2. ASSUME NEW x \in Addresses, Request(a, x) PROVE TypeOK'
  <2>1. posts + 1 \in Numbers
    BY <1>2, AgentsAssumption DEF Request, Post, TypeOK, Numbers
  <2>2. Envelope("Request", x, posts + 1) \in RouterMessage
    BY <2>1, MessagesTyped DEF EnvelopeKinds
  <2>3. awaiting' \in [Agents -> 0..MaxPosts]
    BY <1>2, <2>1, AgentsAssumption DEF Request, TypeOK, Numbers
  <2>. QED BY <1>2, <2>2, <2>3, PostTyped DEF Request
<1>3. ASSUME NEW x \in Addresses, TrackAddress(a, x) \/ ReverseTrack(a, x) \/ SendShutdown(a, x)
      PROVE  TypeOK'
  BY <1>3, MessagesTyped, PostTyped, AgentsAssumption
     DEF TrackAddress, ReverseTrack, SendShutdown, TypeOK
<1>4. CASE SendShutdownRouter(a)
  BY <1>4, MessagesTyped, PostTyped DEF SendShutdownRouter, TypeOK
<1>5. ASSUME NEW c \in Agents, NewAgent(a, c) PROVE TypeOK'
  <2>1. inbox' \in Seq(RouterMessage)
    BY <1>5, TellEffect, MessagesTyped DEF TypeOK, NewAgent
  <2>2. state' \in [Agents -> AgentState] /\ parent' \in [Agents -> Agents \cup {NoAgent}]
    BY <1>5 DEF TypeOK, NewAgent, AgentState
  <2>. QED BY <1>5, <2>1, <2>2 DEF TypeOK, NewAgent
<1>6. CASE RegisterFailed(a) \/ CancelNewAgent(a) \/ DropAgent(a)
  BY <1>6, DroppedTyped DEF RegisterFailed, CancelNewAgent, DropAgent
<1>7. CASE Recv(a)
  <2>1. queue[a] \in Seq(AgentMsg) /\ queue[a] # <<>>
    BY <1>7 DEF Recv, TypeOK
  <2>2. Head(queue[a]) \in AgentMsg /\ Tail(queue[a]) \in Seq(AgentMsg) /\ Len(Tail(queue[a])) = Len(queue[a]) - 1
    BY <2>1, HeadTailProperties
  <2>3. queue' = [queue EXCEPT ![a] = Tail(queue[a])]
    BY <1>7 DEF Recv
  <2>4. Len(queue[a]) \in Nat /\ Len(queue[a]) <= Cap[a] /\ Cap[a] \in Nat
    BY <2>1, LenProperties, AgentsAssumption DEF TypeOK
  <2>5. queue' \in [Agents -> Seq(AgentMsg)] /\ \A b \in Agents : Len(queue'[b]) <= Cap[b]
    BY <2>2, <2>3, <2>4 DEF TypeOK
  <2>6. Head(queue[a]).kind = "Request" => Head(queue[a]).n \in Numbers
    BY <2>2 DEF AgentMsg, Envelopes, EnvelopeKinds, ShutdownMsg
  <2>7. hand' \in [Agents -> SUBSET Numbers] /\ state' \in [Agents -> AgentState]
    BY <1>7, <2>6 DEF Recv, TypeOK, AgentState
  <2>. QED BY <1>7, <2>5, <2>7 DEF Recv, TypeOK
<1>8. CASE RecvClosed(a)
  BY <1>8 DEF RecvClosed, TypeOK, AgentState
<1>9. CASE ResponseFailed(a) \/ AbandonResponse(a)
  <2>1. ResponseEnds(a) /\ 0 \in 0..MaxPosts
    BY <1>9, AgentsAssumption DEF ResponseFailed, AbandonResponse
  <2>2. awaiting' \in [Agents -> 0..MaxPosts]
    BY <2>1 DEF ResponseEnds, TypeOK
  <2>. QED BY <2>1, <2>2 DEF ResponseEnds, TypeOK
<1>10. ASSUME NEW n \in Numbers, Reply(a, n) \/ DiscardRequest(a, n) PROVE TypeOK'
  <2>1. 0 \in 0..MaxPosts
    BY AgentsAssumption
  <2>2. hand' \in [Agents -> SUBSET Numbers]
    BY <1>10 DEF Reply, DiscardRequest, TypeOK
  <2>3. awaiting' \in [Agents -> 0..MaxPosts]
    BY <1>10, <2>1 DEF Reply, DiscardRequest, TypeOK
  <2>. QED BY <1>10, <2>2, <2>3 DEF Reply, DiscardRequest, TypeOK
<1>11. CASE (\E x \in Addresses : ReaderSend(a, x)) \/ ReaderShutdown(a)
  <2>1. ASSUME NEW m \in RouterMessage, ReaderPost(a, m) PROVE TypeOK'
    <3>1. inbox' \in Seq(RouterMessage) /\ posts' \in 0..MaxPosts
      BY <2>1, TellEffect, AgentsAssumption DEF TypeOK, ReaderPost
    <3>. QED BY <2>1, <3>1 DEF TypeOK, ReaderPost
  <2>2. ASSUME NEW x \in Addresses, ReaderSend(a, x) PROVE TypeOK'
    <3>1. posts + 1 \in Numbers
      BY <2>2, AgentsAssumption DEF ReaderSend, ReaderPost, TypeOK, Numbers
    <3>2. Envelope("RemoteMessage", x, posts + 1) \in RouterMessage
      BY <3>1, MessagesTyped DEF EnvelopeKinds
    <3>. QED BY <2>1, <2>2, <3>2 DEF ReaderSend
  <2>3. ReaderShutdown(a) => TypeOK'
    BY <2>1, MessagesTyped, AgentsAssumption DEF ReaderShutdown
  <2>. QED BY <1>11, <2>2, <2>3
<1>. QED BY <1>1, <1>2, <1>3, <1>4, <1>5, <1>6, <1>7, <1>8, <1>9, <1>10, <1>11 DEF AgentStep, Call

\* Every step of the router keeps the types.
LEMMA RouterStepTyped ==
  ASSUME TypeOK, RouterStep
  PROVE  TypeOK'
<1>. QueuesOK
  BY DEF TypeOK, QueuesOK
<1>1. CASE HandleEnvelope
  <2>. DEFINE m == Head(inbox)
  <2>1. m \in RouterMessage /\ inbox' \in Seq(RouterMessage) /\ m.kind \in EnvelopeKinds
    BY <1>1, TakesEffect DEF HandleEnvelope, TypeOK
  <2>2. m.to \in Addresses /\ m \in AgentMsg
    BY <2>1, EnvelopesTyped
  <2>. HIDE DEF m
  <2>3. DeliverNoChannel(m) \/ DeliverSent(m) \/ DeliverFailed(m)
    BY <1>1 DEF HandleEnvelope, m
  <2>4. UNCHANGED <<phase, farewell, state, parent, awaiting, hand, posts>>
    BY <1>1 DEF HandleEnvelope
  <2>5. CASE DeliverNoChannel(m)
    BY <2>1, <2>4, <2>5 DEF DeliverNoChannel, KeepRegistry, TypeOK
  <2>6. CASE DeliverSent(m)
    <3>1. channels[m.to] \in Agents
      BY <2>2, <2>6 DEF DeliverSent, TypeOK
    <3>2. QueuesOK'
      BY <2>2, <2>6, <3>1, PutTyped DEF DeliverSent
    <3>. QED BY <2>1, <2>4, <2>6, <3>2 DEF DeliverSent, KeepRegistry, TypeOK, QueuesOK
  <2>7. CASE DeliverFailed(m)
    BY <2>1, <2>2, <2>4, <2>7, UnregisterTyped DEF DeliverFailed, TypeOK
  <2>. QED BY <2>3, <2>5, <2>6, <2>7
<1>2. ASSUME NEW a \in Agents, HandleRegister(a) PROVE TypeOK'
  <2>1. inbox' \in Seq(RouterMessage)
    BY <1>2, TakesEffect DEF HandleRegister, TypeOK
  <2>2. channels' \in [Addresses -> Agents \cup {NoAgent}] /\ state' \in [Agents -> AgentState]
    BY <1>2, AgentsAssumption DEF HandleRegister, TypeOK, AgentState
  <2>. QED BY <1>2, <2>1, <2>2 DEF HandleRegister, TypeOK
<1>3. ASSUME NEW x \in Addresses, NEW y \in Addresses, HandleTrack(x, y) PROVE TypeOK'
  <2>1. inbox' \in Seq(RouterMessage)
    BY <1>3, TakesEffect DEF HandleTrack, TypeOK
  <2>2. Append(subscriptions[y], x) \in Seq(Addresses)
    BY AppendProperties DEF TypeOK
  <2>3. subscriptions' \in [Addresses -> Seq(Addresses)]
    BY <1>3, <2>2 DEF HandleTrack, TypeOK
  <2>. QED BY <1>3, <2>1, <2>3 DEF HandleTrack, TypeOK, agentVars
<1>4. ASSUME NEW x \in Addresses, HandleUnregister(x) PROVE TypeOK'
  <2>1. inbox' \in Seq(RouterMessage)
    BY <1>4, TakesEffect DEF HandleUnregister, TypeOK
  <2>. QED BY <1>4, <2>1, UnregisterTyped DEF HandleUnregister, TypeOK, agentVars
<1>5. ASSUME NEW x \in Addresses, HandleShutdown(x) PROVE TypeOK'
  <2>1. inbox' \in Seq(RouterMessage)
    BY <1>5, TakesEffect DEF HandleShutdown, TypeOK
  <2>2. QueuesOK'
    <3>1. CASE channels[x] # NoAgent /\ Alive(channels[x])
      <4>1. channels[x] \in Agents
        BY <3>1 DEF TypeOK
      <4>. QED BY <1>5, <3>1, <4>1, PutTyped, MessagesTyped DEF HandleShutdown
    <3>2. CASE ~(channels[x] # NoAgent /\ Alive(channels[x]))
      BY <1>5, <3>2 DEF HandleShutdown, QueuesOK
    <3>. QED BY <3>1, <3>2
  <2>. QED BY <1>5, <2>1, <2>2, UnregisterTyped DEF HandleShutdown, TypeOK, QueuesOK
<1>6. CASE HandleShutdownRouter
  <2>1. inbox' \in Seq(RouterMessage)
    BY <1>6, TakesEffect DEF HandleShutdownRouter, TypeOK
  <2>. QED BY <1>6, <2>1, EmptySeq DEF HandleShutdownRouter, TypeOK, agentVars
<1>7. CASE NotifyTracker
  <2>1. Head(notify) \in [to : Addresses, gone : Addresses] /\ notify' \in Seq([to : Addresses, gone : Addresses])
    BY <1>7, HeadTailProperties DEF NotifyTracker, TypeOK
  <2>2. QueuesOK'
    <3>1. CASE channels[Head(notify).to] # NoAgent /\ Alive(channels[Head(notify).to])
      <4>1. channels[Head(notify).to] \in Agents /\ AgentRemoved(Head(notify).gone) \in AgentMsg
        BY <2>1, <3>1, MessagesTyped DEF TypeOK
      <4>. QED BY <1>7, <3>1, <4>1, PutTyped DEF NotifyTracker
    <3>2. CASE ~(channels[Head(notify).to] # NoAgent /\ Alive(channels[Head(notify).to]))
      BY <1>7, <3>2 DEF NotifyTracker, QueuesOK
    <3>. QED BY <3>1, <3>2
  <2>. QED BY <1>7, <2>1, <2>2 DEF NotifyTracker, TypeOK, QueuesOK
<1>. QED BY <1>1, <1>2, <1>3, <1>4, <1>5, <1>6, <1>7 DEF RouterStep

\* Every step keeps the types.
LEMMA TypeStep ==
  ASSUME TypeOK, [Next]_vars
  PROVE  TypeOK'
<1>1. CASE RouterStep
  BY <1>1, RouterStepTyped
<1>2. CASE Run
  BY <1>2 DEF Run, TypeOK, agentVars
<1>3. ASSUME NEW a \in Agents, RouterNewAgent(a) PROVE TypeOK'
  BY <1>3, AgentsAssumption DEF RouterNewAgent, TypeOK, AgentState
<1>4. ASSUME NEW a \in Agents, SendFarewell(a) PROVE TypeOK'
  <2>. QueuesOK
    BY DEF TypeOK, QueuesOK
  <2>1. CASE Alive(a)
    <3>1. QueuesOK'
      BY <1>4, <2>1, PutTyped, MessagesTyped DEF SendFarewell
    <3>. QED BY <1>4, <3>1 DEF SendFarewell, TypeOK, QueuesOK
  <2>2. CASE ~Alive(a)
    BY <1>4, <2>2 DEF SendFarewell, TypeOK
  <2>. QED BY <2>1, <2>2
<1>5. ASSUME NEW a \in Agents, AgentStep(a) PROVE TypeOK'
  BY <1>5, AgentStepTyped
<1>6. CASE UNCHANGED vars
  BY <1>6 DEF vars, TypeOK
<1>. QED BY <1>1, <1>2, <1>3, <1>4, <1>5, <1>6 DEF Next

\* Every variable keeps its type and no channel exceeds its capacity, for any
\* number of agents and any capacities (src/src/router.rs, the sends of `run`).
THEOREM TypeCorrect == Spec => []TypeOK
<1>1. TypeOK /\ [Next]_vars => TypeOK'
  BY TypeStep
<1>. QED BY <1>1, TypeInit, PTL DEF Spec

-----------------------------------------------------------------------------
(* What a step can do to the senders and the inbox                         *)

\* A message is told from another by its kind and its fields.
LEMMA MessagesDiffer ==
  /\ \A a : Register(a).kind = "Register" /\ Register(a).agent = a
  /\ \A x : Unregister(x).kind = "Unregister" /\ Unregister(x).to = x
  /\ \A x : Shutdown(x).kind = "Shutdown"
  /\ \A x, y : Track(x, y).kind = "Track"
  /\ ShutdownRouter.kind = "ShutdownRouter"
  /\ \A k, x, n : Envelope(k, x, n).kind = k
  BY DEF Register, Unregister, Shutdown, Track, ShutdownRouter, Envelope

\* The steps of an agent, by what they do to the state the invariants are about.
LEMMA AgentStepEffect ==
  ASSUME TypeOK, NEW a \in Agents, AgentStep(a)
  PROVE  \/ /\ \E m \in RouterMessage : m.kind \notin {"Register", "Unregister"} /\ Tell(m)
            /\ UNCHANGED <<phase, channels, farewell, state, queue>>
         \/ \E c \in Agents : NewAgent(a, c)
         \/ state[a] \notin {"new", "dropped"} /\ Dropped(a)
         \/ Recv(a)
         \/ RecvClosed(a)
         \/ UNCHANGED <<phase, inbox, channels, farewell, state, queue>>
<1>. DEFINE Posted == /\ \E m \in RouterMessage : m.kind \notin {"Register", "Unregister"} /\ Tell(m)
                      /\ UNCHANGED <<phase, channels, farewell, state, queue>>
<1>1. ASSUME NEW m \in RouterMessage, m.kind \notin {"Register", "Unregister"}, Post(a, m) PROVE Posted
  BY <1>1 DEF Post
<1>2. ASSUME NEW x \in Addresses, Send(a, x) \/ Request(a, x) PROVE Posted
  <2>1. posts + 1 \in Numbers
    BY <1>2, AgentsAssumption DEF Send, Request, Post, TypeOK, Numbers
  <2>2. \A k \in {"Message", "Request"} : Envelope(k, x, posts + 1) \in RouterMessage
    BY <2>1, MessagesTyped DEF EnvelopeKinds
  <2>. QED BY <1>1, <1>2, <2>2, MessagesDiffer DEF Send, Request
<1>3. ASSUME NEW x \in Addresses, TrackAddress(a, x) \/ ReverseTrack(a, x) \/ SendShutdown(a, x) PROVE Posted
  BY <1>1, <1>3, MessagesTyped, MessagesDiffer, AgentsAssumption DEF TrackAddress, ReverseTrack, SendShutdown
<1>4. CASE SendShutdownRouter(a)
  BY <1>1, <1>4, MessagesTyped, MessagesDiffer DEF SendShutdownRouter
<1>7. ASSUME (\E x \in Addresses : ReaderSend(a, x)) \/ ReaderShutdown(a) PROVE Posted
  <2>1. ASSUME NEW m \in RouterMessage, m.kind \notin {"Register", "Unregister"}, ReaderPost(a, m) PROVE Posted
    BY <2>1 DEF ReaderPost
  <2>2. ASSUME NEW x \in Addresses, ReaderSend(a, x) PROVE Posted
    <3>1. posts + 1 \in Numbers
      BY <2>2, AgentsAssumption DEF ReaderSend, ReaderPost, TypeOK, Numbers
    <3>2. Envelope("RemoteMessage", x, posts + 1) \in RouterMessage
      BY <3>1, MessagesTyped DEF EnvelopeKinds
    <3>. QED BY <2>1, <2>2, <3>2, MessagesDiffer DEF ReaderSend, EnvelopeKinds
  <2>3. ReaderShutdown(a) => Posted
    BY <2>1, MessagesTyped, MessagesDiffer, AgentsAssumption DEF ReaderShutdown
  <2>. HIDE DEF Posted
  <2>. QED BY <1>7, <2>2, <2>3
<1>5. CASE RegisterFailed(a) \/ CancelNewAgent(a) \/ DropAgent(a)
  BY <1>5 DEF RegisterFailed, CancelNewAgent, DropAgent, Ready
<1>6. CASE ResponseFailed(a) \/ AbandonResponse(a) \/ \E n \in Numbers : Reply(a, n) \/ DiscardRequest(a, n)
  BY <1>6 DEF ResponseFailed, AbandonResponse, ResponseEnds, Reply, DiscardRequest
<1>. HIDE DEF Posted
<1>. QED BY <1>2, <1>3, <1>4, <1>5, <1>6, <1>7 DEF AgentStep, Call, Posted

\* The steps of the router that take a message, by what they do to the senders.
LEMMA RouterStepEffect ==
  ASSUME TypeOK, RouterStep
  PROVE  /\ UNCHANGED state \/ \E a \in Agents : HandleRegister(a)
         /\ \/ /\ \E m : m.kind \notin {"Register", "Unregister"} /\ Takes(m)
               /\ UNCHANGED <<phase, farewell>>
               /\ channels' = channels \/ \E x \in Addresses : channels' = [channels EXCEPT ![x] = NoAgent]
            \/ \E a \in Agents : HandleRegister(a)
            \/ \E x \in Addresses : HandleUnregister(x)
            \/ HandleShutdownRouter
            \/ UNCHANGED <<phase, inbox, channels, farewell>>
<1>1. CASE HandleEnvelope
  <2>1. Head(inbox) \in RouterMessage /\ Head(inbox).kind \in EnvelopeKinds /\ Takes(Head(inbox))
    BY <1>1, TakesEffect DEF HandleEnvelope, TypeOK
  <2>2. Head(inbox).to \in Addresses
    BY <2>1, EnvelopesTyped
  <2>3. channels' = channels \/ \E x \in Addresses : channels' = [channels EXCEPT ![x] = NoAgent]
    BY <1>1, <2>2, UnregisterTyped DEF HandleEnvelope, DeliverNoChannel, DeliverSent, DeliverFailed, KeepRegistry
  <2>. QED BY <1>1, <2>1, <2>3 DEF HandleEnvelope, EnvelopeKinds
<1>2. ASSUME NEW x \in Addresses, NEW y \in Addresses, HandleTrack(x, y)
      PROVE  /\ Takes(Track(x, y)) /\ UNCHANGED <<phase, farewell, channels, state>>
  BY <1>2 DEF HandleTrack, agentVars
<1>3. ASSUME NEW x \in Addresses, HandleShutdown(x)
      PROVE  /\ Takes(Shutdown(x)) /\ UNCHANGED <<phase, farewell, state>>
             /\ channels' = [channels EXCEPT ![x] = NoAgent]
  BY <1>3, UnregisterTyped DEF HandleShutdown
<1>4. CASE NotifyTracker
  BY <1>4 DEF NotifyTracker
<1>5. ASSUME NEW x \in Addresses, HandleUnregister(x) PROVE UNCHANGED state
  BY <1>5 DEF HandleUnregister, agentVars
<1>6. CASE HandleShutdownRouter
  BY <1>6 DEF HandleShutdownRouter, agentVars
<1>. QED BY <1>1, <1>2, <1>3, <1>4, <1>5, <1>6, MessagesDiffer DEF RouterStep

-----------------------------------------------------------------------------
(* Custody of the senders                                                  *)

\* No sender exists at the start.
LEMMA CustodyInit == Init => SenderCustody
  BY AgentsAssumption DEF Init, SenderCustody, Custody, HasSender

\* A step that sends something else than Register(a), or drops a, or nothing.
LEMMA CustodyTell ==
  ASSUME TypeOK, SenderCustody, NEW a \in Agents,
         NEW m \in RouterMessage, m # Register(a), Tell(m),
         UNCHANGED <<channels, farewell>>,
         state'[a] = state[a] \/ (state[a] # "new" /\ state'[a] = "dropped"),
         queue'[a] = queue[a]
  PROVE  Custody(a)'
<1>1. \A i \in DOMAIN inbox' : inbox'[i] = Register(a) => i \in DOMAIN inbox /\ inbox[i] = Register(a)
  BY TellEffect DEF TypeOK
<1>2. Custody(a)
  BY DEF SenderCustody
<1>. QED BY <1>1, <1>2 DEF Custody, HasSender

\* A step that leaves the inbox and the senders alone.
LEMMA CustodyQuiet ==
  ASSUME SenderCustody, NEW a \in Agents, UNCHANGED <<channels, inbox, farewell>>,
         state'[a] = state[a] \/ (state[a] \in {"live", "stopping"} /\ state'[a] # "new"),
         state'[a] = "new" => queue'[a] = queue[a]
  PROVE  Custody(a)'
  BY DEF SenderCustody, Custody, HasSender

\* A step in which the router takes something else than Register(a).
LEMMA CustodyTake ==
  ASSUME TypeOK, SenderCustody, NEW a \in Agents, NEW m, m # Register(a), Takes(m),
         channels'[AddressOf[a]] = a => channels[AddressOf[a]] = a,
         a \in farewell' =>
           /\ a \in farewell \/ channels[AddressOf[a]] = a
           /\ channels'[AddressOf[a]] # a,
         state'[a] = state[a], state[a] = "new" => queue'[a] = queue[a]
  PROVE  Custody(a)'
<1>1. \A i \in DOMAIN inbox' :
        /\ i \in Nat /\ i + 1 \in DOMAIN inbox
        /\ inbox'[i] = Register(a) => inbox[i + 1] = Register(a)
  BY TakesEffect DEF TypeOK
<1>2. Custody(a)
  BY DEF SenderCustody
<1>3. \A i, j \in DOMAIN inbox' : inbox'[i] = Register(a) /\ inbox'[j] = Register(a) => i = j
  <2>. SUFFICES ASSUME NEW i \in DOMAIN inbox', NEW j \in DOMAIN inbox',
                       inbox'[i] = Register(a), inbox'[j] = Register(a)
                PROVE  i = j
    OBVIOUS
  <2>1. i + 1 = j + 1
    BY <1>1, <1>2 DEF Custody
  <2>. QED BY <1>1, <2>1
<1>. QED BY <1>1, <1>2, <1>3 DEF Custody, HasSender

\* The router takes Register(a): a's sender moves to the map or is dropped.
LEMMA CustodyRegister ==
  ASSUME TypeOK, SenderCustody, NEW a \in Agents, HandleRegister(a)
  PROVE  SenderCustody'
<1>1. Takes(Register(a)) /\ UNCHANGED <<farewell, queue>>
  BY DEF HandleRegister
<1>2. \A x \in Addresses : channels'[x] = channels[x] \/ (x = AddressOf[a] /\ channels'[x] = a)
  BY AgentsAssumption DEF HandleRegister, TypeOK
<1>3. /\ a \notin farewell /\ state[a] \in {"registering", "dropped"}
      /\ \A i \in DOMAIN inbox' : inbox'[i] # Register(a)
  <2>1. 1 \in DOMAIN inbox /\ inbox[1] = Register(a)
    BY <1>1, TakesEffect DEF TypeOK
  <2>2. ASSUME NEW i \in DOMAIN inbox', inbox'[i] = Register(a) PROVE FALSE
    <3>1. i + 1 \in DOMAIN inbox /\ inbox[i + 1] = Register(a) /\ i \in Nat \ {0}
      BY <1>1, <2>2, TakesEffect DEF TypeOK
    <3>2. i + 1 = 1
      BY <2>1, <3>1 DEF SenderCustody, Custody
    <3>. QED BY <3>1, <3>2
  <2>. QED BY <2>1, <2>2 DEF SenderCustody, Custody
<1>4. ASSUME NEW b \in Agents PROVE Custody(b)'
  <2>1. CASE b = a
    <3>1. state'[a] # "new"
      BY <1>3 DEF HandleRegister, TypeOK
    <3>. QED BY <1>1, <1>3, <2>1, <3>1 DEF Custody
  <2>2. CASE b # a
    <3>1. Register(b) # Register(a)
      BY <2>2, MessagesDiffer
    <3>2. state'[b] = state[b]
      BY <2>2 DEF HandleRegister, TypeOK
    <3>3. channels'[AddressOf[b]] = b => channels[AddressOf[b]] = b
      BY <1>2, <2>2, AgentsAssumption
    <3>4. b \in farewell' => b \in farewell /\ channels'[AddressOf[b]] # b
      BY <1>1, <3>3 DEF SenderCustody, Custody
    <3>. QED BY <1>1, <3>1, <3>2, <3>3, <3>4, CustodyTake
  <2>. QED BY <2>1, <2>2
<1>. QED BY <1>2, <1>4, AgentsAssumption DEF SenderCustody

\* The router queues messages only for the agent registered at the address, and
\* queues Shutdown only when it removes the registration in the same step.
LEMMA QueueStep ==
  ASSUME TypeOK, SenderCustody, RouterStep, NEW a \in Agents
  PROVE  \/ queue'[a] = queue[a]
         \/ /\ channels[AddressOf[a]] = a /\ Alive(a)
            /\ \E m \in AgentMsg : queue' = [queue EXCEPT ![a] = Append(queue[a], m)] /\ (m = ShutdownMsg => ~HasSender(a)')
<1>1. \A x \in Addresses : channels[x] = a => AddressOf[a] = x
  BY AgentsAssumption DEF SenderCustody
<1>2. CASE HandleEnvelope
  <2>. DEFINE m == Head(inbox)
  <2>1. m \in RouterMessage /\ m.kind \in EnvelopeKinds
    BY <1>2, TakesEffect DEF HandleEnvelope, TypeOK
  <2>2. m.to \in Addresses /\ m \in AgentMsg /\ m # ShutdownMsg
    BY <2>1, EnvelopesTyped DEF EnvelopeKinds, ShutdownMsg
  <2>. HIDE DEF m
  <2>3. DeliverNoChannel(m) \/ DeliverSent(m) \/ DeliverFailed(m)
    BY <1>2 DEF HandleEnvelope, m
  <2>. QED BY <1>1, <2>2, <2>3 DEF DeliverNoChannel, DeliverSent, DeliverFailed, TypeOK
<1>3. ASSUME NEW x \in Addresses, HandleShutdown(x)
      PROVE  \/ queue' = queue
             \/ /\ channels[x] \in Agents /\ Alive(channels[x])
                /\ queue' = [queue EXCEPT ![channels[x]] = Append(@, ShutdownMsg)]
                /\ channels'[x] = NoAgent
  BY <1>3, UnregisterTyped DEF HandleShutdown, TypeOK
<1>4. CASE NotifyTracker
  <2>1. Head(notify) \in [to : Addresses, gone : Addresses]
    BY <1>4, HeadTailProperties DEF NotifyTracker, TypeOK
  <2>2. AgentRemoved(Head(notify).gone) \in AgentMsg /\ AgentRemoved(Head(notify).gone) # ShutdownMsg
    BY <2>1, MessagesTyped DEF AgentRemoved, ShutdownMsg
  <2>. QED BY <1>1, <1>4, <2>1, <2>2 DEF NotifyTracker, TypeOK
<1>5. HandleShutdownRouter \/ (\E b \in Agents : HandleRegister(b))
        \/ (\E x, y \in Addresses : HandleTrack(x, y)) \/ (\E x \in Addresses : HandleUnregister(x))
      => queue' = queue
  BY DEF HandleShutdownRouter, HandleRegister, HandleTrack, HandleUnregister, agentVars
<1>6. ASSUME NEW x \in Addresses, HandleShutdown(x)
      PROVE  \/ queue'[a] = queue[a]
             \/ /\ channels[AddressOf[a]] = a /\ Alive(a)
                /\ \E m \in AgentMsg : queue' = [queue EXCEPT ![a] = Append(queue[a], m)] /\ (m = ShutdownMsg => ~HasSender(a)')
  <2>1. CASE channels[x] = a
    <3>1. CASE queue' = queue
      BY <3>1
    <3>2. CASE queue' # queue
      <4>1. Alive(a) /\ queue' = [queue EXCEPT ![a] = Append(queue[a], ShutdownMsg)] /\ channels'[x] = NoAgent
        BY <1>3, <1>6, <2>1, <3>2
      <4>2. AddressOf[a] = x /\ a # NoAgent
        BY <1>1, <2>1, AgentsAssumption
      <4>3. ~HasSender(a)'
        <5>1. Takes(Shutdown(x)) /\ UNCHANGED farewell
          BY <1>6 DEF HandleShutdown
        <5>2. a \notin farewell /\ \A i \in DOMAIN inbox : inbox[i] # Register(a)
          BY <2>1, <4>2 DEF SenderCustody, Custody
        <5>3. \A i \in DOMAIN inbox' : inbox'[i] # Register(a)
          BY <5>1, <5>2, TakesEffect DEF TypeOK
        <5>. QED BY <4>1, <4>2, <5>1, <5>2, <5>3 DEF HasSender
      <4>. QED BY <2>1, <4>1, <4>2, <4>3, MessagesTyped
    <3>. QED BY <3>1, <3>2
  <2>2. CASE channels[x] # a
    BY <1>3, <1>6, <2>2 DEF TypeOK
  <2>. QED BY <2>1, <2>2
<1>. QED BY <1>2, <1>4, <1>5, <1>6 DEF RouterStep

\* Every step keeps each sender in its one place.
LEMMA CustodyStep ==
  ASSUME TypeOK, SenderCustody, [Next]_vars
  PROVE  SenderCustody'
<1>. DEFINE Homes == \A x \in Addresses : channels[x] # NoAgent => AddressOf[channels[x]] = x
<1>. Homes
  BY DEF SenderCustody
<1>1. ASSUME NEW p \in Agents, AgentStep(p) PROVE SenderCustody'
  <2>1. CASE \E m \in RouterMessage : m.kind \notin {"Register", "Unregister"} /\ Tell(m)
             /\ UNCHANGED <<phase, channels, farewell, state, queue>>
    <3>1. PICK m \in RouterMessage : m.kind \notin {"Register", "Unregister"} /\ Tell(m)
               /\ UNCHANGED <<phase, channels, farewell, state, queue>>
      BY <2>1
    <3>2. \A a \in Agents : m # Register(a)
      BY <3>1, MessagesDiffer
    <3>3. \A a \in Agents : Custody(a)'
      BY <3>1, <3>2, CustodyTell
    <3>. QED BY <3>1, <3>3 DEF SenderCustody
  <2>2. ASSUME NEW c \in Agents, NewAgent(p, c) PROVE SenderCustody'
    <3>1. /\ state[c] = "new" /\ Tell(Register(c)) /\ UNCHANGED <<channels, farewell, queue>>
          /\ state' = [state EXCEPT ![c] = IF phase = "stopped" THEN "dropped" ELSE "registering"]
      BY <2>2 DEF NewAgent
    <3>2. ASSUME NEW a \in Agents \ {c} PROVE Custody(a)'
      <4>1. Register(c) # Register(a)
        BY <3>2, MessagesDiffer
      <4>2. state'[a] = state[a]
        BY <3>1, <3>2 DEF TypeOK
      <4>. QED BY <3>1, <4>1, <4>2, MessagesTyped, CustodyTell
    <3>3. Custody(c)'
      <4>1. ~HasSender(c)
        BY <3>1 DEF SenderCustody, Custody
      <4>2. state'[c] \in {"registering", "dropped"}
        BY <3>1 DEF TypeOK
      <4>3. \A i \in DOMAIN inbox' :
              inbox'[i] = Register(c) => i \in Nat /\ \A j \in DOMAIN inbox : j < i
        <5>1. \A i \in DOMAIN inbox' : i \in Nat
          BY <3>1, TellEffect, MessagesTyped, LenProperties DEF TypeOK
        <5>. QED BY <3>1, <4>1, <5>1, TellEffect, MessagesTyped DEF TypeOK, HasSender
      <4>4. \A i, j \in DOMAIN inbox' : inbox'[i] = Register(c) /\ inbox'[j] = Register(c) => i = j
        BY <3>1, <4>1, <4>3, MessagesTyped DEF Tell, TypeOK, HasSender
      <4>. QED BY <3>1, <4>1, <4>2, <4>4 DEF Custody, HasSender
    <3>. QED BY <3>1, <3>2, <3>3 DEF SenderCustody
  <2>3. CASE state[p] \notin {"new", "dropped"} /\ Dropped(p)
    <3>1. /\ Tell(Unregister(AddressOf[p])) /\ UNCHANGED <<channels, farewell, queue>>
          /\ Unregister(AddressOf[p]) \in RouterMessage
      BY <2>3, MessagesTyped, AgentsAssumption DEF Dropped
    <3>2. \A a \in Agents : Unregister(AddressOf[p]) # Register(a)
      BY MessagesDiffer
    <3>3. \A a \in Agents : state'[a] = state[a] \/ (state[a] # "new" /\ state'[a] = "dropped")
      BY <2>3 DEF Dropped, TypeOK
    <3>4. \A a \in Agents : Custody(a)'
      BY <3>1, <3>2, <3>3, CustodyTell
    <3>. QED BY <3>1, <3>4 DEF SenderCustody
  <2>4. CASE Recv(p) \/ RecvClosed(p)
    <3>1. UNCHANGED <<channels, inbox, farewell>>
      BY <2>4 DEF Recv, RecvClosed
    <3>2. /\ state[p] \in {"live", "stopping"} /\ state'[p] # "new"
          /\ \A a \in Agents \ {p} : state'[a] = state[a] /\ queue'[a] = queue[a]
      BY <2>4 DEF Recv, RecvClosed, Ready, TypeOK
    <3>3. \A a \in Agents : Custody(a)'
      BY <3>1, <3>2, CustodyQuiet
    <3>. QED BY <3>1, <3>3 DEF SenderCustody
  <2>5. CASE UNCHANGED <<phase, inbox, channels, farewell, state, queue>>
    <3>1. \A a \in Agents : Custody(a)'
      BY <2>5, CustodyQuiet
    <3>. QED BY <2>5, <3>1 DEF SenderCustody
  <2>. QED BY <1>1, <2>1, <2>2, <2>3, <2>4, <2>5, AgentStepEffect
<1>2. CASE RouterStep
  <2>1. \A a \in Agents : state[a] = "new" => queue'[a] = queue[a]
    BY <1>2, QueueStep DEF SenderCustody, Custody, HasSender
  <2>2. CASE \E a \in Agents : HandleRegister(a)
    BY <2>2, CustodyRegister
  <2>3. CASE UNCHANGED state
    <3>1. CASE /\ \E m : m.kind \notin {"Register", "Unregister"} /\ Takes(m)
               /\ UNCHANGED <<phase, farewell>>
               /\ channels' = channels \/ \E x \in Addresses : channels' = [channels EXCEPT ![x] = NoAgent]
      <4>1. PICK m : m.kind \notin {"Register", "Unregister"} /\ Takes(m)
        BY <3>1
      <4>2. \A x \in Addresses : channels'[x] = channels[x] \/ channels'[x] = NoAgent
        BY <3>1 DEF TypeOK
      <4>3. ASSUME NEW a \in Agents PROVE Custody(a)'
        <5>1. m # Register(a) /\ a # NoAgent /\ AddressOf[a] \in Addresses
          BY <4>1, MessagesDiffer, AgentsAssumption
        <5>2. a \in farewell' => a \in farewell /\ channels[AddressOf[a]] # a
          BY <3>1 DEF SenderCustody, Custody
        <5>. QED BY <2>1, <2>3, <3>1, <4>1, <4>2, <5>1, <5>2, CustodyTake
      <4>. QED BY <4>2, <4>3 DEF SenderCustody
    <3>2. ASSUME NEW x \in Addresses, HandleUnregister(x) PROVE SenderCustody'
      <4>1. Takes(Unregister(x)) /\ UNCHANGED farewell /\ channels' = [channels EXCEPT ![x] = NoAgent]
        BY <3>2, UnregisterTyped DEF HandleUnregister
      <4>2. \A y \in Addresses : channels'[y] = channels[y] \/ channels'[y] = NoAgent
        BY <4>1 DEF TypeOK
      <4>3. ASSUME NEW a \in Agents PROVE Custody(a)'
        <5>1. Unregister(x) # Register(a) /\ a # NoAgent /\ AddressOf[a] \in Addresses
          BY MessagesDiffer, AgentsAssumption
        <5>2. a \in farewell' => a \in farewell /\ channels[AddressOf[a]] # a
          BY <4>1 DEF SenderCustody, Custody
        <5>. QED BY <2>1, <2>3, <4>1, <4>2, <5>1, <5>2, CustodyTake
      <4>. QED BY <4>2, <4>3 DEF SenderCustody
    <3>3. CASE HandleShutdownRouter
      <4>1. /\ Takes(ShutdownRouter)
            /\ farewell' = {a \in Agents : channels[AddressOf[a]] = a}
            /\ channels' = [x \in Addresses |-> NoAgent]
        BY <3>3 DEF HandleShutdownRouter
      <4>2. ASSUME NEW a \in Agents PROVE Custody(a)'
        <5>1. ShutdownRouter # Register(a) /\ a # NoAgent /\ AddressOf[a] \in Addresses
          BY MessagesDiffer, AgentsAssumption
        <5>. QED BY <2>1, <2>3, <4>1, <5>1, CustodyTake
      <4>. QED BY <4>1, <4>2 DEF SenderCustody
    <3>4. CASE UNCHANGED <<phase, inbox, channels, farewell>>
      <4>1. \A a \in Agents : Custody(a)'
        BY <2>1, <2>3, <3>4, CustodyQuiet
      <4>. QED BY <3>4, <4>1 DEF SenderCustody
    <3>. QED BY <1>2, <2>2, <3>1, <3>2, <3>3, <3>4, RouterStepEffect
  <2>. QED BY <1>2, <2>2, <2>3, RouterStepEffect
<1>3. CASE Run \/ UNCHANGED vars
  <2>1. UNCHANGED <<channels, inbox, farewell, state, queue>>
    BY <1>3 DEF Run, vars, agentVars
  <2>2. \A a \in Agents : Custody(a)'
    BY <2>1, CustodyQuiet
  <2>. QED BY <2>1, <2>2 DEF SenderCustody
<1>4. ASSUME NEW c \in Agents, RouterNewAgent(c) PROVE SenderCustody'
  <2>1. /\ state[c] = "new" /\ UNCHANGED <<inbox, farewell, queue>>
        /\ state' = [state EXCEPT ![c] = "live"]
        /\ channels' = [channels EXCEPT ![AddressOf[c]] = c]
        /\ AddressOf[c] \in Addresses
    BY <1>4, AgentsAssumption DEF RouterNewAgent
  <2>2. \A x \in Addresses : channels'[x] = channels[x] \/ (x = AddressOf[c] /\ channels'[x] = c)
    BY <2>1 DEF TypeOK
  <2>3. ASSUME NEW a \in Agents PROVE Custody(a)'
    <3>1. CASE a = c
      BY <2>1, <3>1 DEF SenderCustody, Custody, HasSender, TypeOK
    <3>2. CASE a # c
      <4>1. state'[a] = state[a] /\ (channels'[AddressOf[a]] = a => channels[AddressOf[a]] = a)
        BY <2>1, <2>2, <3>2, AgentsAssumption DEF TypeOK
      <4>. QED BY <2>1, <4>1 DEF SenderCustody, Custody, HasSender
    <3>. QED BY <3>1, <3>2
  <2>. QED BY <2>2, <2>3 DEF SenderCustody
<1>5. ASSUME NEW c \in Agents, SendFarewell(c) PROVE SenderCustody'
  <2>1. /\ c \in farewell /\ farewell' = farewell \ {c} /\ UNCHANGED <<inbox, channels, state>>
        /\ \A a \in Agents \ {c} : queue'[a] = queue[a]
    BY <1>5 DEF SendFarewell, TypeOK
  <2>2. \A a \in Agents : Custody(a)'
    BY <2>1 DEF SenderCustody, Custody, HasSender
  <2>. QED BY <2>1, <2>2 DEF SenderCustody
<1>. QED BY <1>1, <1>2, <1>3, <1>4, <1>5 DEF Next

\* At any time at most one sender of an agent's channel exists, in one known
\* place, so that unregistering an agent closes its channel.
THEOREM CustodyCorrect == Spec => [](TypeOK /\ SenderCustody)
<1>1. TypeOK /\ SenderCustody /\ [Next]_vars => (TypeOK /\ SenderCustody)'
  BY TypeStep, CustodyStep
<1>. QED BY <1>1, TypeInit, CustodyInit, PTL DEF Spec

-----------------------------------------------------------------------------
(* Shutdown is the last message                                            *)

\* An agent gains a sender only when it is made.
LEMMA NoNewSender ==
  ASSUME TypeOK, SenderCustody, [Next]_vars, NEW a \in Agents, HasSender(a)'
  PROVE  HasSender(a) \/ state[a] = "new"
<1>1. ASSUME NEW p \in Agents, AgentStep(p) PROVE HasSender(a) \/ state[a] = "new"
  <2>1. CASE \/ UNCHANGED <<phase, inbox, channels, farewell, state, queue>>
             \/ Recv(p) \/ RecvClosed(p)
    BY <2>1 DEF Recv, RecvClosed, HasSender
  <2>2. ASSUME NEW m \in RouterMessage, m # Register(a), Tell(m), UNCHANGED <<channels, farewell>>
        PROVE  HasSender(a)
    <3>1. \A i \in DOMAIN inbox' : inbox'[i] = Register(a) => i \in DOMAIN inbox /\ inbox[i] = Register(a)
      BY <2>2, TellEffect DEF TypeOK
    <3>. QED BY <2>2, <3>1 DEF HasSender
  <2>3. CASE \E m \in RouterMessage : m.kind \notin {"Register", "Unregister"} /\ Tell(m)
             /\ UNCHANGED <<phase, channels, farewell, state, queue>>
    BY <2>2, <2>3, MessagesDiffer
  <2>4. ASSUME NEW c \in Agents, NewAgent(p, c) PROVE HasSender(a) \/ state[a] = "new"
    <3>1. CASE c = a
      BY <2>4, <3>1 DEF NewAgent
    <3>2. CASE c # a
      <4>1. Register(c) # Register(a)
        BY <3>2, MessagesDiffer
      <4>. QED BY <2>2, <2>4, <4>1, MessagesTyped DEF NewAgent
    <3>. QED BY <3>1, <3>2
  <2>5. CASE Dropped(p)
    BY <2>2, <2>5, MessagesTyped, MessagesDiffer, AgentsAssumption DEF Dropped
  <2>. QED BY <1>1, <2>1, <2>3, <2>4, <2>5, AgentStepEffect
<1>2. CASE RouterStep
  <2>1. ASSUME NEW m, Takes(m),
               channels'[AddressOf[a]] = a => HasSender(a),
               a \in farewell' => HasSender(a)
        PROVE  HasSender(a)
    <3>1. \A i \in DOMAIN inbox' : i + 1 \in DOMAIN inbox /\ inbox'[i] = inbox[i + 1]
      BY <2>1, TakesEffect DEF TypeOK
    <3>. QED BY <2>1, <3>1 DEF HasSender
  <2>2. AddressOf[a] \in Addresses /\ a # NoAgent
    BY AgentsAssumption
  <2>3. CASE /\ \E m : m.kind \notin {"Register", "Unregister"} /\ Takes(m)
             /\ UNCHANGED <<phase, farewell>>
             /\ channels' = channels \/ \E x \in Addresses : channels' = [channels EXCEPT ![x] = NoAgent]
    <3>1. channels'[AddressOf[a]] = a => channels[AddressOf[a]] = a
      BY <2>2, <2>3 DEF TypeOK
    <3>. QED BY <2>1, <2>3, <3>1 DEF HasSender
  <2>4. ASSUME NEW b \in Agents, HandleRegister(b) PROVE HasSender(a)
    <3>1. Takes(Register(b)) /\ UNCHANGED farewell
      BY <2>4 DEF HandleRegister
    <3>2. channels'[AddressOf[a]] = a => channels[AddressOf[a]] = a \/ b = a
      BY <2>2, <2>4, AgentsAssumption DEF HandleRegister, TypeOK
    <3>3. 1 \in DOMAIN inbox /\ inbox[1] = Register(b)
      BY <3>1, TakesEffect DEF TypeOK
    <3>. QED BY <2>1, <3>1, <3>2, <3>3 DEF HasSender
  <2>5. ASSUME NEW x \in Addresses, HandleUnregister(x) PROVE HasSender(a)
    <3>1. Takes(Unregister(x)) /\ UNCHANGED farewell /\ channels' = [channels EXCEPT ![x] = NoAgent]
      BY <2>5, UnregisterTyped DEF HandleUnregister
    <3>. QED BY <2>1, <2>2, <3>1 DEF HasSender, TypeOK
  <2>6. CASE HandleShutdownRouter
    BY <2>1, <2>2, <2>6 DEF HandleShutdownRouter, HasSender
  <2>7. CASE UNCHANGED <<phase, inbox, channels, farewell>>
    BY <2>7 DEF HasSender
  <2>. QED BY <1>2, <2>3, <2>4, <2>5, <2>6, <2>7, RouterStepEffect
<1>3. CASE Run \/ UNCHANGED vars
  BY <1>3 DEF Run, vars, agentVars, HasSender
<1>4. ASSUME NEW c \in Agents, RouterNewAgent(c) PROVE HasSender(a) \/ state[a] = "new"
  <2>1. CASE c = a
    BY <1>4, <2>1 DEF RouterNewAgent
  <2>2. CASE c # a
    BY <1>4, <2>2, AgentsAssumption DEF RouterNewAgent, HasSender, TypeOK
  <2>. QED BY <2>1, <2>2
<1>5. ASSUME NEW c \in Agents, SendFarewell(c) PROVE HasSender(a)
  BY <1>5 DEF SendFarewell, HasSender
<1>. QED BY <1>1, <1>2, <1>3, <1>4, <1>5 DEF Next

\* What any step can do to the channel and the state of an agent.
LEMMA ChannelStep ==
  ASSUME TypeOK, SenderCustody, [Next]_vars, NEW a \in Agents
  PROVE  \/ Recv(a)
         \/ RecvClosed(a)
         \/ /\ state'[a] = "stopping" => state[a] = "stopping"
            /\ \/ queue'[a] = queue[a]
               \/ /\ HasSender(a) /\ Alive(a)
                  /\ \E m \in AgentMsg : queue' = [queue EXCEPT ![a] = Append(queue[a], m)] /\ (m = ShutdownMsg => ~HasSender(a)')
<1>1. ASSUME NEW p \in Agents, AgentStep(p)
      PROVE  \/ Recv(a)
             \/ RecvClosed(a)
             \/ queue'[a] = queue[a] /\ (state'[a] = "stopping" => state[a] = "stopping")
  <2>1. CASE Recv(p) \/ RecvClosed(p)
    BY <2>1 DEF Recv, RecvClosed, TypeOK
  <2>2. CASE (\E c \in Agents : NewAgent(p, c)) \/ Dropped(p)
    BY <2>2 DEF NewAgent, Dropped, TypeOK
  <2>. QED BY <1>1, <2>1, <2>2, AgentStepEffect
<1>2. CASE RouterStep
  <2>1. state'[a] = "stopping" => state[a] = "stopping"
    <3>1. ASSUME NEW b \in Agents, HandleRegister(b) PROVE state'[a] = "stopping" => state[a] = "stopping"
      BY <3>1 DEF HandleRegister, TypeOK
    <3>. QED BY <1>2, <3>1, RouterStepEffect
  <2>. QED BY <1>2, <2>1, QueueStep DEF HasSender
<1>3. CASE Run \/ UNCHANGED vars
  BY <1>3 DEF Run, vars, agentVars
<1>4. ASSUME NEW c \in Agents, RouterNewAgent(c)
      PROVE  queue'[a] = queue[a] /\ (state'[a] = "stopping" => state[a] = "stopping")
  BY <1>4 DEF RouterNewAgent, TypeOK
<1>5. ASSUME NEW c \in Agents, SendFarewell(c)
      PROVE  /\ state' = state
             /\ \/ queue'[a] = queue[a]
                \/ /\ HasSender(a) /\ Alive(a)
                   /\ \E m \in AgentMsg : queue' = [queue EXCEPT ![a] = Append(queue[a], m)] /\ (m = ShutdownMsg => ~HasSender(a)')
  <2>1. state' = state /\ UNCHANGED <<inbox, channels>> /\ c \in farewell /\ farewell' = farewell \ {c}
    BY <1>5 DEF SendFarewell
  <2>2. CASE c = a /\ Alive(a)
    <3>1. queue' = [queue EXCEPT ![a] = Append(queue[a], ShutdownMsg)]
      BY <1>5, <2>2 DEF SendFarewell
    <3>2. HasSender(a) /\ ~HasSender(a)'
      BY <2>1, <2>2 DEF HasSender, SenderCustody, Custody
    <3>. QED BY <2>1, <2>2, <3>1, <3>2, MessagesTyped
  <2>3. CASE ~(c = a /\ Alive(a))
    BY <1>5, <2>3 DEF SendFarewell, TypeOK
  <2>. QED BY <2>1, <2>2, <2>3
<1>. QED BY <1>1, <1>2, <1>3, <1>4, <1>5 DEF Next

\* Every step leaves a Shutdown the last message of its channel.
LEMMA FinalStep ==
  ASSUME TypeOK, SenderCustody, ShutdownIsFinal, [Next]_vars
  PROVE  ShutdownIsFinal'
<1>. SUFFICES ASSUME NEW a \in Agents PROVE ShutdownLast(a)'
  BY DEF ShutdownIsFinal
<1>1. ShutdownLast(a) /\ (HasSender(a)' => HasSender(a) \/ state[a] = "new")
  BY NoNewSender DEF ShutdownIsFinal
<1>2. state[a] = "new" => queue[a] = <<>> /\ ~HasSender(a)
  BY DEF SenderCustody, Custody
<1>3. queue[a] \in Seq(AgentMsg) /\ Len(queue[a]) \in Nat /\ DOMAIN queue[a] = 1..Len(queue[a])
  BY LenProperties DEF TypeOK
<1>4. CASE Recv(a)
  <2>1. /\ queue[a] # <<>> /\ queue'[a] = Tail(queue[a])
        /\ state[a] \in {"live", "stopping"}
        /\ state'[a] = "stopping" => state[a] = "stopping" \/ Head(queue[a]).kind = "AgentShutdown"
    BY <1>4 DEF Recv, Ready, TypeOK
  <2>2. /\ Len(queue[a]) \in Nat \ {0} /\ queue'[a] \in Seq(AgentMsg)
        /\ Len(queue'[a]) = Len(queue[a]) - 1 /\ DOMAIN queue'[a] = 1..(Len(queue[a]) - 1)
        /\ \A i \in 1..(Len(queue[a]) - 1) : queue'[a][i] = queue[a][i + 1]
    BY <1>3, <2>1, HeadTailProperties, EmptySeq, LenProperties
  <2>3. Head(queue[a]) = queue[a][1] /\ Head(queue[a]) \in AgentMsg
    BY <1>3, <2>1, HeadTailProperties
  <2>4. Head(queue[a]).kind = "AgentShutdown" => Head(queue[a]) = ShutdownMsg
    BY <2>3 DEF AgentMsg, Envelopes, EnvelopeKinds, ShutdownMsg
  <2>5. ~HasSender(a) => ~HasSender(a)'
    BY <1>1, <2>1
  <2>6. \A i \in DOMAIN queue'[a] :
          queue'[a][i] = ShutdownMsg => i = Len(queue'[a]) /\ ~HasSender(a)'
    <3>. SUFFICES ASSUME NEW i \in DOMAIN queue'[a], queue'[a][i] = ShutdownMsg
                  PROVE  i = Len(queue'[a]) /\ ~HasSender(a)'
      OBVIOUS
    <3>1. i \in Nat /\ i + 1 \in DOMAIN queue[a] /\ queue[a][i + 1] = ShutdownMsg
      BY <1>3, <2>2
    <3>2. i + 1 = Len(queue[a]) /\ ~HasSender(a)
      BY <1>1, <3>1 DEF ShutdownLast
    <3>. QED BY <2>2, <2>5, <3>1, <3>2
  <2>7. state'[a] = "stopping" => queue'[a] = <<>> /\ ~HasSender(a)'
    <3>1. state[a] # "stopping"
      BY <1>1, <2>1 DEF ShutdownLast
    <3>2. Head(queue[a]) = ShutdownMsg => Len(queue[a]) = 1 /\ ~HasSender(a)
      <4>1. 1 \in DOMAIN queue[a]
        BY <1>3, <2>2
      <4>. QED BY <1>1, <2>3, <4>1 DEF ShutdownLast
    <3>3. Len(queue[a]) = 1 => queue'[a] = <<>>
      <4>1. \A q \in Seq(AgentMsg) : Len(q) = 0 => q = <<>>
        BY EmptySeq
      <4>. QED BY <2>2, <4>1
    <3>. QED BY <2>1, <2>4, <2>5, <3>1, <3>2, <3>3
  <2>. QED BY <2>6, <2>7 DEF ShutdownLast
<1>5. CASE RecvClosed(a)
  BY <1>1, <1>5 DEF RecvClosed, ShutdownLast, Ready
<1>6. CASE queue'[a] = queue[a] /\ (state'[a] = "stopping" => state[a] = "stopping")
  BY <1>1, <1>2, <1>3, <1>6, EmptySeq DEF ShutdownLast
<1>7. CASE /\ state'[a] = "stopping" => state[a] = "stopping"
           /\ HasSender(a)
           /\ \E m \in AgentMsg : queue' = [queue EXCEPT ![a] = Append(queue[a], m)] /\ (m = ShutdownMsg => ~HasSender(a)')
  <2>1. PICK m \in AgentMsg : queue' = [queue EXCEPT ![a] = Append(queue[a], m)] /\ (m = ShutdownMsg => ~HasSender(a)')
    BY <1>7
  <2>2. queue'[a] = Append(queue[a], m)
    BY <2>1 DEF TypeOK
  <2>3. /\ Len(queue'[a]) = Len(queue[a]) + 1 /\ DOMAIN queue'[a] = 1..(Len(queue[a]) + 1)
        /\ \A i \in 1..Len(queue[a]) : queue'[a][i] = queue[a][i]
        /\ queue'[a][Len(queue[a]) + 1] = m
    BY <1>3, <2>2, AppendProperties, LenProperties
  <2>4. state'[a] # "stopping" /\ \A i \in DOMAIN queue[a] : queue[a][i] # ShutdownMsg
    BY <1>1, <1>7 DEF ShutdownLast
  <2>. QED BY <1>3, <2>1, <2>3, <2>4 DEF ShutdownLast
<1>. QED BY <1>4, <1>5, <1>6, <1>7, ChannelStep

\* Behind the Shutdown the router sends to an agent there is never anything
\* else, and whoever has received it can only find its channel closed.
THEOREM ShutdownCorrect == Spec => []ShutdownIsFinal
<1>1. Init => ShutdownIsFinal
  BY DEF Init, ShutdownIsFinal, ShutdownLast
<1>2. TypeOK /\ SenderCustody /\ ShutdownIsFinal /\ [Next]_vars => ShutdownIsFinal'
  BY FinalStep
<1>. QED BY <1>1, <1>2, CustodyCorrect, PTL DEF Spec

-----------------------------------------------------------------------------
(* Dropped agents do not stay registered                                   *)

\* An agent is dropped once and for all, by itself or by a failed new_agent.
LEMMA DroppedStep ==
  ASSUME TypeOK, [Next]_vars, NEW a \in Agents
  PROVE  /\ state[a] = "dropped" => state'[a] = "dropped"
         /\ state'[a] = "dropped" =>
              state[a] = "dropped" \/ Dropped(a) \/ (state[a] = "new" /\ phase' = "stopped")
<1>1. ASSUME NEW p \in Agents, AgentStep(p)
      PROVE  /\ state[a] = "dropped" => state'[a] = "dropped"
             /\ state'[a] = "dropped" =>
                  state[a] = "dropped" \/ Dropped(a) \/ (state[a] = "new" /\ phase' = "stopped")
  <2>1. CASE Recv(p) \/ RecvClosed(p)
    BY <2>1 DEF Recv, RecvClosed, Ready, TypeOK
  <2>2. ASSUME NEW c \in Agents, NewAgent(p, c)
        PROVE  /\ state[a] = "dropped" => state'[a] = "dropped"
               /\ state'[a] = "dropped" => state[a] = "dropped" \/ (state[a] = "new" /\ phase' = "stopped")
    BY <2>2 DEF NewAgent, TypeOK
  <2>3. CASE Dropped(p)
    <3>1. CASE p = a
      BY <2>3, <3>1 DEF Dropped, TypeOK
    <3>2. CASE p # a
      BY <2>3, <3>2 DEF Dropped, TypeOK
    <3>. QED BY <3>1, <3>2
  <2>. QED BY <1>1, <2>1, <2>2, <2>3, AgentStepEffect
<1>2. CASE RouterStep
  <2>1. ASSUME NEW b \in Agents, HandleRegister(b)
        PROVE  state[a] = "dropped" <=> state'[a] = "dropped"
    BY <2>1 DEF HandleRegister, TypeOK
  <2>. QED BY <1>2, <2>1, RouterStepEffect
<1>3. CASE Run \/ UNCHANGED vars
  BY <1>3 DEF Run, vars, agentVars
<1>4. ASSUME NEW c \in Agents, RouterNewAgent(c) \/ SendFarewell(c)
      PROVE  state[a] = "dropped" <=> state'[a] = "dropped"
  BY <1>4 DEF RouterNewAgent, SendFarewell, TypeOK
<1>. QED BY <1>1, <1>2, <1>3, <1>4 DEF Next

\* A message sent behind the Unregister keeps it there.
LEMMA ReapedTell ==
  ASSUME TypeOK, NEW a \in Agents, Reaped(a), NEW m \in RouterMessage, m # Register(a), Tell(m),
         UNCHANGED channels
  PROVE  Reaped(a)'
<1>1. /\ \A i \in DOMAIN inbox : i \in DOMAIN inbox' /\ inbox'[i] = inbox[i]
      /\ \A i \in DOMAIN inbox' : inbox'[i] = Register(a) => i \in DOMAIN inbox /\ inbox[i] = Register(a)
  BY TellEffect DEF TypeOK
<1>. QED BY <1>1 DEF Reaped

\* The router takes the Unregister only together with the registration.
LEMMA ReapedTake ==
  ASSUME TypeOK, NEW a \in Agents, Reaped(a), NEW m, Takes(m),
         channels'[AddressOf[a]] = a =>
           m = Register(a) \/ (channels[AddressOf[a]] = a /\ m # Unregister(AddressOf[a]))
  PROVE  Reaped(a)'
<1>. DEFINE U == Unregister(AddressOf[a])
<1>1. /\ 1 \in DOMAIN inbox /\ inbox[1] = m
      /\ \A i \in DOMAIN inbox : i \in Nat \ {0}
      /\ \A i \in DOMAIN inbox \ {1} : i - 1 \in DOMAIN inbox' /\ inbox'[i - 1] = inbox[i]
      /\ \A i \in DOMAIN inbox' : i + 1 \in DOMAIN inbox /\ inbox'[i] = inbox[i + 1] /\ i \in Nat \ {0}
  BY TakesEffect DEF TypeOK
<1>. HIDE DEF U
<1>2. ASSUME channels'[AddressOf[a]] = a PROVE \E j \in DOMAIN inbox' : inbox'[j] = U
  <2>1. \E j \in DOMAIN inbox : j # 1 /\ inbox[j] = U
    <3>1. CASE m = Register(a)
      BY <1>1, <3>1 DEF Reaped, U
    <3>2. CASE channels[AddressOf[a]] = a /\ m # U
      BY <1>1, <3>2 DEF Reaped, U
    <3>. QED BY <1>2, <3>1, <3>2 DEF U
  <2>. QED BY <1>1, <2>1
<1>3. ASSUME NEW i \in DOMAIN inbox', inbox'[i] = Register(a)
      PROVE  \E j \in DOMAIN inbox' : j > i /\ inbox'[j] = U
  <2>1. i \in Nat \ {0} /\ i + 1 \in DOMAIN inbox /\ inbox[i + 1] = Register(a)
    BY <1>1, <1>3
  <2>2. PICK j \in DOMAIN inbox : j > i + 1 /\ inbox[j] = U
    BY <2>1 DEF Reaped, U
  <2>3. j - 1 \in DOMAIN inbox' /\ inbox'[j - 1] = U /\ j - 1 > i
    BY <1>1, <2>1, <2>2
  <2>. QED BY <2>3
<1>. QED BY <1>2, <1>3 DEF Reaped, U

\* Every step keeps an Unregister behind a dropped agent that is or will be registered.
LEMMA ReapedStep ==
  ASSUME TypeOK, SenderCustody, DeadIsReaped, [Next]_vars
  PROVE  DeadIsReaped'
<1>. SUFFICES ASSUME phase' # "stopped", NEW a \in Agents, state'[a] = "dropped"
              PROVE  Reaped(a)'
  BY DEF DeadIsReaped
<1>1. phase # "stopped"
  <2>1. ASSUME NEW p \in Agents, AgentStep(p) PROVE phase' = phase
    BY <2>1, AgentStepEffect DEF NewAgent, Dropped, Recv, RecvClosed
  <2>2. CASE RouterStep
    <3>1. (\E b \in Agents : HandleRegister(b)) \/ (\E x \in Addresses : HandleUnregister(x)) => phase' = phase
      BY DEF HandleRegister, HandleUnregister
    <3>. QED BY <2>2, <3>1, RouterStepEffect DEF HandleShutdownRouter
  <2>3. CASE UNCHANGED vars
    BY <2>3 DEF vars
  <2>. QED BY <2>1, <2>2, <2>3 DEF Next, Run, RouterNewAgent, SendFarewell
<1>2. AddressOf[a] \in Addresses /\ a # NoAgent
  BY AgentsAssumption
<1>3. CASE Dropped(a)
  <2>1. Tell(Unregister(AddressOf[a])) /\ Unregister(AddressOf[a]) \in RouterMessage /\ inbox \in Seq(RouterMessage)
    BY <1>2, <1>3, MessagesTyped DEF Dropped, TypeOK
  <2>2. Unregister(AddressOf[a]) # Register(a)
    BY MessagesDiffer
  <2>3. Len(inbox) + 1 \in DOMAIN inbox' /\ inbox'[Len(inbox) + 1] = Unregister(AddressOf[a])
    BY <1>1, <2>1, TellEffect
  <2>4. \A i \in DOMAIN inbox' : inbox'[i] = Register(a) => i \in 1..Len(inbox)
    BY <2>1, <2>2, TellEffect, LenProperties
  <2>5. Len(inbox) \in Nat
    BY <2>1, LenProperties
  <2>. QED BY <2>3, <2>4, <2>5 DEF Reaped
<1>4. CASE state[a] = "dropped"
  <2>. Reaped(a)
    BY <1>1, <1>4 DEF DeadIsReaped
  <2>1. ASSUME NEW p \in Agents, AgentStep(p) PROVE Reaped(a)'
    <3>1. CASE UNCHANGED <<phase, inbox, channels, farewell, state, queue>> \/ Recv(p) \/ RecvClosed(p)
      BY <3>1 DEF Recv, RecvClosed, Reaped
    <3>2. CASE \E m \in RouterMessage : m.kind \notin {"Register", "Unregister"} /\ Tell(m)
               /\ UNCHANGED <<phase, channels, farewell, state, queue>>
      BY <3>2, MessagesDiffer, ReapedTell
    <3>3. ASSUME NEW c \in Agents, NewAgent(p, c) PROVE Reaped(a)'
      <4>1. Tell(Register(c)) /\ UNCHANGED channels /\ c # a
        BY <1>4, <3>3 DEF NewAgent
      <4>2. Register(c) # Register(a)
        BY <4>1, MessagesDiffer
      <4>. QED BY <4>1, <4>2, MessagesTyped, ReapedTell
    <3>4. CASE Dropped(p)
      <4>1. Unregister(AddressOf[p]) \in RouterMessage /\ Unregister(AddressOf[p]) # Register(a)
        BY MessagesTyped, MessagesDiffer, AgentsAssumption
      <4>. QED BY <3>4, <4>1, ReapedTell DEF Dropped
    <3>. QED BY <2>1, <3>1, <3>2, <3>3, <3>4, AgentStepEffect
  <2>2. CASE RouterStep
    <3>1. CASE /\ \E m : m.kind \notin {"Register", "Unregister"} /\ Takes(m)
               /\ UNCHANGED <<phase, farewell>>
               /\ channels' = channels \/ \E x \in Addresses : channels' = [channels EXCEPT ![x] = NoAgent]
      <4>1. channels'[AddressOf[a]] = a => channels[AddressOf[a]] = a
        BY <1>2, <3>1 DEF TypeOK
      <4>. QED BY <3>1, <4>1, MessagesDiffer, ReapedTake
    <3>2. ASSUME NEW b \in Agents, HandleRegister(b) PROVE Reaped(a)'
      <4>1. Takes(Register(b)) /\ Register(b) # Unregister(AddressOf[a])
        BY <3>2, MessagesDiffer DEF HandleRegister
      <4>2. channels'[AddressOf[a]] = a => channels[AddressOf[a]] = a \/ b = a
        BY <1>2, <3>2, AgentsAssumption DEF HandleRegister, TypeOK
      <4>. QED BY <4>1, <4>2, ReapedTake
    <3>3. ASSUME NEW x \in Addresses, HandleUnregister(x) PROVE Reaped(a)'
      <4>1. Takes(Unregister(x)) /\ channels' = [channels EXCEPT ![x] = NoAgent]
        BY <3>3, UnregisterTyped DEF HandleUnregister
      <4>2. channels'[AddressOf[a]] = a => channels[AddressOf[a]] = a /\ x # AddressOf[a]
        BY <1>2, <4>1 DEF TypeOK
      <4>3. x # AddressOf[a] => Unregister(x) # Unregister(AddressOf[a])
        BY MessagesDiffer
      <4>. QED BY <4>1, <4>2, <4>3, ReapedTake
    <3>4. CASE HandleShutdownRouter
      BY <3>4 DEF HandleShutdownRouter
    <3>5. CASE UNCHANGED <<phase, inbox, channels, farewell>>
      BY <3>5 DEF Reaped
    <3>. QED BY <2>2, <3>1, <3>2, <3>3, <3>4, <3>5, RouterStepEffect
  <2>3. CASE Run \/ UNCHANGED vars
    BY <2>3 DEF Run, vars, Reaped
  <2>4. ASSUME NEW c \in Agents, RouterNewAgent(c) PROVE Reaped(a)'
    <3>1. c # a /\ inbox' = inbox /\ channels' = [channels EXCEPT ![AddressOf[c]] = c]
      BY <1>4, <2>4 DEF RouterNewAgent
    <3>2. channels'[AddressOf[a]] = a => channels[AddressOf[a]] = a
      BY <1>2, <3>1, AgentsAssumption DEF TypeOK
    <3>. QED BY <3>1, <3>2 DEF Reaped
  <2>5. ASSUME NEW c \in Agents, SendFarewell(c) PROVE Reaped(a)'
    BY <2>5 DEF SendFarewell, Reaped
  <2>. QED BY <2>1, <2>2, <2>3, <2>4, <2>5 DEF Next
<1>. QED BY <1>3, <1>4, DroppedStep

\* While the router runs, every dropped agent that is registered, or can still
\* become so through a Register it left behind, has its Unregister on the way.
THEOREM ReapedCorrect == Spec => []DeadIsReaped
<1>1. Init => DeadIsReaped
  BY DEF Init, DeadIsReaped
<1>2. TypeOK /\ SenderCustody /\ DeadIsReaped /\ [Next]_vars => DeadIsReaped'
  BY ReapedStep
<1>. QED BY <1>1, <1>2, CustodyCorrect, PTL DEF Spec

-----------------------------------------------------------------------------
(* With one agent per address, nobody loses a registration                 *)

\* No two agent instances are ever given the same address.
OneAgentPerAddress == \A a, b \in Agents : AddressOf[a] = AddressOf[b] => a = b

\* An Unregister in the inbox is about an agent that has been dropped: with one
\* agent per address, NoEviction is inductive together with this.
OnlyDeadUnregister ==
  \A a \in Agents : \A i \in DOMAIN inbox :
    inbox[i] = Unregister(AddressOf[a]) => state[a] = "dropped"

\* With an address per agent, every step posts Unregister for dropped agents only.
LEMMA OnlyDeadStep ==
  ASSUME OneAgentPerAddress, TypeOK, OnlyDeadUnregister, [Next]_vars
  PROVE  OnlyDeadUnregister'
<1>. SUFFICES ASSUME NEW a \in Agents, NEW i \in DOMAIN inbox', inbox'[i] = Unregister(AddressOf[a])
              PROVE  state'[a] = "dropped"
  BY DEF OnlyDeadUnregister
<1>1. (\E j \in DOMAIN inbox : inbox[j] = Unregister(AddressOf[a])) => state'[a] = "dropped"
  BY DroppedStep DEF OnlyDeadUnregister
<1>2. ASSUME NEW p \in Agents, AgentStep(p) PROVE state'[a] = "dropped"
  <2>1. CASE UNCHANGED <<phase, inbox, channels, farewell, state, queue>> \/ Recv(p) \/ RecvClosed(p)
    BY <1>1, <2>1 DEF Recv, RecvClosed
  <2>2. ASSUME NEW m \in RouterMessage, m # Unregister(AddressOf[a]), Tell(m) PROVE state'[a] = "dropped"
    <3>1. i \in DOMAIN inbox /\ inbox[i] = Unregister(AddressOf[a])
      BY <2>2, TellEffect DEF TypeOK
    <3>. QED BY <1>1, <3>1
  <2>3. CASE \E m \in RouterMessage : m.kind \notin {"Register", "Unregister"} /\ Tell(m)
             /\ UNCHANGED <<phase, channels, farewell, state, queue>>
    BY <2>2, <2>3, MessagesDiffer
  <2>4. ASSUME NEW c \in Agents, NewAgent(p, c) PROVE state'[a] = "dropped"
    <3>1. Register(c) # Unregister(AddressOf[a])
      BY MessagesDiffer
    <3>. QED BY <2>2, <2>4, <3>1, MessagesTyped DEF NewAgent
  <2>5. CASE Dropped(p)
    <3>1. CASE p = a
      BY <2>5, <3>1 DEF Dropped, TypeOK
    <3>2. CASE p # a
      <4>1. Unregister(AddressOf[p]) # Unregister(AddressOf[a])
        BY <3>2, MessagesDiffer DEF OneAgentPerAddress
      <4>. QED BY <2>2, <2>5, <4>1, MessagesTyped, AgentsAssumption DEF Dropped
    <3>. QED BY <3>1, <3>2
  <2>. QED BY <1>2, <2>1, <2>3, <2>4, <2>5, AgentStepEffect
<1>3. CASE RouterStep
  <2>1. ASSUME NEW m, Takes(m) PROVE state'[a] = "dropped"
    BY <1>1, <2>1, TakesEffect DEF TypeOK
  <2>. QED BY <1>1, <1>3, <2>1, RouterStepEffect DEF HandleRegister, HandleUnregister, HandleShutdownRouter
<1>4. CASE UNCHANGED inbox
  BY <1>1, <1>4
<1>. QED BY <1>2, <1>3, <1>4 DEF Next, Run, RouterNewAgent, SendFarewell, vars

\* The registration of a live agent is removed only by a Shutdown it is sent.
LEMMA RegistrationStep ==
  ASSUME OneAgentPerAddress, TypeOK, SenderCustody, OnlyDeadUnregister, RouterStep, phase' # "stopped",
         NEW a \in Agents, state[a] = "live", channels[AddressOf[a]] = a
  PROVE  channels'[AddressOf[a]] = a \/ Contains(queue'[a], ShutdownMsg)
<1>1. AddressOf[a] \in Addresses /\ a # NoAgent /\ Alive(a)
  BY AgentsAssumption DEF Alive
<1>2. CASE HandleEnvelope
  <2>. DEFINE m == Head(inbox)
  <2>1. m \in RouterMessage /\ m.kind \in EnvelopeKinds
    BY <1>2, TakesEffect DEF HandleEnvelope, TypeOK
  <2>2. m.to \in Addresses
    BY <2>1, EnvelopesTyped
  <2>. HIDE DEF m
  <2>3. DeliverNoChannel(m) \/ DeliverSent(m) \/ DeliverFailed(m)
    BY <1>2 DEF HandleEnvelope, m
  <2>4. CASE DeliverFailed(m)
    <3>1. m.to # AddressOf[a] /\ channels' = [channels EXCEPT ![m.to] = NoAgent]
      BY <1>1, <2>2, <2>4, UnregisterTyped DEF DeliverFailed
    <3>. QED BY <1>1, <3>1 DEF TypeOK
  <2>. QED BY <2>3, <2>4 DEF DeliverNoChannel, DeliverSent, KeepRegistry
<1>3. ASSUME NEW b \in Agents, HandleRegister(b) PROVE channels'[AddressOf[a]] = a
  BY <1>1, <1>3, AgentsAssumption DEF HandleRegister, TypeOK
<1>4. ASSUME NEW x \in Addresses, HandleUnregister(x) PROVE channels'[AddressOf[a]] = a
  <2>1. x # AddressOf[a]
    <3>1. Takes(Unregister(x))
      BY <1>4 DEF HandleUnregister
    <3>2. 1 \in DOMAIN inbox /\ inbox[1] = Unregister(x)
      BY <3>1, TakesEffect DEF TypeOK
    <3>. QED BY <3>2 DEF OnlyDeadUnregister
  <2>2. channels' = [channels EXCEPT ![x] = NoAgent]
    BY <1>4, UnregisterTyped DEF HandleUnregister
  <2>. QED BY <1>1, <2>1, <2>2 DEF TypeOK
<1>5. ASSUME NEW x \in Addresses, HandleShutdown(x)
      PROVE  channels'[AddressOf[a]] = a \/ Contains(queue'[a], ShutdownMsg)
  <2>1. CASE x = AddressOf[a]
    <3>1. queue'[a] = Append(queue[a], ShutdownMsg)
      BY <1>1, <1>5, <2>1 DEF HandleShutdown, TypeOK
    <3>2. /\ Len(queue'[a]) = Len(queue[a]) + 1 /\ Len(queue[a]) \in Nat
          /\ queue'[a][Len(queue[a]) + 1] = ShutdownMsg
      BY <3>1, MessagesTyped, AppendProperties, LenProperties DEF TypeOK
    <3>. QED BY <3>2 DEF Contains
  <2>2. CASE x # AddressOf[a]
    <3>1. channels' = [channels EXCEPT ![x] = NoAgent]
      BY <1>5, UnregisterTyped DEF HandleShutdown
    <3>. QED BY <1>1, <2>2, <3>1 DEF TypeOK
  <2>. QED BY <2>1, <2>2
<1>. QED BY <1>2, <1>3, <1>4, <1>5 DEF RouterStep, HandleTrack, HandleShutdownRouter, NotifyTracker

\* A Shutdown that is queued stays queued until it is received.
LEMMA QueuedShutdownStays ==
  ASSUME TypeOK, SenderCustody, [Next]_vars, NEW a \in Agents, Contains(queue[a], ShutdownMsg)
  PROVE  Contains(queue'[a], ShutdownMsg) \/ state'[a] # "live"
<1>1. queue[a] \in Seq(AgentMsg) /\ Len(queue[a]) \in Nat
  BY LenProperties DEF TypeOK
<1>2. PICK k \in 1..Len(queue[a]) : queue[a][k] = ShutdownMsg
  BY DEF Contains
<1>3. CASE Recv(a)
  <2>1. queue[a] # <<>> /\ queue'[a] = Tail(queue[a])
    BY <1>3 DEF Recv, TypeOK
  <2>2. /\ Len(queue'[a]) = Len(queue[a]) - 1
        /\ \A i \in 1..(Len(queue[a]) - 1) : queue'[a][i] = queue[a][i + 1]
    BY <1>1, <2>1, HeadTailProperties
  <2>3. CASE k = 1
    <3>1. Head(queue[a]).kind = "AgentShutdown"
      BY <1>2, <2>3 DEF ShutdownMsg
    <3>. QED BY <1>3, <3>1 DEF Recv, TypeOK
  <2>4. CASE k # 1
    <3>1. k - 1 \in 1..Len(queue'[a]) /\ queue'[a][k - 1] = ShutdownMsg
      BY <1>1, <1>2, <2>2, <2>4
    <3>. QED BY <3>1 DEF Contains
  <2>. QED BY <2>3, <2>4
<1>4. CASE RecvClosed(a)
  BY <1>4 DEF RecvClosed, TypeOK
<1>5. CASE queue'[a] = queue[a]
  BY <1>5
<1>6. ASSUME NEW m \in AgentMsg, queue' = [queue EXCEPT ![a] = Append(queue[a], m)]
      PROVE  Contains(queue'[a], ShutdownMsg)
  <2>1. queue'[a] = Append(queue[a], m)
    BY <1>6 DEF TypeOK
  <2>2. Len(queue'[a]) = Len(queue[a]) + 1 /\ queue'[a][k] = ShutdownMsg
    BY <1>1, <1>2, <2>1, AppendProperties
  <2>. QED BY <1>1, <1>2, <2>2 DEF Contains
<1>. QED BY <1>3, <1>4, <1>5, <1>6, ChannelStep

\* With an address per agent, no step takes the registration of a live agent away.
LEMMA NoEvictionStep ==
  ASSUME OneAgentPerAddress, TypeOK, SenderCustody, OnlyDeadUnregister, NoEviction, [Next]_vars
  PROVE  NoEviction'
<1>. SUFFICES ASSUME phase' # "stopped", NEW a \in Agents, state'[a] = "live"
              PROVE  channels'[AddressOf[a]] = a \/ Contains(queue'[a], ShutdownMsg)
  BY DEF NoEviction
<1>1. AddressOf[a] \in Addresses /\ a # NoAgent
  BY AgentsAssumption
<1>2. ASSUME state[a] = "live", phase # "stopped", channels' = channels
      PROVE  channels'[AddressOf[a]] = a \/ Contains(queue'[a], ShutdownMsg)
  BY <1>2, QueuedShutdownStays DEF NoEviction
<1>3. ASSUME NEW p \in Agents, AgentStep(p)
      PROVE  state[a] = "live" /\ phase # "stopped" /\ channels' = channels
  BY <1>3, AgentStepEffect DEF NewAgent, Dropped, Recv, RecvClosed, TypeOK
<1>4. CASE RouterStep
  <2>1. phase # "stopped"
    <3>1. (\E b \in Agents : HandleRegister(b)) \/ (\E x \in Addresses : HandleUnregister(x)) => phase' = phase
      BY DEF HandleRegister, HandleUnregister
    <3>. QED BY <1>4, <3>1, RouterStepEffect DEF HandleShutdownRouter
  <2>2. CASE state[a] = "live"
    BY <1>4, <2>1, <2>2, RegistrationStep, QueuedShutdownStays DEF NoEviction
  <2>3. CASE state[a] # "live"
    <3>1. PICK b \in Agents : HandleRegister(b)
      BY <1>4, <2>3, RouterStepEffect
    <3>2. b = a /\ state[a] = "registering" /\ channels[AddressOf[a]] = NoAgent
      BY <2>3, <3>1 DEF HandleRegister, TypeOK
    <3>. QED BY <1>1, <3>1, <3>2 DEF HandleRegister, TypeOK
  <2>. QED BY <2>2, <2>3
<1>5. CASE Run \/ UNCHANGED vars
  BY <1>2, <1>5 DEF Run, vars, agentVars
<1>6. ASSUME NEW c \in Agents, RouterNewAgent(c)
      PROVE  channels'[AddressOf[a]] = a \/ Contains(queue'[a], ShutdownMsg)
  <2>1. CASE c = a
    BY <1>1, <1>6, <2>1 DEF RouterNewAgent, TypeOK
  <2>2. CASE c # a
    <3>1. state[a] = "live" /\ phase # "stopped" /\ channels'[AddressOf[a]] = channels[AddressOf[a]]
      BY <1>6, <2>2 DEF RouterNewAgent, TypeOK, OneAgentPerAddress
    <3>. QED BY <3>1, QueuedShutdownStays DEF NoEviction
  <2>. QED BY <2>1, <2>2
<1>7. ASSUME NEW c \in Agents, SendFarewell(c)
      PROVE  state[a] = "live" /\ phase # "stopped" /\ channels' = channels
  BY <1>7 DEF SendFarewell
<1>. QED BY <1>2, <1>3, <1>4, <1>5, <1>6, <1>7 DEF Next

\* With one agent per address, a live agent stays registered until it is sent a
\* Shutdown, whatever is dropped, cancelled or refused around it; the run
\* RouterEviction shows that the condition on the addresses is needed.
THEOREM NoEvictionCorrect ==
  ASSUME OneAgentPerAddress
  PROVE  Spec => []NoEviction
<1>1. Init => NoEviction /\ OnlyDeadUnregister
  BY DEF Init, NoEviction, OnlyDeadUnregister
<1>2. TypeOK /\ SenderCustody /\ OnlyDeadUnregister /\ NoEviction /\ [Next]_vars
        => (OnlyDeadUnregister /\ NoEviction)'
  BY OnlyDeadStep, NoEvictionStep
<1>. QED BY <1>1, <1>2, CustodyCorrect, PTL DEF Spec
=============================================================================

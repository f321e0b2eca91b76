---------------------------- MODULE ServerProofs ----------------------------
(***************************************************************************)
(* Proofs about Server: whatever the peers, the listener and the readers   *)
(* do, it is a program of Router's agents, so that all that is proved of   *)
(* Router holds; and a reader that has ended has had its connection shut   *)
(* down.                                                                   *)
(***************************************************************************)
EXTENDS Server, RouterOrderProofs, FiniteSetTheorems

-----------------------------------------------------------------------------
(* The refinement                                                          *)

\* The agents and addresses of a server are those of its router.
LEMMA ServerConstants ==
  /\ ServerAgent \in Agents /\ Readers \subseteq Agents /\ Apps \subseteq Agents /\ Targets \subseteq Addresses
  /\ \A a \in Agents : AddressOf[a] \in Addresses
  BY AgentsAssumption, ServerAssumption DEF Apps

\* A step of a reader, of a connection's task or of its peer.
LEMMA ConnectionStepMaps ==
  ASSUME NEW c \in Readers, ReaderStep(c) \/ TimedOut(c) \/ TaskStep(c) \/ PeerStep(c)
  PROVE  AgentStep(c) \/ UNCHANGED vars
<1>. c \in Agents /\ Targets \subseteq Addresses
  BY ServerConstants
<1>1. CASE ReadMessage(c)
  BY <1>1 DEF ReadMessage, Reads, AgentStep
<1>2. CASE EndReader(c)
  BY <1>2 DEF EndReader, AgentStep
<1>3. CASE TaskRecv(c) \/ TaskClosed(c) \/ EndTask(c)
  BY <1>3 DEF TaskRecv, TaskClosed, EndTask, AgentStep
<1>4. CASE ReadIgnored(c) \/ ReadUnset(c) \/ Written(c) \/ WriteFailed(c)
  BY <1>4 DEF ReadIgnored, ReadUnset, Written, WriteFailed
<1>5. CASE PeerStep(c)
  BY <1>5 DEF PeerStep, PeerSends, PeerReads, PeerSeesEnd, LinkEnds
<1>. QED BY <1>1, <1>2, <1>3, <1>4, <1>5 DEF ReaderStep, ReadEnds, TimedOut, TaskStep

\* A step of the server around one connection.
LEMMA ServerStepMaps ==
  ASSUME NEW c \in Readers, Accept(c) \/ Registered(c) \/ Refused(c)
  PROVE  (\E a \in Agents : AgentStep(a)) \/ UNCHANGED vars
<1>. c \in Agents /\ ServerAgent \in Agents
  BY ServerConstants
<1>1. CASE Accept(c)
  BY <1>1 DEF Accept, AgentStep, Call
<1>2. CASE Refused(c)
  BY <1>2 DEF Refused, AgentStep
<1>. QED BY <1>1, <1>2 DEF Registered

\* What an application does is a step of its agent.
LEMMA AppStepMaps ==
  ASSUME NEW b \in Apps, AppCall(b) \/ AppRecv(b)
  PROVE  AgentStep(b)
<1>. b \in Agents /\ Readers \subseteq Agents /\ ServerAgent \in Agents /\ \A a \in Agents : AddressOf[a] \in Addresses
  BY ServerConstants
<1>1. CASE AppRecv(b)
  BY <1>1 DEF AppRecv, AgentStep
<1>2. CASE AppCall(b)
  <2>1. CASE \E a \in Agents : Send(b, AddressOf[a]) \/ SendShutdown(b, AddressOf[a])
    BY <2>1 DEF AgentStep, Call
  <2>2. CASE SendShutdownRouter(b)
    BY <2>2 DEF AgentStep, Call
  <2>. QED BY <1>2, <2>1, <2>2 DEF AppCall
<1>. QED BY <1>1, <1>2

\* Every step of the server's program is one of Router or leaves it alone.
LEMMA StepMaps ==
  ASSUME [ServerNext]_serverVars
  PROVE  [Next]_vars
<1>. ServerAgent \in Agents /\ Readers \subseteq Agents /\ Apps \subseteq Agents
  BY ServerConstants
<1>1. (\E a \in Agents : AgentStep(a)) => Next
  BY DEF Next
<1>2. CASE Routing
  BY <1>2 DEF Routing, Next
<1>3. CASE ServerTold \/ EndServer
  BY <1>1, <1>3 DEF ServerTold, EndServer, AgentStep
<1>4. CASE AcceptFailed
  BY <1>4 DEF AcceptFailed
<1>5. ASSUME NEW c \in Readers, Accept(c) \/ Registered(c) \/ Refused(c) PROVE [Next]_vars
  BY <1>1, <1>5, ServerStepMaps
<1>6. ASSUME NEW c \in Readers, ReaderStep(c) \/ TimedOut(c) \/ TaskStep(c) \/ PeerStep(c) PROVE [Next]_vars
  BY <1>1, <1>6, ConnectionStepMaps
<1>7. ASSUME NEW b \in Apps, AppCall(b) \/ AppRecv(b) PROVE [Next]_vars
  BY <1>1, <1>7, AppStepMaps
<1>8. CASE UNCHANGED serverVars
  BY <1>8 DEF serverVars
<1>. QED BY <1>2, <1>3, <1>4, <1>5, <1>6, <1>7, <1>8 DEF ServerNext, ServerStep

\* The server's tasks are agents as the router knows them, for any number of
\* connections, any addresses and whatever the peers write (server.rs).
THEOREM ServerImplementsRouter == ServerSpec => ImplementsRouter
<1>1. ServerInit => Init
  BY DEF ServerInit
<1>2. [ServerNext]_serverVars => [Next]_vars
  BY StepMaps
<1>. QED BY <1>1, <1>2, PTL DEF ServerSpec, ImplementsRouter, Spec

\* So Router's theorems hold of a server's program: the sender of a connection's
\* channel is never copied, a Shutdown is the last thing a connection receives,
\* and a dropped connection does not stay registered.
THEOREM ServerKeepsCustody == ServerSpec => [](TypeOK /\ SenderCustody)
  BY ServerImplementsRouter, CustodyCorrect, PTL DEF ImplementsRouter

\* Router's ShutdownIsFinal and DeadIsReaped, of the connections of a server.
THEOREM ServerReapsTheDead == ServerSpec => [](ShutdownIsFinal /\ DeadIsReaped)
  BY ServerImplementsRouter, ShutdownCorrect, ReapedCorrect, PTL DEF ImplementsRouter

\* And the order of messages and the tracking of addresses.
THEOREM ServerKeepsOrder == ServerSpec => [](Ordered /\ NoDuplicateTracking)
  BY ServerImplementsRouter, OrderedCorrect, NoDuplicateTrackingCorrect, PTL DEF ImplementsRouter

\* With an address per agent, no live connection is unregistered but by a Shutdown
\* that it is sent: a dropped connection's Unregister, which names an address, hits
\* nobody else however late it is handled.
THEOREM ServerNoEviction ==
  ASSUME OneAgentPerAddress
  PROVE  ServerSpec => []NoEviction
  BY ServerImplementsRouter, NoEvictionCorrect, PTL DEF ImplementsRouter

-----------------------------------------------------------------------------
(* A reader that has ended has had its connection shut down                *)

\* No Register of a is on its way: a is registered, or was, or never will be.
Settled(a) == state[a] # "new" /\ \A i \in DOMAIN inbox : inbox[i] # Register(a)

ShutDown(a) ==
  \/ channels[AddressOf[a]] # a
  \/ \E i \in DOMAIN inbox : inbox[i] = Shutdown(AddressOf[a])

\* A router that has stopped never runs again.
LEMMA StoppedStays ==
  ASSUME TypeOK, [Next]_vars, phase = "stopped"
  PROVE  phase' = "stopped"
<1>1. ASSUME NEW p \in Agents, AgentStep(p) PROVE phase' = phase
  BY <1>1, AgentStepEffect DEF NewAgent, Dropped, Recv, RecvClosed
<1>2. CASE RouterStep
  <2>1. (\E b \in Agents : HandleRegister(b)) \/ (\E x \in Addresses : HandleUnregister(x)) => phase' = phase
    BY DEF HandleRegister, HandleUnregister
  <2>. QED BY <1>2, <2>1, RouterStepEffect DEF HandleShutdownRouter
<1>3. CASE UNCHANGED vars
  BY <1>3 DEF vars
<1>. QED BY <1>1, <1>2, <1>3 DEF Next, Run, RouterNewAgent, SendFarewell

\* What a send keeps: every message there is, and nobody is registered anew.
LEMMA SettledTell ==
  ASSUME TypeOK, NEW a \in Agents, NEW m \in RouterMessage, m # Register(a), Tell(m),
         UNCHANGED channels, state[a] # "new" => state'[a] # "new"
  PROVE  /\ Settled(a) => Settled(a)'
         /\ ShutDown(a) => ShutDown(a)'
<1>1. /\ \A i \in DOMAIN inbox : i \in DOMAIN inbox' /\ inbox'[i] = inbox[i]
      /\ \A i \in DOMAIN inbox' : inbox'[i] = Register(a) => i \in DOMAIN inbox /\ inbox[i] = Register(a)
  BY TellEffect DEF TypeOK
<1>. QED BY <1>1 DEF Settled, ShutDown

\* What the router's taking a message keeps, unless that is the Shutdown itself:
\* with that, the registration goes.
LEMMA SettledTake ==
  ASSUME TypeOK, NEW a \in Agents, NEW m, Takes(m), Settled(a),
         state'[a] # "new",
         channels'[AddressOf[a]] = a => channels[AddressOf[a]] = a /\ m # Shutdown(AddressOf[a])
  PROVE  /\ Settled(a)'
         /\ ShutDown(a) => ShutDown(a)'
<1>1. /\ 1 \in DOMAIN inbox /\ inbox[1] = m
      /\ \A i \in DOMAIN inbox \ {1} : i - 1 \in DOMAIN inbox' /\ inbox'[i - 1] = inbox[i]
      /\ \A i \in DOMAIN inbox' : i + 1 \in DOMAIN inbox /\ inbox'[i] = inbox[i + 1]
  BY TakesEffect DEF TypeOK
<1>2. Settled(a)'
  BY <1>1 DEF Settled
<1>3. ASSUME ShutDown(a), channels'[AddressOf[a]] = a PROVE \E i \in DOMAIN inbox' : inbox'[i] = Shutdown(AddressOf[a])
  BY <1>1, <1>3 DEF ShutDown
<1>. QED BY <1>2, <1>3 DEF ShutDown

\* The router's steps by the message they take, for one that is settled.
LEMMA SettledRouterStep ==
  ASSUME TypeOK, RouterStep, NEW a \in Agents, Settled(a)
  PROVE  /\ Settled(a)'
         /\ ShutDown(a) => ShutDown(a)'
<1>1. AddressOf[a] \in Addresses /\ a # NoAgent
  BY AgentsAssumption
<1>2. ASSUME NEW m, Takes(m), UNCHANGED state,
             channels'[AddressOf[a]] = a => channels[AddressOf[a]] = a /\ m # Shutdown(AddressOf[a])
      PROVE  Settled(a)' /\ (ShutDown(a) => ShutDown(a)')
  BY <1>2, SettledTake DEF Settled
<1>3. CASE HandleEnvelope
  <2>. DEFINE m == Head(inbox)
  <2>1. m \in RouterMessage /\ m.kind \in EnvelopeKinds /\ Takes(m)
    BY <1>3, TakesEffect DEF HandleEnvelope, TypeOK
  <2>2. m.to \in Addresses
    BY <2>1, EnvelopesTyped
  <2>. HIDE DEF m
  <2>3. (DeliverNoChannel(m) \/ DeliverSent(m) \/ DeliverFailed(m)) /\ UNCHANGED state
    BY <1>3 DEF HandleEnvelope, m
  <2>4. channels' = channels \/ channels' = [channels EXCEPT ![m.to] = NoAgent]
    BY <2>2, <2>3, UnregisterTyped DEF DeliverNoChannel, DeliverSent, DeliverFailed, KeepRegistry
  <2>5. channels'[AddressOf[a]] = a => channels[AddressOf[a]] = a
    BY <1>1, <2>4 DEF TypeOK
  <2>6. m # Shutdown(AddressOf[a])
    BY <2>1, MessagesDiffer DEF EnvelopeKinds
  <2>. QED BY <1>2, <2>1, <2>3, <2>5, <2>6
<1>4. ASSUME NEW b \in Agents, HandleRegister(b) PROVE Settled(a)' /\ (ShutDown(a) => ShutDown(a)')
  <2>1. Takes(Register(b)) /\ 1 \in DOMAIN inbox /\ inbox[1] = Register(b)
    BY <1>4, TakesEffect DEF HandleRegister, TypeOK
  <2>2. b # a
    BY <2>1 DEF Settled
  <2>3. state'[a] = state[a] /\ (channels'[AddressOf[a]] = a => channels[AddressOf[a]] = a)
    BY <1>1, <1>4, <2>2, AgentsAssumption DEF HandleRegister, TypeOK
  <2>4. Register(b) # Shutdown(AddressOf[a])
    BY MessagesDiffer
  <2>. QED BY <2>1, <2>3, <2>4, SettledTake DEF Settled
<1>5. ASSUME NEW x \in Addresses, NEW y \in Addresses, HandleTrack(x, y)
      PROVE  Settled(a)' /\ (ShutDown(a) => ShutDown(a)')
  <2>1. Takes(Track(x, y)) /\ UNCHANGED <<state, channels>> /\ Track(x, y) # Shutdown(AddressOf[a])
    BY <1>5, MessagesDiffer DEF HandleTrack, agentVars
  <2>. QED BY <1>2, <2>1
<1>6. ASSUME NEW x \in Addresses, HandleUnregister(x) PROVE Settled(a)' /\ (ShutDown(a) => ShutDown(a)')
  <2>1. /\ Takes(Unregister(x)) /\ UNCHANGED state /\ Unregister(x) # Shutdown(AddressOf[a])
        /\ channels' = [channels EXCEPT ![x] = NoAgent]
    BY <1>6, MessagesDiffer, UnregisterTyped DEF HandleUnregister, agentVars
  <2>2. channels'[AddressOf[a]] = a => channels[AddressOf[a]] = a
    BY <1>1, <2>1 DEF TypeOK
  <2>. QED BY <1>2, <2>1, <2>2
<1>7. ASSUME NEW x \in Addresses, HandleShutdown(x) PROVE Settled(a)' /\ (ShutDown(a) => ShutDown(a)')
  <2>1. Takes(Shutdown(x)) /\ UNCHANGED state /\ channels' = [channels EXCEPT ![x] = NoAgent]
    BY <1>7, UnregisterTyped DEF HandleShutdown
  <2>2. channels'[AddressOf[a]] = a => channels[AddressOf[a]] = a /\ x # AddressOf[a]
    BY <1>1, <2>1 DEF TypeOK
  <2>3. x # AddressOf[a] => Shutdown(x) # Shutdown(AddressOf[a])
    BY DEF Shutdown
  <2>. QED BY <1>2, <2>1, <2>2, <2>3
<1>8. CASE HandleShutdownRouter
  <2>1. Takes(ShutdownRouter) /\ UNCHANGED state /\ channels'[AddressOf[a]] # a
    BY <1>1, <1>8 DEF HandleShutdownRouter, agentVars
  <2>. QED BY <1>2, <2>1
<1>9. CASE NotifyTracker
  BY <1>9 DEF NotifyTracker, Settled, ShutDown
<1>. QED BY <1>3, <1>4, <1>5, <1>6, <1>7, <1>8, <1>9 DEF RouterStep

\* No step registers again an agent that is settled, nor takes its Shutdown away
\* but with its registration.
LEMMA SettledStep ==
  ASSUME TypeOK, [Next]_vars, NEW a \in Agents, Settled(a)
  PROVE  /\ Settled(a)'
         /\ ShutDown(a) => ShutDown(a)'
<1>1. ASSUME NEW p \in Agents, AgentStep(p) PROVE Settled(a)' /\ (ShutDown(a) => ShutDown(a)')
  <2>1. CASE UNCHANGED <<phase, inbox, channels, farewell, state, queue>> \/ Recv(p) \/ RecvClosed(p)
    BY <2>1 DEF Recv, RecvClosed, Settled, ShutDown, TypeOK
  <2>2. CASE \E m \in RouterMessage : m.kind \notin {"Register", "Unregister"} /\ Tell(m)
             /\ UNCHANGED <<phase, channels, farewell, state, queue>>
    BY <2>2, MessagesDiffer, SettledTell
  <2>3. ASSUME NEW c \in Agents, NewAgent(p, c) PROVE Settled(a)' /\ (ShutDown(a) => ShutDown(a)')
    <3>1. c # a /\ Tell(Register(c)) /\ UNCHANGED channels /\ state'[a] = state[a]
      BY <2>3 DEF NewAgent, Settled, TypeOK
    <3>2. Register(c) # Register(a)
      BY <3>1, MessagesDiffer
    <3>. QED BY <3>1, <3>2, MessagesTyped, SettledTell
  <2>4. CASE Dropped(p)
    <3>1. Unregister(AddressOf[p]) \in RouterMessage /\ Unregister(AddressOf[p]) # Register(a)
      BY MessagesTyped, MessagesDiffer, AgentsAssumption
    <3>2. state[a] # "new" => state'[a] # "new"
      BY <2>4 DEF Dropped, TypeOK
    <3>. QED BY <2>4, <3>1, <3>2, SettledTell DEF Dropped
  <2>. QED BY <1>1, <2>1, <2>2, <2>3, <2>4, AgentStepEffect
<1>2. CASE RouterStep
  BY <1>2, SettledRouterStep
<1>3. CASE Run \/ UNCHANGED vars
  BY <1>3 DEF Run, vars, agentVars, Settled, ShutDown
<1>4. ASSUME NEW c \in Agents, RouterNewAgent(c) PROVE Settled(a)' /\ (ShutDown(a) => ShutDown(a)')
  <2>1. c # a /\ inbox' = inbox
    BY <1>4 DEF RouterNewAgent, Settled
  <2>2. state'[a] = state[a] /\ (channels'[AddressOf[a]] = a => channels[AddressOf[a]] = a)
    BY <1>4, <2>1, AgentsAssumption DEF RouterNewAgent, TypeOK
  <2>. QED BY <2>1, <2>2 DEF Settled, ShutDown
<1>5. ASSUME NEW c \in Agents, SendFarewell(c) PROVE Settled(a)' /\ (ShutDown(a) => ShutDown(a)')
  BY <1>5 DEF SendFarewell, Settled, ShutDown
<1>. QED BY <1>1, <1>2, <1>3, <1>4, <1>5 DEF Next

\* What can happen to a reader.
LEMMA ReaderChange ==
  ASSUME reader \in [Readers -> {"none", "run", "done", "panicked"}], [ServerNext]_serverVars
  PROVE  /\ reader' \in [Readers -> {"none", "run", "done", "panicked"}]
         /\ \A c \in Readers :
              reader'[c] = reader[c] \/ Registered(c) \/ (reader[c] = "run" /\ EndReader(c))
                \/ (reader[c] = "run" /\ reader'[c] = "panicked")
<1>. DEFINE Goal == /\ reader' \in [Readers -> {"none", "run", "done", "panicked"}]
                    /\ \A c \in Readers :
                         reader'[c] = reader[c] \/ Registered(c) \/ (reader[c] = "run" /\ EndReader(c))
                           \/ (reader[c] = "run" /\ reader'[c] = "panicked")
<1>1. ASSUME UNCHANGED reader PROVE Goal
  BY <1>1
<1>2. ASSUME NEW d \in Readers, Registered(d) \/ (reader[d] = "run" /\ EndReader(d)) PROVE Goal
  BY <1>2 DEF Registered, EndReader
<1>3. ASSUME NEW d \in Readers, ReadUnset(d) PROVE Goal
  BY <1>3 DEF ReadUnset, Reads
<1>. HIDE DEF Goal
<1>4. ASSUME NEW d \in Readers, ReaderStep(d) \/ TimedOut(d) \/ TaskStep(d) \/ PeerStep(d) PROVE Goal
  <2>1. CASE ReadMessage(d) \/ ReadIgnored(d)
    BY <1>1, <2>1 DEF ReadMessage, ReadIgnored, tasks
  <2>2. CASE ReadEnds(d) \/ TimedOut(d)
    BY <1>2, <2>2 DEF ReadEnds, TimedOut
  <2>3. CASE TaskRecv(d) \/ TaskClosed(d) \/ Written(d) \/ WriteFailed(d) \/ EndTask(d)
    BY <1>1, <2>3 DEF TaskRecv, TaskClosed, Written, WriteFailed, EndTask, tasks
  <2>4. CASE PeerStep(d)
    BY <1>1, <2>4 DEF PeerStep, PeerSends, PeerReads, PeerSeesEnd, LinkEnds, tasks
  <2>. QED BY <1>3, <1>4, <2>1, <2>2, <2>3, <2>4 DEF ReaderStep, TaskStep
<1>5. ASSUME NEW d \in Readers, Accept(d) \/ Registered(d) \/ Refused(d) PROVE Goal
  BY <1>1, <1>2, <1>5 DEF Accept, Refused
<1>6. ASSUME NEW b \in Apps, AppCall(b) \/ AppRecv(b) PROVE Goal
  BY <1>1, <1>6 DEF AppCall, AppRecv, tasks
<1>7. ASSUME Routing \/ ServerTold \/ EndServer \/ AcceptFailed \/ UNCHANGED serverVars PROVE Goal
  BY <1>1, <1>7 DEF Routing, ServerTold, EndServer, AcceptFailed, serverVars, tasks
<1>8. Goal
  BY <1>4, <1>5, <1>6, <1>7 DEF ServerNext, ServerStep
<1>. QED BY <1>8 DEF Goal

\* The strengthening of ReaderReaps: a connection that has a reader is settled.
ReadersSettled ==
  /\ reader \in [Readers -> {"none", "run", "done", "panicked"}]
  /\ \A c \in Readers : reader[c] # "none" => Settled(c)

\* Every step leaves what a reader was started for registered for good or not at all.
LEMMA ReadersSettledStep ==
  ASSUME TypeOK, SenderCustody, ReadersSettled, [ServerNext]_serverVars
  PROVE  ReadersSettled'
<1>1. [Next]_vars
  BY StepMaps
<1>. SUFFICES ASSUME NEW c \in Readers, reader'[c] # "none" PROVE Settled(c)'
  BY ReaderChange DEF ReadersSettled
<1>2. c \in Agents
  BY ServerConstants
<1>3. CASE reader[c] # "none"
  BY <1>1, <1>2, <1>3, SettledStep DEF ReadersSettled
<1>4. CASE reader[c] = "none"
  <2>1. Registered(c)
    BY <1>4, ReaderChange DEF ReadersSettled, Registered
  <2>2. state[c] = "live" /\ UNCHANGED <<state, inbox>>
    BY <2>1 DEF Registered, vars
  <2>3. \A i \in DOMAIN inbox : inbox[i] # Register(c)
    BY <1>2, <2>2 DEF SenderCustody, Custody
  <2>. QED BY <2>2, <2>3 DEF Settled
<1>. QED BY <1>3, <1>4

\* Every step leaves a connection whose reader has ended unregistered, or a Shutdown for it on its way.
LEMMA ReaderReapsStep ==
  ASSUME TypeOK, ReadersSettled, ReaderReaps, [ServerNext]_serverVars
  PROVE  ReaderReaps'
<1>1. [Next]_vars
  BY StepMaps
<1>. SUFFICES ASSUME phase' # "stopped", NEW c \in Readers, reader'[c] = "done" PROVE ShutDown(c)'
  BY DEF ReaderReaps, ShutDown
<1>2. c \in Agents /\ phase # "stopped"
  BY <1>1, ServerConstants, StoppedStays
<1>3. CASE reader[c] = "done"
  <2>1. ShutDown(c) /\ Settled(c)
    BY <1>2, <1>3 DEF ReaderReaps, ReadersSettled, ShutDown
  <2>. QED BY <1>1, <1>2, <2>1, SettledStep
<1>4. CASE reader[c] # "done"
  <2>1. EndReader(c)
    BY <1>4, ReaderChange DEF ReadersSettled, Registered
  <2>2. Tell(Shutdown(AddressOf[c])) /\ Shutdown(AddressOf[c]) \in RouterMessage
    BY <1>2, <2>1, MessagesTyped, ServerConstants DEF EndReader, ReaderShutdown, ReaderPost
  <2>3. Len(inbox) + 1 \in DOMAIN inbox' /\ inbox'[Len(inbox) + 1] = Shutdown(AddressOf[c])
    BY <1>2, <2>2, TellEffect DEF TypeOK
  <2>. QED BY <2>3 DEF ShutDown
<1>. QED BY <1>3, <1>4

\* However a reader ended, by the end of the stream, a failure or a timeout, its
\* connection is not registered any more or will be shut down by a message that
\* is on its way, for any number of connections (server.rs, spawn_reader).
THEOREM ReaderReapsCorrect == ServerSpec => []ReaderReaps
<1>1. ServerInit => ReadersSettled /\ ReaderReaps
  BY DEF ServerInit, ReadersSettled, ReaderReaps
<1>2. /\ TypeOK /\ SenderCustody /\ ReadersSettled /\ ReaderReaps /\ [ServerNext]_serverVars
      => (ReadersSettled /\ ReaderReaps)'
  BY ReadersSettledStep, ReaderReapsStep
<1>. QED BY <1>1, <1>2, ServerKeepsCustody, PTL DEF ServerSpec

-----------------------------------------------------------------------------
(* The types, and the posts owed to the readers                            *)

Running == {c \in Readers : reader[c] \in {"none", "run"}}
Waiting == {c \in Readers : inbound[c] # <<>>}

\* The types of the server's own variables.
SocketsTyped ==
  /\ server \in {"accept", "registering", "ending"}
  /\ reader \in [Readers -> {"none", "run", "done", "panicked"}]
  /\ task \in [Readers -> {"none", "recv", "write", "ending"}]
  /\ inbound \in [Readers -> Seq(Frames)] /\ \A c \in Readers : Len(inbound[c]) <= 1
  /\ unread \in [Readers -> 0..OutRoom]
  /\ link \in [Readers -> {"none", "open", "closed", "broken"}]

\* What the readers owe is a number.
LEMMA OwedTyped ==
  /\ IsFiniteSet(Running) /\ IsFiniteSet(Waiting)
  /\ Cardinality(Running) \in Nat /\ Cardinality(Waiting) \in Nat
  /\ Owed = Cardinality(Running) + Cardinality(Waiting) /\ Owed \in Nat
<1>1. IsFiniteSet(Readers) /\ Running \subseteq Readers /\ Waiting \subseteq Readers
  BY ServerAssumption DEF Running, Waiting
<1>2. IsFiniteSet(Running) /\ IsFiniteSet(Waiting)
  BY <1>1, FS_Subset
<1>3. Cardinality(Running) \in Nat /\ Cardinality(Waiting) \in Nat
  BY <1>2, FS_CardinalityType
<1>4. Owed = Cardinality(Running) + Cardinality(Waiting)
  BY DEF Owed, Running, Waiting
<1>. QED BY <1>2, <1>3, <1>4

\* And so it is after a step.
LEMMA OwedPrimed ==
  /\ Cardinality(Running') \in Nat /\ Cardinality(Waiting') \in Nat
  /\ Owed' = Cardinality(Running') + Cardinality(Waiting')
<1>1. IsFiniteSet(Readers) /\ Running' \subseteq Readers /\ Waiting' \subseteq Readers
  BY ServerAssumption DEF Running, Waiting
<1>2. IsFiniteSet(Running') /\ IsFiniteSet(Waiting')
  BY <1>1, FS_Subset
<1>3. Cardinality(Running') \in Nat /\ Cardinality(Waiting') \in Nat
  BY <1>2, FS_CardinalityType
<1>. QED BY <1>3 DEF Owed, Running, Waiting

\* A set that loses an element and gains none is smaller.
LEMMA Smaller ==
  ASSUME NEW S, NEW T, IsFiniteSet(S), T \subseteq S
  PROVE  /\ Cardinality(T) <= Cardinality(S)
         /\ \A x \in S : x \notin T => Cardinality(T) <= Cardinality(S) - 1
<1>1. ASSUME NEW x \in S, x \notin T PROVE Cardinality(T) <= Cardinality(S) - 1
  <2>1. IsFiniteSet(S \ {x}) /\ Cardinality(S \ {x}) = Cardinality(S) - 1
    BY FS_RemoveElement
  <2>2. T \in SUBSET (S \ {x})
    BY <1>1
  <2>. QED BY <2>1, <2>2, FS_Subset
<1>. QED BY <1>1, FS_Subset

\* A step that makes no reader owe more, and a post that pays what one is owed.
LEMMA OwedPaid ==
  ASSUME Running' \subseteq Running, Waiting' \subseteq Waiting, posts \in Nat, posts + Owed <= MaxPosts,
         \/ posts' = posts
         \/ posts' = posts + 1 /\ (Running' # Running \/ Waiting' # Waiting)
  PROVE  posts' + Owed' <= MaxPosts
<1>1. /\ IsFiniteSet(Running) /\ IsFiniteSet(Waiting)
      /\ Cardinality(Running) \in Nat /\ Cardinality(Waiting) \in Nat
      /\ Owed = Cardinality(Running) + Cardinality(Waiting)
  BY OwedTyped
<1>2. /\ Cardinality(Running') \in Nat /\ Cardinality(Waiting') \in Nat
      /\ Owed' = Cardinality(Running') + Cardinality(Waiting')
  BY OwedPrimed
<1>3. /\ Cardinality(Running') <= Cardinality(Running)
      /\ Running' # Running => Cardinality(Running') <= Cardinality(Running) - 1
  BY <1>1, Smaller
<1>4. /\ Cardinality(Waiting') <= Cardinality(Waiting)
      /\ Waiting' # Waiting => Cardinality(Waiting') <= Cardinality(Waiting) - 1
  BY <1>1, Smaller
<1>5. MaxPosts \in Nat
  BY AgentsAssumption
<1>. QED BY <1>1, <1>2, <1>3, <1>4, <1>5

\* Steps that post nothing and leave reader and inbound alone.
LEMMA QuietSteps ==
  /\ Routing \/ ServerTold \/ EndServer \/ AcceptFailed => UNCHANGED <<posts, reader, inbound>>
  /\ \A c \in Readers : Accept(c) \/ Refused(c) \/ TaskStep(c) => UNCHANGED <<posts, reader, inbound>>
  /\ \A b \in Apps : AppRecv(b) => UNCHANGED <<posts, reader, inbound>>
<1>1. RouterStep => posts' = posts
  BY DEF RouterStep, HandleEnvelope, HandleRegister, HandleTrack, HandleUnregister, HandleShutdown,
         HandleShutdownRouter, NotifyTracker
<1>2. Routing => posts' = posts
  BY <1>1 DEF Routing, Run, RouterNewAgent, SendFarewell
<1>3. \A a \in Agents : Recv(a) \/ RecvClosed(a) \/ Dropped(a) \/ (\E p \in Agents : NewAgent(p, a))
                          => posts' = posts
  BY DEF Recv, RecvClosed, Dropped, NewAgent
<1>4. ServerAgent \in Agents /\ Readers \subseteq Agents /\ Apps \subseteq Agents
  BY ServerConstants
<1>5. Routing \/ ServerTold \/ EndServer \/ AcceptFailed => UNCHANGED <<posts, reader, inbound>>
  BY <1>2, <1>3, <1>4 DEF Routing, ServerTold, EndServer, AcceptFailed, DropAgent, tasks, sockets, vars
<1>6. ASSUME NEW c \in Readers, Accept(c) \/ Refused(c) \/ TaskStep(c)
      PROVE  UNCHANGED <<posts, reader, inbound>>
  BY <1>3, <1>4, <1>6 DEF Accept, Refused, RegisterFailed, TaskStep, TaskRecv, TaskClosed, Written,
                           WriteFailed, EndTask, DropAgent, tasks, sockets, vars
<1>7. ASSUME NEW b \in Apps, AppRecv(b) PROVE UNCHANGED <<posts, reader, inbound>>
  BY <1>3, <1>4, <1>7 DEF AppRecv, tasks, sockets
<1>. QED BY <1>5, <1>6, <1>7

\* What is left unread after the one frame of a socket was taken.
LEMMA TailOfOne ==
  ASSUME NEW s \in Seq(Frames), s # <<>>, Len(s) <= 1
  PROVE  Tail(s) = <<>>
<1>1. Tail(s) \in Seq(Frames) /\ Len(Tail(s)) = Len(s) - 1 /\ Len(s) \in Nat
  BY HeadTailProperties, LenProperties
<1>2. Len(Tail(s)) \in Nat
  BY <1>1, LenProperties
<1>3. Len(Tail(s)) = 0
  BY <1>1, <1>2
<1>. QED BY <1>1, <1>3, EmptySeq

\* A step keeps within the bound what is posted and what is still owed.
LEMMA BudgetStep ==
  ASSUME TypeOK, SocketsTyped, posts + Owed <= MaxPosts, [ServerNext]_serverVars
  PROVE  posts' + Owed' <= MaxPosts
<1>. DEFINE Goal == posts' + Owed' <= MaxPosts
<1>1. posts \in Nat /\ MaxPosts \in Nat
  BY AgentsAssumption DEF TypeOK
<1>2. ASSUME UNCHANGED <<posts, reader, inbound>> PROVE Goal
  <2>1. Running' = Running /\ Waiting' = Waiting
    BY <1>2 DEF Running, Waiting
  <2>. QED BY <1>1, <1>2, <2>1, OwedPaid
<1>3. ASSUME NEW c \in Readers, Registered(c) PROVE Goal
  <2>1. posts' = posts /\ inbound' = inbound /\ reader' = [reader EXCEPT ![c] = "run"] /\ reader[c] = "none"
    BY <1>3 DEF Registered, sockets, vars
  <2>2. Running' \subseteq Running /\ Waiting' \subseteq Waiting
    BY <2>1 DEF Running, Waiting, SocketsTyped
  <2>. QED BY <1>1, <2>1, <2>2, OwedPaid
<1>4. ASSUME NEW c \in Readers, reader[c] = "run", EndReader(c) PROVE Goal
  <2>1. reader' = [reader EXCEPT ![c] = "done"] /\ inbound' = [inbound EXCEPT ![c] = <<>>]
    BY <1>4 DEF EndReader
  <2>2. posts' = posts \/ posts' = posts + 1
    BY <1>4 DEF EndReader, ReaderShutdown, ReaderPost, vars
  <2>3. Running' \subseteq Running /\ c \in Running /\ c \notin Running' /\ Waiting' \subseteq Waiting
    BY <1>4, <2>1 DEF Running, Waiting, SocketsTyped
  <2>. QED BY <1>1, <2>2, <2>3, OwedPaid
<1>5. ASSUME NEW c \in Readers, ReadMessage(c) PROVE Goal
  <2>1. /\ inbound' = [inbound EXCEPT ![c] = Tail(inbound[c])] /\ reader' = reader
        /\ inbound[c] # <<>> /\ posts' = posts + 1
    BY <1>5 DEF ReadMessage, Reads, tasks, ReaderSend, ReaderPost
  <2>2. Tail(inbound[c]) = <<>>
    BY <2>1, TailOfOne DEF SocketsTyped
  <2>3. Running' = Running /\ Waiting' \subseteq Waiting /\ c \in Waiting /\ c \notin Waiting'
    BY <2>1, <2>2 DEF Running, Waiting, SocketsTyped
  <2>. QED BY <1>1, <2>1, <2>3, OwedPaid
<1>6. ASSUME NEW c \in Readers, ReadIgnored(c) PROVE Goal
  <2>1. /\ inbound' = [inbound EXCEPT ![c] = Tail(inbound[c])] /\ reader' = reader
        /\ inbound[c] # <<>> /\ posts' = posts
    BY <1>6 DEF ReadIgnored, Reads, tasks, vars
  <2>2. Running' = Running /\ Waiting' \subseteq Waiting
    BY <2>1 DEF Running, Waiting, SocketsTyped
  <2>. QED BY <1>1, <2>1, <2>2, OwedPaid
<1>7. ASSUME NEW c \in Readers, ReadUnset(c) PROVE Goal
  <2>1. /\ inbound' = [inbound EXCEPT ![c] = <<>>] /\ reader' = [reader EXCEPT ![c] = "panicked"]
        /\ posts' = posts
    BY <1>7 DEF ReadUnset, vars
  <2>2. Running' \subseteq Running /\ Waiting' \subseteq Waiting
    BY <2>1 DEF Running, Waiting, SocketsTyped
  <2>. QED BY <1>1, <2>1, <2>2, OwedPaid
<1>8. ASSUME NEW c \in Readers, PeerSends(c) PROVE Goal
  <2>1. posts' = posts /\ reader' = reader /\ posts + Owed < MaxPosts
    BY <1>8 DEF PeerSends, InBudget, tasks, vars
  <2>2. PICK f \in Frames : inbound' = [inbound EXCEPT ![c] = Append(@, f)]
    BY <1>8 DEF PeerSends
  <2>3. Running' = Running /\ Waiting' \subseteq Waiting \cup {c}
    BY <2>1, <2>2 DEF Running, Waiting, SocketsTyped
  <2>4. Cardinality(Waiting') <= Cardinality(Waiting) + 1
    <3>1. IsFiniteSet(Waiting) /\ Cardinality(Waiting) \in Nat
      BY OwedTyped
    <3>2. /\ IsFiniteSet(Waiting \cup {c})
          /\ Cardinality(Waiting \cup {c}) \in {Cardinality(Waiting), Cardinality(Waiting) + 1}
      BY <3>1, FS_AddElement
    <3>3. Cardinality(Waiting') <= Cardinality(Waiting \cup {c})
      BY <2>3, <3>2, Smaller
    <3>4. Cardinality(Waiting') \in Nat
      BY OwedPrimed
    <3>. QED BY <3>1, <3>2, <3>3, <3>4
  <2>. QED BY <1>1, <2>1, <2>3, <2>4, OwedTyped, OwedPrimed
<1>9. ASSUME NEW c \in Readers, PeerReads(c) \/ PeerSeesEnd(c) \/ LinkEnds(c) PROVE Goal
  BY <1>2, <1>9 DEF PeerReads, PeerSeesEnd, LinkEnds, tasks, vars
<1>10. ASSUME NEW b \in Apps, AppCall(b) PROVE Goal
  <2>1. posts' = posts + 1 /\ posts + Owed < MaxPosts /\ UNCHANGED <<reader, inbound>>
    BY <1>10 DEF AppCall, InBudget, Send, SendShutdown, SendShutdownRouter, Post, tasks, sockets
  <2>2. Running' = Running /\ Waiting' = Waiting
    BY <2>1 DEF Running, Waiting
  <2>. QED BY <1>1, <2>1, <2>2, OwedTyped, OwedPrimed
<1>11. UNCHANGED serverVars => UNCHANGED <<posts, reader, inbound>>
  BY DEF serverVars, vars
<1>. HIDE DEF Goal
<1>12. ASSUME NEW c \in Readers, ReaderStep(c) \/ TimedOut(c) PROVE Goal
  <2>1. CASE ReadEnds(c) \/ TimedOut(c)
    BY <1>4, <2>1 DEF ReadEnds, TimedOut
  <2>. QED BY <1>5, <1>6, <1>7, <1>12, <2>1 DEF ReaderStep
<1>13. Goal
  BY <1>2, <1>3, <1>8, <1>9, <1>10, <1>11, <1>12, QuietSteps DEF ServerNext, ServerStep, PeerStep
<1>. QED BY <1>13 DEF Goal

\* A step keeps the types of what the server adds to the router.
LEMMA SocketsStep ==
  ASSUME SocketsTyped, [ServerNext]_serverVars
  PROVE  SocketsTyped'
<1>. USE DEF SocketsTyped
<1>1. ASSUME NEW c \in Readers, Accept(c) PROVE SocketsTyped'
  BY <1>1 DEF Accept
<1>2. ASSUME NEW c \in Readers, Registered(c) PROVE SocketsTyped'
  BY <1>2 DEF Registered, sockets
<1>3. ASSUME NEW c \in Readers, Refused(c) PROVE SocketsTyped'
  BY <1>3 DEF Refused, sockets
<1>4. ASSUME ServerTold \/ AcceptFailed \/ EndServer PROVE SocketsTyped'
  BY <1>4 DEF ServerTold, AcceptFailed, EndServer, tasks, sockets
<1>5. ASSUME NEW c \in Readers, EndReader(c) PROVE SocketsTyped'
  <2>1. <<>> \in Seq(Frames) /\ Len(<<>>) <= 1
    BY EmptySeq
  <2>2. reader' = [reader EXCEPT ![c] = "done"] /\ inbound' = [inbound EXCEPT ![c] = <<>>]
    BY <1>5 DEF EndReader
  <2>. QED BY <1>5, <2>1, <2>2 DEF EndReader
<1>6. ASSUME NEW c \in Readers, ReadUnset(c) PROVE SocketsTyped'
  <2>1. <<>> \in Seq(Frames) /\ Len(<<>>) <= 1
    BY EmptySeq
  <2>. QED BY <1>6, <2>1 DEF ReadUnset
<1>7. ASSUME NEW c \in Readers, ReadMessage(c) \/ ReadIgnored(c) PROVE SocketsTyped'
  <2>1. /\ inbound[c] # <<>> /\ inbound' = [inbound EXCEPT ![c] = Tail(inbound[c])]
        /\ UNCHANGED tasks /\ UNCHANGED <<unread, link>>
    BY <1>7 DEF ReadMessage, ReadIgnored, Reads
  <2>2. Tail(inbound[c]) = <<>> /\ <<>> \in Seq(Frames) /\ Len(<<>>) <= 1
    BY <2>1, TailOfOne, EmptySeq
  <2>. QED BY <2>1, <2>2 DEF tasks
<1>8. ASSUME NEW c \in Readers, TaskRecv(c) PROVE SocketsTyped'
  <2>1. task' = [task EXCEPT ![c] = "write"] \/ task' = [task EXCEPT ![c] = "ending"] \/ task' = task
    BY <1>8 DEF TaskRecv
  <2>. QED BY <1>8, <2>1 DEF TaskRecv, sockets
<1>9. ASSUME NEW c \in Readers, TaskClosed(c) \/ WriteFailed(c) \/ EndTask(c) PROVE SocketsTyped'
  BY <1>9 DEF TaskClosed, WriteFailed, EndTask, tasks, sockets
<1>10. ASSUME NEW c \in Readers, Written(c) PROVE SocketsTyped'
  <2>1. OutRoom \in Nat
    BY ServerAssumption
  <2>. QED BY <1>10, <2>1 DEF Written
<1>11. ASSUME NEW c \in Readers, PeerSends(c) PROVE SocketsTyped'
  <2>1. PICK f \in Frames : inbound' = [inbound EXCEPT ![c] = Append(@, f)]
    BY <1>11 DEF PeerSends
  <2>2. inbound[c] = <<>> /\ UNCHANGED tasks /\ UNCHANGED <<unread, link>>
    BY <1>11 DEF PeerSends
  <2>3. Append(<<>>, f) \in Seq(Frames) /\ Len(Append(<<>>, f)) <= 1
    BY AppendProperties, EmptySeq
  <2>. QED BY <2>1, <2>2, <2>3 DEF tasks
<1>12. ASSUME NEW c \in Readers, PeerReads(c) PROVE SocketsTyped'
  <2>1. OutRoom \in Nat
    BY ServerAssumption
  <2>. QED BY <1>12, <2>1 DEF PeerReads, tasks
<1>13. ASSUME NEW c \in Readers, PeerSeesEnd(c) \/ LinkEnds(c) PROVE SocketsTyped'
  BY <1>13 DEF PeerSeesEnd, LinkEnds, tasks
<1>14. ASSUME UNCHANGED tasks, UNCHANGED sockets PROVE SocketsTyped'
  BY <1>14 DEF tasks, sockets
<1>15. ASSUME NEW b \in Apps, AppCall(b) \/ AppRecv(b) PROVE SocketsTyped'
  BY <1>14, <1>15 DEF AppCall, AppRecv
<1>16. Routing \/ UNCHANGED serverVars => UNCHANGED tasks /\ UNCHANGED sockets
  BY DEF Routing, serverVars, tasks, sockets
<1>17. ASSUME NEW c \in Readers, ReaderStep(c) \/ TimedOut(c) PROVE SocketsTyped'
  BY <1>5, <1>6, <1>7, <1>17 DEF ReaderStep, TimedOut, ReadEnds
<1>18. ASSUME NEW c \in Readers, TaskStep(c) PROVE SocketsTyped'
  BY <1>8, <1>9, <1>10, <1>18 DEF TaskStep
<1>19. ASSUME NEW c \in Readers, PeerStep(c) PROVE SocketsTyped'
  BY <1>11, <1>12, <1>13, <1>19 DEF PeerStep
<1>. HIDE DEF SocketsTyped
<1>. QED BY <1>1, <1>2, <1>3, <1>4, <1>14, <1>15, <1>16, <1>17, <1>18, <1>19 DEF ServerNext, ServerStep

\* The types; and what the peers and the application may still post never takes
\* from a reader the post it needs for its frame or its Shutdown: the bound of the
\* model stops no reader, for any number of connections.
THEOREM ServerTypeCorrect == ServerSpec => []ServerTypeOK
<1>1. ServerInit => SocketsTyped /\ posts + Owed <= MaxPosts
  <2>. SUFFICES ASSUME ServerInit PROVE SocketsTyped /\ posts + Owed <= MaxPosts
    OBVIOUS
  <2>1. SocketsTyped
    <3>1. <<>> \in Seq(Frames) /\ Len(<<>>) <= 1 /\ 0 \in 0..OutRoom
      BY ServerAssumption, EmptySeq
    <3>. QED BY <3>1 DEF ServerInit, SocketsTyped
  <2>2. Running = Readers /\ Waiting = {} /\ posts = 0
    BY DEF ServerInit, Init, Running, Waiting
  <2>3. Owed = Cardinality(Readers) /\ Cardinality(Readers) \in Nat
    BY <2>2, OwedTyped, FS_EmptySet
  <2>. QED BY <2>1, <2>2, <2>3, ServerAssumption
<1>2. /\ TypeOK /\ SocketsTyped /\ posts + Owed <= MaxPosts /\ [ServerNext]_serverVars
      => (SocketsTyped /\ posts + Owed <= MaxPosts)'
  BY SocketsStep, BudgetStep
<1>3. SocketsTyped /\ posts + Owed <= MaxPosts => ServerTypeOK
  BY DEF SocketsTyped, ServerTypeOK
<1>. QED BY <1>1, <1>2, <1>3, ServerKeepsCustody, PTL DEF ServerSpec

-----------------------------------------------------------------------------
(* With an address per connection, its Shutdown is its own reader's        *)

\* The premise of OwnShutdown: no application of this program shuts anybody down.
NobodyShutsDown == \A b \in Apps : Ops[b] \cap {"Shutdown", "ShutdownRouter"} = {}

\* A Shutdown on its way to the address of a connection comes from its own reader,
\* and so does one that has reached its channel.
ShutdownsOwn ==
  /\ reader \in [Readers -> {"none", "run", "done", "panicked"}]
  /\ farewell = {}
  /\ \A i \in DOMAIN inbox : inbox[i] # ShutdownRouter
  /\ \A c \in Readers, i \in DOMAIN inbox : inbox[i] = Shutdown(AddressOf[c]) => reader[c] = "done"
  /\ \A c \in Readers : Contains(queue[c], ShutdownMsg) => reader[c] = "done"

\* A reader that has ended runs no more.
LEMMA DoneStays ==
  ASSUME reader \in [Readers -> {"none", "run", "done", "panicked"}], [ServerNext]_serverVars,
         NEW c \in Readers, reader[c] = "done"
  PROVE  reader'[c] = "done"
  BY ReaderChange DEF Registered

\* What a step can do to the inbox if no application shuts anybody down.
LEMMA InboxChange ==
  ASSUME TypeOK, NobodyShutsDown, [ServerNext]_serverVars
  PROVE  \/ UNCHANGED inbox
         \/ \E m \in RouterMessage : Takes(m)
         \/ \E m \in RouterMessage : m.kind \notin {"Shutdown", "ShutdownRouter"} /\ Tell(m)
         \/ \E c \in Readers : Tell(Shutdown(AddressOf[c])) /\ EndReader(c)
<1>. DEFINE Taken == \E m \in RouterMessage : Takes(m)
            Harmless == \E m \in RouterMessage : m.kind \notin {"Shutdown", "ShutdownRouter"} /\ Tell(m)
            Ended == \E c \in Readers : Tell(Shutdown(AddressOf[c])) /\ EndReader(c)
<1>1. \A a \in Agents : Dropped(a) \/ (\E p \in Agents : NewAgent(p, a)) => Harmless
  BY MessagesTyped, MessagesDiffer, AgentsAssumption DEF Dropped, NewAgent
<1>2. ASSUME NEW k \in {"Message", "RemoteMessage"}, NEW x \in Addresses, posts < MaxPosts,
             Tell(Envelope(k, x, posts + 1))
      PROVE  Harmless
  <2>1. posts + 1 \in Numbers
    BY <1>2, AgentsAssumption DEF TypeOK, Numbers
  <2>2. Envelope(k, x, posts + 1) \in RouterMessage
    BY <2>1, MessagesTyped DEF EnvelopeKinds
  <2>. QED BY <1>2, <2>2, MessagesDiffer
<1>. HIDE DEF Taken, Harmless, Ended
<1>. ServerAgent \in Agents /\ Readers \subseteq Agents /\ Apps \subseteq Agents /\ Targets \subseteq Addresses
  BY ServerConstants
<1>3. ASSUME NEW c \in Readers, ReaderStep(c) \/ TimedOut(c) PROVE UNCHANGED inbox \/ Harmless \/ Ended
  <2>1. CASE ReadMessage(c)
    BY <1>2, <2>1 DEF ReadMessage, Reads, ReaderSend, ReaderPost
  <2>2. CASE ReadIgnored(c) \/ ReadUnset(c)
    BY <2>2 DEF ReadIgnored, ReadUnset, vars
  <2>3. CASE EndReader(c)
    BY <2>3 DEF EndReader, ReaderShutdown, ReaderPost, Ended, vars
  <2>. QED BY <1>3, <2>1, <2>2, <2>3 DEF ReaderStep, ReadEnds, TimedOut
<1>4. ASSUME NEW c \in Readers, TaskStep(c) \/ PeerStep(c) PROVE UNCHANGED inbox \/ Harmless
  <2>1. CASE EndTask(c)
    BY <1>1, <2>1 DEF EndTask, DropAgent
  <2>2. CASE TaskRecv(c) \/ TaskClosed(c) \/ Written(c) \/ WriteFailed(c)
    BY <2>2 DEF TaskRecv, TaskClosed, Recv, RecvClosed, Written, WriteFailed, vars
  <2>3. CASE PeerStep(c)
    BY <2>3 DEF PeerStep, PeerSends, PeerReads, PeerSeesEnd, LinkEnds, vars
  <2>. QED BY <1>4, <2>1, <2>2, <2>3 DEF TaskStep
<1>5. ASSUME NEW c \in Readers, Accept(c) \/ Registered(c) \/ Refused(c) PROVE UNCHANGED inbox \/ Harmless
  BY <1>1, <1>5 DEF Accept, Registered, Refused, RegisterFailed, vars
<1>6. ASSUME NEW b \in Apps, AppCall(b) \/ AppRecv(b) PROVE UNCHANGED inbox \/ Harmless
  <2>1. CASE AppRecv(b)
    BY <2>1 DEF AppRecv, Recv, RecvClosed
  <2>2. CASE AppCall(b)
    <3>1. ~SendShutdownRouter(b) /\ \A x \in Addresses : ~SendShutdown(b, x)
      BY DEF NobodyShutsDown, SendShutdown, SendShutdownRouter
    <3>2. PICK x \in Addresses : Send(b, x)
      BY <2>2, <3>1, ServerConstants DEF AppCall
    <3>. QED BY <1>2, <3>2 DEF Send, Post
  <2>. QED BY <1>6, <2>1, <2>2
<1>7. ASSUME Routing PROVE UNCHANGED inbox \/ Taken
  <2>1. CASE RouterStep
    BY <2>1, RouterStepEffect, TakesEffect DEF HandleRegister, HandleUnregister, HandleShutdownRouter, TypeOK, Taken
  <2>. QED BY <1>7, <2>1 DEF Routing, Run, RouterNewAgent, SendFarewell
<1>8. ASSUME ServerTold \/ EndServer \/ AcceptFailed \/ UNCHANGED serverVars PROVE UNCHANGED inbox \/ Harmless
  BY <1>1, <1>8 DEF ServerTold, Recv, RecvClosed, EndServer, DropAgent, AcceptFailed, serverVars, vars
<1>9. UNCHANGED inbox \/ Taken \/ Harmless \/ Ended
  BY <1>3, <1>4, <1>5, <1>6, <1>7, <1>8 DEF ServerNext, ServerStep
<1>. QED BY <1>9 DEF Taken, Harmless, Ended

\* A queue gains a Shutdown by nothing but being given one.
LEMMA AppendedShutdown ==
  ASSUME TypeOK, NEW a \in Agents, NEW m \in AgentMsg, m # ShutdownMsg,
         Contains(Append(queue[a], m), ShutdownMsg)
  PROVE  Contains(queue[a], ShutdownMsg)
<1>1. queue[a] \in Seq(AgentMsg) /\ Len(queue[a]) \in Nat
  BY LenProperties DEF TypeOK
<1>2. /\ Len(Append(queue[a], m)) = Len(queue[a]) + 1
      /\ Append(queue[a], m)[Len(queue[a]) + 1] = m
      /\ \A i \in 1..Len(queue[a]) : Append(queue[a], m)[i] = queue[a][i]
  BY <1>1, AppendProperties
<1>3. PICK k \in 1..(Len(queue[a]) + 1) : Append(queue[a], m)[k] = ShutdownMsg
  BY <1>2 DEF Contains
<1>4. k # Len(queue[a]) + 1
  BY <1>2, <1>3
<1>5. k \in 1..Len(queue[a])
  BY <1>1, <1>3, <1>4
<1>. QED BY <1>2, <1>3, <1>5 DEF Contains

\* A Shutdown gets into a channel by the router's arm for its address, while no
\* task of ShutdownRouter is there.
LEMMA ShutdownArrives ==
  ASSUME TypeOK, SenderCustody, [Next]_vars, farewell = {}, NEW a \in Agents,
         Contains(queue'[a], ShutdownMsg), ~Contains(queue[a], ShutdownMsg)
  PROVE  Takes(Shutdown(AddressOf[a]))
<1>1. queue[a] \in Seq(AgentMsg) /\ Len(queue[a]) \in Nat
  BY LenProperties DEF TypeOK
<1>2. queue'[a] # queue[a]
  OBVIOUS
<1>3. ASSUME NEW m \in AgentMsg, m # ShutdownMsg, queue'[a] = Append(queue[a], m) PROVE FALSE
  BY <1>3, AppendedShutdown
<1>4. ASSUME NEW p \in Agents, AgentStep(p) PROVE FALSE
  <2>1. CASE Recv(p)
    <3>1. p = a /\ queue[a] # <<>> /\ queue'[a] = Tail(queue[a])
      BY <1>2, <2>1 DEF Recv, TypeOK
    <3>2. /\ Len(queue'[a]) = Len(queue[a]) - 1
          /\ \A i \in 1..(Len(queue[a]) - 1) : queue'[a][i] = queue[a][i + 1]
      BY <1>1, <3>1, HeadTailProperties
    <3>3. PICK k \in 1..(Len(queue[a]) - 1) : queue'[a][k] = ShutdownMsg
      BY <3>2 DEF Contains
    <3>4. k + 1 \in 1..Len(queue[a]) /\ queue[a][k + 1] = ShutdownMsg
      BY <1>1, <3>2, <3>3
    <3>. QED BY <3>4 DEF Contains
  <2>2. CASE RecvClosed(p) \/ Dropped(p) \/ \E c \in Agents : NewAgent(p, c)
    BY <1>2, <2>2 DEF RecvClosed, Dropped, NewAgent
  <2>. QED BY <1>2, <1>4, <2>1, <2>2, AgentStepEffect
<1>5. CASE RouterStep
  <2>1. \A x \in Addresses : channels[x] = a => AddressOf[a] = x
    BY AgentsAssumption DEF SenderCustody
  <2>2. CASE HandleEnvelope
    <3>. DEFINE m == Head(inbox)
    <3>1. m \in RouterMessage /\ m.kind \in EnvelopeKinds
      BY <2>2, TakesEffect DEF HandleEnvelope, TypeOK
    <3>2. m \in AgentMsg /\ m # ShutdownMsg
      BY <3>1, EnvelopesTyped DEF EnvelopeKinds, ShutdownMsg
    <3>. HIDE DEF m
    <3>3. DeliverNoChannel(m) \/ DeliverSent(m) \/ DeliverFailed(m)
      BY <2>2 DEF HandleEnvelope, m
    <3>4. queue'[a] = Append(queue[a], m)
      BY <1>2, <3>3 DEF DeliverNoChannel, DeliverSent, DeliverFailed, TypeOK
    <3>. QED BY <1>3, <3>2, <3>4
  <2>3. CASE NotifyTracker
    <3>1. Head(notify) \in [to : Addresses, gone : Addresses]
      BY <2>3, HeadTailProperties DEF NotifyTracker, TypeOK
    <3>2. AgentRemoved(Head(notify).gone) \in AgentMsg /\ AgentRemoved(Head(notify).gone) # ShutdownMsg
      BY <3>1, MessagesTyped DEF AgentRemoved, ShutdownMsg
    <3>3. queue'[a] = Append(queue[a], AgentRemoved(Head(notify).gone))
      BY <1>2, <2>3 DEF NotifyTracker, TypeOK
    <3>. QED BY <1>3, <3>2, <3>3
  <2>4. ASSUME NEW x \in Addresses, HandleShutdown(x) PROVE Takes(Shutdown(AddressOf[a]))
    <3>1. channels[x] = a
      BY <1>2, <2>4 DEF HandleShutdown, TypeOK
    <3>. QED BY <2>1, <2>4, <3>1 DEF HandleShutdown
  <2>5. HandleShutdownRouter \/ (\E b \in Agents : HandleRegister(b))
          \/ (\E x, y \in Addresses : HandleTrack(x, y)) \/ (\E x \in Addresses : HandleUnregister(x))
        => queue' = queue
    BY DEF HandleShutdownRouter, HandleRegister, HandleTrack, HandleUnregister, agentVars
  <2>. QED BY <1>2, <1>5, <2>2, <2>3, <2>4, <2>5 DEF RouterStep
<1>6. CASE Run \/ (\E c \in Agents : RouterNewAgent(c) \/ SendFarewell(c)) \/ UNCHANGED vars
  BY <1>2, <1>6 DEF Run, RouterNewAgent, SendFarewell, vars, agentVars
<1>. QED BY <1>4, <1>5, <1>6 DEF Next

\* With an address per agent, a step keeps every Shutdown to its own reader's end.
LEMMA ShutdownsOwnStep ==
  ASSUME OneAgentPerAddress, NobodyShutsDown, TypeOK, SenderCustody, ShutdownsOwn, [ServerNext]_serverVars
  PROVE  ShutdownsOwn'
<1>. Readers \subseteq Agents /\ \A a \in Agents : AddressOf[a] \in Addresses
  BY ServerConstants
<1>1. [Next]_vars
  BY StepMaps
<1>2. /\ reader' \in [Readers -> {"none", "run", "done", "panicked"}]
      /\ \A c \in Readers : reader[c] = "done" => reader'[c] = "done"
  BY ReaderChange, DoneStays DEF ShutdownsOwn
<1>3. ~HandleShutdownRouter
  BY TakesEffect DEF HandleShutdownRouter, ShutdownsOwn, TypeOK
<1>4. farewell' = {}
  <2>1. \A p \in Agents : AgentStep(p) => farewell' = farewell
    BY AgentStepEffect DEF NewAgent, Dropped, Recv, RecvClosed
  <2>2. RouterStep => farewell' = farewell
    BY <1>3, RouterStepEffect DEF HandleRegister, HandleUnregister
  <2>. QED BY <1>1, <2>1, <2>2 DEF Next, Run, RouterNewAgent, SendFarewell, ShutdownsOwn, vars
<1>5. /\ \A i \in DOMAIN inbox' : inbox'[i] # ShutdownRouter
      /\ \A c \in Readers, i \in DOMAIN inbox' : inbox'[i] = Shutdown(AddressOf[c]) => reader'[c] = "done"
  <2>. DEFINE Goal == /\ \A i \in DOMAIN inbox' : inbox'[i] # ShutdownRouter
                      /\ \A c \in Readers, i \in DOMAIN inbox' :
                           inbox'[i] = Shutdown(AddressOf[c]) => reader'[c] = "done"
  <2>1. CASE UNCHANGED inbox
    BY <1>2, <2>1 DEF ShutdownsOwn
  <2>2. ASSUME NEW m \in RouterMessage, Takes(m) PROVE Goal
    BY <1>2, <2>2, TakesEffect DEF ShutdownsOwn, TypeOK
  <2>3. ASSUME NEW m \in RouterMessage, m.kind \notin {"Shutdown", "ShutdownRouter"}, Tell(m) PROVE Goal
    <3>1. m # ShutdownRouter /\ \A x \in Addresses : m # Shutdown(x)
      BY <2>3, MessagesDiffer
    <3>2. \A i \in DOMAIN inbox' : (i \in DOMAIN inbox /\ inbox'[i] = inbox[i]) \/ inbox'[i] = m
      BY <2>3, TellEffect DEF TypeOK
    <3>. QED BY <1>2, <3>1, <3>2 DEF ShutdownsOwn
  <2>4. ASSUME NEW d \in Readers, Tell(Shutdown(AddressOf[d])), EndReader(d) PROVE Goal
    <3>1. /\ Shutdown(AddressOf[d]) \in RouterMessage /\ Shutdown(AddressOf[d]) # ShutdownRouter
          /\ reader'[d] = "done"
      BY <2>4, MessagesTyped, MessagesDiffer DEF EndReader, ShutdownsOwn
    <3>2. \A c \in Readers : Shutdown(AddressOf[c]) = Shutdown(AddressOf[d]) => c = d
      BY DEF Shutdown, OneAgentPerAddress
    <3>3. \A i \in DOMAIN inbox' : \/ i \in DOMAIN inbox /\ inbox'[i] = inbox[i]
                                  \/ inbox'[i] = Shutdown(AddressOf[d])
      BY <2>4, <3>1, TellEffect DEF TypeOK
    <3>. QED BY <1>2, <3>1, <3>2, <3>3 DEF ShutdownsOwn
  <2>. QED BY <2>1, <2>2, <2>3, <2>4, InboxChange
<1>6. ASSUME NEW c \in Readers, Contains(queue'[c], ShutdownMsg) PROVE reader'[c] = "done"
  <2>1. CASE Contains(queue[c], ShutdownMsg)
    BY <1>2, <2>1 DEF ShutdownsOwn
  <2>2. CASE ~Contains(queue[c], ShutdownMsg)
    <3>1. Takes(Shutdown(AddressOf[c]))
      BY <1>1, <1>6, <2>2, ShutdownArrives DEF ShutdownsOwn
    <3>2. 1 \in DOMAIN inbox /\ inbox[1] = Shutdown(AddressOf[c])
      BY <3>1, TakesEffect DEF TypeOK
    <3>. QED BY <1>2, <3>2 DEF ShutdownsOwn
  <2>. QED BY <2>1, <2>2
<1>. QED BY <1>2, <1>4, <1>5, <1>6 DEF ShutdownsOwn

\* If no two agents are given one address and no application shuts anybody down, a
\* connection is told to stop only after its own reader has ended (server.rs:431),
\* for any number of connections.  With a shared address the reader that outlives its
\* connection shuts down the successor.
THEOREM OwnShutdownCorrect ==
  ASSUME OneAgentPerAddress
  PROVE  ServerSpec => []OwnShutdown
<1>1. ServerInit => ShutdownsOwn
  <2>1. Readers \subseteq Agents
    BY ServerConstants
  <2>2. ~Contains(<<>>, ShutdownMsg)
    BY EmptySeq DEF Contains
  <2>. QED BY <2>1, <2>2 DEF ServerInit, Init, ShutdownsOwn
<1>2. NobodyShutsDown /\ TypeOK /\ SenderCustody /\ ShutdownsOwn /\ [ServerNext]_serverVars => ShutdownsOwn'
  BY ShutdownsOwnStep
<1>3. ShutdownsOwn => OwnShutdown
  BY DEF ShutdownsOwn, OwnShutdown
<1>4. ~NobodyShutsDown => OwnShutdown
  BY DEF NobodyShutsDown, OwnShutdown
<1>5. CASE NobodyShutsDown
  <2>1. TypeOK /\ SenderCustody /\ ShutdownsOwn /\ [ServerNext]_serverVars => ShutdownsOwn'
    BY <1>2, <1>5
  <2>. QED BY <1>1, <1>3, <2>1, ServerKeepsCustody, PTL DEF ServerSpec
<1>6. CASE ~NobodyShutsDown
  <2>1. OwnShutdown
    BY <1>4, <1>6
  <2>. QED BY <2>1, PTL
<1>. QED BY <1>5, <1>6
=============================================================================

------------------------------- MODULE Server -------------------------------
(***************************************************************************)
(* A server of tinyroute (src/src/server.rs) and its connections, on top   *)
(* of the router.                                                          *)
(*                                                                         *)
(*   peer --inbound--> reader task --RemoteMessage, Shutdown--> router     *)
(*   peer <--unread--- connection task <--agent's channel------ router     *)
(*                                                                         *)
(* The server registers an agent for every socket it accepts.  The reader  *)
(* task and the task that owns the Connection share nothing but the socket *)
(* and the address: they end each other through the router and the peer.   *)
(* Frames are whole here: module Frame has the framing.                    *)
(***************************************************************************)
EXTENDS Router

CONSTANTS
  ServerAgent, \* the agent given to Server::new
  Targets,     \* the addresses the peers' messages name
  Events,      \* what may happen on a connection besides reading and writing
  Split,       \* connections whose halves share one stream (tokio::io::split, TLS)
  OutRoom      \* frames a socket holds before write_all waits for the peer

AllEvents == {"Message", "Ignored", "Malformed", "Unset", "closed", "broken", "timeout"}

ASSUME ServerAssumption ==
  /\ ServerAgent \in Roots \ Readers
  /\ Readers \cap Roots = {}
  /\ Targets \subseteq Addresses
  /\ Events \in [Readers -> SUBSET AllEvents]
  /\ Split \subseteq Readers
  /\ OutRoom \in Nat \ {0}
  /\ IsFiniteSet(Readers) /\ Cardinality(Readers) <= MaxPosts

VARIABLES
  server,   \* Server::next: "accept", "registering", or "ending" with an error
  reader,   \* a connection's reader: "none", "run", "done" or "panicked"
  task,     \* the task of its Connection: "none", "recv", "write" or "ending"
  inbound,  \* what the peer has written and the reader has not read
  unread,   \* how many frames the task has written and the peer has not read
  link      \* the socket: "none", "open", "closed" by the peer, or "broken"

tasks == <<server, reader, task>>
sockets == <<inbound, unread, link>>
serverVars == <<vars, server, reader, task, inbound, unread, link>>

\* What a peer writes, as the reader sees it: a message for an address; a
\* heartbeat or a payload without a valid address; a malformed header, or more
\* than the frame's buffer takes; a header of zero.
Frames == Targets \cup {"Ignored", "Malformed", "Unset"}

Apps == Agents \ (Readers \cup {ServerAgent})

\* The posts still owed to the readers: the frame each has to read (a socket holds
\* one), and its Shutdown.  The others stay within the rest of MaxPosts, so the
\* bound never stops a reader.
Owed == Cardinality({c \in Readers : reader[c] \in {"none", "run"}}) + Cardinality({c \in Readers : inbound[c] # <<>>})
InBudget == posts + Owed < MaxPosts

-----------------------------------------------------------------------------
(* Server::next, and the loop of Server::run around it                     *)

\* A socket is accepted; new_agent makes the agent and sends its Register.
Accept(c) ==
  /\ server = "accept" /\ c \in Readers /\ link[c] = "none"
  /\ NewAgent(ServerAgent, c)
  /\ server' = IF phase = "stopped" THEN "ending" ELSE "registering"
  /\ link' = [link EXCEPT ![c] = "open"]
  /\ UNCHANGED <<reader, task, inbound, unread>>

\* Mutant: a socket that is gone by now ends the server (peer_addr()?).
RegisteredIfOpen(c) ==
  /\ server = "registering" /\ link[c] # "none" /\ reader[c] = "none" /\ state[c] = "live"
  /\ server' = IF link[c] = "open" THEN "accept" ELSE "ending"
  /\ reader' = [reader EXCEPT ![c] = "run"] /\ task' = [task EXCEPT ![c] = "recv"]
  /\ UNCHANGED vars /\ UNCHANGED sockets

\* new_agent returned: the reader and the connection's task are spawned.
Registered(c) ==
  /\ server = "registering" /\ link[c] # "none" /\ reader[c] = "none" /\ state[c] = "live"
  /\ server' = "accept"
  /\ reader' = [reader EXCEPT ![c] = "run"] /\ task' = [task EXCEPT ![c] = "recv"]
  /\ UNCHANGED vars /\ UNCHANGED sockets

\* new_agent failed: the address is taken.
Refused(c) ==
  /\ server = "registering" /\ RegisterFailed(c)
  /\ server' = "ending"
  /\ UNCHANGED <<reader, task>> /\ UNCHANGED sockets

\* Any message for the server's agent, or the end of its channel, ends `next`.
ServerTold ==
  /\ server = "accept"
  /\ Recv(ServerAgent) \/ RecvClosed(ServerAgent)
  /\ server' = "ending"
  /\ UNCHANGED <<reader, task>> /\ UNCHANGED sockets

\* The listener fails, or the TLS handshake panics.
AcceptFailed ==
  /\ server = "accept" /\ Ready(ServerAgent)
  /\ server' = "ending"
  /\ UNCHANGED vars /\ UNCHANGED <<reader, task>> /\ UNCHANGED sockets

\* Mutant: run calls `next` again after an error.
EndServerRetrying ==
  /\ server = "ending" /\ Ready(ServerAgent)
  /\ server' = "accept"
  /\ UNCHANGED vars /\ UNCHANGED <<reader, task>> /\ UNCHANGED sockets

\* run returns and drops the server with its agent.
EndServer ==
  /\ server = "ending" /\ DropAgent(ServerAgent)
  /\ UNCHANGED tasks /\ UNCHANGED sockets

-----------------------------------------------------------------------------
(* spawn_reader and handle_payload                                         *)

\* Mutant: the Shutdown is sent only if the reader saw the end of the stream.
EndReaderOnClose(c) ==
  /\ reader' = [reader EXCEPT ![c] = "done"]
  /\ inbound' = [inbound EXCEPT ![c] = <<>>]
  /\ IF phase = "stopped" \/ link[c] = "open" THEN UNCHANGED vars ELSE ReaderShutdown(c)
  /\ UNCHANGED <<server, task, unread, link>>

\* Every way out of the loop asks the router to shut the agent down.
EndReader(c) ==
  /\ reader' = [reader EXCEPT ![c] = "done"]
  /\ inbound' = [inbound EXCEPT ![c] = <<>>]
  /\ IF phase = "stopped" THEN UNCHANGED vars ELSE ReaderShutdown(c)
  /\ UNCHANGED <<server, task, unread, link>>

Reads(c, frames) == reader[c] = "run" /\ inbound[c] # <<>> /\ Head(inbound[c]) \in frames

ReadMessage(c) ==
  /\ Reads(c, Targets)
  /\ ReaderSend(c, Head(inbound[c]))
  /\ inbound' = [inbound EXCEPT ![c] = Tail(@)]
  /\ UNCHANGED tasks /\ UNCHANGED <<unread, link>>

ReadIgnored(c) ==
  /\ Reads(c, {"Ignored"})
  /\ inbound' = [inbound EXCEPT ![c] = Tail(@)]
  /\ UNCHANGED vars /\ UNCHANGED tasks /\ UNCHANGED <<unread, link>>

\* unreachable!() in Frame::range: the task unwinds past its Shutdown.
ReadUnset(c) ==
  /\ Reads(c, {"Unset"})
  /\ reader' = [reader EXCEPT ![c] = "panicked"]
  /\ inbound' = [inbound EXCEPT ![c] = <<>>]
  /\ UNCHANGED vars /\ UNCHANGED <<server, task, unread, link>>

\* Mutant: a read of no bytes is tried again.
ReadEndsInError(c) ==
  /\ reader[c] = "run"
  /\ \/ Reads(c, {"Malformed"})
     \/ Reads(c, Targets) /\ phase = "stopped"
     \/ link[c] = "broken"
  /\ EndReader(c)

\* A frame that cannot be parsed or routed, the end of the stream, a failed read.
ReadEnds(c) ==
  /\ reader[c] = "run"
  /\ \/ Reads(c, {"Malformed"})
     \/ Reads(c, Targets) /\ phase = "stopped"
     \/ link[c] = "closed" /\ inbound[c] = <<>>
     \/ link[c] = "broken"
  /\ EndReader(c)

\* Mutant: the Shutdown is sent and the loop goes on.
TimedOutReading(c) ==
  /\ "timeout" \in Events[c] /\ reader[c] = "run" /\ InBudget /\ phase # "stopped"
  /\ ReaderShutdown(c)
  /\ UNCHANGED tasks /\ UNCHANGED sockets

\* Mutant: the timeout starts another round.
TimedOutAgain(c) == "timeout" \in Events[c] /\ reader[c] = "run" /\ UNCHANGED serverVars

\* The sleep of the select wins: also when a frame has already arrived.
TimedOut(c) == "timeout" \in Events[c] /\ reader[c] = "run" /\ EndReader(c)

-----------------------------------------------------------------------------
(* Connection::recv, and the task that Server::run spawns around it        *)

\* A message is written, or has the wrong type; a Shutdown ends the task; what
\* else arrives is ignored.
TaskRecv(c) ==
  /\ task[c] = "recv" /\ Recv(c)
  /\ LET kind == Head(queue[c]).kind IN
       \/ kind = "Message" /\ task' = [task EXCEPT ![c] = "write"]
       \/ kind \in {"Message", "AgentShutdown"} /\ task' = [task EXCEPT ![c] = "ending"]
       \/ kind \notin {"Message", "AgentShutdown"} /\ task' = task
  /\ UNCHANGED <<server, reader>> /\ UNCHANGED sockets

TaskClosed(c) ==
  /\ task[c] = "recv" /\ RecvClosed(c)
  /\ task' = [task EXCEPT ![c] = "ending"]
  /\ UNCHANGED <<server, reader>> /\ UNCHANGED sockets

\* Mutant: a message is buffered when the socket is full.
WrittenBuffered(c) ==
  /\ task[c] = "write" /\ link[c] # "broken"
  /\ unread' = [unread EXCEPT ![c] = @ + 1]
  /\ task' = [task EXCEPT ![c] = "recv"]
  /\ UNCHANGED vars /\ UNCHANGED <<server, reader, inbound, link>>

Written(c) ==
  /\ task[c] = "write" /\ link[c] # "broken" /\ unread[c] < OutRoom
  /\ unread' = [unread EXCEPT ![c] = @ + 1]
  /\ task' = [task EXCEPT ![c] = "recv"]
  /\ UNCHANGED vars /\ UNCHANGED <<server, reader, inbound, link>>

\* Mutant: a failed write is tried again.
WriteRetried(c) ==
  /\ task[c] = "write" /\ link[c] # "open"
  /\ UNCHANGED serverVars

WriteFailed(c) ==
  /\ task[c] = "write" /\ link[c] # "open"
  /\ task' = [task EXCEPT ![c] = "ending"]
  /\ UNCHANGED vars /\ UNCHANGED <<server, reader>> /\ UNCHANGED sockets

\* Mutant: the agent is forgotten, not dropped.
EndTaskForgetting(c) ==
  /\ task[c] = "ending" /\ Ready(c)
  /\ state' = [state EXCEPT ![c] = "dropped"]
  /\ UNCHANGED routerVars /\ UNCHANGED <<parent, queue, awaiting, hand, posts>>
  /\ UNCHANGED tasks /\ UNCHANGED sockets

\* The task drops its Connection: the agent, and its half of the socket.
EndTask(c) ==
  /\ task[c] = "ending" /\ DropAgent(c)
  /\ UNCHANGED tasks /\ UNCHANGED sockets

-----------------------------------------------------------------------------
(* The peers and the application                                           *)

PeerSends(c) ==
  /\ link[c] = "open" /\ reader[c] \in {"none", "run"}
  /\ inbound[c] = <<>> /\ InBudget
  /\ \E f \in Frames :
       /\ (IF f \in Targets THEN "Message" ELSE f) \in Events[c]
       /\ inbound' = [inbound EXCEPT ![c] = Append(@, f)]
  /\ UNCHANGED vars /\ UNCHANGED tasks /\ UNCHANGED <<unread, link>>

PeerReads(c) ==
  /\ link[c] = "open" /\ unread[c] > 0
  /\ unread' = [unread EXCEPT ![c] = @ - 1]
  /\ UNCHANGED vars /\ UNCHANGED tasks /\ UNCHANGED <<inbound, link>>

\* The dropped writing half shuts the socket down for writing; but halves made by
\* tokio::io::split do nothing until both are dropped, the reader's too.
Shut(c) == state[c] = "dropped" /\ (c \in Split => reader[c] # "run")

\* The peer has read all there is, sees the end of the stream and closes.
PeerSeesEnd(c) ==
  /\ link[c] = "open" /\ unread[c] = 0 /\ Shut(c)
  /\ link' = [link EXCEPT ![c] = "closed"]
  /\ UNCHANGED vars /\ UNCHANGED tasks /\ UNCHANGED <<inbound, unread>>

LinkEnds(c) ==
  /\ link[c] = "open"
  /\ \E l \in {"closed", "broken"} \cap Events[c] : link' = [link EXCEPT ![c] = l]
  /\ UNCHANGED vars /\ UNCHANGED tasks /\ UNCHANGED <<inbound, unread>>

AppCall(b) ==
  /\ InBudget
  /\ \/ \E c \in Readers : Send(b, AddressOf[c])
     \/ \E a \in Readers \cup {ServerAgent} : SendShutdown(b, AddressOf[a])
     \/ SendShutdownRouter(b)
  /\ UNCHANGED tasks /\ UNCHANGED sockets

AppRecv(b) ==
  /\ Recv(b) \/ RecvClosed(b)
  /\ UNCHANGED tasks /\ UNCHANGED sockets

-----------------------------------------------------------------------------
\* The steps of the router and its spawned tasks; the application makes its
\* agents before it runs the router.
Routing ==
  /\ \/ RouterStep
     \/ Run /\ \A a \in Roots : state[a] = "live"
     \/ \E a \in Agents : RouterNewAgent(a) \/ SendFarewell(a)
  /\ UNCHANGED tasks /\ UNCHANGED sockets

ServerStep == (\E c \in Readers : Registered(c) \/ Refused(c)) \/ ServerTold \/ EndServer
ReaderStep(c) == ReadMessage(c) \/ ReadIgnored(c) \/ ReadUnset(c) \/ ReadEnds(c)
TaskStep(c) == TaskRecv(c) \/ TaskClosed(c) \/ Written(c) \/ WriteFailed(c) \/ EndTask(c)
PeerStep(c) == PeerSends(c) \/ PeerReads(c) \/ PeerSeesEnd(c) \/ LinkEnds(c)

ServerInit ==
  /\ Init
  /\ server = "accept"
  /\ reader = [c \in Readers |-> "none"] /\ task = [c \in Readers |-> "none"]
  /\ inbound = [c \in Readers |-> <<>>] /\ unread = [c \in Readers |-> 0]
  /\ link = [c \in Readers |-> "none"]

ServerNext ==
  \/ Routing
  \/ ServerStep \/ AcceptFailed
  \/ \E c \in Readers : Accept(c) \/ ReaderStep(c) \/ TimedOut(c) \/ TaskStep(c) \/ PeerStep(c)
  \/ \E b \in Apps : AppCall(b) \/ AppRecv(b)

ServerSpec == ServerInit /\ [][ServerNext]_serverVars

\* What goes on without anybody's decision: the runtime polls the router, the
\* server and the connections' tasks, and agents receive.
Goes ==
  \/ Routing \/ ServerStep
  \/ \E c \in Readers : TaskStep(c)
  \/ \E b \in Apps : AppRecv(b)

\* Less than fairness to every task: something is done as long as something can
\* be.  Only a reader needs more, for another may be kept busy for ever by frames
\* that are ignored; and its timer goes off if nothing more arrives.  A listener
\* need not accept or fail, and nobody is obliged to send or to drop; nor is a
\* peer obliged to read or to close, which the properties below ask for where
\* they need it.
FairServerSpec ==
  /\ ServerSpec
  /\ WF_serverVars(Goes)
  /\ \A c \in Readers : WF_serverVars(ReaderStep(c)) /\ WF_serverVars(inbound[c] = <<>> /\ TimedOut(c))

-----------------------------------------------------------------------------
(* Properties                                                              *)

\* Types; and the bound on posts leaves the readers what they are owed.
ServerTypeOK ==
  /\ server \in {"accept", "registering", "ending"}
  /\ reader \in [Readers -> {"none", "run", "done", "panicked"}]
  /\ task \in [Readers -> {"none", "recv", "write", "ending"}]
  /\ inbound \in [Readers -> Seq(Frames)] /\ \A c \in Readers : Len(inbound[c]) <= 1
  /\ unread \in [Readers -> 0..OutRoom]
  /\ link \in [Readers -> {"none", "open", "closed", "broken"}]
  /\ posts + Owed <= MaxPosts

\* The tasks of server.rs are agents as router.rs knows them, whatever the peers
\* do: what Router promises holds with a server.
ImplementsRouter == Spec

\* spawn_reader: when a reader has ended, the registration of its connection is
\* gone or a Shutdown for it is on its way; no connection outlives its reader
\* for want of being told.
ReaderReaps ==
  phase # "stopped" =>
    \A c \in Readers : reader[c] = "done" =>
      \/ channels[AddressOf[c]] # c
      \/ \E i \in DOMAIN inbox : inbox[i] = Shutdown(AddressOf[c])

\* spawn_reader: "Shutdown the agent", which is its own.  Where the application
\* shuts nobody down, a connection is told to stop only after its reader has ended.
\* True only when no two connections are given one address: a reader may outlive
\* its connection, and its Shutdown(sender) is then for the successor.
OwnShutdown ==
  (\A b \in Apps : Ops[b] \cap {"Shutdown", "ShutdownRouter"} = {}) =>
    \A c \in Readers : Contains(queue[c], ShutdownMsg) => reader[c] = "done"

\* A connection's task is in write_all, and there is no room in the socket.
Stalled(c) == task[c] = "write" /\ link[c] = "open" /\ unread[c] = OutRoom

\* Nothing that the router may wait for is kept from it for ever: a peer reads what
\* is written, or its connection breaks, and the server's own agent, of which `next`
\* receives nothing while it registers a connection, does not stay full.
RoomInTheEnd == []<>Room(ServerAgent) /\ \A c \in Readers : []<>~Stalled(c)

\* A connection whose reader has ended, at a timeout or otherwise, comes to its end:
\* its task ends, also one that was writing behind a full socket, and its address
\* leaves the registry, also behind a router that waits for another connection.
\* It takes peers that read, for write_all has no timeout.
ReaderEndsConnection ==
  RoomInTheEnd =>
    \A c \in Readers : reader[c] = "done" ~> state[c] = "dropped" /\ channels[AddressOf[c]] # c

\* A reader does not outlive its connection's task for ever: if the peer closes when
\* it sees the end of the stream, or if there is a timeout and the peer falls
\* silent.  The former does not help where the halves share one stream.
TaskEndsReader ==
  \A c \in Readers :
    (\/ c \notin Split /\ []<>~(link[c] = "open" /\ Shut(c))
     \/ "timeout" \in Events[c] /\ <>[](inbound[c] = <<>>))
    => (state[c] = "dropped" ~> reader[c] # "run")

\* Server::next returns: a socket that was accepted is registered and the server
\* accepts again, or its address is taken and that ends the server; unless the
\* router is stopped meanwhile.  A router that waits for a connection whose peer is
\* slow only delays it.
NextReturns ==
  RoomInTheEnd =>
    (server = "registering" ~>
      \/ server = "accept"
      \/ server = "ending" /\ \E c \in Readers : link[c] # "none" /\ reader[c] = "none" /\ state[c] = "dropped"
      \/ phase = "stopped")

\* Agent::shutdown_router: ShutdownRouter ends the server too, except that a
\* Server::next whose Register the router did not handle any more waits for ever.
ServerStops ==
  phase = "stopped" ~> state[ServerAgent] \in {"new", "dropped"} \/ server = "registering"
=============================================================================

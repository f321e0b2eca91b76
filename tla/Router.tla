------------------------------- MODULE Router -------------------------------
(***************************************************************************)
(* The router task of tinyroute and the agents that talk through it        *)
(* (src/src/router.rs, agent.rs, request.rs, response.rs).                 *)
(*                                                                         *)
(* Every agent owns the receiving end of one channel; the only sender of   *)
(* that channel lives in the router's `channels` map.  Everything an agent *)
(* asks for (messages, tracking, registration, shutdown) travels through   *)
(* the router's unbounded inbox, and the router handles one inbox message  *)
(* at a time, WAITING while the channel it delivers to is full.  The wait  *)
(* is a disabled action: the message stays at the head of the inbox and    *)
(* nothing behind it is handled.                                           *)
(*                                                                         *)
(* An agent is a sequential task: while it awaits a registration or a      *)
(* response it does nothing else (`recv` borrows the agent mutably).       *)
(***************************************************************************)
EXTENDS Integers, Sequences, FiniteSets, SequencesExt

CONSTANTS
  Addresses,   \* the values of the user's address type
  Agents,      \* agent instances; several may be given the same address
  NoAgent,     \* "no agent"
  AddressOf,   \* the address each agent instance is created with
  Cap,         \* the capacity of each agent's channel
  Roots,       \* the instances made by Router::new_agent before the router runs
  Ops,         \* the operations each agent's program uses
  Readers,     \* the agents of server connections, which have a reader task
  MaxPosts     \* bound: messages the programs put into the inbox

AllOps == {"Message", "Request", "Track", "ReverseTrack", "Shutdown", "ShutdownRouter"}

ASSUME AgentsAssumption ==
  /\ NoAgent \notin Agents
  /\ AddressOf \in [Agents -> Addresses]
  /\ Cap \in [Agents -> Nat \ {0}]
  /\ Roots \subseteq Agents
  /\ Ops \in [Agents -> SUBSET AllOps]
  /\ Readers \subseteq Agents
  /\ MaxPosts \in Nat

VARIABLES
  phase,       \* of the router: "setup", "running", "stopped"
  inbox,       \* the router's rx: what was sent and not yet handled
  channels,    \* Router::channels: the agent whose channel is registered at an address
  subscriptions, \* Router::subscriptions: who tracks an address, in order
  notify,      \* the rest of unregister's loop: AgentRemoved notices still to be sent
  farewell,    \* the tasks spawned by ShutdownRouter, each about to send Shutdown
  state,       \* the life of each agent instance
  parent,      \* the agent whose new_agent call created an instance
  queue,       \* the content of each agent's channel
  awaiting,    \* the request whose Response an agent awaits, 0 for none
  hand,        \* the requests an agent has read and not answered
  posts        \* messages posted so far; also numbers them

routerVars == <<phase, inbox, channels, subscriptions, notify, farewell>>
agentVars == <<state, parent, queue, awaiting, hand>>
vars == <<phase, inbox, channels, subscriptions, notify, farewell,
          state, parent, queue, awaiting, hand, posts>>

-----------------------------------------------------------------------------
(* Messages                                                                *)

Numbers == 1..MaxPosts

\* Message, RemoteMessage and Request are routed alike; n identifies the message.
Envelope(k, x, n) == [kind |-> k, to |-> x, n |-> n]
Register(a)   == [kind |-> "Register", agent |-> a]
Unregister(x) == [kind |-> "Unregister", to |-> x]
Shutdown(x)   == [kind |-> "Shutdown", to |-> x]
Track(x, y)   == [kind |-> "Track", from |-> x, to |-> y]
ShutdownRouter == [kind |-> "ShutdownRouter"]

EnvelopeKinds == {"Message", "RemoteMessage", "Request"}
Envelopes == [kind : EnvelopeKinds, to : Addresses, n : Numbers]

RouterMessage ==
  Envelopes
    \cup [kind : {"Register"}, agent : Agents]
    \cup [kind : {"Unregister", "Shutdown"}, to : Addresses]
    \cup [kind : {"Track"}, from : Addresses, to : Addresses]
    \cup {ShutdownRouter}

AgentRemoved(x) == [kind |-> "AgentRemoved", gone |-> x]
ShutdownMsg     == [kind |-> "AgentShutdown"]

AgentMsg == Envelopes \cup [kind : {"AgentRemoved"}, gone : Addresses] \cup {ShutdownMsg}

AgentState == {"new", "registering", "rejected", "live", "stopping", "dropped"}

-----------------------------------------------------------------------------
(* Channels                                                                *)

\* The receiver of a's channel exists (flume: sends fail only without one).
Alive(a) == state[a] \in {"registering", "rejected", "live", "stopping"}

Room(a) == Len(queue[a]) < Cap[a]

\* The sender of a's channel exists: in the map, in a Register message that
\* is still in the inbox, or in a task spawned by ShutdownRouter.
HasSender(a) ==
  \/ channels[AddressOf[a]] = a
  \/ \E i \in DOMAIN inbox : inbox[i] = Register(a)
  \/ a \in farewell

\* The reply sender of request n exists somewhere.  A channel keeps what it
\* holds until both its ends are gone; the inbox is kept by every RouterTx.
ReplySenderAlive(n) ==
  \/ \E i \in DOMAIN inbox : inbox[i].kind = "Request" /\ inbox[i].n = n
  \/ \E b \in Agents :
       /\ Alive(b) \/ HasSender(b)
       /\ \E i \in DOMAIN queue[b] : queue[b][i].kind = "Request" /\ queue[b][i].n = n
  \/ \E b \in Agents : n \in hand[b]

-----------------------------------------------------------------------------
(* The agents                                                              *)

\* new_agent borrows its agent until the router has answered.
Registering(p) ==
  \E c \in Agents : parent[c] = p /\ state[c] \in {"registering", "rejected"}

Ready(a) == state[a] \in {"live", "stopping"} /\ ~Registering(a) /\ awaiting[a] = 0

\* RouterTx::send on an unbounded channel: never waits, fails once the router is gone.
Tell(m) == inbox' = IF phase = "stopped" THEN inbox ELSE Append(inbox, m)

\* One call of an agent's program that posts m.
Post(a, m) ==
  /\ Ready(a)
  /\ phase # "stopped"
  /\ posts < MaxPosts
  /\ posts' = posts + 1
  /\ Tell(m)
  /\ UNCHANGED <<phase, channels, subscriptions, notify, farewell, state, parent, queue, hand>>

Send(a, x) ==
  /\ "Message" \in Ops[a]
  /\ Post(a, Envelope("Message", x, posts + 1))
  /\ UNCHANGED awaiting

\* Agent::request, and the wait for the Response that follows.
Request(a, x) ==
  /\ "Request" \in Ops[a]
  /\ Post(a, Envelope("Request", x, posts + 1))
  /\ awaiting' = [awaiting EXCEPT ![a] = posts + 1]

TrackAddress(a, x) ==
  /\ "Track" \in Ops[a]
  /\ Post(a, Track(AddressOf[a], x))
  /\ UNCHANGED awaiting

ReverseTrack(a, x) ==
  /\ "ReverseTrack" \in Ops[a]
  /\ Post(a, Track(x, AddressOf[a]))
  /\ UNCHANGED awaiting

SendShutdown(a, x) ==
  /\ "Shutdown" \in Ops[a]
  /\ Post(a, Shutdown(x))
  /\ UNCHANGED awaiting

SendShutdownRouter(a) ==
  /\ "ShutdownRouter" \in Ops[a]
  /\ Post(a, ShutdownRouter)
  /\ UNCHANGED awaiting

\* The reader task of a connection (server.rs) posts with a RouterTx of its own,
\* whatever a's task does or awaits, and also after a was dropped: it has read a
\* message for x, or it ends.
ReaderPost(a, m) ==
  /\ a \in Readers /\ state[a] \notin {"new", "registering", "rejected"}
  /\ phase # "stopped"
  /\ posts < MaxPosts
  /\ posts' = posts + 1
  /\ Tell(m)
  /\ UNCHANGED <<phase, channels, subscriptions, notify, farewell, state, parent, queue, awaiting, hand>>

ReaderSend(a, x) == ReaderPost(a, Envelope("RemoteMessage", x, posts + 1))
ReaderShutdown(a) == ReaderPost(a, Shutdown(AddressOf[a]))

\* Agent::new_agent: the Agent value exists before its registration is sent,
\* so a failed send drops it.
NewAgent(p, c) ==
  /\ Ready(p)
  /\ state[c] = "new" /\ c \notin Roots
  /\ state' = [state EXCEPT ![c] = IF phase = "stopped" THEN "dropped" ELSE "registering"]
  /\ parent' = [parent EXCEPT ![c] = p]
  /\ Tell(Register(c))
  /\ UNCHANGED <<phase, channels, subscriptions, notify, farewell, queue, awaiting, hand, posts>>

\* Mutant: an agent that was never confirmed is dropped without Unregister.
QuietDrop(a) ==
  /\ state' = [state EXCEPT ![a] = "dropped"]
  /\ IF state[a] = "registering" THEN UNCHANGED inbox ELSE Tell(Unregister(AddressOf[a]))
  /\ UNCHANGED <<phase, channels, subscriptions, notify, farewell, parent, queue, awaiting, hand, posts>>

\* impl Drop for Agent.
Dropped(a) ==
  /\ state' = [state EXCEPT ![a] = "dropped"]
  /\ Tell(Unregister(AddressOf[a]))
  /\ UNCHANGED <<phase, channels, subscriptions, notify, farewell, parent, queue, awaiting, hand, posts>>

\* register_agent returned an error: `?` drops the agent.
RegisterFailed(c) == state[c] = "rejected" /\ Dropped(c)

\* The future of new_agent is dropped before the router answered.
CancelNewAgent(c) == state[c] = "registering" /\ Dropped(c)

DropAgent(a) == Ready(a) /\ Dropped(a)

Recv(a) ==
  /\ Ready(a)
  /\ queue[a] # <<>>
  /\ LET m == Head(queue[a]) IN
       /\ state' = [state EXCEPT ![a] = IF m.kind = "AgentShutdown" THEN "stopping" ELSE @]
       /\ hand' = [hand EXCEPT ![a] = IF m.kind = "Request" THEN @ \cup {m.n} ELSE @]
  /\ queue' = [queue EXCEPT ![a] = Tail(@)]
  /\ UNCHANGED <<phase, inbox, channels, subscriptions, notify, farewell, parent, awaiting, posts>>

\* recv returns ChannelClosed: nothing queued and nobody left to send.
RecvClosed(a) ==
  /\ Ready(a) /\ state[a] = "live"
  /\ queue[a] = <<>> /\ ~HasSender(a)
  /\ state' = [state EXCEPT ![a] = "stopping"]
  /\ UNCHANGED <<phase, inbox, channels, subscriptions, notify, farewell, parent, queue, awaiting, hand, posts>>

\* reply / reply_async meet the requester in Response::recv (a rendezvous
\* channel); when the requester gave up, the reply fails.
Reply(b, n) ==
  /\ n \in hand[b]
  /\ hand' = [hand EXCEPT ![b] = @ \ {n}]
  /\ awaiting' = [a \in Agents |-> IF awaiting[a] = n THEN 0 ELSE awaiting[a]]
  /\ UNCHANGED <<phase, inbox, channels, subscriptions, notify, farewell, state, parent, queue, posts>>

\* The request is dropped unanswered: `read` failed, or the program ignores it.
DiscardRequest(b, n) ==
  /\ n \in hand[b]
  /\ hand' = [hand EXCEPT ![b] = @ \ {n}]
  /\ UNCHANGED <<phase, inbox, channels, subscriptions, notify, farewell, state, parent, queue, awaiting, posts>>

ResponseEnds(a) ==
  /\ awaiting' = [awaiting EXCEPT ![a] = 0]
  /\ UNCHANGED <<phase, inbox, channels, subscriptions, notify, farewell, state, parent, queue, hand, posts>>

\* Response::recv fails: the last sender of the reply is gone.
ResponseFailed(a) == awaiting[a] # 0 /\ ~ReplySenderAlive(awaiting[a]) /\ ResponseEnds(a)

\* The requester drops its Response.
AbandonResponse(a) == awaiting[a] # 0 /\ ResponseEnds(a)

-----------------------------------------------------------------------------
(* The router                                                              *)

\* Router::new_agent, before `run` consumes the router.
RouterNewAgent(a) ==
  /\ phase = "setup"
  /\ a \in Roots /\ state[a] = "new"
  /\ channels[AddressOf[a]] = NoAgent
  /\ channels' = [channels EXCEPT ![AddressOf[a]] = a]
  /\ state' = [state EXCEPT ![a] = "live"]
  /\ UNCHANGED <<phase, inbox, subscriptions, notify, farewell, parent, queue, awaiting, hand, posts>>

Run ==
  /\ phase = "setup"
  /\ phase' = "running"
  /\ UNCHANGED <<inbox, channels, subscriptions, notify, farewell>>
  /\ UNCHANGED agentVars /\ UNCHANGED posts

\* The router is at the top of its loop and takes the message m.
Takes(m) ==
  /\ phase = "running"
  /\ notify = <<>>
  /\ inbox # <<>>
  /\ m = Head(inbox)
  /\ inbox' = Tail(inbox)

\* Vec::retain(|p| p != x) on a list of trackers, which has no duplicates.
Retain(trackers, x) ==
  IF Contains(trackers, x)
  THEN RemoveAt(trackers, CHOOSE i \in 1..Len(trackers) : trackers[i] = x)
  ELSE trackers

\* What unregister(x) owes: one AgentRemoved(x) per tracker, in the Vec's order.
Notices(x) == [i \in DOMAIN subscriptions[x] |-> [to |-> subscriptions[x][i], gone |-> x]]

\* Mutant: unregister forgets to remove the channel.
UnregisterKeepsChannel(x) ==
  IF channels[x] = NoAgent
  THEN UNCHANGED <<channels, subscriptions, notify>>
  ELSE /\ notify' = Notices(x)
       /\ subscriptions' = [y \in Addresses |->
            IF y = x THEN <<>>
            ELSE IF Contains(subscriptions[x], y) THEN Retain(subscriptions[y], x)
            ELSE subscriptions[y]]
       /\ UNCHANGED channels

\* Router::unregister up to its loop of sends: the loop's changes to the
\* subscriptions, which only the router sees, and the list it has to notify.
UnregisterAddress(x) ==
  IF channels[x] = NoAgent
  THEN UNCHANGED <<channels, subscriptions, notify>>
  ELSE /\ channels' = [channels EXCEPT ![x] = NoAgent]
       /\ notify' = Notices(x)
       /\ subscriptions' = [y \in Addresses |->
            IF y = x THEN <<>>
            ELSE IF Contains(subscriptions[x], y) THEN Retain(subscriptions[y], x)
            ELSE subscriptions[y]]

KeepRegistry == UNCHANGED <<channels, subscriptions, notify>>

\* Message, RemoteMessage and Request: the three arms differ in payload only.
DeliverNoChannel(m) ==
  /\ channels[m.to] = NoAgent
  /\ KeepRegistry
  /\ UNCHANGED queue

\* Mutant: the message is put into a full channel.
DeliverWithoutWaiting(m) ==
  LET a == channels[m.to] IN
  /\ a # NoAgent
  /\ Alive(a)
  /\ queue' = [queue EXCEPT ![a] = Append(@, m)]
  /\ KeepRegistry

DeliverSent(m) ==
  LET a == channels[m.to] IN
  /\ a # NoAgent
  /\ Alive(a) /\ Room(a)
  /\ queue' = [queue EXCEPT ![a] = Append(@, m)]
  /\ KeepRegistry

\* Mutant: a full channel is treated like a closed one (try_send).
DeliverFailedOrFull(m) ==
  LET a == channels[m.to] IN
  /\ a # NoAgent
  /\ ~Alive(a) \/ ~Room(a)
  /\ UnregisterAddress(m.to)
  /\ UNCHANGED queue

DeliverFailed(m) ==
  /\ channels[m.to] # NoAgent
  /\ ~Alive(channels[m.to])
  /\ UnregisterAddress(m.to)
  /\ UNCHANGED queue

\* Mutant: a message for a full channel goes to the back of the inbox.
HandleEnvelopeRequeuing ==
  /\ phase = "running" /\ notify = <<>>
  /\ inbox # <<>> /\ Head(inbox).kind \in EnvelopeKinds
  /\ LET m == Head(inbox) IN
       \/ Takes(m) /\ (DeliverNoChannel(m) \/ DeliverSent(m) \/ DeliverFailed(m))
       \/ /\ channels[m.to] # NoAgent
          /\ Alive(channels[m.to]) /\ ~Room(channels[m.to])
          /\ inbox' = Append(Tail(inbox), m)
          /\ KeepRegistry /\ UNCHANGED queue
  /\ UNCHANGED <<phase, farewell, state, parent, awaiting, hand, posts>>

HandleEnvelope ==
  /\ inbox # <<>> /\ Head(inbox).kind \in EnvelopeKinds
  /\ Takes(Head(inbox))
  /\ \/ DeliverNoChannel(Head(inbox))
     \/ DeliverSent(Head(inbox))
     \/ DeliverFailed(Head(inbox))
  /\ UNCHANGED <<phase, farewell, state, parent, awaiting, hand, posts>>

\* Mutant: the sender a registrant waits on outlives a refusal.
HandleRegisterSilent(a) ==
  LET x == AddressOf[a]
      taken == channels[x] # NoAgent IN
  /\ Takes(Register(a))
  /\ channels' = IF taken THEN channels ELSE [channels EXCEPT ![x] = a]
  /\ state' = [state EXCEPT ![a] = IF @ = "registering" /\ ~taken THEN "live" ELSE @]
  /\ UNCHANGED <<phase, subscriptions, notify, farewell, parent, queue, awaiting, hand, posts>>

\* The reply on success_tx is what new_agent waits for; a refused registration
\* is told by dropping success_tx.
HandleRegister(a) ==
  LET x == AddressOf[a]
      taken == channels[x] # NoAgent
      answer == IF taken THEN "rejected" ELSE "live" IN
  /\ Takes(Register(a))
  /\ channels' = IF taken THEN channels ELSE [channels EXCEPT ![x] = a]
  /\ state' = [state EXCEPT ![a] = IF @ = "registering" THEN answer ELSE @]
  /\ UNCHANGED <<phase, subscriptions, notify, farewell, parent, queue, awaiting, hand, posts>>

\* Mutant: no check whether x already tracks y.
HandleTrackAgain(x, y) ==
  /\ Takes(Track(x, y))
  /\ subscriptions' = [subscriptions EXCEPT ![y] = Append(@, x)]
  /\ UNCHANGED <<phase, channels, notify, farewell, posts>>
  /\ UNCHANGED agentVars

HandleTrack(x, y) ==
  /\ Takes(Track(x, y))
  /\ subscriptions' =
       IF Contains(subscriptions[y], x) THEN subscriptions
       ELSE [subscriptions EXCEPT ![y] = Append(@, x)]
  /\ UNCHANGED <<phase, channels, notify, farewell, posts>>
  /\ UNCHANGED agentVars

HandleUnregister(x) ==
  /\ Takes(Unregister(x))
  /\ UnregisterAddress(x)
  /\ UNCHANGED <<phase, farewell, posts>>
  /\ UNCHANGED agentVars

\* The result of sending AgentMsg::Shutdown is ignored; waiting is not.
HandleShutdown(x) ==
  LET a == channels[x] IN
  /\ Takes(Shutdown(x))
  /\ IF a # NoAgent /\ Alive(a)
     THEN Room(a) /\ queue' = [queue EXCEPT ![a] = Append(@, ShutdownMsg)]
     ELSE UNCHANGED queue
  /\ UnregisterAddress(x)
  /\ UNCHANGED <<phase, farewell, state, parent, awaiting, hand, posts>>

\* Mutant: the senders are cloned into the tasks, not drained.
HandleShutdownRouterCloning ==
  /\ Takes(ShutdownRouter)
  /\ phase' = "stopped"
  /\ farewell' = {a \in Agents : channels[AddressOf[a]] = a}
  /\ subscriptions' = [x \in Addresses |-> <<>>]
  /\ UNCHANGED <<channels, notify, posts>>
  /\ UNCHANGED agentVars

\* The map is drained into one spawned task per agent; then `run` returns and
\* the router, its receiver and its subscriptions are dropped.
HandleShutdownRouter ==
  /\ Takes(ShutdownRouter)
  /\ phase' = "stopped"
  /\ farewell' = {a \in Agents : channels[AddressOf[a]] = a}
  /\ channels' = [x \in Addresses |-> NoAgent]
  /\ subscriptions' = [x \in Addresses |-> <<>>]
  /\ UNCHANGED <<notify, posts>>
  /\ UNCHANGED agentVars

SendFarewell(a) ==
  /\ a \in farewell
  /\ farewell' = farewell \ {a}
  /\ IF Alive(a)
     THEN Room(a) /\ queue' = [queue EXCEPT ![a] = Append(@, ShutdownMsg)]
     ELSE UNCHANGED queue
  /\ UNCHANGED <<phase, inbox, channels, subscriptions, notify, state, parent, awaiting, hand, posts>>

\* Mutant: a tracker whose channel is full is skipped (try_send).
NotifyUnlessFull ==
  LET a == channels[Head(notify).to] IN
  /\ notify # <<>>
  /\ notify' = Tail(notify)
  /\ IF a # NoAgent /\ Alive(a) /\ Room(a)
     THEN queue' = [queue EXCEPT ![a] = Append(@, AgentRemoved(Head(notify).gone))]
     ELSE UNCHANGED queue
  /\ UNCHANGED <<phase, inbox, channels, subscriptions, farewell, state, parent, awaiting, hand, posts>>

\* One round of unregister's loop of sends, which waits on a full tracker.
NotifyTracker ==
  LET a == channels[Head(notify).to] IN
  /\ notify # <<>>
  /\ notify' = Tail(notify)
  /\ IF a # NoAgent /\ Alive(a)
     THEN Room(a) /\ queue' = [queue EXCEPT ![a] = Append(@, AgentRemoved(Head(notify).gone))]
     ELSE UNCHANGED queue
  /\ UNCHANGED <<phase, inbox, channels, subscriptions, farewell, state, parent, awaiting, hand, posts>>

RouterStep ==
  \/ HandleEnvelope
  \/ \E a \in Agents : HandleRegister(a)
  \/ \E x, y \in Addresses : HandleTrack(x, y)
  \/ \E x \in Addresses : HandleUnregister(x) \/ HandleShutdown(x)
  \/ HandleShutdownRouter
  \/ NotifyTracker

Call(a) ==
  \/ \E x \in Addresses : \/ Send(a, x)
                          \/ Request(a, x)
                          \/ TrackAddress(a, x)
                          \/ ReverseTrack(a, x)
                          \/ SendShutdown(a, x)
  \/ SendShutdownRouter(a)
  \/ \E c \in Agents : NewAgent(a, c)

AgentStep(a) ==
  \/ Call(a)
  \/ (\E x \in Addresses : ReaderSend(a, x)) \/ ReaderShutdown(a)
  \/ RegisterFailed(a) \/ CancelNewAgent(a) \/ DropAgent(a)
  \/ Recv(a) \/ RecvClosed(a)
  \/ ResponseFailed(a) \/ AbandonResponse(a)
  \/ \E n \in Numbers : Reply(a, n) \/ DiscardRequest(a, n)

Init ==
  /\ phase = "setup"
  /\ inbox = <<>>
  /\ channels = [x \in Addresses |-> NoAgent]
  /\ subscriptions = [x \in Addresses |-> <<>>]
  /\ notify = <<>>
  /\ farewell = {}
  /\ state = [a \in Agents |-> "new"]
  /\ parent = [a \in Agents |-> NoAgent]
  /\ queue = [a \in Agents |-> <<>>]
  /\ awaiting = [a \in Agents |-> 0]
  /\ hand = [a \in Agents |-> {}]
  /\ posts = 0

Next ==
  \/ RouterStep
  \/ Run
  \/ \E a \in Agents : RouterNewAgent(a) \/ SendFarewell(a) \/ AgentStep(a)

Spec == Init /\ [][Next]_vars

-----------------------------------------------------------------------------
(* Safety                                                                  *)

\* Every variable has its type, and no channel ever holds more than its
\* capacity: the only sends are the router's and the spawned tasks', and all
\* of them wait for room.
TypeOK ==
  /\ phase \in {"setup", "running", "stopped"}
  /\ inbox \in Seq(RouterMessage)
  /\ channels \in [Addresses -> Agents \cup {NoAgent}]
  /\ subscriptions \in [Addresses -> Seq(Addresses)]
  /\ notify \in Seq([to : Addresses, gone : Addresses])
  /\ farewell \subseteq Agents
  /\ state \in [Agents -> AgentState]
  /\ parent \in [Agents -> Agents \cup {NoAgent}]
  /\ queue \in [Agents -> Seq(AgentMsg)]
  /\ \A a \in Agents : Len(queue[a]) <= Cap[a]
  /\ awaiting \in [Agents -> 0..MaxPosts]
  /\ hand \in [Agents -> SUBSET Numbers]
  /\ posts \in 0..MaxPosts

\* The sender of an agent's channel is in one place at a time: a Register
\* message of the inbox (at most one), the map, under the agent's own address,
\* or a spawned Shutdown task; an agent not yet made has none.  Closing a channel
\* is dropping that one sender, so a second copy would keep an unregistered
\* agent waiting in recv for ever.
Custody(a) ==
  /\ \A i, j \in DOMAIN inbox : inbox[i] = Register(a) /\ inbox[j] = Register(a) => i = j
  /\ \A i \in DOMAIN inbox : inbox[i] = Register(a) =>
       /\ channels[AddressOf[a]] # a
       /\ a \notin farewell
       /\ state[a] \in {"registering", "dropped"}
  /\ a \in farewell => channels[AddressOf[a]] # a
  /\ state[a] = "new" => ~HasSender(a) /\ queue[a] = <<>>

SenderCustody ==
  /\ \A x \in Addresses : channels[x] # NoAgent => AddressOf[channels[x]] = x
  /\ \A a \in Agents : Custody(a)

\* Shutdown is the last thing an agent ever receives: behind a queued Shutdown
\* nothing can be queued, and an agent that has received it finds its channel
\* empty and closed (what tests/agents.rs shutdown_agent expects of one run).
ShutdownLast(a) ==
  /\ \A i \in DOMAIN queue[a] :
       queue[a][i] = ShutdownMsg => i = Len(queue[a]) /\ ~HasSender(a)
  /\ state[a] = "stopping" => queue[a] = <<>> /\ ~HasSender(a)

ShutdownIsFinal == \A a \in Agents : ShutdownLast(a)

\* No registration leaks: as long as the router runs, an agent that was dropped
\* but is still registered, or about to be (its new_agent future was cancelled
\* with Register in the inbox), has an Unregister for its address behind it.
Reaped(a) ==
  /\ channels[AddressOf[a]] = a =>
       \E j \in DOMAIN inbox : inbox[j] = Unregister(AddressOf[a])
  /\ \A i \in DOMAIN inbox : inbox[i] = Register(a) =>
       \E j \in DOMAIN inbox : j > i /\ inbox[j] = Unregister(AddressOf[a])

DeadIsReaped ==
  phase # "stopped" => \A a \in Agents : state[a] = "dropped" => Reaped(a)

Numbered(m) == m.kind \in EnvelopeKinds

\* The numbers in s increase; and those in s are below those in t.
Increasing(s) ==
  \A i, j \in DOMAIN s : i < j /\ Numbered(s[i]) /\ Numbered(s[j]) => s[i].n < s[j].n
Below(s, t) ==
  \A i \in DOMAIN s, j \in DOMAIN t : Numbered(s[i]) /\ Numbered(t[j]) => s[i].n < t[j].n

\* Messages are handled and received in the order they were posted, without a
\* duplicate, however long deliveries wait: the numbers increase along every
\* channel and along the inbox, and no queued message is younger than one that
\* is still in the inbox.
Ordered ==
  /\ Increasing(inbox)
  /\ \A a \in Agents : Increasing(queue[a]) /\ Below(queue[a], inbox)

\* A tracker is listed once per address, so one removal never sends it the
\* same AgentRemoved twice; and the notices still owed are all for trackers
\* that are themselves listed once.
NoDuplicateTracking ==
  /\ \A x \in Addresses : IsInjective(subscriptions[x])
  /\ IsInjective(notify)

\* An agent keeps its registration until it is shut down or dropped: nobody
\* else's registration, drop or failure takes it away.  True only when no two
\* agents are given the same address.
NoEviction ==
  phase # "stopped" =>
    \A a \in Agents : state[a] = "live" =>
      channels[AddressOf[a]] = a \/ Contains(queue[a], ShutdownMsg)

-----------------------------------------------------------------------------
(* Liveness                                                                *)

\* What the task of an agent does next once the runtime polls it, whatever its
\* program: receive, and see the end of what it awaits.  At most one is enabled.
Polled(a) == Recv(a) \/ RecvClosed(a) \/ RegisterFailed(a) \/ ResponseFailed(a)

\* A program settles the requests it has read: it answers or drops them.
Settle(a) == \E n \in Numbers : Reply(a, n) \/ DiscardRequest(a, n)

\* The runtime polls the router, the spawned Shutdown tasks and the agents.  No
\* caller is obliged to call anything, to cancel, to give up or to drop an agent.
Fairness ==
  /\ WF_vars(Run) /\ WF_vars(RouterStep)
  /\ \A a \in Agents : WF_vars(SendFarewell(a)) /\ WF_vars(Polled(a)) /\ WF_vars(Settle(a))

FairSpec == Spec /\ Fairness

\* A dropped agent does not stay registered.
DeadUnregistered ==
  \A a \in Agents : state[a] = "dropped" ~> channels[AddressOf[a]] # a

\* When a tracked agent dies, a registered tracker gets AgentRemoved unless it
\* loses its own registration or the router is shut down first, whatever else
\* fills its channel meanwhile.
TrackersNotified ==
  \A a \in Agents : \A b \in Agents \ {a} :
    /\ state[a] = "dropped" /\ channels[AddressOf[a]] = a
    /\ Contains(subscriptions[AddressOf[a]], AddressOf[b])
    /\ channels[AddressOf[b]] = b
    ~> \/ Contains(queue[b], AgentRemoved(AddressOf[a]))
       \/ channels[AddressOf[b]] # b
       \/ state[b] = "dropped"
       \/ phase = "stopped"

\* A requester does not wait for ever: it is answered, or its wait fails
\* because the request reached nobody or was dropped with the one it reached.
\* It may wait for ever when it asked itself: it does not receive meanwhile.
RequestResolves ==
  \A a \in Agents :
    awaiting[a] # 0 ~> \/ awaiting[a] = 0
                       \/ phase = "stopped"
                       \/ Contains(queue[a], Envelope("Request", AddressOf[a], awaiting[a]))

\* Agent::new_agent: "Create a new agent and register it with the router."
\* The call returns, one way or the other.
RegistrationResolves ==
  \A a \in Agents : state[a] = "registering" ~> state[a] # "registering" \/ phase = "stopped"
=============================================================================

# Verification of tinyroute

TLA+ models of tinyroute (the Rust crate under `src/`), the TLC configurations
that check them on small instances, and TLAPS proofs of every safety property of
theirs.
Paths such as `router.rs:251` are relative to `src/src/`.

## The system

tinyroute routes messages between *agents*, each known by an *address*. One
*router* task owns the registry; *servers* turn socket connections into agents;
*clients* are the other end of such a connection; *bridges* connect routers.

| part | state | operations | talks to |
|---|---|---|---|
| `Router` (router.rs) | inbox `rx`/`tx` (unbounded), `channels`: address to sender, `subscriptions`: address to its trackers | `new_agent`, `run` with one arm per `RouterMessage`, `unregister` | every agent's channel |
| `Agent` (agent.rs) | its receiver, its address, a `RouterTx` | `new_agent`, `send`, `send_remote`, `request`, `track`, `reverse_track`, `send_shutdown`, `shutdown`, `shutdown_router`, `recv`, `Drop` | the router's inbox |
| `Request`, `Response` (request.rs, response.rs) | the two ends of a rendezvous channel | `read`, `reply`, `reply_async`, `recv`, `recv_async` | each other |
| `Frame` (frame.rs) | a buffer and `bytes_read` | `frame_message`, `read`, `read_async`, `try_msg` | a byte stream |
| client (client.rs, client_sync.rs) | three tasks (threads) around one socket and one shared queue | `connect`, `use_reader`, `use_writer`, `run_heartbeat` | a server |
| `Server` (server.rs) | a listener, a server agent, a reader task and a `Connection` per socket | `next`, `run`, `spawn_reader`, `handle_payload`, `Connection::recv` | the router, `Frame` |
| `Bridge` (bridge.rs) | an agent, a client connection, retry and back-off state | `exec`, `connect_to`, `BridgeMessageOut::new`, `BridgeMessageIn::decode` | an agent's channel, a client |
| listeners, TLS, errors | none of their own | bind, accept, handshake | libraries |

`src/src/error.rs` is declared by lib.rs and is not in the tree; flume, tokio,
`Vec` and the byte-order conversions are modelled from their use.

### What is hard, and what makes each part correct

* **Router and agents.** Every caller runs concurrently with the router. The
  router awaits room in bounded channels in the middle of a handler, so an agent
  can stop all others. `Drop` unregisters an *address*, possibly long after
  another agent got it; `new_agent` can fail or be cancelled while its `Register`
  is in the inbox. Correct means: a channel's only sender is never copied or
  leaked (or `recv` waits for ever), nothing follows a `Shutdown`, order is kept,
  the dead leave the registry, trackers are told once, nobody loses a
  registration to somebody else, and requests and registrations come to an end.
* **Frame.** The stream is cut anywhere; the buffer grows, shifts and shrinks in
  between, with a raw pointer copy. Correct means: the messages produced are the
  messages sent, and indices stay in the buffer.
* **Client.** Three tasks end one another through a shared queue and a shared
  socket. Correct means: what was queued before a `Quit` is written, and when one
  task ends all of them do.
* **Server.** A reader and its connection's task end each other through the router
  and the peer only; timeouts cancel a half-done read; a reader's last
  `Shutdown(address)` may come late; `next` waits for the router, which may wait
  for a connection whose peer does not read. Correct means: no connection
  outlives its reader, no reader its connection, and `next` returns, as far as the
  peers let them; and a late `Shutdown` hits nobody else.
* **Bridge.** Clients are replaced while their tasks still run; retries are
  counted per reconnect, the back-off over the bridge's life, in a `u64`; an outage
  of the peer fills the agent's channel and stops the router behind it. Correct
  means: sleeps and retries as configured, a message given to a client is written
  once and in order, or lost only with its connection or its reader; old clients
  come to an end, and the far side takes a message apart as it was put together.

All hazards, with their lines, are in `PROJECT.json`.

## The modules

| module | what it is |
|---|---|
| `Router` | router.rs, agent.rs, request.rs, response.rs: the router and any number of agents |
| `MCRouter` | the constants of its TLC instances |
| `RouterProofs`, `RouterOrderProofs` | TLAPS proofs about `Router`; the second about the order of messages and the trackers |
| `Pipe` | abstract specification: a pipe of whole messages |
| `Frame` | frame.rs and the loop that reads frames, as bytes; implements `Pipe` |
| `FrameProofs` | TLAPS proofs about `Frame`, the refinement of `Pipe` among them |
| `Client` | client.rs and client_sync.rs: reader, writer, heartbeat and application |
| `ClientProofs` | TLAPS proofs about `Client` |
| `Server` | server.rs on top of `Router` (EXTENDS it): `next`, `run`, readers, connections, peers; implements `Router` |
| `MCServer` | the constants of its TLC instances |
| `ServerProofs` | TLAPS proofs about `Server`, from those about `Router` |
| `BridgeMessage` | bridge.rs, server.rs: the encoding of bridged messages and its two decoders |
| `Bridge` | bridge.rs with the clients it makes, at the level of their queue and socket |
| `MCBridge` | the constants of its TLC instance |
| `BridgeProofs`, `BridgeAccountProofs` | TLAPS proofs about `Bridge` and `BridgeMessage`; the second that no message is lost or repeated |
| `SequenceLemmas` | lemmas about numbers and sequences that these proofs share |

### Router

`channels` holds the *agent instance* whose channel is registered at an address.
Instances are the identity of a channel, so several can be given the same address
and the model tells an owner from its successor. `inbox` is the router's queue,
`queue[a]` the content of a channel, `state[a]` the life of an instance:
`new`, `registering` (inside `new_agent`), `rejected` (its error is about to be
returned), `live`, `stopping` (it received `Shutdown` or found its channel closed)
and `dropped`.

One action is one arm of `run`, one call of an agent, or one step of the runtime.
Where the code awaits in the middle, the model splits:

* `tx.send_async(..).await` in an arm: the action is disabled while the channel
  of a living agent is full, with the message still at the head of the inbox; the
  router does nothing else meanwhile, as in the code.
* `unregister`'s loop: `UnregisterAddress` does the removal and lists the notices
  in `notify`; `NotifyTracker` sends one at a time, waiting for room. No other arm
  runs before the list is empty. The loop's changes to `subscriptions`, which
  nobody but the router sees, are made with the removal.
* `ShutdownRouter`: `farewell` holds the spawned tasks; each sends by itself. The
  inbox survives the router (flume keeps it while a `RouterTx` exists), with
  whatever it holds unhandled.

`Message`, `RemoteMessage` and `Request` are routed by three arms that differ in
their payload only, and are one action here; agents themselves post the first and
the last. An agent that awaits a registration or a response does nothing else.
Answers on rendezvous channels (`success_tx`, the reply of a request) are one step
of both sides. A server's reader task is no agent but holds a `RouterTx` and an
address, and posts in its name: `ReaderPost`, `ReaderSend` and `ReaderShutdown` are
its posts, for the agents in the constant `Readers` (empty in the runs of `Router`
alone). Values and their types are left out (a failed downcast consumes
the message like a good one), and so are `PrintChannels` and channels of
capacity 0.

### Frame

Bytes are numbers, and `BUF_SIZE`, `MAX_BUF_SIZE` and `u8::MAX` are constants, so
that the boundaries fit small instances. `capacity` follows `Vec`'s amortised
growth (at least doubling), because the code compares the *capacity* with its
limits. `Read(n)` is `read`/`read_async` with any number `n` of bytes;
`TryMessage`, `TryHeartbeat`, `TryNothing` and `TryMalformed` are the outcomes of
`try_msg`. The reading loop is that of `use_reader`.

### Client

`queue` is the writer's flume channel, `accepted` and `written` are histories of
what was put in it and what was written. `threads` says which of the two modules
made the client: they differ in what dropping the writing half does to the socket
(a TLS client's half, from `tokio::io::split`, behaves like the threads').
The peer reads, and closes its side after it has seen the end of the stream; it
can also close, fail or send garbage at any time.

### Server

`Server` extends `Router`: every connection is an agent `c` of `Readers`, made by
`Accept(c)` with the steps of `new_agent`. `server` is the position of
`Server::next` in the loop of `Server::run`; `reader[c]` and `task[c]` are the
two tasks of a connection. `inbound[c]` and `unread[c]` are the two directions of
the socket, as whole frames, and `link[c]` is the socket itself.

* `ServerTold`: any message for the server's agent ends `next`, hence `run`
  (server.rs:268); so do a refused registration (`Refused`) and a listener that
  fails or a handshake that panics (`AcceptFailed`).
* `ReadEnds`, `TimedOut`: every way out of the reader's loop, and then its
  `Shutdown(sender)`. `ReadUnset` is the `unreachable!()` of frame.rs:257: the
  reader unwinds without a word.
* `TaskRecv`, `Written`, `WriteFailed`, `EndTask`: `Connection::recv` and the task
  around it. `Written` waits for room in the socket: a peer that does not read
  stops the task, its channel fills, and the router waits.
* `Shut`: what the peer sees of a dropped connection. Dropping the writing half of a
  TCP or Unix socket shuts its direction down; the halves of a TLS stream come from
  `tokio::io::split` (server.rs:172) and do nothing until both are dropped. The
  constant `Split` says which connections are of that kind.
* `PeerSends`, `PeerReads`, `PeerSeesEnd`, `LinkEnds` are the other side. A socket
  holds one frame towards the reader and `OutRoom` towards the peer.

Posts are bounded by `MaxPosts`; `InBudget` keeps back what the readers still owe
(`Owed`: the frame each has to read and its last `Shutdown`), so that the bound
cannot stop a reader: `ServerTypeOK` checks it. A frame cut by the timeout is a
connection that ends, so the framing (module `Frame`) is not needed here; a
timeout may strike while a frame is waiting. The server's agent has the
unbounded channel of the documentation in `server`, and one of a single message in
`server_slow` (tests/server.rs gives it ten).

### Bridge

`exec` is the application's loop around `Bridge::exec`: in the `select!`, inside
`connect_to` (`connecting`, `sleeping`), after an error, or dropped. `seconds` is
the back-off that the bridge keeps, `left` `connect_to`'s own copy of the retries,
`wait` the sleep it has computed. `conn` is the client in use, and `clients` all that
were ever made: replaced ones keep running, each with its queue, its socket, its
reader and its writer. `failed` and a client's `given` and `arrived` are histories:
what `exec` returned an error for, what the client's queue was given (the reader's
`Quit` included), what of that was written. A socket holds `WireRoom` frames
(`wire`) that its peer has not read; beyond that a write waits. `registered` says
that the router still holds the agent's channel; the rest of the router is
`RouterDelivers` and `RouterUnregisters`.

A client's reader ends when its connection does (`ReaderEnds`), and on a connection
that goes on taking messages (`ReaderRejects`): after a malformed header, a message
that fills the frame's buffer (`Ok(0)` on an empty slice), or when the peer has shut
down its writing side only. What `exec` forwards behind the `Quit` it leaves is accepted
and never written, although the link is open. The application may drop a future of
`exec` at any time, in the middle of `connect_to` too, and call it again (`CallAgain`) or
drop the bridge (`DropBridge`).

A message is a `Value`, `Wrong` (a value of another type, such as the
`Option<BridgeMessageOut>` that `send_bridged` posts) or `Other` (handed to the
caller). Seconds live in a word of `Modulus` values, and wrap as in a release
build; a debug build panics there. What the tasks of one client do to each
other in detail is in `Client`. In `BridgeMessage` a byte is any value; `Encode`,
`HandlePayload` and `Decode` follow the offsets of the code.

Environment: the last connection within the bound `MaxClients` is a good one (its
link stays up and sends nothing unreadable), so that a run does not end in an
outage nobody models the end of; heartbeat intervals are long enough not to
panic (see `BeatPanics` of `Client`).

## The runs

| run | shows | bounds |
|---|---|---|
| `router_shared` | types and capacities, `SenderCustody`, `ShutdownIsFinal`, `DeadIsReaped`, `Ordered` | 3 agents, 2 of them at one address, 3 posts, channels of 1: enough for a refused or cancelled registration against a live owner, a successor, and a router that waits |
| `router_own` | `NoEviction`, `NoDuplicateTracking`, and `TrackersNotified` under fairness | one address each, 2 posts besides any number of drops: track and fill the tracker's channel, then die |
| `router_requests` | `DeadUnregistered`, `RequestResolves`, `RegistrationResolves` under fairness | channels that cannot fill, 2 posts |
| `router_wedge` | violation of `RegistrationResolves` | channels of 1 |
| `router_eviction` | violation of `NoEviction` | shared address |
| `frame_stream` | `NothingLost`, `ReadsToTheEnd`, `IsPipe` (refinement), `AllArrive` under fairness | 3 messages, empty, small and large, cut in every way, within the size limit, no heartbeats |
| `frame_bounds` | `TypeOK` with the index bounds, `BufferBounded` | 2 messages up to beyond the limit, 2 heartbeats |
| `frame_heartbeat` | violation of `InOrder` | 2 messages, 1 heartbeat |
| `client_tasks` | `TypeOK`, `Drains`, `ReaderEndsOthers`, `WriterEndsOthers`, `QuitStops` under fairness and with a peer that reads and closes | 2 messages, a Quit, a heartbeat, one frame from the peer, a socket that holds one frame |
| `server` | `ServerTypeOK`, `ReaderReaps`, `ImplementsRouter` (refinement), and `ReaderEndsConnection`, `TaskEndsReader`, `NextReturns`, `ServerStops` under fairness | a server, an application, two sockets that get one address: the second is refused, or succeeds the first while its `Shutdown` is still in the inbox; anything may happen to one peer, the other only closes; 3 posts, channels and sockets of 1 |
| `server_slow` | `OwnShutdown`, and `ReaderEndsConnection`, `TaskEndsReader`, `NextReturns` under fairness | two sockets with an address each, one with split halves and a peer that may stop reading, send, close or be timed out; 5 posts through channels of 1, the server's agent included: enough for a frame in the socket, one in `write_all`, one in the channel, and a router that waits for room for the next, with the readers' `Shutdown`s still to come |
| `bridge` | `TypeOK`, `BackOffLaw`, `RetriesAsAsked`, `Accounted`, `ArrivesAsMeant`, and `AgentServed`, `ReplacedClientsEnd` under fairness | a bridge with a heartbeat that never tries again, and one that tries once more, with a sleep that is capped and that the first doubling takes out of a word of 2 bits; 2 failed connects; 2 clients, one replaced by the other, sockets of one frame; 2 messages through a channel of 1, one with a separator and an empty sender, one without bytes: the first fills the socket, the second waits behind it or behind a `Quit`. The other back-offs and retries (`Forever`, no cap) are left to `RetriesCorrect` and `BackOffCorrect` |

### Fairness

`Router`: weak fairness of `Run`, of the router's steps, of the spawned Shutdown
tasks, and per agent of receiving and of seeing the end of what it awaits
(`Polled`) and of answering or dropping a request it has read (`Settle`). That is
the runtime polling every task, and programs that keep calling `recv`. Nobody is
obliged to send, cancel, give up or drop. `Frame`: the reading loop is polled.
`Client`: its tasks are polled, sleeps end, the peer keeps reading and closes when
it sees the end of the stream; the application owes nothing, and may keep its ends
for ever. `Server`: weak fairness of `Goes` as a whole, which is weaker than
fairness to each task: something is done as long as anything can be done by the
runtime or by agents that receive. Readers are fair one by one, since another one
can be kept busy by frames that are ignored, and a timer goes off on a connection that
stays silent. Accepts, failures, sends, closes and drops are nobody's duty, and *no
peer is obliged to read or to close*: the properties ask for it where the code needs
it. `RoomInTheEnd`, the premise of `ReaderEndsConnection` and `NextReturns`, says that
no `write_all` is kept waiting for ever and that the server's own agent does not stay
full: a peer may be as slow as it likes, but one that stops reading for good stops the
router, in the code as in the model. `TaskEndsReader` asks for
a peer that closes when it sees the end of the stream, which on split halves it never
does, or for a timeout and a peer that falls silent.
`Bridge`: the application calls `exec` again after an `Ok` (nothing
obliges it to after an error), sleeps end, clients' tasks are polled; no peer need read
or close, and `ReplacedClientsEnd` excepts a writer that its peer keeps waiting for ever
(`Stalled`). Strong fairness
in three places: of `Connected`, which says that the peer is not unreachable for
ever; of taking from the agent's channel, because `select!` picks among ready
branches at random; and of a client's writer taking what is in its queue, because a
heartbeat that keeps coming waits in the same queue. Liveness is claimed only up to
bounded posts.

### What the violations say

* `router_eviction`: `new_agent` builds the `Agent` before registering it
  (agent.rs:310-311); when the address is taken, the error path drops it, `Drop`
  posts `Unregister(address)`, and the router removes the *owner*. The same
  happens on cancellation, and to a successor of a dropped agent.
* `router_wedge`: the router waits for room at an agent that waits for the router.
* `frame_heartbeat`: a heartbeat is taken off the *end* of what was read
  (frame.rs:204) and stays at the front, so whatever was read with it is dropped
  byte by byte as further heartbeats. If the read was cut inside a frame, what
  follows is garbage: `MalformedHeader`, or the `unreachable!()` of frame.rs:257.

Seen while modelling, and excluded by name in a property's premise or left to its own
text, without a run that shows the opposite:

* The buffer stops growing by capacity (frame.rs:233) and shrinks by length
  (frame.rs:225), so after one message that took it to its largest capacity no message
  above `BUF_SIZE` can be read: the empty slice reads as `Ok(0)`, the end of the stream.
  A single message beyond 66560 bytes has the same end, against "u32::MAX is the maxiumum
  payload size" (frame.rs:74). `frame_stream` and the premise `Roomy` of
  `ReadsToTheEndCorrect` stay below it; with `BufSize = 4`, `MaxBufSize = 12` and
  `Sizes = {3, 7}` TLC finds `ReadsToTheEnd` violated.
* A connection's task may end before its reader, after a failed write or a value of the
  wrong type. When the reader ends at last, its `Shutdown(sender)` (server.rs:431) is for
  whoever has the address now: `OwnShutdown` holds with one address each, and is violated
  in `server_slow` as soon as the two sockets share one.
* `write_all` (server.rs:461) has no timeout, so a connection whose peer does not read is
  not closed at the timeout of server.rs:215-217, nor ever: without its premise
  `RoomInTheEnd`, `ReaderEndsConnection` is violated.
* A `Register` still in the inbox at `ShutdownRouter` is neither answered nor dropped, for
  flume 0.11.0 keeps the messages of a channel whose receiver is gone until the last
  sender is, and the waiting server has one. `ServerStops` says that this is the only way
  in which a server outlives its router.
* Dropping a cloned std socket leaves it open, so after a `Quit`, "Shut down the client"
  (client_sync.rs:64), the reader thread of a thread client stays blocked on it until the
  peer acts. `QuitStops` excepts that reader and nothing else.
* `Agent::shutdown` and `print_channels` (agent.rs:409-418) drop the future that
  would send, so nothing is sent.
* `freq - jitter()` (client.rs:340) sleeps less than the second the assertion above
  it asks for, and panics for some frequencies between 1001 and 1999 ms
  (`BeatPanics`).
* A header of zero makes a reader panic before its `Shutdown`: the registration
  stays until the peer closes and somebody sends.
* `send_bridged` (agent.rs:435-439) boxes an `Option<BridgeMessageOut>` where the
  bridge's agent expects a `BridgeMessageOut`, so `exec` fails on it (`Wrong`).
* The back-off (bridge.rs:139) doubles without bound, also below `max`, and a
  successful connection does not set it back (`BackOffLaw` states what it comes to).
* What an old client's writer still holds may reach the peer after messages of the
  new client (`Accounted` states the order per client).

## The proofs

Every invariant and action property that a passing run checks is proved here for all
values of the constants that satisfy the named assumptions of the modules, and the
condition given with the theorem where it has one; liveness is not (below).

`RouterProofs` and `RouterOrderProofs` prove, for every set of addresses and agents,
every assignment of addresses, capacities and operations (`AgentsAssumption`) and any
number of posts:

| theorem | statement |
|---|---|
| `TypeCorrect` | `Spec => []TypeOK`, with the capacity of every channel |
| `CustodyCorrect` | `Spec => [](TypeOK /\ SenderCustody)` |
| `ShutdownCorrect` | `Spec => []ShutdownIsFinal` |
| `ReapedCorrect` | `Spec => []DeadIsReaped` |
| `NoEvictionCorrect` | if no two agents share an address, `Spec => []NoEviction` |
| `OrderedCorrect` | `Spec => []Ordered` |
| `NoDuplicateTrackingCorrect` | `Spec => []NoDuplicateTracking` |

The argument: `TypeOK` is inductive by itself. `SenderCustody` is inductive
relative to it; it is what makes the rest work, for it says where the one sender
of a channel can be, and so what a step can possibly put into a queue.
`ShutdownIsFinal` follows because the step that queues a `Shutdown` takes the last
sender away, and no step makes a new one (`NoNewSender`). `DeadIsReaped` follows
because registrations and their `Unregister` keep their order in the inbox; the
lemmas `ReapedTell` and `ReapedTake` say what appending and taking do to it.
`NoEviction` needs the companion `OnlyDeadUnregister`: with an address per agent,
an `Unregister` in the inbox names a dropped agent. The lemmas `AgentStepEffect`
and `RouterStepEffect` reduce the many actions to the few effects the invariants
can see, so each proof has one case per kind of effect. `Ordered` needs to know that
no message carries a number above `posts` (`OrderInv`): then what is appended to the
inbox is younger than all there is, and what moves from its head to a channel is
younger than that channel and older than the rest.

`FrameProofs` proves, from `FrameAssumption`, for every buffer size, limit, message
size and way to cut the stream:

| theorem | statement |
|---|---|
| `TypeCorrect`, `BufferBoundedCorrect` | `Spec => []TypeOK`, with the indices inside the buffer, and `Spec => []BufferBounded` |
| `NothingLostCorrect`, `InOrderCorrect` | `Spec => [](beats = 0 => NothingLost)`, and `InOrder` likewise |
| `FrameIsPipe` | `MaxBeats = 0 /\ Spec => IsPipe`: every step is a step of `Pipe` or a stutter |
| `ReadsToTheEndCorrect` | `Roomy /\ Spec => [](beats = 0 => ReadsToTheEnd)` |

`StreamInv` says that the buffer and the wire together are the frames of the messages
not yet produced; so the header at the front is the one that was written for the next
message (`FirstHeader`, with `BigEndian` for the conversion), and what the reader takes
is that message (`FirstPayload`). A heartbeat breaks it (`frame_heartbeat`), hence
`beats = 0`, which holds for as long as none was sent. `Roomy` is a condition on the
sizes: twice the largest frame with `BUF_SIZE` stays below `MAX_BUF_SIZE`, so the buffer
never gets to its largest capacity, where a later message is lost.
In the code that is messages of up to 50172 bytes. Under it, `RoomInv` says that there
is always room to grow, and that the loop reads only when the frame at the front is
incomplete.

`ClientProofs` proves, for both kinds of client, any number of messages and any socket:

| theorem | statement |
|---|---|
| `TypeCorrect` | `Spec => []TypeOK` |
| `DrainsCorrect` | `Spec => []Drains` |

`Drains` speaks of the first `Quit` or `Raw` in what was accepted, and is not inductive:
`DrainInv` says instead that what was written holds neither, and is a beginning of what
was accepted that ends at one of them or at the end.

`ServerProofs` proves, from `AgentsAssumption` and `ServerAssumption`, for any
number of connections, addresses shared or not:

| theorem | statement |
|---|---|
| `ServerImplementsRouter` | `ServerSpec => ImplementsRouter`: every step of a server is a step of `Router` or a stutter |
| `ServerKeepsCustody`, `ServerReapsTheDead`, `ServerKeepsOrder` | so `TypeOK`, `SenderCustody`, `ShutdownIsFinal`, `DeadIsReaped`, `Ordered` and `NoDuplicateTracking` hold with a server |
| `ReaderReapsCorrect` | `ServerSpec => []ReaderReaps` |
| `OwnShutdownCorrect` | if no two agents share an address, `ServerSpec => []OwnShutdown` |
| `ServerNoEviction` | if no two agents share an address, `ServerSpec => []NoEviction` |
| `ServerTypeCorrect` | `ServerSpec => []ServerTypeOK`, with the budget of the posts |

The refinement has the identity as its mapping; lemma by lemma, the server's calls,
the connections' tasks and the application are steps of agents. `ReaderReaps` is
not inductive: the `Shutdown` that a reader left in the inbox must find the
registration it is for, and a `Register` behind it would escape it. The
strengthening `ReadersSettled` adds that an agent whose reader was ever started
is registered for good or not at all (`Settled`): its `Register` is out of the
inbox, and nothing brings it back. `OwnShutdown` is inductive with `ShutdownsOwn`, which
says of the inbox what it says of the channels: a `Shutdown` for a connection's address
is there only if its reader has ended (`InboxChange` has what a program without
shutdowns of its own can post, `ShutdownArrives` how one gets into a channel). The budget holds because a reader that posts owes
one post less, by the cardinalities of `Running` and `Waiting`, and `InBudget` guards
everybody else's.

`BridgeProofs` and `BridgeAccountProofs` prove, for every word size, capacity, message
content and number of messages, clients and failures:

| theorem | statement |
|---|---|
| `RoundTrip` | addresses without a separator, any bytes: `Received(m) = Meant(m)` |
| `TypeCorrect` | `Spec => []TypeOK` |
| `RetriesCorrect` | `Spec => RetriesAsAsked`, from the invariant that ties `left` to the failures of this `connect_to` |
| `BackOffCorrect` | `Spec => []BackOffLaw` |
| `ArrivalsCorrect` | `Spec => []ArrivesAsMeant`, by `RoundTrip` |
| `AccountedCorrect` | `Spec => []Accounted` |

`BackOffLaw` rests on `Doubling` (the seconds are the first ones times a power of two, in
the word) and on `ModDoubled`: wrapping each time comes to the same as wrapping once. The
powers of two are a recursive function; that there is one (`DoubledLaw`) is shown from
its finite beginnings. `Accounted` is inductive together with three facts: the numbers
in the agent's channel increase, all that was given or failed is older than they are
(`Older`), and the bridge holds the newest client (`Newest`), so whatever is forwarded is
the youngest message of the youngest client. A client's own part of it, `Kept`, is
inductive with the types alone: it says that a writer that stopped on an open link has
written all it was given or stands before a `Quit`, and that a `Quit` is there only when
the reader has ended. So a message behind the `Quit` of a reader that gave up on a working
connection is counted as lost, as it is in the code.

Where a fact is about a recursive definition or a fold (`FlattenSeq`, `Doubled`), the
library's induction theorems cannot be used, for they take operators as parameters;
`SequenceLemmas` does induction over the *set* of the numbers that satisfy the fact
(`UpTo`, `AllNats`).

Model-checked only: all liveness (`TrackersNotified`, `DeadUnregistered`,
`RequestResolves`, `RegistrationResolves`, `AllArrive`, `ReaderEndsOthers`,
`WriterEndsOthers`, `QuitStops`, `ReaderEndsConnection`, `TaskEndsReader`,
`NextReturns`, `ServerStops`, `AgentServed`, `ReplacedClientsEnd`), which needs
`ENABLED` and is out of the prover's reach.

## The plan

Done: `Router`, `Frame` with `Pipe`, `Client`, `Server` on top of `Router`,
`Bridge` with `BridgeMessage`, and proofs about each. An abstract registry, planned
once, would say less than `SenderCustody`, `DeadIsReaped` and `NoEviction` do, and was
given up.

Left, in order: that a bridge's clients are the writers of `Client`, with a mapping of
their queues; `InOrder` up to the first heartbeat that is cut, in place of none at all.

## Not modelled

* The handshake and the certificates of TLS (its split halves are `Split`), the
  listeners and `TcpClient`/`UdsClient`: calls of libraries without state of this code. Their outcomes are `Accept`, `AcceptFailed`, `Connected` and
  `ConnectFailed`.
* `PrintChannels`, the text of errors, address parsing and formatting, the types of
  values beyond `Wrong`: no property is about them.
* Channels of capacity 0, `Frame::extend` (without a caller), and the `examples/`.
* The composition of `Frame` with `Server`, and of `Bridge` with a whole remote
  router: each pair meets at whole frames and at `BridgeMessage`, and together they
  are out of TLC's reach.

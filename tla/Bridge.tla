------------------------------- MODULE Bridge -------------------------------
(***************************************************************************)
(* A bridge of tinyroute (src/src/bridge.rs): an agent whose messages go   *)
(* to another router, through a client that is replaced whenever its       *)
(* connection ends.                                                        *)
(*                                                                         *)
(*   router --agent's channel--> exec --client's queue--> writer --> peer  *)
(*                                ^------- output ------- reader <-- peer  *)
(*                                                                         *)
(* A client that was replaced lives on until its own tasks end: what its   *)
(* writer still holds may reach the peer after newer messages.  Module     *)
(* Client has the tasks of one client in full.                             *)
(***************************************************************************)
EXTENDS BridgeMessage, SequencesExt

CONSTANTS
  Asked,       \* the reconnect, retry and heartbeat Bridge::new may be given
  Bytes,       \* the values of a byte
  Contents,    \* what the k-th message holds: recipient, sender, bytes
  Cap,         \* the capacity of the agent's channel
  Modulus,     \* of the seconds (2^64 in the code)
  MaxMsgs,     \* bound: messages the router delivers to the agent
  WireRoom,    \* frames a socket holds before write_all waits for the peer
  MaxClients,  \* bound: connections made
  MaxFails     \* bound: failed connects

Word == 0..(Modulus - 1)

\* `max: None` is the largest cap.
NoMax == Modulus - 1

Reconnect == [kind : {"Constant", "Exponential"}, seconds : Word, max : Word]
Retry == [kind : {"Never", "Forever", "Count"}, n : Nat]

ASSUME BridgeAssumption ==
  /\ Modulus \in Nat \ {0}
  /\ Asked \subseteq [reconnect : Reconnect, retry : Retry, heartbeat : BOOLEAN]
  /\ Sep \in Bytes
  /\ Contents \in [1..MaxMsgs -> [remote : Seq(Bytes), sender : Seq(Bytes), bytes : Seq(Bytes)]]
  /\ \A k \in 1..MaxMsgs : NoSep(Contents[k].remote) /\ NoSep(Contents[k].sender)
  /\ Cap \in Nat \ {0} /\ WireRoom \in Nat \ {0}
  /\ MaxMsgs \in Nat /\ MaxClients \in Nat /\ MaxFails \in Nat

VARIABLES
  asked,     \* what Bridge::new was given
  exec,      \* where the application is in its loop of exec calls
  seconds,   \* Bridge::reconnect's seconds
  left,      \* connect_to's own copy of the retries
  wait,      \* connect_to's sleep_time
  conn,      \* Bridge::connection: a client, 0 for None
  agent,     \* the agent's channel
  clients,   \* every client made, oldest first
  failed,    \* the messages exec returned an Err for
  fails,     \* failed connects: in this connect_to, and in all
  sent,      \* messages delivered to the agent
  registered \* the router still has the agent's channel

connecting == <<seconds, left, wait, fails>>
vars == <<asked, exec, seconds, left, wait, conn, agent, clients, failed, fails, sent, registered>>

-----------------------------------------------------------------------------
\* A Value is a BridgeMessageOut; Wrong is a value of another type, such as the
\* Option<BridgeMessageOut> that Agent::send_bridged posts; Other is a Shutdown, or
\* anything else exec hands to its caller.
Value(k) == [kind |-> "Value", id |-> k]
Wrong(k) == [kind |-> "Wrong", id |-> k]
Other(k) == [kind |-> "Other", id |-> k]

AgentMessages == [kind : {"Value", "Wrong", "Other"}, id : 1..MaxMsgs]

\* ClientMessage::Payload is its number, Quit is 0.  A Heartbeat is not put in the
\* queue: the writer may find one at any time.
Quit == 0

\* wire: how many frames the peer has not read; given: what the queue was given, the
\* reader's Quit included; arrived: the messages written to the socket.
NewClient ==
  [queue |-> <<>>, writer |-> "run", reader |-> "run", link |-> "open", output |-> 0,
   wire |-> 0, given |-> <<>>, arrived |-> <<>>]

Client ==
  [queue : Seq(0..MaxMsgs), writer : {"run", "beat", "done"}, reader : {"run", "done", "panicked"},
   link : {"open", "closed", "broken"}, output : 0..1,
   wire : 0..WireRoom, given : Seq(0..MaxMsgs), arrived : Seq(1..MaxMsgs)]

-----------------------------------------------------------------------------
(* connect_to                                                              *)

\* Mutant: the retries are passed by reference too.
RetriesKept ==
  /\ exec' = "connecting"
  /\ left' = IF conn = 0 THEN asked.retry.n ELSE left
  /\ fails' = [fails EXCEPT !.now = 0]
  /\ UNCHANGED <<seconds, wait>>

\* reconnect passes `retry`, a Copy, and the back-off by reference: the retries
\* start again, the back-off goes on.
StartConnecting ==
  /\ exec' = "connecting"
  /\ left' = asked.retry.n
  /\ fails' = [fails EXCEPT !.now = 0]
  /\ UNCHANGED <<seconds, wait>>

Connected ==
  /\ exec = "connecting"
  /\ clients' = Append(clients, NewClient)
  /\ conn' = Len(clients')
  /\ exec' = "select"
  /\ UNCHANGED connecting /\ UNCHANGED <<asked, agent, failed, sent, registered>>

\* Mutant: the cap is put on the seconds that are kept.
BackOffCapped ==
  IF asked.reconnect.kind = "Constant"
  THEN wait' = asked.reconnect.seconds /\ UNCHANGED seconds
  ELSE /\ wait' = Min({seconds * 2, asked.reconnect.max})
       /\ seconds' = wait'

\* Mutant: the seconds are kept in a wider type.
BackOffWide ==
  IF asked.reconnect.kind = "Constant"
  THEN wait' = asked.reconnect.seconds /\ UNCHANGED seconds
  ELSE /\ wait' = Min({seconds, asked.reconnect.max})
       /\ seconds' = seconds * 2

\* The sleep is the seconds, capped; they are doubled in any case.
BackOff ==
  IF asked.reconnect.kind = "Constant"
  THEN wait' = asked.reconnect.seconds /\ UNCHANGED seconds
  ELSE /\ wait' = Min({seconds, asked.reconnect.max})
       /\ seconds' = (seconds * 2) % Modulus

RetryOrGiveUp ==
  IF asked.retry.kind = "Never" \/ (asked.retry.kind = "Count" /\ left = 0)
  THEN exec' = "failed" /\ UNCHANGED left
  ELSE exec' = "sleeping" /\ left' = IF asked.retry.kind = "Count" THEN left - 1 ELSE left

ConnectFailed ==
  /\ exec = "connecting" /\ fails.all < MaxFails
  /\ BackOff
  /\ RetryOrGiveUp
  /\ fails' = [now |-> fails.now + 1, all |-> fails.all + 1]
  /\ UNCHANGED <<asked, conn, agent, clients, failed, sent, registered>>

\* Mutant: there is no attempt after the last sleep.
WakeUpToRetry ==
  /\ exec = "sleeping"
  /\ asked.retry.kind = "Count" => left > 0
  /\ exec' = "connecting"
  /\ UNCHANGED connecting /\ UNCHANGED <<asked, conn, agent, clients, failed, sent, registered>>

WakeUp ==
  /\ exec = "sleeping"
  /\ exec' = "connecting"
  /\ UNCHANGED connecting /\ UNCHANGED <<asked, conn, agent, clients, failed, sent, registered>>

-----------------------------------------------------------------------------
(* exec                                                                    *)

FirstConnect ==
  /\ exec = "select" /\ conn = 0
  /\ StartConnecting
  /\ UNCHANGED <<asked, conn, agent, clients, failed, sent, registered>>

Selecting == exec = "select" /\ conn # 0

\* recv_async on the client's output: closed once the reader is gone and what it
\* left has been taken.  The old client stays in `connection` for now.
ClientClosed ==
  /\ Selecting
  /\ clients[conn].reader # "run" /\ clients[conn].output = 0
  /\ StartConnecting
  /\ UNCHANGED <<asked, conn, agent, clients, failed, sent, registered>>

\* What the peer sends is taken and dropped.
InputDropped ==
  /\ Selecting /\ clients[conn].output > 0
  /\ clients' = [clients EXCEPT ![conn].output = @ - 1]
  /\ UNCHANGED connecting /\ UNCHANGED <<asked, exec, conn, agent, failed, sent, registered>>

TakesFromAgent ==
  /\ Selecting /\ agent # <<>>
  /\ agent' = Tail(agent)
  /\ UNCHANGED connecting /\ UNCHANGED <<asked, conn, sent, registered>>

Forwarded ==
  /\ TakesFromAgent /\ Head(agent).kind = "Value"
  /\ clients[conn].writer # "done"
  /\ clients' = [clients EXCEPT ![conn].queue = Append(@, Head(agent).id),
                                ![conn].given = Append(@, Head(agent).id)]
  /\ UNCHANGED <<exec, failed>>

\* The client's writer is gone, or the value has the wrong type: exec returns an
\* error and the message is lost.
NotForwarded ==
  /\ TakesFromAgent
  /\ \/ Head(agent).kind = "Value" /\ clients[conn].writer = "done"
     \/ Head(agent).kind = "Wrong"
  /\ exec' = "failed"
  /\ failed' = failed \cup {Head(agent).id}
  /\ UNCHANGED clients

HandedOver ==
  /\ TakesFromAgent /\ Head(agent).kind = "Other"
  /\ UNCHANGED <<exec, clients, failed>>

\* The agent's channel is closed and empty: exec returns an error.
AgentClosed ==
  /\ Selecting /\ agent = <<>> /\ ~registered
  /\ exec' = "failed"
  /\ UNCHANGED connecting /\ UNCHANGED <<asked, conn, agent, clients, failed, sent, registered>>

\* The application calls exec again after an error; or it drops the future exec
\* returned, at a timeout of its own for instance, and calls it anew.
CallAgain ==
  /\ exec \in {"failed", "connecting", "sleeping"} /\ exec' = "select"
  /\ UNCHANGED connecting /\ UNCHANGED <<asked, conn, agent, clients, failed, sent, registered>>

\* It drops the bridge, wherever exec is.
DropBridge ==
  /\ exec # "dropped"
  /\ exec' = "dropped" /\ conn' = 0 /\ agent' = <<>> /\ registered' = FALSE
  /\ UNCHANGED connecting /\ UNCHANGED <<asked, clients, failed, sent>>

-----------------------------------------------------------------------------
(* The clients: use_reader, use_writer, run_heartbeat                      *)

ClientOnly == UNCHANGED connecting /\ UNCHANGED <<asked, exec, conn, agent, failed, sent, registered>>

ReaderGets(c) ==
  /\ clients[c].reader = "run" /\ clients[c].link = "open" /\ conn = c /\ clients[c].output = 0
  /\ clients' = [clients EXCEPT ![c].output = 1]
  /\ ClientOnly

\* Mutant: the reader ends without a word.
EndReaderSilently(c) ==
  /\ clients' = [clients EXCEPT ![c].reader = "done"]
  /\ ClientOnly

\* Whatever ends the reader's loop, it leaves a Quit for the writer.
EndReader(c) ==
  /\ clients' = IF clients[c].writer = "done"
                THEN [clients EXCEPT ![c].reader = "done"]
                ELSE [clients EXCEPT ![c].reader = "done",
                                     ![c].queue = Append(@, Quit),
                                     ![c].given = Append(@, Quit)]
  /\ ClientOnly

\* The connection has ended.
ReaderEnds(c) ==
  /\ clients[c].reader = "run" /\ clients[c].link # "open"
  /\ EndReader(c)

\* A malformed header, a message that fills the buffer, a peer that has shut down its
\* writing side only: the reader ends on a connection that still takes messages.
ReaderRejects(c) ==
  /\ clients[c].reader = "run" /\ clients[c].link = "open" /\ c < MaxClients
  /\ EndReader(c)

\* The peer sent a header of zero: the reader panics, without a Quit.
ReaderPanics(c) ==
  /\ clients[c].reader = "run" /\ clients[c].link = "open" /\ c < MaxClients
  /\ clients' = [clients EXCEPT ![c].reader = "panicked"]
  /\ ClientOnly

Writing(c) == clients[c].writer = "run" /\ clients[c].queue # <<>> /\ Head(clients[c].queue) # Quit

CanWrite(c) == clients[c].link # "broken" /\ clients[c].wire < WireRoom

\* Mutant: the message stays at the head of the queue.
WritesTwice(c) ==
  /\ Writing(c) /\ CanWrite(c) /\ Len(clients[c].arrived) <= MaxMsgs
  /\ clients' = [clients EXCEPT ![c].arrived = Append(@, Head(clients[c].queue)),
                                ![c].wire = @ + 1]
  /\ ClientOnly

\* write_all is done with the message at the head of the queue.  A socket its peer
\* has closed may still take it.
Writes(c) ==
  /\ Writing(c) /\ CanWrite(c)
  /\ clients' = [clients EXCEPT ![c].queue = Tail(@),
                                ![c].arrived = Append(@, Head(clients[c].queue)),
                                ![c].wire = @ + 1]
  /\ ClientOnly

\* The writer takes a heartbeat from its queue, and writes it; not while it waits in
\* write_all with a message.
BeatTaken(c) ==
  /\ asked.heartbeat /\ clients[c].writer = "run" /\ (Writing(c) => CanWrite(c))
  /\ clients' = [clients EXCEPT ![c].writer = "beat"]
  /\ ClientOnly

BeatWritten(c) ==
  /\ clients[c].writer = "beat" /\ CanWrite(c)
  /\ clients' = [clients EXCEPT ![c].writer = "run", ![c].wire = @ + 1]
  /\ ClientOnly

\* A write fails, or a Quit is next, or nobody is left to send: the writer ends.
\* The heartbeat keeps a sender of its own until a send fails.
WriterEnds(c) ==
  /\ \/ (Writing(c) \/ clients[c].writer = "beat") /\ clients[c].link # "open"
     \/ clients[c].writer = "run" /\ clients[c].queue # <<>> /\ Head(clients[c].queue) = Quit
     \/ /\ clients[c].writer = "run" /\ clients[c].queue = <<>>
        /\ conn # c /\ clients[c].reader # "run" /\ ~asked.heartbeat
  /\ clients' = [clients EXCEPT ![c].writer = "done", ![c].queue = <<>>]
  /\ ClientOnly

-----------------------------------------------------------------------------
(* The peer, and the router                                                *)

PeerReads(c) ==
  /\ clients[c].link = "open" /\ clients[c].wire > 0
  /\ clients' = [clients EXCEPT ![c].wire = @ - 1]
  /\ ClientOnly

\* It closes the connection, of its own accord or when it sees the end.  The last
\* connection within the bound is a good one.
LinkEnds(c) ==
  /\ clients[c].link = "open" /\ c < MaxClients
  /\ \E l \in {"closed", "broken"} : clients' = [clients EXCEPT ![c].link = l]
  /\ ClientOnly

PeerSeesEnd(c) ==
  /\ clients[c].link = "open" /\ clients[c].writer = "done" /\ clients[c].wire = 0
  /\ clients' = [clients EXCEPT ![c].link = "closed"]
  /\ ClientOnly

\* The router waits while the agent's channel is full.
RouterDelivers ==
  /\ registered /\ exec # "dropped" /\ sent < MaxMsgs /\ Len(agent) < Cap
  /\ sent' = sent + 1
  /\ \E m \in {Value(sent'), Wrong(sent'), Other(sent')} : agent' = Append(agent, m)
  /\ UNCHANGED connecting /\ UNCHANGED <<asked, exec, conn, clients, failed, registered>>

\* It drops the agent's channel: a Shutdown, or an Unregister of the address.
RouterUnregisters ==
  /\ registered /\ exec # "dropped"
  /\ registered' = FALSE
  /\ UNCHANGED connecting /\ UNCHANGED <<asked, exec, conn, agent, clients, failed, sent>>

-----------------------------------------------------------------------------
Init ==
  /\ asked \in Asked
  /\ exec = "select" /\ conn = 0
  /\ seconds = asked.reconnect.seconds
  /\ left = 0 /\ wait = 0 /\ fails = [now |-> 0, all |-> 0]
  /\ agent = <<>> /\ clients = <<>> /\ failed = {}
  /\ sent = 0 /\ registered = TRUE

ExecStep ==
  \/ FirstConnect \/ Connected \/ ConnectFailed \/ WakeUp
  \/ ClientClosed \/ InputDropped \/ Forwarded \/ NotForwarded \/ HandedOver \/ AgentClosed

ClientStep(c) == ReaderEnds(c) \/ Writes(c) \/ BeatTaken(c) \/ BeatWritten(c) \/ WriterEnds(c)
PeerStep(c) ==
  ReaderGets(c) \/ ReaderRejects(c) \/ ReaderPanics(c) \/ PeerReads(c) \/ LinkEnds(c) \/ PeerSeesEnd(c)

Next ==
  \/ ExecStep \/ CallAgain \/ DropBridge
  \/ \E c \in DOMAIN clients : ClientStep(c) \/ PeerStep(c)
  \/ RouterDelivers \/ RouterUnregisters

Spec == Init /\ [][Next]_vars

\* The application calls exec again after every Ok, sleeps end, and a client's
\* tasks are polled.  Some attempt to connect succeeds in the end.  select! picks
\* among its ready branches at random, so a message in the agent's channel is not
\* passed over for ever for what the peer sends; and the writer takes what waits in
\* its queue in turn, so heartbeats do not keep it from the rest.  Nobody is obliged
\* to call exec again after an error, nor a peer to read or to close.
FairSpec ==
  /\ Spec
  /\ WF_vars(ExecStep) /\ SF_vars(Connected) /\ SF_vars(Forwarded \/ NotForwarded \/ HandedOver)
  /\ \A c \in 1..MaxClients :
       /\ WF_vars(c \in DOMAIN clients /\ (ReaderEnds(c) \/ BeatWritten(c)))
       /\ SF_vars(c \in DOMAIN clients /\ (Writes(c) \/ WriterEnds(c)))

-----------------------------------------------------------------------------
(* Properties                                                              *)

\* Types, and the bounds of the instance.
TypeOK ==
  /\ asked \in Asked
  /\ exec \in {"select", "connecting", "sleeping", "failed", "dropped"}
  /\ seconds \in Word /\ wait \in Word /\ left \in Nat
  /\ conn \in 0..Len(clients)
  /\ agent \in Seq(AgentMessages) /\ Len(agent) <= Cap
  /\ clients \in Seq(Client)
  /\ failed \subseteq 1..MaxMsgs
  /\ sent \in 0..MaxMsgs /\ registered \in BOOLEAN
  /\ fails \in [now : 0..MaxFails, all : 0..MaxFails] /\ fails.now <= fails.all

\* Two to the n.
Doubled[n \in Nat] == IF n = 0 THEN 1 ELSE 2 * Doubled[n - 1]

\* connect_to: a sleep depends on nothing but the number of failures in the life
\* of the bridge.  It doubles with each, those included after which the bridge
\* gave up, and is not set back by a connection; capped, and zero once the
\* doubling has left the word.
BackOffLaw ==
  exec = "sleeping" =>
    wait = IF asked.reconnect.kind = "Constant"
           THEN asked.reconnect.seconds
           ELSE Min({(asked.reconnect.seconds * Doubled[fails.all - 1]) % Modulus, asked.reconnect.max})

\* Retry: Count(n) allows n retries of each reconnect, counted anew however the
\* one before ended; Never allows none; and exec gives up at once when they are
\* used up, without another sleep.  Forever never gives up.
RetriesAsAsked ==
  [][fails'.all > fails.all =>
       LET allowed == IF asked.retry.kind = "Never" THEN 0 ELSE asked.retry.n IN
       exec' = IF asked.retry.kind # "Forever" /\ fails'.now > allowed THEN "failed" ELSE "sleeping"]_vars

\* No message was given to two clients, or twice to one, or after a later one.
GivenInOrder ==
  \A c, d \in DOMAIN clients :
    \A i \in DOMAIN clients[c].given, j \in DOMAIN clients[d].given :
      /\ clients[c].given[i] # Quit /\ clients[d].given[j] # Quit
      /\ c < d \/ (c = d /\ i < j)
      => clients[c].given[i] < clients[d].given[j]

\* What a client was given it has written, in that order, or still holds; or its
\* connection has ended, or its reader has: the writer stops at the reader's Quit.
Kept(k) ==
  /\ k.writer # "done" => k.given = k.arrived \o k.queue
  /\ IsPrefix(k.arrived, k.given)
  /\ k.writer = "done" /\ k.link = "open" =>
       k.arrived = k.given \/ k.given[Len(k.arrived) + 1] = Quit
  /\ (\E i \in DOMAIN k.given : k.given[i] = Quit) => k.reader = "done"

\* A message for which exec returned Ok was given to one client, once, in the order
\* the router delivered them; and it was written by that client, in that order,
\* or still waits there, or it is lost.  A bridge that reconnects repeats nothing.
\* What is lost was given to a client whose connection had ended or, on a connection
\* that still works, to one whose reader had: it was behind the reader's Quit.
Accounted ==
  /\ GivenInOrder
  /\ \A c \in DOMAIN clients : \A i \in DOMAIN clients[c].given : clients[c].given[i] \notin failed
  /\ \A c \in DOMAIN clients : Kept(clients[c])

\* What reaches the peer is taken apart there as it was put together here: neither
\* a separator in the message nor an empty sender misleads handle_payload or
\* BridgeMessageIn::decode.
ArrivesAsMeant ==
  \A c \in DOMAIN clients : \A i \in DOMAIN clients[c].arrived :
    LET m == Contents[clients[c].arrived[i]] IN Received(m) = Meant(m)

\* What waits in the channel of the bridge's agent is taken in the end, unless exec
\* returned an error or the bridge was dropped: a router that waits for room in it
\* waits no longer than the outages of the peer and the sleeps last.
AgentServed ==
  agent # <<>> ~> agent = <<>> \/ exec \in {"failed", "dropped"}

\* The writer is in write_all, and there is no room in the socket.
Stalled(c) ==
  /\ Writing(c) \/ clients[c].writer = "beat"
  /\ clients[c].link = "open" /\ clients[c].wire = WireRoom

\* A client whose reader has ended comes to its end, replaced or not, unless its
\* peer keeps the writer waiting for ever: write_all has no timeout, and the Quit is
\* behind it.  Only a client whose reader panicked, without a Quit, may keep its
\* writer and the connection: for as long as the bridge has not replaced it, or
\* for ever with a heartbeat.
ReplacedClientsEnd ==
  \A c \in 1..MaxClients :
    []<>~(c \in DOMAIN clients /\ Stalled(c)) =>
      (c \in DOMAIN clients /\ clients[c].reader # "run" ~>
        /\ c \in DOMAIN clients
        /\ \/ clients[c].writer = "done"
           \/ clients[c].reader = "panicked" /\ (asked.heartbeat \/ conn = c))
=============================================================================

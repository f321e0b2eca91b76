------------------------------- MODULE Client -------------------------------
(***************************************************************************)
(* A client of tinyroute: the tasks that connect of src/src/client.rs      *)
(* spawns, and the threads of src/src/client_sync.rs, around a connection. *)
(*                                                                         *)
(*   application --queue--> writer --wire--> peer                          *)
(*   application <-output-- reader <-inbound- peer                         *)
(*                                                                         *)
(* The writer's queue is unbounded and shared: the application, the        *)
(* heartbeat and the reader all hold a sender.  The reader asks the writer *)
(* to Quit when it ends; nothing asks the reader.  Frames are whole here:  *)
(* module Frame has the framing.                                           *)
(***************************************************************************)
EXTENDS Integers, Sequences, FiniteSets, SequencesExt

CONSTANTS
  Freqs,         \* the heartbeats given to connect, in ms; 0 for None
  Jitters,       \* values of jitter(), in ms
  WireRoom,      \* frames the socket holds before write_all waits for the peer
  MaxSends,      \* bound: messages the application sends, its Quit apart
  MaxBeats,      \* bound: heartbeats sent
  MaxFrames      \* bound: frames the peer sends

ASSUME ClientAssumption ==
  /\ Freqs \subseteq Nat /\ Jitters \subseteq 100..1999
  /\ WireRoom \in Nat \ {0}
  /\ MaxSends \in Nat /\ MaxBeats \in Nat /\ MaxFrames \in Nat

VARIABLES
  threads,  \* made by client_sync::connect; by client::connect if FALSE
  freq,     \* the heartbeat asked for
  queue,    \* the writer's channel
  accepted, \* every message that was put in it
  writer,   \* "run" or "done"
  written,  \* every frame it has written
  beat,     \* run_heartbeat: "off", "sleep", "done" or "panicked"
  reader,   \* "run", "done" or "panicked"
  output,   \* the number of received messages the application has not taken
  holds,    \* the ends the application has: a subset of {"sender", "receiver"}
  wire,     \* the number of frames written and not yet read by the peer
  shut,     \* the client's direction of the socket is shut down
  inbound,  \* frames from the peer, not yet read
  frames,   \* how many it has sent
  link      \* "open", "closed" by the peer, or "broken"

made == <<threads, freq>>
writing == <<queue, accepted, writer, written, wire, shut>>
reading == <<reader, output>>
peer == <<inbound, frames, link>>
vars == <<threads, freq, queue, accepted, writer, written, beat, reader, output,
          holds, wire, shut, inbound, frames, link>>

-----------------------------------------------------------------------------
(* ClientMessage                                                           *)

Quit == [kind |-> "Quit", id |-> 0]
Heartbeat == [kind |-> "Heartbeat", id |-> 0]
Raw == [kind |-> "Raw", id |-> 0]
Payload(k) == [kind |-> "Payload", id |-> k]

ClientMessage == {Quit, Heartbeat, Raw} \cup {Payload(k) : k \in 1..MaxSends}

\* What the peer may send, as Frame::try_msg sees it.
Frames == {"Message", "Heartbeat", "Malformed", "Unset"}

\* Sender::send of a flume channel: an error, and nothing more, once the
\* receiver is gone.
Enqueue(m) ==
  IF writer = "run"
  THEN queue' = Append(queue, m) /\ accepted' = Append(accepted, m)
  ELSE UNCHANGED <<queue, accepted>>

\* How many messages of these kinds were put in it.
Count(kinds) == Cardinality({i \in DOMAIN accepted : accepted[i].kind \in kinds})

-----------------------------------------------------------------------------
(* run_heartbeat                                                           *)

\* sleep(freq - jitter()): the subtraction panics below zero.
BeatPanics ==
  /\ beat = "sleep" /\ \E j \in Jitters : j > freq
  /\ beat' = "panicked"
  /\ UNCHANGED made /\ UNCHANGED <<writing, reading, holds, peer>>

BeatsLeft == Count({"Heartbeat"}) < MaxBeats

Beat ==
  /\ beat = "sleep" /\ \E j \in Jitters : j <= freq
  /\ writer = "run" => BeatsLeft
  /\ Enqueue(Heartbeat)
  /\ beat' = IF writer = "run" THEN "sleep" ELSE "done"
  /\ UNCHANGED made /\ UNCHANGED <<writer, written, wire, shut, reading, holds, peer>>

-----------------------------------------------------------------------------
(* use_reader                                                              *)

Reads(kind) ==
  /\ reader = "run" /\ inbound # <<>> /\ Head(inbound) = kind
  /\ inbound' = Tail(inbound)
  /\ UNCHANGED made /\ UNCHANGED <<beat, holds, frames, link>>

\* Mutant: a message for an application that has gone is kept.
ReadMessageAlways ==
  Reads("Message") /\ output' = output + 1 /\ UNCHANGED <<writing, reader>>

\* A failed send to an application that dropped its receiver is only logged.
ReadMessage ==
  /\ Reads("Message")
  /\ output' = IF "receiver" \in holds THEN output + 1 ELSE output
  /\ UNCHANGED <<writing, reader>>

ReadHeartbeat == Reads("Heartbeat") /\ UNCHANGED <<writing, reading>>

\* Mutant: the reader ends without a word.
EndReaderSilently == reader' = "done" /\ UNCHANGED <<writing, output>>

\* The reader ends: it asks the writer to quit.
EndReader ==
  /\ reader' = "done"
  /\ Enqueue(Quit)
  /\ UNCHANGED <<writer, written, wire, shut, output>>

ReadMalformed == Reads("Malformed") /\ EndReader

\* unreachable!() in Frame::range unwinds the task past its Quit.
ReadUnset == Reads("Unset") /\ reader' = "panicked" /\ UNCHANGED <<writing, output>>

\* Ok(0) at the end of the stream, or a failed read.
ReadEnd ==
  /\ reader = "run"
  /\ \/ link = "closed" /\ inbound = <<>>
     \/ link = "broken"
  /\ EndReader
  /\ UNCHANGED made /\ UNCHANGED <<beat, holds, peer>>

-----------------------------------------------------------------------------
(* use_writer                                                              *)

\* Mutant: the writing half is kept.
EndWriterOpen ==
  /\ writer' = "done" /\ queue' = <<>>
  /\ UNCHANGED <<accepted, written, wire, shut>>

\* The writer returns and drops the channel's receiver and the writing half of
\* the socket: tokio's shuts the socket down for writing, a cloned std stream
\* does not.
EndWriter ==
  /\ writer' = "done" /\ queue' = <<>>
  /\ shut' = ~threads
  /\ UNCHANGED <<accepted, written, wire>>

\* The writer has received the message m.
Takes(m) ==
  /\ writer = "run" /\ queue # <<>> /\ m = Head(queue)
  /\ UNCHANGED made /\ UNCHANGED <<beat, reading, holds, peer>>

\* Mutant: a Quit is passed over while there is more to write.
WriteStopLast ==
  \E m \in {Quit, Raw} :
    /\ Takes(m)
    /\ IF Len(queue) = 1
       THEN EndWriter
       ELSE queue' = Tail(queue) /\ UNCHANGED <<accepted, writer, written, wire, shut>>

\* Quit, and a Raw message, which has no framing.
WriteStop == \E m \in {Quit, Raw} : Takes(m) /\ EndWriter

\* write_all of a frame or of the heartbeat's one byte.
Write ==
  \E m \in ClientMessage \ {Quit, Raw} :
    /\ Takes(m)
    /\ link # "broken" /\ wire < WireRoom
    /\ queue' = Tail(queue) /\ written' = Append(written, m)
    /\ wire' = wire + 1
    /\ UNCHANGED <<accepted, writer, shut>>

WriteFailed ==
  \E m \in ClientMessage \ {Quit, Raw} : Takes(m) /\ link # "open" /\ EndWriter

\* recv fails: every sender is gone.  A reader that ended in order left a Quit.
WriteClosed ==
  /\ writer = "run" /\ queue = <<>>
  /\ "sender" \notin holds /\ reader # "run" /\ beat # "sleep"
  /\ EndWriter
  /\ UNCHANGED made /\ UNCHANGED <<beat, reading, holds, peer>>

-----------------------------------------------------------------------------
(* The application                                                         *)

Sent == Count({"Payload", "Raw"})

\* At most MaxSends messages, and one Quit.  A send after the writer's end fails
\* and changes nothing.
AppSend(m) ==
  /\ "sender" \in holds /\ writer = "run"
  /\ IF m = Quit THEN ~Contains(accepted, Quit) ELSE Sent < MaxSends
  /\ Enqueue(m)
  /\ UNCHANGED made
  /\ UNCHANGED <<writer, written, wire, shut, beat, reading, holds, peer>>

AppRecv ==
  /\ "receiver" \in holds /\ output > 0
  /\ output' = output - 1
  /\ UNCHANGED made /\ UNCHANGED <<writing, beat, reader, holds, peer>>

AppDrops(end) ==
  /\ end \in holds
  /\ holds' = holds \ {end}
  /\ output' = IF end = "receiver" THEN 0 ELSE output
  /\ UNCHANGED made /\ UNCHANGED <<writing, beat, reader, peer>>

-----------------------------------------------------------------------------
(* The peer: it reads what arrives, and closes its side once it sees the   *)
(* end of the stream (as a server's connection does).                      *)

PeerSends ==
  /\ link = "open" /\ frames < MaxFrames
  /\ frames' = frames + 1
  /\ \E f \in Frames : inbound' = Append(inbound, f)
  /\ UNCHANGED made /\ UNCHANGED <<writing, beat, reading, holds, link>>

PeerReads ==
  /\ link = "open" /\ wire > 0
  /\ wire' = wire - 1
  /\ UNCHANGED made
  /\ UNCHANGED <<queue, accepted, writer, written, shut, beat, reading, holds, peer>>

PeerSeesEnd ==
  /\ link = "open" /\ shut /\ wire = 0
  /\ link' = "closed"
  /\ UNCHANGED made /\ UNCHANGED <<writing, beat, reading, holds, inbound, frames>>

LinkEnds ==
  /\ link = "open"
  /\ link' \in {"closed", "broken"}
  /\ UNCHANGED made /\ UNCHANGED <<writing, beat, reading, holds, inbound, frames>>

-----------------------------------------------------------------------------
\* connect: the tasks are spawned; the heartbeat asserts its frequency.
Init ==
  /\ threads \in BOOLEAN /\ freq \in Freqs
  /\ queue = <<>> /\ accepted = <<>> /\ writer = "run" /\ written = <<>>
  /\ beat = IF freq = 0 THEN "off" ELSE IF freq > 1000 THEN "sleep" ELSE "panicked"
  /\ reader = "run" /\ output = 0
  /\ holds = {"sender", "receiver"}
  /\ wire = 0 /\ shut = FALSE
  /\ inbound = <<>> /\ frames = 0 /\ link = "open"

HeartbeatStep == BeatPanics \/ Beat
ReaderStep == ReadMessage \/ ReadHeartbeat \/ ReadMalformed \/ ReadUnset \/ ReadEnd
WriterStep == WriteStop \/ Write \/ WriteFailed \/ WriteClosed
AppStep ==
  \/ \E m \in {Payload(Sent + 1), Raw, Quit} : AppSend(m)
  \/ AppRecv
  \/ \E end \in {"sender", "receiver"} : AppDrops(end)
PeerStep == PeerSends \/ PeerReads \/ PeerSeesEnd \/ LinkEnds

Next == HeartbeatStep \/ ReaderStep \/ WriterStep \/ AppStep \/ PeerStep

Spec == Init /\ [][Next]_vars

\* Every task of the client is polled, a sleep ends, and the peer keeps reading
\* and closes in return; the application owes nothing.
FairSpec ==
  /\ Spec
  /\ WF_vars(HeartbeatStep) /\ WF_vars(ReaderStep) /\ WF_vars(WriterStep)
  /\ WF_vars(PeerReads) /\ WF_vars(PeerSeesEnd)

-----------------------------------------------------------------------------
(* Properties                                                              *)

\* The types, and what the ends of the channels imply: nothing is left in a
\* channel whose receiver is gone.
TypeOK ==
  /\ threads \in BOOLEAN /\ freq \in Freqs
  /\ queue \in Seq(ClientMessage) /\ accepted \in Seq(ClientMessage)
  /\ written \in Seq(ClientMessage)
  /\ writer \in {"run", "done"} /\ reader \in {"run", "done", "panicked"}
  /\ beat \in {"off", "sleep", "done", "panicked"}
  /\ output \in Nat /\ frames \in 0..MaxFrames
  /\ holds \subseteq {"sender", "receiver"}
  /\ wire \in 0..WireRoom /\ shut \in BOOLEAN
  /\ inbound \in Seq(Frames) /\ link \in {"open", "closed", "broken"}
  /\ writer = "done" => queue = <<>>
  /\ "receiver" \notin holds => output = 0

\* The messages before the first that stops the writer.
BeforeStop(messages) ==
  LET stops == {i \in DOMAIN messages : messages[i] \in {Quit, Raw}} IN
  IF stops = {} THEN messages ELSE SubSeq(messages, 1, Min(stops) - 1)

\* use_writer writes what the application, the heartbeat and the reader queued in
\* the order they queued it, all of it up to the first Quit or Raw and nothing
\* after it, unless the connection fails.
Drains ==
  /\ IsPrefix(written, BeforeStop(accepted))
  /\ writer = "run" => written \o queue = accepted
  /\ writer = "done" /\ link = "open" => written = BeforeStop(accepted)

\* When the reader ends in order (use_reader), the writer and the heartbeat end.
ReaderEndsOthers ==
  reader = "done" ~> writer = "done" /\ beat # "sleep"

\* However the writer ends (use_writer), the heartbeat ends after it, and with an
\* async client so does the reader: the peer sees the end of the stream.
WriterEndsOthers ==
  writer = "done" ~> beat # "sleep" /\ (reader # "run" \/ threads)

\* Quit: "Shut down the client" (client.rs:64, client_sync.rs:64).  Once it is in
\* the queue, from whomever, all three tasks end; but the reader thread of
\* client_sync, whose socket stays open, only when the peer acts.
QuitStops ==
  Contains(accepted, Quit) ~>
    writer = "done" /\ beat # "sleep" /\ (reader # "run" \/ threads)
=============================================================================

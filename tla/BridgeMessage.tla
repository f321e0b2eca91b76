--------------------------- MODULE BridgeMessage ---------------------------
(***************************************************************************)
(* What a bridge sends and how the other side takes it apart: the encoding *)
(* of BridgeMessageOut, handle_payload of the server that receives it, and *)
(* BridgeMessageIn::decode (src/src/bridge.rs, server.rs).  A byte is any  *)
(* value; Sep is ADDRESS_SEP.                                              *)
(***************************************************************************)
EXTENDS Integers, Sequences

CONSTANT Sep

NoSep(bytes) == \A i \in DOMAIN bytes : bytes[i] # Sep

\* BridgeMessageOut::new: remote recipient | sender | message.
Encode(m) == m.remote \o <<Sep>> \o m.sender \o <<Sep>> \o m.bytes

\* take_while(|b| *b != ADDRESS_SEP): how many bytes come before the first Sep.
UpToSep(bytes) ==
  CHOOSE n \in 0..Len(bytes) :
    /\ \A i \in 1..n : bytes[i] # Sep
    /\ n < Len(bytes) => bytes[n + 1] = Sep

\* handle_payload: the address and the rest; nothing where there is no rest.
HandlePayload(bytes) ==
  LET n == UpToSep(bytes) IN
  IF n + 1 >= Len(bytes) THEN [kind |-> "Ignored"]
  ELSE [kind |-> "Remote", to |-> SubSeq(bytes, 1, n), bytes |-> SubSeq(bytes, n + 2, Len(bytes))]

\* Mutant: the message is looked for behind the last Sep.
DecodeLast(input) ==
  LET n == CHOOSE n \in 0..Len(input) :
             /\ n < Len(input) => input[n + 1] = Sep
             /\ \A i \in (n + 2)..Len(input) : input[i] # Sep IN
  IF n + 1 >= Len(input) THEN [kind |-> "MissingSender"]
  ELSE [kind |-> "In", sender |-> SubSeq(input, 1, n), bytes |-> SubSeq(input, n + 2, Len(input))]

\* BridgeMessageIn::decode.
Decode(input) ==
  LET n == UpToSep(input) IN
  IF n + 1 >= Len(input) THEN [kind |-> "MissingSender"]
  ELSE [kind |-> "In", sender |-> SubSeq(input, 1, n), bytes |-> SubSeq(input, n + 2, Len(input))]

\* The far end: what the agent of the remote router makes of a frame's payload.
Received(m) ==
  LET remote == HandlePayload(Encode(m)) IN
  [to |-> remote.to, message |-> Decode(remote.bytes)]

\* What the sender meant.  A message without bytes cannot be decoded.
Meant(m) ==
  [to |-> m.remote,
   message |-> IF m.bytes = <<>> THEN [kind |-> "MissingSender"]
               ELSE [kind |-> "In", sender |-> m.sender, bytes |-> m.bytes]]
=============================================================================

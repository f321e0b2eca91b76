------------------------------ MODULE MCServer ------------------------------
(***************************************************************************)
(* Small instances of Server.                                              *)
(***************************************************************************)
EXTENDS Server

CONSTANTS xs, xb, x1, x2, s, b, c1, c2

OwnAddress == [a \in Agents |-> IF a = s THEN xs ELSE IF a = b THEN xb ELSE x1]

\* The server's agent is unbounded, as in the documentation; the others hold one
\* message.
ServerUnbounded == [a \in Agents |-> IF a = s THEN MaxPosts + Cardinality(Agents) ELSE 1]

OnlyApps == [a \in Agents |-> IF a = b THEN {"Message", "Shutdown", "ShutdownRouter"} ELSE {}]

\* Everything may happen to c1; the peer of c2 only closes.
OneBusyPeer == [c \in Readers |-> IF c = c1 THEN AllEvents ELSE {"closed"}]

\* Two sockets with an address each, and every channel of one message: the server's
\* agent too is bounded, as in tests/server.rs.
TwoAddresses == [a \in Agents |-> CASE a = s -> xs [] a = b -> xb [] a = c1 -> x1 [] OTHER -> x2]
AllOne == [a \in Agents |-> 1]

\* The peer of c1 may do without reading, speak to the server's agent, close or be
\* timed out; the other only connects.
OneSlowPeer == [c \in Readers |-> IF c = c1 THEN {"Message", "closed", "timeout"} ELSE {}]

OnlySends == [a \in Agents |-> IF a = b THEN {"Message"} ELSE {}]
=============================================================================

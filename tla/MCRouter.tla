------------------------------ MODULE MCRouter ------------------------------
(***************************************************************************)
(* Small instances of Router.                                              *)
(***************************************************************************)
EXTENDS Router

CONSTANTS x1, x2, x3, a1, a2, a3

\* a1 alone at its address; a2 and a3 compete for the other one.
SharedAddress == [a \in Agents |-> IF a = a1 THEN x1 ELSE x2]

\* Every agent has an address of its own.
OwnAddress == [a \in Agents |-> IF a = a1 THEN x1 ELSE IF a = a2 THEN x2 ELSE x3]

\* The smallest channels, where every second delivery has to wait.
Cap1 == [a \in Agents |-> 1]

\* Channels no run can fill: Agent::new_agent(None, ..).
CapUnbounded == [a \in Agents |-> MaxPosts + 2 * Cardinality(Agents)]

Everything == [a \in Agents |-> AllOps \ {"Request"}]

TrackingAndShutdowns == [a \in Agents |-> {"Track", "Message", "Shutdown"}]

\* a1 asks, the others only answer: programs in which no two agents wait for
\* each other.
OnlyA1Asks == [a \in Agents |-> IF a = a1 THEN {"Request"} ELSE {"Message"}]
OnlyMessages == [a \in Agents |-> {"Message"}]
=============================================================================

------------------------------ MODULE MCBridge ------------------------------
(***************************************************************************)
(* A small instance of Bridge: a word of two bits, which two seconds leave *)
(* with the first doubling.                                                *)
(***************************************************************************)
EXTENDS Bridge

\* A bridge that never tries again, with a heartbeat; and one that does once, after a
\* sleep of two seconds, capped to one, and zero with the first doubling.
TwoBridges ==
  {[reconnect |-> [kind |-> "Constant", seconds |-> 1, max |-> 0],
    retry |-> [kind |-> "Never", n |-> 0], heartbeat |-> TRUE],
   [reconnect |-> [kind |-> "Exponential", seconds |-> 2, max |-> 1],
    retry |-> [kind |-> "Count", n |-> 1], heartbeat |-> FALSE]}

\* A message that holds a separator, from a sender without a name; and no message.
SepAndEmpty ==
  <<[remote |-> <<"r">>, sender |-> <<>>, bytes |-> <<"|", "m">>],
    [remote |-> <<"r">>, sender |-> <<"s", "s">>, bytes |-> <<>>]>>
=============================================================================

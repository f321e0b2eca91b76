-------------------------------- MODULE Pipe --------------------------------
(***************************************************************************)
(* What the framing of a connection promises: a pipe of whole messages.    *)
(***************************************************************************)
EXTENDS Naturals, Sequences

CONSTANT Message   \* the messages that can be sent

VARIABLES sent,    \* every message sent, in order
          got      \* every message received, in order

Put == \E m \in Message : sent' = Append(sent, m) /\ got' = got

Get == /\ Len(got) < Len(sent)
       /\ got' = Append(got, sent[Len(got) + 1])
       /\ sent' = sent

PipeInit == sent = <<>> /\ got = <<>>
PipeSpec == PipeInit /\ [][Put \/ Get]_<<sent, got>>
=============================================================================

------------------------------ MODULE FifoQueue ------------------------------
(***************************************************************************)
(* What a message queue between threads promises: what is got is what was  *)
(* put, in that order, each message once.                                  *)
(***************************************************************************)
EXTENDS Naturals, Sequences

CONSTANT Messages

VARIABLES put,          \* the messages that were put, in order
          got           \* the messages that were got, in order

Init == put = <<>> /\ got = <<>>

Put == \E m \in Messages : put' = Append(put, m) /\ UNCHANGED got

Get ==
    /\ Len(got) < Len(put)
    /\ got' = Append(got, put[Len(got) + 1])
    /\ UNCHANGED put

Spec == Init /\ [][Put \/ Get]_<<put, got>>
=============================================================================

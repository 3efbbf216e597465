------------------------------- MODULE MCPoll --------------------------------
(* Bounded instances of PollServer. *)
EXTENDS PollServer

CONSTANTS w1, w2, c1, c2, c3

TwoOneZero == [c \in Clients |-> CASE c = c1 -> 2 [] c = c2 -> 1 [] c = c3 -> 0]
=============================================================================

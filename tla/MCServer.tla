------------------------------ MODULE MCServer -------------------------------
(* Bounded instances of BankServer.                                        *)
EXTENDS BankServer

CONSTANTS c1, c2

TwoLinesAndOne ==
  [c \in Clients |-> IF c = c1 THEN <<{"short", "long", "wide"}, Kinds>>
                     ELSE <<{"short"}>>]
=============================================================================

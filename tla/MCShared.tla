------------------------------- MODULE MCShared -------------------------------
(* Bounded instances of the small programs that share memory. *)
EXTENDS SmallPrograms, TLC

CONSTANTS i1, i2

DebitCredit == [t \in Threads |-> IF t = 1 THEN -100 ELSE 50]  \* Bonus_3

UpToFive == 0 .. 5
UpToThree == 1 .. 3

\* A first init for one cell and a second for two.
OneTwo == i1 :> 1 @@ i2 :> 2

Nothing == [c \in Clients |-> {}]  \* no requests
=============================================================================

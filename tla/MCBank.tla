------------------------------- MODULE MCBank --------------------------------
(* Bounded instances of Bank: threads, and the command lines users type.   *)
EXTENDS Bank

CONSTANTS t1, t2, server, local

\* One connection and one local client.
HomeEach == [t \in Threads |-> IF t = t2 THEN local ELSE server]

Line(op, id, to, amount, word) ==
  [op |-> op, id |-> id, to |-> to, amount |-> amount, word |-> word]
Transfer(id, to, amount) == Line("transfer", id, to, amount, "other")
CreditAll(amount)   == Line("credit_all", 0, 0, amount, "other")
DebitAll(amount)    == Line("debit_all", 0, 0, amount, "other")
Freeze(id, word)    == Line("freeze", id, 0, 0, word)
SetMin(id, amount)  == Line("set_min", id, 0, amount, "other")
SetMax(id, amount)  == Line("set_max", id, 0, amount, "other")
Balance(id, word)   == Line("balance", id, 0, 0, word)

\* Every op, with rejected, refused and overflowing arguments.
AllOps == { Transfer(0, 1, 1), Transfer(1, 0, 2), Transfer(0, 2, 1),
            CreditAll(2), DebitAll(1), Freeze(0, "on"), Freeze(0, "other"),
            SetMin(0, 1), SetMax(1, 4), Balance(0, "min") }

\* The commands that show what a limit does to a later transfer or credit.
LimitOps == { Transfer(0, 1, 1), CreditAll(2), CreditAll(1), SetMin(0, 2),
              SetMin(1, 4) }
=============================================================================

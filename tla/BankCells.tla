------------------------------ MODULE BankCells ------------------------------
(***************************************************************************)
(* The accounts of TransparentBank and what one command does to them: the  *)
(* Cell class and the body of every Bank method between lock_bank and      *)
(* unlock_bank, as functions of the cells.  bank.h (local clients) and     *)
(* bank_for_remote.h (server threads) hold the same code.                  *)
(***************************************************************************)
EXTENDS Integers

CONSTANTS Size,        \* number of cells given to init
          IntMax,      \* largest int: 2^31 - 1 in the build, smaller for TLC
          DefaultMax   \* max_balance of a new Cell: 1000000 in the code

ASSUME BankAssumption ==
  /\ Size \in Nat
  /\ IntMax \in Nat
  /\ DefaultMax \in 0 .. IntMax

IntMin     == -IntMax - 1
MachineInt == IntMin .. IntMax
Accounts   == 0 .. Size - 1

\* The sum or difference of two ints as the unoptimised build computes it:
\* two's complement, so it leaves the range by at most one turn.
Wrap(x) == IF x > IntMax THEN x - 2 * (IntMax + 1)
           ELSE IF x < IntMin THEN x + 2 * (IntMax + 1)
           ELSE x

Cell == [cur : MachineInt, min : MachineInt, max : MachineInt,
         frozen : BOOLEAN]

NewCell == [cur |-> 0, min |-> 0, max |-> DefaultMax, frozen |-> FALSE]

SetBalance(cell, v) ==
  IF ~cell.frozen /\ cell.min <= v /\ v <= cell.max
  THEN [cell EXCEPT !.cur = v]
  ELSE cell

-----------------------------------------------------------------------------
(* Commands, as process_command parses them.  One record serves every op:  *)
(* word is the string argument (a balance type, or on/off for freeze).     *)

Sweeps  == {"credit_all", "debit_all"}
Setters == {"freeze", "set_min", "set_max"}
Ops     == {"balance", "transfer"} \cup Sweeps \cup Setters
Words   == {"current", "min", "max", "on", "other"}

Command == [op : Ops, id : MachineInt, to : MachineInt,
            amount : MachineInt, word : Words]

NoCommand == [op |-> "none", id |-> 0, to |-> 0, amount |-> 0,
              word |-> "other"]

\* Everything that is refused before the mutex is touched.  A negative id
\* becomes a huge size_t, so it fails the same comparison as a large one.
Admitted(c) ==
  CASE c.op = "transfer" -> /\ c.amount > 0
                            /\ c.id \in Accounts
                            /\ c.to \in Accounts
                            /\ c.id # c.to
    [] c.op \in Setters  -> c.id \in Accounts
    [] OTHER             -> TRUE

-----------------------------------------------------------------------------
(* The effect of each method on the cells.                                 *)

\* Faulty variant: the receiving account may be frozen.
TransferRefusedToFrozen(from, to, fromBal, toBal, amount) ==
  \/ from.frozen
  \/ fromBal < amount
  \/ Wrap(toBal + amount) > to.max

\* The condition of transfer's early return, on the balances fromBal and
\* toBal that it has read.
TransferRefused(from, to, fromBal, toBal, amount) ==
  \/ from.frozen
  \/ to.frozen
  \/ fromBal < amount
  \/ Wrap(toBal + amount) > to.max

\* transfer ignores what the two set_balance calls return.
TransferCells(b, c) ==
  LET from == b[c.id]
      to   == b[c.to]
  IN  IF TransferRefused(from, to, from.cur, to.cur, c.amount)
      THEN b
      ELSE [b EXCEPT ![c.id] = SetBalance(@, Wrap(from.cur - c.amount)),
                     ![c.to] = SetBalance(@, Wrap(to.cur + c.amount))]

SetCell(cell, c) ==
  CASE c.op = "freeze"  -> [cell EXCEPT !.frozen = (c.word = "on")]
    [] c.op = "set_min" -> [cell EXCEPT !.min = c.amount]
    [] OTHER            -> [cell EXCEPT !.max = c.amount]

\* credit_all and debit_all: the new_balance of one cell, whether it is
\* skipped, the line printed for it, and the set_balance call.
NewBalance(cell, c) ==
  IF c.op = "credit_all" THEN Wrap(cell.cur + c.amount)
                         ELSE Wrap(cell.cur - c.amount)

BeyondLimit(cell, c) ==
  IF c.op = "credit_all" THEN NewBalance(cell, c) > cell.max
                         ELSE NewBalance(cell, c) < cell.min

SweepLine(cell, c) ==
  IF cell.frozen THEN "frozen"
  ELSE IF BeyondLimit(cell, c) THEN "limit"
  ELSE "moved"

SweepCell(cell, c) ==
  IF SweepLine(cell, c) = "moved"
  THEN SetBalance(cell, NewBalance(cell, c))
  ELSE cell

Effect(b, c) ==
  IF ~Admitted(c) THEN b
  ELSE CASE c.op = "transfer" -> TransferCells(b, c)
         [] c.op \in Setters  -> [b EXCEPT ![c.id] = SetCell(@, c)]
         [] c.op \in Sweeps   -> [i \in Accounts |-> SweepCell(b[i], c)]
         [] OTHER             -> b

-----------------------------------------------------------------------------
(* What the user is told: a verdict, a balance, or for a sweep nothing but *)
(* one line per account.                                                   *)

Lines   == {"none", "frozen", "limit", "moved"}
Answer  == [says : {"nothing", "invalid", "refused", "done"},
            value : MachineInt, lines : [Accounts -> Lines]]
NoLines == [i \in Accounts |-> "none"]

Says(s)  == [says |-> s, value |-> 0, lines |-> NoLines]
NoAnswer == Says("nothing")
Printed(lines) == [NoAnswer EXCEPT !.lines = lines]

BalanceAnswer(b, c) ==
  IF c.id \in Accounts /\ c.word \in {"current", "min", "max"}
  THEN [Says("done") EXCEPT !.value =
          CASE c.word = "current" -> b[c.id].cur
            [] c.word = "min"     -> b[c.id].min
            [] OTHER              -> b[c.id].max]
  ELSE Says("invalid")

AnswerTo(b, c) ==
  IF ~Admitted(c) THEN Says("invalid")
  ELSE CASE c.op = "balance"  -> BalanceAnswer(b, c)
         [] c.op = "transfer" ->
              IF TransferRefused(b[c.id], b[c.to], b[c.id].cur, b[c.to].cur,
                                 c.amount)
              THEN Says("refused") ELSE Says("done")
         [] c.op \in Sweeps   ->
              Printed([i \in Accounts |-> SweepLine(b[i], c)])
         [] OTHER             -> Says("done")
=============================================================================

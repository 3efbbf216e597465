----------------------------- MODULE BankProofs ------------------------------
(***************************************************************************)
(* Proofs about Bank, for any number of cells, threads and processes, any  *)
(* width of int and any set of commands: the inductive invariant, mutual   *)
(* exclusion, that Bank implements AtomicBank, exact transfers and the     *)
(* conservation of money.                                                  *)
(***************************************************************************)
EXTENDS Bank, FiniteSetTheorems, WellFoundedInduction, TLAPS

-----------------------------------------------------------------------------
(* The pure operators keep their types.                                    *)

\* The sum of two ints wraps back into an int.
LEMMA WrapSum ==
  ASSUME NEW x \in MachineInt, NEW y \in MachineInt
  PROVE  Wrap(x + y) \in MachineInt
BY BankAssumption DEF Wrap, MachineInt, IntMin

\* So does their difference.
LEMMA WrapDifference ==
  ASSUME NEW x \in MachineInt, NEW y \in MachineInt
  PROVE  Wrap(x - y) \in MachineInt
BY BankAssumption DEF Wrap, MachineInt, IntMin

\* set_balance returns an account.
LEMMA SetBalanceType ==
  ASSUME NEW cell \in Cell, NEW v \in MachineInt
  PROVE  SetBalance(cell, v) \in Cell
BY DEF SetBalance, Cell

\* So do freeze, set_min and set_max.
LEMMA SetCellType ==
  ASSUME NEW cell \in Cell, NEW c \in Command
  PROVE  SetCell(cell, c) \in Cell
BY DEF SetCell, Cell, Command

\* The new balance of a sweep is an int.
LEMMA NewBalanceType ==
  ASSUME NEW cell \in Cell, NEW c \in Command
  PROVE  NewBalance(cell, c) \in MachineInt
<1>1. cell.cur \in MachineInt /\ c.amount \in MachineInt
  BY DEF Cell, Command
<1>2. QED
  BY <1>1, WrapSum, WrapDifference DEF NewBalance

\* Zero is an int, and the answer to nothing is an answer.
LEMMA ZeroAnswer == 0 \in MachineInt /\ NoAnswer \in Answer
BY BankAssumption DEF MachineInt, IntMin, NoAnswer, Says, NoLines, Answer, Lines

\* Every verdict without a value is an answer.
LEMMA SaysType ==
  ASSUME NEW s \in {"nothing", "invalid", "refused", "done"}
  PROVE  Says(s) \in Answer
BY ZeroAnswer DEF Says, NoLines, Answer, Lines

\* So is what balance prints.
LEMMA BalanceAnswerType ==
  ASSUME NEW b \in [Accounts -> Cell], NEW c \in Command
  PROVE  BalanceAnswer(b, c) \in Answer
<1>1. CASE c.id \in Accounts
  <2>1. b[c.id] \in Cell
    BY <1>1
  <2>2. /\ b[c.id].cur \in MachineInt
        /\ b[c.id].min \in MachineInt
        /\ b[c.id].max \in MachineInt
    BY <2>1 DEF Cell
  <2>3. Says("done") \in Answer /\ Says("invalid") \in Answer
    BY SaysType
  <2>4. \A v \in MachineInt : [Says("done") EXCEPT !.value = v] \in Answer
    BY <2>3 DEF Answer
  <2>5. QED
    BY <2>2, <2>3, <2>4 DEF BalanceAnswer
<1>2. CASE c.id \notin Accounts
  BY <1>2, SaysType DEF BalanceAnswer
<1>3. QED
  BY <1>1, <1>2

\* NoCommand is not a command, so no user types it.
LEMMA NoCommandNew == NoCommand \notin Command
BY DEF NoCommand, Command, Ops, Sweeps, Setters

-----------------------------------------------------------------------------
(* The invariant.  A thread that a step does not move keeps its part of it *)
(* unless it is inside the bank and the cells change under it, and only    *)
(* the holder of the mutex changes cells.                                  *)

LEMMA Bystander ==
  ASSUME NEW u \in Threads, Settled(u), InSection(u),
         pc'[u] = pc[u], cmd'[u] = cmd[u], loc'[u] = loc[u],
         reply'[u] = reply[u],
         pc[u] \notin Critical \/ (cells' = cells /\ committed' = committed)
  PROVE  Settled(u)' /\ InSection(u)'
<1>1. Settled(u)'
  BY DEF Settled
<1>2. CASE pc[u] \notin Critical
  BY <1>1, <1>2 DEF InSection, Critical
<1>3. CASE cells' = cells /\ committed' = committed
  <2>1. Admitted(cmd[u])' <=> Admitted(cmd[u])
    BY DEF Admitted
  <2>2. Checked(u)' <=> Checked(u)
    BY <1>3 DEF Checked
  <2>3. /\ AtBalance(u)' <=> AtBalance(u)
        /\ AtCheck(u)' <=> AtCheck(u)
        /\ AtDebit(u)' <=> AtDebit(u)
        /\ AtSet(u)' <=> AtSet(u)
        /\ AtUnlock(u)' <=> AtUnlock(u)
    BY <1>3, <2>2 DEF AtBalance, AtCheck, AtDebit, AtSet, AtUnlock
  <2>4. AtCredit(u)' <=> AtCredit(u)
    BY <1>3, <2>2 DEF AtCredit
  <2>5. AtSweep(u)' <=> AtSweep(u)
    BY <1>3 DEF AtSweep
  <2>6. AtStore(u)' <=> AtStore(u)
    BY <1>3, <2>5 DEF AtStore
  <2>7. QED
    BY <1>1, <2>1, <2>3, <2>4, <2>5, <2>6 DEF InSection
<1>4. QED
  BY <1>1, <1>2, <1>3

LEMMA InitInv == Init => BankInv
<1> SUFFICES ASSUME Init PROVE BankInv
  OBVIOUS
<1>1. NewCell \in Cell
  BY BankAssumption DEF NewCell, Cell, MachineInt, IntMin
<1>2. NoLocals \in Locals
  BY BankAssumption, ZeroAnswer DEF NoLocals, Locals
<1>3. TypeOK
  BY <1>1, <1>2, ZeroAnswer, BankAssumption, ThreadAssumption
     DEF Init, TypeOK, PCs
<1>4. LockOwner
  BY ThreadAssumption DEF Init, LockOwner, Critical
<1>5. \A t \in Threads : Settled(t) /\ InSection(t)
  BY DEF Init, Settled, InSection, Critical
<1>6. QED
  BY <1>3, <1>4, <1>5 DEF Init, BankInv

LEMMA CallInv ==
  ASSUME BankInv, NEW t \in Threads, Call(t)
  PROVE  BankInv'
<1> USE DEF BankInv
<1>1. TypeOK'
  BY ThreadAssumption, ZeroAnswer DEF TypeOK, Call, Goto, PCs
<1>2. LockOwner'
  BY DEF TypeOK, LockOwner, Call, Goto, Critical
<1>3. Settled(t)' /\ InSection(t)'
  <2>1. pc'[t] = "called" /\ cmd'[t] \in Commands
    BY DEF TypeOK, Call, Goto
  <2>2. cmd'[t] # NoCommand
    BY <2>1, NoCommandNew, ThreadAssumption
  <2>3. loc'[t] = NoLocals /\ reply'[t] = NoAnswer
    BY DEF Settled, Call, Goto, Critical
  <2>4. QED
    BY <2>1, <2>2, <2>3 DEF Settled, InSection, Critical
<1>4. \A u \in Threads \ {t} : Settled(u)' /\ InSection(u)'
  BY Bystander DEF TypeOK, Call, Goto
<1>5. (lock = Free => cells = committed)'
  BY DEF Call
<1>6. QED
  BY <1>1, <1>2, <1>3, <1>4, <1>5

LEMMA RejectInv ==
  ASSUME BankInv, NEW t \in Threads, Reject(t)
  PROVE  BankInv'
<1> USE DEF BankInv
<1>1. TypeOK'
  BY SaysType DEF TypeOK, Reject, Goto, PCs
<1>2. LockOwner'
  BY DEF TypeOK, LockOwner, Reject, Goto, Critical
<1>3. Settled(t)' /\ InSection(t)'
  <2>1. pc'[t] = "idle" /\ cmd'[t] = NoCommand
    BY DEF TypeOK, Reject, Goto
  <2>2. loc'[t] = NoLocals /\ reply'[t] = NoAnswer
    BY DEF Settled, Reject, Goto, Critical
  <2>3. QED
    BY <2>1, <2>2 DEF Settled, InSection, Critical
<1>4. \A u \in Threads \ {t} : Settled(u)' /\ InSection(u)'
  BY Bystander DEF TypeOK, Reject, Goto
<1>5. (lock = Free => cells = committed)'
  BY DEF Reject
<1>6. QED
  BY <1>1, <1>2, <1>3, <1>4, <1>5

\* What the thread inside the bank knows.
LEMMA Inside ==
  ASSUME BankInv, NEW t \in Threads, pc[t] \in Critical
  PROVE  /\ lock = t
         /\ \A u \in Threads \ {t} : pc[u] \notin Critical
         /\ cmd[t] \in Command
         /\ Admitted(cmd[t])
<1>1. lock = t /\ \A u \in Threads \ {t} : pc[u] \notin Critical
  BY DEF BankInv, LockOwner
<1>2. pc[t] \notin {"idle", "dead"}
  BY DEF Critical
<1>3. cmd[t] \in Command
  BY <1>2 DEF BankInv, Settled, TypeOK
<1>4. QED
  BY <1>1, <1>3 DEF BankInv, InSection

\* A step of the holder that keeps the mutex disturbs the invariant only at
\* the place it reaches.
LEMMA StepInside ==
  ASSUME BankInv, NEW t \in Threads, pc[t] \in Critical,
         lock' = lock, cmd' = cmd, committed' = committed,
         TypeOK',
         pc'[t] \in Critical,
         InSection(t)',
         \A u \in Threads \ {t} :
           pc'[u] = pc[u] /\ loc'[u] = loc[u] /\ reply'[u] = reply[u]
  PROVE  BankInv'
<1>1. lock = t /\ \A u \in Threads \ {t} : pc[u] \notin Critical
  BY Inside
<1>2. LockOwner'
  BY <1>1 DEF LockOwner
<1>3. (lock = Free => cells = committed)'
  BY <1>1, ThreadAssumption
<1>4. Settled(t)'
  <2>1. cmd[t] # NoCommand
    BY DEF BankInv, Settled, Critical
  <2>2. QED
    BY <2>1 DEF Settled, Critical
<1>5. \A u \in Threads \ {t} : Settled(u)' /\ InSection(u)'
  BY <1>1, Bystander DEF BankInv
<1>6. QED
  BY <1>2, <1>3, <1>4, <1>5 DEF BankInv

LEMMA LockBankInv ==
  ASSUME BankInv, NEW t \in Threads, LockBank(t)
  PROVE  BankInv'
<1> DEFINE c == cmd[t]
<1>1. /\ \A u \in Threads : pc[u] \notin Critical
      /\ cells = committed
  BY ThreadAssumption DEF BankInv, LockOwner, LockBank
<1>2. c \in Command /\ c # NoCommand
  BY DEF BankInv, TypeOK, Settled, LockBank, Goto
<1>3. /\ c.op \in Ops
      /\ Entry(c) \in {"balance", "check", "set", "sweep"}
      /\ Entry(c) = "balance" => c.op = "balance"
      /\ Entry(c) = "check" => c.op = "transfer"
      /\ Entry(c) = "set" => c.op \in Setters
      /\ Entry(c) = "sweep" => c.op \in Sweeps
  <2>1. c.op \in Ops
    BY <1>2 DEF Command
  <2>2. QED
    BY <2>1 DEF Entry, Ops, Sweeps, Setters
<1>4. TypeOK'
  BY <1>3 DEF BankInv, TypeOK, LockBank, Goto, PCs, Critical
<1>5. /\ pc'[t] = Entry(c)
      /\ \A u \in Threads \ {t} : pc'[u] = pc[u]
  BY DEF BankInv, TypeOK, LockBank, Goto
<1>6. LockOwner'
  BY <1>1, <1>3, <1>5 DEF LockOwner, LockBank, Critical
<1>7. (lock = Free => cells = committed)'
  BY <1>1 DEF LockBank
<1>8. Settled(t)'
  BY <1>2, <1>3, <1>5 DEF Settled, LockBank, Critical
<1>9. InSection(t)'
  <2>1. Admitted(cmd[t])'
    BY DEF LockBank
  <2>2. (loc[t] = NoLocals /\ reply[t] = NoAnswer)'
    BY <1>1 DEF BankInv, Settled, LockBank
  <2>3. pc'[t] = "sweep" => AtSweep(t)'
    <3>1. loc'[t].i = 0
      BY <2>2 DEF NoLocals
    <3>2. Swept(committed, c, 0) = committed
      <4>1. \A k \in Accounts : ~(k < 0)
        BY DEF Accounts
      <4>2. committed \in [Accounts -> Cell]
        BY DEF BankInv, TypeOK
      <4>3. QED
        BY <4>1, <4>2 DEF Swept
    <3>3. Printed(SweptLines(committed, c, 0)) = NoAnswer
      <4>1. \A k \in Accounts : ~(k < 0)
        BY DEF Accounts
      <4>2. SweptLines(committed, c, 0) = NoLines
        BY <4>1 DEF SweptLines, NoLines
      <4>3. QED
        BY <4>2 DEF Printed, NoAnswer, Says
    <3>4. QED
      BY <1>1, <1>3, <1>5, <2>2, <3>1, <3>2, <3>3 DEF AtSweep, LockBank
  <2>4. /\ pc'[t] = "balance" => AtBalance(t)'
        /\ pc'[t] = "check" => AtCheck(t)'
        /\ pc'[t] = "set" => AtSet(t)'
    BY <1>1, <1>3, <1>5 DEF AtBalance, AtCheck, AtSet, LockBank
  <2>5. QED
    BY <1>3, <1>5, <2>1, <2>3, <2>4 DEF InSection
<1>10. \A u \in Threads \ {t} : Settled(u)' /\ InSection(u)'
  BY <1>1, <1>5, Bystander DEF BankInv, LockBank
<1>11. QED
  BY <1>4, <1>6, <1>7, <1>8, <1>9, <1>10 DEF BankInv

\* What Effect and AnswerTo are, one kind of admitted command at a time.
LEMMA BalanceEffect ==
  ASSUME NEW b, NEW c, Admitted(c), c.op = "balance"
  PROVE  Effect(b, c) = b /\ AnswerTo(b, c) = BalanceAnswer(b, c)
BY DEF Effect, AnswerTo, Sweeps, Setters

LEMMA TransferEffect ==
  ASSUME NEW b, NEW c, Admitted(c), c.op = "transfer"
  PROVE  /\ Effect(b, c) = TransferCells(b, c)
         /\ AnswerTo(b, c) =
              IF TransferRefused(b[c.id], b[c.to], b[c.id].cur, b[c.to].cur,
                                 c.amount)
              THEN Says("refused") ELSE Says("done")
BY DEF Effect, AnswerTo, Sweeps, Setters

LEMMA SetterEffect ==
  ASSUME NEW b, NEW c, Admitted(c), c.op \in Setters
  PROVE  /\ Effect(b, c) = [b EXCEPT ![c.id] = SetCell(@, c)]
         /\ AnswerTo(b, c) = Says("done")
BY DEF Effect, AnswerTo, Sweeps, Setters

LEMMA SweepEffect ==
  ASSUME NEW b \in [Accounts -> Cell], NEW c, Admitted(c), c.op \in Sweeps
  PROVE  /\ Effect(b, c) = Swept(b, c, Size)
         /\ AnswerTo(b, c) = Printed(SweptLines(b, c, Size))
<1>1. \A k \in Accounts : k < Size
  BY BankAssumption DEF Accounts
<1>2. Swept(b, c, Size) = [i \in Accounts |-> SweepCell(b[i], c)]
  BY <1>1 DEF Swept
<1>3. SweptLines(b, c, Size) = [i \in Accounts |-> SweepLine(b[i], c)]
  BY <1>1 DEF SweptLines
<1>4. Effect(b, c) = [i \in Accounts |-> SweepCell(b[i], c)]
  BY DEF Effect, Sweeps, Setters
<1>5. AnswerTo(b, c) =
        Printed([i \in Accounts |-> SweepLine(b[i], c)])
  BY DEF AnswerTo, Sweeps, Setters
<1>6. QED
  BY <1>2, <1>3, <1>4, <1>5

LEMMA GetBalanceInv ==
  ASSUME BankInv, NEW t \in Threads, GetBalance(t)
  PROVE  BankInv'
<1>1. pc[t] = "balance" /\ pc[t] \in Critical
  BY DEF GetBalance, Goto, Critical
<1>2. cmd[t] \in Command /\ Admitted(cmd[t])
  BY <1>1, Inside
<1>3. TypeOK'
  BY <1>2, BalanceAnswerType
     DEF BankInv, TypeOK, GetBalance, Goto, Reply, PCs, Critical
<1>4. AtBalance(t)
  BY <1>1 DEF BankInv, InSection
<1>5. AtUnlock(t)'
  BY <1>2, <1>4, BalanceEffect
     DEF AtUnlock, AtBalance, GetBalance, Reply, BankInv, TypeOK
<1>6. pc'[t] = "unlock"
  BY DEF GetBalance, Goto, BankInv, TypeOK
<1>7. InSection(t)'
  BY <1>2, <1>5, <1>6 DEF InSection, GetBalance
<1>8. QED
  BY <1>1, <1>3, <1>6, <1>7, StepInside
     DEF GetBalance, Goto, Reply, BankInv, TypeOK, Critical

\* The two accounts of an admitted transfer.
LEMMA TransferAccounts ==
  ASSUME NEW b \in [Accounts -> Cell], NEW c \in Command,
         Admitted(c), c.op = "transfer"
  PROVE  /\ c.id \in Accounts /\ c.to \in Accounts /\ c.id # c.to
         /\ b[c.id] \in Cell /\ b[c.to] \in Cell
         /\ b[c.id].cur \in MachineInt /\ b[c.to].cur \in MachineInt
         /\ c.amount \in MachineInt
<1>1. c.id \in Accounts /\ c.to \in Accounts /\ c.id # c.to
  BY DEF Admitted, Setters
<1>2. b[c.id] \in Cell /\ b[c.to] \in Cell /\ c.amount \in MachineInt
  BY <1>1 DEF Command
<1>3. QED
  BY <1>1, <1>2 DEF Cell

LEMMA TransferCheckInv ==
  ASSUME BankInv, NEW t \in Threads, TransferCheck(t)
  PROVE  BankInv'
<1> DEFINE c    == cmd[t]
           from == cells[c.id]
           to   == cells[c.to]
           bad  == TransferRefused(from, to, from.cur, to.cur, c.amount)
<1>1. pc[t] = "check" /\ pc[t] \in Critical
  BY DEF TransferCheck, Critical
<1>2. c \in Command /\ Admitted(c)
  BY <1>1, Inside
<1>3. TypeOK /\ AtCheck(t)
  BY <1>1 DEF BankInv, InSection
<1>4. from.cur \in MachineInt /\ to.cur \in MachineInt
  BY <1>2, <1>3, TransferAccounts DEF AtCheck, TypeOK
<1>5. CASE bad
  <2>1. /\ pc' = [pc EXCEPT ![t] = "unlock"]
        /\ reply' = [reply EXCEPT ![t] = Says("refused")]
        /\ UNCHANGED <<cells, lock, cmd, loc, answer, committed, crashes>>
    BY <1>5 DEF TransferCheck, Reply
  <2>2. TypeOK'
    BY <1>3, <2>1, SaysType DEF TypeOK, PCs, Critical
  <2>3. Effect(committed, c) = committed /\ AnswerTo(committed, c) = Says("refused")
    BY <1>2, <1>3, <1>5, TransferEffect DEF AtCheck, TransferCells
  <2>4. pc'[t] = "unlock" /\ reply'[t] = Says("refused")
    BY <1>3, <2>1 DEF TypeOK
  <2>5. InSection(t)'
    BY <1>2, <1>3, <2>1, <2>3, <2>4 DEF InSection, AtUnlock, AtCheck
  <2>6. QED
    BY <1>1, <1>3, <2>1, <2>2, <2>4, <2>5, StepInside DEF TypeOK, Critical
<1>6. CASE ~bad
  <2> DEFINE l == [loc[t] EXCEPT !.from = from.cur, !.to = to.cur]
  <2>1. /\ pc' = [pc EXCEPT ![t] = "debit"]
        /\ loc' = [loc EXCEPT ![t] = l]
        /\ UNCHANGED <<cells, lock, cmd, reply, answer, committed, crashes>>
    BY <1>6, <1>3 DEF TransferCheck, TypeOK
  <2>2. loc[t] \in Locals
    BY <1>3 DEF TypeOK
  <2>3. l \in Locals /\ l.from = from.cur /\ l.to = to.cur
    BY <1>4, <2>2 DEF Locals
  <2>4. TypeOK'
    BY <1>3, <2>1, <2>3 DEF TypeOK, PCs, Critical
  <2>5. pc'[t] = "debit" /\ loc'[t] = l
    BY <1>3, <2>1 DEF TypeOK
  <2>6. Checked(t)'
    BY <1>3, <1>6, <2>1, <2>3, <2>5 DEF Checked, AtCheck
  <2>7. InSection(t)'
    BY <1>2, <1>3, <2>1, <2>5, <2>6 DEF InSection, AtDebit, AtCheck
  <2>8. QED
    BY <1>1, <1>3, <2>1, <2>4, <2>5, <2>7, StepInside DEF TypeOK, Critical
<1>7. QED
  BY <1>5, <1>6

LEMMA TransferDebitInv ==
  ASSUME BankInv, NEW t \in Threads, TransferDebit(t)
  PROVE  BankInv'
<1> DEFINE c == cmd[t]
           v == Wrap(loc[t].from - c.amount)
<1>1. pc[t] = "debit" /\ pc[t] \in Critical
  BY DEF TransferDebit, Goto, Critical
<1>2. c \in Command /\ Admitted(c)
  BY <1>1, Inside
<1>3. TypeOK /\ AtDebit(t)
  BY <1>1 DEF BankInv, InSection
<1>4. /\ c.id \in Accounts /\ cells[c.id] \in Cell
      /\ c.amount \in MachineInt
  BY <1>2, <1>3, TransferAccounts DEF AtDebit, TypeOK
<1>5. v \in MachineInt
  BY <1>3, <1>4, WrapDifference DEF TypeOK, Locals
<1>6. SetBalance(cells[c.id], v) \in Cell
  BY <1>4, <1>5, SetBalanceType
<1>7. pc' = [pc EXCEPT ![t] = "credit"]
  BY DEF TransferDebit, Goto
<1>8. TypeOK'
  BY <1>3, <1>6, <1>7 DEF TypeOK, TransferDebit, PCs, Critical
<1>9. pc'[t] = "credit"
  BY <1>3, <1>7 DEF TypeOK
<1>10. Checked(t)'
  BY <1>3 DEF Checked, AtDebit, TransferDebit
<1>11. AtCredit(t)'
  BY <1>3, <1>10 DEF AtCredit, AtDebit, TransferDebit
<1>12. InSection(t)'
  BY <1>2, <1>9, <1>11 DEF InSection, TransferDebit
<1>13. QED
  BY <1>1, <1>3, <1>7, <1>8, <1>9, <1>12, StepInside
     DEF TypeOK, TransferDebit, Critical

LEMMA TransferCreditInv ==
  ASSUME BankInv, NEW t \in Threads, TransferCredit(t)
  PROVE  BankInv'
<1> DEFINE c == cmd[t]
           v == Wrap(loc[t].to + c.amount)
<1>1. pc[t] = "credit" /\ pc[t] \in Critical
  BY DEF TransferCredit, Goto, Critical
<1>2. c \in Command /\ Admitted(c)
  BY <1>1, Inside
<1>3. TypeOK /\ AtCredit(t)
  BY <1>1 DEF BankInv, InSection
<1>4. /\ c.id \in Accounts /\ c.to \in Accounts /\ c.id # c.to
      /\ cells[c.to] \in Cell
      /\ c.amount \in MachineInt
  BY <1>2, <1>3, TransferAccounts DEF AtCredit, TypeOK
<1>5. v \in MachineInt
  BY <1>3, <1>4, WrapSum DEF TypeOK, Locals
<1>6. SetBalance(cells[c.to], v) \in Cell
  BY <1>4, <1>5, SetBalanceType
<1>7. /\ pc' = [pc EXCEPT ![t] = "unlock"]
      /\ reply' = [reply EXCEPT ![t] = Says("done")]
      /\ cells' = [cells EXCEPT ![c.to] = SetBalance(cells[c.to], v)]
  BY DEF TransferCredit, Goto, Reply
<1>8. TypeOK'
  BY <1>3, <1>6, <1>7, SaysType DEF TypeOK, TransferCredit, PCs, Critical
<1>9. pc'[t] = "unlock" /\ reply'[t] = Says("done")
  BY <1>3, <1>7 DEF TypeOK
<1>10. AtUnlock(t)'
  <2> DEFINE from == committed[c.id]
             to   == committed[c.to]
  <2>1. ~TransferRefused(from, to, from.cur, to.cur, c.amount)
    BY <1>3 DEF AtCredit, Checked
  <2>2. AnswerTo(committed, c) = Says("done")
    BY <1>2, <1>3, <2>1, TransferEffect DEF AtCredit
  <2>3. /\ cells = [committed EXCEPT ![c.id] =
                     SetBalance(from, Wrap(from.cur - c.amount))]
        /\ v = Wrap(to.cur + c.amount)
    BY <1>3 DEF AtCredit, Checked
  <2>4. cells[c.to] = to
    BY <1>3, <1>4, <2>3 DEF TypeOK
  <2>5. cells' = [committed EXCEPT
                    ![c.id] = SetBalance(from, Wrap(from.cur - c.amount)),
                    ![c.to] = SetBalance(to, Wrap(to.cur + c.amount))]
    BY <1>3, <1>4, <1>7, <2>3, <2>4 DEF TypeOK
  <2>6. TransferCells(committed, c) =
          [committed EXCEPT
             ![c.id] = SetBalance(from, Wrap(from.cur - c.amount)),
             ![c.to] = SetBalance(to, Wrap(to.cur + c.amount))]
    BY <1>3, <1>4, <2>1 DEF TransferCells, TypeOK
  <2>7. Effect(committed, c) = cells'
    BY <1>2, <1>3, <2>5, <2>6, TransferEffect DEF AtCredit
  <2>8. QED
    BY <1>9, <2>2, <2>7 DEF AtUnlock, TransferCredit
<1>11. InSection(t)'
  BY <1>2, <1>9, <1>10 DEF InSection, TransferCredit
<1>12. QED
  BY <1>1, <1>3, <1>7, <1>8, <1>9, <1>11, StepInside
     DEF TypeOK, TransferCredit, Critical

LEMMA SetFieldInv ==
  ASSUME BankInv, NEW t \in Threads, SetField(t)
  PROVE  BankInv'
<1> DEFINE c == cmd[t]
<1>1. pc[t] = "set" /\ pc[t] \in Critical
  BY DEF SetField, Goto, Critical
<1>2. c \in Command /\ Admitted(c)
  BY <1>1, Inside
<1>3. TypeOK /\ AtSet(t)
  BY <1>1 DEF BankInv, InSection
<1>4. c.id \in Accounts
  BY <1>2, <1>3 DEF Admitted, AtSet, Setters
<1>5. SetCell(cells[c.id], c) \in Cell
  BY <1>2, <1>3, <1>4, SetCellType DEF TypeOK
<1>6. /\ pc' = [pc EXCEPT ![t] = "unlock"]
      /\ reply' = [reply EXCEPT ![t] = Says("done")]
  BY DEF SetField, Goto, Reply
<1>7. TypeOK'
  BY <1>3, <1>5, <1>6, SaysType DEF TypeOK, SetField, PCs, Critical
<1>8. pc'[t] = "unlock" /\ reply'[t] = Says("done")
  BY <1>3, <1>6 DEF TypeOK
<1>9. AtUnlock(t)'
  BY <1>2, <1>3, <1>8, SetterEffect DEF AtUnlock, AtSet, SetField
<1>10. InSection(t)'
  BY <1>2, <1>8, <1>9 DEF InSection, SetField
<1>11. QED
  BY <1>1, <1>3, <1>6, <1>7, <1>8, <1>10, StepInside
     DEF TypeOK, SetField, Critical

\* A sweep writes its accounts one at a time: the next account is still as
\* it was, and doing it extends the swept part, and the lines, by one.
LEMMA NextAccount ==
  ASSUME NEW n \in Accounts
  PROVE  /\ n \in Int /\ ~(n < n) /\ n < n + 1
         /\ \A k \in Accounts : k # n => (k < n <=> k < n + 1)
BY BankAssumption DEF Accounts

LEMMA SweptHere ==
  ASSUME NEW b \in [Accounts -> Cell], NEW c \in Command, NEW n \in Accounts
  PROVE  Swept(b, c, n)[n] = b[n]
BY NextAccount DEF Swept

LEMMA SweptNext ==
  ASSUME NEW b \in [Accounts -> Cell], NEW c \in Command, NEW n \in Accounts
  PROVE  Swept(b, c, n + 1) =
           [Swept(b, c, n) EXCEPT ![n] = SweepCell(b[n], c)]
BY NextAccount DEF Swept

LEMMA SweptLinesNext ==
  ASSUME NEW b \in [Accounts -> Cell], NEW c \in Command, NEW n \in Accounts
  PROVE  SweptLines(b, c, n + 1) =
           [SweptLines(b, c, n) EXCEPT ![n] = SweepLine(b[n], c)]
BY NextAccount DEF SweptLines

\* Printing one more line changes the lines of the output only.
LEMMA OneMoreLine ==
  ASSUME NEW L, NEW n, NEW line
  PROVE  [Printed(L) EXCEPT !.lines[n] = line] =
           Printed([L EXCEPT ![n] = line])
<1>1. \A l : Printed(l) = [says |-> "nothing", value |-> 0, lines |-> l]
  BY DEF Printed, NoAnswer, Says
<1>2. QED
  BY <1>1

\* Writing account n and printing its line extends both the swept cells and
\* the swept output.
LEMMA SweepGrows ==
  ASSUME NEW b \in [Accounts -> Cell], NEW c \in Command, NEW n \in Accounts
  PROVE  /\ [Swept(b, c, n) EXCEPT ![n] = SweepCell(b[n], c)] =
              Swept(b, c, n + 1)
         /\ [Printed(SweptLines(b, c, n)) EXCEPT
               !.lines[n] = SweepLine(b[n], c)] =
              Printed(SweptLines(b, c, n + 1))
<1>1. [Swept(b, c, n) EXCEPT ![n] = SweepCell(b[n], c)] = Swept(b, c, n + 1)
  BY SweptNext
<1>2. [SweptLines(b, c, n) EXCEPT ![n] = SweepLine(b[n], c)] =
        SweptLines(b, c, n + 1)
  BY SweptLinesNext
<1>3. [Printed(SweptLines(b, c, n)) EXCEPT !.lines[n] = SweepLine(b[n], c)] =
        Printed([SweptLines(b, c, n) EXCEPT ![n] = SweepLine(b[n], c)])
  BY OneMoreLine
<1>4. QED
  BY <1>1, <1>2, <1>3

\* Every line is a line, and putting it in keeps an answer an answer.
LEMMA LineType ==
  ASSUME NEW r \in Answer, NEW n \in Accounts, NEW cell, NEW c
  PROVE  [r EXCEPT !.lines[n] = SweepLine(cell, c)] \in Answer
<1>1. SweepLine(cell, c) \in Lines
  BY DEF SweepLine, Lines
<1>2. QED
  BY <1>1 DEF Answer

LEMMA SweepReadInv ==
  ASSUME BankInv, NEW t \in Threads, SweepRead(t)
  PROVE  BankInv'
<1> DEFINE c    == cmd[t]
           n    == loc[t].i
           line == SweepLine(cells[n], c)
<1>1. pc[t] = "sweep" /\ pc[t] \in Critical
  BY DEF SweepRead, Critical
<1>2. c \in Command /\ Admitted(c)
  BY <1>1, Inside
<1>3. TypeOK /\ AtSweep(t)
  BY <1>1 DEF BankInv, InSection
<1>4. loc[t] \in Locals /\ n < Size
  BY <1>3 DEF TypeOK, SweepRead
<1>5. n \in Accounts /\ n + 1 \in 0 .. Size
  BY <1>4, BankAssumption DEF Locals, Accounts
<1>6. cells[n] = committed[n] /\ cells[n] \in Cell
  BY <1>2, <1>3, <1>5, SweptHere DEF AtSweep, TypeOK
<1>7. CASE line = "moved"
  <2> DEFINE l == [loc[t] EXCEPT !.new = NewBalance(cells[n], c)]
  <2>1. /\ pc' = [pc EXCEPT ![t] = "store"]
        /\ loc' = [loc EXCEPT ![t] = l]
        /\ UNCHANGED <<cells, lock, cmd, reply, answer, committed, crashes>>
    BY <1>3, <1>7 DEF SweepRead, TypeOK
  <2>2. l \in Locals /\ l.i = n /\ l.new = NewBalance(cells[n], c)
    BY <1>2, <1>4, <1>6, NewBalanceType DEF Locals
  <2>3. TypeOK'
    BY <1>3, <2>1, <2>2 DEF TypeOK, PCs, Critical
  <2>4. pc'[t] = "store" /\ loc'[t] = l
    BY <1>3, <2>1 DEF TypeOK
  <2>5. AtSweep(t)'
    BY <1>3, <2>1, <2>2, <2>4 DEF AtSweep
  <2>6. AtStore(t)'
    BY <1>4, <1>6, <1>7, <2>1, <2>2, <2>4, <2>5 DEF AtStore
  <2>7. InSection(t)'
    BY <1>2, <2>1, <2>4, <2>6 DEF InSection
  <2>8. QED
    BY <1>1, <1>3, <2>1, <2>3, <2>4, <2>7, StepInside DEF TypeOK, Critical
<1>8. CASE line # "moved"
  <2> DEFINE l == [loc[t] EXCEPT !.i = n + 1]
             r == [reply[t] EXCEPT !.lines[n] = line]
  <2>1. /\ reply' = [reply EXCEPT ![t] = r]
        /\ loc' = [loc EXCEPT ![t] = l]
        /\ UNCHANGED <<cells, lock, pc, cmd, answer, committed, crashes>>
    BY <1>3, <1>8 DEF SweepRead, ReplyLine, Reply, TypeOK
  <2>2. l \in Locals /\ l.i = n + 1
    BY <1>4, <1>5 DEF Locals
  <2>3. r \in Answer
    BY <1>3, <1>5, LineType DEF TypeOK
  <2>4. TypeOK'
    BY <1>3, <2>1, <2>2, <2>3 DEF TypeOK
  <2>5. pc'[t] = "sweep" /\ loc'[t] = l /\ reply'[t] = r
    BY <1>1, <1>3, <2>1 DEF TypeOK
  <2>6. cells' = [cells EXCEPT ![n] = SweepCell(committed[n], c)]
    <3>1. SweepCell(committed[n], c) = cells[n]
      BY <1>6, <1>8 DEF SweepCell
    <3>2. QED
      BY <1>3, <2>1, <3>1 DEF TypeOK
  <2>7. AtSweep(t)'
    <3>1. /\ cells = Swept(committed, c, n) /\ c.op \in Sweeps
          /\ reply[t] = Printed(SweptLines(committed, c, n))
          /\ committed \in [Accounts -> Cell]
      BY <1>3 DEF AtSweep, TypeOK
    <3>2. /\ [Swept(committed, c, n) EXCEPT ![n] = SweepCell(committed[n], c)] =
               Swept(committed, c, n + 1)
          /\ [Printed(SweptLines(committed, c, n)) EXCEPT
                !.lines[n] = SweepLine(committed[n], c)] =
               Printed(SweptLines(committed, c, n + 1))
      BY <1>2, <1>5, <3>1, SweepGrows
    <3>3. cells' = Swept(committed, c, n + 1)
      BY <2>6, <3>1, <3>2
    <3>4. reply'[t] = Printed(SweptLines(committed, c, n + 1))
      BY <1>6, <2>5, <3>1, <3>2
    <3>5. QED
      BY <2>1, <2>2, <2>5, <3>1, <3>3, <3>4 DEF AtSweep
  <2>8. InSection(t)'
    BY <1>2, <2>1, <2>5, <2>7 DEF InSection
  <2>9. QED
    BY <1>1, <1>3, <2>1, <2>4, <2>5, <2>8, StepInside DEF TypeOK
<1>9. QED
  BY <1>7, <1>8

LEMMA SweepStoreInv ==
  ASSUME BankInv, NEW t \in Threads, SweepStore(t)
  PROVE  BankInv'
<1> DEFINE c == cmd[t]
           n == loc[t].i
           l == [loc[t] EXCEPT !.i = n + 1]
           r == [reply[t] EXCEPT !.lines[n] = "moved"]
<1>1. pc[t] = "store" /\ pc[t] \in Critical
  BY DEF SweepStore, Goto, Critical
<1>2. c \in Command /\ Admitted(c)
  BY <1>1, Inside
<1>3. TypeOK /\ AtStore(t) /\ AtSweep(t)
  BY <1>1 DEF BankInv, InSection, AtStore
<1>4. loc[t] \in Locals /\ n < Size
  BY <1>3 DEF TypeOK, AtStore
<1>5. n \in Accounts /\ n + 1 \in 0 .. Size
  BY <1>4, BankAssumption DEF Locals, Accounts
<1>6. cells[n] = committed[n] /\ cells[n] \in Cell
  BY <1>2, <1>3, <1>5, SweptHere DEF AtSweep, TypeOK
<1>7. SweepLine(committed[n], c) = "moved"
  BY <1>3 DEF AtStore
<1>8. SweepCell(committed[n], c) = SetBalance(cells[n], loc[t].new)
  BY <1>3, <1>6, <1>7 DEF SweepCell, AtStore
<1>9. SetBalance(cells[n], loc[t].new) \in Cell
  BY <1>4, <1>6, SetBalanceType DEF Locals
<1>10. /\ pc' = [pc EXCEPT ![t] = "sweep"]
       /\ cells' = [cells EXCEPT ![n] = SetBalance(cells[n], loc[t].new)]
       /\ reply' = [reply EXCEPT ![t] = r]
       /\ loc' = [loc EXCEPT ![t] = l]
       /\ UNCHANGED <<lock, cmd, answer, committed, crashes>>
  BY <1>3 DEF SweepStore, Goto, ReplyLine, Reply, TypeOK
<1>11. l \in Locals /\ l.i = n + 1
  BY <1>4, <1>5 DEF Locals
<1>12. r \in Answer
  BY <1>3, <1>5, <1>7, LineType DEF TypeOK
<1>13. TypeOK'
  BY <1>3, <1>9, <1>10, <1>11, <1>12 DEF TypeOK, PCs, Critical
<1>14. pc'[t] = "sweep" /\ loc'[t] = l /\ reply'[t] = r
  BY <1>3, <1>10 DEF TypeOK
<1>15. AtSweep(t)'
  <2>1. /\ cells = Swept(committed, c, n) /\ c.op \in Sweeps
        /\ reply[t] = Printed(SweptLines(committed, c, n))
        /\ committed \in [Accounts -> Cell]
    BY <1>3 DEF AtSweep, TypeOK
  <2>2. /\ [Swept(committed, c, n) EXCEPT ![n] = SweepCell(committed[n], c)] =
             Swept(committed, c, n + 1)
        /\ [Printed(SweptLines(committed, c, n)) EXCEPT
              !.lines[n] = SweepLine(committed[n], c)] =
             Printed(SweptLines(committed, c, n + 1))
    BY <1>2, <1>5, <2>1, SweepGrows
  <2>3. cells' = Swept(committed, c, n + 1)
    BY <1>8, <1>10, <2>1, <2>2
  <2>4. reply'[t] = Printed(SweptLines(committed, c, n + 1))
    BY <1>7, <1>14, <2>1, <2>2
  <2>5. QED
    BY <1>10, <1>11, <1>14, <2>1, <2>3, <2>4 DEF AtSweep
<1>16. InSection(t)'
  BY <1>2, <1>10, <1>14, <1>15 DEF InSection
<1>17. QED
  BY <1>1, <1>3, <1>10, <1>13, <1>14, <1>16, StepInside DEF TypeOK, Critical

\* At unlock_bank the command has been executed in full.
LEMMA UnlockEffect ==
  ASSUME BankInv, NEW t \in Threads, UnlockBank(t)
  PROVE  /\ pc[t] \in Critical
         /\ cells = Effect(committed, cmd[t])
         /\ reply[t] = AnswerTo(committed, cmd[t])
<1>1. pc[t] \in Critical
  BY DEF UnlockBank, Critical
<1>2. CASE pc[t] = "unlock"
  BY <1>1, <1>2 DEF BankInv, InSection, AtUnlock
<1>3. CASE pc[t] = "sweep" /\ loc[t].i = Size
  <2>1. AtSweep(t) /\ Admitted(cmd[t])
    BY <1>1, <1>3 DEF BankInv, InSection
  <2>2. committed \in [Accounts -> Cell]
    BY DEF BankInv, TypeOK
  <2>3. QED
    BY <1>1, <1>3, <2>1, <2>2, SweepEffect DEF AtSweep
<1>4. QED
  BY <1>2, <1>3 DEF UnlockBank

LEMMA UnlockBankInv ==
  ASSUME BankInv, NEW t \in Threads, UnlockBank(t)
  PROVE  BankInv'
<1>1. TypeOK /\ lock = t /\ \A u \in Threads \ {t} : pc[u] \notin Critical
  BY UnlockEffect, Inside DEF BankInv
<1>2. NoLocals \in Locals
  BY BankAssumption, ZeroAnswer DEF NoLocals, Locals
<1>3. TypeOK'
  BY <1>1, <1>2, ZeroAnswer DEF TypeOK, UnlockBank, PCs
<1>4. /\ pc'[t] = "idle" /\ cmd'[t] = NoCommand
      /\ loc'[t] = NoLocals /\ reply'[t] = NoAnswer
  BY <1>1 DEF TypeOK, UnlockBank
<1>5. \A u \in Threads \ {t} : /\ pc'[u] = pc[u] /\ cmd'[u] = cmd[u]
                               /\ loc'[u] = loc[u] /\ reply'[u] = reply[u]
  BY <1>1 DEF TypeOK, UnlockBank
<1>6. LockOwner'
  BY <1>1, <1>4, <1>5, ThreadAssumption DEF LockOwner, UnlockBank, Critical
<1>7. Settled(t)' /\ InSection(t)'
  BY <1>4 DEF Settled, InSection, Critical
<1>8. \A u \in Threads \ {t} : Settled(u)' /\ InSection(u)'
  BY <1>1, <1>5, Bystander DEF BankInv
<1>9. (lock = Free => cells = committed)'
  BY DEF UnlockBank
<1>10. QED
  BY <1>3, <1>6, <1>7, <1>8, <1>9 DEF BankInv

\* A kill takes the mutex with it: the cells may stay half written, but no
\* thread will ever be inside the bank again.
LEMMA CrashInv ==
  ASSUME BankInv, NEW p \in Processes, Crash(p)
  PROVE  BankInv'
<1>1. TypeOK
  BY DEF BankInv
<1>2. NoLocals \in Locals
  BY BankAssumption, ZeroAnswer DEF NoLocals, Locals
<1>3. TypeOK'
  <2>1. lock' \in Threads \cup {Free, Orphan}
    BY <1>1 DEF TypeOK, Crash
  <2>2. crashes' \in 0 .. MaxCrashes
    BY <1>1, ThreadAssumption DEF TypeOK, Crash
  <2>3. /\ pc' \in [Threads -> PCs]
        /\ cmd' \in [Threads -> Command \cup {NoCommand}]
    BY <1>1 DEF TypeOK, Crash, PCs
  <2>4. /\ loc' \in [Threads -> Locals]
        /\ reply' \in [Threads -> Answer]
        /\ answer' \in [Threads -> Answer]
    BY <1>1, <1>2, ZeroAnswer DEF TypeOK, Crash
  <2>5. QED
    BY <1>1, <2>1, <2>2, <2>3, <2>4 DEF TypeOK, Crash
<1>4. ASSUME NEW u \in Threads, Home[u] = p
      PROVE  /\ pc'[u] = "dead" /\ cmd'[u] = NoCommand
             /\ loc'[u] = NoLocals /\ reply'[u] = NoAnswer
  BY <1>4 DEF Crash
<1>5. ASSUME NEW u \in Threads, Home[u] # p
      PROVE  /\ pc'[u] = pc[u] /\ cmd'[u] = cmd[u]
             /\ loc'[u] = loc[u] /\ reply'[u] = reply[u]
  BY <1>5 DEF Crash
<1>6. LockOwner'
  <2> SUFFICES ASSUME NEW u \in Threads
               PROVE  (pc[u] \in Critical <=> lock = u)'
    BY DEF LockOwner
  <2>1. CASE Home[u] = p
    BY <1>4, <2>1, ThreadAssumption DEF Crash, Critical, ThreadsOf
  <2>2. CASE Home[u] # p
    BY <1>5, <2>2, ThreadAssumption DEF Crash, ThreadsOf, BankInv, LockOwner
  <2>3. QED
    BY <2>1, <2>2
<1>7. (lock = Free => cells = committed)'
  BY ThreadAssumption DEF Crash, BankInv
<1>8. ASSUME NEW u \in Threads
      PROVE  Settled(u)' /\ InSection(u)'
  <2>1. CASE Home[u] = p
    BY <1>4, <2>1 DEF Settled, InSection, Critical
  <2>2. CASE Home[u] # p
    <3>1. cells' = cells /\ committed' = committed
      BY DEF Crash
    <3>2. QED
      BY <1>5, <2>2, <3>1, Bystander DEF BankInv
  <2>3. QED
    BY <2>1, <2>2
<1>9. QED
  BY <1>3, <1>6, <1>7, <1>8 DEF BankInv

\* A program that is started again is at its prompt.
LEMMA RestartInv ==
  ASSUME BankInv, NEW p \in Processes, Restart(p)
  PROVE  BankInv'
<1>1. TypeOK /\ LockOwner
  BY DEF BankInv
<1>2. TypeOK'
  BY <1>1 DEF TypeOK, Restart, PCs
<1>3. ASSUME NEW u \in Threads, Home[u] = p
      PROVE  /\ pc[u] = "dead" /\ pc'[u] = "idle"
             /\ Settled(u) /\ InSection(u)
             /\ cmd'[u] = cmd[u] /\ loc'[u] = loc[u] /\ reply'[u] = reply[u]
  BY <1>3 DEF Restart, ThreadsOf, BankInv
<1>4. ASSUME NEW u \in Threads, Home[u] # p
      PROVE  pc'[u] = pc[u]
  BY <1>4 DEF Restart
<1>5. LockOwner'
  <2> SUFFICES ASSUME NEW u \in Threads
               PROVE  (pc[u] \in Critical <=> lock = u)'
    BY DEF LockOwner
  <2>1. CASE Home[u] = p
    BY <1>1, <1>3, <2>1 DEF Restart, LockOwner, Critical
  <2>2. CASE Home[u] # p
    BY <1>1, <1>4, <2>2 DEF Restart, LockOwner
  <2>3. QED
    BY <2>1, <2>2
<1>6. ASSUME NEW u \in Threads
      PROVE  Settled(u)' /\ InSection(u)'
  <2>1. CASE Home[u] = p
    BY <1>3, <2>1 DEF Settled, InSection, Critical
  <2>2. CASE Home[u] # p
    BY <1>4, <2>2, Bystander DEF Restart, BankInv
  <2>3. QED
    BY <2>1, <2>2
<1>7. (lock = Free => cells = committed)'
  BY DEF Restart, BankInv
<1>8. QED
  BY <1>2, <1>5, <1>6, <1>7 DEF BankInv

LEMMA StutterInv ==
  ASSUME BankInv, UNCHANGED vars
  PROVE  BankInv'
<1>1. \A u \in Threads : Settled(u)' /\ InSection(u)'
  BY Bystander DEF BankInv, vars
<1>2. QED
  BY <1>1 DEF BankInv, TypeOK, LockOwner, vars

LEMMA NextInv == BankInv /\ [Next]_vars => BankInv'
<1> SUFFICES ASSUME BankInv, [Next]_vars PROVE BankInv'
  OBVIOUS
<1>1. ASSUME NEW t \in Threads, Thread(t) PROVE BankInv'
  <2>1. CASE Call(t)            BY <2>1, CallInv
  <2>2. CASE Reject(t)          BY <2>2, RejectInv
  <2>3. CASE LockBank(t)        BY <2>3, LockBankInv
  <2>4. CASE GetBalance(t)      BY <2>4, GetBalanceInv
  <2>5. CASE TransferCheck(t)   BY <2>5, TransferCheckInv
  <2>6. CASE TransferDebit(t)   BY <2>6, TransferDebitInv
  <2>7. CASE TransferCredit(t)  BY <2>7, TransferCreditInv
  <2>8. CASE SetField(t)        BY <2>8, SetFieldInv
  <2>9. CASE SweepRead(t)       BY <2>9, SweepReadInv
  <2>10. CASE SweepStore(t)     BY <2>10, SweepStoreInv
  <2>11. CASE UnlockBank(t)     BY <2>11, UnlockBankInv
  <2>12. QED
    BY <1>1, <2>1, <2>2, <2>3, <2>4, <2>5, <2>6, <2>7, <2>8, <2>9, <2>10,
       <2>11 DEF Thread, InBank
<1>2. ASSUME NEW p \in Processes, Crash(p) PROVE BankInv'
  BY <1>2, CrashInv
<1>3. ASSUME NEW p \in Processes, Restart(p) PROVE BankInv'
  BY <1>3, RestartInv
<1>4. CASE UNCHANGED vars
  BY <1>4, StutterInv
<1>5. QED
  BY <1>1, <1>2, <1>3, <1>4 DEF Next

-----------------------------------------------------------------------------
(* The theorems.                                                           *)

\* The inductive invariant holds in every reachable state: whoever is inside
\* the bank has executed a known part of its command and nothing else.
THEOREM BankInvariant == Spec => []BankInv
<1>1. QED
  BY InitInv, NextInv, PTL DEF Spec

\* Every variable keeps its type; in particular no balance leaves the range
\* of an int.
THEOREM TypeCorrect == Spec => []TypeOK
<1>1. BankInv => TypeOK
  BY DEF BankInv
<1>2. QED
  BY <1>1, BankInvariant, PTL

\* lock_bank and unlock_bank exclude: at most one thread of all processes is
\* between them, and every path out of a method releases the mutex.
THEOREM MutualExclusion == Spec => []LockOwner
<1>1. BankInv => LockOwner
  BY DEF BankInv
<1>2. QED
  BY <1>1, BankInvariant, PTL

\* No method ever starts on cells that another one left half written, not
\* even when a process is killed between the two writes of a transfer.
THEOREM NeverTorn == Spec => []NoTornState
<1>1. BankInv => NoTornState
  <2> SUFFICES ASSUME BankInv, NEW t \in Threads, StartsOn(t)
               PROVE  cells = committed
    BY DEF NoTornState
  <2>1. InSection(t) /\ committed \in [Accounts -> Cell]
    BY DEF BankInv, TypeOK
  <2>2. CASE pc[t] \in {"balance", "check", "set"}
    BY <2>1, <2>2 DEF InSection, AtBalance, AtCheck, AtSet
  <2>3. CASE pc[t] = "sweep" /\ loc[t].i = 0
    <3>1. \A k \in Accounts : ~(k < 0)
      BY DEF Accounts
    <3>2. Swept(committed, cmd[t], 0) = committed
      BY <2>1, <3>1 DEF Swept
    <3>3. QED
      BY <2>1, <2>3, <3>2 DEF InSection, AtSweep
  <2>4. QED
    BY <2>2, <2>3 DEF StartsOn
<1>2. QED
  BY <1>1, BankInvariant, PTL

-----------------------------------------------------------------------------
(* Bank implements AtomicBank.  Both take the effect of a command from     *)
(* BankCells; the instance has its own copies of those operators.          *)

LEMMA SameCells ==
  /\ Atomic!NewCell = NewCell
  /\ Atomic!Accounts = Accounts
  /\ Atomic!NoCommand = NoCommand
  /\ Atomic!NoAnswer = NoAnswer
BY DEF Atomic!NewCell, Atomic!Accounts, Atomic!NoCommand, Atomic!NoAnswer,
       Atomic!Says, Atomic!NoLines,
       NewCell, Accounts, NoCommand, NoAnswer, Says, NoLines

LEMMA SameEffect ==
  ASSUME NEW b, NEW c
  PROVE  Atomic!Effect(b, c) = Effect(b, c)
BY Zenon DEF
   Atomic!Effect, Atomic!Admitted, Atomic!Accounts, Atomic!Setters,
   Atomic!Sweeps, Atomic!TransferCells, Atomic!TransferRefused, Atomic!Wrap,
   Atomic!IntMin, Atomic!SetBalance, Atomic!SetCell, Atomic!SweepCell,
   Atomic!SweepLine, Atomic!NewBalance, Atomic!BeyondLimit,
   Effect, Admitted, Accounts, Setters, Sweeps, TransferCells,
   TransferRefused, Wrap, IntMin, SetBalance, SetCell, SweepCell, SweepLine,
   NewBalance, BeyondLimit

LEMMA SameAnswer ==
  ASSUME NEW b, NEW c
  PROVE  Atomic!AnswerTo(b, c) = AnswerTo(b, c)
BY Zenon DEF
   Atomic!AnswerTo, Atomic!Admitted, Atomic!Accounts, Atomic!Setters,
   Atomic!Sweeps, Atomic!TransferRefused, Atomic!Wrap, Atomic!IntMin,
   Atomic!BalanceAnswer, Atomic!Says, Atomic!NoLines, Atomic!NoAnswer,
   Atomic!Printed, Atomic!SweepLine, Atomic!NewBalance, Atomic!BeyondLimit,
   AnswerTo, Admitted, Accounts, Setters, Sweeps, TransferRefused, Wrap,
   IntMin, BalanceAnswer, Says, NoLines, NoAnswer, Printed, SweepLine,
   NewBalance, BeyondLimit

LEMMA StepRefines == BankInv /\ [Next]_vars => [Atomic!Next]_(Atomic!vars)
<1> SUFFICES ASSUME BankInv, [Next]_vars PROVE [Atomic!Next]_(Atomic!vars)
  OBVIOUS
<1>1. ASSUME NEW t \in Threads, Call(t) PROVE Atomic!Next
  <2>1. cmd[t] = NoCommand
    BY <1>1 DEF Call, Goto, BankInv, Settled
  <2>2. Atomic!Call(t)
    BY <1>1, <2>1, SameCells DEF Call, Atomic!Call
  <2>3. QED
    BY <2>2 DEF Atomic!Next
<1>2. ASSUME NEW t \in Threads, Reject(t) PROVE Atomic!Next
  <2>1. cmd[t] # NoCommand
    BY <1>2 DEF Reject, Goto, BankInv, Settled
  <2>2. /\ Effect(committed, cmd[t]) = committed
        /\ AnswerTo(committed, cmd[t]) = Says("invalid")
    BY <1>2 DEF Reject, Effect, AnswerTo, Admitted, Setters, Sweeps
  <2>3. Atomic!Execute(t)
    BY <1>2, <2>1, <2>2, SameCells, SameEffect, SameAnswer
       DEF Reject, Atomic!Execute
  <2>4. QED
    BY <2>3 DEF Atomic!Next
<1>3. ASSUME NEW t \in Threads, UnlockBank(t) PROVE Atomic!Next
  <2>1. /\ cells = Effect(committed, cmd[t])
        /\ reply[t] = AnswerTo(committed, cmd[t])
    BY <1>3, UnlockEffect
  <2>2. cmd[t] # NoCommand
    BY <1>3, UnlockEffect DEF BankInv, Settled, Critical
  <2>3. Atomic!Execute(t)
    BY <1>3, <2>1, <2>2, SameCells, SameEffect, SameAnswer
       DEF UnlockBank, Atomic!Execute
  <2>4. QED
    BY <2>3 DEF Atomic!Next
<1>4. ASSUME NEW p \in Processes, Crash(p) PROVE Atomic!Next
  <2>1. Atomic!Die(p)
    BY <1>4, SameCells DEF Crash, Atomic!Die
  <2>2. QED
    BY <2>1 DEF Atomic!Next
<1>5. ASSUME NEW t \in Threads,
             \/ LockBank(t) \/ GetBalance(t) \/ TransferCheck(t)
             \/ TransferDebit(t) \/ TransferCredit(t) \/ SetField(t)
             \/ SweepRead(t) \/ SweepStore(t)
      PROVE  UNCHANGED Atomic!vars
  BY <1>5 DEF LockBank, GetBalance, TransferCheck, TransferDebit,
     TransferCredit, SetField, SweepRead, SweepStore, Atomic!vars
<1>6. ASSUME NEW p \in Processes, Restart(p) PROVE UNCHANGED Atomic!vars
  BY <1>6 DEF Restart, Atomic!vars
<1>7. CASE UNCHANGED vars
  BY <1>7 DEF vars, Atomic!vars
<1>8. QED
  BY <1>1, <1>2, <1>3, <1>4, <1>5, <1>6, <1>7 DEF Next, Thread, InBank

\* The bank is linearizable: whatever the interleaving of the processes and
\* whoever is killed, the commands take effect one at a time, each wholly or
\* not at all, with the answers of that order.
THEOREM Refinement == Spec => Linearizable
<1>1. Init => Atomic!Init
  BY SameCells DEF Init, Atomic!Init
<1>2. QED
  BY <1>1, StepRefines, BankInvariant, PTL DEF Spec, Linearizable, Atomic!Spec

\* The only step that frees a mutex held by t is its unlock_bank.
LEMMA OnlyUnlockFrees ==
  ASSUME BankInv, [Next]_vars, NEW t \in Threads, lock = t, lock' = Free
  PROVE  UnlockBank(t)
<1>1. lock # Free /\ lock # Orphan
  BY ThreadAssumption
<1>2. ASSUME NEW u \in Threads, UnlockBank(u) PROVE u = t
  BY <1>2, UnlockEffect DEF BankInv, LockOwner
<1>3. ASSUME NEW u \in Threads, LockBank(u) PROVE FALSE
  BY <1>1, <1>3 DEF LockBank
<1>4. ASSUME NEW p \in Processes, Crash(p) PROVE FALSE
  BY <1>1, <1>4, ThreadAssumption DEF Crash
<1>5. ASSUME NEW u \in Threads,
             \/ Call(u) \/ Reject(u) \/ GetBalance(u) \/ TransferCheck(u)
             \/ TransferDebit(u) \/ TransferCredit(u) \/ SetField(u)
             \/ SweepRead(u) \/ SweepStore(u)
      PROVE  lock' = lock
  BY <1>5 DEF Call, Reject, GetBalance, TransferCheck, TransferDebit,
     TransferCredit, SetField, SweepRead, SweepStore
<1>6. ASSUME NEW p \in Processes, Restart(p) PROVE lock' = lock
  BY <1>6 DEF Restart
<1>7. CASE UNCHANGED vars
  BY <1>1, <1>7 DEF vars
<1>8. QED
  BY <1>1, <1>2, <1>3, <1>4, <1>5, <1>6, <1>7 DEF Next, Thread, InBank

\* A balance within the limits of an account that is not frozen is accepted.
LEMMA Accepted ==
  ASSUME NEW cell \in Cell, NEW v \in Int, WithinLimits(cell, v), ~cell.frozen
  PROVE  SetBalance(cell, Wrap(v)).cur = v
<1>1. cell.min \in MachineInt /\ cell.max \in MachineInt
  BY DEF Cell
<1>2. v \in MachineInt
  BY <1>1, BankAssumption DEF WithinLimits, MachineInt, IntMin
<1>3. Wrap(v) = v
  BY <1>2, BankAssumption DEF Wrap, MachineInt, IntMin
<1>4. SetBalance(cell, v) = [cell EXCEPT !.cur = v]
  BY DEF SetBalance, WithinLimits
<1>5. QED
  BY <1>3, <1>4 DEF Cell

LEMMA ExactStep ==
  ASSUME BankInv, [Next]_vars, NEW t \in Threads,
         Commits(t, {"transfer"}, "done"),
         WithinLimits(committed[cmd[t].id],
                      committed[cmd[t].id].cur - cmd[t].amount),
         WithinLimits(committed[cmd[t].to],
                      committed[cmd[t].to].cur + cmd[t].amount)
  PROVE  Moves(cmd[t])
<1> DEFINE c    == cmd[t]
           from == committed[c.id]
           to   == committed[c.to]
<1>1. UnlockBank(t) /\ c.op = "transfer" /\ reply[t].says = "done"
  BY OnlyUnlockFrees DEF Commits
<1>2. /\ committed' = Effect(committed, c)
      /\ reply[t] = AnswerTo(committed, c)
      /\ c \in Command /\ Admitted(c)
  BY <1>1, UnlockEffect, Inside DEF UnlockBank
<1>3. committed \in [Accounts -> Cell]
  BY DEF BankInv, TypeOK
<1>4. /\ c.id \in Accounts /\ c.to \in Accounts /\ c.id # c.to
      /\ from \in Cell /\ to \in Cell
      /\ from.cur \in Int /\ to.cur \in Int /\ c.amount \in Int
  BY <1>1, <1>2, <1>3, TransferAccounts DEF MachineInt
<1>5. ~TransferRefused(from, to, from.cur, to.cur, c.amount)
  <2>1. Says("refused").says # "done"
    BY DEF Says
  <2>2. QED
    BY <1>1, <1>2, <2>1, TransferEffect
<1>6. committed' = [committed EXCEPT
                      ![c.id] = SetBalance(from, Wrap(from.cur - c.amount)),
                      ![c.to] = SetBalance(to, Wrap(to.cur + c.amount))]
  BY <1>1, <1>2, <1>3, <1>4, <1>5, TransferEffect DEF TransferCells
<1>7. ~from.frozen /\ ~to.frozen
  BY <1>5 DEF TransferRefused
<1>8. SetBalance(from, Wrap(from.cur - c.amount)).cur = from.cur - c.amount
  BY <1>4, <1>7, Accepted
<1>9. SetBalance(to, Wrap(to.cur + c.amount)).cur = to.cur + c.amount
  BY <1>4, <1>7, Accepted
<1>10. /\ committed'[c.id] = SetBalance(from, Wrap(from.cur - c.amount))
       /\ committed'[c.to] = SetBalance(to, Wrap(to.cur + c.amount))
  BY <1>3, <1>4, <1>6
<1>11. QED
  BY <1>8, <1>9, <1>10 DEF Moves

\* A transfer whose two new balances respect the accounts' limits moves
\* exactly its amount, whatever the other processes do meanwhile: the
\* balances it read are still those it writes back to.
THEOREM TransfersAreExact == Spec => TransferExact
<1>1. ASSUME BankInv, [Next]_vars
      PROVE  \A t \in Threads :
               LET c == cmd[t] IN
               /\ Commits(t, {"transfer"}, "done")
               /\ WithinLimits(committed[c.id], committed[c.id].cur - c.amount)
               /\ WithinLimits(committed[c.to], committed[c.to].cur + c.amount)
               => Moves(c)
  BY <1>1, ExactStep
<1>2. QED
  BY <1>1, BankInvariant, PTL DEF Spec, TransferExact
-----------------------------------------------------------------------------
(* Sums over accounts.  Total is a fold in an order that FoldFunction      *)
(* chooses; any order gives the same sum, and it exists because there are  *)
(* finitely many accounts.                                                 *)

\* A set of natural numbers has a least element.
LEMMA LeastElement ==
  ASSUME NEW S, S \subseteq Nat, S # {}
  PROVE  \E m \in S : \A x \in S : m <= x
<1>1. PICK m \in S : \A x \in S : ~(<<x, m>> \in OpToRel(<, Nat))
  BY NatLessThanWellFounded, WFMin
<1>2. \A x \in S : m <= x
  <2>1. ASSUME NEW x \in S, x < m PROVE FALSE
    <3>1. <<x, m>> \in OpToRel(<, Nat)
      BY <2>1 DEF OpToRel
    <3>2. QED
      BY <1>1, <3>1
  <2>2. QED
    BY <2>1
<1>3. QED
  BY <1>2

\* Induction, for a set of natural numbers.
LEMMA AllOfNat ==
  ASSUME NEW S, 0 \in S, \A m \in Nat : m \in S => m + 1 \in S
  PROVE  Nat \subseteq S
<1> DEFINE Not == Nat \ S
<1>1. SUFFICES ASSUME Not # {} PROVE FALSE
  OBVIOUS
<1>2. PICK m \in Not : \A x \in Not : m <= x
  BY <1>1, LeastElement
<1>3. PICK k \in Nat : m = k + 1
  <2>1. m # 0
    OBVIOUS
  <2>2. QED
    BY <2>1
<1>4. k \in S
  BY <1>2, <1>3
<1>5. QED
  BY <1>3, <1>4

\* Induction over the subsets of a finite set: what holds of a set whenever it
\* holds of it without any one of its elements holds of all of them.
LEMMA SubsetInduction ==
  ASSUME NEW A, IsFiniteSet(A), NEW P,
         \A s \in SUBSET A : (\A x \in s : s \ {x} \in P) => s \in P
  PROVE  SUBSET A \subseteq P
<1> DEFINE Sizes == {Cardinality(s) : s \in (SUBSET A) \ P}
<1>1. SUFFICES ASSUME (SUBSET A) \ P # {} PROVE FALSE
  OBVIOUS
<1>2. \A s \in SUBSET A : IsFiniteSet(s) /\ Cardinality(s) \in Nat
  BY FS_Subset, FS_CardinalityType
<1>3. PICK m \in Sizes : \A k \in Sizes : m <= k
  <2>1. Sizes \subseteq Nat /\ Sizes # {}
    BY <1>1, <1>2
  <2>2. QED
    BY <2>1, LeastElement
<1>4. PICK s \in (SUBSET A) \ P : Cardinality(s) = m
  OBVIOUS
<1>5. ASSUME NEW x \in s PROVE s \ {x} \in P
  <2>1. Cardinality(s \ {x}) = Cardinality(s) - 1
    BY <1>2, FS_RemoveElement
  <2>2. s \ {x} \in SUBSET A
    OBVIOUS
  <2>3. s \ {x} \notin P => Cardinality(s \ {x}) \in Sizes
    BY <2>2
  <2>4. Cardinality(s) \in Nat
    BY <1>2
  <2>5. ~(m <= Cardinality(s) - 1)
    BY <1>4, <2>4
  <2>6. QED
    BY <1>3, <2>1, <2>3, <2>5
<1>6. QED
  BY <1>4, <1>5

\* sum gives every set of accounts the sum of its balances.
Sums(sum, A, w) ==
  /\ sum \in [SUBSET A -> Int]
  /\ sum[{}] = 0
  /\ \A s \in SUBSET A : \A x \in s : sum[s] = w[x] + sum[s \ {x}]

\* One more account: its balance counts in the sets that it is in.
LEMMA OneMoreAccount ==
  ASSUME NEW n \in Nat, NEW w \in [0 .. n -> Int], NEW sum,
         Sums(sum, 0 .. n - 1, w)
  PROVE  \E more : Sums(more, 0 .. n, w)
<1> DEFINE Old  == 0 .. n - 1
           more == [s \in SUBSET (0 .. n) |->
                      IF n \in s THEN w[n] + sum[s \ {n}] ELSE sum[s]]
<1>1. \A s \in SUBSET (0 .. n) : s \ {n} \in SUBSET Old
  OBVIOUS
<1>2. \A s \in SUBSET (0 .. n) : n \notin s => s \in SUBSET Old
  OBVIOUS
<1>3. more \in [SUBSET (0 .. n) -> Int]
  <2>1. \A s \in SUBSET Old : sum[s] \in Int
    BY DEF Sums
  <2>2. w[n] \in Int
    OBVIOUS
  <2>3. QED
    BY <1>1, <1>2, <2>1, <2>2
<1>4. more[{}] = 0
  BY DEF Sums
<1>5. ASSUME NEW s \in SUBSET (0 .. n), NEW x \in s
      PROVE  more[s] = w[x] + more[s \ {x}]
  <2>1. s \ {x} \in SUBSET (0 .. n)
    OBVIOUS
  <2>2. CASE n \notin s
    <3>1. s \in SUBSET Old /\ n \notin s \ {x}
      BY <1>2, <2>2
    <3>2. sum[s] = w[x] + sum[s \ {x}]
      BY <3>1 DEF Sums
    <3>3. more[s] = sum[s] /\ more[s \ {x}] = sum[s \ {x}]
      BY <2>1, <2>2, <3>1
    <3>4. QED
      BY <3>2, <3>3
  <2>3. CASE x = n
    BY <2>1, <2>3
  <2>4. CASE n \in s /\ x # n
    <3>1. /\ x \in s \ {n} /\ s \ {n} \in SUBSET Old
          /\ (s \ {n}) \ {x} = (s \ {x}) \ {n}
      BY <1>1, <2>4
    <3>2. sum[s \ {n}] = w[x] + sum[(s \ {x}) \ {n}]
      <4>1. PICK t \in SUBSET Old : t = s \ {n}
        BY <3>1
      <4>2. sum[t] = w[x] + sum[t \ {x}]
        BY <3>1, <4>1 DEF Sums
      <4>3. QED
        BY <3>1, <4>1, <4>2
    <3>3. more[s] = w[n] + sum[s \ {n}]
      BY <2>4
    <3>4. more[s \ {x}] = w[n] + sum[(s \ {x}) \ {n}]
      BY <2>1, <2>4
    <3>5. /\ w[n] \in Int /\ w[x] \in Int
          /\ sum[(s \ {x}) \ {n}] \in Int
      BY <1>1, <2>1 DEF Sums
    <3>6. QED
      BY <3>2, <3>3, <3>4, <3>5
  <2>5. QED
    BY <2>2, <2>3, <2>4
<1> HIDE DEF more
<1>6. Sums(more, 0 .. n, w)
  BY <1>3, <1>4, <1>5 DEF Sums
<1>7. QED
  BY <1>6

\* Whatever the balances are, they have sums.
LEMMA SumsExist ==
  ASSUME NEW n \in Nat, NEW w \in [0 .. n - 1 -> Int]
  PROVE  \E sum : Sums(sum, 0 .. n - 1, w)
<1> DEFINE Good == {k \in Nat : k <= n => \E sum : Sums(sum, 0 .. k - 1, w)}
<1>1. 0 \in Good
  <2>1. Sums([s \in SUBSET (0 .. 0 - 1) |-> 0], 0 .. 0 - 1, w)
    <3>1. 0 .. 0 - 1 = {}
      OBVIOUS
    <3>2. QED
      BY <3>1 DEF Sums
  <2>2. QED
    BY <2>1
<1>2. ASSUME NEW k \in Nat, k \in Good PROVE k + 1 \in Good
  <2>1. SUFFICES ASSUME k + 1 <= n PROVE \E sum : Sums(sum, 0 .. k, w)
    <3>1. k + 1 - 1 = k
      OBVIOUS
    <3>2. QED
      BY <3>1
  <2>2. PICK sum : Sums(sum, 0 .. k - 1, w)
    BY <1>2, <2>1
  <2> DEFINE v == [i \in 0 .. k |-> w[i]]
  <2>3. v \in [0 .. k -> Int]
    BY <2>1
  <2>4. \A i \in 0 .. k : v[i] = w[i]
    OBVIOUS
  <2> HIDE DEF v
  <2>5. Sums(sum, 0 .. k - 1, v)
    BY <2>2, <2>4 DEF Sums
  <2>6. PICK more : Sums(more, 0 .. k, v)
    BY <2>3, <2>5, OneMoreAccount
  <2>7. Sums(more, 0 .. k, w)
    BY <2>4, <2>6 DEF Sums
  <2>8. QED
    BY <2>7
<1> HIDE DEF Good
<1>3. n \in Good
  BY <1>1, <1>2, AllOfNat
<1>4. QED
  BY <1>3 DEF Good

\* Balances that agree on a set have the same sum over it.
LEMMA SameSums ==
  ASSUME NEW A, IsFiniteSet(A), NEW w, NEW v, NEW f, NEW g,
         Sums(f, A, w), Sums(g, A, v), NEW T \in SUBSET A,
         \A x \in T : w[x] = v[x]
  PROVE  f[T] = g[T]
<1> DEFINE P == {s \in SUBSET T : f[s] = g[s]}
<1>1. ASSUME NEW s \in SUBSET T, \A x \in s : s \ {x} \in P PROVE s \in P
  <2>1. CASE s = {}
    BY <2>1 DEF Sums
  <2>2. CASE s # {}
    <3>1. PICK x \in s : TRUE
      BY <2>2
    <3>2. f[s \ {x}] = g[s \ {x}]
      BY <1>1
    <3>3. f[s] = w[x] + f[s \ {x}] /\ g[s] = v[x] + g[s \ {x}]
      BY DEF Sums
    <3>4. QED
      BY <3>2, <3>3
  <2>3. QED
    BY <2>1, <2>2
<1>2. IsFiniteSet(T)
  BY FS_Subset
<1> HIDE DEF P
<1>3. T \in P
  <2>1. \A s \in SUBSET T : (\A x \in s : s \ {x} \in P) => s \in P
    BY <1>1
  <2>2. SUBSET T \subseteq P
    BY <1>2, <2>1, SubsetInduction
  <2>3. QED
    BY <2>2
<1>4. QED
  BY <1>3 DEF P

\* What FoldFunction chooses.
Summing(b, sum) ==
  sum = [s \in SUBSET DOMAIN b |->
           IF s = {} THEN 0
           ELSE b[CHOOSE x \in s : TRUE].cur + sum[s \ {CHOOSE x \in s : TRUE}]]

LEMMA TotalChosen ==
  ASSUME NEW b
  PROVE  Total(b) = (CHOOSE sum : Summing(b, sum))[DOMAIN b]
BY Zenon DEF Total, FoldFunction, FoldFunctionOnSet, MapThenFoldSet, Summing

\* The balances of the cells b.
Balances(b) == [i \in Accounts |-> b[i].cur]

\* Total is the sum of all balances.
LEMMA TotalIsSum ==
  ASSUME NEW b \in [Accounts -> Cell], NEW sum,
         Sums(sum, Accounts, Balances(b))
  PROVE  Total(b) = sum[Accounts]
<1>1. IsFiniteSet(Accounts)
  BY BankAssumption, FS_Interval DEF Accounts
<1>2. DOMAIN b = Accounts
  OBVIOUS
<1>3. Summing(b, sum)
  <2>1. ASSUME NEW s \in SUBSET Accounts, s # {}
        PROVE  sum[s] = b[CHOOSE x \in s : TRUE].cur
                          + sum[s \ {CHOOSE x \in s : TRUE}]
    <3>1. (CHOOSE x \in s : TRUE) \in s
      BY <2>1
    <3>2. PICK y \in s : y = (CHOOSE x \in s : TRUE)
      BY <3>1
    <3>3. sum[s] = Balances(b)[y] + sum[s \ {y}]
      BY DEF Sums
    <3>4. Balances(b)[y] = b[y].cur
      BY DEF Balances
    <3>5. QED
      BY <3>2, <3>3, <3>4
  <2>2. sum \in [SUBSET Accounts -> Int] /\ sum[{}] = 0
    BY DEF Sums
  <2>3. QED
    BY <1>2, <2>1, <2>2 DEF Summing
<1>4. ASSUME NEW f, Summing(b, f) PROVE f[Accounts] = sum[Accounts]
  <2> DEFINE P == {s \in SUBSET Accounts : f[s] = sum[s]}
  <2>1. ASSUME NEW s \in SUBSET Accounts, \A x \in s : s \ {x} \in P
        PROVE  s \in P
    <3>1. CASE s = {}
      BY <1>2, <1>3, <1>4, <3>1 DEF Summing
    <3>2. CASE s # {}
      <4>1. PICK y \in s : y = (CHOOSE x \in s : TRUE)
        BY <3>2
      <4>2. f[s \ {y}] = sum[s \ {y}]
        BY <2>1
      <4>3. f[s] = b[y].cur + f[s \ {y}]
        BY <1>2, <1>4, <3>2, <4>1 DEF Summing
      <4>4. sum[s] = b[y].cur + sum[s \ {y}]
        BY <1>2, <1>3, <3>2, <4>1 DEF Summing
      <4>5. QED
        BY <4>2, <4>3, <4>4
    <3>3. QED
      BY <3>1, <3>2
  <2> HIDE DEF P
  <2>2. \A s \in SUBSET Accounts : (\A x \in s : s \ {x} \in P) => s \in P
    BY <2>1
  <2>3. Accounts \in P
    BY <1>1, <2>2, SubsetInduction
  <2>4. QED
    BY <2>3 DEF P
<1>5. Summing(b, CHOOSE f : Summing(b, f))
  BY <1>3
<1>6. QED
  BY <1>2, <1>4, <1>5, TotalChosen

\* The same balances have the same total.
LEMMA SameBalances ==
  ASSUME NEW b \in [Accounts -> Cell], NEW d \in [Accounts -> Cell],
         \A i \in Accounts : d[i].cur = b[i].cur
  PROVE  Total(d) = Total(b)
<1>1. Balances(b) \in [Accounts -> Int] /\ Balances(d) = Balances(b)
  BY DEF Balances, Cell, MachineInt
<1>2. PICK sum : Sums(sum, Accounts, Balances(b))
  BY <1>1, BankAssumption, SumsExist DEF Accounts
<1>3. QED
  BY <1>1, <1>2, TotalIsSum

\* What one account loses and another gets leaves the total alone.
LEMMA MovedBalances ==
  ASSUME NEW b \in [Accounts -> Cell], NEW d \in [Accounts -> Cell],
         NEW x \in Accounts, NEW y \in Accounts, x # y,
         NEW a \in Int, d[x].cur = b[x].cur - a, d[y].cur = b[y].cur + a,
         \A i \in Accounts \ {x, y} : d[i].cur = b[i].cur
  PROVE  Total(d) = Total(b)
<1> DEFINE w == Balances(b)
           v == Balances(d)
           Rest == (Accounts \ {x}) \ {y}
<1>1. w \in [Accounts -> Int] /\ v \in [Accounts -> Int]
  BY DEF Balances, Cell, MachineInt
<1>2. PICK f : Sums(f, Accounts, w)
  BY <1>1, BankAssumption, SumsExist DEF Accounts
<1>3. PICK g : Sums(g, Accounts, v)
  BY <1>1, BankAssumption, SumsExist DEF Accounts
<1>4. f[Rest] = g[Rest]
  <2>1. \A i \in Rest : w[i] = v[i]
    BY DEF Balances
  <2>2. IsFiniteSet(Accounts)
    BY BankAssumption, FS_Interval DEF Accounts
  <2> HIDE DEF w, v
  <2>3. QED
    BY <1>2, <1>3, <2>1, <2>2, SameSums
<1>5. v[x] = w[x] - a /\ v[y] = w[y] + a
  BY DEF Balances
<1>6. w[x] \in Int /\ w[y] \in Int
  BY <1>1
<1> HIDE DEF w, v
<1>7. /\ f[Accounts] = w[x] + (w[y] + f[Rest])
      /\ g[Accounts] = v[x] + (v[y] + g[Rest])
      /\ f[Rest] \in Int
  <2>1. /\ x \in Accounts /\ y \in Accounts \ {x}
        /\ Accounts \in SUBSET Accounts /\ Accounts \ {x} \in SUBSET Accounts
    OBVIOUS
  <2>2. /\ f[Accounts] = w[x] + f[Accounts \ {x}]
        /\ g[Accounts] = v[x] + g[Accounts \ {x}]
    BY <1>2, <1>3, <2>1 DEF Sums
  <2>3. /\ f[Accounts \ {x}] = w[y] + f[Rest]
        /\ g[Accounts \ {x}] = v[y] + g[Rest]
    BY <1>2, <1>3, <2>1 DEF Sums
  <2>4. f[Rest] \in Int
    BY <1>2 DEF Sums
  <2>5. QED
    BY <2>2, <2>3, <2>4
<1>8. f[Accounts] = g[Accounts]
  BY <1>4, <1>5, <1>6, <1>7
<1>9. QED
  BY <1>2, <1>3, <1>8, TotalIsSum DEF w, v
-----------------------------------------------------------------------------
(* Money.  The sum of two balances of new accounts must fit an int, as it  *)
(* does in the build (2 * 1000000 < 2^31): were it not so, the credit of a *)
(* transfer could wrap, pass the check against the maximum and be refused  *)
(* by set_balance, after the debit.                                        *)

\* A transfer between accounts as they are created moves its amount, or does
\* nothing at all.
LEMMA TransferKeepsTotal ==
  ASSUME 2 * DefaultMax <= IntMax,
         NEW b \in [Accounts -> Cell], NEW c \in Command,
         Admitted(c), c.op = "transfer", AsCreated(b[c.id]), AsCreated(b[c.to])
  PROVE  Total(TransferCells(b, c)) = Total(b)
<1> DEFINE from == b[c.id]
           to   == b[c.to]
           after == TransferCells(b, c)
<1>1. /\ c.id \in Accounts /\ c.to \in Accounts /\ c.id # c.to
      /\ from \in Cell /\ to \in Cell
      /\ from.cur \in Int /\ to.cur \in Int /\ c.amount \in Int
      /\ c.amount > 0
  <2>1. c.amount > 0
    BY DEF Admitted, Setters
  <2>2. MachineInt \subseteq Int
    BY DEF MachineInt
  <2>3. QED
    BY <2>1, <2>2, TransferAccounts
<1>2. CASE TransferRefused(from, to, from.cur, to.cur, c.amount)
  BY <1>2 DEF TransferCells
<1>3. CASE ~TransferRefused(from, to, from.cur, to.cur, c.amount)
  <2>1. ~from.frozen /\ ~to.frozen /\ c.amount <= from.cur
        /\ Wrap(to.cur + c.amount) <= to.max
    <3>1. ~(from.cur < c.amount) => c.amount <= from.cur
      BY <1>1
    <3>2. to.max \in Int /\ Wrap(to.cur + c.amount) \in Int
      BY <1>1, BankAssumption DEF Cell, MachineInt, Wrap, IntMin
    <3>3. ~(Wrap(to.cur + c.amount) > to.max)
            => Wrap(to.cur + c.amount) <= to.max
      BY <3>2
    <3>4. QED
      BY <1>3, <3>1, <3>3 DEF TransferRefused
  <2>2. /\ 0 <= from.cur /\ from.cur <= DefaultMax
        /\ 0 <= to.cur /\ to.cur <= DefaultMax
        /\ from.min = 0 /\ from.max = DefaultMax
        /\ to.min = 0 /\ to.max = DefaultMax
    BY DEF AsCreated, WithinLimits, NewCell
  <2>3. WithinLimits(from, from.cur - c.amount)
    BY <1>1, <2>1, <2>2, BankAssumption DEF WithinLimits
  <2>4. WithinLimits(to, to.cur + c.amount)
    <3>1. Wrap(to.cur + c.amount) = to.cur + c.amount
      BY <1>1, <2>1, <2>2, BankAssumption DEF Wrap, IntMin
    <3>2. QED
      BY <1>1, <2>1, <2>2, <3>1, BankAssumption DEF WithinLimits
  <2> DEFINE newFrom == SetBalance(from, Wrap(from.cur - c.amount))
             newTo   == SetBalance(to, Wrap(to.cur + c.amount))
  <2>5. newFrom.cur = from.cur - c.amount /\ newTo.cur = to.cur + c.amount
    BY <1>1, <2>1, <2>3, <2>4, Accepted
  <2>6. newFrom \in Cell /\ newTo \in Cell
    <3>1. /\ from.cur \in MachineInt /\ to.cur \in MachineInt
          /\ c.amount \in MachineInt
      BY TransferAccounts
    <3>2. QED
      BY <1>1, <3>1, WrapSum, WrapDifference, SetBalanceType
  <2>7. after = [b EXCEPT ![c.id] = newFrom, ![c.to] = newTo]
    BY <1>1, <1>3 DEF TransferCells
  <2> HIDE DEF after, newFrom, newTo
  <2>8. /\ after \in [Accounts -> Cell]
        /\ after[c.id] = newFrom /\ after[c.to] = newTo
        /\ \A i \in Accounts \ {c.id, c.to} : after[i] = b[i]
    BY <1>1, <2>6, <2>7
  <2>9. QED
    BY <1>1, <2>5, <2>8, MovedBalances DEF after
<1>4. QED
  BY <1>2, <1>3

\* freeze and the setters of limits touch no balance.
LEMMA SetterKeepsTotal ==
  ASSUME NEW b \in [Accounts -> Cell], NEW c \in Command,
         Admitted(c), c.op \in Setters
  PROVE  Total([b EXCEPT ![c.id] = SetCell(@, c)]) = Total(b)
<1> DEFINE after == [b EXCEPT ![c.id] = SetCell(@, c)]
<1>1. c.id \in Accounts
  BY DEF Admitted, Setters
<1>2. SetCell(b[c.id], c) \in Cell /\ SetCell(b[c.id], c).cur = b[c.id].cur
  BY <1>1, SetCellType DEF SetCell, Cell
<1>3. after \in [Accounts -> Cell]
  BY <1>2
<1>4. \A i \in Accounts : after[i].cur = b[i].cur
  BY <1>1, <1>2
<1> HIDE DEF after
<1>5. Total(after) = Total(b)
  BY <1>3, <1>4, SameBalances
<1>6. QED
  BY <1>5 DEF after

\* What is committed changes when the mutex is given back, and then only.
LEMMA OnlyUnlockCommits ==
  ASSUME [Next]_vars, committed' # committed
  PROVE  \E t \in Threads : UnlockBank(t)
<1>1. ASSUME NEW u \in Threads,
             \/ Call(u) \/ Reject(u) \/ LockBank(u) \/ GetBalance(u)
             \/ TransferCheck(u) \/ TransferDebit(u) \/ TransferCredit(u)
             \/ SetField(u) \/ SweepRead(u) \/ SweepStore(u)
      PROVE  FALSE
  BY <1>1 DEF Call, Reject, LockBank, GetBalance, TransferCheck,
     TransferDebit, TransferCredit, SetField, SweepRead, SweepStore
<1>2. ASSUME NEW p \in Processes, Crash(p) \/ Restart(p) PROVE FALSE
  BY <1>2 DEF Crash, Restart
<1>3. ~UNCHANGED vars
  BY DEF vars
<1>4. QED
  BY <1>1, <1>2, <1>3 DEF Next, Thread, InBank

\* Only a sweep changes the sum of all balances.
LEMMA MoneyStep ==
  ASSUME 2 * DefaultMax <= IntMax, BankInv, [Next]_vars,
         AllAsCreated, Total(committed') # Total(committed)
  PROVE  \E t \in Threads : Commits(t, Sweeps, "nothing")
<1>1. committed' # committed
  OBVIOUS
<1>2. PICK t \in Threads : UnlockBank(t)
  BY <1>1, OnlyUnlockCommits
<1> DEFINE c == cmd[t]
<1>3. /\ committed' = Effect(committed, c)
      /\ reply[t] = AnswerTo(committed, c)
      /\ c \in Command /\ Admitted(c)
      /\ lock = t /\ lock' = Free
  BY <1>2, UnlockEffect, Inside DEF UnlockBank
<1>4. committed \in [Accounts -> Cell]
  BY DEF BankInv, TypeOK
<1> HIDE DEF c
<1>5. c.op # "balance"
  BY <1>1, <1>3, BalanceEffect
<1>6. c.op # "transfer"
  <2>1. SUFFICES ASSUME c.op = "transfer" PROVE FALSE
    OBVIOUS
  <2>2. AsCreated(committed[c.id]) /\ AsCreated(committed[c.to])
    BY <1>3, <1>4, <2>1, TransferAccounts DEF AllAsCreated
  <2>3. Total(TransferCells(committed, c)) = Total(committed)
    BY <1>3, <1>4, <2>1, <2>2, TransferKeepsTotal
  <2>4. QED
    BY <1>3, <2>1, <2>3, TransferEffect
<1>7. c.op \notin Setters
  BY <1>3, <1>4, SetterKeepsTotal, SetterEffect
<1>8. c.op \in Sweeps
  BY <1>3, <1>5, <1>6, <1>7 DEF Command, Ops
<1>9. reply[t].says = "nothing"
  BY <1>3, <1>4, <1>8, SweepEffect DEF Printed, NoAnswer, Says
<1>10. QED
  BY <1>3, <1>8, <1>9 DEF Commits, c

\* Whatever processes transfer, freeze and are killed, and wherever, money is
\* neither created nor destroyed except by credit_all and debit_all, as long
\* as all accounts have the limits they were created with.
THEOREM MoneyIsConserved ==
  ASSUME 2 * DefaultMax <= IntMax
  PROVE  Spec => MoneyConserved
<1>1. ASSUME BankInv, [Next]_vars
      PROVE  AllAsCreated /\ Total(committed') # Total(committed)
               => \E t \in Threads : Commits(t, Sweeps, "nothing")
  BY <1>1, MoneyStep
<1>2. QED
  BY <1>1, BankInvariant, PTL DEF Spec, MoneyConserved
=============================================================================

-------------------------------- MODULE Bank ---------------------------------
(***************************************************************************)
(* The Bank object in shared memory, used by several processes at once:    *)
(* local_client.cpp, and server.cpp with one thread per connection.  One   *)
(* action per step of a Bank method; the mutex is the process-shared one   *)
(* stored in the object, which is not robust: nobody releases it when the  *)
(* owner dies.  committed is an auxiliary variable, the cells as they were *)
(* when the mutex was last released.                                       *)
(***************************************************************************)
EXTENDS BankCells, Functions

CONSTANTS Threads,     \* command loops: local clients and server handlers
          Processes,   \* the processes those threads live in
          Home,        \* the process of each thread
          Commands,    \* the commands users type
          MaxCrashes,  \* bound: how often a process may be killed
          Free, Orphan \* values of lock that are no thread

ASSUME ThreadAssumption ==
  /\ Home \in [Threads -> Processes]
  /\ Commands \subseteq Command
  /\ MaxCrashes \in Nat
  /\ Free \notin Threads /\ Orphan \notin Threads /\ Free # Orphan

VARIABLES cells,      \* the cells in shared memory
          lock,       \* holder of the mutex; Orphan when the holder was killed
          pc,         \* where each thread is
          cmd,        \* the command each thread executes
          loc,        \* local variables of the method in progress
          reply,      \* the output it has built so far
          answer,     \* what the user saw of the last command
          committed,  \* auxiliary: cells at the last release of the mutex
          crashes

vars == <<cells, lock, pc, cmd, loc, reply, answer, committed, crashes>>

Critical == {"balance", "check", "debit", "credit", "set", "sweep", "store",
             "unlock"}
PCs      == {"idle", "called", "dead"} \cup Critical

Locals   == [from : MachineInt, to : MachineInt, new : MachineInt,
             i : 0 .. Size]
NoLocals == [from |-> 0, to |-> 0, new |-> 0, i |-> 0]

Init ==
  /\ cells = [i \in Accounts |-> NewCell]
  /\ lock = Free
  /\ pc = [t \in Threads |-> "idle"]
  /\ cmd = [t \in Threads |-> NoCommand]
  /\ loc = [t \in Threads |-> NoLocals]
  /\ reply = [t \in Threads |-> NoAnswer]
  /\ answer = [t \in Threads |-> NoAnswer]
  /\ committed = cells
  /\ crashes = 0

-----------------------------------------------------------------------------
Goto(t, from, to) == pc[t] = from /\ pc' = [pc EXCEPT ![t] = to]
Reply(t, r)       == reply' = [reply EXCEPT ![t] = r]

\* process_command reads a command line.
Call(t) ==
  /\ Goto(t, "idle", "called")
  /\ \E c \in Commands : cmd' = [cmd EXCEPT ![t] = c]
  /\ answer' = [answer EXCEPT ![t] = NoAnswer]
  /\ UNCHANGED <<cells, lock, loc, reply, committed, crashes>>

\* The early returns taken before lock_bank.
Reject(t) ==
  /\ ~Admitted(cmd[t])
  /\ Goto(t, "called", "idle")
  /\ answer' = [answer EXCEPT ![t] = Says("invalid")]
  /\ cmd' = [cmd EXCEPT ![t] = NoCommand]
  /\ UNCHANGED <<cells, lock, loc, reply, committed, crashes>>

Entry(c) == CASE c.op = "balance"  -> "balance"
              [] c.op = "transfer" -> "check"
              [] c.op \in Setters  -> "set"
              [] OTHER             -> "sweep"

\* Faulty variant: the mutex is taken without waiting for it.
LockBankAtOnce(t) ==
  /\ Admitted(cmd[t])
  /\ Goto(t, "called", Entry(cmd[t]))
  /\ lock' = t
  /\ UNCHANGED <<cells, cmd, loc, reply, answer, committed, crashes>>

LockBank(t) ==
  /\ Admitted(cmd[t])
  /\ lock = Free
  /\ Goto(t, "called", Entry(cmd[t]))
  /\ lock' = t
  /\ UNCHANGED <<cells, cmd, loc, reply, answer, committed, crashes>>

UnlockBank(t) ==
  /\ \/ pc[t] = "unlock"
     \/ pc[t] = "sweep" /\ loc[t].i = Size
  /\ pc' = [pc EXCEPT ![t] = "idle"]
  /\ lock' = Free
  /\ committed' = cells
  /\ answer' = [answer EXCEPT ![t] = reply[t]]
  /\ reply' = [reply EXCEPT ![t] = NoAnswer]
  /\ cmd' = [cmd EXCEPT ![t] = NoCommand]
  /\ loc' = [loc EXCEPT ![t] = NoLocals]
  /\ UNCHANGED <<cells, crashes>>

GetBalance(t) ==
  /\ Goto(t, "balance", "unlock")
  /\ Reply(t, BalanceAnswer(cells, cmd[t]))
  /\ UNCHANGED <<cells, lock, cmd, loc, answer, committed, crashes>>

\* Faulty variant: the early return forgets unlock_bank.
TransferCheckKeepsLock(t) ==
  LET c    == cmd[t]
      from == cells[c.id]
      to   == cells[c.to]
  IN  /\ pc[t] = "check"
      /\ IF TransferRefused(from, to, from.cur, to.cur, c.amount)
         THEN /\ pc' = [pc EXCEPT ![t] = "idle"]
              /\ cmd' = [cmd EXCEPT ![t] = NoCommand]
              /\ UNCHANGED loc
         ELSE /\ pc' = [pc EXCEPT ![t] = "debit"]
              /\ loc' = [loc EXCEPT ![t].from = from.cur, ![t].to = to.cur]
              /\ UNCHANGED cmd
      /\ UNCHANGED <<cells, lock, reply, answer, committed, crashes>>

\* Faulty variant: the balance of the receiving account is not read.
TransferCheckReadsOne(t) ==
  LET c    == cmd[t]
      from == cells[c.id]
      to   == cells[c.to]
  IN  /\ pc[t] = "check"
      /\ IF TransferRefused(from, to, from.cur, to.cur, c.amount)
         THEN /\ pc' = [pc EXCEPT ![t] = "unlock"]
              /\ Reply(t, Says("refused"))
              /\ UNCHANGED loc
         ELSE /\ pc' = [pc EXCEPT ![t] = "debit"]
              /\ loc' = [loc EXCEPT ![t].from = from.cur]
              /\ UNCHANGED reply
      /\ UNCHANGED <<cells, lock, cmd, answer, committed, crashes>>

\* transfer: both balances are read before the check, and the writes use
\* the values read.
TransferCheck(t) ==
  LET c    == cmd[t]
      from == cells[c.id]
      to   == cells[c.to]
  IN  /\ pc[t] = "check"
      /\ IF TransferRefused(from, to, from.cur, to.cur, c.amount)
         THEN /\ pc' = [pc EXCEPT ![t] = "unlock"]
              /\ Reply(t, Says("refused"))
              /\ UNCHANGED loc
         ELSE /\ pc' = [pc EXCEPT ![t] = "debit"]
              /\ loc' = [loc EXCEPT ![t].from = from.cur, ![t].to = to.cur]
              /\ UNCHANGED reply
      /\ UNCHANGED <<cells, lock, cmd, answer, committed, crashes>>

TransferDebit(t) ==
  /\ Goto(t, "debit", "credit")
  /\ cells' = [cells EXCEPT ![cmd[t].id] =
                 SetBalance(@, Wrap(loc[t].from - cmd[t].amount))]
  /\ UNCHANGED <<lock, cmd, loc, reply, answer, committed, crashes>>

TransferCredit(t) ==
  /\ Goto(t, "credit", "unlock")
  /\ cells' = [cells EXCEPT ![cmd[t].to] =
                 SetBalance(@, Wrap(loc[t].to + cmd[t].amount))]
  /\ Reply(t, Says("done"))
  /\ UNCHANGED <<lock, cmd, loc, answer, committed, crashes>>

\* freeze_account, set_min and set_max: one write under the mutex.
SetField(t) ==
  /\ Goto(t, "set", "unlock")
  /\ cells' = [cells EXCEPT ![cmd[t].id] = SetCell(@, cmd[t])]
  /\ Reply(t, Says("done"))
  /\ UNCHANGED <<lock, cmd, loc, answer, committed, crashes>>

\* The line printed for account i by credit_all and debit_all.
ReplyLine(t, line) ==
  Reply(t, [reply[t] EXCEPT !.lines[loc[t].i] = line])

\* Faulty variant: a frozen account is skipped without a line.
SweepReadSilent(t) ==
  LET cell == cells[loc[t].i]
      line == SweepLine(cell, cmd[t])
  IN  /\ pc[t] = "sweep"
      /\ loc[t].i < Size
      /\ IF line = "moved"
         THEN /\ pc' = [pc EXCEPT ![t] = "store"]
              /\ loc' = [loc EXCEPT ![t].new = NewBalance(cell, cmd[t])]
              /\ UNCHANGED reply
         ELSE /\ IF line = "frozen" THEN UNCHANGED reply
                                    ELSE ReplyLine(t, line)
              /\ loc' = [loc EXCEPT ![t].i = @ + 1]
              /\ UNCHANGED pc
      /\ UNCHANGED <<cells, lock, cmd, answer, committed, crashes>>

\* credit_all and debit_all: one cell is read and either skipped ...
SweepRead(t) ==
  LET cell == cells[loc[t].i]
      line == SweepLine(cell, cmd[t])
  IN  /\ pc[t] = "sweep"
      /\ loc[t].i < Size
      /\ IF line = "moved"
         THEN /\ pc' = [pc EXCEPT ![t] = "store"]
              /\ loc' = [loc EXCEPT ![t].new = NewBalance(cell, cmd[t])]
              /\ UNCHANGED reply
         ELSE /\ ReplyLine(t, line)
              /\ loc' = [loc EXCEPT ![t].i = @ + 1]
              /\ UNCHANGED pc
      /\ UNCHANGED <<cells, lock, cmd, answer, committed, crashes>>

\* ... or written, whether or not set_balance accepts the new balance.
SweepStore(t) ==
  /\ Goto(t, "store", "sweep")
  /\ cells' = [cells EXCEPT ![loc[t].i] = SetBalance(@, loc[t].new)]
  /\ ReplyLine(t, "moved")
  /\ loc' = [loc EXCEPT ![t].i = @ + 1]
  /\ UNCHANGED <<lock, cmd, answer, committed, crashes>>

-----------------------------------------------------------------------------
\* A process is killed with all its threads: a local client by a signal, the
\* server also by the exit(0) that a "shutdown" command runs.
ThreadsOf(p) == {t \in Threads : Home[t] = p}

Crash(p) ==
  /\ crashes < MaxCrashes
  /\ \E t \in ThreadsOf(p) : pc[t] # "dead"
  /\ crashes' = crashes + 1
  /\ lock' = IF lock \in ThreadsOf(p) THEN Orphan ELSE lock
  /\ pc' = [t \in Threads |-> IF Home[t] = p THEN "dead" ELSE pc[t]]
  /\ cmd' = [t \in Threads |-> IF Home[t] = p THEN NoCommand ELSE cmd[t]]
  /\ loc' = [t \in Threads |-> IF Home[t] = p THEN NoLocals ELSE loc[t]]
  /\ reply' = [t \in Threads |-> IF Home[t] = p THEN NoAnswer ELSE reply[t]]
  /\ answer' = [t \in Threads |-> IF Home[t] = p THEN NoAnswer ELSE answer[t]]
  /\ UNCHANGED <<cells, committed>>

\* The program is started again and attaches to the same object.
Restart(p) ==
  /\ \A t \in ThreadsOf(p) : pc[t] = "dead"
  /\ pc' = [t \in Threads |-> IF Home[t] = p THEN "idle" ELSE pc[t]]
  /\ UNCHANGED <<cells, lock, cmd, loc, reply, answer, committed, crashes>>

-----------------------------------------------------------------------------
InBank(t) == \/ GetBalance(t) \/ TransferCheck(t) \/ TransferDebit(t)
             \/ TransferCredit(t) \/ SetField(t) \/ SweepRead(t)
             \/ SweepStore(t) \/ UnlockBank(t)

Thread(t) == Call(t) \/ Reject(t) \/ LockBank(t) \/ InBank(t)

Next == \/ \E t \in Threads : Thread(t)
        \/ \E p \in Processes : Crash(p) \/ Restart(p)

Spec == Init /\ [][Next]_vars

\* The scheduler runs every thread that can run: inside the bank it is never
\* blocked, and it takes a mutex that stays free.
Fairness == \A t \in Threads : WF_vars(InBank(t)) /\ WF_vars(LockBank(t))

FairSpec == Spec /\ Fairness

-----------------------------------------------------------------------------
(* Properties.                                                             *)

\* Every variable has its type.
TypeOK ==
  /\ cells \in [Accounts -> Cell]
  /\ committed \in [Accounts -> Cell]
  /\ lock \in Threads \cup {Free, Orphan}
  /\ pc \in [Threads -> PCs]
  /\ cmd \in [Threads -> Command \cup {NoCommand}]
  /\ loc \in [Threads -> Locals]
  /\ reply \in [Threads -> Answer]
  /\ answer \in [Threads -> Answer]
  /\ crashes \in 0 .. MaxCrashes

\* At most one thread is between lock_bank and unlock_bank, it is the one the
\* mutex names, and a mutex that names a thread names one that is still there:
\* early returns release it and a thread that is killed is not its holder.
LockOwner == \A t \in Threads : pc[t] \in Critical <=> lock = t

\* Outside the bank a thread has no half-built output, and it has a command
\* exactly between reading a line and answering it.
Settled(t) ==
  /\ pc[t] \in {"idle", "dead"} <=> cmd[t] = NoCommand
  /\ pc[t] \notin Critical => loc[t] = NoLocals /\ reply[t] = NoAnswer

\* The cells after command c has swept the accounts below n, and its lines.
Swept(b, c, n) ==
  [k \in Accounts |-> IF k < n THEN SweepCell(b[k], c) ELSE b[k]]
SweptLines(b, c, n) ==
  [k \in Accounts |-> IF k < n THEN SweepLine(b[k], c) ELSE "none"]

\* What the locals of a transfer hold once its check has passed.
Checked(t) ==
  LET from == committed[cmd[t].id]
      to   == committed[cmd[t].to]
  IN  /\ loc[t].from = from.cur
      /\ loc[t].to = to.cur
      /\ ~TransferRefused(from, to, from.cur, to.cur, cmd[t].amount)

\* How far the thread inside the bank has come: at every step the cells and
\* the output are those of a known part of its command, applied to the cells
\* that the previous owner of the mutex left.
AtBalance(t) == cmd[t].op = "balance" /\ cells = committed

AtCheck(t) == cmd[t].op = "transfer" /\ cells = committed

AtDebit(t) == cmd[t].op = "transfer" /\ cells = committed /\ Checked(t)

AtCredit(t) ==
  /\ cmd[t].op = "transfer"
  /\ Checked(t)
  /\ cells = [committed EXCEPT ![cmd[t].id] =
                SetBalance(@, Wrap(loc[t].from - cmd[t].amount))]

AtSet(t) == cmd[t].op \in Setters /\ cells = committed

AtSweep(t) ==
  /\ cmd[t].op \in Sweeps
  /\ cells = Swept(committed, cmd[t], loc[t].i)
  /\ reply[t] = Printed(SweptLines(committed, cmd[t], loc[t].i))

AtStore(t) ==
  /\ AtSweep(t)
  /\ loc[t].i < Size
  /\ SweepLine(committed[loc[t].i], cmd[t]) = "moved"
  /\ loc[t].new = NewBalance(committed[loc[t].i], cmd[t])

AtUnlock(t) ==
  /\ cells = Effect(committed, cmd[t])
  /\ reply[t] = AnswerTo(committed, cmd[t])

InSection(t) ==
  /\ pc[t] \in Critical  => Admitted(cmd[t])
  /\ pc[t] = "balance"   => AtBalance(t)
  /\ pc[t] = "check"     => AtCheck(t)
  /\ pc[t] = "debit"     => AtDebit(t)
  /\ pc[t] = "credit"    => AtCredit(t)
  /\ pc[t] = "set"       => AtSet(t)
  /\ pc[t] = "sweep"     => AtSweep(t)
  /\ pc[t] = "store"     => AtStore(t)
  /\ pc[t] = "unlock"    => AtUnlock(t)

\* The inductive invariant: the threads are settled or follow their command,
\* and a free mutex means that nothing is half done.
BankInv ==
  /\ TypeOK
  /\ LockOwner
  /\ lock = Free => cells = committed
  /\ \A t \in Threads : Settled(t) /\ InSection(t)

\* A thread that starts on the cells finds them as some unlock_bank left
\* them, even after a process was killed between the two writes of a
\* transfer or inside a sweep: the mutex of the dead process is never freed.
StartsOn(t) == \/ pc[t] \in {"balance", "check", "set"}
               \/ pc[t] = "sweep" /\ loc[t].i = 0
NoTornState == \A t \in Threads : StartsOn(t) => cells = committed

\* The commands of all processes take effect one at a time, each wholly, and
\* their answers are those of that order (AtomicBank).
Atomic == INSTANCE AtomicBank
            WITH bank <- committed, request <- cmd, answer <- answer
Linearizable == Atomic!Spec

\* Commands that end successfully in this step.
Commits(t, ops, says) ==
  /\ lock = t /\ lock' = Free
  /\ cmd[t].op \in ops
  /\ reply[t].says = says

\* While every account has the limits it was created with and a balance within
\* them, money is neither created nor destroyed except by credit_all and
\* debit_all: transfers of several processes, freezes and kills preserve the
\* sum of all balances.
Total(b) == FoldFunction(LAMBDA cell, sum : cell.cur + sum, 0, b)
WithinLimits(cell, v) == cell.min <= v /\ v <= cell.max
AsCreated(cell) == /\ cell.min = NewCell.min /\ cell.max = NewCell.max
                   /\ WithinLimits(cell, cell.cur)
AllAsCreated == \A i \in Accounts : AsCreated(committed[i])
MoneyConserved ==
  [][AllAsCreated /\ Total(committed') # Total(committed)
       => \E t \in Threads : Commits(t, Sweeps, "nothing")]_vars

\* A transfer whose two new balances respect the limits of their accounts and
\* fit an int moves exactly the amount, whatever the limits are and whatever
\* the other processes do meanwhile.
Moves(c) ==
  /\ committed'[c.id].cur = committed[c.id].cur - c.amount
  /\ committed'[c.to].cur = committed[c.to].cur + c.amount
TransferExact ==
  [][\A t \in Threads :
       LET c == cmd[t] IN
       /\ Commits(t, {"transfer"}, "done")
       /\ WithinLimits(committed[c.id], committed[c.id].cur - c.amount)
       /\ WithinLimits(committed[c.to], committed[c.to].cur + c.amount)
       => Moves(c)]_vars

\* A thread that has taken the mutex gives it back: no path through a method
\* keeps it, and every sweep ends.
SectionEnds == \A t \in Threads : lock = t ~> lock # t

\* local_client.cpp:74 tells the user "Successfully transferred" an amount
\* whenever transfer returns true.
SuccessMeansMoved ==
  [][\A t \in Threads :
       Commits(t, {"transfer"}, "done") => Moves(cmd[t])]_vars
=============================================================================

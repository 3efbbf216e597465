# Verification of the LinuxRAU programs

LinuxRAU is a collection of systems-programming exercises in C++: a bank that
several processes share in memory, a task scheduler, socket servers with their
clients, process and thread synchronisation, copies of sparse files, pipes,
signals. Each is a small program of its own; what they have in common is that
the difficult part is the order in which processes, threads and system calls
meet. This directory holds TLA+ models of them, TLC configurations that
model-check the models on small instances, and proofs, checked by TLAPS, of the
results that matter most for every instance.

Every definition is translated from the source. `PROJECT.json` has the line
range each one stands for (`map`), what every run checks (`runs`), a changed
definition that makes each property fail (`mutants`), disagreements between
the code and what it says of itself (`findings`), and where the code is hard to
test (`hazards`).

Contents: 1 inventory, 2 modules and how they correspond to the code, 3 runs
and bounds, 4 fairness and deadlock, 5 proofs, 6 findings, 7 what is not
modelled, 8 plan.

## 1. Inventory

### 1.1 TransparentBank

* **The bank** (`bank.h` for local clients, `bank_for_remote.h` for the
  server; the class body is the same, the output goes to `std::cout` or to a
  string). *State*: an array of `Cell` (current, minimum and maximum balance,
  frozen flag), its size, and a process-shared, non-robust mutex, all in one
  POSIX shared memory object. *Operations*: get balance, transfer, freeze,
  credit all, debit all, set minimum, set maximum. *Interaction*: any number
  of `local_client` processes and the threads of `server` call the methods on
  the same object. *Hard*: interleaving of processes, a process killed
  between the two writes of a transfer or in a sweep, `int` arithmetic at its
  limits, `set_balance` refusing one of two writes. *Correct when*: commands
  take effect one at a time and wholly, with answers that fit that order;
  nobody starts on half-written cells; a transfer that respects the limits
  moves its amount, and money appears or disappears only by credits and
  debits; every path through a method gives the mutex back.
* **The server and its remote client** (`server.cpp`, `client.cpp`). *State*:
  `should_continue_running`, the listening socket, a counter of requests under
  its mutex with a condition variable, one lock for the answers to all clients,
  one detached handler per connection, one statistics thread. *Operations*: accept, receive, execute, send, count,
  report, shut down; connect, send a command, receive once, leave.
  *Interaction*: a byte stream without message boundaries in each direction;
  the bank's mutex in shared memory. *Hard*: lines and answers that take more
  than one `recv`, answers that are never sent, a `send` that blocks while it holds
  the lock of all answers, clients that leave or are killed at any moment
  (end of file, reset, `SIGPIPE`), `pthread_cond_wait` outside any loop,
  `exit(0)` in one handler while others work. *Correct when*: answers belong
  to their commands, a waiting client is answered or disconnected, clients
  cannot end the server, the bank's mutex is lost only with the process.
* **Life cycle** (`init.cpp`, `deinit.cpp`, `attach_bank` of the clients).
  *State*: the name and the contents of the shared memory object. *Operations*:
  create, set the length, construct; attach; unlink. *Hard*: `init` on a live
  bank or killed between its steps, a client that attaches between `ftruncate`
  and the constructor, `deinit` under attached clients, objects of two lengths
  at once. *Correct when*: nobody touches memory that is not mapped, and a bank
  that was whole before its first client excludes.

### 1.2 Threads and processes

* **Task scheduler** (`TH2/parallel_scheduler.{h,cpp}`, `demo.cpp`). *State*:
  queue, `stop`, mutex, condition variable, worker threads. *Operations*:
  constructor, `run`, worker loop, destructor. *Hard*: signals that meet no
  waiter, spurious wakeups, tasks that submit tasks while the destructor
  runs. *Correct when*: no wakeup is lost, tasks start in order and once, all
  of them finish, the destructor returns.
* **Dining philosophers** (`DiningPhilosophers/dining-philosophers.cpp`).
  *State*: one named semaphore per stick; each philosopher is a process.
  *Hard*: circular waiting; a philosopher killed with sticks in hand.
  *Correct when*: neighbours never eat together, nobody waits in a circle.
* **Counters under a lock** (`TH-SYNC/mutex.cpp`, `semaphore.cpp`,
  `spinlock.cpp`, `Bonuses/Bonus_3/credit-debit.cpp`). *State*: one integer
  and its lock, thread handles. *Hard*: read, change and write as three
  steps; printing before the last thread is done. *Correct when*: no change is
  lost and the value printed is the last.
* **Threaded array sum** (`TH1/array-summary.cpp`). *State*: the array, one
  record of bounds and one result per thread. *Hard*: sizes that the number
  of threads does not divide, fewer elements than threads. *Correct when*:
  each element is added once and the joined sum is the plain one.
* **Shared array** (`IPC3/shared-array.cpp`, `first.cpp`, `second.cpp`).
  *State*: an array and a named semaphore that outlive their processes.
  *Operations*: constructor, `operator[]`. *Hard*: the semaphore is given back
  before the element is used; kills and restarts. *Correct when*: an element
  counts its increments.
* **Shared sieve** (`Bonuses/Bonus_7`). *State*: a table in shared memory.
  *Operations*: init, set, check, destroy, each a process. *Hard*: they overlap
  in any order and are killed half way. *Correct when*: check says what is so.
* **Printer threads** (`Bonus_4`), **pid exchange** (`Bonus_5`), **producer and
  consumer** (`modul/modul.cpp`), **signals** (`IPC-SSR`, `IPC1`,
  `IPC-KILLER`): not modelled, see section 7.

### 1.3 Sockets

* **Worker-pool echo server** (`POLL/server.cpp`, `client.cpp`). *State*:
  backlog, a queue of connections under a mutex with a condition variable, a
  pool of workers, each bound to a client until it leaves. *Hard*: lost
  wakeups, more clients than workers, lines longer than a buffer, empty lines,
  `SIGPIPE`. *Correct when*: a connection is in exactly one place, no
  wakeup is lost, nobody who has sent something waits while a worker is free.
* **Chat** (`Chat/server.cpp`, `client.cpp`). *State*: a vector of users that
  one thread for each connection uses without a lock; descriptors. *Operations*:
  join, tell the others, list, leave. *Hard*: overlapping uses of the vector,
  a descriptor that is closed before the others are told and used again,
  messages to users that are gone, the name and the first line in one `recv`.
  *Correct when*: the vector holds the members, everybody is told, who is gone
  leaves.
* **Remote calculator** (`RPC/server.cpp`, `client.cpp`). *State*: one
  connection at a time. *Operations*: accept, receive a line, calculate,
  answer, close. *Hard*: lines that are incomplete, with `a`, `b` and `result`
  not initialised; a division that traps; silent clients. *Correct when*:
  answers are those of their own lines, only a division ends the server, who
  sent a line is answered.
* **Message server** (`multi_client_server`), **HTTP client** (`HTTP`): not
  modelled.

### 1.4 Files and pipes

* **Sparse copy** (`FS10/copy.cpp`). *State*: two offsets, the counters of
  data and hole bytes, the destination. *Operations*: alternate `SEEK_DATA`
  and `SEEK_HOLE`, read and write blocks, extend over holes, report. *Hard*:
  holes at either end, short writes, failing calls. *Correct when*: what is
  written is what the source has there, and the report is exact.
* **Prime calculator** (`IPC2/prime-calculator.cpp`). *State*: a parent and a
  child with a pipe in each direction. *Hard*: one is killed while the other
  reads; unusual numbers. *Correct when*: answers are right and belong to
  their numbers, and neither process waits for the other for ever.
* **Shell** (`PS2/interactive-shell.cpp`). *State*: the argument vector being
  collected, the last status, the redirection, whether the next command is
  executed, `silent`. *Operations*: read a line, walk over its words, fork, exec
  and wait. *Hard*: what one command or line leaves behind for the next, `&&`
  and `||` after a command that was skipped, an `argv` without its null pointer,
  forks and executions that fail. *Correct when*: each line runs its commands
  as it is meant.
* **Command runner** (`PS1`), **copies without holes** (`FS2`, `FS11`),
  **sorting** (`ENV-2`), small file programs (`FS1`, `FS3`, `FS4`, `FS5`),
  `Bonus_1`, `Bonus_2`, `Bonus_6`: not modelled.

## 2. Modules

Definitions keep the names of the source where they have one there. An operator
whose comment begins with "Faulty variant" is in no next-state relation: it is
what its neighbour would be with a plausible slip (a missing unlock, a missing
signal, a test left out), and `mutants` in `PROJECT.json` names the property
that fails when it takes the neighbour's place.

| module | models |
| --- | --- |
| `BankCells` | the body of every `Bank` method as a function of the cells: `Admitted` (checks before the mutex), `TransferRefused`, `SetBalance`, `Effect`, `AnswerTo`; `Wrap` is 32-bit addition at the width `IntMax` |
| `AtomicBank` | the promise: a request takes effect in one step, with its answer |
| `Bank` | the same methods one read or write at a time, by threads of several processes, under the mutex; `Crash` and `Restart` of a process |
| `BankServer` | accept loop, handlers, statistics thread, shutdown, the two byte streams, remote clients |
| `TaskPool` | what the scheduler promises: a queue of tasks, each started once and in order, closed only when all are finished |
| `ParallelScheduler` | constructor, `run`, worker loop, destructor, condition variable |
| `Dining` | the philosophers and the semaphores, with kills |
| `PollServer` | acceptor, queue, workers, byte streams, clients |
| `SparseCopy` | the copy loop, call by call |
| `PrimeCalculator` | parent, child and pipes, with kills |
| `ArraySummary` | division of the array, threads, joins |
| `AtomicCounter`, `LockedCounter` | one counter with atomic changes; the four programs that guard one with a lock |
| `BankLifecycle` | `init` in its steps, `deinit`, clients that map whatever object has the name, their mutex |
| `Chat` | acceptor, one handler for each user, the vector, descriptors, clients |
| `CalculatorServer` | `RPC`: the server with one connection at a time, the parsing of a line, `int` arithmetic, clients |
| `Shell` | the prompt, the walk over the words of a line, children and their outcomes |
| `SharedArray`, `Sieve` | the programs of `IPC3` and `Bonus_7`, step by step |
| `SmallPrograms` | `LockedCounter`, `ArraySummary`, `BankLifecycle`, `SharedArray`, `Sieve`, `PrimeCalculator`, `CalculatorServer` and `Dining` side by side, so that they share runs and proofs |
| `MC...` | the constants TLC uses; `MCShared`, `MCPrime`, `MCCalculator` and `MCDining` extend `SmallPrograms` |
| `...Proofs` | theorems and proofs |

Some correspondences that are not obvious:

* **Bank.** Between `lock_bank` and `unlock_bank` each action is one read of a
  cell or one write to it, since a kill may fall between any two of them. The
  locals of a method (`from_balance`, `to_balance`, `new_balance`, the loop
  index) are in `loc`, its output in `reply`. `committed` is auxiliary: the
  cells as the last `unlock_bank` left them. A killed process leaves the mutex
  with `Orphan`: it is not robust, so nobody gets it again. `exit(0)` of a
  server shutdown has the same effect on the other handlers and is the same
  action. Command lines that cannot be parsed change no state and are left out.
  A local client prints "Transfer failed" where the server distinguishes
  rejected parameters from a refusal; `Answer` keeps the finer of the two.
  The program is built without optimisation, so signed overflow is the
  wraparound of the machine.
* **BankServer.** What a command does to the cells is `Bank`'s concern; here a
  command is its number and the size of its answer. A stream is a sequence of
  pieces that one `recv` can return together. A line that is longer than the 1023
  bytes the server reads ("wide") is a head, which fills a `recv`, and a tail. What
  `recv` returns is one command (`Read`): the line that was sent if it arrived whole
  and alone; any command if lines arrived together, or for a head or a tail.
  An answer longer than the client's buffer is several pieces. `send` is under
  `sendLock` (`client_connections_lock`): `LockSend`, then `Send` when the rest of
  the answer fits the buffers, `SendPart` when it does not and `send` blocks, and
  `SendToNobody` or `SendFails` when the client is gone. `conn` follows a
  connection from both ends: `closed` when the client has closed, `reset` when
  data met a closed end, `gone` when the server has closed.
* **PollServer.** Same streams; a long line is two pieces and is answered
  twice, an empty line is no piece at all (`send` of zero bytes).
* **ParallelScheduler.** A worker's step from lock to unlock is one action,
  because nothing it reads there is visible to others in between; `run` is two,
  since another submission is decided between them. `pthread_cond_signal` wakes
  any one waiter or is lost; the woken thread must take the mutex again.
  `Caller` says who makes each submission: the owner, or another task.
* **SparseCopy.** A file is a sequence of blocks, each a hole or a value.
  `SEEK_DATA` and `SEEK_HOLE` are modelled from how the code uses them. When
  `SEEK_HOLE` fails, the rest of the file is copied as data and its holes become
  zeros; the auxiliary `filled` says so. The seek in the destination may fail as well
  (`HoleFails`).
* **PrimeCalculator.** A pipe is a sequence; reading an empty pipe whose
  writers are gone gives end of file, which the code takes for an answer.
  `nth_prime` is a function, compared with a definition of primes. It is the program's
  as long as no `i*i` leaves the range of an `int` (`Fits`); past that the behaviour
  is undefined, and `Answers` is any `int`. Of the n-th prime, `count` and the
  candidate, `i*i` is the first to overflow.
* **BankLifecycle.** A command locks, touches its cells and unlocks; what it
  writes is `Bank`'s concern. Its bounds check reads `size` before the lock, the
  two sweeps read it after. New shared memory is zero, and zeros are a mutex
  that can be locked but belongs to one process: a waiter of another process
  sleeps on it unwoken (`asleepAlone`). `ftruncate` to a smaller length discards
  constructed cells (`cellsMade`), and a later larger one brings back zeros. `early` and `again` are auxiliary: a
  client attached before the bank was whole; `init` opened an object in use.
* **Chat.** A use of the vector has a first and a last step. Two that overlap,
  one of them a push or an erase, are undefined behaviour: `server` becomes
  "undefined", no action is enabled any more, and the properties speak of
  what happens as long as that does not occur. A message is the sequence of
  texts that one `recv` returned. Descriptors are numbers, `accept` returns the
  least free one. Sends to a user that is gone pass at first and raise
  `SIGPIPE` after its reset, which ends the server.
* **CalculatorServer.** An argument of a line is an int, one that does not fit,
  a word, or missing; `Pairs` gives what `>>` leaves in `a` and `b`, any int
  where nothing is assigned. `RecvFails` is a `recv` that finds the connection of a
  killed client reset. The `int` goes from `-Half` to `Half - 1` and wraps around.
* **Shell.** A line is typed as commands with operators, redirections, "silent"
  and a last ";"; `Split` makes words of it, and the walk sees only these. An
  `argv` passed to `execvp` without a null pointer at its end is "garbled": it
  may run with more words or fail.
* **SharedArray.** `operator[]` waits, posts and returns; the read and the write
  of `array[i]++` are steps after it. `made` and `met` are auxiliary: increments
  written, and whether another one came between a read and its write.
* **Sieve.** The loops of `init` and `set` are one step for each element.
  `whole` and `clean` are auxiliary: a set has run undisturbed.
* **SmallPrograms.** The programs do not interact: `SharedInit` chooses one of
  them, and only that one steps. A behaviour is, in the variables of one
  program, a behaviour of that program or stands still, which is what the
  `...Program` lemmas of `SmallProofs` say.
* **LockedCounter.** All three locks may be released by anybody; that only
  the owner does is a consequence (`CounterInv`), not an assumption.

## 3. Runs and bounds

Every constant that bounds a model is named in its module with the comment
"bound"; it stands in the guard of the action that would exceed it.

| run | instance | what it shows |
| --- | --- | --- |
| `bank` | two threads in two processes, two accounts, ten command lines covering every operation with accepted, rejected, refused and overflowing arguments, `int` reduced to -5..4 with sums that leave it, one kill | `BankInv` (nobody starts on torn cells), `Linearizable`, `TransferExact`, `MoneyConserved`, `SectionEnds` |
| `bank_success` | the same threads, commands that change limits, `int` reduced to -8..7, no kill | `SuccessMeansMoved` is violated: "Successfully transferred" without a transfer |
| `pool` | three workers, four tasks of which two are submitted by tasks, one spurious wakeup | `NoLostWakeup`, `Implements` (`TaskPool`), `EveryTaskRuns`, `DestructorReturns` |
| `server` | two clients, one with a short, long or wide line and then a line of any kind, one with a short line; buffers for one piece, long answers of two, a report after every second command, one spurious wakeup, clients end at any moment | `BankLockKept`, `InStep`, `ServerSurvives`, `ReportsGrow`, `Answered` |
| `dining` | the five philosophers of the program, one kill | `Exclusion`, `NoStandoff`, `SomebodyEats` |
| `poll` | two workers, three clients with two, one and no lines, one spurious wakeup, clients are killed at any moment | `OnePlace`, `NoLostWakeup`, `InStep`, `ServerSurvives`, `Served` |
| `sparse_copy` | every file of up to five blocks of two values or holes, buffer of two blocks, two short writes, failing calls, `SEEK_HOLE` failing at any segment | `CopyExact`, `Terminates` |
| `prime` | two inputs among -1, 0, 1, 2, 4, 9, 10 or "exit", an `int` of at most 35, kills of either process | `PrimesRight`, `NeitherStays` |
| `shell` | two prompts; every line of up to three commands with every operator, redirection, "silent" and last ";", after a line that leaves something in every variable; programs of two outcomes, forks and executions that fail | `RunsAsMeant` |
| `rpc` | three clients with ints of -4..3: every operation on the ends of the range and small operands of both signs, and a division by zero; lines incomplete, empty, too large, unknown; one kill | `AnswersRight`, `ServerSurvives`, `Served` |
| `chat` | three users, one of whom types a line, "/list" or "/exit", and one of whom may be killed | `ListRight`, `EveryoneTold`, `ExitLeaves` |
| `shared` | five systems, below | `NoChangeLost`, `EachOnce`, `ResultRight`, `BankExcludes`, `NoFault`, `CountsIncrements`, `ChecksRight` |

`shared` chooses among five programs of `SmallPrograms`, so that its behaviours
are those of the five and nothing else; `prime`, `rpc` and `dining` have one
each, under the fairness of that program. The instances of `shared`: three threads and three rounds of
`LockedCounter` with a debit of 100 and credits of 50; all arrays of up to five
elements of values 1 and 3 for up to three threads of `ArraySummary`; two
objects, two runs of `init` (for one and for two cells) and two clients of
`BankLifecycle`; two writers, a reader, two elements, three increments and one
kill of `SharedArray`; a table of ten numbers, two objects, two inits and a set
of `Sieve`.

Why the bounds are enough for the interesting cases:

* `bank`: interference on shared cells needs two threads; a third adds only
  waiting for the same mutex. Two accounts are the two ends of a transfer. With
  `IntMax` 4 both a credit and a transfer reach the wraparound within four
  commands. A kill inside a method orphans the mutex for good, so that a second
  one could only hit waiting threads; a kill outside changes nothing shared.
  Everything but `SectionEnds` is also
  proved for all values.
* `pool`: two workers can both sleep while a third works, `a` submits `c` and
  `c` submits `d` during destruction, so the last worker finds work after the
  others have left.
* `server`: one client shuts down, leaves or holds the mutex while the other
  sends, waits or is inside the bank; two lines of one client are needed for
  merged commands and for shifted answers, a long answer of two pieces and buffers
  for one of them for a `send` that blocks. A wide line has one head; more heads
  would only be more answers too many. `Threshold` 2 gives counts that are reported
  and counts that are not. `Requests` bounds the kinds of each line, not only how
  many there are: with every kind in every line the instance does not finish in
  time. `asked` also has the kinds of the commands that were read out of joined or
  split lines, so that the exceptions below name what the server understood.
* `poll`: three clients for two workers, so that one waits in the queue. The
  client that sends nothing occupies a worker, which is the case `Served`
  excepts by name.
* `sparse_copy`: five blocks hold hole-data-hole-data-hole, and data segments
  longer than a buffer.
* `prime`: two numbers are enough for an answer that belongs to the other one.
  With `INT_MAX` 35 the search for the 9th prime, 23, ends at 5 * 5, and the one for
  the 10th, 29, overflows at 6 * 6.
* `shell`: three commands are a command between two operators; what a line
  leaves behind is tried with one first line that sets every variable.
* `rpc`: with ints of -4..3 every operation overflows, and both divisions that
  trap occur; three clients leave two in the backlog.
* `chat`: a leaver, a newcomer with its descriptor, and a bystander.
* `shared`: two inits of different lengths overlap or follow each other, on one
  object or two; everything this run checks is proved in general too. A bank that is
  shortened by one `init` and lengthened again by another takes three of them (2, 1
  and 2 cells, the last two killed after `ftruncate`), too many for TLC: the theorem
  covers it.

## 4. Fairness and deadlock

Fairness is weak everywhere, and only on what the kernel does by itself: a
runnable thread or process runs, a system call that can return returns, a mutex
that stays free is taken. No fairness is put on users (typing a command,
leaving, opening a connection), on kills, on failures, on short writes, or on
spurious wakeups. In `server` each thread has one condition for all it does, so that
a handler blocked in `send` is one that cannot run; that its client reads on is up
to the user, who has to type another line first. Which of several waiters is woken, or gets a mutex or
semaphore, is left open; in particular no starvation freedom is claimed for the philosophers
(`SomebodyEats` is about the table, not about each of them) or for a thread
that wants the bank's mutex. `SectionEnds` and `DestructorReturns` need no
strong fairness because a thread inside a section is never blocked, and because
the scheduler's mutex is contended only finitely often in the bounded instance.

In `Chat` every handler runs, in `CalculatorServer` the server and the
`recv` of a client that has been answered; a silent client may hold the
calculator for ever, which `Served` names (`Held`). `Shell`, `BankLifecycle`,
`SharedArray` and `Sieve` have safety properties only: nothing in the code
promises that their users come back.

Deadlock is checked except where the modelled system really may stop:
`bank` (after a kill inside the bank everybody waits for ever, which the
non-robust mutex really causes), `dining` (a killed philosopher keeps its
sticks), `server`, `poll`, `prime`, `rpc` and `chat` (users stop typing,
processes end, and undefined behaviour goes no further) and `shared` (bounded
programs end). In the others `Terminated`, `Done` and the like mark the
intended end, and any other stop is an error.

## 5. Proofs

Every safety invariant and every action property of the runs that pass, and
both refinements, are theorems: they hold for every value of the constants. The
eight modules of proofs start from the assumptions named in the modules they
are about (`BankAssumption`, `ThreadAssumption`, `SchedulerAssumption`,
`ServerAssumption`, `PollAssumption`, `SparseCopyAssumption`,
`CounterAssumption`, `SmallAssumption`, `ChatAssumption`, `ShellAssumption`):
at least one worker, two philosophers and one counting thread, markers such as
`Free` that are no thread, words that are no operators. TLC evaluates each
assumption in a run of the same component.

* **Bank** (`BankProofs`). `LockOwner` alone is not inductive: that a free
  mutex means whole cells depends on what the holder has done so far.
  `BankInv` therefore says for each place inside a method how far the cells and
  the output have come relative to `committed` (`AtDebit`, `AtCredit`,
  `AtSweep`, ...). One lemma per action shows that it is preserved; `Bystander`
  handles the threads that do not move, `StepInside` the frame of a step under
  the mutex. From it: `BankInvariant`, `TypeCorrect`, `MutualExclusion`,
  `NeverTorn` (a kill orphans the mutex, so nobody starts again on half-written
  cells), `Refinement` (`Spec => Linearizable`: every unlock maps to the atomic
  step of the same request, everything else to a stutter) and
  `TransfersAreExact`. `MoneyIsConserved` is the property `MoneyConserved` of the
  run: in a bank whose accounts have the limits they were created with, a
  transfer of any process leaves the sum as it is. The sum is the fold of the
  community modules, over a set in an order that it chooses; `TotalIsSum` and the
  lemmas before it show that the order does not matter and what one changed
  balance does. The theorem has one hypothesis, that two default maxima fit an
  `int` (2 * 1000000 < 2^31 in the code); without it, for instance with
  `IntMax` 3 and a maximum of 2, the credit of a transfer wraps around into the
  limits and money is lost.
* **Scheduler** (`SchedulerProofs`). `SchedulerInv` joins the owner of the
  mutex, locals, phases and the wakeup condition: a queued task has a worker
  that neither sleeps nor has left. The delicate step is `RunPush`: a worker
  that calls it is awake itself; the owner calls it before `stop`, when nobody
  has left, so either somebody waits and is woken or everybody is awake.
  Theorems `SchedulerInvariant`, `WakeupsSuffice`, `Refinement` (implements
  `TaskPool`).
* **Small programs** (`SmallProofs`), from a part on numbers (least elements,
  induction over a set, quotients and remainders) and one part per program.
  * *Counters*: the read, change and write of the owner implement one atomic
    change of `AtomicCounter` (`NoChangeIsLost`).
  * *Array sum*: the parts computed with `size \div count` cover the array and do
    not overlap (`EveryElementOnce`). `SumIsRight`: a thread has added the prefix
    of its part that it has passed, as a difference of prefix sums, and `main`
    joins before it adds, so that the differences telescope to the whole sum.
  * *Life cycle of the bank*: `UndisturbedBankExcludes` and `NobodyFaults`, for any
    runs of `init` of any sizes, kills and `deinit`. A client that has mapped an
    undisturbed object finds every `init` that opened it finished or killed, and
    one mutex that all of them use; the half of `NoFault` about clients that came
    early rests on the order `ftruncate`, constructor in the single `init` of an
    object (`OpenedOnce`).
  * *Shared array*: what a writer holds between its read and its write is what the
    element still has, unless another write came in between (`ElementRead`).
  * *Shared sieve*: a number is marked only as a multiple, so check calls no prime
    composite; after an undisturbed set every composite number has its least factor
    below the square root, and that one has struck it (`LeastFactor`,
    `SetsSieve`).
  * *Prime calculator*: `PrimesAreRight` has two halves. `NthPrimeRight` shows that
    the walk of `nth_prime` ends, since there are always more primes (Euclid's
    argument on a common multiple), and that it counts the primes up to its
    result. `AnswersTrue` adds the width of an `int`: if there are n primes below
    some square that is an `int`, the n-th is one of them, no product in its search
    is larger than that square, and the answer is that prime. `PrimeInv` says that of a number and its answer there is one under
    way, so that an answer belongs to its number.
  * *Remote calculator*: `WrapAgrees` and `QuotientRight` are the arithmetic, for
    an `int` of any width; `CallInv` keeps the result with the line of the
    client that the server is with. `OnlyDivisionEnds` follows from it.
  * *Dining philosophers*, for any number above one. `SticksHeld` accounts for every
    stick: on the table, with exactly one neighbour, or lost with a killed one.
    `NeighboursExclude` follows from the shared stick. `NeverAllBlocked` breaks the
    circle at stick 0, which is the second stick of both philosophers that use
    it: while all wait, nobody holds it, so it is on the table and the last
    philosopher does not wait for it but for its first stick. Whoever holds that
    one waits for stick 0, which is free.
* **Bank server** (`ServerProofs`), for any number of clients, commands and
  spurious wakeups. `TypeCorrect` and `LockIsKept` come first: a connection that
  is not accepted has no handler, and a handler inside the bank is the owner of
  its mutex. `Survival` and `AnswersInStep` rest on one argument: a client all of
  whose lines and answers fit one `recv` has at most one command under way, which is in
  the stream, or in the hands of the handler, or answered and not yet read
  (`OneAtATime`); at a prompt there is none. Hence a handler never sends twice
  to a client that is gone, and what a client shows is the answer to its last
  command. `ReportsAreNews` needs `WokenForNews`: without a spurious wakeup the
  statistics thread is awake only for a total that it has not reported. `ClosedByClient` and `ShutdownAsked` supply the rest: only a client
  that has ended closes its end, and a shutdown was asked for.
* **Worker pool** (`PollProofs`), for any number of workers and clients.
  `WakeupsSuffice` counts the workers on their way to the queue: each signal adds
  one when a connection is added, each connection taken removes one of both.
  `EachInOnePlace` strengthens `OnePlace` to `Placed`: no list names a
  connection twice, no two workers have the same one, the four places exclude
  each other, and a connection in use is in one of them; `AtMostOne` turns that
  into the sum of cardinalities. `Survival` and `AnswersInStep` use it: because
  one worker alone serves a client, its send is the only answer under way
  (`OneLine`).
* **Sparse copy** (`SparseCopyProofs`), for files and buffers of any size.
  `CopyInv` says, for each place in the loop and as long as no write was short,
  how the offsets, the counters and the length of the destination relate:
  all agree between segments; inside one both files stand at the same offset,
  the counters are ahead by what is left, and the blocks between the end of the
  destination and that offset are a hole. `DataFound` and `HoleFound` say what
  `lseek` returns, from the well-foundedness of the naturals; `BufferCopied` is
  the step that reads and writes. `CopyIsExact` is the property of the run; `Same` says
  what may stand for a hole.

* **Chat** (`ChatProofs`), for any users, names and descriptors. `ChatInv`: the
  vector has one item for each member and no other, open descriptors differ, who
  writes the vector is alone as long as the behaviour is defined, and a walk has
  sent to exactly those in front of the item it is at. `EraseOne` shows what the
  `SelectSeq` of an erase leaves when one item has the descriptor, `FreeDescriptor`
  that `accept` finds one that nobody has. From it `ListIsRight` and
  `EveryoneIsTold`.
* **Shell** (`ShellProofs`), for lines of any length. The words of a line are a
  `FlattenSeq` of its parts; `FlattenLays` gives each part its place in them, and
  `WalkMeets` what the loop meets at every position of a part. `ShellInv` says
  that the loop is always at such a position: it has read some words of a command
  (`Reading`), or its > as well (`Redirecting`), or is behind a redirection that
  has been executed (`Redirected`), or has no word left (`Over`); and that the
  children so far are those of the commands before (`Sound`). The lemmas on
  `Executed` say which children count: an operator after ";" or after a last
  redirection executes an empty `argv`, which runs nothing. `LinesRunAsMeant` is
  the property of the run.

What the proofs changed in the models. `Whole` in `BankLifecycle`, which decides
whether a client came `early`, was too weak: the attempt at `BankExcludes` found
that three runs of `init`, for 2, 3 and 2 cells, or one for 0, reach a bank that
counted as whole and was not. It now asks for a constructed mutex and for a
length, a size and a number of constructed cells that agree. In `Shell` the
marker "none" of a command without redirection was one of the words a user may
type; it no longer is. Neither changes what the code is taken to do.

Only model-checked: the liveness properties (`SectionEnds`, `EveryTaskRuns`,
`DestructorReturns`, `SomebodyEats`, `Answered`, `Served`, `Terminates`,
`NeitherStays`, `ExitLeaves`), which rest on fairness and `ENABLED`. What TLC
alone shows is also that the cases which the conditions of the properties except
do occur in the instances.

## 6. Findings

* `bank.h:113`: `transfer` ignores what the two calls of `set_balance` return.
  If a minimum forbids the debit and the credit is accepted, money appears, and
  the user reads "Successfully transferred". Run `bank_success`.

The conditions of the other properties say what the code does not give:

* `CopyExact` allows zeros for holes after a `SEEK_HOLE` that failed, and it excepts
  short writes: after one (`copy.cpp:75`) the rest of the
  buffer is skipped, and the loop may end in "Successfully copied" with a number
  the destination does not have;
* `PrimesRight` excepts a child that was killed: end of file is not
  told from an answer (`prime-calculator.cpp:89`), and the parent prints its
  old buffer as "Received calculation result". It also excepts ordinals whose prime
  lies above every square that is an `int`: the search for it overflows at `i*i`
  (`:10`);
* `InStep` (server) excepts clients with a line or an answer that does not fit
  one `recv`, whose answers really are shifted: `server.cpp:168` splits a line
  of more than 1023 bytes and answers it twice. `ServerSurvives` excepts the
  same clients, because a second answer to one that has left raises `SIGPIPE`, which
  is not handled. `Answered` excepts silent commands, which the server does not
  answer, and a client that stays at its prompt with a long answer unread: its
  handler is then blocked in `send` under the lock of all answers
  (`server.cpp:189`), and nobody else is answered (`Clogs`). TLC finds each
  of the properties violated when its exception is dropped. `InStep` and
  `ServerSurvives` of `poll` except long lines likewise, and empty ones, which are
  not answered; `ReportsGrow` excepts
  spurious wakeups; `Served` (poll) excepts clients that wait while every
  worker is bound to another one;
* `ListRight` and `EveryoneTold` end where two uses of the vector overlap
  (`Chat/server.cpp:37`); `EveryoneTold` excepts a newcomer that got the
  descriptor of the leaving user (`:82`), which is not told; `ExitLeaves` does
  not claim that "/exit" in one `recv` with other text is a command, and it
  excepts a server that `SIGPIPE` has ended;
* `BankExcludes` excepts objects that a client attached to before they were
  whole, and those on which `init` ran while they were in use (`init.cpp:27`);
* `CountsIncrements` excepts increments that meet, which the semaphore of
  `IPC3` does not prevent; `ChecksRight` excepts, for composite numbers, a table
  that no set has finished undisturbed;
* `RunsAsMeant` excepts one case: an `argv` without its null pointer
  (`interactive-shell.cpp:94`) may run with more words;
* `Served` (rpc) excepts a server held by a silent client, and `ServerSurvives`
  divisions by zero, of the smallest int by -1, or with a number missing.

## 7. Not modelled, and why

Components (the list in `PROJECT.json` has one entry each):

* **Producer and consumer** (`modul/modul.cpp`): each thread unlocks a mutex
  that the other one locked, which is undefined for the library, and neither a
  comment nor a test promises anything that a model could be held against;
* **Printer threads** (`Bonus_4`): a flag and a condition variable under one
  mutex, the protocol of `ParallelScheduler` without a queue;
* **Pid exchange** (`Bonus_5`): one number each way over two pipes, which
  `PrimeCalculator` has with ends and kills;
* **Message server** (`multi_client_server`): detached threads share only the
  output, under one mutex;
* **Signals** (`IPC-SSR`, `IPC1`, `IPC-KILLER`): they print once for each
  signal, or sleep; there is no state but a counter in a handler;
* **Copies without holes** (`FS2`, `FS11`) and the **command runner** (`PS1`):
  simpler cases of `SparseCopy` and of the child in `Shell`;
* **Sorting** (`ENV-2`): an insertion sort by a modulus of type `double`;
* **small file programs** (`FS1`, `FS3`, `FS4`, `FS5`), `HTTP/client.cpp`,
  `Bonus_1`, `Bonus_2`, `Bonus_6`: straight sequences of system calls, or
  threads that share nothing.

Inside the modelled components the following is left out:

* failing library calls at start-up (shared memory, sockets, `pthread_create`).
  At `TransparentBank/server.cpp:284` a failed `pthread_create` closes its
  connection and goes on to detach a thread id that was never written;
* `should_continue_running` is a plain `bool` read and written by several
  threads (`server.cpp:148`). The unoptimised build reads memory each time,
  which is what the model does; an optimised one need not;
* a scheduler of capacity 0, `TH1` with zero threads (its division fails), and
  two tables of philosophers at once, which would share the named semaphores;
* file offsets of 2 GiB and more, which `copy.cpp` keeps in `int`;
* `TH2/demo.cpp:17`: `task_args` ends its life before the scheduler does, so
  late tasks read it after its scope. Which values they see is not modelled;
* the lines `credit_all` and `debit_all` print for an account whose
  `set_balance` refused (`bank.h:149`): the model prints "moved", as the code
  does, and no property forbids it;
* Chat: messages and names are not empty and fit their buffers, no socket buffer
  fills up, and threads can be created; what a program does after two uses of
  the vector overlap;
* TransparentBank: `send` splits an answer only at pieces that fill a `recv` of the
  client, and a wide line makes one head;
* TH1: an `int` sum that wraps around. Both orders of adding wrap to the same
  number, so the model adds integers. `main` prints how long both took and not the
  sum itself;
* RPC: the exit after a `send` that returns -1 (`RPC/server.cpp:87`), since the first
  and only `send` to a client that has closed or was killed succeeds; a client that the server's death leaves in `recv` ends, whatever it
  prints; the 32 bits of an `int` are a range -Half..Half-1, of any size in the
  proofs;
* Shell: lines that are not commands with operators between them, and signals;
* IPC3, Bonus_7: a kill inside the constructor, or between `shm_open` and `mmap`;
* a POLL client after a failed `recv` prints what its buffer held.

## 8. Plan

Done in this order: `BankCells`, `AtomicBank`, `Bank` and its proofs;
`TaskPool`, `ParallelScheduler` and proofs; `BankServer`; `Dining` and
proofs; `PollServer`; `SparseCopy`, `PrimeCalculator`, `ArraySummary`,
`LockedCounter`; `BankLifecycle`, `SharedArray`, `Sieve`;
`Shell`; `CalculatorServer`; `Chat`; the proofs of `BankServer`, `PollServer` and
`SparseCopy`; `SmallPrograms` and its proofs; the proofs of `Chat` and `Shell`,
and those of `ReportsGrow` and `MoneyConserved`.

What would come next:

1. the mutex of `BankLifecycle` composed with the cells of `Bank`, so that an
   `init` under attached clients shows in the balances;
2. what the children of `Shell` and the answers of `CalculatorServer` are for
   lines that are no commands, and lemmas for the safety halves of the liveness
   properties (for instance that some step is enabled while a client waits),
   stated without `ENABLED`;
3. `FS2` and `FS11` against the destination of `SparseCopy`, and `modul` once
   its mutexes are those of their threads.

---------------------------- MODULE SmallPrograms ----------------------------
(***************************************************************************)
(* The small programs side by side: LockedCounter, ArraySummary,           *)
(* BankLifecycle, SharedArray, Sieve, PrimeCalculator, CalculatorServer,   *)
(* Dining.                                                                 *)
(* They have nothing to do with each other: a behaviour is one of them.    *)
(***************************************************************************)
EXTENDS LockedCounter

CONSTANTS
  Programs,                        \* those that may run
  Sizes, ThreadCounts, Values,     \* of ArraySummary
  Objects, Inits,                  \* of BankLifecycle, and of Sieve
  SizeOf, Clients,                 \* of BankLifecycle
  ArraySize, Writers, Readers, MaxValue, MaxKills,  \* of SharedArray
  SHM_SIZE, Setters,               \* of Sieve
  Inputs, ExitWord, Garbage, INT_MAX, MaxInputs, \* of PrimeCalculator
  Requests, Half, Huge, Word, Missing,  \* of CalculatorServer; also Clients,
                                        \* MaxKills
  Places                           \* of Dining; also MaxKills

VARIABLES
  program,
  arr_size, num_threads, array, sumMain, sumNext, sumThread, sumAt, results,
  result,
  bank_shm, length, size, bankLock, mutexMade, cellsMade, initPc, initObj,
  clientPc, object, mapped, target, early, again,
  exists, data, sem, processPc, at, element, shown, kills, made, met,
  name, marked, sievePc, sieveObject, row, column, whole, clean,
  parent, child, toChild, toParent, number, typed, childBuf, parentBuf,
  received, childKilled,
  server, backlog, client_socket, reply, callerPc, mess, answer, callersKilled,
  sticks, place

sumVars == <<arr_size, num_threads, array, sumMain, sumNext, sumThread, sumAt,
             results, result>>
bankVars == <<bank_shm, length, size, bankLock, mutexMade, cellsMade, initPc,
              initObj, clientPc, object, mapped, target, early, again>>
arrayVars == <<exists, data, sem, processPc, at, element, shown, kills, made,
               met>>
sieveVars == <<name, marked, sievePc, sieveObject, row, column, whole, clean>>
primeVars == <<parent, child, toChild, toParent, number, typed, childBuf,
               parentBuf, received, childKilled>>
callVars == <<server, backlog, client_socket, reply, callerPc, mess, answer,
              callersKilled>>
tableVars == <<sticks, place>>
allVars == <<program, vars, sumVars, bankVars, arrayVars, sieveVars, primeVars,
             callVars, tableVars>>

Sum == INSTANCE ArraySummary WITH
  main <- sumMain, next <- sumNext, thread <- sumThread, i <- sumAt

Life == INSTANCE BankLifecycle WITH
  NoObject <- None, lock <- bankLock, pc <- clientPc

Shared == INSTANCE SharedArray WITH
  Size <- ArraySize, pc <- processPc, i <- at, seen <- element

Primes == INSTANCE Sieve WITH
  NoObject <- None, pc <- sievePc, object <- sieveObject, i <- row, j <- column

Pipes == INSTANCE PrimeCalculator WITH
  n <- number, Exit <- ExitWord

Calc == INSTANCE CalculatorServer WITH
  result <- reply, pc <- callerPc, kills <- callersKilled

Table == INSTANCE Dining WITH N <- Places, pc <- place

ASSUME SmallAssumption ==
  /\ Values \subseteq Int
  /\ SizeOf \in [Inits -> Nat]
  /\ None \notin Objects
  /\ ArraySize \in Nat \ {0}
  /\ SHM_SIZE \in Nat /\ Inits \cap Setters = {}
  /\ Inputs \subseteq Int /\ ExitWord \notin Int /\ Garbage \notin Int
  /\ INT_MAX \in Nat /\ INT_MAX >= 4
  /\ Half \in Nat \ {0} /\ None \notin Clients
  /\ {Huge, Word, Missing} \cap Int = {}
  /\ Requests \in [Clients -> SUBSET Calc!Lines]
  /\ Places \in Nat \ {0, 1}

SharedInit ==
  /\ program \in Programs
  /\ Init /\ Sum!Init /\ Life!Init /\ Shared!Init /\ Primes!Init /\ Pipes!Init
  /\ Calc!Init /\ Table!Init
  /\ program # "sum" => arr_size = 0 /\ num_threads = 1

SharedNext ==
  \/ program = "counter" /\ Next
     /\ UNCHANGED <<program, sumVars, bankVars, arrayVars, sieveVars,
                    primeVars, callVars, tableVars>>
  \/ program = "sum" /\ Sum!Next
     /\ UNCHANGED <<program, vars, bankVars, arrayVars, sieveVars,
                    primeVars, callVars, tableVars>>
  \/ program = "bank" /\ Life!Next
     /\ UNCHANGED <<program, vars, sumVars, arrayVars, sieveVars,
                    primeVars, callVars, tableVars>>
  \/ program = "array" /\ Shared!Next
     /\ UNCHANGED <<program, vars, sumVars, bankVars, sieveVars, primeVars,
                    callVars, tableVars>>
  \/ program = "sieve" /\ Primes!Next
     /\ UNCHANGED <<program, vars, sumVars, bankVars, arrayVars, primeVars,
                    callVars, tableVars>>
  \/ program = "primes" /\ Pipes!Next
     /\ UNCHANGED <<program, vars, sumVars, bankVars, arrayVars, sieveVars,
                    callVars, tableVars>>
  \/ program = "calculator" /\ Calc!Next
     /\ UNCHANGED <<program, vars, sumVars, bankVars, arrayVars, sieveVars,
                    primeVars, tableVars>>
  \/ program = "table" /\ Table!Next
     /\ UNCHANGED <<program, vars, sumVars, bankVars, arrayVars, sieveVars,
                    primeVars, callVars>>

SharedSpec == SharedInit /\ [][SharedNext]_allVars

\* With the fairness of a program that runs alone.
PrimeSpec      == SharedSpec /\ Pipes!Fairness
CalculatorSpec == SharedSpec /\ Calc!Fairness
DiningSpec     == SharedSpec /\ Table!Fairness

-----------------------------------------------------------------------------
(* Properties: those of the modules, each of its own variables.            *)

\* TH1: every element of the array is in exactly one thread's part.
EachOnce == Sum!EachOnce
\* TH1: the result that main has after the joins is the plain sum of the array, in
\* every order of the threads' steps.
ResultRight == Sum!ResultRight
\* TransparentBank, init and deinit: a bank that was whole before its first
\* client keeps its clients out of each other's sections.
BankExcludes == Life!BankExcludes
\* TransparentBank, init and deinit: no client touches memory outside its
\* mapping, not even one that attached while init was at work.
NoFault == Life!NoFault
\* IPC3: an element counts its increments, unless two of them meet, which the
\* semaphore does not prevent; killed and restarted processes change nothing.
CountsIncrements == Shared!CountsIncrements
\* Bonus_7: check calls no prime composite at any moment, and no composite
\* prime after an undisturbed set.
ChecksRight == Primes!ChecksRight
\* IPC2: while the child has not been killed, what the parent prints for n is
\* the n-th prime, if an int holds a square above it, and never the answer to
\* another number.
PrimesRight == Pipes!AnswersRight
\* RPC: a client that sent an operation with two numbers and is answered has
\* the result of its own line.
AnswersRight == Calc!AnswersRight
\* RPC: nothing but a division ends the server.
ServerSurvives == Calc!ServerSurvives
\* DiningPhilosophers: two neighbours never eat together.
Exclusion == Table!Exclusion
\* DiningPhilosophers: unless somebody was killed, the philosophers are never
\* all in a sem_wait that does not return.
NoStandoff == Table!NoStandoff
\* DiningPhilosophers: again and again somebody eats, or somebody was killed.
SomebodyEats == Table!SomebodyEats
\* IPC2: neither process stays behind or waits for ever, however they end.
NeitherStays == Pipes!NeitherStays
\* RPC: who sent a line is answered or sees the connection end.
Served == Calc!Served
=============================================================================

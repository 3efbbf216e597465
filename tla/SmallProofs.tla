----------------------------- MODULE SmallProofs -----------------------------
(***************************************************************************)
(* Proofs about the programs of SmallPrograms, each for every value of its *)
(* constants.  A behaviour of SmallPrograms is, in the variables of one    *)
(* program, a behaviour of that program (the ...Program lemmas).           *)
(***************************************************************************)
EXTENDS SmallPrograms, Sequences, FiniteSetTheorems, WellFoundedInduction, TLAPS

-----------------------------------------------------------------------------
(* Numbers.                                                                *)

\* Products with a natural number keep the order.
LEMMA TimesMonotone ==
  ASSUME NEW c \in Nat, NEW a \in Int, NEW b \in Int, a <= b
  PROVE  c * a <= c * b
<1>1. c * (b - a) >= 0
  <2>1. \A d \in Nat : c * d >= 0
    OBVIOUS
  <2> QED BY <2>1
<1>2. c * (b - a) = c * b - c * a
  OBVIOUS
<1> QED BY <1>1, <1>2

\* A set of natural numbers has a least element.
LEMMA LeastElement ==
  ASSUME NEW S, S \subseteq Nat, S # {}
  PROVE  \E m \in S : \A x \in S : m <= x
<1>1. PICK m \in S : \A x \in S : ~(<<x, m>> \in OpToRel(<, Nat))
  BY NatLessThanWellFounded, WFMin
<1>2. \A x \in S : m <= x
  <2>1. ASSUME NEW x \in S, x < m PROVE FALSE
    <3>1. <<x, m>> \in OpToRel(<, Nat)
      BY <2>1 DEF OpToRel
    <3> QED BY <1>1, <3>1
  <2> QED BY <2>1
<1> QED BY <1>2

\* Induction, for a set of natural numbers.
LEMMA AllOfNat ==
  ASSUME NEW S, 0 \in S, \A m \in Nat : m \in S => m + 1 \in S
  PROVE  Nat \subseteq S
<1> DEFINE Not == Nat \ S
<1> SUFFICES ASSUME Not # {} PROVE FALSE
  OBVIOUS
<1>1. PICK m \in Not : \A x \in Not : m <= x
  BY LeastElement
<1>2. m # 0
  OBVIOUS
<1> PICK k \in Nat : m = k + 1
  BY <1>2
<1>3. k \in S
  BY <1>1
<1> QED BY <1>3

\* A number lies between two neighbouring multiples of a divisor.
LEMMA QuotientBounds ==
  ASSUME NEW k \in Nat, NEW c \in Nat \ {0}
  PROVE  /\ k \div c \in Nat
         /\ c * (k \div c) <= k
         /\ k < c * (k \div c + 1)
  OBVIOUS

\* Division by a factor leaves nothing, and what leaves nothing is a factor.
LEMMA FactorDivides ==
  ASSUME NEW n \in Nat, NEW d \in Nat \ {0}
  PROVE  n % d = 0 <=> \E k \in Nat : n = d * k
<1> DEFINE q == n \div d
           r == n % d
<1>1. q \in Nat /\ r \in 0 .. d - 1 /\ n = d * q + r
  OBVIOUS
<1> HIDE DEF q, r
<1>2. ASSUME NEW k \in Nat, n = d * k PROVE r = 0
  <2>1. k >= q + 1 => d * (q + 1) <= d * k
    BY <1>1, TimesMonotone
  <2>2. d * (q + 1) = d * q + d
    BY <1>1
  <2>3. k <= q
    BY <1>1, <1>2, <2>1, <2>2
  <2>4. d * k <= d * q
    BY <1>1, <2>3, TimesMonotone
  <2> QED BY <1>1, <1>2, <2>4
<1>3. r = 0 => n = d * q
  BY <1>1
<1> QED BY <1>1, <1>2, <1>3 DEF r

\* A number and its remainder differ by a multiple of the divisor.
LEMMA RemainderLeft ==
  ASSUME NEW n \in Int, NEW d \in Nat \ {0}
  PROVE  /\ n % d \in 0 .. d - 1
         /\ \E q \in Int : n = d * q + (n % d)
<1>1. n % d \in 0 .. d - 1 /\ n \div d \in Int /\ n = d * (n \div d) + (n % d)
  OBVIOUS
<1> QED BY <1>1

\* A multiple leaves nothing.
LEMMA MultipleLeavesNothing ==
  ASSUME NEW q \in Int, NEW d \in Nat \ {0}
  PROVE  (d * q) % d = 0
<1> PICK n \in Int : n = d * q
  OBVIOUS
<1> PICK p \in Int : p = n \div d
  OBVIOUS
<1> PICK r \in 0 .. d - 1 : r = n % d
  OBVIOUS
<1>1. n = d * p + r
  OBVIOUS
<1>2. d * (q - p) = d * q - d * p
  OBVIOUS
<1>3. d * (q - p) = r
  BY <1>1, <1>2
<1>4. q - p >= 1 => d * 1 <= d * (q - p)
  BY TimesMonotone
<1>5. q - p <= 0 => d * (q - p) <= d * 0
  BY TimesMonotone
<1>6. d * 1 = d /\ d * 0 = 0
  OBVIOUS
<1>7. r = 0
  BY <1>3, <1>4, <1>5, <1>6
<1> QED BY <1>7

-----------------------------------------------------------------------------
(* LockedCounter.                                                          *)

\* What runs of it is LockedCounter.
LEMMA CounterProgram == SharedSpec => Spec
<1>1. SharedInit => Init
  BY DEF SharedInit
<1>2. [SharedNext]_allVars => [Next]_vars
  BY DEF SharedNext, allVars, vars
<1> QED BY <1>1, <1>2, PTL DEF SharedSpec, Spec

\* The invariant holds at the start.
LEMMA CounterInit == Init => CounterInv
  BY CounterAssumption
  DEF Init, CounterInv, TypeOK, ReadIsFresh, Progress, InSection, Threads

\* Every step of a thread keeps the invariant.
LEMMA CounterRun ==
  ASSUME CounterInv, NEW t \in Threads, Run(t)
  PROVE  CounterInv'
<1> USE DEF CounterInv, TypeOK, ReadIsFresh, Progress, InSection, Goto
<1>0. None \notin Threads
  BY CounterAssumption DEF Threads
<1>1. CASE Lock(t)
  BY <1>0, <1>1 DEF Lock
<1>2. CASE Read(t)
  BY <1>0, <1>2 DEF Read
<1>3. CASE Write(t)
  <2>1. /\ thread[t] = "write" /\ thread' = [thread EXCEPT ![t] = "unlock"]
        /\ value' = seen[t] + Delta[t]
        /\ rounds' = [rounds EXCEPT ![t] = @ + 1]
        /\ UNCHANGED <<main, next, seen, lock, printed>>
    BY <1>3 DEF Write
  <2>2. rounds[t] + 1 \in 0 .. Rounds /\ value' \in Int
    BY <2>1, CounterAssumption
  <2>3. TypeOK'
    BY <2>1, <2>2
  <2>4. ReadIsFresh'
    <3>1. \A u \in Threads : thread[u] = "write" => u = t
      BY <2>1
    <3> QED BY <2>1, <3>1
  <2>5. Progress' /\ (main # "end" => printed = None)'
    BY <2>1
  <2> QED BY <2>3, <2>4, <2>5
<1>4. CASE Unlock(t)
  BY <1>0, <1>4 DEF Unlock
<1>5. CASE Return(t)
  BY <1>0, <1>5 DEF Return
<1> QED BY <1>1, <1>2, <1>3, <1>4, <1>5 DEF Run

\* Every step of main keeps the invariant.
LEMMA CounterMain ==
  ASSUME CounterInv, Main
  PROVE  CounterInv'
<1> USE CounterAssumption
    DEF CounterInv, TypeOK, ReadIsFresh, Progress, InSection, Goto, Threads
<1>1. CASE Create
  BY <1>1 DEF Create
<1>2. CASE Join
  BY <1>2 DEF Join
<1>3. CASE PrintValue
  BY <1>3 DEF PrintValue
<1> QED BY <1>1, <1>2, <1>3 DEF Main

\* The lock excludes, what its owner has read stays true, and main prints
\* only when every thread has made all its changes.
LEMMA CounterInvariant == Spec => []CounterInv
<1>1. CounterInv /\ [Next]_vars => CounterInv'
  <2> SUFFICES ASSUME CounterInv, [Next]_vars PROVE CounterInv'
    OBVIOUS
  <2>1. CASE UNCHANGED vars
    BY <2>1 DEF vars, CounterInv, TypeOK, ReadIsFresh, Progress, InSection
  <2> QED BY <2>1, CounterRun, CounterMain DEF Next, Ended
<1> QED BY CounterInit, <1>1, PTL DEF Spec

\* The programs implement AtomicCounter: no change of any thread is lost, and
\* the value that main prints has them all.
THEOREM NoChangeIsLost == SharedSpec => NoChangeLost
<1>1. Init => Counter!Init
  BY DEF Init, Counter!Init
<1>2. CounterInv /\ [Next]_vars => [Counter!Next]_Counter!vars
  <2> SUFFICES ASSUME CounterInv, [Next]_vars PROVE [Counter!Next]_Counter!vars
    OBVIOUS
  <2> USE DEF CounterInv, TypeOK, ReadIsFresh, Progress
  <2>1. ASSUME NEW t \in Threads, Write(t) PROVE Counter!Change(t)
    <3>1. rounds[t] < Rounds /\ seen[t] = value
      BY <2>1 DEF Write, Goto
    <3>2. main # "end"
      BY <2>1 DEF Write, Goto
    <3> QED BY <2>1, <3>1, <3>2 DEF Write, Counter!Change
  <2>2. ASSUME PrintValue PROVE Counter!Show
    BY <2>2 DEF PrintValue, Counter!Show
  <2>3. ASSUME NEW t \in Threads, Lock(t) \/ Read(t) \/ Unlock(t) \/ Return(t)
        PROVE  UNCHANGED Counter!vars
    BY <2>3 DEF Lock, Read, Unlock, Return, Counter!vars
  <2>4. ASSUME Create \/ Join \/ Ended \/ UNCHANGED vars
        PROVE  UNCHANGED Counter!vars
    BY <2>4 DEF Create, Join, Ended, vars, Counter!vars
  <2> QED BY <2>1, <2>2, <2>3, <2>4 DEF Next, Main, Run, Counter!Next
<1> QED
  BY <1>1, <1>2, CounterInvariant, CounterProgram, PTL
  DEF Spec, NoChangeLost, Counter!Spec

-----------------------------------------------------------------------------
(* ArraySummary: the parts, and what the threads add up.                   *)

\* What runs of it is ArraySummary.
LEMMA SumProgram == SharedSpec => Sum!Spec
<1>1. SharedInit => Sum!Init
  BY DEF SharedInit
<1>2. [SharedNext]_allVars => [Sum!Next]_(Sum!vars)
  BY DEF SharedNext, allVars, sumVars, Sum!vars
<1> QED BY <1>1, <1>2, PTL DEF SharedSpec, Sum!Spec

\* The parts are in the array, follow each other, and leave nothing out.
LEMMA PartsFollow ==
  ASSUME NEW n \in Nat, NEW count \in Nat \ {0}, NEW t \in 0 .. count - 1
  PROVE  /\ Sum!PartStart(n, count, t) \in 0 .. n
         /\ Sum!PartEnd(n, count, t) \in 0 .. n
         /\ Sum!PartStart(n, count, t) <= Sum!PartEnd(n, count, t)
         /\ Sum!PartStart(n, count, 0) = 0
         /\ Sum!PartEnd(n, count, count - 1) = n
         /\ t + 1 < count =>
              Sum!PartEnd(n, count, t) = Sum!PartStart(n, count, t + 1)
<1> DEFINE c == n \div count
<1>1. c \in Nat /\ count * c <= n
  BY QuotientBounds
<1> HIDE DEF c
<1>2. 0 <= c * t /\ c * t <= c * (t + 1) /\ c * (t + 1) <= c * count
  <2>1. c * 0 = 0
    BY <1>1
  <2> QED BY <1>1, <2>1, TimesMonotone
<1>3. c * count = count * c
  BY <1>1
<1>4. c * t \in Int /\ c * (t + 1) \in Int /\ count * c \in Int /\ c * 0 = 0
  BY <1>1
<1>5. /\ Sum!PartStart(n, count, t) = c * t
      /\ Sum!PartStart(n, count, 0) = c * 0
      /\ Sum!PartStart(n, count, t + 1) = c * (t + 1)
      /\ Sum!PartEnd(n, count, t) = IF t = count - 1 THEN n ELSE c * (t + 1)
      /\ Sum!PartEnd(n, count, count - 1) = n
  BY DEF Sum!PartStart, Sum!PartEnd, c
<1> QED BY <1>1, <1>2, <1>3, <1>4, <1>5

\* Every element is in a part.
LEMMA SomePart ==
  ASSUME NEW n \in Nat, NEW count \in Nat \ {0}, NEW k \in 0 .. n - 1
  PROVE  \E t \in 0 .. count - 1 :
           Sum!PartStart(n, count, t) <= k /\ k < Sum!PartEnd(n, count, t)
<1> DEFINE c == n \div count
<1>1. c \in Nat
  BY QuotientBounds
<1> HIDE DEF c
<1>2. CASE k >= c * (count - 1)
  BY <1>1, <1>2 DEF Sum!PartStart, Sum!PartEnd, c
<1>3. CASE ~(k >= c * (count - 1))
  <2>1. c # 0
    BY <1>1, <1>3
  <2> DEFINE t == k \div c
  <2>2. t \in Nat /\ c * t <= k /\ k < c * (t + 1)
    BY <1>1, <2>1, QuotientBounds
  <2> HIDE DEF t
  <2>3. t < count - 1
    <3>1. t >= count - 1 => c * (count - 1) <= c * t
      BY <1>1, <2>2, TimesMonotone
    <3>2. c * (count - 1) \in Int /\ c * t \in Int
      BY <1>1, <2>2
    <3> QED BY <1>3, <2>2, <3>1, <3>2
  <2>4. Sum!PartStart(n, count, t) <= k /\ k < Sum!PartEnd(n, count, t)
    BY <2>2, <2>3 DEF Sum!PartStart, Sum!PartEnd, c
  <2> QED BY <2>2, <2>3, <2>4
<1> QED BY <1>2, <1>3

\* A part ends before every later one begins.
LEMMA PartsApart ==
  ASSUME NEW n \in Nat, NEW count \in Nat \ {0},
         NEW t \in 0 .. count - 1, NEW u \in 0 .. count - 1, t < u
  PROVE  Sum!PartEnd(n, count, t) <= Sum!PartStart(n, count, u)
<1>1. n \div count \in Nat
  BY QuotientBounds
<1>2. (n \div count) * (t + 1) <= (n \div count) * u
  BY <1>1, TimesMonotone
<1> QED BY <1>2 DEF Sum!PartStart, Sum!PartEnd

\* The sums of the first elements of A, as main's own loop makes them.
Sums(A, n) ==
  LET sum[k \in 0 .. n] == IF k = 0 THEN 0 ELSE sum[k - 1] + A[k - 1]
  IN  sum

IsSums(S, A, n) ==
  S = [k \in 0 .. n |-> IF k = 0 THEN 0 ELSE S[k - 1] + A[k - 1]]

\* There is such a function, of integers, however long the array.
LEMMA SumsExist ==
  ASSUME NEW n \in Nat, NEW A \in [0 .. n - 1 -> Int]
  PROVE  \E S \in [0 .. n -> Int] : IsSums(S, A, n)
<1> DEFINE Exists(m) == \E S \in [0 .. m -> Int] : IsSums(S, A, m)
           Without == {m \in 0 .. n : ~Exists(m)}
<1>1. Exists(0)
  <2> DEFINE S == [k \in 0 .. 0 |-> 0]
  <2>1. S \in [0 .. 0 -> Int] /\ IsSums(S, A, 0)
    BY DEF IsSums
  <2> QED BY <2>1
<1>2. ASSUME NEW m \in 0 .. n - 1, Exists(m) PROVE Exists(m + 1)
  <2>1. PICK S \in [0 .. m -> Int] : IsSums(S, A, m)
    BY <1>2
  <2> DEFINE T == [k \in 0 .. m + 1 |-> IF k = m + 1 THEN S[m] + A[m] ELSE S[k]]
  <2>2. T \in [0 .. m + 1 -> Int]
    OBVIOUS
  <2>3. \A k \in 0 .. m : S[k] = IF k = 0 THEN 0 ELSE S[k - 1] + A[k - 1]
    BY <2>1 DEF IsSums
  <2>4. \A k \in 0 .. m + 1 : T[k] = IF k = 0 THEN 0 ELSE T[k - 1] + A[k - 1]
    BY <2>3
  <2>5. T = [k \in 0 .. m + 1 |-> IF k = 0 THEN 0 ELSE T[k - 1] + A[k - 1]]
    BY <2>2, <2>4
  <2> QED BY <2>2, <2>5 DEF IsSums
<1> HIDE DEF Exists
<1>3. Without = {}
  <2> SUFFICES ASSUME Without # {} PROVE FALSE
    OBVIOUS
  <2>1. Without \subseteq Nat
    OBVIOUS
  <2>2. PICK m \in Without : \A x \in Without : m <= x
    BY <2>1, LeastElement, Zenon
  <2>3. m \in 0 .. n /\ m # 0 /\ ~Exists(m)
    BY <1>1
  <2>4. m - 1 \in 0 .. n - 1 /\ m - 1 \in 0 .. n /\ ~(m <= m - 1)
    BY <2>3
  <2>5. Exists(m - 1)
    BY <2>2, <2>4
  <2>6. Exists(m - 1 + 1)
    BY <1>2, <2>4, <2>5, Zenon
  <2> QED BY <2>3, <2>6
<1>4. Exists(n)
  <2>1. n \in 0 .. n
    OBVIOUS
  <2> QED BY <1>3, <2>1
<1> QED BY <1>4, Zenon DEF Exists

\* And main's loop computes it, an element at a time.
LEMMA SumsStep ==
  ASSUME NEW n \in Nat, NEW A \in [0 .. n - 1 -> Int]
  PROVE  /\ Sums(A, n) \in [0 .. n -> Int]
         /\ Sums(A, n)[0] = 0
         /\ \A k \in 0 .. n - 1 : Sums(A, n)[k + 1] = Sums(A, n)[k] + A[k]
<1> DEFINE S == Sums(A, n)
<1>1. IsSums(S, A, n)
  <2>1. \E T : IsSums(T, A, n)
    BY SumsExist
  <2>2. S = CHOOSE T : IsSums(T, A, n)
    BY Zenon DEF Sums, IsSums
  <2> QED BY <2>1, <2>2, Zenon
<1> HIDE DEF S
<1>2. S = [k \in 0 .. n |-> S[k]] /\ S[0] = 0
  BY <1>1 DEF IsSums
<1>3. ASSUME NEW k \in 0 .. n - 1 PROVE S[k + 1] = S[k] + A[k]
  <2> DEFINE j == k + 1
  <2>1. j \in 0 .. n /\ j # 0 /\ j - 1 = k
    OBVIOUS
  <2> HIDE DEF j
  <2>2. S[j] = IF j = 0 THEN 0 ELSE S[j - 1] + A[j - 1]
    BY <1>1, <2>1 DEF IsSums
  <2>3. S[j] = S[k] + A[k]
    BY <2>1, <2>2
  <2> QED BY <2>3 DEF j
<1> DEFINE Not == {m \in 0 .. n : S[m] \notin Int}
<1>4. Not = {}
  <2> SUFFICES ASSUME Not # {} PROVE FALSE
    OBVIOUS
  <2>1. Not \subseteq Nat
    OBVIOUS
  <2>2. PICK m \in Not : \A x \in Not : m <= x
    BY <2>1, LeastElement, Zenon
  <2>3. m \in 0 .. n /\ S[m] \notin Int /\ m # 0
    BY <1>2
  <2> PICK k \in 0 .. n - 1 : m = k + 1
    BY <2>3
  <2>4. k \in 0 .. n /\ ~(m <= k) /\ A[k] \in Int
    OBVIOUS
  <2>5. S[k] \in Int
    BY <2>2, <2>4
  <2> QED BY <1>3, <2>3, <2>4, <2>5
<1>5. S \in [0 .. n -> Int]
  BY <1>2, <1>4
<1> HIDE DEF Not
<1> QED BY <1>2, <1>3, <1>5, Zenon DEF S

SumTypeOK ==
  /\ arr_size \in Nat /\ num_threads \in Nat \ {0}
  /\ array \in [0 .. arr_size - 1 -> Int]
  /\ sumMain \in {"create", "join", "add", "end"} /\ sumNext \in Sum!Threads
  /\ sumThread \in [Sum!Threads -> {"new", "start", "loop", "done"}]
  /\ sumAt \in [Sum!Threads -> Int] /\ results \in [Sum!Threads -> Int]
  /\ result \in Int

First(t) == Sum!PartStart(arr_size, num_threads, t)
Last(t)  == Sum!PartEnd(arr_size, num_threads, t)

\* A thread has added the elements of its part that it has passed, and a
\* thread that is done has passed them all.
PartSummed ==
  \A t \in Sum!Threads :
    /\ sumThread[t] \in {"loop", "done"} =>
         /\ First(t) <= sumAt[t] /\ sumAt[t] <= Last(t)
         /\ results[t] =
              Sums(array, arr_size)[sumAt[t]] - Sums(array, arr_size)[First(t)]
    /\ sumThread[t] = "done" => sumAt[t] = Last(t)

\* main adds only when all threads are done, and has added the parts before
\* the one it is at.
MainAdds ==
  /\ sumMain \in {"create", "join"} => result = 0
  /\ sumMain = "join" => \A t \in Sum!Threads : t < sumNext => sumThread[t] = "done"
  /\ sumMain \in {"add", "end"} => \A t \in Sum!Threads : sumThread[t] = "done"
  /\ sumMain = "create" => \A t \in Sum!Threads : t >= sumNext => sumThread[t] = "new"
  /\ sumMain = "add" => result = Sums(array, arr_size)[First(sumNext)]
  /\ sumMain = "end" => result = Sums(array, arr_size)[arr_size]

SumInv == SumTypeOK /\ PartSummed /\ MainAdds

\* Before the first thread the sums are empty.
LEMMA SumStart == Sum!Init => SumInv
<1> SUFFICES ASSUME Sum!Init PROVE SumInv
  OBVIOUS
<1>1. Values \subseteq Int
  BY SmallAssumption DEF SmallAssumption
<1>2. SumTypeOK
  <2>1. array \in [0 .. arr_size - 1 -> Int]
    BY <1>1 DEF Sum!Init
  <2>2. num_threads \in Nat \ {0} /\ 0 \in Sum!Threads
    BY DEF Sum!Init, Sum!Threads
  <2>3. /\ sumThread \in [Sum!Threads -> {"new", "start", "loop", "done"}]
        /\ sumAt \in [Sum!Threads -> Int] /\ results \in [Sum!Threads -> Int]
    BY DEF Sum!Init
  <2> QED BY <2>1, <2>2, <2>3 DEF Sum!Init, SumTypeOK
<1>3. PartSummed /\ MainAdds
  BY DEF Sum!Init, PartSummed, MainAdds
<1> QED BY <1>2, <1>3 DEF SumInv

\* What a state says of the parts and the sums of its array.
LEMMA PartFacts ==
  ASSUME SumTypeOK
  PROVE  /\ \A t \in Sum!Threads :
              /\ First(t) \in 0 .. arr_size /\ Last(t) \in 0 .. arr_size
              /\ First(t) <= Last(t)
              /\ t + 1 < num_threads => Last(t) = First(t + 1)
              /\ t + 1 < num_threads => t + 1 \in Sum!Threads
              /\ ~(t + 1 < num_threads) => Last(t) = arr_size
         /\ 0 \in Sum!Threads /\ First(0) = 0
         /\ Sums(array, arr_size) \in [0 .. arr_size -> Int]
         /\ Sums(array, arr_size)[0] = 0
         /\ \A k \in 0 .. arr_size - 1 :
              Sums(array, arr_size)[k + 1] = Sums(array, arr_size)[k] + array[k]
<1> USE DEF SumTypeOK
<1>1. Sum!Threads = 0 .. num_threads - 1
  BY DEF Sum!Threads
<1>2. ASSUME NEW t \in Sum!Threads
      PROVE  /\ First(t) \in 0 .. arr_size /\ Last(t) \in 0 .. arr_size
             /\ First(t) <= Last(t)
             /\ t + 1 < num_threads => Last(t) = First(t + 1)
             /\ t + 1 < num_threads => t + 1 \in Sum!Threads
             /\ ~(t + 1 < num_threads) => Last(t) = arr_size
             /\ First(0) = 0
  <2>1. t \in 0 .. num_threads - 1
    BY <1>1
  <2>2. /\ Sum!PartStart(arr_size, num_threads, t) \in 0 .. arr_size
        /\ Sum!PartEnd(arr_size, num_threads, t) \in 0 .. arr_size
        /\ Sum!PartStart(arr_size, num_threads, t)
             <= Sum!PartEnd(arr_size, num_threads, t)
        /\ Sum!PartStart(arr_size, num_threads, 0) = 0
        /\ Sum!PartEnd(arr_size, num_threads, num_threads - 1) = arr_size
        /\ t + 1 < num_threads =>
             Sum!PartEnd(arr_size, num_threads, t)
               = Sum!PartStart(arr_size, num_threads, t + 1)
    BY <2>1, PartsFollow
  <2>3. ~(t + 1 < num_threads) => t = num_threads - 1
    BY <2>1
  <2>4. t + 1 < num_threads => t + 1 \in Sum!Threads
    BY <1>1, <2>1
  <2> QED BY <2>2, <2>3, <2>4, Zenon DEF First, Last
<1>3. 0 \in Sum!Threads
  BY <1>1
<1>4. First(0) = 0
  BY <1>2, <1>3
<1> QED BY <1>2, <1>3, <1>4, SumsStep

\* Every step of main and of the threads keeps the partial sums right.
LEMMA SumStepKeeps ==
  ASSUME SumInv, Sum!Next
  PROVE  SumInv'
<1> DEFINE S == Sums(array, arr_size)
<1>1. /\ \A t \in Sum!Threads :
           /\ First(t) \in 0 .. arr_size /\ Last(t) \in 0 .. arr_size
           /\ First(t) <= Last(t)
           /\ t + 1 < num_threads => Last(t) = First(t + 1)
           /\ t + 1 < num_threads => t + 1 \in Sum!Threads
           /\ ~(t + 1 < num_threads) => Last(t) = arr_size
      /\ 0 \in Sum!Threads /\ First(0) = 0
      /\ S \in [0 .. arr_size -> Int] /\ S[0] = 0
      /\ \A k \in 0 .. arr_size - 1 : S[k + 1] = S[k] + array[k]
  BY PartFacts DEF SumInv
<1>2. /\ UNCHANGED <<arr_size, num_threads, array>>
      /\ Sum!Threads' = Sum!Threads /\ S' = S
      /\ \A t : First(t)' = First(t) /\ Last(t)' = Last(t)
  <2>1. UNCHANGED <<arr_size, num_threads, array>>
    BY DEF Sum!Next, Sum!Main, Sum!Partial, Sum!Create, Sum!Join, Sum!AddUp,
           Sum!Ended, Sum!Start, Sum!Add, Sum!Return, Sum!args, Sum!vars
  <2> QED BY <2>1 DEF Sum!Threads, First, Last
<1>3. Sum!Threads \subseteq Int
  BY DEF Sum!Threads
<1> USE DEF SumInv
<1> HIDE DEF S
<1>4. CASE Sum!Create
  <2>1. /\ sumMain = "create"
        /\ sumThread' = [sumThread EXCEPT ![sumNext] = "start"]
        /\ UNCHANGED <<sumAt, results, result>>
        /\ \/ sumNext' = sumNext + 1 /\ sumNext + 1 < num_threads /\ sumMain' = sumMain
           \/ sumNext' = 0 /\ sumMain' = "join"
    BY <1>4 DEF Sum!Create
  <2>2. sumNext' \in Sum!Threads /\ sumNext \in Sum!Threads
    BY <1>1, <2>1 DEF SumTypeOK
  <2>3. SumTypeOK'
    BY <1>2, <2>1, <2>2 DEF SumTypeOK
  <2>4. /\ sumThread'[sumNext] = "start"
        /\ \A t \in Sum!Threads \ {sumNext} : sumThread'[t] = sumThread[t]
    BY <2>1, <2>2 DEF SumTypeOK
  <2>5. PartSummed'
    BY <1>2, <2>1, <2>4 DEF PartSummed, S
  <2>6. MainAdds'
    BY <1>2, <1>3, <2>1, <2>2, <2>4, <1>1 DEF MainAdds, S, Sum!Threads
  <2> QED BY <2>3, <2>5, <2>6
<1>5. CASE Sum!Join
  <2>1. /\ sumMain = "join" /\ sumThread[sumNext] = "done"
        /\ UNCHANGED <<sumThread, sumAt, results, result>>
        /\ \/ sumNext' = sumNext + 1 /\ sumNext + 1 < num_threads /\ sumMain' = sumMain
           \/ sumNext' = 0 /\ sumMain' = "add" /\ ~(sumNext + 1 < num_threads)
    BY <1>5 DEF Sum!Join
  <2>2. sumNext' \in Sum!Threads /\ sumNext \in Sum!Threads
    BY <1>1, <2>1 DEF SumTypeOK
  <2>3. SumTypeOK'
    BY <1>2, <2>1, <2>2 DEF SumTypeOK
  <2>4. PartSummed'
    BY <1>2, <2>1 DEF PartSummed, S
  <2>5. \A t \in Sum!Threads :
          t <= sumNext => sumThread'[t] = "done"
    BY <1>3, <2>1, <2>2 DEF MainAdds
  <2>6. sumMain' = "add" => First(0) = 0 /\ \A t \in Sum!Threads : t <= sumNext
    BY <1>1, <2>1, <2>2 DEF Sum!Threads, SumTypeOK
  <2>7. MainAdds'
    <3>1. result = 0 /\ S[0] = 0
      BY <1>1, <2>1 DEF MainAdds
    <3>2. \A t \in Sum!Threads : t < sumNext' /\ sumMain' = "join" => t <= sumNext
      BY <1>3, <2>1, <2>2
    <3> QED
      BY <1>2, <2>1, <2>5, <2>6, <3>1, <3>2 DEF MainAdds, S
  <2> QED BY <2>3, <2>4, <2>7
<1>6. CASE Sum!AddUp
  <2>1. /\ sumMain = "add" /\ result' = result + results[sumNext]
        /\ UNCHANGED <<sumThread, sumAt, results>>
        /\ \/ sumNext' = sumNext + 1 /\ sumNext + 1 < num_threads /\ sumMain' = sumMain
           \/ sumNext' = 0 /\ sumMain' = "end" /\ ~(sumNext + 1 < num_threads)
    BY <1>6 DEF Sum!AddUp
  <2>2. sumNext' \in Sum!Threads /\ sumNext \in Sum!Threads
    BY <1>1, <2>1 DEF SumTypeOK
  <2>3. SumTypeOK'
    BY <1>2, <2>1, <2>2 DEF SumTypeOK
  <2>4. PartSummed'
    BY <1>2, <2>1 DEF PartSummed, S
  <2>5. result' = S[Last(sumNext)]
    <3>1. /\ results[sumNext] = S[sumAt[sumNext]] - S[First(sumNext)]
          /\ sumAt[sumNext] = Last(sumNext)
      BY <2>1, <2>2 DEF PartSummed, MainAdds, S
    <3>2. result = S[First(sumNext)]
      BY <2>1 DEF MainAdds, S
    <3>3. S[Last(sumNext)] \in Int /\ S[First(sumNext)] \in Int
      BY <1>1, <2>2
    <3> QED BY <2>1, <3>1, <3>2, <3>3
  <2>6. MainAdds'
    BY <1>1, <1>2, <2>1, <2>2, <2>5 DEF MainAdds, S
  <2> QED BY <2>3, <2>4, <2>6
<1>7. CASE Sum!Ended
  BY <1>2, <1>7 DEF Sum!Ended, Sum!vars, SumTypeOK, PartSummed, MainAdds, S
<1>8. ASSUME NEW t \in Sum!Threads, Sum!Start(t) PROVE SumInv'
  <2>1. /\ sumThread[t] = "start"
        /\ sumThread' = [sumThread EXCEPT ![t] = "loop"]
        /\ sumAt' = [sumAt EXCEPT ![t] = First(t)]
        /\ results' = [results EXCEPT ![t] = 0]
        /\ UNCHANGED <<sumMain, sumNext, result>>
    BY <1>8 DEF Sum!Start, First
  <2>2. /\ sumThread'[t] = "loop" /\ sumAt'[t] = First(t) /\ results'[t] = 0
        /\ \A u \in Sum!Threads \ {t} : /\ sumThread'[u] = sumThread[u]
                                        /\ sumAt'[u] = sumAt[u]
                                        /\ results'[u] = results[u]
    BY <2>1 DEF SumTypeOK
  <2>3. SumTypeOK'
    BY <1>1, <1>2, <2>1 DEF SumTypeOK
  <2>4. PartSummed'
    BY <1>1, <1>2, <2>2 DEF PartSummed, S
  <2>5. MainAdds'
    BY <1>2, <2>1, <2>2 DEF MainAdds, S
  <2> QED BY <2>3, <2>4, <2>5
<1>9. ASSUME NEW t \in Sum!Threads, Sum!Add(t) PROVE SumInv'
  <2>1. /\ sumThread[t] = "loop" /\ sumAt[t] < Last(t)
        /\ results' = [results EXCEPT ![t] = @ + array[sumAt[t]]]
        /\ sumAt' = [sumAt EXCEPT ![t] = @ + 1]
        /\ UNCHANGED <<sumMain, sumNext, sumThread, result>>
    BY <1>9 DEF Sum!Add, Last
  <2>2. /\ results'[t] = results[t] + array[sumAt[t]] /\ sumAt'[t] = sumAt[t] + 1
        /\ \A u \in Sum!Threads \ {t} : sumAt'[u] = sumAt[u] /\ results'[u] = results[u]
    BY <2>1 DEF SumTypeOK
  <2>3. /\ sumAt[t] \in 0 .. arr_size - 1 /\ First(t) <= sumAt[t]
        /\ results[t] = S[sumAt[t]] - S[First(t)]
    <3>1. /\ First(t) <= sumAt[t]
          /\ results[t] = S[sumAt[t]] - S[First(t)]
      BY <2>1 DEF PartSummed, S
    <3>2. /\ arr_size \in Nat /\ sumAt[t] \in Int
          /\ First(t) \in 0 .. arr_size /\ Last(t) \in 0 .. arr_size
      BY <1>1 DEF SumTypeOK
    <3> QED BY <2>1, <3>1, <3>2
  <2>4. /\ array[sumAt[t]] \in Int /\ S[sumAt[t]] \in Int /\ S[First(t)] \in Int
        /\ S[sumAt[t] + 1] = S[sumAt[t]] + array[sumAt[t]]
    <3>1. arr_size \in Nat /\ array \in [0 .. arr_size - 1 -> Int]
      BY DEF SumTypeOK
    <3>2. sumAt[t] \in 0 .. arr_size /\ First(t) \in 0 .. arr_size
      BY <1>1, <2>3, <3>1
    <3>3. array[sumAt[t]] \in Int
      BY <2>3, <3>1
    <3> QED BY <1>1, <2>3, <3>2, <3>3
  <2>5. SumTypeOK'
    BY <1>2, <2>1, <2>4 DEF SumTypeOK
  <2>6. results'[t] = S[sumAt'[t]] - S[First(t)]
    BY <2>2, <2>3, <2>4
  <2>7. First(t) <= sumAt'[t] /\ sumAt'[t] <= Last(t)
    BY <1>1, <2>1, <2>2, <2>3
  <2>8. PartSummed'
    BY <1>2, <2>1, <2>2, <2>6, <2>7 DEF PartSummed, S
  <2>9. MainAdds'
    BY <1>2, <2>1 DEF MainAdds, S
  <2> QED BY <2>5, <2>8, <2>9
<1>10. ASSUME NEW t \in Sum!Threads, Sum!Return(t) PROVE SumInv'
  <2>1. /\ sumThread[t] = "loop" /\ sumAt[t] >= Last(t)
        /\ sumThread' = [sumThread EXCEPT ![t] = "done"]
        /\ UNCHANGED <<sumMain, sumNext, sumAt, results, result>>
    BY <1>10 DEF Sum!Return, Last
  <2>2. /\ sumThread'[t] = "done"
        /\ \A u \in Sum!Threads \ {t} : sumThread'[u] = sumThread[u]
    BY <2>1 DEF SumTypeOK
  <2>3. SumTypeOK'
    BY <1>2, <2>1 DEF SumTypeOK
  <2>4. sumAt[t] = Last(t)
    BY <1>1, <2>1 DEF PartSummed, SumTypeOK
  <2>5. PartSummed'
    BY <1>2, <2>1, <2>2, <2>4 DEF PartSummed, S
  <2>6. MainAdds'
    BY <1>2, <2>1, <2>2 DEF MainAdds, S
  <2> QED BY <2>3, <2>5, <2>6
<1> QED
  BY <1>4, <1>5, <1>6, <1>7, <1>8, <1>9, <1>10 DEF Sum!Next, Sum!Main, Sum!Partial

\* The partial sums are right in every state.
LEMMA SumInvariant == SharedSpec => []SumInv
<1>1. SumInv /\ [Sum!Next]_(Sum!vars) => SumInv'
  <2> SUFFICES ASSUME SumInv, UNCHANGED Sum!vars PROVE SumInv'
    BY SumStepKeeps
  <2> QED BY DEF Sum!vars, SumInv, SumTypeOK, PartSummed, MainAdds, Sum!Threads,
                 First, Last
<1> QED BY <1>1, SumStart, SumProgram, PTL DEF Sum!Spec

\* The threads add up to what main sums by itself, for every array, every
\* number of threads and every order in which they run.
THEOREM SumIsRight == SharedSpec => []ResultRight
<1>1. SumInv => ResultRight
  <2> SUFFICES ASSUME SumInv, sumMain = "end"
               PROVE  result = Sum!PlainSum
    BY DEF ResultRight, Sum!ResultRight
  <2>1. result = Sums(array, arr_size)[arr_size]
    BY DEF SumInv, MainAdds
  <2> QED BY <2>1, Zenon DEF Sum!PlainSum, Sums
<1> QED BY <1>1, SumInvariant, PTL

\* Each element is summed by one thread and by no other, for every size of
\* the array and every number of threads.
THEOREM EveryElementOnce == SharedSpec => []EachOnce
<1>1. SumInv => EachOnce
  <2> SUFFICES ASSUME SumInv, NEW k \in 0 .. arr_size - 1
               PROVE  \E t \in Sum!Threads :
                        /\ Sum!InPart(k, t)
                        /\ \A u \in Sum!Threads : Sum!InPart(k, u) => u = t
    BY DEF EachOnce, Sum!EachOnce
  <2>0. arr_size \in Nat /\ num_threads \in Nat \ {0}
    BY DEF SumInv, SumTypeOK
  <2>1. PICK t \in Sum!Threads : Sum!InPart(k, t)
    BY <2>0, SomePart DEF Sum!Threads, Sum!InPart
  <2>2. ASSUME NEW u \in Sum!Threads, Sum!InPart(k, u) PROVE u = t
    <3>1. \A v \in Sum!Threads :
            /\ Sum!PartStart(arr_size, num_threads, v) \in Int
            /\ Sum!PartEnd(arr_size, num_threads, v) \in Int
      BY <2>0, PartsFollow DEF Sum!Threads
    <3>2. ~(t < u)
      BY <2>0, <2>1, <2>2, <3>1, PartsApart DEF Sum!InPart, Sum!Threads
    <3>3. ~(u < t)
      BY <2>0, <2>1, <2>2, <3>1, PartsApart DEF Sum!InPart, Sum!Threads
    <3> QED BY <3>2, <3>3 DEF Sum!Threads
  <2> QED BY <2>1, <2>2
<1> QED BY <1>1, SumInvariant, PTL

-----------------------------------------------------------------------------
(* BankLifecycle: two kinds of processes on an object of shared memory.    *)

\* What runs of it is BankLifecycle.
LEMMA BankProgram == SharedSpec => Life!Spec
<1>1. SharedInit => Life!Init
  BY DEF SharedInit
<1>2. [SharedNext]_allVars => [Life!Next]_(Life!vars)
  BY DEF SharedNext, allVars, bankVars, Life!vars, Life!bankVars, Life!initVars,
     Life!clientVars
<1> QED BY <1>1, <1>2, PTL DEF SharedSpec, Life!Spec

BankTypeOK ==
  /\ bank_shm \in Objects \cup {None}
  /\ length \in [Objects -> Nat \cup {-1}] /\ size \in [Objects -> Nat]
  /\ bankLock \in [Objects -> {"free", "taken"}]
  /\ cellsMade \in [Objects -> Nat]
  /\ initPc \in [Inits -> {"open", "truncate", "size", "mutex", "cells", "done",
                           "killed"}]
  /\ initObj \in [Inits -> Objects \cup {None}]
  /\ clientPc \in [Clients -> {"open", "map", "idle", "lock", "asleep",
                               "asleepAlone", "in"}]
  /\ object \in [Clients -> Objects \cup {None}]
  /\ mapped \in [Clients -> Int]
  /\ target \in [Clients -> SUBSET Nat]

FlagsTypeOK == /\ mutexMade \in [Objects -> BOOLEAN]
               /\ early \in [Objects -> BOOLEAN]
               /\ again \in [Objects -> BOOLEAN]

HasMapped(c) == clientPc[c] \in {"idle", "lock", "asleep", "asleepAlone", "in"}

\* Who has opened an object is past its first step, and a client that is not
\* in a command has no target.
Opened ==
  /\ \A i \in Inits : initObj[i] = None <=> initPc[i] = "open"
  /\ \A c \in Clients :
       /\ object[c] = None <=> clientPc[c] = "open"
       /\ clientPc[c] \in {"open", "map", "idle"} => target[c] = {}
  /\ bank_shm # None => \E i \in Inits : initObj[i] = bank_shm
  /\ \A c \in Clients : object[c] # None =>
       \E i \in Inits : initObj[i] = object[c]

Undisturbed(o) == ~early[o] /\ ~again[o]

Finished(o) == \A i \in Inits : initObj[i] = o => initPc[i] \in {"done", "killed"}

\* In an undisturbed bank a client with a mapping has all of a bank whose
\* constructor has run to its end, and init is not at work on it.
WholeFor(o, c) ==
  /\ HasMapped(c) => /\ Finished(o) /\ mutexMade[o]
                     /\ length[o] = size[o] /\ size[o] = cellsMade[o]
                     /\ mapped[c] = length[o]
  /\ \A k \in target[c] : k < size[o]

\* And its mutex is taken by one client at most, and makes the others sleep.
LockedBy(o, c) ==
  /\ clientPc[c] # "asleepAlone"
  /\ clientPc[c] \in {"in", "asleep"} => bankLock[o] = "taken"
  /\ \A d \in Clients :
       object[d] = o /\ clientPc[c] = "in" /\ clientPc[d] = "in" => c = d

Excludes ==
  \A o \in Objects : Undisturbed(o) =>
    \A c \in Clients : object[c] = o => WholeFor(o, c) /\ LockedBy(o, c)

\* An object that a single init has opened has its length before its size, and
\* no other length later.
OpenedOnceBy(o, i) == \A j \in Inits : initObj[j] = o <=> j = i

OnceBy(o, i) ==
  /\ initPc[i] = "truncate" => length[o] = -1 /\ size[o] = 0
  /\ initPc[i] = "size" => length[o] = SizeOf[i]
  /\ length[o] \in {-1, SizeOf[i]} /\ size[o] \in {0, SizeOf[i]}
  /\ size[o] # 0 => length[o] = SizeOf[i]
  /\ \A c \in Clients : object[c] = o =>
       /\ HasMapped(c) => length[o] = SizeOf[i] /\ mapped[c] = SizeOf[i]
       /\ \A k \in target[c] : k < SizeOf[i]

OpenedOnce ==
  \A o \in Objects :
    /\ (\A j \in Inits : initObj[j] # o) => length[o] = -1 /\ size[o] = 0
    /\ \A i \in Inits : OpenedOnceBy(o, i) => OnceBy(o, i)

BankInv == BankTypeOK /\ FlagsTypeOK /\ Opened /\ Excludes /\ OpenedOnce

\* Whole, with the inits that may be at work on the object spelled out.
LEMMA WholeMeans ==
  ASSUME BankTypeOK, NEW o \in Objects
  PROVE  Life!Whole(o) <=> /\ Finished(o) /\ mutexMade[o]
                           /\ length[o] = size[o] /\ size[o] = cellsMade[o]
  BY DEF Life!Whole, Life!AtWork, Finished, BankTypeOK

\* The invariant holds before the first process opens the object.
LEMMA BankInit == Life!Init => BankInv
<1> SUFFICES ASSUME Life!Init PROVE BankInv
  OBVIOUS
<1> USE SmallAssumption DEF Life!Init, Life!NoCells
<1>1. BankTypeOK
  BY DEF BankTypeOK
<1>2. FlagsTypeOK
  BY DEF FlagsTypeOK
<1>3. Opened
  BY DEF Opened, SmallAssumption
<1>4. Excludes
  BY DEF Excludes, SmallAssumption
<1>5. OpenedOnce
  BY DEF OpenedOnce, OpenedOnceBy, SmallAssumption
<1> QED BY <1>1, <1>2, <1>3, <1>4, <1>5 DEF BankInv

\* init: an undisturbed bank has no client with a mapping while init is at work.
LEMMA InitStepKeeps ==
  ASSUME BankInv, NEW i \in Inits, Life!InitStep(i) PROVE BankInv'
<1> USE DEF BankInv
<1>1. CASE Life!InitOpen(i)
  <2>1. PICK o \in Objects :
          /\ IF bank_shm = None THEN ~Life!Used(o) ELSE o = bank_shm
          /\ bank_shm' = o /\ initObj' = [initObj EXCEPT ![i] = o]
          /\ again' = [again EXCEPT ![o] = @ \/ Life!AtWork(o) # {}
                                             \/ Life!Attached(o) # {}]
    BY <1>1 DEF Life!InitOpen
  <2>2. /\ initPc[i] = "open" /\ initPc' = [initPc EXCEPT ![i] = "truncate"]
        /\ UNCHANGED <<length, size, bankLock, mutexMade, cellsMade, clientPc,
                       object, mapped, target, early>>
    BY <1>1 DEF Life!InitOpen, Life!InitGoto, Life!bankVars, Life!clientVars
  <2>3. /\ again' \in [Objects -> BOOLEAN]
        /\ \A q \in Objects \ {o} : again'[q] = again[q]
        /\ ~again'[o] => \A c \in Clients : object[c] # o
    BY <2>1, Zenon DEF FlagsTypeOK, Life!Attached
  <2>4. initObj[i] = None /\ None \notin Objects
    BY <2>2, SmallAssumption DEF Opened, SmallAssumption
  <2>5. BankTypeOK'
    BY <2>1, <2>2 DEF BankTypeOK
  <2>6. FlagsTypeOK'
    BY <2>2, <2>3 DEF FlagsTypeOK
  <2>7. Opened'
    BY <2>1, <2>2, <2>4 DEF Opened, BankTypeOK
  <2>8. Excludes'
    <3> SUFFICES ASSUME NEW q \in Objects, Undisturbed(q)',
                        NEW c \in Clients, object[c] = q
                 PROVE  WholeFor(q, c)' /\ LockedBy(q, c)'
      BY <2>2 DEF Excludes
    <3>1. q # o /\ Undisturbed(q)
      BY <2>2, <2>3 DEF Undisturbed
    <3>2. WholeFor(q, c) /\ LockedBy(q, c)
      BY <3>1 DEF Excludes
    <3>3. Finished(q) => Finished(q)'
      BY <2>1, <2>2, <3>1 DEF Finished, BankTypeOK
    <3> QED BY <2>2, <3>2, <3>3 DEF WholeFor, LockedBy, HasMapped
  <2>9. OpenedOnce'
    <3> SUFFICES ASSUME NEW q \in Objects
                 PROVE  /\ (\A j \in Inits : initObj'[j] # q) =>
                             length[q] = -1 /\ size[q] = 0
                        /\ \A k \in Inits : OpenedOnceBy(q, k)' => OnceBy(q, k)'
      BY <2>2 DEF OpenedOnce
    <3>1. CASE q = o
      <4>1. initObj'[i] = o
        BY <2>1 DEF BankTypeOK
      <4>2. ASSUME NEW k \in Inits, OpenedOnceBy(q, k)'
            PROVE  OnceBy(q, k)'
        <5>1. k = i /\ \A j \in Inits : initObj[j] # o
          BY <2>1, <2>4, <3>1, <4>1, <4>2 DEF OpenedOnceBy, BankTypeOK
        <5>2. \A c \in Clients : object[c] # o
          BY <2>4, <5>1 DEF Opened
        <5>3. length[o] = -1 /\ size[o] = 0 /\ initPc'[i] = "truncate"
          BY <2>2, <5>1 DEF OpenedOnce, BankTypeOK
        <5> QED BY <2>2, <3>1, <5>1, <5>2, <5>3 DEF OnceBy
      <4> QED BY <3>1, <4>1, <4>2
    <3>2. CASE q # o
      <4>1. \A j \in Inits : initObj'[j] = q <=> initObj[j] = q
        BY <2>1, <2>4, <3>2 DEF BankTypeOK
      <4>2. ASSUME NEW k \in Inits, OpenedOnceBy(q, k)'
            PROVE  OnceBy(q, k)'
        <5>1. OpenedOnceBy(q, k) /\ initPc'[k] = initPc[k]
          BY <2>2, <2>4, <4>1, <4>2 DEF OpenedOnceBy, BankTypeOK
        <5>2. OnceBy(q, k)
          BY <5>1 DEF OpenedOnce
        <5> QED BY <2>2, <5>1, <5>2 DEF OnceBy, HasMapped
      <4> QED BY <4>1, <4>2 DEF OpenedOnce
    <3> QED BY <3>1, <3>2
  <2> QED BY <2>5, <2>6, <2>7, <2>8, <2>9
<1>2. CASE Life!Truncate(i) \/ Life!StoreSize(i) \/ Life!InitMutex(i)
           \/ Life!MakeCells(i)
  <2> DEFINE o == initObj[i]
  <2>1. /\ initPc[i] \in {"truncate", "size", "mutex", "cells"}
        /\ UNCHANGED <<bank_shm, initObj, clientPc, object, mapped, target, early,
                       again>>
    BY <1>2 DEF Life!Truncate, Life!StoreSize, Life!InitMutex, Life!MakeCells,
       Life!InitGoto, Life!bankVars, Life!clientVars
  <2>2. PICK l \in {"size", "mutex", "cells", "done"} :
          initPc' = [initPc EXCEPT ![i] = l]
    BY <1>2 DEF Life!Truncate, Life!StoreSize, Life!InitMutex, Life!MakeCells,
       Life!InitGoto
  <2>3. o \in Objects
    BY <2>1 DEF Opened, BankTypeOK
  <2>4. BankTypeOK'
    <3>1. SizeOf[i] \in Nat /\ size[o] \in Nat
          /\ (IF cellsMade[o] > SizeOf[i] THEN SizeOf[i] ELSE cellsMade[o]) \in Nat
      BY <2>3, SmallAssumption DEF SmallAssumption, BankTypeOK
    <3> HIDE DEF o
    <3> QED
      BY <1>2, <2>1, <2>2, <2>3, <3>1 DEF BankTypeOK, Life!Truncate,
         Life!StoreSize, Life!InitMutex, Life!MakeCells, Life!bankVars, o
  <2>5. FlagsTypeOK'
    BY <1>2, <2>1, Zenon DEF FlagsTypeOK, Life!Truncate, Life!StoreSize,
       Life!InitMutex, Life!MakeCells, Life!bankVars
  <2>6. Opened'
    BY <2>1, <2>2 DEF Opened, BankTypeOK
  <2>7. ASSUME NEW q \in Objects \ {o}
        PROVE  /\ length'[q] = length[q] /\ size'[q] = size[q]
               /\ bankLock'[q] = bankLock[q] /\ cellsMade'[q] = cellsMade[q]
    BY <1>2 DEF Life!Truncate, Life!StoreSize, Life!InitMutex, Life!MakeCells,
       Life!bankVars, BankTypeOK
  <2>8. ASSUME NEW q \in Objects \ {o}
        PROVE  mutexMade'[q] = mutexMade[q]
    BY <1>2, Zenon DEF Life!Truncate, Life!StoreSize, Life!InitMutex,
       Life!MakeCells, Life!bankVars, FlagsTypeOK
  <2>9. Excludes'
    <3> SUFFICES ASSUME NEW q \in Objects, Undisturbed(q),
                        NEW c \in Clients, object[c] = q
                 PROVE  WholeFor(q, c)' /\ LockedBy(q, c)'
      BY <2>1 DEF Excludes, Undisturbed
    <3>1. WholeFor(q, c) /\ LockedBy(q, c)
      BY DEF Excludes
    <3>2. CASE q = o
      <4>1. ~Finished(o)
        BY <2>1 DEF Finished
      <4>2. clientPc[c] \in {"open", "map"}
        BY <3>1, <3>2, <4>1 DEF WholeFor, HasMapped, BankTypeOK
      <4>3. target[c] = {}
        BY <4>2 DEF Opened
      <4> QED BY <2>1, <4>2, <4>3 DEF WholeFor, LockedBy, HasMapped
    <3>3. CASE q # o
      <4>1. Finished(q)' <=> Finished(q)
        BY <2>1, <2>2, <3>3 DEF Finished, BankTypeOK
      <4> QED BY <2>1, <2>7, <2>8, <3>1, <3>3, <4>1 DEF WholeFor, LockedBy, HasMapped
    <3> QED BY <3>2, <3>3
  <2>10. OpenedOnce'
    <3> SUFFICES ASSUME NEW q \in Objects
                 PROVE  /\ (\A j \in Inits : initObj[j] # q) =>
                             length'[q] = -1 /\ size'[q] = 0
                        /\ \A k \in Inits : OpenedOnceBy(q, k) => OnceBy(q, k)'
      BY <2>1 DEF OpenedOnce, OpenedOnceBy
    <3>1. CASE q = o
      <4>1. ASSUME OpenedOnceBy(o, i) PROVE OnceBy(o, i)'
        <5>1. OnceBy(o, i)
          BY <2>3, <4>1 DEF OpenedOnce
        <5>2. SizeOf[i] \in Nat /\ length[o] \in Int
          BY <2>3, SmallAssumption DEF SmallAssumption, BankTypeOK
        <5>3. CASE Life!Truncate(i)
          <6>1. /\ initPc[i] = "truncate" /\ initPc'[i] = "size"
                /\ length'[o] = SizeOf[i] /\ size'[o] = size[o]
            BY <2>3, <5>3 DEF Life!Truncate, Life!InitGoto, Life!bankVars,
               BankTypeOK
          <6> QED BY <2>1, <5>1, <5>2, <6>1 DEF OnceBy, HasMapped
        <5>4. CASE Life!StoreSize(i)
          <6>1. /\ initPc[i] = "size" /\ initPc'[i] = "mutex"
                /\ length'[o] = length[o] /\ size'[o] = SizeOf[i]
            BY <2>3, <5>4 DEF Life!StoreSize, Life!InitGoto, BankTypeOK
          <6> QED BY <2>1, <5>1, <5>2, <6>1 DEF OnceBy, HasMapped
        <5>5. CASE Life!InitMutex(i) \/ Life!MakeCells(i)
          <6>1. /\ initPc'[i] \in {"cells", "done"}
                /\ length'[o] = length[o] /\ size'[o] = size[o]
            BY <2>3, <5>5 DEF Life!InitMutex, Life!MakeCells, Life!InitGoto,
               BankTypeOK
          <6> QED BY <2>1, <5>1, <5>2, <6>1 DEF OnceBy, HasMapped
        <5> QED BY <1>2, <5>3, <5>4, <5>5
      <4>2. ASSUME NEW k \in Inits, OpenedOnceBy(q, k) PROVE OnceBy(q, k)'
        <5>1. k = i
          BY <3>1, <4>2 DEF OpenedOnceBy
        <5>2. OnceBy(o, i)'
          BY <3>1, <4>1, <4>2, <5>1
        <5> QED BY <2>1, <3>1, <5>1, <5>2 DEF OnceBy, HasMapped
      <4> QED BY <3>1, <4>2
    <3>2. CASE q # o
      <4>1. ASSUME NEW k \in Inits, OpenedOnceBy(q, k) PROVE OnceBy(q, k)'
        <5>1. OnceBy(q, k) /\ initPc'[k] = initPc[k]
          BY <2>2, <3>2, <4>1 DEF OpenedOnce, OpenedOnceBy, BankTypeOK
        <5> QED BY <2>1, <2>7, <3>2, <5>1 DEF OnceBy, HasMapped
      <4> QED BY <2>7, <3>2, <4>1 DEF OpenedOnce
    <3> QED BY <3>1, <3>2
  <2> QED BY <2>4, <2>5, <2>6, <2>9, <2>10
<1>3. CASE Life!InitKilled(i)
  <2>1. /\ initPc[i] # "open" /\ initPc' = [initPc EXCEPT ![i] = "killed"]
        /\ UNCHANGED <<bank_shm, length, size, bankLock, mutexMade, cellsMade,
                       initObj, clientPc, object, mapped, target, early, again>>
    BY <1>3 DEF Life!InitKilled, Life!bankVars, Life!clientVars
  <2>2. BankTypeOK'
    BY <2>1 DEF BankTypeOK
  <2>3. FlagsTypeOK'
    BY <2>1 DEF FlagsTypeOK
  <2>4. Opened'
    BY <2>1 DEF Opened, BankTypeOK
  <2>5. \A q \in Objects : Finished(q) => Finished(q)'
    BY <2>1 DEF Finished, BankTypeOK
  <2>6. Excludes'
    BY <2>1, <2>5 DEF Excludes, Undisturbed, WholeFor, LockedBy, HasMapped
  <2>7. OpenedOnce'
    <3>1. \A k \in Inits : initPc'[k] \in {initPc[k], "killed"}
      BY <2>1 DEF BankTypeOK
    <3>2. ASSUME NEW q \in Objects, NEW k \in Inits, OnceBy(q, k)
          PROVE  OnceBy(q, k)'
      BY <2>1, <3>1, <3>2 DEF OnceBy, HasMapped
    <3> QED BY <2>1, <3>2 DEF OpenedOnce, OpenedOnceBy
  <2> QED BY <2>2, <2>3, <2>4, <2>6, <2>7
<1> QED BY <1>1, <1>2, <1>3 DEF Life!InitStep

\* A client that is, and stays, outside of the lock and the section leaves the
\* others as they are; what it has mapped is left to the actions.
LEMMA QuietStep ==
  ASSUME BankInv, NEW c \in Clients, NEW l \in {"open", "map", "idle", "lock"},
         clientPc' = [clientPc EXCEPT ![c] = l],
         \A d \in Clients \ {c} : /\ object'[d] = object[d] /\ mapped'[d] = mapped[d]
                                  /\ target'[d] = target[d],
         UNCHANGED <<length, size, bankLock, mutexMade, cellsMade, initPc, initObj>>,
         \A o \in Objects : Undisturbed(o)' => Undisturbed(o),
         \A o \in Objects : Undisturbed(o)' /\ object'[c] = o => WholeFor(o, c)',
         \A o \in Objects, i \in Inits :
            OpenedOnceBy(o, i) /\ OnceBy(o, i) /\ object'[c] = o =>
              /\ HasMapped(c)' => length[o] = SizeOf[i] /\ mapped'[c] = SizeOf[i]
              /\ \A k \in target'[c] : k < SizeOf[i]
  PROVE  Excludes' /\ OpenedOnce'
<1>1. \A o \in Objects : Finished(o)' <=> Finished(o)
  BY DEF Finished
<1>2. /\ clientPc'[c] = l
      /\ \A d \in Clients \ {c} : clientPc'[d] = clientPc[d]
  BY DEF BankInv, BankTypeOK
<1>3. Excludes'
  <2> SUFFICES ASSUME NEW o \in Objects, Undisturbed(o)',
                      NEW d \in Clients, object'[d] = o
               PROVE  WholeFor(o, d)' /\ LockedBy(o, d)'
    BY DEF Excludes
  <2>1. CASE d = c
    BY <1>2, <2>1 DEF LockedBy, WholeFor, HasMapped
  <2>2. CASE d # c
    <3>1. WholeFor(o, d) /\ LockedBy(o, d)
      BY <2>2 DEF BankInv, Excludes
    <3>2. WholeFor(o, d)'
      BY <1>1, <1>2, <2>2, <3>1 DEF WholeFor, HasMapped
    <3>3. LockedBy(o, d)'
      BY <1>2, <2>2, <3>1 DEF LockedBy
    <3> QED BY <3>2, <3>3
  <2> QED BY <2>1, <2>2
<1>4. OpenedOnce'
  <2>1. ASSUME NEW o \in Objects, NEW i \in Inits, OpenedOnceBy(o, i)
        PROVE  OnceBy(o, i)'
    <3>1. OnceBy(o, i)
      BY <2>1 DEF BankInv, OpenedOnce
    <3>2. ASSUME NEW d \in Clients, object'[d] = o
          PROVE  /\ HasMapped(d)' => length[o] = SizeOf[i] /\ mapped'[d] = SizeOf[i]
                 /\ \A k \in target'[d] : k < SizeOf[i]
      <4>1. CASE d = c
        BY <2>1, <3>1, <3>2, <4>1 DEF HasMapped
      <4>2. CASE d # c
        BY <1>2, <3>1, <3>2, <4>2 DEF OnceBy, HasMapped
      <4> QED BY <4>1, <4>2
    <3> QED BY <3>1, <3>2 DEF OnceBy
  <2> QED BY <2>1 DEF BankInv, OpenedOnce, OpenedOnceBy
<1> QED BY <1>3, <1>4

\* A client: in an undisturbed bank the mutex admits one at a time.
LEMMA ClientStepKeeps ==
  ASSUME BankInv, NEW c \in Clients, Life!ClientStep(c) PROVE BankInv'
<1>0. /\ UNCHANGED <<bank_shm, length, size, mutexMade, cellsMade, initPc, initObj,
                     again>>
      /\ None \notin Objects
  BY SmallAssumption DEF SmallAssumption, Life!ClientStep, Life!Open, Life!Map,
     Life!Transfer, Life!Sweep, Life!LockBank, Life!UnlockBank, Life!Exit,
     Life!initVars, Life!bankVars
<1>1. CASE Life!Open(c)
  <2>1. /\ bank_shm # None /\ clientPc[c] = "open"
        /\ clientPc' = [clientPc EXCEPT ![c] = "map"]
        /\ object' = [object EXCEPT ![c] = bank_shm]
        /\ UNCHANGED <<bankLock, mapped, target, early>>
    BY <1>1 DEF Life!Open, Life!Goto, Life!bankVars
  <2>2. target[c] = {}
    BY <2>1 DEF BankInv, Opened
  <2>3. BankTypeOK' /\ FlagsTypeOK'
    BY <1>0, <2>1 DEF BankInv, BankTypeOK, FlagsTypeOK
  <2>4. Opened'
    BY <1>0, <2>1, <2>2 DEF BankInv, Opened, BankTypeOK
  <2>5. Excludes' /\ OpenedOnce'
    <3>1. clientPc'[c] = "map"
      BY <2>1 DEF BankInv, BankTypeOK
    <3>2. ~HasMapped(c)'
      BY <3>1 DEF HasMapped
    <3>3. \A o \in Objects : WholeFor(o, c)'
      BY <2>1, <2>2, <3>2 DEF WholeFor
    <3>4. \A d \in Clients \ {c} : object'[d] = object[d]
      BY <2>1 DEF BankInv, BankTypeOK
    <3> QED
      BY <1>0, <2>1, <2>2, <3>2, <3>3, <3>4, QuietStep DEF Undisturbed
  <2> QED BY <2>3, <2>4, <2>5 DEF BankInv
<1>2. CASE Life!Map(c)
  <2>1. /\ clientPc[c] = "map" /\ UNCHANGED <<bankLock, target>>
        /\ target[c] = {} /\ object[c] \in Objects
    BY <1>2 DEF Life!Map, Life!bankVars, BankInv, Opened, BankTypeOK
  <2> PICK o \in Objects : o = object[c]
    BY <2>1
  <2>2. CASE length[o] = -1
    <3>1. /\ clientPc' = [clientPc EXCEPT ![c] = "open"]
          /\ object' = [object EXCEPT ![c] = None]
          /\ UNCHANGED <<mapped, early>>
      BY <1>2, <2>2 DEF Life!Map, Life!Goto, Life!NoCells
    <3>2. BankTypeOK' /\ FlagsTypeOK'
      BY <1>0, <2>1, <3>1 DEF BankInv, BankTypeOK, FlagsTypeOK
    <3>3. Opened'
      BY <1>0, <2>1, <3>1 DEF BankInv, Opened, BankTypeOK
    <3>4. object'[c] = None /\ \A d \in Clients \ {c} : object'[d] = object[d]
      BY <3>1 DEF BankInv, BankTypeOK
    <3>5. Excludes' /\ OpenedOnce'
      BY <1>0, <2>1, <3>1, <3>4, QuietStep DEF Undisturbed
    <3> QED BY <3>2, <3>3, <3>5 DEF BankInv
  <2>3. CASE length[o] # -1
    <3>1. /\ clientPc' = [clientPc EXCEPT ![c] = "idle"]
          /\ mapped' = [mapped EXCEPT ![c] = length[o]]
          /\ early' = [early EXCEPT ![o] = @ \/ ~Life!Whole(o)]
          /\ UNCHANGED object
      BY <1>2, <2>3 DEF Life!Map, Life!Goto, Life!NoCells
    <3>2. BankTypeOK'
      BY <1>0, <2>1, <3>1 DEF BankInv, BankTypeOK
    <3>3. /\ FlagsTypeOK'
          /\ ~early'[o] => Life!Whole(o) /\ ~early[o]
          /\ \A q \in Objects : ~early'[q] => ~early[q]
      <4> QED BY <1>0, <2>1, <3>1, Zenon DEF BankInv, FlagsTypeOK
    <3>4. Opened'
      BY <1>0, <2>1, <3>1 DEF BankInv, Opened, BankTypeOK
    <3>5. /\ mapped'[c] = length[o]
          /\ \A d \in Clients \ {c} : mapped'[d] = mapped[d]
      BY <3>1 DEF BankInv, BankTypeOK
    <3>6. ~early'[o] => WholeFor(o, c)'
      <4>1. Finished(o)' <=> Finished(o)
        BY <1>0 DEF Finished
      <4> QED
        BY <1>0, <2>1, <3>1, <3>3, <3>5, <4>1, WholeMeans DEF BankInv, WholeFor
    <3>7. Excludes' /\ OpenedOnce'
      <4>1. \A q \in Objects : Undisturbed(q)' => Undisturbed(q)
        BY <1>0, <3>3 DEF Undisturbed
      <4>2. \A q \in Objects : Undisturbed(q)' /\ object'[c] = q => WholeFor(q, c)'
        BY <3>1, <3>6 DEF Undisturbed
      <4>3. \A q \in Objects, i \in Inits :
              OpenedOnceBy(q, i) /\ OnceBy(q, i) /\ object'[c] = q =>
                /\ HasMapped(c)' => length[q] = SizeOf[i] /\ mapped'[c] = SizeOf[i]
                /\ \A k \in target'[c] : k < SizeOf[i]
        BY <2>1, <2>3, <3>1, <3>5 DEF OnceBy
      <4> QED BY <1>0, <2>1, <3>1, <3>5, <4>1, <4>2, <4>3, QuietStep
    <3> QED BY <3>2, <3>3, <3>4, <3>7 DEF BankInv
  <2> QED BY <2>2, <2>3
<1>3. CASE Life!Transfer(c) \/ Life!Sweep(c)
  <2>1. PICK t \in SUBSET Nat :
          /\ target' = [target EXCEPT ![c] = t]
          /\ \A k \in t : k < size[object[c]]
    <3>1. CASE Life!Sweep(c)
      <4>1. {} \in SUBSET Nat /\ \A k \in {} : k < size[object[c]]
        OBVIOUS
      <4> QED BY <3>1, <4>1 DEF Life!Sweep
    <3>2. CASE Life!Transfer(c)
      <4>1. PICK k \in 0 .. size[object[c]] - 1 : target' = [target EXCEPT ![c] = {k}]
        BY <3>2 DEF Life!Transfer
      <4>2. size[object[c]] \in Nat
        BY <3>2 DEF Life!Transfer, Life!Goto, BankInv, Opened, BankTypeOK
      <4>3. {k} \in SUBSET Nat /\ \A j \in {k} : j < size[object[c]]
        BY <4>2
      <4> QED BY <4>1, <4>3
    <3> QED BY <1>3, <3>1, <3>2
  <2>2. /\ clientPc[c] = "idle" /\ clientPc' = [clientPc EXCEPT ![c] = "lock"]
        /\ UNCHANGED <<bankLock, object, mapped, early>>
    BY <1>3 DEF Life!Transfer, Life!Sweep, Life!Goto, Life!bankVars
  <2>3. BankTypeOK' /\ FlagsTypeOK'
    BY <1>0, <2>1, <2>2 DEF BankInv, BankTypeOK, FlagsTypeOK
  <2>4. Opened'
    BY <1>0, <2>1, <2>2 DEF BankInv, Opened, BankTypeOK
  <2>5. target'[c] = t /\ \A d \in Clients \ {c} : target'[d] = target[d]
    BY <2>1 DEF BankInv, BankTypeOK
  <2>6. HasMapped(c)
    BY <2>2 DEF HasMapped
  <2>7. \A o \in Objects : Undisturbed(o)' => Undisturbed(o)
    BY <1>0, <2>2 DEF Undisturbed
  <2>8. ASSUME NEW o \in Objects, Undisturbed(o)', object'[c] = o
        PROVE  WholeFor(o, c)'
    <3>1. WholeFor(o, c)
      BY <2>2, <2>7, <2>8 DEF BankInv, Excludes
    <3>2. Finished(o)' <=> Finished(o)
      BY <1>0 DEF Finished
    <3> QED BY <1>0, <2>1, <2>2, <2>5, <2>6, <2>8, <3>1, <3>2 DEF WholeFor
  <2>9. ASSUME NEW o \in Objects, NEW i \in Inits, OpenedOnceBy(o, i), OnceBy(o, i),
               object'[c] = o
        PROVE  /\ HasMapped(c)' => length[o] = SizeOf[i] /\ mapped'[c] = SizeOf[i]
               /\ \A k \in target'[c] : k < SizeOf[i]
    <3>1. size[o] \in {0, SizeOf[i]} /\ SizeOf[i] \in Nat
      BY <2>9, SmallAssumption DEF OnceBy, SmallAssumption
    <3>2. \A k \in t : k < SizeOf[i]
      BY <2>1, <2>2, <2>9, <3>1
    <3> QED BY <2>2, <2>5, <2>6, <2>9, <3>2 DEF OnceBy
  <2> QED
    BY <1>0, <2>2, <2>3, <2>4, <2>5, <2>7, <2>8, <2>9, QuietStep DEF BankInv
<1>4. CASE Life!Exit(c)
  <2>1. /\ clientPc[c] = "idle" /\ clientPc' = [clientPc EXCEPT ![c] = "open"]
        /\ object' = [object EXCEPT ![c] = None]
        /\ UNCHANGED <<bankLock, mapped, target, early>>
    BY <1>4 DEF Life!Exit, Life!Goto, Life!bankVars
  <2>2. BankTypeOK' /\ FlagsTypeOK'
    BY <1>0, <2>1 DEF BankInv, BankTypeOK, FlagsTypeOK
  <2>3. Opened'
    BY <1>0, <2>1 DEF BankInv, Opened, BankTypeOK
  <2>4. object'[c] = None /\ \A d \in Clients \ {c} : object'[d] = object[d]
    BY <2>1 DEF BankInv, BankTypeOK
  <2>5. Excludes' /\ OpenedOnce'
    BY <1>0, <2>1, <2>4, QuietStep DEF Undisturbed
  <2> QED BY <2>2, <2>3, <2>5 DEF BankInv
<1>5. CASE Life!LockBank(c)
  <2> PICK o : o = object[c]
    OBVIOUS
  <2>1. /\ clientPc[c] = "lock" /\ o \in Objects /\ HasMapped(c)
        /\ UNCHANGED <<object, mapped, early>>
    BY <1>5 DEF Life!LockBank, BankInv, Opened, BankTypeOK, HasMapped
  <2>2. PICK l \in {"in", "asleep", "asleepAlone"} :
          /\ clientPc' = [clientPc EXCEPT ![c] = l]
          /\ l = "in" => bankLock[o] = "free"
          /\ l = "asleep" => bankLock[o] = "taken"
          /\ l = "asleepAlone" => ~mutexMade[o]
          /\ bankLock' = [bankLock EXCEPT ![o] = "taken"]
    <3>1. CASE bankLock[o] = "free"
      BY <1>5, <3>1 DEF Life!LockBank, Life!Goto
    <3>2. CASE bankLock[o] # "free"
      <4>1. bankLock[o] = "taken"
        BY <2>1, <3>2 DEF BankInv, BankTypeOK
      <4>2. bankLock' = [bankLock EXCEPT ![o] = "taken"]
        BY <1>5, <3>2, <4>1 DEF Life!LockBank, BankInv, BankTypeOK
      <4>3. \/ mutexMade[o] /\ clientPc' = [clientPc EXCEPT ![c] = "asleep"]
            \/ ~mutexMade[o] /\ clientPc' = [clientPc EXCEPT ![c] = "asleepAlone"]
        BY <1>5, <3>2, Zenon DEF Life!LockBank, Life!Goto
      <4> QED BY <4>1, <4>2, <4>3
    <3> QED BY <3>1, <3>2
  <2>3. PICK t \in SUBSET Nat :
          /\ target' = [target EXCEPT ![c] = t]
          /\ \A k \in t : k \in target[c] \/ k < size[o]
    <3>1. CASE target[c] = {} /\ bankLock[o] = "free"
      <4>1. target' = [target EXCEPT ![c] = 0 .. size[o] - 1]
        BY <1>5, <3>1 DEF Life!LockBank
      <4>2. size[o] \in Nat
        BY <2>1 DEF BankInv, BankTypeOK
      <4>3. /\ 0 .. size[o] - 1 \in SUBSET Nat
            /\ \A k \in 0 .. size[o] - 1 : k < size[o]
        BY <4>2
      <4> QED BY <4>1, <4>3
    <3>2. CASE ~(target[c] = {} /\ bankLock[o] = "free")
      <4>1. target' = target
        BY <1>5, <3>2 DEF Life!LockBank
      <4> QED BY <4>1 DEF BankInv, BankTypeOK
    <3> QED BY <3>1, <3>2
  <2>4. BankTypeOK'
    BY <1>0, <2>1, <2>2, <2>3 DEF BankInv, BankTypeOK
  <2>5. FlagsTypeOK'
    BY <1>0, <2>1 DEF BankInv, FlagsTypeOK
  <2>6. Opened'
    BY <1>0, <2>1, <2>2, <2>3 DEF BankInv, Opened, BankTypeOK
  <2>7. /\ clientPc'[c] = l /\ target'[c] = t /\ bankLock'[o] = "taken"
        /\ \A d \in Clients \ {c} : clientPc'[d] = clientPc[d] /\ target'[d] = target[d]
        /\ \A q \in Objects \ {o} : bankLock'[q] = bankLock[q]
    BY <2>1, <2>2, <2>3 DEF BankInv, BankTypeOK
  <2>8. Excludes'
    <3> SUFFICES ASSUME NEW q \in Objects, Undisturbed(q),
                        NEW d \in Clients, object[d] = q
                 PROVE  WholeFor(q, d)' /\ LockedBy(q, d)'
      BY <1>0, <2>1 DEF Excludes, Undisturbed
    <3>1. WholeFor(q, d) /\ LockedBy(q, d)
      BY DEF BankInv, Excludes
    <3>2. Finished(q)' <=> Finished(q)
      BY <1>0 DEF Finished
    <3>3. WholeFor(q, d)'
      <4>1. CASE d = c
        BY <1>0, <2>1, <2>3, <2>7, <3>1, <3>2, <4>1 DEF WholeFor
      <4>2. CASE d # c
        BY <1>0, <2>1, <2>7, <3>1, <3>2, <4>2 DEF WholeFor, HasMapped
      <4> QED BY <4>1, <4>2
    <3>4. LockedBy(q, d)'
      <4>1. CASE q = o
        <5>1. l # "asleepAlone"
          <6>1. WholeFor(o, c)
            BY <2>1, <4>1 DEF BankInv, Excludes
          <6> QED BY <2>1, <2>2, <6>1 DEF WholeFor
        <5>2. l = "in" => \A e \in Clients : object[e] = q =>
                            clientPc[e] \notin {"in", "asleep"}
          BY <2>2, <4>1 DEF BankInv, Excludes, LockedBy
        <5> QED BY <2>1, <2>7, <3>1, <4>1, <5>1, <5>2 DEF LockedBy
      <4>2. CASE q # o
        BY <2>1, <2>7, <3>1, <4>2 DEF LockedBy
      <4> QED BY <4>1, <4>2
    <3> QED BY <3>3, <3>4
  <2>9. OpenedOnce'
    <3>1. ASSUME NEW q \in Objects, NEW i \in Inits, OpenedOnceBy(q, i)
          PROVE  OnceBy(q, i)'
      <4>1. OnceBy(q, i)
        BY <3>1 DEF BankInv, OpenedOnce
      <4>2. ASSUME NEW d \in Clients, object[d] = q
            PROVE  /\ HasMapped(d)' => length[q] = SizeOf[i] /\ mapped[d] = SizeOf[i]
                   /\ \A k \in target'[d] : k < SizeOf[i]
        <5>1. CASE d = c
          <6>1. size[q] \in {0, SizeOf[i]} /\ SizeOf[i] \in Nat
            BY <4>1, SmallAssumption DEF OnceBy, SmallAssumption
          <6>2. ASSUME NEW k \in t PROVE k < SizeOf[i]
            <7>1. q = o
              BY <4>2, <5>1
            <7>2. k \in Nat /\ (k \in target[c] \/ k < size[q])
              BY <2>3, <7>1
            <7>3. PICK x \in Nat : x = SizeOf[i] /\ size[q] \in {0, x}
              BY <6>1
            <7>4. k < size[q] => k < x
              BY <7>2, <7>3
            <7>5. k \in target[c] => k < SizeOf[i]
              BY <4>1, <4>2, <5>1 DEF OnceBy
            <7> QED BY <7>2, <7>3, <7>4, <7>5
          <6> QED BY <2>1, <2>7, <4>1, <4>2, <5>1, <6>2 DEF OnceBy
        <5>2. CASE d # c
          BY <2>7, <4>1, <4>2, <5>2 DEF OnceBy, HasMapped
        <5> QED BY <5>1, <5>2
      <4> QED BY <1>0, <2>1, <4>1, <4>2 DEF OnceBy
    <3> QED BY <1>0, <3>1 DEF BankInv, OpenedOnce, OpenedOnceBy
  <2> QED BY <2>4, <2>5, <2>6, <2>8, <2>9 DEF BankInv
<1>6. CASE Life!UnlockBank(c)
  <2> PICK o : o = object[c]
    OBVIOUS
  <2>1. /\ clientPc[c] = "in" /\ o \in Objects /\ HasMapped(c)
        /\ bankLock' = [bankLock EXCEPT ![o] = "free"]
        /\ target' = [target EXCEPT ![c] = {}]
        /\ UNCHANGED <<object, mapped, early>>
    BY <1>6 DEF Life!UnlockBank, BankInv, Opened, BankTypeOK, HasMapped
  <2>2. clientPc' = [d \in Clients |->
          IF d = c THEN "idle"
          ELSE IF mutexMade[o] /\ object[d] = o /\ clientPc[d] = "asleep" THEN "lock"
          ELSE clientPc[d]]
    BY <1>6 DEF Life!UnlockBank
  <2>3. BankTypeOK'
    BY <1>0, <2>1, <2>2 DEF BankInv, BankTypeOK
  <2>4. FlagsTypeOK'
    BY <1>0, <2>1 DEF BankInv, FlagsTypeOK
  <2>5. /\ clientPc'[c] = "idle" /\ target'[c] = {} /\ bankLock'[o] = "free"
        /\ \A d \in Clients \ {c} :
             /\ target'[d] = target[d]
             /\ \/ clientPc'[d] = clientPc[d]
                   /\ ~(mutexMade[o] /\ object[d] = o /\ clientPc[d] = "asleep")
                \/ clientPc[d] = "asleep" /\ clientPc'[d] = "lock" /\ object[d] = o
        /\ \A q \in Objects \ {o} : bankLock'[q] = bankLock[q]
    BY <2>1, <2>2 DEF BankInv, BankTypeOK
  <2>6. Opened'
    BY <1>0, <2>1, <2>5 DEF BankInv, Opened, BankTypeOK
  <2>7. Excludes'
    <3> SUFFICES ASSUME NEW q \in Objects, Undisturbed(q),
                        NEW d \in Clients, object[d] = q
                 PROVE  WholeFor(q, d)' /\ LockedBy(q, d)'
      BY <1>0, <2>1 DEF Excludes, Undisturbed
    <3>1. WholeFor(q, d) /\ LockedBy(q, d)
      BY DEF BankInv, Excludes
    <3>2. Finished(q)' <=> Finished(q)
      BY <1>0 DEF Finished
    <3>3. HasMapped(d)' => HasMapped(d)
      BY <2>1, <2>5 DEF HasMapped
    <3>4. WholeFor(q, d)'
      BY <1>0, <2>1, <2>5, <3>1, <3>2, <3>3 DEF WholeFor
    <3>5. LockedBy(q, d)'
      <4>1. CASE q = o
        <5>1. mutexMade[o] /\ LockedBy(o, c)
          BY <2>1, <4>1 DEF BankInv, Excludes, WholeFor
        <5>2. \A e \in Clients : object[e] = o =>
                clientPc'[e] \notin {"in", "asleep"}
          BY <2>1, <2>5, <5>1 DEF LockedBy
        <5>3. clientPc'[d] # "asleepAlone"
          BY <2>5, <3>1 DEF LockedBy
        <5> QED BY <2>1, <4>1, <5>2, <5>3 DEF LockedBy
      <4>2. CASE q # o
        BY <2>1, <2>5, <3>1, <4>2 DEF LockedBy
      <4> QED BY <4>1, <4>2
    <3> QED BY <3>4, <3>5
  <2>8. OpenedOnce'
    <3>1. ASSUME NEW q \in Objects, NEW i \in Inits, OpenedOnceBy(q, i)
          PROVE  OnceBy(q, i)'
      <4>1. OnceBy(q, i)
        BY <3>1 DEF BankInv, OpenedOnce
      <4>2. \A d \in Clients : /\ HasMapped(d)' => HasMapped(d)
                               /\ target'[d] \subseteq target[d]
        BY <2>1, <2>5 DEF HasMapped
      <4> QED BY <1>0, <2>1, <4>1, <4>2 DEF OnceBy
    <3> QED BY <1>0, <3>1 DEF BankInv, OpenedOnce, OpenedOnceBy
  <2> QED BY <2>3, <2>4, <2>6, <2>7, <2>8 DEF BankInv
<1> QED BY <1>1, <1>2, <1>3, <1>4, <1>5, <1>6 DEF Life!ClientStep

\* The invariant of the life cycle.
LEMMA BankInvariant == SharedSpec => []BankInv
<1>1. BankInv /\ [Life!Next]_(Life!vars) => BankInv'
  <2> SUFFICES ASSUME BankInv, [Life!Next]_(Life!vars) PROVE BankInv'
    OBVIOUS
  <2>1. CASE UNCHANGED Life!vars
    BY <2>1 DEF Life!vars, Life!bankVars, Life!initVars, Life!clientVars, BankInv,
       BankTypeOK, FlagsTypeOK, Opened, Excludes, WholeFor, LockedBy, Undisturbed,
       Finished, HasMapped, OpenedOnce, OpenedOnceBy, OnceBy
  <2>2. CASE Life!Deinit
    <3>1. /\ bank_shm' = None
          /\ UNCHANGED <<length, size, bankLock, mutexMade, cellsMade, initPc,
                         initObj, clientPc, object, mapped, target, early, again>>
      BY <2>2 DEF Life!Deinit, Life!bankVars, Life!initVars, Life!clientVars
    <3> QED
      BY <3>1 DEF BankInv, BankTypeOK, FlagsTypeOK, Opened, Excludes, WholeFor,
         LockedBy, Undisturbed, Finished, HasMapped, OpenedOnce, OpenedOnceBy, OnceBy
  <2> QED BY <2>1, <2>2, InitStepKeeps, ClientStepKeeps DEF Life!Next
<1> QED BY <1>1, BankInit, BankProgram, PTL DEF Life!Spec

\* An undisturbed bank keeps its clients out of each other's sections, with
\* any number of runs of init and of clients.
THEOREM UndisturbedBankExcludes == SharedSpec => []BankExcludes
<1>1. BankInv => BankExcludes
  <2> SUFFICES ASSUME BankInv, NEW o \in Objects, ~early[o], ~again[o]
               PROVE  /\ \A c, d \in Life!In(o) : c = d
                      /\ \A c \in Life!In(o) : \A k \in target[c] : k < cellsMade[o]
                      /\ bankLock[o] = "free" =>
                           \A c \in Life!Attached(o) :
                             clientPc[c] \notin {"asleep", "asleepAlone"}
    BY Zenon DEF BankExcludes, Life!BankExcludes
  <2>1. \A c \in Clients : object[c] = o => WholeFor(o, c) /\ LockedBy(o, c)
    BY DEF BankInv, Excludes, Undisturbed
  <2>2. \A c, d \in Life!In(o) : c = d
    BY <2>1 DEF Life!In, Life!Attached, LockedBy
  <2>4. \A c \in Life!In(o) : \A k \in target[c] : k < cellsMade[o]
    BY <2>1 DEF Life!In, Life!Attached, WholeFor, HasMapped
  <2>5. \A c \in Life!Attached(o) : bankLock[o] = "free" =>
          clientPc[c] \notin {"asleep", "asleepAlone"}
    BY <2>1 DEF Life!Attached, LockedBy
  <2> QED BY <2>2, <2>4, <2>5
<1> QED BY <1>1, BankInvariant, PTL

\* No client of an undisturbed bank, or of an object that init has opened
\* once, touches memory that is not there.
THEOREM NobodyFaults == SharedSpec => []NoFault
<1>1. BankInv => NoFault
  <2> SUFFICES ASSUME BankInv, NEW o \in Objects,
                      \/ Undisturbed(o)
                      \/ \E i \in Inits : {j \in Inits : initObj[j] = o} = {i},
                      NEW c \in Life!In(o), NEW k \in target[c]
               PROVE  k < mapped[c] /\ k < length[o]
    BY Zenon DEF NoFault, Life!NoFault, Undisturbed
  <2>1. c \in Clients /\ object[c] = o /\ HasMapped(c)
    BY DEF Life!In, Life!Attached, HasMapped
  <2>2. CASE Undisturbed(o)
    BY <2>1, <2>2 DEF BankInv, Excludes, WholeFor
  <2>3. CASE \E i \in Inits : {j \in Inits : initObj[j] = o} = {i}
    <3>2. PICK i \in Inits : {j \in Inits : initObj[j] = o} = {i}
      BY <2>3
    <3>3. i \in Inits /\ OpenedOnceBy(o, i)
      BY <3>2 DEF OpenedOnceBy
    <3>4. OnceBy(o, i)
      BY <3>3 DEF BankInv, OpenedOnce
    <3> QED BY <2>1, <3>4 DEF OnceBy
  <2> QED BY <2>2, <2>3
<1> QED BY <1>1, BankInvariant, PTL

-----------------------------------------------------------------------------
(* SharedArray.                                                            *)

\* What runs of it is SharedArray.
LEMMA ArrayProgram == SharedSpec => Shared!Spec
<1>1. SharedInit => Shared!Init
  BY DEF SharedInit
<1>2. [SharedNext]_allVars => [Shared!Next]_(Shared!vars)
  BY DEF SharedNext, allVars, arrayVars, Shared!vars, Shared!objects, Shared!history
<1> QED BY <1>1, <1>2, PTL DEF SharedSpec, Shared!Spec

ArrayTypeOK ==
  /\ data \in [Shared!Indices -> Int]
  /\ processPc \in
       [Shared!Processes -> {"start", "wait", "post", "read", "write", "show"}]
  /\ at \in [Shared!Processes -> Shared!Indices]
  /\ element \in [Shared!Processes -> Int]
  /\ shown \in [Shared!Processes -> [Shared!Indices -> Int]]
  /\ made \in [Shared!Indices -> Nat] /\ met \in [Shared!Indices -> BOOLEAN]

\* What a writer has read is no more than the increments, and what is there if
\* no other writer came in between.
ElementRead ==
  \A p \in Shared!Processes :
    /\ processPc[p] \in {"read", "write"} => p \in Writers
    /\ processPc[p] = "write" =>
         /\ element[p] <= made[at[p]]
         /\ ~met[at[p]] => element[p] = data[at[p]]

ArrayInv == ArrayTypeOK /\ ElementRead /\ Shared!CountsIncrements

\* Only a write changes an element, by one from what its writer read.
LEMMA ArrayStep ==
  ASSUME ArrayInv, [Shared!Next]_(Shared!vars) PROVE ArrayInv'
<1>0. /\ 0 \in Shared!Indices
      /\ \A k \in Shared!Indices : (k + 1) % ArraySize \in Shared!Indices
  BY SmallAssumption DEF SmallAssumption, Shared!Indices
<1>1. CASE UNCHANGED Shared!vars
  BY <1>1 DEF ArrayInv, ArrayTypeOK, ElementRead, Shared!vars, Shared!objects,
     Shared!history, Shared!CountsIncrements
<1>2. ASSUME NEW p \in Shared!Processes,
             Shared!Construct(p) \/ Shared!Wait(p) \/ Shared!Post(p) \/ Shared!Kill(p)
      PROVE  ArrayInv'
  <2>1. UNCHANGED <<data, element, shown, made, met>>
    BY <1>2 DEF Shared!Construct, Shared!Wait, Shared!Post, Shared!Kill,
       Shared!objects, Shared!history
  <2>2. PICK l \in {"start", "wait", "post", "read", "show"} :
          /\ processPc' = [processPc EXCEPT ![p] = l]
          /\ l = "read" => p \in Writers
    BY <1>2 DEF Shared!Construct, Shared!Wait, Shared!Post, Shared!Kill, Shared!Goto
  <2>3. at' \in [Shared!Processes -> Shared!Indices]
        /\ \A q \in Shared!Processes : q # p => at'[q] = at[q]
    BY <1>0, <1>2 DEF Shared!Construct, Shared!Wait, Shared!Post, Shared!Kill,
       Shared!objects, ArrayInv, ArrayTypeOK
  <2> QED
    BY <2>1, <2>2, <2>3 DEF ArrayInv, ArrayTypeOK, ElementRead,
       Shared!CountsIncrements
<1>3. ASSUME NEW p \in Shared!Processes, Shared!Read(p)
      PROVE  ArrayInv'
  BY <1>3 DEF ArrayInv, ArrayTypeOK, ElementRead, Shared!CountsIncrements,
     Shared!Read, Shared!Goto, Shared!objects, Shared!history
<1>4. ASSUME NEW p \in Shared!Processes, Shared!Write(p)
      PROVE  ArrayInv'
  <2> DEFINE k == at[p]
  <2>1. /\ p \in Writers /\ processPc[p] = "write"
        /\ k \in Shared!Indices
        /\ processPc' = [processPc EXCEPT ![p] = "wait"]
        /\ data' = [data EXCEPT ![k] = element[p] + 1]
        /\ made' = [made EXCEPT ![k] = @ + 1]
        /\ at' = [at EXCEPT ![p] = (@ + 1) % ArraySize]
        /\ UNCHANGED <<element, shown>>
    BY <1>4 DEF Shared!Write, Shared!Goto, Shared!Advance, ArrayInv, ArrayTypeOK,
       ElementRead
  <2>2. /\ met' \in [Shared!Indices -> BOOLEAN]
        /\ \A j \in Shared!Indices \ {k} : met'[j] = met[j]
        /\ met[k] => met'[k]
        /\ (\E q \in Writers \ {p} : processPc[q] = "write" /\ at[q] = k) => met'[k]
    <3>1. met' = [met EXCEPT ![k] = @ \/ \E q \in Writers \ {p} :
                                   processPc[q] = "write" /\ at[q] = k]
      BY <1>4 DEF Shared!Write
    <3> HIDE DEF k
    <3> QED BY <2>1, <3>1, Zenon DEF ArrayInv, ArrayTypeOK
  <2>3. ArrayTypeOK'
    <3>1. element[p] + 1 \in Int /\ made[k] + 1 \in Nat
      BY <2>1 DEF ArrayInv, ArrayTypeOK
    <3> HIDE DEF k
    <3> QED BY <1>0, <2>1, <2>2, <3>1 DEF ArrayInv, ArrayTypeOK
  <2>4. ASSUME NEW q \in Shared!Processes
        PROVE  /\ processPc'[q] \in {"read", "write"} => q \in Writers
               /\ processPc'[q] = "write" =>
                    /\ element[q] <= made'[at'[q]]
                    /\ ~met'[at'[q]] => element[q] = data'[at'[q]]
    <3>1. CASE q = p
      BY <2>1, <3>1 DEF ArrayInv, ArrayTypeOK
    <3>2. CASE q # p
      <4>1. processPc'[q] = processPc[q] /\ at'[q] = at[q]
        BY <2>1, <3>2 DEF ArrayInv, ArrayTypeOK
      <4>2. CASE at[q] = k
        BY <2>1, <2>2, <3>2, <4>1, <4>2 DEF ArrayInv, ArrayTypeOK, ElementRead
      <4>3. CASE at[q] # k
        BY <2>1, <2>2, <3>2, <4>1, <4>3 DEF ArrayInv, ArrayTypeOK, ElementRead
      <4> QED BY <4>2, <4>3
    <3> QED BY <3>1, <3>2
  <2>5. ElementRead'
    BY <2>1, <2>4 DEF ElementRead
  <2>6. Shared!CountsIncrements'
    <3>1. /\ data'[k] = element[p] + 1 /\ made'[k] = made[k] + 1
          /\ element[p] \in Int /\ element[p] <= made[k]
          /\ ~met[k] => element[p] = data[k]
      BY <2>1 DEF ArrayInv, ArrayTypeOK, ElementRead
    <3>2. \A j \in Shared!Indices \ {k} : data'[j] = data[j] /\ made'[j] = made[j]
      BY <2>1 DEF ArrayInv, ArrayTypeOK
    <3>3. \A j \in Shared!Indices, r \in Readers : shown[r][j] \in Int
      BY DEF ArrayInv, ArrayTypeOK, Shared!Processes
    <3> QED
      BY <2>1, <2>2, <3>1, <3>2, <3>3 DEF ArrayInv, ArrayTypeOK,
         Shared!CountsIncrements
  <2> QED BY <2>3, <2>5, <2>6 DEF ArrayInv
<1>5. ASSUME NEW p \in Shared!Processes, Shared!Show(p)
      PROVE  ArrayInv'
  BY <1>0, <1>5 DEF ArrayInv, ArrayTypeOK, ElementRead, Shared!CountsIncrements,
     Shared!Show, Shared!Goto, Shared!Advance, Shared!objects, Shared!history,
     Shared!Processes
<1> QED BY <1>1, <1>2, <1>3, <1>4, <1>5 DEF Shared!Next, Shared!Step

\* An element counts its increments unless two of them meet, for an array of
\* any size, any number of writers and readers, and however often they are
\* killed and start again.
THEOREM IncrementsCounted == SharedSpec => []CountsIncrements
<1>1. Shared!Init => ArrayInv
  BY SmallAssumption DEF Shared!Init, ArrayInv, ArrayTypeOK, ElementRead,
     Shared!CountsIncrements, Shared!Indices, Shared!Processes
<1>2. ArrayInv /\ [Shared!Next]_(Shared!vars) => ArrayInv'
  BY ArrayStep
<1>3. ArrayInv => CountsIncrements
  BY DEF ArrayInv, CountsIncrements
<1> QED BY <1>1, <1>2, <1>3, ArrayProgram, PTL DEF Shared!Spec

-----------------------------------------------------------------------------
(* Factors, and the primes of Sieve.                                       *)

\* A factor but 1 and the number itself.
Multiple(n, d) == \E k \in Nat : k >= 2 /\ n = d * k
Composite(n)   == \E d \in Nat : d >= 2 /\ Multiple(n, d)

\* A prime has no two factors.
LEMMA PrimeNotComposite ==
  ASSUME NEW n \in Nat
  PROVE  Primes!Prime(n) <=> n > 1 /\ ~Composite(n)
<1>1. ASSUME NEW d \in Nat, d >= 2, NEW k \in Nat, k >= 2, n = d * k
      PROVE  d \in 2 .. n - 1 /\ n % d = 0
  <2>1. d * 2 <= d * k
    BY <1>1, TimesMonotone
  <2>2. n % d = 0
    BY <1>1, FactorDivides
  <2> QED BY <1>1, <2>1, <2>2
<1>2. ASSUME NEW d \in 2 .. n - 1, n % d = 0 PROVE Composite(n)
  <2>1. PICK k \in Nat : n = d * k
    BY <1>2, FactorDivides
  <2>2. k >= 2
    <3>1. k <= 1 => d * k <= d * 1
      BY TimesMonotone
    <3> QED BY <2>1, <3>1
  <2> QED BY <2>1, <2>2 DEF Composite, Multiple
<1> QED BY <1>1, <1>2 DEF Primes!Prime, Composite, Multiple

\* The least factor is a prime no greater than the root.
LEMMA LeastFactor ==
  ASSUME NEW n \in Nat, Composite(n)
  PROVE  \E d \in Nat : /\ d >= 2 /\ ~Composite(d)
                        /\ Multiple(n, d) /\ d * d <= n
<1> DEFINE S == {d \in Nat : d >= 2 /\ Multiple(n, d)}
<1>1. S # {}
  BY DEF Composite
<1>2. PICK d \in S : \A x \in S : d <= x
  BY <1>1, LeastElement
<1>3. PICK k \in Nat : k >= 2 /\ n = d * k
  BY <1>2 DEF Multiple
<1>4. d * d <= n
  <2>1. n = k * d
    BY <1>2, <1>3
  <2>2. k \in S
    BY <1>2, <1>3, <2>1 DEF Multiple
  <2> QED BY <1>2, <1>3, <2>2, TimesMonotone
<1>5. ~Composite(d)
  <2> SUFFICES ASSUME NEW a \in Nat, a >= 2, NEW b \in Nat, b >= 2, d = a * b
               PROVE  FALSE
    BY DEF Composite, Multiple
  <2>1. n = a * (b * k)
    BY <1>3
  <2>2. b * k >= 2 /\ b * k \in Nat
    <3>1. b * 2 <= b * k
      BY <1>3, TimesMonotone
    <3> QED BY <1>3, <3>1
  <2>3. a \in S
    BY <2>1, <2>2 DEF Multiple
  <2>4. a < d
    <3>1. a * 2 <= a * b
      BY TimesMonotone
    <3> QED BY <3>1
  <2> QED BY <1>2, <2>3, <2>4
<1> QED BY <1>2, <1>4, <1>5

\* What runs of it is Sieve.
LEMMA SieveProgram == SharedSpec => Primes!Spec
<1>1. SharedInit => Primes!Init
  BY DEF SharedInit
<1>2. [SharedNext]_allVars => [Primes!Next]_(Primes!vars)
  BY DEF SharedNext, allVars, sieveVars, Primes!vars, Primes!history
<1> QED BY <1>1, <1>2, PTL DEF SharedSpec, Primes!Spec

SieveTypeOK ==
  /\ name \in Objects \cup {None}
  /\ marked \in [Objects -> SUBSET Nat]
  /\ sievePc \in [Primes!Processes -> {"open", "loop", "mark", "done"}]
  /\ sieveObject \in [Primes!Processes -> Objects \cup {None}]
  /\ row \in [Primes!Processes -> Nat] /\ column \in [Primes!Processes -> Nat]

SieveFlagsOK ==
  whole \in [Objects -> BOOLEAN] /\ clean \in [Setters -> BOOLEAN]

\* Where the processes are: only a set marks, from 2 on, and the numbers it
\* marks are multiples of its row.
SievePlaces ==
  \A p \in Primes!Processes :
    /\ sievePc[p] \in {"loop", "mark"} => sieveObject[p] \in Objects
    /\ sievePc[p] = "mark" => p \in Setters
    /\ p \in Setters /\ sievePc[p] \in {"loop", "mark"} => row[p] >= 2
    /\ sievePc[p] = "mark" =>
         column[p] >= SHM_SIZE \/ Multiple(column[p], row[p])

MarkedComposite ==
  \A o \in Objects : \A n \in marked[o] : Composite(n)

\* No init clears an object whose set is clean, or that is whole.
NoClear(o) == \A p \in Inits : sieveObject[p] = o => sievePc[p] = "done"
Kept ==
  /\ \A s \in Setters, o \in Objects : clean[s] /\ sieveObject[s] = o => NoClear(o)
  /\ \A o \in Objects : whole[o] => NoClear(o)

\* M has the multiples of d below a number.
Struck(M, d, to) ==
  \A k \in Nat : k >= 2 /\ d * k < to /\ d * k < SHM_SIZE => d * k \in M

\* What a set has done when it comes to row m.
Sieved(M, m) ==
  \A d \in Nat : 2 <= d /\ d < m => d \in M \/ Struck(M, d, SHM_SIZE)

SetSieves(s, o) ==
  /\ sievePc[s] \in {"loop", "mark"} => Sieved(marked[o], row[s])
  /\ sievePc[s] = "mark" =>
       row[s] \in marked[o] \/ Struck(marked[o], row[s], column[s])

SetsSieve ==
  /\ \A s \in Setters, o \in Objects :
       clean[s] /\ sieveObject[s] = o => SetSieves(s, o)
  /\ \A o \in Objects : whole[o] =>
       \E m \in Nat : m * m >= SHM_SIZE /\ Sieved(marked[o], m)

SieveInv == /\ SieveTypeOK /\ SieveFlagsOK /\ SievePlaces /\ MarkedComposite
            /\ Kept /\ SetsSieve

\* More marks undo nothing.
LEMMA MoreMarks ==
  ASSUME NEW M, NEW N, M \subseteq N
  PROVE  /\ \A d, to : Struck(M, d, to) => Struck(N, d, to)
         /\ \A m : Sieved(M, m) => Sieved(N, m)
  BY DEF Struck, Sieved

\* The invariant says that check is right: a composite number has a factor that
\* the set came to.
LEMMA SieveRight == SieveInv => ChecksRight
<1> SUFFICES ASSUME SieveInv, NEW o \in Objects, NEW n \in Primes!Numbers
             PROVE  /\ n \in marked[o] => ~Primes!Prime(n)
                    /\ n \notin marked[o] /\ whole[o] =>
                         Primes!Prime(n) \/ n \in {0, 1}
  BY Zenon DEF ChecksRight, Primes!ChecksRight, Primes!Verdict
<1>1. n \in Nat /\ n < SHM_SIZE /\ SHM_SIZE \in Nat
  BY SmallAssumption DEF SmallAssumption, Primes!Numbers
<1>2. n \in marked[o] => ~Primes!Prime(n)
  BY <1>1, PrimeNotComposite DEF SieveInv, MarkedComposite
<1>3. ASSUME n \notin marked[o], whole[o], n > 1 PROVE ~Composite(n)
  <2> SUFFICES ASSUME Composite(n) PROVE FALSE
    OBVIOUS
  <2>1. PICK m \in Nat : m * m >= SHM_SIZE /\ Sieved(marked[o], m)
    BY <1>3 DEF SieveInv, SetsSieve
  <2>2. PICK d \in Nat : /\ d >= 2 /\ ~Composite(d)
                         /\ Multiple(n, d) /\ d * d <= n
    BY <1>1, LeastFactor
  <2>3. d < m
    <3>1. d >= m => m * m <= d * m /\ d * m <= d * d
      <4>1. m * d = d * m
        OBVIOUS
      <4>2. d >= m => m * m <= m * d /\ d * m <= d * d
        BY TimesMonotone
      <4> QED BY <4>1, <4>2
    <3>2. m * m \in Nat /\ d * m \in Nat /\ d * d \in Nat
      OBVIOUS
    <3> QED BY <1>1, <2>1, <2>2, <3>1, <3>2
  <2>4. d \notin marked[o]
    BY <2>2 DEF SieveInv, MarkedComposite
  <2>5. Struck(marked[o], d, SHM_SIZE)
    BY <2>1, <2>2, <2>3, <2>4 DEF Sieved
  <2>6. PICK k \in Nat : k >= 2 /\ n = d * k
    BY <2>2 DEF Multiple
  <2> QED BY <1>1, <1>3, <2>5, <2>6 DEF Struck
<1> QED BY <1>1, <1>2, <1>3, PrimeNotComposite

\* Nothing is marked at the start.
LEMMA SieveInitial == Primes!Init => SieveInv
<1> SUFFICES ASSUME Primes!Init PROVE SieveInv
  OBVIOUS
<1> USE SmallAssumption DEF Primes!Init, SmallAssumption
<1>1. SieveTypeOK
  BY DEF SieveTypeOK
<1>2. SieveFlagsOK
  BY DEF SieveFlagsOK
<1>3. SievePlaces /\ MarkedComposite /\ Kept /\ SetsSieve
  BY DEF SievePlaces, MarkedComposite, Kept, SetsSieve
<1> QED BY <1>1, <1>2, <1>3 DEF SieveInv

\* A step that leaves the table as it is, and no set further than it was, or
\* by a row that is done.
LEMMA SieveStepKeeps ==
  ASSUME SieveInv, NEW p \in Primes!Processes, Primes!Step(p)
  PROVE  SieveInv'
<1> USE DEF SieveInv
<1>0. /\ Inits \cap Setters = {} /\ Primes!Processes = Inits \cup Setters
      /\ None \notin Objects /\ SHM_SIZE \in Nat
  BY SmallAssumption DEF SmallAssumption, Primes!Processes
<1>1. CASE Primes!NotThere(p) \/ Primes!Killed(p)
  <2>1. /\ sievePc' = [sievePc EXCEPT ![p] = "done"]
        /\ UNCHANGED <<name, marked, sieveObject, row, column, whole, clean>>
    BY <1>1 DEF Primes!NotThere, Primes!Killed, Primes!Goto, Primes!history
  <2>2. sievePc'[p] = "done" /\ \A q \in Primes!Processes \ {p} :
                                  sievePc'[q] = sievePc[q]
    BY <2>1 DEF SieveTypeOK
  <2>3. SieveTypeOK' /\ SieveFlagsOK' /\ MarkedComposite'
    BY <2>1 DEF SieveTypeOK, SieveFlagsOK, MarkedComposite
  <2>4. SievePlaces'
    BY <2>1, <2>2 DEF SievePlaces
  <2>5. Kept'
    BY <1>0, <2>1, <2>2 DEF Kept, NoClear
  <2>6. SetsSieve'
    <3> QED BY <1>0, <2>1, <2>2 DEF SetsSieve, SetSieves
  <2> QED BY <2>3, <2>4, <2>5, <2>6
<1>2. CASE Primes!Open(p)
  <2>1. PICK o \in Objects :
          /\ sieveObject' = [sieveObject EXCEPT ![p] = o] /\ name' = o
          /\ IF p \in Setters
             THEN clean' = [clean EXCEPT ![p] = Primes!On(o, Inits) = {}]
                  /\ UNCHANGED whole
             ELSE /\ whole' = [whole EXCEPT ![o] = FALSE]
                  /\ clean' = [s \in Setters |-> clean[s] /\ sieveObject[s] # o]
    BY <1>2 DEF Primes!Open
  <2>2. /\ sievePc[p] = "open" /\ sievePc' = [sievePc EXCEPT ![p] = "loop"]
        /\ row' = [row EXCEPT ![p] = IF p \in Setters THEN 2 ELSE 0]
        /\ UNCHANGED <<marked, column>>
    BY <1>2 DEF Primes!Open, Primes!Goto
  <2>3. /\ sievePc'[p] = "loop" /\ sieveObject'[p] = o
        /\ p \in Setters => row'[p] = 2
        /\ \A q \in Primes!Processes \ {p} :
             /\ sievePc'[q] = sievePc[q] /\ sieveObject'[q] = sieveObject[q]
             /\ row'[q] = row[q]
    BY <2>1, <2>2 DEF SieveTypeOK
  <2>4. SieveTypeOK' /\ MarkedComposite'
    BY <2>1, <2>2 DEF SieveTypeOK, MarkedComposite
  <2>5. SieveFlagsOK'
    BY <2>1, Zenon DEF SieveFlagsOK
  <2>6. SievePlaces'
    BY <1>0, <2>2, <2>3 DEF SievePlaces
  <2>8. CASE p \in Setters
    <3>1. /\ \A q \in Objects : whole'[q] = whole[q]
          /\ \A s \in Setters \ {p} : clean'[s] = clean[s]
          /\ clean'[p] => Primes!On(o, Inits) = {}
      BY <2>1, <2>8, Zenon DEF SieveFlagsOK
    <3>2. \A q \in Objects : NoClear(q)' <=> NoClear(q)
      BY <1>0, <2>3, <2>8 DEF NoClear
    <3>3. clean'[p] => NoClear(o)
      BY <3>1 DEF NoClear, Primes!On
    <3>4. Kept'
      BY <1>0, <2>3, <2>8, <3>1, <3>2, <3>3 DEF Kept
    <3>5. Sieved(marked[o], 2)
      BY DEF Sieved
    <3>6. SetsSieve'
      <4>1. ASSUME NEW s \in Setters, NEW q \in Objects, clean'[s], sieveObject'[s] = q
            PROVE  SetSieves(s, q)'
        <5>1. CASE s = p
          BY <2>2, <2>3, <2>8, <3>5, <4>1, <5>1 DEF SetSieves
        <5>2. CASE s # p
          <6>1. /\ clean[s] /\ sieveObject[s] = q /\ sievePc'[s] = sievePc[s]
                /\ row'[s] = row[s] /\ row[s] \in Nat /\ column[s] \in Nat
            BY <1>0, <2>3, <3>1, <4>1, <5>2 DEF SieveTypeOK
          <6> QED BY <2>2, <6>1 DEF SetsSieve, SetSieves
        <5> QED BY <5>1, <5>2
      <4>2. \A q \in Objects : whole'[q] =>
              \E m \in Nat : m * m >= SHM_SIZE /\ Sieved(marked'[q], m)
        BY <2>2, <3>1 DEF SetsSieve
      <4> QED BY <4>1, <4>2 DEF SetsSieve
    <3> QED BY <2>4, <2>5, <2>6, <3>4, <3>6
  <2>9. CASE p \notin Setters
    <3>1. /\ \A q \in Objects : whole'[q] => q # o /\ whole[q]
          /\ \A s \in Setters : clean'[s] => clean[s] /\ sieveObject[s] # o
      BY <2>1, <2>9, Zenon DEF SieveFlagsOK
    <3>2. \A q \in Objects \ {o} : NoClear(q) => NoClear(q)'
      BY <1>0, <2>3 DEF NoClear
    <3>3. \A s \in Setters : /\ sieveObject'[s] = sieveObject[s]
                             /\ sievePc'[s] = sievePc[s] /\ row'[s] = row[s]
                             /\ row[s] \in Nat /\ column[s] \in Nat
      BY <1>0, <2>3, <2>9 DEF SieveTypeOK
    <3>4. Kept'
      BY <3>1, <3>2, <3>3 DEF Kept
    <3>5. SetsSieve'
      <4>1. ASSUME NEW s \in Setters, NEW q \in Objects, clean'[s], sieveObject'[s] = q
            PROVE  SetSieves(s, q)'
        BY <2>2, <3>1, <3>3, <4>1 DEF SetsSieve, SetSieves
      <4>2. \A q \in Objects : whole'[q] =>
              \E m \in Nat : m * m >= SHM_SIZE /\ Sieved(marked'[q], m)
        BY <2>2, <3>1 DEF SetsSieve
      <4> QED BY <4>1, <4>2 DEF SetsSieve
    <3> QED BY <2>4, <2>5, <2>6, <3>4, <3>5
  <2> QED BY <2>8, <2>9
<1>3. CASE Primes!Clear(p)
  <2>1. /\ p \in Inits /\ sievePc[p] = "loop"
        /\ marked' = [marked EXCEPT ![sieveObject[p]] = @ \ {row[p]}]
        /\ row' = [row EXCEPT ![p] = @ + 1]
        /\ UNCHANGED <<name, sieveObject, column, whole, clean>>
    BY <1>3 DEF Primes!Clear, Primes!history
  <2>2. PICK l \in {"loop", "done"} : sievePc' = [sievePc EXCEPT ![p] = l]
    <3>1. sievePc = [sievePc EXCEPT ![p] = "loop"]
      BY <2>1 DEF SieveTypeOK
    <3> QED BY <1>3, <3>1 DEF Primes!Clear
  <2> PICK o \in Objects : o = sieveObject[p]
    BY <2>1 DEF SievePlaces
  <2>3. /\ sievePc'[p] = l /\ p \notin Setters
        /\ marked'[o] \subseteq marked[o]
        /\ \A q \in Objects \ {o} : marked'[q] = marked[q]
        /\ \A q \in Primes!Processes \ {p} :
             sievePc'[q] = sievePc[q] /\ row'[q] = row[q]
    BY <1>0, <2>1, <2>2 DEF SieveTypeOK
  <2>4. SieveTypeOK' /\ SieveFlagsOK'
    BY <2>1, <2>2, <2>3 DEF SieveTypeOK, SieveFlagsOK
  <2>5. SievePlaces'
    BY <2>1, <2>3 DEF SievePlaces
  <2>6. MarkedComposite'
    BY <2>1, <2>3 DEF MarkedComposite
  <2>7. ~NoClear(o)
    BY <2>1 DEF NoClear
  <2>8. /\ ~whole[o]
        /\ \A s \in Setters : clean[s] => sieveObject[s] # o
    BY <2>7 DEF Kept
  <2>9. Kept'
    <3>1. \A q \in Objects \ {o} : NoClear(q) => NoClear(q)'
      BY <1>0, <2>1, <2>3 DEF NoClear
    <3>2. \A q \in Objects : whole[q] => NoClear(q)'
      BY <2>8, <3>1 DEF Kept
    <3>3. \A s \in Setters, q \in Objects :
            clean[s] /\ sieveObject[s] = q => NoClear(q)'
      BY <2>8, <3>1 DEF Kept
    <3> QED BY <2>1, <3>2, <3>3 DEF Kept
  <2>10. SetsSieve'
    <3>1. ASSUME NEW s \in Setters, NEW q \in Objects, clean[s], sieveObject[s] = q
          PROVE  SetSieves(s, q)'
      <4>1. SetSieves(s, q) /\ q # o /\ s # p
        BY <2>3, <2>8, <3>1 DEF SetsSieve
      <4> QED BY <1>0, <2>1, <2>3, <4>1 DEF SetSieves
    <3>2. \A q \in Objects : whole[q] =>
            \E m \in Nat : m * m >= SHM_SIZE /\ Sieved(marked'[q], m)
      BY <2>3, <2>8 DEF SetsSieve
    <3> QED BY <2>1, <3>1, <3>2 DEF SetsSieve
  <2> QED BY <2>4, <2>5, <2>6, <2>9, <2>10
<1>4. CASE Primes!SieveNext(p)
  <2>1. /\ p \in Setters /\ sievePc[p] = "loop"
        /\ sievePc' = [sievePc EXCEPT ![p] = "mark"]
        /\ UNCHANGED <<name, marked, sieveObject, row, whole, clean>>
    BY <1>4 DEF Primes!SieveNext, Primes!Goto, Primes!history
  <2>2. PICK j \in Nat :
          /\ column' = [column EXCEPT ![p] = j]
          /\ \/ j = SHM_SIZE /\ row[p] \in marked[sieveObject[p]]
             \/ j = 2 * row[p]
    BY <1>0, <1>4 DEF Primes!SieveNext, SieveTypeOK
  <2>3. /\ sievePc'[p] = "mark" /\ column'[p] = j
        /\ row[p] \in Nat /\ row[p] >= 2
        /\ \A q \in Primes!Processes \ {p} :
             sievePc'[q] = sievePc[q] /\ column'[q] = column[q]
    BY <2>1, <2>2 DEF SieveTypeOK, SievePlaces
  <2>4. SieveTypeOK' /\ SieveFlagsOK' /\ MarkedComposite'
    BY <2>1, <2>2 DEF SieveTypeOK, SieveFlagsOK, MarkedComposite
  <2>5. j >= SHM_SIZE \/ Multiple(j, row[p])
    <3>1. CASE j = SHM_SIZE
      BY <1>0, <3>1
    <3>2. CASE j = 2 * row[p]
      <4>1. j = row[p] * 2
        BY <2>3, <3>2
      <4> QED BY <4>1 DEF Multiple
    <3> QED BY <2>2, <3>1, <3>2
  <2>6. SievePlaces'
    BY <2>1, <2>3, <2>5 DEF SievePlaces
  <2>7. Kept'
    BY <1>0, <2>1, <2>3 DEF Kept, NoClear
  <2>8. SetsSieve'
    <3>1. ASSUME NEW s \in Setters, NEW o \in Objects, clean[s], sieveObject[s] = o
          PROVE  SetSieves(s, o)'
      <4>1. SetSieves(s, o)
        BY <3>1 DEF SetsSieve
      <4>2. CASE s = p
        <5>1. j = 2 * row[p] => Struck(marked[o], row[p], j)
          <6> SUFFICES ASSUME j = 2 * row[p], NEW k \in Nat, k >= 2, row[p] * k < j
                       PROVE  FALSE
            BY DEF Struck
          <6>1. row[p] * 2 <= row[p] * k
            BY <2>3, TimesMonotone
          <6> QED BY <2>3, <6>1
        <5> QED BY <2>1, <2>2, <2>3, <3>1, <4>1, <4>2, <5>1 DEF SetSieves
      <4>3. CASE s # p
        BY <1>0, <2>1, <2>3, <4>1, <4>3 DEF SetSieves
      <4> QED BY <4>2, <4>3
    <3> QED BY <2>1, <3>1 DEF SetsSieve
  <2> QED BY <2>4, <2>6, <2>7, <2>8
<1>5. CASE Primes!Mark(p)
  <2>1. /\ sievePc[p] = "mark" /\ column[p] < SHM_SIZE
        /\ marked' = [marked EXCEPT ![sieveObject[p]] = @ \cup {column[p]}]
        /\ column' = [column EXCEPT ![p] = @ + row[p]]
        /\ UNCHANGED <<name, sievePc, sieveObject, row, whole, clean>>
    BY <1>5 DEF Primes!Mark, Primes!history
  <2> PICK o \in Objects : o = sieveObject[p]
    BY <2>1 DEF SievePlaces
  <2>2. /\ p \in Setters /\ row[p] \in Nat /\ row[p] >= 2 /\ column[p] \in Nat
        /\ Multiple(column[p], row[p])
    BY <1>0, <2>1 DEF SieveTypeOK, SievePlaces
  <2>3. /\ marked'[o] = marked[o] \cup {column[p]}
        /\ column'[p] = column[p] + row[p]
        /\ \A q \in Objects \ {o} : marked'[q] = marked[q]
        /\ \A q \in Primes!Processes \ {p} : column'[q] = column[q]
    BY <2>1 DEF SieveTypeOK
  <2>4. SieveTypeOK' /\ SieveFlagsOK'
    BY <2>1, <2>2, <2>3 DEF SieveTypeOK, SieveFlagsOK
  <2>5. PICK k \in Nat : k >= 2 /\ column[p] = row[p] * k
    BY <2>2 DEF Multiple
  <2>6. SievePlaces'
    <3>1. column'[p] = row[p] * (k + 1) /\ k + 1 >= 2
      BY <2>2, <2>3, <2>5
    <3>2. Multiple(column'[p], row[p])
      BY <3>1 DEF Multiple
    <3> QED BY <2>1, <2>3, <3>2 DEF SievePlaces
  <2>7. MarkedComposite'
    <3>1. Composite(column[p])
      BY <2>2 DEF Composite
    <3> QED BY <2>3, <3>1 DEF MarkedComposite
  <2>8. Kept'
    BY <2>1 DEF Kept, NoClear
  <2>9. SetsSieve'
    <3>1. \A q \in Objects : marked[q] \subseteq marked'[q]
      BY <2>3
    <3>2. ASSUME NEW s \in Setters, NEW q \in Objects, clean[s], sieveObject[s] = q
          PROVE  SetSieves(s, q)'
      <4>1. SetSieves(s, q)
        BY <3>2 DEF SetsSieve
      <4>2. CASE s = p
        <5>1. q = o
          BY <3>2, <4>2
        <5>2. CASE row[p] \in marked[o]
          BY <2>1, <3>1, <4>1, <4>2, <5>1, <5>2, MoreMarks DEF SetSieves
        <5>3. CASE Struck(marked[o], row[p], column[p])
          <6>1. ASSUME NEW l \in Nat, l >= 2, row[p] * l < column'[p],
                       row[p] * l < SHM_SIZE
                PROVE  row[p] * l \in marked'[o]
            <7>1. l <= k
              <8>1. l >= k + 1 => row[p] * (k + 1) <= row[p] * l
                BY <2>2, TimesMonotone
              <8>2. column'[p] = row[p] * (k + 1)
                BY <2>2, <2>3, <2>5
              <8>3. row[p] * l \in Nat
                BY <2>2
              <8> QED BY <2>2, <2>3, <6>1, <8>1, <8>2, <8>3
            <7>2. CASE l = k
              BY <2>3, <2>5, <7>2
            <7>3. CASE l < k
              <8>1. row[p] * (l + 1) <= row[p] * k
                BY <2>2, <7>3, TimesMonotone
              <8>2. row[p] * (l + 1) = row[p] * l + row[p]
                BY <2>2
              <8>3. row[p] * l < column[p]
                BY <2>2, <2>5, <8>1, <8>2
              <8> QED BY <2>3, <5>3, <6>1, <8>3 DEF Struck
            <7> QED BY <7>1, <7>2, <7>3
          <6>2. Struck(marked'[o], row[p], column'[p])
            BY <6>1 DEF Struck
          <6> QED
            BY <2>1, <3>1, <4>1, <4>2, <5>1, <6>2, MoreMarks DEF SetSieves
        <5> QED BY <2>1, <4>1, <4>2, <5>1, <5>2, <5>3 DEF SetSieves
      <4>3. CASE s # p
        BY <1>0, <2>1, <2>3, <3>1, <4>1, <4>3, MoreMarks DEF SetSieves
      <4> QED BY <4>2, <4>3
    <3>3. \A q \in Objects : whole[q] =>
            \E m \in Nat : m * m >= SHM_SIZE /\ Sieved(marked'[q], m)
      BY <3>1, MoreMarks DEF SetsSieve
    <3> QED BY <2>1, <3>2, <3>3 DEF SetsSieve
  <2> QED BY <2>4, <2>6, <2>7, <2>8, <2>9
<1>6. CASE Primes!MarkEnd(p)
  <2>1. /\ sievePc[p] = "mark" /\ column[p] >= SHM_SIZE
        /\ sievePc' = [sievePc EXCEPT ![p] = "loop"]
        /\ row' = [row EXCEPT ![p] = @ + 1]
        /\ UNCHANGED <<name, marked, sieveObject, column, whole, clean>>
    BY <1>6 DEF Primes!MarkEnd, Primes!Goto, Primes!history
  <2>2. /\ sievePc'[p] = "loop" /\ p \in Setters /\ row[p] \in Nat /\ row[p] >= 2
        /\ row'[p] = row[p] + 1 /\ column[p] \in Nat
        /\ \A q \in Primes!Processes \ {p} :
             sievePc'[q] = sievePc[q] /\ row'[q] = row[q]
    BY <2>1 DEF SieveTypeOK, SievePlaces
  <2>3. SieveTypeOK' /\ SieveFlagsOK' /\ MarkedComposite'
    BY <2>1, <2>2 DEF SieveTypeOK, SieveFlagsOK, MarkedComposite
  <2>4. SievePlaces'
    BY <2>1, <2>2 DEF SievePlaces
  <2>5. Kept'
    BY <1>0, <2>1, <2>2 DEF Kept, NoClear
  <2>6. SetsSieve'
    <3>1. ASSUME NEW s \in Setters, NEW o \in Objects, clean[s], sieveObject[s] = o
          PROVE  SetSieves(s, o)'
      <4>1. SetSieves(s, o)
        BY <3>1 DEF SetsSieve
      <4>2. CASE s = p
        <5>1. Sieved(marked[o], row[p])
          BY <2>1, <4>1, <4>2 DEF SetSieves
        <5>2. row[p] \in marked[o] \/ Struck(marked[o], row[p], SHM_SIZE)
          BY <1>0, <2>1, <2>2, <4>1, <4>2 DEF SetSieves, Struck
        <5>3. Sieved(marked[o], row[p] + 1)
          <6> SUFFICES ASSUME NEW d \in Nat, 2 <= d, d < row[p] + 1
                       PROVE  d \in marked[o] \/ Struck(marked[o], d, SHM_SIZE)
            BY DEF Sieved
          <6>1. d < row[p] \/ d = row[p]
            BY <2>2
          <6> QED BY <5>1, <5>2, <6>1 DEF Sieved
        <5> QED BY <2>1, <2>2, <4>2, <5>3 DEF SetSieves
      <4>3. CASE s # p
        BY <1>0, <2>1, <2>2, <4>1, <4>3 DEF SetSieves
      <4> QED BY <4>2, <4>3
    <3> QED BY <2>1, <3>1 DEF SetsSieve
  <2> QED BY <2>3, <2>4, <2>5, <2>6
<1>7. CASE Primes!SieveEnd(p)
  <2>1. /\ sievePc[p] = "loop" /\ row[p] * row[p] >= SHM_SIZE /\ p \in Setters
        /\ sievePc' = [sievePc EXCEPT ![p] = "done"]
        /\ UNCHANGED <<name, marked, sieveObject, row, column, clean>>
    BY <1>7 DEF Primes!SieveEnd, Primes!Goto
  <2> PICK o \in Objects : o = sieveObject[p]
    BY <2>1 DEF SievePlaces
  <2>2. /\ whole' \in [Objects -> BOOLEAN]
        /\ \A q \in Objects \ {o} : whole'[q] = whole[q]
        /\ whole'[o] => whole[o] \/ clean[p]
    <3>1. whole' = [whole EXCEPT ![o] = @ \/ clean[p]]
      BY <1>7 DEF Primes!SieveEnd
    <3> QED BY <2>1, <3>1, Zenon DEF SieveFlagsOK
  <2>3. /\ sievePc'[p] = "done" /\ row[p] \in Nat
        /\ \A q \in Primes!Processes \ {p} : sievePc'[q] = sievePc[q]
    BY <2>1 DEF SieveTypeOK
  <2>4. SieveTypeOK' /\ SieveFlagsOK' /\ MarkedComposite'
    BY <2>1, <2>2 DEF SieveTypeOK, SieveFlagsOK, MarkedComposite
  <2>5. SievePlaces'
    BY <2>1, <2>3 DEF SievePlaces
  <2>6. Kept'
    BY <1>0, <2>1, <2>2, <2>3 DEF Kept, NoClear
  <2>7. SetsSieve'
    <3>1. ASSUME NEW s \in Setters, NEW q \in Objects, clean[s], sieveObject[s] = q
          PROVE  SetSieves(s, q)'
      <4>1. SetSieves(s, q)
        BY <3>1 DEF SetsSieve
      <4>2. sievePc'[s] \in {"loop", "mark"} => sievePc'[s] = sievePc[s]
        BY <1>0, <2>3
      <4> QED BY <2>1, <4>1, <4>2 DEF SetSieves
    <3>2. clean[p] => Sieved(marked[o], row[p])
      BY <2>1 DEF SetsSieve, SetSieves
    <3>3. ASSUME NEW q \in Objects, whole'[q]
          PROVE  \E m \in Nat : m * m >= SHM_SIZE /\ Sieved(marked[q], m)
      <4>1. CASE whole[q]
        BY <4>1 DEF SetsSieve
      <4>2. CASE ~whole[q]
        BY <2>1, <2>2, <2>3, <3>2, <3>3, <4>2
      <4> QED BY <4>1, <4>2
    <3> QED BY <2>1, <3>1, <3>3 DEF SetsSieve
  <2> QED BY <2>4, <2>5, <2>6, <2>7
<1> QED BY <1>1, <1>2, <1>3, <1>4, <1>5, <1>6, <1>7 DEF Primes!Step

\* check is right about every number, for a table of any size, and however
\* many runs of init and set there are.
THEOREM SieveChecksRight == SharedSpec => []ChecksRight
<1>1. SieveInv /\ [Primes!Next]_(Primes!vars) => SieveInv'
  <2> SUFFICES ASSUME SieveInv, [Primes!Next]_(Primes!vars) PROVE SieveInv'
    OBVIOUS
  <2>1. CASE Primes!Destroy \/ UNCHANGED Primes!vars
    <3>1. /\ name' \in {name, None}
          /\ UNCHANGED <<marked, sievePc, sieveObject, row, column, whole, clean>>
      BY <2>1 DEF Primes!Destroy, Primes!vars, Primes!history
    <3> QED
      BY <3>1 DEF SieveInv, SieveTypeOK, SieveFlagsOK, SievePlaces, MarkedComposite,
         Kept, NoClear, SetsSieve, SetSieves
  <2> QED BY <2>1, SieveStepKeeps DEF Primes!Next
<1> QED BY <1>1, SieveInitial, SieveRight, SieveProgram, PTL DEF Primes!Spec

-----------------------------------------------------------------------------
(* PrimeCalculator: nth_prime, and the two pipes.                          *)

\* is_prime tries the divisors up to the root, which is enough.
LEMMA IsPrimeRight ==
  ASSUME NEW m \in Nat
  PROVE  Pipes!IsPrime(m) <=> m > 1 /\ ~Composite(m)
<1>1. ASSUME Composite(m), m > 1 PROVE ~Pipes!IsPrime(m)
  <2>1. PICK d \in Nat : d >= 2 /\ Multiple(m, d) /\ d * d <= m
    BY <1>1, LeastFactor
  <2>2. m % d = 0
    BY <2>1, FactorDivides DEF Multiple
  <2>3. d * 2 <= d * d
    BY <2>1, TimesMonotone
  <2>4. d \in 2 .. m
    BY <2>1, <2>3
  <2> QED BY <2>1, <2>2, <2>4 DEF Pipes!IsPrime
<1>2. ASSUME ~Pipes!IsPrime(m), m > 1 PROVE Composite(m)
  <2>1. PICK d \in 2 .. m : d * d <= m /\ m % d = 0
    BY <1>2 DEF Pipes!IsPrime
  <2>2. PICK k \in Nat : m = d * k
    BY <2>1, FactorDivides
  <2>3. k <= 1 => d * k <= d * 1
    BY TimesMonotone
  <2>4. d * 2 <= d * d
    BY TimesMonotone
  <2>5. k >= 2
    BY <2>1, <2>2, <2>3, <2>4
  <2> QED BY <2>2, <2>5 DEF Composite, Multiple
<1> QED BY <1>1, <1>2 DEF Pipes!IsPrime

\* The reference has the same primes.
LEMMA PrimesToRight ==
  ASSUME NEW m \in Nat
  PROVE  Pipes!PrimesTo(m) = {p \in 2 .. m : ~Composite(p)}
<1>1. ASSUME NEW p \in 2 .. m, Composite(p)
      PROVE  \E d \in 1 .. p : Pipes!Divides(d, p) /\ d \notin {1, p}
  <2>1. PICK d \in Nat, k \in Nat : d >= 2 /\ k >= 2 /\ p = d * k
    BY <1>1 DEF Composite, Multiple
  <2>2. d * 2 <= d * k /\ k * 2 <= k * d /\ k * d = d * k
    BY <2>1, TimesMonotone
  <2>3. d \in 1 .. p /\ k \in 1 .. p /\ d # 1 /\ d # p
    BY <2>1, <2>2
  <2> QED BY <2>1, <2>3 DEF Pipes!Divides
<1>2. ASSUME NEW p \in 2 .. m, NEW d \in 1 .. p, Pipes!Divides(d, p), d \notin {1, p}
      PROVE  Composite(p)
  <2>1. PICK k \in 1 .. p : d * k = p
    BY <1>2 DEF Pipes!Divides
  <2>2. k # 1
    BY <1>2, <2>1
  <2> QED BY <1>2, <2>1, <2>2 DEF Composite, Multiple
<1> QED BY <1>1, <1>2 DEF Pipes!PrimesTo

\* M is a multiple of all numbers to m; there is one.
Common(M, m) == \A d \in 1 .. m : \E k \in Nat : M = d * k

LEMMA CommonMultiple ==
  ASSUME NEW m \in Nat
  PROVE  \E M \in Nat \ {0} : Common(M, m)
<1> DEFINE S == {x \in Nat : \E M \in Nat \ {0} : Common(M, x)}
<1>1. 0 \in S
  <2>1. Common(1, 0)
    BY DEF Common
  <2> QED BY <2>1
<1>2. ASSUME NEW x \in Nat, x \in S PROVE x + 1 \in S
  <2>1. PICK M \in Nat \ {0} : Common(M, x)
    BY <1>2
  <2> HIDE DEF S
  <2> PICK N \in Nat : N = M * (x + 1)
    OBVIOUS
  <2>2. N # 0
    <3>1. M * 1 <= M * (x + 1)
      BY TimesMonotone
    <3> QED BY <3>1
  <2>3. ASSUME NEW d \in 1 .. x + 1 PROVE \E k \in Nat : N = d * k
    <3>1. CASE d = x + 1
      <4>1. N = d * M
        BY <3>1
      <4> QED BY <4>1
    <3>2. CASE d # x + 1
      <4>1. d \in 1 .. x
        BY <3>2
      <4>2. PICK k \in Nat : M = d * k
        BY <2>1, <4>1 DEF Common
      <4>3. N = d * (k * (x + 1)) /\ k * (x + 1) \in Nat
        BY <4>2
      <4> QED BY <4>3
    <3> QED BY <3>1, <3>2
  <2>4. Common(N, x + 1)
    BY <2>3 DEF Common
  <2> QED BY <2>2, <2>4 DEF S
<1> HIDE DEF S
<1>3. m \in S
  BY <1>1, <1>2, AllOfNat
<1> QED BY <1>3 DEF S

\* There is always another prime.
LEMMA PrimesGoOn ==
  ASSUME NEW m \in Nat
  PROVE  \E p \in Nat : p > m /\ p > 1 /\ ~Composite(p)
<1>1. PICK M \in Nat \ {0} : Common(M, m)
  BY CommonMultiple
<1>2. PICK p \in Nat, q \in Nat : p >= 2 /\ ~Composite(p) /\ M + 1 = p * q
  <2>1. CASE Composite(M + 1)
    BY <2>1, LeastFactor DEF Multiple
  <2>2. CASE ~Composite(M + 1)
    <3>1. M + 1 = (M + 1) * 1
      OBVIOUS
    <3> QED BY <2>2, <3>1
  <2> QED BY <2>1, <2>2
<1>3. p > m
  <2> SUFFICES ASSUME p <= m PROVE FALSE
    OBVIOUS
  <2>0. p \in 1 .. m
    BY <1>2
  <2>1. PICK k \in Nat : M = p * k
    BY <1>1, <2>0 DEF Common
  <2>2. p * q - p * k = 1
    BY <1>2, <2>1
  <2>3. p * (q - k) = p * q - p * k
    BY <1>2
  <2>4. q - k >= 1 => p * 1 <= p * (q - k)
    BY TimesMonotone
  <2>5. q - k <= 0 => p * (q - k) <= p * 0
    BY TimesMonotone
  <2>6. p * 1 = p /\ p * 0 = 0
    OBVIOUS
  <2> QED BY <1>2, <2>2, <2>3, <2>4, <2>5, <2>6
<1> QED BY <1>2, <1>3

\* The primes below a number, and how many there are.
Below(h) == {p \in 2 .. h - 1 : Pipes!IsPrime(p)}
HowMany(h) == Cardinality(Below(h))

\* A prime is one more, another number is not.
LEMMA OneMore ==
  ASSUME NEW h \in Nat
  PROVE  /\ HowMany(h) \in Nat /\ IsFiniteSet(Below(h))
         /\ HowMany(h + 1) = IF Pipes!IsPrime(h) THEN HowMany(h) + 1 ELSE HowMany(h)
<1>1. IsFiniteSet(Below(h))
  <2>1. IsFiniteSet(2 .. h - 1)
    BY FS_Interval
  <2> QED BY <2>1, FS_Subset DEF Below
<1>2. CASE Pipes!IsPrime(h)
  <2>1. Below(h + 1) = Below(h) \cup {h} /\ h \notin Below(h)
    BY <1>2 DEF Below, Pipes!IsPrime
  <2> QED BY <1>1, <1>2, <2>1, FS_AddElement, FS_CardinalityType DEF HowMany
<1>3. CASE ~Pipes!IsPrime(h)
  <2>1. Below(h + 1) = Below(h)
    BY <1>3 DEF Below
  <2> QED BY <1>1, <1>3, <2>1, FS_CardinalityType DEF HowMany
<1> QED BY <1>1, <1>2, <1>3, FS_CardinalityType DEF HowMany

\* Where k more primes have been passed than before i.
Passed(k, i) == {h \in Nat : h >= i /\ HowMany(h) = HowMany(i) + k}

\* However many primes are asked for, the walk from 2 passes them.
LEMMA PassedSometime ==
  ASSUME NEW k \in Nat
  PROVE  Passed(k, 2) # {}
<1> DEFINE S == {x \in Nat : Passed(x, 2) # {}}
<1>1. 0 \in S
  <2>1. 2 \in Passed(0, 2)
    <3>1. HowMany(2) \in Nat
      BY OneMore
    <3> QED BY <3>1 DEF Passed
  <2> QED BY <2>1
<1>2. ASSUME NEW x \in Nat, x \in S PROVE x + 1 \in S
  <2>1. PICK h \in Passed(x, 2) : TRUE
    BY <1>2
  <2>2. h \in Nat /\ h >= 2 /\ HowMany(h) = HowMany(2) + x
    BY <2>1 DEF Passed
  <2> DEFINE Q == {p \in Nat : p >= h /\ Pipes!IsPrime(p)}
  <2>3. Q # {}
    <3>1. PICK p \in Nat : p > h /\ p > 1 /\ ~Composite(p)
      BY <2>2, PrimesGoOn
    <3>2. p \in Q
      BY <2>2, <3>1, IsPrimeRight
    <3> QED BY <3>2
  <2>4. PICK p \in Q : \A q \in Q : p <= q
    BY <2>3, LeastElement
  <2>5. Below(p) = Below(h)
    BY <2>2, <2>4 DEF Below
  <2>6. HowMany(p) = HowMany(h) /\ HowMany(p + 1) = HowMany(p) + 1
    BY <2>4, <2>5, OneMore DEF HowMany
  <2>7. HowMany(2) \in Nat
    BY OneMore
  <2>8. p + 1 \in Passed(x + 1, 2)
    BY <2>2, <2>4, <2>6, <2>7 DEF Passed
  <2> QED BY <2>8
<1> HIDE DEF S
<1>3. k \in S
  BY <1>1, <1>2, AllOfNat
<1> QED BY <1>3 DEF S

\* A step of the walk leaves as many to pass.
LEMMA WalkOn ==
  ASSUME NEW k \in Nat \ {0}, NEW i \in Nat
  PROVE  Passed(k, i) = Passed(IF Pipes!IsPrime(i) THEN k - 1 ELSE k, i + 1)
<1>1. /\ HowMany(i) \in Nat
      /\ HowMany(i + 1) = IF Pipes!IsPrime(i) THEN HowMany(i) + 1 ELSE HowMany(i)
  BY OneMore
<1>2. ASSUME NEW h \in Nat, HowMany(h) = HowMany(i) + k, h >= i PROVE h >= i + 1
  BY <1>1, <1>2
<1>3. CASE Pipes!IsPrime(i)
  BY <1>1, <1>2, <1>3 DEF Passed
<1>4. CASE ~Pipes!IsPrime(i)
  BY <1>1, <1>2, <1>4 DEF Passed
<1> QED BY <1>3, <1>4

\* A least element of a set of natural numbers.
Least(S) == CHOOSE m \in S : \A x \in S : m <= x

\* Least chooses one.
LEMMA LeastOf ==
  ASSUME NEW S, S \subseteq Nat, S # {}
  PROVE  Least(S) \in S /\ \A x \in S : Least(S) <= x
  BY LeastElement, Zenon DEF Least

IsWalk(w) ==
  w = [pos \in Nat \X Nat |->
         IF pos[1] = 0 THEN pos[2] - 1
         ELSE w[<<IF Pipes!IsPrime(pos[2]) THEN pos[1] - 1 ELSE pos[1], pos[2] + 1>>]]

\* There is such a function: where the last of the primes has been passed.
LEMMA WalkExists == \E w : IsWalk(w)
<1> DEFINE w == [pos \in Nat \X Nat |-> Least(Passed(pos[1], pos[2])) - 1]
<1>1. ASSUME NEW pos \in Nat \X Nat, pos[1] = 0 PROVE w[pos] = pos[2] - 1
  <2> PICK i \in Nat : pos[2] = i
    OBVIOUS
  <2>1. HowMany(i) \in Nat
    BY OneMore
  <2>2. i \in Passed(0, i) /\ Passed(0, i) \subseteq Nat
        /\ \A h \in Passed(0, i) : i <= h
    BY <2>1 DEF Passed
  <2>3. Least(Passed(0, i)) \in Passed(0, i) /\ Least(Passed(0, i)) <= i
    BY <2>2, LeastOf
  <2>4. Least(Passed(0, i)) = i
    BY <2>2, <2>3
  <2> QED BY <1>1, <2>4
<1>2. ASSUME NEW pos \in Nat \X Nat, pos[1] # 0
      PROVE  w[pos] = w[<<IF Pipes!IsPrime(pos[2]) THEN pos[1] - 1 ELSE pos[1],
                         pos[2] + 1>>]
  <2> PICK k \in Nat \ {0}, i \in Nat : pos[1] = k /\ pos[2] = i
    BY <1>2
  <2> PICK j \in Nat : j = IF Pipes!IsPrime(i) THEN k - 1 ELSE k
    OBVIOUS
  <2>1. Passed(k, i) = Passed(j, i + 1)
    BY WalkOn
  <2>2. w[pos] = Least(Passed(k, i)) - 1
    OBVIOUS
  <2>3. w[<<j, i + 1>>] = Least(Passed(j, i + 1)) - 1
    OBVIOUS
  <2> QED BY <2>1, <2>2, <2>3
<1>3. \A pos \in Nat \X Nat :
        w[pos] = IF pos[1] = 0 THEN pos[2] - 1
                ELSE w[<<IF Pipes!IsPrime(pos[2]) THEN pos[1] - 1 ELSE pos[1],
                         pos[2] + 1>>]
  BY <1>1, <1>2
<1>4. w = [pos \in Nat \X Nat |-> w[pos]]
  OBVIOUS
<1> HIDE DEF w
<1>5. IsWalk(w)
  BY <1>3, <1>4 DEF IsWalk
<1> QED BY <1>5

\* Where such a function ends, it ends as it should.
LEMMA WalkEnds ==
  ASSUME NEW w, IsWalk(w), NEW k \in Nat, NEW i \in Nat, Passed(k, i) # {}
  PROVE  w[<<k, i>>] = Least(Passed(k, i)) - 1
<1> DEFINE Ends(d) == \A m \in Nat, j \in Nat :
             Passed(m, j) # {} /\ Least(Passed(m, j)) = j + d
             => w[<<m, j>>] = j + d - 1
           S == {d \in Nat : Ends(d)}
<1>1. \A m \in Nat, j \in Nat :
        w[<<m, j>>] = IF m = 0 THEN j - 1
                      ELSE w[<<IF Pipes!IsPrime(j) THEN m - 1 ELSE m, j + 1>>]
  <2>1. \A pos \in Nat \X Nat :
          w[pos] = IF pos[1] = 0 THEN pos[2] - 1
                   ELSE w[<<IF Pipes!IsPrime(pos[2]) THEN pos[1] - 1 ELSE pos[1],
                            pos[2] + 1>>]
    BY DEF IsWalk
  <2> QED BY <2>1
<1>2. \A m \in Nat, j \in Nat : Passed(m, j) # {} =>
        /\ Least(Passed(m, j)) \in Nat /\ Least(Passed(m, j)) >= j
        /\ HowMany(Least(Passed(m, j))) = HowMany(j) + m
        /\ \A h \in Passed(m, j) : Least(Passed(m, j)) <= h
  <2> TAKE m \in Nat, j \in Nat
  <2>1. Passed(m, j) \subseteq Nat
    BY DEF Passed
  <2>2. Passed(m, j) # {} => /\ Least(Passed(m, j)) \in Passed(m, j)
                             /\ \A h \in Passed(m, j) : Least(Passed(m, j)) <= h
    BY <2>1, LeastOf
  <2> QED BY <2>2 DEF Passed
<1>3. Ends(0)
  <2> SUFFICES ASSUME NEW m \in Nat, NEW j \in Nat,
                      Passed(m, j) # {}, Least(Passed(m, j)) = j
               PROVE  w[<<m, j>>] = j - 1
    OBVIOUS
  <2>1. HowMany(j) = HowMany(j) + m /\ HowMany(j) \in Nat
    BY <1>2, OneMore
  <2>2. m = 0
    BY <2>1
  <2> QED BY <1>1, <2>2
<1>4. ASSUME NEW d \in Nat, Ends(d) PROVE Ends(d + 1)
  <2> SUFFICES ASSUME NEW m \in Nat, NEW j \in Nat,
                      Passed(m, j) # {}, Least(Passed(m, j)) = j + (d + 1)
               PROVE  w[<<m, j>>] = j + (d + 1) - 1
    OBVIOUS
  <2>1. m # 0
    <3>1. m = 0 => j \in Passed(m, j)
      <4>1. HowMany(j) \in Nat
        BY OneMore
      <4> QED BY <4>1 DEF Passed
    <3> QED BY <1>2, <3>1
  <2> PICK x \in Nat : x = IF Pipes!IsPrime(j) THEN m - 1 ELSE m
    BY <2>1
  <2>2. Passed(m, j) = Passed(x, j + 1)
    BY <2>1, WalkOn
  <2>3. w[<<m, j>>] = w[<<x, j + 1>>]
    BY <1>1, <2>1
  <2>4. Least(Passed(x, j + 1)) = (j + 1) + d /\ Passed(x, j + 1) # {}
    BY <2>2
  <2>5. w[<<x, j + 1>>] = (j + 1) + d - 1
    BY <1>4, <2>4
  <2> QED BY <2>3, <2>5
<1> HIDE DEF Ends
<1>5. Nat \subseteq S
  <2>1. 0 \in S
    BY <1>3
  <2>2. \A d \in Nat : d \in S => d + 1 \in S
    BY <1>4
  <2> HIDE DEF S
  <2> QED BY <2>1, <2>2, AllOfNat
<1>6. PICK d \in Nat : Least(Passed(k, i)) = i + d
  <2> PICK l \in Nat : l = Least(Passed(k, i)) /\ l >= i
    BY <1>2
  <2>1. l - i \in Nat /\ l = i + (l - i)
    OBVIOUS
  <2> QED BY <2>1
<1>7. Ends(d)
  BY <1>5
<1> QED BY <1>6, <1>7 DEF Ends

\* The walk of nth_prime ends, at the n-th prime.
LEMMA NthPrimeRight ==
  ASSUME NEW m \in Int
  PROVE  IF m >= 1 THEN Pipes!IsNthPrime(Pipes!NthPrime(m), m)
         ELSE Pipes!NthPrime(m) = 1
<1> DEFINE w == CHOOSE f : IsWalk(f)
           k == IF m > 0 THEN m ELSE 0
<1>1. IsWalk(w)
  BY WalkExists, Zenon
<1>2. Pipes!NthPrime(m) = w[<<k, 2>>]
  BY Zenon DEF Pipes!NthPrime, IsWalk
<1>3. k \in Nat
  OBVIOUS
<1> HIDE DEF w, k
<1> PICK l \in Nat : l = Least(Passed(k, 2)) /\ l \in Passed(k, 2)
                     /\ \A h \in Passed(k, 2) : l <= h
  <2>1. Passed(k, 2) \subseteq Nat
    BY DEF Passed
  <2> QED BY <1>3, <2>1, LeastOf, PassedSometime
<1>4. Pipes!NthPrime(m) = l - 1
  BY <1>1, <1>2, <1>3, WalkEnds, PassedSometime
<1>5. HowMany(2) = 0
  <2>1. Below(2) = {}
    BY DEF Below
  <2> QED BY <2>1, FS_EmptySet DEF HowMany
<1>6. l >= 2 /\ HowMany(l) = k
  BY <1>3, <1>5 DEF Passed
<1>7. CASE m >= 1
  <2>1. k = m /\ k # 0
    BY <1>7 DEF k
  <2>2. l # 2
    BY <1>5, <1>6, <2>1
  <2> PICK p \in Nat : l = p + 1 /\ p >= 2
    BY <1>6, <2>2
  <2>3. p \notin Passed(k, 2)
    OBVIOUS
  <2>4. HowMany(p) # k
    BY <1>3, <1>5, <2>3 DEF Passed
  <2>5. Pipes!IsPrime(p)
    BY <1>6, <2>4, OneMore
  <2>6. Pipes!PrimesTo(p) = Below(l)
    BY PrimesToRight, IsPrimeRight DEF Below
  <2>7. p \in Pipes!PrimesTo(p)
    BY <2>5, <2>6 DEF Below
  <2>8. Pipes!Cardinality(Pipes!PrimesTo(p)) = Cardinality(Below(l))
    BY <2>6, Zenon DEF Pipes!Cardinality, Cardinality
  <2>9. Pipes!IsNthPrime(p, m)
    BY <1>6, <2>1, <2>7, <2>8 DEF HowMany, Pipes!IsNthPrime
  <2> QED BY <1>4, <1>7, <2>9
<1>8. CASE ~(m >= 1)
  <2>1. k = 0
    BY <1>8 DEF k
  <2>2. 2 \in Passed(k, 2)
    BY <1>5, <2>1 DEF Passed
  <2>3. l = 2
    BY <1>6, <2>2
  <2> QED BY <1>4, <1>8, <2>3
<1> QED BY <1>7, <1>8

\* If m primes lie below a square that is an int, so does the end of the search
\* for the m-th, and the answer is the m-th prime.
LEMMA AnswersTrue ==
  ASSUME NEW m \in Int, NEW a \in Pipes!Answers(m)
  PROVE  IF m >= 1 THEN Pipes!Computable(m) => Pipes!IsNthPrime(a, m) ELSE a = 1
<1>0. INT_MAX \in Nat /\ INT_MAX >= 4
  BY SmallAssumption DEF SmallAssumption
<1>1. ASSUME Pipes!Fits(Pipes!NthPrime(m)) PROVE a = Pipes!NthPrime(m)
  BY <1>1 DEF Pipes!Answers
<1>2. CASE m >= 1
  <2>1. Pipes!IsNthPrime(Pipes!NthPrime(m), m)
    BY <1>2, NthPrimeRight
  <2> SUFFICES ASSUME Pipes!Computable(m)
               PROVE  Pipes!Fits(Pipes!NthPrime(m))
    BY <1>1, <1>2, <2>1
  <2> DEFINE p == Pipes!NthPrime(m)
  <2> HIDE DEF p
  <2> SUFFICES Pipes!Fits(p)
    BY DEF p
  <2>2. p \in Pipes!PrimesTo(p) /\ Pipes!Cardinality(Pipes!PrimesTo(p)) = m
    BY <2>1 DEF p, Pipes!IsNthPrime
  <2>3. p \in Nat /\ p >= 2
    BY <2>2 DEF Pipes!PrimesTo
  <2> PICK i \in 1 .. INT_MAX :
        i * i <= INT_MAX /\ Pipes!Cardinality(Pipes!PrimesTo(i * i)) >= m
    BY DEF Pipes!Computable
  <2> PICK s \in Nat : s = i * i
    BY <1>0
  <2>4. p < s
    <3> SUFFICES ASSUME p >= s PROVE FALSE
      BY <2>3
    <3>1. p # s
      <4> SUFFICES ASSUME p = s PROVE FALSE
        OBVIOUS
      <4>1. i # 1
        BY <2>3
      <4>2. i \in Nat /\ i >= 2
        BY <1>0, <4>1
      <4>3. Composite(p)
        BY <4>2 DEF Composite, Multiple
      <4>4. ~Composite(p)
        BY <2>2, <2>3, PrimesToRight
      <4> QED BY <4>3, <4>4
    <3>2. Pipes!PrimesTo(s) \subseteq Pipes!PrimesTo(p) \ {p}
      BY <2>3, <3>1 DEF Pipes!PrimesTo
    <3>3. IsFiniteSet(Pipes!PrimesTo(p))
      <4>1. Pipes!PrimesTo(p) \subseteq 2 .. p /\ IsFiniteSet(2 .. p)
        BY <2>3, FS_Interval DEF Pipes!PrimesTo
      <4> QED BY <4>1, FS_Subset
    <3>4. Cardinality(Pipes!PrimesTo(s)) = Pipes!Cardinality(Pipes!PrimesTo(s))
          /\ Cardinality(Pipes!PrimesTo(p)) = Pipes!Cardinality(Pipes!PrimesTo(p))
      BY Zenon DEF Pipes!Cardinality, Cardinality
    <3>5. IsFiniteSet(Pipes!PrimesTo(p) \ {p})
          /\ Cardinality(Pipes!PrimesTo(p) \ {p}) = Cardinality(Pipes!PrimesTo(p)) - 1
      BY <2>2, <3>3, FS_RemoveElement
    <3>6. Cardinality(Pipes!PrimesTo(s)) <= Cardinality(Pipes!PrimesTo(p) \ {p})
          /\ Cardinality(Pipes!PrimesTo(s)) \in Nat
      BY <3>2, <3>5, FS_Subset, FS_CardinalityType
    <3> QED BY <2>2, <3>4, <3>5, <3>6
  <2> QED BY <2>4 DEF Pipes!Fits
<1>3. CASE ~(m >= 1)
  <2>1. Pipes!NthPrime(m) = 1
    BY <1>3, NthPrimeRight
  <2>2. 2 \in 1 .. INT_MAX /\ 1 < 2 * 2 /\ 2 * 2 <= INT_MAX
    BY <1>0
  <2>3. Pipes!Fits(1)
    BY <2>2 DEF Pipes!Fits
  <2> QED BY <1>1, <1>3, <2>1, <2>3
<1> QED BY <1>2, <1>3

\* What runs of it is PrimeCalculator.
LEMMA PrimeProgram == SharedSpec => Pipes!Spec
<1>1. SharedInit => Pipes!Init
  BY DEF SharedInit
<1>2. [SharedNext]_allVars => [Pipes!Next]_(Pipes!vars)
  BY DEF SharedNext, allVars, primeVars, Pipes!vars, Pipes!pipeVars,
         Pipes!bufVars
<1> QED BY <1>1, <1>2, PTL DEF SharedSpec, Pipes!Spec

\* Of a number and its answer there is one in the pipes and the child at a
\* time, and the child ends by itself only when the parent does not read.
Asked ==
  ~childKilled =>
    /\ parent = "prompt" => child = "read" /\ toChild = <<>> /\ toParent = <<>>
    /\ parent = "read" =>
         /\ number \in Int
         /\ \/ child = "read" /\ toChild = <<number>> /\ toParent = <<>>
            \/ child = "write" /\ childBuf = number /\ toChild = <<>>
               /\ toParent = <<>>
            \/ child = "read" /\ toChild = <<>>
               /\ \E a \in Pipes!Answers(number) : toParent = <<a>>

Received ==
  received # <<>> /\ ~childKilled =>
    \E m \in Int : \E a \in Pipes!Answers(m) : received = <<m, a>>

PrimeInv == childKilled \in BOOLEAN /\ Asked /\ Received

\* Every step of the two processes keeps the numbers and their answers apart.
LEMMA PrimeStepKeeps ==
  ASSUME PrimeInv, Pipes!Next
  PROVE  PrimeInv'
<1> USE DEF PrimeInv
<1>0. Inputs \subseteq Int /\ ExitWord \notin Int /\ Garbage \notin Int
  BY SmallAssumption DEF SmallAssumption
<1>1. CASE Pipes!ChildRead
  <2>1. /\ child = "read" /\ toChild # <<>>
        /\ childBuf' = Head(toChild) /\ toChild' = Tail(toChild)
        /\ child' = IF childBuf' = ExitWord THEN "gone" ELSE "write"
        /\ UNCHANGED <<parent, toParent, number, received, childKilled>>
    BY <1>1 DEF Pipes!ChildRead
  <2>2. ASSUME ~childKilled, parent = "read"
        PROVE  /\ number \in Int /\ toParent = <<>>
               /\ childBuf' = number /\ toChild' = <<>> /\ child' = "write"
    <3>1. number \in Int /\ toChild = <<number>> /\ toParent = <<>>
      BY <2>1, <2>2 DEF Asked
    <3>2. childBuf' = number /\ toChild' = <<>>
      BY <2>1, <3>1
    <3> QED BY <1>0, <2>1, <3>1, <3>2
  <2>3. ~childKilled => parent # "prompt"
    BY <2>1 DEF Asked
  <2>4. Asked'
    BY <2>1, <2>2, <2>3 DEF Asked
  <2> QED BY <2>1, <2>4 DEF Received
<1>2. CASE Pipes!ChildReadEnd
  <2>1. /\ parent \in {"gone", "waiting"}
        /\ UNCHANGED <<parent, received, childKilled>>
    BY <1>2 DEF Pipes!ChildReadEnd, Pipes!ToChildClosed
  <2> QED BY <2>1 DEF Asked, Received
<1>3. CASE Pipes!ChildWrite
  <2>1. UNCHANGED <<parent, toChild, number, received, childKilled>>
    BY <1>3 DEF Pipes!ChildWrite
  <2>2. Received'
    BY <2>1 DEF Received
  <2>3. CASE parent \in {"gone", "waiting"}
    BY <2>1, <2>2, <2>3 DEF Asked
  <2>4. CASE parent \notin {"gone", "waiting"}
    <3>1. /\ child = "write" /\ child' = "read"
          /\ \E a \in Pipes!Answers(IF childBuf = Garbage THEN 0 ELSE childBuf) :
               toParent' = Append(toParent, a)
      BY <1>3, <2>4 DEF Pipes!ChildWrite
    <3>2. ASSUME ~childKilled, parent = "read"
          PROVE  toChild = <<>> /\ \E a \in Pipes!Answers(number) : toParent' = <<a>>
      <4>1. childBuf = number /\ number \in Int /\ toParent = <<>> /\ toChild = <<>>
        BY <3>1, <3>2 DEF Asked
      <4>2. childBuf # Garbage
        BY <1>0, <4>1
      <4>3. (IF childBuf = Garbage THEN 0 ELSE childBuf) = number
        BY <4>1, <4>2, Zenon
      <4>4. PICK a \in Pipes!Answers(number) : toParent' = Append(toParent, a)
        BY <3>1, <4>3, Zenon
      <4>5. toParent' = <<a>>
        BY <4>1, <4>4
      <4> QED BY <4>1, <4>5
    <3>3. ~childKilled => parent # "prompt"
      BY <3>1 DEF Asked
    <3> QED BY <2>1, <2>2, <3>1, <3>2, <3>3 DEF Asked
  <2> QED BY <2>3, <2>4
<1>4. CASE Pipes!ParentWrite
  <2>1. /\ parent = "prompt" /\ number' \in Int
        /\ \/ child = "gone" /\ parent' = "gone"
           \/ child # "gone" /\ toChild' = Append(toChild, number') /\ parent' = "read"
        /\ UNCHANGED <<child, toParent, received, childKilled>>
    BY <1>0, <1>4 DEF Pipes!ParentWrite, Pipes!ToParentClosed
  <2>2. ~childKilled => child = "read" /\ toChild = <<>> /\ toParent = <<>>
    BY <2>1 DEF Asked
  <2>3. ~childKilled => toChild' = <<number'>> /\ parent' = "read"
    BY <2>1, <2>2
  <2>4. Asked'
    BY <2>1, <2>2, <2>3 DEF Asked
  <2> QED BY <2>1, <2>4 DEF Received
<1>5. CASE Pipes!ParentRead
  <2>1. /\ parent = "read" /\ parent' = "prompt"
        /\ received' = <<number, parentBuf'>>
        /\ \/ /\ toParent # <<>>
              /\ parentBuf' = Head(toParent) /\ toParent' = Tail(toParent)
           \/ toParent = <<>> /\ child = "gone"
        /\ UNCHANGED <<child, toChild, childKilled>>
    BY <1>5 DEF Pipes!ParentRead, Pipes!ToParentClosed
  <2>2. ASSUME ~childKilled
        PROVE  /\ child = "read" /\ toChild = <<>> /\ number \in Int
               /\ \E a \in Pipes!Answers(number) : toParent = <<a>>
    BY <2>1, <2>2 DEF Asked
  <2>3. ASSUME ~childKilled
        PROVE  parentBuf' \in Pipes!Answers(number) /\ toParent' = <<>>
    <3>1. PICK a \in Pipes!Answers(number) : toParent = <<a>>
      BY <2>2, <2>3
    <3>2. parentBuf' = Head(toParent) /\ toParent' = Tail(toParent)
      BY <2>1, <3>1
    <3>3. parentBuf' = a /\ toParent' = <<>>
      BY <3>1, <3>2
    <3> QED BY <3>1, <3>3
  <2> QED BY <2>1, <2>2, <2>3 DEF Asked, Received
<1>6. CASE Pipes!ParentExit \/ Pipes!ParentWait \/ Pipes!KillParent
  <2>1. parent' \in {"gone", "waiting"} /\ UNCHANGED <<received, childKilled>>
    BY <1>6 DEF Pipes!ParentExit, Pipes!ParentWait, Pipes!KillParent
  <2> QED BY <2>1 DEF Asked, Received
<1>7. CASE Pipes!KillChild
  BY <1>7 DEF Pipes!KillChild, Asked, Received
<1> QED
  BY <1>1, <1>2, <1>3, <1>4, <1>5, <1>6, <1>7
  DEF Pipes!Next, Pipes!Child, Pipes!Parent

\* What the parent prints for n is the n-th prime, for every n and every width
\* of an int that holds a square above this prime.
THEOREM PrimesAreRight == SharedSpec => []PrimesRight
<1>1. Pipes!Init => PrimeInv
  BY DEF Pipes!Init, PrimeInv, Asked, Received
<1>2. PrimeInv /\ [Pipes!Next]_(Pipes!vars) => PrimeInv'
  <2> SUFFICES ASSUME PrimeInv, UNCHANGED Pipes!vars PROVE PrimeInv'
    BY PrimeStepKeeps
  <2> QED BY DEF Pipes!vars, Pipes!pipeVars, Pipes!bufVars, PrimeInv, Asked, Received
<1>3. PrimeInv => PrimesRight
  <2> SUFFICES ASSUME PrimeInv, received # <<>>, ~childKilled
               PROVE  IF received[1] >= 1
                      THEN Pipes!Computable(received[1])
                           => Pipes!IsNthPrime(received[2], received[1])
                      ELSE received[2] = 1
    BY DEF PrimesRight, Pipes!AnswersRight
  <2>1. PICK m \in Int : \E a \in Pipes!Answers(m) : received = <<m, a>>
    BY DEF PrimeInv, Received
  <2>2. PICK a \in Pipes!Answers(m) : received = <<m, a>>
    BY <2>1
  <2>3. received[1] = m /\ received[2] = a
    BY <2>2
  <2> QED BY <2>3, AnswersTrue
<1> QED BY <1>1, <1>2, <1>3, PrimeProgram, PTL DEF Pipes!Spec

-----------------------------------------------------------------------------
(* CalculatorServer: the arithmetic of an int of any width, and who gets   *)
(* which answer.                                                           *)

\* What runs of it is CalculatorServer.
LEMMA CalculatorProgram == SharedSpec => Calc!Spec
<1>1. SharedInit => Calc!Init
  BY DEF SharedInit
<1>2. [SharedNext]_allVars => [Calc!Next]_(Calc!vars)
  BY DEF SharedNext, allVars, callVars, Calc!vars, Calc!serverVars,
         Calc!clientVars
<1> QED BY <1>1, <1>2, PTL DEF SharedSpec, Calc!Spec

\* Wrap is two's complement.
LEMMA WrapAgrees ==
  ASSUME NEW n \in Int
  PROVE  Calc!Agrees(Calc!Wrap(n), n)
<1> DEFINE d == 2 * Half
           m == n + Half
           w == m % d
<1>1. Half \in Nat \ {0} /\ d \in Nat \ {0} /\ m \in Int
  BY SmallAssumption DEF SmallAssumption
<1>2. w \in 0 .. d - 1
  BY <1>1, RemainderLeft
<1>3. PICK q \in Int : m = d * q + w
  BY <1>1, RemainderLeft
<1>4. Calc!Wrap(n) = w - Half
  BY <1>1 DEF Calc!Wrap, Calc!IntMin
<1> HIDE DEF w
<1>5. Calc!Wrap(n) \in Calc!Ints
  BY <1>1, <1>2, <1>4 DEF Calc!Ints, Calc!IntMin, Calc!IntMax
<1> DEFINE p == -q
<1>6. Calc!Wrap(n) - n = d * p
  <2>1. d * p = -(d * q)
    BY <1>1
  <2> HIDE DEF d
  <2>2. d * q \in Int
    BY <1>1
  <2>3. w - Half - n = -(d * q)
    BY <1>1, <1>2, <1>3, <2>2
  <2> QED BY <1>4, <2>1, <2>3
<1>7. p \in Int
  OBVIOUS
<1> HIDE DEF p, d
<1>8. (Calc!Wrap(n) - n) % d = 0
  BY <1>1, <1>6, <1>7, MultipleLeavesNothing
<1> QED BY <1>5, <1>8 DEF Calc!Agrees, d

\* The rest has the sign of the dividend.
LEMMA RestOfSign ==
  ASSUME NEW a \in Int, NEW x \in Int, x = IF a < 0 THEN -a ELSE a,
         NEW z \in Int, NEW m \in Int, m = IF a < 0 THEN -z ELSE z
  PROVE  a - m = IF a < 0 THEN -(x - z) ELSE x - z
  OBVIOUS

\* A division that does not trap leaves an int, and the right one.
LEMMA QuotientRight ==
  ASSUME NEW a \in Calc!Ints, NEW b \in Calc!Ints, ~Calc!Traps(a, b)
  PROVE  /\ Calc!Quotient(a, b) \in Calc!Ints
         /\ Calc!Divides(Calc!Quotient(a, b), a, b)
<1>1. Half \in Nat \ {0}
  BY SmallAssumption DEF SmallAssumption
<1>2. /\ a \in Int /\ -Half <= a /\ a < Half
      /\ b \in Int /\ -Half <= b /\ b < Half
      /\ b # 0 /\ ~(a = -Half /\ b = -1)
  BY <1>1 DEF Calc!Traps, Calc!Ints, Calc!IntMin, Calc!IntMax
<1> PICK x \in Nat : x = Calc!Abs(a)
  BY <1>2 DEF Calc!Abs
<1> PICK y \in Nat \ {0} : y = Calc!Abs(b)
  BY <1>2 DEF Calc!Abs
<1>3. x = (IF a < 0 THEN -a ELSE a) /\ y = (IF b < 0 THEN -b ELSE b)
  BY DEF Calc!Abs
<1> PICK q \in Nat : q = x \div y
  BY QuotientBounds
<1> PICK z \in Int : z = y * q
  OBVIOUS
<1>4. z <= x /\ x < z + y
  <2>1. y * q <= x /\ x < y * (q + 1)
    BY QuotientBounds
  <2>2. y * (q + 1) = y * q + y
    OBVIOUS
  <2> QED BY <2>1, <2>2
<1>5. q <= z /\ (y # 1 /\ q # 0 => q < z)
  <2>1. q * 1 <= q * y /\ (y >= 2 => q * 2 <= q * y)
    BY TimesMonotone
  <2>2. q * y = y * q
    OBVIOUS
  <2> QED BY <2>1, <2>2
<1> PICK r \in Int : r = Calc!Quotient(a, b)
  BY <1>2 DEF Calc!Quotient, Calc!Abs
<1>6. r = IF (a < 0) = (b < 0) THEN q ELSE -q
  BY DEF Calc!Quotient
<1>7. r * b = IF a < 0 THEN -z ELSE z
  <2>1. r \in {q, -q} /\ b \in {y, -y}
    BY <1>2, <1>3, <1>6
  <2>2. /\ q * y = y * q /\ q * (-y) = -(y * q)
        /\ (-q) * y = -(y * q) /\ (-q) * (-y) = y * q
    OBVIOUS
  <2>3. CASE a < 0 /\ b < 0
    <3>1. r = q /\ b = -y
      BY <1>2, <1>3, <1>6, <2>3
    <3> QED BY <2>2, <2>3, <3>1
  <2>4. CASE a < 0 /\ ~(b < 0)
    <3>1. r = -q /\ b = y
      BY <1>2, <1>3, <1>6, <2>4
    <3> QED BY <2>2, <2>4, <3>1
  <2>5. CASE ~(a < 0) /\ b < 0
    <3>1. r = -q /\ b = -y
      BY <1>2, <1>3, <1>6, <2>5
    <3> QED BY <2>2, <2>5, <3>1
  <2>6. CASE ~(a < 0) /\ ~(b < 0)
    <3>1. r = q /\ b = y
      BY <1>2, <1>3, <1>6, <2>6
    <3> QED BY <2>2, <2>6, <3>1
  <2> QED BY <2>3, <2>4, <2>5, <2>6
<1> PICK rest \in Int : rest = a - r * b
  BY <1>2
<1>8. rest = IF a < 0 THEN -(x - z) ELSE x - z
  <2>1. r * b \in Int
    BY <1>2
  <2> QED BY <1>2, <1>3, <1>7, <2>1, RestOfSign
<1>9. Calc!Divides(r, a, b)
  <2>1. Calc!Abs(rest) < Calc!Abs(b)
    <3>1. Calc!Abs(rest) = IF rest < 0 THEN -rest ELSE rest
      BY DEF Calc!Abs
    <3>2. Calc!Abs(rest) < y
      BY <1>3, <1>4, <1>8, <3>1
    <3> QED BY <3>2
  <2>2. rest # 0 => (rest < 0) = (a < 0)
    BY <1>2, <1>3, <1>4, <1>8
  <2> QED BY <2>1, <2>2 DEF Calc!Divides
<1>10. r \in Calc!Ints
  <2>1. q <= Half /\ (q = Half => a = -Half /\ y = 1)
    BY <1>1, <1>2, <1>3, <1>4, <1>5
  <2>2. q = Half => b = 1
    BY <1>2, <1>3, <2>1
  <2>3. -Half <= r /\ r < Half
    BY <1>1, <1>2, <1>6, <2>1, <2>2
  <2> QED BY <1>1, <2>3 DEF Calc!Ints, Calc!IntMin, Calc!IntMax
<1> QED BY <1>9, <1>10

\* What a client may be answered for a line with both its numbers.
Answers(l, r) ==
  /\ l.op = "ADD" => Calc!Agrees(r, l.a + l.b)
  /\ l.op = "SUB" => Calc!Agrees(r, l.a - l.b)
  /\ l.op = "MUL" => Calc!Agrees(r, l.a * l.b)
  /\ l.op = "DIV" => Calc!Divides(r, l.a, l.b)

Unsent(c) == callerPc[c] \in {"start", "typing"}

CallTypeOK ==
  /\ server \in {"accept", "recv", "send", "close", "dead"}
  /\ backlog \in Seq(Clients) /\ client_socket \in Clients \cup {None}
  /\ callerPc \in [Clients -> {"start", "typing", "waiting", "done", "killed"}]
  /\ mess \in [Clients -> Calc!Lines]
  /\ reply \in Int /\ answer \in [Clients -> Int \cup {None}]

\* The server is with a client; one that has not sent its line has no answer.
CallPlaces ==
  /\ server \in {"recv", "send", "close"} => client_socket \in Clients
  /\ \A c \in Clients : Unsent(c) => mess[c].op = "" /\ answer[c] = None

\* The result is that of the line of the client that the server is with, which
\* cannot send another.
ReplyRight ==
  server = "send" =>
    /\ ~Unsent(client_socket)
    /\ Calc!Complete(mess[client_socket]) => Answers(mess[client_socket], reply)

SentRight ==
  \A c \in Clients :
    answer[c] # None /\ Calc!Complete(mess[c]) => Answers(mess[c], answer[c])

\* Nobody sends to a dead server, and it died of a division.
DeadOfDivision ==
  server = "dead" =>
    /\ \A c \in Clients : callerPc[c] # "typing"
    /\ \E c \in Clients : /\ ~Unsent(c) /\ mess[c].op = "DIV"
                          /\ Calc!Complete(mess[c]) =>
                               Calc!Traps(mess[c].a, mess[c].b)

CallInv == CallTypeOK /\ CallPlaces /\ ReplyRight /\ SentRight /\ DeadOfDivision

\* Ints are numbers.
LEMMA IntsAreInt == Calc!Ints \subseteq Int /\ Half \in Nat \ {0}
  BY SmallAssumption DEF SmallAssumption, Calc!Ints

\* The stream gives a complete line its two numbers.
LEMMA PairOfComplete ==
  ASSUME NEW l, Calc!Complete(l)
  PROVE  Calc!Pairs(l) = {<<l.a, l.b>>}
<1>1. \A n \in Calc!Ints : Calc!Extract(n) = {n}
  <2>1. \A n \in Calc!Ints : n # Huge /\ n # Word /\ n # Missing
    BY IntsAreInt, SmallAssumption DEF SmallAssumption
  <2> QED BY <2>1 DEF Calc!Extract
<1> QED BY <1>1 DEF Calc!Pairs, Calc!Complete

\* What the stream gives of any argument is an int.
LEMMA PairsAreInts ==
  ASSUME NEW l \in Calc!Lines
  PROVE  Calc!Pairs(l) \subseteq Calc!Ints \X Calc!Ints
<1>0. Half \in Nat \ {0}
  BY IntsAreInt
<1>1. ASSUME NEW n \in Calc!Arguments PROVE Calc!Extract(n) \subseteq Calc!Ints
  <2>1. {0, Calc!IntMin, Calc!IntMax} \subseteq Calc!Ints
    BY <1>0 DEF Calc!Ints, Calc!IntMin, Calc!IntMax
  <2>2. n \in Calc!Ints \/ n = Huge \/ n = Word \/ n = Missing
    BY <1>1 DEF Calc!Arguments
  <2> QED BY <2>1, <2>2 DEF Calc!Extract
<1>2. l.a \in Calc!Arguments /\ l.b \in Calc!Arguments
  BY DEF Calc!Lines
<1> QED BY <1>1, <1>2 DEF Calc!Pairs

\* What the server computes of two ints that do not trap.
LEMMA ResultsRight ==
  ASSUME NEW op, NEW a \in Calc!Ints, NEW b \in Calc!Ints,
         ~(op = "DIV" /\ Calc!Traps(a, b)), NEW r \in Calc!Results(op, a, b)
  PROVE  /\ r \in Calc!Ints
         /\ op = "ADD" => Calc!Agrees(r, a + b)
         /\ op = "SUB" => Calc!Agrees(r, a - b)
         /\ op = "MUL" => Calc!Agrees(r, a * b)
         /\ op = "DIV" => Calc!Divides(r, a, b)
<1>1. a \in Int /\ b \in Int
  BY IntsAreInt
<1>2. a + b \in Int /\ a - b \in Int /\ a * b \in Int
  BY <1>1
<1>3. /\ op = "ADD" => r = Calc!Wrap(a + b)
      /\ op = "SUB" => r = Calc!Wrap(a - b)
      /\ op = "MUL" => r = Calc!Wrap(a * b)
      /\ op = "DIV" => r = Calc!Quotient(a, b)
      /\ op \notin {"ADD", "SUB", "MUL", "DIV"} => r \in Calc!Ints
  BY DEF Calc!Results
<1>4. \A n \in Int : Calc!Agrees(Calc!Wrap(n), n) /\ Calc!Wrap(n) \in Calc!Ints
  BY WrapAgrees DEF Calc!Agrees
<1>5. op = "DIV" => r \in Calc!Ints /\ Calc!Divides(r, a, b)
  BY <1>3, QuotientRight
<1> QED BY <1>2, <1>3, <1>4, <1>5

\* No line is sent at the start.
LEMMA CallStart == Calc!Init => CallInv
<1> SUFFICES ASSUME Calc!Init PROVE CallInv
  OBVIOUS
<1>1. Calc!Blank \in Calc!Lines
  BY DEF Calc!Blank, Calc!Lines, Calc!Arguments
<1>2. CallTypeOK
  BY <1>1 DEF Calc!Init, CallTypeOK
<1>3. CallPlaces /\ ReplyRight /\ SentRight /\ DeadOfDivision
  BY DEF Calc!Init, CallPlaces, ReplyRight, SentRight, DeadOfDivision, Unsent,
         Calc!Blank
<1> QED BY <1>2, <1>3 DEF CallInv

\* A step of the server answers the client that it is with.
LEMMA ServerStepKeeps ==
  ASSUME CallInv, Calc!ServerStep
  PROVE  CallInv'
<1> USE DEF CallInv
<1>1. CASE Calc!Accept
  <2>1. /\ server = "accept" /\ server' = "recv"
        /\ client_socket' \in Clients /\ backlog' \in Seq(Clients)
        /\ UNCHANGED <<reply, callerPc, mess, answer>>
    BY <1>1 DEF Calc!Accept, CallTypeOK, Calc!clientVars
  <2> QED BY <2>1 DEF CallTypeOK, CallPlaces, ReplyRight, SentRight,
                      DeadOfDivision, Unsent
<1>2. CASE Calc!Recv
  <2> PICK c \in Clients : c = client_socket
    BY <1>2 DEF Calc!Recv, CallPlaces
  <2>1. PICK ab \in Calc!Pairs(mess[c]) :
          IF mess[c].op = "DIV" /\ Calc!Traps(ab[1], ab[2])
          THEN Calc!Die
          ELSE /\ reply' \in Calc!Results(mess[c].op, ab[1], ab[2])
               /\ server' = "send"
               /\ UNCHANGED <<client_socket, backlog, callerPc, mess, answer>>
    BY <1>2 DEF Calc!Recv, Calc!clientVars
  <2>2. mess[c] \in Calc!Lines /\ mess[c].op # "" /\ server = "recv"
    BY <1>2 DEF Calc!Recv, Calc!Arrived, CallTypeOK
  <2>3. ab[1] \in Calc!Ints /\ ab[2] \in Calc!Ints
    BY <2>2, PairsAreInts
  <2>4. Calc!Complete(mess[c]) => ab[1] = mess[c].a /\ ab[2] = mess[c].b
    BY PairOfComplete
  <2>5. ~Unsent(c)
    BY <2>2 DEF CallPlaces
  <2>6. CASE mess[c].op = "DIV" /\ Calc!Traps(ab[1], ab[2])
    <3>1. /\ server' = "dead" /\ client_socket' = None /\ backlog' = <<>>
          /\ callerPc' = [d \in Clients |-> IF Calc!Here(d) THEN "done"
                                            ELSE callerPc[d]]
          /\ reply' = 0 /\ UNCHANGED <<mess, answer>>
      BY <2>1, <2>6 DEF Calc!Die
    <3>2. callerPc' \in [Clients -> {"start", "typing", "waiting", "done", "killed"}]
      BY <3>1 DEF CallTypeOK
    <3>3. \A d \in Clients : callerPc'[d] # "typing" /\ (Unsent(d)' => Unsent(d))
      BY <3>1 DEF Calc!Here, Unsent
    <3>4. CallTypeOK'
      BY <3>1, <3>2 DEF CallTypeOK
    <3>5. CallPlaces' /\ ReplyRight' /\ SentRight'
      BY <3>1, <3>3 DEF CallPlaces, ReplyRight, SentRight
    <3>6. ~Unsent(c)'
      BY <2>5, <3>3
    <3>7. DeadOfDivision'
      BY <2>4, <2>6, <3>1, <3>3, <3>6 DEF DeadOfDivision
    <3> QED BY <3>4, <3>5, <3>7
  <2>7. CASE ~(mess[c].op = "DIV" /\ Calc!Traps(ab[1], ab[2]))
    <3>1. /\ reply' \in Calc!Results(mess[c].op, ab[1], ab[2])
          /\ server' = "send"
          /\ UNCHANGED <<client_socket, backlog, callerPc, mess, answer>>
      BY <2>1, <2>7
    <3>2. /\ reply' \in Calc!Ints
          /\ mess[c].op = "ADD" => Calc!Agrees(reply', ab[1] + ab[2])
          /\ mess[c].op = "SUB" => Calc!Agrees(reply', ab[1] - ab[2])
          /\ mess[c].op = "MUL" => Calc!Agrees(reply', ab[1] * ab[2])
          /\ mess[c].op = "DIV" => Calc!Divides(reply', ab[1], ab[2])
      BY <2>3, <2>7, <3>1, ResultsRight
    <3>3. Calc!Complete(mess[c]) => Answers(mess[c], reply')
      BY <2>4, <3>2 DEF Answers
    <3>4. reply' \in Int
      BY <3>2, IntsAreInt
    <3>5. CallTypeOK'
      BY <3>1, <3>4 DEF CallTypeOK
    <3>6. ReplyRight'
      BY <2>5, <3>1, <3>3 DEF ReplyRight, Unsent
    <3>7. CallPlaces' /\ SentRight' /\ DeadOfDivision'
      BY <3>1 DEF CallPlaces, SentRight, DeadOfDivision, Unsent
    <3> QED BY <3>5, <3>6, <3>7
  <2> QED BY <2>6, <2>7
<1>3. CASE Calc!RecvNothing
  <2> PICK c \in Clients : c = client_socket
    BY <1>3 DEF Calc!RecvNothing, CallPlaces
  <2>1. /\ server = "recv" /\ mess[c].op = "" /\ callerPc[c] = "killed"
        /\ reply' \in Calc!Ints /\ server' = "send"
        /\ UNCHANGED <<client_socket, backlog, callerPc, mess, answer>>
    BY <1>3 DEF Calc!RecvNothing, Calc!Arrived, Calc!clientVars
  <2>2. reply' \in Int
    BY <2>1, IntsAreInt
  <2>3. CallTypeOK'
    BY <2>1, <2>2 DEF CallTypeOK
  <2>4. ReplyRight'
    BY <2>1 DEF ReplyRight, Unsent, Calc!Complete, Calc!Operations
  <2>5. CallPlaces' /\ SentRight' /\ DeadOfDivision'
    BY <2>1 DEF CallPlaces, SentRight, DeadOfDivision, Unsent
  <2> QED BY <2>3, <2>4, <2>5
<1>4. CASE Calc!Send
  <2> PICK c \in Clients : c = client_socket
    BY <1>4 DEF Calc!Send, CallPlaces
  <2>1. /\ server = "send" /\ server' = "close"
        /\ answer' = answer \/ answer' = [answer EXCEPT ![c] = reply]
        /\ UNCHANGED <<client_socket, reply, backlog, callerPc, mess>>
    BY <1>4 DEF Calc!Send
  <2>2. /\ answer' \in [Clients -> Int \cup {None}]
        /\ answer'[c] \in {answer[c], reply}
        /\ \A d \in Clients \ {c} : answer'[d] = answer[d]
    BY <2>1 DEF CallTypeOK
  <2>3. ~Unsent(c) /\ (Calc!Complete(mess[c]) => Answers(mess[c], reply))
    BY <2>1 DEF ReplyRight
  <2>4. CallTypeOK'
    BY <2>1, <2>2 DEF CallTypeOK
  <2>5. CallPlaces'
    BY <2>1, <2>2, <2>3 DEF CallPlaces, Unsent
  <2>6. SentRight'
    BY <2>1, <2>2, <2>3 DEF SentRight
  <2>7. ReplyRight' /\ DeadOfDivision'
    BY <2>1 DEF ReplyRight, DeadOfDivision
  <2> QED BY <2>4, <2>5, <2>6, <2>7
<1>5. CASE Calc!Close
  <2>1. /\ server' = "accept" /\ client_socket' = None /\ reply' = 0
        /\ UNCHANGED <<backlog, callerPc, mess, answer>>
    BY <1>5 DEF Calc!Close, Calc!clientVars
  <2>2. CallTypeOK'
    BY <2>1 DEF CallTypeOK
  <2>3. CallPlaces' /\ ReplyRight' /\ SentRight' /\ DeadOfDivision'
    BY <2>1 DEF CallPlaces, ReplyRight, SentRight, DeadOfDivision, Unsent
  <2> QED BY <2>2, <2>3
<1> QED BY <1>1, <1>2, <1>3, <1>4, <1>5 DEF Calc!ServerStep

\* A step of a client changes no line that the server has read.
LEMMA CallerStepKeeps ==
  ASSUME CallInv, NEW c \in Clients,
         Calc!Connect(c) \/ Calc!SendLine(c) \/ Calc!RecvAnswer(c) \/ Calc!Kill(c)
  PROVE  CallInv'
<1> USE DEF CallInv
<1>1. CASE Calc!SendLine(c)
  <2>1. PICK l \in Requests[c] : mess' = [mess EXCEPT ![c] = l]
    BY <1>1 DEF Calc!SendLine
  <2>2. l \in Calc!Lines
    BY SmallAssumption DEF SmallAssumption
  <2>3. /\ callerPc[c] = "typing"
        /\ callerPc' = [callerPc EXCEPT ![c] = "waiting"]
        /\ UNCHANGED <<server, client_socket, reply, backlog, answer>>
    BY <1>1 DEF Calc!SendLine, Calc!serverVars
  <2>4. /\ callerPc'[c] = "waiting"
        /\ \A d \in Clients \ {c} : callerPc'[d] = callerPc[d] /\ mess'[d] = mess[d]
    BY <2>1, <2>3 DEF CallTypeOK
  <2>5. CallTypeOK'
    BY <2>1, <2>2, <2>3 DEF CallTypeOK
  <2>6. answer[c] = None /\ Unsent(c)
    BY <2>3 DEF CallPlaces, Unsent
  <2>7. CallPlaces'
    BY <2>3, <2>4 DEF CallPlaces, Unsent
  <2>8. ReplyRight'
    <3> SUFFICES ASSUME server = "send"
                 PROVE  /\ ~Unsent(client_socket)'
                        /\ Calc!Complete(mess'[client_socket]) =>
                             Answers(mess'[client_socket], reply)
      BY <2>3 DEF ReplyRight
    <3>1. client_socket \in Clients \ {c}
      BY <2>6 DEF ReplyRight, CallPlaces
    <3> QED BY <2>3, <2>4, <3>1 DEF ReplyRight, Unsent
  <2>9. SentRight'
    BY <2>3, <2>4, <2>6 DEF SentRight
  <2>10. DeadOfDivision'
    BY <2>3 DEF DeadOfDivision
  <2> QED BY <2>5, <2>7, <2>8, <2>9, <2>10
<1>2. CASE ~Calc!SendLine(c)
  <2>1. PICK l \in {"typing", "done", "killed"} :
          /\ callerPc' = [callerPc EXCEPT ![c] = l]
          /\ l = "typing" => callerPc[c] = "start" /\ server # "dead"
          /\ UNCHANGED <<server, client_socket, reply, mess, answer>>
    BY <1>2 DEF Calc!Connect, Calc!RecvAnswer, Calc!Kill, Calc!serverVars
  <2>2. backlog' \in Seq(Clients)
    BY <1>2 DEF Calc!Connect, Calc!RecvAnswer, Calc!Kill, CallTypeOK
  <2>3. /\ callerPc'[c] = l
        /\ \A d \in Clients \ {c} : callerPc'[d] = callerPc[d]
    BY <2>1 DEF CallTypeOK
  <2>4. \A d \in Clients : Unsent(d)' => Unsent(d)
    BY <2>1, <2>3 DEF Unsent
  <2>5. CallTypeOK'
    BY <2>1, <2>2 DEF CallTypeOK
  <2>6. CallPlaces'
    BY <2>1, <2>4 DEF CallPlaces
  <2>7. ReplyRight'
    BY <2>1, <2>4 DEF ReplyRight, CallPlaces, Unsent
  <2>8. SentRight'
    BY <2>1 DEF SentRight
  <2>9. DeadOfDivision'
    BY <2>1, <2>3, <2>4 DEF DeadOfDivision
  <2> QED BY <2>5, <2>6, <2>7, <2>8, <2>9
<1> QED BY <1>1, <1>2

\* The result is that of the right line in every state.
LEMMA CallInvariant == SharedSpec => []CallInv
<1>1. CallInv /\ [Calc!Next]_(Calc!vars) => CallInv'
  <2> SUFFICES ASSUME CallInv, [Calc!Next]_(Calc!vars) PROVE CallInv'
    OBVIOUS
  <2>1. CASE UNCHANGED Calc!vars
    BY <2>1 DEF Calc!vars, Calc!serverVars, Calc!clientVars, CallInv, CallTypeOK,
       CallPlaces, ReplyRight, SentRight, DeadOfDivision, Unsent
  <2>2. CASE Calc!RecvFails
    <3>1. /\ server = "recv" /\ server' = "close"
          /\ UNCHANGED <<client_socket, reply, backlog, callerPc, mess, answer>>
      BY <2>2 DEF Calc!RecvFails, Calc!clientVars
    <3> QED BY <3>1 DEF CallInv, CallTypeOK, CallPlaces, ReplyRight, SentRight,
               DeadOfDivision, Unsent
  <2> QED BY <2>1, <2>2, ServerStepKeeps, CallerStepKeeps DEF Calc!Next
<1> QED BY <1>1, CallStart, CalculatorProgram, PTL DEF Calc!Spec

\* An answered client has the result of its own line, for an int of any width
\* and whatever the other clients send.
THEOREM AnswersAreRight == SharedSpec => []AnswersRight
<1>1. CallInv => AnswersRight
  <2> SUFFICES ASSUME CallInv, NEW c \in Clients,
                      answer[c] # None, Calc!Complete(mess[c])
               PROVE  CASE mess[c].op = "ADD" ->
                             Calc!Agrees(answer[c], mess[c].a + mess[c].b)
                        [] mess[c].op = "SUB" ->
                             Calc!Agrees(answer[c], mess[c].a - mess[c].b)
                        [] mess[c].op = "MUL" ->
                             Calc!Agrees(answer[c], mess[c].a * mess[c].b)
                        [] mess[c].op = "DIV" ->
                             Calc!Divides(answer[c], mess[c].a, mess[c].b)
    BY Zenon DEF AnswersRight, Calc!AnswersRight
  <2>1. Answers(mess[c], answer[c])
    BY DEF CallInv, SentRight
  <2>2. mess[c].op \in {"ADD", "SUB", "MUL", "DIV"}
    BY DEF Calc!Complete, Calc!Operations
  <2> QED BY <2>1, <2>2 DEF Answers
<1> QED BY <1>1, CallInvariant, PTL

\* Only a division ends the server, whatever is sent and whoever is killed.
THEOREM OnlyDivisionEnds == SharedSpec => []ServerSurvives
<1>1. CallInv => ServerSurvives
  BY DEF CallInv, DeadOfDivision, ServerSurvives, Calc!ServerSurvives
<1> QED BY <1>1, CallInvariant, PTL

-----------------------------------------------------------------------------
(* Dining philosophers.                                                    *)

\* The program "table" is a table of Places philosophers.
LEMMA TableProgram == SharedSpec => Table!Spec
<1>1. SharedInit => Table!Init
  BY DEF SharedInit
<1>2. [SharedNext]_allVars => [Table!Next]_(Table!vars)
  BY DEF SharedNext, allVars, tableVars, Table!vars
<1> QED BY <1>1, <1>2, PTL DEF SharedSpec, Table!Spec

\* Each hand of each philosopher is a stick, and its two hands are different.
LEMMA HandsAreSticks ==
  ASSUME NEW p \in Table!Philosophers
  PROVE  /\ Table!Left(p) \in Table!Sticks /\ Table!Right(p) \in Table!Sticks
         /\ Table!Left(p) # Table!Right(p)
         /\ Table!NextTo(p) \in Table!Philosophers
  BY SmallAssumption DEF Table!Left, Table!Right, Table!Hands, Table!NextTo,
     Table!Sticks, Table!Philosophers

\* Neighbours share the stick between them.
LEMMA NeighboursShare ==
  ASSUME NEW p \in Table!Philosophers
  PROVE  LET q == Table!NextTo(p)
         IN  q \in {Table!Left(p), Table!Right(p)} /\ q \in {Table!Left(q), Table!Right(q)}
  BY SmallAssumption DEF Table!Left, Table!Right, Table!Hands, Table!NextTo,
     Table!Sticks, Table!Philosophers

\* The strengthening: a stick is on the table unless one philosopher, and only
\* one, holds it, or somebody died.
TableInv == Table!TypeOK /\ Table!SticksHeld

\* All sticks lie on the table at first.
LEMMA TableInit == Table!Init => TableInv
  BY SmallAssumption
  DEF Table!Init, TableInv, Table!TypeOK, Table!SticksHeld, Table!StickInv,
     Table!Holds, Table!Sticks, Table!Philosophers

\* Every philosopher keeps it, and so does a killed one.
LEMMA TableStepKeeps == TableInv /\ [Table!Next]_(Table!vars) => TableInv'
<1> SUFFICES ASSUME TableInv, [Table!Next]_(Table!vars) PROVE TableInv'
  OBVIOUS
<1> USE DEF TableInv, Table!TypeOK, Table!Goto
<1>1. ASSUME NEW p \in Table!Philosophers, Table!Think(p) PROVE TableInv'
  BY <1>1 DEF Table!Think, Table!SticksHeld, Table!StickInv, Table!Holds
<1>2. ASSUME NEW p \in Table!Philosophers, Table!WaitLeft(p) PROVE TableInv'
  <2>0. /\ Table!Left(p) \in Table!Sticks /\ Table!Right(p) \in Table!Sticks
        /\ Table!Left(p) # Table!Right(p)
    BY HandsAreSticks
  <2>z. sticks[Table!Left(p)] = 1
    <3>1. sticks[Table!Left(p)] \in {0, 1} /\ sticks[Table!Left(p)] > 0
      BY <1>2, <2>0 DEF Table!WaitLeft, Table!Wait
    <3> QED BY <3>1
  <2>1. /\ place[p] = "left" /\ place' = [place EXCEPT ![p] = "right"]
        /\ sticks[Table!Left(p)] = 1
        /\ sticks' = [sticks EXCEPT ![Table!Left(p)] = 0]
    BY <1>2, <2>0, <2>z DEF Table!WaitLeft, Table!Wait
  <2>2. Table!TypeOK'
    BY <2>0, <2>1
  <2>3. \A q \in Table!Philosophers, s \in Table!Sticks :
          Table!Holds(q, s)' <=> Table!Holds(q, s) \/ (q = p /\ s = Table!Left(p))
    BY <2>0, <2>1 DEF Table!Holds
  <2>a. \A q \in Table!Philosophers : place[q]' = "dead" <=> place[q] = "dead"
    BY <2>1
  <2>b. \A s \in Table!Sticks : s # Table!Left(p) => sticks'[s] = sticks[s]
    BY <2>0, <2>1
  <2>c. sticks[Table!Left(p)] = 1 /\ sticks'[Table!Left(p)] = 0
    BY <2>0, <2>1
  <2>4. Table!SticksHeld'
    <3> SUFFICES ASSUME NEW s \in Table!Sticks PROVE Table!StickInv(s)'
      BY DEF Table!SticksHeld
    <3>1. CASE s = Table!Left(p)
      BY <3>1, <2>3, <2>c DEF Table!SticksHeld, Table!StickInv
    <3>2. CASE s # Table!Left(p)
      BY <3>2, <2>3, <2>a, <2>b DEF Table!SticksHeld, Table!StickInv
    <3> QED BY <3>1, <3>2
  <2> QED BY <2>2, <2>4
<1>3. ASSUME NEW p \in Table!Philosophers, Table!WaitRight(p) PROVE TableInv'
  <2>0. /\ Table!Left(p) \in Table!Sticks /\ Table!Right(p) \in Table!Sticks
        /\ Table!Left(p) # Table!Right(p)
    BY HandsAreSticks
  <2>z. sticks[Table!Right(p)] = 1
    <3>1. sticks[Table!Right(p)] \in {0, 1} /\ sticks[Table!Right(p)] > 0
      BY <1>3, <2>0 DEF Table!WaitRight, Table!Wait
    <3> QED BY <3>1
  <2>1. /\ place[p] = "right" /\ place' = [place EXCEPT ![p] = "eat"]
        /\ sticks[Table!Right(p)] = 1
        /\ sticks' = [sticks EXCEPT ![Table!Right(p)] = 0]
    BY <1>3, <2>0, <2>z DEF Table!WaitRight, Table!Wait
  <2>2. Table!TypeOK'
    BY <2>0, <2>1
  <2>3. \A q \in Table!Philosophers, s \in Table!Sticks :
          Table!Holds(q, s)' <=> Table!Holds(q, s) \/ (q = p /\ s = Table!Right(p))
    BY <2>0, <2>1 DEF Table!Holds
  <2>a. \A q \in Table!Philosophers : place[q]' = "dead" <=> place[q] = "dead"
    BY <2>1
  <2>b. \A s \in Table!Sticks : s # Table!Right(p) => sticks'[s] = sticks[s]
    BY <2>0, <2>1
  <2>c. sticks[Table!Right(p)] = 1 /\ sticks'[Table!Right(p)] = 0
    BY <2>0, <2>1
  <2>4. Table!SticksHeld'
    <3> SUFFICES ASSUME NEW s \in Table!Sticks PROVE Table!StickInv(s)'
      BY DEF Table!SticksHeld
    <3>1. CASE s = Table!Right(p)
      BY <3>1, <2>3, <2>c DEF Table!SticksHeld, Table!StickInv
    <3>2. CASE s # Table!Right(p)
      BY <3>2, <2>3, <2>a, <2>b DEF Table!SticksHeld, Table!StickInv
    <3> QED BY <3>1, <3>2
  <2> QED BY <2>2, <2>4
<1>4. ASSUME NEW p \in Table!Philosophers, Table!PostLeft(p) PROVE TableInv'
  <2>0. /\ Table!Left(p) \in Table!Sticks /\ Table!Right(p) \in Table!Sticks
        /\ Table!Left(p) # Table!Right(p)
    BY HandsAreSticks
  <2>z. sticks[Table!Left(p)] = 0
    BY <1>4, <2>0 DEF Table!PostLeft, Table!SticksHeld, Table!StickInv,
       Table!Holds
  <2>1. /\ place[p] = "eat" /\ place' = [place EXCEPT ![p] = "post"]
        /\ sticks[Table!Left(p)] = 0
        /\ sticks' = [sticks EXCEPT ![Table!Left(p)] = 1]
    BY <1>4, <2>0, <2>z DEF Table!PostLeft, Table!Post
  <2>2. Table!TypeOK'
    BY <2>0, <2>1
  <2>3. \A q \in Table!Philosophers, s \in Table!Sticks :
          Table!Holds(q, s)' <=> Table!Holds(q, s) /\ ~(q = p /\ s = Table!Left(p))
    BY <2>0, <2>1 DEF Table!Holds
  <2>a. \A q \in Table!Philosophers : place[q]' = "dead" <=> place[q] = "dead"
    BY <2>1
  <2>b. \A s \in Table!Sticks : s # Table!Left(p) => sticks'[s] = sticks[s]
    BY <2>0, <2>1
  <2>c. Table!Holds(p, Table!Left(p)) /\ sticks'[Table!Left(p)] = 1
    BY <2>0, <2>1 DEF Table!Holds
  <2>4. Table!SticksHeld'
    <3> SUFFICES ASSUME NEW s \in Table!Sticks PROVE Table!StickInv(s)'
      BY DEF Table!SticksHeld
    <3>1. CASE s = Table!Left(p)
      BY <3>1, <2>3, <2>c DEF Table!SticksHeld, Table!StickInv
    <3>2. CASE s # Table!Left(p)
      BY <3>2, <2>3, <2>a, <2>b DEF Table!SticksHeld, Table!StickInv
    <3> QED BY <3>1, <3>2
  <2> QED BY <2>2, <2>4
<1>5. ASSUME NEW p \in Table!Philosophers, Table!PostRight(p) PROVE TableInv'
  <2>0. /\ Table!Left(p) \in Table!Sticks /\ Table!Right(p) \in Table!Sticks
        /\ Table!Left(p) # Table!Right(p)
    BY HandsAreSticks
  <2>z. sticks[Table!Right(p)] = 0
    BY <1>5, <2>0 DEF Table!PostRight, Table!SticksHeld, Table!StickInv,
       Table!Holds
  <2>1. /\ place[p] = "post" /\ place' = [place EXCEPT ![p] = "think"]
        /\ sticks[Table!Right(p)] = 0
        /\ sticks' = [sticks EXCEPT ![Table!Right(p)] = 1]
    BY <1>5, <2>0, <2>z DEF Table!PostRight, Table!Post
  <2>2. Table!TypeOK'
    BY <2>0, <2>1
  <2>3. \A q \in Table!Philosophers, s \in Table!Sticks :
          Table!Holds(q, s)' <=> Table!Holds(q, s) /\ ~(q = p /\ s = Table!Right(p))
    BY <2>0, <2>1 DEF Table!Holds
  <2>a. \A q \in Table!Philosophers : place[q]' = "dead" <=> place[q] = "dead"
    BY <2>1
  <2>b. \A s \in Table!Sticks : s # Table!Right(p) => sticks'[s] = sticks[s]
    BY <2>0, <2>1
  <2>c. Table!Holds(p, Table!Right(p)) /\ sticks'[Table!Right(p)] = 1
    BY <2>0, <2>1 DEF Table!Holds
  <2>4. Table!SticksHeld'
    <3> SUFFICES ASSUME NEW s \in Table!Sticks PROVE Table!StickInv(s)'
      BY DEF Table!SticksHeld
    <3>1. CASE s = Table!Right(p)
      BY <3>1, <2>3, <2>c DEF Table!SticksHeld, Table!StickInv
    <3>2. CASE s # Table!Right(p)
      BY <3>2, <2>3, <2>a, <2>b DEF Table!SticksHeld, Table!StickInv
    <3> QED BY <3>1, <3>2
  <2> QED BY <2>2, <2>4
<1>6. ASSUME NEW p \in Table!Philosophers, Table!Kill(p) PROVE TableInv'
  <2>1. place' = [place EXCEPT ![p] = "dead"] /\ sticks' = sticks
    BY <1>6 DEF Table!Kill
  <2>2. \A q \in Table!Philosophers, s \in Table!Sticks :
          Table!Holds(q, s)' => Table!Holds(q, s)
    BY <2>1 DEF Table!Holds
  <2>3. \A q \in Table!Philosophers, s \in Table!Sticks :
          Table!Holds(q, s) => Table!Holds(q, s)' \/ place[q]' = "dead"
    BY <2>1 DEF Table!Holds
  <2>4. \A q \in Table!Philosophers : place[q] = "dead" => place[q]' = "dead"
    BY <2>1
  <2>5. Table!TypeOK'
    BY <2>1
  <2>6. Table!SticksHeld'
    BY <2>1, <2>2, <2>3, <2>4 DEF Table!SticksHeld, Table!StickInv
  <2> QED BY <2>5, <2>6
<1>7. CASE UNCHANGED Table!vars
  BY <1>7 DEF Table!vars, Table!SticksHeld, Table!StickInv, Table!Holds
<1> QED BY <1>1, <1>2, <1>3, <1>4, <1>5, <1>6, <1>7 DEF Table!Next, Table!Live

\* In every state of the table each stick is accounted for.
LEMMA TableInvariant == SharedSpec => []TableInv
  BY TableInit, TableStepKeeps, TableProgram, PTL DEF Table!Spec

\* Every stick is accounted for: on the table, with one philosopher, or lost
\* with a killed one.
THEOREM SticksAccounted == SharedSpec => []Table!SticksHeld
<1>1. TableInv => Table!SticksHeld
  BY DEF TableInv
<1> QED BY <1>1, TableInvariant, PTL

\* Every variable keeps its type: a semaphore is 0 or 1.
THEOREM TableTypeCorrect == SharedSpec => []Table!TypeOK
<1>1. TableInv => Table!TypeOK
  BY DEF TableInv
<1> QED BY <1>1, TableInvariant, PTL

\* Neighbours never eat together: both would hold the stick they share.
THEOREM NeighboursExclude == SharedSpec => []Exclusion
<1>1. TableInv => Exclusion
  <2> SUFFICES ASSUME TableInv, NEW p \in Table!Philosophers,
                      place[p] = "eat", place[Table!NextTo(p)] = "eat"
               PROVE  FALSE
    BY DEF Exclusion, Table!Exclusion
  <2>1. Table!NextTo(p) \in Table!Sticks
    BY HandsAreSticks DEF Table!Sticks, Table!Philosophers
  <2>2. /\ Table!Holds(p, Table!NextTo(p))
        /\ Table!Holds(Table!NextTo(p), Table!NextTo(p))
    BY NeighboursShare DEF Table!Holds
  <2>3. p # Table!NextTo(p) /\ Table!NextTo(p) \in Table!Philosophers
    BY SmallAssumption DEF Table!NextTo, Table!Philosophers
  <2> QED BY <2>1, <2>2, <2>3 DEF TableInv, Table!SticksHeld, Table!StickInv
<1> QED BY <1>1, TableInvariant, PTL

\* The philosophers are never all blocked, whatever their number.  If they
\* were, nobody would hold stick 0, which is everybody's last; it would lie on
\* the table, so the last philosopher would wait for its first stick, and
\* whoever holds that one would wait for stick 0.
THEOREM NeverAllBlocked == SharedSpec => []NoStandoff
<1>1. TableInv => NoStandoff
  <2> SUFFICES ASSUME TableInv, Table!Killed = {},
                      \A p \in Table!Philosophers : Table!Blocked(p)
               PROVE  FALSE
    BY DEF NoStandoff, Table!NoStandoff
  <2>1. \A p \in Table!Philosophers :
          place[p] \in {"left", "right"} /\ place[p] # "dead"
    BY DEF Table!Blocked
  <2>2. /\ 0 \in Table!Sticks /\ 0 \in Table!Philosophers
        /\ Places - 1 \in Table!Philosophers /\ Places - 1 \in Table!Sticks
        /\ Places - 1 # 0
    BY SmallAssumption DEF Table!Sticks, Table!Philosophers
  <2>3. \A p \in Table!Philosophers : ~Table!Holds(p, 0)
    BY <2>1, SmallAssumption
    DEF Table!Holds, Table!Left, Table!Right, Table!Hands, Table!NextTo,
       Table!Philosophers
  <2>4. sticks[0] = 1
    BY <2>1, <2>2, <2>3 DEF TableInv, Table!TypeOK, Table!SticksHeld,
       Table!StickInv
  <2>5. Table!Left(Places - 1) = Places - 1 /\ Table!Right(Places - 1) = 0
    BY <2>2, SmallAssumption DEF Table!Left, Table!Right, Table!Hands,
       Table!NextTo
  <2>6. place[Places - 1] = "left" /\ sticks[Places - 1] = 0
    BY <2>2, <2>4, <2>5 DEF Table!Blocked
  <2>7. PICK q \in Table!Philosophers : Table!Holds(q, Places - 1)
    BY <2>1, <2>2, <2>6 DEF TableInv, Table!SticksHeld, Table!StickInv
  <2>8. place[q] = "right" /\ Table!Left(q) = Places - 1
    BY <2>1, <2>7 DEF Table!Holds
  <2>9. Table!Right(q) = 0
    BY <2>2, <2>8, SmallAssumption
    DEF Table!Left, Table!Right, Table!Hands, Table!NextTo, Table!Philosophers
  <2> QED BY <2>4, <2>8, <2>9 DEF Table!Blocked
<1> QED BY <1>1, TableInvariant, PTL
=============================================================================

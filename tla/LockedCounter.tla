---------------------------- MODULE LockedCounter ----------------------------
(***************************************************************************)
(* The counter programs: TH-SYNC/mutex.cpp, semaphore.cpp and spinlock.cpp *)
(* (fifty threads add 1 to an Integer ten thousand times each) and         *)
(* Bonuses/Bonus_3/credit-debit.cpp (one thread debits 100, another        *)
(* credits 50).  They differ in the threads, their amounts, and the lock,  *)
(* which is a mutex, a semaphore of value 1, or a spin lock.               *)
(***************************************************************************)
EXTENDS Integers

CONSTANTS Count,    \* threads; 50, or 2
          Delta,    \* what each thread adds in a round
          Rounds,   \* rounds of each thread; 10000
          Initial,  \* the value before: 0, or 200
          None

Threads == 1 .. Count

ASSUME CounterAssumption ==
  /\ Count \in Nat \ {0} /\ Rounds \in Nat /\ Initial \in Int
  /\ Delta \in [Threads -> Int]
  /\ None \notin Int

VARIABLES
  main, next,     \* where main is, and the thread that it is at
  thread, rounds, \* where each thread is; i of its loop
  seen,           \* the value that a thread has read and not yet written back
  lock,           \* the thread that has the lock, or None
  value, printed

vars == <<main, next, thread, rounds, seen, lock, value, printed>>

Init ==
  /\ main = "create" /\ next = 1
  /\ thread = [t \in Threads |-> "new"]
  /\ rounds = [t \in Threads |-> 0]
  /\ seen = [t \in Threads |-> 0]
  /\ lock = None /\ value = Initial /\ printed = None

Goto(t, from, to) == thread[t] = from /\ thread' = [thread EXCEPT ![t] = to]

-----------------------------------------------------------------------------
(* increment, and thread_func of Bonus_3.  inner_value++ reads and writes. *)

\* Faulty variant, for sensitivity runs: no lock.
LockNothing(t) ==
  /\ rounds[t] < Rounds /\ Goto(t, "loop", "read")
  /\ UNCHANGED <<main, next, rounds, seen, lock, value, printed>>

Lock(t) ==
  /\ rounds[t] < Rounds /\ Goto(t, "loop", "read")
  /\ lock = None /\ lock' = t
  /\ UNCHANGED <<main, next, rounds, seen, value, printed>>

Read(t) ==
  /\ Goto(t, "read", "write")
  /\ seen' = [seen EXCEPT ![t] = value]
  /\ UNCHANGED <<main, next, rounds, lock, value, printed>>

Write(t) ==
  /\ Goto(t, "write", "unlock")
  /\ value' = seen[t] + Delta[t]
  /\ rounds' = [rounds EXCEPT ![t] = @ + 1]
  /\ UNCHANGED <<main, next, seen, lock, printed>>

\* The unlock functions of all three locks release it whoever has it.
Unlock(t) ==
  /\ Goto(t, "unlock", "loop")
  /\ lock' = None
  /\ UNCHANGED <<main, next, rounds, seen, value, printed>>

Return(t) ==
  /\ rounds[t] = Rounds /\ Goto(t, "loop", "done")
  /\ UNCHANGED <<main, next, rounds, seen, lock, value, printed>>

Run(t) == Lock(t) \/ Read(t) \/ Write(t) \/ Unlock(t) \/ Return(t)

-----------------------------------------------------------------------------
(* main.                                                                   *)

Create ==
  /\ main = "create" /\ Goto(next, "new", "loop")
  /\ IF next < Count THEN next' = next + 1 /\ UNCHANGED main
     ELSE next' = 1 /\ main' = "join"
  /\ UNCHANGED <<rounds, seen, lock, value, printed>>

Join ==
  /\ main = "join" /\ thread[next] = "done"
  /\ IF next < Count THEN next' = next + 1 /\ UNCHANGED main
     ELSE main' = "print" /\ UNCHANGED next
  /\ UNCHANGED <<thread, rounds, seen, lock, value, printed>>

PrintValue ==
  /\ main = "print"
  /\ main' = "end" /\ printed' = value
  /\ UNCHANGED <<next, thread, rounds, seen, lock, value>>

Ended == main = "end" /\ UNCHANGED vars

Main == Create \/ Join \/ PrintValue
Next == Main \/ Ended \/ \E t \in Threads : Run(t)

Spec == Init /\ [][Next]_vars

-----------------------------------------------------------------------------
(* Properties.                                                             *)

\* Every variable has its type.
TypeOK ==
  /\ main \in {"create", "join", "print", "end"} /\ next \in Threads
  /\ thread \in [Threads -> {"new", "loop", "read", "write", "unlock", "done"}]
  /\ rounds \in [Threads -> 0 .. Rounds]
  /\ seen \in [Threads -> Int]
  /\ lock \in Threads \cup {None}
  /\ value \in Int /\ printed \in Int \cup {None}

InSection(t) == thread[t] \in {"read", "write", "unlock"}
ReadIsFresh ==
  \A t \in Threads : /\ InSection(t) <=> lock = t
                     /\ thread[t] = "write" => seen[t] = value
Progress ==
  \A t \in Threads :
    /\ thread[t] = "done" => rounds[t] = Rounds
    /\ thread[t] \in {"read", "write"} => rounds[t] < Rounds
    /\ main = "create" => (thread[t] = "new" <=> t >= next)
    /\ main = "join" /\ t < next => thread[t] = "done"
    /\ main \in {"print", "end"} => thread[t] = "done"

\* The inductive invariant behind NoChangeLost: only the owner of the lock is
\* between lock and unlock, and nobody changes the value that it has read; a
\* thread that is done has made its changes, and when main prints all are.
CounterInv ==
  TypeOK /\ ReadIsFresh /\ Progress /\ (main # "end" => printed = None)

\* Every change takes effect once and at once, and main prints the value
\* after the last: no change is lost.
Counter == INSTANCE AtomicCounter
NoChangeLost == Counter!Spec
=============================================================================

--------------------------- MODULE PrimeCalculator ---------------------------
(***************************************************************************)
(* IPC2/prime-calculator.cpp: a parent sends numbers to its child through  *)
(* one pipe and reads the n-th prime back from another.  Messages have 100 *)
(* bytes, or 5 for "exit", and pass whole.                                 *)
(***************************************************************************)
EXTENDS Integers, Sequences, FiniteSets

CONSTANTS Inputs,    \* numbers a user types; atoi makes 0 of other text
          Exit,      \* the message that ends the child
          Garbage,   \* a buf that was never written; atoi makes 0 of it
          INT_MAX,   \* the largest int
          MaxInputs  \* bound: numbers typed

VARIABLES
  parent, child,       \* where each process is
  toChild, toParent,   \* the pipes p_to_c and c_to_p
  n, typed,            \* the parent's number; how many have been typed
  childBuf, parentBuf, \* what each buf holds; read leaves it at end of file
  received,            \* what the parent printed last: a number, its answer
  childKilled          \* auxiliary

pipeVars == <<toChild, toParent>>
bufVars  == <<childBuf, parentBuf>>
vars == <<parent, child, pipeVars, n, typed, bufVars, received, childKilled>>

Init ==
  /\ parent = "prompt" /\ child = "read"
  /\ toChild = <<>> /\ toParent = <<>>
  /\ n = 0 /\ typed = 0
  /\ childBuf = Garbage /\ parentBuf = Garbage
  /\ received = <<>> /\ childKilled = FALSE

-----------------------------------------------------------------------------
(* is_prime and nth_prime, in numbers that do not overflow; Fits says when *)
(* those of the program do not either.                                     *)

\* Faulty variant, for sensitivity runs: i*i < n.
IsPrimeShort(m) == m > 1 /\ \A i \in 2 .. m : i * i < m => m % i # 0
IsPrime(m) == m > 1 /\ \A i \in 2 .. m : i * i <= m => m % i # 0

NthPrime(m) ==
  LET walk[at \in Nat \X Nat] ==  \* the primes still to count, and a number
        IF at[1] = 0 THEN at[2] - 1
        ELSE walk[<<IF IsPrime(at[2]) THEN at[1] - 1 ELSE at[1], at[2] + 1>>]
  IN  walk[<<IF m > 0 THEN m ELSE 0, 2>>]

\* Of all products i*i in the search for a prime p the largest is the one that
\* ends is_prime's loop for p; the loop for other numbers ends earlier.
Fits(p) == \E i \in 1 .. INT_MAX : p < i * i /\ i * i <= INT_MAX

\* What nth_prime can return.  An int that overflows is undefined: a search that
\* runs on with what it holds then may end anywhere.
Answers(m) ==
  LET p == NthPrime(m) IN IF Fits(p) THEN {p} ELSE -INT_MAX - 1 .. INT_MAX

-----------------------------------------------------------------------------
(* The child.  Each process closed the ends of the pipes that it does not  *)
(* use, so that end of file and SIGPIPE say that the other one has ended.  *)

\* Faulty variant: the child keeps its copy of the write end.
ToChildClosedNever == FALSE
ToChildClosed == parent = "gone" \/ parent = "waiting"

ToParentClosed == child = "gone"

ChildRead ==
  /\ child = "read" /\ toChild # <<>>
  /\ childBuf' = Head(toChild) /\ toChild' = Tail(toChild)
  /\ child' = IF childBuf' = Exit THEN "gone" ELSE "write"
  /\ UNCHANGED <<parent, toParent, n, typed, parentBuf, received, childKilled>>

\* read returns 0, which is not an error: the child goes on with its old buf.
ChildReadEnd ==
  /\ child = "read" /\ toChild = <<>> /\ ToChildClosed
  /\ child' = "write"
  /\ UNCHANGED <<parent, pipeVars, n, typed, bufVars, received, childKilled>>

\* With nobody left to read the answer, write raises SIGPIPE.
ChildWrite ==
  /\ child = "write"
  /\ IF parent \in {"gone", "waiting"}
     THEN child' = "gone" /\ UNCHANGED toParent
     ELSE /\ \E a \in Answers(IF childBuf = Garbage THEN 0 ELSE childBuf) :
               toParent' = Append(toParent, a)
          /\ child' = "read"
  /\ UNCHANGED <<parent, toChild, n, typed, bufVars, received, childKilled>>

-----------------------------------------------------------------------------
(* The parent.                                                             *)

ParentWrite ==
  /\ parent = "prompt" /\ typed < MaxInputs
  /\ typed' = typed + 1
  /\ n' \in Inputs
  /\ IF ToParentClosed
     THEN parent' = "gone" /\ UNCHANGED toChild
     ELSE toChild' = Append(toChild, n') /\ parent' = "read"
  /\ UNCHANGED <<child, toParent, bufVars, received, childKilled>>

\* read returns an answer, or 0 when the child has ended, which is printed
\* like one.
ParentRead ==
  /\ parent = "read"
  /\ \/ /\ toParent # <<>>
        /\ parentBuf' = Head(toParent) /\ toParent' = Tail(toParent)
     \/ toParent = <<>> /\ ToParentClosed /\ UNCHANGED <<parentBuf, toParent>>
  /\ received' = <<n, parentBuf'>>
  /\ parent' = "prompt"
  /\ UNCHANGED <<child, toChild, n, typed, childBuf, childKilled>>

\* "exit" is sent, both pipes are closed, and wait begins.
ParentExit ==
  /\ parent = "prompt"
  /\ IF ToParentClosed
     THEN parent' = "gone" /\ UNCHANGED toChild
     ELSE parent' = "waiting" /\ toChild' = Append(toChild, Exit)
  /\ UNCHANGED <<child, toParent, n, typed, bufVars, received, childKilled>>

ParentWait ==
  /\ parent = "waiting" /\ child = "gone"
  /\ parent' = "gone"
  /\ UNCHANGED <<child, pipeVars, n, typed, bufVars, received, childKilled>>

-----------------------------------------------------------------------------
KillChild ==
  /\ child # "gone"
  /\ child' = "gone" /\ childKilled' = TRUE
  /\ UNCHANGED <<parent, pipeVars, n, typed, bufVars, received>>

KillParent ==
  /\ parent # "gone"
  /\ parent' = "gone"
  /\ UNCHANGED <<child, pipeVars, n, typed, bufVars, received, childKilled>>

Child  == ChildRead \/ ChildReadEnd \/ ChildWrite
Parent == ParentWrite \/ ParentRead \/ ParentExit \/ ParentWait
Next   == Child \/ Parent \/ KillChild \/ KillParent
Spec   == Init /\ [][Next]_vars

\* Processes that can run do.  The user need not type anything.
Fairness == WF_vars(Child) /\ WF_vars(ParentRead) /\ WF_vars(ParentWait)

-----------------------------------------------------------------------------
(* Properties.                                                             *)

\* The reference: p is the m-th prime if it has no divisor but 1 and itself,
\* and m primes are not greater.
Divides(d, m) == \E q \in 1 .. m : d * q = m
PrimesTo(m) == {p \in 2 .. m : \A d \in 1 .. p : Divides(d, p) => d \in {1, p}}
IsNthPrime(p, m) == p \in PrimesTo(p) /\ Cardinality(PrimesTo(p)) = m

\* There are m primes up to some square that is an int.
Computable(m) ==
  \E i \in 1 .. INT_MAX : i * i <= INT_MAX /\ Cardinality(PrimesTo(i * i)) >= m

\* While the child has not been killed, what the parent prints for n is the
\* n-th prime, or 1 if there is none, and never the answer to another number;
\* the n-th prime has to lie below a square that an int can hold.
AnswersRight ==
  received # <<>> /\ ~childKilled
  => IF received[1] >= 1
     THEN Computable(received[1]) => IsNthPrime(received[2], received[1])
     ELSE received[2] = 1

\* However the parent ends, the child does not stay behind.  A parent that has
\* sent a number, or "exit", does not wait for ever, even if the child is killed.
NeitherStays ==
  /\ parent \in {"waiting", "gone"} ~> child = "gone"
  /\ parent \in {"read", "waiting"} ~> parent \notin {"read", "waiting"}
=============================================================================

------------------------------- MODULE Dining --------------------------------
(***************************************************************************)
(* DiningPhilosophers/dining-philosophers.cpp: processes around a table    *)
(* and one named semaphore for each stick between two of them.  main makes *)
(* every semaphore with value 1 before it forks the first philosopher.     *)
(***************************************************************************)
EXTENDS Naturals, FiniteSets

CONSTANTS N,         \* philosophers and sticks, two at least; 5 in the code
          MaxKills   \* bound: philosophers killed from outside

Philosophers == 0 .. N - 1
Sticks       == 0 .. N - 1

VARIABLES sticks,  \* the value of each semaphore
          pc       \* where each philosopher is; "dead" is a killed one

vars == <<sticks, pc>>

Init == /\ sticks = [s \in Sticks |-> 1]
        /\ pc = [p \in Philosophers |-> "think"]

NextTo(p) == IF p = N - 1 THEN 0 ELSE p + 1

\* Faulty variant, for sensitivity runs: philosopher 0 is like the others.
HandsNoSwap(p) == <<p, NextTo(p)>>
\* Faulty variant: philosopher 0 reaches past its neighbour.
HandsPastNeighbour(p) == IF p = 0 THEN <<1, 2 % N>> ELSE <<p, NextTo(p)>>

\* left and right, in which order p takes and gives back its sticks.
\* Philosopher 0 has them swapped.
Hands(p) == IF p = 0 THEN <<1, 0>> ELSE <<p, NextTo(p)>>
Left(p)  == Hands(p)[1]
Right(p) == Hands(p)[2]

Goto(p, from, to) == pc[p] = from /\ pc' = [pc EXCEPT ![p] = to]
Wait(s) == sticks[s] > 0 /\ sticks' = [sticks EXCEPT ![s] = @ - 1]
Post(s) == sticks' = [sticks EXCEPT ![s] = @ + 1]

Think(p)     == Goto(p, "think", "left") /\ UNCHANGED sticks
WaitLeft(p)  == Goto(p, "left", "right") /\ Wait(Left(p))
WaitRight(p) == Goto(p, "right", "eat") /\ Wait(Right(p))

PostLeft(p) == Goto(p, "eat", "post") /\ Post(Left(p))

PostRight(p) == Goto(p, "post", "think") /\ Post(Right(p))

\* A semaphore does not come back with the death of a process.  main returns
\* from its one wait, and the others go on.
Killed == {p \in Philosophers : pc[p] = "dead"}
Kill(p) ==
  /\ Cardinality(Killed) < MaxKills
  /\ pc[p] # "dead"
  /\ pc' = [pc EXCEPT ![p] = "dead"]
  /\ UNCHANGED sticks

Live(p) == \/ Think(p) \/ WaitLeft(p) \/ WaitRight(p) \/ PostLeft(p)
           \/ PostRight(p)
Next == \E p \in Philosophers : Live(p) \/ Kill(p)

Spec == Init /\ [][Next]_vars

\* A process that sleeps wakes up, and a sem_wait on a positive semaphore
\* returns.  Which of two waiting neighbours gets a stick is open.
Fairness == \A p \in Philosophers : WF_vars(Live(p))

-----------------------------------------------------------------------------
(* Properties.                                                             *)

\* Every variable has its type: no stick is ever given back by a philosopher
\* that does not hold it.
TypeOK ==
  /\ sticks \in [Sticks -> {0, 1}]
  /\ pc \in [Philosophers -> {"think", "left", "right", "eat", "post", "dead"}]

\* Two neighbours are never between their second sem_wait and their first
\* sem_post together.
Exclusion ==
  \A p \in Philosophers : ~(pc[p] = "eat" /\ pc[NextTo(p)] = "eat")

Blocked(p) == \/ pc[p] = "left"  /\ sticks[Left(p)] = 0
              \/ pc[p] = "right" /\ sticks[Right(p)] = 0

\* Unless somebody was killed with a stick in its hands, the philosophers are
\* never all in a sem_wait that does not return.
NoStandoff == Killed = {} => \E p \in Philosophers : ~Blocked(p)

\* The table never stops for good: again and again somebody eats, or somebody
\* has been killed.
SomebodyEats ==
  []<>((\E p \in Philosophers : pc[p] = "eat") \/ Killed # {})

\* The strengthening behind them: a stick lies on the table unless one of its
\* two philosophers, and only one, is at a place where it holds it, or one of
\* them was killed.
Holds(p, s) == \/ s = Left(p)  /\ pc[p] \in {"right", "eat"}
               \/ s = Right(p) /\ pc[p] \in {"eat", "post"}

StickInv(s) ==
  /\ \A p, q \in Philosophers : Holds(p, s) /\ Holds(q, s) => p = q
  /\ (\E p \in Philosophers : Holds(p, s)) => sticks[s] = 0
  /\ sticks[s] = 0 => \E p \in Philosophers : Holds(p, s) \/ pc[p] = "dead"
SticksHeld == \A s \in Sticks : StickInv(s)
=============================================================================

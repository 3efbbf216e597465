--------------------------------- MODULE Sieve ---------------------------------
(***************************************************************************)
(* Bonuses/Bonus_7: init.cpp makes an object of shared memory and clears   *)
(* it, set.cpp marks the multiples in it, check.cpp looks a number up and  *)
(* destroy.cpp takes the name away.  Nothing keeps these processes apart.  *)
(* check changes nothing: Verdict is what it would print of an object.     *)
(***************************************************************************)
EXTENDS Integers

CONSTANTS SHM_SIZE,                \* numbers in the table: 1000000
          Objects,                 \* bound: objects that may ever exist
          Inits, Setters,          \* processes, run once each
          NoObject

Numbers   == 0 .. SHM_SIZE - 1
Processes == Inits \cup Setters

VARIABLES
  name,           \* the object that has the name, or NoObject
  marked,         \* of an object: the numbers whose element is 1
  pc, object,     \* a process, and the object that it has mapped
  i, j,           \* of its loop
  whole, clean    \* auxiliary, of an object and of a set: see Properties

history == <<whole, clean>>
vars == <<name, marked, pc, object, i, j, history>>

Init ==
  /\ name = NoObject /\ marked = [o \in Objects |-> {}]
  /\ pc = [p \in Processes |-> "open"]
  /\ object = [p \in Processes |-> NoObject]
  /\ i = [p \in Processes |-> 0] /\ j = [p \in Processes |-> 0]
  /\ whole = [o \in Objects |-> FALSE]
  /\ clean = [s \in Setters |-> FALSE]

Goto(p, from, to) == pc[p] = from /\ pc' = [pc EXCEPT ![p] = to]
On(o, P) == {p \in P : object[p] = o /\ pc[p] # "done"}

\* Nothing has the name: set ends.
NotThere(p) ==
  /\ p \notin Inits /\ name = NoObject /\ Goto(p, "open", "done")
  /\ UNCHANGED <<name, marked, object, i, j, history>>

\* shm_open and mmap.  A set that begins while an init clears is not clean.
Open(p) ==
  /\ Goto(p, "open", "loop")
  /\ \E o \in Objects :
       /\ o = name \/ (name = NoObject /\ p \in Inits
                       /\ \A q \in Processes : object[q] # o)
       /\ name' = o /\ object' = [object EXCEPT ![p] = o]
       /\ IF p \in Setters
          THEN clean' = [clean EXCEPT ![p] = On(o, Inits) = {}]
               /\ UNCHANGED whole
          ELSE /\ whole' = [whole EXCEPT ![o] = FALSE]
               /\ clean' = [s \in Setters |-> clean[s] /\ object[s] # o]
  /\ i' = [i EXCEPT ![p] = IF p \in Setters THEN 2 ELSE 0]
  /\ UNCHANGED <<marked, j>>

\* memset, from the first element to the last.
Clear(p) ==
  /\ p \in Inits /\ pc[p] = "loop"
  /\ marked' = [marked EXCEPT ![object[p]] = @ \ {i[p]}]
  /\ i' = [i EXCEPT ![p] = @ + 1]
  /\ pc' = IF i'[p] = SHM_SIZE THEN [pc EXCEPT ![p] = "done"] ELSE pc
  /\ UNCHANGED <<name, object, j, history>>

\* Faulty variant: the multiples of i begin with i.
SieveFromItself(p) ==
  /\ p \in Setters /\ Goto(p, "loop", "mark") /\ i[p] * i[p] < SHM_SIZE
  /\ IF i[p] \notin marked[object[p]]
     THEN j' = [j EXCEPT ![p] = i[p]]
     ELSE j' = [j EXCEPT ![p] = SHM_SIZE]
  /\ UNCHANGED <<name, marked, object, i, history>>

\* set: the two loops.
SieveNext(p) ==
  /\ p \in Setters /\ Goto(p, "loop", "mark") /\ i[p] * i[p] < SHM_SIZE
  /\ IF i[p] \notin marked[object[p]]
     THEN j' = [j EXCEPT ![p] = 2 * i[p]]
     ELSE j' = [j EXCEPT ![p] = SHM_SIZE]
  /\ UNCHANGED <<name, marked, object, i, history>>

Mark(p) ==
  /\ pc[p] = "mark" /\ j[p] < SHM_SIZE
  /\ marked' = [marked EXCEPT ![object[p]] = @ \cup {j[p]}]
  /\ j' = [j EXCEPT ![p] = @ + i[p]]
  /\ UNCHANGED <<name, pc, object, i, history>>

MarkEnd(p) ==
  /\ Goto(p, "mark", "loop") /\ j[p] >= SHM_SIZE
  /\ i' = [i EXCEPT ![p] = @ + 1]
  /\ UNCHANGED <<name, marked, object, j, history>>

SieveEnd(p) ==
  /\ p \in Setters /\ Goto(p, "loop", "done") /\ i[p] * i[p] >= SHM_SIZE
  /\ whole' = [whole EXCEPT ![object[p]] = @ \/ clean[p]]
  /\ UNCHANGED <<name, marked, object, i, j, clean>>

Killed(p) ==
  /\ pc[p] \in {"loop", "mark"}
  /\ pc' = [pc EXCEPT ![p] = "done"]
  /\ UNCHANGED <<name, marked, object, i, j, history>>

\* check, of the object that it mapped, whatever has become of its name.
Verdict(o, n) == IF n \in marked[o] THEN "not prime" ELSE "prime"

Destroy ==
  /\ name # NoObject /\ name' = NoObject
  /\ UNCHANGED <<marked, pc, object, i, j, history>>

Step(p) == NotThere(p) \/ Open(p) \/ Clear(p) \/ SieveNext(p) \/ Mark(p)
           \/ MarkEnd(p) \/ SieveEnd(p) \/ Killed(p)
Next == Destroy \/ \E p \in Processes : Step(p)

Spec == Init /\ [][Next]_vars
-----------------------------------------------------------------------------
(* Properties.  whole[o]: a set has run from its start to its end on o     *)
(* with no init before its end that had not ended before its start.        *)

Prime(n) == n > 1 /\ \A d \in 2 .. n - 1 : n % d # 0

\* check never calls a prime composite, however init and set overlap and
\* wherever they are killed; and calls no composite prime, 0 and 1 aside, if a
\* set has run undisturbed on the object and init not again.
ChecksRight ==
  \A o \in Objects, n \in Numbers :
    /\ Verdict(o, n) = "not prime" => ~Prime(n)
    /\ Verdict(o, n) = "prime" /\ whole[o] => Prime(n) \/ n \in {0, 1}
=============================================================================

------------------------------ MODULE SharedArray ------------------------------
(***************************************************************************)
(* IPC3/shared-array.cpp, first.cpp and second.cpp: an array and a named   *)
(* semaphore that outlive the processes that use them; the loops have no   *)
(* end, so no destructor runs and nothing is ever removed.                 *)
(***************************************************************************)
EXTENDS Integers

CONSTANTS Size,       \* of the array
          Writers,    \* processes that run first.cpp
          Readers,    \* processes that run second.cpp
          MaxValue,   \* bound: increments of an element
          MaxKills    \* bound: processes killed; they may be started again

Processes == Writers \cup Readers
Indices   == 0 .. Size - 1

VARIABLES
  exists,    \* whether shm_open and sem_open have made the two objects
  data, sem,
  pc, i,     \* of a process
  seen,      \* the element that it has read and not yet written
  shown,     \* what second.cpp has printed in this round
  kills,
  made,      \* auxiliary: increments that were written
  met        \* auxiliary: whether another increment came in between

vars == <<exists, data, sem, pc, i, seen, shown, kills, made, met>>
objects == <<exists, data, sem>>
history == <<made, met>>

Init ==
  /\ exists = FALSE /\ data = [k \in Indices |-> 0] /\ sem = 0
  /\ pc = [p \in Processes |-> "start"] /\ i = [p \in Processes |-> 0]
  /\ seen = [p \in Processes |-> 0]
  /\ shown = [p \in Processes |-> [k \in Indices |-> 0]]
  /\ kills = 0
  /\ made = [k \in Indices |-> 0] /\ met = [k \in Indices |-> FALSE]

Goto(p, from, to) == pc[p] = from /\ pc' = [pc EXCEPT ![p] = to]

\* Faulty variant: the constructor clears the array.
ConstructClear(p) ==
  /\ Goto(p, "start", "wait")
  /\ exists' = TRUE /\ sem' = IF exists THEN sem ELSE 1
  /\ data' = [k \in Indices |-> 0] /\ i' = [i EXCEPT ![p] = 0]
  /\ UNCHANGED <<seen, shown, kills, history>>

\* The constructor: ftruncate to the length that it has changes nothing, and
\* the value for sem_open is for a semaphore that does not exist.
Construct(p) ==
  /\ Goto(p, "start", "wait")
  /\ exists' = TRUE /\ sem' = IF exists THEN sem ELSE 1
  /\ i' = [i EXCEPT ![p] = 0]
  /\ UNCHANGED <<data, seen, shown, kills, history>>

\* operator[], which gives the semaphore back before the element is used.
Wait(p) ==
  /\ sem > 0 /\ Goto(p, "wait", "post") /\ sem' = sem - 1
  /\ UNCHANGED <<exists, data, i, seen, shown, kills, history>>
Post(p) ==
  /\ Goto(p, "post", IF p \in Writers THEN "read" ELSE "show")
  /\ sem' = sem + 1
  /\ UNCHANGED <<exists, data, i, seen, shown, kills, history>>

\* The next element, and after the last one the next round.
Advance(p) == i' = [i EXCEPT ![p] = (@ + 1) % Size]

\* array[i]++: read, and write.
Read(p) ==
  /\ Goto(p, "read", "write") /\ made[i[p]] < MaxValue
  /\ seen' = [seen EXCEPT ![p] = data[i[p]]]
  /\ UNCHANGED <<objects, i, shown, kills, history>>
Write(p) ==
  LET k == i[p] IN
  /\ Goto(p, "write", "wait") /\ Advance(p)
  /\ data' = [data EXCEPT ![k] = seen[p] + 1]
  /\ made' = [made EXCEPT ![k] = @ + 1]
  /\ met' = [met EXCEPT ![k] = @ \/ \E q \in Writers \ {p} :
                                      pc[q] = "write" /\ i[q] = k]
  /\ UNCHANGED <<exists, sem, seen, shown, kills>>

Show(p) ==
  /\ Goto(p, "show", "wait") /\ Advance(p)
  /\ shown' = [shown EXCEPT ![p][i[p]] = data[i[p]]]
  /\ UNCHANGED <<objects, seen, kills, history>>

\* Killed between sem_wait and sem_post, a process leaves the semaphore at 0.
Kill(p) ==
  /\ pc[p] # "start" /\ kills < MaxKills
  /\ kills' = kills + 1 /\ pc' = [pc EXCEPT ![p] = "start"]
  /\ UNCHANGED <<objects, i, seen, shown, history>>

Step(p) == Construct(p) \/ Wait(p) \/ Post(p) \/ Read(p) \/ Write(p) \/ Show(p)
           \/ Kill(p)
Next == \E p \in Processes : Step(p)

Spec == Init /\ [][Next]_vars
-----------------------------------------------------------------------------
(* Properties.                                                             *)

\* Whatever processes are killed and started again, an element counts the
\* increments made to it, as long as no two of them meet; what second.cpp
\* shows is then never more than that.  The semaphore does not keep them apart.
CountsIncrements ==
  \A k \in Indices :
    /\ data[k] <= made[k]
    /\ ~met[k] => data[k] = made[k]
    /\ \A p \in Readers : shown[p][k] <= made[k]
=============================================================================

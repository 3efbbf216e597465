---------------------------- MODULE AtomicCounter ----------------------------
(***************************************************************************)
(* What the counter programs promise: every change of every thread takes   *)
(* effect once and at once, and what is printed is the value after the     *)
(* last of them.                                                           *)
(***************************************************************************)
EXTENDS Integers

CONSTANTS Threads, Delta, Rounds, Initial, None
VARIABLES value, rounds, printed

vars == <<value, rounds, printed>>

Init == value = Initial /\ rounds = [t \in Threads |-> 0] /\ printed = None

Change(t) ==
  /\ rounds[t] < Rounds /\ printed = None
  /\ value' = value + Delta[t]
  /\ rounds' = [rounds EXCEPT ![t] = @ + 1]
  /\ UNCHANGED printed

Show == /\ printed = None /\ \A t \in Threads : rounds[t] = Rounds
        /\ printed' = value
        /\ UNCHANGED <<value, rounds>>

Next == Show \/ \E t \in Threads : Change(t)
Spec == Init /\ [][Next]_vars
=============================================================================

----------------------------- MODULE MCScheduler -----------------------------
(* Bounded instances of ParallelScheduler.                                 *)
EXTENDS ParallelScheduler

CONSTANTS w1, w2, w3, a, b, c, d

\* The owner submits a and b; a submits c, and c submits d.
Nested == [t \in Tasks |-> CASE t = c -> a [] t = d -> c [] OTHER -> Main]
=============================================================================

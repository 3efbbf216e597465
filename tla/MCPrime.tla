------------------------------- MODULE MCPrime -------------------------------
(* The prime calculator alone. *)
EXTENDS SmallPrograms

\* With ints up to 35 the search for the 9th prime, 23, ends at 5 * 5; the one
\* for the 10th, 29, overflows.
SomeInputs == {-1, 0, 1, 2, 4, 9, 10}

Still == <<0>>    \* of the threads of LockedCounter, which do not run
Nothing == [x \in {} |-> {}]
=============================================================================

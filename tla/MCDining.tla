------------------------------- MODULE MCDining -------------------------------
(* The dining philosophers alone. *)
EXTENDS SmallPrograms

Still == <<0>>    \* of the threads of LockedCounter, which do not run
Nothing == [x \in {} |-> {}]
=============================================================================

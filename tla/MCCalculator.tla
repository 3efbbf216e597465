----------------------------- MODULE MCCalculator -----------------------------
(* The remote calculator alone. *)
EXTENDS SmallPrograms, TLC

CONSTANTS c1, c2, c3

Line(op, a, b) == [op |-> op, a |-> a, b |-> b]

\* The first client tries every operation on numbers of both signs and at the
\* ends of the range, the others the lines that are incomplete, empty or fatal.
EachKind ==
  (c1 :> [op : {"ADD", "SUB", "MUL", "DIV"}, a : {-4, 3}, b : {-1, 2}]
         \cup {Line("DIV", 3, 0)}) @@
  (c2 :> {Line("DIV", 1, Missing), Line("", Missing, Missing)}) @@
  (c3 :> {Line("SUB", Huge, 2), Line("other", 1, 1)})

Still == <<0>>    \* of the threads of LockedCounter, which do not run
Nothing == [x \in {} |-> {}]
=============================================================================

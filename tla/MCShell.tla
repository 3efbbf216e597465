------------------------------- MODULE MCShell -------------------------------
(* Bounded instances of Shell. *)
EXTENDS Shell

Plain(argv) == [words |-> argv, redirect |-> "none", file |-> ""]
Into(argv, how, file) == [words |-> argv, redirect |-> how, file |-> file]

\* The k-th command of a line is one or two words of its own, alone or
\* redirected.
NthCommands(k) ==
  LET w == <<"a", "b", "c">>[k]
      f == <<"f", "g", "h">>[k]
  IN  {Plain(<<w>>), Plain(<<w, "x">>), Into(<<w>>, ">", f), Into(<<w>>, ">>", f)}

CommandLists(n) ==
  {s \in [1 .. n -> UNION {NthCommands(k) : k \in 1 .. n}] :
     \A k \in 1 .. n : s[k] \in NthCommands(k)}

\* Every line of n commands.
LinesOf(n) ==
  UNION {[commands : {cs}, operators : [1 .. n - 1 -> Operators],
          silent : BOOLEAN, semicolon : BOOLEAN] : cs \in CommandLists(n)}

UpToThree == UNION {LinesOf(n) : n \in 1 .. 3}

\* A line that leaves something in every variable.
Leftovers ==
  {[commands |-> <<Into(<<"a">>, ">>", "f")>>, operators |-> <<>>,
    silent |-> TRUE, semicolon |-> FALSE]}
=============================================================================

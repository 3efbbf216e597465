------------------------------- MODULE Shell ---------------------------------
(***************************************************************************)
(* PS2/interactive-shell.cpp: main walks over the words of a line, forks a *)
(* child for each command and waits for it.  A command line is typed as    *)
(* commands with operators between them; the walk sees its words only.     *)
(***************************************************************************)
EXTENDS Integers, Sequences, SequencesExt

CONSTANTS Texts,      \* words that are neither operators nor > and >>
          Lines,      \* what a user types, see IsLine
          FirstLines, \* bound: those typed at the first of two prompts
          Statuses    \* exit states of programs, 0 among them

Operators == {";", "&&", "||"}
Redirects == {">", ">>"}

\* A line: its commands, each with a redirection or none; the operators between
\* them; whether it begins with "silent", and whether it ends with ";".
Words   == Texts \cup Operators \cup Redirects
Command == [words : Seq(Texts), redirect : Redirects \cup {"none"},
            file : Words \cup {""}]
Line == [commands : Seq(Command), operators : Seq(Operators),
         silent : BOOLEAN, semicolon : BOOLEAN]
IsLine(l) ==
  /\ l \in Line
  /\ Len(l.operators) = Len(l.commands) - 1
  /\ \A k \in DOMAIN l.commands :
       LET c == l.commands[k]
       IN  c.words # <<>> /\ (c.redirect # "none" => c.file \in Words)
  /\ ~l.silent => l.commands[1].words[1] \notin {"exit", "silent"}

ASSUME ShellAssumption ==
  /\ Texts \cap (Operators \cup Redirects) = {}
  /\ \A l \in Lines : IsLine(l)
  /\ FirstLines \subseteq Lines
  /\ 0 \in Statuses /\ Statuses \subseteq 0 .. 255

VARIABLES
  pc,          \* "prompt", "walk", or "end" of the process
  typed,       \* auxiliary: the line
  words,       \* the arguments that the loop has not reached
  silent, command_argv, last_status,
  redirect,    \* redirect_output and append
  execute_last,
  ran,         \* auxiliary: the children of the line, in order
  count        \* lines typed so far

lineVars == <<typed, words, silent, command_argv, last_status, redirect,
              execute_last>>
vars == <<pc, lineVars, ran, count>>

NoLine == [commands |-> <<>>, operators |-> <<>>, silent |-> FALSE,
           semicolon |-> FALSE]

Init ==
  /\ pc = "prompt" /\ typed = NoLine /\ words = <<>>
  /\ silent = FALSE /\ command_argv = <<>> /\ last_status = 0
  /\ redirect = "none" /\ execute_last = TRUE
  /\ ran = <<>> /\ count = 0

\* split: the words of a line, "silent" erased.
WordsOf(c) ==
  c.words \o (IF c.redirect = "none" THEN <<>> ELSE <<c.redirect, c.file>>)
Part(l, k) ==
  WordsOf(l.commands[k]) \o (IF k <= Len(l.operators) THEN <<l.operators[k]>>
                             ELSE IF l.semicolon THEN <<";">> ELSE <<>>)
Split(l) == FlattenSeq([k \in 1 .. Len(l.commands) |-> Part(l, k)])

-----------------------------------------------------------------------------
(* do_command: fork, exec in the child, wait.                              *)

\* What a child did: its arguments, where its output went, and its state, -1
\* when it did not exit by itself.
Child(argv, how, file, append, status) ==
  [argv |-> argv, how |-> how, file |-> file, append |-> append,
   silent |-> silent, status |-> status]

\* The child of an argv with nothing in front of its end takes argv[0] from
\* the null pointer.  Another one runs, or it cannot be forked, or it fails
\* to open a file or to execute.  An argv without the null pointer that ends
\* it goes on with whatever follows it in memory.
Results(argv, ended) ==
  IF argv = <<>> THEN {"crashed"} \X {-1}
  ELSE ({"run"} \cup IF ended THEN {} ELSE {"garbled"}) \X (Statuses \cup {-1})
       \cup {"failed"} \X {1, -1}
Children(argv, ended, file, append) ==
  {Child(argv, r[1], file, append, r[2]) : r \in Results(argv, ended)}

\* Its result is status; the next state of the loop is left to the caller.
DoCommand(child) == ran' = Append(ran, child)
-----------------------------------------------------------------------------
(* main.                                                                   *)

ReadLine ==
  /\ pc = "prompt" /\ count < 2
  /\ count' = count + 1
  /\ \E l \in IF count = 0 THEN FirstLines ELSE Lines :
       /\ typed' = l /\ words' = Split(l) /\ silent' = l.silent
  /\ command_argv' = <<>> /\ last_status' = 0 /\ redirect' = "none"
  /\ execute_last' = TRUE /\ ran' = <<>>
  /\ pc' = "walk"

\* "exit"; or a line of blanks, whose first word is taken from no words.
Leave ==
  /\ pc = "prompt" /\ pc' = "end"
  /\ UNCHANGED <<lineVars, ran, count>>

Word == Head(words)
Advance(rest) == /\ pc = "walk" /\ words # <<>>
                 /\ words' = rest
                 /\ UNCHANGED <<pc, typed, silent, count>>
Continue == Advance(Tail(words))
Break    == Advance(<<>>)

\* The word after > or >>, whatever it is.
RedirectFile ==
  /\ Continue /\ redirect # "none"
  /\ \E child \in Children(command_argv, FALSE, Word, redirect = ">>") :
       DoCommand(child) /\ last_status' = child.status
  /\ redirect' = "none" /\ command_argv' = <<>>
  /\ UNCHANGED execute_last

Redirect ==
  /\ Continue /\ redirect = "none" /\ Word \in Redirects
  /\ redirect' = Word
  /\ UNCHANGED <<command_argv, last_status, execute_last, ran>>

Semicolon ==
  /\ Continue /\ redirect = "none" /\ Word = ";"
  /\ \E child \in Children(command_argv, FALSE, "", FALSE) : DoCommand(child)
  /\ command_argv' = <<>>
  /\ UNCHANGED <<last_status, redirect, execute_last>>

\* Whether || or && ends the line after a command with this status.
Ends(operator, status) == IF operator = "||" THEN status = 0 ELSE status # 0

\* || or && after a command that was executed for its redirection.
AfterRedirected ==
  /\ redirect = "none" /\ command_argv = <<>>
  /\ words # <<>> /\ Word \in {"||", "&&"}
  /\ IF Ends(Word, last_status) THEN Break ELSE Continue
  /\ UNCHANGED <<command_argv, last_status, redirect, execute_last, ran>>

\* Faulty variant: a command that ends the line is still there after the loop.
ConditionalTwice ==
  /\ redirect = "none" /\ command_argv # <<>>
  /\ words # <<>> /\ Word \in {"||", "&&"}
  /\ \E child \in Children(command_argv, FALSE, "", FALSE) :
       /\ DoCommand(child)
       /\ IF Ends(Word, child.status)
          THEN Break /\ UNCHANGED command_argv
          ELSE Continue /\ command_argv' = <<>>
  /\ UNCHANGED <<last_status, redirect, execute_last>>

\* || or && after another command.
Conditional ==
  /\ redirect = "none" /\ command_argv # <<>>
  /\ words # <<>> /\ Word \in {"||", "&&"}
  /\ \E child \in Children(command_argv, FALSE, "", FALSE) :
       /\ DoCommand(child)
       /\ IF Ends(Word, child.status)
          THEN Break /\ execute_last' = FALSE /\ UNCHANGED command_argv
          ELSE Continue /\ command_argv' = <<>> /\ UNCHANGED execute_last
  /\ UNCHANGED <<last_status, redirect>>

PushBack ==
  /\ Continue /\ redirect = "none"
  /\ Word \notin Redirects \cup Operators
  /\ command_argv' = Append(command_argv, Word)
  /\ UNCHANGED <<last_status, redirect, execute_last, ran>>

\* After the loop: what is left is executed, with the null pointer at its end.
ExecuteLast ==
  /\ pc = "walk" /\ words = <<>>
  /\ pc' = "prompt"
  /\ IF execute_last
     THEN \E child \in Children(command_argv, TRUE, "", FALSE) : DoCommand(child)
     ELSE UNCHANGED ran
  /\ UNCHANGED <<lineVars, count>>

Ended == pc = "end" /\ UNCHANGED vars

Next == \/ ReadLine \/ Leave \/ RedirectFile \/ Redirect \/ Semicolon
        \/ AfterRedirected \/ Conditional \/ PushBack \/ ExecuteLast \/ Ended

Spec == Init /\ [][Next]_vars

-----------------------------------------------------------------------------
(* Properties.                                                             *)

\* The reference.  What a line means: its commands are executed in order, up
\* to the first && after one that failed or || after one that succeeded.
Holds(operator, status) == CASE operator = ";"  -> TRUE
                             [] operator = "&&" -> status = 0
                             [] operator = "||" -> status # 0

\* Child k is the one that command k of l asks for.
AsTyped(l, k, child) ==
  LET c == l.commands[k]
      plain == c.redirect = "none"
  IN  /\ child.argv = c.words
      /\ child.file = IF plain THEN "" ELSE c.file
      /\ child.append = (c.redirect = ">>")
      /\ child.silent = l.silent
      /\ child.how = "garbled" => ~(plain /\ k = Len(l.commands)
                                          /\ ~l.semicolon)

\* The children, without those that have nothing to execute.
Executed(children) ==
  LET upTo[k \in 0 .. Len(children)] ==
        IF k = 0 THEN <<>>
        ELSE IF children[k].argv = <<>> THEN upTo[k - 1]
        ELSE Append(upTo[k - 1], children[k])
  IN  upTo[Len(children)]

\* Every line is executed as it is meant: each command once and in order, with
\* its own words and its own output, those of a part of the line only if the
\* operators before it allow it, and all that they allow when main prompts
\* again.  Only an argv without its null pointer may run with more words.
RunsAsMeant ==
  LET done == Executed(ran)
      n    == Len(done)
  IN  /\ n <= Len(typed.commands)
      /\ \A k \in 1 .. n : AsTyped(typed, k, done[k])
      /\ \A k \in 1 .. n - 1 : Holds(typed.operators[k], done[k].status)
      /\ pc = "prompt" /\ n < Len(typed.commands)
         => n > 0 /\ ~Holds(typed.operators[n], done[n].status)
=============================================================================

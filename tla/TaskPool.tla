------------------------------ MODULE TaskPool -------------------------------
(***************************************************************************)
(* What parallel_scheduler promises to its user: tasks start in the order  *)
(* they were submitted, each once, at most one on each thread, and the     *)
(* pool closes only when all of them have finished, those that other tasks *)
(* submitted while it was closing included.                                *)
(***************************************************************************)
EXTENDS Sequences

CONSTANTS Workers, Tasks, NoTask

VARIABLES pending,    \* submitted, not started
          running,    \* the task on each thread
          finished,
          submitted,
          open

vars == <<pending, running, finished, submitted, open>>

Init ==
  /\ pending = <<>>
  /\ running = [w \in Workers |-> NoTask]
  /\ finished = {}
  /\ submitted = {}
  /\ open = TRUE

Submit(t) ==
  /\ open /\ t \notin submitted
  /\ pending' = Append(pending, t)
  /\ submitted' = submitted \cup {t}
  /\ UNCHANGED <<running, finished, open>>

Start(w) ==
  /\ open /\ pending # <<>> /\ running[w] = NoTask
  /\ running' = [running EXCEPT ![w] = Head(pending)]
  /\ pending' = Tail(pending)
  /\ UNCHANGED <<finished, submitted, open>>

Finish(w) ==
  /\ open /\ running[w] # NoTask
  /\ finished' = finished \cup {running[w]}
  /\ running' = [running EXCEPT ![w] = NoTask]
  /\ UNCHANGED <<pending, submitted, open>>

Close ==
  /\ open /\ pending = <<>>
  /\ \A w \in Workers : running[w] = NoTask
  /\ open' = FALSE
  /\ UNCHANGED <<pending, running, finished, submitted>>

Next == \/ \E t \in Tasks : Submit(t)
        \/ \E w \in Workers : Start(w) \/ Finish(w)
        \/ Close

Spec == Init /\ [][Next]_vars
=============================================================================

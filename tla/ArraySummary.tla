---------------------------- MODULE ArraySummary -----------------------------
(***************************************************************************)
(* TH1/array-summary.cpp: main divides an array among threads, each sums   *)
(* its part into its own place of results, main joins them and adds up.    *)
(* main has summed the array by itself before.                             *)
(***************************************************************************)
EXTENDS Integers

CONSTANTS Sizes, ThreadCounts,  \* bound: the two arguments
          Values                \* bound: array elements

VARIABLES
  arr_size, num_threads, array,
  main,          \* "create", "join", "add" or "end"
  next,          \* the thread that main creates, joins or adds next
  thread,        \* where each thread is
  i, results,    \* the index each thread has reached; results, once written
  result

vars == <<arr_size, num_threads, array, main, next, thread, i, results, result>>

Threads == 0 .. num_threads - 1

\* Faulty variant, for sensitivity runs: the last part ends like the others.
PartEndShort(size, count, t) == (size \div count) * (t + 1)

\* start and end of thread t: the last part takes what the division leaves.
PartStart(size, count, t) == (size \div count) * t
PartEnd(size, count, t) ==
  IF t = count - 1 THEN size ELSE (size \div count) * (t + 1)

\* sum, the loop of main before it creates the threads.
PlainSum ==
  LET sum[k \in 0 .. arr_size] == IF k = 0 THEN 0 ELSE sum[k - 1] + array[k - 1]
  IN  sum[arr_size]

Init ==
  /\ arr_size \in Sizes /\ arr_size \in Nat
  /\ num_threads \in ThreadCounts /\ num_threads \in Nat
  /\ num_threads # 0       \* atoi("0") divides by zero in line 58
  /\ array \in [0 .. arr_size - 1 -> Values]
  /\ main = "create" /\ next = 0
  /\ thread = [t \in Threads |-> "new"]
  /\ i = [t \in Threads |-> 0]
  /\ results = [t \in Threads |-> -1]
  /\ result = 0

args == <<arr_size, num_threads, array>>

Create ==
  /\ main = "create"
  /\ thread' = [thread EXCEPT ![next] = "start"]
  /\ IF next + 1 < num_threads THEN next' = next + 1 /\ UNCHANGED main
     ELSE next' = 0 /\ main' = "join"
  /\ UNCHANGED <<args, i, results, result>>

\* partial_sum: its place of results is cleared, and the loop begins.
Start(t) ==
  /\ thread[t] = "start"
  /\ thread' = [thread EXCEPT ![t] = "loop"]
  /\ i' = [i EXCEPT ![t] = PartStart(arr_size, num_threads, t)]
  /\ results' = [results EXCEPT ![t] = 0]
  /\ UNCHANGED <<args, main, next, result>>

Add(t) ==
  /\ thread[t] = "loop" /\ i[t] < PartEnd(arr_size, num_threads, t)
  /\ results' = [results EXCEPT ![t] = @ + array[i[t]]]
  /\ i' = [i EXCEPT ![t] = @ + 1]
  /\ UNCHANGED <<args, main, next, thread, result>>

Return(t) ==
  /\ thread[t] = "loop" /\ i[t] >= PartEnd(arr_size, num_threads, t)
  /\ thread' = [thread EXCEPT ![t] = "done"]
  /\ UNCHANGED <<args, main, next, i, results, result>>

\* Faulty variant: main does not wait for the threads.
JoinAtOnce ==
  /\ main = "join" /\ next' = 0 /\ main' = "add"
  /\ UNCHANGED <<args, thread, i, results, result>>

Join ==
  /\ main = "join" /\ thread[next] = "done"
  /\ IF next + 1 < num_threads THEN next' = next + 1 /\ UNCHANGED main
     ELSE next' = 0 /\ main' = "add"
  /\ UNCHANGED <<args, thread, i, results, result>>

AddUp ==
  /\ main = "add"
  /\ result' = result + results[next]
  /\ IF next + 1 < num_threads THEN next' = next + 1 /\ UNCHANGED main
     ELSE next' = 0 /\ main' = "end"
  /\ UNCHANGED <<args, thread, i, results>>

Ended == main = "end" /\ UNCHANGED vars

Partial(t) == Start(t) \/ Add(t) \/ Return(t)
Main == Create \/ Join \/ AddUp
Next == Main \/ Ended \/ \E t \in Threads : Partial(t)

Spec == Init /\ [][Next]_vars

-----------------------------------------------------------------------------
(* Properties.                                                             *)

\* Whatever the size and the number of threads, also with more threads than
\* elements, each element is in the part of one thread and of no other.
InPart(k, t) == /\ PartStart(arr_size, num_threads, t) <= k
                /\ k < PartEnd(arr_size, num_threads, t)
EachOnce ==
  \A k \in 0 .. arr_size - 1 :
    \E t \in Threads : InPart(k, t) /\ \A u \in Threads : InPart(k, u) => u = t

\* The threads add up to what main sums by itself, in every order in which
\* they run.
ResultRight == main = "end" => result = PlainSum
=============================================================================

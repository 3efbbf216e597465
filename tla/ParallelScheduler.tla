-------------------------- MODULE ParallelScheduler --------------------------
(***************************************************************************)
(* TH2/parallel_scheduler.cpp: a pool of threads that take tasks from a    *)
(* queue under one mutex and sleep on one condition variable.  The owner   *)
(* (Main) constructs the scheduler, calls run, and destroys it; a task may *)
(* call run on the scheduler that executes it.  What a thread does between *)
(* taking the mutex and giving it back is one step, except for run's body, *)
(* which is taken apart from its lock.  item is the submission that run    *)
(* was called with; submitted and finished are auxiliary.                  *)
(***************************************************************************)
EXTENDS Naturals, Sequences, FiniteSets

CONSTANTS Workers,      \* capacity many threads
          Main,         \* the thread that owns the scheduler
          Tasks,        \* submissions, each a call of run of its own
          Caller,       \* who makes each submission: Main or another task
          NoTask, Free,
          MaxSpurious   \* bound: spurious wakeups of pthread_cond_wait

\* The scheduler is built with at least one thread (demo.cpp: 4).
ASSUME SchedulerAssumption ==
  /\ Workers # {}
  /\ Main \notin Workers
  /\ Free \notin Workers \cup {Main}
  /\ NoTask \notin Tasks
  /\ Main \notin Tasks
  /\ Caller \in [Tasks -> Tasks \cup {Main}]
  /\ MaxSpurious \in Nat

VARIABLES mutex,      \* holder, or Free
          queue,      \* task_queue
          stop,
          pc,         \* where each thread is
          task,       \* the task a worker executes, or NoTask
          item,       \* the task each thread is passing to run, or NoTask
          submitted, finished,
          spurious

vars == <<mutex, queue, stop, pc, task, item, submitted, finished, spurious>>

Threads   == Workers \cup {Main}
Holding   == {"push", "test", "stop"}
WorkerPCs == {"unborn", "loop", "test", "wait", "woken", "run", "push", "exited"}
MainPCs   == {"create", "user", "push", "stop", "join", "gone"}

Init ==
  /\ mutex = Free
  /\ queue = <<>>
  /\ stop = FALSE
  /\ pc = [a \in Threads |-> IF a = Main THEN "create" ELSE "unborn"]
  /\ task = [w \in Workers |-> NoTask]
  /\ item = [a \in Threads |-> NoTask]
  /\ submitted = {}
  /\ finished = {}
  /\ spurious = 0

Waiting == {w \in Workers : pc[w] = "wait"}

Goto(a, from, to) == pc[a] = from /\ pc' = [pc EXCEPT ![a] = to]
Acquire(a)        == mutex = Free /\ mutex' = a
Release           == mutex' = Free

-----------------------------------------------------------------------------
(* The constructor starts the threads one by one, and they run at once.    *)

CreateWorker(w) ==
  /\ pc[Main] = "create"
  /\ Goto(w, "unborn", "loop")
  /\ UNCHANGED <<mutex, queue, stop, task, item, submitted, finished, spurious>>

Constructed ==
  /\ \A w \in Workers : pc[w] # "unborn"
  /\ Goto(Main, "create", "user")
  /\ UNCHANGED <<mutex, queue, stop, task, item, submitted, finished, spurious>>

-----------------------------------------------------------------------------
(* run, called by the owner or by the task that a worker executes.         *)

\* The place from which a thread calls run, and on whose behalf.
Outside(a) == IF a = Main THEN "user" ELSE "run"
Self(a)    == IF a = Main THEN Main ELSE task[a]

RunLock(a) ==
  /\ Goto(a, Outside(a), "push")
  /\ Acquire(a)
  /\ \E t \in Tasks \ submitted :
       Caller[t] = Self(a) /\ item' = [item EXCEPT ![a] = t]
  /\ UNCHANGED <<queue, stop, task, submitted, finished, spurious>>

\* Faulty variant: no pthread_cond_signal.
RunPushSilent(a) ==
  /\ pc[a] = "push"
  /\ queue' = Append(queue, item[a])
  /\ submitted' = submitted \cup {item[a]}
  /\ pc' = [pc EXCEPT ![a] = Outside(a)]
  /\ item' = [item EXCEPT ![a] = NoTask]
  /\ Release
  /\ UNCHANGED <<stop, task, finished, spurious>>

\* Push, pthread_cond_signal, unlock.  The signal wakes one of the threads
\* that wait at this moment, and is lost when there is none.
RunPush(a) ==
  /\ pc[a] = "push"
  /\ queue' = Append(queue, item[a])
  /\ submitted' = submitted \cup {item[a]}
  /\ \/ /\ Waiting = {}
        /\ pc' = [pc EXCEPT ![a] = Outside(a)]
     \/ \E w \in Waiting :
          pc' = [pc EXCEPT ![a] = Outside(a), ![w] = "woken"]
  /\ item' = [item EXCEPT ![a] = NoTask]
  /\ Release
  /\ UNCHANGED <<stop, task, finished, spurious>>

-----------------------------------------------------------------------------
(* thread_worker.                                                          *)

\* pthread_mutex_lock at the top of the loop, and inside pthread_cond_wait.
WorkerLock(w) ==
  /\ pc[w] \in {"loop", "woken"}
  /\ pc' = [pc EXCEPT ![w] = "test"]
  /\ Acquire(w)
  /\ UNCHANGED <<queue, stop, task, item, submitted, finished, spurious>>

WorkerWait(w) ==
  /\ queue = <<>> /\ ~stop
  /\ Goto(w, "test", "wait")
  /\ Release
  /\ UNCHANGED <<queue, stop, task, item, submitted, finished, spurious>>

\* Faulty variants: the loop ends on stop alone, or continues instead of
\* breaking off.
WorkerExitEarly(w) ==
  /\ stop
  /\ Goto(w, "test", "exited")
  /\ Release
  /\ UNCHANGED <<queue, stop, task, item, submitted, finished, spurious>>
WorkerExitLoops(w) ==
  /\ queue = <<>> /\ stop
  /\ Goto(w, "test", "loop")
  /\ Release
  /\ UNCHANGED <<queue, stop, task, item, submitted, finished, spurious>>

WorkerExit(w) ==
  /\ queue = <<>> /\ stop
  /\ Goto(w, "test", "exited")
  /\ Release
  /\ UNCHANGED <<queue, stop, task, item, submitted, finished, spurious>>

WorkerTake(w) ==
  /\ queue # <<>>
  /\ Goto(w, "test", "run")
  /\ task' = [task EXCEPT ![w] = Head(queue)]
  /\ queue' = Tail(queue)
  /\ Release
  /\ UNCHANGED <<stop, item, submitted, finished, spurious>>

\* task.func returns.
WorkerFinish(w) ==
  /\ Goto(w, "run", "loop")
  /\ finished' = finished \cup {task[w]}
  /\ task' = [task EXCEPT ![w] = NoTask]
  /\ UNCHANGED <<mutex, queue, stop, item, submitted, spurious>>

\* pthread_cond_wait may return without a signal.
SpuriousWakeup(w) ==
  /\ spurious < MaxSpurious
  /\ Goto(w, "wait", "woken")
  /\ spurious' = spurious + 1
  /\ UNCHANGED <<mutex, queue, stop, task, item, submitted, finished>>

-----------------------------------------------------------------------------
(* The destructor.  The owner calls it after its last call of run.         *)

DestroyLock ==
  /\ Goto(Main, "user", "stop")
  /\ Acquire(Main)
  /\ UNCHANGED <<queue, stop, task, item, submitted, finished, spurious>>

DestroyStop ==
  /\ pc[Main] = "stop"
  /\ stop' = TRUE
  /\ pc' = [a \in Threads |-> IF a = Main THEN "join"
                              ELSE IF pc[a] = "wait" THEN "woken" ELSE pc[a]]
  /\ Release
  /\ UNCHANGED <<queue, task, item, submitted, finished, spurious>>

\* pthread_join on every thread, then the mutex and the queue are destroyed.
DestroyJoin ==
  /\ \A w \in Workers : pc[w] = "exited"
  /\ Goto(Main, "join", "gone")
  /\ UNCHANGED <<mutex, queue, stop, task, item, submitted, finished, spurious>>

\* The program has ended.
Terminated == pc[Main] = "gone" /\ UNCHANGED vars

-----------------------------------------------------------------------------
Worker(w) == \/ WorkerLock(w) \/ WorkerWait(w) \/ WorkerExit(w)
             \/ WorkerTake(w) \/ WorkerFinish(w)

Next ==
  \/ \E w \in Workers : CreateWorker(w) \/ Worker(w) \/ SpuriousWakeup(w)
  \/ \E a \in Threads : RunLock(a) \/ RunPush(a)
  \/ Constructed \/ DestroyLock \/ DestroyStop \/ DestroyJoin \/ Terminated

Spec == Init /\ [][Next]_vars

\* Threads that can run do run and tasks return; whether anyone calls run
\* again, or a wakeup is spurious, is left open.  Weak fairness suffices for
\* the mutex, which is taken finitely often besides.
Fairness ==
  /\ \A w \in Workers : WF_vars(CreateWorker(w)) /\ WF_vars(Worker(w))
  /\ \A a \in Threads : WF_vars(RunPush(a))
  /\ WF_vars(Constructed) /\ WF_vars(DestroyStop) /\ WF_vars(DestroyJoin)

FairSpec == Spec /\ Fairness

-----------------------------------------------------------------------------
(* Properties.                                                             *)

\* Every variable has its type.
TypeOK ==
  /\ mutex \in Threads \cup {Free}
  /\ queue \in Seq(Tasks)
  /\ stop \in BOOLEAN
  /\ pc \in [Threads -> WorkerPCs \cup MainPCs]
  /\ pc[Main] \in MainPCs
  /\ \A w \in Workers : pc[w] \in WorkerPCs
  /\ task \in [Workers -> Tasks \cup {NoTask}]
  /\ item \in [Threads -> Tasks \cup {NoTask}]
  /\ submitted \subseteq Tasks
  /\ finished \subseteq Tasks
  /\ spurious \in 0 .. MaxSpurious

\* The mutex names the one thread that is inside a critical section.
MutexOwner == \A a \in Threads : pc[a] \in Holding <=> mutex = a

\* No wakeup is lost: while a task is queued some thread is on its way to
\* the queue, however the signals of run met threads that were not waiting,
\* and once stop is set nobody sleeps any more.
NoLostWakeup ==
  /\ queue # <<>> => \E w \in Workers : pc[w] \notin {"wait", "exited"}
  /\ stop => Waiting = {}

\* The locals agree with the place a thread has reached, and the threads end
\* only for a destructor that waits for them.
Locals ==
  /\ \A w \in Workers : task[w] # NoTask <=> pc[w] \in {"run", "push"}
  /\ \A a \in Threads : item[a] # NoTask <=> pc[a] = "push"
  /\ \A a \in Threads : pc[a] = "push" => item[a] \notin submitted
Phases ==
  /\ stop <=> pc[Main] \in {"join", "gone"}
  /\ \A w \in Workers : pc[w] = "exited" => stop
  /\ pc[Main] = "gone" => \A w \in Workers : pc[w] = "exited"

\* The inductive invariant: no queued task is left to sleepers, in any phase.
SchedulerInv == TypeOK /\ MutexOwner /\ NoLostWakeup /\ Locals /\ Phases

\* The scheduler implements TaskPool: first in first out, and the destructor
\* returns only when every submission has been executed.
Pool == INSTANCE TaskPool WITH pending <- queue, running <- task,
                               open <- (pc[Main] # "gone")
Implements == Pool!Spec

\* Every submission is executed, also one made while the destructor runs.
EveryTaskRuns == \A t \in Tasks : t \in submitted ~> t \in finished

\* The destructor returns: no thread misses stop, none waits for another.
DestructorReturns == pc[Main] = "stop" ~> pc[Main] = "gone"
=============================================================================

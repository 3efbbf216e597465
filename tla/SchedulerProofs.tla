--------------------------- MODULE SchedulerProofs ---------------------------
(***************************************************************************)
(* Proofs about ParallelScheduler, for any set of threads and submissions: *)
(* no wakeup is lost, and the scheduler implements TaskPool.               *)
(***************************************************************************)
EXTENDS ParallelScheduler, TLAPS

LEMMA InitInv == Init => SchedulerInv
<1> SUFFICES ASSUME Init PROVE SchedulerInv
  OBVIOUS
<1> USE SchedulerAssumption DEF Init, Threads
<1>1. TypeOK
  <2>1. /\ pc \in [Threads -> WorkerPCs \cup MainPCs]
        /\ pc[Main] \in MainPCs
        /\ \A w \in Workers : pc[w] \in WorkerPCs
    BY DEF WorkerPCs, MainPCs
  <2>2. queue \in Seq(Tasks)
    OBVIOUS
  <2>3. /\ task \in [Workers -> Tasks \cup {NoTask}]
        /\ item \in [Threads -> Tasks \cup {NoTask}]
    OBVIOUS
  <2>4. stop \in BOOLEAN
    OBVIOUS
  <2>5. mutex \in Threads \cup {Free} /\ spurious \in 0 .. MaxSpurious
    OBVIOUS
  <2>6. submitted \subseteq Tasks /\ finished \subseteq Tasks
    OBVIOUS
  <2> HIDE DEF Init
  <2>7. QED
    BY <2>1, <2>2, <2>3, <2>4, <2>5, <2>6 DEF TypeOK
<1>2. MutexOwner
  BY DEF MutexOwner, Holding
<1>3. NoLostWakeup
  BY DEF NoLostWakeup, Waiting
<1>4. Locals /\ Phases
  BY DEF Locals, Phases
<1>5. QED
  BY <1>1, <1>2, <1>3, <1>4 DEF SchedulerInv

\* A step that moves one thread only, between places outside the mutex.
LEMMA CreateInv ==
  ASSUME SchedulerInv, NEW w \in Workers, CreateWorker(w)
  PROVE  SchedulerInv'
<1> USE SchedulerAssumption DEF SchedulerInv, CreateWorker, Goto
<1>1. TypeOK'
  BY DEF TypeOK, WorkerPCs, MainPCs, Threads
<1>2. MutexOwner'
  BY DEF TypeOK, MutexOwner, Holding
<1>3. NoLostWakeup'
  BY DEF TypeOK, NoLostWakeup, Waiting, Threads
<1>4. Locals' /\ Phases'
  BY DEF TypeOK, Locals, Phases, Threads
<1>5. QED
  BY <1>1, <1>2, <1>3, <1>4

LEMMA ConstructedInv ==
  ASSUME SchedulerInv, Constructed
  PROVE  SchedulerInv'
<1> USE SchedulerAssumption DEF SchedulerInv, Constructed, Goto
<1>1. TypeOK'
  BY DEF TypeOK, WorkerPCs, MainPCs, Threads
<1>2. MutexOwner'
  BY DEF TypeOK, MutexOwner, Holding
<1>3. NoLostWakeup'
  BY DEF TypeOK, NoLostWakeup, Waiting, Threads
<1>4. Locals' /\ Phases'
  BY DEF TypeOK, Locals, Phases, Threads
<1>5. QED
  BY <1>1, <1>2, <1>3, <1>4

LEMMA RunLockInv ==
  ASSUME SchedulerInv, NEW a \in Threads, RunLock(a)
  PROVE  SchedulerInv'
<1> USE SchedulerAssumption DEF SchedulerInv, RunLock, Goto, Acquire
<1>1. PICK t \in Tasks \ submitted : item' = [item EXCEPT ![a] = t]
  OBVIOUS
<1>2. TypeOK'
  BY <1>1 DEF TypeOK, WorkerPCs, MainPCs, Threads
<1>3. MutexOwner'
  BY DEF TypeOK, MutexOwner, Holding, Threads, Outside
<1>4. NoLostWakeup'
  BY DEF TypeOK, NoLostWakeup, Waiting, Threads, Outside
<1>5. Locals'
  BY <1>1 DEF TypeOK, Locals, Threads, Outside
<1>6. Phases'
  BY DEF TypeOK, Phases, Threads, Outside
<1>7. QED
  BY <1>2, <1>3, <1>4, <1>5, <1>6

\* run wakes a sleeper when there is one, and otherwise some thread is awake:
\* the caller itself, or any worker, since the owner calls run before stop.
LEMMA RunPushInv ==
  ASSUME SchedulerInv, NEW a \in Threads, RunPush(a)
  PROVE  SchedulerInv'
<1> USE SchedulerAssumption DEF SchedulerInv, RunPush, Release
<1>1. /\ item[a] \in Tasks
      /\ queue' = Append(queue, item[a])
      /\ item' = [item EXCEPT ![a] = NoTask]
      /\ submitted' = submitted \cup {item[a]}
  BY DEF TypeOK, Locals, Threads
<1>2. \A u \in Threads : u # a => pc[u] # "push"
  BY DEF MutexOwner, Holding
<1>3. /\ pc' \in [Threads -> WorkerPCs \cup MainPCs]
      /\ pc'[a] = Outside(a)
      /\ \A u \in Threads \ {a} :
           pc'[u] = pc[u] \/ (u \in Waiting /\ pc'[u] = "woken")
  BY DEF TypeOK, Outside, Waiting, WorkerPCs, MainPCs, Threads
<1>4. TypeOK'
  <2>1. pc'[Main] \in MainPCs /\ \A w \in Workers : pc'[w] \in WorkerPCs
    <3> HIDE DEF RunPush
    <3>1. pc'[Main] \in MainPCs
      BY <1>3 DEF TypeOK, Outside, Waiting, MainPCs, Threads
    <3>2. ASSUME NEW w \in Workers PROVE pc'[w] \in WorkerPCs
      BY <1>3 DEF TypeOK, Outside, Waiting, WorkerPCs, Threads
    <3>3. QED
      BY <3>1, <3>2
  <2>2. queue' \in Seq(Tasks) /\ submitted' \subseteq Tasks
    BY <1>1 DEF TypeOK
  <2>3. item' \in [Threads -> Tasks \cup {NoTask}]
    BY <1>1 DEF TypeOK
  <2>4. QED
    BY <1>3, <2>1, <2>2, <2>3 DEF TypeOK
<1>5. MutexOwner'
  BY <1>3 DEF MutexOwner, Holding, Outside, Waiting, Threads
<1>6. Phases'
  BY <1>3 DEF Phases, Outside, Waiting, Threads
<1>7. Locals'
  <2>1. \A w \in Workers : task[w] # NoTask <=> pc'[w] \in {"run", "push"}
    BY <1>3 DEF Locals, Outside, Waiting, Threads
  <2>2. \A u \in Threads : pc'[u] # "push" /\ item'[u] = NoTask
    BY <1>1, <1>2, <1>3 DEF TypeOK, Locals, Outside, Waiting, Threads
  <2>3. QED
    BY <2>1, <2>2 DEF Locals
<1>8. NoLostWakeup'
  <2>1. \E w \in Workers : pc'[w] \notin {"wait", "exited"}
    <3>1. CASE a \in Workers
      BY <1>3, <3>1 DEF Outside
    <3>2. CASE a = Main /\ Waiting = {}
      BY <1>3, <3>2 DEF Phases, Waiting, Threads, Outside
    <3>3. CASE a = Main /\ Waiting # {}
      BY <3>3 DEF TypeOK, Waiting, Threads
    <3>4. QED
      BY <3>1, <3>2, <3>3 DEF Threads
  <2>2. stop' => Waiting' = {}
    BY <1>3 DEF NoLostWakeup, Waiting, Threads, Outside
  <2>3. QED
    BY <2>1, <2>2 DEF NoLostWakeup
<1>9. QED
  BY <1>4, <1>5, <1>6, <1>7, <1>8

LEMMA WorkerLockInv ==
  ASSUME SchedulerInv, NEW w \in Workers, WorkerLock(w)
  PROVE  SchedulerInv'
<1> USE SchedulerAssumption DEF SchedulerInv, WorkerLock, Acquire
<1>1. TypeOK'
  BY DEF TypeOK, WorkerPCs, MainPCs, Threads
<1>2. MutexOwner'
  BY DEF TypeOK, MutexOwner, Holding, Threads
<1>3. NoLostWakeup'
  BY DEF TypeOK, NoLostWakeup, Waiting, Threads
<1>4. Locals' /\ Phases'
  BY DEF TypeOK, Locals, Phases, Threads
<1>5. QED
  BY <1>1, <1>2, <1>3, <1>4

LEMMA WorkerWaitInv ==
  ASSUME SchedulerInv, NEW w \in Workers, WorkerWait(w)
  PROVE  SchedulerInv'
<1> USE SchedulerAssumption DEF SchedulerInv, WorkerWait, Release, Goto
<1>1. TypeOK'
  BY DEF TypeOK, WorkerPCs, MainPCs, Threads
<1>2. MutexOwner'
  BY DEF TypeOK, MutexOwner, Holding, Threads
<1>3. NoLostWakeup'
  BY DEF NoLostWakeup
<1>4. Locals' /\ Phases'
  BY DEF TypeOK, Locals, Phases, Threads
<1>5. QED
  BY <1>1, <1>2, <1>3, <1>4

LEMMA WorkerExitInv ==
  ASSUME SchedulerInv, NEW w \in Workers, WorkerExit(w)
  PROVE  SchedulerInv'
<1> USE SchedulerAssumption DEF SchedulerInv, WorkerExit, Release, Goto
<1>1. TypeOK'
  BY DEF TypeOK, WorkerPCs, MainPCs, Threads
<1>2. MutexOwner'
  BY DEF TypeOK, MutexOwner, Holding, Threads
<1>3. NoLostWakeup'
  BY DEF TypeOK, NoLostWakeup, Waiting, Threads
<1>4. Locals' /\ Phases'
  BY DEF TypeOK, Locals, Phases, Threads
<1>5. QED
  BY <1>1, <1>2, <1>3, <1>4

LEMMA WorkerTakeInv ==
  ASSUME SchedulerInv, NEW w \in Workers, WorkerTake(w)
  PROVE  SchedulerInv'
<1> USE SchedulerAssumption DEF SchedulerInv, WorkerTake, Release, Goto
<1>1. Head(queue) \in Tasks /\ Tail(queue) \in Seq(Tasks)
  BY DEF TypeOK
<1>2. TypeOK'
  BY <1>1 DEF TypeOK, WorkerPCs, MainPCs, Threads
<1>3. MutexOwner'
  BY DEF TypeOK, MutexOwner, Holding, Threads
<1>4. pc'[w] = "run" /\ \A u \in Threads \ {w} : pc'[u] = pc[u]
  BY DEF TypeOK, Threads
<1>5. NoLostWakeup'
  BY <1>4 DEF NoLostWakeup, Waiting, Threads
<1>6. Locals' /\ Phases'
  BY <1>1, <1>4 DEF TypeOK, Locals, Phases, Threads
<1>7. QED
  BY <1>2, <1>3, <1>5, <1>6

LEMMA WorkerFinishInv ==
  ASSUME SchedulerInv, NEW w \in Workers, WorkerFinish(w)
  PROVE  SchedulerInv'
<1> USE SchedulerAssumption DEF SchedulerInv, WorkerFinish, Goto
<1>1. task[w] \in Tasks
  BY DEF TypeOK, Locals
<1>2. TypeOK'
  BY <1>1 DEF TypeOK, WorkerPCs, MainPCs, Threads
<1>3. MutexOwner'
  BY DEF TypeOK, MutexOwner, Holding, Threads
<1>4. pc'[w] = "loop" /\ \A u \in Threads \ {w} : pc'[u] = pc[u]
  BY DEF TypeOK, Threads
<1>5. NoLostWakeup'
  BY <1>4 DEF NoLostWakeup, Waiting, Threads
<1>6. Locals' /\ Phases'
  BY <1>4 DEF TypeOK, Locals, Phases, Threads
<1>7. QED
  BY <1>2, <1>3, <1>5, <1>6

LEMMA SpuriousInv ==
  ASSUME SchedulerInv, NEW w \in Workers, SpuriousWakeup(w)
  PROVE  SchedulerInv'
<1> USE SchedulerAssumption DEF SchedulerInv, SpuriousWakeup, Goto
<1>1. TypeOK'
  BY DEF TypeOK, WorkerPCs, MainPCs, Threads
<1>2. MutexOwner'
  BY DEF TypeOK, MutexOwner, Holding, Threads
<1>3. NoLostWakeup'
  BY DEF TypeOK, NoLostWakeup, Waiting, Threads
<1>4. Locals' /\ Phases'
  BY DEF TypeOK, Locals, Phases, Threads
<1>5. QED
  BY <1>1, <1>2, <1>3, <1>4

LEMMA DestroyLockInv ==
  ASSUME SchedulerInv, DestroyLock
  PROVE  SchedulerInv'
<1> USE SchedulerAssumption DEF SchedulerInv, DestroyLock, Acquire, Goto
<1>1. TypeOK'
  BY DEF TypeOK, WorkerPCs, MainPCs, Threads
<1>2. MutexOwner'
  BY DEF TypeOK, MutexOwner, Holding, Threads
<1>3. NoLostWakeup'
  BY DEF TypeOK, NoLostWakeup, Waiting, Threads
<1>4. Locals' /\ Phases'
  BY DEF TypeOK, Locals, Phases, Threads
<1>5. QED
  BY <1>1, <1>2, <1>3, <1>4

LEMMA DestroyStopInv ==
  ASSUME SchedulerInv, DestroyStop
  PROVE  SchedulerInv'
<1> USE SchedulerAssumption DEF SchedulerInv, DestroyStop, Release
<1>1. /\ pc'[Main] = "join"
      /\ \A w \in Workers :
           pc'[w] = IF pc[w] = "wait" THEN "woken" ELSE pc[w]
  BY DEF Threads
<1>2. TypeOK'
  <2>1. pc'[Main] \in MainPCs /\ \A w \in Workers : pc'[w] \in WorkerPCs
    BY <1>1 DEF TypeOK, WorkerPCs, MainPCs
  <2>2. pc' \in [Threads -> WorkerPCs \cup MainPCs]
    BY <2>1 DEF Threads
  <2>3. QED
    BY <2>1, <2>2 DEF TypeOK
<1>3. MutexOwner'
  BY <1>1 DEF MutexOwner, Holding, Threads
<1>4. NoLostWakeup'
  <2>1. queue' # <<>> => \E w \in Workers : pc'[w] \notin {"wait", "exited"}
    BY <1>1 DEF NoLostWakeup
  <2>2. \A w \in Workers : pc'[w] # "wait"
    BY <1>1
  <2>3. QED
    BY <2>1, <2>2 DEF NoLostWakeup, Waiting
<1>5. Locals'
  BY <1>1 DEF Locals, Threads
<1>6. Phases'
  BY <1>1 DEF Phases
<1>7. QED
  BY <1>2, <1>3, <1>4, <1>5, <1>6

LEMMA DestroyJoinInv ==
  ASSUME SchedulerInv, DestroyJoin
  PROVE  SchedulerInv'
<1> USE SchedulerAssumption DEF SchedulerInv, DestroyJoin, Goto
<1>1. TypeOK'
  BY DEF TypeOK, WorkerPCs, MainPCs, Threads
<1>2. MutexOwner'
  BY DEF TypeOK, MutexOwner, Holding, Threads
<1>3. NoLostWakeup'
  BY DEF TypeOK, NoLostWakeup, Waiting, Threads
<1>4. Locals' /\ Phases'
  BY DEF TypeOK, Locals, Phases, Threads
<1>5. QED
  BY <1>1, <1>2, <1>3, <1>4

LEMMA StutterInv ==
  ASSUME SchedulerInv, UNCHANGED vars
  PROVE  SchedulerInv'
BY DEF SchedulerInv, vars, TypeOK, MutexOwner, NoLostWakeup, Waiting, Locals,
       Phases

LEMMA NextInv == SchedulerInv /\ [Next]_vars => SchedulerInv'
<1> SUFFICES ASSUME SchedulerInv, [Next]_vars PROVE SchedulerInv'
  OBVIOUS
<1>1. ASSUME NEW w \in Workers, Worker(w) PROVE SchedulerInv'
  BY <1>1, WorkerLockInv, WorkerWaitInv, WorkerExitInv, WorkerTakeInv,
     WorkerFinishInv DEF Worker
<1>2. ASSUME NEW w \in Workers, CreateWorker(w) \/ SpuriousWakeup(w)
      PROVE  SchedulerInv'
  BY <1>2, CreateInv, SpuriousInv
<1>3. ASSUME NEW a \in Threads, RunLock(a) \/ RunPush(a) PROVE SchedulerInv'
  BY <1>3, RunLockInv, RunPushInv
<1>4. CASE Constructed \/ DestroyLock \/ DestroyStop \/ DestroyJoin
  BY <1>4, ConstructedInv, DestroyLockInv, DestroyStopInv, DestroyJoinInv
<1>5. CASE Terminated \/ UNCHANGED vars
  BY <1>5, StutterInv DEF Terminated
<1>6. QED
  BY <1>1, <1>2, <1>3, <1>4, <1>5 DEF Next

-----------------------------------------------------------------------------
(* The theorems.                                                           *)

\* The inductive invariant holds in every reachable state.
THEOREM SchedulerInvariant == Spec => []SchedulerInv
<1>1. QED
  BY InitInv, NextInv, PTL DEF Spec

\* A signal that meets no waiting thread is never needed: while a task is
\* queued some worker is on its way to the queue, and nobody sleeps through
\* the destructor.
THEOREM WakeupsSuffice == Spec => []NoLostWakeup
<1>1. SchedulerInv => NoLostWakeup
  BY DEF SchedulerInv
<1>2. QED
  BY <1>1, SchedulerInvariant, PTL

LEMMA StepImplements == SchedulerInv /\ [Next]_vars => [Pool!Next]_(Pool!vars)
<1> SUFFICES ASSUME SchedulerInv, [Next]_vars
             PROVE  [Pool!Next]_(Pool!vars)
  OBVIOUS
<1> USE SchedulerAssumption
<1>1. TypeOK /\ Locals /\ Phases /\ NoLostWakeup
  BY DEF SchedulerInv
<1>2. ASSUME NEW a \in Threads, RunPush(a) PROVE Pool!Next
  <2>1. item[a] \in Tasks /\ item[a] \notin submitted
    BY <1>1, <1>2 DEF RunPush, TypeOK, Locals
  <2>2. pc[Main] # "gone" /\ pc'[Main] # "gone"
    <3>1. CASE a = Main
      BY <1>1, <1>2, <3>1 DEF RunPush, TypeOK, Waiting, Outside, Threads
    <3>2. CASE a \in Workers
      BY <1>1, <1>2, <3>2 DEF RunPush, TypeOK, Phases, Waiting, Outside,
         Threads
    <3>3. QED
      BY <3>1, <3>2 DEF Threads
  <2>3. Pool!Submit(item[a])
    BY <1>2, <2>1, <2>2 DEF RunPush, Pool!Submit
  <2>4. QED
    BY <2>1, <2>3 DEF Pool!Next
<1>3. ASSUME NEW w \in Workers, WorkerTake(w) PROVE Pool!Next
  <2>1. pc[Main] # "gone" /\ pc'[Main] = pc[Main] /\ task[w] = NoTask
    BY <1>1, <1>3 DEF WorkerTake, Goto, TypeOK, Phases, Locals, Threads
  <2>2. Pool!Start(w)
    BY <1>3, <2>1 DEF WorkerTake, Pool!Start
  <2>3. QED
    BY <2>2 DEF Pool!Next
<1>4. ASSUME NEW w \in Workers, WorkerFinish(w) PROVE Pool!Next
  <2>1. pc[Main] # "gone" /\ pc'[Main] = pc[Main] /\ task[w] # NoTask
    BY <1>1, <1>4 DEF WorkerFinish, Goto, TypeOK, Phases, Locals, Threads
  <2>2. Pool!Finish(w)
    BY <1>4, <2>1 DEF WorkerFinish, Pool!Finish
  <2>3. QED
    BY <2>2 DEF Pool!Next
<1>5. CASE DestroyJoin
  <2>1. queue = <<>> /\ \A w \in Workers : task[w] = NoTask
    BY <1>1, <1>5 DEF DestroyJoin, NoLostWakeup, Locals
  <2>2. pc[Main] # "gone" /\ pc'[Main] = "gone"
    BY <1>1, <1>5 DEF DestroyJoin, Goto, TypeOK, Threads
  <2>3. Pool!Close
    BY <1>5, <2>1, <2>2 DEF DestroyJoin, Pool!Close
  <2>4. QED
    BY <2>3 DEF Pool!Next
<1>6. ASSUME NEW w \in Workers,
             \/ CreateWorker(w) \/ WorkerLock(w) \/ WorkerWait(w)
             \/ WorkerExit(w) \/ SpuriousWakeup(w)
      PROVE  UNCHANGED Pool!vars
  <2>1. pc'[Main] = pc[Main]
    BY <1>1, <1>6 DEF CreateWorker, WorkerLock, WorkerWait, WorkerExit,
       SpuriousWakeup, Goto, TypeOK, Threads
  <2>2. QED
    BY <1>6, <2>1 DEF CreateWorker, WorkerLock, WorkerWait, WorkerExit,
       SpuriousWakeup, Pool!vars
<1>7. ASSUME NEW a \in Threads, RunLock(a) PROVE UNCHANGED Pool!vars
  <2>1. pc'[Main] # "gone" /\ pc[Main] # "gone"
    BY <1>1, <1>7 DEF RunLock, Goto, Outside, TypeOK, Phases, Threads
  <2>2. QED
    BY <1>7, <2>1 DEF RunLock, Pool!vars
<1>8. CASE Constructed \/ DestroyLock \/ DestroyStop
  <2>1. pc'[Main] # "gone" /\ pc[Main] # "gone"
    BY <1>1, <1>8 DEF Constructed, DestroyLock, DestroyStop, Goto, TypeOK,
       Threads
  <2>2. QED
    BY <1>8, <2>1 DEF Constructed, DestroyLock, DestroyStop, Pool!vars
<1>9. CASE Terminated \/ UNCHANGED vars
  BY <1>9 DEF Terminated, vars, Pool!vars
<1>10. QED
  BY <1>2, <1>3, <1>4, <1>5, <1>6, <1>7, <1>8, <1>9 DEF Next, Worker

\* parallel_scheduler implements the pool: tasks start once each in the
\* order of their submission, and the destructor returns only after the last
\* one, however the tasks themselves keep submitting while it runs.
THEOREM Refinement == Spec => Implements
<1>1. Init => Pool!Init
  BY SchedulerAssumption DEF Init, Pool!Init, Threads
<1>2. QED
  BY <1>1, StepImplements, SchedulerInvariant, PTL
     DEF Spec, Implements, Pool!Spec
=============================================================================

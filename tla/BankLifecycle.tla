----------------------------- MODULE BankLifecycle -----------------------------
(***************************************************************************)
(* TransparentBank/init.cpp, deinit.cpp and attach_bank of the clients:    *)
(* the shared memory object that a bank lives in is created, sized and     *)
(* constructed in steps, at any of which init may be killed; clients map   *)
(* whatever object has the name.  What a command does to the cells is in   *)
(* BankCells; here it locks, touches cells and unlocks.                    *)
(***************************************************************************)
EXTENDS Integers

CONSTANTS Objects,   \* bound: shared memory objects that may ever exist
          Inits,     \* runs of init
          SizeOf,    \* the argument of each
          Clients,   \* clients, each a process of its own
          NoObject

VARIABLES
  bank_shm,        \* the object that has the name, or NoObject
  length,          \* of an object, in cells; NoCells before ftruncate
  size, lock,      \* members of the Bank in it
  mutexMade,       \* whether pthread_mutex_init has run on it
  cellsMade,       \* how many cells are constructed
  initPc, initObj, \* a run of init, and the object that it opened
  pc, object,      \* a client, and the object that it opened
  mapped,          \* the length of its mapping
  target,          \* the cells that its command touches
  early, again     \* auxiliary, of an object: see Properties

initVars   == <<initPc, initObj>>
clientVars == <<pc, object, mapped, target>>
bankVars   == <<size, lock, mutexMade, cellsMade>>
vars == <<bank_shm, length, bankVars, initVars, clientVars, early, again>>

NoCells == -1

\* Memory of a new object is zero: a size of 0, and a mutex that can be locked.
Init ==
  /\ bank_shm = NoObject
  /\ length = [o \in Objects |-> NoCells] /\ size = [o \in Objects |-> 0]
  /\ lock = [o \in Objects |-> "free"]
  /\ mutexMade = [o \in Objects |-> FALSE]
  /\ cellsMade = [o \in Objects |-> 0]
  /\ initPc = [i \in Inits |-> "open"] /\ initObj = [i \in Inits |-> NoObject]
  /\ pc = [c \in Clients |-> "open"] /\ object = [c \in Clients |-> NoObject]
  /\ mapped = [c \in Clients |-> 0] /\ target = [c \in Clients |-> {}]
  /\ early = [o \in Objects |-> FALSE] /\ again = [o \in Objects |-> FALSE]

-----------------------------------------------------------------------------
(* init.                                                                   *)

AtWork(o)   == {i \in Inits : initObj[i] = o
                                /\ initPc[i] \notin {"done", "killed"}}
Attached(o) == {c \in Clients : object[c] = o}
Used(o)     == \E i \in Inits : initObj[i] = o

InitGoto(i, from, to) == initPc[i] = from /\ initPc' = [initPc EXCEPT ![i] = to]

\* shm_open with O_CREAT.
InitOpen(i) ==
  /\ InitGoto(i, "open", "truncate")
  /\ \E o \in Objects :
       /\ IF bank_shm = NoObject THEN ~Used(o) ELSE o = bank_shm
       /\ bank_shm' = o /\ initObj' = [initObj EXCEPT ![i] = o]
       /\ again' = [again EXCEPT ![o] = @ \/ AtWork(o) # {} \/ Attached(o) # {}]
  /\ UNCHANGED <<length, bankVars, clientVars, early>>

\* ftruncate; cells that it cuts off are gone, also when it grows again.
Truncate(i) ==
  /\ InitGoto(i, "truncate", "size")
  /\ length' = [length EXCEPT ![initObj[i]] = SizeOf[i]]
  /\ cellsMade' = [cellsMade EXCEPT ![initObj[i]] =
                     IF @ > SizeOf[i] THEN SizeOf[i] ELSE @]
  /\ UNCHANGED <<bank_shm, size, lock, mutexMade, initObj, clientVars, early,
                 again>>

\* The constructor, in the order of its steps.
StoreSize(i) ==
  /\ InitGoto(i, "size", "mutex")
  /\ size' = [size EXCEPT ![initObj[i]] = SizeOf[i]]
  /\ UNCHANGED <<bank_shm, length, lock, mutexMade, cellsMade, initObj,
                 clientVars, early, again>>

\* pthread_mutex_init writes an unlocked mutex, whoever has the old one.
InitMutex(i) ==
  /\ InitGoto(i, "mutex", "cells")
  /\ lock' = [lock EXCEPT ![initObj[i]] = "free"]
  /\ mutexMade' = [mutexMade EXCEPT ![initObj[i]] = TRUE]
  /\ UNCHANGED <<bank_shm, length, size, cellsMade, initObj, clientVars, early,
                 again>>

MakeCells(i) ==
  /\ InitGoto(i, "cells", "done")
  /\ cellsMade' = [cellsMade EXCEPT ![initObj[i]] = size[initObj[i]]]
  /\ UNCHANGED <<bank_shm, length, size, lock, mutexMade, initObj, clientVars,
                 early, again>>

InitKilled(i) ==
  /\ initPc[i] \notin {"open", "done", "killed"}
  /\ initPc' = [initPc EXCEPT ![i] = "killed"]
  /\ UNCHANGED <<bank_shm, length, bankVars, initObj, clientVars, early, again>>

\* deinit: shm_unlink takes the name away; who has the object keeps it.
Deinit ==
  /\ bank_shm # NoObject /\ bank_shm' = NoObject
  /\ UNCHANGED <<length, bankVars, initVars, clientVars, early, again>>
-----------------------------------------------------------------------------
(* A client.                                                               *)

Goto(c, from, to) == pc[c] = from /\ pc' = [pc EXCEPT ![c] = to]

\* attach_bank: shm_open, which fails without an object,
Open(c) ==
  /\ bank_shm # NoObject /\ Goto(c, "open", "map")
  /\ object' = [object EXCEPT ![c] = bank_shm]
  /\ UNCHANGED <<bank_shm, length, bankVars, initVars, mapped, target, early,
                 again>>

\* An object is whole when the constructor of an init has run to its end and
\* no other is at work on it.
Whole(o) == /\ AtWork(o) = {} /\ mutexMade[o]
            /\ length[o] = size[o] /\ size[o] = cellsMade[o]

\* Faulty variant: the length is not looked at.
MapAnyLength(c) ==
  /\ Goto(c, "map", "idle")
  /\ mapped' = [mapped EXCEPT ![c] = length[object[c]]]
  /\ early' = [early EXCEPT ![object[c]] = @ \/ ~Whole(object[c])]
  /\ UNCHANGED <<bank_shm, length, bankVars, initVars, object, target, again>>

\* and mmap of what lseek returns, which fails when that is 0: the client ends.
Map(c) ==
  LET o == object[c] IN
  /\ pc[c] = "map"
  /\ IF length[o] = NoCells
     THEN /\ Goto(c, "map", "open")
          /\ object' = [object EXCEPT ![c] = NoObject]
          /\ UNCHANGED <<mapped, early>>
     ELSE /\ Goto(c, "map", "idle")
          /\ mapped' = [mapped EXCEPT ![c] = length[o]]
          /\ early' = [early EXCEPT ![o] = @ \/ ~Whole(o)]
          /\ UNCHANGED object
  /\ UNCHANGED <<bank_shm, length, bankVars, initVars, target, again>>

\* A command on accounts compares them with size before it locks (one account
\* stands for the two of a transfer); credit_all and debit_all read size after.
Transfer(c) ==
  /\ Goto(c, "idle", "lock")
  /\ \E k \in 0 .. size[object[c]] - 1 : target' = [target EXCEPT ![c] = {k}]
  /\ UNCHANGED <<bank_shm, length, bankVars, initVars, object, mapped, early,
                 again>>
Sweep(c) ==
  /\ Goto(c, "idle", "lock") /\ target' = [target EXCEPT ![c] = {}]
  /\ UNCHANGED <<bank_shm, length, bankVars, initVars, object, mapped, early,
                 again>>

\* lock_bank.  A mutex that is not made is one of a single process: whoever
\* waits for it is not woken by another process, see Unlock.
LockBank(c) ==
  LET o == object[c] IN
  /\ pc[c] = "lock"
  /\ IF lock[o] = "free"
     THEN Goto(c, "lock", "in") /\ lock' = [lock EXCEPT ![o] = "taken"]
     ELSE /\ Goto(c, "lock", IF mutexMade[o] THEN "asleep" ELSE "asleepAlone")
          /\ UNCHANGED lock
  /\ target' = IF target[c] = {} /\ lock[o] = "free"
               THEN [target EXCEPT ![c] = 0 .. size[o] - 1] ELSE target
  /\ UNCHANGED <<bank_shm, length, size, mutexMade, cellsMade, initVars, object,
                 mapped, early, again>>

\* Faulty variant: the mutex is not shared between processes, so that unlocking
\* it wakes nobody in another one.
UnlockUnshared(c) ==
  /\ Goto(c, "in", "idle")
  /\ lock' = [lock EXCEPT ![object[c]] = "free"]
  /\ target' = [target EXCEPT ![c] = {}]
  /\ UNCHANGED <<bank_shm, length, size, mutexMade, cellsMade, initVars, object,
                 mapped, early, again>>

UnlockBank(c) ==
  LET o == object[c]
      Woken(d) == mutexMade[o] /\ object[d] = o /\ pc[d] = "asleep"
  IN  /\ pc[c] = "in"
      /\ pc' = [d \in Clients |-> IF d = c THEN "idle"
                                  ELSE IF Woken(d) THEN "lock" ELSE pc[d]]
      /\ lock' = [lock EXCEPT ![o] = "free"]
      /\ target' = [target EXCEPT ![c] = {}]
      /\ UNCHANGED <<bank_shm, length, size, mutexMade, cellsMade, initVars,
                     object, mapped, early, again>>

\* exit; a client may be started again.
Exit(c) ==
  /\ Goto(c, "idle", "open") /\ object' = [object EXCEPT ![c] = NoObject]
  /\ UNCHANGED <<bank_shm, length, bankVars, initVars, mapped, target, early,
                 again>>

InitStep(i) == InitOpen(i) \/ Truncate(i) \/ StoreSize(i) \/ InitMutex(i)
               \/ MakeCells(i) \/ InitKilled(i)
ClientStep(c) == Open(c) \/ Map(c) \/ Transfer(c) \/ Sweep(c) \/ LockBank(c)
                 \/ UnlockBank(c) \/ Exit(c)
Next == \/ Deinit
        \/ \E i \in Inits : InitStep(i)
        \/ \E c \in Clients : ClientStep(c)

Spec == Init /\ [][Next]_vars
-----------------------------------------------------------------------------
(* Properties.  early[o]: a client attached to o before it was whole.      *)
(* again[o]: init opened o while another run of it was at work on o, or a  *)
(* client was attached.                                                    *)

In(o) == {c \in Attached(o) : pc[c] = "in"}

\* When init ends before the first client comes, and does not run again under
\* a client, the bank excludes: one client is in a section, what it touches is
\* constructed, and nobody sleeps on a mutex that is free.  Runs of init that
\* were killed before, deinit, and a bank made anew do not change that.
BankExcludes ==
  \A o \in Objects : ~early[o] /\ ~again[o] =>
    /\ \A c, d \in In(o) : c = d
    /\ \A c \in In(o) : \A k \in target[c] : k < cellsMade[o]
    /\ lock[o] = "free" =>
         \A c \in Attached(o) : pc[c] \notin {"asleep", "asleepAlone"}

\* No client touches memory outside its mapping or the object, under the same
\* condition; and not even one that came early when init has run once: the
\* object has its length before the bank in it says how many cells there are.
NoFault ==
  \A o \in Objects :
    (~early[o] /\ ~again[o]) \/ (\E i \in Inits : {j \in Inits : initObj[j] = o} = {i})
    =>
    \A c \in In(o) : \A k \in target[c] : k < mapped[c] /\ k < length[o]
=============================================================================

----------------------------- MODULE AtomicBank ------------------------------
(***************************************************************************)
(* What TransparentBank promises to the processes that share the memory    *)
(* object /bank_shm: every command takes effect at one instant, on the     *)
(* cells as the previous command left them, or not at all when the process *)
(* that issued it dies first.                                              *)
(***************************************************************************)
EXTENDS BankCells

CONSTANTS Threads,    \* command loops: local clients and server handlers
          Processes,  \* the processes those threads live in
          Home,       \* the process of each thread
          Commands    \* the commands users type

VARIABLES bank,     \* the cells
          request,  \* the command each thread is executing, or NoCommand
          answer    \* what each thread last told its user

vars == <<bank, request, answer>>

Init ==
  /\ bank = [i \in Accounts |-> NewCell]
  /\ request = [t \in Threads |-> NoCommand]
  /\ answer = [t \in Threads |-> NoAnswer]

Call(t) ==
  /\ request[t] = NoCommand
  /\ \E c \in Commands : request' = [request EXCEPT ![t] = c]
  /\ answer' = [answer EXCEPT ![t] = NoAnswer]
  /\ UNCHANGED bank

Execute(t) ==
  /\ request[t] # NoCommand
  /\ bank' = Effect(bank, request[t])
  /\ answer' = [answer EXCEPT ![t] = AnswerTo(bank, request[t])]
  /\ request' = [request EXCEPT ![t] = NoCommand]

\* A process is killed: what its threads had not executed never happens.
Die(p) ==
  /\ request' = [t \in Threads |->
                   IF Home[t] = p THEN NoCommand ELSE request[t]]
  /\ answer' = [t \in Threads |->
                  IF Home[t] = p THEN NoAnswer ELSE answer[t]]
  /\ UNCHANGED bank

Next == \/ \E t \in Threads : Call(t) \/ Execute(t)
        \/ \E p \in Processes : Die(p)

Spec == Init /\ [][Next]_vars
=============================================================================

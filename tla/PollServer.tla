----------------------------- MODULE PollServer ------------------------------
(***************************************************************************)
(* POLL/server.cpp and client.cpp: main polls the listening socket and     *)
(* queues each connection; a pool of worker threads takes them in order    *)
(* and each serves its client until it leaves.  A client sends a line and  *)
(* then waits in one recv.  A line is its number and its size:             *)
(*   short   read by one recv of the worker                                *)
(*   long    more than 1023 bytes: read in two, and answered twice         *)
(*   empty   no bytes at all, so the worker does not see it                *)
(***************************************************************************)
EXTENDS Naturals, FiniteSets, Sequences, SequencesExt

CONSTANTS Workers, Clients, Lines, None,
          MaxLines,     \* bound: lines of each client
          MaxSpurious   \* bound: spurious wakeups of pthread_cond_wait

ASSUME PollAssumption ==
  /\ Workers # {} /\ IsFiniteSet(Workers) /\ IsFiniteSet(Clients)
  /\ None \notin Clients
  /\ Lines \subseteq {"short", "long", "empty"}
  /\ MaxLines \in [Clients -> Nat] /\ MaxSpurious \in Nat

VARIABLES
  alive,              \* the server process
  backlog, accepted,  \* connections before accept; the one main holds
  queue,              \* client_queue
  worker, serving,    \* each worker thread, and the socket it has
  conn,               \* each connection, as its two ends left it
  toServer, toClient, \* bytes on their way: numbers of lines; answers
  client, sent, asked, \* each client, its lines so far, and their sizes
  spurious

poolVars   == <<accepted, queue, worker, serving>>
clientVars == <<client, sent, asked>>
vars == <<alive, backlog, poolVars, conn, toServer, toClient, clientVars,
          spurious>>

Init ==
  /\ alive = TRUE /\ backlog = <<>> /\ accepted = None /\ queue = <<>>
  /\ worker = [w \in Workers |-> "lock"]
  /\ serving = [w \in Workers |-> None]
  /\ conn = [c \in Clients |-> "none"]
  /\ toServer = [c \in Clients |-> <<>>]
  /\ toClient = [c \in Clients |-> 0]
  /\ client = [c \in Clients |-> "start"]
  /\ sent = [c \in Clients |-> 0]
  /\ asked = [c \in Clients |-> {}]
  /\ spurious = 0

Serving(w, from, to, c) ==
  /\ alive /\ worker[w] = from /\ serving[w] = c
  /\ worker' = [worker EXCEPT ![w] = to]

-----------------------------------------------------------------------------
(* main.                                                                   *)

Accept ==
  /\ alive /\ accepted = None /\ backlog # <<>>
  /\ accepted' = Head(backlog)
  /\ backlog' = Tail(backlog)
  /\ UNCHANGED <<alive, queue, worker, serving, conn, toServer, toClient,
                 clientVars, spurious>>

\* Faulty variant, for sensitivity runs: no signal.
PushSilent ==
  /\ alive /\ accepted # None
  /\ queue' = Append(queue, accepted) /\ accepted' = None
  /\ UNCHANGED <<alive, backlog, worker, serving, conn, toServer, toClient,
                 clientVars, spurious>>

\* push and signal, under queue_mutex.
Push ==
  /\ alive /\ accepted # None
  /\ queue' = Append(queue, accepted) /\ accepted' = None
  /\ IF \E w \in Workers : worker[w] = "wait"
     THEN \E w \in Workers : /\ worker[w] = "wait"
                             /\ worker' = [worker EXCEPT ![w] = "lock"]
     ELSE UNCHANGED worker
  /\ UNCHANGED <<alive, backlog, serving, conn, toServer, toClient,
                 clientVars, spurious>>

-----------------------------------------------------------------------------
(* worker_thread.                                                          *)

WorkerWait(w) ==
  /\ Serving(w, "lock", "wait", None) /\ queue = <<>>
  /\ UNCHANGED <<alive, backlog, accepted, queue, serving, conn, toServer,
                 toClient, clientVars, spurious>>

SpuriousWakeup(w) ==
  /\ spurious < MaxSpurious
  /\ Serving(w, "wait", "lock", None)
  /\ spurious' = spurious + 1
  /\ UNCHANGED <<alive, backlog, accepted, queue, serving, conn, toServer,
                 toClient, clientVars>>

\* Faulty variant: no pop.
WorkerTakeKeeps(w) ==
  /\ Serving(w, "lock", "recv", None) /\ queue # <<>>
  /\ serving' = [serving EXCEPT ![w] = Head(queue)]
  /\ UNCHANGED <<alive, backlog, accepted, queue, conn, toServer, toClient,
                 clientVars, spurious>>

WorkerTake(w) ==
  /\ Serving(w, "lock", "recv", None) /\ queue # <<>>
  /\ serving' = [serving EXCEPT ![w] = Head(queue)]
  /\ queue' = Tail(queue)
  /\ UNCHANGED <<alive, backlog, accepted, conn, toServer, toClient,
                 clientVars, spurious>>

\* One recv: lines that have arrived, never the whole of a long one.
WorkerReceive(w, c) ==
  /\ Serving(w, "recv", "send", c)
  /\ \E k \in 1 .. Len(toServer[c]) :
       /\ Cardinality(ToSet(SubSeq(toServer[c], 1, k))) = k
       /\ toServer' = [toServer EXCEPT ![c] = SubSeq(@, k + 1, Len(@))]
  /\ UNCHANGED <<alive, backlog, accepted, queue, serving, conn, toClient,
                 clientVars, spurious>>

\* Faulty variant: no break after a failed recv.
WorkerHangUpGoesOn(w, c) ==
  /\ Serving(w, "recv", "send", c)
  /\ toServer[c] = <<>> /\ conn[c] \in {"closed", "reset"}
  /\ UNCHANGED <<alive, backlog, accepted, queue, serving, conn, toServer,
                 toClient, clientVars, spurious>>

\* recv returns 0 or an error: the worker closes and looks at the queue.
WorkerHangUp(w, c) ==
  /\ Serving(w, "recv", "lock", c)
  /\ toServer[c] = <<>> /\ conn[c] \in {"closed", "reset"}
  /\ conn' = [conn EXCEPT ![c] = "gone"]
  /\ serving' = [serving EXCEPT ![w] = None]
  /\ UNCHANGED <<alive, backlog, accepted, queue, toServer, toClient,
                 clientVars, spurious>>

\* Faulty variant: two answers.
WorkerSendTwice(w, c) ==
  /\ conn[c] \in {"open", "closed"}
  /\ Serving(w, "send", "recv", c)
  /\ toClient' = [toClient EXCEPT ![c] = IF conn[c] = "open" THEN @ + 2 ELSE @]
  /\ conn' = [conn EXCEPT ![c] = IF @ = "open" THEN @ ELSE "reset"]
  /\ UNCHANGED <<alive, backlog, accepted, queue, serving, toServer,
                 clientVars, spurious>>

\* send to a client that has closed its end succeeds and is answered by a
\* reset.  What it returns is not looked at.
WorkerSend(w, c) ==
  /\ conn[c] \in {"open", "closed"}
  /\ Serving(w, "send", "recv", c)
  /\ toClient' = [toClient EXCEPT ![c] = IF conn[c] = "open" THEN @ + 1 ELSE @]
  /\ conn' = [conn EXCEPT ![c] = IF @ = "open" THEN @ ELSE "reset"]
  /\ UNCHANGED <<alive, backlog, accepted, queue, serving, toServer,
                 clientVars, spurious>>

\* After a reset send returns an error, or raises SIGPIPE, which nothing
\* handles: the process ends.
WorkerSendFails(w, c) ==
  /\ conn[c] = "reset"
  /\ Serving(w, "send", "recv", c)
  /\ \/ UNCHANGED <<alive, conn>>
     \/ /\ alive' = FALSE
        /\ conn' = [d \in Clients |-> IF conn[d] = "none" THEN "none" ELSE "gone"]
  /\ UNCHANGED <<backlog, accepted, queue, serving, toServer, toClient,
                 clientVars, spurious>>

Work(w) == \/ WorkerWait(w) \/ WorkerTake(w)
           \/ \E c \in Clients : \/ WorkerReceive(w, c) \/ WorkerHangUp(w, c)
                                 \/ WorkerSend(w, c) \/ WorkerSendFails(w, c)

-----------------------------------------------------------------------------
(* client.cpp.                                                             *)

ClientGoto(c, from, to) ==
  client[c] = from /\ client' = [client EXCEPT ![c] = to]

Connect(c) ==
  /\ alive /\ ClientGoto(c, "start", "prompt")
  /\ conn' = [conn EXCEPT ![c] = "open"]
  /\ backlog' = Append(backlog, c)
  /\ UNCHANGED <<alive, poolVars, toServer, toClient, sent, asked, spurious>>

\* The pieces of a line that one recv of the worker can hold.
Pieces(n, line) == CASE line = "empty" -> <<>>
                     [] line = "short" -> <<n>>
                     [] line = "long"  -> <<n, n>>

ClientSend(c) ==
  /\ sent[c] < MaxLines[c] /\ conn[c] = "open"
  /\ ClientGoto(c, "prompt", "wait")
  /\ sent' = [sent EXCEPT ![c] = @ + 1]
  /\ \E line \in Lines :
       /\ toServer' = [toServer EXCEPT ![c] = @ \o Pieces(sent[c] + 1, line)]
       /\ asked' = [asked EXCEPT ![c] = @ \cup {line}]
  /\ UNCHANGED <<alive, backlog, poolVars, conn, toClient, spurious>>

\* One recv: some of the answers that have arrived.
ClientReceive(c) ==
  /\ ClientGoto(c, "wait", "prompt")
  /\ \E k \in 1 .. toClient[c] : toClient' = [toClient EXCEPT ![c] = @ - k]
  /\ UNCHANGED <<alive, backlog, poolVars, conn, toServer, sent, asked, spurious>>

\* recv returns 0 or an error once the server has ended, the client goes on
\* all the same, and a later send ends it.
ClientLost(c) ==
  /\ conn[c] = "gone" /\ toClient[c] = 0
  /\ \/ ClientGoto(c, "wait", "prompt")
     \/ ClientGoto(c, "prompt", "done")
  /\ UNCHANGED <<alive, backlog, poolVars, conn, toServer, toClient, sent,
                 asked, spurious>>

\* The loop of a client ends by a kill.  Closing a socket with unread data
\* resets the connection.
ClientKilled(c) ==
  /\ client[c] \in {"prompt", "wait"}
  /\ client' = [client EXCEPT ![c] = "done"]
  /\ conn' = [conn EXCEPT ![c] =
                CASE @ = "open" -> IF toClient[c] = 0 THEN "closed" ELSE "reset"
                  [] OTHER      -> @]
  /\ toClient' = [toClient EXCEPT ![c] = 0]
  /\ UNCHANGED <<alive, backlog, poolVars, toServer, sent, asked, spurious>>

Use(c) == \/ Connect(c) \/ ClientSend(c) \/ ClientReceive(c) \/ ClientLost(c)
          \/ ClientKilled(c)

-----------------------------------------------------------------------------
Next == \/ Accept \/ Push
        \/ \E w \in Workers : Work(w) \/ SpuriousWakeup(w)
        \/ \E c \in Clients : Use(c)

Spec == Init /\ [][Next]_vars

\* Runnable threads run, recv returns what has arrived.  A client's user may
\* type nothing for ever, and so keep a worker.
Fairness ==
  /\ WF_vars(Accept) /\ WF_vars(Push)
  /\ \A w \in Workers : WF_vars(Work(w))
  /\ \A c \in Clients : WF_vars(ClientReceive(c)) /\ WF_vars(ClientLost(c))

FairSpec == Spec /\ Fairness

-----------------------------------------------------------------------------
(* Properties.                                                             *)

\* Every variable has its type, and a worker has a socket while it serves.
TypeOK ==
  /\ alive \in BOOLEAN /\ spurious \in 0 .. MaxSpurious
  /\ backlog \in Seq(Clients) /\ queue \in Seq(Clients)
  /\ accepted \in Clients \cup {None}
  /\ worker \in [Workers -> {"lock", "wait", "recv", "send"}]
  /\ serving \in [Workers -> Clients \cup {None}]
  /\ \A w \in Workers : serving[w] # None <=> worker[w] \in {"recv", "send"}
  /\ conn \in [Clients -> {"none", "open", "closed", "reset", "gone"}]
  /\ toServer \in [Clients -> Seq(Nat)]
  /\ toClient \in [Clients -> Nat]
  /\ client \in [Clients -> {"start", "prompt", "wait", "done"}]
  /\ sent \in [Clients -> Nat]
  /\ asked \in [Clients -> SUBSET Lines]

\* While the server lives, a connection that either end still has is in
\* exactly one place: before accept, with main, in the queue, or with one
\* worker.  None is dropped and none is served by two.
Places(c) ==
  Cardinality({i \in 1 .. Len(backlog) : backlog[i] = c})
  + Cardinality({i \in 1 .. Len(queue) : queue[i] = c})
  + Cardinality({w \in Workers : serving[w] = c})
  + (IF accepted = c THEN 1 ELSE 0)

OnePlace ==
  alive => \A c \in Clients :
             Places(c) = IF conn[c] \in {"none", "gone"} THEN 0 ELSE 1

\* While a worker sleeps, as many others are on their way to the queue as it
\* has connections: none waits for a wakeup that was given to nobody.
NoLostWakeup ==
  (\E w \in Workers : worker[w] = "wait")
  => Len(queue) <= Cardinality({w \in Workers : worker[w] = "lock"})

\* A client that sends short lines only has no answer outstanding when it
\* sends the next: each recv gave it the answer to its line.
InStep ==
  \A c \in Clients :
    client[c] = "prompt" /\ conn[c] = "open" /\ asked[c] \subseteq {"short"}
    => /\ toServer[c] = <<>> /\ toClient[c] = 0
       /\ \A w \in Workers : ~(worker[w] = "send" /\ serving[w] = c)

\* Clients that are killed at any moment do not end the server, unless one
\* has sent a line that takes more than one recv (SIGPIPE on the second).
ServerSurvives == ~alive => \E c \in Clients : "long" \in asked[c]

\* A client that has sent something is not left waiting while a worker is
\* free of other clients.
AllTaken(c) == \A w \in Workers : serving[w] \notin {None, c}
Served ==
  \A c \in Clients :
    []<>(client[c] # "wait" \/ "empty" \in asked[c] \/ AllTaken(c))
=============================================================================

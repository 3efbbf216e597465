----------------------------- MODULE BankServer ------------------------------
(***************************************************************************)
(* TransparentBank/server.cpp and client.cpp: one handler thread for each  *)
(* connected client, the thread that reports statistics, and the protocol  *)
(* between them on a byte stream without message boundaries.  What a       *)
(* command does to the accounts is Bank's; here a command is its number    *)
(* and how much is said in answer:                                         *)
(*   short     fits the 1023 bytes that client.cpp reads                   *)
(*   long      does not: a sweep over many accounts                        *)
(*   silent    nothing: bad arguments of debit_all, set_min and set_max go *)
(*             to the server's own stderr, "exit " sets no response        *)
(*   shutdown  ends the server process                                     *)
(* A user may also type a wide line: it does not fit the 1023 bytes that   *)
(* server.cpp reads, and arrives as a head, which fills a recv, and a tail.*)
(***************************************************************************)
EXTENDS Naturals, FiniteSets, Sequences, SequencesExt

CONSTANTS Clients, Threshold, Free, Orphan,
          Requests,     \* bound: of what kinds the lines of each client may be
          LongPieces,   \* bound: recvs of the client that a long answer fills
          Capacity,     \* bound: such pieces that a connection buffers
          MaxSpurious   \* bound: spurious wakeups of the statistics thread

Kinds == {"short", "long", "silent", "shutdown"}

ASSUME ServerAssumption ==
  /\ Requests \in [Clients -> Seq(SUBSET (Kinds \cup {"wide"}))]
  /\ LongPieces \in Nat \ {0, 1} /\ Capacity \in Nat \ {0}
  /\ Threshold \in Nat \ {0}    \* 5 in the code
  /\ MaxSpurious \in Nat
  /\ Free \notin Clients /\ Orphan \notin Clients /\ Free # Orphan

VARIABLES
  alive, running,       \* the process; should_continue_running
  main,                 \* the accept loop
  conn,                 \* each connection, as its two ends left it
  toServer, toClient,   \* bytes on their way: texts; pieces of answers
  handler, request,     \* each handler thread and its current command
  unsent,               \* what send has not yet copied of its answer
  bankLock,             \* the mutex of the bank in shared memory
  sendLock,             \* client_connections_lock
  total, stats, reported, spurious,
  client, sent, shown,  \* each client, its last command, what it read for it
  asked                 \* auxiliary: the kinds of line a client has sent, and of
                        \* command that was read out of its joined or split texts

serverVars == <<alive, running, main, bankLock, sendLock>>
statVars   == <<total, stats, reported, spurious>>
clientVars == <<client, sent, shown, asked>>
vars == <<serverVars, conn, toServer, toClient, handler, request, unsent,
          statVars, clientVars>>

Text      == [n : Nat, kind : Kinds \cup {"head", "tail"}]
Piece     == [n : Nat, full : BOOLEAN]
Command   == [n : Nat, kind : Kinds]
NoCommand == [n |-> 0, kind |-> "short"]

Init ==
  /\ alive = TRUE /\ running = TRUE /\ main = "test" /\ bankLock = Free
  /\ sendLock = Free
  /\ conn = [c \in Clients |-> "none"]
  /\ toServer = [c \in Clients |-> <<>>]
  /\ toClient = [c \in Clients |-> <<>>]
  /\ handler = [c \in Clients |-> "none"]
  /\ request = [c \in Clients |-> NoCommand]
  /\ unsent = [c \in Clients |-> <<>>]
  /\ total = 0 /\ stats = "test" /\ reported = 0 /\ spurious = 0
  /\ client = [c \in Clients |-> "start"]
  /\ sent = [c \in Clients |-> 0]
  /\ shown = [c \in Clients |-> {}]
  /\ asked = [c \in Clients |-> {}]

Goto(c, from, to) ==
  alive /\ handler[c] = from /\ handler' = [handler EXCEPT ![c] = to]

\* The process ends with all its threads and its own locks.  Its sockets
\* close, and the mutex of the bank stays with the dead.
Die ==
  /\ alive' = FALSE
  /\ main' = "gone"
  /\ handler' = [c \in Clients |-> "none"]
  /\ conn' = [c \in Clients |-> IF conn[c] = "none" THEN "none" ELSE "gone"]
  /\ bankLock' = IF bankLock \in Clients THEN Orphan ELSE bankLock
  /\ sendLock' = Free
  /\ toServer' = [c \in Clients |-> <<>>]
  /\ request' = [c \in Clients |-> NoCommand]
  /\ unsent' = [c \in Clients |-> <<>>]
  /\ stats' = "gone"
  /\ UNCHANGED <<running, toClient, total, reported, spurious, clientVars>>

-----------------------------------------------------------------------------
(* main: accept and one detached thread per connection.                    *)

MainTest ==
  /\ alive /\ main = "test"
  /\ IF running
     THEN /\ main' = "accept"
          /\ UNCHANGED <<alive, running, bankLock, sendLock, conn, toServer,
                         toClient, handler, request, unsent, statVars,
                         clientVars>>
     ELSE Die

Accept(c) ==
  /\ alive /\ main = "accept"
  /\ conn[c] \in {"queued", "queuedClosed"}
  /\ conn' = [conn EXCEPT ![c] = IF @ = "queued" THEN "open" ELSE "closed"]
  /\ handler' = [handler EXCEPT ![c] = "recv"]
  /\ main' = "test"
  /\ UNCHANGED <<alive, running, bankLock, sendLock, toServer, toClient,
                 request, unsent, statVars, clientVars>>

\* accept fails once a shutdown has closed the listening socket.
AcceptFails ==
  /\ alive /\ main = "accept" /\ ~running
  /\ main' = "test"
  /\ UNCHANGED <<alive, running, bankLock, sendLock, conn, toServer, toClient,
                 handler, request, unsent, statVars, clientVars>>

-----------------------------------------------------------------------------
(* handle_client_connection.                                               *)

\* The commands that texts read by one recv can make.  A line that arrives
\* alone and whole is what the client sent; lines that arrived together are
\* one line, and a head or a tail is any line, but a recv that a head fills
\* holds more than the word shutdown.
Read(texts) ==
  {r \in [n : {texts[1].n}, kind : Kinds] :
     /\ Len(texts) = 1 /\ texts[1].kind \in Kinds => r.kind = texts[1].kind
     /\ r.kind = "shutdown" => \A i \in DOMAIN texts : texts[i].kind # "head"}

\* Faulty variant, for sensitivity runs: a rejected command is not answered.
StepsSilent(r) == CASE r.kind = "shutdown" -> {"exit"}
                    [] r.kind = "long"     -> {"command"}
                    [] OTHER               -> {"command", "recv"}

\* process_command: most commands take the bank and give it back; those it
\* rejects, and help, are answered without.
Steps(r) == CASE r.kind = "shutdown" -> {"exit"}
              [] r.kind = "long"     -> {"command"}
              [] OTHER               -> {"command", "send"}

\* One recv: what has arrived, up to a head.  A shutdown clears the flag and
\* closes both sockets, before it exits.
Receive(c) ==
  /\ \E k \in 1 .. Len(toServer[c]) :
       /\ \A i \in 1 .. k - 1 : toServer[c][i].kind # "head"
       /\ \E r \in Read(SubSeq(toServer[c], 1, k)) :
            /\ request' = [request EXCEPT ![c] = r]
            /\ asked' = [asked EXCEPT ![c] = @ \cup {r.kind}]
            /\ \E step \in Steps(r) : Goto(c, "recv", step)
            /\ running' = (running /\ r.kind # "shutdown")
            /\ conn' = [conn EXCEPT ![c] =
                          IF r.kind = "shutdown" THEN "gone" ELSE @]
       /\ toServer' = [toServer EXCEPT ![c] = SubSeq(@, k + 1, Len(@))]
  /\ UNCHANGED <<alive, main, bankLock, sendLock, toClient, unsent, statVars,
                 client, sent, shown>>

\* Faulty variant: no break after a failed recv.
ReceiveNothingGoesOn(c) ==
  /\ toServer[c] = <<>> /\ conn[c] \in {"closed", "reset"}
  /\ Goto(c, "recv", "command")
  /\ UNCHANGED <<serverVars, conn, toServer, toClient, request, unsent,
                 statVars, clientVars>>

\* recv returns 0 or an error: the client is gone.
ReceiveNothing(c) ==
  /\ toServer[c] = <<>> /\ conn[c] \in {"closed", "reset"}
  /\ Goto(c, "recv", "none")
  /\ conn' = [conn EXCEPT ![c] = "gone"]
  /\ UNCHANGED <<serverVars, toServer, toClient, request, unsent, statVars,
                 clientVars>>

\* exit(0) of a shutdown.
Exit(c) == alive /\ handler[c] = "exit" /\ Die

EnterBank(c) ==
  /\ Goto(c, "command", "bank")
  /\ bankLock = Free /\ bankLock' = c
  /\ UNCHANGED <<alive, running, main, sendLock, conn, toServer, toClient,
                 request, unsent, statVars, clientVars>>

\* Faulty variant: a return without unlock_bank.
LeaveBankLocked(c) ==
  /\ Goto(c, "bank", "send")
  /\ UNCHANGED <<serverVars, conn, toServer, toClient, request, unsent,
                 statVars, clientVars>>

LeaveBank(c) ==
  /\ Goto(c, "bank", "send")
  /\ bankLock' = Free
  /\ UNCHANGED <<alive, running, main, sendLock, conn, toServer, toClient,
                 request, unsent, statVars, clientVars>>

\* Faulty variant: response is kept from one command to the next.
PiecesKept(r) == [i \in 1 .. r.n |-> [n |-> i, full |-> FALSE]]

\* The answer, in pieces that one recv of the client can hold.
Pieces(r) ==
  CASE r.kind = "silent" -> <<>>
    [] r.kind = "long"   -> [i \in 1 .. LongPieces |->
                               [n |-> r.n, full |-> i < LongPieces]]
    [] OTHER             -> <<[n |-> r.n, full |-> FALSE]>>

\* The answers to all clients are sent under one lock.
LockSend(c) ==
  /\ Goto(c, "send", "sending")
  /\ sendLock = Free /\ sendLock' = c
  /\ unsent' = [unsent EXCEPT ![c] = Pieces(request[c])]
  /\ UNCHANGED <<alive, running, main, bankLock, conn, toServer, toClient,
                 request, statVars, clientVars>>

\* send fills the buffers of the connection and blocks.
SendPart(c) ==
  /\ alive /\ handler[c] = "sending" /\ conn[c] = "open"
  /\ \E k \in 1 .. Len(unsent[c]) - 1 :
       /\ Len(toClient[c]) + k = Capacity
       /\ toClient' = [toClient EXCEPT ![c] = @ \o SubSeq(unsent[c], 1, k)]
       /\ unsent' = [unsent EXCEPT ![c] = SubSeq(@, k + 1, Len(@))]
  /\ UNCHANGED <<serverVars, conn, toServer, handler, request, statVars,
                 clientVars>>

SendReturns(c, to) ==
  /\ Goto(c, "sending", to)
  /\ sendLock' = Free
  /\ unsent' = [unsent EXCEPT ![c] = <<>>]
  /\ UNCHANGED <<alive, running, main, bankLock, toServer, request, statVars,
                 clientVars>>

Send(c) ==
  /\ conn[c] = "open"
  /\ Len(toClient[c]) + Len(unsent[c]) <= Capacity
  /\ SendReturns(c, "count")
  /\ toClient' = [toClient EXCEPT ![c] = @ \o unsent[c]]
  /\ UNCHANGED conn

\* send to a client that has closed its end succeeds, and is answered by a
\* reset when there was anything to send.  A reset cuts short a send that has
\* copied some of its answer: it returns how much, and nobody compares.
SendToNobody(c) ==
  /\ \/ conn[c] = "closed"
     \/ conn[c] = "reset" /\ unsent[c] # Pieces(request[c])
  /\ SendReturns(c, "count")
  /\ conn' = [conn EXCEPT ![c] = IF unsent[c] = <<>> THEN @ ELSE "reset"]
  /\ UNCHANGED toClient

\* After a reset send returns an error and the thread ends, or it raises
\* SIGPIPE, which nothing handles.
SendFails(c) ==
  /\ conn[c] = "reset" /\ unsent[c] = Pieces(request[c])
  /\ \/ /\ SendReturns(c, "none")
        /\ conn' = [conn EXCEPT ![c] = "gone"]
        /\ UNCHANGED toClient
     \/ alive /\ handler[c] = "sending" /\ Die

\* Faulty variant: only answered commands count, the test is made for all.
CountAnswered(c) ==
  LET now == total + Len(Pieces(request[c])) IN
  /\ Goto(c, "count", "recv")
  /\ total' = now
  /\ stats' = IF now % Threshold = 0 /\ stats = "wait" THEN "woken" ELSE stats
  /\ request' = [request EXCEPT ![c] = NoCommand]
  /\ UNCHANGED <<serverVars, conn, toServer, toClient, unsent, reported,
                 spurious, clientVars>>

\* Under request_counter_lock.
Count(c) ==
  /\ Goto(c, "count", "recv")
  /\ total' = total + 1
  /\ stats' = IF (total + 1) % Threshold = 0 /\ stats = "wait" THEN "woken"
              ELSE stats
  /\ request' = [request EXCEPT ![c] = NoCommand]
  /\ UNCHANGED <<serverVars, conn, toServer, toClient, unsent, reported,
                 spurious, clientVars>>

Handle(c) == \/ Receive(c) \/ ReceiveNothing(c) \/ Exit(c) \/ EnterBank(c)
             \/ LeaveBank(c) \/ LockSend(c) \/ SendPart(c) \/ Send(c)
             \/ SendToNobody(c) \/ SendFails(c) \/ Count(c)

-----------------------------------------------------------------------------
(* display_server_stats.  pthread_cond_wait stands alone, in no loop over  *)
(* a condition.                                                            *)

StatsGoto(from, to) == alive /\ stats = from /\ stats' = to

StatsTest ==
  /\ StatsGoto("test", IF running THEN "wait" ELSE "gone")
  /\ UNCHANGED <<serverVars, conn, toServer, toClient, handler, request,
                 unsent, total, reported, spurious, clientVars>>

StatsReport ==
  /\ StatsGoto("woken", "test")
  /\ reported' = total
  /\ UNCHANGED <<serverVars, conn, toServer, toClient, handler, request,
                 unsent, total, spurious, clientVars>>

StatsSpurious ==
  /\ spurious < MaxSpurious
  /\ StatsGoto("wait", "woken")
  /\ spurious' = spurious + 1
  /\ UNCHANGED <<serverVars, conn, toServer, toClient, handler, request,
                 unsent, total, reported, clientVars>>

-----------------------------------------------------------------------------
(* client.cpp.                                                             *)

ClientGoto(c, from, to) ==
  client[c] = from /\ client' = [client EXCEPT ![c] = to]

Connect(c) ==
  /\ alive /\ running
  /\ ClientGoto(c, "start", "prompt")
  /\ conn' = [conn EXCEPT ![c] = "queued"]
  /\ UNCHANGED <<serverVars, toServer, toClient, handler, request, unsent,
                 statVars, sent, shown, asked>>

\* send takes the whole line, which a recv of the server may not.
TextsOf(n, k) == IF k = "wide" THEN <<[n |-> n, kind |-> "head"],
                                      [n |-> n, kind |-> "tail"]>>
                 ELSE <<[n |-> n, kind |-> k]>>

ClientSend(c) ==
  /\ sent[c] < Len(Requests[c])
  /\ ClientGoto(c, "prompt", "wait")
  /\ sent' = [sent EXCEPT ![c] = @ + 1]
  /\ shown' = [shown EXCEPT ![c] = {}]
  /\ \E k \in Requests[c][sent[c] + 1] :
       /\ toServer' = [toServer EXCEPT ![c] =
                         IF conn[c] = "gone" THEN @
                         ELSE @ \o TextsOf(sent[c] + 1, k)]
       /\ asked' = [asked EXCEPT ![c] = @ \cup {k}]
  /\ UNCHANGED <<serverVars, conn, toClient, handler, request, unsent,
                 statVars>>

\* One recv: what has arrived, up to a piece that fills it.
ClientReceive(c) ==
  /\ ClientGoto(c, "wait", "prompt")
  /\ \E k \in 1 .. Len(toClient[c]) :
       /\ \A i \in 1 .. k - 1 : ~toClient[c][i].full
       /\ shown' = [shown EXCEPT ![c] = {toClient[c][i].n : i \in 1 .. k}]
       /\ toClient' = [toClient EXCEPT ![c] = SubSeq(@, k + 1, Len(@))]
  /\ UNCHANGED <<serverVars, conn, toServer, handler, request, unsent,
                 statVars, sent, asked>>

ClientEof(c) ==
  /\ toClient[c] = <<>> /\ conn[c] = "gone"
  /\ ClientGoto(c, "wait", "done")
  /\ UNCHANGED <<serverVars, conn, toServer, toClient, handler, request,
                 unsent, statVars, sent, shown, asked>>

\* "exit" at the prompt, or a kill at any moment.  Closing a socket with
\* unread data resets the connection.
ClientEnd(c) ==
  /\ client[c] \in {"prompt", "wait"}
  /\ client' = [client EXCEPT ![c] = "done"]
  /\ shown' = [shown EXCEPT ![c] = {}]
  /\ conn' = [conn EXCEPT ![c] =
                CASE @ = "open"   -> IF toClient[c] = <<>> THEN "closed"
                                     ELSE "reset"
                  [] @ = "queued" -> "queuedClosed"
                  [] OTHER        -> @]
  /\ toClient' = [toClient EXCEPT ![c] = <<>>]
  /\ UNCHANGED <<serverVars, toServer, handler, request, unsent, statVars,
                 sent, asked>>

Use(c) == \/ Connect(c) \/ ClientSend(c) \/ ClientReceive(c) \/ ClientEof(c)
          \/ ClientEnd(c)

-----------------------------------------------------------------------------
Next == \/ MainTest \/ AcceptFails \/ StatsTest \/ StatsReport \/ StatsSpurious
        \/ \E c \in Clients : Accept(c) \/ Handle(c) \/ Use(c)

Spec == Init /\ [][Next]_vars

\* Runnable threads run; recv returns what has arrived.  Whether a user types
\* another command or leaves is open, and with it whether answers are read.
Fairness ==
  /\ WF_vars(MainTest \/ AcceptFails \/ \E c \in Clients : Accept(c))
  /\ \A c \in Clients :
       WF_vars(Handle(c)) /\ WF_vars(ClientReceive(c) \/ ClientEof(c))

FairSpec == Spec /\ Fairness

-----------------------------------------------------------------------------
(* Properties.                                                             *)

\* Every variable has its type.
TypeOK ==
  /\ alive \in BOOLEAN /\ running \in BOOLEAN
  /\ main \in {"test", "accept", "gone"}
  /\ bankLock \in Clients \cup {Free, Orphan}
  /\ sendLock \in Clients \cup {Free}
  /\ conn \in [Clients -> {"none", "queued", "queuedClosed", "open", "closed",
                           "reset", "gone"}]
  /\ toServer \in [Clients -> Seq(Text)]
  /\ toClient \in [Clients -> Seq(Piece)]
  /\ handler \in [Clients -> {"none", "recv", "exit", "command", "bank",
                              "send", "sending", "count"}]
  /\ request \in [Clients -> Command]
  /\ unsent \in [Clients -> Seq(Piece)]
  /\ total \in Nat /\ reported \in 0 .. total /\ spurious \in 0 .. MaxSpurious
  /\ stats \in {"test", "wait", "woken", "gone"}
  /\ client \in [Clients -> {"start", "prompt", "wait", "done"}]
  /\ sent \in [Clients -> Nat]
  /\ shown \in [Clients -> SUBSET Nat]
  /\ asked \in [Clients -> SUBSET (Kinds \cup {"wide"})]

\* The bank is held by the one handler that is inside it, and it is lost only
\* with the process: a connection that breaks at any moment gives it back.
BankLockKept ==
  /\ \A c \in Clients : handler[c] = "bank" <=> bankLock = c
  /\ bankLock = Orphan => ~alive

\* A client whose lines and answers all fit one recv sees, at each prompt,
\* the answer to the command it has just sent and nothing else.
InStep ==
  \A c \in Clients :
    client[c] = "prompt" /\ sent[c] > 0 /\ asked[c] \cap {"long", "wide"} = {}
    => shown[c] = {sent[c]}

\* The server outlives its clients, whenever they leave or are killed: only
\* a shutdown ends it, or a client whose line or answer did not fit one recv
\* and that left before the rest of its answers (SIGPIPE).
ServerSurvives ==
  ~alive => \E c \in Clients : asked[c] \cap {"shutdown", "long", "wide"} # {}

\* Without a spurious wakeup no two reports show the same total.
ReportsGrow ==
  [][StatsReport /\ spurious = 0 => total > reported]_vars

\* The handler of d is blocked in send, its client at a prompt does not read.
Clogs(d) ==
  /\ handler[d] = "sending" /\ client[d] = "prompt"
  /\ Len(toClient[d]) = Capacity

\* A client that waits gets an answer or loses the connection, unless its own
\* command is one that the server does not answer, or some client stays at
\* its prompt for ever while its handler, with the lock that all answers are
\* sent under, is blocked in send.
Answered ==
  \A c \in Clients :
    <>[](client[c] = "wait" /\ "silent" \notin asked[c])
    => \E d \in Clients : <>[]Clogs(d)
=============================================================================

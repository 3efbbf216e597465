--------------------------- MODULE CalculatorServer ---------------------------
(***************************************************************************)
(* RPC/server.cpp and RPC/client.cpp: a server that accepts one connection *)
(* at a time, receives one line such as "DIV 7 2", answers it and closes.  *)
(***************************************************************************)
EXTENDS Integers, Sequences

CONSTANTS Clients,
          Requests,   \* the lines that each client may be given
          Half,       \* half the number of ints: 2 ^ 31
          MaxKills,   \* bound: clients killed
          None,
          Huge, Word, Missing   \* arguments that are not ints

IntMin == -Half
IntMax == Half - 1
Ints   == IntMin .. IntMax

\* An argument of a line: a number, one that does not fit, a word, or none.
Arguments == Ints \cup {Huge, Word, Missing}
Operations == {"ADD", "SUB", "MUL", "DIV"}
\* "" is the empty line; "other" is any other first word.
Lines == [op : Operations \cup {"other", ""}, a : Arguments, b : Arguments]

VARIABLES
  server,        \* at "accept", "recv", "send" or "close"; "dead"
  backlog,       \* connections that are not accepted yet
  client_socket, \* the client whose connection is accepted, or None
  result,        \* of the request received; 0 when there is none
  pc,            \* of a client: "start", "typing", "waiting", "done", "killed"
  mess,          \* the line that a client sent
  answer,        \* what the server sent it, or None
  kills

clientVars == <<pc, mess, answer, kills>>
serverVars == <<server, client_socket, result>>
vars == <<serverVars, backlog, clientVars>>

Blank == [op |-> "", a |-> Missing, b |-> Missing]

Init ==
  /\ server = "accept" /\ backlog = <<>> /\ client_socket = None /\ result = 0
  /\ pc = [c \in Clients |-> "start"]
  /\ mess = [c \in Clients |-> Blank]
  /\ answer = [c \in Clients |-> None]
  /\ kills = 0

-----------------------------------------------------------------------------
(* The request.  a, b and result are not initialised: what is not assigned *)
(* is any int.                                                             *)

Wrap(n) == ((n - IntMin) % (2 * Half)) + IntMin

\* The machine's division, towards zero; TLA+ rounds down.
Abs(n) == IF n < 0 THEN -n ELSE n
Quotient(a, b) ==
  LET q == Abs(a) \div Abs(b) IN IF (a < 0) = (b < 0) THEN q ELSE -q
\* It traps when the quotient is not an int.
Traps(a, b) == b = 0 \/ (a = IntMin /\ b = -1)

\* ss >> n, on a stream that is still good.
Extract(n) == CASE n \in Ints -> {n} [] n = Huge -> {IntMin, IntMax}
                [] n = Word -> {0} [] n = Missing -> Ints

\* Faulty variant: the arguments the other way round.
PairsSwapped(l) == Extract(l.b) \X (IF l.b \in Ints THEN Extract(l.a) ELSE Ints)

\* ss >> command >> a >> b: after a failure the stream leaves b alone.
Pairs(l) == Extract(l.a) \X (IF l.a \in Ints THEN Extract(l.b) ELSE Ints)

Results(op, a, b) == CASE op = "ADD" -> {Wrap(a + b)}
                       [] op = "SUB" -> {Wrap(a - b)}
                       [] op = "MUL" -> {Wrap(a * b)}
                       [] op = "DIV" -> {Quotient(a, b)}
                       [] OTHER -> Ints
-----------------------------------------------------------------------------
(* The server.  Its connections are closed with it when it dies: who waits *)
(* for an answer gets none.                                                *)

Here(c) == pc[c] \in {"typing", "waiting"}

Die == /\ server' = "dead" /\ client_socket' = None /\ backlog' = <<>>
       /\ pc' = [c \in Clients |-> IF Here(c) THEN "done" ELSE pc[c]]
       /\ result' = 0 /\ UNCHANGED <<mess, answer, kills>>

Accept ==
  /\ server = "accept" /\ backlog # <<>>
  /\ client_socket' = Head(backlog) /\ backlog' = Tail(backlog)
  /\ server' = "recv"
  /\ UNCHANGED <<result, clientVars>>

\* recv blocks until something arrives; a client that sent nothing may only
\* be killed, and recv returns 0.
Arrived(c) == mess[c].op # ""

Recv ==
  LET c == client_socket
      l == mess[c]
  IN  /\ server = "recv" /\ Arrived(c)
      /\ \E ab \in Pairs(l) :
           IF l.op = "DIV" /\ Traps(ab[1], ab[2])
           THEN Die
           ELSE /\ result' \in Results(l.op, ab[1], ab[2])
                /\ server' = "send"
                /\ UNCHANGED <<client_socket, backlog, clientVars>>

\* Faulty variant: nothing received is tried again.
RecvAgain ==
  /\ server = "recv" /\ ~Arrived(client_socket) /\ pc[client_socket] = "killed"
  /\ UNCHANGED vars

RecvNothing ==
  /\ server = "recv" /\ ~Arrived(client_socket) /\ pc[client_socket] = "killed"
  /\ result' \in Ints /\ server' = "send"
  /\ UNCHANGED <<client_socket, backlog, clientVars>>

\* recv finds a connection that was reset: it is closed unanswered.
RecvFails ==
  /\ server = "recv" /\ pc[client_socket] = "killed"
  /\ server' = "close"
  /\ UNCHANGED <<client_socket, result, backlog, clientVars>>

\* Faulty variant: one send more, to a client that is gone, raises SIGPIPE.
SendTwice ==
  /\ server = "send"
  /\ IF pc[client_socket] = "killed" THEN Die
     ELSE /\ answer' = [answer EXCEPT ![client_socket] = result]
          /\ server' = "close"
          /\ UNCHANGED <<client_socket, result, backlog, pc, mess, kills>>

\* The first send to a client that is gone succeeds.
Send ==
  /\ server = "send"
  /\ answer' = IF pc[client_socket] = "killed" THEN answer
               ELSE [answer EXCEPT ![client_socket] = result]
  /\ server' = "close"
  /\ UNCHANGED <<client_socket, result, backlog, pc, mess, kills>>

Close ==
  /\ server = "close"
  /\ server' = "accept" /\ client_socket' = None /\ result' = 0
  /\ UNCHANGED <<backlog, clientVars>>
-----------------------------------------------------------------------------
(* A client.                                                               *)

Connect(c) ==
  /\ pc[c] = "start"
  /\ IF server = "dead"
     THEN pc' = [pc EXCEPT ![c] = "done"] /\ UNCHANGED backlog
     ELSE pc' = [pc EXCEPT ![c] = "typing"] /\ backlog' = Append(backlog, c)
  /\ UNCHANGED <<serverVars, mess, answer, kills>>

\* An empty line is a send of no bytes, and the client waits all the same.
SendLine(c) ==
  /\ pc[c] = "typing"
  /\ \E l \in Requests[c] : mess' = [mess EXCEPT ![c] = l]
  /\ pc' = [pc EXCEPT ![c] = "waiting"]
  /\ UNCHANGED <<serverVars, backlog, answer, kills>>

RecvAnswer(c) ==
  /\ pc[c] = "waiting" /\ answer[c] # None
  /\ pc' = [pc EXCEPT ![c] = "done"]
  /\ UNCHANGED <<serverVars, backlog, mess, answer, kills>>

Kill(c) ==
  /\ Here(c) /\ kills < MaxKills
  /\ pc' = [pc EXCEPT ![c] = "killed"] /\ kills' = kills + 1
  /\ UNCHANGED <<serverVars, backlog, mess, answer>>

ServerStep == Accept \/ Recv \/ RecvNothing \/ Send \/ Close
Next == ServerStep \/ RecvFails
        \/ \E c \in Clients : Connect(c) \/ SendLine(c) \/ RecvAnswer(c) \/ Kill(c)

Spec == Init /\ [][Next]_vars

\* The server and the client's last step need the scheduler only; the rest is
\* up to users and the network.
Fairness == WF_vars(ServerStep) /\ \A c \in Clients : WF_vars(RecvAnswer(c))
-----------------------------------------------------------------------------
(* Properties.                                                             *)

\* Two's complement, said without Wrap: the int that is n, or differs from it
\* by a multiple of the number of ints.
Agrees(r, n) == r \in Ints /\ (r - n) % (2 * Half) = 0

\* The reference: the quotient leaves a remainder smaller than b with the sign
\* of a.
Divides(r, a, b) == LET rest == a - r * b IN
  Abs(rest) < Abs(b) /\ (rest # 0 => (rest < 0) = (a < 0))

Complete(l) == l.op \in Operations /\ l.a \in Ints /\ l.b \in Ints

\* A client that sent an operation with its two numbers, and is answered, is
\* answered with the result of its own line.
AnswersRight ==
  \A c \in Clients :
    LET l == mess[c]  r == answer[c] IN
    r # None /\ Complete(l) =>
      CASE l.op = "ADD" -> Agrees(r, l.a + l.b)
        [] l.op = "SUB" -> Agrees(r, l.a - l.b)
        [] l.op = "MUL" -> Agrees(r, l.a * l.b)
        [] l.op = "DIV" -> Divides(r, l.a, l.b)

\* Only a division may end the server, by nothing, of the smallest int by -1,
\* or by what was in memory when a number is missing: no other line does, and
\* no client that is killed, whatever it was doing.
ServerSurvives ==
  server = "dead" =>
    \E c \in Clients : LET l == mess[c] IN
      l.op = "DIV" /\ (Complete(l) => Traps(l.a, l.b))

\* The server waits for a user that has connected and sends nothing.
Held == server = "recv" /\ pc[client_socket] \in {"typing", "waiting"}
        /\ ~Arrived(client_socket)

\* Who sent a line is answered, or sees the connection end, unless the server
\* is held by a silent client for ever.
Served ==
  \A c \in Clients :
    (pc[c] = "waiting" ~> pc[c] # "waiting") \/ <>[]Held
=============================================================================

--------------------------------- MODULE Chat ---------------------------------
(***************************************************************************)
(* Chat/server.cpp and Chat/client.cpp: a thread for each connection, and  *)
(* a vector of the clients that all threads use without a lock.  A use of  *)
(* the vector has a first and a last step; when one that writes overlaps   *)
(* another, the behaviour is undefined and the model goes no further.      *)
(***************************************************************************)
EXTENDS Integers, Sequences, FiniteSets, SequencesExt, FiniteSetsExt

CONSTANTS Users,      \* one client each
          Texts,      \* what a user may type
          MaxLines,   \* bound: lines that each user types
          Killed      \* bound: whose client may be killed

ASSUME ChatAssumption ==
  /\ IsFiniteSet(Users) /\ {"name", "joined", "left"} \cap Texts = {}
  /\ MaxLines \in [Users -> Nat] /\ Killed \subseteq Users

VARIABLES
  server,    \* "up", "dead", or "undefined"
  clients,   \* the vector
  pc,        \* where handle_client is; "none" before accept, "end" after
  socket,    \* the descriptor that a handler was given
  message,   \* what it tells: "joined", "left", or the text of a user
  item,      \* where its walk over the vector is
  reached,   \* auxiliary: whom the walk sent to
  user,      \* a client: "start", "name", "talk" or "gone"
  stream,    \* what it sent and the server has not received
  peer,      \* the connection, as a send of the server finds it
  typed

userVars == <<user, stream, peer, typed>>
walkVars == <<message, item, reached>>
vars == <<server, clients, pc, socket, walkVars, userVars>>

Init ==
  /\ server = "up" /\ clients = <<>>
  /\ pc = [u \in Users |-> "none"] /\ socket = [u \in Users |-> 0]
  /\ message = [u \in Users |-> <<>>]
  /\ item = [u \in Users |-> 0] /\ reached = [u \in Users |-> {}]
  /\ user = [u \in Users |-> "start"] /\ stream = [u \in Users |-> <<>>]
  /\ peer = [u \in Users |-> "open"]
  /\ typed = [u \in Users |-> 0]

-----------------------------------------------------------------------------
(* Connections.                                                            *)

\* The owners of the open descriptors.  A handler closes its own before it
\* tells that its user left.
Leaving(u) == message[u] = <<"left">>
Connected == {u \in Users : pc[u] \notin {"none", "end"} /\ ~Leaving(u)}
Owner(fd) == {u \in Connected : socket[u] = fd}

\* A peer that is gone answers what is sent to it with a reset; then a send
\* fails, the first or a later one with SIGPIPE.
Gone(u) == peer[u] \in {"closed", "reset"}
AfterSend(p) == IF p \in {"open", "told"} THEN "told" ELSE "reset"

\* send(fd), by a thread whose other effects are in the caller.
SendTo(fd) ==
  /\ peer' = [u \in Users |-> IF u \in Owner(fd) THEN AfterSend(peer[u])
                              ELSE peer[u]]
  /\ \/ server' = server
     \/ \E u \in Owner(fd) : peer[u] = "reset" /\ server' = "dead"
  /\ UNCHANGED <<user, stream, typed>>
-----------------------------------------------------------------------------
(* A client.                                                               *)

SendOf(u, text) == stream' = [stream EXCEPT ![u] = Append(@, text)]

\* The name; the rest of its line is empty and the first send of no bytes.
SendName(u) ==
  /\ server = "up" /\ user[u] = "name"
  /\ SendOf(u, "name") /\ user' = [user EXCEPT ![u] = "talk"]
  /\ UNCHANGED <<server, clients, pc, socket, walkVars, peer, typed>>

\* A client that closes with something unread resets the connection.
Leaves(u) ==
  /\ user' = [user EXCEPT ![u] = "gone"]
  /\ \E p \in IF peer[u] = "told" THEN {"closed", "reset"} ELSE {"closed"} :
       peer' = [peer EXCEPT ![u] = p]

SendLine(u) ==
  /\ server = "up" /\ user[u] = "talk" /\ typed[u] < MaxLines[u]
  /\ typed' = [typed EXCEPT ![u] = @ + 1]
  /\ \E text \in Texts : /\ SendOf(u, text)
                         /\ IF text = "/exit" THEN Leaves(u)
                            ELSE UNCHANGED <<user, peer>>
  /\ UNCHANGED <<server, clients, pc, socket, walkVars>>

Kill(u) ==
  /\ server = "up" /\ user[u] \in {"name", "talk"} /\ u \in Killed
  /\ Leaves(u)
  /\ UNCHANGED <<server, clients, pc, socket, walkVars, stream, typed>>
-----------------------------------------------------------------------------
(* The server.                                                             *)

\* connect and accept.  Connections are accepted in the order they were made,
\* which is any; accept returns the least descriptor that is free.
Accept(u) ==
  /\ server = "up" /\ user[u] = "start"
  /\ user' = [user EXCEPT ![u] = "name"] /\ pc' = [pc EXCEPT ![u] = "name"]
  /\ LET free == (1 .. Cardinality(Users)) \ {socket[v] : v \in Connected}
     IN  socket' = [socket EXCEPT ![u] = Min(free)]
  /\ UNCHANGED <<server, clients, walkVars, stream, peer, typed>>

\* A handler goes on, at l; what it does to the rest is left to the caller.
Goto(u, l) == /\ server = "up" /\ pc' = [pc EXCEPT ![u] = l]
              /\ UNCHANGED socket

\* recv returns all that has arrived, however many sends it was.
Recv(u) == stream[u] # <<>> /\ stream' = [stream EXCEPT ![u] = <<>>]

\* Faulty variant: only an error ends it.
RecvError(u) == stream[u] = <<>> /\ peer[u] = "reset"

\* It returns 0 or less when the client is gone and nothing is left.
RecvEnd(u) == stream[u] = <<>> /\ Gone(u)

Name(u) ==
  /\ pc[u] = "name" /\ Recv(u) /\ Goto(u, "push")
  /\ message' = [message EXCEPT ![u] = stream[u]]
  /\ UNCHANGED <<server, clients, item, reached, user, peer, typed>>

NoName(u) ==
  /\ pc[u] = "name" /\ RecvEnd(u) /\ Goto(u, "end")
  /\ UNCHANGED <<server, clients, walkVars, userVars>>

\* The first step of a use of the vector.
Writing == {"pushing", "erasing"}
Reading == {"telling", "listing"}
Begin(u, l) ==
  /\ Goto(u, l)
  /\ server' = IF \E v \in Users \ {u} :
                    pc[v] \in IF l \in Writing THEN Writing \cup Reading
                              ELSE Writing
               THEN "undefined" ELSE server

PushBegin(u) ==
  /\ pc[u] = "push" /\ Begin(u, "pushing")
  /\ UNCHANGED <<clients, walkVars, userVars>>

Push(u) ==
  /\ pc[u] = "pushing" /\ Goto(u, "tell")
  /\ clients' = Append(clients, [username |-> message[u], socket |-> socket[u],
                                 owner |-> u])
  /\ message' = [message EXCEPT ![u] = <<"joined">>]
  /\ UNCHANGED <<server, item, reached, userVars>>

Tell(u) ==
  /\ pc[u] = "tell" /\ Begin(u, "telling")
  /\ item' = [item EXCEPT ![u] = 1]
  /\ reached' = [reached EXCEPT ![u] = {}]
  /\ UNCHANGED <<clients, message, userVars>>

\* Faulty variant: a client that is gone ends the walk.
SendItemOrStop(u) ==
  /\ pc[u] = "telling" /\ item[u] <= Len(clients) /\ Goto(u, "telling")
  /\ LET fd == clients[item[u]].socket IN
       IF \E v \in Owner(fd) : peer[v] = "reset"
       THEN /\ item' = [item EXCEPT ![u] = Len(clients) + 1]
            /\ UNCHANGED <<server, reached, userVars>>
       ELSE /\ item' = [item EXCEPT ![u] = @ + 1]
            /\ IF fd = socket[u] THEN UNCHANGED <<server, reached, userVars>>
               ELSE SendTo(fd)
                    /\ reached' = [reached EXCEPT ![u] = @ \cup Owner(fd)]
  /\ UNCHANGED <<clients, message>>

\* One item of the walk of send_messages.
SendItem(u) ==
  /\ pc[u] = "telling" /\ item[u] <= Len(clients) /\ Goto(u, "telling")
  /\ LET fd == clients[item[u]].socket IN
       IF fd = socket[u] THEN UNCHANGED <<server, reached, userVars>>
       ELSE SendTo(fd) /\ reached' = [reached EXCEPT ![u] = @ \cup Owner(fd)]
  /\ item' = [item EXCEPT ![u] = @ + 1]
  /\ UNCHANGED <<clients, message>>

Told(u) ==
  /\ pc[u] = "telling" /\ item[u] > Len(clients)
  /\ Goto(u, IF Leaving(u) THEN "end" ELSE "loop")
  /\ item' = [item EXCEPT ![u] = 0] /\ reached' = [reached EXCEPT ![u] = {}]
  /\ message' = [message EXCEPT ![u] = <<>>]
  /\ UNCHANGED <<server, clients, userVars>>

\* The body of the loop: a line that is neither of the commands is told to
\* the others, and so is a command that arrived with another line.
Line(u) ==
  /\ pc[u] = "loop" /\ Recv(u)
  /\ Goto(u, CASE stream[u] = <<"/exit">> -> "erase"
               [] stream[u] = <<"/list">> -> "list"
               [] OTHER -> "tell")
  /\ message' = [message EXCEPT ![u] = stream[u]]
  /\ UNCHANGED <<server, clients, item, reached, user, peer, typed>>

\* Faulty variant: the descriptor is closed first.
EndClosed(u) ==
  /\ pc[u] = "loop" /\ RecvEnd(u) /\ Goto(u, "erase")
  /\ message' = [message EXCEPT ![u] = <<"left">>]
  /\ UNCHANGED <<server, clients, item, reached, userVars>>

End(u) ==
  /\ pc[u] = "loop" /\ RecvEnd(u) /\ Goto(u, "erase")
  /\ UNCHANGED <<server, clients, walkVars, userVars>>

ListBegin(u) ==
  /\ pc[u] = "list" /\ Begin(u, "listing")
  /\ UNCHANGED <<clients, walkVars, userVars>>

List(u) ==
  /\ pc[u] = "listing" /\ Goto(u, "loop") /\ SendTo(socket[u])
  /\ message' = [message EXCEPT ![u] = <<>>]
  /\ UNCHANGED <<clients, item, reached>>

EraseBegin(u) ==
  /\ pc[u] = "erase" /\ Begin(u, "erasing")
  /\ UNCHANGED <<clients, walkVars, userVars>>

\* What the loop that erases leaves: its own item is not among them.
Others(fd) ==
  LET left[k \in 0 .. Len(clients)] ==
        IF k = 0 THEN <<>>
        ELSE IF clients[k].socket = fd THEN left[k - 1]
        ELSE Append(left[k - 1], clients[k])
  IN  left[Len(clients)]
Erase(u) ==
  /\ pc[u] = "erasing" /\ Goto(u, "close")
  /\ clients' = Others(socket[u])
  /\ UNCHANGED <<server, walkVars, userVars>>

\* The descriptor is free from here on, and may be another handler's before
\* the others are told; the handler that closed it still compares with it.
Close(u) ==
  /\ pc[u] = "close" /\ Goto(u, "tell")
  /\ message' = [message EXCEPT ![u] = <<"left">>]
  /\ UNCHANGED <<server, clients, item, reached, userVars>>

Handler(u) ==
  \/ Name(u) \/ NoName(u) \/ PushBegin(u) \/ Push(u) \/ Tell(u) \/ SendItem(u)
  \/ Told(u) \/ Line(u) \/ End(u) \/ ListBegin(u) \/ List(u)
  \/ EraseBegin(u) \/ Erase(u) \/ Close(u)

Next == \E u \in Users : \/ Accept(u) \/ Handler(u)
                         \/ SendName(u) \/ SendLine(u) \/ Kill(u)

Spec == Init /\ [][Next]_vars

\* The threads run; users type when they like.
FairSpec == Spec /\ \A u \in Users : WF_vars(Handler(u))
-----------------------------------------------------------------------------
(* Properties.                                                             *)

\* Those whose handler has pushed and not erased.
Members == {u \in Users :
              /\ ~Leaving(u)
              /\ pc[u] \in {"tell", "telling", "loop", "list", "listing",
                            "erase", "erasing"}}

\* The vector holds the members, each once, with a descriptor that is open and
\* its own, whatever descriptors have been closed and used again, as long as
\* no two uses of the vector overlap.
ListRight ==
  /\ {clients[k].owner : k \in DOMAIN clients} = Members
  /\ Len(clients) = Cardinality(Members)
  /\ \A k \in DOMAIN clients :
       clients[k].socket = socket[clients[k].owner]
       /\ Owner(clients[k].socket) = {clients[k].owner}

\* A message has been sent to every other member when the walk over them is
\* done, those that are gone among them; one exception: that a user left is
\* not told to a newcomer with the same descriptor.
EveryoneTold ==
  \A u \in Users :
    pc[u] = "telling" /\ item[u] > Len(clients) =>
      reached[u] = {v \in Members \ {u} : Leaving(u) => socket[v] # socket[u]}

\* Users that are gone, having typed /exit or not, leave the chat, unless two
\* uses of the vector overlap or a send to one that is gone ends the server.
ExitLeaves ==
  []<>(server = "up" => \A u \in Users : user[u] = "gone" => pc[u] = "end")
=============================================================================

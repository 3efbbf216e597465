----------------------------- MODULE ServerProofs -----------------------------
(***************************************************************************)
(* Proofs about BankServer, for any number of clients and of commands, and *)
(* any interleaving of handlers, clients that leave and shutdowns.         *)
(***************************************************************************)
EXTENDS BankServer, SequenceTheorems, TLAPS

-----------------------------------------------------------------------------
(* Sequences of a stream.                                                  *)

\* What is left of a stream after a recv is a stream.
LEMMA RestIsSeq ==
  ASSUME NEW S, NEW s \in Seq(S), NEW k \in 1 .. Len(s)
  PROVE  /\ SubSeq(s, k + 1, Len(s)) \in Seq(S)
         /\ SubSeq(s, 1, k) \in Seq(S)
         /\ Len(SubSeq(s, 1, k)) = k
         /\ SubSeq(s, 1, k)[1] = s[1]
         /\ \A i \in 1 .. Len(SubSeq(s, k + 1, Len(s))) :
              SubSeq(s, k + 1, Len(s))[i] = s[k + i]
<1>1. Len(s) \in Nat /\ k \in Nat
  OBVIOUS
<1>2. \A i \in 1 .. k : s[i] \in S
  BY <1>1
<1>3. \A i \in k + 1 .. Len(s) : s[i] \in S
  BY <1>1
<1>4. SubSeq(s, 1, k) \in Seq(S)
  BY <1>1, <1>2, SubSeqProperties
<1>5. SubSeq(s, k + 1, Len(s)) \in Seq(S)
  BY <1>1, <1>3, SubSeqProperties
<1>6. Len(SubSeq(s, 1, k)) = k /\ SubSeq(s, 1, k)[1] = s[1]
  BY <1>1, SubSeqProperties
<1>7. \A i \in 1 .. Len(SubSeq(s, k + 1, Len(s))) :
        SubSeq(s, k + 1, Len(s))[i] = s[k + i]
  BY <1>1, SubSeqProperties
<1> QED BY <1>4, <1>5, <1>6, <1>7

\* A recv from a stream of one element takes it.
LEMMA RestOfOne ==
  ASSUME NEW x, NEW s, s = <<x>>, NEW k \in 1 .. Len(s)
  PROVE  k = 1 /\ SubSeq(s, 1, k) = s /\ SubSeq(s, k + 1, Len(s)) = <<>>
<1>1. s \in Seq({x}) /\ Len(s) = 1
  OBVIOUS
<1>2. k = 1
  BY <1>1
<1>3. SubSeq(s, 1, Len(s)) = s
  BY <1>1, SubSeqFull
<1>4. SubSeq(s, 2, 1) = <<>>
  BY SubSeqEmpty
<1> QED BY <1>1, <1>2, <1>3, <1>4

-----------------------------------------------------------------------------
(* Type correctness.                                                       *)

LEMMA TypeInit == Init => TypeOK
  BY ServerAssumption
  DEF Init, TypeOK, Command, NoCommand, Kinds

\* The end of the process keeps the types.
LEMMA TypeDie == ASSUME TypeOK, Die PROVE TypeOK'
<1>1. NoCommand \in Command
  BY DEF Command, NoCommand, Kinds
<1>2. <<>> \in Seq(Text) /\ <<>> \in Seq(Piece)
  OBVIOUS
<1> QED BY <1>1, <1>2 DEF TypeOK, Die, clientVars

LEMMA TypeReceive ==
  ASSUME TypeOK, NEW c \in Clients, Receive(c) PROVE TypeOK'
<1>1. PICK k \in 1 .. Len(toServer[c]) :
        /\ \E r \in Read(SubSeq(toServer[c], 1, k)) :
             /\ request' = [request EXCEPT ![c] = r]
             /\ asked' = [asked EXCEPT ![c] = @ \cup {r.kind}]
             /\ \E step \in Steps(r) : Goto(c, "recv", step)
             /\ running' = (running /\ r.kind # "shutdown")
             /\ conn' = [conn EXCEPT ![c] =
                           IF r.kind = "shutdown" THEN "gone" ELSE @]
        /\ toServer' = [toServer EXCEPT ![c] = SubSeq(@, k + 1, Len(@))]
  BY DEF Receive
<1>2. PICK r \in Read(SubSeq(toServer[c], 1, k)) :
        /\ request' = [request EXCEPT ![c] = r]
        /\ asked' = [asked EXCEPT ![c] = @ \cup {r.kind}]
        /\ \E step \in Steps(r) : Goto(c, "recv", step)
        /\ running' = (running /\ r.kind # "shutdown")
        /\ conn' = [conn EXCEPT ![c] =
                      IF r.kind = "shutdown" THEN "gone" ELSE @]
  BY <1>1
<1>3. PICK step \in Steps(r) : Goto(c, "recv", step)
  BY <1>2
<1>4. step \in {"exit", "command", "send"}
  BY DEF Steps
<1>5. /\ toServer[c] \in Seq(Text)
      /\ SubSeq(toServer[c], k + 1, Len(toServer[c])) \in Seq(Text)
      /\ SubSeq(toServer[c], 1, k) \in Seq(Text)
      /\ Len(SubSeq(toServer[c], 1, k)) = k
  BY RestIsSeq DEF TypeOK
<1>6. r \in Command
  <2> DEFINE got == SubSeq(toServer[c], 1, k)
  <2>1. got[1] \in Text
    BY <1>5
  <2>2. got[1].n \in Nat
    BY <2>1 DEF Text
  <2> QED BY <2>2 DEF Read, Command
<1>7. running' \in BOOLEAN
  BY <1>2 DEF TypeOK
<1>8. r.kind \in Kinds
  BY <1>6 DEF Command
<1>9. toServer' \in [Clients -> Seq(Text)]
  BY <1>1, <1>5 DEF TypeOK
<1>10. request' \in [Clients -> Command]
  BY <1>2, <1>6 DEF TypeOK
<1>11. asked' \in [Clients -> SUBSET (Kinds \cup {"wide"})]
  <2>1. asked[c] \cup {r.kind} \in SUBSET (Kinds \cup {"wide"})
    BY <1>8 DEF TypeOK
  <2> QED BY <2>1, <1>2 DEF TypeOK
<1> QED BY <1>2, <1>3, <1>4, <1>7, <1>9, <1>10, <1>11
  DEF TypeOK, Receive, Goto, statVars

\* Answers are made of pieces.
LEMMA PiecesAreSeq ==
  ASSUME NEW r \in Command PROVE Pieces(r) \in Seq(Piece)
<1>1. r.n \in Nat
  BY DEF Command
<1>2. CASE r.kind = "silent"
  BY <1>2 DEF Pieces
<1>3. CASE r.kind = "long"
  <2>1. \A i \in 1 .. LongPieces : [n |-> r.n, full |-> i < LongPieces] \in Piece
    BY <1>1 DEF Piece
  <2>2. [i \in 1 .. LongPieces |-> [n |-> r.n, full |-> i < LongPieces]]
          \in Seq(Piece)
    <3>1. [i \in 1 .. LongPieces |-> [n |-> r.n, full |-> i < LongPieces]]
            \in [1 .. LongPieces -> Piece]
      BY <2>1
    <3>2. LongPieces \in Nat
      BY ServerAssumption
    <3> QED BY <3>1, <3>2, SeqDef
  <2> QED BY <1>3, <2>2 DEF Pieces
<1>4. CASE r.kind \notin {"silent", "long"}
  <2>1. [n |-> r.n, full |-> FALSE] \in Piece
    BY <1>1 DEF Piece
  <2>2. <<[n |-> r.n, full |-> FALSE]>> \in Seq(Piece)
    BY <2>1
  <2> QED BY <1>4, <2>2 DEF Pieces
<1> QED BY <1>2, <1>3, <1>4

LEMMA TypeHandle ==
  ASSUME TypeOK, NEW c \in Clients, Handle(c) PROVE TypeOK'
<1> USE DEF TypeOK, Goto, serverVars, statVars, clientVars
<1>1. CASE Receive(c)
  BY <1>1, TypeReceive
<1>2. CASE ReceiveNothing(c)
  BY <1>2 DEF ReceiveNothing
<1>3. CASE Exit(c)
  BY <1>3, TypeDie DEF Exit
<1>4. CASE EnterBank(c)
  BY <1>4 DEF EnterBank
<1>5. CASE LeaveBank(c)
  BY <1>5 DEF LeaveBank
<1>6. CASE LockSend(c)
  <2>1. Pieces(request[c]) \in Seq(Piece)
    BY PiecesAreSeq
  <2> QED BY <1>6, <2>1 DEF LockSend
<1>7. CASE SendPart(c)
  <2>1. PICK k \in 1 .. Len(unsent[c]) - 1 :
          /\ toClient' = [toClient EXCEPT ![c] = @ \o SubSeq(unsent[c], 1, k)]
          /\ unsent' = [unsent EXCEPT ![c] = SubSeq(@, k + 1, Len(@))]
    BY <1>7 DEF SendPart
  <2>2. /\ SubSeq(unsent[c], 1, k) \in Seq(Piece)
        /\ SubSeq(unsent[c], k + 1, Len(unsent[c])) \in Seq(Piece)
    <3>1. unsent[c] \in Seq(Piece) /\ k \in 1 .. Len(unsent[c])
      OBVIOUS
    <3> QED BY <3>1, RestIsSeq
  <2>3. toClient[c] \o SubSeq(unsent[c], 1, k) \in Seq(Piece)
    BY <2>2
  <2>4. UNCHANGED <<serverVars, conn, toServer, handler, request, statVars,
                    clientVars>>
    BY <1>7 DEF SendPart
  <2> QED BY <2>1, <2>2, <2>3, <2>4
<1>9. CASE Send(c)
  <2>1. toClient[c] \o unsent[c] \in Seq(Piece)
    OBVIOUS
  <2>2. <<>> \in Seq(Piece)
    OBVIOUS
  <2> QED BY <1>9, <2>1, <2>2 DEF Send, SendReturns
<1>10. CASE SendToNobody(c)
  <2>1. <<>> \in Seq(Piece)
    OBVIOUS
  <2> QED BY <1>10, <2>1 DEF SendToNobody, SendReturns
<1>11. CASE SendFails(c)
  <2>1. <<>> \in Seq(Piece)
    OBVIOUS
  <2>2. CASE Die
    BY <2>2, TypeDie
  <2>3. CASE SendReturns(c, "none") /\ conn' = [conn EXCEPT ![c] = "gone"]
             /\ UNCHANGED toClient
    BY <2>1, <2>3 DEF SendReturns
  <2> QED BY <1>11, <2>2, <2>3 DEF SendFails
<1>8. CASE Count(c)
  <2>1. NoCommand \in Command
    BY DEF NoCommand, Command, Kinds
  <2> QED BY <1>8, <2>1 DEF Count
<1> QED BY <1>1, <1>2, <1>3, <1>4, <1>5, <1>6, <1>7, <1>8, <1>9, <1>10, <1>11
  DEF Handle

\* A line is one text, or two.
LEMMA TextsAreSeq ==
  ASSUME NEW n \in Nat, NEW k \in Kinds \cup {"wide"}
  PROVE  TextsOf(n, k) \in Seq(Text)
<1>1. \A i \in Kinds \cup {"head", "tail"} : [n |-> n, kind |-> i] \in Text
  BY DEF Text
<1>2. CASE k = "wide"
  <2>1. /\ [n |-> n, kind |-> "head"] \in Text
        /\ [n |-> n, kind |-> "tail"] \in Text
    BY <1>1
  <2>2. <<[n |-> n, kind |-> "head"], [n |-> n, kind |-> "tail"]>> \in Seq(Text)
    BY <2>1
  <2> QED BY <1>2, <2>2 DEF TextsOf
<1>3. CASE k # "wide"
  <2>1. [n |-> n, kind |-> k] \in Text
    BY <1>1, <1>3
  <2>2. <<[n |-> n, kind |-> k]>> \in Seq(Text)
    BY <2>1
  <2> QED BY <1>3, <2>2 DEF TextsOf
<1> QED BY <1>2, <1>3

\* What a client reads are numbers of commands.
LEMMA NumbersRead ==
  ASSUME NEW s \in Seq(Piece), NEW k \in 1 .. Len(s)
  PROVE  {s[i].n : i \in 1 .. k} \in SUBSET Nat
<1>1. ASSUME NEW i \in 1 .. k PROVE s[i].n \in Nat
  <2>1. s[i] \in Piece
    OBVIOUS
  <2> QED BY <2>1 DEF Piece
<1> QED BY <1>1

\* The kinds that a client's next line may have.
LEMMA NextKinds ==
  ASSUME TypeOK, NEW c \in Clients, sent[c] < Len(Requests[c])
  PROVE  Requests[c][sent[c] + 1] \subseteq Kinds \cup {"wide"}
<1>1. Requests[c] \in Seq(SUBSET (Kinds \cup {"wide"})) /\ sent[c] \in Nat
  BY ServerAssumption DEF TypeOK
<1>2. sent[c] + 1 \in 1 .. Len(Requests[c])
  BY <1>1
<1>3. Requests[c][sent[c] + 1] \in SUBSET (Kinds \cup {"wide"})
  BY <1>1, <1>2
<1> QED BY <1>3

LEMMA TypeUse ==
  ASSUME TypeOK, NEW c \in Clients, Use(c) PROVE TypeOK'
<1> USE ServerAssumption
    DEF TypeOK, ClientGoto, serverVars, statVars, clientVars
<1>1. CASE Connect(c)
  BY <1>1 DEF Connect
<1>2. CASE ClientSend(c)
  <2>1. PICK k \in Requests[c][sent[c] + 1] :
          /\ toServer' = [toServer EXCEPT ![c] =
                            IF conn[c] = "gone" THEN @
                            ELSE @ \o TextsOf(sent[c] + 1, k)]
          /\ asked' = [asked EXCEPT ![c] = @ \cup {k}]
    BY <1>2 DEF ClientSend
  <2>2. sent[c] + 1 \in Nat /\ k \in Kinds \cup {"wide"}
    BY <1>2, NextKinds DEF ClientSend
  <2>3. toServer[c] \o TextsOf(sent[c] + 1, k) \in Seq(Text)
    BY <2>2, TextsAreSeq
  <2>4. toServer' \in [Clients -> Seq(Text)]
    BY <2>1, <2>3
  <2>5. asked' \in [Clients -> SUBSET (Kinds \cup {"wide"})]
    <3>1. asked[c] \cup {k} \in SUBSET (Kinds \cup {"wide"})
      BY <2>2
    <3> QED BY <3>1, <2>1
  <2>6. /\ ClientGoto(c, "prompt", "wait")
        /\ sent' = [sent EXCEPT ![c] = @ + 1]
        /\ shown' = [shown EXCEPT ![c] = {}]
        /\ UNCHANGED <<serverVars, conn, toClient, handler, request, unsent,
                       statVars>>
    BY <1>2 DEF ClientSend
  <2>7. /\ sent' \in [Clients -> Nat] /\ shown' \in [Clients -> SUBSET Nat]
        /\ client' \in [Clients -> {"start", "prompt", "wait", "done"}]
    BY <2>2, <2>6
  <2> QED BY <2>4, <2>5, <2>6, <2>7
<1>3. CASE ClientReceive(c)
  <2>1. PICK k \in 1 .. Len(toClient[c]) :
          /\ shown' = [shown EXCEPT ![c] = {toClient[c][i].n : i \in 1 .. k}]
          /\ toClient' = [toClient EXCEPT ![c] = SubSeq(@, k + 1, Len(@))]
    BY <1>3 DEF ClientReceive
  <2>2. SubSeq(toClient[c], k + 1, Len(toClient[c])) \in Seq(Piece)
    BY RestIsSeq
  <2>3. {toClient[c][i].n : i \in 1 .. k} \in SUBSET Nat
    <3>1. toClient[c] \in Seq(Piece)
      OBVIOUS
    <3> QED BY <3>1, NumbersRead
  <2>4. /\ ClientGoto(c, "wait", "prompt")
        /\ UNCHANGED <<serverVars, conn, toServer, handler, request, unsent,
                       statVars, sent, asked>>
    BY <1>3 DEF ClientReceive
  <2> QED BY <2>1, <2>2, <2>3, <2>4
<1>4. CASE ClientEof(c)
  BY <1>4 DEF ClientEof
<1>5. CASE ClientEnd(c)
  <2>1. <<>> \in Seq(Piece) /\ {} \in SUBSET Nat
    OBVIOUS
  <2> QED BY <1>5, <2>1 DEF ClientEnd
<1> QED BY <1>1, <1>2, <1>3, <1>4, <1>5 DEF Use

LEMMA TypeStep == TypeOK /\ [Next]_vars => TypeOK'
<1> SUFFICES ASSUME TypeOK, [Next]_vars PROVE TypeOK'
  OBVIOUS
<1> USE DEF TypeOK, StatsGoto, serverVars, statVars, clientVars
<1>1. CASE MainTest
  BY <1>1, TypeDie DEF MainTest
<1>2. CASE AcceptFails
  BY <1>2 DEF AcceptFails
<1>3. CASE StatsTest
  BY <1>3 DEF StatsTest
<1>4. CASE StatsReport
  BY <1>4 DEF StatsReport
<1>5. CASE StatsSpurious
  BY <1>5, ServerAssumption DEF StatsSpurious
<1>6. ASSUME NEW c \in Clients, Accept(c) PROVE TypeOK'
  BY <1>6 DEF Accept
<1>7. ASSUME NEW c \in Clients, Handle(c) PROVE TypeOK'
  BY <1>7, TypeHandle
<1>8. ASSUME NEW c \in Clients, Use(c) PROVE TypeOK'
  BY <1>8, TypeUse
<1>9. CASE UNCHANGED vars
  BY <1>9 DEF vars
<1> QED BY <1>1, <1>2, <1>3, <1>4, <1>5, <1>6, <1>7, <1>8, <1>9 DEF Next

\* Every variable keeps its type: no answer of another shape is read, no
\* thread leaves the code it runs, a report never shows more than the total.
THEOREM TypeCorrect == Spec => []TypeOK
<1>1. Init => TypeOK
  BY TypeInit
<1>2. TypeOK /\ [Next]_vars => TypeOK'
  BY TypeStep
<1> QED BY <1>1, <1>2, PTL DEF Spec

-----------------------------------------------------------------------------
(* The mutex of the bank.                                                  *)

\* A connection that is not accepted has no handler.
Unaccepted ==
  \A c \in Clients :
    /\ client[c] = "start" => conn[c] = "none"
    /\ conn[c] \in {"none", "queued", "queuedClosed"} => handler[c] = "none"

LockInv == Unaccepted /\ BankLockKept

LEMMA LockInit == Init => LockInv
  BY ServerAssumption DEF Init, LockInv, Unaccepted, BankLockKept

LEMMA LockDie == ASSUME TypeOK, LockInv, Die PROVE LockInv'
  BY ServerAssumption
  DEF TypeOK, LockInv, Unaccepted, BankLockKept, Die, clientVars

LEMMA LockHandle ==
  ASSUME TypeOK, LockInv, NEW c \in Clients, Handle(c) PROVE LockInv'
<1> USE ServerAssumption
    DEF TypeOK, LockInv, Unaccepted, BankLockKept, Goto, serverVars, statVars,
        clientVars
<1>1. CASE Receive(c)
  <2>1. PICK step : step \in {"exit", "command", "send"} /\ Goto(c, "recv", step)
    BY <1>1 DEF Receive, Steps
  <2>2. conn' = conn \/ conn' = [conn EXCEPT ![c] = "gone"]
    <3>1. PICK r : conn' = [conn EXCEPT ![c] =
                              IF r.kind = "shutdown" THEN "gone" ELSE @]
      BY <1>1 DEF Receive
    <3> QED BY <3>1
  <2>3. UNCHANGED <<alive, bankLock, client>>
    BY <1>1 DEF Receive
  <2> QED BY <2>1, <2>2, <2>3
<1>2. CASE ReceiveNothing(c)
  BY <1>2 DEF ReceiveNothing
<1>3. CASE Exit(c)
  BY <1>3, LockDie DEF Exit
<1>4. CASE EnterBank(c)
  BY <1>4 DEF EnterBank
<1>5. CASE LeaveBank(c)
  BY <1>5 DEF LeaveBank
<1>6. CASE LockSend(c)
  BY <1>6 DEF LockSend
<1>7. CASE SendPart(c)
  BY <1>7 DEF SendPart
<1>8. CASE Send(c)
  BY <1>8 DEF Send, SendReturns
<1>9. CASE SendToNobody(c)
  <2>1. conn' = conn \/ conn' = [conn EXCEPT ![c] = "reset"]
    BY <1>9 DEF SendToNobody
  <2>2. Goto(c, "sending", "count") /\ UNCHANGED <<alive, bankLock, client>>
    BY <1>9 DEF SendToNobody, SendReturns
  <2> QED BY <2>1, <2>2
<1>10. CASE SendFails(c)
  <2>1. CASE Die
    BY <2>1, LockDie
  <2>2. CASE SendReturns(c, "none") /\ conn' = [conn EXCEPT ![c] = "gone"]
             /\ UNCHANGED toClient
    BY <2>2 DEF SendReturns
  <2> QED BY <1>10, <2>1, <2>2 DEF SendFails
<1>11. CASE Count(c)
  BY <1>11 DEF Count
<1> QED BY <1>1, <1>2, <1>3, <1>4, <1>5, <1>6, <1>7, <1>8, <1>9, <1>10, <1>11
  DEF Handle

LEMMA LockUse ==
  ASSUME TypeOK, LockInv, NEW c \in Clients, Use(c) PROVE LockInv'
<1> USE DEF TypeOK, LockInv, Unaccepted, BankLockKept, ClientGoto, serverVars
<1>1. CASE Connect(c)
  BY <1>1 DEF Connect
<1>2. CASE ClientSend(c)
  BY <1>2 DEF ClientSend
<1>3. CASE ClientReceive(c)
  BY <1>3 DEF ClientReceive
<1>4. CASE ClientEof(c)
  BY <1>4 DEF ClientEof
<1>5. CASE ClientEnd(c)
  BY <1>5 DEF ClientEnd
<1> QED BY <1>1, <1>2, <1>3, <1>4, <1>5 DEF Use

LEMMA LockStep == TypeOK /\ LockInv /\ [Next]_vars => LockInv'
<1> SUFFICES ASSUME TypeOK, LockInv, [Next]_vars PROVE LockInv'
  OBVIOUS
<1> USE DEF LockInv, Unaccepted, BankLockKept, StatsGoto, serverVars, statVars,
            clientVars
<1>1. CASE MainTest
  BY <1>1, LockDie DEF MainTest
<1>2. CASE AcceptFails
  BY <1>2 DEF AcceptFails
<1>3. CASE StatsTest
  BY <1>3 DEF StatsTest
<1>4. CASE StatsReport
  BY <1>4 DEF StatsReport
<1>5. CASE StatsSpurious
  BY <1>5 DEF StatsSpurious
<1>6. ASSUME NEW c \in Clients, Accept(c) PROVE LockInv'
  BY <1>6 DEF Accept, TypeOK
<1>7. ASSUME NEW c \in Clients, Handle(c) PROVE LockInv'
  BY <1>7, LockHandle
<1>8. ASSUME NEW c \in Clients, Use(c) PROVE LockInv'
  BY <1>8, LockUse
<1>9. CASE UNCHANGED vars
  BY <1>9 DEF vars
<1> QED BY <1>1, <1>2, <1>3, <1>4, <1>5, <1>6, <1>7, <1>8, <1>9 DEF Next

\* Whatever breaks a connection, a handler that has the mutex of the bank gives
\* it back before it ends; only the end of the process loses it.
THEOREM LockIsKept == Spec => []BankLockKept
<1>1. Init => TypeOK /\ LockInv
  BY TypeInit, LockInit
<1>2. TypeOK /\ LockInv /\ [Next]_vars => (TypeOK /\ LockInv)'
  BY TypeStep, LockStep
<1>3. LockInv => BankLockKept
  BY DEF LockInv
<1> QED BY <1>1, <1>2, <1>3, PTL DEF Spec
-----------------------------------------------------------------------------
(* One command at a time: whose lines and answers all fit one recv.        *)

\* Every line and every answer of the client fits one recv.
Careful(c) == asked[c] \cap {"long", "wide"} = {}

\* The handler has a command of the client that it has not finished.
Working(c) == handler[c] \in {"command", "bank", "send", "sending", "exit"}

\* A careful client has one command on its way, in the hands of its handler,
\* or answered and not yet read; none of them is its own at a prompt, and none
\* is left after a send that found it gone.  No part of an answer is ever in
\* the buffers without the rest.
OneAtATime(c) ==
  /\ toServer[c] = <<>>
     \/ \E k \in asked[c] : toServer[c] = <<[n |-> sent[c], kind |-> k]>>
  /\ toClient[c] = <<>> \/ toClient[c] = <<[n |-> sent[c], full |-> FALSE]>>
  /\ Working(c) => request[c].n = sent[c] /\ request[c].kind # "long"
  /\ Working(c) => toServer[c] = <<>> /\ toClient[c] = <<>>
  /\ handler[c] = "sending" => unsent[c] = Pieces(request[c])
  /\ toServer[c] # <<>> => toClient[c] = <<>>
  /\ client[c] \in {"start", "prompt"} =>
       toServer[c] = <<>> /\ toClient[c] = <<>> /\ ~Working(c)
  /\ conn[c] = "reset" => toServer[c] = <<>> /\ ~Working(c)
  /\ client[c] = "prompt" /\ sent[c] > 0 => shown[c] = {sent[c]}
  /\ client[c] = "start" => sent[c] = 0

\* Only a client that has ended closes a connection.
ClosedByClient ==
  \A c \in Clients :
    conn[c] \in {"closed", "reset", "queuedClosed"} => client[c] = "done"

\* A shutdown in progress was asked for.
ShutdownAsked ==
  /\ \A c \in Clients : handler[c] = "exit" => "shutdown" \in asked[c]
  /\ ~running => \E c \in Clients : "shutdown" \in asked[c]

StreamInv ==
  /\ ClosedByClient /\ ShutdownAsked /\ ServerSurvives
  /\ \A c \in Clients : Careful(c) => OneAtATime(c)

SInv == TypeOK /\ StreamInv

LEMMA StreamInit == Init => StreamInv
  BY DEF Init, StreamInv, ClosedByClient, ShutdownAsked, ServerSurvives,
         OneAtATime, Working

\* What a step does not touch stays in order.
LEMMA Untouched ==
  ASSUME NEW c \in Clients, OneAtATime(c),
         toServer'[c] = toServer[c], toClient'[c] = toClient[c],
         handler'[c] = handler[c], request'[c] = request[c],
         unsent'[c] = unsent[c], client'[c] = client[c], sent'[c] = sent[c],
         shown'[c] = shown[c], asked'[c] = asked[c], conn'[c] = conn[c]
  PROVE  OneAtATime(c)'
  BY DEF OneAtATime, Working

\* The answer to a careful client is one piece that does not fill a recv, or
\* nothing.
LEMMA ShortAnswer ==
  ASSUME NEW r, r.kind # "long"
  PROVE  Pieces(r) \in {<<>>, <<[n |-> r.n, full |-> FALSE]>>}
  BY DEF Pieces

\* The end of the process leaves what its clients have not read.
LEMMA StreamDie ==
  ASSUME SInv, Die,
         \E c \in Clients : asked[c] \cap {"shutdown", "long", "wide"} # {}
  PROVE  StreamInv'
<1>1. ClosedByClient' /\ ServerSurvives'
  BY DEF SInv, StreamInv, ClosedByClient, ServerSurvives, Die, clientVars
<1>2. ShutdownAsked'
  BY DEF SInv, StreamInv, TypeOK, ShutdownAsked, Die, clientVars
<1>3. ASSUME NEW c \in Clients, Careful(c)' PROVE OneAtATime(c)'
  <2>1. OneAtATime(c)
    BY <1>3 DEF SInv, StreamInv, Die, clientVars, Careful
  <2>2. /\ handler'[c] = "none" /\ conn'[c] \in {"none", "gone"}
        /\ toServer'[c] = <<>>
    BY DEF Die
  <2> QED BY <2>1, <2>2 DEF OneAtATime, Working, Die, clientVars
<1> QED BY <1>1, <1>2, <1>3 DEF StreamInv

\* A recv of a handler: the one command on its way is now in its hands.
LEMMA StreamReceive ==
  ASSUME SInv, NEW c \in Clients, Receive(c) PROVE StreamInv'
<1>1. PICK k \in 1 .. Len(toServer[c]) :
        /\ \E r \in Read(SubSeq(toServer[c], 1, k)) :
             /\ request' = [request EXCEPT ![c] = r]
             /\ asked' = [asked EXCEPT ![c] = @ \cup {r.kind}]
             /\ \E step \in Steps(r) : Goto(c, "recv", step)
             /\ running' = (running /\ r.kind # "shutdown")
             /\ conn' = [conn EXCEPT ![c] =
                           IF r.kind = "shutdown" THEN "gone" ELSE @]
        /\ toServer' = [toServer EXCEPT ![c] = SubSeq(@, k + 1, Len(@))]
  BY DEF Receive
<1>2. PICK r \in Read(SubSeq(toServer[c], 1, k)) :
        /\ request' = [request EXCEPT ![c] = r]
        /\ asked' = [asked EXCEPT ![c] = @ \cup {r.kind}]
        /\ \E step \in Steps(r) : Goto(c, "recv", step)
        /\ running' = (running /\ r.kind # "shutdown")
        /\ conn' = [conn EXCEPT ![c] =
                      IF r.kind = "shutdown" THEN "gone" ELSE @]
  BY <1>1
<1>3. PICK step \in Steps(r) : Goto(c, "recv", step)
  BY <1>2
<1>4. UNCHANGED <<alive, toClient, unsent, client, sent, shown>>
  BY DEF Receive
<1>5. /\ toServer \in [Clients -> Seq(Text)]
      /\ handler \in [Clients -> {"none", "recv", "exit", "command", "bank",
                                  "send", "sending", "count"}]
      /\ request \in [Clients -> Command]
      /\ conn \in [Clients -> {"none", "queued", "queuedClosed", "open",
                               "closed", "reset", "gone"}]
      /\ asked \in [Clients -> SUBSET (Kinds \cup {"wide"})]
      /\ running \in BOOLEAN
  BY DEF SInv, TypeOK
<1>6. \A d \in Clients : asked[d] \subseteq asked'[d] /\ r.kind \in asked'[c]
  BY <1>2, <1>5
<1>7. handler'[c] = "exit" => r.kind = "shutdown"
  BY <1>3, <1>5 DEF Goto, Steps
<1>8. ClosedByClient' /\ ServerSurvives'
  BY <1>2, <1>4, <1>5, <1>6
  DEF SInv, StreamInv, ClosedByClient, ServerSurvives
<1>9. ShutdownAsked'
  <2>1. ASSUME NEW d \in Clients, handler'[d] = "exit"
        PROVE  "shutdown" \in asked'[d]
    <3>1. CASE d = c
      BY <3>1, <2>1, <1>6, <1>7
    <3>2. CASE d # c
      BY <3>2, <2>1, <1>3, <1>5, <1>6
      DEF Goto, SInv, StreamInv, ShutdownAsked
    <3> QED BY <3>1, <3>2
  <2>2. ~running' => \E d \in Clients : "shutdown" \in asked'[d]
    BY <1>2, <1>5, <1>6 DEF SInv, StreamInv, ShutdownAsked
  <2> QED BY <2>1, <2>2 DEF ShutdownAsked
<1>10. ASSUME NEW d \in Clients, Careful(d)' PROVE OneAtATime(d)'
  <2>1. Careful(d) /\ OneAtATime(d)
    BY <1>10, <1>6 DEF SInv, StreamInv, Careful
  <2>2. CASE d # c
    <3>1. /\ toServer'[d] = toServer[d] /\ handler'[d] = handler[d]
          /\ request'[d] = request[d] /\ asked'[d] = asked[d]
          /\ conn'[d] = conn[d]
      BY <2>2, <1>1, <1>2, <1>3, <1>5 DEF Goto
    <3> QED BY <3>1, <2>1, <1>4, Untouched
  <2>3. CASE d = c
    <3>1. PICK kind \in asked[c] : toServer[c] = <<[n |-> sent[c], kind |-> kind]>>
      <4>1. toServer[c] # <<>>
        BY <1>5
      <4> QED BY <4>1, <2>1, <2>3 DEF OneAtATime
    <3>2. /\ SubSeq(toServer[c], 1, k) = toServer[c]
          /\ SubSeq(toServer[c], k + 1, Len(toServer[c])) = <<>>
      <4> DEFINE stream == toServer[c]
                 last == [n |-> sent[c], kind |-> kind]
      <4>1. stream = <<last>> /\ k \in 1 .. Len(stream)
        BY <3>1
      <4> HIDE DEF stream, last
      <4>2. SubSeq(stream, 1, k) = stream /\ SubSeq(stream, k + 1, Len(stream)) = <<>>
        BY <4>1, RestOfOne
      <4> QED BY <4>2 DEF stream
    <3>3. r.n = sent[c] /\ r.kind # "long"
      <4>1. r \in Read(<<[n |-> sent[c], kind |-> kind]>>)
        BY <3>1, <3>2
      <4>2. r.n = sent[c]
        BY <4>1 DEF Read
      <4>3. r.kind # "long"
        BY <1>6, <1>10, <2>3 DEF Careful
      <4> QED BY <4>2, <4>3
    <3>4. /\ toServer'[c] = <<>> /\ request'[c] = r
          /\ conn'[c] \in {conn[c], "gone"} /\ conn[c] # "reset"
          /\ client[c] \notin {"start", "prompt"}
          /\ toClient[c] = <<>>
      <4>1. toServer'[c] = <<>>
        BY <1>1, <1>5, <3>2
      <4>2. request'[c] = r /\ conn'[c] \in {conn[c], "gone"}
        BY <1>2, <1>5
      <4>3. toServer[c] # <<>>
        BY <3>1
      <4> QED BY <4>1, <4>2, <4>3, <2>1, <2>3 DEF OneAtATime
    <3>5. handler'[c] # "sending"
      BY <1>3, <1>5 DEF Goto, Steps
    <3> QED BY <3>3, <3>4, <3>5, <2>3, <1>4 DEF OneAtATime
  <2> QED BY <2>2, <2>3
<1> QED BY <1>8, <1>9, <1>10 DEF StreamInv

\* Only the handler of c, its connection, its buffers and its answer change.
AnswerStep(c) ==
  /\ UNCHANGED <<alive, running, toServer, request, client, sent, shown, asked>>
  /\ \A d \in Clients \ {c} :
       /\ handler'[d] = handler[d] /\ conn'[d] = conn[d]
       /\ unsent'[d] = unsent[d] /\ toClient'[d] = toClient[d]

\* What a step of a handler has to show when its client is careful.
LEMMA StreamAnswer ==
  ASSUME SInv, NEW c \in Clients, AnswerStep(c),
         handler'[c] = "exit" => handler[c] = "exit",
         conn'[c] \in {"closed", "reset", "queuedClosed"} => client[c] = "done",
         Careful(c) => OneAtATime(c)'
  PROVE  StreamInv'
<1>1. ClosedByClient' /\ ServerSurvives'
  BY DEF SInv, StreamInv, ClosedByClient, ServerSurvives, AnswerStep
<1>2. ShutdownAsked'
  BY DEF SInv, StreamInv, ShutdownAsked, AnswerStep
<1>3. ASSUME NEW d \in Clients, Careful(d)' PROVE OneAtATime(d)'
  <2>1. Careful(d) /\ OneAtATime(d)
    BY <1>3 DEF SInv, StreamInv, Careful, AnswerStep
  <2>2. CASE d # c
    BY <2>1, <2>2, Untouched DEF AnswerStep
  <2>3. CASE d = c
    BY <2>1, <2>3
  <2> QED BY <2>2, <2>3
<1> QED BY <1>1, <1>2, <1>3 DEF StreamInv

\* The types that the steps of a handler rest on.
LEMMA HandlerTypes ==
  ASSUME SInv
  PROVE  /\ handler \in [Clients -> {"none", "recv", "exit", "command", "bank",
                                     "send", "sending", "count"}]
         /\ conn \in [Clients -> {"none", "queued", "queuedClosed", "open",
                                  "closed", "reset", "gone"}]
         /\ toClient \in [Clients -> Seq(Piece)]
         /\ unsent \in [Clients -> Seq(Piece)]
         /\ request \in [Clients -> Command]
         /\ sent \in [Clients -> Nat]
  BY DEF SInv, TypeOK

\* A handler takes the lock and has its whole answer to send.
LEMMA StreamLockSend ==
  ASSUME SInv, NEW c \in Clients, LockSend(c) PROVE StreamInv'
<1>1. /\ handler[c] = "send" /\ handler' = [handler EXCEPT ![c] = "sending"]
      /\ unsent' = [unsent EXCEPT ![c] = Pieces(request[c])]
      /\ UNCHANGED <<conn, toClient, toServer, request, alive, running, client,
                     sent, shown, asked>>
  BY DEF LockSend, Goto, clientVars
<1>2. AnswerStep(c)
  BY <1>1, HandlerTypes DEF AnswerStep
<1>3. handler'[c] = "sending" /\ unsent'[c] = Pieces(request'[c])
  BY <1>1, HandlerTypes
<1>4. conn'[c] \in {"closed", "reset", "queuedClosed"} => client[c] = "done"
  BY <1>1 DEF SInv, StreamInv, ClosedByClient
<1>5. ASSUME Careful(c) PROVE OneAtATime(c)'
  <2>1. OneAtATime(c) /\ Working(c)
    BY <1>1, <1>5 DEF SInv, StreamInv, Working
  <2> QED BY <2>1, <1>1, <1>3 DEF OneAtATime
<1> QED BY <1>2, <1>3, <1>4, <1>5, StreamAnswer

\* The buffers never take a part of an answer to a careful client.
LEMMA StreamSendPart ==
  ASSUME SInv, NEW c \in Clients, SendPart(c) PROVE StreamInv'
<1>1. PICK k \in 1 .. Len(unsent[c]) - 1 :
        /\ toClient' = [toClient EXCEPT ![c] = @ \o SubSeq(unsent[c], 1, k)]
        /\ unsent' = [unsent EXCEPT ![c] = SubSeq(@, k + 1, Len(@))]
  BY DEF SendPart
<1>2. /\ handler[c] = "sending"
      /\ UNCHANGED <<alive, running, conn, toServer, handler, request, client,
                     sent, shown, asked>>
  BY DEF SendPart, serverVars, clientVars
<1>3. AnswerStep(c)
  BY <1>1, <1>2, HandlerTypes DEF AnswerStep
<1>4. conn'[c] \in {"closed", "reset", "queuedClosed"} => client[c] = "done"
  BY <1>2 DEF SInv, StreamInv, ClosedByClient
<1>5. ASSUME Careful(c) PROVE FALSE
  <2>1. OneAtATime(c) /\ Working(c)
    BY <1>2, <1>5 DEF SInv, StreamInv, Working
  <2>2. unsent[c] \in {<<>>, <<[n |-> request[c].n, full |-> FALSE]>>}
    BY <2>1, <1>2, ShortAnswer DEF OneAtATime
  <2>3. Len(unsent[c]) \in {0, 1}
    BY <2>2
  <2>4. k \in 1 .. Len(unsent[c]) - 1
    BY <1>1
  <2>5. 1 .. 0 - 1 = {} /\ 1 .. 1 - 1 = {}
    OBVIOUS
  <2> QED BY <2>3, <2>4, <2>5
<1> QED BY <1>2, <1>3, <1>4, <1>5, StreamAnswer

\* A send of a handler: the command in its hands is answered.
LEMMA StreamSend ==
  ASSUME SInv, NEW c \in Clients, Send(c) PROVE StreamInv'
<1>1. /\ conn[c] = "open" /\ handler[c] = "sending"
      /\ handler' = [handler EXCEPT ![c] = "count"]
      /\ unsent' = [unsent EXCEPT ![c] = <<>>]
      /\ toClient' = [toClient EXCEPT ![c] = @ \o unsent[c]]
      /\ UNCHANGED <<alive, running, conn, toServer, request, client, sent,
                     shown, asked>>
  BY DEF Send, SendReturns, Goto, clientVars
<1>2. AnswerStep(c)
  BY <1>1, HandlerTypes DEF AnswerStep
<1>3. handler'[c] = "count" /\ conn'[c] = "open"
  BY <1>1, HandlerTypes
<1>4. ASSUME Careful(c) PROVE OneAtATime(c)'
  <2>1. OneAtATime(c) /\ Working(c)
    BY <1>1, <1>4 DEF SInv, StreamInv, Working
  <2>2. toClient[c] = <<>> /\ request[c].n = sent[c]
    BY <2>1 DEF OneAtATime
  <2>3. unsent[c] \in {<<>>, <<[n |-> sent[c], full |-> FALSE]>>}
    BY <2>1, <2>2, <1>1, ShortAnswer DEF OneAtATime
  <2>4. toClient'[c] \in {<<>>, <<[n |-> sent[c], full |-> FALSE]>>}
    <3>1. toClient'[c] = toClient[c] \o unsent[c]
      BY <1>1, HandlerTypes
    <3>2. unsent[c] \in Seq(Piece)
      BY HandlerTypes
    <3>3. <<>> \o unsent[c] = unsent[c]
      BY <3>2
    <3> QED BY <3>1, <3>3, <2>2, <2>3
  <2>5. client[c] \notin {"start", "prompt"} /\ toServer[c] = <<>>
    BY <2>1 DEF OneAtATime
  <2> QED BY <2>1, <2>4, <2>5, <1>1, <1>3 DEF OneAtATime, Working
<1> QED BY <1>2, <1>3, <1>4, StreamAnswer

\* A send to a client that has left.
LEMMA StreamSendToNobody ==
  ASSUME SInv, NEW c \in Clients, SendToNobody(c) PROVE StreamInv'
<1>1. /\ conn[c] \in {"closed", "reset"} /\ handler[c] = "sending"
      /\ handler' = [handler EXCEPT ![c] = "count"]
      /\ unsent' = [unsent EXCEPT ![c] = <<>>]
      /\ conn' = [conn EXCEPT ![c] = IF unsent[c] = <<>> THEN @ ELSE "reset"]
      /\ UNCHANGED <<alive, running, toClient, toServer, request, client, sent,
                     shown, asked>>
  BY DEF SendToNobody, SendReturns, Goto, clientVars
<1>2. AnswerStep(c)
  BY <1>1, HandlerTypes DEF AnswerStep
<1>3. handler'[c] = "count"
  BY <1>1, HandlerTypes
<1>4. client[c] = "done"
  BY <1>1 DEF SInv, StreamInv, ClosedByClient
<1>5. ASSUME Careful(c) PROVE OneAtATime(c)'
  <2>1. OneAtATime(c) /\ Working(c)
    BY <1>1, <1>5 DEF SInv, StreamInv, Working
  <2> QED BY <2>1, <1>1, <1>3, <1>4 DEF OneAtATime, Working
<1> QED BY <1>2, <1>3, <1>4, <1>5, StreamAnswer

\* A send fails only for a client with a line or an answer that did not fit.
LEMMA StreamSendFails ==
  ASSUME SInv, NEW c \in Clients, SendFails(c) PROVE StreamInv'
<1>1. conn[c] = "reset" /\ handler[c] = "sending"
  BY DEF SendFails, SendReturns, Goto
<1>2. ~Careful(c)
  BY <1>1 DEF SInv, StreamInv, OneAtATime, Working
<1>3. CASE Die
  BY <1>2, <1>3, StreamDie DEF Careful
<1>4. CASE ~Die
  <2>1. /\ handler' = [handler EXCEPT ![c] = "none"]
        /\ unsent' = [unsent EXCEPT ![c] = <<>>]
        /\ conn' = [conn EXCEPT ![c] = "gone"]
        /\ UNCHANGED <<alive, running, toClient, toServer, request, client,
                       sent, shown, asked>>
    BY <1>4 DEF SendFails, SendReturns, Goto, clientVars
  <2>2. AnswerStep(c)
    BY <2>1, HandlerTypes DEF AnswerStep
  <2>3. handler'[c] = "none" /\ conn'[c] = "gone"
    BY <2>1, HandlerTypes
  <2> QED BY <2>2, <2>3, <1>2, StreamAnswer
<1> QED BY <1>3, <1>4

\* The other steps of a handler move it on with the same command, or with none.
LEMMA StreamMoves ==
  ASSUME SInv, NEW c \in Clients, NEW from, NEW to, Goto(c, from, to),
         \/ <<from, to>> \in {<<"command", "bank">>, <<"bank", "send">>}
            /\ conn' = conn
         \/ from = "recv" /\ to = "none"
            /\ conn' = [conn EXCEPT ![c] = "gone"],
         UNCHANGED <<alive, running, toServer, toClient, request, unsent,
                     client, sent, shown, asked>>
  PROVE  StreamInv'
<1>1. AnswerStep(c)
  BY HandlerTypes DEF AnswerStep, Goto
<1>2. /\ handler[c] = from /\ handler'[c] = to
      /\ conn'[c] \in {conn[c], "gone"}
  BY HandlerTypes DEF Goto
<1>3. conn'[c] \in {"closed", "reset", "queuedClosed"} => client[c] = "done"
  BY <1>2 DEF SInv, StreamInv, ClosedByClient
<1>4. ASSUME Careful(c) PROVE OneAtATime(c)'
  <2>1. OneAtATime(c)
    BY <1>4 DEF SInv, StreamInv
  <2>2. /\ Working(c)' => Working(c)
        /\ conn'[c] = "reset" => conn[c] = "reset"
        /\ handler'[c] # "sending"
    BY <1>2 DEF Working
  <2> QED BY <2>1, <2>2 DEF OneAtATime
<1>5. handler'[c] = "exit" => handler[c] = "exit"
  BY <1>2
<1> QED BY <1>1, <1>3, <1>4, <1>5, StreamAnswer

\* The command that has been counted is done.
LEMMA StreamCount ==
  ASSUME SInv, NEW c \in Clients, Count(c) PROVE StreamInv'
<1>1. /\ handler' = [handler EXCEPT ![c] = "recv"]
      /\ request' = [request EXCEPT ![c] = NoCommand]
      /\ UNCHANGED <<alive, running, conn, toServer, toClient, unsent, client,
                     sent, shown, asked>>
  BY DEF Count, Goto, serverVars, clientVars
<1>2. ClosedByClient' /\ ServerSurvives'
  BY <1>1 DEF SInv, StreamInv, ClosedByClient, ServerSurvives
<1>3. ShutdownAsked'
  BY <1>1, HandlerTypes DEF SInv, StreamInv, ShutdownAsked
<1>4. ASSUME NEW d \in Clients, Careful(d)' PROVE OneAtATime(d)'
  <2>1. OneAtATime(d)
    BY <1>1, <1>4 DEF SInv, StreamInv, Careful
  <2>2. CASE d # c
    <3>1. handler'[d] = handler[d] /\ request'[d] = request[d]
      BY <2>2, <1>1, HandlerTypes
    <3> QED BY <3>1, <2>1, <1>1, Untouched
  <2>3. CASE d = c
    <3>1. handler'[c] = "recv"
      BY <1>1, HandlerTypes
    <3> QED BY <3>1, <2>1, <2>3, <1>1 DEF OneAtATime, Working
  <2> QED BY <2>2, <2>3
<1> QED BY <1>2, <1>3, <1>4 DEF StreamInv

LEMMA StreamHandle ==
  ASSUME SInv, NEW c \in Clients, Handle(c) PROVE StreamInv'
<1> USE DEF serverVars, clientVars
<1>1. CASE Receive(c)
  BY <1>1, StreamReceive
<1>2. CASE ReceiveNothing(c)
  <2>1. /\ Goto(c, "recv", "none") /\ conn' = [conn EXCEPT ![c] = "gone"]
        /\ UNCHANGED <<alive, running, toServer, toClient, request, unsent,
                       client, sent, shown, asked>>
    BY <1>2 DEF ReceiveNothing
  <2> QED BY <2>1, StreamMoves
<1>3. CASE Exit(c)
  BY <1>3, StreamDie DEF Exit, SInv, StreamInv, ShutdownAsked
<1>4. CASE EnterBank(c)
  <2>1. /\ Goto(c, "command", "bank") /\ conn' = conn
        /\ UNCHANGED <<alive, running, toServer, toClient, request, unsent,
                       client, sent, shown, asked>>
    BY <1>4 DEF EnterBank
  <2> QED BY <2>1, StreamMoves
<1>5. CASE LeaveBank(c)
  <2>1. /\ Goto(c, "bank", "send") /\ conn' = conn
        /\ UNCHANGED <<alive, running, toServer, toClient, request, unsent,
                       client, sent, shown, asked>>
    BY <1>5 DEF LeaveBank
  <2> QED BY <2>1, StreamMoves
<1>6. CASE LockSend(c) \/ SendPart(c) \/ Send(c) \/ SendToNobody(c)
  BY <1>6, StreamLockSend, StreamSendPart, StreamSend, StreamSendToNobody
<1>7. CASE SendFails(c)
  BY <1>7, StreamSendFails
<1>8. CASE Count(c)
  BY <1>8, StreamCount
<1> QED BY <1>1, <1>2, <1>3, <1>4, <1>5, <1>6, <1>7, <1>8 DEF Handle

-----------------------------------------------------------------------------
(* The client's side of the stream.                                        *)

\* A command is sent only when the one before it has been answered and read.
LEMMA StreamClientSend ==
  ASSUME SInv, NEW c \in Clients, ClientSend(c) PROVE StreamInv'
<1>1. PICK k \in Requests[c][sent[c] + 1] :
        /\ toServer' = [toServer EXCEPT ![c] =
                          IF conn[c] = "gone" THEN @
                          ELSE @ \o TextsOf(sent[c] + 1, k)]
        /\ asked' = [asked EXCEPT ![c] = @ \cup {k}]
  BY DEF ClientSend
<1>2. /\ client[c] = "prompt" /\ client' = [client EXCEPT ![c] = "wait"]
      /\ sent' = [sent EXCEPT ![c] = @ + 1]
      /\ shown' = [shown EXCEPT ![c] = {}]
      /\ UNCHANGED <<alive, running, conn, toClient, handler, request, unsent>>
  BY DEF ClientSend, ClientGoto, serverVars
<1>3. /\ toServer \in [Clients -> Seq(Text)]
      /\ client \in [Clients -> {"start", "prompt", "wait", "done"}]
      /\ sent \in [Clients -> Nat] /\ shown \in [Clients -> SUBSET Nat]
      /\ asked \in [Clients -> SUBSET (Kinds \cup {"wide"})]
  BY DEF SInv, TypeOK
<1>4. \A d \in Clients : asked[d] \subseteq asked'[d] /\ k \in asked'[c]
  BY <1>1, <1>3
<1>5. ClosedByClient' /\ ServerSurvives'
  BY <1>2, <1>3, <1>4 DEF SInv, StreamInv, ClosedByClient, ServerSurvives
<1>6. ShutdownAsked'
  BY <1>2, <1>4 DEF SInv, StreamInv, ShutdownAsked
<1>7. ASSUME NEW d \in Clients, Careful(d)' PROVE OneAtATime(d)'
  <2>1. OneAtATime(d)
    BY <1>4, <1>7 DEF SInv, StreamInv, Careful
  <2>2. CASE d # c
    <3>1. /\ toServer'[d] = toServer[d] /\ asked'[d] = asked[d]
          /\ client'[d] = client[d] /\ sent'[d] = sent[d]
          /\ shown'[d] = shown[d]
      BY <2>2, <1>1, <1>2, <1>3
    <3> QED BY <3>1, <2>1, <1>2, Untouched
  <2>3. CASE d = c
    <3>1. toServer[c] = <<>> /\ toClient[c] = <<>> /\ ~Working(c)
      BY <2>1, <2>3, <1>2 DEF OneAtATime
    <3>2. conn[c] # "reset"
      BY <1>2 DEF SInv, StreamInv, ClosedByClient
    <3>3. /\ sent'[c] = sent[c] + 1 /\ client'[c] = "wait" /\ k \in asked'[c]
          /\ toClient'[c] = <<>> /\ conn'[c] # "reset" /\ ~Working(c)'
      BY <1>2, <1>3, <1>4, <3>1, <3>2 DEF Working
    <3>4. \/ toServer'[c] = <<>>
          \/ toServer'[c] = <<[n |-> sent'[c], kind |-> k]>>
      <4>1. k # "wide"
        BY <1>4, <1>7, <2>3 DEF Careful
      <4>2. TextsOf(sent[c] + 1, k) = <<[n |-> sent[c] + 1, kind |-> k]>>
        BY <4>1 DEF TextsOf
      <4>3. toServer'[c] = toServer[c] \/
              toServer'[c] = toServer[c] \o TextsOf(sent[c] + 1, k)
        BY <1>1, <1>3
      <4>4. <<>> \o <<[n |-> sent[c] + 1, kind |-> k]>> =
              <<[n |-> sent[c] + 1, kind |-> k]>>
        OBVIOUS
      <4> QED BY <4>2, <4>3, <4>4, <3>1, <3>3
    <3>5. handler'[c] # "sending"
      BY <1>2, <3>1 DEF Working
    <3> QED BY <3>3, <3>4, <3>5, <2>3 DEF OneAtATime
  <2> QED BY <2>2, <2>3
<1> QED BY <1>5, <1>6, <1>7 DEF StreamInv

\* A client reads the answer to its last command and nothing else.
LEMMA StreamClientReceive ==
  ASSUME SInv, NEW c \in Clients, ClientReceive(c) PROVE StreamInv'
<1>1. PICK k \in 1 .. Len(toClient[c]) :
        /\ shown' = [shown EXCEPT ![c] = {toClient[c][i].n : i \in 1 .. k}]
        /\ toClient' = [toClient EXCEPT ![c] = SubSeq(@, k + 1, Len(@))]
  BY DEF ClientReceive
<1>2. /\ client[c] = "wait" /\ client' = [client EXCEPT ![c] = "prompt"]
      /\ UNCHANGED <<alive, running, conn, toServer, handler, request, unsent,
                     sent, asked>>
  BY DEF ClientReceive, ClientGoto, serverVars
<1>3. /\ toClient \in [Clients -> Seq(Piece)]
      /\ client \in [Clients -> {"start", "prompt", "wait", "done"}]
      /\ shown \in [Clients -> SUBSET Nat]
  BY DEF SInv, TypeOK
<1>4. ClosedByClient' /\ ServerSurvives' /\ ShutdownAsked'
  BY <1>2, <1>3
  DEF SInv, StreamInv, ClosedByClient, ServerSurvives, ShutdownAsked
<1>5. ASSUME NEW d \in Clients, Careful(d)' PROVE OneAtATime(d)'
  <2>1. OneAtATime(d)
    BY <1>2, <1>5 DEF SInv, StreamInv, Careful
  <2>2. CASE d # c
    <3>1. /\ toClient'[d] = toClient[d] /\ client'[d] = client[d]
          /\ shown'[d] = shown[d]
      BY <2>2, <1>1, <1>2, <1>3
    <3> QED BY <3>1, <2>1, <1>2, Untouched
  <2>3. CASE d = c
    <3> DEFINE last == [n |-> sent[c], full |-> FALSE]
    <3>1. toClient[c] # <<>>
      BY <1>3
    <3>2. toClient[c] = <<last>> /\ toServer[c] = <<>> /\ ~Working(c)
      BY <3>1, <2>1, <2>3 DEF OneAtATime
    <3>3. k = 1 /\ SubSeq(toClient[c], k + 1, Len(toClient[c])) = <<>>
      <4> DEFINE stream == toClient[c]
      <4>1. stream = <<last>> /\ k \in 1 .. Len(stream)
        BY <3>2
      <4> HIDE DEF stream, last
      <4>2. k = 1 /\ SubSeq(stream, k + 1, Len(stream)) = <<>>
        BY <4>1, RestOfOne
      <4> QED BY <4>2 DEF stream
    <3>4. {toClient[c][i].n : i \in 1 .. k} = {sent[c]}
      <4>1. toClient[c][1].n = sent[c]
        BY <3>2
      <4> QED BY <4>1, <3>3
    <3>5. toClient'[c] = <<>> /\ shown'[c] = {sent[c]}
      BY <1>1, <1>3, <3>3, <3>4
    <3>6. client'[c] = "prompt" /\ handler'[c] # "sending"
      BY <1>2, <1>3, <3>2 DEF Working
    <3> QED BY <3>2, <3>5, <3>6, <2>1, <2>3, <1>2 DEF OneAtATime, Working
  <2> QED BY <2>2, <2>3
<1> QED BY <1>4, <1>5 DEF StreamInv

\* A client that ends leaves at most one command behind.
LEMMA StreamClientEnd ==
  ASSUME SInv, NEW c \in Clients, ClientEnd(c) PROVE StreamInv'
<1>1. /\ client' = [client EXCEPT ![c] = "done"]
      /\ toClient' = [toClient EXCEPT ![c] = <<>>]
      /\ UNCHANGED <<alive, running, toServer, handler, request, unsent, sent,
                     asked>>
  BY DEF ClientEnd, serverVars
<1>2. conn' = [conn EXCEPT ![c] =
                CASE @ = "open"   -> IF toClient[c] = <<>> THEN "closed"
                                     ELSE "reset"
                  [] @ = "queued" -> "queuedClosed"
                  [] OTHER        -> @]
  BY DEF ClientEnd
<1>3. /\ client \in [Clients -> {"start", "prompt", "wait", "done"}]
      /\ toClient \in [Clients -> Seq(Piece)]
      /\ conn \in [Clients -> {"none", "queued", "queuedClosed", "open",
                               "closed", "reset", "gone"}]
  BY DEF SInv, TypeOK
<1>4. \A d \in Clients : d # c => conn'[d] = conn[d]
  BY <1>2, <1>3
<1>5. conn'[c] = "reset" => conn[c] = "reset" \/ toClient[c] # <<>>
  BY <1>2, <1>3
<1>6. ClosedByClient' /\ ServerSurvives' /\ ShutdownAsked'
  BY <1>1, <1>3, <1>4
  DEF SInv, StreamInv, ClosedByClient, ServerSurvives, ShutdownAsked
<1>8. \A d \in Clients : d # c => shown'[d] = shown[d]
  BY DEF ClientEnd, SInv, TypeOK
<1>7. ASSUME NEW d \in Clients, Careful(d)' PROVE OneAtATime(d)'
  <2>1. OneAtATime(d)
    BY <1>1, <1>7 DEF SInv, StreamInv, Careful
  <2>2. CASE d # c
    <3>1. toClient'[d] = toClient[d] /\ client'[d] = client[d]
      BY <2>2, <1>1, <1>3
    <3> QED BY <3>1, <2>1, <2>2, <1>1, <1>4, <1>8, Untouched
  <2>3. CASE d = c
    <3>1. toClient'[c] = <<>> /\ client'[c] = "done"
      BY <1>1, <1>3
    <3> QED BY <3>1, <2>1, <2>3, <1>1, <1>5 DEF OneAtATime, Working
  <2> QED BY <2>2, <2>3
<1> QED BY <1>6, <1>7 DEF StreamInv

LEMMA StreamUse ==
  ASSUME SInv, NEW c \in Clients, Use(c) PROVE StreamInv'
<1>1. CASE Connect(c)
  <2>1. /\ client[c] = "start" /\ client' = [client EXCEPT ![c] = "prompt"]
        /\ conn' = [conn EXCEPT ![c] = "queued"]
        /\ UNCHANGED <<alive, running, toServer, toClient, handler, request,
                       unsent, sent, shown, asked>>
    BY <1>1 DEF Connect, ClientGoto, serverVars
  <2>2. /\ client \in [Clients -> {"start", "prompt", "wait", "done"}]
        /\ conn \in [Clients -> {"none", "queued", "queuedClosed", "open",
                                 "closed", "reset", "gone"}]
        /\ sent \in [Clients -> Nat]
    BY DEF SInv, TypeOK
  <2>3. ClosedByClient' /\ ServerSurvives' /\ ShutdownAsked'
    BY <2>1, <2>2
    DEF SInv, StreamInv, ClosedByClient, ServerSurvives, ShutdownAsked
  <2>4. ASSUME NEW d \in Clients, Careful(d)' PROVE OneAtATime(d)'
    <3>1. OneAtATime(d)
      BY <2>1, <2>4 DEF SInv, StreamInv, Careful
    <3>2. CASE d # c
      <4>1. client'[d] = client[d] /\ conn'[d] = conn[d]
        BY <3>2, <2>1, <2>2
      <4> QED BY <4>1, <3>1, <2>1, Untouched
    <3>3. CASE d = c
      <4>1. sent[c] = 0 /\ sent'[c] = 0
        BY <3>1, <3>3, <2>1 DEF OneAtATime
      <4>2. /\ client'[c] = "prompt" /\ conn'[c] = "queued"
            /\ ~Working(c)
        BY <3>1, <3>3, <2>1, <2>2 DEF OneAtATime
      <4> QED BY <4>1, <4>2, <3>1, <3>3, <2>1 DEF OneAtATime, Working
    <3> QED BY <3>2, <3>3
  <2> QED BY <2>3, <2>4 DEF StreamInv
<1>2. CASE ClientSend(c)
  BY <1>2, StreamClientSend
<1>3. CASE ClientReceive(c)
  BY <1>3, StreamClientReceive
<1>4. CASE ClientEof(c)
  <2>1. /\ client[c] = "wait" /\ client' = [client EXCEPT ![c] = "done"]
        /\ UNCHANGED <<alive, running, conn, toServer, toClient, handler,
                       request, unsent, sent, shown, asked>>
    BY <1>4 DEF ClientEof, ClientGoto, serverVars
  <2>2. client \in [Clients -> {"start", "prompt", "wait", "done"}]
    BY DEF SInv, TypeOK
  <2>3. ClosedByClient' /\ ServerSurvives' /\ ShutdownAsked'
    BY <2>1, <2>2
    DEF SInv, StreamInv, ClosedByClient, ServerSurvives, ShutdownAsked
  <2>4. ASSUME NEW d \in Clients, Careful(d)' PROVE OneAtATime(d)'
    BY <2>1, <2>2, <2>4 DEF SInv, StreamInv, OneAtATime, Working, Careful
  <2> QED BY <2>3, <2>4 DEF StreamInv
<1>5. CASE ClientEnd(c)
  BY <1>5, StreamClientEnd
<1> QED BY <1>1, <1>2, <1>3, <1>4, <1>5 DEF Use

LEMMA StreamStep == SInv /\ LockInv /\ [Next]_vars => StreamInv'
<1> SUFFICES ASSUME SInv, LockInv, [Next]_vars PROVE StreamInv'
  OBVIOUS
<1>0. ASSUME UNCHANGED <<alive, running, conn, toServer, toClient, handler,
                         request, unsent, client, sent, shown, asked>>
      PROVE  StreamInv'
  BY <1>0 DEF SInv, StreamInv, ClosedByClient, ServerSurvives, ShutdownAsked,
              OneAtATime, Working, Careful
<1> USE DEF serverVars, statVars, clientVars
<1>1. CASE MainTest
  <2>1. CASE running
    BY <1>0, <1>1, <2>1 DEF MainTest
  <2>2. CASE ~running
    BY <1>1, <2>2, StreamDie DEF MainTest, SInv, StreamInv, ShutdownAsked
  <2> QED BY <2>1, <2>2
<1>2. CASE AcceptFails
  BY <1>0, <1>2 DEF AcceptFails
<1>3. CASE StatsTest
  BY <1>0, <1>3 DEF StatsTest
<1>4. CASE StatsReport
  BY <1>0, <1>4 DEF StatsReport
<1>5. CASE StatsSpurious
  BY <1>0, <1>5 DEF StatsSpurious
<1>6. ASSUME NEW c \in Clients, Accept(c) PROVE StreamInv'
  <2>1. /\ conn[c] \in {"queued", "queuedClosed"}
        /\ conn' = [conn EXCEPT ![c] = IF @ = "queued" THEN "open" ELSE "closed"]
        /\ handler' = [handler EXCEPT ![c] = "recv"]
        /\ UNCHANGED <<alive, running, toServer, toClient, request, unsent,
                       client, sent, shown, asked>>
    BY <1>6 DEF Accept
  <2>2. /\ handler \in [Clients -> {"none", "recv", "exit", "command", "bank",
                                    "send", "sending", "count"}]
        /\ conn \in [Clients -> {"none", "queued", "queuedClosed", "open",
                                 "closed", "reset", "gone"}]
    BY DEF SInv, TypeOK
  <2>3. ClosedByClient' /\ ServerSurvives' /\ ShutdownAsked'
    BY <2>1, <2>2
    DEF SInv, StreamInv, ClosedByClient, ServerSurvives, ShutdownAsked
  <2>4. ASSUME NEW d \in Clients, Careful(d)' PROVE OneAtATime(d)'
    <3>1. OneAtATime(d)
      BY <2>1, <2>4 DEF SInv, StreamInv, Careful
    <3>2. CASE d # c
      <4>1. handler'[d] = handler[d] /\ conn'[d] = conn[d]
        BY <3>2, <2>1, <2>2
      <4> QED BY <4>1, <3>1, <2>1, Untouched
    <3>3. CASE d = c
      <4>1. handler'[c] = "recv" /\ conn'[c] # "reset"
        BY <2>1, <2>2
      <4> QED BY <4>1, <3>1, <3>3, <2>1 DEF OneAtATime, Working
    <3> QED BY <3>2, <3>3
  <2> QED BY <2>3, <2>4 DEF StreamInv
<1>7. ASSUME NEW c \in Clients, Handle(c) PROVE StreamInv'
  BY <1>7, StreamHandle
<1>8. ASSUME NEW c \in Clients, Use(c) PROVE StreamInv'
  BY <1>8, StreamUse
<1>9. CASE UNCHANGED vars
  BY <1>0, <1>9 DEF vars
<1> QED BY <1>1, <1>2, <1>3, <1>4, <1>5, <1>6, <1>7, <1>8, <1>9 DEF Next

\* The whole of it is inductive.
LEMMA AllInit == Init => SInv /\ LockInv
  BY TypeInit, StreamInit, LockInit DEF SInv
LEMMA AllStep == SInv /\ LockInv /\ [Next]_vars => (SInv /\ LockInv)'
  BY TypeStep, StreamStep, LockStep DEF SInv

\* However clients leave or are killed, and however many there are, the server
\* ends only by a shutdown, or when some client has sent a line or been sent an
\* answer that does not fit one recv.
THEOREM Survival == Spec => []ServerSurvives
<1>1. SInv => ServerSurvives
  BY DEF SInv, StreamInv
<1> QED BY <1>1, AllInit, AllStep, PTL DEF Spec

\* On a stream without message boundaries the answer that a client reads is
\* the one to the command it has just sent, as long as its lines and answers
\* all fit one recv, however the other clients' do.
THEOREM AnswersInStep == Spec => []InStep
<1>1. SInv => InStep
  BY DEF SInv, StreamInv, InStep, OneAtATime, Careful
<1> QED BY <1>1, AllInit, AllStep, PTL DEF Spec

-----------------------------------------------------------------------------
(* The reports of the statistics thread.                                   *)

\* Until a wakeup is spurious, the thread that has been woken has something
\* new to report: a wakeup comes with the command that has just been counted,
\* and the one thread that reports does so before it waits again.
WokenForNews == spurious = 0 /\ stats = "woken" => reported < total

LEMMA NewsInit == Init => WokenForNews
  BY DEF Init, WokenForNews

LEMMA NewsStep == TypeOK /\ WokenForNews /\ [Next]_vars => WokenForNews'
<1> SUFFICES ASSUME TypeOK, WokenForNews, [Next]_vars PROVE WokenForNews'
  OBVIOUS
<1> USE DEF WokenForNews
<1>0. total \in Nat /\ reported \in Nat /\ reported <= total /\ spurious \in Nat
  BY ServerAssumption DEF TypeOK
<1>1. CASE UNCHANGED statVars
  BY <1>1 DEF statVars
<1>2. CASE Die
  BY <1>2 DEF Die
<1>3. CASE MainTest
  BY <1>1, <1>2, <1>3 DEF MainTest, statVars
<1>4. CASE AcceptFails
  BY <1>1, <1>4 DEF AcceptFails, statVars
<1>5. CASE StatsTest \/ StatsReport
  BY <1>5 DEF StatsTest, StatsReport, StatsGoto
<1>6. CASE StatsSpurious
  BY <1>0, <1>6 DEF StatsSpurious
<1>7. ASSUME NEW c \in Clients, Accept(c) \/ Use(c) PROVE WokenForNews'
  BY <1>1, <1>7 DEF Accept, Use, Connect, ClientSend, ClientReceive,
     ClientEof, ClientEnd, statVars
<1>8. ASSUME NEW c \in Clients, Handle(c) PROVE WokenForNews'
  <2>1. CASE Count(c)
    BY <1>0, <2>1 DEF Count
  <2>2. CASE Exit(c) \/ SendFails(c)
    BY <1>1, <1>2, <2>2 DEF Exit, SendFails, SendReturns, statVars
  <2>3. CASE Receive(c) \/ ReceiveNothing(c) \/ EnterBank(c) \/ LeaveBank(c)
             \/ LockSend(c) \/ SendPart(c) \/ Send(c) \/ SendToNobody(c)
    BY <1>1, <2>3 DEF Receive, ReceiveNothing, EnterBank, LeaveBank, LockSend,
       SendPart, Send, SendToNobody, SendReturns, statVars
  <2> QED BY <1>8, <2>1, <2>2, <2>3 DEF Handle
<1>9. CASE UNCHANGED vars
  BY <1>1, <1>9 DEF vars
<1> QED BY <1>3, <1>4, <1>5, <1>6, <1>7, <1>8, <1>9 DEF Next

\* However many commands are counted and whenever the thread is woken, no two
\* reports show the same total, as long as no wakeup is spurious: the wait
\* stands in no loop over a condition, and that is all it can go wrong by.
THEOREM ReportsAreNews == Spec => ReportsGrow
<1>1. TypeOK /\ WokenForNews =>
        (StatsReport /\ spurious = 0 => total > reported)
  BY DEF StatsReport, StatsGoto, TypeOK, WokenForNews
<1>2. TypeOK /\ WokenForNews /\ [Next]_vars => (TypeOK /\ WokenForNews)'
  BY TypeStep, NewsStep
<1>3. TypeOK /\ WokenForNews /\ [Next]_vars =>
        [StatsReport /\ spurious = 0 => total > reported]_vars
  BY <1>1
<1> QED BY <1>2, <1>3, TypeInit, NewsInit, PTL DEF Spec, ReportsGrow
=============================================================================

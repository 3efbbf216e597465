------------------------------ MODULE PollProofs ------------------------------
(***************************************************************************)
(* Proofs about PollServer, for any number of workers and of clients.      *)
(***************************************************************************)
EXTENDS PollServer, FiniteSetTheorems, SequenceTheorems, TLAPS

-----------------------------------------------------------------------------
(* Type correctness.                                                       *)

LEMMA TypeInit == Init => TypeOK
  BY PollAssumption DEF Init, TypeOK

LEMMA TypeMain == ASSUME TypeOK, Accept \/ Push PROVE TypeOK'
<1> USE PollAssumption DEF TypeOK, clientVars
<1>1. CASE Accept
  <2>1. Head(backlog) \in Clients /\ Tail(backlog) \in Seq(Clients)
    BY <1>1 DEF Accept
  <2> QED BY <1>1, <2>1 DEF Accept
<1>2. CASE Push
  <2>1. Append(queue, accepted) \in Seq(Clients)
    BY <1>2 DEF Push
  <2>2. worker' = worker \/ \E w \in Workers : worker[w] = "wait"
                              /\ worker' = [worker EXCEPT ![w] = "lock"]
    BY <1>2 DEF Push
  <2>3. /\ worker' \in [Workers -> {"lock", "wait", "recv", "send"}]
        /\ \A w \in Workers : worker'[w] \in {"recv", "send"}
                                <=> worker[w] \in {"recv", "send"}
    BY <2>2
  <2> QED BY <1>2, <2>1, <2>3 DEF Push
<1> QED BY <1>1, <1>2

LEMMA TypeWork ==
  ASSUME TypeOK, NEW w \in Workers, Work(w) \/ SpuriousWakeup(w)
  PROVE  TypeOK'
<1> USE PollAssumption DEF TypeOK, Serving, clientVars
<1>1. CASE WorkerWait(w)
  BY <1>1 DEF WorkerWait
<1>2. CASE WorkerTake(w)
  <2>1. Head(queue) \in Clients /\ Tail(queue) \in Seq(Clients)
    BY <1>2 DEF WorkerTake
  <2> QED BY <1>2, <2>1 DEF WorkerTake
<1>3. ASSUME NEW c \in Clients, WorkerReceive(w, c) PROVE TypeOK'
  <2>1. PICK k \in 1 .. Len(toServer[c]) :
          toServer' = [toServer EXCEPT ![c] = SubSeq(@, k + 1, Len(@))]
    BY <1>3 DEF WorkerReceive
  <2> DEFINE s == toServer[c]
  <2>s. s \in Seq(Nat)
    OBVIOUS
  <2>k. k \in Nat /\ Len(s) \in Nat /\ \A i \in k + 1 .. Len(s) : s[i] \in Nat
    BY <2>s
  <2>2. SubSeq(s, k + 1, Len(s)) \in Seq(Nat)
    <3> HIDE DEF s
    <3> QED BY <2>k, SubSeqProperties
  <2>3. toServer' \in [Clients -> Seq(Nat)]
    BY <2>1, <2>2
  <2>4. /\ Serving(w, "recv", "send", c)
        /\ UNCHANGED <<alive, backlog, accepted, queue, serving, conn, toClient,
                       clientVars, spurious>>
    BY <1>3 DEF WorkerReceive
  <2> QED BY <2>3, <2>4
<1>4. ASSUME NEW c \in Clients, WorkerHangUp(w, c) PROVE TypeOK'
  BY <1>4 DEF WorkerHangUp
<1>5. ASSUME NEW c \in Clients, WorkerSend(w, c) PROVE TypeOK'
  BY <1>5 DEF WorkerSend
<1>6. ASSUME NEW c \in Clients, WorkerSendFails(w, c) PROVE TypeOK'
  <2>1. Serving(w, "send", "recv", c)
        /\ UNCHANGED <<backlog, accepted, queue, serving, toServer, toClient,
                       clientVars, spurious>>
    BY <1>6 DEF WorkerSendFails
  <2>2. CASE UNCHANGED <<alive, conn>>
    BY <2>1, <2>2
  <2>3. CASE /\ alive' = FALSE
             /\ conn' = [d \in Clients |->
                           IF conn[d] = "none" THEN "none" ELSE "gone"]
    BY <2>1, <2>3
  <2> QED BY <1>6, <2>2, <2>3 DEF WorkerSendFails
<1>7. CASE SpuriousWakeup(w)
  BY <1>7 DEF SpuriousWakeup
<1> QED BY <1>1, <1>2, <1>3, <1>4, <1>5, <1>6, <1>7 DEF Work

LEMMA TypeUse ==
  ASSUME TypeOK, NEW c \in Clients, Use(c) PROVE TypeOK'
<1> USE PollAssumption DEF TypeOK, ClientGoto, poolVars
<1>1. CASE Connect(c)
  BY <1>1 DEF Connect
<1>2. CASE ClientSend(c)
  <2>1. PICK line \in Lines :
          /\ toServer' = [toServer EXCEPT ![c] = @ \o Pieces(sent[c] + 1, line)]
          /\ asked' = [asked EXCEPT ![c] = @ \cup {line}]
    BY <1>2 DEF ClientSend
  <2>2. line \in {"short", "long", "empty"} /\ sent[c] + 1 \in Nat
    OBVIOUS
  <2>3. Pieces(sent[c] + 1, line) \in Seq(Nat)
    BY <2>2 DEF Pieces
  <2>4. toServer[c] \o Pieces(sent[c] + 1, line) \in Seq(Nat)
    BY <2>3
  <2>5. /\ ClientGoto(c, "prompt", "wait")
        /\ sent' = [sent EXCEPT ![c] = @ + 1]
        /\ UNCHANGED <<alive, backlog, poolVars, conn, toClient, spurious>>
    BY <1>2 DEF ClientSend
  <2> QED BY <2>1, <2>4, <2>5
<1>3. CASE ClientReceive(c)
  BY <1>3 DEF ClientReceive
<1>4. CASE ClientLost(c)
  BY <1>4 DEF ClientLost
<1>5. CASE ClientKilled(c)
  BY <1>5 DEF ClientKilled
<1> QED BY <1>1, <1>2, <1>3, <1>4, <1>5 DEF Use

LEMMA TypeStep == TypeOK /\ [Next]_vars => TypeOK'
<1> SUFFICES ASSUME TypeOK, [Next]_vars PROVE TypeOK'
  OBVIOUS
<1>1. CASE UNCHANGED vars
  BY <1>1 DEF TypeOK, vars, poolVars, clientVars
<1> QED BY <1>1, TypeMain, TypeWork, TypeUse DEF Next

\* Every variable keeps its type, and a worker has a socket exactly while it
\* receives and sends.
THEOREM TypeCorrect == Spec => []TypeOK
  BY TypeInit, TypeStep, PTL DEF Spec

-----------------------------------------------------------------------------
(* Wakeups.                                                                *)

Awake == {w \in Workers : worker[w] = "lock"}

\* The workers on their way to the queue, when one joins or leaves them.
LEMMA OneMore ==
  ASSUME NEW S, IsFiniteSet(S), NEW x, x \notin S
  PROVE  Cardinality(S \cup {x}) = Cardinality(S) + 1 /\ Cardinality(S) \in Nat
  BY FS_AddElement, FS_CardinalityType

LEMMA AwakeFinite == IsFiniteSet(Awake) /\ Cardinality(Awake) \in Nat
<1>1. IsFiniteSet(Awake)
  BY PollAssumption, FS_Subset DEF Awake
<1> QED BY <1>1, FS_CardinalityType

LEMMA WakeupsMain ==
  ASSUME TypeOK, NoLostWakeup, Accept \/ Push PROVE NoLostWakeup'
<1>1. CASE Accept
  BY <1>1 DEF NoLostWakeup, Accept
<1>2. CASE Push
  <2>1. CASE \E w \in Workers : worker[w] = "wait"
    <3>1. PICK w \in Workers : /\ worker[w] = "wait"
                               /\ worker' = [worker EXCEPT ![w] = "lock"]
      BY <1>2, <2>1 DEF Push
    <3>2. Awake' = Awake \cup {w} /\ w \notin Awake
      BY <3>1 DEF Awake, TypeOK
    <3>3. Cardinality(Awake') = Cardinality(Awake) + 1
      BY <3>2, AwakeFinite, OneMore
    <3>4. Len(queue') = Len(queue) + 1
      BY <1>2 DEF Push, TypeOK
    <3>5. Len(queue) <= Cardinality(Awake)
      BY <2>1 DEF NoLostWakeup, Awake
    <3>6. Len(queue) \in Nat
      BY DEF TypeOK
    <3> QED BY <3>3, <3>4, <3>5, <3>6, AwakeFinite DEF NoLostWakeup, Awake
  <2>2. CASE ~\E w \in Workers : worker[w] = "wait"
    BY <1>2, <2>2 DEF Push, NoLostWakeup
  <2> QED BY <2>1, <2>2
<1> QED BY <1>1, <1>2

LEMMA WakeupsWork ==
  ASSUME TypeOK, NoLostWakeup, NEW w \in Workers, Work(w) \/ SpuriousWakeup(w)
  PROVE  NoLostWakeup'
<1> USE DEF TypeOK, Serving
<1>0. Len(queue) \in Nat
  OBVIOUS
<1>1. CASE WorkerWait(w)
  <2>1. queue' = <<>>
    BY <1>1 DEF WorkerWait
  <2>2. Len(queue') = 0 /\ IsFiniteSet(Awake')
    BY <2>1, PollAssumption, FS_Subset DEF Awake
  <2>3. Cardinality(Awake') \in Nat
    BY <2>2, FS_CardinalityType
  <2> QED BY <2>2, <2>3 DEF NoLostWakeup, Awake
<1>2. CASE WorkerTake(w)
  <2>1. Awake = Awake' \cup {w} /\ w \notin Awake' /\ IsFiniteSet(Awake')
    BY <1>2, PollAssumption, FS_Subset DEF WorkerTake, Awake
  <2>2. Cardinality(Awake) = Cardinality(Awake') + 1
        /\ Cardinality(Awake') \in Nat
    BY <2>1, OneMore
  <2>3. Len(queue') = Len(queue) - 1
    BY <1>2 DEF WorkerTake
  <2>4. \A v \in Workers : worker'[v] = "wait" => worker[v] = "wait"
    BY <1>2 DEF WorkerTake
  <2> QED BY <2>2, <2>3, <2>4, <1>0 DEF NoLostWakeup, Awake
<1>3. CASE (\E c \in Clients : WorkerHangUp(w, c)) \/ SpuriousWakeup(w)
  <2>1. /\ worker[w] # "lock" /\ worker' = [worker EXCEPT ![w] = "lock"]
        /\ queue' = queue
    BY <1>3 DEF WorkerHangUp, SpuriousWakeup
  <2>2. Awake' = Awake \cup {w} /\ w \notin Awake
    BY <2>1 DEF Awake
  <2>3. Cardinality(Awake') = Cardinality(Awake) + 1
    BY <2>2, AwakeFinite, OneMore
  <2>4. \A v \in Workers : worker'[v] = "wait" => worker[v] = "wait"
    BY <2>1
  <2> QED BY <2>1, <2>3, <2>4, <1>0, AwakeFinite DEF NoLostWakeup, Awake
<1>4. CASE \E c \in Clients : \/ WorkerReceive(w, c) \/ WorkerSend(w, c)
                              \/ WorkerSendFails(w, c)
  <2>1. /\ queue' = queue
        /\ \E to \in {"recv", "send"} :
             /\ worker[w] \in {"recv", "send"}
             /\ worker' = [worker EXCEPT ![w] = to]
    BY <1>4 DEF WorkerReceive, WorkerSend, WorkerSendFails
  <2>2. \A v \in Workers : /\ worker'[v] = "wait" <=> worker[v] = "wait"
                           /\ worker'[v] = "lock" <=> worker[v] = "lock"
    BY <2>1
  <2>3. Awake' = Awake
    BY <2>2 DEF Awake
  <2> QED BY <2>1, <2>2, <2>3 DEF NoLostWakeup, Awake
<1> QED BY <1>1, <1>2, <1>3, <1>4 DEF Work

LEMMA WakeupsStep == TypeOK /\ NoLostWakeup /\ [Next]_vars => NoLostWakeup'
<1> SUFFICES ASSUME TypeOK, NoLostWakeup, [Next]_vars PROVE NoLostWakeup'
  OBVIOUS
<1>1. ASSUME NEW c \in Clients, Use(c) PROVE NoLostWakeup'
  BY <1>1 DEF Use, Connect, ClientSend, ClientReceive, ClientLost,
              ClientKilled, poolVars, NoLostWakeup
<1>2. CASE UNCHANGED vars
  BY <1>2 DEF vars, poolVars, NoLostWakeup
<1> QED BY <1>1, <1>2, WakeupsMain, WakeupsWork DEF Next

\* No signal to the pool is lost, for any number of workers: one sleeps only
\* while as many others come to the queue as there are connections in it.
THEOREM WakeupsSuffice == Spec => []NoLostWakeup
<1>1. Init => NoLostWakeup
  BY DEF Init, NoLostWakeup
<1> QED BY <1>1, TypeInit, TypeStep, WakeupsStep, PTL DEF Spec
-----------------------------------------------------------------------------
(* Each connection is in one place.                                        *)

Has(s, x)  == \E i \in 1 .. Len(s) : s[i] = x
NoTwice(s) == \A i, j \in 1 .. Len(s) : s[i] = s[j] => i = j

LEMMA AfterAppend ==
  ASSUME NEW S, NEW s \in Seq(S), NEW x \in S, ~Has(s, x), NoTwice(s)
  PROVE  /\ NoTwice(Append(s, x))
         /\ \A y : Has(Append(s, x), y) <=> Has(s, y) \/ y = x
<1> DEFINE t == Append(s, x)
<1>1. /\ Len(s) \in Nat /\ Len(t) = Len(s) + 1
      /\ \A i \in 1 .. Len(s) : t[i] = s[i]
      /\ t[Len(s) + 1] = x
  OBVIOUS
<1> HIDE DEF t
<1>2. NoTwice(t)
  BY <1>1 DEF NoTwice, Has
<1>3. ASSUME NEW y PROVE Has(t, y) <=> Has(s, y) \/ y = x
  <2>1. Has(t, y) => Has(s, y) \/ y = x
    BY <1>1 DEF Has
  <2>2. Has(s, y) => Has(t, y)
    BY <1>1 DEF Has
  <2>3. Len(s) + 1 \in 1 .. Len(t)
    BY <1>1
  <2>4. y = x => Has(t, y)
    BY <1>1, <2>3 DEF Has
  <2> QED BY <2>1, <2>2, <2>4
<1> QED BY <1>2, <1>3 DEF t

LEMMA AfterTail ==
  ASSUME NEW S, NEW s \in Seq(S), s # <<>>, NoTwice(s)
  PROVE  /\ NoTwice(Tail(s)) /\ Has(s, Head(s))
         /\ \A y : Has(Tail(s), y) <=> Has(s, y) /\ y # Head(s)
<1> DEFINE t == Tail(s)
<1>1. /\ Len(s) \in Nat \ {0} /\ Len(t) = Len(s) - 1
      /\ \A i \in 1 .. Len(t) : t[i] = s[i + 1]
      /\ Head(s) = s[1]
  OBVIOUS
<1> HIDE DEF t
<1>2. NoTwice(t)
  BY <1>1 DEF NoTwice
<1>3. Has(s, Head(s))
  BY <1>1 DEF Has
<1>4. ASSUME NEW y PROVE Has(t, y) <=> Has(s, y) /\ y # Head(s)
  <2>1. ASSUME Has(t, y) PROVE Has(s, y) /\ y # Head(s)
    <3>1. PICK i \in 1 .. Len(t) : t[i] = y
      BY <2>1 DEF Has
    <3>2. i + 1 \in 1 .. Len(s) /\ s[i + 1] = y /\ i + 1 # 1 /\ 1 \in 1 .. Len(s)
      BY <1>1, <3>1
    <3> QED BY <1>1, <3>2 DEF Has, NoTwice
  <2>2. ASSUME Has(s, y), y # Head(s) PROVE Has(t, y)
    <3>1. PICK i \in 1 .. Len(s) : s[i] = y
      BY <2>2 DEF Has
    <3>2. i - 1 \in 1 .. Len(t) /\ t[i - 1] = y
      BY <1>1, <2>2, <3>1
    <3> QED BY <3>2 DEF Has
  <2> QED BY <2>1, <2>2
<1> QED BY <1>2, <1>3, <1>4 DEF t

HasWorker(c) == \E w \in Workers : serving[w] = c

\* No list names a connection twice, no two workers have the same one, and
\* of the four places just one has a connection that is in use.
Placed ==
  /\ NoTwice(backlog) /\ NoTwice(queue)
  /\ \A v, w \in Workers : serving[v] # None /\ serving[v] = serving[w] => v = w
  /\ \A c \in Clients :
       /\ Has(backlog, c) => ~Has(queue, c) /\ accepted # c /\ ~HasWorker(c)
       /\ Has(queue, c) => accepted # c /\ ~HasWorker(c)
       /\ accepted = c => ~HasWorker(c)
       /\ conn[c] \in {"none", "gone"}
            <=> ~(Has(backlog, c) \/ Has(queue, c) \/ accepted = c \/ HasWorker(c))
       /\ client[c] = "start" => conn[c] = "none"

PlaceInv == alive => Placed

LEMMA PlaceInit == Init => PlaceInv
<1> SUFFICES ASSUME Init PROVE Placed
  BY DEF PlaceInv
<1>1. backlog = <<>> /\ queue = <<>> /\ Len(<<>>) = 0
  BY DEF Init
<1>2. NoTwice(backlog) /\ NoTwice(queue)
      /\ \A c \in Clients : ~Has(backlog, c) /\ ~Has(queue, c)
  BY <1>1 DEF NoTwice, Has
<1> QED BY <1>2, PollAssumption DEF Init, Placed, HasWorker

LEMMA PlaceMain == ASSUME TypeOK, PlaceInv, Accept \/ Push PROVE PlaceInv'
<1> SUFFICES ASSUME alive' PROVE Placed'
  BY DEF PlaceInv
<1>1. CASE Accept
  <2>1. Placed /\ backlog \in Seq(Clients) /\ backlog # <<>>
    BY <1>1 DEF PlaceInv, TypeOK, Accept
  <2>2. Head(backlog) \in Clients
    BY <2>1
  <2>3. /\ NoTwice(backlog') /\ Has(backlog, accepted')
        /\ \A y : Has(backlog', y) <=> Has(backlog, y) /\ y # accepted'
    BY <1>1, <2>1, AfterTail DEF Placed, Accept
  <2>4. accepted = None /\ accepted' \in Clients
        /\ UNCHANGED <<queue, serving, conn, client>>
    BY <1>1, <2>2 DEF Accept, clientVars
  <2> QED BY <2>1, <2>3, <2>4, PollAssumption DEF Placed, HasWorker, Has
<1>2. CASE Push
  <2>1. Placed /\ queue \in Seq(Clients) /\ accepted \in Clients
    BY <1>2 DEF PlaceInv, TypeOK, Push
  <2>2. /\ NoTwice(queue')
        /\ \A y : Has(queue', y) <=> Has(queue, y) \/ y = accepted
    BY <1>2, <2>1, AfterAppend DEF Placed, Push
  <2>3. accepted' = None /\ UNCHANGED <<backlog, serving, conn, client>>
    BY <1>2 DEF Push, clientVars
  <2>4. NoTwice(backlog') /\ \A c : Has(backlog', c) <=> Has(backlog, c)
    BY <2>1, <2>3 DEF Placed
  <2>5. \A c : HasWorker(c)' <=> HasWorker(c)
    BY <2>3 DEF HasWorker
  <2> QED BY <2>1, <2>2, <2>3, <2>4, <2>5, PollAssumption DEF Placed
<1> QED BY <1>1, <1>2
\* A step that leaves lists, holders and the state of connections alone.
LEMMA PlaceSame ==
  ASSUME PlaceInv, UNCHANGED <<backlog, accepted, queue, serving>>,
         alive' => alive,
         \A c \in Clients :
           /\ conn'[c] \in {"none", "gone"} <=> conn[c] \in {"none", "gone"}
           /\ client'[c] = "start" => client[c] = "start" /\ conn'[c] = conn[c]
  PROVE  PlaceInv'
<1>1. \A c : /\ Has(backlog, c)' <=> Has(backlog, c)
             /\ Has(queue, c)' <=> Has(queue, c)
             /\ HasWorker(c)' <=> HasWorker(c)
  BY DEF Has, HasWorker
<1>2. (NoTwice(backlog)' <=> NoTwice(backlog))
      /\ (NoTwice(queue)' <=> NoTwice(queue))
  BY DEF NoTwice
<1> QED BY <1>1, <1>2 DEF PlaceInv, Placed

LEMMA PlaceWork ==
  ASSUME TypeOK, PlaceInv, NEW w \in Workers, Work(w) \/ SpuriousWakeup(w)
  PROVE  PlaceInv'
<1>1. CASE WorkerWait(w)
  BY <1>1, PlaceSame DEF WorkerWait, Serving, clientVars
<1>2. CASE WorkerTake(w)
  <2>1. /\ Placed /\ queue \in Seq(Clients) /\ queue # <<>>
        /\ serving[w] = None /\ serving \in [Workers -> Clients \cup {None}]
    BY <1>2 DEF PlaceInv, TypeOK, WorkerTake, Serving
  <2> DEFINE c == Head(queue)
  <2>2. c \in Clients /\ c # None
    BY <2>1, PollAssumption
  <2>3. /\ NoTwice(queue') /\ Has(queue, c)
        /\ \A y : Has(queue', y) <=> Has(queue, y) /\ y # c
    BY <1>2, <2>1, AfterTail DEF Placed, WorkerTake
  <2>4. serving' = [serving EXCEPT ![w] = c]
        /\ UNCHANGED <<alive, backlog, accepted, conn, client>>
    BY <1>2 DEF WorkerTake, clientVars
  <2> HIDE DEF c
  <2>5. NoTwice(backlog') /\ \A y : Has(backlog', y) <=> Has(backlog, y)
    BY <2>1, <2>4 DEF Placed
  <2>6. \A y \in Clients : HasWorker(y)' <=> HasWorker(y) \/ y = c
    BY <2>1, <2>2, <2>4, PollAssumption DEF HasWorker
  <2>7. ~HasWorker(c) /\ accepted # c /\ ~Has(backlog, c)
    BY <2>1, <2>2, <2>3 DEF Placed
  <2>8. \A v, u \in Workers :
          serving'[v] # None /\ serving'[v] = serving'[u] => v = u
    BY <2>1, <2>2, <2>4, <2>7 DEF Placed, HasWorker
  <2> QED BY <2>1, <2>2, <2>3, <2>4, <2>5, <2>6, <2>7, <2>8
      DEF PlaceInv, Placed
<1>3. ASSUME NEW c \in Clients, WorkerReceive(w, c) PROVE PlaceInv'
  BY <1>3, PlaceSame DEF WorkerReceive, clientVars
<1>4. ASSUME NEW c \in Clients, WorkerHangUp(w, c) PROVE PlaceInv'
  <2>1. /\ Placed /\ serving \in [Workers -> Clients \cup {None}]
        /\ conn \in [Clients -> {"none", "open", "closed", "reset", "gone"}]
    BY <1>4 DEF PlaceInv, TypeOK, WorkerHangUp, Serving
  <2>2. /\ serving[w] = c /\ serving' = [serving EXCEPT ![w] = None]
        /\ conn' = [conn EXCEPT ![c] = "gone"]
        /\ UNCHANGED <<alive, backlog, accepted, queue, client>>
    BY <1>4 DEF WorkerHangUp, Serving, clientVars
  <2>3. /\ NoTwice(backlog') /\ NoTwice(queue')
        /\ \A y : /\ Has(backlog', y) <=> Has(backlog, y)
                  /\ Has(queue', y) <=> Has(queue, y)
    BY <2>1, <2>2 DEF Placed
  <2>4. HasWorker(c) /\ \A y \in Clients : HasWorker(y)' <=> HasWorker(y) /\ y # c
    BY <2>1, <2>2, PollAssumption DEF HasWorker, Placed
  <2>5. \A v, u \in Workers :
          serving'[v] # None /\ serving'[v] = serving'[u] => v = u
    BY <2>1, <2>2 DEF Placed
  <2>6. client[c] # "start"
    BY <2>1, <2>4 DEF Placed
  <2> QED BY <2>1, <2>2, <2>3, <2>4, <2>5, <2>6 DEF PlaceInv, Placed
<1>5. ASSUME NEW c \in Clients, WorkerSend(w, c) PROVE PlaceInv'
  <2>1. /\ conn[c] \in {"open", "closed"}
        /\ conn' = [conn EXCEPT ![c] = IF @ = "open" THEN @ ELSE "reset"]
        /\ UNCHANGED <<alive, backlog, accepted, queue, serving, client>>
    BY <1>5 DEF WorkerSend, clientVars
  <2>2. alive /\ serving[w] = c
    BY <1>5 DEF WorkerSend, Serving
  <2>3. client[c] # "start"
    BY <2>1, <2>2 DEF PlaceInv, Placed
  <2> QED BY <2>1, <2>3, PlaceSame DEF TypeOK
<1>6. ASSUME NEW c \in Clients, WorkerSendFails(w, c) PROVE PlaceInv'
  <2>1. CASE UNCHANGED <<alive, conn>>
    BY <1>6, <2>1, PlaceSame DEF WorkerSendFails, clientVars
  <2>2. CASE alive' = FALSE
    BY <2>2 DEF PlaceInv
  <2> QED BY <1>6, <2>1, <2>2 DEF WorkerSendFails
<1>7. CASE SpuriousWakeup(w)
  BY <1>7, PlaceSame DEF SpuriousWakeup, clientVars
<1> QED BY <1>1, <1>2, <1>3, <1>4, <1>5, <1>6, <1>7 DEF Work

LEMMA PlaceUse ==
  ASSUME TypeOK, PlaceInv, NEW c \in Clients, Use(c) PROVE PlaceInv'
<1>1. CASE Connect(c)
  <2>1. /\ Placed /\ backlog \in Seq(Clients) /\ client[c] = "start"
        /\ backlog' = Append(backlog, c)
        /\ conn' = [conn EXCEPT ![c] = "open"]
        /\ client' = [client EXCEPT ![c] = "prompt"]
        /\ UNCHANGED <<accepted, queue, serving>>
    BY <1>1 DEF PlaceInv, TypeOK, Connect, ClientGoto, poolVars
  <2>2. conn[c] = "none"
    BY <2>1 DEF Placed
  <2>3. ~Has(backlog, c) /\ ~Has(queue, c) /\ accepted # c /\ ~HasWorker(c)
    BY <2>1, <2>2 DEF Placed
  <2>4. /\ NoTwice(backlog')
        /\ \A y : Has(backlog', y) <=> Has(backlog, y) \/ y = c
    BY <2>1, <2>3, AfterAppend DEF Placed
  <2>5. NoTwice(queue') /\ \A y : /\ Has(queue', y) <=> Has(queue, y)
                                  /\ HasWorker(y)' <=> HasWorker(y)
    BY <2>1 DEF Placed, HasWorker
  <2> QED BY <2>1, <2>3, <2>4, <2>5 DEF TypeOK, PlaceInv, Placed
<1>2. CASE ClientSend(c)
  BY <1>2, PlaceSame DEF ClientSend, ClientGoto, poolVars, TypeOK
<1>3. CASE ClientReceive(c)
  BY <1>3, PlaceSame DEF ClientReceive, ClientGoto, poolVars, TypeOK
<1>4. CASE ClientLost(c)
  BY <1>4, PlaceSame DEF ClientLost, ClientGoto, poolVars, TypeOK
<1>5. CASE ClientKilled(c)
  <2>1. \A d \in Clients :
          conn'[d] \in {"none", "gone"} <=> conn[d] \in {"none", "gone"}
    BY <1>5 DEF ClientKilled, TypeOK
  <2>2. \A d \in Clients : client'[d] = "start" => client[d] = "start" /\ d # c
    BY <1>5 DEF ClientKilled, TypeOK
  <2>3. \A d \in Clients \ {c} : conn'[d] = conn[d]
    BY <1>5 DEF ClientKilled, TypeOK
  <2> QED BY <1>5, <2>1, <2>2, <2>3, PlaceSame DEF ClientKilled, poolVars
<1> QED BY <1>1, <1>2, <1>3, <1>4, <1>5 DEF Use

LEMMA PlaceStep == TypeOK /\ PlaceInv /\ [Next]_vars => PlaceInv'
<1> SUFFICES ASSUME TypeOK, PlaceInv, [Next]_vars PROVE PlaceInv'
  OBVIOUS
<1>1. CASE UNCHANGED vars
  BY <1>1, PlaceSame DEF vars, poolVars, clientVars
<1> QED BY <1>1, PlaceMain, PlaceWork, PlaceUse DEF Next

\* The numbers that OnePlace adds up.
LEMMA AtMostOne ==
  ASSUME NEW S, \A x, y \in S : x = y
  PROVE  Cardinality(S) = IF S = {} THEN 0 ELSE 1
<1>1. CASE S = {}
  BY <1>1, FS_EmptySet
<1>2. CASE S # {}
  <2>1. PICK x \in S : S = {x}
    BY <1>2
  <2> QED BY <1>2, <2>1, FS_Singleton
<1> QED BY <1>1, <1>2

LEMMA OnePlaceHolds == PlaceInv => OnePlace
<1> SUFFICES ASSUME Placed, NEW c \in Clients
             PROVE  Places(c) = IF conn[c] \in {"none", "gone"} THEN 0 ELSE 1
  BY DEF PlaceInv, OnePlace
<1> DEFINE B == {i \in 1 .. Len(backlog) : backlog[i] = c}
           Q == {i \in 1 .. Len(queue) : queue[i] = c}
           W == {w \in Workers : serving[w] = c}
<1>1. /\ \A i, j \in B : i = j
      /\ \A i, j \in Q : i = j
      /\ \A v, w \in W : v = w
  BY PollAssumption DEF Placed, NoTwice
<1>2. /\ B # {} <=> Has(backlog, c)
      /\ Q # {} <=> Has(queue, c)
      /\ W # {} <=> HasWorker(c)
  BY DEF Has, HasWorker
<1>3. Places(c) = Cardinality(B) + Cardinality(Q) + Cardinality(W)
                  + (IF accepted = c THEN 1 ELSE 0)
  BY DEF Places
<1> HIDE DEF B, Q, W
<1>4. /\ Cardinality(B) = IF B = {} THEN 0 ELSE 1
      /\ Cardinality(Q) = IF Q = {} THEN 0 ELSE 1
      /\ Cardinality(W) = IF W = {} THEN 0 ELSE 1
  BY <1>1, AtMostOne
<1> QED BY <1>2, <1>3, <1>4 DEF Placed

\* Whatever the number of workers, of clients and of spurious wakeups, no
\* connection is dropped between main and the pool, and none has two workers.
THEOREM EachInOnePlace == Spec => []OnePlace
<1>1. PlaceInv => OnePlace
  BY OnePlaceHolds
<1> QED BY <1>1, TypeInit, TypeStep, PlaceInit, PlaceStep, PTL DEF Spec

-----------------------------------------------------------------------------
(* Lines and answers of a client that sends none that is long.             *)

Answering(c) == \E w \in Workers : worker[w] = "send" /\ serving[w] = c

\* At most one of: its line, an answer being sent, an answer not yet read;
\* none of them at a prompt, nor once the connection is reset.
OneLine(c) ==
  /\ toClient[c] \in {0, 1} /\ Len(toServer[c]) \in {0, 1}
  /\ toServer[c] # <<>> => toClient[c] = 0 /\ ~Answering(c)
  /\ toClient[c] # 0 => ~Answering(c)
  /\ conn[c] = "reset" => toServer[c] = <<>> /\ ~Answering(c)
  /\ client[c] = "start" \/ (client[c] = "prompt" /\ conn[c] = "open") =>
       toServer[c] = <<>> /\ toClient[c] = 0 /\ ~Answering(c)
  /\ conn[c] \in {"closed", "reset"} => client[c] = "done"

LineInv == \A c \in Clients : "long" \notin asked[c] => OneLine(c)

LInv == TypeOK /\ PlaceInv /\ LineInv /\ ServerSurvives

LEMMA LineInit == Init => LineInv /\ ServerSurvives
  BY PollAssumption DEF Init, LineInv, ServerSurvives, OneLine, Answering

LEMMA LineSame ==
  ASSUME NEW c \in Clients, OneLine(c),
         toServer'[c] = toServer[c], toClient'[c] = toClient[c],
         conn'[c] = conn[c], client'[c] = client[c],
         Answering(c)' => Answering(c)
  PROVE  OneLine(c)'
  BY DEF OneLine

LEMMA LineMain == ASSUME LInv, Accept \/ Push PROVE LineInv' /\ ServerSurvives'
<1>1. UNCHANGED <<alive, serving, conn, toServer, toClient, client, asked>>
  BY DEF Accept, Push, clientVars
<1>2. \A w \in Workers : worker'[w] = "send" => worker[w] = "send"
  BY DEF Accept, Push, LInv, TypeOK
<1>3. \A c \in Clients : Answering(c)' => Answering(c)
  BY <1>1, <1>2 DEF Answering
<1> QED BY <1>1, <1>3, LineSame DEF LInv, LineInv, ServerSurvives

LEMMA LineWork ==
  ASSUME LInv, NEW w \in Workers, Work(w) \/ SpuriousWakeup(w)
  PROVE  LineInv' /\ ServerSurvives'
<1> USE DEF LInv, Serving
<1>0. /\ worker \in [Workers -> {"lock", "wait", "recv", "send"}]
      /\ serving \in [Workers -> Clients \cup {None}]
      /\ conn \in [Clients -> {"none", "open", "closed", "reset", "gone"}]
      /\ toServer \in [Clients -> Seq(Nat)] /\ toClient \in [Clients -> Nat]
  BY DEF TypeOK
<1>1. CASE WorkerWait(w) \/ SpuriousWakeup(w)
  <2>1. UNCHANGED <<alive, serving, conn, toServer, toClient, client, asked>>
    BY <1>1 DEF WorkerWait, SpuriousWakeup, clientVars
  <2>2. \A v \in Workers : worker'[v] = "send" => worker[v] = "send"
    BY <1>0, <1>1 DEF WorkerWait, SpuriousWakeup
  <2>3. \A c \in Clients : Answering(c)' => Answering(c)
    BY <2>1, <2>2 DEF Answering
  <2> QED BY <2>1, <2>3, LineSame DEF LineInv, ServerSurvives
<1>2. CASE WorkerTake(w)
  <2>1. UNCHANGED <<alive, conn, toServer, toClient, client, asked>>
    BY <1>2 DEF WorkerTake, clientVars
  <2>2. \A v \in Workers : worker'[v] = "send" =>
                           worker[v] = "send" /\ serving'[v] = serving[v]
    BY <1>0, <1>2 DEF WorkerTake
  <2>3. \A c \in Clients : Answering(c)' => Answering(c)
    BY <2>1, <2>2 DEF Answering
  <2> QED BY <2>1, <2>3, LineSame DEF LineInv, ServerSurvives
<1>3. ASSUME NEW c \in Clients, WorkerReceive(w, c)
      PROVE  LineInv' /\ ServerSurvives'
  <2>1. PICK k \in 1 .. Len(toServer[c]) :
          toServer' = [toServer EXCEPT ![c] = SubSeq(@, k + 1, Len(@))]
    BY <1>3 DEF WorkerReceive
  <2>2. /\ UNCHANGED <<alive, serving, conn, toClient, client, asked>>
        /\ worker' = [worker EXCEPT ![w] = "send"] /\ serving[w] = c
    BY <1>3 DEF WorkerReceive, clientVars
  <2>3. \A d \in Clients \ {c} : /\ toServer'[d] = toServer[d]
                                 /\ Answering(d)' => Answering(d)
    BY <1>0, <2>1, <2>2 DEF Answering
  <2>4. ASSUME "long" \notin asked[c] PROVE OneLine(c)'
    <3>1. OneLine(c) /\ Len(toServer[c]) \in {0, 1} /\ toServer[c] # <<>>
      BY <1>0, <2>1, <2>4 DEF LineInv, OneLine
    <3>2. k = 1 /\ Len(toServer[c]) = 1
      <4>1. CASE Len(toServer[c]) = 0
        BY <4>1
      <4>2. CASE Len(toServer[c]) = 1
        BY <4>2
      <4> QED BY <3>1, <4>1, <4>2
    <3>3. toServer'[c] = SubSeq(toServer[c], 2, 1)
      BY <1>0, <2>1, <3>2
    <3>4. toServer'[c] = <<>>
      BY <3>3, SubSeqEmpty, <1>0
    <3>5. Len(toServer'[c]) = 0
      BY <3>4
    <3>6. /\ toClient[c] = 0 /\ conn[c] # "reset"
          /\ ~(client[c] = "start" \/ (client[c] = "prompt" /\ conn[c] = "open"))
          /\ conn[c] = "closed" => client[c] = "done"
      BY <3>1 DEF OneLine
    <3> QED BY <2>2, <3>4, <3>5, <3>6 DEF OneLine
  <2> QED BY <2>2, <2>3, <2>4, LineSame DEF LineInv, ServerSurvives
<1>4. ASSUME NEW c \in Clients, WorkerHangUp(w, c)
      PROVE  LineInv' /\ ServerSurvives'
  <2>1. /\ UNCHANGED <<alive, toServer, toClient, client, asked>>
        /\ worker' = [worker EXCEPT ![w] = "lock"]
        /\ serving' = [serving EXCEPT ![w] = None]
        /\ conn' = [conn EXCEPT ![c] = "gone"]
    BY <1>4 DEF WorkerHangUp, clientVars
  <2>2. \A d \in Clients : Answering(d)' => Answering(d)
    BY <1>0, <2>1, PollAssumption DEF Answering
  <2>3. \A d \in Clients \ {c} : conn'[d] = conn[d]
    BY <1>0, <2>1
  <2>4. ASSUME OneLine(c) PROVE OneLine(c)'
    <3>1. conn'[c] = "gone"
      BY <1>0, <2>1
    <3>2. client[c] # "start"
      BY <1>4 DEF WorkerHangUp, PlaceInv, Placed
    <3> QED BY <2>1, <2>2, <2>4, <3>1, <3>2 DEF OneLine
  <2> QED BY <2>1, <2>2, <2>3, <2>4, LineSame DEF LineInv, ServerSurvives
<1>5. ASSUME NEW c \in Clients, WorkerSend(w, c)
      PROVE  LineInv' /\ ServerSurvives'
  <2>1. /\ UNCHANGED <<alive, serving, toServer, client, asked>>
        /\ alive /\ worker[w] = "send" /\ serving[w] = c
        /\ worker' = [worker EXCEPT ![w] = "recv"]
        /\ conn[c] \in {"open", "closed"}
        /\ conn' = [conn EXCEPT ![c] = IF @ = "open" THEN @ ELSE "reset"]
        /\ toClient' = [toClient EXCEPT ![c] =
                          IF conn[c] = "open" THEN @ + 1 ELSE @]
    BY <1>5 DEF WorkerSend, clientVars
  <2>2. \A d \in Clients : Answering(d)' => Answering(d)
    BY <1>0, <2>1 DEF Answering
  <2>3. \A d \in Clients \ {c} : conn'[d] = conn[d] /\ toClient'[d] = toClient[d]
    BY <1>0, <2>1
  <2>4. Answering(c) /\ c # None
    BY <2>1, PollAssumption DEF Answering
  <2>5. ~Answering(c)'
    <3>1. \A v \in Workers : serving[v] = c => v = w
      BY <2>1, <2>4 DEF PlaceInv, Placed
    <3> QED BY <1>0, <2>1, <3>1 DEF Answering
  <2>6. ASSUME OneLine(c) PROVE OneLine(c)'
    <3>1. toClient[c] = 0 /\ toServer[c] = <<>>
      BY <2>4, <2>6 DEF OneLine
    <3>2. toClient'[c] \in {0, 1}
      BY <1>0, <2>1, <3>1
    <3>3. ~(client[c] = "start" \/ (client[c] = "prompt" /\ conn[c] = "open"))
      BY <2>4, <2>6 DEF OneLine
    <3>4. conn'[c] = "open" <=> conn[c] = "open"
      BY <1>0, <2>1
    <3>5. conn'[c] \in {"closed", "reset"} => conn[c] = "closed"
      BY <1>0, <2>1
    <3> QED BY <2>1, <2>5, <2>6, <3>1, <3>2, <3>3, <3>4, <3>5 DEF OneLine
  <2> QED BY <2>1, <2>2, <2>3, <2>6, LineSame DEF LineInv, ServerSurvives
<1>6. ASSUME NEW c \in Clients, WorkerSendFails(w, c)
      PROVE  LineInv' /\ ServerSurvives'
  <2>1. /\ UNCHANGED <<serving, toServer, toClient, client, asked>>
        /\ alive /\ worker[w] = "send" /\ serving[w] = c /\ conn[c] = "reset"
        /\ worker' = [worker EXCEPT ![w] = "recv"]
    BY <1>6 DEF WorkerSendFails, clientVars
  <2>2. \A d \in Clients : Answering(d)' => Answering(d)
    BY <1>0, <2>1 DEF Answering
  <2>3. "long" \in asked[c]
    BY <2>1 DEF LineInv, OneLine, Answering
  <2>4. CASE UNCHANGED <<alive, conn>>
    BY <2>1, <2>2, <2>4, LineSame DEF LineInv, ServerSurvives
  <2>5. CASE conn' = [d \in Clients |-> IF conn[d] = "none" THEN "none" ELSE "gone"]
    <3>1. ASSUME NEW d \in Clients, OneLine(d) PROVE OneLine(d)'
      <4>1. conn'[d] \notin {"open", "closed", "reset"}
        BY <2>5
      <4> QED BY <2>1, <2>2, <3>1, <4>1 DEF OneLine
    <3> QED BY <2>1, <2>3, <3>1 DEF LineInv, ServerSurvives
  <2> QED BY <1>6, <2>4, <2>5 DEF WorkerSendFails
<1> QED BY <1>1, <1>2, <1>3, <1>4, <1>5, <1>6 DEF Work

LEMMA LineUse ==
  ASSUME LInv, NEW c \in Clients, Use(c) PROVE LineInv' /\ ServerSurvives'
<1> USE DEF LInv, ClientGoto
<1>0. /\ client \in [Clients -> {"start", "prompt", "wait", "done"}]
      /\ conn \in [Clients -> {"none", "open", "closed", "reset", "gone"}]
      /\ toServer \in [Clients -> Seq(Nat)] /\ toClient \in [Clients -> Nat]
      /\ asked \in [Clients -> SUBSET Lines]
  BY DEF TypeOK
<1>1. UNCHANGED <<alive, worker, serving>>
  BY DEF Use, Connect, ClientSend, ClientReceive, ClientLost, ClientKilled,
         poolVars
<1>2. \A d \in Clients : Answering(d)' <=> Answering(d)
  BY <1>1 DEF Answering
<1>3. \A d \in Clients \ {c} :
        /\ client'[d] = client[d] /\ conn'[d] = conn[d] /\ asked'[d] = asked[d]
        /\ toServer'[d] = toServer[d] /\ toClient'[d] = toClient[d]
  <2>1. CASE Connect(c)
    BY <1>0, <2>1 DEF Connect
  <2>2. CASE ClientSend(c)
    BY <1>0, <2>2 DEF ClientSend
  <2>3. CASE ClientReceive(c)
    BY <1>0, <2>3 DEF ClientReceive
  <2>4. CASE ClientLost(c)
    BY <1>0, <2>4 DEF ClientLost
  <2>5. CASE ClientKilled(c)
    BY <1>0, <2>5 DEF ClientKilled
  <2> QED BY <2>1, <2>2, <2>3, <2>4, <2>5 DEF Use
<1>4. asked[c] \subseteq asked'[c]
  BY <1>0 DEF Use, Connect, ClientSend, ClientReceive, ClientLost, ClientKilled
<1>5. ASSUME OneLine(c), "long" \notin asked'[c] PROVE OneLine(c)'
  <2>1. CASE Connect(c)
    <3>1. /\ client[c] = "start" /\ client'[c] = "prompt" /\ conn'[c] = "open"
          /\ UNCHANGED <<toServer, toClient>>
      BY <1>0, <2>1 DEF Connect
    <3> QED BY <1>2, <1>5, <3>1 DEF OneLine
  <2>2. CASE ClientSend(c)
    <3>1. PICK line \in Lines :
            /\ toServer' = [toServer EXCEPT ![c] = @ \o Pieces(sent[c] + 1, line)]
            /\ asked' = [asked EXCEPT ![c] = @ \cup {line}]
      BY <2>2 DEF ClientSend
    <3>2. /\ client[c] = "prompt" /\ client'[c] = "wait" /\ conn[c] = "open"
          /\ UNCHANGED <<conn, toClient>>
      BY <1>0, <2>2 DEF ClientSend
    <3>3. line \in {"short", "empty"}
      BY <1>0, <1>5, <3>1, PollAssumption
    <3>4. toServer[c] = <<>> /\ toClient[c] = 0 /\ ~Answering(c)
      BY <1>5, <3>2 DEF OneLine
    <3>5. Len(toServer'[c]) \in {0, 1}
      <4>1. toServer'[c] = <<>> \o Pieces(sent[c] + 1, line)
        BY <1>0, <3>1, <3>4
      <4>2. CASE line = "empty"
        BY <4>1, <4>2 DEF Pieces
      <4>3. CASE line = "short"
        <5>1. Pieces(sent[c] + 1, line) = <<sent[c] + 1>>
          BY <4>3 DEF Pieces
        <5> QED BY <4>1, <5>1
      <4> QED BY <3>3, <4>2, <4>3
    <3> QED BY <1>2, <3>2, <3>4, <3>5 DEF OneLine
  <2>3. CASE ClientReceive(c)
    <3>1. PICK k \in 1 .. toClient[c] : toClient' = [toClient EXCEPT ![c] = @ - k]
      BY <2>3 DEF ClientReceive
    <3>2. toClient[c] = 1 /\ toClient'[c] = 0
      BY <1>0, <1>5, <3>1 DEF OneLine
    <3>3. client[c] = "wait" /\ client'[c] = "prompt" /\ UNCHANGED <<conn, toServer>>
      BY <1>0, <2>3 DEF ClientReceive
    <3> QED BY <1>2, <1>5, <3>2, <3>3 DEF OneLine
  <2>4. CASE ClientLost(c)
    <3>1. conn[c] = "gone" /\ client'[c] \in {"prompt", "done"}
          /\ UNCHANGED <<conn, toServer, toClient>>
      BY <1>0, <2>4 DEF ClientLost
    <3> QED BY <1>2, <1>5, <3>1 DEF OneLine
  <2>5. CASE ClientKilled(c)
    <3>1. /\ client[c] \in {"prompt", "wait"} /\ client'[c] = "done"
          /\ toClient'[c] = 0 /\ UNCHANGED toServer
      BY <1>0, <2>5 DEF ClientKilled
    <3>2. conn'[c] = IF conn[c] = "open"
                     THEN IF toClient[c] = 0 THEN "closed" ELSE "reset"
                     ELSE conn[c]
      BY <1>0, <2>5, Zenon DEF ClientKilled
    <3>3. conn'[c] = "reset" => toServer[c] = <<>> /\ ~Answering(c)
      BY <1>5, <3>2 DEF OneLine
    <3> QED BY <1>2, <1>5, <3>1, <3>3 DEF OneLine
  <2> QED BY <2>1, <2>2, <2>3, <2>4, <2>5 DEF Use
<1> QED BY <1>1, <1>2, <1>3, <1>4, <1>5, LineSame DEF LineInv, ServerSurvives

LEMMA LineStep == LInv /\ [Next]_vars => LineInv' /\ ServerSurvives'
<1> SUFFICES ASSUME LInv, [Next]_vars PROVE LineInv' /\ ServerSurvives'
  OBVIOUS
<1>1. CASE UNCHANGED vars
  BY <1>1 DEF vars, poolVars, clientVars, LInv, LineInv, OneLine, Answering,
              ServerSurvives
<1> QED BY <1>1, LineMain, LineWork, LineUse DEF Next

LEMMA LinesKept == Spec => []LInv
<1>1. Init => LInv
  BY TypeInit, PlaceInit, LineInit DEF LInv
<1>2. LInv /\ [Next]_vars => LInv'
  BY TypeStep, PlaceStep, LineStep DEF LInv
<1> QED BY <1>1, <1>2, PTL DEF Spec

\* Whenever clients are killed, SIGPIPE cannot end the server before one of
\* them has sent a line that two recvs read.
THEOREM Survival == Spec => []ServerSurvives
<1>1. LInv => ServerSurvives
  BY DEF LInv
<1> QED BY <1>1, LinesKept, PTL

\* A client that sends short lines only reads each answer before its next line.
THEOREM AnswersInStep == Spec => []InStep
<1>1. LInv => InStep
  BY DEF LInv, LineInv, OneLine, InStep, Answering
<1> QED BY <1>1, LinesKept, PTL
=============================================================================

------------------------------ MODULE ChatProofs ------------------------------
(***************************************************************************)
(* Proofs about Chat: ListRight and EveryoneTold.                          *)
(***************************************************************************)
EXTENDS Chat, FiniteSetTheorems, WellFoundedInduction, TLAPS

-----------------------------------------------------------------------------
(* The inductive invariant.                                                *)

Places == {"none", "name", "push", "pushing", "tell", "telling", "loop",
           "list", "listing", "erase", "erasing", "close", "end"}
Said   == Texts \cup {"name", "joined", "left"}
Items  == [username : Seq(Said), socket : Int, owner : Users]

TypeOK ==
  /\ server \in {"up", "dead", "undefined"}
  /\ clients \in Seq(Items)
  /\ pc \in [Users -> Places]
  /\ socket \in [Users -> Int]
  /\ message \in [Users -> Seq(Said)]
  /\ item \in [Users -> Nat] /\ reached \in [Users -> SUBSET Users]
  /\ user \in [Users -> {"start", "name", "talk", "gone"}]
  /\ stream \in [Users -> Seq(Texts \cup {"name"})]

\* A user has a handler once its connection is accepted, and a handler has
\* closed its descriptor only when it tells the others.  A walk is at an item
\* or behind the last one.
Stages ==
  \A u \in Users : /\ user[u] = "start" => pc[u] = "none"
                   /\ Leaving(u) => pc[u] \in {"tell", "telling"}
                   /\ pc[u] = "telling" => item[u] # 0

\* Open descriptors are different from each other.
SocketsApart ==
  \A u, v \in Connected : u # v => socket[u] # socket[v]

\* The vector has an item of each member, its own, and no other.
Listed ==
  /\ \A k \in 1 .. Len(clients) :
       /\ clients[k].owner \in Members
       /\ clients[k].socket = socket[clients[k].owner]
  /\ \A u \in Members : \E k \in 1 .. Len(clients) : clients[k].owner = u
  /\ \A j, k \in 1 .. Len(clients) :
       clients[j].owner = clients[k].owner => j = k

\* While the behaviour is defined, who writes is alone.
WritersAlone ==
  server = "up" =>
    \A u, v \in Users :
      u # v /\ pc[u] \in Writing => pc[v] \notin Writing \cup Reading

\* A walk has sent to those in front of the item that it is at.
ToTell(u) == {v \in Members \ {u} : Leaving(u) => socket[v] # socket[u]}
InFront(u)  == {clients[k].owner : k \in {j \in 1 .. Len(clients) : j < item[u]}}
Walks ==
  \A u \in Users :
    pc[u] = "telling" => reached[u] = ToTell(u) \cap InFront(u)

ChatInv ==
  /\ TypeOK /\ Stages /\ SocketsApart /\ Listed /\ WritersAlone /\ Walks

-----------------------------------------------------------------------------
(* The vector.                                                             *)

\* The loop of Erase, and the list without one item.
IsErased(left, s, fd) ==
  left = [k \in 0 .. Len(s) |->
            IF k = 0 THEN <<>>
            ELSE IF s[k].socket = fd THEN left[k - 1]
            ELSE Append(left[k - 1], s[k])]
Item(s, p, j)  == IF j < p THEN s[j] ELSE s[j + 1]
Part(s, p, k)  == [j \in 1 .. (IF k < p THEN k ELSE k - 1) |-> Item(s, p, j)]

\* A set of natural numbers has a least element.
LEMMA LeastElement ==
  ASSUME NEW S, S \subseteq Nat, S # {}
  PROVE  \E m \in S : \A x \in S : m <= x
<1>1. PICK m \in S : \A x \in S : ~(<<x, m>> \in OpToRel(<, Nat))
  BY NatLessThanWellFounded, WFMin
<1>2. \A x \in S : m <= x
  <2>1. ASSUME NEW x \in S, x < m PROVE FALSE
    <3>1. <<x, m>> \in OpToRel(<, Nat)
      BY <2>1 DEF OpToRel
    <3> QED BY <1>1, <3>1
  <2> QED BY <2>1
<1> QED BY <1>2

\* One step of the loop, when one item has the descriptor.
LEMMA PartStep ==
  ASSUME NEW s \in Seq(Items), NEW p \in 1 .. Len(s), NEW fd,
         \A k \in 1 .. Len(s) : s[k].socket = fd <=> k = p
  PROVE  /\ Part(s, p, 0) = <<>>
         /\ \A k \in 1 .. Len(s) :
              Part(s, p, k) = IF s[k].socket = fd THEN Part(s, p, k - 1)
                              ELSE Append(Part(s, p, k - 1), s[k])
<1>1. Part(s, p, 0) = <<>>
  BY DEF Part
<1>2. \A k \in 0 .. Len(s) :
        /\ Part(s, p, k) \in Seq(Items)
        /\ Len(Part(s, p, k)) = IF k < p THEN k ELSE k - 1
        /\ \A j \in 1 .. Len(Part(s, p, k)) : Part(s, p, k)[j] = Item(s, p, j)
  <2> SUFFICES ASSUME NEW k \in 0 .. Len(s)
               PROVE  /\ Part(s, p, k) \in Seq(Items)
                      /\ Len(Part(s, p, k)) = IF k < p THEN k ELSE k - 1
                      /\ \A j \in 1 .. Len(Part(s, p, k)) :
                           Part(s, p, k)[j] = Item(s, p, j)
    OBVIOUS
  <2> PICK n \in Nat : n = IF k < p THEN k ELSE k - 1
    OBVIOUS
  <2>1. \A j \in 1 .. n : Item(s, p, j) \in Items
    BY DEF Item
  <2>2. Part(s, p, k) = [j \in 1 .. n |-> Item(s, p, j)]
    BY DEF Part
  <2> QED BY <2>1, <2>2
<1>3. ASSUME NEW k \in 1 .. Len(s), k = p
      PROVE  Part(s, p, k) = Part(s, p, k - 1)
  BY <1>3 DEF Part
<1>4. ASSUME NEW k \in 1 .. Len(s), k # p
      PROVE  Part(s, p, k) = Append(Part(s, p, k - 1), s[k])
  <2> PICK a \in Seq(Items) : a = Part(s, p, k - 1)
    BY <1>2
  <2> PICK b \in Seq(Items) : b = Part(s, p, k)
    BY <1>2
  <2>5. k \in 0 .. Len(s) /\ k - 1 \in 0 .. Len(s)
    OBVIOUS
  <2>6. /\ Len(a) = IF k - 1 < p THEN k - 1 ELSE k - 1 - 1
        /\ \A j \in 1 .. Len(a) : a[j] = Item(s, p, j)
    BY <1>2, <2>5, Zenon
  <2>7. /\ Len(b) = IF k < p THEN k ELSE k - 1
        /\ \A j \in 1 .. Len(b) : b[j] = Item(s, p, j)
    BY <1>2, <2>5
  <2>1. Len(b) = Len(a) + 1
    BY <1>4, <2>6, <2>7
  <2>2. \A j \in 1 .. Len(a) : b[j] = a[j]
    BY <2>1, <2>6, <2>7
  <2>3. b[Len(b)] = s[k]
    BY <1>4, <2>7, <2>1 DEF Item
  <2>4. Append(a, s[k]) \in Seq(Items) /\ Len(Append(a, s[k])) = Len(b)
    BY <2>1
  <2>8. \A j \in 1 .. Len(b) : b[j] = Append(a, s[k])[j]
    BY <2>1, <2>2, <2>3
  <2>9. b = Append(a, s[k])
    BY <2>4, <2>8
  <2> QED BY <2>9
<1> QED BY <1>1, <1>3, <1>4

\* So the loop takes that item out and keeps the others in their order.
LEMMA EraseOne ==
  ASSUME NEW s \in Seq(Items), NEW p \in 1 .. Len(s), NEW fd,
         \A k \in 1 .. Len(s) : s[k].socket = fd <=> k = p
  PROVE  /\ \E left : IsErased(left, s, fd)
         /\ \A left : IsErased(left, s, fd) =>
                        left[Len(s)] = Part(s, p, Len(s))
<1>0. /\ Part(s, p, 0) = <<>>
      /\ \A k \in 1 .. Len(s) :
           Part(s, p, k) = IF s[k].socket = fd THEN Part(s, p, k - 1)
                           ELSE Append(Part(s, p, k - 1), s[k])
  BY PartStep
<1>1. \E left : IsErased(left, s, fd)
  <2> DEFINE left == [k \in 0 .. Len(s) |-> Part(s, p, k)]
  <2>1. \A k \in 0 .. Len(s) :
          left[k] = IF k = 0 THEN <<>>
                    ELSE IF s[k].socket = fd THEN left[k - 1]
                    ELSE Append(left[k - 1], s[k])
    BY <1>0
  <2>2. left = [k \in 0 .. Len(s) |->
                  IF k = 0 THEN <<>>
                  ELSE IF s[k].socket = fd THEN left[k - 1]
                  ELSE Append(left[k - 1], s[k])]
    BY <2>1
  <2> QED BY <2>2 DEF IsErased
<1>2. ASSUME NEW left, IsErased(left, s, fd)
      PROVE  left[Len(s)] = Part(s, p, Len(s))
  <2> DEFINE Wrong == {k \in 0 .. Len(s) : left[k] # Part(s, p, k)}
  <2>1. \A k \in 0 .. Len(s) :
          left[k] = IF k = 0 THEN <<>>
                    ELSE IF s[k].socket = fd THEN left[k - 1]
                    ELSE Append(left[k - 1], s[k])
    BY <1>2 DEF IsErased
  <2>2. ASSUME Wrong # {} PROVE FALSE
    <3>1. PICK k \in Wrong : \A x \in Wrong : k <= x
      <4>1. Wrong \subseteq Nat
        OBVIOUS
      <4> QED BY <2>2, <4>1, LeastElement, Zenon
    <3>2. k # 0
      BY <1>0, <2>1
    <3>3. k \in 1 .. Len(s) /\ k - 1 \in 0 .. Len(s) /\ ~(k <= k - 1)
      BY <3>2
    <3>4. left[k - 1] = Part(s, p, k - 1)
      BY <3>1, <3>3
    <3>6. left[k] = IF s[k].socket = fd THEN left[k - 1]
                    ELSE Append(left[k - 1], s[k])
      BY <2>1, <3>3
    <3>7. Part(s, p, k) = IF s[k].socket = fd THEN Part(s, p, k - 1)
                          ELSE Append(Part(s, p, k - 1), s[k])
      BY <1>0, <3>3
    <3>5. left[k] = Part(s, p, k)
      BY <3>4, <3>6, <3>7, Zenon
    <3> QED BY <3>1, <3>5
  <2>3. Len(s) \in 0 .. Len(s)
    OBVIOUS
  <2> QED BY <2>2, <2>3
<1> QED BY <1>1, <1>2

\* What Erase leaves when one item has the descriptor.
LEMMA OthersLeft ==
  ASSUME clients \in Seq(Items), NEW p \in 1 .. Len(clients), NEW fd,
         \A k \in 1 .. Len(clients) : clients[k].socket = fd <=> k = p
  PROVE  Others(fd) = Part(clients, p, Len(clients))
<1> DEFINE left == CHOOSE f : IsErased(f, clients, fd)
<1>1. IsErased(left, clients, fd)
  BY EraseOne, Zenon
<1>2. left[Len(clients)] = Part(clients, p, Len(clients))
  BY <1>1, EraseOne, Zenon
<1>3. Others(fd) = left[Len(clients)]
  BY Zenon DEF Others, IsErased
<1> QED BY <1>2, <1>3

-----------------------------------------------------------------------------
(* Descriptors.                                                            *)

\* When a handler starts, some descriptor is free: there are as many as users,
\* and its own user has none.
LEMMA FreeDescriptor ==
  ASSUME TypeOK, NEW u \in Users, u \notin Connected
  PROVE  LET free == (1 .. Cardinality(Users)) \ {socket[v] : v \in Connected}
         IN  Min(free) \in free
<1> DEFINE taken == {socket[v] : v \in Connected}
           free  == (1 .. Cardinality(Users)) \ taken
<1>1. IsFiniteSet(Users) /\ Cardinality(Users) \in Nat
  BY ChatAssumption, FS_CardinalityType
<1>2. IsFiniteSet(Connected) /\ Cardinality(Connected) <= Cardinality(Users) - 1
  <2>1. Connected \subseteq Users \ {u}
    BY DEF Connected
  <2>2. /\ IsFiniteSet(Users \ {u})
        /\ Cardinality(Users \ {u}) = Cardinality(Users) - 1
    BY <1>1, FS_RemoveElement
  <2>3. /\ IsFiniteSet(Connected)
        /\ Cardinality(Connected) <= Cardinality(Users \ {u})
    BY <2>1, <2>2, FS_Subset
  <2> QED BY <2>2, <2>3
<1>3. IsFiniteSet(taken) /\ Cardinality(taken) <= Cardinality(Connected)
  <2>1. [v \in Connected |-> socket[v]] \in Surjection(Connected, taken)
    BY DEF Surjection
  <2> QED BY <1>2, <2>1, FS_Surjection
<1>4. ASSUME free = {} PROVE FALSE
  <2>1. 1 .. Cardinality(Users) \subseteq taken
    BY <1>4
  <2>2. Cardinality(1 .. Cardinality(Users)) = Cardinality(Users)
    <3>1. Cardinality(1 .. Cardinality(Users)) =
            IF 1 > Cardinality(Users) THEN 0 ELSE Cardinality(Users) - 1 + 1
      BY <1>1, FS_Interval
    <3> QED BY <1>1, <3>1
  <2>3. Cardinality(1 .. Cardinality(Users)) <= Cardinality(taken)
    BY <1>3, <2>1, FS_Subset
  <2>4. Cardinality(Connected) \in Nat /\ Cardinality(taken) \in Nat
    BY <1>2, <1>3, FS_CardinalityType
  <2> QED BY <1>1, <1>2, <1>3, <2>2, <2>3, <2>4
<1>5. PICK m \in free : \A x \in free : m <= x
  <2>1. free \subseteq Nat
    BY <1>1
  <2> HIDE DEF free
  <2> QED BY <1>4, <2>1, LeastElement
<1> HIDE DEF free
<1>6. Min(free) \in free
  BY <1>5 DEF Min
<1> QED BY <1>6 DEF free

-----------------------------------------------------------------------------
(* Steps.                                                                  *)

\* What a step of one handler or client leaves alone of the others.
Elsewhere(u) ==
  \A w \in Users \ {u} :
    /\ pc'[w] = pc[w] /\ message'[w] = message[w] /\ socket'[w] = socket[w]
    /\ item'[w] = item[w] /\ reached'[w] = reached[w] /\ user'[w] = user[w]

\* The other walks go on as they were.
LEMMA WalksStay ==
  ASSUME ChatInv, NEW u \in Users, Elsewhere(u), clients' = clients,
         Members' = Members, socket'[u] = socket[u] \/ u \notin Members,
         NEW v \in Users \ {u}, pc[v] = "telling"
  PROVE  reached'[v] = ToTell(v)' \cap InFront(v)'
<1>1. Leaving(v)' <=> Leaving(v)
  BY DEF Elsewhere, Leaving
<1>2. \A w \in Members : w \in Users /\ socket'[w] = socket[w]
  BY DEF Elsewhere, Members
<1>3. ToTell(v)' = ToTell(v)
  <2>1. socket'[v] = socket[v]
    BY DEF Elsewhere
  <2> QED BY <1>1, <1>2, <2>1 DEF ToTell
<1>4. InFront(v)' = InFront(v)
  BY DEF InFront, Elsewhere
<1>5. reached'[v] = reached[v] /\ reached[v] = ToTell(v) \cap InFront(v)
  BY DEF Elsewhere, ChatInv, Walks
<1> QED BY <1>3, <1>4, <1>5

\* A step that leaves the vector and the members alone keeps the invariant if
\* what it does for its own handler does.
LEMMA OwnStep ==
  ASSUME ChatInv, TypeOK', NEW u \in Users, Elsewhere(u), clients' = clients,
         u \in Members' <=> u \in Members,
         socket'[u] = socket[u] \/ u \notin Members,
         user'[u] = "start" => pc'[u] = "none",
         Leaving(u)' => pc'[u] \in {"tell", "telling"},
         pc'[u] = "telling" => item'[u] # 0,
         u \in Connected' => \A v \in Connected \ {u} : socket'[u] # socket[v],
         server' = "up" =>
           /\ server = "up"
           /\ \A v \in Users \ {u} :
                /\ pc'[u] \in Writing => pc[v] \notin Writing \cup Reading
                /\ pc'[u] \in Reading => pc[v] \notin Writing,
         pc'[u] = "telling" => reached'[u] = ToTell(u)' \cap InFront(u)'
  PROVE  ChatInv'
<1>1. Members' = Members
  <2>1. \A w \in Users \ {u} : w \in Members' <=> w \in Members
    BY DEF Members, Leaving, Elsewhere
  <2>2. Members \subseteq Users /\ Members' \subseteq Users
    BY DEF Members
  <2> QED BY <2>1, <2>2
<1>2. Stages'
  BY DEF ChatInv, Stages, Elsewhere, Leaving
<1>3. SocketsApart'
  <2>1. \A w \in Users \ {u} : w \in Connected' <=> w \in Connected
    BY DEF Connected, Leaving, Elsewhere
  <2>2. Connected \subseteq Users /\ Connected' \subseteq Users
    BY DEF Connected
  <2>3. ASSUME NEW v \in Connected', NEW w \in Connected', v # w
        PROVE  socket'[v] # socket'[w]
    <3>1. CASE v # u /\ w # u
      <4>1. v \in Connected /\ w \in Connected
        BY <2>1, <2>2, <3>1
      <4> QED BY <2>2, <2>3, <3>1, <4>1 DEF ChatInv, SocketsApart, Elsewhere
    <3>2. CASE v = u \/ w = u
      <4>1. \A x \in Connected' \ {u} : x \in Connected \ {u}
                                        /\ socket'[x] = socket[x]
        BY <2>1, <2>2 DEF Elsewhere
      <4> QED BY <2>3, <3>2, <4>1
    <3> QED BY <3>1, <3>2
  <2> QED BY <2>3 DEF SocketsApart
<1>4. Listed'
  <2>1. \A w \in Members : socket'[w] = socket[w]
    BY DEF Members, Elsewhere
  <2> QED BY <1>1, <2>1 DEF ChatInv, Listed
<1>5. WritersAlone'
  BY DEF ChatInv, WritersAlone, Elsewhere
<1>6. Walks'
  <2> SUFFICES ASSUME NEW v \in Users, pc'[v] = "telling"
               PROVE  reached'[v] = ToTell(v)' \cap InFront(v)'
    BY DEF Walks
  <2>1. CASE v = u
    BY <2>1
  <2>2. CASE v # u
    <3>1. pc[v] = "telling"
      BY <2>2 DEF Elsewhere
    <3> QED BY <1>1, <2>2, <3>1, WalksStay
  <2> QED BY <2>1, <2>2
<1> QED BY <1>2, <1>3, <1>4, <1>5, <1>6 DEF ChatInv


\* The invariant holds at the start.
LEMMA ChatInit == Init => ChatInv
<1> SUFFICES ASSUME Init PROVE ChatInv
  OBVIOUS
<1>1. TypeOK /\ \A u \in Users : pc[u] = "none" /\ message[u] = <<>>
  BY DEF Init, TypeOK, Items, Places
<1>2. clients = <<>> /\ Len(clients) = 0
  BY DEF Init
<1>3. Connected = {} /\ Members = {}
  BY <1>1 DEF Connected, Members
<1> QED
  BY <1>1, <1>2, <1>3
  DEF ChatInv, Stages, SocketsApart, Listed, WritersAlone, Walks, Leaving,
      Writing

\* A message that starts with something else is not "left".
LEMMA NotLeft ==
  ASSUME NEW m \in Seq(Texts \cup {"name"})
  PROVE  m # <<"left">>
<1> SUFFICES ASSUME m = <<"left">> PROVE FALSE
  OBVIOUS
<1>1. Len(m) = 1 /\ m[1] = "left"
  OBVIOUS
<1>2. m[1] \in Texts \cup {"name"}
  BY <1>1
<1> QED BY <1>1, <1>2, ChatAssumption

\* The clients' own steps.
LEMMA ClientStep ==
  ASSUME ChatInv, NEW u \in Users, SendName(u) \/ SendLine(u) \/ Kill(u)
  PROVE  ChatInv'
<1> DEFINE Said1 == Texts \cup {"name"}
           Says   == stream' \in [Users -> Seq(Said1)]
           Goes   == /\ user' \in [Users -> {"start", "name", "talk", "gone"}]
                     /\ user'[u] # "start"
                     /\ \A w \in Users \ {u} : user'[w] = user[w]
<1>7. TypeOK
  BY DEF ChatInv
<1>8. ASSUME NEW text \in Said1, SendOf(u, text) PROVE Says
  <2>1. Append(stream[u], text) \in Seq(Said1)
    BY <1>7 DEF TypeOK
  <2> QED BY <1>7, <1>8, <2>1 DEF SendOf, TypeOK
<1>9. Leaves(u) => Goes
  BY <1>7 DEF Leaves, TypeOK
<1>10. Says /\ Goes /\ UNCHANGED <<server, clients, pc, socket, walkVars>>
  <2>1. CASE SendName(u)
    <3>1. Goes /\ SendOf(u, "name")
      BY <1>7, <2>1 DEF SendName, TypeOK
    <3> QED BY <1>8, <2>1, <3>1 DEF SendName
  <2>2. CASE SendLine(u)
    <3>1. Says
      BY <1>8, <2>2 DEF SendLine
    <3>2. user[u] = "talk" /\ (Leaves(u) \/ UNCHANGED user)
      BY <2>2 DEF SendLine
    <3>3. Goes
      BY <1>7, <1>9, <3>2 DEF TypeOK
    <3> QED BY <2>2, <3>1, <3>3 DEF SendLine
  <2>3. CASE Kill(u)
    <3>1. Says
      BY <1>7, <2>3 DEF Kill, TypeOK
    <3> QED BY <1>9, <2>3, <3>1 DEF Kill
  <2> QED BY <2>1, <2>2, <2>3
<1>1. /\ UNCHANGED <<server, clients, pc, socket, walkVars>>
      /\ user'[u] # "start" /\ \A w \in Users \ {u} : user'[w] = user[w]
      /\ TypeOK'
  BY <1>7, <1>10 DEF TypeOK, walkVars
<1>2. \A w \in Users : Leaving(w)' <=> Leaving(w)
  BY <1>1 DEF Leaving, walkVars
<1>3. Members' = Members /\ Connected' = Connected
  BY <1>1, <1>2 DEF Members, Connected
<1>4. Elsewhere(u)
  BY <1>1 DEF Elsewhere, walkVars
<1>5. pc[u] = "telling" => reached'[u] = ToTell(u)' \cap InFront(u)'
  BY <1>1, <1>2, <1>3
  DEF ChatInv, Walks, ToTell, InFront, walkVars
<1>6. /\ Leaving(u)' => pc'[u] \in {"tell", "telling"}
      /\ pc'[u] = "telling" => item'[u] # 0
      /\ u \in Connected' =>
           \A v \in Connected \ {u} : socket'[u] # socket[v]
      /\ server' = "up" =>
           /\ server = "up"
           /\ \A v \in Users \ {u} :
                /\ pc'[u] \in Writing => pc[v] \notin Writing \cup Reading
                /\ pc'[u] \in Reading => pc[v] \notin Writing
  BY <1>1, <1>2, <1>3
  DEF ChatInv, Stages, SocketsApart, WritersAlone, Writing, Reading, walkVars
<1> QED BY <1>1, <1>3, <1>4, <1>5, <1>6, OwnStep

\* A connection is accepted: its descriptor is free.
LEMMA AcceptStep ==
  ASSUME ChatInv, NEW u \in Users, Accept(u)
  PROVE  ChatInv'
<1> DEFINE free == (1 .. Cardinality(Users)) \ {socket[v] : v \in Connected}
<1>1. /\ pc[u] = "none" /\ ~Leaving(u) /\ u \notin Connected
      /\ u \notin Members
  BY DEF Accept, ChatInv, Stages, Connected, Members
<1>2. Min(free) \in free
  BY <1>1, FreeDescriptor DEF ChatInv
<1>3. /\ server = "up" /\ user' = [user EXCEPT ![u] = "name"]
      /\ pc' = [pc EXCEPT ![u] = "name"]
      /\ socket' = [socket EXCEPT ![u] = Min(free)]
      /\ UNCHANGED <<server, clients, message, item, reached, stream>>
  BY DEF Accept, walkVars
<1> HIDE DEF free
<1>4. Min(free) \in Int
  BY <1>2 DEF free
<1>5. /\ TypeOK' /\ pc'[u] = "name" /\ socket'[u] = Min(free)
      /\ user'[u] = "name" /\ Elsewhere(u)
  BY <1>3, <1>4 DEF ChatInv, TypeOK, Places, Elsewhere
<1>6. ~Leaving(u)' /\ u \notin Members'
  BY <1>1, <1>3, <1>5 DEF Leaving, Members
<1>7. \A v \in Connected : socket'[u] # socket[v]
  BY <1>2, <1>5 DEF free
<1> QED
  BY <1>1, <1>3, <1>5, <1>6, <1>7, OwnStep DEF Writing, Reading

\* What a step of a handler that leaves the vector alone must see to.
Keeps(u, l) ==
  /\ server = "up" /\ pc' = [pc EXCEPT ![u] = l]
  /\ server' \in {"up", "dead", "undefined"}
  /\ UNCHANGED <<clients, socket, user>>
  /\ l \in Places \ {"none"}
  /\ message' \in [Users -> Seq(Said)]
  /\ \A w \in Users \ {u} : message'[w] = message[w]
  /\ item' \in [Users -> Nat]
  /\ \A w \in Users \ {u} : item'[w] = item[w]
  /\ reached' \in [Users -> SUBSET Users]
  /\ \A w \in Users \ {u} : reached'[w] = reached[w]
  /\ stream' \in [Users -> Seq(Texts \cup {"name"})]
  /\ u \in Members' <=> u \in Members
  /\ u \in Connected' => u \in Connected
  /\ Leaving(u)' => l \in {"tell", "telling"}
  /\ l \in Writing \cup Reading =>
       \/ l = pc[u]
       \/ server' = "up" =>
            \A v \in Users \ {u} :
              pc[v] \notin IF l \in Writing THEN Writing \cup Reading ELSE Writing
  /\ l = "telling" => item'[u] # 0
  /\ l = "telling" => reached'[u] = ToTell(u)' \cap InFront(u)'

LEMMA KeepsInv ==
  ASSUME ChatInv, NEW u \in Users, NEW l, pc[u] # "none", Keeps(u, l)
  PROVE  ChatInv'
<1>1. TypeOK'
  BY DEF Keeps, ChatInv, TypeOK
<1>2. Elsewhere(u)
  BY DEF Keeps, Elsewhere, ChatInv, TypeOK
<1>3. pc'[u] = l /\ socket'[u] = socket[u] /\ user'[u] = user[u]
  BY DEF Keeps, ChatInv, TypeOK
<1>4. user'[u] # "start"
  BY <1>3 DEF ChatInv, Stages
<1>5. u \in Connected' => \A v \in Connected \ {u} : socket'[u] # socket[v]
  BY <1>3 DEF Keeps, ChatInv, SocketsApart
<1>6. server' = "up" =>
        /\ server = "up"
        /\ \A v \in Users \ {u} :
             /\ pc'[u] \in Writing => pc[v] \notin Writing \cup Reading
             /\ pc'[u] \in Reading => pc[v] \notin Writing
  BY <1>3 DEF Keeps, ChatInv, WritersAlone, Writing, Reading
<1>7. /\ Leaving(u)' => pc'[u] \in {"tell", "telling"}
      /\ pc'[u] = "telling" => item'[u] # 0
      /\ pc'[u] = "telling" => reached'[u] = ToTell(u)' \cap InFront(u)'
      /\ u \in Members' <=> u \in Members
      /\ clients' = clients
  BY <1>3 DEF Keeps
<1> QED BY <1>1, <1>2, <1>3, <1>4, <1>5, <1>6, <1>7, OwnStep

\* The members' descriptors are open and their own.
LEMMA OwnersAlone ==
  ASSUME ChatInv
  PROVE  /\ Members \subseteq Connected
         /\ \A v \in Connected : Owner(socket[v]) = {v}
<1>1. Members \subseteq Connected
  BY DEF Members, Connected
<1>2. ASSUME NEW v \in Connected PROVE Owner(socket[v]) = {v}
  BY DEF ChatInv, SocketsApart, Owner
<1> QED BY <1>1, <1>2

\* One item of a walk: its owner is told unless the descriptors are the same.
LEMMA SendItemStep ==
  ASSUME ChatInv, NEW u \in Users, SendItem(u)
  PROVE  Keeps(u, "telling")
<1> DEFINE v == clients[item[u]].owner
<1>0. TypeOK
  BY DEF ChatInv
<1>1. /\ pc[u] = "telling" /\ server = "up" /\ pc' = pc /\ item[u] # 0
      /\ item[u] \in 1 .. Len(clients)
      /\ item' = [item EXCEPT ![u] = @ + 1] /\ item'[u] = item[u] + 1
      /\ UNCHANGED <<clients, socket, message, user, stream>>
  BY <1>0 DEF SendItem, Goto, SendTo, ChatInv, TypeOK, Stages, userVars
<1>2. v \in Members /\ clients[item[u]].socket = socket[v]
  BY <1>1 DEF ChatInv, Listed
<1>3. v \in Connected /\ v \in Users /\ Owner(socket[v]) = {v}
  BY <1>2, OwnersAlone DEF Connected
<1> HIDE DEF v
<1>4. \/ /\ socket[v] = socket[u] /\ reached' = reached /\ server' = server
      \/ /\ socket[v] # socket[u] /\ server' \in {server, "dead"}
         /\ reached' = [reached EXCEPT ![u] = @ \cup {v}]
  BY <1>2, <1>3 DEF SendItem, SendTo, userVars
<1>5. /\ Leaving(u)' <=> Leaving(u)
      /\ Members' = Members /\ Connected' = Connected
  BY <1>1 DEF Leaving, Members, Connected
<1>6. ToTell(u)' = ToTell(u)
  BY <1>1, <1>5 DEF ToTell
<1>7. InFront(u)' = InFront(u) \cup {v}
  <2>1. {j \in 1 .. Len(clients) : j < item[u] + 1} =
          {j \in 1 .. Len(clients) : j < item[u]} \cup {item[u]}
    BY <1>0, <1>1 DEF TypeOK
  <2> QED BY <1>1, <2>1 DEF InFront, v
<1>8. v \in ToTell(u) <=> socket[v] # socket[u]
  <2>1. ~Leaving(u) => u \in Members
    BY <1>1 DEF Members
  <2>2. ~Leaving(u) /\ v # u => socket[v] # socket[u]
    <3>1. ~Leaving(u) => u \in Connected
      BY <2>1, OwnersAlone
    <3> QED BY <1>3, <3>1 DEF ChatInv, SocketsApart
  <2> QED BY <1>2, <2>2 DEF ToTell
<1>9. reached[u] = ToTell(u) \cap InFront(u)
  BY <1>1 DEF ChatInv, Walks
<1>10. reached'[u] = ToTell(u)' \cap InFront(u)'
  BY <1>0, <1>4, <1>6, <1>7, <1>8, <1>9 DEF TypeOK
<1>15. item[u] + 1 \in Nat /\ reached[u] \cup {v} \in SUBSET Users
  BY <1>0, <1>3 DEF TypeOK
<1>16. /\ reached' \in [Users -> SUBSET Users]
       /\ \A w \in Users \ {u} : reached'[w] = reached[w]
  BY <1>0, <1>4, <1>15 DEF TypeOK
<1>17. pc' = [pc EXCEPT ![u] = "telling"]
  BY <1>0, <1>1 DEF TypeOK
<1>11. /\ item' \in [Users -> Nat] /\ \A w \in Users \ {u} : item'[w] = item[w]
       /\ reached' \in [Users -> SUBSET Users]
       /\ \A w \in Users \ {u} : reached'[w] = reached[w]
       /\ pc' = [pc EXCEPT ![u] = "telling"]
  BY <1>0, <1>1, <1>15, <1>16, <1>17 DEF TypeOK
<1>12. Leaving(u)' => "telling" \in {"tell", "telling"}
  OBVIOUS
<1>13. server' \in {"up", "dead", "undefined"}
  BY <1>1, <1>4
<1>14. item'[u] # 0
  BY <1>0, <1>1 DEF TypeOK
<1> QED
  BY <1>0, <1>1, <1>5, <1>10, <1>11, <1>13, <1>14 DEF Keeps, TypeOK, Places

\* The other steps of a handler that leave the vector alone.
LEMMA HandlerKeeps ==
  ASSUME ChatInv, NEW u \in Users,
         \/ Name(u) \/ NoName(u) \/ PushBegin(u) \/ Tell(u) \/ Told(u)
         \/ Line(u) \/ End(u) \/ ListBegin(u) \/ List(u) \/ EraseBegin(u)
         \/ Close(u)
  PROVE  pc[u] # "none" /\ \E l \in Places : Keeps(u, l)
<1>0. TypeOK /\ Stages
  BY DEF ChatInv
<1> USE <1>0 DEF TypeOK, Goto, Recv, userVars, walkVars
<1>1. CASE Name(u) \/ Line(u)
  <2>1. stream[u] \in Seq(Texts \cup {"name"}) /\ stream[u] \in Seq(Said)
    BY DEF Said
  <2>2. stream[u] # <<"left">>
    BY <2>1, NotLeft
  <2>3. <<>> \in Seq(Texts \cup {"name"})
    OBVIOUS
  <2>4. ~Leaving(u)
    BY <1>1 DEF Stages, Name, Line
  <2>5. ~Leaving(u)'
    BY <1>1, <2>2 DEF Name, Line, Leaving
  <2>6. CASE Name(u)
    <3>1. Keeps(u, "push")
      BY <2>1, <2>3, <2>4, <2>5, <2>6
      DEF Name, Keeps, Members, Connected, Places, Writing, Reading
    <3> QED BY <2>6, <3>1 DEF Name, Places
  <2>7. CASE Line(u)
    <3> DEFINE l == CASE stream[u] = <<"/exit">> -> "erase"
                      [] stream[u] = <<"/list">> -> "list"
                      [] OTHER -> "tell"
    <3>0. Goto(u, l)
      BY <2>7, Zenon DEF Line
    <3>1. l \in {"erase", "list", "tell"}
      OBVIOUS
    <3> HIDE DEF l
    <3>2. Keeps(u, l)
      BY <2>1, <2>3, <2>4, <2>5, <2>7, <3>0, <3>1
      DEF Line, Keeps, Members, Connected, Places, Writing, Reading
    <3> QED BY <2>7, <3>1, <3>2 DEF Line, Places
  <2> QED BY <1>1, <2>6, <2>7
<1>2. CASE NoName(u)
  <2>1. ~Leaving(u) /\ ~Leaving(u)'
    BY <1>2 DEF NoName, Stages, Leaving
  <2>2. Keeps(u, "end")
    BY <1>2, <2>1
    DEF NoName, Keeps, Members, Connected, Places, Writing, Reading
  <2> QED BY <1>2, <2>2 DEF NoName, Places
<1>3. CASE End(u)
  <2>1. ~Leaving(u) /\ ~Leaving(u)'
    BY <1>3 DEF End, Stages, Leaving
  <2>2. Keeps(u, "erase")
    BY <1>3, <2>1
    DEF End, Keeps, Members, Connected, Places, Writing, Reading
  <2> QED BY <1>3, <2>2 DEF End, Places
<1>4. CASE PushBegin(u)
  <2>1. ~Leaving(u) /\ ~Leaving(u)'
    BY <1>4 DEF PushBegin, Stages, Leaving
  <2>2. Keeps(u, "pushing")
    BY <1>4, <2>1
    DEF PushBegin, Begin, Keeps, Members, Connected, Places, Writing, Reading
  <2> QED BY <1>4, <2>2 DEF PushBegin, Places
<1>5. CASE ListBegin(u)
  <2>1. ~Leaving(u) /\ ~Leaving(u)'
    BY <1>5 DEF ListBegin, Stages, Leaving
  <2>2. Keeps(u, "listing")
    BY <1>5, <2>1
    DEF ListBegin, Begin, Keeps, Members, Connected, Places, Writing, Reading
  <2> QED BY <1>5, <2>2 DEF ListBegin, Places
<1>6. CASE EraseBegin(u)
  <2>1. ~Leaving(u) /\ ~Leaving(u)'
    BY <1>6 DEF EraseBegin, Stages, Leaving
  <2>2. Keeps(u, "erasing")
    BY <1>6, <2>1
    DEF EraseBegin, Begin, Keeps, Members, Connected, Places, Writing, Reading
  <2> QED BY <1>6, <2>2 DEF EraseBegin, Places
<1>7. CASE Tell(u)
  <2>1. Leaving(u)' <=> Leaving(u)
    BY <1>7 DEF Tell, Leaving
  <2>2. item'[u] = 1 /\ reached'[u] = {}
    BY <1>7 DEF Tell
  <2>3. InFront(u)' = {}
    BY <2>2 DEF InFront
  <2>4. Keeps(u, "telling")
    BY <1>7, <2>1, <2>2, <2>3
    DEF Tell, Begin, Keeps, Members, Connected, Places, Writing, Reading
  <2> QED BY <1>7, <2>4 DEF Tell, Places
<1>8. CASE Told(u)
  <2>1. PICK l \in {"end", "loop"} : Goto(u, l) /\ (l = "end" <=> Leaving(u))
    BY <1>8 DEF Told
  <2>2. message'[u] = <<>> /\ <<>> \in Seq(Said)
    BY <1>8 DEF Told
  <2>3. ~Leaving(u)'
    BY <2>2 DEF Leaving
  <2>4. Keeps(u, l)
    BY <1>8, <2>1, <2>2, <2>3
    DEF Told, Keeps, Members, Connected, Places, Writing, Reading
  <2> QED BY <1>8, <2>4 DEF Told, Places
<1>9. CASE List(u)
  <2>1. server' \in {"up", "dead"} /\ UNCHANGED <<user, stream>>
    BY <1>9 DEF List, SendTo
  <2>2. message'[u] = <<>> /\ <<>> \in Seq(Said)
    BY <1>9 DEF List
  <2>3. ~Leaving(u) /\ ~Leaving(u)'
    BY <1>9, <2>2 DEF List, Stages, Leaving
  <2>4. Keeps(u, "loop")
    BY <1>9, <2>1, <2>2, <2>3
    DEF List, Keeps, Members, Connected, Places, Writing, Reading
  <2> QED BY <1>9, <2>4 DEF List, Places
<1>10. CASE Close(u)
  <2>1. <<"left">> \in Seq(Said)
    BY DEF Said
  <2>2. ~Leaving(u) /\ Leaving(u)'
    BY <1>10 DEF Close, Stages, Leaving
  <2>3. Keeps(u, "tell")
    BY <1>10, <2>1, <2>2
    DEF Close, Keeps, Members, Connected, Places, Writing, Reading
  <2> QED BY <1>10, <2>3 DEF Close, Places
<1> QED
  BY <1>1, <1>2, <1>3, <1>4, <1>5, <1>6, <1>7, <1>8, <1>9, <1>10

\* A handler adds its user to the vector: nobody else uses it.
LEMMA PushStep ==
  ASSUME ChatInv, NEW u \in Users, Push(u)
  PROVE  ChatInv'
<1> DEFINE new == [username |-> message[u], socket |-> socket[u], owner |-> u]
           n   == Len(clients)
<1>0. TypeOK
  BY DEF ChatInv
<1>1. /\ server = "up" /\ pc[u] = "pushing" /\ pc' = [pc EXCEPT ![u] = "tell"]
      /\ clients' = Append(clients, new)
      /\ message' = [message EXCEPT ![u] = <<"joined">>]
      /\ UNCHANGED <<server, socket, item, reached, user, stream>>
  BY DEF Push, Goto, userVars
<1>2. new \in Items
  BY <1>0 DEF TypeOK, Items
<1>3. /\ clients' \in Seq(Items) /\ Len(clients') = n + 1 /\ n \in Nat
      /\ clients'[n + 1] = new /\ \A k \in 1 .. n : clients'[k] = clients[k]
  BY <1>0, <1>1, <1>2 DEF TypeOK
<1>4. new.owner = u /\ new.socket = socket[u]
  OBVIOUS
<1> HIDE DEF new
<1>5. <<"joined">> \in Seq(Said)
  BY DEF Said
<1>6. TypeOK'
  BY <1>0, <1>1, <1>3, <1>5 DEF TypeOK, Places
<1>7. ~Leaving(u) /\ ~Leaving(u)'
  BY <1>0, <1>1 DEF ChatInv, Stages, Leaving, TypeOK
<1>8. \A w \in Users \ {u} : (Leaving(w)' <=> Leaving(w)) /\ pc'[w] = pc[w]
  BY <1>0, <1>1 DEF Leaving, TypeOK
<1>9. pc'[u] = "tell"
  BY <1>0, <1>1 DEF TypeOK
<1>10. u \notin Members /\ Members' = Members \cup {u} /\ Connected' = Connected
  BY <1>1, <1>7, <1>8, <1>9 DEF Members, Connected
<1>11. Stages'
  BY <1>1, <1>7, <1>8, <1>9 DEF ChatInv, Stages
<1>12. SocketsApart'
  BY <1>1, <1>10 DEF ChatInv, SocketsApart
<1>13. Listed'
  <2>1. \A k \in 1 .. n + 1 : k \in 1 .. n \/ k = n + 1
    BY <1>3
  <2>2. \A k \in 1 .. n + 1 : /\ clients'[k].owner \in Members'
                              /\ clients'[k].socket = socket'[clients'[k].owner]
    BY <1>1, <1>3, <1>4, <1>10, <2>1 DEF ChatInv, Listed
  <2>3. \A w \in Members' : \E k \in 1 .. n + 1 : clients'[k].owner = w
    <3>1. n + 1 \in 1 .. n + 1 /\ 1 .. n \subseteq 1 .. n + 1
      BY <1>3
    <3> QED BY <1>3, <1>4, <1>10, <3>1 DEF ChatInv, Listed
  <2>4. \A j, k \in 1 .. n + 1 : clients'[j].owner = clients'[k].owner => j = k
    BY <1>3, <1>4, <1>10, <2>1 DEF ChatInv, Listed
  <2> QED BY <1>3, <2>2, <2>3, <2>4 DEF Listed
<1>14. \A w \in Users \ {u} : pc[w] \notin Writing \cup Reading
  BY <1>1 DEF ChatInv, WritersAlone, Writing
<1>15. WritersAlone'
  BY <1>8, <1>9, <1>14 DEF WritersAlone, Writing, Reading
<1>16. Walks'
  BY <1>8, <1>9, <1>14 DEF Walks, Reading
<1> QED BY <1>6, <1>11, <1>12, <1>13, <1>15, <1>16 DEF ChatInv

\* A handler takes its user out of the vector: the others stay.
LEMMA EraseStep ==
  ASSUME ChatInv, NEW u \in Users, Erase(u)
  PROVE  ChatInv'
<1> DEFINE n == Len(clients)
<1>0. TypeOK
  BY DEF ChatInv
<1>1. /\ server = "up" /\ pc[u] = "erasing" /\ pc' = [pc EXCEPT ![u] = "close"]
      /\ clients' = Others(socket[u])
      /\ UNCHANGED <<server, socket, message, item, reached, user, stream>>
  BY DEF Erase, Goto, userVars, walkVars
<1>2. \A w \in Users : Leaving(w)' <=> Leaving(w)
  BY <1>1 DEF Leaving
<1>3. ~Leaving(u) /\ u \in Members
  BY <1>1 DEF ChatInv, Stages, Members
<1>4. PICK p \in 1 .. n : clients[p].owner = u
  BY <1>3 DEF ChatInv, Listed
<1>5. \A k \in 1 .. n : clients[k].socket = socket[u] <=> k = p
  <2>1. ASSUME NEW k \in 1 .. n PROVE clients[k].socket = socket[u] <=> k = p
    <3>1. clients[k].owner \in Connected /\ u \in Connected
      BY <1>3, OwnersAlone DEF ChatInv, Listed
    <3>2. clients[k].socket = socket[clients[k].owner]
      BY DEF ChatInv, Listed
    <3>3. clients[k].owner = u <=> socket[clients[k].owner] = socket[u]
      BY <3>1 DEF ChatInv, SocketsApart
    <3>4. clients[k].owner = u <=> k = p
      BY <1>4 DEF ChatInv, Listed
    <3> QED BY <3>2, <3>3, <3>4
  <2> QED BY <2>1
<1>6. clients' = Part(clients, p, n)
  BY <1>0, <1>1, <1>5, OthersLeft DEF TypeOK
<1>7. /\ n \in Nat /\ n - 1 \in Nat
      /\ clients' = [j \in 1 .. n - 1 |-> Item(clients, p, j)]
  BY <1>0, <1>6 DEF TypeOK, Part
<1>8. \A j \in 1 .. n - 1 : Item(clients, p, j) \in Items
  BY <1>0 DEF TypeOK, Item
<1>9. /\ clients' \in Seq(Items) /\ Len(clients') = n - 1
      /\ \A j \in 1 .. n - 1 : clients'[j] = Item(clients, p, j)
  BY <1>7, <1>8
<1>10. TypeOK'
  BY <1>0, <1>1, <1>9 DEF TypeOK, Places
<1>11. pc'[u] = "close" /\ \A w \in Users \ {u} : pc'[w] = pc[w]
  BY <1>0, <1>1 DEF TypeOK
<1>12. Members' = Members \ {u} /\ Connected' = Connected
  BY <1>1, <1>2, <1>3, <1>11 DEF Members, Connected
<1>13. Stages'
  BY <1>1, <1>2, <1>3, <1>11 DEF ChatInv, Stages
<1>14. SocketsApart'
  BY <1>1, <1>12 DEF ChatInv, SocketsApart
<1>15. Listed'
  <2> DEFINE old(j) == IF j < p THEN j ELSE j + 1
  <2>1. \A j \in 1 .. n - 1 : /\ old(j) \in 1 .. n /\ old(j) # p
                              /\ clients'[j] = clients[old(j)]
    BY <1>7, <1>9 DEF Item
  <2>2. \A i, j \in 1 .. n - 1 : old(i) = old(j) => i = j
    BY <1>7
  <2>3. \A k \in 1 .. n : k # p => \E j \in 1 .. n - 1 : old(j) = k
    <3>1. ASSUME NEW k \in 1 .. n, k < p
          PROVE  \E j \in 1 .. n - 1 : old(j) = k
      BY <1>7, <3>1
    <3>2. ASSUME NEW k \in 1 .. n, k > p
          PROVE  \E j \in 1 .. n - 1 : old(j) = k
      <4>1. k - 1 \in 1 .. n - 1 /\ ~(k - 1 < p) /\ k - 1 + 1 = k
        BY <1>7, <3>2
      <4> QED BY <4>1
    <3> QED BY <3>1, <3>2
  <2> HIDE DEF old
  <2>4. \A k \in 1 .. n : clients[k].owner = u => k = p
    BY <1>4 DEF ChatInv, Listed
  <2>5. \A j \in 1 .. n - 1 : /\ clients'[j].owner \in Members'
                              /\ clients'[j].socket = socket'[clients'[j].owner]
    BY <1>1, <1>12, <2>1, <2>4 DEF ChatInv, Listed
  <2>6. \A w \in Members' : \E j \in 1 .. n - 1 : clients'[j].owner = w
    <3> SUFFICES ASSUME NEW w \in Members'
                 PROVE  \E j \in 1 .. n - 1 : clients'[j].owner = w
      OBVIOUS
    <3>1. PICK k \in 1 .. n : clients[k].owner = w
      BY <1>12 DEF ChatInv, Listed
    <3>2. k # p
      BY <1>4, <1>12, <3>1
    <3>3. PICK j \in 1 .. n - 1 : old(j) = k
      BY <2>3, <3>2
    <3> QED BY <2>1, <3>1, <3>3
  <2>7. \A i, j \in 1 .. n - 1 : clients'[i].owner = clients'[j].owner => i = j
    BY <2>1, <2>2 DEF ChatInv, Listed
  <2> QED BY <1>9, <2>5, <2>6, <2>7 DEF Listed
<1>16. \A w \in Users \ {u} : pc[w] \notin Writing \cup Reading
  BY <1>1 DEF ChatInv, WritersAlone, Writing
<1>17. WritersAlone'
  BY <1>11, <1>16 DEF WritersAlone, Writing, Reading
<1>18. Walks'
  BY <1>11, <1>16 DEF Walks, Reading
<1> QED BY <1>10, <1>13, <1>14, <1>15, <1>17, <1>18 DEF ChatInv

\* Every step keeps the invariant.
LEMMA ChatInvariant == Spec => []ChatInv
<1>1. ChatInv /\ [Next]_vars => ChatInv'
  <2> SUFFICES ASSUME ChatInv, [Next]_vars PROVE ChatInv'
    OBVIOUS
  <2>1. CASE UNCHANGED vars
    BY <2>1
    DEF vars, userVars, walkVars, ChatInv, TypeOK, Stages, SocketsApart,
        Listed, WritersAlone, Walks, Leaving, Connected, Members, ToTell,
        InFront
  <2>2. ASSUME NEW u \in Users, Handler(u) PROVE ChatInv'
    <3>1. CASE Push(u)
      BY <3>1, PushStep
    <3>2. CASE Erase(u)
      BY <3>2, EraseStep
    <3>3. CASE SendItem(u)
      <4>1. pc[u] # "none"
        BY <3>3 DEF SendItem
      <4> QED BY <3>3, <4>1, SendItemStep, KeepsInv
    <3>4. CASE \/ Name(u) \/ NoName(u) \/ PushBegin(u) \/ Tell(u) \/ Told(u)
               \/ Line(u) \/ End(u) \/ ListBegin(u) \/ List(u)
               \/ EraseBegin(u) \/ Close(u)
      BY <3>4, HandlerKeeps, KeepsInv
    <3> QED BY <2>2, <3>1, <3>2, <3>3, <3>4 DEF Handler
  <2> QED BY <2>1, <2>2, AcceptStep, ClientStep DEF Next
<1> QED BY ChatInit, <1>1, PTL DEF Spec

-----------------------------------------------------------------------------
(* What follows.                                                           *)

\* Chat/server.cpp: whatever descriptors are closed and used again, the vector
\* holds exactly the members, each once, with its own open descriptor.
THEOREM ListIsRight == Spec => []ListRight
<1>1. ChatInv => ListRight
  <2> SUFFICES ASSUME ChatInv PROVE ListRight
    OBVIOUS
  <2> DEFINE owners == [k \in 1 .. Len(clients) |-> clients[k].owner]
  <2>1. Len(clients) \in Nat /\ DOMAIN clients = 1 .. Len(clients)
    BY DEF ChatInv, TypeOK
  <2>2. {clients[k].owner : k \in DOMAIN clients} = Members
    BY <2>1 DEF ChatInv, Listed
  <2>3. Len(clients) = Cardinality(Members)
    <3>1. owners \in Bijection(1 .. Len(clients), Members)
      BY DEF ChatInv, Listed, Bijection, Injection, Surjection, IsInjective
    <3>2. ExistsBijection(1 .. Len(clients), Members)
      BY <3>1 DEF ExistsBijection
    <3>3. /\ IsFiniteSet(1 .. Len(clients))
          /\ Cardinality(1 .. Len(clients)) =
               IF 1 > Len(clients) THEN 0 ELSE Len(clients) - 1 + 1
      BY <2>1, FS_Interval
    <3>4. Cardinality(1 .. Len(clients)) = Len(clients)
      BY <2>1, <3>3
    <3> QED BY <3>2, <3>3, <3>4, FS_Bijection
  <2>4. \A k \in DOMAIN clients :
          /\ clients[k].socket = socket[clients[k].owner]
          /\ Owner(clients[k].socket) = {clients[k].owner}
    BY <2>1, OwnersAlone DEF ChatInv, Listed
  <2> QED BY <2>2, <2>3, <2>4 DEF ListRight
<1> QED BY <1>1, ChatInvariant, PTL

\* Chat/server.cpp, send_messages: a walk that is done has sent to every other
\* member, but for the newcomer that has the descriptor of who left.
THEOREM EveryoneIsTold == Spec => []EveryoneTold
<1>1. ChatInv => EveryoneTold
  <2> SUFFICES ASSUME ChatInv, NEW u \in Users,
                      pc[u] = "telling", item[u] > Len(clients)
               PROVE  reached[u] = ToTell(u)
    BY DEF EveryoneTold, ToTell
  <2>1. Len(clients) \in Nat /\ item[u] \in Nat
    BY DEF ChatInv, TypeOK
  <2>2. Members \subseteq InFront(u)
    BY <2>1 DEF ChatInv, Listed, InFront
  <2>3. ToTell(u) \subseteq Members
    BY DEF ToTell
  <2> QED BY <2>2, <2>3 DEF ChatInv, Walks
<1> QED BY <1>1, ChatInvariant, PTL
=============================================================================

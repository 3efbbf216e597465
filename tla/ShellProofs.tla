----------------------------- MODULE ShellProofs -----------------------------
(***************************************************************************)
(* Proofs about the shell: whatever is typed, its loop executes the words  *)
(* of the line as the commands and operators that the user meant.          *)
(***************************************************************************)
EXTENDS Shell, FiniteSetTheorems, WellFoundedInduction, TLAPS

-----------------------------------------------------------------------------
(* Numbers.                                                                *)

\* A set of natural numbers has a least element.
LEMMA LeastElement ==
  ASSUME NEW S, S \subseteq Nat, S # {}
  PROVE  \E m \in S : \A x \in S : m <= x
<1>1. PICK m \in S : \A x \in S : ~(<<x, m>> \in OpToRel(<, Nat))
  BY NatLessThanWellFounded, WFMin
<1>2. \A x \in S : m <= x
  <2>1. ASSUME NEW x \in S, x < m PROVE FALSE
    <3>1. <<x, m>> \in OpToRel(<, Nat)
      BY <2>1 DEF OpToRel
    <3> QED BY <1>1, <3>1
  <2> QED BY <2>1
<1> QED BY <1>2

\* Induction, for a set of natural numbers.
LEMMA AllOfNat ==
  ASSUME NEW S, 0 \in S, \A m \in Nat : m \in S => m + 1 \in S
  PROVE  Nat \subseteq S
<1> DEFINE Not == Nat \ S
<1> SUFFICES ASSUME Not # {} PROVE FALSE
  OBVIOUS
<1>1. PICK m \in Not : \A x \in Not : m <= x
  BY LeastElement
<1>2. m # 0
  OBVIOUS
<1> PICK k \in Nat : m = k + 1
  BY <1>2
<1>3. k \in S
  BY <1>1
<1> QED BY <1>3


-----------------------------------------------------------------------------
(* Shell: the words of a line, and the children that count.                *)

\* Where the elements of two sequences are in their concatenation.
LEMMA Concatenated ==
  ASSUME NEW S, NEW s \in Seq(S), NEW t \in Seq(S)
  PROVE  /\ s \o t \in Seq(S) /\ Len(s \o t) = Len(s) + Len(t)
         /\ Len(s) \in Nat /\ Len(t) \in Nat
         /\ \A i \in 1 .. Len(s) : (s \o t)[i] = s[i]
         /\ \A i \in 1 .. Len(t) : (s \o t)[Len(s) + i] = t[i]
  OBVIOUS

\* f is the concatenation of the first i of some sequences, for i up to m.
Joins(f, parts, m) ==
  /\ f[1] = parts[1]
  /\ \A i \in 1 .. m - 1 : f[i + 1] = f[i] \o parts[i + 1]

\* Such a walk over the parts exists, each of its values a sequence.
LEMMA JoinsExist ==
  ASSUME NEW S, NEW parts \in Seq(Seq(S)), NEW m \in 1 .. Len(parts)
  PROVE  \E f \in [1 .. m -> Seq(S)] : Joins(f, parts, m)
<1> DEFINE Good == {i \in Nat : i \in 1 .. Len(parts) =>
                      \E f \in [1 .. i -> Seq(S)] : Joins(f, parts, i)}
<1>1. 0 \in Good
  OBVIOUS
<1>2. ASSUME NEW i \in Nat, i \in Good PROVE i + 1 \in Good
  <2> SUFFICES ASSUME i + 1 \in 1 .. Len(parts)
               PROVE  \E f \in [1 .. i + 1 -> Seq(S)] : Joins(f, parts, i + 1)
    OBVIOUS
  <2>0. parts[i + 1] \in Seq(S)
    OBVIOUS
  <2>1. CASE i = 0
    <3> DEFINE f == [x \in 1 .. 1 |-> parts[1]]
    <3>1. f \in [1 .. 1 -> Seq(S)] /\ \A x \in 1 .. 1 : f[x] = parts[1]
      BY <2>0, <2>1
    <3> HIDE DEF f
    <3>2. Joins(f, parts, 1)
      BY <3>1 DEF Joins
    <3> QED BY <2>1, <3>1, <3>2
  <2>2. CASE i # 0
    <3>1. i \in 1 .. Len(parts)
      BY <2>2
    <3> PICK g \in [1 .. i -> Seq(S)] : Joins(g, parts, i)
      BY <1>2, <3>1
    <3> DEFINE f == [x \in 1 .. i + 1 |->
                       IF x = i + 1 THEN g[i] \o parts[i + 1] ELSE g[x]]
    <3>2. g[i] \in Seq(S)
      BY <2>2
    <3>3. g[i] \o parts[i + 1] \in Seq(S)
      BY <2>0, <3>2
    <3>4. f \in [1 .. i + 1 -> Seq(S)]
      BY <3>3
    <3>a. i + 1 \in 1 .. i + 1 /\ \A x \in 1 .. i : x \in 1 .. i + 1 /\ x # i + 1
      OBVIOUS
    <3>5. /\ f[i + 1] = g[i] \o parts[i + 1]
          /\ \A x \in 1 .. i : f[x] = g[x]
      BY <3>a
    <3> HIDE DEF f
    <3>6. ASSUME NEW x \in 1 .. i PROVE f[x + 1] = f[x] \o parts[x + 1]
      <4>1. CASE x = i
        BY <3>5, <4>1
      <4>2. CASE x # i
        <5>1. x \in 1 .. i - 1 /\ x + 1 \in 1 .. i
          BY <4>2
        <5> QED BY <3>5, <5>1 DEF Joins
      <4> QED BY <4>1, <4>2
    <3>7. f[1] = parts[1] /\ (i + 1) - 1 = i
      BY <2>2, <3>5 DEF Joins
    <3>8. Joins(f, parts, i + 1)
      BY <3>6, <3>7 DEF Joins
    <3> QED BY <3>4, <3>8
  <2> QED BY <2>1, <2>2
<1> HIDE DEF Good
<1>3. m \in Nat /\ m \in 1 .. Len(parts)
  OBVIOUS
<1>4. m \in Good
  BY <1>3, <1>1, <1>2, AllOfNat
<1> QED BY <1>3, <1>4 DEF Good

\* What FlattenSeq chooses.
LEMMA FlattenJoins ==
  ASSUME NEW S, NEW parts \in Seq(Seq(S)), parts # <<>>
  PROVE  \E f : Joins(f, parts, Len(parts)) /\ FlattenSeq(parts) = f[Len(parts)]
<1> DEFINE Is(f) == f = [i \in 1 .. Len(parts) |->
                           IF i = 1 THEN parts[i] ELSE f[i - 1] \o parts[i]]
<1>1. Len(parts) \in 1 .. Len(parts)
  OBVIOUS
<1>2. \E f : Is(f)
  <2>1. PICK f \in [1 .. Len(parts) -> Seq(S)] : Joins(f, parts, Len(parts))
    BY <1>1, JoinsExist
  <2>2. ASSUME NEW i \in 1 .. Len(parts)
        PROVE  f[i] = IF i = 1 THEN parts[i] ELSE f[i - 1] \o parts[i]
    <3>1. CASE i = 1
      BY <2>1, <3>1 DEF Joins
    <3>2. CASE i # 1
      <4>1. PICK j \in 1 .. Len(parts) - 1 : i = j + 1 /\ j = i - 1
        BY <3>2
      <4>2. f[j + 1] = f[j] \o parts[j + 1]
        BY <2>1 DEF Joins
      <4> QED BY <3>2, <4>1, <4>2
    <3> QED BY <3>1, <3>2
  <2>3. Is(f)
    BY <2>2
  <2> QED BY <2>3
<1>3. PICK f : f = CHOOSE g : Is(g)
  OBVIOUS
<1>4. Is(f)
  BY <1>2, <1>3
<1>5. FlattenSeq(parts) = f[Len(parts)]
  <2>1. Len(parts) # 0
    OBVIOUS
  <2> QED BY <1>3, <2>1, Zenon DEF FlattenSeq
<1>6. Joins(f, parts, Len(parts))
  <2>1. \A i \in 1 .. Len(parts) :
          f[i] = IF i = 1 THEN parts[i] ELSE f[i - 1] \o parts[i]
    BY <1>4
  <2>2. ASSUME NEW j \in 1 .. Len(parts) - 1
        PROVE  f[j + 1] = f[j] \o parts[j + 1]
    <3>1. PICK i \in 1 .. Len(parts) : i = j + 1 /\ j = i - 1 /\ i # 1
      OBVIOUS
    <3>2. f[i] = f[i - 1] \o parts[i]
      BY <2>1, <3>1
    <3> QED BY <3>1, <3>2
  <2>3. f[1] = parts[1]
    BY <1>1, <2>1
  <2> QED BY <2>2, <2>3 DEF Joins
<1> QED BY <1>5, <1>6

\* The k-th of some sequences lies in their concatenation from at[k] on.
Lays(at, parts, whole) ==
  /\ \A k \in 1 .. Len(parts) + 1 : at[k] \in Nat
  /\ at[1] = 0 /\ at[Len(parts) + 1] = Len(whole)
  /\ \A k \in 1 .. Len(parts) : at[k + 1] = at[k] + Len(parts[k])
  /\ \A k \in 1 .. Len(parts) : \A i \in 1 .. Len(parts[k]) :
       at[k] + i \in 1 .. Len(whole) /\ whole[at[k] + i] = parts[k][i]

\* The flattened sequence has every part at its own place.
LEMMA FlattenLays ==
  ASSUME NEW S, NEW parts \in Seq(Seq(S)), parts # <<>>
  PROVE  /\ FlattenSeq(parts) \in Seq(S)
         /\ \E at : Lays(at, parts, FlattenSeq(parts))
<1> DEFINE n == Len(parts)
<1>0. n \in Nat \ {0}
  OBVIOUS
<1>1. PICK f : Joins(f, parts, n) /\ FlattenSeq(parts) = f[n]
  BY FlattenJoins
<1> DEFINE at == [k \in 1 .. n + 1 |-> IF k = 1 THEN 0 ELSE Len(f[k - 1])]
<1>2. \A k \in 1 .. n : parts[k] \in Seq(S)
  OBVIOUS
<1> HIDE DEF n
<1>3. \A k \in 1 .. n : f[k] \in Seq(S)
  <2> DEFINE Good == {i \in Nat : i \in 1 .. n => f[i] \in Seq(S)}
  <2>1. 0 \in Good
    OBVIOUS
  <2>2. ASSUME NEW i \in Nat, i \in Good PROVE i + 1 \in Good
    <3> SUFFICES ASSUME i + 1 \in 1 .. n PROVE f[i + 1] \in Seq(S)
      OBVIOUS
    <3>1. CASE i = 0
      BY <1>1, <1>2, <3>1 DEF Joins
    <3>2. CASE i # 0
      <4>1. f[i] \in Seq(S) /\ parts[i + 1] \in Seq(S)
        BY <1>0, <1>2, <2>2, <3>2
      <4>2. f[i + 1] = f[i] \o parts[i + 1]
        <5>1. i \in 1 .. n - 1
          BY <1>0, <3>2
        <5> QED BY <1>1, <5>1 DEF Joins
      <4> QED BY <4>1, <4>2
    <3> QED BY <3>1, <3>2
  <2> HIDE DEF Good
  <2>3. Nat \subseteq Good
    BY <2>1, <2>2, AllOfNat
  <2> QED BY <1>0, <2>3 DEF Good
<1>4. \A k \in 1 .. n : at[k + 1] = Len(f[k])
  BY <1>0
<1>5. at[1] = 0
  BY <1>0
<1>6. \A k \in 1 .. n + 1 : at[k] \in Nat
  BY <1>0, <1>3
<1> HIDE DEF at
<1>7. \A k \in 1 .. n :
        /\ at[k + 1] = at[k] + Len(parts[k])
        /\ \A i \in 1 .. Len(parts[k]) :
             at[k] + i \in 1 .. Len(f[k]) /\ f[k][at[k] + i] = parts[k][i]
  <2> TAKE k \in 1 .. n
  <2>1. CASE k = 1
    <3>1. f[k] = parts[k]
      BY <1>1, <2>1 DEF Joins
    <3> QED BY <1>2, <1>4, <1>5, <2>1, <3>1
  <2>2. CASE k # 1
    <3>2. PICK j \in 1 .. n - 1 : k = j + 1 /\ j \in 1 .. n
      BY <1>0, <2>2
    <3>1. f[k] = f[j] \o parts[k]
      BY <1>1, <3>2 DEF Joins
    <3>3. f[j] \in Seq(S) /\ parts[k] \in Seq(S) /\ at[k] = Len(f[j])
      BY <1>2, <1>3, <1>4, <3>2
    <3>4. at[k + 1] = Len(f[k])
      BY <1>4
    <3>5. /\ Len(f[k]) = Len(f[j]) + Len(parts[k])
          /\ Len(f[j]) \in Nat /\ Len(parts[k]) \in Nat
          /\ \A i \in 1 .. Len(parts[k]) : f[k][Len(f[j]) + i] = parts[k][i]
      <4>1. PICK a \in Seq(S), p \in Seq(S) : a = f[j] /\ p = parts[k]
        BY <3>3
      <4>2. /\ Len(a \o p) = Len(a) + Len(p)
            /\ Len(a) \in Nat /\ Len(p) \in Nat
            /\ \A i \in 1 .. Len(p) : (a \o p)[Len(a) + i] = p[i]
        BY Concatenated
      <4>3. f[k] = a \o p
        BY <3>1, <4>1
      <4> QED BY <4>1, <4>2, <4>3, Zenon
    <3>6. /\ Len(f[k]) = at[k] + Len(parts[k])
          /\ at[k] \in Nat /\ Len(parts[k]) \in Nat
      BY <3>3, <3>5, Zenon
    <3>7. \A i \in 1 .. Len(parts[k]) : at[k] + i \in 1 .. Len(f[k])
      BY <3>6
    <3> QED BY <3>3, <3>4, <3>5, <3>6, <3>7, Zenon
  <2> QED BY <2>1, <2>2
<1>8. ASSUME NEW k \in 1 .. n
      PROVE  \A m \in Nat : m \in k .. n =>
               /\ Len(f[k]) <= Len(f[m])
               /\ \A x \in 1 .. Len(f[k]) : f[m][x] = f[k][x]
  <2> DEFINE Good == {m \in Nat : m \in k .. n =>
                        /\ Len(f[k]) <= Len(f[m])
                        /\ \A x \in 1 .. Len(f[k]) : f[m][x] = f[k][x]}
  <2>1. 0 \in Good
    OBVIOUS
  <2>2. ASSUME NEW m \in Nat, m \in Good PROVE m + 1 \in Good
    <3> SUFFICES ASSUME m + 1 \in k .. n
                 PROVE  /\ Len(f[k]) <= Len(f[m + 1])
                        /\ \A x \in 1 .. Len(f[k]) : f[m + 1][x] = f[k][x]
      OBVIOUS
    <3>1. CASE m + 1 = k
      BY <1>3, <3>1
    <3>2. CASE m + 1 # k
      <4>1. m \in k .. n /\ m \in 1 .. n /\ m + 1 \in 1 .. n /\ m + 1 # 1
        BY <1>0, <3>2
      <4>2. /\ Len(f[k]) <= Len(f[m])
            /\ \A x \in 1 .. Len(f[k]) : f[m][x] = f[k][x]
        BY <2>2, <4>1
      <4>3. f[m + 1] = f[m] \o parts[m + 1]
        <5>1. m \in 1 .. n - 1
          BY <1>0, <4>1
        <5> QED BY <1>1, <5>1 DEF Joins
      <4>4. f[m] \in Seq(S) /\ parts[m + 1] \in Seq(S) /\ f[k] \in Seq(S)
        BY <1>2, <1>3, <4>1
      <4>5. /\ Len(f[m + 1]) = Len(f[m]) + Len(parts[m + 1])
            /\ Len(f[m]) \in Nat /\ Len(parts[m + 1]) \in Nat
            /\ \A x \in 1 .. Len(f[m]) : f[m + 1][x] = f[m][x]
        <5>1. PICK a \in Seq(S), p \in Seq(S) : a = f[m] /\ p = parts[m + 1]
          BY <4>4
        <5>2. /\ Len(a \o p) = Len(a) + Len(p)
              /\ Len(a) \in Nat /\ Len(p) \in Nat
              /\ \A i \in 1 .. Len(a) : (a \o p)[i] = a[i]
          BY Concatenated
        <5>3. f[m + 1] = a \o p
          BY <4>3, <5>1
        <5> QED BY <5>1, <5>2, <5>3, Zenon
      <4>6. Len(f[k]) \in Nat
        BY <4>4
      <4>7. Len(f[k]) <= Len(f[m])
        BY <4>2, Zenon
      <4>8. Len(f[k]) <= Len(f[m + 1])
        <5>1. PICK a \in Nat, b \in Nat, c \in Nat :
                a = Len(f[m]) /\ b = Len(parts[m + 1]) /\ c = Len(f[k])
          BY <4>5, <4>6, Zenon
        <5>2. Len(f[m + 1]) = a + b
          BY <4>5, <5>1, Zenon
        <5>3. c <= a
          BY <4>7, <5>1, Zenon
        <5>4. c <= a + b
          BY <5>3
        <5> QED BY <5>1, <5>2, <5>4, Zenon
      <4>9. \A x \in 1 .. Len(f[k]) : x \in 1 .. Len(f[m])
        <5>1. Len(f[k]) \in Nat /\ Len(f[m]) \in Nat
          BY <4>5, <4>6, Zenon
        <5> QED BY <4>7, <5>1
      <4> QED BY <4>2, <4>5, <4>8, <4>9, Zenon
    <3> QED BY <3>1, <3>2
  <2> HIDE DEF Good
  <2>3. Nat \subseteq Good
    BY <2>1, <2>2, AllOfNat
  <2> QED BY <2>3 DEF Good
<1>9. n \in 1 .. n /\ n \in Nat /\ \A k \in 1 .. n : n \in k .. n
  BY <1>0
<1>10. \A k \in 1 .. n : \A i \in 1 .. Len(parts[k]) :
         at[k] + i \in 1 .. Len(f[n]) /\ f[n][at[k] + i] = parts[k][i]
  <2> TAKE k \in 1 .. n
  <2> TAKE i \in 1 .. Len(parts[k])
  <2>1. at[k] + i \in 1 .. Len(f[k]) /\ f[k][at[k] + i] = parts[k][i]
    BY <1>7
  <2>2. /\ Len(f[k]) <= Len(f[n])
        /\ \A x \in 1 .. Len(f[k]) : f[n][x] = f[k][x]
    BY <1>8, <1>9
  <2>3. Len(f[k]) \in Nat /\ Len(f[n]) \in Nat
    BY <1>3, <1>9
  <2> QED BY <2>1, <2>2, <2>3
<1>11. Lays(at, parts, f[n])
  BY <1>4, <1>5, <1>6, <1>7, <1>9, <1>10 DEF Lays, n
<1> QED BY <1>1, <1>3, <1>9, <1>11 DEF n

\* f holds those of the first k children that have something to execute, for k
\* up to m.
Counts(f, r, m) ==
  /\ f[0] = <<>>
  /\ \A k \in 0 .. m - 1 :
       f[k + 1] = IF r[k + 1].argv = <<>> THEN f[k] ELSE Append(f[k], r[k + 1])

\* Such a count of the children exists.
LEMMA CountsExist ==
  ASSUME NEW S, NEW r \in Seq(S), NEW m \in 0 .. Len(r)
  PROVE  \E f \in [0 .. m -> Seq(S)] : Counts(f, r, m)
<1> DEFINE Good == {i \in Nat : i \in 0 .. Len(r) =>
                      \E f \in [0 .. i -> Seq(S)] : Counts(f, r, i)}
<1>1. 0 \in Good
  <2>1. [x \in 0 .. 0 |-> <<>>] \in [0 .. 0 -> Seq(S)]
    OBVIOUS
  <2>2. Counts([x \in 0 .. 0 |-> <<>>], r, 0)
    BY DEF Counts
  <2> QED BY <2>1, <2>2
<1>2. ASSUME NEW i \in Nat, i \in Good PROVE i + 1 \in Good
  <2> SUFFICES ASSUME i + 1 \in 0 .. Len(r)
               PROVE  \E f \in [0 .. i + 1 -> Seq(S)] : Counts(f, r, i + 1)
    OBVIOUS
  <2>1. i \in 0 .. Len(r)
    OBVIOUS
  <2> PICK g \in [0 .. i -> Seq(S)] : Counts(g, r, i)
    BY <1>2, <2>1
  <2> DEFINE next == IF r[i + 1].argv = <<>> THEN g[i] ELSE Append(g[i], r[i + 1])
             f == [x \in 0 .. i + 1 |-> IF x = i + 1 THEN next ELSE g[x]]
  <2>2. next \in Seq(S)
    <3>1. g[i] \in Seq(S) /\ r[i + 1] \in S
      OBVIOUS
    <3>2. Append(g[i], r[i + 1]) \in Seq(S)
      BY <3>1
    <3> QED BY <3>1, <3>2
  <2> HIDE DEF next
  <2>3. f \in [0 .. i + 1 -> Seq(S)]
    BY <2>2
  <2>4. i + 1 \in 0 .. i + 1
        /\ \A x \in 0 .. i : x \in 0 .. i + 1 /\ x # i + 1
    OBVIOUS
  <2>5. f[i + 1] = next /\ \A x \in 0 .. i : f[x] = g[x]
    BY <2>4
  <2> HIDE DEF f
  <2>6. ASSUME NEW x \in 0 .. i
        PROVE  f[x + 1] = IF r[x + 1].argv = <<>> THEN f[x]
                          ELSE Append(f[x], r[x + 1])
    <3>1. CASE x = i
      BY <2>5, <3>1 DEF next
    <3>2. CASE x # i
      <4>1. x \in 0 .. i - 1 /\ x + 1 \in 0 .. i
        BY <3>2
      <4> QED BY <2>5, <4>1 DEF Counts
    <3> QED BY <3>1, <3>2
  <2>7. f[0] = <<>> /\ (i + 1) - 1 = i
    BY <2>5 DEF Counts
  <2>8. Counts(f, r, i + 1)
    BY <2>6, <2>7 DEF Counts
  <2> QED BY <2>3, <2>8
<1> HIDE DEF Good
<1>3. m \in Nat /\ m \in 0 .. Len(r)
  OBVIOUS
<1>4. m \in Good
  BY <1>1, <1>2, <1>3, AllOfNat
<1> QED BY <1>3, <1>4 DEF Good

\* What Executed chooses.
LEMMA ExecutedCounts ==
  ASSUME NEW S, NEW r \in Seq(S)
  PROVE  \E f : Counts(f, r, Len(r)) /\ Executed(r) = f[Len(r)]
<1> DEFINE Is(f) == f = [k \in 0 .. Len(r) |->
                           IF k = 0 THEN <<>>
                           ELSE IF r[k].argv = <<>> THEN f[k - 1]
                           ELSE Append(f[k - 1], r[k])]
<1>1. \E f : Is(f)
  <2>1. Len(r) \in 0 .. Len(r)
    OBVIOUS
  <2>2. PICK f \in [0 .. Len(r) -> Seq(S)] : Counts(f, r, Len(r))
    BY <2>1, CountsExist
  <2>3. ASSUME NEW k \in 0 .. Len(r)
        PROVE  f[k] = IF k = 0 THEN <<>>
                      ELSE IF r[k].argv = <<>> THEN f[k - 1]
                      ELSE Append(f[k - 1], r[k])
    <3>1. CASE k = 0
      BY <2>2, <3>1 DEF Counts
    <3>2. CASE k # 0
      <4>1. PICK j \in 0 .. Len(r) - 1 : k = j + 1 /\ j = k - 1
        BY <3>2
      <4>2. f[j + 1] = IF r[j + 1].argv = <<>> THEN f[j]
                       ELSE Append(f[j], r[j + 1])
        BY <2>2 DEF Counts
      <4> QED BY <3>2, <4>1, <4>2
    <3> QED BY <3>1, <3>2
  <2>4. Is(f)
    BY <2>3
  <2> QED BY <2>4
<1>2. PICK f : f = CHOOSE g : Is(g)
  OBVIOUS
<1>3. Is(f)
  BY <1>1, <1>2
<1>4. Executed(r) = f[Len(r)]
  BY <1>2, Zenon DEF Executed
<1>5. Counts(f, r, Len(r))
  <2>1. \A k \in 0 .. Len(r) :
          f[k] = IF k = 0 THEN <<>>
                 ELSE IF r[k].argv = <<>> THEN f[k - 1]
                 ELSE Append(f[k - 1], r[k])
    BY <1>3
  <2>2. ASSUME NEW j \in 0 .. Len(r) - 1
        PROVE  f[j + 1] = IF r[j + 1].argv = <<>> THEN f[j]
                          ELSE Append(f[j], r[j + 1])
    <3>1. PICK k \in 0 .. Len(r) : k = j + 1 /\ j = k - 1 /\ k # 0
      OBVIOUS
    <3>2. f[k] = IF r[k].argv = <<>> THEN f[k - 1] ELSE Append(f[k - 1], r[k])
      BY <2>1, <3>1
    <3> QED BY <3>1, <3>2
  <2>3. f[0] = <<>>
    BY <2>1
  <2> QED BY <2>2, <2>3 DEF Counts
<1> QED BY <1>4, <1>5

\* It depends on the children before only.
LEMMA CountsAgree ==
  ASSUME NEW S, NEW r \in Seq(S), NEW q \in Seq(S), NEW f, NEW g,
         NEW m \in Nat, m <= Len(r), m <= Len(q), Counts(f, r, m), Counts(g, q, m),
         \A k \in 1 .. m : r[k] = q[k]
  PROVE  f[m] = g[m] /\ f[m] \in Seq(S)
<1> DEFINE Good == {i \in Nat : i <= m => f[i] = g[i] /\ f[i] \in Seq(S)}
<1>1. 0 \in Good
  <2>1. f[0] = <<>> /\ g[0] = <<>>
    BY DEF Counts
  <2>2. f[0] \in Seq(S)
    BY <2>1
  <2> QED BY <2>1, <2>2
<1>2. ASSUME NEW i \in Nat, i \in Good PROVE i + 1 \in Good
  <2> SUFFICES ASSUME i + 1 <= m
               PROVE  f[i + 1] = g[i + 1] /\ f[i + 1] \in Seq(S)
    OBVIOUS
  <2>1. f[i] = g[i] /\ f[i] \in Seq(S)
    BY <1>2
  <2>2. i \in 0 .. m - 1 /\ i + 1 \in 1 .. m /\ i + 1 \in 1 .. Len(r)
    OBVIOUS
  <2>3. /\ f[i + 1] = IF r[i + 1].argv = <<>> THEN f[i]
                      ELSE Append(f[i], r[i + 1])
        /\ g[i + 1] = IF q[i + 1].argv = <<>> THEN g[i]
                      ELSE Append(g[i], q[i + 1])
    BY <2>2 DEF Counts
  <2>4. r[i + 1] = q[i + 1] /\ r[i + 1] \in S
    BY <2>2
  <2>5. f[i + 1] = g[i + 1]
    BY <2>1, <2>3, <2>4
  <2>6. Append(f[i], r[i + 1]) \in Seq(S)
    BY <2>1, <2>4
  <2> QED BY <2>1, <2>3, <2>5, <2>6
<1> HIDE DEF Good
<1>3. m \in Good
  BY <1>1, <1>2, AllOfNat
<1> QED BY <1>3 DEF Good

\* One more child counts when it has something to execute.
LEMMA OneMoreChild ==
  ASSUME NEW S, NEW r \in Seq(S), NEW child \in S
  PROVE  /\ Executed(r) \in Seq(S)
         /\ Executed(Append(r, child)) =
              IF child.argv = <<>> THEN Executed(r)
              ELSE Append(Executed(r), child)
<1> DEFINE m == Len(r)
<1>1. PICK q \in Seq(S) : q = Append(r, child)
  <2>1. Append(r, child) \in Seq(S)
    OBVIOUS
  <2> QED BY <2>1
<1>2. /\ m \in Nat /\ Len(q) = m + 1 /\ q[m + 1] = child
      /\ \A k \in 1 .. m : q[k] = r[k]
  BY <1>1
<1>3. PICK f : Counts(f, r, m) /\ Executed(r) = f[m]
  BY ExecutedCounts
<1>4. PICK g : Counts(g, q, Len(q)) /\ Executed(q) = g[Len(q)]
  BY ExecutedCounts
<1> HIDE DEF m
<1>5. Counts(g, q, m)
  <2>1. \A k \in 0 .. m - 1 : k \in 0 .. Len(q) - 1
    BY <1>2
  <2> QED BY <1>4, <2>1 DEF Counts
<1>6. f[m] = g[m] /\ f[m] \in Seq(S)
  <2>1. m <= Len(r) /\ m <= Len(q)
    BY <1>2 DEF m
  <2>2. \A k \in 1 .. m : r[k] = q[k]
    BY <1>2
  <2> QED BY <1>2, <1>3, <1>5, <2>1, <2>2, CountsAgree
<1>7. g[m + 1] = IF q[m + 1].argv = <<>> THEN g[m] ELSE Append(g[m], q[m + 1])
  <2>1. m \in 0 .. Len(q) - 1
    BY <1>2
  <2> QED BY <1>4, <2>1 DEF Counts
<1> QED BY <1>1, <1>2, <1>3, <1>4, <1>6, <1>7

\* Nothing is executed before the first child.
LEMMA NoChildren == Executed(<<>>) = <<>>
<1>1. PICK r \in Seq({}) : r = <<>> /\ Len(r) = 0
  <2>1. <<>> \in Seq({}) /\ Len(<<>>) = 0
    OBVIOUS
  <2> QED BY <2>1
<1>2. PICK f : Counts(f, r, Len(r)) /\ Executed(r) = f[Len(r)]
  BY ExecutedCounts
<1> QED BY <1>1, <1>2 DEF Counts

\* Short sequences.
LEMMA Single ==
  ASSUME NEW S, NEW x \in S, NEW s, s = <<x>>
  PROVE  s \in Seq(S) /\ Len(s) = 1 /\ s[1] = x
  OBVIOUS

\* A sequence of two.
LEMMA Pair ==
  ASSUME NEW S, NEW x \in S, NEW y \in S, NEW s, s = <<x, y>>
  PROVE  s \in Seq(S) /\ Len(s) = 2 /\ s[1] = x /\ s[2] = y
  OBVIOUS

\* The empty sequence.
LEMMA NoWords ==
  ASSUME NEW S, NEW s, s = <<>>
  PROVE  s \in Seq(S) /\ Len(s) = 0
  OBVIOUS

\* The number of words of command k, with its redirection.
Extent(l, k) == LET c == l.commands[k]
                IN  IF c.redirect = "none" THEN Len(c.words) ELSE Len(c.words) + 2

\* Where a part of a line has what.
HasParts(l, k, c) ==
  /\ Part(l, k) \in Seq(Words) /\ Len(c.words) \in Nat \ {0}
  /\ \A i \in 1 .. Len(c.words) : Part(l, k)[i] = c.words[i]
  /\ c.redirect # "none" =>
       /\ Part(l, k)[Len(c.words) + 1] = c.redirect
       /\ Part(l, k)[Len(c.words) + 2] = c.file
  /\ Extent(l, k) =
       IF c.redirect = "none" THEN Len(c.words) ELSE Len(c.words) + 2
  /\ k < Len(l.commands) =>
       /\ Len(Part(l, k)) = Extent(l, k) + 1
       /\ Part(l, k)[Extent(l, k) + 1] = l.operators[k]
  /\ k = Len(l.commands) =>
       IF l.semicolon
       THEN /\ Len(Part(l, k)) = Extent(l, k) + 1
            /\ Part(l, k)[Extent(l, k) + 1] = ";"
       ELSE Len(Part(l, k)) = Extent(l, k)

\* A part of a line: the words of its command, its redirection, its end.
LEMMA PartIs ==
  ASSUME NEW l, IsLine(l), NEW k \in 1 .. Len(l.commands), NEW c, c = l.commands[k]
  PROVE  HasParts(l, k, c)
<1> DEFINE w == Len(c.words)
           e == IF c.redirect = "none" THEN w ELSE w + 2
           file == IF c.redirect = "none" THEN <<>> ELSE <<c.redirect, c.file>>
           op == IF k <= Len(l.operators) THEN <<l.operators[k]>>
                 ELSE IF l.semicolon THEN <<";">> ELSE <<>>
           a == c.words \o file
<1>1. /\ l.commands \in Seq(Command) /\ l.operators \in Seq(Operators)
      /\ Len(l.operators) = Len(l.commands) - 1
      /\ c.words # <<>>
  BY DEF IsLine, Line
<1>2. /\ c.words \in Seq(Words)
      /\ c.redirect # "none" => c.redirect \in Words /\ c.file \in Words
  <2>1. c \in Command /\ (c.redirect # "none" => c.file \in Words)
    BY <1>1 DEF IsLine
  <2>2. c.words \in Seq(Texts) /\ c.redirect \in Redirects \cup {"none"}
    BY <2>1 DEF Command
  <2>3. Texts \subseteq Words /\ Redirects \subseteq Words
    BY DEF Words
  <2>4. c.words \in Seq(Words)
    BY <2>2, <2>3
  <2> QED BY <2>1, <2>2, <2>3, <2>4
<1>3. w \in Nat \ {0}
  BY <1>1, <1>2
<1>4. /\ file \in Seq(Words)
      /\ c.redirect = "none" => Len(file) = 0
      /\ c.redirect # "none" =>
           Len(file) = 2 /\ file[1] = c.redirect /\ file[2] = c.file
  <2>1. CASE c.redirect = "none"
    <3>1. file = <<>>
      BY <2>1
    <3> HIDE DEF file
    <3> QED BY <2>1, <3>1, NoWords
  <2>2. CASE c.redirect # "none"
    <3>1. PICK x \in Words, y \in Words : x = c.redirect /\ y = c.file
      BY <1>2, <2>2
    <3>2. file = <<x, y>>
      BY <2>2, <3>1
    <3> HIDE DEF file
    <3>3. /\ file \in Seq(Words) /\ Len(file) = 2
          /\ file[1] = x /\ file[2] = y
      BY <3>2, Pair
    <3> QED BY <2>2, <3>1, <3>3
  <2> QED BY <2>1, <2>2
<1>5. /\ op \in Seq(Words)
      /\ k < Len(l.commands) => Len(op) = 1 /\ op[1] = l.operators[k]
      /\ k = Len(l.commands) =>
           IF l.semicolon THEN Len(op) = 1 /\ op[1] = ";" ELSE Len(op) = 0
  <2>0. /\ Len(l.commands) \in Nat
        /\ k < Len(l.commands) <=> k <= Len(l.operators)
    BY <1>1
  <2>1. CASE k <= Len(l.operators)
    <3>1. PICK o \in Words : o = l.operators[k]
      <4>1. l.operators[k] \in Operators
        BY <1>1, <2>1
      <4> QED BY <4>1 DEF Words
    <3>2. op = <<o>>
      BY <2>1, <3>1
    <3> HIDE DEF op
    <3>3. op \in Seq(Words) /\ Len(op) = 1 /\ op[1] = o
      BY <3>2, Single
    <3>4. k # Len(l.commands)
      BY <2>0, <2>1
    <3> QED BY <3>1, <3>3, <3>4
  <2>2. CASE ~(k <= Len(l.operators)) /\ l.semicolon
    <3>2. op = <<";">>
      BY <2>2
    <3> HIDE DEF op
    <3>3. op \in Seq(Words) /\ Len(op) = 1 /\ op[1] = ";"
      <4>1. ";" \in Words
        BY DEF Words, Operators
      <4> QED BY <3>2, <4>1, Single
    <3> QED BY <2>0, <2>2, <3>3
  <2>3. CASE ~(k <= Len(l.operators)) /\ ~l.semicolon
    <3>2. op = <<>>
      BY <2>3
    <3> HIDE DEF op
    <3> QED BY <2>0, <2>3, <3>2, NoWords
  <2> QED BY <2>1, <2>2, <2>3
<1>6. Len(file) = e - w /\ e \in Nat /\ w <= e
  <2> PICK d : d = Len(file)
    OBVIOUS
  <2>1. IF c.redirect = "none" THEN d = 0 ELSE d = 2
    BY <1>4
  <2> HIDE DEF file
  <2> QED BY <1>3, <2>1
<1>7. Len(op) \in Nat
  BY <1>5
<1>8. Part(l, k) = a \o op
  BY DEF Part, WordsOf
<1> HIDE DEF file, op
<1>9. /\ a \in Seq(Words) /\ Len(a) = w + Len(file)
      /\ \A i \in 1 .. w : a[i] = c.words[i]
      /\ \A i \in 1 .. Len(file) : a[w + i] = file[i]
  <2>1. PICK s \in Seq(Words), t \in Seq(Words) : s = c.words /\ t = file
    BY <1>2, <1>4
  <2>2. /\ s \o t \in Seq(Words) /\ Len(s \o t) = Len(s) + Len(t)
        /\ \A i \in 1 .. Len(s) : (s \o t)[i] = s[i]
        /\ \A i \in 1 .. Len(t) : (s \o t)[Len(s) + i] = t[i]
    BY Concatenated
  <2> QED BY <2>1, <2>2, Zenon
<1> HIDE DEF a
<1>10. Len(a) = e
  BY <1>3, <1>6, <1>9
<1>11. /\ a \o op \in Seq(Words) /\ Len(a \o op) = e + Len(op)
       /\ \A i \in 1 .. e : (a \o op)[i] = a[i]
       /\ \A i \in 1 .. Len(op) : (a \o op)[e + i] = op[i]
  <2>1. PICK s \in Seq(Words), t \in Seq(Words) : s = a /\ t = op
    BY <1>5, <1>9
  <2>2. /\ s \o t \in Seq(Words) /\ Len(s \o t) = Len(s) + Len(t)
        /\ \A i \in 1 .. Len(s) : (s \o t)[i] = s[i]
        /\ \A i \in 1 .. Len(t) : (s \o t)[Len(s) + i] = t[i]
    BY Concatenated
  <2> QED BY <1>10, <2>1, <2>2, Zenon
<1> PICK p : p = a \o op
  OBVIOUS
<1>12. \A i \in 1 .. w : p[i] = c.words[i]
  <2>1. \A i \in 1 .. w : i \in 1 .. e
    BY <1>3
  <2> QED BY <1>9, <1>11, <2>1
<1>13. c.redirect # "none" => p[w + 1] = c.redirect /\ p[w + 2] = c.file
  <2> SUFFICES ASSUME c.redirect # "none"
               PROVE  p[w + 1] = c.redirect /\ p[w + 2] = c.file
    OBVIOUS
  <2>1. /\ w + 1 \in 1 .. e /\ w + 2 \in 1 .. e
        /\ Len(file) = 2 /\ 1 \in 1 .. 2 /\ 2 \in 1 .. 2
    BY <1>3, <1>4, <1>6
  <2>2. p[w + 1] = a[w + 1] /\ p[w + 2] = a[w + 2]
    BY <1>11, <2>1
  <2>3. a[w + 1] = file[1] /\ a[w + 2] = file[2]
    BY <1>9, <2>1
  <2> QED BY <1>4, <2>2, <2>3
<1>14. /\ k < Len(l.commands) => Len(p) = e + 1 /\ p[e + 1] = l.operators[k]
       /\ k = Len(l.commands) =>
            IF l.semicolon THEN Len(p) = e + 1 /\ p[e + 1] = ";" ELSE Len(p) = e
  <2>1. Len(op) = 1 => p[e + 1] = op[1] /\ Len(p) = e + 1
    BY <1>11
  <2>2. Len(op) = 0 => Len(p) = e
    BY <1>6, <1>11
  <2> QED BY <1>5, <2>1, <2>2
<1>15. Extent(l, k) = e
  BY DEF Extent
<1>16. p = Part(l, k) /\ p \in Seq(Words)
  BY <1>8, <1>11
<1>17. e = IF c.redirect = "none" THEN w ELSE w + 2
  OBVIOUS
<1> HIDE DEF e
<1> QED BY <1>3, <1>12, <1>13, <1>14, <1>15, <1>16, <1>17, Zenon DEF HasParts

\* The words of l that are left when those of command k up to the j-th, and all
\* before them, have been read.
Parts(l)   == [k \in 1 .. Len(l.commands) |-> Part(l, k)]
Starts(l)  == CHOOSE at : Lays(at, Parts(l), Split(l))
Rest(l, p) == SubSeq(Split(l), p + 1, Len(Split(l)))
From(l, k, j) == Rest(l, Starts(l)[k] + j)

\* Every part of a line is at its own place among its words.
LEMMA LineLays ==
  ASSUME NEW l, IsLine(l)
  PROVE  /\ Split(l) \in Seq(Words)
         /\ Lays(Starts(l), Parts(l), Split(l))
         /\ Len(Parts(l)) = Len(l.commands) /\ Len(l.commands) \in Nat \ {0}
<1>1. Len(l.commands) \in Nat \ {0}
  <2>1. /\ l.commands \in Seq(Command) /\ l.operators \in Seq(Operators)
        /\ Len(l.operators) = Len(l.commands) - 1
    BY DEF IsLine, Line
  <2> QED BY <2>1
<1>2. \A k \in 1 .. Len(l.commands) : Part(l, k) \in Seq(Words)
  BY PartIs DEF HasParts
<1>3. PICK ps \in Seq(Seq(Words)) : ps = Parts(l) /\ Len(ps) = Len(l.commands)
  <2>1. Parts(l) \in Seq(Seq(Words)) /\ Len(Parts(l)) = Len(l.commands)
    BY <1>1, <1>2 DEF Parts
  <2> QED BY <2>1
<1>4. ps # <<>>
  BY <1>1, <1>3
<1>5. Split(l) = FlattenSeq(ps)
  BY <1>3 DEF Split, Parts
<1>6. /\ FlattenSeq(ps) \in Seq(Words)
      /\ \E at : Lays(at, ps, FlattenSeq(ps))
  BY <1>4, FlattenLays
<1>7. Lays(Starts(l), Parts(l), Split(l))
  BY <1>3, <1>5, <1>6, Zenon DEF Starts
<1> QED BY <1>1, <1>3, <1>5, <1>6, <1>7

\* One word more has been read.
LEMMA RestStep ==
  ASSUME NEW S, NEW s \in Seq(S), NEW p \in Nat
  PROVE  /\ p < Len(s) =>
              /\ SubSeq(s, p + 1, Len(s)) # <<>>
              /\ Head(SubSeq(s, p + 1, Len(s))) = s[p + 1]
              /\ Tail(SubSeq(s, p + 1, Len(s))) = SubSeq(s, p + 1 + 1, Len(s))
         /\ p = Len(s) => SubSeq(s, p + 1, Len(s)) = <<>>
         /\ SubSeq(s, 1, Len(s)) = s
<1>1. ASSUME p < Len(s)
      PROVE  /\ SubSeq(s, p + 1, Len(s)) # <<>>
             /\ Head(SubSeq(s, p + 1, Len(s))) = s[p + 1]
             /\ Tail(SubSeq(s, p + 1, Len(s))) = SubSeq(s, p + 1 + 1, Len(s))
  <2>1. PICK t : t = SubSeq(s, p + 1, Len(s))
    OBVIOUS
  <2>2. /\ t \in Seq(S) /\ Len(t) = Len(s) - p
        /\ \A i \in 1 .. Len(s) - p : t[i] = s[p + i]
    BY <1>1, <2>1
  <2>3. t # <<>> /\ Head(t) = s[p + 1]
    BY <1>1, <2>2
  <2>4. PICK u : u = SubSeq(s, p + 1 + 1, Len(s))
    OBVIOUS
  <2>5. /\ u \in Seq(S) /\ Len(u) = Len(s) - p - 1
        /\ \A i \in 1 .. Len(s) - p - 1 : u[i] = s[p + 1 + i]
    BY <1>1, <2>4
  <2>6. PICK v : v = Tail(t)
    OBVIOUS
  <2>7. /\ v \in Seq(S) /\ Len(v) = Len(s) - p - 1
        /\ \A i \in 1 .. Len(s) - p - 1 : v[i] = t[i + 1]
    BY <1>1, <2>2, <2>3, <2>6
  <2>8. ASSUME NEW i \in 1 .. Len(s) - p - 1 PROVE v[i] = u[i]
    <3>1. /\ i + 1 \in 1 .. Len(s) - p /\ p + (i + 1) = p + 1 + i
      BY <1>1
    <3>2. v[i] = t[i + 1] /\ t[i + 1] = s[p + (i + 1)] /\ u[i] = s[p + 1 + i]
      BY <2>2, <2>5, <2>7, <3>1, Zenon
    <3> QED BY <3>1, <3>2, Zenon
  <2>9. u = v
    BY <2>5, <2>7, <2>8
  <2> QED BY <2>1, <2>3, <2>4, <2>6, <2>9
<1>2. p = Len(s) => SubSeq(s, p + 1, Len(s)) = <<>>
  OBVIOUS
<1>3. SubSeq(s, 1, Len(s)) = s
  OBVIOUS
<1> QED BY <1>1, <1>2, <1>3

\* One word of a part has been read; and after its last one, the next part.
LEMMA FromStep ==
  ASSUME NEW l, IsLine(l), NEW k \in 1 .. Len(l.commands)
  PROVE  /\ \A j \in 0 .. Len(Part(l, k)) - 1 :
              /\ From(l, k, j) # <<>>
              /\ Head(From(l, k, j)) = Part(l, k)[j + 1]
              /\ Tail(From(l, k, j)) = From(l, k, j + 1)
         /\ From(l, k, Len(Part(l, k))) =
              IF k < Len(l.commands) THEN From(l, k + 1, 0) ELSE <<>>
         /\ From(l, 1, 0) = Split(l)
<1>1. PICK s \in Seq(Words) : s = Split(l)
  BY LineLays
<1>2. PICK at, parts : /\ at = Starts(l) /\ parts = Parts(l) /\ Lays(at, parts, s)
                       /\ Len(parts) = Len(l.commands)
  BY <1>1, LineLays
<1>3. PICK p \in Seq(Words) : p = Part(l, k)
  <2>1. HasParts(l, k, l.commands[k])
    BY PartIs
  <2> QED BY <2>1 DEF HasParts
<1>3a. parts[k] = p
  BY <1>2, <1>3 DEF Parts
<1>4. PICK m \in Nat, n \in Nat : /\ m = Len(p) /\ n = Len(l.commands)
                               /\ n # 0
  BY <1>3, LineLays
<1>5. /\ at[k] \in Nat /\ at[k + 1] = at[k] + m
      /\ \A i \in 1 .. m : at[k] + i \in 1 .. Len(s) /\ s[at[k] + i] = p[i]
      /\ at[1] = 0 /\ at[n + 1] = Len(s)
  BY <1>2, <1>3a, <1>4 DEF Lays
<1>6. ASSUME NEW j \in 0 .. m - 1
      PROVE  /\ From(l, k, j) # <<>>
             /\ Head(From(l, k, j)) = p[j + 1]
             /\ Tail(From(l, k, j)) = From(l, k, j + 1)
  <2>1. PICK q \in Nat : q = at[k] + j
    BY <1>5
  <2>2. j + 1 \in 1 .. m /\ at[k] + (j + 1) = q + 1
    <3>1. PICK x \in Nat : x = at[k]
      BY <1>5
    <3>2. q = x + j
      BY <2>1, <3>1
    <3>3. j + 1 \in 1 .. m /\ x + (j + 1) = q + 1
      BY <3>2
    <3> QED BY <3>1, <3>3, Zenon
  <2>3. q + 1 \in 1 .. Len(s) /\ s[q + 1] = p[j + 1]
    <3>1. /\ at[k] + (j + 1) \in 1 .. Len(s)
          /\ s[at[k] + (j + 1)] = p[j + 1]
      BY <1>5, <2>2, Zenon
    <3> QED BY <2>2, <3>1, Zenon
  <2>4. q < Len(s)
    BY <2>3
  <2>5. /\ SubSeq(s, q + 1, Len(s)) # <<>>
        /\ Head(SubSeq(s, q + 1, Len(s))) = s[q + 1]
        /\ Tail(SubSeq(s, q + 1, Len(s))) = SubSeq(s, q + 1 + 1, Len(s))
    BY <2>4, RestStep
  <2>6. From(l, k, j) = SubSeq(s, q + 1, Len(s))
    BY <1>1, <1>2, <2>1 DEF From, Rest
  <2>7. From(l, k, j + 1) = SubSeq(s, q + 1 + 1, Len(s))
    <3>1. at[k] + (j + 1) = q + 1
      BY <2>2
    <3> QED BY <1>1, <1>2, <3>1, Zenon DEF From, Rest
  <2> QED BY <2>3, <2>5, <2>6, <2>7, Zenon
<1>7. From(l, k, m) = IF k < n THEN From(l, k + 1, 0) ELSE <<>>
  <2>1. PICK q \in Nat : q = at[k + 1] /\ q + 0 = q /\ q = at[k] + m
    BY <1>4, <1>5
  <2>2. From(l, k, m) = SubSeq(s, q + 1, Len(s))
    BY <1>1, <1>2, <2>1, Zenon DEF From, Rest
  <2>3. From(l, k + 1, 0) = SubSeq(s, q + 1, Len(s))
    BY <1>1, <1>2, <2>1, Zenon DEF From, Rest
  <2>4. ~(k < n) => q = Len(s)
    <3>1. ~(k < n) => k + 1 = n + 1
      BY <1>4
    <3> QED BY <1>5, <2>1, <3>1
  <2>5. q = Len(s) => SubSeq(s, q + 1, Len(s)) = <<>>
    BY RestStep
  <2> QED BY <2>2, <2>3, <2>4, <2>5, Zenon
<1>8. From(l, 1, 0) = Split(l)
  <2>1. at[1] + 0 = 0 /\ 0 + 1 = 1
    BY <1>5
  <2>2. From(l, 1, 0) = SubSeq(s, 1, Len(s))
    BY <1>1, <1>2, <2>1, Zenon DEF From, Rest
  <2> QED BY <1>1, <2>2, RestStep
<1> QED BY <1>3, <1>4, <1>6, <1>7, <1>8

\* What the loop meets, word by word.
Meets(l, k, c) ==
  /\ Len(c.words) \in Nat \ {0}
  /\ \A j \in 0 .. Len(c.words) - 1 :
       /\ From(l, k, j) # <<>> /\ Head(From(l, k, j)) = c.words[j + 1]
       /\ Tail(From(l, k, j)) = From(l, k, j + 1)
  /\ c.redirect # "none" =>
       /\ From(l, k, Len(c.words)) # <<>>
       /\ Head(From(l, k, Len(c.words))) = c.redirect
       /\ Tail(From(l, k, Len(c.words))) = From(l, k, Len(c.words) + 1)
       /\ From(l, k, Len(c.words) + 1) # <<>>
       /\ Head(From(l, k, Len(c.words) + 1)) = c.file
       /\ Tail(From(l, k, Len(c.words) + 1)) = From(l, k, Extent(l, k))
  /\ k < Len(l.commands) =>
       /\ From(l, k, Extent(l, k)) # <<>>
       /\ Head(From(l, k, Extent(l, k))) = l.operators[k]
       /\ Tail(From(l, k, Extent(l, k))) = From(l, k + 1, 0)
  /\ k = Len(l.commands) =>
       IF l.semicolon
       THEN /\ From(l, k, Extent(l, k)) # <<>>
            /\ Head(From(l, k, Extent(l, k))) = ";"
            /\ Tail(From(l, k, Extent(l, k))) = <<>>
       ELSE From(l, k, Extent(l, k)) = <<>>

\* What the loop meets at each place of a part.
LEMMA WalkMeets ==
  ASSUME NEW l, IsLine(l), NEW k \in 1 .. Len(l.commands), NEW c, c = l.commands[k]
  PROVE  Meets(l, k, c)
<1>1. PICK w, e, p, n : /\ w = Len(c.words) /\ e = Extent(l, k)
                        /\ p = Part(l, k) /\ n = Len(l.commands)
  OBVIOUS
<1>0. HasParts(l, k, c)
  BY PartIs
<1>2. /\ \A i \in 1 .. w : p[i] = c.words[i]
      /\ c.redirect # "none" => p[w + 1] = c.redirect /\ p[w + 2] = c.file
      /\ k < n => p[e + 1] = l.operators[k]
      /\ k = n => (l.semicolon => p[e + 1] = ";")
  BY <1>0, <1>1, Zenon DEF HasParts
<1>3. PICK m : m = Len(p)
  OBVIOUS
<1>3a. /\ n \in Nat /\ n # 0 /\ k \in 1 .. n
       /\ m \in Nat /\ w \in Nat /\ w # 0
  <2>1. p \in Seq(Words) /\ w \in Nat \ {0}
    BY <1>0, <1>1, Zenon DEF HasParts
  <2> QED BY <1>1, <1>3, <2>1, LineLays
<1>3b. /\ c.redirect = "none" => e = w
       /\ c.redirect # "none" => e = w + 2
       /\ k < n => m = e + 1
       /\ k = n => (l.semicolon => m = e + 1) /\ (~l.semicolon => m = e)
  BY <1>0, <1>1, <1>3, Zenon DEF HasParts
<1>4. /\ \A j \in 0 .. m - 1 :
              /\ From(l, k, j) # <<>>
              /\ Head(From(l, k, j)) = p[j + 1]
              /\ Tail(From(l, k, j)) = From(l, k, j + 1)
      /\ From(l, k, m) = IF k < n THEN From(l, k + 1, 0) ELSE <<>>
  BY <1>1, <1>3, FromStep
<1>5. e \in Nat /\ w <= e /\ e <= m
  BY <1>3a, <1>3b
<1>6. ASSUME NEW j \in 0 .. w - 1
      PROVE  /\ From(l, k, j) # <<>> /\ Head(From(l, k, j)) = c.words[j + 1]
             /\ Tail(From(l, k, j)) = From(l, k, j + 1)
  <2>1. j \in 0 .. m - 1 /\ j + 1 \in 1 .. w
    BY <1>3a, <1>5
  <2> QED BY <1>2, <1>4, <2>1
<1>7. ASSUME c.redirect # "none"
      PROVE  /\ From(l, k, w) # <<>> /\ Head(From(l, k, w)) = c.redirect
             /\ Tail(From(l, k, w)) = From(l, k, w + 1)
             /\ From(l, k, w + 1) # <<>> /\ Head(From(l, k, w + 1)) = c.file
             /\ Tail(From(l, k, w + 1)) = From(l, k, e)
  <2>1. /\ w \in 0 .. m - 1 /\ w + 1 \in 0 .. m - 1
        /\ w + 1 + 1 = w + 2 /\ e = w + 2
    <3>1. e = w + 2
      BY <1>3b, <1>7
    <3> QED BY <1>3a, <1>5, <3>1
  <2>2. p[w + 1] = c.redirect /\ p[w + 2] = c.file
    BY <1>2, <1>7
  <2> QED BY <1>4, <2>1, <2>2, Zenon
<1>8. ASSUME k < n
      PROVE  /\ From(l, k, e) # <<>> /\ Head(From(l, k, e)) = l.operators[k]
             /\ Tail(From(l, k, e)) = From(l, k + 1, 0)
  <2>1. m = e + 1 /\ p[e + 1] = l.operators[k]
    BY <1>2, <1>3b, <1>8
  <2>2. e \in 0 .. m - 1
    BY <1>5, <2>1
  <2> QED BY <1>4, <1>8, <2>1, <2>2, Zenon
<1>9. ASSUME k = n
      PROVE  IF l.semicolon
             THEN /\ From(l, k, e) # <<>> /\ Head(From(l, k, e)) = ";"
                  /\ Tail(From(l, k, e)) = <<>>
             ELSE From(l, k, e) = <<>>
  <2>0. From(l, k, m) = <<>>
    <3>1. ~(k < n)
      BY <1>3a, <1>9
    <3> QED BY <1>4, <3>1
  <2>1. CASE l.semicolon
    <3>1. m = e + 1 /\ p[e + 1] = ";"
      BY <1>2, <1>3b, <1>9, <2>1
    <3>2. e \in 0 .. m - 1
      <4>1. m = e + 1
        BY <3>1
      <4> QED BY <1>5, <4>1
    <3> QED BY <1>4, <2>0, <2>1, <3>1, <3>2, Zenon
  <2>2. CASE ~l.semicolon
    <3>1. m = e
      BY <1>3b, <1>9, <2>2
    <3> QED BY <2>0, <2>2, <3>1, Zenon
  <2> QED BY <2>1, <2>2
<1>10. w \in Nat \ {0}
  BY <1>3a
<1> QED BY <1>1, <1>10, <1>6, <1>7, <1>8, <1>9, Zenon DEF Meets

-----------------------------------------------------------------------------
(* The walk over the words of a line.                                      *)

Kids == [argv : Seq(Words), how : {"run", "garbled", "failed", "crashed"},
         file : Words \cup {""}, append : BOOLEAN, silent : BOOLEAN,
         status : Statuses \cup {-1, 1}]

\* The children d did what l asks for, and nothing that it does not allow.
Sound(l, d) ==
  /\ d \in Seq(Kids) /\ Len(d) <= Len(l.commands)
  /\ \A k \in 1 .. Len(d) : AsTyped(l, k, d[k])
  /\ \A k \in 1 .. Len(d) - 1 : Holds(l.operators[k], d[k].status)
Allowed(l, d) == Len(d) > 0 => Holds(l.operators[Len(d)], d[Len(d)].status)
Stopped(l, d) == Len(d) < Len(l.commands)
                 => Len(d) > 0 /\ ~Holds(l.operators[Len(d)], d[Len(d)].status)

\* The loop has read j words of command k; or its redirection as well; or all
\* of a command that has one, whose child is there already.
Reading(l, d, k, j, ws, argv, how) ==
  /\ k = Len(d) + 1 /\ Allowed(l, d)
  /\ how = "none" /\ argv = SubSeq(l.commands[k].words, 1, j)
  /\ ws = From(l, k, j)
Redirecting(l, d, k, ws, argv, how) ==
  /\ k = Len(d) + 1 /\ Allowed(l, d)
  /\ how # "none" /\ how = l.commands[k].redirect /\ argv = l.commands[k].words
  /\ ws = From(l, k, Len(l.commands[k].words) + 1)
Redirected(l, d, k, ws, argv, how, last) ==
  /\ k = Len(d) /\ last = d[k].status /\ how = "none" /\ argv = <<>>
  /\ ws = From(l, k, Extent(l, k))
InLine(l, d, ws, argv, how, last) ==
  \E k \in 1 .. Len(l.commands) :
    \/ \E j \in 0 .. Len(l.commands[k].words) : Reading(l, d, k, j, ws, argv, how)
    \/ Redirecting(l, d, k, ws, argv, how)
    \/ Redirected(l, d, k, ws, argv, how, last)
\* Or no word is left for the loop, and no command for its end.
Over(l, d, ws, argv, final) ==
  ws = <<>> /\ (final => argv = <<>>) /\ Stopped(l, d)

ShellInv ==
  LET d == Executed(ran)
  IN  /\ ran \in Seq(Kids) /\ silent = typed.silent
      /\ typed = NoLine \/ IsLine(typed)
      /\ Sound(typed, d)
      /\ pc # "walk" => Stopped(typed, d)
      /\ pc = "walk" =>
           /\ IsLine(typed)
           /\ \/ Over(typed, d, words, command_argv, execute_last)
              \/ /\ execute_last
                 /\ InLine(typed, d, words, command_argv, redirect, last_status)

\* What is known of a line and of one of its commands.
LEMMA LineHas ==
  ASSUME NEW l, IsLine(l), NEW k \in 1 .. Len(l.commands), NEW c, c = l.commands[k]
  PROVE  /\ Len(l.commands) \in Nat \ {0} /\ l.silent \in BOOLEAN
         /\ k < Len(l.commands) => l.operators[k] \in Operators
         /\ c.words \in Seq(Texts) /\ c.words \in Seq(Words) /\ c.words # <<>>
         /\ Len(c.words) \in Nat \ {0}
         /\ c.redirect \in Redirects \cup {"none"}
         /\ c.redirect # "none" => c.file \in Words
<1>1. /\ l.commands \in Seq(Command) /\ l.operators \in Seq(Operators)
      /\ Len(l.operators) = Len(l.commands) - 1 /\ l.silent \in BOOLEAN
      /\ c.words # <<>> /\ (c.redirect # "none" => c.file \in Words)
  BY DEF IsLine, Line
<1>2. /\ c.words \in Seq(Texts) /\ c.redirect \in Redirects \cup {"none"}
      /\ Len(l.commands) \in Nat \ {0}
  <2>1. c \in Command
    BY <1>1
  <2>2. Len(l.commands) \in Nat \ {0}
    BY <1>1
  <2> QED BY <2>1, <2>2 DEF Command
<1>3. k < Len(l.commands) => l.operators[k] \in Operators
  BY <1>1, <1>2
<1>4. c.words \in Seq(Words) /\ Len(c.words) \in Nat \ {0}
  <2>1. Texts \subseteq Words
    BY DEF Words
  <2> QED BY <1>1, <1>2, <2>1
<1> QED BY <1>1, <1>2, <1>3, <1>4

\* Words, operators and redirections are told apart.
LEMMA Apart ==
  /\ \A t \in Texts : t \notin Operators /\ t \notin Redirects
  /\ \A o \in Operators : o \notin Redirects
  /\ ";" \in Operators /\ "&&" \in Operators /\ "||" \in Operators
  /\ "none" \notin Redirects
<1>1. \A t \in Texts : t \notin Operators /\ t \notin Redirects
  BY ShellAssumption
<1> QED BY <1>1 DEF Operators, Redirects

\* The first words of a command, with one more.
LEMMA OneMoreWord ==
  ASSUME NEW S, NEW s \in Seq(S)
  PROVE  /\ SubSeq(s, 1, 0) = <<>> /\ SubSeq(s, 1, Len(s)) = s
         /\ \A j \in 0 .. Len(s) - 1 :
              Append(SubSeq(s, 1, j), s[j + 1]) = SubSeq(s, 1, j + 1)
<1>1. ASSUME NEW j \in 0 .. Len(s) - 1
      PROVE  Append(SubSeq(s, 1, j), s[j + 1]) = SubSeq(s, 1, j + 1)
  <2>1. PICK t, x, u, v : /\ t = SubSeq(s, 1, j) /\ x = s[j + 1]
                          /\ u = Append(t, x) /\ v = SubSeq(s, 1, j + 1)
    OBVIOUS
  <2>2. t \in Seq(S) /\ Len(t) = j /\ \A i \in 1 .. j : t[i] = s[i]
    BY <2>1
  <2>3. x \in S
    BY <2>1
  <2>4. /\ u \in Seq(S) /\ Len(u) = j + 1
        /\ \A i \in 1 .. j : u[i] = t[i]
        /\ u[j + 1] = x
    BY <2>1, <2>2, <2>3
  <2>5. v \in Seq(S) /\ Len(v) = j + 1 /\ \A i \in 1 .. j + 1 : v[i] = s[i]
    BY <2>1
  <2>6. \A i \in 1 .. j + 1 : u[i] = v[i]
    BY <2>1, <2>2, <2>4, <2>5
  <2>7. u = v
    BY <2>4, <2>5, <2>6
  <2> QED BY <2>1, <2>7
<1>2. SubSeq(s, 1, 0) = <<>>
  OBVIOUS
<1>3. SubSeq(s, 1, Len(s)) = s
  OBVIOUS
<1> QED BY <1>1, <1>2, <1>3

\* A command that is not the last of a line has its operator after it.
Leaving(l, k, ws) ==
  /\ ws # <<>> /\ Head(ws) \in Operators
  /\ k < Len(l.commands) =>
       Head(ws) = l.operators[k] /\ Tail(ws) = From(l, k + 1, 0)
  /\ k = Len(l.commands) => l.semicolon /\ Head(ws) = ";" /\ Tail(ws) = <<>>

\* At the end of a part the loop meets an operator, or the line ends.
LEMMA AtTheEnd ==
  ASSUME NEW l, IsLine(l), NEW k \in 1 .. Len(l.commands), NEW c, c = l.commands[k],
         NEW ws, ws = From(l, k, Extent(l, k))
  PROVE  /\ ws # <<>> => Leaving(l, k, ws)
         /\ ws = <<>> => k = Len(l.commands) /\ ~l.semicolon
<1>1. Meets(l, k, c)
  BY WalkMeets
<1>2. k < Len(l.commands) \/ k = Len(l.commands)
  BY LineHas
<1>3. k < Len(l.commands) => l.operators[k] \in Operators
  BY LineHas
<1> QED BY <1>1, <1>2, <1>3, Apart, Zenon DEF Meets, Leaving

\* What the next word is, while a command is read.
LEMMA NextWord ==
  ASSUME NEW l, IsLine(l), NEW k \in 1 .. Len(l.commands), NEW c, c = l.commands[k],
         NEW j \in 0 .. Len(c.words), NEW d, NEW ws, NEW argv, NEW how,
         Reading(l, d, k, j, ws, argv, how)
  PROVE  \/ /\ j < Len(c.words) /\ ws # <<>> /\ Head(ws) \in Texts
            /\ Reading(l, d, k, j + 1, Tail(ws), Append(argv, Head(ws)), how)
         \/ /\ c.redirect # "none" /\ ws # <<>> /\ Head(ws) \in Redirects
            /\ argv = c.words
            /\ Redirecting(l, d, k, Tail(ws), argv, Head(ws))
         \/ /\ c.redirect = "none" /\ argv = c.words
            /\ ws # <<>> => Leaving(l, k, ws)
            /\ ws = <<>> => k = Len(l.commands) /\ ~l.semicolon
<1>0. /\ c.words \in Seq(Texts) /\ Len(c.words) \in Nat \ {0}
      /\ c.redirect \in Redirects \cup {"none"}
  BY LineHas
<1>1. Meets(l, k, c)
  BY WalkMeets
<1>2. CASE j < Len(c.words)
  <2>1. j \in 0 .. Len(c.words) - 1 /\ j + 1 \in 1 .. Len(c.words)
    BY <1>0, <1>2
  <2>2. /\ ws # <<>> /\ Head(ws) = c.words[j + 1]
        /\ Tail(ws) = From(l, k, j + 1)
    BY <1>1, <2>1, Zenon DEF Meets, Reading
  <2>3. c.words[j + 1] \in Texts
    BY <1>0, <2>1
  <2>4. Append(argv, Head(ws)) = SubSeq(c.words, 1, j + 1)
    <3>1. Append(SubSeq(c.words, 1, j), c.words[j + 1]) = SubSeq(c.words, 1, j + 1)
      BY <1>0, <2>1, OneMoreWord
    <3> QED BY <2>2, <3>1, Zenon DEF Reading
  <2> QED BY <1>2, <2>2, <2>3, <2>4, Zenon DEF Reading
<1>3. CASE j = Len(c.words)
  <2>1. argv = c.words /\ ws = From(l, k, Len(c.words))
    <3>1. SubSeq(c.words, 1, Len(c.words)) = c.words
      BY <1>0, OneMoreWord
    <3> QED BY <1>3, <3>1, Zenon DEF Reading
  <2>2. CASE c.redirect # "none"
    <3>1. /\ ws # <<>> /\ Head(ws) = c.redirect
          /\ Tail(ws) = From(l, k, Len(c.words) + 1)
      BY <1>1, <2>1, <2>2, Zenon DEF Meets
    <3>2. Redirecting(l, d, k, Tail(ws), argv, Head(ws))
      BY <2>1, <2>2, <3>1, Zenon DEF Reading, Redirecting
    <3>3. Head(ws) \in Redirects
      BY <1>0, <2>2, <3>1
    <3> QED BY <2>1, <2>2, <3>1, <3>2, <3>3
  <2>3. CASE c.redirect = "none"
    <3>1. ws = From(l, k, Extent(l, k))
      BY <2>1, <2>3 DEF Extent
    <3>2. /\ ws # <<>> => Leaving(l, k, ws)
          /\ ws = <<>> => k = Len(l.commands) /\ ~l.semicolon
      BY <3>1, AtTheEnd
    <3> QED BY <2>1, <2>3, <3>2
  <2> QED BY <2>2, <2>3
<1> QED
  <2>1. j < Len(c.words) \/ j = Len(c.words)
    BY <1>0
  <2> QED BY <1>2, <1>3, <2>1

\* What a child of do_command is.
IsChild(child, argv, ended, file, append, quiet) ==
  /\ child \in Kids /\ child.argv = argv /\ child.file = file
  /\ child.append = append /\ child.silent = quiet
  /\ child.how = "garbled" => ~ended

\* A child of do_command has the words, the file and the flags it was given.
LEMMA ChildIs ==
  ASSUME NEW argv \in Seq(Words), NEW ended \in BOOLEAN,
         NEW file \in Words \cup {""},
         NEW append \in BOOLEAN, silent \in BOOLEAN,
         NEW child, child \in Children(argv, ended, file, append)
  PROVE  IsChild(child, argv, ended, file, append, silent)
<1>1. PICK how \in {"run", "garbled", "failed", "crashed"},
           s \in Statuses \cup {-1, 1} :
        /\ child = Child(argv, how, file, append, s)
        /\ how = "garbled" => ~ended
  <2>1. PICK r \in Results(argv, ended) :
          child = Child(argv, r[1], file, append, r[2])
    BY DEF Children
  <2>2. /\ r[1] \in {"run", "garbled", "failed", "crashed"}
        /\ r[2] \in Statuses \cup {-1, 1}
        /\ r[1] = "garbled" => ~ended
    BY <2>1 DEF Results
  <2> QED BY <2>1, <2>2
<1>2. child = [argv |-> argv, how |-> how, file |-> file, append |-> append,
               silent |-> silent, status |-> s]
  BY <1>1 DEF Child
<1>3. /\ child.argv = argv /\ child.file = file /\ child.how = how
      /\ child.append = append /\ child.silent = silent
  BY <1>2
<1>4. child \in Kids
  BY <1>2, Zenon DEF Kids
<1> QED BY <1>1, <1>3, <1>4, Zenon DEF IsChild

\* One more of the children that a line asks for.
LEMMA OneMoreSound ==
  ASSUME NEW l, IsLine(l), NEW d, Sound(l, d), Allowed(l, d),
         NEW k \in 1 .. Len(l.commands), k = Len(d) + 1,
         NEW child \in Kids, AsTyped(l, k, child)
  PROVE  /\ Sound(l, Append(d, child)) /\ Len(Append(d, child)) = k
         /\ Append(d, child)[k] = child
<1>1. PICK n \in Nat : n = Len(l.commands)
  BY LineHas
<1>2. d \in Seq(Kids)
  BY DEF Sound
<1>3. PICK m \in Nat : m = Len(d) /\ k = m + 1 /\ k <= n
  BY <1>1, <1>2
<1>4. PICK e : e = Append(d, child)
  OBVIOUS
<1>5. /\ e \in Seq(Kids) /\ Len(e) = m + 1 /\ e[m + 1] = child
      /\ \A i \in 1 .. m : e[i] = d[i]
  BY <1>2, <1>3, <1>4
<1>6. ASSUME NEW i \in 1 .. Len(e) PROVE AsTyped(l, i, e[i])
  <2>1. CASE i = k
    BY <1>3, <1>5, <2>1
  <2>2. CASE i # k
    <3>1. i \in 1 .. m
      BY <1>3, <1>5, <2>2
    <3>2. e[i] = d[i] /\ AsTyped(l, i, d[i])
      BY <1>3, <1>5, <3>1 DEF Sound
    <3> QED BY <3>2
  <2> QED BY <2>1, <2>2
<1>7. ASSUME NEW i \in 1 .. Len(e) - 1 PROVE Holds(l.operators[i], e[i].status)
  <2>1. i \in 1 .. m /\ e[i] = d[i]
    BY <1>5
  <2>2. CASE i = m
    <3>1. Len(d) > 0
      BY <1>3, <2>1, <2>2
    <3> QED BY <1>3, <2>1, <2>2, <3>1 DEF Allowed
  <2>3. CASE i # m
    <3>1. i \in 1 .. Len(d) - 1
      BY <1>3, <2>1, <2>3
    <3> QED BY <2>1, <3>1 DEF Sound
  <2> QED BY <2>2, <2>3
<1> QED BY <1>1, <1>3, <1>4, <1>5, <1>6, <1>7 DEF Sound

\* The loop is between two commands, or after the last one.
LEMMA NextCommand ==
  ASSUME NEW l, IsLine(l), NEW d, Sound(l, d), NEW k \in 1 .. Len(l.commands),
         Len(d) = k, NEW ws, Leaving(l, k, ws), NEW last,
         k < Len(l.commands) => Holds(l.operators[k], d[k].status)
  PROVE  \/ Over(l, d, Tail(ws), <<>>, TRUE)
         \/ InLine(l, d, Tail(ws), <<>>, "none", last)
<1>1. PICK n \in Nat : n = Len(l.commands)
  BY LineHas
<1>2. CASE k < n
  <2>1. k + 1 \in 1 .. Len(l.commands)
    BY <1>1, <1>2
  <2>2. PICK w : w = l.commands[k + 1].words /\ w \in Seq(Words)
    BY <2>1, LineHas
  <2>3. SubSeq(w, 1, 0) = <<>> /\ 0 \in 0 .. Len(w)
    BY <2>2
  <2>4. Allowed(l, d)
    BY <1>1, <1>2 DEF Allowed
  <2>5. Tail(ws) = From(l, k + 1, 0)
    BY <1>1, <1>2 DEF Leaving
  <2>6. Reading(l, d, k + 1, 0, Tail(ws), <<>>, "none")
    BY <2>2, <2>3, <2>4, <2>5, Zenon DEF Reading
  <2> QED BY <2>1, <2>2, <2>3, <2>6, Zenon DEF InLine
<1>3. CASE k = n
  <2>1. Tail(ws) = <<>>
    BY <1>1, <1>3 DEF Leaving
  <2>2. Stopped(l, d)
    BY <1>1, <1>3 DEF Stopped
  <2> QED BY <2>1, <2>2 DEF Over
<1>4. k < n \/ k = n
  BY <1>1
<1> QED BY <1>2, <1>3, <1>4

\* What do_command adds to the children of a line.
LEMMA DoneThen ==
  ASSUME ran \in Seq(Kids), NEW child \in Kids, DoCommand(child)
  PROVE  /\ ran' \in Seq(Kids)
         /\ (Executed(ran))' = IF child.argv = <<>> THEN Executed(ran)
                               ELSE Append(Executed(ran), child)
<1>1. PICK r \in Seq(Kids) : r = ran
  OBVIOUS
<1>2. PICK q : q = Append(r, child) /\ q \in Seq(Kids)
  <2>1. Append(r, child) \in Seq(Kids)
    OBVIOUS
  <2> QED BY <2>1, Zenon
<1>3. ran' = q
  BY <1>1, <1>2 DEF DoCommand
<1>4. Executed(q) = IF child.argv = <<>> THEN Executed(r)
                    ELSE Append(Executed(r), child)
  BY <1>2, OneMoreChild
<1>5. (Executed(ran))' = Executed(q)
  BY <1>3
<1> QED BY <1>1, <1>2, <1>3, <1>4, <1>5

\* A step of the loop.
LEMMA LoopStep ==
  ASSUME ShellInv, pc = "walk", UNCHANGED <<pc, typed, silent>>,
         NEW e, e = (Executed(ran))', ran' \in Seq(Kids), Sound(typed, e),
         \/ Over(typed, e, words', command_argv', execute_last')
         \/ /\ execute_last'
            /\ InLine(typed, e, words', command_argv', redirect', last_status')
  PROVE  ShellInv'
<1>1. PICK l : l = typed
  OBVIOUS
<1>2. typed' = l /\ pc' = "walk" /\ silent' = l.silent /\ IsLine(l)
  BY <1>1 DEF ShellInv
<1> QED BY <1>1, <1>2, Zenon DEF ShellInv

\* Where the loop is when there is a word.
LEMMA InTheLoop ==
  ASSUME ShellInv, pc = "walk", words # <<>>
  PROVE  /\ execute_last /\ IsLine(typed) /\ silent \in BOOLEAN
         /\ ran \in Seq(Kids) /\ Sound(typed, Executed(ran))
         /\ InLine(typed, Executed(ran), words, command_argv, redirect, last_status)
<1>1. IsLine(typed) => typed.silent \in BOOLEAN
  BY DEF IsLine, Line
<1> QED BY <1>1, Zenon DEF ShellInv, Over

-----------------------------------------------------------------------------
(* The steps of main.                                                      *)

\* The word after > or >> executes the command that is redirected.
LEMMA RedirectFileStep == ASSUME ShellInv, RedirectFile PROVE ShellInv'
<1>1. PICK child : /\ child \in Children(command_argv, FALSE, Word, redirect = ">>")
                   /\ DoCommand(child) /\ last_status' = child.status
  BY DEF RedirectFile
<1>2. /\ pc = "walk" /\ words # <<>> /\ redirect # "none"
      /\ UNCHANGED <<pc, typed, silent, execute_last>>
      /\ words' = Tail(words) /\ redirect' = "none" /\ command_argv' = <<>>
  BY DEF RedirectFile, Continue, Advance
<1>3. PICK l, d : l = typed /\ d = Executed(ran)
  OBVIOUS
<1>4. /\ execute_last /\ IsLine(l) /\ silent \in BOOLEAN /\ silent = l.silent
      /\ ran \in Seq(Kids) /\ Sound(l, d)
      /\ InLine(l, d, words, command_argv, redirect, last_status)
  BY <1>2, <1>3, InTheLoop, Zenon DEF ShellInv
<1>5. PICK k \in 1 .. Len(l.commands) :
        Redirecting(l, d, k, words, command_argv, redirect)
  BY <1>2, <1>4, Zenon DEF InLine, Reading, Redirected
<1>6. PICK c : c = l.commands[k]
  OBVIOUS
<1>7. /\ c.words \in Seq(Words) /\ c.words # <<>>
      /\ c.redirect # "none" => c.file \in Words
  BY <1>4, <1>6, LineHas
<1>8. Meets(l, k, c)
  BY <1>4, <1>6, WalkMeets
<1>9. /\ command_argv = c.words /\ redirect = c.redirect /\ c.redirect # "none"
      /\ k = Len(d) + 1 /\ Allowed(l, d)
      /\ Word = c.file /\ Tail(words) = From(l, k, Extent(l, k))
  BY <1>5, <1>6, <1>8, Zenon DEF Redirecting, Meets, Word
<1>10. /\ child \in Kids /\ child.argv = c.words /\ child.file = c.file
       /\ child.append = (c.redirect = ">>") /\ child.silent = silent
  <2>1. PICK b \in BOOLEAN : b = (c.redirect = ">>")
    OBVIOUS
  <2>2. PICK w \in Seq(Words), f \in Words \cup {""}, x \in BOOLEAN :
          w = c.words /\ f = c.file /\ x = FALSE
    BY <1>7, <1>9
  <2>3. child \in Children(w, x, f, b)
    BY <1>1, <1>9, <2>1, <2>2
  <2>4. IsChild(child, w, x, f, b, silent)
    BY <1>4, <2>3, ChildIs, Zenon
  <2> QED BY <2>1, <2>2, <2>4, Zenon DEF IsChild
<1>11. AsTyped(l, k, child)
  BY <1>4, <1>6, <1>9, <1>10, Zenon DEF AsTyped
<1>12. PICK e : e = Append(d, child)
  OBVIOUS
<1>13. Sound(l, e) /\ Len(e) = k /\ e[k] = child
  BY <1>4, <1>9, <1>10, <1>11, <1>12, OneMoreSound
<1>14. ran' \in Seq(Kids) /\ (Executed(ran))' = e
  <2>1. child.argv # <<>>
    BY <1>7, <1>10
  <2> QED BY <1>1, <1>3, <1>4, <1>10, <1>12, <2>1, DoneThen
<1>15. Redirected(l, e, k, words', command_argv', redirect', last_status')
  BY <1>1, <1>2, <1>9, <1>13, Zenon DEF Redirected
<1>16. InLine(l, e, words', command_argv', redirect', last_status')
  BY <1>15, Zenon DEF InLine
<1> QED BY <1>2, <1>3, <1>4, <1>13, <1>14, <1>16, LoopStep

\* Where the loop is at a word that ends a command: after its last word, or
\* after its redirection.
LEMMA AtOperator ==
  ASSUME NEW l, IsLine(l), NEW d, NEW ws, NEW argv, NEW last,
         ws # <<>>, Head(ws) \in Operators, InLine(l, d, ws, argv, "none", last)
  PROVE  \E k \in 1 .. Len(l.commands) :
           /\ Leaving(l, k, ws)
           /\ \/ /\ argv = l.commands[k].words /\ argv # <<>>
                 /\ l.commands[k].redirect = "none"
                 /\ k = Len(d) + 1 /\ Allowed(l, d)
              \/ argv = <<>> /\ k = Len(d) /\ last = d[k].status
<1>1. PICK k \in 1 .. Len(l.commands) :
        \/ \E j \in 0 .. Len(l.commands[k].words) : Reading(l, d, k, j, ws, argv, "none")
        \/ Redirected(l, d, k, ws, argv, "none", last)
  BY Zenon DEF InLine, Redirecting
<1>2. PICK c : c = l.commands[k]
  OBVIOUS
<1>3. CASE \E j \in 0 .. Len(c.words) : Reading(l, d, k, j, ws, argv, "none")
  <2>1. PICK j \in 0 .. Len(c.words) : Reading(l, d, k, j, ws, argv, "none")
    BY <1>3
  <2>2. Head(ws) \notin Texts /\ Head(ws) \notin Redirects
    BY Apart
  <2>3. /\ c.redirect = "none" /\ argv = c.words /\ Leaving(l, k, ws)
    BY <1>2, <2>1, <2>2, NextWord
  <2>4. c.words # <<>>
    BY <1>2, LineHas
  <2> QED BY <1>2, <2>1, <2>3, <2>4, Zenon DEF Reading
<1>4. CASE Redirected(l, d, k, ws, argv, "none", last)
  <2>1. Leaving(l, k, ws)
    BY <1>2, <1>4, AtTheEnd DEF Redirected
  <2> QED BY <1>4, <2>1, Zenon DEF Redirected
<1> QED BY <1>1, <1>2, <1>3, <1>4

\* The child of a command that has no redirection.
PlainAsked(l, k, child) ==
  child \in Children(l.commands[k].words, k = Len(l.commands) /\ ~l.semicolon,
                    "", FALSE)

\* The child of a command without redirection is one that the line asks for.
LEMMA PlainChild ==
  ASSUME NEW l, IsLine(l), NEW d, Sound(l, d), Allowed(l, d),
         NEW k \in 1 .. Len(l.commands), k = Len(d) + 1,
         l.commands[k].redirect = "none",
         ran \in Seq(Kids), d = Executed(ran), silent = l.silent,
         NEW child, PlainAsked(l, k, child), DoCommand(child),
         NEW e, e = Append(d, child)
  PROVE  /\ ran' \in Seq(Kids) /\ (Executed(ran))' = e
         /\ Sound(l, e) /\ Len(e) = k /\ e[k] = child
<1>1. PICK c : c = l.commands[k]
  OBVIOUS
<1>2. c.words \in Seq(Words) /\ c.words # <<>> /\ l.silent \in BOOLEAN
  BY <1>1, LineHas
<1>3. /\ child \in Kids /\ child.argv = c.words /\ child.file = ""
      /\ child.append = FALSE /\ child.silent = silent
      /\ child.how = "garbled" => ~(k = Len(l.commands) /\ ~l.semicolon)
  <2>0. PICK ended \in BOOLEAN : ended = (k = Len(l.commands) /\ ~l.semicolon)
    OBVIOUS
  <2>1. PICK w \in Seq(Words), f \in Words \cup {""}, x \in BOOLEAN :
          w = c.words /\ f = "" /\ x = FALSE
    BY <1>2
  <2>2. child \in Children(w, ended, f, x)
    BY <1>1, <2>0, <2>1, Zenon DEF PlainAsked
  <2>3. IsChild(child, w, ended, f, x, silent)
    BY <1>2, <2>2, ChildIs, Zenon
  <2> QED BY <2>0, <2>1, <2>3, Zenon DEF IsChild
<1>4. AsTyped(l, k, child)
  <2>3. (c.redirect = ">>") = FALSE
    BY <1>1
  <2> QED BY <1>1, <1>3, <2>3, Zenon DEF AsTyped
<1>5. ran' \in Seq(Kids) /\ (Executed(ran))' = e
  <2>1. child.argv # <<>>
    BY <1>2, <1>3
  <2> QED BY <1>3, <2>1, DoneThen
<1>6. Sound(l, e) /\ Len(e) = k /\ e[k] = child
  <2>1. child \in Kids
    BY <1>3
  <2> QED BY <1>4, <2>1, OneMoreSound
<1> QED BY <1>5, <1>6

\* > and >> are met only after the words of a redirected command.
LEMMA RedirectStep == ASSUME ShellInv, Redirect PROVE ShellInv'
<1>1. /\ pc = "walk" /\ words # <<>> /\ redirect = "none" /\ Word \in Redirects
      /\ UNCHANGED <<pc, typed, silent, execute_last, command_argv, last_status,
                     ran>>
      /\ words' = Tail(words) /\ redirect' = Word
  BY DEF Redirect, Continue, Advance
<1>2. PICK l, d : l = typed /\ d = Executed(ran)
  OBVIOUS
<1>3. /\ execute_last /\ IsLine(l) /\ ran \in Seq(Kids) /\ Sound(l, d)
      /\ InLine(l, d, words, command_argv, redirect, last_status)
  BY <1>1, <1>2, InTheLoop
<1>4. Word = Head(words) /\ Word \notin Operators /\ Word \notin Texts
  BY <1>1, Apart DEF Word
<1>5. PICK k \in 1 .. Len(l.commands) :
        \/ \E j \in 0 .. Len(l.commands[k].words) :
             Reading(l, d, k, j, words, command_argv, redirect)
        \/ Redirected(l, d, k, words, command_argv, redirect, last_status)
  BY <1>1, <1>3, Zenon DEF InLine, Redirecting
<1>6. PICK c : c = l.commands[k]
  OBVIOUS
<1>7. ~Redirected(l, d, k, words, command_argv, redirect, last_status)
  <2> SUFFICES ASSUME Redirected(l, d, k, words, command_argv, redirect, last_status)
               PROVE  FALSE
    OBVIOUS
  <2>1. PICK ws : ws = words
    OBVIOUS
  <2>2. ws = From(l, k, Extent(l, k)) /\ ws # <<>>
    BY <1>1, <2>1, Zenon DEF Redirected
  <2>3. Leaving(l, k, ws)
    BY <1>3, <1>6, <2>2, AtTheEnd
  <2> QED BY <1>4, <2>1, <2>3 DEF Leaving
<1>8. PICK j \in 0 .. Len(c.words) :
        Reading(l, d, k, j, words, command_argv, redirect)
  BY <1>5, <1>6, <1>7
<1>9. Redirecting(l, d, k, words', command_argv', redirect')
  <2>1. PICK ws, argv, how : ws = words /\ argv = command_argv /\ how = redirect
    OBVIOUS
  <2>2. Reading(l, d, k, j, ws, argv, how)
    BY <1>8, <2>1
  <2>3. Head(ws) \notin Operators /\ Head(ws) \notin Texts /\ ws # <<>>
    BY <1>1, <1>4, <2>1
  <2>4. Redirecting(l, d, k, Tail(ws), argv, Head(ws))
    BY <1>3, <1>6, <2>2, <2>3, NextWord DEF Leaving
  <2> QED BY <1>1, <1>4, <2>1, <2>4
<1>10. InLine(l, d, words', command_argv', redirect', last_status')
  BY <1>9, Zenon DEF InLine
<1>11. (Executed(ran))' = d /\ ran' \in Seq(Kids)
  BY <1>1, <1>2, <1>3
<1> QED BY <1>1, <1>2, <1>3, <1>10, <1>11, LoopStep

\* Any other word is the next one of its command.
LEMMA PushBackStep == ASSUME ShellInv, PushBack PROVE ShellInv'
<1>1. /\ pc = "walk" /\ words # <<>> /\ redirect = "none"
      /\ Word \notin Redirects /\ Word \notin Operators
      /\ UNCHANGED <<pc, typed, silent, execute_last, redirect, last_status, ran>>
      /\ words' = Tail(words) /\ command_argv' = Append(command_argv, Word)
  BY DEF PushBack, Continue, Advance
<1>2. PICK l, d : l = typed /\ d = Executed(ran)
  OBVIOUS
<1>3. /\ execute_last /\ IsLine(l) /\ ran \in Seq(Kids) /\ Sound(l, d)
      /\ InLine(l, d, words, command_argv, redirect, last_status)
  BY <1>1, <1>2, InTheLoop
<1>4. Word = Head(words)
  BY DEF Word
<1>5. PICK k \in 1 .. Len(l.commands) :
        \/ \E j \in 0 .. Len(l.commands[k].words) :
             Reading(l, d, k, j, words, command_argv, redirect)
        \/ Redirected(l, d, k, words, command_argv, redirect, last_status)
  BY <1>1, <1>3, Zenon DEF InLine, Redirecting
<1>6. PICK c : c = l.commands[k]
  OBVIOUS
<1>7. ~Redirected(l, d, k, words, command_argv, redirect, last_status)
  <2> SUFFICES ASSUME Redirected(l, d, k, words, command_argv, redirect, last_status)
               PROVE  FALSE
    OBVIOUS
  <2>1. PICK ws : ws = words
    OBVIOUS
  <2>2. ws = From(l, k, Extent(l, k)) /\ ws # <<>>
    BY <1>1, <2>1, Zenon DEF Redirected
  <2>3. Leaving(l, k, ws)
    BY <1>3, <1>6, <2>2, AtTheEnd
  <2> QED BY <1>1, <1>4, <2>1, <2>3 DEF Leaving
<1>8. PICK j \in 0 .. Len(c.words) :
        Reading(l, d, k, j, words, command_argv, redirect)
  BY <1>5, <1>6, <1>7
<1>9. /\ j + 1 \in 0 .. Len(c.words)
      /\ Reading(l, d, k, j + 1, words', command_argv', redirect')
  <2>1. PICK ws, argv, how : ws = words /\ argv = command_argv /\ how = redirect
    OBVIOUS
  <2>2. Reading(l, d, k, j, ws, argv, how)
    BY <1>8, <2>1
  <2>3. Head(ws) \notin Operators /\ Head(ws) \notin Redirects /\ ws # <<>>
    BY <1>1, <1>4, <2>1
  <2>4. /\ j < Len(c.words)
        /\ Reading(l, d, k, j + 1, Tail(ws), Append(argv, Head(ws)), how)
    BY <1>3, <1>6, <2>2, <2>3, NextWord DEF Leaving
  <2>5. Len(c.words) \in Nat
    BY <1>3, <1>6, LineHas
  <2>6. j + 1 \in 0 .. Len(c.words)
    BY <2>4, <2>5
  <2>7. /\ words' = Tail(ws) /\ command_argv' = Append(argv, Head(ws))
        /\ redirect' = how
    BY <1>1, <1>4, <2>1
  <2> QED BY <2>4, <2>6, <2>7, Zenon
<1>10. InLine(l, d, words', command_argv', redirect', last_status')
  BY <1>6, <1>9, Zenon DEF InLine
<1>11. (Executed(ran))' = d /\ ran' \in Seq(Kids)
  BY <1>1, <1>2, <1>3
<1> QED BY <1>1, <1>2, <1>3, <1>10, <1>11, LoopStep

\* A semicolon executes the command before it, if that was not redirected.
LEMMA SemicolonStep == ASSUME ShellInv, Semicolon PROVE ShellInv'
<1>1. PICK child : /\ child \in Children(command_argv, FALSE, "", FALSE)
                   /\ DoCommand(child)
  BY DEF Semicolon
<1>2. /\ pc = "walk" /\ words # <<>> /\ redirect = "none" /\ Word = ";"
      /\ UNCHANGED <<pc, typed, silent, execute_last, redirect, last_status>>
      /\ words' = Tail(words) /\ command_argv' = <<>>
  BY DEF Semicolon, Continue, Advance
<1>3. PICK l, d, ws, argv : /\ l = typed /\ d = Executed(ran)
                            /\ ws = words /\ argv = command_argv
  OBVIOUS
<1>4. /\ execute_last /\ IsLine(l) /\ silent \in BOOLEAN /\ silent = l.silent
      /\ ran \in Seq(Kids) /\ Sound(l, d)
      /\ InLine(l, d, words, command_argv, redirect, last_status)
  BY <1>2, <1>3, InTheLoop, Zenon DEF ShellInv
<1>5. Word = Head(ws) /\ ws # <<>> /\ Head(ws) \in Operators
  BY <1>2, <1>3, Apart DEF Word
<1>6. PICK last : last = last_status
  OBVIOUS
<1>7. InLine(l, d, ws, argv, "none", last)
  BY <1>2, <1>3, <1>4, <1>6
<1>8. PICK k \in 1 .. Len(l.commands) :
        /\ Leaving(l, k, ws)
        /\ \/ /\ argv = l.commands[k].words /\ argv # <<>>
              /\ l.commands[k].redirect = "none"
              /\ k = Len(d) + 1 /\ Allowed(l, d)
           \/ argv = <<>> /\ k = Len(d) /\ last = d[k].status
  BY <1>4, <1>5, <1>7, AtOperator
<1>9. \E e : /\ e = (Executed(ran))' /\ ran' \in Seq(Kids)
             /\ Sound(l, e) /\ Len(e) = k
  <2>1. CASE /\ argv = l.commands[k].words /\ argv # <<>>
             /\ l.commands[k].redirect = "none"
             /\ k = Len(d) + 1 /\ Allowed(l, d)
    <3>1. ~(k = Len(l.commands) /\ ~l.semicolon)
      BY <1>8 DEF Leaving
    <3>2. PlainAsked(l, k, child)
      <4>1. (k = Len(l.commands) /\ ~l.semicolon) = FALSE
        BY <3>1
      <4> QED BY <1>1, <1>3, <2>1, <4>1, Zenon DEF PlainAsked
    <3>3. PICK e : e = Append(d, child)
      OBVIOUS
    <3>4. /\ ran' \in Seq(Kids) /\ (Executed(ran))' = e
          /\ Sound(l, e) /\ Len(e) = k
      <4>1. DoCommand(child) /\ d = Executed(ran)
        BY <1>1, <1>3
      <4>2. Sound(l, d) /\ Allowed(l, d) /\ IsLine(l)
        BY <1>4, <2>1
      <4>3. k = Len(d) + 1 /\ l.commands[k].redirect = "none"
        BY <2>1
      <4>4. ran \in Seq(Kids) /\ silent = l.silent
        BY <1>4
      <4> QED BY <3>2, <3>3, <4>1, <4>2, <4>3, <4>4, PlainChild
    <3> QED BY <3>4
  <2>2. CASE argv = <<>> /\ k = Len(d) /\ last = d[k].status
    <3>1. child \in Kids /\ child.argv = <<>>
      <4>1. PICK w \in Seq(Words), f \in Words \cup {""}, x \in BOOLEAN :
              w = <<>> /\ f = "" /\ x = FALSE
        BY NoWords
      <4>2. child \in Children(w, x, f, x)
        BY <1>1, <1>3, <2>2, <4>1
      <4>3. IsChild(child, w, x, f, x, silent)
        BY <1>4, <4>2, ChildIs, Zenon
      <4> QED BY <4>1, <4>3, Zenon DEF IsChild
    <3>2. ran' \in Seq(Kids) /\ (Executed(ran))' = d
      BY <1>1, <1>3, <1>4, <3>1, DoneThen
    <3> QED BY <1>4, <2>2, <3>2
  <2> QED BY <1>8, <2>1, <2>2
<1>10. PICK e : /\ e = (Executed(ran))' /\ ran' \in Seq(Kids)
                /\ Sound(l, e) /\ Len(e) = k
  BY <1>9
<1>11. k < Len(l.commands) => Holds(l.operators[k], e[k].status)
  BY <1>2, <1>5, <1>8 DEF Leaving, Holds
<1>12. \/ Over(l, e, Tail(ws), <<>>, TRUE)
       \/ InLine(l, e, Tail(ws), <<>>, "none", last)
  BY <1>4, <1>8, <1>10, <1>11, NextCommand
<1>13. /\ words' = Tail(ws) /\ command_argv' = <<>> /\ redirect' = "none"
       /\ last_status' = last /\ execute_last' = execute_last
  BY <1>2, <1>3, <1>6
<1>14. \/ Over(l, e, words', command_argv', execute_last')
       \/ /\ execute_last'
          /\ InLine(l, e, words', command_argv', redirect', last_status')
  BY <1>4, <1>12, <1>13, Zenon DEF Over
<1> QED BY <1>2, <1>3, <1>10, <1>14, LoopStep

\* What Ends says of || and &&.
LEMMA EndsOrHolds ==
  ASSUME NEW o \in {"||", "&&"}, NEW s
  PROVE  Ends(o, s) <=> ~Holds(o, s)
<1>1. CASE o = "||"
  BY <1>1 DEF Ends, Holds
<1>2. CASE o = "&&"
  BY <1>2 DEF Ends, Holds
<1> QED BY <1>1, <1>2

\* The line ends at an operator.
LEMMA LineEnds ==
  ASSUME NEW l, IsLine(l), NEW d, Sound(l, d), NEW k \in 1 .. Len(l.commands),
         Len(d) = k, NEW ws, Leaving(l, k, ws), Head(ws) \in {"||", "&&"},
         Ends(Head(ws), d[k].status)
  PROVE  Stopped(l, d)
<1>1. k < Len(l.commands) => ~Holds(l.operators[k], d[k].status)
  <2> SUFFICES ASSUME k < Len(l.commands)
               PROVE  ~Holds(l.operators[k], d[k].status)
    OBVIOUS
  <2>1. Head(ws) = l.operators[k]
    BY DEF Leaving
  <2> QED BY <2>1, EndsOrHolds
<1>2. PICK n \in Nat : n = Len(l.commands)
  BY LineHas
<1> QED BY <1>1, <1>2 DEF Stopped

\* || or && after a redirected command goes by its status.
LEMMA AfterRedirectedStep == ASSUME ShellInv, AfterRedirected PROVE ShellInv'
<1>1. /\ pc = "walk" /\ words # <<>> /\ redirect = "none"
      /\ command_argv = <<>> /\ Word \in {"||", "&&"}
      /\ UNCHANGED <<pc, typed, silent, execute_last, redirect, last_status,
                     command_argv, ran>>
      /\ Ends(Word, last_status) => words' = <<>>
      /\ ~Ends(Word, last_status) => words' = Tail(words)
  BY DEF AfterRedirected, Continue, Break, Advance
<1>2. PICK l, d, ws, argv, last : /\ l = typed /\ d = Executed(ran)
                                  /\ ws = words /\ argv = command_argv
                                  /\ last = last_status
  OBVIOUS
<1>3. /\ execute_last /\ IsLine(l) /\ ran \in Seq(Kids) /\ Sound(l, d)
      /\ InLine(l, d, ws, argv, "none", last)
  BY <1>1, <1>2, InTheLoop
<1>4. Word = Head(ws) /\ ws # <<>> /\ Head(ws) \in Operators
  BY <1>1, <1>2, Apart DEF Word
<1>5. PICK k \in 1 .. Len(l.commands) :
        Leaving(l, k, ws) /\ k = Len(d) /\ last = d[k].status
  BY <1>1, <1>2, <1>3, <1>4, AtOperator
<1>6. /\ (Executed(ran))' = d /\ ran' \in Seq(Kids)
      /\ command_argv' = <<>> /\ redirect' = "none" /\ last_status' = last
      /\ execute_last' = execute_last
  BY <1>1, <1>2, <1>3
<1>7. \/ Over(l, d, words', command_argv', execute_last')
      \/ /\ execute_last'
         /\ InLine(l, d, words', command_argv', redirect', last_status')
  <2>1. CASE Ends(Word, last_status)
    <3>1. Stopped(l, d)
      BY <1>1, <1>2, <1>3, <1>4, <1>5, <2>1, LineEnds
    <3> QED BY <1>1, <1>6, <2>1, <3>1 DEF Over
  <2>2. CASE ~Ends(Word, last_status)
    <3>1. k < Len(l.commands) => Holds(l.operators[k], d[k].status)
      BY <1>1, <1>2, <1>4, <1>5, <2>2, EndsOrHolds DEF Leaving
    <3>2. \/ Over(l, d, Tail(ws), <<>>, TRUE)
          \/ InLine(l, d, Tail(ws), <<>>, "none", last)
      BY <1>3, <1>5, <3>1, NextCommand
    <3>3. words' = Tail(ws)
      BY <1>1, <1>2, <2>2
    <3> QED BY <1>3, <1>6, <3>2, <3>3, Zenon DEF Over
  <2> QED BY <2>1, <2>2
<1> QED BY <1>1, <1>2, <1>3, <1>6, <1>7, LoopStep

\* || or && after another command executes it and goes by its status.
LEMMA ConditionalStep == ASSUME ShellInv, Conditional PROVE ShellInv'
<1>1. PICK child :
        /\ child \in Children(command_argv, FALSE, "", FALSE)
        /\ DoCommand(child)
        /\ IF Ends(Word, child.status)
           THEN Break /\ execute_last' = FALSE /\ UNCHANGED command_argv
           ELSE Continue /\ command_argv' = <<>> /\ UNCHANGED execute_last
  BY DEF Conditional
<1>2. /\ pc = "walk" /\ words # <<>> /\ redirect = "none"
      /\ command_argv # <<>> /\ Word \in {"||", "&&"}
      /\ UNCHANGED <<pc, typed, silent, redirect, last_status>>
  BY <1>1 DEF Conditional, Continue, Break, Advance
<1>3. /\ Ends(Word, child.status) => words' = <<>> /\ execute_last' = FALSE
      /\ ~Ends(Word, child.status) =>
           /\ words' = Tail(words)
           /\ command_argv' = <<>> /\ execute_last' = execute_last
  BY <1>1 DEF Continue, Break, Advance
<1>4. PICK l, d, ws, argv, last : /\ l = typed /\ d = Executed(ran)
                                  /\ ws = words /\ argv = command_argv
                                  /\ last = last_status
  OBVIOUS
<1>5. /\ execute_last /\ IsLine(l) /\ silent = l.silent
      /\ ran \in Seq(Kids) /\ Sound(l, d)
      /\ InLine(l, d, ws, argv, "none", last)
  BY <1>2, <1>4, InTheLoop, Zenon DEF ShellInv
<1>6. Word = Head(ws) /\ ws # <<>> /\ Head(ws) \in Operators
  BY <1>2, <1>4, Apart DEF Word
<1>7. PICK k \in 1 .. Len(l.commands) :
        /\ Leaving(l, k, ws) /\ argv = l.commands[k].words
        /\ l.commands[k].redirect = "none"
        /\ k = Len(d) + 1 /\ Allowed(l, d)
  BY <1>2, <1>4, <1>5, <1>6, AtOperator
<1>8. PICK e : e = Append(d, child)
  OBVIOUS
<1>9. /\ ran' \in Seq(Kids) /\ (Executed(ran))' = e
      /\ Sound(l, e) /\ Len(e) = k /\ e[k] = child
  <2>1. ~(k = Len(l.commands) /\ ~l.semicolon)
    BY <1>7 DEF Leaving
  <2>2. PlainAsked(l, k, child)
    <3>1. (k = Len(l.commands) /\ ~l.semicolon) = FALSE
      BY <2>1
    <3> QED BY <1>1, <1>4, <1>7, <3>1, Zenon DEF PlainAsked
  <2>3. DoCommand(child) /\ d = Executed(ran)
    BY <1>1, <1>4
  <2> QED BY <1>5, <1>7, <1>8, <2>2, <2>3, PlainChild
<1>10. \/ Over(l, e, words', command_argv', execute_last')
       \/ /\ execute_last'
          /\ InLine(l, e, words', command_argv', redirect', last_status')
  <2>1. CASE Ends(Word, child.status)
    <3>1. Stopped(l, e)
      BY <1>2, <1>5, <1>6, <1>7, <1>9, <2>1, LineEnds
    <3> QED BY <1>3, <2>1, <3>1 DEF Over
  <2>2. CASE ~Ends(Word, child.status)
    <3>1. k < Len(l.commands) => Holds(l.operators[k], e[k].status)
      BY <1>2, <1>6, <1>7, <1>9, <2>2, EndsOrHolds DEF Leaving
    <3>2. \/ Over(l, e, Tail(ws), <<>>, TRUE)
          \/ InLine(l, e, Tail(ws), <<>>, "none", last)
      BY <1>5, <1>7, <1>9, <3>1, NextCommand
    <3>3. /\ words' = Tail(ws) /\ command_argv' = <<>>
          /\ execute_last' = execute_last
          /\ redirect' = "none" /\ last_status' = last
      BY <1>2, <1>3, <1>4, <2>2
    <3> QED BY <1>5, <3>2, <3>3, Zenon DEF Over
  <2> QED BY <2>1, <2>2
<1> QED BY <1>2, <1>4, <1>9, <1>10, LoopStep

\* After the loop the last command is executed unless the line has stopped.
LEMMA ExecuteLastStep == ASSUME ShellInv, ExecuteLast PROVE ShellInv'
<1>1. /\ pc = "walk" /\ words = <<>> /\ pc' = "prompt"
      /\ UNCHANGED <<typed, silent>>
  BY DEF ExecuteLast, lineVars
<1>2. PICK l, d, ws, argv : /\ l = typed /\ d = Executed(ran)
                            /\ ws = words /\ argv = command_argv
  OBVIOUS
<1>3. /\ IsLine(l) /\ silent = l.silent /\ ran \in Seq(Kids) /\ Sound(l, d)
      /\ \/ Over(l, d, ws, argv, execute_last)
         \/ execute_last /\ InLine(l, d, ws, argv, redirect, last_status)
  BY <1>1, <1>2, Zenon DEF ShellInv
<1>4. silent \in BOOLEAN
  BY <1>3 DEF IsLine, Line
<1>5. SUFFICES \E e : /\ e = (Executed(ran))' /\ ran' \in Seq(Kids)
                      /\ Sound(l, e) /\ Stopped(l, e)
  <2>1. PICK e : /\ e = (Executed(ran))' /\ ran' \in Seq(Kids)
                 /\ Sound(l, e) /\ Stopped(l, e)
    BY <1>5
  <2>2. typed' = l /\ silent' = l.silent /\ pc' # "walk"
    BY <1>1, <1>2, <1>3
  <2> QED BY <1>3, <2>1, <2>2, Zenon DEF ShellInv
\* Nothing is left to be executed: no child, or one without arguments.
<1>6. ASSUME execute_last => argv = <<>>, Stopped(l, d)
      PROVE  \E e : /\ e = (Executed(ran))' /\ ran' \in Seq(Kids)
                    /\ Sound(l, e) /\ Stopped(l, e)
  <2>1. CASE execute_last
    <3>1. PICK child : child \in Children(argv, TRUE, "", FALSE) /\ DoCommand(child)
      BY <1>2, <2>1 DEF ExecuteLast
    <3>2. child \in Kids /\ child.argv = <<>>
      <4>1. PICK w \in Seq(Words), f \in Words \cup {""}, x \in BOOLEAN, y \in BOOLEAN :
              w = <<>> /\ f = "" /\ x = FALSE /\ y = TRUE
        BY NoWords
      <4>2. child \in Children(w, y, f, x)
        BY <1>6, <2>1, <3>1, <4>1
      <4>3. IsChild(child, w, y, f, x, silent)
        BY <1>4, <4>2, ChildIs, Zenon
      <4> QED BY <4>1, <4>3, Zenon DEF IsChild
    <3>3. ran' \in Seq(Kids) /\ (Executed(ran))' = d
      BY <1>2, <1>3, <3>1, <3>2, DoneThen
    <3> QED BY <1>3, <1>6, <3>3
  <2>2. CASE ~execute_last
    <3>1. ran' = ran
      BY <2>2 DEF ExecuteLast
    <3> QED BY <1>2, <1>3, <1>6, <3>1
  <2> QED BY <2>1, <2>2
<1>7. CASE Over(l, d, ws, argv, execute_last)
  BY <1>6, <1>7 DEF Over
<1>8. CASE execute_last /\ InLine(l, d, ws, argv, redirect, last_status)
  <2>1. PICK k \in 1 .. Len(l.commands) :
          \/ \E j \in 0 .. Len(l.commands[k].words) :
               Reading(l, d, k, j, ws, argv, redirect)
          \/ Redirecting(l, d, k, ws, argv, redirect)
          \/ Redirected(l, d, k, ws, argv, redirect, last_status)
    BY <1>8, Zenon DEF InLine
  <2>2. PICK c : c = l.commands[k]
    OBVIOUS
  <2>3. CASE \E j \in 0 .. Len(c.words) : Reading(l, d, k, j, ws, argv, redirect)
    <3>0. PICK how : how = redirect
      OBVIOUS
    <3>1. PICK j \in 0 .. Len(c.words) : Reading(l, d, k, j, ws, argv, how)
      BY <2>3, <3>0
    <3>2. /\ c.redirect = "none" /\ argv = c.words
          /\ k = Len(l.commands) /\ ~l.semicolon
      BY <1>1, <1>2, <1>3, <2>2, <3>1, NextWord
    <3>3. PICK child : child \in Children(argv, TRUE, "", FALSE) /\ DoCommand(child)
      BY <1>2, <1>8 DEF ExecuteLast
    <3>4. PlainAsked(l, k, child)
      <4>1. (k = Len(l.commands) /\ ~l.semicolon) = TRUE
        BY <3>2
      <4> QED BY <2>2, <3>2, <3>3, <4>1, Zenon DEF PlainAsked
    <3>5. PICK e : e = Append(d, child)
      OBVIOUS
    <3>6. /\ ran' \in Seq(Kids) /\ (Executed(ran))' = e
          /\ Sound(l, e) /\ Len(e) = k
      <4>1. DoCommand(child) /\ d = Executed(ran)
        BY <1>2, <3>3
      <4>2. k = Len(d) + 1 /\ Allowed(l, d) /\ l.commands[k].redirect = "none"
        BY <2>2, <3>1, <3>2 DEF Reading
      <4>3. IsLine(l) /\ silent = l.silent /\ ran \in Seq(Kids) /\ Sound(l, d)
        BY <1>3
      <4> QED BY <3>4, <3>5, <4>1, <4>2, <4>3, PlainChild
    <3>7. Stopped(l, e)
      <4>1. PICK n \in Nat : n = Len(l.commands)
        BY <1>3, LineHas
      <4> QED BY <3>2, <3>6, <4>1 DEF Stopped
    <3> QED BY <3>6, <3>7
  <2>4. CASE Redirecting(l, d, k, ws, argv, redirect)
    <3>1. c.redirect # "none" /\ ws = From(l, k, Len(c.words) + 1)
      BY <2>2, <2>4, Zenon DEF Redirecting
    <3>2. Meets(l, k, c)
      BY <1>3, <2>2, WalkMeets
    <3>3. ws # <<>>
      BY <3>1, <3>2, Zenon DEF Meets
    <3> QED BY <1>1, <1>2, <3>3
  <2>5. CASE Redirected(l, d, k, ws, argv, redirect, last_status)
    <3>1. argv = <<>> /\ k = Len(d) /\ ws = From(l, k, Extent(l, k))
      BY <2>5, Zenon DEF Redirected
    <3>2. k = Len(l.commands)
      BY <1>1, <1>2, <1>3, <2>2, <3>1, AtTheEnd
    <3>3. Stopped(l, d)
      <4>1. PICK n \in Nat : n = Len(l.commands)
        BY <1>3, LineHas
      <4> QED BY <3>1, <3>2, <4>1 DEF Stopped
    <3> QED BY <1>6, <3>1, <3>3
  <2> QED BY <2>1, <2>2, <2>3, <2>4, <2>5
<1> QED BY <1>3, <1>7, <1>8

\* A line starts with nothing of the line before.
LEMMA ReadLineStep == ASSUME ShellInv, ReadLine PROVE ShellInv'
<1>1. PICK l : /\ IsLine(l) /\ typed' = l /\ words' = Split(l) /\ silent' = l.silent
               /\ command_argv' = <<>> /\ redirect' = "none" /\ last_status' = 0
               /\ execute_last' = TRUE /\ ran' = <<>> /\ pc' = "walk"
  <2>1. PICK l \in IF count = 0 THEN FirstLines ELSE Lines :
          typed' = l /\ words' = Split(l) /\ silent' = l.silent
    BY DEF ReadLine
  <2>2. IsLine(l)
    BY ShellAssumption
  <2> QED BY <2>1, <2>2 DEF ReadLine
<1>2. PICK d : d = <<>> /\ d \in Seq(Kids) /\ Len(d) = 0
  BY NoWords
<1>3. (Executed(ran))' = d
  BY <1>1, <1>2, NoChildren
<1>4. Sound(l, d)
  <2>1. Len(l.commands) \in Nat
    BY <1>1 DEF IsLine, Line
  <2> QED BY <1>2, <2>1 DEF Sound
<1>5. InLine(l, d, words', command_argv', redirect', last_status')
  <2>1. 1 \in 1 .. Len(l.commands)
    <3>1. PICK n \in Nat \ {0} : n = Len(l.commands)
      BY <1>1, LineLays
    <3> QED BY <3>1
  <2>2. PICK w : w = l.commands[1].words /\ w \in Seq(Words)
    BY <1>1, <2>1, LineHas
  <2>3. SubSeq(w, 1, 0) = <<>> /\ 0 \in 0 .. Len(w)
    BY <2>2
  <2>4. words' = From(l, 1, 0)
    BY <1>1, <2>1, FromStep
  <2>5. Allowed(l, d) /\ 1 = Len(d) + 1
    BY <1>2 DEF Allowed
  <2>6. Reading(l, d, 1, 0, words', command_argv', redirect')
    BY <1>1, <2>2, <2>3, <2>4, <2>5, Zenon DEF Reading
  <2> QED BY <2>1, <2>2, <2>3, <2>6, Zenon DEF InLine
<1>6. ran' \in Seq(Kids)
  BY <1>1, <1>2
<1> QED BY <1>1, <1>3, <1>4, <1>5, <1>6, Zenon DEF ShellInv

\* Without a step of the loop nothing changes for the line.
LEMMA LeaveStep == ASSUME ShellInv, Leave \/ UNCHANGED vars PROVE ShellInv'
<1>1. /\ UNCHANGED <<typed, silent, ran, words, command_argv, redirect,
                     last_status, execute_last>>
      /\ \/ pc = "prompt" /\ pc' = "end"
         \/ pc' = pc
  BY DEF Leave, vars, lineVars
<1>2. pc' = "walk" => pc = "walk"
  BY <1>1
<1>3. pc' # "walk" => pc # "walk"
  BY <1>1
<1> QED BY <1>1, <1>2, <1>3, Zenon DEF ShellInv

\* The loop is always at a place of the line, and what it did is right.
LEMMA ShellInvariant == Spec => []ShellInv
<1>1. Init => ShellInv
  <2> SUFFICES ASSUME Init PROVE ShellInv
    OBVIOUS
  <2>1. /\ typed = NoLine /\ ran = <<>> /\ silent = FALSE /\ pc = "prompt"
    BY DEF Init
  <2>2. PICK d : d = <<>> /\ d \in Seq(Kids) /\ Len(d) = 0
    BY NoWords
  <2>3. Executed(ran) = d
    BY <2>1, <2>2, NoChildren
  <2>4. Len(NoLine.commands) = 0 /\ NoLine.silent = FALSE
    BY DEF NoLine
  <2>5. Sound(NoLine, d) /\ Stopped(NoLine, d)
    BY <2>2, <2>4 DEF Sound, Stopped
  <2>6. pc # "walk" /\ silent = typed.silent /\ ran \in Seq(Kids)
    BY <2>1, <2>2, <2>4
  <2> QED BY <2>1, <2>3, <2>5, <2>6, Zenon DEF ShellInv
<1>2. ShellInv /\ [Next]_vars => ShellInv'
  <2> SUFFICES ASSUME ShellInv, Next \/ UNCHANGED vars PROVE ShellInv'
    OBVIOUS
  <2>1. CASE ReadLine        BY <2>1, ReadLineStep
  <2>2. CASE RedirectFile    BY <2>2, RedirectFileStep
  <2>3. CASE Redirect        BY <2>3, RedirectStep
  <2>4. CASE Semicolon       BY <2>4, SemicolonStep
  <2>5. CASE AfterRedirected BY <2>5, AfterRedirectedStep
  <2>6. CASE Conditional     BY <2>6, ConditionalStep
  <2>7. CASE PushBack        BY <2>7, PushBackStep
  <2>8. CASE ExecuteLast     BY <2>8, ExecuteLastStep
  <2>9. CASE Leave \/ Ended \/ UNCHANGED vars
    BY <2>9, LeaveStep DEF Ended
  <2> QED BY <2>1, <2>2, <2>3, <2>4, <2>5, <2>6, <2>7, <2>8, <2>9 DEF Next
<1> QED BY <1>1, <1>2, PTL DEF Spec

\* PS2/interactive-shell.cpp: every command of a line is executed once and in
\* order, with its own words and its own output, if the operators before it
\* allow it, and all that they allow when main prompts again; for every line.
THEOREM LinesRunAsMeant == Spec => []RunsAsMeant
<1>1. ShellInv => RunsAsMeant
  BY Zenon DEF ShellInv, Sound, Stopped, RunsAsMeant
<1> QED BY <1>1, ShellInvariant, PTL
=============================================================================

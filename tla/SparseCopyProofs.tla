--------------------------- MODULE SparseCopyProofs ---------------------------
(***************************************************************************)
(* Proofs about SparseCopy, for files and buffers of any size.             *)
(***************************************************************************)
EXTENDS SparseCopy, WellFoundedInduction, SequenceTheorems, TLAPS

-----------------------------------------------------------------------------
(* What lseek finds.                                                       *)

LEMMA MinIsLeast ==
  ASSUME NEW S, S \subseteq Nat, S # {}
  PROVE  Min(S) \in S /\ \A x \in S : Min(S) <= x
<1>1. PICK m \in S : \A x \in S : ~(<<x, m>> \in OpToRel(<, Nat))
  BY NatLessThanWellFounded, WFMin
<1>2. \A x \in S : m <= x
  <2>1. ASSUME NEW x \in S, x < m PROVE FALSE
    <3>1. <<x, m>> \in OpToRel(<, Nat)
      BY <2>1 DEF OpToRel
    <3> QED BY <1>1, <3>1
  <2> QED BY <2>1
<1> QED BY <1>2 DEF Min

\* The first data at or after from, with nothing but holes before it.
LEMMA DataFound ==
  ASSUME source \in Seq(Blocks), NEW from \in Nat
  PROVE  \/ /\ SeekData(from) = -1
            /\ \A i \in from + 1 .. Len(source) : source[i] = Hole
         \/ /\ SeekData(from) \in from .. Len(source) - 1
            /\ source[SeekData(from) + 1] # Hole
            /\ \A i \in from + 1 .. SeekData(from) : source[i] = Hole
<1> DEFINE found == {i \in from .. Len(source) - 1 : source[i + 1] # Hole}
<1>1. Len(source) \in Nat /\ found \subseteq Nat
  OBVIOUS
<1>2. \A i \in from + 1 .. Len(source) : i - 1 \notin found => source[i] = Hole
  BY <1>1
<1>3. CASE found = {}
  BY <1>2, <1>3 DEF SeekData
<1>4. CASE found # {}
  <2>1. SeekData(from) = Min(found)
    BY <1>4 DEF SeekData
  <2>2. SeekData(from) \in found /\ \A i \in found : SeekData(from) <= i
    BY <1>1, <1>4, <2>1, MinIsLeast
  <2>3. SeekData(from) \in from .. Len(source) - 1
        /\ source[SeekData(from) + 1] # Hole
    BY <2>2
  <2>4. ASSUME NEW i \in from + 1 .. SeekData(from) PROVE source[i] = Hole
    <3>1. i \in from + 1 .. Len(source) /\ ~(SeekData(from) <= i - 1)
      BY <1>1, <2>3, <2>4
    <3> QED BY <1>2, <2>2, <3>1
  <2> QED BY <2>3, <2>4
<1> QED BY <1>3, <1>4

\* The end of the data that starts at from.
LEMMA HoleFound ==
  ASSUME source \in Seq(Blocks), NEW from \in Nat, from < Len(source),
         source[from + 1] # Hole
  PROVE  /\ SeekHole(from) \in from + 1 .. Len(source)
         /\ \A i \in from + 1 .. SeekHole(from) : source[i] # Hole
<1> DEFINE holes == {i \in from .. Len(source) - 1 : source[i + 1] = Hole}
           found == holes \cup {Len(source)}
<1>1. Len(source) \in Nat /\ found \subseteq Nat /\ found # {}
  OBVIOUS
<1>2. SeekHole(from) = Min(found)
  BY DEF SeekHole
<1>3. SeekHole(from) \in found /\ \A i \in found : SeekHole(from) <= i
  BY <1>1, <1>2, MinIsLeast
<1>4. SeekHole(from) \in from .. Len(source) /\ SeekHole(from) # from
  BY <1>1, <1>3
<1>5. ASSUME NEW i \in from + 1 .. SeekHole(from) PROVE source[i] # Hole
  <2>1. i - 1 \in from .. Len(source) - 1 /\ ~(SeekHole(from) <= i - 1)
        /\ (i - 1) + 1 = i
    BY <1>1, <1>4, <1>5
  <2>2. i - 1 \notin holes
    BY <1>3, <2>1
  <2> QED BY <2>1, <2>2
<1> QED BY <1>1, <1>4, <1>5

-----------------------------------------------------------------------------
(* The inductive invariant.                                                *)

\* The destination is the source up to its own length.
Prefix ==
  /\ destination \in Seq(Blocks) /\ Len(destination) <= Len(source)
  /\ \A i \in 1 .. Len(destination) : Same(destination[i], source[i])

\* Between segments all positions agree.
BetweenSegments ==
  /\ src_offset = Len(destination) /\ destPos = Len(destination)
  /\ data_count + hole_count = Len(destination)

\* Inside one, the positions of the two files are the same, the segment from
\* src_offset to hole_start is copied as data, the destination reaches to them or, before
\* the first write, to the hole before the segment, and the counts are ahead.
InsideSegment ==
  /\ hole_start \in Nat /\ src_offset < hole_start /\ hole_start <= Len(source)
  /\ data_count + hole_count = hole_start
  /\ destPos \in src_offset .. hole_start /\ sourcePos = destPos
  /\ curr_data_count = hole_start - destPos
  /\ Len(destination) = destPos
     \/ (destPos = src_offset /\ Len(destination) <= destPos)
  /\ \A i \in Len(destination) + 1 .. destPos : source[i] = Hole
  /\ filled \/ \A i \in src_offset + 1 .. hole_start : source[i] # Hole

AtTheEnd ==
  /\ Len(destination) = data_count + hole_count
  /\ \A i \in Len(destination) + 1 .. Len(source) : source[i] = Hole

Exact ==
  /\ Prefix /\ src_offset \in Nat /\ data_count \in Nat /\ hole_count \in Nat
  /\ pc = "seekData" => BetweenSegments
  /\ pc = "copy"     => InsideSegment
  /\ pc = "success"  => AtTheEnd

CopyInv == /\ source \in Seq(Blocks) /\ short \in Nat
           /\ short = 0 => Exact

LEMMA CopyInit == Init => CopyInv
<1> SUFFICES ASSUME Init PROVE CopyInv
  OBVIOUS
<1>1. source \in Seq(Blocks)
  BY DEF Init, Files
<1>2. Len(source) \in Nat /\ destination = <<>> /\ Len(destination) = 0
  BY <1>1 DEF Init
<1> QED BY <1>1, <1>2 DEF Init, CopyInv, Exact, Prefix, BetweenSegments

\* The read and the write of a buffer that is written whole.
LEMMA BufferCopied ==
  ASSUME CopyInv, CopyBuffer, short' = 0 PROVE Exact'
<1> DEFINE k == Min({BufferSize, curr_data_count})
           got == ReadAt(sourcePos, k)
<1>0. PICK n \in 1 .. Len(got) :
        /\ short' = IF n < Len(got) THEN short + 1 ELSE short
        /\ destination' = WriteAt(destination, destPos, SubSeq(got, 1, n))
        /\ destPos' = destPos + n
        /\ curr_data_count' = curr_data_count - n
  BY DEF CopyBuffer
<1>1. /\ pc = "copy" /\ curr_data_count > 0 /\ pc' = pc
      /\ sourcePos' = sourcePos + Len(got)
      /\ UNCHANGED <<source, src_offset, hole_start, data_count, hole_count,
                     filled>>
  BY DEF CopyBuffer
<1>2. short = 0 /\ ~(n < Len(got))
  BY <1>0 DEF CopyInv
<1>3. /\ Prefix /\ InsideSegment /\ source \in Seq(Blocks) /\ src_offset \in Nat
      /\ data_count \in Nat /\ hole_count \in Nat
  BY <1>1, <1>2 DEF CopyInv, Exact
<1>4. /\ destPos \in Nat /\ curr_data_count \in Nat \ {0} /\ hole_start \in Nat
      /\ Len(source) \in Nat /\ Len(destination) \in Nat
  BY <1>1, <1>3 DEF InsideSegment, Prefix
<1>5. k \in {BufferSize, curr_data_count} /\ k <= curr_data_count /\ k \in Nat \ {0}
  BY <1>4, MinIsLeast, SparseCopyAssumption
<1>6. Min({k, Len(source) - sourcePos}) = k
  <2>1. Len(source) - sourcePos \in Nat /\ k <= Len(source) - sourcePos
    BY <1>3, <1>4, <1>5 DEF InsideSegment
  <2>2. /\ Min({k, Len(source) - sourcePos}) \in {k, Len(source) - sourcePos}
        /\ Min({k, Len(source) - sourcePos}) <= k
    BY <1>5, <2>1, MinIsLeast
  <2> QED BY <1>5, <2>1, <2>2
<1> DEFINE block(i) == IF source[destPos + i] = Hole THEN Zero
                       ELSE source[destPos + i]
<1>7. \A i \in 1 .. k : block(i) \in Blocks /\ Same(block(i), source[destPos + i])
  <2> SUFFICES ASSUME NEW i \in 1 .. k
               PROVE  block(i) \in Blocks /\ Same(block(i), source[destPos + i])
    OBVIOUS
  <2>1. /\ destPos + i \in src_offset + 1 .. hole_start
        /\ source[destPos + i] \in Blocks
    BY <1>3, <1>4, <1>5 DEF InsideSegment
  <2>2. Zero \in Blocks
    BY SparseCopyAssumption DEF Zero, Blocks
  <2>3. source[destPos + i] = Hole => filled
    BY <1>3, <2>1 DEF InsideSegment
  <2> QED BY <2>1, <2>2, <2>3 DEF Same
<1>8. got = [i \in 1 .. k |-> block(i)]
  BY <1>3, <1>6 DEF ReadAt, InsideSegment
<1>9. Len(got) = k /\ got \in Seq(Blocks) /\ \A i \in 1 .. k : got[i] = block(i)
  <2> HIDE DEF k, got, block
  <2>1. k \in Nat /\ got = [i \in 1 .. k |-> block(i)]
    BY <1>5, <1>8
  <2>2. got \in [1 .. k -> Blocks]
    BY <1>7, <2>1
  <2> QED BY <2>1, <2>2
<1> HIDE DEF block
<1> HIDE DEF k, got
<1>10. n = k
  BY <1>2, <1>5, <1>9
<1> DEFINE bytes == SubSeq(got, 1, n)
<1>11. Len(bytes) = k /\ \A i \in 1 .. k : bytes[i] = block(i)
  BY <1>5, <1>9, <1>10, SubSeqFull
<1> HIDE DEF bytes
<1>12. destination' = [i \in 1 .. destPos + k |->
                         IF i > destPos THEN bytes[i - destPos]
                         ELSE IF i <= Len(destination) THEN destination[i]
                         ELSE Hole]
  BY <1>0, <1>11 DEF WriteAt, bytes
<1>13. \A i \in 1 .. destPos + k :
         destination'[i] \in Blocks /\ Same(destination'[i], source[i])
  <2> SUFFICES ASSUME NEW i \in 1 .. destPos + k
               PROVE  destination'[i] \in Blocks /\ Same(destination'[i], source[i])
    OBVIOUS
  <2>1. CASE i > destPos
    <3>1. i - destPos \in 1 .. k /\ destPos + (i - destPos) = i
      BY <1>4, <1>5, <2>1
    <3> QED BY <1>7, <1>11, <1>12, <2>1, <3>1
  <2>2. CASE i <= Len(destination) /\ ~(i > destPos)
    BY <1>3, <1>4, <1>12, <2>2 DEF Prefix
  <2>3. CASE ~(i <= Len(destination)) /\ ~(i > destPos)
    <3>1. i \in Len(destination) + 1 .. destPos
      BY <1>4, <1>5, <2>3
    <3> QED BY <1>3, <1>12, <2>3, <3>1 DEF InsideSegment, Same, Blocks
  <2> QED BY <2>1, <2>2, <2>3
<1>14. destPos + k \in Nat /\ destPos + k <= hole_start
  BY <1>3, <1>4, <1>5 DEF InsideSegment
<1>16. destination' \in Seq(Blocks) /\ Len(destination') = destPos + k
  BY <1>12, <1>13, <1>14
<1>17. Prefix'
  BY <1>1, <1>3, <1>4, <1>13, <1>14, <1>16 DEF Prefix, InsideSegment, Same
<1>18. InsideSegment'
  BY <1>0, <1>1, <1>3, <1>4, <1>5, <1>9, <1>10, <1>14, <1>16 DEF InsideSegment
<1> QED BY <1>1, <1>3, <1>17, <1>18 DEF Exact

LEMMA CopyStep == CopyInv /\ [Next]_vars => CopyInv'
<1> SUFFICES ASSUME CopyInv, [Next]_vars PROVE CopyInv'
  OBVIOUS
<1>1. source' = source
  BY DEF Next, NextSegment, Segment, HoleFails, Finish, CopyBuffer, CopyFails, EndSegment, Done, vars,
         fileVars
<1>2. short' \in Nat /\ (short' = 0 => short = 0)
  <2>1. CASE CopyBuffer
    <3>1. short' = short + 1 \/ short' = short
      BY <2>1 DEF CopyBuffer
    <3> QED BY <3>1 DEF CopyInv
  <2>2. CASE ~CopyBuffer
    BY <2>2 DEF Next, NextSegment, Segment, HoleFails, Finish, CopyFails, EndSegment, Done, vars,
                fileVars, CopyInv
  <2> QED BY <2>1, <2>2
<1>3. ASSUME short' = 0 PROVE Exact'
  <2>0. /\ Exact /\ source \in Seq(Blocks)
        /\ Len(source) \in Nat /\ Len(destination) \in Nat
    BY <1>2, <1>3 DEF CopyInv, Exact, Prefix
  <2>1. CASE NextSegment
    <3> PICK h : h = hole_start'
      OBVIOUS
    <3> PICK d : d = SeekData(src_offset)
      OBVIOUS
    <3>1. /\ pc = "seekData" /\ d # -1 /\ pc' = "copy"
          /\ IF d > src_offset
             THEN /\ hole_count' = hole_count + (d - src_offset)
                  /\ destPos' = Len(destination) + (d - src_offset)
             ELSE UNCHANGED <<hole_count, destPos>>
          /\ hole_start' = h /\ curr_data_count' = h - d
          /\ data_count' = data_count + (h - d)
          /\ src_offset' = d /\ sourcePos' = d /\ destination' = destination
      BY <2>1 DEF NextSegment, Segment
    <3>2. \/ h = SeekHole(d) /\ filled' = filled
          \/ h = Len(source) /\ filled' = TRUE
      BY <2>1 DEF NextSegment, Segment, HoleStart
    <3>3. BetweenSegments /\ Prefix /\ src_offset \in Nat
          /\ data_count \in Nat /\ hole_count \in Nat
      BY <2>0, <3>1 DEF Exact
    <3>4. /\ d \in src_offset .. Len(source) - 1 /\ source[d + 1] # Hole
          /\ \A i \in src_offset + 1 .. d : source[i] = Hole
      BY <2>0, <3>1, <3>3, DataFound
    <3>5. d \in Nat /\ d < Len(source)
      BY <2>0, <3>3, <3>4
    <3>6. h \in d + 1 .. Len(source)
      BY <2>0, <3>4, <3>5, <3>2, HoleFound
    <3>7. filled' \/ \A i \in d + 1 .. h : source[i] # Hole
      BY <2>0, <3>4, <3>5, <3>2, HoleFound
    <3>8. h \in Nat /\ d < h /\ h - d \in Nat
      BY <2>0, <3>5, <3>6
    <3>9. destPos' = d /\ hole_count' = hole_count + (d - src_offset)
      <4>1. /\ src_offset = Len(destination) /\ destPos = src_offset
            /\ src_offset \in Nat /\ hole_count \in Nat
        BY <3>3 DEF BetweenSegments
      <4>2. d >= src_offset
        BY <3>4, <4>1
      <4>3. CASE d > src_offset
        BY <3>1, <3>5, <4>1, <4>3
      <4>4. CASE d = src_offset
        BY <3>1, <3>5, <4>1, <4>4
      <4> QED BY <3>5, <4>1, <4>2, <4>3, <4>4
    <3>10. /\ pc' = "copy" /\ hole_start' = h /\ curr_data_count' = h - d
          /\ data_count' = data_count + (h - d)
          /\ src_offset' = d /\ sourcePos' = d /\ destination' = destination
      BY <3>1
    <3>11. /\ src_offset \in Nat /\ data_count \in Nat /\ hole_count \in Nat
          /\ data_count + hole_count = src_offset /\ src_offset = Len(destination)
      BY <3>3 DEF BetweenSegments
    <3>12. d - src_offset \in Nat
      BY <3>4, <3>5, <3>11
    <3>13. hole_count' \in Nat /\ data_count' \in Nat
          /\ data_count' + hole_count' = h
      <4> PICK x \in Nat : x = d - src_offset
        BY <3>12
      <4> PICK y \in Nat : y = h - d
        BY <3>8
      <4>1. hole_count' = hole_count + x /\ data_count' = data_count + y
        BY <3>9, <3>10
      <4>2. src_offset + x = d /\ d + y = h
        BY <3>5, <3>8, <3>11
      <4>3. hole_count' \in Nat /\ data_count' \in Nat
        BY <3>11, <4>1
      <4>4. data_count' + hole_count' = (data_count + hole_count) + (x + y)
        BY <3>11, <4>1
      <4>5. (data_count + hole_count) + (x + y) = h
        <5>1. src_offset + (x + y) = (src_offset + x) + y
          BY <3>11
        <5> QED BY <3>11, <4>2, <5>1
      <4> QED BY <4>3, <4>4, <4>5
    <3>14. Len(destination') = Len(destination) /\ Len(source') = Len(source)
      BY <1>1, <3>10
    <3>15. InsideSegment'
      <4>1. /\ (hole_start \in Nat /\ src_offset < hole_start
                /\ hole_start <= Len(source))'
            /\ (data_count + hole_count = hole_start)'
            /\ (destPos \in src_offset .. hole_start /\ sourcePos = destPos)'
            /\ (curr_data_count = hole_start - destPos)'
        <5>1. /\ hole_start' = h /\ src_offset' = d /\ destPos' = d
              /\ sourcePos' = d /\ curr_data_count' = h - d
          BY <3>9, <3>10
        <5>2. h \in Nat /\ d \in Nat /\ d < h /\ h <= Len(source)
          BY <2>0, <3>5, <3>6, <3>8
        <5>3. d \in d .. h
          BY <5>2
        <5>4. (data_count + hole_count)' = h
          BY <3>13
        <5> QED BY <3>14, <5>1, <5>2, <5>3, <5>4
      <4>2. (destPos = src_offset /\ Len(destination) <= destPos)'
        BY <3>4, <3>5, <3>9, <3>10, <3>11, <3>14
      <4>3. (\A i \in Len(destination) + 1 .. destPos : source[i] = Hole)'
        BY <1>1, <3>4, <3>9, <3>10, <3>11, <3>14
      <4>4. (filled \/ \A i \in src_offset + 1 .. hole_start : source[i] # Hole)'
        BY <1>1, <3>10, <3>7
      <4> QED BY <4>1, <4>2, <4>3, <4>4 DEF InsideSegment
    <3>16. Prefix'
      BY <1>1, <3>1, <3>3, <3>2 DEF Prefix, Same
    <3> QED BY <3>5, <3>10, <3>16, <3>13, <3>15 DEF Exact
  <2>2. CASE Finish
    <3>1. /\ pc = "seekData" /\ pc' = "success" /\ SeekData(src_offset) = -1
          /\ UNCHANGED <<fileVars, countVars, filled>>
      BY <2>2 DEF Finish
    <3>2. BetweenSegments /\ src_offset \in Nat
      BY <2>0, <3>1 DEF Exact
    <3>3. \A i \in src_offset + 1 .. Len(source) : source[i] = Hole
      BY <2>0, <3>1, <3>2, DataFound
    <3> QED BY <2>0, <3>1, <3>2, <3>3
        DEF Exact, Prefix, Same, BetweenSegments, AtTheEnd, fileVars, countVars
  <2>3. CASE CopyBuffer
    BY <1>3, <2>3, BufferCopied
  <2>4. CASE CopyFails
    BY <2>0, <2>4 DEF CopyFails, Exact, Prefix, Same, fileVars, countVars
  <2>5. CASE EndSegment
    <3>1. /\ pc = "copy" /\ pc' = "seekData" /\ src_offset' = hole_start
          /\ curr_data_count = 0 \/ sourcePos >= Len(source)
          /\ UNCHANGED <<fileVars, data_count, hole_count, filled>>
      BY <2>5 DEF EndSegment
    <3>2. InsideSegment /\ src_offset \in Nat
      BY <2>0, <3>1 DEF Exact
    <3>3. destPos = hole_start /\ Len(destination) = hole_start
      BY <2>0, <3>1, <3>2 DEF InsideSegment
    <3> QED BY <2>0, <3>1, <3>2, <3>3
        DEF Exact, Prefix, Same, BetweenSegments, InsideSegment, fileVars
  <2>6. CASE UNCHANGED vars
    BY <2>0, <2>6 DEF vars, fileVars, countVars, Exact, Prefix, Same,
                      BetweenSegments, InsideSegment, AtTheEnd
  <2>7. CASE HoleFails
    <3> DEFINE d == SeekData(src_offset)
    <3>1. /\ pc = "seekData" /\ d > src_offset /\ pc' = "failure"
          /\ hole_count' = hole_count + (d - src_offset)
          /\ UNCHANGED <<fileVars, src_offset, data_count, filled>>
      BY <2>7 DEF HoleFails
    <3>2. src_offset \in Nat /\ (d = -1 \/ d \in src_offset .. Len(source) - 1)
      BY <2>0, <3>1, DataFound DEF Exact
    <3> HIDE DEF d
    <3>3. d - src_offset \in Nat
      BY <3>1, <3>2
    <3>4. hole_count' \in Nat
      BY <2>0, <3>1, <3>3 DEF Exact
    <3> QED BY <2>0, <3>1, <3>4 DEF Exact, Prefix, Same, fileVars
  <2> QED BY <2>1, <2>2, <2>3, <2>4, <2>5, <2>6, <2>7 DEF Next, Done
<1> QED BY <1>1, <1>2, <1>3 DEF CopyInv

\* Without a short write the positions of both files and the counters agree in
\* every state, whatever the source and the size of the buffer.
THEOREM CopyInvariant == Spec => []CopyInv
  BY CopyInit, CopyStep, PTL DEF Spec

\* A copy that suffers no short write has the data and the holes of the source
\* where the source has them, and the report is its length.
THEOREM CopyIsExact == Spec => []CopyExact
<1>1. CopyInv => CopyExact
  BY DEF CopyInv, Exact, Prefix, AtTheEnd, CopyExact
<1> QED BY <1>1, CopyInvariant, PTL
=============================================================================

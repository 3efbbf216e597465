----------------------------- MODULE SparseCopy ------------------------------
(***************************************************************************)
(* FS10/copy.cpp: copies a file with its holes, segment by segment.  A     *)
(* file is a sequence of blocks, each a hole or some data; the disk may    *)
(* take less than write was given, or fail.                                *)
(***************************************************************************)
EXTENDS Integers, Sequences, SequencesExt

CONSTANTS Hole, Data,  \* a block that is a hole; what a data block can hold
          MaxSize,     \* bound: blocks of the source
          BufferSize,  \* blocks that one read can return; 100 bytes in the code
          MaxShort     \* bound: short writes

ASSUME SparseCopyAssumption ==
  /\ Hole \notin Data /\ Data # {}
  /\ MaxSize \in Nat /\ BufferSize \in Nat \ {0} /\ MaxShort \in Nat

VARIABLES
  pc, source, sourcePos, destination, destPos,
  src_offset, hole_start, curr_data_count, data_count, hole_count,
  short, filled    \* auxiliary: short writes so far; SEEK_HOLE has failed, and
                   \* holes are copied like data

fileVars  == <<source, sourcePos, destination, destPos>>
countVars == <<src_offset, hole_start, curr_data_count, data_count, hole_count>>
vars == <<pc, fileVars, countVars, short, filled>>

Blocks == Data \cup {Hole}
Files  == UNION {[1 .. n -> Blocks] : n \in 0 .. MaxSize}

Init ==
  /\ pc = "seekData" /\ source \in Files /\ sourcePos = 0
  /\ destination = <<>> /\ destPos = 0
  /\ src_offset = 0 /\ hole_start = 0 /\ curr_data_count = 0
  /\ data_count = 0 /\ hole_count = 0 /\ short = 0
  /\ filled = FALSE

\* lseek with SEEK_DATA and SEEK_HOLE: the first offset at or after from with
\* data, or -1; and the first in a hole, the end of the file being one.
SeekData(from) ==
  LET found == {i \in from .. Len(source) - 1 : source[i + 1] # Hole}
  IN  IF found = {} THEN -1 ELSE Min(found)
SeekHole(from) ==
  Min({i \in from .. Len(source) - 1 : source[i + 1] = Hole} \cup {Len(source)})

\* A hole of a file reads as zeros; a write after the end leaves a hole.
Zero == CHOOSE d \in Data : TRUE
ReadAt(from, n) ==
  [i \in 1 .. Min({n, Len(source) - from}) |->
     IF source[from + i] = Hole THEN Zero ELSE source[from + i]]
WriteAt(file, pos, bytes) ==
  [i \in 1 .. pos + Len(bytes) |->
     IF i > pos THEN bytes[i - pos] ELSE IF i <= Len(file) THEN file[i] ELSE Hole]

-----------------------------------------------------------------------------
Finish == /\ pc = "seekData" /\ SeekData(src_offset) = -1
          /\ pc' = "success"
          /\ UNCHANGED <<fileVars, countVars, short, filled>>

\* Where a segment ends, or where the file does when lseek cannot tell.
HoleStart(data_start) ==
  \/ hole_start' = SeekHole(data_start) /\ UNCHANGED filled
  \/ hole_start' = Len(source) /\ filled' = TRUE

Segment(data_start) ==
  /\ HoleStart(data_start)
  /\ curr_data_count' = hole_start' - data_start
  /\ data_count' = data_count + curr_data_count'
  /\ src_offset' = data_start /\ sourcePos' = data_start
  /\ pc' = "copy"
  /\ UNCHANGED <<source, destination, short>>

\* Faulty variant, for sensitivity runs: the hole is sought from the start of
\* the destination.
NextSegmentFromStart ==
  LET data_start == SeekData(src_offset) IN
  /\ pc = "seekData" /\ data_start # -1
  /\ destPos' = IF data_start > src_offset THEN data_start - src_offset ELSE destPos
  /\ hole_count' = hole_count + (data_start - src_offset)
  /\ Segment(data_start)

\* The next segment of data, and the hole before it.
NextSegment ==
  LET data_start == SeekData(src_offset) IN
  /\ pc = "seekData" /\ data_start # -1
  /\ IF data_start > src_offset
     THEN /\ hole_count' = hole_count + (data_start - src_offset)
          /\ destPos' = Len(destination) + (data_start - src_offset)
     ELSE UNCHANGED <<hole_count, destPos>>
  /\ Segment(data_start)

\* The offset of the destination cannot be moved past the hole.
HoleFails ==
  LET data_start == SeekData(src_offset) IN
  /\ pc = "seekData" /\ data_start > src_offset
  /\ hole_count' = hole_count + (data_start - src_offset)
  /\ pc' = "failure"
  /\ UNCHANGED <<fileVars, src_offset, hole_start, curr_data_count, data_count,
                 short, filled>>

\* One read and one write of the inner loop.  The source has advanced by all
\* that was read, the count goes down by what was written.
CopyBuffer ==
  LET got == ReadAt(sourcePos, Min({BufferSize, curr_data_count})) IN
  /\ pc = "copy" /\ curr_data_count > 0 /\ got # <<>>
  /\ sourcePos' = sourcePos + Len(got)
  /\ \E n \in 1 .. Len(got) :
       /\ short' = IF n < Len(got) THEN short + 1 ELSE short
       /\ short' <= MaxShort
       /\ destination' = WriteAt(destination, destPos, SubSeq(got, 1, n))
       /\ destPos' = destPos + n
       /\ curr_data_count' = curr_data_count - n
  /\ UNCHANGED <<pc, source, src_offset, hole_start, data_count, hole_count,
                 filled>>

\* read or write returns an error.
CopyFails ==
  /\ pc = "copy" /\ curr_data_count > 0
  /\ pc' = "failure"
  /\ UNCHANGED <<fileVars, countVars, short, filled>>

\* Faulty variant: no break at the end of the file.
EndSegmentNoBreak ==
  /\ pc = "copy" /\ curr_data_count = 0
  /\ src_offset' = hole_start /\ pc' = "seekData"
  /\ UNCHANGED <<fileVars, hole_start, curr_data_count, data_count, hole_count,
                 short, filled>>

EndSegment ==
  /\ pc = "copy"
  /\ curr_data_count = 0 \/ sourcePos >= Len(source)
  /\ src_offset' = hole_start
  /\ pc' = "seekData"
  /\ UNCHANGED <<fileVars, hole_start, curr_data_count, data_count, hole_count,
                 short, filled>>

Done == pc \in {"success", "failure"} /\ UNCHANGED vars

Next == \/ NextSegment \/ HoleFails \/ Finish \/ CopyBuffer \/ CopyFails
        \/ EndSegment \/ Done
Spec == Init /\ [][Next]_vars
FairSpec == Spec /\ WF_vars(NextSegment \/ Finish \/ CopyBuffer \/ EndSegment)

-----------------------------------------------------------------------------
(* Properties.                                                             *)

\* A block of the destination and one of the source; zeros stand for a hole
\* only after SEEK_HOLE has failed.
Same(d, b) == d = b \/ (filled /\ b = Hole /\ d = Zero)

\* Unless a write was short, the destination is at every moment the source
\* up to some block: same data, same holes, in the same places.  And what the
\* program reports at the end is then the length of the destination, and what
\* is missing from it is a hole.
CopyExact ==
  short = 0 =>
    /\ Len(destination) <= Len(source)
    /\ \A i \in 1 .. Len(destination) : Same(destination[i], source[i])
    /\ pc = "success" =>
         /\ Len(destination) = data_count + hole_count
         /\ \A i \in Len(destination) + 1 .. Len(source) : source[i] = Hole

\* The program ends, even if every write is short or the disk is full.
Terminates == <>(pc \in {"success", "failure"})
=============================================================================

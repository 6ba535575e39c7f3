----------------------------- MODULE FrameBuffers -----------------------------
(* DoubleBuffer of internal/buffer/ringbuf.go and DoubleSeqLock of           *)
(* internal/lockfree/seqlock.go: frames of Size samples, filled at the back  *)
(* and read at the front.  A behaviour is about one of them, chosen in Init. *)
(*                                                                           *)
(* Writers hold a mutex, so that one of them is enough; readers hold none.   *)
(* An action is one access: a sample, the sequence number, or the two slices.*)
(* Accepted samples are numbered 1, 2, 3, ...; an unwritten one is 0.        *)
EXTENDS Integers, Sequences

CONSTANTS
  FrameKinds,   \* the buffers of this instance
  Size,         \* samples in a frame
  MaxMany,      \* bound: samples in a WriteMany
  MaxFrames     \* bound: frames that are filled

ASSUME FramesAssumption ==
  /\ FrameKinds \subseteq {"DoubleBuffer", "DoubleSeqLock"}
  /\ Size \in Nat \ {0} /\ MaxMany \in Nat \ {0} /\ MaxFrames \in Nat

VARIABLES
  frameKind,
  memory, front,         \* the two slices, and which of them is the front
  fill,                  \* writeIdx
  seqNo,                 \* seq of DoubleSeqLock
  swapCh,                \* the notification channel holds a token
  writer,                \* step of the writer and samples it still has
  reader,                \* step of the reader and what it has
  stored, swaps          \* history: samples accepted, swaps done

frameVars == <<frameKind, memory, front, fill, seqNo, swapCh, writer, reader, stored, swaps>>

NoRead == [at |-> "idle", seq |-> 0, slice |-> 1, frame |-> 0, data |-> <<>>]
Back == 3 - front

FrameInit ==
  /\ frameKind \in FrameKinds
  /\ memory = [b \in 1..2 |-> [i \in 1..Size |-> 0]] /\ front = 1 /\ fill = 0
  /\ seqNo = 0 /\ swapCh = FALSE /\ writer = [at |-> "idle", left |-> 0]
  /\ reader = NoRead /\ stored = 0 /\ swaps = 0

-------------------------------------------------------------------------------
(* Write swaps when its sample has filled the back; WriteMany swaps before   *)
(* the sample that finds it full, and so may leave a full one behind, which  *)
(* Write refuses to touch.                                                   *)
Swapping == IF frameKind = "DoubleSeqLock" THEN "count" ELSE "swap"
Begin(n, step) ==
  /\ writer.at = "idle" /\ stored + n <= Size * MaxFrames
  /\ writer' = [at |-> step, left |-> n]
  /\ UNCHANGED <<frameKind, memory, front, fill, seqNo, swapCh, reader, stored, swaps>>

WriteOne == fill < Size /\ Begin(1, "store1")
WriteMany(n) == Begin(n, IF fill < Size THEN "store" ELSE Swapping)

StoreSample ==
  /\ writer.at \in {"store1", "store"}
  /\ memory' = [memory EXCEPT ![Back][fill + 1] = stored + 1]
  /\ fill' = fill + 1 /\ stored' = stored + 1
  /\ writer' = [left |-> writer.left - 1,
       at |-> IF writer.left = 1 /\ (writer.at = "store" \/ fill + 1 < Size) THEN "idle"
              ELSE IF fill + 1 < Size THEN writer.at ELSE Swapping]
  /\ UNCHANGED <<frameKind, front, seqNo, swapCh, reader, swaps>>

CountSwap ==
  /\ writer.at = "count" /\ seqNo' = seqNo + 1 /\ writer' = [writer EXCEPT !.at = "swap"]
  /\ UNCHANGED <<frameKind, memory, front, fill, swapCh, reader, stored, swaps>>

Swap ==
  /\ writer.at = "swap" /\ front' = Back /\ fill' = 0 /\ swapCh' = TRUE /\ swaps' = swaps + 1
  /\ writer' = [writer EXCEPT !.at = IF writer.left = 0 THEN "idle" ELSE "store"]
  /\ UNCHANGED <<frameKind, memory, seqNo, reader, stored>>

-------------------------------------------------------------------------------
(* A reader, told by the channel or of its own accord, takes the front slice *)
(* and copies it.  With DoubleSeqLock it loads the sequence number before    *)
(* and after, and starts again unless they are equal and even.               *)
ReadStep == UNCHANGED <<frameKind, memory, front, fill, seqNo, writer, stored, swaps>>

SwapNotify == swapCh /\ swapCh' = FALSE /\ reader.at = "idle" /\ UNCHANGED reader /\ ReadStep

LoadSeqNo ==
  /\ reader.at \in {"idle", "again"} /\ frameKind = "DoubleSeqLock"
  /\ reader' = [NoRead EXCEPT !.at = "take", !.seq = seqNo]
  /\ ReadStep /\ UNCHANGED swapCh

TakeFront ==
  /\ reader.at = (IF frameKind = "DoubleSeqLock" THEN "take" ELSE "idle")
  /\ reader' = [reader EXCEPT !.at = "copy", !.slice = front, !.frame = swaps]
  /\ ReadStep /\ UNCHANGED swapCh

CopySample ==
  /\ reader.at = "copy"
  /\ reader' = [reader EXCEPT !.data = Append(@, memory[reader.slice][Len(@) + 1]),
       !.at = IF Len(reader.data) + 1 < Size THEN "copy"
              ELSE IF frameKind = "DoubleSeqLock" THEN "check" ELSE "read"]
  /\ ReadStep /\ UNCHANGED swapCh

(* Slips for mutants: the number is not loaded again, or only an odd one is  *)
(* accepted.                                                                 *)
Unchecked(seq) == seq % 2 = 0
OddAccepted(seq) == seqNo = seq /\ seq % 2 = 1
Unmoved(seq) == seqNo = seq /\ seq % 2 = 0

CheckSeqNo ==
  /\ reader.at = "check"
  /\ reader' = IF Unmoved(reader.seq) THEN [reader EXCEPT !.at = "read"]
               ELSE [NoRead EXCEPT !.at = "again"]
  /\ ReadStep /\ UNCHANGED swapCh

ReadReturn == reader.at = "read" /\ reader' = NoRead /\ ReadStep /\ UNCHANGED swapCh

FrameNext ==
  \/ WriteOne \/ \E n \in 1..MaxMany : WriteMany(n)
  \/ StoreSample \/ CountSwap \/ Swap
  \/ SwapNotify \/ LoadSeqNo \/ TakeFront \/ CopySample \/ CheckSeqNo \/ ReadReturn

-------------------------------------------------------------------------------
FrameTypeOK ==
  /\ front \in 1..2 /\ fill \in 0..Size /\ writer.left \in 0..MaxMany
  /\ Len(reader.data) <= Size /\ swapCh \in BOOLEAN

(* The samples of frame j; frame 0 is the one of the start.                  *)
Frame(j) == [i \in 1..Size |-> IF j = 0 THEN 0 ELSE Size * (j - 1) + i]

(* Frames are filled and put in front in order, none lost or repeated.       *)
FramesInOrder ==
  /\ stored = Size * swaps + fill
  /\ memory[front] = Frame(swaps)
  /\ \A i \in 1..fill : memory[Back][i] = Size * swaps + i

(* A reader keeps the slice it took while the writer goes on, and the writer *)
(* fills that slice again after the next swap, a sample at a time.  A sample *)
(* that was read is the one of the frame taken, unless the writer has since  *)
(* come to its place again; and where DoubleSeqLock had counted exactly the  *)
(* swaps done when the frame was taken, its second look at the number leaves *)
(* no such exception.  An odd number of swaps is never accepted.             *)
Refilled(f, i) == stored >= Size * (f + 1) + i
ReadsWhole ==
  reader.at = "read" =>
    /\ \A i \in 1..Size :
         ~Refilled(reader.frame, i) \/ (frameKind = "DoubleSeqLock" /\ reader.seq = reader.frame)
           => reader.data[i] = Frame(reader.frame)[i]
    /\ frameKind = "DoubleSeqLock" => reader.seq % 2 = 0

FramesWhole == FrameTypeOK /\ FramesInOrder /\ ReadsWhole

(* ReadFront starts again and again while the number is odd, and nothing but *)
(* a further swap helps it: otherwise, with the writers at rest, it returns. *)
ReadFrontGoesOn ==
  reader.at # "idle" /\ (LoadSeqNo \/ TakeFront \/ CopySample \/ CheckSeqNo \/ ReadReturn)
ReadFrontEnds == []<>(reader.at \in {"idle", "read"}) \/ <>[](Swapping = "count" /\ seqNo % 2 = 1)
===============================================================================

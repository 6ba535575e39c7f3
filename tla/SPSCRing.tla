------------------------------ MODULE SPSCRing ------------------------------
(* The single-producer single-consumer ring of internal/lockfree/spsc.go:  *)
(* SPSCRing (Write, WriteBatch, Read, ReadBatch, Peek, PeekLatest, Count,  *)
(* Clear) and SPSCByteRing, which runs the same protocol over bytes.       *)
(*                                                                         *)
(* One action is one shared access: a load or a store of an atomic         *)
(* position, or the copy of one slot.  writePos is stored only by the      *)
(* producer, so the producer's own load of it is part of its next step.    *)
(* Positions are uint64 values and only their subtractions can wrap;       *)
(* Word is 2^64 in the program.                                            *)
EXTENDS Integers, Sequences, FiniteSets

CONSTANTS
  Capacity,      \* capacity after rounding up to a power of two
  Word,          \* the modulus of a position, 2^64
  Samples,       \* the values a slot can be given
  Blank,         \* the zero value of a slot that was never written
  Consumers,     \* threads that call Read, ReadBatch, Peek
  Observers,     \* threads that call Count, PeekLatest
  ProducerOps,   \* the operations the producer calls
  ConsumerOps,   \* the operations a consumer calls
  ObserverOps,   \* the operations an observer calls
  MaxBatch,      \* bound: longest batch offered, and most samples asked for
  MaxSent        \* bound: the producer stops before position MaxSent

ASSUME CapacityAssumption == Capacity \in Nat /\ Capacity > 0
ASSUME BoundsAssumption == MaxBatch \in Nat /\ MaxSent \in Nat
ASSUME WordAssumption == Word \in Nat /\ Capacity < Word /\ MaxSent < Word
ASSUME ThreadsAssumption == Consumers \cap Observers = {}
ASSUME OpsAssumption ==
  /\ ProducerOps \subseteq {"Write", "WriteBatch", "ByteWrite"}
  /\ ConsumerOps \subseteq {"Read", "ReadBatch", "Peek", "Count"}
  /\ ObserverOps \subseteq {"PeekLatest", "Count"}

Readers == Consumers \cup Observers

\* What makes the ring single-consumer; the safety theorems assume it.
SingleConsumer == \A c, d \in Consumers : c = d

VARIABLES
  writePos, readPos,   \* the two atomic positions
  readCache,           \* the producer's cached copy of readPos
  buffer,              \* the slots
  wpc, wbatch, wi,     \* producer: where it is, its batch, slots copied so far
  rpc, rop, rwant,     \* reader: where it is, its operation, samples asked for
  rfrom, rcount, rout, \* reader: first position, samples to copy, copies made
  sent, delivered      \* history: samples published, samples consumed

writerVars == <<readCache, wpc, wbatch, wi>>
readerVars == <<rpc, rop, rwant, rfrom, rcount, rout>>
vars == <<writePos, readPos, buffer, writerVars, readerVars, sent, delivered>>

----------------------------------------------------------------------------
\* Plausible slips, one per definition below: each must break a property.
SlotMaskShort(p) == IF Capacity = 1 THEN 0 ELSE p % (Capacity - 1)
FreeOneMore(r) == (Capacity - (writePos - r)) + 1
CountReadsFirst(op) == op = "PeekLatest"
PeekReadsFirst(op) == op = "Count"
AdvanceByWant(r) == rfrom[r] + rwant[r]

----------------------------------------------------------------------------
\* uint64 subtraction, idx & mask, and the int conversion of Count.
Sub64(a, b) == IF b <= a THEN a - b ELSE (a - b) + Word
Slot(p) == p % Capacity
Signed(x) == IF 2 * x < Word THEN x ELSE x - Word
AtMost(n, k) == IF n > k THEN k ELSE n

Free(r) == Sub64(Capacity, Sub64(writePos, r))
Full(r) == Sub64(writePos, r) >= Capacity

Batches == UNION {[1..n -> Samples] : n \in 1..MaxBatch}
Singles == [1..1 -> Samples]

Init ==
  /\ writePos = 0 /\ readPos = 0 /\ readCache = 0
  /\ buffer = [i \in 0..(Capacity - 1) |-> Blank]
  /\ wpc = "idle" /\ wbatch = <<>> /\ wi = 0
  /\ rpc = [r \in Readers |-> "idle"]
  /\ rop = [r \in Readers |-> "Count"]
  /\ rwant = [r \in Readers |-> 0]
  /\ rfrom = [r \in Readers |-> 0]
  /\ rcount = [r \in Readers |-> 0]
  /\ rout = [r \in Readers |-> <<>>]
  /\ sent = <<>> /\ delivered = <<>>

----------------------------------------------------------------------------
\* Producer.  StartCopy fixes how much of the offered batch is accepted.
StartCopy(batch, r) ==
  /\ wpc' = "copy"
  /\ wbatch' = SubSeq(batch, 1, AtMost(Len(batch), Free(r)))
  /\ wi' = 0

\* Write and SPSCByteRing.Write test the cached read position first.
CachedCall(batch) ==
  /\ wpc = "idle"
  /\ writePos + Len(batch) <= MaxSent
  /\ \/ /\ Full(readCache)
        /\ wpc' = "refresh" /\ wbatch' = batch /\ wi' = 0
     \/ /\ ~Full(readCache)
        /\ StartCopy(batch, readCache)
  /\ UNCHANGED <<writePos, readPos, readCache, buffer, readerVars, sent, delivered>>

WriteCall == "Write" \in ProducerOps /\ \E batch \in Singles : CachedCall(batch)
ByteWriteCall == "ByteWrite" \in ProducerOps /\ \E batch \in Batches : CachedCall(batch)

\* The cache says full: load the read position, and give up if it is so.
WriteRefresh ==
  /\ wpc = "refresh"
  /\ readCache' = readPos
  /\ \/ Full(readPos) /\ wpc' = "idle" /\ wbatch' = <<>> /\ wi' = 0
     \/ ~Full(readPos) /\ StartCopy(wbatch, readPos)
  /\ UNCHANGED <<writePos, readPos, buffer, readerVars, sent, delivered>>

\* WriteBatch always loads the read position and leaves the cache alone.
WriteBatchCall ==
  /\ "WriteBatch" \in ProducerOps
  /\ wpc = "idle"
  /\ \E batch \in Batches :
       writePos + Len(batch) <= MaxSent /\ StartCopy(batch, readPos)
  /\ UNCHANGED <<writePos, readPos, readCache, buffer, readerVars, sent, delivered>>

CopyIn ==
  /\ wpc = "copy" /\ wi < Len(wbatch)
  /\ buffer' = [buffer EXCEPT ![Slot(writePos + wi)] = wbatch[wi + 1]]
  /\ wi' = wi + 1
  /\ UNCHANGED <<writePos, readPos, readCache, wpc, wbatch, readerVars, sent, delivered>>

Publish ==
  /\ wpc = "copy" /\ wi = Len(wbatch)
  /\ writePos' = writePos + Len(wbatch)
  /\ sent' = sent \o wbatch
  /\ wpc' = "idle" /\ wbatch' = <<>> /\ wi' = 0
  /\ UNCHANGED <<readPos, readCache, buffer, readerVars, delivered>>

----------------------------------------------------------------------------
\* Readers.  Read, ReadBatch and Peek load readPos and then writePos;
\* PeekLatest and Count load writePos and then readPos.
WritePosFirst(op) == op \in {"PeekLatest", "Count"}
FirstLoad(op) == IF WritePosFirst(op) THEN writePos ELSE readPos

ReadCall(r, op, n) ==
  /\ rpc[r] = "idle"
  /\ rpc' = [rpc EXCEPT ![r] = "load"]
  /\ rop' = [rop EXCEPT ![r] = op]
  /\ rwant' = [rwant EXCEPT ![r] = n]
  /\ rfrom' = [rfrom EXCEPT ![r] = FirstLoad(op)]
  /\ UNCHANGED <<writePos, readPos, buffer, writerVars, rcount, rout, sent, delivered>>

ConsumerCall(r) ==
  \E op \in ConsumerOps :
    \E n \in IF op = "Read" THEN {1} ELSE 1..MaxBatch : ReadCall(r, op, n)

ObserverCall(r) == \E op \in ObserverOps : \E n \in 1..MaxBatch : ReadCall(r, op, n)

\* The number of samples a reader finds at its second load.
Seen(r) ==
  IF WritePosFirst(rop[r])
  THEN Sub64(rfrom[r], readPos)
  ELSE Sub64(writePos, rfrom[r])

\* What Count returns, an int made of an unsigned difference.
CountResult(r) == Signed(Seen(r))

LosesTheLast(r) == Seen(r) <= 1

FindsNothing(r) ==
  CASE rop[r] = "Read"  -> rfrom[r] >= writePos
    [] rop[r] = "Count" -> TRUE
    [] OTHER            -> Seen(r) = 0

ReadLoad(r) ==
  /\ rpc[r] = "load"
  /\ \/ /\ FindsNothing(r)
        /\ rpc' = [rpc EXCEPT ![r] = "idle"]
        /\ UNCHANGED <<rfrom, rcount, rout>>
     \/ /\ ~FindsNothing(r)
        /\ rpc' = [rpc EXCEPT ![r] = "copy"]
        /\ LET n == AtMost(rwant[r], Seen(r)) IN
             /\ rcount' = [rcount EXCEPT ![r] = n]
             /\ rfrom' = [rfrom EXCEPT ![r] =
                            IF rop[r] = "PeekLatest" THEN Sub64(@, n) ELSE @]
        /\ rout' = [rout EXCEPT ![r] = <<>>]
  /\ UNCHANGED <<writePos, readPos, buffer, writerVars, rop, rwant, sent, delivered>>

\* The slot a copying reader takes next.
NextSlot(r) == Slot(rfrom[r] + Len(rout[r]))

CopyOut(r) ==
  /\ rpc[r] = "copy" /\ Len(rout[r]) < rcount[r]
  /\ rout' = [rout EXCEPT ![r] = Append(@, buffer[NextSlot(r)])]
  /\ UNCHANGED <<writePos, readPos, buffer, writerVars, rpc, rop, rwant, rfrom,
                 rcount, sent, delivered>>

Advance(r) == rfrom[r] + rcount[r]

\* Read and ReadBatch store the new read position; the peeks only return.
ReadReturn(r) ==
  /\ rpc[r] = "copy" /\ Len(rout[r]) = rcount[r]
  /\ rpc' = [rpc EXCEPT ![r] = "idle"]
  /\ rout' = [rout EXCEPT ![r] = <<>>]
  /\ \/ /\ rop[r] \in {"Read", "ReadBatch"}
        /\ readPos' = Advance(r)
        /\ delivered' = delivered \o rout[r]
     \/ /\ rop[r] \notin {"Read", "ReadBatch"}
        /\ UNCHANGED <<readPos, delivered>>
  /\ UNCHANGED <<writePos, buffer, writerVars, rop, rwant, rfrom, rcount, sent>>

----------------------------------------------------------------------------
\* Clear, whose callers (tests and benchmarks) have no other operation in
\* progress.  The old samples stay in the slots.
Clear ==
  /\ wpc = "idle" /\ \A r \in Readers : rpc[r] = "idle"
  /\ writePos' = 0 /\ readPos' = 0 /\ readCache' = 0
  /\ sent' = <<>> /\ delivered' = <<>>
  /\ UNCHANGED <<buffer, wpc, wbatch, wi, readerVars>>

ProducerCalls == WriteCall \/ ByteWriteCall \/ WriteBatchCall
ProducerGoesOn == WriteRefresh \/ CopyIn \/ Publish
ReaderGoesOn(r) == ReadLoad(r) \/ CopyOut(r) \/ ReadReturn(r)

Next ==
  \/ ProducerCalls
  \/ ProducerGoesOn
  \/ \E c \in Consumers : ConsumerCall(c)
  \/ \E o \in Observers : ObserverCall(o)
  \/ \E r \in Readers : ReaderGoesOn(r)
  \/ Clear

Spec == Init /\ [][Next]_vars

\* A call that was made runs on, and the consumer loop calls again and again.
FairSpec ==
  /\ Spec
  /\ WF_vars(ProducerGoesOn)
  /\ \A c \in Consumers : WF_vars(ConsumerCall(c)) /\ WF_vars(ReaderGoesOn(c))

----------------------------------------------------------------------------
\* Every variable keeps its type, and no position passes MaxSent.
TypeOK ==
  /\ writePos \in 0..MaxSent /\ readPos \in 0..MaxSent /\ readCache \in 0..MaxSent
  /\ buffer \in [0..(Capacity - 1) -> Samples \cup {Blank}]
  /\ wpc \in {"idle", "refresh", "copy"} /\ wbatch \in Seq(Samples) /\ wi \in Nat
  /\ rpc \in [Readers -> {"idle", "load", "copy"}]
  /\ rop \in [Readers -> {"Read", "ReadBatch", "Peek", "PeekLatest", "Count"}]
  /\ \A o \in Observers : rop[o] \in {"PeekLatest", "Count"}
  /\ rwant \in [Readers -> Nat] /\ rfrom \in [Readers -> 0..(Word - 1)]
  /\ rcount \in [Readers -> Nat]
  /\ rout \in [Readers -> Seq(Samples \cup {Blank})]
  /\ sent \in Seq(Samples) /\ delivered \in Seq(Samples \cup {Blank})

\* The bounds on which both sides base what they may touch.
Positions ==
  /\ readCache <= readPos /\ readPos <= writePos /\ writePos <= readPos + Capacity
  /\ Len(sent) = writePos /\ Len(delivered) = readPos

\* An accepted batch fits in the slots that were free when it was accepted.
WriterInRoom ==
  /\ wpc = "copy" => wi <= Len(wbatch) /\ writePos + Len(wbatch) <= readPos + Capacity
  /\ wpc # "idle" => writePos + Len(wbatch) <= MaxSent

\* A consumer copies only published, unconsumed samples, and copies them right.
ConsumerInData ==
  \A c \in Consumers :
    /\ rop[c] # "PeekLatest"
    /\ rpc[c] = "load" /\ rop[c] # "Count" => rfrom[c] = readPos
    /\ rpc[c] = "copy" =>
         /\ rop[c] # "Count" /\ rfrom[c] = readPos
         /\ readPos + rcount[c] <= writePos
         /\ Len(rout[c]) <= rcount[c]
         /\ \A k \in 1..Len(rout[c]) : rout[c][k] = sent[readPos + k]

\* UnreadKept: a published sample stays in its slot until it is consumed, and
\* the part of a batch already copied in stays too: Write and WriteBatch never
\* store over a slot the consumer has not released, however stale the cache.
UnreadKept ==
  /\ \A p \in readPos..(writePos - 1) : buffer[Slot(p)] = sent[p + 1]
  /\ wpc = "copy" => \A k \in 0..(wi - 1) : buffer[Slot(writePos + k)] = wbatch[k + 1]

\* DeliveredInOrder: what Read and ReadBatch returned, taken together, is what
\* was written, in order, with nothing lost, repeated or torn.
DeliveredInOrder ==
  /\ Len(delivered) <= Len(sent)
  /\ \A k \in 1..Len(delivered) : delivered[k] = sent[k]

\* The producer's next copy and reader r's next copy are of the same slot.
SlotConflict(r) ==
  /\ wpc = "copy" /\ wi < Len(wbatch)
  /\ rpc[r] = "copy" /\ Len(rout[r]) < rcount[r]
  /\ Slot(writePos + wi) = NextSlot(r)

\* ConsumerRaceFree: the producer and the consumer never access one slot at the
\* same time, so no sample is read while it is being stored.  (An observer that
\* runs PeekLatest beside a consumer has no such guarantee.)
ConsumerRaceFree == \A c \in Consumers : ~SlotConflict(c)

\* PeekRaceFree: on a ring that nobody consumes, PeekLatest in any thread is
\* free of races with Write and WriteBatch.
PeekRaceFree == Consumers = {} => \A o \in Observers : ~SlotConflict(o)

\* CountWithinCapacity: Count, whose two loads are not one step, never reports
\* more than the capacity, and reports a full ring (IsFull) only of a ring that
\* is full when its second load runs.
CountWithinCapacity ==
  \A r \in Readers : rpc[r] = "load" /\ rop[r] = "Count" =>
    /\ CountResult(r) <= Capacity
    /\ CountResult(r) = Capacity => writePos - readPos = Capacity

\* PeekIsPublished: on a ring that nobody consumes (the gateway's latestRing),
\* PeekLatest returns consecutive published samples, none overwritten or torn
\* out of order, although the producer goes on writing.
PeekIsPublished ==
  Consumers = {} =>
    \A o \in Observers : rpc[o] = "copy" =>
      /\ rfrom[o] + rcount[o] <= Len(sent)
      /\ \A k \in 1..Len(rout[o]) : rout[o][k] = sent[rfrom[o] + k]

IInv ==
  /\ TypeOK /\ Positions /\ WriterInRoom /\ ConsumerInData
  /\ UnreadKept /\ DeliveredInOrder

\* EverySampleDelivered: a published sample is consumed in the end, because
\* processLoop calls ReadBatch for ever (or the ring is cleared first).
EverySampleDelivered ==
  \A n \in 1..MaxSent :
    Len(sent) >= n ~> (Len(delivered) >= n \/ sent = <<>>)

\* QueueSpec: the ring implements the bounded queue, whose contents are read
\* off the slots between the two positions.
Queue == INSTANCE SampleQueue WITH
           queue <- [i \in 1..(writePos - readPos) |-> buffer[Slot(readPos + i - 1)]],
           delivered <- delivered
QueueSpec == Queue!Spec
=============================================================================

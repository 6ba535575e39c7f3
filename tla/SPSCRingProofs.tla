--------------------------- MODULE SPSCRingProofs ---------------------------
(* Proofs about the SPSC ring for every capacity, sample set, bound and set *)
(* of observers, with at most one consumer thread.                          *)
EXTENDS SPSCRing, SequenceTheorems, TLAPS

----------------------------------------------------------------------------
\* Arithmetic of positions.

\* A position always falls on a slot of the buffer.
LEMMA SlotType == ASSUME NEW p \in Nat PROVE Slot(p) \in 0..(Capacity - 1)
BY CapacityAssumption, SMT DEF Slot

\* Two positions less than one capacity apart fall on different slots.
LEMMA SlotInjective ==
  ASSUME NEW p \in Nat, NEW q \in Nat, p < q, q < p + Capacity
  PROVE  Slot(p) # Slot(q)
<1> DEFINE a == p \div Capacity
           b == q \div Capacity
<1>1. a \in Int /\ b \in Int
  BY CapacityAssumption, SMT
<1>2. p = Capacity * a + (p % Capacity) /\ q = Capacity * b + (q % Capacity)
  BY CapacityAssumption, SMT
<1> HIDE DEF a, b
<1> SUFFICES ASSUME p % Capacity = q % Capacity PROVE FALSE
  BY DEF Slot
<1>3. b <= a => Capacity * b <= Capacity * a
  BY <1>1, CapacityAssumption, SMT
<1>4. a < b => Capacity * a + Capacity <= Capacity * b
  BY <1>1, CapacityAssumption, SMT
<1>5. Capacity * a \in Int /\ Capacity * b \in Int
  BY <1>1, CapacityAssumption, SMT
<1> QED
  BY <1>1, <1>2, <1>3, <1>4, <1>5, CapacityAssumption

\* Subtracting positions in range yields a word.
LEMMA SubType ==
  ASSUME NEW a \in 0..(Word - 1), NEW b \in 0..(Word - 1)
  PROVE  Sub64(a, b) \in 0..(Word - 1)
BY WordAssumption DEF Sub64

\* While the consumer is within one capacity behind, the wrapping room
\* computation is the true room.
LEMMA FreeIsRoom ==
  ASSUME TypeOK, Positions, NEW r \in 0..MaxSent, r <= readPos, ~Full(r)
  PROVE  /\ Free(r) = Capacity - (writePos - r)
         /\ Free(r) \in Nat
         /\ Free(r) > 0
BY CapacityAssumption, BoundsAssumption, WordAssumption
   DEF TypeOK, Positions, Full, Free, Sub64

LEMMA FreeAtReadPos ==
  ASSUME TypeOK, Positions
  PROVE  /\ Free(readPos) = Capacity - (writePos - readPos)
         /\ Free(readPos) \in Nat
BY CapacityAssumption, BoundsAssumption, WordAssumption
   DEF TypeOK, Positions, Free, Sub64

\* A batch offered to the producer is a sequence of samples.
LEMMA BatchType ==
  ASSUME NEW batch \in Batches \cup Singles
  PROVE  batch \in Seq(Samples) /\ Len(batch) \in Nat
<1> SUFFICES batch \in Seq(Samples)
  BY LenProperties
<1>1. CASE batch \in Singles
  BY <1>1, SeqDef DEF Singles
<1>2. CASE batch \in Batches
  <2>1. PICK n \in 1..MaxBatch : batch \in [1..n -> Samples]
    BY <1>2 DEF Batches
  <2> QED BY <2>1, SeqDef, BoundsAssumption
<1> QED BY <1>1, <1>2

----------------------------------------------------------------------------
\* Producer steps.

\* The part of a batch that StartCopy accepts fits in the room it was given.
LEMMA Accepted ==
  ASSUME NEW batch \in Seq(Samples), NEW r, Free(r) \in Nat, StartCopy(batch, r)
  PROVE  /\ wpc' = "copy" /\ wi' = 0
         /\ wbatch' \in Seq(Samples) /\ Len(wbatch') \in Nat
         /\ Len(wbatch') <= Len(batch) /\ Len(wbatch') <= Free(r)
<1> DEFINE n == AtMost(Len(batch), Free(r))
<1>1. Len(batch) \in Nat
  BY LenProperties
<1>2. n \in Nat /\ n <= Len(batch) /\ n <= Free(r)
  BY <1>1 DEF AtMost
<1>3. \A i \in 1..n : batch[i] \in Samples
  BY <1>1, <1>2, ElementOfSeq
<1>4. SubSeq(batch, 1, n) \in Seq(Samples) /\ Len(SubSeq(batch, 1, n)) = n
  <2> HIDE DEF n
  <2>1. Len(SubSeq(batch, 1, n)) = IF 1 <= n THEN n - 1 + 1 ELSE 0
    BY <1>2, <1>3, SubSeqProperties
  <2>2. SubSeq(batch, 1, n) \in Seq(Samples)
    BY <1>2, <1>3, SubSeqProperties
  <2> QED BY <1>2, <2>1, <2>2
<1> QED
  BY <1>2, <1>4 DEF StartCopy

\* A producer step that has not copied anything yet keeps the invariant.
LEMMA BeforeCopy ==
  ASSUME IInv,
         UNCHANGED <<writePos, readPos, buffer, readerVars, sent, delivered>>,
         readCache' \in 0..MaxSent, readCache' <= readPos,
         wpc' \in {"idle", "refresh", "copy"}, wi' = 0, wbatch' \in Seq(Samples),
         wpc' = "copy" => writePos + Len(wbatch') <= readPos + Capacity,
         wpc' # "idle" => writePos + Len(wbatch') <= MaxSent
  PROVE  IInv'
<1> USE DEF IInv, readerVars
<1>0. Len(wbatch') \in Nat
  BY LenProperties
<1>1. TypeOK'
  BY DEF TypeOK
<1>2. Positions'
  BY DEF Positions
<1>3. WriterInRoom'
  BY <1>0 DEF WriterInRoom
<1>4. ConsumerInData'
  BY DEF ConsumerInData
<1>5. UnreadKept'
  BY DEF UnreadKept, Slot
<1>6. DeliveredInOrder'
  BY DEF DeliveredInOrder
<1> QED
  BY <1>1, <1>2, <1>3, <1>4, <1>5, <1>6

LEMMA CachedCallStep ==
  ASSUME IInv, NEW batch \in Batches \cup Singles, CachedCall(batch)
  PROVE  IInv'
<1>1. batch \in Seq(Samples) /\ Len(batch) \in Nat
  BY BatchType
<1>2. readCache \in 0..MaxSent /\ readCache <= readPos
      /\ writePos \in Nat /\ readPos \in Nat /\ MaxSent \in Nat
  BY BoundsAssumption DEF IInv, TypeOK, Positions
<1>3. CASE Full(readCache)
  BY <1>1, <1>2, <1>3, BeforeCopy DEF CachedCall
<1>4. CASE ~Full(readCache)
  <2>1. /\ Free(readCache) = Capacity - (writePos - readCache)
        /\ Free(readCache) \in Nat
    BY <1>2, <1>4, FreeIsRoom DEF IInv
  <2>2. StartCopy(batch, readCache)
    BY <1>4 DEF CachedCall
  <2>3. /\ wpc' = "copy" /\ wi' = 0
        /\ wbatch' \in Seq(Samples) /\ Len(wbatch') \in Nat
        /\ Len(wbatch') <= Len(batch) /\ Len(wbatch') <= Free(readCache)
    BY <1>1, <2>1, <2>2, Accepted
  <2>4. writePos + Len(wbatch') <= readPos + Capacity
    BY <1>2, <2>1, <2>3, CapacityAssumption
  <2>5. writePos + Len(wbatch') <= MaxSent
    BY <1>1, <1>2, <2>3 DEF CachedCall
  <2> QED
    BY <1>2, <2>3, <2>4, <2>5, BeforeCopy DEF CachedCall
<1> QED BY <1>3, <1>4

LEMMA WriteBatchStep ==
  ASSUME IInv, WriteBatchCall
  PROVE  IInv'
<1>1. PICK batch \in Batches :
        writePos + Len(batch) <= MaxSent /\ StartCopy(batch, readPos)
  BY DEF WriteBatchCall
<1>2. batch \in Seq(Samples) /\ Len(batch) \in Nat
  BY BatchType
<1>3. readCache \in 0..MaxSent /\ readCache <= readPos
      /\ writePos \in Nat /\ readPos \in Nat /\ MaxSent \in Nat
  BY BoundsAssumption DEF IInv, TypeOK, Positions
<1>4. /\ Free(readPos) = Capacity - (writePos - readPos)
      /\ Free(readPos) \in Nat
  BY FreeAtReadPos DEF IInv
<1>5. /\ wpc' = "copy" /\ wi' = 0
      /\ wbatch' \in Seq(Samples) /\ Len(wbatch') \in Nat
      /\ Len(wbatch') <= Len(batch) /\ Len(wbatch') <= Free(readPos)
  BY <1>1, <1>2, <1>4, Accepted
<1>6. writePos + Len(wbatch') <= readPos + Capacity
  BY <1>3, <1>4, <1>5, CapacityAssumption
<1>7. writePos + Len(wbatch') <= MaxSent
  BY <1>1, <1>2, <1>3, <1>5
<1> QED
  BY <1>3, <1>5, <1>6, <1>7, BeforeCopy DEF WriteBatchCall

LEMMA WriteRefreshStep ==
  ASSUME IInv, WriteRefresh
  PROVE  IInv'
<1>1. readPos \in 0..MaxSent /\ writePos \in Nat /\ MaxSent \in Nat
      /\ wbatch \in Seq(Samples) /\ Len(wbatch) \in Nat
      /\ writePos + Len(wbatch) <= MaxSent
  BY BoundsAssumption, LenProperties DEF IInv, TypeOK, WriterInRoom, WriteRefresh
<1>2. CASE Full(readPos) /\ wpc' = "idle" /\ wbatch' = <<>> /\ wi' = 0
  BY <1>1, <1>2, BeforeCopy DEF WriteRefresh
<1>3. CASE ~Full(readPos) /\ StartCopy(wbatch, readPos)
  <2>1. /\ Free(readPos) = Capacity - (writePos - readPos)
        /\ Free(readPos) \in Nat
    BY FreeAtReadPos DEF IInv
  <2>2. /\ wpc' = "copy" /\ wi' = 0
        /\ wbatch' \in Seq(Samples) /\ Len(wbatch') \in Nat
        /\ Len(wbatch') <= Len(wbatch) /\ Len(wbatch') <= Free(readPos)
    BY <1>1, <1>3, <2>1, Accepted
  <2>3. writePos + Len(wbatch') <= readPos + Capacity
    BY <1>1, <2>1, <2>2, CapacityAssumption
  <2>4. writePos + Len(wbatch') <= MaxSent
    BY <1>1, <2>2
  <2> QED
    BY <1>1, <2>2, <2>3, <2>4, BeforeCopy DEF WriteRefresh
<1> QED BY <1>2, <1>3 DEF WriteRefresh

LEMMA CopyInStep ==
  ASSUME IInv, CopyIn
  PROVE  IInv'
<1> USE DEF IInv
<1> DEFINE S == Slot(writePos + wi)
<1>1. /\ writePos \in Nat /\ readPos \in Nat /\ wi \in Nat /\ Capacity \in Nat
      /\ wbatch \in Seq(Samples) /\ Len(wbatch) \in Nat
      /\ wi < Len(wbatch) /\ writePos + Len(wbatch) <= readPos + Capacity
      /\ readPos <= writePos
  BY CapacityAssumption, LenProperties DEF TypeOK, WriterInRoom, Positions, CopyIn
<1>2. /\ S \in 0..(Capacity - 1) /\ wbatch[wi + 1] \in Samples
      /\ buffer' = [buffer EXCEPT ![S] = wbatch[wi + 1]] /\ wi' = wi + 1
  <2>1. writePos + wi \in Nat /\ wi + 1 \in 1..Len(wbatch)
    BY <1>1
  <2>2. wbatch[wi + 1] \in Samples
    BY <1>1, <2>1, ElementOfSeq
  <2>3. S \in 0..(Capacity - 1)
    BY <2>1, SlotType
  <2> QED
    BY <2>2, <2>3 DEF CopyIn
<1>3. TypeOK'
  <2> HIDE DEF S
  <2>1. buffer' \in [0..(Capacity - 1) -> Samples \cup {Blank}]
    BY <1>2 DEF TypeOK
  <2>2. wi' \in Nat
    BY <1>1, <1>2
  <2> QED
    BY <2>1, <2>2 DEF TypeOK, CopyIn, readerVars
<1>4. Positions'
  BY DEF Positions, CopyIn
<1>5. WriterInRoom'
  BY <1>1, <1>2 DEF WriterInRoom, CopyIn
<1>6. ConsumerInData'
  BY DEF ConsumerInData, CopyIn, readerVars
<1>7. UnreadKept'
  <2>1. ASSUME NEW p \in readPos..(writePos - 1)
        PROVE  buffer'[Slot(p)] = sent[p + 1]
    <3>1. Slot(p) # S
      <4>1. p \in Nat /\ p < writePos + wi /\ writePos + wi < p + Capacity
        BY <1>1
      <4> QED BY <4>1, <1>1, SlotInjective
    <3>2. p \in Nat
      BY <1>1
    <3>3. Slot(p) \in 0..(Capacity - 1)
      BY <3>2, SlotType
    <3> QED
      BY <1>2, <3>1, <3>3 DEF TypeOK, UnreadKept
  <2>2. ASSUME NEW k \in 0..wi
        PROVE  buffer'[Slot(writePos + k)] = wbatch[k + 1]
    <3>1. CASE k = wi
      BY <1>1, <1>2, <3>1 DEF TypeOK
    <3>2. CASE k # wi
      <4>1. k \in 0..(wi - 1)
        BY <1>1, <3>2
      <4>2. Slot(writePos + k) # S
        <5>1. /\ writePos + k \in Nat /\ writePos + k < writePos + wi
              /\ writePos + wi < writePos + k + Capacity
          BY <1>1, <4>1
        <5> QED BY <5>1, <1>1, SlotInjective
      <4>3. writePos + k \in Nat
        BY <1>1
      <4>4. Slot(writePos + k) \in 0..(Capacity - 1)
        BY <4>3, SlotType
      <4> QED
        BY <1>2, <4>1, <4>2, <4>4 DEF TypeOK, UnreadKept, CopyIn
    <3> QED BY <3>1, <3>2
  <2>3. /\ UNCHANGED <<writePos, readPos, wbatch, sent>> /\ wi' - 1 = wi
    BY <1>1 DEF CopyIn
  <2> QED
    BY <2>1, <2>2, <2>3 DEF UnreadKept, Slot
<1>8. DeliveredInOrder'
  BY DEF DeliveredInOrder, CopyIn
<1> QED
  BY <1>3, <1>4, <1>5, <1>6, <1>7, <1>8

LEMMA PublishStep ==
  ASSUME IInv, Publish
  PROVE  IInv'
<1> USE DEF IInv
<1> DEFINE n == Len(wbatch)
<1>1. /\ writePos \in Nat /\ readPos \in Nat /\ MaxSent \in Nat
      /\ wbatch \in Seq(Samples) /\ n \in Nat /\ sent \in Seq(Samples)
      /\ wi = n /\ Len(sent) = writePos /\ readPos <= writePos
      /\ writePos + n <= readPos + Capacity /\ writePos + n <= MaxSent
      /\ writePos' = writePos + n
  BY BoundsAssumption, LenProperties DEF TypeOK, WriterInRoom, Positions, Publish
<1>2. /\ sent' \in Seq(Samples) /\ Len(sent') = writePos + n
      /\ \A i \in 1..(writePos + n) :
           sent'[i] = IF i <= writePos THEN sent[i] ELSE wbatch[i - writePos]
  BY <1>1, ConcatProperties DEF Publish
<1> HIDE DEF n
<1>3. TypeOK'
  BY <1>1, <1>2 DEF TypeOK, Publish, readerVars
<1>4. Positions'
  BY <1>1, <1>2 DEF Positions, Publish
<1>5. WriterInRoom'
  BY DEF WriterInRoom, Publish
<1>6. ConsumerInData'
  <2> SUFFICES ASSUME NEW c \in Consumers
               PROVE  ConsumerInData!(c)'
    BY DEF ConsumerInData
  <2>1. ASSUME rpc[c] = "copy", NEW k \in 1..Len(rout[c])
        PROVE  rout[c][k] = sent'[readPos + k]
    <3>1. /\ rout[c][k] = sent[readPos + k] /\ k <= rcount[c]
          /\ readPos + rcount[c] <= writePos
      BY <2>1, LenProperties DEF ConsumerInData, TypeOK, Readers
    <3>2. rcount[c] \in Nat /\ k \in Nat
      BY DEF TypeOK, Readers
    <3> QED BY <1>1, <1>2, <3>1, <3>2
  <2>2. rcount[c] \in Nat
    BY DEF TypeOK, Readers
  <2> QED
    BY <1>1, <2>1, <2>2 DEF ConsumerInData, Publish, readerVars
<1>7. UnreadKept'
  <2>1. ASSUME NEW p \in readPos..(writePos + n - 1)
        PROVE  buffer[Slot(p)] = sent'[p + 1]
    <3>1. CASE p < writePos
      BY <1>1, <1>2, <3>1 DEF UnreadKept
    <3>2. CASE p >= writePos
      <4> DEFINE k == p - writePos
      <4>1. k \in 0..(wi - 1) /\ writePos + k = p
        BY <1>1, <3>2
      <4>2. buffer[Slot(p)] = wbatch[k + 1]
        BY <4>1 DEF UnreadKept, Publish
      <4>3. sent'[p + 1] = wbatch[k + 1]
        BY <1>1, <1>2, <3>2
      <4> QED BY <4>2, <4>3
    <3> QED BY <1>1, <3>1, <3>2
  <2>2. wpc' = "idle" /\ readPos' = readPos /\ buffer' = buffer
    BY DEF Publish
  <2>3. writePos' - 1 = writePos + n - 1
    BY <1>1
  <2> QED
    BY <2>1, <2>2, <2>3 DEF UnreadKept, Slot
<1>8. DeliveredInOrder'
  <2>1. Len(delivered) \in Nat
    BY LenProperties DEF TypeOK
  <2> QED
    BY <1>1, <1>2, <2>1 DEF DeliveredInOrder, Publish
<1> QED
  BY <1>3, <1>4, <1>5, <1>6, <1>7, <1>8

----------------------------------------------------------------------------
\* Reader steps.

\* A step that moves no position and no sample keeps the invariant if the
\* readers it changes keep their types and the consumers stay in the data.
LEMMA ReaderFrame ==
  ASSUME IInv, ConsumerInData',
         UNCHANGED <<writePos, readPos, buffer, writerVars, sent, delivered>>,
         rpc' \in [Readers -> {"idle", "load", "copy"}],
         rop' \in [Readers -> {"Read", "ReadBatch", "Peek", "PeekLatest", "Count"}],
         \A o \in Observers : rop'[o] \in {"PeekLatest", "Count"},
         rwant' \in [Readers -> Nat], rfrom' \in [Readers -> 0..(Word - 1)],
         rcount' \in [Readers -> Nat],
         rout' \in [Readers -> Seq(Samples \cup {Blank})]
  PROVE  IInv'
<1> USE DEF IInv, writerVars
<1>1. TypeOK'
  BY DEF TypeOK
<1>2. Positions'
  BY DEF Positions
<1>3. WriterInRoom'
  BY DEF WriterInRoom
<1>4. UnreadKept'
  BY DEF UnreadKept, Slot
<1>5. DeliveredInOrder'
  BY DEF DeliveredInOrder
<1> QED
  BY <1>1, <1>2, <1>3, <1>4, <1>5

LEMMA ReadCallStep ==
  ASSUME IInv, NEW r \in Readers, NEW op, NEW n \in Nat,
         op \in {"Read", "ReadBatch", "Peek", "PeekLatest", "Count"},
         r \in Consumers => op # "PeekLatest",
         r \in Observers => op \in {"PeekLatest", "Count"},
         ReadCall(r, op, n)
  PROVE  IInv'
<1>1. FirstLoad(op) \in 0..(Word - 1) /\ (op \notin {"PeekLatest", "Count"} => FirstLoad(op) = readPos)
  BY BoundsAssumption, WordAssumption DEF IInv, TypeOK, FirstLoad, WritePosFirst
<1>2. /\ rpc' = [rpc EXCEPT ![r] = "load"]
      /\ rop' = [rop EXCEPT ![r] = op]
      /\ rwant' = [rwant EXCEPT ![r] = n]
      /\ rfrom' = [rfrom EXCEPT ![r] = FirstLoad(op)]
      /\ UNCHANGED <<writePos, readPos, buffer, writerVars, rcount, rout, sent, delivered>>
  BY DEF ReadCall
<1>3. /\ rpc' \in [Readers -> {"idle", "load", "copy"}]
      /\ rop' \in [Readers -> {"Read", "ReadBatch", "Peek", "PeekLatest", "Count"}]
      /\ \A o \in Observers : rop'[o] \in {"PeekLatest", "Count"}
      /\ rwant' \in [Readers -> Nat] /\ rfrom' \in [Readers -> 0..(Word - 1)]
      /\ rcount' \in [Readers -> Nat]
      /\ rout' \in [Readers -> Seq(Samples \cup {Blank})]
  BY <1>1, <1>2 DEF IInv, TypeOK, Readers
<1>4. ConsumerInData'
  <2> SUFFICES ASSUME NEW c \in Consumers PROVE ConsumerInData!(c)'
    BY DEF ConsumerInData
  <2>0. c \in Readers
    BY DEF Readers
  <2>1. CASE c = r
    BY <1>1, <1>2, <2>0, <2>1 DEF IInv, TypeOK
  <2>2. CASE c # r
    BY <1>2, <2>0, <2>2 DEF IInv, TypeOK, ConsumerInData
  <2> QED BY <2>1, <2>2
<1> QED
  BY <1>2, <1>3, <1>4, ReaderFrame

LEMMA ReadLoadStep ==
  ASSUME IInv, NEW r \in Readers, ReadLoad(r)
  PROVE  IInv'
<1> DEFINE n == AtMost(rwant[r], Seen(r))
           start == IF rop[r] = "PeekLatest" THEN Sub64(rfrom[r], n) ELSE rfrom[r]
<1>1. rpc[r] = "load" /\ UNCHANGED <<writePos, readPos, buffer, writerVars, rop,
                                     rwant, sent, delivered>>
  BY DEF ReadLoad
<1>2. CASE FindsNothing(r)
           /\ rpc' = [rpc EXCEPT ![r] = "idle"] /\ UNCHANGED <<rfrom, rcount, rout>>
  <2>1. ConsumerInData'
    BY <1>1, <1>2 DEF IInv, TypeOK, ConsumerInData, Readers
  <2>2. rpc' \in [Readers -> {"idle", "load", "copy"}]
    BY <1>2 DEF IInv, TypeOK
  <2> QED
    BY <1>1, <1>2, <2>1, <2>2, ReaderFrame DEF IInv, TypeOK
<1>3. CASE /\ ~FindsNothing(r)
           /\ rpc' = [rpc EXCEPT ![r] = "copy"]
           /\ rcount' = [rcount EXCEPT ![r] = n]
           /\ rfrom' = [rfrom EXCEPT ![r] = start]
           /\ rout' = [rout EXCEPT ![r] = <<>>]
  <2>1. rop[r] # "Count"
    BY <1>3 DEF FindsNothing
  <2>2. n \in Nat /\ start \in 0..(Word - 1)
    <3>1. /\ rwant[r] \in Nat /\ rfrom[r] \in 0..(Word - 1)
          /\ readPos \in 0..(Word - 1) /\ writePos \in 0..(Word - 1)
      BY BoundsAssumption, WordAssumption DEF IInv, TypeOK
    <3>2. Seen(r) \in 0..(Word - 1)
      BY <3>1, SubType DEF Seen
    <3>3. n \in 0..(Word - 1)
      BY <3>1, <3>2, WordAssumption DEF AtMost
    <3> HIDE DEF n
    <3>4. Sub64(rfrom[r], n) \in 0..(Word - 1)
      BY <3>1, <3>3, SubType
    <3> QED BY <3>1, <3>3, <3>4
  <2>3. r \in Consumers => start = readPos /\ readPos + n <= writePos
    <3> SUFFICES ASSUME r \in Consumers PROVE start = readPos /\ readPos + n <= writePos
      OBVIOUS
    <3>1. rop[r] # "PeekLatest" /\ rfrom[r] = readPos
      BY <1>1, <2>1 DEF IInv, ConsumerInData
    <3>2. Seen(r) = writePos - readPos /\ Seen(r) \in Nat
      BY <2>1, <3>1, BoundsAssumption DEF Seen, WritePosFirst, Sub64, IInv, TypeOK, Positions
    <3>3. rwant[r] \in Nat /\ readPos \in Nat /\ writePos \in Nat
      BY BoundsAssumption DEF IInv, TypeOK
    <3>4. n <= Seen(r) /\ n \in Nat
      BY <3>2, <3>3 DEF AtMost
    <3> HIDE DEF n
    <3> QED BY <3>1, <3>2, <3>3, <3>4
  <2>4. ConsumerInData'
    <3> SUFFICES ASSUME NEW c \in Consumers PROVE ConsumerInData!(c)'
      BY DEF ConsumerInData
    <3>0. c \in Readers
      BY DEF Readers
    <3>1. CASE c = r
      BY <1>1, <1>3, <2>1, <2>2, <2>3, <3>0, <3>1 DEF IInv, TypeOK, ConsumerInData
    <3>2. CASE c # r
      BY <1>1, <1>3, <3>0, <3>2 DEF IInv, TypeOK, ConsumerInData
    <3> QED BY <3>1, <3>2
  <2>5. /\ rpc' \in [Readers -> {"idle", "load", "copy"}]
        /\ rfrom' \in [Readers -> 0..(Word - 1)]
        /\ rcount' \in [Readers -> Nat]
        /\ rout' \in [Readers -> Seq(Samples \cup {Blank})]
    <3>1. /\ rpc \in [Readers -> {"idle", "load", "copy"}]
          /\ rfrom \in [Readers -> 0..(Word - 1)] /\ rcount \in [Readers -> Nat]
          /\ rout \in [Readers -> Seq(Samples \cup {Blank})]
      BY DEF IInv, TypeOK
    <3>2. <<>> \in Seq(Samples \cup {Blank})
      BY EmptySeq
    <3> HIDE DEF n, start
    <3>3. rpc' \in [Readers -> {"idle", "load", "copy"}]
      BY ONLY <1>3, <3>1
    <3>4. rfrom' \in [Readers -> 0..(Word - 1)] /\ rcount' \in [Readers -> Nat]
      BY ONLY <1>3, <2>2, <3>1
    <3>5. rout' \in [Readers -> Seq(Samples \cup {Blank})]
      BY ONLY <1>3, <3>1, <3>2
    <3> QED BY ONLY <3>3, <3>4, <3>5
  <2>6. /\ rop \in [Readers -> {"Read", "ReadBatch", "Peek", "PeekLatest", "Count"}]
        /\ \A o \in Observers : rop[o] \in {"PeekLatest", "Count"}
        /\ rwant \in [Readers -> Nat]
    BY DEF IInv, TypeOK
  <2> HIDE DEF n, start
  <2> QED
    BY <1>1, <2>4, <2>5, <2>6, ReaderFrame
<1> QED BY <1>2, <1>3 DEF ReadLoad

LEMMA CopyOutStep ==
  ASSUME IInv, NEW r \in Readers, CopyOut(r)
  PROVE  IInv'
<1> DEFINE v == buffer[NextSlot(r)]
<1>1. /\ rpc[r] = "copy" /\ Len(rout[r]) < rcount[r]
      /\ rout' = [rout EXCEPT ![r] = Append(rout[r], v)]
      /\ UNCHANGED <<writePos, readPos, buffer, writerVars, rpc, rop, rwant,
                     rfrom, rcount, sent, delivered>>
  BY DEF CopyOut
<1>2. /\ rout[r] \in Seq(Samples \cup {Blank}) /\ Len(rout[r]) \in Nat
      /\ rfrom[r] \in Nat /\ rcount[r] \in Nat
      /\ readPos \in Nat /\ writePos \in Nat
  BY LenProperties, WordAssumption, BoundsAssumption DEF IInv, TypeOK
<1>3. v \in Samples \cup {Blank}
  <2>1. rfrom[r] + Len(rout[r]) \in Nat
    BY <1>2
  <2>2. NextSlot(r) \in 0..(Capacity - 1)
    BY <2>1, SlotType DEF NextSlot
  <2> QED BY <2>2 DEF IInv, TypeOK
<1>4. r \in Consumers => v = sent[readPos + Len(rout[r]) + 1]
  <2> SUFFICES ASSUME r \in Consumers PROVE v = sent[readPos + Len(rout[r]) + 1]
    OBVIOUS
  <2>1. rfrom[r] = readPos /\ readPos + rcount[r] <= writePos
    BY <1>1 DEF IInv, ConsumerInData
  <2>2. readPos + Len(rout[r]) \in readPos..(writePos - 1)
    BY <1>1, <1>2, <2>1
  <2> QED
    BY <2>1, <2>2 DEF IInv, UnreadKept, NextSlot
<1> HIDE DEF v
<1>5. rout' \in [Readers -> Seq(Samples \cup {Blank})]
  BY <1>1, <1>2, <1>3, AppendProperties DEF IInv, TypeOK
<1>6. /\ Len(rout'[r]) = Len(rout[r]) + 1
      /\ \A k \in 1..(Len(rout[r]) + 1) :
           rout'[r][k] = IF k <= Len(rout[r]) THEN rout[r][k] ELSE v
  <2>1. rout'[r] = Append(rout[r], v)
    BY <1>1 DEF IInv, TypeOK
  <2> QED
    BY <1>2, <1>3, <2>1, AppendProperties
<1>7. ConsumerInData'
  <2> SUFFICES ASSUME NEW c \in Consumers PROVE ConsumerInData!(c)'
    BY DEF ConsumerInData
  <2>0. c \in Readers
    BY DEF Readers
  <2>1. CASE c = r
    <3>1. \A k \in 1..Len(rout'[r]) : rout'[r][k] = sent[readPos + k]
      <4> SUFFICES ASSUME NEW k \in 1..Len(rout'[r])
                   PROVE  rout'[r][k] = sent[readPos + k]
        OBVIOUS
      <4>1. CASE k <= Len(rout[r])
        <5>1. k \in 1..Len(rout[r])
          BY <1>2, <1>6, <4>1
        <5>2. rout[r][k] = sent[readPos + k]
          BY <1>1, <2>1, <5>1 DEF IInv, ConsumerInData
        <5> QED BY <1>2, <1>6, <4>1, <5>2
      <4>2. CASE k = Len(rout[r]) + 1
        BY <1>2, <1>4, <1>6, <2>1, <4>2
      <4> QED BY <1>2, <1>6, <4>1, <4>2
    <3>2. Len(rout'[r]) <= rcount[r]
      BY <1>1, <1>2, <1>6
    <3>3. /\ rop[r] # "PeekLatest" /\ rop[r] # "Count" /\ rfrom[r] = readPos
          /\ readPos + rcount[r] <= writePos
      BY <1>1, <2>1 DEF IInv, ConsumerInData
    <3> QED
      BY <1>1, <2>1, <3>1, <3>2, <3>3
  <2>2. CASE c # r
    <3>1. rout'[c] = rout[c]
      BY <1>1, <2>0, <2>2 DEF IInv, TypeOK
    <3> QED
      BY <1>1, <3>1 DEF IInv, ConsumerInData
  <2> QED BY <2>1, <2>2
<1> QED
  BY <1>1, <1>5, <1>7, ReaderFrame DEF IInv, TypeOK

LEMMA PeekReturnStep ==
  ASSUME IInv, NEW r \in Readers, ReadReturn(r), rop[r] \notin {"Read", "ReadBatch"}
  PROVE  IInv'
<1>1. /\ rpc' = [rpc EXCEPT ![r] = "idle"]
      /\ rout' = [rout EXCEPT ![r] = <<>>]
      /\ UNCHANGED <<writePos, readPos, buffer, writerVars, rop, rwant, rfrom,
                     rcount, sent, delivered>>
  BY DEF ReadReturn
<1>2. /\ rpc' \in [Readers -> {"idle", "load", "copy"}]
      /\ rout' \in [Readers -> Seq(Samples \cup {Blank})]
  BY <1>1, EmptySeq DEF IInv, TypeOK
<1>3. ConsumerInData'
  <2> SUFFICES ASSUME NEW c \in Consumers PROVE ConsumerInData!(c)'
    BY DEF ConsumerInData
  <2>1. c \in Readers
    BY DEF Readers
  <2>2. /\ rpc'[c] = IF c = r THEN "idle" ELSE rpc[c]
        /\ c # r => rout'[c] = rout[c]
    BY <1>1, <2>1 DEF IInv, TypeOK
  <2> QED
    BY <1>1, <2>2 DEF IInv, ConsumerInData
<1> QED
  BY <1>1, <1>2, <1>3, ReaderFrame DEF IInv, TypeOK

\* The one step that moves readPos.  It needs the single consumer: another
\* consumer in the middle of a read would be left with a stale position.
LEMMA ReleaseStep ==
  ASSUME SingleConsumer, IInv, NEW r \in Consumers, ReadReturn(r),
         rop[r] \in {"Read", "ReadBatch"}
  PROVE  IInv'
<1> USE DEF IInv
<1>1. /\ rpc[r] = "copy" /\ Len(rout[r]) = rcount[r]
      /\ rpc' = [rpc EXCEPT ![r] = "idle"]
      /\ rout' = [rout EXCEPT ![r] = <<>>]
      /\ readPos' = rfrom[r] + rcount[r] /\ delivered' = delivered \o rout[r]
      /\ UNCHANGED <<writePos, buffer, writerVars, rop, rwant, rfrom, rcount, sent>>
  BY DEF ReadReturn, Advance
<1>2. r \in Readers
  BY DEF Readers
<1>3. /\ rfrom[r] = readPos /\ readPos + rcount[r] <= writePos
      /\ \A k \in 1..rcount[r] : rout[r][k] = sent[readPos + k]
  BY <1>1 DEF ConsumerInData
<1>4. /\ readPos \in Nat /\ writePos \in 0..MaxSent /\ readCache \in Nat /\ MaxSent \in Nat
      /\ rcount[r] \in Nat /\ readCache <= readPos /\ writePos <= readPos + Capacity
      /\ rout[r] \in Seq(Samples \cup {Blank}) /\ Capacity \in Nat
      /\ delivered \in Seq(Samples \cup {Blank}) /\ Len(delivered) = readPos
  BY <1>2, BoundsAssumption, CapacityAssumption DEF TypeOK, Positions
<1>5. /\ delivered' \in Seq(Samples \cup {Blank})
      /\ Len(delivered') = readPos + rcount[r]
      /\ \A i \in 1..(readPos + rcount[r]) :
           delivered'[i] = IF i <= readPos THEN delivered[i] ELSE rout[r][i - readPos]
  <2> DEFINE T == Samples \cup {Blank}
  <2>1. delivered \in Seq(T) /\ rout[r] \in Seq(T)
    BY <1>4
  <2> HIDE DEF T
  <2>2. /\ delivered \o rout[r] \in Seq(T)
        /\ Len(delivered \o rout[r]) = Len(delivered) + Len(rout[r])
        /\ \A i \in 1..(Len(delivered) + Len(rout[r])) :
             (delivered \o rout[r])[i] = IF i <= Len(delivered) THEN delivered[i]
                                         ELSE rout[r][i - Len(delivered)]
    BY <2>1, ConcatProperties
  <2> QED
    BY <1>1, <1>4, <2>2 DEF T
<1>6. readPos' = readPos + rcount[r] /\ readPos' \in 0..MaxSent
  BY <1>1, <1>3, <1>4
<1>7. TypeOK'
  <2>1. TypeOK
    OBVIOUS
  <2>2. readPos' \in 0..MaxSent /\ delivered' \in Seq(Samples \cup {Blank})
    BY <1>5, <1>6
  <2>3. <<>> \in Seq(Samples \cup {Blank})
    BY EmptySeq
  <2>4. /\ rpc' \in [Readers -> {"idle", "load", "copy"}]
        /\ rout' \in [Readers -> Seq(Samples \cup {Blank})]
    BY ONLY <1>1, <2>1, <2>3 DEF TypeOK
  <2>5. UNCHANGED <<writePos, buffer, readCache, wpc, wbatch, wi, rop, rwant, rfrom, rcount, sent>>
    BY ONLY <1>1 DEF writerVars
  <2> QED BY ONLY <2>1, <2>2, <2>4, <2>5 DEF TypeOK
<1>8. Positions'
  BY <1>1, <1>3, <1>4, <1>5, <1>6 DEF Positions, writerVars
<1>9. WriterInRoom'
  <2>1. Len(wbatch) \in Nat
    BY LenProperties DEF TypeOK
  <2> QED
    BY <1>1, <1>4, <1>6, <2>1 DEF WriterInRoom, writerVars
<1>10. ConsumerInData'
  <2> SUFFICES ASSUME NEW c \in Consumers PROVE ConsumerInData!(c)'
    BY DEF ConsumerInData
  <2>1. c = r
    BY DEF SingleConsumer
  <2>2. rpc'[c] = "idle" /\ rop'[c] # "PeekLatest"
    BY <1>1, <1>2, <2>1 DEF TypeOK
  <2> QED BY <2>2
<1>11. UnreadKept'
  <2>1. \A p \in readPos'..(writePos - 1) : p \in readPos..(writePos - 1)
    BY <1>4, <1>6
  <2> QED
    BY <1>1, <2>1 DEF UnreadKept, writerVars, Slot
<1>12. DeliveredInOrder'
  <2>1. Len(sent) = writePos
    BY DEF Positions
  <2>2. ASSUME NEW k \in 1..(readPos + rcount[r])
        PROVE  delivered'[k] = sent[k]
    <3>1. CASE k <= readPos
      BY <1>4, <1>5, <3>1 DEF DeliveredInOrder
    <3>2. CASE k > readPos
      <4>1. k - readPos \in 1..rcount[r] /\ readPos + (k - readPos) = k
        BY <1>4, <3>2
      <4>2. rout[r][k - readPos] = sent[k]
        BY <1>3, <4>1
      <4> QED BY <1>4, <1>5, <3>2, <4>2
    <3> QED BY <1>4, <3>1, <3>2
  <2> QED
    BY <1>1, <1>3, <1>5, <2>1, <2>2 DEF DeliveredInOrder
<1> QED
  BY <1>7, <1>8, <1>9, <1>10, <1>11, <1>12

LEMMA ClearStep ==
  ASSUME IInv, Clear
  PROVE  IInv'
<1> USE DEF IInv, Clear, readerVars
<1>1. <<>> \in Seq(Samples) /\ <<>> \in Seq(Samples \cup {Blank}) /\ Len(<<>>) = 0
  BY EmptySeq
<1>2. 0 \in 0..MaxSent /\ Capacity \in Nat
  BY BoundsAssumption, CapacityAssumption
<1>3. TypeOK'
  BY <1>1, <1>2 DEF TypeOK
<1>4. Positions'
  BY <1>1, <1>2 DEF Positions
<1>5. WriterInRoom'
  BY DEF WriterInRoom
<1>6. ConsumerInData'
  BY DEF ConsumerInData, Readers
<1>7. UnreadKept'
  BY DEF UnreadKept
<1>8. DeliveredInOrder'
  BY <1>1 DEF DeliveredInOrder
<1> QED
  BY <1>3, <1>4, <1>5, <1>6, <1>7, <1>8

----------------------------------------------------------------------------
\* The invariant and what follows from it.

LEMMA InitIInv == Init => IInv
<1> SUFFICES ASSUME Init PROVE IInv
  OBVIOUS
<1> USE DEF Init
<1>1. <<>> \in Seq(Samples) /\ <<>> \in Seq(Samples \cup {Blank}) /\ Len(<<>>) = 0
  BY EmptySeq
<1>2. 0 \in 0..MaxSent /\ 0 \in 0..(Word - 1) /\ Capacity \in Nat
  BY BoundsAssumption, CapacityAssumption, WordAssumption
<1>3. TypeOK
  BY <1>1, <1>2 DEF TypeOK, Readers
<1>4. Positions /\ WriterInRoom /\ UnreadKept /\ DeliveredInOrder
  BY <1>1, <1>2 DEF Positions, WriterInRoom, UnreadKept, DeliveredInOrder
<1>5. ConsumerInData
  BY DEF ConsumerInData, Readers
<1> QED
  BY <1>3, <1>4, <1>5 DEF IInv

LEMMA NextIInv ==
  ASSUME SingleConsumer, IInv, [Next]_vars
  PROVE  IInv'
<1>1. CASE UNCHANGED vars
  <2> USE <1>1 DEF vars, writerVars, readerVars, IInv
  <2>1. TypeOK'
    BY DEF TypeOK
  <2>2. Positions' /\ WriterInRoom' /\ DeliveredInOrder'
    BY DEF Positions, WriterInRoom, DeliveredInOrder
  <2>3. ConsumerInData'
    BY DEF ConsumerInData
  <2>4. UnreadKept'
    BY DEF UnreadKept, Slot
  <2> QED BY <2>1, <2>2, <2>3, <2>4
<1>2. CASE ProducerCalls
  <2>1. CASE WriteCall
    BY <2>1, CachedCallStep DEF WriteCall
  <2>2. CASE ByteWriteCall
    BY <2>2, CachedCallStep DEF ByteWriteCall
  <2>3. CASE WriteBatchCall
    BY <2>3, WriteBatchStep
  <2> QED BY <1>2, <2>1, <2>2, <2>3 DEF ProducerCalls
<1>3. CASE ProducerGoesOn
  BY <1>3, WriteRefreshStep, CopyInStep, PublishStep DEF ProducerGoesOn
<1>4. ASSUME NEW c \in Consumers, ConsumerCall(c) PROVE IInv'
  <2>1. PICK op \in ConsumerOps : \E n \in IF op = "Read" THEN {1} ELSE 1..MaxBatch :
                                     ReadCall(c, op, n)
    BY <1>4 DEF ConsumerCall
  <2>2. PICK n \in Nat : ReadCall(c, op, n)
    BY <2>1, BoundsAssumption
  <2>3. op \in {"Read", "ReadBatch", "Peek", "Count"} /\ c \in Readers /\ c \notin Observers
    BY OpsAssumption, ThreadsAssumption DEF Readers
  <2> QED BY <2>2, <2>3, ReadCallStep
<1>5. ASSUME NEW o \in Observers, ObserverCall(o) PROVE IInv'
  <2>1. PICK op \in ObserverOps, n \in 1..MaxBatch : ReadCall(o, op, n)
    BY <1>5 DEF ObserverCall
  <2>2. op \in {"PeekLatest", "Count"} /\ n \in Nat /\ o \in Readers /\ o \notin Consumers
    BY OpsAssumption, ThreadsAssumption, BoundsAssumption DEF Readers
  <2> QED BY <2>1, <2>2, ReadCallStep
<1>6. ASSUME NEW r \in Readers, ReaderGoesOn(r) PROVE IInv'
  <2>1. CASE ReadLoad(r)
    BY <2>1, ReadLoadStep
  <2>2. CASE CopyOut(r)
    BY <2>2, CopyOutStep
  <2>3. CASE ReadReturn(r)
    <3>1. CASE rop[r] \in {"Read", "ReadBatch"}
      <4>1. r \in Consumers
        BY <3>1 DEF Readers, IInv, TypeOK
      <4> QED BY <2>3, <3>1, <4>1, ReleaseStep
    <3>2. CASE rop[r] \notin {"Read", "ReadBatch"}
      BY <2>3, <3>2, PeekReturnStep
    <3> QED BY <3>1, <3>2
  <2> QED BY <1>6, <2>1, <2>2, <2>3 DEF ReaderGoesOn
<1>7. CASE Clear
  BY <1>7, ClearStep
<1> QED
  BY <1>1, <1>2, <1>3, <1>4, <1>5, <1>6, <1>7 DEF Next

\* InductiveInvariant: with one consumer the invariant IInv holds throughout.
THEOREM InductiveInvariant == ASSUME SingleConsumer PROVE Spec => []IInv
<1>1. IInv /\ [Next]_vars => IInv'
  BY NextIInv
<1> QED
  BY <1>1, InitIInv, PTL DEF Spec

\* TypeCorrect: every variable keeps its type; in particular no batch is longer
\* than what was offered and no position passes the bound.
THEOREM TypeCorrect == ASSUME SingleConsumer PROVE Spec => []TypeOK
<1>1. IInv => TypeOK
  BY DEF IInv
<1> QED
  BY <1>1, InductiveInvariant, PTL

\* DeliveryInOrder: Read and ReadBatch hand over exactly the samples written,
\* in order, for every capacity, batch length and number of observers.
THEOREM DeliveryInOrder == ASSUME SingleConsumer PROVE Spec => []DeliveredInOrder
<1>1. IInv => DeliveredInOrder
  BY DEF IInv
<1> QED
  BY <1>1, InductiveInvariant, PTL

\* UnreadSamplesKept: no published sample is overwritten before it is consumed.
THEOREM UnreadSamplesKept == ASSUME SingleConsumer PROVE Spec => []UnreadKept
<1>1. IInv => UnreadKept
  BY DEF IInv
<1> QED
  BY <1>1, InductiveInvariant, PTL

\* ConsumersRaceFree: the producer and the consumer never access one slot at the
\* same time.
THEOREM ConsumersRaceFree == ASSUME SingleConsumer PROVE Spec => []ConsumerRaceFree
<1>1. IInv => ConsumerRaceFree
  <2> SUFFICES ASSUME IInv, NEW c \in Consumers,
                      wpc = "copy", wi < Len(wbatch),
                      rpc[c] = "copy", Len(rout[c]) < rcount[c]
               PROVE  Slot(writePos + wi) # NextSlot(c)
    BY DEF ConsumerRaceFree, SlotConflict
  <2> DEFINE p == rfrom[c] + Len(rout[c])
             q == writePos + wi
  <2>1. /\ rfrom[c] = readPos /\ readPos + rcount[c] <= writePos
        /\ writePos + Len(wbatch) <= readPos + Capacity
    BY DEF IInv, ConsumerInData, WriterInRoom
  <2>2. /\ readPos \in Nat /\ writePos \in Nat /\ wi \in Nat /\ Capacity \in Nat
        /\ Len(rout[c]) \in Nat /\ rcount[c] \in Nat /\ Len(wbatch) \in Nat
    BY LenProperties, BoundsAssumption, CapacityAssumption DEF IInv, TypeOK, Readers
  <2>3. wi < Len(wbatch) /\ Len(rout[c]) < rcount[c]
    OBVIOUS
  <2>4. p \in Nat /\ q \in Nat /\ p < q /\ q < p + Capacity
    BY ONLY <2>1, <2>2, <2>3
  <2> QED
    BY <2>4, SlotInjective DEF NextSlot
<1> QED
  BY <1>1, InductiveInvariant, PTL

----------------------------------------------------------------------------
\* Count and PeekLatest, whose first load is of writePos.

\* Between its two loads such a reader holds a position that was published.
FirstLoadPublished ==
  \A r \in Readers : rpc[r] = "load" /\ WritePosFirst(rop[r]) => rfrom[r] <= writePos

\* What the producer's steps leave alone: the readers and all that was published.
ProducerKeeps ==
  /\ UNCHANGED <<readerVars, readPos>>
  /\ writePos' \in Nat /\ writePos <= writePos'
  /\ \A k \in 1..writePos : sent'[k] = sent[k]

\* A step is one of: a call of a reader, a reader going on, Clear, or a step
\* of the producer, which leaves the readers and all that was published alone.
LEMMA StepKinds ==
  ASSUME IInv, [Next]_vars
  PROVE  \/ \E r \in Readers, op \in {"Read", "ReadBatch", "Peek", "PeekLatest", "Count"},
               n \in Nat : ReadCall(r, op, n)
         \/ \E r \in Readers : ReaderGoesOn(r)
         \/ Clear
         \/ ProducerKeeps
<1>0. /\ writePos \in Nat /\ wbatch \in Seq(Samples) /\ Len(wbatch) \in Nat
      /\ sent \in Seq(Samples) /\ Len(sent) = writePos
  BY LenProperties, BoundsAssumption DEF IInv, TypeOK, Positions
<1>1. CASE ProducerCalls
  <2>1. UNCHANGED <<readerVars, readPos, writePos, sent>>
    BY <1>1 DEF ProducerCalls, WriteCall, ByteWriteCall, WriteBatchCall, CachedCall
  <2> QED BY <1>0, <2>1 DEF ProducerKeeps
<1>2. CASE ProducerGoesOn
  <2>1. UNCHANGED <<readerVars, readPos>>
    BY <1>2 DEF ProducerGoesOn, WriteRefresh, CopyIn, Publish
  <2>2. CASE Publish
    <3>1. writePos' = writePos + Len(wbatch) /\ sent' = sent \o wbatch
      BY <2>2 DEF Publish
    <3>2. \A k \in 1..Len(sent) : (sent \o wbatch)[k] = sent[k]
      BY <1>0, ConcatProperties
    <3> QED BY <1>0, <2>1, <3>1, <3>2 DEF ProducerKeeps
  <2>3. CASE ~Publish
    <3>1. UNCHANGED <<writePos, sent>>
      BY <1>2, <2>3 DEF ProducerGoesOn, WriteRefresh, CopyIn
    <3> QED BY <1>0, <2>1, <3>1 DEF ProducerKeeps
  <2> QED BY <2>2, <2>3
<1>3. ASSUME NEW c \in Consumers, ConsumerCall(c)
      PROVE  \E r \in Readers, op \in {"Read", "ReadBatch", "Peek", "PeekLatest", "Count"},
                n \in Nat : ReadCall(r, op, n)
  <2>1. PICK op \in ConsumerOps : \E n \in IF op = "Read" THEN {1} ELSE 1..MaxBatch :
                                     ReadCall(c, op, n)
    BY <1>3 DEF ConsumerCall
  <2>2. PICK n \in Nat : ReadCall(c, op, n)
    BY <2>1, BoundsAssumption
  <2>3. op \in {"Read", "ReadBatch", "Peek", "PeekLatest", "Count"} /\ c \in Readers
    BY OpsAssumption DEF Readers
  <2> QED BY <2>2, <2>3
<1>4. ASSUME NEW o \in Observers, ObserverCall(o)
      PROVE  \E r \in Readers, op \in {"Read", "ReadBatch", "Peek", "PeekLatest", "Count"},
                n \in Nat : ReadCall(r, op, n)
  <2>1. PICK op \in ObserverOps, n \in 1..MaxBatch : ReadCall(o, op, n)
    BY <1>4 DEF ObserverCall
  <2>2. /\ op \in {"Read", "ReadBatch", "Peek", "PeekLatest", "Count"} /\ n \in Nat
        /\ o \in Readers
    BY OpsAssumption, BoundsAssumption DEF Readers
  <2> QED BY <2>1, <2>2
<1>5. CASE UNCHANGED vars
  <2>1. UNCHANGED <<readerVars, readPos, writePos, sent>>
    BY <1>5 DEF vars
  <2> QED BY <1>0, <2>1 DEF ProducerKeeps
<1> QED
  BY ONLY [Next]_vars, <1>1, <1>2, <1>3, <1>4, <1>5 DEF Next

LEMMA FirstLoadStep ==
  ASSUME IInv, FirstLoadPublished, [Next]_vars
  PROVE  FirstLoadPublished'
<1>1. ASSUME NEW r \in Readers, NEW op, NEW n \in Nat, ReadCall(r, op, n)
      PROVE  FirstLoadPublished'
  <2>1. /\ rop' = [rop EXCEPT ![r] = op] /\ rpc' = [rpc EXCEPT ![r] = "load"]
        /\ rfrom' = [rfrom EXCEPT ![r] = FirstLoad(op)] /\ writePos' = writePos
    BY <1>1 DEF ReadCall
  <2> SUFFICES ASSUME NEW s \in Readers, rpc'[s] = "load", WritePosFirst(rop'[s])
               PROVE  rfrom'[s] <= writePos'
    BY DEF FirstLoadPublished, WritePosFirst
  <2>2. CASE s = r
    <3>1. rop'[s] = op /\ rfrom'[s] = FirstLoad(op)
      BY <2>1, <2>2 DEF IInv, TypeOK
    <3> QED
      BY <2>1, <3>1, BoundsAssumption DEF FirstLoad, IInv, TypeOK
  <2>3. CASE s # r
    BY <2>1, <2>3 DEF IInv, TypeOK, FirstLoadPublished
  <2> QED BY <2>2, <2>3
<1>2. ASSUME NEW r \in Readers, ReaderGoesOn(r)
      PROVE  FirstLoadPublished'
  <2> SUFFICES ASSUME NEW s \in Readers, rpc'[s] = "load", WritePosFirst(rop'[s])
               PROVE  rfrom'[s] <= writePos'
    BY DEF FirstLoadPublished, WritePosFirst
  <2>1. writePos' = writePos /\ rop' = rop
    BY <1>2 DEF ReaderGoesOn, ReadLoad, CopyOut, ReadReturn
  <2>2. s # r \/ rfrom'[s] = rfrom[s]
    BY <1>2, SMT DEF ReaderGoesOn, ReadLoad, CopyOut, ReadReturn, IInv, TypeOK
  <2>3. rpc[s] = "load" /\ rfrom'[s] = rfrom[s]
    BY <1>2, <2>2, SMT DEF ReaderGoesOn, ReadLoad, CopyOut, ReadReturn, IInv, TypeOK
  <2> QED BY <2>1, <2>3 DEF FirstLoadPublished
<1>3. CASE Clear
  BY <1>3 DEF Clear, readerVars, FirstLoadPublished
<1>4. CASE ProducerKeeps
  <2>1. /\ rpc' = rpc /\ rop' = rop /\ rfrom' = rfrom
        /\ writePos' \in Nat /\ writePos <= writePos'
    BY <1>4 DEF ProducerKeeps, readerVars
  <2> SUFFICES ASSUME NEW s \in Readers, rpc'[s] = "load", WritePosFirst(rop'[s])
               PROVE  rfrom'[s] <= writePos'
    BY DEF FirstLoadPublished, WritePosFirst
  <2>2. rfrom[s] <= writePos
    BY <2>1 DEF FirstLoadPublished
  <2>3. rfrom[s] \in Nat /\ writePos \in Nat
    BY BoundsAssumption, WordAssumption DEF IInv, TypeOK
  <2> QED BY <2>1, <2>2, <2>3
<1> QED
  BY <1>1, <1>2, <1>3, <1>4, StepKinds

\* CountNeverOver: with one consumer and positions in the lower half of a word,
\* Count never reports more than the capacity, and a full ring only of one that
\* is full, whatever the producer and the consumer do between its two loads.
THEOREM CountNeverOver ==
  ASSUME SingleConsumer, 2 * MaxSent <= Word
  PROVE  Spec => []CountWithinCapacity
<1>1. Init => FirstLoadPublished
  BY DEF Init, FirstLoadPublished
<1>2. IInv /\ FirstLoadPublished /\ [Next]_vars => FirstLoadPublished'
  BY FirstLoadStep
<1>3. IInv /\ FirstLoadPublished => CountWithinCapacity
  <2> SUFFICES ASSUME IInv, FirstLoadPublished, NEW r \in Readers,
                      rpc[r] = "load", rop[r] = "Count"
               PROVE  /\ CountResult(r) <= Capacity
                      /\ CountResult(r) = Capacity => writePos - readPos = Capacity
    BY DEF CountWithinCapacity
  <2>1. /\ rfrom[r] <= writePos /\ Seen(r) = Sub64(rfrom[r], readPos)
    BY DEF FirstLoadPublished, Seen, WritePosFirst
  <2>2. /\ rfrom[r] \in Nat /\ readPos \in 0..MaxSent /\ writePos \in 0..MaxSent
        /\ readPos <= writePos /\ writePos <= readPos + Capacity
        /\ Word \in Nat /\ Capacity \in Nat /\ Capacity < Word /\ MaxSent \in Nat
    BY BoundsAssumption, CapacityAssumption, WordAssumption DEF IInv, TypeOK, Positions
  <2>3. CASE readPos <= rfrom[r]
    <3>1. CountResult(r) = rfrom[r] - readPos \/ CountResult(r) = rfrom[r] - readPos - Word
      BY <2>1, <2>2, <2>3 DEF CountResult, Signed, Sub64
    <3> QED BY <2>1, <2>2, <2>3, <3>1
  <2>4. CASE rfrom[r] < readPos
    <3>1. CountResult(r) = rfrom[r] - readPos
      BY <2>1, <2>2, <2>4 DEF CountResult, Signed, Sub64
    <3> QED BY <2>2, <2>4, <3>1
  <2> QED BY <2>2, <2>3, <2>4
<1> QED
  BY <1>1, <1>2, <1>3, InductiveInvariant, PTL DEF Spec

----------------------------------------------------------------------------
\* PeekLatest on a ring that nobody consumes.

\* A peeking thread copies samples that were published, and copies them right.
PeekInData ==
  \A o \in Observers : rpc[o] = "copy" =>
    /\ rfrom[o] + rcount[o] <= writePos
    /\ Len(rout[o]) <= rcount[o]
    /\ \A k \in 1..Len(rout[o]) : rout[o][k] = sent[rfrom[o] + k]

PeekInv == readPos = 0 /\ FirstLoadPublished /\ PeekInData

\* What the steps of a reader leave alone.
LEMMA ReaderLeaves ==
  ASSUME NEW r \in Readers, ReaderGoesOn(r), rop[r] \notin {"Read", "ReadBatch"}
  PROVE  UNCHANGED <<writePos, readPos, sent, rop>>
BY DEF ReaderGoesOn, ReadLoad, CopyOut, ReadReturn

LEMMA PeekLoadStep ==
  ASSUME IInv, PeekInv, NEW r \in Observers, ReadLoad(r)
  PROVE  PeekInData'
<1> SUFFICES ASSUME NEW o \in Observers, rpc'[o] = "copy" PROVE PeekInData!(o)'
  BY DEF PeekInData
<1>0. r \in Readers /\ o \in Readers
  BY DEF Readers
<1>1. rpc[r] = "load" /\ writePos' = writePos /\ sent' = sent
  BY DEF ReadLoad
<1>2. CASE FindsNothing(r) /\ rpc' = [rpc EXCEPT ![r] = "idle"]
           /\ UNCHANGED <<rfrom, rcount, rout>>
  BY <1>0, <1>1, <1>2, SMT DEF IInv, TypeOK, PeekInv, PeekInData
<1>3. CASE /\ ~FindsNothing(r) /\ rpc' = [rpc EXCEPT ![r] = "copy"]
           /\ rcount' = [rcount EXCEPT ![r] = AtMost(rwant[r], Seen(r))]
           /\ rfrom' = [rfrom EXCEPT ![r] = IF rop[r] = "PeekLatest"
                          THEN Sub64(rfrom[r], AtMost(rwant[r], Seen(r))) ELSE rfrom[r]]
           /\ rout' = [rout EXCEPT ![r] = <<>>]
  <2>1. CASE o = r
    <3>1. rop[r] = "PeekLatest"
      BY <1>3, SMT DEF FindsNothing, IInv, TypeOK
    <3>2. /\ rfrom[r] \in Nat /\ rfrom[r] <= writePos /\ rwant[r] \in Nat
          /\ writePos \in Nat /\ readPos = 0
      BY <1>0, <1>1, <3>1, BoundsAssumption, WordAssumption
         DEF PeekInv, FirstLoadPublished, WritePosFirst, IInv, TypeOK
    <3>3. Seen(r) = rfrom[r]
      BY <3>1, <3>2 DEF Seen, WritePosFirst, Sub64
    <3>4. /\ AtMost(rwant[r], Seen(r)) \in Nat
          /\ Sub64(rfrom[r], AtMost(rwant[r], Seen(r))) = rfrom[r] - AtMost(rwant[r], Seen(r))
      BY <3>2, <3>3 DEF AtMost, Sub64
    <3>5. /\ rcount'[r] = AtMost(rwant[r], Seen(r))
          /\ rfrom'[r] = rfrom[r] - AtMost(rwant[r], Seen(r)) /\ rout'[r] = <<>>
      BY <1>0, <1>3, <3>1, <3>4 DEF IInv, TypeOK
    <3>6. Len(rout'[r]) = 0
      BY <3>5, EmptySeq
    <3> QED BY <1>1, <2>1, <3>2, <3>4, <3>5, <3>6
  <2>2. CASE o # r
    <3>1. /\ rpc[o] = "copy" /\ rfrom'[o] = rfrom[o] /\ rcount'[o] = rcount[o]
          /\ rout'[o] = rout[o]
      BY <1>0, <1>3, <2>2, SMT DEF IInv, TypeOK
    <3> QED BY <1>1, <3>1 DEF PeekInv, PeekInData
  <2> QED BY <2>1, <2>2
<1> QED BY <1>2, <1>3 DEF ReadLoad

LEMMA PeekCopyStep ==
  ASSUME IInv, PeekInv, NEW r \in Observers, CopyOut(r)
  PROVE  PeekInData'
<1> SUFFICES ASSUME NEW o \in Observers, rpc'[o] = "copy" PROVE PeekInData!(o)'
  BY DEF PeekInData
<1>0. r \in Readers /\ o \in Readers
  BY DEF Readers
<1>1. /\ rpc[r] = "copy" /\ Len(rout[r]) < rcount[r]
      /\ rout' = [rout EXCEPT ![r] = Append(rout[r], buffer[NextSlot(r)])]
      /\ UNCHANGED <<writePos, sent, rpc, rfrom, rcount>>
  BY DEF CopyOut
<1>2. CASE o = r
  <2>1. /\ rout[r] \in Seq(Samples \cup {Blank}) /\ Len(rout[r]) \in Nat
        /\ rfrom[r] \in Nat /\ rcount[r] \in Nat /\ writePos \in Nat
    BY <1>0, LenProperties, BoundsAssumption, WordAssumption DEF IInv, TypeOK
  <2>2. /\ rfrom[r] + rcount[r] <= writePos
        /\ \A k \in 1..Len(rout[r]) : rout[r][k] = sent[rfrom[r] + k]
    BY <1>1 DEF PeekInv, PeekInData
  <2>3. rfrom[r] + Len(rout[r]) \in 0..(writePos - 1)
    BY <1>1, <2>1, <2>2
  <2>4. buffer[NextSlot(r)] = sent[rfrom[r] + Len(rout[r]) + 1]
    BY <2>3 DEF PeekInv, IInv, UnreadKept, NextSlot
  <2>5. buffer[NextSlot(r)] \in Samples \cup {Blank}
    <3>1. NextSlot(r) \in 0..(Capacity - 1)
      BY <2>1, <2>3, SlotType DEF NextSlot
    <3> QED BY <3>1 DEF IInv, TypeOK
  <2>6. rout'[r] = Append(rout[r], buffer[NextSlot(r)])
    BY <1>0, <1>1 DEF IInv, TypeOK
  <2>7. /\ Len(rout'[r]) = Len(rout[r]) + 1
        /\ \A k \in 1..(Len(rout[r]) + 1) :
             rout'[r][k] = IF k <= Len(rout[r]) THEN rout[r][k] ELSE buffer[NextSlot(r)]
    BY <2>1, <2>5, <2>6, AppendProperties
  <2>8. ASSUME NEW k \in 1..(Len(rout[r]) + 1)
        PROVE  rout'[r][k] = sent[rfrom[r] + k]
    <3>1. CASE k <= Len(rout[r])
      <4>1. k \in 1..Len(rout[r])
        BY <2>1, <3>1
      <4> QED BY <2>2, <2>7, <3>1, <4>1
    <3>2. CASE k = Len(rout[r]) + 1
      <4>1. rfrom[r] + k = rfrom[r] + Len(rout[r]) + 1 /\ ~(k <= Len(rout[r]))
        BY <2>1, <3>2
      <4> QED BY <2>4, <2>7, <4>1
    <3> QED BY <2>1, <3>1, <3>2
  <2>9. Len(rout[r]) + 1 <= rcount[r]
    BY <1>1, <2>1
  <2> QED BY ONLY <1>1, <1>2, <2>2, <2>7, <2>8, <2>9
<1>3. CASE o # r
  <2>1. rout'[o] = rout[o]
    BY <1>0, <1>1, <1>3 DEF IInv, TypeOK
  <2> QED BY <1>1, <2>1 DEF PeekInv, PeekInData
<1> QED BY <1>2, <1>3

LEMMA PeekInvStep ==
  ASSUME Consumers = {}, IInv, PeekInv, [Next]_vars
  PROVE  PeekInv'
<1>0. Readers = Observers
  BY DEF Readers
<1>1. FirstLoadPublished'
  BY FirstLoadStep DEF PeekInv
<1>2. ASSUME NEW r \in Readers, NEW op, NEW n \in Nat, ReadCall(r, op, n)
      PROVE  readPos' = 0 /\ PeekInData'
  <2>1. /\ rpc' = [rpc EXCEPT ![r] = "load"]
        /\ rfrom' = [rfrom EXCEPT ![r] = FirstLoad(op)]
        /\ UNCHANGED <<writePos, readPos, rcount, rout, sent>>
    BY <1>2 DEF ReadCall
  <2> SUFFICES ASSUME NEW o \in Observers, rpc'[o] = "copy" PROVE PeekInData!(o)'
    BY <2>1 DEF PeekInv, PeekInData
  <2>2. o # r /\ rpc[o] = "copy" /\ rfrom'[o] = rfrom[o]
    BY <1>0, <2>1, SMT DEF IInv, TypeOK
  <2> QED BY <2>1, <2>2 DEF PeekInv, PeekInData
<1>3. ASSUME NEW r \in Readers, ReaderGoesOn(r)
      PROVE  readPos' = 0 /\ PeekInData'
  <2>1. rop[r] \notin {"Read", "ReadBatch"}
    BY <1>0 DEF IInv, TypeOK
  <2>2. UNCHANGED <<writePos, readPos, sent, rop>>
    BY <1>3, <2>1, ReaderLeaves
  <2>3. CASE ReadLoad(r)
    BY <1>0, <2>2, <2>3, PeekLoadStep DEF PeekInv
  <2>4. CASE CopyOut(r)
    BY <1>0, <2>2, <2>4, PeekCopyStep DEF PeekInv
  <2>5. CASE ReadReturn(r)
    <3>1. /\ rpc' = [rpc EXCEPT ![r] = "idle"] /\ rout' = [rout EXCEPT ![r] = <<>>]
          /\ UNCHANGED <<rfrom, rcount>>
      BY <2>5 DEF ReadReturn
    <3> SUFFICES ASSUME NEW o \in Observers, rpc'[o] = "copy" PROVE PeekInData!(o)'
      BY <2>2 DEF PeekInv, PeekInData
    <3>2. o # r /\ rpc[o] = "copy" /\ rout'[o] = rout[o]
      BY <1>0, <3>1, SMT DEF IInv, TypeOK
    <3> QED BY <2>2, <3>1, <3>2 DEF PeekInv, PeekInData
  <2> QED BY <1>3, <2>3, <2>4, <2>5 DEF ReaderGoesOn
<1>4. CASE Clear
  <2>1. readPos' = 0 /\ \A o \in Observers : rpc'[o] = "idle"
    BY <1>0, <1>4 DEF Clear, readerVars
  <2> QED BY <1>1, <2>1 DEF PeekInv, PeekInData
<1>5. CASE ProducerKeeps
  <2>1. UNCHANGED <<rpc, rfrom, rcount, rout, readPos>>
    BY <1>5 DEF ProducerKeeps, readerVars
  <2> SUFFICES ASSUME NEW o \in Observers, rpc[o] = "copy"
               PROVE  /\ rfrom[o] + rcount[o] <= writePos'
                      /\ Len(rout[o]) <= rcount[o]
                      /\ \A k \in 1..Len(rout[o]) : rout[o][k] = sent'[rfrom[o] + k]
    BY <1>1, <2>1 DEF PeekInv, PeekInData
  <2>2. /\ rfrom[o] + rcount[o] <= writePos /\ Len(rout[o]) <= rcount[o]
        /\ \A k \in 1..Len(rout[o]) : rout[o][k] = sent[rfrom[o] + k]
    BY DEF PeekInv, PeekInData
  <2>3. /\ rfrom[o] \in Nat /\ rcount[o] \in Nat /\ Len(rout[o]) \in Nat /\ writePos \in Nat
        /\ writePos' \in Nat /\ writePos <= writePos'
    BY <1>0, <1>5, LenProperties, BoundsAssumption, WordAssumption
       DEF IInv, TypeOK, ProducerKeeps
  <2>4. \A k \in 1..Len(rout[o]) : rfrom[o] + k \in 1..writePos
    BY <2>2, <2>3
  <2>5. \A k \in 1..writePos : sent'[k] = sent[k]
    BY <1>5 DEF ProducerKeeps
  <2>6. \A k \in 1..Len(rout[o]) : rout[o][k] = sent'[rfrom[o] + k]
    BY <2>2, <2>4, <2>5
  <2> QED BY <2>2, <2>3, <2>6
<1> QED
  BY <1>1, <1>2, <1>3, <1>4, <1>5, StepKinds DEF PeekInv

LEMMA UnconsumedInvariant == ASSUME Consumers = {} PROVE Spec => [](IInv /\ PeekInv)
<1>1. SingleConsumer
  BY DEF SingleConsumer
<1>2. Init => PeekInv
  BY DEF Init, PeekInv, FirstLoadPublished, PeekInData, Readers
<1>3. IInv /\ PeekInv /\ [Next]_vars => PeekInv'
  BY PeekInvStep
<1>4. Spec => []IInv
  BY <1>1, InductiveInvariant
<1> QED
  BY <1>2, <1>3, <1>4, PTL DEF Spec

\* PeeksArePublished: on a ring that nobody consumes PeekLatest returns
\* consecutive published samples, in any number of threads beside the producer.
THEOREM PeeksArePublished == ASSUME Consumers = {} PROVE Spec => []PeekIsPublished
<1>1. IInv /\ PeekInv => PeekIsPublished
  BY DEF IInv, Positions, PeekInv, PeekInData, PeekIsPublished
<1> QED
  BY <1>1, UnconsumedInvariant, PTL

\* PeeksRaceFree: on such a ring PeekLatest never reads the slot that the
\* producer is storing to.
THEOREM PeeksRaceFree == ASSUME Consumers = {} PROVE Spec => []PeekRaceFree
<1>1. IInv /\ PeekInv => PeekRaceFree
  <2> SUFFICES ASSUME IInv, PeekInv, NEW o \in Observers,
                      wpc = "copy", wi < Len(wbatch),
                      rpc[o] = "copy", Len(rout[o]) < rcount[o]
               PROVE  Slot(writePos + wi) # NextSlot(o)
    BY DEF PeekRaceFree, SlotConflict
  <2> DEFINE p == rfrom[o] + Len(rout[o])
             q == writePos + wi
  <2>1. /\ rfrom[o] + rcount[o] <= writePos /\ writePos + Len(wbatch) <= 0 + Capacity
    BY DEF PeekInv, PeekInData, IInv, WriterInRoom
  <2>2. /\ rfrom[o] \in Nat /\ writePos \in Nat /\ wi \in Nat /\ Capacity \in Nat
        /\ Len(rout[o]) \in Nat /\ rcount[o] \in Nat /\ Len(wbatch) \in Nat
    BY LenProperties, BoundsAssumption, CapacityAssumption, WordAssumption
       DEF IInv, TypeOK, Readers
  <2>3. wi < Len(wbatch) /\ Len(rout[o]) < rcount[o]
    OBVIOUS
  <2>4. p \in Nat /\ q \in Nat /\ p < q /\ q < p + Capacity
    BY ONLY <2>1, <2>2, <2>3
  <2> QED
    BY <2>4, SlotInjective DEF NextSlot
<1> QED
  BY <1>1, UnconsumedInvariant, PTL

----------------------------------------------------------------------------
\* The ring implements the bounded queue.

\* The contents of the queue, as the refinement reads them off the slots and as
\* the history has them.
Contents == [i \in 1..(writePos - readPos) |-> buffer[Slot(readPos + i - 1)]]
Unread == SubSeq(sent, readPos + 1, writePos)

LEMMA UnreadProperties ==
  ASSUME IInv
  PROVE  /\ Unread \in Seq(Samples) /\ Len(Unread) = writePos - readPos
         /\ writePos - readPos \in 0..Capacity
         /\ \A i \in 1..(writePos - readPos) : Unread[i] = sent[readPos + i]
<1>1. /\ readPos \in Nat /\ writePos \in Nat /\ readPos <= writePos
      /\ writePos <= readPos + Capacity /\ Capacity \in Nat
      /\ sent \in Seq(Samples) /\ Len(sent) = writePos
  BY BoundsAssumption, CapacityAssumption DEF IInv, TypeOK, Positions
<1>2. readPos + 1 \in Int /\ writePos \in Int
  BY <1>1
<1>3. \A i \in (readPos + 1)..writePos : sent[i] \in Samples
  BY <1>1, ElementOfSeq
<1>4. /\ Unread \in Seq(Samples)
      /\ Len(Unread) = IF readPos + 1 <= writePos THEN writePos - (readPos + 1) + 1 ELSE 0
      /\ \A i \in 1..(writePos - (readPos + 1) + 1) : Unread[i] = sent[(readPos + 1) + i - 1]
  BY <1>2, <1>3, SubSeqProperties DEF Unread
<1>5. writePos - (readPos + 1) + 1 = writePos - readPos
  BY <1>1
<1>6. \A i \in 1..(writePos - readPos) : (readPos + 1) + i - 1 = readPos + i
  BY <1>1
<1> QED BY <1>1, <1>4, <1>5, <1>6

LEMMA ContentsUnread == ASSUME IInv PROVE Contents = Unread
<1>1. /\ readPos \in Nat /\ writePos \in Nat /\ readPos <= writePos
  BY BoundsAssumption DEF IInv, TypeOK, Positions
<1>2. ASSUME NEW i \in 1..(writePos - readPos)
      PROVE  buffer[Slot(readPos + i - 1)] = Unread[i]
  <2>1. readPos + i - 1 \in readPos..(writePos - 1) /\ (readPos + i - 1) + 1 = readPos + i
    BY <1>1
  <2>2. buffer[Slot(readPos + i - 1)] = sent[readPos + i]
    BY <2>1 DEF IInv, UnreadKept
  <2> QED BY <2>2, UnreadProperties
<1>3. Unread = [i \in 1..(writePos - readPos) |-> Unread[i]]
  <2>1. Unread \in [1..(writePos - readPos) -> Samples]
    BY UnreadProperties, LenProperties
  <2> QED BY <2>1
<1> QED BY <1>2, <1>3, Zenon DEF Contents

\* What is known of the contents, in this state and in the next.
ContentsFacts ==
  /\ Contents = Unread
  /\ Unread \in Seq(Samples) /\ Len(Unread) = writePos - readPos
  /\ \A i \in 1..(writePos - readPos) : Unread[i] = sent[readPos + i]

LEMMA ContentsNow == IInv => ContentsFacts
BY UnreadProperties, ContentsUnread DEF ContentsFacts

LEMMA ContentsNext == IInv' => ContentsFacts'
BY ContentsNow, PTL

\* Publish appends the accepted batch to the queue.
LEMMA PublishPuts ==
  ASSUME IInv, IInv', Publish
  PROVE  \E n \in 0..(Capacity - Len(Contents)) :
           \E batch \in [1..n -> Samples] : Contents' = Contents \o batch
<1> DEFINE n == Len(wbatch)
<1>1. /\ wbatch \in Seq(Samples) /\ n \in Nat /\ wbatch \in [1..n -> Samples]
      /\ writePos' = writePos + n /\ readPos' = readPos
      /\ sent' = sent \o wbatch /\ sent \in Seq(Samples) /\ Len(sent) = writePos
      /\ readPos \in Nat /\ writePos \in Nat /\ readPos <= writePos /\ Capacity \in Nat
      /\ writePos + n <= readPos + Capacity
  BY LenProperties, BoundsAssumption, CapacityAssumption
     DEF IInv, TypeOK, Positions, WriterInRoom, Publish
<1>2. /\ Contents = Unread /\ Contents' = Unread'
  BY ContentsNow, ContentsNext DEF ContentsFacts
<1> HIDE DEF n
<1>3. /\ Unread \in Seq(Samples) /\ Len(Unread) = writePos - readPos
      /\ \A i \in 1..(writePos - readPos) : Unread[i] = sent[readPos + i]
  BY UnreadProperties
<1>4. /\ Unread' \in Seq(Samples) /\ Len(Unread') = (writePos + n) - readPos
      /\ \A i \in 1..((writePos + n) - readPos) : Unread'[i] = sent'[readPos + i]
  <2>1. /\ Unread' \in Seq(Samples) /\ Len(Unread') = writePos' - readPos'
        /\ \A i \in 1..(writePos' - readPos') : Unread'[i] = sent'[readPos' + i]
    BY ContentsNext DEF ContentsFacts
  <2>2. writePos' = writePos + n /\ readPos' = readPos
    BY <1>1
  <2> QED BY ONLY <2>1, <2>2
<1>5. /\ Unread \o wbatch \in Seq(Samples)
      /\ Len(Unread \o wbatch) = Len(Unread) + Len(wbatch)
      /\ \A i \in 1..(Len(Unread) + Len(wbatch)) :
           (Unread \o wbatch)[i] = IF i <= Len(Unread) THEN Unread[i] ELSE wbatch[i - Len(Unread)]
  BY <1>1, <1>3, ConcatProperties
<1>6. \A i \in 1..(Len(sent) + Len(wbatch)) :
        sent'[i] = IF i <= Len(sent) THEN sent[i] ELSE wbatch[i - Len(sent)]
  BY <1>1, ConcatProperties
<1>7. Len(Unread') = Len(Unread \o wbatch)
  BY <1>1, <1>3, <1>4, <1>5 DEF n
<1>8. ASSUME NEW i \in 1..Len(Unread')
      PROVE  Unread'[i] = (Unread \o wbatch)[i]
  <2>1. i \in 1..((writePos + n) - readPos) /\ readPos + i \in 1..(writePos + n)
    BY <1>1, <1>4
  <2>2. Unread'[i] = IF readPos + i <= writePos THEN sent[readPos + i]
                     ELSE wbatch[(readPos + i) - writePos]
    <3>1. Unread'[i] = sent'[readPos + i]
      BY <1>4, <2>1
    <3>2. Len(sent) + Len(wbatch) = writePos + n /\ Len(sent) = writePos
      BY <1>1 DEF n
    <3> DEFINE j == readPos + i
    <3>3. j \in 1..(Len(sent) + Len(wbatch))
      BY <2>1, <3>2
    <3> HIDE DEF j
    <3>4. sent'[j] = IF j <= Len(sent) THEN sent[j] ELSE wbatch[j - Len(sent)]
      BY <1>6, <3>3
    <3>5. sent'[j] = IF j <= writePos THEN sent[j] ELSE wbatch[j - writePos]
      BY ONLY <3>2, <3>4
    <3> QED BY ONLY <3>1, <3>5, Zenon DEF j
  <2>3. (Unread \o wbatch)[i] = IF i <= writePos - readPos THEN Unread[i]
                                ELSE wbatch[i - (writePos - readPos)]
    <3>1. Len(Unread) + Len(wbatch) = (writePos + n) - readPos /\ Len(Unread) = writePos - readPos
      BY <1>1, <1>3 DEF n
    <3>2. i \in 1..(Len(Unread) + Len(wbatch))
      BY <2>1, <3>1
    <3> QED BY ONLY <1>5, <3>1, <3>2
  <2>4. CASE i <= writePos - readPos
    <3>1. readPos + i <= writePos /\ i \in 1..(writePos - readPos)
      BY <1>1, <2>1, <2>4
    <3> QED BY <1>3, <2>2, <2>3, <2>4, <3>1
  <2>5. CASE ~(i <= writePos - readPos)
    <3>1. ~(readPos + i <= writePos) /\ i - (writePos - readPos) = (readPos + i) - writePos
      BY <1>1, <2>1, <2>5
    <3> QED BY <2>2, <2>3, <2>5, <3>1
  <2> QED BY <2>4, <2>5
<1>9. Unread' = Unread \o wbatch
  BY <1>4, <1>5, <1>7, <1>8, SeqEqual
<1>10. n \in 0..(Capacity - Len(Unread))
  BY <1>1, <1>3
<1> QED BY <1>1, <1>2, <1>9, <1>10

\* ReadReturn takes the samples it hands over from the front of the queue.
LEMMA ReleaseTakes ==
  ASSUME SingleConsumer, IInv, IInv', NEW r \in Consumers, ReadReturn(r),
         rop[r] \in {"Read", "ReadBatch"}
  PROVE  \E n \in 0..Len(Contents) :
           /\ delivered' = delivered \o SubSeq(Contents, 1, n)
           /\ Contents' = SubSeq(Contents, n + 1, Len(Contents))
<1> DEFINE n == rcount[r]
<1>0. r \in Readers
  BY DEF Readers
<1>1. /\ rpc[r] = "copy" /\ Len(rout[r]) = n
      /\ readPos' = rfrom[r] + n /\ delivered' = delivered \o rout[r]
      /\ UNCHANGED <<writePos, sent>>
  BY DEF ReadReturn, Advance
<1>2. /\ rfrom[r] = readPos /\ readPos + n <= writePos
      /\ \A k \in 1..n : rout[r][k] = sent[readPos + k]
  BY <1>1 DEF IInv, ConsumerInData
<1>3. /\ n \in Nat /\ readPos \in Nat /\ writePos \in Nat /\ readPos <= writePos
      /\ rout[r] \in Seq(Samples \cup {Blank})
  BY <1>0, BoundsAssumption DEF IInv, TypeOK, Positions
<1>4. Contents = Unread /\ Contents' = Unread'
  BY ContentsNow, ContentsNext DEF ContentsFacts
<1>5. /\ Unread \in Seq(Samples) /\ Len(Unread) = writePos - readPos
      /\ \A i \in 1..(writePos - readPos) : Unread[i] = sent[readPos + i]
  BY UnreadProperties
<1>6. /\ Unread' \in Seq(Samples) /\ Len(Unread') = writePos - (readPos + n)
      /\ \A i \in 1..(writePos - (readPos + n)) : Unread'[i] = sent[readPos + n + i]
  <2>1. readPos' = readPos + n /\ writePos' = writePos /\ sent' = sent
    BY <1>1, <1>2
  <2>2. /\ Unread' \in Seq(Samples) /\ Len(Unread') = writePos' - readPos'
        /\ \A i \in 1..(writePos' - readPos') : Unread'[i] = sent'[readPos' + i]
    BY ContentsNext DEF ContentsFacts
  <2> QED BY <2>1, <2>2
<1> HIDE DEF n
<1>7. \A i \in 1..Len(Unread) : Unread[i] \in Samples
  BY <1>5, ElementOfSeq
<1>8. /\ SubSeq(Unread, 1, n) \in Seq(Samples) /\ Len(SubSeq(Unread, 1, n)) = n
      /\ \A i \in 1..n : SubSeq(Unread, 1, n)[i] = Unread[i]
  <2>1. \A i \in 1..n : Unread[i] \in Samples
    BY <1>2, <1>3, <1>5, <1>7
  <2>2. /\ SubSeq(Unread, 1, n) \in Seq(Samples)
        /\ Len(SubSeq(Unread, 1, n)) = IF 1 <= n THEN n - 1 + 1 ELSE 0
        /\ \A i \in 1..(n - 1 + 1) : SubSeq(Unread, 1, n)[i] = Unread[1 + i - 1]
    BY <1>3, <2>1, SubSeqProperties
  <2>3. n - 1 + 1 = n /\ \A i \in 1..n : 1 + i - 1 = i
    BY <1>3
  <2> QED BY <1>3, <2>2, <2>3
<1>9. rout[r] = SubSeq(Unread, 1, n)
  <2> DEFINE T == Samples \cup {Blank}
  <2>1. SubSeq(Unread, 1, n) \in Seq(T)
    BY <1>8, SeqMonotonic
  <2>2. \A i \in 1..n : rout[r][i] = SubSeq(Unread, 1, n)[i]
    <3>1. \A i \in 1..n : i \in 1..(writePos - readPos)
      BY <1>2, <1>3
    <3> QED BY <1>2, <1>5, <1>8, <3>1
  <2>3. rout[r] \in Seq(T) /\ Len(rout[r]) = Len(SubSeq(Unread, 1, n))
    BY <1>1, <1>3, <1>8 DEF n
  <2> HIDE DEF T
  <2> QED BY ONLY <1>8, <2>1, <2>2, <2>3, SeqEqual
<1>10. Unread' = SubSeq(Unread, n + 1, Len(Unread))
  <2> DEFINE U == SubSeq(Unread, n + 1, Len(Unread))
             m == writePos - readPos
  <2>1. m \in Nat /\ n + 1 \in Int /\ Len(Unread) = m /\ n <= m
    BY <1>2, <1>3, <1>5
  <2>2. \A i \in (n + 1)..m : Unread[i] \in Samples
    BY <1>3, <1>7, <2>1
  <2> HIDE DEF m
  <2>3. /\ U \in Seq(Samples) /\ Len(U) = IF n + 1 <= m THEN m - (n + 1) + 1 ELSE 0
        /\ \A i \in 1..(m - (n + 1) + 1) : U[i] = Unread[(n + 1) + i - 1]
    BY <2>1, <2>2, SubSeqProperties
  <2> HIDE DEF U
  <2>4. Len(U) = m - n
    BY <1>3, <2>1, <2>3
  <2>5. Len(Unread') = m - n
    BY <1>3, <1>6 DEF m
  <2>6. ASSUME NEW i \in 1..(m - n) PROVE Unread'[i] = U[i]
    <3>1. /\ i \in 1..(m - (n + 1) + 1) /\ (n + 1) + i - 1 = n + i /\ n + i \in 1..m
      BY <1>3, <2>1
    <3>2. i \in 1..(writePos - (readPos + n)) /\ readPos + n + i = readPos + (n + i)
      BY <1>3 DEF m
    <3>3. U[i] = Unread[n + i]
      BY <2>3, <3>1
    <3>4. Unread[n + i] = sent[readPos + (n + i)]
      BY <1>5, <3>1 DEF m
    <3> QED BY <1>6, <3>2, <3>3, <3>4
  <2> QED BY <1>6, <2>3, <2>4, <2>5, <2>6, SeqEqual DEF U
<1>11. n \in 0..Len(Unread)
  BY <1>2, <1>3, <1>5
<1> QED BY <1>1, <1>4, <1>9, <1>10, <1>11

LEMMA StepRefines ==
  ASSUME SingleConsumer, IInv, IInv', [Next]_vars
  PROVE  [Queue!Next]_(Queue!vars)
<1> DEFINE Puts == /\ \E n \in 0..(Capacity - Len(Contents)) :
                        \E batch \in [1..n -> Samples] : Contents' = Contents \o batch
                   /\ UNCHANGED delivered
           Takes == \E n \in 0..Len(Contents) :
                      /\ delivered' = delivered \o SubSeq(Contents, 1, n)
                      /\ Contents' = SubSeq(Contents, n + 1, Len(Contents))
           Resets == Contents' = <<>> /\ delivered' = <<>>
           Stutters == Contents' = Contents /\ delivered' = delivered
<1>1. Contents = Unread /\ Contents' = Unread' /\ Unread \in Seq(Samples)
  BY ContentsNow, ContentsNext DEF ContentsFacts
<1>2. UNCHANGED <<writePos, readPos, sent, delivered>> => Stutters
  BY <1>1 DEF Unread
<1>3. Publish => Puts
  <2>1. Publish => UNCHANGED delivered
    BY DEF Publish
  <2> QED BY <2>1, PublishPuts
<1>4. Clear => Resets
  <2>1. Clear => delivered' = <<>> /\ sent' = <<>> /\ writePos' = 0 /\ readPos' = 0
    BY DEF Clear
  <2>2. ASSUME Clear PROVE Unread' = <<>>
    <3>1. Unread' = SubSeq(sent', 0 + 1, 0)
      BY <2>1, <2>2 DEF Unread
    <3> QED BY <3>1, SubSeqEmpty
  <2> QED BY <1>1, <2>1, <2>2
<1>5. ASSUME NEW r \in Readers, ReadReturn(r) PROVE Takes \/ Stutters
  <2>1. CASE rop[r] \in {"Read", "ReadBatch"}
    <3>1. r \in Consumers
      BY <2>1 DEF Readers, IInv, TypeOK
    <3> QED BY <1>5, <2>1, <3>1, ReleaseTakes
  <2>2. CASE rop[r] \notin {"Read", "ReadBatch"}
    BY <1>2, <1>5, <2>2 DEF ReadReturn
  <2> QED BY <2>1, <2>2
<1>6. Puts \/ Takes \/ Resets \/ Stutters
  <2>1. ASSUME NEW r \in Readers, ReadLoad(r) \/ CopyOut(r)
        PROVE  UNCHANGED <<writePos, readPos, sent, delivered>>
    BY <2>1 DEF ReadLoad, CopyOut
  <2>2. CASE ProducerCalls \/ WriteRefresh \/ CopyIn
    BY <1>2, <2>2 DEF ProducerCalls, WriteCall, ByteWriteCall, WriteBatchCall, CachedCall,
                      WriteRefresh, CopyIn
  <2>3. ASSUME NEW c \in Readers, ConsumerCall(c) \/ ObserverCall(c)
        PROVE  UNCHANGED <<writePos, readPos, sent, delivered>>
    BY <2>3 DEF ConsumerCall, ObserverCall, ReadCall
  <2>4. CASE UNCHANGED vars
    BY <1>2, <2>4 DEF vars
  <2>5. CASE ProducerGoesOn
    BY <1>3, <2>2, <2>5 DEF ProducerGoesOn
  <2>6. ASSUME NEW r \in Readers, ReaderGoesOn(r) PROVE Takes \/ Stutters
    <3> HIDE DEF Takes, Stutters
    <3> QED BY <1>2, <1>5, <2>1, <2>6 DEF ReaderGoesOn
  <2>7. \A c \in Consumers \cup Observers : c \in Readers
    BY DEF Readers
  <2> HIDE DEF Puts, Takes, Resets, Stutters
  <2> QED
    BY ONLY [Next]_vars, <1>2, <1>4, <2>2, <2>3, <2>4, <2>5, <2>6, <2>7, Zenon DEF Next
<1>7. Contents = [i \in 1..(writePos - readPos) |-> buffer[Slot(readPos + i - 1)]]
  BY DEF Contents
<1>8. Stutters => UNCHANGED Queue!vars
  BY DEF Queue!vars, Contents
<1>9. Puts => Queue!Put
  BY DEF Queue!Put, Contents
<1>10. Resets => Queue!Reset
  BY DEF Queue!Reset, Contents
<1>11. Takes => Queue!Take \/ Stutters
  <2> SUFFICES ASSUME NEW n \in 0..Len(Contents),
                      delivered' = delivered \o SubSeq(Contents, 1, n),
                      Contents' = SubSeq(Contents, n + 1, Len(Contents))
               PROVE  Queue!Take \/ Stutters
    OBVIOUS
  <2>1. Len(Contents) \in Nat
    BY <1>1, LenProperties
  <2>2. CASE n = 0
    <3>1. SubSeq(Contents, 1, n) = <<>>
      BY <2>2, SubSeqEmpty
    <3>2. SubSeq(Contents, n + 1, Len(Contents)) = Contents
      BY <1>1, <2>2, SubSeqFull
    <3>3. delivered \o <<>> = delivered
      BY ConcatEmptySeq DEF IInv, TypeOK
    <3> QED BY <3>1, <3>2, <3>3
  <2>3. CASE n # 0
    <3>1. n \in 1..Len(Contents)
      BY <2>1, <2>3
    <3>2. \E k \in 1..Len(Contents) :
            /\ delivered' = delivered \o SubSeq(Contents, 1, k)
            /\ Contents' = SubSeq(Contents, k + 1, Len(Contents))
      BY <3>1
    <3> QED BY <3>2 DEF Queue!Take, Contents
  <2> QED BY <2>2, <2>3
<1> HIDE DEF Puts, Takes, Resets, Stutters
<1> QED BY <1>6, <1>8, <1>9, <1>10, <1>11 DEF Queue!Next

\* RingIsQueue: with one consumer the ring implements the bounded first-in
\* first-out queue, for every capacity and every interleaving of the accesses.
THEOREM RingIsQueue == ASSUME SingleConsumer PROVE Spec => QueueSpec
<1>1. Init => Queue!Init
  <2> SUFFICES ASSUME Init PROVE Queue!Init
    OBVIOUS
  <2>1. IInv /\ sent = <<>> /\ writePos = 0 /\ readPos = 0 /\ delivered = <<>>
    BY InitIInv DEF Init
  <2>2. Contents = SubSeq(<<>>, 0 + 1, 0)
    BY <2>1, ContentsNow DEF ContentsFacts, Unread
  <2>3. Contents = <<>>
    BY <2>2, SubSeqEmpty
  <2> QED BY <2>1, <2>3 DEF Queue!Init, Contents
<1>2. IInv /\ IInv' /\ [Next]_vars => [Queue!Next]_(Queue!vars)
  BY StepRefines
<1> QED
  BY <1>1, <1>2, InductiveInvariant, PTL DEF Spec, QueueSpec, Queue!Spec
=============================================================================

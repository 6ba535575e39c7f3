---------------------------- MODULE LockFreeRings ----------------------------
(* The five rings of internal/lockfree besides SPSCRing: HPRing and          *)
(* AtomicRing (hazards.go), SeqLockRing and MPSeqRing (seqlock.go), SlotRing *)
(* (spsc.go).  A behaviour is about one of them, chosen in Init; an action   *)
(* is one access to shared memory.  (LinkedQueue is the module of the sixth  *)
(* structure, HPLinkedQueue, with which this one is checked.)                *)
(*                                                                           *)
(* Two families.  In HPRing and SlotRing each slot carries a sequence number *)
(* that says which position it is free for or holds; in the others the slots *)
(* between tail and head hold samples.  HPRing claims positions by CAS and   *)
(* MPSeqRing by spin locks, so they take any number of threads; SeqLockRing  *)
(* takes many writers, under a mutex, and one reader; AtomicRing and SlotRing*)
(* store their positions as they are, for one writer and one reader.         *)
EXTENDS Integers, Sequences
LOCAL INSTANCE Functions

CONSTANTS
  Kinds,        \* the rings of this instance
  Capacity,     \* slots, a power of two
  Producers, Consumers,
  Observers,    \* threads that peek
  LeadWriter, LeadReader,  \* the one writer or reader where only one is allowed
  MaxBatch,     \* bound: samples in a batch
  MaxWrites     \* bound: samples offered in a behaviour

AllKinds == {"HPRing", "SlotRing", "SeqLockRing", "MPSeqRing", "AtomicRing", "HPLinkedQueue"}

VARIABLES
  kind,                  \* which ring
  head, tail,            \* positions: next to write, next to read
  slot, seq,             \* per slot: its sample and its sequence number
  writeLock, readLock,   \* holders of the locks, NoThread if free
  me,                    \* what each thread is doing
  offered,               \* samples each producer has offered
  written,               \* history: samples by position
  got                    \* history: what was read, by position

slots   == <<slot, seq>>
locks   == <<writeLock, readLock>>
shared  == <<head, tail, slots, locks>>
history == <<written, got>>
vars    == <<kind, shared, me, offered, history>>

Threads   == Producers \cup Consumers \cup Observers
NoThread  == [thread |-> "none"]
Torn      == <<"torn", 0>>      \* a slot while it is being written
NoValue   == <<"none", 0>>
Twice     == <<"twice", 0>>     \* a position that was read twice

(* With one slot, HPRing and SlotRing could not tell a full slot from one    *)
(* that is free for the next lap.                                            *)
ASSUME RingsAssumption ==
  /\ Kinds \subseteq AllKinds /\ Capacity \in Nat \ {0, 1}
  /\ LeadWriter \in Producers /\ LeadReader \in Consumers
  /\ Producers \cap Consumers = {} /\ (Producers \cup Consumers) \cap Observers = {}
  /\ NoThread \notin Producers \cup Consumers
  /\ MaxBatch \in Nat \ {0} /\ MaxWrites \in Nat

(* A thread's step, its call (operation and size), the position it works at, *)
(* the other one, how many samples it moves and those it has moved.          *)
Idle == [at |-> "idle", op |-> "none", want |-> 0, pos |-> 0, far |-> 0, n |-> 1, out |-> <<>>]

Slotted == kind \in {"HPRing", "SlotRing"}
Writers == IF kind \in {"AtomicRing", "SlotRing"} THEN {LeadWriter} ELSE Producers
Readers == IF kind \in {"HPRing", "MPSeqRing"} THEN Consumers ELSE {LeadReader}
Batches == IF kind \in {"SeqLockRing", "AtomicRing"} THEN 1..MaxBatch ELSE {1}
Lowest(a, b) == IF a < b THEN a ELSE b

Slot(position) == position % Capacity

RingInit ==
  /\ kind \in Kinds /\ head = 0 /\ tail = 0
  /\ slot = [s \in 0..(Capacity - 1) |-> NoValue] /\ seq = [s \in 0..(Capacity - 1) |-> s]
  /\ writeLock = NoThread /\ readLock = NoThread
  /\ me = [t \in Threads |-> Idle] /\ offered = [p \in Producers |-> 0]
  /\ written = <<>> /\ got = <<>>

At(t, step)   == me[t].at = step
Goto(t, step) == me' = [me EXCEPT ![t].at = step]
Return(t)     == me' = [me EXCEPT ![t] = Idle]
Release(lock, t) == lock' = IF lock = t THEN NoThread ELSE lock

-------------------------------------------------------------------------------
(* Writing.  The call takes its lock, if any, and loads head.                *)
Value(p, k) == <<p, offered[p] + k>>
SumOf(f) == FoldFunction(+, 0, f)

WriteCall(p) ==
  /\ p \in Writers /\ At(p, "idle")
  /\ IF kind \in {"SeqLockRing", "MPSeqRing"} THEN writeLock = NoThread /\ writeLock' = p
     ELSE UNCHANGED writeLock
  /\ \E size \in Batches :
       /\ SumOf(offered) + size <= MaxWrites
       /\ me' = [me EXCEPT ![p].n = size, ![p].pos = head,
                           ![p].at = IF Slotted THEN "loadSeq" ELSE "loadTail"]
  /\ UNCHANGED <<kind, head, tail, slots, readLock, offered, history>>

WriteAgain(p) ==
  /\ At(p, "writeAgain") /\ me' = [me EXCEPT ![p].pos = head, ![p].at = "loadSeq"]
  /\ UNCHANGED <<kind, shared, offered, history>>

(* The ring is full for this call: it returns false, or 0.                   *)
Refuse(p) ==
  /\ Return(p) /\ Release(writeLock, p)
  /\ UNCHANGED <<kind, head, tail, slots, readLock, offered, history>>

LoadSeq(p) ==
  LET s == seq[Slot(me[p].pos)]
      on(step) == Goto(p, step) /\ UNCHANGED <<kind, shared, offered, history>>
  IN  /\ At(p, "loadSeq")
      /\ \/ s = me[p].pos /\ on(IF kind = "HPRing" THEN "claim" ELSE "fill")
         \/ (s < me[p].pos \/ (kind = "SlotRing" /\ s # me[p].pos)) /\ Refuse(p)
         \/ s > me[p].pos /\ kind = "HPRing" /\ on("writeAgain")

(* A slip for a mutant: head is stored without comparing it.                 *)
ClaimStored(p) ==
  /\ At(p, "claim") /\ head' = me[p].pos + 1 /\ Goto(p, "fill")
  /\ written' = Append(written, Value(p, 1))
  /\ UNCHANGED <<kind, tail, slots, locks, offered, got>>

Claim(p) ==
  /\ At(p, "claim")
  /\ \/ /\ head = me[p].pos /\ head' = me[p].pos + 1 /\ Goto(p, "fill")
        /\ written' = Append(written, Value(p, 1))
     \/ head # me[p].pos /\ Goto(p, "writeAgain") /\ UNCHANGED <<head, written>>
  /\ UNCHANGED <<kind, tail, slots, locks, offered, got>>

LoadTail(p) ==
  LET free == Capacity - (me[p].pos - tail)
  IN  /\ At(p, "loadTail")
      /\ \/ free = 0 /\ Refuse(p)
         \/ /\ free > 0 /\ me' = [me EXCEPT ![p].n = Lowest(@, free), ![p].at = "fill"]
            /\ UNCHANGED <<kind, shared, offered, history>>

(* Storing a sample takes time: from Fill to Filled the slot is torn.        *)
FillSlot(p) == Slot(me[p].pos + Len(me[p].out))

Fill(p) ==
  /\ At(p, "fill") /\ Goto(p, "filling")
  /\ slot' = [slot EXCEPT ![FillSlot(p)] = Torn]
  /\ UNCHANGED <<kind, head, tail, seq, locks, offered, history>>

Filled(p) ==
  LET value == Value(p, Len(me[p].out) + 1)
  IN  /\ At(p, "filling")
      /\ slot' = [slot EXCEPT ![FillSlot(p)] = value]
      /\ me' = [me EXCEPT ![p].out = Append(@, value),
                          ![p].at = IF Len(me[p].out) + 1 < me[p].n THEN "fill" ELSE "publish"]
      /\ UNCHANGED <<kind, head, tail, seq, locks, offered, history>>

(* The number of a slot that holds the sample of a position; and a slip for a*)
(* mutant, the number of a slot that waits for it.                           *)
StampFree(position) == position
Stamp(position) == position + 1

(* HPRing has claimed its position already; SlotRing stores head later.      *)
PublishSeq(p) ==
  /\ At(p, "publish") /\ Slotted
  /\ seq' = [seq EXCEPT ![Slot(me[p].pos)] = Stamp(me[p].pos)]
  /\ offered' = [offered EXCEPT ![p] = @ + 1]
  /\ IF kind = "HPRing" THEN Return(p) /\ UNCHANGED written
     ELSE Goto(p, "advance") /\ written' = Append(written, Value(p, 1))
  /\ UNCHANGED <<kind, head, tail, slot, locks, got>>

Advance(p) ==
  /\ At(p, "advance") /\ head' = me[p].pos + 1 /\ Return(p)
  /\ UNCHANGED <<kind, tail, slots, locks, offered, history>>

PublishHead(p) ==
  /\ At(p, "publish") /\ ~Slotted
  /\ head' = me[p].pos + me[p].n /\ written' = written \o me[p].out
  /\ offered' = [offered EXCEPT ![p] = @ + me[p].n]
  /\ Return(p) /\ Release(writeLock, p)
  /\ UNCHANGED <<kind, tail, slots, readLock, got>>

Write(p) ==
  \/ WriteAgain(p) \/ LoadSeq(p) \/ Claim(p) \/ LoadTail(p) \/ Fill(p) \/ Filled(p)
  \/ PublishSeq(p) \/ Advance(p) \/ PublishHead(p)

-------------------------------------------------------------------------------
(* Reading.  SeqLockRing reads again if head moved meanwhile.                *)
Load(c) == IF Slotted THEN [me[c] EXCEPT !.pos = tail, !.at = "loadFullSeq"]
                      ELSE [me[c] EXCEPT !.far = head, !.at = "loadOwnTail"]

ReadCall(c) ==
  /\ c \in Readers /\ At(c, "idle")
  /\ IF kind = "MPSeqRing" THEN readLock = NoThread /\ readLock' = c ELSE UNCHANGED readLock
  /\ \E size \in Batches : me' = [me EXCEPT ![c] = [Load(c) EXCEPT !.want = size]]
  /\ UNCHANGED <<kind, head, tail, slots, writeLock, offered, history>>

ReadAgain(c) ==
  /\ At(c, "readAgain") /\ me' = [me EXCEPT ![c] = Load(c)]
  /\ UNCHANGED <<kind, shared, offered, history>>

FindNothing(c) ==
  /\ Return(c) /\ Release(readLock, c)
  /\ UNCHANGED <<kind, head, tail, slots, writeLock, offered, history>>

(* The slot at a reader's position does not hold its sample; and a slip for a*)
(* mutant, off by one.                                                       *)
NotStoredOrJust(c) == seq[Slot(me[c].pos)] <= me[c].pos + 1
NotStored(c) ==
  \/ seq[Slot(me[c].pos)] < me[c].pos + 1
  \/ kind = "SlotRing" /\ seq[Slot(me[c].pos)] # me[c].pos + 1

LoadFullSeq(c) ==
  LET s    == seq[Slot(me[c].pos)]
      full == me[c].pos + 1
      on(step) == Goto(c, step) /\ UNCHANGED <<kind, shared, offered, history>>
  IN  /\ At(c, "loadFullSeq")
      /\ \/ s = full /\ on(IF kind = "HPRing" THEN "claimRead" ELSE "copy")
         \/ NotStored(c) /\ FindNothing(c)
         \/ s > full /\ kind = "HPRing" /\ on("readAgain")

ClaimRead(c) ==
  /\ At(c, "claimRead")
  /\ \/ tail = me[c].pos /\ tail' = me[c].pos + 1 /\ Goto(c, "copy")
     \/ tail # me[c].pos /\ Goto(c, "readAgain") /\ UNCHANGED tail
  /\ UNCHANGED <<kind, head, slots, locks, offered, history>>

(* The count is a difference of unsigned numbers, huge if tail has passed the*)
(* head that was loaded.                                                     *)
Count(t) == IF tail <= me[t].far THEN Lowest(me[t].want, me[t].far - tail) ELSE me[t].want

LoadOwnTail(c) ==
  /\ At(c, "loadOwnTail")
  /\ \/ me[c].far = tail /\ FindNothing(c)
     \/ /\ me[c].far # tail
        /\ me' = [me EXCEPT ![c].pos = tail, ![c].n = Count(c), ![c].at = "copy"]
        /\ UNCHANGED <<kind, shared, offered, history>>

Copy(t) ==
  /\ At(t, "copy")
  /\ me' = [me EXCEPT ![t].out = Append(@, slot[Slot(me[t].pos + Len(@))]),
       ![t].at = IF Len(me[t].out) + 1 < me[t].n THEN "copy"
                 ELSE IF kind = "SeqLockRing"    THEN "checkHead"
                 ELSE IF t \in Observers         THEN "peeked" ELSE "release"]
  /\ UNCHANGED <<kind, shared, offered, history>>

(* Positions first, ..., first + Len(values) - 1 have been read.             *)
ReadAt(k) == IF k \in DOMAIN got THEN got[k] ELSE NoValue
Deliver(first, values) ==
  LET last == first + Len(values)
  IN  got' = [k \in 1..(IF Len(got) < last THEN last ELSE Len(got)) |->
               IF k <= first \/ k > last THEN ReadAt(k)
               ELSE IF ReadAt(k) = NoValue THEN values[k - first] ELSE Twice]

ReleaseSlot(c) ==
  /\ At(c, "release") /\ Slotted
  /\ seq' = [seq EXCEPT ![Slot(me[c].pos)] = me[c].pos + Capacity]
  /\ Deliver(me[c].pos, me[c].out)
  /\ IF kind = "HPRing" THEN Return(c) ELSE Goto(c, "advanceRead")
  /\ UNCHANGED <<kind, head, tail, slot, locks, offered, written>>

AdvanceRead(c) ==
  /\ At(c, "advanceRead") /\ tail' = me[c].pos + 1 /\ Return(c)
  /\ UNCHANGED <<kind, head, slots, locks, offered, history>>

CheckHead(c) ==
  /\ At(c, "checkHead")
  /\ \/ head = me[c].far /\ Goto(c, "release")
     \/ head # me[c].far /\ me' = [me EXCEPT ![c].at = "readAgain", ![c].out = <<>>]
  /\ UNCHANGED <<kind, shared, offered, history>>

ReleaseTail(c) ==
  /\ At(c, "release") /\ ~Slotted
  /\ tail' = me[c].pos + me[c].n /\ Deliver(me[c].pos, me[c].out)
  /\ Return(c) /\ Release(readLock, c)
  /\ UNCHANGED <<kind, head, slots, writeLock, offered, written>>

Read(c) ==
  \/ ReadAgain(c) \/ LoadFullSeq(c) \/ ClaimRead(c) \/ LoadOwnTail(c) \/ Copy(c)
  \/ ReleaseSlot(c) \/ AdvanceRead(c) \/ CheckHead(c) \/ ReleaseTail(c)

-------------------------------------------------------------------------------
(* Peeking: Peek and PeekLatest of SeqLockRing, which try again if head (and,*)
(* for Peek, tail) moved, and PeekLatest of AtomicRing, which does not look. *)
PeekCall(o) ==
  /\ At(o, "idle") /\ kind \in {"SeqLockRing", "AtomicRing"}
  /\ \E which \in {"Peek", "PeekLatest"}, size \in Batches :
       /\ which = "Peek" => kind = "SeqLockRing"
       /\ me' = [me EXCEPT ![o] = [Load(o) EXCEPT !.op = which, !.want = size]]
  /\ UNCHANGED <<kind, shared, offered, history>>

PeekAgain(o) ==
  /\ At(o, "peekAgain") /\ me' = [me EXCEPT ![o] = Load(o)]
  /\ UNCHANGED <<kind, shared, offered, history>>

(* PeekLatest keeps the size it was cut to when it tries again.              *)
PeekTail(o) ==
  /\ At(o, "loadOwnTail")
  /\ IF me[o].far = tail THEN Return(o)
     ELSE me' = [me EXCEPT ![o].n = Count(o), ![o].at = "copy",
            ![o].pos  = IF me[o].op = "Peek" THEN tail ELSE me[o].far - Count(o),
            ![o].want = IF me[o].op = "Peek" THEN @ ELSE Count(o)]
  /\ UNCHANGED <<kind, shared, offered, history>>

PeekCheckHead(o) ==
  /\ At(o, "checkHead")
  /\ IF head # me[o].far THEN me' = [me EXCEPT ![o].at = "peekAgain", ![o].out = <<>>]
     ELSE Goto(o, IF me[o].op = "Peek" THEN "checkTail" ELSE "peeked")
  /\ UNCHANGED <<kind, shared, offered, history>>

(* A slip for a mutant: the tail is not checked.                             *)
TailUnchecked(o) ==
  /\ At(o, "checkTail") /\ Goto(o, "peeked") /\ UNCHANGED <<kind, shared, offered, history>>

PeekCheckTail(o) ==
  /\ At(o, "checkTail")
  /\ IF tail # me[o].pos THEN me' = [me EXCEPT ![o].at = "peekAgain", ![o].out = <<>>]
     ELSE Goto(o, "peeked")
  /\ UNCHANGED <<kind, shared, offered, history>>

PeekReturn(o) == At(o, "peeked") /\ Return(o) /\ UNCHANGED <<kind, shared, offered, history>>

Peek(o) ==
  \/ PeekAgain(o) \/ PeekTail(o) \/ Copy(o) \/ PeekCheckHead(o) \/ PeekCheckTail(o) \/ PeekReturn(o)

(* SeqLockRing.Clear excludes writers; it stores both positions while nobody *)
(* reads, as its callers, the benchmarks, use it.                            *)
Clear ==
  /\ kind = "SeqLockRing" /\ writeLock = NoThread
  /\ \A t \in Consumers \cup Observers : At(t, "idle")
  /\ head > 0 /\ head' = 0 /\ tail' = 0 /\ written' = <<>> /\ got' = <<>>
  /\ UNCHANGED <<kind, slots, locks, me, offered>>

RingNext ==
  \/ \E p \in Producers : WriteCall(p) \/ Write(p)
  \/ \E c \in Consumers : ReadCall(c) \/ Read(c)
  \/ \E o \in Observers : PeekCall(o) \/ Peek(o)
  \/ Clear

-------------------------------------------------------------------------------
RingTypeOK ==
  /\ kind \in AllKinds /\ tail \in Nat /\ head \in Nat
  /\ writeLock \in Producers \cup {NoThread} /\ readLock \in Consumers \cup {NoThread}
  /\ Len(written) <= head + 1 /\ \A t \in Threads : Len(me[t].out) <= me[t].n

(* Whatever is read at a position is the sample written there, whole, and it *)
(* is read once.                                                             *)
ReadOnce == \A k \in DOMAIN got : got[k] # NoValue => k <= Len(written) /\ got[k] = written[k]

(* Each producer's samples have positions in the order it offered them.      *)
InProducersOrder ==
  \A i, j \in DOMAIN written :
    i < j /\ written[i][1] = written[j][1] => written[i][2] < written[j][2]

(* Two producers are never storing into one slot.                            *)
StoresApart ==
  \A p, q \in Producers :
    p # q /\ At(p, "filling") /\ At(q, "filling") => FillSlot(p) # FillSlot(q)

(* A writer that is about to be refused finds the ring full: Capacity        *)
(* positions are claimed of which the first is not read yet, even if later   *)
(* ones are.                                                                 *)
FullFor(p) ==
  \/ At(p, "loadSeq") /\ seq[Slot(me[p].pos)] < me[p].pos
  \/ At(p, "loadSeq") /\ kind = "SlotRing" /\ seq[Slot(me[p].pos)] # me[p].pos
  \/ At(p, "loadTail") /\ me[p].pos - tail = Capacity
RefusesOnlyWhenFull ==
  \A p \in Producers :
    FullFor(p) => me[p].pos >= Capacity /\ ReadAt(me[p].pos - Capacity + 1) = NoValue

(* A reader, or a thread that peeks, that is about to say that there is      *)
(* nothing.  HPRing says so when the oldest sample nobody has claimed is     *)
(* still being stored, even if a later one is whole already; SlotRing when   *)
(* all that was published has been read; the others when all that was        *)
(* published before they loaded head has been.                               *)
FindsNothing(t) ==
  \/ At(t, "loadFullSeq") /\ NotStored(t)
  \/ At(t, "loadOwnTail") /\ me[t].far = tail
BeingStored(k) ==
  \E p \in Producers : me[p].at \in {"fill", "filling", "publish"} /\ me[p].pos = k
EmptyOnlyWhenRead ==
  \A t \in Consumers \cup Observers :
    FindsNothing(t) =>
      IF kind = "HPRing" THEN me[t].pos = tail /\ (head = tail \/ BeingStored(tail))
      ELSE \A k \in 1..(IF Slotted THEN Len(written) ELSE me[t].far) : ReadAt(k) # NoValue

RingInOrder ==
  /\ RingTypeOK /\ ReadOnce /\ InProducersOrder /\ StoresApart
  /\ RefusesOnlyWhenFull /\ EmptyOnlyWhenRead

(* Peek returns what is published at the positions it copied; PeekLatest too,*)
(* except for samples that a reader has released before it returns, whose    *)
(* slots a writer may be storing into.                                       *)
PeekIsWhole ==
  \A o \in Observers : \A k \in 1..me[o].n :
    At(o, "peeked") /\ (me[o].op = "Peek" \/ tail < me[o].pos + k)
      => me[o].pos + k \in DOMAIN written /\ me[o].out[k] = written[me[o].pos + k]

(* All that is published has been read.                                      *)
RingDrained == \A k \in DOMAIN written : ReadAt(k) # NoValue
===============================================================================

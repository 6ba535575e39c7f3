----------------------------- MODULE StreamBuffer -----------------------------
(* RingBuffer and StreamProcessor of internal/buffer/ringbuf.go.             *)
(*                                                                           *)
(* Each call on the buffer holds its lock and is one step; processLoop tests *)
(* the count without it.  The samples that the buffer accepts are numbered   *)
(* 1, 2, 3, ... in the order of their acceptance.                            *)
EXTENDS Integers, Sequences

CONSTANTS
  Capacity,    \* slots of the buffer, a power of two
  Window,      \* windowSize
  MaxBatch,    \* bound: samples in a Write
  MaxSamples   \* bound: samples accepted

(* A window larger than the buffer would never fill.                         *)
ASSUME StreamAssumption ==
  /\ Capacity \in Nat \ {0} /\ Window \in 1..Capacity
  /\ MaxBatch \in Nat \ {0} /\ MaxSamples \in Nat

VARIABLES
  buffer, writeIdx, readIdx, count,  \* the ring
  waitCh,                            \* its channel holds a token
  closed,                            \* Close was called
  running, closeCh,                  \* flag and closed channel of the processor
  loopAt, stopAt,                    \* where processLoop is, and the caller of Stop
  windowBuf,                         \* the window in hand
  accepted, cleared,                 \* history: samples accepted, removed by Clear
  windows                            \* history: what the callback was given

ring      == <<buffer, writeIdx, readIdx, count>>
processor == <<running, closeCh, loopAt, stopAt, windowBuf, windows>>
streamVars == <<ring, waitCh, closed, processor, accepted, cleared>>

StreamInit ==
  /\ buffer = [i \in 0..(Capacity - 1) |-> 0] /\ writeIdx = 0 /\ readIdx = 0 /\ count = 0
  /\ waitCh = FALSE /\ closed = FALSE /\ running = FALSE /\ closeCh = FALSE
  /\ loopAt = "none" /\ stopAt = "none" /\ windowBuf = <<>>
  /\ accepted = 0 /\ cleared = 0 /\ windows = <<>>

Least(a, b) == IF a < b THEN a ELSE b
Index(i) == i % Capacity
(* n samples of the ring from index i on.                                    *)
Samples(i, n) == [k \in 1..n |-> buffer[Index(i + k - 1)]]

(* A slip for a mutant: a token only if the buffer was empty.                *)
WakesIfEmpty == waitCh' = (waitCh \/ count = 0)
Wakes == waitCh' = TRUE

(* Write stores what fits; a full buffer still sends the token.              *)
Write(n) ==
  /\ ~closed
  /\ LET fits == Least(n, Capacity - count)
     IN  /\ accepted + fits <= MaxSamples
         /\ buffer' = [i \in DOMAIN buffer |->
              IF \E k \in 1..fits : Index(writeIdx + k - 1) = i
                THEN accepted + (CHOOSE k \in 1..fits : Index(writeIdx + k - 1) = i)
                ELSE buffer[i]]
         /\ writeIdx' = writeIdx + fits /\ count' = count + fits
         /\ accepted' = accepted + fits
  /\ Wakes /\ UNCHANGED <<readIdx, closed, processor, cleared>>

WriteSingle ==
  /\ ~closed /\ count < Capacity /\ accepted < MaxSamples
  /\ buffer' = [buffer EXCEPT ![Index(writeIdx)] = accepted + 1]
  /\ writeIdx' = writeIdx + 1 /\ count' = count + 1 /\ accepted' = accepted + 1
  /\ Wakes /\ UNCHANGED <<readIdx, closed, processor, cleared>>

Peek(n) == Samples(readIdx, Least(n, count))
PeekLatest(n) == Samples(writeIdx - Least(n, count), Least(n, count))

(* Clear is for a buffer that nobody is reading.                             *)
Clear ==
  /\ loopAt = "none" /\ count > 0
  /\ writeIdx' = 0 /\ readIdx' = 0 /\ count' = 0 /\ cleared' = cleared + count
  /\ UNCHANGED <<buffer, waitCh, closed, processor, accepted>>

-------------------------------------------------------------------------------
Start ==
  /\ loopAt = "none" /\ running' = TRUE /\ loopAt' = "test"
  /\ UNCHANGED <<ring, waitCh, closed, closeCh, stopAt, windowBuf, windows, accepted, cleared>>

(* Stop clears the flag, closes the buffer and closes the channel.           *)
StopFlag ==
  /\ stopAt = "none" /\ loopAt # "none" /\ running' = FALSE /\ stopAt' = "close"
  /\ UNCHANGED <<ring, waitCh, closed, closeCh, loopAt, windowBuf, windows, accepted, cleared>>

CloseBuffer ==
  /\ stopAt = "close" /\ closed' = TRUE /\ waitCh' = TRUE /\ stopAt' = "channel"
  /\ UNCHANGED <<ring, running, closeCh, loopAt, windowBuf, windows, accepted, cleared>>

CloseChannel ==
  /\ stopAt = "channel" /\ closeCh' = TRUE /\ stopAt' = "done"
  /\ UNCHANGED <<ring, waitCh, closed, running, loopAt, windowBuf, windows, accepted, cleared>>

-------------------------------------------------------------------------------
(* processLoop.                                                              *)
At(step)   == loopAt = step
Goto(step) == loopAt' = step
LoopStep   == UNCHANGED <<closed, running, closeCh, stopAt, accepted, cleared>>

TestRunning ==
  /\ At("test") /\ Goto(IF running THEN "count" ELSE "ended")
  /\ LoopStep /\ UNCHANGED <<ring, waitCh, windowBuf, windows>>

CheckCount ==
  /\ At("count") /\ Goto(IF count < Window THEN "wait" ELSE "drain")
  /\ LoopStep /\ UNCHANGED <<ring, waitCh, windowBuf, windows>>

Woken ==
  /\ At("wait") /\ waitCh /\ waitCh' = FALSE /\ Goto("test")
  /\ LoopStep /\ UNCHANGED <<ring, windowBuf, windows>>

Interrupted ==
  /\ At("wait") /\ closeCh /\ Goto("ended")
  /\ LoopStep /\ UNCHANGED <<ring, waitCh, windowBuf, windows>>

Drain ==
  /\ At("drain") /\ Goto(IF count >= Window THEN "read" ELSE "test")
  /\ LoopStep /\ UNCHANGED <<ring, waitCh, windowBuf, windows>>

(* A slip for a mutant: the index moves by one sample, whatever was read.    *)
ReadByOne(n) == readIdx' = readIdx + 1
ReadOn(n) == readIdx' = readIdx + n

(* Fewer samples than a window would be dropped; only this loop reads.       *)
ReadWindow ==
  LET n == Least(Window, count)
  IN  /\ At("read") /\ windowBuf' = Samples(readIdx, n)
      /\ ReadOn(n) /\ count' = count - n
      /\ Goto(IF n < Window THEN "test" ELSE "callback")
      /\ LoopStep /\ UNCHANGED <<buffer, writeIdx, waitCh, windows>>

Callback ==
  /\ At("callback") /\ windows' = Append(windows, windowBuf) /\ windowBuf' = <<>> /\ Goto("drain")
  /\ LoopStep /\ UNCHANGED <<ring, waitCh>>

ProcessLoop ==
  \/ TestRunning \/ CheckCount \/ Woken \/ Interrupted \/ Drain \/ ReadWindow \/ Callback

StreamNext ==
  \/ \E n \in 1..MaxBatch : Write(n)
  \/ WriteSingle \/ Clear \/ Start \/ StopFlag \/ CloseBuffer \/ CloseChannel \/ ProcessLoop

-------------------------------------------------------------------------------
StreamTypeOK ==
  /\ count \in 0..Capacity /\ writeIdx - readIdx = count
  /\ {waitCh, closed, running, closeCh} \subseteq BOOLEAN

(* The callback gets whole windows, without gap or overlap, of the samples   *)
(* in the order in which they were accepted; what it has not got is in the   *)
(* window in hand and the buffer, where Peek and PeekLatest find the oldest  *)
(* and the newest.                                                           *)
Numbers(first, n) == [k \in 1..n |-> first + k]
Handed == cleared + Window * Len(windows)
WindowsInOrder ==
  /\ StreamTypeOK
  /\ \A i \in DOMAIN windows : windows[i] = Numbers(cleared + Window * (i - 1), Window)
  /\ windowBuf \o Peek(count) = Numbers(Handed, accepted - Handed)
  /\ \A n \in 1..count : PeekLatest(n) = Numbers(accepted - n, n)

(* No wake-up is lost: a window that is full reaches the callback, unless    *)
(* the processor is stopped.                                                 *)
WindowsProcessed ==
  \A k \in 1..(MaxSamples \div Window) :
    loopAt # "none" /\ accepted >= cleared + Window * k ~> Len(windows) >= k \/ ~running
===============================================================================

--------------------------- MODULE BackgroundProofs ---------------------------
(* Proofs about the parts MCBackground composes: the ring buffer and its     *)
(* stream processor for every capacity, every window that fits and every     *)
(* length of a Write; DoubleBuffer and DoubleSeqLock for every size of a     *)
(* frame and every length of a WriteMany; the watchdog for every timeout.    *)
EXTENDS StreamBuffer, FrameBuffers, Watchdog, TLAPS

StreamSpec == StreamInit /\ [][StreamNext]_streamVars

StreamTypes ==
  /\ buffer \in [0..(Capacity - 1) -> Nat] /\ writeIdx \in Nat /\ readIdx \in Nat
  /\ count \in 0..Capacity /\ writeIdx = readIdx + count
  /\ waitCh \in BOOLEAN /\ closed \in BOOLEAN /\ running \in BOOLEAN /\ closeCh \in BOOLEAN
  /\ accepted \in Nat /\ cleared \in Nat
  /\ windowBuf \in Seq(Nat) /\ windows \in Seq(Seq(Nat))

(* The count unread slots hold the samples accepted last, oldest first.      *)
UnreadHeld == \A k \in 1..count : buffer[Index(readIdx + k - 1)] = accepted - count + k

(* Every sample accepted was removed by Clear, given to the callback, is in  *)
(* the window in hand or is unread.                                          *)
Accounted == accepted = Handed + Len(windowBuf) + count

(* Only a whole window is ever in hand, and it follows those given.          *)
WindowInHand ==
  /\ loopAt = "read" => count >= Window
  /\ windowBuf = IF loopAt = "callback" THEN Numbers(Handed, Window) ELSE <<>>

WindowsGiven ==
  /\ loopAt = "none" => windows = <<>>
  /\ \A i \in DOMAIN windows : windows[i] = Numbers(cleared + Window * (i - 1), Window)

StreamInv == StreamTypes /\ UnreadHeld /\ Accounted /\ WindowInHand /\ WindowsGiven

-------------------------------------------------------------------------------
\* The capacity and the window as numbers.
LEMMA Sizes == Capacity \in Nat /\ Capacity > 0 /\ Window \in Nat /\ Window > 0 /\ Window <= Capacity
BY StreamAssumption

\* An index is a slot.
LEMMA IndexType ==
  ASSUME NEW p \in Nat
  PROVE  Index(p) \in 0..(Capacity - 1)
BY Sizes, SMT DEF Index

\* Positions that differ by less than the capacity have different slots.
LEMMA IndexInjective ==
  ASSUME NEW p \in Nat, NEW q \in Nat, p < q, q < p + Capacity
  PROVE  Index(p) # Index(q)
<1> DEFINE a == p \div Capacity
           b == q \div Capacity
<1>1. a \in Int /\ b \in Int
  BY Sizes, SMT
<1>2. p = Capacity * a + Index(p) /\ q = Capacity * b + Index(q)
  BY Sizes, SMT DEF Index
<1> HIDE DEF a, b
<1>3. Capacity * a \in Int /\ Capacity * b \in Int
  BY <1>1, Sizes, SMT
<1>4. b <= a => Capacity * b <= Capacity * a
  BY <1>1, Sizes, SMT
<1>5. a < b => Capacity * a + Capacity <= Capacity * b
  BY <1>1, Sizes, SMT
<1>6. Index(p) \in 0..(Capacity - 1) /\ Index(q) \in 0..(Capacity - 1)
  BY IndexType
<1> QED
  BY <1>1, <1>2, <1>3, <1>4, <1>5, <1>6, Sizes

\* Samples added to what fits are held behind those that were unread.
LEMMA RingGrows ==
  ASSUME StreamTypes, UnreadHeld, NEW n \in Nat, count + n <= Capacity,
         \A k \in 1..n : buffer'[Index(writeIdx + k - 1)] = accepted + k,
         \A i \in 0..(Capacity - 1) :
           (\A k \in 1..n : Index(writeIdx + k - 1) # i) => buffer'[i] = buffer[i],
         readIdx' = readIdx, count' = count + n, accepted' = accepted + n
  PROVE  UnreadHeld'
<1>1. readIdx \in Nat /\ count \in Nat /\ accepted \in Nat /\ writeIdx = readIdx + count
  BY Sizes DEF StreamTypes
<1> SUFFICES ASSUME NEW k \in 1..(count + n)
             PROVE  buffer'[Index(readIdx + k - 1)] = accepted - count + k
  BY <1>1 DEF UnreadHeld, Index
<1>2. CASE k > count
  <2>1. k - count \in 1..n /\ writeIdx + (k - count) - 1 = readIdx + k - 1
    BY <1>1, <1>2
  <2>2. buffer'[Index(writeIdx + (k - count) - 1)] = accepted + (k - count)
    BY <2>1
  <2> QED
    BY <1>1, <2>1, <2>2
<1>3. CASE k <= count
  <2>1. readIdx + k - 1 \in Nat
    BY <1>1
  <2>2. ASSUME NEW j \in 1..n PROVE Index(writeIdx + j - 1) # Index(readIdx + k - 1)
    <3>1. /\ writeIdx + j - 1 \in Nat /\ readIdx + k - 1 < writeIdx + j - 1
          /\ writeIdx + j - 1 < (readIdx + k - 1) + Capacity
      BY <1>1, <1>3, Sizes
    <3> QED
      BY <2>1, <3>1, IndexInjective
  <2>3. buffer'[Index(readIdx + k - 1)] = buffer[Index(readIdx + k - 1)]
    BY <2>1, <2>2, IndexType
  <2>4. buffer[Index(readIdx + k - 1)] = accepted - count + k
    BY <1>1, <1>3 DEF UnreadHeld
  <2> QED
    BY <2>3, <2>4
<1> QED
  BY <1>1, <1>2, <1>3

\* The number of samples handed on is a number.
LEMMA HandedType ==
  ASSUME StreamTypes
  PROVE  Handed \in Nat
<1>1. Len(windows) \in Nat /\ cleared \in Nat
  BY DEF StreamTypes
<1>2. Window * Len(windows) \in Nat
  BY <1>1, Sizes
<1> QED
  BY <1>1, <1>2 DEF Handed

\* Where the samples are is a question of these variables only.
LEMMA HandedKept ==
  ASSUME UNCHANGED <<cleared, windows>>
  PROVE  Handed' = Handed
BY DEF Handed

\* A new buffer and a processor that was not started hold nothing.
LEMMA InitStreamInv == StreamInit => StreamInv
<1> SUFFICES ASSUME StreamInit PROVE StreamInv
  OBVIOUS
<1> USE DEF StreamInit
<1>1. waitCh \in BOOLEAN /\ closed \in BOOLEAN /\ running \in BOOLEAN /\ closeCh \in BOOLEAN
  BY Zenon
<1>2. StreamTypes
  BY <1>1, Sizes DEF StreamTypes
<1>3. Handed = 0
  BY Sizes DEF Handed
<1>4. UnreadHeld /\ Accounted /\ WindowInHand /\ WindowsGiven
  BY <1>3 DEF UnreadHeld, Accounted, WindowInHand, WindowsGiven
<1> QED
  BY <1>2, <1>4 DEF StreamInv

\* Adding samples keeps the invariant.
LEMMA AddingKeeps ==
  ASSUME StreamInv, NEW n \in Nat, count + n <= Capacity,
         buffer' \in [0..(Capacity - 1) -> Nat],
         \A k \in 1..n : buffer'[Index(writeIdx + k - 1)] = accepted + k,
         \A i \in 0..(Capacity - 1) :
           (\A k \in 1..n : Index(writeIdx + k - 1) # i) => buffer'[i] = buffer[i],
         writeIdx' = writeIdx + n, count' = count + n, accepted' = accepted + n,
         Wakes, UNCHANGED <<readIdx, closed, processor, cleared>>
  PROVE  StreamInv'
<1> USE DEF StreamInv
<1>1. waitCh' \in BOOLEAN
  BY Zenon DEF Wakes
<1>2. UNCHANGED <<running, closeCh, loopAt, stopAt, windowBuf, windows>>
  BY DEF processor
<1>3. StreamTypes'
  BY <1>1, <1>2, Sizes DEF StreamTypes
<1>4. UnreadHeld'
  BY RingGrows
<1>5. Handed' = Handed /\ Handed \in Nat
  BY <1>2, HandedKept, HandedType
<1>6. Accounted'
  BY <1>2, <1>5, Sizes DEF Accounted, StreamTypes
<1>7. WindowInHand' /\ WindowsGiven'
  <2>1. count \in Nat
    BY Sizes DEF StreamTypes
  <2> QED
    BY <1>2, <1>5, <2>1, Sizes DEF WindowInHand, WindowsGiven, Numbers
<1> QED
  BY <1>3, <1>4, <1>6, <1>7

\* What fits of a batch is stored, each sample once.
LEMMA WriteKeeps ==
  ASSUME StreamInv, NEW n \in 1..MaxBatch, Write(n)
  PROVE  StreamInv'
<1> DEFINE fits == Least(n, Capacity - count)
           slot(k) == Index(writeIdx + k - 1)
<1>1. /\ count \in Nat /\ count <= Capacity /\ writeIdx \in Nat /\ accepted \in Nat
      /\ buffer \in [0..(Capacity - 1) -> Nat] /\ n \in Nat
  BY Sizes, StreamAssumption DEF StreamInv, StreamTypes
<1>2. fits \in Nat /\ count + fits <= Capacity
  BY <1>1, Sizes DEF Least
<1>3. buffer' = [i \in DOMAIN buffer |->
                  IF \E k \in 1..fits : slot(k) = i
                    THEN accepted + (CHOOSE k \in 1..fits : slot(k) = i)
                    ELSE buffer[i]]
  BY DEF Write
<1>4. /\ writeIdx' = writeIdx + fits /\ count' = count + fits /\ accepted' = accepted + fits
      /\ Wakes /\ UNCHANGED <<readIdx, closed, processor, cleared>>
  BY DEF Write
<1> HIDE DEF fits
<1>5. ASSUME NEW k \in 1..fits
      PROVE  slot(k) \in 0..(Capacity - 1) /\ \A j \in 1..fits : slot(j) = slot(k) => j = k
  <2>1. ASSUME NEW i \in 1..fits PROVE writeIdx + i - 1 \in Nat
    BY <1>1, <1>2
  <2>2. slot(k) \in 0..(Capacity - 1)
    BY <2>1, IndexType
  <2>3. ASSUME NEW i \in 1..fits, NEW j \in 1..fits, i < j PROVE slot(i) # slot(j)
    <3>1. /\ writeIdx + i - 1 < writeIdx + j - 1
          /\ writeIdx + j - 1 < (writeIdx + i - 1) + Capacity
      BY <1>1, <1>2, <2>3, Sizes
    <3> QED
      BY <2>1, <3>1, IndexInjective
  <2>4. ASSUME NEW j \in 1..fits, slot(j) = slot(k) PROVE j = k
    BY <1>2, <2>3, <2>4
  <2> QED
    BY <2>2, <2>4
<1> HIDE DEF slot
<1>6. \A k \in 1..fits : buffer'[slot(k)] = accepted + k
  <2> TAKE k \in 1..fits
  <2>1. slot(k) \in DOMAIN buffer
    BY <1>1, <1>5
  <2>2. (CHOOSE j \in 1..fits : slot(j) = slot(k)) = k
    BY <1>5
  <2> QED
    BY ONLY <1>3, <2>1, <2>2, k \in 1..fits
<1>7. \A i \in 0..(Capacity - 1) : (\A k \in 1..fits : slot(k) # i) => buffer'[i] = buffer[i]
  BY ONLY <1>1, <1>3
<1>8. buffer' \in [0..(Capacity - 1) -> Nat]
  <2>1. ASSUME NEW i \in 0..(Capacity - 1) PROVE buffer'[i] \in Nat
    <3>1. CASE \E k \in 1..fits : slot(k) = i
      <4>1. PICK k \in 1..fits : slot(k) = i
        BY <3>1
      <4> QED
        BY <1>1, <1>2, <1>6, <4>1
    <3>2. CASE \A k \in 1..fits : slot(k) # i
      BY <1>1, <1>7, <3>2
    <3> QED
      BY <3>1, <3>2
  <2>2. DOMAIN buffer = 0..(Capacity - 1)
    BY <1>1
  <2>3. buffer' = [i \in 0..(Capacity - 1) |-> buffer'[i]]
    BY ONLY <1>3, <2>2
  <2> QED
    BY ONLY <2>1, <2>3
<1> QED
  BY <1>2, <1>4, <1>6, <1>7, <1>8, AddingKeeps DEF slot

\* WriteSingle is a batch of one.
LEMMA WriteSingleKeeps ==
  ASSUME StreamInv, WriteSingle
  PROVE  StreamInv'
<1>1. /\ count \in Nat /\ count + 1 <= Capacity /\ writeIdx \in Nat /\ accepted \in Nat
      /\ buffer \in [0..(Capacity - 1) -> Nat]
  BY Sizes DEF WriteSingle, StreamInv, StreamTypes
<1>2. /\ buffer' = [buffer EXCEPT ![Index(writeIdx)] = accepted + 1]
      /\ writeIdx' = writeIdx + 1 /\ count' = count + 1 /\ accepted' = accepted + 1
      /\ Wakes /\ UNCHANGED <<readIdx, closed, processor, cleared>>
  BY DEF WriteSingle
<1>3. Index(writeIdx) \in 0..(Capacity - 1)
  BY <1>1, IndexType
<1>4. buffer' \in [0..(Capacity - 1) -> Nat] /\ buffer'[Index(writeIdx)] = accepted + 1
  BY ONLY <1>1, <1>2, <1>3
<1>5. \A k \in 1..1 : Index(writeIdx + k - 1) = Index(writeIdx) /\ k = 1
  <2> SUFFICES ASSUME NEW k \in 1..1 PROVE Index(writeIdx + k - 1) = Index(writeIdx) /\ k = 1
    OBVIOUS
  <2>1. k = 1 /\ writeIdx + k - 1 = writeIdx
    BY <1>1
  <2> QED
    BY <2>1
<1>6. \A k \in 1..1 : buffer'[Index(writeIdx + k - 1)] = accepted + k
  BY ONLY <1>4, <1>5
<1>7. \A i \in 0..(Capacity - 1) :
        (\A k \in 1..1 : Index(writeIdx + k - 1) # i) => buffer'[i] = buffer[i]
  <2> SUFFICES ASSUME NEW i \in 0..(Capacity - 1), \A k \in 1..1 : Index(writeIdx + k - 1) # i
               PROVE  buffer'[i] = buffer[i]
    OBVIOUS
  <2>1. Index(writeIdx) # i
    BY <1>5
  <2> QED
    BY ONLY <1>1, <1>2, <2>1, i \in 0..(Capacity - 1)
<1> QED
  BY <1>1, <1>2, <1>4, <1>6, <1>7, AddingKeeps

\* Clear counts what it drops, and no window was handed on before it.
LEMMA ClearKeeps ==
  ASSUME StreamInv, Clear
  PROVE  StreamInv'
<1> USE DEF StreamInv
<1>1. /\ loopAt = "none" /\ windows = <<>> /\ windowBuf = <<>> /\ UNCHANGED processor
      /\ writeIdx' = 0 /\ readIdx' = 0 /\ count' = 0 /\ cleared' = cleared + count
      /\ UNCHANGED <<buffer, waitCh, closed, accepted>>
  BY DEF Clear, WindowsGiven, WindowInHand
<1>2. UNCHANGED <<running, closeCh, loopAt, stopAt, windowBuf, windows>>
  BY <1>1 DEF processor
<1>3. count \in Nat /\ cleared \in Nat
  BY Sizes DEF StreamTypes
<1>4. StreamTypes'
  BY <1>1, <1>2, <1>3, Sizes DEF StreamTypes
<1>5. Handed = cleared /\ Handed' = cleared + count
  BY <1>1, <1>2, <1>3, Sizes DEF Handed
<1>6. UnreadHeld' /\ Accounted'
  BY <1>1, <1>2, <1>3, <1>5 DEF UnreadHeld, Accounted
<1>7. WindowInHand' /\ WindowsGiven'
  BY <1>1, <1>2 DEF WindowInHand, WindowsGiven
<1> QED
  BY <1>4, <1>6, <1>7

\* A step that leaves the samples where they are, and the loop where it reads
\* only what is there.
LEMMA OthersKeep ==
  ASSUME StreamInv, UNCHANGED <<ring, windowBuf, windows, accepted, cleared>>,
         waitCh' \in BOOLEAN, closed' \in BOOLEAN, running' \in BOOLEAN, closeCh' \in BOOLEAN,
         loopAt' = loopAt \/ (loopAt # "callback" /\ loopAt' \notin {"none", "callback"}),
         loopAt' = "read" => loopAt = "read" \/ count >= Window
  PROVE  StreamInv'
<1> USE DEF StreamInv
<1>1. UNCHANGED <<buffer, writeIdx, readIdx, count>>
  BY DEF ring
<1>2. StreamTypes' /\ UnreadHeld'
  BY <1>1 DEF StreamTypes, UnreadHeld, Index
<1>3. Handed' = Handed
  BY HandedKept
<1>4. Accounted' /\ WindowInHand' /\ WindowsGiven'
  BY <1>1, <1>3 DEF Accounted, WindowInHand, WindowsGiven, Numbers
<1> QED
  BY <1>2, <1>4

\* The window read is the oldest samples, all of them there.
LEMMA ReadKeeps ==
  ASSUME StreamInv, ReadWindow
  PROVE  StreamInv'
<1> USE DEF StreamInv
<1>1. count \in Nat /\ readIdx \in Nat /\ accepted \in Nat /\ count >= Window /\ loopAt = "read"
  BY Sizes DEF StreamTypes, ReadWindow, At, WindowInHand
<1>2. Least(Window, count) = Window
  BY <1>1, Sizes DEF Least
<1>3. /\ windowBuf' = Samples(readIdx, Window) /\ readIdx' = readIdx + Window
      /\ count' = count - Window /\ loopAt' = "callback"
      /\ UNCHANGED <<closed, running, closeCh, stopAt, accepted, cleared>>
      /\ UNCHANGED <<buffer, writeIdx, waitCh, windows>>
  BY <1>2, Sizes DEF ReadWindow, ReadOn, Goto, LoopStep
<1>4. Handed' = Handed /\ Handed \in Nat
  BY <1>3, HandedKept, HandedType
<1>5. accepted = Handed + count
  BY <1>1, <1>4 DEF Accounted, WindowInHand
<1>6. windowBuf' = Numbers(Handed, Window)
  <2>1. \A k \in 1..Window : buffer[Index(readIdx + k - 1)] = Handed + k
    BY <1>1, <1>4, <1>5, Sizes DEF UnreadHeld
  <2> QED
    BY <1>3, <2>1 DEF Samples, Numbers
<1>7. windowBuf' \in Seq(Nat) /\ Len(windowBuf') = Window
  BY <1>4, <1>6, Sizes DEF Numbers
<1>8. StreamTypes'
  BY <1>1, <1>3, <1>7, Sizes DEF StreamTypes
<1>9. UnreadHeld'
  <2> SUFFICES ASSUME NEW k \in 1..(count - Window)
               PROVE  buffer[Index((readIdx + Window) + k - 1)] = accepted - (count - Window) + k
    BY <1>3 DEF UnreadHeld, Index
  <2>1. Window + k \in 1..count /\ readIdx + (Window + k) - 1 = (readIdx + Window) + k - 1
    BY <1>1, Sizes
  <2>2. buffer[Index(readIdx + (Window + k) - 1)] = accepted - count + (Window + k)
    BY <2>1 DEF UnreadHeld
  <2> QED
    BY <1>1, <2>1, <2>2, Sizes
<1>10. Accounted'
  BY <1>1, <1>3, <1>4, <1>5, <1>7, Sizes DEF Accounted
<1>11. WindowInHand' /\ WindowsGiven'
  BY <1>1, <1>3, <1>4, <1>6 DEF WindowInHand, WindowsGiven, Numbers
<1> QED
  BY <1>8, <1>9, <1>10, <1>11

\* The window in hand is the next one in order.
LEMMA CallbackKeeps ==
  ASSUME StreamInv, Callback
  PROVE  StreamInv'
<1> USE DEF StreamInv
<1> DEFINE l == Len(windows)
<1>1. /\ loopAt = "callback" /\ windows' = Append(windows, windowBuf) /\ windowBuf' = <<>>
      /\ loopAt' = "drain" /\ UNCHANGED <<closed, running, closeCh, stopAt, accepted, cleared>>
      /\ UNCHANGED <<ring, waitCh>>
  BY DEF Callback, At, Goto, LoopStep
<1>2. UNCHANGED <<buffer, writeIdx, readIdx, count>>
  BY <1>1 DEF ring
<1>3. windowBuf \in Seq(Nat) /\ windows \in Seq(Seq(Nat)) /\ l \in Nat /\ cleared \in Nat
      /\ count \in Nat
  BY Sizes DEF StreamTypes
<1>4. /\ windows' \in Seq(Seq(Nat)) /\ Len(windows') = l + 1 /\ windows'[l + 1] = windowBuf
      /\ \A i \in 1..l : windows'[i] = windows[i]
  BY <1>1, <1>3
<1>5. StreamTypes'
  BY <1>1, <1>2, <1>4 DEF StreamTypes
<1>6. UnreadHeld'
  BY <1>1, <1>2 DEF UnreadHeld, Index
<1>7. Window * l \in Nat /\ Window * (l + 1) = Window * l + Window
  BY <1>3, Sizes
<1>8. Handed = cleared + Window * l /\ Handed' = Handed + Window /\ Handed \in Nat
  <2>1. Handed = cleared + Window * l
    BY DEF Handed
  <2>2. Handed' = cleared + Window * (l + 1)
    BY ONLY <1>1, <1>4 DEF Handed
  <2> HIDE DEF l
  <2> QED
    BY ONLY <1>3, <1>7, <2>1, <2>2, Sizes
<1>9. windowBuf = Numbers(Handed, Window)
  BY <1>1 DEF WindowInHand
<1>10. Len(windowBuf) = Window
  BY <1>8, <1>9, Sizes DEF Numbers
<1>11. Accounted'
  BY <1>1, <1>2, <1>3, <1>8, <1>10, Sizes DEF Accounted
<1>12. WindowInHand'
  BY <1>1 DEF WindowInHand
<1>13. WindowsGiven'
  <2> SUFFICES ASSUME NEW i \in 1..(l + 1)
               PROVE  windows'[i] = Numbers(cleared + Window * (i - 1), Window)
    BY <1>1, <1>3, <1>4 DEF WindowsGiven, Numbers
  <2>1. CASE i = l + 1
    <3>1. i - 1 = l
      BY <1>3, <2>1
    <3> QED
      BY <1>4, <1>8, <1>9, <2>1, <3>1
  <2>2. CASE i # l + 1
    <3>1. i \in 1..l /\ i \in DOMAIN windows
      BY <1>3, <2>2
    <3> QED
      BY <1>4, <3>1 DEF WindowsGiven
  <2> QED
    BY <2>1, <2>2
<1> QED
  BY <1>5, <1>6, <1>11, <1>12, <1>13

-------------------------------------------------------------------------------
\* The buffer and its processor keep their invariant, with writers, readers,
\* Stop and processLoop in any order.
THEOREM StreamInvariant == StreamSpec => []StreamInv
<1>1. StreamInv /\ [StreamNext]_streamVars => StreamInv'
  <2> SUFFICES ASSUME StreamInv, [StreamNext]_streamVars PROVE StreamInv'
    OBVIOUS
  <2>1. waitCh \in BOOLEAN /\ closed \in BOOLEAN /\ running \in BOOLEAN /\ closeCh \in BOOLEAN
    BY DEF StreamInv, StreamTypes
  <2> DEFINE Same == UNCHANGED <<ring, windowBuf, windows, accepted, cleared>>
             Flags == /\ waitCh' \in BOOLEAN /\ closed' \in BOOLEAN
                      /\ running' \in BOOLEAN /\ closeCh' \in BOOLEAN
  <2>2. CASE \E n \in 1..MaxBatch : Write(n)
    BY <2>2, WriteKeeps
  <2>3. CASE WriteSingle
    BY <2>3, WriteSingleKeeps
  <2>4. CASE Clear
    BY <2>4, ClearKeeps
  <2>5. CASE Start \/ StopFlag
    <3>1. Same /\ Flags /\ (loopAt' = loopAt \/ (loopAt = "none" /\ loopAt' = "test"))
      <4>1. Same /\ (loopAt' = loopAt \/ (loopAt = "none" /\ loopAt' = "test"))
        BY <2>5 DEF Start, StopFlag
      <4>2. Flags
        BY ONLY <2>1, <2>5, Zenon DEF Start, StopFlag
      <4> QED
        BY <4>1, <4>2
    <3> QED
      BY <3>1, OthersKeep
  <2>6. CASE CloseBuffer \/ CloseChannel
    <3>1. Same /\ loopAt' = loopAt
      BY <2>6 DEF CloseBuffer, CloseChannel
    <3>2. Flags
      BY ONLY <2>1, <2>6, Zenon DEF CloseBuffer, CloseChannel
    <3> QED
      BY <3>1, <3>2, OthersKeep
  <2>7. CASE TestRunning \/ CheckCount \/ Woken \/ Interrupted \/ Drain
    <3>1. /\ Same /\ UNCHANGED <<closed, running, closeCh>> /\ loopAt # "callback"
          /\ loopAt' \notin {"none", "callback"} /\ (loopAt' = "read" => count >= Window)
      BY <2>7 DEF TestRunning, CheckCount, Woken, Interrupted, Drain, LoopStep, At, Goto
    <3>2. waitCh' \in BOOLEAN
      BY ONLY <2>1, <2>7, Zenon DEF TestRunning, CheckCount, Woken, Interrupted, Drain
    <3> QED
      BY <2>1, <3>1, <3>2, OthersKeep
  <2>8. CASE ReadWindow
    BY <2>8, ReadKeeps
  <2>9. CASE Callback
    BY <2>9, CallbackKeeps
  <2>10. CASE UNCHANGED streamVars
    BY <2>1, <2>10, OthersKeep DEF streamVars, processor
  <2> QED
    BY <2>2, <2>3, <2>4, <2>5, <2>6, <2>7, <2>8, <2>9, <2>10 DEF StreamNext, ProcessLoop
<1> QED
  BY InitStreamInv, <1>1, PTL DEF StreamSpec

\* The callback gets whole windows without gap or overlap, and what it has not
\* got is in hand or in the buffer, where Peek and PeekLatest find it in order.
THEOREM WindowsAreInOrder == StreamSpec => []WindowsInOrder
<1>1. StreamInv => WindowsInOrder
  <2> SUFFICES ASSUME StreamInv PROVE WindowsInOrder
    OBVIOUS
  <2> USE DEF StreamInv
  <2>1. /\ count \in Nat /\ readIdx \in Nat /\ writeIdx = readIdx + count /\ accepted \in Nat
        /\ Handed \in Nat
    BY HandedType, Sizes DEF StreamTypes
  <2>2. StreamTypeOK
    BY <2>1 DEF StreamTypeOK, StreamTypes
  <2>3. Peek(count) = [k \in 1..count |-> accepted - count + k]
    <3>1. Least(count, count) = count
      BY DEF Least
    <3> QED
      BY <3>1 DEF Peek, Samples, UnreadHeld
  <2>4. windowBuf \o Peek(count) = Numbers(Handed, accepted - Handed)
    <3>1. CASE loopAt = "callback"
      <4>1. windowBuf = [k \in 1..Window |-> Handed + k] /\ Len(windowBuf) = Window
        BY <2>1, <3>1, Sizes DEF WindowInHand, Numbers
      <4>2. accepted - count = Handed + Window /\ accepted - Handed = Window + count
        BY <2>1, <4>1, Sizes DEF Accounted
      <4>3. Peek(count) = [k \in 1..count |-> (Handed + Window) + k]
        BY <2>3, <4>2
      <4>4. windowBuf \o Peek(count) = [k \in 1..(Window + count) |-> Handed + k]
        BY ONLY <2>1, <4>1, <4>3, Sizes
      <4> QED
        BY <4>2, <4>4 DEF Numbers
    <3>2. CASE loopAt # "callback"
      <4>1. windowBuf = <<>> /\ accepted - count = Handed /\ accepted - Handed = count
        BY <2>1, <3>2 DEF WindowInHand, Accounted
      <4>2. Peek(count) = [k \in 1..count |-> Handed + k]
        BY <2>3, <4>1
      <4> QED
        BY ONLY <2>1, <4>1, <4>2 DEF Numbers
    <3> QED
      BY <3>1, <3>2
  <2>5. ASSUME NEW n \in 1..count PROVE PeekLatest(n) = Numbers(accepted - n, n)
    <3>1. Least(n, count) = n
      BY <2>1 DEF Least
    <3>2. ASSUME NEW k \in 1..n
          PROVE  buffer[Index(writeIdx - n + k - 1)] = accepted - n + k
      <4>1. count - n + k \in 1..count /\ readIdx + (count - n + k) - 1 = writeIdx - n + k - 1
        BY <2>1
      <4>2. buffer[Index(readIdx + (count - n + k) - 1)] = accepted - count + (count - n + k)
        BY <4>1 DEF UnreadHeld
      <4> QED
        BY <2>1, <4>1, <4>2
    <3> QED
      BY <3>1, <3>2 DEF PeekLatest, Samples, Numbers
  <2> QED
    BY <2>2, <2>4, <2>5 DEF WindowsInOrder, WindowsGiven
<1> QED
  BY StreamInvariant, <1>1, PTL

-------------------------------------------------------------------------------
(* The frame buffers.                                                       *)
FrameSpec == FrameInit /\ [][FrameNext]_frameVars

Counted == frameKind = "DoubleSeqLock"

FrameTypes ==
  /\ frameKind \in {"DoubleBuffer", "DoubleSeqLock"}
  /\ memory \in [1..2 -> [1..Size -> Nat]] /\ front \in 1..2 /\ fill \in 0..Size
  /\ seqNo \in Nat /\ swapCh \in BOOLEAN /\ stored \in Nat /\ swaps \in Nat
  /\ writer \in [at : {"idle", "store1", "store", "count", "swap"}, left : 0..MaxMany]
  /\ reader \in [at : {"idle", "take", "copy", "check", "read", "again"},
                 seq : Nat, slice : 1..2, frame : Nat, data : Seq(Nat)]

(* Where the writer is says what is left to write and whether the back slice *)
(* is full.                                                                  *)
WriterKnows ==
  /\ writer.at \in {"store1", "store"} => fill < Size /\ writer.left > 0
  /\ writer.at = "store1" => writer.left = 1
  /\ writer.at \in {"count", "swap"} => fill = Size
  /\ writer.at = "count" => Counted

(* The sequence number is ahead of the swaps while one is counted only.      *)
SeqCountsSwaps ==
  Counted => seqNo = IF writer.at = "swap" THEN swaps + 1 ELSE swaps

(* A frame taken since the last swap is still the front one, one taken before *)
(* that swap is the back one.                                                *)
TakenIsFront ==
  /\ Counted => reader.seq <= seqNo
  /\ reader.at \in {"take", "check"} => Counted
  /\ reader.at \in {"copy", "check", "read"} => reader.frame <= swaps
  /\ reader.at \in {"copy", "check"} /\ reader.frame = swaps => reader.slice = front
  /\ reader.at \in {"copy", "check"} /\ reader.frame + 1 = swaps => reader.slice # front

(* The rest of the back slice is the frame that was in front before the swap. *)
StillBehind ==
  swaps > 0 => \A i \in (fill + 1)..Size : memory[Back][i] = Frame(swaps - 1)[i]

(* What has been copied is right, as long as it has not been filled again.   *)
CopiedIsRight ==
  /\ reader.at = "copy" => Len(reader.data) < Size
  /\ reader.at \in {"idle", "again", "take"} => reader.data = <<>>
  /\ reader.at \in {"check", "read"} => Len(reader.data) = Size
  /\ reader.at \in {"copy", "check"} =>
       \A i \in 1..Len(reader.data) :
         ~Refilled(reader.frame, i) => reader.data[i] = Frame(reader.frame)[i]

FrameInv ==
  /\ FrameTypes /\ WriterKnows /\ FramesInOrder /\ StillBehind /\ SeqCountsSwaps
  /\ TakenIsFront /\ CopiedIsRight /\ ReadsWhole

-------------------------------------------------------------------------------
\* Frame j + 1 holds the samples that follow the Size * j of the frames before.
LEMMA FrameSamples ==
  ASSUME NEW j \in Nat
  PROVE  /\ Frame(j) \in [1..Size -> Nat]
         /\ Frame(j + 1) = [i \in 1..Size |-> Size * j + i]
         /\ Size * j \in Nat /\ Size * (j + 1) = Size * j + Size
<1>1. Size * j \in Nat /\ Size * (j + 1) = Size * j + Size
  BY FramesAssumption
<1>2. Frame(j + 1) = [i \in 1..Size |-> Size * j + i]
  BY <1>1 DEF Frame
<1>3. CASE j = 0
  BY <1>1, <1>2, <1>3 DEF Frame
<1>4. CASE j # 0
  <2>1. Size * (j - 1) \in Nat
    BY <1>4, FramesAssumption
  <2> QED
    BY <1>1, <1>2, <1>4, <2>1 DEF Frame
<1> QED
  BY <1>3, <1>4

\* The frame in front is not filled again, the one before it as far as the back
\* is filled, and every earlier one is.
LEMMA RefilledWhen ==
  ASSUME FrameTypes, FramesInOrder, NEW f \in Nat, NEW i \in 1..Size
  PROVE  /\ f = swaps => ~Refilled(f, i)
         /\ f + 1 = swaps => (Refilled(f, i) <=> i <= fill)
         /\ f + 1 < swaps => Refilled(f, i)
<1>1. fill \in 0..Size /\ swaps \in Nat /\ Size \in Nat /\ stored = Size * swaps + fill
  BY FramesAssumption DEF FrameTypes, FramesInOrder
<1>2. /\ Size * f \in Nat /\ Size * (f + 1) = Size * f + Size
      /\ Size * (f + 1) \in Nat /\ Size * (f + 2) = Size * (f + 1) + Size
  BY FramesAssumption
<1>3. ASSUME f + 1 < swaps PROVE Size * swaps >= Size * (f + 2)
  <2>1. PICK k \in Nat : swaps = (f + 2) + k
    <3>1. swaps - (f + 2) \in Nat /\ swaps = (f + 2) + (swaps - (f + 2))
      BY ONLY <1>1, <1>3, f \in Nat
    <3> QED
      BY ONLY <3>1
  <2>2. \A a, b, c \in Nat : a * (b + c) = a * b + a * c /\ a * c \in Nat
    OBVIOUS
  <2>3. Size * ((f + 2) + k) = Size * (f + 2) + Size * k /\ Size * k \in Nat
    BY ONLY <1>1, <2>2, f + 2 \in Nat, k \in Nat
  <2>4. Size * swaps = Size * (f + 2) + Size * k
    BY ONLY <2>1, <2>3, Zenon
  <2>5. Size * (f + 2) \in Nat
    BY ONLY <1>2, <1>1
  <2> DEFINE x == Size * (f + 2)
             y == Size * k
             z == Size * swaps
  <2>6. z = x + y /\ x \in Nat /\ y \in Nat
    BY ONLY <2>3, <2>4, <2>5
  <2> HIDE DEF x, y, z
  <2>7. z >= x
    BY ONLY <2>6
  <2> QED
    BY ONLY <2>7 DEF x, z
<1> QED
  BY ONLY <1>1, <1>2, <1>3, i \in 1..Size, f \in Nat DEF Refilled

\* Both slices of a new buffer are empty, and the first frame counts as read.
LEMMA InitFrameInv == FrameInit => FrameInv
<1> SUFFICES ASSUME FrameInit PROVE FrameInv
  OBVIOUS
<1> USE FramesAssumption DEF FrameInit, NoRead
<1>1. FrameTypes
  <2>1. swapCh \in BOOLEAN
    BY Zenon
  <2> QED
    BY <2>1 DEF FrameTypes
<1>2. FramesInOrder
  BY DEF FramesInOrder, Frame
<1>3. /\ WriterKnows /\ SeqCountsSwaps /\ StillBehind
      /\ TakenIsFront /\ CopiedIsRight /\ ReadsWhole
  BY DEF WriterKnows, SeqCountsSwaps, StillBehind, TakenIsFront, CopiedIsRight, ReadsWhole
<1> QED
  BY <1>1, <1>2, <1>3 DEF FrameInv

\* A writer spoils nothing that a reader has but what it fills again: a frame
\* taken before a swap goes to the back with it.
LEMMA ReaderKept ==
  ASSUME FrameTypes, TakenIsFront, CopiedIsRight, ReadsWhole,
         UNCHANGED <<frameKind, reader>>,
         seqNo' \in Nat, seqNo' >= seqNo, stored' \in Nat, stored' >= stored,
         (swaps' = swaps /\ front' = front) \/ (swaps' = swaps + 1 /\ front' # front)
  PROVE  TakenIsFront' /\ CopiedIsRight' /\ ReadsWhole'
<1>1. /\ reader.frame \in Nat /\ reader.seq \in Nat /\ swaps \in Nat /\ seqNo \in Nat
      /\ stored \in Nat /\ Size * (reader.frame + 1) \in Nat
  BY FramesAssumption DEF FrameTypes
<1>2. TakenIsFront'
  <2>1. reader.slice \in 1..2 /\ front \in 1..2
    BY DEF FrameTypes
  <2>2. CASE swaps' = swaps /\ front' = front
    BY ONLY <1>1, <2>2, TakenIsFront, seqNo' \in Nat, seqNo' >= seqNo,
            UNCHANGED <<frameKind, reader>> DEF TakenIsFront, Counted
  <2>3. CASE swaps' = swaps + 1 /\ front' # front
    <3>1. reader.at \in {"copy", "check", "read"} =>
            reader.frame <= swaps' /\ reader.frame # swaps'
            /\ (reader.frame + 1 = swaps' => reader.frame = swaps)
      BY ONLY <1>1, <2>3, TakenIsFront DEF TakenIsFront
    <3>2. Counted => reader.seq <= seqNo'
      BY ONLY <1>1, TakenIsFront, seqNo' \in Nat, seqNo' >= seqNo DEF TakenIsFront
    <3> QED
      BY ONLY <2>3, <3>1, <3>2, TakenIsFront, UNCHANGED <<frameKind, reader>>
      DEF TakenIsFront, Counted
  <2> QED
    BY ONLY <2>2, <2>3, (swaps' = swaps /\ front' = front) \/ (swaps' = swaps + 1 /\ front' # front)
<1> DEFINE start == Size * (reader.frame + 1)
<1>3. \A i \in Nat : stored >= start + i => stored' >= start + i
  <2>1. start \in Nat
    BY ONLY <1>1
  <2> HIDE DEF start
  <2> QED
    BY ONLY <1>1, <2>1, stored' \in Nat, stored' >= stored
<1>4. Len(reader.data) \in Nat /\ Size \in Nat
  BY FramesAssumption DEF FrameTypes
<1>5. /\ \A i \in 1..Len(reader.data) : i \in Nat
      /\ \A i \in 1..Size : i \in Nat
  BY ONLY <1>4
<1>6. CopiedIsRight'
  BY ONLY <1>3, <1>5, CopiedIsRight, UNCHANGED reader, Zenon DEF CopiedIsRight, Frame, Refilled, start
<1>7. ReadsWhole'
  BY ONLY <1>3, <1>5, ReadsWhole, UNCHANGED <<frameKind, reader>>, Zenon
  DEF ReadsWhole, Frame, Refilled, start
<1> QED
  BY <1>2, <1>6, <1>7

\* A call begins: nothing but the writer's place changes.
LEMMA BeginKeeps ==
  ASSUME FrameInv, WriteOne \/ \E n \in 1..MaxMany : WriteMany(n)
  PROVE  FrameInv'
<1>1. PICK n \in 1..MaxMany, step \in {"store1", "store", "count", "swap"} :
        /\ Begin(n, step)
        /\ step \in {"store1", "store"} => fill < Size
        /\ step = "store1" => n = 1
        /\ step \in {"count", "swap"} => fill = Size
        /\ (step = "count") => Counted
        /\ (step = "swap") => ~Counted
  BY FramesAssumption DEF WriteOne, WriteMany, Swapping, Counted, FrameInv, FrameTypes
<1> USE DEF FrameInv
<1>2. FrameTypes' /\ WriterKnows' /\ SeqCountsSwaps'
  <2>1. /\ UNCHANGED <<frameKind, memory, front, fill, seqNo, swapCh, stored, swaps, reader>>
        /\ writer' = [at |-> step, left |-> n] /\ n \in 0..MaxMany /\ n > 0
        /\ writer.at = "idle"
    BY <1>1, FramesAssumption DEF Begin
  <2>2. FrameTypes'
    BY <2>1 DEF FrameTypes
  <2>3. WriterKnows'
    BY <1>1, <2>1 DEF WriterKnows, Counted
  <2>4. SeqCountsSwaps'
    BY <1>1, <2>1 DEF SeqCountsSwaps, Counted
  <2> QED
    BY <2>2, <2>3, <2>4
<1>3. FramesInOrder' /\ StillBehind'
  <2>1. UNCHANGED <<stored, swaps, fill, memory, front>>
    BY <1>1 DEF Begin
  <2> QED
    BY <2>1 DEF FramesInOrder, StillBehind, Frame, Back
<1>4. TakenIsFront' /\ CopiedIsRight' /\ ReadsWhole'
  <2>1. UNCHANGED <<frameKind, reader, seqNo, stored, swaps, front>>
    BY <1>1 DEF Begin
  <2>2. seqNo \in Nat /\ stored \in Nat /\ swaps \in Nat
    BY DEF FrameTypes
  <2> QED
    BY <2>1, <2>2, ReaderKept
<1> QED
  BY <1>2, <1>3, <1>4

\* A sample goes to the back, so that no frame in front changes.
LEMMA StoreKeeps ==
  ASSUME FrameInv, StoreSample
  PROVE  FrameInv'
<1> USE DEF FrameInv
<1>1. fill < Size /\ writer.left > 0 /\ fill + 1 \in 1..Size /\ Back \in 1..2 /\ Back # front
  BY FramesAssumption DEF StoreSample, WriterKnows, FrameTypes, Back
<1>2. UNCHANGED <<frameKind, front, seqNo, swapCh, reader, swaps>>
  BY DEF StoreSample
<1>3. fill' = fill + 1 /\ stored' = stored + 1 /\ stored \in Nat /\ swaps \in Nat /\ seqNo \in Nat
  BY DEF StoreSample, FrameTypes
<1>4. memory \in [1..2 -> [1..Size -> Nat]] /\ front \in 1..2 /\ fill \in 0..Size
  BY DEF FrameTypes
<1>5. memory' = [memory EXCEPT ![Back] = [memory[Back] EXCEPT ![fill + 1] = stored + 1]]
  BY DEF StoreSample
<1>6. /\ writer'.left = writer.left - 1
      /\ writer'.at = IF writer.left = 1 /\ (writer.at = "store" \/ fill + 1 < Size) THEN "idle"
                      ELSE IF fill + 1 < Size THEN writer.at ELSE Swapping
      /\ writer' = [at |-> writer'.at, left |-> writer'.left]
      /\ writer.at \in {"store1", "store"} /\ writer.left \in 0..MaxMany
  BY DEF StoreSample, FrameTypes
<1>7. (Swapping = "count" /\ Counted) \/ (Swapping = "swap" /\ ~Counted)
  BY DEF Swapping, Counted
<1>8. FrameTypes'
  <2>1. memory' \in [1..2 -> [1..Size -> Nat]]
    BY ONLY <1>1, <1>3, <1>4, <1>5
  <2>2. fill' \in 0..Size /\ stored' \in Nat
    BY <1>1, <1>3
  <2>3. writer'.left \in 0..MaxMany
    BY <1>1, <1>6, FramesAssumption
  <2>4. writer'.at \in {"idle", "store1", "store", "count", "swap"}
    BY ONLY <1>6, <1>7
  <2>5. writer' \in [at : {"idle", "store1", "store", "count", "swap"}, left : 0..MaxMany]
    BY ONLY <1>6, <2>3, <2>4
  <2> QED
    BY <1>2, <2>1, <2>2, <2>5 DEF FrameTypes
<1>9. WriterKnows'
  <2>1. fill' = Size \/ fill + 1 < Size
    BY ONLY <1>1, <1>3, <1>4, FramesAssumption
  <2>2. writer.at = "store1" => writer.left = 1
    BY DEF WriterKnows
  <2> QED
    BY ONLY <1>1, <1>2, <1>3, <1>6, <1>7, <2>1, <2>2 DEF WriterKnows, Counted
<1>10. SeqCountsSwaps'
  BY ONLY FrameInv, <1>2, <1>6, <1>7 DEF SeqCountsSwaps, Counted, FrameInv
<1>11. FramesInOrder'
  <2>1. memory'[front] = memory[front] /\ Back' = Back
    BY ONLY <1>1, <1>2, <1>4, <1>5 DEF Back
  <2>2. \A i \in 1..(fill + 1) :
          memory'[Back][i] = IF i = fill + 1 THEN stored + 1 ELSE memory[Back][i]
    <3>1. memory[Back] \in [1..Size -> Nat]
      BY ONLY <1>1, <1>4
    <3>2. memory'[Back] = [memory[Back] EXCEPT ![fill + 1] = stored + 1]
      BY ONLY <1>1, <1>4, <1>5
    <3>3. 1..(fill + 1) \subseteq 1..Size
      BY ONLY <1>1, <1>4, FramesAssumption
    <3> QED
      BY ONLY <3>1, <3>2, <3>3
  <2>3. Size * swaps \in Nat
    BY FrameSamples, <1>3
  <2>4. stored = Size * swaps + fill /\ memory[front] = Frame(swaps)
        /\ \A i \in 1..fill : memory[Back][i] = Size * swaps + i
    BY DEF FramesInOrder
  <2>5. stored' = Size * swaps' + fill' /\ memory'[front'] = Frame(swaps')
    <3>1. stored' = Size * swaps' + fill'
      BY ONLY <1>2, <1>3, <1>4, <2>3, <2>4
    <3> QED
      BY ONLY <1>2, <2>1, <2>4, <3>1 DEF Frame
  <2>6. \A i \in 1..(fill + 1) : memory'[Back][i] = Size * swaps + i
    <3> DEFINE filled == Size * swaps
    <3>1. filled \in Nat /\ stored = filled + fill /\ \A i \in 1..fill : memory[Back][i] = filled + i
      BY ONLY <2>3, <2>4
    <3> HIDE DEF filled
    <3>2. stored + 1 = filled + (fill + 1)
      BY ONLY <1>4, <3>1
    <3>3. \A i \in 1..(fill + 1) : i # fill + 1 => i \in 1..fill
      BY ONLY <1>4
    <3>4. \A i \in 1..(fill + 1) : memory'[Back][i] = filled + i
      BY ONLY <2>2, <3>1, <3>2, <3>3, Zenon
    <3> QED
      BY ONLY <3>4 DEF filled
  <2> QED
    BY ONLY <1>2, <1>3, <2>1, <2>5, <2>6 DEF FramesInOrder
<1>12. TakenIsFront' /\ CopiedIsRight' /\ ReadsWhole'
  BY <1>2, <1>3, ReaderKept
<1>13. StillBehind'
  <2>1. \A i \in (fill + 2)..Size : memory'[Back][i] = memory[Back][i]
    <3>1. memory[Back] \in [1..Size -> Nat]
      BY ONLY <1>1, <1>4
    <3>2. memory'[Back] = [memory[Back] EXCEPT ![fill + 1] = stored + 1]
      BY ONLY <1>1, <1>4, <1>5
    <3>3. \A i \in (fill + 2)..Size : i \in 1..Size /\ i # fill + 1
      BY ONLY <1>4, FramesAssumption
    <3> QED
      BY ONLY <3>1, <3>2, <3>3
  <2>2. Back' = Back /\ swaps' = swaps /\ fill' + 1 = fill + 2
    BY ONLY <1>2, <1>3, <1>4 DEF Back
  <2>3. \A i \in (fill + 2)..Size : i \in (fill + 1)..Size
    BY ONLY <1>4, FramesAssumption
  <2> QED
    BY ONLY StillBehind, <2>1, <2>2, <2>3 DEF StillBehind, Frame
<1> QED
  BY <1>8, <1>9, <1>10, <1>11, <1>12, <1>13

\* Only what is read now changes: a frame taken before is an earlier one.
LEMMA SwapKeeps ==
  ASSUME FrameInv, CountSwap \/ Swap
  PROVE  FrameInv'
<1> USE DEF FrameInv
<1>1. /\ seqNo \in Nat /\ stored \in Nat /\ swaps \in Nat /\ fill \in 0..Size
      /\ front \in 1..2 /\ Back \in 1..2 /\ Back # front
  BY DEF FrameTypes, Back
<1>2. CASE CountSwap
  <2>1. /\ UNCHANGED <<frameKind, memory, front, fill, swapCh, reader, stored, swaps>>
        /\ seqNo' = seqNo + 1 /\ writer.at = "count"
        /\ writer' = [writer EXCEPT !.at = "swap"]
    BY <1>2 DEF CountSwap
  <2>2. FrameTypes'
    <3>1. writer' \in [at : {"idle", "store1", "store", "count", "swap"}, left : 0..MaxMany]
      BY ONLY FrameTypes, <2>1 DEF FrameTypes
    <3> QED
      BY <1>1, <2>1, <3>1 DEF FrameTypes
  <2>3. writer'.at = "swap" /\ fill = Size /\ Counted
    BY <2>1 DEF WriterKnows, FrameTypes
  <2>4. WriterKnows' /\ SeqCountsSwaps'
    BY <1>1, <2>1, <2>3 DEF WriterKnows, SeqCountsSwaps, Counted
  <2>5. FramesInOrder' /\ StillBehind'
    <3>1. UNCHANGED <<stored, swaps, fill, memory, front>>
      BY <2>1
    <3>2. FramesInOrder'
      BY ONLY <3>1, FramesInOrder DEF FramesInOrder, Frame, Back
    <3> QED
      BY ONLY <3>1, <3>2, StillBehind DEF StillBehind, Frame, Back
  <2>6. TakenIsFront' /\ CopiedIsRight' /\ ReadsWhole'
    BY <1>1, <2>1, ReaderKept
  <2> QED
    BY <2>2, <2>4, <2>5, <2>6
<1>3. CASE Swap
  <2>1. /\ UNCHANGED <<frameKind, memory, seqNo, reader, stored>>
        /\ front' = Back /\ fill' = 0 /\ swaps' = swaps + 1 /\ writer.at = "swap" /\ fill = Size
        /\ writer' = [writer EXCEPT !.at = IF writer.left = 0 THEN "idle" ELSE "store"]
    BY <1>3 DEF Swap, WriterKnows
  <2>2. swapCh' \in BOOLEAN
    BY ONLY <1>3, Zenon DEF Swap
  <2>3. FrameTypes'
    <3>1. writer' \in [at : {"idle", "store1", "store", "count", "swap"}, left : 0..MaxMany]
      BY ONLY FrameTypes, <2>1 DEF FrameTypes
    <3>2. fill' \in 0..Size
      BY <1>1, <2>1
    <3> QED
      BY <1>1, <2>1, <2>2, <3>1, <3>2 DEF FrameTypes
  <2>4. WriterKnows' /\ SeqCountsSwaps'
    <3>1. writer'.left = writer.left /\ writer.left \in 0..MaxMany
          /\ writer'.at = IF writer.left = 0 THEN "idle" ELSE "store"
      BY <2>1 DEF FrameTypes
    <3>2. WriterKnows'
      BY ONLY <2>1, <3>1, FramesAssumption DEF WriterKnows
    <3>3. SeqCountsSwaps'
      BY <2>1, <3>1 DEF SeqCountsSwaps, Counted
    <3> QED
      BY <3>2, <3>3
  <2>5. FramesInOrder'
    <3>1. memory[Back] = [i \in 1..Size |-> Size * swaps + i]
      <4>1. memory[Back] \in [1..Size -> Nat]
        BY <1>1 DEF FrameTypes
      <4>2. \A i \in 1..Size : memory[Back][i] = Size * swaps + i
        BY <2>1 DEF FramesInOrder
      <4> QED
        BY <4>1, <4>2
    <3>2. memory'[front'] = Frame(swaps')
      BY <1>1, <2>1, <3>1, FrameSamples
    <3>3. stored' = Size * swaps' + fill'
      BY <1>1, <2>1, FrameSamples, FramesAssumption DEF FramesInOrder
    <3> QED
      BY <2>1, <3>2, <3>3 DEF FramesInOrder
  <2>6. TakenIsFront' /\ CopiedIsRight' /\ ReadsWhole'
    BY <1>1, <2>1, ReaderKept
  <2>7. StillBehind'
    <3>1. Back' = front /\ memory' = memory /\ swaps' - 1 = swaps
      BY ONLY <1>1, <2>1 DEF Back
    <3>2. memory[front] = Frame(swaps)
      BY DEF FramesInOrder
    <3> QED
      BY ONLY <3>1, <3>2 DEF StillBehind, Frame
  <2> QED
    BY <2>3, <2>4, <2>5, <2>6, <2>7
<1> QED
  BY <1>2, <1>3

\* A reader changes nothing but what it has, and takes the number it goes by
\* before the frame.
LEMMA ReaderKeeps ==
  ASSUME FrameInv,
         SwapNotify \/ LoadSeqNo \/ TakeFront \/ CopySample \/ CheckSeqNo \/ ReadReturn
  PROVE  FrameInv'
<1> USE DEF FrameInv
<1>1. /\ seqNo \in Nat /\ swaps \in Nat /\ front \in 1..2 /\ Size \in Nat /\ Size > 0
      /\ reader \in [at : {"idle", "take", "copy", "check", "read", "again"},
                    seq : Nat, slice : 1..2, frame : Nat, data : Seq(Nat)]
  BY FramesAssumption DEF FrameTypes
<1>2. ReadStep
  BY DEF SwapNotify, LoadSeqNo, TakeFront, CopySample, CheckSeqNo, ReadReturn
<1>3. WriterKnows' /\ SeqCountsSwaps' /\ FramesInOrder' /\ StillBehind'
  BY <1>2 DEF ReadStep, WriterKnows, SeqCountsSwaps, FramesInOrder, StillBehind, Counted,
              Frame, Back
<1>4. ASSUME swapCh' \in BOOLEAN,
             reader' \in [at : {"idle", "take", "copy", "check", "read", "again"},
                         seq : Nat, slice : 1..2, frame : Nat, data : Seq(Nat)],
             TakenIsFront', CopiedIsRight', ReadsWhole'
      PROVE  FrameInv'
  BY <1>2, <1>3, <1>4 DEF ReadStep, FrameTypes
<1> USE <1>1, <1>2 DEF ReadStep
<1>5. CASE SwapNotify
  <2>1. swapCh' \in BOOLEAN
    BY ONLY <1>5, Zenon DEF SwapNotify
  <2>2. UNCHANGED <<frameKind, reader, seqNo, stored, swaps, front>> /\ stored \in Nat
    BY <1>5 DEF SwapNotify, FrameTypes
  <2>3. TakenIsFront' /\ CopiedIsRight' /\ ReadsWhole'
    BY <2>2, ReaderKept
  <2> QED
    BY <1>4, <2>1, <2>2, <2>3
<1>6. CASE LoadSeqNo
  <2>1. UNCHANGED swapCh /\ swapCh \in BOOLEAN
    BY <1>6 DEF LoadSeqNo, FrameTypes
  <2>2. Counted /\ reader' = [NoRead EXCEPT !.at = "take", !.seq = seqNo]
    BY <1>6 DEF LoadSeqNo, Counted
  <2>3. reader' = [at |-> "take", seq |-> seqNo, slice |-> 1, frame |-> 0, data |-> <<>>]
    BY <2>2 DEF NoRead
  <2>4. reader'.at = "take" /\ reader'.seq = seqNo /\ reader'.data = <<>>
    BY ONLY <2>3
  <2>5. TakenIsFront' /\ CopiedIsRight' /\ ReadsWhole'
    BY ONLY <1>1, <1>2, <2>2, <2>4
    DEF TakenIsFront, CopiedIsRight, ReadsWhole, Counted, ReadStep
  <2> QED
    BY <1>4, <2>1, <2>3, <2>5
<1>7. CASE TakeFront
  <2>1. UNCHANGED swapCh /\ swapCh \in BOOLEAN
    BY <1>7 DEF TakeFront, FrameTypes
  <2>2. reader' = [reader EXCEPT !.at = "copy", !.slice = front, !.frame = swaps]
    BY <1>7 DEF TakeFront
  <2>3. /\ reader'.at = "copy" /\ reader'.slice = front /\ reader'.frame = swaps
        /\ reader'.seq = reader.seq /\ reader'.data = reader.data
    BY <2>2
  <2>4. reader.data = <<>>
    BY <1>7 DEF TakeFront, CopiedIsRight
  <2>5. TakenIsFront'
    BY <2>3 DEF TakenIsFront, Counted
  <2>6. CopiedIsRight' /\ ReadsWhole'
    BY <2>3, <2>4 DEF CopiedIsRight, ReadsWhole
  <2> QED
    BY <1>4, <2>1, <2>2, <2>5, <2>6
<1>8. CASE CopySample
  <2> DEFINE n == Len(reader.data) + 1
             sample == memory[reader.slice][n]
  <2>1. UNCHANGED swapCh /\ swapCh \in BOOLEAN
    BY <1>8 DEF CopySample, FrameTypes
  <2>2. reader.at = "copy" /\ n \in 1..Size /\ n - 1 \in Nat
    BY <1>8 DEF CopySample, CopiedIsRight
  <2>3. sample \in Nat
    BY <2>2 DEF FrameTypes
  <2>4. reader' = [reader EXCEPT !.data = Append(reader.data, sample),
                    !.at = IF n < Size THEN "copy" ELSE IF Counted THEN "check" ELSE "read"]
    BY <1>8 DEF CopySample, Counted
  <2>5. /\ reader'.data = Append(reader.data, sample)
        /\ reader'.at = IF n < Size THEN "copy" ELSE IF Counted THEN "check" ELSE "read"
        /\ reader'.seq = reader.seq /\ reader'.slice = reader.slice
        /\ reader'.frame = reader.frame
    BY ONLY <1>1, <2>4
  <2>6. reader' \in [at : {"idle", "take", "copy", "check", "read", "again"},
                    seq : Nat, slice : 1..2, frame : Nat, data : Seq(Nat)]
    <3>1. Append(reader.data, sample) \in Seq(Nat)
      BY <2>3
    <3> HIDE DEF n, sample
    <3> QED
      BY ONLY <1>1, <2>4, <3>1
  <2>7. /\ Len(reader'.data) = n /\ reader'.data[n] = sample
        /\ \A i \in 1..(n - 1) : reader'.data[i] = reader.data[i]
    BY <2>2, <2>3, <2>5
  <2>8. /\ reader'.frame = reader.frame
        /\ reader'.at = IF n < Size THEN "copy" ELSE IF Counted THEN "check" ELSE "read"
    BY ONLY <2>5
  <2>9. TakenIsFront'
    BY <2>2, <2>5 DEF TakenIsFront, Counted
  <2>10. \A i \in 1..n :
            ~Refilled(reader.frame, i) => reader'.data[i] = Frame(reader.frame)[i]
    <3>1. reader.frame \in Nat /\ reader.frame <= swaps /\ reader.slice \in 1..2
      BY <2>2 DEF TakenIsFront
    <3>2. \A i \in 1..(n - 1) :
            ~Refilled(reader.frame, i) => reader.data[i] = Frame(reader.frame)[i]
      <4>1. Len(reader.data) = n - 1
        BY <2>2
      <4> QED
        BY ONLY <2>2, <4>1, CopiedIsRight DEF CopiedIsRight
    <3>3. FrameTypes /\ FramesInOrder /\ TakenIsFront /\ StillBehind /\ fill \in 0..Size
      BY DEF FrameTypes
    <3> HIDE DEF n, sample
    <3>4. ~Refilled(reader.frame, n) => sample = Frame(reader.frame)[n]
      <4>1. CASE reader.frame = swaps
        BY ONLY <2>2, <3>3, <4>1 DEF TakenIsFront, FramesInOrder, sample
      <4>2. CASE reader.frame + 1 = swaps
        <5>1. Refilled(reader.frame, n) <=> n <= fill
          BY ONLY <2>2, <3>1, <3>3, <4>2, RefilledWhen
        <5>2. reader.slice = Back
          BY ONLY <1>1, <2>2, <3>1, <3>3, <4>2 DEF TakenIsFront, Back
        <5>3. swaps - 1 = reader.frame /\ swaps > 0
          BY ONLY <3>1, <4>2
        <5>4. \A i \in (fill + 1)..Size : memory[Back][i] = Frame(swaps - 1)[i]
          BY ONLY <3>3, <5>3 DEF StillBehind
        <5>5. ~(n <= fill) => n \in (fill + 1)..Size
          BY ONLY <2>2, <3>3, <1>1
        <5>6. ~(n <= fill) => memory[Back][n] = Frame(swaps - 1)[n]
          BY ONLY <5>4, <5>5
        <5> QED
          BY ONLY <5>1, <5>2, <5>3, <5>6, Zenon DEF sample
      <4>3. CASE reader.frame + 1 < swaps
        BY ONLY <2>2, <3>1, <3>3, <4>3, RefilledWhen
      <4> QED
        BY ONLY <1>1, <3>1, <4>1, <4>2, <4>3
    <3>5. \A i \in 1..n : i = n \/ i \in 1..(n - 1)
      BY ONLY <2>2
    <3> QED
      BY ONLY <2>7, <3>2, <3>4, <3>5, Zenon
  <2>11. CopiedIsRight'
    <3> HIDE DEF n, sample
    <3>1. \A i \in 1..Len(reader'.data) :
            ~Refilled(reader'.frame, i) => reader'.data[i] = Frame(reader'.frame)[i]
      BY ONLY <2>8, <2>7, <2>10
    <3>2. stored' = stored
      BY DEF ReadStep
    <3>3. /\ reader'.at = "copy" => Len(reader'.data) < Size
          /\ reader'.at \in {"check", "read"} => Len(reader'.data) = Size
          /\ reader'.at \notin {"idle", "again", "take"}
      BY ONLY <1>1, <2>2, <2>8, <2>7
    <3> QED
      BY ONLY <3>1, <3>2, <3>3 DEF CopiedIsRight, Frame, Refilled
  <2>12. ReadsWhole'
    <3>1. reader'.at = "read" => n = Size /\ ~Counted
      BY ONLY <1>1, <2>2, <2>8
    <3>2. frameKind' = frameKind /\ stored' = stored
      BY DEF ReadStep
    <3> HIDE DEF n, sample
    <3> QED
      BY ONLY <2>8, <2>10, <3>1, <3>2 DEF ReadsWhole, Counted, Frame, Refilled
  <2> QED
    BY <1>4, <2>1, <2>6, <2>9, <2>11, <2>12
<1>9. CASE CheckSeqNo
  <2>1. UNCHANGED swapCh /\ swapCh \in BOOLEAN /\ reader.at = "check" /\ Counted
    BY <1>9 DEF CheckSeqNo, FrameTypes, TakenIsFront
  <2>2. CASE Unmoved(reader.seq)
    <3>1. reader' = [reader EXCEPT !.at = "read"]
      BY <1>9, <2>2 DEF CheckSeqNo
    <3>2. /\ reader'.at = "read" /\ reader'.seq = reader.seq /\ reader'.slice = reader.slice
          /\ reader'.frame = reader.frame /\ reader'.data = reader.data
      BY <3>1
    <3>3. reader.seq = seqNo /\ reader.seq % 2 = 0
      BY <2>2 DEF Unmoved
    <3>4. TakenIsFront' /\ CopiedIsRight'
      BY <2>1, <3>2 DEF TakenIsFront, CopiedIsRight, Counted
    <3>5. ReadsWhole'
      <4>1. /\ reader.frame \in Nat /\ Len(reader.data) = Size
            /\ \A i \in 1..Size :
                 ~Refilled(reader.frame, i) => reader.data[i] = Frame(reader.frame)[i]
        BY <2>1 DEF CopiedIsRight
      <4>2. ASSUME reader.seq = reader.frame, NEW i \in 1..Size
            PROVE  ~Refilled(reader.frame, i)
        <5>1. reader.frame = swaps
          BY <2>1, <3>3, <4>2 DEF SeqCountsSwaps, TakenIsFront
        <5> QED
          BY <4>1, <5>1, RefilledWhen
      <4>3. stored' = stored
        BY DEF ReadStep
      <4> QED
        BY ONLY <3>2, <3>3, <4>1, <4>2, <4>3 DEF ReadsWhole, Frame, Refilled
    <3> QED
      BY <1>4, <2>1, <3>1, <3>4, <3>5
  <2>3. CASE ~Unmoved(reader.seq)
    <3>1. reader' = [at |-> "again", seq |-> 0, slice |-> 1, frame |-> 0, data |-> <<>>]
      BY <1>9, <2>3 DEF CheckSeqNo, NoRead
    <3>2. reader'.at = "again" /\ reader'.seq = 0 /\ reader'.data = <<>>
      BY ONLY <3>1
    <3>3. TakenIsFront' /\ CopiedIsRight' /\ ReadsWhole'
      BY ONLY <1>1, <1>2, <3>2 DEF TakenIsFront, CopiedIsRight, ReadsWhole, Counted, ReadStep
    <3> QED
      BY <1>4, <2>1, <3>1, <3>3
  <2> QED
    BY <2>2, <2>3
<1>10. CASE ReadReturn
  <2>1. UNCHANGED swapCh /\ swapCh \in BOOLEAN
    BY <1>10 DEF ReadReturn, FrameTypes
  <2>2. reader' = [at |-> "idle", seq |-> 0, slice |-> 1, frame |-> 0, data |-> <<>>]
    BY <1>10 DEF ReadReturn, NoRead
  <2>3. reader'.at = "idle" /\ reader'.seq = 0 /\ reader'.data = <<>>
    BY ONLY <2>2
  <2>4. TakenIsFront' /\ CopiedIsRight' /\ ReadsWhole'
    BY ONLY <1>1, <1>2, <2>3 DEF TakenIsFront, CopiedIsRight, ReadsWhole, Counted, ReadStep
  <2> QED
    BY <1>4, <2>1, <2>2, <2>4
<1> QED
  BY <1>5, <1>6, <1>7, <1>8, <1>9, <1>10

-------------------------------------------------------------------------------
\* The frame buffers keep their invariant, whatever the writers call and
\* wherever the reader is.
THEOREM FramesInvariant == FrameSpec => []FrameInv
<1>1. FrameInv /\ [FrameNext]_frameVars => FrameInv'
  <2> SUFFICES ASSUME FrameInv, [FrameNext]_frameVars PROVE FrameInv'
    OBVIOUS
  <2>1. CASE WriteOne \/ \E n \in 1..MaxMany : WriteMany(n)
    BY <2>1, BeginKeeps
  <2>2. CASE StoreSample
    BY <2>2, StoreKeeps
  <2>3. CASE CountSwap \/ Swap
    BY <2>3, SwapKeeps
  <2>4. CASE SwapNotify \/ LoadSeqNo \/ TakeFront \/ CopySample \/ CheckSeqNo \/ ReadReturn
    BY <2>4, ReaderKeeps
  <2>5. CASE UNCHANGED frameVars
    <3> USE <2>5 DEF frameVars
    <3>1. FrameTypes' /\ WriterKnows' /\ SeqCountsSwaps'
      BY DEF FrameInv, FrameTypes, WriterKnows, SeqCountsSwaps, Counted
    <3>2. FramesInOrder' /\ StillBehind'
      BY DEF FrameInv, FramesInOrder, StillBehind, Frame, Back
    <3>3. TakenIsFront' /\ CopiedIsRight' /\ ReadsWhole'
      BY DEF FrameInv, TakenIsFront, CopiedIsRight, ReadsWhole, Counted, Refilled, Frame
    <3> QED
      BY <3>1, <3>2, <3>3 DEF FrameInv
  <2> QED
    BY <2>1, <2>2, <2>3, <2>4, <2>5 DEF FrameNext
<1> QED
  BY InitFrameInv, <1>1, PTL DEF FrameSpec

\* Frames come to the front in order, none lost or repeated, and every sample of
\* what a reader returns is of the frame it took, unless the writer has filled
\* its place again since, which DoubleSeqLock does not let happen where it had
\* counted exactly the swaps done when the frame was taken.
THEOREM FramesAreWhole == FrameSpec => []FramesWhole
<1>1. FrameInv => FramesWhole
  <2> SUFFICES ASSUME FrameInv PROVE FramesWhole
    OBVIOUS
  <2>1. Len(reader.data) <= Size
    BY FramesAssumption DEF FrameInv, FrameTypes, CopiedIsRight
  <2> QED
    BY <2>1 DEF FrameInv, FrameTypes, FramesWhole, FrameTypeOK
<1> QED
  BY FramesInvariant, <1>1, PTL

-------------------------------------------------------------------------------
(* The watchdog.                                                           *)
WdSpec == WdInit /\ [][WdNext]_wdVars

WdTypeOK ==
  /\ age \in 0..(Timeout + 1) /\ seenAge \in 0..(Timeout + 1) /\ alarms \in 0..3
  /\ alive \in BOOLEAN /\ raced \in BOOLEAN
  /\ wdAt \in {"none", "select", "compare", "test", "dead", "ended"}

(* The alarms a Feed can still be followed by, in all.                       *)
Allowed == IF raced THEN 2 ELSE 1

(* The step of the loop is about the Feed of now, not an earlier one.        *)
LoopIsCurrent ==
  ~raced \/ alarms > 0 =>
    /\ wdAt = "compare" => seenAge = age
    /\ wdAt \in {"test", "dead"} => age > Timeout

(* Nothing makes the watchdog alive again after the last alarm allowed.      *)
SilentWhenSpent == alarms = Allowed => age > Timeout /\ ~alive

WdInv ==
  /\ WdTypeOK /\ LoopIsCurrent /\ SilentWhenSpent
  /\ alarms <= Allowed
  /\ wdAt = "none" => alarms = 0
  /\ wdAt = "dead" => alive

\* The watchdog that NewWatchdog returns has raised no alarm.
LEMMA InitWdInv == WdInit => WdInv
<1> SUFFICES ASSUME WdInit PROVE WdInv
  OBVIOUS
<1> USE DEF WdInit
<1>1. WdTypeOK
  <2>1. alive \in BOOLEAN /\ raced \in BOOLEAN
    BY Zenon
  <2>2. age \in 0..(Timeout + 1) /\ seenAge \in 0..(Timeout + 1) /\ alarms \in 0..3
    BY WatchdogAssumption
  <2> QED
    BY <2>1, <2>2 DEF WdTypeOK
<1>2. Allowed = 1
  BY DEF Allowed
<1> QED
  BY <1>1, <1>2 DEF WdInv, LoopIsCurrent, SilentWhenSpent

\* A step of the loop, of a caller or of the ticker keeps the invariant: an
\* alarm needs alive, which only a loaded time that is not late sets again.
LEMMA NextWdInv == WdInv /\ [WdNext]_wdVars => WdInv'
<1> SUFFICES ASSUME WdInv, [WdNext]_wdVars PROVE WdInv'
  OBVIOUS
<1> USE WatchdogAssumption DEF WdInv, WdTypeOK, LoopIsCurrent, SilentWhenSpent, Allowed
<1>1. CASE TimePasses
  BY <1>1 DEF TimePasses, Older
<1>2. CASE WdStart
  BY <1>2 DEF WdStart
<1>3. CASE WdStop
  BY <1>3 DEF WdStop
<1>4. CASE Feed
  <2>1. raced' \in BOOLEAN /\ (~raced' => wdAt \notin {"compare", "test", "dead"})
    <3>1. raced' = (wdAt \in {"compare", "test", "dead"})
      BY <1>4 DEF Feed
    <3> DEFINE racing == wdAt \in {"compare", "test", "dead"}
    <3>2. racing \in BOOLEAN
      OBVIOUS
    <3>3. raced' = racing
      BY <3>1
    <3> HIDE DEF racing
    <3>4. raced' \in BOOLEAN /\ (~raced' => ~racing)
      BY ONLY <3>2, <3>3, Zenon
    <3> QED
      BY <3>4 DEF racing
  <2>2. WdTypeOK' /\ LoopIsCurrent'
    BY <1>4, <2>1 DEF Feed
  <2> QED
    BY <1>4, <2>1, <2>2 DEF Feed
<1>5. CASE LoadLast
  BY <1>5 DEF LoadLast
<1>6. CASE LoopStops
  BY <1>6 DEF LoopStops
<1>7. CASE Compare
  <2>1. CASE Late(seenAge)
    BY <1>7, <2>1 DEF Compare, Late
  <2>2. CASE ~Late(seenAge)
    BY <1>7, <2>2 DEF Compare, Late
  <2> QED
    BY <2>1, <2>2
<1>8. CASE TestAlive
  BY <1>8 DEF TestAlive
<1>9. CASE Alarm
  <2>1. alarms < Allowed
    BY <1>9 DEF Alarm
  <2>2. alarms' = alarms + 1
    BY <1>9, <2>1 DEF Alarm
  <2>3. ~alive' /\ alive' \in BOOLEAN /\ wdAt' = "select"
    BY ONLY <1>9, Zenon DEF Alarm, AlarmOnce
  <2>4. UNCHANGED <<age, seenAge, raced>>
    BY <1>9 DEF Alarm
  <2>5. alarms' = Allowed' => age' > Timeout
    BY <1>9, <2>1, <2>2, <2>4 DEF Alarm
  <2>6. WdTypeOK' /\ alarms' <= Allowed'
    BY <2>1, <2>2, <2>3, <2>4
  <2> QED
    BY ONLY <2>3, <2>5, <2>6 DEF WdInv, LoopIsCurrent, SilentWhenSpent
<1>10. CASE UNCHANGED wdVars
  BY <1>10 DEF wdVars
<1> QED
  BY <1>1, <1>2, <1>3, <1>4, <1>5, <1>6, <1>7, <1>8, <1>9, <1>10 DEF WdNext, MonitorLoop

\* monitorLoop calls its callbacks at most once for a Feed, or twice for a
\* Feed that came between its load of lastUpdate and the end of an alarm.
THEOREM WatchdogAlarms == WdSpec => []AlarmsBounded
<1>1. WdInv => AlarmsBounded
  BY DEF WdInv, WdTypeOK, Allowed, AlarmsBounded
<1> QED
  BY InitWdInv, NextWdInv, <1>1, PTL DEF WdSpec
===============================================================================

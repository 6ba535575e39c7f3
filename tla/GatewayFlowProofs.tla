-------------------------- MODULE GatewayFlowProofs ---------------------------
(* Proofs about Start and Stop of the gateway and the flow of its packets and *)
(* samples, for every number of callers, every packet source that numbers its *)
(* packets, and every size of the channel and of the rings.                  *)
EXTENDS GatewayFlow, PacketDecodingProofs

Steps == {"idle", "starting", "launching", "stopping", "stoppingCapture", "closing"}
Places == {"none", "test", "select", "decode", "write", "count", "ended"}

Types ==
  /\ caller \in [Callers -> Steps] /\ starts \in Nat /\ stops \in Nat
  /\ simulators \in Nat /\ late \in Nat

Flags ==
  /\ running \in BOOLEAN /\ closed \in BOOLEAN /\ captureRunning \in BOOLEAN
  /\ sourceRunning \in BOOLEAN /\ sourceClosed \in BOOLEAN
  /\ packetChClosed \in BOOLEAN /\ panicked \in BOOLEAN

(* A loop is a record, whatever the packets are.                             *)
LoopTypes ==
  /\ DOMAIN poll = 1..MaxStarts
  /\ \A p \in 1..MaxStarts :
       /\ poll[p].pc \in Places
       /\ poll[p] = [pc |-> poll[p].pc, lastSeq |-> poll[p].lastSeq,
                     packet |-> poll[p].packet, n |-> poll[p].n]

(* No goroutine of a gateway whose capture was not started.                  *)
Untouched ==
  /\ ~running /\ ~captureRunning /\ stops = 0 /\ simulators = 0
  /\ \A p \in 1..MaxStarts : poll[p].pc = "none"

(* Only one thread is inside Start or Stop, and what it still has to do.     *)
CallsInTurn ==
  /\ \A c, d \in Callers : caller[c] # "idle" /\ caller[d] # "idle" => c = d
  /\ starts = 0 => Untouched /\ \A c \in Callers : caller[c] = "idle"
  /\ \A c \in Callers :
       /\ caller[c] = "starting" => Untouched
       /\ caller[c] = "launching" => ~running /\ stops = 0
       /\ caller[c] \in {"stopping", "stoppingCapture"} => ~sourceClosed
       /\ caller[c] \in {"stopping", "stoppingCapture", "closing"} => ~closed /\ stops > 0
  /\ stops = 0 => ~sourceClosed /\ ~closed

(* The channel is closed by the one simulateTraffic, on its way out.         *)
ChannelInTurn ==
  /\ simulators <= 1
  /\ packetChClosed => sourceClosed /\ simulators = 0
  /\ sourceClosed => ~captureRunning

(* After Stop pollLoop finishes what it has and reads no other packet.       *)
LastBatch ==
  /\ \A p, q \in 1..MaxStarts : poll[p].pc # "none" /\ poll[q].pc # "none" => p = q
  /\ late <= 1
  /\ late > 0 => /\ sourceClosed
                 /\ \A p \in 1..MaxStarts : poll[p].pc \notin {"select", "decode", "write"}

InTurn == CallsInTurn /\ ChannelInTurn /\ LastBatch /\ ~panicked

OnceInv == Types /\ Flags /\ LoopTypes /\ (Once => InTurn)

-------------------------------------------------------------------------------
\* A flag and the state of a channel stay true or false.
LEMMA FlagsKept ==
  ASSUME Flags, Next
  PROVE  Flags'
<1>1. ASSUME NEW c \in Callers, Call(c) PROVE Flags'
  <2> USE DEF Flags, flags, channel
  <2>1. CASE StartTest(c)
    BY <2>1, Zenon DEF StartTest
  <2>2. CASE StartCapture(c)
    BY <2>2, Zenon DEF StartCapture
  <2>3. CASE Launch(c)
    BY <2>3, Zenon DEF Launch
  <2>4. CASE StopTest(c)
    BY <2>4, Zenon DEF StopTest
  <2>5. CASE StopFlag(c)
    BY <2>5, Zenon DEF StopFlag
  <2>6. CASE StopCapture(c)
    BY <2>6, Zenon DEF StopCapture
  <2>7. CASE CloseChannels(c)
    BY <2>7, Zenon DEF CloseChannels
  <2> QED
    BY <1>1, <2>1, <2>2, <2>3, <2>4, <2>5, <2>6, <2>7 DEF Call
<1>2. CASE Traffic
  BY <1>2, Zenon DEF Traffic, Flags, flags
<1>3. CASE TrafficEnds
  BY <1>3, Zenon DEF TrafficEnds, Flags, flags
<1>4. CASE Process \/ ProcessEnds \/ AttitudeEnds
  BY <1>4, Zenon DEF Process, ProcessEnds, AttitudeEnds, Flags, flags, channel
<1>5. ASSUME NEW p \in DOMAIN poll, Poll(p) PROVE Flags'
  <2>1. UNCHANGED flags /\ UNCHANGED packetChClosed /\ UNCHANGED panicked
    BY <1>5, Zenon DEF Poll, ReadPacket, Timeout, ChannelClosed, TakePacket, DropPacket,
       DecodePacket, WriteBatch, CountSamples, channel
  <2> QED
    BY <2>1, Zenon DEF Flags, flags
<1> QED
  BY <1>1, <1>2, <1>3, <1>4, <1>5 DEF Next, Goroutine

\* A loop whose record is replaced by another stays a loop.
LEMMA LoopReplaced ==
  ASSUME LoopTypes, NEW p \in 1..MaxStarts, NEW pc \in Places, NEW s, NEW k, NEW n,
         DOMAIN poll' = DOMAIN poll,
         poll'[p] = [pc |-> pc, lastSeq |-> s, packet |-> k, n |-> n],
         \A q \in 1..MaxStarts : q # p => poll'[q] = poll[q]
  PROVE  LoopTypes' /\ poll'[p].pc = pc
BY DEF LoopTypes

\* What one pollLoop does, as far as Start and Stop are concerned.
LEMMA PollStep ==
  ASSUME LoopTypes, NEW p \in 1..MaxStarts, Poll(p)
  PROVE  /\ LoopTypes' /\ UNCHANGED <<flags, packetChClosed, simulators, calls, panicked>>
         /\ \A q \in 1..MaxStarts : q # p => poll'[q] = poll[q]
         /\ poll[p].pc # "none" /\ poll'[p].pc # "none"
         /\ poll'[p].pc = "select" => captureRunning
         /\ poll'[p].pc \in {"decode", "write"} => poll[p].pc \in {"select", "decode"}
         /\ \/ late' = late
            \/ /\ poll[p].pc = "write" /\ poll'[p].pc = "count"
               /\ late' = late + IF sourceClosed THEN 1 ELSE 0
<1> USE DEF LoopTypes, Goto
<1> DEFINE Rest == UNCHANGED <<flags, packetChClosed, simulators, calls, panicked>>
<1>1. CASE ReadPacket(p)
  BY <1>1 DEF ReadPacket, channel, samples, Places
<1>2. CASE Timeout(p) \/ ChannelClosed(p)
  BY <1>2 DEF Timeout, ChannelClosed, channel, samples, Places
<1>3. CASE TakePacket(p)
  <2>1. /\ poll[p].pc = "select" /\ UNCHANGED <<flags, packetChClosed, simulators, calls, panicked, late>>
        /\ poll' = [poll EXCEPT ![p].pc = "decode", ![p].packet = Head(packetCh)]
    BY <1>3 DEF TakePacket, samples
  <2> HIDE DEF LoopTypes
  <2>2. LoopTypes /\ poll[p] = [pc |-> poll[p].pc, lastSeq |-> poll[p].lastSeq,
                             packet |-> poll[p].packet, n |-> poll[p].n]
        /\ p \in DOMAIN poll /\ DOMAIN poll = 1..MaxStarts
    BY DEF LoopTypes
  <2>3. poll'[p] = [pc |-> "decode", lastSeq |-> poll[p].lastSeq,
                   packet |-> Head(packetCh), n |-> poll[p].n]
    BY ONLY <2>1, <2>2
  <2>4. DOMAIN poll' = DOMAIN poll /\ \A q \in 1..MaxStarts : q # p => poll'[q] = poll[q]
    BY ONLY <2>1, <2>2
  <2>5. LoopTypes' /\ poll'[p].pc = "decode"
    BY <2>3, <2>4, LoopReplaced DEF Places
  <2> QED
    BY ONLY <2>1, <2>4, <2>5
<1>4. CASE DropPacket(p)
  BY <1>4 DEF DropPacket, channel, samples, Places
<1>5. CASE DecodePacket(p)
  <2> DEFINE got == Outcome[poll[p].packet]
             next_pc == IF got.samples > 0 THEN "write" ELSE "test"
  <2>1. /\ poll[p].pc = "decode" /\ UNCHANGED <<flags, packetChClosed, simulators, calls, panicked, late>>
        /\ poll' = [poll EXCEPT ![p].lastSeq = got.seq, ![p].n = got.samples, ![p].pc = next_pc]
    BY <1>5 DEF DecodePacket, channel, samples
  <2> HIDE DEF LoopTypes, got
  <2>2. LoopTypes /\ poll[p] = [pc |-> poll[p].pc, lastSeq |-> poll[p].lastSeq,
                             packet |-> poll[p].packet, n |-> poll[p].n]
        /\ p \in DOMAIN poll /\ DOMAIN poll = 1..MaxStarts
    BY DEF LoopTypes
  <2>3. poll'[p] = [pc |-> next_pc, lastSeq |-> got.seq, packet |-> poll[p].packet, n |-> got.samples]
    BY ONLY <2>1, <2>2
  <2>4. DOMAIN poll' = DOMAIN poll /\ \A q \in 1..MaxStarts : q # p => poll'[q] = poll[q]
    BY ONLY <2>1, <2>2
  <2>5. next_pc \in {"write", "test"} /\ next_pc \in Places
    BY DEF Places
  <2>6. LoopTypes' /\ poll'[p].pc = next_pc
    BY <2>3, <2>4, <2>5, LoopReplaced
  <2> QED
    BY ONLY <2>1, <2>4, <2>5, <2>6
<1>6. CASE WriteBatch(p)
  <2> DEFINE fits == Fitting(poll[p].n)
  <2>1. /\ poll[p].pc = "write" /\ UNCHANGED <<flags, packetChClosed, simulators, calls, panicked>>
        /\ poll' = [poll EXCEPT ![p].pc = "count", ![p].n = fits]
        /\ late' = late + IF sourceClosed THEN 1 ELSE 0
    BY <1>6 DEF WriteBatch, channel
  <2> HIDE DEF LoopTypes, fits
  <2>2. LoopTypes /\ poll[p] = [pc |-> poll[p].pc, lastSeq |-> poll[p].lastSeq,
                             packet |-> poll[p].packet, n |-> poll[p].n]
        /\ p \in DOMAIN poll /\ DOMAIN poll = 1..MaxStarts
    BY DEF LoopTypes
  <2>3. poll'[p] = [pc |-> "count", lastSeq |-> poll[p].lastSeq,
                   packet |-> poll[p].packet, n |-> fits]
    BY ONLY <2>1, <2>2
  <2>4. DOMAIN poll' = DOMAIN poll /\ \A q \in 1..MaxStarts : q # p => poll'[q] = poll[q]
    BY ONLY <2>1, <2>2
  <2>5. LoopTypes' /\ poll'[p].pc = "count"
    BY <2>3, <2>4, LoopReplaced DEF Places
  <2> QED
    BY ONLY <2>1, <2>4, <2>5
<1>7. CASE CountSamples(p)
  BY <1>7 DEF CountSamples, channel, Places
<1> QED
  BY <1>1, <1>2, <1>3, <1>4, <1>5, <1>6, <1>7 DEF Poll

-------------------------------------------------------------------------------
\* A gateway that New made is untouched.
LEMMA InitOnceInv == Init => OnceInv
<1> SUFFICES ASSUME Init PROVE OnceInv
  OBVIOUS
<1> USE DEF Init
<1>1. Flags
  BY Zenon DEF Flags
<1>2. Types
  BY DEF Types, Steps
<1>3. LoopTypes
  BY DEF LoopTypes, NoLoop, Places
<1>4. \A p \in 1..MaxStarts : poll[p].pc = "none"
  BY DEF NoLoop
<1>5. CallsInTurn
  BY <1>4 DEF CallsInTurn, Untouched
<1>6. ChannelInTurn /\ LastBatch
  BY <1>4 DEF ChannelInTurn, LastBatch
<1> QED
  BY <1>1, <1>2, <1>3, <1>5, <1>6 DEF OnceInv, InTurn

\* Start and Stop, when each is called once, do their steps one after another.
LEMMA CallKeeps ==
  ASSUME OnceInv, NEW c \in Callers, Call(c)
  PROVE  Types' /\ LoopTypes' /\ (Once' => InTurn')
<1> USE DEF OnceInv
<1>1. starts \in Nat /\ stops \in Nat /\ simulators \in Nat /\ late \in Nat
      /\ caller \in [Callers -> Steps]
  BY DEF Types
<1>2. CASE StartTest(c)
  <2>1. /\ caller[c] = "idle" /\ ~running /\ caller' = [caller EXCEPT ![c] = "starting"]
        /\ starts' = starts + 1 /\ UNCHANGED <<flags, channel, samples, poll, panicked, stops>>
    BY <1>2 DEF StartTest
  <2>2. UNCHANGED <<running, closed, captureRunning, sourceClosed, packetChClosed, simulators, late>>
    BY <2>1 DEF flags, channel, samples
  <2>3. Types' /\ LoopTypes'
    BY <1>1, <2>1, <2>2 DEF Types, LoopTypes, Steps
  <2>4. ASSUME Once' PROVE InTurn'
    <3>1. starts = 0 /\ Once /\ starts' = 1
      BY <1>1, <2>1, <2>4 DEF Once
    <3>2. Untouched /\ \A d \in Callers : caller[d] = "idle"
      BY <3>1 DEF InTurn, CallsInTurn
    <3>3. caller'[c] = "starting" /\ \A d \in Callers : d # c => caller'[d] = "idle"
      BY <1>1, <2>1, <3>2
    <3>4. Untouched'
      BY <2>1, <2>2, <3>2 DEF Untouched
    <3>5. CallsInTurn'
      BY <2>1, <2>2, <3>1, <3>3, <3>4 DEF CallsInTurn, InTurn
    <3>6. ChannelInTurn' /\ LastBatch' /\ ~panicked'
      BY <2>1, <2>2, <3>1 DEF ChannelInTurn, LastBatch, InTurn
    <3> QED
      BY <3>5, <3>6 DEF InTurn
  <2> QED
    BY <2>3, <2>4
<1>3. CASE StartCapture(c)
  <2>1. /\ caller[c] = "starting" /\ captureRunning' = TRUE /\ simulators' = simulators + 1
        /\ caller' = [caller EXCEPT ![c] = "launching"]
        /\ UNCHANGED <<running, closed, sourceClosed, packetChClosed, starts, stops, late, panicked>>
    BY <1>3 DEF StartCapture, samples
  <2>2. PICK p \in 1..MaxStarts : poll[p].pc = "none" /\ poll' = [poll EXCEPT ![p].pc = "test"]
    BY <1>3 DEF StartCapture, LoopTypes
  <2>3. LoopTypes' /\ poll'[p].pc = "test" /\ \A q \in 1..MaxStarts : q # p => poll'[q] = poll[q]
    BY <2>2 DEF LoopTypes, Places
  <2>4. Types'
    BY <1>1, <2>1 DEF Types, Steps
  <2>5. ASSUME Once' PROVE InTurn'
    <3>1. Once /\ InTurn /\ Untouched
      BY <2>1, <2>5 DEF Once, InTurn, CallsInTurn
    <3>2. caller'[c] = "launching" /\ \A d \in Callers : d # c => caller'[d] = "idle"
      BY <1>1, <2>1, <3>1 DEF InTurn, CallsInTurn
    <3>3. starts # 0
      BY <2>1, <3>1 DEF InTurn, CallsInTurn
    <3>4. CallsInTurn'
      BY <2>1, <3>1, <3>2, <3>3 DEF CallsInTurn, Untouched, InTurn
    <3>5. ChannelInTurn'
      BY <1>1, <2>1, <3>1 DEF ChannelInTurn, CallsInTurn, Untouched, InTurn
    <3>6. LastBatch'
      BY <1>1, <2>1, <2>3, <3>1 DEF LastBatch, CallsInTurn, Untouched, InTurn
    <3> QED
      BY <2>1, <3>1, <3>4, <3>5, <3>6 DEF InTurn
  <2> QED
    BY <2>3, <2>4, <2>5
<1>4. CASE Launch(c)
  <2>1. /\ caller[c] = "launching" /\ running' = TRUE /\ caller' = [caller EXCEPT ![c] = "idle"]
        /\ UNCHANGED <<closed, captureRunning, sourceClosed, packetChClosed, simulators, late>>
        /\ UNCHANGED <<poll, panicked, starts, stops>>
    BY <1>4 DEF Launch, channel, samples
  <2>2. Types' /\ LoopTypes'
    BY <1>1, <2>1 DEF Types, LoopTypes, Steps
  <2>3. ASSUME Once' PROVE InTurn'
    <3>1. Once /\ InTurn
      BY <2>1, <2>3 DEF Once
    <3>2. \A d \in Callers : caller'[d] = "idle"
      BY <1>1, <2>1, <3>1 DEF InTurn, CallsInTurn
    <3>3. CallsInTurn'
      BY <2>1, <3>1, <3>2 DEF CallsInTurn, InTurn
    <3>4. ChannelInTurn' /\ LastBatch' /\ ~panicked'
      BY <2>1, <3>1 DEF ChannelInTurn, LastBatch, InTurn
    <3> QED
      BY <3>3, <3>4 DEF InTurn
  <2> QED
    BY <2>2, <2>3
<1>5. CASE StopTest(c)
  <2>1. /\ caller[c] = "idle" /\ running /\ caller' = [caller EXCEPT ![c] = "stopping"]
        /\ stops' = stops + 1 /\ UNCHANGED <<flags, channel, samples, poll, panicked, starts>>
    BY <1>5 DEF StopTest
  <2>2. UNCHANGED <<running, closed, captureRunning, sourceClosed, packetChClosed, simulators, late>>
    BY <2>1 DEF flags, channel, samples
  <2>3. Types' /\ LoopTypes'
    BY <1>1, <2>1, <2>2 DEF Types, LoopTypes, Steps
  <2>4. ASSUME Once' PROVE InTurn'
    <3>1. stops = 0 /\ Once /\ InTurn /\ stops' = 1
      BY <1>1, <2>1, <2>4 DEF Once
    <3>2. \A d \in Callers : caller[d] = "idle"
      BY <1>1, <2>1, <3>1 DEF InTurn, CallsInTurn, Untouched, Steps
    <3>3. caller'[c] = "stopping" /\ \A d \in Callers : d # c => caller'[d] = "idle"
      BY <1>1, <2>1, <3>2
    <3>4. CallsInTurn'
      BY <2>1, <2>2, <3>1, <3>3 DEF CallsInTurn, InTurn, Untouched
    <3>5. ChannelInTurn' /\ LastBatch' /\ ~panicked'
      BY <2>1, <2>2, <3>1 DEF ChannelInTurn, LastBatch, InTurn
    <3> QED
      BY <3>4, <3>5 DEF InTurn
  <2> QED
    BY <2>3, <2>4
<1>6. CASE StopFlag(c)
  <2>1. /\ caller[c] = "stopping" /\ running' = FALSE
        /\ caller' = [caller EXCEPT ![c] = "stoppingCapture"]
        /\ UNCHANGED <<closed, captureRunning, sourceClosed, packetChClosed, simulators, late>>
        /\ UNCHANGED <<poll, panicked, starts, stops>>
    BY <1>6 DEF StopFlag, channel, samples
  <2>2. Types' /\ LoopTypes'
    BY <1>1, <2>1 DEF Types, LoopTypes, Steps
  <2>3. ASSUME Once' PROVE InTurn'
    <3>1. Once /\ InTurn
      BY <2>1, <2>3 DEF Once
    <3>2. caller'[c] = "stoppingCapture" /\ \A d \in Callers : d # c => caller'[d] = "idle"
      BY <1>1, <2>1, <3>1 DEF InTurn, CallsInTurn
    <3>3. CallsInTurn'
      BY <2>1, <3>1, <3>2 DEF CallsInTurn, InTurn
    <3>4. ChannelInTurn' /\ LastBatch' /\ ~panicked'
      BY <2>1, <3>1 DEF ChannelInTurn, LastBatch, InTurn
    <3> QED
      BY <3>3, <3>4 DEF InTurn
  <2> QED
    BY <2>2, <2>3
<1>7. CASE StopCapture(c)
  <2>1. /\ caller[c] = "stoppingCapture" /\ captureRunning' = FALSE /\ sourceClosed' = TRUE
        /\ caller' = [caller EXCEPT ![c] = "closing"]
        /\ UNCHANGED <<running, closed, packetChClosed, simulators, late, poll, panicked, starts, stops>>
    BY <1>7 DEF StopCapture, channel, samples
  <2>2. Types' /\ LoopTypes'
    BY <1>1, <2>1 DEF Types, LoopTypes, Steps
  <2>3. ASSUME Once' PROVE InTurn'
    <3>1. Once /\ InTurn
      BY <2>1, <2>3 DEF Once
    <3>2. caller'[c] = "closing" /\ \A d \in Callers : d # c => caller'[d] = "idle"
      BY <1>1, <2>1, <3>1 DEF InTurn, CallsInTurn
    <3>3. CallsInTurn'
      BY <1>1, <2>1, <3>1, <3>2 DEF CallsInTurn, InTurn
    <3>4. ChannelInTurn' /\ LastBatch' /\ ~panicked'
      BY <2>1, <3>1 DEF ChannelInTurn, LastBatch, InTurn
    <3> QED
      BY <3>3, <3>4 DEF InTurn
  <2> QED
    BY <2>2, <2>3
<1>8. CASE CloseChannels(c)
  <2>1. /\ caller[c] = "closing" /\ closed' = TRUE /\ panicked' = closed
        /\ caller' = [caller EXCEPT ![c] = "idle"]
        /\ UNCHANGED <<running, captureRunning, sourceClosed, packetChClosed, simulators, late>>
        /\ UNCHANGED <<poll, starts, stops>>
    BY <1>8 DEF CloseChannels, channel, samples
  <2>2. Types' /\ LoopTypes'
    BY <1>1, <2>1 DEF Types, LoopTypes, Steps
  <2>3. ASSUME Once' PROVE InTurn'
    <3>1. Once /\ InTurn
      BY <2>1, <2>3 DEF Once
    <3>2. ~closed /\ stops > 0
      BY <2>1, <3>1 DEF InTurn, CallsInTurn
    <3>3. \A d \in Callers : caller'[d] = "idle"
      BY <1>1, <2>1, <3>1 DEF InTurn, CallsInTurn
    <3>4. CallsInTurn'
      BY <1>1, <2>1, <3>1, <3>2, <3>3 DEF CallsInTurn, InTurn, Untouched
    <3>5. ~panicked'
      BY ONLY <2>1, <3>2, Zenon
    <3>6. ChannelInTurn' /\ LastBatch'
      BY <2>1, <3>1 DEF ChannelInTurn, LastBatch, InTurn
    <3> QED
      BY <3>4, <3>5, <3>6 DEF InTurn
  <2> QED
    BY <2>2, <2>3
<1> QED
  BY <1>2, <1>3, <1>4, <1>5, <1>6, <1>7, <1>8 DEF Call

\* A goroutine ends nothing that another still needs.
LEMMA GoroutineKeeps ==
  ASSUME OnceInv, Goroutine
  PROVE  Types' /\ LoopTypes' /\ (Once' => InTurn')
<1> USE DEF OnceInv
<1>1. starts \in Nat /\ stops \in Nat /\ simulators \in Nat /\ late \in Nat
      /\ caller \in [Callers -> Steps]
  BY DEF Types
<1>2. CASE Traffic
  <2>1. /\ simulators > 0 /\ panicked' = packetChClosed
        /\ UNCHANGED <<running, closed, captureRunning, sourceClosed, packetChClosed, simulators>>
        /\ UNCHANGED <<late, caller, starts, stops, poll>>
    BY <1>2 DEF Traffic, flags, samples, calls
  <2>2. Types' /\ LoopTypes'
    BY <1>1, <2>1 DEF Types, LoopTypes, Steps
  <2>3. ASSUME Once' PROVE InTurn'
    <3>1. Once /\ InTurn /\ ~packetChClosed
      BY <1>1, <2>1, <2>3 DEF Once, InTurn, ChannelInTurn
    <3>2. ~panicked'
      BY ONLY <2>1, <3>1, Zenon
    <3>3. CallsInTurn' /\ ChannelInTurn' /\ LastBatch'
      BY <2>1, <3>1 DEF CallsInTurn, ChannelInTurn, LastBatch, Untouched, InTurn
    <3> QED
      BY <3>2, <3>3 DEF InTurn
  <2> QED
    BY <2>2, <2>3
<1>3. CASE TrafficEnds
  <2>1. /\ simulators > 0 /\ sourceClosed /\ simulators' = simulators - 1
        /\ packetChClosed' = TRUE /\ panicked' = packetChClosed
        /\ UNCHANGED <<running, closed, captureRunning, sourceClosed>>
        /\ UNCHANGED <<late, caller, starts, stops, poll>>
    BY <1>3 DEF TrafficEnds, flags, samples, calls
  <2>2. Types' /\ LoopTypes'
    BY <1>1, <2>1 DEF Types, LoopTypes, Steps
  <2>3. ASSUME Once' PROVE InTurn'
    <3>1. Once /\ InTurn /\ ~packetChClosed /\ simulators = 1
      BY <1>1, <2>1, <2>3 DEF Once, InTurn, ChannelInTurn
    <3>2. ~panicked'
      BY ONLY <2>1, <3>1, Zenon
    <3>3. ChannelInTurn' /\ LastBatch'
      BY <2>1, <3>1 DEF ChannelInTurn, LastBatch, InTurn
    <3>4. CallsInTurn'
      BY <2>1, <3>1 DEF CallsInTurn, Untouched, InTurn
    <3> QED
      BY <3>2, <3>3, <3>4 DEF InTurn
  <2> QED
    BY <2>2, <2>3
<1>4. CASE Process \/ ProcessEnds \/ AttitudeEnds
  <2>1. UNCHANGED <<running, closed, captureRunning, sourceClosed, packetChClosed, simulators>>
    BY <1>4 DEF Process, ProcessEnds, AttitudeEnds, flags, channel
  <2>2. UNCHANGED <<late, caller, starts, stops, poll, panicked>>
    BY <1>4 DEF Process, ProcessEnds, AttitudeEnds, samples, calls
  <2>3. Types' /\ LoopTypes'
    BY <1>1, <2>1, <2>2 DEF Types, LoopTypes, Steps
  <2>4. Once' => InTurn'
    BY <2>1, <2>2 DEF Once, InTurn, CallsInTurn, ChannelInTurn, LastBatch, Untouched
  <2> QED
    BY <2>3, <2>4
<1>5. CASE \E p \in DOMAIN poll : Poll(p)
  <2>1. PICK p \in 1..MaxStarts : Poll(p)
    BY <1>5 DEF LoopTypes
  <2>2. /\ LoopTypes' /\ UNCHANGED <<flags, packetChClosed, simulators, calls, panicked>>
        /\ \A q \in 1..MaxStarts : q # p => poll'[q] = poll[q]
        /\ poll[p].pc # "none" /\ poll'[p].pc # "none"
        /\ poll'[p].pc = "select" => captureRunning
        /\ poll'[p].pc \in {"decode", "write"} => poll[p].pc \in {"select", "decode"}
        /\ \/ late' = late
           \/ /\ poll[p].pc = "write" /\ poll'[p].pc = "count"
              /\ late' = late + IF sourceClosed THEN 1 ELSE 0
    BY <2>1, PollStep
  <2>3. UNCHANGED <<running, closed, captureRunning, sourceClosed, caller, starts, stops>>
    BY <2>2 DEF flags, calls
  <2>4. Types'
    BY <1>1, <2>2, <2>3 DEF Types, Steps
  <2>5. ASSUME Once' PROVE InTurn'
    <3>1. Once /\ InTurn
      BY <2>3, <2>5 DEF Once
    <3>2. ~Untouched
      BY <2>2 DEF Untouched
    <3>3. CallsInTurn'
      BY <2>2, <2>3, <3>1, <3>2 DEF CallsInTurn, InTurn
    <3>4. ChannelInTurn' /\ ~panicked'
      BY <2>2, <2>3, <3>1 DEF ChannelInTurn, InTurn
    <3>5. LastBatch'
      <4>1. \A q \in 1..MaxStarts : q # p => poll'[q].pc = "none"
        BY <2>2, <3>1 DEF LastBatch, InTurn
      <4>2. late' <= 1 /\ (late' > 0 => sourceClosed)
        BY <1>1, <2>2, <3>1 DEF LastBatch, InTurn
      <4>3. late' > 0 => poll'[p].pc \notin {"select", "decode", "write"}
        BY <1>1, <2>2, <3>1 DEF LastBatch, ChannelInTurn, InTurn
      <4> QED
        BY <2>3, <4>1, <4>2, <4>3 DEF LastBatch
    <3> QED
      BY <3>3, <3>4, <3>5 DEF InTurn
  <2> QED
    BY <2>2, <2>4, <2>5
<1> QED
  BY <1>2, <1>3, <1>4, <1>5 DEF Goroutine

-------------------------------------------------------------------------------
\* The invariant holds with any callers and goroutines, and says nothing of
\* what a second Start or a second Stop leads to.
THEOREM OnceInvariant == Spec => []OnceInv
<1>1. OnceInv /\ [Next]_vars => OnceInv'
  <2> SUFFICES ASSUME OnceInv, [Next]_vars PROVE OnceInv'
    OBVIOUS
  <2>1. CASE Next
    <3>1. Flags'
      BY <2>1, FlagsKept DEF OnceInv
    <3>2. Types' /\ LoopTypes' /\ (Once' => InTurn')
      BY <2>1, CallKeeps, GoroutineKeeps DEF Next
    <3> QED
      BY <3>1, <3>2 DEF OnceInv
  <2>2. CASE UNCHANGED vars
    <3>1. UNCHANGED <<flags, channel, samples, calls, poll, panicked>>
      BY <2>2 DEF vars
    <3>2. UNCHANGED <<running, closed, captureRunning, sourceRunning, sourceClosed,
                      packetChClosed, simulators, late, caller, starts, stops, poll, panicked>>
      BY <3>1 DEF flags, channel, samples, calls
    <3> QED
      BY <3>2 DEF OnceInv, Types, Flags, LoopTypes, Once, InTurn, CallsInTurn, ChannelInTurn,
                  LastBatch, Untouched
  <2> QED
    BY <2>1, <2>2
<1> QED
  BY InitOnceInv, <1>1, PTL DEF Spec

\* A gateway started and stopped once closes no channel twice and sends to no
\* closed one, and writes at most one batch after Stop has closed the source.
THEOREM StoppingIsClean == Spec => []StopIsClean
<1>1. OnceInv => StopIsClean
  BY DEF OnceInv, InTurn, LastBatch, StopIsClean
<1> QED
  BY OnceInvariant, <1>1, PTL

-------------------------------------------------------------------------------
\* A slice has a length, whatever it is cut from.
LEMMA SliceLength ==
  ASSUME NEW s, NEW from \in Int, NEW to \in Int
  PROVE  Len(Slice(s, from, to)) \in Nat
BY DEF Slice

\* What Decode returns without an error has the header of the packet and, if it
\* has a second one, a payload with a length.
LEMMA DecodedPacket ==
  ASSUME NEW data \in Seq(Byte), Decode(data).err = "none"
  PROVE  /\ Decode(data).primary.sequenceCount \in 0..(2^14 - 1)
         /\ Decode(data).primary.secondaryHeader => Len(Decode(data).payload) \in Nat
<1> DEFINE primary == DecodePrimaryHeader(data)
           total == PrimaryHeaderLen + primary.packetLength + 1
<1>1. Len(data) >= 6
  BY DEF Decode, Failed, PrimaryHeaderLen
<1>2. \A i \in 1..6 : data[i] \in Byte
  BY <1>1
<1>3. primary.sequenceCount \in 0..(2^14 - 1) /\ primary.packetLength \in Nat
  BY ONLY <1>2, FieldsFit DEF DecodePrimaryHeader
<1>4. total \in Int
  BY <1>3 DEF PrimaryHeaderLen
<1>5. Decode(data) = DecodeRest(data, primary, total)
  BY <1>1 DEF Decode, DecodeFrom, PrimaryHeaderLen
<1> HIDE DEF primary, total
<1>6. CASE ~primary.secondaryHeader
  <2>1. Decode(data).primary = primary
    BY <1>5, <1>6 DEF DecodeRest, Failed
  <2> QED
    BY <1>3, <1>6, <2>1
<1>7. CASE primary.secondaryHeader
  <2>1. Decode(data) = DecodeBody(data, primary, total)
    BY <1>5, <1>7 DEF DecodeRest, Failed
  <2>2. Decode(data).primary = primary
        /\ Decode(data).payload = Slice(Decode(data).buffer, Headers, total)
    BY <2>1 DEF DecodeBody
  <2>3. Headers \in Int
    BY DEF Headers, PrimaryHeaderLen, SecondaryHeaderLen
  <2> QED
    BY <1>3, <1>4, <2>2, <2>3, SliceLength
<1> QED
  BY <1>6, <1>7

\* What pollLoop sees of any packet has the types it counts with.
LEMMA SeenFits ==
  ASSUME NEW data \in Seq(Byte)
  PROVE  /\ Seen(Decode(data)).seq \in -1..(2^14 - 1) /\ Seen(Decode(data)).samples \in Nat
         /\ Seen(Decode(data)).err = "none" => Seen(Decode(data)).seq \in 0..(2^14 - 1)
<1> DEFINE r == Decode(data)
<1>1. Seen(r).err = r.err /\ Seen(r).samples = Len(SamplesOf(r))
      /\ Seen(r).seq = IF r.err = "none" THEN r.primary.sequenceCount ELSE NoSeq
  BY DEF Seen
<1>2. Len(SamplesOf(r)) \in Nat
  <2>1. CASE r.err = "none" /\ IsThrusterPacket(r)
    <3>1. Len(r.payload) \in Nat
      BY <2>1, DecodedPacket DEF IsThrusterPacket
    <3> DEFINE count == Len(r.payload) \div SampleSize
    <3>2. count \in Nat
      <4>1. \A l \in Nat : l \div 13 \in Nat
        OBVIOUS
      <4> QED
        BY <3>1, <4>1 DEF SampleSize
    <3>3. SamplesOf(r) = DecodeThrusterSamplesFloat(r.payload, r.secondary.timestamp,
                                                   r.primary.sequenceCount * count, count)
      BY <2>1 DEF SamplesOf, DecodeThrusterPayload
    <3> HIDE DEF count
    <3>4. CASE SampleSize * count > DecoderBuffer
      <4>1. SamplesOf(r) = <<>>
        BY ONLY <3>3, <3>4 DEF DecodeThrusterSamplesFloat
      <4> QED
        BY ONLY <4>1
    <3>5. CASE ~(SampleSize * count > DecoderBuffer)
      BY ONLY <3>2, <3>3, <3>5 DEF DecodeThrusterSamplesFloat
    <3> QED
      BY ONLY <3>4, <3>5
  <2>2. CASE ~(r.err = "none" /\ IsThrusterPacket(r))
    BY <2>2 DEF SamplesOf
  <2> QED
    BY <2>1, <2>2
<1>3. r.err = "none" => r.primary.sequenceCount \in 0..(2^14 - 1)
  BY DecodedPacket
<1> HIDE DEF r
<1>4. NoSeq = -1 /\ (\A x \in 0..(2^14 - 1) : x \in -1..(2^14 - 1)) /\ -1 \in -1..(2^14 - 1)
  <2>1. 2^14 - 1 = 16383
    BY Powers
  <2> DEFINE m == 2^14 - 1
  <2>2. m = 16383
    BY <2>1
  <2> HIDE DEF m
  <2>3. /\ NoSeq = -1
        /\ \A x \in 0..m : x \in -1..m
        /\ -1 \in -1..m
    <3>1. NoSeq = -1
      BY DEF NoSeq
    <3>2. \A x \in 0..m : x \in -1..m
      <4>1. m \in Int
        BY ONLY <2>2
      <4> QED
        BY ONLY <4>1
    <3>3. -1 \in -1..m
      BY ONLY <2>2
    <3> QED
      BY <3>1, <3>2, <3>3
  <2> QED
    BY <2>3 DEF m
<1>5. Seen(r).seq \in -1..(2^14 - 1)
  BY ONLY <1>1, <1>3, <1>4
<1> QED
  BY <1>1, <1>2, <1>3, <1>5 DEF r

-------------------------------------------------------------------------------
(* The flow of the packets and samples.                                      *)
SeqCounts == -1..(2^14 - 1)
Counters == [received : Nat, decoded : Nat, dropped : Nat, samples : Nat,
             checksumErrors : Nat, sequenceErrors : Nat]

(* A loop that has not started is as New made it; a loop that decodes has a  *)
(* packet of the wire in hand.                                               *)
LoopHolds(p) ==
  /\ poll[p].lastSeq \in SeqCounts /\ poll[p].n \in Nat
  /\ poll[p].pc = "decode" => poll[p].packet \in DOMAIN Wire
  /\ poll[p].pc = "none" => poll[p].lastSeq = NoSeq

FlowTypes ==
  /\ packetCh \in Seq(DOMAIN Wire) /\ Len(packetCh) <= ChannelSize /\ next \in Nat \ {0}
  /\ heard \in Seq(DOMAIN Wire) /\ stats \in Counters
  /\ sampleRing \in 0..RingSize /\ latestRing \in 0..LatestSize
  /\ sampleCount \in Nat /\ dropCount \in Nat /\ taken \in Nat
  /\ \A p \in 1..MaxStarts : LoopHolds(p)

(* A start that passed its test brings one goroutine of each kind.           *)
Starting(steps) == {c \in Callers : caller[c] \in steps}
StartsCounted ==
  /\ processors \in Nat /\ controllers \in Nat /\ starts <= MaxStarts
  /\ IsFiniteSet(Starting({"starting"})) /\ IsFiniteSet(Starting({"starting", "launching"}))
  /\ simulators + Cardinality(Starting({"starting"})) <= starts
  /\ processors + Cardinality(Starting({"starting", "launching"})) <= starts
  /\ controllers + Cardinality(Starting({"starting", "launching"})) <= starts

(* There is one pollLoop, and the sums are right whatever it has in hand.    *)
FirstLoop == \A p \in 1..MaxStarts : p # 1 => poll[p].pc = "none"
Holding(pc) == IF InHand(pc) = {} THEN 0 ELSE 1
Balanced ==
  /\ stats.received = stats.decoded + stats.dropped + Holding("decode")
  /\ stats.samples = sampleCount + dropCount + Pending("write") + Pending("count")
  /\ sampleCount + Pending("count") = sampleRing + taken
  /\ latestRing = Minimum(sampleCount, LatestSize)

(* Packets are heard in the order of the wire: those heard, then the one in  *)
(* hand, then those in the channel, then those to come.                      *)
Ascending(s) == \A i, j \in DOMAIN s : i < j => s[i] < s[j]
Below(s, n) == \A i \in DOMAIN s : s[i] < n
WireOrder ==
  /\ Ascending(heard) /\ Ascending(packetCh) /\ Below(heard, next) /\ Below(packetCh, next)
  /\ \A i \in DOMAIN heard, j \in DOMAIN packetCh : heard[i] < packetCh[j]
  /\ \A p \in 1..MaxStarts : poll[p].pc = "decode" =>
       /\ Below(heard, poll[p].packet) /\ poll[p].packet < next
       /\ \A j \in DOMAIN packetCh : poll[p].packet < packetCh[j]

(* The loop remembers the count of the last packet heard.                    *)
LastHeard == IF heard = <<>> THEN NoSeq ELSE Outcome[heard[Len(heard)]].seq
Remembered ==
  /\ \A i \in DOMAIN heard : Outcome[heard[i]].err = "none"
  /\ \A p \in 1..MaxStarts : poll[p].pc # "none" => poll[p].lastSeq = LastHeard
  /\ (\A p \in 1..MaxStarts : poll[p].pc = "none") => heard = <<>>

Gaps(s) == {i \in 2..Len(s) : s[i] # s[i - 1] + 1}
GapsSummed == LessThanATurn => stats.sequenceErrors = Cardinality(Gaps(heard))

OneFlow == FirstLoop /\ Balanced /\ WireOrder /\ Remembered /\ GapsSummed
FlowInv == FlowTypes /\ StartsCounted /\ (Once => OneFlow)

-------------------------------------------------------------------------------
\* What pollLoop sees of a packet of the wire.
LEMMA WireSeen ==
  ASSUME NEW i \in DOMAIN Wire
  PROVE  /\ Outcome[i].seq \in SeqCounts /\ Outcome[i].samples \in Nat
         /\ Outcome[i].err = "none" => Outcome[i].seq \in 0..(2^14 - 1)
<1>1. Wire[i] \in Seq(Byte)
  BY FlowAssumption
<1>2. Outcome[i] = Seen(Decode(Wire[i]))
  BY DEF Outcome
<1>3. Wire[i] \in Seq(Byte) =>
        /\ Seen(Decode(Wire[i])).seq \in -1..(2^14 - 1) /\ Seen(Decode(Wire[i])).samples \in Nat
        /\ Seen(Decode(Wire[i])).err = "none" => Seen(Decode(Wire[i])).seq \in 0..(2^14 - 1)
  BY SeenFits
<1> QED
  BY <1>1, <1>2, <1>3, Zenon DEF SeqCounts

\* A loop whose record is replaced by another of the right types.
LEMMA LoopsHold ==
  ASSUME LoopTypes, FlowTypes, NEW p \in 1..MaxStarts, NEW pc, NEW s \in SeqCounts, NEW k, NEW n \in Nat,
         pc # "none", pc = "decode" => k \in DOMAIN Wire,
         poll'[p] = [pc |-> pc, lastSeq |-> s, packet |-> k, n |-> n],
         \A q \in 1..MaxStarts : q # p => poll'[q] = poll[q]
  PROVE  \A q \in 1..MaxStarts : LoopHolds(q)'
<1> SUFFICES ASSUME NEW q \in 1..MaxStarts PROVE LoopHolds(q)'
  OBVIOUS
<1>1. CASE q = p
  BY <1>1 DEF LoopHolds
<1>2. CASE q # p
  <2>1. LoopHolds(q) /\ poll'[q] = poll[q]
    BY <1>2 DEF FlowTypes
  <2> QED
    BY ONLY <2>1 DEF LoopHolds
<1> QED
  BY <1>1, <1>2

\* What one loop has in hand.
LEMMA InOneHand ==
  ASSUME LoopTypes, FirstLoop, 1 \in 1..MaxStarts, NEW pc, pc # "none"
  PROVE  /\ InHand(pc) = IF poll[1].pc = pc THEN {1} ELSE {}
         /\ Holding(pc) = IF poll[1].pc = pc THEN 1 ELSE 0
         /\ Pending(pc) = IF poll[1].pc = pc THEN poll[1].n ELSE 0
<1>1. InHand(pc) = IF poll[1].pc = pc THEN {1} ELSE {}
  <2>1. \A p \in 1..MaxStarts : poll[p].pc = pc => p = 1
    BY DEF FirstLoop
  <2>2. DOMAIN poll = 1..MaxStarts
    BY DEF LoopTypes
  <2> QED
    BY <2>1, <2>2 DEF InHand
<1> QED
  BY <1>1 DEF Holding, Pending

\* The same after a step.
LEMMA InOneHandNext ==
  ASSUME LoopTypes', FirstLoop', 1 \in 1..MaxStarts, NEW pc, pc # "none"
  PROVE  /\ Holding(pc)' = IF poll'[1].pc = pc THEN 1 ELSE 0
         /\ Pending(pc)' = IF poll'[1].pc = pc THEN poll'[1].n ELSE 0
<1>1. InHand(pc)' = IF poll'[1].pc = pc THEN {1} ELSE {}
  <2>1. \A p \in 1..MaxStarts : poll'[p].pc = pc => p = 1
    BY DEF FirstLoop
  <2>2. DOMAIN poll' = 1..MaxStarts
    BY DEF LoopTypes
  <2> QED
    BY <2>1, <2>2 DEF InHand
<1> QED
  BY <1>1 DEF Holding, Pending

\* Steps that no packet and no sample moves in.
LEMMA NothingMoves ==
  ASSUME FlowTypes, UNCHANGED <<packetCh, next, heard, stats, sampleRing, latestRing>>,
         UNCHANGED <<sampleCount, dropCount, taken, poll>>
  PROVE  FlowTypes' /\ (OneFlow => OneFlow')
<1>1. FlowTypes'
  BY DEF FlowTypes, LoopHolds
<1>2. ASSUME OneFlow PROVE FirstLoop' /\ Balanced'
  BY <1>2 DEF OneFlow, FirstLoop, Balanced, Holding, Pending, InHand
<1>3. ASSUME OneFlow PROVE WireOrder' /\ Remembered' /\ GapsSummed'
  BY <1>3 DEF OneFlow, WireOrder, Remembered, LastHeard, GapsSummed, LessThanATurn,
              Gaps, Ascending, Below
<1> QED
  BY <1>1, <1>2, <1>3 DEF OneFlow

\* A loop starts with nothing in hand.
LEMMA LoopStarts ==
  ASSUME OnceInv, FlowTypes, NEW c \in Callers, StartCapture(c)
  PROVE  FlowTypes' /\ (OneFlow /\ Once' => OneFlow')
<1>1. /\ caller[c] = "starting"
      /\ UNCHANGED <<packetCh, next, heard, stats, sampleRing, latestRing>>
      /\ UNCHANGED <<sampleCount, dropCount, taken, starts, stops>>
  BY DEF StartCapture, samples
<1>2. LoopTypes /\ DOMAIN poll = 1..MaxStarts
  BY DEF OnceInv, LoopTypes
<1>3. PICK p \in 1..MaxStarts : /\ poll[p].pc = "none" /\ \A q \in 1..(p - 1) : poll[q].pc # "none"
                                /\ poll' = [poll EXCEPT ![p].pc = "test"]
  BY <1>2 DEF StartCapture
<1>4. /\ poll'[p] = [pc |-> "test", lastSeq |-> poll[p].lastSeq, packet |-> poll[p].packet, n |-> poll[p].n]
      /\ DOMAIN poll' = DOMAIN poll /\ \A q \in 1..MaxStarts : q # p => poll'[q] = poll[q]
  BY <1>2, <1>3 DEF LoopTypes
<1>5. LoopTypes'
  BY <1>2, <1>4, LoopReplaced DEF Places
<1>6. poll[p].lastSeq \in SeqCounts /\ poll[p].n \in Nat /\ poll[p].lastSeq = NoSeq
  BY <1>3 DEF FlowTypes, LoopHolds
<1>7. \A q \in 1..MaxStarts : LoopHolds(q)'
  BY <1>2, <1>4, <1>6, LoopsHold
<1>8. FlowTypes'
  BY <1>1, <1>7 DEF FlowTypes
<1>9. ASSUME OneFlow, Once' PROVE OneFlow'
  <2>1. \A q \in 1..MaxStarts : poll[q].pc = "none"
    BY <1>1, <1>9 DEF OnceInv, Once, InTurn, CallsInTurn, Untouched
  <2>2. p = 1
    <3>1. 1 \in 1..MaxStarts /\ p \in Int /\ 1 <= p
      BY FlowAssumption
    <3>2. ~(1 \in 1..(p - 1))
      BY <2>1, <1>3, <3>1
    <3> QED
      BY ONLY <3>1, <3>2
  <2>3. FirstLoop'
    BY <1>4, <2>1, <2>2 DEF FirstLoop
  <2>4. poll'[p].pc = "test"
    BY <1>4
  <2>5. \A pc \in {"decode", "write", "count"} :
          Holding(pc)' = Holding(pc) /\ Pending(pc)' = Pending(pc)
    <3> SUFFICES ASSUME NEW pc \in {"decode", "write", "count"}
                 PROVE  Holding(pc)' = Holding(pc) /\ Pending(pc)' = Pending(pc)
      OBVIOUS
    <3>1. InHand(pc) = {}
      BY <1>2, <2>1 DEF InHand
    <3>2. InHand(pc)' = {}
      BY <1>2, <1>4, <2>1 DEF InHand
    <3> QED
      BY <3>1, <3>2 DEF Holding, Pending
  <2>6. Balanced'
    BY <1>1, <1>9, <2>5 DEF OneFlow, Balanced
  <2>7. WireOrder'
    BY <1>1, <1>4, <1>9, <2>4 DEF OneFlow, WireOrder, Ascending, Below
  <2>8. heard = <<>>
    BY <1>9, <2>1 DEF OneFlow, Remembered
  <2>9. \A q \in 1..MaxStarts : poll'[q].pc # "none" => poll'[q].lastSeq = NoSeq
    BY <1>4, <1>6, <2>1
  <2>10. Remembered'
    BY <1>1, <2>2, <2>4, <2>8, <2>9, <1>9 DEF OneFlow, Remembered, LastHeard
  <2>11. GapsSummed'
    BY <1>1, <1>9 DEF OneFlow, GapsSummed, LessThanATurn, Gaps
  <2> QED
    BY <2>3, <2>6, <2>7, <2>10, <2>11 DEF OneFlow
<1> QED
  BY <1>8, <1>9

\* The callers, as far as packets and samples are concerned.
LEMMA CallFlows ==
  ASSUME OnceInv, FlowTypes, Once => OneFlow, NEW c \in Callers, Call(c)
  PROVE  FlowTypes' /\ (Once' => OneFlow')
<1>1. Once' => Once
  <2>1. starts \in Nat /\ stops \in Nat
    BY DEF OnceInv, Types
  <2>2. starts' \in {starts, starts + 1} /\ stops' \in {stops, stops + 1}
    BY DEF Call, StartTest, StartCapture, Launch, StopTest, StopFlag, StopCapture, CloseChannels
  <2> QED
    BY <2>1, <2>2 DEF Once
<1>2. CASE StartCapture(c)
  BY <1>1, <1>2, LoopStarts
<1>3. CASE ~StartCapture(c)
  <2>1. StartTest(c) \/ Launch(c) \/ StopTest(c) \/ StopFlag(c) \/ StopCapture(c) \/ CloseChannels(c)
    BY <1>3 DEF Call
  <2>2. UNCHANGED channel /\ UNCHANGED samples /\ UNCHANGED <<poll, stats, heard>>
    BY <2>1, Zenon DEF StartTest, Launch, StopTest, StopFlag, StopCapture, CloseChannels
  <2>3. /\ UNCHANGED <<packetCh, next, heard, stats, sampleRing, latestRing>>
        /\ UNCHANGED <<sampleCount, dropCount, taken, poll>>
    BY ONLY <2>2 DEF channel, samples
  <2> QED
    BY <1>1, <2>3, NothingMoves
<1> QED
  BY <1>2, <1>3

\* A packet reaches the source and finds room in the channel, or not.
LEMMA TrafficFlows ==
  ASSUME FlowTypes, Once => OneFlow, Traffic
  PROVE  FlowTypes' /\ (Once' => OneFlow')
<1>1. /\ next' = next + 1
      /\ packetCh' = IF Len(packetCh) < ChannelSize /\ ~packetChClosed
                       THEN Append(packetCh, next) ELSE packetCh
      /\ UNCHANGED <<heard, stats, sampleRing, latestRing, sampleCount, dropCount, taken>>
      /\ UNCHANGED <<poll, starts, stops>>
  BY DEF Traffic, samples, calls
<1>2. next \in DOMAIN Wire
  <2>1. Len(Wire) \in Nat /\ DOMAIN Wire = 1..Len(Wire) /\ RestartWire \in 0..Len(Wire)
    BY FlowAssumption
  <2>2. next \in Nat \ {0} /\ (next <= RestartWire \/ next <= Len(Wire))
    BY DEF Traffic, FlowTypes
  <2> QED
    BY ONLY <2>1, <2>2
<1>3. packetCh \in Seq(DOMAIN Wire) /\ Len(packetCh) <= ChannelSize /\ next \in Nat \ {0}
      /\ ChannelSize \in Nat
  BY FlowAssumption DEF FlowTypes
<1>4. \/ packetCh' = packetCh
      \/ Len(packetCh) < ChannelSize /\ packetCh' = Append(packetCh, next)
  BY ONLY <1>1
<1>5. packetCh' \in Seq(DOMAIN Wire) /\ Len(packetCh') <= ChannelSize /\ next' \in Nat \ {0}
  <2>1. next' = next + 1
    BY <1>1
  <2>2. CASE packetCh' = packetCh
    BY ONLY <1>3, <2>1, <2>2
  <2>3. CASE Len(packetCh) < ChannelSize /\ packetCh' = Append(packetCh, next)
    <3>1. Len(packetCh') = Len(packetCh) + 1 /\ packetCh' \in Seq(DOMAIN Wire)
      BY ONLY <1>2, <1>3, <2>3
    <3> QED
      BY ONLY <1>3, <2>1, <2>3, <3>1
  <2> QED
    BY ONLY <1>4, <2>2, <2>3
<1>6. FlowTypes'
  BY <1>1, <1>5 DEF FlowTypes, LoopHolds
<1>7. ASSUME Once' PROVE OneFlow'
  <2>1. OneFlow
    BY <1>1, <1>7 DEF Once
  <2>2. FirstLoop' /\ Balanced' /\ Remembered' /\ GapsSummed'
    BY <1>1, <2>1 DEF OneFlow, FirstLoop, Balanced, Holding, Pending, InHand,
       Remembered, LastHeard, GapsSummed, LessThanATurn, Gaps
  <2>3. \A j \in DOMAIN packetCh' : packetCh'[j] = next \/ (j \in DOMAIN packetCh /\ packetCh'[j] = packetCh[j])
    BY ONLY <1>3, <1>4
  <2>4. DOMAIN Wire \subseteq Int
    BY FlowAssumption
  <2>5. (\A j \in DOMAIN packetCh : packetCh[j] \in Int) /\ (\A j \in DOMAIN heard : heard[j] \in Int)
    BY <2>4 DEF FlowTypes
  <2>6. WireOrder
    BY <2>1 DEF OneFlow
  <2>7. Ascending(packetCh')
    <3>1. CASE packetCh' = packetCh
      BY <2>6, <3>1 DEF WireOrder
    <3>2. CASE packetCh' = Append(packetCh, next)
      <4>1. SUFFICES ASSUME NEW i \in 1..(Len(packetCh) + 1), NEW j \in 1..(Len(packetCh) + 1), i < j
                     PROVE  packetCh'[i] < packetCh'[j]
        BY <1>3, <3>2 DEF Ascending
      <4>2. i \in DOMAIN packetCh /\ packetCh'[i] = packetCh[i]
        BY <1>3, <3>2, <4>1
      <4>3. CASE j = Len(packetCh) + 1
        <5>1. packetCh'[j] = next
          BY <1>3, <3>2, <4>3
        <5> QED
          BY <2>6, <4>2, <5>1 DEF WireOrder, Below
      <4>4. CASE j # Len(packetCh) + 1
        <5>1. j \in DOMAIN packetCh /\ packetCh'[j] = packetCh[j]
          BY <1>3, <3>2, <4>4
        <5> QED
          BY <2>6, <4>1, <4>2, <5>1 DEF WireOrder, Ascending
      <4> QED
        BY <4>3, <4>4
    <3> QED
      BY <1>4, <3>1, <3>2
  <2>8. Below(heard, next') /\ Below(packetCh', next')
    <3>1. Below(heard, next) /\ Below(packetCh, next)
      BY <2>6 DEF WireOrder
    <3> QED
      BY ONLY <1>1, <1>3, <2>3, <2>5, <3>1 DEF Below
  <2>9. \A i \in DOMAIN heard, j \in DOMAIN packetCh' : heard[i] < packetCh'[j]
    BY <2>3, <2>6 DEF WireOrder, Below
  <2>10. \A p \in 1..MaxStarts : poll[p].pc = "decode" =>
           /\ Below(heard, poll[p].packet) /\ poll[p].packet < next'
           /\ \A j \in DOMAIN packetCh' : poll[p].packet < packetCh'[j]
    <3> SUFFICES ASSUME NEW p \in 1..MaxStarts, poll[p].pc = "decode"
                 PROVE  /\ Below(heard, poll[p].packet) /\ poll[p].packet < next'
                        /\ \A j \in DOMAIN packetCh' : poll[p].packet < packetCh'[j]
      OBVIOUS
    <3>1. poll[p].packet \in Int
      BY <2>4 DEF FlowTypes, LoopHolds
    <3>2. /\ Below(heard, poll[p].packet) /\ poll[p].packet < next
          /\ \A j \in DOMAIN packetCh : poll[p].packet < packetCh[j]
      BY <2>6 DEF WireOrder
    <3> QED
      BY ONLY <1>1, <1>3, <2>3, <3>1, <3>2
  <2>11. WireOrder'
    <3>1. Ascending(heard)
      BY <2>6 DEF WireOrder
    <3>2. UNCHANGED <<heard, poll>>
      BY <1>1
    <3> QED
      BY ONLY <2>7, <2>8, <2>9, <2>10, <3>1, <3>2 DEF WireOrder, Ascending, Below
  <2> QED
    BY <2>2, <2>11 DEF OneFlow
<1> QED
  BY <1>6, <1>7

\* processLoop takes a batch.
LEMMA ProcessFlows ==
  ASSUME FlowTypes, Once => OneFlow, Process
  PROVE  FlowTypes' /\ (Once' => OneFlow')
<1>1. /\ sampleRing' = sampleRing - Minimum(sampleRing, BatchSize)
      /\ taken' = taken + Minimum(sampleRing, BatchSize)
      /\ UNCHANGED <<packetCh, next, heard, stats, latestRing, sampleCount, dropCount>>
      /\ UNCHANGED <<poll, starts, stops>>
  BY DEF Process, channel, calls
<1>2. sampleRing \in Nat /\ sampleRing <= RingSize /\ taken \in Nat /\ BatchSize \in Nat /\ RingSize \in Nat
  BY FlowAssumption DEF FlowTypes
<1>3. sampleRing' \in 0..RingSize /\ taken' \in Nat /\ sampleRing' + taken' = sampleRing + taken
  BY ONLY <1>1, <1>2 DEF Minimum
<1>4. FlowTypes'
  BY <1>1, <1>3 DEF FlowTypes, LoopHolds
<1>5. ASSUME Once' PROVE OneFlow'
  <2>1. OneFlow
    BY <1>1, <1>5 DEF Once
  <2>2. Holding("decode")' = Holding("decode") /\ Pending("write")' = Pending("write")
        /\ Pending("count")' = Pending("count")
    BY <1>1 DEF Holding, Pending, InHand
  <2>3. Balanced'
    BY <1>1, <1>3, <2>1, <2>2 DEF OneFlow, Balanced
  <2>4. FirstLoop' /\ WireOrder' /\ Remembered' /\ GapsSummed'
    BY <1>1, <2>1 DEF OneFlow, FirstLoop, WireOrder, Ascending, Below, Remembered, LastHeard,
       GapsSummed, LessThanATurn, Gaps
  <2> QED
    BY <2>3, <2>4 DEF OneFlow
<1> QED
  BY <1>4, <1>5

\* A loop that takes nothing keeps the order.
LEMMA OrderKept ==
  ASSUME WireOrder, UNCHANGED <<heard, packetCh, next>>, NEW p \in 1..MaxStarts, poll'[p].pc # "decode",
         \A q \in 1..MaxStarts : q # p => poll'[q] = poll[q]
  PROVE  WireOrder'
<1>1. \A q \in 1..MaxStarts : poll'[q].pc = "decode" =>
         poll[q].pc = "decode" /\ poll'[q].packet = poll[q].packet
  OBVIOUS
<1> QED
  BY <1>1 DEF WireOrder, Ascending, Below

\* A loop that hears nothing remembers the same.
LEMMA RememberedKept ==
  ASSUME Remembered, UNCHANGED heard, NEW p \in 1..MaxStarts,
         poll[p].pc # "none", poll'[p].pc # "none", poll'[p].lastSeq = poll[p].lastSeq,
         \A q \in 1..MaxStarts : q # p => poll'[q] = poll[q]
  PROVE  Remembered'
<1>1. \A q \in 1..MaxStarts : poll'[q].pc # "none" =>
         poll[q].pc # "none" /\ poll'[q].lastSeq = poll[q].lastSeq
  OBVIOUS
<1>2. LastHeard' = LastHeard
  BY DEF LastHeard
<1> QED
  BY <1>1, <1>2 DEF Remembered

\* The loop looks at the flags, waits for a packet, or gives up.
LEMMA GotoFlows ==
  ASSUME LoopTypes, FlowTypes, NEW p \in 1..MaxStarts, NEW pc \in {"test", "select", "ended"},
         Goto(p, pc), poll[p].pc \in {"test", "select"},
         UNCHANGED <<packetCh, next, heard, stats, sampleRing, latestRing>>,
         UNCHANGED <<sampleCount, dropCount, taken>>
  PROVE  FlowTypes' /\ (OneFlow => OneFlow')
<1>1. /\ poll'[p] = [pc |-> pc, lastSeq |-> poll[p].lastSeq, packet |-> poll[p].packet, n |-> poll[p].n]
      /\ DOMAIN poll' = DOMAIN poll /\ \A q \in 1..MaxStarts : q # p => poll'[q] = poll[q]
  BY DEF LoopTypes, Goto
<1>2. poll'[p].pc = pc /\ pc \notin {"none", "decode", "write", "count"} /\ poll[p].pc # "none"
      /\ poll'[p].lastSeq = poll[p].lastSeq
  BY <1>1
<1>3. LoopHolds(p)
  BY DEF FlowTypes
<1>4. \A q \in 1..MaxStarts : LoopHolds(q)'
  BY <1>1, <1>2, <1>3, LoopsHold DEF LoopHolds
<1>5. FlowTypes'
  BY <1>4 DEF FlowTypes
<1>6. ASSUME OneFlow PROVE OneFlow'
  <2>1. InHand("decode")' = InHand("decode") /\ InHand("write")' = InHand("write")
        /\ InHand("count")' = InHand("count")
    BY <1>1, <1>2 DEF InHand, LoopTypes
  <2>2. poll'[1].n = poll[1].n \/ (InHand("write") = {} /\ InHand("count") = {})
    <3>1. CASE 1 \in 1..MaxStarts
      BY <1>1, <3>1
    <3>2. CASE 1 \notin 1..MaxStarts
      BY <3>2, FlowAssumption
    <3> QED
      BY <3>1, <3>2
  <2>3. Balanced'
    BY <1>6, <2>1, <2>2 DEF OneFlow, Balanced, Holding, Pending
  <2>4. FirstLoop'
    BY <1>1, <1>2, <1>6 DEF OneFlow, FirstLoop
  <2>5. WireOrder'
    BY <1>1, <1>2, <1>6, OrderKept DEF OneFlow
  <2>6. Remembered'
    BY <1>1, <1>2, <1>6, RememberedKept DEF OneFlow
  <2>7. GapsSummed'
    BY <1>6 DEF OneFlow, GapsSummed, LessThanATurn, Gaps
  <2> QED
    BY <2>3, <2>4, <2>5, <2>6, <2>7 DEF OneFlow
<1> QED
  BY <1>5, <1>6

\* The first packet of the channel is taken in hand.
LEMMA TakeFlows ==
  ASSUME LoopTypes, LoopTypes', FlowTypes, NEW p \in 1..MaxStarts, TakePacket(p)
  PROVE  FlowTypes' /\ (OneFlow => OneFlow')
<1> DEFINE k == Head(packetCh)
<1>1. /\ poll[p].pc = "select" /\ packetCh # <<>> /\ packetCh' = Tail(packetCh)
      /\ poll' = [poll EXCEPT ![p].pc = "decode", ![p].packet = k]
      /\ stats' = [stats EXCEPT !.received = @ + 1]
      /\ UNCHANGED <<next, heard, sampleRing, latestRing, sampleCount, dropCount, taken>>
  BY DEF TakePacket, samples
<1>2. packetCh \in Seq(DOMAIN Wire) /\ Len(packetCh) <= ChannelSize /\ ChannelSize \in Nat
  BY FlowAssumption DEF FlowTypes
<1>3. k = packetCh[1] /\ k \in DOMAIN Wire /\ 1 \in DOMAIN packetCh
  BY ONLY <1>1, <1>2
<1>4. packetCh' \in Seq(DOMAIN Wire) /\ Len(packetCh') = Len(packetCh) - 1
      /\ \A j \in DOMAIN packetCh' : j + 1 \in DOMAIN packetCh /\ packetCh'[j] = packetCh[j + 1]
  BY ONLY <1>1, <1>2
<1> HIDE DEF k
<1>5. stats \in Counters
  BY DEF FlowTypes
<1>6. /\ stats' \in Counters /\ stats'.received = stats.received + 1
      /\ stats'.decoded = stats.decoded /\ stats'.dropped = stats.dropped
      /\ stats'.samples = stats.samples /\ stats'.sequenceErrors = stats.sequenceErrors
  <2>1. stats = [received |-> stats.received, decoded |-> stats.decoded, dropped |-> stats.dropped,
                 samples |-> stats.samples, checksumErrors |-> stats.checksumErrors,
                 sequenceErrors |-> stats.sequenceErrors]
    BY ONLY <1>5 DEF Counters
  <2>2. stats' = [received |-> stats.received + 1, decoded |-> stats.decoded, dropped |-> stats.dropped,
                  samples |-> stats.samples, checksumErrors |-> stats.checksumErrors,
                  sequenceErrors |-> stats.sequenceErrors]
    BY ONLY <1>1, <2>1
  <2>3. /\ stats.received + 1 \in Nat /\ stats.decoded \in Nat /\ stats.dropped \in Nat
        /\ stats.samples \in Nat /\ stats.checksumErrors \in Nat /\ stats.sequenceErrors \in Nat
    BY ONLY <1>5 DEF Counters
  <2>4. stats' \in Counters
    BY ONLY <2>2, <2>3 DEF Counters
  <2> QED
    BY ONLY <2>2, <2>4
<1>7. poll[p] = [pc |-> poll[p].pc, lastSeq |-> poll[p].lastSeq, packet |-> poll[p].packet, n |-> poll[p].n]
      /\ DOMAIN poll = 1..MaxStarts
  BY DEF LoopTypes
<1>8. /\ poll'[p] = [pc |-> "decode", lastSeq |-> poll[p].lastSeq, packet |-> k, n |-> poll[p].n]
      /\ DOMAIN poll' = DOMAIN poll /\ \A q \in 1..MaxStarts : q # p => poll'[q] = poll[q]
  BY ONLY <1>1, <1>7, p \in 1..MaxStarts
<1>9. poll'[p].pc = "decode" /\ poll'[p].packet = k /\ poll'[p].n = poll[p].n
      /\ poll'[p].lastSeq = poll[p].lastSeq
  BY ONLY <1>8
<1>10. LoopHolds(p)
  BY DEF FlowTypes
<1>11. \A q \in 1..MaxStarts : LoopHolds(q)'
  BY <1>3, <1>8, <1>10, LoopsHold DEF LoopHolds
<1>12. Len(packetCh') <= ChannelSize
  BY ONLY <1>2, <1>4
<1>13. FlowTypes'
  BY <1>1, <1>4, <1>6, <1>11, <1>12 DEF FlowTypes
<1>14. ASSUME OneFlow PROVE OneFlow'
  <2>1. FirstLoop /\ p = 1
    BY <1>1, <1>14 DEF OneFlow, FirstLoop
  <2>2. FirstLoop'
    BY <1>8, <2>1 DEF FirstLoop
  <2>3. Balanced'
    <3>1. Holding("decode") = 0 /\ Pending("write") = 0 /\ Pending("count") = 0
      BY <1>1, <2>1, InOneHand
    <3>2. Holding("decode")' = 1 /\ Pending("write")' = 0 /\ Pending("count")' = 0
      BY <1>9, <2>1, <2>2, InOneHandNext
    <3>3. Balanced
      BY <1>14 DEF OneFlow
    <3> QED
      BY <1>1, <1>5, <1>6, <3>1, <3>2, <3>3 DEF Balanced, Counters
  <2>4. WireOrder'
    <3>1. WireOrder
      BY <1>14 DEF OneFlow
    <3>2. Ascending(packetCh')
      <4>1. \A j \in DOMAIN packetCh' : j \in Int
        BY <1>4
      <4>2. Ascending(packetCh)
        BY <3>1 DEF WireOrder
      <4> QED
        BY ONLY <1>4, <4>1, <4>2 DEF Ascending
    <3>3. \A j \in DOMAIN packetCh' : k < packetCh'[j]
      <4>1. \A j \in DOMAIN packetCh' : 1 < j + 1
        BY <1>4
      <4> QED
        BY <1>3, <1>4, <3>1, <4>1 DEF WireOrder, Ascending
    <3>4. Below(heard, k) /\ k < next /\ Below(packetCh', next)
      BY <1>3, <1>4, <3>1 DEF WireOrder, Below
    <3>5. \A i \in DOMAIN heard, j \in DOMAIN packetCh' : heard[i] < packetCh'[j]
      BY <1>4, <3>1 DEF WireOrder
    <3>6. Ascending(heard) /\ Below(heard, next)
      BY <3>1 DEF WireOrder
    <3>7. \A q \in 1..MaxStarts : poll'[q].pc = "decode" => poll'[q].packet = k
      BY <1>9, <2>1, <2>2 DEF FirstLoop
    <3>8. UNCHANGED <<heard, next>>
      BY <1>1
    <3> QED
      BY ONLY <3>2, <3>3, <3>4, <3>5, <3>6, <3>7, <3>8 DEF WireOrder, Ascending, Below
  <2>5. Remembered'
    BY <1>1, <1>8, <1>9, <1>14, RememberedKept DEF OneFlow
  <2>6. GapsSummed'
    BY <1>1, <1>6, <1>14 DEF OneFlow, GapsSummed, LessThanATurn, Gaps
  <2> QED
    BY <2>2, <2>3, <2>4, <2>5, <2>6 DEF OneFlow
<1> QED
  BY <1>13, <1>14

\* A packet that does not decode is dropped.
LEMMA DropFlows ==
  ASSUME LoopTypes, LoopTypes', FlowTypes, NEW p \in 1..MaxStarts, DropPacket(p)
  PROVE  FlowTypes' /\ (OneFlow => OneFlow')
<1> DEFINE err == Outcome[poll[p].packet].err
           one == IF err = "checksum" THEN 1 ELSE 0
<1>1. /\ poll[p].pc = "decode" /\ Goto(p, "test")
      /\ stats' = [stats EXCEPT !.dropped = @ + 1, !.checksumErrors = @ + one]
      /\ UNCHANGED <<packetCh, next, heard, sampleRing, latestRing, sampleCount, dropCount, taken>>
  BY DEF DropPacket, channel, samples
<1>2. one \in Nat
  OBVIOUS
<1> HIDE DEF one
<1>3. stats \in Counters
  BY DEF FlowTypes
<1>4. /\ stats' \in Counters /\ stats'.received = stats.received
      /\ stats'.decoded = stats.decoded /\ stats'.dropped = stats.dropped + 1
      /\ stats'.samples = stats.samples /\ stats'.sequenceErrors = stats.sequenceErrors
  <2>1. stats = [received |-> stats.received, decoded |-> stats.decoded, dropped |-> stats.dropped,
                 samples |-> stats.samples, checksumErrors |-> stats.checksumErrors,
                 sequenceErrors |-> stats.sequenceErrors]
    BY ONLY <1>3 DEF Counters
  <2>2. stats' = [received |-> stats.received, decoded |-> stats.decoded, dropped |-> stats.dropped + 1,
                  samples |-> stats.samples, checksumErrors |-> stats.checksumErrors + one,
                  sequenceErrors |-> stats.sequenceErrors]
    BY ONLY <1>1, <2>1
  <2>3. /\ stats.received \in Nat /\ stats.decoded \in Nat /\ stats.dropped + 1 \in Nat
        /\ stats.samples \in Nat /\ stats.checksumErrors + one \in Nat /\ stats.sequenceErrors \in Nat
    BY ONLY <1>2, <1>3 DEF Counters
  <2>4. stats' \in Counters
    BY ONLY <2>2, <2>3 DEF Counters
  <2> QED
    BY ONLY <2>2, <2>4
<1>5. /\ poll'[p] = [pc |-> "test", lastSeq |-> poll[p].lastSeq, packet |-> poll[p].packet, n |-> poll[p].n]
      /\ DOMAIN poll' = DOMAIN poll /\ \A q \in 1..MaxStarts : q # p => poll'[q] = poll[q]
  BY <1>1 DEF LoopTypes, Goto
<1>6. poll'[p].pc = "test" /\ poll'[p].lastSeq = poll[p].lastSeq
  BY ONLY <1>5
<1>7. LoopHolds(p)
  BY DEF FlowTypes
<1>8. \A q \in 1..MaxStarts : LoopHolds(q)'
  BY <1>5, <1>7, LoopsHold DEF LoopHolds
<1>9. FlowTypes'
  BY <1>1, <1>4, <1>8 DEF FlowTypes
<1>10. ASSUME OneFlow PROVE OneFlow'
  <2>1. FirstLoop /\ p = 1
    BY <1>1, <1>10 DEF OneFlow, FirstLoop
  <2>2. FirstLoop'
    BY <1>5, <2>1 DEF FirstLoop
  <2>3. Balanced'
    <3>1. Holding("decode") = 1 /\ Pending("write") = 0 /\ Pending("count") = 0
      BY <1>1, <2>1, InOneHand
    <3>2. Holding("decode")' = 0 /\ Pending("write")' = 0 /\ Pending("count")' = 0
      BY <1>6, <2>1, <2>2, InOneHandNext
    <3>3. Balanced
      BY <1>10 DEF OneFlow
    <3> QED
      BY <1>1, <1>3, <1>4, <3>1, <3>2, <3>3 DEF Balanced, Counters
  <2>4. WireOrder'
    BY <1>1, <1>5, <1>6, <1>10, OrderKept DEF OneFlow
  <2>5. Remembered'
    BY <1>1, <1>5, <1>6, <1>10, RememberedKept DEF OneFlow
  <2>6. GapsSummed'
    BY <1>1, <1>4, <1>10 DEF OneFlow, GapsSummed, LessThanATurn, Gaps
  <2> QED
    BY <2>2, <2>3, <2>4, <2>5, <2>6 DEF OneFlow
<1> QED
  BY <1>9, <1>10

\* What fits of a batch is written.
LEMMA WriteFlows ==
  ASSUME LoopTypes, LoopTypes', FlowTypes, NEW p \in 1..MaxStarts, WriteBatch(p)
  PROVE  FlowTypes' /\ (OneFlow => OneFlow')
<1> DEFINE fits == Fitting(poll[p].n)
<1>1. /\ poll[p].pc = "write" /\ poll' = [poll EXCEPT ![p].pc = "count", ![p].n = fits]
      /\ sampleRing' = sampleRing + fits /\ dropCount' = dropCount + (poll[p].n - fits)
      /\ UNCHANGED <<packetCh, next, heard, stats, latestRing, sampleCount, taken>>
  BY DEF WriteBatch, channel
<1>2. LoopHolds(p) /\ sampleRing \in Nat /\ sampleRing <= RingSize /\ RingSize \in Nat /\ dropCount \in Nat
  BY FlowAssumption DEF FlowTypes
<1>3. poll[p].n \in Nat
  BY <1>2 DEF LoopHolds
<1>4. fits \in Nat /\ fits <= poll[p].n /\ sampleRing + fits <= RingSize
  BY ONLY <1>2, <1>3 DEF Fitting, Minimum
<1> HIDE DEF fits
<1>5. sampleRing' \in 0..RingSize /\ dropCount' \in Nat
  BY ONLY <1>1, <1>2, <1>3, <1>4
<1>6. poll[p] = [pc |-> poll[p].pc, lastSeq |-> poll[p].lastSeq, packet |-> poll[p].packet, n |-> poll[p].n]
      /\ DOMAIN poll = 1..MaxStarts
  BY DEF LoopTypes
<1>7. /\ poll'[p] = [pc |-> "count", lastSeq |-> poll[p].lastSeq, packet |-> poll[p].packet, n |-> fits]
      /\ DOMAIN poll' = DOMAIN poll /\ \A q \in 1..MaxStarts : q # p => poll'[q] = poll[q]
  BY ONLY <1>1, <1>6, p \in 1..MaxStarts
<1>8. poll'[p].pc = "count" /\ poll'[p].lastSeq = poll[p].lastSeq /\ poll'[p].n = fits
  BY ONLY <1>7
<1>9. \A q \in 1..MaxStarts : LoopHolds(q)'
  BY <1>2, <1>4, <1>7, LoopsHold DEF LoopHolds
<1>10. FlowTypes'
  BY <1>1, <1>5, <1>9 DEF FlowTypes
<1>11. ASSUME OneFlow PROVE OneFlow'
  <2>1. FirstLoop /\ p = 1
    BY <1>1, <1>11 DEF OneFlow, FirstLoop
  <2>2. FirstLoop'
    BY <1>7, <2>1 DEF FirstLoop
  <2>3. Balanced'
    <3>1. Holding("decode") = 0 /\ Pending("write") = poll[p].n /\ Pending("count") = 0
      BY <1>1, <2>1, InOneHand
    <3>2. Holding("decode")' = 0 /\ Pending("write")' = 0 /\ Pending("count")' = fits
      BY <1>8, <2>1, <2>2, InOneHandNext
    <3>3. Balanced /\ stats.samples \in Nat /\ sampleCount \in Nat /\ taken \in Nat
      BY <1>11 DEF OneFlow, FlowTypes, Counters
    <3>4. stats.samples = sampleCount + dropCount' + 0 + fits /\ sampleCount + fits = sampleRing' + taken
      BY ONLY <1>1, <1>2, <1>3, <1>4, <3>1, <3>3 DEF Balanced
    <3> QED
      BY <1>1, <3>1, <3>2, <3>3, <3>4 DEF Balanced
  <2>4. WireOrder'
    BY <1>1, <1>7, <1>8, <1>11, OrderKept DEF OneFlow
  <2>5. Remembered'
    BY <1>1, <1>7, <1>8, <1>11, RememberedKept DEF OneFlow
  <2>6. GapsSummed'
    BY <1>1, <1>11 DEF OneFlow, GapsSummed, LessThanATurn, Gaps
  <2> QED
    BY <2>2, <2>3, <2>4, <2>5, <2>6 DEF OneFlow
<1> QED
  BY <1>10, <1>11

\* What was written is counted.
LEMMA CountFlows ==
  ASSUME LoopTypes, LoopTypes', FlowTypes, NEW p \in 1..MaxStarts, CountSamples(p)
  PROVE  FlowTypes' /\ (OneFlow => OneFlow')
<1>1. /\ poll[p].pc = "count" /\ Goto(p, "test")
      /\ latestRing' = Minimum(latestRing + poll[p].n, LatestSize)
      /\ sampleCount' = sampleCount + poll[p].n
      /\ UNCHANGED <<packetCh, next, heard, stats, sampleRing, dropCount, taken>>
  BY DEF CountSamples, channel
<1>2. LoopHolds(p) /\ latestRing \in Nat /\ LatestSize \in Nat /\ sampleCount \in Nat
  BY FlowAssumption DEF FlowTypes
<1>3. poll[p].n \in Nat
  BY <1>2 DEF LoopHolds
<1>4. latestRing' \in 0..LatestSize /\ sampleCount' \in Nat
  BY ONLY <1>1, <1>2, <1>3 DEF Minimum
<1>5. /\ poll'[p] = [pc |-> "test", lastSeq |-> poll[p].lastSeq, packet |-> poll[p].packet, n |-> poll[p].n]
      /\ DOMAIN poll' = DOMAIN poll /\ \A q \in 1..MaxStarts : q # p => poll'[q] = poll[q]
  BY <1>1 DEF LoopTypes, Goto
<1>6. poll'[p].pc = "test" /\ poll'[p].lastSeq = poll[p].lastSeq
  BY ONLY <1>5
<1>7. \A q \in 1..MaxStarts : LoopHolds(q)'
  BY <1>2, <1>5, LoopsHold DEF LoopHolds
<1>8. FlowTypes'
  BY <1>1, <1>4, <1>7 DEF FlowTypes
<1>9. ASSUME OneFlow PROVE OneFlow'
  <2>1. FirstLoop /\ p = 1
    BY <1>1, <1>9 DEF OneFlow, FirstLoop
  <2>2. FirstLoop'
    BY <1>5, <2>1 DEF FirstLoop
  <2>3. Balanced'
    <3>1. Holding("decode") = 0 /\ Pending("write") = 0 /\ Pending("count") = poll[p].n
      BY <1>1, <2>1, InOneHand
    <3>2. Holding("decode")' = 0 /\ Pending("write")' = 0 /\ Pending("count")' = 0
      BY <1>6, <2>1, <2>2, InOneHandNext
    <3>3. Balanced /\ stats.samples \in Nat /\ dropCount \in Nat /\ taken \in Nat /\ sampleRing \in Nat
      BY <1>9 DEF OneFlow, FlowTypes, Counters
    <3>4. stats.samples = sampleCount' + dropCount + 0 + 0 /\ sampleCount' + 0 = sampleRing + taken
      BY ONLY <1>1, <1>2, <1>3, <3>1, <3>3 DEF Balanced
    <3>5. latestRing' = Minimum(sampleCount', LatestSize)
      BY ONLY <1>1, <1>2, <1>3, <3>3 DEF Balanced, Minimum
    <3> QED
      BY <1>1, <3>1, <3>2, <3>3, <3>4, <3>5 DEF Balanced
  <2>4. WireOrder'
    BY <1>1, <1>5, <1>6, <1>9, OrderKept DEF OneFlow
  <2>5. Remembered'
    BY <1>1, <1>5, <1>6, <1>9, RememberedKept DEF OneFlow
  <2>6. GapsSummed'
    BY <1>1, <1>9 DEF OneFlow, GapsSummed, LessThanATurn, Gaps
  <2> QED
    BY <2>2, <2>3, <2>4, <2>5, <2>6 DEF OneFlow
<1> QED
  BY <1>8, <1>9

\* Two counts of 14 bits less than a turn apart follow each other if and only if
\* what they count does.
LEMMA NextInTurnOf ==
  ASSUME NEW turn, turn = 16384, NEW a \in Int, NEW d \in Int, a >= 0, a < turn, d >= 1, d <= turn
  PROVE  (a + d) % turn = (a + 1) % turn <=> d = 1
OBVIOUS

\* The same for the power of two of the code.
LEMMA NextInTurn ==
  ASSUME NEW a \in 0..(2^14 - 1), NEW d \in 1..2^14
  PROVE  (a + d) % 2^14 = (a + 1) % 2^14 <=> d = 1
<1> DEFINE turn == 2^14
<1>1. turn = 16384 /\ a \in Int /\ d \in Int /\ a >= 0 /\ a < turn /\ d >= 1 /\ d <= turn
  BY Powers
<1> HIDE DEF turn
<1>2. (a + d) % turn = (a + 1) % turn <=> d = 1
  BY ONLY <1>1, NextInTurnOf
<1> QED
  BY <1>2 DEF turn

\* One packet more is one gap more, or none, as pollLoop counts it.
LEMMA OneGapMore ==
  ASSUME heard \in Seq(DOMAIN Wire), NEW k \in DOMAIN Wire, Below(heard, k),
         \A i \in DOMAIN heard : Outcome[heard[i]].err = "none", Outcome[k].err = "none",
         heard # <<>> => k <= heard[Len(heard)] + 2^14
  PROVE  Cardinality(Gaps(Append(heard, k)))
           = Cardinality(Gaps(heard)) + IF OutOfSequence(LastHeard, Outcome[k].seq) THEN 1 ELSE 0
<1> DEFINE n == Len(heard)
           more == Append(heard, k)
<1>1. n \in Nat /\ DOMAIN heard = 1..n /\ Len(more) = n + 1 /\ more[n + 1] = k
      /\ \A i \in 1..n : more[i] = heard[i]
  OBVIOUS
<1>2. DOMAIN Wire \subseteq Nat
  BY FlowAssumption
<1> HIDE DEF more, n
<1>3. IsFiniteSet(Gaps(heard)) /\ n + 1 \notin Gaps(heard) /\ Cardinality(Gaps(heard)) \in Nat
  <2>1. Gaps(heard) \subseteq 2..n /\ IsFiniteSet(2..n)
    BY <1>1, FS_Interval DEF Gaps, n
  <2>2. n + 1 \notin 2..n
    BY <1>1
  <2>3. IsFiniteSet(Gaps(heard))
    BY ONLY <2>1, FS_Subset
  <2> QED
    BY <2>1, <2>2, <2>3, FS_CardinalityType
<1>4. CASE heard = <<>>
  <2>1. n = 0
    BY <1>4 DEF n
  <2>2. Gaps(heard) = {} /\ Gaps(more) = {}
    BY <1>1, <2>1 DEF Gaps, n
  <2>3. ~OutOfSequence(LastHeard, Outcome[k].seq)
    BY <1>4 DEF OutOfSequence, LastHeard
  <2>4. Cardinality({}) = 0
    BY FS_EmptySet
  <2> QED
    BY <2>2, <2>3, <2>4 DEF more
<1>5. CASE heard # <<>>
  <2> DEFINE last == heard[n]
             seq == Outcome[last].seq
  <2>1. n \in 1..n /\ n >= 1
    BY <1>1, <1>5
  <2>2. last \in DOMAIN Wire /\ last \in Nat /\ k \in Nat /\ last < k /\ k <= last + 2^14
    BY <1>1, <1>2, <1>5, <2>1 DEF Below, n
  <2>3. Outcome[last].err = "none"
    BY <1>1, <2>1
  <2>4. seq \in 0..(2^14 - 1)
    BY <2>2, <2>3, WireSeen
  <2>5. Outcome[k].seq = (seq + (k - last)) % 2^14
    BY <2>2, <2>3, NumberingAssumption
  <2> HIDE DEF last, seq
  <2>6. k - last \in 1..2^14
    <3> DEFINE turn == 2^14
    <3>1. turn \in Int /\ k <= last + turn
      BY <2>2, Powers
    <3> HIDE DEF turn
    <3>2. k - last \in 1..turn
      BY ONLY <2>2, <3>1
    <3> QED
      BY <3>2 DEF turn
  <2>7. Outcome[k].seq = (seq + 1) % 2^14 <=> k - last = 1
    BY ONLY <2>4, <2>5, <2>6, NextInTurn
  <2>8. LastHeard = seq /\ seq # NoSeq
    <3>1. LastHeard = seq
      BY <1>5 DEF LastHeard, last, seq, n
    <3>2. seq # -1
      BY <2>4
    <3> QED
      BY <3>1, <3>2 DEF NoSeq
  <2>9. OutOfSequence(LastHeard, Outcome[k].seq) <=> k # last + 1
    <3>1. k - last = 1 <=> k = last + 1
      BY ONLY <2>2
    <3> QED
      BY ONLY <2>7, <2>8, <3>1 DEF OutOfSequence, ExpectedSeq
  <2>10. Gaps(more) = Gaps(heard) \cup (IF k # last + 1 THEN {n + 1} ELSE {})
    <3>1. \A i \in 2..n : more[i] = heard[i] /\ more[i - 1] = heard[i - 1]
      BY <1>1
    <3>2. more[n + 1] = k /\ more[(n + 1) - 1] = last
      BY <1>1, <2>1 DEF last
    <3>3. 2..(n + 1) = (2..n) \cup {n + 1}
      BY <1>1, <2>1
    <3>4. Gaps(more) = {i \in 2..(n + 1) : more[i] # more[i - 1] + 1}
      BY <1>1 DEF Gaps
    <3>5. Gaps(heard) = {i \in 2..n : heard[i] # heard[i - 1] + 1}
      BY DEF Gaps, n
    <3> QED
      BY ONLY <3>1, <3>2, <3>3, <3>4, <3>5
  <2>11. CASE k # last + 1
    <3>1. Gaps(more) = Gaps(heard) \cup {n + 1}
      BY <2>10, <2>11
    <3>2. Cardinality(Gaps(more)) = Cardinality(Gaps(heard)) + 1
      BY <1>3, <3>1, FS_AddElement
    <3> QED
      BY <2>9, <2>11, <3>2 DEF more
  <2>12. CASE k = last + 1
    <3>1. Gaps(more) = Gaps(heard)
      BY <2>10, <2>12
    <3> QED
      BY <1>3, <2>9, <2>12, <3>1 DEF more
  <2> QED
    BY <2>11, <2>12
<1> QED
  BY <1>4, <1>5

\* A packet is decoded: it is heard, and its samples are in hand.
LEMMA DecodeFlows ==
  ASSUME LoopTypes, LoopTypes', FlowTypes, NEW p \in 1..MaxStarts, DecodePacket(p)
  PROVE  FlowTypes' /\ (OneFlow => OneFlow')
<1> DEFINE k == poll[p].packet
           got == Outcome[k]
           out == OutOfSequence(poll[p].lastSeq, got.seq)
           one == IF out THEN 1 ELSE 0
           then == IF got.samples > 0 THEN "write" ELSE "test"
<1>1. /\ poll[p].pc = "decode" /\ got.err = "none" /\ heard' = Append(heard, k)
      /\ stats' = [stats EXCEPT !.decoded = @ + 1, !.samples = @ + got.samples,
                                !.sequenceErrors = @ + one]
      /\ poll' = [poll EXCEPT ![p].lastSeq = got.seq, ![p].n = got.samples, ![p].pc = then]
      /\ UNCHANGED <<packetCh, next, sampleRing, latestRing, sampleCount, dropCount, taken>>
  BY DEF DecodePacket, channel, samples
<1>2. one \in Nat
  OBVIOUS
<1>3. then \in {"write", "test"} /\ (then = "write" <=> got.samples > 0)
  OBVIOUS
<1>4. LoopHolds(p) /\ k \in DOMAIN Wire
  BY <1>1 DEF FlowTypes, LoopHolds
<1> HIDE DEF one, then, k
<1>5. got.seq \in SeqCounts /\ got.samples \in Nat
  BY <1>4, WireSeen
<1> HIDE DEF got, out
<1>6. stats \in Counters
  BY DEF FlowTypes
<1>7. /\ stats' \in Counters /\ stats'.received = stats.received
      /\ stats'.decoded = stats.decoded + 1 /\ stats'.dropped = stats.dropped
      /\ stats'.samples = stats.samples + got.samples
      /\ stats'.sequenceErrors = stats.sequenceErrors + one
  <2>1. stats = [received |-> stats.received, decoded |-> stats.decoded, dropped |-> stats.dropped,
                 samples |-> stats.samples, checksumErrors |-> stats.checksumErrors,
                 sequenceErrors |-> stats.sequenceErrors]
    BY ONLY <1>6 DEF Counters
  <2>2. stats' = [received |-> stats.received, decoded |-> stats.decoded + 1, dropped |-> stats.dropped,
                  samples |-> stats.samples + got.samples, checksumErrors |-> stats.checksumErrors,
                  sequenceErrors |-> stats.sequenceErrors + one]
    BY ONLY <1>1, <2>1
  <2>3. /\ stats.received \in Nat /\ stats.decoded + 1 \in Nat /\ stats.dropped \in Nat
        /\ stats.samples + got.samples \in Nat /\ stats.checksumErrors \in Nat
        /\ stats.sequenceErrors + one \in Nat
    BY ONLY <1>2, <1>5, <1>6 DEF Counters
  <2>4. stats' \in Counters
    BY ONLY <2>2, <2>3 DEF Counters
  <2> QED
    BY ONLY <2>2, <2>4
<1>8. poll[p] = [pc |-> poll[p].pc, lastSeq |-> poll[p].lastSeq, packet |-> poll[p].packet, n |-> poll[p].n]
      /\ DOMAIN poll = 1..MaxStarts
  BY DEF LoopTypes
<1>9. /\ poll'[p] = [pc |-> then, lastSeq |-> got.seq, packet |-> poll[p].packet, n |-> got.samples]
      /\ DOMAIN poll' = DOMAIN poll /\ \A q \in 1..MaxStarts : q # p => poll'[q] = poll[q]
  BY ONLY <1>1, <1>8, p \in 1..MaxStarts
<1>10. poll'[p].pc = then /\ poll'[p].lastSeq = got.seq /\ poll'[p].n = got.samples
  BY ONLY <1>9
<1>11. \A q \in 1..MaxStarts : LoopHolds(q)'
  BY <1>3, <1>5, <1>9, LoopsHold
<1>12. heard \in Seq(DOMAIN Wire) /\ heard' \in Seq(DOMAIN Wire)
  BY <1>1, <1>4 DEF FlowTypes
<1>13. FlowTypes'
  BY <1>1, <1>7, <1>11, <1>12 DEF FlowTypes
<1>14. ASSUME OneFlow PROVE OneFlow'
  <2>1. FirstLoop /\ p = 1
    BY <1>1, <1>14 DEF OneFlow, FirstLoop
  <2>2. FirstLoop'
    BY <1>9, <2>1 DEF FirstLoop
  <2>3. Balanced'
    <3>1. Holding("decode") = 1 /\ Pending("write") = 0 /\ Pending("count") = 0
      BY <1>1, <2>1, InOneHand
    <3>2. Holding("decode")' = 0 /\ Pending("count")' = 0
      BY <1>3, <1>10, <2>1, <2>2, InOneHandNext
    <3>3. Pending("write")' = IF then = "write" THEN got.samples ELSE 0
      BY <1>10, <2>1, <2>2, InOneHandNext
    <3>4. Pending("write")' = got.samples
      BY ONLY <1>3, <1>5, <3>3
    <3>5. Balanced /\ sampleCount \in Nat /\ dropCount \in Nat
      BY <1>14 DEF OneFlow, FlowTypes
    <3>6. stats.decoded \in Nat /\ stats.dropped \in Nat /\ stats.samples \in Nat
      BY <1>6 DEF Counters
    <3>7. stats'.received = stats'.decoded + stats'.dropped + 0
      BY ONLY <1>7, <3>1, <3>5, <3>6 DEF Balanced
    <3>8. stats'.samples = sampleCount + dropCount + got.samples + 0
      BY ONLY <1>5, <1>7, <3>1, <3>5, <3>6 DEF Balanced
    <3> QED
      BY <1>1, <3>1, <3>2, <3>4, <3>5, <3>7, <3>8 DEF Balanced
  <2>4. WireOrder /\ Below(heard, k) /\ k < next /\ \A j \in DOMAIN packetCh : k < packetCh[j]
    BY <1>1, <1>14 DEF OneFlow, WireOrder, k
  <2>5. \A i \in DOMAIN heard' : i \in Int /\ (heard'[i] = k \/ (i \in DOMAIN heard /\ heard'[i] = heard[i]))
    BY ONLY <1>1, <1>12
  <2>6. Ascending(heard')
    <3>1. SUFFICES ASSUME NEW i \in 1..(Len(heard) + 1), NEW j \in 1..(Len(heard) + 1), i < j
                   PROVE  heard'[i] < heard'[j]
      BY <1>1, <1>12 DEF Ascending
    <3>2. i \in DOMAIN heard /\ heard'[i] = heard[i]
      BY <1>1, <1>12, <3>1
    <3>3. CASE j = Len(heard) + 1
      <4>1. heard'[j] = k
        BY <1>1, <1>12, <3>3
      <4> QED
        BY <2>4, <3>2, <4>1 DEF Below
    <3>4. CASE j # Len(heard) + 1
      <4>1. j \in DOMAIN heard /\ heard'[j] = heard[j]
        BY <1>1, <1>12, <3>4
      <4> QED
        BY <2>4, <3>1, <3>2, <4>1 DEF WireOrder, Ascending
    <3> QED
      BY <3>3, <3>4
  <2>7. WireOrder'
    <3>1. \A q \in 1..MaxStarts : poll'[q].pc # "decode"
      BY <1>3, <1>10, <2>1, <2>2 DEF FirstLoop
    <3>2. Ascending(packetCh) /\ Below(packetCh, next) /\ Below(heard, next)
          /\ \A i \in DOMAIN heard, j \in DOMAIN packetCh : heard[i] < packetCh[j]
      BY <2>4 DEF WireOrder
    <3>3. UNCHANGED <<packetCh, next>>
      BY <1>1
    <3> QED
      BY ONLY <2>4, <2>5, <2>6, <3>1, <3>2, <3>3 DEF WireOrder, Ascending, Below
  <2>8. Remembered'
    <3>1. Remembered
      BY <1>14 DEF OneFlow
    <3>2. LastHeard' = got.seq
      <4>1. heard' # <<>> /\ heard'[Len(heard')] = k
        BY ONLY <1>1, <1>12
      <4> QED
        BY <4>1 DEF LastHeard, got
    <3>3. \A i \in DOMAIN heard' : Outcome[heard'[i]].err = "none"
      BY <1>1, <2>5, <3>1 DEF Remembered, got
    <3>4. \A q \in 1..MaxStarts : poll'[q].pc # "none" => poll'[q].lastSeq = LastHeard'
      BY <1>10, <2>1, <2>2, <3>2 DEF FirstLoop
    <3>5. poll'[p].pc # "none"
      BY <1>3, <1>10
    <3> QED
      BY <3>3, <3>4, <3>5 DEF Remembered
  <2>9. GapsSummed'
    <3> SUFFICES ASSUME LessThanATurn' PROVE stats'.sequenceErrors = Cardinality(Gaps(heard'))
      BY DEF GapsSummed
    <3>1. Len(heard) \in Nat /\ Len(heard') = Len(heard) + 1 /\ heard'[Len(heard) + 1] = k
          /\ \A i \in 1..Len(heard) : heard'[i] = heard[i]
      BY ONLY <1>1, <1>12
    <3>2. \A i \in 2..(Len(heard) + 1) : heard'[i] <= heard'[i - 1] + 2^14
      BY <3>1 DEF LessThanATurn
    <3>3. LessThanATurn
      <4>1. \A i \in 2..Len(heard) : /\ i \in 2..(Len(heard) + 1) /\ heard'[i] = heard[i]
                                     /\ heard'[i - 1] = heard[i - 1]
        BY <3>1
      <4> QED
        BY <3>2, <4>1, Zenon DEF LessThanATurn
    <3>4. heard # <<>> => k <= heard[Len(heard)] + 2^14
      <4> SUFFICES ASSUME heard # <<>> PROVE k <= heard[Len(heard)] + 2^14
        OBVIOUS
      <4>1. Len(heard) + 1 \in 2..(Len(heard) + 1) /\ (Len(heard) + 1) - 1 = Len(heard)
            /\ heard'[Len(heard)] = heard[Len(heard)]
        BY <1>12, <3>1
      <4> QED
        BY <3>1, <3>2, <4>1
    <3>5. stats.sequenceErrors = Cardinality(Gaps(heard))
      BY <1>14, <3>3 DEF OneFlow, GapsSummed
    <3>6. poll[p].lastSeq = LastHeard /\ \A i \in DOMAIN heard : Outcome[heard[i]].err = "none"
      BY <1>1, <1>14 DEF OneFlow, Remembered
    <3>7. Cardinality(Gaps(heard')) = Cardinality(Gaps(heard)) + one
      BY <1>1, <1>4, <1>12, <2>4, <3>4, <3>6, OneGapMore DEF one, out, got
    <3> QED
      BY <1>7, <3>5, <3>7
  <2> QED
    BY <2>2, <2>3, <2>7, <2>8, <2>9 DEF OneFlow
<1> QED
  BY <1>13, <1>14

\* What one pollLoop does keeps the flow in balance.
LEMMA PollFlows ==
  ASSUME LoopTypes, LoopTypes', FlowTypes, Once => OneFlow, NEW p \in 1..MaxStarts, Poll(p)
  PROVE  FlowTypes' /\ (Once' => OneFlow')
<1>1. Once' => Once
  <2>1. UNCHANGED calls
    BY Zenon DEF Poll, ReadPacket, Timeout, ChannelClosed, TakePacket, DropPacket,
       DecodePacket, WriteBatch, CountSamples
  <2> QED
    BY ONLY <2>1 DEF calls, Once
<1>2. CASE ReadPacket(p) \/ Timeout(p) \/ ChannelClosed(p)
  <2>1. UNCHANGED <<channel, samples, stats, heard>> /\ poll[p].pc \in {"test", "select"}
    BY <1>2 DEF ReadPacket, Timeout, ChannelClosed
  <2>2. /\ UNCHANGED <<packetCh, next, heard, stats, sampleRing, latestRing>>
        /\ UNCHANGED <<sampleCount, dropCount, taken>>
    BY ONLY <2>1 DEF channel, samples
  <2>3. \E pc \in {"test", "select", "ended"} : Goto(p, pc)
    BY <1>2 DEF ReadPacket, Timeout, ChannelClosed
  <2> QED
    BY <1>1, <2>1, <2>2, <2>3, GotoFlows
<1>3. CASE TakePacket(p)
  BY <1>1, <1>3, TakeFlows
<1>4. CASE DropPacket(p)
  BY <1>1, <1>4, DropFlows
<1>5. CASE DecodePacket(p)
  BY <1>1, <1>5, DecodeFlows
<1>6. CASE WriteBatch(p)
  BY <1>1, <1>6, WriteFlows
<1>7. CASE CountSamples(p)
  BY <1>1, <1>7, CountFlows
<1> QED
  BY <1>2, <1>3, <1>4, <1>5, <1>6, <1>7 DEF Poll

\* The goroutines, as far as packets and samples are concerned.
LEMMA GoroutineFlows ==
  ASSUME LoopTypes, LoopTypes', FlowTypes, Once => OneFlow, Goroutine
  PROVE  FlowTypes' /\ (Once' => OneFlow')
<1>1. CASE Traffic
  BY <1>1, TrafficFlows
<1>2. CASE Process
  BY <1>2, ProcessFlows
<1>3. CASE TrafficEnds \/ ProcessEnds \/ AttitudeEnds
  <2>1. UNCHANGED <<packetCh, next, samples, calls, poll, stats, heard>>
    BY <1>3 DEF TrafficEnds, ProcessEnds, AttitudeEnds, channel
  <2>2. /\ UNCHANGED <<packetCh, next, heard, stats, sampleRing, latestRing>>
        /\ UNCHANGED <<sampleCount, dropCount, taken, poll, starts, stops>>
    BY ONLY <2>1 DEF samples, calls
  <2>3. Once' => Once
    BY <2>2 DEF Once
  <2> QED
    BY <2>2, <2>3, NothingMoves
<1>4. CASE \E p \in DOMAIN poll : Poll(p)
  <2>1. PICK p \in 1..MaxStarts : Poll(p)
    BY <1>4 DEF LoopTypes
  <2> QED
    BY <2>1, PollFlows
<1> QED
  BY <1>1, <1>2, <1>3, <1>4 DEF Goroutine

-------------------------------------------------------------------------------
\* The callers that are inside Start, when one enters it and goes on.
LEMMA CallersCounted ==
  ASSUME NEW c \in Callers, NEW S, NEW T, IsFiniteSet(S)
  PROVE  /\ T = S \cup {c} /\ c \notin S => IsFiniteSet(T) /\ Cardinality(T) = Cardinality(S) + 1
         /\ T = S \ {c} /\ c \in S => IsFiniteSet(T) /\ Cardinality(T) = Cardinality(S) - 1
         /\ Cardinality(S) \in Nat
<1>1. Cardinality(S) \in Nat
  BY FS_CardinalityType
<1>2. ASSUME T = S \cup {c}, c \notin S PROVE IsFiniteSet(T) /\ Cardinality(T) = Cardinality(S) + 1
  BY <1>2, FS_AddElement
<1>3. ASSUME T = S \ {c}, c \in S PROVE IsFiniteSet(T) /\ Cardinality(T) = Cardinality(S) - 1
  BY <1>3, FS_RemoveElement
<1> QED
  BY <1>1, <1>2, <1>3

\* A number that went down is still in its bound.
LEMMA StillNoMore ==
  ASSUME NEW k \in Int, NEW m \in Int, NEW n \in Int, NEW bound \in Int, m <= k, k + n <= bound
  PROVE  m + n <= bound
OBVIOUS

\* No start brings more than one goroutine of each kind.
LEMMA StartsStayCounted ==
  ASSUME Types, StartsCounted, Next
  PROVE  StartsCounted'
<1> DEFINE A == Starting({"starting"})
           B == Starting({"starting", "launching"})
           a == Cardinality(A)
           b == Cardinality(B)
<1>1. /\ starts \in Nat /\ simulators \in Nat /\ processors \in Nat /\ controllers \in Nat
      /\ caller \in [Callers -> Steps] /\ starts <= MaxStarts /\ MaxStarts \in Nat
  BY FlowAssumption DEF Types, StartsCounted
<1>2. IsFiniteSet(A) /\ IsFiniteSet(B) /\ simulators + a <= starts
      /\ processors + b <= starts /\ controllers + b <= starts
  BY DEF StartsCounted
<1>3. a \in Nat /\ b \in Nat
  BY <1>2, FS_CardinalityType
<1>4. ASSUME caller' = caller, starts' = starts, simulators' \in Nat, simulators' <= simulators,
             processors' \in Nat, processors' <= processors,
             controllers' \in Nat, controllers' <= controllers
      PROVE  StartsCounted'
  <2>1. A' = A /\ B' = B
    BY <1>4 DEF Starting
  <2>2. a' = a /\ b' = b
    BY <2>1
  <2> HIDE DEF a, b
  <2>3. a \in Int /\ b \in Int /\ starts \in Int
    BY <1>1, <1>3
  <2>4. simulators' + a <= starts
    <3>1. simulators \in Int /\ simulators' \in Int /\ simulators' <= simulators /\ simulators + a <= starts
      BY <1>1, <1>2, <1>4 DEF a
    <3> QED
      BY ONLY <2>3, <3>1, StillNoMore
  <2>5. processors' + b <= starts
    <3>1. processors \in Int /\ processors' \in Int /\ processors' <= processors /\ processors + b <= starts
      BY <1>1, <1>2, <1>4 DEF b
    <3> QED
      BY ONLY <2>3, <3>1, StillNoMore
  <2>6. controllers' + b <= starts
    <3>1. controllers \in Int /\ controllers' \in Int /\ controllers' <= controllers /\ controllers + b <= starts
      BY <1>1, <1>2, <1>4 DEF b
    <3> QED
      BY ONLY <2>3, <3>1, StillNoMore
  <2> QED
    BY <1>1, <1>2, <1>4, <2>1, <2>2, <2>4, <2>5, <2>6 DEF StartsCounted, a, b
<1>5. CASE Goroutine
  <2>1. ASSUME NEW p \in DOMAIN poll, Poll(p)
        PROVE  UNCHANGED <<caller, starts, simulators, processors, controllers>>
    <3>1. UNCHANGED <<calls, simulators, loops>>
      BY <2>1 DEF Poll, ReadPacket, Timeout, ChannelClosed, TakePacket, DropPacket,
         DecodePacket, WriteBatch, CountSamples, channel
    <3> QED
      BY <3>1 DEF calls, loops
  <2>2. CASE \E p \in DOMAIN poll : Poll(p)
    BY <1>1, <1>4, <2>1, <2>2
  <2>3. CASE Traffic \/ Process
    <3>1. UNCHANGED <<calls, simulators, loops>>
      BY <2>3 DEF Traffic, Process, channel
    <3> QED
      BY <1>1, <1>4, <3>1 DEF calls, loops
  <2>4. CASE TrafficEnds \/ ProcessEnds \/ AttitudeEnds
    <3>1. UNCHANGED <<caller, starts>>
      BY <2>4 DEF TrafficEnds, ProcessEnds, AttitudeEnds, calls
    <3>2. /\ simulators' = simulators \/ (simulators > 0 /\ simulators' = simulators - 1)
          /\ processors' = processors \/ (processors > 0 /\ processors' = processors - 1)
          /\ controllers' = controllers \/ (controllers > 0 /\ controllers' = controllers - 1)
      BY <2>4 DEF TrafficEnds, ProcessEnds, AttitudeEnds, channel, loops
    <3> QED
      BY <1>1, <1>4, <3>1, <3>2
  <2> QED
    BY <1>5, <2>2, <2>3, <2>4 DEF Goroutine
<1>6. ASSUME NEW c \in Callers, Call(c) PROVE StartsCounted'
  <2>1. CASE StartTest(c)
    <3>1. caller[c] = "idle" /\ caller' = [caller EXCEPT ![c] = "starting"] /\ starts < MaxStarts
          /\ starts' = starts + 1 /\ UNCHANGED <<simulators, processors, controllers>>
      BY <2>1 DEF StartTest, channel, loops
    <3>2. A' = A \cup {c} /\ B' = B \cup {c} /\ c \notin A /\ c \notin B
      BY <1>1, <3>1 DEF Starting, Steps
    <3> HIDE DEF A, B
    <3>3. IsFiniteSet(A') /\ IsFiniteSet(B') /\ a' = a + 1 /\ b' = b + 1
      BY <1>2, <3>2, CallersCounted
    <3> HIDE DEF a, b
    <3>4. /\ starts' <= MaxStarts /\ simulators' + a' <= starts' /\ processors' + b' <= starts'
          /\ controllers' + b' <= starts' /\ processors' \in Nat /\ controllers' \in Nat
      BY ONLY <1>1, <1>2, <1>3, <3>1, <3>3
    <3> QED
      BY <3>3, <3>4 DEF StartsCounted, A, B, a, b
  <2>2. CASE StartCapture(c)
    <3>1. caller[c] = "starting" /\ caller' = [caller EXCEPT ![c] = "launching"]
          /\ simulators' = simulators + 1 /\ UNCHANGED <<starts, processors, controllers>>
      BY <2>2 DEF StartCapture, loops
    <3>2. A' = A \ {c} /\ B' = B /\ c \in A
      BY <1>1, <3>1 DEF Starting, Steps
    <3> HIDE DEF A, B
    <3>3. IsFiniteSet(A') /\ IsFiniteSet(B') /\ a' = a - 1 /\ b' = b
      BY <1>2, <3>2, CallersCounted
    <3> HIDE DEF a, b
    <3>4. /\ starts' <= MaxStarts /\ simulators' + a' <= starts' /\ processors' + b' <= starts'
          /\ controllers' + b' <= starts' /\ processors' \in Nat /\ controllers' \in Nat
      BY ONLY <1>1, <1>2, <1>3, <3>1, <3>3
    <3> QED
      BY <3>3, <3>4 DEF StartsCounted, A, B, a, b
  <2>3. CASE Launch(c)
    <3>1. caller[c] = "launching" /\ caller' = [caller EXCEPT ![c] = "idle"]
          /\ processors' = processors + 1 /\ controllers' = controllers + 1
          /\ UNCHANGED <<starts, simulators>>
      BY <2>3 DEF Launch, channel
    <3>2. A' = A /\ B' = B \ {c} /\ c \in B
      BY <1>1, <3>1 DEF Starting, Steps
    <3> HIDE DEF A, B
    <3>3. IsFiniteSet(A') /\ IsFiniteSet(B') /\ a' = a /\ b' = b - 1
      BY <1>2, <3>2, CallersCounted
    <3> HIDE DEF a, b
    <3>4. /\ starts' <= MaxStarts /\ simulators' + a' <= starts' /\ processors' + b' <= starts'
          /\ controllers' + b' <= starts' /\ processors' \in Nat /\ controllers' \in Nat
      BY ONLY <1>1, <1>2, <1>3, <3>1, <3>3
    <3> QED
      BY <3>3, <3>4 DEF StartsCounted, A, B, a, b
  <2>4. CASE StopTest(c) \/ StopFlag(c) \/ StopCapture(c) \/ CloseChannels(c)
    <3>1. \E pc \in {"stopping", "stoppingCapture", "closing", "idle"} :
            caller' = [caller EXCEPT ![c] = pc]
      BY <2>4 DEF StopTest, StopFlag, StopCapture, CloseChannels
    <3>2. caller[c] \notin {"starting", "launching"}
      BY <2>4 DEF StopTest, StopFlag, StopCapture, CloseChannels
    <3>3. UNCHANGED <<starts, simulators, processors, controllers>>
      BY <2>4 DEF StopTest, StopFlag, StopCapture, CloseChannels, channel, loops
    <3>4. A' = A /\ B' = B
      BY <1>1, <3>1, <3>2 DEF Starting, Steps
    <3> QED
      BY <3>3, <3>4 DEF StartsCounted
  <2> QED
    BY <1>6, <2>1, <2>2, <2>3, <2>4 DEF Call
<1> QED
  BY <1>5, <1>6 DEF Next

-------------------------------------------------------------------------------
\* Nothing has flowed in a new gateway.
LEMMA InitFlowInv == Init => FlowInv
<1> SUFFICES ASSUME Init PROVE FlowInv
  OBVIOUS
<1>1. FlowAssumption
  BY FlowAssumption
<1> USE DEF Init
<1>2. -1 \in SeqCounts
  <2> DEFINE m == 2^14 - 1
  <2>1. m \in Nat
    BY Powers
  <2> HIDE DEF m
  <2>2. -1 \in -1..m
    BY ONLY <2>1
  <2> QED
    BY <2>2 DEF SeqCounts, m
<1>3. \A p \in 1..MaxStarts : poll[p] = NoLoop
  OBVIOUS
<1>4. \A p \in 1..MaxStarts : LoopHolds(p) /\ poll[p].pc = "none"
  BY <1>2, <1>3 DEF LoopHolds, NoLoop, NoSeq
<1>5. stats \in Counters
  BY DEF Counters
<1>6. FlowTypes
  BY <1>1, <1>4, <1>5 DEF FlowTypes, FlowAssumption
<1>7. Starting({"starting"}) = {} /\ Starting({"starting", "launching"}) = {}
  BY DEF Starting
<1>8. StartsCounted
  <2>1. /\ processors = 0 /\ controllers = 0 /\ simulators = 0 /\ starts = 0 /\ MaxStarts \in Nat
    BY <1>1 DEF FlowAssumption
  <2>2. IsFiniteSet({}) /\ Cardinality({}) = 0
    BY FS_EmptySet
  <2> QED
    BY ONLY <1>7, <2>1, <2>2 DEF StartsCounted
<1>9. \A pc \in {"decode", "write", "count"} : InHand(pc) = {}
  BY <1>4 DEF InHand
<1>10. FirstLoop /\ Balanced
  BY <1>1, <1>4, <1>9 DEF FirstLoop, Balanced, Holding, Pending, Minimum, FlowAssumption
<1>11. WireOrder /\ Remembered
  BY <1>4 DEF WireOrder, Ascending, Below, Remembered, LastHeard
<1>12. GapsSummed
  <2>1. Gaps(heard) = {}
    BY DEF Gaps
  <2> QED
    BY <2>1, FS_EmptySet DEF GapsSummed
<1> QED
  BY <1>6, <1>8, <1>10, <1>11, <1>12 DEF FlowInv, OneFlow

\* The sums, the order of the packets and the count of the gaps, of every packet
\* source that numbers its packets and every size of the channel and the rings.
THEOREM FlowInvariant == Spec => []FlowInv
<1>1. OnceInv /\ OnceInv' /\ FlowInv /\ [Next]_vars => FlowInv'
  <2> SUFFICES ASSUME OnceInv, OnceInv', FlowInv, [Next]_vars PROVE FlowInv'
    OBVIOUS
  <2>1. FlowTypes /\ StartsCounted /\ (Once => OneFlow)
    BY DEF FlowInv
  <2>2. Types /\ LoopTypes /\ LoopTypes'
    BY DEF OnceInv
  <2>3. CASE Next
    <3>1. StartsCounted'
      BY <2>1, <2>2, <2>3, StartsStayCounted
    <3>2. FlowTypes' /\ (Once' => OneFlow')
      BY <2>1, <2>2, <2>3, CallFlows, GoroutineFlows DEF Next
    <3> QED
      BY <3>1, <3>2 DEF FlowInv
  <2>4. CASE UNCHANGED vars
    <3>1. UNCHANGED <<channel, loops, samples, calls, poll, stats, heard>>
      BY <2>4 DEF vars
    <3>2. /\ UNCHANGED <<packetCh, next, heard, stats, sampleRing, latestRing>>
          /\ UNCHANGED <<sampleCount, dropCount, taken, poll, starts, stops>>
          /\ UNCHANGED <<caller, simulators, processors, controllers>>
      BY <3>1 DEF channel, loops, samples, calls
    <3>3. FlowTypes' /\ (OneFlow => OneFlow')
      BY <2>1, <3>2, NothingMoves
    <3>4. StartsCounted' /\ (Once' => Once)
      BY <2>1, <3>2 DEF StartsCounted, Starting, Once
    <3> QED
      BY <2>1, <3>3, <3>4 DEF FlowInv
  <2> QED
    BY <2>3, <2>4
<1> QED
  BY InitFlowInv, OnceInvariant, <1>1, PTL DEF Spec

\* Each packet received and each sample decoded is in one place at every instant.
THEOREM FlowStaysBalanced == Spec => []FlowBalances
<1>1. OnceInv /\ FlowInv => FlowBalances
  <2> SUFFICES ASSUME OnceInv, FlowInv PROVE FlowBalances
    OBVIOUS
  <2>1. {running, closed, captureRunning, sourceRunning, sourceClosed, packetChClosed, panicked} \subseteq BOOLEAN
    BY Zenon DEF OnceInv, Flags
  <2>2. \A p \in DOMAIN poll : poll[p].lastSeq \in -1..(2^14 - 1)
    BY DEF OnceInv, LoopTypes, FlowInv, FlowTypes, LoopHolds, SeqCounts
  <2>3. {simulators, processors, controllers, starts} \subseteq 0..MaxStarts
    <3>1. Cardinality(Starting({"starting"})) \in Nat /\ Cardinality(Starting({"starting", "launching"})) \in Nat
      BY FS_CardinalityType DEF FlowInv, StartsCounted
    <3>2. simulators \in Nat /\ starts \in Nat /\ MaxStarts \in Nat
      BY FlowAssumption DEF OnceInv, Types
    <3> QED
      BY <3>1, <3>2 DEF FlowInv, StartsCounted
  <2>4. TypeOK
    BY <2>1, <2>2, <2>3 DEF FlowInv, FlowTypes, TypeOK
  <2>5. ASSUME Once PROVE Balanced /\ Holding("decode") = Cardinality(InHand("decode"))
    <3>1. Balanced /\ FirstLoop /\ LoopTypes
      BY <2>5 DEF FlowInv, OneFlow, OnceInv
    <3>2. InHand("decode") = {} \/ InHand("decode") = {1}
      BY <3>1 DEF InHand, FirstLoop, LoopTypes
    <3> QED
      BY <3>1, <3>2, FS_EmptySet, FS_Singleton DEF Holding
  <2> QED
    BY <2>4, <2>5 DEF FlowBalances, Balanced
<1> QED
  BY OnceInvariant, FlowInvariant, <1>1, PTL

\* SequenceErrors is the number of gaps between the packets decoded, as long as
\* less than a turn of the 14 bits is lost at a time.
THEOREM GapsStayCounted == Spec => []GapsCounted
<1>1. FlowInv => GapsCounted
  BY DEF FlowInv, OneFlow, GapsSummed, Gaps, GapsCounted
<1> QED
  BY FlowInvariant, <1>1, PTL
===============================================================================

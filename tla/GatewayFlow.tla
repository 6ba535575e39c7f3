----------------------------- MODULE GatewayFlow -----------------------------
(* From the packet source to the sample ring and back to a standstill:       *)
(* internal/gateway/gateway.go (Start, Stop, onSamples, processLoop),        *)
(* internal/capture/gateway.go (Start, Stop, pollLoop) and the channel of    *)
(* internal/capture/source_windows.go.  What pollLoop makes of a packet is   *)
(* computed from its bytes by PacketDecoding.                                *)
(*                                                                           *)
(* The rings are counts here: SPSCRing shows that they are queues as long as *)
(* one thread writes and one reads, and every claim below about counts is    *)
(* made for a gateway started once, where that holds.                        *)
EXTENDS PacketDecoding, FiniteSets

CONSTANTS
  Wire,         \* the packets that reach the source, in order
  ChannelSize,  \* capacity of packetCh, 1024 in the program
  RingSize,     \* capacity of sampleRing
  LatestSize,   \* capacity of latestRing, 1024 in the program
  BatchSize,    \* samples processLoop reads at once, 256 in the program
  Callers,      \* threads that call Start and Stop
  MaxStarts,    \* bound: calls of Start that pass its test
  RestartWire,  \* bound: packets that arrive in a behaviour with a second start
  MaxStops      \* bound: calls of Stop that pass its test

ASSUME FlowAssumption ==
  /\ Wire \in Seq(Seq(Byte)) /\ ChannelSize \in Nat \ {0} /\ RingSize \in Nat \ {0}
  /\ LatestSize \in Nat \ {0} /\ BatchSize \in Nat \ {0}
  /\ MaxStarts \in Nat /\ MaxStops \in Nat /\ RestartWire \in 0..Len(Wire)

VARIABLES
  running, closed,                \* gw.running; closeCh and processCloseCh
  captureRunning,                 \* running of the capture gateway
  sourceRunning, sourceClosed,    \* running and closeCh of the source
  packetCh, packetChClosed,       \* the source's channel, packets by number
  next,                           \* the next packet on the wire
  simulators,                     \* simulateTraffic goroutines
  poll,                           \* pollLoop goroutines, one per start
  processors, controllers,        \* processLoop and attitudeUpdateLoop goroutines
  stats,                          \* counters of the capture gateway
  sampleRing, latestRing,         \* samples in the two rings
  sampleCount, dropCount,         \* counters of the gateway
  caller,                         \* where the callers of Start and Stop are
  starts, stops,                  \* calls that passed their test
  panicked,                       \* the program has gone down
  heard,                          \* history: packets decoded, in order
  taken,                          \* history: samples processLoop has read
  late                            \* history: batches written after Stop closed the source

flags   == <<running, closed, captureRunning, sourceRunning, sourceClosed>>
channel == <<packetCh, packetChClosed, next, simulators>>
loops   == <<processors, controllers>>
samples == <<sampleRing, latestRing, sampleCount, dropCount, taken, late>>
calls   == <<caller, starts, stops>>
vars    == <<flags, channel, loops, samples, calls, poll, stats, heard, panicked>>

NoSeq  == -1
NoLoop == [pc |-> "none", lastSeq |-> NoSeq, packet |-> 0, n |-> 0]

Init ==
  /\ running = FALSE /\ closed = FALSE /\ captureRunning = FALSE
  /\ sourceRunning = FALSE /\ sourceClosed = FALSE
  /\ packetCh = <<>> /\ packetChClosed = FALSE /\ next = 1 /\ simulators = 0
  /\ poll = [p \in 1..MaxStarts |-> NoLoop] /\ processors = 0 /\ controllers = 0
  /\ stats = [received |-> 0, decoded |-> 0, dropped |-> 0, samples |-> 0,
              checksumErrors |-> 0, sequenceErrors |-> 0]
  /\ sampleRing = 0 /\ latestRing = 0 /\ sampleCount = 0 /\ dropCount = 0
  /\ caller = [c \in Callers |-> "idle"] /\ starts = 0 /\ stops = 0
  /\ panicked = FALSE /\ heard = <<>> /\ taken = 0 /\ late = 0

Minimum(a, b) == IF a < b THEN a ELSE b

(* What pollLoop sees of each packet.  (Wire holds none that would make      *)
(* Decode panic; PacketTransit shows which would.)                           *)
Seen(packet) ==
  [err |-> packet.err, samples |-> Len(SamplesOf(packet)),
   seq |-> IF packet.err = "none" THEN packet.primary.sequenceCount ELSE NoSeq]
Outcome == [i \in DOMAIN Wire |-> Seen(Decode(Wire[i]))]

(* The source gives its packets consecutive numbers of 14 bits, and a packet *)
(* that decodes is one the source sent: Outcome has the number it was given. *)
ASSUME NumberingAssumption ==
  \A i, j \in DOMAIN Wire :
    i <= j /\ Outcome[i].err = "none" /\ Outcome[j].err = "none"
      => Outcome[j].seq = (Outcome[i].seq + (j - i)) % 2^14

-------------------------------------------------------------------------------
(* ThrusterGateway.Start: test, start the capture gateway (which opens the   *)
(* source and starts pollLoop), set the flag and start the other loops.      *)
StartTest(c) ==
  /\ caller[c] = "idle" /\ ~running /\ starts < MaxStarts
  /\ starts > 0 => next <= RestartWire + 1
  /\ caller' = [caller EXCEPT ![c] = "starting"] /\ starts' = starts + 1
  /\ UNCHANGED <<flags, channel, loops, samples, poll, stats, heard, panicked, stops>>

StartCapture(c) ==
  /\ caller[c] = "starting"
  /\ sourceRunning' = TRUE /\ captureRunning' = TRUE /\ simulators' = simulators + 1
  /\ \E p \in DOMAIN poll :
       /\ poll[p].pc = "none" /\ \A q \in 1..(p - 1) : poll[q].pc # "none"
       /\ poll' = [poll EXCEPT ![p].pc = "test"]
  /\ caller' = [caller EXCEPT ![c] = "launching"]
  /\ UNCHANGED <<running, closed, sourceClosed, packetCh, packetChClosed, next>>
  /\ UNCHANGED <<loops, samples, stats, heard, panicked, starts, stops>>

Launch(c) ==
  /\ caller[c] = "launching"
  /\ running' = TRUE /\ processors' = processors + 1 /\ controllers' = controllers + 1
  /\ caller' = [caller EXCEPT ![c] = "idle"]
  /\ UNCHANGED <<closed, captureRunning, sourceRunning, sourceClosed, channel>>
  /\ UNCHANGED <<samples, poll, stats, heard, panicked, starts, stops>>

(* ThrusterGateway.Stop: test and clear the flag, stop the capture gateway   *)
(* (Close of the source closes its channel once), close both close channels. *)
StopTest(c) ==
  /\ caller[c] = "idle" /\ running /\ stops < MaxStops
  /\ caller' = [caller EXCEPT ![c] = "stopping"] /\ stops' = stops + 1
  /\ UNCHANGED <<flags, channel, loops, samples, poll, stats, heard, panicked, starts>>

(* A slip for a mutant: the flag is left set.                                *)
StopUnflagged(c) ==
  /\ caller[c] = "stopping" /\ caller' = [caller EXCEPT ![c] = "stoppingCapture"]
  /\ UNCHANGED <<flags, channel, loops, samples, poll, stats, heard, panicked, starts, stops>>

StopFlag(c) ==
  /\ caller[c] = "stopping" /\ running' = FALSE
  /\ caller' = [caller EXCEPT ![c] = "stoppingCapture"]
  /\ UNCHANGED <<closed, captureRunning, sourceRunning, sourceClosed, channel>>
  /\ UNCHANGED <<loops, samples, poll, stats, heard, panicked, starts, stops>>

StopCapture(c) ==
  /\ caller[c] = "stoppingCapture"
  /\ captureRunning' = FALSE /\ sourceRunning' = FALSE /\ sourceClosed' = TRUE
  /\ caller' = [caller EXCEPT ![c] = "closing"]
  /\ UNCHANGED <<running, closed, channel>>
  /\ UNCHANGED <<loops, samples, poll, stats, heard, panicked, starts, stops>>

CloseChannels(c) ==
  /\ caller[c] = "closing"
  /\ closed' = TRUE /\ panicked' = closed
  /\ caller' = [caller EXCEPT ![c] = "idle"]
  /\ UNCHANGED <<running, captureRunning, sourceRunning, sourceClosed, channel>>
  /\ UNCHANGED <<loops, samples, poll, stats, heard, starts, stops>>

-------------------------------------------------------------------------------
(* simulateTraffic: a full channel drops the packet; a channel that another  *)
(* simulateTraffic closed must not be sent to or closed again.               *)
Traffic ==
  /\ simulators > 0 /\ next <= IF starts > 1 THEN RestartWire ELSE Len(Wire)
  /\ next' = next + 1 /\ panicked' = packetChClosed
  /\ packetCh' = IF Len(packetCh) < ChannelSize /\ ~packetChClosed
                   THEN Append(packetCh, next) ELSE packetCh
  /\ UNCHANGED <<flags, packetChClosed, simulators, loops, samples, calls, poll, stats, heard>>

(* A slip for a mutant: closing the channel without returning.               *)
TrafficGoesOn ==
  /\ simulators > 0 /\ sourceClosed
  /\ packetChClosed' = TRUE /\ panicked' = packetChClosed
  /\ UNCHANGED <<flags, packetCh, next, simulators, loops, samples, calls, poll, stats, heard>>

TrafficEnds ==
  /\ simulators > 0 /\ sourceClosed
  /\ simulators' = simulators - 1 /\ packetChClosed' = TRUE /\ panicked' = packetChClosed
  /\ UNCHANGED <<flags, packetCh, next, loops, samples, calls, poll, stats, heard>>

(* pollLoop p: the loop's test with the one in ReadPacket (Stop clears both   *)
(* flags in one step), and the select of ReadPacket.                         *)
Goto(p, pc) == poll' = [poll EXCEPT ![p].pc = pc]

(* A slip for a mutant: the channel is drained before the loop ends.         *)
ReadDrains(p) ==
  /\ poll[p].pc = "test"
  /\ Goto(p, IF captureRunning \/ packetCh # <<>> THEN "select" ELSE "ended")
  /\ UNCHANGED <<flags, channel, loops, samples, calls, stats, heard, panicked>>

ReadPacket(p) ==
  /\ poll[p].pc = "test"
  /\ Goto(p, IF captureRunning /\ sourceRunning THEN "select" ELSE "ended")
  /\ UNCHANGED <<flags, channel, loops, samples, calls, stats, heard, panicked>>

Timeout(p) ==
  /\ poll[p].pc = "select" /\ Goto(p, "test")
  /\ UNCHANGED <<flags, channel, loops, samples, calls, stats, heard, panicked>>

ChannelClosed(p) ==
  /\ poll[p].pc = "select" /\ packetCh = <<>> /\ packetChClosed /\ Goto(p, "ended")
  /\ UNCHANGED <<flags, channel, loops, samples, calls, stats, heard, panicked>>

TakePacket(p) ==
  /\ poll[p].pc = "select" /\ packetCh # <<>>
  /\ poll' = [poll EXCEPT ![p].pc = "decode", ![p].packet = Head(packetCh)]
  /\ packetCh' = Tail(packetCh) /\ stats' = [stats EXCEPT !.received = @ + 1]
  /\ UNCHANGED <<flags, packetChClosed, next, simulators, loops, samples, calls, heard, panicked>>

(* A slip for a mutant: no wrap of the sequence count.                       *)
ExpectedUnwrapped(lastSeq) == lastSeq + 1
ExpectedSeq(lastSeq) == (lastSeq + 1) % 2^14
OutOfSequence(lastSeq, seq) == lastSeq # NoSeq /\ seq # ExpectedSeq(lastSeq)

(* The packet in hand is decoded, or dropped with its error counted.         *)
DropPacket(p) ==
  /\ poll[p].pc = "decode" /\ Goto(p, "test")
  /\ LET err == Outcome[poll[p].packet].err
     IN  /\ err # "none"
         /\ stats' = [stats EXCEPT !.dropped = @ + 1,
                        !.checksumErrors = @ + IF err = "checksum" THEN 1 ELSE 0]
  /\ UNCHANGED <<flags, channel, loops, samples, calls, heard, panicked>>

DecodePacket(p) ==
  /\ poll[p].pc = "decode"
  /\ LET got == Outcome[poll[p].packet]
     IN  /\ got.err = "none"
         /\ stats' = [stats EXCEPT !.decoded = @ + 1, !.samples = @ + got.samples,
              !.sequenceErrors = @ + IF OutOfSequence(poll[p].lastSeq, got.seq) THEN 1 ELSE 0]
         /\ poll' = [poll EXCEPT ![p].lastSeq = got.seq, ![p].n = got.samples,
                       ![p].pc = IF got.samples > 0 THEN "write" ELSE "test"]
  /\ heard' = Append(heard, poll[p].packet)
  /\ UNCHANGED <<flags, channel, loops, samples, calls, panicked>>

(* onSamples: WriteBatch takes what fits, and the counters follow.  The      *)
(* estimator and the monitor, called before, are modelled elsewhere.         *)
Fitting(n) == Minimum(n, RingSize - sampleRing)

(* A slip for a mutant: a dropped batch counts once, not by its samples.     *)
WriteMiscounted(p) ==
  /\ poll[p].pc = "write"
  /\ sampleRing' = sampleRing + Fitting(poll[p].n)
  /\ dropCount' = dropCount + IF Fitting(poll[p].n) < poll[p].n THEN 1 ELSE 0
  /\ poll' = [poll EXCEPT ![p].pc = "count", ![p].n = Fitting(poll[p].n)]
  /\ late' = late + IF sourceClosed THEN 1 ELSE 0
  /\ UNCHANGED <<flags, channel, loops, latestRing, sampleCount, taken, calls, stats, heard, panicked>>

WriteBatch(p) ==
  /\ poll[p].pc = "write"
  /\ sampleRing' = sampleRing + Fitting(poll[p].n)
  /\ dropCount' = dropCount + poll[p].n - Fitting(poll[p].n)
  /\ poll' = [poll EXCEPT ![p].pc = "count", ![p].n = Fitting(poll[p].n)]
  /\ late' = late + IF sourceClosed THEN 1 ELSE 0
  /\ UNCHANGED <<flags, channel, loops, latestRing, sampleCount, taken, calls, stats, heard, panicked>>

CountSamples(p) ==
  /\ poll[p].pc = "count" /\ Goto(p, "test")
  /\ latestRing' = Minimum(latestRing + poll[p].n, LatestSize)
  /\ sampleCount' = sampleCount + poll[p].n
  /\ UNCHANGED <<flags, channel, loops, sampleRing, dropCount, taken, late, calls, stats, heard, panicked>>

Poll(p) ==
  \/ ReadPacket(p) \/ Timeout(p) \/ ChannelClosed(p) \/ TakePacket(p)
  \/ DropPacket(p) \/ DecodePacket(p) \/ WriteBatch(p) \/ CountSamples(p)

(* processLoop reads while the gateway runs.                                 *)
Process ==
  /\ processors > 0 /\ running /\ sampleRing > 0
  /\ sampleRing' = sampleRing - Minimum(sampleRing, BatchSize)
  /\ taken' = taken + Minimum(sampleRing, BatchSize)
  /\ UNCHANGED <<flags, channel, loops, latestRing, sampleCount, dropCount, late>>
  /\ UNCHANGED <<calls, poll, stats, heard, panicked>>

ProcessEnds ==
  /\ processors > 0 /\ ~running /\ processors' = processors - 1
  /\ UNCHANGED <<flags, channel, controllers, samples, calls, poll, stats, heard, panicked>>

(* attitudeUpdateLoop ends by the flag or by the closed channel, whichever   *)
(* it looks at first.                                                        *)
AttitudeEnds ==
  /\ controllers > 0 /\ (~running \/ closed) /\ controllers' = controllers - 1
  /\ UNCHANGED <<flags, channel, processors, samples, calls, poll, stats, heard, panicked>>

Call(c) ==
  \/ StartTest(c) \/ StartCapture(c) \/ Launch(c)
  \/ StopTest(c) \/ StopFlag(c) \/ StopCapture(c) \/ CloseChannels(c)
Goroutine ==
  \/ Traffic \/ TrafficEnds \/ Process \/ ProcessEnds \/ AttitudeEnds
  \/ \E p \in DOMAIN poll : Poll(p)
Next == ~panicked /\ (Goroutine \/ \E c \in Callers : Call(c))

Spec == Init /\ [][Next]_vars

(* A goroutine, and a call of Start or Stop once it is under way, go on; no  *)
(* one has to call.  The select of simulateTraffic takes a closed channel in *)
(* the end, since it chooses among what is ready at random.                  *)
Under(c) == StartCapture(c) \/ Launch(c) \/ StopFlag(c) \/ StopCapture(c) \/ CloseChannels(c)
FairSpec ==
  /\ Spec
  /\ \A p \in 1..MaxStarts : WF_vars(~panicked /\ Poll(p))
  /\ \A c \in Callers : WF_vars(~panicked /\ Under(c))
  /\ WF_vars(~panicked /\ TrafficEnds) /\ WF_vars(~panicked /\ ProcessEnds)
  /\ WF_vars(~panicked /\ AttitudeEnds)

-------------------------------------------------------------------------------
Once == starts <= 1 /\ stops <= 1
InHand(pc) == {p \in DOMAIN poll : poll[p].pc = pc}
Pending(pc) == IF InHand(pc) = {} THEN 0 ELSE poll[1].n

TypeOK ==
  /\ {running, closed, captureRunning, sourceRunning, sourceClosed, packetChClosed, panicked} \subseteq BOOLEAN
  /\ packetCh \in Seq(DOMAIN Wire) /\ Len(packetCh) <= ChannelSize
  /\ \A p \in DOMAIN poll : poll[p].lastSeq \in -1..(2^14 - 1)
  /\ sampleRing \in 0..RingSize /\ latestRing \in 0..LatestSize
  /\ {simulators, processors, controllers, starts} \subseteq 0..MaxStarts

(* Between any two steps, of which writing to latestRing and counting the    *)
(* batch is one, each packet taken from the source and each sample of it is  *)
(* in one place: packets received are decoded, dropped or in hand, samples   *)
(* decoded are processed, dropped or in hand, samples processed are read,    *)
(* waiting in the ring or (the last batch) not counted yet, and latestRing,  *)
(* which nobody reads, has stopped at the first LatestSize of them.          *)
FlowBalances ==
  /\ TypeOK
  /\ Once =>
       /\ stats.received = stats.decoded + stats.dropped + Cardinality(InHand("decode"))
       /\ stats.samples = sampleCount + dropCount + Pending("write") + Pending("count")
       /\ sampleCount + Pending("count") = sampleRing + taken
       /\ latestRing = Minimum(sampleCount, LatestSize)

(* SequenceErrors counts the gaps between packets decoded one after the      *)
(* other, across the wrap of the 14 bits and over packets that were dropped  *)
(* by the source or rejected by the decoder; so it is zero only if nothing   *)
(* between the first and the last of them was lost.  That is as long as less *)
(* than a whole turn of the count is lost at a time.                         *)
LessThanATurn == \A i \in 2..Len(heard) : heard[i] <= heard[i - 1] + 2^14
GapsCounted ==
  Once /\ LessThanATurn
    => stats.sequenceErrors
         = Cardinality({i \in 2..Len(heard) : heard[i] # heard[i - 1] + 1})

(* A gateway that is started and stopped once does not go down by a channel  *)
(* that is closed twice or sent to when closed (that takes a restart, or two *)
(* calls at once), and after Stop has closed the source at most one batch is *)
(* still written: the one pollLoop was about to read or had in hand.         *)
StopIsClean == Once => ~panicked /\ late <= 1

(* Stop ends every goroutine that Start began.                               *)
AllEnded ==
  /\ simulators = 0 /\ processors = 0 /\ controllers = 0
  /\ \A p \in DOMAIN poll : poll[p].pc \in {"none", "ended"}
StopEnds == stops = 1 ~> AllEnded \/ ~Once
===============================================================================

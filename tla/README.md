# TLA+ models of the MEMS thruster gateway

This directory models the CubeSat thruster gateway (`src/`, a Go program) in
TLA+. TLC checks the models on small instances; TLAPS proves the most important
safety properties for every value of the constants.

## 1. The program and its parts

A capture thread reads CCSDS packets, decodes them into thruster samples and
hands each batch to the gateway's `onSamples`. That callback estimates thrust,
runs the safety monitor over the batch, and puts it into a lock-free ring, from
which a processing goroutine takes it. A second goroutine runs the attitude
controller once a millisecond. The monitor's fault state, an atomic flag, stops
the controller, and the monitor's callback can disable it.

| component | state | operations | interacts with | what makes it correct |
|---|---|---|---|---|
| `lockfree` SPSC rings | two positions, the producer's cached read position, slots | Write, WriteBatch, Read, ReadBatch, Peek, PeekLatest, Count, Clear | producer: capture thread; consumer: `processLoop`; observer: `Stats` | nothing unread overwritten; what is read is what was written, in order; no slot accessed by both sides at once; every sample delivered |
| `safety.Monitor` | fault flag (atomic), two counters, two times, thrust history, status | CheckSample, CheckBatch, AddCallback, Reset, Status, IsHealthy | called by the capture thread under `m.mu`; callbacks run under that lock | a run of faults is detected in time, isolated ones are not, recovery respects the cooldown |
| `attitude` Controller, PIDs, DecisionEngine | mode, enabled flag, target, PID integrals and times | Process, Compute, SetMode, SetTarget, Enable, Disable, manual thrust | `attitudeUpdateLoop` calls Process; operator and monitor callback call Disable | few and bounded command batches after a fault or a Disable; a clean PID state at the next Enable |
| `gateway` | running flag, two close channels, counters, callbacks | Start, Stop, onSamples, onSafetyEvent, onCommands, Stats, GetLatestSamples | owns all the others | one loop of each kind; samples counted once; Stop stops |
| `capture` | source, sequence number, counters, running flag | Start, Stop, pollLoop, Stats | runs the decoder and the sample callback | gaps counted across the sequence wrap; what is still delivered after Stop is bounded |
| `ccsds` decoder | none but a bit offset within a call | Decode, header and checksum parsing | called by capture | lengths never exceed the packet; a damaged packet gives no samples; a sample is what the bytes say |
| `vallock` valve lock, manager, audit report | lock flag, lock times, anomaly count, audit ring, emergency channel | ProcessSample, engage, DisengageLock, MonitorLoop, Reset, Record, Flush | manager calls locks, locks call the manager back | locks and recoveries alternate and are counted; audit keeps the latest events; no deadlock between the two mutexes |
| `vallock` wear model, zero-crossing detector, downlink encoder | floating-point state, history, command id | Update, GetState, Encode, Decode | called by the valve lock | frame lengths and checksums |
| `lockfree` SeqLockRing, DoubleSeqLock, MPSeqRing; SlotRing, HPRing, HPLinkedQueue, AtomicRing | sequence numbers, nodes, hazard pointers | reads and writes from several threads | nothing outside the package yet | no torn read, no lost or repeated element |
| `buffer` RingBuffer, StreamProcessor, DoubleBuffer | indexes under a mutex, a one-slot token channel | Write, Read, Start, Stop, swap | nothing outside the package yet | no lost wake-up, windows in order |
| `safety.Watchdog` | time of the last Feed, alive flag, ticker | Start, Stop, Feed, monitorLoop | nothing starts one yet | a silence is reported, and once |
| `thrust` estimator, `config`, `pkg/types` | coefficients, constants, record types | pure arithmetic | everywhere | numeric accuracy, which is not a matter for TLC |

**Threads.** The capture poll loop (`capture/gateway.go` pollLoop, which runs
`onSamples`, and in it the whole of `CheckBatch` and its callbacks), `processLoop`,
`attitudeUpdateLoop`, the operator (the caller of the gateway's setters), a
statistics printer, and `simulateTraffic` of the simulated source.

**What is hard.** The ring's positions are shared without locks, and the
producer decides on a stale copy of one of them. `CheckSample` publishes the
fault flag in its middle, runs callbacks with its lock held, and updates the
status only afterwards. `Process` tests flags, drops its lock, and computes.
`Disable` resets PIDs that a `Compute` may be updating. `Start` and `Stop` test a flag
in one step and set it in another, and close channels that exist once. `Decode`
computes a checksum in the memory of the packet it returns. The structures of
`lockfree` and `buffer` that nothing uses yet are written for several threads each.
The full list, with lines, is `hazards` in `PROJECT.json`.

## 2. Modules

| module | what it is |
|---|---|
| `SampleQueue` | abstract specification: a bounded first-in first-out queue |
| `SPSCRing` | `SPSCRing` and `SPSCByteRing` of `internal/lockfree/spsc.go`; refines `SampleQueue` |
| `SPSCRingProofs` | TLAPS: inductive invariant of the ring, what follows from it, and the refinement |
| `MCSPSCRing` | the ring for TLC |
| `SafetyMonitor` | `Monitor` of `internal/safety/monitor.go` |
| `MCSafetyMonitor` | its instance for TLC |
| `ControlPath` | extends `SafetyMonitor` with the gateway callbacks, the decision engine with its PIDs, the attitude loop and the operator |
| `ControlPathProofs`, `MCControlPath` | proofs about the monitor and about the control path; the instance for TLC |
| `ValveLock` | `ValveSafetyLock`, `ValveSafetyManager` and `AuditReport` of `internal/vallock` |
| `ValveLockProofs`, `MCValveLock` | its proofs; its instance for TLC |
| `PacketDecoding` | `internal/ccsds/decoder.go`, `decodeThrusterPayload`, and the packets of the simulated source: operators on sequences of bytes |
| `DownlinkFrames` | extends it with `internal/vallock/ccsds_downlink.go` |
| `PacketDecodingProofs` | lemmas about the operators of `PacketDecoding`: sums, bits, the packets the source writes |
| `PacketTransit`, `MCPacketTransit` | packets and frames on their way from encoder to decoder; for TLC |
| `PacketTransitProofs` | proofs about it, with the lemmas about `DownlinkFrames`; extends `PacketDecodingProofs` |
| `GatewayFlow`, `GatewayFlowProofs`, `MCGatewayFlow` | `Start`, `Stop`, `onSamples` and the loops of `internal/gateway`, `internal/capture/gateway.go` and the simulated source; extends `PacketDecoding`; its proofs, with the lemmas of `PacketDecodingProofs`; for TLC |
| `LockFreeRings` | `HPRing`, `AtomicRing`, `SeqLockRing`, `MPSeqRing`, `SlotRing` |
| `LinkedQueue` | `HPLinkedQueue` with the retired list of its hazard domain |
| `MCLockFree` | both for TLC: the kind of the initial state says which of the six is in use |
| `LockFreeProofs` | proofs about the linked queue, the rings, and the specification of `MCLockFree` |
| `StreamBuffer` | `RingBuffer` and `StreamProcessor` of `internal/buffer` |
| `FrameBuffers` | `DoubleBuffer` of `internal/buffer`, `DoubleSeqLock` of `internal/lockfree` |
| `Watchdog` | `Watchdog` of `internal/safety/monitor.go` |
| `MCBackground` | `StreamBuffer`, `FrameBuffers` and `Watchdog` for TLC |
| `BackgroundProofs` | proofs about these three |

### SPSCRing

One action is one shared access: a load or store of a position, or the copy of
one slot. The program's local variables between two accesses are the variables
`wbatch`, `wi` (producer) and `rfrom`, `rwant`, `rcount`, `rout` (per reader).
`writePos` is stored by the producer alone, so the producer's load of it needs
no step. `Write` and the byte ring's `Write` first test the cached read position
(`CachedCall`) and reload it only when the ring looks full (`WriteRefresh`);
`WriteBatch` loads the real one and leaves the cache alone (`WriteBatchCall`).
Readers load two positions in an order that depends on the operation
(`ReadCall`, `ReadLoad`), copy (`CopyOut`) and, if they consume, advance
(`ReadReturn`). Subtraction wraps modulo `Word` (2^64) and `Count` converts to a
signed int. Go's atomics are sequentially consistent, so interleaving is the
right semantics for them; a slot is not atomic, and two accesses to one slot at
the same time are the data race that `ConsumerRaceFree` rules out.

### SafetyMonitor

A sample is a record of what the checks see of it: over voltage, over current,
flow low, ok or high, and a thrust level. `CheckSample` is `Check` (classify, count in
the leaky bucket, enter or leave the fault state), `Notified` (the callbacks have
returned) and `Finish` (updateStatus, unlock): the three moments that other
threads can tell apart. Timestamps come from packets and may lag the newest one
by `Skew`. `run`, `clock` and `newestFault` are history variables.

### ControlPath

The monitor's actions are conjoined with what they do to the engine.
`UnhealthyEvent` and `HealthyEvent` are `onSafetyEvent` for the two values of the
status it is handed. `resetting[a]` is the PID that actor `a`'s `Disable` resets next
and at the same time the ownership of `de.mu`. `Process` is `Tick` (read mode and
flag under the lock), `Decide` (fault flag, then mode), and either
`ManualControl` or `ComputeStart`, `UpdatePID` per axis, and `Issue` or `NoCommand`.
Abstracted: the floating-point numbers. A PID is its `initialized` flag, the
target is inside or outside the dead band, and a batch of commands is issued or
not. The gateway never calls the monitor's `Reset`, nor the engine's
`SetManualThrust` and `UpdateState`, and neither does this module.

### ValveLock

Each call on a valve holds `v.mu`, so it is one step: `DisengageLock`, `Reset`,
`SetAuditCallback`, and a `ProcessSample` that does not engage the lock. One that does
calls back into the manager, so it is three: `ProcessSample` (decide and set
flag, counters and times), `EmergencyFrame` (`onEmergencyFrame` got `m.mu`) and
`LockAudited` (audit buffer, callback, report, unlock); `vpc[v]` says how far it is
and thereby who holds `v.mu`, `managerAt` says the same of `m.mu`. `MonitorTick` is the
part of `MonitorLoop` before `v.mu`: it reads flag and wall clock, and the lock it
releases may be a later one. Sample timestamps and the wall clock are two clocks at
most `Skew` apart. Abstracted: the wear model and the detector are the health
score and the verdict (no event, harmless crossing, anomaly) of a sample; frames
are the number of their valve; an event is its type and time. `RecentSlot` and
`Recent` are `RecentAuditEvents`. `log`, `lockedAt` and `complete` are history.

### PacketDecoding, DownlinkFrames, PacketTransit

A packet is a sequence of bytes and the operators are the functions of the
program. `ReadBits` is the decoder's loop, byte by byte. `Decode` returns, beside the
error, the headers and the payload, the *buffer it leaves behind*: `data[:18]` has
the capacity of the whole packet, so `append` writes the payload into the packet,
and the payload is a slice of it (`AppendInPlace`). Buffers are taken to be as long
as their capacity, as those of the program are. A reading is its four bytes, a
64-bit number its eight: nothing is computed with them. The decoder's own buffer of 4096 bytes is
a bound on the samples of a packet (`DecoderBuffer`) that no packet of a run comes near. Duty cycle and health
are kept one decimal digit finer than the frame keeps them, so that the rounding
is modelled. `PacketTransit` has one buffer at a time: a packet of
`generateCCSDSPacket` goes to `Decode` and `SamplesOf` (what `pollLoop` makes of it), a
frame to `DecodeEmergencyStop` and `VerifyChecksum16`; on the way one byte may change,
the end may be cut off or zeros may follow it. An encoder that writes past the
end of its buffer, or a slice whose end is before its start, takes the program
down: `stage = "crashed"`.

### GatewayFlow

`Start` is three steps and `Stop` four, where the code can be interrupted between
test, sub-call and assignment; several `Callers` may be in them at once. `poll[p]`
is the p-th `pollLoop`, with its `lastSeq`; the other loops are alike and counted. The
source's channel is explicit, with its capacity, its closing and the select in
`ReadPacket` that can time out whatever is there. Packets are bytes, decoded by
`PacketDecoding` (`Outcome`). The rings are their lengths: that they are queues is
what `SPSCRing` shows, for one writer and one reader, and the claims about
counters are made for a gateway started once, where that is so. `CheckBatch`, also
run by `onSamples`, is `SafetyMonitor` and `ControlPath`. `heard`, `taken` and `late` are
history.

### LockFreeRings and LinkedQueue

An action is one load, store or compare-and-swap of shared memory; `me[t]` holds a
thread's step and its local variables. The five rings share a skeleton: take a
position, store a sample, publish it; load two positions, copy, release. `kind`
says which ring a behaviour is about and thereby who may write and read
(`Writers`, `Readers`): any thread for `HPRing` (compare-and-swap) and `MPSeqRing` (spin
locks), any writer and one reader for `SeqLockRing`, one of each for `AtomicRing` and
`SlotRing`, which store their positions as they are. Storing a sample takes two
steps with the slot `Torn` in between, so a copy made meanwhile shows. `TryWrite`,
`WriteSingle` and the like are batches of one; the blocking and the batch variants
are repeated calls. `written` and `got` are history: samples by position.
`LinkedQueue` is the list with its lagging tail and the helping of threads; nodes
are never reused while a thread holds one (the garbage collector sees to it: no
code ever sets a hazard pointer, and every scan frees all of the retired list).

### StreamBuffer, FrameBuffers, Watchdog

Calls on `RingBuffer` hold its lock and are one step; `processLoop` tests the count
without it, so its test, its wait and its `Read` are steps of their own, and so are
the parts of `Stop`. In `FrameBuffers` the writers hold a mutex and readers nothing:
every sample stored or copied is a step, and so are the counting of a swap and
the swap of `DoubleSeqLock`, whose order matters. Time in `Watchdog` is counted in
ticks, a quarter of the timeout, and only ages are kept.

## 3. Runs

| run | instance | question |
|---|---|---|
| `spsc_ring` | capacity 2, batches up to 2, positions up to 4, a consumer, a counting observer | Does the ring implement the queue, without races? |
| `batched_writes` | capacity 2, batches up to 2, positions up to 3, `SPSCByteRing.Write`, `WriteBatch` and `ReadBatch` in any mixture, fairness | Is nothing unread overwritten, and does everything `onSamples` writes reach `processLoop`? |
| `latest_ring` | capacity 4, no consumer, one observer | What may `PeekLatest` return on a ring nobody consumes? |
| `safety_monitor` | threshold 3, history 2, cooldown 1, counter modulo 5, times 0..3, skew 1 | When does the monitor trip and recover? |
| `control_path` | threshold 1, 2 PIDs, fairness | How much leaves after a fault or a Disable, and does every check return? |
| `valve_lock` | one valve, lock duration 2, skew 1, audit buffer 2, channel 1, report buffer 2, two locks, one Reset, fairness | Do flag, counters, trail and report agree; how long does a lock last, and does it end? |
| `fault_report` | threshold 2 | expected violation: are the callbacks told of the fault? |
| `packet_transit` | packets of one or two samples, sequence counts 0, 16383 and 16384, frames in buffers of 27 to 64 bytes, ten values for a damaged byte at any place, cuts at any length, up to three bytes of padding | Which packets and frames get through, saying what, and what crashes the program? |
| `payload_returned` | the same | expected violation: are the samples of an intact packet those that were sent? |
| `gateway_flow` | four packets across the wrap of the sequence count, one of them damaged, one a telecommand; channel 1, rings 3, batches 2; two callers, two Starts, two Stops; fairness | Do packets and samples add up, and does Stop end everything? |
| `lock_free` | capacity 2, two producers, two consumers, one peeking thread, batches up to 2, three samples or three nodes (two of one enqueuer, one of the other); fairness | Do the six structures hand over everything once and in order, and say full or empty only when they may? |
| `background` | buffer 4, window 2, batches up to 3, six samples; frames of 2, four of them; timeout of 4 ticks; fairness | Are windows whole, wake-ups kept, which samples of a frame are its own, when does `ReadFront` return, are silences reported once? |

**Bounds and why they suffice.** `MaxSent` stops the producer: positions to twice
the capacity reuse every slot twice, which exercises overwriting and the slot
mask; a larger ring only adds slots, and the invariants are proved for all
sizes. `Word` = 16 lets a wrapped difference be told from a real one (2^64 in the
program). `CountMod` = 5 makes the monitor's counters wrap inside the fault
state. Timestamps 0..3 against a cooldown of 1 and a skew of 1 give late, equal
and early samples on both sides of the cooldown. `Threshold` = 3 separates
isolated from adjacent faults with a leak between. In `control_path` threshold 1
reaches the fault state by one sample, so that all the rest of the state space
goes into the interleavings of callback, operator and Process; two PIDs suffice
for "before, at and after the PID that is being reset". `MaxBatches` = 2
saturates the batch counts: the claims are about "at most one". In `valve_lock` two
locks and two recoveries wrap the audit buffer of two, the channel of one is full
from the first frame on, the report's buffer flushes every second event, and the
duration of 2 is longer than the clocks are apart, so that `LockLasts` has
something to say, and ends before the last sample may come. Valves meet only in the manager: an
instance with two valves, one lock each and no Reset was checked for safety as well
(3.4 million states), and the proofs are for any number. Symmetry over
`Samples` is used in the safety runs of the ring only.

In `packet_transit` a byte is damaged at every position with values that change
each header field (type and version bits, lengths below and above the headers,
flags); a sum of 16-bit words cannot tell 0 from 65535 nor see two errors that
cancel, which is why one byte is changed and not two. In `gateway_flow` the channel
of one is full from the first packet on, the batches of two and three overflow a
ring of three, and `LatestSize` is reached; a second start is what the bound of two
is for, and after one no more than `RestartWire` packets arrive, since from then on
only the channels matter. `GapsCounted` says nothing after a gap of a whole turn of the
14-bit count, which no counter of 14 bits can see; `SomeWire` has no such gap.
`NumberingAssumption` (the source numbers its packets in the order it sends
them) is evaluated on it. `lock_free` with capacity 2 reuses each slot by the third
sample; four samples were checked for safety as well. Capacity 1
is excluded by `RingsAssumption`: there a full slot of `HPRing` or `SlotRing` has the
number of a slot that is free for the next lap, and a second write overwrites an
unread sample. `background` fills a buffer of two windows once and a half, and
swaps the frames four times, so that even and odd sequence numbers occur twice.

**Deadlock** is checked in every run but `valve_lock` and those where everything
may rightly come to rest: a delivered or rejected buffer (`packet_transit`), a stopped
gateway or a panic (`gateway_flow`), a stopped processor or one that waits for data
nobody sends (`background`). In `valve_lock` the program can stop where it should not:
`SetAuditReport` holds `m.mu` and waits for the `v.mu` of a valve that is engaging its
lock and waits for `m.mu`. `LockCycle` names exactly that state, and
`EveryLockCompletes` and `EveryLockEnds` except it and so show that it is the only way for a valve to get
stuck; that deadlock itself is a fact of the code, which no property covers. Nothing in the repository calls `SetAuditReport` yet; a caller has to do so
before the first sample.

**What the runs show.** The ring implements `SampleQueue`: batches enter whole and
in order, and a consumer takes a prefix (`QueueSpec`). `Count` never exceeds the
capacity although its loads are separate, and says "full" only of a full ring;
it can be negative for an instant, when the consumer passes the position it
loaded first. `PeekLatest` is safe on the gateway's `latestRing` because nobody
consumes it, and returns consecutive published samples (that they were the newest when it
loaded `writePos` is not checked); for the same reason that ring fills up for good after 1024 samples
(see the hazards). The monitor detects `FaultThresholdCount` faults in a row
whatever came before, and does not trip on isolated ones. After a fault or a
Disable at most one batch still leaves. `Disable` resets the PIDs beside a `Process` that may be
updating them, so a PID need not be clean after it: it holds nothing, or one update
of the `Process` that was under way, and nothing of the manoeuvre before
(`OneUpdateSurvives`; `late` counts those updates).

In `valve_lock`, locks and recoveries alternate whatever MonitorLoop saw before it
got `v.mu`; it may release a different lock from the one it saw, but never one
before its duration; `ProcessSample` overwrites `v.state` while the valve is locked,
and yet no unlocked valve is reported as locked. A lock ends by time alone,
however bad the health score is then, although the audit event says "valve
health recovered". A timestamp of 0 counts as "never locked" and does not start
the minimum interval.

**Packets** (`packet_transit`). What arrives whole is accepted, with the sequence count
and time it was sent with. No damaged byte lets samples of its packet through,
with two exceptions: the length field, which no checksum can be trusted with
because it says where the packet ends, and the type bit, since `Decode` verifies
type 0 only and `pollLoop` takes samples from both types. A length below 13 in a
packet of at least 20 bytes panics in the capture thread. The encoders' length
checks are too weak (28 for 36 bytes written, 32 for 37); the valve lock's buffer
of 256 bytes is safe. Emergency frames carry neither sequence count nor length
(bytes 2 to 5 are left as they are in the buffer), and the checksum of a command
frame lies at an odd offset, so that `VerifyChecksum16` rejects it intact.

**Lifecycle** (`gateway_flow`). For a gateway started and stopped once, in every
instant each packet and each sample is in exactly one place (`FlowBalances`),
`SequenceErrors` is the number of gaps between decoded packets, however long they are,
at most one batch is written after `Stop` closed the source, and every goroutine ends.
Nothing is claimed of a gateway started again or called from two threads at once, for
nothing in the repository says what it should do, but the run reaches both.
A second Start does not bring it back: the source's close channel is closed
already, so its new `simulateTraffic` closes the packet channel again, and a second
Stop closes `closeCh` again: both panic. Two concurrent Starts start two of each loop.

**Lock-free structures** (`lock_free`). Within their contracts all six hand over every
sample once and in order, and refuse only when the ring is full for the caller.
"Full" may be early: `HPRing` refuses while the oldest position is still being
copied out although later ones are free. So may "empty": `HPRing`'s `Dequeue` returns false
while the oldest sample nobody has claimed is still being stored, even if a later
`Enqueue` has completed, and never otherwise; `SlotRing` says so when everything published
has been read, the other rings when everything published before they loaded `head`
has been, the linked queue when it was empty at some moment of the call
(`EmptyOnlyWhenRead`, `EmptyIsEmpty`). `SeqLockRing`'s `Peek` is sound; of what its `PeekLatest`
and that of `AtomicRing` return, exactly the samples that no reader has released can be
relied on (`PeekIsWhole`), and `PeekLatest` keeps a size it was cut to when it tries again.
`TestSlotRingConcurrent` runs `SlotRing` with four writers and four readers and
`TestDataIntegrityStress` runs `AtomicRing` with three readers: neither has a
compare-and-swap, so both are outside of what holds.

**Background parts** (`background`). No wake-up of `processLoop` is lost: every write
leaves a token, and the loop tests the count again after it took one. A window is handed to the callback in
a buffer that the next window overwrites. `DoubleBuffer` returns the front slice
itself, which the writer fills again after the next swap: each sample read is the frame's
own until the writer has come to its place again. `DoubleSeqLock` counts a
swap before it does it, so a reader in between sees equal numbers and the frame
before, with the same consequence; only a reader whose number was that of the frame gets a whole
one for certain (`ReadsWhole`). Nobody reads after an odd number of swaps: `ReadFront` recurses
until the next one, and otherwise it returns (`ReadFrontEnds`). The watchdog reports a silence once; a `Feed` that comes while
the alarm is on its way does not stop it, and `Feed` does not set `alive`, the next
tick does; a silence that begins while an earlier alarm stands is not reported again.

**Finding** (`payload_returned`). `Decode` writes the payload over the checksum field
(`decoder.go:386`), two bytes before the slice it returns as payload. Of every packet
whose checksum it verifies, that is every thruster packet, `decodeThrusterPayload`
then reads the samples two bytes late: no reading is what was sent, and the valid
bit is taken from a byte of the next sample. The decoder's tests look at the length
of a payload from `Decode`, and at samples only of a payload that never went through it.

**Finding** (`fault_report`). `enterFaultState` hands its callbacks `m.status`
*before* `updateStatus` records the fault, so they see `SystemHealthy = true`. The
operator's message in `cmd/thruster-gateway/main.go` and the `Disable` in
`onSafetyEvent` are both conditional on it being false and do not happen; the
thrusters stop only through the atomic flag, and start again by themselves after
the cooldown. The exception is a monitor that trips on its very first sample,
whose status is still the zero value: `control_path` uses it (threshold 1) to
reach the callback's `Disable`.

**Fairness.** `FairSpec` of the ring: a thread inside an operation continues (weak
fairness; Go's scheduler preempts and resumes goroutines), and the consumer loop
calls again for ever, as `processLoop` does while the gateway runs (`batched_writes`, whose
behaviours include those of a byte ring, with `Write` alone, and those of the gateway's
`sampleRing`, with `WriteBatch` alone). The producer
owes nothing between calls. `FairControlSpec`: the steps of a running goroutine
are weakly fair; acquiring `de.mu` is strongly fair, because `sync.RWMutex` queues
waiters and a waiting writer blocks later readers. Samples and operator
calls are never assumed to happen. `FairSpec` of the valve: the same for `v.mu` and
`m.mu` (strong fairness of the steps that acquire one; a Go mutex hands over to a
starving waiter), the ticker fires, time passes. Nobody need read the
channel, set or flush the report, or send samples. `FairSpec` of `GatewayFlow`: every
goroutine and every call of Start or Stop that is under way goes on, and
`simulateTraffic`, whose select chooses at random among what is ready, sees the
closed channel in the end; nobody need call. `LFSpec`: a thread inside an operation
goes on, and consumers call again and again; each thread's steps together are
weakly fair, so a compare-and-swap may fail as often as others succeed.
`BGSpec`: goroutines, a call of Stop and a read of a frame under way go on, and time passes; nobody need
write, feed or stop. `ReadFrontEnds` is about writers that rest in the end, as the bound on
frames makes them: were they to swap for ever, each swap could come into the middle of a read.

## 4. Proofs

All are checked by TLAPS with SMT, Zenon and LS4.

* **Ring** (`SPSCRingProofs`), for every capacity, word size, batch bound and set of
  observers, assuming `SingleConsumer`, the ring's contract. The claim
  `DeliveredInOrder` is not inductive: it needs that unread slots hold what was
  written (`UnreadKept`), which needs that the producer has room (`WriterInRoom`),
  which holds because its cache is never ahead of the read position (`Positions`)
  and that the consumer's partial copy is right (`ConsumerInData`). Their conjunction is
  `IInv`; the lemmas `SlotInjective` (two positions closer than the capacity have
  different slots) and `FreeIsRoom` (wrapped subtraction is the room) carry the arithmetic.
  `ConsumerRaceFree` follows from `IInv`.
  `RingIsQueue` is the refinement of `SampleQueue`: the contents read off the slots are
  the unread part of the history (`ContentsUnread`), so `Publish` is a `Put`
  (`PublishPuts`), the `ReadReturn` of a read is a `Take` (`ReleaseTakes`), `Clear` is the
  `Reset` and everything else a stutter. `CountNeverOver` and the two theorems about
  `PeekLatest` need one more invariant: a position loaded first from `writePos` is never
  ahead of it (`FirstLoadPublished`). The first assumes positions below half a word, so that
  the difference of a stale `writePos` and a newer `readPos` is a negative `int`; the
  other two assume that nobody consumes, as in `latestRing`, and add what a peeking
  thread has copied (`PeekInData`).
* **Monitor** (first part of `ControlPathProofs`), for every threshold, counter width, skew and
  cooldown. `DetectionBound` needs that outside the fault state the bucket holds at
  least the current run and less than the threshold (`BucketBelowThreshold`): so
  the counter wraps only inside the fault state. `NoTripOnIsolatedFault` needs that
  a bucket one short of the threshold was filled by the last sample
  (`LastFillWasNow`), and `CooldownKept` that `lastFaultTime` lags the newest
  faulty timestamp by at most the skew (`FaultTimeRecent`). `MonitorInv` is their
  conjunction with the type invariant.
* **Control path** (`ControlPathProofs`). `MonitorRefined`: every step of the composition is a
  step of the monitor or leaves it alone, so the monitor's theorems hold of the
  composition (`ComposedFaultsDetected`). `ControlInv` says what each
  stage of `Process` knows (`ProcessKnows`: after one batch in the fault state, `Process` is
  before its test; no PID from the one it is about to update on was updated since the Disable)
and what a `Disable` in progress has reset, or `Process` updated once since (`DisableKnows`). For
every number of axes.

* **Valve lock** (`ValveLockProofs`), for every number of valves, size of the audit
  buffer, channel and report buffer, duration and difference of clocks. `ValveInv` is the
  conjunction of the types, `AuditAgrees` (the parity of a valve's events is its flag),
  `TrailKept` (the event with number j is in slot j - 1 modulo the size),
  `ReportBalances` and `TimesKept` (what MonitorLoop has read is not later than the wall
  clock, and a lock's time is at most the skew behind it). `RecentIsLatest` follows
  from `TrailKept` by `SlotOfEarlier` (going back d slots is going back d events) and
  `LockLasts` from `TimesKept`; `RecordKeepsTrail` is the one lemma that both
  kinds of event use.
* **Gateway** (`GatewayFlowProofs`), for any callers, packets, and sizes of the
  channel, the rings and a batch. `StopIsClean` speaks of one Start and at most one Stop; its
  invariant `OnceInv` adds what every call still has to do (`CallsInTurn`), that the one
  `simulateTraffic` closes the channel and only after the source was closed
  (`ChannelInTurn`), and that a batch in hand then is the last one (`LastBatch`).
  `FlowBalances` and `GapsCounted` rest on `FlowInv`: the types and the number of
  goroutines for any number of starts, and for the first one (`OneFlow`) that there is one
  `pollLoop` (`FirstLoop`), what it has in hand makes the difference between the counters
  (`Balanced`), the packets heard, in hand, in the channel and to come are in
  the order of the wire (`WireOrder`), and `lastSeq` is the count of the last one heard
  (`Remembered`). A gap shows in 14 bits as one in the wire's numbers because
  less than a turn is lost (`GapsSummed`). That a count decoded has 14 bits is not assumed:
  `ReadBits` is unrolled over the two bytes that the 14 bits lie in (`SeenFits`, with the
  lemmas of `PacketDecodingProofs`).
* **Linked queue** (first part of `LockFreeProofs`), for any enqueuers and dequeuers, nodes and size of the
  retired list. `QueueInOrder` is not inductive: that a compare-and-swap on `next` appends at
  the end needs that the linked nodes are one list without repetition and all others
  point nowhere (`Chained`), that `head` is the last node taken and `tail` the last node
  or the one before (`EndsPlaced`), and that every pointer a thread has loaded is
  a place on the list no farther than where the pointer is now, with a `next` that
  never changes again once set (`Known`). That a dequeuer never takes past `tail` needs that
  a `tail` loaded after `head` is not behind it, the order of the loads in the code.
* **Rings** (`LockFreeProofs`), for any producers, consumers and peeking threads, capacity of at
  least two, batch size and number of samples. `RingInv` has two cases.
  `HPRing` and `SlotRing` (`SlotsInv`): the number of a slot says whether it is free for
  a position or holds its sample (`EverySlot`, with `FreeFor` and `Holds`), a thread that
  claimed a position owns its slot until it publishes (`SlotWriter`, `SlotReader`), and no
  two own the same (`WritersApart`, `ReadersApart`). What makes a claim sound is that a slot's
  number cannot come back while the position is still there: `HPRing`'s
  compare-and-swap can succeed only if no one claimed the position since the
  number was read. `SeqLockRing`, `MPSeqRing` and `AtomicRing` (`PlainInv`): samples between `tail` and
  `head` are where they were written, whoever writes has the lock or is the one
  writer and stores outside of them (`PlainWriter`), a reader's copy is right so far
  (`PlainReader`), and a peeking thread's is, sample by sample, if `tail` has not passed it and
  `head` has not moved (`PlainPeeker`, `StillWhole`). What a ring says when it is empty rests on
  `TurnsInv`: in `HPRing` the numbers of the slots only grow, a position a reader claimed had
  its sample, and one a writer claimed has it or the writer is storing it (`HPTurns`); in `SlotRing`
  the positions below the reader's, and no others, have been read, and the slots of the
  published ones above hold their samples (`SlotTurns`). `SlotApart` (positions less than a lap apart have different slots)
  and `SlotLap` carry the arithmetic. `LockFreeInvariant` and `LockFreeInOrder` state the
  result of the specification that `lock_free` checks, for all six structures.
* **Stream buffer** (`BackgroundProofs`), for every capacity, window that fits and length of
  a Write: unread slots hold the samples accepted
  last (`UnreadHeld`, by `IndexInjective`), and every sample accepted was cleared, given
  out, is in hand or is unread (`Accounted`).
* **Frame buffers** (`BackgroundProofs`), for every frame size and length of a `WriteMany`.
  `FramesWhole` needs that the sequence number is ahead of the swaps only between counting
  one and doing it (`SeqCountsSwaps`), that a slice taken since the last swap is the
  front one (`TakenIsFront`), that the writer cannot have filled it again before the next swap
  (`StillBehind`), and that each sample copied from a slice was right when it was copied, unless
  the writer had come to its place (`CopiedIsRight`).
* **Watchdog** (`BackgroundProofs`), for every timeout: after the first alarm the loop's step
  is about the Feed of now (`LoopIsCurrent`), and after the last one allowed nothing
  makes the watchdog alive again but a Feed (`SilentWhenSpent`).

* **Packets and frames** (`PacketDecodingProofs`, `PacketTransitProofs`), for any samples, counts,
  times, frames, lengths of buffers and wrong bytes. `PacketsJudged`, `CrashesExplained` and
  `FramesIntact` say what recursive functions and folds compute on sequences of any length, and
  the library's induction theorems cannot be used. Instead, induction is over a *set*: the
  numbers for which a fact holds are everything, by `WFMin` on the set of the others
  (`SetInduction`). With it the folds of the library are shown to be sums, `WordSum` to be
  the sum of what each byte contributes (`WordSumIs`: 256 times it in an odd place,
  itself in an even one), and `FoldCarries` to be the remainder by 65535 (`FoldCarriesIs`: one's
  complement). So a changed byte changes the sum by less than 65535 and by more than
  nothing, and shows in the remainder (`ChangedSum`, `OnesAreLost`); a changed checksum byte
  shows against an unchanged sum. `ReadBits` is unrolled for the fields of the
  headers, so that what the source writes is what `Decode` reads (`GeneratedIsPacked`,
  `WholeAccepted`) and a changed length still ends in or before the packet or is refused
  (`ByteCaught`, `ByteCrash`). A frame is eight pieces one behind the other (`EightPieces`),
  sealed by a checksum that makes the sum all ones (`ChecksumCompletes`). `TransitInv` says that what is
  on its way is what was sent up to the one damage (`PacketOnItsWay`, `FrameOnItsWay`); it
  has the three properties as conjuncts, because they speak of the state that a
  `Receive` leaves.

**Assumptions on constants** are the named `ASSUME`s of the modules: a positive
capacity below `Word`, positions that do not reach `Word` (2^64 samples at 20 kHz
take 29 million years), disjoint consumers and observers, a threshold below the counter
modulus, at least one axis, at least one valve, and buffers of at least one entry.
`RingsAssumption` and `QueueAssumption` give every thread one role (one that both writes and
reads is two threads of the model, which may interleave in more ways) and a ring at least two
slots. `NumberingAssumption` says that the source numbers its packets one
after the other modulo 2^14 (`source_windows.go:105` increments a `uint16` per packet, of which the header
keeps 14 bits) and that a packet which decodes has kept its number. TLC evaluates it on the run's wire,
which has a damaged packet in it; damage to a length or to the number of a telecommand, which no
checksum covers, is what `PacketTransit` is about. `TransitAssumption` gives the samples, times and frames the widths of
their Go types, takes a duty that fits 16 bits and a health that fits 8 once rounded (the valve
lock builds frames with a duty that is a share of 1 and a health of 0 to 100, in steps of
a ten-thousandth and of one), and at most 18 samples in a packet, so
that the high byte of its length is zero (`source_windows.go:96` puts 10 in each).

**Only model-checked:** liveness (`EverySampleDelivered`, `EveryCheckReturns`, `EveryLockCompletes`,
`EveryLockEnds`, `StopEnds`, `EverythingDelivered`, `WindowsProcessed`, `ReadFrontEnds`, `SilenceReported`),
which needs fairness and `ENABLED`, out of this prover's reach. Every invariant and every
action property of the passing runs has a theorem.

## 5. Not modelled, and why

* The wear model, the zero-crossing detector, the thrust estimator and the PID
  arithmetic are floating point; TLC has none, and their properties are numeric.
* Raw-socket I/O of the Linux source (which does not compile), `config`, `pkg/types`: no
  state of their own.
* `DecodeThrusterSamples` (seven bytes a sample) and `buildPrimaryHeaderFull`: nothing calls them.
* A second consumer of `sampleRing` (`ReadSamples` beside `processLoop`), more writers or readers
  than a ring's contract allows, and `Configure` of a valve lock between two samples.
* Byte counters, and the emergency frames' way through the radio.

## 6. Plan

1. `Configure` of a valve lock between two samples, in the model and in `ValveInv`.
2. A second consumer of `sampleRing` (`ReadSamples` beside `processLoop`).

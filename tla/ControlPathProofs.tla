-------------------------- MODULE ControlPathProofs ---------------------------
(* Proofs about the safety monitor, for every threshold, cooldown, counter   *)
(* width, history length and disorder of timestamps, and about the control   *)
(* path it is part of, for every number of PIDs.                             *)
EXTENDS ControlPath, TLAPS

\* Every sample gets one of the fault codes.
LEMMA CodeType ==
  ASSUME NEW hist, NEW reading
  PROVE  FaultCode(hist, reading) \in Codes
BY DEF FaultCode, RangeCode, Codes

\* A counter stays a uint32, and does not wrap below the threshold.
LEMMA CounterType ==
  ASSUME NEW n \in 0..(CountMod - 1)
  PROVE  /\ Plus1(n) \in 0..(CountMod - 1)
         /\ n < Threshold => Plus1(n) = n + 1
BY CounterAssumption, SMT DEF Plus1

LEMMA LeakType ==
  ASSUME NEW n \in 0..(CountMod - 1)
  PROVE  /\ Leak(n) \in 0..(CountMod - 1)
         /\ n > 0 => Leak(n) = n - 1
         /\ n = 0 => Leak(n) = 0
BY CounterAssumption DEF Leak

LEMMA InitMonitorInv == MonitorInit => MonitorInv
<1> SUFFICES ASSUME MonitorInit PROVE MonitorInv
  OBVIOUS
<1> USE DEF MonitorInit
<1>1. MonitorTypeOK
  <2>1. /\ 0 \in 0..(CountMod - 1) /\ 0 \in 0..(Threshold + 1)
        /\ 0 \in 0..MaxTime /\ 0 \in 0..(HistSize - 1)
    BY CounterAssumption, TimeAssumption, HistAssumption
  <2>2. ZeroStatus \in [healthy : BOOLEAN, code : Codes, lastCode : Codes, ts : 0..MaxTime]
    BY <2>1 DEF ZeroStatus, Codes
  <2>3. [ts |-> 0, code |-> "None"] \in [ts : 0..MaxTime, code : Codes]
    BY <2>1 DEF Codes
  <2> QED
    BY <2>1, <2>2, <2>3 DEF MonitorTypeOK
<1>2. BucketBelowThreshold /\ LastFillWasNow /\ FaultTimeRecent
  BY TimeAssumption DEF BucketBelowThreshold, LastFillWasNow, FaultTimeRecent
<1> QED
  BY <1>1, <1>2 DEF MonitorInv

\* What both branches of CheckSample share.
LEMMA CheckFrame ==
  ASSUME MonitorTypeOK, NEW reading \in Readings, NEW ts \in 0..MaxTime,
         Check(reading, ts)
  PROVE  /\ thrustHist' \in [0..(HistSize - 1) -> Nat] /\ histIdx' \in 0..(HistSize - 1)
         /\ current' \in [ts : 0..MaxTime, code : Codes] /\ current'.ts = ts
         /\ clock' \in 0..MaxTime /\ clock' >= clock /\ clock' >= ts
         /\ status' = status
         /\ Faulty(ts) \/ FaultFree(ts)
<1> DEFINE hist == [thrustHist EXCEPT ![histIdx] = reading.thrust]
           code == FaultCode(hist, reading)
<1>1. reading.thrust \in Nat
  BY ReadingsAssumption
<1>2. hist \in [0..(HistSize - 1) -> Nat]
  BY <1>1 DEF MonitorTypeOK
<1>3. code \in Codes
  BY CodeType
<1>4. (histIdx + 1) % HistSize \in 0..(HistSize - 1)
  BY HistAssumption, SMT DEF MonitorTypeOK
<1>5. /\ thrustHist' = hist /\ histIdx' = (histIdx + 1) % HistSize
      /\ current' = [ts |-> ts, code |-> code]
      /\ clock' = IF ts > clock THEN ts ELSE clock
      /\ status' = status
      /\ Faulty(ts) \/ FaultFree(ts)
  BY DEF Check
<1> HIDE DEF hist, code
<1>6. clock' \in 0..MaxTime /\ clock' >= clock /\ clock' >= ts
  BY <1>5, TimeAssumption DEF MonitorTypeOK
<1> QED
  BY <1>2, <1>3, <1>4, <1>5, <1>6

\* The faulty branch: the bucket fills by one and trips at the threshold.
LEMMA FaultyStep ==
  ASSUME MonitorInv, NEW ts \in 0..MaxTime, ts + Skew >= clock,
         clock' \in 0..MaxTime, clock' >= clock, clock' >= ts, Faulty(ts)
  PROVE  /\ BucketBelowThreshold' /\ LastFillWasNow' /\ FaultTimeRecent'
         /\ consecutiveFaults' \in 0..(CountMod - 1) /\ faultCount' \in 0..(CountMod - 1)
         /\ inFault' \in BOOLEAN /\ mpc' \in {"idle", "notify", "finish"}
         /\ faultStartTime' \in 0..MaxTime /\ lastFaultTime' \in 0..MaxTime
         /\ newestFault' \in 0..MaxTime /\ run' \in 0..(Threshold + 1)
<1> DEFINE n == Plus1(consecutiveFaults)
<1>1. /\ consecutiveFaults \in 0..(CountMod - 1) /\ faultCount \in 0..(CountMod - 1)
      /\ run \in 0..(Threshold + 1) /\ newestFault \in 0..MaxTime /\ clock \in 0..MaxTime
      /\ faultStartTime \in 0..MaxTime /\ inFault \in BOOLEAN
      /\ Threshold \in Nat /\ CountMod \in Nat /\ MaxTime \in Nat /\ Skew \in Nat
  BY CounterAssumption, TimeAssumption DEF MonitorInv, MonitorTypeOK
<1>2. /\ n \in 0..(CountMod - 1)
      /\ consecutiveFaults < Threshold => n = consecutiveFaults + 1
      /\ Plus1(faultCount) \in 0..(CountMod - 1)
  BY <1>1, CounterType
<1>3. /\ consecutiveFaults' = n /\ faultCount' = Plus1(faultCount) /\ lastFaultTime' = ts
      /\ run' = IF run <= Threshold THEN run + 1 ELSE run
      /\ newestFault' = IF ts > newestFault THEN ts ELSE newestFault
      /\ \/ /\ n >= Threshold /\ ~inFault
            /\ inFault' = TRUE /\ faultStartTime' = ts /\ mpc' = "notify"
         \/ /\ ~(n >= Threshold /\ ~inFault)
            /\ mpc' = "finish" /\ inFault' = inFault /\ faultStartTime' = faultStartTime
  BY DEF Faulty, Trips
<1> HIDE DEF n
<1>4. BucketBelowThreshold'
  <2> SUFFICES ASSUME ~inFault' PROVE run' <= n /\ (n > 0 => n < Threshold)
    BY <1>3 DEF BucketBelowThreshold
  <2>1. ~inFault /\ n < Threshold
    BY <1>1, <1>2, <1>3
  <2>2. run <= consecutiveFaults /\ (consecutiveFaults > 0 => consecutiveFaults < Threshold)
    BY <2>1 DEF MonitorInv, BucketBelowThreshold
  <2>3. n = consecutiveFaults + 1
    BY <1>1, <1>2, <2>1, <2>2
  <2> QED BY <1>1, <1>2, <1>3, <2>1, <2>2, <2>3
<1>5. LastFillWasNow'
  BY <1>1, <1>3 DEF LastFillWasNow
<1>6. FaultTimeRecent'
  BY <1>1, <1>3 DEF FaultTimeRecent, MonitorInv
<1>7. /\ inFault' \in BOOLEAN /\ mpc' \in {"idle", "notify", "finish"}
      /\ faultStartTime' \in 0..MaxTime
  BY <1>1, <1>3
<1>8. newestFault' \in 0..MaxTime /\ run' \in 0..(Threshold + 1)
  <2>1. run <= Threshold => run + 1 \in 0..(Threshold + 1)
    BY <1>1
  <2> QED BY <1>1, <1>3, <2>1
<1>9. /\ consecutiveFaults' \in 0..(CountMod - 1) /\ faultCount' \in 0..(CountMod - 1)
      /\ lastFaultTime' \in 0..MaxTime
  BY <1>2, <1>3
<1> QED
  BY <1>4, <1>5, <1>6, <1>7, <1>8, <1>9

\* The fault-free branch: the bucket leaks by one, or a recovery empties it.
LEMMA FaultFreeStep ==
  ASSUME MonitorInv, NEW ts \in 0..MaxTime,
         clock' \in 0..MaxTime, clock' >= clock, FaultFree(ts)
  PROVE  /\ BucketBelowThreshold' /\ LastFillWasNow' /\ FaultTimeRecent'
         /\ consecutiveFaults' \in 0..(CountMod - 1) /\ faultCount' \in 0..(CountMod - 1)
         /\ inFault' \in BOOLEAN /\ mpc' \in {"idle", "notify", "finish"}
         /\ faultStartTime' \in 0..MaxTime /\ lastFaultTime' \in 0..MaxTime
         /\ newestFault' \in 0..MaxTime /\ run' \in 0..(Threshold + 1)
<1> USE DEF MonitorInv
<1>1. /\ consecutiveFaults \in 0..(CountMod - 1) /\ faultCount \in 0..(CountMod - 1)
      /\ run \in 0..(Threshold + 1) /\ newestFault \in 0..MaxTime /\ clock \in 0..MaxTime
      /\ faultStartTime \in 0..MaxTime /\ lastFaultTime \in 0..MaxTime /\ inFault \in BOOLEAN
      /\ Threshold \in Nat /\ CountMod \in Nat /\ Threshold < CountMod
      /\ MaxTime \in Nat /\ Skew \in Nat
  BY CounterAssumption, TimeAssumption DEF MonitorTypeOK
<1>2. /\ mpc' = "finish" /\ run' = 0
      /\ UNCHANGED <<faultCount, lastFaultTime, faultStartTime, newestFault>>
  BY DEF FaultFree
<1>3. /\ faultCount' \in 0..(CountMod - 1) /\ mpc' \in {"idle", "notify", "finish"}
      /\ faultStartTime' \in 0..MaxTime /\ lastFaultTime' \in 0..MaxTime
      /\ newestFault' \in 0..MaxTime
  BY <1>1, <1>2
<1>4. 0 \in 0..(CountMod - 1) /\ run' \in 0..(Threshold + 1)
  BY <1>1, <1>2
<1>5. CASE inFault' = FALSE /\ consecutiveFaults' = 0
  <2>1. BucketBelowThreshold' /\ LastFillWasNow'
    BY <1>2, <1>5 DEF BucketBelowThreshold, LastFillWasNow
  <2>2. FaultTimeRecent'
    BY <1>1, <1>2, <1>5 DEF FaultTimeRecent
  <2>3. inFault' \in BOOLEAN /\ consecutiveFaults' \in 0..(CountMod - 1)
    BY <1>5, <1>4
  <2> QED BY <1>3, <1>4, <2>1, <2>2, <2>3
<1>6. CASE consecutiveFaults' = Leak(consecutiveFaults) /\ inFault' = inFault
  <2>1. /\ Leak(consecutiveFaults) \in 0..(CountMod - 1)
        /\ consecutiveFaults > 0 => Leak(consecutiveFaults) = consecutiveFaults - 1
        /\ consecutiveFaults = 0 => Leak(consecutiveFaults) = 0
    BY <1>1, LeakType
  <2>2. BucketBelowThreshold'
    BY <1>1, <1>2, <1>6, <2>1 DEF BucketBelowThreshold
  <2>3. LastFillWasNow'
    BY <1>1, <1>2, <1>6, <2>1 DEF BucketBelowThreshold, LastFillWasNow
  <2>4. FaultTimeRecent'
    BY <1>1, <1>2, <1>6 DEF FaultTimeRecent
  <2>5. inFault' \in BOOLEAN /\ consecutiveFaults' \in 0..(CountMod - 1)
    BY <1>1, <1>6, <2>1
  <2> QED BY <1>3, <1>4, <2>2, <2>3, <2>4, <2>5
<1> QED BY <1>5, <1>6 DEF FaultFree

LEMMA CheckSampleStep == ASSUME MonitorInv, CheckSample PROVE MonitorInv'
<1>1. PICK reading \in Readings, ts \in 0..MaxTime :
        ts + Skew >= clock /\ Check(reading, ts)
  BY DEF CheckSample
<1>2. /\ thrustHist' \in [0..(HistSize - 1) -> Nat] /\ histIdx' \in 0..(HistSize - 1)
      /\ current' \in [ts : 0..MaxTime, code : Codes]
      /\ clock' \in 0..MaxTime /\ clock' >= clock /\ clock' >= ts
      /\ status' = status
      /\ Faulty(ts) \/ FaultFree(ts)
  BY <1>1, CheckFrame DEF MonitorInv
<1>3. /\ BucketBelowThreshold' /\ LastFillWasNow' /\ FaultTimeRecent'
      /\ consecutiveFaults' \in 0..(CountMod - 1) /\ faultCount' \in 0..(CountMod - 1)
      /\ inFault' \in BOOLEAN /\ mpc' \in {"idle", "notify", "finish"}
      /\ faultStartTime' \in 0..MaxTime /\ lastFaultTime' \in 0..MaxTime
      /\ newestFault' \in 0..MaxTime /\ run' \in 0..(Threshold + 1)
  BY <1>1, <1>2, FaultyStep, FaultFreeStep
<1>4. MonitorTypeOK'
  BY <1>2, <1>3 DEF MonitorTypeOK, MonitorInv
<1> QED BY <1>3, <1>4 DEF MonitorInv

LEMMA NextMonitorInv ==
  ASSUME MonitorInv, [MonitorNext]_monitorVars
  PROVE  MonitorInv'
<1> USE DEF MonitorInv
<1>1. CASE CheckSample
  BY <1>1, CheckSampleStep
<1>2. CASE Notified
  <2> USE <1>2 DEF Notified, historyVars
  <2>1. MonitorTypeOK'
    BY DEF MonitorTypeOK
  <2> QED
    BY <2>1 DEF BucketBelowThreshold, LastFillWasNow, FaultTimeRecent
<1>3. CASE Finish
  <2> USE <1>3 DEF Finish, historyVars
  <2>1. status' \in [healthy : BOOLEAN, code : Codes, lastCode : Codes, ts : 0..MaxTime]
    BY DEF UpdatedStatus, Healthy, MonitorTypeOK
  <2>2. MonitorTypeOK'
    BY <2>1 DEF MonitorTypeOK
  <2> QED
    BY <2>2 DEF BucketBelowThreshold, LastFillWasNow, FaultTimeRecent
<1>4. CASE Reset
  <2> USE <1>4 DEF Reset
  <2>1. /\ 0 \in 0..(CountMod - 1) /\ 0 \in 0..(Threshold + 1)
        /\ 0 \in 0..MaxTime /\ 0 \in 0..(HistSize - 1)
    BY CounterAssumption, TimeAssumption, HistAssumption
  <2>2. ZeroStatus \in [healthy : BOOLEAN, code : Codes, lastCode : Codes, ts : 0..MaxTime]
    BY <2>1 DEF ZeroStatus, Codes
  <2>3. MonitorTypeOK'
    BY <2>1, <2>2 DEF MonitorTypeOK
  <2>4. BucketBelowThreshold' /\ LastFillWasNow'
    BY DEF BucketBelowThreshold, LastFillWasNow
  <2>5. FaultTimeRecent'
    BY TimeAssumption DEF FaultTimeRecent, MonitorTypeOK
  <2> QED BY <2>3, <2>4, <2>5
<1>5. CASE UNCHANGED monitorVars
  <2> USE <1>5 DEF monitorVars, historyVars
  <2>1. MonitorTypeOK'
    BY DEF MonitorTypeOK
  <2> QED
    BY <2>1 DEF BucketBelowThreshold, LastFillWasNow, FaultTimeRecent
<1> QED
  BY <1>1, <1>2, <1>3, <1>4, <1>5 DEF MonitorNext

----------------------------------------------------------------------------
\* MonitorInvariant: the monitor's inductive invariant holds throughout.
THEOREM MonitorInvariant == MonitorSpec => []MonitorInv
<1>1. MonitorInv /\ [MonitorNext]_monitorVars => MonitorInv'
  BY NextMonitorInv
<1> QED
  BY <1>1, InitMonitorInv, PTL DEF MonitorSpec

\* FaultsDetected: Threshold faulty samples in a row always leave the monitor in
\* the fault state, for every threshold below the counter's modulus.
THEOREM FaultsDetected == MonitorSpec => []DetectionBound
<1>1. MonitorInv => DetectionBound
  BY CounterAssumption
     DEF MonitorInv, MonitorTypeOK, BucketBelowThreshold, DetectionBound
<1> QED
  BY <1>1, MonitorInvariant, PTL

\* IsolatedFaultsIgnored: a fault state is entered only on two adjacent faulty
\* samples at least, when the threshold is two or more.
THEOREM IsolatedFaultsIgnored == MonitorSpec => NoTripOnIsolatedFault
<1>1. MonitorInv /\ [MonitorNext]_monitorVars
        => [Threshold >= 2 /\ ~inFault /\ inFault' => run' >= 2]_monitorVars
  <2> SUFFICES ASSUME MonitorInv, MonitorNext, Threshold >= 2, ~inFault, inFault'
               PROVE  run' >= 2
    OBVIOUS
  <2>1. CheckSample
    BY DEF MonitorNext, Notified, Finish, Reset
  <2>2. PICK reading \in Readings, ts \in 0..MaxTime : Check(reading, ts)
    BY <2>1 DEF CheckSample
  <2>3. Faulty(ts)
    BY <2>2 DEF Check, FaultFree
  <2>4. /\ Plus1(consecutiveFaults) >= Threshold
        /\ run' = IF run <= Threshold THEN run + 1 ELSE run
    BY <2>3 DEF Faulty, Trips
  <2>5. /\ consecutiveFaults \in 0..(CountMod - 1) /\ run \in 0..(Threshold + 1)
        /\ Threshold \in Nat /\ CountMod \in Nat
    BY CounterAssumption DEF MonitorInv, MonitorTypeOK
  <2>6. consecutiveFaults < Threshold
    BY <2>5 DEF MonitorInv, BucketBelowThreshold
  <2>7. consecutiveFaults + 1 = Threshold
    BY <2>4, <2>5, <2>6, CounterType
  <2>8. run >= 1
    BY <2>5, <2>7 DEF MonitorInv, LastFillWasNow
  <2> QED BY <2>4, <2>5, <2>8
<1> QED
  BY <1>1, MonitorInvariant, PTL DEF MonitorSpec, NoTripOnIsolatedFault

\* CooldownRespected: CheckSample recovers only with AutoRecovery and more than
\* Cooldown after the newest faulty sample, up to the disorder of timestamps.
THEOREM CooldownRespected == MonitorSpec => CooldownKept
<1>1. MonitorInv /\ [MonitorNext]_monitorVars
        => [inFault /\ ~inFault' /\ ~Reset =>
              AutoRecovery /\ current'.ts + Skew > newestFault + Cooldown]_monitorVars
  <2> SUFFICES ASSUME MonitorInv, MonitorNext, inFault, ~inFault', ~Reset
               PROVE  AutoRecovery /\ current'.ts + Skew > newestFault + Cooldown
    OBVIOUS
  <2>1. CheckSample
    BY DEF MonitorNext, Notified, Finish
  <2>2. PICK reading \in Readings, ts \in 0..MaxTime : Check(reading, ts)
    BY <2>1 DEF CheckSample
  <2>3. current'.ts = ts /\ FaultFree(ts)
    BY <2>2, CheckFrame DEF MonitorInv, Faulty
  <2>4. AutoRecovery /\ ts > lastFaultTime + Cooldown
    BY <2>3 DEF FaultFree, Cooled
  <2> QED
    BY <2>3, <2>4, TimeAssumption DEF MonitorInv, MonitorTypeOK, FaultTimeRecent
<1> QED
  BY <1>1, MonitorInvariant, PTL DEF MonitorSpec, CooldownKept

-------------------------------------------------------------------------------
\* A step of the control path is a step of the monitor or leaves it alone.
LEMMA MonitorStep == ControlNext => [MonitorNext]_monitorVars
<1> SUFFICES ASSUME ControlNext PROVE [MonitorNext]_monitorVars
  OBVIOUS
<1>1. CASE Sample
  BY <1>1 DEF Sample, MonitorNext
<1>2. CASE HealthyEvent
  BY <1>2 DEF HealthyEvent, MonitorNext
<1>3. CASE UnhealthyEvent
  BY <1>3 DEF UnhealthyEvent, Disable
<1>4. CASE SampleDone
  BY <1>4 DEF SampleDone, MonitorNext
<1>5. CASE OperatorCall
  BY <1>5 DEF OperatorCall, SetMode, SetTarget, Enable, Disable
<1>6. CASE \E a \in Actors : ResetPID(a)
  BY <1>6 DEF ResetPID, MonitorNext
<1>7. CASE Tick \/ ManualControl \/ ProcessRuns
  BY <1>7 DEF Tick, ManualControl, ProcessRuns, Decide, ComputeStart, UpdatePID,
              Issue, NoCommand
<1> QED
  BY <1>1, <1>2, <1>3, <1>4, <1>5, <1>6, <1>7 DEF ControlNext

\* The counts of late updates: none, and at the PIDs Process has still to update.
LEMMA LateFacts ==
  /\ NoneLate \in [1..Axes -> 0..MaxBatches] /\ \A k \in 1..Axes : NoneLate[k] = 0
  /\ ControlTypeOK => axis..Axes \subseteq 1..Axes
  /\ ControlTypeOK /\ (\A k \in 1..Axes : late[k] <= 0) => late = NoneLate
<1>1. NoneLate \in [1..Axes -> 0..MaxBatches] /\ \A k \in 1..Axes : NoneLate[k] = 0
  BY DEF NoneLate, MaxBatches
<1>2. ControlTypeOK => axis..Axes \subseteq 1..Axes
  BY AxesAssumption DEF ControlTypeOK
<1>3. ASSUME ControlTypeOK, \A k \in 1..Axes : late[k] <= 0 PROVE late = NoneLate
  <2>1. \A k \in 1..Axes : late[k] = 0
    BY <1>3 DEF ControlTypeOK, MaxBatches
  <2> QED
    BY <1>3, <2>1 DEF ControlTypeOK, NoneLate
<1> QED
  BY <1>1, <1>2, <1>3

LEMMA InitControlInv == ControlInit => ControlInv
<1> SUFFICES ASSUME ControlInit PROVE ControlInv
  OBVIOUS
<1> USE DEF ControlInit, NothingSeen, NoneLate, Actors, Modes, Targets, MaxBatches
<1>1. ControlTypeOK
  <2>1. 0 \in 0..Axes /\ 1 \in 1..Axes /\ 0 \in 0..2
    BY AxesAssumption
  <2> QED BY <2>1 DEF ControlTypeOK
<1>2. Unlocked
  BY DEF Unlocked
<1>3. \A k \in 1..Axes : ~initialized[k] /\ late[k] = 0
  OBVIOUS
<1> QED
  BY <1>1, <1>2, <1>3 DEF ControlInv, ProcessKnows, DisableKnows, OneBatchAfterFault,
                          OneBatchAfterDisable

\* Taking de.mu for Disable.
LEMMA DisableStep ==
  ASSUME ControlInv, NEW a \in Actors, Disable(a), a = "poll" => mpc = "notify" /\ ~status.healthy
  PROVE  ControlInv'
<1> USE DEF ControlInv
<1>1. /\ enabled' = FALSE /\ late' = NoneLate /\ mode' = mode /\ target' = target
      /\ initialized' = initialized /\ apc' = apc /\ seen' = seen /\ aim' = aim
      /\ axis' = axis /\ sinceFault' = sinceFault /\ sinceDisable' = sinceDisable
      /\ mpc' = mpc /\ inFault' = inFault /\ status' = status
      /\ resetting' = [resetting EXCEPT ![a] = 1]
  BY DEF Disable, processVars, monitorVars
<1>2. /\ resetting' \in [Actors -> 0..Axes] /\ resetting'[a] = 1
      /\ \A b \in Actors : b # a => resetting'[b] = 0
  <2>1. 1 \in 0..Axes
    BY AxesAssumption
  <2> QED BY <1>1, <2>1 DEF Disable, ControlTypeOK, Unlocked
<1>3. ControlTypeOK'
  BY <1>1, <1>2, LateFacts DEF ControlTypeOK
<1>4. ProcessKnows' /\ OneBatchAfterFault' /\ OneBatchAfterDisable'
  <2>1. NoneLate' = NoneLate
    BY DEF NoneLate
  <2> QED
    BY <1>1, <2>1, LateFacts DEF ProcessKnows, OneBatchAfterFault, OneBatchAfterDisable, ControlTypeOK
<1>5. \A k \in 1..Axes : resetting'[a] \in 1..k
  BY <1>2, AxesAssumption
<1>6. DisableKnows'
  BY <1>1, <1>2, <1>5 DEF DisableKnows, Actors
<1> QED
  BY <1>3, <1>4, <1>6

\* Resetting one PID, and returning from Disable after the last one.
LEMMA ResetStep ==
  ASSUME ControlInv, NEW a \in Actors, ResetPID(a)
  PROVE  ControlInv'
<1> USE DEF ControlInv
<1> DEFINE k == resetting[a]
<1>1. /\ enabled' = enabled /\ late' = late /\ mode' = mode /\ target' = target
      /\ apc' = apc /\ seen' = seen /\ aim' = aim /\ axis' = axis
      /\ sinceFault' = sinceFault /\ sinceDisable' = sinceDisable
      /\ inFault' = inFault /\ status' = status
      /\ (a = "poll" /\ AfterReset(k) = 0) \/ mpc' = mpc
      /\ initialized' = [initialized EXCEPT ![k] = FALSE]
      /\ resetting' = [resetting EXCEPT ![a] = AfterReset(k)]
  BY DEF ResetPID, engineVars, processVars, countVars, monitorVars, Notified, Clears
<1>2. k \in 1..Axes /\ AfterReset(k) \in 0..Axes
  BY AxesAssumption DEF ResetPID, ControlTypeOK, AfterReset
<1>3. ~enabled /\ \A b \in Actors : b # a => resetting[b] = 0
  BY <1>2 DEF DisableKnows, Unlocked, Actors
<1>4. /\ resetting' \in [Actors -> 0..Axes] /\ resetting'[a] = AfterReset(k)
      /\ \A b \in Actors : b # a => resetting'[b] = 0
  BY <1>1, <1>2, <1>3 DEF ControlTypeOK
<1>5. ControlTypeOK'
  BY <1>1, <1>2, <1>4 DEF ControlTypeOK
<1>6. ProcessKnows' /\ OneBatchAfterFault' /\ OneBatchAfterDisable'
  BY <1>1 DEF ProcessKnows, OneBatchAfterFault, OneBatchAfterDisable, ControlTypeOK
<1>7. ASSUME NEW j \in 1..Axes, initialized'[j], late[j] # 1
      PROVE  resetting'[a] \in 1..j
  <2>1. j # k /\ initialized[j]
    BY <1>1, <1>2, <1>7 DEF ControlTypeOK
  <2>2. k \in 1..j
    BY <1>3, <1>7, <2>1, AxesAssumption DEF DisableKnows
  <2> QED
    BY <1>2, <1>4, <2>1, <2>2, AxesAssumption DEF AfterReset
<1>8. DisableKnows'
  <2>1. resetting'["poll"] = 0 \/ resetting'["operator"] = 0
    BY <1>4 DEF Actors
  <2>2. resetting'["poll"] > 0 => mpc' = "notify" /\ ~status'.healthy
    BY <1>1, <1>2, <1>4 DEF DisableKnows, Actors
  <2> QED
    BY <1>1, <1>3, <1>7, <2>1, <2>2 DEF DisableKnows, Actors
<1> QED
  BY <1>5, <1>6, <1>8

\* The monitor's own steps: entering the fault state starts a new count.
LEMMA MonitorPart ==
  ASSUME ControlInv, Sample \/ HealthyEvent \/ SampleDone
  PROVE  ControlInv'
<1> USE DEF ControlInv
<1>1. /\ enabled' = enabled /\ late' = late /\ mode' = mode /\ target' = target
      /\ apc' = apc /\ seen' = seen /\ aim' = aim /\ axis' = axis
      /\ sinceDisable' = sinceDisable
      /\ initialized' = initialized /\ resetting' = resetting
      /\ \/ sinceFault' = 0
         \/ sinceFault' = sinceFault /\ inFault /\ inFault'
         \/ sinceFault' = sinceFault /\ inFault' = inFault
  BY DEF Sample, HealthyEvent, SampleDone, engineVars, processVars, countVars,
         Notified, Finish
<1>2. ControlTypeOK'
  BY <1>1 DEF ControlTypeOK, MaxBatches
<1>3. ProcessKnows' /\ OneBatchAfterFault' /\ OneBatchAfterDisable'
  BY <1>1 DEF ProcessKnows, OneBatchAfterFault, OneBatchAfterDisable, ControlTypeOK
<1>4. ~(resetting["poll"] > 0)
  BY DEF DisableKnows, Sample, HealthyEvent, SampleDone, CheckSample, Check, Finish
<1>5. Unlocked' = Unlocked
  BY <1>1 DEF Unlocked
<1> QED
  BY <1>1, <1>2, <1>3, <1>4, <1>5 DEF DisableKnows

\* SetMode, SetTarget and Enable find no Disable in progress.
LEMMA SettingStep ==
  ASSUME ControlInv, SetMode \/ SetTarget \/ Enable
  PROVE  ControlInv'
<1> USE DEF ControlInv
<1>1. /\ apc' = apc /\ seen' = seen /\ aim' = aim /\ axis' = axis
      /\ sinceFault' = sinceFault /\ inFault' = inFault /\ mpc' = mpc
      /\ initialized' = initialized /\ resetting' = resetting
      /\ mode' \in Modes /\ target' \in Targets /\ status' = status
      /\ \/ enabled' = enabled /\ sinceDisable' = sinceDisable /\ late' = late
         \/ enabled' = TRUE /\ sinceDisable' = 0 /\ late' = NoneLate
  BY DEF SetMode, SetTarget, Enable, processVars, countVars, monitorVars, ControlTypeOK
<1>2. ControlTypeOK'
  <2>1. enabled' \in BOOLEAN /\ late' \in [1..Axes -> 0..MaxBatches]
    BY <1>1, LateFacts DEF ControlTypeOK
  <2>2. sinceDisable' \in 0..MaxBatches
    BY <1>1 DEF ControlTypeOK, MaxBatches
  <2> QED BY <1>1, <2>1, <2>2 DEF ControlTypeOK
<1>3. ProcessKnows' /\ OneBatchAfterFault' /\ OneBatchAfterDisable'
  <2>1. NoneLate' = NoneLate
    BY DEF NoneLate
  <2>2. CASE enabled' = enabled /\ sinceDisable' = sinceDisable /\ late' = late
    BY <1>1, <2>1, <2>2 DEF ProcessKnows, OneBatchAfterFault, OneBatchAfterDisable
  <2>3. CASE enabled' = TRUE /\ sinceDisable' = 0 /\ late' = NoneLate
    <3>1. /\ \A k \in 1..Axes : late'[k] <= IF enabled' THEN 0 ELSE 1
          /\ apc' = "pid" => \A k \in axis'..Axes : late'[k] = 0
      BY <1>1, <2>3, LateFacts
    <3> QED
      BY <1>1, <2>1, <2>3, <3>1 DEF ProcessKnows, OneBatchAfterFault, OneBatchAfterDisable
  <2> QED
    BY <1>1, <2>2, <2>3
<1>4. Unlocked /\ Unlocked'
  BY <1>1 DEF Unlocked, SetMode, SetTarget, Enable
<1>5. DisableKnows'
  BY <1>1, <1>4 DEF DisableKnows
<1> QED
  BY <1>2, <1>3, <1>5

\* Process up to the PIDs: it goes past Decide only with the flag it has read
\* set and, at that moment, no fault.
LEMMA ProcessStep ==
  ASSUME ControlInv, Tick \/ Decide \/ ManualControl \/ ComputeStart \/ NoCommand
  PROVE  ControlInv'
<1> USE DEF ControlInv
<1>1. /\ mode' = mode /\ enabled' = enabled /\ target' = target /\ late' = late
      /\ sinceFault' = sinceFault /\ sinceDisable' = sinceDisable
      /\ inFault' = inFault /\ mpc' = mpc /\ status' = status
      /\ initialized' = initialized /\ resetting' = resetting
  BY DEF Tick, Decide, ManualControl, ComputeStart, NoCommand, engineVars, countVars,
         monitorVars
<1>2. DisableKnows' /\ OneBatchAfterFault' /\ OneBatchAfterDisable'
  BY <1>1 DEF DisableKnows, Unlocked, OneBatchAfterFault, OneBatchAfterDisable
<1>3. 1 \in 1..Axes
  BY AxesAssumption
<1>4. NoneLate' = NoneLate
  BY DEF NoneLate
<1>5. ControlTypeOK' /\ ProcessKnows'
  <2>1. CASE Tick
    <3>1. enabled => late = NoneLate
      BY LateFacts DEF ProcessKnows
    <3> QED
      BY <1>1, <1>4, <2>1, <3>1 DEF Tick, ControlTypeOK, ProcessKnows
  <2>2. CASE Decide
    <3>1. CASE ProcessReturns
      BY <1>1, <1>3, <1>4, <3>1
         DEF ProcessReturns, NothingSeen, ControlTypeOK, ProcessKnows, Modes, Targets
    <3>2. CASE /\ ~inFault /\ seen.enabled /\ apc = "health"
               /\ apc' \in {"compute", "manual"}
               /\ seen' = seen /\ aim' = aim /\ axis' = axis
      <4>1. ControlTypeOK'
        BY <1>1, <3>2 DEF ControlTypeOK
      <4>2. ~inFault' /\ seen'.enabled /\ sinceFault' = 0
        BY <1>1, <3>2 DEF ProcessKnows
      <4>3. ~enabled => sinceDisable = 0
        BY <3>2 DEF ProcessKnows, ControlTypeOK, MaxBatches
      <4>4. late = NoneLate
        BY <3>2 DEF ProcessKnows
      <4> QED BY <1>1, <1>4, <3>2, <4>1, <4>2, <4>3, <4>4 DEF ProcessKnows
    <3> QED BY <2>2, <3>1, <3>2 DEF Decide, Blocked
  <2>3. CASE ManualControl
    BY <1>1, <1>3, <1>4, <2>3
       DEF ManualControl, ProcessReturns, NothingSeen, ControlTypeOK, ProcessKnows,
           Modes, Targets
  <2>4. CASE ComputeStart
    <3>1. late = NoneLate
      BY <2>4 DEF ComputeStart, ProcessKnows
    <3> QED
      BY <1>1, <1>3, <2>4, <3>1, LateFacts DEF ComputeStart, ControlTypeOK, ProcessKnows
  <2>5. CASE NoCommand
    BY <1>1, <1>3, <1>4, <2>5
       DEF NoCommand, ProcessReturns, NothingSeen, ControlTypeOK, ProcessKnows,
           Modes, Targets
  <2> QED
    BY <2>1, <2>2, <2>3, <2>4, <2>5
<1> QED
  BY <1>2, <1>5

LEMMA UpdateStep ==
  ASSUME ControlInv, UpdatePID
  PROVE  ControlInv'
<1> USE DEF ControlInv
<1>1. /\ mode' = mode /\ enabled' = enabled /\ target' = target
      /\ sinceFault' = sinceFault /\ sinceDisable' = sinceDisable
      /\ inFault' = inFault /\ mpc' = mpc /\ status' = status
      /\ resetting' = resetting /\ seen' = seen /\ aim' = aim
      /\ initialized' = [initialized EXCEPT ![axis] = TRUE]
      /\ late' = [late EXCEPT ![axis] = IF enabled THEN @ ELSE Counted(@)]
      /\ apc = "pid"
  BY DEF UpdatePID, engineVars, monitorVars
<1>2. axis' \in 1..Axes /\ apc' \in {"pid", "allocate"}
  BY AxesAssumption DEF UpdatePID, ControlTypeOK
<1>3. late[axis] = 0 /\ axis \in 1..Axes
  BY <1>1, AxesAssumption DEF ProcessKnows, ControlTypeOK
<1>4. /\ late' \in [1..Axes -> 0..MaxBatches]
      /\ late'[axis] = (IF enabled THEN 0 ELSE 1)
      /\ \A k \in 1..Axes : k # axis => late'[k] = late[k]
  BY <1>1, <1>3 DEF ControlTypeOK, Counted, MaxBatches
<1>5. ControlTypeOK'
  BY <1>1, <1>2, <1>4 DEF ControlTypeOK
<1>6. apc' = "pid" => \A k \in axis'..Axes : late'[k] = 0
  <2> SUFFICES ASSUME apc' = "pid", NEW k \in axis'..Axes PROVE late'[k] = 0
    OBVIOUS
  <2>1. axis' = axis + 1 /\ k \in axis..Axes /\ k # axis /\ k \in 1..Axes
    BY <1>2, <1>3 DEF UpdatePID
  <2> QED
    BY <1>1, <1>4, <2>1 DEF ProcessKnows
<1>7. \A k \in 1..Axes : late'[k] <= IF enabled' THEN 0 ELSE 1
  BY <1>1, <1>4 DEF ProcessKnows
<1>8. ProcessKnows' /\ OneBatchAfterFault' /\ OneBatchAfterDisable'
  BY <1>1, <1>2, <1>6, <1>7 DEF ProcessKnows, OneBatchAfterFault, OneBatchAfterDisable
<1>9. ASSUME ~enabled, NEW k \in 1..Axes, initialized'[k]
      PROVE  late'[k] = 1 \/ \E a \in Actors : resetting'[a] \in 1..k
  <2>1. CASE k = axis
    BY <1>4, <1>9, <2>1
  <2>2. CASE k # axis
    BY <1>1, <1>4, <1>9, <2>2 DEF DisableKnows, ControlTypeOK
  <2> QED
    BY <2>1, <2>2
<1>10. DisableKnows'
  BY <1>1, <1>9 DEF DisableKnows, Unlocked
<1> QED
  BY <1>5, <1>8, <1>10

\* A batch leaves in the fault state, or with control disabled, only as the
\* first one, and Process is then idle.
LEMMA IssueStep ==
  ASSUME ControlInv, Issue
  PROVE  ControlInv'
<1> USE DEF ControlInv
<1>1. /\ mode' = mode /\ enabled' = enabled /\ target' = target /\ late' = late
      /\ inFault' = inFault /\ mpc' = mpc /\ status' = status
      /\ initialized' = initialized /\ resetting' = resetting
      /\ apc = "allocate" /\ apc' = "idle" /\ seen' = NothingSeen
      /\ aim' = "near" /\ axis' = 1
      /\ sinceFault' = IF inFault THEN Counted(sinceFault) ELSE 0
      /\ sinceDisable' = IF enabled THEN 0 ELSE Counted(sinceDisable)
  BY DEF Issue, ProcessReturns, engineVars, monitorVars
<1>2. inFault => sinceFault = 0
  BY <1>1 DEF ProcessKnows, ControlTypeOK, MaxBatches
<1>3. ~enabled => sinceDisable = 0
  BY <1>1 DEF ProcessKnows, ControlTypeOK, MaxBatches
<1>4. sinceFault' \in 0..1 /\ sinceDisable' \in 0..1
  BY <1>1, <1>2, <1>3 DEF Counted, MaxBatches
<1>5. ControlTypeOK'
  <2>1. 1 \in 1..Axes
    BY AxesAssumption
  <2> QED BY <1>1, <1>4, <2>1 DEF ControlTypeOK, NothingSeen, Modes, Targets, MaxBatches
<1>6. ProcessKnows' /\ OneBatchAfterFault' /\ OneBatchAfterDisable'
  BY <1>1, <1>4 DEF ProcessKnows, OneBatchAfterFault, OneBatchAfterDisable
<1>7. DisableKnows'
  BY <1>1 DEF DisableKnows, Unlocked
<1> QED
  BY <1>5, <1>6, <1>7

LEMMA StutterStep == ASSUME ControlInv, UNCHANGED controlVars PROVE ControlInv'
BY DEF ControlInv, controlVars, monitorVars, engineVars, processVars, countVars,
       ControlTypeOK, ProcessKnows, DisableKnows, Unlocked, OneBatchAfterFault,
       OneBatchAfterDisable, NoneLate

LEMMA NextControlInv ==
  ASSUME ControlInv, [ControlNext]_controlVars
  PROVE  ControlInv'
<1>1. CASE Sample \/ HealthyEvent \/ SampleDone
  BY <1>1, MonitorPart
<1>2. CASE UnhealthyEvent
  BY <1>2, DisableStep DEF UnhealthyEvent, Actors
<1>3. CASE OperatorCall
  <2>1. CASE Disable("operator")
    BY <2>1, DisableStep DEF Actors
  <2> QED BY <1>3, <2>1, SettingStep DEF OperatorCall
<1>4. CASE \E a \in Actors : ResetPID(a)
  BY <1>4, ResetStep
<1>5. CASE Tick \/ ManualControl \/ ProcessRuns
  BY <1>5, ProcessStep, UpdateStep, IssueStep DEF ProcessRuns
<1>6. CASE UNCHANGED controlVars
  BY <1>6, StutterStep
<1> QED
  BY <1>1, <1>2, <1>3, <1>4, <1>5, <1>6 DEF ControlNext

----------------------------------------------------------------------------
\* MonitorRefined: composed with the gateway's callbacks, the operator and the
\* attitude loop, the monitor still behaves as SafetyMonitor says, so that what
\* is proved of MonitorSpec holds of the whole control path.
THEOREM MonitorRefined == ControlSpec => MonitorSpec
<1>1. ControlInit => MonitorInit
  BY DEF ControlInit
<1>2. [ControlNext]_controlVars => [MonitorNext]_monitorVars
  BY MonitorStep DEF controlVars
<1> QED
  BY <1>1, <1>2, PTL DEF ControlSpec, MonitorSpec

\* ControlInvariant: the inductive invariant of the control path.
THEOREM ControlInvariant == ControlSpec => []ControlInv
<1>1. ControlInv /\ [ControlNext]_controlVars => ControlInv'
  BY NextControlInv
<1> QED
  BY <1>1, InitControlInv, PTL DEF ControlSpec

\* FaultStopsCommands: at most one batch of thrust commands is issued after the
\* monitor entered its fault state, until it recovers.
THEOREM FaultStopsCommands == ControlSpec => []OneBatchAfterFault
<1>1. ControlInv => OneBatchAfterFault
  BY DEF ControlInv
<1> QED
  BY <1>1, ControlInvariant, PTL

\* DisableStopsCommands: at most one batch is issued after Disable took the
\* lock, until Enable.
THEOREM DisableStopsCommands == ControlSpec => []OneBatchAfterDisable
<1>1. ControlInv => OneBatchAfterDisable
  BY DEF ControlInv
<1> QED
  BY <1>1, ControlInvariant, PTL

\* DisableCleans: while control is disabled, what a PID holds once Disable has
\* returned is nothing, or the single update of the Process that overlapped it.
THEOREM DisableCleans == ControlSpec => []OneUpdateSurvives
<1>1. ControlInv => OneUpdateSurvives
  <2> SUFFICES ASSUME ControlInv, ~enabled, NEW k \in 1..Axes
               PROVE  late[k] <= 1 /\ (Unlocked /\ initialized[k] => late[k] = 1)
    BY DEF OneUpdateSurvives
  <2>1. late[k] <= 1
    BY DEF ControlInv, ProcessKnows
  <2>2. Unlocked => \A a \in Actors : resetting[a] \notin 1..k
    BY AxesAssumption DEF Unlocked
  <2> QED
    BY <2>1, <2>2 DEF ControlInv, DisableKnows
<1> QED
  BY <1>1, ControlInvariant, PTL

\* ComposedFaultsDetected: in the composed system, too, Threshold faulty samples
\* in a row leave the monitor in the fault state.
THEOREM ComposedFaultsDetected == ControlSpec => []DetectionBound
BY MonitorRefined, FaultsDetected, PTL
===============================================================================

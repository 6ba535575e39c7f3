---------------------------- MODULE SafetyMonitor ----------------------------
(* internal/safety/monitor.go: the monitor that classifies every sample,    *)
(* counts faults in a leaky bucket, enters the fault state at a threshold   *)
(* and leaves it after a cooldown.                                          *)
(*                                                                          *)
(* CheckSample runs under m.mu, but inFaultState is an atomic that          *)
(* IsHealthy reads without the lock, and the callbacks run in the middle of *)
(* CheckSample.  So one call is up to three steps: Check (classify, count,  *)
(* store inFaultState), Notified (the callbacks have returned) and Finish   *)
(* (updateStatus and unlock).  Invalid samples return at once and change    *)
(* nothing.  The voltage, current and flow histories are never read, and    *)
(* are left out.                                                            *)
EXTENDS Integers, FiniteSets, FiniteSetsExt

CONSTANTS
  Readings,      \* what a sample measures: records of overVolt, overCurr, flow, thrust
  HistSize,      \* entries of thrustHist, 100 in the program
  DevPercent,    \* MaxThrustDeviation, in percent
  Threshold,     \* FaultThresholdCount
  Cooldown,      \* FaultCooldownMs, in ticks of the sample clock
  AutoRecovery,  \* AutoRecovery
  CountMod,      \* the modulus of a uint32 counter
  MaxTime,       \* bound: the largest timestamp
  Skew           \* how far a timestamp may lag behind the newest one

ASSUME HistAssumption == HistSize \in Nat /\ HistSize > 0
ASSUME ReadingsAssumption ==
  Readings \subseteq [overVolt : BOOLEAN, overCurr : BOOLEAN,
                      flow : {"low", "ok", "high"}, thrust : Nat]
ASSUME CounterAssumption ==
  Threshold \in Nat /\ CountMod \in Nat /\ Threshold < CountMod
ASSUME TimeAssumption ==
  Cooldown \in Nat /\ MaxTime \in Nat /\ Skew \in Nat /\ AutoRecovery \in BOOLEAN

Codes == {"None", "AnodeOverVolt", "GridOverCurrent", "FlowHigh", "FlowLow",
          "ThrustMismatch"}

VARIABLES
  consecutiveFaults, faultCount,    \* uint32 counters
  inFault,                          \* inFaultState, the atomic
  faultStartTime, lastFaultTime,
  thrustHist, histIdx,              \* the thrust history and its write index
  status,                           \* the SafetyStatus that Status() returns
  mpc, current,                     \* where CheckSample is, and its sample
  run, clock, newestFault           \* history: see below

\* run          faulty samples in a row, up to now (bound: Threshold + 1)
\* clock        the newest timestamp seen
\* newestFault  the newest timestamp of a faulty sample

historyVars == <<run, clock, newestFault>>
monitorVars == <<consecutiveFaults, faultCount, inFault, faultStartTime,
                 lastFaultTime, thrustHist, histIdx, status, mpc, current,
                 historyVars>>

----------------------------------------------------------------------------
\* Plausible slips, one per definition below: each must break a property.
LeakNothing(n) == n
TripAbove(n) == n > Threshold
TripOnAny(n) == n > 0
CooledAtOnce(ts) == AutoRecovery /\ ts >= lastFaultTime

----------------------------------------------------------------------------
\* updateStatus.  The four condition flags of SafetyStatus are the code.
ZeroStatus == [healthy |-> FALSE, code |-> "None", lastCode |-> "None", ts |-> 0]

Healthy(code) == ~inFault

UpdatedStatus(ts, code) ==
  [healthy |-> Healthy(code), code |-> code,
   lastCode |-> IF code = "None" THEN status.lastCode ELSE code, ts |-> ts]

\* The range checks, the first that applies deciding.
RangeCode(reading) ==
  IF reading.overVolt THEN "AnodeOverVolt"
  ELSE IF reading.overCurr THEN "GridOverCurrent"
  ELSE IF reading.flow = "high" THEN "FlowHigh"
  ELSE IF reading.flow = "low" THEN "FlowLow" ELSE "None"

\* thrust exceeds the average of the positive entries of hist by more than
\* DevPercent; hist holds thrust already.
Mismatch(hist, thrust) ==
  LET positive == {i \in DOMAIN hist : hist[i] > 0}
      sum      == MapThenSumSet(LAMBDA i : hist[i], positive)
  IN  /\ thrust > 0
      /\ 100 * (thrust * Cardinality(positive) - sum) > DevPercent * sum

FaultCode(hist, reading) ==
  IF Mismatch(hist, reading.thrust) THEN "ThrustMismatch" ELSE RangeCode(reading)

----------------------------------------------------------------------------
Plus1(n) == (n + 1) % CountMod
Leak(n) == IF n > 0 THEN n - 1 ELSE 0
Trips(n) == n >= Threshold
Cooled(ts) == AutoRecovery /\ ts > lastFaultTime + Cooldown

MonitorInit ==
  /\ consecutiveFaults = 0 /\ faultCount = 0
  /\ inFault = FALSE
  /\ faultStartTime = 0 /\ lastFaultTime = 0
  /\ thrustHist = [i \in 0..(HistSize - 1) |-> 0] /\ histIdx = 0
  /\ status = ZeroStatus
  /\ mpc = "idle" /\ current = [ts |-> 0, code |-> "None"]
  /\ run = 0 /\ clock = 0 /\ newestFault = 0

\* The faulty branch of CheckSample; entering the fault state leaves the
\* callbacks to be run.
Faulty(ts) ==
  LET n == Plus1(consecutiveFaults) IN
  /\ consecutiveFaults' = n
  /\ faultCount' = Plus1(faultCount)
  /\ lastFaultTime' = ts
  /\ \/ /\ Trips(n) /\ ~inFault
        /\ inFault' = TRUE /\ faultStartTime' = ts /\ mpc' = "notify"
     \/ /\ ~(Trips(n) /\ ~inFault)
        /\ mpc' = "finish" /\ UNCHANGED <<inFault, faultStartTime>>
  /\ run' = IF run <= Threshold THEN run + 1 ELSE run
  /\ newestFault' = IF ts > newestFault THEN ts ELSE newestFault

\* The fault-free branch, with the recovery of exitFaultState.
FaultFree(ts) ==
  /\ \/ /\ inFault /\ Cooled(ts)
        /\ inFault' = FALSE /\ consecutiveFaults' = 0
     \/ /\ ~(inFault /\ Cooled(ts))
        /\ consecutiveFaults' = Leak(consecutiveFaults) /\ UNCHANGED inFault
  /\ mpc' = "finish"
  /\ run' = 0
  /\ UNCHANGED <<faultCount, lastFaultTime, faultStartTime, newestFault>>

Check(reading, ts) ==
  /\ mpc = "idle"
  /\ LET hist == [thrustHist EXCEPT ![histIdx] = reading.thrust]
         code == FaultCode(hist, reading)
     IN  /\ thrustHist' = hist
         /\ histIdx' = (histIdx + 1) % HistSize
         /\ current' = [ts |-> ts, code |-> code]
         /\ \/ code # "None" /\ Faulty(ts)
            \/ code = "None" /\ FaultFree(ts)
  /\ clock' = IF ts > clock THEN ts ELSE clock
  /\ UNCHANGED status

\* A sample arrives whose timestamp lags the newest one by at most Skew.
CheckSample ==
  \E reading \in Readings, ts \in 0..MaxTime :
    ts + Skew >= clock /\ Check(reading, ts)

\* enterFaultState has run its callbacks.
Notified ==
  /\ mpc = "notify" /\ mpc' = "finish"
  /\ UNCHANGED <<consecutiveFaults, faultCount, inFault, faultStartTime,
                 lastFaultTime, thrustHist, histIdx, status, current, historyVars>>

Finish ==
  /\ mpc = "finish" /\ mpc' = "idle"
  /\ status' = UpdatedStatus(current.ts, current.code)
  /\ UNCHANGED <<consecutiveFaults, faultCount, inFault, faultStartTime,
                 lastFaultTime, thrustHist, histIdx, current, historyVars>>

\* Reset leaves faultStartTime and lastFaultTime as they are.
Reset ==
  /\ mpc = "idle"
  /\ inFault' = FALSE /\ consecutiveFaults' = 0 /\ faultCount' = 0 /\ histIdx' = 0
  /\ thrustHist' = [i \in 0..(HistSize - 1) |-> 0]
  /\ status' = ZeroStatus
  /\ run' = 0 /\ newestFault' = 0
  /\ UNCHANGED <<faultStartTime, lastFaultTime, mpc, current, clock>>

MonitorNext == CheckSample \/ Notified \/ Finish \/ Reset

MonitorSpec == MonitorInit /\ [][MonitorNext]_monitorVars

----------------------------------------------------------------------------
\* Every variable keeps its type.
MonitorTypeOK ==
  /\ consecutiveFaults \in 0..(CountMod - 1) /\ faultCount \in 0..(CountMod - 1)
  /\ inFault \in BOOLEAN
  /\ faultStartTime \in 0..MaxTime /\ lastFaultTime \in 0..MaxTime
  /\ thrustHist \in [0..(HistSize - 1) -> Nat] /\ histIdx \in 0..(HistSize - 1)
  /\ status \in [healthy : BOOLEAN, code : Codes, lastCode : Codes, ts : 0..MaxTime]
  /\ mpc \in {"idle", "notify", "finish"}
  /\ current \in [ts : 0..MaxTime, code : Codes]
  /\ run \in 0..(Threshold + 1)
  /\ clock \in 0..MaxTime /\ newestFault \in 0..MaxTime

\* DetectionBound: Threshold faulty samples in a row always put the monitor in
\* the fault state, whatever came before them: good samples that leaked the
\* bucket, recoveries, resets, or a wrapped counter never delay it further.
DetectionBound == run > 0 /\ run >= Threshold => inFault

\* NoTripOnIsolatedFault: faulty samples that are never adjacent do not trip a
\* threshold of two or more, however many of them come.
NoTripOnIsolatedFault ==
  [][Threshold >= 2 /\ ~inFault /\ inFault' => run' >= 2]_monitorVars

\* CooldownKept: CheckSample leaves the fault state only with AutoRecovery and
\* only at a sample more than Cooldown later than every faulty sample, up to the
\* disorder Skew of the timestamps.
CooldownKept ==
  [][inFault /\ ~inFault' /\ ~Reset =>
       AutoRecovery /\ current'.ts + Skew > newestFault + Cooldown]_monitorVars

\* The bucket never holds a threshold's worth outside the fault state, and it
\* never holds less than the current run of faulty samples.
BucketBelowThreshold ==
  ~inFault => /\ run <= consecutiveFaults
              /\ consecutiveFaults > 0 => consecutiveFaults < Threshold

\* A bucket one short of the threshold was filled by the last sample.
LastFillWasNow ==
  ~inFault /\ consecutiveFaults > 0 /\ consecutiveFaults + 1 = Threshold => run >= 1

\* lastFaultTime lags the newest faulty timestamp by at most the disorder.
FaultTimeRecent ==
  /\ newestFault <= clock
  /\ inFault => lastFaultTime + Skew >= newestFault

MonitorInv ==
  /\ MonitorTypeOK /\ BucketBelowThreshold /\ LastFillWasNow /\ FaultTimeRecent
=============================================================================

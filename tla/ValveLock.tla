------------------------------ MODULE ValveLock ------------------------------
(* internal/vallock: the safety lock of each valve (safety_lock.go), the     *)
(* manager that owns the locks and the audit report (audit.go).              *)
(*                                                                           *)
(* A call on a valve runs under v.mu, so it is one step, except that engaging*)
(* a lock calls the manager's onEmergencyFrame, which waits for m.mu: until  *)
(* then, and until the lock was audited, vpc keeps v.mu.  SetAuditReport     *)
(* holds m.mu while it waits for one valve's lock after the other.           *)
(*                                                                           *)
(* The wear model and the zero-crossing detector are floating point; a       *)
(* sample brings the health score and the verdict that they return.          *)
EXTENDS Integers, Sequences, FiniteSets

CONSTANTS
  ThrusterCount,         \* valves of the manager
  Scores,                \* health scores, in percent
  HealthThreshold,       \* a score below it makes a row of anomalies a trigger
  ConsecutiveAnomalies,  \* length of that row
  LockDuration,          \* LockDurationUs, in ticks
  MinLockInterval,       \* MinLockIntervalUs, in ticks
  AuditSize,             \* entries of auditBuffer, 512 in the program
  ChannelSize,           \* capacity of emergencyCh, 128 in the program
  BufferSize,            \* bufferSize of the audit report
  Skew,                  \* how far sample clock and wall clock may be apart
  MaxTime,               \* bound: samples come until the wall clock says MaxTime
  MaxRow,                \* bound: anomalies are counted up to MaxRow
  MaxLocks,              \* bound: times a valve is locked between two resets
  MaxResets              \* bound: calls of Reset

ASSUME ValveAssumption == ThrusterCount \in Nat /\ ThrusterCount > 0
ASSUME ScoreAssumption == Scores \subseteq 0..100 /\ HealthThreshold \in Nat
ASSUME LimitAssumption ==
  /\ ConsecutiveAnomalies \in Nat /\ LockDuration \in Nat /\ MinLockInterval \in Nat
  /\ AuditSize \in Nat \ {0} /\ ChannelSize \in Nat /\ BufferSize \in Nat \ {0}
ASSUME BoundAssumption ==
  Skew \in Nat /\ MaxTime \in Nat /\ MaxRow \in Nat
  /\ MaxLocks \in Nat /\ MaxResets \in Nat

Valves == 1..ThrusterCount
Times  == 0..(MaxTime + Skew)                  \* of samples
Walls  == 0..(MaxTime + Skew + LockDuration)   \* of the wall clock
NoTime == -1
States == {"healthy", "wear", "critical", "locked"}
Events == [type : {"lock", "recovery"}, ts : Walls]
NoEvent == [type |-> "none", ts |-> 0]

VARIABLES
  isLocked,                     \* the atomic flag, written under v.mu
  state, healthScore,           \* v.state.State and v.state.HealthScore
  consecAnomalies, lockStartTime, lastLockTime,
  lockCount, recoveryCount,
  auditBuffer, auditIdx, auditCount,
  vpc,                          \* "idle", or how far engageLockLocked is
  loopTime,                     \* the time MonitorLoop has read, or NoTime
  auditCallback,                \* the valve has its audit callback
  managerAt,                    \* the valve SetAuditReport waits for, 0: m.mu is free
  emergencyCh,                  \* the valves whose frames wait in the channel
  report,                       \* the counters of the audit report
  wall,                         \* the wall clock
  log,                          \* history: events of each valve since its last Reset
  lockedAt,                     \* history: wall clock at the last lock
  complete,                     \* history: the report has seen every change of a lock
  resets                        \* history: calls of Reset so far

lockVars    == <<isLocked, state, healthScore, consecAnomalies, lockStartTime,
                 lastLockTime, lockCount, recoveryCount, vpc, lockedAt>>
auditVars   == <<auditBuffer, auditIdx, auditCount, log>>
managerVars == <<auditCallback, managerAt, emergencyCh>>
vars == <<lockVars, auditVars, managerVars, loopTime, report, wall, complete, resets>>

----------------------------------------------------------------------------
\* Plausible slips, one per definition below: each must break a property.
WaitsForRoom(ch) == Len(ch) < ChannelSize
StartsAtLastLock(v, ts) == lastLockTime[v]
RecoveredOnly(v, t) ==
  t >= lockStartTime[v] + LockDuration /\ healthScore[v] >= HealthThreshold
StaysLocked(s) == "locked"
NewestFirst(v, n, i) == (auditIdx[v] - i + AuditSize) % AuditSize
FlushesLate(r) == r.buffered >= BufferSize

----------------------------------------------------------------------------
\* MaxwellMeyerModel.GetState: the class of a score.  The third case of its
\* switch cannot arise: that much wear takes the score below 60.
StateOf(s) == IF s < 30 THEN "critical" ELSE IF s < 60 THEN "wear" ELSE "healthy"

\* DisengageLock's class of a score.
RecoveredState(s) == IF s > 60 THEN "healthy" ELSE "wear"

Init ==
  /\ isLocked = [v \in Valves |-> FALSE]
  /\ state = [v \in Valves |-> "healthy"] /\ healthScore = [v \in Valves |-> 0]
  /\ consecAnomalies = [v \in Valves |-> 0]
  /\ lockStartTime = [v \in Valves |-> 0] /\ lastLockTime = [v \in Valves |-> 0]
  /\ lockCount = [v \in Valves |-> 0] /\ recoveryCount = [v \in Valves |-> 0]
  /\ auditBuffer = [v \in Valves |-> [i \in 0..(AuditSize - 1) |-> NoEvent]]
  /\ auditIdx = [v \in Valves |-> 0] /\ auditCount = [v \in Valves |-> 0]
  /\ vpc = [v \in Valves |-> "idle"] /\ loopTime = [v \in Valves |-> NoTime]
  /\ auditCallback = [v \in Valves |-> FALSE] /\ managerAt = 0
  /\ emergencyCh = <<>>
  /\ report = [events |-> 0, locks |-> 0, recoveries |-> 0, buffered |-> 0, flushed |-> 0]
  /\ wall = 0
  /\ log = [v \in Valves |-> <<>>] /\ lockedAt = [v \in Valves |-> 0]
  /\ complete = TRUE /\ resets = 0

----------------------------------------------------------------------------
\* recordAuditLocked, followed by the audit callback and AuditReport.Record.
FlushesNow(r) == r.buffered + 1 >= BufferSize

Recorded(r, type) ==
  [events     |-> r.events + 1,
   locks      |-> IF type = "lock" THEN r.locks + 1 ELSE r.locks,
   recoveries |-> IF type = "recovery" THEN r.recoveries + 1 ELSE r.recoveries,
   buffered   |-> IF FlushesNow(r) THEN 0 ELSE r.buffered + 1,
   flushed    |-> IF FlushesNow(r) THEN r.flushed + r.buffered + 1 ELSE r.flushed]

RecordAudit(v, event) ==
  /\ auditBuffer' = [auditBuffer EXCEPT ![v][auditIdx[v]] = event]
  /\ auditIdx' = [auditIdx EXCEPT ![v] = (@ + 1) % AuditSize]
  /\ auditCount' = [auditCount EXCEPT ![v] = IF @ < AuditSize THEN @ + 1 ELSE @]
  /\ log' = [log EXCEPT ![v] = Append(@, event)]
  /\ report' = IF auditCallback[v] THEN Recorded(report, event.type) ELSE report

\* ProcessSample: count anomalies, decide, and perhaps engage the lock.
Row(v, verdict) ==
  CASE verdict = "anomaly"  -> consecAnomalies[v] + 1
    [] verdict = "crossing" -> IF consecAnomalies[v] > 0 THEN consecAnomalies[v] - 1 ELSE 0
    [] OTHER                -> consecAnomalies[v]

Triggered(v, s, verdict) ==
  \/ verdict = "anomaly" /\ Row(v, verdict) >= ConsecutiveAnomalies /\ s < HealthThreshold
  \/ s < 20

MayEngage(v, ts) ==
  ~isLocked[v] /\ (lastLockTime[v] = 0 \/ ts > lastLockTime[v] + MinLockInterval)

StartTime(v, ts) == ts

Engage(v, ts) ==
  /\ isLocked' = [isLocked EXCEPT ![v] = TRUE]
  /\ lockStartTime' = [lockStartTime EXCEPT ![v] = StartTime(v, ts)]
  /\ lastLockTime' = [lastLockTime EXCEPT ![v] = ts]
  /\ lockCount' = [lockCount EXCEPT ![v] = @ + 1]
  /\ state' = [state EXCEPT ![v] = "locked"]
  /\ vpc' = [vpc EXCEPT ![v] = "frame"]
  /\ lockedAt' = [lockedAt EXCEPT ![v] = wall]

ProcessSample(v) ==
  /\ vpc[v] = "idle" /\ wall <= MaxTime
  /\ \E ts \in Times, s \in Scores, verdict \in {"none", "crossing", "anomaly"} :
       /\ wall <= ts + Skew /\ ts <= wall + Skew
       /\ Row(v, verdict) <= MaxRow
       /\ consecAnomalies' = [consecAnomalies EXCEPT ![v] = Row(v, verdict)]
       /\ healthScore' = [healthScore EXCEPT ![v] = s]
       /\ \/ /\ Triggered(v, s, verdict) /\ MayEngage(v, ts)
             /\ lockCount[v] < MaxLocks
             /\ Engage(v, ts)
          \/ /\ ~(Triggered(v, s, verdict) /\ MayEngage(v, ts))
             /\ state' = [state EXCEPT ![v] = StateOf(s)]
             /\ UNCHANGED <<isLocked, lockStartTime, lastLockTime, lockCount, vpc, lockedAt>>
  /\ UNCHANGED <<recoveryCount, auditVars, managerVars, loopTime, report, wall, complete, resets>>

\* onEmergencyFrame: under m.mu, a frame that does not fit is dropped.
Accepts(ch) == TRUE
Enqueued(ch, v) == IF Len(ch) < ChannelSize THEN Append(ch, v) ELSE ch

EmergencyFrame(v) ==
  /\ vpc[v] = "frame" /\ managerAt = 0
  /\ Accepts(emergencyCh)
  /\ emergencyCh' = Enqueued(emergencyCh, v)
  /\ vpc' = [vpc EXCEPT ![v] = "audit"]
  /\ UNCHANGED <<isLocked, state, healthScore, consecAnomalies, lockStartTime,
                 lastLockTime, lockCount, recoveryCount, lockedAt, auditVars,
                 auditCallback, managerAt, loopTime, report, wall, complete, resets>>

\* The lock is audited and v.mu released.
LockAudited(v) ==
  /\ vpc[v] = "audit"
  /\ RecordAudit(v, [type |-> "lock", ts |-> lastLockTime[v]])
  /\ vpc' = [vpc EXCEPT ![v] = "idle"]
  /\ UNCHANGED <<isLocked, state, healthScore, consecAnomalies, lockStartTime,
                 lastLockTime, lockCount, recoveryCount, lockedAt, managerVars,
                 loopTime, wall, complete, resets>>

----------------------------------------------------------------------------
\* MonitorLoop: on a tick it finds the valve locked and reads the wall clock;
\* then DisengageLock waits for v.mu, and by then the lock may be another one.
MonitorTick(v) ==
  /\ loopTime[v] = NoTime /\ isLocked[v]
  /\ loopTime' = [loopTime EXCEPT ![v] = wall]
  /\ UNCHANGED <<lockVars, auditVars, managerVars, report, wall, complete, resets>>

Expired(v, t) == t >= lockStartTime[v] + LockDuration

DisengageLock(v) ==
  LET t == loopTime[v] IN
  /\ t # NoTime /\ vpc[v] = "idle"
  /\ loopTime' = [loopTime EXCEPT ![v] = NoTime]
  /\ \/ /\ isLocked[v] /\ Expired(v, t)
        /\ isLocked' = [isLocked EXCEPT ![v] = FALSE]
        /\ consecAnomalies' = [consecAnomalies EXCEPT ![v] = 0]
        /\ recoveryCount' = [recoveryCount EXCEPT ![v] = @ + 1]
        /\ state' = [state EXCEPT ![v] = RecoveredState(healthScore[v])]
        /\ RecordAudit(v, [type |-> "recovery", ts |-> t])
     \/ /\ ~(isLocked[v] /\ Expired(v, t))
        /\ UNCHANGED <<isLocked, consecAnomalies, recoveryCount, state, auditVars, report>>
  /\ UNCHANGED <<healthScore, lockStartTime, lastLockTime, lockCount, vpc, lockedAt,
                 managerVars, wall, complete, resets>>

\* Reset of one valve; the audit report is not told.
Reset(v) ==
  /\ vpc[v] = "idle" /\ resets < MaxResets
  /\ isLocked' = [isLocked EXCEPT ![v] = FALSE]
  /\ state' = [state EXCEPT ![v] = "healthy"]
  /\ healthScore' = [healthScore EXCEPT ![v] = 0]
  /\ consecAnomalies' = [consecAnomalies EXCEPT ![v] = 0]
  /\ lockStartTime' = [lockStartTime EXCEPT ![v] = 0]
  /\ lastLockTime' = [lastLockTime EXCEPT ![v] = 0]
  /\ lockCount' = [lockCount EXCEPT ![v] = 0]
  /\ recoveryCount' = [recoveryCount EXCEPT ![v] = 0]
  /\ auditIdx' = [auditIdx EXCEPT ![v] = 0]
  /\ auditCount' = [auditCount EXCEPT ![v] = 0]
  /\ log' = [log EXCEPT ![v] = <<>>]
  /\ complete' = (complete /\ ~isLocked[v])
  /\ resets' = resets + 1
  /\ UNCHANGED <<auditBuffer, vpc, lockedAt, managerVars, loopTime, report, wall>>

----------------------------------------------------------------------------
\* SetAuditReport, called once: take m.mu, then give each valve its callback,
\* under v.mu.
SetAuditReport ==
  /\ managerAt = 0 /\ ~auditCallback[1]
  /\ managerAt' = 1
  /\ UNCHANGED <<lockVars, auditVars, auditCallback, emergencyCh, loopTime, report,
                 wall, complete, resets>>

SetAuditCallback(v) ==
  /\ managerAt = v /\ vpc[v] = "idle"
  /\ auditCallback' = [auditCallback EXCEPT ![v] = TRUE]
  /\ managerAt' = IF v < ThrusterCount THEN v + 1 ELSE 0
  /\ complete' = (complete /\ ~isLocked[v])
  /\ UNCHANGED <<lockVars, auditVars, emergencyCh, loopTime, report, wall, resets>>

\* Somebody reads the emergency channel, or flushes the report; time passes.
Receive ==
  /\ emergencyCh # <<>> /\ emergencyCh' = Tail(emergencyCh)
  /\ UNCHANGED <<lockVars, auditVars, auditCallback, managerAt, loopTime, report,
                 wall, complete, resets>>

Flush ==
  /\ report.buffered > 0
  /\ report' = [report EXCEPT !.flushed = @ + report.buffered, !.buffered = 0]
  /\ UNCHANGED <<lockVars, auditVars, managerVars, loopTime, wall, complete, resets>>

Tick ==
  /\ wall + 1 \in Walls /\ wall' = wall + 1
  /\ UNCHANGED <<lockVars, auditVars, managerVars, loopTime, report, complete, resets>>

Next ==
  \/ \E v \in Valves : ProcessSample(v) \/ EmergencyFrame(v) \/ LockAudited(v)
  \/ \E v \in Valves : MonitorTick(v) \/ DisengageLock(v) \/ Reset(v)
  \/ SetAuditReport \/ \E v \in Valves : SetAuditCallback(v)
  \/ Receive \/ Flush \/ Tick

Spec == Init /\ [][Next]_vars

\* A call that was made goes on once the mutex it waits for is free (Go's
\* mutexes do not starve a waiter), MonitorLoop ticks, time passes.  Nobody need
\* read the channel, set or flush the report, or send samples.
Fairness ==
  /\ \A v \in Valves : /\ SF_vars(EmergencyFrame(v)) /\ WF_vars(LockAudited(v))
                       /\ WF_vars(MonitorTick(v)) /\ SF_vars(DisengageLock(v))
                       /\ SF_vars(SetAuditCallback(v))
  /\ WF_vars(Tick)

FairSpec == Spec /\ Fairness

----------------------------------------------------------------------------
\* Every variable keeps its type.
TypeOK ==
  /\ isLocked \in [Valves -> BOOLEAN] /\ state \in [Valves -> States]
  /\ healthScore \in [Valves -> 0..100] /\ consecAnomalies \in [Valves -> 0..MaxRow]
  /\ lockStartTime \in [Valves -> Times] /\ lastLockTime \in [Valves -> Times]
  /\ lockCount \in [Valves -> Nat] /\ recoveryCount \in [Valves -> Nat]
  /\ auditBuffer \in [Valves -> [0..(AuditSize - 1) -> Events \cup {NoEvent}]]
  /\ auditIdx \in [Valves -> 0..(AuditSize - 1)] /\ auditCount \in [Valves -> 0..AuditSize]
  /\ vpc \in [Valves -> {"idle", "frame", "audit"}]
  /\ loopTime \in [Valves -> Walls \cup {NoTime}]
  /\ auditCallback \in [Valves -> BOOLEAN] /\ managerAt \in 0..ThrusterCount
  /\ emergencyCh \in Seq(Valves)
  /\ report \in [events : Nat, locks : Nat, recoveries : Nat, buffered : Nat, flushed : Nat]
  /\ wall \in Walls /\ log \in [Valves -> Seq(Events)]
  /\ lockedAt \in [Valves -> Walls] /\ complete \in BOOLEAN /\ resets \in 0..MaxResets

\* The number of events of a valve, with the lock that is being engaged.
Happened(v) == Len(log[v]) + (IF vpc[v] = "idle" THEN 0 ELSE 1)

\* AuditAgrees: locks and recoveries of a valve alternate in its audit trail,
\* the two counters count them, the flag says which came last, and an unlocked
\* valve is never reported in the state Locked.
AuditAgrees ==
  \A v \in Valves :
    /\ \A i \in 1..Len(log[v]) :
         log[v][i].type = IF i % 2 = 1 THEN "lock" ELSE "recovery"
    /\ isLocked[v] <=> Happened(v) % 2 = 1
    /\ lockCount[v] = (Happened(v) + 1) \div 2 /\ recoveryCount[v] = Happened(v) \div 2
    /\ vpc[v] # "idle" => isLocked[v]
    /\ state[v] = "locked" => isLocked[v]

\* RecentAuditEvents: the slot of the i-th of n events, and the events.
RecentSlot(v, n, i) == (auditIdx[v] - n + (i - 1) + AuditSize) % AuditSize
Recent(v, n) ==
  LET k == IF n > auditCount[v] THEN auditCount[v] ELSE n
  IN  [i \in 1..k |-> auditBuffer[v][RecentSlot(v, k, i)]]

\* RecentIsLatest: RecentAuditEvents(n) returns the last n events of the valve
\* since its Reset, oldest first, however often the audit buffer has wrapped.
RecentIsLatest ==
  \A v \in Valves : \A n \in 1..AuditSize :
    LET len == Len(log[v]) IN
    Recent(v, n) = SubSeq(log[v], IF n > len THEN 1 ELSE len - n + 1, len)

\* The buffer holds the latest events, each in the slot of its number.
TrailKept ==
  \A v \in Valves :
    /\ auditIdx[v] = Len(log[v]) % AuditSize
    /\ auditCount[v] = IF Len(log[v]) < AuditSize THEN Len(log[v]) ELSE AuditSize
    /\ \A j \in 1..Len(log[v]) :
         j + AuditSize > Len(log[v]) => auditBuffer[v][(j - 1) % AuditSize] = log[v][j]

\* ReportBalances: the report loses no event between Record and the call of its
\* writer (what the writer does with it, or a nil writer, is left out), and
\* counts as many locks without a recovery as valves are locked, unless a valve
\* was locked when it was reset or when the report was set.
Unaudited == {v \in Valves : isLocked[v] /\ auditCallback[v] /\ vpc[v] = "idle"}

ReportBalances ==
  /\ report.events = report.flushed + report.buffered
  /\ report.buffered < BufferSize
  /\ report.events = report.locks + report.recoveries
  /\ complete => report.locks = report.recoveries + Cardinality(Unaudited)

\* LockLasts: MonitorLoop releases a lock no sooner than the lock duration after
\* it was engaged, up to the difference of the two clocks, although it decides
\* on a flag and a time that it read before it had v.mu.
LockLasts ==
  [][\A v \in Valves : isLocked[v] /\ ~isLocked'[v] /\ resets' = resets =>
        wall + Skew >= lockedAt[v] + LockDuration]_vars

\* What MonitorLoop knows of the two clocks.
TimesKept ==
  \A v \in Valves :
    /\ isLocked[v] => lockedAt[v] <= lockStartTime[v] + Skew
    /\ loopTime[v] # NoTime => loopTime[v] <= wall

ValveInv == TypeOK /\ AuditAgrees /\ TrailKept /\ ReportBalances /\ TimesKept

\* The one cycle of mutexes: SetAuditReport waits for a valve that is engaging
\* its lock and waits for the manager.
LockCycle == \E v \in Valves : vpc[v] = "frame" /\ managerAt = v

\* EveryLockCompletes: a ProcessSample that engages the lock sends its frame and
\* releases v.mu, even if nobody reads the emergency channel, unless a
\* SetAuditReport came between.
EveryLockCompletes ==
  \A v \in Valves : vpc[v] = "frame" ~> (vpc[v] = "idle" \/ LockCycle)

\* EveryLockEnds: MonitorLoop releases every lock in the end, whatever the
\* samples said meanwhile.
EveryLockEnds ==
  \A v \in Valves : isLocked[v] ~> (~isLocked[v] \/ LockCycle)
=============================================================================

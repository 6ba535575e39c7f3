--------------------------- MODULE ValveLockProofs ---------------------------
(* Proofs about the valve locks, their audit trails and the audit report,    *)
(* for every number of valves, buffer size, duration and difference of clocks.*)
EXTENDS ValveLock, FiniteSetTheorems, SequenceTheorems, TLAPS

----------------------------------------------------------------------------
\* Arithmetic of the audit buffer.

LEMMA ModuloType ==
  ASSUME NEW n \in Nat
  PROVE  n % AuditSize \in 0..(AuditSize - 1)
BY LimitAssumption, SMT

\* Two numbers less than the size of the buffer apart have different slots.
LEMMA DifferentSlots ==
  ASSUME NEW m \in Nat, NEW n \in Nat, m < n, n < m + AuditSize
  PROVE  m % AuditSize # n % AuditSize
<1> DEFINE a == m \div AuditSize
           b == n \div AuditSize
<1>1. a \in Int /\ b \in Int /\ AuditSize \in Int
  BY LimitAssumption, SMT
<1>2. m = AuditSize * a + (m % AuditSize) /\ n = AuditSize * b + (n % AuditSize)
  BY LimitAssumption, SMT
<1>3. m % AuditSize \in Int
  BY LimitAssumption, SMT
<1> HIDE DEF a, b
<1>4. b <= a => AuditSize * b <= AuditSize * a
  BY <1>1, LimitAssumption, SMT
<1>5. a < b => AuditSize * a + AuditSize <= AuditSize * b
  BY <1>1, LimitAssumption, SMT
<1>6. AuditSize * a \in Int /\ AuditSize * b \in Int
  BY <1>1, SMT
<1> QED
  BY <1>1, <1>2, <1>3, <1>4, <1>5, <1>6, LimitAssumption

\* The write index moves to the slot of the next event.
LEMMA NextSlotModulo ==
  ASSUME NEW n \in Nat
  PROVE  ((n % AuditSize) + 1) % AuditSize = (n + 1) % AuditSize
<1> DEFINE q == n \div AuditSize
           r == n % AuditSize
           q2 == (n + 1) \div AuditSize
<1>1. q \in Int /\ r \in 0..(AuditSize - 1) /\ n = AuditSize * q + r
  BY LimitAssumption, SMT
<1>2. q2 \in Int /\ (n + 1) % AuditSize \in 0..(AuditSize - 1)
      /\ n + 1 = AuditSize * q2 + ((n + 1) % AuditSize)
  BY LimitAssumption, SMT
<1> DEFINE s == (n + 1) % AuditSize
<1> HIDE DEF q, q2, r, s
<1>3. AuditSize * q \in Int /\ AuditSize * q2 \in Int
  BY <1>1, <1>2, LimitAssumption, SMT
<1>4. q2 > q => AuditSize * q2 >= AuditSize * q + AuditSize
  BY <1>1, <1>2, LimitAssumption, SMT
<1>5. q2 > q + 1 => AuditSize * q2 >= AuditSize * q + AuditSize + AuditSize
  BY <1>1, <1>2, LimitAssumption, SMT
<1>6. q2 < q => AuditSize * q2 + AuditSize <= AuditSize * q
  BY <1>1, <1>2, LimitAssumption, SMT
<1>7. s = IF r + 1 = AuditSize THEN 0 ELSE r + 1
  <2>1. s \in 0..(AuditSize - 1) /\ AuditSize * q + r + 1 = AuditSize * q2 + s
    BY <1>1, <1>2 DEF s
  <2>2. q2 = q \/ q2 = q + 1
    BY <2>1, <1>1, <1>2, <1>3, <1>5, <1>6, LimitAssumption
  <2>3. CASE q2 = q
    BY <2>1, <2>3, <1>1, <1>3, LimitAssumption
  <2>4. CASE q2 = q + 1
    <3>1. AuditSize * q2 = AuditSize * q + AuditSize
      BY <2>4, <1>1, LimitAssumption, SMT
    <3> QED BY <2>1, <3>1, <1>1, <1>3, LimitAssumption
  <2> QED BY <2>2, <2>3, <2>4
<1>8. (r + 1) % AuditSize = IF r + 1 = AuditSize THEN 0 ELSE r + 1
  BY <1>1, LimitAssumption, SMT
<1> QED
  BY <1>7, <1>8 DEF r, s

----------------------------------------------------------------------------
\* The audit trail of one valve, and what recording an event makes of it.
Trail(v) ==
  /\ auditIdx[v] = Len(log[v]) % AuditSize
  /\ auditCount[v] = IF Len(log[v]) < AuditSize THEN Len(log[v]) ELSE AuditSize
  /\ \A j \in 1..Len(log[v]) :
       j + AuditSize > Len(log[v]) => auditBuffer[v][(j - 1) % AuditSize] = log[v][j]

AuditTypeOK ==
  /\ auditBuffer \in [Valves -> [0..(AuditSize - 1) -> Events \cup {NoEvent}]]
  /\ auditIdx \in [Valves -> 0..(AuditSize - 1)] /\ auditCount \in [Valves -> 0..AuditSize]
  /\ log \in [Valves -> Seq(Events)]

LEMMA RecordKeepsTrail ==
  ASSUME AuditTypeOK, TrailKept, NEW v \in Valves, NEW e \in Events, RecordAudit(v, e)
  PROVE  AuditTypeOK' /\ TrailKept'
<1> DEFINE n == Len(log[v])
           i == auditIdx[v]
<1>1. /\ log[v] \in Seq(Events) /\ n \in Nat /\ i = n % AuditSize
      /\ i \in 0..(AuditSize - 1) /\ AuditSize \in Nat \ {0}
  BY LimitAssumption DEF AuditTypeOK, TrailKept
<1>2. /\ auditBuffer' = [auditBuffer EXCEPT ![v] = [@ EXCEPT ![i] = e]]
      /\ log' = [log EXCEPT ![v] = Append(log[v], e)]
      /\ auditIdx' = [auditIdx EXCEPT ![v] = (i + 1) % AuditSize]
  BY DEF RecordAudit
<1>3. /\ log'[v] = Append(log[v], e) /\ log'[v] \in Seq(Events) /\ Len(log'[v]) = n + 1
      /\ \A j \in 1..n : log'[v][j] = log[v][j]
      /\ log'[v][n + 1] = e
  <2>1. log'[v] = Append(log[v], e)
    BY <1>2 DEF AuditTypeOK
  <2> QED BY <2>1, <1>1, AppendProperties
<1>4. auditIdx'[v] = (n + 1) % AuditSize /\ auditIdx'[v] \in 0..(AuditSize - 1)
  <2>1. auditIdx'[v] = ((n % AuditSize) + 1) % AuditSize
    BY <1>1, <1>2 DEF AuditTypeOK
  <2>2. auditIdx'[v] = (n + 1) % AuditSize
    BY <2>1, <1>1, NextSlotModulo
  <2>3. n + 1 \in Nat
    BY <1>1
  <2> QED BY <2>2, <2>3, ModuloType
<1>5. AuditTypeOK'
  <2>1. auditIdx' \in [Valves -> 0..(AuditSize - 1)]
    BY <1>2, <1>4 DEF AuditTypeOK
  <2>2. auditCount' \in [Valves -> 0..AuditSize]
    BY <1>1 DEF AuditTypeOK, RecordAudit
  <2>3. log' \in [Valves -> Seq(Events)]
    BY <1>2, <1>3 DEF AuditTypeOK
  <2>4. auditBuffer' \in [Valves -> [0..(AuditSize - 1) -> Events \cup {NoEvent}]]
    BY <1>2 DEF AuditTypeOK
  <2> QED BY <2>1, <2>2, <2>3, <2>4 DEF AuditTypeOK
<1>6. auditCount'[v] = IF n + 1 < AuditSize THEN n + 1 ELSE AuditSize
  <2>1. auditCount'[v] = IF auditCount[v] < AuditSize THEN auditCount[v] + 1 ELSE auditCount[v]
    BY DEF AuditTypeOK, RecordAudit
  <2>2. auditCount[v] = IF n < AuditSize THEN n ELSE AuditSize
    BY DEF TrailKept
  <2> QED BY <2>1, <2>2, <1>1
<1>7. ASSUME NEW j \in 1..(n + 1), j + AuditSize > n + 1
      PROVE  auditBuffer'[v][(j - 1) % AuditSize] = log'[v][j]
  <2>0. j - 1 \in Nat
    BY <1>1
  <2>1. /\ j - 1 \in Nat /\ (j - 1) % AuditSize \in 0..(AuditSize - 1)
        /\ auditBuffer[v] \in [0..(AuditSize - 1) -> Events \cup {NoEvent}]
        /\ auditBuffer'[v] = [auditBuffer[v] EXCEPT ![i] = e]
    <3>1. (j - 1) % AuditSize \in 0..(AuditSize - 1)
      BY <2>0, ModuloType
    <3> QED BY <2>0, <3>1, <1>2 DEF AuditTypeOK
  <2>2. CASE j = n + 1
    <3>1. (j - 1) % AuditSize = i
      BY <2>2, <1>1
    <3> QED BY <3>1, <2>1, <2>2, <1>3
  <2>3. CASE j # n + 1
    <3>1. j \in 1..n /\ j - 1 < n /\ n < (j - 1) + AuditSize /\ j + AuditSize > n
      BY <1>1, <1>7, <2>3
    <3>2. (j - 1) % AuditSize # i
      BY <3>1, <2>1, <1>1, DifferentSlots
    <3>3. auditBuffer[v][(j - 1) % AuditSize] = log[v][j]
      BY <3>1 DEF TrailKept
    <3> QED BY <3>1, <3>2, <3>3, <2>1, <1>3
  <2> QED BY <2>2, <2>3
<1>8. TrailKept'
  <2>1. ASSUME NEW w \in Valves, w # v PROVE Trail(w)'
    <3>1. /\ auditIdx'[w] = auditIdx[w] /\ auditCount'[w] = auditCount[w]
          /\ auditBuffer'[w] = auditBuffer[w] /\ log'[w] = log[w]
      BY <1>2, <2>1 DEF AuditTypeOK, RecordAudit
    <3> QED BY <3>1 DEF Trail, TrailKept
  <2>2. Trail(v)'
    BY <1>3, <1>4, <1>6, <1>7 DEF Trail
  <2> QED BY <2>1, <2>2 DEF TrailKept, Trail
<1> QED
  BY <1>5, <1>8

----------------------------------------------------------------------------
\* The rest of the type invariant, and the counters of the report.
LockTypeOK ==
  /\ isLocked \in [Valves -> BOOLEAN] /\ state \in [Valves -> States]
  /\ healthScore \in [Valves -> 0..100] /\ consecAnomalies \in [Valves -> 0..MaxRow]
  /\ lockStartTime \in [Valves -> Times] /\ lastLockTime \in [Valves -> Times]
  /\ lockCount \in [Valves -> Nat] /\ recoveryCount \in [Valves -> Nat]
  /\ vpc \in [Valves -> {"idle", "frame", "audit"}]
  /\ lockedAt \in [Valves -> Walls]

ManagerTypeOK ==
  /\ loopTime \in [Valves -> Walls \cup {NoTime}]
  /\ auditCallback \in [Valves -> BOOLEAN] /\ managerAt \in 0..ThrusterCount
  /\ emergencyCh \in Seq(Valves)
  /\ wall \in Walls /\ complete \in BOOLEAN /\ resets \in 0..MaxResets

Reports == [events : Nat, locks : Nat, recoveries : Nat, buffered : Nat, flushed : Nat]

Sums(r) ==
  /\ r.events = r.flushed + r.buffered
  /\ r.buffered < BufferSize
  /\ r.events = r.locks + r.recoveries

Balanced == complete => report.locks = report.recoveries + Cardinality(Unaudited)

LEMMA TypeParts ==
  TypeOK <=> LockTypeOK /\ AuditTypeOK /\ ManagerTypeOK /\ report \in Reports
BY DEF TypeOK, LockTypeOK, AuditTypeOK, ManagerTypeOK, Reports

LEMMA ReportParts == ReportBalances <=> Sums(report) /\ Balanced
BY DEF ReportBalances, Sums, Balanced

LEMMA RecordedSums ==
  ASSUME NEW r \in Reports, Sums(r), NEW type \in {"lock", "recovery"}
  PROVE  /\ Recorded(r, type) \in Reports /\ Sums(Recorded(r, type))
         /\ type = "lock" => /\ Recorded(r, type).locks = r.locks + 1
                             /\ Recorded(r, type).recoveries = r.recoveries
         /\ type = "recovery" => /\ Recorded(r, type).locks = r.locks
                                 /\ Recorded(r, type).recoveries = r.recoveries + 1
BY LimitAssumption DEF Reports, Sums, Recorded, FlushesNow

\* The valves whose lock the report has seen are finitely many.
LEMMA UnauditedFinite == IsFiniteSet(Unaudited) /\ Cardinality(Unaudited) \in Nat
<1>1. IsFiniteSet(Valves)
  BY ValveAssumption, FS_Interval DEF Valves
<1>2. Unaudited \subseteq Valves
  BY DEF Unaudited
<1> QED
  BY <1>1, <1>2, FS_Subset, FS_CardinalityType

\* An event after an even number of them is a lock, after an odd one a recovery.
LEMMA EvenStep ==
  ASSUME NEW n \in Nat, n % 2 # 1
  PROVE  /\ (n + 1) % 2 = 1 /\ ((n + 1) + 1) \div 2 = (n + 1) \div 2 + 1
         /\ (n + 1) \div 2 = n \div 2
OBVIOUS

LEMMA OddStep ==
  ASSUME NEW n \in Nat, n % 2 = 1
  PROVE  /\ (n + 1) % 2 # 1 /\ ((n + 1) + 1) \div 2 = (n + 1) \div 2
         /\ (n + 1) \div 2 = n \div 2 + 1
OBVIOUS

\* What leaves the flag, the counters and the trail alone leaves them in agreement.
LEMMA StillAgrees ==
  ASSUME AuditAgrees, UNCHANGED <<isLocked, state, lockCount, recoveryCount, log>>,
         \A w \in Valves : vpc[w] = "idle" <=> vpc'[w] = "idle"
  PROVE  AuditAgrees'
<1>1. \A w \in Valves : Happened(w)' = Happened(w)
  BY DEF Happened
<1> SUFFICES ASSUME NEW w \in Valves
             PROVE  /\ \A i \in 1..Len(log'[w]) :
                         log'[w][i].type = IF i % 2 = 1 THEN "lock" ELSE "recovery"
                    /\ isLocked'[w] <=> Happened(w)' % 2 = 1
                    /\ lockCount'[w] = (Happened(w)' + 1) \div 2
                    /\ recoveryCount'[w] = Happened(w)' \div 2
                    /\ vpc'[w] # "idle" => isLocked'[w]
                    /\ state'[w] = "locked" => isLocked'[w]
  BY DEF AuditAgrees
<1>2. /\ \A i \in 1..Len(log[w]) :
            log[w][i].type = IF i % 2 = 1 THEN "lock" ELSE "recovery"
      /\ isLocked[w] <=> Happened(w) % 2 = 1
      /\ lockCount[w] = (Happened(w) + 1) \div 2
      /\ recoveryCount[w] = Happened(w) \div 2
      /\ vpc[w] # "idle" => isLocked[w]
      /\ state[w] = "locked" => isLocked[w]
  BY DEF AuditAgrees
<1>3. \A i \in 1..Len(log'[w]) :
        log'[w][i].type = IF i % 2 = 1 THEN "lock" ELSE "recovery"
  BY <1>2
<1>4. /\ isLocked'[w] <=> Happened(w)' % 2 = 1
      /\ lockCount'[w] = (Happened(w)' + 1) \div 2
      /\ recoveryCount'[w] = Happened(w)' \div 2
  BY <1>1, <1>2
<1>5. vpc'[w] # "idle" => isLocked'[w]
  BY <1>2
<1> QED
  BY <1>2, <1>3, <1>4, <1>5

LEMMA StillKept ==
  ASSUME TrailKept, UNCHANGED auditVars
  PROVE  TrailKept'
BY DEF TrailKept, auditVars

LEMMA TimesTyped == Times \subseteq Walls /\ Walls \subseteq Nat
BY LimitAssumption, BoundAssumption DEF Times, Walls

----------------------------------------------------------------------------
LEMMA InitValveInv == Init => ValveInv
<1> SUFFICES ASSUME Init PROVE ValveInv
  OBVIOUS
<1> USE ValveAssumption, LimitAssumption, BoundAssumption
<1>1. TypeOK
  BY DEF Init, TypeOK, States, Times, Walls, Events, NoEvent, NoTime
<1>2. AuditAgrees
  <2>1. \A v \in Valves : Happened(v) = 0 /\ Len(log[v]) = 0
    BY DEF Init, Happened
  <2>2. 0 % 2 # 1 /\ (0 + 1) \div 2 = 0 /\ 0 \div 2 = 0
    OBVIOUS
  <2> QED BY <2>1, <2>2 DEF Init, AuditAgrees
<1>3. TrailKept
  BY DEF Init, TrailKept
<1>4. ReportBalances
  <2>1. Unaudited = {}
    BY DEF Init, Unaudited
  <2>2. Cardinality(Unaudited) = 0
    BY <2>1, FS_EmptySet
  <2> QED BY <2>2 DEF Init, ReportBalances
<1>5. TimesKept
  BY DEF Init, TimesKept
<1> QED
  BY <1>1, <1>2, <1>3, <1>4, <1>5 DEF ValveInv

\* A sample that does not engage the lock changes nothing that is audited;
\* one that does leaves the event to be recorded.
LEMMA ProcessSampleStep ==
  ASSUME ValveInv, NEW v \in Valves, ProcessSample(v)
  PROVE  ValveInv'
<1> USE DEF ValveInv
<1>0. /\ vpc[v] = "idle"
      /\ UNCHANGED <<recoveryCount, auditBuffer, auditIdx, auditCount, log,
                     auditCallback, managerAt, emergencyCh, loopTime, report, wall,
                     complete, resets>>
  BY DEF ProcessSample, auditVars, managerVars
<1>1. PICK ts \in Times, s \in Scores, verdict \in {"none", "crossing", "anomaly"} :
        /\ wall <= ts + Skew
        /\ Row(v, verdict) <= MaxRow
        /\ consecAnomalies' = [consecAnomalies EXCEPT ![v] = Row(v, verdict)]
        /\ healthScore' = [healthScore EXCEPT ![v] = s]
        /\ \/ /\ Triggered(v, s, verdict) /\ MayEngage(v, ts)
              /\ Engage(v, ts)
           \/ /\ state' = [state EXCEPT ![v] = StateOf(s)]
              /\ UNCHANGED <<isLocked, lockStartTime, lastLockTime, lockCount, vpc, lockedAt>>
  BY DEF ProcessSample
<1>2. Row(v, verdict) \in 0..MaxRow /\ s \in 0..100 /\ StateOf(s) \in States
  <2>1. consecAnomalies[v] \in Nat
    BY BoundAssumption DEF TypeOK
  <2>2. Row(v, verdict) \in Nat
    BY <2>1 DEF Row
  <2> QED BY <2>2, <1>1, ScoreAssumption, BoundAssumption DEF StateOf, States
<1>3. CASE MayEngage(v, ts) /\ Engage(v, ts)
  <2>1. /\ ~isLocked[v]
        /\ isLocked' = [isLocked EXCEPT ![v] = TRUE]
        /\ lockStartTime' = [lockStartTime EXCEPT ![v] = ts]
        /\ lastLockTime' = [lastLockTime EXCEPT ![v] = ts]
        /\ lockCount' = [lockCount EXCEPT ![v] = lockCount[v] + 1]
        /\ state' = [state EXCEPT ![v] = "locked"]
        /\ vpc' = [vpc EXCEPT ![v] = "frame"]
        /\ lockedAt' = [lockedAt EXCEPT ![v] = wall]
    BY <1>3 DEF MayEngage, Engage, StartTime
  <2>2. LockTypeOK'
    <3>1. LockTypeOK /\ wall \in Walls
      BY TypeParts DEF ManagerTypeOK
    <3> QED BY <3>1, <1>0, <1>1, <1>2, <2>1 DEF LockTypeOK, States
  <2>3. AuditTypeOK' /\ ManagerTypeOK' /\ report' \in Reports /\ Sums(report')
    BY <1>0, TypeParts, ReportParts DEF AuditTypeOK, ManagerTypeOK, Sums
  <2>4. AuditAgrees'
    <3> SUFFICES ASSUME NEW w \in Valves
                 PROVE  /\ \A i \in 1..Len(log'[w]) :
                             log'[w][i].type = IF i % 2 = 1 THEN "lock" ELSE "recovery"
                        /\ isLocked'[w] <=> Happened(w)' % 2 = 1
                        /\ lockCount'[w] = (Happened(w)' + 1) \div 2
                        /\ recoveryCount'[w] = Happened(w)' \div 2
                        /\ vpc'[w] # "idle" => isLocked'[w]
                        /\ state'[w] = "locked" => isLocked'[w]
      BY DEF AuditAgrees
    <3>1. CASE w = v
      <4>1. Happened(v) = Len(log[v]) /\ Happened(v)' = Len(log[v]) + 1
        BY <1>0, <2>1 DEF Happened, TypeOK
      <4>2. Len(log[v]) \in Nat
        BY DEF TypeOK
      <4>3. Len(log[v]) % 2 # 1 /\ lockCount[v] = (Len(log[v]) + 1) \div 2
            /\ recoveryCount[v] = Len(log[v]) \div 2
        BY <4>1, <2>1 DEF AuditAgrees
      <4>4. /\ (Len(log[v]) + 1) % 2 = 1
            /\ lockCount[v] + 1 = ((Len(log[v]) + 1) + 1) \div 2
            /\ recoveryCount[v] = (Len(log[v]) + 1) \div 2
        BY <4>2, <4>3, EvenStep
      <4>5. isLocked'[v] /\ lockCount'[v] = lockCount[v] + 1 /\ recoveryCount'[v] = recoveryCount[v]
        BY <1>0, <2>1 DEF TypeOK
      <4>6. \A i \in 1..Len(log'[v]) :
               log'[v][i].type = IF i % 2 = 1 THEN "lock" ELSE "recovery"
        BY <1>0 DEF AuditAgrees
      <4> QED BY <4>1, <4>4, <4>5, <4>6, <3>1
    <3>2. CASE w # v
      <4>1. /\ isLocked'[w] = isLocked[w] /\ lockCount'[w] = lockCount[w]
            /\ vpc'[w] = vpc[w] /\ state'[w] = state[w]
        BY <3>2, <2>1 DEF TypeOK
      <4>2. log'[w] = log[w] /\ recoveryCount'[w] = recoveryCount[w]
        BY <1>0
      <4>3. Happened(w)' = Happened(w)
        BY <4>1, <4>2 DEF Happened
      <4> QED BY <4>1, <4>2, <4>3 DEF AuditAgrees
    <3> QED BY <3>1, <3>2
  <2>5. TrailKept'
    BY <1>0 DEF TrailKept
  <2>6. Unaudited' = Unaudited
    BY <1>0, <2>1 DEF Unaudited, TypeOK
  <2>7. Balanced'
    BY <1>0, <2>6, ReportParts DEF Balanced
  <2>8. TimesKept'
    BY <1>0, <1>1, <2>1 DEF TimesKept, TypeOK
  <2> QED BY <2>2, <2>3, <2>4, <2>5, <2>7, <2>8, TypeParts, ReportParts DEF Sums, Balanced, Unaudited,
            ReportBalances, TypeOK, LockTypeOK, AuditTypeOK, ManagerTypeOK, Reports
<1>4. CASE /\ state' = [state EXCEPT ![v] = StateOf(s)]
           /\ UNCHANGED <<isLocked, lockStartTime, lastLockTime, lockCount, vpc, lockedAt>>
  <2>1. TypeOK'
    BY <1>0, <1>1, <1>2, <1>4 DEF TypeOK
  <2>2. StateOf(s) # "locked"
    BY DEF StateOf
  <2>3. AuditAgrees'
    <3>1. \A w \in Valves : Happened(w)' = Happened(w)
      BY <1>0, <1>4 DEF Happened
    <3>2. \A w \in Valves : state'[w] = "locked" => state[w] = "locked"
      BY <1>4, <2>2 DEF TypeOK
    <3> QED BY <1>0, <1>4, <3>1, <3>2 DEF AuditAgrees
  <2>4. TrailKept' /\ TimesKept'
    BY <1>0, <1>4 DEF TrailKept, TimesKept
  <2>5. ReportBalances'
    BY <1>0, <1>4 DEF ReportBalances, Unaudited
  <2> QED BY <2>1, <2>3, <2>4, <2>5
<1> QED
  BY <1>1, <1>3, <1>4

\* Sending or dropping the frame leaves the event to be recorded.
LEMMA EmergencyFrameStep ==
  ASSUME ValveInv, NEW v \in Valves, EmergencyFrame(v)
  PROVE  ValveInv'
<1> USE DEF ValveInv
<1>1. /\ vpc[v] = "frame" /\ vpc' = [vpc EXCEPT ![v] = "audit"]
      /\ emergencyCh' = Enqueued(emergencyCh, v)
      /\ UNCHANGED <<isLocked, state, healthScore, consecAnomalies, lockStartTime,
                     lastLockTime, lockCount, recoveryCount, lockedAt, auditBuffer,
                     auditIdx, auditCount, log, auditCallback, managerAt, loopTime,
                     report, wall, complete, resets>>
  BY DEF EmergencyFrame, auditVars
<1>2. emergencyCh' \in Seq(Valves)
  BY <1>1 DEF TypeOK, Enqueued
<1>3. TypeOK'
  BY <1>1, <1>2 DEF TypeOK
<1>4. AuditAgrees'
  <2>1. \A w \in Valves : vpc[w] = "idle" <=> vpc'[w] = "idle"
    BY <1>1 DEF TypeOK
  <2> QED BY <1>1, <2>1, StillAgrees
<1>5. TrailKept' /\ TimesKept'
  BY <1>1 DEF TrailKept, TimesKept
<1>6. Unaudited' = Unaudited
  BY <1>1 DEF Unaudited, TypeOK
<1>7. ReportBalances'
  BY <1>1, <1>6, ReportParts DEF Balanced, Sums, ReportBalances
<1> QED
  BY <1>3, <1>4, <1>5, <1>7

\* Recording the lock.
LEMMA LockAuditedStep ==
  ASSUME ValveInv, NEW v \in Valves, LockAudited(v)
  PROVE  ValveInv'
<1> USE DEF ValveInv
<1> DEFINE e == [type |-> "lock", ts |-> lastLockTime[v]]
<1>1. /\ vpc[v] = "audit" /\ vpc' = [vpc EXCEPT ![v] = "idle"]
      /\ RecordAudit(v, e)
      /\ UNCHANGED <<isLocked, state, healthScore, consecAnomalies, lockStartTime,
                     lastLockTime, lockCount, recoveryCount, lockedAt, auditCallback,
                     managerAt, emergencyCh, loopTime, wall, complete, resets>>
  BY DEF LockAudited, managerVars
<1>2. e \in Events
  BY TimesTyped DEF TypeOK, Events
<1> HIDE DEF e
<1>3. AuditTypeOK' /\ TrailKept'
  BY <1>1, <1>2, TypeParts, RecordKeepsTrail
<1>4. LockTypeOK' /\ ManagerTypeOK'
  BY <1>1 DEF TypeOK, LockTypeOK, ManagerTypeOK
<1>5. /\ report' = IF auditCallback[v] THEN Recorded(report, "lock") ELSE report
      /\ log' = [log EXCEPT ![v] = Append(log[v], e)]
  BY <1>1 DEF RecordAudit, e
<1>6. /\ log'[v] = Append(log[v], e) /\ Len(log'[v]) = Len(log[v]) + 1
      /\ Len(log[v]) \in Nat
      /\ \A i \in 1..Len(log[v]) : log'[v][i] = log[v][i]
      /\ log'[v][Len(log[v]) + 1] = e
  <2>1. log[v] \in Seq(Events) /\ log'[v] = Append(log[v], e)
    BY <1>5 DEF TypeOK
  <2> QED BY <2>1, <1>2, AppendProperties
<1>7. AuditAgrees'
  <2>1. Happened(v) = Len(log[v]) + 1 /\ Happened(v)' = Len(log[v]) + 1
    BY <1>1, <1>6 DEF Happened, TypeOK
  <2>2. \A w \in Valves : Happened(w)' = Happened(w)
    BY <1>1, <1>5, <2>1 DEF Happened, TypeOK
  <2>3. (Len(log[v]) + 1) % 2 = 1
    BY <1>1, <2>1 DEF AuditAgrees
  <2>4. ASSUME NEW i \in 1..Len(log'[v])
        PROVE  log'[v][i].type = IF i % 2 = 1 THEN "lock" ELSE "recovery"
    <3>1. CASE i = Len(log[v]) + 1
      BY <3>1, <1>6, <2>3 DEF e
    <3>2. CASE i # Len(log[v]) + 1
      <4>1. i \in 1..Len(log[v])
        BY <3>2, <1>6
      <4> QED BY <4>1, <1>6 DEF AuditAgrees
    <3> QED BY <3>1, <3>2
  <2>5. \A w \in Valves : w # v => log'[w] = log[w]
    BY <1>5 DEF TypeOK
  <2>6. \A w \in Valves : vpc'[w] # "idle" => vpc[w] # "idle"
    BY <1>1 DEF TypeOK
  <2> QED BY <1>1, <2>2, <2>4, <2>5, <2>6 DEF AuditAgrees
<1>8. report' \in Reports /\ Sums(report')
  BY <1>5, TypeParts, ReportParts, RecordedSums
<1>9. Balanced'
  <2> SUFFICES ASSUME complete PROVE report'.locks = report'.recoveries + Cardinality(Unaudited')
    BY <1>1 DEF Balanced
  <2>1. isLocked[v] /\ v \notin Unaudited
    BY <1>1 DEF AuditAgrees, Unaudited
  <2>2. Unaudited' = IF auditCallback[v] THEN Unaudited \cup {v} ELSE Unaudited
    BY <1>1, <2>1, SMTT(30) DEF Unaudited, TypeOK
  <2>3. report.locks = report.recoveries + Cardinality(Unaudited)
    BY ReportParts DEF Balanced
  <2>4. CASE auditCallback[v]
    <3>1. Cardinality(Unaudited') = Cardinality(Unaudited) + 1
      BY <2>1, <2>2, <2>4, UnauditedFinite, FS_AddElement
    <3>2. report'.locks = report.locks + 1 /\ report'.recoveries = report.recoveries
      BY <1>5, <2>4, TypeParts, ReportParts, RecordedSums
    <3> QED BY <3>1, <3>2, <2>3, UnauditedFinite, TypeParts DEF Reports
  <2>5. CASE ~auditCallback[v]
    BY <2>5, <2>2, <2>3, <1>5
  <2> QED BY <2>4, <2>5
<1>10. TimesKept'
  BY <1>1 DEF TimesKept
<1> QED
  BY <1>3, <1>4, <1>7, <1>8, <1>9, <1>10, TypeParts, ReportParts
     DEF Sums, Balanced, ReportBalances, TypeOK, LockTypeOK, AuditTypeOK, ManagerTypeOK, Reports

----------------------------------------------------------------------------
\* Releasing the lock, if it is time, and recording the recovery.
LEMMA DisengageStep ==
  ASSUME ValveInv, NEW v \in Valves, DisengageLock(v)
  PROVE  ValveInv'
<1> USE DEF ValveInv
<1> DEFINE t == loopTime[v]
           e == [type |-> "recovery", ts |-> t]
<1>1. /\ t # NoTime /\ vpc[v] = "idle"
      /\ loopTime' = [loopTime EXCEPT ![v] = NoTime]
      /\ UNCHANGED <<healthScore, lockStartTime, lastLockTime, lockCount, vpc, lockedAt,
                     auditCallback, managerAt, emergencyCh, wall, complete, resets>>
  BY DEF DisengageLock, managerVars
<1>2. ManagerTypeOK'
  BY <1>1 DEF TypeOK, ManagerTypeOK
<1>3. CASE /\ isLocked[v]
           /\ isLocked' = [isLocked EXCEPT ![v] = FALSE]
           /\ consecAnomalies' = [consecAnomalies EXCEPT ![v] = 0]
           /\ recoveryCount' = [recoveryCount EXCEPT ![v] = recoveryCount[v] + 1]
           /\ state' = [state EXCEPT ![v] = RecoveredState(healthScore[v])]
           /\ RecordAudit(v, e)
  <2>1. e \in Events
    BY <1>1 DEF TypeOK, Events
  <2> HIDE DEF e
  <2>2. AuditTypeOK' /\ TrailKept'
    BY <1>3, <2>1, TypeParts, RecordKeepsTrail
  <2>3. RecoveredState(healthScore[v]) \in States \ {"locked"}
    BY DEF RecoveredState, States
  <2>4. LockTypeOK'
    <3>1. LockTypeOK
      BY TypeParts
    <3> QED BY <3>1, <1>1, <1>3, <2>3, BoundAssumption DEF LockTypeOK
  <2>5. /\ report' = IF auditCallback[v] THEN Recorded(report, "recovery") ELSE report
        /\ log' = [log EXCEPT ![v] = Append(log[v], e)]
    BY <1>3 DEF RecordAudit, e
  <2>6. /\ log'[v] = Append(log[v], e) /\ Len(log'[v]) = Len(log[v]) + 1
        /\ Len(log[v]) \in Nat
        /\ \A i \in 1..Len(log[v]) : log'[v][i] = log[v][i]
        /\ log'[v][Len(log[v]) + 1] = e
    <3>1. log[v] \in Seq(Events) /\ log'[v] = Append(log[v], e)
      BY <2>5 DEF TypeOK
    <3> QED BY <3>1, <2>1, AppendProperties
  <2>7. AuditAgrees'
    <3>1. Happened(v) = Len(log[v]) /\ Happened(v)' = Len(log[v]) + 1
      BY <1>1, <2>6 DEF Happened, TypeOK
    <3>2. /\ Len(log[v]) % 2 = 1
          /\ lockCount[v] = (Len(log[v]) + 1) \div 2
          /\ recoveryCount[v] = Len(log[v]) \div 2
      BY <1>3, <3>1 DEF AuditAgrees
    <3>3. /\ (Len(log[v]) + 1) % 2 # 1
          /\ lockCount[v] = ((Len(log[v]) + 1) + 1) \div 2
          /\ recoveryCount[v] + 1 = (Len(log[v]) + 1) \div 2
      BY <3>2, <2>6, OddStep
    <3>4. /\ ~isLocked'[v] /\ lockCount'[v] = lockCount[v]
          /\ recoveryCount'[v] = recoveryCount[v] + 1
          /\ state'[v] # "locked" /\ vpc'[v] = "idle"
      BY <1>1, <1>3, <2>3 DEF TypeOK
    <3>5. ASSUME NEW i \in 1..Len(log'[v])
          PROVE  log'[v][i].type = IF i % 2 = 1 THEN "lock" ELSE "recovery"
      <4>1. CASE i = Len(log[v]) + 1
        BY <4>1, <2>6, <3>3 DEF e
      <4>2. CASE i # Len(log[v]) + 1
        <5>1. i \in 1..Len(log[v])
          BY <4>2, <2>6
        <5> QED BY <5>1, <2>6 DEF AuditAgrees
      <4> QED BY <4>1, <4>2
    <3>6. ASSUME NEW w \in Valves, w # v
          PROVE  /\ log'[w] = log[w] /\ isLocked'[w] = isLocked[w] /\ state'[w] = state[w]
                 /\ lockCount'[w] = lockCount[w] /\ recoveryCount'[w] = recoveryCount[w]
                 /\ vpc'[w] = vpc[w] /\ Happened(w)' = Happened(w)
      BY <1>1, <1>3, <2>5, <3>6 DEF TypeOK, Happened
    <3> SUFFICES ASSUME NEW w \in Valves
                 PROVE  /\ \A i \in 1..Len(log'[w]) :
                             log'[w][i].type = IF i % 2 = 1 THEN "lock" ELSE "recovery"
                        /\ isLocked'[w] <=> Happened(w)' % 2 = 1
                        /\ lockCount'[w] = (Happened(w)' + 1) \div 2
                        /\ recoveryCount'[w] = Happened(w)' \div 2
                        /\ vpc'[w] # "idle" => isLocked'[w]
                        /\ state'[w] = "locked" => isLocked'[w]
      BY DEF AuditAgrees
    <3>7. CASE w = v
      BY <3>7, <3>1, <3>3, <3>4, <3>5
    <3>8. CASE w # v
      BY <3>8, <3>6 DEF AuditAgrees
    <3> QED BY <3>7, <3>8
  <2>8. report' \in Reports /\ Sums(report')
    BY <2>5, TypeParts, ReportParts, RecordedSums
  <2>9. Balanced'
    <3> SUFFICES ASSUME complete
                 PROVE  report'.locks = report'.recoveries + Cardinality(Unaudited')
      BY <1>1 DEF Balanced
    <3>1. Unaudited' = Unaudited \ {v}
      BY <1>1, <1>3 DEF Unaudited, TypeOK
    <3>2. v \in Unaudited <=> auditCallback[v]
      BY <1>1, <1>3 DEF Unaudited
    <3>3. report.locks = report.recoveries + Cardinality(Unaudited)
      BY ReportParts DEF Balanced
    <3>4. CASE auditCallback[v]
      <4>1. Cardinality(Unaudited') = Cardinality(Unaudited) - 1
        BY <3>1, <3>2, <3>4, UnauditedFinite, FS_RemoveElement
      <4>2. report'.locks = report.locks /\ report'.recoveries = report.recoveries + 1
        BY <2>5, <3>4, TypeParts, ReportParts, RecordedSums
      <4> QED BY <4>1, <4>2, <3>3, UnauditedFinite, TypeParts DEF Reports
    <3>5. CASE ~auditCallback[v]
      <4>1. Unaudited' = Unaudited
        BY <3>1, <3>2, <3>5
      <4> QED BY <4>1, <3>3, <3>5, <2>5
    <3> QED BY <3>4, <3>5
  <2>10. TimesKept'
    BY <1>1, <1>3 DEF TimesKept, TypeOK
  <2> QED
    BY <1>2, <2>2, <2>4, <2>7, <2>8, <2>9, <2>10, TypeParts, ReportParts
       DEF Sums, Balanced, ReportBalances, TypeOK, LockTypeOK, AuditTypeOK, ManagerTypeOK, Reports
<1>4. CASE UNCHANGED <<isLocked, consecAnomalies, recoveryCount, state, auditVars, report>>
  <2>1. TypeOK'
    BY <1>1, <1>4 DEF TypeOK, auditVars
  <2>2. AuditAgrees'
    BY <1>1, <1>4 DEF AuditAgrees, Happened, auditVars
  <2>3. TrailKept' /\ TimesKept'
    BY <1>1, <1>4 DEF TrailKept, TimesKept, auditVars, TypeOK
  <2>4. ReportBalances'
    BY <1>1, <1>4 DEF ReportBalances, Unaudited
  <2> QED BY <2>1, <2>2, <2>3, <2>4
<1> QED
  BY <1>3, <1>4 DEF DisengageLock

\* Reset forgets the trail of a valve together with the flag and the counters.
LEMMA ResetStep ==
  ASSUME ValveInv, NEW v \in Valves, Reset(v)
  PROVE  ValveInv'
<1> USE DEF ValveInv
<1>1. /\ vpc[v] = "idle" /\ resets < MaxResets /\ resets' = resets + 1
      /\ isLocked' = [isLocked EXCEPT ![v] = FALSE]
      /\ state' = [state EXCEPT ![v] = "healthy"]
      /\ healthScore' = [healthScore EXCEPT ![v] = 0]
      /\ consecAnomalies' = [consecAnomalies EXCEPT ![v] = 0]
      /\ lockStartTime' = [lockStartTime EXCEPT ![v] = 0]
      /\ lastLockTime' = [lastLockTime EXCEPT ![v] = 0]
      /\ lockCount' = [lockCount EXCEPT ![v] = 0]
      /\ recoveryCount' = [recoveryCount EXCEPT ![v] = 0]
      /\ auditIdx' = [auditIdx EXCEPT ![v] = 0]
      /\ auditCount' = [auditCount EXCEPT ![v] = 0]
      /\ log' = [log EXCEPT ![v] = <<>>]
      /\ complete' = (complete /\ ~isLocked[v])
      /\ UNCHANGED <<auditBuffer, vpc, lockedAt, auditCallback, managerAt, emergencyCh,
                     loopTime, report, wall>>
  BY DEF Reset, managerVars
<1> USE LimitAssumption, BoundAssumption
<1>2. LockTypeOK'
  <2>1. LockTypeOK
    BY TypeParts
  <2> QED BY <2>1, <1>1 DEF LockTypeOK, States, Times
<1>3. AuditTypeOK' /\ ManagerTypeOK'
  BY <1>1, SMTT(30) DEF TypeOK, AuditTypeOK, ManagerTypeOK
<1>4. Len(log'[v]) = 0 /\ log'[v] = <<>>
  BY <1>1 DEF TypeOK
<1>5. ASSUME NEW w \in Valves, w # v
      PROVE  /\ log'[w] = log[w] /\ isLocked'[w] = isLocked[w] /\ state'[w] = state[w]
             /\ lockCount'[w] = lockCount[w] /\ recoveryCount'[w] = recoveryCount[w]
             /\ auditIdx'[w] = auditIdx[w] /\ auditCount'[w] = auditCount[w]
             /\ lockStartTime'[w] = lockStartTime[w]
             /\ vpc'[w] = vpc[w] /\ Happened(w)' = Happened(w)
  BY <1>1, <1>5 DEF TypeOK, Happened
<1>6. AuditAgrees'
  <2> SUFFICES ASSUME NEW w \in Valves
               PROVE  /\ \A i \in 1..Len(log'[w]) :
                           log'[w][i].type = IF i % 2 = 1 THEN "lock" ELSE "recovery"
                      /\ isLocked'[w] <=> Happened(w)' % 2 = 1
                      /\ lockCount'[w] = (Happened(w)' + 1) \div 2
                      /\ recoveryCount'[w] = Happened(w)' \div 2
                      /\ vpc'[w] # "idle" => isLocked'[w]
                      /\ state'[w] = "locked" => isLocked'[w]
    BY DEF AuditAgrees
  <2>1. CASE w = v
    <3>1. Happened(v)' = 0
      BY <1>1, <1>4 DEF Happened
    <3>2. 0 % 2 # 1 /\ (0 + 1) \div 2 = 0 /\ 0 \div 2 = 0
      OBVIOUS
    <3>3. /\ ~isLocked'[v] /\ lockCount'[v] = 0 /\ recoveryCount'[v] = 0
          /\ state'[v] = "healthy" /\ vpc'[v] = "idle"
      BY <1>1 DEF TypeOK
    <3> QED BY <2>1, <3>1, <3>2, <3>3, <1>4
  <2>2. CASE w # v
    BY <2>2, <1>5 DEF AuditAgrees
  <2> QED BY <2>1, <2>2
<1>7. TrailKept'
  <2> SUFFICES ASSUME NEW w \in Valves PROVE Trail(w)'
    BY DEF TrailKept, Trail
  <2>1. CASE w = v
    <3>1. auditIdx'[v] = 0 /\ auditCount'[v] = 0
      BY <1>1 DEF TypeOK
    <3>2. 0 % AuditSize = 0
      OBVIOUS
    <3> QED BY <2>1, <3>1, <3>2, <1>4 DEF Trail
  <2>2. CASE w # v
    <3>1. Trail(w)
      BY DEF TrailKept, Trail
    <3>2. /\ log'[w] = log[w] /\ auditIdx'[w] = auditIdx[w]
          /\ auditCount'[w] = auditCount[w] /\ auditBuffer' = auditBuffer
      BY <2>2, <1>1, <1>5
    <3> QED BY <3>1, <3>2 DEF Trail
  <2> QED BY <2>1, <2>2
<1>8. ReportBalances'
  <2>1. complete' => Unaudited' = Unaudited
    BY <1>1 DEF Unaudited, TypeOK
  <2> QED BY <1>1, <2>1, ReportParts DEF Sums, Balanced, ReportBalances
<1>9. TimesKept'
  BY <1>1, <1>5 DEF TimesKept, TypeOK
<1> QED
  BY <1>1, <1>2, <1>3, <1>6, <1>7, <1>8, <1>9, TypeParts
     DEF TypeOK, LockTypeOK, AuditTypeOK, ManagerTypeOK, Reports

\* SetAuditReport tells one valve after the other; a valve that is locked by
\* then spoils the balance.
LEMMA SetAuditCallbackStep ==
  ASSUME ValveInv, NEW v \in Valves, SetAuditCallback(v)
  PROVE  ValveInv'
<1> USE DEF ValveInv
<1>1. /\ vpc[v] = "idle"
      /\ auditCallback' = [auditCallback EXCEPT ![v] = TRUE]
      /\ managerAt' = IF v < ThrusterCount THEN v + 1 ELSE 0
      /\ complete' = (complete /\ ~isLocked[v])
      /\ UNCHANGED <<lockVars, auditVars, emergencyCh, loopTime, report, wall, resets>>
  BY DEF SetAuditCallback
<1>2. TypeOK'
  <2>1. ManagerTypeOK'
    <3>1. managerAt' \in 0..ThrusterCount
      BY <1>1, ValveAssumption DEF Valves
    <3>2. complete' \in BOOLEAN
      BY <1>1 DEF TypeOK
    <3>3. auditCallback' \in [Valves -> BOOLEAN]
      BY <1>1 DEF TypeOK
    <3> QED BY <3>1, <3>2, <3>3, <1>1, TypeParts DEF ManagerTypeOK
  <2> QED BY <2>1, <1>1 DEF TypeOK, ManagerTypeOK, lockVars, auditVars
<1>3. AuditAgrees' /\ TrailKept' /\ TimesKept'
  <2>1. AuditAgrees'
    BY <1>1, StillAgrees DEF lockVars, auditVars
  <2>2. TrailKept'
    BY <1>1, StillKept
  <2>3. TimesKept'
    BY <1>1 DEF TimesKept, lockVars
  <2> QED BY <2>1, <2>2, <2>3
<1>4. ReportBalances'
  <2>1. complete' => Unaudited' = Unaudited
    BY <1>1 DEF Unaudited, TypeOK, lockVars
  <2> QED BY <1>1, <2>1, ReportParts DEF Sums, Balanced, ReportBalances
<1> QED
  BY <1>2, <1>3, <1>4

\* Flush moves events from the buffer to the writer.
LEMMA FlushStep == ASSUME ValveInv, Flush PROVE ValveInv'
<1> USE DEF ValveInv
<1>1. /\ report' = [report EXCEPT !.flushed = report.flushed + report.buffered, !.buffered = 0]
      /\ UNCHANGED <<lockVars, auditVars, managerVars, loopTime, wall, complete, resets>>
  BY DEF Flush
<1>2. report \in Reports /\ Sums(report)
  BY TypeParts, ReportParts
<1>3. /\ report' \in Reports /\ Sums(report')
      /\ report'.locks = report.locks /\ report'.recoveries = report.recoveries
  <2>1. report' \in Reports
    <3>1. report.flushed + report.buffered \in Nat
      BY <1>2 DEF Reports
    <3> QED BY <3>1, <1>1, <1>2 DEF Reports
  <2>2. /\ report'.locks = report.locks /\ report'.recoveries = report.recoveries
        /\ report'.events = report.events /\ report'.buffered = 0
        /\ report'.flushed = report.flushed + report.buffered
    BY <1>1, <1>2 DEF Reports
  <2> QED BY <1>2, <2>1, <2>2, LimitAssumption DEF Reports, Sums
<1>4. TypeOK' /\ AuditAgrees' /\ TrailKept' /\ TimesKept'
  <2>1. TypeOK'
    BY <1>1, <1>3 DEF TypeOK, Reports, lockVars, auditVars, managerVars
  <2>2. AuditAgrees'
    BY <1>1, StillAgrees DEF lockVars, auditVars
  <2>3. TrailKept'
    BY <1>1, StillKept
  <2>4. TimesKept'
    BY <1>1 DEF TimesKept, lockVars
  <2> QED BY <2>1, <2>2, <2>3, <2>4
<1>5. ReportBalances'
  BY <1>1, <1>3, ReportParts DEF Sums, Balanced, ReportBalances, Unaudited, lockVars, managerVars
<1> QED
  BY <1>4, <1>5

\* The remaining steps touch neither a valve nor the report.
LEMMA FrameStep ==
  ASSUME ValveInv, UNCHANGED <<lockVars, auditVars, auditCallback, report, complete>>,
         ManagerTypeOK', \A v \in Valves : loopTime'[v] # NoTime => loopTime'[v] <= wall'
  PROVE  ValveInv'
<1> USE DEF ValveInv, lockVars, auditVars
<1>1. TypeOK'
  BY DEF TypeOK, ManagerTypeOK
<1>2. AuditAgrees' /\ TrailKept' /\ TimesKept'
  <2>1. AuditAgrees'
    BY StillAgrees
  <2>2. TrailKept'
    BY StillKept
  <2>3. TimesKept'
    BY DEF TimesKept
  <2> QED BY <2>1, <2>2, <2>3
<1>3. ReportBalances'
  BY DEF ReportBalances, Unaudited
<1> QED
  BY <1>1, <1>2, <1>3

LEMMA NextValveInv == ASSUME ValveInv, [Next]_vars PROVE ValveInv'
<1> USE DEF ValveInv
<1>1. CASE \E v \in Valves : ProcessSample(v) \/ EmergencyFrame(v) \/ LockAudited(v)
  BY <1>1, ProcessSampleStep, EmergencyFrameStep, LockAuditedStep
<1>2. CASE \E v \in Valves : DisengageLock(v) \/ Reset(v) \/ SetAuditCallback(v)
  BY <1>2, DisengageStep, ResetStep, SetAuditCallbackStep
<1>3. ASSUME NEW v \in Valves, MonitorTick(v) PROVE ValveInv'
  <2>1. /\ loopTime' = [loopTime EXCEPT ![v] = wall]
        /\ UNCHANGED <<lockVars, auditVars, managerVars, report, wall, complete, resets>>
    BY <1>3 DEF MonitorTick
  <2>2. ManagerTypeOK'
    BY <2>1 DEF TypeOK, ManagerTypeOK, managerVars
  <2>3. wall \in Nat
    BY TimesTyped DEF TypeOK
  <2>4. \A w \in Valves : loopTime'[w] # NoTime => loopTime'[w] <= wall'
    BY <2>1, <2>3 DEF TimesKept, TypeOK
  <2> QED BY <2>1, <2>2, <2>4, FrameStep DEF managerVars
<1>4. CASE SetAuditReport
  <2>1. ManagerTypeOK'
    BY <1>4, ValveAssumption DEF SetAuditReport, TypeOK, ManagerTypeOK
  <2> QED BY <1>4, <2>1, FrameStep DEF SetAuditReport, TimesKept
<1>5. CASE Receive
  <2>1. Tail(emergencyCh) \in Seq(Valves)
    BY <1>5, HeadTailProperties DEF Receive, TypeOK
  <2>2. ManagerTypeOK'
    BY <1>5, <2>1 DEF Receive, TypeOK, ManagerTypeOK
  <2> QED BY <1>5, <2>2, FrameStep DEF Receive, TimesKept
<1>6. CASE Flush
  BY <1>6, FlushStep
<1>7. CASE Tick
  <2>1. ManagerTypeOK'
    BY <1>7 DEF Tick, TypeOK, ManagerTypeOK, managerVars
  <2>2. \A w \in Valves : loopTime'[w] # NoTime => loopTime'[w] <= wall'
    <3>1. wall \in Nat /\ wall' = wall + 1 /\ loopTime' = loopTime
      BY <1>7, TimesTyped DEF Tick, TypeOK
    <3>2. \A w \in Valves : loopTime[w] # NoTime => loopTime[w] \in Nat
      BY TimesTyped DEF TypeOK
    <3>3. \A w \in Valves : loopTime[w] # NoTime => loopTime[w] <= wall
      BY DEF TimesKept
    <3> QED BY <3>1, <3>2, <3>3
  <2> QED BY <1>7, <2>1, <2>2, FrameStep DEF Tick, managerVars
<1>8. CASE UNCHANGED vars
  <2>1. ManagerTypeOK'
    BY <1>8 DEF vars, TypeOK, ManagerTypeOK, managerVars
  <2> QED BY <1>8, <2>1, FrameStep DEF vars, managerVars, TimesKept
<1> QED
  BY <1>1, <1>2, <1>3, <1>4, <1>5, <1>6, <1>7, <1>8 DEF Next

----------------------------------------------------------------------------
\* ValveInvariant: types, trails, report and times are right in every
\* reachable state.
THEOREM ValveInvariant == Spec => []ValveInv
<1>1. ValveInv /\ [Next]_vars => ValveInv'
  BY NextValveInv
<1> QED
  BY InitValveInv, <1>1, PTL DEF Spec

\* AuditTrailsAgree: for any number of valves, whatever the interleaving of
\* samples, monitor loops, resets and SetAuditReport, locks and recoveries
\* alternate in a valve's trail and agree with its flag and its counters.
THEOREM AuditTrailsAgree == Spec => []AuditAgrees
BY ValveInvariant, PTL DEF ValveInv

\* ReportsBalance: the audit report loses no event between buffer and writer
\* and counts a lock without a recovery for each valve that is locked.
THEOREM ReportsBalance == Spec => []ReportBalances
BY ValveInvariant, PTL DEF ValveInv

\* A number of the form S * q + r has the remainder r.
LEMMA ModuloUnique ==
  ASSUME NEW n \in Nat, NEW q \in Int, NEW r \in 0..(AuditSize - 1), n = AuditSize * q + r
  PROVE  n % AuditSize = r
<1> DEFINE p == n \div AuditSize
           s == n % AuditSize
<1>1. p \in Int /\ s \in 0..(AuditSize - 1) /\ n = AuditSize * p + s
  BY LimitAssumption, SMT
<1> HIDE DEF p, s
<1>2. p < q => AuditSize * p + AuditSize <= AuditSize * q
  BY <1>1, LimitAssumption, SMT
<1>3. q < p => AuditSize * q + AuditSize <= AuditSize * p
  BY <1>1, LimitAssumption, SMT
<1>4. AuditSize * p \in Int /\ AuditSize * q \in Int
  BY <1>1, LimitAssumption, SMT
<1>5. p = q
  BY <1>1, <1>2, <1>3, <1>4, LimitAssumption
<1>6. s = r
  BY <1>1, <1>4, <1>5
<1> QED
  BY <1>6 DEF s

\* Going back d slots from the write index is going back d events.
LEMMA SlotOfEarlier ==
  ASSUME NEW n \in Nat, NEW d \in 1..AuditSize, d <= n
  PROVE  ((n % AuditSize) - d + AuditSize) % AuditSize = (n - d) % AuditSize
<1> DEFINE q == n \div AuditSize
           r == n % AuditSize
<1>1. q \in Int /\ r \in 0..(AuditSize - 1) /\ n = AuditSize * q + r
  BY LimitAssumption, SMT
<1> HIDE DEF q, r
<1>2. AuditSize * (q - 1) = AuditSize * q - AuditSize /\ AuditSize * q \in Int
  BY <1>1, LimitAssumption, SMT
<1>3. CASE r < d
  <2>1. /\ r - d + AuditSize \in 0..(AuditSize - 1) /\ n - d \in Nat /\ q - 1 \in Int
        /\ n - d = AuditSize * (q - 1) + (r - d + AuditSize)
    BY <1>1, <1>2, <1>3, LimitAssumption
  <2>2. (n - d) % AuditSize = r - d + AuditSize
    BY <2>1, ModuloUnique
  <2>3. (r - d + AuditSize) % AuditSize = r - d + AuditSize
    <3>1. r - d + AuditSize \in Nat /\ r - d + AuditSize = AuditSize * 0 + (r - d + AuditSize)
      BY <2>1, LimitAssumption
    <3> QED BY <3>1, <2>1, ModuloUnique
  <2> QED BY <2>2, <2>3 DEF r
<1>4. CASE r >= d
  <2>1. /\ r - d \in 0..(AuditSize - 1) /\ n - d \in Nat
        /\ n - d = AuditSize * q + (r - d)
        /\ r - d + AuditSize \in Nat /\ r - d + AuditSize = AuditSize * 1 + (r - d)
    BY <1>1, <1>2, <1>4, LimitAssumption
  <2>2. (n - d) % AuditSize = r - d
    BY <2>1, <1>1, ModuloUnique
  <2>3. (r - d + AuditSize) % AuditSize = r - d
    BY <2>1, ModuloUnique
  <2> QED BY <2>2, <2>3 DEF r
<1> QED
  BY <1>1, <1>3, <1>4

\* What RecentAuditEvents reads is the end of the trail.
LEMMA TrailIsRecent == ASSUME TypeOK, TrailKept PROVE RecentIsLatest
<1> SUFFICES ASSUME NEW v \in Valves, NEW n \in 1..AuditSize
             PROVE  Recent(v, n) = SubSeq(log[v], IF n > Len(log[v]) THEN 1
                                                  ELSE Len(log[v]) - n + 1, Len(log[v]))
  BY DEF RecentIsLatest
<1> DEFINE l == Len(log[v])
           k == IF n > auditCount[v] THEN auditCount[v] ELSE n
           m == IF n > l THEN 1 ELSE l - n + 1
<1>1. log[v] \in Seq(Events) /\ l \in Nat
  BY DEF TypeOK
<1>2. Trail(v)
  BY DEF TrailKept, Trail
<1>3. k \in 0..AuditSize /\ k <= l /\ m = l - k + 1
  <2>1. auditCount[v] = IF l < AuditSize THEN l ELSE AuditSize
    BY <1>2 DEF Trail
  <2> HIDE DEF l
  <2> QED BY <2>1, <1>1, LimitAssumption
<1>4. Recent(v, n) = [i \in 1..k |-> auditBuffer[v][RecentSlot(v, k, i)]]
  BY DEF Recent
<1>5. SubSeq(log[v], m, l) = [i \in 1..k |-> log[v][l - k + i]]
  <2>1. m \in Int /\ l \in Int /\ \A i \in m..l : log[v][i] \in Events
    <3>1. \A i \in 1..l : log[v][i] \in Events
      BY <1>1, ElementOfSeq
    <3>2. m \in Int /\ m >= 1
      BY <1>1, <1>3
    <3> HIDE DEF l, m
    <3> QED BY <3>1, <3>2, <1>1
  <2> DEFINE s == SubSeq(log[v], m, l)
  <2>2. /\ s \in Seq(Events) /\ Len(s) = IF m <= l THEN l - m + 1 ELSE 0
        /\ \A i \in 1..(l - m + 1) : s[i] = log[v][m + i - 1]
    <3> HIDE DEF l, m
    <3> QED BY <2>1, SubSeqProperties
  <2> HIDE DEF l, k, m, s
  <2>3. /\ Len(s) = k /\ l - m + 1 = k
        /\ \A i \in 1..k : m + i - 1 = l - k + i
    BY <2>2, <1>1, <1>3
  <2>4. s = [i \in 1..k |-> s[i]]
    BY <2>2, <2>3, LenProperties
  <2>5. \A i \in 1..k : s[i] = log[v][l - k + i]
    BY <2>2, <2>3
  <2> QED BY <2>4, <2>5 DEF s
<1> HIDE DEF l, k, m
<1>6. ASSUME NEW i \in 1..k
      PROVE  auditBuffer[v][RecentSlot(v, k, i)] = log[v][l - k + i]
  <2>1. /\ k - i + 1 \in 1..AuditSize /\ k - i + 1 <= l
        /\ l - k + i \in 1..l /\ (l - k + i) + AuditSize > l
    BY <1>1, <1>3, LimitAssumption
  <2>2. RecentSlot(v, k, i) = ((l % AuditSize) - (k - i + 1) + AuditSize) % AuditSize
    <3>0. l % AuditSize \in 0..(AuditSize - 1)
      BY <1>1, ModuloType
    <3>1. auditIdx[v] = l % AuditSize /\ l % AuditSize \in Int
      BY <3>0, <1>2 DEF Trail, l
    <3>2. auditIdx[v] - k + (i - 1) + AuditSize = auditIdx[v] - (k - i + 1) + AuditSize
      BY <3>1, <1>3, LimitAssumption
    <3> QED BY <3>1, <3>2 DEF RecentSlot
  <2>3. RecentSlot(v, k, i) = (l - (k - i + 1)) % AuditSize
    BY <2>1, <2>2, <1>1, SlotOfEarlier
  <2>4. l - (k - i + 1) = (l - k + i) - 1
    BY <1>1, <1>3
  <2> QED BY <2>1, <2>3, <2>4, <1>2 DEF Trail, l
<1>7. Recent(v, n) = SubSeq(log[v], m, l)
  BY <1>4, <1>5, <1>6
<1> QED
  BY <1>7 DEF m, l

\* RecentEventsAreLatest: for any buffer size, RecentAuditEvents returns the
\* last events of a valve in order, however often its buffer has wrapped.
THEOREM RecentEventsAreLatest == Spec => []RecentIsLatest
<1>1. ValveInv => RecentIsLatest
  BY TrailIsRecent DEF ValveInv
<1> QED
  BY ValveInvariant, <1>1, PTL

\* LocksLast: for any lock duration and any difference of the clocks, a monitor
\* loop releases no lock before its time, even when the lock it releases is
\* not the one it saw.
THEOREM LocksLast == Spec => LockLasts
<1> DEFINE Lasts == \A v \in Valves : isLocked[v] /\ ~isLocked'[v] /\ resets' = resets =>
                      wall + Skew >= lockedAt[v] + LockDuration
<1>1. ASSUME ValveInv, [Next]_vars PROVE Lasts
  <2> SUFFICES ASSUME NEW v \in Valves, isLocked[v], ~isLocked'[v], resets' = resets
               PROVE  wall + Skew >= lockedAt[v] + LockDuration
    OBVIOUS
  <2>1. isLocked' # isLocked
    OBVIOUS
  <2>2. PICK w \in Valves : DisengageLock(w) \/ ProcessSample(w)
    <3>0. resets \in Int
      BY <1>1 DEF ValveInv, TypeOK
    <3>1. ~(\E w \in Valves : Reset(w))
      BY <3>0 DEF Reset
    <3> QED BY <3>1, <2>1, <1>1 DEF Next, vars, lockVars, EmergencyFrame, LockAudited,
               MonitorTick, SetAuditReport, SetAuditCallback, Receive, Flush, Tick
  <2>3. CASE ProcessSample(w)
    <3>1. \/ isLocked' = isLocked \/ isLocked' = [isLocked EXCEPT ![w] = TRUE]
      BY <2>3 DEF ProcessSample, Engage
    <3> QED BY <3>1, <1>1 DEF ValveInv, TypeOK
  <2>4. CASE DisengageLock(w)
    <3>1. /\ isLocked' = [isLocked EXCEPT ![w] = FALSE] /\ loopTime[w] # NoTime
          /\ loopTime[w] >= lockStartTime[w] + LockDuration
      BY <2>1, <2>4 DEF DisengageLock, Expired
    <3>2. w = v
      BY <3>1, <1>1 DEF ValveInv, TypeOK
    <3>3. lockedAt[v] <= lockStartTime[v] + Skew /\ loopTime[v] <= wall
      BY <3>1, <3>2, <1>1 DEF ValveInv, TimesKept
    <3>4. /\ lockedAt[v] \in Nat /\ lockStartTime[v] \in Nat /\ loopTime[v] \in Nat
          /\ wall \in Nat
      BY <3>1, <3>2, <1>1, TimesTyped DEF ValveInv, TypeOK
    <3> QED BY <3>1, <3>2, <3>3, <3>4, LimitAssumption, BoundAssumption
  <2> QED BY <2>2, <2>3, <2>4
<1>2. ValveInv /\ [Next]_vars => [Lasts]_vars
  BY <1>1
<1> QED
  BY ValveInvariant, <1>2, PTL DEF Spec, LockLasts
=============================================================================

------------------------------ MODULE ControlPath ------------------------------
(* How a fault stops the thrusters.  Three threads share the decision engine *)
(* of internal/attitude/controller.go:                                       *)
(*   - the capture poll loop runs the monitor (SafetyMonitor) on each sample *)
(*     and, in the middle of CheckSample, the gateway's onSafetyEvent, which *)
(*     calls Disable if the status it is handed says unhealthy;              *)
(*   - attitudeUpdateLoop calls Process once a tick;                         *)
(*   - an operator calls SetMode, SetTarget, EnableControl, DisableControl.  *)
(* Process takes its mode and enabled flag under de.mu, releases it, reads   *)
(* the atomic fault flag, and computes without the lock; Disable holds de.mu *)
(* while it resets the PIDs one by one.  A critical section that contains no *)
(* other lock or callback is one step, taken when no Disable holds de.mu.    *)
(*                                                                           *)
(* The gateway never calls the monitor's Reset, nor the engine's             *)
(* SetManualThrust and UpdateState: manual thrust stays 0 and the measured   *)
(* attitude stays the zero attitude.                                         *)
EXTENDS SafetyMonitor

CONSTANT Axes      \* PIDs of the controller: roll, pitch and yaw
ASSUME AxesAssumption == Axes \in Nat /\ Axes > 0

Actors  == {"poll", "operator"}                    \* who calls Disable
Modes   == {"Standby", "Hold", "Manual"}   \* Spin and Detumble compute nothing, as Standby
Targets == {"near", "far"}     \* inside the dead band on every axis, or not

VARIABLES
  mode, enabled,      \* of the DecisionEngine
  target,             \* targetState of the Controller
  initialized,        \* the initialized flag of each PID
  resetting,          \* actor -> the PID its Disable resets next, 0: not in Disable
  apc, seen,          \* where Process is, and the mode and flag it has read
  aim, axis,          \* the target Compute has read, the PID it updates next
  sinceFault,         \* history: batches issued since the fault state was entered,
                      \* 0 outside it
  sinceDisable,       \* history: batches issued since enabled became FALSE, 0 while
                      \* it is TRUE
  late                \* history: updates of each PID since the last Disable began,
                      \* all 0 while enabled is TRUE

engineVars  == <<mode, enabled, target>>
processVars == <<apc, seen, aim, axis>>
countVars   == <<sinceFault, sinceDisable, late>>
controlVars == <<monitorVars, engineVars, initialized, resetting, processVars, countVars>>

MaxBatches == 2    \* bound: the counts of batches and of late updates stop here

----------------------------------------------------------------------------
\* Plausible slips: each must break a property.
IgnoresHealth == ~seen.enabled
IgnoresEnabled == inFault
SkipsLast(k) == k # Axes
KeepsLock(k) == IF k < Axes THEN k + 1 ELSE k
UnlocksEarly(k) == 0

----------------------------------------------------------------------------
Unlocked == \A a \in Actors : resetting[a] = 0     \* no Disable holds de.mu

\* Process returns before it computes anything.
Blocked == inFault \/ ~seen.enabled

\* Reset clears PID k, then goes on to the next one, or Disable returns.
Clears(k) == TRUE
AfterReset(k) == IF k < Axes THEN k + 1 ELSE 0

Counted(n) == IF n < MaxBatches THEN n + 1 ELSE n

NoneLate == [k \in 1..Axes |-> 0]

\* Process returns and forgets what it has read.
NothingSeen == [mode |-> "Standby", enabled |-> FALSE]
ProcessReturns == apc' = "idle" /\ seen' = NothingSeen /\ aim' = "near" /\ axis' = 1

ControlInit ==
  /\ MonitorInit
  /\ mode = "Standby" /\ enabled = FALSE /\ target = "near"
  /\ initialized = [k \in 1..Axes |-> FALSE]
  /\ resetting = [a \in Actors |-> 0]
  /\ apc = "idle" /\ seen = NothingSeen
  /\ aim = "near" /\ axis = 1
  /\ sinceFault = 0 /\ sinceDisable = 0 /\ late = NoneLate

----------------------------------------------------------------------------
\* Disable, called by an actor: lock, clear the flag, then Controller.Reset.
Disable(a) ==
  /\ Unlocked
  /\ enabled' = FALSE
  /\ resetting' = [resetting EXCEPT ![a] = 1]
  /\ late' = NoneLate
  /\ UNCHANGED <<monitorVars, mode, target, initialized, processVars, sinceFault, sinceDisable>>

ResetPID(a) ==
  LET k == resetting[a] IN
  /\ k > 0
  /\ initialized' = [initialized EXCEPT ![k] = IF Clears(k) THEN FALSE ELSE @]
  /\ resetting' = [resetting EXCEPT ![a] = AfterReset(k)]
  /\ IF a = "poll" /\ AfterReset(k) = 0 THEN Notified ELSE UNCHANGED monitorVars
  /\ UNCHANGED <<engineVars, processVars, countVars>>

\* The poll loop: a sample is checked.
Sample ==
  /\ CheckSample
  /\ sinceFault' = IF inFault /\ inFault' THEN sinceFault ELSE 0
  /\ UNCHANGED <<engineVars, initialized, resetting, processVars, sinceDisable, late>>

\* onSafetyEvent sees the status as it was before this sample.
HealthyEvent ==
  /\ status.healthy /\ Notified
  /\ UNCHANGED <<engineVars, initialized, resetting, processVars, countVars>>

UnhealthyEvent == mpc = "notify" /\ ~status.healthy /\ Disable("poll")

SampleDone ==
  /\ Finish
  /\ UNCHANGED <<engineVars, initialized, resetting, processVars, countVars>>

\* The operator's calls, one at a time; DisableControl is Disable.
SetMode ==
  /\ Unlocked
  /\ mode' \in Modes
  /\ UNCHANGED <<monitorVars, enabled, target, initialized, resetting, processVars, countVars>>

SetTarget ==
  /\ Unlocked
  /\ target' \in Targets
  /\ UNCHANGED <<monitorVars, mode, enabled, initialized, resetting, processVars, countVars>>

Enable ==
  /\ Unlocked
  /\ enabled' = TRUE
  /\ sinceDisable' = 0 /\ late' = NoneLate
  /\ UNCHANGED <<monitorVars, mode, target, initialized, resetting, processVars, sinceFault>>

OperatorCall == SetMode \/ SetTarget \/ Enable \/ Disable("operator")

----------------------------------------------------------------------------
\* Process, on a tick: read the flags under de.mu ...
Tick ==
  /\ apc = "idle" /\ Unlocked
  /\ apc' = "health"
  /\ seen' = [mode |-> mode, enabled |-> enabled]
  /\ UNCHANGED <<monitorVars, engineVars, initialized, resetting, aim, axis, countVars>>

\* ... then IsHealthy, the flag and the mode.
Decide ==
  /\ apc = "health"
  /\ \/ /\ ~Blocked /\ seen.mode # "Standby"
        /\ apc' = IF seen.mode = "Hold" THEN "compute" ELSE "manual"
        /\ UNCHANGED <<seen, aim, axis>>
     \/ (Blocked \/ seen.mode = "Standby") /\ ProcessReturns
  /\ UNCHANGED <<monitorVars, engineVars, initialized, resetting, countVars>>

\* manualControl takes de.mu once more and finds no thrust.
ManualControl ==
  /\ apc = "manual" /\ Unlocked
  /\ ProcessReturns
  /\ UNCHANGED <<monitorVars, engineVars, initialized, resetting, countVars>>

\* Compute reads the target under c.mu, updates the PIDs and allocates thrust.
ComputeStart ==
  /\ apc = "compute"
  /\ apc' = "pid" /\ aim' = target /\ axis' = 1
  /\ UNCHANGED <<monitorVars, engineVars, initialized, resetting, seen, countVars>>

UpdatePID ==
  /\ apc = "pid"
  /\ initialized' = [initialized EXCEPT ![axis] = TRUE]
  /\ \/ axis < Axes /\ axis' = axis + 1 /\ UNCHANGED apc
     \/ axis = Axes /\ apc' = "allocate" /\ UNCHANGED axis
  /\ late' = [late EXCEPT ![axis] = IF enabled THEN @ ELSE Counted(@)]
  /\ UNCHANGED <<monitorVars, engineVars, resetting, seen, aim, sinceFault, sinceDisable>>

\* allocateThrust leaves no command inside the dead band, and outside it some
\* or none: a pulse may be too short.  Commands go to the command callback.
Issue ==
  /\ apc = "allocate" /\ aim = "far"
  /\ ProcessReturns
  /\ sinceFault' = IF inFault THEN Counted(sinceFault) ELSE 0
  /\ sinceDisable' = IF enabled THEN 0 ELSE Counted(sinceDisable)
  /\ UNCHANGED <<monitorVars, engineVars, initialized, resetting, late>>

NoCommand ==
  /\ apc = "allocate"
  /\ ProcessReturns
  /\ UNCHANGED <<monitorVars, engineVars, initialized, resetting, countVars>>

ProcessRuns == Decide \/ ComputeStart \/ UpdatePID \/ Issue \/ NoCommand

ControlNext ==
  \/ Sample \/ HealthyEvent \/ UnhealthyEvent \/ SampleDone
  \/ resetting["operator"] = 0 /\ OperatorCall
  \/ \E a \in Actors : ResetPID(a)
  \/ Tick \/ ManualControl \/ ProcessRuns

ControlSpec == ControlInit /\ [][ControlNext]_controlVars

\* A running goroutine goes on; Go's RWMutex queues its waiters, so a lock that
\* is free again and again is granted.  Samples and the operator may stop.
ControlFairness ==
  /\ WF_controlVars(HealthyEvent) /\ WF_controlVars(SampleDone)
  /\ SF_controlVars(UnhealthyEvent)
  /\ \A a \in Actors : WF_controlVars(ResetPID(a))
  /\ WF_controlVars(ProcessRuns) /\ SF_controlVars(Tick) /\ SF_controlVars(ManualControl)

FairControlSpec == ControlSpec /\ ControlFairness

----------------------------------------------------------------------------
\* Every variable of this module keeps its type.
ControlTypeOK ==
  /\ mode \in Modes /\ enabled \in BOOLEAN /\ target \in Targets
  /\ initialized \in [1..Axes -> BOOLEAN]
  /\ resetting \in [Actors -> 0..Axes]
  /\ apc \in {"idle", "health", "manual", "compute", "pid", "allocate"}
  /\ seen \in [mode : Modes, enabled : BOOLEAN]
  /\ aim \in Targets /\ axis \in 1..Axes
  /\ sinceFault \in 0..MaxBatches /\ sinceDisable \in 0..MaxBatches
  /\ late \in [1..Axes -> 0..MaxBatches]

\* OneBatchAfterFault: Process tests the fault flag and then computes without a
\* lock, so a batch can leave after the fault state was entered; never two.
OneBatchAfterFault == inFault => sinceFault <= 1

\* OneBatchAfterDisable: the same for Disable, whoever calls it: the Process
\* that had read the flag issues its batch, and no other one does.
OneBatchAfterDisable == ~enabled => sinceDisable <= 1

\* OneUpdateSurvives: Process updates the PIDs without a lock, so a PID that
\* Disable has reset can be updated again before Process returns, and a later
\* Enable finds that integral and time.  It finds no more: while control is
\* disabled no PID is updated twice since the Disable began, and once Disable
\* has returned a PID that holds anything holds that one update, nothing of the
\* manoeuvre before.
OneUpdateSurvives ==
  ~enabled => \A k \in 1..Axes :
    late[k] <= 1 /\ (Unlocked /\ initialized[k] => late[k] = 1)

\* EveryCheckReturns: CheckSample holds m.mu while its callback waits for de.mu;
\* it still returns, whatever the operator and the attitude loop do.
EveryCheckReturns == mpc = "notify" ~> mpc = "idle"

\* FaultsAreReported: when the fault state is entered the callbacks are handed
\* a status that says unhealthy, as cmd/thruster-gateway/main.go:33 and
\* gateway.go:123 take for granted.
FaultsAreReported == mpc = "notify" => ~status.healthy

\* What each stage of Process knows.
ProcessKnows ==
  /\ apc \in {"manual", "compute", "pid", "allocate"} => seen.enabled
  /\ inFault /\ sinceFault > 0 => apc \in {"idle", "health"}
  /\ ~enabled /\ sinceDisable > 0 =>
       apc = "idle" \/ (apc = "health" /\ ~seen.enabled)
  /\ ~inFault => sinceFault = 0
  /\ enabled => sinceDisable = 0
  /\ \A k \in 1..Axes : late[k] <= IF enabled THEN 0 ELSE 1
  /\ apc \in {"manual", "compute"} \/ (apc = "health" /\ seen.enabled) => late = NoneLate
  /\ apc = "pid" => \A k \in axis..Axes : late[k] = 0

\* One Disable at a time, the poll loop's inside a callback; the PIDs it has
\* passed are reset, or updated once since.
DisableKnows ==
  /\ resetting["poll"] = 0 \/ resetting["operator"] = 0
  /\ resetting["poll"] > 0 => mpc = "notify" /\ ~status.healthy
  /\ ~Unlocked => ~enabled
  /\ ~enabled => \A k \in 1..Axes :
       initialized[k] => late[k] = 1 \/ \E a \in Actors : resetting[a] \in 1..k

ControlInv ==
  ControlTypeOK /\ ProcessKnows /\ DisableKnows
    /\ OneBatchAfterFault /\ OneBatchAfterDisable
=============================================================================

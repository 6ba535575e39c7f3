------------------------------- MODULE Watchdog -------------------------------
(* Watchdog of internal/safety/monitor.go.  Time is counted in periods of    *)
(* its ticker, a quarter of the timeout; only ages of times matter.          *)
EXTENDS Integers

CONSTANT Timeout     \* in periods, 4 in the program

ASSUME WatchdogAssumption == Timeout \in Nat \ {0}

VARIABLES
  age,            \* periods since lastUpdate, at most Timeout + 1
  alive, ticking, tick, stopped,   \* flag, ticker, its channel, stopCh
  wdAt, seenAge,  \* step of monitorLoop, age of the time it has loaded
  alarms,         \* history: callbacks since the last Feed, at most 3
  raced           \* history: that Feed came while an alarm was under way

wdVars == <<age, alive, ticking, tick, stopped, wdAt, seenAge, alarms, raced>>

WdInit ==
  /\ age = 0 /\ alive = FALSE /\ ticking = FALSE /\ tick = FALSE /\ stopped = FALSE
  /\ wdAt = "none" /\ seenAge = 0 /\ alarms = 0 /\ raced = FALSE

Older(a) == IF a > Timeout THEN a ELSE a + 1

(* A period passes: the ticker fires, unless its last tick is still there.   *)
TimePasses ==
  /\ age' = Older(age) /\ seenAge' = Older(seenAge) /\ tick' = (tick \/ ticking)
  /\ UNCHANGED <<alive, ticking, stopped, wdAt, alarms, raced>>

WdStart ==
  /\ wdAt = "none" /\ alive' = TRUE /\ age' = 0 /\ ticking' = TRUE /\ wdAt' = "select"
  /\ UNCHANGED <<tick, stopped, seenAge, alarms, raced>>

WdStop ==
  /\ wdAt # "none" /\ ~stopped /\ ticking' = FALSE /\ stopped' = TRUE
  /\ UNCHANGED <<age, alive, tick, wdAt, seenAge, alarms, raced>>

Feed ==
  /\ wdAt # "none" /\ age' = 0 /\ alarms' = 0
  /\ raced' = (wdAt \in {"compare", "test", "dead"})
  /\ UNCHANGED <<alive, ticking, tick, stopped, wdAt, seenAge>>

-------------------------------------------------------------------------------
LoadLast ==
  /\ wdAt = "select" /\ tick /\ tick' = FALSE /\ seenAge' = age /\ wdAt' = "compare"
  /\ UNCHANGED <<age, alive, ticking, stopped, alarms, raced>>

LoopStops ==
  /\ wdAt = "select" /\ stopped /\ wdAt' = "ended"
  /\ UNCHANGED <<age, alive, ticking, tick, stopped, seenAge, alarms, raced>>

(* A slip for a mutant: an age past the first late one is not late.          *)
JustLate(a) == a = Timeout
Late(a) == a > Timeout

Compare ==
  /\ wdAt = "compare"
  /\ IF Late(seenAge) THEN wdAt' = "test" /\ UNCHANGED alive
     ELSE wdAt' = "select" /\ alive' = TRUE
  /\ seenAge' = 0
  /\ UNCHANGED <<age, ticking, tick, stopped, alarms, raced>>

TestAlive ==
  /\ wdAt = "test" /\ wdAt' = IF alive THEN "dead" ELSE "select"
  /\ UNCHANGED <<age, alive, ticking, tick, stopped, seenAge, alarms, raced>>

(* alive is cleared and the callbacks run.                                   *)
AlarmAgain == alive' = alive
AlarmOnce == alive' = FALSE

Alarm ==
  /\ wdAt = "dead" /\ AlarmOnce /\ wdAt' = "select"
  /\ alarms' = IF alarms < 3 THEN alarms + 1 ELSE 3
  /\ UNCHANGED <<age, ticking, tick, stopped, seenAge, raced>>

MonitorLoop == LoadLast \/ LoopStops \/ Compare \/ TestAlive \/ Alarm
WdNext == TimePasses \/ WdStart \/ WdStop \/ Feed \/ MonitorLoop

-------------------------------------------------------------------------------
(* One silence gives one alarm; a second one follows the same Feed only if   *)
(* that Feed came too late to stop the first.                                *)
AlarmsBounded ==
  /\ age \in 0..(Timeout + 1) /\ alarms <= (IF raced THEN 2 ELSE 1)

(* A silence that lasts while the watchdog is armed ends in an alarm, unless *)
(* it is stopped.  While an alarm stands, alive is false and a further       *)
(* silence is not reported: only a Feed that the loop has seen arms it again. *)
SilenceReported ==
  alive /\ age > Timeout ~> (~alive /\ alarms > 0) \/ age <= Timeout \/ stopped
===============================================================================

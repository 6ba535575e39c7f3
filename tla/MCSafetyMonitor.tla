--------------------------- MODULE MCSafetyMonitor ---------------------------
(* Readings for TLC: one of every fault code, a good sample, and two levels *)
(* of thrust far enough apart for a mismatch once both are in the history.  *)
EXTENDS SafetyMonitor

Reading(v, c, f, t) == [overVolt |-> v, overCurr |-> c, flow |-> f, thrust |-> t]

AllReadings ==
  {Reading(FALSE, FALSE, "ok", t) : t \in {0, 1, 3}}
  \cup {Reading(TRUE, TRUE, "low", 1), Reading(FALSE, TRUE, "high", 1),
        Reading(FALSE, FALSE, "high", 1), Reading(FALSE, FALSE, "low", 1)}
=============================================================================

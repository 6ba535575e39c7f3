----------------------------- MODULE MCValveLock -----------------------------
(* ValveLock for TLC: one score in each class that the code tells apart.     *)
EXTENDS ValveLock

ScoreClasses == {10, 32, 80}
=============================================================================

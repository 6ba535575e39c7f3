---------------------------- MODULE MCControlPath ----------------------------
(* ControlPath for TLC: a good sample and a faulty one, without thrust.      *)
EXTENDS ControlPath

GoodAndBad == [overVolt : BOOLEAN, overCurr : {FALSE}, flow : {"ok"}, thrust : {0}]
=============================================================================

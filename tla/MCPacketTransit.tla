---------------------------- MODULE MCPacketTransit ----------------------------
(* PacketTransit for TLC: readings with high and low bytes, a counter at the  *)
(* wrap of the 14 bits, and wrong bytes that change each field of a header.   *)
EXTENDS PacketTransit

SomeSamples ==
  {[anode |-> <<89, 104, 47, 0>>, grid |-> <<8, 240, 209, 128>>, flow |-> <<0, 22, 227, 96>>],
   [anode |-> <<255, 255, 0, 1>>, grid |-> <<128, 0, 0, 127>>, flow |-> <<0, 0, 255, 254>>]}
SomeTimestamps == {<<1, 35, 69, 103, 137, 171, 205, 239>>}
SomeEmergencies ==
  {[timestamp |-> <<1, 35, 69, 103, 137, 171, 205, 239>>, thrusterID |-> 7,
    commandID |-> <<254, 220, 186, 152, 118, 84, 50, 16>>, dutyCycle |-> duty,
    lockDuration |-> <<0, 188, 97, 78>>, faultCode |-> 9, healthScore |-> score]
   : duty \in {0, 49995, 100000}, score \in {0, 425, 1000}}
SomeCommands ==
  {[timestamp |-> <<0, 0, 0, 1, 0, 0, 0, 2>>, thrusterID |-> 3,
    commandID |-> <<0, 0, 0, 0, 0, 0, 0, 42>>, dutyCycle |-> 50000,
    pulseDuration |-> <<0, 0, 3, 232>>, commandType |-> 1]}
================================================================================

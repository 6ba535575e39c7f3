---------------------------- MODULE MCGatewayFlow ----------------------------
(* GatewayFlow for TLC: thruster packets across the wrap of the sequence      *)
(* count, a damaged one and one of another type among them.                   *)
EXTENDS GatewayFlow

Reading == [anode |-> <<89, 104, 47, 0>>, grid |-> <<8, 240, 209, 128>>, flow |-> <<0, 22, 227, 96>>]
Thruster(seq, n) ==
  GenerateCCSDSPacket(seq, <<0, 0, 0, 0, 0, 0, 1, 0>>, [i \in 1..n |-> Reading])
(* A byte of the payload was hit on the way.                                  *)
Damaged(packet) == [packet EXCEPT ![25] = 0]
(* A telecommand without a secondary header.                                  *)
Telecommand(seq) == <<16, 66>> \o Uint16(3 * 2^14 + seq) \o <<0, 1, 7, 7>>

SomeWire ==
  <<Thruster(2^14 - 1, 2), Telecommand(0), Damaged(Thruster(1, 2)), Thruster(2, 3)>>
===============================================================================

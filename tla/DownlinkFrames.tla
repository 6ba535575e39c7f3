---------------------------- MODULE DownlinkFrames ----------------------------
(* internal/vallock/ccsds_downlink.go: the frames a valve lock sends down.   *)
(*                                                                           *)
(* 64- and 32-bit fields are the tuple of their bytes.  A duty cycle is in   *)
(* units of 1/100000 and a health score in tenths, one digit finer than the  *)
(* frame keeps them, so that rounding is part of the model.                  *)
EXTENDS PacketDecoding

EmergencyFrameMinLen == 28
EmergencyFrameLen    == 36
CommandMinLen        == 32
CommandFrameLen      == 37

(* math.Round of n tenths.                                                   *)
Rounded(n) == (n + 5) \div 10

(* calculateChecksum16 computes what CalculateChecksum of the decoder does.  *)
CalculateChecksum16(data) == 65535 - FoldCarries[WordSum(data)]

VerifyChecksum16(data) == FoldCarries[WordSum(data)] = 65535

(* The result of an encoder: the length it returns, or a panic (writing past *)
(* the end of the buffer), and the buffer.                                   *)
Refused(buf)  == [n |-> 0, panic |-> FALSE, buf |-> buf]
Overrun(buf)  == [n |-> 0, panic |-> TRUE, buf |-> buf]
Encoded(body, buf) ==
  LET bytes == body \o Uint16(CalculateChecksum16(body))
  IN  [n |-> Len(bytes), panic |-> FALSE, buf |-> bytes \o Slice(buf, Len(bytes), Len(buf))]

(* EncodeEmergencyStop writes the first word of the primary header only: the *)
(* sequence and the length, bytes 2 to 5, stay what they were in the buffer. *)
EmergencyBody(frame, buf) ==
  <<8, 66>> \o Slice(buf, 2, 6) \o frame.timestamp \o <<255, 8, 1, frame.thrusterID>>
  \o frame.commandID \o Uint16(Rounded(frame.dutyCycle) % 65536) \o frame.lockDuration
  \o <<frame.faultCode, Rounded(frame.healthScore) % 256>>

(* A slip for the runs' mutants: no check of the buffer.                     *)
EncodeUnchecked(frame, buf) ==
  IF Len(buf) < EmergencyFrameLen THEN Overrun(buf)
  ELSE Encoded(EmergencyBody(frame, buf), buf)

EncodeEmergencyStop(frame, buf) ==
  IF Len(buf) < EmergencyFrameMinLen THEN Refused(buf)
  ELSE IF Len(buf) < EmergencyFrameLen THEN Overrun(buf)
  ELSE Encoded(EmergencyBody(frame, buf), buf)

(* EncodeEmergencyStopFast: the command carries the timestamp as its number. *)
EncodeEmergencyStopFast(frame, buf) ==
  EncodeEmergencyStop([frame EXCEPT !.commandID = frame.timestamp], buf)

(* A slip: health and fault code are taken for one another.                  *)
DecodeSwapped(data) ==
  [timestamp |-> Slice(data, 6, 14), thrusterID |-> data[18],
   commandID |-> Slice(data, 18, 26), dutyCycle |-> 10 * (256 * data[27] + data[28]),
   lockDuration |-> Slice(data, 28, 32), faultCode |-> data[34],
   healthScore |-> 10 * data[33]]

DecodeEmergencyStop(data) ==
  [timestamp |-> Slice(data, 6, 14), thrusterID |-> data[18],
   commandID |-> Slice(data, 18, 26), dutyCycle |-> 10 * (256 * data[27] + data[28]),
   lockDuration |-> Slice(data, 28, 32), faultCode |-> data[33],
   healthScore |-> 10 * data[34]]

(* EncodeCommand: a header of eight bytes and a body of odd length.          *)
CommandBody(frame, apid, seqCount) ==
  <<8>> \o Uint16(apid) \o <<192>> \o Uint16(seqCount) \o <<0, 25>> \o frame.timestamp
  \o <<1, 8, 1, frame.thrusterID>> \o frame.commandID
  \o Uint16(Rounded(frame.dutyCycle) % 65536) \o frame.pulseDuration \o <<frame.commandType>>

EncodeCommand(frame, apid, seqCount, buf) ==
  IF Len(buf) < CommandMinLen THEN Refused(buf)
  ELSE IF Len(buf) < CommandFrameLen THEN Overrun(buf)
  ELSE Encoded(CommandBody(frame, apid, seqCount), buf)
===============================================================================

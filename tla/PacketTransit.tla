---------------------------- MODULE PacketTransit ----------------------------
(* One buffer at a time on its way: a thruster packet from the source to     *)
(* PacketDecoder.Decode, or a frame from CCSDSDownlinkEncoder to its         *)
(* receiver.  On the way one byte may change, or the end may be cut off or   *)
(* padded, as a raw socket and a network do it.                              *)
EXTENDS DownlinkFrames, FiniteSets

CONSTANTS
  Samples,      \* readings: records of four bytes each for anode, grid and flow
  SeqCounts,    \* values of the source's counter, which the packet cuts to 14 bits
  Timestamps,   \* tuples of eight bytes
  Emergencies,  \* emergency stop frames
  Commands,     \* command frames
  BufferLens,   \* lengths of the buffers the encoders are given
  WrongBytes,   \* values a damaged byte may get
  MaxSamples    \* bound: samples in a packet, 10 in the program

(* Of a frame the valve lock builds, duty (a share of 1) and health (at most  *)
(* 100) fit their fields.  Up to 18 samples the high byte of a packet's length*)
(* is 0: the program puts 10 in a packet.                                     *)
EmergencyFrames ==
  [timestamp : [1..8 -> Byte], thrusterID : Byte, commandID : [1..8 -> Byte], dutyCycle : Nat,
   lockDuration : [1..4 -> Byte], faultCode : Byte, healthScore : Nat]

ASSUME TransitAssumption ==
  /\ Samples \subseteq [anode : [1..4 -> Byte], grid : [1..4 -> Byte], flow : [1..4 -> Byte]]
  /\ SeqCounts \subseteq Nat /\ Timestamps \subseteq [1..8 -> Byte]
  /\ Emergencies \subseteq EmergencyFrames
  /\ \A frame \in Emergencies : Rounded(frame.dutyCycle) < 2^16 /\ Rounded(frame.healthScore) < 2^8
  /\ BufferLens \subseteq Nat /\ WrongBytes \subseteq Byte /\ MaxSamples \in 0..18

VARIABLES
  stage,   \* "ready", "sent", "received" or "crashed"
  origin,  \* what was sent
  buffer,  \* the bytes, which Decode may change
  damage,  \* what happened to them on the way
  heard    \* what the receiver makes of them

vars == <<stage, origin, buffer, damage, heard>>

Nothing  == [kind |-> "nothing"]
Intact   == [kind |-> "none"]
Zeros(n) == [i \in 1..n |-> 0]

Init == /\ stage = "ready" /\ origin = Nothing /\ buffer = <<>>
        /\ damage = Intact /\ heard = Nothing

Send(bytes, what) ==
  /\ stage = "ready"
  /\ stage' = "sent" /\ origin' = what /\ buffer' = bytes
  /\ damage' = Intact /\ heard' = Nothing

SendTelemetry(seqCount, timestamp, samples) ==
  Send(GenerateCCSDSPacket(seqCount, timestamp, samples),
       [kind |-> "telemetry", seqCount |-> seqCount, timestamp |-> timestamp, samples |-> samples])

(* A frame leaves if its encoder returned a length; an encoder that writes   *)
(* past the end of its buffer takes the program down.                        *)
SendFrame(kind, frame, encoded, bufferLen) ==
  \/ encoded.n > 0 /\ Send(Slice(encoded.buf, 0, encoded.n), [kind |-> kind, frame |-> frame])
  \/ /\ encoded.panic /\ stage = "ready" /\ stage' = "crashed"
     /\ origin' = [kind |-> kind, bufferLen |-> bufferLen]
     /\ buffer' = <<>> /\ damage' = Intact /\ heard' = Nothing

SendEmergency(frame, bufferLen) ==
  SendFrame("emergency", frame, EncodeEmergencyStop(frame, Zeros(bufferLen)), bufferLen)

SendEmergencyFast(frame, bufferLen) ==
  SendFrame("emergency", [frame EXCEPT !.commandID = frame.timestamp],
            EncodeEmergencyStopFast(frame, Zeros(bufferLen)), bufferLen)

SendCommand(frame, seqCount, bufferLen) ==
  SendFrame("command", frame, EncodeCommand(frame, 67, seqCount, Zeros(bufferLen)), bufferLen)

Damage(bytes, how) ==
  /\ stage = "sent" /\ damage = Intact
  /\ buffer' = bytes /\ damage' = how
  /\ UNCHANGED <<stage, origin, heard>>

ChangeByte(i, b) ==
  i \in DOMAIN buffer /\ buffer[i] # b
  /\ Damage([buffer EXCEPT ![i] = b], [kind |-> "byte", at |-> i])
Truncate(n) == n < Len(buffer) /\ Damage(Slice(buffer, 0, n), [kind |-> "cut"])
Pad(n)      == Damage(buffer \o Zeros(n), [kind |-> "padded"])

ReceiveTelemetry ==
  /\ stage = "sent" /\ origin.kind = "telemetry"
  /\ heard' = Decode(buffer) /\ buffer' = heard'.buffer
  /\ stage' = IF heard'.err = "panic" THEN "crashed" ELSE "received"
  /\ UNCHANGED <<origin, damage>>

(* DecodeEmergencyStop returns nothing for less than a whole frame.          *)
ReceiveFrame ==
  /\ stage = "sent" /\ origin.kind \in {"emergency", "command"}
  /\ heard' = IF origin.kind = "command" \/ Len(buffer) < EmergencyFrameLen THEN Nothing
              ELSE [kind |-> "emergency", frame |-> DecodeEmergencyStop(buffer),
                    verified |-> VerifyChecksum16(buffer)]
  /\ stage' = "received" /\ UNCHANGED <<origin, buffer, damage>>

Next ==
  \/ \E seqCount \in SeqCounts, timestamp \in Timestamps, n \in 1..MaxSamples :
       \E samples \in [1..n -> Samples] : SendTelemetry(seqCount, timestamp, samples)
  \/ \E frame \in Emergencies, len \in BufferLens : SendEmergency(frame, len)
  \/ \E frame \in Emergencies, len \in BufferLens : SendEmergencyFast(frame, len)
  \/ \E frame \in Commands, seqCount \in SeqCounts, len \in BufferLens :
       SendCommand(frame, seqCount % 2^14, len)
  \/ \E i \in DOMAIN buffer, b \in WrongBytes : ChangeByte(i, b)
  \/ \E n \in DOMAIN buffer : Truncate(n)
  \/ \E n \in 1..3 : Pad(n)
  \/ ReceiveTelemetry
  \/ ReceiveFrame

Spec == Init /\ [][Next]_vars

-------------------------------------------------------------------------------
Received(kind) == stage = "received" /\ origin.kind = kind

(* A packet that arrives whole, with or without padding behind it, is        *)
(* accepted, and its sequence count, its time and the number and sequence    *)
(* numbers of its samples are those of the source, although the bits are     *)
(* put together on one side and picked apart byte by byte on the other.      *)
WholePacketsAccepted ==
  Received("telemetry") /\ damage.kind \in {"none", "padded"} =>
    /\ heard.err = "none"
    /\ heard.primary.sequenceCount = origin.seqCount % 2^14
    /\ heard.secondary.timestamp = origin.timestamp
    /\ Len(SamplesOf(heard)) = Len(origin.samples)
    /\ \A i \in DOMAIN origin.samples :
         SamplesOf(heard)[i].sequence
           = heard.primary.sequenceCount * Len(origin.samples) + i - 1

(* A changed byte anywhere but in the length field never gets its packet's   *)
(* samples through, except by turning the packet into a telecommand (type 1):*)
(* Decode checks the sum of type 0 only, pollLoop takes samples of both.     *)
LengthField == {5, 6}
CorruptionCaught ==
  Received("telemetry") /\ damage.kind = "byte" =>
    \/ SamplesOf(heard) = <<>>
    \/ damage.at \in LengthField
    \/ damage.at = 1 /\ heard.primary.type = 1

(* Decode accepts what it should and no samples that it should not.          *)
PacketsJudged == WholePacketsAccepted /\ CorruptionCaught

(* What can take the program down: a length field that ends the packet inside*)
(* its headers, and an encoder's buffer that passes its length check and is  *)
(* still shorter than the frame.  Cut and padded packets are rejected or read*)
(* to their own length.                                                      *)
CrashesExplained ==
  stage = "crashed" =>
    CASE origin.kind = "telemetry" ->
           damage.kind = "byte" /\ damage.at = 6 /\ buffer[6] < SecondaryHeaderLen - 1
      [] origin.kind = "emergency" -> origin.bufferLen \in 28..35
      [] origin.kind = "command"   -> origin.bufferLen \in 32..36

(* An emergency frame verifies exactly if no byte changed on the way (zeros  *)
(* behind it do not matter), and then says what the valve lock put in, up to *)
(* the rounding of duty and health.                                          *)
Near(a, b) == a - b \in -5..5
FrameSays(said, meant) ==
  /\ \A field \in {"timestamp", "thrusterID", "commandID", "lockDuration", "faultCode"} :
       said[field] = meant[field]
  /\ Near(said.dutyCycle, meant.dutyCycle) /\ Near(said.healthScore, meant.healthScore)

FramesIntact ==
  Received("emergency") /\ heard # Nothing =>
    /\ heard.verified <=> damage.kind # "byte"
    /\ heard.verified => FrameSays(heard.frame, origin.frame)

(* The samples of a packet that arrives whole are the samples that were      *)
(* packed, and valid.  The code violates it: Decode has moved the payload    *)
(* two bytes towards the header before it returns it.                        *)
DecodedIsSent ==
  Received("telemetry") /\ damage = Intact =>
    \A i \in DOMAIN origin.samples :
      LET got == SamplesOf(heard)[i]
          put == origin.samples[i]
      IN  got.valid /\ got.anode = put.anode /\ got.grid = put.grid /\ got.flow = put.flow
===============================================================================

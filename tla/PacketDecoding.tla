---------------------------- MODULE PacketDecoding ----------------------------
(* internal/ccsds/decoder.go with its caller decodeThrusterPayload of        *)
(* internal/capture/gateway.go, and the packets of the simulated source,     *)
(* internal/capture/source_windows.go.                                       *)
(*                                                                           *)
(* A packet is a sequence of bytes; data[i] of the program is data[i + 1].   *)
(* Integers wider than 16 bits are the tuple of their bytes, and the readings*)
(* of a sample are those bytes, not the floating-point numbers made of them. *)
EXTENDS Integers, Sequences
Ext == INSTANCE SequencesExt  \* and FiniteSetsExt, which it extends

Byte == 0..255
PrimaryHeaderLen   == 6
SecondaryHeaderLen == 14
SampleSize         == 13
DecoderBuffer      == 4096
Headers            == PrimaryHeaderLen + SecondaryHeaderLen

Uint16(n) == <<n \div 256, n % 256>>
(* The bytes data[from], ..., data[to - 1] of the program.                   *)
Slice(data, from, to) == SubSeq(data, from + 1, to)

(* A slip for the runs' mutants: the offset in the byte is not reset to 0.   *)
ReadBitsUnreset(data, bitOffset, numBits) ==
  LET taken(b) == (data[b + 1] \div 2^(bitOffset % 8)) % 256
  IN  Ext!FoldLeft(LAMBDA result, b : 256 * result + taken(b), 0,
               [i \in 1..((numBits + 7) \div 8) |-> (bitOffset \div 8) + i - 1])

(* The loop of ReadBits: each byte it touches gives its next high-order bits.*)
ReadBits(data, bitOffset, numBits) ==
  LET firstByte == bitOffset \div 8
      lastByte  == (bitOffset + numBits - 1) \div 8
      bitInByte(b)    == IF b = firstByte THEN bitOffset % 8 ELSE 0
      bitsFromByte(b) == Ext!Min({8 - bitInByte(b), bitOffset + numBits - (8 * b + bitInByte(b))})
      shift(b)        == 8 - bitInByte(b) - bitsFromByte(b)
      take(result, b) == result * 2^bitsFromByte(b)
                         + ((data[b + 1] \div 2^shift(b)) % 2^bitsFromByte(b))
  IN  Ext!FoldLeft(take, 0, [i \in 1..(lastByte - firstByte + 1) |-> firstByte + i - 1])

DecodePrimaryHeader(data) ==
  [version |-> ReadBits(data, 0, 3), type |-> ReadBits(data, 3, 1),
   secondaryHeader |-> ReadBits(data, 4, 1) = 1, apid |-> ReadBits(data, 5, 11),
   sequenceFlags |-> ReadBits(data, 16, 2), sequenceCount |-> ReadBits(data, 18, 14),
   packetLength |-> ReadBits(data, 32, 16)]

DecodeSecondaryHeader(data) ==
  [timestamp |-> SubSeq(data, 1, 8), packetType |-> ReadBits(data, 64, 8),
   subsystemID |-> ReadBits(data, 72, 8), formatVersion |-> ReadBits(data, 80, 8),
   checksum |-> ReadBits(data, 96, 16)]

(* A slip: an odd last byte is left out of the sum.                          *)
WordSumEven(data) ==
  Ext!MapThenSumSet(LAMBDA i : 256 * data[i] + data[i + 1], {i \in DOMAIN data : i % 2 = 1 /\ i < Len(data)})

(* The sum of the big-endian words of data, an odd last byte being the high  *)
(* one of its word.                                                          *)
WordSum(data) ==
  Ext!MapThenSumSet(LAMBDA i : 256 * data[i] + (IF i < Len(data) THEN data[i + 1] ELSE 0),
                {i \in DOMAIN data : i % 2 = 1})

FoldCarries[sum \in Nat] ==
  IF sum < 65536 THEN sum ELSE FoldCarries[(sum % 65536) + (sum \div 65536)]

CalculateChecksum(data) == 65535 - FoldCarries[WordSum(data)]

(* What the checksum is computed of: the packet without its checksum field.  *)
ChecksumPrefix(data) == Slice(data, 0, Headers - 2)
ChecksumData(data, payload) == ChecksumPrefix(data) \o payload

(* checksumData shares the memory of the packet and has the room for the     *)
(* payload, so append writes it into the packet, two bytes too early.        *)
AppendInPlace(data, payload) ==
  LET end == Headers - 2 + Len(payload)
  IN  ChecksumData(data, payload) \o Slice(data, end, Len(data))

(* PacketDecoder.Decode: the error, the headers, the payload as a slice of   *)
(* the buffer the call leaves behind, and that buffer.                       *)
Failed(err, data) == [err |-> err, buffer |-> data, payload |-> <<>>]

DecodeBody(data, primary, totalLen) ==
  LET secondary == DecodeSecondaryHeader(Slice(data, PrimaryHeaderLen, Len(data)))
      payload   == Slice(data, Headers, totalLen)
      checked   == primary.type = 0 /\ secondary.packetType # 0
      buffer    == IF checked THEN AppendInPlace(data, payload) ELSE data
      verified  == CalculateChecksum(ChecksumData(data, payload)) = secondary.checksum
  IN  [err |-> IF checked /\ ~verified THEN "checksum" ELSE "none",
       primary |-> primary, secondary |-> secondary,
       buffer |-> buffer, payload |-> Slice(buffer, Headers, totalLen)]

DecodeRest(data, primary, totalLen) ==
  IF primary.version # 0      THEN Failed("version", data)
  ELSE IF Len(data) < totalLen THEN Failed("short", data)
  ELSE IF ~primary.secondaryHeader
         THEN [err |-> "none", primary |-> primary, buffer |-> data,
               payload |-> Slice(data, PrimaryHeaderLen, totalLen)]
  ELSE IF Len(data) < Headers  THEN Failed("short", data)
  ELSE IF totalLen < Headers   THEN Failed("panic", data)  \* data[20:totalLen]
  ELSE DecodeBody(data, primary, totalLen)

DecodeFrom(data, primary) ==
  DecodeRest(data, primary, PrimaryHeaderLen + primary.packetLength + 1)

Decode(data) ==
  IF Len(data) < PrimaryHeaderLen THEN Failed("short", data)
  ELSE DecodeFrom(data, DecodePrimaryHeader(data))

(* count samples of 13 bytes, of readings and status.  The timestamp of a    *)
(* sample is the packet's and the number of intervals after it.  The decoder *)
(* sees what its buffer holds of data, and a sample beyond that is an error. *)
DecodeThrusterSamplesFloat(data, timestamp, seqStart, count) ==
  IF SampleSize * count > DecoderBuffer THEN <<>>
  ELSE [i \in 1..count |->
    LET bytes == Slice(data, SampleSize * (i - 1), SampleSize * i)
    IN  [timestamp |-> <<timestamp, i - 1>>, sequence |-> seqStart + i - 1,
         anode |-> SubSeq(bytes, 1, 4), grid |-> SubSeq(bytes, 5, 8),
         flow |-> SubSeq(bytes, 9, 12), valid |-> bytes[13] \div 128 = 1,
         faultCode |-> bytes[13] % 16]]

(* decodeThrusterPayload, called by pollLoop for packets of type 1 only.     *)
IsThrusterPacket(packet) ==
  packet.primary.secondaryHeader /\ packet.secondary.packetType = 1

DecodeThrusterPayload(packet) ==
  LET count == Len(packet.payload) \div SampleSize
  IN  DecodeThrusterSamplesFloat(packet.payload, packet.secondary.timestamp,
                            packet.primary.sequenceCount * count, count)

(* The samples pollLoop gets from a packet.                                  *)
SamplesOf(packet) ==
  IF packet.err = "none" /\ IsThrusterPacket(packet) THEN DecodeThrusterPayload(packet) ELSE <<>>

(* generateCCSDSPacket: samples are records of the bytes of their readings.  *)
SampleBytes(sample) == sample.anode \o sample.grid \o sample.flow \o <<128>>

GeneratedHeaders(seqCount, timestamp, payloadLen) ==
  <<8, 66>> \o Uint16(3 * 2^14 + (seqCount % 2^14)) \o Uint16(SecondaryHeaderLen + payloadLen - 1)
  \o timestamp \o <<1, 2, 1, 0>>

GenerateCCSDSPacket(seqCount, timestamp, samples) ==
  LET payload == Ext!FlattenSeq([i \in DOMAIN samples |-> SampleBytes(samples[i])])
      headers == GeneratedHeaders(seqCount, timestamp, Len(payload))
      sum     == FoldCarries[WordSum(headers) + WordSum(payload)]
  IN  headers \o Uint16(65535 - sum) \o payload
===============================================================================

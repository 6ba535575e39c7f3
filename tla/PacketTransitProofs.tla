------------------------- MODULE PacketTransitProofs --------------------------
(* Proofs about packets and frames on their way, for every packet the source *)
(* can send, every emergency frame whose fields fit, and every changed byte. *)
EXTENDS PacketTransit, PacketDecodingProofs

(* A piece p of a buffer, behind its first k bytes and up to byte e.          *)
Lies(data, k, p, e) ==
  p \in Seq(Byte) /\ k \in Nat /\ k + Len(p) = e /\ \A i \in 1..Len(p) : data[k + i] = p[i]

(* A buffer of m bytes and a piece put behind it, e bytes in all.             *)
Joined(c, a, b, m, e) ==
  a \in Seq(Byte) /\ Len(a) = m /\ b \in Seq(Byte) /\ m + Len(b) = e /\ c = a \o b

\* The piece lies at the end of the buffer.
LEMMA PieceJoined ==
  ASSUME NEW a, NEW b, NEW c, NEW m, NEW e, Joined(c, a, b, m, e)
  PROVE  c \in Seq(Byte) /\ Len(c) = e /\ Lies(c, m, b, e)
<1>1. a \in Seq(Byte) /\ Len(a) = m /\ b \in Seq(Byte) /\ m + Len(b) = e /\ c = a \o b
  BY DEF Joined
<1>2. /\ c \in Seq(Byte) /\ Len(c) = Len(a) + Len(b)
      /\ \A i \in 1..Len(b) : c[Len(a) + i] = b[i]
  BY ONLY <1>1, JoinedIs
<1>3. m \in Nat
  BY ONLY <1>1
<1> QED BY ONLY <1>1, <1>2, <1>3 DEF Lies

\* The pieces that lay in it lie there still.
LEMMA PieceKept ==
  ASSUME NEW a, NEW b, NEW c, NEW m, NEW e, Joined(c, a, b, m, e),
         NEW k, NEW p, NEW j, Lies(a, k, p, j), j <= m
  PROVE  Lies(c, k, p, j)
<1>1. a \in Seq(Byte) /\ Len(a) = m /\ b \in Seq(Byte) /\ c = a \o b
  BY DEF Joined
<1>2. \A i \in 1..Len(a) : c[i] = a[i]
  BY ONLY <1>1, JoinedIs
<1>3. p \in Seq(Byte) /\ k \in Nat /\ k + Len(p) = j /\ \A i \in 1..Len(p) : a[k + i] = p[i]
  BY DEF Lies
<1>4. ASSUME NEW i \in 1..Len(p) PROVE c[k + i] = p[i]
  <2>1. k + i \in 1..Len(a)
    BY <1>1, <1>3
  <2> QED BY ONLY <1>2, <1>3, <2>1, i \in 1..Len(p)
<1> QED BY ONLY <1>3, <1>4 DEF Lies

\* A slice is the piece that lies there.
LEMMA SliceAt ==
  ASSUME NEW data \in Seq(Byte), NEW from, NEW to, to <= Len(data),
         NEW piece, Lies(data, from, piece, to)
  PROVE  Slice(data, from, to) = piece
<1> DEFINE s == Slice(data, from, to)
<1>0. /\ piece \in Seq(Byte) /\ from \in Nat /\ from + Len(piece) = to
      /\ \A i \in 1..Len(piece) : data[from + i] = piece[i]
  BY DEF Lies
<1>1. to \in Nat /\ from <= to /\ to - from = Len(piece)
  BY ONLY <1>0
<1>2. s \in Seq(Byte) /\ Len(s) = to - from /\ \A i \in 1..(to - from) : s[i] = data[from + i]
  BY ONLY <1>0, <1>1, data \in Seq(Byte), to <= Len(data), SliceIs
<1> HIDE DEF s
<1>3. Len(s) = Len(piece) /\ \A i \in 1..Len(s) : s[i] = piece[i]
  BY ONLY <1>0, <1>1, <1>2
<1>4. s = piece
  BY ONLY <1>0, <1>2, <1>3, SeqEqual
<1> QED BY ONLY <1>4 DEF s

\* The frames' lengths.
LEMMA FrameLengths == EmergencyFrameMinLen = 28 /\ EmergencyFrameLen = 36 /\ CommandMinLen = 32 /\ CommandFrameLen = 37
BY DEF EmergencyFrameMinLen, EmergencyFrameLen, CommandMinLen, CommandFrameLen

\* Zeros are bytes.
LEMMA ZerosAre ==
  ASSUME NEW n \in Nat
  PROVE  Zeros(n) \in Seq(Byte) /\ Len(Zeros(n)) = n /\ \A i \in 1..n : Zeros(n)[i] = 0
<1>1. Zeros(n) \in [1..n -> Byte]
  BY DEF Zeros, Byte
<1>2. \A i \in 1..n : Zeros(n)[i] = 0
  BY DEF Zeros
<1> QED BY ONLY <1>1, <1>2, n \in Nat, TupleOfBytes

(* An emergency frame whose fields fit, as EncodeEmergencyStop takes it.      *)
FitFrame(frame) ==
  frame \in EmergencyFrames /\ Rounded(frame.dutyCycle) < 2^16 /\ Rounded(frame.healthScore) < 2^8

(* Where its fields lie in the bytes that leave.                              *)
FieldsAt(data, frame) ==
  /\ Lies(data, 6, frame.timestamp, 14) /\ data[18] = frame.thrusterID /\ Lies(data, 18, frame.commandID, 26)
  /\ data[27] = Rounded(frame.dutyCycle) \div 256 /\ data[28] = Rounded(frame.dutyCycle) % 256
  /\ Lies(data, 28, frame.lockDuration, 32) /\ data[33] = frame.faultCode /\ data[34] = Rounded(frame.healthScore)

\* Rounding does not take a number below zero.
LEMMA RoundedIs == ASSUME NEW n \in Nat PROVE Rounded(n) \in Nat /\ 10 * Rounded(n) - n <= 5 /\ n - 10 * Rounded(n) <= 5
BY SMT DEF Rounded

\* The fields of a frame, as sequences and bytes.
LEMMA FrameTypes ==
  ASSUME NEW frame, FitFrame(frame)
  PROVE  /\ frame.timestamp \in Seq(Byte) /\ Len(frame.timestamp) = 8
         /\ frame.commandID \in Seq(Byte) /\ Len(frame.commandID) = 8
         /\ frame.lockDuration \in Seq(Byte) /\ Len(frame.lockDuration) = 4
         /\ frame.thrusterID \in Byte /\ frame.faultCode \in Byte
         /\ frame.dutyCycle \in Nat /\ frame.healthScore \in Nat
         /\ Rounded(frame.dutyCycle) \in 0..Ones /\ Rounded(frame.healthScore) \in Byte
<1>1. /\ frame.timestamp \in [1..8 -> Byte] /\ frame.commandID \in [1..8 -> Byte] /\ frame.lockDuration \in [1..4 -> Byte]
      /\ frame.thrusterID \in Byte /\ frame.faultCode \in Byte /\ frame.dutyCycle \in Nat /\ frame.healthScore \in Nat
  BY DEF FitFrame, EmergencyFrames
<1>2. Rounded(frame.dutyCycle) < 2^16 /\ Rounded(frame.healthScore) < 2^8
  BY DEF FitFrame
<1>3. /\ frame.timestamp \in Seq(Byte) /\ Len(frame.timestamp) = 8
      /\ frame.commandID \in Seq(Byte) /\ Len(frame.commandID) = 8
      /\ frame.lockDuration \in Seq(Byte) /\ Len(frame.lockDuration) = 4
  <2>1. 8 \in Nat /\ 4 \in Nat
    OBVIOUS
  <2> QED BY ONLY <1>1, <2>1, TupleOfBytes
<1> DEFINE d == Rounded(frame.dutyCycle)   h == Rounded(frame.healthScore)
<1>4. d \in Nat /\ h \in Nat
  BY ONLY <1>1, RoundedIs
<1> HIDE DEF d, h
<1>5. d < 2^16 /\ h < 2^8
  BY ONLY <1>2 DEF d, h
<1>6. 2^16 = 65536 /\ 2^8 = 256
  BY ONLY SMT
<1>7. d \in 0..Ones
  <2>1. d <= Ones /\ Ones \in Nat
    BY ONLY <1>4, <1>5, <1>6, SMT DEF Ones
  <2> QED BY ONLY <1>4, <2>1
<1>8. h \in Byte
  BY ONLY <1>4, <1>5, <1>6, SMT DEF Byte
<1> QED BY ONLY <1>1, <1>3, <1>7, <1>8 DEF d, h

(* Eight pieces one behind the other.                                         *)
InRow(s, a, b, t, x, c, u, l, y) ==
  /\ s = a \o b \o t \o x \o c \o u \o l \o y
  /\ a \in Seq(Byte) /\ Len(a) = 2 /\ b \in Seq(Byte) /\ Len(b) = 4
  /\ t \in Seq(Byte) /\ Len(t) = 8 /\ x \in Seq(Byte) /\ Len(x) = 4
  /\ c \in Seq(Byte) /\ Len(c) = 8 /\ u \in Seq(Byte) /\ Len(u) = 2
  /\ l \in Seq(Byte) /\ Len(l) = 4 /\ y \in Seq(Byte) /\ Len(y) = 2

\* Each of them lies where the ones before it end.
LEMMA EightPieces ==
  ASSUME NEW s, NEW a, NEW b, NEW t, NEW x, NEW c, NEW u, NEW l, NEW y, InRow(s, a, b, t, x, c, u, l, y)
  PROVE  /\ s \in Seq(Byte) /\ Len(s) = 34
         /\ Lies(s, 6, t, 14) /\ Lies(s, 14, x, 18) /\ Lies(s, 18, c, 26)
         /\ Lies(s, 26, u, 28) /\ Lies(s, 28, l, 32) /\ Lies(s, 32, y, 34)
<1> DEFINE s2 == a \o b   s3 == s2 \o t   s4 == s3 \o x   s5 == s4 \o c   s6 == s5 \o u   s7 == s6 \o l
<1>0. /\ s = s7 \o y
      /\ a \in Seq(Byte) /\ Len(a) = 2 /\ b \in Seq(Byte) /\ Len(b) = 4
      /\ t \in Seq(Byte) /\ Len(t) = 8 /\ x \in Seq(Byte) /\ Len(x) = 4
      /\ c \in Seq(Byte) /\ Len(c) = 8 /\ u \in Seq(Byte) /\ Len(u) = 2
      /\ l \in Seq(Byte) /\ Len(l) = 4 /\ y \in Seq(Byte) /\ Len(y) = 2
  BY DEF InRow
<1>1. s2 \in Seq(Byte) /\ Len(s2) = 6
  <2>0. 2 + 4 = 6
    OBVIOUS
  <2>1. Joined(s2, a, b, 2, 6)
    BY ONLY <1>0, <2>0, <1>0 DEF Joined
  <2> HIDE DEF s2
  <2>2. s2 \in Seq(Byte) /\ Len(s2) = 6 /\ Lies(s2, 2, b, 6)
    BY ONLY <2>1, PieceJoined
  <2> QED BY ONLY <2>2
<1> HIDE DEF s2
<1>2. s3 \in Seq(Byte) /\ Len(s3) = 14 /\ Lies(s3, 6, t, 14)
  <2>0. 6 + 8 = 14
    OBVIOUS
  <2>1. Joined(s3, s2, t, 6, 14)
    BY ONLY <1>1, <2>0, <1>0 DEF Joined
  <2> HIDE DEF s3
  <2>2. s3 \in Seq(Byte) /\ Len(s3) = 14 /\ Lies(s3, 6, t, 14)
    BY ONLY <2>1, PieceJoined
  <2> QED BY ONLY <2>2
<1> HIDE DEF s3
<1>3. s4 \in Seq(Byte) /\ Len(s4) = 18 /\ Lies(s4, 6, t, 14) /\ Lies(s4, 14, x, 18)
  <2>0. 14 + 4 = 18
    OBVIOUS
  <2>1. Joined(s4, s3, x, 14, 18)
    BY ONLY <1>2, <2>0, <1>0 DEF Joined
  <2> HIDE DEF s4
  <2>2. s4 \in Seq(Byte) /\ Len(s4) = 18 /\ Lies(s4, 14, x, 18)
    BY ONLY <2>1, PieceJoined
  <2>3. 14 <= 14
    OBVIOUS
  <2>4. Lies(s4, 6, t, 14)
    BY ONLY <1>2, <2>1, <2>3, PieceKept
  <2> QED BY ONLY <2>2, <2>4
<1> HIDE DEF s4
<1>4. s5 \in Seq(Byte) /\ Len(s5) = 26 /\ Lies(s5, 6, t, 14) /\ Lies(s5, 14, x, 18) /\ Lies(s5, 18, c, 26)
  <2>0. 18 + 8 = 26
    OBVIOUS
  <2>1. Joined(s5, s4, c, 18, 26)
    BY ONLY <1>3, <2>0, <1>0 DEF Joined
  <2> HIDE DEF s5
  <2>2. s5 \in Seq(Byte) /\ Len(s5) = 26 /\ Lies(s5, 18, c, 26)
    BY ONLY <2>1, PieceJoined
  <2>3. 14 <= 18 /\ 18 <= 18
    OBVIOUS
  <2>4. Lies(s5, 6, t, 14)
    BY ONLY <1>3, <2>1, <2>3, PieceKept
  <2>5. Lies(s5, 14, x, 18)
    BY ONLY <1>3, <2>1, <2>3, PieceKept
  <2> QED BY ONLY <2>2, <2>4, <2>5
<1> HIDE DEF s5
<1>5. s6 \in Seq(Byte) /\ Len(s6) = 28 /\ Lies(s6, 6, t, 14) /\ Lies(s6, 14, x, 18) /\ Lies(s6, 18, c, 26) /\ Lies(s6, 26, u, 28)
  <2>0. 26 + 2 = 28
    OBVIOUS
  <2>1. Joined(s6, s5, u, 26, 28)
    BY ONLY <1>4, <2>0, <1>0 DEF Joined
  <2> HIDE DEF s6
  <2>2. s6 \in Seq(Byte) /\ Len(s6) = 28 /\ Lies(s6, 26, u, 28)
    BY ONLY <2>1, PieceJoined
  <2>3. 14 <= 26 /\ 18 <= 26 /\ 26 <= 26
    OBVIOUS
  <2>4. Lies(s6, 6, t, 14)
    BY ONLY <1>4, <2>1, <2>3, PieceKept
  <2>5. Lies(s6, 14, x, 18)
    BY ONLY <1>4, <2>1, <2>3, PieceKept
  <2>6. Lies(s6, 18, c, 26)
    BY ONLY <1>4, <2>1, <2>3, PieceKept
  <2> QED BY ONLY <2>2, <2>4, <2>5, <2>6
<1> HIDE DEF s6
<1>6. s7 \in Seq(Byte) /\ Len(s7) = 32 /\ Lies(s7, 6, t, 14) /\ Lies(s7, 14, x, 18) /\ Lies(s7, 18, c, 26) /\ Lies(s7, 26, u, 28) /\ Lies(s7, 28, l, 32)
  <2>0. 28 + 4 = 32
    OBVIOUS
  <2>1. Joined(s7, s6, l, 28, 32)
    BY ONLY <1>5, <2>0, <1>0 DEF Joined
  <2> HIDE DEF s7
  <2>2. s7 \in Seq(Byte) /\ Len(s7) = 32 /\ Lies(s7, 28, l, 32)
    BY ONLY <2>1, PieceJoined
  <2>3. 14 <= 28 /\ 18 <= 28 /\ 26 <= 28 /\ 28 <= 28
    OBVIOUS
  <2>4. Lies(s7, 6, t, 14)
    BY ONLY <1>5, <2>1, <2>3, PieceKept
  <2>5. Lies(s7, 14, x, 18)
    BY ONLY <1>5, <2>1, <2>3, PieceKept
  <2>6. Lies(s7, 18, c, 26)
    BY ONLY <1>5, <2>1, <2>3, PieceKept
  <2>7. Lies(s7, 26, u, 28)
    BY ONLY <1>5, <2>1, <2>3, PieceKept
  <2> QED BY ONLY <2>2, <2>4, <2>5, <2>6, <2>7
<1> HIDE DEF s7
<1>7. s \in Seq(Byte) /\ Len(s) = 34 /\ Lies(s, 6, t, 14) /\ Lies(s, 14, x, 18) /\ Lies(s, 18, c, 26) /\ Lies(s, 26, u, 28) /\ Lies(s, 28, l, 32) /\ Lies(s, 32, y, 34)
  <2>0. 32 + 2 = 34
    OBVIOUS
  <2>1. Joined(s, s7, y, 32, 34)
    BY ONLY <1>6, <2>0, <1>0 DEF Joined
  <2>2. s \in Seq(Byte) /\ Len(s) = 34 /\ Lies(s, 32, y, 34)
    BY ONLY <2>1, PieceJoined
  <2>3. 14 <= 32 /\ 18 <= 32 /\ 26 <= 32 /\ 28 <= 32 /\ 32 <= 32
    OBVIOUS
  <2>4. Lies(s, 6, t, 14)
    BY ONLY <1>6, <2>1, <2>3, PieceKept
  <2>5. Lies(s, 14, x, 18)
    BY ONLY <1>6, <2>1, <2>3, PieceKept
  <2>6. Lies(s, 18, c, 26)
    BY ONLY <1>6, <2>1, <2>3, PieceKept
  <2>7. Lies(s, 26, u, 28)
    BY ONLY <1>6, <2>1, <2>3, PieceKept
  <2>8. Lies(s, 28, l, 32)
    BY ONLY <1>6, <2>1, <2>3, PieceKept
  <2> QED BY ONLY <2>2, <2>4, <2>5, <2>6, <2>7, <2>8
<1> QED BY ONLY <1>7

\* The body of an emergency frame: 34 bytes, with the fields in their places.
LEMMA BodyIs ==
  ASSUME NEW frame, FitFrame(frame), NEW buf \in Seq(Byte), Len(buf) >= 36,
         NEW body, body = EmergencyBody(frame, buf)
  PROVE  body \in Seq(Byte) /\ Len(body) = 34 /\ FieldsAt(body, frame)
<1> DEFINE d == Rounded(frame.dutyCycle)   h == Rounded(frame.healthScore)
           d2 == d % 65536   h2 == h % 256
           a == <<8, 66>>   b == Slice(buf, 2, 6)   t == frame.timestamp
           x == <<255, 8, 1, frame.thrusterID>>   c == frame.commandID
           u == Uint16(d2)   l == frame.lockDuration   y == <<frame.faultCode, h2>>
<1>1. /\ t \in Seq(Byte) /\ Len(t) = 8 /\ c \in Seq(Byte) /\ Len(c) = 8 /\ l \in Seq(Byte) /\ Len(l) = 4
      /\ frame.thrusterID \in Byte /\ frame.faultCode \in Byte /\ d \in 0..Ones /\ h \in Byte
  BY FrameTypes
<1>2. body = a \o b \o t \o x \o c \o u \o l \o y
  BY SMT DEF EmergencyBody
<1>3. d2 = d
  <2> HIDE DEF d
  <2>1. d \in Nat /\ d <= Ones
    <3>1. d \in 0..Ones
      BY ONLY <1>1
    <3>2. Ones \in Nat
      BY ONLY SMT DEF Ones
    <3> QED BY ONLY <3>1, <3>2
  <2> QED BY ONLY <2>1, SMT DEF Ones, d2
<1>4. h2 = h
  <2> HIDE DEF h
  <2>1. h \in Nat /\ h <= 255
    BY ONLY <1>1, ByteIsNat
  <2> QED BY ONLY <2>1, SMT DEF h2
<1>5. a \in Seq(Byte) /\ Len(a) = 2
  BY ONLY SMT DEF Byte
<1>6. b \in Seq(Byte) /\ Len(b) = 4
  <2>1. 2 \in Nat /\ 6 \in Nat /\ 2 <= 6 /\ 6 <= Len(buf) /\ 6 - 2 = 4
    OBVIOUS
  <2>2. b \in Seq(Byte) /\ Len(b) = 6 - 2
    BY ONLY <2>1, buf \in Seq(Byte), SliceIs
  <2> QED BY ONLY <2>1, <2>2
<1>7. x \in Seq(Byte) /\ Len(x) = 4 /\ x[4] = frame.thrusterID
  <2>1. 255 \in Byte /\ 8 \in Byte /\ 1 \in Byte
    BY ONLY SMT DEF Byte
  <2> QED BY ONLY <1>1, <2>1
<1>8. u \in Seq(Byte) /\ Len(u) = 2 /\ u[1] = d \div 256 /\ u[2] = d % 256
  <2> HIDE DEF d, d2
  <2>1. u = Uint16(d)
    BY ONLY <1>3
  <2>2. Uint16(d) \in Seq(Byte) /\ Len(Uint16(d)) = 2
    BY ONLY <1>1, TwoBytes
  <2>3. Uint16(d)[1] = d \div 256 /\ Uint16(d)[2] = d % 256
    BY ONLY DEF Uint16
  <2> HIDE DEF u
  <2> QED BY ONLY <2>1, <2>2, <2>3
<1>9. y \in Seq(Byte) /\ Len(y) = 2 /\ y[1] = frame.faultCode /\ y[2] = h
  <2> HIDE DEF h, h2
  <2>1. h2 \in Byte
    BY ONLY <1>1, <1>4
  <2>2. y \in Seq(Byte) /\ Len(y) = 2 /\ y[1] = frame.faultCode /\ y[2] = h2
    BY ONLY <1>1, <2>1
  <2> HIDE DEF y
  <2> QED BY ONLY <1>4, <2>2
<1> HIDE DEF d, h, d2, h2, a, b, t, x, c, u, l, y
<1>10. /\ body \in Seq(Byte) /\ Len(body) = 34
       /\ Lies(body, 6, t, 14) /\ Lies(body, 14, x, 18) /\ Lies(body, 18, c, 26)
       /\ Lies(body, 26, u, 28) /\ Lies(body, 28, l, 32) /\ Lies(body, 32, y, 34)
  <2>1. InRow(body, a, b, t, x, c, u, l, y)
    BY ONLY <1>1, <1>2, <1>5, <1>6, <1>7, <1>8, <1>9, Zenon DEF InRow
  <2> QED BY ONLY <2>1, EightPieces, Zenon
<1>11. body[14 + 4] = x[4] /\ body[26 + 1] = u[1] /\ body[26 + 2] = u[2]
       /\ body[32 + 1] = y[1] /\ body[32 + 2] = y[2]
  <2>1. 4 \in 1..Len(x) /\ 1 \in 1..Len(u) /\ 2 \in 1..Len(u) /\ 1 \in 1..Len(y) /\ 2 \in 1..Len(y)
    BY ONLY <1>7, <1>8, <1>9
  <2> QED BY ONLY <1>10, <2>1, Zenon DEF Lies
<1>12. 14 + 4 = 18 /\ 26 + 1 = 27 /\ 26 + 2 = 28 /\ 32 + 1 = 33 /\ 32 + 2 = 34
  OBVIOUS
<1>13. body[18] = frame.thrusterID /\ body[27] = d \div 256 /\ body[28] = d % 256
       /\ body[33] = frame.faultCode /\ body[34] = h
  BY ONLY <1>7, <1>8, <1>9, <1>11, <1>12
<1>14. FieldsAt(body, frame)
  BY ONLY <1>10, <1>13, Zenon DEF FieldsAt, t, c, l, d, h
<1> QED BY ONLY <1>10, <1>14

-------------------------------------------------------------------------------
(* A frame as it leaves.                                                      *)
PackedFrame(packed, frame) ==
  /\ packed \in Seq(Byte) /\ Len(packed) = 36 /\ FitFrame(frame) /\ FieldsAt(packed, frame)
  /\ FoldCarries[WordSum(packed)] = Ones

\* The fields stay where they are when something is put behind them.
LEMMA FieldsKept ==
  ASSUME NEW frame, FitFrame(frame), NEW a, NEW b, NEW c, NEW m, NEW e, Joined(c, a, b, m, e), 34 <= m,
         FieldsAt(a, frame)
  PROVE  FieldsAt(c, frame)
<1> DEFINE t == frame.timestamp   x == frame.commandID   l == frame.lockDuration
           d == Rounded(frame.dutyCycle)   h == Rounded(frame.healthScore)
<1>1. /\ Lies(a, 6, t, 14) /\ a[18] = frame.thrusterID /\ Lies(a, 18, x, 26)
      /\ a[27] = d \div 256 /\ a[28] = d % 256
      /\ Lies(a, 28, l, 32) /\ a[33] = frame.faultCode /\ a[34] = h
  BY DEF FieldsAt
<1> HIDE DEF t, x, l, d, h
<1>2. /\ a \in Seq(Byte) /\ Len(a) = m /\ b \in Seq(Byte) /\ c = a \o b
  BY DEF Joined
<1>3. \A i \in 1..Len(a) : c[i] = a[i]
  BY ONLY <1>2, JoinedIs
<1>4. 14 <= m /\ 26 <= m /\ 32 <= m /\ \A i \in {18, 27, 28, 33, 34} : i \in 1..Len(a)
  BY ONLY <1>2, 34 <= m
<1>5. Lies(c, 6, t, 14) /\ Lies(c, 18, x, 26) /\ Lies(c, 28, l, 32)
  <2>1. Lies(c, 6, t, 14)
    BY ONLY <1>1, <1>4, Joined(c, a, b, m, e), PieceKept
  <2>2. Lies(c, 18, x, 26)
    BY ONLY <1>1, <1>4, Joined(c, a, b, m, e), PieceKept
  <2>3. Lies(c, 28, l, 32)
    BY ONLY <1>1, <1>4, Joined(c, a, b, m, e), PieceKept
  <2> QED BY ONLY <2>1, <2>2, <2>3
<1>6. c[18] = a[18] /\ c[27] = a[27] /\ c[28] = a[28] /\ c[33] = a[33] /\ c[34] = a[34]
  BY ONLY <1>3, <1>4
<1> QED BY ONLY <1>1, <1>5, <1>6, Zenon DEF FieldsAt, t, x, l, d, h

\* Bytes are numbers, in sequences too.
LEMMA BytesAreNat == \A s \in Seq(Byte) : s \in Seq(Nat)
<1>1. Byte \subseteq Nat
  BY DEF Byte
<1> QED BY ONLY <1>1, SeqMonotonic

\* The checksum of a body, said without the numeral.
LEMMA Checksum16Is ==
  ASSUME NEW data
  PROVE  /\ CalculateChecksum16(data) = Ones - FoldCarries[WordSum(data)]
         /\ VerifyChecksum16(data) <=> FoldCarries[WordSum(data)] = Ones
BY SMT DEF CalculateChecksum16, VerifyChecksum16, Ones

\* What leaves is the body with a sum that makes all of it ones.
LEMMA FrameEncoded ==
  ASSUME NEW frame, FitFrame(frame), NEW len \in Nat, NEW r, r = EncodeEmergencyStop(frame, Zeros(len))
  PROVE  /\ r.n > 0 => PackedFrame(Slice(r.buf, 0, r.n), frame)
         /\ r.panic => len \in 28..35
<1> DEFINE buf == Zeros(len)
<1>1. buf \in Seq(Byte) /\ Len(buf) = len
  BY ONLY ZerosAre, len \in Nat
<1> HIDE DEF buf
<1>2. r = EncodeEmergencyStop(frame, buf)
  BY DEF buf
<1>3. CASE len < 28
  <2>1. r = Refused(buf)
    BY ONLY <1>1, <1>2, <1>3, FrameLengths DEF EncodeEmergencyStop
  <2>2. r.n = 0 /\ ~r.panic
    BY ONLY <2>1 DEF Refused
  <2> QED BY ONLY <2>2
<1>4. CASE len \in 28..35
  <2>1. r = Overrun(buf)
    BY ONLY <1>1, <1>2, <1>4, FrameLengths DEF EncodeEmergencyStop
  <2>2. r.n = 0
    BY ONLY <2>1 DEF Overrun
  <2> QED BY ONLY <1>4, <2>2
<1>5. CASE len >= 36
  <2> DEFINE body == EmergencyBody(frame, buf)
             sum == WordSum(body)   word == Ones - FoldCarries[sum]   u == Uint16(word)
             bytes == body \o u   rest == Slice(buf, 36, len)   all == bytes \o rest
  <2>1. body \in Seq(Byte) /\ Len(body) = 34 /\ FieldsAt(body, frame)
    <3>1. Len(buf) >= 36
      BY ONLY <1>1, <1>5
    <3> HIDE DEF body
    <3> QED BY ONLY <1>1, <3>1, FitFrame(frame), BodyIs DEF body
  <2>2. r = Encoded(body, buf)
    BY ONLY <1>1, <1>2, <1>5, len \in Nat, FrameLengths DEF EncodeEmergencyStop
  <2> HIDE DEF body
  <2>3. CalculateChecksum16(body) = word
    BY ONLY Checksum16Is
  <2>4. word \in 0..Ones /\ sum \in Nat
    <3>1. sum \in Nat
      BY ONLY <2>1, BytesAreNat, WordSumType
    <3> HIDE DEF sum
    <3>2. FoldCarries[sum] \in 0..Ones
      BY ONLY <3>1, FoldedType
    <3>3. Ones \in Nat
      BY SMT DEF Ones
    <3> QED BY ONLY <3>1, <3>2, <3>3
  <2> HIDE DEF word
  <2>5. u \in Seq(Byte) /\ Len(u) = 2 /\ WordSum(u) = word
    BY ONLY <2>4, TwoBytes
  <2> HIDE DEF u
  <2>6. Joined(bytes, body, u, 34, 36)
    <3>1. 34 + 2 = 36
      OBVIOUS
    <3> QED BY ONLY <2>1, <2>5, <3>1 DEF Joined
  <2>7. WordSum(bytes) = sum + word
    <3>1. Len(body) % 2 = 0
      BY ONLY <2>1, SMT
    <3>2. WordSum(body \o u) = WordSum(body) + WordSum(u)
      BY ONLY <2>1, <2>5, <3>1, BytesAreNat, WordSumJoined
    <3> QED BY ONLY <2>5, <3>2
  <2>8. r.n = Len(bytes) /\ ~r.panic /\ r.buf = bytes \o Slice(buf, Len(bytes), Len(buf))
    <3>1. bytes = body \o Uint16(CalculateChecksum16(body))
      BY ONLY <2>3 DEF u
    <3> HIDE DEF bytes
    <3> QED BY ONLY <2>2, <3>1 DEF Encoded
  <2> HIDE DEF bytes
  <2>9. bytes \in Seq(Byte) /\ Len(bytes) = 36
    BY ONLY <2>6, PieceJoined
  <2>10. FieldsAt(bytes, frame)
    <3>1. 34 <= 34
      OBVIOUS
    <3> QED BY ONLY <2>1, <2>6, <3>1, FitFrame(frame), FieldsKept
  <2>11. FoldCarries[WordSum(bytes)] = Ones
    <3> HIDE DEF sum
    <3>1. FoldCarries[sum + (Ones - FoldCarries[sum])] = Ones
      BY ONLY <2>4, ChecksumCompletes
    <3> QED BY ONLY <2>7, <3>1 DEF word
  <2>12. r.n = 36 /\ r.buf = bytes \o rest
    <3>1. r.n = 36
      BY ONLY <2>8, <2>9
    <3> QED BY ONLY <1>1, <2>8, <2>9, <3>1
  <2>13. rest \in Seq(Byte) /\ 36 + Len(rest) = len
    <3>1. 36 \in Nat /\ 36 <= len /\ len <= Len(buf)
      BY ONLY <1>1, <1>5, len \in Nat
    <3>2. rest \in Seq(Byte) /\ Len(rest) = len - 36
      <4>1. buf \in Seq(Byte)
        BY ONLY <1>1
      <4> QED BY ONLY <3>1, <4>1, len \in Nat, SliceIs, ZenonT(20)
    <3> QED BY ONLY <3>1, <3>2, len \in Nat
  <2> HIDE DEF rest
  <2>14. Slice(r.buf, 0, r.n) = bytes
    <3>1. 36 + Len(rest) = len
      BY ONLY <2>13
    <3>2. Joined(all, bytes, rest, 36, len)
      BY ONLY <2>9, <2>13, <3>1 DEF Joined
    <3> HIDE DEF all
    <3>3. Lies(bytes, 0, bytes, 36)
      <4>1. 0 \in Nat /\ 0 + Len(bytes) = 36 /\ \A i \in 1..Len(bytes) : 0 + i = i
        BY ONLY <2>9
      <4> QED BY ONLY <2>9, <4>1 DEF Lies
    <3>4. all \in Seq(Byte) /\ 36 <= Len(all) /\ 36 <= 36
      BY ONLY <1>5, <3>2, PieceJoined
    <3>5. Slice(all, 0, 36) = bytes
      BY ONLY <3>2, <3>3, <3>4, PieceKept, SliceAt
    <3> QED BY ONLY <2>12, <3>5 DEF all
  <2>15. PackedFrame(bytes, frame)
    BY ONLY <2>9, <2>10, <2>11, FitFrame(frame) DEF PackedFrame
  <2> QED BY ONLY <2>8, <2>14, <2>15
<1> QED BY ONLY <1>3, <1>4, <1>5, len \in Nat

\* A command's encoder writes past the end of a buffer that only its length
\* check lets through.
LEMMA CommandEncoded ==
  ASSUME NEW frame, NEW apid, NEW seqCount, NEW len \in Nat,
         NEW r, r = EncodeCommand(frame, apid, seqCount, Zeros(len)), r.panic
  PROVE  len \in 32..36
<1> DEFINE buf == Zeros(len)
<1>1. Len(buf) = len
  BY ONLY ZerosAre, len \in Nat
<1> HIDE DEF buf
<1>2. r = EncodeCommand(frame, apid, seqCount, buf)
  BY DEF buf
<1>3. CASE len < 32
  <2>1. r = Refused(buf)
    BY ONLY <1>1, <1>2, <1>3, FrameLengths DEF EncodeCommand
  <2> QED BY ONLY <2>1, r.panic DEF Refused
<1>4. CASE len >= 37
  <2>1. r = Encoded(CommandBody(frame, apid, seqCount), buf)
    BY ONLY <1>1, <1>2, <1>4, len \in Nat, FrameLengths DEF EncodeCommand
  <2> QED BY ONLY <2>1, r.panic DEF Encoded
<1> QED BY ONLY <1>3, <1>4, len \in Nat

-------------------------------------------------------------------------------
(* The bytes on their way, after what happened to them.                       *)
Arrives(packed, bytes, how) ==
  \/ how.kind = "none" /\ bytes = packed
  \/ how.kind = "byte" /\ \E b \in Byte : Changed(bytes, packed, how.at, b)
  \/ how.kind = "cut" /\ \E k \in Nat : k < Len(packed) /\ bytes = Slice(packed, 0, k)
  \/ how.kind = "padded" /\ \E k \in Nat : bytes = packed \o Zeros(k)

\* The decoder of a frame gives back the fields that lie there, up to rounding.
LEMMA FieldsSaid ==
  ASSUME NEW frame, FitFrame(frame), NEW data \in Seq(Byte), Len(data) >= 36, FieldsAt(data, frame)
  PROVE  FrameSays(DecodeEmergencyStop(data), frame)
<1> DEFINE d == Rounded(frame.dutyCycle)   h == Rounded(frame.healthScore)   said == DecodeEmergencyStop(data)
           duty == frame.dutyCycle   health == frame.healthScore
<1>1. /\ Lies(data, 6, frame.timestamp, 14) /\ data[18] = frame.thrusterID /\ Lies(data, 18, frame.commandID, 26)
      /\ data[27] = d \div 256 /\ data[28] = d % 256
      /\ Lies(data, 28, frame.lockDuration, 32) /\ data[33] = frame.faultCode /\ data[34] = h
  BY DEF FieldsAt
<1>2. duty \in Nat /\ health \in Nat /\ d \in Nat /\ h \in Nat
  BY FrameTypes, RoundedIs
<1>3. 14 <= Len(data) /\ 26 <= Len(data) /\ 32 <= Len(data)
  OBVIOUS
<1>4. /\ 10 * d - duty <= 5 /\ duty - 10 * d <= 5 /\ 10 * h - health <= 5 /\ health - 10 * h <= 5
  BY FrameTypes, RoundedIs
<1> HIDE DEF d, h, duty, health
<1>5. /\ Slice(data, 6, 14) = frame.timestamp /\ Slice(data, 18, 26) = frame.commandID
      /\ Slice(data, 28, 32) = frame.lockDuration
  BY ONLY <1>1, <1>3, data \in Seq(Byte), SliceAt
<1>6. 256 * data[27] + data[28] = d
  <2>1. 256 * (d \div 256) + (d % 256) = d
    BY ONLY <1>2, SMT
  <2> QED BY ONLY <1>1, <2>1, Zenon
<1>7. /\ said.timestamp = frame.timestamp /\ said.thrusterID = frame.thrusterID
      /\ said.commandID = frame.commandID /\ said.lockDuration = frame.lockDuration
      /\ said.faultCode = frame.faultCode
  BY ONLY <1>1, <1>5 DEF DecodeEmergencyStop
<1>8. said.dutyCycle = 10 * d /\ said.healthScore = 10 * h
  <2>1. said.dutyCycle = 10 * (256 * data[27] + data[28]) /\ said.healthScore = 10 * data[34]
    BY ONLY Zenon DEF DecodeEmergencyStop
  <2> QED BY ONLY <1>1, <1>6, <2>1, Zenon
<1> HIDE DEF said
<1>9. Near(said.dutyCycle, duty) /\ Near(said.healthScore, health)
  <2>1. Near(10 * d, duty) /\ Near(10 * h, health)
    BY ONLY <1>2, <1>4 DEF Near
  <2> QED BY ONLY <1>8, <2>1, Zenon
<1>10. \A field \in {"timestamp", "thrusterID", "commandID", "lockDuration", "faultCode"} :
         said[field] = frame[field]
  BY ONLY <1>7
<1> QED BY ONLY <1>9, <1>10 DEF FrameSays, said, duty, health

\* What is left of a buffer of bytes is bytes.
LEMMA BufferType ==
  ASSUME NEW packed, NEW frame, PackedFrame(packed, frame), NEW bytes, NEW how, Arrives(packed, bytes, how)
  PROVE  bytes \in Seq(Byte)
<1>1. packed \in Seq(Byte) /\ Len(packed) = 36
  BY DEF PackedFrame
<1>2. ASSUME NEW b \in Byte, Changed(bytes, packed, how.at, b) PROVE bytes \in Seq(Byte)
  BY ONLY <1>1, <1>2, ExceptSeq DEF Changed
<1>3. ASSUME NEW k \in Nat, k < Len(packed), bytes = Slice(packed, 0, k) PROVE bytes \in Seq(Byte)
  <2>1. 0 \in Nat /\ 0 <= k /\ k <= Len(packed)
    BY ONLY <1>1, <1>3
  <2> QED BY ONLY <1>1, <1>3, <2>1, SliceIs
<1>4. ASSUME NEW k \in Nat, bytes = packed \o Zeros(k) PROVE bytes \in Seq(Byte)
  <2>1. Zeros(k) \in Seq(Byte)
    BY ONLY ZerosAre
  <2> QED BY ONLY <1>1, <1>4, <2>1, JoinedIs
<1> QED BY <1>1, <1>2, <1>3, <1>4 DEF Arrives

\* A frame that arrives verifies exactly if no byte changed, and then says what
\* was put in; one that was cut is not read at all.
LEMMA FrameHeard ==
  ASSUME NEW packed, NEW frame, PackedFrame(packed, frame),
         NEW bytes, NEW how, Arrives(packed, bytes, how), Len(bytes) >= 36
  PROVE  /\ VerifyChecksum16(bytes) <=> how.kind # "byte"
         /\ VerifyChecksum16(bytes) => FrameSays(DecodeEmergencyStop(bytes), frame)
<1>1. /\ packed \in Seq(Byte) /\ Len(packed) = 36 /\ FitFrame(frame) /\ FieldsAt(packed, frame)
      /\ FoldCarries[WordSum(packed)] = Ones
  BY DEF PackedFrame
<1>2. \A s : VerifyChecksum16(s) <=> FoldCarries[WordSum(s)] = Ones
  BY ONLY Checksum16Is
<1>3. CASE how.kind = "none" /\ bytes = packed
  <2>1. FrameSays(DecodeEmergencyStop(bytes), frame)
    BY ONLY <1>1, <1>3, Len(bytes) >= 36, FieldsSaid
  <2> QED BY ONLY <1>1, <1>2, <1>3, <2>1
<1>4. CASE how.kind = "byte" /\ \E b \in Byte : Changed(bytes, packed, how.at, b)
  <2>1. PICK b \in Byte : Changed(bytes, packed, how.at, b)
    BY <1>4
  <2> DEFINE at == how.at
  <2>2. at \in 1..Len(packed) /\ b # packed[at] /\ bytes = [packed EXCEPT ![at] = b]
    BY ONLY <2>1 DEF Changed
  <2> DEFINE s == WordSum(packed)   t == WordSum(bytes)
  <2> HIDE DEF at
  <2>3. s \in Nat /\ t \in Nat /\ s # t /\ Close(s, t)
    <3>1. LET s0 == WordSum(packed)   t0 == WordSum([packed EXCEPT ![at] = b])
          IN  s0 \in Nat /\ t0 \in Nat /\ s0 # t0 /\ Close(s0, t0)
      BY ONLY <1>1, <2>2, b \in Byte, ChangedSum
    <3> QED BY ONLY <2>2, <3>1
  <2> HIDE DEF s, t
  <2>4. FoldCarries[t] # Ones
    <3>1. FoldCarries[s] = Ones
      BY ONLY <1>1 DEF s
    <3> QED BY ONLY <2>3, <3>1, OnesAreLost
  <2>5. ~VerifyChecksum16(bytes)
    BY ONLY <1>2, <2>4 DEF t
  <2> QED BY ONLY <1>4, <2>5
<1>5. CASE how.kind = "cut" /\ \E k \in Nat : k < Len(packed) /\ bytes = Slice(packed, 0, k)
  <2>1. PICK k \in Nat : k < Len(packed) /\ bytes = Slice(packed, 0, k)
    BY <1>5
  <2>2. 0 \in Nat /\ 0 <= k /\ k <= Len(packed) /\ k - 0 = k /\ k < 36
    BY ONLY <1>1, <2>1
  <2>3. Len(bytes) = k - 0
    BY ONLY <1>1, <2>1, <2>2, SliceIs
  <2> QED BY ONLY <2>2, <2>3, Len(bytes) >= 36
<1>6. CASE how.kind = "padded" /\ \E k \in Nat : bytes = packed \o Zeros(k)
  <2>1. PICK k \in Nat : bytes = packed \o Zeros(k)
    BY <1>6
  <2> DEFINE z == Zeros(k)
  <2>2. z \in Seq(Byte) /\ Len(z) = k
    BY ONLY ZerosAre
  <2>3. WordSum(z) = 0
    BY ONLY WordSumZeros DEF Zeros
  <2> HIDE DEF z
  <2>4. Joined(bytes, packed, z, 36, 36 + k)
    BY ONLY <1>1, <2>1, <2>2 DEF Joined, z
  <2>5. bytes \in Seq(Byte) /\ FieldsAt(bytes, frame)
    <3>1. 34 <= 36
      OBVIOUS
    <3> QED BY ONLY <1>1, <2>4, <3>1, PieceJoined, FieldsKept
  <2>6. WordSum(bytes) = WordSum(packed)
    <3>1. Len(packed) % 2 = 0
      BY ONLY <1>1, SMT
    <3>2. WordSum(packed \o z) = WordSum(packed) + WordSum(z)
      BY ONLY <1>1, <2>2, <3>1, BytesAreNat, WordSumJoined
    <3>3. WordSum(packed) \in Nat
      BY ONLY <1>1, BytesAreNat, WordSumType
    <3>4. bytes = packed \o z
      BY ONLY <2>1 DEF z
    <3> QED BY ONLY <2>3, <3>2, <3>3, <3>4
  <2>7. FrameSays(DecodeEmergencyStop(bytes), frame)
    BY ONLY <1>1, <2>5, Len(bytes) >= 36, FieldsSaid
  <2> QED BY ONLY <1>1, <1>2, <1>6, <2>6, <2>7
<1> QED BY ONLY <1>3, <1>4, <1>5, <1>6, Arrives(packed, bytes, how), Zenon DEF Arrives

-------------------------------------------------------------------------------
\* A packet that arrives is judged by what happened to it.
LEMMA PacketHeard ==
  ASSUME NEW packet, NEW seqCount, NEW timestamp \in [1..8 -> Byte], NEW n,
         Packed(packet, seqCount, timestamp, n),
         NEW bytes, NEW how, Arrives(packet, bytes, how), NEW r, r = Decode(bytes)
  PROVE  /\ how.kind \in {"none", "padded"} => AsSent(r, seqCount, timestamp, n)
         /\ how.kind = "byte" =>
              SamplesOf(r) = <<>> \/ how.at \in LengthField \/ (how.at = 1 /\ r.primary.type = 1)
         /\ r.err = "panic" => how.kind = "byte" /\ how.at = 6 /\ r.buffer[6] < SecondaryHeaderLen - 1
<1>1. packet \in Seq(Byte)
  BY ONLY Packed(packet, seqCount, timestamp, n), Zenon DEF Packed
<1> DEFINE Whole == AsSent(r, seqCount, timestamp, n)
<1>2. Begins(bytes, packet) => Whole
  BY ONLY Packed(packet, seqCount, timestamp, n), timestamp \in [1..8 -> Byte], r = Decode(bytes), WholeAccepted
<1>3. Whole => r.err # "panic"
  BY ONLY Zenon DEF AsSent
<1> HIDE DEF Whole
<1>4. CASE how.kind = "none" /\ bytes = packet
  <2>1. Begins(bytes, packet)
    BY ONLY <1>1, <1>4 DEF Begins
  <2> QED BY ONLY <1>2, <1>3, <1>4, <2>1 DEF Whole
<1>5. CASE how.kind = "padded" /\ \E k \in Nat : bytes = packet \o Zeros(k)
  <2>1. PICK k \in Nat : bytes = packet \o Zeros(k)
    BY <1>5
  <2> DEFINE z == Zeros(k)
  <2>2. z \in Seq(Byte) /\ Len(z) = k
    BY ONLY ZerosAre
  <2>3. /\ packet \o z \in Seq(Byte) /\ Len(packet \o z) = Len(packet) + Len(z)
        /\ \A i \in 1..Len(packet) : (packet \o z)[i] = packet[i]
    <3> HIDE DEF z
    <3> QED BY ONLY <1>1, <2>2, JoinedIs
  <2>4. Len(packet) + Len(z) >= Len(packet)
    BY ONLY <1>1, <2>2
  <2>5. bytes = packet \o z
    BY ONLY <2>1
  <2> HIDE DEF z
  <2>6. Begins(bytes, packet)
    BY ONLY <2>3, <2>4, <2>5 DEF Begins
  <2> QED BY ONLY <1>2, <1>3, <1>5, <2>6 DEF Whole
<1>6. CASE how.kind = "byte" /\ \E b \in Byte : Changed(bytes, packet, how.at, b)
  <2> DEFINE at == how.at
  <2>1. PICK b \in Byte : Changed(bytes, packet, at, b)
    BY <1>6
  <2> HIDE DEF at
  <2>2. SamplesOf(r) = <<>> \/ at \in {5, 6} \/ (at = 1 /\ r.primary.type = 1)
    BY ONLY <2>1, Packed(packet, seqCount, timestamp, n), r = Decode(bytes), ByteCaught
  <2>3. r.err = "panic" => at = 6 /\ r.buffer[6] < 13
    BY ONLY <2>1, Packed(packet, seqCount, timestamp, n), r = Decode(bytes), ByteCrash
  <2>4. LengthField = {5, 6} /\ SecondaryHeaderLen - 1 = 13
    BY ONLY Lengths DEF LengthField
  <2> QED BY ONLY <1>6, <2>2, <2>3, <2>4 DEF at
<1>7. CASE how.kind = "cut" /\ \E k \in Nat : k < Len(packet) /\ bytes = Slice(packet, 0, k)
  <2>1. PICK k \in Nat : k < Len(packet) /\ bytes = Slice(packet, 0, k)
    BY <1>7
  <2>2. Decode(Slice(packet, 0, k)).err # "panic"
    BY ONLY <2>1, Packed(packet, seqCount, timestamp, n), CutRejected
  <2> QED BY ONLY <1>7, <2>1, <2>2, r = Decode(bytes)
<1> QED BY ONLY <1>4, <1>5, <1>6, <1>7, Arrives(packet, bytes, how), Zenon DEF Arrives

(* A packet, and a frame, on its way, as they were sent.                      *)
PacketOnItsWay(what, bytes, how) ==
  \E n, packet :
    /\ Packed(packet, what.seqCount, what.timestamp, n)
    /\ what.timestamp \in [1..8 -> Byte] /\ what.samples \in [1..n -> Reading]
    /\ Arrives(packet, bytes, how)

FrameOnItsWay(what, bytes, how) ==
  \E packed : PackedFrame(packed, what.frame) /\ Arrives(packed, bytes, how)

(* What was sent is on its way, and what was received or took the program     *)
(* down is judged as the properties say.                                      *)
TransitInv ==
  /\ stage = "sent" /\ origin.kind = "telemetry" => PacketOnItsWay(origin, buffer, damage)
  /\ stage = "sent" /\ origin.kind = "emergency" => FrameOnItsWay(origin, buffer, damage)
  /\ PacketsJudged /\ CrashesExplained /\ FramesIntact

\* The assumption on the constants, in the words of the lemmas.
LEMMA SamplesAre ==
  /\ Samples \subseteq Reading /\ SeqCounts \subseteq Nat /\ Timestamps \subseteq [1..8 -> Byte]
  /\ \A frame \in Emergencies : FitFrame(frame)
  /\ BufferLens \subseteq Nat /\ WrongBytes \subseteq Byte /\ \A n \in 1..MaxSamples : n \in 1..18
BY TransitAssumption DEF Reading, FitFrame

\* Nothing is judged while a buffer is on its way.
LEMMA NothingJudged ==
  ASSUME stage' = "sent"
  PROVE  (PacketsJudged /\ CrashesExplained /\ FramesIntact)'
BY DEF PacketsJudged, WholePacketsAccepted, CorruptionCaught, CrashesExplained, FramesIntact, Received

-------------------------------------------------------------------------------
\* The source sends a packet as the decoder expects it.
LEMMA TelemetrySent ==
  ASSUME NEW seqCount \in SeqCounts, NEW timestamp \in Timestamps, NEW n \in 1..MaxSamples,
         NEW samples \in [1..n -> Samples], SendTelemetry(seqCount, timestamp, samples)
  PROVE  TransitInv'
<1> DEFINE packet == GenerateCCSDSPacket(seqCount, timestamp, samples)
<1>1. /\ stage' = "sent" /\ buffer' = packet /\ damage' = Intact
      /\ origin' = [kind |-> "telemetry", seqCount |-> seqCount, timestamp |-> timestamp, samples |-> samples]
  BY DEF SendTelemetry, Send
<1>2. /\ seqCount \in Nat /\ timestamp \in [1..8 -> Byte] /\ n \in 1..18 /\ samples \in [1..n -> Reading]
  BY SamplesAre
<1>3. Packed(packet, seqCount, timestamp, n)
  BY ONLY <1>2, GeneratedIsPacked
<1> HIDE DEF packet
<1>4. Arrives(packet, buffer', damage')
  BY ONLY <1>1 DEF Arrives, Intact
<1>5. PacketOnItsWay(origin', buffer', damage')
  BY ONLY <1>1, <1>2, <1>3, <1>4 DEF PacketOnItsWay
<1>6. origin'.kind = "telemetry"
  BY ONLY <1>1
<1> QED BY ONLY <1>1, <1>5, <1>6, NothingJudged DEF TransitInv

\* So does the encoder of an emergency frame, unless it takes the program down.
LEMMA EmergencySent ==
  ASSUME NEW frame, FitFrame(frame), NEW len \in Nat, NEW r, r = EncodeEmergencyStop(frame, Zeros(len)),
         SendFrame("emergency", frame, r, len)
  PROVE  TransitInv'
<1>1. /\ r.n > 0 => PackedFrame(Slice(r.buf, 0, r.n), frame)
      /\ r.panic => len \in 28..35
  BY ONLY FitFrame(frame), len \in Nat, r = EncodeEmergencyStop(frame, Zeros(len)), FrameEncoded
<1>2. CASE r.n > 0 /\ Send(Slice(r.buf, 0, r.n), [kind |-> "emergency", frame |-> frame])
  <2> DEFINE packed == Slice(r.buf, 0, r.n)
  <2>1. /\ stage' = "sent" /\ buffer' = packed /\ damage' = Intact
        /\ origin' = [kind |-> "emergency", frame |-> frame]
    BY <1>2 DEF Send
  <2>2. PackedFrame(packed, frame)
    BY ONLY <1>1, <1>2
  <2> HIDE DEF packed
  <2>3. Arrives(packed, buffer', damage')
    BY ONLY <2>1 DEF Arrives, Intact
  <2>4. origin'.frame = frame /\ origin'.kind = "emergency"
    BY ONLY <2>1
  <2>5. FrameOnItsWay(origin', buffer', damage')
    BY ONLY <2>2, <2>3, <2>4 DEF FrameOnItsWay
  <2> QED BY ONLY <2>1, <2>4, <2>5, NothingJudged DEF TransitInv
<1>3. CASE r.panic /\ stage' = "crashed" /\ origin' = [kind |-> "emergency", bufferLen |-> len]
  <2>1. len \in 28..35
    BY ONLY <1>1, <1>3
  <2>2. stage' = "crashed" /\ origin'.kind = "emergency" /\ origin'.bufferLen = len
    BY ONLY <1>3
  <2>3. CrashesExplained'
    BY ONLY <2>1, <2>2 DEF CrashesExplained
  <2>4. PacketsJudged' /\ FramesIntact'
    BY ONLY <2>2 DEF PacketsJudged, WholePacketsAccepted, CorruptionCaught, FramesIntact, Received
  <2> QED BY ONLY <2>2, <2>3, <2>4 DEF TransitInv
<1> QED BY <1>2, <1>3 DEF SendFrame

\* A command frame on its way is not looked at again.
LEMMA CommandSent ==
  ASSUME NEW frame, NEW seqCount, NEW len \in Nat, SendCommand(frame, seqCount, len)
  PROVE  TransitInv'
<1> DEFINE r == EncodeCommand(frame, 67, seqCount, Zeros(len))
<1>1. r.panic => len \in 32..36
  BY ONLY len \in Nat, CommandEncoded
<1>2. SendFrame("command", frame, r, len)
  BY DEF SendCommand
<1> HIDE DEF r
<1>3. CASE r.n > 0 /\ Send(Slice(r.buf, 0, r.n), [kind |-> "command", frame |-> frame])
  <2>1. stage' = "sent" /\ origin' = [kind |-> "command", frame |-> frame]
    BY <1>3 DEF Send
  <2>2. origin'.kind = "command"
    BY ONLY <2>1
  <2> QED BY ONLY <2>1, <2>2, NothingJudged DEF TransitInv
<1>4. CASE r.panic /\ stage' = "crashed" /\ origin' = [kind |-> "command", bufferLen |-> len]
  <2>1. stage' = "crashed" /\ origin'.kind = "command" /\ origin'.bufferLen = len
    BY ONLY <1>4
  <2>2. CrashesExplained'
    BY ONLY <1>1, <1>4, <2>1 DEF CrashesExplained
  <2>3. PacketsJudged' /\ FramesIntact'
    BY ONLY <2>1 DEF PacketsJudged, WholePacketsAccepted, CorruptionCaught, FramesIntact, Received
  <2> QED BY ONLY <2>1, <2>2, <2>3 DEF TransitInv
<1> QED BY <1>2, <1>3, <1>4 DEF SendFrame

\* What may happen to the bytes of anything on its way.
LEMMA ArrivesDamaged ==
  ASSUME NEW packed \in Seq(Byte), Arrives(packed, buffer, damage), damage = Intact,
         NEW d, NEW how,
         \/ \E i \in DOMAIN buffer, b \in WrongBytes :
              buffer[i] # b /\ d = [buffer EXCEPT ![i] = b] /\ how = [kind |-> "byte", at |-> i]
         \/ \E k \in DOMAIN buffer : k < Len(buffer) /\ d = Slice(buffer, 0, k) /\ how = [kind |-> "cut"]
         \/ \E k \in 1..3 : d = buffer \o Zeros(k) /\ how = [kind |-> "padded"]
  PROVE  Arrives(packed, d, how)
<1>1. buffer = packed
  BY DEF Arrives, Intact
<1>2. DOMAIN buffer = 1..Len(packed)
  BY ONLY <1>1, packed \in Seq(Byte)
<1>3. ASSUME NEW i \in DOMAIN buffer, NEW b \in WrongBytes, buffer[i] # b,
             d = [buffer EXCEPT ![i] = b], how = [kind |-> "byte", at |-> i]
      PROVE  Arrives(packed, d, how)
  <2>1. how.kind = "byte" /\ how.at = i /\ b \in Byte
    BY <1>3, SamplesAre
  <2>2. Changed(d, packed, i, b)
    BY ONLY <1>1, <1>2, <1>3, <2>1 DEF Changed
  <2> QED BY ONLY <2>1, <2>2 DEF Arrives
<1>4. ASSUME NEW k \in DOMAIN buffer, k < Len(buffer), d = Slice(buffer, 0, k), how = [kind |-> "cut"]
      PROVE  Arrives(packed, d, how)
  <2>1. k \in Nat /\ k < Len(packed) /\ how.kind = "cut" /\ d = Slice(packed, 0, k)
    BY ONLY <1>1, <1>2, <1>4
  <2> QED BY ONLY <2>1 DEF Arrives
<1>5. ASSUME NEW k \in 1..3, d = buffer \o Zeros(k), how = [kind |-> "padded"]
      PROVE  Arrives(packed, d, how)
  <2>1. k \in Nat /\ how.kind = "padded" /\ d = packed \o Zeros(k)
    BY ONLY <1>1, <1>5
  <2> QED BY ONLY <2>1 DEF Arrives
<1> QED BY <1>3, <1>4, <1>5

\* It stays on its way.
LEMMA Damaged ==
  ASSUME TransitInv,
         \/ \E i \in DOMAIN buffer, b \in WrongBytes : ChangeByte(i, b)
         \/ \E n \in DOMAIN buffer : Truncate(n)
         \/ \E n \in 1..3 : Pad(n)
  PROVE  TransitInv'
<1>1. stage = "sent" /\ damage = Intact /\ stage' = stage /\ origin' = origin
  BY DEF ChangeByte, Truncate, Pad, Damage
<1>2. \/ \E i \in DOMAIN buffer, b \in WrongBytes :
           buffer[i] # b /\ buffer' = [buffer EXCEPT ![i] = b] /\ damage' = [kind |-> "byte", at |-> i]
      \/ \E k \in DOMAIN buffer : k < Len(buffer) /\ buffer' = Slice(buffer, 0, k) /\ damage' = [kind |-> "cut"]
      \/ \E k \in 1..3 : buffer' = buffer \o Zeros(k) /\ damage' = [kind |-> "padded"]
  BY DEF ChangeByte, Truncate, Pad, Damage
<1>3. ASSUME NEW packed \in Seq(Byte), Arrives(packed, buffer, damage)
      PROVE  Arrives(packed, buffer', damage')
  BY ONLY <1>1, <1>2, <1>3, ArrivesDamaged
<1>4. CASE origin.kind = "telemetry"
  <2>1. PICK n, packet :
          /\ Packed(packet, origin.seqCount, origin.timestamp, n)
          /\ origin.timestamp \in [1..8 -> Byte] /\ origin.samples \in [1..n -> Reading]
          /\ Arrives(packet, buffer, damage)
    BY <1>1, <1>4 DEF TransitInv, PacketOnItsWay
  <2>2. packet \in Seq(Byte)
    BY ONLY <2>1, Zenon DEF Packed
  <2>3. Arrives(packet, buffer', damage')
    BY ONLY <1>3, <2>1, <2>2
  <2>4. PacketOnItsWay(origin', buffer', damage')
    BY ONLY <1>1, <2>1, <2>3, Zenon DEF PacketOnItsWay
  <2> QED BY ONLY <1>1, <1>4, <2>4, NothingJudged DEF TransitInv
<1>5. CASE origin.kind = "emergency"
  <2>1. PICK packed : PackedFrame(packed, origin.frame) /\ Arrives(packed, buffer, damage)
    BY <1>1, <1>5 DEF TransitInv, FrameOnItsWay
  <2>2. packed \in Seq(Byte)
    BY ONLY <2>1 DEF PackedFrame
  <2>3. Arrives(packed, buffer', damage')
    BY ONLY <1>3, <2>1, <2>2
  <2>4. FrameOnItsWay(origin', buffer', damage')
    BY ONLY <1>1, <2>1, <2>3, Zenon DEF FrameOnItsWay
  <2> QED BY ONLY <1>1, <1>5, <2>4, NothingJudged DEF TransitInv
<1>6. CASE origin.kind \notin {"telemetry", "emergency"}
  BY ONLY <1>1, <1>6, NothingJudged DEF TransitInv
<1> QED BY ONLY <1>4, <1>5, <1>6

-------------------------------------------------------------------------------
\* Decode judges a packet that arrives, or takes the program down.
LEMMA TelemetryReceived ==
  ASSUME TransitInv, ReceiveTelemetry
  PROVE  TransitInv'
<1> DEFINE r == Decode(buffer)
<1>1. /\ stage = "sent" /\ origin.kind = "telemetry" /\ heard' = r /\ buffer' = r.buffer
      /\ stage' = (IF r.err = "panic" THEN "crashed" ELSE "received")
      /\ origin' = origin /\ damage' = damage
  BY DEF ReceiveTelemetry
<1>2. PICK n, packet :
        /\ Packed(packet, origin.seqCount, origin.timestamp, n)
        /\ origin.timestamp \in [1..8 -> Byte] /\ origin.samples \in [1..n -> Reading]
        /\ Arrives(packet, buffer, damage)
  BY <1>1 DEF TransitInv, PacketOnItsWay
<1>3. /\ damage.kind \in {"none", "padded"} => AsSent(r, origin.seqCount, origin.timestamp, n)
      /\ damage.kind = "byte" =>
           SamplesOf(r) = <<>> \/ damage.at \in LengthField \/ (damage.at = 1 /\ r.primary.type = 1)
      /\ r.err = "panic" => damage.kind = "byte" /\ damage.at = 6 /\ r.buffer[6] < SecondaryHeaderLen - 1
  BY ONLY <1>2, PacketHeard
<1> HIDE DEF r
<1>4. stage' # "sent"
  BY ONLY <1>1
<1>5. CASE r.err = "panic"
  <2>1. stage' = "crashed" /\ origin'.kind = "telemetry"
    BY ONLY <1>1, <1>5
  <2>2. CrashesExplained'
    BY ONLY <1>1, <1>3, <1>5, <2>1 DEF CrashesExplained
  <2>3. PacketsJudged' /\ FramesIntact'
    BY ONLY <2>1 DEF PacketsJudged, WholePacketsAccepted, CorruptionCaught, FramesIntact, Received
  <2> QED BY ONLY <1>4, <2>2, <2>3 DEF TransitInv
<1>6. CASE r.err # "panic"
  <2>1. stage' = "received" /\ origin'.kind = "telemetry"
    BY ONLY <1>1, <1>6
  <2>2. CrashesExplained' /\ FramesIntact'
    BY ONLY <2>1 DEF CrashesExplained, FramesIntact, Received
  <2>3. CorruptionCaught'
    BY ONLY <1>1, <1>3 DEF CorruptionCaught
  <2>4. WholePacketsAccepted'
    <3>1. DOMAIN origin.samples = 1..n /\ Len(origin.samples) = n
      <4>1. n \in 1..18 /\ origin.samples \in [1..n -> Reading]
        BY ONLY <1>2 DEF Packed
      <4> QED BY ONLY <4>1, LenProperties, SeqDef
    <3>2. AsSent(r, origin.seqCount, origin.timestamp, n) =>
            /\ r.err = "none"
            /\ r.primary.sequenceCount = origin.seqCount % 2^14
            /\ r.secondary.timestamp = origin.timestamp
            /\ Len(SamplesOf(r)) = Len(origin.samples)
            /\ \A i \in DOMAIN origin.samples :
                 SamplesOf(r)[i].sequence = r.primary.sequenceCount * Len(origin.samples) + i - 1
      BY ONLY <3>1, Zenon DEF AsSent
    <3> QED BY ONLY <1>1, <1>3, <3>2, Zenon DEF WholePacketsAccepted
  <2> QED BY ONLY <1>4, <2>2, <2>3, <2>4 DEF TransitInv, PacketsJudged
<1> QED BY ONLY <1>5, <1>6

\* The receiver of a frame takes it or leaves it.
LEMMA FrameReceived ==
  ASSUME TransitInv, ReceiveFrame
  PROVE  TransitInv'
<1>1. /\ stage = "sent" /\ stage' = "received" /\ origin.kind \in {"emergency", "command"}
      /\ origin' = origin /\ damage' = damage /\ buffer' = buffer
  BY DEF ReceiveFrame
<1>2. heard' = IF origin.kind = "command" \/ Len(buffer) < EmergencyFrameLen THEN Nothing
               ELSE [kind |-> "emergency", frame |-> DecodeEmergencyStop(buffer),
                     verified |-> VerifyChecksum16(buffer)]
  BY DEF ReceiveFrame
<1>3. PacketsJudged' /\ CrashesExplained'
  BY ONLY <1>1 DEF PacketsJudged, WholePacketsAccepted, CorruptionCaught, CrashesExplained, Received
<1>4. FramesIntact'
  <2>1. CASE origin.kind = "command"
    BY ONLY <1>1, <2>1 DEF FramesIntact, Received
  <2>2. CASE Len(buffer) < EmergencyFrameLen
    BY ONLY <1>2, <2>2 DEF FramesIntact
  <2>3. CASE origin.kind = "emergency" /\ ~(Len(buffer) < EmergencyFrameLen)
    <3>1. PICK packed : PackedFrame(packed, origin.frame) /\ Arrives(packed, buffer, damage)
      BY <1>1, <2>3 DEF TransitInv, FrameOnItsWay
    <3>2. Len(buffer) >= 36
      <4>1. buffer \in Seq(Byte)
        BY ONLY <3>1, BufferType
      <4> QED BY ONLY <2>3, <4>1, FrameLengths
    <3>3. /\ VerifyChecksum16(buffer) <=> damage.kind # "byte"
          /\ VerifyChecksum16(buffer) => FrameSays(DecodeEmergencyStop(buffer), origin.frame)
      BY ONLY <3>1, <3>2, FrameHeard
    <3>4. heard'.verified = VerifyChecksum16(buffer) /\ heard'.frame = DecodeEmergencyStop(buffer)
      BY ONLY <1>2, <2>3, Zenon
    <3>5. origin'.frame = origin.frame /\ damage'.kind = damage.kind
      BY ONLY <1>1
    <3> QED BY ONLY <3>3, <3>4, <3>5, Zenon DEF FramesIntact
  <2> QED BY ONLY <1>1, <2>1, <2>2, <2>3
<1> QED BY ONLY <1>1, <1>3, <1>4 DEF TransitInv

\* No step breaks it.
LEMMA TransitStep == TransitInv /\ [Next]_vars => TransitInv'
<1> SUFFICES ASSUME TransitInv, [Next]_vars PROVE TransitInv'
  OBVIOUS
<1>1. ASSUME NEW seqCount \in SeqCounts, NEW timestamp \in Timestamps, NEW n \in 1..MaxSamples,
             NEW samples \in [1..n -> Samples], SendTelemetry(seqCount, timestamp, samples)
      PROVE  TransitInv'
  BY ONLY <1>1, TelemetrySent
<1>2. ASSUME NEW frame \in Emergencies, NEW len \in BufferLens, SendEmergency(frame, len)
      PROVE  TransitInv'
  <2>1. FitFrame(frame) /\ len \in Nat
    BY SamplesAre
  <2>2. SendFrame("emergency", frame, EncodeEmergencyStop(frame, Zeros(len)), len)
    BY <1>2 DEF SendEmergency
  <2> QED BY ONLY <2>1, <2>2, EmergencySent
<1>3. ASSUME NEW frame \in Emergencies, NEW len \in BufferLens, SendEmergencyFast(frame, len)
      PROVE  TransitInv'
  <2> DEFINE fast == [frame EXCEPT !.commandID = frame.timestamp]
  <2>1. FitFrame(frame) /\ len \in Nat
    BY SamplesAre
  <2>2. FitFrame(fast)
    BY ONLY <2>1 DEF FitFrame, EmergencyFrames
  <2>3. SendFrame("emergency", fast, EncodeEmergencyStop(fast, Zeros(len)), len)
    BY <1>3 DEF SendEmergencyFast, EncodeEmergencyStopFast
  <2> HIDE DEF fast
  <2> QED BY ONLY <2>1, <2>2, <2>3, EmergencySent
<1>4. ASSUME NEW frame \in Commands, NEW seqCount \in SeqCounts, NEW len \in BufferLens,
             SendCommand(frame, seqCount % 2^14, len)
      PROVE  TransitInv'
  <2>1. len \in Nat
    BY SamplesAre
  <2> QED BY ONLY <1>4, <2>1, CommandSent
<1>5. CASE \/ \E i \in DOMAIN buffer, b \in WrongBytes : ChangeByte(i, b)
           \/ \E n \in DOMAIN buffer : Truncate(n)
           \/ \E n \in 1..3 : Pad(n)
  BY ONLY <1>5, TransitInv, Damaged
<1>6. CASE ReceiveTelemetry
  BY ONLY <1>6, TransitInv, TelemetryReceived
<1>7. CASE ReceiveFrame
  BY ONLY <1>7, TransitInv, FrameReceived
<1>8. CASE UNCHANGED vars
  BY <1>8 DEF vars, TransitInv, PacketOnItsWay, FrameOnItsWay, PacketsJudged, WholePacketsAccepted,
              CorruptionCaught, CrashesExplained, FramesIntact, Received
<1> QED BY <1>1, <1>2, <1>3, <1>4, <1>5, <1>6, <1>7, <1>8 DEF Next

\* Whatever is on its way stays what was sent, up to the one damage the model
\* does to it, and is judged as the properties say when it arrives.
THEOREM TransitKept == Spec => []TransitInv
<1>1. Init => TransitInv
  BY DEF Init, TransitInv, PacketsJudged, WholePacketsAccepted, CorruptionCaught, CrashesExplained,
         FramesIntact, Received
<1> QED BY <1>1, TransitStep, PTL DEF Spec

\* Decode accepts every packet that arrives whole with the source's count, time
\* and number of samples, and lets no sample of a packet with a changed byte
\* through, whatever the samples, the count, the time, the byte and its value.
THEOREM PacketsStayJudged == Spec => []PacketsJudged
<1>1. TransitInv => PacketsJudged
  BY DEF TransitInv
<1> QED BY <1>1, TransitKept, PTL

\* Nothing but a length field that ends in the headers and a buffer between the
\* two lengths takes the program down.
THEOREM CrashesStayExplained == Spec => []CrashesExplained
<1>1. TransitInv => CrashesExplained
  BY DEF TransitInv
<1> QED BY <1>1, TransitKept, PTL

\* An emergency frame verifies exactly if no byte of it changed, and then says
\* what the valve lock put in, for every frame whose duty and health fit.
THEOREM FramesStayIntact == Spec => []FramesIntact
<1>1. TransitInv => FramesIntact
  BY DEF TransitInv
<1> QED BY <1>1, TransitKept, PTL
===============================================================================

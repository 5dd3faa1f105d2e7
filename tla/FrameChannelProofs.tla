------------------------- MODULE FrameChannelProofs -------------------------
(***************************************************************************)
(* The interfaces to a serial module are channels of frames: for all       *)
(* frames that are made as the protocols say, every checksum and every     *)
(* number of frames and failures.  The argument follows each byte on the   *)
(* line back to the frame it is from.                                      *)
(***************************************************************************)
EXTENDS SerialInterfaceProofs

USE DEF Bytes

-----------------------------------------------------------------------------
(* The parser, byte by byte.                                               *)

HeaderSize == IF family = "enocean" THEN 6 ELSE 2

\* What packetSize is after the first n bytes of a frame.
SizeKnown(n, frame) == IF n >= HeaderSize THEN Len(frame) ELSE 0

Begins(s, frame) ==
  /\ Len(s) < Len(frame)
  /\ \A i \in 1 .. Len(s) : s[i] = frame[i]

\* One more byte of a frame was read.
Continues(frame) ==
  /\ data' = Append(data, frame[Len(data) + 1])
  /\ packetSize' = SizeKnown(Len(data) + 1, frame)
  /\ listener' = "loop" /\ calling' = calling

\* The frame is complete.
Completes(frame) ==
  /\ data' = frame
  /\ packetSize' = 0
  /\ listener' = "invoke" /\ calling' = "packet"

\* Appending the next byte of a frame: the first bytes of it, or all of it.
LEMMA PrefixGrows ==
  ASSUME NEW s \in Bytes, NEW frame \in Bytes, Begins(s, frame)
  PROVE  LET t == Append(s, frame[Len(s) + 1]) IN
           /\ t \in Bytes /\ Len(t) = Len(s) + 1
           /\ \A i \in 1 .. Len(t) : t[i] = frame[i]
           /\ Len(t) = Len(frame) => t = frame
           /\ \A n \in 1 .. Len(frame) : Len(t) = n => t = SubSeq(frame, 1, n)
<1> DEFINE n == Len(s)
           t == Append(s, frame[n + 1])
<1>1. n \in Nat /\ Len(frame) \in Nat /\ n < Len(frame)
  BY LenProperties DEF Begins
<1>2. n + 1 \in 1 .. Len(frame)
  BY <1>1
<1>3. frame[n + 1] \in 0 .. 255
  BY <1>2, ElementOfSeq
<1>4. /\ t \in Bytes /\ Len(t) = n + 1
      /\ \A i \in 1 .. n : t[i] = s[i]
      /\ t[n + 1] = frame[n + 1]
  BY <1>3, AppendProperties
<1> HIDE DEF t
<1>5. \A i \in 1 .. Len(t) : t[i] = frame[i]
  BY <1>1, <1>4 DEF Begins
<1>6. Len(t) = Len(frame) => t = frame
  BY <1>4, <1>5, SeqEqual
<1>7. ASSUME NEW m \in 1 .. Len(frame), Len(t) = m
      PROVE  t = SubSeq(frame, 1, m)
  <2>0. \A i \in 1 .. m : i \in 1 .. Len(frame)
    BY <1>1
  <2>1. \A i \in 1 .. m : frame[i] \in 0 .. 255
    BY <2>0, ElementOfSeq
  <2>2. m \in Int /\ 1 \in Int /\ 1 <= m
    BY <1>1
  <2>3. /\ SubSeq(frame, 1, m) \in Bytes
        /\ Len(SubSeq(frame, 1, m)) = m
        /\ \A i \in 1 .. m : SubSeq(frame, 1, m)[i] = frame[i]
    BY <2>1, <2>2, SubSeqProperties
  <2> QED
    BY <1>4, <1>5, <1>7, <2>3, SeqEqual
<1> QED
  BY <1>4, <1>5, <1>6, <1>7 DEF t

\* Z-Wave and Zigbee.
LEMMA NextByteFollows ==
  ASSUME NEW frame \in Bytes, IsFrame(family, frame), family # "enocean",
         data \in Bytes, Begins(data, frame), packetSize = SizeKnown(Len(data), frame),
         NextByte(frame[Len(data) + 1], Append(data, frame[Len(data) + 1]))
  PROVE  IF Len(data) + 1 < Len(frame) THEN Continues(frame) ELSE Completes(frame)
<1> DEFINE n == Len(data)
           byte == frame[n + 1]
           packet == Append(data, byte)
<1>1. n \in Nat /\ Len(frame) \in Nat /\ n < Len(frame)
  BY LenProperties DEF Begins
<1>2. /\ Len(packet) = n + 1
      /\ \A i \in 1 .. n + 1 : packet[i] = frame[i]
      /\ n + 1 = Len(frame) => packet = frame
  BY PrefixGrows
<1>3. data = <<>> <=> n = 0
  BY EmptySeq
<1>4. NextByte(byte, packet)
  OBVIOUS
<1>5. packetSize = IF n >= 2 THEN Len(frame) ELSE 0
  BY DEF SizeKnown, HeaderSize
<1> HIDE DEF n, byte, packet
<1>6. CASE frame \in {<<ACK>>, <<NACK>>, <<CAN>>} /\ family = "zwave"
  <2>1. Len(frame) = 1 /\ frame[1] \in {ACK, NACK, CAN}
    BY <1>6
  <2>2. n = 0 /\ packetSize = 0
    BY <1>1, <1>5, <2>1
  <2>3. byte = frame[1] /\ frame = <<byte>>
    BY <1>6, <2>2 DEF byte, n
  <2>4. byte # SOF
    BY <1>6, <2>1, <2>3 DEF ACK, NACK, CAN, SOF, StartByte
  <2>5. data' = <<byte>> /\ Call("packet") /\ packetSize' = 0
    BY <1>3, <1>4, <1>6, <2>1, <2>2, <2>3, <2>4 DEF NextByte
  <2> QED
    BY <2>1, <2>2, <2>3, <2>5 DEF Completes, Call, n
<1>7. CASE ~(frame \in {<<ACK>>, <<NACK>>, <<CAN>>} /\ family = "zwave")
  <2> DEFINE extra == IF family = "zwave" THEN 2 ELSE 5
             sized == packetSize = 0 /\ Len(packet) = 2
             size == IF sized THEN SizeOf(packet) ELSE packetSize
  <2>1. /\ Len(frame) > 2 /\ Len(frame) = frame[2] + extra
        /\ frame[1] = SOF
        /\ frame[Len(frame)] = GetCrc8(family, frame)
    BY <1>7 DEF IsFrame, SOF
  <2>2. data # <<>> \/ byte = SOF
    BY <1>1, <1>3, <2>1 DEF byte
  <2>3. sized <=> n = 1
    BY <1>1, <1>2, <1>5, <2>1
  <2>4. SizeOf(packet) = Len(frame) \/ n # 1
    BY <1>1, <1>2, <2>1 DEF SizeOf
  <2>5. size = IF n >= 1 THEN Len(frame) ELSE 0
    BY <1>1, <1>5, <2>3, <2>4
  <2>6. ~(sized /\ family = "zwave" /\ byte = 0)
    BY <1>1, <2>1, <2>3 DEF byte
  <2>7. size > 0 /\ Len(packet) = size <=> n + 1 = Len(frame)
    BY <1>1, <1>2, <2>1, <2>5
  <2> HIDE DEF extra
  <2>8. CASE n + 1 = Len(frame)
    <3>1. packet = frame /\ byte = frame[Len(frame)]
      BY <1>2, <2>8 DEF byte
    <3>2. /\ packetSize' = 0
          /\ IF GetCrc8(family, packet) = byte THEN data' = packet /\ Call("packet")
                                               ELSE Reject
      BY <1>4, <2>2, <2>6, <2>7, <2>8 DEF NextByte
    <3> QED
      BY <1>1, <2>1, <2>8, <3>1, <3>2 DEF Completes, Call, n
  <2>9. CASE n + 1 # Len(frame)
    <3>1. data' = packet /\ GoOn /\ packetSize' = size
      BY <1>4, <2>2, <2>6, <2>7, <2>9 DEF NextByte
    <3>2. size = SizeKnown(n + 1, frame)
      BY <1>1, <2>5 DEF SizeKnown, HeaderSize
    <3> QED
      BY <1>1, <2>9, <3>1, <3>2 DEF Continues, GoOn, n, packet, byte
  <2> QED
    BY <2>8, <2>9
<1> QED
  BY <1>6, <1>7

\* EnOcean, whose header has a checksum of its own.
LEMMA EnOceanNextByteFollows ==
  ASSUME NEW frame \in Bytes, IsFrame(family, frame), family = "enocean",
         data \in Bytes, Begins(data, frame), packetSize = SizeKnown(Len(data), frame),
         EnOceanNextByte(frame[Len(data) + 1], Append(data, frame[Len(data) + 1]))
  PROVE  IF Len(data) + 1 < Len(frame) THEN Continues(frame) ELSE Completes(frame)
<1> DEFINE n == Len(data)
           byte == frame[n + 1]
           packet == Append(data, byte)
           header == packetSize = 0 /\ Len(packet) = 6
           size == IF header THEN EnOceanSizeOf(packet) + 7 ELSE packetSize
<1>1. n \in Nat /\ Len(frame) \in Nat /\ n < Len(frame)
  BY LenProperties DEF Begins
<1>2. /\ packet \in Bytes /\ Len(packet) = n + 1
      /\ \A i \in 1 .. n + 1 : packet[i] = frame[i]
      /\ n + 1 = Len(frame) => packet = frame
      /\ \A m \in 1 .. Len(frame) : n + 1 = m => packet = SubSeq(frame, 1, m)
  BY PrefixGrows
<1>3. data = <<>> <=> n = 0
  BY EmptySeq
<1>4. EnOceanNextByte(byte, packet)
  OBVIOUS
<1>5. packetSize = IF n >= 6 THEN Len(frame) ELSE 0
  BY DEF SizeKnown, HeaderSize
<1> HIDE DEF n, byte, packet
<1>6. /\ Len(frame) > 7 /\ Len(frame) = EnOceanSizeOf(frame) + 7
      /\ frame[1] = SOF
      /\ frame[6] = GetCrc8(family, SubSeq(frame, 1, 6))
      /\ frame[Len(frame)] = GetCrc8(family, SubSeq(frame, 6, Len(frame)))
  BY DEF IsFrame, SOF, EnOceanSizeOf
<1>7. data # <<>> \/ byte = SOF
  BY <1>1, <1>3, <1>6 DEF byte
<1>8. header <=> n = 5
  BY <1>1, <1>2, <1>5, <1>6
<1>9. n = 5 => /\ EnOceanSizeOf(packet) = EnOceanSizeOf(frame)
               /\ HeaderIsValid(packet)
  <2> SUFFICES ASSUME n = 5
               PROVE  /\ EnOceanSizeOf(packet) = EnOceanSizeOf(frame)
                      /\ HeaderIsValid(packet)
    OBVIOUS
  <2>1. packet[2] = frame[2] /\ packet[3] = frame[3] /\ packet[4] = frame[4]
          /\ packet[6] = frame[6]
    BY <1>2
  <2>2. 6 \in 1 .. Len(frame)
    BY <1>6, <1>1
  <2>3. packet = SubSeq(frame, 1, 6)
    BY <1>2, <2>2
  <2> QED
    BY <1>6, <2>1, <2>3 DEF EnOceanSizeOf, HeaderIsValid
<1>10. EnOceanSizeOf(frame) \in Int /\ EnOceanSizeOf(frame) > 0
  <2>1. 2 \in 1 .. Len(frame) /\ 3 \in 1 .. Len(frame) /\ 4 \in 1 .. Len(frame)
    BY <1>1, <1>6
  <2> DEFINE high == frame[2]
             low == frame[3]
             optional == frame[4]
  <2>2. high \in Int /\ low \in Int /\ optional \in Int
    <3>1. high \in 0 .. 255 /\ low \in 0 .. 255 /\ optional \in 0 .. 255
      BY <2>1, ElementOfSeq
    <3> HIDE DEF high, low, optional
    <3> QED
      BY <3>1
  <2>3. EnOceanSizeOf(frame) \in Int
    <3>1. EnOceanSizeOf(frame) = high * 256 + low + optional
      BY DEF EnOceanSizeOf
    <3> HIDE DEF high, low, optional
    <3> QED
      BY <2>2, <3>1
  <2> QED
    BY <1>1, <1>6, <2>3
<1>11. size = IF n >= 5 THEN Len(frame) ELSE 0
  BY <1>1, <1>5, <1>6, <1>8, <1>9
<1>12. ~(header /\ (~HeaderIsValid(packet) \/ EnOceanSizeOf(packet) = 0))
  BY <1>8, <1>9, <1>10
<1>13. size > 0 /\ Len(packet) = size <=> n + 1 = Len(frame)
  BY <1>1, <1>2, <1>6, <1>11
<1> HIDE DEF size, header
<1>14. CASE n + 1 = Len(frame)
  <2>1. packet = frame
    BY <1>2, <1>14
  <2>2. Last(packet) = frame[Len(frame)]
    BY <2>1 DEF Last
  <2>3. BodyIsValid(packet)
    BY <1>6, <2>1, <2>2 DEF BodyIsValid
  <2>4. packetSize' = 0 /\ data' = packet /\ Call("packet")
    BY <1>4, <1>7, <1>12, <1>13, <1>14, <2>3 DEF EnOceanNextByte, size, header
  <2> QED
    BY <1>1, <1>14, <2>1, <2>4 DEF Completes, Call, n
<1>15. CASE n + 1 # Len(frame)
  <2>1. data' = packet /\ GoOn /\ packetSize' = size
    BY <1>4, <1>7, <1>12, <1>13, <1>15 DEF EnOceanNextByte, size, header
  <2>2. size = SizeKnown(n + 1, frame)
    BY <1>1, <1>11 DEF SizeKnown, HeaderSize
  <2> QED
    BY <1>1, <1>15, <2>1, <2>2 DEF Continues, GoOn, n, packet, byte
<1> QED
  BY <1>14, <1>15

-----------------------------------------------------------------------------
(* The invariant: every byte on the line belongs to a frame.               *)

SentAreFrames == \A i \in 1 .. Len(sent) : sent[i] \in Frames[family]

Begun == calling = "nothing" /\ data # <<>>

\* The byte to be read next is byte number Place of frame number Turn.
Turn == IF calling = "packet" THEN got + 2 ELSE got + 1
Place == IF Begun THEN Len(data) + 1 ELSE 1

\* unread[k] is byte number at[k] of frame number nr[k]; what follows the last one
\* would be the first byte of the next frame.
Traced(nr, at) ==
  /\ nr[1] = Turn /\ at[1] = Place
  /\ nr[Len(unread) + 1] = Len(sent) + 1 /\ at[Len(unread) + 1] = 1
  /\ \A k \in 1 .. Len(unread) :
       /\ nr[k] \in 1 .. Len(sent)
       /\ at[k] \in 1 .. Len(sent[nr[k]])
       /\ unread[k] = sent[nr[k]][at[k]]
       /\ nr[k + 1] = IF at[k] < Len(sent[nr[k]]) THEN nr[k] ELSE nr[k] + 1
       /\ at[k + 1] = IF at[k] < Len(sent[nr[k]]) THEN at[k] + 1 ELSE 1

Positions == [1 .. Len(unread) + 1 -> Nat]

Traceable == \E nr, at \in Positions : Traced(nr, at)

\* What was read is the beginning of the frame whose turn it is.
DataIsOfFrame ==
  /\ Begun => got < Len(sent) /\ Begins(data, sent[got + 1])
  /\ calling = "packet" => got < Len(sent) /\ data = sent[got + 1]
  /\ packetSize = IF Begun THEN SizeKnown(Len(data), sent[got + 1]) ELSE 0

CallsAreInvokes ==
  /\ calling = "nothing" <=> listener # "invoke"
  /\ calling = "packet" => data # <<>>

InSyncMeans ==
  inSync =>
    /\ listener # "closed" /\ calling # "reconnect"
    /\ line = "failing" => data = <<>> /\ unread = <<>>
    /\ DataIsOfFrame
    /\ Traceable

Framing == SentAreFrames /\ CallsAreInvokes /\ InSyncMeans

USE DEF Framing, CallsAreInvokes, threadVars, flagVars, requestVars, parserVars, lineVars,
        ghostVars, vars

LEMMA InitFraming == Init => Framing
<1> SUFFICES ASSUME Init
             PROVE  Framing
  OBVIOUS
<1>1. SentAreFrames /\ CallsAreInvokes
  BY DEF Init, SentAreFrames
<1>2. DataIsOfFrame
  BY DEF Init, DataIsOfFrame, Begun
<1>3. Traceable
  <2>1. [k \in 1 .. Len(unread) + 1 |-> 1] \in Positions
    BY DEF Positions
  <2>2. Traced([k \in 1 .. Len(unread) + 1 |-> 1], [k \in 1 .. Len(unread) + 1 |-> 1])
    BY DEF Init, Traced, Turn, Place, Begun
  <2> QED
    BY <2>1, <2>2 DEF Traceable
<1> QED
  BY <1>1, <1>2, <1>3 DEF Init, InSyncMeans

\* Steps that do not touch the line, the parser or the client.
LEMMA UnmovedKeepsFraming ==
  ASSUME Framing,
         UNCHANGED <<family, data, packetSize, unread, sent, got, inSync, calling>>,
         line' = "failing" => line = "failing",
         listener' = "invoke" <=> listener = "invoke",
         listener' = "closed" => listener = "closed"
  PROVE  Framing'
<1>1. SentAreFrames'
  BY DEF SentAreFrames
<1>2. DataIsOfFrame => DataIsOfFrame'
  BY DEF DataIsOfFrame, Begun, Begins, SizeKnown, HeaderSize
<1>3. ASSUME Traceable
      PROVE  Traceable'
  <2>1. PICK nr \in Positions, at \in Positions : Traced(nr, at)
    BY <1>3 DEF Traceable
  <2>2. nr \in Positions' /\ at \in Positions'
    BY <2>1 DEF Positions
  <2>3. Traced(nr, at)'
    BY <2>1 DEF Traced, Turn, Place, Begun
  <2> QED
    BY <2>2, <2>3 DEF Traceable
<1> QED
  BY <1>1, <1>2, <1>3 DEF InSyncMeans

\* Steps that lose bytes.
LEMMA OutOfSyncKeepsFraming ==
  ASSUME OutOfSync, CallsAreInvokes'
  PROVE  Framing'
<1>1. SentAreFrames'
  BY DEF OutOfSync, NoneSent, SentAreFrames
<1> QED
  BY <1>1 DEF OutOfSync, InSyncMeans

\* A frame that was sent is a sequence of bytes, one at least.
LEMMA FramesAreBytes ==
  ASSUME TypeOK, NEW frame \in Frames[family]
  PROVE  frame \in Bytes /\ IsFrame(family, frame) /\ Len(frame) \in Nat \ {0}
<1>1. family \in DOMAIN Frames
  BY DEF TypeOK, ThreadTypes
<1>2. frame \in Bytes /\ IsFrame(family, frame)
  BY <1>1, SerialAssumption
<1>3. Len(frame) \in Nat
  BY <1>2, LenProperties
<1>4. CASE frame \in {<<ACK>>, <<NACK>>, <<CAN>>}
  <2>1. Len(frame) = 1
    BY <1>4
  <2> QED
    BY <1>2, <2>1
<1>5. CASE frame \notin {<<ACK>>, <<NACK>>, <<CAN>>}
  <2>1. Len(frame) > 2
    BY <1>2, <1>3, <1>5 DEF IsFrame
  <2> QED
    BY <1>2, <1>3, <2>1
<1> QED
  BY <1>4, <1>5

\* A whole frame is put on the line.
LEMMA FrameIsTraceable ==
  ASSUME TypeOK, Traceable, NEW frame \in Frames[family],
         unread' = unread \o frame, sent' = Append(sent, frame),
         UNCHANGED <<data, calling, got>>
  PROVE  Traceable'
<1> DEFINE l == Len(unread)
           n == Len(frame)
           number == Len(sent)
<1>1. PICK nr \in Positions, at \in Positions : Traced(nr, at)
  BY DEF Traceable
<1>0. PICK nr1, at1 :
        /\ nr1 = [k \in 1 .. l + n + 1 |-> IF k <= l THEN nr[k]
                                           ELSE IF k <= l + n THEN number + 1 ELSE number + 2]
        /\ at1 = [k \in 1 .. l + n + 1 |-> IF k <= l THEN at[k]
                                           ELSE IF k <= l + n THEN k - l ELSE 1]
  OBVIOUS
<1>2. unread \in Bytes /\ sent \in Seq(Bytes) /\ frame \in Bytes /\ n \in Nat \ {0}
  BY FramesAreBytes DEF TypeOK, LineTypes
<1>3. l \in Nat /\ number \in Nat
  BY <1>2, LenProperties
<1>4. /\ Len(unread') = l + n
      /\ \A k \in 1 .. l + n : unread'[k] = IF k <= l THEN unread[k] ELSE frame[k - l]
  BY <1>2, ConcatProperties
<1>5. /\ Len(sent') = number + 1 /\ sent'[number + 1] = frame
      /\ \A i \in 1 .. number : sent'[i] = sent[i]
  BY <1>2, AppendProperties
<1>6. /\ nr[1] = Turn /\ at[1] = Place
      /\ nr[l + 1] = number + 1 /\ at[l + 1] = 1
      /\ \A k \in 1 .. l :
           /\ nr[k] \in 1 .. number
           /\ at[k] \in 1 .. Len(sent[nr[k]])
           /\ unread[k] = sent[nr[k]][at[k]]
           /\ nr[k + 1] = IF at[k] < Len(sent[nr[k]]) THEN nr[k] ELSE nr[k] + 1
           /\ at[k + 1] = IF at[k] < Len(sent[nr[k]]) THEN at[k] + 1 ELSE 1
  BY <1>1 DEF Traced
<1>7. nr \in [1 .. l + 1 -> Nat] /\ at \in [1 .. l + 1 -> Nat]
  BY DEF Positions
<1> HIDE DEF l, n, number
<1>8. /\ nr1 \in [1 .. l + n + 1 -> Nat] /\ at1 \in [1 .. l + n + 1 -> Nat]
      /\ nr1[l + n + 1] = number + 2 /\ at1[l + n + 1] = 1
  BY <1>0, <1>2, <1>3, <1>7
<1>9. nr1[1] = nr[1] /\ at1[1] = at[1]
  BY <1>0, <1>2, <1>3, <1>6
<1>10. ASSUME NEW k \in 1 .. l
       PROVE  nr1[k] = nr[k] /\ at1[k] = at[k] /\ nr1[k + 1] = nr[k + 1] /\ at1[k + 1] = at[k + 1]
  BY <1>0, <1>2, <1>3, <1>6
<1>11. ASSUME NEW k \in l + 1 .. l + n
       PROVE  /\ nr1[k] = number + 1 /\ at1[k] = k - l
              /\ nr1[k + 1] = (IF k < l + n THEN number + 1 ELSE number + 2)
              /\ at1[k + 1] = (IF k < l + n THEN k + 1 - l ELSE 1)
  <2>1. k \in 1 .. l + n + 1 /\ k + 1 \in 1 .. l + n + 1 /\ k > l /\ k <= l + n
    BY <1>2, <1>3, <1>11
  <2>2. nr1[k] = number + 1 /\ at1[k] = k - l
    BY <1>0, <1>3, <2>1
  <2>3. CASE k < l + n
    <3>1. k + 1 <= l + n /\ ~(k + 1 <= l)
      BY <1>2, <1>3, <2>1, <2>3
    <3>2. nr1[k + 1] = number + 1 /\ at1[k + 1] = k + 1 - l
      <4>1. nr1[k + 1] = number + 1
        BY <1>0, <2>1, <3>1
      <4>2. at1[k + 1] = k + 1 - l
        BY <1>0, <1>3, <2>1, <3>1
      <4> QED
        BY <4>1, <4>2
    <3> QED
      BY <2>2, <2>3, <3>2
  <2>4. CASE ~(k < l + n)
    <3>1. ~(k + 1 <= l + n) /\ ~(k + 1 <= l)
      BY <1>2, <1>3, <2>1, <2>4
    <3>2. nr1[k + 1] = number + 2 /\ at1[k + 1] = 1
      BY <1>0, <2>1, <3>1
    <3> QED
      BY <2>2, <2>4, <3>2
  <2> QED
    BY <2>3, <2>4
<1>12. ASSUME NEW k \in 1 .. l + n
       PROVE  /\ nr1[k] \in 1 .. Len(sent')
              /\ at1[k] \in 1 .. Len(sent'[nr1[k]])
              /\ unread'[k] = sent'[nr1[k]][at1[k]]
              /\ nr1[k + 1] = IF at1[k] < Len(sent'[nr1[k]]) THEN nr1[k] ELSE nr1[k] + 1
              /\ at1[k + 1] = IF at1[k] < Len(sent'[nr1[k]]) THEN at1[k] + 1 ELSE 1
  <2>1. CASE k \in 1 .. l
    <3>1. nr[k] \in 1 .. number /\ sent'[nr[k]] = sent[nr[k]]
      BY <1>5, <1>6, <2>1
    <3>2. unread'[k] = unread[k]
      BY <1>2, <1>3, <1>4, <2>1
    <3>3. nr1[k] \in 1 .. Len(sent')
      BY <1>3, <1>5, <1>10, <2>1, <3>1
    <3> QED
      BY <1>6, <1>10, <2>1, <3>1, <3>2, <3>3
  <2>2. CASE k \in l + 1 .. l + n
    <3>1. sent'[nr1[k]] = frame /\ Len(sent'[nr1[k]]) = n
      BY <1>5, <1>11, <2>2 DEF n
    <3>2. nr1[k] \in 1 .. Len(sent') /\ at1[k] \in 1 .. n
      BY <1>2, <1>3, <1>5, <1>11, <2>2
    <3>3. unread'[k] = frame[k - l]
      BY <1>2, <1>3, <1>4, <2>2
    <3>4. k < l + n <=> at1[k] < n
      BY <1>2, <1>3, <1>11, <2>2
    <3>5. nr1[k] + 1 = number + 2 /\ at1[k] + 1 = k + 1 - l
      BY <1>2, <1>3, <1>11, <2>2
    <3> QED
      BY <1>11, <2>2, <3>1, <3>2, <3>3, <3>4, <3>5
  <2>3. k \in 1 .. l \/ k \in l + 1 .. l + n
    BY <1>2, <1>3
  <2> QED
    BY <2>1, <2>2, <2>3
<1>13. nr1 \in Positions' /\ at1 \in Positions'
  BY <1>4, <1>8 DEF Positions
<1>14. Turn' = Turn /\ Place' = Place
  BY DEF Turn, Place, Begun
<1>15. Traced(nr1, at1)'
  <2>1. nr1[1] = Turn' /\ at1[1] = Place'
    BY <1>6, <1>9, <1>14
  <2>2. nr1[Len(unread') + 1] = Len(sent') + 1 /\ at1[Len(unread') + 1] = 1
    BY <1>3, <1>4, <1>5, <1>8
  <2> QED
    BY <1>4, <1>12, <2>1, <2>2 DEF Traced
<1> QED
  BY <1>13, <1>15 DEF Traceable

\* The byte at the head of the line is the next one of the frame whose turn it is.
LEMMA NextByteIsOfFrame ==
  ASSUME TypeOK, Framing, inSync, calling = "nothing", unread # <<>>
  PROVE  /\ got + 1 \in 1 .. Len(sent)
         /\ sent[got + 1] \in Frames[family]
         /\ Begins(data, sent[got + 1])
         /\ packetSize = SizeKnown(Len(data), sent[got + 1])
         /\ Head(unread) = sent[got + 1][Len(data) + 1]
<1>1. PICK nr \in Positions, at \in Positions : Traced(nr, at)
  BY DEF InSyncMeans, Traceable
<1>2. unread \in Bytes /\ data \in Bytes /\ got \in Nat /\ sent \in Seq(Bytes)
  BY DEF TypeOK, LineTypes, ParserTypes
<1>3. 1 \in 1 .. Len(unread)
  BY <1>2, EmptySeq
<1>4. Turn = got + 1 /\ Place = Len(data) + 1
  <2>1. data = <<>> => Len(data) + 1 = 1
    BY EmptySeq
  <2> QED
    BY <2>1 DEF Turn, Place, Begun
<1>5. /\ got + 1 \in 1 .. Len(sent)
      /\ Len(data) + 1 \in 1 .. Len(sent[got + 1])
      /\ unread[1] = sent[got + 1][Len(data) + 1]
  BY <1>1, <1>3, <1>4 DEF Traced
<1>6. sent[got + 1] \in Frames[family]
  BY <1>5 DEF SentAreFrames
<1>7. Len(data) \in Nat /\ Len(sent[got + 1]) \in Nat
  <2>1. sent[got + 1] \in Bytes
    BY <1>6, FramesAreBytes
  <2> QED
    BY <1>2, <2>1, LenProperties
<1>8. Begins(data, sent[got + 1])
  <2>1. CASE data = <<>>
    BY <1>5, <1>7, <2>1, EmptySeq DEF Begins
  <2>2. CASE data # <<>>
    BY <2>2 DEF InSyncMeans, DataIsOfFrame, Begun
  <2> QED
    BY <2>1, <2>2
<1>9. packetSize = SizeKnown(Len(data), sent[got + 1])
  <2>1. CASE data = <<>>
    <3>1. Len(data) = 0 /\ packetSize = 0
      BY <2>1, EmptySeq DEF InSyncMeans, DataIsOfFrame, Begun
    <3> QED
      BY <3>1 DEF SizeKnown, HeaderSize
  <2>2. CASE data # <<>>
    BY <2>2 DEF InSyncMeans, DataIsOfFrame, Begun
  <2> QED
    BY <2>1, <2>2
<1> QED
  BY <1>5, <1>6, <1>8, <1>9

\* Then the parser goes on, or hands the frame over.
LEMMA ParserFollows ==
  ASSUME TypeOK, Framing, inSync, ReadByte
  PROVE  IF Len(data) + 1 < Len(sent[got + 1]) THEN Continues(sent[got + 1])
                                                ELSE Completes(sent[got + 1])
<1>1. calling = "nothing" /\ unread # <<>> /\ data \in Bytes
  BY DEF ReadByte, Reads, AtTop, TypeOK, ParserTypes
<1> DEFINE frame == sent[got + 1]
<1>2. /\ frame \in Frames[family]
      /\ Begins(data, frame)
      /\ packetSize = SizeKnown(Len(data), frame)
      /\ Head(unread) = frame[Len(data) + 1]
  BY <1>1, NextByteIsOfFrame
<1>3. frame \in Bytes /\ IsFrame(family, frame)
  BY <1>2, FramesAreBytes
<1>4. IF family = "enocean"
        THEN EnOceanNextByte(frame[Len(data) + 1], Append(data, frame[Len(data) + 1]))
        ELSE NextByte(frame[Len(data) + 1], Append(data, frame[Len(data) + 1]))
  BY <1>2 DEF ReadByte
<1> HIDE DEF frame
<1>5. IF Len(data) + 1 < Len(frame) THEN Continues(frame) ELSE Completes(frame)
  <2>1. CASE family = "enocean"
    <3>1. EnOceanNextByte(frame[Len(data) + 1], Append(data, frame[Len(data) + 1]))
      BY <1>4, <2>1
    <3> QED
      BY <1>1, <1>2, <1>3, <2>1, <3>1, EnOceanNextByteFollows
  <2>2. CASE family # "enocean"
    <3>1. NextByte(frame[Len(data) + 1], Append(data, frame[Len(data) + 1]))
      BY <1>4, <2>2
    <3> QED
      BY <1>1, <1>2, <1>3, <2>2, <3>1, NextByteFollows
  <2> QED
    BY <2>1, <2>2
<1> QED
  BY <1>5 DEF frame

\* With or without a lost byte, the client is called for a packet that is there.
LEMMA ReadByteCalls ==
  ASSUME TypeOK, CallsAreInvokes, ReadByte
  PROVE  CallsAreInvokes' /\ (calling' = "packet" => data' # <<>>)
<1> DEFINE byte == Head(unread)
           packet == Append(data, byte)
<1>1. packet # <<>>
  <2>1. unread \in Bytes /\ unread # <<>> /\ data \in Bytes
    BY DEF ReadByte, TypeOK, LineTypes, ParserTypes
  <2>2. byte \in 0 .. 255
    BY <2>1, HeadTailProperties
  <2> QED
    BY <2>1, <2>2, AppendProperties
<1>2. <<byte>> # <<>>
  OBVIOUS
<1>3. listener = "loop" /\ calling = "nothing"
  BY DEF ReadByte, Reads, AtTop
<1>4. IF family = "enocean" THEN EnOceanNextByte(byte, packet) ELSE NextByte(byte, packet)
  BY DEF ReadByte
<1> HIDE DEF byte, packet
<1>5. CASE family = "enocean"
  BY <1>1, <1>3, <1>4, <1>5 DEF EnOceanNextByte, Call, GoOn
<1>6. CASE family # "enocean"
  BY <1>1, <1>2, <1>3, <1>4, <1>6 DEF NextByte, Reject, Call, GoOn
<1> QED
  BY <1>5, <1>6

\* The byte that is read is traced no more; the others are as before.
LEMMA RestIsTraceable ==
  ASSUME TypeOK, Framing, inSync, calling = "nothing", unread # <<>>,
         unread' = Tail(unread), UNCHANGED <<sent, got>>,
         LET last == Len(data) + 1 = Len(sent[got + 1]) IN
           /\ Turn' = IF last THEN got + 2 ELSE got + 1
           /\ Place' = IF last THEN 1 ELSE Len(data) + 2
  PROVE  Traceable'
<1> DEFINE l == Len(unread)
<1>1. PICK nr \in Positions, at \in Positions : Traced(nr, at)
  BY DEF InSyncMeans, Traceable
<1>2. PICK nr1, at1 : /\ nr1 = [k \in 1 .. l |-> nr[k + 1]]
                      /\ at1 = [k \in 1 .. l |-> at[k + 1]]
  OBVIOUS
<1>3. unread \in Bytes /\ data \in Bytes /\ got \in Nat
  BY DEF TypeOK, LineTypes, ParserTypes
<1>4. l \in Nat \ {0} /\ Len(data) \in Nat /\ 1 \in 1 .. l
  BY <1>3, EmptySeq, LenProperties
<1>5. Len(unread') = l - 1 /\ \A k \in 1 .. l - 1 : unread'[k] = unread[k + 1]
  BY <1>3, HeadTailProperties
<1>6. nr \in [1 .. l + 1 -> Nat] /\ at \in [1 .. l + 1 -> Nat]
  BY DEF Positions
<1>7. nr[1] = got + 1 /\ at[1] = Len(data) + 1
  <2>1. data = <<>> => Len(data) + 1 = 1
    BY EmptySeq
  <2> QED
    BY <1>1, <2>1 DEF Traced, Turn, Place, Begun
<1>8. /\ nr[l + 1] = Len(sent) + 1 /\ at[l + 1] = 1
      /\ \A k \in 1 .. l :
           /\ nr[k] \in 1 .. Len(sent)
           /\ at[k] \in 1 .. Len(sent[nr[k]])
           /\ unread[k] = sent[nr[k]][at[k]]
           /\ nr[k + 1] = IF at[k] < Len(sent[nr[k]]) THEN nr[k] ELSE nr[k] + 1
           /\ at[k + 1] = IF at[k] < Len(sent[nr[k]]) THEN at[k] + 1 ELSE 1
  BY <1>1 DEF Traced
<1> HIDE DEF l
<1>9. nr1 \in [1 .. l -> Nat] /\ at1 \in [1 .. l -> Nat]
  <2>1. \A k \in 1 .. l : k + 1 \in 1 .. l + 1
    BY <1>4
  <2>2. \A k \in 1 .. l : nr[k + 1] \in Nat /\ at[k + 1] \in Nat
    BY <1>6, <2>1
  <2> QED
    BY <1>2, <2>2
<1>10. nr1 \in Positions' /\ at1 \in Positions'
  <2>1. l - 1 + 1 = l
    BY <1>4
  <2> QED
    BY <1>5, <1>9, <2>1 DEF Positions
<1>11. nr1[1] = Turn' /\ at1[1] = Place'
  <2>1. nr1[1] = nr[2] /\ at1[1] = at[2]
    BY <1>2, <1>4
  <2>2. /\ at[1] \in 1 .. Len(sent[got + 1])
        /\ nr[2] = IF at[1] < Len(sent[got + 1]) THEN nr[1] ELSE nr[1] + 1
        /\ at[2] = IF at[1] < Len(sent[got + 1]) THEN at[1] + 1 ELSE 1
    BY <1>4, <1>7, <1>8
  <2>3. Len(sent[got + 1]) \in Nat
    <3>1. sent[got + 1] \in Bytes
      BY NextByteIsOfFrame, FramesAreBytes
    <3> QED
      BY <3>1, LenProperties
  <2>4. CASE Len(data) + 1 = Len(sent[got + 1])
    BY <1>3, <1>7, <2>1, <2>2, <2>3, <2>4
  <2>5. CASE Len(data) + 1 # Len(sent[got + 1])
    <3>1. at[1] < Len(sent[got + 1])
      BY <1>4, <1>7, <2>2, <2>3, <2>5
    <3>2. at[1] + 1 = Len(data) + 2
      BY <1>4, <1>7
    <3> QED
      BY <1>7, <2>1, <2>2, <2>5, <3>1, <3>2
  <2> QED
    BY <2>4, <2>5
<1>12. nr1[l] = Len(sent) + 1 /\ at1[l] = 1
  BY <1>2, <1>4, <1>8
<1>13. ASSUME NEW k \in 1 .. l - 1
       PROVE  /\ nr1[k] \in 1 .. Len(sent)
              /\ at1[k] \in 1 .. Len(sent[nr1[k]])
              /\ unread'[k] = sent[nr1[k]][at1[k]]
              /\ nr1[k + 1] = IF at1[k] < Len(sent[nr1[k]]) THEN nr1[k] ELSE nr1[k] + 1
              /\ at1[k + 1] = IF at1[k] < Len(sent[nr1[k]]) THEN at1[k] + 1 ELSE 1
  <2>1. k \in 1 .. l /\ k + 1 \in 1 .. l
    BY <1>4
  <2>2. nr1[k] = nr[k + 1] /\ at1[k] = at[k + 1]
    BY <1>2, <2>1
  <2>3. nr1[k + 1] = nr[(k + 1) + 1] /\ at1[k + 1] = at[(k + 1) + 1]
    BY <1>2, <2>1
  <2>4. unread'[k] = unread[k + 1]
    BY <1>5
  <2> QED
    BY <1>8, <2>1, <2>2, <2>3, <2>4
<1>14. Traced(nr1, at1)'
  <2>1. Len(unread') + 1 = l
    BY <1>4, <1>5
  <2> QED
    BY <1>5, <1>11, <1>12, <1>13, <2>1 DEF Traced
<1> QED
  BY <1>10, <1>14 DEF Traceable

LEMMA ReadByteKeepsFraming ==
  ASSUME TypeOK, Framing, ReadByte
  PROVE  Framing'
<1>1. CallsAreInvokes'
  BY ReadByteCalls
<1>2. SentAreFrames' /\ inSync' = inSync
  BY DEF ReadByte, SentAreFrames
<1>3. ASSUME inSync
      PROVE  /\ listener' # "closed" /\ calling' # "reconnect"
             /\ line' # "failing"
             /\ DataIsOfFrame'
             /\ Traceable'
  <2> DEFINE frame == sent[got + 1]
  <2>1. /\ calling = "nothing" /\ unread # <<>> /\ unread' = Tail(unread)
        /\ line' = "ok" /\ sent' = sent /\ got' = got
    BY DEF ReadByte, Reads, AtTop
  <2>2. /\ got + 1 \in 1 .. Len(sent)
        /\ frame \in Frames[family]
        /\ Begins(data, frame)
        /\ packetSize = SizeKnown(Len(data), frame)
    BY <1>3, <2>1, NextByteIsOfFrame
  <2>3. got < Len(sent) /\ got \in Nat
    BY <2>2 DEF TypeOK, LineTypes
  <2>4. frame \in Bytes /\ Len(frame) \in Nat \ {0} /\ data \in Bytes /\ Len(data) \in Nat
    BY <2>2, FramesAreBytes, LenProperties DEF TypeOK, ParserTypes
  <2>5. LET t == Append(data, frame[Len(data) + 1]) IN
           /\ t \in Bytes /\ Len(t) = Len(data) + 1
           /\ \A i \in 1 .. Len(t) : t[i] = frame[i]
    BY <2>2, <2>4, PrefixGrows
  <2>6. IF Len(data) + 1 < Len(frame) THEN Continues(frame) ELSE Completes(frame)
    BY <1>3, ParserFollows
  <2>7. Len(data) < Len(frame)
    BY <2>2 DEF Begins
  <2> HIDE DEF frame
  <2>8. CASE Len(data) + 1 < Len(frame)
    <3>1. Continues(frame)
      BY <2>6, <2>8
    <3>2. Len(data') = Len(data) + 1 /\ data' # <<>>
      BY <2>4, <2>5, <3>1, EmptySeq DEF Continues
    <3>3. calling' = "nothing" /\ listener' = "loop"
      BY <2>1, <3>1 DEF Continues
    <3>4. Turn' = got + 1 /\ Place' = Len(data) + 2
      BY <2>1, <2>4, <3>2, <3>3 DEF Turn, Place, Begun
    <3>5. Begins(data', frame)
      BY <2>5, <2>8, <3>1 DEF Begins, Continues
    <3>6. packetSize' = SizeKnown(Len(data'), frame)
      BY <3>1, <3>2 DEF Continues
    <3>7. DataIsOfFrame'
      <4>1. Begun'
        BY <3>2, <3>3 DEF Begun
      <4>2. packetSize' = IF Len(data') >= HeaderSize' THEN Len(frame) ELSE 0
        BY <3>6 DEF SizeKnown, HeaderSize, ReadByte
      <4>3. Begins(data', sent'[got' + 1])
        BY <2>1, <3>5 DEF frame
      <4>4. packetSize' = IF Len(data') >= HeaderSize' THEN Len(sent'[got' + 1]) ELSE 0
        BY <2>1, <4>2 DEF frame
      <4> QED
        BY <2>1, <2>3, <3>3, <4>1, <4>3, <4>4 DEF DataIsOfFrame, SizeKnown, Begins
    <3>8. Traceable'
      <4>1. Len(data) + 1 # Len(sent[got + 1])
        BY <2>4, <2>8 DEF frame
      <4> QED
        BY <1>3, <2>1, <3>4, <4>1, RestIsTraceable
    <3> QED
      BY <2>1, <3>3, <3>7, <3>8
  <2>9. CASE ~(Len(data) + 1 < Len(frame))
    <3>1. Completes(frame)
      BY <2>6, <2>9
    <3>2. Turn' = got + 2 /\ Place' = 1
      BY <2>1, <3>1 DEF Turn, Place, Begun, Completes
    <3>3. DataIsOfFrame'
      BY <2>1, <2>3, <3>1 DEF DataIsOfFrame, Completes, Begun, frame
    <3>4. Traceable'
      <4>1. Len(data) + 1 = Len(sent[got + 1])
        BY <2>4, <2>7, <2>9 DEF frame
      <4> QED
        BY <1>3, <2>1, <3>2, <4>1, RestIsTraceable
    <3> QED
      BY <2>1, <3>1, <3>3, <3>4 DEF Completes
  <2> QED
    BY <2>8, <2>9
<1> QED
  BY <1>1, <1>2, <1>3 DEF InSyncMeans

LEMMA ModuleKeepsFraming ==
  ASSUME TypeOK, Framing, Module
  PROVE  Framing'
<1>1. CallsAreInvokes' /\ line' = "ok"
  BY DEF Module
<1>2. PICK frame \in Frames[family] :
        \/ /\ unread' = unread \o frame
           /\ sent' = IF inSync THEN Append(sent, frame) ELSE sent
           /\ got' = got /\ inSync' = inSync
        \/ OutOfSync
  BY DEF Module
<1>3. CASE OutOfSync
  BY <1>1, <1>3, OutOfSyncKeepsFraming
<1>4. CASE ~OutOfSync /\ ~inSync
  BY <1>1, <1>2, <1>4 DEF Module, SentAreFrames, InSyncMeans
<1>5. CASE ~OutOfSync /\ inSync
  <2>1. /\ unread' = unread \o frame /\ sent' = Append(sent, frame)
        /\ UNCHANGED <<family, listener, data, packetSize, calling, got>>
    BY <1>2, <1>5 DEF Module
  <2>2. frame \in Bytes /\ sent \in Seq(Bytes) /\ got \in Nat /\ Len(sent) \in Nat
    BY FramesAreBytes, LenProperties DEF TypeOK, LineTypes
  <2>3. /\ Len(sent') = Len(sent) + 1 /\ sent'[Len(sent) + 1] = frame
        /\ \A i \in 1 .. Len(sent) : sent'[i] = sent[i]
    BY <2>1, <2>2, AppendProperties
  <2>4. SentAreFrames'
    <3>1. ASSUME NEW i \in 1 .. Len(sent')
          PROVE  sent'[i] \in Frames[family]
      <4>1. i \in 1 .. Len(sent) \/ i = Len(sent) + 1
        BY <2>2, <2>3
      <4> QED
        BY <2>3, <4>1 DEF SentAreFrames
    <3> QED
      BY <2>1, <3>1 DEF SentAreFrames
  <2>5. DataIsOfFrame'
    <3>1. got < Len(sent) => got' < Len(sent') /\ sent'[got' + 1] = sent[got + 1]
      <4>1. got < Len(sent) => got + 1 \in 1 .. Len(sent)
        BY <2>2
      <4> QED
        BY <2>1, <2>2, <2>3, <4>1
    <3>2. DataIsOfFrame
      BY <1>5 DEF InSyncMeans
    <3> QED
      BY <2>1, <3>1, <3>2 DEF DataIsOfFrame, Begun, Begins, SizeKnown, HeaderSize
  <2>6. Traceable'
    <3>1. Traceable
      BY <1>5 DEF InSyncMeans
    <3> QED
      BY <2>1, <3>1, FrameIsTraceable
  <2> QED
    BY <1>1, <1>5, <2>1, <2>4, <2>5, <2>6 DEF InSyncMeans
<1> QED
  BY <1>3, <1>4, <1>5

\* With nothing on the line and nothing sent, there is nothing to trace.
LEMMA NothingToTrace ==
  ASSUME unread' = <<>>, NoneSent, calling' # "packet", ~Begun'
  PROVE  Traceable'
<1>1. PICK nr : nr = [k \in 1 .. 1 |-> 1]
  OBVIOUS
<1>2. nr \in Positions'
  BY <1>1 DEF Positions
<1>3. Traced(nr, nr)'
  BY <1>1 DEF Traced, Turn, Place, NoneSent
<1> QED
  BY <1>2, <1>3 DEF Traceable

LEMMA SilenceKeepsFraming ==
  ASSUME Framing, Silence
  PROVE  Framing'
<1>1. /\ calling = "nothing" /\ unread' = <<>> /\ NoneSent /\ packetSize' = 0
      /\ line' = "ok"
  BY DEF Silence, Reads, AtTop
<1>2. \/ listener' = "invoke" /\ calling' = "nack"
      \/ listener' = "loop" /\ calling' = "nothing" /\ data' = <<>>
  BY <1>1 DEF Silence, Call, GoOn
<1>3. ~Begun'
  BY <1>2 DEF Begun
<1>4. SentAreFrames'
  BY <1>1 DEF SentAreFrames, NoneSent
<1>5. DataIsOfFrame'
  BY <1>1, <1>2, <1>3 DEF DataIsOfFrame
<1>6. Traceable'
  BY <1>1, <1>2, <1>3, NothingToTrace
<1> QED
  BY <1>1, <1>2, <1>4, <1>5, <1>6 DEF InSyncMeans

\* The client has got the frame: it is the next one's turn.
LEMMA InvokeReturnsKeepsFraming ==
  ASSUME TypeOK, Framing, InvokeReturns
  PROVE  Framing'
<1>1. /\ UNCHANGED <<family, unread, packetSize, line, sent, inSync>>
      /\ listener = "invoke" /\ listener' = "loop" /\ calling' = "nothing"
  BY DEF InvokeReturns
<1>2. SentAreFrames'
  BY <1>1 DEF SentAreFrames
<1>3. ASSUME inSync
      PROVE  DataIsOfFrame' /\ Traceable' /\ (line = "failing" => data' = <<>>)
  <2>1. calling \in {"packet", "nack"}
    BY <1>1, <1>3 DEF InSyncMeans, TypeOK, ThreadTypes
  <2>2. data' = <<>> /\ got' = IF calling = "packet" THEN got + 1 ELSE got
    BY <1>3, <2>1 DEF InvokeReturns
  <2>3. ~Begun /\ ~Begun'
    BY <1>1, <2>1, <2>2 DEF Begun
  <2>4. DataIsOfFrame'
    BY <1>1, <1>3, <2>3 DEF InSyncMeans, DataIsOfFrame
  <2>5. Turn' = Turn /\ Place' = Place
    BY <1>1, <2>1, <2>2, <2>3 DEF Turn, Place, TypeOK, LineTypes
  <2>6. PICK nr \in Positions, at \in Positions : Traced(nr, at)
    BY <1>3 DEF InSyncMeans, Traceable
  <2>7. nr \in Positions' /\ at \in Positions' /\ Traced(nr, at)'
    BY <1>1, <2>5, <2>6 DEF Traced, Positions
  <2> QED
    BY <2>2, <2>4, <2>7 DEF Traceable
<1> QED
  BY <1>1, <1>2, <1>3 DEF InSyncMeans

LEMMA ReadErrorKeepsFraming ==
  ASSUME Framing, ReadError
  PROVE  Framing'
<1>1. /\ UNCHANGED <<family, listener, calling, line, unread, sent, got, inSync>>
      /\ line = "failing" /\ calling = "nothing" /\ listener = "loop"
      /\ \/ data' = <<>> /\ packetSize' = 0
         \/ UNCHANGED <<data, packetSize>>
  BY DEF ReadError, Reads, AtTop
<1>2. CASE ~inSync
  BY <1>1, <1>2 DEF InSyncMeans, SentAreFrames
<1>3. CASE inSync
  <2>1. data = <<>> /\ packetSize = 0
    BY <1>1, <1>3 DEF InSyncMeans, DataIsOfFrame, Begun
  <2>2. UNCHANGED <<data, packetSize>>
    BY <1>1, <2>1
  <2> QED
    BY <1>1, <2>2, UnmovedKeepsFraming
<1> QED
  BY <1>2, <1>3

\* A sequence, cut nowhere.
LEMMA WholeIsItself ==
  ASSUME NEW s \in Bytes
  PROVE  SubSeq(s, 1, Len(s)) = s
<1>1. Len(s) \in Nat /\ \A i \in 1 .. Len(s) : s[i] \in 0 .. 255
  BY LenProperties, ElementOfSeq
<1>2. /\ SubSeq(s, 1, Len(s)) \in Bytes
      /\ Len(SubSeq(s, 1, Len(s))) = Len(s)
      /\ \A i \in 1 .. Len(s) : SubSeq(s, 1, Len(s))[i] = s[i]
  BY <1>1, SubSeqProperties
<1> QED
  BY <1>2, SeqEqual

LEMMA EmptyReadBuffersKeepsFraming ==
  ASSUME TypeOK, Framing, EmptyReadBuffers
  PROVE  Framing'
<1>1. /\ UNCHANGED <<family, data, packetSize, calling, line>>
      /\ listener = "loop" /\ listener' = "clear"
  BY DEF EmptyReadBuffers, AtTop
<1>2. PICK bytes \in 0 .. Len(unread) :
        /\ unread' = SubSeq(unread, bytes + 1, Len(unread))
        /\ IF bytes = 0 THEN UNCHANGED ghostVars ELSE OutOfSync
  BY DEF EmptyReadBuffers
<1>3. CASE bytes = 0
  <2>1. unread' = SubSeq(unread, 1, Len(unread))
    BY <1>2, <1>3
  <2>2. unread' = unread
    BY <2>1, WholeIsItself DEF TypeOK, LineTypes
  <2> QED
    BY <1>1, <1>2, <1>3, <2>2, UnmovedKeepsFraming
<1>4. CASE bytes # 0
  BY <1>1, <1>2, <1>4, OutOfSyncKeepsFraming
<1> QED
  BY <1>3, <1>4

\* The listening thread is started once, by the constructor.
StartedOnce == life = "starting" => listener = "none"

LEMMA NextStartsOnce == StartedOnce /\ [Next]_vars => StartedOnce'
<1> SUFFICES ASSUME StartedOnce, [Next]_vars
             PROVE  StartedOnce'
  OBVIOUS
<1> USE DEF StartedOnce
<1>1. CASE UNCHANGED vars \/ Over
  BY <1>1 DEF Over
<1>2. CASE Module \/ LineFails \/ LineHeals \/ GiveUp \/ SetInvoke \/ EmptyRequest
  BY <1>2 DEF Module, LineFails, LineHeals, GiveUp, SetInvoke, EmptyRequest
<1>3. CASE Start \/ Destroy \/ Joined
  BY <1>3 DEF Start, Destroy, Joined
<1>4. CASE Reconnect \/ EnOceanReconnect \/ EmptyReadBuffers \/ Listen
  <2>1. life' = life /\ listener # "none"
    BY <1>4
    DEF Reconnect, EnOceanReconnect, EmptyReadBuffers, Listen, ListenEnds, Lost, LostStopped,
        Emptied, ReadError, Silence, ReadByte, InvokeReturns, InvokeThrows, Reads, AtTop
  <2> QED
    BY <2>1
<1> QED
  BY <1>1, <1>2, <1>3, <1>4
  DEF Next, ZWaveStart, ZigbeeStart, EnOceanStart, ZWaveStop, ZigbeeStop, EnOceanStop,
      ZWaveListen, ZigbeeListen, EnOceanListen, ZWaveReconnect, ZigbeeReconnect,
      ZWaveEmptyReadBuffers, ZigbeeEmptyReadBuffers, ZWaveEmptyRequest, ZigbeeEmptyRequest

LEMMA NextKeepsFraming == TypeOK /\ StartedOnce /\ Framing /\ [Next]_vars => Framing'
<1> SUFFICES ASSUME TypeOK, StartedOnce, Framing, [Next]_vars
             PROVE  Framing'
  OBVIOUS
<1>1. CASE UNCHANGED vars \/ Over
  BY <1>1, UnmovedKeepsFraming DEF Over
<1>2. CASE Module
  BY <1>2, ModuleKeepsFraming
<1>3. CASE LineFails
  BY <1>3, OutOfSyncKeepsFraming DEF LineFails
<1>4. CASE LineHeals \/ GiveUp \/ Start \/ SetInvoke \/ Destroy \/ Joined \/ EmptyRequest
  <2>1. UNCHANGED <<family, data, packetSize, unread, sent, got, inSync, calling>>
    BY <1>4 DEF LineHeals, GiveUp, Start, SetInvoke, Destroy, Joined, EmptyRequest
  <2>2. line' = "failing" => line = "failing"
    BY <1>4 DEF LineHeals, GiveUp, Start, SetInvoke, Destroy, Joined, EmptyRequest
  <2>3. listener' = listener \/ (listener' = "loop" /\ listener = "none")
    BY <1>4
    DEF LineHeals, GiveUp, Start, SetInvoke, Destroy, Joined, EmptyRequest, StartedOnce
  <2> QED
    BY <2>1, <2>2, <2>3, UnmovedKeepsFraming
<1>5. CASE Reconnect \/ EnOceanReconnect
  <2>1. ~inSync /\ inSync' = inSync /\ sent' = sent /\ family' = family /\ CallsAreInvokes'
    BY <1>5 DEF InSyncMeans, Reconnect, EnOceanReconnect
  <2> QED
    BY <2>1 DEF InSyncMeans, SentAreFrames
<1>6. CASE EmptyReadBuffers
  BY <1>6, EmptyReadBuffersKeepsFraming
<1>7. CASE Listen
  <2>1. CASE ListenEnds \/ LostStopped \/ Emptied
    BY <2>1, UnmovedKeepsFraming DEF ListenEnds, LostStopped, Emptied
  <2>2. CASE Lost
    BY <2>2, OutOfSyncKeepsFraming DEF Lost, AtTop
  <2>3. CASE InvokeThrows
    BY <2>3, OutOfSyncKeepsFraming DEF InvokeThrows
  <2>4. CASE ReadError \/ Silence \/ ReadByte \/ InvokeReturns
    BY <2>4, ReadErrorKeepsFraming, SilenceKeepsFraming, ReadByteKeepsFraming,
       InvokeReturnsKeepsFraming
  <2> QED
    BY <1>7, <2>1, <2>2, <2>3, <2>4 DEF Listen
<1> QED
  BY <1>1, <1>2, <1>3, <1>4, <1>5, <1>6, <1>7
  DEF Next, ZWaveStart, ZigbeeStart, EnOceanStart, ZWaveStop, ZigbeeStop, EnOceanStop,
      ZWaveListen, ZigbeeListen, EnOceanListen, ZWaveReconnect, ZigbeeReconnect,
      ZWaveEmptyReadBuffers, ZigbeeEmptyReadBuffers, ZWaveEmptyRequest, ZigbeeEmptyRequest

LEMMA SpecFraming == Spec => [](TypeOK /\ Framing)
<1>1. Init => StartedOnce
  BY DEF Init, StartedOnce
<1> QED
  BY <1>1, InitTypes, InitFraming, NextTypes, NextStartsOnce, NextKeepsFraming, PTL DEF Spec

-----------------------------------------------------------------------------
(* What the client gets.                                                   *)

\* The line is empty: every frame was handed over, or is in data but for its end.
\* It is not: its next byte would be on the line.
LEMMA FramingGivesEveryFrame == TypeOK /\ Framing => EveryFrame
<1> SUFFICES ASSUME TypeOK, Framing, inSync
             PROVE  /\ calling = "packet" => got < Len(sent) /\ data = sent[got + 1]
                    /\ unread = <<>> /\ listener = "loop" => got = Len(sent)
  BY DEF EveryFrame
<1>1. DataIsOfFrame
  BY DEF InSyncMeans
<1>2. ASSUME unread = <<>>, listener = "loop"
      PROVE  got = Len(sent)
  <2>1. PICK nr \in Positions, at \in Positions : Traced(nr, at)
    BY DEF InSyncMeans, Traceable
  <2>2. got \in Nat /\ Len(sent) \in Nat
    BY LenProperties DEF TypeOK, LineTypes
  <2>3. Len(unread) + 1 = 1 /\ calling = "nothing"
    BY <1>2
  <2>4. Turn = Len(sent) + 1 /\ Turn = got + 1
    BY <2>1, <2>3 DEF Traced, Turn
  <2> QED
    BY <2>2, <2>4
<1> QED
  BY <1>1, <1>2 DEF DataIsOfFrame

\* As long as no byte is lost the client gets every frame, in order and unchanged:
\* whatever the checksum is, and whatever frames the module sends that are made as
\* the protocols say.
THEOREM EveryFrameArrives == Spec => []EveryFrame
  BY SpecFraming, FramingGivesEveryFrame, PTL

LEMMA InitIsChannelInit == Init => Channel!Init
  BY DEF Init, Channel!Init

LEMMA ModuleSends ==
  ASSUME TypeOK, Framing, Module
  PROVE  Channel!Next
<1>1. UNCHANGED <<data, calling, family>> /\ family \in DOMAIN Frames
  BY DEF Module, TypeOK, ThreadTypes
<1>2. PICK frame \in Frames[family] :
        \/ /\ sent' = IF inSync THEN Append(sent, frame) ELSE sent
           /\ got' = got /\ inSync' = inSync
        \/ OutOfSync
  BY DEF Module
<1>3. frame \in UNION {Frames[f] : f \in DOMAIN Frames}
  BY <1>1
<1>4. CASE OutOfSync
  BY <1>1, <1>4 DEF OutOfSync, NoneSent, Channel!Next, Channel!Lose, Channel!NoneSent
<1>5. CASE ~OutOfSync
  BY <1>1, <1>2, <1>3, <1>5 DEF Channel!Next, Channel!Send, TypeOK, FlagTypes
<1> QED
  BY <1>4, <1>5

LEMMA ReadByteHandsOver ==
  ASSUME TypeOK, Framing, Framing', ReadByte
  PROVE  Channel!Next \/ UNCHANGED Channel!vars
<1>1. calling = "nothing" /\ UNCHANGED <<sent, got, inSync>>
  BY DEF ReadByte, Reads, AtTop
<1>2. CASE calling' = "packet"
  <2>1. data' # <<>> /\ (inSync => got < Len(sent) /\ data' = sent[got + 1])
    BY <1>1, <1>2 DEF InSyncMeans, DataIsOfFrame
  <2> QED
    BY <1>1, <1>2, <2>1 DEF Channel!Next, Channel!HandOver
<1>3. CASE calling' # "packet"
  BY <1>1, <1>3 DEF Channel!vars
<1> QED
  BY <1>2, <1>3

LEMMA ListenIsChannelStep ==
  ASSUME TypeOK, Framing, Framing', Listen
  PROVE  Channel!Next \/ UNCHANGED Channel!vars
<1>1. CASE ListenEnds \/ LostStopped \/ Emptied
  BY <1>1 DEF ListenEnds, LostStopped, Emptied, Channel!vars
<1>2. CASE Lost \/ InvokeThrows
  BY <1>2
  DEF Lost, AtTop, InvokeThrows, OutOfSync, NoneSent, Channel!Next, Channel!Lose,
      Channel!NoneSent
<1>3. CASE ReadError
  BY <1>3 DEF ReadError, Reads, AtTop, Channel!vars
<1>4. CASE Silence
  <2>1. inSync => got = Len(sent)
    BY <1>4, FramingGivesEveryFrame DEF EveryFrame, Silence, Reads, AtTop
  <2>2. calling = "nothing" /\ calling' # "packet" /\ inSync' = TRUE /\ NoneSent
    BY <1>4 DEF Silence, Reads, AtTop, Call, GoOn
  <2> QED
    BY <2>1, <2>2 DEF NoneSent, Channel!Next, Channel!Silence, Channel!NoneSent
<1>5. CASE ReadByte
  BY <1>5, ReadByteHandsOver
<1>6. CASE InvokeReturns
  <2>1. calling' = "nothing" /\ UNCHANGED <<sent, inSync>>
        /\ got' = IF calling = "packet" /\ inSync THEN got + 1 ELSE got
    BY <1>6 DEF InvokeReturns
  <2>2. CASE calling = "packet"
    BY <2>1, <2>2 DEF Channel!Next, Channel!Return
  <2>3. CASE calling # "packet"
    BY <2>1, <2>3 DEF Channel!vars
  <2> QED
    BY <2>2, <2>3
<1> QED
  BY <1>1, <1>2, <1>3, <1>4, <1>5, <1>6 DEF Listen

LEMMA NextIsChannelStep ==
  TypeOK /\ Framing /\ Framing' /\ [Next]_vars => [Channel!Next]_(Channel!vars)
<1> SUFFICES ASSUME TypeOK, Framing, Framing', [Next]_vars
             PROVE  Channel!Next \/ UNCHANGED Channel!vars
  OBVIOUS
<1>1. CASE UNCHANGED vars \/ Over
  BY <1>1 DEF Over, Channel!vars
<1>2. CASE Module
  BY <1>2, ModuleSends
<1>3. CASE LineFails
  BY <1>3 DEF LineFails, OutOfSync, NoneSent, Channel!Next, Channel!Lose, Channel!NoneSent
<1>4. CASE LineHeals \/ GiveUp \/ Start \/ SetInvoke \/ Destroy \/ Joined \/ EmptyRequest
  BY <1>4
  DEF LineHeals, GiveUp, Start, SetInvoke, Destroy, Joined, EmptyRequest, Channel!vars
<1>5. CASE Reconnect \/ EnOceanReconnect
  BY <1>5 DEF Reconnect, EnOceanReconnect, Channel!vars
<1>6. CASE EmptyReadBuffers
  BY <1>6
  DEF EmptyReadBuffers, OutOfSync, NoneSent, Channel!Next, Channel!Lose, Channel!NoneSent,
      Channel!vars
<1>7. CASE Listen
  BY <1>7, ListenIsChannelStep
<1> QED
  BY <1>1, <1>2, <1>3, <1>4, <1>5, <1>6, <1>7
  DEF Next, ZWaveStart, ZigbeeStart, EnOceanStart, ZWaveStop, ZigbeeStop, EnOceanStop,
      ZWaveListen, ZigbeeListen, EnOceanListen, ZWaveReconnect, ZigbeeReconnect,
      ZWaveEmptyReadBuffers, ZigbeeEmptyReadBuffers, ZWaveEmptyRequest, ZigbeeEmptyRequest

\* The parser, the listening thread, its line and the client of the three
\* interfaces implement a channel of frames.
THEOREM InterfaceIsFrameChannel == Spec => ImplementsFrameChannel
  BY InitIsChannelInit, NextIsChannelStep, SpecFraming, PTL
  DEF Spec, ImplementsFrameChannel, Channel!Spec
=============================================================================

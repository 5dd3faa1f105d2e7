----------------------- MODULE SerialInterfaceProofs -----------------------
(***************************************************************************)
(* Proofs about the interfaces to a serial module: the types of the        *)
(* listening thread's parser, and that emptyReadBuffers reports early only *)
(* what was done.  Both hold for every checksum, every set of frames and   *)
(* every number of tries.                                                  *)
(***************************************************************************)
EXTENDS SerialInterface, SequenceTheorems, TLAPS

USE DEF Bytes

\* A part of a sequence of bytes is one.
LEMMA CutIsBytes ==
  ASSUME NEW s \in Bytes, NEW m \in Nat \ {0}, NEW n \in 0 .. Len(s)
  PROVE  SubSeq(s, m, n) \in Bytes
<1>1. \A i \in m .. n : i \in 1 .. Len(s)
  BY LenProperties
<1>3. \A i \in m .. n : s[i] \in 0 .. 255
  BY <1>1, ElementOfSeq
<1>2. m \in Int /\ n \in Int
  OBVIOUS
<1> QED
  BY <1>2, <1>3, SubSeqProperties

\* So is a frame that has lost one.
LEMMA RestIsBytes ==
  ASSUME NEW frame \in Bytes, NEW lost \in DOMAIN frame
  PROVE  RemoveAt(frame, lost) \in Bytes
<1>1. lost \in 1 .. Len(frame) /\ Len(frame) \in Nat
  OBVIOUS
<1>2. 1 \in Nat \ {0} /\ lost - 1 \in 0 .. Len(frame)
  BY <1>1
<1>3. lost + 1 \in Nat \ {0} /\ Len(frame) \in 0 .. Len(frame)
  BY <1>1
<1>4. SubSeq(frame, 1, lost - 1) \in Bytes
  BY <1>2, CutIsBytes
<1>5. SubSeq(frame, lost + 1, Len(frame)) \in Bytes
  BY <1>3, CutIsBytes
<1> QED
  BY <1>4, <1>5, ConcatProperties DEF RemoveAt

\* A byte is read: what is left, and the packet with it.
LEMMA ReadIsBytes ==
  ASSUME TypeOK, unread # <<>>
  PROVE  /\ Tail(unread) \in Bytes
         /\ Append(data, Head(unread)) \in Bytes
         /\ Len(Append(data, Head(unread))) \in Nat
<1>1. unread \in Bytes /\ data \in Bytes
  BY DEF TypeOK, ParserTypes, LineTypes
<1>2. Head(unread) \in 0 .. 255 /\ Tail(unread) \in Bytes
  BY <1>1, HeadTailProperties
<1>3. Append(data, Head(unread)) \in Bytes
  BY <1>1, <1>2, AppendProperties
<1> QED
  BY <1>2, <1>3, LenProperties

\* The largest packet has an EnOcean header and three full length bytes.
LEMMA SizesAreBounded ==
  ASSUME NEW packet \in Bytes
  PROVE  /\ Len(packet) = 2 => SizeOf(packet) \in 0 .. LargestPacket
         /\ Len(packet) = 6 => EnOceanSizeOf(packet) + 7 \in 0 .. LargestPacket
<1>1. ASSUME NEW i \in 1 .. Len(packet)
      PROVE  packet[i] \in Int /\ 0 <= packet[i] /\ packet[i] <= 255
  <2>1. packet[i] \in 0 .. 255
    BY <1>1, ElementOfSeq
  <2>2. \A byte \in 0 .. 255 : byte \in Int /\ 0 <= byte /\ byte <= 255
    OBVIOUS
  <2> QED
    BY <2>1, <2>2
<1>2. ASSUME NEW size \in Int, 0 <= size, size <= 65797
      PROVE  size \in 0 .. LargestPacket
  <2>1. LargestPacket \in Int /\ size <= LargestPacket
    BY <1>2 DEF LargestPacket
  <2> QED
    BY <1>2, <2>1
<1>3. ASSUME Len(packet) = 2
      PROVE  SizeOf(packet) \in 0 .. LargestPacket
  <2>1. 2 \in 1 .. Len(packet)
    BY <1>3
  <2>2. packet[2] \in Int /\ 0 <= packet[2] /\ packet[2] <= 255
    BY <2>1, <1>1
  <2>3. SizeOf(packet) \in Int /\ 0 <= SizeOf(packet) /\ SizeOf(packet) <= 65797
    BY <2>2 DEF SizeOf
  <2> QED
    BY <2>3, <1>2
<1>4. ASSUME Len(packet) = 6
      PROVE  EnOceanSizeOf(packet) + 7 \in 0 .. LargestPacket
  <2> DEFINE high == packet[2]
             low == packet[3]
             optional == packet[4]
  <2>1. 2 \in 1 .. Len(packet) /\ 3 \in 1 .. Len(packet) /\ 4 \in 1 .. Len(packet)
    BY <1>4
  <2>2. /\ high \in Int /\ 0 <= high /\ high <= 255
        /\ low \in Int /\ 0 <= low /\ low <= 255
        /\ optional \in Int /\ 0 <= optional /\ optional <= 255
    BY <2>1, <1>1
  <2>3. EnOceanSizeOf(packet) = high * 256 + low + optional
    BY DEF EnOceanSizeOf
  <2> HIDE DEF high, low, optional
  <2>4. high * 256 \in Int /\ 0 <= high * 256 /\ high * 256 <= 65280
    BY <2>2
  <2>5. /\ EnOceanSizeOf(packet) + 7 \in Int
        /\ 0 <= EnOceanSizeOf(packet) + 7 /\ EnOceanSizeOf(packet) + 7 <= 65797
    BY <2>2, <2>3, <2>4
  <2> QED
    BY <2>5, <1>2
<1> QED
  BY <1>3, <1>4

\* Whatever the next byte is, the parser keeps its types.
LEMMA ParserKeepsTypes ==
  ASSUME TypeOK, ReadByte
  PROVE  /\ data' \in Bytes
         /\ packetSize' \in 0 .. LargestPacket
         /\ listener' \in {"loop", "invoke"}
         /\ calling' \in {calling, "packet", "nack"}
<1> DEFINE byte == Head(unread)
           packet == Append(data, byte)
<1>1. packet \in Bytes /\ Len(packet) \in Nat
  BY ReadIsBytes DEF ReadByte
<1> HIDE DEF byte, packet
<1>2. data \in Bytes
  BY DEF TypeOK, ParserTypes
<1>3. 0 \in 0 .. LargestPacket
  BY DEF LargestPacket
<1>4. packetSize \in 0 .. LargestPacket
  BY DEF TypeOK, ParserTypes
<1>5. /\ Len(packet) = 2 => SizeOf(packet) \in 0 .. LargestPacket
      /\ Len(packet) = 6 => EnOceanSizeOf(packet) + 7 \in 0 .. LargestPacket
  BY <1>1, SizesAreBounded
<1>6. <<>> \in Bytes /\ <<NACK>> \in Bytes
  BY DEF NACK
<1>7. CASE family = "enocean"
  <2>1. EnOceanNextByte(byte, packet)
    BY <1>7 DEF ReadByte, byte, packet
  <2> QED
    BY <2>1, <1>1, <1>2, <1>5, <1>6, <1>3, <1>4 DEF EnOceanNextByte, Call, GoOn
<1>8. CASE family # "enocean"
  <2>1. NextByte(byte, packet)
    BY <1>8 DEF ReadByte, byte, packet
  <2>2. <<byte>> \in Bytes
    <3>1. byte \in 0 .. 255
      BY HeadTailProperties DEF ReadByte, TypeOK, LineTypes, byte
    <3> QED
      BY <3>1
  <2> QED
    BY <2>1, <2>2, <1>1, <1>2, <1>5, <1>6, <1>3, <1>4 DEF NextByte, Reject, Call, GoOn
<1> QED
  BY <1>7, <1>8

-----------------------------------------------------------------------------
USE DEF threadVars, flagVars, requestVars, parserVars, lineVars, ghostVars, vars,
        ThreadTypes, FlagTypes, ParserTypes, LineTypes, TypeOK

\* The values the parser and the line are reset to.
LEMMA ResetTypes ==
  /\ 0 \in 0 .. LargestPacket
  /\ <<>> \in Bytes /\ <<NACK>> \in Bytes
  /\ <<>> \in Seq(Bytes)
<1>1. 0 \in 0 .. LargestPacket
  BY DEF LargestPacket
<1>2. <<>> \in Bytes /\ <<NACK>> \in Bytes
  BY DEF NACK
<1>3. <<>> \in Seq(Bytes)
  BY EmptySeq
<1> QED
  BY <1>1, <1>2, <1>3

LEMMA NoneSentTypes == NoneSent => sent' \in Seq(Bytes) /\ got' \in Nat
  BY ResetTypes DEF NoneSent

LEMMA OutOfSyncTypes ==
  OutOfSync => sent' \in Seq(Bytes) /\ got' \in Nat /\ inSync' \in BOOLEAN
  BY NoneSentTypes DEF OutOfSync

LEMMA InitTypes == Init => TypeOK
<1> SUFFICES ASSUME Init
             PROVE  TypeOK
  OBVIOUS
<1>1. ThreadTypes
  BY DEF Init
<1>2. FlagTypes
  BY DEF Init
<1>3. ParserTypes
  BY ResetTypes DEF Init
<1>4. LineTypes
  BY ResetTypes, SerialAssumption DEF Init
<1> QED
  BY <1>1, <1>2, <1>3, <1>4

LEMMA ModuleTypes == TypeOK /\ Module => TypeOK'
<1> SUFFICES ASSUME TypeOK, Module
             PROVE  TypeOK'
  OBVIOUS
<1>1. ThreadTypes' /\ ParserTypes'
  BY DEF Module
<1>2. FlagTypes'
  <2>1. inSync' \in BOOLEAN
    BY OutOfSyncTypes DEF Module
  <2> QED
    BY <2>1 DEF Module
<1>3. LineTypes'
  <2>1. PICK frame \in Frames[family] :
          \/ /\ unread' = unread \o frame
             /\ sent' = IF inSync THEN Append(sent, frame) ELSE sent
             /\ UNCHANGED <<got, inSync, faults>>
          \/ /\ faults < MaxFaults /\ faults' = faults + 1
             /\ \E lost \in DOMAIN frame : unread' = unread \o RemoveAt(frame, lost)
             /\ OutOfSync
    BY DEF Module
  <2>2. frame \in Bytes /\ unread \in Bytes /\ sent \in Seq(Bytes)
    BY SerialAssumption
  <2>3. unread \o frame \in Bytes
    BY <2>2, ConcatProperties
  <2>4. \A lost \in DOMAIN frame : unread \o RemoveAt(frame, lost) \in Bytes
    BY <2>2, RestIsBytes, ConcatProperties
  <2>5. Append(sent, frame) \in Seq(Bytes)
    BY <2>2, AppendProperties
  <2>6. unread' \in Bytes
    BY <2>1, <2>3, <2>4
  <2>7. sent' \in Seq(Bytes) /\ got' \in Nat
    BY <2>1, <2>2, <2>5, OutOfSyncTypes
  <2>8. frames' \in 0 .. MaxFrames /\ faults' \in 0 .. MaxFaults
    BY <2>1, SerialAssumption DEF Module
  <2> QED
    BY <2>6, <2>7, <2>8 DEF Module
<1> QED
  BY <1>1, <1>2, <1>3

LEMMA LineActionTypes == TypeOK /\ (LineFails \/ LineHeals \/ GiveUp) => TypeOK'
<1> SUFFICES ASSUME TypeOK, LineFails \/ LineHeals \/ GiveUp
             PROVE  TypeOK'
  OBVIOUS
<1>1. CASE LineFails
  <2>1. ThreadTypes'
    BY <1>1 DEF LineFails
  <2>2. FlagTypes'
    BY <1>1, OutOfSyncTypes DEF LineFails
  <2>3. ParserTypes'
    BY <1>1 DEF LineFails
  <2>4. LineTypes'
    BY <1>1, ResetTypes, OutOfSyncTypes, SerialAssumption DEF LineFails
  <2> QED
    BY <2>1, <2>2, <2>3, <2>4
<1>2. CASE LineHeals
  BY <1>2 DEF LineHeals
<1>3. CASE GiveUp
  BY <1>3, SerialAssumption DEF GiveUp
<1> QED
  BY <1>1, <1>2, <1>3

LEMMA LifeTypes ==
  TypeOK /\ (Start \/ SetInvoke \/ Destroy \/ Joined) => TypeOK'
<1> SUFFICES ASSUME TypeOK, Start \/ SetInvoke \/ Destroy \/ Joined
             PROVE  TypeOK'
  OBVIOUS
<1>1. CASE Start
  BY <1>1 DEF Start
<1>2. CASE SetInvoke
  BY <1>2 DEF SetInvoke
<1>3. CASE Destroy
  BY <1>3 DEF Destroy
<1>4. CASE Joined
  BY <1>4 DEF Joined
<1> QED
  BY <1>1, <1>2, <1>3, <1>4

LEMMA ReconnectTypes == TypeOK /\ (Reconnect \/ EnOceanReconnect) => TypeOK'
<1> SUFFICES ASSUME TypeOK, Reconnect \/ EnOceanReconnect
             PROVE  TypeOK'
  OBVIOUS
<1>1. CASE Reconnect
  BY <1>1 DEF Reconnect
<1>2. CASE EnOceanReconnect
  <2>1. ThreadTypes'
    BY <1>2 DEF EnOceanReconnect
  <2>2. FlagTypes'
    <3>1. isOpen' \in BOOLEAN /\ stopped' \in BOOLEAN
      BY <1>2 DEF EnOceanReconnect
    <3> QED
      BY <1>2, <3>1 DEF EnOceanReconnect
  <2>3. ParserTypes'
    BY <1>2 DEF EnOceanReconnect
  <2>4. LineTypes'
    BY <1>2 DEF EnOceanReconnect
  <2> QED
    BY <2>1, <2>2, <2>3, <2>4
<1> QED
  BY <1>1, <1>2

LEMMA EmptyReadBuffersTypes == TypeOK /\ EmptyReadBuffers => TypeOK'
<1> SUFFICES ASSUME TypeOK, EmptyReadBuffers
             PROVE  TypeOK'
  OBVIOUS
<1>1. PICK bytes \in 0 .. Len(unread) : unread' = SubSeq(unread, bytes + 1, Len(unread))
  BY DEF EmptyReadBuffers
<1>2. unread \in Bytes /\ Len(unread) \in Nat
  BY LenProperties
<1>3. bytes + 1 \in Nat \ {0} /\ Len(unread) \in 0 .. Len(unread)
  BY <1>2
<1>4. unread' \in Bytes
  BY <1>1, <1>2, <1>3, CutIsBytes
<1>5. sent' \in Seq(Bytes) /\ got' \in Nat /\ inSync' \in BOOLEAN
  BY OutOfSyncTypes DEF EmptyReadBuffers
<1>6. ThreadTypes' /\ ParserTypes'
  BY DEF EmptyReadBuffers
<1>7. FlagTypes'
  BY <1>5 DEF EmptyReadBuffers
<1>8. LineTypes'
  BY <1>4, <1>5 DEF EmptyReadBuffers
<1> QED
  BY <1>6, <1>7, <1>8

LEMMA ListenTypes == TypeOK /\ Listen => TypeOK'
<1> SUFFICES ASSUME TypeOK, Listen
             PROVE  TypeOK'
  OBVIOUS
<1>1. CASE ListenEnds
  BY <1>1 DEF ListenEnds
<1>2. CASE Lost
  <2>1. ThreadTypes'
    BY <1>2 DEF Lost
  <2>2. FlagTypes'
    BY <1>2, OutOfSyncTypes DEF Lost
  <2>3. ParserTypes'
    BY <1>2 DEF Lost
  <2>4. LineTypes'
    BY <1>2, ResetTypes, OutOfSyncTypes DEF Lost
  <2> QED
    BY <2>1, <2>2, <2>3, <2>4
<1>3. CASE LostStopped
  BY <1>3 DEF LostStopped
<1>4. CASE Emptied
  BY <1>4 DEF Emptied
<1>5. CASE ReadError
  <2>1. ThreadTypes'
    BY <1>5 DEF ReadError
  <2>2. FlagTypes'
    BY <1>5 DEF ReadError
  <2>3. ParserTypes'
    <3>1. data' \in Bytes /\ packetSize' \in 0 .. LargestPacket
      BY <1>5, ResetTypes DEF ReadError
    <3>2. CASE family # "zigbee" \/ errorReadCount = 5
      BY <1>5, <3>1, <3>2 DEF ReadError
    <3>3. CASE family = "zigbee" /\ errorReadCount # 5
      <4>1. errorReadCount' = errorReadCount + 1 /\ family' = family
        BY <1>5, <3>3 DEF ReadError
      <4>2. errorReadCount \in 0 .. 5
        BY <3>3
      <4> QED
        BY <3>1, <3>3, <4>1, <4>2
    <3> QED
      BY <3>2, <3>3
  <2>4. LineTypes'
    BY <1>5 DEF ReadError
  <2> QED
    BY <2>1, <2>2, <2>3, <2>4
<1>6. CASE Silence
  <2>1. ThreadTypes'
    BY <1>6 DEF Silence, Call, GoOn
  <2>2. FlagTypes'
    BY <1>6 DEF Silence, Call, GoOn
  <2>3. ParserTypes'
    BY <1>6, ResetTypes, NoneSentTypes DEF Silence, Call, GoOn
  <2>4. LineTypes'
    BY <1>6, ResetTypes, NoneSentTypes DEF Silence, Call, GoOn
  <2> QED
    BY <2>1, <2>2, <2>3, <2>4
<1>7. CASE ReadByte
  <2>1. ThreadTypes' /\ FlagTypes'
    BY <1>7, ParserKeepsTypes DEF ReadByte
  <2>2. ParserTypes'
    BY <1>7, ParserKeepsTypes DEF ReadByte
  <2>3. LineTypes'
    BY <1>7, ReadIsBytes DEF ReadByte
  <2> QED
    BY <2>1, <2>2, <2>3
<1>8. CASE InvokeReturns
  <2>1. ThreadTypes'
    BY <1>8 DEF InvokeReturns
  <2>2. FlagTypes'
    BY <1>8 DEF InvokeReturns
  <2>3. ParserTypes'
    BY <1>8, ResetTypes DEF InvokeReturns
  <2>4. LineTypes'
    BY <1>8 DEF InvokeReturns
  <2> QED
    BY <2>1, <2>2, <2>3, <2>4
<1>9. CASE InvokeThrows
  <2>1. ThreadTypes'
    BY <1>9 DEF InvokeThrows
  <2>2. FlagTypes'
    BY <1>9, OutOfSyncTypes DEF InvokeThrows
  <2>3. ParserTypes'
    BY <1>9 DEF InvokeThrows
  <2>4. LineTypes'
    BY <1>9, OutOfSyncTypes DEF InvokeThrows
  <2> QED
    BY <2>1, <2>2, <2>3, <2>4
<1> QED
  BY <1>1, <1>2, <1>3, <1>4, <1>5, <1>6, <1>7, <1>8, <1>9 DEF Listen

LEMMA RequestTypes == TypeOK /\ EmptyRequest => TypeOK'
<1> SUFFICES ASSUME TypeOK, EmptyRequest
             PROVE  TypeOK'
  OBVIOUS
<1>1. CASE RequestEmpty
  <2>1. ThreadTypes'
    BY <1>1 DEF EmptyRequest, RequestEmpty
  <2>2. FlagTypes'
    BY <1>1 DEF EmptyRequest, RequestEmpty
  <2>3. ParserTypes'
    BY <1>1 DEF EmptyRequest, RequestEmpty
  <2>4. LineTypes'
    BY <1>1 DEF EmptyRequest, RequestEmpty
  <2> QED
    BY <2>1, <2>2, <2>3, <2>4
<1>2. CASE RequestEnds
  <2>1. ThreadTypes'
    BY <1>2 DEF EmptyRequest, RequestEnds
  <2>2. FlagTypes'
    BY <1>2 DEF EmptyRequest, RequestEnds
  <2>3. ParserTypes'
    BY <1>2 DEF EmptyRequest, RequestEnds
  <2>4. LineTypes'
    BY <1>2 DEF EmptyRequest, RequestEnds
  <2> QED
    BY <2>1, <2>2, <2>3, <2>4
<1> QED
  BY <1>1, <1>2 DEF EmptyRequest

LEMMA NextTypes == TypeOK /\ [Next]_vars => TypeOK'
<1> SUFFICES ASSUME TypeOK, [Next]_vars
             PROVE  TypeOK'
  OBVIOUS
<1>1. CASE UNCHANGED vars \/ Over
  BY <1>1 DEF Over
<1>2. CASE Module \/ LineFails \/ LineHeals \/ GiveUp
  BY <1>2, ModuleTypes, LineActionTypes
<1>3. CASE Start \/ SetInvoke \/ Destroy \/ Joined
  BY <1>3, LifeTypes
<1>4. CASE Reconnect \/ EnOceanReconnect \/ EmptyReadBuffers
  BY <1>4, ReconnectTypes, EmptyReadBuffersTypes
<1>5. CASE Listen \/ EmptyRequest
  BY <1>5, ListenTypes, RequestTypes
<1> QED
  BY <1>1, <1>2, <1>3, <1>4, <1>5
  DEF Next, ZWaveStart, ZigbeeStart, EnOceanStart, ZWaveStop, ZigbeeStop, EnOceanStop,
      ZWaveListen, ZigbeeListen, EnOceanListen, ZWaveReconnect, ZigbeeReconnect,
      ZWaveEmptyReadBuffers, ZigbeeEmptyReadBuffers, ZWaveEmptyRequest, ZigbeeEmptyRequest

\* The variables keep their types, for all frames and checksums: the length of a
\* packet is never more than three length bytes can say.
THEOREM TypeCorrect == Spec => []TypeOK
  BY InitTypes, NextTypes, PTL DEF Spec

-----------------------------------------------------------------------------
(* emptyReadBuffers: while the listening thread is between the last byte it  *)
(* discards and the reset of the request, a caller is either the one that it *)
(* worked for or came too late.                                              *)

ServedIsSeen == listener = "clear" /\ tcp = "waiting" => emptied \/ overlapped

Requests == ServedIsSeen /\ EarlyMeansEmptied

USE DEF ServedIsSeen, EarlyMeansEmptied, Requests

\* What does not touch a request, and does not begin to serve one, keeps it so.
LEMMA OthersKeepRequests ==
  ASSUME Requests, UNCHANGED <<tcp, requestVars>>,
         listener' = listener \/ listener' # "clear"
  PROVE  Requests'
  OBVIOUS

LEMMA ListenKeepsRequests == TypeOK /\ Requests /\ Listen => Requests'
<1> SUFFICES ASSUME TypeOK, Requests, Listen
             PROVE  Requests'
  OBVIOUS
<1>1. CASE Emptied
  BY <1>1 DEF Emptied
<1>2. CASE ListenEnds \/ Lost \/ LostStopped \/ InvokeReturns \/ InvokeThrows
  BY <1>2, OthersKeepRequests
  DEF ListenEnds, Lost, LostStopped, InvokeReturns, InvokeThrows
<1>3. CASE ReadError
  BY <1>3, OthersKeepRequests DEF ReadError
<1>4. CASE Silence
  BY <1>4, OthersKeepRequests DEF Silence, Call, GoOn
<1>5. CASE ReadByte
  BY <1>5, ParserKeepsTypes, OthersKeepRequests DEF ReadByte
<1> QED
  BY <1>1, <1>2, <1>3, <1>4, <1>5 DEF Listen

LEMMA NextKeepsRequests == TypeOK /\ Requests /\ [Next]_vars => Requests'
<1> SUFFICES ASSUME TypeOK, Requests, [Next]_vars
             PROVE  Requests'
  OBVIOUS
<1>1. CASE UNCHANGED vars \/ Over
  BY <1>1, OthersKeepRequests DEF Over
<1>2. CASE Module \/ LineFails \/ LineHeals \/ GiveUp
  BY <1>2, OthersKeepRequests DEF Module, LineFails, LineHeals, GiveUp
<1>3. CASE Start \/ SetInvoke \/ Destroy \/ Joined
  BY <1>3, OthersKeepRequests DEF Start, SetInvoke, Destroy, Joined
<1>4. CASE Reconnect \/ EnOceanReconnect
  BY <1>4, OthersKeepRequests DEF Reconnect, EnOceanReconnect
<1>5. CASE EmptyReadBuffers
  BY <1>5 DEF EmptyReadBuffers
<1>6. CASE EmptyRequest
  BY <1>6 DEF EmptyRequest, RequestEmpty, RequestEnds
<1>7. CASE Listen
  BY <1>7, ListenKeepsRequests
<1> QED
  BY <1>1, <1>2, <1>3, <1>4, <1>5, <1>6, <1>7
  DEF Next, ZWaveStart, ZigbeeStart, EnOceanStart, ZWaveStop, ZigbeeStop, EnOceanStop,
      ZWaveListen, ZigbeeListen, EnOceanListen, ZWaveReconnect, ZigbeeReconnect,
      ZWaveEmptyReadBuffers, ZigbeeEmptyReadBuffers, ZWaveEmptyRequest, ZigbeeEmptyRequest

\* emptyReadBuffers returns before its time limit only when the buffers have been
\* emptied since it was called, or when it took the end of an older request for
\* its own; whatever the number of tries is and however the line fails.
THEOREM EarlyReturnIsTrue == Spec => []EarlyMeansEmptied
<1>1. Init => Requests
  BY DEF Init
<1>2. Requests => EarlyMeansEmptied
  OBVIOUS
<1> QED
  BY <1>1, <1>2, InitTypes, NextTypes, NextKeepsRequests, PTL DEF Spec
=============================================================================

-------------------------- MODULE SerialInterface --------------------------
(***************************************************************************)
(* The interfaces to a serial module: Z-Wave (ZWave.cpp), Zigbee           *)
(* (Zigbee.cpp) and EnOcean (EnOcean.cpp).  A listening thread reads the   *)
(* line byte by byte, cuts it into packets and hands them to the client;   *)
(* it also reopens the device and, for Z-Wave and Zigbee, empties the      *)
(* buffers for the RPC method emptyReadBuffers, which waits for it on the  *)
(* TCP thread.  What EnOcean does with whole packets is in module EnOcean. *)
(*                                                                         *)
(* sent, got and inSync are for the properties: the frames the module has  *)
(* sent since the last silence, how many of them the client has got, and   *)
(* whether every byte of the others is either in data or still to be read. *)
(***************************************************************************)
EXTENDS Integers, Sequences, SequencesExt

CONSTANTS
  GetCrc8(_, _),   \* the checksum of a packet of a family
  Frames,          \* what the module may send, for each family
  TryCounts,       \* the parameter of emptyReadBuffers, as a 32 bit number
  MaxFrames,       \* bound: frames the module sends
  MaxFaults        \* bound: failures of the line

ACK == 6
NACK == 21
CAN == 24
StartByte(f) == CASE f = "zwave" -> 1 [] f = "zigbee" -> 254 [] OTHER -> 85

\* The frames of the protocols: a start byte, the number of bytes that follow and
\* are not counted as header or checksum, and a checksum.
IsFrame(f, frame) ==
  \/ f = "zwave" /\ frame \in {<<ACK>>, <<NACK>>, <<CAN>>}
  \/ /\ f # "enocean"
     /\ Len(frame) > 2 /\ Len(frame) = frame[2] + (IF f = "zwave" THEN 2 ELSE 5)
     /\ frame[1] = StartByte(f)
     /\ frame[Len(frame)] = GetCrc8(f, frame)
  \/ /\ f = "enocean"
     /\ Len(frame) > 7 /\ Len(frame) = frame[2] * 256 + frame[3] + frame[4] + 7
     /\ frame[1] = StartByte(f)
     /\ frame[6] = GetCrc8(f, SubSeq(frame, 1, 6))
     /\ frame[Len(frame)] = GetCrc8(f, SubSeq(frame, 6, Len(frame)))

ASSUME SerialAssumption ==
  /\ DOMAIN Frames \subseteq {"zwave", "zigbee", "enocean"}
  /\ \A f \in DOMAIN Frames : Frames[f] \subseteq Seq(0 .. 255)
  /\ \A f \in DOMAIN Frames : \A frame \in Frames[f] : IsFrame(f, frame)
  /\ TryCounts \subseteq Int
  /\ MaxFrames \in Nat /\ MaxFaults \in Nat

VARIABLES
  family,              \* whose code runs
  life,                \* progress of constructor and destructor
  listener,            \* where the listening thread is
  tcp,                 \* where emptyReadBuffers() is
  invokeSet,           \* setInvoke() was called
  stopCallbackThread,  \* _stopCallbackThread
  stopped,             \* _stopped
  isOpen,              \* _serial->isOpen()
  emptyBuffers,        \* _emptyReadBuffers
  tryCount,            \* _tryCount
  data,                \* the packet read so far
  packetSize,          \* its size, 0 if not known
  errorReadCount,      \* Zigbee: errors in a row
  calling,             \* what invoke() was called for
  line,                \* the device is there: "ok", or "failing"
  unread,              \* bytes that were sent and not read
  inSync,              \* since the last silence no byte was lost or discarded
  sent,                \* then the frames sent since
  got,                 \* and how many of them were handed over
  emptied,             \* the buffers were emptied during the request
  overlapped,          \* the request was made while an older one was finished
  frames,              \* frames sent so far
  faults               \* failures of the line so far

threadVars == <<family, life, listener, tcp, invokeSet, calling>>
flagVars == <<stopCallbackThread, stopped, isOpen>>
requestVars == <<emptyBuffers, tryCount, emptied, overlapped>>
parserVars == <<data, packetSize, errorReadCount>>
lineVars == <<line, unread, frames, faults>>
ghostVars == <<sent, got, inSync>>
vars == <<threadVars, flagVars, requestVars, parserVars, lineVars, ghostVars>>

SOF == StartByte(family)

IsOpen == isOpen /\ ~stopped

Init ==
  /\ family \in DOMAIN Frames
  /\ life = "starting" /\ listener = "none" /\ tcp = "idle"
  /\ invokeSet = FALSE /\ calling = "nothing"
  /\ stopCallbackThread = FALSE /\ stopped = TRUE /\ isOpen = FALSE
  /\ emptyBuffers = (family # "enocean") /\ tryCount = 30 /\ emptied = FALSE /\ overlapped = FALSE
  /\ data = <<>> /\ packetSize = 0 /\ errorReadCount = 0
  /\ line \in {"ok", "failing"} /\ unread = <<>> /\ frames = 0 /\ faults = 0
  /\ sent = <<>> /\ got = 0 /\ inSync = TRUE

-----------------------------------------------------------------------------
(* The line and the module behind it (external).                           *)

NoneSent == sent' = <<>> /\ got' = 0

OutOfSync == inSync' = FALSE /\ NoneSent

Module ==
  /\ line = "ok" /\ isOpen
  /\ frames < MaxFrames
  /\ frames' = frames + 1
  /\ \E frame \in Frames[family] :
       \/ /\ unread' = unread \o frame
          /\ sent' = IF inSync THEN Append(sent, frame) ELSE sent
          /\ UNCHANGED <<got, inSync, faults>>
       \/ /\ faults < MaxFaults /\ faults' = faults + 1
          /\ \E lost \in DOMAIN frame : unread' = unread \o RemoveAt(frame, lost)
          /\ OutOfSync
  /\ UNCHANGED <<threadVars, flagVars, requestVars, parserVars, line>>

\* The device is gone, or reading fails; the library may close it.
LineFails ==
  /\ line = "ok"
  /\ faults < MaxFaults /\ faults' = faults + 1
  /\ line' = "failing"
  /\ unread' = <<>>
  /\ isOpen' \in {isOpen, FALSE}
  /\ OutOfSync
  /\ UNCHANGED <<threadVars, stopCallbackThread, stopped, requestVars, parserVars,
                 frames>>

LineHeals ==
  /\ line = "failing"
  /\ line' = "ok"
  /\ UNCHANGED <<threadVars, flagVars, requestVars, parserVars, unread, frames,
                 faults, ghostVars>>

-----------------------------------------------------------------------------
(* Constructor and destructor.                                             *)

\* The thread is only started if the device can be opened.
Start ==
  /\ life = "starting"
  /\ life' = "up"
  /\ IF line = "ok"
       THEN isOpen' = TRUE /\ stopped' = FALSE /\ listener' = "loop"
       ELSE UNCHANGED <<isOpen, stopped, listener>>
  /\ UNCHANGED <<family, tcp, invokeSet, calling, stopCallbackThread, requestVars,
                 parserVars, lineVars, ghostVars>>

\* RpcServer::start() calls setInvoke() after the constructor.
SetInvoke ==
  /\ life = "up" /\ ~invokeSet
  /\ invokeSet' = TRUE
  /\ UNCHANGED <<family, life, listener, tcp, calling, flagVars, requestVars,
                 parserVars, lineVars, ghostVars>>

\* Mutant: the listening thread is not told to end.
DestroySilently ==
  /\ life = "up" /\ invokeSet /\ tcp = "idle"
  /\ life' = "stopping"
  /\ UNCHANGED <<family, listener, tcp, invokeSet, calling, flagVars, requestVars,
                 parserVars, lineVars, ghostVars>>

\* The destructor runs stop(), when no method is running any more ...
Destroy ==
  /\ life = "up" /\ invokeSet /\ tcp = "idle"
  /\ life' = "stopping"
  /\ stopCallbackThread' = TRUE
  /\ UNCHANGED <<family, listener, tcp, invokeSet, calling, stopped, isOpen, requestVars,
                 parserVars, lineVars, ghostVars>>

\* ... which joins the listening thread.
Joined ==
  /\ life = "stopping" /\ listener \in {"none", "ended"}
  /\ life' = "ended"
  /\ stopped' = TRUE
  /\ isOpen' = FALSE
  /\ UNCHANGED <<family, listener, tcp, invokeSet, calling, stopCallbackThread,
                 requestVars, parserVars, lineVars, ghostVars>>

ZWaveStart == family = "zwave" /\ Start
ZigbeeStart == family = "zigbee" /\ Start
EnOceanStart == family = "enocean" /\ Start
ZWaveStop == family = "zwave" /\ (Destroy \/ Joined)
ZigbeeStop == family = "zigbee" /\ (Destroy \/ Joined)
EnOceanStop == family = "enocean" /\ (Destroy \/ Joined)

-----------------------------------------------------------------------------
(* listen(): the connection.                                               *)

AtTop == listener = "loop" /\ ~stopCallbackThread

ListenEnds ==
  /\ listener = "loop" /\ stopCallbackThread
  /\ listener' = "ended"
  /\ UNCHANGED <<family, life, tcp, invokeSet, calling, flagVars, requestVars,
                 parserVars, lineVars, ghostVars>>

\* EnOcean's init() and setBaseAddress() give up a device that does not answer as
\* expected: it is closed with bytes unread and a packet in data.
GiveUp ==
  /\ family = "enocean" /\ life = "up"
  /\ faults < MaxFaults /\ faults' = faults + 1
  /\ stopped' = TRUE
  /\ UNCHANGED <<threadVars, stopCallbackThread, isOpen, requestVars, parserVars, line,
                 unread, frames, ghostVars>>

\* The device is closed: close it and wait for five or ten seconds.
Lost ==
  /\ AtTop
  /\ ~IsOpen
  /\ isOpen' = FALSE
  /\ unread' = <<>>
  /\ OutOfSync
  /\ listener' = "closed"
  /\ UNCHANGED <<family, life, tcp, invokeSet, calling, stopCallbackThread, stopped,
                 requestVars, parserVars, line, frames, faults>>

\* EnOcean reopens the device before it looks at the flag again.
LostStopped ==
  /\ listener = "closed" /\ stopCallbackThread
  /\ family # "enocean"
  /\ stopped' = TRUE
  /\ listener' = "ended"
  /\ UNCHANGED <<family, life, tcp, invokeSet, calling, stopCallbackThread, isOpen,
                 requestVars, parserVars, lineVars, ghostVars>>

\* Mutant: _stopped is not cleared.
ReconnectStaysStopped ==
  /\ listener = "closed" /\ ~stopCallbackThread
  /\ stopped' = TRUE
  /\ IF line = "ok"
       THEN isOpen' = TRUE /\ listener' = "invoke" /\ calling' = "reconnect"
       ELSE listener' = "loop" /\ UNCHANGED <<isOpen, calling>>
  /\ UNCHANGED <<family, life, tcp, invokeSet, stopCallbackThread, requestVars,
                 parserVars, lineVars, ghostVars>>

\* reconnect(): open the device and call "reconnect" on the other end.
Reconnect ==
  /\ listener = "closed" /\ ~stopCallbackThread
  /\ IF line = "ok"
       THEN /\ isOpen' = TRUE /\ stopped' = FALSE
            /\ listener' = "invoke" /\ calling' = "reconnect"
       ELSE /\ stopped' = TRUE
            /\ listener' = "loop"
            /\ UNCHANGED <<isOpen, calling>>
  /\ UNCHANGED <<family, life, tcp, invokeSet, stopCallbackThread, requestVars,
                 parserVars, lineVars, ghostVars>>

\* reconnect() of EnOcean: open the device and start init().
EnOceanReconnect ==
  /\ family = "enocean"
  /\ listener = "closed"
  /\ IF line = "ok" THEN isOpen' = TRUE /\ stopped' = FALSE ELSE UNCHANGED <<isOpen, stopped>>
  /\ listener' = "loop"
  /\ UNCHANGED <<family, life, tcp, invokeSet, calling, stopCallbackThread, requestVars,
                 parserVars, lineVars, ghostVars>>

ZWaveReconnect == family = "zwave" /\ Reconnect
ZigbeeReconnect == family = "zigbee" /\ Reconnect

-----------------------------------------------------------------------------
(* listen(): emptying the buffers.                                         *)

\* Mutant: the request is reported as done before it is.
EmptyReadBuffersLate ==
  /\ AtTop /\ IsOpen /\ emptyBuffers
  /\ emptyBuffers' = FALSE
  /\ listener' = "clear"
  /\ UNCHANGED <<family, life, tcp, invokeSet, calling, flagVars, tryCount, emptied,
                 overlapped, parserVars, lineVars, ghostVars>>

\* Read and discard up to tryCount bytes, one at least.
EmptyReadBuffers ==
  /\ AtTop /\ IsOpen /\ emptyBuffers
  /\ \E bytes \in 0 .. Len(unread) :
       /\ bytes <= tryCount \/ bytes = 1
       /\ unread' = SubSeq(unread, bytes + 1, Len(unread))
       /\ IF bytes = 0 THEN UNCHANGED ghostVars ELSE OutOfSync
  /\ emptied' = (tcp = "waiting")
  /\ listener' = "clear"
  /\ UNCHANGED <<family, life, tcp, invokeSet, calling, flagVars, emptyBuffers, tryCount,
                 overlapped, parserVars, line, frames, faults>>

Emptied ==
  /\ listener = "clear"
  /\ emptyBuffers' = FALSE
  /\ listener' = "loop"
  /\ UNCHANGED <<family, life, tcp, invokeSet, calling, flagVars, tryCount, emptied,
                 overlapped, parserVars, lineVars, ghostVars>>

ZWaveEmptyReadBuffers == family = "zwave" /\ EmptyReadBuffers
ZigbeeEmptyReadBuffers == family = "zigbee" /\ EmptyReadBuffers

-----------------------------------------------------------------------------
(* listen(): cutting the line into packets.                                *)

Reads == AtTop /\ IsOpen /\ ~emptyBuffers

Call(what) == listener' = "invoke" /\ calling' = what
GoOn == listener' = "loop" /\ UNCHANGED calling

\* Mutant: errors are counted over all packets.
ReadErrorAccumulates ==
  /\ Reads /\ line = "failing"
  /\ errorReadCount' = errorReadCount + 1
  /\ stopped' = (family # "zigbee" \/ errorReadCount >= 5)
  /\ IF stopped' THEN data' = <<>> /\ packetSize' = 0 ELSE UNCHANGED <<data, packetSize>>
  /\ UNCHANGED <<threadVars, stopCallbackThread, isOpen, requestVars, lineVars,
                 ghostVars>>

\* Zigbee closes the device on the sixth error in a row, the others on the first.
ReadError ==
  /\ Reads /\ line = "failing"
  /\ IF family # "zigbee" \/ errorReadCount = 5
       THEN stopped' = TRUE /\ data' = <<>> /\ packetSize' = 0 /\ errorReadCount' = 0
       ELSE /\ errorReadCount' = errorReadCount + 1
            /\ UNCHANGED <<stopped, data, packetSize>>
  /\ UNCHANGED <<threadVars, stopCallbackThread, isOpen, requestVars, lineVars,
                 ghostVars>>

\* Mutant: a started packet waits for its end for ever.
SilenceIgnored ==
  /\ Reads /\ line = "ok" /\ unread = <<>>
  /\ data = <<>>
  /\ packetSize' = 0
  /\ inSync' = TRUE /\ NoneSent
  /\ GoOn
  /\ UNCHANGED <<family, life, tcp, invokeSet, flagVars, requestVars, data,
                 errorReadCount, lineVars>>

\* Nothing to read for a tenth of a second, and (but for EnOcean) 1.5 seconds since
\* the packet began: it is abandoned, which Z-Wave reports to the client.
Silence ==
  /\ Reads /\ line = "ok" /\ unread = <<>>
  /\ packetSize' = 0
  /\ IF data # <<>> /\ family = "zwave"
       THEN data' = <<NACK>> /\ Call("nack")
       ELSE data' = <<>> /\ GoOn
  /\ inSync' = TRUE /\ NoneSent
  /\ UNCHANGED <<family, life, tcp, invokeSet, flagVars, requestVars, errorReadCount, lineVars>>

\* A byte that belongs to no packet, or ends a bad one.
Reject ==
  IF family = "zwave" THEN data' = <<NACK>> /\ Call("nack") ELSE data' = <<>> /\ GoOn

\* Mutant: the checksum is not counted.
SizeOfShort(packet) == packet[2] + (IF family = "zwave" THEN 1 ELSE 4)

\* The second byte is the length of the rest, but for header and checksum.
SizeOf(packet) == packet[2] + (IF family = "zwave" THEN 2 ELSE 5)

\* The cases for the next byte.
NextByte(byte, packet) ==
  LET sized == packetSize = 0 /\ Len(packet) = 2
      size == IF sized THEN SizeOf(packet) ELSE packetSize
      started == data # <<>> \/ byte = SOF
      invalid == sized /\ family = "zwave" /\ byte = 0
      complete == size > 0 /\ Len(packet) = size
  IN
  \/ /\ ~started /\ family = "zwave" /\ byte \in {ACK, NACK, CAN}
     /\ data' = <<byte>> /\ Call("packet")
     /\ UNCHANGED packetSize
  \/ /\ ~started /\ ~(family = "zwave" /\ byte \in {ACK, NACK, CAN})
     /\ Reject
     /\ UNCHANGED packetSize
  \/ /\ started /\ invalid
     /\ Reject
     /\ UNCHANGED packetSize
  \/ /\ started /\ ~invalid /\ ~complete
     /\ data' = packet /\ GoOn
     /\ packetSize' = size
  \/ /\ started /\ ~invalid /\ complete
     /\ packetSize' = 0
     /\ IF GetCrc8(family, packet) = byte THEN data' = packet /\ Call("packet") ELSE Reject

\* The checksum of the header and of the rest: the same sum over two parts.
HeaderIsValid(packet) == GetCrc8(family, packet) = packet[6]
BodyIsValid(packet) == GetCrc8(family, SubSeq(packet, 6, Len(packet))) = Last(packet)

\* The length of data and optional data.
EnOceanSizeOf(packet) == packet[2] * 256 + packet[3] + packet[4]

\* The cases of EnOcean, whose header is 6 bytes long.
EnOceanNextByte(byte, packet) ==
  LET header == packetSize = 0 /\ Len(packet) = 6
      size == IF header THEN EnOceanSizeOf(packet) + 7 ELSE packetSize
      started == data # <<>> \/ byte = SOF
      invalid == header /\ (~HeaderIsValid(packet) \/ EnOceanSizeOf(packet) = 0)
      complete == size > 0 /\ Len(packet) = size
  IN
  \/ ~started /\ GoOn /\ UNCHANGED <<data, packetSize>>
  \/ started /\ invalid /\ GoOn /\ data' = <<>> /\ UNCHANGED packetSize
  \/ started /\ ~invalid /\ ~complete /\ GoOn /\ data' = packet /\ packetSize' = size
  \/ /\ started /\ complete
     /\ packetSize' = 0
     /\ IF BodyIsValid(packet) THEN data' = packet /\ Call("packet") ELSE data' = <<>> /\ GoOn

ReadByte ==
  /\ Reads /\ line = "ok" /\ unread # <<>>
  /\ unread' = Tail(unread)
  /\ errorReadCount' = 0
  /\ LET byte == Head(unread) IN
       IF family = "enocean" THEN EnOceanNextByte(byte, Append(data, byte))
                             ELSE NextByte(byte, Append(data, byte))
  /\ UNCHANGED <<family, life, tcp, invokeSet, flagVars, requestVars, line, frames, faults,
                 ghostVars>>

\* Mutant: the packet is not cleared after it was handed over.
InvokeReturnsKeeps ==
  /\ listener = "invoke" /\ (invokeSet \/ family = "enocean")
  /\ got' = IF calling = "packet" /\ inSync THEN got + 1 ELSE got
  /\ listener' = "loop" /\ calling' = "nothing"
  /\ UNCHANGED <<family, life, tcp, invokeSet, flagVars, requestVars, parserVars,
                 lineVars, sent, inSync>>

\* processRawPacket() and sendReconnect() wait for the client's answer or fail
\* after a few seconds.  EnOcean also goes on after an exception.
InvokeReturns ==
  /\ listener = "invoke" /\ (invokeSet \/ family = "enocean")
  /\ IF calling = "reconnect" THEN UNCHANGED data ELSE data' = <<>>
  /\ got' = IF calling = "packet" /\ inSync THEN got + 1 ELSE got
  /\ listener' = "loop" /\ calling' = "nothing"
  /\ UNCHANGED <<family, life, tcp, invokeSet, flagVars, requestVars, packetSize,
                 errorReadCount, lineVars, sent, inSync>>

\* Before setInvoke() there is nothing to call: an exception, after which the
\* packet is still in data.
InvokeThrows ==
  /\ listener = "invoke" /\ ~invokeSet /\ family # "enocean"
  /\ listener' = "loop" /\ calling' = "nothing"
  /\ OutOfSync
  /\ UNCHANGED <<family, life, tcp, invokeSet, flagVars, requestVars, parserVars,
                 lineVars>>

Listen ==
  \/ ListenEnds \/ Lost \/ LostStopped \/ Emptied \/ ReadError \/ Silence \/ ReadByte
  \/ InvokeReturns \/ InvokeThrows

ZWaveListen == family = "zwave" /\ Listen
ZigbeeListen == family = "zigbee" /\ Listen
EnOceanListen == family = "enocean" /\ Listen

-----------------------------------------------------------------------------
(* The RPC method emptyReadBuffers, on the TCP thread.                     *)

Called == life = "up" /\ invokeSet /\ tcp = "idle"

\* Set _tryCount and, under the mutex, _emptyReadBuffers; wait.
RequestEmpty ==
  /\ Called
  /\ tryCount' \in TryCounts
  /\ emptyBuffers' = TRUE
  /\ overlapped' = (listener = "clear")
  /\ tcp' = "waiting"
  /\ UNCHANGED emptied

\* Mutant: without the time limit.
RequestEndsUntimed ==
  /\ tcp = "waiting"
  /\ IF emptyBuffers
       THEN UNCHANGED <<tcp, emptied, overlapped>>
       ELSE tcp' = "idle" /\ emptied' = FALSE /\ overlapped' = FALSE
  /\ UNCHANGED <<emptyBuffers, tryCount>>

\* The buffers are empty, or tryCount * 200 ms have passed.
RequestEnds ==
  /\ tcp = "waiting"
  /\ tcp' = "idle"
  /\ emptied' = FALSE /\ overlapped' = FALSE
  /\ UNCHANGED <<emptyBuffers, tryCount>>

EmptyRequest ==
  /\ RequestEmpty \/ RequestEnds
  /\ UNCHANGED <<family, life, listener, invokeSet, calling, flagVars, parserVars,
                 lineVars, ghostVars>>

ZWaveEmptyRequest == family = "zwave" /\ EmptyRequest
ZigbeeEmptyRequest == family = "zigbee" /\ EmptyRequest

Over == life = "ended" /\ UNCHANGED vars

Next ==
  \/ /\ life # "ended"
     /\ \/ Module \/ LineFails \/ LineHeals \/ GiveUp
        \/ ZWaveStart \/ ZigbeeStart \/ EnOceanStart
        \/ SetInvoke
        \/ ZWaveStop \/ ZigbeeStop \/ EnOceanStop
        \/ ZWaveListen \/ ZigbeeListen \/ EnOceanListen
        \/ ZWaveReconnect \/ ZigbeeReconnect \/ EnOceanReconnect
        \/ ZWaveEmptyReadBuffers \/ ZigbeeEmptyReadBuffers
        \/ ZWaveEmptyRequest \/ ZigbeeEmptyRequest
  \/ Over

Spec == Init /\ [][Next]_vars

-----------------------------------------------------------------------------
Bytes == Seq(0 .. 255)

ThreadTypes ==
  /\ family \in DOMAIN Frames
  /\ life \in {"starting", "up", "stopping", "ended"}
  /\ listener \in {"none", "loop", "closed", "clear", "invoke", "ended"}
  /\ tcp \in {"idle", "waiting"}
  /\ calling \in {"nothing", "packet", "nack", "reconnect"}

FlagTypes ==
  {invokeSet, stopCallbackThread, stopped, isOpen, emptyBuffers, emptied, overlapped, inSync}
    \subseteq BOOLEAN

\* An EnOcean header with the largest lengths, and a checksum.
LargestPacket == 255 * 256 + 255 + 255 + 7

ParserTypes ==
  /\ data \in Bytes
  /\ packetSize \in 0 .. LargestPacket
  /\ errorReadCount \in 0 .. (IF family = "zigbee" THEN 5 ELSE 0)

LineTypes ==
  /\ line \in {"ok", "failing"}
  /\ unread \in Bytes
  /\ sent \in Seq(Bytes) /\ got \in Nat
  /\ tryCount \in TryCounts \union {30}
  /\ frames \in 0 .. MaxFrames /\ faults \in 0 .. MaxFaults

\* The types of the variables; Zigbee counts up to five errors.
TypeOK == ThreadTypes /\ FlagTypes /\ ParserTypes /\ LineTypes

\* As long as no byte is lost the client gets every frame, whole and in order,
\* whatever bytes it is made of, and nothing else; when all bytes are read no
\* frame is left over.
EveryFrame ==
  inSync =>
    /\ calling = "packet" => got < Len(sent) /\ data = sent[got + 1]
    /\ unread = <<>> /\ listener = "loop" => got = Len(sent)

\* The interface is a channel of frames: the client is busy while invoke() was
\* called for a packet.
Channel ==
  INSTANCE FrameChannel
    WITH AllFrames <- UNION {Frames[f] : f \in DOMAIN Frames},
         client <- IF calling = "packet" THEN data ELSE <<>>

\* A packet is handed over as it was sent, in its turn, and no frame is abandoned,
\* unless bytes were lost since the last silence.
ImplementsFrameChannel == Channel!Spec

\* emptyReadBuffers returns early when the buffers have been emptied since; or
\* it was called when an older request had just been served, whose end it takes
\* for its own.
EarlyMeansEmptied == tcp = "waiting" /\ ~emptyBuffers => emptied \/ overlapped

\* A packet that was begun is handed over or abandoned, unless the client has
\* the buffers emptied again and again.
Resynchronises ==
  data # <<>> ~> data = <<>> \/ stopCallbackThread \/ emptyBuffers

\* emptyReadBuffers returns, also when nobody is listening.
CallsReturn == tcp = "waiting" ~> tcp = "idle"

\* The destructor returns.
StopEnds == life = "stopping" ~> life = "ended"

\* A lost device is opened again and, but for EnOcean, the client is told.
Recovers ==
  listener = "closed" ~>
    (IsOpen /\ (calling = "reconnect" \/ family = "enocean")) \/ stopCallbackThread

\* Threads that can run do run, time passes and the device is plugged in again.
Fairness ==
  /\ WF_vars(Start) /\ WF_vars(SetInvoke) /\ WF_vars(Joined)
  /\ WF_vars(Listen) /\ WF_vars(EmptyReadBuffers)
  /\ WF_vars(family # "enocean" /\ Reconnect) /\ WF_vars(EnOceanReconnect)
  /\ WF_vars(tcp # "idle" /\ EmptyRequest)
  /\ WF_vars(LineHeals)

FairSpec == Spec /\ Fairness
=============================================================================

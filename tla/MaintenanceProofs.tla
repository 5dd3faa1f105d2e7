------------------------- MODULE MaintenanceProofs -------------------------
(***************************************************************************)
(* Proofs about Maintenance, for any number of calls and faults: a server  *)
(* with TLS uses the certificates of one call, which stay; the status UPnP *)
(* announces is that of the server; the shutdown leaves nothing running.   *)
(* What is said about the files, and which thread may wait for which, also *)
(* holds when the shutdown meets a call or the restart (`met`); what is    *)
(* said about UPnP does not.                                               *)
(***************************************************************************)
EXTENDS Maintenance, TLAPS

OfCall(call) == [f \in Files |-> call]
Complete == files["key"] # 0

-----------------------------------------------------------------------------
\* Where UPnP::stop() returns to, and the port that start() chooses.
Stopping == {"upnpStop", "upnpFlag", "upnpJoin"}

Returns ==
  /\ pc["main"] \in Stopping => after["main"] = "clearFlag"
  /\ pc["maintenance"] \in Stopping => after["maintenance"] \in {"stopServer", "clearFlag"}
  /\ pc["tcp"] \in Stopping => after["tcp"] = "answer"
  /\ pc["signal"] \in Stopping => after["signal"] = "stopServer"

PortIsSetting ==
  /\ \A t \in {"main", "maintenance"} :
       pc[t] \in {"certificates", "listen"} => serverInfo.port = "port"
  /\ server.state = "running" => server.port = "port"

-----------------------------------------------------------------------------
\* The files are written in order by the call that runs, which began without
\* them all: so the last one is of the same call as the others.
WrittenInOrder ==
  /\ Complete => \E call \in 1 .. MaxCalls : files = OfCall(call)
  /\ pc["tcp"] \in Files => ~Complete /\ calls > 0
  /\ pc["tcp"] \in {"crt", "key"} => files["ca"] = calls
  /\ pc["tcp"] = "key" => files["crt"] = calls
  /\ pc["tcp"] \in {"success", "answer", "launch"} \union Stopping => Complete

\* While start() has looked at the files they do not change.
LookedAt ==
  \A t \in {"main", "maintenance"} : pc[t] = "listen" => unconfigured = Missing(files)

\* With all files there a call would only be accepted by a server that restart()
\* has not stopped yet.
NotTwice ==
  Complete /\ server.state = "running" /\ unconfigured =>
    \/ pc["tcp"] \notin {"idle"} \union Files
    \/ pc["maintenance"] \in {"restart", "stopServer", "crashed"}
    \/ pc["maintenance"] \in Stopping /\ after["maintenance"] = "stopServer"

TlsOfOneCall ==
  \A s \in {serverInfo, server} :
    s.tls => \E call \in 1 .. MaxCalls : s.certificates = OfCall(call)

\* What holds of the files also after a crash, since the process may be killed.
FilesInv == early \/ (WrittenInOrder /\ LookedAt /\ NotTwice /\ TlsOfOneCall)

-----------------------------------------------------------------------------
\* A call is accepted by a gateway that is up, and is the only thing that starts the
\* maintenance thread.
CallThenRestart ==
  /\ pc["main"] # "run" =>
       pc["tcp"] = "idle" /\ ~Maintaining /\ pc["signal"] \in {"idle", "queued"}
  /\ pc["tcp"] # "idle" => ~Maintaining
  /\ Maintaining => Complete

\* Once the shutdown has stopped the server, only the restart it met starts another
\* one, which finds all files and accepts no call: so there is no second restart.
Down == {"reset", "joinMaintenance", "destroy", "done"}

NothingFollows ==
  /\ pc["signal"] \in Down =>
       pc["tcp"] = "idle" /\ (server.state = "running" => ~unconfigured)
  /\ pc["signal"] \in {"destroy", "done"} => ~Maintaining
  /\ pc["signal"] = "done" => server.state = "none"

MeetInv == early \/ Crashed \/ (CallThenRestart /\ NothingFollows)

-----------------------------------------------------------------------------
\* One thread at a time changes the server or UPnP, ...
OneAtATime ==
  pc["tcp"] # "idle" \/ Maintaining => pc["signal"] = "idle"

\* ... and where it is says whether the responder runs: from the end of its start
\* to the call of its stop, which tells it to end and joins it.
Running == listening \in {"loop", "turn"}
Silent == stopServer /\ listening = "none"
Responding == ~stopServer /\ Running

SilentLabels ==
  {"create", "start", "certificates", "listen", "startUpnp", "clearFlag", "answer",
   "launch", "restart", "stopServer", "waitForServer", "reset", "joinMaintenance",
   "destroy"}

ResponderFollowsPc ==
  /\ \A t \in Threads :
       /\ pc[t] \in SilentLabels => Silent
       /\ pc[t] = "spawn" => ~stopServer /\ listening = "none"
       /\ pc[t] = "upnpFlag" => Responding
       /\ pc[t] = "upnpJoin" => stopServer /\ (Running \/ listening = "ended")
       /\ pc[t] \in Stopping \union {"clearFlag", "spawn"} => upnp
  /\ (\A t \in Threads : pc[t] \notin {"spawn", "upnpJoin"}) => Silent \/ Responding
  /\ pc["signal"] = "done" => Silent
  /\ upnp \/ Silent

\* main and restart() call stop() when there is nothing to stop.
StopsInVain ==
  \A t \in {"main", "maintenance"} :
    /\ pc[t] = "upnpStop" => Silent
    /\ pc[t] \notin {"upnpFlag", "upnpJoin"}

\* There is a server object while the responder runs, ...
ServerExists ==
  rpcServer \/ pc["main"] = "create" \/ pc["signal"] \in {"joinMaintenance", "destroy", "done"}

\* ... and what it announces is its status.
PacketsAreTrue == Running /\ socket => packets = SetPackets
SocketOfResponder == socket => Running

TurnInv ==
  \/ early \/ met
  \/ Crashed
  \/ /\ OneAtATime /\ ResponderFollowsPc /\ StopsInVain
     /\ ServerExists /\ SocketOfResponder /\ PacketsAreTrue

\* The process goes on after neither.
DoneIsNotCrashed == pc["signal"] = "done" => ~Crashed

IInv ==
  TypeOK /\ Returns /\ PortIsSetting /\ FilesInv /\ MeetInv /\ TurnInv /\ DoneIsNotCrashed

-----------------------------------------------------------------------------
LEMMA Initial == Init => IInv
<1> SUFFICES ASSUME Init PROVE IInv
  OBVIOUS
<1> USE DEF Init, NoFiles
<1>1. ThreadTypes
  BY DEF ThreadTypes, BootLabels, Threads, Labels
<1>2. ServerTypes
  BY BoundsAssumption DEF ServerTypes, Servers, NoServer
<1>3. FlagTypes
  BY DEF FlagTypes
<1>6. UpnpTypes
  BY BoundsAssumption DEF UpnpTypes, Packets, NoPackets
<1>4. FilesInv
  BY DEF FilesInv, WrittenInOrder, LookedAt, NotTwice, TlsOfOneCall, Complete, NoServer,
    BootLabels, Files, Stopping
<1>5. MeetInv
  BY DEF MeetInv, CallThenRestart, NothingFollows, Down, Maintaining, BootLabels
<1>7. TurnInv
  BY DEF TurnInv, OneAtATime, ResponderFollowsPc, StopsInVain, ServerExists, Running,
    SocketOfResponder, PacketsAreTrue, Silent, SilentLabels, Stopping, Maintaining,
    BootLabels, Threads
<1>8. Returns /\ PortIsSetting
  BY DEF Returns, PortIsSetting, Stopping, BootLabels, NoServer
<1>9. DoneIsNotCrashed
  BY DEF DoneIsNotCrashed, BootLabels
<1> QED BY <1>1, <1>2, <1>3, <1>4, <1>5, <1>6, <1>7, <1>8, <1>9 DEF IInv, TypeOK

-----------------------------------------------------------------------------
\* The actions that several threads share.
Shared(t) ==
  \/ Start(t) \/ UpnpStop(t)
  \/ \E done \in {"run", "done"} : UpnpStart(t, done)
  \/ \E next \in {"start", "reset"} : StopServer(t, next)

LEMMA ServerKeepsType ==
  ASSUME ServerTypes,
         \/ \E t \in Threads : Shared(t)
         \/ server' = NoServer /\ serverInfo' \in {serverInfo, NoServer} /\ UNCHANGED <<files, calls>>
  PROVE  ServerTypes'
<1> USE DEF ServerTypes, serverVars, countVars
<1>0. NoServer \in Servers
  BY BoundsAssumption DEF Servers, NoServer, NoFiles
<1>1. CASE server' = NoServer /\ serverInfo' \in {serverInfo, NoServer} /\ UNCHANGED <<files, calls>>
  BY <1>0, <1>1
<1>2. ASSUME NEW t \in Threads, Shared(t)
      PROVE  ServerTypes'
  <2>1. CASE StartBegins(t)
    BY <2>1, <1>0 DEF StartBegins, Servers
  <2>2. CASE LookForCertificates(t)
    <3>1. (~Missing(files)) \in BOOLEAN
      BY DEF Missing
    <3> QED BY <2>2, <3>1 DEF LookForCertificates, Servers
  <2>3. CASE StartServer(t)
    BY <2>3, <1>0 DEF StartServer, Servers
  <2>4. CASE UpnpStop(t)
    BY <2>4 DEF UpnpStop
  <2>5. CASE \E done \in {"run", "done"} : UpnpStart(t, done)
    BY <2>5 DEF UpnpStart
  <2>6. CASE \E next \in {"start", "reset"} : StopServer(t, next)
    BY <2>6, <1>0 DEF StopServer, Servers
  <2> QED BY <1>2, <2>1, <2>2, <2>3, <2>4, <2>5, <2>6 DEF Shared, Start
<1> QED BY <1>1, <1>2

LEMMA ThreadsKeepTypes ==
  ASSUME ThreadTypes, Next
  PROVE  ThreadTypes'
<1> USE DEF ThreadTypes, Goto, Threads, Labels
<1>1. ASSUME NEW t \in Threads, Shared(t)
      PROVE  ThreadTypes'
  <2>1. CASE Start(t)
    BY <2>1 DEF Start, StartBegins, LookForCertificates, StartServer
  <2>2. CASE UpnpStop(t)
    BY <2>2 DEF UpnpStop
  <2>3. CASE \E done \in {"run", "done"} : UpnpStart(t, done)
    BY <2>3 DEF UpnpStart
  <2>4. CASE \E next \in {"start", "reset"} : StopServer(t, next)
    BY <2>4 DEF StopServer
  <2> QED BY <1>1, <2>1, <2>2, <2>3, <2>4 DEF Shared
<1>2. CASE StartUp
  BY <1>2, <1>1 DEF StartUp, Shared
<1>3. CASE PacketReceived
  BY <1>3, <1>1 DEF PacketReceived, Configure, Write, CallStop, Shared, Files
<1>4. CASE Restart
  BY <1>4, <1>1 DEF Restart, CallStop, Shared
<1>5. CASE Terminate
  BY <1>5, <1>1 DEF Terminate, QueueShutdown, CallStop, Shared
<1>6. CASE Listen
  BY <1>6 DEF Listen, ListenTurn, OpenSocket, SocketFails, SendNotify, NothingToDo, ListenEnds
<1>7. CASE Kill
  BY <1>7 DEF Kill, BootLabels
<1>8. CASE Rests
  BY <1>8 DEF Rests, vars
<1> QED BY <1>2, <1>3, <1>4, <1>5, <1>6, <1>7, <1>8 DEF Next

LEMMA ServerTypesKept ==
  ASSUME ServerTypes, Next
  PROVE  ServerTypes'
<1>1. \A t \in Threads : Shared(t) => ServerTypes'
  BY ServerKeepsType
<1>2. server' = NoServer /\ serverInfo' \in {serverInfo, NoServer} /\ UNCHANGED <<files, calls>>
        => ServerTypes'
  BY ServerKeepsType
<1>3. UNCHANGED <<files, serverInfo, server, calls>> => ServerTypes'
  BY DEF ServerTypes
<1>4. CASE StartUp
  BY <1>1, <1>3, <1>4 DEF StartUp, Shared, Threads, serverVars, countVars
<1>5. CASE PacketReceived
  <2>1. CASE Configure
    BY <2>1, BoundsAssumption DEF Configure, Write, ServerTypes, serverVars, countVars,
      Files
  <2> QED BY <1>1, <1>3, <1>5, <2>1 DEF PacketReceived, Shared, Threads, serverVars,
      countVars
<1>6. CASE Restart
  BY <1>1, <1>3, <1>6 DEF Restart, Shared, Threads, serverVars, countVars
<1>7. CASE Terminate
  BY <1>1, <1>2, <1>3, <1>7
    DEF Terminate, QueueShutdown, Shared, Threads, serverVars, countVars
<1>8. CASE Listen
  BY <1>3, <1>8
    DEF Listen, ListenTurn, OpenSocket, SocketFails, SendNotify, NothingToDo, ListenEnds, serverVars, countVars
<1>9. CASE Kill
  BY <1>2, <1>9 DEF Kill
<1>10. CASE Rests
  BY <1>3, <1>10 DEF Rests, vars, serverVars, countVars
<1> QED BY <1>4, <1>5, <1>6, <1>7, <1>8, <1>9, <1>10 DEF Next

LEMMA FlagTypesKept ==
  ASSUME FlagTypes, Next
  PROVE  FlagTypes'
<1> USE DEF FlagTypes, serverVars, processVars, upnpVars, countVars
<1>1. ASSUME NEW t \in Threads, Shared(t)
      PROVE  FlagTypes'
  <2>1. (Missing(files)) \in BOOLEAN
    BY DEF Missing
  <2>2. CASE Start(t)
    BY <2>1, <2>2 DEF Start, StartBegins, LookForCertificates, StartServer
  <2>3. CASE UpnpStop(t)
    BY <2>3 DEF UpnpStop
  <2>4. CASE \E done \in {"run", "done"} : UpnpStart(t, done)
    BY <2>4 DEF UpnpStart
  <2>5. CASE \E next \in {"start", "reset"} : StopServer(t, next)
    BY <2>5 DEF StopServer
  <2> QED BY <1>1, <2>2, <2>3, <2>4, <2>5 DEF Shared
<1>2. CASE StartUp
  BY <1>1, <1>2 DEF StartUp, Shared, Threads
<1>3. CASE PacketReceived
  <2>1. /\ (early \/ Maintaining \/ pc["main"] # "run") \in BOOLEAN
        /\ (met \/ pc["signal"] # "idle") \in BOOLEAN
    OBVIOUS
  <2> QED BY <1>1, <1>3, <2>1 DEF PacketReceived, Configure, Write, Shared, Threads
<1>4. CASE Restart
  BY <1>1, <1>4 DEF Restart, Shared, Threads
<1>5. CASE Terminate
  <2>1. (met \/ Maintaining \/ pc["tcp"] # "idle") \in BOOLEAN
    OBVIOUS
  <2> QED BY <1>1, <1>5, <2>1 DEF Terminate, QueueShutdown, Shared, Threads
<1>6. CASE Listen
  BY <1>6 DEF Listen, ListenTurn, OpenSocket, SocketFails, SendNotify, NothingToDo, ListenEnds
<1>7. CASE Kill
  BY <1>7 DEF Kill
<1>8. CASE Rests
  BY <1>8 DEF Rests, vars
<1> QED BY <1>2, <1>3, <1>4, <1>5, <1>6, <1>7, <1>8 DEF Next

LEMMA UpnpTypesKept ==
  ASSUME UpnpTypes, Next
  PROVE  UpnpTypes'
<1> USE DEF UpnpTypes, serverVars, processVars, upnpVars, countVars
<1>1. ASSUME NEW t \in Threads, Shared(t)
      PROVE  UpnpTypes'
  <2>1. CASE Start(t)
    BY <2>1, BoundsAssumption DEF Start, StartBegins, LookForCertificates, StartServer
  <2>2. CASE UpnpStop(t)
    BY <2>2 DEF UpnpStop
  <2>3. CASE \E done \in {"run", "done"} : UpnpStart(t, done)
    BY <2>3 DEF UpnpStart
  <2>4. CASE \E next \in {"start", "reset"} : StopServer(t, next)
    BY <2>4 DEF StopServer
  <2> QED BY <1>1, <2>1, <2>2, <2>3, <2>4 DEF Shared
<1>2. CASE StartUp
  BY <1>1, <1>2 DEF StartUp, Shared, Threads
<1>3. CASE PacketReceived
  BY <1>1, <1>3 DEF PacketReceived, Configure, Write, Shared, Threads
<1>4. CASE Restart
  BY <1>1, <1>4 DEF Restart, Shared, Threads
<1>5. CASE Terminate
  BY <1>1, <1>5 DEF Terminate, QueueShutdown, Shared, Threads
<1>6. CASE Listen
  <2>1. SetPackets \in Packets
    BY DEF SetPackets, Packets
  <2> QED BY <1>6, <2>1, BoundsAssumption
        DEF Listen, ListenTurn, OpenSocket, SocketFails, SendNotify, NothingToDo, ListenEnds
<1>7. CASE Kill
  BY <1>7, BoundsAssumption DEF Kill, Packets, NoPackets
<1>8. CASE Rests
  BY <1>8 DEF Rests, vars
<1> QED BY <1>2, <1>3, <1>4, <1>5, <1>6, <1>7, <1>8 DEF Next

LEMMA TypePreserved ==
  ASSUME TypeOK, [Next]_vars
  PROVE  TypeOK'
<1>1. CASE Next
  BY <1>1, ThreadsKeepTypes, ServerTypesKept, FlagTypesKept, UpnpTypesKept DEF TypeOK
<1>2. CASE UNCHANGED vars
  BY <1>2 DEF vars, processVars, serverVars, upnpVars, countVars, TypeOK, ThreadTypes,
    ServerTypes, FlagTypes, UpnpTypes
<1> QED BY <1>1, <1>2

-----------------------------------------------------------------------------
(* The steps, and what they rely on.                                       *)

Step ==
  /\ pc["signal"] # "done"
  /\ StartUp \/ PacketReceived \/ Restart \/ Terminate \/ Listen

\* What holds also when the shutdown meets a call or the restart, ...
Meeting ==
  /\ ~early /\ ~Crashed /\ Returns
  /\ WrittenInOrder /\ LookedAt /\ NotTwice /\ TlsOfOneCall
  /\ CallThenRestart /\ NothingFollows

\* ... and what only holds when it does not.
Orderly ==
  /\ Meeting /\ ~met
  /\ OneAtATime /\ ResponderFollowsPc /\ StopsInVain
  /\ ServerExists /\ SocketOfResponder /\ PacketsAreTrue

LEMMA FlagsStay ==
  ASSUME FlagTypes, Next
  PROVE  (~early' => ~early) /\ (~met' => ~met)
<1>0. early \in BOOLEAN /\ met \in BOOLEAN
  BY DEF FlagTypes
<1>1. CASE Kill
  BY <1>1 DEF Kill
<1> USE DEF countVars
<1>2. CASE Rests
  BY <1>2 DEF Rests, vars
<1>3. \A t \in Threads : Shared(t) => early' = early /\ met' = met
  BY DEF Shared, Start, StartBegins, LookForCertificates, StartServer, UpnpStop, UpnpStart,
    StopServer
<1>4. CASE StartUp
  BY <1>3, <1>4 DEF StartUp, Shared, Threads
<1>5. CASE PacketReceived
  BY <1>0, <1>3, <1>5 DEF PacketReceived, Configure, Write, Shared, Threads
<1>6. CASE Restart
  BY <1>3, <1>6 DEF Restart, Shared, Threads
<1>7. CASE Terminate
  BY <1>0, <1>3, <1>7 DEF Terminate, QueueShutdown, Shared, Threads
<1>8. CASE Listen
  BY <1>8 DEF Listen, ListenTurn, OpenSocket, SocketFails, SendNotify, NothingToDo, ListenEnds
<1> QED BY <1>1, <1>2, <1>4, <1>5, <1>6, <1>7, <1>8 DEF Next

LEMMA StepIsOrderly ==
  ASSUME IInv, Next, ~early'
  PROVE  \/ Meeting /\ Step /\ (~met' => Orderly)
         \/ Kill
         \/ UNCHANGED vars
BY FlagsStay DEF IInv, TypeOK, FilesInv, MeetInv, TurnInv, Meeting, Orderly, Step, Next, Rests

\* The responder's steps leave the others alone, unless it finds no server.
LEMMA ListenFrame ==
  ASSUME Listen
  PROVE  /\ UNCHANGED <<after, enableUpnp, rpcServer, upnp, files, unconfigured, serverInfo,
                        server, stopServer, calls, early, met>>
         /\ \/ pc' = pc
            \/ ~rpcServer /\ Running /\ pc' = [pc EXCEPT !["main"] = "crashed"]
         /\ Running /\ (Running' \/ (stopServer /\ listening' = "ended"))
<1> USE DEF Running, processVars, serverVars, countVars
<1>1. CASE OpenSocket
  BY <1>1 DEF OpenSocket
<1>2. CASE ListenTurn \/ SocketFails \/ SendNotify \/ NothingToDo
  BY <1>2 DEF ListenTurn, SocketFails, SendNotify, NothingToDo
<1>3. CASE ListenEnds
  BY <1>3 DEF ListenEnds
<1> QED BY <1>1, <1>2, <1>3 DEF Listen

LEMMA ReturnsKept ==
  ASSUME ThreadTypes, Returns, Next
  PROVE  Returns'
<1> USE DEF Returns, Stopping, Goto, ThreadTypes, Threads
<1>1. CASE StartUp
  BY <1>1 DEF StartUp, Start, StartBegins, LookForCertificates, StartServer, UpnpStop, UpnpStart
<1>2. CASE PacketReceived
  BY <1>2 DEF PacketReceived, Configure, Write, CallStop, UpnpStop, Files
<1>3. CASE Restart
  BY <1>3 DEF Restart, Start, StartBegins, LookForCertificates, StartServer, UpnpStop,
    UpnpStart, StopServer, CallStop
<1>4. CASE Terminate
  BY <1>4 DEF Terminate, QueueShutdown, StopServer, CallStop, UpnpStop
<1>5. CASE Listen
  BY <1>5, ListenFrame
<1>6. CASE Kill
  BY <1>6 DEF Kill, BootLabels
<1>7. CASE Rests
  BY <1>7 DEF Rests, vars
<1> QED BY <1>1, <1>2, <1>3, <1>4, <1>5, <1>6, <1>7 DEF Next

LEMMA PortKept ==
  ASSUME ThreadTypes, ServerTypes, Returns, PortIsSetting, Next
  PROVE  PortIsSetting'
<1> USE DEF PortIsSetting, Goto, ThreadTypes, Threads, ServerTypes, Servers, serverVars
<1>1. ASSUME NEW t \in {"main", "maintenance"}, Start(t)
      PROVE  PortIsSetting'
  <2>1. CASE StartBegins(t)
    BY <2>1 DEF StartBegins, NoServer
  <2>2. CASE LookForCertificates(t)
    BY <2>2 DEF LookForCertificates
  <2>3. CASE StartServer(t)
    BY <2>3 DEF StartServer, NoServer
  <2> QED BY <1>1, <2>1, <2>2, <2>3 DEF Start
<1>2. CASE StartUp /\ ~Start("main")
  BY <1>2 DEF StartUp, UpnpStop, UpnpStart, Returns, Stopping
<1>3. CASE PacketReceived
  BY <1>3 DEF PacketReceived, Configure, Write, CallStop, UpnpStop
<1>4. CASE Restart /\ ~Start("maintenance")
  BY <1>4 DEF Restart, UpnpStop, UpnpStart, StopServer, CallStop, NoServer, Returns, Stopping
<1>5. CASE Terminate
  BY <1>5 DEF Terminate, QueueShutdown, StopServer, CallStop, UpnpStop, NoServer
<1>6. CASE Listen
  BY <1>6, ListenFrame
<1>7. CASE Kill
  BY <1>7 DEF Kill, BootLabels, NoServer
<1>8. CASE Rests
  BY <1>8 DEF Rests, vars
<1> QED BY <1>1, <1>2, <1>3, <1>4, <1>5, <1>6, <1>7, <1>8 DEF Next, StartUp, Restart

-----------------------------------------------------------------------------
(* The files.                                                              *)

\* Only configure() writes files, and only the TCP thread makes its steps.
LEMMA OthersDoNotWrite ==
  ASSUME ThreadTypes, Step, ~PacketReceived
  PROVE  /\ UNCHANGED <<files, calls>>
         /\ pc'["tcp"] = pc["tcp"]
<1> USE DEF ThreadTypes, Goto, Threads, serverVars, countVars
<1>1. ASSUME NEW t \in Threads \ {"tcp"}, Shared(t)
      PROVE  UNCHANGED <<files, calls>> /\ pc'["tcp"] = pc["tcp"]
  BY <1>1 DEF Shared, Start, StartBegins, LookForCertificates, StartServer, UpnpStop,
    UpnpStart, StopServer
<1>2. CASE StartUp
  BY <1>1, <1>2 DEF StartUp, Shared
<1>3. CASE Restart
  BY <1>1, <1>3 DEF Restart, CallStop, Shared
<1>4. CASE Terminate
  BY <1>1, <1>4 DEF Terminate, QueueShutdown, CallStop, Shared
<1>5. CASE Listen
  BY <1>5, ListenFrame
<1> QED BY <1>2, <1>3, <1>4, <1>5 DEF Step

LEMMA WrittenInOrderKept ==
  ASSUME IInv, Meeting, Step, ~early'
  PROVE  WrittenInOrder'
<1> USE DEF WrittenInOrder, Complete
<1>1. ThreadTypes /\ ServerTypes /\ WrittenInOrder /\ Returns
  BY DEF IInv, TypeOK, Meeting
<1>2. CASE ~PacketReceived
  BY <1>1, <1>2, OthersDoNotWrite
<1> USE DEF Goto, ThreadTypes, ServerTypes, Threads, Files, OfCall, Stopping
<1>3. CASE PacketReceived /\ ~Configure
  BY <1>1, <1>3 DEF PacketReceived, UpnpStop, CallStop, serverVars, countVars, Returns
<1>4. CASE Configure /\ ~Write
  <2>1. pc["tcp"] = "idle" /\ server.state = "running" /\ unconfigured /\ ~Maintaining
    BY <1>4 DEF Configure
  <2>2. ~Complete
    BY <2>1 DEF Meeting, NotTwice, Maintaining
  <2> QED BY <1>1, <1>4, <2>2, BoundsAssumption DEF Configure, serverVars
<1>5. CASE Write
  <2>1. CASE files' = files /\ pc' = [pc EXCEPT !["tcp"] = "idle"]
    BY <1>1, <1>5, <2>1 DEF Write, countVars
  <2>2. CASE pc["tcp"] \in {"ca", "crt"} /\ files' = [files EXCEPT ![pc["tcp"]] = calls]
    BY <1>1, <1>5, <2>2 DEF Write, countVars
  <2>3. CASE pc["tcp"] = "key" /\ files' = [files EXCEPT !["key"] = calls]
    <3>1. calls \in 1 .. MaxCalls
      BY <1>1, <2>3, BoundsAssumption
    <3>2. files["ca"] = calls /\ files["crt"] = calls
      BY <1>1, <2>3
    <3>3. files' = [f \in Files |-> calls]
      BY <1>1, <2>3, <3>2
    <3>4. pc' = [pc EXCEPT !["tcp"] = "success"]
      BY <1>1, <1>5, <2>3, <3>1 DEF Write
    <3>5. files'["key"] # 0
      BY <3>1, <3>3
    <3> QED BY <1>1, <3>1, <3>3, <3>4, <3>5
  <2> QED BY <1>5, <2>1, <2>2, <2>3 DEF Write
<1> QED BY <1>2, <1>3, <1>4, <1>5

\* All files or not, as start() asks.
LEMMA CompleteMeansNoneMissing ==
  ASSUME WrittenInOrder, ServerTypes
  PROVE  Complete <=> ~Missing(files)
BY BoundsAssumption DEF WrittenInOrder, Complete, OfCall, Missing, Files, ServerTypes

\* While files are written no thread is in start().
LEMMA LookedAtKept ==
  ASSUME IInv, Meeting, Step, ~early'
  PROVE  LookedAt'
<1> USE DEF LookedAt, Goto, ThreadTypes, Threads, processVars, serverVars, countVars
<1>1. ThreadTypes /\ LookedAt /\ Returns
  BY DEF IInv, TypeOK, Meeting
<1>2. ASSUME NEW t \in {"main", "maintenance"}, Start(t)
      PROVE  LookedAt'
  <2>1. \A u \in {"main", "maintenance"} \ {t} : pc[u] \notin {"start", "certificates", "listen"}
    BY <1>2 DEF Meeting, CallThenRestart, Maintaining, Start, StartBegins,
      LookForCertificates, StartServer
  <2>2. CASE StartBegins(t)
    BY <1>1, <2>1, <2>2 DEF StartBegins
  <2>3. CASE LookForCertificates(t)
    BY <1>1, <2>1, <2>3 DEF LookForCertificates, Missing
  <2>4. CASE StartServer(t)
    BY <1>1, <2>1, <2>4 DEF StartServer
  <2> QED BY <1>2, <2>2, <2>3, <2>4 DEF Start
<1>3. CASE PacketReceived
  <2>1. CASE Write
    BY <1>1, <2>1 DEF Write, Meeting, CallThenRestart, Maintaining, Files
  <2>2. CASE ~Write
    BY <1>1, <1>3, <2>2 DEF PacketReceived, Configure, UpnpStop, CallStop, Missing
  <2> QED BY <2>1, <2>2
<1>4. CASE StartUp /\ ~Start("main")
  BY <1>1, <1>4 DEF StartUp, UpnpStop, UpnpStart, Missing, Returns, Stopping
<1>5. CASE Restart /\ ~Start("maintenance")
  BY <1>1, <1>5
    DEF Restart, StopServer, CallStop, UpnpStop, UpnpStart, Missing, Returns, Stopping
<1>6. CASE Terminate
  BY <1>1, <1>6 DEF Terminate, QueueShutdown, StopServer, CallStop, UpnpStop, Missing
<1>7. CASE Listen
  BY <1>1, <1>7, ListenFrame DEF Missing
<1> QED BY <1>2, <1>3, <1>4, <1>5, <1>6, <1>7 DEF Step

\* A server that is started with all files there is configured.
LEMMA NotTwiceKept ==
  ASSUME IInv, Meeting, Step, ~early'
  PROVE  NotTwice'
<1> USE DEF Goto, ThreadTypes, Threads, processVars, serverVars, countVars
<1>1. ThreadTypes /\ ServerTypes /\ NotTwice /\ Returns
  BY DEF IInv, TypeOK, Meeting
<1>0. Complete => ~Missing(files)
  BY <1>1, CompleteMeansNoneMissing DEF Meeting
<1>2. ASSUME NEW t \in {"main", "maintenance"}, Start(t)
      PROVE  NotTwice'
  <2>1. CASE StartBegins(t)
    BY <2>1 DEF StartBegins, NotTwice
  <2>2. CASE LookForCertificates(t)
    BY <2>2, <1>0 DEF LookForCertificates, NotTwice, Complete
  <2>3. CASE StartServer(t)
    <3>1. Complete => ~unconfigured
      BY <1>0, <2>3 DEF Meeting, LookedAt, StartServer
    <3> QED BY <2>3, <3>1 DEF StartServer, NotTwice, Complete
  <2> QED BY <1>2, <2>1, <2>2, <2>3 DEF Start
<1> USE DEF NotTwice, Complete, Stopping
<1>8. ASSUME NEW t, NEW next, StopServer(t, next)
      PROVE  NotTwice'
  <2>1. server'.state # "running"
    BY <1>1, <1>8 DEF StopServer, NoServer, ServerTypes, Servers
  <2> QED BY <2>1
<1>3. CASE PacketReceived
  <2>1. CASE Write
    BY <1>1, <2>1 DEF Write, Files, Meeting, WrittenInOrder, ServerTypes
  <2>2. CASE ~Write
    BY <1>1, <1>3, <2>2 DEF PacketReceived, Configure, UpnpStop, CallStop, Files, Returns
  <2> QED BY <2>1, <2>2
<1>4. CASE StartUp /\ ~Start("main")
  BY <1>1, <1>4 DEF StartUp, UpnpStop, UpnpStart
<1>5. CASE Restart /\ ~Start("maintenance")
  <2>1. Maintaining => pc["tcp"] = "idle"
    BY DEF Meeting, CallThenRestart
  <2>2. CASE StopServer("maintenance", "start")
    BY <1>8, <2>2
  <2>3. CASE ~StopServer("maintenance", "start")
    BY <1>1, <1>5, <2>1, <2>3
      DEF Restart, CallStop, UpnpStop, UpnpStart, Returns, Maintaining
  <2> QED BY <2>2, <2>3
<1>6. CASE Terminate
  <2>1. CASE StopServer("signal", "reset")
    BY <1>8, <2>1
  <2>2. CASE server' = NoServer
    BY <2>2 DEF NoServer
  <2>3. CASE ~StopServer("signal", "reset") /\ server' # NoServer
    <3>1. /\ UNCHANGED <<files, server, unconfigured>>
          /\ UNCHANGED <<pc["tcp"], pc["maintenance"], after["maintenance"]>>
      BY <1>1, <1>6, <2>3 DEF Terminate, QueueShutdown, CallStop, UpnpStop
    <3> QED BY <1>1, <3>1
  <2> QED BY <2>1, <2>2, <2>3
<1>7. CASE Listen
  BY <1>1, <1>7, ListenFrame
<1> QED BY <1>2, <1>3, <1>4, <1>5, <1>6, <1>7 DEF Step

LEMMA TlsKept ==
  ASSUME IInv, Meeting, Step
  PROVE  TlsOfOneCall'
<1> DEFINE Ok(s) == s.tls => \E call \in 1 .. MaxCalls : s.certificates = OfCall(call)
<1> USE DEF OfCall, processVars, serverVars, countVars
<1>1. ServerTypes /\ Ok(serverInfo) /\ Ok(server) /\ Ok(NoServer)
  BY DEF IInv, TypeOK, Meeting, TlsOfOneCall, NoServer
<1>2. SUFFICES Ok(serverInfo') /\ Ok(server')
  BY DEF TlsOfOneCall
<1>3. ASSUME NEW s \in Servers, NEW u, NEW state, u = [s EXCEPT !.state = state], Ok(s)
      PROVE  Ok(u)
  BY <1>3 DEF Servers
<1>4. ASSUME NEW t, Start(t)
      PROVE  Ok(serverInfo') /\ Ok(server')
  <2>1. CASE StartBegins(t)
    BY <2>1, <1>1 DEF StartBegins, NoServer
  <2>2. CASE LookForCertificates(t)
    <3>1. ~Missing(files) => \E call \in 1 .. MaxCalls : files = OfCall(call)
      BY <1>1, CompleteMeansNoneMissing DEF Meeting, WrittenInOrder
    <3> QED BY <2>2, <1>1, <3>1 DEF LookForCertificates, ServerTypes, Servers
  <2>3. CASE StartServer(t)
    BY <2>3, <1>1, <1>3 DEF StartServer, ServerTypes
  <2> QED BY <1>4, <2>1, <2>2, <2>3 DEF Start
<1>5. ASSUME NEW t, NEW next, StopServer(t, next)
      PROVE  Ok(serverInfo') /\ Ok(server')
  BY <1>1, <1>3, <1>5 DEF StopServer, ServerTypes
<1>6. CASE StartUp
  BY <1>1, <1>4, <1>6 DEF StartUp, UpnpStop, UpnpStart
<1>7. CASE PacketReceived
  BY <1>1, <1>7 DEF PacketReceived, Configure, Write, UpnpStop
<1>8. CASE Restart
  BY <1>1, <1>4, <1>5, <1>8 DEF Restart, UpnpStop, UpnpStart
<1>9. CASE Terminate
  BY <1>1, <1>5, <1>9 DEF Terminate, QueueShutdown, UpnpStop
<1>10. CASE Listen
  BY <1>1, <1>10, ListenFrame
<1> QED BY <1>6, <1>7, <1>8, <1>9, <1>10 DEF Step

LEMMA FilesPreserved ==
  ASSUME IInv, [Next]_vars
  PROVE  FilesInv'
<1> SUFFICES ASSUME ~early'
             PROVE  (WrittenInOrder /\ LookedAt /\ NotTwice /\ TlsOfOneCall)'
  BY DEF FilesInv
<1>1. CASE Meeting /\ Step
  BY <1>1, WrittenInOrderKept, LookedAtKept, NotTwiceKept, TlsKept
<1> USE DEF WrittenInOrder, LookedAt, NotTwice, TlsOfOneCall, Complete, Stopping
<1>2. CASE Kill
  <2>1. WrittenInOrder
    BY <1>2 DEF IInv, FilesInv, Kill
  <2> QED BY <1>2, <2>1 DEF Kill, BootLabels, NoServer, Files
<1>3. CASE UNCHANGED vars
  BY <1>3 DEF IInv, FilesInv, vars, processVars, serverVars, upnpVars, countVars, Missing,
    Maintaining
<1> QED BY <1>1, <1>2, <1>3, StepIsOrderly

-----------------------------------------------------------------------------
(* The call, the restart and the shutdown that meets them.                 *)

LEMMA CallThenRestartKept ==
  ASSUME IInv, Meeting, Step, ~early', ~Crashed'
  PROVE  CallThenRestart'
<1> USE DEF CallThenRestart, Maintaining, Complete, Goto, ThreadTypes, Threads, serverVars,
      countVars
<1>1. ThreadTypes /\ CallThenRestart /\ Returns /\ WrittenInOrder
  BY DEF IInv, TypeOK, Meeting
<1>2. CASE StartUp
  BY <1>1, <1>2 DEF StartUp, Start, StartBegins, LookForCertificates, StartServer, UpnpStop,
    UpnpStart, Returns, Stopping
<1>3. CASE PacketReceived
  <2>1. CASE Configure
    BY <1>1, <2>1 DEF Configure, Write, Files
  <2>2. CASE ~Configure
    BY <1>1, <1>3, <2>2 DEF PacketReceived, CallStop, UpnpStop, WrittenInOrder
  <2> QED BY <2>1, <2>2
<1>4. CASE Restart
  BY <1>1, <1>4 DEF Restart, Start, StartBegins, LookForCertificates, StartServer, UpnpStop,
    UpnpStart, StopServer, CallStop
<1>5. CASE Terminate
  BY <1>1, <1>5 DEF Terminate, QueueShutdown, StopServer, CallStop, UpnpStop, Returns, Stopping
<1>6. CASE Listen
  BY <1>1, <1>6, ListenFrame DEF Crashed
<1> QED BY <1>2, <1>3, <1>4, <1>5, <1>6 DEF Step

LEMMA NothingFollowsKept ==
  ASSUME IInv, Meeting, Step, ~early', ~Crashed'
  PROVE  NothingFollows'
<1> USE DEF NothingFollows, Down, Goto, ThreadTypes, Threads, serverVars, countVars
<1>1. /\ ThreadTypes /\ ServerTypes /\ FlagTypes /\ CallThenRestart /\ NothingFollows /\ Returns
      /\ WrittenInOrder /\ pc["signal"] # "done"
  BY DEF IInv, TypeOK, Meeting, Step
<1>2. CASE StartUp
  BY <1>1, <1>2 DEF StartUp, Start, StartBegins, LookForCertificates, StartServer, UpnpStop,
    UpnpStart, CallThenRestart
<1>3. CASE PacketReceived
  BY <1>1, <1>3 DEF PacketReceived, Configure, Write, CallStop, UpnpStop, Files, Maintaining
<1>4. CASE Start("maintenance")
  <2>1. Complete => ~Missing(files)
    BY <1>1, CompleteMeansNoneMissing
  <2>2. Complete
    BY <1>1, <1>4 DEF CallThenRestart, Maintaining, Start, StartBegins, LookForCertificates,
      StartServer
  <2>3. CASE StartBegins("maintenance")
    BY <1>1, <2>3 DEF StartBegins, Maintaining
  <2>4. CASE LookForCertificates("maintenance")
    BY <1>1, <2>1, <2>2, <2>4 DEF LookForCertificates, Maintaining
  <2>5. CASE StartServer("maintenance")
    <3>1. ~unconfigured
      BY <2>1, <2>2, <2>5 DEF Meeting, LookedAt, StartServer
    <3> QED BY <1>1, <2>5, <3>1 DEF StartServer, Maintaining
  <2> QED BY <1>4, <2>3, <2>4, <2>5 DEF Start
<1>5. CASE Restart /\ ~Start("maintenance")
  BY <1>1, <1>5 DEF Restart, UpnpStop, UpnpStart, StopServer, CallStop, NoServer, ServerTypes,
    Servers, Maintaining
<1>6. CASE Terminate
  BY <1>1, <1>6 DEF Terminate, QueueShutdown, StopServer, CallStop, UpnpStop, NoServer,
    Returns, Stopping, Maintaining
<1>7. CASE Listen
  BY <1>1, <1>7, ListenFrame DEF Crashed, Maintaining
<1> QED BY <1>2, <1>3, <1>4, <1>5, <1>6, <1>7 DEF Step

LEMMA MeetPreserved ==
  ASSUME IInv, [Next]_vars
  PROVE  MeetInv'
<1> SUFFICES ASSUME ~early', ~Crashed'
             PROVE  (CallThenRestart /\ NothingFollows)'
  BY DEF MeetInv
<1>1. CASE Meeting /\ Step
  BY <1>1, CallThenRestartKept, NothingFollowsKept
<1> USE DEF CallThenRestart, NothingFollows, Down, Maintaining, Complete, Crashed, Threads
<1>2. CASE Kill
  BY <1>2 DEF Kill, BootLabels, NoServer
<1>3. CASE UNCHANGED vars
  BY <1>3 DEF IInv, MeetInv, vars, processVars, serverVars, upnpVars, countVars
<1> QED BY <1>1, <1>2, <1>3, StepIsOrderly

-----------------------------------------------------------------------------
(* The threads and UPnP.                                                   *)

LEMMA OneAtATimeKept ==
  ASSUME IInv, Orderly, Step, ~early', ~met'
  PROVE  OneAtATime'
<1> USE DEF OneAtATime, CallThenRestart, Maintaining, Goto, ThreadTypes, Threads, countVars
<1>1. ThreadTypes /\ OneAtATime /\ CallThenRestart /\ Returns
  BY DEF IInv, TypeOK, Meeting, Orderly
<1>2. CASE StartUp
  BY <1>1, <1>2 DEF StartUp, Start, StartBegins, LookForCertificates, StartServer, UpnpStop,
    UpnpStart
<1>3. CASE PacketReceived
  BY <1>1, <1>3 DEF PacketReceived, Configure, Write, CallStop, UpnpStop, Files
<1>4. CASE Restart
  BY <1>1, <1>4 DEF Restart, Start, StartBegins, LookForCertificates, StartServer, UpnpStop,
    UpnpStart, StopServer, CallStop
<1>5. CASE Terminate
  BY <1>1, <1>5 DEF Terminate, QueueShutdown, StopServer, CallStop, UpnpStop
<1>6. CASE Listen
  BY <1>1, <1>6, ListenFrame
<1> QED BY <1>2, <1>3, <1>4, <1>5, <1>6 DEF Step

LEMMA StopsInVainKept ==
  ASSUME IInv, Orderly, Step, ~early', ~met'
  PROVE  StopsInVain'
<1> USE DEF StopsInVain, Silent, Goto, ThreadTypes, Threads, SilentLabels, Stopping,
      Maintaining, serverVars, upnpVars, countVars
<1>1. /\ ThreadTypes /\ OneAtATime /\ CallThenRestart /\ ResponderFollowsPc /\ StopsInVain
      /\ Returns
  BY DEF IInv, TypeOK, Meeting, Orderly
<1>2. CASE StartUp
  BY <1>1, <1>2 DEF StartUp, Start, StartBegins, LookForCertificates, StartServer, UpnpStop,
    UpnpStart, Returns, CallThenRestart, ResponderFollowsPc
<1>3. CASE PacketReceived
  BY <1>1, <1>3 DEF PacketReceived, Configure, Write, CallStop, UpnpStop, Files,
    CallThenRestart
<1>4. CASE Restart
  BY <1>1, <1>4 DEF Restart, Start, StartBegins, LookForCertificates, StartServer, UpnpStop,
    UpnpStart, StopServer, CallStop, Returns, CallThenRestart, ResponderFollowsPc
<1>5. CASE Terminate
  BY <1>1, <1>5 DEF Terminate, QueueShutdown, StopServer, CallStop, UpnpStop, OneAtATime,
    CallThenRestart
<1>6. CASE Listen
  BY <1>1, <1>6, ListenFrame DEF Running
<1> QED BY <1>2, <1>3, <1>4, <1>5, <1>6 DEF Step

LEMMA ResponderFollowsPcKept ==
  ASSUME IInv, Orderly, Step, ~early', ~met'
  PROVE  ResponderFollowsPc'
<1> USE DEF Silent, Responding, Running, Goto, ThreadTypes, Threads, SilentLabels, Stopping,
      Maintaining, serverVars, upnpVars, processVars, countVars, ResponderFollowsPc
<1>1. /\ ThreadTypes /\ OneAtATime /\ CallThenRestart /\ ResponderFollowsPc /\ StopsInVain
      /\ Returns
  BY DEF IInv, TypeOK, Meeting, Orderly
<1>7. ASSUME NEW t \in {"main", "maintenance"}, Start(t)
      PROVE  ResponderFollowsPc'
  BY <1>1, <1>7 DEF Start, StartBegins, LookForCertificates, StartServer, CallThenRestart
<1>8. ASSUME NEW t \in {"main", "maintenance"}, NEW done \in {"run", "done"},
             UpnpStart(t, done), done = "run" => t = "main"
      PROVE  ResponderFollowsPc'
  <2>1. CASE pc[t] = "clearFlag"
    BY <1>1, <1>8, <2>1 DEF UpnpStart, OneAtATime, CallThenRestart
  <2>2. CASE pc[t] = "spawn"
    BY <1>1, <1>8, <2>2 DEF UpnpStart, OneAtATime, CallThenRestart
  <2> QED BY <1>8, <2>1, <2>2 DEF UpnpStart
<1>2. CASE StartUp /\ ~Start("main") /\ ~UpnpStart("main", "run")
  BY <1>1, <1>2 DEF StartUp, UpnpStop, CallThenRestart, StopsInVain, Returns
<1>3. CASE PacketReceived
  BY <1>1, <1>3 DEF PacketReceived, Configure, Write, CallStop, UpnpStop, Files, OneAtATime,
    CallThenRestart, StopsInVain, Returns
<1>4. CASE Restart /\ ~Start("maintenance") /\ ~UpnpStart("maintenance", "done")
  BY <1>1, <1>4 DEF Restart, UpnpStop, StopServer, CallStop, OneAtATime, CallThenRestart,
    StopsInVain, Returns
<1>5. CASE Terminate
  BY <1>1, <1>5 DEF Terminate, QueueShutdown, StopServer, CallStop, UpnpStop, OneAtATime,
    CallThenRestart, StopsInVain, Returns
<1>6. CASE Listen
  <2>1. pc' = pc
    BY <1>1, <1>6, ListenFrame DEF IInv, Orderly, ServerExists
  <2>2. CASE Running'
    BY <1>1, <1>6, <2>1, <2>2, ListenFrame
  <2>3. CASE stopServer /\ listening' = "ended"
    BY <1>1, <1>6, <2>1, <2>3, ListenFrame
  <2> QED BY <1>6, <2>2, <2>3, ListenFrame
<1> QED BY <1>2, <1>3, <1>4, <1>5, <1>6, <1>7, <1>8 DEF Step, StartUp, Restart

LEMMA ServerExistsKept ==
  ASSUME IInv, Orderly, Step, ~early', ~met'
  PROVE  ServerExists'
<1> USE DEF Goto, ThreadTypes, Threads, ServerExists, processVars, upnpVars
<1>1. ThreadTypes /\ ServerExists /\ CallThenRestart
  BY DEF IInv, TypeOK, Meeting, Orderly
<1>2. CASE StartUp
  BY <1>1, <1>2 DEF StartUp, Start, StartBegins, LookForCertificates, StartServer, UpnpStop,
    UpnpStart, CallThenRestart
<1>3. CASE PacketReceived
  BY <1>1, <1>3 DEF PacketReceived, Configure, Write, CallStop, UpnpStop
<1>4. CASE Restart
  BY <1>1, <1>4 DEF Restart, Start, StartBegins, LookForCertificates, StartServer, UpnpStop,
    UpnpStart, StopServer, CallStop
<1>5. CASE Terminate
  BY <1>1, <1>5 DEF Terminate, QueueShutdown, StopServer, CallStop, UpnpStop, Step
<1>6. CASE Listen
  BY <1>1, <1>6, ListenFrame DEF Orderly, ResponderFollowsPc, Silent, SilentLabels, Running
<1> QED BY <1>2, <1>3, <1>4, <1>5, <1>6 DEF Step

\* What is said about the socket and the packets changes where the responder is
\* silent.
LEMMA ResponderKept ==
  ASSUME IInv, Orderly, Step, ~early', ~met'
  PROVE  (SocketOfResponder /\ PacketsAreTrue)'
<1> USE DEF Silent, Running, Goto, ThreadTypes, Threads, SilentLabels, SetPackets,
      SocketOfResponder, PacketsAreTrue, serverVars, upnpVars, processVars, countVars
<1>1. /\ ThreadTypes /\ ResponderFollowsPc /\ StopsInVain
      /\ SocketOfResponder /\ PacketsAreTrue
  BY DEF IInv, TypeOK, Orderly
<1>2. ASSUME NEW t \in Threads, Start(t)
      PROVE  (SocketOfResponder /\ PacketsAreTrue)'
  BY <1>1, <1>2 DEF Start, StartBegins, LookForCertificates, StartServer, ResponderFollowsPc
<1>3. ASSUME NEW t \in Threads, UpnpStop(t)
      PROVE  (SocketOfResponder /\ PacketsAreTrue)'
  <2>1. CASE listening' = listening
    BY <1>1, <1>3, <2>1 DEF UpnpStop
  <2>2. CASE listening' # listening
    BY <1>1, <1>3, <2>2 DEF UpnpStop, ResponderFollowsPc
  <2> QED BY <2>1, <2>2
<1>4. ASSUME NEW t \in {"main", "maintenance"}, NEW done, UpnpStart(t, done)
      PROVE  (SocketOfResponder /\ PacketsAreTrue)'
  <2>1. CASE pc[t] = "clearFlag"
    BY <1>1, <1>4, <2>1 DEF UpnpStart
  <2>2. CASE pc[t] = "spawn"
    BY <1>1, <1>4, <2>2 DEF UpnpStart, ResponderFollowsPc
  <2> QED BY <1>4, <2>1, <2>2 DEF UpnpStart
<1>5. CASE StartUp
  BY <1>1, <1>2, <1>3, <1>4, <1>5 DEF StartUp, ResponderFollowsPc
<1>6. CASE PacketReceived
  BY <1>1, <1>3, <1>6 DEF PacketReceived, Configure, Write
<1>7. CASE Restart
  BY <1>1, <1>2, <1>3, <1>4, <1>7 DEF Restart, StopServer
<1>8. CASE Terminate
  BY <1>1, <1>3, <1>8 DEF Terminate, QueueShutdown, StopServer, ResponderFollowsPc
<1>9. CASE Listen
  BY <1>1, <1>9 DEF Listen, ListenTurn, OpenSocket, SocketFails, SendNotify, NothingToDo,
    ListenEnds
<1> QED BY <1>5, <1>6, <1>7, <1>8, <1>9 DEF Step

LEMMA TurnPreserved ==
  ASSUME IInv, [Next]_vars
  PROVE  TurnInv'
<1> SUFFICES ASSUME ~early', ~met', ~Crashed'
             PROVE  TurnInv'
  BY DEF TurnInv
<1>1. CASE Orderly /\ Step
  BY <1>1, OneAtATimeKept, ResponderFollowsPcKept, StopsInVainKept, ServerExistsKept,
    ResponderKept DEF TurnInv
<1> USE DEF OneAtATime, ResponderFollowsPc, StopsInVain, ServerExists, SocketOfResponder,
      PacketsAreTrue, Silent, Responding, Running, SilentLabels, Stopping, Maintaining,
      Crashed, SetPackets, Threads
<1>2. CASE Kill
  BY <1>2 DEF Kill, BootLabels, TurnInv
<1>3. CASE UNCHANGED vars
  BY <1>3 DEF IInv, TurnInv, vars, processVars, serverVars, upnpVars, countVars
<1> QED BY <1>1, <1>2, <1>3, StepIsOrderly

LEMMA DonePreserved ==
  ASSUME IInv, [Next]_vars
  PROVE  DoneIsNotCrashed'
<1> USE DEF DoneIsNotCrashed, Crashed, Goto, ThreadTypes, Threads, Labels
<1>1. ThreadTypes /\ DoneIsNotCrashed /\ Returns
  BY DEF IInv, TypeOK
<1>2. CASE UNCHANGED vars
  BY <1>1, <1>2 DEF vars
<1>3. CASE Kill
  BY <1>3 DEF Kill, BootLabels
<1>4. CASE Step /\ ~Terminate
  <2>1. ASSUME NEW t \in Threads \ {"signal"}, Shared(t)
        PROVE  pc'["signal"] # "done"
    BY <1>1, <1>4, <2>1 DEF Step, Shared, Start, StartBegins, LookForCertificates, StartServer,
      UpnpStop, UpnpStart, StopServer
  <2>2. Listen => pc'["signal"] # "done"
    BY <1>1, <1>4, ListenFrame DEF Step
  <2>3. pc'["signal"] # "done"
    BY <1>1, <1>4, <2>1, <2>2 DEF Step, StartUp, PacketReceived, Configure, Write, Restart,
      CallStop, Shared
  <2> QED BY <2>3
<1>5. CASE Terminate /\ ~Crashed
  <2>1. \A t \in Threads \ {"signal"} : pc'[t] = pc[t]
    BY <1>1, <1>5 DEF Terminate, QueueShutdown, StopServer, CallStop, UpnpStop
  <2> QED BY <1>5, <2>1
<1> QED BY <1>2, <1>3, <1>4, <1>5 DEF Next, Step, Rests

-----------------------------------------------------------------------------
\* The inductive invariant.
THEOREM Invariant == Spec => []IInv
<1>1. IInv /\ [Next]_vars => (Returns /\ PortIsSetting)'
  <2>1. CASE UNCHANGED vars
    BY <2>1 DEF IInv, Returns, PortIsSetting, Stopping, vars, serverVars
  <2> QED BY <2>1, ReturnsKept, PortKept DEF IInv, TypeOK
<1>2. IInv /\ [Next]_vars => IInv'
  BY <1>1, TypePreserved, FilesPreserved, MeetPreserved, TurnPreserved, DonePreserved DEF IInv
<1> QED BY <1>2, Initial, PTL DEF Spec

\* The variables keep their types, and no more calls and faults happen than the
\* bounds allow.
THEOREM TypeCorrect == Spec => []TypeOK
<1>1. IInv => TypeOK
  BY DEF IInv
<1> QED BY <1>1, Invariant, PTL

\* A server with TLS uses the certificates of one configure call, although calls
\* fail half way, the process is killed between two files, and the shutdown comes
\* at any time.
THEOREM CertificatesOfOneCall == Spec => []OneCall
<1>1. IInv => OneCall
  BY DEF IInv, FilesInv, TlsOfOneCall, OfCall, OneCall
<1> QED BY <1>1, Invariant, PTL

\* When terminateProgram() is done neither the server nor the maintenance thread
\* runs, also when it met the restart; nor does UPnP when it did not.
THEOREM ShutdownIsOrderly == Spec => []OrderlyShutdown
<1>1. IInv => OrderlyShutdown
  BY DEF IInv, MeetInv, NothingFollows, Down, TurnInv, DoneIsNotCrashed, ResponderFollowsPc,
    Silent, OrderlyShutdown
<1> QED BY <1>1, Invariant, PTL

\* When the packets are sent, HG-GATEWAY-CONFIGURED is what the server has found, and
\* LOCATION names the port of the running server.
THEOREM AnnouncedStatusIsTrue == Spec => AnnouncesStatus
<1> DEFINE Truthful ==
             SendNotify =>
               \/ early \/ met
               \/ /\ announced'.configured = ~unconfigured
                  /\ server.state = "running" => announced'.location = server.port
<1>1. ASSUME IInv, [Next]_vars, SendNotify, ~early, ~met
      PROVE  /\ announced'.configured = ~unconfigured
             /\ server.state = "running" => announced'.location = server.port
  <2>1. CASE Next /\ ~Crashed
    <3>1. PacketsAreTrue
      BY <1>1, <2>1 DEF IInv, TurnInv
    <3>2. announced' = SetPackets
      BY <1>1, <3>1 DEF PacketsAreTrue, Running, SendNotify
    <3> QED BY <1>1, <3>2 DEF SetPackets, IInv, PortIsSetting
  <2>2. listening' # listening
    BY <1>1 DEF SendNotify
  <2>3. ~UNCHANGED vars
    BY <2>2 DEF vars, upnpVars
  <2>4. CASE Kill /\ Crashed
    <3>1. FALSE
      BY <1>1, <2>4 DEF SendNotify, Kill
    <3> QED BY <3>1
  <2> QED BY <1>1, <2>1, <2>3, <2>4 DEF Next, Rests
<1>2. IInv /\ [Next]_vars => [Truthful]_vars
  BY <1>1
<1> QED BY <1>2, Invariant, PTL DEF Spec, AnnouncesStatus

\* A complete set of certificates is never touched again: the call that wrote it was
\* the last one to be accepted.
THEOREM CertificatesAreFinal == Spec => ConfiguredForGood
<1> DEFINE Final == ~Missing(files) => files' = files \/ early
<1>1. ASSUME IInv, Next
      PROVE  Final
  <2>1. CASE Write
    BY <1>1, <2>1 DEF IInv, FilesInv, WrittenInOrder, Complete, Write, Missing, Files
  <2>2. CASE Step /\ ~PacketReceived
    BY <1>1, <2>2, OthersDoNotWrite DEF IInv, TypeOK
  <2>3. CASE PacketReceived /\ ~Write
    BY <2>3 DEF PacketReceived, Configure, UpnpStop, serverVars
  <2>4. CASE Kill \/ Rests
    BY <2>4 DEF Kill, Rests, vars, serverVars
  <2> QED BY <1>1, <2>1, <2>2, <2>3, <2>4 DEF Next, Step
<1>2. IInv /\ [Next]_vars => [Final]_vars
  BY <1>1
<1> QED BY <1>2, Invariant, PTL DEF Spec, ConfiguredForGood

-----------------------------------------------------------------------------
(* Crashes.                                                                *)

\* From the end of startUp() on there is a UPnP object if the setting says so.
UpnpExists ==
  pc["main"] \in {"create", "start", "certificates", "listen", "startUpnp", "crashed"}
    \/ upnp = enableUpnp

\* The only place where a thread finds a null pointer is the end of a successful call.
LEMMA OrderlyStepCrashesWithoutUpnp ==
  ASSUME IInv, Orderly, Step, UpnpExists, Crashed'
  PROVE  ~enableUpnp' /\ ~Missing(files)'
<1> USE DEF Goto, ThreadTypes, Threads, Crashed, Maintaining, processVars, serverVars
<1>1. /\ ThreadTypes /\ OneAtATime /\ CallThenRestart /\ ResponderFollowsPc /\ StopsInVain
      /\ ServerExists /\ Returns /\ WrittenInOrder /\ ~Crashed
  BY DEF IInv, TypeOK, Meeting, Orderly
<1>2. Complete => ~Missing(files)
  BY CompleteMeansNoneMissing DEF IInv, TypeOK, Meeting, Orderly
<1>3. ASSUME NEW t \in Threads, UpnpStop(t)
      PROVE  FALSE
  BY <1>1, <1>3 DEF UpnpStop, OneAtATime, CallThenRestart, StopsInVain, Returns, Stopping
<1>4. ASSUME NEW t \in {"tcp", "maintenance"}, NEW label \in Labels \ {"crashed"},
             CallStop(t, label), Crashed', UNCHANGED <<enableUpnp, files>>,
             t = "tcp" => pc["tcp"] = "success", t = "maintenance" => Maintaining
      PROVE  ~enableUpnp' /\ ~Missing(files)'
  <2>1. pc["main"] = "run" /\ Complete
    BY <1>1, <1>4 DEF CallThenRestart, WrittenInOrder
  <2>2. upnp = enableUpnp
    BY <2>1 DEF UpnpExists
  <2> QED BY <1>1, <1>2, <1>4, <2>1, <2>2 DEF CallStop, Missing
<1>5. CASE StartUp
  BY <1>1, <1>3, <1>5 DEF StartUp, Start, StartBegins, LookForCertificates, StartServer,
    UpnpStart
<1>6. CASE PacketReceived
  BY <1>1, <1>3, <1>4, <1>6 DEF PacketReceived, Configure, Write, Files, Labels
<1>7. CASE Restart
  BY <1>1, <1>3, <1>4, <1>7 DEF Restart, Start, StartBegins, LookForCertificates,
    StartServer, UpnpStart, StopServer, Labels
<1>8. CASE Terminate
  BY <1>1, <1>3, <1>8 DEF Terminate, QueueShutdown, CallStop, StopServer
<1>9. CASE Listen
  BY <1>1, <1>9, ListenFrame DEF Step, ServerExists, ResponderFollowsPc, Silent, SilentLabels,
    Running
<1> QED BY <1>5, <1>6, <1>7, <1>8, <1>9 DEF Step

LEMMA UpnpExistsKept ==
  ASSUME IInv, UpnpExists, [Next]_vars
  PROVE  UpnpExists'
<1> USE DEF UpnpExists, Goto, ThreadTypes, Threads, processVars
<1>1. ThreadTypes
  BY DEF IInv, TypeOK
<1>2. CASE UNCHANGED vars \/ Rests
  BY <1>2 DEF vars, Rests
<1>3. CASE Kill
  BY <1>3 DEF Kill, BootLabels
<1>4. CASE StartUp
  BY <1>1, <1>4 DEF StartUp, Start, StartBegins, LookForCertificates, StartServer, UpnpStop,
    UpnpStart
<1>5. CASE PacketReceived
  BY <1>1, <1>5 DEF PacketReceived, Configure, Write, CallStop, UpnpStop
<1>6. CASE Restart
  BY <1>1, <1>6 DEF Restart, Start, StartBegins, LookForCertificates, StartServer, UpnpStop,
    UpnpStart, StopServer, CallStop
<1>7. CASE Terminate
  BY <1>1, <1>7 DEF Terminate, QueueShutdown, StopServer, CallStop, UpnpStop
<1>8. CASE Listen
  BY <1>1, <1>8, ListenFrame
<1> QED BY <1>2, <1>3, <1>4, <1>5, <1>6, <1>7, <1>8 DEF Next

\* While changes come one after the other no thread finds a null pointer or joins a
\* thread that another one joins, for any number of calls, faults and kills, unless
\* UPnP is disabled; then the call that crashes has written all files.
THEOREM NoCrashWithoutOverlap == Spec => []CrashNeedsOverlap
<1> DEFINE CInv == UpnpExists /\ CrashNeedsOverlap
<1>1. Init => CInv
  BY DEF Init, BootLabels, UpnpExists, CrashNeedsOverlap, Crashed, Threads
<1>2. ASSUME IInv, CInv, [Next]_vars
      PROVE  CrashNeedsOverlap'
  <2> SUFFICES ASSUME ~early', ~met', Crashed'
               PROVE  ~enableUpnp' /\ ~Missing(files)'
    BY DEF CrashNeedsOverlap
  <2>1. CASE UNCHANGED vars
    BY <1>2, <2>1 DEF vars, countVars, processVars, serverVars, CrashNeedsOverlap, Crashed,
      Missing
  <2>2. CASE Kill
    BY <2>2 DEF Kill, BootLabels, Crashed, Threads
  <2>3. CASE Orderly /\ Step
    BY <1>2, <2>3, OrderlyStepCrashesWithoutUpnp
  <2> QED BY <1>2, <2>1, <2>2, <2>3, StepIsOrderly
<1>3. IInv /\ CInv /\ [Next]_vars => CInv'
  BY <1>2, UpnpExistsKept
<1>4. CInv => CrashNeedsOverlap
  OBVIOUS
<1> QED BY <1>1, <1>3, <1>4, Invariant, PTL DEF Spec
=============================================================================

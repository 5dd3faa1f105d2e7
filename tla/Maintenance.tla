---------------------------- MODULE Maintenance ----------------------------
(***************************************************************************)
(* Remote configuration of a gateway without certificates: configure() on  *)
(* the TCP thread, restart() on the maintenance thread (RpcServer.cpp),    *)
(* the UPnP responder, which they stop and start (UPnP.cpp), the startup   *)
(* and terminateProgram() (main.cpp).                                      *)
(*                                                                         *)
(* A certificate is the number of the configure call that wrote it, 0 if   *)
(* there is no file.                                                       *)
(***************************************************************************)
EXTENDS Integers

CONSTANTS
  MaxCalls,    \* bound: configure calls
  MaxFaults    \* bound: failing starts, failing sockets and kills of the process

ASSUME BoundsAssumption == MaxCalls \in Nat /\ MaxFaults \in Nat

VARIABLES
  enableUpnp,     \* the setting
  pc,             \* where each thread is
  after,          \* where it goes on after UPnP::stop()
  rpcServer,      \* Gd::rpcServer is not null
  upnp,           \* Gd::upnp is not null
  files,          \* ca.crt, gateway.crt and gateway.key
  unconfigured,   \* _unconfigured
  serverInfo,     \* start(): the server it prepares
  server,         \* _tcpServer
  stopServer,     \* UPnP: _stopServer
  listening,      \* UPnP: the listening thread
  socket,         \* UPnP: the socket is open
  packets,        \* UPnP: what the packets say
  announced,      \* UPnP: what was sent last
  calls,          \* configure calls so far
  faults,         \* failing starts and kills so far
  early,          \* a call was accepted before the startup or the restart was done
  met             \* the shutdown met a call or the restart

processVars == <<enableUpnp, rpcServer, upnp>>
serverVars == <<files, unconfigured, serverInfo, server>>
upnpVars == <<stopServer, listening, socket, packets, announced>>
countVars == <<calls, faults, early, met>>
vars == <<pc, after, processVars, serverVars, upnpVars, countVars>>

Threads == {"main", "tcp", "maintenance", "signal"}
Files == {"ca", "crt", "key"}

Missing(certificates) == \E f \in Files : certificates[f] = 0
NoFiles == [f \in Files |-> 0]
NoPackets == [configured |-> FALSE, location |-> "none", portUnconfigured |-> "none"]
NoServer == [state |-> "none", port |-> "none", tls |-> FALSE, certificates |-> NoFiles]

Goto(t, label) == pc' = [pc EXCEPT ![t] = label]

BootLabels == [main |-> "create", tcp |-> "idle", maintenance |-> "none", signal |-> "idle"]

Init ==
  /\ enableUpnp \in BOOLEAN
  /\ pc = BootLabels /\ after = BootLabels
  /\ rpcServer = FALSE /\ upnp = FALSE
  /\ files = NoFiles /\ unconfigured = FALSE
  /\ serverInfo = NoServer /\ server = NoServer
  /\ stopServer = TRUE /\ listening = "none" /\ socket = FALSE
  /\ packets = NoPackets /\ announced = NoPackets
  /\ calls = 0 /\ faults = 0 /\ early = FALSE /\ met = FALSE

\* The process is killed and started again.  The files stay.
Kill ==
  /\ faults < MaxFaults /\ faults' = faults + 1
  /\ pc' = BootLabels /\ after' = BootLabels
  /\ rpcServer' = FALSE /\ upnp' = FALSE
  /\ unconfigured' = FALSE /\ serverInfo' = NoServer /\ server' = NoServer
  /\ stopServer' = TRUE /\ listening' = "none" /\ socket' = FALSE
  /\ packets' = NoPackets /\ announced' = NoPackets
  /\ UNCHANGED <<enableUpnp, files, calls, early, met>>

-----------------------------------------------------------------------------
(* RpcServer::start(), by the main thread and by restart().                *)

\* _unconfigured is cleared, and the port chosen.
StartBegins(t) ==
  /\ pc[t] = "start"
  /\ unconfigured' = FALSE
  /\ serverInfo' = [NoServer EXCEPT !.port = IF unconfigured' THEN "portUnconfigured" ELSE "port"]
  /\ Goto(t, "certificates")
  /\ UNCHANGED <<after, files, server, processVars, upnpVars, countVars>>

\* Mutant: the server is started without TLS.
LookForCertificatesOnly(t) ==
  /\ pc[t] = "certificates"
  /\ unconfigured' = Missing(files)
  /\ serverInfo' = [serverInfo EXCEPT !.certificates = files]
  /\ Goto(t, "listen")
  /\ UNCHANGED <<after, files, server, processVars, upnpVars, countVars>>

LookForCertificates(t) ==
  /\ pc[t] = "certificates"
  /\ unconfigured' = Missing(files)
  /\ serverInfo' = [serverInfo EXCEPT !.tls = ~Missing(files), !.certificates = files]
  /\ Goto(t, "listen")
  /\ UNCHANGED <<after, files, server, processVars, upnpVars, countVars>>

\* The server may fail to start.  Then startUp() queues a shutdown; restart() does
\* not look at the result.
StartServer(t) ==
  /\ pc[t] = "listen"
  /\ \/ /\ server' = [serverInfo EXCEPT !.state = "running"]
        /\ Goto(t, "startUpnp")
        /\ UNCHANGED faults
     \/ /\ server' = NoServer
        /\ faults < MaxFaults /\ faults' = faults + 1
        /\ pc' = [pc EXCEPT ![t] = "startUpnp",
                            !["signal"] = IF t = "main" THEN "queued" ELSE @]
  /\ UNCHANGED <<after, files, unconfigured, serverInfo, processVars, upnpVars, calls, early, met>>

Start(t) == StartBegins(t) \/ LookForCertificates(t) \/ StartServer(t)

-----------------------------------------------------------------------------
(* UPnP::stop() and UPnP::start(), by any thread.                          *)

\* Without UPnP there is no object: only terminateProgram() asks for it.
CallStop(t, label) ==
  IF upnp
    THEN Goto(t, "upnpStop") /\ after' = [after EXCEPT ![t] = label]
    ELSE Goto(t, IF t = "signal" THEN label ELSE "crashed") /\ UNCHANGED after

\* Mutant: stop() waits for a thread that nobody told to end.
UpnpStopSilently(t) ==
  \/ /\ pc[t] = "upnpStop"
     /\ Goto(t, IF stopServer THEN after[t] ELSE "upnpJoin")
     /\ UNCHANGED <<after, processVars, serverVars, upnpVars, countVars>>
  \/ /\ pc[t] = "upnpJoin" /\ listening \in {"none", "ended"}
     /\ listening' = "none"
     /\ Goto(t, after[t])
     /\ UNCHANGED <<after, processVars, serverVars, stopServer, socket, packets,
                    announced, countVars>>

\* Test _stopServer, set it, join the listening thread and say goodbye.  Two
\* threads that join the same thread: anything may happen.
UpnpStop(t) ==
  \/ /\ pc[t] = "upnpStop"
     /\ Goto(t, IF stopServer THEN after[t] ELSE "upnpFlag")
     /\ UNCHANGED <<after, processVars, serverVars, upnpVars, countVars>>
  \/ /\ pc[t] = "upnpFlag"
     /\ stopServer' = TRUE
     /\ Goto(t, "upnpJoin")
     /\ UNCHANGED <<after, processVars, serverVars, listening, socket, packets,
                    announced, countVars>>
  \/ /\ pc[t] = "upnpJoin" /\ listening \in {"none", "ended"}
     /\ listening' = "none"
     /\ announced' = IF socket THEN packets ELSE announced
     /\ Goto(t, after[t])
     /\ UNCHANGED <<after, processVars, serverVars, stopServer, socket, packets, countVars>>
  \/ /\ pc[t] = "upnpJoin"
     /\ \E other \in Threads \ {t} : pc[other] = "upnpJoin"
     /\ Goto(t, "crashed")
     /\ UNCHANGED <<after, processVars, serverVars, upnpVars, countVars>>

\* start() begins with stop(), clears _stopServer and starts the thread.
UpnpStart(t, done) ==
  \/ /\ pc[t] = "clearFlag"
     /\ stopServer' = FALSE
     /\ Goto(t, "spawn")
     /\ UNCHANGED <<after, processVars, serverVars, listening, socket, packets,
                    announced, countVars>>
  \/ /\ pc[t] = "spawn" /\ listening \in {"none", "ended"}
     /\ listening' = "loop"
     /\ Goto(t, done)
     /\ UNCHANGED <<after, processVars, serverVars, stopServer, socket, packets,
                    announced, countVars>>

-----------------------------------------------------------------------------
(* UPnP::listen().  Where it dereferences null the process is "crashed".   *)

\* setPackets(): notify, byebye and answers say the same.  The ports are settings.
SetPackets ==
  [configured |-> ~unconfigured, location |-> "port", portUnconfigured |-> "portUnconfigured"]

\* One turn of the loop begins with the test of _stopServer.
ListenTurn ==
  /\ listening = "loop" /\ ~stopServer
  /\ listening' = "turn"
  /\ UNCHANGED <<pc, after, processVars, serverVars, stopServer, socket, packets, announced,
                 countVars>>

\* getSocketDescriptor() composes the packets; then it may fail.
OpenSocket ==
  /\ listening = "turn" /\ ~socket
  /\ IF rpcServer
       THEN packets' = SetPackets /\ socket' \in BOOLEAN /\ listening' = "loop" /\ UNCHANGED pc
       ELSE pc' = [pc EXCEPT !["main"] = "crashed"] /\ UNCHANGED <<packets, socket, listening>>
  /\ UNCHANGED <<after, processVars, serverVars, stopServer, announced, countVars>>

SocketFails ==
  /\ listening = "turn" /\ socket
  /\ faults < MaxFaults /\ faults' = faults + 1
  /\ socket' = FALSE /\ listening' = "loop"
  /\ UNCHANGED <<pc, after, processVars, serverVars, stopServer, packets, announced, calls,
                 early, met>>

\* Once a minute, or because somebody searches for gateways, also when stop() has
\* been called since the turn began.
SendNotify ==
  /\ listening = "turn" /\ socket
  /\ announced' = packets /\ listening' = "loop"
  /\ UNCHANGED <<pc, after, processVars, serverVars, stopServer, socket, packets, countVars>>

\* select() times out.
NothingToDo ==
  /\ listening = "turn" /\ socket
  /\ listening' = "loop"
  /\ UNCHANGED <<pc, after, processVars, serverVars, stopServer, socket, packets, announced,
                 countVars>>

ListenEnds ==
  /\ listening = "loop" /\ stopServer
  /\ listening' = "ended"
  /\ socket' = FALSE
  /\ UNCHANGED <<pc, after, processVars, serverVars, stopServer, packets, announced, countVars>>

Listen == ListenTurn \/ OpenSocket \/ SocketFails \/ SendNotify \/ NothingToDo \/ ListenEnds

-----------------------------------------------------------------------------
(* The startup, from the creation of the server on.                        *)

StartUp ==
  \/ /\ pc["main"] = "create"
     /\ rpcServer' = TRUE
     /\ Goto("main", IF pc["signal"] = "queued" THEN "startUpnp" ELSE "start")
     /\ UNCHANGED <<after, enableUpnp, upnp, serverVars, upnpVars, countVars>>
  \/ Start("main")
  \/ /\ pc["main"] = "startUpnp"
     /\ upnp' = enableUpnp
     /\ IF enableUpnp
          THEN Goto("main", "upnpStop") /\ after' = [after EXCEPT !["main"] = "clearFlag"]
          ELSE Goto("main", "run") /\ UNCHANGED after
     /\ UNCHANGED <<enableUpnp, rpcServer, serverVars, upnpVars, countVars>>
  \/ UpnpStop("main")
  \/ UpnpStart("main", "run")

-----------------------------------------------------------------------------
(* packetReceived() and configure(), on the TCP thread.                    *)

Maintaining == pc["maintenance"] \notin {"none", "done"}

\* Mutant: what the call does not contain is skipped.
WriteWhatIsThere ==
  /\ pc["tcp"] \in Files
  /\ \E file \in {files, [files EXCEPT ![pc["tcp"]] = calls]} : files' = file
  /\ Goto("tcp", CASE pc["tcp"] = "ca" -> "crt" [] pc["tcp"] = "crt" -> "key" [] OTHER -> "success")
  /\ UNCHANGED <<after, processVars, unconfigured, serverInfo, server, upnpVars, countVars>>

\* Mutant: the certificate is counted after it is written, from 1 on.
WriteNextCall ==
  /\ pc["tcp"] \in Files
  /\ \/ Goto("tcp", "idle") /\ UNCHANGED files
     \/ /\ files' = [files EXCEPT ![pc["tcp"]] = calls + 1]
        /\ Goto("tcp", CASE pc["tcp"] = "ca" -> "crt" [] pc["tcp"] = "crt" -> "key"
                         [] OTHER -> "success")
  /\ UNCHANGED <<after, processVars, unconfigured, serverInfo, server, upnpVars, countVars>>

\* configure() writes what the call contains, one file after the other, and
\* returns an error when it looks for one that is missing.
Write ==
  /\ pc["tcp"] \in Files
  /\ \/ Goto("tcp", "idle") /\ UNCHANGED files
     \/ /\ files' = [files EXCEPT ![pc["tcp"]] = calls]
        /\ Goto("tcp", CASE pc["tcp"] = "ca" -> "crt" [] pc["tcp"] = "crt" -> "key"
                         [] OTHER -> "success")
  /\ UNCHANGED <<after, processVars, unconfigured, serverInfo, server, upnpVars, countVars>>

\* Mutant: any gateway accepts the call.
ConfigureAlways ==
  \/ /\ pc["tcp"] = "idle" /\ server.state = "running"
     /\ calls < MaxCalls /\ calls' = calls + 1
     /\ early' = (early \/ Maintaining \/ pc["main"] # "run")
     /\ met' = (met \/ pc["signal"] # "idle")
     /\ Goto("tcp", "ca")
     /\ UNCHANGED <<after, processVars, serverVars, upnpVars, faults>>
  \/ Write

\* A call is accepted by a gateway that is not configured.
Configure ==
  \/ /\ pc["tcp"] = "idle" /\ server.state = "running" /\ unconfigured
     /\ calls < MaxCalls /\ calls' = calls + 1
     /\ early' = (early \/ Maintaining \/ pc["main"] # "run")
     /\ met' = (met \/ pc["signal"] # "idle")
     /\ Goto("tcp", "ca")
     /\ UNCHANGED <<after, processVars, serverVars, upnpVars, faults>>
  \/ Write

\* After success UPnP is stopped, the answer sent, and restart() started when the
\* previous one is done; ~RpcServer() holds _maintenanceThreadMutex.
PacketReceived ==
  \/ Configure
  \/ /\ pc["tcp"] = "success"
     /\ CallStop("tcp", "answer")
     /\ UNCHANGED <<processVars, serverVars, upnpVars, countVars>>
  \/ UpnpStop("tcp")
  \/ /\ pc["tcp"] = "answer"
     /\ Goto("tcp", "launch")
     /\ UNCHANGED <<after, processVars, serverVars, upnpVars, countVars>>
  \/ /\ pc["tcp"] = "launch"
     /\ ~Maintaining /\ pc["signal"] # "joinMaintenance"
     /\ pc' = [pc EXCEPT !["tcp"] = "idle", !["maintenance"] = "restart"]
     /\ UNCHANGED <<after, processVars, serverVars, upnpVars, countVars>>

-----------------------------------------------------------------------------
(* RpcServer::stop() and restart().                                        *)

\* TcpServer::Stop(), and wait for the TCP thread: of the server that is there now,
\* which may be one that another thread has started meanwhile.
StopServer(t, next) ==
  \/ /\ pc[t] = "stopServer"
     /\ server' = [server EXCEPT !.state = IF @ = "running" THEN "stopping" ELSE @]
     /\ Goto(t, "waitForServer")
     /\ UNCHANGED <<after, processVars, files, unconfigured, serverInfo, upnpVars, countVars>>
  \/ /\ pc[t] = "waitForServer" /\ pc["tcp"] = "idle" /\ server.state # "running"
     /\ server' = NoServer
     /\ Goto(t, next)
     /\ UNCHANGED <<after, processVars, files, unconfigured, serverInfo, upnpVars, countVars>>

\* Mutant: UPnP is started before the server.
RestartUpnpEarly ==
  \/ /\ pc["maintenance"] = "restart"
     /\ CallStop("maintenance", "stopServer")
     /\ UNCHANGED <<processVars, serverVars, upnpVars, countVars>>
  \/ StopServer("maintenance", "startUpnp")
  \/ /\ pc["maintenance"] = "startUpnp" /\ server.state = "none"
     /\ CallStop("maintenance", "clearFlag")
     /\ UNCHANGED <<processVars, serverVars, upnpVars, countVars>>
  \/ UpnpStop("maintenance")
  \/ UpnpStart("maintenance", "start")
  \/ StartBegins("maintenance") \/ LookForCertificates("maintenance")
  \/ /\ pc["maintenance"] = "listen"
     /\ server' = [serverInfo EXCEPT !.state = "running"]
     /\ Goto("maintenance", "done")
     /\ UNCHANGED <<after, files, unconfigured, serverInfo, processVars, upnpVars, countVars>>

Restart ==
  \/ /\ pc["maintenance"] = "restart"
     /\ CallStop("maintenance", "stopServer")
     /\ UNCHANGED <<processVars, serverVars, upnpVars, countVars>>
  \/ StopServer("maintenance", "start")
  \/ Start("maintenance")
  \/ /\ pc["maintenance"] = "startUpnp"
     /\ CallStop("maintenance", "clearFlag")
     /\ UNCHANGED <<processVars, serverVars, upnpVars, countVars>>
  \/ UpnpStop("maintenance")
  \/ UpnpStart("maintenance", "done")

-----------------------------------------------------------------------------
(* terminateProgram().  A shutdown that was queued runs after the startup. *)

QueueShutdown ==
  /\ pc["signal"] = "idle" /\ pc["main"] # "run"
  /\ Goto("signal", "queued")
  /\ UNCHANGED <<after, processVars, serverVars, upnpVars, countVars>>

\* Mutant: the destructor does not join the maintenance thread.
TerminateDoesNotJoin ==
  \/ QueueShutdown
  \/ /\ pc["signal"] \in {"idle", "queued"} /\ pc["main"] = "run"
     /\ met' = (met \/ Maintaining \/ pc["tcp"] # "idle")
     /\ CallStop("signal", "stopServer")
     /\ UNCHANGED <<processVars, serverVars, upnpVars, calls, faults, early>>
  \/ UpnpStop("signal")
  \/ StopServer("signal", "reset")
  \/ /\ pc["signal"] = "reset"
     /\ rpcServer' = FALSE
     /\ Goto("signal", "done")
     /\ UNCHANGED <<after, enableUpnp, upnp, serverVars, upnpVars, countVars>>

\* Mutant: the pointer is reset before UPnP is stopped.
TerminateResetsFirst ==
  \/ QueueShutdown
  \/ /\ pc["signal"] \in {"idle", "queued"} /\ pc["main"] = "run"
     /\ rpcServer' = FALSE
     /\ met' = (met \/ Maintaining \/ pc["tcp"] # "idle")
     /\ CallStop("signal", "stopServer")
     /\ UNCHANGED <<enableUpnp, upnp, serverVars, upnpVars, calls, faults, early>>
  \/ UpnpStop("signal")
  \/ StopServer("signal", "done")

\* Stop UPnP and the server; reset Gd::rpcServer: the pointer is null before the
\* destructor joins the maintenance thread and destroys the server.
Terminate ==
  \/ QueueShutdown
  \/ /\ pc["signal"] \in {"idle", "queued"} /\ pc["main"] = "run"
     /\ met' = (met \/ Maintaining \/ pc["tcp"] # "idle")
     /\ CallStop("signal", "stopServer")
     /\ UNCHANGED <<processVars, serverVars, upnpVars, calls, faults, early>>
  \/ UpnpStop("signal")
  \/ StopServer("signal", "reset")
  \/ /\ pc["signal"] = "reset"
     /\ rpcServer' = FALSE
     /\ Goto("signal", "joinMaintenance")
     /\ UNCHANGED <<after, enableUpnp, upnp, serverVars, upnpVars, countVars>>
  \/ /\ pc["signal"] = "joinMaintenance" /\ ~Maintaining
     /\ Goto("signal", "destroy")
     /\ UNCHANGED <<after, processVars, serverVars, upnpVars, countVars>>
  \/ /\ pc["signal"] = "destroy" /\ pc["tcp"] = "idle"
     /\ server' = NoServer
     /\ Goto("signal", "done")
     /\ UNCHANGED <<after, processVars, files, unconfigured, serverInfo, upnpVars, countVars>>

-----------------------------------------------------------------------------
Crashed == \E t \in Threads : pc[t] = "crashed"

\* The end, and threads that wait for each other.
Rests == (Crashed \/ pc["signal"] = "done" \/ early \/ met) /\ UNCHANGED vars

Next ==
  \/ /\ ~Crashed /\ pc["signal"] # "done"
     /\ StartUp \/ PacketReceived \/ Restart \/ Terminate \/ Listen
  \/ Kill
  \/ Rests

Spec == Init /\ [][Next]_vars

\* Every thread that can run does.
FairSpec ==
  Spec /\ WF_vars(StartUp) /\ WF_vars(PacketReceived) /\ WF_vars(Restart) /\ WF_vars(Listen)
       /\ WF_vars(pc["signal"] # "idle" /\ Terminate)

-----------------------------------------------------------------------------
Labels ==
  {"idle", "queued", "none", "create", "start", "certificates", "listen", "startUpnp", "run", "upnpStop",
   "upnpFlag", "upnpJoin", "clearFlag", "spawn", "ca", "crt", "key", "success", "answer",
   "launch", "restart", "stopServer", "waitForServer", "reset", "joinMaintenance", "destroy",
   "done", "crashed"}

ThreadTypes == pc \in [Threads -> Labels] /\ after \in [Threads -> Labels]

Servers ==
  [state : {"none", "running", "stopping"}, port : {"none", "port", "portUnconfigured"},
   tls : BOOLEAN, certificates : [Files -> 0 .. MaxCalls]]

ServerTypes ==
  /\ files \in [Files -> 0 .. MaxCalls]
  /\ serverInfo \in Servers /\ server \in Servers
  /\ calls \in 0 .. MaxCalls

FlagTypes ==
  /\ enableUpnp \in BOOLEAN /\ rpcServer \in BOOLEAN /\ upnp \in BOOLEAN
  /\ unconfigured \in BOOLEAN /\ stopServer \in BOOLEAN /\ socket \in BOOLEAN
  /\ early \in BOOLEAN /\ met \in BOOLEAN

Packets ==
  [configured : BOOLEAN, location : {"none", "port"},
   portUnconfigured : {"none", "portUnconfigured"}]

UpnpTypes ==
  /\ listening \in {"none", "loop", "turn", "ended"}
  /\ packets \in Packets /\ announced \in Packets
  /\ faults \in 0 .. MaxFaults

\* The types of the variables.
TypeOK == ThreadTypes /\ ServerTypes /\ FlagTypes /\ UpnpTypes

\* A server with TLS has certificates that belong together, although a call may
\* end, or the process be killed, with some of them written, and although the
\* shutdown may meet the call or the restart.
OneCall ==
  server.tls =>
    \/ early
    \/ \E call \in 1 .. MaxCalls : server.certificates = [f \in Files |-> call]

\* Once all files are there none is written again, neither by a client that finds
\* the gateway in the middle of the restart or of the shutdown nor after the process
\* was killed.
ConfiguredForGood == [][~Missing(files) => files' = files \/ early]_vars

\* While changes come one after the other no thread finds a null pointer and no two
\* threads join UPnP's thread: UPnP outlives nobody who uses it, the server outlives
\* UPnP's thread.  The exception is UPnP being disabled, and then the call that
\* crashes has written all files: the next start is that of a configured gateway.
CrashNeedsOverlap == Crashed => early \/ met \/ (~enableUpnp /\ ~Missing(files))

\* The packets are composed once, when the socket is opened; still, whenever they are
\* sent, HG-GATEWAY-CONFIGURED is what the server has found and LOCATION names the
\* port the running server listens on.  (HG-GATEWAY-PORT-UNCONFIGURED is a third
\* statement of theirs, and not true: UnconfiguredPort.)
AnnouncesStatus ==
  [][SendNotify =>
       \/ early \/ met
       \/ /\ announced'.configured = ~unconfigured
          /\ server.state = "running" => announced'.location = server.port]_vars

\* When the shutdown is complete neither the server nor the maintenance thread runs,
\* wherever the call or the restart was that it met: the restart that is under way
\* may start the server again, but is waited for.  UPnP is silent unless they met.
OrderlyShutdown ==
  pc["signal"] = "done" =>
    \/ early
    \/ server.state = "none" /\ ~Maintaining /\ (met \/ listening = "none")

\* A client that was told that the gateway is configured will find a server with
\* TLS, unless the server fails to start.
BecomesConfigured ==
  pc["tcp"] = "answer" ~>
    \/ server.state = "running" /\ server.tls
    \/ server.state = "none" /\ pc["maintenance"] = "done"
    \/ pc["signal"] # "idle" \/ early

\* The shutdown ends.  One that meets a call or the restart may wait for ever until it
\* has reset Gd::rpcServer, but not from there on: the TCP thread and the maintenance
\* thread, which the destructor waits for, come to their ends.
ShutdownEnds ==
  /\ pc["signal"] # "idle" ~> pc["signal"] \in {"idle", "done"} \/ early \/ met
  /\ pc["signal"] = "reset" ~> pc["signal"] \in {"idle", "done"} \/ early \/ Crashed

\* gateway.conf: "The port number the gateway listens on if unconfigured."  It is
\* the one that UPnP announces as HG-GATEWAY-PORT-UNCONFIGURED.
UnconfiguredPort ==
  server.state = "running" /\ unconfigured => server.port = SetPackets.portUnconfigured
=============================================================================

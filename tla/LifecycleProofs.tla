-------------------------- MODULE LifecycleProofs --------------------------
(***************************************************************************)
(* Proofs about Lifecycle: the process shuts down once, and main() returns *)
(* only when nothing is running, for any number of signals.                *)
(***************************************************************************)
EXTENDS Lifecycle, TLAPS

\* The labels of startUp() before the startup is complete.
StartingUp == {"boot", "waitForTime", "waitForIp", "create", "startServer",
               "startUpnp", "complete"}

ServicesDown == rpcServer # "running" /\ upnp # "running"

-----------------------------------------------------------------------------
\* During the startup nobody reloads or shuts down, and nothing runs before
\* the server is created.
StartupIsExclusive ==
  /\ pc["main"] \in StartingUp =>
       /\ ~startUpComplete /\ ~shuttingDown /\ ~stopMain
       /\ pc["handler"] \notin Shutdown \union {"freopen"}
  /\ pc["main"] \in {"boot", "waitForTime", "waitForIp", "create"} => ServicesDown

\* _startUpComplete is only withdrawn by a reload that will give it back.
CompleteOrReloading ==
  pc["main"] \in {"terminate", "loop"} =>
    startUpComplete \/ pc["handler"] = "freopen"

\* There is a server from its creation until the shutdown resets it.
ServerExists ==
  /\ pc["main"] \in {"startServer", "startUpnp", "complete"} => rpcServer # "null"
  /\ (startUpComplete \/ pc["handler"] = "freopen") /\ ~shuttingDown
       => rpcServer # "null"

\* Who shuts down has said so, and stops one service after the other.
ShutdownProgress ==
  /\ \A t \in Threads :
       /\ pc[t] \in Shutdown => shuttingDown
       /\ pc[t] = "stopServer" => upnp # "running"
       /\ pc[t] = "stopMain" => ServicesDown
  /\ shuttingDown /\ pc["main"] # "crashed" =>
       ServicesDown \/ \E t \in Threads : pc[t] \in {"stopUpnp", "stopServer"}
  /\ stopMain => ServicesDown

\* When startUp() has returned, the services are down or the handler is
\* about to stop them.
LeftToHandler ==
  pc["main"] \in {"kill", "join"} =>
    \/ ServicesDown
    \/ pc["handler"] \in {"stopUpnp", "stopServer"}
    \/ pc["handler"] = "freopen" /\ shutdownQueued
    \/ pc["handler"] = "terminate" /\ startUpComplete

IInv ==
  /\ TypeOK
  /\ StartupIsExclusive
  /\ CompleteOrReloading
  /\ ServerExists
  /\ ShutdownOnce
  /\ ShutdownProgress
  /\ LeftToHandler
  /\ OrderlyExit
-----------------------------------------------------------------------------
LEMMA Initial == Init => IInv
<1> SUFFICES ASSUME Init PROVE IInv
  OBVIOUS
<1>1. pc["main"] = "boot" /\ pc["handler"] = "sigwait"
  BY DEF Init, Threads
<1>2. pc \in [Threads -> MainLabels \union HandlerLabels \union Shutdown \union {"terminate"}]
  BY DEF Init, Threads, MainLabels, HandlerLabels
<1>3. TypeOK
  <2>1. pc["main"] \notin HandlerLabels /\ pc["handler"] \notin MainLabels
    BY <1>1 DEF MainLabels, HandlerLabels
  <2>2. terms \in 0..MaxTerms /\ hups \in 0..MaxHups /\ aborts \in 0..MaxAborts
    BY BoundsAssumption DEF Init
  <2> QED BY <1>2, <2>1, <2>2 DEF Init, TypeOK
<1>4. StartupIsExclusive /\ CompleteOrReloading /\ ServerExists /\ ShutdownOnce
        /\ ShutdownProgress /\ LeftToHandler /\ OrderlyExit
  BY <1>1 DEF Init, StartupIsExclusive, CompleteOrReloading, ServerExists, ShutdownOnce,
    ShutdownProgress, LeftToHandler, OrderlyExit, ServicesDown, StartingUp, Threads,
    Shutdown
<1> QED BY <1>3, <1>4 DEF IInv

(***************************************************************************)
(* terminateProgram(), run by either thread.                               *)
(***************************************************************************)
LEMMA TerminateProgramPreserves ==
  ASSUME IInv, ~Over, NEW t \in Threads, TerminateProgram(t)
  PROVE  IInv'
<1> USE DEF IInv, TypeOK, StartupIsExclusive, CompleteOrReloading, ServerExists,
      ShutdownOnce, ShutdownProgress, LeftToHandler, OrderlyExit, ServicesDown,
      StartingUp, Threads, Shutdown, MainLabels, HandlerLabels, Over, Goto, Return,
      flags, services, budget
<1>1. CASE QueueShutdown(t)
  BY <1>1 DEF QueueShutdown
<1>2. CASE AlreadyShuttingDown(t)
  BY <1>2 DEF AlreadyShuttingDown
<1>3. CASE BeginShutdown(t)
  BY <1>3 DEF BeginShutdown
<1>4. CASE StopUpnp(t)
  BY <1>4 DEF StopUpnp
<1>5. CASE StopServer(t)
  BY <1>5 DEF StopServer
<1>6. CASE SetStopMain(t)
  BY <1>6 DEF SetStopMain
<1> HIDE DEF IInv, TypeOK, StartupIsExclusive, CompleteOrReloading, ServerExists,
      ShutdownOnce, ShutdownProgress, LeftToHandler, OrderlyExit, ServicesDown,
      StartingUp, Threads, Shutdown, MainLabels, HandlerLabels, Over, Goto, Return,
      flags, services, budget
<1> QED BY <1>1, <1>2, <1>3, <1>4, <1>5, <1>6 DEF TerminateProgram

(***************************************************************************)
(* Every step of the process and of the system keeps the invariant.        *)
(***************************************************************************)
LEMMA Preserved == IInv /\ [Next]_vars => IInv'
<1> SUFFICES ASSUME IInv, [Next]_vars PROVE IInv'
  OBVIOUS
<1>t. ASSUME ~Over, NEW t \in Threads, TerminateProgram(t) PROVE IInv'
  BY <1>t, TerminateProgramPreserves
<1> USE DEF IInv, TypeOK, StartupIsExclusive, CompleteOrReloading, ServerExists,
      ShutdownOnce, ShutdownProgress, LeftToHandler, OrderlyExit, ServicesDown,
      StartingUp, Threads, Shutdown, MainLabels, HandlerLabels, Over, Goto,
      flags, services, budget
<1>u. CASE UNCHANGED vars
  BY <1>u DEF vars
<1>1. CASE ~Over /\ Prepared
  BY <1>1 DEF Prepared
<1>2. CASE ~Over /\ StartUpThrows
  BY <1>2 DEF StartUpThrows
<1>3. CASE ~Over /\ ForcedShutdown
  BY <1>3 DEF ForcedShutdown
<1>4. CASE ~Over /\ CreateServer
  BY <1>4 DEF CreateServer
<1>5. CASE ~Over /\ StartServer
  BY <1>5 DEF StartServer
<1>6. CASE ~Over /\ StartUpnp
  BY <1>6 DEF StartUpnp
<1>7. CASE ~Over /\ Complete
  BY <1>7 DEF Complete
<1>8. CASE ~Over /\ LeaveLoop
  BY <1>8 DEF LeaveLoop
<1>9. CASE ~Over /\ KillHandler
  BY <1>9 DEF KillHandler
<1>10. CASE ~Over /\ JoinHandler
  BY <1>10 DEF JoinHandler
<1>11. CASE ~Over /\ TimeIsCorrect
  BY <1>11 DEF TimeIsCorrect
<1>12. CASE ~Over /\ AddressFound
  BY <1>12 DEF AddressFound
<1>13. CASE ~Over /\ TakeTerm
  BY <1>13 DEF TakeTerm
<1>14. CASE ~Over /\ TakeUsr1
  BY <1>14 DEF TakeUsr1
<1>15. CASE ~Over /\ TakeHup
  BY <1>15 DEF TakeHup
<1>16. CASE ~Over /\ Reloaded
  BY <1>16 DEF Reloaded
<1>17. CASE ~Over /\ SendTerm
  BY <1>17, BoundsAssumption DEF SendTerm
<1>18. CASE ~Over /\ SendHup
  BY <1>18, BoundsAssumption DEF SendHup
<1>19. CASE ~Over /\ SendAbort
  BY <1>19, BoundsAssumption DEF SendAbort
<1>20. CASE ~Over /\ TakeAbort
  BY <1>20 DEF TakeAbort
<1>21. CASE ~Over /\ KillAgain
  BY <1>21 DEF KillAgain
<1> HIDE DEF IInv, TypeOK, StartupIsExclusive, CompleteOrReloading, ServerExists,
      ShutdownOnce, ShutdownProgress, LeftToHandler, OrderlyExit, ServicesDown,
      StartingUp, Threads, Shutdown, MainLabels, HandlerLabels, Over, Goto,
      flags, services, budget
<1> QED
  BY <1>u, <1>t, <1>1, <1>2, <1>3, <1>4, <1>5, <1>6, <1>7, <1>8, <1>9, <1>10, <1>11,
    <1>12, <1>13, <1>14, <1>15, <1>16, <1>17, <1>18, <1>19, <1>20, <1>21
  DEF Next, Main, Handler, Ended, Idle, Threads

(***************************************************************************)
(* The inductive invariant: who may shut down in which phase of the        *)
(* process, and who still has to.                                          *)
(***************************************************************************)
THEOREM Invariant == Spec => []IInv
<1>1. Init => IInv
  BY Initial
<1>2. IInv /\ [Next]_vars => IInv'
  BY Preserved
<1> QED BY <1>1, <1>2, PTL DEF Spec

\* Type correctness of the startup, reload and shutdown code of main.cpp.
THEOREM TypeCorrect == Spec => []TypeOK
<1>1. IInv => TypeOK
  BY DEF IInv
<1> QED BY <1>1, Invariant, PTL

(***************************************************************************)
(* One thread at a time is in the second half of terminateProgram(), and   *)
(* the RPC server it stops exists (main.cpp 69-93).                        *)
(***************************************************************************)
THEOREM ShutdownHappensOnce == Spec => []ShutdownOnce
<1>1. IInv => ShutdownOnce
  BY DEF IInv
<1> QED BY <1>1, Invariant, PTL

(***************************************************************************)
(* main() returns only when the RPC server and UPnP are down, also when    *)
(* the shutdown was queued behind a reload (main.cpp 69-80, 166-171, 766). *)
(***************************************************************************)
THEOREM ExitIsOrderly == Spec => []OrderlyExit
<1>1. IInv => OrderlyExit
  BY DEF IInv
<1> QED BY <1>1, Invariant, PTL
=============================================================================

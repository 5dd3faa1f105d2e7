----------------------------- MODULE Lifecycle -----------------------------
(***************************************************************************)
(* Startup, reload and shutdown of the process (main.cpp): the main thread *)
(* runs startUp() and main(), the handler runs signalHandlerThread(), and  *)
(* both call terminateProgram().                                           *)
(*                                                                         *)
(* The model begins when the signals are blocked and the handler runs      *)
(* (line 375).  Every section guarded by _shuttingDownMutex is short and   *)
(* waits for nothing: each is one step.  Settings are choices of startUp().*)
(* SIGSEGV acts like SIGABRT, every other signal of the set that is not    *)
(* named here like SIGTERM.  Both are blocked in all threads.              *)
(***************************************************************************)
EXTENDS Integers

CONSTANTS
  MaxTerms,   \* bound: SIGTERMs sent to the process
  MaxHups,    \* bound: SIGHUPs sent to the process
  MaxAborts   \* bound: SIGABRTs sent to the process

ASSUME BoundsAssumption == MaxTerms \in Nat /\ MaxHups \in Nat /\ MaxAborts \in Nat

VARIABLES
  pc,               \* where the main thread and the handler are
  pending,          \* blocked signals that wait for sigwait()
  startUpComplete,  \* _startUpComplete
  shutdownQueued,   \* _shutdownQueued
  shuttingDown,     \* Gd::bl->shuttingDown
  stopMain,         \* _stopMain
  rpcServer,        \* Gd::rpcServer
  upnp,             \* Gd::upnp
  terms, hups, aborts   \* how much of each bound is used

flags == <<startUpComplete, shutdownQueued, shuttingDown, stopMain>>
services == <<rpcServer, upnp>>
budget == <<terms, hups, aborts>>
vars == <<pc, pending, flags, services, budget>>

Threads == {"main", "handler"}
Shutdown == {"stopUpnp", "stopServer", "stopMain"}
MainLabels == {"boot", "waitForTime", "waitForIp", "create", "startServer", "startUpnp",
               "complete", "loop", "kill", "join", "exited", "crashed"}
HandlerLabels == {"sigwait", "freopen", "dump", "refused", "ended"}

\* The process is over: main() has returned, or a fault has ended it.
Over == pc["main"] \in {"exited", "crashed"}

Goto(t, label) == pc' = [pc EXCEPT ![t] = label]

-----------------------------------------------------------------------------
Init ==
  /\ pc = [t \in Threads |-> IF t = "main" THEN "boot" ELSE "sigwait"]
  /\ pending = {}
  /\ startUpComplete = FALSE /\ shutdownQueued = FALSE
  /\ shuttingDown = FALSE /\ stopMain = FALSE
  /\ rpcServer = "null" /\ upnp = "null"
  /\ terms = 0 /\ hups = 0 /\ aborts = 0

-----------------------------------------------------------------------------
(* terminateProgram().                                                     *)

\* Mutant: both callers go on as the main thread does.
ReturnToMain(t) == Goto(t, "kill")

\* The caller goes on: startUp() returns, or the handler's thread ends.
Return(t) == Goto(t, IF t = "main" THEN "kill" ELSE "ended")

QueueShutdown(t) ==
  /\ pc[t] = "terminate"
  /\ ~startUpComplete
  /\ shutdownQueued' = TRUE
  /\ Return(t)
  /\ UNCHANGED <<pending, startUpComplete, shuttingDown, stopMain, services, budget>>

AlreadyShuttingDown(t) ==
  /\ pc[t] = "terminate"
  /\ startUpComplete /\ shuttingDown
  /\ Return(t)
  /\ UNCHANGED <<pending, flags, services, budget>>

\* Mutant: a shutdown that is under way is not noticed.
BeginShutdownAgain(t) ==
  /\ pc[t] = "terminate"
  /\ startUpComplete
  /\ shuttingDown' = TRUE
  /\ Goto(t, "stopUpnp")
  /\ UNCHANGED <<pending, startUpComplete, shutdownQueued, stopMain, services, budget>>

BeginShutdown(t) ==
  /\ pc[t] = "terminate"
  /\ startUpComplete /\ ~shuttingDown
  /\ shuttingDown' = TRUE
  /\ Goto(t, "stopUpnp")
  /\ UNCHANGED <<pending, startUpComplete, shutdownQueued, stopMain, services, budget>>

StopUpnp(t) ==
  /\ pc[t] = "stopUpnp"
  /\ upnp' = IF upnp = "null" THEN "null" ELSE "stopped"
  /\ Goto(t, "stopServer")
  /\ UNCHANGED <<pending, flags, rpcServer, budget>>

\* Gd::rpcServer->stop() and reset(): a null pointer is dereferenced.
StopServer(t) ==
  /\ pc[t] = "stopServer"
  /\ IF rpcServer = "null" THEN Goto("main", "crashed") ELSE Goto(t, "stopMain")
  /\ rpcServer' = "null"
  /\ UNCHANGED <<pending, flags, upnp, budget>>

SetStopMain(t) ==
  /\ pc[t] = "stopMain"
  /\ stopMain' = TRUE
  /\ Return(t)
  /\ UNCHANGED <<pending, startUpComplete, shutdownQueued, shuttingDown, services, budget>>

TerminateProgram(t) ==
  \/ QueueShutdown(t) \/ AlreadyShuttingDown(t) \/ BeginShutdown(t)
  \/ StopUpnp(t) \/ StopServer(t) \/ SetStopMain(t)

-----------------------------------------------------------------------------
(* startUp() and the end of main().                                        *)

\* Users, privileges and the PID file are in order; some settings make
\* startUp() wait for the time, or until an interface has an address.
Prepared ==
  /\ pc["main"] = "boot"
  /\ \E next \in {"waitForTime", "waitForIp", "create"} : Goto("main", next)
  /\ UNCHANGED <<pending, flags, services, budget>>

\* The clock is set.  This wait does not look at _shutdownQueued.
TimeIsCorrect ==
  /\ pc["main"] = "waitForTime"
  /\ \E next \in {"waitForIp", "create"} : Goto("main", next)
  /\ UNCHANGED <<pending, flags, services, budget>>

\* An exception ends startUp(), not main().
StartUpThrows ==
  /\ pc["main"] = "boot"
  /\ Goto("main", "kill")
  /\ UNCHANGED <<pending, flags, services, budget>>

\* terminateProgram() is forced before Gd::rpcServer is created: it skips
\* the checks and dereferences a null pointer.
ForcedShutdown ==
  /\ \/ pc["main"] = "boot"
     \/ pc["main"] = "waitForIp" /\ shutdownQueued
  /\ shuttingDown' = TRUE
  /\ Goto("main", "crashed")
  /\ UNCHANGED <<pending, startUpComplete, shutdownQueued, stopMain, services, budget>>

\* The interface has an address.
AddressFound ==
  /\ pc["main"] = "waitForIp"
  /\ ~shutdownQueued
  /\ Goto("main", "create")
  /\ UNCHANGED <<pending, flags, services, budget>>

CreateServer ==
  /\ pc["main"] = "create"
  /\ rpcServer' = "created"
  /\ Goto("main", "startServer")
  /\ UNCHANGED <<pending, flags, upnp, budget>>

\* A server that cannot be started shuts the gateway down.
StartServer ==
  /\ pc["main"] = "startServer"
  /\ IF shutdownQueued
       THEN UNCHANGED <<rpcServer, shutdownQueued>>
       ELSE \/ rpcServer' = "running" /\ UNCHANGED shutdownQueued
            \/ shutdownQueued' = TRUE /\ UNCHANGED rpcServer
  /\ Goto("main", "startUpnp")
  /\ UNCHANGED <<pending, startUpComplete, shuttingDown, stopMain, upnp, budget>>

StartUpnp ==
  /\ pc["main"] = "startUpnp"
  /\ upnp' \in {"null", "running"}
  /\ Goto("main", "complete")
  /\ UNCHANGED <<pending, flags, rpcServer, budget>>

\* Mutant: a queued shutdown is looked for before the startup is complete.
CompleteIgnoringQueue ==
  /\ pc["main"] = "complete"
  /\ startUpComplete' = TRUE
  /\ Goto("main", "loop")
  /\ UNCHANGED <<pending, shutdownQueued, shuttingDown, stopMain, services, budget>>

Complete ==
  /\ pc["main"] = "complete"
  /\ startUpComplete' = TRUE
  /\ Goto("main", IF shutdownQueued THEN "terminate" ELSE "loop")
  /\ UNCHANGED <<pending, shutdownQueued, shuttingDown, stopMain, services, budget>>

LeaveLoop ==
  /\ pc["main"] = "loop"
  /\ stopMain
  /\ Goto("main", "kill")
  /\ UNCHANGED <<pending, flags, services, budget>>

KillHandler ==
  /\ pc["main"] = "kill"
  /\ pending' = pending \union {"USR1"}
  /\ Goto("main", "join")
  /\ UNCHANGED <<flags, services, budget>>

\* Mutant: main() does not wait for the handler.
ExitWithoutJoin ==
  /\ pc["main"] = "join"
  /\ Goto("main", "exited")
  /\ UNCHANGED <<pending, flags, services, budget>>

JoinHandler ==
  /\ pc["main"] = "join"
  /\ pc["handler"] \in {"ended", "refused"}
  /\ Goto("main", "exited")
  /\ UNCHANGED <<pending, flags, services, budget>>

Main ==
  \/ Prepared \/ StartUpThrows \/ ForcedShutdown
  \/ CreateServer \/ StartServer \/ StartUpnp \/ Complete
  \/ LeaveLoop \/ KillHandler \/ JoinHandler
  \/ TerminateProgram("main")

-----------------------------------------------------------------------------
(* signalHandlerThread().                                                  *)

TakeTerm ==
  /\ pc["handler"] = "sigwait"
  /\ "TERM" \in pending
  /\ pending' = pending \ {"TERM"}
  /\ Goto("handler", "terminate")
  /\ UNCHANGED <<flags, services, budget>>

\* Sent by main().  Before _stopMain is set it is a signal like any other.
TakeUsr1 ==
  /\ pc["handler"] = "sigwait"
  /\ "USR1" \in pending
  /\ pending' = pending \ {"USR1"}
  /\ Goto("handler", IF stopMain THEN "ended" ELSE "terminate")
  /\ UNCHANGED <<flags, services, budget>>

\* A reload withdraws _startUpComplete; during the startup it is refused, and
\* with it the thread ends.
TakeHup ==
  /\ pc["handler"] = "sigwait"
  /\ "HUP" \in pending
  /\ pending' = pending \ {"HUP"}
  /\ startUpComplete' = FALSE
  /\ Goto("handler", IF startUpComplete THEN "freopen" ELSE "refused")
  /\ UNCHANGED <<shutdownQueued, shuttingDown, stopMain, services, budget>>

\* Mutant: the reload does not give _startUpComplete back.
ReloadedIncomplete ==
  /\ pc["handler"] = "freopen"
  /\ Goto("handler", IF shutdownQueued THEN "terminate" ELSE "sigwait")
  /\ UNCHANGED <<pending, flags, services, budget>>

\* The log files are open again.
Reloaded ==
  /\ pc["handler"] = "freopen"
  /\ startUpComplete' = TRUE
  /\ Goto("handler", IF shutdownQueued THEN "terminate" ELSE "sigwait")
  /\ UNCHANGED <<pending, shutdownQueued, shuttingDown, stopMain, services, budget>>

\* The thread says that it stops the gateway, resets the signal's action and sends
\* the signal again "to generate a core dump".  It is still blocked.
TakeAbort ==
  /\ pc["handler"] = "sigwait"
  /\ "ABRT" \in pending
  /\ pending' = pending \ {"ABRT"}
  /\ Goto("handler", "dump")
  /\ UNCHANGED <<flags, services, budget>>

KillAgain ==
  /\ pc["handler"] = "dump"
  /\ pending' = pending \union {"ABRT"}
  /\ Goto("handler", "sigwait")
  /\ UNCHANGED <<flags, services, budget>>

Handler ==
  \/ TakeTerm \/ TakeUsr1 \/ TakeHup \/ Reloaded \/ TakeAbort \/ KillAgain
  \/ TerminateProgram("handler")

-----------------------------------------------------------------------------
(* The system sends signals; equal ones that are pending are one.          *)

SendTerm ==
  /\ terms < MaxTerms
  /\ terms' = terms + 1
  /\ pending' = pending \union {"TERM"}
  /\ UNCHANGED <<pc, flags, services, hups, aborts>>

SendHup ==
  /\ hups < MaxHups
  /\ hups' = hups + 1
  /\ pending' = pending \union {"HUP"}
  /\ UNCHANGED <<pc, flags, services, terms, aborts>>

SendAbort ==
  /\ aborts < MaxAborts
  /\ aborts' = aborts + 1
  /\ pending' = pending \union {"ABRT"}
  /\ UNCHANGED <<pc, flags, services, terms, hups>>

Ended == Over /\ UNCHANGED vars

\* The gateway runs or waits for its surroundings, and nobody sends a signal.
Idle ==
  /\ pc["main"] \in {"waitForTime", "waitForIp", "loop"}
  /\ pc["handler"] \in {"sigwait", "refused", "ended"}
  /\ UNCHANGED vars

Next ==
  \/ ~Over /\ (Main \/ TimeIsCorrect \/ AddressFound \/ Handler)
  \/ ~Over /\ (SendTerm \/ SendHup \/ SendAbort)
  \/ Idle
  \/ Ended

Spec == Init /\ [][Next]_vars

(***************************************************************************)
(* Both threads run.  Nothing obliges the clock to be set, an interface to *)
(* get an address or anybody to send a signal.  That the two services stop *)
(* is assumed here; for the RPC server it is StopEnds of RpcInvoke.        *)
(***************************************************************************)
Fairness == WF_vars(~Over /\ Main) /\ WF_vars(~Over /\ Handler)

FairSpec == Spec /\ Fairness

-----------------------------------------------------------------------------
TypeOK ==
  /\ pc \in [Threads -> MainLabels \union HandlerLabels \union Shutdown \union {"terminate"}]
  /\ pc["main"] \notin HandlerLabels /\ pc["handler"] \notin MainLabels
  /\ pending \subseteq {"TERM", "HUP", "USR1", "ABRT"}
  /\ startUpComplete \in BOOLEAN /\ shutdownQueued \in BOOLEAN
  /\ shuttingDown \in BOOLEAN /\ stopMain \in BOOLEAN
  /\ rpcServer \in {"null", "created", "running"}
  /\ upnp \in {"null", "running", "stopped"}
  /\ terms \in 0..MaxTerms /\ hups \in 0..MaxHups /\ aborts \in 0..MaxAborts

(***************************************************************************)
(* One thread shuts down, once: while a thread is in the second half of    *)
(* terminateProgram() the other is not, the startup is past the creation   *)
(* of the services, and Gd::rpcServer is not dereferenced after its reset  *)
(* (main.cpp 69-93).                                                       *)
(***************************************************************************)
ShutdownOnce ==
  /\ ~ (pc["main"] \in Shutdown /\ pc["handler"] \in Shutdown)
  /\ \A t \in Threads : pc[t] \in {"stopUpnp", "stopServer"} => rpcServer # "null"

(***************************************************************************)
(* main() returns only when nothing is running any more, also when         *)
(* startUp() returned because the shutdown was queued behind a reload or   *)
(* was already executed by the handler (main.cpp 69-80, 166-171, 766).     *)
(***************************************************************************)
OrderlyExit ==
  pc["main"] = "exited" => rpcServer # "running" /\ upnp # "running"

\* The handler is busy with a signal that it sends to itself: sigwait() takes the
\* one with the lowest number first, SIGABRT before SIGUSR1 and SIGTERM.
Aborting == "ABRT" \in pending \/ pc["handler"] = "dump"

(***************************************************************************)
(* "Queueing shutdown" keeps its promise: once a shutdown is queued, by    *)
(* the handler, by a failed start or behind a reload, the process ends,    *)
(* unless it waits for a time that is never set: that loop does not look   *)
(* at the queue (main.cpp 71, 169, 523-530, 590, 610).                     *)
(***************************************************************************)
QueuedShutdownRuns == shutdownQueued ~> (Over \/ Aborting \/ [](pc["main"] = "waitForTime"))

(***************************************************************************)
(* SIGTERM ends the process whenever it comes, unless a reload was refused *)
(* before or the handler is aborting (main.cpp 138, 148-153).              *)
(***************************************************************************)
TermEndsProcess ==
  "TERM" \in pending
    ~> (Over \/ Aborting \/ pc["handler"] = "refused" \/ [](pc["main"] = "waitForTime"))

(***************************************************************************)
(* Lines 178-185: "Signal 6 received. Stopping Homegear Gateway..." and    *)
(* "Generate core dump".  FALSE of the code: the signal it sends to the    *)
(* process is blocked, and taken by sigwait() again, and again.            *)
(***************************************************************************)
AbortEndsProcess == "ABRT" \in pending ~> Over

(***************************************************************************)
(* Line 151: "Error: Cannot reload. Startup is not completed." says that   *)
(* the reload is refused; SIGTERM still ends the process.  FALSE of the    *)
(* code: the handler's thread returns with the refusal.                    *)
(***************************************************************************)
RefusalIsHarmless ==
  "TERM" \in pending ~> (Over \/ [](pc["main"] = "waitForTime"))

(***************************************************************************)
(* Line 71: a shutdown that comes too early is queued, to be executed.     *)
(* FALSE of the code while startUp() waits for an address: the shutdown is *)
(* forced before there is a server to stop, and dereferences a null        *)
(* pointer.  (At "boot" the shutdown is forced for other reasons.)         *)
(***************************************************************************)
QueuedIsNotACrash ==
  [][shutdownQueued /\ pc["main"] # "boot" => pc'["main"] # "crashed"]_vars
=============================================================================

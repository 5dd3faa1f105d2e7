----------------------------- MODULE RpcInvoke -----------------------------
(***************************************************************************)
(* RpcServer::invoke and the code it races with (RpcServer.cpp).           *)
(*                                                                         *)
(* Threads of a radio family (Callers) call invoke() to send a request to  *)
(* the one connected client and to wait for its answer.  The thread of the *)
(* TCP server runs packetReceived(): it decodes what the client sends,     *)
(* hands an answer over through _rpcResponse and executes the client's own *)
(* requests.  The main thread runs start() and stop().  Nothing in an      *)
(* answer names the request it belongs to.                                 *)
(*                                                                         *)
(* Requests are numbered by the order in which they get _invokeMutex; the  *)
(* number is not in the code, it lets the properties say whose answer a    *)
(* caller was given.  history[n] is what invocation n returned: the number *)
(* of the request that was answered, or Failed.                            *)
(***************************************************************************)
EXTENDS Integers, Sequences, FiniteSets

CONSTANTS Callers,    \* threads that call invoke()
          NoThread,   \* the holder of a mutex nobody holds
          EvalLimit,  \* evaluations of the wait predicate before giving up (10)
          MaxCalls    \* bound: number of invocations that get past the guard

ASSUME CallersAssumption == NoThread \notin Callers
ASSUME EvalLimitAssumption == EvalLimit \in Nat /\ EvalLimit > 1

VARIABLES
  pc,               \* where each caller is in invoke()
  invokeMutex,      \* holder of _invokeMutex
  requestMutex,     \* holder of _requestMutex
  rpcResponse,      \* _rpcResponse: number of the answered request, or None
  waitForResponse,  \* _waitForResponse
  i,                \* the counter of the wait predicate of the current invocation
  tcp,              \* where the TCP server's thread is in packetReceived()
  decoded,          \* the answer that thread has decoded but not stored
  server,           \* progress of start() and stop()
  stopped,          \* _stopped
  connected,        \* GetClientCount() = 1
  clientId,         \* _clientId is the id of the connected client
  unanswered,       \* requests the client has and whose answer was not read
  history           \* what the finished invocations returned

vars == <<pc, invokeMutex, requestMutex, rpcResponse, waitForResponse, i, tcp,
          decoded, server, stopped, connected, clientId, unanswered, history>>

callerVars == <<pc, invokeMutex, requestMutex, i, history>>
responseVars == <<rpcResponse, waitForResponse>>
tcpVars == <<tcp, decoded>>
serverVars == <<server, stopped>>
clientVars == <<connected, clientId, unanswered>>

None == 0
Failed == 0

\* The request of the invocation that holds _invokeMutex.
Current == Len(history) + 1

\* Labels of invoke() from the creation of the request to the return.
OpenLabels == {"send", "check", "waiting", "notified", "timedOut", "finish"}

Labels == {"idle", "lockInvoke", "lockRequest"} \union OpenLabels

-----------------------------------------------------------------------------
Init ==
  /\ pc = [c \in Callers |-> "idle"]
  /\ invokeMutex = NoThread
  /\ requestMutex = NoThread
  /\ rpcResponse = None
  /\ waitForResponse = FALSE
  /\ i = 0
  /\ tcp = "idle"
  /\ decoded = None
  /\ server = "down"
  /\ stopped = TRUE
  /\ connected = FALSE
  /\ clientId = FALSE
  /\ unanswered = {}
  /\ history = <<>>

-----------------------------------------------------------------------------
(* The main thread: start() from the creation of the TCP server, stop().   *)

\* _tcpServer->Start(): clients are accepted although _stopped is still set.
StartTcpServer ==
  /\ server = "down"
  /\ server' = "listening"
  /\ UNCHANGED <<callerVars, responseVars, tcpVars, stopped, clientVars>>

StartDone ==
  /\ server = "listening"
  /\ server' = "running"
  /\ stopped' = FALSE
  /\ UNCHANGED <<callerVars, responseVars, tcpVars, clientVars>>

\* stop() sets _stopped and wakes nobody.
StopBegin ==
  /\ server = "running"
  /\ server' = "stopping"
  /\ stopped' = TRUE
  /\ UNCHANGED <<callerVars, responseVars, tcpVars, clientVars>>

\* Stop(): the TCP thread takes on nothing more after its current callback.
StopTcpServer ==
  /\ server = "stopping"
  /\ server' = "closing"
  /\ UNCHANGED <<callerVars, responseVars, tcpVars, stopped, clientVars>>

\* WaitForServerStopped().
TcpServerStopped ==
  /\ server = "closing"
  /\ tcp = "idle"
  /\ server' = "closed"
  /\ connected' = FALSE
  /\ clientId' = FALSE
  /\ unanswered' = {}
  /\ UNCHANGED <<callerVars, responseVars, tcpVars, stopped>>

\* _interface.reset() joins the threads of the family.
JoinInterface ==
  /\ server = "closed"
  /\ \A c \in Callers : pc[c] = "idle"
  /\ server' = "joined"
  /\ UNCHANGED <<callerVars, responseVars, tcpVars, stopped, clientVars>>

\* The object is destroyed: nothing happens any more.
Ended == server = "joined" /\ UNCHANGED vars

-----------------------------------------------------------------------------
(* The client and the connection.                                          *)

\* The TCP thread waits for the next event of a server that is not stopped.
Listening == tcp = "idle" /\ server \in {"listening", "running", "stopping"}

Accept ==
  /\ Listening
  /\ ~connected
  /\ connected' = TRUE
  /\ UNCHANGED <<callerVars, responseVars, tcpVars, serverVars, clientId, unanswered>>

\* The callback of the TCP server's thread that stores the client's id.
NewConnection ==
  /\ Listening
  /\ connected /\ ~clientId
  /\ clientId' = TRUE
  /\ UNCHANGED <<callerVars, responseVars, tcpVars, serverVars, connected, unanswered>>

\* The connection breaks: what the client has not answered stays unanswered.
Disconnect ==
  /\ connected
  /\ connected' = FALSE
  /\ clientId' = FALSE
  /\ unanswered' = {}
  /\ UNCHANGED <<callerVars, responseVars, tcpVars, serverVars>>

-----------------------------------------------------------------------------
(* The TCP server's thread: packetReceived() of a configured gateway.      *)

\* An answer arrives.  _waitForResponse is read before _requestMutex is taken.
ReceiveAnswer ==
  /\ Listening
  /\ connected
  /\ \E n \in unanswered :
       /\ unanswered' = unanswered \ {n}
       /\ IF waitForResponse
            THEN tcp' = "store" /\ decoded' = n
            ELSE UNCHANGED tcpVars
  /\ UNCHANGED <<callerVars, responseVars, serverVars, connected, clientId>>

\* Mutant: the answer is stored and nobody is notified.
StoreWithoutNotify ==
  /\ tcp = "store"
  /\ requestMutex = NoThread
  /\ rpcResponse' = decoded
  /\ decoded' = None
  /\ tcp' = "idle"
  /\ UNCHANGED <<callerVars, waitForResponse, serverVars, clientVars>>

StoreResponse ==
  /\ tcp = "store"
  /\ requestMutex = NoThread
  /\ rpcResponse' = decoded
  /\ decoded' = None
  /\ tcp' = "notify"
  /\ UNCHANGED <<callerVars, waitForResponse, serverVars, clientVars>>

\* notify_all() on _requestConditionVariable.
Notify ==
  /\ tcp = "notify"
  /\ tcp' = "idle"
  /\ pc' = [c \in Callers |-> IF pc[c] = "waiting" THEN "notified" ELSE pc[c]]
  /\ UNCHANGED <<invokeMutex, requestMutex, i, history, responseVars, decoded,
                 serverVars, clientVars>>

\* The client's own request is executed on this thread by callMethod().
ReceiveRequest ==
  /\ Listening
  /\ connected
  /\ tcp' = "callMethod"
  /\ UNCHANGED <<callerVars, responseVars, decoded, serverVars, clientVars>>

CallMethodDone ==
  /\ tcp = "callMethod"
  /\ tcp' = "idle"
  /\ UNCHANGED <<callerVars, responseVars, decoded, serverVars, clientVars>>

-----------------------------------------------------------------------------
(* invoke().                                                               *)

Goto(c, label) == pc' = [pc EXCEPT ![c] = label]

\* The guard: without a client the call returns at once and changes nothing.
Call(c) ==
  /\ pc[c] = "idle"
  /\ server # "joined"
  /\ connected
  /\ Len(history) + Cardinality({d \in Callers : pc[d] # "idle"}) < MaxCalls
  /\ Goto(c, "lockInvoke")
  /\ UNCHANGED <<invokeMutex, requestMutex, i, history, responseVars, tcpVars,
                 serverVars, clientVars>>

\* Mutant: _invokeMutex is not taken.
EnterWithoutInvokeMutex(c) ==
  /\ pc[c] = "lockInvoke"
  /\ invokeMutex' = c
  /\ Goto(c, "lockRequest")
  /\ UNCHANGED <<requestMutex, i, history, responseVars, tcpVars, serverVars, clientVars>>

LockInvoke(c) ==
  /\ pc[c] = "lockInvoke"
  /\ invokeMutex = NoThread
  /\ invokeMutex' = c
  /\ Goto(c, "lockRequest")
  /\ UNCHANGED <<requestMutex, i, history, responseVars, tcpVars, serverVars, clientVars>>

\* Mutant: _rpcResponse keeps the previous answer.
LockRequestWithoutReset(c) ==
  /\ pc[c] = "lockRequest"
  /\ requestMutex = NoThread
  /\ requestMutex' = c
  /\ waitForResponse' = TRUE
  /\ Goto(c, "send")
  /\ UNCHANGED <<invokeMutex, i, history, rpcResponse, tcpVars, serverVars, clientVars>>

LockRequest(c) ==
  /\ pc[c] = "lockRequest"
  /\ requestMutex = NoThread
  /\ requestMutex' = c
  /\ rpcResponse' = None
  /\ waitForResponse' = TRUE
  /\ Goto(c, "send")
  /\ UNCHANGED <<invokeMutex, i, history, tcpVars, serverVars, clientVars>>

\* Both lock guards are released and the invocation has its outcome.
Return(c, outcome) ==
  /\ history' = Append(history, outcome)
  /\ invokeMutex' = NoThread
  /\ requestMutex' = NoThread
  /\ i' = 0
  /\ Goto(c, "idle")

\* Send() reaches the client, loses the packet, or throws; the exception
\* leaves _waitForResponse set.
SendDelivered(c) ==
  /\ pc[c] = "send"
  /\ clientId
  /\ unanswered' = unanswered \union {Current}
  /\ Goto(c, "check")
  /\ UNCHANGED <<invokeMutex, requestMutex, i, history, responseVars, tcpVars,
                 serverVars, connected, clientId>>

SendLost(c) ==
  /\ pc[c] = "send"
  /\ Goto(c, "check")
  /\ UNCHANGED <<invokeMutex, requestMutex, i, history, responseVars, tcpVars,
                 serverVars, clientVars>>

\* Mutant: the exception leaves _invokeMutex locked.
SendThrowsKeepsMutex(c) ==
  /\ pc[c] = "send"
  /\ history' = Append(history, Failed)
  /\ requestMutex' = NoThread
  /\ Goto(c, "idle")
  /\ UNCHANGED <<invokeMutex, i, responseVars, tcpVars, serverVars, clientVars>>

SendThrows(c) ==
  /\ pc[c] = "send"
  /\ Return(c, Failed)
  /\ UNCHANGED <<responseVars, tcpVars, serverVars, clientVars>>

\* Mutant: one evaluation too many.
PredicateOffByOne == rpcResponse # None \/ stopped \/ i' = EvalLimit + 1

\* The lambda passed to wait_for(): every evaluation counts.
Predicate == rpcResponse # None \/ stopped \/ i' = EvalLimit

Evaluate(c, otherwise, holder) ==
  /\ i' = i + 1
  /\ IF Predicate
       THEN Goto(c, "finish") /\ requestMutex' = c
       ELSE Goto(c, otherwise) /\ requestMutex' = holder
  /\ UNCHANGED <<invokeMutex, history, responseVars, tcpVars, serverVars, clientVars>>

\* wait_for() evaluates the predicate before it blocks.
EnterWait(c) ==
  /\ pc[c] = "check"
  /\ Evaluate(c, "waiting", NoThread)

\* A condition variable may wake without having been notified.
SpuriousWakeup(c) ==
  /\ pc[c] = "waiting"
  /\ Goto(c, "notified")
  /\ UNCHANGED <<invokeMutex, requestMutex, i, history, responseVars, tcpVars,
                 serverVars, clientVars>>

\* Mutant: wait() in place of wait_for().
NoTimeout(c) == FALSE /\ pc[c] = "waiting" /\ UNCHANGED vars

\* The second of this wait_for() is over.
Timeout(c) ==
  /\ pc[c] = "waiting"
  /\ Goto(c, "timedOut")
  /\ UNCHANGED <<invokeMutex, requestMutex, i, history, responseVars, tcpVars,
                 serverVars, clientVars>>

WakeNotified(c) ==
  /\ pc[c] = "notified"
  /\ requestMutex = NoThread
  /\ Evaluate(c, "waiting", NoThread)

\* A false predicate makes wait_for() return false: the while loop calls it again.
WakeTimedOut(c) ==
  /\ pc[c] = "timedOut"
  /\ requestMutex = NoThread
  /\ Evaluate(c, "check", c)

\* A response found by the last evaluation is thrown away.
Finish(c) ==
  /\ pc[c] = "finish"
  /\ waitForResponse' = FALSE
  /\ Return(c, IF i = EvalLimit \/ rpcResponse = None THEN Failed ELSE rpcResponse)
  /\ UNCHANGED <<rpcResponse, tcpVars, serverVars, clientVars>>

-----------------------------------------------------------------------------
\* The steps invoke() takes once it is entered.
Invoke(c) ==
  \/ LockInvoke(c)
  \/ LockRequest(c)
  \/ SendDelivered(c) \/ SendLost(c) \/ SendThrows(c)
  \/ EnterWait(c) \/ Timeout(c) \/ WakeNotified(c) \/ WakeTimedOut(c)
  \/ Finish(c)

TcpThread == StoreResponse \/ Notify \/ CallMethodDone

Client == Accept \/ Disconnect \/ NewConnection \/ ReceiveAnswer \/ ReceiveRequest

MainThread ==
  StartTcpServer \/ StartDone \/ StopBegin
    \/ StopTcpServer \/ TcpServerStopped \/ JoinInterface

Next ==
  \/ MainThread
  \/ Client
  \/ TcpThread
  \/ \E c \in Callers : Call(c) \/ SpuriousWakeup(c) \/ Invoke(c)
  \/ Ended

Spec == Init /\ [][Next]_vars

(***************************************************************************)
(* Threads that can run do run, and a wait of one second ends.  Nothing    *)
(* obliges the client to answer or to connect, a family to call or to      *)
(* return from callMethod(), or the gateway to be stopped.                 *)
(***************************************************************************)
Fairness ==
  /\ \A c \in Callers : WF_vars(Invoke(c))
  /\ WF_vars(StoreResponse \/ Notify)
  /\ WF_vars(StopTcpServer \/ TcpServerStopped \/ JoinInterface)

FairSpec == Spec /\ Fairness

-----------------------------------------------------------------------------
TypeOK ==
  /\ pc \in [Callers -> Labels]
  /\ invokeMutex \in Callers \union {NoThread}
  /\ requestMutex \in Callers \union {NoThread}
  /\ rpcResponse \in Nat
  /\ waitForResponse \in BOOLEAN
  /\ i \in 0..EvalLimit
  /\ tcp \in {"idle", "store", "notify", "callMethod"}
  /\ decoded \in Nat
  /\ server \in {"down", "listening", "running", "stopping", "closing",
                 "closed", "joined"}
  /\ stopped \in BOOLEAN
  /\ connected \in BOOLEAN
  /\ clientId \in BOOLEAN
  /\ unanswered \subseteq Nat
  /\ history \in Seq(Nat)

(***************************************************************************)
(* While an invocation waits the flag that lets its answer in is set: no   *)
(* other invocation, failed Send() or late answer has cleared it           *)
(* (RpcServer.cpp 300, 326, 338).                                          *)
(***************************************************************************)
WaitingIsAnnounced ==
  \A c \in Callers :
    pc[c] \in OpenLabels => waitForResponse

(***************************************************************************)
(* No lost wake-up: a caller blocked in wait_for() while an answer is      *)
(* stored is about to be notified (RpcServer.cpp 301-304, 334-337).        *)
(***************************************************************************)
NoLostWakeup ==
  \A c \in Callers : pc[c] = "waiting" /\ rpcResponse # None => tcp = "notify"

(***************************************************************************)
(* An answer is returned by at most one invocation: neither the stored     *)
(* answer nor a late one is handed out again (RpcServer.cpp 325, 341).     *)
(***************************************************************************)
AtMostOnce ==
  \A m, n \in 1..Len(history) :
    history[m] = history[n] /\ history[m] # Failed => m = n

(***************************************************************************)
(* Until an invocation has failed, every invocation returns the answer to  *)
(* its own request.  After a failure the late answer may be returned by    *)
(* the next invocation, whose own answer then goes to the one after it.    *)
(***************************************************************************)
OwnAnswerUntilFailure ==
  \A n \in 1..Len(history) :
    history[n] \in {Failed, n} \/ \E m \in 1..(n - 1) : history[m] = Failed

(***************************************************************************)
(* The message of line 339: "No RPC response received." is what invoke()   *)
(* returns when no response was received.  FALSE of the code when the      *)
(* tenth evaluation of the predicate is the one that finds the response.   *)
(***************************************************************************)
NoResponseMeansNone ==
  [][\A c \in Callers :
       pc[c] = "finish" /\ pc'[c] = "idle" /\ history'[Len(history')] = Failed
         => rpcResponse = None]_vars

\* The mapping to RemoteCall: the label of the invocation that holds
\* _invokeMutex, and the answers that can still reach a caller.
Phase ==
  IF invokeMutex = NoThread \/ pc[invokeMutex] = "lockRequest" THEN "idle"
  ELSE IF pc[invokeMutex] = "send" THEN "asked" ELSE "sent"

Usable ==
  ( unanswered
    \union (IF tcp = "store" THEN {decoded} ELSE {})
    \union (IF Phase # "idle" THEN {rpcResponse} ELSE {}) ) \ {None}

Abstract == INSTANCE RemoteCall WITH phase <- Phase, usable <- Usable

(***************************************************************************)
(* invoke() with its threads, mutexes and timeouts implements RemoteCall.  *)
(***************************************************************************)
ImplementsRemoteCall == Abstract!Spec

(***************************************************************************)
(* The invocation that holds _invokeMutex returns, whatever the client     *)
(* does and even if the TCP thread never comes back from callMethod().     *)
(***************************************************************************)
HolderReturns == \A c \in Callers : (invokeMutex = c) ~> (invokeMutex # c)

(***************************************************************************)
(* stop() ends although it wakes no waiting caller and waits for them all, *)
(* unless a method of the family never returns (RpcServer.cpp 156-168).    *)
(***************************************************************************)
StopEnds ==
  (server = "stopping") ~> (server = "joined" \/ [](tcp = "callMethod"))
=============================================================================

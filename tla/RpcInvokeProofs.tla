-------------------------- MODULE RpcInvokeProofs --------------------------
(***************************************************************************)
(* Proofs about RpcInvoke: its inductive invariant, and that it implements *)
(* RemoteCall, whose theorem then says whose answer a caller is given.     *)
(***************************************************************************)
EXTENDS RpcInvoke, TLAPS

Calls == INSTANCE RemoteCallProofs WITH phase <- Phase, usable <- Usable

\* The program counters determine who holds the two mutexes.
MutexesFollowPc ==
  \A c \in Callers :
    /\ pc[c] \in OpenLabels \union {"lockRequest"} <=> invokeMutex = c
    /\ pc[c] \in {"send", "check", "finish"} <=> requestMutex = c

\* The counter starts at zero and a caller that may evaluate is below the limit.
CounterBelowLimit ==
  /\ invokeMutex = NoThread => i = 0
  /\ \A c \in Callers :
       /\ pc[c] \in {"lockRequest", "send"} => i = 0
       /\ pc[c] \in {"check", "waiting", "notified", "timedOut"} => i < EvalLimit

\* Only a request that was sent has an answer on its way.
Sent(n) == n # None /\ (n <= Len(history) \/ (Phase = "sent" /\ n = Current))

AnswersWereSent ==
  /\ \A n \in unanswered : Sent(n)
  /\ decoded # None => Sent(decoded)
  /\ rpcResponse # None => Sent(rpcResponse)

\* An answer is in one place only.
AnswersAreUnique ==
  /\ rpcResponse \notin unanswered
  /\ decoded # None => decoded \notin unanswered /\ decoded # rpcResponse
  /\ decoded # None <=> tcp = "store"

IInv ==
  /\ TypeOK
  /\ MutexesFollowPc
  /\ CounterBelowLimit
  /\ AnswersWereSent
  /\ AnswersAreUnique
  /\ WaitingIsAnnounced
  /\ NoLostWakeup

-----------------------------------------------------------------------------
LEMMA InitIInv == Init => IInv
<1> SUFFICES ASSUME Init PROVE IInv
  OBVIOUS
<1> USE CallersAssumption, EvalLimitAssumption DEF Init, None, Labels, OpenLabels
<1>1. TypeOK
  <2>1. history \in Seq(Nat) /\ unanswered \subseteq Nat
    OBVIOUS
  <2>2. pc \in [Callers -> Labels]
    OBVIOUS
  <2>3. waitForResponse \in BOOLEAN /\ stopped \in BOOLEAN
    OBVIOUS
  <2>4. connected \in BOOLEAN /\ clientId \in BOOLEAN
    OBVIOUS
  <2>5. i \in 0..EvalLimit
    OBVIOUS
  <2> QED
    BY <2>1, <2>2, <2>3, <2>4, <2>5 DEF TypeOK
<1>2. MutexesFollowPc
  BY DEF MutexesFollowPc
<1>3. CounterBelowLimit /\ WaitingIsAnnounced /\ NoLostWakeup
  BY DEF CounterBelowLimit, WaitingIsAnnounced, NoLostWakeup
<1>4. AnswersWereSent
  BY DEF AnswersWereSent
<1>5. AnswersAreUnique
  BY DEF AnswersAreUnique
<1> QED
  BY <1>1, <1>2, <1>3, <1>4, <1>5 DEF IInv

(* Every step of every thread keeps the invariant. *)
LEMMA NextIInv == IInv /\ [Next]_vars => IInv'
<1> SUFFICES ASSUME IInv, [Next]_vars PROVE IInv'
  OBVIOUS
<1> USE CallersAssumption, EvalLimitAssumption
    DEF IInv, TypeOK, MutexesFollowPc, CounterBelowLimit, AnswersWereSent,
        AnswersAreUnique, WaitingIsAnnounced, NoLostWakeup, Sent, Phase, Current,
        None, Failed, Labels, OpenLabels,
        callerVars, responseVars, tcpVars, serverVars, clientVars
<1>1. CASE StartTcpServer
  BY <1>1 DEF StartTcpServer
<1>2. CASE StartDone
  BY <1>2 DEF StartDone
<1>3. CASE StopBegin
  BY <1>3 DEF StopBegin
<1>4. CASE StopTcpServer
  BY <1>4 DEF StopTcpServer
<1>5. CASE TcpServerStopped
  BY <1>5 DEF TcpServerStopped
<1>6. CASE JoinInterface
  BY <1>6 DEF JoinInterface
<1>7. CASE Accept
  BY <1>7 DEF Accept, Listening
<1>8. CASE NewConnection
  BY <1>8 DEF NewConnection, Listening
<1>9. CASE Disconnect
  <2>1. TypeOK'
    BY <1>9 DEF Disconnect
  <2>2. MutexesFollowPc' /\ CounterBelowLimit'
    BY <1>9 DEF Disconnect
  <2>3. AnswersWereSent'
    BY <1>9 DEF Disconnect
  <2>4. AnswersAreUnique' /\ WaitingIsAnnounced' /\ NoLostWakeup'
    BY <1>9 DEF Disconnect
  <2> QED
    BY <2>1, <2>2, <2>3, <2>4
<1>10. CASE ReceiveAnswer
  BY <1>10 DEF ReceiveAnswer, Listening
<1>11. CASE ReceiveRequest
  BY <1>11 DEF ReceiveRequest, Listening
<1>12. CASE StoreResponse
  BY <1>12 DEF StoreResponse
<1>13. CASE Notify
  BY <1>13 DEF Notify
<1>14. CASE CallMethodDone
  BY <1>14 DEF CallMethodDone
<1>15. ASSUME NEW c \in Callers, Call(c) \/ SpuriousWakeup(c) \/ Invoke(c) PROVE IInv'
  <2>1. CASE Call(c)
    BY <2>1 DEF Call, Goto
  <2>2. CASE LockInvoke(c)
    BY <2>2 DEF LockInvoke, Goto
  <2>3. CASE LockRequest(c)
    BY <2>3 DEF LockRequest, Goto
  <2>4. CASE SendDelivered(c)
    <3>1. TypeOK' /\ unanswered' \subseteq Nat
      <4>1. Current \in Nat
        OBVIOUS
      <4>2. unanswered' \subseteq Nat
        BY <2>4, <4>1 DEF SendDelivered
      <4> QED
        BY <2>4, <4>2 DEF SendDelivered, Goto
    <3> QED
      BY <2>4, <3>1 DEF SendDelivered, Goto
  <2>5. CASE SendLost(c)
    BY <2>5 DEF SendLost, Goto
  <2>6. CASE SendThrows(c)
    BY <2>6 DEF SendThrows, Goto, Return
  <2>7. CASE EnterWait(c)
    BY <2>7 DEF EnterWait, Goto, Evaluate, Predicate
  <2>8. CASE SpuriousWakeup(c)
    BY <2>8 DEF SpuriousWakeup, Goto
  <2>9. CASE Timeout(c)
    BY <2>9 DEF Timeout, Goto
  <2>10. CASE WakeNotified(c)
    BY <2>10 DEF WakeNotified, Goto, Evaluate, Predicate
  <2>11. CASE WakeTimedOut(c)
    BY <2>11 DEF WakeTimedOut, Goto, Evaluate, Predicate
  <2>12. CASE Finish(c)
    <3> DEFINE outcome == IF i = EvalLimit \/ rpcResponse = None THEN Failed ELSE rpcResponse
    <3>1. /\ outcome \in Nat
          /\ history' = Append(history, outcome)
          /\ Phase = "sent" /\ Phase' = "idle"
      BY <2>12 DEF Finish, Return, Goto
    <3>2. history' \in Seq(Nat) /\ Len(history') = Len(history) + 1 /\ Len(history) \in Nat
      BY <3>1
    <3> HIDE DEF outcome
    <3>3. TypeOK'
      <4>1. /\ pc' = [pc EXCEPT ![c] = "idle"] /\ i' = 0
            /\ invokeMutex' = NoThread /\ requestMutex' = NoThread
            /\ waitForResponse' = FALSE
            /\ UNCHANGED <<rpcResponse, tcpVars, serverVars, clientVars>>
        BY <2>12 DEF Finish, Return, Goto
      <4>2. waitForResponse' \in BOOLEAN
        BY <4>1
      <4>3. i' \in 0..EvalLimit
        BY <4>1
      <4>4. pc' \in [Callers -> Labels]
        BY <4>1
      <4> QED
        BY <3>2, <4>1, <4>2, <4>3, <4>4
    <3>4. MutexesFollowPc' /\ CounterBelowLimit'
      BY <2>12, <3>2 DEF Finish, Return, Goto
    <3>5. \A n \in Nat : Sent(n) => Sent(n)'
      BY <3>1, <3>2
    <3>6. AnswersWereSent'
      BY <2>12, <3>5 DEF Finish
    <3>7. AnswersAreUnique' /\ WaitingIsAnnounced' /\ NoLostWakeup'
      BY <2>12 DEF Finish, Return, Goto
    <3> QED
      BY <3>3, <3>4, <3>6, <3>7
  <2> QED
    BY <1>15, <2>1, <2>2, <2>3, <2>4, <2>5, <2>6, <2>7, <2>8, <2>9, <2>10, <2>11, <2>12 DEF Invoke
<1>16. CASE UNCHANGED vars
  BY <1>16 DEF vars
<1> QED
  BY <1>1, <1>2, <1>3, <1>4, <1>5, <1>6, <1>7, <1>8, <1>9, <1>10, <1>11, <1>12, <1>13, <1>14, <1>15, <1>16
  DEF Next, MainThread, Client, TcpThread, Ended

(***************************************************************************)
(* The inductive invariant of invoke(), and with it: the types, in         *)
(* particular the counter that never passes the limit whatever wakes the   *)
(* caller.                                                                 *)
(***************************************************************************)
THEOREM Invariant == Spec => []IInv
  BY InitIInv, NextIInv, PTL DEF Spec

THEOREM TypeCorrect == Spec => []TypeOK
<1>1. IInv => TypeOK
  BY DEF IInv
<1> QED
  BY <1>1, Invariant, PTL

(***************************************************************************)
(* A caller that waits has announced it, so the TCP thread does not drop   *)
(* its answer.                                                             *)
(***************************************************************************)
THEOREM WaitersAreAnnounced == Spec => []WaitingIsAnnounced
<1>1. IInv => WaitingIsAnnounced
  BY DEF IInv
<1> QED
  BY <1>1, Invariant, PTL

(***************************************************************************)
(* A caller never sleeps on a stored answer without a notification to come.*)
(***************************************************************************)
THEOREM NoWakeupIsLost == Spec => []NoLostWakeup
<1>1. IInv => NoLostWakeup
  BY DEF IInv
<1> QED
  BY <1>1, Invariant, PTL

-----------------------------------------------------------------------------
(* Refinement: what each step does to Phase and Usable.                    *)

LEMMA InitRefines == Init => Calls!Init
  BY CallersAssumption DEF Init, Calls!Init, Phase, Usable, None

(* A step that leaves the callers alone loses answers, at most.            *)
LEMMA Loses ==
  ASSUME UNCHANGED <<Phase, history>>, Usable' \subseteq Usable
  PROVE  Calls!Next
  BY DEF Calls!Next, Calls!Lose

LEMMA ServerStepRefines ==
  IInv /\ (MainThread \/ Client \/ TcpThread) => Calls!Next
<1> SUFFICES ASSUME IInv, MainThread \/ Client \/ TcpThread PROVE Calls!Next
  OBVIOUS
<1> USE DEF callerVars, responseVars, tcpVars, serverVars, clientVars
<1>1. UNCHANGED history
  BY DEF MainThread, StartTcpServer, StartDone, StopBegin, StopTcpServer,
         TcpServerStopped, JoinInterface, Client, Accept, Disconnect, NewConnection,
         ReceiveAnswer, ReceiveRequest, TcpThread, StoreResponse, Notify, CallMethodDone
<1>2. UNCHANGED Phase
  <2>1. CASE Notify
    BY <2>1, CallersAssumption DEF Notify, Phase, IInv, TypeOK
  <2>2. CASE UNCHANGED <<pc, invokeMutex>>
    BY <2>2 DEF Phase
  <2> QED
    BY <2>1, <2>2
    DEF MainThread, StartTcpServer, StartDone, StopBegin, StopTcpServer,
        TcpServerStopped, JoinInterface, Client, Accept, Disconnect, NewConnection,
        ReceiveAnswer, ReceiveRequest, TcpThread, StoreResponse, CallMethodDone
<1>3. Usable' \subseteq Usable
  <2>1. CASE ReceiveAnswer
    BY <1>2, <2>1 DEF ReceiveAnswer, Usable, IInv, AnswersAreUnique
  <2>2. CASE StoreResponse
    BY <1>2, <2>2 DEF StoreResponse, Usable
  <2>3. CASE /\ UNCHANGED <<decoded, rpcResponse>>
             /\ tcp' = tcp \/ tcp' # "store"
             /\ unanswered' \subseteq unanswered
    BY <1>2, <2>3 DEF Usable
  <2> QED
    BY <2>1, <2>2, <2>3
    DEF MainThread, StartTcpServer, StartDone, StopBegin, StopTcpServer,
        TcpServerStopped, JoinInterface, Client, Accept, Disconnect, NewConnection,
        ReceiveRequest, TcpThread, Notify, CallMethodDone
<1> QED
  BY <1>1, <1>2, <1>3, Loses

LEMMA CallerStepRefines ==
  ASSUME IInv, NEW c \in Callers, Call(c) \/ SpuriousWakeup(c) \/ Invoke(c)
  PROVE  [Calls!Next]_(Calls!vars)
<1> USE CallersAssumption
    DEF IInv, TypeOK, MutexesFollowPc, Goto, Labels, OpenLabels,
        callerVars, responseVars, tcpVars, serverVars, clientVars
<1>1. CASE Call(c) \/ LockInvoke(c)
  <2>1. UNCHANGED <<Phase, history>>
    BY <1>1 DEF Call, LockInvoke, Phase
  <2>2. UNCHANGED Usable
    BY <1>1, <2>1 DEF Call, LockInvoke, Usable
  <2> QED
    BY <2>1, <2>2 DEF Calls!vars
<1>2. CASE LockRequest(c)
  <2>1. Phase = "idle" /\ Phase' = "asked" /\ UNCHANGED history
    BY <1>2 DEF LockRequest, Phase
  <2>2. Usable' \subseteq Usable
    BY <1>2, <2>1 DEF LockRequest, Usable, None
  <2> QED
    BY <2>1, <2>2 DEF Calls!Next, Calls!Ask
<1>3. CASE SendDelivered(c) \/ SendLost(c)
  <2>1. Phase = "asked" /\ Phase' = "sent" /\ UNCHANGED history
    BY <1>3 DEF SendDelivered, SendLost, Phase
  <2>2. Usable' \in {Usable, Usable \union {Current}}
    BY <1>3, <2>1 DEF SendDelivered, SendLost, Usable, Current, None
  <2> QED
    BY <2>1, <2>2 DEF Calls!Next, Calls!Send, Current, Calls!Current
<1>4. CASE SendThrows(c)
  <2>1. Phase = "asked" /\ Phase' = "idle" /\ history' = Append(history, 0)
    BY <1>4 DEF SendThrows, Return, Phase, Failed
  <2>2. Usable' \subseteq Usable
    BY <1>4, <2>1 DEF SendThrows, Usable
  <2> QED
    BY <2>1, <2>2 DEF Calls!Next, Calls!Fail
<1>5. CASE EnterWait(c) \/ SpuriousWakeup(c) \/ Timeout(c) \/ WakeNotified(c)
             \/ WakeTimedOut(c)
  <2>1. UNCHANGED <<Phase, history>>
    BY <1>5 DEF EnterWait, SpuriousWakeup, Timeout, WakeNotified, WakeTimedOut,
                Evaluate, Phase
  <2>2. UNCHANGED Usable
    BY <1>5, <2>1 DEF EnterWait, SpuriousWakeup, Timeout, WakeNotified, WakeTimedOut,
                      Evaluate, Usable
  <2> QED
    BY <2>1, <2>2 DEF Calls!vars
<1>6. CASE Finish(c)
  <2>1. Phase = "sent" /\ Phase' = "idle"
    BY <1>6 DEF Finish, Return, Phase
  <2>2. CASE i = EvalLimit \/ rpcResponse = None
    <3>1. history' = Append(history, 0)
      BY <1>6, <2>2 DEF Finish, Return, Failed
    <3>2. Usable' \subseteq Usable
      BY <1>6, <2>1 DEF Finish, Usable
    <3> QED
      BY <2>1, <3>1, <3>2 DEF Calls!Next, Calls!Fail
  <2>3. CASE ~(i = EvalLimit \/ rpcResponse = None)
    <3>1. history' = Append(history, rpcResponse)
      BY <1>6, <2>3 DEF Finish, Return
    <3>2. rpcResponse \in Usable
      BY <2>1, <2>3 DEF Usable
    <3>3. Usable' \subseteq Usable \ {rpcResponse}
      BY <1>6, <2>1 DEF Finish, Usable, AnswersAreUnique, None
    <3> QED
      BY <2>1, <3>1, <3>2, <3>3 DEF Calls!Next, Calls!Answered
  <2> QED
    BY <2>2, <2>3
<1> QED
  BY <1>1, <1>2, <1>3, <1>4, <1>5, <1>6 DEF Invoke

(***************************************************************************)
(* invoke() implements RemoteCall: every step is one of its steps or       *)
(* leaves its variables alone.                                             *)
(***************************************************************************)
THEOREM Refinement == Spec => ImplementsRemoteCall
<1>1. Init => Abstract!Init
  BY InitRefines DEF Calls!Init, Abstract!Init
<1>2. IInv /\ [Next]_vars => [Abstract!Next]_(Abstract!vars)
  <2> SUFFICES ASSUME IInv, [Next]_vars PROVE [Calls!Next]_(Calls!vars)
    BY DEF Calls!Next, Calls!vars, Calls!Ask, Calls!Send, Calls!Lose, Calls!Answered,
           Calls!Fail, Calls!Current, Abstract!Next, Abstract!vars, Abstract!Ask,
           Abstract!Send, Abstract!Lose, Abstract!Answered, Abstract!Fail, Abstract!Current
  <2>1. CASE MainThread \/ Client \/ TcpThread
    BY <2>1, ServerStepRefines
  <2>2. CASE \E c \in Callers : Call(c) \/ SpuriousWakeup(c) \/ Invoke(c)
    BY <2>2, CallerStepRefines
  <2>3. CASE UNCHANGED vars
    BY <2>3 DEF vars, Calls!vars, Phase, Usable
  <2> QED
    BY <2>1, <2>2, <2>3 DEF Next, Ended
<1> QED
  BY <1>1, <1>2, Invariant, PTL DEF Spec, ImplementsRemoteCall, Abstract!Spec

(* The theorem of RemoteCall, of the mapped variables. *)
LEMMA CallsInvariant == Spec => []Calls!IInv
<1>1. [Abstract!Next]_(Abstract!vars) => [Calls!Next]_(Calls!vars)
  BY DEF Calls!Next, Calls!vars, Calls!Ask, Calls!Send, Calls!Lose, Calls!Answered,
         Calls!Fail, Calls!Current, Abstract!Next, Abstract!vars, Abstract!Ask,
         Abstract!Send, Abstract!Lose, Abstract!Answered, Abstract!Fail, Abstract!Current
<1>2. Abstract!Init => Calls!Init
  BY DEF Calls!Init, Abstract!Init
<1> QED
  BY <1>1, <1>2, Refinement, Calls!AnswerAttribution, PTL
  DEF ImplementsRemoteCall, Abstract!Spec, Calls!Spec

(***************************************************************************)
(* No answer is returned twice.                                            *)
(***************************************************************************)
THEOREM AnswersReturnedOnce == Spec => []AtMostOnce
<1>1. Calls!IInv => AtMostOnce
  BY DEF Calls!IInv, Calls!AtMostOnce, AtMostOnce, Failed
<1> QED
  BY <1>1, CallsInvariant, PTL

(***************************************************************************)
(* Until an invocation has failed, each returns the answer to its request. *)
(***************************************************************************)
THEOREM AnswersAreOwnUntilFailure == Spec => []OwnAnswerUntilFailure
<1>1. Calls!IInv => OwnAnswerUntilFailure
  BY DEF Calls!IInv, Calls!OwnAnswerUntilFailure, OwnAnswerUntilFailure, Failed
<1> QED
  BY <1>1, CallsInvariant, PTL
=============================================================================

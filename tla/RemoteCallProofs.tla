-------------------------- MODULE RemoteCallProofs --------------------------
(***************************************************************************)
(* What RemoteCall guarantees of the answers it returns.                   *)
(***************************************************************************)
EXTENDS RemoteCall, TLAPS

TypeOK ==
  /\ phase \in {"idle", "asked", "sent"}
  /\ usable \in SUBSET (Nat \ {0})
  /\ history \in Seq(Nat)

\* Only a request that was sent can still be answered.
UsableWasSent ==
  \A n \in usable : n <= Len(history) \/ (phase = "sent" /\ n = Current)

\* A returned answer is used up.
ReturnedIsUsedUp == \A n \in 1..Len(history) : history[n] \notin usable

AtMostOnce ==
  \A m, n \in 1..Len(history) : history[m] = history[n] /\ history[m] # 0 => m = n

\* The answer returned belongs to this or to an earlier invocation.
NotFromTheFuture == \A n \in 1..Len(history) : history[n] <= n

OwnAnswerUntilFailure ==
  \A n \in 1..Len(history) :
    history[n] \in {0, n} \/ \E m \in 1..(n - 1) : history[m] = 0

IInv ==
  /\ TypeOK
  /\ UsableWasSent
  /\ ReturnedIsUsedUp
  /\ AtMostOnce
  /\ NotFromTheFuture
  /\ OwnAnswerUntilFailure

-----------------------------------------------------------------------------
(* Appending an outcome.                                                   *)
LEMMA AppendFacts ==
  ASSUME NEW h \in Seq(Nat), NEW r \in Nat
  PROVE  /\ Append(h, r) \in Seq(Nat)
         /\ Len(Append(h, r)) = Len(h) + 1
         /\ Append(h, r)[Len(h) + 1] = r
         /\ \A k \in 1..Len(h) : Append(h, r)[k] = h[k]
         /\ Len(h) \in Nat
         /\ \A k \in 1..Len(h) : h[k] \in Nat
  OBVIOUS

(* A failed invocation keeps the invariant.                                *)
LEMMA FailKeepsIInv == IInv /\ Fail => IInv'
<1> SUFFICES ASSUME IInv, Fail PROVE IInv'
  OBVIOUS
<1> USE DEF IInv, TypeOK
<1>1. /\ history' \in Seq(Nat)
      /\ Len(history') = Len(history) + 1
      /\ history'[Len(history) + 1] = 0
      /\ \A k \in 1..Len(history) : history'[k] = history[k]
      /\ Len(history) \in Nat
      /\ \A k \in 1..Len(history) : history[k] \in Nat
  BY AppendFacts DEF Fail
<1>2. phase' = "idle" /\ usable' \subseteq usable
  BY DEF Fail
<1>3. UsableWasSent'
  BY <1>1, <1>2 DEF UsableWasSent, Current
<1>4. ReturnedIsUsedUp'
  BY <1>1, <1>2 DEF ReturnedIsUsedUp
<1>5. AtMostOnce'
  BY <1>1 DEF AtMostOnce
<1>6. NotFromTheFuture'
  BY <1>1 DEF NotFromTheFuture
<1>7. OwnAnswerUntilFailure'
  <2> SUFFICES ASSUME NEW n \in 1..Len(history) + 1, history'[n] \notin {0, n}
               PROVE  \E m \in 1..(n - 1) : history'[m] = 0
    BY <1>1 DEF OwnAnswerUntilFailure
  <2>1. n \in 1..Len(history) /\ history[n] \notin {0, n}
    BY <1>1
  <2>2. PICK m \in 1..(n - 1) : history[m] = 0
    BY <2>1 DEF OwnAnswerUntilFailure
  <2>3. m \in 1..Len(history)
    BY <1>1, <2>1
  <2>4. history'[m] = 0
    BY <1>1, <2>2, <2>3
  <2> QED
    BY <2>4
<1> QED
  BY <1>1, <1>2, <1>3, <1>4, <1>5, <1>6, <1>7

(* If none of the earlier invocations failed, each has its own answer.     *)
LEMMA EarlierAnswersAreOwn ==
  ASSUME IInv, \A m \in 1..Len(history) : history[m] # 0
  PROVE  \A m \in 1..Len(history) : history[m] = m
  BY DEF IInv, TypeOK, OwnAnswerUntilFailure

(* An answered invocation keeps the invariant.                             *)
LEMMA AnsweredKeepsIInv == IInv /\ Answered => IInv'
<1> SUFFICES ASSUME IInv, Answered PROVE IInv'
  OBVIOUS
<1> USE DEF IInv, TypeOK
<1> PICK r \in usable : /\ history' = Append(history, r)
                        /\ usable' \subseteq usable \ {r}
  BY DEF Answered
<1>1. /\ history' \in Seq(Nat)
      /\ Len(history') = Len(history) + 1
      /\ history'[Len(history) + 1] = r
      /\ \A k \in 1..Len(history) : history'[k] = history[k]
      /\ Len(history) \in Nat
      /\ \A k \in 1..Len(history) : history[k] \in Nat
  BY AppendFacts
<1>2. phase' = "idle" /\ phase = "sent" /\ r # 0 /\ r \in Nat
  BY DEF Answered
<1>3. r <= Len(history) + 1
  BY <1>1, <1>2 DEF UsableWasSent, Current
<1>4. \A k \in 1..Len(history) : history[k] # r
  BY DEF ReturnedIsUsedUp
<1>5. UsableWasSent'
  BY <1>1, <1>2 DEF UsableWasSent, Current
<1>6. ReturnedIsUsedUp'
  BY <1>1, <1>2 DEF ReturnedIsUsedUp
<1>7. AtMostOnce'
  BY <1>1, <1>4 DEF AtMostOnce
<1>8. NotFromTheFuture'
  BY <1>1, <1>3 DEF NotFromTheFuture
<1>9. OwnAnswerUntilFailure'
  <2>1. CASE \E m \in 1..Len(history) : history[m] = 0
    BY <1>1, <2>1 DEF OwnAnswerUntilFailure
  <2>2. CASE \A m \in 1..Len(history) : history[m] # 0
    <3>1. \A m \in 1..Len(history) : history[m] = m
      BY <2>2, EarlierAnswersAreOwn
    <3>2. r = Len(history) + 1
      BY <3>1, <1>1, <1>2, <1>3, <1>4
    <3> QED
      BY <3>1, <3>2, <1>1 DEF OwnAnswerUntilFailure
  <2> QED
    BY <2>1, <2>2
<1> QED
  BY <1>1, <1>2, <1>5, <1>6, <1>7, <1>8, <1>9

(***************************************************************************)
(* Every answer is returned at most once and never before its request, and *)
(* until an invocation has failed each returns its own answer.             *)
(***************************************************************************)
THEOREM AnswerAttribution == Spec => []IInv
<1>1. Init => IInv
  BY DEF Init, IInv, TypeOK, UsableWasSent, ReturnedIsUsedUp, AtMostOnce,
         NotFromTheFuture, OwnAnswerUntilFailure
<1>2. IInv /\ [Next]_vars => IInv'
  <2> SUFFICES ASSUME IInv, [Next]_vars PROVE IInv'
    OBVIOUS
  <2> USE DEF IInv, TypeOK, UsableWasSent, ReturnedIsUsedUp, AtMostOnce,
              NotFromTheFuture, OwnAnswerUntilFailure, Current
  <2>0. Len(history) \in Nat
    OBVIOUS
  <2>1. CASE Ask
    BY <2>0, <2>1 DEF Ask
  <2>2. CASE Send
    <3>1. usable' \in SUBSET (Nat \ {0})
      BY <2>0, <2>2 DEF Send
    <3>2. ReturnedIsUsedUp'
      BY <2>0, <2>2 DEF Send
    <3> QED
      BY <2>0, <2>2, <3>1, <3>2 DEF Send
  <2>3. CASE Lose
    BY <2>0, <2>3 DEF Lose
  <2>4. CASE Answered
    BY <2>4, AnsweredKeepsIInv
  <2>5. CASE Fail
    BY <2>5, FailKeepsIInv
  <2>6. CASE UNCHANGED vars
    BY <2>0, <2>6 DEF vars
  <2> QED
    BY <2>1, <2>2, <2>3, <2>4, <2>5, <2>6 DEF Next
<1> QED
  BY <1>1, <1>2, PTL DEF Spec
=============================================================================

---------------------------- MODULE Cc1101Proofs ----------------------------
(***************************************************************************)
(* Proofs about Cc1101, for every family and any number of device faults:  *)
(* _txMutex is released whenever nothing is on the air, and the receiver   *)
(* is not left switched off.                                               *)
(***************************************************************************)
EXTENDS Cc1101, TLAPS

\* Where the listening thread, or start(), is on its way to unlock _txMutex.
Releasing == {"high", "endSending", "receive", "rearm", "unlock", "lost", "release",
              "open", "enableRX", "openGpio", "ended", "crashed"}

\* A sender that has announced itself; a sender that is at work.
Announced == {"lock", "unlock", "again", "locked"}
Working == {"locked", "send", "transmit", "registers", "configured"}

\* The listening thread is going to look at the pin, or at the device.
WillLook == hung \/ ~Usable \/ edge

-----------------------------------------------------------------------------
\* While somebody holds _txMutex there is a reason to expect that it is unlocked.
HeldForAReason ==
  txMutex # NoThread =>
    \/ WillLook
    \/ chip \in OnAir \union {"tx"}
    \/ main \in Releasing
    \/ \E t \in Threads : sender[t] \in Working

\* Between reading the level "low" and taking _txMutex the packet may end, but
\* then there is another edge.
LowIsTransient == main = "low" => WillLook \/ chip \in OnAir

\* While the device is reopened the pin is closed; opening it reports an edge.
Reopening ==
  /\ main \in {"lost", "release"} => ~Usable
  /\ main \in {"open", "enableRX", "openGpio"} => ~gpio
  /\ main = "initDone" => edge \/ ~Usable
  /\ stopped => main \in {"lost", "release", "open", "enableRX", "openGpio",
                          "initDone", "ended", "crashed"}

PendingIsSomebodys == sendingPending => \E t \in Threads : sender[t] \in Announced

\* If the transceiver is idle, somebody is going to start it.
IdleForAReason ==
  chip = "idle" =>
    \/ WillLook
    \/ gaveUp
    \/ stopCallbackThread
    \/ main \in {"high", "endSending", "receive", "rearm", "ended", "crashed"}
    \/ \E t \in Threads : sender[t] \in Announced \union {"send", "transmit"}

\* Only disableUpdateMode() is running while the interface is not up.
Restarting ==
  /\ life # "up" => sender["tcp"] \in {"idle", "restart"}
  /\ life = "closing" => main \in {"ended", "crashed"}

IInv ==
  /\ TypeOK
  /\ HeldForAReason
  /\ LowIsTransient
  /\ Reopening
  /\ PendingIsSomebodys
  /\ IdleForAReason
  /\ Restarting
-----------------------------------------------------------------------------
LEMMA Initial == Init => IInv
<1> SUFFICES ASSUME Init PROVE IInv
  OBVIOUS
<1>1. family \in {"homematic", "max", "test"} /\ 0 \in 0 .. MaxFaults[family]
  BY MaxFaultsAssumption DEF Init
<1>2. TypeOK
  BY <1>1 DEF Init, TypeOK, ThreadTypes, LockTypes, FlagTypes, DeviceTypes, Labels,
    SendLabels, Threads, NoThread, OnAir
<1>3. HeldForAReason /\ LowIsTransient /\ Reopening /\ PendingIsSomebodys
        /\ IdleForAReason /\ Restarting
  BY DEF Init, HeldForAReason, LowIsTransient, Reopening, PendingIsSomebodys,
    IdleForAReason, Restarting, WillLook, Usable, NoThread, Threads
<1> QED BY <1>2, <1>3 DEF IInv

\* A fault counts below the bound.
LEMMA FaultIsCounted ==
  ASSUME TypeOK, Fault
  PROVE  faults' \in 0 .. MaxFaults[family]
<1>1. faults \in Nat /\ MaxFaults[family] \in Nat
  BY MaxFaultsAssumption DEF TypeOK, ThreadTypes, DeviceTypes
<1> QED BY <1>1 DEF Fault

(***************************************************************************)
(* Opening the device, by start() and by the reconnect.                    *)
(***************************************************************************)
LEMMA InitDevicePreserves ==
  ASSUME IInv, InitDevice
  PROVE  IInv'
<1> USE FaultIsCounted DEF InitDevice, Open, EnableRX, OpenGpio, InitDone, Strobe,
      Receiving, threadVars, lockVars, flagVars, deviceVars, chipVars, Becomes, OnAir,
      Threads, NoThread, Usable
<1>1. ThreadTypes'
  BY DEF IInv, TypeOK, ThreadTypes, Labels, SendLabels
<1>2. LockTypes'
  BY DEF IInv, TypeOK, LockTypes
<1>3. FlagTypes'
  BY DEF IInv, TypeOK, FlagTypes
<1>4. DeviceTypes'
  BY DEF IInv, TypeOK, DeviceTypes, ThreadTypes
<1>5. HeldForAReason'
  BY DEF IInv, TypeOK, ThreadTypes, LockTypes, FlagTypes, DeviceTypes, HeldForAReason,
    LowIsTransient, Reopening, WillLook, Releasing, Working, AtRest
<1>6. LowIsTransient'
  BY DEF IInv, TypeOK, ThreadTypes, LockTypes, FlagTypes, DeviceTypes, LowIsTransient,
    WillLook, Reopening
<1>7. Reopening'
  BY DEF IInv, TypeOK, ThreadTypes, LockTypes, FlagTypes, DeviceTypes, Reopening,
    Restarting
<1>8. PendingIsSomebodys'
  BY DEF IInv, TypeOK, ThreadTypes, LockTypes, FlagTypes, DeviceTypes,
    PendingIsSomebodys, Announced, Restarting
<1>9. IdleForAReason'
  BY DEF IInv, TypeOK, ThreadTypes, LockTypes, FlagTypes, DeviceTypes, IdleForAReason,
    PendingIsSomebodys, Reopening, WillLook, Announced
<1>10. Restarting'
  BY DEF IInv, TypeOK, ThreadTypes, LockTypes, FlagTypes, DeviceTypes, Restarting
<1> QED BY <1>1, <1>2, <1>3, <1>4, <1>5, <1>6, <1>7, <1>8, <1>9, <1>10 DEF IInv, TypeOK

(***************************************************************************)
(* The listening thread: what it does with an edge, a packet or a lost     *)
(* device.                                                                 *)
(***************************************************************************)
LEMMA MainThreadPreserves ==
  ASSUME IInv, MainThread
  PROVE  IInv'
<1> USE FaultIsCounted DEF MainThread, ListenStep, NullDescriptor, Poll, Low, High,
      EndSending, Receive, Rearm, Unlock, Invoked, ReopenGpio, Lost, Abandon, Release,
      ThreadEnds, PollFails, Running, Strobe, Receiving, threadVars, lockVars, flagVars,
      deviceVars, chipVars, Becomes, OnAir, Threads, NoThread, Usable
<1>1. ThreadTypes'
  BY DEF IInv, TypeOK, ThreadTypes, Labels, SendLabels
<1>2. LockTypes'
  BY DEF IInv, TypeOK, LockTypes
<1>3. FlagTypes'
  BY DEF IInv, TypeOK, FlagTypes
<1>4. DeviceTypes'
  BY DEF IInv, TypeOK, DeviceTypes, ThreadTypes
<1>5. HeldForAReason'
  BY DEF IInv, TypeOK, ThreadTypes, LockTypes, FlagTypes, DeviceTypes, HeldForAReason,
    LowIsTransient, Reopening, WillLook, Releasing, Working, AtRest
<1>6. LowIsTransient'
  BY DEF IInv, TypeOK, ThreadTypes, LockTypes, FlagTypes, DeviceTypes, LowIsTransient,
    WillLook, Reopening
<1>7. Reopening'
  BY DEF IInv, TypeOK, ThreadTypes, LockTypes, FlagTypes, DeviceTypes, Reopening,
    Restarting
<1>8. PendingIsSomebodys'
  BY DEF IInv, TypeOK, ThreadTypes, LockTypes, FlagTypes, DeviceTypes,
    PendingIsSomebodys, Announced, Restarting
<1>9. IdleForAReason'
  BY DEF IInv, TypeOK, ThreadTypes, LockTypes, FlagTypes, DeviceTypes, IdleForAReason,
    PendingIsSomebodys, Reopening, WillLook, Announced
<1>10. Restarting'
  BY DEF IInv, TypeOK, ThreadTypes, LockTypes, FlagTypes, DeviceTypes, Restarting
<1> QED BY <1>1, <1>2, <1>3, <1>4, <1>5, <1>6, <1>7, <1>8, <1>9, <1>10 DEF IInv, TypeOK

(***************************************************************************)
(* A thread that sends: the TCP thread, or the one of the transmission     *)
(* test.                                                                   *)
(***************************************************************************)
LEMMA SenderPreserves ==
  ASSUME IInv, NEW t \in Threads, t = "tx" => family = "test",
         \/ Pending(t) /\ sender[t] \in {"idle", "loop"} /\ (t = "tcp" => life = "up")
         \/ Timeouts(t) /\ family # "max"
         \/ Lock(t) \/ Transmission(t)
  PROVE  IInv'
<1> USE FaultIsCounted DEF Pending, Lock, Timeouts, LockTimeout, ForceUnlock,
      SecondTimeout, Transmission, Recheck, BeginSending, Transmit, Goto, Strobe,
      threadVars, lockVars, flagVars, deviceVars, chipVars, Becomes, OnAir, Threads,
      NoThread, Usable
<1>1. ThreadTypes'
  BY DEF IInv, TypeOK, ThreadTypes, Labels, SendLabels
<1>2. LockTypes'
  BY DEF IInv, TypeOK, LockTypes
<1>3. FlagTypes'
  BY DEF IInv, TypeOK, FlagTypes
<1>4. DeviceTypes'
  BY DEF IInv, TypeOK, DeviceTypes, ThreadTypes
<1>5. HeldForAReason'
  BY DEF IInv, TypeOK, ThreadTypes, LockTypes, FlagTypes, DeviceTypes, HeldForAReason,
    LowIsTransient, Reopening, WillLook, Releasing, Working, AtRest
<1>6. LowIsTransient'
  BY DEF IInv, TypeOK, ThreadTypes, LockTypes, FlagTypes, DeviceTypes, LowIsTransient,
    WillLook, Reopening
<1>7. Reopening'
  BY DEF IInv, TypeOK, ThreadTypes, LockTypes, FlagTypes, DeviceTypes, Reopening,
    Restarting
<1>8. PendingIsSomebodys'
  BY DEF IInv, TypeOK, ThreadTypes, LockTypes, FlagTypes, DeviceTypes,
    PendingIsSomebodys, Announced, Restarting
<1>9. IdleForAReason'
  BY DEF IInv, TypeOK, ThreadTypes, LockTypes, FlagTypes, DeviceTypes, IdleForAReason,
    PendingIsSomebodys, Reopening, WillLook, Announced
<1>10. Restarting'
  BY DEF IInv, TypeOK, ThreadTypes, LockTypes, FlagTypes, DeviceTypes, Restarting
<1> QED BY <1>1, <1>2, <1>3, <1>4, <1>5, <1>6, <1>7, <1>8, <1>9, <1>10 DEF IInv, TypeOK

(***************************************************************************)
(* The methods that do not send.                                           *)
(***************************************************************************)
LEMMA MethodsPreserve ==
  ASSUME IInv,
         \/ family = "test" /\ TxEnds
         \/ StartTx \/ StopTx \/ EnableUpdateMode \/ DisableUpdateMode
         \/ Destroy \/ Joined \/ Close
  PROVE  IInv'
<1> USE FaultIsCounted DEF TxEnds, StartTx, StopTx, EnableUpdateMode,
      DisableUpdateMode, Destroy, Joined, Close, Called, Goto, Strobe, threadVars,
      lockVars, flagVars, deviceVars, chipVars, Becomes, OnAir, Threads, NoThread, Usable
<1>1. ThreadTypes'
  BY DEF IInv, TypeOK, ThreadTypes, Labels, SendLabels
<1>2. LockTypes'
  BY DEF IInv, TypeOK, LockTypes
<1>3. FlagTypes'
  BY DEF IInv, TypeOK, FlagTypes
<1>4. DeviceTypes'
  BY DEF IInv, TypeOK, DeviceTypes, ThreadTypes
<1>5. HeldForAReason'
  BY DEF IInv, TypeOK, ThreadTypes, LockTypes, FlagTypes, DeviceTypes, HeldForAReason,
    LowIsTransient, Reopening, WillLook, Releasing, Working, AtRest
<1>6. LowIsTransient'
  BY DEF IInv, TypeOK, ThreadTypes, LockTypes, FlagTypes, DeviceTypes, LowIsTransient,
    WillLook, Reopening
<1>7. Reopening'
  BY DEF IInv, TypeOK, ThreadTypes, LockTypes, FlagTypes, DeviceTypes, Reopening,
    Restarting
<1>8. PendingIsSomebodys'
  BY DEF IInv, TypeOK, ThreadTypes, LockTypes, FlagTypes, DeviceTypes,
    PendingIsSomebodys, Announced, Restarting
<1>9. IdleForAReason'
  BY DEF IInv, TypeOK, ThreadTypes, LockTypes, FlagTypes, DeviceTypes, IdleForAReason,
    PendingIsSomebodys, Reopening, WillLook, Announced
<1>10. Restarting'
  BY DEF IInv, TypeOK, ThreadTypes, LockTypes, FlagTypes, DeviceTypes, Restarting
<1> QED BY <1>1, <1>2, <1>3, <1>4, <1>5, <1>6, <1>7, <1>8, <1>9, <1>10 DEF IInv, TypeOK

(***************************************************************************)
(* The transceiver.                                                        *)
(***************************************************************************)
LEMMA ChipPreserves ==
  ASSUME IInv, ChipStep \/ ChipHangs
  PROVE  IInv'
<1> USE FaultIsCounted DEF ChipStep, ChipHangs, threadVars, lockVars, flagVars,
      deviceVars, chipVars, Becomes, OnAir, Threads, NoThread, Usable
<1>1. ThreadTypes'
  BY DEF IInv, TypeOK, ThreadTypes, Labels, SendLabels
<1>2. LockTypes'
  BY DEF IInv, TypeOK, LockTypes
<1>3. FlagTypes'
  BY DEF IInv, TypeOK, FlagTypes
<1>4. DeviceTypes'
  BY DEF IInv, TypeOK, DeviceTypes, ThreadTypes
<1>5. HeldForAReason'
  BY DEF IInv, TypeOK, ThreadTypes, LockTypes, FlagTypes, DeviceTypes, HeldForAReason,
    LowIsTransient, Reopening, WillLook, Releasing, Working, AtRest
<1>6. LowIsTransient'
  BY DEF IInv, TypeOK, ThreadTypes, LockTypes, FlagTypes, DeviceTypes, LowIsTransient,
    WillLook, Reopening
<1>7. Reopening'
  BY DEF IInv, TypeOK, ThreadTypes, LockTypes, FlagTypes, DeviceTypes, Reopening,
    Restarting
<1>8. PendingIsSomebodys'
  BY DEF IInv, TypeOK, ThreadTypes, LockTypes, FlagTypes, DeviceTypes,
    PendingIsSomebodys, Announced, Restarting
<1>9. IdleForAReason'
  BY DEF IInv, TypeOK, ThreadTypes, LockTypes, FlagTypes, DeviceTypes, IdleForAReason,
    PendingIsSomebodys, Reopening, WillLook, Announced
<1>10. Restarting'
  BY DEF IInv, TypeOK, ThreadTypes, LockTypes, FlagTypes, DeviceTypes, Restarting
<1> QED BY <1>1, <1>2, <1>3, <1>4, <1>5, <1>6, <1>7, <1>8, <1>9, <1>10 DEF IInv, TypeOK

LEMMA Preserved == IInv /\ [Next]_vars => IInv'
<1> SUFFICES ASSUME IInv, [Next]_vars PROVE IInv'
  OBVIOUS
<1>1. ASSUME InitDevice PROVE IInv'
  BY <1>1, InitDevicePreserves
<1>2. ASSUME MainThread PROVE IInv'
  BY <1>2, MainThreadPreserves
<1>3. ASSUME HomeMaticSendPacket \/ MaxSendPacket \/ TestSendPacket PROVE IInv'
  <2>1. "tcp" \in Threads /\ "tcp" # "tx"
    BY DEF Threads
  <2>2. CASE Called /\ Pending("tcp")
    BY <2>1, <2>2, SenderPreserves DEF Called
  <2>3. CASE family # "max" /\ Timeouts("tcp")
    BY <2>1, <2>3, SenderPreserves
  <2>4. CASE Lock("tcp") \/ Transmission("tcp")
    BY <2>1, <2>4, SenderPreserves
  <2> QED BY <1>3, <2>2, <2>3, <2>4 DEF HomeMaticSendPacket, MaxSendPacket, TestSendPacket
<1>4. ASSUME TxThread PROVE IInv'
  <2>1. "tx" \in Threads /\ family = "test"
    BY <1>4 DEF Threads, TxThread
  <2>2. CASE sender["tx"] = "loop" /\ Pending("tx")
    BY <2>1, <2>2, SenderPreserves
  <2>3. CASE Lock("tx") \/ Timeouts("tx") \/ Transmission("tx")
    BY <2>1, <2>3, SenderPreserves
  <2>4. CASE TxEnds
    BY <2>1, <2>4, MethodsPreserve
  <2> QED BY <1>4, <2>2, <2>3, <2>4 DEF TxThread
<1>5. ASSUME StartTx \/ StopTx \/ EnableUpdateMode \/ DisableUpdateMode PROVE IInv'
  BY <1>5, MethodsPreserve
<1>6. ASSUME Destroy \/ Joined \/ Close PROVE IInv'
  BY <1>6, MethodsPreserve
<1>7. ASSUME ChipStep \/ ChipHangs PROVE IInv'
  BY <1>7, ChipPreserves
<1>8. ASSUME UNCHANGED vars PROVE IInv'
  BY <1>8 DEF vars, threadVars, lockVars, flagVars, deviceVars, chipVars, IInv, TypeOK,
    ThreadTypes, LockTypes, FlagTypes, DeviceTypes, HeldForAReason, LowIsTransient,
    Reopening, PendingIsSomebodys, IdleForAReason, Restarting, WillLook, Usable
<1> QED
  BY <1>1, <1>2, <1>3, <1>4, <1>5, <1>6, <1>7, <1>8
  DEF Next, HomeMaticInitDevice, MaxInitDevice, TestInitDevice, HomeMaticMainThread,
    MaxMainThread, TestMainThread, HomeMaticStop, MaxStop, TestStop, Ended, Waits

(***************************************************************************)
(* The inductive invariant: the reasons there are, in every state, to      *)
(* expect that _txMutex is unlocked and the receiver switched on.          *)
(***************************************************************************)
THEOREM Invariant == Spec => []IInv
<1>1. Init => IInv
  BY Initial
<1>2. IInv /\ [Next]_vars => IInv'
  BY Preserved
<1> QED BY <1>1, <1>2, PTL DEF Spec

\* Type correctness of the three CC1101 interfaces.
THEOREM TypeCorrect == Spec => []TypeOK
<1>1. IInv => TypeOK
  BY DEF IInv
<1> QED BY <1>1, Invariant, PTL

(***************************************************************************)
(* _txMutex is free whenever nothing is on the air and no thread is on its *)
(* way to unlock it, although the edges that unlock it may merge           *)
(* (HomeMaticCc1101.cpp 181-252, 706-721 and its copies).                  *)
(***************************************************************************)
THEOREM MutexIsReleased == Spec => []LockIsReleased
<1>1. IInv => LockIsReleased
  BY DEF IInv, HeldForAReason, LockIsReleased, Resting, AtRest, WillLook, OnAir, Releasing,
    Working, TypeOK, ThreadTypes
<1> QED BY <1>1, Invariant, PTL

(***************************************************************************)
(* The receiver is on when the system is at rest, although the listening   *)
(* thread leaves it off for a sender that has announced itself             *)
(* (HomeMaticCc1101.cpp 227-231, 693-721 and its copies).                  *)
(***************************************************************************)
THEOREM ReceiverIsOn == Spec => []NeverDeaf
<1>1. IInv => NeverDeaf
  BY DEF IInv, IdleForAReason, NeverDeaf, Resting, AtRest, WillLook, Announced, TypeOK,
    DeviceTypes, OnAir
<1> QED BY <1>1, Invariant, PTL

=============================================================================

------------------------------- MODULE Cc1101 -------------------------------
(***************************************************************************)
(* The interfaces of the CC1101 family: HomeMatic, MAX! and the CC110L     *)
(* transmission test (HomeMaticCc1101.cpp, MaxCc1101.cpp, Cc110LTest.cpp). *)
(* The three were copied from each other; family says whose code runs, and *)
(* the definitions at the end of each part name it.                        *)
(*                                                                         *)
(* A packet is sent in two halves: sendPacket() takes _txMutex, starts the *)
(* transmission and returns; the listening thread learns of the end from   *)
(* an edge of an interrupt pin and unlocks the mutex.  A reception takes   *)
(* the mutex on its first edge and unlocks it on its second one.  The pin  *)
(* is low while a packet is on the air, in either direction, and a reader  *)
(* gets its level, not its history: edges the thread is late for merge.    *)
(***************************************************************************)
EXTENDS Integers

CONSTANT MaxFaults   \* bound: failures of the devices, for each family to check

ASSUME MaxFaultsAssumption ==
  /\ DOMAIN MaxFaults \subseteq {"homematic", "max", "test"}
  /\ \A f \in DOMAIN MaxFaults : MaxFaults[f] \in Nat

VARIABLES
  family,              \* whose code runs
  life,                \* progress of constructor, destructor and stop()
  main,                \* where the listening thread, or start(), is
  sender,              \* where the TCP thread and the thread of txThread() are
  txMutex,             \* holder of _txMutex
  sending,             \* _sending
  sendingPending,      \* _sendingPending
  firstPacket,         \* _firstPacket
  stopped,             \* _stopped
  stopCallbackThread,  \* _stopCallbackThread
  stopTxThread,        \* _stopTxThread
  packet,              \* the packet read from the chip is to be handed over
  device,              \* _fileDescriptor: "null", "open" or "closed"
  gpio,                \* the pin's descriptor is open
  edge,                \* poll() has something to report
  chip,                \* what the transceiver does
  hung,                \* the transceiver reacts to nothing but a reset
  faults,              \* device failures so far
  gaveUp               \* sendPacket() has returned that it could not get the lock

threadVars == <<life, main, sender>>
lockVars == <<txMutex, sending, sendingPending, gaveUp>>
flagVars == <<firstPacket, stopped, stopCallbackThread, stopTxThread, packet>>
deviceVars == <<device, gpio>>
chipVars == <<edge, chip, hung>>
vars == <<family, threadVars, lockVars, flagVars, deviceVars, chipVars, faults>>

Threads == {"tcp", "tx"}
NoThread == "none"

Init ==
  /\ family \in DOMAIN MaxFaults
  /\ life = "starting"
  /\ main = "open"
  /\ sender = [t \in Threads |-> "idle"]
  /\ txMutex = NoThread
  /\ sending = FALSE /\ sendingPending = FALSE /\ gaveUp = FALSE
  /\ firstPacket = TRUE /\ stopped = TRUE /\ packet = FALSE
  /\ stopCallbackThread = TRUE /\ stopTxThread = TRUE
  /\ device = "null" /\ gpio = FALSE
  /\ edge = FALSE /\ chip = "idle" /\ hung = FALSE
  /\ faults = 0

-----------------------------------------------------------------------------
(* The transceiver (external).                                             *)

OnAir == {"receiving", "sending"}

\* The level is low while a packet is on the air; poll() reports a change.
Becomes(state) ==
  /\ chip' = state
  /\ edge' = (edge \/ (gpio /\ (chip \in OnAir) # (state \in OnAir)))

\* A command strobe: without a device it is not sent, a hung chip ignores it.
Strobe(state) == Becomes(IF device = "open" /\ ~hung THEN state ELSE chip)

\* SRX does not disturb a reception; it ends a transmission.
Receiving == IF chip = "receiving" THEN "receiving" ELSE "rx"

\* Sync word found or sent, end of packet: MCSM1 makes the chip idle after it.
ChipStep ==
  /\ ~hung
  /\ \/ chip = "rx" /\ Becomes("receiving")
     \/ chip = "tx" /\ Becomes("sending")
     \/ chip \in OnAir /\ Becomes("idle")
  /\ UNCHANGED <<family, threadVars, lockVars, flagVars, deviceVars, hung, faults>>

Fault == faults < MaxFaults[family] /\ faults' = faults + 1

ChipHangs ==
  /\ Fault
  /\ ~hung
  /\ hung' = TRUE
  /\ UNCHANGED <<family, threadVars, lockVars, flagVars, deviceVars, edge, chip>>

-----------------------------------------------------------------------------
(* initDevice(), run by start() and by the listening thread's reconnect.   *)

\* openDevice() and initChip() up to enableRX().  The device may be in use by
\* another process, or a register may not take its value: then it is closed.
Open ==
  /\ main = "open"
  /\ \/ /\ Fault
        /\ device' = IF device = "open" THEN "closed" ELSE device
        /\ main' = "initDone"
        /\ UNCHANGED chipVars
     \/ /\ Fault
        /\ device' = "closed"
        /\ main' = "openGpio"
        /\ hung' = FALSE
        /\ Becomes("idle")
     \/ /\ device' = "open"
        /\ main' = "enableRX"
        /\ hung' = FALSE
        /\ Becomes("idle")
        /\ UNCHANGED faults
  /\ UNCHANGED <<family, life, sender, lockVars, flagVars, gpio>>

\* enableRX(true) under a guard of _txMutex.
EnableRX ==
  /\ main = "enableRX"
  /\ txMutex = NoThread
  /\ Strobe(Receiving)
  /\ main' = "openGpio"
  /\ UNCHANGED <<family, life, sender, lockVars, flagVars, deviceVars, hung, faults>>

\* Opening the pin makes poll() report it once.
OpenGpio ==
  /\ main = "openGpio"
  /\ \/ gpio' = TRUE /\ UNCHANGED faults
     \/ gpio' = FALSE /\ Fault
  /\ edge' = gpio'
  /\ main' = "initDone"
  /\ UNCHANGED <<family, life, sender, lockVars, flagVars, device, chip, hung>>

\* Mutant: the reconnect leaves _stopped set.
InitDoneStaysStopped ==
  /\ main = "initDone"
  /\ main' = "poll"
  /\ IF life = "starting"
       THEN /\ life' = "up"
            /\ firstPacket' = TRUE
            /\ stopCallbackThread' = FALSE
            /\ stopped' = FALSE
            /\ sender' = [sender EXCEPT !["tcp"] = "idle"]
       ELSE UNCHANGED <<life, sender, firstPacket, stopped, stopCallbackThread>>
  /\ UNCHANGED <<family, lockVars, stopTxThread, packet, deviceVars, chipVars, faults>>

\* What start() and the reconnect do after initDevice().
InitDone ==
  /\ main = "initDone"
  /\ main' = "poll"
  /\ stopped' = FALSE
  /\ IF life = "starting"
       THEN /\ life' = "up"
            /\ firstPacket' = TRUE
            /\ stopCallbackThread' = FALSE
            /\ sender' = [sender EXCEPT !["tcp"] = "idle"]
       ELSE UNCHANGED <<life, sender, firstPacket, stopCallbackThread>>
  /\ UNCHANGED <<family, lockVars, stopTxThread, packet, deviceVars, chipVars, faults>>

InitDevice == Open \/ EnableRX \/ OpenGpio \/ InitDone

HomeMaticInitDevice == family = "homematic" /\ InitDevice
MaxInitDevice == family = "max" /\ InitDevice
TestInitDevice == family = "test" /\ InitDevice

-----------------------------------------------------------------------------
(* mainThread().                                                           *)

Running == main = "poll" /\ ~stopCallbackThread /\ ~stopped

\* start() runs the thread also when the device was never opened.
NullDescriptor ==
  /\ Running
  /\ device = "null"
  /\ main' = "crashed"
  /\ UNCHANGED <<family, life, sender, lockVars, flagVars, deviceVars, chipVars, faults>>

Usable == device = "open" /\ gpio

\* poll() reports the pin and read() gets its level: low is "0x30".
Poll ==
  /\ Running /\ Usable /\ edge
  /\ edge' = FALSE
  /\ main' = IF chip \in OnAir THEN "low" ELSE "high"
  /\ UNCHANGED <<family, life, sender, lockVars, flagVars, deviceVars, chip, hung, faults>>

Low ==
  /\ main = "low"
  /\ main' = "poll"
  /\ txMutex' = IF ~sending /\ txMutex = NoThread THEN "main" ELSE txMutex
  /\ UNCHANGED <<family, life, sender, sending, sendingPending, gaveUp, flagVars,
                 deviceVars, chipVars, faults>>

High ==
  /\ main = "high"
  /\ main' = IF sending THEN "endSending" ELSE "receive"
  /\ UNCHANGED <<family, life, sender, lockVars, flagVars, deviceVars, chipVars, faults>>

\* endSending(): SIDLE, SFRX, SRX.
EndSending ==
  /\ main = "endSending"
  /\ Strobe("rx")
  /\ sending' = FALSE
  /\ main' = "unlock"
  /\ UNCHANGED <<family, life, sender, txMutex, sendingPending, gaveUp, flagVars,
                 deviceVars, hung, faults>>

\* A packet is good, bad, or too large: the device is then closed, unless it is
\* what the chip holds when it is first read.
Receive ==
  /\ main = "receive"
  /\ \/ /\ packet' \in BOOLEAN
        /\ main' = "rearm"
        /\ UNCHANGED <<device, faults>>
     \/ /\ Fault
        /\ ~firstPacket
        /\ device' = "closed"
        /\ main' = "unlock"
        /\ UNCHANGED packet
  /\ UNCHANGED <<family, life, sender, lockVars, firstPacket, stopped,
                 stopCallbackThread, stopTxThread, gpio, chipVars>>

\* Mutant: the receiver is never switched on again.
RearmNever ==
  /\ main = "rearm"
  /\ main' = "unlock"
  /\ UNCHANGED <<family, life, sender, lockVars, flagVars, deviceVars, chipVars, faults>>

\* SFRX, SRX unless somebody is about to send.
Rearm ==
  /\ main = "rearm"
  /\ IF sendingPending THEN UNCHANGED <<edge, chip>> ELSE Strobe(Receiving)
  /\ main' = "unlock"
  /\ UNCHANGED <<family, life, sender, lockVars, flagVars, deviceVars, hung, faults>>

\* Mutant: a bad packet leaves _txMutex locked.
UnlockIfPacket ==
  /\ main = "unlock"
  /\ txMutex' = IF packet THEN NoThread ELSE txMutex
  /\ main' = IF packet /\ ~firstPacket THEN "invoke" ELSE "poll"
  /\ firstPacket' = (firstPacket /\ ~packet)
  /\ packet' = FALSE
  /\ UNCHANGED <<family, life, sender, sending, sendingPending, gaveUp, stopped,
                 stopCallbackThread, stopTxThread, deviceVars, chipVars, faults>>

\* The first packet is what was in the chip before: it is not handed over.
Unlock ==
  /\ main = "unlock"
  /\ txMutex' = NoThread
  /\ main' = IF packet /\ ~firstPacket THEN "invoke" ELSE "poll"
  /\ firstPacket' = (firstPacket /\ ~packet)
  /\ packet' = FALSE
  /\ UNCHANGED <<family, life, sender, sending, sendingPending, gaveUp, stopped,
                 stopCallbackThread, stopTxThread, deviceVars, chipVars, faults>>

\* invoke() returns the client's answer or gives up after a few seconds.
Invoked ==
  /\ main = "invoke"
  /\ main' = "poll"
  /\ UNCHANGED <<family, life, sender, lockVars, flagVars, deviceVars, chipVars, faults>>

\* poll() fails: the pin is reopened.  Reading the pin fails: an exception.
PollFails ==
  /\ Running /\ Usable
  /\ Fault
  /\ txMutex' = NoThread
  /\ \/ main' = "reopenGpio" /\ gpio' = FALSE
     \/ edge /\ UNCHANGED <<main, gpio>>
  /\ UNCHANGED <<family, life, sender, sending, sendingPending, gaveUp, flagVars,
                 device, chipVars>>

ReopenGpio ==
  /\ main = "reopenGpio"
  /\ main' = "poll"
  /\ gpio' \in BOOLEAN
  /\ edge' = gpio'
  /\ IF gpio' THEN UNCHANGED faults ELSE Fault
  /\ UNCHANGED <<family, life, sender, lockVars, flagVars, device, chip, hung>>

\* The connection is closed: set _stopped, ...
Lost ==
  /\ Running
  /\ device # "null" /\ ~Usable
  /\ stopped' = TRUE
  /\ main' = "lost"
  /\ UNCHANGED <<family, life, sender, lockVars, firstPacket, stopCallbackThread,
                 stopTxThread, packet, deviceVars, chipVars, faults>>

\* ... clear _sending, ...
Abandon ==
  /\ main = "lost"
  /\ sending' = FALSE
  /\ main' = "release"
  /\ UNCHANGED <<family, life, sender, txMutex, sendingPending, gaveUp, flagVars,
                 deviceVars, chipVars, faults>>

\* ... unlock _txMutex, whoever holds it, close the pin and start over.
Release ==
  /\ main = "release"
  /\ txMutex' = NoThread
  /\ gpio' = FALSE
  /\ main' = "open"
  /\ UNCHANGED <<family, life, sender, sending, sendingPending, gaveUp, flagVars,
                 device, chipVars, faults>>

ThreadEnds ==
  /\ main = "poll" /\ stopCallbackThread
  /\ txMutex' = NoThread
  /\ main' = "ended"
  /\ UNCHANGED <<family, life, sender, sending, sendingPending, gaveUp, flagVars,
                 deviceVars, chipVars, faults>>

ListenStep ==
  \/ NullDescriptor \/ Poll \/ Low \/ High \/ EndSending \/ Receive \/ Rearm \/ Unlock
  \/ Invoked \/ ReopenGpio \/ Lost \/ Abandon \/ Release \/ ThreadEnds

MainThread == ListenStep \/ PollFails

HomeMaticMainThread == family = "homematic" /\ MainThread
MaxMainThread == family = "max" /\ MainThread
TestMainThread == family = "test" /\ MainThread

-----------------------------------------------------------------------------
(* Senders: sendPacket() on the TCP thread, txThread() on its own.         *)

Goto(t, label) == sender' = [sender EXCEPT ![t] = label]

\* Announce the transmission, if the device is there.
Pending(t) ==
  /\ Usable /\ ~stopped
  /\ sendingPending' = TRUE
  /\ Goto(t, "lock")
  /\ UNCHANGED <<family, life, main, txMutex, sending, gaveUp, flagVars, deviceVars,
                 chipVars, faults>>

Lock(t) ==
  /\ sender[t] \in {"lock", "again"}
  /\ txMutex = NoThread
  /\ txMutex' = t
  /\ Goto(t, "locked")
  /\ UNCHANGED <<family, life, main, sending, sendingPending, gaveUp, flagVars,
                 deviceVars, chipVars, faults>>

\* Nothing is on its way that would make the listening thread unlock.  Ten
\* seconds are longer than a packet and than the wait of invoke() for an answer.
AtRest ==
  /\ \/ main = "ended"
     \/ main = "poll" /\ ~stopCallbackThread /\ Usable /\ ~edge
  /\ hung \/ chip \in {"idle", "rx"}
  /\ \A t \in Threads : sender[t] \in {"idle", "lock", "again", "spin", "startTx", "stopTx"}

\* Ten seconds have passed.
LockTimeout(t) ==
  /\ sender[t] = "lock"
  /\ txMutex # NoThread
  /\ AtRest
  /\ Goto(t, "unlock")
  /\ UNCHANGED <<family, life, main, lockVars, flagVars, deviceVars, chipVars, faults>>

\* "This should never happen": unlock what somebody else holds.
ForceUnlock(t) ==
  /\ sender[t] = "unlock"
  /\ txMutex' = NoThread
  /\ Goto(t, "again")
  /\ UNCHANGED <<family, life, main, sending, sendingPending, gaveUp, flagVars, deviceVars,
                 chipVars, faults>>

\* A tenth of a second later: sendPacket() gives up, txThread() goes on.
SecondTimeout(t) ==
  /\ sender[t] = "again"
  /\ txMutex # NoThread
  /\ sendingPending' = FALSE
  /\ gaveUp' = (gaveUp \/ t = "tcp")
  /\ Goto(t, IF t = "tcp" THEN "idle" ELSE "locked")
  /\ UNCHANGED <<family, life, main, txMutex, sending, flagVars, deviceVars,
                 chipVars, faults>>

\* If the device is gone, sendPacket() returns and txThread() goes on.
Recheck(t) ==
  /\ sender[t] = "locked"
  /\ sendingPending' = FALSE
  /\ IF stopCallbackThread \/ ~Usable \/ stopped
       THEN /\ txMutex' = NoThread
            /\ Goto(t, IF t = "tcp" THEN "idle" ELSE "send")
       ELSE /\ UNCHANGED txMutex
            /\ Goto(t, "send")
  /\ UNCHANGED <<family, life, main, sending, gaveUp, flagVars, deviceVars, chipVars, faults>>

\* Set _sending; SIDLE, SFTX.
BeginSending(t) ==
  /\ sender[t] = "send"
  /\ sending' = TRUE
  /\ Strobe("idle")
  /\ Goto(t, "transmit")
  /\ UNCHANGED <<family, life, main, txMutex, sendingPending, gaveUp, flagVars,
                 deviceVars, hung, faults>>

\* STX and the FIFO.  The listening thread unlocks when the packet is sent.
Transmit(t) ==
  /\ sender[t] = "transmit"
  /\ Strobe("tx")
  /\ Goto(t, IF t = "tcp" THEN "idle" ELSE "loop")
  /\ UNCHANGED <<family, life, main, lockVars, flagVars, deviceVars, hung, faults>>

Transmission(t) == Recheck(t) \/ BeginSending(t) \/ Transmit(t)
Timeouts(t) == LockTimeout(t) \/ ForceUnlock(t) \/ SecondTimeout(t)

\* A call on the TCP thread, which executes one at a time.
Called == life = "up" /\ sender["tcp"] = "idle"

HomeMaticSendPacket ==
  /\ family = "homematic"
  /\ \/ Called /\ Pending("tcp")
     \/ Lock("tcp") \/ Timeouts("tcp") \/ Transmission("tcp")

\* Mutant: MAX! with the timeouts of the others.
MaxSendPacketTimed ==
  /\ family = "max"
  /\ \/ Called /\ Pending("tcp")
     \/ Lock("tcp") \/ Timeouts("tcp") \/ Transmission("tcp")

\* Without a timeout.
MaxSendPacket ==
  /\ family = "max"
  /\ \/ Called /\ Pending("tcp")
     \/ Lock("tcp") \/ Transmission("tcp")

TestSendPacket ==
  /\ family = "test"
  /\ \/ Called /\ Pending("tcp")
     \/ Lock("tcp") \/ Timeouts("tcp") \/ Transmission("tcp")

\* The loop ends on request or when the device is not there.
TxEnds ==
  /\ sender["tx"] = "loop"
  /\ stopTxThread \/ ~Usable \/ stopped
  /\ Goto("tx", "idle")
  /\ UNCHANGED <<family, life, main, lockVars, flagVars, deviceVars, chipVars, faults>>

TxThread ==
  /\ family = "test"
  /\ \/ sender["tx"] = "loop" /\ ~stopTxThread /\ Pending("tx")
     \/ TxEnds \/ Lock("tx") \/ Timeouts("tx") \/ Transmission("tx")

-----------------------------------------------------------------------------
(* The other methods.                                                      *)

\* A new thread is started when the previous one has ended.
StartTx ==
  /\ family = "test"
  /\ \/ /\ Called
        /\ stopTxThread' = FALSE
        /\ Goto("tcp", "startTx")
     \/ /\ sender["tcp"] = "startTx" /\ sender["tx"] = "idle"
        /\ sender' = [tcp |-> "idle", tx |-> "loop"]
        /\ UNCHANGED stopTxThread
  /\ UNCHANGED <<family, life, main, lockVars, firstPacket, stopped, stopCallbackThread,
                 packet, deviceVars, chipVars, faults>>

\* Mutant: stopTx waits without telling the thread.
StopTxSilently ==
  /\ family = "test"
  /\ \/ Called /\ Goto("tcp", "stopTx")
     \/ sender["tcp"] = "stopTx" /\ sender["tx"] = "idle" /\ Goto("tcp", "idle")
  /\ UNCHANGED <<family, life, main, lockVars, flagVars, deviceVars, chipVars, faults>>

StopTx ==
  /\ family = "test"
  /\ \/ /\ Called
        /\ stopTxThread' = TRUE
        /\ Goto("tcp", "stopTx")
     \/ /\ sender["tcp"] = "stopTx" /\ sender["tx"] = "idle"
        /\ Goto("tcp", "idle")
        /\ UNCHANGED stopTxThread
  /\ UNCHANGED <<family, life, main, lockVars, firstPacket, stopped, stopCallbackThread,
                 packet, deviceVars, chipVars, faults>>

\* Wait for the end of the transmission, lock if possible, write the registers
\* between SIDLE and SRX, unlock.
EnableUpdateMode ==
  /\ family = "homematic"
  /\ \/ /\ Called
        /\ Goto("tcp", "spin")
        /\ UNCHANGED <<lockVars, edge, chip>>
     \/ /\ sender["tcp"] = "spin" /\ ~sending
        /\ Goto("tcp", "registers")
        /\ txMutex' = IF txMutex = NoThread THEN "tcp" ELSE txMutex
        /\ UNCHANGED <<sending, sendingPending, gaveUp, edge, chip>>
     \/ /\ sender["tcp"] = "registers"
        /\ Goto("tcp", "configured")
        /\ Strobe("rx")
        /\ UNCHANGED lockVars
     \/ /\ sender["tcp"] = "configured"
        /\ Goto("tcp", "idle")
        /\ txMutex' = NoThread
        /\ UNCHANGED <<sending, sendingPending, gaveUp, edge, chip>>
  /\ UNCHANGED <<family, life, main, flagVars, deviceVars, hung, faults>>

\* stop() and start() on the TCP thread.
DisableUpdateMode ==
  /\ family = "homematic"
  /\ Called
  /\ Goto("tcp", "restart")
  /\ life' = "stopping"
  /\ stopCallbackThread' = TRUE
  /\ UNCHANGED <<family, main, lockVars, firstPacket, stopped, stopTxThread, packet,
                 deviceVars, chipVars, faults>>

\* The destructor: no method is running any more.
Destroy ==
  /\ Called
  /\ main # "crashed"
  /\ life' = "stopping"
  /\ stopCallbackThread' = TRUE
  /\ UNCHANGED <<family, main, sender, lockVars, firstPacket, stopped, stopTxThread,
                 packet, deviceVars, chipVars, faults>>

\* Mutant: stop() does not end the transmission test.
JoinedSilently ==
  /\ life = "stopping" /\ main = "ended"
  /\ stopCallbackThread' = FALSE
  /\ life' = "closing"
  /\ UNCHANGED <<family, main, sender, lockVars, firstPacket, stopped, stopTxThread,
                 packet, deviceVars, chipVars, faults>>

\* stop() has joined the listening thread; the test stops its other thread, too.
Joined ==
  /\ life = "stopping" /\ main = "ended"
  /\ stopCallbackThread' = FALSE
  /\ stopTxThread' = (stopTxThread \/ family = "test")
  /\ life' = "closing"
  /\ UNCHANGED <<family, main, sender, lockVars, firstPacket, stopped, packet,
                 deviceVars, chipVars, faults>>

\* The end of stop().  disableUpdateMode() goes on with start().
Close ==
  /\ life = "closing" /\ sender["tx"] = "idle"
  /\ IF device = "null"
       THEN main' = "crashed" /\ UNCHANGED <<life, stopped, stopTxThread, deviceVars, edge>>
       ELSE /\ device' = "closed" /\ gpio' = FALSE /\ edge' = FALSE
            /\ stopped' = TRUE
            /\ stopTxThread' = (stopTxThread /\ family # "test")
            /\ IF sender["tcp"] = "restart"
                 THEN life' = "starting" /\ main' = "open"
                 ELSE life' = "ended" /\ main' = main
  /\ UNCHANGED <<family, sender, lockVars, firstPacket, stopCallbackThread, packet,
                 chip, hung, faults>>

HomeMaticStop == family = "homematic" /\ (Destroy \/ Joined \/ Close)
MaxStop == family = "max" /\ (Destroy \/ Joined \/ Close)
TestStop == family = "test" /\ (Destroy \/ Joined \/ Close)

Ended == (life = "ended" \/ main = "crashed") /\ UNCHANGED vars

\* Nothing moves: a chip that does not react, or two threads that wait.
Waits == AtRest /\ hung /\ UNCHANGED vars

-----------------------------------------------------------------------------
Next ==
  \/ /\ main # "crashed" /\ life # "ended"
     /\ \/ HomeMaticInitDevice \/ MaxInitDevice \/ TestInitDevice
        \/ HomeMaticMainThread \/ MaxMainThread \/ TestMainThread
        \/ HomeMaticSendPacket \/ MaxSendPacket \/ TestSendPacket
        \/ TxThread \/ StartTx \/ StopTx \/ EnableUpdateMode \/ DisableUpdateMode
        \/ HomeMaticStop \/ MaxStop \/ TestStop
        \/ ChipStep \/ ChipHangs
  \/ Ended
  \/ Waits

Spec == Init /\ [][Next]_vars

-----------------------------------------------------------------------------
SendLabels == {"idle", "lock", "locked", "send", "transmit"}
Labels == SendLabels \union
  {"unlock", "again", "loop", "startTx", "stopTx", "spin", "registers", "configured", "restart"}

ThreadTypes ==
  /\ family \in DOMAIN MaxFaults
  /\ life \in {"starting", "up", "stopping", "closing", "ended"}
  /\ main \in {"open", "enableRX", "openGpio", "initDone", "poll", "low", "high",
              "endSending", "receive", "rearm", "unlock", "invoke", "reopenGpio",
              "lost", "release", "ended", "crashed"}
  /\ sender \in [Threads -> Labels]
  /\ family # "test" => sender["tx"] = "idle"
  /\ family = "max" => sender["tcp"] \in SendLabels

LockTypes ==
  /\ txMutex \in Threads \union {"main", NoThread}
  /\ sending \in BOOLEAN /\ sendingPending \in BOOLEAN /\ gaveUp \in BOOLEAN

FlagTypes ==
  /\ firstPacket \in BOOLEAN /\ stopped \in BOOLEAN /\ packet \in BOOLEAN
  /\ stopCallbackThread \in BOOLEAN /\ stopTxThread \in BOOLEAN

DeviceTypes ==
  /\ device \in {"null", "open", "closed"} /\ gpio \in BOOLEAN
  /\ chip \in {"idle", "rx", "tx"} \union OnAir
  /\ edge \in BOOLEAN /\ hung \in BOOLEAN
  /\ faults \in 0 .. MaxFaults[family]

\* The types of the variables; MAX! has no timeouts and no other methods.
TypeOK == ThreadTypes /\ LockTypes /\ FlagTypes /\ DeviceTypes

\* The system waits for a packet or a call, and the transceiver works.
Resting == AtRest /\ main = "poll" /\ ~hung

\* _txMutex is locked by one thread and unlocked by another, by an edge that may
\* be merged with the next one: it is nevertheless free whenever nothing is on
\* the air, so that "Could not acquire lock for sending packet.  This should
\* never happen" only happens with a transceiver that does not react.
LockIsReleased == Resting => txMutex = NoThread

\* A receiver that is idle hears nothing until the next transmission.  The
\* listening thread does not switch it on when a sender has announced itself:
\* it listens nevertheless, unless that sender gave up.
NeverDeaf ==
  Resting /\ (\A t \in Threads : sender[t] = "idle") => chip = "rx" \/ gaveUp

-----------------------------------------------------------------------------
(* Liveness.                                                               *)

Methods ==
  \/ HomeMaticSendPacket \/ MaxSendPacket \/ TestSendPacket
  \/ StartTx \/ StopTx \/ EnableUpdateMode

\* Threads that can run do run, one that waits for a mutex gets it if it is free
\* again and again, and a packet on the air ends.
Fairness ==
  /\ WF_vars(InitDevice)
  /\ SF_vars(EnableRX)
  /\ WF_vars(ListenStep)
  /\ WF_vars(sender["tcp"] # "idle" /\ Methods)
  /\ WF_vars(TxThread)
  /\ \A t \in Threads : SF_vars(Lock(t))
  /\ WF_vars(chip # "rx" /\ ChipStep)
  /\ WF_vars(Joined) /\ WF_vars(Close)

FairSpec == Spec /\ Fairness

\* Every method that runs on the TCP thread returns, so that the client's
\* answers are read.  The exceptions: MAX! waits without a timeout for a
\* transceiver that does not react; enableUpdateMode() spins while _sending is
\* set, which a transmission that was cut off leaves set until the next packet;
\* startTx waits for a transmission test that is running.
CallsReturn ==
  sender["tcp"] \notin {"idle", "startTx"} ~>
    \/ sender["tcp"] = "idle"
    \/ main = "crashed"
    \/ /\ hung
       /\ (family = "max" \/ sender["tcp"] = "spin")
    \/ (sender["tcp"] = "spin" /\ Resting /\ sending)

\* stop() ends: the listening thread and the transmission test do.
StopEnds == life \in {"stopping", "closing"} ~> life \in {"up", "ended"} \/ main = "crashed"

\* A lost device is opened again.
Recovers == main = "lost" ~> (Usable /\ ~stopped) \/ life # "up"

=============================================================================

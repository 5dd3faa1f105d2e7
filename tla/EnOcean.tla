------------------------------ MODULE EnOcean ------------------------------
(***************************************************************************)
(* The EnOcean interface (Families/EnOcean.cpp): the thread that listens   *)
(* to the serial module, and the three threads that send it commands and   *)
(* wait for the answer in getResponse():                                   *)
(*   "main"  the thread that constructs the interface and runs init(),     *)
(*   "init"  the thread reconnect() starts to run init() again,            *)
(*   "tcp"   the RPC server's thread, which runs setBaseAddress().         *)
(*                                                                         *)
(* Commands and answers are matched by packet type only, and every command *)
(* is answered by a packet of the one type 0x02.  The module is external:  *)
(* it executes commands in order and answers, refuses or ignores them; the *)
(* queue "incoming" is what it has sent and the gateway has not yet read.  *)
(* Packets are whole: framing errors are packets that get lost.            *)
(***************************************************************************)
EXTENDS Integers, Sequences

CONSTANTS Addresses,      \* base addresses of the module
          Tries,          \* attempts to read the base address (10)
          MaxCalls,       \* bound: calls of setBaseAddress() and sendPacket(), and
                          \* telegrams received from the air
          MaxFaults,      \* bound: lost packets, refusals, failed reads and opens,
                          \* and timeouts although an answer is on its way
          TelegramsAcked  \* the module answers what sendPacket() writes

ASSUME TriesAssumption == Tries \in Nat \ {0}
ASSUME BoundsAssumption == MaxCalls \in Nat /\ MaxFaults \in Nat

Askers == {"main", "init", "tcp"}
Nobody == "nobody"

\* Packets of the module.  An "ack" is the 8 byte answer that carries no data.
NoPacket == [kind |-> "none"]
Ack == [kind |-> "ack"]
Refusal == [kind |-> "refusal"]
Telegram == [kind |-> "telegram"]
BaseIs(a) == [kind |-> "base", address |-> a]
Packets == {NoPacket, Ack, Refusal, Telegram} \union {BaseIs(a) : a \in Addresses}

VARIABLES
  life,         \* of the interface object
  stopped,      \* _stopped
  initComplete, \* _initComplete
  open,         \* _serial->isOpen()
  baseAddress,  \* _baseAddress
  pc,           \* where each asker is
  task,         \* the command the asker sends: "read" or "set"
  attempt,      \* i of the loop that reads the base address
  response,     \* the asker's local variable of that name
  turn,         \* who holds _sendPacketMutex and _getResponseMutex
  registered,   \* _requests contains type 0x02
  mutexReady,   \* Request::mutexReady of the latest request
  answer,       \* Request::response of the latest request
  listen,       \* where the listening thread is
  packet,       \* the packet it processes
  target,       \* the request it has looked up: still used, returned, or none
  module,       \* the module's base address
  wanted,       \* the address setBaseAddress() was called with
  incoming,     \* packets on the serial line
  calls, faults  \* how much of each bound is used

objectVars == <<life, stopped, initComplete, open, baseAddress>>
flags == <<stopped, initComplete>>
askerVars == <<pc, task, attempt, response>>
requestVars == <<turn, registered, mutexReady, answer>>
listenVars == <<listen, packet, target>>
moduleVars == <<module, wanted, incoming>>
budget == <<calls, faults>>
vars == <<objectVars, askerVars, requestVars, listenVars, moduleVars, budget>>

-----------------------------------------------------------------------------
Init ==
  /\ life = "new" /\ stopped = TRUE /\ initComplete = FALSE /\ open = FALSE
  /\ baseAddress = "unknown"
  /\ pc = [t \in Askers |-> "idle"]
  /\ task = [t \in Askers |-> "read"]
  /\ attempt = [t \in Askers |-> 0]
  /\ response = [t \in Askers |-> NoPacket]
  /\ turn = Nobody /\ registered = FALSE /\ mutexReady = FALSE /\ answer = NoPacket
  /\ listen = "none" /\ packet = NoPacket /\ target = "none"
  /\ module \in Addresses /\ wanted = "unknown" /\ incoming = <<>>
  /\ calls = 0 /\ faults = 0

Fault == faults < MaxFaults /\ faults' = faults + 1 /\ UNCHANGED calls

Called == calls < MaxCalls /\ calls' = calls + 1

\* An asker starts to read the base address.
StartReading(t) ==
  /\ pc' = [pc EXCEPT ![t] = "check"]
  /\ task' = [task EXCEPT ![t] = "read"]
  /\ attempt' = [attempt EXCEPT ![t] = 0]
  /\ response' = [response EXCEPT ![t] = NoPacket]

-----------------------------------------------------------------------------
(* Construction and destruction.                                           *)

\* start(): the listening thread runs before init() is called.
Start ==
  /\ life = "new"
  /\ life' = "starting"
  /\ open' = TRUE
  /\ stopped' = FALSE
  /\ listen' = "loop"
  /\ StartReading("main")
  /\ UNCHANGED <<initComplete, baseAddress, requestVars, packet, target, moduleVars, budget>>

\* start() cannot open the device: no thread is started and none ever will be.
StartFails ==
  /\ life = "new"
  /\ life' = "up"
  /\ Fault
  /\ UNCHANGED <<stopped, initComplete, open, baseAddress, askerVars, requestVars,
                 listenVars, moduleVars>>

\* The constructor returns; only now is the RPC server started.
Constructed ==
  /\ life = "starting"
  /\ pc["main"] = "idle"
  /\ life' = "up"
  /\ UNCHANGED <<stopped, initComplete, open, baseAddress, askerVars, requestVars,
                 listenVars, moduleVars, budget>>

\* stop(): the RPC server is down, so no method is running.
StopBegin ==
  /\ life = "up"
  /\ pc["tcp"] = "idle"
  /\ life' = "stopping"
  /\ UNCHANGED <<stopped, initComplete, open, baseAddress, askerVars, requestVars,
                 listenVars, moduleVars, budget>>

StopJoined ==
  /\ life = "stopping"
  /\ listen \in {"none", "done"}
  /\ life' = "closed"
  /\ initComplete' = FALSE
  /\ stopped' = TRUE
  /\ open' = FALSE
  /\ UNCHANGED <<baseAddress, askerVars, requestVars, listenVars, moduleVars, budget>>

\* The destructor joins _initThread last.
Destroyed ==
  /\ life = "closed"
  /\ pc["init"] = "idle"
  /\ life' = "gone"
  /\ UNCHANGED <<stopped, initComplete, open, baseAddress, askerVars, requestVars,
                 listenVars, moduleVars, budget>>

Ended == life = "gone" /\ UNCHANGED vars

-----------------------------------------------------------------------------
(* getResponse(), run by every asker.                                      *)

Goto(t, label) == pc' = [pc EXCEPT ![t] = label]

\* A stopped interface leaves the caller's response as it was.
Check(t) ==
  /\ pc[t] = "check"
  /\ IF stopped
       THEN Goto(t, "judge") /\ UNCHANGED response
       ELSE Goto(t, "lock") /\ response' = [response EXCEPT ![t] = NoPacket]
  /\ UNCHANGED <<objectVars, task, attempt, requestVars, listenVars, moduleVars, budget>>

\* The request is registered before the command is sent.
Register(t) ==
  /\ pc[t] = "lock"
  /\ turn = Nobody
  /\ turn' = t
  /\ registered' = TRUE
  /\ mutexReady' = FALSE
  /\ answer' = NoPacket
  /\ Goto(t, "send")
  /\ UNCHANGED <<objectVars, task, attempt, response, listenVars, moduleVars, budget>>

\* What the module does with the command of t.
Executed(t) ==
  IF task[t] = "read"
    THEN incoming' = Append(incoming, BaseIs(module)) /\ UNCHANGED module
    ELSE incoming' = Append(incoming, Ack) /\ module' = wanted

\* rawSend() swallows its errors and does nothing on a closed device.
Send(t) ==
  /\ pc[t] = "send"
  /\ Goto(t, "wait")
  /\ \/ open /\ Executed(t) /\ UNCHANGED budget
     \/ open /\ incoming' = Append(incoming, Refusal) /\ Fault /\ UNCHANGED module
     \/ open /\ Fault /\ UNCHANGED <<incoming, module>>
     \/ ~open /\ UNCHANGED <<incoming, module, budget>>
  /\ UNCHANGED <<objectVars, task, attempt, response, requestVars, listenVars, wanted>>

\* The answer was signalled, or ten seconds are over.
Answered(t) ==
  /\ pc[t] = "wait"
  /\ mutexReady
  /\ Goto(t, "copy")
  /\ UNCHANGED <<objectVars, task, attempt, response, requestVars, listenVars,
                 moduleVars, budget>>

\* The listening thread is reading and has an answer to read or in its hands.
OnItsWay ==
  \/ target = "live"
  \/ /\ listen \in {"loop", "invoke", "write", "signal"} /\ life # "stopping" /\ ~stopped /\ open
     /\ \E k \in DOMAIN incoming : incoming[k].kind # "telegram"

\* Mutant: wait() in place of wait_for().
NeverTimedOut(t) == FALSE /\ pc[t] = "wait" /\ UNCHANGED vars

TimedOut(t) ==
  /\ pc[t] = "wait"
  /\ ~mutexReady
  /\ IF OnItsWay THEN Fault ELSE UNCHANGED budget
  /\ Goto(t, "copy")
  /\ UNCHANGED <<objectVars, task, attempt, response, requestVars, listenVars,
                 moduleVars>>

\* Request::response is copied whether it was signalled or not.
Copy(t) ==
  /\ pc[t] = "copy"
  /\ response' = [response EXCEPT ![t] = answer]
  /\ Goto(t, "erase")
  /\ UNCHANGED <<objectVars, task, attempt, requestVars, listenVars, moduleVars, budget>>

Erase(t) ==
  /\ pc[t] = "erase"
  /\ registered' = FALSE
  /\ turn' = Nobody
  /\ target' = IF target = "live" THEN "returned" ELSE target
  /\ Goto(t, "judge")
  /\ UNCHANGED <<objectVars, task, attempt, response, mutexReady, answer, listen, packet,
                 moduleVars, budget>>

-----------------------------------------------------------------------------
(* init() and setBaseAddress(): what the asker makes of the answer.        *)

\* Ten bad answers, or a bad answer to the set command: the device is given up.
GiveUp(t) ==
  /\ stopped' = TRUE
  /\ Goto(t, "idle")
  /\ UNCHANGED <<initComplete, baseAddress, task, attempt>>

ReadAgain(t) ==
  /\ attempt' = [attempt EXCEPT ![t] = @ + 1]
  /\ Goto(t, "check")
  /\ UNCHANGED <<flags, baseAddress, task>>

TakeBaseAddress(t) ==
  /\ baseAddress' = response[t].address
  /\ Goto(t, IF t = "tcp" THEN "idle" ELSE "complete")
  /\ UNCHANGED <<flags, task, attempt>>

SetAcknowledged(t) ==
  /\ task' = [task EXCEPT ![t] = "read"]
  /\ attempt' = [attempt EXCEPT ![t] = 0]
  /\ Goto(t, "check")
  /\ UNCHANGED <<flags, baseAddress>>

\* Mutant: the return code of the set command is not looked at.
JudgeAnyStatus(t) ==
  /\ pc[t] = "judge"
  /\ IF task[t] = "set"
       THEN IF response[t] \in {Ack, Refusal} THEN SetAcknowledged(t) ELSE GiveUp(t)
       ELSE IF response[t].kind = "base" THEN TakeBaseAddress(t)
            ELSE IF attempt[t] < Tries - 1 THEN ReadAgain(t) ELSE GiveUp(t)
  /\ UNCHANGED <<life, open, response, requestVars, listenVars, moduleVars, budget>>

\* Mutant: one attempt too many.
JudgeOffByOne(t) ==
  /\ pc[t] = "judge"
  /\ IF task[t] = "set"
       THEN IF response[t] = Ack THEN SetAcknowledged(t) ELSE GiveUp(t)
       ELSE IF response[t].kind = "base" THEN TakeBaseAddress(t)
            ELSE IF attempt[t] < Tries THEN ReadAgain(t) ELSE GiveUp(t)
  /\ UNCHANGED <<life, open, response, requestVars, listenVars, moduleVars, budget>>

\* The answer is judged by its shape.
Judge(t) ==
  /\ pc[t] = "judge"
  /\ IF task[t] = "set"
       THEN IF response[t] = Ack THEN SetAcknowledged(t) ELSE GiveUp(t)
       ELSE IF response[t].kind = "base" THEN TakeBaseAddress(t)
            ELSE IF attempt[t] < Tries - 1 THEN ReadAgain(t) ELSE GiveUp(t)
  /\ UNCHANGED <<life, open, response, requestVars, listenVars, moduleVars, budget>>

\* init() has ended well.
Complete(t) ==
  /\ pc[t] = "complete"
  /\ initComplete' = TRUE
  /\ Goto(t, "idle")
  /\ UNCHANGED <<life, stopped, open, baseAddress, task, attempt, response, requestVars,
                 listenVars, moduleVars, budget>>

\* Methods are refused until init() has completed.
SetBaseAddress(a) ==
  /\ life = "up" /\ pc["tcp"] = "idle" /\ initComplete
  /\ Called
  /\ wanted' = a
  /\ Goto("tcp", "check")
  /\ task' = [task EXCEPT !["tcp"] = "set"]
  /\ attempt' = [attempt EXCEPT !["tcp"] = 0]
  /\ response' = [response EXCEPT !["tcp"] = NoPacket]
  /\ UNCHANGED <<objectVars, requestVars, listenVars, module, incoming,
                 faults>>

\* sendPacket() registers no request for the answer to what it writes.
SendPacket ==
  /\ life = "up" /\ pc["tcp"] = "idle" /\ initComplete
  /\ Called
  /\ incoming' = IF open /\ TelegramsAcked THEN Append(incoming, Ack) ELSE incoming
  /\ UNCHANGED <<objectVars, askerVars, requestVars, listenVars, module, wanted,
                 faults>>

-----------------------------------------------------------------------------
(* listen(), processPacket() and reconnect().                              *)

Readable == listen = "loop" /\ life # "stopping" /\ ~stopped /\ open

\* A packet of type 0x02 goes to the registered request, all else to invoke().
ReadPacket ==
  /\ Readable
  /\ incoming # <<>>
  /\ incoming' = Tail(incoming)
  /\ packet' = Head(incoming)
  /\ IF registered /\ Head(incoming).kind # "telegram"
       THEN listen' = "write" /\ target' = "live"
       ELSE listen' = "invoke" /\ UNCHANGED target
  /\ UNCHANGED <<objectVars, askerVars, requestVars, module, wanted, budget>>

\* A gap or a wrong checksum.
LosePacket ==
  /\ Readable
  /\ incoming # <<>>
  /\ incoming' = Tail(incoming)
  /\ Fault
  /\ UNCHANGED <<objectVars, askerVars, requestVars, listenVars, module, wanted>>

\* Request::response is written without Request::mutex.
WriteResponse ==
  /\ listen = "write"
  /\ listen' = "signal"
  /\ answer' = IF target = "live" THEN packet ELSE answer
  /\ UNCHANGED <<objectVars, askerVars, turn, registered, mutexReady, packet, target,
                 moduleVars, budget>>

\* The asker holds Request::mutex except while it waits.
SignalReady ==
  /\ listen = "signal"
  /\ target = "live" => pc[turn] = "wait"
  /\ mutexReady' = IF target = "live" THEN TRUE ELSE mutexReady
  /\ listen' = "loop" /\ packet' = NoPacket /\ target' = "none"
  /\ UNCHANGED <<objectVars, askerVars, turn, registered, answer, moduleVars, budget>>

\* The RPC server's invoke() returns, answered or not.
InvokeDone ==
  /\ listen = "invoke"
  /\ listen' = "loop" /\ packet' = NoPacket
  /\ UNCHANGED <<objectVars, askerVars, requestVars, target, moduleVars, budget>>

ReadError ==
  /\ Readable
  /\ stopped' = TRUE
  /\ Fault
  /\ UNCHANGED <<life, initComplete, open, baseAddress, askerVars, requestVars,
                 listenVars, moduleVars>>

\* The device is found closed or given up: it is closed for ten seconds, and
\* what was not read is discarded with it.
CloseDevice ==
  /\ listen = "loop" /\ life # "stopping"
  /\ stopped \/ ~open
  /\ listen' = "sleep"
  /\ open' = FALSE
  /\ incoming' = <<>>
  /\ UNCHANGED <<life, flags, baseAddress, askerVars, requestVars, packet, target,
                 module, wanted, budget>>

\* The asker cannot go on by itself.
Blocked(t) ==
  \/ pc[t] = "idle"
  \/ pc[t] = "lock" /\ turn # Nobody
  \/ pc[t] = "wait" /\ ~mutexReady

\* In ten seconds every thread comes to where it has to wait.
Slept == listen = "sleep" /\ \A t \in Askers : Blocked(t)

\* Mutant: the flag that ended the previous connection stays set.
ReopenKeepsStopped ==
  /\ Slept
  /\ initComplete' = FALSE
  /\ open' = TRUE
  /\ listen' = "join"
  /\ UNCHANGED <<life, stopped, baseAddress, askerVars, requestVars, packet, target,
                 moduleVars, budget>>

\* _stopped is reset before the previous init() has been waited for.
Reopen ==
  /\ Slept
  /\ initComplete' = FALSE
  /\ stopped' = FALSE
  /\ open' = TRUE
  /\ listen' = "join"
  /\ UNCHANGED <<life, baseAddress, askerVars, requestVars, packet, target, moduleVars,
                 budget>>

ReopenFails ==
  /\ Slept
  /\ initComplete' = FALSE
  /\ listen' = "loop"
  /\ Fault
  /\ UNCHANGED <<life, stopped, open, baseAddress, askerVars, requestVars, packet,
                 target, moduleVars>>

RestartInit ==
  /\ listen = "join"
  /\ pc["init"] = "idle"
  /\ StartReading("init")
  /\ listen' = "loop"
  /\ UNCHANGED <<objectVars, requestVars, packet, target, moduleVars, budget>>

ListenStops ==
  /\ listen = "loop"
  /\ life = "stopping"
  /\ listen' = "done"
  /\ UNCHANGED <<objectVars, askerVars, requestVars, packet, target, moduleVars, budget>>

\* A telegram is received from the air.
Receive ==
  /\ open
  /\ Called
  /\ incoming' = Append(incoming, Telegram)
  /\ UNCHANGED <<objectVars, askerVars, requestVars, listenVars, module, wanted,
                 faults>>

-----------------------------------------------------------------------------
Asker(t) ==
  \/ Check(t) \/ Register(t) \/ Send(t) \/ Answered(t) \/ TimedOut(t)
  \/ Copy(t) \/ Erase(t) \/ Judge(t) \/ Complete(t)

Listener ==
  \/ ReadPacket \/ WriteResponse \/ SignalReady \/ InvokeDone
  \/ CloseDevice \/ Reopen \/ RestartInit \/ ListenStops

Next ==
  \/ Start \/ StartFails \/ Constructed \/ StopBegin \/ StopJoined \/ Destroyed
  \/ \E t \in Askers : Asker(t)
  \/ \E a \in Addresses : SetBaseAddress(a)
  \/ SendPacket \/ Receive
  \/ Listener \/ LosePacket \/ ReadError \/ ReopenFails
  \/ Ended

Spec == Init /\ [][Next]_vars

(***************************************************************************)
(* Every thread that can run does run, a wait of ten seconds ends, and an  *)
(* object that is being constructed or destroyed goes on.  The faults of   *)
(* device and line have no fairness and are bounded by MaxFaults.          *)
(***************************************************************************)
FairSpec ==
  /\ Spec
  /\ \A t \in Askers : WF_vars(Asker(t))
  /\ WF_vars(Listener)
  /\ WF_vars(Constructed \/ StopJoined \/ Destroyed)

-----------------------------------------------------------------------------
ObjectTypes ==
  /\ life \in {"new", "starting", "up", "stopping", "closed", "gone"}
  /\ stopped \in BOOLEAN /\ initComplete \in BOOLEAN /\ open \in BOOLEAN
  /\ baseAddress \in Addresses \union {"unknown"}

AskerTypes ==
  /\ pc \in [Askers -> {"idle", "check", "lock", "send", "wait", "copy", "erase",
                        "judge", "complete"}]
  /\ task \in [Askers -> {"read", "set"}]
  /\ attempt \in [Askers -> 0 .. Tries - 1]
  /\ response \in [Askers -> Packets]

RequestTypes ==
  /\ turn \in Askers \union {Nobody}
  /\ registered \in BOOLEAN /\ mutexReady \in BOOLEAN
  /\ answer \in Packets

ListenTypes ==
  /\ listen \in {"none", "loop", "write", "signal", "invoke", "sleep", "join", "done"}
  /\ packet \in Packets
  /\ target \in {"none", "live", "returned"}

LineTypes ==
  /\ module \in Addresses
  /\ wanted \in Addresses \union {"unknown"}
  /\ incoming \in Seq(Packets)
  /\ calls \in 0 .. MaxCalls /\ faults \in 0 .. MaxFaults

\* The types of the variables; no more attempts are made than allowed.
TypeOK == ObjectTypes /\ AskerTypes /\ RequestTypes /\ ListenTypes /\ LineTypes

(***************************************************************************)
(* When setBaseAddress() reports success, the address it has read back is  *)
(* the one it was asked to set: no late answer of an earlier command, no   *)
(* refusal and no other thread's answer passes for its own (lines          *)
(* 420-450).  Line 448 says so: "Base address set to 0x...".  It fails if  *)
(* the module also answers the telegrams of sendPacket().                  *)
(***************************************************************************)
SetMeansSet ==
  [][pc["tcp"] = "judge" /\ task["tcp"] = "read" /\ response["tcp"].kind = "base"
       /\ pc'["tcp"] = "idle"
       => baseAddress' = wanted]_vars

(***************************************************************************)
(* A gateway that has lost its device gets it back: reconnect() and the    *)
(* init() threads it leaves behind do not keep stopping each other, and    *)
(* the listening thread that waits for an init() is not waited for for     *)
(* ever by that init() (lines 163-206, 219-225).  And setBaseAddress()     *)
(* returns, so that the TCP thread can read the client's answers again,    *)
(* also when the listening thread waits for such an answer in invoke() and *)
(* reads none of the module's (lines 128, 321).                            *)
(***************************************************************************)
Recovers ==
  (life = "up" /\ listen # "none") ~>
    ((initComplete /\ open /\ ~stopped /\ pc["tcp"] = "idle") \/ life # "up")

(***************************************************************************)
(* The destructor ends, although it joins the listening thread while an    *)
(* init() may still wait for an answer only that thread could deliver.     *)
(***************************************************************************)
DestructorEnds == (life = "stopping") ~> (life = "gone")
=============================================================================

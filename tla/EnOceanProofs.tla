--------------------------- MODULE EnOceanProofs ---------------------------
(***************************************************************************)
(* Proofs about EnOcean, for all addresses, any number of attempts, calls  *)
(* and faults, and a module that does not answer telegrams:                *)
(* setBaseAddress() reports success only for the address that was set.     *)
(***************************************************************************)
EXTENDS EnOcean, TLAPS

Positions == 1 .. Len(incoming)
AckComes == \E k \in Positions : incoming[k] = Ack

\* Every base address read from position k on is the one that is wanted.
WantedFrom(k) ==
  \A j \in Positions : j >= k /\ incoming[j].kind = "base" => incoming[j].address = wanted

\* The module has executed the set command, and its answer has been read.
Settled == module = wanted /\ ~AckComes /\ WantedFrom(1)

-----------------------------------------------------------------------------
\* One asker at a time uses the request.
TurnFollowsPc ==
  /\ \A t \in Askers : pc[t] \in {"send", "wait", "copy", "erase"} <=> turn = t
  /\ registered <=> turn # Nobody
  /\ target = "live" => registered /\ listen \in {"write", "signal"}

\* Only the TCP thread sets the address.
Roles ==
  /\ \A t \in Askers : task[t] = "set" => t = "tcp"
  /\ pc["tcp"] # "complete"
  /\ pc["tcp"] = "check" /\ task["tcp"] = "set" => response["tcp"] = NoPacket
  /\ task["tcp"] = "set" => wanted \in Addresses

\* A closed device says nothing.
Silence ==
  /\ life = "new" => ~open /\ listen = "none" /\ \A t \in Askers : pc[t] = "idle"
  /\ life = "new" \/ listen = "sleep" => incoming = <<>> /\ ~open

\* An acknowledgement on the line belongs to the call that is running, or to one
\* that has given the device up.
AckIsExpected ==
  AckComes =>
    \/ task["tcp"] = "set" /\ pc["tcp"] \in {"wait", "copy", "erase", "judge"}
    \/ stopped /\ pc["tcp"] \in {"idle", "check", "judge"}

\* Before the set command is sent there is no acknowledgement of it.
NotYetSent ==
  task["tcp"] = "set" /\ pc["tcp"] = "send" =>
    answer # Ack /\ (target = "live" => packet # Ack)

\* When the acknowledgement of the running call comes, what comes after it is new.
AckOnTheLine ==
  task["tcp"] = "set" /\ pc["tcp"] \in {"wait", "copy"} =>
    \A k \in Positions : incoming[k] = Ack =>
      /\ module = wanted
      /\ WantedFrom(k)
      /\ \A j \in Positions : incoming[j] = Ack => j = k

AckInHand ==
  task["tcp"] = "set" /\ pc["tcp"] \in {"wait", "copy"} /\ target = "live" /\ packet = Ack
    => Settled

AckInRequest ==
  task["tcp"] = "set" /\ pc["tcp"] \in {"wait", "copy"} /\ answer = Ack => Settled

AckInResponse ==
  task["tcp"] = "set" /\ pc["tcp"] \in {"erase", "judge"} /\ response["tcp"] = Ack => Settled

\* While the address is read back no other address is under way to the TCP thread.
ReadsBack ==
  task["tcp"] = "read" /\ pc["tcp"] # "idle" =>
    /\ module = wanted /\ WantedFrom(1)
    /\ turn = "tcp" /\ target = "live" /\ packet.kind = "base" => packet.address = wanted
    /\ turn = "tcp" /\ answer.kind = "base" => answer.address = wanted
    /\ response["tcp"].kind = "base" => response["tcp"].address = wanted

IInv ==
  /\ TypeOK /\ ~TelegramsAcked
  /\ TurnFollowsPc /\ Roles /\ Silence
  /\ AckIsExpected /\ NotYetSent /\ AckOnTheLine /\ AckInHand /\ AckInRequest /\ AckInResponse
  /\ ReadsBack
-----------------------------------------------------------------------------
(* Packets and the line.                                                   *)

LEMMA PacketFacts ==
  /\ {NoPacket, Ack, Refusal, Telegram} \subseteq Packets
  /\ \A a \in Addresses : BaseIs(a) \in Packets /\ BaseIs(a) # Ack
                          /\ BaseIs(a).kind = "base" /\ BaseIs(a).address = a
  /\ \A p \in Packets : p.kind = "base" => p.address \in Addresses /\ p # Ack
  /\ NoPacket # Ack /\ Refusal # Ack /\ Telegram # Ack
  /\ NoPacket.kind # "base" /\ Refusal.kind # "base" /\ Telegram.kind # "base"
<1>1. /\ {NoPacket, Ack, Refusal, Telegram} \subseteq Packets
      /\ \A a \in Addresses : BaseIs(a) \in Packets
  BY DEF Packets
<1>2. \A a \in Addresses : BaseIs(a).kind = "base" /\ BaseIs(a).address = a
  BY DEF BaseIs
<1>3. /\ NoPacket.kind = "none" /\ Refusal.kind = "refusal" /\ Telegram.kind = "telegram"
      /\ Ack.kind = "ack"
  BY DEF NoPacket, Refusal, Telegram, Ack
<1>4. \A p \in Packets : p.kind = "base" => p.address \in Addresses
  BY <1>2, <1>3 DEF Packets
<1> QED BY <1>1, <1>2, <1>3, <1>4

LEMMA AppendFacts ==
  ASSUME NEW e \in Packets, incoming \in Seq(Packets), incoming' = Append(incoming, e)
  PROVE  /\ incoming' \in Seq(Packets)
         /\ Positions' = 1 .. Len(incoming) + 1
         /\ Len(incoming) \in Nat
         /\ \A k \in Positions : incoming'[k] = incoming[k]
         /\ incoming'[Len(incoming) + 1] = e
  BY DEF Positions

LEMMA TailFacts ==
  ASSUME incoming \in Seq(Packets), incoming # <<>>, incoming' = Tail(incoming)
  PROVE  /\ incoming' \in Seq(Packets)
         /\ Head(incoming) = incoming[1] /\ Head(incoming) \in Packets
         /\ Len(incoming) \in Nat \ {0}
         /\ Positions' = 1 .. Len(incoming) - 1
         /\ \A k \in Positions' : incoming'[k] = incoming[k + 1]
  BY DEF Positions
-----------------------------------------------------------------------------
(* The line and the module stay as they are.                               *)

Still == UNCHANGED <<incoming, module, wanted>>

LEMMA StillFacts ==
  ASSUME Still
  PROVE  /\ Positions' = Positions
         /\ AckComes' <=> AckComes
         /\ \A k : WantedFrom(k)' <=> WantedFrom(k)
         /\ Settled' <=> Settled
  BY DEF Still, Positions, AckComes, WantedFrom, Settled

(***************************************************************************)
(* Construction and destruction.                                           *)
(***************************************************************************)
Lives == Start \/ StartFails \/ Constructed \/ StopBegin \/ StopJoined \/ Destroyed

LEMMA LifePreserves ==
  ASSUME IInv, Lives
  PROVE  IInv'
<1> USE DEF Lives, Start, StartFails, Constructed, StopBegin, StopJoined, Destroyed,
      objectVars, flags, askerVars, requestVars, listenVars, moduleVars, budget, Fault, IInv,
      TypeOK
<1>0. Still
  BY DEF Still
<1>1. ObjectTypes'
  BY DEF ObjectTypes
<1>10. ListenTypes'
  BY DEF ListenTypes
<1>11. RequestTypes'
  BY DEF RequestTypes
<1>2. LineTypes'
  BY BoundsAssumption DEF LineTypes
<1>3. AskerTypes'
  BY PacketFacts, TriesAssumption DEF AskerTypes, StartReading, Askers
<1>4. TurnFollowsPc'
  BY DEF AskerTypes, TurnFollowsPc, StartReading, Askers, Silence
<1>5. Roles' /\ Silence'
  BY DEF AskerTypes, Roles, Silence, StartReading, Askers
<1>6. AckIsExpected' /\ NotYetSent'
  BY <1>0, StillFacts DEF AskerTypes, AckIsExpected, NotYetSent, StartReading, Askers,
    Silence, AckComes,
    Positions
<1>7. AckOnTheLine'
  BY <1>0, StillFacts DEF AskerTypes, AckOnTheLine, StartReading, Askers, Still
<1>8. AckInHand' /\ AckInRequest' /\ AckInResponse'
  BY <1>0, StillFacts DEF AskerTypes, AckInHand, AckInRequest, AckInResponse,
    StartReading, Askers
<1>9. ReadsBack'
  BY <1>0, StillFacts DEF AskerTypes, ReadsBack, StartReading, Askers, Still
<1> QED BY <1>1, <1>2, <1>3, <1>4, <1>5, <1>6, <1>7, <1>8, <1>9, <1>10, <1>11

(***************************************************************************)
(* getResponse(): what it checks, what it waits for.                       *)
(***************************************************************************)
Waits(t) == Check(t) \/ Answered(t) \/ TimedOut(t) \/ Complete(t)

LEMMA WaitPreserves ==
  ASSUME IInv, NEW t \in Askers, Waits(t)
  PROVE  IInv'
<1> USE DEF Waits, Check, Answered, TimedOut, Complete, Goto, objectVars, flags,
    askerVars, requestVars, listenVars, moduleVars, budget, Fault,
      IInv, TypeOK
<1>0. Still
  BY DEF Still
<1>1. ObjectTypes'
  BY PacketFacts DEF ObjectTypes, AskerTypes, LineTypes
<1>2. AskerTypes'
  BY PacketFacts, TriesAssumption DEF AskerTypes, RequestTypes
<1>3. RequestTypes'
  BY PacketFacts DEF RequestTypes, ListenTypes
<1>4. ListenTypes'
  BY PacketFacts DEF ListenTypes
<1>5. LineTypes'
  BY BoundsAssumption DEF LineTypes
<1>6. TurnFollowsPc'
  BY DEF AskerTypes, RequestTypes, ListenTypes, TurnFollowsPc, Askers, Nobody
<1>7. Roles'
  BY PacketFacts DEF AskerTypes, Roles, Askers
<1>8. Silence'
  BY DEF AskerTypes, Silence, Askers
<1>9. AckIsExpected'
  BY <1>0, StillFacts, PacketFacts DEF AskerTypes, AckIsExpected, AckComes, Positions,
    Silence, Askers
<1>10. NotYetSent'
  BY <1>0, StillFacts, PacketFacts DEF AskerTypes, NotYetSent, AckIsExpected,
    TurnFollowsPc, Askers
<1>11. AckOnTheLine'
  BY <1>0, StillFacts, PacketFacts DEF AskerTypes, AckOnTheLine, Still, TurnFollowsPc,
    NotYetSent, AckIsExpected, AckComes, Askers
<1>12. AckInHand'
  BY <1>0, StillFacts, PacketFacts DEF AskerTypes, AckInHand, NotYetSent, TurnFollowsPc,
    Askers
<1>13. AckInRequest'
  BY <1>0, StillFacts, PacketFacts DEF AskerTypes, AckInRequest, AckInHand, NotYetSent,
    TurnFollowsPc, Askers
<1>14. AckInResponse'
  BY <1>0, StillFacts, PacketFacts DEF AskerTypes, AckInResponse, AckInRequest, Roles,
    TurnFollowsPc, Askers
<1>15. ReadsBack'
  BY <1>0, StillFacts, PacketFacts DEF AskerTypes, ReadsBack, AckInResponse, Settled,
    Still, Roles, TurnFollowsPc, Askers
<1> QED BY <1>1, <1>2, <1>3, <1>4, <1>5, <1>6, <1>7, <1>8, <1>9, <1>10, <1>11, <1>12,
    <1>13, <1>14, <1>15

(***************************************************************************)
(* getResponse(): the request.                                             *)
(***************************************************************************)
Requests(t) == Register(t) \/ Copy(t) \/ Erase(t)

LEMMA RequestPreserves ==
  ASSUME IInv, NEW t \in Askers, Requests(t)
  PROVE  IInv'
<1> USE DEF Requests, Register, Copy, Erase, Goto, objectVars, flags, askerVars,
    requestVars, listenVars, moduleVars, budget, Fault,
      IInv, TypeOK
<1>0. Still
  BY DEF Still
<1>1. ObjectTypes'
  BY PacketFacts DEF ObjectTypes, AskerTypes, LineTypes
<1>2. AskerTypes'
  BY PacketFacts, TriesAssumption DEF AskerTypes, RequestTypes
<1>3. RequestTypes'
  BY PacketFacts DEF RequestTypes, ListenTypes
<1>4. ListenTypes'
  BY PacketFacts DEF ListenTypes
<1>5. LineTypes'
  BY BoundsAssumption DEF LineTypes
<1>6. TurnFollowsPc'
  BY DEF AskerTypes, RequestTypes, ListenTypes, TurnFollowsPc, Askers, Nobody
<1>7. Roles'
  BY PacketFacts DEF AskerTypes, Roles, Askers
<1>8. Silence'
  BY DEF AskerTypes, Silence, Askers
<1>9. AckIsExpected'
  BY <1>0, StillFacts, PacketFacts DEF AskerTypes, AckIsExpected, AckComes, Positions,
    Silence, Askers
<1>10. NotYetSent'
  BY <1>0, StillFacts, PacketFacts DEF AskerTypes, NotYetSent, AckIsExpected,
    TurnFollowsPc, Askers
<1>11. AckOnTheLine'
  BY <1>0, StillFacts, PacketFacts DEF AskerTypes, AckOnTheLine, Still, TurnFollowsPc,
    NotYetSent, AckIsExpected, AckComes, Askers
<1>12. AckInHand'
  BY <1>0, StillFacts, PacketFacts DEF AskerTypes, AckInHand, NotYetSent, TurnFollowsPc,
    Askers
<1>13. AckInRequest'
  BY <1>0, StillFacts, PacketFacts DEF AskerTypes, AckInRequest, AckInHand, NotYetSent,
    TurnFollowsPc, Askers
<1>14. AckInResponse'
  BY <1>0, StillFacts, PacketFacts DEF AskerTypes, AckInResponse, AckInRequest, Roles,
    TurnFollowsPc, Askers
<1>15. ReadsBack'
  BY <1>0, StillFacts, PacketFacts DEF AskerTypes, ReadsBack, AckInResponse, Settled,
    Still, Roles, TurnFollowsPc, Askers, Nobody,
    RequestTypes
<1> QED BY <1>1, <1>2, <1>3, <1>4, <1>5, <1>6, <1>7, <1>8, <1>9, <1>10, <1>11, <1>12,
    <1>13, <1>14, <1>15

(***************************************************************************)
(* init() and setBaseAddress().                                            *)
(***************************************************************************)
LEMMA JudgePreserves ==
  ASSUME IInv, NEW t \in Askers, Judge(t)
  PROVE  IInv'
<1> USE DEF Judge, SetAcknowledged, TakeBaseAddress, ReadAgain, GiveUp, Goto,
    objectVars, flags, askerVars, requestVars, listenVars, moduleVars, budget, Fault,
      IInv, TypeOK
<1>0. Still
  BY DEF Still
<1>1. ObjectTypes'
  <2>1. response[t] \in Packets
    BY DEF AskerTypes
  <2>2. response[t].kind = "base" => response[t].address \in Addresses
    BY <2>1, PacketFacts
  <2> QED BY <2>2 DEF ObjectTypes
<1>2. AskerTypes'
  BY PacketFacts, TriesAssumption DEF AskerTypes, RequestTypes
<1>3. RequestTypes'
  BY PacketFacts DEF RequestTypes, ListenTypes
<1>4. ListenTypes'
  BY PacketFacts DEF ListenTypes
<1>5. LineTypes'
  BY BoundsAssumption DEF LineTypes
<1>6. TurnFollowsPc'
  BY DEF AskerTypes, RequestTypes, ListenTypes, TurnFollowsPc, Askers, Nobody
<1>7. Roles'
  BY PacketFacts DEF AskerTypes, Roles, Askers
<1>8. Silence'
  BY DEF AskerTypes, Silence, Askers
<1>9. AckIsExpected'
  BY <1>0, StillFacts, PacketFacts DEF AskerTypes, AckIsExpected, AckInResponse,
    Settled, Roles, Askers
<1>10. NotYetSent'
  BY <1>0, StillFacts, PacketFacts DEF AskerTypes, NotYetSent, AckIsExpected,
    TurnFollowsPc, Askers
<1>11. AckOnTheLine'
  BY <1>0, StillFacts, PacketFacts DEF AskerTypes, AckOnTheLine, Still, TurnFollowsPc,
    NotYetSent, AckIsExpected, AckComes, Askers
<1>12. AckInHand'
  BY <1>0, StillFacts, PacketFacts DEF AskerTypes, AckInHand, NotYetSent, TurnFollowsPc,
    Askers
<1>13. AckInRequest'
  BY <1>0, StillFacts, PacketFacts DEF AskerTypes, AckInRequest, AckInHand, NotYetSent,
    TurnFollowsPc, Askers
<1>14. AckInResponse'
  BY <1>0, StillFacts, PacketFacts DEF AskerTypes, AckInResponse, AckInRequest, Roles,
    TurnFollowsPc, Askers
<1>15. ReadsBack'
  BY <1>0, StillFacts, PacketFacts DEF AskerTypes, ReadsBack, AckInResponse, Settled,
    Still, Roles, TurnFollowsPc, Askers
<1> QED BY <1>1, <1>2, <1>3, <1>4, <1>5, <1>6, <1>7, <1>8, <1>9, <1>10, <1>11, <1>12,
    <1>13, <1>14, <1>15

(***************************************************************************)
(* listen() and reconnect(), but for reading.                              *)
(***************************************************************************)
Listens ==
  \/ WriteResponse \/ SignalReady \/ InvokeDone \/ ReadError \/ Reopen \/ ReopenFails
  \/ ListenStops

LEMMA ListenPreserves ==
  ASSUME IInv, Listens
  PROVE  IInv'
<1> USE DEF IInv, TypeOK
<1>1. /\ Still /\ UNCHANGED <<pc, task, attempt, response, turn, registered, calls, wanted>>
      /\ faults' = faults \/ (faults < MaxFaults /\ faults' = faults + 1)
  BY DEF Listens, WriteResponse, SignalReady, InvokeDone, ReadError, Reopen, ReopenFails,
    ListenStops, Fault, objectVars, flags, askerVars, requestVars, listenVars, moduleVars,
    budget, Still
<1>2. /\ target' = "live" => target = "live" /\ listen' \in {"write", "signal"}
      /\ packet' = packet \/ target' # "live"
      /\ answer' = answer \/ (target = "live" /\ answer' = packet)
  BY DEF Listens, WriteResponse, SignalReady, InvokeDone, ReadError, Reopen, ReopenFails,
    ListenStops, Slept, Readable, objectVars, flags, requestVars, listenVars, TurnFollowsPc
<1>3. /\ listen = "sleep" \/ (stopped => stopped')
      /\ life' = life /\ life # "new"
  <2>1. listen = "sleep" \/ (stopped => stopped')
    BY DEF Listens, WriteResponse, SignalReady, InvokeDone, ReadError, Reopen,
      ReopenFails,
      ListenStops, Slept, objectVars, flags
  <2>2. life' = life
    BY DEF Listens, WriteResponse, SignalReady, InvokeDone, ReadError, Reopen,
      ReopenFails,
      ListenStops, objectVars
  <2>3. listen # "none"
    BY DEF Listens, WriteResponse, SignalReady, InvokeDone, ReadError, Reopen,
      ReopenFails,
      ListenStops, Slept, Readable
  <2> QED BY <2>1, <2>2, <2>3 DEF Silence
<1>4. listen' = "sleep" => listen = "sleep" /\ open' = open
  BY DEF Listens, WriteResponse, SignalReady, InvokeDone, ReadError, Reopen, ReopenFails,
    ListenStops, Slept, Readable, objectVars, flags, listenVars
<1>5. ObjectTypes' /\ RequestTypes' /\ ListenTypes'
  <2>1. ObjectTypes'
    BY DEF Listens, WriteResponse, SignalReady, InvokeDone, ReadError, Reopen,
      ReopenFails,
      ListenStops, objectVars, flags, ObjectTypes
  <2>2. RequestTypes'
    BY <1>1, <1>2 DEF Listens, WriteResponse, SignalReady, InvokeDone, ReadError, Reopen,
      ReopenFails, ListenStops, requestVars, RequestTypes, ListenTypes
  <2>3. ListenTypes'
    BY PacketFacts DEF Listens, WriteResponse, SignalReady, InvokeDone, ReadError, Reopen,
      ReopenFails, ListenStops, listenVars, ListenTypes
  <2> QED BY <2>1, <2>2, <2>3
<1>6. AskerTypes' /\ LineTypes'
  BY <1>1, BoundsAssumption DEF AskerTypes, LineTypes, Still
<1>7. TurnFollowsPc' /\ Roles'
  BY <1>1, <1>2 DEF TurnFollowsPc, Roles
<1>8. Silence'
  BY <1>1, <1>3, <1>4 DEF Silence, Still
<1>9. AckIsExpected'
  <2>1. AckComes => listen # "sleep"
    BY DEF Silence, AckComes, Positions
  <2> QED BY <1>1, <1>3, <2>1, StillFacts DEF AckIsExpected
<1>10. NotYetSent'
  BY <1>1, <1>2 DEF NotYetSent
<1>11. AckOnTheLine'
  BY <1>1, StillFacts DEF AckOnTheLine, Still
<1>12. AckInHand' /\ AckInRequest' /\ AckInResponse'
  BY <1>1, <1>2, StillFacts DEF AckInHand, AckInRequest, AckInResponse
<1>13. ReadsBack'
  BY <1>1, <1>2, StillFacts DEF ReadsBack, Still
<1> QED BY <1>5, <1>6, <1>7, <1>8, <1>9, <1>10, <1>11, <1>12, <1>13

LEMMA RestartInitPreserves ==
  ASSUME IInv, RestartInit
  PROVE  IInv'
<1> USE DEF RestartInit, StartReading, objectVars, flags, askerVars, requestVars,
    listenVars, moduleVars, budget, Fault,
      IInv, TypeOK
<1>0. Still
  BY DEF Still
<1>1. ObjectTypes'
  BY PacketFacts DEF ObjectTypes, AskerTypes, LineTypes
<1>2. AskerTypes'
  <2>1. "init" \in Askers /\ 0 \in 0 .. Tries - 1 /\ NoPacket \in Packets
    BY PacketFacts, TriesAssumption DEF Askers
  <2> QED BY <2>1 DEF AskerTypes
<1>3. RequestTypes'
  BY PacketFacts DEF RequestTypes, ListenTypes
<1>4. ListenTypes'
  BY PacketFacts DEF ListenTypes
<1>5. LineTypes'
  BY BoundsAssumption DEF LineTypes
<1>6. TurnFollowsPc'
  BY DEF AskerTypes, RequestTypes, ListenTypes, TurnFollowsPc, Askers, Nobody
<1>7. Roles'
  BY PacketFacts DEF AskerTypes, Roles, Askers
<1>8. Silence'
  BY DEF AskerTypes, Silence, Askers
<1>9. AckIsExpected'
  BY <1>0, StillFacts, PacketFacts DEF AskerTypes, AckIsExpected, AckComes, Positions,
    Silence, Askers
<1>10. NotYetSent'
  BY <1>0, StillFacts, PacketFacts DEF AskerTypes, NotYetSent, AckIsExpected,
    TurnFollowsPc, Askers
<1>11. AckOnTheLine'
  BY <1>0, StillFacts, PacketFacts DEF AskerTypes, AckOnTheLine, Still, TurnFollowsPc,
    NotYetSent, AckIsExpected, AckComes, Askers
<1>12. AckInHand'
  BY <1>0, StillFacts, PacketFacts DEF AskerTypes, AckInHand, NotYetSent, TurnFollowsPc,
    Askers
<1>13. AckInRequest'
  BY <1>0, StillFacts, PacketFacts DEF AskerTypes, AckInRequest, AckInHand, NotYetSent,
    TurnFollowsPc, Askers
<1>14. AckInResponse'
  BY <1>0, StillFacts, PacketFacts DEF AskerTypes, AckInResponse, AckInRequest, Roles,
    TurnFollowsPc, Askers
<1>15. ReadsBack'
  BY <1>0, StillFacts, PacketFacts DEF AskerTypes, ReadsBack, AckInResponse, Settled,
    Still, Roles, TurnFollowsPc, Askers
<1> QED BY <1>1, <1>2, <1>3, <1>4, <1>5, <1>6, <1>7, <1>8, <1>9, <1>10, <1>11, <1>12,
    <1>13, <1>14, <1>15

(***************************************************************************)
(* The commands of the TCP thread.                                         *)
(***************************************************************************)
LEMMA SetBaseAddressPreserves ==
  ASSUME IInv, NEW a \in Addresses, SetBaseAddress(a)
  PROVE  IInv'
<1> USE DEF SetBaseAddress, Called, Goto, objectVars, requestVars, listenVars, IInv,
    TypeOK
<1>1. ObjectTypes' /\ RequestTypes' /\ ListenTypes'
  BY DEF ObjectTypes, RequestTypes, ListenTypes
<1>2. AskerTypes'
  <2>1. "tcp" \in Askers /\ 0 \in 0 .. Tries - 1 /\ NoPacket \in Packets
    BY PacketFacts, TriesAssumption DEF Askers
  <2> QED BY <2>1 DEF AskerTypes
<1>3. LineTypes'
  BY BoundsAssumption DEF LineTypes
<1>4. TurnFollowsPc' /\ Roles'
  BY DEF AskerTypes, RequestTypes, TurnFollowsPc, Roles, Askers
<1>5. Silence'
  BY DEF Silence
<1>6. pc'["tcp"] = "check" /\ task'["tcp"] = "set" /\ response'["tcp"] = NoPacket
  BY DEF AskerTypes, Askers
<1>7. AckIsExpected'
  BY <1>6 DEF AckIsExpected, AckComes, Positions
<1>8. NotYetSent' /\ AckOnTheLine' /\ AckInHand' /\ AckInRequest' /\ AckInResponse'
  BY <1>6 DEF NotYetSent, AckOnTheLine, AckInHand, AckInRequest, AckInResponse
<1>9. ReadsBack'
  BY <1>6 DEF ReadsBack
<1> QED BY <1>1, <1>2, <1>3, <1>4, <1>5, <1>7, <1>8, <1>9

\* Nothing the invariant speaks of has changed but the count of calls.
LEMMA SendPacketPreserves ==
  ASSUME IInv, SendPacket
  PROVE  IInv'
<1>1. UNCHANGED <<life, stopped, open, initComplete, baseAddress, pc, task, attempt, response,
                  turn, registered, mutexReady, answer, listen, packet, target,
                  incoming, module, wanted, faults>>
  BY DEF SendPacket, Called, IInv, objectVars, askerVars, requestVars, listenVars
<1>2. calls' \in 0 .. MaxCalls
  BY BoundsAssumption DEF SendPacket, Called, IInv, TypeOK, LineTypes
<1> QED
  BY <1>1, <1>2 DEF IInv, TypeOK, ObjectTypes, AskerTypes, RequestTypes, ListenTypes,
    LineTypes,
    TurnFollowsPc, Roles, Silence, AckIsExpected, NotYetSent, AckOnTheLine, AckInHand,
    AckInRequest, AckInResponse, ReadsBack, Settled, AckComes, WantedFrom, Positions

(***************************************************************************)
(* Packets that come and go on the line.                                   *)
(***************************************************************************)

\* A packet that is no acknowledgement and no other address is appended.
LEMMA NewPacketFacts ==
  ASSUME incoming \in Seq(Packets), UNCHANGED <<module, wanted>>,
         NEW e \in Packets, incoming' = Append(incoming, e), e # Ack,
         e.kind = "base" => e.address = module
  PROVE  /\ AckComes' <=> AckComes
         /\ \A k \in Positions : module = wanted /\ WantedFrom(k) => WantedFrom(k)'
         /\ module = wanted /\ WantedFrom(1) => WantedFrom(1)'
         /\ Settled => Settled'
         /\ \A k \in Positions' : incoming'[k] = Ack => k \in Positions /\ incoming[k] = Ack
<1>1. /\ Positions' = 1 .. Len(incoming) + 1
      /\ Len(incoming) \in Nat
      /\ \A k \in Positions : incoming'[k] = incoming[k]
      /\ incoming'[Len(incoming) + 1] = e
  BY AppendFacts
<1>2. \A k \in Positions' : k \in Positions \/ k = Len(incoming) + 1
  BY <1>1 DEF Positions
<1>3. Positions \subseteq Positions'
  BY <1>1 DEF Positions
<1>4. AckComes' <=> AckComes
  BY <1>1, <1>2, <1>3 DEF AckComes
<1>5. \A k : module = wanted /\ WantedFrom(k) => WantedFrom(k)'
  BY <1>1, <1>2 DEF WantedFrom
<1> QED BY <1>1, <1>2, <1>4, <1>5 DEF Settled

\* The first packet is taken from the line.
LEMMA OldPacketFacts ==
  ASSUME incoming \in Seq(Packets), UNCHANGED <<module, wanted>>,
         incoming # <<>>, incoming' = Tail(incoming)
  PROVE  /\ AckComes' => AckComes
         /\ 1 \in Positions /\ Head(incoming) = incoming[1] /\ Head(incoming) \in Packets
         /\ \A k \in Positions' : k + 1 \in Positions /\ incoming'[k] = incoming[k + 1]
         /\ \A k \in Positions' : WantedFrom(k + 1) => WantedFrom(k)'
         /\ WantedFrom(1) => WantedFrom(1)'
         /\ Settled => Settled'
<1>1. /\ Head(incoming) = incoming[1] /\ Head(incoming) \in Packets
      /\ Len(incoming) \in Nat \ {0}
      /\ Positions' = 1 .. Len(incoming) - 1
      /\ \A k \in Positions' : incoming'[k] = incoming[k + 1]
  BY TailFacts
<1>2. \A k \in Positions' : k \in Nat /\ k >= 1 /\ k + 1 \in Positions
  BY <1>1 DEF Positions
<1>3. AckComes' => AckComes
  BY <1>1, <1>2 DEF AckComes
<1>4. \A k \in Positions' : WantedFrom(k + 1) => WantedFrom(k)'
  BY <1>1, <1>2 DEF WantedFrom
<1>5. WantedFrom(1) => WantedFrom(1)'
  BY <1>1, <1>2 DEF WantedFrom
<1>6. 1 \in Positions
  BY <1>1 DEF Positions
<1> QED BY <1>1, <1>2, <1>3, <1>4, <1>5, <1>6 DEF Settled

LEMMA ReceivePreserves ==
  ASSUME IInv, Receive
  PROVE  IInv'
<1>1. /\ UNCHANGED <<life, stopped, open, initComplete, baseAddress, pc, task, attempt,
                     response, turn, registered, mutexReady, answer, listen, packet, target,
                     module, wanted, faults>>
      /\ open /\ incoming' = Append(incoming, Telegram)
  BY DEF Receive, Called, objectVars, askerVars, requestVars, listenVars
<1>2. calls' \in 0 .. MaxCalls
  BY BoundsAssumption DEF Receive, Called, IInv, TypeOK, LineTypes
<1> USE DEF IInv, TypeOK
<1>3. incoming \in Seq(Packets) /\ Telegram \in Packets
  BY PacketFacts DEF LineTypes
<1>4. incoming' \in Seq(Packets)
  BY <1>1, <1>3, AppendFacts
<1>5. TypeOK'
  BY <1>1, <1>2, <1>4 DEF ObjectTypes, AskerTypes, RequestTypes, ListenTypes, LineTypes
<1>6. /\ AckComes' <=> AckComes
      /\ \A k \in Positions : module = wanted /\ WantedFrom(k) => WantedFrom(k)'
      /\ module = wanted /\ WantedFrom(1) => WantedFrom(1)'
      /\ Settled => Settled'
      /\ \A k \in Positions' : incoming'[k] = Ack => k \in Positions /\ incoming[k] = Ack
  BY <1>1, <1>3, NewPacketFacts, PacketFacts
<1>7. TurnFollowsPc' /\ Roles' /\ Silence' /\ NotYetSent'
  BY <1>1 DEF TurnFollowsPc, Roles, Silence, NotYetSent
<1>8. AckIsExpected' /\ AckInHand' /\ AckInRequest' /\ AckInResponse'
  BY <1>1, <1>6 DEF AckIsExpected, AckInHand, AckInRequest, AckInResponse
<1>9. AckOnTheLine'
  BY <1>1, <1>6 DEF AckOnTheLine
<1>10. ReadsBack'
  BY <1>1, <1>6 DEF ReadsBack
<1> QED BY <1>1, <1>5, <1>7, <1>8, <1>9, <1>10

\* A command is sent.  Only the set command, if executed, brings an acknowledgement.
LEMMA SendPreserves ==
  ASSUME IInv, NEW t \in Askers, Send(t)
  PROVE  IInv'
<1> USE DEF IInv, TypeOK
<1>1. /\ UNCHANGED <<life, stopped, open, initComplete, baseAddress, task, attempt, response,
                     turn, registered, mutexReady, answer, listen, packet, target, wanted,
                     calls>>
      /\ pc[t] = "send" /\ pc' = [pc EXCEPT ![t] = "wait"]
      /\ faults' = faults \/ (faults < MaxFaults /\ faults' = faults + 1)
  BY DEF Send, Goto, Fault, objectVars, requestVars, listenVars, budget
<1>2. \/ UNCHANGED <<incoming, module>>
      \/ /\ open /\ module' = module
         /\ \/ task[t] = "read" /\ incoming' = Append(incoming, BaseIs(module))
            \/ incoming' = Append(incoming, Refusal)
      \/ /\ open /\ task[t] = "set" /\ module' = wanted
         /\ incoming' = Append(incoming, Ack)
  BY DEF Send, Executed, AskerTypes
<1>3. turn = t /\ (t # "tcp" => pc'["tcp"] = pc["tcp"]) /\ (t = "tcp" => pc'["tcp"] = "wait")
  BY <1>1 DEF TurnFollowsPc, AskerTypes, Askers
<1>4. /\ incoming \in Seq(Packets) /\ module \in Addresses
      /\ {BaseIs(module), Refusal, Ack} \subseteq Packets
  BY PacketFacts DEF LineTypes
<1>5. module' \in Addresses /\ incoming' \in Seq(Packets)
  BY <1>2, <1>4, AppendFacts DEF Roles
<1>6. TypeOK'
  <2>1. AskerTypes'
    BY <1>1 DEF AskerTypes
  <2>2. LineTypes'
    BY <1>1, <1>5, BoundsAssumption DEF LineTypes
  <2> QED BY <1>1, <2>1, <2>2 DEF ObjectTypes, RequestTypes, ListenTypes
<1>7. TurnFollowsPc' /\ Roles'
  BY <1>1, <1>3 DEF TurnFollowsPc, Roles, AskerTypes, Askers
<1>8. Silence' /\ NotYetSent'
  BY <1>1, <1>2, <1>3 DEF Silence, NotYetSent, AskerTypes
<1>9. t = "tcp" => ~AckComes
  BY <1>1 DEF AckIsExpected
<1>10. CASE task[t] = "set" /\ incoming' = Append(incoming, Ack) /\ module' = wanted
  <2>1. t = "tcp" /\ task["tcp"] = "set" /\ pc'["tcp"] = "wait"
    BY <1>3, <1>10 DEF Roles
  <2>2. /\ Positions' = 1 .. Len(incoming) + 1 /\ Len(incoming) \in Nat
        /\ \A k \in Positions : incoming'[k] = incoming[k]
        /\ incoming'[Len(incoming) + 1] = Ack
    BY <1>4, <1>10, AppendFacts
  <2>3. \A k \in Positions' : incoming'[k] = Ack => k = Len(incoming) + 1
    BY <1>9, <2>1, <2>2 DEF AckComes, Positions
  <2>4. \A k \in Positions' : incoming'[k] = Ack => WantedFrom(k)'
    <3> SUFFICES ASSUME NEW k \in Positions', incoming'[k] = Ack,
                        NEW j \in Positions', j >= k
                 PROVE  incoming'[j].kind # "base"
      BY DEF WantedFrom
    <3>1. k = Len(incoming) + 1
      BY <2>3
    <3>2. j = k
      BY <2>2, <3>1
    <3> QED BY <3>2, PacketFacts
  <2>5. AckOnTheLine'
    BY <1>1, <1>10, <2>1, <2>3, <2>4 DEF AckOnTheLine
  <2>6. AckIsExpected' /\ ReadsBack'
    BY <1>1, <2>1 DEF AckIsExpected, ReadsBack
  <2>7. AckInHand' /\ AckInRequest' /\ AckInResponse'
    BY <1>1, <2>1 DEF AckInHand, AckInRequest, AckInResponse, NotYetSent
  <2> QED BY <1>1, <1>6, <1>7, <1>8, <2>5, <2>6, <2>7
<1>11. CASE \/ UNCHANGED <<incoming, module>>
            \/ /\ module' = module
               /\ \/ task[t] = "read" /\ incoming' = Append(incoming, BaseIs(module))
                  \/ incoming' = Append(incoming, Refusal)
  <2>1. /\ module' = module
        /\ AckComes' <=> AckComes
        /\ \A k \in Positions : module = wanted /\ WantedFrom(k) => WantedFrom(k)'
        /\ module = wanted /\ WantedFrom(1) => WantedFrom(1)'
        /\ Settled => Settled'
        /\ \A k \in Positions' : incoming'[k] = Ack => k \in Positions /\ incoming[k] = Ack
    <3>1. CASE UNCHANGED <<incoming, module>>
      BY <1>1, <3>1, StillFacts DEF Still
    <3>2. CASE module' = module /\ incoming' = Append(incoming, BaseIs(module))
      BY <1>1, <1>4, <3>2, NewPacketFacts, PacketFacts
    <3>3. CASE module' = module /\ incoming' = Append(incoming, Refusal)
      BY <1>1, <1>4, <3>3, NewPacketFacts, PacketFacts
    <3> QED BY <1>11, <3>1, <3>2, <3>3
  <2>2. AckIsExpected'
    BY <1>1, <1>3, <1>9, <2>1 DEF AckIsExpected
  <2>3. AckOnTheLine'
    BY <1>1, <1>3, <1>9, <2>1 DEF AckOnTheLine, AckComes
  <2>4. AckInHand' /\ AckInRequest' /\ AckInResponse'
    BY <1>1, <1>3, <2>1 DEF AckInHand, AckInRequest, AckInResponse, NotYetSent
  <2>5. ReadsBack'
    BY <1>1, <1>3, <2>1 DEF ReadsBack
  <2> QED BY <1>1, <1>6, <1>7, <1>8, <2>2, <2>3, <2>4, <2>5
<1> QED BY <1>2, <1>10, <1>11

LEMMA CloseDevicePreserves ==
  ASSUME IInv, CloseDevice
  PROVE  IInv'
<1> USE DEF IInv, TypeOK
<1>1. /\ UNCHANGED <<life, stopped, initComplete, baseAddress, pc, task, attempt, response,
                     turn, registered, mutexReady, answer, packet, target, module, wanted,
                     calls, faults>>
      /\ listen = "loop" /\ listen' = "sleep" /\ open' = FALSE /\ incoming' = <<>>
  BY DEF CloseDevice, flags, askerVars, requestVars, budget
<1>2. Positions' = {}
  BY <1>1 DEF Positions
<1>3. ~AckComes' /\ \A k : WantedFrom(k)'
  BY <1>2 DEF AckComes, WantedFrom
<1>4. TypeOK'
  <2>1. LineTypes'
    BY <1>1 DEF LineTypes
  <2>2. ListenTypes' /\ ObjectTypes'
    BY <1>1 DEF ListenTypes, ObjectTypes
  <2> QED BY <1>1, <2>1, <2>2 DEF AskerTypes, RequestTypes
<1>5. TurnFollowsPc' /\ Roles' /\ Silence' /\ NotYetSent'
  BY <1>1 DEF TurnFollowsPc, Roles, Silence, NotYetSent
<1>6. AckIsExpected' /\ AckOnTheLine'
  BY <1>2, <1>3 DEF AckIsExpected, AckOnTheLine
<1>7. AckInHand' /\ AckInRequest' /\ AckInResponse'
  BY <1>1, <1>3 DEF AckInHand, AckInRequest, AckInResponse, Settled
<1>8. ReadsBack'
  BY <1>1, <1>3 DEF ReadsBack
<1> QED BY <1>1, <1>4, <1>5, <1>6, <1>7, <1>8

\* A packet is read, or lost.
LEMMA ReadPreserves ==
  ASSUME IInv, ReadPacket \/ LosePacket
  PROVE  IInv'
<1> USE DEF IInv, TypeOK
<1>1. /\ UNCHANGED <<life, stopped, open, initComplete, baseAddress, pc, task, attempt,
                     response, turn, registered, mutexReady, answer, module, wanted, calls>>
      /\ listen = "loop" /\ incoming # <<>> /\ incoming' = Tail(incoming)
      /\ faults' = faults \/ (faults < MaxFaults /\ faults' = faults + 1)
  BY DEF ReadPacket, LosePacket, Readable, Fault, objectVars, askerVars, requestVars,
    listenVars, budget
<1>2. target # "live"
  BY <1>1 DEF TurnFollowsPc
<1>3. /\ UNCHANGED <<listen, packet>> \/ packet' = Head(incoming)
      /\ listen' \in {"loop", "write", "invoke"}
      /\ target' = target \/ (target' = "live" /\ registered /\ listen' = "write")
      /\ target' = "live" => packet' = Head(incoming)
  BY <1>1, <1>2 DEF ReadPacket, LosePacket, Readable, listenVars
<1>4. incoming \in Seq(Packets)
  BY DEF LineTypes
<1>5. /\ AckComes' => AckComes
      /\ 1 \in Positions /\ Head(incoming) = incoming[1] /\ Head(incoming) \in Packets
      /\ \A k \in Positions' : k + 1 \in Positions /\ incoming'[k] = incoming[k + 1]
      /\ \A k \in Positions' : WantedFrom(k + 1) => WantedFrom(k)'
      /\ WantedFrom(1) => WantedFrom(1)'
      /\ Settled => Settled'
  BY <1>1, <1>4, OldPacketFacts
<1>6. TypeOK'
  <2>1. incoming' \in Seq(Packets)
    BY <1>1, <1>4, TailFacts
  <2>2. LineTypes'
    BY <1>1, <2>1, BoundsAssumption DEF LineTypes
  <2>3. ListenTypes'
    BY <1>1, <1>3, <1>5 DEF ListenTypes
  <2> QED BY <1>1, <2>2, <2>3 DEF ObjectTypes, AskerTypes, RequestTypes
<1>7. TurnFollowsPc' /\ Roles'
  BY <1>1, <1>2, <1>3 DEF TurnFollowsPc, Roles
<1>8. Silence'
  BY <1>1, <1>3 DEF Silence
<1>9. AckIsExpected'
  BY <1>1, <1>5 DEF AckIsExpected
<1>10. NotYetSent'
  BY <1>1, <1>2, <1>3, <1>5 DEF NotYetSent, AckIsExpected, AckComes
<1>11. AckOnTheLine'
  <2> SUFFICES ASSUME task["tcp"] = "set", pc["tcp"] \in {"wait", "copy"},
                      NEW k \in Positions', incoming'[k] = Ack
               PROVE  /\ module = wanted /\ WantedFrom(k)'
                      /\ \A j \in Positions' : incoming'[j] = Ack => j = k
    BY <1>1 DEF AckOnTheLine
  <2>1. k + 1 \in Positions /\ incoming[k + 1] = Ack
    BY <1>5
  <2>2. /\ module = wanted /\ WantedFrom(k + 1)
        /\ \A j \in Positions : incoming[j] = Ack => j = k + 1
    BY <2>1 DEF AckOnTheLine
  <2>3. \A j \in Positions' : j \in Nat
    BY <1>1, <1>4, TailFacts
  <2> QED BY <1>5, <2>2, <2>3
<1>12. AckInHand'
  <2> SUFFICES ASSUME task["tcp"] = "set", pc["tcp"] \in {"wait", "copy"}, incoming[1] = Ack
               PROVE  Settled'
    BY <1>1, <1>2, <1>3, <1>5 DEF AckInHand
  <2>1. module = wanted /\ WantedFrom(1) /\ \A j \in Positions : incoming[j] = Ack => j = 1
    BY <1>5 DEF AckOnTheLine
  <2>2. \A k \in Positions' : k # 0
    BY DEF Positions
  <2>3. ~AckComes'
    BY <1>5, <2>1, <2>2 DEF AckComes, Positions
  <2> QED BY <1>1, <1>5, <2>1, <2>3 DEF Settled
<1>13. AckInRequest' /\ AckInResponse'
  BY <1>1, <1>5 DEF AckInRequest, AckInResponse
<1>14. ReadsBack'
  <2> SUFFICES ASSUME task["tcp"] = "read", pc["tcp"] # "idle" PROVE ReadsBack'
    BY <1>1 DEF ReadsBack
  <2>1. module = wanted /\ WantedFrom(1)
    BY DEF ReadsBack
  <2>2. Head(incoming).kind = "base" => Head(incoming).address = wanted
    BY <1>5, <2>1 DEF WantedFrom, Positions
  <2>3. target' = "live" /\ packet'.kind = "base" => packet'.address = wanted
    BY <1>3, <2>2
  <2> QED BY <1>1, <1>5, <2>1, <2>3 DEF ReadsBack
<1> QED BY <1>1, <1>6, <1>7, <1>8, <1>9, <1>10, <1>11, <1>12, <1>13, <1>14

-----------------------------------------------------------------------------
LEMMA Initial == Init /\ ~TelegramsAcked => IInv
<1> SUFFICES ASSUME Init, ~TelegramsAcked PROVE IInv
  OBVIOUS
<1> USE DEF Init
<1>1. TypeOK
  <2>1. AskerTypes
    BY PacketFacts, TriesAssumption DEF AskerTypes
  <2>2. LineTypes
    BY BoundsAssumption DEF LineTypes
  <2>3. ObjectTypes
    BY DEF ObjectTypes
  <2>4. RequestTypes /\ ListenTypes
    BY PacketFacts DEF RequestTypes, ListenTypes
  <2> QED BY <2>1, <2>2, <2>3, <2>4 DEF TypeOK
<1>2. TurnFollowsPc /\ Roles /\ Silence
  BY DEF TurnFollowsPc, Roles, Silence, Askers, Nobody
<1>3. ~AckComes
  BY DEF AckComes, Positions
<1>4. pc["tcp"] = "idle"
  BY DEF Askers
<1> QED
  BY <1>1, <1>2, <1>3, <1>4 DEF IInv, AckIsExpected, NotYetSent, AckOnTheLine, AckInHand,
    AckInRequest, AckInResponse, ReadsBack

LEMMA Preserved == IInv /\ [Next]_vars => IInv'
<1> SUFFICES ASSUME IInv, [Next]_vars PROVE IInv'
  OBVIOUS
<1>1. CASE UNCHANGED vars
  BY <1>1 DEF vars, objectVars, askerVars, requestVars, listenVars, moduleVars, budget,
    IInv,
    TypeOK, ObjectTypes, AskerTypes, RequestTypes, ListenTypes, LineTypes, TurnFollowsPc,
    Roles, Silence, AckIsExpected, NotYetSent, AckOnTheLine, AckInHand, AckInRequest,
    AckInResponse, ReadsBack, Settled, AckComes, WantedFrom, Positions
<1>2. CASE Lives
  BY <1>2, LifePreserves
<1>3. ASSUME NEW t \in Askers, Asker(t) PROVE IInv'
  <2>1. Waits(t) \/ Requests(t) \/ Judge(t) \/ Send(t)
    BY <1>3 DEF Asker, Waits, Requests
  <2> QED BY <2>1, WaitPreserves, RequestPreserves, JudgePreserves, SendPreserves
<1>4. ASSUME NEW a \in Addresses, SetBaseAddress(a) PROVE IInv'
  BY <1>4, SetBaseAddressPreserves
<1>5. CASE Listens \/ RestartInit \/ CloseDevice \/ ReadPacket \/ LosePacket
  BY <1>5, ListenPreserves, RestartInitPreserves, CloseDevicePreserves, ReadPreserves
<1>6. CASE SendPacket \/ Receive
  BY <1>6, SendPacketPreserves, ReceivePreserves
<1> QED BY <1>1, <1>2, <1>3, <1>4, <1>5, <1>6 DEF Next, Lives, Listener, Listens, Ended

-----------------------------------------------------------------------------
(***************************************************************************)
(* With a module that does not answer telegrams, the invariant always      *)
(* holds.                                                                  *)
(***************************************************************************)
THEOREM Invariant == Spec /\ ~TelegramsAcked => []IInv
  BY Initial, Preserved, PTL DEF Spec

\* The variables keep their types; no more attempts are made than allowed.
THEOREM TypeCorrect == Spec /\ ~TelegramsAcked => []TypeOK
<1>1. IInv => TypeOK
  BY DEF IInv
<1> QED BY <1>1, Invariant, PTL

(***************************************************************************)
(* setBaseAddress() reports success only when the address that it has read *)
(* back is the one it was asked to set.                                    *)
(***************************************************************************)
THEOREM SuccessMeansSet == Spec /\ ~TelegramsAcked => SetMeansSet
<1>1. ASSUME IInv, [Next]_vars
      PROVE  [pc["tcp"] = "judge" /\ task["tcp"] = "read" /\ response["tcp"].kind = "base"
                /\ pc'["tcp"] = "idle" => baseAddress' = wanted]_vars
  <2> SUFFICES ASSUME Next, pc["tcp"] = "judge", task["tcp"] = "read",
                      response["tcp"].kind = "base", pc'["tcp"] = "idle"
               PROVE  baseAddress' = wanted
    BY <1>1
  <2>1. response["tcp"].address = wanted
    BY <1>1 DEF IInv, ReadsBack
  <2>2. Judge("tcp")
    <3>0. AskerTypes
      BY <1>1 DEF IInv, TypeOK
    <3>1. pc'["tcp"] # pc["tcp"]
      OBVIOUS
    <3>2. ~(Lives \/ Listens \/ CloseDevice \/ ReadPacket \/ LosePacket \/ SendPacket
              \/ Receive \/ Ended)
      <4>1. Lives \/ Listens \/ CloseDevice \/ ReadPacket \/ LosePacket \/ SendPacket
              \/ Receive \/ Ended => pc'["tcp"] = pc["tcp"]
        BY <3>0 DEF Lives, Start, StartFails, Constructed, StopBegin, StopJoined,
          Destroyed,
          Listens, WriteResponse, SignalReady, InvokeDone, ReadError, Reopen, ReopenFails,
          ListenStops, CloseDevice, ReadPacket, LosePacket, SendPacket, Receive, Ended,
          StartReading, askerVars, vars, AskerTypes, Askers
      <4> QED BY <3>1, <4>1
    <3>3. ~RestartInit
      BY <3>0, <3>1 DEF RestartInit, StartReading, AskerTypes, Askers
    <3>4. \A a \in Addresses : ~SetBaseAddress(a)
      BY DEF SetBaseAddress
    <3>5. PICK t \in Askers : Asker(t)
      BY <3>2, <3>3, <3>4 DEF Next, Lives, Listener, Listens
    <3>6. t = "tcp"
      BY <3>0, <3>1, <3>5 DEF Asker, Check, Register, Send, Answered, TimedOut, Copy,
        Erase,
        Judge, Complete, Goto, GiveUp, ReadAgain, TakeBaseAddress, SetAcknowledged,
        AskerTypes, Askers
    <3> QED
      BY <3>5, <3>6 DEF Asker, Check, Register, Send, Answered, TimedOut, Copy, Erase,
        Complete
  <2> QED BY <2>1, <2>2 DEF Judge, TakeBaseAddress
<1> QED BY <1>1, Invariant, PTL DEF SetMeansSet, Spec
=============================================================================

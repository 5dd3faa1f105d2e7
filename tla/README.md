# A formal model of Homegear Gateway

Homegear Gateway connects one radio module (EnOcean, Z-Wave, Zigbee, HomeMatic
BidCoS, MAX!) to Homegear over the network. It is a small program of many
threads that hand answers to each other under mutexes, condition variables and
timeouts. This directory holds TLA+ modules of the parts where that is hard, the
TLC runs that check them on small instances, and TLAPS proofs of the properties
that matter most. `PROJECT.json` lists runs, mutants, theorems, hazards and, for
each definition, the source lines it stands for.

## The system

| component | state | operations | talks to |
|---|---|---|---|
| RPC server (`RpcServer.cpp`) | TCP server, one client, `_invokeMutex`, `_requestMutex`, `_waitForResponse`, `_rpcResponse`, `_stopped` | `start`, `stop`, `restart`, `invoke`, `packetReceived`, `newConnection`, `configure` | families (both ways), UPnP, the client |
| EnOcean (`Families/EnOcean.cpp`) | serial device, `_requests`, `_stopped`, `_initComplete`, `_baseAddress` | `start`, `stop`, `init`, `reconnect`, `listen`, `getResponse`, RPC methods | RPC server, serial module |
| Z-Wave, Zigbee | serial device, parser state, `_emptyReadBuffers` hand-shake | `listen`, `reconnect`, `sendPacket`, `emptyReadBuffers` | RPC server, serial module |
| HomeMatic / MAX! CC1101, CC110L test | SPI and GPIO descriptors, `_txMutex`, `_sending`, `_sendingPending` | `mainThread`, `sendPacket`, `enableUpdateMode`, `disableUpdateMode`, `initChip` | RPC server, transceiver |
| culfw sticks | serial device | `lineReceived`, `sendPacket`, update mode | RPC server |
| UPnP (`UPnP.cpp`) | socket, `_stopServer`, packets composed once | `start`, `stop`, `listen` | RPC server (state it announces) |
| process (`main.cpp`) | `_startUpComplete`, `_shutdownQueued`, `shuttingDown`, `_stopMain` | `startUp`, `signalHandlerThread`, `terminateProgram` | RPC server, UPnP, systemd |
| settings, globals, packaging | configuration | parsed once at start | all |

Threads and calls. A family owns threads that call `RpcServer::invoke` through a
callback and block in it for the client's answer. The thread of the TCP server
(external, `C1Net::TcpServer`) runs `packetReceived`: it stores answers for
`invoke` and executes the client's own requests by `callMethod` of the family,
which may itself block for seconds. The main thread starts both, the signal
handler stops them, and after a remote configuration a maintenance thread stops
and starts the RPC server.

What is hard here, with the properties that make each part correct:

* *RPC invocation.* Nothing in an answer names its request. An invocation must
  not be given the answer of another one, an answer must not be used twice, a
  blocked caller must not miss its wake-up, every call must return and `stop`
  must end although it wakes nobody.
* *EnOcean.* Answers are matched by packet type only, and all of them have the
  same type. A retry or a late answer must not make `setBaseAddress` report an
  address that was not set; the listening thread, which joins `init`, and
  `init`, which waits for the listening thread, must not wait for ever.
* *Process.* Signals may come at any point of startup, reload and shutdown. The
  services are stopped once, a queued shutdown is executed, `main` leaves
  nothing running.
* *Restart and configuration, UPnP.* The restart races the shutdown, a second
  `configure` call joins the thread that waits for it, the announcement is
  composed once. Certificates of different calls must not be mixed; the configured
  flag and the port of LOCATION that are announced must be true.
* *CC1101 radios.* `_txMutex` is locked by one thread and unlocked by another,
  after an interrupt that may be merged with the next one. At rest the mutex
  must be free and the receiver on; calls must return.
* *Serial parsers.* Length fields at their limits, resynchronisation, an
  exception in the middle of a packet, the `emptyReadBuffers` hand-shake with a
  listener that reconnects. Every frame must get through while no byte is lost.

## Modules

| module | models | uses |
|---|---|---|
| `RpcInvoke` | `invoke`, the answer branch of `packetReceived`, `newConnection`, `start`, `stop` | instance of `RemoteCall` |
| `RemoteCall` | what an invocation promises: abstract | |
| `EnOcean` | the EnOcean interface over whole packets, and its module | |
| `SerialInterface` | Z-Wave, Zigbee and the framing of EnOcean, byte by byte | instance of `FrameChannel` |
| `FrameChannel` | what such an interface promises its client: abstract | |
| `SerialFrame` | the checksums of the three protocols, as pure functions | |
| `MCSerialInterface` | frames for TLC | `SerialInterface`, `SerialFrame` |
| `Cc1101` | HomeMatic, MAX! and the CC110L test: threads, lock, transceiver | |
| `MCCc1101` | which families with how many failures | `Cc1101` |
| `Maintenance` | `configure`, `restart`, UPnP, startup and shutdown of the services | |
| `Lifecycle` | `startUp`, the signal handler, `terminateProgram`, the end of `main` | |
| `...Proofs` (8) | theorems | the module each is named after; `FrameChannelProofs` is about `SerialInterface`, too |

The families of one kind were copied from each other. `SerialInterface` and
`Cc1101` therefore have a variable `family` that never changes, chosen by
`Init`, and the actions that differ are named after the family (`ZWaveListen`,
`MaxSendPacket`).

### RpcInvoke

`pc[c]` is where thread `c` is in `invoke`; the two mutexes are variables that
name their holder. One action stands for the code between two points at which
another thread can interfere: the guard of line 321, taking `_invokeMutex`,
taking `_requestMutex` with the reset of the response, `Send`, one evaluation of
the predicate of `wait_for`, the return. The predicate is evaluated before the
wait, after every notification or spurious wake-up and after every timeout, and
counts each time, as the lambda of line 334 does; `EvalLimit` is the 10 of line
336. `wait_for` is external: it blocks, is notified, wakes spuriously or times
out. `tcp` is the TCP thread: it reads the flag (`ReceiveAnswer`), stores
(`StoreResponse`) and notifies (`Notify`) in separate steps. The client may
answer late, never or out of order, disconnect, and send its own requests;
`Send` may lose the packet or throw. Requests are numbered for the properties
only: `history[n]` is whose answer invocation n was given.

`RemoteCall` has no threads: a request is asked, sent, then answered by some
answer that can still arrive (`usable`), which is then gone, or it fails. The
mapping takes `Phase` from the label of the holder of `_invokeMutex` and
`Usable` from the requests the client has, the answer in the TCP thread's hands
and the stored one. Fully correct attribution is not promised, because the code
does not give it: after a failed call its late answer may be returned by the
next call. What holds is `OwnAnswerUntilFailure` and `AtMostOnce`.

The gateway is configured (`_unconfigured` is false), packets are whole, and one
client is connected at a time (`max_connections = 1`).

### EnOcean

Three threads run `getResponse`: the constructing thread and the thread of
`reconnect`, in `init`, and the TCP thread, in `setBaseAddress`. Its steps are
actions `Check`, `Register`, `Send`, `Answered` or `TimedOut`, `Copy`, `Erase`;
`Judge` is what the caller makes of the response, by its shape, as the code
does. The two mutexes held from line 111 are one variable, `turn`. The listening
thread reads a packet and looks its request up (`ReadPacket`), writes the
response (`WriteResponse`, without the mutex), signals (`SignalReady`) or calls
`invoke`; it closes and reopens a lost device. The module is external: it
executes commands in order and answers, refuses or loses them; `incoming` is the
serial line, in order. How packets are cut out of bytes is in `SerialInterface`.

Assumptions on time: in the ten seconds the listening thread sleeps before it
reopens a device, every other thread gets to a point where it waits (`Slept`). A
timeout whose answer is already on its way counts as a fault. Closing a device
discards its unread input.

### SerialInterface

The listening thread reads one byte per step. `data` and `packetSize` are the
locals of `listen`, the size rule and the completion of a packet follow each
protocol (`NextByte` of Z-Wave and Zigbee, `EnOceanNextByte` with both
checksums, the 16 bit length and the optional length). A complete packet is
handed over by `invoke` (`calling`), which returns or throws. `Lost`,
`Reconnect`, `ReadError` and `Silence` are the other branches of the loop;
`EmptyReadBuffers` is the listener's half of the hand-shake, `EmptyRequest` the
half of the RPC method on the TCP thread. `Start`, `Stop`, `GiveUp` (EnOcean's
`init` sets `_stopped`) and `SetInvoke` are the rest of the interface.

The module is external: it sends frames of a given set, the line may lose a byte
or fail and heals again. A frame is what its protocol calls one (`IsFrame`): start
byte, length, checksum, for Z-Wave also the three single bytes; an EnOcean packet
has at least one byte of data. `sent`, `got` and `inSync` exist for the
properties: the frames sent since the last silence, how many of them the client
has got, and whether every byte since then was kept. A byte is not kept when the
line loses it, when the device fails or is closed, when `emptyReadBuffers`
discards it, and when `invoke` throws because there is nobody to call yet.

`FrameChannel` has no bytes, no parser and no threads. The module sends, the next
frame in order is handed over, the client returns; something is lost, after which
the client may get anything until the module is silent; and at a silence with
nothing lost no frame may be left. The client is busy while `calling` is
"packet". The NACK that Z-Wave reports for an abandoned or bad packet is not a
packet of the channel.

The timer of 1.5 s (EnOcean: 100 ms) is abstracted: a silence may be noticed
whenever there is nothing to read. `sendPacket`, `rawSend` and the
acknowledgements on the line change no state of the gateway and are left out.

### Cc1101

`main` is where the listening thread is (`Poll`, `Low`, `High`, `EndSending`,
`Receive`, `Rearm`, `Unlock`, then `Lost`, `Abandon`, `Release` and
`InitDevice`), `sender[t]` where the TCP thread and the thread of the
transmission test are in `sendPacket` and `txThread`: announce (`Pending`),
lock, check again, send strobes, `Transmit`. `chip` is the transceiver
(external), which is on the air, receiving or idle, obeys strobes unless it
hangs (`ChipHangs`), and moves the pin; `edge` says that `poll` would report it.
A reader gets the level and not the history, so edges for which the thread is
late merge. `LockTimeout`, `ForceUnlock` and `SecondTimeout` are the waits of 10
s and 100 ms of HomeMatic and the test; MAX! has none.

Assumptions on time: the ten seconds end only when nothing is on its way that
would unlock (`AtRest`), since a packet is on the air for milliseconds and
`invoke` gives up after about five seconds. Register tables, packet encoding and
`_updateMode`, which these families never read, are left out.

### Maintenance

Four threads: `main` in `startUp`, the TCP thread in `packetReceived` and
`configure`, the maintenance thread in `restart`, the signal handler in
`terminateProgram`. They share `start` and `stop` of the server (`Start(t)`,
`StopServer(t, next)`) and of UPnP (`UpnpStart`, `UpnpStop(t)`: test
`_stopServer`, set it, join, say goodbye). `serverInfo` is what `start` prepares,
`server` is `_tcpServer`, which is set only where it starts. `listening`, `socket`,
`packets` and `announced` belong to `UPnP::listen`: a turn of its loop begins with
the test of `_stopServer` and may still send after it. Of a packet the model keeps
the configured flag, the port of LOCATION and the announced unconfigured port. A
certificate is the number of the call that wrote it. The process may be killed at
any step and comes back with the files it had (`Kill`); a server or a socket may
fail to start. Where the code dereferences null the process is `crashed`.

The code does not protect itself against changes that overlap. `early` records
that a call was accepted before the startup or the restart was done, `met` that
the shutdown met a call or the restart. `OneCall` and `ConfiguredForGood`
except only `early`, `BecomesConfigured` also a shutdown that has begun. `OrderlyShutdown` and `ShutdownEnds` say
what a shutdown that meets the restart still guarantees: when it is complete there
is no server and no maintenance thread, and from the reset of `Gd::rpcServer` on it
ends. Only what is said about UPnP (`AnnouncesStatus`, `CrashNeedsOverlap`) excepts
`met` altogether; what happens then is listed under "What the model showed".

### Lifecycle

`pc` is where the main thread and the signal handler are. A section under
`_shuttingDownMutex` is one step: it is short and the data it protects is
written nowhere else. Blocked signals are a set (equal ones coalesce) and
`sigwait` takes any of them. `terminateProgram` is shared by the two threads.
Failing privileges, waits for the time and for an address, a server that cannot
be started, UPnP enabled or not, and an exception in `startUp` are choices.
Dereferencing the null `Gd::rpcServer` ends the process (`crashed`). SIGSEGV
acts like SIGABRT, every other signal like SIGTERM.

## Runs

| run | checks | bounds |
|---|---|---|
| `RpcInvoke` | `TypeOK`, `WaitingIsAnnounced`, `NoLostWakeup`, `AtMostOnce`, `OwnAnswerUntilFailure`, `ImplementsRemoteCall`, `HolderReturns`, `StopEnds` | 2 callers, 4 evaluations, 4 calls |
| `RpcInvokeLateAnswer` | finding 1: `NoResponseMeansNone` | 1 caller, 10 evaluations |
| `EnOcean` | `TypeOK`, `SetMeansSet`, `Recovers`, `DestructorEnds` | 2 addresses, 2 tries, 2 calls (sets, telegrams), 2 faults |
| `EnOceanTelegramAck` | finding 2: `SetMeansSet` if telegrams are answered | |
| `SerialInterface` | `TypeOK`, `EveryFrame`, `EarlyMeansEmptied`, `ImplementsFrameChannel`, `Resynchronises`, `CallsReturn`, `StopEnds`, `Recovers` | 3 families, 2 frames, 1 fault, `tryCount` 1 |
| `Cc1101` | `TypeOK`, `LockIsReleased`, `NeverDeaf`, `CallsReturn`, `StopEnds`, `Recovers` | 3 families; 2 failures, 1 for the test |
| `Maintenance` | `TypeOK`, `OneCall`, `OrderlyShutdown`, `CrashNeedsOverlap`, `AnnouncesStatus`, `ConfiguredForGood`, `BecomesConfigured`, `ShutdownEnds` | 2 configure calls, 2 faults |
| `MaintenancePort` | finding 6: `UnconfiguredPort` | |
| `Lifecycle` | `TypeOK`, `ShutdownOnce`, `OrderlyExit`, `QueuedShutdownRuns`, `TermEndsProcess` | 2 SIGTERM, 2 SIGHUP, 1 SIGABRT |
| `LifecycleRefusal` | finding 3: `RefusalIsHarmless` | 1 SIGTERM, 1 SIGHUP |
| `LifecycleQueue` | finding 4: `QueuedIsNotACrash` | 1 SIGTERM |
| `LifecycleAbort` | finding 5: `AbortEndsProcess` | 1 SIGABRT |

Why the bounds suffice.

* `RpcInvoke`: two callers contend for `_invokeMutex`, and a third would wait
  behind the second. Three calls let an answer be late by one call and by two;
  the fourth lets two failures follow each other. Four evaluations include every
  kind: before the wait, after a notification, after a timeout, and the last
  one.
* `EnOcean`: two tries have a first and a last one. A late answer needs one
  fault, the second one hits the attempt that follows, and the second call shows
  what both do to the next address.
* `SerialInterface`: the first frame can be damaged and the second follows it.
  The frames contain start bytes, Z-Wave's single bytes and a whole smaller
  header as payload, so that a parser that loses its place finds plausible
  packets in the middle.
* `Cc1101`: two failures allow one during the recovery from the other. The
  transmission test has two senders and the most states; one failure is enough
  for a reconnect between its two threads.
* `Maintenance`: the second call meets files of the first, a fault can interrupt
  each of them.

Deadlock is checked in every run: a system that has ended, or that waits for its
surroundings, stutters explicitly (`Ended`, `Idle`, `Over`, `Waits`, `Rests`).

Fairness. Threads that can run do run, and a wait with a timeout ends: weak
fairness on the steps of each thread. A thread that waits for `_txMutex` gets it
if it is free again and again: strong fairness on `Lock` and `EnableRX` in
`Cc1101`, since a timed lock that others take in between is disabled for a
moment. A packet on the air ends. A failing serial line heals (`LineHeals`),
that is, somebody plugs the device in. Nothing obliges the client to connect or
answer, the module to send, the transceiver to work, the clock to be set or
anybody to send a signal. Faults are bounded, so "the device comes back" says:
when faults cease.

## What the model showed

Behaviour no statement of the repository denies, so that it is no finding, but
which the properties had to name.

* `EnOcean`: with a thread that is preempted between its answer and its
  assignment, the `init` of the constructor can overwrite `_baseAddress` after
  `setBaseAddress` has set it. Packets are accepted while the device is lost. A
  listening thread that joins an `init` which waits for it is freed only by the
  ten timeouts of that `init`. The response is written without the request's
  mutex (line 307) while a waiter that has just timed out copies it.
* `SerialInterface`: `emptyReadBuffers` reports success also when it timed out,
  when the device could never be opened, and when the end of an older request
  wakes it (`overlapped`). It does not clear a partial packet, which is joined
  with later bytes until its checksum fails or a silence is noticed. The same
  happens over a reconnect of EnOcean. Calls of `emptyReadBuffers` without a
  pause starve the parser. The constructor starts the thread before `setInvoke`:
  a packet that comes earlier throws. Zigbee tolerates five read errors in a
  row.
* `Cc1101`: an edge that is handled after the next transmission has begun
  switches the receiver on or the transmitter off: the packet is cut off
  although `sendPacket` has reported success, `_sending` stays set until the
  next packet and `enableUpdateMode` spins meanwhile. After `sendPacket` has
  given up (-2) the receiver may stay off until the next transmission. A device
  that is in use when the gateway starts leaves `_fileDescriptor` null, which
  line 145 of `HomeMaticCc1101.cpp` dereferences. MAX! waits without a timeout
  for a chip that hangs; `startTx` called twice waits for the running test.
* `Maintenance`: a call of `configure` that succeeds with UPnP disabled
  dereferences `Gd::upnp` after it has written the files. A second `configure`
  before the restart has stopped the server makes the TCP thread join the
  maintenance thread, which waits for the TCP thread: a deadlock. A shutdown
  that meets a restart resets `Gd::rpcServer` before the destructor joins the
  maintenance thread, whose UPnP then uses the null pointer or is left running. If
  the restart starts the server between the shutdown's `Stop` and its wait, the
  wait is for the new server, which nobody stops. Two threads that pass the test
  in `UPnP::stop` join the same thread. `sendByebye` never sends: the listening
  thread has closed the socket.
* `Lifecycle`: a SIGHUP that is taken between the end of the startup and the
  execution of a shutdown queued during it makes the call of `main` queue the
  shutdown a second time; the check after the reload executes it in the
  handler's thread.

## Findings

1. `RpcServer.cpp:339`: a response that the tenth evaluation of the predicate
   finds is discarded as "No RPC response received."
2. `EnOcean.cpp:448`: "Base address set to 0x..." and success for an address
   that was not requested, if the module answers the telegrams `sendPacket`
   writes (`TelegramsAcked`; a module that stays silent about them is safe, as
   `EnOcean` shows and `EnOceanProofs` proves).
3. `main.cpp:152`: a SIGHUP during the startup ("Cannot reload") ends the signal
   handler; SIGTERM stops nothing from then on.
4. `main.cpp:547`: a shutdown queued while `startUp` waits for an address
   dereferences the null `Gd::rpcServer`.
5. `main.cpp:185`: a SIGABRT or SIGSEGV sent to the process, which is to be
   stopped with a core dump, is blocked in every thread; the handler takes the
   signal it sends itself for ever.
6. `RpcServer.cpp:98`: an unconfigured gateway listens on the port of a
   configured one, while UPnP announces `portUnconfigured`: `_unconfigured`
   is cleared at line 71, tested for the port at line 98 and set again from line
   106 on.

## Proofs

For every value of the constants: any set of callers or addresses, every limit,
any number of calls, failures and signals. Assumptions: `NoThread` is no caller,
`EvalLimit` is a natural number above 1, bounds are natural numbers, families
are among the three, and what a serial module sends are frames of its protocol
(`IsFrame`), for a checksum that is any function. Each `IInv`, and `Framing` of
`FrameChannelProofs`, was checked by TLC before it was proved.

* `RpcInvokeProofs`. The invariant `IInv` adds to the checked properties: the
  two mutexes are held exactly at the labels that hold them (`MutexesFollowPc`),
  the counter stays below its limit where another evaluation follows
  (`CounterBelowLimit`), every answer under way belongs to a request that was
  sent (`AnswersWereSent`) and is in one place only and not yet in the history
  (`AnswersAreUnique`). `NoLostWakeup` is not inductive alone: it needs that the
  response is reset before the waiter gets `_requestMutex`, hence the mutex
  discipline. `Refinement` proves that each step is a step of `RemoteCall` or a
  stutter; `RemoteCallProofs` proves `AnswerAttribution` of `RemoteCall`, and
  `AtMostOnce` and `OwnAnswerUntilFailure` of the code follow through the
  refinement.
* `EnOceanProofs`. `SuccessMeansSet`: `setBaseAddress` reports success only for
  the address asked for, if telegrams are not answered (`~TelegramsAcked`). The
  argument follows an acknowledgement: it is on the line, in the listening
  thread's hands, in a request or in a response (`AckOnTheLine`, `AckInHand`,
  `AckInRequest`, `AckInResponse`), and belongs to the running call unless the
  interface has been given up, and closing discards the line. The line is first
  in, first out, so what follows the acknowledgement was read after the address
  changed, and what is read back (`ReadsBack`) is the new address.
  `TurnFollowsPc` and `Roles` say who may hold the turn where.
* `Cc1101Proofs`. `MutexIsReleased` and `ReceiverIsOn` for the three families.
  `IInv` says in which states of the listening thread, the pin and the
  transceiver somebody may hold `_txMutex`: whoever holds it is about to act, or
  the chip is on the air, or an edge is still to be handled. Without the clause
  for edges that merge the invariant is not inductive.
* `MaintenanceProofs`. `CertificatesOfOneCall`: files are written in order by a
  call that began without them all (`WrittenInOrder`), because one that finds
  them is only accepted while the server is being replaced (`NotTwice`); this
  half holds after a crash, too, since the process may be killed.
  It also holds when the shutdown meets the restart. `ShutdownIsOrderly`: a
  shutdown waits for the restart it meets, whose server, if there is one, is
  configured and accepts no further call (`CallThenRestart`, `NothingFollows`).
  `AnnouncedStatusIsTrue`, while the shutdown meets nothing: one thread at a time
  changes server or UPnP (`OneAtATime`), and where it is says whether the responder
  runs (`ResponderFollowsPc`), so packets are never composed from a flag that
  changes while they are in use (`PacketsAreTrue`), and the port of a running server
  is the setting (`PortIsSetting`). `CertificatesAreFinal`: with all three files
  there no call is accepted any more, so none is overwritten.
  `NoCrashWithoutOverlap`: the three places where a thread could find null
  (`restart` and the end of `configure` without UPnP, UPnP's thread without a
  server) or join a thread that another one joins are only reached when changes
  overlap or, with all files written, UPnP is disabled; it needs `UpnpExists`, that
  the UPnP object is there from the end of `startUp` on.
* `LifecycleProofs`. `IInv` says who may shut down in which phase
  (`StartupIsExclusive`, `ShutdownProgress`), that `_startUpComplete` is only
  withdrawn by a reload that gives it back (`CompleteOrReloading`), that a
  server exists until the shutdown resets it (`ServerExists`), and, when
  `startUp` has returned, that the services are down or the handler is about to
  stop them (`LeftToHandler`). `ShutdownOnce` and `OrderlyExit` follow.

* `SerialInterfaceProofs`. `TypeOK` for any frames and any checksum: what is left
  of a frame is a sequence of bytes again, and the three length bytes of an
  EnOcean header bound the size of a packet. `EarlyMeansEmptied` becomes
  inductive with `ServedIsSeen`: while the listening thread is between the last
  byte it discards and the reset of `_emptyReadBuffers`, a waiting caller is the
  one it worked for or came too late.

* `FrameChannelProofs`. `EveryFrame` and the refinement of `FrameChannel`. The
  invariant `Framing` follows each byte back to the frame it is from: while
  nothing is lost, byte k on the line is byte `at[k]` of frame number `nr[k]`,
  each byte is followed by the next one of its frame or by the first one of the
  next frame (`Traced`), and `data` is the beginning of the frame whose turn it
  is (`DataIsOfFrame`). It says where every byte belongs instead of what the line
  is the concatenation of, so no induction over the line is needed: a byte that
  is read shifts the map by one, a frame that is sent extends it. Two lemmas then
  take the parser through one byte of a frame, whatever the frame contains: it
  goes on, knows the size exactly when the header is complete, and ends exactly at
  the last byte (`NextByteFollows`, `EnOceanNextByteFollows`). That is where the
  length rules and both checksums of EnOcean enter. The refinement needs
  `EveryFrame` for the step `Silence`.

Only model-checked: all liveness (fairness and ENABLED are outside the prover),
and what the checksums compute (`SerialFrame`): the proofs hold for any function,
as long as sender and receiver use the same one.

## Not modelled

* culfw sticks: a pass-through of lines from an external reader thread to
  `invoke`. The only flag, `_updateMode`, is written and read by methods on the
  TCP thread, which runs one at a time. The calls of `invoke` are those of
  `Callers` in `RpcInvoke`.
* Settings, globals, packaging, the base class of the families: read or set
  once, before any thread runs.
* The encodings of the RPC protocol and its frame decoder, TLS, decryption of
  the configuration, `C1Net::TcpServer` and the serial library: external.
* `certPath` and `caFile` settings that point elsewhere than the directory
  `configure` writes to; then the gateway stays unconfigured.
* A certificate file that is torn: `Io::writeFile` is one step, a kill comes before
  or after it.
* Command line, daemonising and the transmission test of `main.cpp`; the loop of
  `--txtest` is the thread `txThread` of `Cc1101`.

## Plan

Done: `RpcInvoke` with `RemoteCall`, `EnOcean`, `SerialInterface`, `Cc1101`,
`Maintenance`, `Lifecycle`, proofs of all of them and of every safety property
that a run checks.

Left, in this order:

1. `Gateway`: `RpcInvoke` and `EnOcean` composed, for the circular wait of
   listening thread and TCP thread; `Recovers` of `EnOcean` covers it with
   `invoke` as a call that returns.
2. An abstract specification of `Cc1101`, a half-duplex channel, and the
   refinement.

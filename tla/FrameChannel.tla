---------------------------- MODULE FrameChannel ----------------------------
(***************************************************************************)
(* What an interface to a serial module promises its client: without the   *)
(* bytes of the line, the parser and the listening thread.  The client     *)
(* gets the frames of the module in order, each of them once and none left *)
(* out, until something is lost; then it may get anything, until the       *)
(* module has been silent for a while.                                     *)
(***************************************************************************)
EXTENDS Integers, Sequences

CONSTANT AllFrames   \* what a module may send

VARIABLES
  sent,    \* the frames sent since the last silence
  got,     \* how many of them the client has got
  inSync,  \* nothing was lost since then
  client   \* the packet the client is busy with, <<>> if it is not

vars == <<sent, got, inSync, client>>

Init == sent = <<>> /\ got = 0 /\ inSync = TRUE /\ client = <<>>

NoneSent == sent' = <<>> /\ got' = 0

Send ==
  /\ \/ inSync /\ \E frame \in AllFrames : sent' = Append(sent, frame)
     \/ ~inSync /\ UNCHANGED sent
  /\ UNCHANGED <<got, inSync, client>>

\* Bytes are lost: on the line, with the device, or because the client asked for
\* it.  A call that failed is lost, too.
Lose ==
  /\ inSync' = FALSE /\ NoneSent
  /\ client' \in {client, <<>>}

\* The next frame, if all is well.
HandOver ==
  /\ client = <<>> /\ client' # <<>>
  /\ inSync => got < Len(sent) /\ client' = sent[got + 1]
  /\ UNCHANGED <<sent, got, inSync>>

Return ==
  /\ client # <<>> /\ client' = <<>>
  /\ got' = IF inSync THEN got + 1 ELSE got
  /\ UNCHANGED <<sent, inSync>>

\* The module is silent.  Nothing that was sent is then forgotten.
Silence ==
  /\ client = <<>>
  /\ inSync => got = Len(sent)
  /\ inSync' = TRUE /\ NoneSent
  /\ UNCHANGED client

Next == Send \/ Lose \/ HandOver \/ Return \/ Silence

Spec == Init /\ [][Next]_vars
=============================================================================

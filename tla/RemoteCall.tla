----------------------------- MODULE RemoteCall -----------------------------
(***************************************************************************)
(* What RpcServer::invoke() promises, without threads, mutexes or time.    *)
(*                                                                         *)
(* Invocations run one at a time and are numbered.  The answer to a        *)
(* request exists at most once, may be lost at any moment, and is used up  *)
(* when it is returned.  Because answers name no request, an invocation    *)
(* may be given any answer that is still on its way.                       *)
(***************************************************************************)
EXTENDS Integers, Sequences

VARIABLES phase,    \* of the current invocation: "idle", "asked" or "sent"
          usable,   \* numbers of the requests whose answer can still be returned
          history   \* what each finished invocation returned: a number, 0 on failure

vars == <<phase, usable, history>>

Current == Len(history) + 1

Init == phase = "idle" /\ usable = {} /\ history = <<>>

Ask ==
  /\ phase = "idle"
  /\ phase' = "asked"
  /\ UNCHANGED history
  /\ usable' \subseteq usable

\* The request leaves; only now can an answer to it come into being.
Send ==
  /\ phase = "asked"
  /\ phase' = "sent"
  /\ usable' \in {usable, usable \union {Current}}
  /\ UNCHANGED history

Lose ==
  /\ usable' \subseteq usable
  /\ UNCHANGED <<phase, history>>

Answered ==
  /\ phase = "sent"
  /\ phase' = "idle"
  /\ \E n \in usable : /\ history' = Append(history, n)
                       /\ usable' \subseteq usable \ {n}

Fail ==
  /\ phase \in {"asked", "sent"}
  /\ phase' = "idle"
  /\ history' = Append(history, 0)
  /\ usable' \subseteq usable

Next == Ask \/ Send \/ Lose \/ Answered \/ Fail

Spec == Init /\ [][Next]_vars
=============================================================================

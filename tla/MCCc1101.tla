------------------------------ MODULE MCCc1101 ------------------------------
(* Cc1101 for TLC: all three families.  The transmission test has two senders *)
(* and therefore the most states.                                             *)
EXTENDS Cc1101

Faults == [homematic |-> 2, max |-> 2, test |-> 1]
=============================================================================

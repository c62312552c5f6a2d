----------------------------- MODULE MCDtpUser ------------------------------
(* Small instances of DtpUser.                                              *)
EXTENDS DtpUser

CONSTANTS MaxRound, MaxArrived

CounterOne == {[op |-> "counter", arg |-> 1]}

Bounded == round <= MaxRound /\ arrived <= MaxArrived
=============================================================================

---------------------------- MODULE MCDtpDaemon -----------------------------
(* Small instances of DtpDaemon.                                            *)
EXTENDS DtpDaemon

CONSTANTS MaxRound, MaxArrived

ResetLogCount ==
    {[op |-> "reset", arg |-> 0], [op |-> "logging", arg |-> 0], [op |-> "counter", arg |-> 0]}
StopAndStart  == {[op |-> "stop", arg |-> 0], [op |-> "start", arg |-> 0]}

Bounded == round <= MaxRound /\ arrived <= MaxArrived
=============================================================================

--------------------------- MODULE MCDtpCounter ---------------------------
(* Small instances of DtpCounter: the counters are followed up to MaxCount. *)
EXTENDS DtpCounter

CONSTANT MaxCount

Bounded == c_local <= MaxCount /\ peer <= MaxCount
=============================================================================

--------------------------- MODULE MCDtpHandshake ---------------------------
(* Small instances of DtpHandshake.                                         *)
EXTENDS DtpHandshake

CONSTANTS Interval1, Interval2, Busy1, Busy2, MaxCycle

Intervals == [p \in {1, 2} |-> IF p = 1 THEN Interval1 ELSE Interval2]
BusyRuns == [p \in {1, 2} |-> IF p = 1 THEN Busy1 ELSE Busy2]

Bounded == cycle <= MaxCycle
=============================================================================

------------------------------ MODULE MCDmaTest ------------------------------
(* Small instances of DmaTest.                                              *)
EXTENDS DmaTest

ThreadsOf == [c \in Channels |-> IF c \in Shared THEN {"worker", "sender"} ELSE {"worker"}]

\* -r, -w and neither, or no iterations.  The size of reads fits the register,
\* that of writes is cut to 1024, of which ten bits hold nothing.
CommandLines ==
    {[doRead |-> rd, doWrite |-> wr, numIters |-> n, w |-> 2048, r |-> 512] :
        rd \in BOOLEAN, wr \in BOOLEAN, n \in {0, 2}}
=============================================================================

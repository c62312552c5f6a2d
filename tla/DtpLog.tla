------------------------------- MODULE DtpLog -------------------------------
(***************************************************************************)
(* What the logs of the DTP ports promise (doc/DTP.md,                     *)
(* dtp_logger_write_cnt and dtp_logger_read_cnt): the messages that one    *)
(* host writes to a port are read by the other host whole and in the order *)
(* in which they were written, for as long as nothing on the way has lost  *)
(* a half of one.                                                          *)
(***************************************************************************)
EXTENDS Naturals, Sequences

CONSTANT Ports

VARIABLES
    queue,     \* queue[p]: the messages written and not yet read
    answer,    \* answer[p]: the last answer to a read, <<message1, message2>>
    torn       \* torn[p]: a half of a message has been lost

vars == <<queue, answer, torn>>

Init ==
    /\ queue = [p \in Ports |-> <<>>]
    /\ answer = [p \in Ports |-> <<0, 0>>]
    /\ torn = [p \in Ports |-> FALSE]

Write(p) ==
    /\ Len(queue'[p]) = Len(queue[p]) + 1
    /\ SubSeq(queue'[p], 1, Len(queue[p])) = queue[p]
    /\ answer'[p] = answer[p]

Read(p) ==
    /\ queue[p] # <<>>
    /\ answer'[p] = <<Head(queue[p]), Head(queue[p])>>
    /\ queue'[p] = Tail(queue[p])

Idle(p) ==
    /\ queue'[p] = queue[p]
    /\ answer'[p] = answer[p]

\* After a loss nothing more is promised of the port.
Next ==
    \A p \in Ports :
        \/ torn'[p]
        \/ ~torn[p] /\ ~torn'[p] /\ (Write(p) \/ Read(p) \/ Idle(p))

Spec == Init /\ [][Next]_vars
=============================================================================

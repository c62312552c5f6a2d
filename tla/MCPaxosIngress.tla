---------------------------- MODULE MCPaxosIngress ---------------------------
(* Small instances of PaxosIngress.                                         *)
EXTENDS PaxosIngress

\* Two rounds of one slot, which the instances 1 and 3 share, another slot,
\* and a message that no entry of the table matches.
SomeMessages ==
    {[type |-> "1A", inst |-> 1, rnd |-> 2], [type |-> "2A", inst |-> 1, rnd |-> 1],
     [type |-> "2A", inst |-> 3, rnd |-> 2], [type |-> "2A", inst |-> 2, rnd |-> 1],
     [type |-> "1B", inst |-> 1, rnd |-> 2]}
=============================================================================

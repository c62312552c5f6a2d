---------------------------- MODULE PaxosAcceptor ----------------------------
(***************************************************************************)
(* What a Paxos acceptor promises (src/p4/examples/paxos): a message of a  *)
(* round that is not below the one promised is handled in one step, and    *)
(* answered in the order of handling; one below it is ignored.             *)
(***************************************************************************)
EXTENDS Naturals, Sequences

CONSTANTS
    InstanceCount,  \* entries of each register
    Insts,          \* instances
    Rounds,
    Values

VARIABLES
    round,      \* round[s]: the highest round heard of
    vround,     \* vround[s]: the round of the last vote
    value,      \* value[s]: the value voted for
    answers,    \* answers that are due
    torn        \* nothing is promised any more

vars == <<round, vround, value, answers, torn>>

Slot(i) == i % InstanceCount

Init ==
    /\ round = [s \in 0 .. InstanceCount - 1 |-> 0]
    /\ vround = [s \in 0 .. InstanceCount - 1 |-> 0]
    /\ value = [s \in 0 .. InstanceCount - 1 |-> 0]
    /\ answers = <<>>
    /\ torn = FALSE

Handle1A(i, r) ==
    LET s == Slot(i) IN
    /\ r >= round[s]
    /\ round' = [round EXCEPT ![s] = r]
    /\ answers' = Append(answers, [type |-> "1B", inst |-> i, rnd |-> r,
                                   vrnd |-> vround[s], val |-> value[s]])
    /\ UNCHANGED <<vround, value>>

Handle2A(i, r, v) ==
    LET s == Slot(i) IN
    /\ r >= round[s]
    /\ round' = [round EXCEPT ![s] = r]
    /\ vround' = [vround EXCEPT ![s] = r]
    /\ value' = [value EXCEPT ![s] = v]
    /\ answers' = Append(answers, [type |-> "2B", inst |-> i, rnd |-> r, vrnd |-> 0, val |-> v])

Send ==
    /\ answers # <<>>
    /\ answers' = Tail(answers)
    /\ UNCHANGED <<round, vround, value>>

Next ==
    \/ torn'
    \/ /\ ~torn /\ ~torn'
       /\ \/ \E i \in Insts, r \in Rounds : Handle1A(i, r) \/ \E v \in Values : Handle2A(i, r, v)
          \/ Send

Spec == Init /\ [][Next]_vars
=============================================================================

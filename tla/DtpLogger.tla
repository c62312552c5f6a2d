----------------------------- MODULE DtpLogger ------------------------------
(***************************************************************************)
(* The log messages that a host sends to the host at the other end of a    *)
(* DTP link (src/hw/bsv/DtpController.bsv, the log branches of tx_stage2   *)
(* and rx_stage1 in src/hw/bsv/DtpTx.bsv, src/hw/bsv/DtpRx.bsv).           *)
(*                                                                         *)
(* A message crosses the link as two halves, each in an idle block of its  *)
(* own: message1 (bit 52 = 0; tx_stage2 overwrites its data with the DTP   *)
(* counter) and message2 (bit 52 = 1; what the host wrote).  Nothing but   *)
(* their order says which halves belong together.  The model gives each    *)
(* message a number and follows both halves from the controller of the     *)
(* sending board to the read queues of the receiving one.                  *)
(*                                                                         *)
(* Queues connected back to back that only pass entries on are one queue   *)
(* of their joint length here: fromHost is the synchronising FIFO of the   *)
(* controller (8) and fromHostFifo of DtpTx (2), toHost is toHostFifo of   *)
(* DtpTx (2) and the synchronising FIFO behind it (8).  The wire and the   *)
(* event queues of DtpRx and Dtpm delay a half and keep the order, so a    *)
(* half that is sent is received or lost in the same step.                 *)
(* lread_data_timestamp is filled, read and cleared together with          *)
(* lread_data_cycle1, and is not modelled apart from it; the statistics    *)
(* counters (lwrite_cnt_enq and its like) are left out.                    *)
(***************************************************************************)
EXTENDS Integers, Sequences, FiniteSets

CONSTANTS
    Ports,           \* the ports of the board (4)
    WriteDepth,      \* entries of lwrite_data_cycle1 and lwrite_data_cycle2 (3)
    FromHostDepth,   \* entries of fromHost (8 + 2)
    ToHostDepth,     \* entries of toHost (2 + 8)
    PhyDepth,        \* how many of those are in DtpTx (2)
    ReadDepth        \* entries of lread_data_cycle1 and lread_data_cycle2 (4)

ASSUME LoggerAssumption ==
    /\ IsFiniteSet(Ports)
    /\ {WriteDepth, FromHostDepth, ToHostDepth, PhyDepth, ReadDepth} \subseteq Nat \ {0}
    /\ PhyDepth <= ToHostDepth

VARIABLES
    lwrite_data_cycle1,   \* first halves the host wrote, of all ports
    lwrite_data_cycle2,   \* second halves
    lwstate,              \* "chunk_a" or "chunk_b": which half is sent next
    fromHost,             \* fromHost[p]: halves to be sent
    toHost,               \* toHost[p]: halves received
    lread_data_cycle1,    \* lread_data_cycle1[p]: first halves the host can read
    lread_data_cycle2,    \* lread_data_cycle2[p]: second halves
    answer,               \* answer[p]: the last response to dtp_logger_read_cnt
    written,              \* how many messages have been written
    lost                  \* history: lost[p]: halves of p that were lost

sender   == <<lwrite_data_cycle1, lwrite_data_cycle2, lwstate>>
receiver == <<lread_data_cycle1, lread_data_cycle2, answer>>
vars == <<sender, fromHost, toHost, receiver, written, lost>>

BufData == [port_no: Ports, data: Nat]
Half == [flag: {0, 1}, data: Nat]

TypeOK ==
    /\ lwrite_data_cycle1 \in Seq(BufData) /\ Len(lwrite_data_cycle1) <= WriteDepth
    /\ lwrite_data_cycle2 \in Seq(BufData) /\ Len(lwrite_data_cycle2) <= WriteDepth
    /\ lwstate \in {"chunk_a", "chunk_b"}
    /\ fromHost \in [Ports -> Seq(Half)]
    /\ toHost \in [Ports -> Seq(Half)]
    /\ lread_data_cycle1 \in [Ports -> Seq(Nat)]
    /\ lread_data_cycle2 \in [Ports -> Seq(Nat)]
    /\ \A p \in Ports : /\ Len(fromHost[p]) <= FromHostDepth
                        /\ Len(toHost[p]) <= ToHostDepth
                        /\ Len(lread_data_cycle1[p]) <= ReadDepth
                        /\ Len(lread_data_cycle2[p]) <= ReadDepth
    /\ answer \in [Ports -> Nat \X Nat]
    /\ written \in Nat
    /\ lost \in [Ports -> Nat]

Init ==
    /\ lwrite_data_cycle1 = <<>>
    /\ lwrite_data_cycle2 = <<>>
    /\ lwstate = "chunk_a"
    /\ fromHost = [p \in Ports |-> <<>>]
    /\ toHost = [p \in Ports |-> <<>>]
    /\ lread_data_cycle1 = [p \in Ports |-> <<>>]
    /\ lread_data_cycle2 = [p \in Ports |-> <<>>]
    /\ answer = [p \in Ports |-> <<0, 0>>]
    /\ written = 0
    /\ lost = [p \in Ports |-> 0]

-----------------------------------------------------------------------------
(* The sending board.                                                      *)

\* Both halves are enqueued at once; the method waits for room in both queues.
dtp_logger_write_cnt(p) ==
    /\ Len(lwrite_data_cycle1) < WriteDepth
    /\ Len(lwrite_data_cycle2) < WriteDepth
    /\ written' = written + 1
    /\ lwrite_data_cycle1' = Append(lwrite_data_cycle1, [port_no |-> p, data |-> written'])
    /\ lwrite_data_cycle2' = Append(lwrite_data_cycle2, [port_no |-> p, data |-> written'])
    /\ UNCHANGED <<lwstate, fromHost, toHost, receiver, lost>>

\* Mutant: chunk_a sends every first half there is before the second halves.
log_from_host_chunk_a_Drains ==
    /\ lwstate = "chunk_a"
    /\ lwrite_data_cycle1 # <<>>
    /\ LET v1 == Head(lwrite_data_cycle1) IN
        /\ Len(fromHost[v1.port_no]) < FromHostDepth
        /\ fromHost' = [fromHost EXCEPT ![v1.port_no] =
                            Append(@, [flag |-> 0, data |-> v1.data])]
    /\ lwrite_data_cycle1' = Tail(lwrite_data_cycle1)
    /\ lwstate' = IF Len(lwrite_data_cycle1) > 1 THEN "chunk_a" ELSE "chunk_b"
    /\ UNCHANGED <<lwrite_data_cycle2, toHost, receiver, written, lost>>

\* log_from_host_cycle, state chunk_a: a full queue of the port at the head
\* holds up the messages of all the others.
log_from_host_chunk_a ==
    /\ lwstate = "chunk_a"
    /\ lwrite_data_cycle1 # <<>>
    /\ LET v1 == Head(lwrite_data_cycle1) IN
        /\ Len(fromHost[v1.port_no]) < FromHostDepth
        /\ fromHost' = [fromHost EXCEPT ![v1.port_no] =
                            Append(@, [flag |-> 0, data |-> v1.data])]
    /\ lwrite_data_cycle1' = Tail(lwrite_data_cycle1)
    /\ lwstate' = "chunk_b"
    /\ UNCHANGED <<lwrite_data_cycle2, toHost, receiver, written, lost>>

\* Mutant: chunk_b looks at the queue of the first halves.
log_from_host_chunk_b_WrongQueue ==
    /\ lwstate = "chunk_b"
    /\ lwrite_data_cycle1 # <<>>
    /\ LET v2 == Head(lwrite_data_cycle2) IN
        /\ Len(fromHost[v2.port_no]) < FromHostDepth
        /\ fromHost' = [fromHost EXCEPT ![v2.port_no] =
                            Append(@, [flag |-> 1, data |-> v2.data])]
    /\ lwrite_data_cycle2' = Tail(lwrite_data_cycle2)
    /\ lwstate' = "chunk_a"
    /\ UNCHANGED <<lwrite_data_cycle1, toHost, receiver, written, lost>>

\* The same in state chunk_b.
log_from_host_chunk_b ==
    /\ lwstate = "chunk_b"
    /\ lwrite_data_cycle2 # <<>>
    /\ LET v2 == Head(lwrite_data_cycle2) IN
        /\ Len(fromHost[v2.port_no]) < FromHostDepth
        /\ fromHost' = [fromHost EXCEPT ![v2.port_no] =
                            Append(@, [flag |-> 1, data |-> v2.data])]
    /\ lwrite_data_cycle2' = Tail(lwrite_data_cycle2)
    /\ lwstate' = "chunk_a"
    /\ UNCHANGED <<lwrite_data_cycle1, toHost, receiver, written, lost>>

-----------------------------------------------------------------------------
(* The link.                                                               *)

\* tx_stage2 finds an idle block and the half reaches rx_stage1 of the peer,
\* which keeps it if toHostFifo has room and drops it if not.
Transmit(p) ==
    /\ fromHost[p] # <<>>
    /\ fromHost' = [fromHost EXCEPT ![p] = Tail(@)]
    /\ IF Len(toHost[p]) < ToHostDepth
       THEN /\ toHost' = [toHost EXCEPT ![p] = Append(@, Head(fromHost[p]))]
            /\ lost' = lost
       ELSE /\ lost' = [lost EXCEPT ![p] = @ + 1]
            /\ toHost' = toHost
    /\ UNCHANGED <<sender, receiver, written>>

\* The peer is not ready: DtpRx passes the block on unparsed (rx_bypass), or
\* has no room in dtpEventOutFifo.
TransmitLost(p) ==
    /\ fromHost[p] # <<>>
    /\ fromHost' = [fromHost EXCEPT ![p] = Tail(@)]
    /\ lost' = [lost EXCEPT ![p] = @ + 1]
    /\ UNCHANGED <<sender, toHost, receiver, written>>

-----------------------------------------------------------------------------
(* The receiving board.                                                    *)

\* Mutant: only the queue of the first halves is looked at for room.
save_host_data_Unchecked(p) ==
    /\ toHost[p] # <<>>
    /\ Len(lread_data_cycle1[p]) < ReadDepth
    /\ toHost' = [toHost EXCEPT ![p] = Tail(@)]
    /\ LET v == Head(toHost[p]) IN
        /\ lread_data_cycle1' = IF v.flag = 0
              THEN [lread_data_cycle1 EXCEPT ![p] = Append(@, v.data)] ELSE lread_data_cycle1
        /\ lread_data_cycle2' = IF v.flag = 1
              THEN [lread_data_cycle2 EXCEPT ![p] = Append(@, v.data)] ELSE lread_data_cycle2
    /\ UNCHANGED <<sender, fromHost, answer, written, lost>>

\* save_host_data waits while the queue for this kind of half is full.
save_host_data(p) ==
    /\ toHost[p] # <<>>
    /\ toHost' = [toHost EXCEPT ![p] = Tail(@)]
    /\ LET v == Head(toHost[p]) IN
        \/ /\ v.flag = 0
           /\ Len(lread_data_cycle1[p]) < ReadDepth
           /\ lread_data_cycle1' = [lread_data_cycle1 EXCEPT ![p] = Append(@, v.data)]
           /\ UNCHANGED lread_data_cycle2
        \/ /\ v.flag = 1
           /\ Len(lread_data_cycle2[p]) < ReadDepth
           /\ lread_data_cycle2' = [lread_data_cycle2 EXCEPT ![p] = Append(@, v.data)]
           /\ UNCHANGED lread_data_cycle1
    /\ UNCHANGED <<sender, fromHost, answer, written, lost>>

\* Mutant: an answer as soon as there is a first half.
dtp_logger_read_cnt_Eager(p) ==
    /\ lread_data_cycle1[p] # <<>>
    /\ answer' = [answer EXCEPT ![p] =
            <<Head(lread_data_cycle1[p]),
              IF lread_data_cycle2[p] = <<>> THEN 0 ELSE Head(lread_data_cycle2[p])>>]
    /\ lread_data_cycle1' = [lread_data_cycle1 EXCEPT ![p] = Tail(@)]
    /\ lread_data_cycle2' = [lread_data_cycle2 EXCEPT ![p] =
            IF @ = <<>> THEN @ ELSE Tail(@)]
    /\ UNCHANGED <<sender, fromHost, toHost, written, lost>>

\* With one of the queues empty the method does nothing and sends no answer.
dtp_logger_read_cnt(p) ==
    /\ lread_data_cycle1[p] # <<>>
    /\ lread_data_cycle2[p] # <<>>
    /\ answer' = [answer EXCEPT ![p] =
            <<Head(lread_data_cycle1[p]), Head(lread_data_cycle2[p])>>]
    /\ lread_data_cycle1' = [lread_data_cycle1 EXCEPT ![p] = Tail(@)]
    /\ lread_data_cycle2' = [lread_data_cycle2 EXCEPT ![p] = Tail(@)]
    /\ UNCHANGED <<sender, fromHost, toHost, written, lost>>

-----------------------------------------------------------------------------
(* dtp_reset, which holds dtpResetOut for at least 32 cycles.              *)

\* The halves of port p in a write queue.
HalvesOf(q, p) == Cardinality({k \in DOMAIN q : q[k].port_no = p})

\* On the sending board clearOnReset empties the write queues and the reset
\* of the PHY the queues to the link; lwstate keeps its value.
dtp_reset_sender ==
    /\ lwrite_data_cycle1' = <<>>
    /\ lwrite_data_cycle2' = <<>>
    /\ fromHost' = [p \in Ports |-> <<>>]
    /\ lost' = [p \in Ports |-> lost[p] + HalvesOf(lwrite_data_cycle1, p)
                                + HalvesOf(lwrite_data_cycle2, p) + Len(fromHost[p])]
    /\ UNCHANGED <<lwstate, toHost, receiver, written>>

\* On the receiving board clearOnReset empties the read queues, and the reset
\* of the PHY what toHostFifo of DtpTx still held of toHost (here the last
\* k[p] entries); the synchronising FIFO keeps its entries.
dtp_reset_receiver ==
    \E k \in [Ports -> 0 .. PhyDepth] :
        /\ \A p \in Ports : /\ k[p] <= Len(toHost[p])
                            /\ Len(toHost[p]) - k[p] <= ToHostDepth - PhyDepth
        /\ toHost' = [p \in Ports |-> SubSeq(toHost[p], 1, Len(toHost[p]) - k[p])]
        /\ lread_data_cycle1' = [p \in Ports |-> <<>>]
        /\ lread_data_cycle2' = [p \in Ports |-> <<>>]
        /\ lost' = [p \in Ports |-> lost[p] + Len(lread_data_cycle1[p])
                                    + Len(lread_data_cycle2[p]) + k[p]]
        /\ UNCHANGED <<sender, fromHost, answer, written>>

Next ==
    \/ \E p \in Ports : dtp_logger_write_cnt(p)
    \/ log_from_host_chunk_a
    \/ log_from_host_chunk_b
    \/ \E p \in Ports : Transmit(p)
    \/ \E p \in Ports : TransmitLost(p)
    \/ \E p \in Ports : save_host_data(p)
    \/ \E p \in Ports : dtp_logger_read_cnt(p)
    \/ dtp_reset_sender
    \/ dtp_reset_receiver

Spec == Init /\ [][Next]_vars

\* The rules fire when they can, the links carry idle blocks (a half sent is
\* received or lost), and the host polls (dtp_recv_log in sw/daemon/kernel.c).
Fairness ==
    /\ WF_vars(log_from_host_chunk_a)
    /\ WF_vars(log_from_host_chunk_b)
    /\ \A p \in Ports : /\ WF_vars(Transmit(p) \/ TransmitLost(p))
                        /\ WF_vars(save_host_data(p))
                        /\ WF_vars(dtp_logger_read_cnt(p))
FairSpec == Spec /\ Fairness

-----------------------------------------------------------------------------
(* Properties.                                                             *)

\* The positions I in ascending order, and the data that a queue has at them.
InOrder(I) == CHOOSE e \in [1 .. Cardinality(I) -> I] :
                  \A j, k \in DOMAIN e : j < k => e[j] < e[k]
DataAt(q, I) == LET e == InOrder(I) IN [k \in DOMAIN e |-> q[e[k]].data]

\* The halves of one kind in a queue of the link; those of port p in a write
\* queue.
Halves(q, flag) == DataAt(q, {k \in DOMAIN q : q[k].flag = flag})
OfPort(q, p) == DataAt(q, {k \in DOMAIN q : q[k].port_no = p})

\* The messages of port p that are under way, by their second halves.
Underway(p) ==
    lread_data_cycle2[p] \o Halves(toHost[p], 1) \o Halves(fromHost[p], 1)
        \o OfPort(lwrite_data_cycle2, p)

Log == INSTANCE DtpLog WITH queue <- [p \in Ports |-> Underway(p)],
                            torn <- [p \in Ports |-> lost[p] > 0]

\* Each port implements the log that doc/DTP.md promises, until a half is
\* lost: whole messages in the order in which dtp_logger_write_cnt got them,
\* whatever the interleaving of the ports, of the two write queues and of the
\* two read queues, also when a reset has left lwstate at chunk_b.
ImplementsLog == Log!Spec

\* The head of toHost waits for room in its queue and the host, to make room,
\* for an entry in the other: only dtp_reset helps.
Jammed(p) ==
    /\ toHost[p] # <<>>
    /\ LET v == Head(toHost[p]) IN
        \/ v.flag = 0 /\ Len(lread_data_cycle1[p]) = ReadDepth /\ lread_data_cycle2[p] = <<>>
        \/ v.flag = 1 /\ Len(lread_data_cycle2[p]) = ReadDepth /\ lread_data_cycle1[p] = <<>>

\* It takes the loss of as many halves as the read queues are long to jam the
\* log of a port: save_host_data takes the halves from one queue in order and
\* sorts them into two, which a shorter backlog cannot block.
JamNeedsLosses == \A p \in Ports : Jammed(p) => lost[p] >= ReadDepth

\* What is written is read, or a half of the port has been lost: no port is
\* held up for ever by the shared write queues or by the alternation of
\* lwstate.
EventuallyRead ==
    \A p \in Ports : Underway(p) # <<>> ~> (Underway(p) = <<>> \/ lost[p] > 0)
=============================================================================

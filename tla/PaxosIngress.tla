----------------------------- MODULE PaxosIngress ----------------------------
(***************************************************************************)
(* Paxos in the data plane: mkIngress with its tables and registers        *)
(* (src/p4/examples/paxos, on src/hw/bsv/Register.bsv), as an acceptor, a  *)
(* coordinator or a forwarder.                                             *)
(*                                                                         *)
(* Every table is a pipeline stage of its own, and a packet that reads a   *)
(* register is stages away from the write that follows from it.  A request *)
(* takes effect when it enters the queue of mkP4Register, which is worked  *)
(* off in order.  Rules interleave, one at a time.  The queues between two *)
(* of the modelled rules are one queue; a bound is kept where it is the    *)
(* smallest on the way.  A value is the number of the packet it came with. *)
(***************************************************************************)
EXTENDS Integers, Sequences, FiniteSets, SequencesExt

CONSTANTS
    InstanceCount,  \* entries of each register (1024)
    Messages,       \* what packets hold: a type, an instance and a round
    FifoDepth,      \* entries of a mkFIFO (2)
    MaxPackets      \* bound: packets that arrive

ASSUME PaxosAssumption ==
    /\ {InstanceCount, FifoDepth} \subseteq Nat \ {0}
    /\ Messages \subseteq [type: {"1A", "2A", "1B"}, inst: Nat, rnd: Nat]
    /\ MaxPackets \in Nat

VARIABLES
    role,       \* roleReg
    arrived,    \* packets so far
    roundQ,     \* packets on their way to roundReg
    read,       \* <<packet, round read>> on their way to the comparison
    lookQ,      \* packets on their way to the lookup of acceptorTable
    metas,      \* bbMetadataFifo
    bbReq,      \* bbReq[b]: requests to the block b, 1A or 2A
    job,        \* job[b]: the packet that block b took last
    todo,       \* todo[b]: its register requests that are still waiting
    waiting,    \* waiting[b]: it is in curr_packet_fifo
    got,        \* got[b]: what it has read
    bbResp,     \* bbResp[b]: the answers of block b
    out,        \* next_req_ff
    round, vround, value,
    torn,       \* history: packets have come too close (see Hurried, Mixed)
    seqQ,       \* packets on their way to bb_increase_instance
    instCur,    \* its curr_packet_fifo
    instReq,    \* its requests to instanceReg: 0 for a read, else the value
    instResp,   \* what was read
    seqOut,     \* packets on their way from it
    currPacketFifo,
    instance,   \* instanceReg
    given,      \* history: the instances given to packets
    rushed      \* history: instanceReg was read again before it was written

acceptor    == <<roundQ, read, lookQ, metas, bbReq, job, todo, waiting, got, bbResp, out,
                 round, vround, value, torn>>
coordinator == <<seqQ, instCur, instReq, instResp, seqOut, currPacketFifo, instance, given, rushed>>
vars        == <<role, arrived, acceptor, coordinator>>

Blocks  == {"1A", "2A"}
Insts   == {m.inst : m \in Messages}
Rounds  == {m.rnd : m \in Messages}
Slots   == 0 .. InstanceCount - 1
Slot(i) == i % InstanceCount
Values  == 0 .. MaxPackets
Packets == [type: Blocks \cup {"1B"}, inst: Insts, rnd: Rounds, val: Values]
NoPacket == [type |-> "none", inst |-> 0, rnd |-> 0, val |-> 0]

TypeOK ==
    /\ role \in {"ACCEPTOR", "COORDINATOR", "FORWARDER"}
    /\ arrived \in 0 .. MaxPackets
    /\ {roundQ, lookQ, metas} \subseteq Seq(Packets) /\ Len(metas) <= FifoDepth
    /\ read \in Seq(Packets \X (Rounds \cup {0}))
    /\ bbReq \in [Blocks -> Seq(Packets)]
    /\ job \in [Blocks -> Packets \cup {NoPacket}]
    /\ todo \in [Blocks -> SUBSET {"round", "vround", "value", "datapath"}]
    /\ waiting \in [Blocks -> BOOLEAN]
    /\ {round, vround} \subseteq [Slots -> Rounds \cup {0}] /\ value \in [Slots -> Values]
    /\ {seqQ, instCur, seqOut, currPacketFifo} \subseteq 0 .. MaxPackets
    /\ instCur <= FifoDepth /\ currPacketFifo <= FifoDepth /\ Len(instReq) <= FifoDepth
    /\ {torn, rushed} \subseteq BOOLEAN

NothingRead == [vround |-> 0, value |-> 0]

Init ==
    /\ role = "ACCEPTOR" /\ arrived = 0
    /\ roundQ = <<>> /\ read = <<>> /\ lookQ = <<>> /\ metas = <<>> /\ out = <<>>
    /\ bbReq = [b \in Blocks |-> <<>>] /\ bbResp = [b \in Blocks |-> <<>>]
    /\ job = [b \in Blocks |-> NoPacket] /\ todo = [b \in Blocks |-> {}]
    /\ waiting = [b \in Blocks |-> FALSE] /\ got = [b \in Blocks |-> NothingRead]
    /\ round = [s \in Slots |-> 0] /\ vround = [s \in Slots |-> 0] /\ value = [s \in Slots |-> 0]
    /\ torn = FALSE
    /\ seqQ = 0 /\ instCur = 0 /\ instReq = <<>> /\ instResp = <<>> /\ seqOut = 0
    /\ currPacketFifo = 0 /\ instance = 0 /\ given = <<>> /\ rushed = FALSE

\* The program writes the role before packets come.
role_reg_write ==
    /\ arrived = 0
    /\ role' \in {"ACCEPTOR", "COORDINATOR", "FORWARDER"} \ {role}
    /\ UNCHANGED <<arrived, acceptor, coordinator>>

\* A packet with its role read from the register.  Only an acceptor looks at
\* its content.
role_tbl_next_control_state ==
    /\ arrived < MaxPackets
    /\ arrived' = arrived + 1
    /\ \/ /\ role = "ACCEPTOR"
          /\ \E m \in Messages : roundQ' = Append(roundQ,
                [type |-> m.type, inst |-> m.inst, rnd |-> m.rnd, val |-> arrived'])
          /\ UNCHANGED <<read, lookQ, metas, bbReq, job, todo, waiting, got, bbResp, out,
                         round, vround, value, torn, coordinator>>
       \/ /\ role = "COORDINATOR"
          /\ seqQ' = seqQ + 1
          /\ UNCHANGED <<acceptor, instCur, instReq, instResp, seqOut, currPacketFifo,
                         instance, given, rushed>>
       \/ /\ role = "FORWARDER" /\ currPacketFifo < FifoDepth
          /\ currPacketFifo' = currPacketFifo + 1
          /\ UNCHANGED <<acceptor, seqQ, instCur, instReq, instResp, seqOut, instance, given, rushed>>
    /\ UNCHANGED role

-----------------------------------------------------------------------------
(* The acceptor.                                                           *)

Writes(t) ==
    CASE t = "1A" -> {"round"} [] t = "2A" -> {"round", "vround", "value"} [] OTHER -> {}

\* Packets of a slot between their reading of the round and the last of their
\* register requests.
Underway(s) ==
    LET queued == {x[1] : x \in ToSet(read)} \cup ToSet(lookQ)
                    \cup UNION {ToSet(bbReq[b]) : b \in Blocks}
        taken  == {job[b] : b \in {b \in Blocks : todo[b] # {}}}
    IN {p \in queued \cup taken : Slot(p.inst) = s}

Hurried(p) == Underway(Slot(p.inst)) # {}

\* The read of roundReg for mkBasicBlockRound.
bb_round ==
    /\ roundQ # <<>>
    /\ LET p == Head(roundQ) IN
        /\ read' = Append(read, <<p, round[Slot(p.inst)]>>)
        /\ torn' = (torn \/ Hurried(p))
    /\ roundQ' = Tail(roundQ)
    /\ UNCHANGED <<role, arrived, lookQ, metas, bbReq, job, todo, waiting, got, bbResp, out,
                   round, vround, value, coordinator>>

Passes_Always(p, r) == TRUE                               \* Mutant

Passes(p, r) == r <= p.rnd

round_tbl_next_control_state ==
    /\ read # <<>>
    /\ LET p == Head(read)[1] IN
        lookQ' = IF Passes(p, Head(read)[2]) THEN Append(lookQ, p) ELSE lookQ
    /\ read' = Tail(read)
    /\ UNCHANGED <<role, arrived, roundQ, metas, bbReq, job, todo, waiting, got, bbResp, out,
                   round, vround, value, torn, coordinator>>

\* The other block has not yet answered, and may do so after this one.
Mixed(b) ==
    \E c \in Blocks \ {b} : bbReq[c] # <<>> \/ waiting[c] \/ bbResp[c] # <<>>

\* Mutant: the metadata are kept of a packet that matches no entry, too.
lookup_response_KeepsMissed ==
    /\ lookQ # <<>> /\ Len(metas) < FifoDepth
    /\ LET p == Head(lookQ) IN
        IF p.type \in Blocks
        THEN /\ bbReq' = [bbReq EXCEPT ![p.type] = Append(@, p)]
             /\ torn' = (torn \/ Mixed(p.type))
        ELSE UNCHANGED <<bbReq, torn>>
    /\ metas' = Append(metas, Head(lookQ))
    /\ lookQ' = Tail(lookQ)
    /\ UNCHANGED <<role, arrived, roundQ, read, job, todo, waiting, got, bbResp, out,
                   round, vround, value, coordinator>>

\* The program adds entries for 1A and 2A; a packet without one is dropped.
lookup_response ==
    /\ lookQ # <<>> /\ Len(metas) < FifoDepth
    /\ LET p == Head(lookQ) IN
        IF p.type \in Blocks
        THEN /\ bbReq' = [bbReq EXCEPT ![p.type] = Append(@, p)]
             /\ metas' = Append(metas, p)
             /\ torn' = (torn \/ Mixed(p.type))
        ELSE UNCHANGED <<bbReq, metas, torn>>
    /\ lookQ' = Tail(lookQ)
    /\ UNCHANGED <<role, arrived, roundQ, read, job, todo, waiting, got, bbResp, out,
                   round, vround, value, coordinator>>

\* bb_handle1a and bb_handle2a: one request to each of the four registers, for
\* which there is room once the last ones have gone.
bb_handle(b) ==
    /\ bbReq[b] # <<>> /\ ~waiting[b] /\ todo[b] = {}
    /\ job' = [job EXCEPT ![b] = Head(bbReq[b])]
    /\ todo' = [todo EXCEPT ![b] = {"round", "vround", "value", "datapath"}]
    /\ waiting' = [waiting EXCEPT ![b] = TRUE]
    /\ bbReq' = [bbReq EXCEPT ![b] = Tail(@)]
    /\ UNCHANGED <<role, arrived, roundQ, read, lookQ, metas, got, bbResp, out,
                   round, vround, value, torn, coordinator>>

\* A request of block b enters mkP4Register.
loadRequest(b, r) ==
    /\ r \in todo[b]
    /\ todo' = [todo EXCEPT ![b] = @ \ {r}]
    /\ LET s == Slot(job[b].inst)
           w == r \in Writes(b)
       IN /\ round' = IF r = "round" THEN [round EXCEPT ![s] = job[b].rnd] ELSE round
          /\ vround' = IF w /\ r = "vround" THEN [vround EXCEPT ![s] = job[b].rnd] ELSE vround
          /\ value' = IF w /\ r = "value" THEN [value EXCEPT ![s] = job[b].val] ELSE value
          /\ got' = [got EXCEPT ![b] =
                CASE ~w /\ r = "vround" -> [@ EXCEPT !.vround = vround[s]]
                  [] ~w /\ r = "value"  -> [@ EXCEPT !.value = value[s]]
                  [] OTHER              -> @]
    /\ UNCHANGED <<role, arrived, roundQ, read, lookQ, metas, bbReq, job, waiting, bbResp, out,
                   torn, coordinator>>

\* It waits for what it reads and not for its writes.
reg_resp(b) ==
    /\ waiting[b] /\ todo[b] \subseteq Writes(b)
    /\ bbResp' = [bbResp EXCEPT ![b] = Append(@, got[b])]
    /\ waiting' = [waiting EXCEPT ![b] = FALSE]
    /\ got' = [got EXCEPT ![b] = NothingRead]
    /\ UNCHANGED <<role, arrived, roundQ, read, lookQ, metas, bbReq, job, todo, out,
                   round, vround, value, torn, coordinator>>

Answer(b, meta, g) ==
    IF b = "1A"
    THEN [type |-> "1B", inst |-> meta.inst, rnd |-> meta.rnd, vrnd |-> g.vround, val |-> g.value]
    ELSE [type |-> "2B", inst |-> meta.inst, rnd |-> meta.rnd, vrnd |-> 0, val |-> meta.val]

\* The lowest channel first, with the metadata of whichever packet is first;
\* acceptor_tbl_next_control_state hands the result on.
bb_handle_resp ==
    /\ metas # <<>>
    /\ \E b \in Blocks :
        /\ bbResp[b] # <<>>
        /\ b = "2A" => bbResp["1A"] = <<>>
        /\ out' = Append(out, Answer(b, Head(metas), Head(bbResp[b])))
        /\ bbResp' = [bbResp EXCEPT ![b] = Tail(@)]
    /\ metas' = Tail(metas)
    /\ UNCHANGED <<role, arrived, roundQ, read, lookQ, bbReq, job, todo, waiting, got,
                   round, vround, value, torn, coordinator>>

\* handle_request of the transmit channel, which takes a packet at any time.
transmit ==
    /\ out # <<>>
    /\ out' = Tail(out)
    /\ UNCHANGED <<role, arrived, roundQ, read, lookQ, metas, bbReq, job, todo, waiting, got,
                   bbResp, round, vround, value, torn, coordinator>>

-----------------------------------------------------------------------------
(* The coordinator.  All its entries are IncreaseInstance.                 *)

bb_increase_instance ==
    /\ seqQ > 0 /\ Len(instReq) < FifoDepth /\ instCur < FifoDepth
    /\ seqQ' = seqQ - 1
    /\ instReq' = Append(instReq, 0)
    /\ instCur' = instCur + 1
    /\ UNCHANGED <<role, arrived, acceptor, instResp, seqOut, currPacketFifo, instance, given, rushed>>

\* An instance was read and is not yet written.
Unwritten == instResp # <<>> \/ \E k \in DOMAIN instReq : instReq[k] # 0

instance_load ==
    /\ instReq # <<>>
    /\ IF Head(instReq) = 0
       THEN /\ instResp' = Append(instResp, instance)
            /\ rushed' = (rushed \/ Unwritten)
            /\ UNCHANGED instance
       ELSE instance' = Head(instReq) /\ UNCHANGED <<instResp, rushed>>
    /\ instReq' = Tail(instReq)
    /\ UNCHANGED <<role, arrived, acceptor, seqQ, instCur, seqOut, currPacketFifo, given>>

\* Mutant: the packet gets the next instance and the register keeps its own.
increased_reg_resp_Forgets ==
    /\ instCur > 0 /\ instResp # <<>>
    /\ given' = Append(given, Head(instResp) + 1)
    /\ instResp' = Tail(instResp)
    /\ instCur' = instCur - 1
    /\ seqOut' = seqOut + 1
    /\ UNCHANGED <<role, arrived, acceptor, seqQ, instReq, currPacketFifo, instance, rushed>>

\* reg_resp of mkBasicBlockIncreaseInstance.
increased_reg_resp ==
    /\ instCur > 0 /\ instResp # <<>> /\ Len(instReq) < FifoDepth
    /\ instReq' = Append(instReq, Head(instResp) + 1)
    /\ given' = Append(given, Head(instResp) + 1)
    /\ instResp' = Tail(instResp)
    /\ instCur' = instCur - 1
    /\ seqOut' = seqOut + 1
    /\ UNCHANGED <<role, arrived, acceptor, seqQ, currPacketFifo, instance, rushed>>

\* Nothing takes the packets out of currPacketFifo.
sequence_tbl_next_control_state ==
    /\ seqOut > 0 /\ currPacketFifo < FifoDepth
    /\ seqOut' = seqOut - 1
    /\ currPacketFifo' = currPacketFifo + 1
    /\ UNCHANGED <<role, arrived, acceptor, seqQ, instCur, instReq, instResp, instance, given, rushed>>

-----------------------------------------------------------------------------

\* The rules behind the role table.
Rules ==
    \/ bb_round
    \/ round_tbl_next_control_state
    \/ lookup_response
    \/ \E b \in Blocks : \/ bb_handle(b)
                         \/ \E r \in {"round", "vround", "value", "datapath"} : loadRequest(b, r)
                         \/ reg_resp(b)
    \/ bb_handle_resp
    \/ transmit
    \/ bb_increase_instance
    \/ instance_load
    \/ increased_reg_resp
    \/ sequence_tbl_next_control_state

Next ==
    \/ role_reg_write
    \/ role_tbl_next_control_state
    \/ Rules

\* A rule that can fire does, in the order that the scheduler chooses.  Each
\* takes a packet further, so that fairness to all of them at once is enough.
Spec == Init /\ [][Next]_vars /\ WF_vars(Rules)

-----------------------------------------------------------------------------
(* Properties.                                                             *)

\* Packets of a slot that blocks have not yet written to register file reg.
Pending(reg, s) ==
    LET queued == {p \in UNION {ToSet(bbReq[b]) : b \in Blocks} : reg \in Writes(p.type)}
        taken  == {job[b] : b \in {b \in Blocks : reg \in todo[b] \cap Writes(b)}}
    IN {p \in queued \cup taken : Slot(p.inst) = s}

One(S) == CHOOSE p \in S : TRUE

Written(reg, p) == IF reg = "value" THEN p.val ELSE p.rnd

\* Register file reg as it will be when they have.
Effective(reg, file) ==
    [s \in Slots |-> IF Pending(reg, s) = {} THEN file[s] ELSE Written(reg, One(Pending(reg, s)))]

\* What the k-th packet of metas will be answered: by an answer that waits for
\* it, or with what its block has read so far and with the registers.
Due(k) ==
    LET p == metas[k]
        b == p.type
        s == Slot(p.inst)
        Has(reg) == k = Len(bbResp[b]) + 1 /\ waiting[b] /\ reg \notin todo[b]
    IN Answer(b, p, IF k <= Len(bbResp[b]) THEN bbResp[b][k]
                    ELSE [vround |-> IF Has("vround") THEN got[b].vround ELSE vround[s],
                          value  |-> IF Has("value") THEN got[b].value ELSE value[s]])

\* A message is handled when its entry of acceptorTable is found.
Acceptor == INSTANCE PaxosAcceptor WITH
    round <- Effective("round", round), vround <- Effective("vround", vround),
    value <- Effective("value", value),
    answers <- out \o [k \in DOMAIN metas |-> Due(k)]

\* The pipeline is an acceptor that handles one message at a time, until a
\* packet reads the round of an instance of which another one is under way, or
\* 1A and 2A are handled side by side.  Up to then no promise is taken back,
\* no vote is lost and every answer tells of its own instance.
ImplementsAcceptor == Acceptor!Spec

\* Packets get consecutive instances for as long as they do not follow each
\* other faster than instanceReg is read and written; no queue overflows.
InstancesDistinct ==
    /\ TypeOK
    /\ ~rushed => \A k \in DOMAIN given : given[k] = k

AcceptorIdle ==
    /\ roundQ = <<>> /\ read = <<>> /\ lookQ = <<>> /\ metas = <<>> /\ out = <<>>
    /\ \A b \in Blocks : bbReq[b] = <<>> /\ ~waiting[b] /\ todo[b] = {} /\ bbResp[b] = <<>>

\* No packet stays in the acceptor, however close the packets come and in
\* whatever order the blocks answer.  In the coordinator they stay only
\* because currPacketFifo is full.
PacketsLeave ==
    <>[](AcceptorIdle /\ (seqQ + instCur + seqOut = 0 \/ currPacketFifo = FifoDepth))
=============================================================================

-------------------------- MODULE PaxosIngress_proofs ------------------------
(***************************************************************************)
(* Proofs about PaxosIngress, for any number of instances, any messages    *)
(* and any depth of the queues.                                            *)
(***************************************************************************)
EXTENDS PaxosIngress, SequenceTheorems, TLAPS

\* Every packet that came to a coordinator or a forwarder is in one place.
PlacesInv ==
    /\ {seqQ, instCur, seqOut, currPacketFifo} \subseteq Nat
    /\ seqQ + instCur + seqOut + currPacketFifo <= arrived

\* As long as nobody was rushed one packet at a time is between its read of
\* instanceReg and its write: it holds the instance given last, or the next.
SequenceInv ==
    /\ instReq \in Seq(Nat) /\ instResp \in Seq(Nat) /\ given \in Seq(Nat) /\ instance \in Nat
    /\ ~rushed =>
        /\ \A k \in DOMAIN given : given[k] = k
        /\ instResp # <<>> => Len(instResp) = 1 /\ instResp[1] = Len(given)
        /\ \A k \in DOMAIN instReq : instReq[k] # 0 =>
                /\ instReq[k] = Len(given) /\ instResp = <<>>
                /\ \A l \in DOMAIN instReq : instReq[l] # 0 => l = k
        /\ (\A k \in DOMAIN instReq : instReq[k] = 0) => instance = Len(given)

IInv == TypeOK /\ PlacesInv /\ SequenceInv
-----------------------------------------------------------------------------

\* Taking the head off a queue.
LEMMA TakeOff ==
    ASSUME NEW S, NEW q \in Seq(S), q # <<>>
    PROVE  /\ Head(q) \in S /\ Head(q) = q[1] /\ 1 \in DOMAIN q
           /\ Tail(q) \in Seq(S) /\ Len(Tail(q)) = Len(q) - 1 /\ Len(q) \in Nat \ {0}
           /\ \A k \in DOMAIN Tail(q) : k + 1 \in DOMAIN q /\ Tail(q)[k] = q[k + 1]
    BY HeadTailProperties, ElementOfSeq, LenProperties

\* Putting an entry at the end.
LEMMA PutOn ==
    ASSUME NEW S, NEW q \in Seq(S), NEW v \in S
    PROVE  /\ Append(q, v) \in Seq(S) /\ Len(Append(q, v)) = Len(q) + 1 /\ Len(q) \in Nat
           /\ \A k \in DOMAIN q : k \in DOMAIN Append(q, v) /\ Append(q, v)[k] = q[k]
           /\ Len(q) + 1 \in DOMAIN Append(q, v) /\ Append(q, v)[Len(q) + 1] = v
           /\ \A k \in DOMAIN Append(q, v) :
                (k = Len(q) + 1 /\ Append(q, v)[k] = v) \/ (k \in DOMAIN q /\ Append(q, v)[k] = q[k])
    BY AppendProperties, LenProperties

\* The slot of an instance is one of the registers' entries.
LEMMA SlotInRange ==
    ASSUME NEW p \in Packets
    PROVE  Slot(p.inst) \in Slots /\ p.rnd \in Rounds /\ p.val \in Values
<1>1. p.inst \in Nat /\ InstanceCount \in Nat \ {0} /\ p.rnd \in Rounds /\ p.val \in Values
    BY PaxosAssumption DEF Packets, Insts
<1> QED BY <1>1 DEF Slot, Slots

\* Each of four counts is within the bound of their sum.
LEMMA Bounded ==
    ASSUME NEW a \in Nat, NEW b \in Nat, NEW c \in Nat, NEW d \in Nat,
           NEW n \in Nat, NEW m \in Nat, a + b + c + d <= n, n <= m
    PROVE  a \in 0 .. m /\ b \in 0 .. m /\ c \in 0 .. m /\ d \in 0 .. m
<1>1. a <= m /\ b <= m /\ c <= m /\ d <= m
    OBVIOUS
<1> QED BY <1>1

\* What the coordinator and the forwarder change.
CoordinatorTypes ==
    /\ {seqQ, instCur, seqOut, currPacketFifo} \subseteq 0 .. MaxPackets
    /\ instCur <= FifoDepth /\ currPacketFifo <= FifoDepth /\ Len(instReq) <= FifoDepth
    /\ rushed \in BOOLEAN

\* What the acceptor changes.
AcceptorTypes ==
    /\ {roundQ, lookQ, metas} \subseteq Seq(Packets) /\ Len(metas) <= FifoDepth
    /\ read \in Seq(Packets \X (Rounds \cup {0}))
    /\ bbReq \in [Blocks -> Seq(Packets)]
    /\ job \in [Blocks -> Packets \cup {NoPacket}]
    /\ todo \in [Blocks -> SUBSET {"round", "vround", "value", "datapath"}]
    /\ waiting \in [Blocks -> BOOLEAN]
    /\ {round, vround} \subseteq [Slots -> Rounds \cup {0}] /\ value \in [Slots -> Values]
    /\ torn \in BOOLEAN

\* TypeOK in two halves.
LEMMA Halves ==
    TypeOK <=> /\ role \in {"ACCEPTOR", "COORDINATOR", "FORWARDER"} /\ arrived \in 0 .. MaxPackets
               /\ AcceptorTypes /\ CoordinatorTypes
    BY DEF TypeOK, AcceptorTypes, CoordinatorTypes

\* A rule of the acceptor leaves its queues and registers in their types.
AcceptorRules ==
    \/ bb_round
    \/ round_tbl_next_control_state
    \/ lookup_response
    \/ \E b \in Blocks : \/ bb_handle(b)
                         \/ \E r \in {"round", "vround", "value", "datapath"} : loadRequest(b, r)
                         \/ reg_resp(b)
    \/ bb_handle_resp
    \/ transmit

\* Each of its rules leaves the coordinator alone.
LEMMA AcceptorOnly ==
    ASSUME AcceptorRules
    PROVE  UNCHANGED <<role, arrived, coordinator>>
    BY DEF AcceptorRules, bb_round, round_tbl_next_control_state, lookup_response, bb_handle,
           loadRequest, reg_resp, bb_handle_resp, transmit

\* The rules of the acceptor keep the types.
LEMMA AcceptorTyped ==
    ASSUME AcceptorTypes, AcceptorRules
    PROVE  AcceptorTypes'
<1>0. /\ roundQ \in Seq(Packets) /\ lookQ \in Seq(Packets) /\ metas \in Seq(Packets)
      /\ Len(metas) <= FifoDepth /\ read \in Seq(Packets \X (Rounds \cup {0}))
      /\ bbReq \in [Blocks -> Seq(Packets)]
      /\ FifoDepth \in Nat
    BY PaxosAssumption DEF AcceptorTypes
<1>1. /\ round \in [Slots -> Rounds \cup {0}] /\ vround \in [Slots -> Rounds \cup {0}]
      /\ value \in [Slots -> Values] /\ 0 \in Values
    BY PaxosAssumption DEF AcceptorTypes, Values
<1>2. CASE bb_round
    <2>1. Head(roundQ) \in Packets /\ Tail(roundQ) \in Seq(Packets)
        BY <1>0, <1>2, TakeOff DEF bb_round
    <2>2. round[Slot(Head(roundQ).inst)] \in Rounds \cup {0}
        BY <1>1, <2>1, SlotInRange
    <2>3. roundQ' \in Seq(Packets) /\ read' \in Seq(Packets \X (Rounds \cup {0}))
        BY <1>0, <1>2, <2>1, <2>2, PutOn DEF bb_round
    <2>4. torn' \in BOOLEAN
        BY <1>2 DEF bb_round
    <2> QED BY <1>2, <2>3, <2>4 DEF bb_round, AcceptorTypes
<1>3. CASE round_tbl_next_control_state
    <2>1. Head(read) \in Packets \X (Rounds \cup {0}) /\ Tail(read) \in Seq(Packets \X (Rounds \cup {0}))
        BY <1>0, <1>3, TakeOff DEF round_tbl_next_control_state
    <2>2. Append(lookQ, Head(read)[1]) \in Seq(Packets)
        BY <1>0, <2>1, PutOn
    <2>3. lookQ' \in Seq(Packets) /\ read' \in Seq(Packets \X (Rounds \cup {0}))
        BY <1>0, <1>3, <2>1, <2>2 DEF round_tbl_next_control_state
    <2> QED BY <1>3, <2>3 DEF round_tbl_next_control_state, AcceptorTypes
<1>4. CASE lookup_response
    <2> DEFINE p == Head(lookQ)
    <2>1. p \in Packets /\ Tail(lookQ) \in Seq(Packets)
        BY <1>0, <1>4, TakeOff DEF lookup_response
    <2>2. /\ Append(metas, p) \in Seq(Packets) /\ Len(Append(metas, p)) = Len(metas) + 1
          /\ Len(metas) \in Nat
        BY <1>0, <2>1, PutOn
    <2>3. p.type \in Blocks => Append(bbReq[p.type], p) \in Seq(Packets)
        BY <1>0, <2>1, PutOn
    <2>4. /\ \/ bbReq' = bbReq /\ metas' = metas /\ torn' = torn
             \/ /\ p.type \in Blocks /\ bbReq' = [bbReq EXCEPT ![p.type] = Append(bbReq[p.type], p)]
                /\ metas' = Append(metas, p) /\ torn' = (torn \/ Mixed(p.type))
          /\ Len(metas) < FifoDepth /\ lookQ' = Tail(lookQ)
        BY <1>4 DEF lookup_response
    <2> HIDE DEF p
    <2>5. bbReq' \in [Blocks -> Seq(Packets)]
        BY <1>0, <2>3, <2>4
    <2>6. metas' \in Seq(Packets) /\ Len(metas') <= FifoDepth /\ lookQ' \in Seq(Packets)
        <3>1. CASE metas' = metas
            BY <1>0, <2>1, <2>4, <3>1
        <3>2. CASE metas' = Append(metas, p)
            <4>1. Len(metas') = Len(metas) + 1 /\ Len(metas) < FifoDepth
                BY <2>2, <2>4, <3>2
            <4>2. Len(metas') <= FifoDepth
                BY <1>0, <2>2, <4>1
            <4> QED BY <2>1, <2>2, <2>4, <3>2, <4>2
        <3> QED BY <2>4, <3>1, <3>2
    <2>7. torn' \in BOOLEAN
        BY <2>4 DEF AcceptorTypes
    <2> QED BY <1>4, <2>5, <2>6, <2>7 DEF lookup_response, AcceptorTypes
<1>5. ASSUME NEW b \in Blocks, bb_handle(b) PROVE AcceptorTypes'
    <2>1. Head(bbReq[b]) \in Packets /\ Tail(bbReq[b]) \in Seq(Packets)
        BY <1>0, <1>5, TakeOff DEF bb_handle
    <2>2. /\ job' \in [Blocks -> Packets \cup {NoPacket}]
          /\ bbReq' \in [Blocks -> Seq(Packets)]
          /\ todo' \in [Blocks -> SUBSET {"round", "vround", "value", "datapath"}]
          /\ waiting' \in [Blocks -> BOOLEAN]
        BY <1>5, <2>1 DEF bb_handle, AcceptorTypes
    <2> QED BY <1>5, <2>2 DEF bb_handle, AcceptorTypes
<1>6. ASSUME NEW b \in Blocks, NEW r \in {"round", "vround", "value", "datapath"}, loadRequest(b, r)
      PROVE  AcceptorTypes'
    <2>1. job[b].rnd \in Rounds \cup {0} /\ job[b].val \in Values
        <3>1. job[b] \in Packets \cup {NoPacket}
            BY DEF AcceptorTypes
        <3> QED BY <1>1, <3>1, SlotInRange DEF NoPacket
    <2>2. /\ round' \in [Slots -> Rounds \cup {0}] /\ vround' \in [Slots -> Rounds \cup {0}]
          /\ value' \in [Slots -> Values]
        BY <1>1, <1>6, <2>1 DEF loadRequest
    <2>3. todo' \in [Blocks -> SUBSET {"round", "vround", "value", "datapath"}]
        BY <1>6 DEF loadRequest, AcceptorTypes
    <2> QED BY <1>6, <2>2, <2>3 DEF loadRequest, AcceptorTypes
<1>7. ASSUME NEW b \in Blocks, reg_resp(b) PROVE AcceptorTypes'
    BY <1>7 DEF reg_resp, AcceptorTypes
<1>8. CASE bb_handle_resp
    <2>1. metas' \in Seq(Packets) /\ Len(metas') <= FifoDepth
        <3>1. /\ Tail(metas) \in Seq(Packets) /\ Len(Tail(metas)) = Len(metas) - 1
              /\ Len(metas) \in Nat /\ metas' = Tail(metas)
            BY <1>0, <1>8, TakeOff DEF bb_handle_resp
        <3> QED BY <1>0, <3>1
    <2> QED BY <1>8, <2>1 DEF bb_handle_resp, AcceptorTypes
<1>9. CASE transmit
    BY <1>9 DEF transmit, AcceptorTypes
<1> QED BY <1>2, <1>3, <1>4, <1>5, <1>6, <1>7, <1>8, <1>9 DEF AcceptorRules
-----------------------------------------------------------------------------
(* The coordinator.                                                        *)

CoordinatorRules ==
    \/ bb_increase_instance
    \/ instance_load
    \/ increased_reg_resp
    \/ sequence_tbl_next_control_state

\* The places of the packets add up under the coordinator's rules.
LEMMA PlacesKept ==
    ASSUME TypeOK, PlacesInv, CoordinatorRules
    PROVE  /\ UNCHANGED <<role, arrived, acceptor>> /\ PlacesInv'
           /\ {seqQ, instCur, seqOut, currPacketFifo}' \subseteq 0 .. MaxPackets
           /\ instCur' <= FifoDepth /\ currPacketFifo' <= FifoDepth
<1>0. /\ seqQ \in Nat /\ instCur \in Nat /\ seqOut \in Nat /\ currPacketFifo \in Nat
      /\ seqQ + instCur + seqOut + currPacketFifo <= arrived
      /\ arrived \in Nat /\ MaxPackets \in Nat /\ arrived <= MaxPackets /\ FifoDepth \in Nat
      /\ instCur <= FifoDepth /\ currPacketFifo <= FifoDepth
    BY PaxosAssumption DEF TypeOK, PlacesInv
<1>1. UNCHANGED <<role, arrived, acceptor>>
    BY DEF CoordinatorRules, bb_increase_instance, instance_load, increased_reg_resp,
           sequence_tbl_next_control_state
<1>2. \/ /\ seqQ > 0 /\ instCur < FifoDepth /\ seqQ' = seqQ - 1 /\ instCur' = instCur + 1
         /\ UNCHANGED <<seqOut, currPacketFifo>>
      \/ UNCHANGED <<seqQ, instCur, seqOut, currPacketFifo>>
      \/ /\ instCur > 0 /\ instCur' = instCur - 1 /\ seqOut' = seqOut + 1
         /\ UNCHANGED <<seqQ, currPacketFifo>>
      \/ /\ seqOut > 0 /\ currPacketFifo < FifoDepth /\ seqOut' = seqOut - 1
         /\ currPacketFifo' = currPacketFifo + 1 /\ UNCHANGED <<seqQ, instCur>>
    BY DEF CoordinatorRules, bb_increase_instance, instance_load, increased_reg_resp,
           sequence_tbl_next_control_state
<1>3. /\ seqQ' \in Nat /\ instCur' \in Nat /\ seqOut' \in Nat /\ currPacketFifo' \in Nat
      /\ seqQ' + instCur' + seqOut' + currPacketFifo' <= arrived
      /\ instCur' <= FifoDepth /\ currPacketFifo' <= FifoDepth
    BY <1>0, <1>2
<1>4. /\ seqQ' \in 0 .. MaxPackets /\ instCur' \in 0 .. MaxPackets
      /\ seqOut' \in 0 .. MaxPackets /\ currPacketFifo' \in 0 .. MaxPackets
    <2>1. arrived \in Nat /\ MaxPackets \in Nat /\ arrived <= MaxPackets
        BY <1>0
    <2> QED BY <1>3, <2>1, Bounded
<1> QED BY <1>1, <1>3, <1>4 DEF PlacesInv

\* The requests to instanceReg and what was read of it.
LEMMA SequenceKept ==
    ASSUME SequenceInv, rushed \in BOOLEAN, Len(instReq) <= FifoDepth, CoordinatorRules
    PROVE  SequenceInv' /\ rushed' \in BOOLEAN /\ Len(instReq') <= FifoDepth
<1>0. /\ instReq \in Seq(Nat) /\ instResp \in Seq(Nat) /\ given \in Seq(Nat) /\ instance \in Nat
      /\ FifoDepth \in Nat /\ Len(given) \in Nat /\ Len(instReq) \in Nat
    BY PaxosAssumption, LenProperties DEF SequenceInv
<1>1. CASE bb_increase_instance
    <2>1. /\ instReq' = Append(instReq, 0) /\ Len(instReq) < FifoDepth
          /\ UNCHANGED <<instResp, given, instance, rushed>>
        BY <1>1 DEF bb_increase_instance
    <2>2. /\ instReq' \in Seq(Nat) /\ Len(instReq') = Len(instReq) + 1
          /\ \A k \in DOMAIN instReq : k \in DOMAIN instReq' /\ instReq'[k] = instReq[k]
          /\ \A k \in DOMAIN instReq' : instReq'[k] = 0 \/ (k \in DOMAIN instReq /\ instReq'[k] = instReq[k])
        BY <1>0, <2>1, PutOn
    <2>3. Len(instReq') <= FifoDepth
        BY <1>0, <2>1, <2>2
    <2>4. SequenceInv'
        <3>1. ASSUME ~rushed, NEW k \in DOMAIN instReq', instReq'[k] # 0
              PROVE  /\ instReq'[k] = Len(given) /\ instResp = <<>>
                     /\ \A l \in DOMAIN instReq' : instReq'[l] # 0 => l = k
            <4>1. k \in DOMAIN instReq /\ instReq[k] # 0 /\ instReq'[k] = instReq[k]
                BY <2>2, <3>1
            <4>2. /\ instReq[k] = Len(given) /\ instResp = <<>>
                  /\ \A l \in DOMAIN instReq : instReq[l] # 0 => l = k
                BY <3>1, <4>1 DEF SequenceInv
            <4> QED BY <2>2, <4>1, <4>2
        <3>2. (\A k \in DOMAIN instReq' : instReq'[k] = 0) => \A k \in DOMAIN instReq : instReq[k] = 0
            BY <2>2
        <3> QED BY <1>0, <2>1, <2>2, <3>1, <3>2 DEF SequenceInv
    <2> QED BY <2>1, <2>3, <2>4
<1>2. CASE instance_load
    <2>1. /\ instReq' = Tail(instReq) /\ instReq # <<>> /\ given' = given
          /\ IF Head(instReq) = 0
             THEN /\ instResp' = Append(instResp, instance)
                  /\ rushed' = (rushed \/ Unwritten)
                  /\ instance' = instance
             ELSE instance' = Head(instReq) /\ UNCHANGED <<instResp, rushed>>
        BY <1>2 DEF instance_load
    <2>2. /\ Head(instReq) \in Nat /\ Head(instReq) = instReq[1] /\ 1 \in DOMAIN instReq
          /\ instReq' \in Seq(Nat) /\ Len(instReq') = Len(instReq) - 1
          /\ \A k \in DOMAIN instReq' : k + 1 \in DOMAIN instReq /\ instReq'[k] = instReq[k + 1]
        BY <1>0, <2>1, TakeOff
    <2>3. Len(instReq') <= FifoDepth
        BY <1>0, <2>2
    <2>4. \A k \in DOMAIN instReq' : k \in Nat \ {0}
        BY <2>2, LenProperties
    <2>5. CASE Head(instReq) = 0
        <3>1. /\ instResp' \in Seq(Nat) /\ rushed' \in BOOLEAN
              /\ rushed' = (rushed \/ Unwritten) /\ UNCHANGED <<instance, given>>
            <4>1. instResp' = Append(instResp, instance) /\ UNCHANGED <<instance, given>>
                BY <2>1, <2>5
            <4>2. rushed' = (rushed \/ Unwritten)
                BY <2>1, <2>5
            <4> QED BY <1>0, <4>1, <4>2, PutOn
        <3>2. ASSUME ~rushed'
              PROVE  /\ ~rushed /\ instResp = <<>> /\ \A k \in DOMAIN instReq : instReq[k] = 0
                     /\ instance = Len(given)
            <4>1. ~rushed /\ ~Unwritten
                BY <3>1, <3>2
            <4>2. instResp = <<>> /\ \A k \in DOMAIN instReq : instReq[k] = 0
                BY <4>1 DEF Unwritten
            <4> QED BY <4>1, <4>2 DEF SequenceInv
        <3>3. ASSUME ~rushed' PROVE Len(instResp') = 1 /\ instResp'[1] = Len(given)
            <4>1. instResp' = Append(<<>>, instance)
                BY <2>1, <2>5, <3>2, <3>3
            <4> QED BY <1>0, <3>2, <3>3, <4>1
        <3>4. ASSUME ~rushed' PROVE \A k \in DOMAIN instReq' : instReq'[k] = 0
            BY <2>2, <3>2, <3>4
        <3>5. SequenceInv'
            <4>1. ~rushed' => \A k \in DOMAIN given : given[k] = k
                BY <3>2 DEF SequenceInv
            <4> QED BY <1>0, <2>2, <3>1, <3>2, <3>3, <3>4, <4>1 DEF SequenceInv
        <3> QED BY <2>3, <3>1, <3>5
    <2>6. CASE Head(instReq) # 0
        <3>1. instance' = Head(instReq) /\ UNCHANGED <<instResp, rushed, given>>
            BY <2>1, <2>6
        <3>2. ASSUME ~rushed
              PROVE  /\ instance' = Len(given) /\ instResp = <<>>
                     /\ \A k \in DOMAIN instReq' : instReq'[k] = 0
            <4>1. /\ instReq[1] = Len(given) /\ instResp = <<>>
                  /\ \A l \in DOMAIN instReq : instReq[l] # 0 => l = 1
                BY <2>2, <2>6, <3>2 DEF SequenceInv
            <4>2. \A k \in DOMAIN instReq' : instReq'[k] = 0
                BY <2>2, <2>4, <4>1
            <4> QED BY <2>2, <3>1, <4>1, <4>2
        <3>3. SequenceInv'
            BY <1>0, <2>2, <3>1, <3>2 DEF SequenceInv
        <3> QED BY <2>3, <3>1, <3>3
    <2> QED BY <2>5, <2>6
<1>3. CASE increased_reg_resp
    <2> DEFINE v == Head(instResp) + 1
    <2>1. /\ instReq' = Append(instReq, v) /\ given' = Append(given, v) /\ instResp' = Tail(instResp)
          /\ instResp # <<>> /\ Len(instReq) < FifoDepth /\ UNCHANGED <<instance, rushed>>
        BY <1>3 DEF increased_reg_resp
    <2>2. /\ Head(instResp) \in Nat /\ Head(instResp) = instResp[1]
          /\ instResp' \in Seq(Nat) /\ Len(instResp') = Len(instResp) - 1
        BY <1>0, <2>1, TakeOff
    <2>3. v \in Nat \ {0}
        BY <2>2
    <2>4. ~rushed => v = Len(given) + 1 /\ instResp' = <<>>
        <3>1. ~rushed => instResp[1] = Len(given) /\ Len(instResp) = 1
            BY <2>1 DEF SequenceInv
        <3>2. ~rushed => Len(instResp') = 0
            BY <2>2, <3>1, SMTT(20)
        <3> QED BY <2>2, <3>1, <3>2, EmptySeq
    <2>5. ~rushed => \A k \in DOMAIN instReq : instReq[k] = 0
        BY <2>1 DEF SequenceInv
    <2> HIDE DEF v
    <2>6. /\ instReq' \in Seq(Nat) /\ Len(instReq') = Len(instReq) + 1
          /\ Len(instReq) + 1 \in DOMAIN instReq' /\ instReq'[Len(instReq) + 1] = v
          /\ \A k \in DOMAIN instReq' :
                (k = Len(instReq) + 1 /\ instReq'[k] = v) \/ (k \in DOMAIN instReq /\ instReq'[k] = instReq[k])
        BY <1>0, <2>1, <2>3, PutOn
    <2>7. /\ given' \in Seq(Nat) /\ Len(given') = Len(given) + 1
          /\ \A k \in DOMAIN given' :
                (k = Len(given) + 1 /\ given'[k] = v) \/ (k \in DOMAIN given /\ given'[k] = given[k])
        BY <1>0, <2>1, <2>3, PutOn
    <2>8. Len(instReq') <= FifoDepth
        BY <1>0, <2>1, <2>6
    <2>9. ASSUME ~rushed
          PROVE  /\ \A k \in DOMAIN given' : given'[k] = k
                 /\ \A k \in DOMAIN instReq' : instReq'[k] # 0 =>
                        instReq'[k] = Len(given') /\ k = Len(instReq) + 1
                 /\ ~(\A k \in DOMAIN instReq' : instReq'[k] = 0)
        <3>1. \A k \in DOMAIN given : given[k] = k
            BY <2>9 DEF SequenceInv
        <3>2. \A k \in DOMAIN given' : given'[k] = k
            BY <2>4, <2>7, <2>9, <3>1
        <3>3. v = Len(given') /\ v # 0
            BY <2>3, <2>4, <2>7, <2>9
        <3> QED BY <2>5, <2>6, <2>9, <3>2, <3>3
    <2>10. SequenceInv'
        <3>1. instReq' \in Seq(Nat) /\ instResp' \in Seq(Nat) /\ given' \in Seq(Nat) /\ instance' \in Nat
            BY <1>0, <2>1, <2>2, <2>6, <2>7
        <3>2. ASSUME ~rushed, NEW k \in DOMAIN instReq', instReq'[k] # 0
              PROVE  \A l \in DOMAIN instReq' : instReq'[l] # 0 => l = k
            BY <2>9, <3>2
        <3> QED BY <2>1, <2>4, <2>9, <3>1, <3>2 DEF SequenceInv
    <2> QED BY <2>1, <2>8, <2>10
<1>4. CASE sequence_tbl_next_control_state
    BY <1>4 DEF sequence_tbl_next_control_state, SequenceInv
<1> QED BY <1>1, <1>2, <1>3, <1>4 DEF CoordinatorRules

\* A packet that arrives, and the write of the role.
LEMMA ArrivalKept ==
    ASSUME IInv, role_reg_write \/ role_tbl_next_control_state
    PROVE  IInv'
<1>0. /\ AcceptorTypes /\ CoordinatorTypes /\ PlacesInv /\ SequenceInv
      /\ arrived \in 0 .. MaxPackets /\ role \in {"ACCEPTOR", "COORDINATOR", "FORWARDER"}
    BY Halves DEF IInv
<1>1. CASE role_reg_write
    <2>1. UNCHANGED <<arrived, acceptor, coordinator>>
          /\ role' \in {"ACCEPTOR", "COORDINATOR", "FORWARDER"}
        BY <1>1 DEF role_reg_write
    <2>2. TypeOK'
        BY <1>0, <2>1 DEF TypeOK, AcceptorTypes, CoordinatorTypes, acceptor, coordinator
    <2> QED BY <1>0, <2>1, <2>2 DEF IInv, PlacesInv, SequenceInv, coordinator
<1>2. CASE role_tbl_next_control_state
    <2>0. /\ arrived' = arrived + 1 /\ arrived' \in 0 .. MaxPackets /\ role' = role
          /\ arrived \in Nat /\ MaxPackets \in Nat /\ arrived < MaxPackets
        BY <1>0, <1>2, PaxosAssumption DEF role_tbl_next_control_state
    <2>1. UNCHANGED <<instReq, instResp, instance, given, rushed>>
        BY <1>2 DEF role_tbl_next_control_state, coordinator
    <2>2. SequenceInv'
        BY <1>0, <2>1 DEF SequenceInv
    <2>3. /\ UNCHANGED <<instCur, seqOut>>
          /\ \/ UNCHANGED <<seqQ, currPacketFifo>>
             \/ seqQ' = seqQ + 1 /\ currPacketFifo' = currPacketFifo
             \/ seqQ' = seqQ /\ currPacketFifo' = currPacketFifo + 1 /\ currPacketFifo < FifoDepth
        BY <1>2 DEF role_tbl_next_control_state, coordinator
    <2>4. PlacesInv' /\ CoordinatorTypes'
        <3>1. /\ seqQ \in Nat /\ instCur \in Nat /\ seqOut \in Nat /\ currPacketFifo \in Nat
              /\ seqQ + instCur + seqOut + currPacketFifo <= arrived /\ FifoDepth \in Nat
              /\ currPacketFifo <= FifoDepth
            BY <1>0, PaxosAssumption DEF PlacesInv, CoordinatorTypes
        <3>2. /\ seqQ' \in Nat /\ instCur' \in Nat /\ seqOut' \in Nat /\ currPacketFifo' \in Nat
              /\ seqQ' + instCur' + seqOut' + currPacketFifo' <= arrived'
              /\ currPacketFifo' <= FifoDepth
            BY <2>0, <2>3, <3>1
        <3>3. /\ seqQ' \in 0 .. MaxPackets /\ instCur' \in 0 .. MaxPackets
              /\ seqOut' \in 0 .. MaxPackets /\ currPacketFifo' \in 0 .. MaxPackets
            <4>1. arrived' \in Nat /\ arrived' <= MaxPackets
                BY <2>0
            <4>2. MaxPackets \in Nat
                BY PaxosAssumption
            <4> DEFINE a == seqQ'
                       b == instCur'
                       c == seqOut'
                       d == currPacketFifo'
                       n == arrived'
            <4>3. /\ a \in Nat /\ b \in Nat /\ c \in Nat /\ d \in Nat /\ n \in Nat
                  /\ a + b + c + d <= n /\ n <= MaxPackets
                BY <3>2, <4>1
            <4>4. a \in 0 .. MaxPackets /\ b \in 0 .. MaxPackets /\ c \in 0 .. MaxPackets /\ d \in 0 .. MaxPackets
                <5> HIDE DEF a, b, c, d, n
                <5> QED BY <4>2, <4>3, Bounded
            <4> QED BY <4>4
        <3> QED BY <1>0, <2>1, <2>3, <3>2, <3>3 DEF PlacesInv, CoordinatorTypes
    <2>5. AcceptorTypes'
        <3>1. CASE UNCHANGED acceptor
            BY <1>0, <3>1 DEF AcceptorTypes, acceptor
        <3>2. ASSUME NEW m \in Messages,
                     roundQ' = Append(roundQ, [type |-> m.type, inst |-> m.inst, rnd |-> m.rnd,
                                               val |-> arrived']),
                     UNCHANGED <<read, lookQ, metas, bbReq, job, todo, waiting, got, bbResp, out,
                                 round, vround, value, torn>>
              PROVE  AcceptorTypes'
            <4>1. [type |-> m.type, inst |-> m.inst, rnd |-> m.rnd, val |-> arrived'] \in Packets
                BY <2>0, PaxosAssumption DEF Packets, Insts, Rounds, Values, Blocks
            <4>2. roundQ \in Seq(Packets)
                BY <1>0 DEF AcceptorTypes
            <4>3. roundQ' \in Seq(Packets)
                BY <3>2, <4>1, <4>2, PutOn
            <4> QED BY <1>0, <3>2, <4>3 DEF AcceptorTypes
        <3> QED BY <1>2, <3>1, <3>2 DEF role_tbl_next_control_state
    <2> QED BY <1>0, <2>0, <2>2, <2>4, <2>5, Halves DEF IInv, TypeOK, AcceptorTypes, CoordinatorTypes
<1> QED BY <1>1, <1>2

\* The invariant holds of every behaviour.
THEOREM Invariance == Spec => []IInv
<1>1. Init => IInv
    <2> SUFFICES ASSUME Init PROVE IInv
        OBVIOUS
    <2>1. /\ FifoDepth \in Nat /\ MaxPackets \in Nat
        BY PaxosAssumption
    <2>2. AcceptorTypes
        <3>1. /\ roundQ \in Seq(Packets) /\ lookQ \in Seq(Packets) /\ metas \in Seq(Packets)
              /\ Len(metas) = 0 /\ read \in Seq(Packets \X (Rounds \cup {0}))
              /\ bbReq \in [Blocks -> Seq(Packets)]
            BY DEF Init
        <3>2. /\ job \in [Blocks -> Packets \cup {NoPacket}]
              /\ todo \in [Blocks -> SUBSET {"round", "vround", "value", "datapath"}]
              /\ waiting \in [Blocks -> BOOLEAN] /\ torn \in BOOLEAN
            BY DEF Init
        <3>3. /\ round \in [Slots -> Rounds \cup {0}] /\ vround \in [Slots -> Rounds \cup {0}]
              /\ value \in [Slots -> Values]
            BY <2>1 DEF Init, Values
        <3> QED BY <2>1, <3>1, <3>2, <3>3 DEF AcceptorTypes
    <2>3. CoordinatorTypes /\ PlacesInv /\ arrived \in 0 .. MaxPackets
        <3>1. /\ seqQ = 0 /\ instCur = 0 /\ seqOut = 0 /\ currPacketFifo = 0 /\ arrived = 0
              /\ Len(instReq) = 0 /\ rushed \in BOOLEAN
            BY DEF Init
        <3>2. 0 \in 0 .. MaxPackets
            BY <2>1
        <3>3. CoordinatorTypes /\ arrived \in 0 .. MaxPackets
            BY <2>1, <3>1, <3>2 DEF CoordinatorTypes
        <3>4. PlacesInv
            BY <3>1 DEF PlacesInv
        <3> QED BY <3>3, <3>4
    <2>4. SequenceInv
        BY DEF Init, SequenceInv
    <2> QED BY <2>2, <2>3, <2>4, Halves DEF IInv, Init
<1>2. IInv /\ [Next]_vars => IInv'
    <2> SUFFICES ASSUME IInv, [Next]_vars PROVE IInv'
        OBVIOUS
    <2>1. CASE AcceptorRules
        <3>1. UNCHANGED <<role, arrived, coordinator>>
            BY <2>1, AcceptorOnly
        <3>2. AcceptorTypes'
            BY <2>1, AcceptorTyped, Halves DEF IInv
        <3>3. PlacesInv' /\ SequenceInv' /\ CoordinatorTypes'
            BY <3>1, Halves DEF IInv, PlacesInv, SequenceInv, CoordinatorTypes, coordinator
        <3> QED BY <3>1, <3>2, <3>3 DEF IInv, TypeOK, AcceptorTypes, CoordinatorTypes
    <2>2. CASE CoordinatorRules
        <3>1. /\ UNCHANGED <<role, arrived, acceptor>> /\ PlacesInv'
              /\ {seqQ, instCur, seqOut, currPacketFifo}' \subseteq 0 .. MaxPackets
              /\ instCur' <= FifoDepth /\ currPacketFifo' <= FifoDepth
            BY <2>2, PlacesKept DEF IInv
        <3>2. SequenceInv' /\ rushed' \in BOOLEAN /\ Len(instReq') <= FifoDepth
            BY <2>2, SequenceKept, Halves DEF IInv, CoordinatorTypes
        <3>3. AcceptorTypes'
            BY <3>1, Halves DEF IInv, AcceptorTypes, acceptor
        <3> QED BY <3>1, <3>2, <3>3 DEF IInv, TypeOK, AcceptorTypes
    <2>3. CASE UNCHANGED vars
        BY <2>3 DEF vars, acceptor, coordinator, IInv, TypeOK, PlacesInv, SequenceInv
    <2>4. CASE role_reg_write \/ role_tbl_next_control_state
        BY <2>4, ArrivalKept
    <2> QED BY <2>1, <2>2, <2>3, <2>4 DEF Next, Rules, AcceptorRules, CoordinatorRules
<1> QED BY <1>1, <1>2, PTL DEF Spec

\* The coordinator numbers the packets 1, 2, 3, ... for as long as none of them
\* reads instanceReg before the one ahead of it has written it, and no queue
\* overflows, for all depths of the queues and all messages.
THEOREM Instances == Spec => []InstancesDistinct
<1>1. IInv => InstancesDistinct
    BY DEF IInv, SequenceInv, InstancesDistinct
<1> QED BY <1>1, Invariance, PTL
-----------------------------------------------------------------------------
(* The acceptor.                                                           *)

\* What is between the read of a round and the last request to a register.
Stages == {<<"read", "">>, <<"look", "">>} \cup ({"req", "job"} \X Blocks)

SlotsOf(q)   == [k \in DOMAIN q |-> Slot(q[k].inst)]
SlotsRead(q) == [k \in DOMAIN q |-> Slot(q[k][1].inst)]

\* The slots of the packets in each stage.
Line(x) ==
    CASE x[1] = "read" -> SlotsRead(read)
      [] x[1] = "look" -> SlotsOf(lookQ)
      [] x[1] = "req"  -> SlotsOf(bbReq[x[2]])
      [] x[1] = "job"  -> IF todo[x[2]] = {} THEN <<>> ELSE <<Slot(job[x[2]].inst)>>

Lines == [x \in Stages |-> Line(x)]

\* No two of them are of one slot.
Apart(L) ==
    \A x, y \in Stages : \A k \in DOMAIN L[x], l \in DOMAIN L[y] :
        L[x][k] = L[y][l] => x = y /\ k = l

\* A round that was read is the one of the register still, and a packet that
\* has passed the comparison would pass it again.
RoundsSeen ==
    /\ \A k \in DOMAIN read : read[k][2] = round[Slot(read[k][1].inst)]
    /\ \A k \in DOMAIN lookQ : round[Slot(lookQ[k].inst)] <= lookQ[k].rnd

Gots    == [vround : Rounds \cup {0}, value : Values]
Answers == [type : {"1B", "2B"}, inst : Insts, rnd : Rounds, vrnd : Rounds \cup {0}, val : Values]

\* Every block has messages of its own type.
BlockTypes ==
    /\ got \in [Blocks -> Gots] /\ bbResp \in [Blocks -> Seq(Gots)] /\ out \in Seq(Answers)
    /\ \A b \in Blocks :
        /\ \A k \in DOMAIN bbReq[b] : bbReq[b][k].type = b
        /\ todo[b] # {} \/ waiting[b] => job[b] \in Packets /\ job[b].type = b

\* Answers that wait for their metadata, and the one to come.
Taken(b) == Len(bbResp[b]) + (IF waiting[b] THEN 1 ELSE 0)

\* Metadata wait for block b alone: for its answers, its job and its requests,
\* in this order.
Serves(b) ==
    /\ \A c \in Blocks \ {b} : bbReq[c] = <<>> /\ ~waiting[c] /\ bbResp[c] = <<>>
    /\ Len(metas) = Taken(b) + Len(bbReq[b])
    /\ \A k \in DOMAIN metas : metas[k].type = b
    /\ waiting[b] => metas[Len(bbResp[b]) + 1] = job[b]
    /\ \A k \in DOMAIN bbReq[b] : metas[Taken(b) + k] = bbReq[b][k]

InStep   == Apart(Lines) /\ RoundsSeen /\ \E b \in Blocks : Serves(b)
StepsInv == AcceptorTypes /\ BlockTypes /\ (~torn => InStep)
-----------------------------------------------------------------------------

\* An entry put on one of the lines, of a slot that is on none.
LEMMA Entered ==
    ASSUME NEW L \in [Stages -> Seq(Slots)], Apart(L), NEW x \in Stages, NEW s \in Slots,
           \A y \in Stages : \A k \in DOMAIN L[y] : L[y][k] # s
    PROVE  /\ Apart([L EXCEPT ![x] = Append(L[x], s)])
           /\ [L EXCEPT ![x] = Append(L[x], s)] \in [Stages -> Seq(Slots)]
<1> DEFINE M == [L EXCEPT ![x] = Append(L[x], s)]
<1>1. \A k \in DOMAIN Append(L[x], s) :
            \/ k = Len(L[x]) + 1 /\ Append(L[x], s)[k] = s
            \/ k \in DOMAIN L[x] /\ Append(L[x], s)[k] = L[x][k]
    BY PutOn
<1>2. /\ M[x] = Append(L[x], s) /\ \A y \in Stages : y # x => M[y] = L[y]
      /\ M \in [Stages -> Seq(Slots)]
    BY PutOn
<1> HIDE DEF M
<1>3. \A y \in Stages : \A k \in DOMAIN M[y] :
            (y = x /\ k = Len(L[x]) + 1 /\ M[y][k] = s) \/ (k \in DOMAIN L[y] /\ M[y][k] = L[y][k])
    BY <1>1, <1>2
<1>4. Apart(M)
    <2> SUFFICES ASSUME NEW y \in Stages, NEW z \in Stages, NEW k \in DOMAIN M[y], NEW l \in DOMAIN M[z],
                        M[y][k] = M[z][l]
                 PROVE  y = z /\ k = l
        BY DEF Apart
    <2>1. CASE k \in DOMAIN L[y] /\ M[y][k] = L[y][k] /\ l \in DOMAIN L[z] /\ M[z][l] = L[z][l]
        <3>1. L[y][k] = L[z][l]
            BY <2>1
        <3> QED BY <2>1, <3>1 DEF Apart
    <2>2. CASE y = x /\ k = Len(L[x]) + 1 /\ M[y][k] = s
        BY <1>3, <2>2
    <2>3. CASE z = x /\ l = Len(L[x]) + 1 /\ M[z][l] = s
        BY <1>3, <2>3
    <2> QED BY <1>3, <2>1, <2>2, <2>3
<1> QED BY <1>2, <1>4 DEF M

\* The first entry of a line taken off.
LEMMA WentOff ==
    ASSUME NEW L \in [Stages -> Seq(Slots)], Apart(L), NEW x \in Stages, L[x] # <<>>
    PROVE  /\ Apart([L EXCEPT ![x] = Tail(L[x])])
           /\ [L EXCEPT ![x] = Tail(L[x])] \in [Stages -> Seq(Slots)]
           /\ Head(L[x]) \in Slots
           /\ \A y \in Stages : \A k \in DOMAIN [L EXCEPT ![x] = Tail(L[x])][y] :
                [L EXCEPT ![x] = Tail(L[x])][y][k] # Head(L[x])
<1> DEFINE M == [L EXCEPT ![x] = Tail(L[x])]
<1>1. /\ Head(L[x]) \in Slots /\ Head(L[x]) = L[x][1] /\ 1 \in DOMAIN L[x]
      /\ Tail(L[x]) \in Seq(Slots)
      /\ \A k \in DOMAIN Tail(L[x]) : k + 1 \in DOMAIN L[x] /\ Tail(L[x])[k] = L[x][k + 1]
    BY TakeOff
<1>2. M \in [Stages -> Seq(Slots)] /\ M[x] = Tail(L[x]) /\ \A y \in Stages : y # x => M[y] = L[y]
    BY <1>1
<1>3. DOMAIN Tail(L[x]) \subseteq Nat \ {0}
    BY <1>1, LenProperties
<1> HIDE DEF M
<1>4. \A y \in Stages : \A k \in DOMAIN M[y] :
            \/ y = x /\ k \in Nat \ {0} /\ k + 1 \in DOMAIN L[x] /\ M[y][k] = L[x][k + 1]
            \/ y # x /\ k \in DOMAIN L[y] /\ M[y][k] = L[y][k]
    BY <1>1, <1>2, <1>3
<1>5. Apart(M)
    <2> SUFFICES ASSUME NEW y \in Stages, NEW z \in Stages, NEW k \in DOMAIN M[y], NEW l \in DOMAIN M[z],
                        M[y][k] = M[z][l]
                 PROVE  y = z /\ k = l
        BY DEF Apart
    <2>1. CASE y = x /\ z = x
        <3>1. /\ k \in Nat /\ l \in Nat /\ k + 1 \in DOMAIN L[x] /\ l + 1 \in DOMAIN L[x]
              /\ L[x][k + 1] = L[x][l + 1]
            BY <1>4, <2>1
        <3>2. k + 1 = l + 1
            BY <3>1 DEF Apart
        <3> QED BY <2>1, <3>1, <3>2
    <2>2. CASE y # x \/ z # x
        BY <1>4, <2>2 DEF Apart
    <2> QED BY <2>1, <2>2
<1>6. ASSUME NEW y \in Stages, NEW k \in DOMAIN M[y], M[y][k] = Head(L[x]) PROVE FALSE
    <2>1. CASE y = x
        <3>1. k \in Nat \ {0} /\ k + 1 \in DOMAIN L[x] /\ L[x][k + 1] = L[x][1]
            BY <1>1, <1>4, <1>6, <2>1
        <3>2. k + 1 = 1
            BY <1>1, <3>1 DEF Apart
        <3> QED BY <3>1, <3>2
    <2>2. CASE y # x
        BY <1>1, <1>4, <1>6, <2>2 DEF Apart
    <2> QED BY <2>1, <2>2
<1> QED BY <1>1, <1>2, <1>5, <1>6 DEF M

\* The first entry of a line put on the end of another one.
LEMMA MovedOn ==
    ASSUME NEW L \in [Stages -> Seq(Slots)], Apart(L), NEW x \in Stages, NEW y \in Stages,
           x # y, L[x] # <<>>
    PROVE  /\ Apart([L EXCEPT ![x] = Tail(L[x]), ![y] = Append(L[y], Head(L[x]))])
           /\ [L EXCEPT ![x] = Tail(L[x]), ![y] = Append(L[y], Head(L[x]))] \in [Stages -> Seq(Slots)]
<1> DEFINE M == [L EXCEPT ![x] = Tail(L[x])]
           N == [L EXCEPT ![x] = Tail(L[x]), ![y] = Append(L[y], Head(L[x]))]
           s == Head(L[x])
<1>1. /\ Apart(M) /\ M \in [Stages -> Seq(Slots)] /\ s \in Slots
      /\ \A z \in Stages : \A k \in DOMAIN M[z] : M[z][k] # s
    BY WentOff
<1>2. N = [M EXCEPT ![y] = Append(M[y], s)]
    OBVIOUS
<1> HIDE DEF M, N, s
<1>3. Apart(N) /\ N \in [Stages -> Seq(Slots)]
    BY <1>1, <1>2, Entered
<1> QED BY <1>3 DEF N, s

\* What f makes of the entries of a queue, as entries come and go.
LEMMA Mapped ==
    ASSUME NEW S, NEW T, NEW f \in [S -> T], NEW q \in Seq(S)
    PROVE  /\ [k \in DOMAIN q |-> f[q[k]]] \in Seq(T)
           /\ q # <<>> => /\ [k \in DOMAIN q |-> f[q[k]]] # <<>>
                          /\ Head([k \in DOMAIN q |-> f[q[k]]]) = f[Head(q)]
                          /\ [k \in DOMAIN Tail(q) |-> f[Tail(q)[k]]] = Tail([k \in DOMAIN q |-> f[q[k]]])
           /\ \A v \in S : [k \in DOMAIN Append(q, v) |-> f[Append(q, v)[k]]]
                                = Append([k \in DOMAIN q |-> f[q[k]]], f[v])
<1> DEFINE m(u) == [k \in DOMAIN u |-> f[u[k]]]
<1>0. ASSUME NEW u \in Seq(S)
      PROVE  /\ m(u) \in Seq(T) /\ Len(m(u)) = Len(u) /\ Len(u) \in Nat /\ DOMAIN u = 1 .. Len(u)
             /\ DOMAIN m(u) = 1 .. Len(u) /\ \A k \in 1 .. Len(u) : m(u)[k] = f[u[k]]
    <2>1. Len(u) \in Nat /\ DOMAIN u = 1 .. Len(u) /\ \A k \in 1 .. Len(u) : u[k] \in S
        BY LenProperties, ElementOfSeq
    <2>2. m(u) \in [1 .. Len(u) -> T]
        BY <2>1
    <2>3. m(u) \in Seq(T)
        BY <2>1, <2>2
    <2>4. DOMAIN m(u) = 1 .. Len(u) /\ Len(m(u)) = Len(u)
        BY <2>1, <2>3, LenProperties
    <2> QED BY <2>1, <2>3, <2>4
<1>1. m(q) \in Seq(T)
    BY <1>0
<1>2. ASSUME q # <<>> PROVE m(q) # <<>> /\ Head(m(q)) = f[Head(q)] /\ m(Tail(q)) = Tail(m(q))
    <2>1. /\ Head(q) = q[1] /\ 1 \in DOMAIN q /\ Tail(q) \in Seq(S) /\ Len(Tail(q)) = Len(q) - 1
          /\ \A k \in DOMAIN Tail(q) : k + 1 \in DOMAIN q /\ Tail(q)[k] = q[k + 1]
        BY <1>2, TakeOff
    <2>2. m(q) \in Seq(T) /\ Len(m(q)) = Len(q) /\ Len(q) \in Nat /\ m(q)[1] = f[q[1]] /\ m(q) # <<>>
        BY <1>0, <2>1
    <2>3. /\ Head(m(q)) = m(q)[1] /\ Tail(m(q)) \in Seq(T) /\ Len(Tail(m(q))) = Len(q) - 1
          /\ \A k \in DOMAIN Tail(m(q)) : k + 1 \in DOMAIN m(q) /\ Tail(m(q))[k] = m(q)[k + 1]
        <3> HIDE DEF m
        <3> QED BY <2>2, TakeOff
    <2>4. m(Tail(q)) \in Seq(T) /\ Len(m(Tail(q))) = Len(q) - 1
        BY <1>0, <2>1
    <2>5. ASSUME NEW k \in 1 .. Len(q) - 1 PROVE m(Tail(q))[k] = Tail(m(q))[k]
        <3>1. k \in DOMAIN Tail(q) /\ k \in DOMAIN Tail(m(q)) /\ k + 1 \in 1 .. Len(q)
            <4> HIDE DEF m
            <4> QED BY <2>1, <2>2, <2>3, LenProperties
        <3>2. m(Tail(q))[k] = f[q[k + 1]]
            BY <2>1, <3>1
        <3>3. Tail(m(q))[k] = m(q)[k + 1]
            <4> HIDE DEF m
            <4> QED BY <2>3, <3>1
        <3>4. m(q)[k + 1] = f[q[k + 1]]
            BY <1>0, <3>1
        <3> QED BY <3>2, <3>3, <3>4
    <2> HIDE DEF m
    <2>6. m(Tail(q)) = Tail(m(q))
        BY <2>3, <2>4, <2>5, SeqEqual
    <2> QED BY <2>1, <2>2, <2>3, <2>6
<1>3. ASSUME NEW v \in S PROVE m(Append(q, v)) = Append(m(q), f[v])
    <2>1. /\ Append(q, v) \in Seq(S) /\ Len(Append(q, v)) = Len(q) + 1 /\ Len(q) \in Nat
          /\ \A k \in 1 .. Len(q) : Append(q, v)[k] = q[k]
          /\ Append(q, v)[Len(q) + 1] = v
        BY AppendProperties, LenProperties
    <2>2. f[v] \in T
        OBVIOUS
    <2>3. /\ m(q) \in Seq(T) /\ Len(m(q)) = Len(q) /\ \A k \in 1 .. Len(q) : m(q)[k] = f[q[k]]
        BY <1>0
    <2>4. /\ m(Append(q, v)) \in Seq(T) /\ Len(m(Append(q, v))) = Len(q) + 1
          /\ \A k \in 1 .. Len(q) + 1 : m(Append(q, v))[k] = f[Append(q, v)[k]]
        BY <1>0, <2>1
    <2> HIDE DEF m
    <2>5. /\ Append(m(q), f[v]) \in Seq(T) /\ Len(Append(m(q), f[v])) = Len(q) + 1
          /\ \A k \in 1 .. Len(q) : Append(m(q), f[v])[k] = m(q)[k]
          /\ Append(m(q), f[v])[Len(q) + 1] = f[v]
        BY <2>2, <2>3, AppendProperties
    <2>6. ASSUME NEW k \in 1 .. Len(q) + 1 PROVE m(Append(q, v))[k] = Append(m(q), f[v])[k]
        <3>1. CASE k = Len(q) + 1
            BY <2>1, <2>4, <2>5, <3>1
        <3>2. CASE k \in 1 .. Len(q)
            BY <2>1, <2>3, <2>4, <2>5, <3>2
        <3>3. k = Len(q) + 1 \/ k \in 1 .. Len(q)
            BY <2>1
        <3> QED BY <3>1, <3>2, <3>3
    <2> QED BY <2>4, <2>5, <2>6, SeqEqual
<1> QED BY <1>1, <1>2, <1>3

Reads == Packets \X (Rounds \cup {0})

\* The slots of a queue of packets.
LEMMA SlotsOfQueue ==
    ASSUME NEW q \in Seq(Packets)
    PROVE  /\ SlotsOf(q) \in Seq(Slots)
           /\ q # <<>> => /\ SlotsOf(q) # <<>> /\ Head(SlotsOf(q)) = Slot(Head(q).inst)
                          /\ SlotsOf(Tail(q)) = Tail(SlotsOf(q))
           /\ \A v \in Packets : SlotsOf(Append(q, v)) = Append(SlotsOf(q), Slot(v.inst))
<1> DEFINE f == [p \in Packets |-> Slot(p.inst)]
<1>1. f \in [Packets -> Slots]
    BY SlotInRange
<1>2. \A u \in Seq(Packets) : [k \in DOMAIN u |-> f[u[k]]] = SlotsOf(u)
    <2> SUFFICES ASSUME NEW u \in Seq(Packets) PROVE [k \in DOMAIN u |-> f[u[k]]] = SlotsOf(u)
        OBVIOUS
    <2>1. \A k \in DOMAIN u : u[k] \in Packets
        BY LenProperties, ElementOfSeq
    <2> QED BY <2>1 DEF SlotsOf
<1>3. \A v \in Packets : f[v] = Slot(v.inst)
    OBVIOUS
<1> HIDE DEF f
<1>4. /\ [k \in DOMAIN q |-> f[q[k]]] \in Seq(Slots)
      /\ q # <<>> => /\ [k \in DOMAIN q |-> f[q[k]]] # <<>>
                     /\ Head([k \in DOMAIN q |-> f[q[k]]]) = f[Head(q)]
                     /\ [k \in DOMAIN Tail(q) |-> f[Tail(q)[k]]] = Tail([k \in DOMAIN q |-> f[q[k]]])
      /\ \A v \in Packets : [k \in DOMAIN Append(q, v) |-> f[Append(q, v)[k]]]
                           = Append([k \in DOMAIN q |-> f[q[k]]], f[v])
    BY <1>1, Mapped
<1>5. q # <<>> => Tail(q) \in Seq(Packets) /\ Head(q) \in Packets
    BY TakeOff
<1>6. \A v \in Packets : Append(q, v) \in Seq(Packets)
    BY PutOn
<1> QED BY <1>2, <1>3, <1>4, <1>5, <1>6

LEMMA SlotsOfReads ==
    ASSUME NEW q \in Seq(Reads)
    PROVE  /\ SlotsRead(q) \in Seq(Slots)
           /\ q # <<>> => /\ SlotsRead(q) # <<>> /\ Head(SlotsRead(q)) = Slot(Head(q)[1].inst)
                          /\ SlotsRead(Tail(q)) = Tail(SlotsRead(q))
           /\ \A v \in Reads : SlotsRead(Append(q, v)) = Append(SlotsRead(q), Slot(v[1].inst))
<1> DEFINE f == [p \in Reads |-> Slot(p[1].inst)]
<1>1. f \in [Reads -> Slots]
    BY SlotInRange DEF Reads
<1>2. \A u \in Seq(Reads) : [k \in DOMAIN u |-> f[u[k]]] = SlotsRead(u)
    <2> SUFFICES ASSUME NEW u \in Seq(Reads) PROVE [k \in DOMAIN u |-> f[u[k]]] = SlotsRead(u)
        OBVIOUS
    <2>1. \A k \in DOMAIN u : u[k] \in Reads
        BY LenProperties, ElementOfSeq
    <2> QED BY <2>1 DEF SlotsRead
<1>3. \A v \in Reads : f[v] = Slot(v[1].inst)
    OBVIOUS
<1> HIDE DEF f
<1>4. /\ [k \in DOMAIN q |-> f[q[k]]] \in Seq(Slots)
      /\ q # <<>> => /\ [k \in DOMAIN q |-> f[q[k]]] # <<>>
                     /\ Head([k \in DOMAIN q |-> f[q[k]]]) = f[Head(q)]
                     /\ [k \in DOMAIN Tail(q) |-> f[Tail(q)[k]]] = Tail([k \in DOMAIN q |-> f[q[k]]])
      /\ \A v \in Reads : [k \in DOMAIN Append(q, v) |-> f[Append(q, v)[k]]]
                           = Append([k \in DOMAIN q |-> f[q[k]]], f[v])
    BY <1>1, Mapped
<1>5. q # <<>> => Tail(q) \in Seq(Reads) /\ Head(q) \in Reads
    BY TakeOff
<1>6. \A v \in Reads : Append(q, v) \in Seq(Reads)
    BY PutOn
<1> QED BY <1>2, <1>3, <1>4, <1>5, <1>6

LEMMA StagesAre ==
    /\ <<"read", "">> \in Stages /\ <<"look", "">> \in Stages
    /\ \A b \in Blocks : <<"req", b>> \in Stages /\ <<"job", b>> \in Stages
    /\ \A x \in Stages : \/ x = <<"read", "">> \/ x = <<"look", "">>
                         \/ \E b \in Blocks : x = <<"req", b>> \/ x = <<"job", b>>
<1>1. /\ <<"read", "">> \in Stages /\ <<"look", "">> \in Stages
      /\ \A b \in Blocks : <<"req", b>> \in Stages /\ <<"job", b>> \in Stages
    BY DEF Stages
<1>2. ASSUME NEW x \in {"req", "job"} \X Blocks
      PROVE  \E b \in Blocks : x = <<"req", b>> \/ x = <<"job", b>>
    <2>1. PICK y \in {"req", "job"}, b \in Blocks : x = <<y, b>>
        BY <1>2
    <2> QED BY <2>1
<1>3. \A x \in Stages : x = <<"read", "">> \/ x = <<"look", "">> \/ x \in {"req", "job"} \X Blocks
    BY DEF Stages
<1> QED BY <1>1, <1>2, <1>3

\* Each of the lines by its name.
ByName ==
    /\ Lines = [x \in Stages |-> Lines[x]]
    /\ Lines[<<"read", "">>] = SlotsRead(read)
    /\ Lines[<<"look", "">>] = SlotsOf(lookQ)
    /\ \A b \in Blocks :
         /\ Lines[<<"req", b>>] = SlotsOf(bbReq[b])
         /\ Lines[<<"job", b>>] = IF todo[b] = {} THEN <<>> ELSE <<Slot(job[b].inst)>>

LEMMA LinesAre == ByName /\ ByName'
<1>1. Lines = [x \in Stages |-> Lines[x]] /\ (Lines = [x \in Stages |-> Lines[x]])'
    <2>1. Lines = [x \in Stages |-> Lines[x]]
        BY DEF Lines
    <2>2. (Lines = [x \in Stages |-> Lines[x]])'
        BY DEF Lines
    <2> QED BY <2>1, <2>2
<1>2. /\ Lines[<<"read", "">>] = SlotsRead(read) /\ Lines[<<"look", "">>] = SlotsOf(lookQ)
      /\ (Lines[<<"read", "">>] = SlotsRead(read) /\ Lines[<<"look", "">>] = SlotsOf(lookQ))'
    BY StagesAre DEF Lines, Line
<1>3. ASSUME NEW b \in Blocks
      PROVE  /\ Lines[<<"req", b>>] = SlotsOf(bbReq[b])
             /\ Lines[<<"job", b>>] = IF todo[b] = {} THEN <<>> ELSE <<Slot(job[b].inst)>>
    BY StagesAre DEF Lines, Line
<1>4. ASSUME NEW b \in Blocks
      PROVE  (/\ Lines[<<"req", b>>] = SlotsOf(bbReq[b])
              /\ Lines[<<"job", b>>] = IF todo[b] = {} THEN <<>> ELSE <<Slot(job[b].inst)>>)'
    BY StagesAre DEF Lines, Line
<1> QED BY <1>1, <1>2, <1>3, <1>4 DEF ByName

\* The lines after a step, from what they are stage by stage.
LEMMA LinesNext ==
    ASSUME NEW M \in [Stages -> Seq(Slots)],
           M[<<"read", "">>] = SlotsRead(read'), M[<<"look", "">>] = SlotsOf(lookQ'),
           \A b \in Blocks :
                /\ M[<<"req", b>>] = SlotsOf(bbReq'[b])
                /\ M[<<"job", b>>] = IF todo'[b] = {} THEN <<>> ELSE <<Slot(job'[b].inst)>>
    PROVE  Lines' = M
<1>1. ByName'
    BY LinesAre
<1>2. ASSUME NEW x \in Stages PROVE Lines'[x] = M[x]
    <2>1. CASE x = <<"read", "">> \/ x = <<"look", "">>
        BY <1>1, <2>1 DEF ByName
    <2>2. ASSUME NEW b \in Blocks, x = <<"req", b>> \/ x = <<"job", b>> PROVE Lines'[x] = M[x]
        BY <1>1, <2>2 DEF ByName
    <2> QED BY <2>1, <2>2, StagesAre
<1> QED BY <1>1, <1>2 DEF ByName

LEMMA LinesTyped ==
    ASSUME AcceptorTypes, BlockTypes
    PROVE  Lines \in [Stages -> Seq(Slots)]
<1>1. /\ lookQ \in Seq(Packets) /\ read \in Seq(Reads) /\ bbReq \in [Blocks -> Seq(Packets)]
      /\ \A b \in Blocks : todo[b] # {} => job[b] \in Packets
    BY DEF AcceptorTypes, BlockTypes, Reads
<1>2. SlotsRead(read) \in Seq(Slots) /\ SlotsOf(lookQ) \in Seq(Slots)
    BY <1>1, SlotsOfQueue, SlotsOfReads
<1>3. \A b \in Blocks : SlotsOf(bbReq[b]) \in Seq(Slots)
    BY <1>1, SlotsOfQueue
<1>4. \A b \in Blocks : todo[b] # {} => <<Slot(job[b].inst)>> \in Seq(Slots)
    BY <1>1, SlotInRange
<1>5. ByName
    BY LinesAre
<1>6. ASSUME NEW x \in Stages PROVE Lines[x] \in Seq(Slots)
    <2>1. CASE x = <<"read", "">> \/ x = <<"look", "">>
        BY <1>2, <1>5, <2>1 DEF ByName
    <2>2. ASSUME NEW b \in Blocks, x = <<"req", b>> PROVE Lines[x] \in Seq(Slots)
        BY <1>3, <1>5, <2>2 DEF ByName
    <2>3. ASSUME NEW b \in Blocks, x = <<"job", b>> PROVE Lines[x] \in Seq(Slots)
        <3>1. Lines[x] = IF todo[b] = {} THEN <<>> ELSE <<Slot(job[b].inst)>>
            BY <1>5, <2>3 DEF ByName
        <3> QED BY <1>4, <3>1
    <2> QED BY <2>1, <2>2, <2>3, StagesAre
<1> QED BY <1>5, <1>6 DEF ByName

\* No slot of a line is one of which no packet is under way.
LEMMA NotOnLines ==
    ASSUME AcceptorTypes, NEW s \in Slots, Underway(s) = {}
    PROVE  \A y \in Stages : \A k \in DOMAIN Lines[y] : Lines[y][k] # s
<1> DEFINE queued == {x[1] : x \in ToSet(read)} \cup ToSet(lookQ)
                        \cup UNION {ToSet(bbReq[b]) : b \in Blocks}
           taken == {job[b] : b \in {b \in Blocks : todo[b] # {}}}
<1>1. \A p \in queued \cup taken : Slot(p.inst) # s
    BY DEF Underway
<1>2. ByName
    BY LinesAre
<1> SUFFICES ASSUME NEW y \in Stages, NEW k \in DOMAIN Lines[y] PROVE Lines[y][k] # s
    OBVIOUS
<1>3. CASE y = <<"read", "">>
    <2>1. k \in DOMAIN read /\ Lines[y][k] = Slot(read[k][1].inst)
        BY <1>2, <1>3 DEF ByName, SlotsRead
    <2>2. read[k] \in ToSet(read)
        BY <2>1 DEF ToSet
    <2>3. read[k][1] \in queued
        BY <2>2
    <2> HIDE DEF queued, taken
    <2> QED BY <1>1, <2>1, <2>3
<1>4. CASE y = <<"look", "">>
    <2>0. Lines[y] = SlotsOf(lookQ)
        BY <1>2, <1>4 DEF ByName
    <2>1. k \in DOMAIN lookQ /\ Lines[y][k] = Slot(lookQ[k].inst)
        BY <2>0 DEF SlotsOf
    <2>2. lookQ[k] \in queued
        BY <2>1 DEF ToSet
    <2> HIDE DEF queued, taken
    <2> QED BY <1>1, <2>1, <2>2
<1>5. ASSUME NEW b \in Blocks, y = <<"req", b>> PROVE Lines[y][k] # s
    <2>0. Lines[y] = SlotsOf(bbReq[b])
        BY <1>2, <1>5 DEF ByName
    <2>1. k \in DOMAIN bbReq[b] /\ Lines[y][k] = Slot(bbReq[b][k].inst)
        BY <2>0 DEF SlotsOf
    <2>2. bbReq[b][k] \in ToSet(bbReq[b])
        BY <2>1 DEF ToSet
    <2>3. bbReq[b][k] \in queued
        BY <2>2
    <2> HIDE DEF queued, taken
    <2> QED BY <1>1, <2>1, <2>3
<1>6. ASSUME NEW b \in Blocks, y = <<"job", b>> PROVE Lines[y][k] # s
    <2>1. Lines[y] = IF todo[b] = {} THEN <<>> ELSE <<Slot(job[b].inst)>>
        BY <1>2, <1>6 DEF ByName
    <2>2. todo[b] # {} /\ Lines[y][k] = Slot(job[b].inst)
        BY <2>1
    <2>3. job[b] \in taken
        BY <2>2
    <2> HIDE DEF queued, taken
    <2> QED BY <1>1, <2>2, <2>3
<1> QED BY <1>3, <1>4, <1>5, <1>6, StagesAre

\* The packets on the lines stay of slots of their own.
LEMMA ApartKept ==
    ASSUME AcceptorTypes, BlockTypes, Apart(Lines), AcceptorRules, ~torn'
    PROVE  Apart(Lines)'
<1>0. /\ roundQ \in Seq(Packets) /\ lookQ \in Seq(Packets) /\ read \in Seq(Reads)
      /\ bbReq \in [Blocks -> Seq(Packets)]
      /\ round \in [Slots -> Rounds \cup {0}]
      /\ todo \in [Blocks -> SUBSET {"round", "vround", "value", "datapath"}]
      /\ job \in [Blocks -> Packets \cup {NoPacket}]
    BY DEF AcceptorTypes, Reads
<1>1. Lines \in [Stages -> Seq(Slots)]
    BY LinesTyped
<1>2. ByName
    BY LinesAre
<1>3. CASE bb_round
    <2> DEFINE p == Head(roundQ)
               M == [Lines EXCEPT ![<<"read", "">>] = Append(Lines[<<"read", "">>], Slot(p.inst))]
    <2>1. /\ roundQ # <<>> /\ read' = Append(read, <<p, round[Slot(p.inst)]>>)
          /\ torn' = (torn \/ Hurried(p)) /\ UNCHANGED <<lookQ, bbReq, job, todo>>
        BY <1>3 DEF bb_round
    <2>2. p \in Packets /\ Slot(p.inst) \in Slots
        BY <1>0, <2>1, TakeOff, SlotInRange
    <2>3. <<p, round[Slot(p.inst)]>> \in Reads
        BY <1>0, <2>2 DEF Reads
    <2> HIDE DEF p
    <2>4. \A y \in Stages : \A k \in DOMAIN Lines[y] : Lines[y][k] # Slot(p.inst)
        BY <2>1, <2>2, NotOnLines DEF Hurried
    <2>5. Apart(M) /\ M \in [Stages -> Seq(Slots)]
        BY <1>1, <2>2, <2>4, Entered, StagesAre
    <2>6. SlotsRead(read') = Append(SlotsRead(read), Slot(p.inst))
        BY <1>0, <2>1, <2>3, SlotsOfReads
    <2>7. /\ M[<<"read", "">>] = SlotsRead(read') /\ M[<<"look", "">>] = SlotsOf(lookQ')
          /\ \A b \in Blocks :
                /\ M[<<"req", b>>] = SlotsOf(bbReq'[b])
                /\ M[<<"job", b>>] = IF todo'[b] = {} THEN <<>> ELSE <<Slot(job'[b].inst)>>
        BY <1>1, <1>2, <2>1, <2>6, StagesAre DEF ByName
    <2> HIDE DEF M
    <2>8. Lines' = M
        BY <2>5, <2>7, LinesNext
    <2> QED BY <2>5, <2>8
<1>4. CASE round_tbl_next_control_state
    <2> DEFINE p == Head(read)[1]
               R == <<"read", "">>
               K == <<"look", "">>
               M == [Lines EXCEPT ![R] = Tail(Lines[R])]
               N == [Lines EXCEPT ![R] = Tail(Lines[R]), ![K] = Append(Lines[K], Head(Lines[R]))]
    <2>1. /\ read # <<>> /\ read' = Tail(read) /\ UNCHANGED <<bbReq, job, todo>>
          /\ lookQ' = lookQ \/ lookQ' = Append(lookQ, p)
        BY <1>4 DEF round_tbl_next_control_state
    <2>2. p \in Packets
        BY <1>0, <2>1, TakeOff DEF Reads
    <2>3. /\ SlotsRead(read') = Tail(SlotsRead(read)) /\ SlotsRead(read) # <<>>
          /\ Head(SlotsRead(read)) = Slot(p.inst)
        BY <1>0, <2>1, SlotsOfReads
    <2> HIDE DEF p
    <2>4. R \in Stages /\ K \in Stages /\ R # K /\ Lines[R] # <<>> /\ Head(Lines[R]) = Slot(p.inst)
        BY <1>2, <2>3, StagesAre DEF ByName
    <2>5. CASE lookQ' = lookQ
        <3>1. Apart(M) /\ M \in [Stages -> Seq(Slots)]
            BY <1>1, <2>4, WentOff
        <3>2. /\ M[<<"read", "">>] = SlotsRead(read') /\ M[<<"look", "">>] = SlotsOf(lookQ')
              /\ \A b \in Blocks :
                    /\ M[<<"req", b>>] = SlotsOf(bbReq'[b])
                    /\ M[<<"job", b>>] = IF todo'[b] = {} THEN <<>> ELSE <<Slot(job'[b].inst)>>
            BY <1>1, <1>2, <2>1, <2>3, <2>5, StagesAre DEF ByName
        <3> HIDE DEF M
        <3> QED BY <3>1, <3>2, LinesNext
    <2>6. CASE lookQ' = Append(lookQ, p)
        <3>1. Apart(N) /\ N \in [Stages -> Seq(Slots)]
            BY <1>1, <2>4, MovedOn
        <3>2. SlotsOf(lookQ') = Append(SlotsOf(lookQ), Slot(p.inst))
            BY <1>0, <2>2, <2>6, SlotsOfQueue
        <3>3. /\ N[<<"read", "">>] = SlotsRead(read') /\ N[<<"look", "">>] = SlotsOf(lookQ')
              /\ \A b \in Blocks :
                    /\ N[<<"req", b>>] = SlotsOf(bbReq'[b])
                    /\ N[<<"job", b>>] = IF todo'[b] = {} THEN <<>> ELSE <<Slot(job'[b].inst)>>
            BY <1>1, <1>2, <2>1, <2>3, <2>4, <3>2, StagesAre DEF ByName
        <3> HIDE DEF N
        <3> QED BY <3>1, <3>3, LinesNext
    <2> QED BY <2>1, <2>5, <2>6
<1>5. CASE lookup_response
    <2> DEFINE p == Head(lookQ)
               K == <<"look", "">>
               Q == <<"req", p.type>>
               M == [Lines EXCEPT ![K] = Tail(Lines[K])]
               N == [Lines EXCEPT ![K] = Tail(Lines[K]), ![Q] = Append(Lines[Q], Head(Lines[K]))]
    <2>1. /\ lookQ # <<>> /\ lookQ' = Tail(lookQ) /\ UNCHANGED <<read, job, todo>>
          /\ \/ bbReq' = bbReq
             \/ p.type \in Blocks /\ bbReq' = [bbReq EXCEPT ![p.type] = Append(bbReq[p.type], p)]
        BY <1>5 DEF lookup_response
    <2>2. p \in Packets
        BY <1>0, <2>1, TakeOff
    <2>3. /\ SlotsOf(lookQ') = Tail(SlotsOf(lookQ)) /\ SlotsOf(lookQ) # <<>>
          /\ Head(SlotsOf(lookQ)) = Slot(p.inst)
        BY <1>0, <2>1, SlotsOfQueue
    <2> HIDE DEF p
    <2>4. K \in Stages /\ Lines[K] # <<>> /\ Head(Lines[K]) = Slot(p.inst)
        BY <1>2, <2>3, StagesAre DEF ByName
    <2>5. CASE bbReq' = bbReq
        <3>1. Apart(M) /\ M \in [Stages -> Seq(Slots)]
            BY <1>1, <2>4, WentOff
        <3>2. /\ M[<<"read", "">>] = SlotsRead(read') /\ M[<<"look", "">>] = SlotsOf(lookQ')
              /\ \A b \in Blocks :
                    /\ M[<<"req", b>>] = SlotsOf(bbReq'[b])
                    /\ M[<<"job", b>>] = IF todo'[b] = {} THEN <<>> ELSE <<Slot(job'[b].inst)>>
            BY <1>1, <1>2, <2>1, <2>3, <2>5, StagesAre DEF ByName
        <3> HIDE DEF M
        <3> QED BY <3>1, <3>2, LinesNext
    <2>6. CASE p.type \in Blocks /\ bbReq' = [bbReq EXCEPT ![p.type] = Append(bbReq[p.type], p)]
        <3>0. Q \in Stages /\ Q # K
            BY <2>6, StagesAre
        <3>1. Apart(N) /\ N \in [Stages -> Seq(Slots)]
            BY <1>1, <2>4, <3>0, MovedOn
        <3>2. /\ SlotsOf(bbReq'[p.type]) = Append(SlotsOf(bbReq[p.type]), Slot(p.inst))
              /\ \A b \in Blocks : b # p.type => bbReq'[b] = bbReq[b]
            BY <1>0, <2>2, <2>6, SlotsOfQueue
        <3>3. N[<<"read", "">>] = SlotsRead(read') /\ N[<<"look", "">>] = SlotsOf(lookQ')
            BY <1>1, <1>2, <2>1, <2>3, <2>4, <3>0, StagesAre DEF ByName
        <3>4. ASSUME NEW b \in Blocks
              PROVE  /\ N[<<"req", b>>] = SlotsOf(bbReq'[b])
                     /\ N[<<"job", b>>] = IF todo'[b] = {} THEN <<>> ELSE <<Slot(job'[b].inst)>>
            <4>1. N[<<"job", b>>] = Lines[<<"job", b>>]
                BY <1>1, StagesAre
            <4>2. CASE b = p.type
                <5>1. N[<<"req", b>>] = Append(Lines[Q], Head(Lines[K]))
                    BY <1>1, <3>0, <4>2
                <5>2. Lines[Q] = SlotsOf(bbReq[p.type])
                    BY <1>2, <2>6 DEF ByName
                <5> HIDE DEF N, Q
                <5> QED BY <1>2, <2>1, <2>4, <3>2, <4>1, <4>2, <5>1, <5>2 DEF ByName
            <4>3. CASE b # p.type
                <5>1. N[<<"req", b>>] = Lines[<<"req", b>>]
                    BY <1>1, <4>3, StagesAre
                <5> HIDE DEF N, Q
                <5> QED BY <1>2, <2>1, <3>2, <4>1, <4>3, <5>1 DEF ByName
            <4> QED BY <4>2, <4>3
        <3> HIDE DEF N
        <3> QED BY <3>1, <3>3, <3>4, LinesNext
    <2> QED BY <2>1, <2>5, <2>6
<1>6. ASSUME NEW b \in Blocks, bb_handle(b) PROVE Apart(Lines)'
    <2> DEFINE Q == <<"req", b>>
               J == <<"job", b>>
               N == [Lines EXCEPT ![Q] = Tail(Lines[Q]), ![J] = Append(Lines[J], Head(Lines[Q]))]
    <2>1. /\ bbReq[b] # <<>> /\ todo[b] = {} /\ job' = [job EXCEPT ![b] = Head(bbReq[b])]
          /\ todo' = [todo EXCEPT ![b] = {"round", "vround", "value", "datapath"}]
          /\ bbReq' = [bbReq EXCEPT ![b] = Tail(bbReq[b])] /\ UNCHANGED <<read, lookQ>>
        BY <1>6 DEF bb_handle
    <2>2. /\ bbReq'[b] = Tail(bbReq[b]) /\ job'[b] = Head(bbReq[b]) /\ todo'[b] # {}
          /\ \A c \in Blocks : c # b => bbReq'[c] = bbReq[c] /\ job'[c] = job[c] /\ todo'[c] = todo[c]
        BY <1>0, <2>1
    <2>3. /\ SlotsOf(bbReq'[b]) = Tail(SlotsOf(bbReq[b])) /\ SlotsOf(bbReq[b]) # <<>>
          /\ Head(SlotsOf(bbReq[b])) = Slot(job'[b].inst)
        BY <1>0, <2>1, <2>2, SlotsOfQueue
    <2>4. /\ Q \in Stages /\ J \in Stages /\ Q # J
          /\ Lines[Q] # <<>> /\ Head(Lines[Q]) = Slot(job'[b].inst) /\ Lines[J] = <<>>
        BY <1>2, <2>1, <2>3, StagesAre DEF ByName
    <2>5. Apart(N) /\ N \in [Stages -> Seq(Slots)]
        BY <1>1, <2>4, MovedOn
    <2>6. N[<<"read", "">>] = SlotsRead(read') /\ N[<<"look", "">>] = SlotsOf(lookQ')
        BY <1>1, <1>2, <2>1, StagesAre DEF ByName
    <2>7. N[Q] = SlotsOf(bbReq'[b]) /\ N[J] = IF todo'[b] = {} THEN <<>> ELSE <<Slot(job'[b].inst)>>
        <3>1. N[Q] = Tail(Lines[Q]) /\ N[J] = Append(<<>>, Head(Lines[Q]))
            BY <1>1, <2>4
        <3>2. N[J] = <<Slot(job'[b].inst)>>
            <4> HIDE DEF N, J, Q
            <4>1. N[J] = Append(<<>>, Slot(job'[b].inst))
                BY <2>4, <3>1
            <4> QED BY <4>1
        <3>3. Tail(Lines[Q]) = SlotsOf(bbReq'[b])
            BY <1>2, <2>3 DEF ByName
        <3> HIDE DEF N
        <3> QED BY <2>2, <3>1, <3>2, <3>3
    <2>8. ASSUME NEW c \in Blocks, c # b
          PROVE  /\ N[<<"req", c>>] = SlotsOf(bbReq'[c])
                 /\ N[<<"job", c>>] = IF todo'[c] = {} THEN <<>> ELSE <<Slot(job'[c].inst)>>
        <3>1. N[<<"req", c>>] = Lines[<<"req", c>>] /\ N[<<"job", c>>] = Lines[<<"job", c>>]
            BY <1>1, <2>8, StagesAre
        <3> HIDE DEF N
        <3> QED BY <1>2, <2>2, <2>8, <3>1 DEF ByName
    <2> HIDE DEF N
    <2>9. Lines' = N
        BY <2>5, <2>6, <2>7, <2>8, LinesNext
    <2> QED BY <2>5, <2>9
<1>7. ASSUME NEW b \in Blocks, NEW r \in {"round", "vround", "value", "datapath"}, loadRequest(b, r)
      PROVE  Apart(Lines)'
    <2> DEFINE J == <<"job", b>>
               M == [Lines EXCEPT ![J] = Tail(Lines[J])]
    <2>1. /\ r \in todo[b] /\ todo' = [todo EXCEPT ![b] = todo[b] \ {r}]
          /\ UNCHANGED <<read, lookQ, bbReq, job>>
        BY <1>7 DEF loadRequest
    <2>2. /\ todo'[b] = todo[b] \ {r} /\ todo[b] # {}
          /\ \A c \in Blocks : c # b => todo'[c] = todo[c]
        BY <1>0, <2>1
    <2>3. Lines[J] = <<Slot(job[b].inst)>> /\ Lines[J] # <<>> /\ J \in Stages
        <3>1. Lines[J] = <<Slot(job[b].inst)>>
            BY <1>2, <2>2 DEF ByName
        <3>2. J \in Stages
            BY StagesAre
        <3> HIDE DEF J
        <3> QED BY <3>1, <3>2
    <2>4. CASE todo'[b] = {}
        <3>1. Apart(M) /\ M \in [Stages -> Seq(Slots)]
            BY <1>1, <2>3, WentOff
        <3>2. /\ M[<<"read", "">>] = Lines[<<"read", "">>] /\ M[<<"look", "">>] = Lines[<<"look", "">>]
              /\ M[J] = <<>> /\ \A c \in Blocks : M[<<"req", c>>] = Lines[<<"req", c>>]
              /\ \A c \in Blocks : c # b => M[<<"job", c>>] = Lines[<<"job", c>>]
            <4>1. M[J] = Tail(Lines[J])
                BY <1>1, <2>3
            <4>2. Tail(Lines[J]) = <<>>
                <5> HIDE DEF J
                <5> QED BY <2>3
            <4>3. \A x \in Stages : x # J => M[x] = Lines[x]
                BY <1>1
            <4>4. <<"read", "">> # J /\ <<"look", "">> # J /\ \A c \in Blocks : <<"req", c>> # J
                OBVIOUS
            <4>5. \A c \in Blocks : c # b => <<"job", c>> # J
                OBVIOUS
            <4> HIDE DEF M, J
            <4> QED BY <4>1, <4>2, <4>3, <4>4, <4>5, StagesAre
        <3> HIDE DEF M
        <3>3. /\ M[<<"read", "">>] = SlotsRead(read') /\ M[<<"look", "">>] = SlotsOf(lookQ')
              /\ \A c \in Blocks :
                    /\ M[<<"req", c>>] = SlotsOf(bbReq'[c])
                    /\ M[<<"job", c>>] = IF todo'[c] = {} THEN <<>> ELSE <<Slot(job'[c].inst)>>
            BY <1>2, <2>1, <2>2, <2>4, <3>2 DEF ByName
        <3> QED BY <3>1, <3>3, LinesNext
    <2>5. CASE todo'[b] # {}
        <3>1. /\ Lines[<<"read", "">>] = SlotsRead(read') /\ Lines[<<"look", "">>] = SlotsOf(lookQ')
              /\ \A c \in Blocks :
                    /\ Lines[<<"req", c>>] = SlotsOf(bbReq'[c])
                    /\ Lines[<<"job", c>>] = IF todo'[c] = {} THEN <<>> ELSE <<Slot(job'[c].inst)>>
            BY <1>2, <2>1, <2>2, <2>5 DEF ByName
        <3>2. Lines' = Lines
            BY <1>1, <3>1, LinesNext
        <3> QED BY <3>2
    <2> QED BY <2>4, <2>5
<1>8. ASSUME UNCHANGED <<read, lookQ, bbReq, job, todo>> PROVE Apart(Lines)'
    <2>1. Lines' = Lines
        BY <1>8 DEF Lines, Line
    <2> QED BY <2>1
<1>9. ASSUME NEW b \in Blocks, reg_resp(b) PROVE Apart(Lines)'
    BY <1>8, <1>9 DEF reg_resp
<1>10. CASE bb_handle_resp
    BY <1>8, <1>10 DEF bb_handle_resp
<1>11. CASE transmit
    BY <1>8, <1>11 DEF transmit
<1> QED BY <1>3, <1>4, <1>5, <1>6, <1>7, <1>9, <1>10, <1>11 DEF AcceptorRules

\* The slot of a block's job is of no other packet under way.
LEMMA JobAlone ==
    ASSUME AcceptorTypes, BlockTypes, Apart(Lines), NEW b \in Blocks, todo[b] # {}
    PROVE  /\ \A k \in DOMAIN read : Slot(read[k][1].inst) # Slot(job[b].inst)
           /\ \A k \in DOMAIN lookQ : Slot(lookQ[k].inst) # Slot(job[b].inst)
           /\ \A c \in Blocks : \A k \in DOMAIN bbReq[c] : Slot(bbReq[c][k].inst) # Slot(job[b].inst)
           /\ \A c \in Blocks : c # b /\ todo[c] # {} => Slot(job[c].inst) # Slot(job[b].inst)
<1> DEFINE J == <<"job", b>>
           s == Slot(job[b].inst)
<1>1. ByName /\ J \in Stages
    BY LinesAre, StagesAre
<1>2. Lines[J] = <<s>>
    BY <1>1 DEF ByName
<1>3. 1 \in DOMAIN Lines[J] /\ Lines[J][1] = s
    <2> HIDE DEF J, s
    <2> QED BY <1>2
<1> HIDE DEF s
<1>4. ASSUME NEW y \in Stages, y # J, NEW k \in DOMAIN Lines[y] PROVE Lines[y][k] # s
    <2>1. Lines[y][k] = Lines[J][1] => y = J
        <3> HIDE DEF J
        <3> QED BY <1>1, <1>3 DEF Apart
    <2> QED BY <1>3, <1>4, <2>1
<1>5. ASSUME NEW k \in DOMAIN read PROVE Slot(read[k][1].inst) # s
    <2>1. <<"read", "">> \in Stages /\ <<"read", "">> # J
        BY StagesAre
    <2>2. k \in DOMAIN Lines[<<"read", "">>] /\ Lines[<<"read", "">>][k] = Slot(read[k][1].inst)
        BY <1>1 DEF ByName, SlotsRead
    <2> QED BY <1>4, <2>1, <2>2
<1>6. ASSUME NEW k \in DOMAIN lookQ PROVE Slot(lookQ[k].inst) # s
    <2>1. <<"look", "">> \in Stages /\ <<"look", "">> # J
        BY StagesAre
    <2>2. k \in DOMAIN Lines[<<"look", "">>] /\ Lines[<<"look", "">>][k] = Slot(lookQ[k].inst)
        BY <1>1 DEF ByName, SlotsOf
    <2> QED BY <1>4, <2>1, <2>2
<1>7. ASSUME NEW c \in Blocks, NEW k \in DOMAIN bbReq[c] PROVE Slot(bbReq[c][k].inst) # s
    <2>1. <<"req", c>> \in Stages /\ <<"req", c>> # J
        BY StagesAre
    <2>2. k \in DOMAIN Lines[<<"req", c>>] /\ Lines[<<"req", c>>][k] = Slot(bbReq[c][k].inst)
        <3>1. Lines[<<"req", c>>] = SlotsOf(bbReq[c])
            BY <1>1 DEF ByName
        <3> QED BY <3>1 DEF SlotsOf
    <2> QED BY <1>4, <2>1, <2>2
<1>8. ASSUME NEW c \in Blocks, c # b, todo[c] # {} PROVE Slot(job[c].inst) # s
    <2>1. <<"job", c>> \in Stages /\ <<"job", c>> # J
        BY <1>8, StagesAre
    <2>2. Lines[<<"job", c>>] = <<Slot(job[c].inst)>>
        BY <1>1, <1>8 DEF ByName
    <2>3. 1 \in DOMAIN Lines[<<"job", c>>] /\ Lines[<<"job", c>>][1] = Slot(job[c].inst)
        BY <2>2
    <2> QED BY <1>4, <2>1, <2>3
<1> QED BY <1>5, <1>6, <1>7, <1>8 DEF s

\* The slot of the packet to be looked up is not one that blocks will write.
LEMMA LookedUpAlone ==
    ASSUME AcceptorTypes, BlockTypes, Apart(Lines), lookQ # <<>>
    PROVE  /\ \A c \in Blocks : \A k \in DOMAIN bbReq[c] : Slot(bbReq[c][k].inst) # Slot(Head(lookQ).inst)
           /\ \A c \in Blocks : todo[c] # {} => Slot(job[c].inst) # Slot(Head(lookQ).inst)
<1> DEFINE K == <<"look", "">>
           s == Slot(Head(lookQ).inst)
<1>1. ByName /\ K \in Stages
    BY LinesAre, StagesAre
<1>2. lookQ \in Seq(Packets)
    BY DEF AcceptorTypes
<1>3. 1 \in DOMAIN lookQ /\ Head(lookQ) = lookQ[1]
    BY <1>2, TakeOff
<1>4. 1 \in DOMAIN Lines[K] /\ Lines[K][1] = s
    BY <1>1, <1>3 DEF ByName, SlotsOf
<1> HIDE DEF s
<1>5. ASSUME NEW y \in Stages, y # K, NEW k \in DOMAIN Lines[y] PROVE Lines[y][k] # s
    <2>1. Lines[y][k] = Lines[K][1] => y = K
        <3> HIDE DEF K
        <3> QED BY <1>1, <1>4 DEF Apart
    <2> QED BY <1>4, <1>5, <2>1
<1>6. ASSUME NEW c \in Blocks, NEW k \in DOMAIN bbReq[c] PROVE Slot(bbReq[c][k].inst) # s
    <2>1. <<"req", c>> \in Stages /\ <<"req", c>> # K
        BY StagesAre
    <2>2. k \in DOMAIN Lines[<<"req", c>>] /\ Lines[<<"req", c>>][k] = Slot(bbReq[c][k].inst)
        <3>1. Lines[<<"req", c>>] = SlotsOf(bbReq[c])
            BY <1>1 DEF ByName
        <3> QED BY <3>1 DEF SlotsOf
    <2> QED BY <1>5, <2>1, <2>2
<1>7. ASSUME NEW c \in Blocks, todo[c] # {} PROVE Slot(job[c].inst) # s
    <2>1. <<"job", c>> \in Stages /\ <<"job", c>> # K
        BY StagesAre
    <2>2. Lines[<<"job", c>>] = <<Slot(job[c].inst)>>
        BY <1>1, <1>7 DEF ByName
    <2>3. 1 \in DOMAIN Lines[<<"job", c>>] /\ Lines[<<"job", c>>][1] = Slot(job[c].inst)
        BY <2>2
    <2> QED BY <1>5, <2>1, <2>3
<1> QED BY <1>6, <1>7 DEF s

\* What was read of a round stays true of the register.
LEMMA RoundsKept ==
    ASSUME AcceptorTypes, BlockTypes, Apart(Lines), RoundsSeen, AcceptorRules
    PROVE  RoundsSeen'
<1>0. /\ roundQ \in Seq(Packets) /\ lookQ \in Seq(Packets) /\ read \in Seq(Reads)
      /\ round \in [Slots -> Rounds \cup {0}]
    BY DEF AcceptorTypes, Reads
<1>1. /\ \A k \in DOMAIN read : read[k] \in Reads /\ Slot(read[k][1].inst) \in Slots
      /\ \A k \in DOMAIN lookQ : Slot(lookQ[k].inst) \in Slots
    <2>1. \A k \in DOMAIN read : read[k] \in Reads
        BY <1>0, LenProperties, ElementOfSeq
    <2>2. \A k \in DOMAIN read : read[k][1] \in Packets
        BY <2>1 DEF Reads
    <2>3. \A k \in DOMAIN lookQ : lookQ[k] \in Packets
        BY <1>0, LenProperties, ElementOfSeq
    <2> QED BY <2>1, <2>2, <2>3, SlotInRange
<1>2. CASE bb_round
    <2> DEFINE p == Head(roundQ)
               v == <<p, round[Slot(p.inst)]>>
    <2>1. roundQ # <<>> /\ read' = Append(read, v) /\ UNCHANGED <<lookQ, round>>
        BY <1>2 DEF bb_round
    <2>2. v \in Reads /\ v[2] = round[Slot(v[1].inst)]
        <3>1. p \in Packets /\ Slot(p.inst) \in Slots
            BY <1>0, <2>1, TakeOff, SlotInRange
        <3> HIDE DEF p
        <3> QED BY <1>0, <3>1 DEF Reads
    <2> HIDE DEF v
    <2>3. \A k \in DOMAIN read' : read'[k] = v \/ (k \in DOMAIN read /\ read'[k] = read[k])
        BY <1>0, <2>1, <2>2, PutOn
    <2> QED BY <2>1, <2>2, <2>3 DEF RoundsSeen
<1>3. CASE round_tbl_next_control_state
    <2> DEFINE p == Head(read)[1]
    <2>1. /\ read # <<>> /\ read' = Tail(read) /\ UNCHANGED round
          /\ lookQ' = lookQ \/ (lookQ' = Append(lookQ, p) /\ Head(read)[2] <= p.rnd)
        BY <1>3 DEF round_tbl_next_control_state, Passes
    <2>2. /\ Head(read) = read[1] /\ 1 \in DOMAIN read /\ p \in Packets
          /\ \A k \in DOMAIN Tail(read) : k + 1 \in DOMAIN read /\ Tail(read)[k] = read[k + 1]
        BY <1>0, <2>1, TakeOff DEF Reads
    <2>3. Head(read)[2] = round[Slot(p.inst)]
        BY <2>2 DEF RoundsSeen
    <2> HIDE DEF p
    <2>4. \A k \in DOMAIN read' : read'[k][2] = round[Slot(read'[k][1].inst)]
        BY <2>1, <2>2 DEF RoundsSeen
    <2>5. CASE lookQ' = lookQ
        BY <2>1, <2>4, <2>5 DEF RoundsSeen
    <2>6. CASE lookQ' = Append(lookQ, p) /\ Head(read)[2] <= p.rnd
        <3>1. \A k \in DOMAIN lookQ' : lookQ'[k] = p \/ (k \in DOMAIN lookQ /\ lookQ'[k] = lookQ[k])
            BY <1>0, <2>2, <2>6, PutOn
        <3>2. \A k \in DOMAIN lookQ' : round[Slot(lookQ'[k].inst)] <= lookQ'[k].rnd
            BY <2>3, <2>6, <3>1 DEF RoundsSeen
        <3> QED BY <2>1, <2>4, <3>2 DEF RoundsSeen
    <2> QED BY <2>1, <2>5, <2>6
<1>4. CASE lookup_response
    <2>1. lookQ # <<>> /\ lookQ' = Tail(lookQ) /\ UNCHANGED <<read, round>>
        BY <1>4 DEF lookup_response
    <2>2. \A k \in DOMAIN lookQ' : k + 1 \in DOMAIN lookQ /\ lookQ'[k] = lookQ[k + 1]
        BY <1>0, <2>1, TakeOff
    <2> QED BY <2>1, <2>2 DEF RoundsSeen
<1>5. ASSUME NEW b \in Blocks, NEW r \in {"round", "vround", "value", "datapath"}, loadRequest(b, r)
      PROVE  RoundsSeen'
    <2>1. /\ r \in todo[b] /\ UNCHANGED <<read, lookQ>>
          /\ round' = IF r = "round" THEN [round EXCEPT ![Slot(job[b].inst)] = job[b].rnd] ELSE round
        BY <1>5 DEF loadRequest
    <2>2. todo[b] # {}
        BY <2>1
    <2>3. /\ \A k \in DOMAIN read : Slot(read[k][1].inst) # Slot(job[b].inst)
          /\ \A k \in DOMAIN lookQ : Slot(lookQ[k].inst) # Slot(job[b].inst)
        BY <2>2, JobAlone
    <2>4. \A s \in Slots : s # Slot(job[b].inst) => round'[s] = round[s]
        BY <1>0, <2>1
    <2> QED BY <1>1, <2>1, <2>3, <2>4 DEF RoundsSeen
<1>6. ASSUME UNCHANGED <<read, lookQ, round>> PROVE RoundsSeen'
    BY <1>6 DEF RoundsSeen
<1>7. ASSUME NEW b \in Blocks, bb_handle(b) \/ reg_resp(b) PROVE RoundsSeen'
    BY <1>6, <1>7 DEF bb_handle, reg_resp
<1>8. CASE bb_handle_resp \/ transmit
    BY <1>6, <1>8 DEF bb_handle_resp, transmit
<1> QED BY <1>2, <1>3, <1>4, <1>5, <1>7, <1>8 DEF AcceptorRules

\* An answer is made of a packet and of what was read.
LEMMA AnswerTyped ==
    ASSUME NEW b \in Blocks, NEW p \in Packets, NEW g \in Gots
    PROVE  Answer(b, p, g) \in Answers
<1>1. p.inst \in Insts /\ p.rnd \in Rounds /\ p.val \in Values
    BY DEF Packets
<1>2. g.vround \in Rounds \cup {0} /\ g.value \in Values
    BY DEF Gots
<1> QED BY <1>1, <1>2 DEF Answer, Answers

\* Each block keeps to messages of its own.
LEMMA BlockTypesKept ==
    ASSUME AcceptorTypes, BlockTypes, AcceptorRules
    PROVE  BlockTypes'
<1>0. /\ lookQ \in Seq(Packets) /\ metas \in Seq(Packets) /\ bbReq \in [Blocks -> Seq(Packets)]
      /\ job \in [Blocks -> Packets \cup {NoPacket}]
      /\ todo \in [Blocks -> SUBSET {"round", "vround", "value", "datapath"}]
      /\ waiting \in [Blocks -> BOOLEAN]
      /\ vround \in [Slots -> Rounds \cup {0}] /\ value \in [Slots -> Values]
      /\ got \in [Blocks -> Gots] /\ bbResp \in [Blocks -> Seq(Gots)] /\ out \in Seq(Answers)
    BY DEF AcceptorTypes, BlockTypes
<1>1. ASSUME UNCHANGED <<got, bbResp, out, bbReq, job, todo, waiting>> PROVE BlockTypes'
    BY <1>1 DEF BlockTypes
<1>2. CASE bb_round \/ round_tbl_next_control_state
    BY <1>1, <1>2 DEF bb_round, round_tbl_next_control_state
<1>3. CASE lookup_response
    <2> DEFINE p == Head(lookQ)
    <2>1. /\ lookQ # <<>> /\ UNCHANGED <<got, bbResp, out, job, todo, waiting>>
          /\ \/ bbReq' = bbReq
             \/ p.type \in Blocks /\ bbReq' = [bbReq EXCEPT ![p.type] = Append(bbReq[p.type], p)]
        BY <1>3 DEF lookup_response
    <2>2. p \in Packets
        BY <1>0, <2>1, TakeOff
    <2> HIDE DEF p
    <2>3. CASE bbReq' = bbReq
        BY <1>1, <2>1, <2>3
    <2>4. CASE p.type \in Blocks /\ bbReq' = [bbReq EXCEPT ![p.type] = Append(bbReq[p.type], p)]
        <3>1. ASSUME NEW b \in Blocks PROVE \A k \in DOMAIN bbReq'[b] : bbReq'[b][k].type = b
            <4>1. CASE b = p.type
                <5>1. bbReq'[b] = Append(bbReq[b], p)
                    BY <1>0, <2>4, <4>1
                <5>2. \A k \in DOMAIN bbReq'[b] :
                            bbReq'[b][k] = p \/ (k \in DOMAIN bbReq[b] /\ bbReq'[b][k] = bbReq[b][k])
                    BY <1>0, <2>2, <5>1, PutOn
                <5>3. \A k \in DOMAIN bbReq[b] : bbReq[b][k].type = b
                    BY DEF BlockTypes
                <5>4. ASSUME NEW k \in DOMAIN bbReq'[b] PROVE bbReq'[b][k].type = b
                    <6>1. CASE bbReq'[b][k] = p
                        BY <4>1, <6>1
                    <6>2. CASE k \in DOMAIN bbReq[b] /\ bbReq'[b][k] = bbReq[b][k]
                        BY <5>3, <6>2
                    <6> QED BY <5>2, <6>1, <6>2
                <5> QED BY <5>4
            <4>2. CASE b # p.type
                <5>1. bbReq'[b] = bbReq[b]
                    BY <1>0, <2>4, <4>2
                <5> QED BY <5>1 DEF BlockTypes
            <4> QED BY <4>1, <4>2
        <3> QED BY <2>1, <3>1 DEF BlockTypes
    <2> QED BY <2>1, <2>3, <2>4
<1>4. ASSUME NEW b \in Blocks, bb_handle(b) PROVE BlockTypes'
    <2>1. /\ bbReq[b] # <<>> /\ job' = [job EXCEPT ![b] = Head(bbReq[b])]
          /\ todo' = [todo EXCEPT ![b] = {"round", "vround", "value", "datapath"}]
          /\ waiting' = [waiting EXCEPT ![b] = TRUE]
          /\ bbReq' = [bbReq EXCEPT ![b] = Tail(bbReq[b])] /\ UNCHANGED <<got, bbResp, out>>
        BY <1>4 DEF bb_handle
    <2>2. /\ Head(bbReq[b]) \in Packets /\ Head(bbReq[b]) = bbReq[b][1] /\ 1 \in DOMAIN bbReq[b]
          /\ \A k \in DOMAIN Tail(bbReq[b]) : k + 1 \in DOMAIN bbReq[b] /\ Tail(bbReq[b])[k] = bbReq[b][k + 1]
        BY <1>0, <2>1, TakeOff
    <2>3. Head(bbReq[b]).type = b /\ \A k \in DOMAIN Tail(bbReq[b]) : Tail(bbReq[b])[k].type = b
        BY <2>2 DEF BlockTypes
    <2>4. ASSUME NEW c \in Blocks
          PROVE  /\ \A k \in DOMAIN bbReq'[c] : bbReq'[c][k].type = c
                 /\ todo'[c] # {} \/ waiting'[c] => job'[c] \in Packets /\ job'[c].type = c
        <3>1. CASE c = b
            BY <1>0, <2>1, <2>2, <2>3, <3>1
        <3>2. CASE c # b
            <4>1. bbReq'[c] = bbReq[c] /\ todo'[c] = todo[c] /\ waiting'[c] = waiting[c] /\ job'[c] = job[c]
                BY <1>0, <2>1, <3>2
            <4> QED BY <4>1 DEF BlockTypes
        <3> QED BY <3>1, <3>2
    <2> QED BY <2>1, <2>4 DEF BlockTypes
<1>5. ASSUME NEW b \in Blocks, NEW r \in {"round", "vround", "value", "datapath"}, loadRequest(b, r)
      PROVE  BlockTypes'
    <2> DEFINE s == Slot(job[b].inst)
    <2>1. /\ r \in todo[b] /\ todo' = [todo EXCEPT ![b] = todo[b] \ {r}]
          /\ \/ got' = got
             \/ got' = [got EXCEPT ![b] = [got[b] EXCEPT !.vround = vround[s]]]
             \/ got' = [got EXCEPT ![b] = [got[b] EXCEPT !.value = value[s]]]
          /\ UNCHANGED <<bbReq, job, waiting, bbResp, out>>
        BY <1>0, <1>5 DEF loadRequest
    <2>2. s \in Slots
        BY <2>1, SlotInRange DEF BlockTypes
    <2> HIDE DEF s
    <2>3. vround[s] \in Rounds \cup {0} /\ value[s] \in Values
        BY <1>0, <2>2
    <2>4. [got[b] EXCEPT !.vround = vround[s]] \in Gots /\ [got[b] EXCEPT !.value = value[s]] \in Gots
        BY <1>0, <2>3 DEF Gots
    <2>5. got' \in [Blocks -> Gots]
        BY <1>0, <2>1, <2>4
    <2>6. \A c \in Blocks : todo'[c] # {} => todo[c] # {}
        BY <1>0, <2>1
    <2> QED BY <1>0, <2>1, <2>5, <2>6 DEF BlockTypes
<1>6. ASSUME NEW b \in Blocks, reg_resp(b) PROVE BlockTypes'
    <2>1. /\ bbResp' = [bbResp EXCEPT ![b] = Append(bbResp[b], got[b])]
          /\ waiting' = [waiting EXCEPT ![b] = FALSE] /\ got' = [got EXCEPT ![b] = NothingRead]
          /\ UNCHANGED <<bbReq, job, todo, out>>
        BY <1>6 DEF reg_resp
    <2>2. NothingRead \in Gots
        BY PaxosAssumption DEF NothingRead, Gots, Values
    <2>3. Append(bbResp[b], got[b]) \in Seq(Gots)
        BY <1>0, PutOn
    <2>4. got' \in [Blocks -> Gots] /\ bbResp' \in [Blocks -> Seq(Gots)]
        BY <1>0, <2>1, <2>2, <2>3
    <2>5. \A c \in Blocks : waiting'[c] => waiting[c]
        BY <1>0, <2>1
    <2> QED BY <1>0, <2>1, <2>4, <2>5 DEF BlockTypes
<1>7. CASE bb_handle_resp
    <2>1. PICK b \in Blocks : /\ bbResp[b] # <<>>
                              /\ out' = Append(out, Answer(b, Head(metas), Head(bbResp[b])))
                              /\ bbResp' = [bbResp EXCEPT ![b] = Tail(bbResp[b])]
        BY <1>7 DEF bb_handle_resp
    <2>2. metas # <<>> /\ UNCHANGED <<got, bbReq, job, todo, waiting>>
        BY <1>7 DEF bb_handle_resp
    <2>3. Head(metas) \in Packets
        BY <1>0, <2>2, TakeOff
    <2>4. Head(bbResp[b]) \in Gots /\ Tail(bbResp[b]) \in Seq(Gots)
        BY <1>0, <2>1, TakeOff
    <2>5. out' \in Seq(Answers)
        BY <1>0, <2>1, <2>3, <2>4, AnswerTyped, PutOn
    <2>6. bbResp' \in [Blocks -> Seq(Gots)]
        BY <1>0, <2>1, <2>4
    <2> QED BY <1>0, <2>2, <2>5, <2>6 DEF BlockTypes
<1>8. CASE transmit
    <2>1. out # <<>> /\ out' = Tail(out) /\ UNCHANGED <<got, bbResp, bbReq, job, todo, waiting>>
        BY <1>8 DEF transmit
    <2>2. out' \in Seq(Answers)
        BY <1>0, <2>1, TakeOff
    <2> QED BY <1>0, <2>1, <2>2 DEF BlockTypes
<1> QED BY <1>2, <1>3, <1>4, <1>5, <1>6, <1>7, <1>8 DEF AcceptorRules

\* A block that has something to do is the one that is served.
LEMMA TheOne ==
    ASSUME NEW b \in Blocks, NEW c \in Blocks, Serves(b), bbReq[c] # <<>> \/ waiting[c] \/ bbResp[c] # <<>>
    PROVE  c = b
    BY DEF Serves

\* As long as 1A and 2A are not mixed, metadata wait for one block.
LEMMA ServesKept ==
    ASSUME AcceptorTypes, BlockTypes, NEW b \in Blocks, Serves(b), AcceptorRules, ~torn'
    PROVE  \E c \in Blocks : Serves(c) /\ Serves(c)'
<1>0. /\ lookQ \in Seq(Packets) /\ metas \in Seq(Packets) /\ bbReq \in [Blocks -> Seq(Packets)]
      /\ job \in [Blocks -> Packets \cup {NoPacket}] /\ waiting \in [Blocks -> BOOLEAN]
      /\ bbResp \in [Blocks -> Seq(Gots)] /\ got \in [Blocks -> Gots]
    BY DEF AcceptorTypes, BlockTypes
<1>1. ASSUME NEW c \in Blocks
      PROVE  /\ Len(bbReq[c]) \in Nat /\ Len(bbResp[c]) \in Nat /\ Taken(c) \in Nat
             /\ Taken(c) = Len(bbResp[c]) \/ Taken(c) = Len(bbResp[c]) + 1
    <2>1. Len(bbReq[c]) \in Nat /\ Len(bbResp[c]) \in Nat
        BY <1>0, LenProperties
    <2>2. CASE waiting[c]
        BY <2>1, <2>2 DEF Taken
    <2>3. CASE ~waiting[c]
        BY <2>1, <2>3 DEF Taken
    <2> QED BY <2>1, <2>2, <2>3
<1>2. /\ Serves(b) /\ Len(bbReq[b]) \in Nat /\ Len(bbResp[b]) \in Nat /\ Taken(b) \in Nat
      /\ Taken(b) = Len(bbResp[b]) \/ Taken(b) = Len(bbResp[b]) + 1
    BY <1>1
<1>3. /\ \A c \in Blocks \ {b} : bbReq[c] = <<>> /\ ~waiting[c] /\ bbResp[c] = <<>>
      /\ \A k \in DOMAIN metas : metas[k].type = b
      /\ waiting[b] => metas[Len(bbResp[b]) + 1] = job[b]
      /\ \A k \in DOMAIN bbReq[b] : metas[Taken(b) + k] = bbReq[b][k]
    BY <1>2 DEF Serves
<1>11. Len(metas) = Taken(b) + Len(bbReq[b])
    BY <1>2 DEF Serves
<1>4. ASSUME UNCHANGED <<bbReq, waiting, bbResp, metas, job>> PROVE \E c \in Blocks : Serves(c) /\ Serves(c)'
    BY <1>2, <1>4 DEF Serves, Taken
<1>5. CASE bb_round \/ round_tbl_next_control_state \/ transmit
    BY <1>4, <1>5 DEF bb_round, round_tbl_next_control_state, transmit
<1>6. ASSUME NEW c \in Blocks, NEW r \in {"round", "vround", "value", "datapath"}, loadRequest(c, r)
      PROVE  \E d \in Blocks : Serves(d) /\ Serves(d)'
    BY <1>4, <1>6 DEF loadRequest
<1>7. CASE lookup_response
    <2> DEFINE p == Head(lookQ)
    <2>1. /\ lookQ # <<>> /\ UNCHANGED <<waiting, bbResp, job>>
          /\ \/ bbReq' = bbReq /\ metas' = metas
             \/ /\ p.type \in Blocks /\ bbReq' = [bbReq EXCEPT ![p.type] = Append(bbReq[p.type], p)]
                /\ metas' = Append(metas, p) /\ ~Mixed(p.type)
        BY <1>7 DEF lookup_response
    <2>2. p \in Packets
        BY <1>0, <2>1, TakeOff
    <2> HIDE DEF p
    <2>3. CASE bbReq' = bbReq /\ metas' = metas
        BY <1>4, <2>1, <2>3
    <2>4. ASSUME NEW a \in Blocks, a = p.type, bbReq' = [bbReq EXCEPT ![a] = Append(bbReq[a], p)],
                 metas' = Append(metas, p), ~Mixed(a)
          PROVE  Serves(a) /\ Serves(a)'
        <3>1. \A c \in Blocks \ {a} : bbReq[c] = <<>> /\ ~waiting[c] /\ bbResp[c] = <<>>
            BY <2>4 DEF Mixed
        <3>2. /\ Len(metas) = Taken(a) + Len(bbReq[a])
              /\ \A k \in DOMAIN metas : metas[k].type = a
              /\ waiting[a] => metas[Len(bbResp[a]) + 1] = job[a]
              /\ \A k \in DOMAIN bbReq[a] : metas[Taken(a) + k] = bbReq[a][k]
            <4>1. CASE a = b
                BY <1>3, <1>11, <4>1
            <4>2. CASE a # b
                <5>1. bbReq[a] = <<>> /\ ~waiting[a] /\ bbResp[a] = <<>>
                    BY <1>3, <1>11, <2>4, <4>2
                <5>2. bbReq[b] = <<>> /\ ~waiting[b] /\ bbResp[b] = <<>>
                    BY <3>1, <4>2
                <5>3. Len(metas) = 0 /\ Taken(a) = 0 /\ Len(bbReq[a]) = 0
                    BY <1>3, <1>11, <5>1, <5>2 DEF Taken
                <5>4. metas = <<>>
                    BY <1>0, <5>3, EmptySeq
                <5> QED BY <5>1, <5>3, <5>4
            <4> QED BY <4>1, <4>2
        <3> DEFINE n == Taken(a)
        <3> HIDE DEF n
        <3>3. /\ bbReq'[a] = Append(bbReq[a], p)
              /\ \A c \in Blocks \ {a} : bbReq'[c] = <<>> /\ ~waiting'[c] /\ bbResp'[c] = <<>>
              /\ Taken(a)' = n /\ waiting' = waiting /\ bbResp' = bbResp /\ job' = job
            BY <1>0, <2>1, <2>4, <3>1 DEF Taken, n
        <3>4. /\ Len(metas') = Len(metas) + 1 /\ Len(metas) \in Nat
              /\ \A k \in DOMAIN metas : metas'[k] = metas[k]
              /\ metas'[Len(metas) + 1] = p
              /\ \A k \in DOMAIN metas' :
                    (k = Len(metas) + 1 /\ metas'[k] = p) \/ (k \in DOMAIN metas /\ metas'[k] = metas[k])
              /\ DOMAIN metas = 1 .. Len(metas)
            <4>1. DOMAIN metas = 1 .. Len(metas) /\ metas' = Append(metas, p)
                BY <1>0, <2>4, LenProperties
            <4> QED BY <1>0, <2>2, <4>1, PutOn
        <3>5. /\ Len(bbReq'[a]) = Len(bbReq[a]) + 1 /\ DOMAIN bbReq[a] = 1 .. Len(bbReq[a])
              /\ \A k \in DOMAIN bbReq'[a] :
                    \/ k = Len(bbReq[a]) + 1 /\ bbReq'[a][k] = p
                    \/ k \in DOMAIN bbReq[a] /\ bbReq'[a][k] = bbReq[a][k]
            <4>1. DOMAIN bbReq[a] = 1 .. Len(bbReq[a]) /\ bbReq'[a] = Append(bbReq[a], p)
                BY <1>0, <2>4, <3>3, LenProperties
            <4>2. bbReq[a] \in Seq(Packets)
                BY <1>0, <2>4
            <4> QED BY <2>2, <4>1, <4>2, PutOn
        <3>6. Len(bbReq[a]) \in Nat /\ Len(bbResp[a]) \in Nat /\ n \in Nat
            BY <1>1, <2>4 DEF n
        <3>7. waiting[a] => n = Len(bbResp[a]) + 1
            BY DEF Taken, n
        <3>8. n + Len(bbReq[a]) = Len(metas)
            BY <3>2 DEF n
        <3>9. Len(metas') = n + Len(bbReq'[a])
            <4>1. Len(metas') = Len(metas) + 1 /\ Len(bbReq'[a]) = Len(bbReq[a]) + 1
                BY <3>4, <3>5
            <4> QED BY <3>6, <3>8, <4>1
        <3>10. \A k \in DOMAIN metas' : metas'[k].type = a
            BY <2>4, <3>2, <3>4
        <3>11. waiting'[a] => metas'[Len(bbResp'[a]) + 1] = job'[a]
            <4> SUFFICES ASSUME waiting[a] PROVE metas'[Len(bbResp[a]) + 1] = job[a]
                BY <3>3
            <4>1. Len(bbResp[a]) + 1 \in DOMAIN metas
                <5>1. Len(bbResp[a]) + 1 \in 1 .. Len(metas)
                    BY <3>6, <3>7, <3>8
                <5> QED BY <3>4, <5>1
            <4> QED BY <3>2, <3>4, <4>1
        <3>12. ASSUME NEW k \in DOMAIN bbReq'[a] PROVE metas'[n + k] = bbReq'[a][k]
            <4>1. CASE k = Len(bbReq[a]) + 1 /\ bbReq'[a][k] = p
                <5>1. n + k = Len(metas) + 1
                    BY <3>6, <3>8, <4>1
                <5> QED BY <3>4, <4>1, <5>1
            <4>2. CASE k \in DOMAIN bbReq[a] /\ bbReq'[a][k] = bbReq[a][k]
                <5>1. n + k \in DOMAIN metas
                    <6>1. k \in 1 .. Len(bbReq[a])
                        BY <3>5, <4>2
                    <6>2. n + k \in 1 .. Len(metas)
                        BY <3>6, <3>8, <6>1
                    <6> QED BY <3>4, <6>2
                <5> QED BY <3>2, <3>4, <4>2, <5>1 DEF n
            <4> QED BY <3>5, <4>1, <4>2
        <3>13. Serves(a)'
            BY <3>3, <3>9, <3>10, <3>11, <3>12 DEF Serves
        <3> QED BY <3>1, <3>2, <3>13 DEF Serves
    <2>5. CASE /\ p.type \in Blocks /\ bbReq' = [bbReq EXCEPT ![p.type] = Append(bbReq[p.type], p)]
               /\ metas' = Append(metas, p) /\ ~Mixed(p.type)
        <3>1. PICK a \in Blocks : a = p.type
            BY <2>5
        <3>2. Serves(a) /\ Serves(a)'
            BY <2>4, <2>5, <3>1
        <3> QED BY <3>1, <3>2
    <2> QED BY <2>1, <2>3, <2>5
<1>8. ASSUME NEW c \in Blocks, bb_handle(c) PROVE \E d \in Blocks : Serves(d) /\ Serves(d)'
    <2>1. /\ bbReq[c] # <<>> /\ ~waiting[c] /\ job' = [job EXCEPT ![c] = Head(bbReq[c])]
          /\ waiting' = [waiting EXCEPT ![c] = TRUE]
          /\ bbReq' = [bbReq EXCEPT ![c] = Tail(bbReq[c])] /\ UNCHANGED <<metas, bbResp>>
        BY <1>8 DEF bb_handle
    <2>2. c = b
        BY <1>2, <2>1, TheOne
    <2>3. /\ Head(bbReq[b]) = bbReq[b][1] /\ 1 \in DOMAIN bbReq[b]
          /\ Len(Tail(bbReq[b])) = Len(bbReq[b]) - 1 /\ Len(bbReq[b]) \in Nat \ {0}
          /\ \A k \in DOMAIN Tail(bbReq[b]) : k + 1 \in DOMAIN bbReq[b] /\ Tail(bbReq[b])[k] = bbReq[b][k + 1]
        BY <1>0, <2>1, <2>2, TakeOff
    <2>4. /\ bbReq'[b] = Tail(bbReq[b]) /\ waiting'[b] /\ job'[b] = bbReq[b][1] /\ bbResp' = bbResp
          /\ \A d \in Blocks \ {b} : bbReq'[d] = bbReq[d] /\ waiting'[d] = waiting[d]
        BY <1>0, <2>1, <2>2, <2>3
    <2>5. Taken(b) = Len(bbResp[b]) /\ Taken(b)' = Len(bbResp[b]) + 1
        BY <1>2, <2>1, <2>2, <2>4 DEF Taken
    <2>6. Len(metas') = Taken(b)' + Len(bbReq'[b])
        <3>1. Len(bbReq'[b]) = Len(bbReq[b]) - 1 /\ Len(bbReq[b]) \in Nat \ {0} /\ metas' = metas
            BY <2>1, <2>3, <2>4
        <3> DEFINE r == Len(bbReq[b])
                   u == Len(bbReq'[b])
        <3>2. /\ u = r - 1 /\ r \in Nat \ {0} /\ Len(metas') = Taken(b) + r
              /\ Taken(b)' = Taken(b) + 1 /\ Taken(b) \in Nat
            BY <1>2, <1>11, <2>5, <3>1
        <3> HIDE DEF r, u
        <3>3. Len(metas') = Taken(b)' + u
            BY <3>2
        <3> QED BY <3>3 DEF u
    <2>7. metas'[Len(bbResp'[b]) + 1] = job'[b]
        <3>1. metas[Taken(b) + 1] = bbReq[b][1]
            BY <1>3, <2>3
        <3> QED BY <2>1, <2>4, <2>5, <3>1
    <2>8. ASSUME NEW k \in DOMAIN bbReq'[b] PROVE metas'[Taken(b)' + k] = bbReq'[b][k]
        <3>1. k + 1 \in DOMAIN bbReq[b] /\ bbReq'[b][k] = bbReq[b][k + 1]
            BY <2>3, <2>4, <2>8
        <3>2. metas[Taken(b) + (k + 1)] = bbReq[b][k + 1]
            BY <1>3, <3>1
        <3>3. k \in Nat
            <4>1. Tail(bbReq[b]) \in Seq(Packets)
                BY <1>0, <2>1, <2>2, TakeOff
            <4> QED BY <2>4, <4>1, LenProperties
        <3>4. Taken(b) + (k + 1) = Taken(b)' + k
            <4> DEFINE t == Taken(b)
                       u == Taken(b)'
            <4>1. u = t + 1 /\ t \in Nat
                BY <1>2, <2>5
            <4> HIDE DEF t, u
            <4>2. t + (k + 1) = u + k
                BY <3>3, <4>1
            <4> QED BY <4>2 DEF t, u
        <3> QED BY <2>1, <3>1, <3>2, <3>4
    <2>9. Serves(b)'
        BY <1>3, <2>1, <2>4, <2>6, <2>7, <2>8 DEF Serves
    <2> QED BY <1>2, <2>9
<1>9. ASSUME NEW c \in Blocks, reg_resp(c) PROVE \E d \in Blocks : Serves(d) /\ Serves(d)'
    <2>1. /\ waiting[c] /\ waiting' = [waiting EXCEPT ![c] = FALSE]
          /\ bbResp' = [bbResp EXCEPT ![c] = Append(bbResp[c], got[c])] /\ UNCHANGED <<metas, bbReq, job>>
        BY <1>9 DEF reg_resp
    <2>2. c = b
        BY <1>2, <2>1, TheOne
    <2>3. /\ bbResp'[b] = Append(bbResp[b], got[b]) /\ ~waiting'[b]
          /\ \A d \in Blocks \ {b} : bbResp'[d] = bbResp[d] /\ waiting'[d] = waiting[d]
        BY <1>0, <2>1, <2>2
    <2>4. Len(bbResp'[b]) = Len(bbResp[b]) + 1
        BY <1>0, <2>3, PutOn
    <2>5. Taken(b)' = Taken(b)
        BY <1>2, <2>1, <2>2, <2>3, <2>4 DEF Taken
    <2>6. metas' = metas /\ bbReq' = bbReq
        BY <2>1
    <2>7. Serves(b)'
        BY <1>3, <1>11, <2>3, <2>5, <2>6 DEF Serves
    <2> QED BY <1>2, <2>7
<1>20. CASE bb_handle_resp
    <2>1. /\ metas # <<>> /\ metas' = Tail(metas) /\ UNCHANGED <<bbReq, waiting, job>>
          /\ \E c \in Blocks : bbResp[c] # <<>> /\ bbResp' = [bbResp EXCEPT ![c] = Tail(bbResp[c])]
        BY <1>20 DEF bb_handle_resp
    <2>2. PICK c \in Blocks : bbResp[c] # <<>> /\ bbResp' = [bbResp EXCEPT ![c] = Tail(bbResp[c])]
        BY <2>1
    <2>3. c = b
        BY <1>2, <2>2, TheOne
    <2>4. /\ bbResp'[b] = Tail(bbResp[b]) /\ bbResp[b] # <<>>
          /\ \A d \in Blocks \ {b} : bbResp'[d] = bbResp[d]
        BY <1>0, <2>2, <2>3
    <2>5. Len(bbResp'[b]) = Len(bbResp[b]) - 1 /\ Len(bbResp[b]) \in Nat \ {0}
        BY <1>0, <2>4, TakeOff
    <2>6. /\ Len(metas') = Len(metas) - 1 /\ Len(metas) \in Nat \ {0} /\ DOMAIN metas' = 1 .. Len(metas) - 1
          /\ \A k \in DOMAIN metas' : k + 1 \in DOMAIN metas /\ metas'[k] = metas[k + 1]
        <3>1. /\ Tail(metas) \in Seq(Packets) /\ Len(Tail(metas)) = Len(metas) - 1 /\ Len(metas) \in Nat \ {0}
              /\ \A k \in DOMAIN Tail(metas) : k + 1 \in DOMAIN metas /\ Tail(metas)[k] = metas[k + 1]
            BY <1>0, <2>1, TakeOff
        <3>2. DOMAIN Tail(metas) = 1 .. Len(metas) - 1
            BY <3>1, LenProperties
        <3> QED BY <2>1, <3>1, <3>2
    <2>7. Taken(b)' = Taken(b) - 1 /\ waiting' = waiting /\ job' = job /\ bbReq' = bbReq
        <3>1. waiting' = waiting /\ job' = job /\ bbReq' = bbReq
            BY <2>1
        <3>2. CASE waiting[b]
            BY <2>5, <3>1, <3>2 DEF Taken
        <3>3. CASE ~waiting[b]
            BY <2>5, <3>1, <3>3 DEF Taken
        <3> QED BY <3>1, <3>2, <3>3
    <2>8. Len(metas') = Taken(b)' + Len(bbReq'[b])
        <3>1. Len(metas') = Len(metas) - 1 /\ bbReq' = bbReq
            BY <2>6, <2>7
        <3> QED BY <1>2, <1>11, <2>7, <3>1
    <2>9. \A k \in DOMAIN metas' : metas'[k].type = b
        BY <1>3, <2>6
    <2>10. ASSUME waiting[b] PROVE metas'[Len(bbResp'[b]) + 1] = job'[b]
        <3>1. Taken(b) = Len(bbResp[b]) + 1
            BY <2>10 DEF Taken
        <3>2. Len(bbResp[b]) \in 1 .. Len(metas) - 1
            <4> DEFINE r == Len(bbReq[b])
                       v == Len(bbResp[b])
                       m == Len(metas)
            <4>1. r \in Nat /\ v \in Nat \ {0} /\ m = (v + 1) + r
                BY <1>2, <1>11, <2>5, <3>1
            <4> HIDE DEF r, v, m
            <4>2. v \in 1 .. m - 1
                BY <4>1
            <4> QED BY <4>2 DEF v, m
        <3>3. metas'[Len(bbResp[b])] = metas[Len(bbResp[b]) + 1]
            BY <2>6, <3>2
        <3>4. Len(bbResp'[b]) + 1 = Len(bbResp[b])
            BY <2>5
        <3> QED BY <1>3, <2>7, <2>10, <3>3, <3>4
    <2>11. ASSUME NEW k \in DOMAIN bbReq[b] PROVE metas'[Taken(b)' + k] = bbReq[b][k]
        <3>1. k \in 1 .. Len(bbReq[b]) /\ Len(bbReq[b]) \in Nat
            BY <1>0, <2>11, LenProperties
        <3>2. Taken(b)' \in Nat /\ Taken(b)' + 1 = Taken(b)
            BY <1>2, <2>5, <2>7
        <3>3. Taken(b)' + k \in 1 .. Len(metas) - 1 /\ (Taken(b)' + k) + 1 = Taken(b) + k
            <4> DEFINE r == Len(bbReq[b])
                       v == Taken(b)
                       u == Taken(b)'
                       m == Len(metas)
            <4>1. r \in Nat /\ v \in Nat /\ m = v + r /\ k \in 1 .. r /\ u \in Nat /\ u + 1 = v
                BY <1>2, <1>11, <3>1, <3>2
            <4> HIDE DEF r, v, m, u
            <4>2. u + k \in 1 .. m - 1 /\ (u + k) + 1 = v + k
                BY <4>1
            <4> QED BY <4>2 DEF v, m, u
        <3>4. metas'[Taken(b)' + k] = metas[Taken(b) + k]
            BY <2>6, <3>3
        <3> QED BY <1>3, <3>4
    <2>12. \A d \in Blocks \ {b} : bbReq'[d] = <<>> /\ ~waiting'[d] /\ bbResp'[d] = <<>>
        BY <1>3, <2>4, <2>7
    <2>13. Serves(b)'
        BY <2>7, <2>8, <2>9, <2>10, <2>11, <2>12 DEF Serves
    <2> QED BY <1>2, <2>13
<1> QED BY <1>5, <1>6, <1>7, <1>8, <1>9, <1>20 DEF AcceptorRules
-----------------------------------------------------------------------------
(* The registers as they will be.                                          *)

Regs == {"round", "vround", "value"}

\* What is pending of a slot, packet by packet.
Awaits(p, reg, s) ==
    /\ Slot(p.inst) = s
    /\ \/ \E b \in Blocks : /\ \E k \in DOMAIN bbReq[b] : p = bbReq[b][k]
                            /\ reg \in Writes(b)
       \/ \E b \in Blocks : p = job[b] /\ reg \in todo[b] /\ reg \in Writes(b)

Pendings == \A reg \in Regs, s \in Slots : \A p : p \in Pending(reg, s) <=> Awaits(p, reg, s)

LEMMA PendingAre == (BlockTypes => Pendings) /\ (BlockTypes' => Pendings')
<1>1. ASSUME BlockTypes, NEW reg \in Regs, NEW s \in Slots, NEW p
      PROVE  p \in Pending(reg, s) <=> Awaits(p, reg, s)
    <2>1. \A b \in Blocks : \A k \in DOMAIN bbReq[b] : bbReq[b][k].type = b
        BY <1>1 DEF BlockTypes
    <2>2. p \in UNION {ToSet(bbReq[b]) : b \in Blocks} /\ reg \in Writes(p.type)
            <=> \E b \in Blocks : /\ \E k \in DOMAIN bbReq[b] : p = bbReq[b][k]
                                  /\ reg \in Writes(b)
        BY <2>1 DEF ToSet
    <2>3. p \in {job[b] : b \in {b \in Blocks : reg \in todo[b] \cap Writes(b)}}
            <=> \E b \in Blocks : p = job[b] /\ reg \in todo[b] /\ reg \in Writes(b)
        OBVIOUS
    <2> QED BY <2>2, <2>3 DEF Pending, Awaits
<1>2. ASSUME BlockTypes', NEW reg \in Regs, NEW s \in Slots, NEW p
      PROVE  (p \in Pending(reg, s) <=> Awaits(p, reg, s))'
    <2>1. \A b \in Blocks : \A k \in DOMAIN bbReq'[b] : bbReq'[b][k].type = b
        BY <1>2 DEF BlockTypes
    <2>2. p \in UNION {ToSet(bbReq'[b]) : b \in Blocks} /\ reg \in Writes(p.type)
            <=> \E b \in Blocks : /\ \E k \in DOMAIN bbReq'[b] : p = bbReq'[b][k]
                                  /\ reg \in Writes(b)
        BY <2>1 DEF ToSet
    <2>3. p \in {job'[b] : b \in {b \in Blocks : reg \in todo'[b] \cap Writes(b)}}
            <=> \E b \in Blocks : p = job'[b] /\ reg \in todo'[b] /\ reg \in Writes(b)
        OBVIOUS
    <2> QED BY <2>2, <2>3 DEF Pending, Awaits
<1> QED BY <1>1, <1>2 DEF Pendings

\* What is pending does not change.
Steady(reg, s) == Pending(reg, s)' = Pending(reg, s)

LEMMA SteadyIf ==
    ASSUME BlockTypes, BlockTypes', NEW reg \in Regs, NEW s \in Slots,
           \A p : Awaits(p, reg, s)' <=> Awaits(p, reg, s)
    PROVE  Steady(reg, s)
<1>1. \A p : p \in Pending(reg, s)' <=> p \in Pending(reg, s)
    BY PendingAre DEF Pendings
<1> QED BY <1>1 DEF Steady

\* The register files as they will be, all three.
Now  == <<Effective("round", round), Effective("vround", vround), Effective("value", value)>>

LEMMA AllSteady ==
    ASSUME \A reg \in Regs, s \in Slots : Steady(reg, s), UNCHANGED <<round, vround, value>>
    PROVE  Now' = Now
<1>1. Effective("round", round)' = Effective("round", round)
    BY DEF Effective, Steady, Regs
<1>2. Effective("vround", vround)' = Effective("vround", vround)
    BY DEF Effective, Steady, Regs
<1>3. Effective("value", value)' = Effective("value", value)
    BY DEF Effective, Steady, Regs
<1> QED BY <1>1, <1>2, <1>3 DEF Now

\* A job handed to a block is as pending as it was in its queue.
LEMMA HandedSteady ==
    ASSUME AcceptorTypes, BlockTypes, BlockTypes', NEW b \in Blocks, bb_handle(b),
           NEW reg \in Regs, NEW s \in Slots
    PROVE  Steady(reg, s)
<1>1. /\ bbReq[b] # <<>> /\ todo[b] = {} /\ job' = [job EXCEPT ![b] = Head(bbReq[b])]
      /\ todo' = [todo EXCEPT ![b] = {"round", "vround", "value", "datapath"}]
      /\ bbReq' = [bbReq EXCEPT ![b] = Tail(bbReq[b])]
    BY DEF bb_handle
<1>2. /\ bbReq \in [Blocks -> Seq(Packets)] /\ job \in [Blocks -> Packets \cup {NoPacket}]
      /\ todo \in [Blocks -> SUBSET {"round", "vround", "value", "datapath"}]
    BY DEF AcceptorTypes
<1>3. /\ bbReq'[b] = Tail(bbReq[b]) /\ job'[b] = Head(bbReq[b]) /\ reg \in todo'[b] /\ reg \notin todo[b]
      /\ \A c \in Blocks : c # b => bbReq'[c] = bbReq[c] /\ job'[c] = job[c] /\ todo'[c] = todo[c]
    BY <1>1, <1>2 DEF Regs
<1>4. ASSUME NEW p
      PROVE  (\E k \in DOMAIN bbReq[b] : p = bbReq[b][k])
                <=> p = Head(bbReq[b]) \/ \E k \in DOMAIN Tail(bbReq[b]) : p = Tail(bbReq[b])[k]
    <2>1. /\ Head(bbReq[b]) = bbReq[b][1] /\ 1 \in DOMAIN bbReq[b] /\ Len(bbReq[b]) \in Nat \ {0}
          /\ Tail(bbReq[b]) \in Seq(Packets) /\ Len(Tail(bbReq[b])) = Len(bbReq[b]) - 1
          /\ \A k \in DOMAIN Tail(bbReq[b]) : k + 1 \in DOMAIN bbReq[b] /\ Tail(bbReq[b])[k] = bbReq[b][k + 1]
        BY <1>1, <1>2, TakeOff
    <2>2. DOMAIN bbReq[b] = 1 .. Len(bbReq[b]) /\ DOMAIN Tail(bbReq[b]) = 1 .. Len(bbReq[b]) - 1
        BY <1>2, <2>1, LenProperties
    <2>3. ASSUME NEW k \in DOMAIN bbReq[b], k # 1
          PROVE  k - 1 \in DOMAIN Tail(bbReq[b]) /\ Tail(bbReq[b])[k - 1] = bbReq[b][k]
        <3>1. k - 1 \in 1 .. Len(bbReq[b]) - 1 /\ (k - 1) + 1 = k
            BY <2>1, <2>2, <2>3
        <3> QED BY <2>1, <2>2, <3>1
    <2>4. ASSUME NEW k \in DOMAIN bbReq[b], p = bbReq[b][k]
          PROVE  p = Head(bbReq[b]) \/ \E l \in DOMAIN Tail(bbReq[b]) : p = Tail(bbReq[b])[l]
        <3>1. CASE k = 1
            BY <2>1, <2>4, <3>1
        <3>2. CASE k # 1
            BY <2>3, <2>4, <3>2
        <3> QED BY <3>1, <3>2
    <2> QED BY <2>1, <2>4
<1>5. ASSUME NEW p PROVE Awaits(p, reg, s)' <=> Awaits(p, reg, s)
    <2>1. CASE reg \in Writes(b)
        <3>1. (\E c \in Blocks : (\E k \in DOMAIN bbReq[c] : p = bbReq[c][k]) /\ reg \in Writes(c))
                <=> \/ p = Head(bbReq[b])
                    \/ \E c \in Blocks : (\E k \in DOMAIN bbReq'[c] : p = bbReq'[c][k]) /\ reg \in Writes(c)
            <4> DEFINE Was(c) == \E k \in DOMAIN bbReq[c] : p = bbReq[c][k]
                       Is(c) == \E k \in DOMAIN bbReq'[c] : p = bbReq'[c][k]
            <4>1. \A c \in Blocks : c # b => (Is(c) <=> Was(c))
                BY <1>3
            <4>2. Was(b) <=> p = Head(bbReq[b]) \/ Is(b)
                BY <1>3, <1>4
            <4> HIDE DEF Was, Is
            <4>3. (\E c \in Blocks : Was(c) /\ reg \in Writes(c))
                    <=> p = Head(bbReq[b]) \/ \E c \in Blocks : Is(c) /\ reg \in Writes(c)
                BY <2>1, <4>1, <4>2
            <4> QED BY <4>3 DEF Was, Is
        <3>2. (\E c \in Blocks : p = job'[c] /\ reg \in todo'[c] /\ reg \in Writes(c))
                <=> \/ p = Head(bbReq[b])
                    \/ \E c \in Blocks : p = job[c] /\ reg \in todo[c] /\ reg \in Writes(c)
            BY <1>3, <2>1
        <3> QED BY <3>1, <3>2 DEF Awaits
    <2>2. CASE reg \notin Writes(b)
        <3>1. (\E c \in Blocks : (\E k \in DOMAIN bbReq[c] : p = bbReq[c][k]) /\ reg \in Writes(c))
                <=> \E c \in Blocks : (\E k \in DOMAIN bbReq'[c] : p = bbReq'[c][k]) /\ reg \in Writes(c)
            BY <1>3, <2>2
        <3>2. (\E c \in Blocks : p = job'[c] /\ reg \in todo'[c] /\ reg \in Writes(c))
                <=> \E c \in Blocks : p = job[c] /\ reg \in todo[c] /\ reg \in Writes(c)
            BY <1>3, <2>2
        <3> QED BY <3>1, <3>2 DEF Awaits
    <2> QED BY <2>1, <2>2
<1> QED BY <1>5, SteadyIf

\* A request that is worked off leaves every register file as it will be.
LEMMA LoadedSame ==
    ASSUME AcceptorTypes, BlockTypes, BlockTypes', Apart(Lines), NEW b \in Blocks,
           NEW r \in {"round", "vround", "value", "datapath"}, loadRequest(b, r)
    PROVE  Now' = Now
<1>0. job[b] \in Packets /\ Slot(job[b].inst) \in Slots
    BY SlotInRange DEF BlockTypes, loadRequest
<1> SUFFICES ASSUME NEW w \in Slots, w = Slot(job[b].inst) PROVE Now' = Now
    BY <1>0
<1>1. /\ r \in todo[b] /\ todo' = [todo EXCEPT ![b] = todo[b] \ {r}] /\ UNCHANGED <<bbReq, job>>
      /\ round' = IF r = "round" THEN [round EXCEPT ![w] = job[b].rnd] ELSE round
      /\ vround' = IF r \in Writes(b) /\ r = "vround" THEN [vround EXCEPT ![w] = job[b].rnd] ELSE vround
      /\ value' = IF r \in Writes(b) /\ r = "value" THEN [value EXCEPT ![w] = job[b].val] ELSE value
    BY DEF loadRequest
<1>2. /\ todo \in [Blocks -> SUBSET {"round", "vround", "value", "datapath"}]
      /\ round \in [Slots -> Rounds \cup {0}] /\ vround \in [Slots -> Rounds \cup {0}]
      /\ value \in [Slots -> Values]
    BY DEF AcceptorTypes
<1>3. job[b] \in Packets /\ w \in Slots
    BY <1>0
<1>4. /\ \A c \in Blocks : \A k \in DOMAIN bbReq[c] : Slot(bbReq[c][k].inst) # w
      /\ \A c \in Blocks : c # b /\ todo[c] # {} => Slot(job[c].inst) # w
    BY <1>1, JobAlone
<1>5. /\ todo'[b] = todo[b] \ {r} /\ \A c \in Blocks : c # b => todo'[c] = todo[c]
    BY <1>1, <1>2
<1>6. "round" \in Writes(b)
    BY DEF Writes, Blocks
<1>7. ASSUME NEW reg \in Regs, NEW s \in Slots, reg # r \/ s # w \/ r \notin Writes(b)
      PROVE  Steady(reg, s)
    <2>1. ASSUME NEW p PROVE Awaits(p, reg, s)' <=> Awaits(p, reg, s)
        <3>1. ASSUME NEW c \in Blocks, reg \in Writes(c), p = job[c], Slot(p.inst) = s
              PROVE  reg \in todo'[c] <=> reg \in todo[c]
            <4>1. CASE c # b
                BY <1>5, <4>1
            <4>2. CASE c = b
                <5>1. reg # r
                    BY <1>7, <3>1, <4>2
                <5> QED BY <1>5, <4>2, <5>1
            <4> QED BY <4>1, <4>2
        <3>2. bbReq' = bbReq /\ job' = job
            BY <1>1
        <3> QED BY <3>1, <3>2 DEF Awaits
    <2> QED BY <2>1, SteadyIf
<1>8. ASSUME r \in Writes(b), r \in Regs PROVE Pending(r, w) = {job[b]} /\ Pending(r, w)' = {}
    <2>1. ASSUME NEW p PROVE Awaits(p, r, w) <=> p = job[b]
        BY <1>1, <1>3, <1>4, <1>8 DEF Awaits
    <2>2. ASSUME NEW p, Awaits(p, r, w)' PROVE FALSE
        <3>1. Slot(p.inst) = w /\ bbReq' = bbReq /\ job' = job
            BY <1>1, <2>2 DEF Awaits
        <3>2. CASE \E c \in Blocks : \E k \in DOMAIN bbReq[c] : p = bbReq[c][k]
            BY <1>4, <3>1, <3>2
        <3>3. ASSUME NEW c \in Blocks, p = job[c], r \in todo'[c] PROVE FALSE
            BY <1>4, <1>5, <3>1, <3>3
        <3> QED BY <2>2, <3>1, <3>2, <3>3 DEF Awaits
    <2>3. \A p : p \in Pending(r, w) <=> p = job[b]
        BY <1>3, <1>8, <2>1, PendingAre DEF Pendings
    <2>4. \A p : p \notin Pending(r, w)'
        <3>1. Pendings'
            BY PendingAre
        <3> QED BY <1>3, <1>8, <2>2, <3>1 DEF Pendings
    <2> QED BY <2>3, <2>4
<1>9. One({job[b]}) = job[b]
    BY DEF One
<1>10. Effective("round", round)' = Effective("round", round)
    <2>1. ASSUME NEW s \in Slots
          PROVE  (IF Pending("round", s)' = {} THEN round'[s]
                    ELSE Written("round", One(Pending("round", s)')))
                 = IF Pending("round", s) = {} THEN round[s] ELSE Written("round", One(Pending("round", s)))
        <3>1. CASE r = "round" /\ s = w
            <4>1. Pending("round", s) = {job[b]} /\ Pending("round", s)' = {}
                BY <1>6, <1>8, <3>1 DEF Regs
            <4>2. round'[s] = Written("round", job[b])
                BY <1>1, <1>2, <1>3, <3>1 DEF Written
            <4> QED BY <1>9, <4>1, <4>2
        <3>2. CASE r # "round" \/ s # w
            <4>1. Steady("round", s)
                BY <1>7, <3>2 DEF Regs
            <4>2. round'[s] = round[s]
                BY <1>1, <1>2, <3>2
            <4> QED BY <4>1, <4>2 DEF Steady
        <3> QED BY <3>1, <3>2
    <2> QED BY <2>1 DEF Effective
<1>11. Effective("vround", vround)' = Effective("vround", vround)
    <2>1. ASSUME NEW s \in Slots
          PROVE  (IF Pending("vround", s)' = {} THEN vround'[s]
                    ELSE Written("vround", One(Pending("vround", s)')))
                 = IF Pending("vround", s) = {} THEN vround[s] ELSE Written("vround", One(Pending("vround", s)))
        <3>1. CASE r = "vround" /\ s = w /\ r \in Writes(b)
            <4>1. Pending("vround", s) = {job[b]} /\ Pending("vround", s)' = {}
                BY <1>8, <3>1 DEF Regs
            <4>2. vround'[s] = Written("vround", job[b])
                BY <1>1, <1>2, <1>3, <3>1 DEF Written
            <4> QED BY <1>9, <4>1, <4>2
        <3>2. CASE r # "vround" \/ s # w \/ r \notin Writes(b)
            <4>1. Steady("vround", s)
                BY <1>7, <3>2 DEF Regs
            <4>2. vround'[s] = vround[s]
                BY <1>1, <1>2, <3>2
            <4> QED BY <4>1, <4>2 DEF Steady
        <3> QED BY <3>1, <3>2
    <2> QED BY <2>1 DEF Effective
<1>12. Effective("value", value)' = Effective("value", value)
    <2>1. ASSUME NEW s \in Slots
          PROVE  (IF Pending("value", s)' = {} THEN value'[s]
                    ELSE Written("value", One(Pending("value", s)')))
                 = IF Pending("value", s) = {} THEN value[s] ELSE Written("value", One(Pending("value", s)))
        <3>1. CASE r = "value" /\ s = w /\ r \in Writes(b)
            <4>1. Pending("value", s) = {job[b]} /\ Pending("value", s)' = {}
                BY <1>8, <3>1 DEF Regs
            <4>2. value'[s] = Written("value", job[b])
                BY <1>1, <1>2, <1>3, <3>1 DEF Written
            <4> QED BY <1>9, <4>1, <4>2
        <3>2. CASE r # "value" \/ s # w \/ r \notin Writes(b)
            <4>1. Steady("value", s)
                BY <1>7, <3>2 DEF Regs
            <4>2. value'[s] = value[s]
                BY <1>1, <1>2, <3>2
            <4> QED BY <4>1, <4>2 DEF Steady
        <3> QED BY <3>1, <3>2
    <2> QED BY <2>1 DEF Effective
<1> QED BY <1>10, <1>11, <1>12 DEF Now

\* A packet that enters the queue of its block will be written to the register
\* The lookup of a packet p that is handed to block a.
Requested(a, p) ==
    /\ lookQ # <<>> /\ p = Head(lookQ) /\ a = p.type
    /\ bbReq' = [bbReq EXCEPT ![a] = Append(bbReq[a], p)] /\ UNCHANGED <<job, todo>>

\* files that its block writes; before that nothing of its slot is pending.
LEMMA LookedUpWritten ==
    ASSUME AcceptorTypes, BlockTypes, BlockTypes', Apart(Lines),
           NEW a \in Blocks, NEW p \in Packets, Requested(a, p), NEW reg \in Regs, NEW s \in Slots
    PROVE  /\ Pending(reg, Slot(p.inst)) = {}
           /\ Pending(reg, s)' = IF s = Slot(p.inst) /\ reg \in Writes(a) THEN {p} ELSE Pending(reg, s)
<1>0. /\ lookQ # <<>> /\ p = Head(lookQ) /\ a = p.type /\ UNCHANGED <<job, todo>>
      /\ bbReq' = [bbReq EXCEPT ![a] = Append(bbReq[a], p)]
    BY DEF Requested
<1>1. /\ \A c \in Blocks : \A k \in DOMAIN bbReq[c] : Slot(bbReq[c][k].inst) # Slot(p.inst)
      /\ \A c \in Blocks : todo[c] # {} => Slot(job[c].inst) # Slot(p.inst)
    BY <1>0, LookedUpAlone
<1>2. Pendings /\ Pendings'
    BY PendingAre
<1>3. Slot(p.inst) \in Slots
    BY SlotInRange
<1>4. ASSUME NEW q, Awaits(q, reg, Slot(p.inst)) PROVE FALSE
    BY <1>1, <1>4 DEF Awaits
<1>5. Pending(reg, Slot(p.inst)) = {}
    BY <1>2, <1>3, <1>4 DEF Pendings
<1>6. bbReq \in [Blocks -> Seq(Packets)]
    BY DEF AcceptorTypes
<1>7. ASSUME NEW q
      PROVE  (\E c \in Blocks : (\E k \in DOMAIN bbReq'[c] : q = bbReq'[c][k]) /\ reg \in Writes(c))
                <=> \/ q = p /\ reg \in Writes(a)
                    \/ \E c \in Blocks : (\E k \in DOMAIN bbReq[c] : q = bbReq[c][k]) /\ reg \in Writes(c)
    <2> DEFINE Was(c) == \E k \in DOMAIN bbReq[c] : q = bbReq[c][k]
               Is(c) == \E k \in DOMAIN bbReq'[c] : q = bbReq'[c][k]
    <2>1. bbReq'[a] = Append(bbReq[a], p) /\ \A c \in Blocks : c # a => bbReq'[c] = bbReq[c]
        BY <1>0, <1>6
    <2>2. \A c \in Blocks : c # a => (Is(c) <=> Was(c))
        BY <2>1
    <2>3. Is(a) <=> q = p \/ Was(a)
        <3>1. /\ \A k \in DOMAIN bbReq[a] : k \in DOMAIN bbReq'[a] /\ bbReq'[a][k] = bbReq[a][k]
              /\ Len(bbReq[a]) + 1 \in DOMAIN bbReq'[a] /\ bbReq'[a][Len(bbReq[a]) + 1] = p
              /\ \A k \in DOMAIN bbReq'[a] :
                    \/ k = Len(bbReq[a]) + 1 /\ bbReq'[a][k] = p
                    \/ k \in DOMAIN bbReq[a] /\ bbReq'[a][k] = bbReq[a][k]
            BY <1>6, <2>1, PutOn
        <3>2. ASSUME Is(a) PROVE q = p \/ Was(a)
            BY <3>1, <3>2
        <3>3. ASSUME q = p \/ Was(a) PROVE Is(a)
            BY <3>1, <3>3
        <3> QED BY <3>2, <3>3
    <2> HIDE DEF Was, Is
    <2>4. (\E c \in Blocks : Is(c) /\ reg \in Writes(c))
            <=> (q = p /\ reg \in Writes(a)) \/ \E c \in Blocks : Was(c) /\ reg \in Writes(c)
        BY <2>2, <2>3
    <2> QED BY <2>4 DEF Was, Is
<1>8. ASSUME NEW q
      PROVE  Awaits(q, reg, s)' <=> (q = p /\ s = Slot(p.inst) /\ reg \in Writes(a)) \/ Awaits(q, reg, s)
    <2>1. (\E c \in Blocks : q = job'[c] /\ reg \in todo'[c] /\ reg \in Writes(c))
            <=> \E c \in Blocks : q = job[c] /\ reg \in todo[c] /\ reg \in Writes(c)
        BY <1>0
    <2> DEFINE Q == \E c \in Blocks : (\E k \in DOMAIN bbReq'[c] : q = bbReq'[c][k]) /\ reg \in Writes(c)
               P == \E c \in Blocks : (\E k \in DOMAIN bbReq[c] : q = bbReq[c][k]) /\ reg \in Writes(c)
               J == \E c \in Blocks : q = job[c] /\ reg \in todo[c] /\ reg \in Writes(c)
    <2>2. Awaits(q, reg, s)' <=> Slot(q.inst) = s /\ (Q \/ J)
        BY <2>1 DEF Awaits
    <2>3. Awaits(q, reg, s) <=> Slot(q.inst) = s /\ (P \/ J)
        BY DEF Awaits
    <2>4. Q <=> (q = p /\ reg \in Writes(a)) \/ P
        BY <1>7
    <2> HIDE DEF Q, P, J
    <2> QED BY <2>2, <2>3, <2>4
<1>9. \A q : q \in Pending(reg, s)'
                <=> (q = p /\ s = Slot(p.inst) /\ reg \in Writes(a)) \/ q \in Pending(reg, s)
    BY <1>2, <1>8 DEF Pendings
<1>10. CASE s = Slot(p.inst) /\ reg \in Writes(a)
    <2>1. \A q : q \in Pending(reg, s)' <=> q = p
        BY <1>5, <1>9, <1>10
    <2>2. Pending(reg, s)' = {p}
        BY <2>1
    <2> QED BY <1>5, <1>10, <2>2
<1>11. CASE ~(s = Slot(p.inst) /\ reg \in Writes(a))
    <2>1. Pending(reg, s)' = Pending(reg, s)
        BY <1>9, <1>11
    <2> QED BY <1>5, <1>11, <2>1
<1> QED BY <1>10, <1>11
-----------------------------------------------------------------------------
(* The answers that are due.                                               *)

\* What the k-th packet of metas, one of block b, will have read.
Sees(b, k) ==
    IF k <= Len(bbResp[b]) THEN bbResp[b][k]
    ELSE [vround |-> IF k = Len(bbResp[b]) + 1 /\ waiting[b] /\ "vround" \notin todo[b]
                     THEN got[b].vround ELSE vround[Slot(metas[k].inst)],
          value  |-> IF k = Len(bbResp[b]) + 1 /\ waiting[b] /\ "value" \notin todo[b]
                     THEN got[b].value ELSE value[Slot(metas[k].inst)]]

DueSeen == \A b \in Blocks : \A k \in DOMAIN metas :
                metas[k].type = b => Due(k) = Answer(b, metas[k], Sees(b, k))

LEMMA DueIs == DueSeen /\ DueSeen'
<1>1. DueSeen
    BY DEF DueSeen, Due, Sees
<1>2. DueSeen'
    BY DEF DueSeen, Due, Sees
<1> QED BY <1>1, <1>2

\* Two answers are the same when what they tell of the registers is.
LEMMA SameAnswer ==
    ASSUME NEW b \in Blocks, NEW p, NEW g, NEW h,
           b = "1A" => g.vround = h.vround /\ g.value = h.value
    PROVE  Answer(b, p, g) = Answer(b, p, h)
    BY DEF Answer, Blocks

\* What is due is an answer.
LEMMA DueTyped ==
    ASSUME AcceptorTypes, BlockTypes, NEW b \in Blocks, Serves(b), NEW k \in DOMAIN metas
    PROVE  /\ metas[k] \in Packets /\ metas[k].type = b
           /\ Due(k) = Answer(b, metas[k], Sees(b, k)) /\ Due(k) \in Answers
<1>1. metas[k] \in Packets /\ k \in Nat \ {0} /\ Slot(metas[k].inst) \in Slots
    <2>1. metas \in Seq(Packets)
        BY DEF AcceptorTypes
    <2>2. metas[k] \in Packets /\ k \in Nat \ {0}
        BY <2>1, LenProperties, ElementOfSeq
    <2> QED BY <2>2, SlotInRange
<1>2. metas[k].type = b /\ Due(k) = Answer(b, metas[k], Sees(b, k))
    BY DueIs DEF Serves, DueSeen
<1>3. /\ bbResp[b] \in Seq(Gots) /\ got[b] \in Gots
      /\ vround[Slot(metas[k].inst)] \in Rounds \cup {0} /\ value[Slot(metas[k].inst)] \in Values
    BY <1>1 DEF AcceptorTypes, BlockTypes
<1>4. Sees(b, k) \in Gots
    <2>1. CASE k <= Len(bbResp[b])
        <3>1. Len(bbResp[b]) \in Nat
            BY <1>3, LenProperties
        <3>2. bbResp[b][k] \in Gots
            BY <1>1, <1>3, <2>1, <3>1, ElementOfSeq
        <3> QED BY <2>1, <3>2 DEF Sees
    <2>2. CASE ~(k <= Len(bbResp[b]))
        <3>1. got[b].vround \in Rounds \cup {0} /\ got[b].value \in Values
            BY <1>3 DEF Gots
        <3> QED BY <1>3, <2>2, <3>1 DEF Sees, Gots
    <2> QED BY <2>1, <2>2
<1> QED BY <1>1, <1>2, <1>4, AnswerTyped

\* A packet that its block has not yet taken is in its queue.
LEMMA NotTaken ==
    ASSUME AcceptorTypes, BlockTypes, NEW b \in Blocks, Serves(b), NEW k \in DOMAIN metas, k > Taken(b)
    PROVE  \E l \in DOMAIN bbReq[b] : metas[k] = bbReq[b][l]
<1>1. metas \in Seq(Packets) /\ bbReq[b] \in Seq(Packets) /\ bbResp[b] \in Seq(Gots)
    BY DEF AcceptorTypes, BlockTypes
<1>2. /\ DOMAIN metas = 1 .. Len(metas) /\ DOMAIN bbReq[b] = 1 .. Len(bbReq[b])
      /\ Len(metas) \in Nat /\ Len(bbReq[b]) \in Nat /\ Len(bbResp[b]) \in Nat
    BY <1>1, LenProperties
<1>3. Len(metas) = Taken(b) + Len(bbReq[b])
    BY DEF Serves
<1>4. Taken(b) \in Nat
    <2>1. CASE waiting[b]
        BY <1>2, <2>1 DEF Taken
    <2>2. CASE ~waiting[b]
        BY <1>2, <2>2 DEF Taken
    <2> QED BY <2>1, <2>2
<1> DEFINE t == Taken(b)
           r == Len(bbReq[b])
           l == k - Taken(b)
<1>5. k \in 1 .. t + r /\ k > t /\ t \in Nat /\ r \in Nat /\ l = k - t
    BY <1>2, <1>3, <1>4
<1>6. l \in 1 .. r /\ t + l = k
    <2> HIDE DEF t, r, l
    <2> QED BY <1>5
<1>7. metas[t + l] = bbReq[b][l]
    <2>1. l \in DOMAIN bbReq[b]
        BY <1>2, <1>6
    <2> HIDE DEF l
    <2> QED BY <2>1 DEF Serves
<1> QED BY <1>2, <1>6, <1>7

\* A request that is worked off changes nothing of what a packet will be
\* answered.
LEMMA LoadedDue ==
    ASSUME AcceptorTypes, BlockTypes, Apart(Lines), NEW b \in Blocks, Serves(b), Serves(b)',
           NEW c \in Blocks, NEW r \in {"round", "vround", "value", "datapath"}, loadRequest(c, r),
           NEW k \in DOMAIN metas
    PROVE  Due(k)' = Due(k)
<1>0. /\ todo \in [Blocks -> SUBSET {"round", "vround", "value", "datapath"}]
      /\ vround \in [Slots -> Rounds \cup {0}] /\ value \in [Slots -> Values]
      /\ got \in [Blocks -> Gots] /\ bbResp[b] \in Seq(Gots) /\ metas \in Seq(Packets)
    BY DEF AcceptorTypes, BlockTypes
<1>1. /\ r \in todo[c] /\ todo' = [todo EXCEPT ![c] = todo[c] \ {r}]
      /\ UNCHANGED <<metas, bbReq, job, waiting, bbResp>>
      /\ vround' = IF r \in Writes(c) /\ r = "vround"
                   THEN [vround EXCEPT ![Slot(job[c].inst)] = job[c].rnd] ELSE vround
      /\ value' = IF r \in Writes(c) /\ r = "value"
                  THEN [value EXCEPT ![Slot(job[c].inst)] = job[c].val] ELSE value
      /\ got' = [got EXCEPT ![c] =
            CASE r \notin Writes(c) /\ r = "vround" -> [got[c] EXCEPT !.vround = vround[Slot(job[c].inst)]]
              [] r \notin Writes(c) /\ r = "value"  -> [got[c] EXCEPT !.value = value[Slot(job[c].inst)]]
              [] OTHER                              -> got[c]]
    BY DEF loadRequest
<1>2. /\ metas[k] \in Packets /\ metas[k].type = b /\ Due(k) = Answer(b, metas[k], Sees(b, k))
      /\ Slot(metas[k].inst) \in Slots
    BY DueTyped, SlotInRange
<1>3. Due(k)' = Answer(b, metas[k], Sees(b, k)')
    <2>1. metas' = metas
        BY <1>1
    <2> QED BY <1>2, <2>1, DueIs DEF DueSeen
<1>4. SUFFICES ASSUME b = "1A"
               PROVE  Sees(b, k)'.vround = Sees(b, k).vround /\ Sees(b, k)'.value = Sees(b, k).value
    BY <1>2, <1>3, SameAnswer
<1>5. bbResp' = bbResp /\ metas' = metas /\ waiting' = waiting
    BY <1>1
<1>6. CASE k <= Len(bbResp[b])
    BY <1>5, <1>6 DEF Sees
<1>7. CASE ~(k <= Len(bbResp[b]))
    <2> DEFINE s == Slot(metas[k].inst)
               First == k = Len(bbResp[b]) + 1 /\ waiting[b]
    <2>1. /\ Sees(b, k).vround = IF First /\ "vround" \notin todo[b] THEN got[b].vround ELSE vround[s]
          /\ Sees(b, k).value = IF First /\ "value" \notin todo[b] THEN got[b].value ELSE value[s]
          /\ Sees(b, k)'.vround = IF First /\ "vround" \notin todo'[b] THEN got'[b].vround ELSE vround'[s]
          /\ Sees(b, k)'.value = IF First /\ "value" \notin todo'[b] THEN got'[b].value ELSE value'[s]
        BY <1>5, <1>7 DEF Sees
    <2>2. First => metas[k] = job[b]
        BY DEF Serves
    <2>3. Len(bbResp[b]) \in Nat /\ k \in Nat
        BY <1>0, LenProperties
    <2>4. ~First => \E l \in DOMAIN bbReq[b] : metas[k] = bbReq[b][l]
        <3>1. ~First => k > Taken(b)
            <4>1. CASE waiting[b]
                <5>1. Taken(b) = Len(bbResp[b]) + 1
                    BY <4>1 DEF Taken
                <5> QED BY <1>7, <2>3, <4>1, <5>1
            <4>2. CASE ~waiting[b]
                <5>1. Taken(b) = Len(bbResp[b]) + 0
                    BY <4>2 DEF Taken
                <5> QED BY <1>7, <2>3, <5>1
            <4> QED BY <4>1, <4>2
        <3> QED BY <3>1, NotTaken
    <2>5. /\ \A l \in DOMAIN bbReq[b] : Slot(bbReq[b][l].inst) # Slot(job[c].inst)
          /\ b # c /\ todo[b] # {} => Slot(job[b].inst) # Slot(job[c].inst)
        BY <1>1, JobAlone
    <2>6. ~First => s # Slot(job[c].inst)
        BY <2>4, <2>5
    <2>7. First /\ b # c /\ todo[b] # {} => s # Slot(job[c].inst)
        BY <2>2, <2>5
    <2>8. s # Slot(job[c].inst) => vround'[s] = vround[s] /\ value'[s] = value[s]
        BY <1>0, <1>1, <1>2
    <2> HIDE DEF s, First
    <2>9. CASE ~First
        BY <2>1, <2>6, <2>8, <2>9
    <2>10. CASE First /\ b # c
        <3>1. todo'[b] = todo[b] /\ got'[b] = got[b]
            BY <1>0, <1>1, <2>10
        <3>2. CASE todo[b] = {}
            BY <2>1, <2>10, <3>1, <3>2
        <3>3. CASE todo[b] # {}
            BY <2>1, <2>7, <2>8, <2>10, <3>1, <3>3
        <3> QED BY <3>2, <3>3
    <2>11. CASE First /\ b = c
        <3>1. Writes(b) = {"round"} /\ s = Slot(job[c].inst)
            BY <1>4, <2>2, <2>11 DEF Writes, s
        <3>2. vround' = vround /\ value' = value /\ todo'[b] = todo[b] \ {r}
            BY <1>0, <1>1, <2>11, <3>1
        <3>3. CASE r = "vround"
            <4>1. got'[b] = [got[b] EXCEPT !.vround = vround[s]] /\ "vround" \in todo[b]
                BY <1>0, <1>1, <2>11, <3>1, <3>3
            <4>2. got'[b].vround = vround[s] /\ got'[b].value = got[b].value
                BY <1>0, <4>1 DEF Gots
            <4> QED BY <2>1, <2>11, <3>2, <3>3, <4>1, <4>2
        <3>4. CASE r = "value"
            <4>1. got'[b] = [got[b] EXCEPT !.value = value[s]] /\ "value" \in todo[b]
                BY <1>0, <1>1, <2>11, <3>1, <3>4
            <4>2. got'[b].value = value[s] /\ got'[b].vround = got[b].vround
                BY <1>0, <4>1 DEF Gots
            <4> QED BY <2>1, <2>11, <3>2, <3>4, <4>1, <4>2
        <3>5. CASE r # "vround" /\ r # "value"
            <4>1. got'[b] = got[b]
                BY <1>0, <1>1, <2>11, <3>5
            <4> QED BY <2>1, <3>2, <3>5, <4>1
        <3> QED BY <3>3, <3>4, <3>5
    <2> QED BY <2>9, <2>10, <2>11
<1> QED BY <1>6, <1>7

\* A block that takes a packet, and one that answers, leave what is due.
LEMMA HandledDue ==
    ASSUME AcceptorTypes, BlockTypes, NEW b \in Blocks, Serves(b), Serves(b)',
           NEW c \in Blocks, bb_handle(c) \/ reg_resp(c), NEW k \in DOMAIN metas
    PROVE  Due(k)' = Due(k)
<1>0. /\ todo \in [Blocks -> SUBSET {"round", "vround", "value", "datapath"}]
      /\ waiting \in [Blocks -> BOOLEAN]
      /\ got \in [Blocks -> Gots] /\ bbResp \in [Blocks -> Seq(Gots)] /\ metas \in Seq(Packets)
    BY DEF AcceptorTypes, BlockTypes
<1>1. c = b
    BY TheOne DEF bb_handle, reg_resp
<1>2. /\ metas[k].type = b /\ Due(k) = Answer(b, metas[k], Sees(b, k)) /\ k \in Nat
    BY <1>0, DueTyped, LenProperties
<1>3. metas' = metas /\ vround' = vround /\ value' = value
    BY DEF bb_handle, reg_resp
<1>4. Due(k)' = Answer(b, metas[k], Sees(b, k)')
    BY <1>2, <1>3, DueIs DEF DueSeen
<1>5. Len(bbResp[b]) \in Nat
    BY <1>0, LenProperties
<1>6. CASE bb_handle(b)
    <2>1. /\ ~waiting[b] /\ todo'[b] = {"round", "vround", "value", "datapath"} /\ bbResp' = bbResp
        BY <1>0, <1>6 DEF bb_handle
    <2>2. Sees(b, k)' = Sees(b, k)
        BY <1>3, <2>1 DEF Sees
    <2> QED BY <1>2, <1>4, <2>2
<1>7. CASE reg_resp(b)
    <2>1. /\ waiting[b] /\ ~waiting'[b] /\ todo[b] \subseteq Writes(b) /\ todo' = todo
          /\ bbResp'[b] = Append(bbResp[b], got[b])
        BY <1>0, <1>7 DEF reg_resp
    <2>2. /\ Len(bbResp'[b]) = Len(bbResp[b]) + 1 /\ bbResp'[b][Len(bbResp[b]) + 1] = got[b]
          /\ \A j \in 1 .. Len(bbResp[b]) : bbResp'[b][j] = bbResp[b][j]
        BY <1>0, <2>1, AppendProperties
    <2>3. CASE k <= Len(bbResp[b])
        <3>1. k \in 1 .. Len(bbResp[b]) /\ k <= Len(bbResp'[b])
            BY <1>0, <1>2, <1>5, <2>2, <2>3, LenProperties
        <3>2. Sees(b, k)' = Sees(b, k)
            BY <2>2, <2>3, <3>1 DEF Sees
        <3> QED BY <1>2, <1>4, <3>2
    <2>4. CASE k = Len(bbResp[b]) + 1
        <3>1. k <= Len(bbResp'[b]) /\ ~(k <= Len(bbResp[b]))
            BY <1>2, <1>5, <2>2, <2>4
        <3>2. Sees(b, k)' = got[b]
            BY <2>2, <2>4, <3>1 DEF Sees
        <3>3. b = "1A" => "vround" \notin todo[b] /\ "value" \notin todo[b]
            BY <2>1 DEF Writes
        <3>4. b = "1A" => Sees(b, k).vround = got[b].vround /\ Sees(b, k).value = got[b].value
            BY <2>1, <2>4, <3>1, <3>3 DEF Sees
        <3> QED BY <1>2, <1>4, <3>2, <3>4, SameAnswer
    <2>5. CASE ~(k <= Len(bbResp[b])) /\ k # Len(bbResp[b]) + 1
        <3>1. ~(k <= Len(bbResp'[b]))
            BY <1>2, <1>5, <2>2, <2>5
        <3>2. Sees(b, k)' = Sees(b, k)
            BY <1>3, <2>1, <2>5, <3>1 DEF Sees
        <3> QED BY <1>2, <1>4, <3>2
    <2> QED BY <2>3, <2>4, <2>5
<1> QED BY <1>1, <1>6, <1>7

\* The first answer of the served block goes with the first metadata, and the
\* others move up.
LEMMA AnsweredDue ==
    ASSUME AcceptorTypes, BlockTypes, NEW b \in Blocks, Serves(b), Serves(b)', bb_handle_resp
    PROVE  /\ metas # <<>> /\ metas' = Tail(metas) /\ out' = Append(out, Due(1))
           /\ \A k \in DOMAIN metas' : k + 1 \in DOMAIN metas /\ Due(k)' = Due(k + 1)
<1>0. bbResp \in [Blocks -> Seq(Gots)] /\ metas \in Seq(Packets)
    BY DEF AcceptorTypes, BlockTypes
<1>1. /\ metas # <<>> /\ metas' = Tail(metas) /\ UNCHANGED <<waiting, todo, got, vround, value>>
      /\ \E c \in Blocks : /\ bbResp[c] # <<>> /\ out' = Append(out, Answer(c, Head(metas), Head(bbResp[c])))
                           /\ bbResp' = [bbResp EXCEPT ![c] = Tail(bbResp[c])]
    BY DEF bb_handle_resp
<1>2. /\ bbResp[b] # <<>> /\ out' = Append(out, Answer(b, Head(metas), Head(bbResp[b])))
      /\ bbResp' = [bbResp EXCEPT ![b] = Tail(bbResp[b])]
    <2>1. PICK c \in Blocks : /\ bbResp[c] # <<>> /\ out' = Append(out, Answer(c, Head(metas), Head(bbResp[c])))
                              /\ bbResp' = [bbResp EXCEPT ![c] = Tail(bbResp[c])]
        BY <1>1
    <2>2. c = b
        BY <2>1, TheOne
    <2> QED BY <2>1, <2>2
<1>3. /\ Head(metas) = metas[1] /\ 1 \in DOMAIN metas /\ Tail(metas) \in Seq(Packets)
      /\ \A k \in DOMAIN Tail(metas) : k + 1 \in DOMAIN metas /\ Tail(metas)[k] = metas[k + 1]
    BY <1>0, <1>1, TakeOff
<1>4. /\ Head(bbResp[b]) = bbResp[b][1] /\ Len(bbResp[b]) \in Nat \ {0}
      /\ Len(Tail(bbResp[b])) = Len(bbResp[b]) - 1
      /\ \A j \in DOMAIN Tail(bbResp[b]) : Tail(bbResp[b])[j] = bbResp[b][j + 1]
      /\ DOMAIN Tail(bbResp[b]) = 1 .. Len(bbResp[b]) - 1
    <2>1. /\ Head(bbResp[b]) = bbResp[b][1] /\ Len(bbResp[b]) \in Nat \ {0}
          /\ Len(Tail(bbResp[b])) = Len(bbResp[b]) - 1 /\ Tail(bbResp[b]) \in Seq(Gots)
          /\ \A j \in DOMAIN Tail(bbResp[b]) : Tail(bbResp[b])[j] = bbResp[b][j + 1]
        BY <1>0, <1>2, TakeOff
    <2> QED BY <2>1, LenProperties
<1>5. Due(1) = Answer(b, Head(metas), Head(bbResp[b]))
    <2>1. Due(1) = Answer(b, metas[1], Sees(b, 1))
        BY <1>3, DueTyped
    <2>2. Sees(b, 1) = bbResp[b][1]
        BY <1>4 DEF Sees
    <2> QED BY <1>3, <1>4, <2>1, <2>2
<1>6. ASSUME NEW k \in DOMAIN metas' PROVE k + 1 \in DOMAIN metas /\ Due(k)' = Due(k + 1)
    <2>1. k + 1 \in DOMAIN metas /\ metas'[k] = metas[k + 1] /\ k \in Nat \ {0}
        BY <1>1, <1>3, LenProperties
    <2>2. Due(k + 1) = Answer(b, metas[k + 1], Sees(b, k + 1)) /\ metas[k + 1].type = b
        BY <2>1, DueTyped
    <2>3. Due(k)' = Answer(b, metas[k + 1], Sees(b, k)')
        BY <1>6, <2>1, <2>2, DueIs DEF DueSeen
    <2>4. bbResp'[b] = Tail(bbResp[b])
        BY <1>0, <1>2
    <2> DEFINE n == Len(bbResp[b])
    <2>5. Len(bbResp'[b]) = n - 1 /\ n \in Nat \ {0}
        BY <1>4, <2>4
    <2>6. (k = Len(bbResp'[b]) + 1 <=> k + 1 = n + 1) /\ (k <= Len(bbResp'[b]) <=> k + 1 <= n)
        <3> DEFINE u == Len(bbResp'[b])
        <3>1. u = n - 1 /\ n \in Nat \ {0} /\ k \in Nat
            BY <2>1, <2>5
        <3> HIDE DEF u, n
        <3>2. (k = u + 1 <=> k + 1 = n + 1) /\ (k <= u <=> k + 1 <= n)
            BY <3>1
        <3> QED BY <3>2 DEF u
    <2>7. CASE k + 1 <= Len(bbResp[b])
        <3>1. k \in 1 .. n - 1
            BY <2>1, <2>5, <2>7
        <3>2. bbResp'[b][k] = bbResp[b][k + 1]
            BY <1>4, <2>4, <3>1
        <3>3. Sees(b, k)' = Sees(b, k + 1)
            BY <2>6, <2>7, <3>2 DEF Sees
        <3> QED BY <2>1, <2>2, <2>3, <3>3
    <2>8. CASE ~(k + 1 <= Len(bbResp[b]))
        <3>1. Sees(b, k)' = Sees(b, k + 1)
            BY <1>1, <2>1, <2>6, <2>8 DEF Sees
        <3> QED BY <2>1, <2>2, <2>3, <3>1
    <2> QED BY <2>7, <2>8
<1> QED BY <1>1, <1>2, <1>5, <1>6

\* A packet that is looked up is answered last, with what the registers hold.
LEMMA LookedUpDue ==
    ASSUME AcceptorTypes, BlockTypes, NEW a \in Blocks, Serves(a), Serves(a)',
           NEW p \in Packets, p.type = a, metas' = Append(metas, p),
           UNCHANGED <<bbResp, waiting, todo, got, vround, value>>,
           NEW n, n = Len(metas) + 1
    PROVE  /\ \A k \in DOMAIN metas : Due(k)' = Due(k)
           /\ Due(n)' = Answer(a, p, [vround |-> vround[Slot(p.inst)], value |-> value[Slot(p.inst)]])
<1>0. metas \in Seq(Packets) /\ bbResp[a] \in Seq(Gots) /\ bbReq[a] \in Seq(Packets)
    BY DEF AcceptorTypes, BlockTypes
<1>1. /\ Len(metas) \in Nat /\ Len(metas) + 1 \in DOMAIN metas' /\ metas'[Len(metas) + 1] = p
      /\ \A k \in DOMAIN metas : k \in DOMAIN metas' /\ metas'[k] = metas[k]
    BY <1>0, PutOn
<1>2. ASSUME NEW k \in DOMAIN metas PROVE Due(k)' = Due(k)
    <2>1. metas[k].type = a /\ Due(k) = Answer(a, metas[k], Sees(a, k))
        BY DueTyped
    <2>2. k \in DOMAIN metas' /\ metas'[k] = metas[k]
        BY <1>1
    <2>3. Due(k)' = Answer(a, metas[k], Sees(a, k)')
        BY <2>1, <2>2, DueIs DEF DueSeen
    <2>4. Sees(a, k)' = Sees(a, k)
        BY <2>2 DEF Sees
    <2> QED BY <2>1, <2>3, <2>4
<1>3. n \in Nat /\ n = Len(metas) + 1
    BY <1>1
<1>4. Due(n)' = Answer(a, p, Sees(a, n)')
    <2>1. n \in DOMAIN metas' /\ metas'[n] = p
        BY <1>1, <1>3
    <2> QED BY <2>1, DueIs DEF DueSeen
<1>5. n > Taken(a)
    <2> DEFINE t == Taken(a)
               r == Len(bbReq[a])
    <2>1. Len(metas) = t + r
        BY DEF Serves
    <2>2. r \in Nat /\ t \in Nat
        <3>1. r \in Nat /\ Len(bbResp[a]) \in Nat
            BY <1>0, LenProperties
        <3>2. CASE waiting[a]
            BY <3>1, <3>2 DEF Taken
        <3>3. CASE ~waiting[a]
            BY <3>1, <3>3 DEF Taken
        <3> QED BY <3>1, <3>2, <3>3
    <2> HIDE DEF t, r
    <2>3. n > t
        BY <1>3, <2>1, <2>2
    <2> QED BY <2>3 DEF t
<1>6. ~(n <= Len(bbResp[a])) /\ ~(n = Len(bbResp[a]) + 1 /\ waiting[a])
    <2>1. Len(bbResp[a]) \in Nat
        BY <1>0, LenProperties
    <2>2. CASE waiting[a]
        <3>1. Taken(a) = Len(bbResp[a]) + 1
            BY <2>2 DEF Taken
        <3> QED BY <1>3, <1>5, <2>1, <3>1
    <2>3. CASE ~waiting[a]
        <3>1. Taken(a) = Len(bbResp[a]) + 0
            BY <2>3 DEF Taken
        <3> QED BY <1>3, <1>5, <2>1, <2>3, <3>1
    <2> QED BY <2>2, <2>3
<1>7. Sees(a, n)' = [vround |-> vround[Slot(p.inst)], value |-> value[Slot(p.inst)]]
    <2>1. metas'[n] = p
        BY <1>1, <1>3
    <2> QED BY <1>6, <2>1 DEF Sees
<1>8. Due(n)' = Answer(a, p, [vround |-> vround[Slot(p.inst)], value |-> value[Slot(p.inst)]])
    BY <1>4, <1>7
<1> QED BY <1>2, <1>8
-----------------------------------------------------------------------------
(* Every step is one of the abstract acceptor.                             *)

\* A packet that is looked up is written at once, as it were.
LEMMA LookedUpNow ==
    ASSUME AcceptorTypes, BlockTypes, BlockTypes', Apart(Lines),
           NEW a \in Blocks, NEW p \in Packets, Requested(a, p), UNCHANGED <<round, vround, value>>,
           NEW t \in Slots, t = Slot(p.inst)
    PROVE  /\ Effective("round", round)[t] = round[t]
           /\ Effective("vround", vround)[t] = vround[t]
           /\ Effective("value", value)[t] = value[t]
           /\ Effective("round", round)' = [Effective("round", round) EXCEPT ![t] = p.rnd]
           /\ Effective("vround", vround)' = IF a = "2A" THEN [Effective("vround", vround) EXCEPT ![t] = p.rnd]
                                             ELSE Effective("vround", vround)
           /\ Effective("value", value)' = IF a = "2A" THEN [Effective("value", value) EXCEPT ![t] = p.val]
                                           ELSE Effective("value", value)
<1>1. /\ \A reg \in Regs : Pending(reg, t) = {}
      /\ \A reg \in Regs, s \in Slots :
            Pending(reg, s)' = IF s = t /\ reg \in Writes(a) THEN {p} ELSE Pending(reg, s)
    <2>1. ASSUME NEW reg \in Regs, NEW s \in Slots
          PROVE  /\ Pending(reg, Slot(p.inst)) = {}
                 /\ Pending(reg, s)' = IF s = Slot(p.inst) /\ reg \in Writes(a) THEN {p} ELSE Pending(reg, s)
        BY LookedUpWritten
    <2> QED BY <2>1
<1>2. One({p}) = p
    BY DEF One
<1>3. /\ "round" \in Writes(a) /\ ("vround" \in Writes(a) <=> a = "2A")
      /\ ("value" \in Writes(a) <=> a = "2A")
      /\ "round" \in Regs /\ "vround" \in Regs /\ "value" \in Regs
    BY DEF Writes, Blocks, Regs
<1>4. /\ Written("round", p) = p.rnd /\ Written("vround", p) = p.rnd /\ Written("value", p) = p.val
    BY DEF Written
<1>5. /\ Effective("round", round)[t] = round[t] /\ Effective("vround", vround)[t] = vround[t]
      /\ Effective("value", value)[t] = value[t]
    BY <1>1, <1>3 DEF Effective
<1>6. Effective("round", round)' = [Effective("round", round) EXCEPT ![t] = p.rnd]
    <2>1. ASSUME NEW s \in Slots
          PROVE  (IF Pending("round", s)' = {} THEN round'[s] ELSE Written("round", One(Pending("round", s)')))
                 = IF s = t THEN p.rnd ELSE IF Pending("round", s) = {} THEN round[s]
                                            ELSE Written("round", One(Pending("round", s)))
        BY <1>1, <1>2, <1>3, <1>4
    <2> QED BY <2>1 DEF Effective
<1>7. Effective("vround", vround)' = IF a = "2A" THEN [Effective("vround", vround) EXCEPT ![t] = p.rnd]
                                     ELSE Effective("vround", vround)
    <2>1. ASSUME NEW s \in Slots
          PROVE  (IF Pending("vround", s)' = {} THEN vround'[s] ELSE Written("vround", One(Pending("vround", s)')))
                 = IF s = t /\ a = "2A" THEN p.rnd
                   ELSE IF Pending("vround", s) = {} THEN vround[s]
                        ELSE Written("vround", One(Pending("vround", s)))
        BY <1>1, <1>2, <1>3, <1>4
    <2>2. CASE a = "2A"
        BY <2>1, <2>2 DEF Effective
    <2>3. CASE a # "2A"
        BY <2>1, <2>3 DEF Effective
    <2> QED BY <2>2, <2>3
<1>8. Effective("value", value)' = IF a = "2A" THEN [Effective("value", value) EXCEPT ![t] = p.val]
                                   ELSE Effective("value", value)
    <2>1. ASSUME NEW s \in Slots
          PROVE  (IF Pending("value", s)' = {} THEN value'[s] ELSE Written("value", One(Pending("value", s)')))
                 = IF s = t /\ a = "2A" THEN p.val
                   ELSE IF Pending("value", s) = {} THEN value[s]
                        ELSE Written("value", One(Pending("value", s)))
        BY <1>1, <1>2, <1>3, <1>4
    <2>2. CASE a = "2A"
        BY <2>1, <2>2 DEF Effective
    <2>3. CASE a # "2A"
        BY <2>1, <2>3 DEF Effective
    <2> QED BY <2>2, <2>3
<1> QED BY <1>5, <1>6, <1>7, <1>8

\* Where neither the requests nor the registers change, nothing is written.
LEMMA LeftAlone ==
    ASSUME UNCHANGED <<bbReq, job, todo, round, vround, value>>
    PROVE  Now' = Now
<1>1. \A reg \in Regs, s \in Slots : Steady(reg, s)
    BY DEF Steady, Pending
<1> QED BY <1>1, AllSteady

\* Concatenations: an entry added behind, one that changes over, one taken in
\* front.
LEMMA CatAppend ==
    ASSUME NEW S, NEW u \in Seq(S), NEW v \in Seq(S), NEW x \in S
    PROVE  u \o Append(v, x) = Append(u \o v, x)
<1> DEFINE s == <<x>>
<1>1. Append(v, x) = v \o s
    BY AppendIsConcat
<1>2. u \o v \in Seq(S)
    BY ConcatProperties
<1>3. Append(u \o v, x) = (u \o v) \o s
    BY <1>2, AppendIsConcat
<1>4. s \in Seq(S)
    OBVIOUS
<1> HIDE DEF s
<1>5. (u \o v) \o s = u \o (v \o s)
    BY <1>4, ConcatAssociative
<1> QED BY <1>1, <1>3, <1>5

LEMMA CatTail ==
    ASSUME NEW S, NEW u \in Seq(S), NEW v \in Seq(S), u # <<>>
    PROVE  u \o v # <<>> /\ Head(u \o v) = Head(u) /\ Tail(u \o v) = Tail(u) \o v
<1> DEFINE c == u \o v
           t == Tail(u)
           d == t \o v
           m == Len(u)
           n == Len(v)
<1>1. m \in Nat \ {0} /\ t \in Seq(S) /\ Len(t) = m - 1 /\ Head(u) = u[1]
    BY TakeOff
<1>2. n \in Nat /\ \A k \in 1 .. m - 1 : t[k] = u[k + 1]
    <2>1. DOMAIN t = 1 .. m - 1
        BY <1>1, LenProperties
    <2> QED BY <2>1, TakeOff, LenProperties
<1> HIDE DEF t
<1>3. /\ c \in Seq(S) /\ Len(c) = m + n
      /\ \A i \in 1 .. m + n : c[i] = IF i <= m THEN u[i] ELSE v[i - m]
    BY ConcatProperties
<1>4. /\ d \in Seq(S) /\ Len(d) = Len(t) + n
      /\ \A i \in 1 .. Len(t) + n : d[i] = IF i <= Len(t) THEN t[i] ELSE v[i - Len(t)]
    BY <1>1, ConcatProperties
<1>5. /\ Len(d) = (m - 1) + n
      /\ \A i \in 1 .. (m - 1) + n : d[i] = IF i <= m - 1 THEN t[i] ELSE v[i - (m - 1)]
    BY <1>1, <1>4
<1> HIDE DEF c, d, m, n
<1>6. m + n # 0 /\ 1 \in 1 .. m + n /\ 1 <= m
    BY <1>1, <1>2
<1>7. c # <<>>
    BY <1>3, <1>6
<1>8. /\ Head(c) = c[1] /\ Tail(c) \in Seq(S) /\ Len(Tail(c)) = (m + n) - 1
      /\ \A k \in 1 .. (m + n) - 1 : Tail(c)[k] = c[k + 1]
    <2>1. /\ Head(c) = c[1] /\ Tail(c) \in Seq(S) /\ Len(Tail(c)) = (m + n) - 1
          /\ \A k \in DOMAIN Tail(c) : Tail(c)[k] = c[k + 1]
        BY <1>3, <1>7, TakeOff
    <2>2. DOMAIN Tail(c) = 1 .. (m + n) - 1
        BY <2>1, LenProperties
    <2> QED BY <2>1, <2>2
<1>9. Head(c) = Head(u)
    BY <1>1, <1>3, <1>6, <1>8
<1>10. (m + n) - 1 = (m - 1) + n
    BY <1>1, <1>2
<1>11. ASSUME NEW i \in 1 .. (m - 1) + n PROVE Tail(c)[i] = d[i]
    <2>1. i \in 1 .. (m + n) - 1 /\ i + 1 \in 1 .. m + n
        BY <1>1, <1>2
    <2>2. Tail(c)[i] = IF i + 1 <= m THEN u[i + 1] ELSE v[(i + 1) - m]
        BY <1>3, <1>8, <2>1
    <2>3. CASE i + 1 <= m
        <3>1. i <= m - 1 /\ i \in 1 .. m - 1
            BY <1>1, <1>2, <2>3
        <3> QED BY <1>2, <1>5, <2>2, <2>3, <3>1
    <2>4. CASE ~(i + 1 <= m)
        <3>1. ~(i <= m - 1) /\ (i + 1) - m = i - (m - 1)
            BY <1>1, <1>2, <2>4
        <3> QED BY <1>5, <2>2, <2>4, <3>1
    <2> QED BY <2>3, <2>4
<1>12. Tail(c) = d
    BY <1>4, <1>5, <1>8, <1>10, <1>11, SeqEqual
<1> QED BY <1>7, <1>9, <1>12 DEF c, d, t

LEMMA CatSlide ==
    ASSUME NEW S, NEW u \in Seq(S), NEW v \in Seq(S), v # <<>>
    PROVE  Append(u, Head(v)) \o Tail(v) = u \o v
<1> DEFINE x == Head(v)
           t == Tail(v)
           s == <<x>>
<1>1. x \in S /\ t \in Seq(S)
    BY TakeOff
<1>2. s \in Seq(S) /\ s # <<>> /\ Tail(s) = <<>>
    <2> HIDE DEF x
    <2> QED BY <1>1
<1>3. v = s \o t
    BY HeadTailProperties, AppendIsConcat, <1>1
<1>4. Append(u, x) = u \o s
    BY <1>1, AppendIsConcat
<1> HIDE DEF s, t, x
<1>5. (u \o s) \o t = u \o (s \o t)
    BY <1>1, <1>2, ConcatAssociative
<1> QED BY <1>3, <1>4, <1>5 DEF t, x

\* What is due to the packets of metas.
Dues == [k \in DOMAIN metas |-> Due(k)]

LEMMA DuesTyped ==
    ASSUME AcceptorTypes, BlockTypes, NEW b \in Blocks, Serves(b)
    PROVE  /\ Dues \in Seq(Answers) /\ Len(Dues) = Len(metas) /\ Len(metas) \in Nat
           /\ \A k \in 1 .. Len(metas) : k \in DOMAIN metas /\ Dues[k] = Due(k)
<1>1. metas \in Seq(Packets)
    BY DEF AcceptorTypes
<1>2. Len(metas) \in Nat /\ DOMAIN metas = 1 .. Len(metas)
    BY <1>1, LenProperties
<1>3. \A k \in DOMAIN metas : Due(k) \in Answers
    BY DueTyped
<1>4. Dues \in [1 .. Len(metas) -> Answers] /\ \A k \in 1 .. Len(metas) : Dues[k] = Due(k)
    BY <1>2, <1>3 DEF Dues
<1>5. Dues \in Seq(Answers) /\ DOMAIN Dues = 1 .. Len(metas)
    BY <1>2, <1>4
<1>6. Len(Dues) = Len(metas)
    BY <1>2, <1>5, LenProperties
<1> QED BY <1>2, <1>4, <1>5, <1>6

LEMMA DuesNext ==
    ASSUME AcceptorTypes', BlockTypes', NEW b \in Blocks, Serves(b)'
    PROVE  /\ Dues' \in Seq(Answers) /\ Len(Dues') = Len(metas') /\ Len(metas') \in Nat
           /\ \A k \in 1 .. Len(metas') : k \in DOMAIN metas' /\ Dues'[k] = Due(k)'
<1>1. /\ metas' \in Seq(Packets) /\ bbResp' \in [Blocks -> Seq(Gots)] /\ got' \in [Blocks -> Gots]
      /\ vround' \in [Slots -> Rounds \cup {0}] /\ value' \in [Slots -> Values]
    BY DEF AcceptorTypes, BlockTypes
<1>2. Len(metas') \in Nat /\ DOMAIN metas' = 1 .. Len(metas')
    BY <1>1, LenProperties
<1>3. ASSUME NEW k \in DOMAIN metas' PROVE Due(k)' \in Answers
    <2>1. metas'[k] \in Packets /\ k \in Nat \ {0}
        BY <1>1, LenProperties, ElementOfSeq
    <2>2. Slot(metas'[k].inst) \in Slots
        BY <2>1, SlotInRange
    <2>3. metas'[k].type = b
        BY DEF Serves
    <2>4. Due(k)' = Answer(b, metas'[k], Sees(b, k)')
        BY <2>3, DueIs DEF DueSeen
    <2>5. /\ got'[b].vround \in Rounds \cup {0} /\ got'[b].value \in Values
          /\ vround'[Slot(metas'[k].inst)] \in Rounds \cup {0} /\ value'[Slot(metas'[k].inst)] \in Values
        BY <1>1, <2>2 DEF Gots
    <2>6. Sees(b, k)' \in Gots
        <3>1. CASE k <= Len(bbResp'[b])
            <4>1. bbResp'[b] \in Seq(Gots) /\ Len(bbResp'[b]) \in Nat
                BY <1>1, LenProperties
            <4>2. bbResp'[b][k] \in Gots
                BY <2>1, <3>1, <4>1, ElementOfSeq
            <4> QED BY <3>1, <4>2 DEF Sees
        <3>2. CASE ~(k <= Len(bbResp'[b]))
            BY <2>5, <3>2 DEF Sees, Gots
        <3> QED BY <3>1, <3>2
    <2> QED BY <2>1, <2>4, <2>6, AnswerTyped
<1>4. Dues' \in [1 .. Len(metas') -> Answers] /\ \A k \in 1 .. Len(metas') : Dues'[k] = Due(k)'
    BY <1>2, <1>3 DEF Dues
<1>5. Dues' \in Seq(Answers) /\ DOMAIN Dues' = 1 .. Len(metas')
    BY <1>2, <1>4
<1>6. Len(Dues') = Len(metas')
    BY <1>2, <1>5, LenProperties
<1> QED BY <1>2, <1>4, <1>5, <1>6

\* Where the answers of the packets stay, the answers stay.
LEMMA DuesSame ==
    ASSUME metas' = metas, \A k \in DOMAIN metas : Due(k)' = Due(k)
    PROVE  Dues' = Dues
    BY DEF Dues

\* The answer that is put out is the first one that was due.
LEMMA DuesSlide ==
    ASSUME AcceptorTypes, BlockTypes, AcceptorTypes', BlockTypes',
           NEW b \in Blocks, Serves(b), Serves(b)', bb_handle_resp
    PROVE  (out \o Dues)' = out \o Dues
<1>1. /\ metas # <<>> /\ metas' = Tail(metas) /\ out' = Append(out, Due(1))
      /\ \A k \in DOMAIN metas' : k + 1 \in DOMAIN metas /\ Due(k)' = Due(k + 1)
    BY AnsweredDue
<1>2. metas \in Seq(Packets) /\ out \in Seq(Answers)
    BY DEF AcceptorTypes, BlockTypes
<1> DEFINE n == Len(metas)
           m == Len(metas')
<1>3. n \in Nat \ {0} /\ m = n - 1
    BY <1>1, <1>2, TakeOff
<1>4. Dues \in Seq(Answers) /\ Len(Dues) = n /\ \A k \in 1 .. n : Dues[k] = Due(k)
    BY DuesTyped
<1>5. /\ Dues' \in Seq(Answers) /\ Len(Dues') = m
      /\ \A k \in 1 .. m : k \in DOMAIN metas' /\ Dues'[k] = Due(k)'
    BY DuesNext
<1> HIDE DEF n, m
<1>6. Dues # <<>>
    BY <1>3, <1>4
<1>7. /\ Head(Dues) = Dues[1] /\ Tail(Dues) \in Seq(Answers) /\ Len(Tail(Dues)) = n - 1
      /\ \A k \in DOMAIN Tail(Dues) : Tail(Dues)[k] = Dues[k + 1]
    BY <1>4, <1>6, TakeOff
<1>8. DOMAIN Tail(Dues) = 1 .. n - 1
    BY <1>7, LenProperties
<1>9. ASSUME NEW k \in 1 .. n - 1 PROVE Dues'[k] = Tail(Dues)[k]
    <2>1. Dues'[k] = Due(k + 1)
        BY <1>1, <1>3, <1>5
    <2>2. k + 1 \in 1 .. n
        BY <1>3
    <2>3. Tail(Dues)[k] = Due(k + 1)
        BY <1>4, <1>7, <1>8, <2>2
    <2> QED BY <2>1, <2>3
<1>10. Dues' = Tail(Dues)
    BY <1>3, <1>5, <1>7, <1>9, SeqEqual
<1>11. Due(1) = Head(Dues)
    BY <1>3, <1>4, <1>7
<1>12. out' \o Dues' = Append(out, Head(Dues)) \o Tail(Dues)
    BY <1>1, <1>10, <1>11
<1> QED BY <1>2, <1>4, <1>6, <1>12, CatSlide

\* A packet that is looked up is the last to be answered.
LEMMA DuesAppend ==
    ASSUME AcceptorTypes, BlockTypes, AcceptorTypes', BlockTypes',
           NEW a \in Blocks, Serves(a), Serves(a)',
           NEW p \in Packets, p.type = a, metas' = Append(metas, p),
           UNCHANGED <<bbResp, waiting, todo, got, vround, value, out>>
    PROVE  (out \o Dues)' = Append(out \o Dues, Answer(a, p, [vround |-> vround[Slot(p.inst)],
                                                              value |-> value[Slot(p.inst)]]))
<1> DEFINE z == Answer(a, p, [vround |-> vround[Slot(p.inst)], value |-> value[Slot(p.inst)]])
           n == Len(metas)
           m == Len(metas')
<1>1. metas \in Seq(Packets) /\ out \in Seq(Answers)
    BY DEF AcceptorTypes, BlockTypes
<1>2. n \in Nat /\ m = n + 1
    BY <1>1, PutOn
<1>3. Dues \in Seq(Answers) /\ Len(Dues) = n /\ \A k \in 1 .. n : k \in DOMAIN metas /\ Dues[k] = Due(k)
    BY DuesTyped
<1>4. Dues' \in Seq(Answers) /\ Len(Dues') = m /\ \A k \in 1 .. m : Dues'[k] = Due(k)'
    BY DuesNext
<1>5. \A k \in DOMAIN metas : Due(k)' = Due(k)
    <2>1. PICK l : l = Len(metas) + 1
        OBVIOUS
    <2> QED BY <2>1, LookedUpDue
<1>6. \A l : l = n + 1 => Due(l)' = z
    <2> SUFFICES ASSUME NEW l, l = Len(metas) + 1 PROVE Due(l)' = z
        OBVIOUS
    <2> QED BY LookedUpDue
<1>7. z \in Answers
    <2>1. Slot(p.inst) \in Slots
        BY SlotInRange
    <2>2. [vround |-> vround[Slot(p.inst)], value |-> value[Slot(p.inst)]] \in Gots
        BY <2>1 DEF AcceptorTypes, Gots
    <2> QED BY <2>2, AnswerTyped
<1> HIDE DEF n, m, z
<1>8. /\ Append(Dues, z) \in Seq(Answers) /\ Len(Append(Dues, z)) = n + 1
      /\ \A k \in 1 .. n : Append(Dues, z)[k] = Dues[k]
      /\ Append(Dues, z)[n + 1] = z
    BY <1>3, <1>7, AppendProperties
<1>9. ASSUME NEW k \in 1 .. n + 1 PROVE Dues'[k] = Append(Dues, z)[k]
    <2>1. CASE k = n + 1
        BY <1>2, <1>4, <1>6, <1>8, <2>1
    <2>2. CASE k \in 1 .. n
        BY <1>2, <1>3, <1>4, <1>5, <1>8, <2>2
    <2>3. k = n + 1 \/ k \in 1 .. n
        BY <1>2
    <2> QED BY <2>1, <2>2, <2>3
<1>10. Dues' = Append(Dues, z)
    BY <1>2, <1>4, <1>8, <1>9, SeqEqual
<1>11. out \o Append(Dues, z) = Append(out \o Dues, z)
    BY <1>1, <1>3, <1>7, CatAppend
<1> QED BY <1>10, <1>11 DEF z

\* What the abstract acceptor depends on.
pipeline == <<read, lookQ, metas, bbReq, job, todo, waiting, got, bbResp, out, round, vround, value, torn>>

\* The rest of the program leaves it alone.
LEMMA Elsewhere ==
    ASSUME role_reg_write \/ role_tbl_next_control_state \/ CoordinatorRules \/ UNCHANGED vars
    PROVE  UNCHANGED pipeline
<1>1. CASE role_reg_write \/ role_tbl_next_control_state
    BY <1>1 DEF role_reg_write, role_tbl_next_control_state, acceptor, pipeline
<1>2. CASE CoordinatorRules
    BY <1>2 DEF CoordinatorRules, bb_increase_instance, instance_load, increased_reg_resp,
                sequence_tbl_next_control_state, acceptor, pipeline
<1>3. CASE UNCHANGED vars
    BY <1>3 DEF vars, acceptor, pipeline
<1> QED BY <1>1, <1>2, <1>3

LEMMA StepCases ==
    ASSUME [Next]_vars
    PROVE  \/ AcceptorRules
           \/ role_reg_write \/ role_tbl_next_control_state \/ CoordinatorRules \/ UNCHANGED vars
    BY DEF Next, Rules, AcceptorRules, CoordinatorRules

\* Packets that have come too close stay so.
LEMMA TornOnce ==
    ASSUME torn \in BOOLEAN, AcceptorRules, ~torn'
    PROVE  ~torn
<1>1. CASE bb_round
    BY <1>1 DEF bb_round
<1>2. CASE lookup_response
    BY <1>2 DEF lookup_response
<1>3. ASSUME torn' = torn PROVE ~torn
    BY <1>3
<1>4. CASE round_tbl_next_control_state \/ bb_handle_resp \/ transmit
    BY <1>3, <1>4 DEF round_tbl_next_control_state, bb_handle_resp, transmit
<1>5. ASSUME NEW b \in Blocks, bb_handle(b) \/ reg_resp(b) PROVE ~torn
    BY <1>3, <1>5 DEF bb_handle, reg_resp
<1>6. ASSUME NEW b \in Blocks, NEW r \in {"round", "vround", "value", "datapath"}, loadRequest(b, r)
      PROVE  ~torn
    BY <1>3, <1>6 DEF loadRequest
<1> QED BY <1>1, <1>2, <1>4, <1>5, <1>6 DEF AcceptorRules

\* The packets start and stay in step.
LEMMA StepsStart ==
    ASSUME Init, IInv
    PROVE  StepsInv
<1>1. AcceptorTypes
    BY Halves DEF IInv
<1>2. BlockTypes
    <2>1. NothingRead \in Gots
        BY PaxosAssumption DEF NothingRead, Gots, Values
    <2> QED BY <2>1 DEF Init, BlockTypes
<1>3. Apart(Lines)
    <2>1. \A x \in Stages : \A k \in DOMAIN Lines[x] : FALSE
        <3>1. ByName
            BY LinesAre
        <3>2. /\ SlotsRead(<<>>) = <<>> /\ SlotsOf(<<>>) = <<>>
            BY DEF SlotsRead, SlotsOf
        <3>3. /\ Lines[<<"read", "">>] = <<>> /\ Lines[<<"look", "">>] = <<>>
              /\ \A b \in Blocks : Lines[<<"req", b>>] = <<>> /\ Lines[<<"job", b>>] = <<>>
            BY <3>1, <3>2 DEF ByName, Init
        <3>4. \A x \in Stages : Lines[x] = <<>>
            BY <3>3, StagesAre
        <3> QED BY <3>4
    <2> QED BY <2>1 DEF Apart
<1>4. RoundsSeen
    BY DEF Init, RoundsSeen
<1>5. Serves("1A")
    <2>1. /\ Len(metas) = 0 /\ \A b \in Blocks : Len(bbResp[b]) = 0 /\ Len(bbReq[b]) = 0
        BY DEF Init
    <2>2. Taken("1A") = 0
        BY <2>1 DEF Taken, Init, Blocks
    <2> QED BY <2>1, <2>2 DEF Serves, Init, Blocks
<1>6. "1A" \in Blocks
    BY DEF Blocks
<1> QED BY <1>1, <1>2, <1>3, <1>4, <1>5, <1>6 DEF StepsInv, InStep

LEMMA StepsKept ==
    ASSUME IInv', StepsInv, [Next]_vars
    PROVE  StepsInv'
<1>0. AcceptorTypes' /\ torn \in BOOLEAN
    BY Halves DEF IInv, TypeOK, AcceptorTypes, StepsInv
<1>1. CASE AcceptorRules
    <2>1. BlockTypes'
        BY <1>1, BlockTypesKept DEF StepsInv
    <2>2. ASSUME ~torn' PROVE InStep'
        <3>1. InStep
            BY <1>0, <1>1, <2>2, TornOnce DEF StepsInv
        <3>2. Apart(Lines)'
            BY <1>1, <2>2, <3>1, ApartKept DEF StepsInv, InStep
        <3>3. RoundsSeen'
            BY <1>1, <3>1, RoundsKept DEF StepsInv, InStep
        <3>4. PICK b \in Blocks : Serves(b)
            BY <3>1 DEF InStep
        <3>5. \E c \in Blocks : Serves(c)'
            BY <1>1, <2>2, <3>4, ServesKept DEF StepsInv
        <3> QED BY <3>2, <3>3, <3>5 DEF InStep
    <2> QED BY <1>0, <2>1, <2>2 DEF StepsInv
<1>2. CASE UNCHANGED pipeline
    <2>1. BlockTypes'
        BY <1>2 DEF StepsInv, BlockTypes, pipeline
    <2>2. ASSUME ~torn' PROVE InStep'
        <3>1. InStep
            BY <1>2, <2>2 DEF StepsInv, pipeline
        <3>2. Lines' = Lines
            BY <1>2 DEF Lines, Line, pipeline
        <3>3. Apart(Lines)'
            BY <3>1, <3>2 DEF InStep
        <3>4. RoundsSeen'
            BY <1>2, <3>1 DEF InStep, RoundsSeen, pipeline
        <3>5. PICK b \in Blocks : Serves(b)
            BY <3>1 DEF InStep
        <3>6. Serves(b)'
            BY <1>2, <3>5 DEF Serves, Taken, pipeline
        <3> QED BY <3>3, <3>4, <3>5, <3>6 DEF InStep
    <2> QED BY <1>0, <2>1, <2>2 DEF StepsInv
<1> QED BY <1>1, <1>2, StepCases, Elsewhere

\* One packet of a slot at a time is between the read of its round and its
\* last write: what it has read is still true, and metadata and answers are of
\* one block.  It holds until packets have come too close.
THEOREM Steps == Spec => []StepsInv
<1>1. Init /\ IInv => StepsInv
    BY StepsStart
<1>2. IInv' /\ StepsInv /\ [Next]_vars => StepsInv'
    BY StepsKept
<1>3. Spec => []IInv
    BY Invariance
<1> QED BY <1>1, <1>2, <1>3, PTL DEF Spec

\* A step that the abstract acceptor does not see.
LEMMA Unseen ==
    ASSUME Now' = Now, (out \o Dues)' = out \o Dues, torn' = torn
    PROVE  UNCHANGED Acceptor!vars
    BY DEF Now, Dues, Acceptor!vars

\* A message is handled when its block gets it.
LEMMA LookupSteps ==
    ASSUME StepsInv, StepsInv', ~torn, ~torn', lookup_response,
           NEW b \in Blocks, Serves(b), Serves(b)'
    PROVE  [Acceptor!Next]_(Acceptor!vars)
<1> DEFINE p == Head(lookQ)
<1>0. /\ AcceptorTypes /\ BlockTypes /\ AcceptorTypes' /\ BlockTypes' /\ Apart(Lines) /\ RoundsSeen
      /\ lookQ \in Seq(Packets) /\ torn' = torn
    BY DEF StepsInv, InStep, AcceptorTypes
<1>1. /\ lookQ # <<>>
      /\ UNCHANGED <<job, todo, waiting, got, bbResp, out, round, vround, value>>
      /\ \/ bbReq' = bbReq /\ metas' = metas
         \/ /\ p.type \in Blocks /\ metas' = Append(metas, p)
            /\ bbReq' = [bbReq EXCEPT ![p.type] = Append(bbReq[p.type], p)]
    BY DEF lookup_response
<1>2. p \in Packets /\ 1 \in DOMAIN lookQ /\ p = lookQ[1]
    BY <1>0, <1>1, TakeOff
<1>3. Slot(p.inst) \in Slots /\ p.rnd \in Rounds /\ p.val \in Values /\ p.inst \in Insts
    BY <1>2, SlotInRange DEF Packets
<1>4. round[Slot(p.inst)] <= p.rnd
    BY <1>0, <1>2 DEF RoundsSeen
<1>5. CASE bbReq' = bbReq /\ metas' = metas
    <2>1. Now' = Now
        BY <1>1, <1>5, LeftAlone
    <2>2. ASSUME NEW k \in DOMAIN metas PROVE Due(k)' = Due(k)
        BY <1>1, <1>5 DEF Due
    <2>3. (out \o Dues)' = out \o Dues
        BY <1>1, <1>5, <2>2, DuesSame
    <2> QED BY <1>0, <2>1, <2>3, Unseen
<1>6. ASSUME p.type \in Blocks, metas' = Append(metas, p),
             bbReq' = [bbReq EXCEPT ![p.type] = Append(bbReq[p.type], p)]
      PROVE  Acceptor!Next
    <2> SUFFICES ASSUME NEW a \in Blocks, a = p.type, NEW t \in Slots, t = Slot(p.inst),
                        NEW q \in Packets, q = p
                 PROVE  Acceptor!Next
        BY <1>2, <1>3, <1>6
    <2> DEFINE E == Effective("round", round)
               F == Effective("vround", vround)
               V == Effective("value", value)
    <2>1. Requested(a, q)
        BY <1>1, <1>6 DEF Requested
    <2> HIDE DEF p
    <2>2. a = b
        <3>1. bbReq'[a] = Append(bbReq[a], q) /\ bbReq[a] \in Seq(Packets)
            BY <1>0, <1>6 DEF AcceptorTypes
        <3>2. bbReq'[a] # <<>>
            BY <3>1
        <3> QED BY <3>2 DEF Serves
    <2>3. /\ E[t] = round[t] /\ F[t] = vround[t] /\ V[t] = value[t]
          /\ E' = [E EXCEPT ![t] = q.rnd]
          /\ F' = IF a = "2A" THEN [F EXCEPT ![t] = q.rnd] ELSE F
          /\ V' = IF a = "2A" THEN [V EXCEPT ![t] = q.val] ELSE V
        BY <1>0, <1>1, <2>1, LookedUpNow
    <2>4. (out \o Dues)' = Append(out \o Dues, Answer(a, q, [vround |-> vround[t], value |-> value[t]]))
        BY <1>0, <1>1, <1>6, <2>2, DuesAppend
    <2>5. q.rnd >= E[t]
        <3>1. round[t] \in Nat /\ q.rnd \in Nat
            <4>1. \A x \in Rounds \cup {0} : x \in Nat
                BY PaxosAssumption DEF Rounds
            <4>2. round[t] \in Rounds \cup {0} /\ q.rnd \in Rounds
                BY <1>0, <1>3 DEF AcceptorTypes
            <4> QED BY <4>1, <4>2
        <3> QED BY <1>4, <2>3, <3>1
    <2> DEFINE A == out \o Dues
    <2>6. A = out \o [k \in DOMAIN metas |-> Due(k)]
        BY DEF Dues
    <2>7. A' = (out \o [k \in DOMAIN metas |-> Due(k)])'
        BY DEF Dues
    <2> HIDE DEF E, F, V, A
    <2>8. CASE a = "1A"
        <3>1. Answer(a, q, [vround |-> vround[t], value |-> value[t]])
                = [type |-> "1B", inst |-> q.inst, rnd |-> q.rnd, vrnd |-> F[t], val |-> V[t]]
            BY <2>3, <2>8 DEF Answer
        <3>2. Acceptor!Handle1A(q.inst, q.rnd)
            BY <2>3, <2>4, <2>5, <2>6, <2>7, <2>8, <3>1 DEF Acceptor!Handle1A, Acceptor!Slot, Slot, E, F, V, A
        <3> QED BY <1>3, <3>2 DEF Acceptor!Next
    <2>9. CASE a = "2A"
        <3>1. Answer(a, q, [vround |-> vround[t], value |-> value[t]])
                = [type |-> "2B", inst |-> q.inst, rnd |-> q.rnd, vrnd |-> 0, val |-> q.val]
            BY <2>9 DEF Answer
        <3>2. Acceptor!Handle2A(q.inst, q.rnd, q.val)
            BY <2>3, <2>4, <2>5, <2>6, <2>7, <2>9, <3>1 DEF Acceptor!Handle2A, Acceptor!Slot, Slot, E, F, V, A
        <3> QED BY <1>3, <3>2 DEF Acceptor!Next
    <2> QED BY <2>8, <2>9 DEF Blocks
<1> QED BY <1>1, <1>5, <1>6

\* An answer that leaves is sent.
LEMMA TransmitSteps ==
    ASSUME StepsInv, ~torn, ~torn', transmit, NEW b \in Blocks, Serves(b)
    PROVE  Acceptor!Next
<1>1. /\ AcceptorTypes /\ BlockTypes /\ out # <<>> /\ out' = Tail(out)
      /\ UNCHANGED <<metas, bbReq, job, todo, waiting, got, bbResp, round, vround, value>>
    BY DEF StepsInv, transmit
<1>2. Now' = Now
    BY <1>1, LeftAlone
<1>3. ASSUME NEW k \in DOMAIN metas PROVE Due(k)' = Due(k)
    BY <1>1 DEF Due
<1>4. Dues' = Dues
    BY <1>1, <1>3, DuesSame
<1>5. out \in Seq(Answers) /\ Dues \in Seq(Answers)
    BY <1>1, DuesTyped DEF BlockTypes
<1>6. out \o Dues # <<>> /\ Tail(out \o Dues) = Tail(out) \o Dues
    BY <1>1, <1>5, CatTail
<1>7. (out \o Dues)' = Tail(out \o Dues)
    BY <1>1, <1>4, <1>6
<1>8. /\ out \o [k \in DOMAIN metas |-> Due(k)] # <<>>
      /\ (out \o [k \in DOMAIN metas |-> Due(k)])' = Tail(out \o [k \in DOMAIN metas |-> Due(k)])
    BY <1>6, <1>7 DEF Dues
<1> QED BY <1>2, <1>8 DEF Now, Acceptor!Next, Acceptor!Send

\* Every step of the program is one of the abstract acceptor or none.
LEMMA AcceptorStep ==
    ASSUME StepsInv, StepsInv', [Next]_vars
    PROVE  [Acceptor!Next]_(Acceptor!vars)
<1>1. CASE torn'
    BY <1>1 DEF Acceptor!Next
<1>2. CASE UNCHANGED pipeline
    <2>1. UNCHANGED <<bbReq, job, todo, waiting, got, bbResp, metas, round, vround, value, out, torn>>
        BY <1>2 DEF pipeline
    <2>2. Now' = Now
        BY <2>1, LeftAlone
    <2>3. ASSUME NEW k \in DOMAIN metas PROVE Due(k)' = Due(k)
        BY <2>1 DEF Due
    <2>4. (out \o Dues)' = out \o Dues
        BY <2>1, <2>3, DuesSame
    <2> QED BY <2>1, <2>2, <2>4, Unseen
<1>3. ASSUME ~torn', AcceptorRules PROVE [Acceptor!Next]_(Acceptor!vars)
    <2>0. /\ AcceptorTypes /\ BlockTypes /\ AcceptorTypes' /\ BlockTypes'
          /\ torn \in BOOLEAN /\ torn' \in BOOLEAN
        BY DEF StepsInv, AcceptorTypes
    <2>1. ~torn /\ torn' = torn
        BY <1>3, <2>0, TornOnce
    <2>2. Apart(Lines) /\ RoundsSeen /\ \E b \in Blocks : Serves(b)
        BY <2>1 DEF StepsInv, InStep
    <2>3. PICK b \in Blocks : Serves(b) /\ Serves(b)'
        BY <1>3, <2>0, <2>2, ServesKept
    <2>4. ASSUME Now' = Now, metas' = metas, out' = out, \A k \in DOMAIN metas : Due(k)' = Due(k)
          PROVE  UNCHANGED Acceptor!vars
        <3>1. (out \o Dues)' = out \o Dues
            BY <2>4, DuesSame
        <3> QED BY <2>1, <2>4, <3>1, Unseen
    <2>5. CASE bb_round \/ round_tbl_next_control_state
        <3>1. UNCHANGED <<bbReq, job, todo, waiting, got, bbResp, metas, round, vround, value, out>>
            BY <2>5 DEF bb_round, round_tbl_next_control_state
        <3>2. Now' = Now
            BY <3>1, LeftAlone
        <3>3. ASSUME NEW k \in DOMAIN metas PROVE Due(k)' = Due(k)
            BY <3>1 DEF Due
        <3> QED BY <2>4, <3>1, <3>2, <3>3
    <2>6. CASE lookup_response
        BY <1>3, <2>1, <2>3, <2>6, LookupSteps
    <2>7. ASSUME NEW c \in Blocks, bb_handle(c) PROVE UNCHANGED Acceptor!vars
        <3>1. metas' = metas /\ out' = out /\ UNCHANGED <<round, vround, value>>
            BY <2>7 DEF bb_handle
        <3>2. \A reg \in Regs, s \in Slots : Steady(reg, s)
            BY <2>0, <2>7, HandedSteady
        <3>3. Now' = Now
            BY <3>1, <3>2, AllSteady
        <3>4. \A k \in DOMAIN metas : Due(k)' = Due(k)
            BY <2>0, <2>3, <2>7, HandledDue
        <3> QED BY <2>4, <3>1, <3>3, <3>4
    <2>8. ASSUME NEW c \in Blocks, reg_resp(c) PROVE UNCHANGED Acceptor!vars
        <3>1. metas' = metas /\ out' = out /\ UNCHANGED <<bbReq, job, todo, round, vround, value>>
            BY <2>8 DEF reg_resp
        <3>2. Now' = Now
            BY <3>1, LeftAlone
        <3>3. \A k \in DOMAIN metas : Due(k)' = Due(k)
            BY <2>0, <2>3, <2>8, HandledDue
        <3> QED BY <2>4, <3>1, <3>2, <3>3
    <2>9. ASSUME NEW c \in Blocks, NEW r \in {"round", "vround", "value", "datapath"}, loadRequest(c, r)
          PROVE  UNCHANGED Acceptor!vars
        <3>1. metas' = metas /\ out' = out
            BY <2>9 DEF loadRequest
        <3>2. Now' = Now
            BY <2>0, <2>2, <2>9, LoadedSame
        <3>3. \A k \in DOMAIN metas : Due(k)' = Due(k)
            BY <2>0, <2>2, <2>3, <2>9, LoadedDue
        <3> QED BY <2>4, <3>1, <3>2, <3>3
    <2>10. CASE bb_handle_resp
        <3>1. UNCHANGED <<bbReq, job, todo, round, vround, value>>
            BY <2>10 DEF bb_handle_resp
        <3>2. Now' = Now
            BY <3>1, LeftAlone
        <3>3. (out \o Dues)' = out \o Dues
            BY <2>0, <2>3, <2>10, DuesSlide
        <3> QED BY <2>1, <3>2, <3>3, Unseen
    <2>11. CASE transmit
        BY <1>3, <2>1, <2>3, <2>11, TransmitSteps
    <2> QED BY <1>3, <2>5, <2>6, <2>7, <2>8, <2>9, <2>10, <2>11 DEF AcceptorRules
<1> QED BY <1>1, <1>2, <1>3, StepCases, Elsewhere

LEMMA AcceptorStart ==
    ASSUME Init
    PROVE  Acceptor!Init
<1>1. \A reg, s : Pending(reg, s) = {}
    <2>1. UNION {ToSet(bbReq[b]) : b \in Blocks} = {}
        BY DEF Init, ToSet
    <2>2. \A reg : {b \in Blocks : reg \in todo[b] \cap Writes(b)} = {}
        BY DEF Init
    <2> QED BY <2>1, <2>2 DEF Pending
<1>2. \A reg, file : Effective(reg, file) = [s \in Slots |-> file[s]]
    BY <1>1 DEF Effective
<1>3. /\ Effective("round", round) = [s \in Slots |-> 0]
      /\ Effective("vround", vround) = [s \in Slots |-> 0]
      /\ Effective("value", value) = [s \in Slots |-> 0]
    BY <1>2 DEF Init
<1>4. out \o [k \in DOMAIN metas |-> Due(k)] = <<>>
    <2>1. metas = <<>> /\ out = <<>>
        BY DEF Init
    <2>2. [k \in DOMAIN metas |-> Due(k)] = <<>>
        BY <2>1
    <2> QED BY <2>1, <2>2
<1> QED BY <1>3, <1>4 DEF Init, Acceptor!Init, Slots

\* The pipeline of the data plane implements an acceptor that handles one
\* message at a time, until packets come too close, for any number of
\* instances, any messages and any depth of the queues.
THEOREM Refinement == Spec => ImplementsAcceptor
<1>1. Init => Acceptor!Init
    BY AcceptorStart
<1>2. StepsInv /\ StepsInv' /\ [Next]_vars => [Acceptor!Next]_(Acceptor!vars)
    BY AcceptorStep
<1>3. Spec => []StepsInv
    BY Steps
<1> QED BY <1>1, <1>2, <1>3, PTL DEF Spec, ImplementsAcceptor, Acceptor!Spec
=============================================================================

------------------------ MODULE DtpHandshake_proofs -------------------------
(***************************************************************************)
(* Proofs about DtpHandshake, for every latency of the link, all intervals *)
(* and all runs of blocks that DTP cannot use.                             *)
(***************************************************************************)
EXTENDS DtpHandshake, SequenceTheorems, TLAPS

-----------------------------------------------------------------------------
(* Arithmetic.                                                             *)

\* The rest of a division.
LEMMA ModRange == ASSUME NEW x \in Int, NEW m \in Nat, m > 0 PROVE x % m \in 0 .. m - 1
    OBVIOUS

\* A number below the modulus is its own rest.
LEMMA ModSmall == ASSUME NEW x \in Nat, NEW m \in Nat, x < m PROVE x % m = x
    OBVIOUS

\* Half of a number.
LEMMA Halved ==
    ASSUME NEW x \in Nat
    PROVE  x \div 2 \in 0 .. x /\ \A k \in Nat : 2 * k <= x => k <= x \div 2
    OBVIOUS

\* A measured delay is a time.
LEMMA MeasuredType ==
    ASSUME NEW ts \in Int, cycle \in Int PROVE MeasuredDelay(ts) \in Time
<1> DEFINE x == (cycle - ts - 3) % TimeMod
<1>1. TimeMod \in Nat /\ TimeMod > 0
    BY HandshakeAssumption
<1>2. cycle - ts - 3 \in Int
    OBVIOUS
<1>3. x \in 0 .. TimeMod - 1
    BY <1>1, <1>2, ModRange
<1>4. MeasuredDelay(ts) = x \div 2
    BY DEF MeasuredDelay
<1> HIDE DEF x
<1>5. x \div 2 \in 0 .. x
    BY <1>3, Halved
<1>6. 0 .. x \subseteq Time
    BY <1>1, <1>3 DEF Time
<1> QED BY <1>4, <1>5, <1>6

-----------------------------------------------------------------------------
(* Types.                                                                  *)

\* The constants, as numbers.
LEMMA Constants ==
    /\ Latency \in Nat /\ Latency >= 3
    /\ CycleMod \in Nat /\ CycleMod > 0
    /\ TimeMod \in Nat /\ TimeMod > 0 /\ CycleMod <= TimeMod
    /\ \A p \in Ports : Interval[p] \in Nat /\ Interval[p] > 0 /\ MaxBusy[p] \in Nat
    /\ 0 \in Time /\ Time \subseteq Nat
<1>1. \A p \in Ports : Interval[p] \in Nat /\ Interval[p] > 0 /\ MaxBusy[p] \in Nat
    BY HandshakeAssumption
<1> QED BY <1>1, HandshakeAssumption DEF Time

\* What the rules of a port do in one cycle.
Step(p, ev, blk) ==
    /\ busy'[p] = IF blk = "idle" THEN 0 ELSE busy[p] + 1
    /\ curr_state'[p] = NextState(p, ev, blk)
    /\ timeout_count_init'[p] = NextInitCount(p, ev, blk)
    /\ timeout_count_sync'[p] = NextSyncCount(p, blk)
    /\ delay'[p] = IF Measures(p, ev) THEN MeasuredDelay(AckStamp(p, ev)) ELSE delay[p]
    /\ ackTs'[p] = IF Measures(p, ev) THEN NoTs ELSE AckStamp(p, ev)
    /\ initTs'[p] = IF Outgoing(p, ev, blk).e = "ack" THEN NoTs ELSE InitStamp(p, ev)
    /\ txMuxSelFifo'[p] = IF Outgoing(p, ev, blk).e # "none"
                          THEN Tail(Mux(p, ev, blk)) ELSE Mux(p, ev, blk)
    /\ stageOneFifo'[p] = (IF TxStage2Fires(p, ev, blk)
                           THEN Tail(stageOneFifo[p]) ELSE stageOneFifo[p])
                          \o (IF TxStage1Fires(p) THEN <<blk>> ELSE <<>>)
    /\ tokens'[p] = tokens[p] - (IF tokens[p] > 0 THEN 1 ELSE 0)
                              + (IF TxStage1Fires(p) THEN 1 ELSE 0)

\* A cycle is a step of each port, with the blocks and the messages of that
\* cycle.
LEMMA CycleSteps ==
    ASSUME NEW blk \in [Ports -> Blocks], NEW lost \in [Ports -> BOOLEAN], Cycle(blk, lost)
    PROVE  /\ cycle' = (cycle + 1) % CycleMod /\ up' = up
           /\ \A p \in Ports : Step(p, Received(p, lost[p]), blk[p])
           /\ \A p \in Ports : link'[p] = Append(Tail(link[p]),
                 Outgoing(Peer(p), Received(Peer(p), lost[Peer(p)]), blk[Peer(p)]))
           /\ curr_state' = [p \in Ports |-> curr_state'[p]]
           /\ delay' = [p \in Ports |-> delay'[p]]
           /\ initTs' = [p \in Ports |-> initTs'[p]]
           /\ ackTs' = [p \in Ports |-> ackTs'[p]]
           /\ tokens' = [p \in Ports |-> tokens'[p]]
<1> DEFINE P(ev, out) ==
        /\ busy' = [p \in Ports |-> IF blk[p] = "idle" THEN 0 ELSE busy[p] + 1]
        /\ cycle' = (cycle + 1) % CycleMod
        /\ curr_state' = [p \in Ports |-> NextState(p, ev[p], blk[p])]
        /\ timeout_count_init' = [p \in Ports |-> NextInitCount(p, ev[p], blk[p])]
        /\ timeout_count_sync' = [p \in Ports |-> NextSyncCount(p, blk[p])]
        /\ delay' = [p \in Ports |-> IF Measures(p, ev[p])
                                     THEN MeasuredDelay(AckStamp(p, ev[p])) ELSE delay[p]]
        /\ ackTs' = [p \in Ports |-> IF Measures(p, ev[p]) THEN NoTs ELSE AckStamp(p, ev[p])]
        /\ initTs' = [p \in Ports |-> IF out[p].e = "ack" THEN NoTs ELSE InitStamp(p, ev[p])]
        /\ txMuxSelFifo' = [p \in Ports |->
              IF out[p].e # "none" THEN Tail(Mux(p, ev[p], blk[p])) ELSE Mux(p, ev[p], blk[p])]
        /\ stageOneFifo' = [p \in Ports |->
              (IF TxStage2Fires(p, ev[p], blk[p])
               THEN Tail(stageOneFifo[p]) ELSE stageOneFifo[p])
              \o (IF TxStage1Fires(p) THEN <<blk[p]>> ELSE <<>>)]
        /\ tokens' = [p \in Ports |->
              tokens[p] - (IF tokens[p] > 0 THEN 1 ELSE 0)
                        + (IF TxStage1Fires(p) THEN 1 ELSE 0)]
        /\ link' = [p \in Ports |-> Append(Tail(link[p]), out[Peer(p)])]
        /\ up' = up
<1>0. PICK ev \in {[p \in Ports |-> Received(p, lost[p])]} :
            \E out \in {[p \in Ports |-> Outgoing(p, ev[p], blk[p])]} : P(ev, out)
    BY DEF Cycle
<1>1. PICK out \in {[p \in Ports |-> Outgoing(p, ev[p], blk[p])]} : P(ev, out)
    BY <1>0
<1>2. \A p \in Ports : ev[p] = Received(p, lost[p])
    OBVIOUS
<1>3. \A p \in Ports : out[p] = Outgoing(p, Received(p, lost[p]), blk[p])
    BY <1>2
<1>4. \A p \in Ports : Peer(p) \in Ports
    BY DEF Ports, Peer
<1>5. ASSUME NEW p \in Ports PROVE Step(p, Received(p, lost[p]), blk[p])
    BY <1>1, <1>2, <1>3 DEF Step
<1>6. ASSUME NEW p \in Ports
      PROVE  link'[p] = Append(Tail(link[p]),
                 Outgoing(Peer(p), Received(Peer(p), lost[Peer(p)]), blk[Peer(p)]))
    BY <1>1, <1>3, <1>4
<1>7. /\ curr_state' = [p \in Ports |-> curr_state'[p]]
      /\ delay' = [p \in Ports |-> delay'[p]]
      /\ initTs' = [p \in Ports |-> initTs'[p]]
      /\ ackTs' = [p \in Ports |-> ackTs'[p]]
      /\ tokens' = [p \in Ports |-> tokens'[p]]
    BY <1>1
<1> QED BY <1>1, <1>5, <1>6, <1>7

\* The types of what one port holds.
Queue(q, S, n) == q \in Seq(S) /\ Len(q) <= n

PortType(p) ==
    /\ curr_state[p] \in {"INIT", "SENT", "SYNC"}
    /\ timeout_count_init[p] \in 0 .. Interval[p]
    /\ timeout_count_sync[p] \in 0 .. Interval[p] - 1
    /\ delay[p] \in Time
    /\ Queue(txMuxSelFifo[p], {"init", "ack", "beacon"}, 3)
    /\ Queue(stageOneFifo[p], Blocks, 2)
    /\ initTs[p] \in Time \cup {NoTs}
    /\ ackTs[p] \in Time \cup {NoTs}
    /\ tokens[p] \in 0 .. 2
    /\ link[p] \in Seq(Message) /\ Len(link[p]) = Latency
    /\ busy[p] \in 0 .. MaxBusy[p]

\* TypeOK, port by port.
Parts ==
    /\ cycle \in 0 .. CycleMod - 1
    /\ up \in [Ports -> BOOLEAN]
    /\ curr_state = [p \in Ports |-> curr_state[p]]
    /\ delay = [p \in Ports |-> delay[p]]
    /\ initTs = [p \in Ports |-> initTs[p]]
    /\ ackTs = [p \in Ports |-> ackTs[p]]
    /\ tokens = [p \in Ports |-> tokens[p]]
    /\ \A p \in Ports : PortType(p)

\* Before and after a step.
LEMMA TypeParts == (TypeOK <=> Parts) /\ (TypeOK' <=> Parts')
<1>1. TypeOK => Parts
    BY DEF TypeOK, Parts, PortType, Queue
<1>2. Parts => TypeOK
    BY DEF TypeOK, Parts, PortType, Queue
<1>3. TypeOK' => Parts'
    BY DEF TypeOK, Parts, PortType, Queue
<1>4. Parts' => TypeOK'
    BY DEF TypeOK, Parts, PortType, Queue
<1> QED BY <1>1, <1>2, <1>3, <1>4

\* What a queue that is not empty gives.
LEMMA Front ==
    ASSUME NEW S, NEW q \in Seq(S), q # <<>>
    PROVE  /\ Head(q) \in S /\ Tail(q) \in Seq(S)
           /\ Len(q) \in Nat /\ Len(q) > 0 /\ Len(Tail(q)) = Len(q) - 1
           /\ Head(q) = q[1] /\ \A k \in 1 .. Len(q) - 1 : Tail(q)[k] = q[k + 1]
    OBVIOUS

\* delay_measurment and beacon put at most one message into txMuxSelFifo, if
\* it has room.
LEMMA MuxType ==
    ASSUME NEW p \in Ports, PortType(p), NEW ev, NEW blk
    PROVE  Queue(Mux(p, ev, blk), {"init", "ack", "beacon"}, 3)
<1> DEFINE M == {"init", "ack", "beacon"}
           q == txMuxSelFifo[p]
           s == Selected(p, ev, blk)
<1>1. q \in Seq(M) /\ Len(q) \in Nat /\ Len(q) <= 3
    BY DEF PortType, Queue
<1>2. \/ s = <<>>
      \/ NotFull(p) /\ \E m \in M : s = <<m>>
    BY DEF Selected
<1>3. Mux(p, ev, blk) = q \o s
    BY DEF Mux
<1>4. CASE s = <<>>
    <2>1. q \o <<>> = q
        BY <1>1
    <2> QED BY <1>1, <1>3, <1>4, <2>1 DEF Queue
<1>5. CASE NotFull(p) /\ \E m \in M : s = <<m>>
    <2>1. PICK m \in M : s = <<m>>
        BY <1>5
    <2>2. Len(q) < 3
        BY <1>5 DEF NotFull
    <2> HIDE DEF q, s, M
    <2>3. q \o <<m>> \in Seq(M) /\ Len(q \o <<m>>) = Len(q) + 1
        BY <1>1
    <2>4. Len(q \o <<m>>) <= 3
        BY <1>1, <2>2, <2>3
    <2> QED BY <1>3, <2>1, <2>3, <2>4 DEF Queue, M
<1> QED BY <1>2, <1>4, <1>5

\* What a port receives is a message, and nothing but what its link carries.
LEMMA ReceivedType ==
    ASSUME NEW p \in Ports, PortType(p), NEW l
    PROVE  /\ Received(p, l) \in Message
           /\ Received(p, l).e # "none" => Received(p, l) = link[p][1]
<1>1. link[p] \in Seq(Message) /\ Len(link[p]) = Latency /\ Latency >= 3 /\ Latency \in Nat
    BY Constants DEF PortType
<1>2. link[p] # <<>>
    BY <1>1
<1>3. Head(link[p]) \in Message /\ Head(link[p]) = link[p][1]
    BY <1>1, <1>2, Front
<1>4. Nothing \in Message /\ Nothing.e = "none"
    BY Constants DEF Nothing, Message
<1> QED BY <1>3, <1>4 DEF Received

\* The timestamps of the one-entry FIFOs.
LEMMA StampTypes ==
    ASSUME NEW p \in Ports, PortType(p), NEW ev \in Message
    PROVE  /\ InitStamp(p, ev) \in Time \cup {NoTs}
           /\ AckStamp(p, ev) \in Time \cup {NoTs}
           /\ ev.e = "ack" => AckStamp(p, ev) \in Time
           /\ AckStamp(p, ev) \in Int
<1>1. ev.t \in Time /\ NoTs \in Int /\ Time \subseteq Int
    BY Constants DEF Message, NoTs
<1> QED BY <1>1 DEF PortType, InitStamp, AckStamp

\* What a port sends is a message, and an ack carries a timestamp.
LEMMA OutgoingType ==
    ASSUME NEW p \in Ports, PortType(p), NEW ev \in Message, NEW blk, cycle \in Int
    PROVE  /\ Outgoing(p, ev, blk) \in Message
           /\ Outgoing(p, ev, blk).e # "none" => Mux(p, ev, blk) # <<>>
           /\ Outgoing(p, ev, blk).e = "init" => Outgoing(p, ev, blk).t = (cycle + 1) % TimeMod
           /\ Outgoing(p, ev, blk).e = "ack" =>
                 Outgoing(p, ev, blk).t = InitStamp(p, ev) /\ InitStamp(p, ev) \in Time
<1> DEFINE q == Mux(p, ev, blk)
           M == {"init", "ack", "beacon"}
           m == Sends(p, ev, blk)
           i == InitStamp(p, ev)
           o == Outgoing(p, ev, blk)
<1>1. q \in Seq(M)
    BY MuxType DEF Queue
<1>2. q # <<>> => Head(q) \in M
    BY <1>1, Front
<1>3. \/ m = "none"
      \/ q # <<>> /\ m \in M /\ (m = "ack" => i # NoTs)
    BY <1>2 DEF Sends, Offers, TxStage2Fires
<1>4. i \in Time \cup {NoTs}
    BY StampTypes
<1>5. (cycle + 1) % TimeMod \in Time
    <2>1. cycle + 1 \in Int
        OBVIOUS
    <2> QED BY <2>1, Constants, ModRange DEF Time
<1>6. o = CASE m = "init" -> [e |-> "init", t |-> (cycle + 1) % TimeMod]
            [] m = "ack"  -> [e |-> "ack", t |-> i]
            [] m = "beacon" -> [e |-> "beacon", t |-> 0]
            [] m = "none" -> Nothing
    BY DEF Outgoing
<1> HIDE DEF q, m, i, o
<1>7. CASE m = "none"
    BY <1>6, <1>7, Constants DEF Nothing, Message, o, q, i
<1>8. CASE m = "init"
    BY <1>3, <1>5, <1>6, <1>8 DEF Message, o, q, i
<1>9. CASE m = "ack"
    BY <1>3, <1>4, <1>6, <1>9 DEF Message, o, q, i
<1>10. CASE m = "beacon"
    BY <1>3, <1>6, <1>10, Constants DEF Message, o, q, i
<1> QED BY <1>3, <1>7, <1>8, <1>9, <1>10

\* tx_stage1 and tx_stage2 keep stageOneFifo within its two entries.
LEMMA StageType ==
    ASSUME NEW p \in Ports, PortType(p), NEW ev, NEW blk \in Blocks, NEW fires \in BOOLEAN,
           fires => stageOneFifo[p] # <<>>
    PROVE  Queue((IF fires THEN Tail(stageOneFifo[p]) ELSE stageOneFifo[p])
                 \o (IF TxStage1Fires(p) THEN <<blk>> ELSE <<>>), Blocks, 2)
<1> DEFINE q == stageOneFifo[p]
           a == IF fires THEN Tail(q) ELSE q
           b == IF TxStage1Fires(p) THEN <<blk>> ELSE <<>>
<1>1. q \in Seq(Blocks) /\ Len(q) \in Nat /\ Len(q) <= 2
    BY DEF PortType, Queue
<1>2. a \in Seq(Blocks) /\ Len(a) \in Nat /\ Len(a) <= Len(q)
    BY <1>1, Front
<1>3. \/ b = <<>>
      \/ b = <<blk>> /\ Len(q) < 2
    BY DEF TxStage1Fires
<1> HIDE DEF q, a, b
<1>4. CASE b = <<>>
    <2>1. a \o <<>> = a
        BY <1>2
    <2>2. Len(a) <= 2
        BY <1>1, <1>2
    <2> QED BY <1>2, <1>4, <2>1, <2>2 DEF Queue, a, b, q
<1>5. CASE b = <<blk>> /\ Len(q) < 2
    <2>1. a \o <<blk>> \in Seq(Blocks) /\ Len(a \o <<blk>>) = Len(a) + 1
        BY <1>2
    <2>2. Len(a \o <<blk>>) <= 2
        BY <1>1, <1>2, <1>5, <2>1
    <2> QED BY <1>5, <2>1, <2>2 DEF Queue, a, b, q
<1> QED BY <1>3, <1>4, <1>5

\* One cycle of a port, without its link, keeps its types.
LEMMA StepTypes ==
    ASSUME NEW p \in Ports, PortType(p), NEW ev \in Message, NEW blk \in Blocks, cycle \in Int,
           blk # "idle" => busy[p] < MaxBusy[p], Step(p, ev, blk),
           link'[p] \in Seq(Message), Len(link'[p]) = Latency
    PROVE  PortType(p)'
<1>1. curr_state'[p] \in {"INIT", "SENT", "SYNC"}
    <2>1. tokens[p] = 0 \/ tokens[p] > 0
        BY DEF PortType
    <2>2. curr_state[p] \in {"INIT", "SENT", "SYNC"}
        BY DEF PortType
    <2>3. curr_state'[p] = NextState(p, ev, blk)
        BY DEF Step
    <2>4. CASE tokens[p] = 0
        BY <2>2, <2>3, <2>4 DEF NextState
    <2>5. CASE tokens[p] > 0
        <3>1. tokens[p] # 0
            BY <2>5
        <3> QED BY <2>2, <2>3, <2>5, <3>1 DEF NextState
    <2> QED BY <2>1, <2>4, <2>5
<1>2. /\ timeout_count_init'[p] \in 0 .. Interval[p]
      /\ timeout_count_sync'[p] \in 0 .. Interval[p] - 1
    <2> DEFINE c == timeout_count_init[p]
               d == timeout_count_sync[p]
    <2>1. /\ c \in 0 .. Interval[p] /\ d \in 0 .. Interval[p] - 1
          /\ Interval[p] \in Nat /\ tokens[p] \in 0 .. 2
        BY Constants DEF PortType
    <2>2. \/ NextInitCount(p, ev, blk) \in {0, c}
          \/ c < Interval[p] /\ NextInitCount(p, ev, blk) = c + 1
        BY <2>1 DEF NextInitCount, InitDue
    <2>3. \/ NextSyncCount(p, blk) \in {0, d}
          \/ d < Interval[p] - 1 /\ NextSyncCount(p, blk) = d + 1
        BY <2>1 DEF NextSyncCount, BeaconDue
    <2> QED BY <2>1, <2>2, <2>3 DEF Step
<1>3. delay'[p] \in Time
    <2>1. AckStamp(p, ev) \in Int
        BY StampTypes
    <2>2. MeasuredDelay(AckStamp(p, ev)) \in Time
        BY <2>1, MeasuredType
    <2> QED BY <2>2 DEF Step, PortType
<1>4. Queue(txMuxSelFifo'[p], {"init", "ack", "beacon"}, 3)
    <2> DEFINE q == Mux(p, ev, blk)
    <2>1. Queue(q, {"init", "ack", "beacon"}, 3)
        BY MuxType
    <2>2. \/ txMuxSelFifo'[p] = q
          \/ q # <<>> /\ txMuxSelFifo'[p] = Tail(q)
        BY OutgoingType DEF Step
    <2> HIDE DEF q
    <2>3. CASE txMuxSelFifo'[p] = q
        BY <2>1, <2>3
    <2>4. CASE q # <<>> /\ txMuxSelFifo'[p] = Tail(q)
        BY <2>1, <2>4, Front DEF Queue
    <2> QED BY <2>2, <2>3, <2>4
<1>5. Queue(stageOneFifo'[p], Blocks, 2)
    <2>1. TxStage2Fires(p, ev, blk) \in BOOLEAN
          /\ (TxStage2Fires(p, ev, blk) => stageOneFifo[p] # <<>>)
        BY DEF TxStage2Fires
    <2> QED BY <2>1, StageType DEF Step
<1>6. initTs'[p] \in Time \cup {NoTs} /\ ackTs'[p] \in Time \cup {NoTs}
    BY StampTypes DEF Step
<1>7. tokens'[p] \in 0 .. 2
    <2>1. tokens[p] \in 0 .. 2
        BY DEF PortType
    <2>2. TxStage1Fires(p) => tokens[p] < 2
        BY DEF TxStage1Fires
    <2> QED BY <2>1, <2>2 DEF Step
<1>8. busy'[p] \in 0 .. MaxBusy[p]
    <2>1. busy[p] \in 0 .. MaxBusy[p] /\ MaxBusy[p] \in Nat
        BY Constants DEF PortType
    <2> QED BY <2>1 DEF Step
<1> QED BY <1>1, <1>2, <1>3, <1>4, <1>5, <1>6, <1>7, <1>8 DEF PortType, Queue

\* What a Tick gives.
LEMMA TickSteps ==
    ASSUME Parts, Tick
    PROVE  \E ev \in [Ports -> Message], blk \in [Ports -> Blocks] :
            /\ cycle' = (cycle + 1) % CycleMod /\ up' = up
            /\ \A p \in Ports :
                /\ blk[p] # "idle" => up[p] /\ busy[p] < MaxBusy[p]
                /\ ev[p].e # "none" => ev[p] = link[p][1]
                /\ Step(p, ev[p], blk[p])
                /\ link'[p] = Append(Tail(link[p]), Outgoing(Peer(p), ev[Peer(p)], blk[Peer(p)]))
            /\ curr_state' = [p \in Ports |-> curr_state'[p]]
            /\ delay' = [p \in Ports |-> delay'[p]]
            /\ initTs' = [p \in Ports |-> initTs'[p]]
            /\ ackTs' = [p \in Ports |-> ackTs'[p]]
            /\ tokens' = [p \in Ports |-> tokens'[p]]
<1>1. PICK blk \in [Ports -> Blocks], lost \in [Ports -> BOOLEAN] :
            /\ \A p \in Ports : blk[p] # "idle" => up[p] /\ busy[p] < MaxBusy[p]
            /\ Cycle(blk, lost)
    BY DEF Tick
<1> DEFINE ev == [p \in Ports |-> Received(p, lost[p])]
<1>2. \A p \in Ports : PortType(p)
    BY DEF Parts
<1>3. /\ ev \in [Ports -> Message]
      /\ \A p \in Ports : ev[p] = Received(p, lost[p]) /\ (ev[p].e # "none" => ev[p] = link[p][1])
    BY <1>2, ReceivedType
<1>4. \A p \in Ports : Peer(p) \in Ports
    BY DEF Ports, Peer
<1> HIDE DEF ev
<1>5. /\ cycle' = (cycle + 1) % CycleMod /\ up' = up
      /\ curr_state' = [p \in Ports |-> curr_state'[p]]
      /\ delay' = [p \in Ports |-> delay'[p]]
      /\ initTs' = [p \in Ports |-> initTs'[p]]
      /\ ackTs' = [p \in Ports |-> ackTs'[p]]
      /\ tokens' = [p \in Ports |-> tokens'[p]]
    BY <1>1, CycleSteps
<1>6. ASSUME NEW p \in Ports
      PROVE  /\ Step(p, ev[p], blk[p])
             /\ link'[p] = Append(Tail(link[p]), Outgoing(Peer(p), ev[Peer(p)], blk[Peer(p)]))
    <2>1. Step(p, Received(p, lost[p]), blk[p])
        BY <1>1, CycleSteps
    <2>2. link'[p] = Append(Tail(link[p]),
                Outgoing(Peer(p), Received(Peer(p), lost[Peer(p)]), blk[Peer(p)]))
        BY <1>1, CycleSteps
    <2> QED BY <1>3, <1>4, <2>1, <2>2
<1> QED BY <1>1, <1>3, <1>5, <1>6

\* A link keeps its length and carries messages.
LEMMA LinkTypes ==
    ASSUME NEW S, NEW q \in Seq(S), NEW m \in S, NEW n \in Nat, n > 0, Len(q) = n
    PROVE  LET r == Append(Tail(q), m)
           IN  /\ r \in Seq(S) /\ Len(r) = n /\ r[n] = m
               /\ \A k \in 1 .. n - 1 : r[k] = q[k + 1]
<1>1. q # <<>>
    OBVIOUS
<1>2. Tail(q) \in Seq(S) /\ Len(Tail(q)) = n - 1 /\ \A k \in 1 .. n - 1 : Tail(q)[k] = q[k + 1]
    BY <1>1, Front
<1> QED BY <1>2

\* The variables keep their types.
LEMMA TypesKept == Parts /\ [Next]_vars => Parts'
<1> SUFFICES ASSUME Parts, [Next]_vars PROVE Parts'
    OBVIOUS
<1>1. CASE Tick
    <2>1. PICK ev \in [Ports -> Message], blk \in [Ports -> Blocks] :
            /\ cycle' = (cycle + 1) % CycleMod /\ up' = up
            /\ \A p \in Ports :
                /\ blk[p] # "idle" => up[p] /\ busy[p] < MaxBusy[p]
                /\ ev[p].e # "none" => ev[p] = link[p][1]
                /\ Step(p, ev[p], blk[p])
                /\ link'[p] = Append(Tail(link[p]), Outgoing(Peer(p), ev[Peer(p)], blk[Peer(p)]))
            /\ curr_state' = [p \in Ports |-> curr_state'[p]]
            /\ delay' = [p \in Ports |-> delay'[p]]
            /\ initTs' = [p \in Ports |-> initTs'[p]]
            /\ ackTs' = [p \in Ports |-> ackTs'[p]]
            /\ tokens' = [p \in Ports |-> tokens'[p]]
        BY <1>1, TickSteps
    <2>2. cycle \in Int /\ cycle' \in 0 .. CycleMod - 1
        <3>1. cycle \in Int /\ cycle + 1 \in Int
            BY Constants DEF Parts
        <3> QED BY <2>1, <3>1, Constants, ModRange
    <2>3. ASSUME NEW p \in Ports PROVE PortType(p)'
        <3> DEFINE m == Outgoing(Peer(p), ev[Peer(p)], blk[Peer(p)])
        <3>1. Peer(p) \in Ports
            BY DEF Ports, Peer
        <3>2. PortType(p) /\ PortType(Peer(p))
            BY <3>1 DEF Parts
        <3>3. m \in Message
            BY <2>2, <3>1, <3>2, OutgoingType
        <3>4. link[p] \in Seq(Message) /\ Len(link[p]) = Latency /\ Latency \in Nat /\ Latency > 0
            BY <3>2, Constants DEF PortType
        <3>5. link'[p] = Append(Tail(link[p]), m)
            BY <2>1
        <3> HIDE DEF m
        <3>6. link'[p] \in Seq(Message) /\ Len(link'[p]) = Latency
            BY <3>3, <3>4, <3>5, LinkTypes
        <3> QED BY <2>1, <2>2, <3>2, <3>6, StepTypes
    <2> QED BY <2>1, <2>2, <2>3 DEF Parts
<1>2. ASSUME NEW p \in Ports, LinkUp(p) PROVE Parts'
    BY <1>2 DEF LinkUp, Parts, PortType, portVars, timeouts
<1>3. CASE UNCHANGED vars
    BY <1>3 DEF vars, Parts, PortType, portVars, timeouts
<1> QED BY <1>1, <1>2, <1>3 DEF Next

\* They have these types after reset.
LEMMA TypesStart == Init => Parts
<1> SUFFICES ASSUME Init PROVE Parts
    OBVIOUS
<1>1. ASSUME NEW p \in Ports PROVE PortType(p)
    <2>1. link[p] = [i \in 1 .. Latency |-> Nothing]
        BY DEF Init
    <2>2. Nothing \in Message
        BY Constants DEF Nothing, Message
    <2>3. link[p] \in Seq(Message) /\ Len(link[p]) = Latency
        BY <2>1, <2>2, Constants
    <2> QED BY <2>3, Constants DEF Init, PortType, Queue, Blocks
<1> QED BY <1>1, Constants DEF Init, Parts

\* The FIFOs of both ports keep their depths, and the line its length.
THEOREM Types == Spec => []TypeOK
<1>1. Parts => TypeOK
    BY TypeParts
<1> QED BY <1>1, TypesStart, TypesKept, PTL DEF Spec

-----------------------------------------------------------------------------
(* How old the timestamps are.  A timestamp is the cycle in which an init  *)
(* leaves a port, and every place that it passes through is the latency of *)
(* the link, or twice that, away from there.                               *)

\* The message at position i of a link.
MsgOld(m, i, now) ==
    /\ m.e = "init" => m.t + (Latency - i) <= now
    /\ m.e = "ack" => m.t + (2 * Latency - i) <= now

Old(p) ==
    /\ \A i \in 1 .. Latency : MsgOld(link[p][i], i, cycle)
    /\ initTs[p] # NoTs => initTs[p] + Latency <= cycle
    /\ ackTs[p] # NoTs => ackTs[p] + 2 * Latency <= cycle

\* What port p has measured.
Measured(p) ==
    /\ delay[p] = 0 \/ delay[p] >= Latency - 2
    /\ curr_state[p] = "SYNC" => delay[p] >= Latency - 2

IInv == Parts /\ \A p \in Ports : Old(p) /\ Measured(p)

\* What an ack that has crossed the link twice as an init and an answer
\* measures, as long as the cycle register has not wrapped.
LEMMA MeasuresEnough ==
    ASSUME NEW ts \in Nat, cycle \in Nat, cycle < TimeMod, ts + (2 * Latency - 1) <= cycle
    PROVE  MeasuredDelay(ts) \in Nat /\ MeasuredDelay(ts) >= Latency - 2
<1> DEFINE x == cycle - ts - 3
           k == Latency - 2
<1>1. x \in Nat /\ x < TimeMod /\ k \in Nat /\ 2 * k <= x
    BY Constants
<1>2. MeasuredDelay(ts) = (x % TimeMod) \div 2
    BY DEF MeasuredDelay
<1> HIDE DEF x
<1>3. x % TimeMod = x
    BY <1>1, Constants, ModSmall
<1>4. x \div 2 \in 0 .. x /\ k <= x \div 2
    BY <1>1, Halved
<1> QED BY <1>1, <1>2, <1>3, <1>4

\* What has just been received is as old as the link is long.
LEMMA ReceivedOld ==
    ASSUME NEW p \in Ports, Old(p), NEW ev \in Message, ev.e # "none" => ev = link[p][1]
    PROVE  MsgOld(ev, 1, cycle)
<1>1. 1 \in 1 .. Latency
    BY Constants
<1>2. ev.e # "none" => MsgOld(ev, 1, cycle)
    BY <1>1 DEF Old
<1>3. ev.e = "none" => MsgOld(ev, 1, cycle)
    BY DEF MsgOld
<1> QED BY <1>2, <1>3

\* The timestamp at hand for an ack has crossed the link once.
LEMMA InitStampOld ==
    ASSUME NEW p \in Ports, PortType(p), Old(p), NEW ev \in Message, MsgOld(ev, 1, cycle),
           cycle \in Nat, InitStamp(p, ev) # NoTs
    PROVE  InitStamp(p, ev) \in Nat /\ InitStamp(p, ev) + Latency <= cycle + 1
<1>1. Latency \in Nat /\ Time \subseteq Nat
    BY Constants
<1>2. CASE ev.e = "init" /\ initTs[p] = NoTs
    <2>1. InitStamp(p, ev) = ev.t /\ ev.t \in Nat /\ ev.t + (Latency - 1) <= cycle
        BY <1>1, <1>2 DEF InitStamp, MsgOld, Message
    <2> QED BY <1>1, <2>1
<1>3. CASE ~ (ev.e = "init" /\ initTs[p] = NoTs)
    <2>1. InitStamp(p, ev) = initTs[p]
        BY <1>3 DEF InitStamp
    <2>2. initTs[p] \in Nat /\ initTs[p] + Latency <= cycle
        BY <1>1, <2>1 DEF Old, PortType
    <2> QED BY <1>1, <2>1, <2>2
<1> QED BY <1>2, <1>3

\* The timestamp of an ack has crossed it twice.
LEMMA AckStampOld ==
    ASSUME NEW p \in Ports, PortType(p), Old(p), NEW ev \in Message, MsgOld(ev, 1, cycle),
           cycle \in Nat, AckStamp(p, ev) # NoTs
    PROVE  AckStamp(p, ev) \in Nat /\ AckStamp(p, ev) + (2 * Latency - 1) <= cycle
<1>1. Latency \in Nat /\ Time \subseteq Nat
    BY Constants
<1>2. CASE ev.e = "ack" /\ ackTs[p] = NoTs
    BY <1>1, <1>2 DEF AckStamp, MsgOld, Message
<1>3. CASE ~ (ev.e = "ack" /\ ackTs[p] = NoTs)
    <2>1. AckStamp(p, ev) = ackTs[p]
        BY <1>3 DEF AckStamp
    <2>2. ackTs[p] \in Nat /\ ackTs[p] + 2 * Latency <= cycle
        BY <1>1, <2>1 DEF Old, PortType
    <2> QED BY <1>1, <2>1, <2>2
<1> QED BY <1>2, <1>3

\* What leaves a port is as old as the place it takes on the link.
LEMMA SentOld ==
    ASSUME NEW p \in Ports, PortType(p), Old(p), NEW ev \in Message, NEW blk,
           MsgOld(ev, 1, cycle), cycle \in Nat, cycle + 1 < TimeMod
    PROVE  MsgOld(Outgoing(p, ev, blk), Latency, cycle + 1)
<1> DEFINE m == Outgoing(p, ev, blk)
<1>1. Latency \in Nat /\ Time \subseteq Nat /\ TimeMod \in Nat
    BY Constants
<1>2. ASSUME m.e = "init" PROVE m.t + (Latency - Latency) <= cycle + 1
    <2>1. m.t = (cycle + 1) % TimeMod
        BY <1>2, OutgoingType
    <2>2. (cycle + 1) % TimeMod = cycle + 1
        <3>1. cycle + 1 \in Nat
            OBVIOUS
        <3> QED BY <1>1, <3>1, ModSmall
    <2> QED BY <1>1, <2>1, <2>2
<1>3. ASSUME m.e = "ack" PROVE m.t + (2 * Latency - Latency) <= cycle + 1
    <2>1. m.t = InitStamp(p, ev) /\ InitStamp(p, ev) \in Time
        BY <1>3, OutgoingType
    <2>2. InitStamp(p, ev) # NoTs
        BY <1>1, <2>1 DEF NoTs
    <2>3. InitStamp(p, ev) \in Nat /\ InitStamp(p, ev) + Latency <= cycle + 1
        BY <2>2, InitStampOld
    <2> QED BY <1>1, <2>1, <2>3
<1> QED BY <1>2, <1>3 DEF MsgOld

\* One cycle of a port, without its link.
LEMMA StepOld ==
    ASSUME NEW p \in Ports, PortType(p), Old(p), Measured(p),
           NEW ev \in Message, NEW blk, MsgOld(ev, 1, cycle), Step(p, ev, blk),
           cycle \in Nat, cycle < TimeMod
    PROVE  /\ initTs'[p] # NoTs => initTs'[p] + Latency <= cycle + 1
           /\ ackTs'[p] # NoTs => ackTs'[p] + 2 * Latency <= cycle + 1
           /\ Measured(p)'
<1>1. Latency \in Nat /\ Latency >= 3 /\ Time \subseteq Nat
    BY Constants
<1>2. initTs'[p] # NoTs => initTs'[p] + Latency <= cycle + 1
    BY InitStampOld DEF Step
<1>3. ackTs'[p] # NoTs => ackTs'[p] + 2 * Latency <= cycle + 1
    <2>1. ASSUME ackTs'[p] # NoTs
          PROVE  ackTs'[p] + 2 * Latency <= cycle + 1
        <3>1. ackTs'[p] = AckStamp(p, ev) /\ AckStamp(p, ev) # NoTs
            BY <2>1 DEF Step
        <3>2. AckStamp(p, ev) \in Nat /\ AckStamp(p, ev) + (2 * Latency - 1) <= cycle
            BY <3>1, AckStampOld
        <3> QED BY <1>1, <3>1, <3>2
    <2> QED BY <2>1
<1>4. Measures(p, ev) => delay'[p] \in Nat /\ delay'[p] >= Latency - 2
    <2>1. ASSUME Measures(p, ev) PROVE delay'[p] \in Nat /\ delay'[p] >= Latency - 2
        <3>1. AckStamp(p, ev) \in Time
            BY <2>1, StampTypes DEF Measures
        <3>2. AckStamp(p, ev) # NoTs
            BY <1>1, <3>1 DEF NoTs
        <3>3. AckStamp(p, ev) \in Nat /\ AckStamp(p, ev) + (2 * Latency - 1) <= cycle
            BY <3>2, AckStampOld
        <3>4. delay'[p] = MeasuredDelay(AckStamp(p, ev))
            BY <2>1 DEF Step
        <3> QED BY <3>3, <3>4, MeasuresEnough
    <2> QED BY <2>1
<1>5. ~ Measures(p, ev) => delay'[p] = delay[p]
    BY DEF Step
<1>6. curr_state'[p] = "SYNC" => curr_state[p] = "SYNC" \/ Measures(p, ev)
    <2>1. tokens[p] \in 0 .. 2 /\ curr_state[p] \in {"INIT", "SENT", "SYNC"}
          /\ curr_state'[p] = NextState(p, ev, blk)
        BY DEF PortType, Step
    <2>2. CASE tokens[p] = 0
        BY <2>1, <2>2 DEF NextState
    <2>3. CASE tokens[p] > 0
        <3>1. tokens[p] # 0
            BY <2>3
        <3>2. CASE curr_state[p] = "INIT"
            BY <2>1, <2>3, <3>1, <3>2 DEF NextState
        <3>3. CASE curr_state[p] = "SENT"
            <4>1. NextState(p, ev, blk) = "SYNC" => ev.e = "ack"
                BY <2>3, <3>1, <3>3 DEF NextState
            <4> QED BY <2>1, <2>3, <3>3, <4>1 DEF Measures
        <3> QED BY <2>1, <3>2, <3>3
    <2> QED BY <2>1, <2>2, <2>3
<1>7. Measured(p)'
    BY <1>4, <1>5, <1>6 DEF Measured
<1> QED BY <1>2, <1>3, <1>7

\* Until the cycle register wraps, every step keeps the invariant.
LEMMA OldKept == IInv /\ cycle < CycleMod - 1 /\ [Next]_vars => IInv'
<1> SUFFICES ASSUME IInv, cycle < CycleMod - 1, [Next]_vars PROVE IInv'
    OBVIOUS
<1>0. Parts /\ Parts' /\ \A p \in Ports : PortType(p) /\ Old(p) /\ Measured(p)
    BY TypesKept DEF IInv, Parts
<1>1. /\ cycle \in Nat /\ cycle + 1 < CycleMod /\ cycle + 1 < TimeMod /\ cycle < TimeMod
      /\ Latency \in Nat /\ Latency >= 3
    BY <1>0, Constants DEF Parts
<1>2. CASE Tick
    <2>1. PICK ev \in [Ports -> Message], blk \in [Ports -> Blocks] :
            /\ cycle' = (cycle + 1) % CycleMod
            /\ \A p \in Ports :
                /\ ev[p].e # "none" => ev[p] = link[p][1]
                /\ Step(p, ev[p], blk[p])
                /\ link'[p] = Append(Tail(link[p]), Outgoing(Peer(p), ev[Peer(p)], blk[Peer(p)]))
        BY <1>0, <1>2, TickSteps
    <2>2. cycle' = cycle + 1
        <3>1. cycle + 1 \in Nat
            BY <1>1
        <3> QED BY <1>1, <2>1, <3>1, Constants, ModSmall
    <2>3. \A p \in Ports : MsgOld(ev[p], 1, cycle)
        BY <1>0, <2>1, ReceivedOld
    <2>4. ASSUME NEW p \in Ports PROVE Old(p)' /\ Measured(p)'
        <3> DEFINE o == Peer(p)
                   m == Outgoing(o, ev[o], blk[o])
        <3>1. o \in Ports
            BY DEF Ports, Peer
        <3> HIDE DEF o
        <3>2. m \in Message /\ MsgOld(m, Latency, cycle + 1)
            BY <1>0, <1>1, <2>3, <3>1, OutgoingType, SentOld
        <3>3. link[p] \in Seq(Message) /\ Len(link[p]) = Latency
            BY <1>0 DEF PortType
        <3>4. link'[p] = Append(Tail(link[p]), m)
            BY <2>1 DEF o
        <3> HIDE DEF m
        <3>5. /\ link'[p][Latency] = m
              /\ \A i \in 1 .. Latency - 1 : link'[p][i] = link[p][i + 1]
            BY <1>1, <3>2, <3>3, <3>4, LinkTypes
        <3>6. ASSUME NEW i \in 1 .. Latency PROVE MsgOld(link'[p][i], i, cycle + 1)
            <4>1. CASE i = Latency
                BY <3>2, <3>5, <4>1
            <4>2. CASE i \in 1 .. Latency - 1
                <5> DEFINE x == link[p][i + 1]
                <5>1. i + 1 \in 1 .. Latency /\ link'[p][i] = x
                    BY <1>1, <3>5, <4>2
                <5>2. MsgOld(x, i + 1, cycle)
                    BY <1>0, <5>1 DEF Old
                <5>3. x \in Message
                    BY <3>3, <5>1
                <5> HIDE DEF x
                <5>4. x.t \in Nat
                    BY <5>3, Constants DEF Message
                <5>5. MsgOld(x, i, cycle + 1)
                    BY <1>1, <5>2, <5>4 DEF MsgOld
                <5> QED BY <5>1, <5>5
            <4> QED BY <1>1, <4>1, <4>2
        <3>7. /\ initTs'[p] # NoTs => initTs'[p] + Latency <= cycle + 1
              /\ ackTs'[p] # NoTs => ackTs'[p] + 2 * Latency <= cycle + 1
              /\ Measured(p)'
            BY <1>0, <1>1, <2>1, <2>3, StepOld
        <3> QED BY <2>2, <3>6, <3>7 DEF Old
    <2> QED BY <1>0, <2>4 DEF IInv
<1>3. ASSUME NEW p \in Ports, LinkUp(p) PROVE IInv'
    BY <1>0, <1>3 DEF LinkUp, IInv, Old, Measured, portVars, timeouts
<1>4. CASE UNCHANGED vars
    BY <1>0, <1>4 DEF vars, IInv, Old, Measured, portVars, timeouts
<1> QED BY <1>2, <1>3, <1>4 DEF Next

\* The invariant holds after reset.
LEMMA OldStart == Init => IInv
<1> SUFFICES ASSUME Init PROVE IInv
    OBVIOUS
<1>1. ASSUME NEW p \in Ports, NEW i \in 1 .. Latency PROVE MsgOld(link[p][i], i, cycle)
    <2>1. link[p][i].e = "none"
        BY DEF Init, Nothing
    <2> QED BY <2>1 DEF MsgOld
<1> QED BY <1>1, TypesStart DEF Init, IInv, Old, Measured

\* Until the cycle register wraps, the timestamps are as old as the places
\* where they are, and the delays that the ports measure are at least that of
\* the link.
LEMMA Invariance == Spec /\ [](cycle < CycleMod - 1) => []IInv
<1>1. Init => IInv
    BY OldStart
<1>2. IInv /\ cycle < CycleMod - 1 /\ [Next]_vars => IInv'
    BY OldKept
<1> QED BY <1>1, <1>2, PTL DEF Spec

\* Until its cycle register wraps (2^32 cycles after reset), no port computes
\* a delay below that of the link, whatever the interleaving of inits, acks
\* and the blocks that DTP cannot use.
THEOREM Underestimates == Spec /\ [](cycle < CycleMod - 1) => []NeverUnderestimates
<1>1. IInv => NeverUnderestimates
    BY DEF IInv, Measured, NeverUnderestimates
<1> QED BY <1>1, Invariance, PTL

\* Until then a port is in SYNC only with a delay it has measured.
THEOREM SyncMeasured == Spec /\ [](cycle < CycleMod - 1) => []SyncIsMeasured
<1>1. IInv => SyncIsMeasured
    BY DEF IInv, Measured, SyncIsMeasured
<1> QED BY <1>1, Invariance, PTL

-----------------------------------------------------------------------------
(* How long an ack may wait for an idle block.  A port that answers an init *)
(* before the next one arrives never has an ack without a timestamp; it     *)
(* does if the intervals are long for the runs of blocks that DTP cannot    *)
(* use: then the init leaves the peer, crosses the link and is answered     *)
(* before the peer's timeout announces another.                             *)

\* From one idle block of port p to the next.
Gap(p) == MaxBusy[p] + 1

\* The interval of a port is long enough for an init to leave it, behind an
\* ack, and for the ack of its peer to leave behind two other messages.
Unhurried == \A p \in Ports : Interval[p] >= 2 * Gap(p) + 3 * Gap(Peer(p))

Messages == {"init", "ack", "beacon"}

\* The cycles after which the message at position k of txMuxSelFifo has left.
Wait(p, k) ==
    (IF busy[p] = 0 THEN 1 ELSE Gap(p) + 1 - busy[p])
    + (IF k = 1 THEN 0 ELSE IF k = 2 THEN Gap(p) ELSE 2 * Gap(p))

\* Where messages x wait in txMuxSelFifo, and where inits are on the link.
At(p, x) == {k \in 1 .. Len(txMuxSelFifo[p]) : txMuxSelFifo[p][k] = x}
Inits(p) == {i \in 1 .. Latency : link[p][i].e = "init"}

\* One block is between the two transmit stages, as soon as the port is up.
Flows(p) ==
    \/ tokens[p] = 0 /\ stageOneFifo[p] = <<>> /\ txMuxSelFifo[p] = <<>> /\ busy[p] = 0
    \/ /\ up[p] /\ tokens[p] = 1
       /\ \E b \in Blocks : stageOneFifo[p] = <<b>> /\ (b = "idle" <=> busy[p] = 0)

\* What may wait in txMuxSelFifo at the same time.
Single(p) ==
    /\ \A i, j \in At(p, "ack") : i = j /\ initTs[p] # NoTs
    /\ \A i, j \in At(p, "init") : i = j
    /\ curr_state[p] # "SYNC" => At(p, "beacon") = {}

\* An ack leaves before the next init arrives, wherever that is: on the link,
\* in the txMuxSelFifo of the peer, or not yet selected.
BeforeArrival(p) == \A i \in Inits(p), k \in At(p, "ack") : Wait(p, k) < i
BeforeSent(p) ==
    \A k \in At(p, "ack"), l \in At(Peer(p), "init") : Wait(p, k) <= Latency
BeforeTimeout(p) ==
    \A k \in At(p, "ack") : Wait(p, k) + timeout_count_init[Peer(p)] <= Latency + Interval[Peer(p)]

\* Two inits are further apart than an ack may wait.
Apart(p) == \A i, j \in Inits(p) : i < j => j - i > 3 * Gap(p)
ApartFromNext(p) ==
    \A i \in Inits(p), l \in At(Peer(p), "init") : Latency - i >= 3 * Gap(p)

\* How long ago the timeout counter was reset for an init.
Recent(p)   == \A i \in Inits(p) : timeout_count_init[Peer(p)] + i <= Latency + 2 * Gap(Peer(p))
Fresh(p) == \A l \in At(p, "init") : timeout_count_init[p] + Wait(p, l) <= 2 * Gap(p)

Spaced(p) ==
    /\ BeforeArrival(p) /\ BeforeSent(p) /\ BeforeTimeout(p)
    /\ Apart(p) /\ ApartFromNext(p) /\ Recent(p)

Paced == Parts /\ \A p \in Ports : Flows(p) /\ Single(p) /\ Fresh(p) /\ Spaced(p)

\* The ranges of these numbers.
Bounds(p) ==
    /\ \A x \in Messages : At(p, x) \subseteq {1, 2, 3}
    /\ Inits(p) \subseteq 1 .. Latency
    /\ \A k \in {1, 2, 3} : Wait(p, k) \in Nat /\ Wait(p, k) >= 1 /\ Wait(p, k) <= 3 * Gap(p)
    /\ \A k \in {1, 2} : Wait(p, k) <= 2 * Gap(p)
    /\ timeout_count_init[p] \in Nat /\ timeout_count_init[p] <= Interval[p]

\* Types of the constants.
LEMMA GapType ==
    \A p \in Ports : /\ Peer(p) \in Ports /\ Gap(p) \in Nat /\ Gap(p) > 0 /\ Interval[p] \in Nat
<1>1. \A p \in Ports : Peer(p) \in Ports
    BY DEF Ports, Peer
<1> QED BY <1>1, Constants DEF Gap

\* The arithmetic of Wait, for the number b of unusable blocks so far.
LEMMA WaitRange ==
    ASSUME NEW g \in Nat, NEW b \in 0 .. g - 1, NEW k \in {1, 2, 3}, NEW w,
           w = (IF b = 0 THEN 1 ELSE g + 1 - b)
               + (IF k = 1 THEN 0 ELSE IF k = 2 THEN g ELSE 2 * g)
    PROVE  w \in Nat /\ w >= 1 /\ w <= 3 * g /\ (k # 3 => w <= 2 * g) /\ (k = 1 => w <= g)
    OBVIOUS

\* The ranges follow from the types, before and after a step.
LEMMA BoundsNow == \A p \in Ports : PortType(p) => Bounds(p)
<1> SUFFICES ASSUME NEW p \in Ports, PortType(p) PROVE Bounds(p)
    OBVIOUS
<1>0. /\ Gap(p) \in Nat /\ Gap(p) > 0 /\ MaxBusy[p] = Gap(p) - 1 /\ Interval[p] \in Nat
    BY Constants, GapType DEF Gap
<1>1. /\ timeout_count_init[p] \in Nat /\ timeout_count_init[p] <= Interval[p]
      /\ busy[p] \in 0 .. Gap(p) - 1
    BY <1>0 DEF PortType
<1>2. \A x \in Messages : At(p, x) \subseteq {1, 2, 3}
    <2>1. Len(txMuxSelFifo[p]) \in Nat /\ Len(txMuxSelFifo[p]) <= 3
        BY DEF PortType, Queue
    <2> QED BY <2>1 DEF At
<1>3. ASSUME NEW k \in {1, 2, 3}
      PROVE  /\ Wait(p, k) \in Nat /\ Wait(p, k) >= 1 /\ Wait(p, k) <= 3 * Gap(p)
             /\ k # 3 => Wait(p, k) <= 2 * Gap(p)
    <2> DEFINE g == Gap(p)
               w == Wait(p, k)
    <2>1. w = (IF busy[p] = 0 THEN 1 ELSE g + 1 - busy[p])
              + (IF k = 1 THEN 0 ELSE IF k = 2 THEN g ELSE 2 * g)
        BY DEF Wait
    <2>2. g \in Nat /\ busy[p] \in 0 .. g - 1
        BY <1>0, <1>1
    <2> HIDE DEF g, w
    <2>3. w \in Nat /\ w >= 1 /\ w <= 3 * g /\ (k # 3 => w <= 2 * g)
        BY <2>1, <2>2, WaitRange
    <2> QED BY <2>3 DEF g, w
<1>4. Inits(p) \subseteq 1 .. Latency
    BY DEF Inits
<1> QED BY <1>1, <1>2, <1>3, <1>4 DEF Bounds

LEMMA BoundsHold == \A p \in Ports : (PortType(p) => Bounds(p)) /\ (PortType(p) => Bounds(p))'
<1>1. (\A p \in Ports : PortType(p) => Bounds(p))'
    BY BoundsNow, PTL
<1> QED BY <1>1, BoundsNow

\* How the entries of a queue q, to which s has been appended and from which
\* d entries have been taken, stand in r.
MovesUp(q, s, r, d) ==
    /\ \A j \in 1 .. Len(r) :
        \/ j + d \in 1 .. Len(q) /\ r[j] = q[j + d]
        \/ s = <<r[j]>> /\ j + d = Len(q) + 1
    /\ q \o s # <<>> =>
        \/ 1 \in 1 .. Len(q) /\ Head(q \o s) = q[1]
        \/ q = <<>> /\ s = <<Head(q \o s)>>
    /\ q # <<>> => q \o s # <<>>

\* A message appended to a queue, and the first one taken off.
LEMMA Moved ==
    ASSUME NEW S, NEW q \in Seq(S), NEW s \in Seq(S), s = <<>> \/ \E m \in S : s = <<m>>,
           NEW d \in {0, 1}, d = 1 => q \o s # <<>>,
           NEW r, r = IF d = 1 THEN Tail(q \o s) ELSE q \o s
    PROVE  MovesUp(q, s, r, d)
<1> DEFINE f == q \o s
           n == Len(q)
<1>1. n \in Nat /\ f \in Seq(S) /\ Len(f) \in Nat
    OBVIOUS
<1>2. \/ s = <<>> /\ Len(f) = n /\ f = q
      \/ s = <<f[n + 1]>> /\ Len(f) = n + 1 /\ \A k \in 1 .. n : f[k] = q[k]
    <2>1. CASE s = <<>>
        BY <2>1
    <2>2. ASSUME NEW m \in S, s = <<m>>
          PROVE  Len(f) = n + 1 /\ f[n + 1] = m /\ \A k \in 1 .. n : f[k] = q[k]
        BY <2>2
    <2> QED BY <2>1, <2>2
<1>3. ASSUME NEW k \in 1 .. Len(f)
      PROVE  \/ k \in 1 .. n /\ f[k] = q[k]
             \/ s = <<f[k]>> /\ k = n + 1
    <2> HIDE DEF f, n
    <2> QED BY <1>1, <1>2
<1>4. f # <<>> => Head(f) = f[1] /\ 1 \in 1 .. Len(f) /\ Len(Tail(f)) = Len(f) - 1
                  /\ \A k \in 1 .. Len(f) - 1 : Tail(f)[k] = f[k + 1]
    <2> HIDE DEF f, n
    <2> QED BY <1>1, Front
<1>5. q = <<>> <=> n = 0
    OBVIOUS
<1> HIDE DEF f, n
<1>6. ASSUME NEW j \in 1 .. Len(r)
      PROVE  \/ j + d \in 1 .. n /\ r[j] = q[j + d]
             \/ s = <<r[j]>> /\ j + d = n + 1
    <2>1. r = IF d = 1 THEN Tail(f) ELSE f
        BY DEF f
    <2>2. d = 1 => f # <<>>
        BY DEF f
    <2>3. j + d \in 1 .. Len(f) /\ r[j] = f[j + d]
        <3>1. CASE d = 0
            BY <1>1, <2>1, <3>1
        <3>2. CASE d = 1
            <4> DEFINE u == Tail(f)
            <4>1. r = u /\ Len(u) = Len(f) - 1 /\ \A k \in 1 .. Len(f) - 1 : u[k] = f[k + 1]
                BY <1>4, <2>1, <2>2, <3>2
            <4> HIDE DEF u
            <4>2. j \in 1 .. Len(f) - 1
                BY <4>1
            <4>3. j + 1 \in 1 .. Len(f)
                BY <1>1, <4>2
            <4>4. r[j] = f[j + 1]
                BY <4>1, <4>2
            <4> QED BY <3>2, <4>3, <4>4
        <3> QED BY <3>1, <3>2
    <2> QED BY <1>3, <2>3
<1>7. f # <<>> => \/ 1 \in 1 .. n /\ Head(f) = q[1]
                  \/ n = 0 /\ s = <<Head(f)>>
    BY <1>1, <1>3, <1>4
<1>8. n # 0 => f # <<>>
    BY <1>1, <1>2
<1> QED BY <1>5, <1>6, <1>7, <1>8 DEF f, n, MovesUp

\* What a cycle does to the messages of a port: new has been selected, out
\* has been sent, and those that wait have moved up by d places.
Passed(p, ev, new, out, d) ==
    /\ \A x \in Messages : \A j \in At(p, x)' :
        \/ j + d \in At(p, x) /\ Wait(p, j)' < Wait(p, j + d)
        \/ new = x /\ j + d = Len(txMuxSelFifo[p]) + 1
    /\ out \in Messages =>
        /\ d = 1
        /\ \/ 1 \in At(p, out) /\ Wait(p, 1) = 1
           \/ new = out /\ txMuxSelFifo[p] = <<>>
    /\ new = "ack" => ev.e = "init"
    /\ new = "init" => /\ curr_state[p] # "SYNC" /\ timeout_count_init[p] >= Interval[p]
                       /\ timeout_count_init'[p] = 0
    /\ new = "beacon" => curr_state[p] = "SYNC"
    /\ timeout_count_init'[p] <= timeout_count_init[p] + 1
    /\ curr_state[p] = "SYNC" => curr_state'[p] = "SYNC"
    /\ initTs'[p] = IF out = "ack" THEN NoTs ELSE InitStamp(p, ev)

\* What delay_measurment and beacon select, and the timeout counter.
LEMMA SelectedType ==
    ASSUME NEW p \in Ports, PortType(p), NEW ev \in Message, NEW blk \in Blocks, Step(p, ev, blk)
    PROVE  LET s == Selected(p, ev, blk)
           IN  /\ s = <<>> \/ \E m \in Messages : s = <<m>>
               /\ tokens[p] = 0 => s = <<>>
               /\ s = <<"ack">> => ev.e = "init"
               /\ s = <<"init">> => /\ curr_state[p] # "SYNC"
                                    /\ timeout_count_init[p] >= Interval[p]
                                    /\ timeout_count_init'[p] = 0
               /\ s = <<"beacon">> => curr_state[p] = "SYNC"
               /\ timeout_count_init'[p] <= timeout_count_init[p] + 1
               /\ curr_state[p] = "SYNC" => curr_state'[p] = "SYNC"
<1>1. tokens[p] \in 0 .. 2 /\ timeout_count_init[p] \in Nat /\ Interval[p] \in Nat
    BY Constants DEF PortType
<1>2. timeout_count_init'[p] = NextInitCount(p, ev, blk) /\ curr_state'[p] = NextState(p, ev, blk)
    BY DEF Step
<1>3. CASE tokens[p] = 0
    BY <1>1, <1>2, <1>3 DEF Selected, NextInitCount, NextState
<1>4. CASE tokens[p] > 0
    <2>1. tokens[p] # 0
        BY <1>4
    <2>2. timeout_count_init'[p] <= timeout_count_init[p] + 1
        BY <1>1, <1>2 DEF NextInitCount
    <2>3. curr_state[p] = "SYNC" => curr_state'[p] = "SYNC"
        BY <1>2, <1>4, <2>1 DEF NextState
    <2>4. CASE curr_state[p] = "SYNC"
        BY <2>1, <2>2, <2>3, <2>4 DEF Selected, Messages
    <2>5. CASE curr_state[p] # "SYNC" /\ ev.e = "init"
        BY <2>1, <2>2, <2>5 DEF Selected, Messages
    <2>6. CASE curr_state[p] # "SYNC" /\ ev.e # "init"
        <3>1. InitDue(p) => timeout_count_init[p] >= Interval[p]
            BY <1>1, <2>6 DEF InitDue
        <3>2. InitDue(p) /\ IsIdle(p, blk) => timeout_count_init'[p] = 0
            BY <1>2, <1>4, <2>1, <2>6 DEF NextInitCount
        <3> QED BY <2>1, <2>2, <2>6, <3>1, <3>2 DEF Selected, Messages
    <2> QED BY <2>4, <2>5, <2>6
<1> QED BY <1>1, <1>3, <1>4

\* A queue of at most one message.
LEMMA OneAtMost ==
    ASSUME NEW S, NEW s, s = <<>> \/ \E m \in S : s = <<m>> PROVE s \in Seq(S)
<1>1. CASE s = <<>>
    BY <1>1
<1>2. ASSUME NEW m \in S, s = <<m>> PROVE s \in Seq(S)
    BY <1>2
<1> QED BY <1>1, <1>2

\* What tx_stage2 sends, and what is left, when it is not blocked.
LEMMA Sent ==
    ASSUME NEW p \in Ports, PortType(p), NEW ev, NEW blk,
           TxStage2Fires(p, ev, blk), Step(p, ev, blk),
           NEW b, stageOneFifo[p] = <<b>>
    PROVE  IF b = "idle" /\ Mux(p, ev, blk) # <<>>
           THEN /\ Outgoing(p, ev, blk).e = Head(Mux(p, ev, blk))
                /\ txMuxSelFifo'[p] = Tail(Mux(p, ev, blk))
           ELSE /\ Outgoing(p, ev, blk).e = "none"
                /\ txMuxSelFifo'[p] = Mux(p, ev, blk)
<1> DEFINE q == Mux(p, ev, blk)
           m == Sends(p, ev, blk)
<1>1. q \in Seq(Messages)
    BY MuxType DEF Queue, Messages
<1>2. q # <<>> => Head(q) \in Messages
    BY <1>1, Front
<1>3. m = IF b = "idle" /\ q # <<>> THEN Head(q) ELSE "none"
    <2>1. Head(stageOneFifo[p]) = b /\ stageOneFifo[p] # <<>>
        OBVIOUS
    <2> QED BY <2>1 DEF Sends, Offers
<1>4. m \in Messages \cup {"none"}
    BY <1>2, <1>3
<1>5. Outgoing(p, ev, blk).e = m
    BY <1>4 DEF Outgoing, Messages, Nothing
<1>6. txMuxSelFifo'[p] = IF m # "none" THEN Tail(q) ELSE q
    BY <1>5 DEF Step
<1>7. q # <<>> => Head(q) # "none"
    BY <1>2 DEF Messages
<1> HIDE DEF q, m
<1> QED BY <1>3, <1>5, <1>6, <1>7 DEF q

\* An ack never waits for a timestamp.
LEMMA NotBlocked ==
    ASSUME NEW p \in Ports, PortType(p), Single(p), NEW ev \in Message, NEW blk \in Blocks,
           Step(p, ev, blk), up[p], NEW b, stageOneFifo[p] = <<b>>
    PROVE  TxStage2Fires(p, ev, blk)
<1> DEFINE q == txMuxSelFifo[p]
           s == Selected(p, ev, blk)
<1>1. s = <<>> \/ \E m \in Messages : s = <<m>>
    BY SelectedType
<1>2. s = <<"ack">> => ev.e = "init"
    BY SelectedType
<1>3. q \in Seq(Messages) /\ s \in Seq(Messages)
    <2>1. q \in Seq(Messages)
        BY DEF PortType, Queue, Messages
    <2>2. s \in Seq(Messages)
        BY <1>1, OneAtMost
    <2> QED BY <2>1, <2>2
<1>4. q \o s # <<>> =>
        \/ 1 \in 1 .. Len(q) /\ Head(q \o s) = q[1]
        \/ q = <<>> /\ s = <<Head(q \o s)>>
    <2> DEFINE r == q \o s
    <2> HIDE DEF q, s
    <2>1. /\ 0 \in {0, 1} /\ (0 = 1 => q \o s # <<>>)
          /\ r = IF 0 = 1 THEN Tail(q \o s) ELSE q \o s
        OBVIOUS
    <2> HIDE DEF r
    <2>2. MovesUp(q, s, r, 0)
        BY <1>1, <1>3, <2>1, Moved
    <2> QED BY <2>2 DEF MovesUp
<1>5. ASSUME Offers(p, ev, blk) = "ack" PROVE InitStamp(p, ev) # NoTs
    <2>1. q \o s # <<>> /\ Head(q \o s) = "ack"
        BY <1>5 DEF Offers, Mux
    <2>2. CASE 1 \in 1 .. Len(q) /\ q[1] = "ack"
        <3>1. 1 \in At(p, "ack")
            BY <2>2 DEF At
        <3>2. initTs[p] # NoTs
            BY <3>1 DEF Single
        <3> QED BY <3>2 DEF InitStamp
    <2>3. CASE s = <<"ack">>
        <3>1. ev.e = "init" /\ ev.t \in Nat
            BY <1>2, <2>3, Constants DEF Message
        <3> QED BY <3>1 DEF InitStamp, NoTs
    <2> QED BY <1>4, <2>1, <2>2, <2>3
<1>6. stageOneFifo[p] # <<>>
    OBVIOUS
<1> QED BY <1>5, <1>6 DEF TxStage2Fires

\* Waiting messages come closer to the link with every cycle.
LEMMA WaitShrinks ==
    ASSUME NEW p \in Ports, PortType(p), NEW blk,
           busy'[p] = IF blk = "idle" THEN 0 ELSE busy[p] + 1, busy'[p] <= MaxBusy[p],
           NEW d \in {0, 1}, d = 1 <=> busy[p] = 0,
           NEW j \in {1, 2, 3}, j + d \in {1, 2, 3}
    PROVE  Wait(p, j)' < Wait(p, j + d)
<1> DEFINE g == Gap(p)
           b == busy[p]
           c == busy'[p]
<1>1. g \in Nat /\ b \in 0 .. g - 1 /\ c <= g - 1 /\ (c = 0 \/ c = b + 1) /\ Gap(p)' = g
    BY Constants DEF PortType, Gap
<1>2. Wait(p, j)' = (IF c = 0 THEN 1 ELSE g + 1 - c)
                    + (IF j = 1 THEN 0 ELSE IF j = 2 THEN g ELSE 2 * g)
    BY DEF Wait, Gap
<1>3. Wait(p, j + d) = (IF b = 0 THEN 1 ELSE g + 1 - b)
                       + (IF j + d = 1 THEN 0 ELSE IF j + d = 2 THEN g ELSE 2 * g)
    BY DEF Wait
<1>4. d = 1 <=> b = 0
    OBVIOUS
<1> HIDE DEF g, b, c
<1> DEFINE x == Wait(p, j)'
           y == Wait(p, j + d)
<1> HIDE DEF x, y
<1>5. x < y
    <2>1. CASE d = 0
        <3>1. b # 0 /\ j + d = j
            BY <1>4, <2>1
        <3> QED BY <1>1, <1>2, <1>3, <3>1 DEF x, y
    <2>2. CASE d = 1
        <3>1. b = 0 /\ j + d = j + 1 /\ j \in {1, 2}
            BY <1>4, <2>2
        <3> QED BY <1>1, <1>2, <1>3, <3>1 DEF x, y
    <2> QED BY <2>1, <2>2
<1> QED BY <1>5 DEF x, y

\* A cycle in which the port has no block between its transmit stages.
LEMMA FirstBlock ==
    ASSUME NEW p \in Ports, PortType(p), PortType(p)', NEW ev \in Message, NEW blk \in Blocks,
           Step(p, ev, blk), up' = up, blk # "idle" => up[p],
           tokens[p] = 0, stageOneFifo[p] = <<>>, txMuxSelFifo[p] = <<>>, busy[p] = 0
    PROVE  /\ Flows(p)'
           /\ Outgoing(p, ev, blk).e = "none"
           /\ Passed(p, ev, "none", "none", 0)
<1>1. Selected(p, ev, blk) = <<>>
    BY DEF Selected
<1>2. Mux(p, ev, blk) = <<>>
    BY <1>1 DEF Mux
<1>3. Outgoing(p, ev, blk).e = "none"
    BY DEF Outgoing, Sends, TxStage2Fires, Nothing
<1>4. txMuxSelFifo'[p] = <<>>
    BY <1>2, <1>3 DEF Step
<1>5. Flows(p)'
    <2>1. stageOneFifo'[p] = <<>> \o (IF TxStage1Fires(p) THEN <<blk>> ELSE <<>>)
        BY DEF Step, TxStage2Fires
    <2>2. TxStage1Fires(p) <=> up[p]
        BY DEF TxStage1Fires
    <2>3. busy'[p] = IF blk = "idle" THEN 0 ELSE 1
        BY DEF Step
    <2>4. tokens'[p] = IF up[p] THEN 1 ELSE 0
        BY <2>2 DEF Step
    <2>5. CASE up[p]
        <3>1. stageOneFifo'[p] = <<blk>> /\ tokens'[p] = 1 /\ up'[p]
            BY <2>1, <2>2, <2>4, <2>5
        <3>2. blk = "idle" <=> busy'[p] = 0
            BY <2>3
        <3> QED BY <3>1, <3>2 DEF Flows
    <2>6. CASE ~ up[p]
        <3>1. stageOneFifo'[p] = <<>> /\ tokens'[p] = 0 /\ busy'[p] = 0
            BY <2>1, <2>2, <2>3, <2>4, <2>6
        <3> QED BY <1>4, <3>1 DEF Flows
    <2> QED BY <2>5, <2>6
<1>6. \A x \in Messages : At(p, x)' = {}
    BY <1>4 DEF At
<1>7. /\ timeout_count_init'[p] <= timeout_count_init[p] + 1
      /\ (curr_state[p] = "SYNC" => curr_state'[p] = "SYNC")
    BY SelectedType
<1>8. initTs'[p] = InitStamp(p, ev)
    BY <1>3 DEF Step
<1> QED BY <1>3, <1>5, <1>6, <1>7, <1>8 DEF Passed, Messages

\* A cycle in which it has one.
LEMMA NextBlock ==
    ASSUME NEW p \in Ports, PortType(p), PortType(p)', Single(p),
           NEW ev \in Message, NEW blk \in Blocks,
           Step(p, ev, blk), up' = up, up[p], tokens[p] = 1,
           NEW b \in Blocks, stageOneFifo[p] = <<b>>, b = "idle" <=> busy[p] = 0
    PROVE  /\ Flows(p)'
           /\ \E new \in Messages \cup {"none"}, d \in {0, 1} :
                Passed(p, ev, new, Outgoing(p, ev, blk).e, d)
<1> DEFINE q == txMuxSelFifo[p]
           s == Selected(p, ev, blk)
           r == txMuxSelFifo'[p]
           out == Outgoing(p, ev, blk).e
<1>1. TxStage2Fires(p, ev, blk)
    BY NotBlocked
<1>2. Flows(p)'
    <2>1. TxStage1Fires(p)
        BY DEF TxStage1Fires
    <2>2. stageOneFifo'[p] = <<>> \o <<blk>>
        BY <1>1, <2>1 DEF Step
    <2>3. stageOneFifo'[p] = <<blk>>
        BY <2>2
    <2>4. tokens'[p] = 1 /\ up'[p]
        BY <2>1 DEF Step
    <2>5. blk = "idle" <=> busy'[p] = 0
        <3>1. busy[p] \in Nat
            BY DEF PortType
        <3> QED BY <3>1 DEF Step
    <2> QED BY <2>3, <2>4, <2>5 DEF Flows
<1>3. s = <<>> \/ \E m \in Messages : s = <<m>>
    BY SelectedType
<1>4. PICK new \in Messages \cup {"none"} :
        /\ new = "none" <=> s = <<>>
        /\ new # "none" => s = <<new>>
    <2>1. CASE s = <<>>
        BY <2>1
    <2>2. ASSUME NEW m \in Messages, s = <<m>>
          PROVE  m \in Messages \cup {"none"} /\ m # "none" /\ s # <<>>
        BY <2>2 DEF Messages
    <2> QED BY <1>3, <2>1, <2>2
<1>5. PICK d \in {0, 1} : d = 1 <=> b = "idle" /\ Mux(p, ev, blk) # <<>>
    <2> DEFINE c == b = "idle" /\ Mux(p, ev, blk) # <<>>
    <2> HIDE DEF c
    <2>1. \E d \in {0, 1} : d = 1 <=> c
        <3>1. CASE c
            BY <3>1
        <3>2. CASE ~ c
            BY <3>2
        <3> QED BY <3>1, <3>2
    <2> QED BY <2>1 DEF c
<1>6. /\ out = IF d = 1 THEN Head(Mux(p, ev, blk)) ELSE "none"
      /\ r = IF d = 1 THEN Tail(Mux(p, ev, blk)) ELSE Mux(p, ev, blk)
    <2> HIDE DEF out, r
    <2>1. d = 1 <=> b = "idle" /\ Mux(p, ev, blk) # <<>>
        BY <1>5
    <2>2. IF b = "idle" /\ Mux(p, ev, blk) # <<>>
          THEN /\ Outgoing(p, ev, blk).e = Head(Mux(p, ev, blk))
               /\ txMuxSelFifo'[p] = Tail(Mux(p, ev, blk))
          ELSE /\ Outgoing(p, ev, blk).e = "none"
               /\ txMuxSelFifo'[p] = Mux(p, ev, blk)
        BY <1>1, Sent
    <2> QED BY <2>1, <2>2 DEF out, r
<1>7. q \in Seq(Messages) /\ s \in Seq(Messages)
    <2>1. q \in Seq(Messages)
        BY DEF PortType, Queue, Messages
    <2>2. s \in Seq(Messages)
        BY <1>3, OneAtMost
    <2> QED BY <2>1, <2>2
<1>8. Mux(p, ev, blk) = q \o s
    BY DEF Mux
<1>9. MovesUp(q, s, r, d)
    <2>1. d = 1 => q \o s # <<>>
        BY <1>5, <1>8
    <2>2. r = IF d = 1 THEN Tail(q \o s) ELSE q \o s
        BY <1>6, <1>8
    <2> HIDE DEF q, s, r
    <2> QED BY <1>3, <1>7, <2>1, <2>2, Moved
<1>10. ASSUME NEW x \in Messages, NEW j \in At(p, x)'
       PROVE  \/ j + d \in At(p, x) /\ Wait(p, j)' < Wait(p, j + d)
              \/ new = x /\ j + d = Len(q) + 1
    <2>1. j \in 1 .. Len(r) /\ r[j] = x
        BY <1>10 DEF At
    <2>2. CASE j + d \in 1 .. Len(q) /\ r[j] = q[j + d]
        <3>1. j + d \in At(p, x)
            BY <2>1, <2>2 DEF At
        <3>2. j \in {1, 2, 3} /\ j + d \in {1, 2, 3}
            BY <1>10, <3>1, BoundsHold DEF Bounds
        <3>3. d = 1 <=> busy[p] = 0
            <4>1. q # <<>>
                BY <2>2
            <4> QED BY <1>5, <1>8, <1>9, <4>1 DEF MovesUp
        <3>4. busy'[p] = (IF blk = "idle" THEN 0 ELSE busy[p] + 1) /\ busy'[p] <= MaxBusy[p]
            BY DEF Step, PortType
        <3>5. Wait(p, j)' < Wait(p, j + d)
            BY <3>2, <3>3, <3>4, WaitShrinks
        <3> QED BY <3>1, <3>5
    <2>3. CASE s = <<r[j]>> /\ j + d = Len(q) + 1
        <3>1. new # "none"
            BY <1>4, <2>3
        <3>2. <<new>> = <<x>>
            BY <1>4, <2>1, <2>3, <3>1
        <3> QED BY <2>3, <3>2
    <2> QED BY <1>9, <2>1, <2>2, <2>3 DEF MovesUp
<1>11. ASSUME out \in Messages
       PROVE  /\ d = 1
              /\ \/ 1 \in At(p, out) /\ Wait(p, 1) = 1
                 \/ new = out /\ q = <<>>
    <2>1. d = 1 /\ out = Head(q \o s) /\ q \o s # <<>>
        BY <1>5, <1>6, <1>8, <1>11 DEF Messages
    <2>2. busy[p] = 0
        BY <1>5, <2>1
    <2>3. Wait(p, 1) = 1
        BY <2>2 DEF Wait
    <2>4. CASE 1 \in 1 .. Len(q) /\ out = q[1]
        BY <2>1, <2>3, <2>4 DEF At
    <2>5. CASE q = <<>> /\ s = <<out>>
        <3>1. new # "none"
            BY <1>4, <2>5
        <3>2. <<new>> = <<out>>
            BY <1>4, <2>5, <3>1
        <3> QED BY <2>1, <2>5, <3>2
    <2> QED BY <1>9, <2>1, <2>4, <2>5 DEF MovesUp
<1>12. new # "none" => s = <<new>>
    BY <1>4
<1>13. /\ new = "ack" => ev.e = "init"
       /\ new = "init" => /\ curr_state[p] # "SYNC" /\ timeout_count_init[p] >= Interval[p]
                          /\ timeout_count_init'[p] = 0
       /\ new = "beacon" => curr_state[p] = "SYNC"
       /\ timeout_count_init'[p] <= timeout_count_init[p] + 1
       /\ curr_state[p] = "SYNC" => curr_state'[p] = "SYNC"
    BY <1>12, SelectedType
<1>14. initTs'[p] = IF out = "ack" THEN NoTs ELSE InitStamp(p, ev)
    BY DEF Step
<1>15. Passed(p, ev, new, out, d)
    <2> HIDE DEF out
    <2> QED BY <1>10, <1>11, <1>13, <1>14 DEF Passed
<1> QED BY <1>2, <1>15

\* A cycle of a port whose flow has not stopped.
LEMMA PortPasses ==
    ASSUME NEW p \in Ports, PortType(p), PortType(p)', Flows(p), Single(p),
           NEW ev \in Message, NEW blk \in Blocks, Step(p, ev, blk), up' = up,
           blk # "idle" => up[p]
    PROVE  /\ Flows(p)'
           /\ \E new \in Messages \cup {"none"}, d \in {0, 1} :
                Passed(p, ev, new, Outgoing(p, ev, blk).e, d)
<1>1. CASE /\ tokens[p] = 0 /\ stageOneFifo[p] = <<>>
           /\ txMuxSelFifo[p] = <<>> /\ busy[p] = 0
    <2>1. Outgoing(p, ev, blk).e = "none" /\ Passed(p, ev, "none", "none", 0) /\ Flows(p)'
        BY <1>1, FirstBlock
    <2>2. Passed(p, ev, "none", Outgoing(p, ev, blk).e, 0)
        BY <2>1
    <2>3. "none" \in Messages \cup {"none"} /\ 0 \in {0, 1}
        OBVIOUS
    <2> QED BY <2>1, <2>2, <2>3
<1>2. ASSUME up[p], tokens[p] = 1,
             NEW b \in Blocks, stageOneFifo[p] = <<b>>, b = "idle" <=> busy[p] = 0
      PROVE  /\ Flows(p)'
             /\ \E new \in Messages \cup {"none"}, d \in {0, 1} :
                    Passed(p, ev, new, Outgoing(p, ev, blk).e, d)
    BY <1>2, NextBlock
<1> QED BY <1>1, <1>2 DEF Flows

\* No two messages x wait at the same time if none is selected while one
\* waits, and none is left when it is sent.
LEMMA OneOfAKind ==
    ASSUME NEW p \in Ports, Bounds(p), Bounds(p)', NEW x \in Messages,
           \A i, j \in At(p, x) : i = j,
           NEW ev, NEW new, NEW out, NEW d \in {0, 1}, Passed(p, ev, new, out, d),
           new = x => At(p, x) = {}
    PROVE  /\ \A i, j \in At(p, x)' : i = j
           /\ out = x => At(p, x)' = {}
<1>1. At(p, x) \subseteq {1, 2, 3} /\ At(p, x)' \subseteq {1, 2, 3}
    BY DEF Bounds
<1>2. \A j \in At(p, x)' : \/ j + d \in At(p, x)
                           \/ At(p, x) = {} /\ j + d = Len(txMuxSelFifo[p]) + 1
    BY DEF Passed
<1>3. ASSUME NEW i \in At(p, x)', NEW j \in At(p, x)' PROVE i = j
    <2>1. i + d = j + d
        BY <1>2
    <2> QED BY <1>1, <2>1
<1>4. ASSUME out = x, NEW j \in At(p, x)' PROVE FALSE
    <2>1. d = 1
        BY <1>4 DEF Passed
    <2>2. CASE 1 \in At(p, x)
        <3>1. j + 1 \in At(p, x)
            BY <1>2, <2>1, <2>2
        <3>2. j + 1 = 1
            BY <2>2, <3>1
        <3> QED BY <1>1, <3>2
    <2>3. CASE txMuxSelFifo[p] = <<>>
        <3>1. At(p, x) = {} /\ Len(txMuxSelFifo[p]) = 0
            BY <2>3 DEF At
        <3>2. j + 1 = 1
            BY <1>2, <2>1, <3>1
        <3> QED BY <1>1, <3>2
    <2> QED BY <1>4, <2>2, <2>3 DEF Passed
<1> QED BY <1>3, <1>4

\* An ack is selected only if none waits, and an init only if none waits.
LEMMA NoneWaits ==
    ASSUME NEW p \in Ports, Bounds(p), BeforeArrival(p), Fresh(p), Interval[p] >= 2 * Gap(p),
           NEW ev, ev.e = "init" => 1 \in Inits(p),
           NEW new, NEW out, NEW d, Passed(p, ev, new, out, d)
    PROVE  /\ new = "ack" => At(p, "ack") = {}
           /\ new = "init" => At(p, "init") = {}
<1>1. At(p, "ack") \subseteq {1, 2, 3} /\ At(p, "init") \subseteq {1, 2, 3}
    BY DEF Bounds, Messages
<1>2. ASSUME new = "ack", NEW k \in At(p, "ack") PROVE FALSE
    <2>1. 1 \in Inits(p)
        BY <1>2 DEF Passed
    <2>2. Wait(p, k) < 1
        BY <2>1 DEF BeforeArrival
    <2> QED BY <1>1, <2>2 DEF Bounds
<1>3. ASSUME new = "init", NEW l \in At(p, "init") PROVE FALSE
    <2> DEFINE g == Gap(p)
               w == Wait(p, l)
    <2>1. timeout_count_init[p] >= Interval[p]
        BY <1>3 DEF Passed
    <2>2. timeout_count_init[p] + w <= 2 * g /\ Interval[p] >= 2 * g
        BY DEF Fresh
    <2>3. w \in Nat /\ w >= 1 /\ timeout_count_init[p] \in Nat
        BY <1>1 DEF Bounds
    <2>4. g \in Nat /\ Interval[p] \in Nat
        BY GapType
    <2> HIDE DEF g, w
    <2> QED BY <2>1, <2>2, <2>3, <2>4
<1> QED BY <1>2, <1>3

\* No ack without a timestamp.
LEMMA SingleKept ==
    ASSUME NEW p \in Ports, PortType(p), PortType(p)', Single(p), Fresh(p), BeforeArrival(p),
           Interval[p] >= 2 * Gap(p), NEW ev \in Message, ev.e = "init" => 1 \in Inits(p),
           NEW new, NEW out, NEW d \in {0, 1}, Passed(p, ev, new, out, d)
    PROVE  /\ Single(p)' /\ Fresh(p)'
           /\ new = "init" => At(p, "init") = {}
           /\ out = "init" => At(p, "init")' = {}
<1>1. Bounds(p) /\ Bounds(p)'
    BY BoundsHold
<1>2. /\ new = "ack" => At(p, "ack") = {}
      /\ new = "init" => At(p, "init") = {}
    BY <1>1, NoneWaits
<1>3. (\A i, j \in At(p, "ack") : i = j) /\ (\A i, j \in At(p, "init") : i = j)
    BY DEF Single
<1>4. /\ \A i, j \in At(p, "ack")' : i = j
      /\ out = "ack" => At(p, "ack")' = {}
    <2>1. "ack" \in Messages
        BY DEF Messages
    <2> QED BY <1>1, <1>2, <1>3, <2>1, OneOfAKind
<1>5. /\ \A i, j \in At(p, "init")' : i = j
      /\ out = "init" => At(p, "init")' = {}
    <2>1. "init" \in Messages
        BY DEF Messages
    <2> QED BY <1>1, <1>2, <1>3, <2>1, OneOfAKind
<1>6. ASSUME NEW j \in At(p, "ack")' PROVE initTs'[p] # NoTs
    <2>1. initTs'[p] = InitStamp(p, ev)
        BY <1>4 DEF Passed
    <2>2. CASE j + d \in At(p, "ack")
        BY <2>1, <2>2 DEF Single, InitStamp
    <2>3. CASE new = "ack"
        <3>1. ev.e = "init" /\ ev.t \in Nat
            BY <2>3, Constants DEF Passed, Message
        <3> QED BY <2>1, <3>1 DEF InitStamp, NoTs
    <2> QED BY <2>2, <2>3 DEF Passed, Messages
<1>7. ASSUME curr_state'[p] # "SYNC", NEW j \in At(p, "beacon")' PROVE FALSE
    <2>1. curr_state[p] # "SYNC"
        BY <1>7 DEF Passed
    <2>2. \/ j + d \in At(p, "beacon")
          \/ new = "beacon"
        BY DEF Passed, Messages
    <2> QED BY <2>1, <2>2 DEF Passed, Single
<1>8. ASSUME NEW l \in At(p, "init")' PROVE timeout_count_init'[p] + Wait(p, l)' <= 2 * Gap(p)
    <2>1. /\ l \in {1, 2, 3} /\ timeout_count_init[p] \in Nat
          /\ timeout_count_init'[p] \in Nat /\ Wait(p, l)' \in Nat
          /\ Gap(p)' = Gap(p) /\ Gap(p) \in Nat
        <3>1. l \in {1, 2, 3}
            BY <1>1 DEF Bounds, Messages
        <3> QED BY <1>1, <3>1, GapType DEF Bounds, Gap
    <2>2. CASE l + d \in At(p, "init") /\ Wait(p, l)' < Wait(p, l + d)
        <3> DEFINE v == Wait(p, l)'
                   w == Wait(p, l + d)
        <3>1. timeout_count_init[p] + w <= 2 * Gap(p)
            BY <2>2 DEF Fresh
        <3>2. w \in Nat
            <4>1. l + d \in {1, 2, 3}
                BY <1>1, <2>2 DEF Bounds, Messages
            <4> QED BY <1>1, <4>1 DEF Bounds
        <3>3. timeout_count_init'[p] <= timeout_count_init[p] + 1 /\ v < w /\ v \in Nat
            BY <2>1, <2>2 DEF Passed
        <3> HIDE DEF v, w
        <3>4. timeout_count_init'[p] + v <= 2 * Gap(p)
            BY <2>1, <3>1, <3>2, <3>3
        <3> QED BY <3>4 DEF v
    <2>3. CASE new = "init" /\ l + d = Len(txMuxSelFifo[p]) + 1
        <3> DEFINE q == txMuxSelFifo[p]
        <3>1. curr_state[p] # "SYNC" /\ timeout_count_init'[p] = 0
            BY <2>3 DEF Passed
        <3>2. Len(q) \in Nat /\ \A k \in 1 .. Len(q) : q[k] \in Messages
            BY DEF PortType, Queue, Messages
        <3>3. \A k \in 1 .. Len(q) : k \in At(p, "ack")
            <4>1. At(p, "init") = {} /\ At(p, "beacon") = {}
                BY <1>2, <2>3, <3>1 DEF Single
            <4> QED BY <3>2, <4>1 DEF At, Messages
        <3>4. Len(q) <= 1
            <4>1. CASE Len(q) >= 2
                <5>1. 1 \in 1 .. Len(q) /\ 2 \in 1 .. Len(q)
                    BY <3>2, <4>1
                <5>2. 1 = 2
                    BY <1>3, <3>3, <5>1
                <5> QED BY <5>2
            <4> QED BY <3>2, <4>1
        <3>5. l \in {1, 2}
            BY <2>1, <2>3, <3>2, <3>4
        <3>6. Wait(p, l)' <= 2 * Gap(p)
            BY <1>1, <2>1, <3>5 DEF Bounds
        <3> QED BY <2>1, <3>1, <3>6
    <2> QED BY <2>2, <2>3 DEF Passed, Messages
<1>9. Fresh(p)'
    <2>1. Gap(p)' = Gap(p)
        BY DEF Gap
    <2> QED BY <1>8, <2>1 DEF Fresh
<1> QED BY <1>2, <1>4, <1>5, <1>6, <1>7, <1>9 DEF Single

\* One cycle of port p, of its peer q and of the link from q to p, as the
\* lemmas below use it.
Exchange(p, q, ev, new, out, d, evq, newq, outq, dq) ==
    /\ q = Peer(p) /\ Bounds(p) /\ Bounds(p)' /\ Bounds(q) /\ Bounds(q)'
    /\ Spaced(p) /\ Fresh(q) /\ Interval[q] >= 2 * Gap(q) + 3 * Gap(p)
    /\ Passed(p, ev, new, out, d) /\ Passed(q, evq, newq, outq, dq)
    /\ ev.e = "init" => 1 \in Inits(p)
    /\ \A i \in Inits(p)' : \/ i + 1 \in Inits(p)
                            \/ i = Latency /\ outq = "init"
    /\ outq = "init" => At(q, "init")' = {}

\* The message at position j has moved there from k, or has just been selected.
LEMMA Origin ==
    ASSUME NEW p \in Ports, Bounds(p), Bounds(p)', NEW x \in Messages,
           NEW ev, NEW new, NEW out, NEW d, Passed(p, ev, new, out, d), NEW j \in At(p, x)'
    PROVE  /\ Wait(p, j)' \in Nat
           /\ \/ \E k \in At(p, x) : Wait(p, k) \in Nat /\ Wait(p, j)' < Wait(p, k)
              \/ new = x /\ Wait(p, j)' <= 3 * Gap(p)
<1>1. At(p, x) \subseteq {1, 2, 3} /\ At(p, x)' \subseteq {1, 2, 3}
    BY DEF Bounds
<1>2. Gap(p)' = Gap(p)
    BY DEF Gap
<1>3. Wait(p, j)' \in Nat /\ Wait(p, j)' <= 3 * Gap(p)
    BY <1>1, <1>2 DEF Bounds
<1>4. \A k \in At(p, x) : Wait(p, k) \in Nat
    BY <1>1 DEF Bounds
<1> QED BY <1>3, <1>4 DEF Passed

\* While the peer is about to send an init, or does, the acks that wait and
\* the inits under way are early enough.
LEMMA Impending ==
    ASSUME NEW p \in Ports, NEW q \in Ports, NEW ev, NEW new, NEW out, NEW d,
           NEW evq, NEW newq, NEW outq, NEW dq,
           Exchange(p, q, ev, new, out, d, evq, newq, outq, dq),
           outq = "init" \/ At(q, "init")' # {}
    PROVE  /\ \A k \in At(p, "ack") : Wait(p, k) <= Latency
           /\ \A i \in Inits(p) : Latency - i >= 3 * Gap(p)
<1>1. newq = "init" \/ At(q, "init") # {}
    BY DEF Exchange, Passed, Messages
<1>2. CASE At(q, "init") # {}
    BY <1>2 DEF Exchange, Spaced, BeforeSent, ApartFromNext
<1>3. CASE newq = "init"
    <2> DEFINE t == timeout_count_init[q]
               int == Interval[q]
               g == Gap(p)
               h == Gap(q)
    <2>1. t \in Nat /\ int \in Nat /\ g \in Nat /\ h \in Nat /\ Latency \in Nat
        BY GapType, Constants DEF Exchange, Bounds
    <2>2. t >= int /\ int >= 2 * h + 3 * g
        BY <1>3 DEF Exchange, Passed
    <2>3. ASSUME NEW k \in At(p, "ack") PROVE Wait(p, k) <= Latency
        <3> DEFINE w == Wait(p, k)
        <3>1. w \in Nat
            BY DEF Exchange, Bounds, Messages
        <3>2. w + t <= Latency + int
            BY DEF Exchange, Spaced, BeforeTimeout
        <3> HIDE DEF t, int, w
        <3>3. w <= Latency
            BY <2>1, <2>2, <3>1, <3>2
        <3> QED BY <3>3 DEF w
    <2>4. ASSUME NEW i \in Inits(p) PROVE Latency - i >= 3 * g
        <3>1. i \in Nat
            BY DEF Exchange, Bounds
        <3>2. t + i <= Latency + 2 * h
            BY DEF Exchange, Spaced, Recent
        <3> HIDE DEF t, int, g, h
        <3> QED BY <2>1, <2>2, <3>1, <3>2
    <2> QED BY <2>3, <2>4
<1> QED BY <1>1, <1>2, <1>3

\* An ack is selected only for an init that arrives.
LEMMA Answers ==
    ASSUME NEW p \in Ports, NEW q \in Ports, NEW ev, NEW new, NEW out, NEW d,
           NEW evq, NEW newq, NEW outq, NEW dq,
           Exchange(p, q, ev, new, out, d, evq, newq, outq, dq), NEW k \in At(p, "ack")'
    PROVE  /\ Wait(p, k)' \in Nat
           /\ \/ \E o \in At(p, "ack") : Wait(p, o) \in Nat /\ Wait(p, k)' < Wait(p, o)
              \/ 1 \in Inits(p) /\ Wait(p, k)' <= 3 * Gap(p)
<1>1. "ack" \in Messages
    BY DEF Messages
<1>2. /\ Wait(p, k)' \in Nat
      /\ \/ \E o \in At(p, "ack") : Wait(p, o) \in Nat /\ Wait(p, k)' < Wait(p, o)
         \/ new = "ack" /\ Wait(p, k)' <= 3 * Gap(p)
    BY <1>1, Origin DEF Exchange
<1>3. new = "ack" => 1 \in Inits(p)
    BY DEF Exchange, Passed
<1> QED BY <1>2, <1>3

\* The acks keep ahead of the inits.
LEMMA BeforeKept ==
    ASSUME NEW p \in Ports, NEW q \in Ports, NEW ev, NEW new, NEW out, NEW d,
           NEW evq, NEW newq, NEW outq, NEW dq,
           Exchange(p, q, ev, new, out, d, evq, newq, outq, dq)
    PROVE  BeforeArrival(p)' /\ BeforeSent(p)' /\ BeforeTimeout(p)'
<1> DEFINE g == Gap(p)
           h == Gap(q)
           int == Interval[q]
<1>1. g \in Nat /\ h \in Nat /\ int \in Nat /\ int >= 2 * h + 3 * g /\ Latency \in Nat
    BY GapType, Constants DEF Exchange
<1>2. ASSUME NEW k \in At(p, "ack")'
      PROVE  /\ Wait(p, k)' \in Nat
             /\ \/ \E o \in At(p, "ack") : Wait(p, o) \in Nat /\ Wait(p, k)' < Wait(p, o)
                \/ 1 \in Inits(p) /\ Wait(p, k)' <= 3 * g
    BY Answers
<1>3. \A i \in Inits(p) : i \in Nat /\ i >= 1
    BY <1>1 DEF Exchange, Bounds
<1>4. \A i \in Inits(p)' : i \in Nat
    BY <1>1 DEF Exchange, Bounds
<1>5. ASSUME NEW i \in Inits(p)', NEW k \in At(p, "ack")' PROVE Wait(p, k)' < i
    <2> DEFINE w == Wait(p, k)'
    <2>0. i \in Nat /\ w \in Nat
        BY <1>2, <1>4
    <2>1. CASE i + 1 \in Inits(p)
        <3>1. ASSUME NEW o \in At(p, "ack"), Wait(p, o) \in Nat, w < Wait(p, o) PROVE w < i
            <4>1. Wait(p, o) < i + 1
                BY <2>1 DEF Exchange, Spaced, BeforeArrival
            <4> HIDE DEF w
            <4> QED BY <2>0, <3>1, <4>1
        <3>2. ASSUME 1 \in Inits(p), w <= 3 * g PROVE w < i
            <4>1. 1 < i + 1
                <5>1. i >= 1
                    BY <1>1 DEF Exchange, Bounds
                <5> QED BY <2>0, <5>1
            <4>2. (i + 1) - 1 > 3 * g
                BY <2>1, <3>2, <4>1 DEF Exchange, Spaced, Apart
            <4> HIDE DEF w, g
            <4> QED BY <1>1, <2>0, <3>2, <4>2
        <3> QED BY <1>2, <3>1, <3>2
    <2>2. CASE i = Latency /\ outq = "init"
        <3>1. /\ \A o \in At(p, "ack") : Wait(p, o) <= Latency
              /\ \A o \in Inits(p) : Latency - o >= 3 * g
            BY <2>2, Impending
        <3>2. ASSUME NEW o \in At(p, "ack"), Wait(p, o) \in Nat, w < Wait(p, o) PROVE w < i
            <4>1. Wait(p, o) <= i
                BY <2>2, <3>1
            <4> HIDE DEF w
            <4> QED BY <2>0, <3>2, <4>1
        <3>3. ASSUME 1 \in Inits(p), w <= 3 * g PROVE w < i
            <4>1. i - 1 >= 3 * g
                BY <2>2, <3>1, <3>3
            <4> HIDE DEF w, g
            <4> QED BY <1>1, <2>0, <3>3, <4>1
        <3> QED BY <1>2, <3>2, <3>3
    <2> QED BY <2>1, <2>2 DEF Exchange
<1>6. ASSUME NEW k \in At(p, "ack")', NEW l \in At(q, "init")' PROVE Wait(p, k)' <= Latency
    <2> DEFINE w == Wait(p, k)'
    <2>1. /\ \A o \in At(p, "ack") : Wait(p, o) <= Latency
          /\ \A o \in Inits(p) : Latency - o >= 3 * g
        BY Impending
    <2>2. ASSUME NEW o \in At(p, "ack"), Wait(p, o) \in Nat, w < Wait(p, o) PROVE w <= Latency
        <3>1. Wait(p, o) <= Latency
            BY <2>1
        <3>2. w \in Nat
            BY <1>2
        <3> HIDE DEF w
        <3> QED BY <1>1, <2>2, <3>1, <3>2
    <2>3. ASSUME 1 \in Inits(p), w <= 3 * g PROVE w <= Latency
        <3>1. Latency - 1 >= 3 * g
            BY <2>1, <2>3
        <3>2. w \in Nat
            BY <1>2
        <3> HIDE DEF w, g
        <3> QED BY <1>1, <2>3, <3>1, <3>2
    <2> QED BY <1>2, <2>2, <2>3
<1>7. ASSUME NEW k \in At(p, "ack")' PROVE Wait(p, k)' + timeout_count_init'[q] <= Latency + int
    <2> DEFINE w == Wait(p, k)'
               t == timeout_count_init[q]
               u == timeout_count_init'[q]
    <2>1. t \in Nat /\ u \in Nat /\ u <= t + 1 /\ w \in Nat
        BY <1>2 DEF Exchange, Bounds, Passed
    <2>2. ASSUME NEW o \in At(p, "ack"), Wait(p, o) \in Nat, w < Wait(p, o)
          PROVE  w + u <= Latency + int
        <3>1. Wait(p, o) + t <= Latency + int
            BY DEF Exchange, Spaced, BeforeTimeout
        <3> HIDE DEF w, t, u, int
        <3> QED BY <1>1, <2>1, <2>2, <3>1
    <2>3. ASSUME 1 \in Inits(p), w <= 3 * g PROVE w + u <= Latency + int
        <3>1. t + 1 <= Latency + 2 * h
            BY <2>3 DEF Exchange, Spaced, Recent
        <3> HIDE DEF w, t, u, int, g, h
        <3> QED BY <1>1, <2>1, <2>3, <3>1
    <2> QED BY <1>2, <2>2, <2>3
<1>8. q = Peer(p)
    BY DEF Exchange
<1> QED BY <1>5, <1>6, <1>7, <1>8 DEF BeforeArrival, BeforeSent, BeforeTimeout

\* The inits keep their distance, and the timeout of the peer is reset for each.
LEMMA ApartKept ==
    ASSUME NEW p \in Ports, NEW q \in Ports, NEW ev, NEW new, NEW out, NEW d,
           NEW evq, NEW newq, NEW outq, NEW dq,
           Exchange(p, q, ev, new, out, d, evq, newq, outq, dq)
    PROVE  Apart(p)' /\ ApartFromNext(p)' /\ Recent(p)'
<1> DEFINE g == Gap(p)
           h == Gap(q)
<1>1. g \in Nat /\ h \in Nat /\ Latency \in Nat
    BY GapType, Constants DEF Exchange
<1>2. q = Peer(p) /\ Gap(p)' = g /\ Gap(q)' = h
    BY DEF Exchange, Gap
<1>3. \A i \in Inits(p)' : i \in Nat /\ i <= Latency
    BY <1>1 DEF Exchange, Bounds
<1>4. outq = "init" \/ At(q, "init")' # {} => \A i \in Inits(p) : Latency - i >= 3 * g
    BY Impending
<1>5. ASSUME NEW i \in Inits(p)', NEW j \in Inits(p)', i < j PROVE j - i > 3 * g
    <2>0. i \in Nat /\ j \in Nat /\ i <= Latency /\ j <= Latency
        BY <1>3
    <2>1. i # Latency
        BY <1>1, <1>5, <2>0
    <2>2. i + 1 \in Inits(p)
        BY <2>1 DEF Exchange
    <2>3. CASE j + 1 \in Inits(p)
        <3>1. i + 1 < j + 1
            BY <1>5, <2>0
        <3>2. (j + 1) - (i + 1) > 3 * g
            BY <2>2, <2>3, <3>1 DEF Exchange, Spaced, Apart
        <3> HIDE DEF g
        <3> QED BY <1>1, <2>0, <3>2
    <2>4. CASE j = Latency /\ outq = "init"
        <3>1. Latency - (i + 1) >= 3 * g
            BY <1>4, <2>2, <2>4
        <3> HIDE DEF g
        <3> QED BY <1>1, <2>0, <2>4, <3>1
    <2> QED BY <2>3, <2>4 DEF Exchange
<1>6. ASSUME NEW i \in Inits(p)', NEW l \in At(q, "init")' PROVE Latency - i >= 3 * g
    <2>1. outq # "init"
        BY DEF Exchange
    <2>2. i + 1 \in Inits(p)
        BY <2>1 DEF Exchange
    <2>3. Latency - (i + 1) >= 3 * g
        BY <1>4, <2>2
    <2>4. i \in Nat
        BY <1>3
    <2> HIDE DEF g
    <2> QED BY <1>1, <2>3, <2>4
<1>7. ASSUME NEW i \in Inits(p)' PROVE timeout_count_init'[q] + i <= Latency + 2 * h
    <2> DEFINE t == timeout_count_init[q]
               u == timeout_count_init'[q]
    <2>1. t \in Nat /\ u \in Nat /\ u <= t + 1 /\ i \in Nat
        BY <1>3 DEF Exchange, Bounds, Passed
    <2>2. CASE i + 1 \in Inits(p)
        <3>1. t + (i + 1) <= Latency + 2 * h
            BY <2>2 DEF Exchange, Spaced, Recent
        <3> HIDE DEF t, u, h
        <3>2. u + i <= Latency + 2 * h
            BY <1>1, <2>1, <3>1
        <3> QED BY <3>2 DEF u
    <2>3. CASE i = Latency /\ outq = "init"
        <3>1. u <= 2 * h
            <4>1. CASE newq = "init"
                <5>1. u = 0
                    BY <4>1 DEF Exchange, Passed
                <5> HIDE DEF u, h
                <5> QED BY <1>1, <5>1
            <4>2. CASE 1 \in At(q, "init") /\ Wait(q, 1) = 1
                <5>1. t + 1 <= 2 * h
                    BY <4>2 DEF Exchange, Fresh
                <5> HIDE DEF t, u, h
                <5> QED BY <1>1, <2>1, <5>1
            <4> QED BY <2>3, <4>1, <4>2 DEF Exchange, Passed, Messages
        <3> HIDE DEF u, h
        <3>2. u + i <= Latency + 2 * h
            BY <1>1, <2>1, <2>3, <3>1
        <3> QED BY <3>2 DEF u
    <2> QED BY <2>2, <2>3 DEF Exchange
<1> QED BY <1>2, <1>5, <1>6, <1>7 DEF Apart, ApartFromNext, Recent

\* Where the inits of a link come from.
LEMMA LinkMoves ==
    ASSUME NEW p \in Ports, NEW m \in Message, link[p] \in Seq(Message), Len(link[p]) = Latency,
           link'[p] = Append(Tail(link[p]), m)
    PROVE  \A i \in Inits(p)' : \/ i + 1 \in Inits(p)
                                \/ i = Latency /\ m.e = "init"
<1>1. Latency \in Nat /\ Latency > 0
    BY Constants
<1>2. /\ link'[p][Latency] = m
      /\ \A k \in 1 .. Latency - 1 : link'[p][k] = link[p][k + 1]
    BY <1>1, LinkTypes
<1>3. ASSUME NEW i \in Inits(p)' PROVE i + 1 \in Inits(p) \/ (i = Latency /\ m.e = "init")
    <2>1. i \in 1 .. Latency /\ link'[p][i].e = "init"
        BY DEF Inits
    <2>2. CASE i = Latency
        BY <1>2, <2>1, <2>2
    <2>3. CASE i \in 1 .. Latency - 1
        <3>1. i + 1 \in 1 .. Latency /\ link[p][i + 1].e = "init"
            BY <1>1, <1>2, <2>1, <2>3
        <3> QED BY <3>1 DEF Inits
    <2> QED BY <1>1, <2>1, <2>2, <2>3
<1> QED BY <1>3

\* A cycle of both ports.
LEMMA TickPaced ==
    ASSUME Unhurried, Paced, Parts', Tick
    PROVE  \A p \in Ports : Flows(p)' /\ Single(p)' /\ Fresh(p)' /\ Spaced(p)'
<1>0. Parts
    BY DEF Paced
<1>1. PICK ev \in [Ports -> Message], blk \in [Ports -> Blocks] :
        /\ up' = up
        /\ \A p \in Ports :
            /\ blk[p] # "idle" => up[p] /\ busy[p] < MaxBusy[p]
            /\ ev[p].e # "none" => ev[p] = link[p][1]
            /\ Step(p, ev[p], blk[p])
            /\ link'[p] = Append(Tail(link[p]), Outgoing(Peer(p), ev[Peer(p)], blk[Peer(p)]))
    BY <1>0, TickSteps
<1>2. \A p \in Ports : /\ PortType(p) /\ PortType(p)' /\ Bounds(p) /\ Bounds(p)'
                       /\ Flows(p) /\ Single(p) /\ Fresh(p) /\ Spaced(p)
                       /\ Peer(p) \in Ports /\ Peer(Peer(p)) = p
    <2>1. \A p \in Ports : PortType(p) /\ PortType(p)'
        BY <1>0 DEF Parts
    <2>2. \A p \in Ports : Peer(p) \in Ports /\ Peer(Peer(p)) = p
        BY DEF Ports, Peer
    <2> QED BY <2>1, <2>2, BoundsHold DEF Paced
<1>3. \A p \in Ports : ev[p] \in Message /\ blk[p] \in Blocks
    OBVIOUS
<1> DEFINE out == [p \in Ports |-> Outgoing(p, ev[p], blk[p]).e]
<1>4. ASSUME NEW p \in Ports
      PROVE  /\ Flows(p)'
             /\ \E new \in Messages \cup {"none"}, d \in {0, 1} : Passed(p, ev[p], new, out[p], d)
    BY <1>1, <1>2, <1>3, PortPasses
<1>5. ASSUME NEW p \in Ports PROVE ev[p].e = "init" => 1 \in Inits(p)
    <2>1. ev[p].e # "none" => ev[p] = link[p][1]
        BY <1>1
    <2> QED BY <2>1, Constants DEF Inits
<1>6. ASSUME NEW p \in Ports
      PROVE  \A i \in Inits(p)' : \/ i + 1 \in Inits(p)
                                  \/ i = Latency /\ out[Peer(p)] = "init"
    <2> DEFINE m == Outgoing(Peer(p), ev[Peer(p)], blk[Peer(p)])
    <2>1. m \in Message
        <3>1. cycle \in Int
            BY <1>0, Constants DEF Parts
        <3> QED BY <1>2, <1>3, <3>1, OutgoingType
    <2>2. link[p] \in Seq(Message) /\ Len(link[p]) = Latency
        BY <1>2 DEF PortType
    <2>3. link'[p] = Append(Tail(link[p]), m)
        BY <1>1
    <2>4. out[Peer(p)] = m.e
        BY <1>2
    <2> HIDE DEF m, out
    <2> QED BY <2>1, <2>2, <2>3, <2>4, LinkMoves
<1>7. \A p \in Ports : /\ Interval[p] >= 2 * Gap(p) + 3 * Gap(Peer(p))
                       /\ Interval[p] >= 2 * Gap(p)
    BY <1>2, GapType DEF Unhurried
<1> HIDE DEF out
<1>8. ASSUME NEW p \in Ports,
             NEW new \in Messages \cup {"none"}, NEW d \in {0, 1},
             Passed(p, ev[p], new, out[p], d)
      PROVE  /\ Single(p)' /\ Fresh(p)'
             /\ out[p] = "init" => At(p, "init")' = {}
    <2>1. BeforeArrival(p)
        BY <1>2 DEF Spaced
    <2> QED BY <1>2, <1>3, <1>5, <1>7, <1>8, <2>1, SingleKept
<1>9. ASSUME NEW p \in Ports PROVE Single(p)' /\ Fresh(p)' /\ Spaced(p)'
    <2> DEFINE q == Peer(p)
    <2>1. q \in Ports /\ Peer(q) = p
        BY <1>2
    <2>2. PICK new \in Messages \cup {"none"}, d \in {0, 1} : Passed(p, ev[p], new, out[p], d)
        BY <1>4
    <2>3. PICK newq \in Messages \cup {"none"}, dq \in {0, 1} : Passed(q, ev[q], newq, out[q], dq)
        BY <1>4, <2>1
    <2>4. Single(p)' /\ Fresh(p)'
        BY <1>8, <2>2
    <2>5. out[q] = "init" => At(q, "init")' = {}
        BY <1>8, <2>1, <2>3
    <2>6. Exchange(p, q, ev[p], new, out[p], d, ev[q], newq, out[q], dq)
        <3>1. Interval[q] >= 2 * Gap(q) + 3 * Gap(p)
            BY <1>7, <2>1
        <3>2. \A i \in Inits(p)' : \/ i + 1 \in Inits(p)
                                   \/ i = Latency /\ out[q] = "init"
            BY <1>6
        <3>3. ev[p].e = "init" => 1 \in Inits(p)
            BY <1>5
        <3>4. /\ Bounds(p) /\ Bounds(p)' /\ Bounds(q) /\ Bounds(q)'
              /\ Spaced(p) /\ Fresh(q)
            BY <1>2, <2>1
        <3> QED BY <2>2, <2>3, <2>5, <3>1, <3>2, <3>3, <3>4 DEF Exchange
    <2> HIDE DEF q
    <2>7. Spaced(p)'
        BY <2>1, <2>6, BeforeKept, ApartKept DEF Spaced
    <2> QED BY <2>4, <2>7
<1> QED BY <1>4, <1>9

\* With such intervals every step keeps the invariant.
LEMMA PacedKept == Unhurried /\ Paced /\ [Next]_vars => Paced'
<1> SUFFICES ASSUME Unhurried, Paced, [Next]_vars PROVE Paced'
    OBVIOUS
<1>0. Parts'
    BY TypesKept DEF Paced
<1>1. CASE Tick
    BY <1>0, <1>1, TickPaced DEF Paced
<1>2. ASSUME UNCHANGED <<portVars, link, busy>>, \A p \in Ports : up[p] => up'[p]
      PROVE  Paced'
    <2>1. ASSUME NEW p \in Ports PROVE Flows(p)' /\ Single(p)' /\ Fresh(p)' /\ Spaced(p)'
        <3>1. /\ curr_state' = curr_state /\ timeout_count_init' = timeout_count_init
              /\ txMuxSelFifo' = txMuxSelFifo
              /\ initTs' = initTs /\ stageOneFifo' = stageOneFifo /\ tokens' = tokens
              /\ link' = link /\ busy' = busy
            BY <1>2 DEF portVars, timeouts
        <3>2. Flows(p)'
            BY <1>2, <3>1 DEF Paced, Flows
        <3>3. Single(p)' /\ Fresh(p)'
            BY <3>1 DEF Paced, Single, Fresh, At, Wait, Gap
        <3>4. Spaced(p)'
            BY <3>1 DEF Paced, Spaced, BeforeArrival, BeforeSent, BeforeTimeout, Apart,
                        ApartFromNext, Recent, At, Inits, Wait, Gap, Peer
        <3> QED BY <3>2, <3>3, <3>4
    <2> QED BY <1>0, <2>1 DEF Paced
<1>3. ASSUME NEW p \in Ports, LinkUp(p) PROVE Paced'
    <2>1. \A o \in Ports : up[o] => up'[o]
        BY <1>0, <1>3 DEF LinkUp, Parts, Paced
    <2> QED BY <1>2, <1>3, <2>1 DEF LinkUp
<1>4. CASE UNCHANGED vars
    BY <1>2, <1>4 DEF vars
<1> QED BY <1>1, <1>3, <1>4 DEF Next

\* It holds after reset.
LEMMA PacedStart == Init => Paced
<1> SUFFICES ASSUME Init PROVE Paced
    OBVIOUS
<1>1. ASSUME NEW p \in Ports PROVE Flows(p) /\ Single(p) /\ Fresh(p) /\ Spaced(p)
    <2>1. /\ tokens[p] = 0 /\ stageOneFifo[p] = <<>> /\ txMuxSelFifo[p] = <<>> /\ busy[p] = 0
        BY DEF Init
    <2>2. \A x : At(p, x) = {}
        BY <2>1 DEF At
    <2>3. Inits(p) = {}
        BY DEF Init, Inits, Nothing
    <2> QED BY <2>1, <2>2, <2>3 DEF Flows, Single, Fresh, Spaced, BeforeArrival, BeforeSent,
                BeforeTimeout, Apart, ApartFromNext, Recent
<1> QED BY <1>1, TypesStart DEF Paced

\* tx_stage2 never waits for a timestamp that nothing will bring, if the
\* intervals are long for the runs of blocks that the ports cannot use: no
\* more acks wait in txMuxSelFifo than there are timestamps for them.
THEOREM Stamps == ASSUME Unhurried PROVE Spec => []AcksHaveStamps
<1>1. Paced => AcksHaveStamps
    BY DEF Paced, Single, At, AcksHaveStamps
<1>2. Paced /\ [Next]_vars => Paced'
    BY PacedKept
<1> QED BY <1>1, <1>2, PacedStart, PTL DEF Spec

\* With such intervals the handshake never delays a packet: a block leaves
\* tx_stage2 in the cycle after tx_stage1 has taken it, or it would meet the
\* next one in stageOneFifo.
THEOREM Undelayed ==
    ASSUME Unhurried PROVE Spec => [](\A p \in Ports : Len(stageOneFifo[p]) <= 1)
<1>1. Paced => \A p \in Ports : Len(stageOneFifo[p]) <= 1
    <2>1. ASSUME Paced, NEW p \in Ports PROVE Len(stageOneFifo[p]) <= 1
        <3>1. CASE stageOneFifo[p] = <<>>
            BY <3>1
        <3>2. ASSUME NEW b, stageOneFifo[p] = <<b>> PROVE Len(stageOneFifo[p]) <= 1
            <4>1. Len(stageOneFifo[p]) = 1
                BY <3>2
            <4> QED BY <4>1
        <3> QED BY <2>1, <3>1, <3>2 DEF Paced, Flows
    <2> QED BY <2>1
<1>2. Paced /\ [Next]_vars => Paced'
    BY PacedKept
<1> QED BY <1>1, <1>2, PacedStart, PTL DEF Spec
=============================================================================

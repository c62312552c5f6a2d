---------------------------- MODULE DtpHandshake ----------------------------
(***************************************************************************)
(* The init/ack handshake by which two DTP ports measure the delay of the  *)
(* link between them and come into state SYNC, and the transmit side that  *)
(* carries it (src/hw/bsv/DtpTx.bsv: tx_stage1, tx_stage2,                 *)
(* delay_measurment, beacon, state_init, state_sent, state_sync and the    *)
(* init and ack branches of rx_stage1; src/hw/bsv/DtpRx.bsv).              *)
(*                                                                         *)
(* One step is one clock cycle of both ports, which run on one clock as in *)
(* the test bench hw/tests/test_dtpm; every rule of a port fires at most   *)
(* once in it, in the order rx_stage1 (which sets the wires init_rcvd and  *)
(* ack_rcvd), tx_stage1 (is_idle), delay_measurment or beacon, the state   *)
(* rule, tx_stage2: the order the bypass FIFOs and the wires impose.       *)
(* A bypass FIFO shows an entry in the cycle in which it is enqueued, but  *)
(* its notFull is that of the beginning of the cycle.                      *)
(***************************************************************************)
EXTENDS Integers, Sequences

CONSTANTS
    Latency,     \* cycles from the tx_stage2 of one port to the rx_stage1 of the other
    Interval,    \* Interval[p]: interval_reg of port p
    CycleMod,    \* the free running cycle register counts modulo CycleMod (2^32)
    TimeMod,     \* the 53-bit arithmetic of the timestamps is modulo TimeMod (2^53)
    MaxBusy      \* MaxBusy[p]: longest run of blocks of port p that DTP cannot use

Ports == {1, 2}
Peer(p) == 3 - p

ASSUME HandshakeAssumption ==
    /\ Latency \in Nat /\ Latency >= 3
    /\ Interval \in [Ports -> Nat \ {0}]
    /\ CycleMod \in Nat \ {0} /\ TimeMod \in Nat /\ CycleMod <= TimeMod
    /\ MaxBusy \in [Ports -> Nat]

VARIABLES
    cycle,          \* the cycle register (both ports come out of reset together)
    up,             \* up[p]: tx_ready, rx_ready and bsync_lock of p
    curr_state,     \* INIT, SENT or SYNC
    timeout_count_init,     \* cycles since the last init, counted in INIT and SENT
    timeout_count_sync,     \* cycles since the last beacon, counted in SYNC
    delay,          \* the measured delay
    txMuxSelFifo,   \* messages waiting for an idle block, at most 3
    initTs,         \* initTimestampFifo (and initParityFifo): one entry
    ackTs,          \* ackTimestampFifo: one entry
    stageOneFifo,   \* blocks between tx_stage1 and tx_stage2
    tokens,         \* entries of dmFifo and of cfFifo, one per block taken
    link,           \* link[p]: the blocks under way to port p, Latency of them
    busy            \* blocks in a row that p could not use

timeouts == <<timeout_count_init, timeout_count_sync>>
portVars == <<curr_state, timeouts, delay, txMuxSelFifo, initTs, ackTs, stageOneFifo, tokens>>
vars == <<cycle, up, portVars, link, busy>>

\* The blocks a port is given to transmit: part of a packet, an idle block
\* (0x1e), or an idle block for which fromHostFifo holds a log message, which
\* tx_stage2 prefers to the messages of the handshake.
Blocks == {"packet", "idle", "log"}

NoTs == -1
Nothing == [e |-> "none", t |-> 0]     \* a block that carries no init and no ack

Time == 0 .. TimeMod - 1
Message == [e: {"none", "init", "ack", "beacon"}, t: Time]

TypeOK ==
    /\ cycle \in 0 .. CycleMod - 1
    /\ up \in [Ports -> BOOLEAN]
    /\ curr_state \in [Ports -> {"INIT", "SENT", "SYNC"}]
    /\ \A p \in Ports : /\ timeout_count_init[p] \in 0 .. Interval[p]
                        /\ timeout_count_sync[p] \in 0 .. Interval[p] - 1
    /\ delay \in [Ports -> Time]
    /\ \A p \in Ports : /\ txMuxSelFifo[p] \in Seq({"init", "ack", "beacon"})
                        /\ Len(txMuxSelFifo[p]) <= 3
                        /\ stageOneFifo[p] \in Seq(Blocks)
                        /\ Len(stageOneFifo[p]) <= 2
    /\ initTs \in [Ports -> Time \cup {NoTs}]
    /\ ackTs \in [Ports -> Time \cup {NoTs}]
    /\ tokens \in [Ports -> 0 .. 2]
    /\ \A p \in Ports : link[p] \in Seq(Message) /\ Len(link[p]) = Latency
    /\ \A p \in Ports : busy[p] \in 0 .. MaxBusy[p]

Init ==
    /\ cycle = 0
    /\ up = [p \in Ports |-> FALSE]
    /\ curr_state = [p \in Ports |-> "INIT"]
    /\ timeout_count_init = [p \in Ports |-> 0]
    /\ timeout_count_sync = [p \in Ports |-> 0]
    /\ delay = [p \in Ports |-> 0]
    /\ txMuxSelFifo = [p \in Ports |-> <<>>]
    /\ initTs = [p \in Ports |-> NoTs]
    /\ ackTs = [p \in Ports |-> NoTs]
    /\ stageOneFifo = [p \in Ports |-> <<>>]
    /\ tokens = [p \in Ports |-> 0]
    /\ link = [p \in Ports |-> [i \in 1 .. Latency |-> Nothing]]
    /\ busy = [p \in Ports |-> 0]

-----------------------------------------------------------------------------
(* The rules of port p in one cycle.  ev is the message that reaches       *)
(* rx_stage1, blk the block that tx_stage1 takes.                          *)

\* rx_stage1: a timestamp is kept only if the one-entry FIFO is free, but
\* init_rcvd and ack_rcvd are raised in any case.
InitStamp(p, ev) == IF ev.e = "init" /\ initTs[p] = NoTs THEN ev.t ELSE initTs[p]
AckStamp(p, ev)  == IF ev.e = "ack" /\ ackTs[p] = NoTs THEN ev.t ELSE ackTs[p]

\* tx_stage1 needs room in stageOneFifo, dtpTxInPipelineFifo, cfFifo, dmFifo.
TxStage1Fires(p) == up[p] /\ Len(stageOneFifo[p]) < 2 /\ tokens[p] < 2
IsIdle(p, blk)   == TxStage1Fires(p) /\ blk # "packet"

NotFull(p) == Len(txMuxSelFifo[p]) < 3
InitDue(p)   == timeout_count_init[p] > Interval[p] - 1
BeaconDue(p) == timeout_count_sync[p] >= Interval[p] - 1

\* Mutant: only a port in SYNC answers an init.
Selected_AnswersInSync(p, ev, blk) ==
    IF tokens[p] = 0 \/ ~NotFull(p) THEN <<>>
    ELSE IF curr_state[p] = "SYNC"
         THEN IF BeaconDue(p) THEN <<"beacon">>
              ELSE IF ev.e = "init" THEN <<"ack">> ELSE <<>>
         ELSE IF InitDue(p) /\ IsIdle(p, blk) THEN <<"init">> ELSE <<>>

\* What delay_measurment (INIT, SENT) or beacon (SYNC) puts into txMuxSelFifo.
\* In SYNC the beacon takes precedence over an init received in that cycle.
Selected(p, ev, blk) ==
    IF tokens[p] = 0 \/ ~NotFull(p) THEN <<>>
    ELSE IF curr_state[p] = "SYNC"
         THEN IF BeaconDue(p) THEN <<"beacon">>
              ELSE IF ev.e = "init" THEN <<"ack">> ELSE <<>>
         ELSE IF ev.e = "init" THEN <<"ack">>
              ELSE IF InitDue(p) /\ IsIdle(p, blk) THEN <<"init">> ELSE <<>>

\* Mutant: the timeout counter is not reset when an init is sent.
NextInitCount_NoReset(p, ev, blk) ==
    IF tokens[p] = 0 \/ curr_state[p] = "SYNC" \/ InitDue(p)
    THEN timeout_count_init[p] ELSE timeout_count_init[p] + 1

\* The timeout counters.  Only their comparison with the interval matters, so
\* they count no further than the value at which they are due.  A port in SYNC
\* leaves timeout_count_init alone, any other one timeout_count_sync: the first
\* beacon is due Interval[p] cycles after the port has come into SYNC, wherever
\* the count of the inits then stands.
NextInitCount(p, ev, blk) ==
    CASE tokens[p] = 0 \/ curr_state[p] = "SYNC" -> timeout_count_init[p]
      [] tokens[p] > 0 /\ curr_state[p] # "SYNC" ->
            IF ~InitDue(p) THEN timeout_count_init[p] + 1
            ELSE IF ev.e # "init" /\ IsIdle(p, blk) THEN 0 ELSE timeout_count_init[p]
NextSyncCount(p, blk) ==
    CASE tokens[p] = 0 \/ curr_state[p] # "SYNC" -> timeout_count_sync[p]
      [] tokens[p] > 0 /\ curr_state[p] = "SYNC" ->
            IF ~BeaconDue(p) THEN timeout_count_sync[p] + 1
            ELSE IF IsIdle(p, blk) THEN 0 ELSE timeout_count_sync[p]

Mux(p, ev, blk) == txMuxSelFifo[p] \o Selected(p, ev, blk)
HeadIsInit(q) == q # <<>> /\ Head(q) = "init"

\* Mutant: any answer of the peer, an init too, moves SENT to SYNC.
NextState_InitSuffices(p, ev, blk) ==
    LET q == Mux(p, ev, blk) IN
    IF tokens[p] = 0 \/ curr_state[p] = "SYNC" THEN curr_state[p]
    ELSE IF curr_state[p] = "INIT"
         THEN IF HeadIsInit(q) /\ IsIdle(p, blk) THEN "SENT" ELSE "INIT"
         ELSE IF ev.e \in {"init", "ack"} THEN "SYNC"
         ELSE IF HeadIsInit(q) THEN "INIT" ELSE "SENT"

\* state_init, state_sent and state_sync.
NextState(p, ev, blk) ==
    LET q == Mux(p, ev, blk) IN
    CASE tokens[p] = 0 -> curr_state[p]
      [] tokens[p] > 0 /\ curr_state[p] = "INIT" ->
            IF HeadIsInit(q) /\ IsIdle(p, blk) THEN "SENT" ELSE "INIT"
      [] tokens[p] > 0 /\ curr_state[p] = "SENT" ->
            IF ev.e = "init" THEN "SENT"
            ELSE IF ev.e = "ack" THEN "SYNC"
            ELSE IF HeadIsInit(q) THEN "INIT" ELSE "SENT"
      [] tokens[p] > 0 /\ curr_state[p] = "SYNC" -> "SYNC"

\* Mutants: RXTX_DELAY (5), which the rule declares and does not use, taken
\* off in addition to the 3 cycles, or in their place.
MeasuredDelay_Both(ts) == (cycle - ts - 3 - 5) \div 2
MeasuredDelay_RxTx(ts) == ((cycle - ts - 5) % TimeMod) \div 2

\* delay <= (cycle - timestamp - 3) >> 1, in the width of the timestamps.
MeasuredDelay(ts) == ((cycle - ts - 3) % TimeMod) \div 2

Measures(p, ev) == tokens[p] > 0 /\ curr_state[p] # "SYNC" /\ ev.e = "ack"

\* tx_stage2 handles one block.  An idle block goes to the host's log message
\* first, then to the head of txMuxSelFifo; an ack without a timestamp to put
\* into it blocks the rule, and with it the whole transmit path.
Offers(p, ev, blk) ==
    LET q == Mux(p, ev, blk) IN
    IF stageOneFifo[p] # <<>> /\ Head(stageOneFifo[p]) = "idle" /\ q # <<>>
    THEN Head(q) ELSE "none"
TxStage2Fires(p, ev, blk) ==
    /\ up[p]
    /\ stageOneFifo[p] # <<>>
    /\ InitStamp(p, ev) = NoTs => Offers(p, ev, blk) # "ack"
Sends(p, ev, blk) ==
    IF TxStage2Fires(p, ev, blk) THEN Offers(p, ev, blk) ELSE "none"
Outgoing(p, ev, blk) ==
    LET m == Sends(p, ev, blk) IN
    CASE m = "init" -> [e |-> "init", t |-> (cycle + 1) % TimeMod]
      [] m = "ack"  -> [e |-> "ack", t |-> InitStamp(p, ev)]
      [] m = "beacon" -> [e |-> "beacon", t |-> 0]
      [] m = "none" -> Nothing

-----------------------------------------------------------------------------
(* One cycle of both ports.                                                *)

\* The message that reaches rx_stage1: none while the port is down (DtpRx
\* passes the block on unparsed), and none if the parity bit does not match.
\* tx_stage2 puts the parity of c_local into an init that carries the cycle
\* register, so an init may fail the check of DtpRx; an ack never does.
Received(p, lost) ==
    LET m == Head(link[p]) IN
    IF ~up[p] \/ lost THEN Nothing ELSE m

\* ev: what reaches the ports; out: what leaves them.
Cycle(blk, lost) ==
    \E ev \in {[p \in Ports |-> Received(p, lost[p])]} :
    \E out \in {[p \in Ports |-> Outgoing(p, ev[p], blk[p])]} :
    /\ busy' = [p \in Ports |-> IF blk[p] = "idle" THEN 0 ELSE busy[p] + 1]
    /\ cycle' = (cycle + 1) % CycleMod
    /\ curr_state' = [p \in Ports |-> NextState(p, ev[p], blk[p])]
    /\ timeout_count_init' = [p \in Ports |-> NextInitCount(p, ev[p], blk[p])]
    /\ timeout_count_sync' = [p \in Ports |-> NextSyncCount(p, blk[p])]
    /\ delay' = [p \in Ports |-> IF Measures(p, ev[p])
                                 THEN MeasuredDelay(AckStamp(p, ev[p])) ELSE delay[p]]
    /\ ackTs' = [p \in Ports |-> IF Measures(p, ev[p]) THEN NoTs ELSE AckStamp(p, ev[p])]
    /\ initTs' = [p \in Ports |-> IF out[p].e = "ack" THEN NoTs ELSE InitStamp(p, ev[p])]
    /\ txMuxSelFifo' = [p \in Ports |->
            IF out[p].e # "none" THEN Tail(Mux(p, ev[p], blk[p])) ELSE Mux(p, ev[p], blk[p])]
    /\ stageOneFifo' = [p \in Ports |->
            (IF TxStage2Fires(p, ev[p], blk[p])
             THEN Tail(stageOneFifo[p]) ELSE stageOneFifo[p])
            \o (IF TxStage1Fires(p) THEN <<blk[p]>> ELSE <<>>)]
    /\ tokens' = [p \in Ports |->
            tokens[p] - (IF tokens[p] > 0 THEN 1 ELSE 0)
                      + (IF TxStage1Fires(p) THEN 1 ELSE 0)]
    /\ link' = [p \in Ports |-> Append(Tail(link[p]), out[Peer(p)])]
    /\ up' = up

Tick ==
    \E blk \in [Ports -> Blocks], lost \in [Ports -> BOOLEAN] :
        /\ \A p \in Ports :
            /\ blk[p] # "idle" => up[p] /\ busy[p] < MaxBusy[p]
            /\ lost[p] => up[p] /\ Head(link[p]).e = "init"
        /\ Cycle(blk, lost)

\* The transceivers of a port become ready; the two ports do so independently.
LinkUp(p) ==
    /\ ~up[p]
    /\ up' = [up EXCEPT ![p] = TRUE]
    /\ UNCHANGED <<cycle, portVars, link, busy>>

Next == Tick \/ \E p \in Ports : LinkUp(p)

Spec == Init /\ [][Next]_vars

\* A cycle in which both ports have an idle block and nothing is lost.
IdleTick == Cycle([p \in Ports |-> "idle"], [p \in Ports |-> FALSE])

\* The clock runs, idle blocks come again and again, as Ethernet demands
\* between packets, and the transceivers come up.
Fairness == WF_vars(IdleTick) /\ \A p \in Ports : WF_vars(LinkUp(p))
FairSpec == Spec /\ Fairness

-----------------------------------------------------------------------------
(* Properties.                                                             *)

\* The delay a port has measured is never less than that of the link
\* (Latency - 2: the -3 of the code takes off the cycles spent in the ports),
\* whatever the order in which inits, acks and their timestamps pass through
\* the one-entry FIFOs.  With a delay too small, rx_stage2 would let the port
\* fall behind its peer.
NeverUnderestimates ==
    \A p \in Ports : delay[p] = 0 \/ delay[p] >= Latency - 2

\* A port in SYNC has measured the delay.
SyncIsMeasured ==
    \A p \in Ports : curr_state[p] = "SYNC" => delay[p] >= Latency - 2

\* tx_stage2 never waits for a timestamp that nothing will bring: no more
\* acks wait in txMuxSelFifo than there are timestamps to answer with.  An
\* ack too many blocks every block behind it, the packets of the port too.
AcksHaveStamps ==
    \A p \in Ports : \A i, j \in 1 .. Len(txMuxSelFifo[p]) :
        txMuxSelFifo[p][i] = "ack" /\ txMuxSelFifo[p][j] = "ack"
            => i = j /\ initTs[p] # NoTs

\* Once both lines only carry idle blocks and nothing is lost, both ports
\* reach SYNC, in whatever state the traffic before has left them.  That is so
\* for intervals such that twice one's period of inits is no multiple of the
\* other's period of beacons; and only from when on no init is lost any more: a
\* port of whose inits every second one is lost stays out of SYNC for ever.
EventuallySync ==
    <>[][IdleTick]_vars => <>(\A p \in Ports : curr_state[p] = "SYNC")
=============================================================================

----------------------------- MODULE DtpCounter -----------------------------
(***************************************************************************)
(* The receive pipeline of one DTP port in NIC mode                        *)
(* (src/hw/bsv/DtpTx.bsv, rules rx_stage1 .. rx_stage3): how the           *)
(* timestamps of the peer's beacons move the local DTP counter c_local.    *)
(*                                                                         *)
(* One step of the specification is one clock cycle.  All the rules of the *)
(* pipeline fire in every cycle in which their input queue holds an entry, *)
(* so a two-entry mkFIFOF between two stages never holds more than the     *)
(* entry of the previous cycle and is modelled as a pipeline register that *)
(* is Empty or holds that entry.  The two lanes of the pipeline (the event *)
(* lane and the compare lane) are separate registers, as in the code.      *)
(*                                                                         *)
(* A beacon that arrives in cycle n is sampled against c_local in cycle n  *)
(* (rx_stage1), compared in n+1 (rx_stage2) and lands in c_local in n+2    *)
(* (rx_stage3_nic_mode and rx_stage3): three values of c_local are         *)
(* computed while it is under way, and the delay register is read twice.   *)
(***************************************************************************)
EXTENDS Integers

CONSTANTS
    Delays,     \* one-way delays the delay measurement can produce
    Skips       \* how far the peer's counter may move between two cycles

ASSUME DelaysAssumption == Delays \subseteq Nat
ASSUME SkipsAssumption  == Skips \subseteq Nat

VARIABLES
    rx_ready,             \* the wire of that name in the cycle that led here
    synced,               \* curr_state = SYNC: the delay is no longer measured
    delay,                \* measured one-way delay
    c_local,              \* the DTP counter of the port
    jumpCount,            \* how often the remote counter won
    dtpEventFifo,         \* event lane between rx_stage1 and rx_stage2_bypass
    dtpEventOutputFifo,   \* event lane between rx_stage2_bypass and rx_stage3
    compareFifo,          \* localCompareRemoteFifo and remoteCompareLocalFifo
    outputFifo,           \* localOutputFifo, remoteOutputFifo, localLt/GeRemoteFifo
    peer,                 \* least timestamp the peer's next beacon can carry
    unsettled             \* history: a beacon under way was sampled while
                          \* c_local stood still, or overtaken by a smaller
                          \* delay or by a cleared c_local

pipeline == <<dtpEventFifo, dtpEventOutputFifo, compareFifo, outputFifo>>
vars == <<rx_ready, synced, delay, c_local, jumpCount, pipeline, peer, unsettled>>

Empty   == "empty"     \* the queue holds no entry
NoEvent == "none"      \* rx_stage1 found dtpEventInFifo empty and sent 3'b0
Beacon  == "beacon"
Other   == "other"     \* init, ack and log events, which do not move c_local

Pair == [filled: BOOLEAN, local: Nat, remote: Nat, useLocal: BOOLEAN]
NoPair == [filled |-> FALSE, local |-> 0, remote |-> 0, useLocal |-> TRUE]

TypeOK ==
    /\ rx_ready \in BOOLEAN
    /\ synced \in BOOLEAN
    /\ delay \in Nat
    /\ c_local \in Nat
    /\ jumpCount \in Nat
    /\ dtpEventFifo \in {Empty, NoEvent, Beacon, Other}
    /\ dtpEventOutputFifo \in {Empty, NoEvent, Beacon, Other}
    /\ compareFifo \in Pair
    /\ outputFifo \in Pair
    /\ peer \in Nat
    /\ unsettled \in BOOLEAN

\* The registers after reset, and c_local_init = 0; the link may come up with
\* the peer's counter anywhere.
Init ==
    /\ rx_ready = FALSE
    /\ synced = FALSE
    /\ delay = 0
    /\ c_local = 0
    /\ jumpCount = 0
    /\ dtpEventFifo = Empty
    /\ dtpEventOutputFifo = Empty
    /\ compareFifo = NoPair
    /\ outputFifo = NoPair
    /\ peer \in Skips
    /\ unsettled = FALSE

-----------------------------------------------------------------------------
(* The rules of the pipeline.                                              *)

\* localCompareRemoteFifo.enq(c_local + 1); remoteCompareLocalFifo.enq(t + 1)
Sample(t) == [filled |-> TRUE, local |-> c_local + 1, remote |-> t + 1,
              useLocal |-> TRUE]

\* Mutant: the delay is taken off the remote counter in the comparison.
Compared_WrongSign(p) ==
    IF p.filled
    THEN [filled |-> TRUE, local |-> p.local + 1, remote |-> p.remote + 1 - delay,
          useLocal |-> ~(p.local < p.remote - delay)]
    ELSE NoPair

\* rx_stage2: which counter is ahead, with the delay as it is in this cycle.
Compared(p) ==
    IF p.filled
    THEN [filled |-> TRUE, local |-> p.local + 1, remote |-> p.remote + 1,
          useLocal |-> ~(p.local < p.remote + delay)]
    ELSE NoPair

\* rx_stage3_nic_mode: the value put on the wire c_local_next, a mkDWire(0)
\* when no compared beacon is there.
c_local_next ==
    IF outputFifo.filled
    THEN IF outputFifo.useLocal
         THEN outputFifo.local + 1
         ELSE outputFifo.remote + delay + 1
    ELSE 0

rx_stage2 == outputFifo' = Compared(compareFifo)

\* Mutant: the event lane held back while rx_ready is low, the other not.
rx_stage2_bypass_Gated ==
    dtpEventOutputFifo' = IF rx_ready' THEN dtpEventFifo ELSE Empty

rx_stage2_bypass == dtpEventOutputFifo' = dtpEventFifo

\* Mutant: a jump counted only when a further beacon follows.
rx_stage3_nic_mode_Late ==
    jumpCount' = IF outputFifo.filled /\ ~outputFifo.useLocal /\ compareFifo.filled
                 THEN jumpCount + 1 ELSE jumpCount

rx_stage3_nic_mode ==
    jumpCount' = IF outputFifo.filled /\ ~outputFifo.useLocal
                 THEN jumpCount + 1 ELSE jumpCount

\* Mutant: a drained pipeline taken for a link that is down.
rx_stage3_DrainClears(rdy) ==
    c_local' = IF dtpEventOutputFifo = Empty \/ ~rdy THEN 0
               ELSE IF dtpEventOutputFifo = Beacon THEN c_local_next
               ELSE c_local + 1

\* rx_stage3 fires only when an event leaves the pipeline: c_local stands
\* still once the pipeline has drained.
rx_stage3(rdy) ==
    c_local' = IF dtpEventOutputFifo = Empty THEN c_local
               ELSE IF ~rdy THEN 0
               ELSE IF dtpEventOutputFifo = Beacon THEN c_local_next
               ELSE c_local + 1

\* What every cycle does, whatever rx_stage1 finds.
Stages(rdy) ==
    /\ rx_ready' = rdy
    /\ rx_stage2
    /\ rx_stage2_bypass
    /\ rx_stage3_nic_mode
    /\ rx_stage3(rdy)

\* History only: such a beacon, or one sampled behind it, is under way until
\* the pipeline holds no beacon at all.
Settle(disturbed) ==
    unsettled' = (\/ disturbed
                  \/ unsettled /\ (compareFifo'.filled \/ outputFifo'.filled))

-----------------------------------------------------------------------------
(* One action per thing rx_stage1 can do in a cycle.                       *)

\* A beacon with timestamp t: the peer's beacons carry increasing timestamps,
\* and may arrive late by any number of cycles (DtpRx and the queue between
\* the two clock domains only ever delay them).
BeaconCycle ==
    /\ dtpEventFifo' = Beacon
    /\ compareFifo' = Sample(peer)
    /\ \E s \in Skips : peer' = peer + 1 + s
    /\ Stages(TRUE)
    /\ Settle(Empty \in {dtpEventFifo, dtpEventOutputFifo})
    /\ UNCHANGED <<synced, delay>>

\* No event, or one that does not move c_local.
PlainCycle(e) ==
    /\ dtpEventFifo' = e
    /\ compareFifo' = NoPair
    /\ \E s \in Skips : peer' = peer + s
    /\ Stages(TRUE)
    /\ Settle(FALSE)
    /\ UNCHANGED <<synced, delay>>

\* An ack while the delay is still measured: delay_measurment computes a new
\* delay, and state_sent may or may not move to SYNC with it.
AckCycle(d) ==
    /\ ~synced
    /\ dtpEventFifo' = Other
    /\ compareFifo' = NoPair
    /\ delay' = d
    /\ synced' \in BOOLEAN
    /\ \E s \in Skips : peer' = peer + s
    /\ Stages(TRUE)
    /\ Settle(d < delay /\ compareFifo.filled)

\* tx_ready or rx_ready is low: rx_stage1 does not fire and the pipeline
\* drains; rx_stage3 clears c_local if it is rx_ready that is low.
LinkDownCycle(rdy) ==
    /\ dtpEventFifo' = Empty
    /\ compareFifo' = NoPair
    /\ \E s \in Skips : peer' = peer + s
    /\ Stages(rdy)
    /\ Settle(~rdy /\ compareFifo.filled)
    /\ UNCHANGED <<synced, delay>>

Next ==
    \/ BeaconCycle
    \/ \E e \in {NoEvent, Other} : PlainCycle(e)
    \/ \E d \in Delays : AckCycle(d)
    \/ \E rdy \in BOOLEAN : LinkDownCycle(rdy)

Spec == Init /\ [][Next]_vars

-----------------------------------------------------------------------------
(* Properties.                                                             *)

\* The two lanes never drift apart: a beacon reaches rx_stage3 in the very
\* cycle in which rx_stage3_nic_mode drives c_local_next, whatever tx_ready
\* and rx_ready do meanwhile.  If they did, c_local would take the default 0
\* of the wire, or a stale compare result.
LanesAligned ==
    /\ (dtpEventFifo = Beacon) <=> compareFifo.filled
    /\ (dtpEventOutputFifo = Beacon) <=> outputFifo.filled

\* The counter never moves backwards while the link is up: neither a beacon
\* sampled before an earlier jump has landed nor one held up in a queue may
\* pull it back.  Excepted are the beacons that the pipeline does not get
\* right: those sampled while it refills, when c_local stands still but is
\* extrapolated as if it ran; those compared with a delay that then shrank
\* before it was read again (rx_stage2 and rx_stage3_nic_mode both read it);
\* and those still to land when a drop of rx_ready cleared c_local.
NeverBackwards == [][rx_ready' /\ ~unsettled => c_local' >= c_local]_vars

\* jumpCount misses no jump: a cycle in which c_local gains more than the two
\* it gains when it catches up with the peer's own lost cycle is counted.
EveryJumpCounted ==
    [][~unsettled /\ c_local' > c_local + 2 => jumpCount' = jumpCount + 1]_vars

\* The counter a sampled beacon will make of its two candidates.
Ahead(p) == IF p.local < p.remote + delay THEN p.remote + delay ELSE p.local

\* Why the counter cannot move backwards, as a relation between c_local and
\* the beacons under way in a settled pipeline.  A sampled beacon (rx_stage1)
\* extrapolates c_local by at most one cycle too much and c_local is at most
\* one ahead of what the beacon offers; a compared one (rx_stage2) will land
\* at or above c_local; of two in a row the later one offers no less.
InFlightOrder ==
    LET A == compareFifo
        B == outputFifo
    IN ~unsettled =>
       /\ A.filled =>
            /\ dtpEventOutputFifo # Empty
            /\ A.local <= c_local + 1
            /\ c_local <= Ahead(A) + 1
            /\ A.remote <= peer
       /\ B.filled =>
            /\ B.local <= c_local + 1
            /\ c_local <= c_local_next
            /\ B.remote <= peer + 1
       /\ A.filled /\ B.filled =>
            /\ B.remote <= A.remote
            /\ B.local <= A.local + 1
            /\ A.local <= c_local_next
=============================================================================

------------------------- MODULE DtpCounter_proofs -------------------------
(***************************************************************************)
(* Proofs about DtpCounter, for every set of delays and of skips.          *)
(*                                                                         *)
(* The counter is monotone because of InFlightOrder, which with the        *)
(* alignment of the two lanes is inductive: IInv.                          *)
(***************************************************************************)
EXTENDS DtpCounter, TLAPS

IInv == TypeOK /\ LanesAligned /\ InFlightOrder

\* What every cycle does to the later stages: the types of the registers it
\* assigns, and the lane alignment of the last stage.
LEMMA StagesType ==
    ASSUME TypeOK, NEW rdy \in BOOLEAN, Stages(rdy)
    PROVE  /\ rx_ready' \in BOOLEAN
           /\ outputFifo' \in Pair
           /\ dtpEventOutputFifo' \in {Empty, NoEvent, Beacon, Other}
           /\ jumpCount' \in Nat
           /\ c_local' \in Nat
<1>1. rx_ready' \in BOOLEAN /\ dtpEventOutputFifo' \in {Empty, NoEvent, Beacon, Other}
    BY DEF Stages, TypeOK, rx_stage2_bypass
<1>2. outputFifo' \in Pair
    BY DEF Stages, TypeOK, rx_stage2, Compared, Pair, NoPair
<1>3. jumpCount' \in Nat
    BY DEF Stages, TypeOK, rx_stage3_nic_mode
<1>4. c_local_next \in Nat
    BY DEF TypeOK, c_local_next, Pair
<1>5. c_local' \in Nat
    BY <1>4 DEF Stages, TypeOK, rx_stage3
<1> QED BY <1>1, <1>2, <1>3, <1>5

LEMMA StagesAligned ==
    ASSUME LanesAligned, NEW rdy \in BOOLEAN, Stages(rdy)
    PROVE  (dtpEventOutputFifo' = Beacon) <=> outputFifo'.filled
BY DEF LanesAligned, Stages, rx_stage2, rx_stage2_bypass, Compared, NoPair

\* The type invariant and the alignment are preserved by every cycle.
LEMMA TypePreserved ==
    ASSUME TypeOK, [Next]_vars
    PROVE  TypeOK'
<1>1. CASE BeaconCycle
    <2>1. Stages(TRUE) BY <1>1 DEF BeaconCycle
    <2>2. compareFifo' \in Pair BY <1>1 DEF BeaconCycle, Sample, Pair, TypeOK
    <2>3. peer' \in Nat BY <1>1, SkipsAssumption DEF BeaconCycle, TypeOK
    <2>4. unsettled' \in BOOLEAN BY <1>1 DEF BeaconCycle, Settle
    <2> QED BY <1>1, <2>1, <2>2, <2>3, <2>4, StagesType DEF BeaconCycle, TypeOK
<1>2. ASSUME NEW e \in {NoEvent, Other}, PlainCycle(e) PROVE TypeOK'
    <2>1. Stages(TRUE) BY <1>2 DEF PlainCycle
    <2>2. compareFifo' \in Pair BY <1>2 DEF PlainCycle, NoPair, Pair
    <2>3. peer' \in Nat BY <1>2, SkipsAssumption DEF PlainCycle, TypeOK
    <2>4. unsettled' \in BOOLEAN BY <1>2 DEF PlainCycle, Settle
    <2> QED BY <1>2, <2>1, <2>2, <2>3, <2>4, StagesType DEF PlainCycle, TypeOK
<1>3. ASSUME NEW d \in Delays, AckCycle(d) PROVE TypeOK'
    <2>1. Stages(TRUE) BY <1>3 DEF AckCycle
    <2>2. compareFifo' \in Pair BY <1>3 DEF AckCycle, NoPair, Pair
    <2>3. peer' \in Nat BY <1>3, SkipsAssumption DEF AckCycle, TypeOK
    <2>4. unsettled' \in BOOLEAN BY <1>3 DEF AckCycle, Settle
    <2>5. delay' \in Nat BY <1>3, DelaysAssumption DEF AckCycle
    <2> QED BY <1>3, <2>1, <2>2, <2>3, <2>4, <2>5, StagesType DEF AckCycle, TypeOK
<1>4. ASSUME NEW rdy \in BOOLEAN, LinkDownCycle(rdy) PROVE TypeOK'
    <2>1. Stages(rdy) BY <1>4 DEF LinkDownCycle
    <2>2. compareFifo' \in Pair BY <1>4 DEF LinkDownCycle, NoPair, Pair
    <2>3. peer' \in Nat BY <1>4, SkipsAssumption DEF LinkDownCycle, TypeOK
    <2>4. unsettled' \in BOOLEAN BY <1>4 DEF LinkDownCycle, Settle
    <2> QED BY <1>4, <2>1, <2>2, <2>3, <2>4, StagesType DEF LinkDownCycle, TypeOK
<1>5. CASE UNCHANGED vars
    BY <1>5 DEF vars, pipeline, TypeOK
<1> QED BY <1>1, <1>2, <1>3, <1>4, <1>5 DEF Next

LEMMA AlignedPreserved ==
    ASSUME LanesAligned, [Next]_vars
    PROVE  LanesAligned'
<1>1. CASE BeaconCycle
    BY <1>1, StagesAligned DEF BeaconCycle, LanesAligned, Sample
<1>2. ASSUME NEW e \in {NoEvent, Other}, PlainCycle(e) PROVE LanesAligned'
    BY <1>2, StagesAligned DEF PlainCycle, LanesAligned, NoPair, NoEvent, Other, Beacon
<1>3. ASSUME NEW d \in Delays, AckCycle(d) PROVE LanesAligned'
    BY <1>3, StagesAligned DEF AckCycle, LanesAligned, NoPair, Other, Beacon
<1>4. ASSUME NEW rdy \in BOOLEAN, LinkDownCycle(rdy) PROVE LanesAligned'
    BY <1>4, StagesAligned DEF LinkDownCycle, LanesAligned, NoPair, Empty, Beacon
<1>5. CASE UNCHANGED vars
    BY <1>5 DEF vars, pipeline, LanesAligned
<1> QED BY <1>1, <1>2, <1>3, <1>4, <1>5 DEF Next

-----------------------------------------------------------------------------
(* The order of the beacons under way.                                     *)

\* The later stages of one cycle with rx_ready high, in a settled pipeline
\* and whatever the new delay is, as long as it does not shrink under a
\* sampled beacon: the beacon that is being compared will land at or above
\* the counter, and the counter does not move backwards.
LEMMA StagesForward ==
    ASSUME TypeOK, TypeOK', LanesAligned, InFlightOrder, ~unsettled,
           Stages(TRUE),
           compareFifo.filled => delay <= delay'
    PROVE  /\ c_local <= c_local'
           /\ outputFifo'.filled =>
                /\ outputFifo'.local <= c_local' + 1
                /\ c_local' <= c_local_next'
                /\ outputFifo'.remote <= peer + 1
<1> DEFINE A == compareFifo
           B == outputFifo
<1>0. /\ A \in Pair /\ B \in Pair /\ c_local \in Nat /\ delay \in Nat
      /\ delay' \in Nat /\ peer \in Nat /\ c_local' \in Nat
    BY DEF TypeOK
<1>1. c_local' = IF dtpEventOutputFifo = Empty THEN c_local
                 ELSE IF B.filled THEN c_local_next ELSE c_local + 1
    BY DEF Stages, rx_stage3, LanesAligned
<1>2. B.filled => dtpEventOutputFifo # Empty
    BY DEF LanesAligned, Empty, Beacon
<1>3. B.filled => c_local <= c_local_next
    BY DEF InFlightOrder
<1>4. c_local <= c_local'
    BY <1>0, <1>1, <1>3
<1>5. ASSUME outputFifo'.filled
      PROVE  /\ outputFifo'.local <= c_local' + 1
             /\ c_local' <= c_local_next'
             /\ outputFifo'.remote <= peer + 1
    <2>1. A.filled /\ outputFifo' = [filled |-> TRUE, local |-> A.local + 1,
                remote |-> A.remote + 1, useLocal |-> ~(A.local < A.remote + delay)]
        BY <1>5 DEF Stages, rx_stage2, Compared, NoPair
    <2>2. /\ dtpEventOutputFifo # Empty
          /\ A.local <= c_local + 1
          /\ c_local <= Ahead(A) + 1
          /\ A.remote <= peer
        BY <2>1 DEF InFlightOrder
    <2>3. c_local' = IF B.filled THEN c_local_next ELSE c_local + 1
        BY <1>1, <2>2
    <2>4. B.filled => /\ A.local <= c_local_next
                      /\ B.remote <= A.remote
                      /\ B.local <= A.local + 1
        BY <2>1 DEF InFlightOrder
    <2>5. /\ A.local \in Nat /\ A.remote \in Nat /\ B.local \in Nat
          /\ B.remote \in Nat /\ c_local_next \in Nat
        BY <1>0 DEF Pair, c_local_next
    <2>6. outputFifo'.local <= c_local' + 1
        BY <1>0, <2>1, <2>2, <2>3, <2>4, <2>5
    <2>7. outputFifo'.remote <= peer + 1
        BY <1>0, <2>1, <2>2, <2>5
    <2>8. c_local_next' = IF ~(A.local < A.remote + delay)
                          THEN A.local + 2 ELSE A.remote + delay' + 2
        <3>1. /\ outputFifo'.filled /\ outputFifo'.local = A.local + 1
              /\ outputFifo'.remote = A.remote + 1
              /\ outputFifo'.useLocal = ~(A.local < A.remote + delay)
            BY <2>1
        <3>2. c_local_next' = IF outputFifo'.useLocal
                              THEN outputFifo'.local + 1
                              ELSE outputFifo'.remote + delay' + 1
            BY <3>1 DEF c_local_next
        <3>3. CASE A.local < A.remote + delay
            <4>1. ~outputFifo'.useLocal BY <3>1, <3>3
            <4>2. c_local_next' = A.remote + 1 + delay' + 1 BY <3>1, <3>2, <4>1
            <4>3. A.remote + 1 + delay' + 1 = A.remote + delay' + 2 BY <1>0, <2>5
            <4> QED BY <3>3, <4>2, <4>3
        <3>4. CASE ~(A.local < A.remote + delay)
            <4>1. outputFifo'.useLocal BY <3>1, <3>4
            <4>2. c_local_next' = A.local + 1 + 1 BY <3>1, <3>2, <4>1
            <4>3. A.local + 1 + 1 = A.local + 2 BY <2>5
            <4> QED BY <3>4, <4>2, <4>3
        <3> QED BY <3>3, <3>4
    <2>9. Ahead(A) + 2 <= c_local_next'
        BY <1>0, <2>1, <2>5, <2>8 DEF Ahead
    <2>10. Ahead(A) \in Nat /\ A.local <= Ahead(A) /\ A.remote + delay <= Ahead(A)
        BY <1>0, <2>5 DEF Ahead
    <2>11. B.filled => c_local_next <= Ahead(A) + 2
        <3>1. B.filled => c_local_next = B.local + 1 \/ c_local_next = B.remote + delay + 1
            BY DEF c_local_next
        <3> QED BY <1>0, <2>4, <2>5, <2>10, <3>1
    <2>12. c_local_next' \in Nat
        BY <1>0, <2>5, <2>8
    <2>13. c_local' <= c_local_next'
        BY <1>0, <2>2, <2>3, <2>5, <2>9, <2>10, <2>11, <2>12
    <2> QED BY <2>6, <2>7, <2>13
<1> QED BY <1>4, <1>5

\* A cycle that samples no beacon.
LEMMA OrderWithoutSample ==
    ASSUME TypeOK, TypeOK', LanesAligned, InFlightOrder,
           Stages(TRUE), compareFifo' = NoPair, peer <= peer',
           \/ delay' = delay /\ Settle(FALSE)
           \/ Settle(delay' < delay /\ compareFifo.filled)
    PROVE  InFlightOrder'
<1> SUFFICES ASSUME ~unsettled', outputFifo'.filled
             PROVE  /\ outputFifo'.local <= c_local' + 1
                    /\ c_local' <= c_local_next'
                    /\ outputFifo'.remote <= peer' + 1
    BY DEF InFlightOrder, NoPair
<1>1. ~unsettled
    BY DEF Settle
<1>2. compareFifo.filled => delay <= delay'
    <2>1. delay' = delay \/ ~(delay' < delay) \/ ~compareFifo.filled
        BY DEF Settle
    <2>2. delay \in Nat /\ delay' \in Nat
        BY DEF TypeOK
    <2> QED BY <2>1, <2>2
<1>3. outputFifo'.remote \in Nat /\ peer \in Nat /\ peer' \in Nat
    BY DEF TypeOK, Pair
<1> QED BY <1>1, <1>2, <1>3, StagesForward

\* A cycle that samples a beacon.
LEMMA OrderWithSample ==
    ASSUME TypeOK, TypeOK', LanesAligned, InFlightOrder, BeaconCycle
    PROVE  InFlightOrder'
<1> SUFFICES ASSUME ~unsettled' PROVE InFlightOrder'
    BY DEF InFlightOrder
<1>1. /\ compareFifo'.filled /\ compareFifo'.local = c_local + 1
      /\ compareFifo'.remote = peer + 1
      /\ Stages(TRUE) /\ delay' = delay
    BY DEF BeaconCycle, Sample
<1>2. ~unsettled /\ dtpEventFifo # Empty /\ dtpEventOutputFifo # Empty
    BY <1>1 DEF BeaconCycle, Settle
<1>3. /\ compareFifo \in Pair /\ outputFifo \in Pair /\ compareFifo' \in Pair /\ outputFifo' \in Pair
      /\ c_local \in Nat /\ c_local' \in Nat /\ delay \in Nat
      /\ peer \in Nat /\ peer' \in Nat
    BY DEF TypeOK
<1>4. peer + 1 <= peer'
    BY <1>3, SkipsAssumption DEF BeaconCycle
<1>5. /\ c_local <= c_local'
      /\ outputFifo'.filled => /\ outputFifo'.local <= c_local' + 1
                      /\ c_local' <= c_local_next'
                      /\ outputFifo'.remote <= peer + 1
    BY <1>1, <1>2, <1>3, StagesForward
<1>6. compareFifo'.local <= c_local' + 1 /\ compareFifo'.remote <= peer'
    <2>1. c_local <= c_local' BY <1>5
    <2>2. c_local \in Nat /\ c_local' \in Nat BY <1>3
    <2>3. \A m, n \in Nat : m <= n => m + 1 <= n + 1 OBVIOUS
    <2>4. c_local + 1 <= c_local' + 1 BY <2>1, <2>2, <2>3
    <2> QED BY <1>1, <1>4, <2>4
<1>7. dtpEventOutputFifo' # Empty
    BY <1>1, <1>2 DEF Stages, rx_stage2_bypass
<1>8. c_local' <= Ahead(compareFifo)' + 1
    <2>1. /\ Ahead(compareFifo)' \in Nat /\ c_local + 1 <= Ahead(compareFifo)'
          /\ peer + 1 + delay <= Ahead(compareFifo)'
        BY <1>1, <1>3 DEF Ahead, Pair
    <2>2. c_local' = IF outputFifo.filled THEN c_local_next ELSE c_local + 1
        BY <1>1, <1>2 DEF Stages, rx_stage3, LanesAligned
    <2>3. outputFifo.filled => outputFifo.local <= c_local + 1 /\ outputFifo.remote <= peer + 1
        BY <1>2 DEF InFlightOrder
    <2>4. outputFifo.filled => c_local_next = outputFifo.local + 1 \/ c_local_next = outputFifo.remote + delay + 1
        BY DEF c_local_next
    <2> QED BY <1>3, <2>1, <2>2, <2>3, <2>4 DEF Pair
<1>9. ASSUME outputFifo'.filled
      PROVE  /\ outputFifo'.remote <= compareFifo'.remote
             /\ outputFifo'.local <= compareFifo'.local + 1
             /\ compareFifo'.local <= c_local_next'
    <2>1. /\ compareFifo.filled /\ outputFifo'.local = compareFifo.local + 1 /\ outputFifo'.remote = compareFifo.remote + 1
          /\ outputFifo'.useLocal = ~(compareFifo.local < compareFifo.remote + delay)
        BY <1>1, <1>9 DEF Stages, rx_stage2, Compared, NoPair
    <2>2. /\ compareFifo.local <= c_local + 1 /\ c_local <= Ahead(compareFifo) + 1 /\ compareFifo.remote <= peer
        BY <1>2, <2>1 DEF InFlightOrder
    <2>3. outputFifo'.remote <= compareFifo'.remote /\ outputFifo'.local <= compareFifo'.local + 1
        BY <1>1, <1>3, <2>1, <2>2 DEF Pair
    <2>4. c_local_next' = Ahead(compareFifo) + 2
        BY <1>1, <1>3, <1>9, <2>1 DEF c_local_next, Ahead, Pair
    <2>5. Ahead(compareFifo) \in Nat
        BY <1>3 DEF Ahead, Pair
    <2>6. compareFifo'.local <= c_local_next'
        BY <1>1, <1>3, <2>2, <2>4, <2>5
    <2> QED BY <2>3, <2>6
<1>10. outputFifo'.filled => outputFifo'.remote <= peer' + 1
    BY <1>3, <1>4, <1>5 DEF Pair
<1> QED BY <1>1, <1>5, <1>6, <1>7, <1>8, <1>9, <1>10 DEF InFlightOrder

LEMMA OrderPreserved ==
    ASSUME TypeOK, TypeOK', LanesAligned, InFlightOrder, [Next]_vars
    PROVE  InFlightOrder'
<1>0. peer \in Nat BY DEF TypeOK
<1>1. CASE BeaconCycle
    BY <1>1, OrderWithSample
<1>2. ASSUME NEW e \in {NoEvent, Other}, PlainCycle(e) PROVE InFlightOrder'
    <2>1. peer <= peer' BY <1>0, <1>2, SkipsAssumption DEF PlainCycle
    <2> QED BY <1>2, <2>1, OrderWithoutSample DEF PlainCycle
<1>3. ASSUME NEW d \in Delays, AckCycle(d) PROVE InFlightOrder'
    <2>1. peer <= peer' BY <1>0, <1>3, SkipsAssumption DEF AckCycle
    <2> QED BY <1>3, <2>1, OrderWithoutSample DEF AckCycle
<1>4. ASSUME NEW rdy \in BOOLEAN, LinkDownCycle(rdy) PROVE InFlightOrder'
    <2>1. peer <= peer' BY <1>0, <1>4, SkipsAssumption DEF LinkDownCycle
    <2>2. CASE rdy
        <3>1. Stages(TRUE) /\ Settle(FALSE) /\ delay' = delay /\ compareFifo' = NoPair
            BY <1>4, <2>2 DEF LinkDownCycle, Settle
        <3> QED BY <2>1, <3>1, OrderWithoutSample
    <2>3. CASE ~rdy
        <3>1. compareFifo' = NoPair BY <1>4 DEF LinkDownCycle
        <3>2. ~unsettled' => ~outputFifo'.filled
            BY <1>4, <2>3 DEF LinkDownCycle, Settle, Stages, rx_stage2, Compared, NoPair
        <3> QED BY <3>1, <3>2 DEF InFlightOrder, NoPair
    <2> QED BY <2>2, <2>3
<1>5. CASE UNCHANGED vars
    BY <1>5 DEF vars, pipeline, InFlightOrder, Ahead, c_local_next
<1> QED BY <1>1, <1>2, <1>3, <1>4, <1>5 DEF Next

-----------------------------------------------------------------------------
(* The theorems.                                                           *)

LEMMA Initially == Init => IInv
<1> SUFFICES ASSUME Init PROVE IInv
    OBVIOUS
<1>1. TypeOK
    <2>1. NoPair \in Pair BY DEF NoPair, Pair
    <2>2. peer \in Nat BY SkipsAssumption DEF Init
    <2> QED BY <2>1, <2>2 DEF Init, TypeOK
<1>2. LanesAligned
    BY DEF Init, LanesAligned, NoPair, Empty, Beacon
<1>3. InFlightOrder
    BY DEF Init, InFlightOrder, NoPair
<1> QED BY <1>1, <1>2, <1>3 DEF IInv

\* Every reachable state is well typed, keeps the lanes of the receive
\* pipeline aligned and its beacons in order.
THEOREM Invariance == Spec => []IInv
<1>1. IInv /\ [Next]_vars => IInv'
    BY TypePreserved, AlignedPreserved, OrderPreserved DEF IInv
<1> QED BY <1>1, Initially, PTL DEF Spec

\* No wire or register of the pipeline ever holds anything but an event, a
\* natural number or a compared pair: the default of an unwritten wire never
\* mixes with a beacon's candidates.
THEOREM Types == Spec => []TypeOK
<1>1. IInv => TypeOK BY DEF IInv
<1> QED BY <1>1, Invariance, PTL

\* The beacons under way stay ordered around c_local in a settled pipeline.
THEOREM Order == Spec => []InFlightOrder
<1>1. IInv => InFlightOrder BY DEF IInv
<1> QED BY <1>1, Invariance, PTL

\* A beacon and its compare result always reach rx_stage3 together.
THEOREM Alignment == Spec => []LanesAligned
<1>1. IInv => LanesAligned BY DEF IInv
<1> QED BY <1>1, Invariance, PTL

\* The DTP counter of a port never moves backwards while the link is up and
\* the pipeline settled.
THEOREM Monotonicity == Spec => NeverBackwards
<1>1. IInv /\ IInv' /\ [Next]_vars =>
          [rx_ready' /\ ~unsettled => c_local' >= c_local]_vars
    <2> SUFFICES ASSUME IInv, IInv', Next, rx_ready', ~unsettled
                 PROVE  c_local' >= c_local
        OBVIOUS
    <2>0. c_local \in Nat /\ c_local' \in Nat /\ c_local_next \in Nat
        BY DEF IInv, TypeOK, Pair, c_local_next
    <2>1. Stages(TRUE)
        BY DEF Next, BeaconCycle, PlainCycle, AckCycle, LinkDownCycle, Stages
    <2>2. outputFifo.filled => c_local <= c_local_next
        BY DEF IInv, InFlightOrder
    <2>3. c_local' = c_local \/ c_local' = c_local + 1
            \/ (outputFifo.filled /\ c_local' = c_local_next)
        BY <2>1 DEF Stages, rx_stage3, IInv, LanesAligned
    <2> QED BY <2>0, <2>2, <2>3
<1> QED BY <1>1, Invariance, PTL DEF Spec, NeverBackwards

\* No jump of the counter escapes jumpCount.
THEOREM JumpsCounted == Spec => EveryJumpCounted
<1>1. IInv /\ [Next]_vars =>
        [~unsettled /\ c_local' > c_local + 2 => jumpCount' = jumpCount + 1]_vars
    <2> SUFFICES ASSUME IInv, Next, ~unsettled, c_local' > c_local + 2
                 PROVE  jumpCount' = jumpCount + 1
        OBVIOUS
    <2>0. c_local \in Nat /\ outputFifo \in Pair
        BY DEF IInv, TypeOK
    <2>1. PICK rdy \in BOOLEAN : Stages(rdy)
        BY DEF Next, BeaconCycle, PlainCycle, AckCycle, LinkDownCycle
    <2>2. c_local' \in {0, c_local, c_local + 1}
            \/ (outputFifo.filled /\ c_local' = c_local_next)
        BY <2>1 DEF Stages, rx_stage3, IInv, LanesAligned
    <2>3. outputFifo.filled /\ c_local' = c_local_next
        BY <2>0, <2>2
    <2>4. outputFifo.local <= c_local + 1
        BY <2>3 DEF IInv, InFlightOrder
    <2>5. ~outputFifo.useLocal
        BY <2>0, <2>3, <2>4 DEF c_local_next, Pair
    <2> QED BY <2>1, <2>3, <2>5 DEF Stages, rx_stage3_nic_mode
<1> QED BY <1>1, Invariance, PTL DEF Spec, EveryJumpCounted
=============================================================================

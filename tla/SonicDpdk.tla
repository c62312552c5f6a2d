------------------------------ MODULE SonicDpdk ------------------------------
(***************************************************************************)
(* The transmit path that SoNIC gives to DPDK: src/sonic/cpp/dpdk.cpp and  *)
(* mkSonicTop (src/sonic/SonicTop.bsv), whose transmitter feeds its own    *)
(* receiver.                                                               *)
(*                                                                         *)
(* init sends the address translation of the packet memory to the MMU of   *)
(* the board.  Then several threads of the driver look at tx_credit, send  *)
(* packets and take the credit away, while the thread of the poller gives  *)
(* back what the board reports.  A descriptor that arrives while the       *)
(* board's queue is full replaces the one that waits in newTxDesc.         *)
(* Memory is counted in pages of 16 MB, the only ones that the code uses.  *)
(* Of the receive half there is what can hold the transmitter up: the room *)
(* of its packet buffer and the descriptors that the driver posts.  Its    *)
(* reset is left out.                                                      *)
(***************************************************************************)
EXTENDS Integers, Sequences, FiniteSets

CONSTANTS
    Senders,       \* threads of the driver
    TxCredit,      \* SONIC_TX_CREDIT (128)
    TxCredTotal,   \* descriptors that txDescQueue holds (512)
    TxCredThres,   \* credits that are given back before the timeout (32)
    CredFifo,      \* depth of txCredCf (8)
    RxCredTotal,   \* descriptors that rxDescQueue and newRxDesc hold (513)
    RxRoom,        \* packets between transmitter and dmaWriteStart: fifoLen's 16
                   \* and those whose end waits in the FIFOs before it
    MaxBurst,      \* packets that a thread sends at once
    MaxPackets,    \* bound: packets sent in all
    HalfPages,     \* pages that fit into the int size_accum (128)
    Sizes,         \* pages of packet memory that init may be given
    Ids,           \* identifiers that the MMU may assign
    Memories       \* bound: the sizes and identifiers that come together

ASSUME DpdkAssumption ==
    /\ {TxCredit, TxCredTotal, TxCredThres, CredFifo, MaxBurst, HalfPages} \subseteq Nat \ {0}
    /\ {RxCredTotal, RxRoom} \subseteq Nat \ {0}
    /\ IsFiniteSet(Senders) /\ Senders # {} /\ Senders \cap {"poller", "nobody"} = {}
    /\ MaxPackets \in Nat
    /\ Sizes \subseteq 1 .. 2 * HalfPages - 1
    /\ Ids \subseteq Nat
    /\ Memories \subseteq Sizes \X Ids
    /\ TxCredit + (Cardinality(Senders) - 1) * MaxBurst <= TxCredTotal + 1

Poller == "poller"
Nobody == "nobody"
NoDesc == [id |-> -1, page |-> 0]

VARIABLES
    step,      \* how far init is: start, sent, ready
    pages,     \* sz of the memory, in pages
    sglId,     \* mmu_sglId
    mmuq,      \* requests to the MMU
    table,     \* the MMU's entries, a set of records id, i, page
    region,    \* the MMU's borders: a record id, val, or NoRegion
    confSem,   \* the semaphore that configResp posts
    credit,    \* tx_credit
    mutex,     \* its holder
    copy,      \* copy[t]: packets of the burst sent, then tx_credit as loaded
    pc,        \* pc[t]: idle, send, pay or store; of the poller: idle or store
    burst,     \* burst[t]: packets to send, then to pay for
    sent,      \* history: packets sent
    newTxDesc, txDescQueue,
    inTx,      \* packets read by the DMA engine and not yet transmitted
    txCredFreed, txCredCf,
    reports,   \* calls of writeTxCred that the poller has not yet seen
    rxDescQueue,  \* receive descriptors in the queue and in newRxDesc
    inRx       \* packets transmitted that dmaWriteStart has not yet taken

mmu   == <<step, pages, sglId, mmuq, table, region, confSem>>
host  == <<credit, mutex, copy, pc, burst, sent>>
board == <<newTxDesc, txDescQueue, inTx, txCredFreed, txCredCf, reports>>
rx    == <<rxDescQueue, inRx>>
vars  == <<mmu, host, board, rx>>

Threads == Senders \cup {Poller}
Descs == [id: Ids, page: Nat]
NoRegion == [id |-> -1, val |-> <<>>]

RxTypeOK == rxDescQueue \in 0 .. RxCredTotal /\ inRx \in 0 .. RxRoom

TypeOK ==
    /\ RxTypeOK
    /\ step \in {"start", "sent", "ready"}
    /\ pages \in Sizes /\ sglId \in Ids \cup {-1}
    /\ confSem \in 0 .. 1
    /\ credit \in Int
    /\ mutex \in Threads \cup {Nobody}
    /\ copy \in [Threads -> Int]
    /\ pc \in [Threads -> {"idle", "send", "pay", "store"}]
    /\ burst \in [Threads -> Nat]
    /\ sent \in 0 .. MaxPackets
    /\ newTxDesc \in Descs \cup {NoDesc}
    /\ txDescQueue \in Seq(Descs) /\ Len(txDescQueue) <= TxCredTotal
    /\ txCredCf \in Seq(Nat) /\ Len(txCredCf) <= CredFifo
    /\ reports \in Seq(Nat)
    /\ inTx \in Nat /\ txCredFreed \in Nat

Init ==
    /\ step = "start" /\ pages \in Sizes /\ sglId = -1
    /\ mmuq = <<>> /\ table = {} /\ region = NoRegion /\ confSem = 0
    /\ credit = TxCredit /\ mutex = Nobody
    /\ copy = [t \in Threads |-> 0]
    /\ pc = [t \in Threads |-> "idle"]
    /\ burst = [t \in Threads |-> 0]
    /\ sent = 0
    /\ newTxDesc = NoDesc /\ txDescQueue = <<>> /\ inTx = 0
    /\ txCredFreed = 0 /\ txCredCf = <<>> /\ reports = <<>>
    /\ rxDescQueue = 0 /\ inRx = 0

-----------------------------------------------------------------------------
(* init: the translation table.                                            *)

\* The page that entry i names: size_accum is an int, and once it is negative
\* its sign covers the identifier.
Entry(id, i) == IF i < HalfPages THEN id * 2 * HalfPages + i ELSE i - 2 * HalfPages

\* A page of the largest size in pages of the k-th one.
Scale(k) == <<1, 16, 256, 4096>>[k]

\* indexVal: entryCount - border in an unsigned char.
Index(n, k) == IF k = 1 THEN 0 ELSE (n - n * Scale(k)) % 256

\* The borders of the four page sizes.  There are only pages of the largest.
Borders(n) == [k \in 1 .. 4 |-> [border |-> n * Scale(k), index |-> Index(n, k)]]

\* The requests of send_fd_to_portal: the entries, the end of the list, and
\* the borders.
send_fd_to_portal(id, n) ==
    [i \in 1 .. n |-> [op |-> "sglist", id |-> id, i |-> i - 1, page |-> Entry(id, i - 1)]]
        \o <<[op |-> "end", id |-> id], [op |-> "region", id |-> id, val |-> Borders(n)]>>

\* idRequest, and sem_wait for the answer of the MMU.
dma_reference ==
    /\ step = "start"
    /\ \E id \in Ids :
        /\ <<pages, id>> \in Memories
        /\ sglId' = id
        /\ mmuq' = send_fd_to_portal(id, pages)
    /\ step' = "sent"
    /\ UNCHANGED <<pages, table, region, confSem, host, board, rx>>

\* Mutant: nobody waits for the configuration.
init_returns_AtOnce ==
    /\ step = "sent"
    /\ step' = "ready"
    /\ UNCHANGED <<pages, sglId, mmuq, table, region, confSem, host, board, rx>>

\* rc is the identifier, so that only the identifier 0 makes it wait for the
\* configuration.
init_returns ==
    /\ step = "sent"
    /\ IF sglId <= 0 THEN confSem > 0 /\ confSem' = confSem - 1 ELSE UNCHANGED confSem
    /\ step' = "ready"
    /\ UNCHANGED <<pages, sglId, mmuq, table, region, host, board, rx>>

\* External: the MMU works its requests off, and confirms the borders.
MMU ==
    /\ mmuq # <<>>
    /\ mmuq' = Tail(mmuq)
    /\ LET r == Head(mmuq) IN
        /\ table' = IF r.op = "sglist" THEN table \cup {[id |-> r.id, i |-> r.i, page |-> r.page]}
                    ELSE table
        /\ region' = IF r.op = "region" THEN [id |-> r.id, val |-> r.val] ELSE region
        /\ confSem' = IF r.op = "region" THEN confSem + 1 ELSE confSem
    /\ UNCHANGED <<step, pages, sglId, host, board, rx>>

\* External: what it makes of a page: the entry of the first border above it.
Lookup(id, p) ==
    LET below == {k \in 1 .. 4 : region.id = id /\ p * Scale(k) < region.val[k].border}
        first == CHOOSE k \in below : \A j \in below : k <= j
        i == p * Scale(first) + region.val[first].index
    IN IF below = {} THEN {} ELSE {e.page : e \in {x \in table : x.id = id /\ x.i = i}}

-----------------------------------------------------------------------------
(* The driver's threads.                                                   *)

Acquire_Never(t) == mutex' = mutex                      \* Mutant

Acquire(t) == mutex = Nobody /\ mutex' = t

\* Mutant: a thread looks for any credit, not for enough.
tx_credit_available_Some(t) ==
    /\ step = "ready" /\ pc[t] = "idle" /\ mutex = Nobody
    /\ \E n \in 1 .. MaxBurst :
        /\ credit > 0 /\ sent + n <= MaxPackets
        /\ burst' = [burst EXCEPT ![t] = n]
        /\ sent' = sent + n
    /\ pc' = [pc EXCEPT ![t] = "send"]
    /\ UNCHANGED <<mmu, board, credit, mutex, copy, rx>>

\* External: a thread that has packets sends them if there is credit.
tx_credit_available(t) ==
    /\ step = "ready" /\ pc[t] = "idle" /\ mutex = Nobody
    /\ \E n \in 1 .. MaxBurst :
        /\ n <= credit /\ sent + n <= MaxPackets
        /\ burst' = [burst EXCEPT ![t] = n]
        /\ sent' = sent + n
    /\ pc' = [pc EXCEPT ![t] = "send"]
    /\ UNCHANGED <<mmu, board, credit, mutex, copy, rx>>

\* startRead writes newTxDesc.  A request takes several cycles, and enqTxDesc
\* one: a descriptor is still there only if the queue is full.
startRead(d) ==
    /\ newTxDesc # NoDesc => Len(txDescQueue) = TxCredTotal
    /\ newTxDesc' = d

tx_send_pa(t, p) ==
    /\ pc[t] = "send"
    /\ startRead([id |-> sglId, page |-> p])
    /\ copy' = [copy EXCEPT ![t] = @ + 1]
    /\ pc' = [pc EXCEPT ![t] = IF copy[t] + 1 = burst[t] THEN "pay" ELSE "send"]
    /\ UNCHANGED <<mmu, credit, mutex, burst, sent, txDescQueue, inTx, txCredFreed,
                   txCredCf, reports, rx>>

\* lock and load.
tx_credit_decrement(t) ==
    /\ pc[t] = "pay"
    /\ Acquire(t)
    /\ copy' = [copy EXCEPT ![t] = credit]
    /\ pc' = [pc EXCEPT ![t] = "store"]
    /\ UNCHANGED <<mmu, board, credit, burst, sent, rx>>

\* lock and load, in the thread of the poller.
writeTxCred ==
    /\ reports # <<>> /\ pc[Poller] = "idle"
    /\ Acquire(Poller)
    /\ reports' = Tail(reports)
    /\ burst' = [burst EXCEPT ![Poller] = Head(reports)]
    /\ copy' = [copy EXCEPT ![Poller] = credit]
    /\ pc' = [pc EXCEPT ![Poller] = "store"]
    /\ UNCHANGED <<mmu, credit, sent, newTxDesc, txDescQueue, inTx, txCredFreed, txCredCf, rx>>

\* store and unlock.
Store(t) ==
    /\ pc[t] = "store"
    /\ credit' = IF t = Poller THEN copy[t] + burst[t] ELSE copy[t] - burst[t]
    /\ mutex' = Nobody
    /\ copy' = [copy EXCEPT ![t] = 0]
    /\ burst' = [burst EXCEPT ![t] = 0]
    /\ pc' = [pc EXCEPT ![t] = "idle"]
    /\ UNCHANGED <<mmu, board, sent, rx>>

-----------------------------------------------------------------------------
(* The board.                                                              *)

enqTxDesc ==
    /\ newTxDesc # NoDesc /\ Len(txDescQueue) < TxCredTotal
    /\ txDescQueue' = Append(txDescQueue, newTxDesc)
    /\ newTxDesc' = NoDesc
    /\ UNCHANGED <<mmu, host, inTx, txCredFreed, txCredCf, reports, rx>>

dmaRead ==
    /\ txDescQueue # <<>>
    /\ txDescQueue' = Tail(txDescQueue)
    /\ inTx' = inTx + 1
    /\ UNCHANGED <<mmu, host, newTxDesc, txCredFreed, txCredCf, reports, rx>>

\* The last beat of a packet.  fifoTxData is looped back into fifoRxData, which
\* takes it as long as the receive path has room.
txMacInProgress ==
    /\ inTx > 0 /\ inRx < RxRoom
    /\ inTx' = inTx - 1 /\ inRx' = inRx + 1
    /\ IF txCredFreed >= TxCredThres /\ Len(txCredCf) < CredFifo
       THEN txCredCf' = Append(txCredCf, txCredFreed) /\ txCredFreed' = 1
       ELSE txCredFreed' = txCredFreed + 1 /\ UNCHANGED txCredCf
    /\ UNCHANGED <<mmu, host, newTxDesc, txDescQueue, reports, rxDescQueue>>

\* Mutant: credits that do not exceed the threshold are not reported.
txCreditWritebackTimeout_Thres ==
    /\ txCredCf = <<>> /\ txCredFreed > TxCredThres
    /\ reports' = Append(reports, txCredFreed)
    /\ txCredFreed' = 0
    /\ UNCHANGED <<mmu, host, newTxDesc, txDescQueue, inTx, txCredCf, rx>>

txCreditWritebackTimeout ==
    /\ txCredCf = <<>> /\ txCredFreed # 0
    /\ reports' = Append(reports, txCredFreed)
    /\ txCredFreed' = 0
    /\ UNCHANGED <<mmu, host, newTxDesc, txDescQueue, inTx, txCredCf, rx>>

txCreditWritebackThreshold ==
    /\ txCredCf # <<>>
    /\ reports' = Append(reports, Head(txCredCf))
    /\ txCredCf' = Tail(txCredCf)
    /\ UNCHANGED <<mmu, host, newTxDesc, txDescQueue, inTx, txCredFreed, rx>>

-----------------------------------------------------------------------------
(* The receive half.                                                       *)

\* startWrite of a buffer for a packet, by the driver.  With the queue full, the
\* descriptor replaces the one that waits in newRxDesc.
rx_send_pa ==
    /\ step = "ready" /\ rxDescQueue < RxCredTotal
    /\ rxDescQueue' = rxDescQueue + 1
    /\ UNCHANGED <<mmu, host, board, inRx>>

\* A packet is taken out of rxPktBuff and written to its buffer.
dmaWriteStart ==
    /\ rxDescQueue > 0 /\ inRx > 0
    /\ rxDescQueue' = rxDescQueue - 1 /\ inRx' = inRx - 1
    /\ UNCHANGED <<mmu, host, board>>

Receive == rx_send_pa \/ dmaWriteStart

Next ==
    \/ dma_reference
    \/ init_returns
    \/ MMU
    \/ \E t \in Senders : \/ tx_credit_available(t)
                          \/ \E p \in 0 .. pages - 1 : tx_send_pa(t, p)
                          \/ tx_credit_decrement(t)
    \/ writeTxCred
    \/ \E t \in Threads : Store(t)
    \/ enqTxDesc
    \/ dmaRead
    \/ txMacInProgress
    \/ txCreditWritebackTimeout
    \/ txCreditWritebackThreshold
    \/ Receive

\* The board works, threads are scheduled, and the mutex is free time and
\* again, for it is held over two instructions only.  Nobody has to post
\* receive descriptors.
Fairness ==
    /\ WF_vars(dma_reference) /\ WF_vars(init_returns) /\ WF_vars(MMU)
    /\ \A t \in Senders : /\ WF_vars(\E p \in 0 .. pages - 1 : tx_send_pa(t, p))
                          /\ SF_vars(tx_credit_decrement(t))
    /\ SF_vars(writeTxCred)
    /\ \A t \in Threads : WF_vars(Store(t))
    /\ WF_vars(enqTxDesc) /\ WF_vars(dmaRead) /\ WF_vars(txMacInProgress)
    /\ WF_vars(txCreditWritebackTimeout) /\ WF_vars(txCreditWritebackThreshold)
    /\ WF_vars(dmaWriteStart)

Spec == Init /\ [][Next]_vars /\ Fairness

-----------------------------------------------------------------------------
(* Properties.                                                             *)

\* The sum of w over its domain, a set or the positions of a queue: every
\* credit is an element.
Units(w) == UNION {{t} \X (1 .. w[t]) : t \in DOMAIN w}

Total(w) == Cardinality(Units(w))

\* The packets on the board and the credits on their way back.
Outstanding ==
    (IF newTxDesc = NoDesc THEN 0 ELSE 1) + Len(txDescQueue) + inTx
        + txCredFreed + Total(txCredCf) + Total(reports) + burst[Poller]

\* Packets that a thread has sent and not yet paid for.
Owed == [t \in Senders |-> IF pc[t] = "send" THEN copy[t] ELSE burst[t]]

Unpaid == Total(Owed)

\* No credit is lost or made, whatever the order of the two threads' updates,
\* of the two ways of reporting, and of sending and paying; no descriptor is
\* overwritten either.
CreditsConserved ==
    /\ TypeOK
    /\ credit + Outstanding = TxCredit + Unpaid

\* Looking at the credit and taking it are two critical sections, so that the
\* threads can overdraw it, but only by what all but one of them send at once.
OverdraftBounded == credit >= -((Cardinality(Senders) - 1) * MaxBurst)

\* A transfer of memory with identifier 0 is translated to the page it names,
\* below the page at which size_accum overflows.
TransfersTranslate ==
    [][LET d == Head(txDescQueue) IN
        inTx' = inTx + 1 /\ d.id = 0 /\ d.page < HalfPages
            => Lookup(d.id, d.page) = {d.page}]_inTx

\* The receive path is full, and there is no descriptor to empty it with.
Starved == inRx = RxRoom /\ rxDescQueue = 0

\* Every packet's credit comes back in the end, unless the transmitter stands
\* still for ever before a receiver that the driver posts no descriptors to.
CreditComesBack == []<>~Starved => []<>(credit = TxCredit)
=============================================================================

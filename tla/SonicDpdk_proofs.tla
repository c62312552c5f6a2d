-------------------------- MODULE SonicDpdk_proofs ---------------------------
(***************************************************************************)
(* Proofs about the transmit credits of SoNIC, for any number of threads,  *)
(* credits and packets.                                                    *)
(***************************************************************************)
EXTENDS SonicDpdk, FiniteSetTheorems, SequenceTheorems, TLAPS

-----------------------------------------------------------------------------
(* Sums.                                                                   *)

\* A thread's share of a sum.
LEMMA ShareFinite ==
    ASSUME NEW t, NEW n \in Nat
    PROVE  IsFiniteSet({t} \X (1 .. n)) /\ Cardinality({t} \X (1 .. n)) = n
<1>1. IsFiniteSet({t}) /\ Cardinality({t}) = 1
    BY FS_Singleton
<1>2. IsFiniteSet(1 .. n) /\ Cardinality(1 .. n) = n
    BY FS_Interval
<1>3. /\ IsFiniteSet({t} \X (1 .. n))
      /\ Cardinality({t} \X (1 .. n)) = Cardinality({t}) * Cardinality(1 .. n)
    BY <1>1, <1>2, FS_Product
<1> QED BY <1>1, <1>2, <1>3

\* Membership in Units.
LEMMA UnitsDef ==
    ASSUME NEW S, NEW w, DOMAIN w = S
    PROVE  \A x : x \in Units(w) <=> \E t \in S : \E k \in 1 .. w[t] : x = <<t, k>>
BY DEF Units

\* Two disjoint finite sets.
LEMMA DisjointUnion ==
    ASSUME NEW A, NEW B, IsFiniteSet(A), IsFiniteSet(B), A \cap B = {}
    PROVE  /\ IsFiniteSet(A \cup B)
           /\ Cardinality(A \cup B) = Cardinality(A) + Cardinality(B)
           /\ Cardinality(A) \in Nat /\ Cardinality(B) \in Nat
<1>1. Cardinality({}) = 0
    BY FS_EmptySet
<1>2. Cardinality(A \cap B) = 0
    BY <1>1
<1>3. /\ IsFiniteSet(A \cup B)
      /\ Cardinality(A \cup B) = Cardinality(A) + Cardinality(B) - Cardinality(A \cap B)
    BY FS_Union
<1>4. Cardinality(A) \in Nat /\ Cardinality(B) \in Nat
    BY FS_CardinalityType
<1> QED BY <1>2, <1>3, <1>4

\* An empty queue, or nobody's share.
LEMMA TotalZero ==
    ASSUME NEW w, \A t \in DOMAIN w : w[t] = 0
    PROVE  IsFiniteSet(Units(w)) /\ Total(w) = 0
<1>1. Units(w) = {}
    BY UnitsDef DEF Units
<1> QED BY <1>1, FS_EmptySet DEF Total

\* What a change of one share does to the sum.
LEMMA TotalUpdate ==
    ASSUME NEW S, NEW w \in [S -> Nat], NEW v \in [S -> Nat], NEW t \in S,
           IsFiniteSet(Units(w)), \A u \in S : u # t => v[u] = w[u]
    PROVE  IsFiniteSet(Units(v)) /\ Total(v) = Total(w) - w[t] + v[t] /\ Total(w) \in Nat
<1> DEFINE n == v[t]
           old == {t} \X (1 .. w[t])
           new == {t} \X (1 .. n)
           rest == Units(w) \ old
<1>1. w[t] \in Nat /\ n \in Nat /\ DOMAIN w = S /\ DOMAIN v = S
    OBVIOUS
<1>2. IsFiniteSet(old) /\ Cardinality(old) = w[t] /\ IsFiniteSet(new) /\ Cardinality(new) = n
    BY <1>1, ShareFinite
<1>3. IsFiniteSet(rest)
    BY FS_Difference
<1>4. Units(w) = rest \cup old /\ rest \cap old = {}
    BY <1>1 DEF Units
<1>5. Units(v) = rest \cup new /\ rest \cap new = {}
    <2>1. \A x : x \in rest <=> \E u \in S : \E k \in 1 .. w[u] : u # t /\ x = <<u, k>>
        BY <1>1 DEF Units
    <2>2. \A x : x \in Units(v) <=> \E u \in S : \E k \in 1 .. v[u] : x = <<u, k>>
        BY <1>1 DEF Units
    <2>3. \A x : x \in new <=> \E k \in 1 .. n : x = <<t, k>>
        OBVIOUS
    <2> HIDE DEF rest, new
    <2>4. ASSUME NEW x PROVE x \in Units(v) <=> x \in rest \/ x \in new
        BY <2>1, <2>2, <2>3
    <2>5. ASSUME NEW x PROVE ~(x \in rest /\ x \in new)
        BY <2>1, <2>3
    <2> QED BY <2>4, <2>5
<1> HIDE DEF old, new, rest
<1>6. Cardinality(Units(w)) = Cardinality(rest) + w[t] /\ Cardinality(rest) \in Nat
    BY <1>2, <1>3, <1>4, DisjointUnion
<1>7. IsFiniteSet(Units(v)) /\ Cardinality(Units(v)) = Cardinality(rest) + n
    BY <1>2, <1>3, <1>5, DisjointUnion
<1> QED BY <1>1, <1>6, <1>7 DEF Total

\* Another report behind a queue.
LEMMA TotalAppend ==
    ASSUME NEW q \in Seq(Nat), NEW n \in Nat, IsFiniteSet(Units(q)), NEW a, a = Append(q, n)
    PROVE  IsFiniteSet(Units(a)) /\ Total(a) = Total(q) + n /\ Total(q) \in Nat
<1> DEFINE last == {Len(q) + 1} \X (1 .. n)
<1>1. /\ a[Len(q) + 1] = n
      /\ \A i \in 1 .. Len(q) : a[i] = q[i]
      /\ DOMAIN q = 1 .. Len(q) /\ DOMAIN a = 1 .. Len(q) + 1
      /\ Len(q) \in Nat
    OBVIOUS
<1>2. Units(a) = Units(q) \cup last /\ Units(q) \cap last = {}
    <2>1. \A x : x \in Units(q) <=> \E i \in 1 .. Len(q) : \E k \in 1 .. q[i] : x = <<i, k>>
        BY <1>1 DEF Units
    <2>2. \A x : x \in Units(a) <=> \E i \in 1 .. Len(q) + 1 : \E k \in 1 .. a[i] : x = <<i, k>>
        BY <1>1 DEF Units
    <2>3. \A x : x \in last <=> \E k \in 1 .. n : x = <<Len(q) + 1, k>>
        OBVIOUS
    <2>4. \A i : i \in 1 .. Len(q) + 1 <=> i \in 1 .. Len(q) \/ i = Len(q) + 1
        BY <1>1
    <2>5. Len(q) + 1 \notin 1 .. Len(q)
        BY <1>1
    <2> HIDE DEF last
    <2> DEFINE L == Len(q)
    <2>6. /\ a[L + 1] = n /\ \A i \in 1 .. L : a[i] = q[i]
        BY <1>1
    <2> HIDE DEF L
    <2> QED BY <2>1, <2>2, <2>3, <2>4, <2>5, <2>6 DEF L
<1>3. IsFiniteSet(last) /\ Cardinality(last) = n
    BY ShareFinite
<1> HIDE DEF last
<1> QED BY <1>2, <1>3, DisjointUnion DEF Total
\* Membership in the units of a queue.
LEMMA UnitsOfQueue ==
    ASSUME NEW q \in Seq(Nat)
    PROVE  \A x : x \in Units(q) <=> \E i \in 1 .. Len(q) : \E k \in 1 .. q[i] : x = <<i, k>>
BY SMTT(20) DEF Units

\* The first report leaves a queue: the others move up by one place.
LEMMA TotalTail ==
    ASSUME NEW q \in Seq(Nat), q # <<>>, IsFiniteSet(Units(q))
    PROVE  /\ IsFiniteSet(Units(Tail(q))) /\ Total(q) = Total(Tail(q)) + Head(q)
           /\ Total(Tail(q)) \in Nat /\ Head(q) \in Nat
<1> DEFINE r == Tail(q)
           n == Len(q)
           first == {1} \X (1 .. q[1])
           rest == Units(q) \ first
           f == [x \in rest |-> <<x[1] - 1, x[2]>>]
<1>1. /\ n \in Nat \ {0} /\ Head(q) = q[1] /\ q[1] \in Nat
      /\ r \in Seq(Nat) /\ Len(r) = n - 1 /\ \A i \in 1 .. n - 1 : r[i] = q[i + 1]
    OBVIOUS
<1> HIDE DEF r
<1>2. IsFiniteSet(first) /\ Cardinality(first) = q[1]
    BY <1>1, ShareFinite
<1>3. IsFiniteSet(rest)
    BY FS_Difference
<1>4. Units(q) = rest \cup first /\ rest \cap first = {}
    <2>1. \A x : x \in first <=> \E k \in 1 .. q[1] : x = <<1, k>>
        OBVIOUS
    <2> HIDE DEF first
    <2> QED BY <1>1, <2>1, UnitsOfQueue
<1>5. \A x : x \in rest <=> \E i \in 2 .. n : \E k \in 1 .. q[i] : x = <<i, k>>
    <2>1. \A x : x \in Units(q) <=> \E i \in 1 .. n : \E k \in 1 .. q[i] : x = <<i, k>>
        BY UnitsOfQueue
    <2> HIDE DEF n
    <2> QED BY <1>1, <2>1
<1>6. \A x : x \in Units(r) <=> \E i \in 1 .. n - 1 : \E k \in 1 .. q[i + 1] : x = <<i, k>>
    <2>1. \A x : x \in Units(r) <=> \E i \in 1 .. n - 1 : \E k \in 1 .. r[i] : x = <<i, k>>
        <3>1. r \in Seq(Nat) /\ Len(r) = n - 1
            BY <1>1
        <3>2. \A x : x \in Units(r) <=> \E i \in 1 .. Len(r) : \E k \in 1 .. r[i] : x = <<i, k>>
            BY <3>1, UnitsOfQueue
        <3> HIDE DEF n
        <3> QED BY <3>1, <3>2
    <2> QED BY <1>1, <2>1
<1> HIDE DEF rest, first, n
<1>7. f \in [rest -> Units(r)]
    <2> SUFFICES ASSUME NEW x \in rest
                 PROVE  <<x[1] - 1, x[2]>> \in Units(r)
        OBVIOUS
    <2>1. PICK i \in 2 .. n : \E k \in 1 .. q[i] : x = <<i, k>>
        BY <1>5
    <2>2. PICK k \in 1 .. q[i] : x = <<i, k>>
        BY <2>1
    <2>3. i - 1 \in 1 .. n - 1 /\ (i - 1) + 1 = i /\ x[1] = i /\ x[2] = k
        BY <1>1, <2>2
    <2>4. \E j \in 1 .. n - 1 : \E m \in 1 .. q[j + 1] : <<i - 1, k>> = <<j, m>>
        BY <2>2, <2>3
    <2> QED BY <1>6, <2>3, <2>4
<1>8. \A x, y \in rest : f[x] = f[y] => x = y
    <2> SUFFICES ASSUME NEW x \in rest, NEW y \in rest, f[x] = f[y] PROVE x = y
        OBVIOUS
    <2>1. PICK i \in 2 .. n : \E k \in 1 .. q[i] : x = <<i, k>>
        BY <1>5
    <2>2. PICK j \in 2 .. n : \E k \in 1 .. q[j] : y = <<j, k>>
        BY <1>5
    <2> QED BY <2>1, <2>2
<1>9. \A z \in Units(r) : \E x \in rest : f[x] = z
    <2> SUFFICES ASSUME NEW z \in Units(r) PROVE \E x \in rest : f[x] = z
        OBVIOUS
    <2>1. PICK i \in 1 .. n - 1 : \E k \in 1 .. q[i + 1] : z = <<i, k>>
        BY <1>6
    <2>2. PICK k \in 1 .. q[i + 1] : z = <<i, k>>
        BY <2>1
    <2>3. <<i + 1, k>> \in rest
        BY <1>1, <1>5, <2>2
    <2>4. f[<<i + 1, k>>] = z
        BY <2>2, <2>3
    <2> QED BY <2>3, <2>4
<1>10. ExistsBijection(rest, Units(r))
    <2> HIDE DEF f
    <2> QED BY <1>7, <1>8, <1>9
            DEF ExistsBijection, Bijection, Injection, Surjection, IsInjective
<1>11. IsFiniteSet(Units(r)) /\ Cardinality(Units(r)) = Cardinality(rest)
    BY <1>3, <1>10, FS_Bijection
<1>12. Cardinality(Units(q)) = Cardinality(rest) + q[1] /\ Cardinality(rest) \in Nat
    BY <1>2, <1>3, <1>4, DisjointUnion
<1> QED BY <1>1, <1>11, <1>12 DEF Total, r

\* A smaller share for everybody makes a smaller sum.
LEMMA TotalMonotone ==
    ASSUME NEW S, NEW w \in [S -> Nat], NEW v \in [S -> Nat],
           \A t \in S : v[t] <= w[t], IsFiniteSet(Units(w))
    PROVE  IsFiniteSet(Units(v)) /\ Total(v) <= Total(w)
<1>1. Units(v) \subseteq Units(w)
    BY DEF Units
<1> QED BY <1>1, FS_Subset DEF Total

\* A bound on every share of the threads in T, outside of which nobody has one.
LEMMA TotalBound ==
    ASSUME NEW S, NEW w \in [S -> Nat], NEW T \in SUBSET S, IsFiniteSet(T), NEW m \in Nat,
           \A t \in S : w[t] <= m, \A t \in S \ T : w[t] = 0
    PROVE  /\ IsFiniteSet(Units(w)) /\ Total(w) \in Nat /\ Total(w) <= Cardinality(T) * m
<1> DEFINE P == T \X (1 .. m)
<1>1. IsFiniteSet(1 .. m) /\ Cardinality(1 .. m) = m
    BY FS_Interval
<1>2. IsFiniteSet(P) /\ Cardinality(P) = Cardinality(T) * m
    BY <1>1, FS_Product
<1>3. Units(w) \subseteq P
    BY DEF Units
<1> HIDE DEF P
<1> QED BY <1>2, <1>3, FS_Subset, FS_CardinalityType DEF Total
-----------------------------------------------------------------------------
(* The inductive invariant.                                                *)

\* The request at place i of all that send_fd_to_portal makes.
Request(i) ==
    IF i <= pages
    THEN [op |-> "sglist", id |-> sglId, i |-> i - 1, page |-> Entry(sglId, i - 1)]
    ELSE IF i = pages + 1 THEN [op |-> "end", id |-> sglId]
    ELSE [op |-> "region", id |-> sglId, val |-> Borders(pages)]

\* How many of them the MMU has worked off.
Done == pages + 2 - Len(mmuq)

\* The MMU holds what it has been sent, in order, and the identifier 0 makes
\* init wait for the last of it.
MmuInv ==
    /\ step = "start" => mmuq = <<>> /\ table = {} /\ confSem = 0 /\ sglId = -1
    /\ step # "start" =>
        /\ sglId \in Ids
        /\ mmuq \in Seq({Request(i) : i \in 1 .. pages + 2}) /\ Len(mmuq) <= pages + 2
        /\ \A j \in 1 .. Len(mmuq) : mmuq[j] = Request(Done + j)
        /\ table = {[id |-> sglId, i |-> j, page |-> Entry(sglId, j)] :
                        j \in {k \in 0 .. pages - 1 : k < Done}}
        /\ mmuq = <<>> => region = [id |-> sglId, val |-> Borders(pages)]
        /\ mmuq # <<>> => confSem = 0
    /\ step = "ready" /\ sglId = 0 => mmuq = <<>>

\* Descriptors are of the memory that the MMU was told of.
DescInv ==
    /\ newTxDesc # NoDesc => newTxDesc.id = sglId /\ newTxDesc.page < pages
    /\ \A i \in 1 .. Len(txDescQueue) : txDescQueue[i].id = sglId /\ txDescQueue[i].page < pages
    /\ step # "ready" =>
        /\ newTxDesc = NoDesc /\ txDescQueue = <<>>
        /\ \A t \in Senders : pc[t] = "idle"

\* Where each thread is, and what it then knows of the credit.
ThreadInv ==
    /\ \A t \in Threads : (mutex = t <=> pc[t] = "store") /\ (pc[t] = "store" => copy[t] = credit)
    /\ \A t \in Senders : /\ burst[t] <= MaxBurst
                          /\ pc[t] = "idle" => burst[t] = 0 /\ copy[t] = 0
                          /\ pc[t] = "send" => copy[t] \in 0 .. burst[t] - 1
    /\ pc[Poller] \in {"idle", "store"}
    /\ pc[Poller] = "idle" => burst[Poller] = 0

\* What each driver's thread has taken, sent or not.
Bursts == [t \in Senders |-> burst[t]]

\* The account.
CreditInv ==
    /\ IsFiniteSet(Units(txCredCf)) /\ IsFiniteSet(Units(reports))
    /\ credit - Total(Bursts) >= -((Cardinality(Senders) - 1) * MaxBurst)
    /\ credit + Outstanding = TxCredit + Unpaid

IInv == TypeOK /\ MmuInv /\ DescInv /\ ThreadInv /\ CreditInv
\* What the assumptions say of the constants.
LEMMA Constants ==
    /\ TxCredit \in Nat \ {0} /\ TxCredTotal \in Nat \ {0} /\ MaxBurst \in Nat \ {0}
    /\ HalfPages \in Nat \ {0} /\ MaxPackets \in Nat
    /\ Cardinality(Senders) - 1 \in Nat /\ (Cardinality(Senders) - 1) * MaxBurst \in Nat
    /\ TxCredit + (Cardinality(Senders) - 1) * MaxBurst <= TxCredTotal + 1
    /\ Poller \notin Senders /\ Nobody \notin Threads /\ Poller # Nobody
<1>1. Cardinality(Senders) \in Nat
    BY DpdkAssumption, FS_CardinalityType
<1>2. Cardinality(Senders) # 0
    BY DpdkAssumption, FS_EmptySet
<1>3. Cardinality(Senders) - 1 \in Nat
    BY <1>1, <1>2
<1>4. \A a, b \in Nat : a * b \in Nat
    OBVIOUS
<1>5. MaxBurst \in Nat
    BY DpdkAssumption
<1>6. Poller \notin Senders /\ Nobody \notin Threads /\ Poller # Nobody
    BY DpdkAssumption DEF Poller, Nobody, Threads
<1> QED BY <1>3, <1>4, <1>5, <1>6, DpdkAssumption

\* What adding to a queue and taking from it give.
LEMMA QueueFacts ==
    ASSUME NEW S, NEW q \in Seq(S)
    PROVE  /\ Len(q) \in Nat
           /\ \A x \in S : /\ Append(q, x) \in Seq(S) /\ Len(Append(q, x)) = Len(q) + 1
                           /\ Append(q, x)[Len(q) + 1] = x
                           /\ \A i \in 1 .. Len(q) : Append(q, x)[i] = q[i]
           /\ q # <<>> => /\ Head(q) \in S /\ Tail(q) \in Seq(S) /\ Len(q) > 0
                          /\ Len(Tail(q)) = Len(q) - 1 /\ Head(q) = q[1]
                          /\ \A i \in 1 .. Len(q) - 1 : Tail(q)[i] = q[i + 1]
OBVIOUS

\* What a step of the receive half leaves alone.
LEMMA ReceiveLeaves == Receive => UNCHANGED <<mmu, host, board>>
BY DEF Receive, rx_send_pa, dmaWriteStart

\* Nothing overflows in the receive half.
LEMMA RxTypes == RxTypeOK /\ [Next]_vars => RxTypeOK'
<1> SUFFICES ASSUME RxTypeOK, [Next]_vars PROVE RxTypeOK'
    OBVIOUS
<1> USE DEF RxTypeOK
<1>1. RxCredTotal \in Nat /\ RxRoom \in Nat
    BY DpdkAssumption
<1>2. CASE Receive
    BY <1>1, <1>2 DEF Receive, rx_send_pa, dmaWriteStart
<1>3. CASE txMacInProgress
    BY <1>1, <1>3 DEF txMacInProgress
<1>4. CASE UNCHANGED rx
    BY <1>4 DEF rx
<1>5. Receive \/ txMacInProgress \/ UNCHANGED rx
    BY DEF Next, vars, rx, dma_reference, init_returns, MMU, tx_credit_available, tx_send_pa,
           tx_credit_decrement, writeTxCred, Store, enqTxDesc, dmaRead,
           txCreditWritebackTimeout, txCreditWritebackThreshold
<1> QED BY <1>2, <1>3, <1>4, <1>5

\* The state stays well-typed.
LEMMA TypePreserved == IInv /\ [Next]_vars => TypeOK'
<1> SUFFICES ASSUME TypeOK, MmuInv, DescInv, [Next]_vars PROVE TypeOK'
    BY DEF IInv
<1> USE DEF TypeOK
<1>0. RxTypeOK'
    BY RxTypes
<1> USE <1>0
<1>1. CASE dma_reference
    BY <1>1 DEF dma_reference, host, board
<1>2. CASE init_returns
    BY <1>2 DEF init_returns, host, board
<1>3. CASE MMU
    <2>1. confSem = 0
        BY <1>3 DEF MMU, MmuInv
    <2> QED BY <1>3, <2>1 DEF MMU, host, board
<1>4. ASSUME NEW t \in Senders, tx_credit_available(t) PROVE TypeOK'
    BY <1>4, Constants, SMTT(20) DEF tx_credit_available, mmu, board, Threads
<1>5. ASSUME NEW t \in Senders, NEW p \in 0 .. pages - 1, tx_send_pa(t, p) PROVE TypeOK'
    <2>1. sglId \in Ids
        BY <1>5 DEF tx_send_pa, DescInv, MmuInv
    <2>2. [id |-> sglId, page |-> p] \in Descs
        BY <2>1, DpdkAssumption DEF Descs
    <2>3. copy' \in [Threads -> Int] /\ pc' \in [Threads -> {"idle", "send", "pay", "store"}]
        <3>1. t \in Threads
            BY DEF Threads
        <3>2. copy' = [copy EXCEPT ![t] = copy[t] + 1] /\ copy[t] + 1 \in Int
            BY <1>5, <3>1 DEF tx_send_pa
        <3>3. pc' = [pc EXCEPT ![t] = "pay"] \/ pc' = [pc EXCEPT ![t] = "send"]
            BY <1>5 DEF tx_send_pa
        <3> QED BY <3>2, <3>3
    <2>4. newTxDesc' \in Descs
        BY <1>5, <2>2 DEF tx_send_pa, startRead
    <2> QED BY <1>5, <2>3, <2>4 DEF tx_send_pa, mmu
<1>6. ASSUME NEW t \in Senders, tx_credit_decrement(t) PROVE TypeOK'
    BY <1>6 DEF tx_credit_decrement, Acquire, mmu, board, Threads
<1>7. CASE writeTxCred
    <2>1. Head(reports) \in Nat /\ Tail(reports) \in Seq(Nat)
        BY <1>7, QueueFacts DEF writeTxCred
    <2> QED BY <1>7, <2>1 DEF writeTxCred, Acquire, mmu, Threads
<1>8. ASSUME NEW t \in Threads, Store(t) PROVE TypeOK'
    <2>1. credit' \in Int
        BY <1>8 DEF Store
    <2> QED BY <1>8, <2>1 DEF Store, mmu, board
<1>9. CASE enqTxDesc
    <2>1. newTxDesc \in Descs /\ Len(txDescQueue) \in Nat /\ Len(txDescQueue) < TxCredTotal
        BY <1>9 DEF enqTxDesc
    <2>2. txDescQueue' \in Seq(Descs) /\ Len(txDescQueue') = Len(txDescQueue) + 1
        BY <1>9, <2>1, QueueFacts DEF enqTxDesc
    <2>3. Len(txDescQueue') <= TxCredTotal
        BY <2>1, <2>2, Constants
    <2> QED BY <1>9, <2>2, <2>3 DEF enqTxDesc, mmu, host
<1>10. CASE dmaRead
    <2>1. /\ txDescQueue' \in Seq(Descs) /\ Len(txDescQueue') = Len(txDescQueue) - 1
          /\ Len(txDescQueue) \in Nat
        BY <1>10, QueueFacts DEF dmaRead
    <2>2. Len(txDescQueue') <= TxCredTotal
        BY <2>1, Constants
    <2> QED BY <1>10, <2>1, <2>2 DEF dmaRead, mmu, host
<1>11. CASE txMacInProgress
    <2>1. txCredCf' \in Seq(Nat) /\ Len(txCredCf') <= CredFifo /\ txCredFreed' \in Nat
        <3>1. CASE txCredFreed >= TxCredThres /\ Len(txCredCf) < CredFifo
            <4>1. txCredCf' = Append(txCredCf, txCredFreed) /\ txCredFreed' = 1
                BY <1>11, <3>1 DEF txMacInProgress
            <4>2. /\ Append(txCredCf, txCredFreed) \in Seq(Nat) /\ Len(txCredCf) \in Nat
                  /\ Len(Append(txCredCf, txCredFreed)) = Len(txCredCf) + 1
                BY QueueFacts
            <4>3. CredFifo \in Nat
                BY DpdkAssumption
            <4> QED BY <3>1, <4>1, <4>2, <4>3
        <3>2. CASE ~(txCredFreed >= TxCredThres /\ Len(txCredCf) < CredFifo)
            BY <1>11, <3>2 DEF txMacInProgress
        <3> QED BY <3>1, <3>2
    <2>2. inTx' \in Nat
        BY <1>11 DEF txMacInProgress
    <2> QED BY <1>11, <2>1, <2>2 DEF txMacInProgress, mmu, host
<1>12. CASE txCreditWritebackTimeout
    BY <1>12 DEF txCreditWritebackTimeout, mmu, host
<1>13. CASE txCreditWritebackThreshold
    <2>1. Head(txCredCf) \in Nat /\ Tail(txCredCf) \in Seq(Nat) /\ Len(Tail(txCredCf)) <= CredFifo
        <3>1. txCredCf # <<>> /\ txCredCf \in Seq(Nat) /\ Len(txCredCf) <= CredFifo /\ CredFifo \in Nat
            BY <1>13, DpdkAssumption DEF txCreditWritebackThreshold
        <3>2. Head(txCredCf) \in Nat /\ Tail(txCredCf) \in Seq(Nat)
            BY <3>1, QueueFacts
        <3>3. Len(Tail(txCredCf)) = Len(txCredCf) - 1 /\ Len(txCredCf) \in Nat
            BY <3>1, QueueFacts
        <3> QED BY <3>1, <3>2, <3>3
    <2>2. reports' \in Seq(Nat)
        BY <1>13, <2>1, QueueFacts DEF txCreditWritebackThreshold
    <2> QED BY <1>13, <2>1, <2>2 DEF txCreditWritebackThreshold, mmu, host
<1>14. CASE UNCHANGED <<mmu, host, board>>
    BY <1>14 DEF mmu, host, board
<1>15. CASE UNCHANGED vars \/ Receive
    BY <1>14, <1>15, ReceiveLeaves DEF vars
<1> QED BY <1>1, <1>2, <1>3, <1>4, <1>5, <1>6, <1>7, <1>8, <1>9, <1>10, <1>11, <1>12, <1>13,
          <1>15 DEF Next
\* The mutex is held from the load to the store, so that the value loaded is
\* still the credit when it is stored.
LEMMA ThreadPreserved == IInv /\ [Next]_vars => ThreadInv'
<1> SUFFICES ASSUME TypeOK, ThreadInv, [Next]_vars PROVE ThreadInv'
    BY DEF IInv
<1> USE DEF TypeOK, ThreadInv
<1>1. CASE UNCHANGED host
    BY <1>1 DEF host
<1>2. ASSUME NEW t \in Senders, tx_credit_available(t) PROVE ThreadInv'
    <2>1. PICK n \in 1 .. MaxBurst : burst' = [burst EXCEPT ![t] = n]
        BY <1>2 DEF tx_credit_available
    <2>2. t # Poller /\ t \in Threads /\ MaxBurst \in Nat
        BY Constants DEF Threads
    <2>3. UNCHANGED <<credit, mutex, copy>> /\ pc[t] = "idle" /\ pc' = [pc EXCEPT ![t] = "send"]
        BY <1>2 DEF tx_credit_available
    <2> QED BY <2>1, <2>2, <2>3 DEF Threads
<1>3. ASSUME NEW t \in Senders, NEW p \in 0 .. pages - 1, tx_send_pa(t, p) PROVE ThreadInv'
    <2>1. t # Poller /\ t \in Threads
        BY Constants DEF Threads
    <2>2. /\ UNCHANGED <<credit, mutex, burst>> /\ pc[t] = "send"
          /\ copy' = [copy EXCEPT ![t] = copy[t] + 1]
          /\ pc' = [pc EXCEPT ![t] = IF copy[t] + 1 = burst[t] THEN "pay" ELSE "send"]
        BY <1>3 DEF tx_send_pa
    <2> QED BY <2>1, <2>2, SMTT(20) DEF Threads
<1>4. ASSUME NEW t \in Senders, tx_credit_decrement(t) PROVE ThreadInv'
    <2>1. t # Poller /\ t \in Threads /\ \A u \in Threads : u # Nobody
        BY Constants DEF Threads
    <2> QED BY <1>4, <2>1 DEF tx_credit_decrement, Acquire, Threads
<1>5. CASE writeTxCred
    <2>1. Poller \in Threads /\ Poller \notin Senders /\ \A u \in Threads : u # Nobody
        BY Constants DEF Threads
    <2> QED BY <1>5, <2>1 DEF writeTxCred, Acquire, Threads
<1>6. ASSUME NEW t \in Threads, Store(t) PROVE ThreadInv'
    <2>1. Poller \in Threads /\ Poller \notin Senders /\ \A u \in Threads : u # Nobody
        BY Constants DEF Threads
    <2>2. \A u \in Threads : u # t => pc[u] # "store"
        BY <1>6 DEF Store
    <2>3. MaxBurst \in Nat
        BY Constants
    <2> QED BY <1>6, <2>1, <2>2, <2>3 DEF Store, Threads
<1> QED BY <1>1, <1>2, <1>3, <1>4, <1>5, <1>6, ReceiveLeaves
        DEF Next, vars, dma_reference, init_returns, MMU, enqTxDesc, dmaRead, txMacInProgress,
            txCreditWritebackTimeout, txCreditWritebackThreshold

\* Descriptors are of the memory that init told the MMU of.
LEMMA DescPreserved == IInv /\ [Next]_vars => DescInv'
<1> SUFFICES ASSUME TypeOK, MmuInv, DescInv, [Next]_vars PROVE DescInv'
    BY DEF IInv
<1> USE DEF DescInv
<1> DEFINE frame == <<pages, sglId, newTxDesc, txDescQueue>>
<1>1. CASE dma_reference
    BY <1>1, QueueFacts DEF dma_reference, host, board, TypeOK
<1>2. CASE UNCHANGED <<frame, pc>> /\ (step' = step \/ step' = "ready")
    BY <1>2
<1>3. ASSUME NEW t \in Threads, UNCHANGED <<frame, step>>, pc' = [pc EXCEPT ![t] = "idle"]
      PROVE  DescInv'
    BY <1>3, Constants DEF TypeOK
<1>4. ASSUME NEW t \in Threads, UNCHANGED <<frame, step>>, step = "ready" PROVE DescInv'
    BY <1>4
<1>5. ASSUME NEW t \in Senders, NEW p \in 0 .. pages - 1, tx_send_pa(t, p) PROVE DescInv'
    <2>1. /\ step = "ready" /\ UNCHANGED <<step, pages, sglId, txDescQueue>>
          /\ newTxDesc' = [id |-> sglId, page |-> p]
        BY <1>5 DEF tx_send_pa, startRead, mmu
    <2>2. p < pages
        BY DpdkAssumption DEF TypeOK
    <2> QED BY <2>1, <2>2
<1>6. CASE writeTxCred
    BY <1>6, Constants, SMTT(20) DEF writeTxCred, mmu, TypeOK
<1>7. CASE enqTxDesc
    <2>1. /\ newTxDesc \in Descs /\ txDescQueue \in Seq(Descs)
          /\ newTxDesc # NoDesc /\ newTxDesc' = NoDesc
          /\ txDescQueue' = Append(txDescQueue, newTxDesc)
          /\ UNCHANGED <<step, pages, sglId, pc>>
        BY <1>7 DEF enqTxDesc, TypeOK, mmu, host
    <2>2. step = "ready"
        BY <2>1
    <2>3. /\ Len(txDescQueue) \in Nat /\ Len(txDescQueue') = Len(txDescQueue) + 1
          /\ txDescQueue'[Len(txDescQueue) + 1] = newTxDesc
          /\ \A i \in 1 .. Len(txDescQueue) : txDescQueue'[i] = txDescQueue[i]
        BY <2>1, QueueFacts
    <2>4. ASSUME NEW i \in 1 .. Len(txDescQueue')
          PROVE  txDescQueue'[i].id = sglId /\ txDescQueue'[i].page < pages
        <3>1. CASE i = Len(txDescQueue) + 1
            BY <2>1, <2>3, <3>1
        <3>2. CASE i \in 1 .. Len(txDescQueue)
            BY <2>3, <3>2
        <3> QED BY <2>3, <3>1, <3>2
    <2> QED BY <2>1, <2>2, <2>4
<1>8. CASE dmaRead
    <2>1. /\ txDescQueue \in Seq(Descs) /\ txDescQueue # <<>>
          /\ txDescQueue' = Tail(txDescQueue)
          /\ UNCHANGED <<step, pages, sglId, pc, newTxDesc>>
        BY <1>8 DEF dmaRead, TypeOK, mmu, host
    <2>2. step = "ready"
        BY <2>1
    <2>3. /\ Len(txDescQueue) \in Nat /\ Len(txDescQueue') = Len(txDescQueue) - 1
          /\ \A i \in 1 .. Len(txDescQueue) - 1 : txDescQueue'[i] = txDescQueue[i + 1]
        BY <2>1, QueueFacts
    <2>4. ASSUME NEW i \in 1 .. Len(txDescQueue')
          PROVE  txDescQueue'[i].id = sglId /\ txDescQueue'[i].page < pages
        BY <2>3
    <2> QED BY <2>1, <2>2, <2>4
<1>9. CASE init_returns
    BY <1>2, <1>9 DEF init_returns, host, board
<1>10. CASE MMU \/ txMacInProgress \/ txCreditWritebackTimeout \/ txCreditWritebackThreshold
            \/ Receive \/ UNCHANGED vars
    BY <1>2, <1>10, ReceiveLeaves DEF MMU, txMacInProgress, txCreditWritebackTimeout, txCreditWritebackThreshold,
                       vars, mmu, host, board
<1>11. ASSUME NEW t \in Senders, tx_credit_available(t) \/ tx_credit_decrement(t) PROVE DescInv'
    <2>1. UNCHANGED <<frame, step>>
        BY <1>11 DEF tx_credit_available, tx_credit_decrement, mmu, board
    <2>2. step = "ready" /\ t \in Threads
        BY <1>11 DEF tx_credit_available, tx_credit_decrement, Threads
    <2> QED BY <1>4, <2>1, <2>2
<1>12. ASSUME NEW t \in Threads, Store(t) PROVE DescInv'
    BY <1>3, <1>12 DEF Store, mmu, board
<1> QED BY <1>1, <1>5, <1>6, <1>7, <1>8, <1>9, <1>10, <1>11, <1>12 DEF Next
\* The requests of send_fd_to_portal, place by place.
LEMMA Requests ==
    ASSUME NEW id, NEW n \in Nat
    PROVE  /\ Len(send_fd_to_portal(id, n)) = n + 2
           /\ send_fd_to_portal(id, n) = [i \in 1 .. n + 2 |->
                IF i <= n THEN [op |-> "sglist", id |-> id, i |-> i - 1, page |-> Entry(id, i - 1)]
                ELSE IF i = n + 1 THEN [op |-> "end", id |-> id]
                ELSE [op |-> "region", id |-> id, val |-> Borders(n)]]
<1> DEFINE e(i) == [op |-> "sglist", id |-> id, i |-> i - 1, page |-> Entry(id, i - 1)]
           x == [op |-> "end", id |-> id]
           y == [op |-> "region", id |-> id, val |-> Borders(n)]
           S == {e(i) : i \in 1 .. n} \cup {x, y}
           s == [i \in 1 .. n |-> e(i)]
           u == <<x, y>>
<1> HIDE DEF e, x, y
<1>1. s \in Seq(S) /\ Len(s) = n /\ \A i \in 1 .. n : s[i] = e(i)
    OBVIOUS
<1>2. u \in Seq(S) /\ Len(u) = 2 /\ u[1] = x /\ u[2] = y
    OBVIOUS
<1> HIDE DEF S, s, u
<1>3. /\ s \o u \in Seq(S) /\ Len(s \o u) = Len(s) + Len(u)
      /\ \A i \in 1 .. Len(s) + Len(u) : (s \o u)[i] = IF i <= Len(s) THEN s[i] ELSE u[i - Len(s)]
    BY <1>1, <1>2, ConcatProperties
<1> DEFINE c == s \o u
<1> HIDE DEF c
<1>4. /\ c \in Seq(S) /\ Len(c) = n + 2
      /\ \A i \in 1 .. n + 2 : c[i] = IF i <= n THEN s[i] ELSE u[i - n]
    BY <1>1, <1>2, <1>3 DEF c
<1>5. ASSUME NEW i \in 1 .. n + 2
      PROVE  c[i] = IF i <= n THEN e(i) ELSE IF i = n + 1 THEN x ELSE y
    <2>1. CASE i <= n
        BY <1>1, <1>4, <2>1
    <2>2. CASE i = n + 1
        BY <1>2, <1>4, <2>2
    <2>3. CASE i = n + 2
        BY <1>2, <1>4, <2>3
    <2>4. i <= n \/ i = n + 1 \/ i = n + 2
        OBVIOUS
    <2> QED BY <2>1, <2>2, <2>3, <2>4
<1>6. c = [i \in 1 .. n + 2 |-> c[i]]
    BY <1>4
<1>7. c = [i \in 1 .. n + 2 |-> IF i <= n THEN e(i) ELSE IF i = n + 1 THEN x ELSE y]
    BY <1>5, <1>6
<1> QED BY <1>4, <1>7 DEF send_fd_to_portal, c, s, u, e, x, y

\* The MMU works its requests off in order.
LEMMA MmuPreserved == IInv /\ [Next]_vars => MmuInv'
<1> SUFFICES ASSUME TypeOK, MmuInv, [Next]_vars PROVE MmuInv'
    BY DEF IInv
<1>1. pages \in Nat \ {0}
    <2>1. Sizes \subseteq 1 .. 2 * HalfPages - 1 /\ pages \in Sizes
        BY DpdkAssumption DEF TypeOK
    <2> QED BY <2>1
<1>2. CASE dma_reference
    <2> pages' = pages
        BY <1>2 DEF dma_reference
    <2>1. PICK id \in Ids : sglId' = id /\ mmuq' = send_fd_to_portal(id, pages)
        BY <1>2 DEF dma_reference
    <2>2. /\ Len(mmuq') = pages + 2
          /\ mmuq' = [i \in 1 .. pages + 2 |-> Request(i)']
        BY <1>1, <2>1, Requests DEF Request
    <2>3. mmuq' \in Seq({Request(i)' : i \in 1 .. pages + 2})
        BY <1>1, <2>2
    <2>4. Done' = 0 /\ mmuq' # <<>>
        BY <1>1, <2>2 DEF Done
    <2>5. \A j \in 1 .. pages + 2 : mmuq'[j] = Request(Done + j)'
        BY <1>1, <2>2, <2>4
    <2>6. step' = "sent" /\ table' = {} /\ confSem' = 0
        BY <1>2 DEF dma_reference, MmuInv
    <2> QED BY <1>1, <2>1, <2>2, <2>3, <2>4, <2>5, <2>6 DEF MmuInv
<1>3. CASE init_returns
    <2>1. /\ UNCHANGED <<pages, sglId, mmuq, table, region>> /\ step = "sent" /\ step' = "ready"
          /\ mmuq # <<>> => confSem' = 0 /\ sglId # 0
        BY <1>3, DpdkAssumption DEF init_returns, MmuInv, TypeOK
    <2>2. Done' = Done /\ \A i : Request(i)' = Request(i)
        BY <2>1 DEF Done, Request, Entry, Borders
    <2> QED BY <2>1, <2>2 DEF MmuInv
<1>4. CASE MMU
    <2> DEFINE r == Head(mmuq)
               R == {Request(i) : i \in 1 .. pages + 2}
    <2>1. /\ mmuq # <<>> /\ mmuq' = Tail(mmuq) /\ UNCHANGED <<step, pages, sglId>>
          /\ step # "start" /\ confSem = 0
        BY <1>4 DEF MMU, MmuInv
    <2>2. /\ sglId \in Ids /\ mmuq \in Seq(R) /\ Len(mmuq) <= pages + 2
          /\ \A j \in 1 .. Len(mmuq) : mmuq[j] = Request(Done + j)
          /\ ~(step = "ready" /\ sglId = 0)
        BY <2>1 DEF MmuInv
    <2>3. \A i : Request(i)' = Request(i)
        BY <2>1 DEF Request, Entry, Borders
    <2> HIDE DEF R
    <2>4. /\ Len(mmuq) \in Nat \ {0} /\ mmuq' \in Seq(R) /\ Len(mmuq') = Len(mmuq) - 1
          /\ r = mmuq[1] /\ \A j \in 1 .. Len(mmuq) - 1 : mmuq'[j] = mmuq[j + 1]
        BY <2>1, <2>2, QueueFacts
    <2>5. /\ r = Request(Done + 1) /\ Done' = Done + 1 /\ Done \in 0 .. pages + 1
          /\ mmuq' = <<>> <=> Done = pages + 1
        <3>1. Done' = Done + 1 /\ Done \in 0 .. pages + 1
            BY <1>1, <2>1, <2>2, <2>4 DEF Done
        <3>2. Len(mmuq') = 0 <=> Done = pages + 1
            BY <1>1, <2>4 DEF Done
        <3>3. mmuq' = <<>> <=> Len(mmuq') = 0
            BY <2>4
        <3>4. r = Request(Done + 1)
            <4>1. 1 \in 1 .. Len(mmuq)
                BY <2>4
            <4> QED BY <2>2, <2>4, <4>1
        <3> HIDE DEF r
        <3> QED BY <3>1, <3>2, <3>3, <3>4
    <2>6. ASSUME NEW j \in 1 .. Len(mmuq') PROVE mmuq'[j] = Request(Done + j)'
        <3>1. mmuq'[j] = mmuq[j + 1] /\ mmuq[j + 1] = Request(Done + (j + 1))
            BY <2>2, <2>4
        <3>2. Done + (j + 1) = (Done + 1) + j
            BY <2>4, <2>5
        <3> QED BY <2>3, <2>5, <3>1, <3>2
    <2>7. table' = {[id |-> sglId, i |-> j, page |-> Entry(sglId, j)] :
                        j \in {k \in 0 .. pages - 1 : k < Done + 1}}
        <3> DEFINE entry(j) == [id |-> sglId, i |-> j, page |-> Entry(sglId, j)]
        <3>1. table = {entry(j) : j \in {k \in 0 .. pages - 1 : k < Done}}
            BY <2>1 DEF MmuInv
        <3>2. CASE Done < pages
            <4>1. r = [op |-> "sglist", id |-> sglId, i |-> Done, page |-> Entry(sglId, Done)]
                BY <1>1, <2>5, <3>2 DEF Request
            <4>2. table' = table \cup {entry(Done)}
                BY <1>4, <4>1 DEF MMU
            <4>3. {k \in 0 .. pages - 1 : k < Done + 1} = {k \in 0 .. pages - 1 : k < Done} \cup {Done}
                BY <1>1, <2>5, <3>2
            <4> HIDE DEF entry
            <4> QED BY <3>1, <4>2, <4>3 DEF entry
        <3>3. CASE Done >= pages
            <4>1. r.op # "sglist"
                BY <1>1, <2>5, <3>3 DEF Request
            <4>2. table' = table
                BY <1>4, <4>1 DEF MMU
            <4>3. {k \in 0 .. pages - 1 : k < Done + 1} = {k \in 0 .. pages - 1 : k < Done}
                BY <1>1, <2>5, <3>3
            <4> QED BY <3>1, <4>2, <4>3
        <3> QED BY <1>1, <2>5, <3>2, <3>3
    <2>8. mmuq' # <<>> => confSem' = 0
        <3> SUFFICES ASSUME mmuq' # <<>> PROVE confSem' = 0
            OBVIOUS
        <3>1. r.op # "region"
            BY <1>1, <2>5 DEF Request
        <3> QED BY <1>4, <2>1, <3>1 DEF MMU
    <2>9. mmuq' = <<>> => region' = [id |-> sglId, val |-> Borders(pages)]
        <3> SUFFICES ASSUME mmuq' = <<>>
                     PROVE  region' = [id |-> sglId, val |-> Borders(pages)]
            OBVIOUS
        <3>1. r = [op |-> "region", id |-> sglId, val |-> Borders(pages)]
            BY <1>1, <2>5 DEF Request
        <3> QED BY <1>4, <3>1 DEF MMU
    <2>10. R' = R
        BY <2>1, <2>3 DEF R
    <2>11. mmuq' \in Seq({Request(i)' : i \in 1 .. pages' + 2}) /\ Len(mmuq') <= pages' + 2
        <3>1. R = {Request(i)' : i \in 1 .. pages' + 2}
            BY <2>10 DEF R
        <3>2. Len(mmuq') <= pages' + 2
            BY <1>1, <2>1, <2>2, <2>4
        <3> QED BY <2>4, <3>1, <3>2
    <2>12. \A j : Entry(sglId, j)' = Entry(sglId, j) /\ Borders(pages)' = Borders(pages)
        BY <2>1
    <2> QED BY <2>1, <2>2, <2>5, <2>6, <2>7, <2>8, <2>9, <2>11, <2>12 DEF MmuInv
<1>5. CASE UNCHANGED mmu
    <2>1. Done' = Done /\ \A i : Request(i)' = Request(i)
        BY <1>5 DEF Done, Request, Entry, Borders, mmu
    <2> QED BY <1>5, <2>1 DEF MmuInv, mmu
<1> QED BY <1>2, <1>3, <1>4, <1>5, ReceiveLeaves
        DEF Next, vars, tx_credit_available, tx_send_pa, tx_credit_decrement, writeTxCred, Store,
            enqTxDesc, dmaRead, txMacInProgress, txCreditWritebackTimeout, txCreditWritebackThreshold
\* Every thread owes at most its burst, which is at most MaxBurst.
LEMMA Shares ==
    TypeOK /\ ThreadInv =>
        /\ Owed \in [Senders -> Nat] /\ Bursts \in [Senders -> Nat]
        /\ \A t \in Senders : Owed[t] <= Bursts[t] /\ Bursts[t] <= MaxBurst
        /\ IsFiniteSet(Units(Owed)) /\ Total(Owed) \in Nat
        /\ IsFiniteSet(Units(Bursts)) /\ Total(Bursts) \in Nat
<1> SUFFICES ASSUME TypeOK, ThreadInv
             PROVE  /\ Owed \in [Senders -> Nat] /\ Bursts \in [Senders -> Nat]
                    /\ \A t \in Senders : Owed[t] <= Bursts[t] /\ Bursts[t] <= MaxBurst
                    /\ IsFiniteSet(Units(Owed)) /\ Total(Owed) \in Nat
                    /\ IsFiniteSet(Units(Bursts)) /\ Total(Bursts) \in Nat
    OBVIOUS
<1>1. MaxBurst \in Nat /\ IsFiniteSet(Senders)
    BY Constants, DpdkAssumption
<1>2. /\ Owed \in [Senders -> Nat] /\ Bursts \in [Senders -> Nat]
      /\ \A t \in Senders : Owed[t] <= Bursts[t] /\ Bursts[t] <= MaxBurst
    BY DEF TypeOK, ThreadInv, Threads, Owed, Bursts
<1>3. \A t \in Senders : Owed[t] <= MaxBurst
    BY <1>1, <1>2
<1>4. IsFiniteSet(Units(Owed)) /\ Total(Owed) \in Nat
    BY <1>1, <1>2, <1>3, TotalBound
<1>5. IsFiniteSet(Units(Bursts)) /\ Total(Bursts) \in Nat
    BY <1>1, <1>2, TotalBound
<1> QED BY <1>2, <1>4, <1>5

\* A thread that still has to send finds newTxDesc free: the credit allows at
\* most as many descriptors as the queue holds.
LEMMA NothingOverwritten ==
    ASSUME IInv, NEW t \in Senders, pc[t] = "send"
    PROVE  newTxDesc = NoDesc \/ Len(txDescQueue) < TxCredTotal
<1> DEFINE w == [Owed EXCEPT ![t] = burst[t]]
           room == (Cardinality(Senders) - 1) * MaxBurst
<1>1. /\ Owed \in [Senders -> Nat] /\ Bursts \in [Senders -> Nat]
      /\ \A u \in Senders : Owed[u] <= Bursts[u]
      /\ IsFiniteSet(Units(Owed)) /\ Total(Owed) \in Nat
      /\ IsFiniteSet(Units(Bursts)) /\ Total(Bursts) \in Nat
    BY Shares DEF IInv
<1>2. burst[t] \in Nat /\ Bursts[t] = burst[t] /\ Owed[t] = copy[t] /\ copy[t] < burst[t] /\ copy[t] \in Nat
    BY DEF IInv, TypeOK, ThreadInv, Threads, Bursts, Owed
<1>3. w \in [Senders -> Nat] /\ w[t] = burst[t] /\ \A u \in Senders : u # t => w[u] = Owed[u]
    BY <1>1, <1>2
<1> HIDE DEF w
<1>4. IsFiniteSet(Units(w)) /\ Total(w) = Total(Owed) - Owed[t] + burst[t]
    BY <1>1, <1>2, <1>3, TotalUpdate
<1>5. \A u \in Senders : w[u] <= Bursts[u]
    BY <1>1, <1>2, <1>3
<1>6. Total(w) <= Total(Bursts)
    BY <1>1, <1>3, <1>5, TotalMonotone
<1>7. Unpaid <= Total(Bursts) - 1 /\ Unpaid \in Nat
    BY <1>1, <1>2, <1>4, <1>6 DEF Unpaid
<1>8. credit \in Int /\ credit - Total(Bursts) >= -room /\ credit + Outstanding = TxCredit + Unpaid
    BY DEF IInv, TypeOK, CreditInv
<1>9. /\ TxCredit \in Nat /\ TxCredTotal \in Nat /\ room \in Nat /\ TxCredit + room <= TxCredTotal + 1
    BY Constants
<1>10. /\ IsFiniteSet(Units(txCredCf)) /\ IsFiniteSet(Units(reports))
       /\ inTx \in Nat /\ txCredFreed \in Nat /\ burst[Poller] \in Nat
       /\ txDescQueue \in Seq(Descs) /\ Len(txDescQueue) <= TxCredTotal
    BY DEF IInv, TypeOK, CreditInv, Threads
<1>11. Total(txCredCf) \in Nat /\ Total(reports) \in Nat /\ Len(txDescQueue) \in Nat
    BY <1>10, FS_CardinalityType, QueueFacts DEF Total
<1>12. newTxDesc # NoDesc => Outstanding >= 1 + Len(txDescQueue) /\ Outstanding \in Nat
    BY <1>10, <1>11 DEF Outstanding
<1> HIDE DEF room
<1> QED BY <1>1, <1>7, <1>8, <1>9, <1>10, <1>11, <1>12, SMTT(20)

\* The account stays balanced.
LEMMA CreditPreserved == IInv /\ [Next]_vars => CreditInv'
<1> SUFFICES ASSUME IInv, [Next]_vars PROVE CreditInv'
    OBVIOUS
<1> DEFINE room == (Cardinality(Senders) - 1) * MaxBurst
           desc == IF newTxDesc = NoDesc THEN 0 ELSE 1
<1>0. /\ TypeOK /\ ThreadInv /\ TypeOK' /\ ThreadInv'
      /\ IsFiniteSet(Units(txCredCf)) /\ IsFiniteSet(Units(reports))
      /\ credit - Total(Bursts) >= -room
      /\ credit + Outstanding = TxCredit + Unpaid
    BY TypePreserved, ThreadPreserved DEF IInv, CreditInv
<1>1. /\ room \in Nat /\ TxCredit \in Nat /\ credit \in Int /\ desc \in Nat /\ desc' \in Nat
      /\ inTx \in Nat /\ txCredFreed \in Nat /\ burst[Poller] \in Nat
      /\ Len(txDescQueue) \in Nat /\ Total(txCredCf) \in Nat /\ Total(reports) \in Nat
      /\ txCredCf \in Seq(Nat) /\ reports \in Seq(Nat)
    BY <1>0, Constants, FS_CardinalityType, QueueFacts DEF TypeOK, Threads, Total
<1>2. Outstanding = desc + Len(txDescQueue) + inTx + txCredFreed + Total(txCredCf) + Total(reports)
                    + burst[Poller]
    BY DEF Outstanding
<1>3. Outstanding' = desc' + Len(txDescQueue') + inTx' + txCredFreed' + Total(txCredCf') + Total(reports')
                     + burst'[Poller]
    BY DEF Outstanding
<1>4. /\ Owed \in [Senders -> Nat] /\ Bursts \in [Senders -> Nat]
      /\ IsFiniteSet(Units(Owed)) /\ Total(Owed) \in Nat
      /\ IsFiniteSet(Units(Bursts)) /\ Total(Bursts) \in Nat
      /\ Owed' \in [Senders -> Nat] /\ Bursts' \in [Senders -> Nat]
    <2>1. Bursts' \in [Senders -> Nat]
        BY <1>0, SMTT(20) DEF TypeOK, Threads, Bursts
    <2>2. ASSUME NEW t \in Senders
          PROVE  (IF pc'[t] = "send" THEN copy'[t] ELSE burst'[t]) \in Nat
        BY <1>0, SMTT(20) DEF TypeOK, ThreadInv, Threads
    <2>3. Owed' \in [Senders -> Nat]
        BY <2>2 DEF Owed
    <2> QED BY <1>0, <2>1, <2>3, Shares
<1> HIDE DEF room, desc
<1>5. CASE UNCHANGED <<host, board>>
    BY <1>0, <1>5 DEF host, board, CreditInv, room, Outstanding, Unpaid, Owed, Bursts
<1>6. ASSUME NEW t \in Senders, tx_credit_available(t) PROVE CreditInv'
    <2>1. PICK n \in 1 .. MaxBurst : n <= credit /\ burst' = [burst EXCEPT ![t] = n]
        BY <1>6 DEF tx_credit_available
    <2>2. /\ UNCHANGED <<board, credit, copy>> /\ pc[t] = "idle"
          /\ pc' = [pc EXCEPT ![t] = "send"] /\ t # Poller
        BY <1>6, Constants DEF tx_credit_available
    <2>3. Outstanding' = Outstanding
        BY <2>1, <2>2 DEF Outstanding, board
    <2>4. Owed' = Owed
        BY <1>0, <2>1, <2>2, SMTT(20) DEF Owed, TypeOK, ThreadInv, Threads
    <2>5. Bursts[t] = 0 /\ Bursts'[t] = n /\ \A u \in Senders : u # t => Bursts'[u] = Bursts[u]
        BY <1>0, <2>1, <2>2 DEF Bursts, TypeOK, ThreadInv, Threads
    <2>6. Total(Bursts') = Total(Bursts) + n
        <3>1. Total(Bursts') = Total(Bursts) - Bursts[t] + Bursts'[t]
            BY <1>4, <2>5, TotalUpdate
        <3>2. Total(Bursts') = Total(Bursts) - 0 + n
            BY <2>5, <3>1
        <3> QED BY <1>4, <3>2
    <2>7. Total(Bursts) <= room
        <3>1. Senders \ {t} \in SUBSET Senders /\ IsFiniteSet(Senders \ {t})
              /\ Cardinality(Senders \ {t}) = Cardinality(Senders) - 1
            BY DpdkAssumption, FS_RemoveElement
        <3>2. \A u \in Senders : Bursts[u] <= MaxBurst
            BY <1>0, Shares
        <3>3. \A u \in Senders \ (Senders \ {t}) : Bursts[u] = 0
            BY <2>5
        <3> QED BY <1>4, <3>1, <3>2, <3>3, Constants, TotalBound DEF room
    <2>8. credit' - Total(Bursts') >= -room
        <3>1. n \in Int /\ n <= credit /\ credit \in Int /\ room \in Int /\ Total(Bursts) \in Int
            BY <1>1, <1>4, <2>1
        <3>2. credit' = credit
            BY <2>2
        <3> QED BY <2>6, <2>7, <3>1, <3>2
    <2> QED BY <1>0, <2>2, <2>3, <2>4, <2>8 DEF CreditInv, Unpaid, board, room
<1>7. ASSUME NEW t \in Senders, NEW p \in 0 .. pages - 1, tx_send_pa(t, p) PROVE CreditInv'
    <2>1. newTxDesc = NoDesc
        BY <1>1, <1>7, NothingOverwritten, Constants, SMTT(20) DEF tx_send_pa, startRead
    <2>2. newTxDesc' # NoDesc
        BY <1>0, <1>7, DpdkAssumption DEF tx_send_pa, startRead, NoDesc, IInv, MmuInv, DescInv
    <2>3. /\ UNCHANGED <<credit, burst, txDescQueue, inTx, txCredFreed, txCredCf, reports>>
          /\ pc[t] = "send" /\ copy' = [copy EXCEPT ![t] = copy[t] + 1]
          /\ pc' = [pc EXCEPT ![t] = IF copy[t] + 1 = burst[t] THEN "pay" ELSE "send"]
        BY <1>7 DEF tx_send_pa
    <2>4. Outstanding' = Outstanding + 1
        <3>1. desc = 0 /\ desc' = 1
            BY <2>1, <2>2 DEF desc
        <3>2. UNCHANGED <<burst, txDescQueue, inTx, txCredFreed, txCredCf, reports>>
            BY <2>3
        <3> QED BY <1>1, <1>2, <1>3, <3>1, <3>2, SMTT(20)
    <2>5. Owed[t] \in Nat /\ Owed'[t] = Owed[t] + 1 /\ \A u \in Senders : u # t => Owed'[u] = Owed[u]
        BY <1>0, <2>3 DEF Owed, TypeOK, ThreadInv, Threads
    <2>6. Unpaid' = Unpaid + 1
        BY <1>4, <2>5, TotalUpdate DEF Unpaid
    <2>7. Bursts' = Bursts
        BY <2>3 DEF Bursts
    <2>8. Outstanding \in Int /\ Unpaid \in Int
        BY <1>1, <1>2, <1>4 DEF Unpaid
    <2>9. UNCHANGED <<credit, txCredCf, reports>>
        BY <2>3
    <2>10. credit' + Outstanding' = TxCredit + Unpaid'
        <3>1. credit + Outstanding = TxCredit + Unpaid /\ credit \in Int /\ TxCredit \in Int
            BY <1>0, <1>1, Constants DEF CreditInv
        <3> QED BY <2>4, <2>6, <2>8, <2>9, <3>1
    <2>11. credit' - Total(Bursts') >= -room
        BY <1>0, <2>7, <2>9 DEF CreditInv, room
    <2>12. IsFiniteSet(Units(txCredCf')) /\ IsFiniteSet(Units(reports'))
        BY <1>0, <2>9 DEF CreditInv
    <2> HIDE DEF Outstanding, Unpaid, Bursts
    <2> QED BY <2>10, <2>11, <2>12 DEF CreditInv, room
<1>8. ASSUME NEW t \in Senders, tx_credit_decrement(t) PROVE CreditInv'
    <2>1. /\ UNCHANGED <<credit, burst, board>> /\ pc[t] = "pay"
          /\ pc' = [pc EXCEPT ![t] = "store"] /\ copy' = [copy EXCEPT ![t] = credit]
        BY <1>8 DEF tx_credit_decrement
    <2>2. Outstanding' = Outstanding /\ Bursts' = Bursts
        BY <2>1 DEF Outstanding, Bursts, board
    <2>3. Owed' = Owed
        BY <1>0, <2>1 DEF Owed, TypeOK, Threads
    <2> QED BY <1>0, <2>1, <2>2, <2>3 DEF CreditInv, Unpaid, board, room
<1>9. CASE writeTxCred
    <2>1. /\ UNCHANGED <<credit, newTxDesc, txDescQueue, inTx, txCredFreed, txCredCf>>
          /\ reports # <<>> /\ reports' = Tail(reports) /\ burst[Poller] = 0
          /\ pc[Poller] = "idle" /\ pc' = [pc EXCEPT ![Poller] = "store"]
          /\ copy' = [copy EXCEPT ![Poller] = credit]
          /\ burst' = [burst EXCEPT ![Poller] = Head(reports)]
        BY <1>0, <1>9 DEF writeTxCred, ThreadInv
    <2>2. /\ IsFiniteSet(Units(reports')) /\ Total(reports) = Total(reports') + Head(reports)
          /\ Total(reports') \in Nat /\ Head(reports) \in Nat
        BY <1>0, <1>1, <2>1, TotalTail
    <2>3. burst'[Poller] = Head(reports)
        BY <1>0, <2>1 DEF TypeOK, Threads
    <2>4. Outstanding' = Outstanding
        <3>1. desc' = desc
            BY <2>1 DEF desc
        <3> QED BY <1>1, <1>2, <1>3, <2>1, <2>2, <2>3, <3>1, SMTT(20)
    <2>5. Owed' = Owed /\ Bursts' = Bursts
        <3>1. \A t \in Senders : t # Poller /\ t \in Threads
            BY Constants DEF Threads
        <3>2. \A t \in Senders : pc'[t] = pc[t] /\ copy'[t] = copy[t] /\ burst'[t] = burst[t]
            BY <1>0, <2>1, <3>1 DEF TypeOK
        <3> QED BY <3>2 DEF Owed, Bursts
    <2> QED BY <1>0, <2>1, <2>2, <2>4, <2>5 DEF CreditInv, Unpaid, room
<1>10. CASE Store(Poller)
    <2>1. /\ UNCHANGED board /\ credit' = credit + burst[Poller] /\ pc[Poller] = "store"
          /\ pc' = [pc EXCEPT ![Poller] = "idle"] /\ burst' = [burst EXCEPT ![Poller] = 0]
          /\ copy' = [copy EXCEPT ![Poller] = 0]
        BY <1>0, <1>10 DEF Store, ThreadInv, Threads
    <2>2. burst'[Poller] = 0
        BY <1>0, <2>1 DEF TypeOK, Threads
    <2>3. Outstanding' = Outstanding - burst[Poller]
        <3>1. UNCHANGED <<desc, txDescQueue, inTx, txCredFreed, txCredCf, reports>>
            BY <2>1 DEF board, desc
        <3> QED BY ONLY <1>1, <1>2, <1>3, <2>2, <3>1, SMTT(20)
    <2>4. Owed' = Owed /\ Bursts' = Bursts
        <3>1. \A t \in Senders : t # Poller /\ t \in Threads
            BY Constants DEF Threads
        <3>2. \A t \in Senders : pc'[t] = pc[t] /\ copy'[t] = copy[t] /\ burst'[t] = burst[t]
            BY <1>0, <2>1, <3>1 DEF TypeOK
        <3> QED BY <3>2 DEF Owed, Bursts
    <2>5. Outstanding \in Int /\ Unpaid \in Int
        BY <1>1, <1>2, <1>4 DEF Unpaid
    <2>6. credit' - Total(Bursts') >= -room /\ credit' + Outstanding' = TxCredit + Unpaid'
        <3>1. credit' = credit + burst[Poller] /\ Total(Bursts') = Total(Bursts) /\ Unpaid' = Unpaid
            BY <2>1, <2>4 DEF Unpaid
        <3>2. /\ credit \in Int /\ burst[Poller] \in Nat /\ Total(Bursts) \in Int /\ room \in Int
              /\ TxCredit \in Int
            BY <1>1, <1>4
        <3>3. credit' - Total(Bursts') >= -room
            BY <1>0, <3>1, <3>2
        <3>4. credit' + Outstanding' = TxCredit + Unpaid'
            BY <1>0, <2>3, <2>5, <3>1, <3>2
        <3> QED BY <3>3, <3>4
    <2> QED BY <1>0, <2>1, <2>6 DEF CreditInv, board, room
<1>11. ASSUME NEW t \in Senders, Store(t) PROVE CreditInv'
    <2>1. t \in Threads /\ t # Poller
        BY Constants DEF Threads
    <2>2. /\ UNCHANGED board /\ credit' = credit - burst[t] /\ pc[t] = "store"
          /\ pc' = [pc EXCEPT ![t] = "idle"] /\ burst' = [burst EXCEPT ![t] = 0]
          /\ copy' = [copy EXCEPT ![t] = 0]
        BY <1>0, <1>11, <2>1 DEF Store, ThreadInv
    <2>3. Outstanding' = Outstanding
        BY <1>0, <1>2, <1>3, <2>1, <2>2, SMTT(20) DEF board, TypeOK, desc
    <2>4. /\ Owed[t] = burst[t] /\ Owed'[t] = 0 /\ Bursts[t] = burst[t] /\ Bursts'[t] = 0
          /\ burst[t] \in Nat
          /\ \A u \in Senders : u # t => Owed'[u] = Owed[u] /\ Bursts'[u] = Bursts[u]
        BY <1>0, <2>1, <2>2 DEF Owed, Bursts, TypeOK, Threads
    <2>5. Total(Owed') = Total(Owed) - burst[t] + 0
        <3>1. \A u \in Senders : u # t => Owed'[u] = Owed[u]
            BY <2>4
        <3>2. Total(Owed') = Total(Owed) - Owed[t] + Owed'[t]
            BY <1>4, <3>1, TotalUpdate
        <3> QED BY <2>4, <3>2
    <2>6. Total(Bursts') = Total(Bursts) - burst[t] + 0
        <3>1. \A u \in Senders : u # t => Bursts'[u] = Bursts[u]
            BY <2>4
        <3>2. Total(Bursts') = Total(Bursts) - Bursts[t] + Bursts'[t]
            BY <1>4, <3>1, TotalUpdate
        <3> QED BY <2>4, <3>2
    <2>7. Outstanding \in Int
        BY <1>1, <1>2
    <2>8. credit' - Total(Bursts') >= -room /\ credit' + Outstanding' = TxCredit + Unpaid'
        <3>1. credit' = credit - burst[t] /\ Unpaid' = Total(Owed') /\ Unpaid = Total(Owed)
            BY <2>2 DEF Unpaid
        <3>2. /\ credit \in Int /\ burst[t] \in Nat /\ Total(Bursts) \in Int /\ Total(Owed) \in Int
              /\ room \in Int /\ TxCredit \in Int
            BY <1>1, <1>4, <2>4
        <3>3. credit' - Total(Bursts') >= -room
            BY <1>0, <2>6, <3>1, <3>2
        <3>4. credit' + Outstanding' = TxCredit + Unpaid'
            BY <1>0, <2>3, <2>5, <2>7, <3>1, <3>2
        <3> QED BY <3>3, <3>4
    <2> QED BY <1>0, <2>2, <2>8 DEF CreditInv, board, room
<1>12. CASE enqTxDesc
    <2>1. /\ UNCHANGED <<inTx, txCredFreed, txCredCf, reports, burst, host>>
          /\ txDescQueue \in Seq(Descs) /\ newTxDesc \in Descs
          /\ newTxDesc # NoDesc /\ newTxDesc' = NoDesc
          /\ txDescQueue' = Append(txDescQueue, newTxDesc)
        BY <1>0, <1>12 DEF enqTxDesc, TypeOK, host
    <2>2. desc = 1 /\ desc' = 0 /\ Len(txDescQueue') = Len(txDescQueue) + 1
        BY <2>1, QueueFacts DEF desc
    <2>3. UNCHANGED <<inTx, txCredFreed, txCredCf, reports, burst>>
        BY <2>1
    <2>4. Outstanding' = Outstanding
        BY <1>1, <1>2, <1>3, <2>2, <2>3
    <2> QED BY <1>0, <2>1, <2>4 DEF CreditInv, Unpaid, Owed, Bursts, host, room
<1>13. CASE dmaRead
    <2>1. /\ UNCHANGED <<newTxDesc, txCredFreed, txCredCf, reports, burst, host>>
          /\ txDescQueue \in Seq(Descs) /\ txDescQueue # <<>>
          /\ txDescQueue' = Tail(txDescQueue) /\ inTx' = inTx + 1
        BY <1>0, <1>13 DEF dmaRead, TypeOK, host
    <2>2. desc' = desc /\ Len(txDescQueue') = Len(txDescQueue) - 1
        BY <2>1, QueueFacts DEF desc
    <2>3. UNCHANGED <<txCredFreed, txCredCf, reports, burst>> /\ inTx' = inTx + 1
        BY <2>1
    <2>4. Outstanding' = Outstanding
        BY <1>1, <1>2, <1>3, <2>2, <2>3
    <2> QED BY <1>0, <2>1, <2>4 DEF CreditInv, Unpaid, Owed, Bursts, host, room
<1>14. CASE txMacInProgress
    <2>1. /\ UNCHANGED <<desc, txDescQueue, reports, burst>> /\ UNCHANGED host
          /\ inTx' = inTx - 1
        BY <1>14 DEF txMacInProgress, host, desc
    <2>2. IsFiniteSet(Units(txCredCf')) /\ txCredFreed' + Total(txCredCf') = txCredFreed + Total(txCredCf) + 1
          /\ txCredFreed' \in Nat /\ Total(txCredCf') \in Nat
        <3>1. CASE txCredCf' = Append(txCredCf, txCredFreed) /\ txCredFreed' = 1
            <4>1. IsFiniteSet(Units(txCredCf')) /\ Total(txCredCf') = Total(txCredCf) + txCredFreed
                BY <1>0, <1>1, <3>1, TotalAppend
            <4> QED BY <1>1, <3>1, <4>1
        <3>2. CASE txCredFreed' = txCredFreed + 1 /\ UNCHANGED txCredCf
            BY <1>0, <1>1, <3>2
        <3> QED BY <1>14, <3>1, <3>2 DEF txMacInProgress
    <2>3. Outstanding' = Outstanding
        <3>1. UNCHANGED <<desc, txDescQueue, reports, burst>> /\ inTx' = inTx - 1
            BY <2>1
        <3> DEFINE a == txCredFreed' + Total(txCredCf')
                   b == txCredFreed + Total(txCredCf)
        <3>2. a = b + 1 /\ a \in Nat /\ b \in Nat
            BY <1>1, <2>2, SMTT(20)
        <3>3. Outstanding = desc + Len(txDescQueue) + inTx + b + Total(reports) + burst[Poller]
            BY <1>1, <1>2
        <3>4. Outstanding' = desc + Len(txDescQueue) + (inTx - 1) + a + Total(reports) + burst[Poller]
            BY <1>1, <1>3, <2>2, <3>1
        <3> HIDE DEF a, b
        <3> QED BY <1>1, <3>2, <3>3, <3>4
    <2> QED BY <1>0, <2>1, <2>2, <2>3 DEF CreditInv, Unpaid, Owed, Bursts, host, room
<1>15. CASE txCreditWritebackTimeout
    <2>1. /\ UNCHANGED <<desc, txDescQueue, inTx, txCredCf, burst>> /\ UNCHANGED host
          /\ reports' = Append(reports, txCredFreed) /\ txCredFreed' = 0
        BY <1>15 DEF txCreditWritebackTimeout, host, desc
    <2>2. IsFiniteSet(Units(reports')) /\ Total(reports') = Total(reports) + txCredFreed
        BY <1>0, <1>1, <2>1, TotalAppend
    <2>3. UNCHANGED <<desc, txDescQueue, inTx, txCredCf, burst>> /\ txCredFreed' = 0
        BY <2>1
    <2>4. Outstanding' = Outstanding
        BY <1>1, <1>2, <1>3, <2>2, <2>3
    <2> QED BY <1>0, <2>1, <2>2, <2>4 DEF CreditInv, Unpaid, Owed, Bursts, host, room
<1>16. CASE txCreditWritebackThreshold
    <2>1. /\ UNCHANGED <<desc, txDescQueue, inTx, txCredFreed, burst>> /\ UNCHANGED host
          /\ txCredCf # <<>> /\ txCredCf' = Tail(txCredCf)
          /\ reports' = Append(reports, Head(txCredCf))
        BY <1>16 DEF txCreditWritebackThreshold, host, desc
    <2>2. /\ IsFiniteSet(Units(txCredCf')) /\ Total(txCredCf) = Total(txCredCf') + Head(txCredCf)
          /\ Total(txCredCf') \in Nat /\ Head(txCredCf) \in Nat
        BY <1>0, <1>1, <2>1, TotalTail
    <2>3. IsFiniteSet(Units(reports')) /\ Total(reports') = Total(reports) + Head(txCredCf)
        BY <1>0, <1>1, <2>1, <2>2, TotalAppend
    <2>4. UNCHANGED <<desc, txDescQueue, inTx, txCredFreed, burst>>
        BY <2>1
    <2>5. Outstanding' = Outstanding
        BY <1>1, <1>2, <1>3, <2>2, <2>3, <2>4, SMTT(20)
    <2> QED BY <1>0, <2>1, <2>2, <2>3, <2>5 DEF CreditInv, Unpaid, Owed, Bursts, host, room
<1>17. CASE dma_reference \/ init_returns \/ MMU \/ Receive \/ UNCHANGED vars
    BY <1>5, <1>17, ReceiveLeaves DEF dma_reference, init_returns, MMU, vars
<1>18. ASSUME NEW t \in Threads, Store(t) PROVE CreditInv'
    BY <1>10, <1>11, <1>18 DEF Threads
<1> QED BY <1>6, <1>7, <1>8, <1>9, <1>12, <1>13, <1>14, <1>15, <1>16, <1>17, <1>18 DEF Next

\* Nothing is sent or owed at the start.
LEMMA InitIInv == Init => IInv
<1> SUFFICES ASSUME Init PROVE IInv
    OBVIOUS
<1>1. TypeOK
    <2>1. RxTypeOK
        BY DpdkAssumption DEF Init, RxTypeOK
    <2> QED BY <2>1, Constants, DpdkAssumption DEF Init, TypeOK, Threads
<1>2. MmuInv /\ DescInv
    BY DEF Init, MmuInv, DescInv, Threads
<1>3. ThreadInv
    BY Constants DEF Init, ThreadInv, Threads
<1>4. \A t \in Senders : Owed[t] = 0 /\ Bursts[t] = 0
    BY DEF Init, Owed, Bursts, Threads
<1>5. Total(Owed) = 0 /\ Total(Bursts) = 0
    BY <1>4, TotalZero DEF Owed, Bursts
<1>6. /\ IsFiniteSet(Units(txCredCf)) /\ Total(txCredCf) = 0
      /\ IsFiniteSet(Units(reports)) /\ Total(reports) = 0
    BY TotalZero DEF Init
<1>7. Outstanding = 0
    BY <1>6, Constants DEF Init, Outstanding, Threads
<1>8. credit - Total(Bursts) >= -((Cardinality(Senders) - 1) * MaxBurst)
    <2>1. credit = TxCredit
        BY DEF Init
    <2>2. TxCredit \in Nat /\ (Cardinality(Senders) - 1) * MaxBurst \in Nat
        BY Constants
    <2> QED BY <1>5, <2>1, <2>2
<1>9. CreditInv
    BY <1>5, <1>6, <1>7, <1>8, Constants DEF CreditInv, Unpaid, Init
<1> QED BY <1>1, <1>2, <1>3, <1>9 DEF IInv

\* The invariant is inductive.
THEOREM Inductive == Spec => []IInv
<1>1. IInv /\ [Next]_vars => IInv'
    BY TypePreserved, MmuPreserved, DescPreserved, ThreadPreserved, CreditPreserved DEF IInv
<1> QED BY <1>1, InitIInv, PTL DEF Spec

\* The account of the credits balances in every state, for any number of
\* threads of the driver and any length of their bursts that the board's queue
\* has room for: no update of tx_credit is lost between load and store, no
\* credit is reported twice or not at all, and no descriptor is overwritten in
\* newTxDesc.
THEOREM Conserved == Spec => []CreditsConserved
<1>1. IInv => CreditsConserved
    BY DEF IInv, CreditInv, CreditsConserved
<1> QED BY <1>1, Inductive, PTL

\* The threads overdraw the credit by what all but one of them send, at most.
THEOREM Overdraft == Spec => []OverdraftBounded
<1>1. IInv => OverdraftBounded
    <2> SUFFICES ASSUME IInv PROVE OverdraftBounded
        OBVIOUS
    <2> DEFINE room == (Cardinality(Senders) - 1) * MaxBurst
    <2>1. credit \in Int /\ credit - Total(Bursts) >= -room
        BY DEF IInv, TypeOK, CreditInv
    <2>2. Total(Bursts) \in Nat /\ room \in Nat
        BY Shares, Constants DEF IInv
    <2> HIDE DEF room
    <2>3. credit >= -room
        BY <2>1, <2>2
    <2> QED BY <2>3 DEF OverdraftBounded, room
<1> QED BY <1>1, Inductive, PTL
\* The MMU finds the page of a transfer with the identifier 0: init has waited
\* until every entry and the borders are there, and the first border above the
\* page is that of its own size.
THEOREM Translate == Spec => TransfersTranslate
<1>1. ASSUME IInv, [Next]_vars, inTx' # inTx,
             inTx' = inTx + 1, Head(txDescQueue).id = 0, Head(txDescQueue).page < HalfPages
      PROVE  Lookup(Head(txDescQueue).id, Head(txDescQueue).page) = {Head(txDescQueue).page}
    <2> DEFINE d == Head(txDescQueue)
    <2> USE DEF IInv
    <2>1. txDescQueue # <<>>
        <3>1. dmaRead \/ txMacInProgress
            BY <1>1, ReceiveLeaves DEF Next, vars, board, dma_reference, init_returns, MMU, tx_credit_available,
                        tx_send_pa, tx_credit_decrement, writeTxCred, Store, enqTxDesc,
                        txCreditWritebackTimeout, txCreditWritebackThreshold
        <3>2. inTx \in Nat
            BY <1>1 DEF TypeOK
        <3>3. ~txMacInProgress
            BY <1>1, <3>2 DEF txMacInProgress
        <3> QED BY <3>1, <3>3 DEF dmaRead
    <2>2. /\ Len(txDescQueue) > 0 /\ Len(txDescQueue) \in Nat
          /\ d = txDescQueue[1] /\ d \in Descs
        BY <1>1, <2>1, QueueFacts DEF TypeOK
    <2>3. d.id = sglId /\ d.page < pages /\ d.page \in Nat /\ step = "ready"
        BY <1>1, <2>1, <2>2 DEF DescInv, Descs
    <2>4. sglId = 0 /\ mmuq = <<>>
        BY <1>1, <2>3 DEF MmuInv
    <2>5. pages \in Nat \ {0}
        BY <1>1, DpdkAssumption DEF TypeOK
    <2> DEFINE p == d.page
    <2> HIDE DEF d
    <2>6. /\ region = [id |-> 0, val |-> Borders(pages)]
          /\ table = {[id |-> 0, i |-> j, page |-> Entry(0, j)] : j \in 0 .. pages - 1}
        <3>1. Done = pages + 2
            BY <2>4, <2>5 DEF Done
        <3>2. {k \in 0 .. pages - 1 : k < Done} = 0 .. pages - 1
            BY <2>5, <3>1
        <3> QED BY <1>1, <2>3, <2>4, <3>2 DEF MmuInv
    <2>7. Entry(0, p) = p
        BY <1>1, <2>3, Constants DEF Entry, d
    <2> DEFINE below == {k \in 1 .. 4 : region.id = 0 /\ p * Scale(k) < region.val[k].border}
               first == CHOOSE k \in below : \A j \in below : k <= j
    <2>8. region.val[1].border = pages /\ region.val[1].index = 0 /\ Scale(1) = 1 /\ region.id = 0
        BY <2>5, <2>6 DEF Borders, Index, Scale
    <2>9. 1 \in below /\ \A j \in below : 1 <= j
        BY <2>3, <2>8
    <2> HIDE DEF below
    <2>10. first \in below /\ \A j \in below : first <= j
        BY <2>9
    <2>11. first = 1
        <3>1. below \subseteq 1 .. 4
            BY DEF below
        <3> HIDE DEF first
        <3>2. first \in 1 .. 4 /\ 1 <= first /\ first <= 1
            BY <2>9, <2>10, <3>1
        <3> QED BY <3>2
    <2> HIDE DEF first, p
    <2>12. p * Scale(first) + region.val[first].index = p
        <3>1. p \in Nat
            BY <2>3 DEF p
        <3> QED BY <2>8, <2>11, <3>1
    <2>13. {e.page : e \in {x \in table : x.id = 0 /\ x.i = p}} = {p}
        <3>1. \A e : e \in {x \in table : x.id = 0 /\ x.i = p} <=> e = [id |-> 0, i |-> p, page |-> p]
            <4>1. p \in 0 .. pages - 1
                BY <2>3, <2>5 DEF p
            <4> QED BY <2>6, <2>7, <4>1
        <3> DEFINE S == {x \in table : x.id = 0 /\ x.i = p}
                   r == [id |-> 0, i |-> p, page |-> p]
        <3>2. S = {r} /\ r.page = p
            BY <3>1
        <3> HIDE DEF S, r
        <3>3. {e.page : e \in S} = {p}
            BY <3>2
        <3> QED BY <3>3 DEF S
    <2>14. Lookup(0, p) = IF below = {} THEN {} ELSE {e.page : e \in {x \in table :
                x.id = 0 /\ x.i = p * Scale(first) + region.val[first].index}}
        BY DEF Lookup, below, first
    <2> QED BY <1>1, <2>9, <2>12, <2>13, <2>14 DEF d, p
<1>2. IInv /\ [Next]_vars =>
        [LET d == Head(txDescQueue) IN
            inTx' = inTx + 1 /\ d.id = 0 /\ d.page < HalfPages
                => Lookup(d.id, d.page) = {d.page}]_inTx
    BY <1>1
<1> QED BY <1>2, Inductive, PTL DEF Spec, TransfersTranslate
=============================================================================

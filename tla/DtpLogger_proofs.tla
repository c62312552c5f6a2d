--------------------------- MODULE DtpLogger_proofs --------------------------
(***************************************************************************)
(* Proofs about DtpLogger, for any number of ports and all depths of the   *)
(* queues.                                                                 *)
(***************************************************************************)
EXTENDS DtpLogger, SequenceTheorems, FiniteSetTheorems, WellFoundedInduction, TLAPS

(***************************************************************************)
(* Walks: f goes from f[0] in steps s[1], ..., s[n] of 1 or -1 and stays   *)
(* within b of 0.                                                          *)
(***************************************************************************)
Walk(f, n, s, b) ==
    /\ f \in [0 .. n -> Int] /\ s \in [1 .. n -> {1, -1}]
    /\ \A k \in 1 .. n : f[k] = f[k - 1] + s[k]
    /\ \A k \in 0 .. n : -b <= f[k] /\ f[k] <= b
    /\ \A j, k \in 0 .. n : j <= k => -(k - j) <= f[k] - f[j] /\ f[k] - f[j] <= k - j

Within(x, b) == -b <= x /\ x <= b

\* The steps t are the n steps s and one more, e.
Prolongs(t, s, n, e) ==
    t \in [1 .. n + 1 -> {1, -1}] /\ t[n + 1] = e /\ \A k \in 1 .. n : t[k] = s[k]

\* The steps t are the n steps s without the m steps behind the i-th.
Skips(t, s, n, i, m) ==
    /\ t \in [1 .. n - m -> {1, -1}]
    /\ \A k \in 1 .. i : t[k] = s[k]
    /\ \A k \in i + 1 .. n - m : t[k] = s[k + m]

\* The steps t are the n steps s without the first.
Lacks(t, s, n) == t \in [1 .. n - 1 -> {1, -1}] /\ \A k \in 1 .. n - 1 : t[k] = s[k + 1]

\* The numbers of a walk of n steps within b that goes on from another start,
\* at most c away, without m steps behind the i-th: N steps within B.
Fits(n, i, m, N, b, c, B) ==
    /\ n \in Nat /\ i \in 0 .. n /\ m \in Nat /\ i + m <= n /\ N \in Nat /\ N = n - m
    /\ b \in Nat /\ c \in Nat /\ B \in Nat /\ b + c + m <= B

\* One more step.
LEMMA WalkOn ==
    ASSUME NEW n \in Nat, NEW b \in Nat, NEW f, NEW s, NEW e \in {1, -1}, NEW t,
           Walk(f, n, s, b), Within(f[n] + e, b), Prolongs(t, s, n, e)
    PROVE  \E g : /\ Walk(g, n + 1, t, b) /\ g[0] = f[0] /\ g[n + 1] = f[n] + e
<1>0. /\ t \in [1 .. n + 1 -> {1, -1}] /\ t[n + 1] = e /\ \A k \in 1 .. n : t[k] = s[k]
      /\ -b <= f[n] + e /\ f[n] + e <= b
    BY DEF Prolongs, Within
<1> DEFINE g == [k \in 0 .. n + 1 |-> IF k <= n THEN f[k] ELSE f[n] + e]
<1>1. g \in [0 .. n + 1 -> Int]
    BY DEF Walk
<1>2. \A k \in 0 .. n : g[k] = f[k]
    OBVIOUS
<1>3. g[n + 1] = f[n] + e
    OBVIOUS
<1>4. \A k \in 0 .. n + 1 : k \in 0 .. n \/ k = n + 1
    OBVIOUS
<1>5. f \in [0 .. n -> Int] /\ f[n] \in Int
    BY DEF Walk
<1> HIDE DEF g
<1>6. \A k \in 1 .. n + 1 : g[k] = g[k - 1] + t[k]
    <2> TAKE k \in 1 .. n + 1
    <2>1. CASE k = n + 1
        <3>1. k - 1 = n /\ n \in 0 .. n
            BY <2>1
        <3> QED BY <1>0, <1>2, <1>3, <2>1, <3>1
    <2>2. CASE k \in 1 .. n
        <3>1. k \in 0 .. n /\ k - 1 \in 0 .. n
            BY <2>2
        <3> QED BY <1>0, <1>2, <2>2, <3>1 DEF Walk
    <2> QED BY <2>1, <2>2
<1>7. \A k \in 0 .. n + 1 : -b <= g[k] /\ g[k] <= b
    BY <1>0, <1>2, <1>3, <1>4 DEF Walk
<1>8. \A j, k \in 0 .. n + 1 : j <= k => -(k - j) <= g[k] - g[j] /\ g[k] - g[j] <= k - j
    <2> SUFFICES ASSUME NEW j \in 0 .. n + 1, NEW k \in 0 .. n + 1, j <= k
                 PROVE  -(k - j) <= g[k] - g[j] /\ g[k] - g[j] <= k - j
        OBVIOUS
    <2>1. CASE k \in 0 .. n
        <3>1. j \in 0 .. n
            BY <2>1
        <3> QED BY <1>2, <2>1, <3>1 DEF Walk
    <2>2. CASE k = n + 1 /\ j \in 0 .. n
        <3>1. -(n - j) <= f[n] - f[j] /\ f[n] - f[j] <= n - j /\ f[j] \in Int
            BY <2>2 DEF Walk
        <3> QED BY <1>2, <1>3, <1>5, <2>2, <3>1, SMTT(20)
    <2>3. CASE k = n + 1 /\ j = n + 1
        BY <1>3, <1>5, <2>3
    <2> QED BY <1>4, <2>1, <2>2, <2>3
<1>9. g[0] = f[0]
    BY <1>2
<1> QED BY <1>0, <1>1, <1>3, <1>6, <1>7, <1>8, <1>9 DEF Walk

\* Without its first step.
LEMMA WalkLater ==
    ASSUME NEW n \in Nat, NEW b \in Nat, NEW f, NEW s, NEW t, n > 0, Walk(f, n, s, b), Lacks(t, s, n)
    PROVE  \E g : Walk(g, n - 1, t, b) /\ g[0] = f[0] + s[1] /\ g[n - 1] = f[n]
<1>0. t \in [1 .. n - 1 -> {1, -1}] /\ \A k \in 1 .. n - 1 : t[k] = s[k + 1]
    BY DEF Lacks
<1> DEFINE g == [k \in 0 .. n - 1 |-> f[k + 1]]
<1>1. \A k \in 0 .. n - 1 : k + 1 \in 0 .. n /\ k + 1 \in 1 .. n /\ g[k] = f[k + 1]
    OBVIOUS
<1>2. g \in [0 .. n - 1 -> Int]
    BY <1>1 DEF Walk
<1>3. g[0] = f[0] + s[1]
    <2>1. 0 \in 0 .. n - 1 /\ 1 \in 1 .. n
        OBVIOUS
    <2>2. f[1] = f[0] + s[1]
        BY <2>1 DEF Walk
    <2> QED BY <1>1, <2>1, <2>2
<1>4. g[n - 1] = f[n]
    BY <1>1
<1> HIDE DEF g
<1>5. \A k \in 1 .. n - 1 : g[k] = g[k - 1] + t[k]
    <2> TAKE k \in 1 .. n - 1
    <2>1. k \in 0 .. n - 1 /\ k - 1 \in 0 .. n - 1 /\ k + 1 \in 1 .. n /\ (k + 1) - 1 = k
          /\ (k - 1) + 1 = k
        OBVIOUS
    <2>2. f[k + 1] = f[k] + s[k + 1]
        BY <2>1 DEF Walk
    <2> QED BY <1>0, <1>1, <2>1, <2>2
<1>6. \A k \in 0 .. n - 1 : -b <= g[k] /\ g[k] <= b
    BY <1>1 DEF Walk
<1>7. \A j, k \in 0 .. n - 1 : j <= k => -(k - j) <= g[k] - g[j] /\ g[k] - g[j] <= k - j
    <2> SUFFICES ASSUME NEW j \in 0 .. n - 1, NEW k \in 0 .. n - 1, j <= k
                 PROVE  -(k - j) <= g[k] - g[j] /\ g[k] - g[j] <= k - j
        OBVIOUS
    <2>1. j + 1 \in 0 .. n /\ k + 1 \in 0 .. n /\ j + 1 <= k + 1
        OBVIOUS
    <2>2. /\ -((k + 1) - (j + 1)) <= f[k + 1] - f[j + 1]
          /\ f[k + 1] - f[j + 1] <= (k + 1) - (j + 1)
        BY <2>1 DEF Walk
    <2>3. (k + 1) - (j + 1) = k - j
        OBVIOUS
    <2> QED BY <1>1, <2>2, <2>3
<1> QED BY <1>0, <1>2, <1>3, <1>4, <1>5, <1>6, <1>7 DEF Walk

\* From another start and without m steps behind the i-th.
LEMMA WalkShort ==
    ASSUME NEW n, NEW i, NEW m, NEW N, NEW b, NEW c, NEW B, Fits(n, i, m, N, b, c, B),
           NEW f, NEW s, NEW t, Walk(f, n, s, b), Skips(t, s, n, i, m),
           NEW a \in Int, Within(a, c)
    PROVE  \E g : Walk(g, N, t, B) /\ g[0] = f[0] - a /\ Within(g[N] - f[n], c + m)
<1> /\ n \in Nat /\ i \in 0 .. n /\ m \in Nat /\ i + m <= n /\ N \in Nat /\ N = n - m
    /\ b \in Nat /\ c \in Nat /\ B \in Nat /\ b + c + m <= B
    BY DEF Fits
<1>a. -c <= a /\ a <= c
    BY DEF Within
<1>b. /\ t \in [1 .. n - m -> {1, -1}]
      /\ \A k \in 1 .. i : t[k] = s[k]
      /\ \A k \in i + 1 .. n - m : t[k] = s[k + m]
    BY DEF Skips
<1> DEFINE d == f[i + m] - f[i]
           g == [k \in 0 .. n - m |-> IF k <= i THEN f[k] - a ELSE f[k + m] - a - d]
<1>0. /\ i + m \in 0 .. n /\ i <= i + m /\ n - m \in Nat /\ i \in 0 .. n - m
      /\ \A k \in 0 .. n : f[k] \in Int
    BY DEF Walk
<1>1. d \in Int /\ -m <= d /\ d <= m
    <2>1. -((i + m) - i) <= f[i + m] - f[i] /\ f[i + m] - f[i] <= (i + m) - i
        BY <1>0 DEF Walk
    <2>2. (i + m) - i = m
        OBVIOUS
    <2> QED BY <1>0, <2>1, <2>2
<1>2. f[i + m] - d = f[i]
    BY <1>0
<1> HIDE DEF d
<1>3. /\ \A k \in 0 .. i : g[k] = f[k] - a
      /\ \A k \in i .. n - m : k + m \in 0 .. n /\ g[k] = f[k + m] - a - d
    <2>1. \A k \in 0 .. i : g[k] = f[k] - a
        BY <1>0
    <2>2. \A k \in i .. n - m : k + m \in 0 .. n
        BY <1>0
    <2>3. ASSUME NEW k \in i .. n - m PROVE g[k] = f[k + m] - a - d
        <3>1. CASE k = i
            <4>1. g[i] = f[i] - a /\ f[i] \in Int /\ f[i + m] \in Int
                BY <1>0, <2>1
            <4> QED BY <1>1, <1>2, <3>1, <4>1
        <3>2. CASE k > i
            BY <1>0, <3>2
        <3> QED BY <1>0, <3>1, <3>2
    <2> QED BY <2>1, <2>2, <2>3
<1>4. g \in [0 .. n - m -> Int]
    BY <1>0, <1>1
<1> HIDE DEF g
<1>5. \A k \in 0 .. n - m : k \in 0 .. i \/ k \in i .. n - m
    BY <1>0
<1>6. \A k \in 1 .. n - m : g[k] = g[k - 1] + t[k]
    <2> TAKE k \in 1 .. n - m
    <2>1. CASE k \in 1 .. i
        <3>1. /\ k \in 0 .. i /\ k - 1 \in 0 .. i /\ k \in 1 .. n /\ k - 1 \in 0 .. n
            BY <2>1
        <3>2. f[k] = f[k - 1] + s[k] /\ t[k] = s[k]
            BY <1>b, <2>1, <3>1 DEF Walk
        <3>3. f[k - 1] \in Int /\ t[k] \in Int
            BY <1>0, <1>b, <3>1
        <3>4. g[k] = f[k] - a /\ g[k - 1] = f[k - 1] - a
            BY <1>3, <3>1
        <3> QED BY <3>2, <3>3, <3>4
    <2>2. CASE k \in i + 1 .. n - m
        <3>1. /\ k \in i .. n - m /\ k - 1 \in i .. n - m /\ k + m \in 1 .. n
              /\ (k - 1) + m = (k + m) - 1 /\ (k + m) - 1 \in 0 .. n
            BY <1>0, <2>2
        <3>2. f[k + m] = f[(k + m) - 1] + s[k + m] /\ t[k] = s[k + m]
            BY <1>b, <2>2, <3>1 DEF Walk
        <3>3. f[(k + m) - 1] \in Int /\ t[k] \in Int
            BY <1>0, <1>b, <3>1
        <3>4. g[k] = f[k + m] - a - d /\ g[k - 1] = f[(k + m) - 1] - a - d
            BY <1>3, <3>1
        <3> DEFINE x == f[k + m]
                   y == f[(k + m) - 1]
        <3>5. x = y + t[k] /\ y \in Int /\ g[k] = x - a - d /\ g[k - 1] = y - a - d
            BY <3>2, <3>3, <3>4
        <3> HIDE DEF x, y
        <3> QED BY <1>1, <3>3, <3>5
    <2> QED BY <1>0, <2>1, <2>2
<1>7. \A k \in 0 .. n - m : -B <= g[k] /\ g[k] <= B
    <2> TAKE k \in 0 .. n - m
    <2>1. CASE k \in 0 .. i
        <3>1. g[k] = f[k] - a /\ k \in 0 .. n
            BY <1>3, <2>1
        <3>2. f[k] \in Int /\ -b <= f[k] /\ f[k] <= b
            BY <1>0, <3>1 DEF Walk
        <3> QED BY <1>a, <3>1, <3>2
    <2>2. CASE k \in i .. n - m
        <3>1. g[k] = f[k + m] - a - d /\ f[k + m] \in Int /\ -b <= f[k + m] /\ f[k + m] <= b
            BY <1>0, <1>3, <2>2 DEF Walk
        <3> QED BY <1>1, <1>a, <3>1
    <2> QED BY <1>5, <2>1, <2>2
<1>8. \A j, k \in 0 .. n - m : j <= k => -(k - j) <= g[k] - g[j] /\ g[k] - g[j] <= k - j
    <2> SUFFICES ASSUME NEW j \in 0 .. n - m, NEW k \in 0 .. n - m, j <= k
                 PROVE  -(k - j) <= g[k] - g[j] /\ g[k] - g[j] <= k - j
        OBVIOUS
    <2>1. CASE k \in 0 .. i
        <3>1. j \in 0 .. i /\ j \in 0 .. n /\ k \in 0 .. n
            BY <2>1
        <3>2. -(k - j) <= f[k] - f[j] /\ f[k] - f[j] <= k - j /\ f[k] \in Int /\ f[j] \in Int
            BY <1>0, <3>1 DEF Walk
        <3> QED BY <1>3, <2>1, <3>1, <3>2
    <2>2. CASE j \in i .. n - m
        <3>1. k \in i .. n - m /\ j + m \in 0 .. n /\ k + m \in 0 .. n /\ j + m <= k + m
            BY <1>0, <2>2
        <3>2. /\ -((k + m) - (j + m)) <= f[k + m] - f[j + m] /\ f[k + m] - f[j + m] <= (k + m) - (j + m)
              /\ f[k + m] \in Int /\ f[j + m] \in Int
            BY <1>0, <3>1 DEF Walk
        <3>3. (k + m) - (j + m) = k - j
            OBVIOUS
        <3>4. g[k] = f[k + m] - a - d /\ g[j] = f[j + m] - a - d
            BY <1>3, <2>2, <3>1
        <3> DEFINE x == f[k + m]
                   y == f[j + m]
        <3>5. /\ x \in Int /\ y \in Int /\ g[k] = x - a - d /\ g[j] = y - a - d
              /\ -(k - j) <= x - y /\ x - y <= k - j
            BY <3>2, <3>3, <3>4
        <3> HIDE DEF x, y
        <3>6. g[k] - g[j] = x - y
            BY <1>1, <3>5
        <3> QED BY <3>5, <3>6
    <2>3. CASE j \in 0 .. i /\ k \in i .. n - m
        <3>1. j \in 0 .. n /\ k + m \in 0 .. n /\ i + m <= k + m /\ i + m \in 0 .. n /\ i \in 0 .. n /\ j <= i
            BY <1>0, <2>3
        <3>2. /\ -(i - j) <= f[i] - f[j] /\ f[i] - f[j] <= i - j /\ f[i] \in Int /\ f[j] \in Int
            BY <1>0, <3>1 DEF Walk
        <3>3. /\ -((k + m) - (i + m)) <= f[k + m] - f[i + m] /\ f[k + m] - f[i + m] <= (k + m) - (i + m)
              /\ f[k + m] \in Int /\ f[i + m] \in Int
            BY <1>0, <3>1 DEF Walk
        <3>4. g[j] = f[j] - a /\ g[k] = f[k + m] - a - d
            BY <1>3, <2>3
        <3> DEFINE x == f[k + m]
                   y == f[i + m]
        <3>5. (k + m) - (i + m) = k - i
            OBVIOUS
        <3>6. /\ x \in Int /\ y \in Int /\ y - d = f[i] /\ g[k] = x - a - d
              /\ -(k - i) <= x - y /\ x - y <= k - i
            BY <1>2, <3>3, <3>4, <3>5
        <3> HIDE DEF x, y
        <3>7. g[k] - g[j] = (x - y) + (f[i] - f[j])
            BY <1>1, <3>2, <3>4, <3>6
        <3> DEFINE v == x - y
                   w == f[i] - f[j]
        <3>8. /\ v \in Int /\ w \in Int /\ g[k] - g[j] = v + w
              /\ -(k - i) <= v /\ v <= k - i /\ -(i - j) <= w /\ w <= i - j
            BY <3>2, <3>6, <3>7
        <3> HIDE DEF v, w
        <3>9. -(k - j) <= v + w /\ v + w <= k - j
            BY <3>8
        <3> QED BY <3>8, <3>9
    <2> QED BY <1>5, <2>1, <2>2, <2>3
<1>9. g[0] = f[0] - a
    BY <1>0, <1>3
<1>10. -(c + m) <= g[n - m] - f[n] /\ g[n - m] - f[n] <= c + m
    <2>1. n - m \in i .. n - m /\ (n - m) + m = n /\ n \in 0 .. n
        BY <1>0
    <2>2. g[n - m] = f[n] - a - d /\ f[n] \in Int
        BY <1>0, <1>3, <2>1
    <2> QED BY <1>1, <1>a, <2>2
<1> QED BY <1>b, <1>4, <1>6, <1>7, <1>8, <1>9, <1>10 DEF Walk, Within

-----------------------------------------------------------------------------
(* Types.                                                                  *)

\* The number of entries of a queue that a port has is a natural number, and
\* not 0 if the port of some entry is this one.
LEMMA HalvesCount ==
    ASSUME NEW q \in Seq(BufData), NEW p
    PROVE  /\ HalvesOf(q, p) \in Nat
           /\ (\E k \in DOMAIN q : q[k].port_no = p) => HalvesOf(q, p) >= 1
<1> DEFINE K == {k \in DOMAIN q : q[k].port_no = p}
<1>1. IsFiniteSet(1 .. Len(q)) /\ K \subseteq 1 .. Len(q)
    BY FS_Interval
<1>2. IsFiniteSet(K)
    BY <1>1, FS_Subset
<1>3. Cardinality(K) \in Nat /\ (Cardinality(K) = 0 <=> K = {})
    BY <1>2, FS_CardinalityType, FS_EmptySet
<1> QED BY <1>3 DEF HalvesOf

\* A queue of every port, none of them longer than d.
Queues(q, S, d) == q \in [Ports -> Seq(S)] /\ \A p \in Ports : Len(q[p]) <= d

\* TypeOK, queue by queue.
Parts ==
    /\ lwrite_data_cycle1 \in Seq(BufData) /\ Len(lwrite_data_cycle1) <= WriteDepth
    /\ lwrite_data_cycle2 \in Seq(BufData) /\ Len(lwrite_data_cycle2) <= WriteDepth
    /\ lwstate \in {"chunk_a", "chunk_b"}
    /\ Queues(fromHost, Half, FromHostDepth)
    /\ Queues(toHost, Half, ToHostDepth)
    /\ Queues(lread_data_cycle1, Nat, ReadDepth)
    /\ Queues(lread_data_cycle2, Nat, ReadDepth)
    /\ answer \in [Ports -> Nat \X Nat]
    /\ written \in Nat
    /\ lost \in [Ports -> Nat]

\* Before and after a step.
LEMMA TypeParts == (TypeOK <=> Parts) /\ (TypeOK' <=> Parts')
<1>1. TypeOK <=> Parts
    BY DEF TypeOK, Parts, Queues
<1>2. TypeOK' <=> Parts'
    BY DEF TypeOK, Parts, Queues
<1> QED BY <1>1, <1>2

\* What a queue that is not empty gives.
LEMMA Front ==
    ASSUME NEW S, NEW q \in Seq(S), q # <<>>
    PROVE  /\ Head(q) \in S /\ Tail(q) \in Seq(S)
           /\ Len(q) \in Nat /\ Len(q) > 0 /\ Len(Tail(q)) = Len(q) - 1
           /\ Head(q) = q[1] /\ \A k \in 1 .. Len(q) - 1 : Tail(q)[k] = q[k + 1]
    OBVIOUS

\* An entry joins the queue of a port.
LEMMA Pushed ==
    ASSUME NEW S, NEW d \in Nat, NEW q, Queues(q, S, d),
           NEW p \in Ports, NEW e \in S, Len(q[p]) < d
    PROVE  Queues([q EXCEPT ![p] = Append(@, e)], S, d)
<1> DEFINE r == [q EXCEPT ![p] = Append(@, e)]
<1>1. q \in [Ports -> Seq(S)] /\ q[p] \in Seq(S) /\ \A x \in Ports : Len(q[x]) <= d
    BY DEF Queues
<1>2. Append(q[p], e) \in Seq(S) /\ Len(Append(q[p], e)) = Len(q[p]) + 1
    BY <1>1
<1>3. r \in [Ports -> Seq(S)] /\ r[p] = Append(q[p], e) /\ \A x \in Ports \ {p} : r[x] = q[x]
    BY <1>1, <1>2
<1>4. Len(r[p]) <= d
    BY <1>1, <1>2, <1>3
<1> QED BY <1>1, <1>3, <1>4 DEF Queues

\* The first entry leaves the queue of a port.
LEMMA Popped ==
    ASSUME NEW S, NEW d \in Nat, NEW q, Queues(q, S, d), NEW p \in Ports, q[p] # <<>>
    PROVE  Queues([q EXCEPT ![p] = Tail(@)], S, d)
<1> DEFINE r == [q EXCEPT ![p] = Tail(@)]
<1>1. q \in [Ports -> Seq(S)] /\ q[p] \in Seq(S) /\ \A x \in Ports : Len(q[x]) <= d
    BY DEF Queues
<1>2. Tail(q[p]) \in Seq(S) /\ Len(Tail(q[p])) = Len(q[p]) - 1 /\ Len(q[p]) \in Nat
    BY <1>1, Front
<1>3. r \in [Ports -> Seq(S)] /\ r[p] = Tail(q[p]) /\ \A x \in Ports \ {p} : r[x] = q[x]
    BY <1>1, <1>2
<1>4. Len(r[p]) <= d
    BY <1>1, <1>2, <1>3
<1> QED BY <1>1, <1>3, <1>4 DEF Queues

\* The entries of a function of counters stay natural numbers.
LEMMA Raised ==
    ASSUME NEW f \in [Ports -> Nat], NEW p \in Ports
    PROVE  [f EXCEPT ![p] = @ + 1] \in [Ports -> Nat]
    OBVIOUS

\* The variables keep their types and the queues their bounds.
LEMMA TypesKept == TypeOK /\ [Next]_vars => TypeOK'
<1> SUFFICES ASSUME Parts, [Next]_vars PROVE Parts'
    BY TypeParts
<1>0. /\ WriteDepth \in Nat /\ FromHostDepth \in Nat /\ ToHostDepth \in Nat
      /\ PhyDepth \in Nat /\ ReadDepth \in Nat
    BY LoggerAssumption
<1>1. ASSUME NEW p \in Ports, dtp_logger_write_cnt(p) PROVE Parts'
    <2> DEFINE e == [port_no |-> p, data |-> written']
    <2>1. e \in BufData /\ written' \in Nat
        BY <1>1 DEF dtp_logger_write_cnt, Parts, BufData
    <2> HIDE DEF e
    <2>2. ASSUME NEW q \in Seq(BufData), Len(q) < WriteDepth
          PROVE  Append(q, e) \in Seq(BufData) /\ Len(Append(q, e)) <= WriteDepth
        BY <1>0, <2>1, <2>2
    <2>3. /\ lwrite_data_cycle1' \in Seq(BufData) /\ Len(lwrite_data_cycle1') <= WriteDepth
          /\ lwrite_data_cycle2' \in Seq(BufData) /\ Len(lwrite_data_cycle2') <= WriteDepth
        BY <1>1, <2>2 DEF dtp_logger_write_cnt, Parts, e
    <2> QED BY <1>1, <2>1, <2>3 DEF dtp_logger_write_cnt, Parts, receiver
<1>2. CASE log_from_host_chunk_a
    <2> DEFINE v == Head(lwrite_data_cycle1)
               e == [flag |-> 0, data |-> v.data]
    <2>1. v \in BufData /\ Tail(lwrite_data_cycle1) \in Seq(BufData)
          /\ Len(Tail(lwrite_data_cycle1)) <= WriteDepth
        BY <1>0, <1>2, Front DEF log_from_host_chunk_a, Parts
    <2>2. v.port_no \in Ports /\ e \in Half
        BY <2>1 DEF BufData, Half
    <2>3. /\ Len(fromHost[v.port_no]) < FromHostDepth
          /\ fromHost' = [fromHost EXCEPT ![v.port_no] = Append(@, e)]
        BY <1>2 DEF log_from_host_chunk_a
    <2> HIDE DEF v, e
    <2>4. Queues(fromHost', Half, FromHostDepth)
        BY <1>0, <2>2, <2>3, Pushed DEF Parts
    <2> QED BY <1>2, <2>1, <2>4 DEF log_from_host_chunk_a, Parts, receiver
<1>3. CASE log_from_host_chunk_b
    <2> DEFINE v == Head(lwrite_data_cycle2)
               e == [flag |-> 1, data |-> v.data]
    <2>1. v \in BufData /\ Tail(lwrite_data_cycle2) \in Seq(BufData)
          /\ Len(Tail(lwrite_data_cycle2)) <= WriteDepth
        BY <1>0, <1>3, Front DEF log_from_host_chunk_b, Parts
    <2>2. v.port_no \in Ports /\ e \in Half
        BY <2>1 DEF BufData, Half
    <2>3. /\ Len(fromHost[v.port_no]) < FromHostDepth
          /\ fromHost' = [fromHost EXCEPT ![v.port_no] = Append(@, e)]
        BY <1>3 DEF log_from_host_chunk_b
    <2> HIDE DEF v, e
    <2>4. Queues(fromHost', Half, FromHostDepth)
        BY <1>0, <2>2, <2>3, Pushed DEF Parts
    <2> QED BY <1>3, <2>1, <2>4 DEF log_from_host_chunk_b, Parts, receiver
<1>4. ASSUME NEW p \in Ports, Transmit(p) PROVE Parts'
    <2>1. Queues(fromHost', Half, FromHostDepth)
        BY <1>0, <1>4, Popped DEF Transmit, Parts
    <2>2. Head(fromHost[p]) \in Half
        BY <1>4, Front DEF Transmit, Parts, Queues
    <2>3. Queues(toHost', Half, ToHostDepth) /\ lost' \in [Ports -> Nat]
        <3>1. CASE Len(toHost[p]) < ToHostDepth
            <4>1. toHost' = [toHost EXCEPT ![p] = Append(@, Head(fromHost[p]))] /\ lost' = lost
                BY <1>4, <3>1 DEF Transmit
            <4>2. Queues(toHost', Half, ToHostDepth)
                BY <1>0, <2>2, <3>1, <4>1, Pushed DEF Parts
            <4> QED BY <4>1, <4>2 DEF Parts
        <3>2. CASE ~ Len(toHost[p]) < ToHostDepth
            BY <1>4, <3>2, Raised, SMTT(20) DEF Transmit, Parts
        <3> QED BY <3>1, <3>2
    <2> QED BY <1>4, <2>1, <2>3 DEF Transmit, Parts, sender, receiver
<1>5. ASSUME NEW p \in Ports, TransmitLost(p) PROVE Parts'
    <2>1. Queues(fromHost', Half, FromHostDepth)
        BY <1>0, <1>5, Popped DEF TransmitLost, Parts
    <2>2. lost' \in [Ports -> Nat]
        BY <1>5, Raised DEF TransmitLost, Parts
    <2> QED BY <1>5, <2>1, <2>2 DEF TransmitLost, Parts, sender, receiver
<1>6. ASSUME NEW p \in Ports, save_host_data(p) PROVE Parts'
    <2>1. Queues(toHost', Half, ToHostDepth)
        BY <1>0, <1>6, Popped DEF save_host_data, Parts
    <2>2. Head(toHost[p]) \in Half
        BY <1>6, Front DEF save_host_data, Parts, Queues
    <2> DEFINE x == Head(toHost[p]).data
    <2>3. x \in Nat
        BY <2>2 DEF Half
    <2>4. \/ /\ Len(lread_data_cycle1[p]) < ReadDepth
             /\ lread_data_cycle1' = [lread_data_cycle1 EXCEPT ![p] = Append(@, x)]
             /\ lread_data_cycle2' = lread_data_cycle2
          \/ /\ Len(lread_data_cycle2[p]) < ReadDepth
             /\ lread_data_cycle2' = [lread_data_cycle2 EXCEPT ![p] = Append(@, x)]
             /\ lread_data_cycle1' = lread_data_cycle1
        BY <1>6 DEF save_host_data
    <2> HIDE DEF x
    <2>5. /\ Queues(lread_data_cycle1', Nat, ReadDepth)
          /\ Queues(lread_data_cycle2', Nat, ReadDepth)
        <3>1. CASE /\ Len(lread_data_cycle1[p]) < ReadDepth
                   /\ lread_data_cycle1' = [lread_data_cycle1 EXCEPT ![p] = Append(@, x)]
                   /\ lread_data_cycle2' = lread_data_cycle2
            BY <1>0, <2>3, <3>1, Pushed DEF Parts
        <3>2. CASE /\ Len(lread_data_cycle2[p]) < ReadDepth
                   /\ lread_data_cycle2' = [lread_data_cycle2 EXCEPT ![p] = Append(@, x)]
                   /\ lread_data_cycle1' = lread_data_cycle1
            BY <1>0, <2>3, <3>2, Pushed DEF Parts
        <3> QED BY <2>4, <3>1, <3>2
    <2> QED BY <1>6, <2>1, <2>5 DEF save_host_data, Parts, sender
<1>7. ASSUME NEW p \in Ports, dtp_logger_read_cnt(p) PROVE Parts'
    <2>1. Head(lread_data_cycle1[p]) \in Nat /\ Head(lread_data_cycle2[p]) \in Nat
        BY <1>7, Front DEF dtp_logger_read_cnt, Parts, Queues
    <2>2. answer' \in [Ports -> Nat \X Nat]
        BY <1>7, <2>1 DEF dtp_logger_read_cnt, Parts
    <2>3. /\ Queues(lread_data_cycle1', Nat, ReadDepth)
          /\ Queues(lread_data_cycle2', Nat, ReadDepth)
        BY <1>0, <1>7, Popped DEF dtp_logger_read_cnt, Parts
    <2> QED BY <1>7, <2>2, <2>3 DEF dtp_logger_read_cnt, Parts, sender
<1>8. CASE dtp_reset_sender
    <2>1. ASSUME NEW p \in Ports
          PROVE  lost[p] + HalvesOf(lwrite_data_cycle1, p) + HalvesOf(lwrite_data_cycle2, p)
                    + Len(fromHost[p]) \in Nat
        <3>1. HalvesOf(lwrite_data_cycle1, p) \in Nat /\ HalvesOf(lwrite_data_cycle2, p) \in Nat
            BY HalvesCount DEF Parts
        <3>2. lost[p] \in Nat /\ Len(fromHost[p]) \in Nat
            BY DEF Parts, Queues
        <3> QED BY <3>1, <3>2
    <2>2. lost' \in [Ports -> Nat]
        BY <1>8, <2>1 DEF dtp_reset_sender
    <2>3. Queues(fromHost', Half, FromHostDepth)
        BY <1>0, <1>8 DEF dtp_reset_sender, Queues
    <2> QED BY <1>0, <1>8, <2>2, <2>3 DEF dtp_reset_sender, Parts, receiver
<1>9. CASE dtp_reset_receiver
    <2>1. PICK k \in [Ports -> 0 .. PhyDepth] :
            /\ \A p \in Ports : k[p] <= Len(toHost[p])
            /\ toHost' = [p \in Ports |-> SubSeq(toHost[p], 1, Len(toHost[p]) - k[p])]
            /\ lread_data_cycle1' = [p \in Ports |-> <<>>]
            /\ lread_data_cycle2' = [p \in Ports |-> <<>>]
            /\ lost' = [p \in Ports |-> lost[p] + Len(lread_data_cycle1[p])
                                        + Len(lread_data_cycle2[p]) + k[p]]
            /\ UNCHANGED <<sender, fromHost, answer, written>>
        BY <1>9 DEF dtp_reset_receiver
    <2>2. ASSUME NEW p \in Ports
          PROVE  /\ toHost'[p] \in Seq(Half) /\ Len(toHost'[p]) <= ToHostDepth
                 /\ lost[p] + Len(lread_data_cycle1[p]) + Len(lread_data_cycle2[p]) + k[p] \in Nat
        <3> DEFINE q == toHost[p]
                   n == Len(q) - k[p]
        <3>1. /\ q \in Seq(Half) /\ Len(q) \in Nat /\ Len(q) <= ToHostDepth
              /\ k[p] \in Nat /\ k[p] <= Len(q)
            <4>1. k[p] \in 0 .. PhyDepth /\ k[p] <= Len(q)
                BY <2>1
            <4>2. q \in Seq(Half) /\ Len(q) <= ToHostDepth
                BY DEF Parts, Queues
            <4> QED BY <1>0, <4>1, <4>2
        <3>2. toHost'[p] = SubSeq(q, 1, n)
            BY <2>1
        <3> HIDE DEF q
        <3>3. n \in Nat /\ n <= Len(q) /\ n <= ToHostDepth
            BY <1>0, <3>1
        <3> HIDE DEF n
        <3>4. SubSeq(q, 1, n) \in Seq(Half) /\ Len(SubSeq(q, 1, n)) = n
            BY <3>1, <3>3
        <3>5. lost[p] + Len(lread_data_cycle1[p]) + Len(lread_data_cycle2[p]) + k[p] \in Nat
            <4>1. /\ lost[p] \in Nat
                  /\ Len(lread_data_cycle1[p]) \in Nat /\ Len(lread_data_cycle2[p]) \in Nat
                BY DEF Parts, Queues
            <4> QED BY <3>1, <4>1, SMTT(20)
        <3> QED BY <3>2, <3>3, <3>4, <3>5
    <2>3. lost' \in [Ports -> Nat]
        BY <2>1, <2>2
    <2>4. toHost' \in [Ports -> Seq(Half)]
        <3>1. \A p \in Ports : SubSeq(toHost[p], 1, Len(toHost[p]) - k[p]) \in Seq(Half)
            BY <2>1, <2>2
        <3> QED BY <2>1, <3>1
    <2>5. Queues(toHost', Half, ToHostDepth)
        BY <2>2, <2>4 DEF Queues
    <2>6. /\ Queues(lread_data_cycle1', Nat, ReadDepth)
          /\ Queues(lread_data_cycle2', Nat, ReadDepth)
        BY <1>0, <2>1 DEF Queues
    <2> QED BY <2>1, <2>3, <2>5, <2>6 DEF Parts, sender
<1>10. CASE UNCHANGED vars
    BY <1>10 DEF Parts, vars, sender, receiver
<1> QED BY <1>1, <1>2, <1>3, <1>4, <1>5, <1>6, <1>7, <1>8, <1>9, <1>10 DEF Next

-----------------------------------------------------------------------------
(* The balance of the two kinds of halves.  The halves of a port lie in    *)
(* one line, those of toHost before those of fromHost.  Begin with the     *)
(* difference of the two read queues, add 1 for a first and subtract 1 for *)
(* a second half: but for what is lost the sum stays within 1 of 0, and    *)
(* its last value tells which half log_from_host_cycle sends next.         *)

SignOf(h) == IF h.flag = 0 THEN 1 ELSE -1

Signs(t, f) == [k \in 1 .. Len(t) + Len(f) |->
                    IF k <= Len(t) THEN SignOf(t[k]) ELSE SignOf(f[k - Len(t)])]

Balanced(t, f, diff, ahead, l) ==
    \E w : /\ Walk(w, Len(t) + Len(f), Signs(t, f), 1 + l)
           /\ w[0] = diff
           /\ Within(w[Len(t) + Len(f)] - ahead, l)

\* A half counts 1 or -1.
LEMMA SignsType ==
    ASSUME NEW t \in Seq(Half), NEW f \in Seq(Half), NEW n \in Nat, n = Len(t) + Len(f)
    PROVE  Signs(t, f) \in [1 .. n -> {1, -1}]
<1>1. \A h : SignOf(h) \in {1, -1}
    BY DEF SignOf
<1> QED BY <1>1 DEF Signs

\* The steps of the halves in toHost come first.
LEMMA SignOfTo ==
    ASSUME NEW t \in Seq(Half), NEW f \in Seq(Half), NEW k \in 1 .. Len(t)
    PROVE  Signs(t, f)[k] = SignOf(t[k])
<1>1. k \in 1 .. Len(t) + Len(f) /\ k <= Len(t)
    OBVIOUS
<1> QED BY <1>1 DEF Signs

\* Behind them come those of the halves in fromHost.
LEMMA SignOfFrom ==
    ASSUME NEW t \in Seq(Half), NEW f \in Seq(Half), NEW j \in 1 .. Len(f),
           NEW k \in Nat, k = Len(t) + j
    PROVE  Signs(t, f)[k] = SignOf(f[j])
<1>1. k \in 1 .. Len(t) + Len(f) /\ ~ (k <= Len(t)) /\ k - Len(t) = j
    OBVIOUS
<1> QED BY <1>1 DEF Signs

\* log_from_host_cycle sends a half; a is the half that is ahead.
LEMMA Sent ==
    ASSUME NEW t \in Seq(Half), NEW f \in Seq(Half), NEW d \in Int, NEW l \in Nat, NEW h \in Half,
           NEW a \in Int, NEW e \in Int, e = a + SignOf(h), a = 0 \/ e = 0,
           Balanced(t, f, d, a, l)
    PROVE  Balanced(t, Append(f, h), d, e, l)
<1> DEFINE n == Len(t) + Len(f)
           u == Append(f, h)
           x == SignOf(h)
<1>1. /\ Len(t) \in Nat /\ Len(f) \in Nat /\ n \in Nat /\ u \in Seq(Half) /\ Len(u) = Len(f) + 1
      /\ Len(t) + Len(u) = n + 1
    OBVIOUS
<1>x. x \in {1, -1} /\ x \in Int
    BY DEF SignOf
<1>2. PICK w : Walk(w, n, Signs(t, f), 1 + l) /\ w[0] = d /\ Within(w[n] - a, l)
    BY DEF Balanced
<1>3. w[n] \in Int
    BY <1>1, <1>2, SMTT(20) DEF Walk
<1>y. u[Len(f) + 1] = h /\ \A j \in 1 .. Len(f) : u[j] = f[j]
    OBVIOUS
<1> HIDE DEF u
<1>4. Signs(t, u) \in [1 .. n + 1 -> {1, -1}]
    BY <1>1, SignsType
<1>5. Signs(t, u)[n + 1] = x
    <2>1. Len(f) + 1 \in 1 .. Len(u) /\ n + 1 = Len(t) + (Len(f) + 1) /\ n + 1 \in Nat
        BY <1>1
    <2>2. Signs(t, u)[n + 1] = SignOf(u[Len(f) + 1])
        BY <1>1, <2>1, SignOfFrom, SMTT(20)
    <2> QED BY <1>y, <2>2
<1>6. ASSUME NEW k \in 1 .. n PROVE Signs(t, u)[k] = Signs(t, f)[k]
    <2>1. CASE k \in 1 .. Len(t)
        <3>1. Signs(t, u)[k] = SignOf(t[k])
            BY <1>1, <2>1, SignOfTo
        <3>2. Signs(t, f)[k] = SignOf(t[k])
            BY <2>1, SignOfTo
        <3> QED BY <3>1, <3>2
    <2>2. CASE k \notin 1 .. Len(t)
        <3> DEFINE j == k - Len(t)
        <3>1. j \in 1 .. Len(f) /\ j \in 1 .. Len(u) /\ k = Len(t) + j /\ k \in Nat
            BY <1>1, <2>2
        <3> HIDE DEF j
        <3>a. u \in Seq(Half)
            BY <1>1
        <3>2. Signs(t, u)[k] = SignOf(u[j])
            BY <3>a, <3>1, SignOfFrom
        <3>3. Signs(t, f)[k] = SignOf(f[j])
            BY <3>1, SignOfFrom
        <3> QED BY <1>y, <3>1, <3>2, <3>3
    <2> QED BY <2>1, <2>2
<1> HIDE DEF n, x
<1>7. Within(w[n] + x, 1 + l)
    <2> DEFINE y == w[n]
    <2>1. y \in Int /\ -l <= y - a /\ y - a <= l /\ e = a + x
        BY <1>2, <1>3 DEF Within, x
    <2> HIDE DEF y
    <2>2. -(1 + l) <= y + x /\ y + x <= 1 + l
        BY <1>x, <2>1
    <2> QED BY <2>2 DEF Within, y
<1>8. Prolongs(Signs(t, u), Signs(t, f), n, x)
    BY <1>4, <1>5, <1>6 DEF Prolongs
<1>9. PICK g : Walk(g, n + 1, Signs(t, u), 1 + l) /\ g[0] = w[0] /\ g[n + 1] = w[n] + x
    <2>1. 1 + l \in Nat
        OBVIOUS
    <2> QED BY <1>1, <1>x, <1>2, <1>7, <1>8, <2>1, WalkOn, SMTT(20)
<1>10. Within(g[n + 1] - e, l)
    <2>1. g[n + 1] - e = w[n] - a
        BY <1>x, <1>3, <1>9 DEF x
    <2> QED BY <1>2, <2>1
<1>11. Balanced(t, u, d, e, l)
    BY <1>1, <1>2, <1>9, <1>10 DEF Balanced
<1> QED BY <1>11 DEF u

\* The half at the head of fromHost joins toHost.
LEMMA Kept ==
    ASSUME NEW t \in Seq(Half), NEW f \in Seq(Half), f # <<>>, NEW d \in Int, NEW l \in Nat,
           NEW a \in Int, Balanced(t, f, d, a, l)
    PROVE  Balanced(Append(t, Head(f)), Tail(f), d, a, l)
<1> DEFINE u == Append(t, Head(f))
           v == Tail(f)
           n == Len(t) + Len(f)
<1>1. /\ Len(t) \in Nat /\ Len(f) \in Nat /\ Len(f) > 0 /\ Head(f) \in Half /\ Head(f) = f[1]
      /\ v \in Seq(Half) /\ Len(v) = Len(f) - 1 /\ \A j \in 1 .. Len(f) - 1 : v[j] = f[j + 1]
    BY Front
<1>2. /\ u \in Seq(Half) /\ Len(u) = Len(t) + 1 /\ u[Len(t) + 1] = f[1]
      /\ \A k \in 1 .. Len(t) : u[k] = t[k]
    BY <1>1
<1> HIDE DEF u, v
<1>3. n = Len(u) + Len(v) /\ n \in Nat
    BY <1>1, <1>2
<1>4. ASSUME NEW k \in 1 .. n PROVE Signs(u, v)[k] = Signs(t, f)[k]
    <2>1. CASE k \in 1 .. Len(t)
        <3>1. k \in 1 .. Len(u) /\ u[k] = t[k]
            BY <1>1, <1>2, <2>1
        <3>2. Signs(u, v)[k] = SignOf(u[k])
            BY <1>1, <1>2, <3>1, SignOfTo
        <3>3. Signs(t, f)[k] = SignOf(t[k])
            BY <2>1, SignOfTo
        <3> QED BY <3>1, <3>2, <3>3
    <2>2. CASE k = Len(t) + 1
        <3>1. k \in 1 .. Len(u) /\ 1 \in 1 .. Len(f) /\ k \in Nat
            BY <1>1, <1>2, <2>2
        <3>2. Signs(u, v)[k] = SignOf(u[k])
            BY <1>1, <1>2, <3>1, SignOfTo
        <3>3. Signs(t, f)[k] = SignOf(f[1])
            BY <2>2, <3>1, SignOfFrom
        <3> QED BY <1>2, <2>2, <3>2, <3>3
    <2>3. CASE k > Len(t) + 1
        <3> DEFINE j == k - Len(t) - 1
                   i == j + 1
        <3>1. /\ j \in 1 .. Len(v) /\ i \in 1 .. Len(f) /\ k \in Nat /\ j \in 1 .. Len(f) - 1
              /\ k = Len(u) + j /\ k = Len(t) + i
            BY <1>1, <1>2, <2>3
        <3>2. v[j] = f[i]
            BY <1>1, <3>1
        <3> HIDE DEF j, i
        <3>3. Signs(u, v)[k] = SignOf(v[j])
            <4>1. u \in Seq(Half) /\ v \in Seq(Half) /\ j \in 1 .. Len(v) /\ k \in Nat /\ k = Len(u) + j
                BY <1>1, <1>2, <3>1
            <4> QED BY ONLY <4>1, SignOfFrom
        <3>4. Signs(t, f)[k] = SignOf(f[i])
            BY <3>1, SignOfFrom
        <3> QED BY <3>2, <3>3, <3>4
    <2> QED BY <1>1, <2>1, <2>2, <2>3
<1>5. Signs(u, v) \in [1 .. n -> {1, -1}]
    BY <1>1, <1>2, <1>3, SignsType
<1>6. Signs(t, f) \in [1 .. n -> {1, -1}]
    BY <1>3, SignsType
<1>7. Signs(u, v) = Signs(t, f)
    BY <1>4, <1>5, <1>6
<1>8. Balanced(u, v, d, a, l)
    BY <1>3, <1>7 DEF Balanced
<1> QED BY <1>8 DEF u, v

\* A bound on a sum of two.
LEMMA Sum2 ==
    ASSUME NEW x \in Int, NEW y \in Int, NEW a \in Int, NEW b \in Nat, NEW c \in Nat, NEW B \in Nat,
           Within(x - y, b), Within(y - a, c), b + c <= B
    PROVE  Within(x - a, B)
    BY DEF Within

\* The half at the head of fromHost is lost.
LEMMA Dropped ==
    ASSUME NEW t \in Seq(Half), NEW f \in Seq(Half), f # <<>>, NEW d \in Int, NEW l \in Nat,
           NEW a \in Int, Balanced(t, f, d, a, l)
    PROVE  Balanced(t, Tail(f), d, a, l + 1)
<1> DEFINE n == Len(t) + Len(f)
           v == Tail(f)
           i == Len(t)
           N == i + Len(v)
<1>1. /\ i \in Nat /\ Len(f) \in Nat /\ Len(f) > 0 /\ v \in Seq(Half) /\ Len(v) = Len(f) - 1
      /\ \A j \in 1 .. Len(f) - 1 : v[j] = f[j + 1]
    BY Front
<1> HIDE DEF v
<1>2. n \in Nat /\ i + 1 <= n /\ N = n - 1 /\ i \in 0 .. n /\ N \in Nat
    BY <1>1
<1>3. PICK w : Walk(w, n, Signs(t, f), 1 + l) /\ w[0] = d /\ Within(w[n] - a, l)
    BY DEF Balanced
<1>4. Signs(t, v) \in [1 .. n - 1 -> {1, -1}]
    BY <1>1, <1>2, SignsType
<1>5. ASSUME NEW k \in 1 .. i PROVE Signs(t, v)[k] = Signs(t, f)[k]
    <2>1. Signs(t, v)[k] = SignOf(t[k])
        BY <1>1, SignOfTo
    <2>2. Signs(t, f)[k] = SignOf(t[k])
        BY SignOfTo
    <2> QED BY <2>1, <2>2
<1>6. ASSUME NEW k \in i + 1 .. n - 1 PROVE Signs(t, v)[k] = Signs(t, f)[k + 1]
    <2> DEFINE j == k - i
               x == k - i + 1
    <2>1. /\ j \in 1 .. Len(v) /\ x \in 1 .. Len(f) /\ k = Len(t) + j /\ k + 1 = Len(t) + x
          /\ k \in Nat /\ k + 1 \in Nat /\ j \in 1 .. Len(f) - 1 /\ x = j + 1
        BY <1>1
    <2>a. v[j] = f[x]
        BY <1>1, <2>1
    <2> HIDE DEF j, x
    <2>2. v \in Seq(Half)
        BY <1>1
    <2>3. Signs(t, v)[k] = SignOf(v[j])
        BY <2>1, <2>2, SignOfFrom
    <2>4. Signs(t, f)[k + 1] = SignOf(f[x])
        BY <2>1, SignOfFrom
    <2> QED BY <2>a, <2>3, <2>4
<1>7. Skips(Signs(t, v), Signs(t, f), n, i, 1)
    BY <1>4, <1>5, <1>6 DEF Skips
<1> HIDE DEF n, i, N
<1>8. PICK g : Walk(g, N, Signs(t, v), 1 + (l + 1)) /\ g[0] = w[0] - 0 /\ Within(g[N] - w[n], 0 + 1)
    <2>1. Fits(n, i, 1, N, 1 + l, 0, 1 + (l + 1))
        BY <1>2 DEF Fits
    <2>2. Within(0, 0)
        BY DEF Within
    <2> QED BY <1>3, <1>7, <2>1, <2>2, WalkShort
<1>9. g[N] \in Int /\ w[n] \in Int
    BY <1>2, <1>3, <1>8 DEF Walk
<1>10. Within(g[N] - a, l + 1)
    <2>1. 0 + 1 \in Nat /\ (0 + 1) + l <= l + 1
        OBVIOUS
    <2> QED BY <1>3, <1>8, <1>9, <2>1, Sum2
<1>11. g[0] = d
    BY <1>3, <1>8
<1>12. Balanced(t, v, d, a, l + 1)
    BY <1>8, <1>10, <1>11 DEF Balanced, N, i
<1> QED BY <1>12 DEF v

\* save_host_data moves the half at the head of toHost to a read queue.
LEMMA Taken ==
    ASSUME NEW t \in Seq(Half), NEW f \in Seq(Half), t # <<>>, NEW d \in Int, NEW l \in Nat,
           NEW a \in Int, Balanced(t, f, d, a, l)
    PROVE  Balanced(Tail(t), f, d + SignOf(Head(t)), a, l)
<1> DEFINE n == Len(t) + Len(f)
           v == Tail(t)
<1>1. /\ Len(t) \in Nat /\ Len(f) \in Nat /\ Len(t) > 0 /\ v \in Seq(Half) /\ Len(v) = Len(t) - 1
      /\ \A j \in 1 .. Len(t) - 1 : v[j] = t[j + 1]
    BY Front
<1>2. Head(t) = t[1] /\ 1 \in 1 .. Len(t)
    BY <1>1
<1> HIDE DEF v
<1>3. n \in Nat /\ n > 0 /\ n - 1 = Len(v) + Len(f) /\ n - 1 \in Nat
    BY <1>1
<1>4. PICK w : Walk(w, n, Signs(t, f), 1 + l) /\ w[0] = d /\ Within(w[n] - a, l)
    BY DEF Balanced
<1>5. Signs(v, f) \in [1 .. n - 1 -> {1, -1}]
    BY <1>1, <1>3, SignsType
<1>6. ASSUME NEW k \in 1 .. n - 1 PROVE Signs(v, f)[k] = Signs(t, f)[k + 1]
    <2>0. v \in Seq(Half)
        BY <1>1
    <2>1. CASE k \in 1 .. Len(v)
        <3>1. k + 1 \in 1 .. Len(t) /\ v[k] = t[k + 1]
            BY <1>1, <2>1
        <3>2. Signs(v, f)[k] = SignOf(v[k])
            BY <2>0, <2>1, SignOfTo
        <3>3. Signs(t, f)[k + 1] = SignOf(t[k + 1])
            BY <3>1, SignOfTo
        <3> QED BY <3>1, <3>2, <3>3
    <2>2. CASE k \notin 1 .. Len(v)
        <3> DEFINE j == k - Len(v)
        <3>1. /\ j \in 1 .. Len(f) /\ k = Len(v) + j /\ k + 1 = Len(t) + j
              /\ k \in Nat /\ k + 1 \in Nat
            BY <1>1, <2>2
        <3> HIDE DEF j
        <3>2. Signs(v, f)[k] = SignOf(f[j])
            BY <2>0, <3>1, SignOfFrom
        <3>3. Signs(t, f)[k + 1] = SignOf(f[j])
            BY <3>1, SignOfFrom
        <3> QED BY <3>2, <3>3
    <2> QED BY <2>1, <2>2
<1>7. Signs(t, f)[1] = SignOf(Head(t))
    BY <1>2, SignOfTo
<1> HIDE DEF n
<1>8. PICK g : /\ Walk(g, n - 1, Signs(v, f), 1 + l) /\ g[0] = w[0] + Signs(t, f)[1]
               /\ g[n - 1] = w[n]
    <2>1. 1 + l \in Nat
        OBVIOUS
    <2>2. Lacks(Signs(v, f), Signs(t, f), n)
        BY <1>5, <1>6 DEF Lacks
    <2> QED BY <1>3, <1>4, <2>1, <2>2, WalkLater
<1>9. Balanced(v, f, d + SignOf(Head(t)), a, l)
    BY <1>3, <1>4, <1>7, <1>8 DEF Balanced
<1> QED BY <1>9 DEF v

\* The sending board is reset: of the line only toHost is left.
LEMMA SenderCleared ==
    ASSUME NEW t \in Seq(Half), NEW f \in Seq(Half), NEW d \in Int, NEW l \in Nat,
           NEW a \in Int, NEW c \in Nat, Within(a, c), Balanced(t, f, d, a, l),
           NEW L \in Nat, l + c + Len(f) <= L
    PROVE  Balanced(t, <<>>, d, 0, L)
<1> DEFINE n == Len(t) + Len(f)
           v == <<>>
           i == Len(t)
           m == Len(f)
           N == i + Len(v)
<1>1. i \in Nat /\ m \in Nat /\ v \in Seq(Half) /\ Len(v) = 0
    OBVIOUS
<1> HIDE DEF v
<1>2. n \in Nat /\ i + m <= n /\ N = n - m /\ i \in 0 .. n /\ N \in Nat /\ N = i
    BY <1>1
<1>3. PICK w : Walk(w, n, Signs(t, f), 1 + l) /\ w[0] = d /\ Within(w[n] - a, l)
    BY DEF Balanced
<1>4. Signs(t, v) \in [1 .. n - m -> {1, -1}]
    BY <1>1, <1>2, SignsType
<1>5. ASSUME NEW k \in 1 .. i PROVE Signs(t, v)[k] = Signs(t, f)[k]
    <2>1. Signs(t, v)[k] = SignOf(t[k])
        BY <1>1, SignOfTo
    <2>2. Signs(t, f)[k] = SignOf(t[k])
        BY SignOfTo
    <2> QED BY <2>1, <2>2
<1>6. i + 1 .. n - m = {}
    BY <1>1
<1>7. Skips(Signs(t, v), Signs(t, f), n, i, m)
    BY <1>4, <1>5, <1>6 DEF Skips
<1>8. l + c + m <= L
    OBVIOUS
<1> HIDE DEF n, i, m, N
<1>9. PICK g : Walk(g, N, Signs(t, v), 1 + L) /\ g[0] = w[0] - 0 /\ Within(g[N] - w[n], 0 + m)
    <2>1. Fits(n, i, m, N, 1 + l, 0, 1 + L)
        BY <1>1, <1>2, <1>8 DEF Fits
    <2>2. Within(0, 0)
        BY DEF Within
    <2> QED BY <1>3, <1>7, <2>1, <2>2, WalkShort
<1>10. g[N] \in Int /\ w[n] \in Int
    BY <1>2, <1>3, <1>9 DEF Walk
<1>11. Within(g[N] - a, m + l)
    <2>1. 0 + m \in Nat /\ m + l \in Nat /\ (0 + m) + l <= m + l
        BY <1>1
    <2> QED BY <1>3, <1>9, <1>10, <2>1, Sum2
<1>12. Within(g[N] - 0, L)
    <2>1. m + l \in Nat /\ (m + l) + c <= L /\ Within(a - 0, c) /\ 0 \in Int
        BY <1>1, <1>8
    <2> QED BY <1>10, <1>11, <2>1, Sum2
<1>13. g[0] = d
    BY <1>3, <1>9
<1>14. Balanced(t, v, d, 0, L)
    BY <1>9, <1>12, <1>13 DEF Balanced, N, i
<1> QED BY <1>14 DEF v

\* The receiving board is reset: the read queues are empty, and toHost loses
\* its last m entries.
LEMMA ReceiverCleared ==
    ASSUME NEW t \in Seq(Half), NEW f \in Seq(Half), NEW d \in Int, NEW l \in Nat,
           NEW a \in Int, NEW c \in Nat, Within(d, c), Balanced(t, f, d, a, l),
           NEW m \in Nat, m <= Len(t), NEW L \in Nat, l + c + m <= L
    PROVE  Balanced(SubSeq(t, 1, Len(t) - m), f, 0, a, L)
<1> DEFINE n == Len(t) + Len(f)
           i == Len(t) - m
           v == SubSeq(t, 1, i)
           N == Len(v) + Len(f)
<1>1. Len(t) \in Nat /\ Len(f) \in Nat /\ i \in Nat /\ i <= Len(t) /\ i + m = Len(t)
    OBVIOUS
<1> HIDE DEF i
<1>2. v \in Seq(Half) /\ Len(v) = i /\ \A k \in 1 .. i : v[k] = t[k]
    BY <1>1
<1> HIDE DEF v
<1>3. n \in Nat /\ i + m <= n /\ N = n - m /\ i \in 0 .. n /\ N \in Nat
    <2>1. n = i + m + Len(f) /\ N = i + Len(f)
        BY <1>1, <1>2
    <2> HIDE DEF n, N
    <2> QED BY <1>1, <2>1
<1>4. PICK w : Walk(w, n, Signs(t, f), 1 + l) /\ w[0] = d /\ Within(w[n] - a, l)
    BY DEF Balanced
<1>5. Signs(v, f) \in [1 .. n - m -> {1, -1}]
    BY <1>2, <1>3, SignsType
<1>0. v \in Seq(Half)
    BY <1>2
<1>6. ASSUME NEW k \in 1 .. i PROVE Signs(v, f)[k] = Signs(t, f)[k]
    <2>0. k \in 1 .. Len(v) /\ k \in 1 .. Len(t) /\ v[k] = t[k]
        BY <1>1, <1>2
    <2>1. Signs(v, f)[k] = SignOf(v[k])
        BY <1>0, <2>0, SignOfTo
    <2>2. Signs(t, f)[k] = SignOf(t[k])
        BY <2>0, SignOfTo
    <2> QED BY <2>0, <2>1, <2>2
<1>7. ASSUME NEW k \in i + 1 .. n - m PROVE Signs(v, f)[k] = Signs(t, f)[k + m]
    <2> DEFINE j == k - i
    <2>1. /\ j \in 1 .. Len(f) /\ k = Len(v) + j /\ k + m = Len(t) + j
          /\ k \in Nat /\ k + m \in Nat
        BY <1>1, <1>2, SMTT(20)
    <2> HIDE DEF j
    <2>2. Signs(v, f)[k] = SignOf(f[j])
        BY <1>0, <2>1, SignOfFrom
    <2>3. Signs(t, f)[k + m] = SignOf(f[j])
        BY <2>1, SignOfFrom
    <2> QED BY <2>2, <2>3
<1>8. Skips(Signs(v, f), Signs(t, f), n, i, m)
    BY <1>5, <1>6, <1>7 DEF Skips
<1> HIDE DEF n, N
<1>9. PICK g : Walk(g, N, Signs(v, f), 1 + L) /\ g[0] = w[0] - d /\ Within(g[N] - w[n], c + m)
    <2>1. Fits(n, i, m, N, 1 + l, c, 1 + L)
        BY <1>3 DEF Fits
    <2> QED BY <1>4, <1>8, <2>1, WalkShort
<1>10. g[N] \in Int /\ w[n] \in Int
    BY <1>3, <1>4, <1>9 DEF Walk
<1>11. Within(g[N] - a, L)
    <2>1. c + m \in Nat /\ (c + m) + l <= L
        OBVIOUS
    <2> QED BY <1>4, <1>9, <1>10, <2>1, Sum2
<1>12. g[0] = 0
    BY <1>4, <1>9
<1>13. Balanced(v, f, 0, a, L)
    BY <1>9, <1>11, <1>12 DEF Balanced, N
<1> QED BY <1>13 DEF v, i

\* The sum behind the first half of the line is within the bound.
LEMMA FirstStep ==
    ASSUME NEW t \in Seq(Half), NEW f \in Seq(Half), t # <<>>, NEW d \in Int, NEW l \in Nat,
           NEW a \in Int, Balanced(t, f, d, a, l)
    PROVE  Within(d + SignOf(Head(t)), 1 + l)
<1> DEFINE n == Len(t) + Len(f)
<1>1. n \in Nat /\ 1 \in 1 .. n /\ 1 \in 0 .. n /\ 1 \in 1 .. Len(t) /\ Head(t) = t[1]
    OBVIOUS
<1>2. PICK w : Walk(w, n, Signs(t, f), 1 + l) /\ w[0] = d
    BY DEF Balanced
<1>3. Signs(t, f)[1] = SignOf(Head(t))
    BY <1>1, SignOfTo
<1> HIDE DEF n
<1>4. w[1] = w[1 - 1] + Signs(t, f)[1] /\ -(1 + l) <= w[1] /\ w[1] <= 1 + l
    BY <1>1, <1>2 DEF Walk
<1>5. w[1] = d + SignOf(Head(t))
    BY <1>2, <1>3, <1>4
<1> QED BY <1>4, <1>5 DEF Within

-----------------------------------------------------------------------------
(* The invariant.                                                          *)

\* 1: the first half of a message of port p has left the write queues and the
\* second has not; -1: the other way round.
Ahead(c1, c2, p) ==
    IF Len(c1) < Len(c2) /\ Head(c2).port_no = p THEN 1
    ELSE IF Len(c1) > Len(c2) /\ Head(c1).port_no = p THEN -1 ELSE 0

\* The two write queues hold the same messages, or the half of one is missing
\* and lwstate is at the other half.
Aligned(c1, c2, st) ==
    \/ c1 = c2
    \/ st = "chunk_b" /\ c2 # <<>> /\ c1 = Tail(c2)
    \/ st = "chunk_a" /\ c1 # <<>> /\ c2 = Tail(c1)

\* The halves of a port on their way are balanced.
Line(p) == Balanced(toHost[p], fromHost[p],
                    Len(lread_data_cycle1[p]) - Len(lread_data_cycle2[p]),
                    Ahead(lwrite_data_cycle1, lwrite_data_cycle2, p), lost[p])

IInv ==
    /\ TypeOK
    /\ Aligned(lwrite_data_cycle1, lwrite_data_cycle2, lwstate)
    /\ \A p \in Ports : Line(p)

\* What is ahead follows from the way in which the queues are aligned.
LEMMA AheadCases ==
    ASSUME NEW c1 \in Seq(BufData), NEW c2 \in Seq(BufData), NEW p
    PROVE  /\ Ahead(c1, c2, p) \in Int
           /\ c1 = c2 => Ahead(c1, c2, p) = 0
           /\ c2 # <<>> /\ c1 = Tail(c2) =>
                 Ahead(c1, c2, p) = IF Head(c2).port_no = p THEN 1 ELSE 0
           /\ c1 # <<>> /\ c2 = Tail(c1) =>
                 Ahead(c1, c2, p) = IF Head(c1).port_no = p THEN -1 ELSE 0
<1>1. Ahead(c1, c2, p) \in Int
    BY DEF Ahead
<1>2. c1 = c2 => Ahead(c1, c2, p) = 0
    BY DEF Ahead
<1>3. ASSUME c2 # <<>>, c1 = Tail(c2)
      PROVE  Ahead(c1, c2, p) = IF Head(c2).port_no = p THEN 1 ELSE 0
    <2>1. Len(c1) \in Nat /\ Len(c2) \in Nat /\ Len(c1) = Len(c2) - 1
        BY <1>3, Front
    <2>2. Len(c1) < Len(c2) /\ ~ (Len(c1) > Len(c2))
        BY <2>1
    <2> QED BY <2>2 DEF Ahead
<1>4. ASSUME c1 # <<>>, c2 = Tail(c1)
      PROVE  Ahead(c1, c2, p) = IF Head(c1).port_no = p THEN -1 ELSE 0
    <2>1. Len(c1) \in Nat /\ Len(c2) \in Nat /\ Len(c2) = Len(c1) - 1
        BY <1>4, Front
    <2>2. Len(c1) > Len(c2) /\ ~ (Len(c1) < Len(c2))
        BY <2>1
    <2> QED BY <2>2 DEF Ahead
<1> QED BY <1>1, <1>2, <1>3, <1>4

\* A half that is ahead is matched by one in a write queue.
LEMMA AheadBound ==
    ASSUME NEW c1 \in Seq(BufData), NEW c2 \in Seq(BufData), NEW p
    PROVE  Within(Ahead(c1, c2, p), HalvesOf(c1, p) + HalvesOf(c2, p))
<1>1. HalvesOf(c1, p) \in Nat /\ HalvesOf(c2, p) \in Nat
    BY HalvesCount
<1>2. CASE Len(c1) < Len(c2) /\ Head(c2).port_no = p
    <2>1. c2 # <<>> /\ 1 \in DOMAIN c2 /\ Head(c2) = c2[1]
        BY <1>2
    <2>2. HalvesOf(c2, p) >= 1
        BY <1>2, <2>1, HalvesCount
    <2>3. Ahead(c1, c2, p) = 1
        BY <1>2 DEF Ahead
    <2> QED BY <1>1, <2>2, <2>3 DEF Within
<1>3. CASE Len(c1) > Len(c2) /\ Head(c1).port_no = p
    <2>1. c1 # <<>> /\ 1 \in DOMAIN c1 /\ Head(c1) = c1[1]
        BY <1>3
    <2>2. HalvesOf(c1, p) >= 1
        BY <1>3, <2>1, HalvesCount
    <2>3. Ahead(c1, c2, p) = -1
        <3>1. ~ (Len(c1) < Len(c2))
            BY <1>3
        <3> QED BY <1>3, <3>1 DEF Ahead
    <2> QED BY <1>1, <2>2, <2>3 DEF Within
<1>4. CASE Ahead(c1, c2, p) = 0
    BY <1>1, <1>4 DEF Within
<1> QED BY <1>2, <1>3, <1>4 DEF Ahead

\* An entry joins a queue at its end.
LEMMA AppendFront ==
    ASSUME NEW S, NEW q \in Seq(S), NEW e \in S, q # <<>>
    PROVE  /\ Append(q, e) # <<>> /\ Head(Append(q, e)) = Head(q)
           /\ Tail(Append(q, e)) = Append(Tail(q), e)
<1> DEFINE n == Len(q)
           u == Append(q, e)
<1>1. n \in Nat /\ n > 0 /\ Tail(q) \in Seq(S) /\ Len(Tail(q)) = n - 1
      /\ \A k \in 1 .. n - 1 : Tail(q)[k] = q[k + 1]
    BY Front
<1>2. u \in Seq(S) /\ Len(u) = n + 1 /\ u[n + 1] = e /\ \A k \in 1 .. n : u[k] = q[k]
    BY <1>1
<1>3. u # <<>>
    BY <1>1, <1>2
<1>4. Tail(u) \in Seq(S) /\ Len(Tail(u)) = n /\ \A k \in 1 .. n : Tail(u)[k] = u[k + 1]
    <2> HIDE DEF u
    <2>1. Tail(u) \in Seq(S) /\ Len(Tail(u)) = Len(u) - 1
          /\ \A k \in 1 .. Len(u) - 1 : Tail(u)[k] = u[k + 1]
        BY <1>2, <1>3, Front
    <2>2. Len(u) - 1 = n
        BY <1>1, <1>2
    <2> QED BY <2>1, <2>2
<1>5. /\ Append(Tail(q), e) \in Seq(S) /\ Len(Append(Tail(q), e)) = n /\ Append(Tail(q), e)[n] = e
      /\ \A k \in 1 .. n - 1 : Append(Tail(q), e)[k] = Tail(q)[k]
    BY <1>1
<1>6. ASSUME NEW k \in 1 .. n PROVE Tail(u)[k] = Append(Tail(q), e)[k]
    <2>1. CASE k = n
        BY <1>1, <1>2, <1>4, <1>5, <2>1
    <2>2. CASE k \in 1 .. n - 1
        <3>1. k + 1 \in 1 .. n
            BY <1>1, <2>2
        <3> QED BY <1>1, <1>2, <1>4, <1>5, <2>2, <3>1
    <2>3. k = n \/ k \in 1 .. n - 1
        <3> HIDE DEF n
        <3> QED BY <1>1
    <2> QED BY <2>1, <2>2, <2>3
<1>7. Tail(u) = Append(Tail(q), e)
    BY <1>4, <1>5, <1>6, SeqEqual
<1>8. Head(u) = Head(q)
    BY <1>1, <1>2, <1>3
<1> QED BY <1>3, <1>7, <1>8

\* The same entry joins both write queues.
LEMMA AlignedAppend ==
    ASSUME NEW c1 \in Seq(BufData), NEW c2 \in Seq(BufData), NEW e \in BufData, NEW st,
           Aligned(c1, c2, st)
    PROVE  /\ Aligned(Append(c1, e), Append(c2, e), st)
           /\ \A p : Ahead(Append(c1, e), Append(c2, e), p) = Ahead(c1, c2, p)
<1> DEFINE d1 == Append(c1, e)
           d2 == Append(c2, e)
<1>1. d1 \in Seq(BufData) /\ d2 \in Seq(BufData)
    OBVIOUS
<1>2. CASE c1 = c2
    <2>1. d1 = d2
        BY <1>2
    <2> HIDE DEF d1, d2
    <2> QED BY <1>1, <1>2, <2>1, AheadCases DEF Aligned, d1, d2
<1>3. CASE st = "chunk_b" /\ c2 # <<>> /\ c1 = Tail(c2)
    <2>1. d2 # <<>> /\ Head(d2) = Head(c2) /\ d1 = Tail(d2)
        BY <1>3, AppendFront
    <2>2. \A p : Ahead(d1, d2, p) = IF Head(d2).port_no = p THEN 1 ELSE 0
        <3> HIDE DEF d1, d2
        <3> QED BY <1>1, <2>1, AheadCases
    <2>3. \A p : Ahead(c1, c2, p) = IF Head(c2).port_no = p THEN 1 ELSE 0
        BY <1>3, AheadCases
    <2> QED BY <1>3, <2>1, <2>2, <2>3 DEF Aligned
<1>4. CASE st = "chunk_a" /\ c1 # <<>> /\ c2 = Tail(c1)
    <2>1. d1 # <<>> /\ Head(d1) = Head(c1) /\ d2 = Tail(d1)
        BY <1>4, AppendFront
    <2>2. \A p : Ahead(d1, d2, p) = IF Head(d1).port_no = p THEN -1 ELSE 0
        <3> HIDE DEF d1, d2
        <3> QED BY <1>1, <2>1, AheadCases
    <2>3. \A p : Ahead(c1, c2, p) = IF Head(c1).port_no = p THEN -1 ELSE 0
        BY <1>4, AheadCases
    <2> QED BY <1>4, <2>1, <2>2, <2>3 DEF Aligned
<1> QED BY <1>2, <1>3, <1>4 DEF Aligned

\* chunk_a: the first half at the head of c1 is sent.
LEMMA AlignedFirst ==
    ASSUME NEW c1 \in Seq(BufData), NEW c2 \in Seq(BufData), c1 # <<>>,
           Aligned(c1, c2, "chunk_a"), NEW p
    PROVE  /\ Aligned(Tail(c1), c2, "chunk_b")
           /\ Head(c1).port_no # p => Ahead(Tail(c1), c2, p) = Ahead(c1, c2, p)
           /\ Head(c1).port_no = p =>
                 /\ Ahead(Tail(c1), c2, p) = Ahead(c1, c2, p) + 1
                 /\ Ahead(c1, c2, p) = 0 \/ Ahead(Tail(c1), c2, p) = 0
<1>1. Tail(c1) \in Seq(BufData) /\ Tail(c1) # c1
    <2> DEFINE n == Len(c1)
    <2>1. Tail(c1) \in Seq(BufData) /\ Len(Tail(c1)) = n - 1 /\ n \in Nat
        BY Front
    <2> HIDE DEF n
    <2>2. n - 1 # n
        BY <2>1
    <2> QED BY <2>1, <2>2 DEF n
<1>2. CASE c1 = c2
    <2>1. Ahead(Tail(c1), c2, p) = IF Head(c2).port_no = p THEN 1 ELSE 0
        BY <1>1, <1>2, AheadCases
    <2>2. Ahead(c1, c2, p) = 0
        BY <1>2, AheadCases
    <2> QED BY <1>2, <2>1, <2>2 DEF Aligned
<1>3. CASE c2 = Tail(c1)
    <2>1. Ahead(Tail(c1), c2, p) = 0
        BY <1>1, <1>3, AheadCases
    <2>2. Ahead(c1, c2, p) = IF Head(c1).port_no = p THEN -1 ELSE 0
        BY <1>3, AheadCases
    <2> QED BY <1>3, <2>1, <2>2 DEF Aligned
<1> QED BY <1>2, <1>3 DEF Aligned

\* chunk_b: the second half at the head of c2 is sent.
LEMMA AlignedSecond ==
    ASSUME NEW c1 \in Seq(BufData), NEW c2 \in Seq(BufData), c2 # <<>>,
           Aligned(c1, c2, "chunk_b"), NEW p
    PROVE  /\ Aligned(c1, Tail(c2), "chunk_a")
           /\ Head(c2).port_no # p => Ahead(c1, Tail(c2), p) = Ahead(c1, c2, p)
           /\ Head(c2).port_no = p =>
                 /\ Ahead(c1, Tail(c2), p) = Ahead(c1, c2, p) + (-1)
                 /\ Ahead(c1, c2, p) = 0 \/ Ahead(c1, Tail(c2), p) = 0
<1>1. Tail(c2) \in Seq(BufData) /\ Tail(c2) # c2
    <2> DEFINE n == Len(c2)
    <2>1. Tail(c2) \in Seq(BufData) /\ Len(Tail(c2)) = n - 1 /\ n \in Nat
        BY Front
    <2> HIDE DEF n
    <2>2. n - 1 # n
        BY <2>1
    <2> QED BY <2>1, <2>2 DEF n
<1>2. CASE c1 = c2
    <2>1. Ahead(c1, Tail(c2), p) = IF Head(c1).port_no = p THEN -1 ELSE 0
        BY <1>1, <1>2, AheadCases
    <2>2. Ahead(c1, c2, p) = 0
        BY <1>2, AheadCases
    <2> QED BY <1>2, <2>1, <2>2 DEF Aligned
<1>3. CASE c1 = Tail(c2)
    <2>1. Ahead(c1, Tail(c2), p) = 0
        BY <1>1, <1>3, AheadCases
    <2>2. Ahead(c1, c2, p) = IF Head(c2).port_no = p THEN 1 ELSE 0
        BY <1>3, AheadCases
    <2> QED BY <1>3, <2>1, <2>2 DEF Aligned
<1> QED BY <1>2, <1>3 DEF Aligned

-----------------------------------------------------------------------------
(* The invariant holds.                                                    *)

\* A port whose queues and counters a step leaves alone keeps its balance.
LEMMA LineStays ==
    ASSUME NEW p \in Ports, Line(p), toHost'[p] = toHost[p], fromHost'[p] = fromHost[p],
           lread_data_cycle1'[p] = lread_data_cycle1[p],
           lread_data_cycle2'[p] = lread_data_cycle2[p], lost'[p] = lost[p],
           Ahead(lwrite_data_cycle1', lwrite_data_cycle2', p)
                = Ahead(lwrite_data_cycle1, lwrite_data_cycle2, p)
    PROVE  Line(p)'
    BY DEF Line

\* The queues of one port.
LEMMA OfOnePort ==
    ASSUME Parts, NEW p \in Ports
    PROVE  /\ toHost[p] \in Seq(Half) /\ fromHost[p] \in Seq(Half)
           /\ Len(lread_data_cycle1[p]) - Len(lread_data_cycle2[p]) \in Int
           /\ Len(lread_data_cycle1[p]) \in Nat /\ Len(lread_data_cycle2[p]) \in Nat
           /\ lost[p] \in Nat
           /\ Ahead(lwrite_data_cycle1, lwrite_data_cycle2, p) \in Int
<1>1. /\ toHost[p] \in Seq(Half) /\ fromHost[p] \in Seq(Half) /\ lost[p] \in Nat
      /\ lread_data_cycle1[p] \in Seq(Nat) /\ lread_data_cycle2[p] \in Seq(Nat)
    BY DEF Parts, Queues
<1>2. Ahead(lwrite_data_cycle1, lwrite_data_cycle2, p) \in Int
    BY AheadCases DEF Parts
<1> QED BY <1>1, <1>2

\* Every step keeps the invariant.
LEMMA Preserved == IInv /\ [Next]_vars => IInv'
<1> SUFFICES ASSUME IInv, [Next]_vars
             PROVE  /\ Aligned(lwrite_data_cycle1', lwrite_data_cycle2', lwstate')
                    /\ \A x \in Ports : Line(x)'
    BY TypesKept DEF IInv
<1> DEFINE A == Aligned(lwrite_data_cycle1', lwrite_data_cycle2', lwstate')
           B == \A x \in Ports : Line(x)'
<1>0. Parts /\ Aligned(lwrite_data_cycle1, lwrite_data_cycle2, lwstate)
      /\ (\A x \in Ports : Line(x))
    BY TypeParts DEF IInv
<1>1. ASSUME NEW p \in Ports, dtp_logger_write_cnt(p) PROVE A /\ B
    <2> DEFINE e == [port_no |-> p, data |-> written']
    <2>1. e \in BufData
        BY <1>0, <1>1 DEF dtp_logger_write_cnt, Parts, BufData
    <2>2. /\ lwrite_data_cycle1' = Append(lwrite_data_cycle1, e)
          /\ lwrite_data_cycle2' = Append(lwrite_data_cycle2, e)
        BY <1>1 DEF dtp_logger_write_cnt
    <2> HIDE DEF e
    <2>3. /\ A
          /\ \A x \in Ports : Ahead(lwrite_data_cycle1', lwrite_data_cycle2', x)
                                = Ahead(lwrite_data_cycle1, lwrite_data_cycle2, x)
        <3>1. lwstate' = lwstate
            BY <1>1 DEF dtp_logger_write_cnt
        <3>2. lwrite_data_cycle1 \in Seq(BufData) /\ lwrite_data_cycle2 \in Seq(BufData)
            BY <1>0 DEF Parts
        <3> QED BY <1>0, <2>1, <2>2, <3>1, <3>2, AlignedAppend
    <2>4. UNCHANGED <<toHost, fromHost, lread_data_cycle1, lread_data_cycle2, lost>>
        BY <1>1 DEF dtp_logger_write_cnt, receiver
    <2> QED BY <1>0, <2>3, <2>4, LineStays
<1>2. CASE log_from_host_chunk_a
    <2> DEFINE v == Head(lwrite_data_cycle1)
               h == [flag |-> 0, data |-> v.data]
               o == v.port_no
               c1 == lwrite_data_cycle1
               c2 == lwrite_data_cycle2
    <2>1. c1 # <<>> /\ c1 \in Seq(BufData) /\ c2 \in Seq(BufData) /\ Aligned(c1, c2, "chunk_a")
        BY <1>0, <1>2 DEF log_from_host_chunk_a, Parts
    <2>2. o \in Ports /\ h \in Half /\ SignOf(h) = 1
        <3>1. v \in BufData
            BY <2>1, Front
        <3> QED BY <3>1 DEF BufData, Half, SignOf
    <2>3. /\ fromHost' = [fromHost EXCEPT ![o] = Append(@, h)]
          /\ lwrite_data_cycle1' = Tail(c1) /\ lwrite_data_cycle2' = c2 /\ lwstate' = "chunk_b"
          /\ UNCHANGED <<toHost, lread_data_cycle1, lread_data_cycle2, lost>>
        BY <1>2 DEF log_from_host_chunk_a, receiver
    <2> HIDE DEF v, h, o
    <2>4. A
        BY <2>1, <2>3, AlignedFirst
    <2>5. ASSUME NEW x \in Ports PROVE Line(x)'
        <3>1. CASE x # o
            <4>1. fromHost'[x] = fromHost[x]
                BY <1>0, <2>2, <2>3, <3>1 DEF Parts, Queues
            <4>2. Ahead(Tail(c1), c2, x) = Ahead(c1, c2, x)
                BY <2>1, <3>1, AlignedFirst DEF o, v
            <4> QED BY <1>0, <2>3, <4>1, <4>2, LineStays
        <3>2. CASE x = o
            <4> DEFINE a == Ahead(c1, c2, x)
                       b == Ahead(Tail(c1), c2, x)
                       d == Len(lread_data_cycle1[x]) - Len(lread_data_cycle2[x])
            <4>1. a \in Int /\ b \in Int /\ b = a + SignOf(h) /\ (a = 0 \/ b = 0)
                <5>1. b = a + 1 /\ (a = 0 \/ b = 0)
                    BY <2>1, <3>2, AlignedFirst DEF o, v
                <5>2. a \in Int
                    BY <1>0, OfOnePort
                <5> QED BY <2>2, <5>1, <5>2
            <4>2. fromHost'[x] = Append(fromHost[x], h)
                BY <1>0, <2>2, <2>3, <3>2 DEF Parts, Queues
            <4>3. Balanced(toHost[x], fromHost[x], d, a, lost[x])
                BY <1>0 DEF Line
            <4>4. /\ toHost[x] \in Seq(Half) /\ fromHost[x] \in Seq(Half) /\ d \in Int
                  /\ lost[x] \in Nat
                BY <1>0, OfOnePort
            <4> HIDE DEF a, b, d
            <4>5. Balanced(toHost[x], Append(fromHost[x], h), d, b, lost[x])
                BY <2>2, <4>1, <4>3, <4>4, Sent
            <4> QED BY <2>3, <4>2, <4>5 DEF Line, b, d
        <3> QED BY <3>1, <3>2
    <2> QED BY <2>4, <2>5
<1>3. CASE log_from_host_chunk_b
    <2> DEFINE v == Head(lwrite_data_cycle2)
               h == [flag |-> 1, data |-> v.data]
               o == v.port_no
               c1 == lwrite_data_cycle1
               c2 == lwrite_data_cycle2
    <2>1. c2 # <<>> /\ c1 \in Seq(BufData) /\ c2 \in Seq(BufData) /\ Aligned(c1, c2, "chunk_b")
        BY <1>0, <1>3 DEF log_from_host_chunk_b, Parts
    <2>2. o \in Ports /\ h \in Half /\ SignOf(h) = -1
        <3>1. v \in BufData
            BY <2>1, Front
        <3> QED BY <3>1 DEF BufData, Half, SignOf
    <2>3. /\ fromHost' = [fromHost EXCEPT ![o] = Append(@, h)]
          /\ lwrite_data_cycle2' = Tail(c2) /\ lwrite_data_cycle1' = c1 /\ lwstate' = "chunk_a"
          /\ UNCHANGED <<toHost, lread_data_cycle1, lread_data_cycle2, lost>>
        BY <1>3 DEF log_from_host_chunk_b, receiver
    <2> HIDE DEF v, h, o
    <2>4. A
        BY <2>1, <2>3, AlignedSecond
    <2>5. ASSUME NEW x \in Ports PROVE Line(x)'
        <3>1. CASE x # o
            <4>1. fromHost'[x] = fromHost[x]
                BY <1>0, <2>2, <2>3, <3>1 DEF Parts, Queues
            <4>2. Ahead(c1, Tail(c2), x) = Ahead(c1, c2, x)
                BY <2>1, <3>1, AlignedSecond DEF o, v
            <4> QED BY <1>0, <2>3, <4>1, <4>2, LineStays
        <3>2. CASE x = o
            <4> DEFINE a == Ahead(c1, c2, x)
                       b == Ahead(c1, Tail(c2), x)
                       d == Len(lread_data_cycle1[x]) - Len(lread_data_cycle2[x])
            <4>1. a \in Int /\ b \in Int /\ b = a + SignOf(h) /\ (a = 0 \/ b = 0)
                <5>1. b = a + (-1) /\ (a = 0 \/ b = 0)
                    BY <2>1, <3>2, AlignedSecond DEF o, v
                <5>2. a \in Int
                    BY <1>0, OfOnePort
                <5> QED BY <2>2, <5>1, <5>2
            <4>2. fromHost'[x] = Append(fromHost[x], h)
                BY <1>0, <2>2, <2>3, <3>2 DEF Parts, Queues
            <4>3. Balanced(toHost[x], fromHost[x], d, a, lost[x])
                BY <1>0 DEF Line
            <4>4. /\ toHost[x] \in Seq(Half) /\ fromHost[x] \in Seq(Half) /\ d \in Int
                  /\ lost[x] \in Nat
                BY <1>0, OfOnePort
            <4> HIDE DEF a, b, d
            <4>5. Balanced(toHost[x], Append(fromHost[x], h), d, b, lost[x])
                BY <2>2, <4>1, <4>3, <4>4, Sent
            <4> QED BY <2>3, <4>2, <4>5 DEF Line, b, d
        <3> QED BY <3>1, <3>2
    <2> QED BY <2>4, <2>5
<1>4. ASSUME NEW p \in Ports, Transmit(p) \/ TransmitLost(p) PROVE A /\ B
    <2>1. /\ fromHost[p] # <<>> /\ fromHost' = [fromHost EXCEPT ![p] = Tail(@)]
          /\ UNCHANGED <<sender, receiver>>
          /\ \/ /\ toHost' = [toHost EXCEPT ![p] = Append(@, Head(fromHost[p]))] /\ lost' = lost
             \/ lost' = [lost EXCEPT ![p] = @ + 1] /\ toHost' = toHost
        BY <1>4 DEF Transmit, TransmitLost
    <2>2. UNCHANGED <<lwrite_data_cycle1, lwrite_data_cycle2, lwstate,
                      lread_data_cycle1, lread_data_cycle2>>
        BY <2>1 DEF sender, receiver
    <2>3. A
        BY <1>0, <2>2
    <2>4. ASSUME NEW x \in Ports PROVE Line(x)'
        <3>1. CASE x # p
            <4>1. fromHost'[x] = fromHost[x] /\ toHost'[x] = toHost[x] /\ lost'[x] = lost[x]
                BY <1>0, <2>1, <3>1 DEF Parts, Queues
            <4> QED BY <1>0, <2>2, <4>1, LineStays
        <3>2. CASE x = p
            <4> DEFINE a == Ahead(lwrite_data_cycle1, lwrite_data_cycle2, p)
                       d == Len(lread_data_cycle1[p]) - Len(lread_data_cycle2[p])
            <4>1. fromHost'[p] = Tail(fromHost[p])
                BY <1>0, <2>1 DEF Parts, Queues
            <4>2. Balanced(toHost[p], fromHost[p], d, a, lost[p])
                BY <1>0 DEF Line
            <4>3. /\ toHost[p] \in Seq(Half) /\ fromHost[p] \in Seq(Half) /\ d \in Int
                  /\ lost[p] \in Nat /\ a \in Int
                BY <1>0, OfOnePort
            <4> HIDE DEF a, d
            <4>4. CASE toHost' = [toHost EXCEPT ![p] = Append(@, Head(fromHost[p]))]
                       /\ lost' = lost
                <5>1. toHost'[p] = Append(toHost[p], Head(fromHost[p])) /\ lost'[p] = lost[p]
                    BY <1>0, <4>4 DEF Parts, Queues
                <5>2. Balanced(toHost'[p], fromHost'[p], d, a, lost'[p])
                    BY <2>1, <4>1, <4>2, <4>3, <5>1, Kept
                <5> QED BY <2>2, <3>2, <5>2 DEF Line, a, d
            <4>5. CASE lost' = [lost EXCEPT ![p] = @ + 1] /\ toHost' = toHost
                <5>1. toHost'[p] = toHost[p] /\ lost'[p] = lost[p] + 1
                    BY <1>0, <4>5 DEF Parts, Queues
                <5>2. Balanced(toHost'[p], fromHost'[p], d, a, lost'[p])
                    BY <2>1, <4>1, <4>2, <4>3, <5>1, Dropped
                <5> QED BY <2>2, <3>2, <5>2 DEF Line, a, d
            <4> QED BY <2>1, <4>4, <4>5
        <3> QED BY <3>1, <3>2
    <2> QED BY <2>3, <2>4
<1>5. ASSUME NEW p \in Ports, save_host_data(p) PROVE A /\ B
    <2> DEFINE v == Head(toHost[p])
    <2>1. toHost[p] # <<>> /\ toHost' = [toHost EXCEPT ![p] = Tail(@)]
          /\ UNCHANGED <<lwrite_data_cycle1, lwrite_data_cycle2, lwstate, fromHost, lost>>
        BY <1>5 DEF save_host_data, sender
    <2>2. \/ /\ v.flag = 0
             /\ lread_data_cycle1' = [lread_data_cycle1 EXCEPT ![p] = Append(@, v.data)]
             /\ lread_data_cycle2' = lread_data_cycle2
          \/ /\ v.flag = 1
             /\ lread_data_cycle2' = [lread_data_cycle2 EXCEPT ![p] = Append(@, v.data)]
             /\ lread_data_cycle1' = lread_data_cycle1
        BY <1>5 DEF save_host_data
    <2>3. v.data \in Nat
        <3>1. v \in Half
            BY <1>0, <2>1, Front DEF Parts, Queues
        <3> QED BY <3>1 DEF Half
    <2> HIDE DEF v
    <2>4. A
        BY <1>0, <2>1
    <2>5. ASSUME NEW x \in Ports PROVE Line(x)'
        <3>1. CASE x # p
            <4>1. /\ toHost'[x] = toHost[x] /\ lread_data_cycle1'[x] = lread_data_cycle1[x]
                  /\ lread_data_cycle2'[x] = lread_data_cycle2[x]
                BY <1>0, <2>1, <2>2, <3>1 DEF Parts, Queues
            <4> QED BY <1>0, <2>1, <4>1, LineStays
        <3>2. CASE x = p
            <4> DEFINE a == Ahead(lwrite_data_cycle1, lwrite_data_cycle2, p)
                       d == Len(lread_data_cycle1[p]) - Len(lread_data_cycle2[p])
                       m == Len(lread_data_cycle1[p])
                       n == Len(lread_data_cycle2[p])
            <4>1. toHost'[p] = Tail(toHost[p])
                BY <1>0, <2>1 DEF Parts, Queues
            <4>2. Balanced(toHost[p], fromHost[p], d, a, lost[p])
                BY <1>0 DEF Line
            <4>3. /\ toHost[p] \in Seq(Half) /\ fromHost[p] \in Seq(Half) /\ d \in Int
                  /\ lost[p] \in Nat /\ a \in Int /\ m \in Nat /\ n \in Nat
                BY <1>0, OfOnePort
            <4>4. d = m - n
                OBVIOUS
            <4>5. Len(lread_data_cycle1'[p]) - Len(lread_data_cycle2'[p]) = d + SignOf(v)
                <5>1. /\ Len(Append(lread_data_cycle1[p], v.data)) = m + 1
                      /\ Len(Append(lread_data_cycle2[p], v.data)) = n + 1
                    BY <1>0, <2>3 DEF Parts, Queues
                <5>2. CASE /\ v.flag = 0
                           /\ lread_data_cycle1' = [lread_data_cycle1 EXCEPT ![p] = Append(@, v.data)]
                           /\ lread_data_cycle2' = lread_data_cycle2
                    <6>1. Len(lread_data_cycle1'[p]) = m + 1 /\ Len(lread_data_cycle2'[p]) = n
                        BY <1>0, <5>1, <5>2 DEF Parts, Queues
                    <6>2. SignOf(v) = 1
                        BY <5>2 DEF SignOf
                    <6> HIDE DEF m, n, d
                    <6>3. (m + 1) - n = d + 1
                        BY <4>3, <4>4
                    <6> QED BY <6>1, <6>2, <6>3
                <5>3. CASE /\ v.flag = 1
                           /\ lread_data_cycle2' = [lread_data_cycle2 EXCEPT ![p] = Append(@, v.data)]
                           /\ lread_data_cycle1' = lread_data_cycle1
                    <6>1. Len(lread_data_cycle1'[p]) = m /\ Len(lread_data_cycle2'[p]) = n + 1
                        BY <1>0, <5>1, <5>3 DEF Parts, Queues
                    <6>2. SignOf(v) = -1
                        BY <5>3 DEF SignOf
                    <6> HIDE DEF m, n, d
                    <6>3. m - (n + 1) = d + (-1)
                        BY <4>3, <4>4
                    <6> QED BY <6>1, <6>2, <6>3
                <5> QED BY <2>2, <5>2, <5>3
            <4> HIDE DEF a, d, m, n
            <4>6. Balanced(toHost'[p], fromHost'[p], d + SignOf(v), a, lost'[p])
                BY <2>1, <4>1, <4>2, <4>3, Taken DEF v
            <4> QED BY <2>1, <3>2, <4>5, <4>6 DEF Line, a
        <3> QED BY <3>1, <3>2
    <2> QED BY <2>4, <2>5
<1>6. ASSUME NEW p \in Ports, dtp_logger_read_cnt(p) PROVE A /\ B
    <2>1. /\ lread_data_cycle1[p] # <<>> /\ lread_data_cycle2[p] # <<>>
          /\ lread_data_cycle1' = [lread_data_cycle1 EXCEPT ![p] = Tail(@)]
          /\ lread_data_cycle2' = [lread_data_cycle2 EXCEPT ![p] = Tail(@)]
          /\ UNCHANGED <<lwrite_data_cycle1, lwrite_data_cycle2, lwstate, fromHost, toHost, lost>>
        BY <1>6 DEF dtp_logger_read_cnt, sender
    <2>2. ASSUME NEW x \in Ports PROVE Line(x)'
        <3> DEFINE m == Len(lread_data_cycle1[x])
                   n == Len(lread_data_cycle2[x])
                   k == Len(lread_data_cycle1'[x])
                   l == Len(lread_data_cycle2'[x])
        <3>1. m \in Nat /\ n \in Nat
            BY <1>0, OfOnePort
        <3>2. \/ k = m /\ l = n
              \/ k = m - 1 /\ l = n - 1
            <4>1. CASE x # p
                BY <1>0, <2>1, <4>1 DEF Parts, Queues
            <4>2. CASE x = p
                <5>1. /\ lread_data_cycle1'[x] = Tail(lread_data_cycle1[x])
                      /\ lread_data_cycle2'[x] = Tail(lread_data_cycle2[x])
                      /\ lread_data_cycle1[x] \in Seq(Nat) /\ lread_data_cycle2[x] \in Seq(Nat)
                    BY <1>0, <2>1, <4>2 DEF Parts, Queues
                <5> QED BY <2>1, <4>2, <5>1, Front
            <4> QED BY <4>1, <4>2
        <3>3. Balanced(toHost[x], fromHost[x], m - n,
                       Ahead(lwrite_data_cycle1, lwrite_data_cycle2, x), lost[x])
            BY <1>0 DEF Line
        <3> HIDE DEF k, l, m, n
        <3>4. k - l = m - n
            BY <3>1, <3>2
        <3> QED BY <2>1, <3>3, <3>4 DEF Line, k, l
    <2> QED BY <1>0, <2>1, <2>2
<1>7. CASE dtp_reset_sender
    <2>1. /\ lwrite_data_cycle1' = <<>> /\ lwrite_data_cycle2' = <<>>
          /\ fromHost' = [p \in Ports |-> <<>>]
          /\ lost' = [p \in Ports |-> lost[p] + HalvesOf(lwrite_data_cycle1, p)
                                + HalvesOf(lwrite_data_cycle2, p) + Len(fromHost[p])]
          /\ UNCHANGED <<toHost, lread_data_cycle1, lread_data_cycle2>>
        BY <1>7 DEF dtp_reset_sender, receiver
    <2>2. A
        BY <2>1 DEF Aligned
    <2>3. ASSUME NEW x \in Ports PROVE Line(x)'
        <3> DEFINE a == Ahead(lwrite_data_cycle1, lwrite_data_cycle2, x)
                   d == Len(lread_data_cycle1[x]) - Len(lread_data_cycle2[x])
                   i == HalvesOf(lwrite_data_cycle1, x)
                   j == HalvesOf(lwrite_data_cycle2, x)
                   c == i + j
                   L == lost[x] + i + j + Len(fromHost[x])
        <3>1. /\ toHost[x] \in Seq(Half) /\ fromHost[x] \in Seq(Half) /\ d \in Int
              /\ lost[x] \in Nat /\ a \in Int
            BY <1>0, OfOnePort
        <3>2. i \in Nat /\ j \in Nat /\ Within(a, c)
            BY <1>0, HalvesCount, AheadBound DEF Parts
        <3>3. Balanced(toHost[x], fromHost[x], d, a, lost[x])
            BY <1>0 DEF Line
        <3>4. lost'[x] = L /\ fromHost'[x] = <<>>
            BY <2>1
        <3>5. Ahead(lwrite_data_cycle1', lwrite_data_cycle2', x) = 0
            BY <2>1 DEF Ahead
        <3> HIDE DEF a, d, i, j
        <3>6. c \in Nat /\ L \in Nat /\ lost[x] + c + Len(fromHost[x]) <= L
            <4>1. Len(fromHost[x]) \in Nat
                BY <3>1
            <4> QED BY <3>1, <3>2, <4>1, SMTT(20)
        <3> HIDE DEF c, L
        <3>7. Balanced(toHost[x], <<>>, d, 0, L)
            BY <3>1, <3>2, <3>3, <3>6, SenderCleared
        <3> QED BY <2>1, <3>4, <3>5, <3>7 DEF Line, d
    <2> QED BY <2>2, <2>3
<1>8. CASE dtp_reset_receiver
    <2>1. PICK k \in [Ports -> 0 .. PhyDepth] :
            /\ \A p \in Ports : k[p] <= Len(toHost[p])
            /\ toHost' = [p \in Ports |-> SubSeq(toHost[p], 1, Len(toHost[p]) - k[p])]
            /\ lread_data_cycle1' = [p \in Ports |-> <<>>]
            /\ lread_data_cycle2' = [p \in Ports |-> <<>>]
            /\ lost' = [p \in Ports |-> lost[p] + Len(lread_data_cycle1[p])
                                        + Len(lread_data_cycle2[p]) + k[p]]
            /\ UNCHANGED <<sender, fromHost>>
        BY <1>8 DEF dtp_reset_receiver
    <2>2. UNCHANGED <<lwrite_data_cycle1, lwrite_data_cycle2, lwstate, fromHost>>
        BY <2>1 DEF sender
    <2>3. A
        BY <1>0, <2>2
    <2>4. ASSUME NEW x \in Ports PROVE Line(x)'
        <3> DEFINE a == Ahead(lwrite_data_cycle1, lwrite_data_cycle2, x)
                   i == Len(lread_data_cycle1[x])
                   j == Len(lread_data_cycle2[x])
                   d == i - j
                   m == k[x]
                   c == i + j
                   L == lost[x] + i + j + m
        <3>1. /\ toHost[x] \in Seq(Half) /\ fromHost[x] \in Seq(Half)
              /\ lost[x] \in Nat /\ a \in Int /\ i \in Nat /\ j \in Nat
            BY <1>0, OfOnePort
        <3>2. m \in Nat /\ m <= Len(toHost[x])
            <4>1. m \in 0 .. PhyDepth /\ PhyDepth \in Nat
                BY <2>1, LoggerAssumption
            <4> QED BY <2>1, <4>1
        <3>3. Balanced(toHost[x], fromHost[x], d, a, lost[x])
            BY <1>0 DEF Line
        <3>4. lost'[x] = L /\ toHost'[x] = SubSeq(toHost[x], 1, Len(toHost[x]) - m)
            BY <2>1
        <3>5. Len(lread_data_cycle1'[x]) - Len(lread_data_cycle2'[x]) = 0
            BY <2>1
        <3> HIDE DEF a, i, j, m
        <3>6. d \in Int /\ c \in Nat /\ L \in Nat /\ lost[x] + c + m <= L /\ Within(d, c)
            <4> DEFINE z == lost[x]
            <4>1. /\ z \in Nat /\ i \in Nat /\ j \in Nat /\ m \in Nat
                  /\ d = i - j /\ c = i + j /\ L = z + i + j + m
                BY <3>1, <3>2
            <4> HIDE DEF z, d, c, L
            <4>2. d \in Int /\ c \in Nat /\ L \in Nat /\ z + c + m <= L
                BY <4>1
            <4>3. -c <= d /\ d <= c
                BY <4>1
            <4> QED BY <4>2, <4>3 DEF Within, z
        <3> HIDE DEF d, c, L
        <3>7. Balanced(SubSeq(toHost[x], 1, Len(toHost[x]) - m), fromHost[x], 0, a, L)
            BY <3>1, <3>2, <3>3, <3>6, ReceiverCleared
        <3> QED BY <2>2, <3>4, <3>5, <3>7 DEF Line, a
    <2> QED BY <2>3, <2>4
<1>9. CASE UNCHANGED vars
    <2>1. UNCHANGED <<lwrite_data_cycle1, lwrite_data_cycle2, lwstate, fromHost, toHost,
                      lread_data_cycle1, lread_data_cycle2, lost>>
        BY <1>9 DEF vars, sender, receiver
    <2> QED BY <1>0, <2>1, LineStays
<1> QED BY <1>1, <1>2, <1>3, <1>4, <1>5, <1>6, <1>7, <1>8, <1>9 DEF Next

\* The invariant holds when nothing has been written.
LEMMA Start == Init => IInv
<1> SUFFICES ASSUME Init PROVE IInv
    OBVIOUS
<1> USE LoggerAssumption
<1>1. TypeOK
    BY DEF Init, TypeOK
<1>2. Aligned(lwrite_data_cycle1, lwrite_data_cycle2, lwstate)
    BY DEF Init, Aligned
<1>3. ASSUME NEW p \in Ports PROVE Line(p)
    <2>1. /\ toHost[p] = <<>> /\ fromHost[p] = <<>> /\ lost[p] = 0
          /\ Len(lread_data_cycle1[p]) - Len(lread_data_cycle2[p]) = 0
          /\ Ahead(lwrite_data_cycle1, lwrite_data_cycle2, p) = 0
        BY DEF Init, Ahead
    <2>2. Balanced(<<>>, <<>>, 0, 0, 0)
        <3> DEFINE w == [k \in 0 .. 0 |-> 0]
        <3>1. Len(<<>>) + Len(<<>>) = 0 /\ 1 + 0 = 1
            OBVIOUS
        <3>2. Signs(<<>>, <<>>) \in [1 .. 0 -> {1, -1}]
            <4>1. 1 .. Len(<<>>) + Len(<<>>) = {} /\ 1 .. 0 = {}
                BY <3>1
            <4>2. \A k \in 1 .. 0 : Signs(<<>>, <<>>)[k] \in {1, -1}
                BY <4>1
            <4> QED BY <3>1, <4>2 DEF Signs
        <3>3. w \in [0 .. 0 -> Int] /\ w[0] = 0 /\ (\A k \in 0 .. 0 : k = 0) /\ 1 .. 0 = {}
            OBVIOUS
        <3> HIDE DEF w
        <3>4. Walk(w, 0, Signs(<<>>, <<>>), 1)
            BY <3>2, <3>3 DEF Walk
        <3>5. Within(w[0] - 0, 0)
            BY <3>3 DEF Within
        <3> QED BY <3>1, <3>3, <3>4, <3>5 DEF Balanced
    <2> QED BY <2>1, <2>2 DEF Line
<1> QED BY <1>1, <1>2, <1>3 DEF IInv

\* The queues keep their types and bounds and, port by port, their balance.
THEOREM Invariance == Spec => []IInv
<1>1. Init => IInv
    BY Start
<1>2. IInv /\ [Next]_vars => IInv'
    BY Preserved
<1> QED BY <1>1, <1>2, PTL DEF Spec

\* A port jams only behind a difference of the read queues that the bound on
\* the walk allows after as many losses as they are long.
LEMMA JamCounts == IInv => JamNeedsLosses
<1> SUFFICES ASSUME IInv, NEW p \in Ports, Jammed(p) PROVE lost[p] >= ReadDepth
    BY DEF JamNeedsLosses
<1> DEFINE m == Len(lread_data_cycle1[p])
           n == Len(lread_data_cycle2[p])
           d == m - n
           v == Head(toHost[p])
           l == lost[p]
<1>1. Parts /\ Line(p)
    BY TypeParts DEF IInv
<1>2. /\ toHost[p] \in Seq(Half) /\ fromHost[p] \in Seq(Half) /\ d \in Int
      /\ l \in Nat /\ m \in Nat /\ n \in Nat
      /\ Ahead(lwrite_data_cycle1, lwrite_data_cycle2, p) \in Int
    BY <1>1, OfOnePort
<1>3. toHost[p] # <<>>
    BY DEF Jammed
<1>4. Balanced(toHost[p], fromHost[p], d, Ahead(lwrite_data_cycle1, lwrite_data_cycle2, p), l)
    BY <1>1 DEF Line
<1>5. \/ v.flag = 0 /\ m = ReadDepth /\ n = 0
      \/ v.flag = 1 /\ n = ReadDepth /\ m = 0
    BY DEF Jammed
<1>6. SignOf(v) = (IF v.flag = 0 THEN 1 ELSE -1)
    BY DEF SignOf
<1>7. d = m - n /\ ReadDepth \in Nat
    BY LoggerAssumption
<1> HIDE DEF d, m, n, v, l
<1>8. Within(d + SignOf(v), 1 + l)
    BY <1>2, <1>3, <1>4, FirstStep DEF v
<1>9. l >= ReadDepth
    <2>1. CASE v.flag = 0 /\ m = ReadDepth /\ n = 0
        <3>1. SignOf(v) = 1
            BY <1>6, <2>1
        <3>2. d + 1 <= 1 + l /\ d = ReadDepth
            BY <1>7, <1>8, <2>1, <3>1 DEF Within
        <3> QED BY <1>2, <1>7, <3>2
    <2>2. CASE v.flag = 1 /\ n = ReadDepth /\ m = 0
        <3>1. SignOf(v) = -1
            BY <1>6, <2>2
        <3>2. -(1 + l) <= d + (-1) /\ d = -ReadDepth
            BY <1>7, <1>8, <2>2, <3>1 DEF Within
        <3> QED BY <1>2, <1>7, <3>2
    <2> QED BY <1>5, <2>1, <2>2
<1> QED BY <1>9 DEF l

\* save_host_data and dtp_logger_read_cnt wait for each other only after as
\* many halves of the port have been lost as the read queues are long.
THEOREM Jams == Spec => []JamNeedsLosses
<1>1. IInv => JamNeedsLosses
    BY JamCounts
<1> QED BY <1>1, Invariance, PTL

\* The queues of the logger keep their types and bounds.
THEOREM Types == Spec => []TypeOK
<1>1. IInv => TypeOK
    BY DEF IInv
<1> QED BY <1>1, Invariance, PTL

-----------------------------------------------------------------------------
(***************************************************************************)
(* The log refined.  The entries of a queue that belong to one port, or    *)
(* are one kind of half, are listed by position; what the library proves   *)
(* by induction over sequences is proved here from the smallest of a set   *)
(* of natural numbers.                                                     *)
(***************************************************************************)

\* Of the natural numbers in a set one is the smallest.
LEMMA Smallest ==
    ASSUME NEW T, T \subseteq Nat, T # {}
    PROVE  \E m \in T : \A k \in T : m <= k
<1> DEFINE less == OpToRel(<, Nat)
<1>1. \A k, n \in Nat : k < n => <<k, n>> \in less
    BY DEF OpToRel
<1>2. IsWellFoundedOn(less, Nat)
    BY NatLessThanWellFounded
<1> HIDE DEF less
<1>3. PICK x \in T : \A y \in T : ~ (<<y, x>> \in less)
    BY <1>2, WFMin
<1>4. ASSUME NEW k \in T PROVE x <= k
    <2>1. x \in Nat /\ k \in Nat
        OBVIOUS
    <2>2. ~(k < x)
        BY <1>1, <1>3, <2>1
    <2> QED BY <2>1, <2>2
<1> QED BY <1>4

\* A set with 0 and, with every number, the next one has all of them.
LEMMA Upwards ==
    ASSUME NEW T, 0 \in T, \A n \in Nat : n \in T => n + 1 \in T
    PROVE  \A n \in Nat : n \in T
<1> DEFINE R == Nat \ T
<1>1. SUFFICES ASSUME R # {} PROVE FALSE
    OBVIOUS
<1>2. PICK m \in R : \A k \in R : m <= k
    <2>1. R \subseteq Nat
        OBVIOUS
    <2> HIDE DEF R
    <2> QED BY <1>1, <2>1, Smallest
<1>3. m - 1 \in Nat /\ m - 1 \notin R
    BY <1>2
<1> QED BY <1>3

-----------------------------------------------------------------------------
(* Queues and the data at some of their positions.                         *)

\* e lists the n positions of I in ascending order.
Lists(e, n, I) ==
    /\ n \in Nat /\ e \in [1 .. n -> I]
    /\ \A j, k \in 1 .. n : j < k => e[j] < e[k]
    /\ \A i \in I : \E k \in 1 .. n : e[k] = i

\* A list gets longer by a position behind all it has.
LEMMA ListOn ==
    ASSUME NEW N \in Nat, NEW I, I \subseteq 1 .. N, NEW n, NEW e, Lists(e, n, I)
    PROVE  /\ Lists([k \in 1 .. n + 1 |-> IF k <= n THEN e[k] ELSE N + 1], n + 1, I \cup {N + 1})
<1> DEFINE J == I \cup {N + 1}
           f == [k \in 1 .. n + 1 |-> IF k <= n THEN e[k] ELSE N + 1]
<1>1. n \in Nat /\ n + 1 \in Nat /\ e \in [1 .. n -> I]
    BY DEF Lists
<1>2. /\ f \in [1 .. n + 1 -> J] /\ f[n + 1] = N + 1 /\ \A k \in 1 .. n : f[k] = e[k]
      /\ \A k \in 1 .. n + 1 : k \in 1 .. n \/ k = n + 1
    BY <1>1
<1> HIDE DEF f
<1>3. ASSUME NEW j \in 1 .. n + 1, NEW k \in 1 .. n + 1, j < k PROVE f[j] < f[k]
    <2>1. j \in 1 .. n
        BY <1>1, <1>3
    <2>2. CASE k \in 1 .. n
        BY <1>2, <1>3, <2>1, <2>2 DEF Lists
    <2>3. CASE k = n + 1
        <3>1. f[j] = e[j] /\ e[j] \in 1 .. N
            BY <1>1, <1>2, <2>1
        <3> QED BY <1>2, <2>3, <3>1
    <2> QED BY <1>2, <2>2, <2>3
<1>4. ASSUME NEW i \in J PROVE \E k \in 1 .. n + 1 : f[k] = i
    <2>1. CASE i = N + 1
        BY <1>1, <1>2, <2>1
    <2>2. CASE i \in I
        <3>1. PICK k \in 1 .. n : e[k] = i
            BY <2>2 DEF Lists
        <3> QED BY <1>1, <1>2, <3>1
    <2> QED BY <2>1, <2>2
<1>5. Lists(f, n + 1, J)
    BY <1>1, <1>2, <1>3, <1>4 DEF Lists
<1> QED BY <1>5 DEF f

\* Any set of positions has a list.
LEMMA Listed ==
    ASSUME NEW N \in Nat, NEW I, I \subseteq 1 .. N
    PROVE  \E n, e : Lists(e, n, I)
<1> DEFINE T == {m \in Nat : \A K \in SUBSET (1 .. m) : \E n, e : Lists(e, n, K)}
<1>1. 0 \in T
    <2>1. ASSUME NEW K \in SUBSET (1 .. 0) PROVE \E n, e : Lists(e, n, K)
        <3>1. K = {}
            OBVIOUS
        <3>2. Lists([k \in 1 .. 0 |-> 0], 0, K)
            BY <3>1 DEF Lists
        <3> QED BY <3>2
    <2> QED BY <2>1
<1>2. ASSUME NEW m \in Nat, m \in T PROVE m + 1 \in T
    <2>1. ASSUME NEW K \in SUBSET (1 .. m + 1) PROVE \E n, e : Lists(e, n, K)
        <3> DEFINE I0 == K \ {m + 1}
        <3>1. I0 \in SUBSET (1 .. m)
            OBVIOUS
        <3>2. PICK n, e : Lists(e, n, I0)
            BY <1>2, <3>1
        <3>3. CASE m + 1 \in K
            <4>1. K = I0 \cup {m + 1}
                BY <3>3
            <4> HIDE DEF I0
            <4> QED BY <3>1, <3>2, <4>1, ListOn
        <3>4. CASE m + 1 \notin K
            <4>1. K = I0
                BY <3>4
            <4> QED BY <3>2, <4>1
        <3> QED BY <3>3, <3>4
    <2> QED BY <2>1
<1> HIDE DEF T
<1>3. N \in T
    BY <1>1, <1>2, Upwards
<1> QED BY <1>3 DEF T

\* And only one of that length.
LEMMA ListsAgree ==
    ASSUME NEW I, I \subseteq Nat, NEW n, NEW e, NEW f, Lists(e, n, I), Lists(f, n, I)
    PROVE  e = f
<1> DEFINE D == {k \in 1 .. n : e[k] # f[k]}
<1>0. n \in Nat /\ e \in [1 .. n -> I] /\ f \in [1 .. n -> I]
    BY DEF Lists
<1>1. SUFFICES ASSUME D # {} PROVE FALSE
    <2>1. D = {} => \A k \in 1 .. n : e[k] = f[k]
        OBVIOUS
    <2> QED BY <1>0, <2>1
<1>2. PICK m \in D : \A k \in D : m <= k
    <2>1. D \subseteq Nat
        OBVIOUS
    <2> HIDE DEF D
    <2> QED BY <1>1, <2>1, Smallest
<1>3. m \in 1 .. n /\ e[m] # f[m] /\ \A k \in 1 .. n : k < m => e[k] = f[k]
    <2>1. ASSUME NEW k \in 1 .. n, k < m PROVE e[k] = f[k]
        BY <1>2, <2>1
    <2> QED BY <1>2, <2>1
<1>4. ASSUME NEW g, NEW h, Lists(g, n, I), Lists(h, n, I), g[m] < h[m],
             \A k \in 1 .. n : k < m => g[k] = h[k]
      PROVE  FALSE
    <2>1. g[m] \in I
        BY <1>3, <1>4 DEF Lists
    <2>2. PICK k \in 1 .. n : h[k] = g[m]
        BY <1>4, <2>1 DEF Lists
    <2>3. h[k] \in Nat /\ h[m] \in Nat /\ g[k] \in Nat
        BY <1>3, <1>4 DEF Lists
    <2>4. CASE k < m
        <3>1. g[k] = h[k] /\ g[k] < g[m]
            BY <1>3, <1>4, <2>4 DEF Lists
        <3> QED BY <2>2, <2>3, <3>1
    <2>5. CASE k = m
        BY <1>4, <2>2, <2>3, <2>5
    <2>6. CASE k > m
        <3>1. h[m] < h[k]
            BY <1>3, <1>4, <2>6 DEF Lists
        <3> QED BY <1>4, <2>2, <2>3, <3>1
    <2> QED BY <1>0, <1>3, <2>4, <2>5, <2>6
<1>5. e[m] \in Nat /\ f[m] \in Nat
    BY <1>0, <1>3
<1>6. e[m] < f[m] \/ f[m] < e[m]
    BY <1>3, <1>5
<1> QED BY <1>3, <1>4, <1>6

\* InOrder gives the list of a set of positions.
LEMMA InOrderLists ==
    ASSUME NEW I, I \subseteq Nat, NEW n, NEW e, Lists(e, n, I)
    PROVE  InOrder(I) = e
<1>1. n \in Nat /\ e \in [1 .. n -> I] /\ \A j, k \in 1 .. n : j < k => e[j] < e[k]
    BY DEF Lists
<1>2. ASSUME NEW c, c \in [1 .. n -> I], \A j, k \in 1 .. n : j < k => c[j] < c[k]
      PROVE  c \in Injection(1 .. n, I)
    <2>1. ASSUME NEW j \in 1 .. n, NEW k \in 1 .. n, c[j] = c[k] PROVE j = k
        <3>1. c[j] \in Nat /\ c[k] \in Nat
            BY <1>2
        <3>2. ~(j < k) /\ ~(k < j)
            BY <1>2, <2>1, <3>1
        <3> QED BY <1>1, <3>2
    <2> QED BY <1>2, <2>1 DEF Injection, IsInjective
<1>3. e \in Bijection(1 .. n, I)
    <2>1. e \in Surjection(1 .. n, I)
        BY <1>1 DEF Lists, Surjection
    <2> QED BY <1>1, <1>2, <2>1 DEF Bijection
<1>4. Cardinality(I) = n /\ IsFiniteSet(I)
    BY <1>1, <1>3, FS_CountingElements, FS_NatBijection DEF ExistsBijection
<1> DEFINE Asc(c) == \A j, k \in DOMAIN c : j < k => c[j] < c[k]
           c == InOrder(I)
<1>5. c = CHOOSE x \in [1 .. n -> I] : Asc(x)
    BY <1>4 DEF InOrder
<1>6. e \in [1 .. n -> I] /\ Asc(e)
    BY <1>1
<1> HIDE DEF c
<1>7. c \in [1 .. n -> I] /\ Asc(c)
    <2> HIDE DEF Asc
    <2> QED BY <1>5, <1>6
<1>8. \A j, k \in 1 .. n : j < k => c[j] < c[k]
    BY <1>7
<1>9. c \in Injection(1 .. n, I)
    BY <1>2, <1>7, <1>8
<1>10. IsFiniteSet(1 .. n) /\ Cardinality(1 .. n) = n
    BY <1>1, FS_Interval
<1>11. c \in Surjection(1 .. n, I)
    BY <1>4, <1>9, <1>10, FS_Injection
<1>12. \A i \in I : \E k \in 1 .. n : c[k] = i
    BY <1>11 DEF Surjection
<1>13. Lists(c, n, I)
    BY <1>1, <1>7, <1>8, <1>12 DEF Lists
<1> QED BY <1>13, ListsAgree DEF c

\* The sequence s of the data that q has at the n positions of the list e.
HasDataOf(s, q, n, e) ==
    /\ DOMAIN s = 1 .. n /\ s = [k \in 1 .. n |-> s[k]]
    /\ \A k \in 1 .. n : s[k] = q[e[k]].data

\* It is what DataAt gives.
LEMMA DataListed ==
    ASSUME NEW q, NEW N \in Nat, NEW I, I \subseteq 1 .. N, NEW n, NEW e, Lists(e, n, I)
    PROVE  HasDataOf(DataAt(q, I), q, n, e)
<1>1. InOrder(I) = e
    <2>1. I \subseteq Nat
        OBVIOUS
    <2> QED BY <2>1, InOrderLists
<1>2. DOMAIN e = 1 .. n
    BY DEF Lists
<1>3. DataAt(q, I) = [k \in 1 .. n |-> q[e[k]].data]
    BY <1>1, <1>2 DEF DataAt
<1> QED BY <1>3 DEF HasDataOf

\* An equal queue has equal data, if they are numbers it is a sequence of numbers.
LEMMA DataSame ==
    ASSUME NEW N \in Nat, NEW I, I \subseteq 1 .. N, NEW q, NEW r, \A i \in I : r[i].data = q[i].data
    PROVE  DataAt(r, I) = DataAt(q, I)
<1>1. PICK n, e : Lists(e, n, I)
    BY Listed
<1> DEFINE s == DataAt(q, I)
           t == DataAt(r, I)
<1>2. s = [k \in 1 .. n |-> s[k]] /\ \A k \in 1 .. n : s[k] = q[e[k]].data
    <2>1. HasDataOf(s, q, n, e)
        BY <1>1, DataListed
    <2> QED BY <2>1 DEF HasDataOf
<1>3. t = [k \in 1 .. n |-> t[k]] /\ \A k \in 1 .. n : t[k] = r[e[k]].data
    <2>1. HasDataOf(t, r, n, e)
        BY <1>1, DataListed
    <2> QED BY <2>1 DEF HasDataOf
<1>4. \A k \in 1 .. n : e[k] \in I
    BY <1>1 DEF Lists
<1> HIDE DEF s, t
<1>5. \A k \in 1 .. n : t[k] = s[k]
    BY <1>2, <1>3, <1>4
<1>6. t = s
    BY <1>2, <1>3, <1>5
<1> QED BY <1>6 DEF s, t

LEMMA DataType ==
    ASSUME NEW N \in Nat, NEW I, I \subseteq 1 .. N, NEW q, \A i \in I : q[i].data \in Nat
    PROVE  DataAt(q, I) \in Seq(Nat)
<1>1. PICK n, e : Lists(e, n, I)
    BY Listed
<1>2. DataAt(q, I) = [k \in 1 .. n |-> q[e[k]].data]
    <2>1. HasDataOf(DataAt(q, I), q, n, e)
        BY <1>1, DataListed
    <2> QED BY <2>1 DEF HasDataOf
<1>3. n \in Nat /\ \A k \in 1 .. n : e[k] \in I
    BY <1>1 DEF Lists
<1>4. DataAt(q, I) \in [1 .. n -> Nat]
    BY <1>2, <1>3
<1> QED BY <1>3, <1>4, SeqDef

LEMMA DataNone == \A q : DataAt(q, {}) = <<>>
<1> TAKE q
<1> DEFINE e == [k \in 1 .. 0 |-> 0]
           s == DataAt(q, {})
<1>1. Lists(e, 0, {})
    BY DEF Lists
<1> HIDE DEF e
<1>2. HasDataOf(s, q, 0, e)
    BY <1>1, DataListed
<1> HIDE DEF s
<1>3. s = [k \in 1 .. 0 |-> s[k]]
    BY <1>2 DEF HasDataOf
<1>4. s = <<>>
    BY <1>3
<1> QED BY <1>4 DEF s

\* One more position, behind the others.
LEMMA DataOn ==
    ASSUME NEW N \in Nat, NEW I, I \subseteq 1 .. N, NEW q, \A i \in I : q[i].data \in Nat,
           NEW r, \A i \in I : r[i].data = q[i].data, r[N + 1].data \in Nat
    PROVE  DataAt(r, I \cup {N + 1}) = Append(DataAt(q, I), r[N + 1].data)
<1>1. PICK n, e : Lists(e, n, I)
    BY Listed
<1> DEFINE J == I \cup {N + 1}
           f == [k \in 1 .. n + 1 |-> IF k <= n THEN e[k] ELSE N + 1]
           s == DataAt(q, I)
           t == DataAt(r, J)
           x == r[N + 1].data
<1>2. Lists(f, n + 1, J)
    BY <1>1, ListOn
<1>3. n \in Nat /\ \A k \in 1 .. n : e[k] \in I
    BY <1>1 DEF Lists
<1>4. /\ f[n + 1] = N + 1 /\ \A k \in 1 .. n : f[k] = e[k]
      /\ \A k \in 1 .. n + 1 : k \in 1 .. n \/ k = n + 1
    BY <1>3
<1> HIDE DEF f
<1>5. DOMAIN s = 1 .. n /\ \A k \in 1 .. n : s[k] = q[e[k]].data
    <2>1. HasDataOf(s, q, n, e)
        BY <1>1, DataListed
    <2> QED BY <2>1 DEF HasDataOf
<1>6. /\ DOMAIN t = 1 .. n + 1 /\ t = [k \in 1 .. n + 1 |-> t[k]]
      /\ \A k \in 1 .. n + 1 : t[k] = r[f[k]].data
    <2>1. J \subseteq 1 .. N + 1 /\ N + 1 \in Nat
        OBVIOUS
    <2> HIDE DEF J
    <2>2. HasDataOf(t, r, n + 1, f)
        BY <1>2, <2>1, DataListed
    <2> QED BY <2>2 DEF HasDataOf
<1>7. s \in Seq(Nat) /\ Len(s) = n /\ x \in Nat
    <2>1. s \in Seq(Nat)
        BY DataType
    <2> HIDE DEF s
    <2> QED BY <1>3, <1>5, <2>1
<1>9. t[n + 1] = x /\ \A k \in 1 .. n : t[k] = s[k]
    <2>1. n + 1 \in 1 .. n + 1 /\ \A k \in 1 .. n : k \in 1 .. n + 1
        BY <1>3
    <2>2. t[n + 1] = x
        BY <1>4, <1>6, <2>1
    <2>3. ASSUME NEW k \in 1 .. n PROVE t[k] = s[k]
        <3>1. t[k] = r[e[k]].data /\ e[k] \in I
            BY <1>3, <1>4, <1>6, <2>1
        <3> QED BY <1>5, <3>1
    <2> QED BY <2>2, <2>3
<1> HIDE DEF s, t, x, J
<1>11. t \in [1 .. n + 1 -> Nat]
    <2>1. \A k \in 1 .. n : s[k] \in Nat
        BY <1>7
    <2>2. \A k \in 1 .. n + 1 : t[k] \in Nat
        BY <1>4, <1>7, <1>9, <2>1
    <2> QED BY <1>6, <2>2
<1>12. t \in Seq(Nat) /\ Len(t) = n + 1
    <2>1. n + 1 \in Nat
        BY <1>3
    <2>2. t \in Seq(Nat)
        BY <1>11, <2>1, SeqDef
    <2> QED BY <1>6, <2>1, <2>2
<1>13. /\ Append(s, x) \in Seq(Nat) /\ Len(Append(s, x)) = n + 1 /\ Append(s, x)[n + 1] = x
       /\ \A k \in 1 .. n : Append(s, x)[k] = s[k]
    BY <1>7, AppendProperties
<1>14. \A k \in 1 .. n + 1 : t[k] = Append(s, x)[k]
    BY <1>4, <1>9, <1>13
<1> QED BY <1>12, <1>13, <1>14, SeqEqual DEF s, t, x, J

\* r is q without its first entry, and J are the places in r of the positions I.
Moved(N, I, J, q, r) ==
    /\ N \in Nat /\ I \subseteq 1 .. N + 1 /\ J = {i \in 1 .. N : i + 1 \in I}
    /\ \A i \in I : q[i].data \in Nat
    /\ \A i \in 1 .. N : r[i] = q[i + 1]

\* The positions of a queue that has lost its first entry.
LEMMA DataLater ==
    ASSUME NEW N, NEW I, NEW J, NEW q, NEW r, Moved(N, I, J, q, r)
    PROVE  /\ 1 \notin I => DataAt(r, J) = DataAt(q, I)
           /\ 1 \in I => /\ DataAt(q, I) # <<>> /\ Head(DataAt(q, I)) = q[1].data
                         /\ DataAt(r, J) = Tail(DataAt(q, I))
<1> DEFINE s == DataAt(q, I)
           t == DataAt(r, J)
<1>a. /\ N \in Nat /\ I \subseteq 1 .. N + 1 /\ J = {i \in 1 .. N : i + 1 \in I}
      /\ \A i \in I : q[i].data \in Nat
      /\ \A i \in 1 .. N : r[i] = q[i + 1]
    BY DEF Moved
<1>0. N + 1 \in Nat
    BY <1>a
<1>1. PICK n, e : Lists(e, n, I)
    BY <1>a, <1>0, Listed
<1>2. /\ n \in Nat /\ e \in [1 .. n -> I] /\ \A j, k \in 1 .. n : j < k => e[j] < e[k]
      /\ \A i \in I : \E k \in 1 .. n : e[k] = i
    BY <1>1 DEF Lists
<1>3. /\ DOMAIN s = 1 .. n /\ s = [k \in 1 .. n |-> s[k]]
      /\ \A k \in 1 .. n : s[k] = q[e[k]].data
    <2>1. HasDataOf(s, q, n, e)
        BY <1>a, <1>0, <1>1, DataListed
    <2> QED BY <2>1 DEF HasDataOf
<1>4. s \in Seq(Nat) /\ Len(s) = n
    <2>1. s \in Seq(Nat)
        BY <1>a, <1>0, DataType
    <2> HIDE DEF s
    <2> QED BY <1>2, <1>3, <2>1
<1>5. \A i \in J : i \in 1 .. N /\ i + 1 \in I /\ r[i] = q[i + 1]
    BY <1>a
<1>6. \A i \in I : i \in Nat /\ (i # 1 => i - 1 \in J /\ (i - 1) + 1 = i)
    BY <1>a
<1>7. N \in Nat /\ J \subseteq 1 .. N
    BY <1>a
<1> HIDE DEF s
<1>8. ASSUME 1 \notin I PROVE t = s
    <2> DEFINE f == [k \in 1 .. n |-> e[k] - 1]
    <2>1. \A k \in 1 .. n : e[k] \in I /\ e[k] \in Nat /\ f[k] = e[k] - 1 /\ f[k] \in J
        BY <1>2, <1>6, <1>8
    <2>2. f \in [1 .. n -> J]
        BY <2>1
    <2> HIDE DEF f
    <2>3. \A j, k \in 1 .. n : j < k => f[j] < f[k]
        BY <1>2, <2>1
    <2>4. ASSUME NEW i \in J PROVE \E k \in 1 .. n : f[k] = i
        <3>1. PICK k \in 1 .. n : e[k] = i + 1
            BY <1>2, <1>5
        <3>2. i \in 1 .. N
            BY <1>7
        <3> QED BY <2>1, <3>1, <3>2
    <2>5. Lists(f, n, J)
        BY <1>2, <2>2, <2>3, <2>4 DEF Lists
    <2>6. t = [k \in 1 .. n |-> t[k]] /\ \A k \in 1 .. n : t[k] = r[f[k]].data
        <3>1. HasDataOf(t, r, n, f)
            BY <1>7, <2>5, DataListed
        <3> QED BY <3>1 DEF HasDataOf
    <2>7. ASSUME NEW k \in 1 .. n PROVE t[k] = s[k]
        <3>1. r[f[k]] = q[f[k] + 1] /\ f[k] + 1 = e[k]
            BY <1>5, <2>1
        <3> QED BY <1>3, <2>6, <3>1
    <2> HIDE DEF t
    <2> QED BY <1>3, <2>6, <2>7
<1>9. ASSUME 1 \in I PROVE s # <<>> /\ Head(s) = q[1].data /\ t = Tail(s)
    <2>1. PICK m \in 1 .. n : e[m] = 1
        BY <1>2, <1>9
    <2>2. m = 1
        <3>1. ASSUME 1 < m PROVE FALSE
            <4>1. 1 \in 1 .. n /\ e[1] \in I
                BY <1>2, <3>1
            <4>2. e[1] < e[m] /\ e[1] \in 1 .. N + 1
                BY <1>a, <1>2, <3>1, <4>1
            <4> QED BY <2>1, <4>2
        <3> QED BY <3>1
    <2>3. n >= 1 /\ e[1] = 1 /\ 1 \in 1 .. n
        BY <2>1, <2>2
    <2>4. s[1] = q[1].data
        BY <1>3, <2>3
    <2>5. s # <<>> /\ Head(s) = s[1]
        BY <1>4, <2>3
    <2> DEFINE f == [k \in 1 .. n - 1 |-> e[k + 1] - 1]
    <2>6. ASSUME NEW k \in 1 .. n - 1
          PROVE  /\ k + 1 \in 1 .. n /\ e[k + 1] \in I /\ e[k + 1] \in Nat
                 /\ f[k] = e[k + 1] - 1 /\ f[k] \in J
        <3>1. k + 1 \in 1 .. n /\ 1 < k + 1
            BY <1>2
        <3>2. e[k + 1] \in I /\ e[1] < e[k + 1]
            BY <1>2, <2>3, <3>1
        <3>3. e[k + 1] \in Nat /\ e[k + 1] # 1
            <4>1. e[k + 1] \in Nat
                BY <1>6, <3>2
            <4>2. 1 < e[k + 1]
                BY <2>3, <3>2
            <4> QED BY <4>1, <4>2
        <3> QED BY <1>6, <3>1, <3>2, <3>3
    <2>7. f \in [1 .. n - 1 -> J]
        BY <2>6
    <2> HIDE DEF f
    <2>8. ASSUME NEW j \in 1 .. n - 1, NEW k \in 1 .. n - 1, j < k PROVE f[j] < f[k]
        <3>1. j + 1 \in 1 .. n /\ k + 1 \in 1 .. n /\ j + 1 < k + 1
            BY <1>2, <2>8
        <3>2. e[j + 1] < e[k + 1]
            BY <1>2, <3>1
        <3> QED BY <2>6, <3>2
    <2>9. ASSUME NEW i \in J PROVE \E k \in 1 .. n - 1 : f[k] = i
        <3>1. PICK k \in 1 .. n : e[k] = i + 1
            BY <1>2, <1>5
        <3>2. i \in 1 .. N
            BY <1>5
        <3>3. k # 1
            BY <2>3, <3>1, <3>2
        <3>4. k - 1 \in 1 .. n - 1 /\ (k - 1) + 1 = k
            BY <1>2, <3>3
        <3>5. f[k - 1] = i
            BY <2>6, <3>1, <3>2, <3>4
        <3> QED BY <3>4, <3>5
    <2>10. Lists(f, n - 1, J)
        BY <1>2, <2>3, <2>7, <2>8, <2>9 DEF Lists
    <2>11. t = [k \in 1 .. n - 1 |-> t[k]] /\ \A k \in 1 .. n - 1 : t[k] = r[f[k]].data
        <3>1. HasDataOf(t, r, n - 1, f)
            BY <1>7, <2>10, DataListed
        <3> QED BY <3>1 DEF HasDataOf
    <2>12. ASSUME NEW k \in 1 .. n - 1 PROVE t[k] = s[k + 1]
        <3>1. r[f[k]] = q[f[k] + 1] /\ f[k] + 1 = e[k + 1]
            BY <1>5, <2>6
        <3> QED BY <1>3, <2>6, <2>11, <3>1
    <2>13. /\ Tail(s) \in Seq(Nat) /\ Len(Tail(s)) = n - 1
           /\ \A k \in 1 .. n - 1 : Tail(s)[k] = s[k + 1]
        BY <1>4, <2>5, HeadTailProperties
    <2>14. Tail(s) = [k \in 1 .. n - 1 |-> Tail(s)[k]]
        BY <2>13, LenProperties
    <2>15. \A k \in 1 .. n - 1 : t[k] = Tail(s)[k]
        BY <2>12, <2>13
    <2> HIDE DEF t
    <2> QED BY <2>4, <2>5, <2>11, <2>14, <2>15
<1> QED BY <1>8, <1>9 DEF s, t

\* The data of the entries of a queue that are in K.
Chosen(q, K) == DataAt(q, {k \in DOMAIN q : q[k] \in K})

\* The entries of S have numbers as data.
Numbered(S) == \A v \in S : v.data \in Nat

LEMMA ChosenType ==
    ASSUME NEW S, Numbered(S), NEW q \in Seq(S), NEW K
    PROVE  Chosen(q, K) \in Seq(Nat)
<1> DEFINE I == {k \in DOMAIN q : q[k] \in K}
<1>1. Len(q) \in Nat /\ DOMAIN q = 1 .. Len(q) /\ \A k \in 1 .. Len(q) : q[k] \in S
    BY LenProperties, ElementOfSeq
<1>2. I \subseteq 1 .. Len(q) /\ \A i \in I : q[i].data \in Nat
    BY <1>1 DEF Numbered
<1> HIDE DEF I
<1>3. DataAt(q, I) \in Seq(Nat)
    BY <1>1, <1>2, DataType
<1> QED BY <1>3 DEF Chosen, I

\* An entry is added at the end.
LEMMA ChosenAppend ==
    ASSUME NEW S, Numbered(S), NEW q \in Seq(S), NEW K, NEW v \in S
    PROVE  Chosen(Append(q, v), K) = IF v \in K THEN Append(Chosen(q, K), v.data) ELSE Chosen(q, K)
<1> DEFINE I == {k \in DOMAIN q : q[k] \in K}
           r == Append(q, v)
           J == {k \in DOMAIN r : r[k] \in K}
           N == Len(q)
<1>1. N \in Nat /\ DOMAIN q = 1 .. N /\ \A k \in 1 .. N : q[k] \in S
    BY LenProperties, ElementOfSeq
<1>2. /\ DOMAIN r = 1 .. N + 1 /\ r[N + 1] = v /\ \A k \in 1 .. N : r[k] = q[k]
    BY AppendProperties, LenProperties
<1>3. I \subseteq 1 .. N /\ \A i \in I : q[i].data \in Nat /\ r[i].data = q[i].data
    BY <1>1, <1>2 DEF Numbered
<1>4. J = IF v \in K THEN I \cup {N + 1} ELSE I
    <2>1. \A k \in 1 .. N + 1 : k \in 1 .. N \/ k = N + 1
        BY <1>1
    <2>2. \A k \in 1 .. N : k \in 1 .. N + 1
        BY <1>1
    <2>3. N + 1 \in 1 .. N + 1 /\ N + 1 \notin 1 .. N
        BY <1>1
    <2> QED BY <1>1, <1>2, <2>1, <2>2, <2>3
<1>5. v.data \in Nat
    BY DEF Numbered
<1> HIDE DEF I, J, r, N
<1>6. CASE v \in K
    <2>1. r[N + 1].data \in Nat
        BY <1>2, <1>5
    <2>2. /\ N \in Nat /\ I \subseteq 1 .. N
          /\ \A i \in I : q[i].data \in Nat
          /\ \A i \in I : r[i].data = q[i].data
        BY <1>1, <1>3
    <2>3. DataAt(r, I \cup {N + 1}) = Append(DataAt(q, I), r[N + 1].data)
        BY <2>1, <2>2, DataOn
    <2> QED BY <1>2, <1>4, <1>6, <2>3 DEF Chosen, I, J, r
<1>7. CASE v \notin K
    <2>1. DataAt(r, I) = DataAt(q, I)
        BY <1>1, <1>3, DataSame
    <2> QED BY <1>4, <1>7, <2>1 DEF Chosen, I, J, r
<1> QED BY <1>6, <1>7

\* The first entry is taken.
LEMMA ChosenTail ==
    ASSUME NEW S, Numbered(S), NEW q \in Seq(S), NEW K, q # <<>>
    PROVE  /\ Head(q) \in K => /\ Chosen(q, K) # <<>> /\ Head(Chosen(q, K)) = Head(q).data
                               /\ Chosen(Tail(q), K) = Tail(Chosen(q, K))
           /\ Head(q) \notin K => Chosen(Tail(q), K) = Chosen(q, K)
<1> DEFINE I == {k \in DOMAIN q : q[k] \in K}
           r == Tail(q)
           J == {k \in DOMAIN r : r[k] \in K}
           N == Len(q) - 1
<1>1. N \in Nat /\ DOMAIN q = 1 .. N + 1 /\ \A k \in 1 .. N + 1 : q[k] \in S
    <2>1. Len(q) \in Nat /\ Len(q) > 0 /\ DOMAIN q = 1 .. Len(q) /\ \A k \in 1 .. Len(q) : q[k] \in S
        BY Front, LenProperties, ElementOfSeq
    <2>2. N \in Nat /\ Len(q) = N + 1
        BY <2>1
    <2> QED BY <2>1, <2>2
<1>2. DOMAIN r = 1 .. N /\ (\A k \in 1 .. N : r[k] = q[k + 1]) /\ Head(q) = q[1]
    <2>1. r \in Seq(S) /\ Len(r) = N
        BY Front
    <2> QED BY <2>1, Front, LenProperties
<1>3. I \subseteq 1 .. N + 1 /\ \A i \in I : q[i].data \in Nat
    BY <1>1 DEF Numbered
<1>4. J = {i \in 1 .. N : i + 1 \in I}
    <2>1. \A i \in 1 .. N : i + 1 \in 1 .. N + 1
        BY <1>1
    <2> QED BY <1>1, <1>2, <2>1
<1>5. 1 \in I <=> Head(q) \in K
    BY <1>1, <1>2
<1> HIDE DEF I, J, r, N
<1>6. /\ 1 \notin I => DataAt(r, J) = DataAt(q, I)
      /\ 1 \in I => /\ DataAt(q, I) # <<>> /\ Head(DataAt(q, I)) = q[1].data
                    /\ DataAt(r, J) = Tail(DataAt(q, I))
    <2>1. Moved(N, I, J, q, r)
        BY <1>1, <1>2, <1>3, <1>4 DEF Moved
    <2> QED BY <2>1, DataLater
<1> QED BY <1>2, <1>5, <1>6 DEF Chosen, I, J, r

\* No entry is chosen.
LEMMA ChosenNone ==
    ASSUME NEW q, NEW K, \A k \in DOMAIN q : q[k] \notin K
    PROVE  Chosen(q, K) = <<>>
<1>1. {k \in DOMAIN q : q[k] \in K} = {}
    OBVIOUS
<1> QED BY <1>1, DataNone DEF Chosen

-----------------------------------------------------------------------------
(* The halves of a port on their way.                                      *)

Kind(flag) == {h \in Half : h.flag = flag}
At(p) == {b \in BufData : b.port_no = p}

LEMMA KindChosen == \A q \in Seq(Half) : \A flag : Halves(q, flag) = Chosen(q, Kind(flag))
<1> TAKE q \in Seq(Half)
<1> TAKE flag
<1>1. \A k \in DOMAIN q : q[k] \in Half
    BY LenProperties, ElementOfSeq
<1>2. {k \in DOMAIN q : q[k].flag = flag} = {k \in DOMAIN q : q[k] \in Kind(flag)}
    BY <1>1 DEF Kind
<1> QED BY <1>2 DEF Halves, Chosen

LEMMA PortChosen == \A q \in Seq(BufData) : \A p : OfPort(q, p) = Chosen(q, At(p))
<1> TAKE q \in Seq(BufData)
<1> TAKE p
<1>1. \A k \in DOMAIN q : q[k] \in BufData
    BY LenProperties, ElementOfSeq
<1>2. {k \in DOMAIN q : q[k].port_no = p} = {k \in DOMAIN q : q[k] \in At(p)}
    BY <1>1 DEF At
<1> QED BY <1>2 DEF OfPort, Chosen

LEMMA EntriesNumbered == Numbered(Half) /\ Numbered(BufData)
    BY DEF Numbered, Half, BufData

\* What Halves gives, and how a queue's changes change it.
LEMMA HalvesFacts ==
    ASSUME NEW q \in Seq(Half), NEW flag
    PROVE  /\ Halves(q, flag) \in Seq(Nat)
           /\ \A v \in Half : Halves(Append(q, v), flag) =
                  IF v.flag = flag THEN Append(Halves(q, flag), v.data) ELSE Halves(q, flag)
           /\ q # <<>> /\ Head(q).flag = flag =>
                  /\ Halves(q, flag) # <<>> /\ Head(Halves(q, flag)) = Head(q).data
                  /\ Halves(Tail(q), flag) = Tail(Halves(q, flag))
           /\ q # <<>> /\ Head(q).flag # flag => Halves(Tail(q), flag) = Halves(q, flag)
           /\ q = <<>> => Halves(q, flag) = <<>>
<1> DEFINE K == Kind(flag)
<1>1. Numbered(Half)
    BY EntriesNumbered
<1>2. \A r \in Seq(Half) : Halves(r, flag) = Chosen(r, K)
    BY KindChosen
<1>3. \A v \in Half : v \in K <=> v.flag = flag
    BY DEF Kind
<1> HIDE DEF K
<1>4. Halves(q, flag) \in Seq(Nat)
    BY <1>1, <1>2, ChosenType
<1>5. ASSUME NEW v \in Half
      PROVE  Halves(Append(q, v), flag) =
                  IF v.flag = flag THEN Append(Halves(q, flag), v.data) ELSE Halves(q, flag)
    <2>1. Append(q, v) \in Seq(Half)
        BY AppendProperties
    <2>2. Chosen(Append(q, v), K) = IF v \in K THEN Append(Chosen(q, K), v.data) ELSE Chosen(q, K)
        BY <1>1, ChosenAppend
    <2> QED BY <1>2, <1>3, <2>1, <2>2
<1>6. ASSUME q # <<>>
      PROVE  /\ Head(q).flag = flag =>
                  /\ Halves(q, flag) # <<>> /\ Head(Halves(q, flag)) = Head(q).data
                  /\ Halves(Tail(q), flag) = Tail(Halves(q, flag))
             /\ Head(q).flag # flag => Halves(Tail(q), flag) = Halves(q, flag)
    <2>1. Head(q) \in Half /\ Tail(q) \in Seq(Half)
        BY <1>6, Front
    <2>2. /\ Head(q) \in K => /\ Chosen(q, K) # <<>> /\ Head(Chosen(q, K)) = Head(q).data
                              /\ Chosen(Tail(q), K) = Tail(Chosen(q, K))
          /\ Head(q) \notin K => Chosen(Tail(q), K) = Chosen(q, K)
        BY <1>1, <1>6, ChosenTail
    <2> QED BY <1>2, <1>3, <2>1, <2>2
<1>7. q = <<>> => Halves(q, flag) = <<>>
    <2>1. q = <<>> => \A k \in DOMAIN q : q[k] \notin K
        OBVIOUS
    <2> QED BY <1>2, <2>1, ChosenNone
<1> QED BY <1>4, <1>5, <1>6, <1>7

\* The same of OfPort; it is empty where HalvesOf is 0.
LEMMA OfPortFacts ==
    ASSUME NEW q \in Seq(BufData), NEW p
    PROVE  /\ OfPort(q, p) \in Seq(Nat)
           /\ \A v \in BufData : OfPort(Append(q, v), p) =
                  IF v.port_no = p THEN Append(OfPort(q, p), v.data) ELSE OfPort(q, p)
           /\ q # <<>> /\ Head(q).port_no = p =>
                  /\ OfPort(q, p) # <<>> /\ Head(OfPort(q, p)) = Head(q).data
                  /\ OfPort(Tail(q), p) = Tail(OfPort(q, p))
           /\ q # <<>> /\ Head(q).port_no # p => OfPort(Tail(q), p) = OfPort(q, p)
           /\ HalvesOf(q, p) = 0 => OfPort(q, p) = <<>>
           /\ q = <<>> => OfPort(q, p) = <<>>
<1> DEFINE K == At(p)
<1>1. Numbered(BufData)
    BY EntriesNumbered
<1>2. \A r \in Seq(BufData) : OfPort(r, p) = Chosen(r, K)
    BY PortChosen
<1>3. \A v \in BufData : v \in K <=> v.port_no = p
    BY DEF At
<1> HIDE DEF K
<1>4. OfPort(q, p) \in Seq(Nat)
    BY <1>1, <1>2, ChosenType
<1>5. ASSUME NEW v \in BufData
      PROVE  OfPort(Append(q, v), p) =
                  IF v.port_no = p THEN Append(OfPort(q, p), v.data) ELSE OfPort(q, p)
    <2>1. Append(q, v) \in Seq(BufData)
        BY AppendProperties
    <2>2. Chosen(Append(q, v), K) = IF v \in K THEN Append(Chosen(q, K), v.data) ELSE Chosen(q, K)
        BY <1>1, ChosenAppend
    <2> QED BY <1>2, <1>3, <2>1, <2>2
<1>6. ASSUME q # <<>>
      PROVE  /\ Head(q).port_no = p =>
                  /\ OfPort(q, p) # <<>> /\ Head(OfPort(q, p)) = Head(q).data
                  /\ OfPort(Tail(q), p) = Tail(OfPort(q, p))
             /\ Head(q).port_no # p => OfPort(Tail(q), p) = OfPort(q, p)
    <2>1. Head(q) \in BufData /\ Tail(q) \in Seq(BufData)
        BY <1>6, Front
    <2>2. /\ Head(q) \in K => /\ Chosen(q, K) # <<>> /\ Head(Chosen(q, K)) = Head(q).data
                              /\ Chosen(Tail(q), K) = Tail(Chosen(q, K))
          /\ Head(q) \notin K => Chosen(Tail(q), K) = Chosen(q, K)
        BY <1>1, <1>6, ChosenTail
    <2> QED BY <1>2, <1>3, <2>1, <2>2
<1>7. HalvesOf(q, p) = 0 => OfPort(q, p) = <<>>
    <2>1. HalvesOf(q, p) = 0 => \A k \in DOMAIN q : q[k].port_no # p
        BY HalvesCount
    <2>2. \A k \in DOMAIN q : q[k] \in BufData
        BY LenProperties, ElementOfSeq
    <2>3. HalvesOf(q, p) = 0 => \A k \in DOMAIN q : q[k] \notin K
        BY <1>3, <2>1, <2>2
    <2> QED BY <1>2, <2>3, ChosenNone
<1>8. q = <<>> => OfPort(q, p) = <<>>
    <2>1. q = <<>> => \A k \in DOMAIN q : q[k] \notin K
        OBVIOUS
    <2> QED BY <1>2, <2>1, ChosenNone
<1> QED BY <1>4, <1>5, <1>6, <1>7, <1>8

\* Concatenations of sequences of numbers: an entry added behind, an entry
\* that changes over, an entry taken in front.
LEMMA CatAppend ==
    ASSUME NEW a \in Seq(Nat), NEW b \in Seq(Nat), NEW x \in Nat
    PROVE  a \o Append(b, x) = Append(a \o b, x)
<1> DEFINE s == <<x>>
<1>1. Append(b, x) = b \o s
    BY AppendIsConcat
<1>2. a \o b \in Seq(Nat)
    BY ConcatProperties
<1>3. Append(a \o b, x) = (a \o b) \o s
    BY <1>2, AppendIsConcat
<1>4. s \in Seq(Nat)
    OBVIOUS
<1> HIDE DEF s
<1>5. (a \o b) \o s = a \o (b \o s)
    BY <1>4, ConcatAssociative, SMTT(20)
<1> QED BY <1>1, <1>3, <1>5

LEMMA FrontCat ==
    ASSUME NEW r \in Seq(Nat), r # <<>>
    PROVE  /\ Head(r) \in Nat /\ Tail(r) \in Seq(Nat) /\ <<Head(r)>> \in Seq(Nat)
           /\ r = <<Head(r)>> \o Tail(r)
<1> DEFINE x == Head(r)
           t == Tail(r)
           s == <<x>>
<1>1. /\ x \in Nat /\ t \in Seq(Nat) /\ Len(r) \in Nat /\ Len(r) > 0 /\ Len(t) = Len(r) - 1
      /\ x = r[1] /\ \A k \in 1 .. Len(r) - 1 : t[k] = r[k + 1]
    BY Front
<1> HIDE DEF x, t
<1>2. s \in Seq(Nat) /\ Len(s) = 1 /\ s[1] = x
    BY <1>1
<1> HIDE DEF s
<1>3. /\ s \o t \in Seq(Nat) /\ Len(s \o t) = Len(s) + Len(t)
      /\ \A i \in 1 .. Len(s) + Len(t) : (s \o t)[i] = IF i <= Len(s) THEN s[i] ELSE t[i - Len(s)]
    <2>1. s \in Seq(Nat) /\ t \in Seq(Nat)
        BY <1>1, <1>2
    <2> QED BY <2>1, ConcatProperties
<1>4. Len(s) + Len(t) = Len(r)
    BY <1>1, <1>2
<1>5. ASSUME NEW i \in 1 .. Len(r) PROVE r[i] = (s \o t)[i]
    <2>1. (s \o t)[i] = IF i <= 1 THEN s[i] ELSE t[i - 1]
        BY <1>2, <1>3, <1>4
    <2>2. CASE i = 1
        BY <1>1, <1>2, <2>1, <2>2
    <2>3. CASE i # 1
        <3>1. i - 1 \in 1 .. Len(r) - 1 /\ (i - 1) + 1 = i /\ ~(i <= 1)
            BY <1>1, <2>3
        <3> QED BY <1>1, <2>1, <3>1
    <2> QED BY <2>2, <2>3
<1>6. r = s \o t
    BY <1>3, <1>4, <1>5, SeqEqual
<1> QED BY <1>1, <1>2, <1>6 DEF x, t, s

LEMMA CatSlide ==
    ASSUME NEW a \in Seq(Nat), NEW r \in Seq(Nat), r # <<>>
    PROVE  Append(a, Head(r)) \o Tail(r) = a \o r
<1> DEFINE x == Head(r)
           t == Tail(r)
<1>1. x \in Nat /\ t \in Seq(Nat) /\ <<x>> \in Seq(Nat) /\ r = <<x>> \o t
    BY FrontCat
<1> HIDE DEF x, t
<1>2. Append(a, x) = a \o <<x>>
    BY <1>1, AppendIsConcat
<1>3. (a \o <<x>>) \o t = a \o (<<x>> \o t)
    BY <1>1, ConcatAssociative
<1> QED BY <1>1, <1>2, <1>3 DEF x, t

LEMMA CatTail ==
    ASSUME NEW a \in Seq(Nat), NEW b \in Seq(Nat), a # <<>>
    PROVE  a \o b # <<>> /\ Head(a \o b) = Head(a) /\ Tail(a \o b) = Tail(a) \o b
<1> DEFINE c == a \o b
           t == Tail(a)
           d == t \o b
<1>1. /\ Len(a) \in Nat /\ Len(a) > 0 /\ Head(a) = a[1] /\ t \in Seq(Nat) /\ Len(t) = Len(a) - 1
      /\ \A k \in 1 .. Len(a) - 1 : t[k] = a[k + 1]
    BY Front
<1>2. Len(b) \in Nat
    BY LenProperties
<1> HIDE DEF t
<1>3. /\ c \in Seq(Nat) /\ Len(c) = Len(a) + Len(b)
      /\ \A i \in 1 .. Len(a) + Len(b) : c[i] = IF i <= Len(a) THEN a[i] ELSE b[i - Len(a)]
    BY ConcatProperties
<1>4. /\ d \in Seq(Nat) /\ Len(d) = Len(t) + Len(b)
      /\ \A i \in 1 .. Len(t) + Len(b) : d[i] = IF i <= Len(t) THEN t[i] ELSE b[i - Len(t)]
    BY <1>1, ConcatProperties
<1> HIDE DEF c, d
<1>5. c # <<>>
    BY <1>1, <1>2, <1>3
<1>6. /\ Head(c) = c[1] /\ Tail(c) \in Seq(Nat) /\ Len(Tail(c)) = Len(c) - 1
      /\ \A k \in 1 .. Len(c) - 1 : Tail(c)[k] = c[k + 1]
    BY <1>3, <1>5, Front
<1>7. Head(c) = Head(a)
    <2>1. 1 \in 1 .. Len(a) + Len(b) /\ 1 <= Len(a)
        BY <1>1, <1>2
    <2> QED BY <1>1, <1>3, <1>6, <2>1
<1>8. Len(Tail(c)) = Len(d) /\ Len(d) = Len(a) + Len(b) - 1
    BY <1>1, <1>2, <1>3, <1>4, <1>6
<1>9. ASSUME NEW i \in 1 .. Len(d) PROVE Tail(c)[i] = d[i]
    <2>1. /\ i \in 1 .. Len(c) - 1 /\ i + 1 \in 1 .. Len(a) + Len(b) /\ i \in 1 .. Len(t) + Len(b)
        BY <1>1, <1>2, <1>3, <1>4, <1>8
    <2>2. Tail(c)[i] = IF i + 1 <= Len(a) THEN a[i + 1] ELSE b[(i + 1) - Len(a)]
        BY <1>3, <1>6, <2>1
    <2>3. d[i] = IF i <= Len(t) THEN t[i] ELSE b[i - Len(t)]
        BY <1>4, <2>1
    <2>4. CASE i + 1 <= Len(a)
        <3>1. i <= Len(t) /\ i \in 1 .. Len(a) - 1
            BY <1>1, <2>1, <2>4
        <3> QED BY <1>1, <2>2, <2>3, <2>4, <3>1
    <2>5. CASE ~(i + 1 <= Len(a))
        <3>1. ~(i <= Len(t)) /\ (i + 1) - Len(a) = i - Len(t)
            BY <1>1, <2>1, <2>5
        <3> QED BY <2>2, <2>3, <2>5, <3>1
    <2> QED BY <2>4, <2>5
<1>10. Tail(c) = d
    BY <1>4, <1>6, <1>8, <1>9, SeqEqual
<1> QED BY <1>5, <1>7, <1>10 DEF c, d, t

\* The data of one kind of halves of port p, from the reader to the writer.
Joined(a, t, h, w, flag, p) == a \o Halves(t, flag) \o Halves(h, flag) \o OfPort(w, p)

Lane(a, t, h, w) == a \in Seq(Nat) /\ t \in Seq(Half) /\ h \in Seq(Half) /\ w \in Seq(BufData)

LEMMA JoinedType ==
    ASSUME NEW a, NEW t, NEW h, NEW w, Lane(a, t, h, w), NEW flag, NEW p
    PROVE  Joined(a, t, h, w, flag, p) \in Seq(Nat)
<1>1. /\ a \in Seq(Nat) /\ Halves(t, flag) \in Seq(Nat) /\ Halves(h, flag) \in Seq(Nat)
      /\ OfPort(w, p) \in Seq(Nat)
    BY HalvesFacts, OfPortFacts DEF Lane
<1>2. a \o Halves(t, flag) \in Seq(Nat)
    BY <1>1, ConcatProperties
<1>3. a \o Halves(t, flag) \o Halves(h, flag) \in Seq(Nat)
    BY <1>1, <1>2, ConcatProperties
<1> QED BY <1>1, <1>3, ConcatProperties DEF Joined

\* A half is written.
LEMMA JoinedWrite ==
    ASSUME NEW a, NEW t, NEW h, NEW w, Lane(a, t, h, w), NEW flag, NEW p, NEW b \in BufData
    PROVE  Joined(a, t, h, Append(w, b), flag, p) =
              IF b.port_no = p THEN Append(Joined(a, t, h, w, flag, p), b.data)
                               ELSE Joined(a, t, h, w, flag, p)
<1> DEFINE r == a \o Halves(t, flag) \o Halves(h, flag)
           o == OfPort(w, p)
<1>1. a \in Seq(Nat) /\ Halves(t, flag) \in Seq(Nat) /\ Halves(h, flag) \in Seq(Nat) /\ o \in Seq(Nat)
    BY HalvesFacts, OfPortFacts DEF Lane
<1>2. r \in Seq(Nat)
    <2>1. a \o Halves(t, flag) \in Seq(Nat)
        BY <1>1, ConcatProperties
    <2> QED BY <1>1, <2>1, ConcatProperties
<1>3. OfPort(Append(w, b), p) = IF b.port_no = p THEN Append(o, b.data) ELSE o
    BY OfPortFacts DEF Lane
<1>4. b.data \in Nat
    BY DEF BufData
<1> HIDE DEF r, o
<1>5. r \o Append(o, b.data) = Append(r \o o, b.data)
    BY <1>1, <1>2, <1>4, CatAppend
<1> QED BY <1>3, <1>5 DEF Joined, r, o

\* A half of the other kind goes to the link.
LEMMA JoinedOther ==
    ASSUME NEW a, NEW t, NEW h, NEW w, Lane(a, t, h, w), NEW flag, NEW p,
           NEW e \in Half, e.flag # flag
    PROVE  Joined(a, t, Append(h, e), w, flag, p) = Joined(a, t, h, w, flag, p)
<1>1. Halves(Append(h, e), flag) = Halves(h, flag)
    BY HalvesFacts DEF Lane
<1> QED BY <1>1 DEF Joined

\* The head of a write queue goes to the link; that of another port is of no
\* concern.
LEMMA JoinedSend ==
    ASSUME NEW a, NEW t, NEW h, NEW w, Lane(a, t, h, w), NEW flag, NEW p, w # <<>>,
           NEW e \in Half, e.flag = flag, e.data = Head(w).data
    PROVE  Joined(a, t, IF Head(w).port_no = p THEN Append(h, e) ELSE h, Tail(w), flag, p) =
              Joined(a, t, h, w, flag, p)
<1> DEFINE r == a \o Halves(t, flag)
           u == Halves(h, flag)
           o == OfPort(w, p)
<1>1. a \in Seq(Nat) /\ Halves(t, flag) \in Seq(Nat) /\ u \in Seq(Nat) /\ o \in Seq(Nat)
    BY HalvesFacts, OfPortFacts DEF Lane
<1>2. r \in Seq(Nat)
    BY <1>1, ConcatProperties
<1>3. Halves(Append(h, e), flag) = Append(u, e.data)
    BY HalvesFacts DEF Lane
<1>4. Head(w).port_no # p => OfPort(Tail(w), p) = o
    BY OfPortFacts DEF Lane
<1>5. Head(w).port_no = p => o # <<>> /\ Head(o) = Head(w).data /\ OfPort(Tail(w), p) = Tail(o)
    BY OfPortFacts DEF Lane
<1> HIDE DEF r, u, o
<1>6. ASSUME o # <<>> PROVE (r \o Append(u, Head(o))) \o Tail(o) = (r \o u) \o o
    <2>1. Head(o) \in Nat /\ Tail(o) \in Seq(Nat)
        BY <1>1, <1>6, Front
    <2>2. r \o Append(u, Head(o)) = Append(r \o u, Head(o))
        BY <1>1, <1>2, <2>1, CatAppend
    <2>3. r \o u \in Seq(Nat)
        BY <1>1, <1>2, ConcatProperties
    <2>4. Append(r \o u, Head(o)) \o Tail(o) = (r \o u) \o o
        BY <1>1, <1>6, <2>3, CatSlide
    <2> QED BY <2>2, <2>4
<1>7. CASE Head(w).port_no # p
    BY <1>4, <1>7 DEF Joined, o
<1>8. CASE Head(w).port_no = p
    <2>1. Joined(a, t, Append(h, e), Tail(w), flag, p) = (r \o Append(u, e.data)) \o Tail(o)
        BY <1>3, <1>5, <1>8 DEF Joined, r
    <2>2. Joined(a, t, h, w, flag, p) = (r \o u) \o o
        BY DEF Joined, r, u, o
    <2> QED BY <1>5, <1>6, <1>8, <2>1, <2>2
<1> QED BY <1>7, <1>8

\* A half crosses the link.
LEMMA JoinedCross ==
    ASSUME NEW a, NEW t, NEW h, NEW w, Lane(a, t, h, w), NEW flag, NEW p, h # <<>>
    PROVE  Joined(a, Append(t, Head(h)), Tail(h), w, flag, p) = Joined(a, t, h, w, flag, p)
<1> DEFINE v == Head(h)
           x == Halves(t, flag)
           u == Halves(h, flag)
<1>1. a \in Seq(Nat) /\ x \in Seq(Nat) /\ u \in Seq(Nat) /\ v \in Half /\ v.data \in Nat
    <2>1. v \in Half
        BY Front DEF Lane
    <2> QED BY <2>1, HalvesFacts DEF Lane, Half
<1>2. Halves(Append(t, v), flag) = IF v.flag = flag THEN Append(x, v.data) ELSE x
    BY <1>1, HalvesFacts DEF Lane
<1>3. /\ v.flag = flag => u # <<>> /\ Head(u) = v.data /\ Halves(Tail(h), flag) = Tail(u)
      /\ v.flag # flag => Halves(Tail(h), flag) = u
    BY HalvesFacts DEF Lane
<1> HIDE DEF v, x, u
<1>4. CASE v.flag = flag
    <2>1. a \o x \in Seq(Nat)
        BY <1>1, ConcatProperties
    <2>2. a \o Append(x, v.data) = Append(a \o x, v.data)
        BY <1>1, CatAppend
    <2>3. Append(a \o x, v.data) \o Tail(u) = (a \o x) \o u
        BY <1>1, <1>3, <1>4, <2>1, CatSlide
    <2>4. Joined(a, Append(t, v), Tail(h), w, flag, p) =
              ((a \o Append(x, v.data)) \o Tail(u)) \o OfPort(w, p)
        BY <1>2, <1>3, <1>4 DEF Joined
    <2>5. Joined(a, t, h, w, flag, p) = ((a \o x) \o u) \o OfPort(w, p)
        BY DEF Joined, x, u
    <2> QED BY <2>2, <2>3, <2>4, <2>5 DEF v
<1>5. CASE v.flag # flag
    BY <1>2, <1>3, <1>5 DEF Joined, x, u, v
<1> QED BY <1>4, <1>5

\* A half is saved for the host.
LEMMA JoinedSave ==
    ASSUME NEW a, NEW t, NEW h, NEW w, Lane(a, t, h, w), NEW flag, NEW p, t # <<>>
    PROVE  /\ Head(t).flag = flag =>
                 Joined(Append(a, Head(t).data), Tail(t), h, w, flag, p) = Joined(a, t, h, w, flag, p)
           /\ Head(t).flag # flag => Joined(a, Tail(t), h, w, flag, p) = Joined(a, t, h, w, flag, p)
<1> DEFINE v == Head(t)
           x == Halves(t, flag)
<1>1. a \in Seq(Nat) /\ x \in Seq(Nat)
    BY HalvesFacts DEF Lane
<1>2. /\ v.flag = flag => x # <<>> /\ Head(x) = v.data /\ Halves(Tail(t), flag) = Tail(x)
      /\ v.flag # flag => Halves(Tail(t), flag) = x
    BY HalvesFacts DEF Lane
<1> HIDE DEF v, x
<1>3. ASSUME v.flag = flag
      PROVE Joined(Append(a, v.data), Tail(t), h, w, flag, p) = Joined(a, t, h, w, flag, p)
    <2>1. Append(a, v.data) \o Tail(x) = a \o x
        BY <1>1, <1>2, <1>3, CatSlide
    <2> QED BY <1>2, <1>3, <2>1 DEF Joined, x
<1>4. v.flag # flag => Joined(a, Tail(t), h, w, flag, p) = Joined(a, t, h, w, flag, p)
    BY <1>2 DEF Joined, x
<1> QED BY <1>3, <1>4 DEF v

\* A half is read.
LEMMA JoinedRead ==
    ASSUME NEW a, NEW t, NEW h, NEW w, Lane(a, t, h, w), NEW flag, NEW p, a # <<>>
    PROVE  /\ Joined(a, t, h, w, flag, p) # <<>>
           /\ Head(Joined(a, t, h, w, flag, p)) = Head(a)
           /\ Joined(Tail(a), t, h, w, flag, p) = Tail(Joined(a, t, h, w, flag, p))
<1> DEFINE x == Halves(t, flag)
           u == Halves(h, flag)
           o == OfPort(w, p)
<1>1. a \in Seq(Nat) /\ x \in Seq(Nat) /\ u \in Seq(Nat) /\ o \in Seq(Nat)
    BY HalvesFacts, OfPortFacts DEF Lane
<1>2. /\ Joined(a, t, h, w, flag, p) = a \o x \o u \o o
      /\ Joined(Tail(a), t, h, w, flag, p) = Tail(a) \o x \o u \o o
    BY DEF Joined
<1> HIDE DEF x, u, o
<1>3. a \o x \in Seq(Nat) /\ a \o x # <<>> /\ Head(a \o x) = Head(a) /\ Tail(a \o x) = Tail(a) \o x
    BY <1>1, ConcatProperties, CatTail
<1> DEFINE y == a \o x
<1> HIDE DEF y
<1>4. y \in Seq(Nat) /\ y # <<>> /\ Head(y) = Head(a) /\ Tail(y) = Tail(a) \o x
    BY <1>3 DEF y
<1>5. y \o u \in Seq(Nat) /\ y \o u # <<>> /\ Head(y \o u) = Head(y) /\ Tail(y \o u) = Tail(y) \o u
    BY <1>1, <1>4, ConcatProperties, CatTail
<1> DEFINE z == y \o u
<1> HIDE DEF z
<1>6. z \in Seq(Nat) /\ z # <<>> /\ Head(z) = Head(y) /\ Tail(z) = Tail(y) \o u
    BY <1>5 DEF z
<1>7. z \o o # <<>> /\ Head(z \o o) = Head(z) /\ Tail(z \o o) = Tail(z) \o o
    BY <1>1, <1>6, CatTail
<1> QED BY <1>2, <1>4, <1>6, <1>7 DEF y, z

-----------------------------------------------------------------------------
(* The steps of the logger and those of the log.                           *)

\* The messages of port p that are under way, by their first halves.
Firsts(p) ==
    Joined(lread_data_cycle1[p], toHost[p], fromHost[p], lwrite_data_cycle1, 0, p)

\* As long as no half of the port is lost, the two halves of every message
\* are at the same place of the two rows.
Paired(p) == lost[p] = 0 => Firsts(p) = Underway(p)

\* What a step does to a port that loses nothing: both halves of a message
\* are written, both are read, or nothing seems to happen.
Advances(p) ==
    /\ lost[p] = 0 /\ lost'[p] = 0
    /\ \/ /\ \E m \in Nat : /\ Firsts(p)' = Append(Firsts(p), m)
                            /\ Underway(p)' = Append(Underway(p), m)
          /\ answer'[p] = answer[p]
       \/ /\ Firsts(p) # <<>> /\ Underway(p) # <<>>
          /\ Firsts(p)' = Tail(Firsts(p)) /\ Underway(p)' = Tail(Underway(p))
          /\ answer'[p] = <<Head(Firsts(p)), Head(Underway(p))>>
       \/ Firsts(p)' = Firsts(p) /\ Underway(p)' = Underway(p) /\ answer'[p] = answer[p]

LEMMA UnderwayJoined ==
    \A p : /\ Underway(p) =
                 Joined(lread_data_cycle2[p], toHost[p], fromHost[p], lwrite_data_cycle2, 1, p)
           /\ Underway(p)' =
                 Joined(lread_data_cycle2'[p], toHost'[p], fromHost'[p], lwrite_data_cycle2', 1, p)
           /\ Firsts(p)' =
                 Joined(lread_data_cycle1'[p], toHost'[p], fromHost'[p], lwrite_data_cycle1', 0, p)
    BY DEF Underway, Joined, Firsts

LEMMA Lanes ==
    ASSUME Parts, NEW p \in Ports
    PROVE  /\ Lane(lread_data_cycle1[p], toHost[p], fromHost[p], lwrite_data_cycle1)
           /\ Lane(lread_data_cycle2[p], toHost[p], fromHost[p], lwrite_data_cycle2)
    BY DEF Parts, Queues, Lane

\* The step leaves the two rows of port p, and what it was answered, alone.
Still(p) == Firsts(p)' = Firsts(p) /\ Underway(p)' = Underway(p) /\ answer'[p] = answer[p]

LEMMA StillAdvances ==
    ASSUME NEW p \in Ports, lost \in [Ports -> Nat], lost'[p] = lost[p], Still(p)
    PROVE  lost'[p] > 0 \/ Advances(p)
<1>1. lost[p] \in Nat
    OBVIOUS
<1>2. CASE lost[p] = 0
    BY <1>2 DEF Still, Advances
<1>3. CASE lost[p] # 0
    BY <1>1, <1>3
<1> QED BY <1>2, <1>3

\* Every step does one of these to a port, or loses a half of it.
LEMMA PortStep ==
    ASSUME TypeOK, [Next]_vars, NEW x \in Ports
    PROVE  lost'[x] > 0 \/ Advances(x)
<1>0. Parts /\ lost \in [Ports -> Nat] /\ lost[x] \in Nat
    BY TypeParts DEF Parts
<1> DEFINE c1 == lwrite_data_cycle1
           c2 == lwrite_data_cycle2
           t == toHost[x]
           h == fromHost[x]
           a1 == lread_data_cycle1[x]
           a2 == lread_data_cycle2[x]
<1>a. Lane(a1, t, h, c1) /\ Lane(a2, t, h, c2)
    BY <1>0, Lanes
<1>b. /\ Firsts(x) = Joined(a1, t, h, c1, 0, x) /\ Underway(x) = Joined(a2, t, h, c2, 1, x)
      /\ Firsts(x)' =
            Joined(lread_data_cycle1'[x], toHost'[x], fromHost'[x], lwrite_data_cycle1', 0, x)
      /\ Underway(x)' =
            Joined(lread_data_cycle2'[x], toHost'[x], fromHost'[x], lwrite_data_cycle2', 1, x)
    BY UnderwayJoined DEF Firsts
<1>c. /\ c1 \in Seq(BufData) /\ c2 \in Seq(BufData) /\ t \in Seq(Half) /\ h \in Seq(Half)
      /\ a1 \in Seq(Nat) /\ a2 \in Seq(Nat)
    BY <1>a DEF Lane
<1> HIDE DEF c1, c2, t, h, a1, a2
<1>1. ASSUME NEW p \in Ports, dtp_logger_write_cnt(p) PROVE lost'[x] > 0 \/ Advances(x)
    <2> DEFINE b == [port_no |-> p, data |-> written']
    <2>1. b \in BufData /\ b.port_no = p /\ b.data = written' /\ written' \in Nat
        BY <1>0, <1>1 DEF dtp_logger_write_cnt, Parts, BufData
    <2>2. /\ lwrite_data_cycle1' = Append(c1, b) /\ lwrite_data_cycle2' = Append(c2, b)
          /\ toHost'[x] = t /\ fromHost'[x] = h /\ lread_data_cycle1'[x] = a1
          /\ lread_data_cycle2'[x] = a2 /\ answer'[x] = answer[x] /\ lost' = lost
        BY <1>1 DEF dtp_logger_write_cnt, receiver, c1, c2, t, h, a1, a2
    <2> HIDE DEF b
    <2>3. /\ Firsts(x)' = IF b.port_no = x THEN Append(Firsts(x), b.data) ELSE Firsts(x)
          /\ Underway(x)' = IF b.port_no = x THEN Append(Underway(x), b.data) ELSE Underway(x)
        BY <1>a, <1>b, <2>1, <2>2, JoinedWrite
    <2>4. CASE p # x
        <3>1. Still(x)
            BY <2>1, <2>2, <2>3, <2>4 DEF Still
        <3> QED BY <1>0, <2>2, <3>1, StillAdvances
    <2>5. CASE p = x /\ lost[x] = 0
        BY <2>1, <2>2, <2>3, <2>5 DEF Advances
    <2>6. CASE lost[x] # 0
        BY <1>0, <2>2, <2>6
    <2> QED BY <2>4, <2>5, <2>6
<1>2. CASE log_from_host_chunk_a
    <2> DEFINE v == Head(c1)
               e == [flag |-> 0, data |-> v.data]
    <2>1. /\ c1 # <<>> /\ lwrite_data_cycle1' = Tail(c1) /\ lwrite_data_cycle2' = c2
          /\ fromHost' = [fromHost EXCEPT ![v.port_no] = Append(@, e)]
          /\ toHost'[x] = t /\ lread_data_cycle1'[x] = a1
          /\ lread_data_cycle2'[x] = a2 /\ answer'[x] = answer[x] /\ lost' = lost
        BY <1>2 DEF log_from_host_chunk_a, receiver, c1, c2, t, a1, a2
    <2>2. v \in BufData
        BY <1>c, <2>1, Front
    <2>3. e \in Half /\ e.flag = 0 /\ e.data = v.data /\ v.port_no \in Ports
        BY <2>2 DEF Half, BufData
    <2>4. fromHost'[x] = IF v.port_no = x THEN Append(h, e) ELSE h
        BY <1>0, <2>1, <2>3 DEF Parts, Queues, h
    <2> HIDE DEF v, e
    <2>5. Still(x)
        <3>1. Firsts(x)' = Firsts(x)
            <4>1. Joined(a1, t, IF v.port_no = x THEN Append(h, e) ELSE h, Tail(c1), 0, x) =
                     Joined(a1, t, h, c1, 0, x)
                BY <1>a, <2>1, <2>3, JoinedSend DEF v
            <4> QED BY <1>b, <2>1, <2>4, <4>1
        <3>2. Underway(x)' = Underway(x)
            <4>1. Joined(a2, t, Append(h, e), c2, 1, x) = Joined(a2, t, h, c2, 1, x)
                <5>1. e.flag # 1
                    BY <2>3
                <5> QED BY <1>a, <2>3, <5>1, JoinedOther
            <4> QED BY <1>b, <2>1, <2>4, <4>1
        <3> QED BY <2>1, <3>1, <3>2 DEF Still
    <2> QED BY <1>0, <2>1, <2>5, StillAdvances
<1>3. CASE log_from_host_chunk_b
    <2> DEFINE v == Head(c2)
               e == [flag |-> 1, data |-> v.data]
    <2>1. /\ c2 # <<>> /\ lwrite_data_cycle2' = Tail(c2) /\ lwrite_data_cycle1' = c1
          /\ fromHost' = [fromHost EXCEPT ![v.port_no] = Append(@, e)]
          /\ toHost'[x] = t /\ lread_data_cycle1'[x] = a1
          /\ lread_data_cycle2'[x] = a2 /\ answer'[x] = answer[x] /\ lost' = lost
        BY <1>3 DEF log_from_host_chunk_b, receiver, c1, c2, t, a1, a2
    <2>2. v \in BufData
        BY <1>c, <2>1, Front
    <2>3. e \in Half /\ e.flag = 1 /\ e.data = v.data /\ v.port_no \in Ports
        BY <2>2 DEF Half, BufData
    <2>4. fromHost'[x] = IF v.port_no = x THEN Append(h, e) ELSE h
        BY <1>0, <2>1, <2>3 DEF Parts, Queues, h
    <2> HIDE DEF v, e
    <2>5. Still(x)
        <3>1. Underway(x)' = Underway(x)
            <4>1. Joined(a2, t, IF v.port_no = x THEN Append(h, e) ELSE h, Tail(c2), 1, x) =
                     Joined(a2, t, h, c2, 1, x)
                BY <1>a, <2>1, <2>3, JoinedSend DEF v
            <4> QED BY <1>b, <2>1, <2>4, <4>1
        <3>2. Firsts(x)' = Firsts(x)
            <4>1. Joined(a1, t, Append(h, e), c1, 0, x) = Joined(a1, t, h, c1, 0, x)
                <5>1. e.flag # 0
                    BY <2>3
                <5> QED BY <1>a, <2>3, <5>1, JoinedOther
            <4> QED BY <1>b, <2>1, <2>4, <4>1
        <3> QED BY <2>1, <3>1, <3>2 DEF Still
    <2> QED BY <1>0, <2>1, <2>5, StillAdvances
<1>4. ASSUME NEW p \in Ports, Transmit(p) PROVE lost'[x] > 0 \/ Advances(x)
    <2>1. /\ fromHost[p] # <<>> /\ fromHost' = [fromHost EXCEPT ![p] = Tail(@)]
          /\ \/ /\ toHost' = [toHost EXCEPT ![p] = Append(@, Head(fromHost[p]))]
                /\ lost' = lost
             \/ /\ lost' = [lost EXCEPT ![p] = @ + 1]
                /\ toHost' = toHost
          /\ lwrite_data_cycle1' = c1 /\ lwrite_data_cycle2' = c2 /\ lread_data_cycle1'[x] = a1
          /\ lread_data_cycle2'[x] = a2 /\ answer'[x] = answer[x]
        BY <1>4 DEF Transmit, sender, receiver, c1, c2, a1, a2
    <2>2. CASE x # p
        <3>1. fromHost'[x] = h /\ toHost'[x] = t /\ lost'[x] = lost[x]
            BY <1>0, <2>1, <2>2 DEF Parts, Queues, h, t
        <3>2. Still(x)
            BY <1>b, <2>1, <3>1 DEF Still
        <3> QED BY <1>0, <3>1, <3>2, StillAdvances
    <2>3. CASE x = p /\ lost' = [lost EXCEPT ![p] = @ + 1]
        <3>1. lost'[x] = lost[x] + 1
            BY <1>0, <2>3
        <3> QED BY <1>0, <3>1
    <2>4. CASE x = p /\ toHost' = [toHost EXCEPT ![p] = Append(@, Head(fromHost[p]))] /\ lost' = lost
        <3>1. h # <<>> /\ fromHost'[x] = Tail(h) /\ toHost'[x] = Append(t, Head(h))
            BY <1>0, <2>1, <2>4 DEF Parts, Queues, h, t
        <3>2. Firsts(x)' = Firsts(x)
            <4>1. Joined(a1, Append(t, Head(h)), Tail(h), c1, 0, x) = Joined(a1, t, h, c1, 0, x)
                BY <1>a, <3>1, JoinedCross
            <4> QED BY <1>b, <2>1, <3>1, <4>1
        <3>3. Underway(x)' = Underway(x)
            <4>1. Joined(a2, Append(t, Head(h)), Tail(h), c2, 1, x) = Joined(a2, t, h, c2, 1, x)
                BY <1>a, <3>1, JoinedCross
            <4> QED BY <1>b, <2>1, <3>1, <4>1
        <3>4. Still(x)
            BY <2>1, <3>2, <3>3 DEF Still
        <3> QED BY <1>0, <2>4, <3>4, StillAdvances
    <2> QED BY <2>1, <2>2, <2>3, <2>4
<1>5. ASSUME NEW p \in Ports, TransmitLost(p) PROVE lost'[x] > 0 \/ Advances(x)
    <2>1. /\ fromHost' = [fromHost EXCEPT ![p] = Tail(@)] /\ lost' = [lost EXCEPT ![p] = @ + 1]
          /\ toHost'[x] = t /\ lwrite_data_cycle1' = c1 /\ lwrite_data_cycle2' = c2
          /\ lread_data_cycle1'[x] = a1 /\ lread_data_cycle2'[x] = a2 /\ answer'[x] = answer[x]
        BY <1>5 DEF TransmitLost, sender, receiver, c1, c2, t, a1, a2
    <2>2. CASE x # p
        <3>1. fromHost'[x] = h /\ lost'[x] = lost[x]
            BY <1>0, <2>1, <2>2 DEF Parts, Queues, h
        <3>2. Still(x)
            BY <1>b, <2>1, <3>1 DEF Still
        <3> QED BY <1>0, <3>1, <3>2, StillAdvances
    <2>3. CASE x = p
        <3>1. lost'[x] = lost[x] + 1
            BY <1>0, <2>1, <2>3
        <3> QED BY <1>0, <3>1
    <2> QED BY <2>2, <2>3
<1>6. ASSUME NEW p \in Ports, save_host_data(p) PROVE lost'[x] > 0 \/ Advances(x)
    <2> DEFINE v == Head(toHost[p])
    <2>1. /\ toHost[p] # <<>> /\ toHost' = [toHost EXCEPT ![p] = Tail(@)]
          /\ lwrite_data_cycle1' = c1 /\ lwrite_data_cycle2' = c2 /\ fromHost'[x] = h
          /\ answer'[x] = answer[x] /\ lost' = lost
        BY <1>6 DEF save_host_data, sender, c1, c2, h
    <2>2. \/ /\ v.flag = 0
             /\ lread_data_cycle1' = [lread_data_cycle1 EXCEPT ![p] = Append(@, v.data)]
             /\ lread_data_cycle2' = lread_data_cycle2
          \/ /\ v.flag = 1
             /\ lread_data_cycle2' = [lread_data_cycle2 EXCEPT ![p] = Append(@, v.data)]
             /\ lread_data_cycle1' = lread_data_cycle1
        BY <1>6 DEF save_host_data
    <2>3. Still(x)
        <3>1. CASE x # p
            <4>1. toHost'[x] = t /\ lread_data_cycle1'[x] = a1 /\ lread_data_cycle2'[x] = a2
                <5> HIDE DEF v
                <5> QED BY <1>0, <2>1, <2>2, <3>1 DEF Parts, Queues, t, a1, a2
            <4> QED BY <1>b, <2>1, <4>1 DEF Still
        <3>2. CASE x = p
            <4>1. t # <<>> /\ toHost'[x] = Tail(t) /\ v = Head(t)
                BY <1>0, <2>1, <3>2 DEF Parts, Queues, t
            <4> HIDE DEF v
            <4>2. \/ /\ v.flag = 0 /\ lread_data_cycle1'[x] = Append(a1, v.data)
                     /\ lread_data_cycle2'[x] = a2
                  \/ /\ v.flag = 1 /\ lread_data_cycle2'[x] = Append(a2, v.data)
                     /\ lread_data_cycle1'[x] = a1
                BY <1>0, <2>2, <3>2 DEF Parts, Queues, a1, a2
            <4>3. Firsts(x)' = Firsts(x)
                <5>1. /\ v.flag = 0 =>
                            Joined(Append(a1, v.data), Tail(t), h, c1, 0, x) =
                                Joined(a1, t, h, c1, 0, x)
                      /\ v.flag # 0 => Joined(a1, Tail(t), h, c1, 0, x) = Joined(a1, t, h, c1, 0, x)
                    BY <1>a, <4>1, JoinedSave
                <5>2. CASE v.flag = 0
                    <6>1. lread_data_cycle1'[x] = Append(a1, v.data)
                        BY <4>2, <5>2
                    <6> QED BY <1>b, <2>1, <4>1, <5>1, <5>2, <6>1
                <5>3. CASE v.flag = 1
                    <6>1. lread_data_cycle1'[x] = a1
                        BY <4>2, <5>3
                    <6>2. v.flag # 0
                        BY <5>3
                    <6>3. Joined(a1, Tail(t), h, c1, 0, x) = Joined(a1, t, h, c1, 0, x)
                        BY <5>1, <6>2
                    <6> QED BY <1>b, <2>1, <4>1, <6>1, <6>3
                <5> QED BY <4>2, <5>2, <5>3
            <4>4. Underway(x)' = Underway(x)
                <5>1. /\ v.flag = 1 =>
                            Joined(Append(a2, v.data), Tail(t), h, c2, 1, x) =
                                Joined(a2, t, h, c2, 1, x)
                      /\ v.flag # 1 => Joined(a2, Tail(t), h, c2, 1, x) = Joined(a2, t, h, c2, 1, x)
                    BY <1>a, <4>1, JoinedSave
                <5>2. CASE v.flag = 1
                    <6>1. lread_data_cycle2'[x] = Append(a2, v.data)
                        BY <4>2, <5>2
                    <6> QED BY <1>b, <2>1, <4>1, <5>1, <5>2, <6>1
                <5>3. CASE v.flag = 0
                    <6>1. lread_data_cycle2'[x] = a2
                        BY <4>2, <5>3
                    <6>2. v.flag # 1
                        BY <5>3
                    <6>3. Joined(a2, Tail(t), h, c2, 1, x) = Joined(a2, t, h, c2, 1, x)
                        BY <5>1, <6>2
                    <6> QED BY <1>b, <2>1, <4>1, <6>1, <6>3
                <5> QED BY <4>2, <5>2, <5>3
            <4> QED BY <2>1, <4>3, <4>4 DEF Still
        <3> QED BY <3>1, <3>2
    <2> QED BY <1>0, <2>1, <2>3, StillAdvances
<1>7. ASSUME NEW p \in Ports, dtp_logger_read_cnt(p) PROVE lost'[x] > 0 \/ Advances(x)
    <2>1. /\ lread_data_cycle1[p] # <<>> /\ lread_data_cycle2[p] # <<>>
          /\ answer' = [answer EXCEPT ![p] =
                            <<Head(lread_data_cycle1[p]), Head(lread_data_cycle2[p])>>]
          /\ lread_data_cycle1' = [lread_data_cycle1 EXCEPT ![p] = Tail(@)]
          /\ lread_data_cycle2' = [lread_data_cycle2 EXCEPT ![p] = Tail(@)]
          /\ lwrite_data_cycle1' = c1 /\ lwrite_data_cycle2' = c2 /\ fromHost'[x] = h
          /\ toHost'[x] = t /\ lost' = lost
        BY <1>7 DEF dtp_logger_read_cnt, sender, c1, c2, h, t
    <2>2. CASE x # p
        <3>1. lread_data_cycle1'[x] = a1 /\ lread_data_cycle2'[x] = a2 /\ answer'[x] = answer[x]
            BY <1>0, <2>1, <2>2 DEF Parts, Queues, a1, a2
        <3>2. Still(x)
            BY <1>b, <2>1, <3>1 DEF Still
        <3> QED BY <1>0, <2>1, <3>2, StillAdvances
    <2>3. CASE x = p /\ lost[x] = 0
        <3>1. /\ a1 # <<>> /\ a2 # <<>> /\ lread_data_cycle1'[x] = Tail(a1)
              /\ lread_data_cycle2'[x] = Tail(a2) /\ answer'[x] = <<Head(a1), Head(a2)>>
            BY <1>0, <2>1, <2>3 DEF Parts, Queues, a1, a2
        <3>2. Firsts(x) # <<>> /\ Head(Firsts(x)) = Head(a1) /\ Firsts(x)' = Tail(Firsts(x))
            <4>1. /\ Joined(a1, t, h, c1, 0, x) # <<>>
                  /\ Head(Joined(a1, t, h, c1, 0, x)) = Head(a1)
                  /\ Joined(Tail(a1), t, h, c1, 0, x) = Tail(Joined(a1, t, h, c1, 0, x))
                BY <1>a, <3>1, JoinedRead
            <4> QED BY <1>b, <2>1, <3>1, <4>1
        <3>3. Underway(x) # <<>> /\ Head(Underway(x)) = Head(a2) /\ Underway(x)' = Tail(Underway(x))
            <4>1. /\ Joined(a2, t, h, c2, 1, x) # <<>>
                  /\ Head(Joined(a2, t, h, c2, 1, x)) = Head(a2)
                  /\ Joined(Tail(a2), t, h, c2, 1, x) = Tail(Joined(a2, t, h, c2, 1, x))
                BY <1>a, <3>1, JoinedRead
            <4> QED BY <1>b, <2>1, <3>1, <4>1
        <3> QED BY <2>1, <2>3, <3>1, <3>2, <3>3 DEF Advances
    <2>4. CASE lost[x] # 0
        BY <1>0, <2>1, <2>4
    <2> QED BY <2>2, <2>3, <2>4
<1>8. CASE dtp_reset_sender
    <2> DEFINE i == HalvesOf(lwrite_data_cycle1, x)
               j == HalvesOf(lwrite_data_cycle2, x)
               n == Len(fromHost[x])
    <2>1. /\ lwrite_data_cycle1' = <<>> /\ lwrite_data_cycle2' = <<>> /\ fromHost'[x] = <<>>
          /\ lost'[x] = lost[x] + i + j + n
          /\ toHost'[x] = t /\ lread_data_cycle1'[x] = a1 /\ lread_data_cycle2'[x] = a2
          /\ answer'[x] = answer[x]
        BY <1>8 DEF dtp_reset_sender, receiver, t, a1, a2
    <2>2. i \in Nat /\ j \in Nat /\ n \in Nat
        BY <1>c, HalvesCount DEF c1, c2, h
    <2>3. (n = 0 => h = <<>>) /\ i = HalvesOf(c1, x) /\ j = HalvesOf(c2, x)
        BY <1>c DEF h, c1, c2
    <2> HIDE DEF i, j, n
    <2>4. CASE lost'[x] = 0
        <3>1. i = 0 /\ j = 0 /\ n = 0 /\ lost[x] = 0
            BY <1>0, <2>1, <2>2, <2>4
        <3>2. OfPort(c1, x) = <<>> /\ OfPort(c2, x) = <<>>
            <4>1. HalvesOf(c1, x) = 0 /\ HalvesOf(c2, x) = 0
                BY <2>3, <3>1
            <4>2. \A q \in Seq(BufData) : HalvesOf(q, x) = 0 => OfPort(q, x) = <<>>
                BY OfPortFacts
            <4> QED BY <1>c, <4>1, <4>2
        <3>3. OfPort(<<>>, x) = <<>> /\ h = <<>>
            <4>1. <<>> \in Seq(BufData)
                OBVIOUS
            <4> QED BY <2>3, <3>1, <4>1, OfPortFacts
        <3>4. Firsts(x)' = Firsts(x) /\ Underway(x)' = Underway(x)
            BY <1>b, <2>1, <3>2, <3>3 DEF Joined
        <3> QED BY <2>1, <2>4, <3>1, <3>4 DEF Advances
    <2>5. CASE lost'[x] # 0
        BY <1>0, <2>1, <2>2, <2>5
    <2> QED BY <2>4, <2>5
<1>9. CASE dtp_reset_receiver
    <2>1. PICK k \in [Ports -> 0 .. PhyDepth] :
            /\ k[x] <= Len(toHost[x])
            /\ toHost'[x] = SubSeq(toHost[x], 1, Len(toHost[x]) - k[x])
            /\ lread_data_cycle1'[x] = <<>> /\ lread_data_cycle2'[x] = <<>>
            /\ lost'[x] = lost[x] + Len(lread_data_cycle1[x]) + Len(lread_data_cycle2[x]) + k[x]
            /\ UNCHANGED <<sender, fromHost, answer>>
        BY <1>9 DEF dtp_reset_receiver
    <2> DEFINE i == Len(a1)
               j == Len(a2)
               n == k[x]
    <2>2. /\ lwrite_data_cycle1' = c1 /\ lwrite_data_cycle2' = c2 /\ fromHost'[x] = h
          /\ answer'[x] = answer[x] /\ lost'[x] = lost[x] + i + j + n
          /\ toHost'[x] = SubSeq(t, 1, Len(t) - n)
        BY <2>1 DEF sender, c1, c2, h, t, a1, a2
    <2>3. i \in Nat /\ j \in Nat /\ (i = 0 => a1 = <<>>) /\ (j = 0 => a2 = <<>>)
        BY <1>c
    <2>4. n \in Nat
        <3>1. n \in 0 .. PhyDepth /\ PhyDepth \in Nat
            BY <2>1, LoggerAssumption
        <3> QED BY <3>1
    <2> HIDE DEF i, j, n
    <2>5. CASE lost'[x] = 0
        <3>1. i = 0 /\ j = 0 /\ n = 0 /\ lost[x] = 0
            BY <1>0, <2>2, <2>3, <2>4, <2>5
        <3>2. toHost'[x] = t
            <4>1. Len(t) - 0 = Len(t) /\ SubSeq(t, 1, Len(t)) = t
                BY <1>c, SubSeqFull
            <4> QED BY <2>2, <3>1, <4>1
        <3>3. Firsts(x)' = Firsts(x) /\ Underway(x)' = Underway(x)
            BY <1>b, <2>1, <2>2, <2>3, <3>1, <3>2
        <3> QED BY <2>2, <2>5, <3>1, <3>3 DEF Advances
    <2>6. CASE lost'[x] # 0
        BY <1>0, <2>2, <2>3, <2>4, <2>6
    <2> QED BY <2>5, <2>6
<1>10. CASE UNCHANGED vars
    <2>1. /\ lwrite_data_cycle1' = c1 /\ lwrite_data_cycle2' = c2 /\ fromHost'[x] = h
          /\ toHost'[x] = t /\ lread_data_cycle1'[x] = a1 /\ lread_data_cycle2'[x] = a2
          /\ answer'[x] = answer[x] /\ lost' = lost
        BY <1>10 DEF vars, sender, receiver, c1, c2, h, t, a1, a2
    <2>2. Still(x)
        BY <1>b, <2>1 DEF Still
    <2> QED BY <1>0, <2>1, <2>2, StillAdvances
<1> QED BY <1>1, <1>2, <1>3, <1>4, <1>5, <1>6, <1>7, <1>8, <1>9, <1>10 DEF Next

\* The two rows agree in every state.
PairInv == TypeOK /\ \A p \in Ports : Paired(p)

LEMMA PairsKept == PairInv /\ [Next]_vars => PairInv'
<1> SUFFICES ASSUME PairInv, [Next]_vars PROVE PairInv'
    OBVIOUS
<1>1. TypeOK'
    BY TypesKept DEF PairInv
<1>2. ASSUME NEW p \in Ports PROVE Paired(p)'
    <2>1. lost'[p] > 0 \/ Advances(p)
        BY PortStep DEF PairInv
    <2>2. Paired(p)
        BY DEF PairInv
    <2> QED BY <2>1, <2>2 DEF Paired, Advances
<1> QED BY <1>1, <1>2 DEF PairInv

LEMMA PairsStart == Init => PairInv
<1> SUFFICES ASSUME Init PROVE PairInv
    OBVIOUS
<1>1. TypeOK
    BY Start DEF IInv
<1>2. ASSUME NEW p \in Ports PROVE Firsts(p) = <<>> /\ Underway(p) = <<>>
    <2>1. /\ toHost[p] = <<>> /\ fromHost[p] = <<>> /\ lread_data_cycle1[p] = <<>>
          /\ lread_data_cycle2[p] = <<>> /\ lwrite_data_cycle1 = <<>> /\ lwrite_data_cycle2 = <<>>
        BY DEF Init
    <2>2. OfPort(<<>>, p) = <<>> /\ Halves(<<>>, 0) = <<>> /\ Halves(<<>>, 1) = <<>>
        <3>1. <<>> \in Seq(BufData) /\ <<>> \in Seq(Half)
            OBVIOUS
        <3> QED BY <3>1, OfPortFacts, HalvesFacts
    <2>3. <<>> \o <<>> = <<>>
        OBVIOUS
    <2> QED BY <2>1, <2>2, <2>3, UnderwayJoined DEF Joined, Firsts
<1> QED BY <1>1, <1>2 DEF PairInv, Paired

\* A sequence of numbers with one more number begins as before.
LEMMA AppendPrefix ==
    ASSUME NEW s \in Seq(Nat), NEW m \in Nat
    PROVE  Len(Append(s, m)) = Len(s) + 1 /\ SubSeq(Append(s, m), 1, Len(s)) = s
<1> DEFINE r == Append(s, m)
           n == Len(s)
           u == SubSeq(r, 1, n)
<1>1. /\ n \in Nat /\ Len(r) = n + 1 /\ r \in Seq(Nat) /\ \A i \in 1 .. n : r[i] = s[i]
    BY AppendProperties, LenProperties
<1>2. \A i \in 1 .. n : s[i] \in Nat
    BY ElementOfSeq
<1> HIDE DEF r, n
<1>3. /\ u \in Seq(Nat) /\ Len(u) = (IF 1 <= n THEN n - 1 + 1 ELSE 0)
      /\ \A i \in 1 .. n - 1 + 1 : u[i] = r[1 + i - 1]
    <2>1. \A i \in 1 .. n : r[i] \in Nat
        BY <1>1, <1>2
    <2>2. 1 \in Int /\ n \in Int
        BY <1>1
    <2> QED BY <2>1, <2>2, SubSeqProperties
<1> HIDE DEF u
<1>4. Len(u) = n
    BY <1>1, <1>3
<1>5. ASSUME NEW i \in 1 .. n PROVE u[i] = s[i]
    <2>1. i \in 1 .. n - 1 + 1 /\ 1 + i - 1 = i
        BY <1>1
    <2> QED BY <1>1, <1>3, <2>1
<1>6. u = s
    BY <1>3, <1>4, <1>5, SeqEqual DEF n
<1> QED BY <1>1, <1>6 DEF u, r, n

\* A step is one of the abstract log.
LEMMA LogStep == PairInv /\ [Next]_vars => [Log!Next]_(Log!vars)
<1> SUFFICES ASSUME PairInv, [Next]_vars PROVE Log!Next
    OBVIOUS
<1>0. lost \in [Ports -> Nat] /\ lost' \in [Ports -> Nat] /\ Parts
    BY TypeParts, TypesKept DEF PairInv, TypeOK
<1>1. SUFFICES ASSUME NEW p \in Ports
      PROVE  \/ lost'[p] > 0
             \/ /\ ~(lost[p] > 0) /\ ~(lost'[p] > 0)
                /\ \/ /\ Len(Underway(p)') = Len(Underway(p)) + 1
                      /\ SubSeq(Underway(p)', 1, Len(Underway(p))) = Underway(p)
                      /\ answer'[p] = answer[p]
                   \/ /\ Underway(p) # <<>>
                      /\ answer'[p] = <<Head(Underway(p)), Head(Underway(p))>>
                      /\ Underway(p)' = Tail(Underway(p))
                   \/ /\ Underway(p)' = Underway(p)
                      /\ answer'[p] = answer[p]
    BY DEF Log!Next, Log!Write, Log!Read, Log!Idle
<1>2. lost'[p] > 0 \/ Advances(p)
    BY PortStep DEF PairInv
<1>3. lost[p] = 0 => Firsts(p) = Underway(p)
    BY DEF PairInv, Paired
<1>4. Underway(p) \in Seq(Nat)
    <2>1. Lane(lread_data_cycle2[p], toHost[p], fromHost[p], lwrite_data_cycle2)
        BY <1>0, Lanes
    <2>2. Joined(lread_data_cycle2[p], toHost[p], fromHost[p], lwrite_data_cycle2, 1, p) \in Seq(Nat)
        BY <2>1, JoinedType
    <2> QED BY <2>2, UnderwayJoined
<1>5. \A m \in Nat : /\ Len(Append(Underway(p), m)) = Len(Underway(p)) + 1
                     /\ SubSeq(Append(Underway(p), m), 1, Len(Underway(p))) = Underway(p)
    BY <1>4, AppendPrefix
<1>6. CASE lost'[p] > 0
    BY <1>6
<1>7. CASE Advances(p)
    <2>1. lost[p] = 0 /\ lost'[p] = 0 /\ ~(lost[p] > 0) /\ ~(lost'[p] > 0) /\ Firsts(p) = Underway(p)
        BY <1>3, <1>7 DEF Advances
    <2>2. CASE /\ \E m \in Nat : /\ Firsts(p)' = Append(Firsts(p), m)
                                 /\ Underway(p)' = Append(Underway(p), m)
               /\ answer'[p] = answer[p]
        BY <1>5, <2>1, <2>2
    <2>3. CASE /\ Firsts(p) # <<>> /\ Underway(p) # <<>>
               /\ Firsts(p)' = Tail(Firsts(p)) /\ Underway(p)' = Tail(Underway(p))
               /\ answer'[p] = <<Head(Firsts(p)), Head(Underway(p))>>
        BY <2>1, <2>3
    <2>4. CASE Firsts(p)' = Firsts(p) /\ Underway(p)' = Underway(p) /\ answer'[p] = answer[p]
        BY <2>1, <2>4
    <2> QED BY <1>7, <2>2, <2>3, <2>4 DEF Advances
<1> QED BY <1>2, <1>6, <1>7

\* The initial state is one of the abstract log.
LEMMA LogStart == Init => Log!Init
<1> SUFFICES ASSUME Init PROVE Log!Init
    OBVIOUS
<1>1. ASSUME NEW p \in Ports PROVE Underway(p) = <<>> /\ ~(lost[p] > 0)
    <2>1. /\ toHost[p] = <<>> /\ fromHost[p] = <<>> /\ lread_data_cycle2[p] = <<>>
          /\ lwrite_data_cycle2 = <<>> /\ lost[p] = 0
        BY DEF Init
    <2>2. OfPort(<<>>, p) = <<>> /\ Halves(<<>>, 1) = <<>>
        <3>1. <<>> \in Seq(BufData) /\ <<>> \in Seq(Half)
            OBVIOUS
        <3> QED BY <3>1, OfPortFacts, HalvesFacts
    <2>3. <<>> \o <<>> = <<>>
        OBVIOUS
    <2>4. Underway(p) = <<>>
        BY <2>1, <2>2, <2>3 DEF Underway
    <2>5. ~(lost[p] > 0)
        BY <2>1
    <2> QED BY <2>4, <2>5
<1>2. [p \in Ports |-> Underway(p)] = [p \in Ports |-> <<>>]
    BY <1>1
<1>3. [p \in Ports |-> lost[p] > 0] = [p \in Ports |-> FALSE]
    <2> DEFINE G(p) == lost[p] > 0
    <2>1. \A p \in Ports : G(p) = FALSE
        BY <1>1
    <2> HIDE DEF G
    <2>2. [p \in Ports |-> G(p)] = [p \in Ports |-> FALSE]
        BY <2>1, Zenon
    <2> QED BY <2>2 DEF G
<1>4. answer = [p \in Ports |-> <<0, 0>>]
    BY DEF Init
<1> QED BY <1>2, <1>3, <1>4 DEF Log!Init

\* As long as a port loses nothing, its first halves and its second halves are
\* the same messages in the same order, from the readers to the writers.
THEOREM Pairs == Spec => []PairInv
<1>1. Init => PairInv
    BY PairsStart
<1>2. PairInv /\ [Next]_vars => PairInv'
    BY PairsKept
<1> QED BY <1>1, <1>2, PTL DEF Spec

\* The queues, the link and the two boards implement the log of doc/DTP.md:
\* until a half of a port is lost its messages are read whole, once, and in
\* the order of dtp_logger_write_cnt.
THEOREM Refinement == Spec => ImplementsLog
<1>1. Init => Log!Init
    BY LogStart
<1>2. PairInv /\ [Next]_vars => [Log!Next]_(Log!vars)
    BY LogStep
<1>3. Spec => []PairInv
    BY Pairs
<1> QED BY <1>1, <1>2, <1>3, PTL DEF Spec, ImplementsLog, Log!Spec
=============================================================================

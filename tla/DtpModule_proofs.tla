--------------------------- MODULE DtpModule_proofs -------------------------
(***************************************************************************)
(* Proofs about the loading and unloading of the DTP kernel module and the *)
(* FIFOs between the daemon and the board: after a failed dtp_init and a   *)
(* finished dtp_exit none of the module's resources is held, nothing is    *)
(* used that has been freed, and requests and answers arrive as they were  *)
(* meant, with the exceptions that the theorems name, for any number of    *)
(* clients and of queued requests and any word size.                       *)
(***************************************************************************)
EXTENDS DtpModule, SequenceTheorems, TLAPS

-----------------------------------------------------------------------------
(* The tables of the portal.                                               *)

Wide == {"set_cnt", "send"}       \* requests of a port and 64 bits

\* The methods of the board, by whether they answer.
LEMMA MethodNames ==
    /\ Methods = {"reset", "set_cnt", "send", "set_interval", "version", "cnt", "delay",
                  "state", "error", "message", "local", "global", "interval"}
    /\ Readers = {"version", "cnt", "delay", "state", "error", "message", "local",
                  "global", "interval"}
    /\ Writers = {"reset", "set_cnt", "send", "set_interval"}
BY DEF Methods, Readers, Writers, DtpRequest, DtpIndication

\* A request takes three words, two, or one.
LEMMA RequestSizes ==
    ASSUME NEW m \in Methods
    PROVE  RequestWords[m] = IF m \in Wide THEN 3 ELSE IF m = "set_interval" THEN 2 ELSE 1
<1>1. CASE m \in Wide
  <2>1. DtpRequest[m] = <<8, 64>>  BY <1>1 DEF Wide, DtpRequest
  <2>2. 64 \in Range(DtpRequest[m]) /\ Len(DtpRequest[m]) = 2 /\ DtpRequest[m] # <<>>
    BY <2>1 DEF Range
  <2>3. RequestWords[m] = Len(DtpRequest[m]) + 1
    BY <2>2 DEF RequestWords
  <2> QED  BY <2>2, <2>3, <1>1
<1>2. CASE m \notin Wide
  <2>1. /\ 64 \notin Range(DtpRequest[m])
        /\ Len(DtpRequest[m]) = IF m = "set_interval" THEN 2 ELSE IF m \in {"version", "global"} THEN 0 ELSE 1
        /\ DtpRequest[m] = <<>> <=> m \in {"version", "global"}
    <3>1. CASE m = "set_interval"
      <4>1. DtpRequest[m] = <<8, 32>>  BY <3>1 DEF DtpRequest
      <4> QED  BY <4>1, <3>1 DEF Range
    <3>2. CASE m \in {"version", "global"}
      <4>1. DtpRequest[m] = <<>>  BY <3>2 DEF DtpRequest
      <4> QED  BY <4>1, <3>2 DEF Range
    <3>3. CASE m = "reset"
      <4>1. DtpRequest[m] = <<32>>  BY <3>3 DEF DtpRequest
      <4> QED  BY <4>1, <3>3 DEF Range
    <3>4. CASE m \in {"cnt", "delay", "state", "error", "message", "local", "interval"}
      <4>1. DtpRequest[m] = <<8>>  BY <3>4 DEF DtpRequest
      <4> QED  BY <4>1, <3>4 DEF Range
    <3> QED  BY <1>2, <3>1, <3>2, <3>3, <3>4, MethodNames DEF Wide
  <2> QED  BY <2>1, <1>2 DEF RequestWords, Wide
<1> QED  BY <1>1, <1>2

Tags == {"p", "w", "h", "l"}

\* The words of an answer are read one by one, seven at most.
LEMMA ReadSizes ==
    ASSUME NEW m \in Readers
    PROVE  Reads[m] \in Seq(Tags) /\ Len(Reads[m]) \in 1 .. 7
<1>1. /\ Port \in Seq(Tags) /\ Len(Port) = 1
      /\ dtp_read_portal_32bit \in Seq(Tags) /\ Len(dtp_read_portal_32bit) = 1
      /\ dtp_read_portal_64bit \in Seq(Tags) /\ Len(dtp_read_portal_64bit) = 2
  BY DEF dtp_read_portal_32bit, dtp_read_portal_64bit, Port, Tags
<1>2. \A s, t \in Seq(Tags) : s \o t \in Seq(Tags) /\ Len(s \o t) = Len(s) + Len(t)
  BY ConcatProperties
<1>3. ASSUME NEW t, t \in {dtp_read_version, dtp_read_cnt, dtp_read_global_cnt}
      PROVE  t \in Seq(Tags) /\ Len(t) \in 1 .. 7
  BY <1>1, <1>3 DEF dtp_read_version, dtp_read_cnt, dtp_read_global_cnt
<1>4. /\ Port \o dtp_read_portal_32bit \in Seq(Tags)
      /\ Len(Port \o dtp_read_portal_32bit) = Len(Port) + Len(dtp_read_portal_32bit)
      /\ Port \o dtp_read_portal_64bit \in Seq(Tags)
      /\ Len(Port \o dtp_read_portal_64bit) = Len(Port) + Len(dtp_read_portal_64bit)
  BY <1>1, <1>2, Zenon
<1>5. ASSUME NEW t, t \in {dtp_read_delay, dtp_read_state, dtp_read_beacon_interval,
                          dtp_read_error, dtp_read_local_cnt}
      PROVE  t \in Seq(Tags) /\ Len(t) \in 1 .. 7
  <2>1. t \in {Port \o dtp_read_portal_32bit, Port \o dtp_read_portal_64bit}
    BY <1>5, Zenon DEF dtp_read_delay, dtp_read_state, dtp_read_beacon_interval,
                       dtp_read_error, dtp_read_local_cnt
  <2>2. /\ Len(Port \o dtp_read_portal_32bit) \in 1 .. 7
        /\ Len(Port \o dtp_read_portal_64bit) \in 1 .. 7
    BY <1>1, <1>4
  <2> QED  BY <2>1, <2>2, <1>4, Zenon
<1>6. dtp_read_message \in Seq(Tags) /\ Len(dtp_read_message) \in 1 .. 7
  <2>1. /\ (Port \o dtp_read_portal_64bit) \o dtp_read_portal_64bit \in Seq(Tags)
        /\ Len((Port \o dtp_read_portal_64bit) \o dtp_read_portal_64bit)
              = Len(Port \o dtp_read_portal_64bit) + Len(dtp_read_portal_64bit)
    BY <1>1, <1>2, <1>4, Zenon
  <2>2. /\ dtp_read_message \in Seq(Tags)
        /\ Len(dtp_read_message)
              = Len((Port \o dtp_read_portal_64bit) \o dtp_read_portal_64bit)
                 + Len(dtp_read_portal_64bit)
    BY <1>1, <1>2, <2>1, Zenon DEF dtp_read_message
  <2> QED  BY <1>1, <1>4, <2>1, <2>2
<1>7. Reads[m] \in {dtp_read_version, dtp_read_cnt, dtp_read_global_cnt, dtp_read_delay,
                   dtp_read_state, dtp_read_beacon_interval, dtp_read_error,
                   dtp_read_local_cnt, dtp_read_message}
  BY MethodNames DEF Reads
<1> QED  BY <1>3, <1>5, <1>6, <1>7, Zenon

-----------------------------------------------------------------------------
(* The words that a request is written as, and what they mean.             *)

Word == 0 .. WordMod - 1

\* dtp_write_portal_64bit takes a value apart into two words.
LEMMA TwoHalves ==
    ASSUME NEW v \in 0 .. WordMod * WordMod - 1
    PROVE  /\ v \div WordMod \in Word
           /\ v % WordMod \in Word
           /\ (v \div WordMod) * WordMod + (v % WordMod) = v
<1> DEFINE d == v \div WordMod
           r == v % WordMod
<1>1. WordMod \in Nat \ {0}
  BY PortalAssumption
<1>2. WordMod * WordMod \in Nat /\ v \in Nat /\ v < WordMod * WordMod
  BY <1>1
<1>3. d \in Int /\ r \in Word /\ v = WordMod * d + r
  BY <1>1, <1>2 DEF Word
<1> HIDE DEF d, r
<1>4. d \in Word
  <2>1. r \in Nat /\ r < WordMod
    BY <1>1, <1>3 DEF Word
  <2>2. d >= 0
    <3>1. SUFFICES ASSUME d + 1 <= 0 PROVE FALSE
      BY <1>3
    <3>2. WordMod * (d + 1) <= 0
      BY <3>1, <1>1, <1>3
    <3>3. WordMod * (d + 1) = WordMod * d + WordMod
      BY <1>1, <1>3
    <3>4. WordMod * d \in Int
      BY <1>1, <1>3
    <3> QED  BY <3>2, <3>3, <3>4, <2>1, <1>1, <1>2, <1>3
  <2>3. d < WordMod
    <3>1. SUFFICES ASSUME d >= WordMod PROVE FALSE
      BY <1>1, <1>3
    <3>2. WordMod * d >= WordMod * WordMod
      BY <3>1, <1>1, <1>3
    <3>3. WordMod * d \in Int
      BY <1>1, <1>3
    <3> QED  BY <3>2, <3>3, <2>1, <1>1, <1>2, <1>3
  <2> QED  BY <2>2, <2>3, <1>1, <1>3 DEF Word
<1>5. WordMod * d = d * WordMod
  BY <1>1, <1>3
<1> QED  BY <1>3, <1>4, <1>5 DEF d, r

\* What a caller may ask for: a value of 64 bits, one of 32, or none.
Request(m) == [p: Word, v: IF m \in Wide THEN 0 .. WordMod * WordMod - 1
                           ELSE IF m = "set_interval" THEN Word ELSE {0}]

\* The words q stand for the requests a, three words to a request, two, or one.
Threes(q, a) ==
    /\ Len(q) = 3 * Len(a)
    /\ \A j \in 1 .. Len(a) : /\ q[3 * j - 2] = a[j].p
                              /\ q[3 * j - 1] = a[j].v \div WordMod
                              /\ q[3 * j] = a[j].v % WordMod

Twos(q, a) ==
    /\ Len(q) = 2 * Len(a)
    /\ \A j \in 1 .. Len(a) : q[2 * j - 1] = a[j].p /\ q[2 * j] = a[j].v

Ones(q, a) ==
    /\ Len(q) = Len(a)
    /\ \A j \in 1 .. Len(a) : q[j] = a[j].p

Means(m, q, a) ==
    IF m \in Wide THEN Threes(q, a) ELSE IF m = "set_interval" THEN Twos(q, a) ELSE Ones(q, a)

\* Words that are written after others mean the requests after theirs.
LEMMA MeansConcat ==
    ASSUME NEW m, NEW q \in Seq(Word), NEW w \in Seq(Word),
           NEW a \in Seq(Request(m)), NEW b \in Seq(Request(m)),
           Means(m, q, a), Means(m, w, b)
    PROVE  /\ q \o w \in Seq(Word) /\ a \o b \in Seq(Request(m))
           /\ Means(m, q \o w, a \o b)
<1>1. /\ q \o w \in Seq(Word) /\ Len(q \o w) = Len(q) + Len(w)
      /\ \A i \in 1 .. Len(q) + Len(w) :
            (q \o w)[i] = IF i <= Len(q) THEN q[i] ELSE w[i - Len(q)]
  BY ConcatProperties
<1>2. /\ a \o b \in Seq(Request(m)) /\ Len(a \o b) = Len(a) + Len(b)
      /\ \A i \in 1 .. Len(a) + Len(b) :
            (a \o b)[i] = IF i <= Len(a) THEN a[i] ELSE b[i - Len(a)]
  BY ConcatProperties
<1> DEFINE qw == q \o w
           ab == a \o b
<1>3. Len(q) \in Nat /\ Len(w) \in Nat /\ Len(a) \in Nat /\ Len(b) \in Nat
  OBVIOUS
<1> HIDE DEF qw, ab
<1>4. CASE m \in Wide
  <2>1. Threes(q, a) /\ Threes(w, b)
    BY <1>4 DEF Means
  <2>2. Len(qw) = 3 * Len(ab)
    BY <1>1, <1>2, <1>3, <2>1 DEF qw, ab, Threes
  <2>3. ASSUME NEW j \in 1 .. Len(ab)
        PROVE  /\ qw[3 * j - 2] = ab[j].p
               /\ qw[3 * j - 1] = ab[j].v \div WordMod
               /\ qw[3 * j] = ab[j].v % WordMod
    <3>1. CASE j <= Len(a)
      <4>1. ab[j] = a[j] /\ j \in 1 .. Len(a)
        BY <1>2, <1>3, <3>1 DEF ab
      <4>2. qw[3 * j - 2] = q[3 * j - 2] /\ qw[3 * j - 1] = q[3 * j - 1] /\ qw[3 * j] = q[3 * j]
        BY <1>1, <1>3, <2>1, <4>1, SMTT(20) DEF qw, Threes
      <4> QED  BY <4>1, <4>2, <2>1 DEF Threes
    <3>2. CASE j > Len(a)
      <4> DEFINE k == j - Len(a)
      <4>1. ab[j] = b[k] /\ k \in 1 .. Len(b)
        BY <1>2, <1>3, <3>2 DEF ab
      <4>2. /\ j = k + Len(a) /\ Len(q) = 3 * Len(a) /\ Len(w) = 3 * Len(b)
            /\ j \in Nat /\ k \in Nat /\ 1 <= k /\ k <= Len(b)
        BY <1>2, <1>3, <2>1, <4>1 DEF ab, Threes
      <4> HIDE DEF k
      <4>3. ASSUME NEW i \in {3 * j - 2, 3 * j - 1, 3 * j}
            PROVE  i \in 1 .. Len(q) + Len(w) /\ i > Len(q)
        BY <4>2, <1>3, SMTT(20)
      <4>4. ASSUME NEW i \in {3 * j - 2, 3 * j - 1, 3 * j}
            PROVE  qw[i] = w[i - Len(q)]
        BY <4>3, <1>1, <1>3 DEF qw
      <4>5. /\ 3 * j - 2 - Len(q) = 3 * k - 2 /\ 3 * j - 1 - Len(q) = 3 * k - 1
            /\ 3 * j - Len(q) = 3 * k
        BY <4>2, <1>3
      <4>6. qw[3 * j - 2] = w[3 * k - 2] /\ qw[3 * j - 1] = w[3 * k - 1] /\ qw[3 * j] = w[3 * k]
        BY <4>4, <4>5
      <4> QED  BY <4>1, <4>6, <2>1 DEF Threes
    <3> QED  BY <3>1, <3>2, <1>2, <1>3 DEF ab
  <2>4. Threes(qw, ab)
    BY <2>2, <2>3 DEF Threes
  <2> QED  BY <2>4, <1>4, <1>1, <1>2 DEF Means, qw, ab
<1>5. CASE m \notin Wide /\ m = "set_interval"
  <2>1. Twos(q, a) /\ Twos(w, b)
    BY <1>5 DEF Means
  <2>2. Len(qw) = 2 * Len(ab)
    BY <1>1, <1>2, <1>3, <2>1 DEF qw, ab, Twos
  <2>3. ASSUME NEW j \in 1 .. Len(ab)
        PROVE  qw[2 * j - 1] = ab[j].p /\ qw[2 * j] = ab[j].v
    <3>1. CASE j <= Len(a)
      <4>1. ab[j] = a[j] /\ j \in 1 .. Len(a)
        BY <1>2, <1>3, <3>1 DEF ab
      <4>2. qw[2 * j - 1] = q[2 * j - 1] /\ qw[2 * j] = q[2 * j]
        BY <1>1, <1>3, <2>1, <4>1 DEF qw, Twos
      <4> QED  BY <4>1, <4>2, <2>1 DEF Twos
    <3>2. CASE j > Len(a)
      <4> DEFINE k == j - Len(a)
      <4>1. ab[j] = b[k] /\ k \in 1 .. Len(b)
        BY <1>2, <1>3, <3>2 DEF ab
      <4>2. /\ j = k + Len(a) /\ Len(q) = 2 * Len(a) /\ Len(w) = 2 * Len(b)
            /\ j \in Nat /\ k \in Nat /\ 1 <= k /\ k <= Len(b)
        BY <1>2, <1>3, <2>1, <4>1 DEF ab, Twos
      <4> HIDE DEF k
      <4>3. ASSUME NEW i \in {2 * j - 1, 2 * j}
            PROVE  i \in 1 .. Len(q) + Len(w) /\ i > Len(q)
        BY <4>2, <1>3, SMTT(20)
      <4>4. ASSUME NEW i \in {2 * j - 1, 2 * j}
            PROVE  qw[i] = w[i - Len(q)]
        BY <4>3, <1>1, <1>3 DEF qw
      <4>5. 2 * j - 1 - Len(q) = 2 * k - 1 /\ 2 * j - Len(q) = 2 * k
        BY <4>2, <1>3
      <4>6. qw[2 * j - 1] = w[2 * k - 1] /\ qw[2 * j] = w[2 * k]
        BY <4>4, <4>5
      <4> QED  BY <4>1, <4>6, <2>1 DEF Twos
    <3> QED  BY <3>1, <3>2, <1>2, <1>3 DEF ab
  <2>4. Twos(qw, ab)
    BY <2>2, <2>3 DEF Twos
  <2> QED  BY <2>4, <1>5, <1>1, <1>2 DEF Means, qw, ab
<1>6. CASE m \notin Wide /\ m # "set_interval"
  <2>1. Ones(q, a) /\ Ones(w, b)
    BY <1>6 DEF Means
  <2>2. Len(qw) = Len(ab)
    BY <1>1, <1>2, <1>3, <2>1 DEF qw, ab, Ones
  <2>3. ASSUME NEW j \in 1 .. Len(ab) PROVE qw[j] = ab[j].p
    <3>1. CASE j <= Len(a)
      BY <1>1, <1>2, <1>3, <2>1, <3>1 DEF qw, ab, Ones
    <3>2. CASE j > Len(a)
      <4>1. j - Len(a) \in 1 .. Len(b)
        BY <1>2, <1>3, <3>2 DEF ab
      <4> QED  BY <1>1, <1>2, <1>3, <2>1, <3>2, <4>1, SMTT(20) DEF qw, ab, Ones
    <3> QED  BY <3>1, <3>2, <1>2, <1>3 DEF ab
  <2>4. Ones(qw, ab)
    BY <2>2, <2>3 DEF Ones
  <2> QED  BY <2>4, <1>6, <1>1, <1>2 DEF Means, qw, ab
<1> QED  BY <1>4, <1>5, <1>6

\* What is written for one request means that request.
LEMMA WrittenMeans ==
    ASSUME NEW m \in Methods, NEW e \in Request(m)
    PROVE  Written(m, e.p, e.v) \in Seq(Word) /\ Means(m, Written(m, e.p, e.v), <<e>>)
<1>1. e.p \in Word
  BY PortalAssumption DEF Request, Ports, Word
<1>2. CASE m \in Wide
  <2>1. e.v \in 0 .. WordMod * WordMod - 1
    BY <1>2 DEF Request
  <2>2. e.v \div WordMod \in Word /\ e.v % WordMod \in Word
    BY <2>1, TwoHalves
  <2> DEFINE h == e.v \div WordMod
             l == e.v % WordMod
  <2>3. Written(m, e.p, e.v) = <<e.p>> \o <<h, l>>
    BY <1>2 DEF Written, Wide, dtp_set_cnt, dtp_send_message, dtp_write_portal_32bit,
                dtp_write_portal_64bit
  <2>4. h \in Word /\ l \in Word
    BY <2>2
  <2> HIDE DEF h, l
  <2> DEFINE w == <<e.p>> \o <<h, l>>
  <2>5. <<e.p>> \in Seq(Word) /\ <<h, l>> \in Seq(Word)
    BY <1>1, <2>4
  <2>6. /\ w \in Seq(Word) /\ Len(w) = Len(<<e.p>>) + Len(<<h, l>>)
        /\ \A i \in 1 .. Len(<<e.p>>) + Len(<<h, l>>) :
              w[i] = IF i <= Len(<<e.p>>) THEN <<e.p>>[i] ELSE <<h, l>>[i - Len(<<e.p>>)]
    BY <2>5, ConcatProperties
  <2> HIDE DEF w
  <2>7. /\ w \in Seq(Word) /\ Len(w) = 3
        /\ w[1] = e.p /\ w[2] = e.v \div WordMod /\ w[3] = e.v % WordMod
    <3>1. Len(w) = 3 /\ w[1] = e.p /\ w[2] = h /\ w[3] = l
      BY <2>6
    <3> QED  BY <2>6, <3>1 DEF h, l
  <2>8. Threes(w, <<e>>)
    <3>1. Len(<<e>>) = 1 /\ <<e>>[1] = e
      OBVIOUS
    <3>2. Len(w) = 3 * Len(<<e>>)
      BY <2>7, <3>1
    <3>3. ASSUME NEW j \in 1 .. Len(<<e>>)
          PROVE  j = 1 /\ 3 * j - 2 = 1 /\ 3 * j - 1 = 2 /\ 3 * j = 3
      BY <3>1
    <3> QED  BY <2>7, <3>1, <3>2, <3>3 DEF Threes
  <2> QED  BY <2>3, <2>7, <2>8, <1>2 DEF Means, w
<1>3. CASE m = "set_interval"
  <2>1. e.v \in Word
    BY <1>3 DEF Request, Wide
  <2>2. Written(m, e.p, e.v) = <<e.p>> \o <<e.v>>
    BY <1>3 DEF Written, dtp_set_beacon_interval, dtp_write_portal_32bit
  <2> DEFINE w == <<e.p>> \o <<e.v>>
  <2>3. <<e.p>> \in Seq(Word) /\ <<e.v>> \in Seq(Word)
    BY <1>1, <2>1
  <2>4. /\ w \in Seq(Word) /\ Len(w) = Len(<<e.p>>) + Len(<<e.v>>)
        /\ \A i \in 1 .. Len(<<e.p>>) + Len(<<e.v>>) :
              w[i] = IF i <= Len(<<e.p>>) THEN <<e.p>>[i] ELSE <<e.v>>[i - Len(<<e.p>>)]
    BY <2>3, ConcatProperties
  <2> HIDE DEF w
  <2>5. w \in Seq(Word) /\ Len(w) = 2 /\ w[1] = e.p /\ w[2] = e.v
    BY <2>4
  <2>6. Twos(w, <<e>>)
    <3>1. Len(<<e>>) = 1 /\ <<e>>[1] = e
      OBVIOUS
    <3>2. Len(w) = 2 * Len(<<e>>)
      BY <2>5, <3>1
    <3>3. ASSUME NEW j \in 1 .. Len(<<e>>)
          PROVE  j = 1 /\ 2 * j - 1 = 1 /\ 2 * j = 2
      BY <3>1
    <3> QED  BY <2>5, <3>1, <3>2, <3>3 DEF Twos
  <2> QED  BY <2>2, <2>5, <2>6, <1>3 DEF Means, Wide, w
<1>4. CASE m \notin Wide \cup {"set_interval"}
  <2>1. Written(m, e.p, e.v) = <<e.p>>
    BY <1>4, MethodNames DEF Written, Wide, dtp_reset, dtp_write_portal_32bit
  <2>2. Ones(<<e.p>>, <<e>>)
    BY DEF Ones
  <2> QED  BY <1>1, <1>4, <2>1, <2>2 DEF Means
<1> QED  BY <1>2, <1>3, <1>4

\* The board takes the first words for what the first request means.
LEMMA Decoded ==
    ASSUME NEW m \in Methods, req[m] \in Seq(Word), asked[m] \in Seq(Request(m)),
           Means(m, req[m], asked[m]), asked[m] # <<>>
    PROVE  Decode(m) = Head(asked[m])
<1> DEFINE a == asked[m]
           q == req[m]
           e == Head(asked[m])
<1>1. e = a[1] /\ Len(a) >= 1 /\ Len(a) \in Nat /\ e \in Request(m)
  OBVIOUS
<1>2. e = [p |-> e.p, v |-> e.v]
  BY <1>1 DEF Request
<1> HIDE DEF e
<1>3. CASE m \in Wide
  <2>1. q[1] = e.p /\ q[2] = e.v \div WordMod /\ q[3] = e.v % WordMod
    <3>1. 3 * 1 - 2 = 1 /\ 3 * 1 - 1 = 2 /\ 3 * 1 = 3
      OBVIOUS
    <3>2. Threes(q, a)
      BY <1>3 DEF Means
    <3>3. q[3 * 1 - 2] = a[1].p /\ q[3 * 1 - 1] = a[1].v \div WordMod /\ q[3 * 1] = a[1].v % WordMod
      <4>1. 1 \in 1 .. Len(a)
        BY <1>1
      <4> QED  BY <3>2, <4>1, Zenon DEF Threes
    <3> QED  BY <1>1, <3>1, <3>3
  <2>2. e.v \in 0 .. WordMod * WordMod - 1
    BY <1>1, <1>3 DEF Request
  <2>3. q[2] * WordMod + q[3] = e.v
    BY <2>1, <2>2, TwoHalves
  <2>4. Decode(m) = [p |-> q[1], v |-> q[2] * WordMod + q[3]]
    BY <1>3, RequestSizes DEF Decode
  <2> QED  BY <1>2, <2>1, <2>3, <2>4 DEF e
<1>4. CASE m = "set_interval"
  <2>1. q[1] = e.p /\ q[2] = e.v
    <3>1. 2 * 1 - 1 = 1 /\ 2 * 1 = 2
      OBVIOUS
    <3>2. Twos(q, a)
      BY <1>4 DEF Means, Wide
    <3>3. q[2 * 1 - 1] = a[1].p /\ q[2 * 1] = a[1].v
      <4>1. 1 \in 1 .. Len(a)
        BY <1>1
      <4> QED  BY <3>2, <4>1, Zenon DEF Twos
    <3> QED  BY <1>1, <3>1, <3>3
  <2>2. Decode(m) = [p |-> q[1], v |-> q[2]]
    BY <1>4, RequestSizes DEF Decode, Wide
  <2> QED  BY <1>2, <2>1, <2>2 DEF e
<1>5. CASE m \notin Wide \cup {"set_interval"}
  <2>1. q[1] = e.p
    BY <1>1, <1>5 DEF Means, Ones
  <2>2. e.v = 0
    BY <1>1, <1>5 DEF Request
  <2>3. Decode(m) = [p |-> q[1], v |-> 0]
    BY <1>5, RequestSizes DEF Decode
  <2> QED  BY <1>2, <2>1, <2>2, <2>3 DEF e
<1> QED  BY <1>3, <1>4, <1>5

\* The words that it leaves mean the requests that are left.
LEMMA MeansTail ==
    ASSUME NEW m \in Methods, NEW q \in Seq(Word), NEW a \in Seq(Request(m)),
           Means(m, q, a), Len(q) >= RequestWords[m]
    PROVE  /\ a # <<>> /\ Tail(a) \in Seq(Request(m))
           /\ SubSeq(q, RequestWords[m] + 1, Len(q)) \in Seq(Word)
           /\ Means(m, SubSeq(q, RequestWords[m] + 1, Len(q)), Tail(a))
<1> DEFINE n == RequestWords[m]
           r == SubSeq(q, n + 1, Len(q))
           t == Tail(a)
<1>1. Len(q) \in Nat /\ Len(a) \in Nat /\ n \in 1 .. 3
  BY RequestSizes
<1>2. Len(q) = n * Len(a)
  <2>1. CASE m \in Wide
    BY <2>1, RequestSizes DEF Means, Threes
  <2>2. CASE m \notin Wide /\ m = "set_interval"
    BY <2>2, RequestSizes DEF Means, Twos
  <2>3. CASE m \notin Wide /\ m # "set_interval"
    BY <2>3, RequestSizes, <1>1 DEF Means, Ones
  <2> QED  BY <2>1, <2>2, <2>3
<1>3. Len(a) >= 1 /\ a # <<>>
  BY <1>1, <1>2
<1>4. /\ t \in Seq(Request(m)) /\ Len(t) = Len(a) - 1
      /\ \A j \in 1 .. Len(t) : t[j] = a[j + 1]
  BY <1>3
<1>5. /\ r \in Seq(Word) /\ Len(r) = Len(q) - n
      /\ \A i \in 1 .. Len(r) : r[i] = q[i + n]
  BY <1>1, SubSeqProperties, SMTT(20)
<1> HIDE DEF n, r, t
<1>6. CASE m \in Wide
  <2>1. n = 3 /\ Threes(q, a)
    BY <1>6, RequestSizes DEF n, Means
  <2>2. Len(r) = 3 * Len(t)
    BY <1>1, <1>2, <1>4, <1>5, <2>1
  <2>3. ASSUME NEW j \in 1 .. Len(t)
        PROVE  /\ r[3 * j - 2] = t[j].p
               /\ r[3 * j - 1] = t[j].v \div WordMod
               /\ r[3 * j] = t[j].v % WordMod
    <3>1. /\ r[3 * j - 2] = q[3 * (j + 1) - 2] /\ r[3 * j - 1] = q[3 * (j + 1) - 1]
          /\ r[3 * j] = q[3 * (j + 1)]
      <4>1. /\ {3 * j - 2, 3 * j - 1, 3 * j} \subseteq 1 .. Len(r)
            /\ 3 * j - 2 + 3 = 3 * (j + 1) - 2 /\ 3 * j - 1 + 3 = 3 * (j + 1) - 1
            /\ 3 * j + 3 = 3 * (j + 1)
        BY <2>2, <1>1, <1>4
      <4> QED  BY <4>1, <1>5, <2>1
    <3>2. t[j] = a[j + 1] /\ j + 1 \in 1 .. Len(a)
      BY <1>1, <1>4
    <3> QED  BY <3>1, <3>2, <2>1 DEF Threes
  <2> QED  BY <1>3, <1>4, <1>5, <1>6, <2>2, <2>3 DEF Means, Threes, n, r, t
<1>7. CASE m \notin Wide /\ m = "set_interval"
  <2>1. n = 2 /\ Twos(q, a)
    BY <1>7, RequestSizes DEF n, Means
  <2>2. Len(r) = 2 * Len(t)
    BY <1>1, <1>2, <1>4, <1>5, <2>1
  <2>3. ASSUME NEW j \in 1 .. Len(t) PROVE r[2 * j - 1] = t[j].p /\ r[2 * j] = t[j].v
    <3>1. r[2 * j - 1] = q[2 * (j + 1) - 1] /\ r[2 * j] = q[2 * (j + 1)]
      <4>1. /\ {2 * j - 1, 2 * j} \subseteq 1 .. Len(r)
            /\ 2 * j - 1 + 2 = 2 * (j + 1) - 1 /\ 2 * j + 2 = 2 * (j + 1)
        BY <2>2, <1>1, <1>4
      <4> QED  BY <4>1, <1>5, <2>1
    <3>2. t[j] = a[j + 1] /\ j + 1 \in 1 .. Len(a)
      BY <1>1, <1>4
    <3> QED  BY <3>1, <3>2, <2>1 DEF Twos
  <2> QED  BY <1>3, <1>4, <1>5, <1>7, <2>2, <2>3 DEF Means, Twos, n, r, t
<1>8. CASE m \notin Wide /\ m # "set_interval"
  <2>1. n = 1 /\ Ones(q, a)
    BY <1>8, RequestSizes DEF n, Means
  <2>2. Len(r) = Len(t) /\ \A j \in 1 .. Len(t) : r[j] = t[j].p
    BY <1>1, <1>4, <1>5, <2>1, SMTT(20) DEF Ones
  <2> QED  BY <1>3, <1>4, <1>5, <1>8, <2>2 DEF Means, Ones, n, r, t
<1> QED  BY <1>6, <1>7, <1>8

-----------------------------------------------------------------------------
(* The inductive invariant of the portal.                                  *)

\* The words in each request FIFO mean the requests that are queued.
RequestInv ==
    /\ req \in [Methods -> Seq(Word)]
    /\ asked \in [Methods -> Seq([p: Word, v: Nat])]
    /\ \A m \in Methods : asked[m] \in Seq(Request(m)) /\ Means(m, req[m], asked[m])

Answer(m) == [p: Word, vals: Contents(m)]

Call == [m: Readers, p: Ports, k: 0 .. 7, reads: Seq(Tags)]

AnswerInv ==
    /\ fifo \in [Readers -> Seq(Word)]
    /\ call \in {NoCall} \cup Call
    /\ call # NoCall => /\ Len(call.reads) \in 1 .. 7 /\ call.k < Len(call.reads)
                        /\ call.reads = Reads[call.m] \/ call.m \in late
    /\ acc \in Seq(Nat)
    /\ DOMAIN out = Readers
    /\ \A m \in Readers : out[m] \in Seq(Answer(m))
    /\ late \subseteq Readers

PortalInv == RequestInv /\ AnswerInv

\* It types the FIFOs, the call and the answers.
LEMMA PortalTypes == PortalInv => PortalTypeOK
<1> SUFFICES ASSUME PortalInv PROVE PortalTypeOK
  OBVIOUS
<1>1. ASSUME NEW m \in Readers, NEW j \in DOMAIN out[m] PROVE out[m][j].vals \in Contents(m)
  <2>1. out[m] \in Seq(Answer(m))
    BY DEF PortalInv, AnswerInv
  <2>2. out[m][j] \in Answer(m)
    BY <2>1
  <2> QED  BY <2>2 DEF Answer
<1>2. call \in {NoCall} \cup [m: Readers, p: Ports, k: 0 .. 7, reads: Seq({"p", "w", "h", "l"})]
  <2>1. Tags = {"p", "w", "h", "l"}
    BY DEF Tags
  <2> QED  BY <2>1, Zenon DEF PortalInv, AnswerInv, Call
<1> QED  BY <1>1, <1>2 DEF PortalInv, RequestInv, AnswerInv, PortalTypeOK, Word

\* It holds of empty FIFOs.
LEMMA PortalStarts == PortalInit => PortalInv
<1> SUFFICES ASSUME PortalInit PROVE PortalInv
  OBVIOUS
<1>1. ASSUME NEW m \in Methods PROVE Means(m, <<>>, <<>>)
  BY DEF Means, Threes, Twos, Ones
<1>2. RequestInv
  BY <1>1 DEF PortalInit, RequestInv
<1>3. AnswerInv
  BY DEF PortalInit, AnswerInv
<1> QED  BY <1>2, <1>3 DEF PortalInv

\* Further requests of one method, written as they are meant.
LEMMA RequestsWritten ==
    ASSUME RequestInv, NEW m \in Methods, NEW w \in Seq(Word), NEW b \in Seq(Request(m)),
           Means(m, w, b), req' = [req EXCEPT ![m] = @ \o w],
           asked' = [asked EXCEPT ![m] = @ \o b]
    PROVE  RequestInv'
<1>1. /\ req[m] \in Seq(Word) /\ asked[m] \in Seq(Request(m)) /\ Means(m, req[m], asked[m])
  BY DEF RequestInv
<1>2. /\ req[m] \o w \in Seq(Word) /\ asked[m] \o b \in Seq(Request(m))
      /\ Means(m, req[m] \o w, asked[m] \o b)
  BY <1>1, MeansConcat
<1>3. req' \in [Methods -> Seq(Word)]
  BY <1>2 DEF RequestInv
<1>4. asked[m] \o b \in Seq([p: Word, v: Nat])
  <2>1. Request(m) \subseteq [p: Word, v: Nat]
    BY PortalAssumption DEF Request, Word
  <2> QED  BY <1>2, <2>1, SeqMonotonic
<1>5. asked' \in [Methods -> Seq([p: Word, v: Nat])]
  BY <1>4 DEF RequestInv
<1>6. ASSUME NEW k \in Methods
      PROVE  asked'[k] \in Seq(Request(k)) /\ Means(k, req'[k], asked'[k])
  BY <1>2 DEF RequestInv
<1> QED  BY <1>3, <1>5, <1>6 DEF RequestInv, Request, Means, Threes, Twos, Ones, Word, Ports

\* A call of the daemon writes its request.
LEMMA PostRequests ==
    ASSUME RequestInv, NEW m \in Methods, NEW p, NEW v, NEW reads, [p |-> p, v |-> v] \in Request(m),
           Post(m, p, v, reads)
    PROVE  RequestInv'
<1> DEFINE e == [p |-> p, v |-> v]
<1>1. e \in Request(m) /\ e.p = p /\ e.v = v
  OBVIOUS
<1>2. asked[m] \in Seq(Request(m)) /\ asked \in [Methods -> Seq([p: Word, v: Nat])]
  BY DEF RequestInv
<1> HIDE DEF e
<1>3. Written(m, p, v) \in Seq(Word) /\ Means(m, Written(m, p, v), <<e>>)
  BY <1>1, WrittenMeans
<1>4. Append(asked[m], e) = asked[m] \o <<e>> /\ <<e>> \in Seq(Request(m))
  BY <1>1, <1>2, AppendIsConcat
<1>5. /\ req' = [req EXCEPT ![m] = @ \o Written(m, p, v)]
      /\ asked' = [asked EXCEPT ![m] = @ \o <<e>>]
  <2>1. asked' = [asked EXCEPT ![m] = Append(@, e)]
    BY DEF Post, e
  <2> QED  BY <2>1, <1>4 DEF Post
<1> QED  BY <1>3, <1>4, <1>5, RequestsWritten

\* The board takes one request, with its words.
LEMMA ServeRequests ==
    ASSUME RequestInv, NEW m \in Methods, Serve(m)
    PROVE  RequestInv'
<1> DEFINE q == req[m]
           a == asked[m]
           r == SubSeq(q, RequestWords[m] + 1, Len(q))
<1>1. q \in Seq(Word) /\ a \in Seq(Request(m)) /\ Means(m, q, a)
  BY DEF RequestInv
<1>2. Len(q) >= RequestWords[m]
  BY DEF Serve
<1>3. /\ a # <<>> /\ Tail(a) \in Seq(Request(m))
      /\ r \in Seq(Word) /\ Means(m, r, Tail(a))
  BY <1>1, <1>2, MeansTail
<1>4. req' = [req EXCEPT ![m] = r] /\ asked' = [asked EXCEPT ![m] = Tail(a)]
  BY DEF Serve
<1>5. Tail(a) \in Seq([p: Word, v: Nat])
  <2>1. Request(m) \subseteq [p: Word, v: Nat]
    BY PortalAssumption DEF Request, Word
  <2> QED  BY <1>3, <2>1, SeqMonotonic
<1> HIDE DEF q, a, r
<1>6. req' \in [Methods -> Seq(Word)] /\ asked' \in [Methods -> Seq([p: Word, v: Nat])]
  BY <1>3, <1>4, <1>5 DEF RequestInv
<1>7. ASSUME NEW k \in Methods
      PROVE  asked'[k] \in Seq(Request(k)) /\ Means(k, req'[k], asked'[k])
  BY <1>3, <1>4 DEF RequestInv
<1> QED  BY <1>6, <1>7 DEF RequestInv, Request, Means, Threes, Twos, Ones, Word, Ports

\* The beacon intervals that dtp_init sets are requests of two words each.
LEMMA IntervalRequests ==
    ASSUME RequestInv, SetIntervals
    PROVE  RequestInv'
<1> DEFINE m == "set_interval"
           N == PortNum - 1
           new == [k \in 1 .. N |-> [p |-> k - 1, v |-> k % WordMod]]
           W2(e) == dtp_set_beacon_interval(e.p, e.v)
           w == [k \in 1 .. 2 * Len(new) |-> W2(new[(k + 1) \div 2])[2 - (k % 2)]]
<1>1. /\ req' = [req EXCEPT ![m] = @ \o w]
      /\ asked' = [asked EXCEPT ![m] = @ \o new]
  BY DEF SetIntervals
<1>2. N \in Nat /\ WordMod \in Nat \ {0}
  BY PortalAssumption
<1>3. new \in Seq(Request(m)) /\ Len(new) = N
  <2>1. ASSUME NEW k \in 1 .. N PROVE [p |-> k - 1, v |-> k % WordMod] \in Request(m)
    BY <1>2, PortalAssumption DEF Request, Wide, Ports, Word
  <2> QED  BY <2>1, <1>2
<1>4. ASSUME NEW e \in Request(m)
      PROVE  /\ W2(e)[1] = e.p /\ W2(e)[2] = e.v
             /\ e.p \in Word /\ e.v \in Word
  <2>1. e.p \in Word /\ e.v \in Word
    BY PortalAssumption DEF Request, Wide, Ports, Word
  <2>2. <<e.p>> \in Seq(Word) /\ <<e.v>> \in Seq(Word)
    BY <2>1
  <2>3. \A i \in 1 .. Len(<<e.p>>) + Len(<<e.v>>) :
            W2(e)[i] = IF i <= Len(<<e.p>>) THEN <<e.p>>[i] ELSE <<e.v>>[i - Len(<<e.p>>)]
    BY <2>2, ConcatProperties DEF dtp_set_beacon_interval, dtp_write_portal_32bit
  <2> QED  BY <2>1, <2>3
<1> HIDE DEF new, W2
<1>5. ASSUME NEW j \in 1 .. N
      PROVE  w[2 * j - 1] = new[j].p /\ w[2 * j] = new[j].v
  <2>1. /\ 2 * j - 1 \in 1 .. 2 * Len(new) /\ 2 * j \in 1 .. 2 * Len(new)
        /\ (2 * j - 1 + 1) \div 2 = j /\ (2 * j + 1) \div 2 = j
        /\ 2 - ((2 * j - 1) % 2) = 1 /\ 2 - ((2 * j) % 2) = 2
    BY <1>2, <1>3
  <2>2. new[j] \in Request(m)
    BY <1>3
  <2> QED  BY <2>1, <2>2, <1>4
<1>6. w \in Seq(Word) /\ Len(w) = 2 * N
  <2> DEFINE F(k) == W2(new[(k + 1) \div 2])[2 - (k % 2)]
  <2>1. ASSUME NEW k \in 1 .. 2 * Len(new)
        PROVE  F(k) \in Word
    <3>1. (k + 1) \div 2 \in 1 .. Len(new) /\ 2 - (k % 2) \in {1, 2}
      BY <1>2, <1>3
    <3>2. new[(k + 1) \div 2] \in Request(m)
      BY <1>3, <3>1
    <3> QED  BY <3>1, <3>2, <1>4
  <2>2. w = [k \in 1 .. 2 * Len(new) |-> F(k)]
    OBVIOUS
  <2> HIDE DEF F, w
  <2> QED  BY <2>1, <2>2, <1>2, <1>3
<1> HIDE DEF w
<1>7. Means(m, w, new)
  BY <1>3, <1>5, <1>6 DEF Means, Twos, Wide
<1>8. m \in Methods
  BY MethodNames
<1> HIDE DEF m
<1> QED  BY <1>1, <1>3, <1>6, <1>7, <1>8, RequestsWritten

-----------------------------------------------------------------------------
(* The answers.                                                            *)

\* Which methods of DtpController answer with 64 bits.
Long == {"cnt", "error", "message", "local", "global"}

LEMMA AnswerSizes ==
    ASSUME NEW m \in Readers
    PROVE  64 \in Range(DtpIndication[m]) <=> m \in Long
<1>1. CASE m \in {"version"}
  <2>1. DtpIndication[m] = <<32>>  BY <1>1 DEF DtpIndication
  <2> QED  BY <2>1, <1>1 DEF Range, Long
<1>2. CASE m \in {"cnt", "global"}
  <2>1. DtpIndication[m] = <<64>>  BY <1>2 DEF DtpIndication
  <2> QED  BY <2>1, <1>2 DEF Range, Long
<1>3. CASE m \in {"delay", "state", "interval"}
  <2>1. DtpIndication[m] = <<8, 32>>  BY <1>3 DEF DtpIndication
  <2> QED  BY <2>1, <1>3 DEF Range, Long
<1>4. CASE m \in {"error", "local"}
  <2>1. DtpIndication[m] = <<8, 64>>  BY <1>4 DEF DtpIndication
  <2>2. 64 \in Range(<<8, 64>>)
    <3>1. <<8, 64>>[2] = 64 /\ 2 \in DOMAIN <<8, 64>>  OBVIOUS
    <3> QED  BY <3>1, Zenon DEF Range
  <2> QED  BY <2>1, <2>2, <1>4 DEF Long
<1>5. CASE m = "message"
  <2>1. DtpIndication[m] = <<8, 64, 64, 64>>  BY <1>5 DEF DtpIndication
  <2>2. 64 \in Range(<<8, 64, 64, 64>>)
    <3>1. <<8, 64, 64, 64>>[2] = 64 /\ 2 \in DOMAIN <<8, 64, 64, 64>>  OBVIOUS
    <3> QED  BY <3>1, Zenon DEF Range
  <2> QED  BY <2>1, <2>2, <1>5 DEF Long
<1> QED  BY <1>1, <1>2, <1>3, <1>4, <1>5, MethodNames

\* The words of an answer, and those of them that carry the port.
Size(m) == Len(Reads[m])

Off(m) == IF m \in {"version", "cnt", "global"} THEN 0 ELSE 1

Count(m) == IF m = "message" THEN 3 ELSE 1

\* How the daemon reads each word of an answer.
LEMMA ReadTags ==
    ASSUME NEW m \in Readers
    PROVE  /\ Size(m) = IF m \in Long THEN Off(m) + 2 * Count(m) ELSE Off(m) + 1
           /\ \A k \in 1 .. Size(m) :
                 Reads[m][k] = IF k <= Off(m) THEN "p" ELSE IF m \notin Long THEN "w"
                               ELSE IF (k - Off(m)) % 2 = 1 THEN "h" ELSE "l"
<1> DEFINE W == dtp_read_portal_32bit
           D == dtp_read_portal_64bit
           s1 == Port \o D
           s2 == s1 \o D
           s3 == s2 \o D
           s0 == Port \o W
<1>1. /\ Port \in Seq(Tags) /\ Len(Port) = 1 /\ Port[1] = "p"
      /\ W \in Seq(Tags) /\ Len(W) = 1 /\ W[1] = "w"
      /\ D \in Seq(Tags) /\ Len(D) = 2 /\ D[1] = "h" /\ D[2] = "l"
  BY DEF dtp_read_portal_32bit, dtp_read_portal_64bit, Port, Tags
<1> HIDE DEF W, D
<1>2. \A s, t \in Seq(Tags) :
          /\ s \o t \in Seq(Tags) /\ Len(s \o t) = Len(s) + Len(t)
          /\ \A i \in 1 .. Len(s) + Len(t) :
                (s \o t)[i] = IF i <= Len(s) THEN s[i] ELSE t[i - Len(s)]
  BY ConcatProperties
<1>3. Len(s0) = 2 /\ s0[1] = "p" /\ s0[2] = "w"
  <2>1. /\ Len(s0) = Len(Port) + Len(W)
        /\ \A i \in 1 .. Len(Port) + Len(W) :
              s0[i] = IF i <= Len(Port) THEN Port[i] ELSE W[i - Len(Port)]
    BY <1>1, <1>2, Zenon
  <2> QED  BY <1>1, <2>1
<1>4. s1 \in Seq(Tags) /\ Len(s1) = 3 /\ s1[1] = "p" /\ s1[2] = "h" /\ s1[3] = "l"
  <2>1. /\ s1 \in Seq(Tags) /\ Len(s1) = Len(Port) + Len(D)
        /\ \A i \in 1 .. Len(Port) + Len(D) :
              s1[i] = IF i <= Len(Port) THEN Port[i] ELSE D[i - Len(Port)]
    BY <1>1, <1>2, Zenon
  <2> QED  BY <1>1, <2>1
<1> HIDE DEF s0, s1
<1>5. /\ s2 \in Seq(Tags) /\ Len(s2) = 5 /\ s2[1] = "p" /\ s2[2] = "h" /\ s2[3] = "l"
      /\ s2[4] = "h" /\ s2[5] = "l"
  <2>1. /\ s2 \in Seq(Tags) /\ Len(s2) = Len(s1) + Len(D)
        /\ \A i \in 1 .. Len(s1) + Len(D) :
              s2[i] = IF i <= Len(s1) THEN s1[i] ELSE D[i - Len(s1)]
    BY <1>1, <1>2, <1>4, Zenon
  <2> QED  BY <1>1, <1>4, <2>1
<1> HIDE DEF s2
<1>6. /\ Len(s3) = 7 /\ s3[1] = "p" /\ s3[2] = "h" /\ s3[3] = "l"
      /\ s3[4] = "h" /\ s3[5] = "l" /\ s3[6] = "h" /\ s3[7] = "l"
  <2>1. /\ Len(s3) = Len(s2) + Len(D)
        /\ \A i \in 1 .. Len(s2) + Len(D) :
              s3[i] = IF i <= Len(s2) THEN s2[i] ELSE D[i - Len(s2)]
    BY <1>1, <1>2, <1>5, Zenon
  <2> QED  BY <1>1, <1>5, <2>1, SMTT(20)
<1> HIDE DEF s3
<1>7. CASE m \in {"version"}
  <2>1. Reads[m] = W  BY <1>7 DEF Reads, dtp_read_version, W
  <2> QED  BY <2>1, <1>1, <1>7 DEF Size, Off, Long
<1>8. CASE m \in {"cnt", "global"}
  <2>1. Reads[m] = D  BY <1>8 DEF Reads, dtp_read_cnt, dtp_read_global_cnt, D
  <2>2. Size(m) = 2 /\ Off(m) = 0 /\ Count(m) = 1
    BY <2>1, <1>1, <1>8 DEF Size, Off, Count
  <2>3. ASSUME NEW k \in 1 .. 2
        PROVE  D[k] = IF k <= 0 THEN "p" ELSE IF (k - 0) % 2 = 1 THEN "h" ELSE "l"
    BY <1>1
  <2> QED  BY <2>1, <2>2, <2>3, <1>8 DEF Long
<1>9. CASE m \in {"delay", "state", "interval"}
  <2>1. Reads[m] = s0
    BY <1>9 DEF Reads, dtp_read_delay, dtp_read_state, dtp_read_beacon_interval, s0, W
  <2> QED  BY <2>1, <1>3, <1>9 DEF Size, Off, Long
<1>10. CASE m \in {"error", "local"}
  <2>1. Reads[m] = s1
    BY <1>10 DEF Reads, dtp_read_error, dtp_read_local_cnt, s1, D
  <2>2. Size(m) = 3 /\ Off(m) = 1 /\ Count(m) = 1
    BY <2>1, <1>4, <1>10 DEF Size, Off, Count
  <2>3. ASSUME NEW k \in 1 .. 3
        PROVE  s1[k] = IF k <= 1 THEN "p" ELSE IF (k - 1) % 2 = 1 THEN "h" ELSE "l"
    BY <1>4
  <2> QED  BY <2>1, <2>2, <2>3, <1>10 DEF Long
<1>11. CASE m = "message"
  <2>1. Reads[m] = s3
    BY <1>11 DEF Reads, dtp_read_message, s3, s2, s1, D
  <2>2. Size(m) = 7 /\ Off(m) = 1 /\ Count(m) = 3
    BY <2>1, <1>6, <1>11 DEF Size, Off, Count
  <2>3. ASSUME NEW k \in 1 .. 7
        PROVE  s3[k] = IF k <= 1 THEN "p" ELSE IF (k - 1) % 2 = 1 THEN "h" ELSE "l"
    BY <1>6
  <2> QED  BY <2>1, <2>2, <2>3, <1>11 DEF Long
<1> QED  BY <1>7, <1>8, <1>9, <1>10, <1>11, MethodNames

\* One of the words that carry the values of an answer.
Datum(m, vals, n) ==
    IF m \notin Long THEN vals[n]
    ELSE IF n % 2 = 1 THEN vals[(n + 1) \div 2] \div WordMod ELSE vals[n \div 2] % WordMod

\* The values of an answer.
LEMMA ContentsTyped ==
    ASSUME NEW m \in Readers, NEW vals \in Contents(m)
    PROVE  /\ Len(vals) = Count(m) /\ vals \in Seq(Nat)
           /\ m \in Long => vals \in Seq(0 .. WordMod * WordMod - 1)
           /\ m \notin Long => vals \in Seq(Word)
<1>1. CASE m \in Long
  <2> DEFINE V == 0 .. WordMod * WordMod - 1
  <2>1. vals \in [1 .. Count(m) -> Values] /\ Count(m) \in Nat
    BY <1>1, AnswerSizes DEF Contents, Count
  <2>2. vals \in [1 .. Count(m) -> V]
    BY <2>1, PortalAssumption
  <2>3. V \subseteq Nat
    OBVIOUS
  <2> HIDE DEF V
  <2>4. vals \in Seq(V)
    <3>1. \E c \in Nat : vals \in [1 .. c -> V]
      BY <2>1, <2>2
    <3> QED  BY <3>1, SeqDef, Zenon
  <2>5. vals \in Seq(Nat)
    BY <2>3, <2>4, SeqMonotonic
  <2>6. Len(vals) = Count(m)
    BY <2>1, <2>5
  <2> QED  BY <2>4, <2>5, <2>6, <1>1 DEF V
<1>2. CASE m \notin Long
  <2>1. vals \in [1 .. 1 -> Words] /\ Count(m) = 1
    BY <1>2, AnswerSizes DEF Contents, Long, Count
  <2>2. vals \in [1 .. 1 -> Word] /\ 1 \in Nat
    BY <2>1, PortalAssumption DEF Word
  <2>3. vals \in Seq(Word)
    BY <2>2, SeqDef, Zenon
  <2>4. Word \subseteq Nat
    BY DEF Word
  <2>5. vals \in Seq(Nat)
    BY <2>3, <2>4, SeqMonotonic
  <2> QED  BY <2>1, <2>2, <2>3, <2>5, <1>2
<1> QED  BY <1>1, <1>2

\* Word by word, an answer is the port, if it has one, and the values.
LEMMA MarshalWord ==
    ASSUME NEW m \in Readers, NEW p \in Word, NEW vals \in Contents(m)
    PROVE  /\ Marshal(m, p, vals) \in Seq(Word) /\ Len(Marshal(m, p, vals)) = Size(m)
           /\ \A t \in 1 .. Size(m) :
                 Marshal(m, p, vals)[t] = IF t <= Off(m) THEN p ELSE Datum(m, vals, t - Off(m))
<1> DEFINE w == [k \in 1 .. 2 * Len(vals) |->
                    IF k % 2 = 1 THEN vals[(k + 1) \div 2] \div WordMod
                                 ELSE vals[k \div 2] % WordMod]
           b == IF 64 \notin Range(DtpIndication[m]) THEN vals ELSE w
           a == IF DtpIndication[m][1] = 8 THEN <<p>> ELSE <<>>
<1>1. /\ Len(vals) = Count(m) /\ vals \in Seq(Nat)
      /\ m \in Long => vals \in Seq(0 .. WordMod * WordMod - 1)
      /\ m \notin Long => vals \in Seq(Word)
  BY ContentsTyped
<1>2. Count(m) \in {1, 3}
  BY DEF Count
<1>3. ASSUME m \in Long
      PROVE  /\ b \in Seq(Word) /\ Len(b) = 2 * Count(m)
             /\ \A n \in 1 .. 2 * Count(m) : b[n] = Datum(m, vals, n)
  <2> DEFINE F(n) == IF n % 2 = 1 THEN vals[(n + 1) \div 2] \div WordMod ELSE vals[n \div 2] % WordMod
  <2>1. ASSUME NEW n \in 1 .. 2 * Count(m) PROVE F(n) \in Word
    <3>1. CASE n % 2 = 1
      <4>1. (n + 1) \div 2 \in 1 .. Len(vals)
        BY <1>1, <1>2, <3>1
      <4>2. vals[(n + 1) \div 2] \in 0 .. WordMod * WordMod - 1
        BY <4>1, <1>1, <1>3, ElementOfSeq
      <4>3. vals[(n + 1) \div 2] \div WordMod \in Word
        BY <4>2, TwoHalves
      <4> QED  BY <4>3, <3>1
    <3>2. CASE n % 2 # 1
      <4>1. n \div 2 \in 1 .. Len(vals)
        BY <1>1, <1>2, <3>2
      <4>2. vals[n \div 2] \in 0 .. WordMod * WordMod - 1
        BY <4>1, <1>1, <1>3, ElementOfSeq
      <4>3. vals[n \div 2] % WordMod \in Word
        BY <4>2, TwoHalves
      <4> QED  BY <4>3, <3>2
    <3> QED  BY <3>1, <3>2
  <2>2. w = [n \in 1 .. 2 * Count(m) |-> F(n)]
    BY <1>1
  <2>3. \A n \in 1 .. 2 * Count(m) : F(n) = Datum(m, vals, n)
    BY <1>3 DEF Datum
  <2> HIDE DEF F, w
  <2>4. w \in [1 .. 2 * Count(m) -> Word] /\ 2 * Count(m) \in Nat
    BY <1>2, <2>1, <2>2
  <2>5. w \in Seq(Word)
    BY <2>4, SeqDef, Zenon
  <2>6. Len(w) = 2 * Count(m)
    BY <2>4, <2>5
  <2>7. b = w
    BY <1>3, AnswerSizes
  <2> HIDE DEF b
  <2> QED  BY <2>2, <2>3, <2>5, <2>6, <2>7
<1>4. ASSUME m \notin Long
      PROVE  b \in Seq(Word) /\ Len(b) = 1 /\ \A n \in 1 .. 1 : b[n] = Datum(m, vals, n)
  <2>1. b = vals /\ Count(m) = 1
    BY <1>4, AnswerSizes DEF Long, Count
  <2> HIDE DEF b
  <2> QED  BY <2>1, <1>1, <1>4 DEF Datum
<1>5. a \in Seq(Word) /\ Len(a) = Off(m) /\ \A t \in 1 .. Off(m) : a[t] = p
  <2>1. DtpIndication[m][1] = 8 <=> Off(m) = 1
    BY MethodNames DEF DtpIndication, Off
  <2> QED  BY <2>1 DEF Off
<1>6. Marshal(m, p, vals) = a \o b
  BY DEF Marshal
<1> HIDE DEF a, b
<1> DEFINE n == Len(b)
<1>7. b \in Seq(Word) /\ n \in Nat /\ Size(m) = Off(m) + n /\ \A i \in 1 .. n : b[i] = Datum(m, vals, i)
  <2>1. CASE m \in Long
    BY <2>1, <1>2, <1>3, ReadTags
  <2>2. CASE m \notin Long
    <3>1. Size(m) = Off(m) + 1
      BY <2>2, ReadTags
    <3>2. n = 1 /\ b \in Seq(Word) /\ \A i \in 1 .. 1 : b[i] = Datum(m, vals, i)
      BY <2>2, <1>4
    <3> HIDE DEF n
    <3> QED  BY <3>1, <3>2
  <2> QED  BY <2>1, <2>2
<1>8. /\ a \o b \in Seq(Word) /\ Len(a \o b) = Len(a) + Len(b)
      /\ \A i \in 1 .. Len(a) + Len(b) :
            (a \o b)[i] = IF i <= Len(a) THEN a[i] ELSE b[i - Len(a)]
  BY <1>5, <1>7, ConcatProperties
<1>9. Off(m) \in Nat
  BY DEF Off
<1> QED  BY <1>5, <1>6, <1>7, <1>8, <1>9

\* A word is added to the values that a call has read.
LEMMA TakeValues ==
    ASSUME NEW s \in Seq(Nat), NEW tag \in Tags, NEW x \in Word
    PROVE  Take(s, tag, x) \in Seq(Nat)
<1>1. x \in Nat /\ x * WordMod \in Nat
  BY PortalAssumption DEF Word
<1>2. s # <<>> => s[Len(s)] + x \in Nat /\ [s EXCEPT ![Len(s)] = @ + x] \in Seq(Nat)
  <2>1. SUFFICES ASSUME s # <<>>
        PROVE  s[Len(s)] + x \in Nat /\ [s EXCEPT ![Len(s)] = @ + x] \in Seq(Nat)
    OBVIOUS
  <2>2. Len(s) \in 1 .. Len(s) /\ s[Len(s)] + x \in Nat
    BY <1>1, <2>1
  <2> QED  BY <2>2, ExceptSeq
<1> DEFINE y == x * WordMod
<1>3. Append(s, x) \in Seq(Nat) /\ Append(s, y) \in Seq(Nat) /\ <<x>> \in Seq(Nat)
  BY <1>1
<1> HIDE DEF y
<1>4. CASE tag = "p"
  BY <1>4 DEF Take
<1>5. CASE tag = "w"
  BY <1>3, <1>5 DEF Take
<1>6. CASE tag = "h"
  <2>1. Take(s, tag, x) = Append(s, y)
    BY <1>6 DEF Take, y
  <2> QED  BY <2>1, <1>3
<1>7. CASE tag = "l"
  <2>1. Take(s, tag, x) = IF s = <<>> THEN <<x>> ELSE [s EXCEPT ![Len(s)] = @ + x]
    BY <1>7 DEF Take
  <2> QED  BY <2>1, <1>2, <1>3
<1> QED  BY <1>4, <1>5, <1>6, <1>7 DEF Tags

\* dtp_read_message gives up.
LEMMA NoMessageAnswers ==
    ASSUME AnswerInv, NoMessage
    PROVE  AnswerInv'
BY DEF AnswerInv, NoMessage, Call, NoCall, Answer, Contents

\* A reading method turns to its answer.
LEMMA PostAnswers ==
    ASSUME AnswerInv, NEW m \in Methods, NEW p \in Ports, NEW v, NEW reads,
           m \in Readers => reads \in Seq(Tags) /\ Len(reads) \in 1 .. 7,
           Post(m, p, v, reads)
    PROVE  AnswerInv'
<1>1. CASE m \in Readers
  <2> DEFINE c == [m |-> m, p |-> p, k |-> 0, reads |-> reads]
  <2>1. call' = c /\ late' = IF reads = Reads[m] THEN late ELSE late \cup {m}
    BY <1>1 DEF Post
  <2>2. c \in Call /\ c.m = m /\ c.k = 0 /\ c.reads = reads
    BY <1>1 DEF Call
  <2> HIDE DEF c
  <2>3. call' \in Call /\ call'.m = m /\ call'.k = 0 /\ call'.reads = reads
    BY <2>1, <2>2
  <2>4. /\ Len(call'.reads) \in 1 .. 7 /\ call'.k < Len(call'.reads)
        /\ call'.reads = Reads[call'.m] \/ call'.m \in late'
    <3>1. Len(reads) \in 1 .. 7 /\ 0 < Len(reads)
      <4>1. Len(reads) \in 1 .. 7
        BY <1>1, Zenon
      <4>2. \A n \in 1 .. 7 : 0 < n
        OBVIOUS
      <4> QED  BY <4>1, <4>2, Zenon
    <3>2. reads = Reads[m] \/ m \in late'
      BY <2>1
    <3> QED  BY <2>3, <3>1, <3>2
  <2>5. late' \subseteq Readers
    BY <1>1, <2>1 DEF AnswerInv
  <2> QED  BY <2>3, <2>4, <2>5 DEF Post, AnswerInv, Answer, Contents, Call
<1>2. CASE m \notin Readers
  BY <1>2 DEF Post, AnswerInv, Answer, Contents, Call
<1> QED  BY <1>1, <1>2

\* A call reads a word.
LEMMA ReadWordAnswers ==
    ASSUME AnswerInv, ReadWord
    PROVE  AnswerInv'
<1> DEFINE m == call.m
           tags == call.reads
           last == call.k + 1 = Len(tags)
<1>1. /\ call # NoCall /\ call \in Call /\ m \in Readers /\ call.p \in Ports
      /\ call.k \in 0 .. 7 /\ call.k < Len(tags)
  BY DEF ReadWord, AnswerInv, Call
<1>2. /\ tags \in Seq(Tags) /\ Len(tags) \in 1 .. 7
      /\ tags = Reads[m] \/ m \in late
  BY <1>1 DEF AnswerInv, Call
<1>3. fifo[m] \in Seq(Word) /\ out[m] \in Seq(Answer(m))
  BY <1>1 DEF AnswerInv
<1>4. acc' \in Seq(Nat)
  <2>1. PICK x \in IF fifo[m] # <<>> THEN {Head(fifo[m])} ELSE Words :
            acc' = IF last THEN <<>> ELSE Take(acc, tags[call.k + 1], x)
    BY DEF ReadWord
  <2>2. x \in Word
    <3>1. Words \subseteq Word
      BY PortalAssumption DEF Word
    <3>2. fifo[m] # <<>> => Head(fifo[m]) \in Word
      BY <1>3, HeadTailProperties
    <3> QED  BY <2>1, <3>1, <3>2
  <2>3. tags[call.k + 1] \in Tags
    BY <1>1, <1>2
  <2>4. Take(acc, tags[call.k + 1], x) \in Seq(Nat)
    BY <2>2, <2>3, TakeValues DEF AnswerInv
  <2> QED  BY <2>1, <2>4
<1>5. fifo' \in [Readers -> Seq(Word)]
  <2>1. fifo' = [fifo EXCEPT ![m] = IF @ = <<>> THEN @ ELSE Tail(@)]
    BY DEF ReadWord
  <2>2. (IF fifo[m] = <<>> THEN fifo[m] ELSE Tail(fifo[m])) \in Seq(Word)
    BY <1>3
  <2> QED  BY <2>1, <2>2 DEF AnswerInv
<1>6. late' \subseteq Readers /\ late \subseteq late'
  BY <1>1 DEF ReadWord, AnswerInv
<1>7. /\ call' \in {NoCall} \cup Call
      /\ call' # NoCall => /\ Len(call'.reads) \in 1 .. 7 /\ call'.k < Len(call'.reads)
                           /\ call'.reads = Reads[call'.m] \/ call'.m \in late'
  <2>1. call' = IF last THEN NoCall ELSE [call EXCEPT !.k = @ + 1]
    BY DEF ReadWord
  <2>2. CASE last
    BY <2>1, <2>2
  <2>3. CASE ~last
    <3> DEFINE c == [m |-> m, p |-> call.p, k |-> call.k + 1, reads |-> tags]
    <3>1. call' = [call EXCEPT !.k = @ + 1]
      BY <2>1, <2>3
    <3>2. call' = c
      BY ONLY <3>1, <1>1 DEF Call
    <3>3. \A j \in 0 .. 7, n \in 1 .. 7 : j < n /\ j + 1 # n => j + 1 \in 0 .. 7 /\ j + 1 < n
      OBVIOUS
    <3>4. call.k + 1 \in 0 .. 7 /\ call.k + 1 < Len(tags)
      BY <1>1, <1>2, <2>3, <3>3, Zenon
    <3>5. c \in Call /\ c.m = m /\ c.k = call.k + 1 /\ c.reads = tags
      BY <1>1, <1>2, <3>4 DEF Call
    <3> HIDE DEF c
    <3> QED  BY <3>2, <3>4, <3>5, <1>2, <1>6
  <2> QED  BY <2>2, <2>3
<1>8. DOMAIN out' = Readers /\ \A r \in Readers : out'[r] \in Seq(Answer(r))
  <2>1. out' = out \/ (out[m] # <<>> /\ out' = [out EXCEPT ![m] = Tail(@)])
    BY DEF ReadWord
  <2>2. out[m] # <<>> => Tail(out[m]) \in Seq(Answer(m))
    BY <1>3, HeadTailProperties
  <2> QED  BY <2>1, <2>2, <1>1 DEF AnswerInv
<1> QED  BY <1>4, <1>5, <1>6, <1>7, <1>8 DEF AnswerInv, Answer, Contents, Call

\* The board answers.
LEMMA ServeAnswers ==
    ASSUME RequestInv, AnswerInv, NEW m \in Methods, Serve(m)
    PROVE  AnswerInv'
<1>1. UNCHANGED <<call, acc, late>>
  BY DEF Serve
<1>2. CASE UNCHANGED <<fifo, out>>
  BY <1>1, <1>2 DEF AnswerInv, Answer, Contents, Call
<1>3. CASE m \in Readers /\ ~UNCHANGED <<fifo, out>>
  <2>1. PICK vals \in Contents(m) :
            /\ fifo' = [fifo EXCEPT ![m] = @ \o Marshal(m, Decode(m).p, vals)]
            /\ out' = [out EXCEPT ![m] = Append(@, [p |-> Decode(m).p, vals |-> vals])]
    BY <1>3 DEF Serve
  <2>2. Decode(m).p \in Word
    <3>1. req[m] \in Seq(Word) /\ asked[m] \in Seq(Request(m)) /\ Means(m, req[m], asked[m])
      BY DEF RequestInv
    <3>2. asked[m] # <<>>
      BY <3>1, MeansTail DEF Serve
    <3>3. Decode(m) = Head(asked[m]) /\ Head(asked[m]) \in Request(m)
      BY <3>1, <3>2, Decoded
    <3> QED  BY <3>3 DEF Request
  <2> DEFINE w == Marshal(m, Decode(m).p, vals)
             e == [p |-> Decode(m).p, vals |-> vals]
  <2>3. w \in Seq(Word)
    BY <1>3, <2>2, MarshalWord
  <2>4. e \in Answer(m)
    BY <2>2 DEF Answer
  <2>5. fifo' = [fifo EXCEPT ![m] = @ \o w] /\ out' = [out EXCEPT ![m] = Append(@, e)]
    BY <2>1
  <2> HIDE DEF w, e
  <2>6. fifo[m] \o w \in Seq(Word)
    BY <1>3, <2>3, ConcatProperties DEF AnswerInv
  <2>7. Append(out[m], e) \in Seq(Answer(m))
    BY <1>3, <2>4 DEF AnswerInv
  <2>8. fifo' \in [Readers -> Seq(Word)]
    BY <2>5, <2>6 DEF AnswerInv
  <2>9. DOMAIN out' = Readers /\ \A r \in Readers : out'[r] \in Seq(Answer(r))
    BY <2>5, <2>7 DEF AnswerInv
  <2> QED  BY <1>1, <2>8, <2>9 DEF AnswerInv, Answer, Contents, Call
<1> QED  BY <1>2, <1>3 DEF Serve

-----------------------------------------------------------------------------
(* Every step of the module, the thread, the clients and the board keeps   *)
(* the portal's invariant.                                                 *)

LEMMA ReadAsTyped ==
    ASSUME NEW m \in Readers
    PROVE  ReadAs(m) \in Seq(Tags) /\ Len(ReadAs(m)) \in 1 .. 7
<1>1. dtp_read_portal_64bit \in Seq(Tags) /\ Len(dtp_read_portal_64bit) \in 1 .. 7
  BY DEF dtp_read_portal_64bit, Tags
<1>2. Reads[m] \in Seq(Tags) /\ Len(Reads[m]) \in 1 .. 7
  BY ReadSizes
<1> QED  BY <1>1, <1>2 DEF ReadAs

LEMMA PortalKept ==
    ASSUME PortalInv, [Next]_vars
    PROVE  PortalInv'
<1>1. CASE UNCHANGED portalVars
  <2>1. RequestInv'
    BY <1>1 DEF portalVars, PortalInv, RequestInv, Request, Means, Threes, Twos, Ones, Word, Ports
  <2>2. AnswerInv'
    BY <1>1 DEF portalVars, PortalInv, AnswerInv, Answer, Contents, Call
  <2> QED  BY <2>1, <2>2 DEF PortalInv
<1>2. CASE dtp_init
  <2>1. CASE SetIntervals
    <3>1. UNCHANGED <<fifo, call, acc, out, late>>
      BY <2>1 DEF SetIntervals
    <3>2. AnswerInv'
      BY <3>1 DEF PortalInv, AnswerInv, Answer, Contents, Call
    <3> QED  BY <2>1, <3>2, IntervalRequests DEF PortalInv
  <2>2. SetIntervals \/ UNCHANGED portalVars
    BY <1>2 DEF dtp_init
  <2> QED  BY <1>1, <2>1, <2>2
<1>3. CASE dtp_daemon_calls
  <2>1. ASSUME NEW m \in Called \cap used, NEW p \in Ports, NEW v \in Values \cup {0},
               (v # 0) <=> (m \in {"send", "set_cnt"}), Post(m, p, v, ReadAs(m))
        PROVE  PortalInv'
    <3>1. m \in Methods
      BY MethodNames DEF Called, older_run_dtp_daemon
    <3>2. [p |-> p, v |-> v] \in Request(m)
      BY <2>1, PortalAssumption DEF Request, Wide, Word, Ports
    <3>3. RequestInv'
      BY <2>1, <3>1, <3>2, PostRequests DEF PortalInv
    <3>4. AnswerInv'
      BY <2>1, <3>1, ReadAsTyped, PostAnswers DEF PortalInv
    <3> QED  BY <3>3, <3>4 DEF PortalInv
  <2>2. ASSUME UNCHANGED <<req, asked>> PROVE RequestInv'
    BY <2>2 DEF PortalInv, RequestInv, Request, Means, Threes, Twos, Ones, Word, Ports
  <2>3. CASE NoMessage
    BY <2>2, <2>3, NoMessageAnswers DEF PortalInv, NoMessage
  <2>4. CASE ReadWord
    BY <2>2, <2>4, ReadWordAnswers DEF PortalInv, ReadWord
  <2> QED  BY <1>3, <2>1, <2>3, <2>4 DEF dtp_daemon_calls
<1>4. CASE DtpController
  <2>1. PICK m \in Methods : Serve(m)
    BY <1>4 DEF DtpController
  <2> QED  BY <2>1, ServeRequests, ServeAnswers DEF PortalInv
<1>5. ASSUME NEW c \in Clients, dtp_proc_open(c) PROVE PortalInv'
  <2>1. ASSUME NEW n \in 0 .. WordMod - 1,
               req' = [req EXCEPT !["reset"] = @ \o dtp_reset(n)],
               asked' = [asked EXCEPT !["reset"] = Append(@, [p |-> n, v |-> 0])],
               UNCHANGED <<fifo, call, acc, out, late>>
        PROVE  PortalInv'
    <3> DEFINE e == [p |-> n, v |-> 0]
               m == "reset"
    <3>1. m \in Methods /\ e \in Request(m) /\ e.p = n /\ e.v = 0
      BY MethodNames DEF Request, Wide, Word
    <3>2. dtp_reset(n) = Written(m, e.p, e.v)
      BY <3>1 DEF Written
    <3>3. asked' = [asked EXCEPT ![m] = Append(@, e)] /\ req' = [req EXCEPT ![m] = @ \o dtp_reset(n)]
      BY <2>1
    <3> HIDE DEF e, m
    <3>4. dtp_reset(n) \in Seq(Word) /\ Means(m, dtp_reset(n), <<e>>)
      BY <3>1, <3>2, WrittenMeans
    <3>5. asked[m] \in Seq(Request(m)) /\ asked \in [Methods -> Seq([p: Word, v: Nat])]
      BY <3>1 DEF PortalInv, RequestInv
    <3>6. Append(asked[m], e) = asked[m] \o <<e>> /\ <<e>> \in Seq(Request(m))
      BY <3>1, <3>5, AppendIsConcat
    <3>7. asked' = [asked EXCEPT ![m] = @ \o <<e>>]
      BY <3>3, <3>6
    <3>8. RequestInv'
      BY <3>1, <3>3, <3>4, <3>6, <3>7, RequestsWritten DEF PortalInv
    <3>9. AnswerInv'
      BY <2>1 DEF PortalInv, AnswerInv, Answer, Contents, Call
    <3> QED  BY <3>8, <3>9 DEF PortalInv
  <2> QED  BY <1>1, <1>5, <2>1 DEF dtp_proc_open
<1>6. CASE \/ insmod \/ dtp_init_returns \/ Unwind \/ dtp_exit \/ reboot
           \/ dtp_daemon_sleeps \/ dtp_daemon_wakes
           \/ \E c \in Clients : \/ dtp_fs_open(c) \/ dtp_fs_mmap(c) \/ dtp_fs_release(c)
                                 \/ dtp_seq_proc_show(c)
  BY <1>1, <1>6 DEF insmod, dtp_init_returns, Unwind, dtp_exit, reboot, dtp_daemon_sleeps,
       dtp_daemon_wakes, dtp_fs_open, dtp_fs_mmap, dtp_fs_release, dtp_seq_proc_show
<1>7. CASE UNCHANGED vars
  BY <1>1, <1>7 DEF vars
<1> QED  BY <1>2, <1>3, <1>4, <1>5, <1>6, <1>7 DEF Next

-----------------------------------------------------------------------------
(* Answers and the calls that read them.                                   *)

\* s is what a call has read after k words of an answer: whole values, then
\* perhaps the high half of one.
ReadSoFar(m, k, vals, s) ==
    IF m \notin Long THEN s = <<>>
    ELSE /\ Len(s) = (k - Off(m) + 1) \div 2
         /\ \A i \in 1 .. Len(s) :
               s[i] = IF 2 * i <= k - Off(m) THEN vals[i] ELSE (vals[i] \div WordMod) * WordMod

\* One word more, and the call has read that much; the last word completes the
\* values of the answer.
LEMMA TakeWord ==
    ASSUME NEW m \in Readers, NEW p \in Word, NEW vals \in Contents(m),
           NEW k \in Nat, k < Size(m), NEW s \in Seq(Nat), ReadSoFar(m, k, vals, s),
           NEW x, x = Marshal(m, p, vals)[k + 1]
    PROVE  /\ k + 1 < Size(m) => ReadSoFar(m, k + 1, vals, Take(s, Reads[m][k + 1], x))
           /\ k + 1 = Size(m) => Take(s, Reads[m][k + 1], x) = vals
<1> DEFINE tag == Reads[m][k + 1]
           n == k - Off(m)
           V == 0 .. WordMod * WordMod - 1
<1>1. /\ Off(m) \in {0, 1} /\ Count(m) \in {1, 3} /\ Size(m) \in Nat /\ k + 1 \in 1 .. Size(m)
      /\ Size(m) = IF m \in Long THEN Off(m) + 2 * Count(m) ELSE Off(m) + 1
  BY ReadTags DEF Off, Count
<1>2. tag = IF k + 1 <= Off(m) THEN "p" ELSE IF m \notin Long THEN "w"
            ELSE IF (k + 1 - Off(m)) % 2 = 1 THEN "h" ELSE "l"
  BY <1>1, ReadTags
<1>3. x = IF k + 1 <= Off(m) THEN p ELSE Datum(m, vals, k + 1 - Off(m))
  BY <1>1, MarshalWord
<1>4. /\ Len(vals) = Count(m) /\ vals \in Seq(Nat)
      /\ m \in Long => vals \in Seq(V)
  BY ContentsTyped
<1> HIDE DEF tag, V
<1>5. CASE k + 1 <= Off(m)
  <2>1. tag = "p" /\ k = 0 /\ Off(m) = 1 /\ Size(m) > 1
    BY <1>1, <1>2, <1>5
  <2>2. Take(s, tag, x) = s
    BY <2>1 DEF Take
  <2>3. s = <<>>
    <3>1. (0 - 1 + 1) \div 2 = 0
      OBVIOUS
    <3> QED  BY <2>1, <3>1 DEF ReadSoFar
  <2>4. ReadSoFar(m, 1, vals, <<>>)
    <3>1. (1 - 1 + 1) \div 2 = 0
      OBVIOUS
    <3> QED  BY <2>1, <3>1 DEF ReadSoFar
  <2> QED  BY <2>1, <2>2, <2>3, <2>4 DEF tag
<1>6. CASE k + 1 > Off(m) /\ m \notin Long
  <2>1. tag = "w" /\ k + 1 - Off(m) = 1 /\ k + 1 = Size(m) /\ Count(m) = 1
    BY <1>1, <1>2, <1>6 DEF Count, Long
  <2>2. x = vals[1] /\ s = <<>>
    <3>1. ~(k + 1 <= Off(m))
      BY <1>1, <1>6
    <3> QED  BY <3>1, <1>3, <1>6, <2>1 DEF Datum, ReadSoFar
  <2>3. Take(s, tag, x) = <<vals[1]>>
    BY <2>1, <2>2 DEF Take
  <2>4. <<vals[1]>> = vals
    BY <1>4, <2>1
  <2> QED  BY <2>1, <2>3, <2>4 DEF tag
<1>7. CASE k + 1 > Off(m) /\ m \in Long
  <2>1. /\ n \in Nat /\ n < 2 * Count(m) /\ Len(s) = (n + 1) \div 2
        /\ \A i \in 1 .. Len(s) :
              s[i] = IF 2 * i <= n THEN vals[i] ELSE (vals[i] \div WordMod) * WordMod
        /\ k + 1 - Off(m) = n + 1
    BY <1>1, <1>7 DEF ReadSoFar
  <2>2. /\ tag = IF (n + 1) % 2 = 1 THEN "h" ELSE "l"
        /\ x = IF (n + 1) % 2 = 1 THEN vals[(n + 2) \div 2] \div WordMod
                                  ELSE vals[(n + 1) \div 2] % WordMod
    <3>1. n + 1 + 1 = n + 2
      BY <2>1
    <3> QED  BY <1>1, <1>2, <1>3, <1>7, <2>1, <3>1 DEF Datum
  <2>3. k + 1 < Size(m) <=> n + 1 < 2 * Count(m)
    BY <1>1, <1>7
  <2>4. k + 1 = Size(m) <=> n + 1 = 2 * Count(m)
    BY <1>1, <1>7
  <2>5. ASSUME NEW i \in 1 .. Count(m)
        PROVE  vals[i] \in Nat /\ vals[i] \div WordMod \in Nat
               /\ (vals[i] \div WordMod) * WordMod + (vals[i] % WordMod) = vals[i]
               /\ vals[i] % WordMod \in Nat /\ (vals[i] \div WordMod) * WordMod \in Nat
    <3>1. vals[i] \in V
      BY <1>4, <1>7, ElementOfSeq
    <3>2. vals[i] \div WordMod \in Word /\ vals[i] % WordMod \in Word
          /\ (vals[i] \div WordMod) * WordMod + (vals[i] % WordMod) = vals[i]
      BY <3>1, TwoHalves DEF V
    <3>3. vals[i] \in Nat /\ Word \subseteq Nat
      BY <1>4 DEF Word
    <3>4. \A d \in Nat : d * WordMod \in Nat
      BY PortalAssumption
    <3> QED  BY <3>2, <3>3, <3>4
  <2> HIDE DEF n
  <2>6. CASE (n + 1) % 2 = 1
    <3> DEFINE i == (n + 2) \div 2
               y == (vals[i] \div WordMod) * WordMod
               t == Append(s, y)
    <3>1. i \in 1 .. Count(m) /\ Len(s) = i - 1 /\ 2 * i = n + 2
      BY <1>1, <2>1, <2>6, SMTT(20)
    <3>2. n + 1 < 2 * Count(m)
      BY <1>1, <2>1, <3>1
    <3>3. Take(s, tag, x) = t
      BY <2>2, <2>6 DEF Take
    <3>4. y \in Nat
      BY <2>5, <3>1
    <3> HIDE DEF y
    <3>5. Len(t) = i /\ t[i] = y /\ \A j \in 1 .. i - 1 : t[j] = s[j]
      BY <3>1, <3>4
    <3>6. Len(t) = (n + 1 + 1) \div 2
      BY <3>1, <3>5, <2>1
    <3> HIDE DEF t
    <3>7. ASSUME NEW j \in 1 .. Len(t)
          PROVE  t[j] = IF 2 * j <= n + 1 THEN vals[j] ELSE (vals[j] \div WordMod) * WordMod
      <4>1. CASE j = i
        <5>1. ~(2 * i <= n + 1)
          BY <3>1, <2>1
        <5> QED  BY <4>1, <5>1, <3>5 DEF y
      <4>2. CASE j # i
        <5>1. j \in 1 .. Len(s) /\ 2 * j <= n /\ 2 * j <= n + 1 /\ j \in 1 .. i - 1
          BY <4>2, <3>1, <3>5, <2>1
        <5> QED  BY <5>1, <3>5, <2>1
      <4> QED  BY <4>1, <4>2
    <3>8. k + 1 - Off(m) = n + 1
      BY <2>1
    <3>9. ReadSoFar(m, k + 1, vals, t)
      <4>1. \A j \in 1 .. Len(t) :
               t[j] = IF 2 * j <= n + 1 THEN vals[j] ELSE (vals[j] \div WordMod) * WordMod
        BY <3>7
      <4>2. Len(t) = (k + 1 - Off(m) + 1) \div 2
        BY ONLY <3>6, <3>8
      <4>3. \A j \in 1 .. Len(t) :
               t[j] = IF 2 * j <= k + 1 - Off(m) THEN vals[j]
                      ELSE (vals[j] \div WordMod) * WordMod
        BY ONLY <4>1, <3>8
      <4> QED  BY <1>1, <1>7, <4>2, <4>3 DEF ReadSoFar
    <3> QED  BY <2>3, <2>4, <3>2, <3>3, <3>9, <1>1, <2>1 DEF tag
  <2>7. CASE (n + 1) % 2 # 1
    <3> DEFINE i == (n + 1) \div 2
               y == s[i] + x
               t == [s EXCEPT ![i] = y]
    <3>1. i \in 1 .. Count(m) /\ Len(s) = i /\ 2 * i = n + 1
      BY <1>1, <2>1, <2>7
    <3>2. y = vals[i] /\ y \in Nat
      <4>1. s[i] = (vals[i] \div WordMod) * WordMod /\ x = vals[i] % WordMod
        <5>1. ~(2 * i <= n) /\ i \in 1 .. Len(s)
          BY <3>1, <2>1
        <5> QED  BY <5>1, <2>1, <2>2, <2>7
      <4> QED  BY <4>1, <2>5, <3>1
    <3>3. Take(s, tag, x) = t
      <4>1. tag = "l" /\ s # <<>> /\ Len(s) = i
        BY <2>2, <2>7, <3>1
      <4> QED  BY <4>1 DEF Take
    <3> HIDE DEF y, i
    <3>5. t \in Seq(Nat) /\ Len(t) = i /\ t[i] = y /\ \A j \in 1 .. i : j # i => t[j] = s[j]
      BY <3>1, <3>2, ExceptSeq
    <3> HIDE DEF t
    <3>6. ASSUME NEW j \in 1 .. Len(t) PROVE t[j] = vals[j] /\ 2 * j <= n + 1
      <4>1. CASE j = i
        BY <4>1, <3>1, <3>2, <3>5
      <4>2. CASE j # i
        <5>1. j \in 1 .. Len(s) /\ 2 * j <= n /\ 2 * j <= n + 1
          BY <4>2, <3>1, <3>5, <2>1
        <5> QED  BY <5>1, <4>2, <3>5, <2>1
      <4> QED  BY <4>1, <4>2
    <3>7. CASE k + 1 < Size(m)
      <4>1. Len(t) = (k + 1 - Off(m) + 1) \div 2
        <5>1. (n + 1 + 1) \div 2 = i
          BY <2>1, <3>1, <1>1
        <5> QED  BY <5>1, <2>1, <3>5
      <4>2. \A j \in 1 .. Len(t) : 2 * j <= k + 1 - Off(m)
        BY <3>6, <2>1
      <4> QED  BY <4>1, <4>2, <3>3, <3>6, <3>7, <1>1, <1>7, SMTT(20) DEF ReadSoFar, tag
    <3>8. CASE k + 1 = Size(m)
      <4>1. i = Count(m)
        BY <2>1, <2>4, <3>1, <3>8, <1>1
      <4>2. Len(t) = Len(vals) /\ t \in Seq(Nat) /\ vals \in Seq(Nat)
        BY <4>1, <3>5, <1>4
      <4>3. t = vals
        <5>1. \A j \in 1 .. Len(t) : t[j] = vals[j]
          BY <3>6
        <5> QED  BY <4>2, <5>1, SeqEqual
      <4> QED  BY <4>3, <3>3, <3>8 DEF tag
    <3> QED  BY <3>7, <3>8, <1>1
  <2> QED  BY <2>6, <2>7
<1> QED  BY <1>5, <1>6, <1>7, <1>1

\* The words q are those of the answers o, of which c are read already.
Stream(m, c, q, o) ==
    /\ Len(q) = (Size(m) * Len(o)) - c
    /\ \A j \in 1 .. Len(o), t \in 1 .. Size(m) :
          (Size(m) * (j - 1)) + t - c >= 1
            => q[(Size(m) * (j - 1)) + t - c] = Marshal(m, o[j].p, o[j].vals)[t]

\* Where the words of the j-th answer are.
LEMMA Places ==
    ASSUME NEW S \in Nat \ {0}, NEW n \in Nat, NEW j \in 1 .. n, NEW t \in 1 .. S
    PROVE  /\ S * (j - 1) \in Nat /\ S * n \in Nat
           /\ (S * (j - 1)) + t <= S * n
           /\ S * (j + 1 - 1) = (S * (j - 1)) + S
           /\ S * (n + 1) = (S * n) + S
           /\ S * (n + 1 - 1) = S * n
<1>1. j \in Nat /\ j - 1 \in Nat /\ n - j \in Nat /\ t \in Nat /\ t <= S
  OBVIOUS
<1>2. S * (j - 1) \in Nat /\ S * n \in Nat /\ S * (n - j) \in Nat
  BY <1>1
<1>3. S * n = (S * (j - 1)) + S + (S * (n - j))
  BY <1>1
<1>4. (S * (j - 1)) + t <= S * n
  BY <1>1, <1>2, <1>3
<1>5. j + 1 - 1 = j /\ n + 1 - 1 = n
  BY <1>1
<1>6. S * j = (S * (j - 1)) + S /\ S * (n + 1) = (S * n) + S
  BY <1>1
<1> QED  BY <1>2, <1>4, <1>5, <1>6

\* One more answer follows.
LEMMA StreamAppend ==
    ASSUME NEW m \in Readers, NEW c \in Nat, NEW q \in Seq(Word), NEW o \in Seq(Answer(m)),
           Stream(m, c, q, o), NEW e \in Answer(m)
    PROVE  Stream(m, c, q \o Marshal(m, e.p, e.vals), Append(o, e))
<1> DEFINE S == Size(m)
           n == Len(o)
           w == Marshal(m, e.p, e.vals)
           r == q \o w
           u == Append(o, e)
<1>1. S \in Nat \ {0} /\ n \in Nat
  BY ReadTags DEF Off, Count
<1>2. w \in Seq(Word) /\ Len(w) = S
  BY MarshalWord DEF Answer
<1>3. Len(u) = n + 1 /\ u[n + 1] = e /\ \A j \in 1 .. n : u[j] = o[j]
  OBVIOUS
<1>4. Len(q) = (S * n) - c /\ Len(q) \in Nat
  BY DEF Stream
<1> HIDE DEF w, n, u
<1>5. /\ r \in Seq(Word) /\ Len(r) = Len(q) + S
      /\ \A i \in 1 .. Len(q) + S : r[i] = IF i <= Len(q) THEN q[i] ELSE w[i - Len(q)]
  BY <1>2, ConcatProperties
<1> HIDE DEF r
<1> DEFINE P(j, t) == (S * (j - 1)) + t - c
<1>6. ASSUME NEW j \in 1 .. Len(u), NEW t \in 1 .. S, P(j, t) >= 1
      PROVE  r[P(j, t)] = Marshal(m, u[j].p, u[j].vals)[t]
  <2>1. CASE j <= n
    <3>1. j \in 1 .. n
      BY <2>1, <1>1, <1>3
    <3>2. P(j, t) \in 1 .. Len(q) /\ P(j, t) \in 1 .. Len(q) + S
      <4>1. S * (j - 1) \in Nat /\ (S * (j - 1)) + t <= S * n
        BY <1>1, <3>1, Places
      <4> HIDE DEF S
      <4>2. S * n \in Int
        BY <1>1
      <4> QED  BY <1>1, <1>4, <1>6, <4>1, <4>2
    <3>3. r[P(j, t)] = q[P(j, t)]
      BY <3>2, <1>5
    <3>4. q[P(j, t)] = Marshal(m, o[j].p, o[j].vals)[t]
      BY <3>1, <1>6 DEF Stream, n
    <3> QED  BY <3>1, <3>3, <3>4, <1>3
  <2>2. CASE j > n
    <3>1. j = n + 1
      BY <2>2, <1>1, <1>3
    <3>2. P(j, t) = Len(q) + t
      <4>1. j - 1 = n /\ S * n \in Int
        BY <3>1, <1>1
      <4> HIDE DEF S
      <4> QED  BY <4>1, <1>4
    <3>3. r[P(j, t)] = w[t]
      <4>1. Len(q) + t \in 1 .. Len(q) + S /\ ~(Len(q) + t <= Len(q)) /\ Len(q) + t - Len(q) = t
        <5> HIDE DEF S
        <5> QED  BY <1>1, <1>4
      <4> QED  BY <4>1, <3>2, <1>5
    <3> QED  BY <3>1, <3>3, <1>3 DEF w
  <2> QED  BY <2>1, <2>2, <1>1, <1>3
<1>7. Len(r) = (S * Len(u)) - c
  <2>1. S * (n + 1) = (S * n) + S /\ S * n \in Nat
    BY <1>1
  <2> HIDE DEF S
  <2> QED  BY <2>1, <1>1, <1>3, <1>4, <1>5
<1> QED  BY <1>6, <1>7 DEF Stream, r, u, w

\* A word of the first answer is read.
LEMMA StreamTail ==
    ASSUME NEW m \in Readers, NEW c \in Nat, c < Size(m), NEW q \in Seq(Word),
           NEW o \in Seq(Answer(m)), Stream(m, c, q, o), q # <<>>
    PROVE  /\ o # <<>>
           /\ Head(q) = Marshal(m, o[1].p, o[1].vals)[c + 1]
           /\ c + 1 < Size(m) => Stream(m, c + 1, Tail(q), o)
           /\ c + 1 = Size(m) => Stream(m, 0, Tail(q), Tail(o))
           /\ c + 1 = Size(m) /\ Len(o) = 1 => Tail(q) = <<>>
<1> DEFINE S == Size(m)
           n == Len(o)
           r == Tail(q)
<1>1. S \in Nat \ {0} /\ n \in Nat
  BY ReadTags DEF Off, Count
<1>2. Len(q) = (S * n) - c /\ Len(q) \in Nat /\ Len(q) >= 1
  BY DEF Stream
<1>3. Head(q) = q[1] /\ Len(r) = Len(q) - 1 /\ \A i \in 1 .. Len(r) : r[i] = q[i + 1]
  OBVIOUS
<1>4. n # 0
  <2> SUFFICES ASSUME n = 0 PROVE FALSE
    OBVIOUS
  <2>1. S * 0 = 0
    BY <1>1
  <2> QED  BY <2>1, <1>2
<1>5. o # <<>> /\ 1 \in 1 .. n
  BY <1>1, <1>4
<1>6. Head(q) = Marshal(m, o[1].p, o[1].vals)[c + 1]
  <2>1. c + 1 \in 1 .. S /\ (S * (1 - 1)) + (c + 1) - c = 1
    BY <1>1
  <2> QED  BY <1>3, <1>5, <2>1 DEF Stream
<1> HIDE DEF r
<1>7. ASSUME c + 1 < S PROVE Stream(m, c + 1, r, o)
  <2>1. Len(r) = (S * n) - (c + 1)
    <3>1. S * n \in Nat
      BY <1>1
    <3> HIDE DEF S, n
    <3> QED  BY <3>1, <1>2, <1>3
  <2>2. ASSUME NEW j \in 1 .. n, NEW t \in 1 .. S, (S * (j - 1)) + t - (c + 1) >= 1
        PROVE  r[(S * (j - 1)) + t - (c + 1)] = Marshal(m, o[j].p, o[j].vals)[t]
    <3>1. S * (j - 1) \in Nat /\ S * n \in Nat /\ (S * (j - 1)) + t <= S * n
      BY <1>1, Places
    <3> DEFINE a == S * (j - 1)
    <3>2. /\ a + t - (c + 1) \in 1 .. Len(r) /\ a + t - (c + 1) + 1 = a + t - c
          /\ a + t - c >= 1
      <4> HIDE DEF S, a
      <4> QED  BY <1>1, <2>1, <2>2, <3>1 DEF a
    <3>3. r[a + t - (c + 1)] = q[a + t - c]
      BY <3>2, <1>3
    <3>4. q[a + t - c] = Marshal(m, o[j].p, o[j].vals)[t]
      BY <3>2 DEF Stream
    <3> QED  BY <3>3, <3>4
  <2> QED  BY <2>1, <2>2 DEF Stream
<1>8. ASSUME c + 1 = S PROVE Stream(m, 0, r, Tail(o))
  <2> DEFINE u == Tail(o)
  <2>1. Len(u) = n - 1 /\ \A j \in 1 .. Len(u) : u[j] = o[j + 1]
    BY <1>5
  <2> HIDE DEF u
  <2>2. Len(r) = (S * Len(u)) - 0
    <3>1. S * n = (S * (n - 1)) + S /\ S * (n - 1) \in Int
      BY <1>1
    <3> HIDE DEF S, n
    <3> QED  BY <3>1, <1>1, <1>2, <1>3, <1>8, <2>1
  <2>3. ASSUME NEW j \in 1 .. Len(u), NEW t \in 1 .. S, (S * (j - 1)) + t - 0 >= 1
        PROVE  r[(S * (j - 1)) + t - 0] = Marshal(m, u[j].p, u[j].vals)[t]
    <3>1. j + 1 \in 1 .. n /\ u[j] = o[j + 1]
      BY <1>1, <2>1
    <3>2. /\ S * (j - 1) \in Nat /\ (S * (j - 1)) + t <= S * Len(u)
          /\ S * (j + 1 - 1) = (S * (j - 1)) + S /\ S * Len(u) \in Nat
      <4>1. Len(u) \in Nat
        BY <1>1, <1>4, <2>1
      <4> HIDE DEF S
      <4> QED  BY <4>1, <1>1, Places
    <3> DEFINE a == S * (j - 1)
               b == S * (j + 1 - 1)
    <3>3. /\ a + t - 0 \in 1 .. Len(r) /\ a + t - 0 + 1 = b + t - c
          /\ b + t - c >= 1
      <4> HIDE DEF S, a, b
      <4> QED  BY <1>1, <1>8, <2>2, <3>2 DEF a, b
    <3>4. r[a + t - 0] = q[b + t - c]
      BY <3>3, <1>3
    <3>5. q[b + t - c] = Marshal(m, o[j + 1].p, o[j + 1].vals)[t]
      BY <3>1, <3>3 DEF Stream
    <3> QED  BY <3>1, <3>4, <3>5
  <2> QED  BY <2>2, <2>3 DEF Stream, u
<1>9. ASSUME c + 1 = S, n = 1 PROVE r = <<>>
  <2>1. Len(r) = 0
    <3>1. S * 1 = S
      BY <1>1
    <3> QED  BY <3>1, <1>1, <1>2, <1>3, <1>9
  <2>2. r \in Seq(Word)
    BY <1>2 DEF r
  <2> QED  BY <2>1, <2>2, EmptySeq
<1> QED  BY <1>5, <1>6, <1>7, <1>8, <1>9 DEF r

Taken(m) == IF call.m = m THEN call.k ELSE 0

\* A method other than read_message has one request or answer on its way while
\* it is called, with the port of the call, and none otherwise.
Single(m) == m # "message" =>
    /\ Len(asked[m]) + Len(out[m]) = IF call.m = m THEN 1 ELSE 0
    /\ call.m = m => /\ asked[m] # <<>> => asked[m][1].p = call.p
                     /\ out[m] # <<>> => out[m][1].p = call.p

Progress(m) == call.m = m =>
    IF call.k = 0 THEN acc = <<>> ELSE ReadSoFar(m, call.k, out[m][1].vals, acc)

Belongs(m) == Stream(m, Taken(m), fifo[m], out[m]) /\ Single(m) /\ Progress(m)

\* What is in the FIFO of a method that was never late is what the board has
\* answered, less the words that the call under way has read and put together.
\* read_message, which looks first, is never late.
BelongInv ==
    /\ "message" \notin late
    /\ call = NoCall => acc = <<>>
    /\ \A m \in Readers \ late : Belongs(m)

\* The next state, spelled out.
LEMMA BelongsNext ==
    ASSUME NEW m \in Readers,
           Stream(m, IF call'.m = m THEN call'.k ELSE 0, fifo'[m], out'[m]),
           m # "message" =>
               /\ Len(asked'[m]) + Len(out'[m]) = IF call'.m = m THEN 1 ELSE 0
               /\ call'.m = m => /\ asked'[m] # <<>> => asked'[m][1].p = call'.p
                                 /\ out'[m] # <<>> => out'[m][1].p = call'.p,
           call'.m = m =>
               IF call'.k = 0 THEN acc' = <<>>
               ELSE ReadSoFar(m, call'.k, out'[m][1].vals, acc')
    PROVE  Belongs(m)'
<1>1. Stream(m, Taken(m), fifo[m], out[m])'
  BY DEF Stream, Taken, Marshal
<1>2. Single(m)'
  BY DEF Single
<1>3. Progress(m)'
  BY DEF Progress, ReadSoFar
<1> QED  BY <1>1, <1>2, <1>3 DEF Belongs

\* Methods that a step does not touch.
LEMMA BelongsKept ==
    ASSUME NEW m \in Readers, Belongs(m),
           fifo'[m] = fifo[m], out'[m] = out[m], asked'[m] = asked[m],
           (call' = call /\ acc' = acc) \/ (call.m # m /\ call'.m # m)
    PROVE  Belongs(m)'
<1>1. Stream(m, IF call'.m = m THEN call'.k ELSE 0, fifo'[m], out'[m])
  BY DEF Belongs, Taken
<1>2. m # "message" =>
         /\ Len(asked'[m]) + Len(out'[m]) = IF call'.m = m THEN 1 ELSE 0
         /\ call'.m = m => /\ asked'[m] # <<>> => asked'[m][1].p = call'.p
                           /\ out'[m] # <<>> => out'[m][1].p = call'.p
  BY DEF Belongs, Single
<1>3. call'.m = m => IF call'.k = 0 THEN acc' = <<>>
                     ELSE ReadSoFar(m, call'.k, out'[m][1].vals, acc')
  BY DEF Belongs, Progress
<1> QED  BY <1>1, <1>2, <1>3, BelongsNext

LEMMA NoCallReads == NoCall.m \notin Readers
BY MethodNames DEF NoCall

\* Nothing is read and nothing answered before the first call.
LEMMA BelongStarts == PortalInit => BelongInv
<1> SUFFICES ASSUME PortalInit, NEW m \in Readers PROVE Belongs(m)
  BY DEF PortalInit, BelongInv
<1>1. call.m # m
  BY NoCallReads DEF PortalInit
<1>2. Stream(m, 0, <<>>, <<>>)
  <2>1. Size(m) * 0 = 0
    BY ReadTags DEF Off, Count
  <2> QED  BY <2>1 DEF Stream
<1>3. fifo[m] = <<>> /\ out[m] = <<>> /\ asked[m] = <<>>
  BY MethodNames DEF PortalInit
<1> QED  BY <1>1, <1>2, <1>3 DEF Belongs, Taken, Single, Progress

\* A call begins.
LEMMA PostBelongs ==
    ASSUME PortalInv, BelongInv, NEW m \in Methods, NEW p, NEW v, NEW reads,
           m = "message" => reads = Reads[m], Post(m, p, v, reads)
    PROVE  BelongInv'
<1>1. /\ call = NoCall /\ acc = <<>> /\ UNCHANGED <<fifo, acc, out>>
      /\ asked' = [asked EXCEPT ![m] = Append(@, [p |-> p, v |-> v])]
      /\ call' = IF m \in Readers THEN [m |-> m, p |-> p, k |-> 0, reads |-> reads] ELSE NoCall
      /\ late \subseteq late' /\ "message" \notin late'
  BY DEF Post, BelongInv
<1>2. DOMAIN asked = Methods
  BY DEF PortalInv, RequestInv
<1>3. ASSUME NEW r \in Readers \ late' PROVE Belongs(r)'
  <2>1. Belongs(r) /\ call.m # r /\ r \in Methods
    BY <1>1, <1>3, NoCallReads, MethodNames DEF BelongInv
  <2>2. CASE r # m
    <3>1. call'.m # r
      BY <1>1, <2>2, NoCallReads
    <3>2. asked'[r] = asked[r]
      BY <1>1, <1>2, <2>1, <2>2
    <3> QED  BY <1>1, <2>1, <3>1, <3>2, BelongsKept
  <2>3. CASE r = m
    <3>1. call'.m = r /\ call'.k = 0 /\ call'.p = p
      BY <1>1, <2>3
    <3>2. Stream(r, IF call'.m = r THEN call'.k ELSE 0, fifo'[r], out'[r])
      BY <1>1, <2>1, <3>1 DEF Belongs, Taken
    <3>3. asked[r] \in Seq([p: Word, v: Nat]) /\ out[r] \in Seq(Answer(r))
      BY <2>1 DEF PortalInv, RequestInv, AnswerInv
    <3>4. r # "message" => /\ Len(asked'[r]) = 1 /\ asked'[r][1].p = p
                           /\ out'[r] = <<>> /\ Len(out'[r]) = 0
      <4> SUFFICES ASSUME r # "message"
                   PROVE  /\ Len(asked'[r]) = 1 /\ asked'[r][1].p = p
                          /\ out'[r] = <<>> /\ Len(out'[r]) = 0
        OBVIOUS
      <4>1. Len(asked[r]) + Len(out[r]) = 0
        BY <2>1 DEF Belongs, Single
      <4>2. asked[r] = <<>> /\ out[r] = <<>>
        <5>1. Len(asked[r]) \in Nat /\ Len(out[r]) \in Nat
          BY <3>3
        <5>2. Len(asked[r]) = 0 /\ Len(out[r]) = 0
          <6>1. \A a, b \in Nat : a + b = 0 => a = 0 /\ b = 0
            OBVIOUS
          <6> QED  BY <4>1, <5>1, <6>1, Zenon
        <5> QED  BY <3>3, <5>2, EmptySeq
      <4>3. asked'[r] = Append(<<>>, [p |-> p, v |-> v])
        BY <1>1, <1>2, <2>3, <4>2
      <4> QED  BY <1>1, <4>2, <4>3
    <3>5. r # "message" =>
             /\ Len(asked'[r]) + Len(out'[r]) = IF call'.m = r THEN 1 ELSE 0
             /\ call'.m = r => /\ asked'[r] # <<>> => asked'[r][1].p = call'.p
                               /\ out'[r] # <<>> => out'[r][1].p = call'.p
      <4>1. 1 + 0 = 1
        OBVIOUS
      <4> QED  BY <3>1, <3>4, <4>1, Zenon
    <3>6. acc' = <<>>
      BY <1>1
    <3> QED  BY <3>1, <3>2, <3>5, <3>6, BelongsNext
  <2> QED  BY <2>2, <2>3
<1>4. call' = NoCall => acc' = <<>>
  BY <1>1
<1> QED  BY <1>1, <1>3, <1>4 DEF BelongInv

\* dtp_read_message gives up before it has read anything.
LEMMA NoMessageBelongs ==
    ASSUME PortalInv, BelongInv, NoMessage
    PROVE  BelongInv'
<1>1. /\ call.m = "message" /\ call.k = 0 /\ call' = NoCall
      /\ UNCHANGED <<fifo, acc, asked, out, late>>
  BY DEF NoMessage
<1>2. "message" \in Readers \ late
  BY MethodNames DEF BelongInv
<1>3. Belongs("message")
  BY <1>2 DEF BelongInv
<1>4. acc = <<>>
  BY <1>1, <1>3 DEF Belongs, Progress
<1>5. ASSUME NEW r \in Readers \ late' PROVE Belongs(r)'
  <2>1. Belongs(r) /\ call'.m # r
    BY <1>1, <1>5, NoCallReads DEF BelongInv
  <2>2. CASE r # "message"
    BY <1>1, <2>1, <2>2, BelongsKept
  <2>3. CASE r = "message"
    <3>1. Stream(r, IF call'.m = r THEN call'.k ELSE 0, fifo'[r], out'[r])
      BY <1>1, <2>1, <2>3 DEF Belongs, Taken
    <3> QED  BY <2>1, <2>3, <3>1, BelongsNext
  <2> QED  BY <2>2, <2>3
<1> QED  BY <1>1, <1>4, <1>5, <1>2 DEF BelongInv

\* A call that reads a word of an answer in time: the word is the next one of
\* the answer that it was made for, and with the last one it has the values.
LEMMA WordInTime ==
    ASSUME PortalInv, BelongInv, ReadWord, call.m \notin late, fifo[call.m] # <<>>
    PROVE  /\ call \in Call /\ call.m \in Readers /\ call.k < Size(call.m)
           /\ out[call.m] # <<>> /\ out[call.m] \in Seq(Answer(call.m))
           /\ call.k + 1 < Size(call.m) =>
                /\ Stream(call.m, call.k + 1, Tail(fifo[call.m]), out[call.m])
                /\ ReadSoFar(call.m, call.k + 1, out[call.m][1].vals, ReturnValue)
           /\ call.k + 1 = Size(call.m) =>
                /\ Stream(call.m, 0, Tail(fifo[call.m]), Tail(out[call.m]))
                /\ ReturnValue = out[call.m][1].vals
                /\ Len(out[call.m]) = 1 => Tail(fifo[call.m]) = <<>>
<1> DEFINE m == call.m
           q == fifo[m]
           o == out[m]
<1>1. /\ call \in Call /\ m \in Readers /\ call.k \in Nat /\ call.k < Size(m)
      /\ q \in Seq(Word) /\ o \in Seq(Answer(m)) /\ acc \in Seq(Nat)
      /\ call.reads = Reads[m]
  BY DEF ReadWord, PortalInv, AnswerInv, Call, Size
<1>2. Belongs(m)
  BY <1>1 DEF BelongInv
<1>3. Stream(m, call.k, q, o) /\ q # <<>>
  BY <1>2 DEF Belongs, Taken
<1>4. Progress(m)
  BY <1>2 DEF Belongs
<1>5. ReturnValue = Take(acc, Reads[m][call.k + 1], Head(q))
  BY <1>1 DEF ReturnValue
<1> HIDE DEF q, o
<1>6. /\ o # <<>>
      /\ Head(q) = Marshal(m, o[1].p, o[1].vals)[call.k + 1]
      /\ call.k + 1 < Size(m) => Stream(m, call.k + 1, Tail(q), o)
      /\ call.k + 1 = Size(m) => Stream(m, 0, Tail(q), Tail(o))
      /\ call.k + 1 = Size(m) /\ Len(o) = 1 => Tail(q) = <<>>
  BY <1>1, <1>3, StreamTail
<1>7. o[1].p \in Word /\ o[1].vals \in Contents(m)
  <2>1. 1 \in 1 .. Len(o)
    BY <1>1, <1>6
  <2>2. o[1] \in Answer(m)
    BY <1>1, <2>1, ElementOfSeq
  <2> QED  BY <2>2 DEF Answer
<1>8. ReadSoFar(m, call.k, o[1].vals, acc)
  <2>1. CASE call.k = 0
    <3>1. acc = <<>>
      BY <1>4, <2>1 DEF Progress
    <3>2. (0 - 0 + 1) \div 2 = 0 /\ (0 - 1 + 1) \div 2 = 0
      OBVIOUS
    <3>3. (0 - Off(m) + 1) \div 2 = 0
      BY <3>2 DEF Off
    <3> QED  BY <2>1, <3>1, <3>3 DEF ReadSoFar
  <2>2. CASE call.k # 0
    BY <1>4, <2>2 DEF Progress, o
  <2> QED  BY <2>1, <2>2
<1>9. /\ call.k + 1 < Size(m) => ReadSoFar(m, call.k + 1, o[1].vals, ReturnValue)
      /\ call.k + 1 = Size(m) => ReturnValue = o[1].vals
  <2>1. ASSUME NEW r \in Readers, r = m, NEW k \in Nat, k = call.k, NEW p \in Word, p = o[1].p,
               NEW vals \in Contents(r), vals = o[1].vals, NEW s \in Seq(Nat), s = acc,
               NEW x, x = Head(q)
        PROVE  /\ k + 1 < Size(r) => ReadSoFar(r, k + 1, vals, Take(s, Reads[r][k + 1], x))
               /\ k + 1 = Size(r) => Take(s, Reads[r][k + 1], x) = vals
    <3>1. k < Size(r) /\ ReadSoFar(r, k, vals, s) /\ x = Marshal(r, p, vals)[k + 1]
      BY <2>1, <1>1, <1>6, <1>8
    <3> QED  BY ONLY <3>1, TakeWord
  <2> QED  BY <2>1, <1>1, <1>5, <1>7
<1> QED  BY <1>1, <1>6, <1>9 DEF q, o

\* A word is read.
LEMMA ReadWordBelongs ==
    ASSUME PortalInv, BelongInv, ReadWord
    PROVE  BelongInv'
<1> DEFINE m == call.m
           last == call.k + 1 = Len(call.reads)
<1>1. /\ call \in Call /\ call # NoCall /\ m \in Readers /\ call.k \in Nat
      /\ fifo[m] \in Seq(Word) /\ out[m] \in Seq(Answer(m)) /\ late \subseteq Readers
      /\ DOMAIN out = Readers /\ DOMAIN fifo = Readers
      /\ call.k < Len(call.reads) /\ Len(call.reads) \in Nat
      /\ m \notin late => call.reads = Reads[m]
  BY DEF ReadWord, PortalInv, AnswerInv, Call
<1>2. /\ fifo' = [fifo EXCEPT ![m] = IF @ = <<>> THEN @ ELSE Tail(@)]
      /\ late' = IF fifo[m] = <<>> THEN late \cup {m} ELSE late
      /\ call' = IF last THEN NoCall ELSE [call EXCEPT !.k = @ + 1]
      /\ out' = IF last /\ out[m] # <<>> THEN [out EXCEPT ![m] = Tail(@)] ELSE out
      /\ UNCHANGED asked
      /\ last => acc' = <<>>
      /\ fifo[m] # <<>> /\ ~last => acc' = ReturnValue
      /\ m = "message" /\ call.k = 0 => fifo[m] # <<>>
  BY DEF ReadWord, ReturnValue, dtp_check_indication_queue
<1>3. m \notin late => (last <=> call.k + 1 = Size(m)) /\ Size(m) = Len(call.reads)
  BY <1>1 DEF Size
<1>4. call.k + 1 # 0 /\ (~last => call.k + 1 < Len(call.reads))
  BY <1>1
<1>5. ~last => /\ call'.m = m /\ call'.p = call.p /\ call'.k = call.k + 1 /\ call'.k # 0
               /\ call' # NoCall /\ (m \notin late => call.k + 1 < Size(m))
  <2> SUFFICES ASSUME ~last
               PROVE  /\ call'.m = m /\ call'.p = call.p /\ call'.k = call.k + 1 /\ call'.k # 0
                      /\ call' # NoCall /\ (m \notin late => call.k + 1 < Size(m))
    OBVIOUS
  <2>1. call'.m = m /\ call'.p = call.p /\ call'.k = call.k + 1
    BY <1>1, <1>2 DEF Call
  <2> QED  BY <2>1, <1>1, <1>3, <1>4, NoCallReads
<1>6. "message" \notin late'
  <2>1. SUFFICES ASSUME m = "message", call.k # 0 PROVE fifo[m] # <<>>
    BY <1>2 DEF BelongInv
  <2>2. Belongs(m)
    BY <1>1, <2>1 DEF BelongInv
  <2>3. /\ Len(fifo[m]) = (Size(m) * Len(out[m])) - call.k
        /\ Size(m) = 7 /\ Len(out[m]) \in Nat /\ Len(fifo[m]) \in Nat
        /\ call.k < Size(m)
    <3>1. Len(fifo[m]) = (Size(m) * Len(out[m])) - call.k
      BY <2>2 DEF Belongs, Taken, Stream
    <3>2. Size(m) = 7
      BY <1>1, <2>1, ReadTags DEF Off, Count, Long
    <3>3. call.k < Size(m)
      BY <2>1, <1>1, <1>3 DEF BelongInv
    <3> QED  BY <3>1, <3>2, <3>3, <1>1
  <2>4. Len(fifo[m]) # 0
    BY <2>1, <2>3, <1>1
  <2> QED  BY <2>4, EmptySeq
<1>7. ASSUME NEW r \in Readers \ late' PROVE Belongs(r)'
  <2>1. Belongs(r) /\ r \notin late
    BY <1>2, <1>7 DEF BelongInv
  <2>2. CASE r # m
    <3>1. call.m # r /\ call'.m # r
      BY <1>2, <1>5, <2>2, NoCallReads
    <3>2. fifo'[r] = fifo[r] /\ out'[r] = out[r] /\ asked'[r] = asked[r]
      BY <1>1, <1>2, <2>2
    <3> QED  BY <2>1, <3>1, <3>2, BelongsKept
  <2>3. CASE r = m
    <3>1. fifo[m] # <<>> /\ m \notin late
      BY <1>2, <1>7, <2>1, <2>3
    <3>2. fifo'[m] = Tail(fifo[m])
      BY <1>1, <1>2, <3>1
    <3>3. m # "message" => /\ Len(asked[m]) + Len(out[m]) = 1
                           /\ asked[m] # <<>> => asked[m][1].p = call.p
                           /\ out[m] # <<>> => out[m][1].p = call.p
      BY <2>1, <2>3 DEF Belongs, Single
    <3>4. CASE ~last
      <4>1. out'[r] = out[r] /\ asked'[r] = asked[r] /\ acc' = ReturnValue
        BY <1>2, <2>3, <3>1, <3>4
      <4>2. Stream(r, call'.k, fifo'[r], out'[r])
        BY <1>5, <2>3, <3>1, <3>2, <3>4, <4>1, WordInTime
      <4>3. ReadSoFar(r, call'.k, out'[r][1].vals, acc')
        BY <1>5, <2>3, <3>1, <3>4, <4>1, WordInTime
      <4>4. r # "message" =>
              /\ Len(asked'[r]) + Len(out'[r]) = IF call'.m = r THEN 1 ELSE 0
              /\ call'.m = r => /\ asked'[r] # <<>> => asked'[r][1].p = call'.p
                                /\ out'[r] # <<>> => out'[r][1].p = call'.p
        BY <1>5, <2>3, <3>3, <3>4, <4>1
      <4>5. Stream(r, IF call'.m = r THEN call'.k ELSE 0, fifo'[r], out'[r])
        BY <1>5, <2>3, <3>4, <4>2
      <4>6. call'.m = r => IF call'.k = 0 THEN acc' = <<>>
                           ELSE ReadSoFar(r, call'.k, out'[r][1].vals, acc')
        BY <1>5, <3>4, <4>3
      <4> QED  BY <4>4, <4>5, <4>6, BelongsNext
    <3>5. CASE last
      <4>1. out[r] # <<>> /\ Stream(r, 0, Tail(fifo[r]), Tail(out[r]))
        BY <1>3, <2>3, <3>1, <3>5, WordInTime
      <4>2. out'[r] = Tail(out[r]) /\ asked'[r] = asked[r] /\ call' = NoCall /\ call'.m # r
        BY <1>1, <1>2, <2>3, <3>5, <4>1, NoCallReads
      <4>3. r # "message" => Len(asked'[r]) + Len(out'[r]) = 0
        <5>1. Len(out[r]) \in Nat /\ Len(out[r]) # 0 /\ Len(Tail(out[r])) = Len(out[r]) - 1
          BY <1>1, <2>3, <4>1, EmptySeq
        <5>2. Len(asked[r]) \in Nat
          <6>1. r \in Methods
            BY MethodNames
          <6>2. asked[r] \in Seq([p: Word, v: Nat])
            BY <6>1 DEF PortalInv, RequestInv
          <6> QED  BY <6>2
        <5>3. \A a, b \in Nat : a + b = 1 /\ b # 0 => a + (b - 1) = 0
          OBVIOUS
        <5> QED  BY <2>3, <3>3, <4>2, <5>1, <5>2, <5>3
      <4>4. Stream(r, IF call'.m = r THEN call'.k ELSE 0, fifo'[r], out'[r])
        BY <2>3, <3>2, <4>1, <4>2
      <4> QED  BY <4>2, <4>3, <4>4, BelongsNext
    <3> QED  BY <3>4, <3>5
  <2> QED  BY <2>2, <2>3
<1>8. call' = NoCall => acc' = <<>>
  BY <1>2, <1>5
<1> QED  BY <1>6, <1>7, <1>8 DEF BelongInv

\* The board takes a request and answers, or has no message.
LEMMA ServeBelongs ==
    ASSUME PortalInv, BelongInv, NEW m \in Methods, Serve(m)
    PROVE  BelongInv'
<1>1. /\ UNCHANGED <<call, acc, late>> /\ asked' = [asked EXCEPT ![m] = Tail(@)]
      /\ DOMAIN asked = Methods /\ DOMAIN fifo = Readers /\ DOMAIN out = Readers
  BY DEF Serve, PortalInv, RequestInv, AnswerInv
<1>2. asked[m] # <<>> /\ Decode(m) = Head(asked[m]) /\ Head(asked[m]) \in Request(m)
  <2>1. req[m] \in Seq(Word) /\ asked[m] \in Seq(Request(m)) /\ Means(m, req[m], asked[m])
    BY DEF PortalInv, RequestInv
  <2>2. asked[m] # <<>>
    BY <2>1, MeansTail DEF Serve
  <2>3. Decode(m) = Head(asked[m]) /\ Head(asked[m]) \in Request(m)
    BY <2>1, <2>2, Decoded
  <2> QED  BY <2>2, <2>3
<1>3. ASSUME NEW r \in Readers \ late' PROVE Belongs(r)'
  <2>1. Belongs(r) /\ r \in Methods
    BY <1>1, <1>3, MethodNames DEF BelongInv
  <2>2. CASE r # m
    <3>1. fifo'[r] = fifo[r] /\ out'[r] = out[r]
      BY <1>1, <2>2 DEF Serve
    <3>2. asked'[r] = asked[r]
      BY <1>1, <2>1, <2>2
    <3> QED  BY <1>1, <2>1, <3>1, <3>2, BelongsKept
  <2>3. CASE r = m /\ UNCHANGED <<fifo, out>> /\ r = "message"
    <3>1. Stream(r, IF call'.m = r THEN call'.k ELSE 0, fifo'[r], out'[r])
      BY <1>1, <2>1, <2>3 DEF Belongs, Taken
    <3>2. call'.m = r => IF call'.k = 0 THEN acc' = <<>>
                         ELSE ReadSoFar(r, call'.k, out'[r][1].vals, acc')
      BY <1>1, <2>1, <2>3 DEF Belongs, Progress
    <3> QED  BY <2>3, <3>1, <3>2, BelongsNext
  <2>4. CASE r = m /\ ~(UNCHANGED <<fifo, out>> /\ r = "message")
    <3>1. PICK vals \in Contents(r) :
              /\ fifo' = [fifo EXCEPT ![r] = @ \o Marshal(r, Decode(r).p, vals)]
              /\ out' = [out EXCEPT ![r] = Append(@, [p |-> Decode(r).p, vals |-> vals])]
      BY <2>4, MethodNames DEF Serve
    <3> DEFINE e == [p |-> Decode(r).p, vals |-> vals]
    <3>2. e \in Answer(r) /\ e.p = Head(asked[r]).p /\ e.vals = vals
      BY <1>2, <2>4, PortalAssumption DEF Answer, Request, Ports, Word
    <3>3. /\ fifo'[r] = fifo[r] \o Marshal(r, e.p, e.vals) /\ out'[r] = Append(out[r], e)
          /\ asked'[r] = Tail(asked[r])
      BY <1>1, <2>1, <2>4, <3>1
    <3> HIDE DEF e
    <3>4. /\ fifo[r] \in Seq(Word) /\ out[r] \in Seq(Answer(r)) /\ Taken(r) \in Nat
          /\ asked[r] \in Seq([p: Word, v: Nat])
      <4>1. Taken(r) \in Nat
        BY NoCallReads DEF PortalInv, AnswerInv, Call, Taken
      <4> QED  BY <2>1, <4>1 DEF PortalInv, RequestInv, AnswerInv
    <3>5. Stream(r, Taken(r), fifo[r], out[r])
      BY <2>1 DEF Belongs
    <3>6. Stream(r, Taken(r), fifo[r] \o Marshal(r, e.p, e.vals), Append(out[r], e))
      BY ONLY <2>1, <3>2, <3>4, <3>5, StreamAppend
    <3>7. Stream(r, IF call'.m = r THEN call'.k ELSE 0, fifo'[r], out'[r])
      BY <1>1, <3>3, <3>6 DEF Taken
    <3>8. /\ Len(asked[r]) \in Nat /\ Len(asked[r]) # 0 /\ Len(out[r]) \in Nat
          /\ Len(asked'[r]) = Len(asked[r]) - 1 /\ Len(out'[r]) = Len(out[r]) + 1
      BY <1>2, <2>4, <3>3, <3>4, EmptySeq
    <3>9. out[r] # <<>> => out'[r][1] = out[r][1]
      BY <3>3, <3>4
    <3>10. out[r] = <<>> => out'[r][1] = e
      BY <3>3
    <3>11. ASSUME r # "message"
           PROVE  /\ Len(asked'[r]) + Len(out'[r]) = IF call'.m = r THEN 1 ELSE 0
                  /\ call'.m = r => /\ asked'[r] # <<>> => asked'[r][1].p = call'.p
                                    /\ out'[r] # <<>> => out'[r][1].p = call'.p
      <4>1. /\ Len(asked[r]) + Len(out[r]) = IF call.m = r THEN 1 ELSE 0
            /\ call.m = r => asked[r][1].p = call.p
        BY <1>2, <2>1, <2>4, <3>11 DEF Belongs, Single
      <4>2. \A a, b \in Nat : a # 0 /\ (a + b = 1 \/ a + b = 0) =>
                a - 1 = 0 /\ b = 0 /\ a + b = 1 /\ (a - 1) + (b + 1) = 1
        OBVIOUS
      <4>3. /\ Len(asked[r]) - 1 = 0 /\ Len(out[r]) = 0 /\ call.m = r
            /\ Len(asked'[r]) + Len(out'[r]) = 1
        <5>1. /\ Len(asked[r]) + Len(out[r]) = 1 \/ Len(asked[r]) + Len(out[r]) = 0
              /\ Len(asked[r]) + Len(out[r]) = 1 => call.m = r
          <6>1. CASE call.m = r
            BY <6>1, <4>1, Zenon
          <6>2. CASE call.m # r
            <7>1. Len(asked[r]) + Len(out[r]) = 0
              BY <6>2, <4>1, Zenon
            <7>2. 0 # 1
              OBVIOUS
            <7> QED  BY <7>1, <7>2, Zenon
          <6> QED  BY <6>1, <6>2, Zenon
        <5>2. /\ Len(asked[r]) - 1 = 0 /\ Len(out[r]) = 0 /\ Len(asked[r]) + Len(out[r]) = 1
              /\ (Len(asked[r]) - 1) + (Len(out[r]) + 1) = 1
          BY <3>8, <4>2, <5>1, Zenon
        <5> QED  BY <3>8, <5>1, <5>2, Zenon
      <4>4. asked'[r] = <<>> /\ out[r] = <<>>
        <5>1. Tail(asked[r]) \in Seq([p: Word, v: Nat]) /\ Len(Tail(asked[r])) = 0
          BY <1>2, <2>4, <3>3, <3>4, <3>8, <4>3
        <5> QED  BY <3>3, <3>4, <4>3, <5>1, EmptySeq
      <4>5. out'[r][1].p = call.p
        <5>1. Head(asked[r]) = asked[r][1]
          BY <1>2, <2>4, <3>4
        <5> QED  BY <3>2, <3>10, <4>1, <4>3, <4>4, <5>1
      <4>6. call' = call
        BY <1>1
      <4>7. call'.m = r /\ call'.p = call.p
        BY <4>3, <4>6
      <4>8. Len(asked'[r]) + Len(out'[r]) = IF call'.m = r THEN 1 ELSE 0
        BY <4>3, <4>7, Zenon
      <4>9. asked'[r] # <<>> => asked'[r][1].p = call'.p
        BY <4>4
      <4>10. out'[r][1].p = call'.p
        BY <4>5, <4>7
      <4> QED  BY <4>8, <4>9, <4>10, Zenon
    <3>12. ASSUME call'.m = r
           PROVE  IF call'.k = 0 THEN acc' = <<>>
                  ELSE ReadSoFar(r, call'.k, out'[r][1].vals, acc')
      <4>1. IF call.k = 0 THEN acc = <<>> ELSE ReadSoFar(r, call.k, out[r][1].vals, acc)
        BY <1>1, <2>1, <3>12 DEF Belongs, Progress
      <4>2. call.k # 0 => out[r] # <<>>
        <5> SUFFICES ASSUME out[r] = <<>> PROVE call.k = 0
          OBVIOUS
        <5>1. Len(fifo[r]) = (Size(r) * 0) - call.k /\ Len(fifo[r]) \in Nat
          BY <1>1, <3>4, <3>5, <3>12 DEF Stream, Taken
        <5>2. Size(r) * 0 = 0
          BY ReadTags DEF Off, Count
        <5>3. call.k \in Nat
          BY <1>1, <3>4, <3>12 DEF Taken
        <5> QED  BY <5>1, <5>2, <5>3
      <4> QED  BY <1>1, <3>9, <4>1, <4>2
    <3> QED  BY <3>7, <3>11, <3>12, BelongsNext
  <2> QED  BY <2>2, <2>3, <2>4
<1> QED  BY <1>1, <1>3 DEF BelongInv

\* Requests of methods without an answer.
LEMMA WritersBelong ==
    ASSUME PortalInv, BelongInv, NEW m \in Writers, UNCHANGED <<fifo, call, acc, out, late>>,
           NEW x, asked' = [asked EXCEPT ![m] = x]
    PROVE  BelongInv'
<1>1. ASSUME NEW r \in Readers PROVE asked'[r] = asked[r]
  BY <1>1, MethodNames DEF PortalInv, RequestInv
<1> QED  BY <1>1, BelongsKept DEF BelongInv

\* Every step keeps the answers with their calls.
LEMMA BelongKept ==
    ASSUME PortalInv, BelongInv, [Next]_vars
    PROVE  BelongInv'
<1>1. CASE UNCHANGED portalVars
  BY <1>1, BelongsKept DEF portalVars, BelongInv
<1>2. CASE dtp_init
  <2>1. SetIntervals \/ UNCHANGED portalVars
    BY <1>2 DEF dtp_init
  <2>2. ASSUME SetIntervals PROVE BelongInv'
    BY <2>2, WritersBelong, MethodNames DEF SetIntervals
  <2> QED  BY <1>1, <2>1, <2>2
<1>3. CASE dtp_daemon_calls
  <2>1. ASSUME NEW m \in Called \cap used, NEW p \in Ports, NEW v \in Values \cup {0},
               Post(m, p, v, ReadAs(m))
        PROVE  BelongInv'
    <3>1. m \in Methods /\ (m = "message" => ReadAs(m) = Reads[m])
      BY MethodNames DEF Called, older_run_dtp_daemon, ReadAs
    <3> QED  BY <2>1, <3>1, PostBelongs
  <2> QED  BY <1>3, <2>1, NoMessageBelongs, ReadWordBelongs DEF dtp_daemon_calls
<1>4. CASE DtpController
  BY <1>4, ServeBelongs DEF DtpController
<1>5. ASSUME NEW c \in Clients, dtp_proc_open(c) PROVE BelongInv'
  <2>1. ASSUME NEW n, asked' = [asked EXCEPT !["reset"] = Append(@, [p |-> n, v |-> 0])],
               UNCHANGED <<fifo, call, acc, out, late>>
        PROVE  BelongInv'
    BY <2>1, WritersBelong, MethodNames
  <2> QED  BY <1>1, <1>5, <2>1 DEF dtp_proc_open
<1>6. CASE \/ insmod \/ dtp_init_returns \/ Unwind \/ dtp_exit \/ reboot
           \/ dtp_daemon_sleeps \/ dtp_daemon_wakes
           \/ \E c \in Clients : \/ dtp_fs_open(c) \/ dtp_fs_mmap(c) \/ dtp_fs_release(c)
                                 \/ dtp_seq_proc_show(c)
  BY <1>1, <1>6 DEF insmod, dtp_init_returns, Unwind, dtp_exit, reboot, dtp_daemon_sleeps,
       dtp_daemon_wakes, dtp_fs_open, dtp_fs_mmap, dtp_fs_release, dtp_seq_proc_show
<1>7. CASE UNCHANGED vars
  BY <1>1, <1>7 DEF vars
<1> QED  BY <1>2, <1>3, <1>4, <1>5, <1>6, <1>7 DEF Next

\* A call ends only by reading: nothing else takes it back.
LEMMA CallEnds ==
    ASSUME [Next]_vars, call # NoCall, call' = NoCall
    PROVE  NoMessage \/ ReadWord
<1>1. ASSUME UNCHANGED call PROVE FALSE
  BY <1>1
<1>2. CASE dtp_init
  BY <1>1, <1>2 DEF dtp_init, SetIntervals, portalVars
<1>3. CASE dtp_daemon_calls
  BY <1>3 DEF dtp_daemon_calls, Post
<1>4. CASE DtpController
  BY <1>1, <1>4 DEF DtpController, Serve
<1>5. ASSUME NEW c \in Clients, dtp_proc_open(c) PROVE FALSE
  BY <1>1, <1>5 DEF dtp_proc_open, portalVars
<1>6. CASE \/ insmod \/ dtp_init_returns \/ Unwind \/ dtp_exit \/ reboot
           \/ dtp_daemon_sleeps \/ dtp_daemon_wakes
           \/ \E c \in Clients : \/ dtp_fs_open(c) \/ dtp_fs_mmap(c) \/ dtp_fs_release(c)
                                 \/ dtp_seq_proc_show(c)
  BY <1>1, <1>6 DEF insmod, dtp_init_returns, Unwind, dtp_exit, reboot, dtp_daemon_sleeps,
       dtp_daemon_wakes, dtp_fs_open, dtp_fs_mmap, dtp_fs_release, dtp_seq_proc_show, portalVars
<1>7. CASE UNCHANGED vars
  BY <1>1, <1>7 DEF vars, portalVars
<1> QED  BY <1>2, <1>3, <1>4, <1>5, <1>6, <1>7 DEF Next

\* What a call that reads its last word returns.
LEMMA LastWord ==
    ASSUME PortalInv, BelongInv, BelongInv', [Next]_vars, NEW m \in Readers, call.m = m,
           call' = NoCall
    PROVE  IF m = "message"
           THEN call.k > 0 => out[m] # <<>> /\ ReturnValue = Head(out[m]).vals
           ELSE m \notin late' =>
                  /\ out[m] # <<>>
                  /\ ReturnValue = Head(out[m]).vals
                  /\ m \notin {"version", "global", "cnt"} => Head(out[m]).p = call.p
                  /\ m \notin dtp_check_portal'
<1>1. NoMessage \/ ReadWord
  BY NoCallReads, CallEnds
<1>2. SUFFICES ASSUME ReadWord, m \notin late'
      PROVE  /\ out[m] # <<>>
             /\ ReturnValue = Head(out[m]).vals
             /\ m # "message" => Head(out[m]).p = call.p /\ m \notin dtp_check_portal'
  BY <1>1 DEF NoMessage, BelongInv
<1>3. m \notin late /\ fifo[m] # <<>>
  BY <1>2 DEF ReadWord
<1>4. call.k + 1 = Size(m)
  <2>1. call \in Call /\ call.reads = Reads[call.m]
    BY <1>2, <1>3 DEF ReadWord, PortalInv, AnswerInv
  <2>2. ~(call.k + 1 = Len(Reads[call.m])) => call' = [call EXCEPT !.k = @ + 1]
    BY <1>2, <2>1 DEF ReadWord
  <2>3. [call EXCEPT !.k = @ + 1].m = m
    BY <2>1 DEF Call
  <2> QED  BY <2>2, <2>3, NoCallReads DEF Size
<1>5. /\ out[m] # <<>> /\ out[m] \in Seq(Answer(m)) /\ ReturnValue = out[m][1].vals
      /\ Len(out[m]) = 1 => Tail(fifo[m]) = <<>>
  BY <1>2, <1>3, <1>4, WordInTime
<1>6. Head(out[m]) = out[m][1]
  BY <1>5
<1>7. ASSUME m # "message" PROVE Head(out[m]).p = call.p /\ m \notin dtp_check_portal'
  <2>1. Belongs(m)
    BY <1>3 DEF BelongInv
  <2>2. Len(asked[m]) + Len(out[m]) = 1 /\ out[m][1].p = call.p
    BY <1>5, <1>7, <2>1 DEF Belongs, Single
  <2>3. Len(out[m]) = 1
    <3>1. m \in Methods
      BY MethodNames
    <3>2. asked[m] \in Seq([p: Word, v: Nat])
      BY <3>1 DEF PortalInv, RequestInv
    <3>3. Len(asked[m]) \in Nat /\ Len(out[m]) \in Nat /\ Len(out[m]) # 0
      BY <1>5, <3>2, EmptySeq
    <3>4. \A a, b \in Nat : a + b = 1 /\ b # 0 => b = 1
      OBVIOUS
    <3> QED  BY <2>2, <3>3, <3>4
  <2>4. fifo'[m] = <<>>
    <3>1. fifo' = [fifo EXCEPT ![m] = Tail(@)]
      BY <1>2, <1>3 DEF ReadWord
    <3> QED  BY <1>5, <2>3, <3>1 DEF PortalInv, AnswerInv
  <2> QED  BY <1>6, <2>2, <2>4 DEF dtp_check_portal, dtp_check_indication_queue
<1> QED  BY <1>5, <1>6, <1>7

-----------------------------------------------------------------------------
(* The inductive invariant of the module.                                  *)

\* dtp_init has acquired what it called for before, but for the two calls whose
\* failure it does not see; the error path and dtp_exit hold at most what they
\* have still to release, and only an error path that began with a failed
\* board or /proc entry returns 0.
Acquired(k) == {InitCalls[j] : j \in 1 .. k - 1} \ {"board"}

Remaining(path) == {path[j] : j \in at .. Len(path)}

Complete ==
    /\ failed \subseteq {"device", "thread"}
    /\ held = Acquired(Len(InitCalls) + 1) \ failed

Abandoned == failed \cap {"board", "proc"} # {}

InitPhase ==
    /\ at \in 1 .. Len(InitCalls) + 1
    /\ status = 0
    /\ failed \subseteq {"device", "thread"} \cap {InitCalls[j] : j \in 1 .. at - 1}
    /\ held = Acquired(at) \ failed

UnwindPhase ==
    /\ at \in DOMAIN ErrorPath
    /\ held \subseteq Remaining(ErrorPath) \ {"page", "thread"}
    /\ status = 0 => Abandoned

ExitPhase ==
    /\ at \in 1 .. Len(ExitCalls) + 1
    /\ held \subseteq Remaining(ExitCalls)

LoaderInv ==
    /\ older \in BOOLEAN
    /\ mod \in {"out", "init", "unwind", "live", "exit", "crashed"}
    /\ at \in 0 .. 10
    /\ status \in {0, -1}
    /\ failed \subseteq Resources \cup {"board"}
    /\ held \subseteq {InitCalls[j] : j \in DOMAIN InitCalls} \ {"board"}
    /\ mod = "out" => held = {} /\ failed = {} /\ status = 0
    /\ mod = "init" => InitPhase
    /\ mod = "unwind" => UnwindPhase
    /\ mod = "live" => Complete \/ (Abandoned /\ held = {})
    /\ mod = "exit" => ExitPhase
    /\ mod = "crashed" => "thread" \notin held

\* The thread cannot be without the page, nor /proc/dtp without *dtp; and
\* nobody maps the page once dtp_exit has begun.
UserInv ==
    /\ used \subseteq Methods /\ mode \in BOOLEAN /\ asleep \in BOOLEAN
    /\ left \in 0 .. RoundCalls
    /\ file \subseteq Clients /\ reading \subseteq Clients
    /\ map \in [Clients -> {"none", "page", "null"}]
    /\ "thread" \in held => "page" \in held /\ ("dtp" \in held \/ older)
    /\ "proc" \in held => "dtp" \in held
    /\ reading # {} => "proc" \in held
    /\ \A c \in Clients : map[c] = "page" => "page" \in held
    /\ mod = "exit" => Unused

ModuleInv == LoaderInv /\ UserInv

IInv == PortalInv /\ ModuleInv

-----------------------------------------------------------------------------
(* The tables of calls and of error labels.                                *)

Calls == {InitCalls[j] : j \in DOMAIN InitCalls}

\* dtp_init makes no call twice, makes the thread when it has the page and *dtp,
\* and the entry in /proc when it has *dtp.
LEMMA InitTable ==
    ASSUME older \in BOOLEAN
    PROVE  /\ Len(InitCalls) \in 1 .. 9 /\ DOMAIN InitCalls = 1 .. Len(InitCalls)
           /\ Calls \subseteq Resources \cup {"board"}
           /\ \A i, j \in DOMAIN InitCalls : InitCalls[i] = InitCalls[j] => i = j
           /\ \A i \in DOMAIN InitCalls :
                 /\ InitCalls[i] = "thread" => /\ \E j \in 1 .. i - 1 : InitCalls[j] = "page"
                                               /\ older \/ \E j \in 1 .. i - 1 : InitCalls[j] = "dtp"
                 /\ InitCalls[i] = "proc" => \E j \in 1 .. i - 1 : InitCalls[j] = "dtp"
<1>1. CASE older
  <2>1. InitCalls = <<"board", "class", "region", "cdev", "device", "page", "thread">>
    BY <1>1 DEF InitCalls, OlderInitCalls
  <2> QED  BY <2>1, <1>1 DEF Calls, Resources
<1>2. CASE ~older
  <2>1. InitCalls = <<"dtp", "board", "proc", "class", "region", "cdev", "device", "page", "thread">>
    BY <1>2 DEF InitCalls
  <2> QED  BY <2>1, <1>2 DEF Calls, Resources
<1> QED  BY <1>1, <1>2

\* The error path ends with the return, and frees *dtp after the entry in /proc.
LEMMA ErrorTable ==
    ASSUME older \in BOOLEAN
    PROVE  /\ Len(ErrorPath) \in 1 .. 8 /\ DOMAIN ErrorPath = 1 .. Len(ErrorPath)
           /\ \A i \in DOMAIN ErrorPath : ErrorPath[i] = "return" <=> i = Len(ErrorPath)
           /\ \A i, j \in DOMAIN ErrorPath :
                 ErrorPath[i] = "dtp" /\ j > i => ErrorPath[j] # "proc"
<1>1. CASE older
  <2>1. ErrorPath = <<"page", "device", "cdev", "region", "class", "return">>
    BY <1>1 DEF ErrorPath, OlderErrorPath
  <2> QED  BY <2>1
<1>2. CASE ~older
  <2>1. ErrorPath = <<"page", "device", "cdev", "region", "class", "proc", "dtp", "return">>
    BY <1>2 DEF ErrorPath
  <2> QED  BY <2>1
<1> QED  BY <1>1, <1>2

\* dtp_exit stops the thread first, releases all that dtp_init acquires, and
\* frees *dtp after the entry in /proc.
LEMMA ExitTable ==
    ASSUME older \in BOOLEAN
    PROVE  /\ Len(ExitCalls) \in 1 .. 8 /\ DOMAIN ExitCalls = 1 .. Len(ExitCalls)
           /\ Calls \ {"board"} \subseteq {ExitCalls[j] : j \in 1 .. Len(ExitCalls)}
           /\ \A i \in DOMAIN ExitCalls : ExitCalls[i] = "thread" <=> i = 1
           /\ \A i, j \in DOMAIN ExitCalls :
                 ExitCalls[i] = "dtp" /\ j > i => ExitCalls[j] # "proc"
<1>1. CASE older
  <2>1. ExitCalls = <<"thread", "page", "device", "cdev", "region", "class">>
    BY <1>1 DEF ExitCalls, OlderExitCalls
  <2>2. InitCalls = <<"board", "class", "region", "cdev", "device", "page", "thread">>
    BY <1>1 DEF InitCalls, OlderInitCalls
  <2>3. Calls = {"board", "class", "region", "cdev", "device", "page", "thread"}
    BY <2>2 DEF Calls
  <2>4. {ExitCalls[j] : j \in 1 .. Len(ExitCalls)}
          = {"thread", "page", "device", "cdev", "region", "class"}
    BY <2>1
  <2> QED  BY <2>1, <2>3, <2>4
<1>2. CASE ~older
  <2>1. ExitCalls = <<"thread", "page", "device", "cdev", "region", "class", "proc", "dtp">>
    BY <1>2 DEF ExitCalls
  <2>2. InitCalls = <<"dtp", "board", "proc", "class", "region", "cdev", "device", "page", "thread">>
    BY <1>2 DEF InitCalls
  <2>3. Calls = {"dtp", "board", "proc", "class", "region", "cdev", "device", "page", "thread"}
    BY <2>2 DEF Calls
  <2>4. {ExitCalls[j] : j \in 1 .. Len(ExitCalls)}
          = {"thread", "page", "device", "cdev", "region", "class", "proc", "dtp"}
    BY <2>1
  <2> QED  BY <2>1, <2>3, <2>4
<1> QED  BY <1>1, <1>2

Jump(r) == CHOOSE k \in DOMAIN ErrorPath : ErrorPath[k] = (IF older THEN OlderLabel ELSE Label)[r]

\* Each label releases all that has been acquired when its call fails.
LEMMA LabelTable ==
    ASSUME older \in BOOLEAN, NEW i \in DOMAIN InitCalls, Seen(InitCalls[i])
    PROVE  /\ Jump(InitCalls[i]) \in DOMAIN ErrorPath
           /\ Acquired(i) \subseteq {ErrorPath[j] : j \in Jump(InitCalls[i]) .. Len(ErrorPath)}
           /\ "page" \notin Acquired(i) /\ "thread" \notin Acquired(i)
<1> DEFINE k == Jump(InitCalls[i])
<1>1. CASE older
  <2>1. ErrorPath = <<"page", "device", "cdev", "region", "class", "return">>
    BY <1>1 DEF ErrorPath, OlderErrorPath
  <2>2. InitCalls = <<"board", "class", "region", "cdev", "device", "page", "thread">>
    BY <1>1 DEF InitCalls, OlderInitCalls
  <2>3. i \in {1, 2, 3, 4, 6}
    BY <2>2 DEF Seen
  <2>4. k \in DOMAIN ErrorPath /\ ErrorPath[k] = OlderLabel[InitCalls[i]]
    BY <1>1, <2>1, <2>2, <2>3 DEF Jump, OlderLabel
  <2>5. k = IF i = 1 THEN 6 ELSE IF i = 2 THEN 6 ELSE IF i = 3 THEN 5 ELSE IF i = 4 THEN 4 ELSE 2
    BY <2>1, <2>2, <2>3, <2>4 DEF OlderLabel
  <2> HIDE DEF k
  <2>6. ASSUME NEW x \in Acquired(i)
        PROVE  x \notin {"page", "thread"} /\ \E n \in k .. Len(ErrorPath) : ErrorPath[n] = x
    <3>1. PICK j \in 1 .. i - 1 : x = InitCalls[j] /\ x # "board"
      BY DEF Acquired
    <3>2. j \in 2 .. 5
      BY <2>2, <2>3, <3>1
    <3>3. x \notin {"page", "thread"}
      BY <2>2, <3>1, <3>2
    <3> DEFINE n == 7 - j
    <3>4. n \in k .. Len(ErrorPath) /\ ErrorPath[n] = x
      BY <2>1, <2>2, <2>3, <2>5, <3>1, <3>2
    <3> QED  BY <3>3, <3>4
  <2> QED  BY <2>4, <2>6 DEF k
<1>2. CASE ~older
  <2>1. ErrorPath = <<"page", "device", "cdev", "region", "class", "proc", "dtp", "return">>
    BY <1>2 DEF ErrorPath
  <2>2. InitCalls = <<"dtp", "board", "proc", "class", "region", "cdev", "device", "page", "thread">>
    BY <1>2 DEF InitCalls
  <2>3. i \in {1, 2, 3, 4, 5, 6, 8}
    BY <2>2 DEF Seen
  <2>4. k \in DOMAIN ErrorPath /\ ErrorPath[k] = Label[InitCalls[i]]
    BY <1>2, <2>1, <2>2, <2>3 DEF Jump, Label
  <2>5. k = IF i = 1 THEN 8 ELSE IF i \in {2, 3} THEN 7 ELSE IF i = 4 THEN 6
            ELSE IF i = 5 THEN 5 ELSE IF i = 6 THEN 4 ELSE 2
    BY <2>1, <2>2, <2>3, <2>4 DEF Label
  <2> HIDE DEF k
  <2>6. ASSUME NEW x \in Acquired(i)
        PROVE  x \notin {"page", "thread"} /\ \E n \in k .. Len(ErrorPath) : ErrorPath[n] = x
    <3>1. PICK j \in 1 .. i - 1 : x = InitCalls[j] /\ x # "board"
      BY DEF Acquired
    <3>2. j \in {1, 3, 4, 5, 6, 7}
      BY <2>2, <2>3, <3>1
    <3>3. x \notin {"page", "thread"}
      BY <2>2, <3>1, <3>2
    <3> DEFINE n == IF j = 1 THEN 7 ELSE 9 - j
    <3>4. n \in k .. Len(ErrorPath) /\ ErrorPath[n] = x
      BY <2>1, <2>2, <2>3, <2>5, <3>1, <3>2
    <3> QED  BY <3>3, <3>4
  <2> QED  BY <2>4, <2>6 DEF k
<1> QED  BY <1>1, <1>2

-----------------------------------------------------------------------------
(* dtp_init, its error path and dtp_exit keep the invariant of the module. *)

\* The calls of a module that stays the same do.
LEMMA SameTables ==
    ASSUME older' = older
    PROVE  /\ InitCalls' = InitCalls /\ ErrorPath' = ErrorPath /\ ExitCalls' = ExitCalls
           /\ Calls' = Calls
BY DEF InitCalls, ErrorPath, ExitCalls, Calls

\* A call of dtp_init is made, seen to fail, or fails unseen.
LEMMA InitStep ==
    ASSUME ModuleInv, dtp_init
    PROVE  ModuleInv'
<1> DEFINE r == InitCalls[at]
           done == {InitCalls[j] : j \in 1 .. at - 1}
<1>1. /\ older \in BOOLEAN /\ mod = "init" /\ at \in 1 .. Len(InitCalls) /\ at \in 0 .. 10
      /\ status = 0 /\ held = Acquired(at) \ failed
      /\ failed \subseteq {"device", "thread"} \cap {InitCalls[j] : j \in 1 .. at - 1}
      /\ held \subseteq Calls \ {"board"}
  BY DEF ModuleInv, LoaderInv, InitPhase, dtp_init, Calls
<1>2. /\ at \in DOMAIN InitCalls /\ Len(InitCalls) \in 1 .. 9
      /\ r \in Calls /\ r \in Resources \cup {"board"}
  BY <1>1, InitTable DEF Calls
<1>3. /\ UNCHANGED <<older, used, mode, asleep, left, file, map, reading>>
      /\ InitCalls' = InitCalls /\ ErrorPath' = ErrorPath /\ Calls' = Calls
  BY SameTables DEF dtp_init, thread, users
<1>4. r \notin done
  BY <1>1, <1>2, InitTable
<1>5. {InitCalls[j] : j \in 1 .. at} = done \cup {r}
  BY <1>1, <1>2
<1>6. InitPhase' <=> /\ at' \in 1 .. Len(InitCalls) + 1
                     /\ status' = 0
                     /\ failed' \subseteq {"device", "thread"} \cap {InitCalls[j] : j \in 1 .. at' - 1}
                     /\ held' = ({InitCalls[j] : j \in 1 .. at' - 1} \ {"board"}) \ failed'
  BY <1>3 DEF InitPhase, Acquired
<1> HIDE DEF r, done
<1>7. CASE held' = held \cup ({r} \ {"board"}) /\ at' = at + 1 /\ UNCHANGED <<mod, status, failed>>
  <2>1. InitPhase'
    <3>1. held' = ((done \cup {r}) \ {"board"}) \ failed
      BY <1>1, <1>4, <1>7 DEF Acquired, done
    <3>2. failed \subseteq done
      BY <1>1 DEF done
    <3>3. at' - 1 = at /\ at' \in 1 .. Len(InitCalls) + 1
      BY <1>1, <1>2, <1>7
    <3>4. {InitCalls[j] : j \in 1 .. at' - 1} = done \cup {r}
      BY <1>5, <3>3
    <3> QED  BY <1>1, <1>7, <1>6, <3>1, <3>2, <3>3, <3>4
  <2>2. held' \subseteq Calls \ {"board"}
    BY <1>1, <1>2, <1>7
  <2>3. LoaderInv'
    BY <1>1, <1>2, <1>3, <1>7, <2>1, <2>2 DEF ModuleInv, LoaderInv, Calls
  <2>4. /\ r = "thread" => "page" \in held /\ ("dtp" \in held \/ older)
        /\ r = "proc" => "dtp" \in held
    <3>1. /\ (\E j \in 1 .. at - 1 : InitCalls[j] = "page") => "page" \in held
          /\ (\E j \in 1 .. at - 1 : InitCalls[j] = "dtp") => "dtp" \in held
      BY <1>1 DEF Acquired
    <3>2. /\ r = "thread" => /\ \E j \in 1 .. at - 1 : InitCalls[j] = "page"
                             /\ older \/ \E j \in 1 .. at - 1 : InitCalls[j] = "dtp"
          /\ r = "proc" => \E j \in 1 .. at - 1 : InitCalls[j] = "dtp"
      BY <1>1, <1>2, InitTable DEF r
    <3> QED  BY <1>1, <3>1, <3>2
  <2>5. UserInv'
    BY <1>1, <1>3, <1>7, <2>4 DEF ModuleInv, UserInv
  <2> QED  BY <2>3, <2>5 DEF ModuleInv
<1>8. CASE /\ failed' = failed \cup {r} /\ Seen(r) /\ mod' = "unwind" /\ at' = Jump(r)
           /\ status' = Returned(r) /\ held' = held
  <2>1. /\ at' \in DOMAIN ErrorPath
        /\ held \subseteq {ErrorPath[j] : j \in at' .. Len(ErrorPath)} \ {"page", "thread"}
    BY <1>1, <1>2, <1>8, LabelTable DEF r
  <2>2. status' \in {0, -1} /\ (status' = 0 => r \in {"board", "proc"})
    BY <1>8 DEF Returned
  <2>3. UnwindPhase'
    BY <1>3, <1>8, <2>1, <2>2 DEF UnwindPhase, Remaining, Abandoned
  <2>4. at' \in 0 .. 10
    BY <1>1, <2>1, ErrorTable
  <2>5. LoaderInv'
    BY <1>1, <1>2, <1>3, <1>8, <2>2, <2>3, <2>4 DEF ModuleInv, LoaderInv, Calls
  <2>6. UserInv'
    BY <1>3, <1>8 DEF ModuleInv, UserInv
  <2> QED  BY <2>5, <2>6 DEF ModuleInv
<1>9. CASE failed' = failed \cup {r} /\ ~Seen(r) /\ at' = at + 1 /\ UNCHANGED <<mod, status, held>>
  <2>1. r \in {"device", "thread"}
    BY <1>9 DEF Seen
  <2>2. InitPhase'
    <3>1. held' = ((done \cup {r}) \ {"board"}) \ failed'
      BY <1>1, <1>4, <1>9 DEF Acquired, done
    <3>2. failed' \subseteq {"device", "thread"} \cap (done \cup {r})
      BY <1>1, <1>9, <2>1 DEF done
    <3>3. at' - 1 = at /\ at' \in 1 .. Len(InitCalls) + 1
      BY <1>1, <1>2, <1>9
    <3>4. {InitCalls[j] : j \in 1 .. at' - 1} = done \cup {r}
      BY <1>5, <3>3
    <3> QED  BY <1>1, <1>9, <1>6, <3>1, <3>2, <3>3, <3>4
  <2>3. LoaderInv'
    BY <1>1, <1>2, <1>3, <1>9, <2>2 DEF ModuleInv, LoaderInv, Calls
  <2>4. UserInv'
    BY <1>3, <1>9 DEF ModuleInv, UserInv, Unused
  <2> QED  BY <2>3, <2>4 DEF ModuleInv
<1> QED  BY <1>7, <1>8, <1>9 DEF dtp_init, Jump, r

\* The error path releases one thing more, or returns with nothing left.
LEMMA UnwindStep ==
    ASSUME ModuleInv, Unwind
    PROVE  ModuleInv'
<1>1. /\ older \in BOOLEAN /\ mod = "unwind" /\ at \in DOMAIN ErrorPath
      /\ held \subseteq {ErrorPath[j] : j \in at .. Len(ErrorPath)} \ {"page", "thread"}
      /\ status = 0 => Abandoned
      /\ held \subseteq Calls \ {"board"}
  BY DEF ModuleInv, LoaderInv, UnwindPhase, Unwind, Remaining, Calls
<1>2. /\ UNCHANGED <<older, used, mode, asleep, left, file, map, reading>>
      /\ InitCalls' = InitCalls /\ ErrorPath' = ErrorPath /\ Calls' = Calls
  BY SameTables DEF Unwind, thread, users
<1>3. Len(ErrorPath) \in 1 .. 8 /\ at \in 1 .. Len(ErrorPath)
  BY <1>1, ErrorTable
<1>4. CASE ErrorPath[at] # "return"
  <2>1. /\ Releasable(ErrorPath[at]) /\ held' = held \ {ErrorPath[at]} /\ at' = at + 1
        /\ UNCHANGED <<mod, status, failed>>
    BY <1>4 DEF Unwind
  <2>2. at' \in DOMAIN ErrorPath /\ at' \in 0 .. 10
    BY <1>1, <1>3, <1>4, <2>1, ErrorTable
  <2>3. held' \subseteq {ErrorPath[j] : j \in at' .. Len(ErrorPath)} \ {"page", "thread"}
    BY <1>1, <1>3, <2>1
  <2>4. UnwindPhase'
    BY <1>1, <1>2, <2>1, <2>2, <2>3 DEF UnwindPhase, Remaining, Abandoned
  <2>5. LoaderInv'
    BY <1>1, <1>2, <2>1, <2>2, <2>4 DEF ModuleInv, LoaderInv, Calls
  <2>6. ErrorPath[at] = "dtp" => "proc" \notin held'
    BY <1>1, <1>3, <2>1, <2>2, <2>3, ErrorTable
  <2>7. UserInv'
    BY <1>1, <1>2, <2>1, <2>6 DEF ModuleInv, UserInv, Releasable
  <2> QED  BY <2>5, <2>7 DEF ModuleInv
<1>5. CASE ErrorPath[at] = "return"
  <2>1. held = {} /\ held' = {}
    <3>1. at = Len(ErrorPath)
      BY <1>1, <1>5, ErrorTable
    <3>2. held \subseteq {"return"}
      BY <1>1, <1>3, <1>5, <3>1
    <3>3. "return" \notin Calls
      BY <1>1, InitTable DEF Resources
    <3> QED  BY <1>1, <1>5, <3>2, <3>3 DEF Unwind
  <2>2. CASE status = 0 /\ mod' = "live" /\ UNCHANGED <<at, status, failed>>
    <3>1. LoaderInv'
      BY <1>1, <1>2, <2>1, <2>2 DEF ModuleInv, LoaderInv, Calls, Abandoned
    <3>2. UserInv'
      BY <1>2, <2>1, <2>2 DEF ModuleInv, UserInv
    <3> QED  BY <3>1, <3>2 DEF ModuleInv
  <2>3. CASE Gone
    <3>1. LoaderInv'
      BY <1>1, <1>2, <2>1, <2>3 DEF ModuleInv, LoaderInv, Calls, Gone
    <3>2. UserInv'
      BY <1>2, <2>1, <2>3 DEF ModuleInv, UserInv, Gone
    <3> QED  BY <3>1, <3>2 DEF ModuleInv
  <2> QED  BY <1>5, <2>2, <2>3 DEF Unwind
<1> QED  BY <1>4, <1>5

\* A loaded module may have acquired everything or nothing; dtp_exit releases
\* one thing more, crashes on what is no thread, or is done with nothing left.
LEMMA ExitStep ==
    ASSUME ModuleInv, dtp_exit
    PROVE  ModuleInv'
<1>1. /\ older \in BOOLEAN /\ held \subseteq Calls \ {"board"}
      /\ Len(ExitCalls) \in 1 .. 8
  BY ExitTable DEF ModuleInv, LoaderInv, Calls
<1>2. /\ UNCHANGED <<older, used, mode, asleep, left, file, map, reading>>
      /\ InitCalls' = InitCalls /\ ExitCalls' = ExitCalls /\ Calls' = Calls
  BY SameTables DEF dtp_exit, thread, users
<1>3. CASE rmmod /\ mod' = "exit" /\ at' = 1 /\ UNCHANGED <<held, status, failed>>
  <2>1. held \subseteq {ExitCalls[j] : j \in 1 .. Len(ExitCalls)}
    BY <1>1, ExitTable
  <2>2. ExitPhase'
    BY <1>1, <1>2, <1>3, <2>1 DEF ExitPhase, Remaining
  <2>3. LoaderInv'
    BY <1>1, <1>2, <1>3, <2>2 DEF ModuleInv, LoaderInv, Calls
  <2>4. UserInv'
    BY <1>2, <1>3 DEF ModuleInv, UserInv, rmmod, Unused
  <2> QED  BY <2>3, <2>4 DEF ModuleInv
<1>4. CASE mod = "exit" /\ at <= Len(ExitCalls)
  <2>1. /\ held' = held \ {ExitCalls[at]} /\ at' = at + 1 /\ UNCHANGED <<status, failed>>
        /\ ExitCalls[at] = "thread" => "thread" \notin held
        /\ ExitCalls[at] # "thread" => Releasable(ExitCalls[at])
        /\ mod' = mod \/ (mod' = "crashed" /\ ExitCalls[at] = "thread")
    <3>1. at \in 0 .. 10 /\ ~(at > Len(ExitCalls))
      BY <1>1, <1>4 DEF ModuleInv, LoaderInv
    <3> QED  BY <1>4, <3>1 DEF dtp_exit, rmmod
  <2>2. at \in DOMAIN ExitCalls /\ held \subseteq {ExitCalls[j] : j \in at .. Len(ExitCalls)}
    BY <1>1, <1>4, ExitTable DEF ModuleInv, LoaderInv, ExitPhase, Remaining
  <2>3. /\ at' \in 1 .. Len(ExitCalls) + 1 /\ at' \in 0 .. 10
        /\ held' \subseteq {ExitCalls[j] : j \in at' .. Len(ExitCalls)}
    BY <1>1, <2>1, <2>2, ExitTable
  <2>4. "thread" \notin held'
    <3>1. ASSUME NEW j \in at + 1 .. Len(ExitCalls) PROVE ExitCalls[j] # "thread"
      BY <1>1, <2>2, ExitTable
    <3> QED  BY <2>1, <2>3, <3>1
  <2>5. ExitCalls[at] = "dtp" => "proc" \notin held'
    BY <1>1, <2>1, <2>2, <2>3, ExitTable
  <2>6. ExitPhase'
    BY <1>2, <2>3 DEF ExitPhase, Remaining
  <2>7. LoaderInv'
    BY <1>1, <1>2, <1>4, <2>1, <2>3, <2>4, <2>6 DEF ModuleInv, LoaderInv, Calls
  <2>8. UserInv'
    <3>1. \A c \in Clients : map'[c] # "page"
      BY <1>2, <1>4 DEF ModuleInv, UserInv, Unused
    <3> QED  BY <1>2, <1>4, <2>1, <2>4, <2>5, <3>1 DEF ModuleInv, UserInv, Releasable, Unused
  <2> QED  BY <2>7, <2>8 DEF ModuleInv
<1>5. CASE mod = "exit" /\ at > Len(ExitCalls) /\ Gone /\ UNCHANGED held
  <2>1. held = {}
    <3>1. at \in 1 .. Len(ExitCalls) + 1 /\ held \subseteq {ExitCalls[j] : j \in at .. Len(ExitCalls)}
      BY <1>5 DEF ModuleInv, LoaderInv, ExitPhase, Remaining
    <3> QED  BY <1>1, <1>5, <3>1
  <2>2. LoaderInv'
    BY <1>1, <1>2, <1>5, <2>1 DEF ModuleInv, LoaderInv, Calls, Gone
  <2>3. UserInv'
    BY <1>2, <1>5, <2>1 DEF ModuleInv, UserInv, Gone
  <2> QED  BY <2>2, <2>3 DEF ModuleInv
<1> QED  BY <1>3, <1>4, <1>5 DEF dtp_exit

\* A load begins with nothing held, by either of the two modules.
LEMMA LoadStep ==
    ASSUME ModuleInv, insmod
    PROVE  ModuleInv'
<1>1. /\ held = {} /\ held' = {} /\ failed' = {} /\ status' = 0
      /\ older' \in BOOLEAN /\ mod' = "init" /\ at' = 1 /\ used' = used
      /\ mode' \in BOOLEAN /\ asleep' = FALSE /\ left' \in 0 .. RoundCalls
      /\ UNCHANGED <<file, map, reading>>
  BY ModuleAssumption DEF ModuleInv, LoaderInv, insmod, users
<1>2. Len(InitCalls') \in 1 .. 9
  <2>1. CASE older'
    BY <2>1 DEF InitCalls, OlderInitCalls
  <2>2. CASE ~older'
    BY <2>2 DEF InitCalls
  <2> QED  BY <2>1, <2>2
<1>3. InitPhase'
  BY <1>1, <1>2 DEF InitPhase, Acquired
<1>4. LoaderInv'
  BY <1>1, <1>3 DEF LoaderInv
<1>5. UserInv'
  BY <1>1 DEF ModuleInv, UserInv
<1> QED  BY <1>4, <1>5 DEF ModuleInv

\* The whole module starts over after a crash, and is live once dtp_init returns.
LEMMA OtherLoaderStep ==
    ASSUME ModuleInv, dtp_init_returns \/ reboot
    PROVE  ModuleInv'
<1>1. CASE dtp_init_returns
  <2>1. /\ mod = "init" /\ mod' = "live" /\ at > Len(InitCalls) /\ older \in BOOLEAN
        /\ UNCHANGED <<older, at, held, status, failed, used, mode, asleep, left, file, map, reading>>
        /\ InitCalls' = InitCalls
    BY <1>1, SameTables DEF dtp_init_returns, thread, users, ModuleInv, LoaderInv
  <2>2. at = Len(InitCalls) + 1 /\ InitPhase
    BY <2>1, InitTable DEF ModuleInv, LoaderInv, InitPhase
  <2>3. Complete'
    BY <2>1, <2>2 DEF InitPhase, Complete, Acquired
  <2>4. LoaderInv'
    BY <2>1, <2>3 DEF ModuleInv, LoaderInv
  <2>5. UserInv'
    BY <2>1 DEF ModuleInv, UserInv
  <2> QED  BY <2>4, <2>5 DEF ModuleInv
<1>2. CASE reboot
  <2>1. LoaderInv'
    BY <1>2 DEF ModuleInv, LoaderInv, reboot, Gone
  <2>2. UserInv'
    BY <1>2 DEF ModuleInv, UserInv, reboot, Gone, thread
  <2> QED  BY <2>1, <2>2 DEF ModuleInv
<1> QED  BY <1>1, <1>2

\* The thread, the board and the clients leave the loader alone, but for a
\* thread that ends and a module whose code is gone.
LEMMA RunningStep ==
    ASSUME ModuleInv,
           \/ dtp_daemon_calls \/ dtp_daemon_sleeps \/ dtp_daemon_wakes \/ DtpController
           \/ \E c \in Clients : \/ dtp_fs_open(c) \/ dtp_fs_mmap(c) \/ dtp_fs_release(c)
                                 \/ dtp_proc_open(c) \/ dtp_seq_proc_show(c)
    PROVE  ModuleInv'
<1>1. ASSUME UNCHANGED loader PROVE LoaderInv'
  BY <1>1, SameTables DEF ModuleInv, LoaderInv, loader, InitPhase, UnwindPhase, ExitPhase, Complete,
                          Abandoned, Acquired, Remaining
<1>2. CASE dtp_daemon_calls \/ dtp_daemon_sleeps \/ DtpController
  <2>1. UNCHANGED <<loader, users, used>> /\ mode' \in BOOLEAN /\ asleep' \in BOOLEAN
    BY <1>2 DEF dtp_daemon_calls, dtp_daemon_sleeps, DtpController, thread, ModuleInv, UserInv
  <2>3. left' \in 0 .. RoundCalls
    <3>1. left \in 0 .. RoundCalls /\ RoundCalls \in Nat
      BY ModuleAssumption DEF ModuleInv, UserInv
    <3>2. \/ left > 0 /\ left' = left - 1
          \/ left' \in {left, RoundCalls, 0}
      BY <1>2 DEF dtp_daemon_calls, dtp_daemon_sleeps, DtpController, thread
    <3> QED  BY <3>1, <3>2
  <2>2. UserInv'
    BY <2>1, <2>3 DEF ModuleInv, UserInv, Unused, loader, users
  <2> QED  BY <1>1, <2>1, <2>2 DEF ModuleInv
<1>3. CASE dtp_daemon_wakes
  <2>1. /\ asleep' = FALSE /\ left' = RoundCalls
        /\ left' \in 0 .. RoundCalls
        /\ UNCHANGED <<older, mod, at, status, failed, used, mode, file, map, reading>>
        /\ held' = held \/ (mod = "exit" /\ held' = held \ {"thread"})
    BY <1>3, ModuleAssumption DEF dtp_daemon_wakes, users
  <2>2. CASE held' = held
    <3>1. LoaderInv'
      BY <1>1, <2>1, <2>2 DEF loader
    <3>2. UserInv'
      BY <2>1, <2>2 DEF ModuleInv, UserInv, Unused
    <3> QED  BY <3>1, <3>2 DEF ModuleInv
  <2>3. CASE mod = "exit" /\ held' = held \ {"thread"}
    <3>1. InitCalls' = InitCalls /\ ExitCalls' = ExitCalls
      BY <2>1, SameTables
    <3>2. ExitPhase'
      BY <2>1, <2>3, <3>1 DEF ModuleInv, LoaderInv, ExitPhase, Remaining
    <3>3. LoaderInv'
      BY <2>1, <2>3, <3>1, <3>2 DEF ModuleInv, LoaderInv
    <3>4. UserInv'
      BY <2>1, <2>3 DEF ModuleInv, UserInv, Unused
    <3> QED  BY <3>3, <3>4 DEF ModuleInv
  <2> QED  BY <2>1, <2>2, <2>3
<1>4. ASSUME NEW c \in Clients,
             dtp_fs_open(c) \/ dtp_fs_mmap(c) \/ dtp_proc_open(c) \/ dtp_seq_proc_show(c)
      PROVE  ModuleInv'
  <2>1. UNCHANGED <<loader, thread>>
    BY <1>4 DEF dtp_fs_open, dtp_fs_mmap, dtp_proc_open, dtp_seq_proc_show
  <2>2. /\ file' \subseteq Clients /\ reading' \subseteq Clients
        /\ map' \in [Clients -> {"none", "page", "null"}]
    BY <1>4 DEF dtp_fs_open, dtp_fs_mmap, dtp_proc_open, dtp_seq_proc_show, ModuleInv, UserInv
  <2>3. /\ reading' # {} => "proc" \in held
        /\ \A d \in Clients : map'[d] = "page" => "page" \in held
        /\ mod = "exit" => Unused'
    <3>1. CASE dtp_fs_open(c)
      BY <3>1 DEF dtp_fs_open, ModuleInv, UserInv
    <3>2. CASE dtp_fs_mmap(c)
      BY <3>2 DEF dtp_fs_mmap, ModuleInv, UserInv
    <3>3. CASE dtp_proc_open(c)
      BY <3>3 DEF dtp_proc_open, ModuleInv, UserInv, Unused
    <3>4. CASE dtp_seq_proc_show(c)
      BY <3>4 DEF dtp_seq_proc_show, ModuleInv, UserInv, Unused
    <3> QED  BY <1>4, <3>1, <3>2, <3>3, <3>4
  <2>4. UserInv'
    BY <2>1, <2>2, <2>3 DEF ModuleInv, UserInv, loader, thread
  <2> QED  BY <1>1, <2>1, <2>4 DEF ModuleInv
<1>5. ASSUME NEW c \in Clients, dtp_fs_release(c) PROVE ModuleInv'
  <2>1. UNCHANGED <<older, at, held, status, failed, used, mode, asleep, left, reading>>
    BY <1>5 DEF dtp_fs_release, thread
  <2>2. /\ file' \subseteq file /\ map' \in [Clients -> {"none", "page", "null"}]
        /\ \A d \in Clients : map'[d] = map[d] \/ map'[d] = "none"
    BY <1>5 DEF dtp_fs_release, ModuleInv, UserInv
  <2>3. CASE mod' = mod
    <3>1. LoaderInv'
      BY <1>1, <2>1, <2>3 DEF loader
    <3>2. mod = "exit" => Unused'
      BY <2>2 DEF ModuleInv, UserInv, Unused
    <3>3. UserInv'
      BY <2>1, <2>2, <2>3, <3>2 DEF ModuleInv, UserInv
    <3> QED  BY <3>1, <3>3 DEF ModuleInv
  <2>4. CASE mod = "out" /\ mod' = "crashed"
    <3>1. LoaderInv'
      BY <2>1, <2>4, SameTables DEF ModuleInv, LoaderInv
    <3>2. UserInv'
      BY <2>1, <2>2, <2>4 DEF ModuleInv, UserInv
    <3> QED  BY <3>1, <3>2 DEF ModuleInv
  <2> QED  BY <1>5, <2>3, <2>4 DEF dtp_fs_release
<1> QED  BY <1>2, <1>3, <1>4, <1>5

-----------------------------------------------------------------------------
(* The theorems.                                                           *)

\* A module that is not loaded yet, with empty FIFOs.
LEMMA Starts == Init => IInv
<1> SUFFICES ASSUME Init PROVE IInv
  OBVIOUS
<1>1. PortalInv
  BY PortalStarts DEF Init
<1>2. used \subseteq Methods /\ left \in 0 .. RoundCalls
  BY ModuleAssumption DEF Init
<1>3. LoaderInv
  BY DEF Init, LoaderInv
<1>4. UserInv
  BY <1>2 DEF Init, UserInv
<1> QED  BY <1>1, <1>3, <1>4 DEF IInv, ModuleInv

LEMMA Invariance == Spec => []IInv
<1>1. Init => IInv
  BY Starts
<1>2. IInv /\ [Next]_vars => IInv'
  <2> SUFFICES ASSUME IInv, [Next]_vars PROVE IInv'
    OBVIOUS
  <2>1. PortalInv'
    BY PortalKept DEF IInv
  <2>2. ASSUME UNCHANGED vars PROVE ModuleInv'
    <3>1. UNCHANGED <<loader, thread, users>>
      BY <2>2 DEF vars
    <3>2. LoaderInv'
      BY <3>1, SameTables DEF IInv, ModuleInv, LoaderInv, loader, InitPhase, UnwindPhase, ExitPhase,
                              Complete, Abandoned, Acquired, Remaining
    <3>3. UserInv'
      BY <3>1 DEF IInv, ModuleInv, UserInv, Unused, loader, thread, users
    <3> QED  BY <3>2, <3>3 DEF ModuleInv
  <2>3. ModuleInv'
    BY <2>2, InitStep, UnwindStep, ExitStep, LoadStep, OtherLoaderStep, RunningStep DEF IInv, Next
  <2> QED  BY <2>1, <2>3 DEF IInv
<1> QED  BY <1>1, <1>2, PTL DEF Spec

\* Whichever call of dtp_init fails, and after any dtp_exit, nothing is held once
\* the module is out, and a module that is live has all that it needs unless one
\* of the failures happened that dtp_init does not report: for any clients,
\* whatever they and the thread do meanwhile.
THEOREM Loading == Spec => []AllOrNothing
<1>1. IInv => AllOrNothing
  <2> SUFFICES ASSUME IInv, mod = "live", failed \cap {"board", "proc", "device", "thread"} = {}
               PROVE  {InitCalls[k] : k \in DOMAIN InitCalls} \subseteq held \cup {"board"}
    BY DEF IInv, ModuleInv, LoaderInv, AllOrNothing
  <2>1. Complete /\ older \in BOOLEAN
    BY DEF IInv, ModuleInv, LoaderInv, Abandoned
  <2>2. failed = {}
    BY <2>1 DEF Complete
  <2>3. held = {InitCalls[j] : j \in 1 .. Len(InitCalls) + 1 - 1} \ {"board"}
    BY <2>1, <2>2 DEF Complete, Acquired
  <2>4. DOMAIN InitCalls = 1 .. Len(InitCalls) + 1 - 1
    BY <2>1, InitTable
  <2> QED  BY <2>3, <2>4
<1> QED  BY <1>1, Invariance, PTL

\* Everything has its type, the thread and the mappings never outlive the page
\* they use, and no handler of /proc/dtp outlives *dtp.
THEOREM Freeing == Spec => []NothingUsedAfterFree
<1>1. IInv => NothingUsedAfterFree
  <2> SUFFICES ASSUME IInv PROVE NothingUsedAfterFree
    OBVIOUS
  <2>1. PortalTypeOK
    BY PortalTypes DEF IInv
  <2>2. held \subseteq Resources
    <3>1. Calls \ {"board"} \subseteq Resources
      BY InitTable DEF IInv, ModuleInv, LoaderInv
    <3> QED  BY <3>1 DEF IInv, ModuleInv, LoaderInv, Calls
  <2>3. TypeOK
    BY <2>1, <2>2 DEF IInv, ModuleInv, LoaderInv, UserInv, TypeOK
  <2> QED  BY <2>3 DEF IInv, ModuleInv, UserInv, NothingUsedAfterFree
<1> QED  BY <1>1, Invariance, PTL

\* The pulse of a reset is the shortest one if its length is meant for a port.
LEMMA PortPulse ==
    ASSUME NEW p \in Ports
    PROVE  ResetPulse(p) = MinReset
<1>1. p \in Nat /\ p < PortNum /\ PortNum <= MinReset /\ MinReset < ResetMod
      /\ PortNum \in Nat /\ MinReset \in Nat /\ ResetMod \in Nat
  BY PortalAssumption DEF Ports
<1>2. p % ResetMod = p
  BY <1>1
<1> QED  BY <1>1, <1>2 DEF ResetPulse

\* The board carries out a request on the port and with the value that the caller
\* meant, whatever is queued before it, for any number of ports and any word size,
\* with the three exceptions: dtp_set_cnt, dtp_read_cnt and dtp_reset, which
\* resets every port for the shortest pulse whatever port it names.
THEOREM Requests == Spec => RequestsArrive
<1> DEFINE Arrives(m, e) ==
             /\ m \notin {"reset", "set_cnt", "cnt"} => Effect(m) = Meant(m, e)
             /\ m \in {"set_cnt", "cnt"} => Effect(m).ports = {}
             /\ m = "reset" => /\ Effect(m) = [ports |-> Ports, value |-> ResetPulse(e.p)]
                               /\ e.p \in Ports => Effect(m).value = MinReset
<1>1. IInv => [\A m \in Methods : asked[m] # <<>> /\ asked'[m] = Tail(asked[m])
                   => LET e == Head(asked[m]) IN
                      /\ m \notin {"reset", "set_cnt", "cnt"} => Effect(m) = Meant(m, e)
                      /\ m \in {"set_cnt", "cnt"} => Effect(m).ports = {}
                      /\ m = "reset" =>
                            /\ Effect(m) = [ports |-> Ports, value |-> ResetPulse(e.p)]
                            /\ e.p \in Ports => Effect(m).value = MinReset]_asked
  <2> SUFFICES ASSUME IInv, NEW m \in Methods, asked[m] # <<>>
               PROVE  Arrives(m, Head(asked[m]))
    OBVIOUS
  <2> DEFINE e == Head(asked[m])
  <2>1. Decode(m) = e /\ e \in Request(m)
    BY Decoded DEF IInv, PortalInv, RequestInv
  <2> HIDE DEF e
  <2>2. CASE m = "reset"
    <3>1. Effect(m) = [ports |-> Ports, value |-> ResetPulse(e.p)]
      BY <2>1, <2>2 DEF Effect
    <3> QED  BY <2>2, <3>1, PortPulse DEF Arrives, e
  <2>3. CASE m \in {"set_cnt", "cnt"}
    BY <2>3 DEF Effect, Arrives
  <2>4. CASE m \in {"version", "global"}
    <3>1. e.v = 0
      BY <2>1, <2>4 DEF Request, Wide
    <3>2. Effect(m) = [ports |-> {}, value |-> 0]
      BY <2>4 DEF Effect
    <3>3. Meant(m, e) = [ports |-> {}, value |-> 0]
      BY <2>4, <3>1 DEF Meant
    <3> QED  BY <2>4, <3>2, <3>3 DEF Arrives, e
  <2>5. CASE m \notin {"reset", "set_cnt", "cnt", "version", "global"}
    <3>1. Effect(m) = [ports |-> {e.p}, value |-> e.v]
      BY <2>1, <2>5 DEF Effect
    <3>2. Meant(m, e) = [ports |-> {e.p}, value |-> e.v]
      BY <2>5 DEF Meant
    <3> QED  BY <2>5, <3>1, <3>2 DEF Arrives, e
  <2> QED  BY <2>2, <2>3, <2>4, <2>5
<1> QED  BY <1>1, Invariance, PTL DEF RequestsArrive

\* A method whose answers were never late returns the answer to the very request
\* that was made, whole, and leaves nothing in its FIFO; messages are whole and in
\* order however late they are: for any number of ports, any word size, any depth
\* of the FIFOs, and whatever happens to the module between the calls.
THEOREM Answers == Spec => AnswersBelong
<1>1. PortalInit => BelongInv
  BY BelongStarts
<1>2. IInv /\ BelongInv /\ [Next]_vars => BelongInv'
  BY BelongKept DEF IInv
<1>3. Spec => []BelongInv
  <2>1. Init => PortalInit
    BY DEF Init
  <2> QED  BY <1>1, <1>2, <2>1, Invariance, PTL DEF Spec
<1>4. IInv /\ BelongInv /\ BelongInv' /\ [Next]_vars =>
        [\A m \in Readers : call.m = m /\ call' = NoCall =>
            IF m = "message"
            THEN call.k > 0 => out[m] # <<>> /\ ReturnValue = Head(out[m]).vals
            ELSE m \notin late' =>
                   /\ out[m] # <<>>
                   /\ ReturnValue = Head(out[m]).vals
                   /\ m \notin {"version", "global", "cnt"} => Head(out[m]).p = call.p
                   /\ m \notin dtp_check_portal']_call
  BY LastWord DEF IInv
<1> QED  BY <1>3, <1>4, Invariance, PTL DEF Spec, AnswersBelong
=============================================================================

------------------------------- MODULE PktGen --------------------------------
(***************************************************************************)
(* The packet generator: the program that loads a trace and starts it      *)
(* (src/dtp/examples/pktgen_forwarding/pktgen.cpp, its elder in            *)
(* examples/pktgen, src/sw/lpcap.c), and the board that replays it         *)
(* (mkPktGen in src/hw/bsv/PktGen.bsv on src/hw/bsv/PacketBuffer.bsv).     *)
(*                                                                         *)
(* The board sends what it reads from the buffer and writes it back, until *)
(* pktCount packets have gone out; then it empties the buffer.  Lengths    *)
(* are requested ahead of the data.  The stages of the buffer are merged:  *)
(* put writes the memory and get reads it.  A packet has two beats or      *)
(* more, as on Ethernet: the buffer does not end a packet of one.          *)
(***************************************************************************)
EXTENDS Integers, Sequences, SequencesExt

CONSTANTS
    WordBytes,    \* bytes of a word (8); a beat of the buffer has two
    FifoLen,      \* lengths that fifoLen holds (16)
    ReadReqs,     \* requests that fifoReadReq holds (4)
    LinkSpeed,    \* LINK_SPEED (10)
    MinimumIPG,   \* 1
    Traces,       \* pcap files: sequences of packet lengths
    Rates,        \* values of --pktgen-rate
    Counts,       \* values of --pktgen-count
    MaxRuns       \* bound: runs of the program

ASSUME PktGenAssumption ==
    /\ {WordBytes, FifoLen, ReadReqs, LinkSpeed, MinimumIPG} \subseteq Nat \ {0}
    /\ MaxRuns \in Nat /\ Counts \subseteq Nat
    /\ \A r \in Rates : r \in 0 .. LinkSpeed
    /\ \A t \in Traces : t # <<>> /\ \A k \in DOMAIN t : t[k] > 2 * WordBytes

VARIABLES
    hpc,        \* the program: options, load, start, sleep or done
    runs,       \* runs so far
    trace,      \* the pcap file
    args,       \* rate and tracelen of parse_options; direct: start(0) instead
    toLoad,     \* beats that load_pcap_file has still to write
    mem,        \* beats in memBuffer
    lens,       \* fifoLen
    reqs,       \* requests in fifoReadReq
    outPacket,  \* in the middle of reading a packet
    traceLen, pktCount, ipgCount, idle, currIPG, started, infiniteLoop,
    sizes,      \* history: lengths of the packets loaded since the last drain
    onWire,     \* history: bytes of the packet that is being sent
    sent,       \* history: packets sent, modulo those loaded
    emitted,    \* history: packets sent of a finite run
    cycles      \* history: cycles since a pass of the trace began, 0 before the first

host   == <<hpc, runs, trace, args, toLoad>>
buffer == <<mem, lens, reqs, outPacket>>
gen    == <<traceLen, pktCount, ipgCount, idle, currIPG, started, infiniteLoop>>
hist   == <<sizes, onWire, sent, emitted, cycles>>
vars   == <<host, buffer, gen, hist>>

-----------------------------------------------------------------------------
(* What the program computes.                                              *)

Total(s) == FoldLeft(LAMBDA a, b : a + b, 0, s)

\* Bytes of word w of a packet: 8 until the last, whose mask shows the rest.
Mask(size, w) ==
    LET rest == size - (w - 1) * WordBytes
    IN IF rest > WordBytes THEN WordBytes ELSE IF rest > 0 THEN rest ELSE 0

\* Mutant: the last word is forgotten.
mem_copy_Truncates(size) ==
    LET numBeats == size \div WordBytes
    IN [k \in 1 .. (numBeats + 1) \div 2 |->
            [bytes |-> Mask(size, 2 * k - 1) + Mask(size, 2 * k),
             sop |-> k = 1, eop |-> k - 1 = (numBeats - 1) \div 2]]

\* The beats of a packet, the last one padded.  numBeats counts words.
mem_copy(size) ==
    LET numBeats == (size + WordBytes - 1) \div WordBytes
    IN [k \in 1 .. (numBeats + 1) \div 2 |->
            [bytes |-> Mask(size, 2 * k - 1) + Mask(size, 2 * k),
             sop |-> k = 1, eop |-> k - 1 = (numBeats - 1) \div 2]]

load_pcap_file(file) == FlattenSeq([k \in DOMAIN file |-> mem_copy(file[k])])

\* Mutant: the idle bytes are those of the link, not of the rate.
compute_idle_OfLink(byte_count, packet_count, rate) ==
    ((LinkSpeed - rate) * byte_count) \div (LinkSpeed * packet_count)

\* Idle bytes after each packet.  The rounding of the comment is not done.
compute_idle(byte_count, packet_count, rate) ==
    ((LinkSpeed - rate) * byte_count) \div (rate * packet_count)

-----------------------------------------------------------------------------

TypeOK ==
    /\ hpc \in {"options", "load", "start", "sleep", "done"}
    /\ runs \in 0 .. MaxRuns
    /\ args \in [rate: Rates, tracelen: Counts, direct: BOOLEAN]
    /\ Len(lens) <= FifoLen /\ reqs \in 0 .. ReadReqs
    /\ outPacket \in BOOLEAN
    /\ {traceLen, pktCount, ipgCount, currIPG} \subseteq Nat
    /\ {idle, started, infiniteLoop} \subseteq BOOLEAN

NoArgs == [rate |-> CHOOSE r \in Rates : TRUE, tracelen |-> CHOOSE n \in Counts : TRUE,
           direct |-> FALSE]

Init ==
    /\ hpc = "done" /\ runs = 0 /\ trace = <<>> /\ args = NoArgs /\ toLoad = <<>>
    /\ mem = <<>> /\ lens = <<>> /\ reqs = 0 /\ outPacket = FALSE
    /\ traceLen = 0 /\ pktCount = 0 /\ ipgCount = 0 /\ idle = FALSE /\ currIPG = 0
    /\ started = FALSE /\ infiniteLoop = FALSE
    /\ sizes = <<>> /\ onWire = 0 /\ sent = 0 /\ emitted = 0 /\ cycles = 0

-----------------------------------------------------------------------------
(* The program.  External: it is run again only when the board is ready,   *)
(* and another program may call start with 0 instead.                      *)

parse_options ==
    /\ hpc = "done" /\ runs < MaxRuns /\ ~started
    /\ runs' = runs + 1
    /\ \E file \in Traces, a \in [rate: Rates, tracelen: Counts, direct: BOOLEAN] :
        /\ a.direct => a.rate # 0
        /\ Len(lens) + Len(file) <= FifoLen
        /\ trace' = file /\ args' = a /\ toLoad' = load_pcap_file(file)
        /\ sizes' = sizes \o file
    /\ hpc' = "load"
    /\ UNCHANGED <<buffer, gen, onWire, sent, emitted, cycles>>

writePacketData ==
    /\ hpc = "load" /\ toLoad # <<>>
    /\ Head(toLoad).eop => Len(lens) < FifoLen
    /\ mem' = Append(mem, Head(toLoad))
    /\ lens' = IF Head(toLoad).eop THEN Append(lens, 1) ELSE lens
    /\ traceLen' = IF Head(toLoad).eop THEN traceLen + 1 ELSE traceLen
    /\ toLoad' = Tail(toLoad)
    /\ hpc' = IF Tail(toLoad) = <<>> THEN "start" ELSE "load"
    /\ UNCHANGED <<runs, trace, args, reqs, outPacket, pktCount, ipgCount, idle, currIPG,
                   started, infiniteLoop, hist>>

\* device->start, unless the rate or the count is 0.
main_start ==
    /\ hpc = "start"
    /\ IF 0 \in {args.rate, args.tracelen} /\ ~args.direct
       THEN hpc' = "done" /\ UNCHANGED <<gen, onWire, sent, emitted, cycles>>
       ELSE /\ pktCount = 0 /\ traceLen # 0
            /\ started' = TRUE
            /\ ipgCount' = compute_idle(Total(trace), Len(trace), args.rate)
            /\ pktCount' = IF args.direct THEN 1 ELSE args.tracelen
            /\ infiniteLoop' = (infiniteLoop \/ args.direct)
            /\ hpc' = "sleep"
            /\ sent' = 0 /\ emitted' = 0 /\ onWire' = 0 /\ cycles' = 0
            /\ UNCHANGED <<traceLen, idle, currIPG>>
    /\ UNCHANGED <<runs, trace, args, toLoad, buffer, sizes>>

\* Mutant: the program ends without stop.
main_stop_Missing ==
    /\ hpc = "sleep"
    /\ hpc' = "done"
    /\ UNCHANGED <<runs, trace, args, toLoad, buffer, gen, hist>>

\* stop, after the sleep.
main_stop ==
    /\ hpc = "sleep"
    /\ infiniteLoop' = FALSE
    /\ hpc' = "done"
    /\ UNCHANGED <<runs, trace, args, toLoad, buffer, traceLen, pktCount, ipgCount, idle,
                   currIPG, started, hist>>

-----------------------------------------------------------------------------
(* The rules of the board.                                                 *)

\* prepare_packet and cleanup: take a length and request the packet.
Request ==
    /\ lens # <<>> /\ reqs < ReadReqs
    /\ lens' = Tail(lens) /\ reqs' = reqs + 1
    /\ UNCHANGED <<mem, outPacket, host, gen, hist>>

prepare_packet == pktCount > 0 /\ ~idle /\ Request

cleanup == pktCount = 0 /\ traceLen > 0 /\ started /\ Request

\* readData.get: the next beat of the packet that is being read or requested.
Readable == outPacket \/ reqs > 0

Read ==
    /\ Readable
    /\ outPacket' = ~Head(mem).eop
    /\ reqs' = IF outPacket THEN reqs ELSE reqs - 1

\* The buffer once a beat has gone out and back in.
Recirculated(d) == Append(Tail(mem), d)

\* Mutant: beats are counted, not packets.
Remaining_Beats(d) == IF ~infiniteLoop THEN pktCount - 1 ELSE pktCount

Remaining(d) == IF d.eop /\ ~infiniteLoop THEN pktCount - 1 ELSE pktCount

enqueue_packet ==
    LET d == Head(mem) IN
    /\ pktCount > 0 /\ ~idle
    /\ Read
    /\ d.eop => Len(lens) < FifoLen
    /\ mem' = Recirculated(d)
    /\ lens' = IF d.eop THEN Append(lens, 1) ELSE lens
    /\ pktCount' = Remaining(d)
    /\ idle' = d.eop
    /\ currIPG' = IF d.eop THEN 0 ELSE currIPG
    /\ onWire' = IF d.eop THEN 0 ELSE onWire + d.bytes
    /\ sent' = IF d.eop THEN (sent + 1) % Len(sizes) ELSE sent
    /\ emitted' = IF d.eop /\ ~args.direct THEN emitted + 1 ELSE emitted
    /\ cycles' = IF sent = 0 /\ onWire = 0 THEN 1 ELSE cycles + 1
    /\ UNCHANGED <<host, traceLen, ipgCount, started, infiniteLoop, sizes>>

\* The rule compute_idle.  It counts 8 bytes a cycle (bytesPerBeat), a word,
\* where enqueue_packet moves a beat of two.
wait_ipg ==
    /\ pktCount > 0 /\ idle
    /\ IF currIPG < ipgCount + MinimumIPG
       THEN currIPG' = currIPG + WordBytes /\ UNCHANGED idle
       ELSE currIPG' = 0 /\ idle' = FALSE
    /\ cycles' = IF cycles = 0 THEN 0 ELSE cycles + 1
    /\ UNCHANGED <<host, buffer, traceLen, pktCount, ipgCount, started, infiniteLoop,
                   sizes, onWire, sent, emitted>>

drainBufferPayload ==
    /\ pktCount = 0 /\ traceLen > 0 /\ started
    /\ Read
    /\ mem' = Tail(mem)
    /\ traceLen' = IF Head(mem).eop THEN traceLen - 1 ELSE traceLen
    /\ UNCHANGED <<host, lens, pktCount, ipgCount, idle, currIPG, started, infiniteLoop, hist>>

\* Mutant: the generator is ready as soon as the packets are out.
Drained_Early == pktCount = 0 /\ started

Drained == pktCount = 0 /\ traceLen = 0 /\ started

drainFinished ==
    /\ Drained
    /\ started' = FALSE
    /\ sizes' = <<>>
    /\ UNCHANGED <<host, buffer, traceLen, pktCount, ipgCount, idle, currIPG, infiniteLoop,
                   onWire, sent, emitted, cycles>>

Rules ==
    \/ prepare_packet
    \/ enqueue_packet
    \/ wait_ipg
    \/ cleanup
    \/ drainBufferPayload
    \/ drainFinished

Next ==
    \/ parse_options
    \/ writePacketData
    \/ main_start
    \/ main_stop
    \/ Rules

\* A rule that can fire does, and the program goes on.
Fairness ==
    /\ WF_vars(prepare_packet) /\ WF_vars(enqueue_packet) /\ WF_vars(wait_ipg)
    /\ WF_vars(cleanup) /\ WF_vars(drainBufferPayload) /\ WF_vars(drainFinished)
    /\ WF_vars(writePacketData) /\ WF_vars(main_start) /\ WF_vars(main_stop)

Spec == Init /\ [][Next]_vars /\ Fairness

-----------------------------------------------------------------------------
(* Properties.                                                             *)

\* What goes out is the loaded trace over and over: each packet in its turn,
\* from its first beat to its last, with exactly its bytes.
Sending == pktCount > 0 /\ mem' # mem /\ started

ReplaysTrace ==
    [][Sending => LET d == Head(mem) IN
        /\ d.sop <=> onWire = 0
        /\ d.eop <=> onWire + d.bytes = sizes[sent + 1]]_<<mem, outPacket>>

\* The packets in the buffer, requested or not, are those that traceLen counts,
\* although lengths are taken ahead of the data and while a packet is on its
\* way out and back; a generator that is ready again has an empty buffer, or
\* what was loaded and never started.
BufferHoldsTrace ==
    /\ TypeOK
    /\ traceLen = Len(lens) + reqs + IF outPacket THEN 1 ELSE 0
    /\ hpc = "done" /\ ~started =>
            /\ Len(mem) = Len(load_pcap_file(sizes))
            /\ traceLen = Len(sizes)

\* How far the rate may be exceeded.  The idle bytes would be right if a packet
\* went out a word a cycle, as on the link, but the generator hands over two
\* words a cycle.  So a pass of the trace takes half the time of its bytes and
\* the idle time of the whole of them: at a rate r out of LinkSpeed it may be
\* 1 / (1 - r / (2 * LinkSpeed)) times as fast as asked, twice at the most, but
\* no faster, although compute_idle rounds down and averages over packets of
\* different lengths.
RateBounded ==
    [][Sending /\ sent = 0 /\ onWire = 0 /\ cycles > 0 /\ sizes = trace
        => (2 * LinkSpeed - args.rate) * Total(trace) <= 2 * args.rate * WordBytes * cycles
      ]_<<mem, outPacket>>

\* A finite run sends exactly the packets asked for before it drains.
ExactlyCount == [][started /\ ~started' /\ ~args.direct => emitted = args.tracelen]_started

\* Every run comes to its end, an endless one by main's stop, and the buffer
\* is drained although lengths were requested ahead.
RunEnds == started ~> ~started
=============================================================================

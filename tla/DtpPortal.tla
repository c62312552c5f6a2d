------------------------------ MODULE DtpPortal -----------------------------
(***************************************************************************)
(* The word-wise interface between the daemon and the board                *)
(* (src/sw/daemon/dtp_portal.c against the interfaces DtpRequest and       *)
(* DtpIndication of src/hw/bsv/DtpController.bsv).                         *)
(*                                                                         *)
(* Each method has a request FIFO, written one 32-bit word at a time, and  *)
(* the methods that answer an indication FIFO, read one word at a time.    *)
(* Nothing but the number of words read keeps a FIFO in step with its      *)
(* answers, the board answers at its own pace, and only dtp_read_message   *)
(* looks whether there is an answer.  A word is a number below WordMod.    *)
(* What a request does on the board is not always what the C function's    *)
(* parameters say: dtp_reset(port) resets every port.                      *)
(***************************************************************************)
EXTENDS Integers, Sequences, FiniteSets, Functions

CONSTANTS
    PortNum,     \* DTP_PORT_NUM (4)
    WordMod,     \* 2^32
    Values,      \* contents of 64-bit registers and messages
    Words,       \* contents of 32-bit registers
    ResetMod,    \* 2^28: a reset pulse is a number of cycles below it
    MinReset,    \* the shortest pulse (32 cycles)
    Depth,       \* words that a FIFO holds
    MaxPending,  \* bound: requests of a method that the board has not seen
    LateMethods  \* methods whose answer may come later than it is read

ASSUME PortalAssumption ==
    /\ {PortNum, WordMod, Depth, MaxPending, ResetMod, MinReset} \subseteq Nat \ {0}
    /\ PortNum <= WordMod /\ PortNum <= MinReset /\ MinReset < ResetMod
    /\ Values \subseteq 0 .. WordMod * WordMod - 1
    /\ Words \subseteq 0 .. WordMod - 1

Ports == 0 .. PortNum - 1

-----------------------------------------------------------------------------
(* How the C side reads an answer: p is the port, which it drops, w a      *)
(* 32-bit value, h and l the two halves of a 64-bit one.                   *)

Port                  == <<"p">>
dtp_read_portal_32bit == <<"w">>
dtp_read_portal_64bit_LowFirst == <<"l", "h">>          \* Mutant
dtp_read_portal_64bit == <<"h", "l">>

dtp_read_version         == dtp_read_portal_32bit
dtp_read_cnt             == dtp_read_portal_64bit
dtp_read_delay           == Port \o dtp_read_portal_32bit
dtp_read_state           == Port \o dtp_read_portal_32bit
dtp_read_error           == Port \o dtp_read_portal_64bit
dtp_read_message         == Port \o dtp_read_portal_64bit \o dtp_read_portal_64bit
                                 \o dtp_read_portal_64bit
dtp_read_local_cnt       == Port \o dtp_read_portal_64bit
dtp_read_global_cnt      == dtp_read_portal_64bit
dtp_read_beacon_interval == Port \o dtp_read_portal_32bit

Reads ==
    [version |-> dtp_read_version, cnt |-> dtp_read_cnt, delay |-> dtp_read_delay,
     state |-> dtp_read_state, error |-> dtp_read_error, message |-> dtp_read_message,
     local |-> dtp_read_local_cnt, global |-> dtp_read_global_cnt,
     interval |-> dtp_read_beacon_interval]

\* The values read so far, after another word.
Take(acc, tag, x) ==
    CASE tag = "p" -> acc
      [] tag = "w" -> Append(acc, x)
      [] tag = "h" -> Append(acc, x * WordMod)
      [] tag = "l" -> IF acc = <<>> THEN <<x>> ELSE [acc EXCEPT ![Len(acc)] = @ + x]

(* How it writes a request.                                                *)

dtp_write_portal_32bit(v) == <<v>>
dtp_write_portal_64bit_LowFirst(v) == <<v % WordMod, v \div WordMod>>     \* Mutant
dtp_write_portal_64bit(v) == <<v \div WordMod, v % WordMod>>

dtp_reset(p)                  == dtp_write_portal_32bit(p)
dtp_set_cnt(p, v)             == dtp_write_portal_32bit(p) \o dtp_write_portal_64bit(v)
dtp_send_message(p, v)        == dtp_write_portal_32bit(p) \o dtp_write_portal_64bit(v)
dtp_set_beacon_interval(p, v) == dtp_write_portal_32bit(p) \o dtp_write_portal_32bit(v)

\* A request of a reading method is the port, 0 where there is none.
Written(m, p, v) ==
    CASE m = "set_cnt"      -> dtp_set_cnt(p, v)
      [] m = "send"         -> dtp_send_message(p, v)
      [] m = "set_interval" -> dtp_set_beacon_interval(p, v)
      [] m = "reset"        -> dtp_reset(p)
      [] OTHER              -> dtp_write_portal_32bit(p)

-----------------------------------------------------------------------------
(* The widths in bits of the methods' arguments on the board.              *)

DtpRequest ==
    [reset |-> <<32>>, set_cnt |-> <<8, 64>>, send |-> <<8, 64>>, set_interval |-> <<8, 32>>,
     version |-> <<>>, cnt |-> <<8>>, delay |-> <<8>>, state |-> <<8>>, error |-> <<8>>,
     message |-> <<8>>, local |-> <<8>>, global |-> <<>>, interval |-> <<8>>]

DtpIndication ==
    [version |-> <<32>>, cnt |-> <<64>>, delay |-> <<8, 32>>, state |-> <<8, 32>>,
     error |-> <<8, 64>>, message |-> <<8, 64, 64, 64>>, local |-> <<8, 64>>,
     global |-> <<64>>, interval |-> <<8, 32>>]

Methods  == DOMAIN DtpRequest
Readers  == DOMAIN DtpIndication
Writers  == Methods \ Readers

\* External: a call of a method without arguments still takes a word, and an
\* argument of 64 bits (no method has two) takes two, its high word first.
RequestWords ==
    [m \in Methods |-> IF DtpRequest[m] = <<>> THEN 1
        ELSE Len(DtpRequest[m]) + (IF 64 \in Range(DtpRequest[m]) THEN 1 ELSE 0)]

Marshal(m, p, vals) ==
    (IF DtpIndication[m][1] = 8 THEN <<p>> ELSE <<>>)
        \o (IF 64 \notin Range(DtpIndication[m]) THEN vals
            ELSE [k \in 1 .. 2 * Len(vals) |->
                    IF k % 2 = 1 THEN vals[(k + 1) \div 2] \div WordMod
                                 ELSE vals[k \div 2] % WordMod])

\* What an answer may carry; the three values of a message are independent.
Contents(m) ==
    IF m = "message" THEN [1 .. 3 -> Values]
    ELSE [1 .. 1 -> IF 64 \in Range(DtpIndication[m]) THEN Values ELSE Words]

VARIABLES
    req,    \* req[m]: words in the request FIFO
    fifo,   \* fifo[m]: words in the indication FIFO
    call,   \* the call that reads an answer, or NoCall
    acc,    \* the values read by the call so far
    asked,  \* history: asked[m], the arguments of the calls behind the words in req[m]
    out,    \* history: out[m], the answers given and not yet taken by a call
    late    \* history: the methods that have read an empty FIFO, or that are
            \* read with more words than their answer has

portalVars == <<req, fifo, call, acc, asked, out, late>>

NoCall == [m |-> "none", p |-> 0, k |-> 0, reads |-> <<>>]

PortalTypeOK ==
    /\ req \in [Methods -> Seq(0 .. WordMod - 1)]
    /\ fifo \in [Readers -> Seq(0 .. WordMod - 1)]
    /\ call \in {NoCall} \cup [m: Readers, p: Ports, k: 0 .. 7, reads: Seq({"p", "w", "h", "l"})]
    /\ acc \in Seq(Nat)
    /\ asked \in [Methods -> Seq([p: 0 .. WordMod - 1, v: Nat])]
    /\ \A m \in Readers : \A j \in DOMAIN out[m] : out[m][j].vals \in Contents(m)
    /\ late \subseteq Readers

PortalInit ==
    /\ req = [m \in Methods |-> <<>>]
    /\ fifo = [m \in Readers |-> <<>>]
    /\ call = NoCall
    /\ acc = <<>>
    /\ asked = [m \in Methods |-> <<>>]
    /\ out = [m \in Readers |-> <<>>]
    /\ late = {}

-----------------------------------------------------------------------------

\* Writes the request; a reading method goes on to its answer, which it reads
\* as reads.
Post(m, p, v, reads) ==
    /\ call = NoCall
    /\ Len(asked[m]) < MaxPending
    /\ req' = [req EXCEPT ![m] = @ \o Written(m, p, v)]
    /\ asked' = [asked EXCEPT ![m] = Append(@, [p |-> p, v |-> v])]
    /\ IF m \in Readers
       THEN /\ call' = [m |-> m, p |-> p, k |-> 0, reads |-> reads]
            /\ late' = IF reads = Reads[m] THEN late ELSE late \cup {m}
       ELSE UNCHANGED <<call, late>>
    /\ UNCHANGED <<fifo, acc, out>>

dtp_check_indication_queue(m) == fifo[m] # <<>>

\* dtp_read_message returns -1 if there is no answer.
NoMessage ==
    /\ call.m = "message" /\ call.k = 0
    /\ ~dtp_check_indication_queue("message")
    /\ call' = NoCall
    /\ UNCHANGED <<req, fifo, acc, asked, out, late>>

\* One read of the bus.  An empty FIFO yields an arbitrary word.
ReadWord ==
    /\ call # NoCall
    /\ LET m == call.m
           last == call.k + 1 = Len(call.reads)
       IN /\ m = "message" /\ call.k = 0 => dtp_check_indication_queue(m)
          /\ fifo[m] # <<>> \/ m \in LateMethods \/ call.reads # Reads[m]
          /\ \E x \in IF fifo[m] # <<>> THEN {Head(fifo[m])} ELSE Words :
                acc' = IF last THEN <<>> ELSE Take(acc, call.reads[call.k + 1], x)
          /\ fifo' = [fifo EXCEPT ![m] = IF @ = <<>> THEN @ ELSE Tail(@)]
          /\ late' = IF fifo[m] = <<>> THEN late \cup {m} ELSE late
          /\ call' = IF last THEN NoCall ELSE [call EXCEPT !.k = @ + 1]
          /\ out' = IF last /\ out[m] # <<>> THEN [out EXCEPT ![m] = Tail(@)] ELSE out
    /\ UNCHANGED <<req, asked>>

\* The two arguments that the board takes from the words of a request, p the
\* first and v the second, or 0.
Decode(m) ==
    LET w == req[m]
    IN CASE RequestWords[m] = 3 -> [p |-> w[1], v |-> w[2] * WordMod + w[3]]
         [] RequestWords[m] = 2 -> [p |-> w[1], v |-> w[2]]
         [] OTHER               -> [p |-> w[1], v |-> 0]

\* dtp_reset takes its argument for the number of cycles that it holds the
\* reset.
ResetPulse(len) == LET limit == len % ResetMod IN IF limit < MinReset THEN MinReset ELSE limit

\* What a method does with its arguments: the ports whose registers and queues
\* it reads, sets or resets, and the value that it sets, sends or counts down.
\* dtp_set_cnt does nothing; dtp_read_cnt reads the board's counter of cycles
\* whatever the port, as dtp_read_global_cnt does its counter.
Effect(m) ==
    CASE m = "reset" -> [ports |-> Ports, value |-> ResetPulse(Decode(m).p)]
      [] m \in {"set_cnt", "cnt", "version", "global"} -> [ports |-> {}, value |-> 0]
      [] OTHER -> [ports |-> {Decode(m).p}, value |-> Decode(m).v]

\* A method of DtpController.  A request for a message may find none.  A reset
\* waits until the pulse before is over, as it may wait for the bus.
Serve(m) ==
    /\ Len(req[m]) >= RequestWords[m]
    /\ req' = [req EXCEPT ![m] = SubSeq(@, RequestWords[m] + 1, Len(@))]
    /\ asked' = [asked EXCEPT ![m] = Tail(@)]
    /\ \/ /\ m \in Readers
          /\ \E vals \in Contents(m) :
                LET words == Marshal(m, Decode(m).p, vals) IN
                /\ Len(fifo[m]) + Len(words) <= Depth
                /\ fifo' = [fifo EXCEPT ![m] = @ \o words]
                /\ out' = [out EXCEPT ![m] = Append(@, [p |-> Decode(m).p, vals |-> vals])]
       \/ m \in Writers \cup {"message"} /\ UNCHANGED <<fifo, out>>
    /\ UNCHANGED <<call, acc, late>>

-----------------------------------------------------------------------------
(* Properties.                                                             *)

\* A call e of method m as dtp_portal.h states it: on one port, with a value.
Meant(m, e) == [ports |-> IF m \in {"version", "global"} THEN {} ELSE {e.p}, value |-> e.v]

\* Whatever requests are queued before it, the board carries out a request on
\* the port and with the value that the caller meant, but for three methods:
\* dtp_set_cnt has no effect, dtp_read_cnt is about no port, and dtp_reset(port)
\* resets every port, for the shortest pulse if the number is that of a port.
RequestsArrive ==
    [][\A m \in Methods : asked[m] # <<>> /\ asked'[m] = Tail(asked[m]) =>
        LET e == Head(asked[m]) IN
        /\ m \notin {"reset", "set_cnt", "cnt"} => Effect(m) = Meant(m, e)
        /\ m \in {"set_cnt", "cnt"} => Effect(m).ports = {}
        /\ m = "reset" => /\ Effect(m) = [ports |-> Ports, value |-> ResetPulse(e.p)]
                          /\ e.p \in Ports => Effect(m).value = MinReset]_asked

\* What a call returns that is reading its last word.
ReturnValue == Take(acc, call.reads[call.k + 1], Head(fifo[call.m]))

\* The methods of which dtp_check_portal would find an answer left over.
dtp_check_portal == {m \in Readers : dtp_check_indication_queue(m)}

\* A method that has always been in step with its answers returns the answer to
\* the very request it made, with its 64-bit halves together and in order, and
\* leaves nothing behind.  dtp_read_message returns the messages of the board whole
\* and in order however late they are: it looks at the FIFO first.
AnswersBelong ==
    [][\A m \in Readers : call.m = m /\ call' = NoCall =>
        IF m = "message"
        THEN call.k > 0 => out[m] # <<>> /\ ReturnValue = Head(out[m]).vals
        ELSE m \notin late' =>
               /\ out[m] # <<>>
               /\ ReturnValue = Head(out[m]).vals
               /\ m \notin {"version", "global", "cnt"} => Head(out[m]).p = call.p
               /\ m \notin dtp_check_portal']_call
=============================================================================

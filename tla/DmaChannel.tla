----------------------------- MODULE DmaChannel ------------------------------
(***************************************************************************)
(* DmaChannel, the library through which programs use the DMA engines      *)
(* (src/dmac/cpp/dmac.cpp and src/sw/dmac.cpp), with the queues of         *)
(* mkDmaController (src/hw/bsv/DmaController.bsv) behind it.               *)
(*                                                                         *)
(* A channel that was made with singleThreadedAccess has no lock.  In any  *)
(* other one each call takes channel_lock, and checkIndications keeps it   *)
(* while it polls and while the callbacks run.  A call is two steps: Enter *)
(* takes the lock, and the function's own action does the rest.  All       *)
(* channels share the two burst size registers, which are BurstLenSize bits*)
(* wide and take the low bits of what they are given.  Buffers are left    *)
(* out.                                                                    *)
(***************************************************************************)
EXTENDS Integers, Sequences, FiniteSets

CONSTANTS
    Channels,
    Shared,      \* channels made with singleThreadedAccess = false
    Blocking,    \* channels of src/sw/dmac.cpp, whose poll has no timeout
    Threads,     \* Threads[c]: the threads that use the channel
    BurstMod     \* 2^BurstLenSize: the burst size registers count modulo this

ASSUME ChannelAssumption ==
    /\ Shared \subseteq Channels /\ Blocking \subseteq Channels
    /\ \A c \in Channels \ Shared : Cardinality(Threads[c]) = 1
    /\ BurstMod \in Nat /\ BurstMod > 256     \* mkReg(256) must fit

Nobody == "nobody"

VARIABLES
    size,    \* size[d]: writeRequestSizeReg ("from") and readRequestSizeReg ("to")
    lock,    \* lock[c]: the holder of channel_lock
    call,    \* call[c][t]: the call that the thread is inside of
    cmds,    \* cmds[c][d]: readCmds and writeCmds: the sizes of the bursts
    ind      \* ind[c]: the indications that wait for a poll

channelVars == <<size, lock, call, cmds, ind>>

Directions == {"to", "from"}

Idle == "none"

ChannelTypeOK ==
    /\ size \in [Directions -> 0 .. BurstMod - 1]
    /\ \A c \in Channels : lock[c] \in Threads[c] \cup {Nobody}
    /\ \A c \in Channels : call[c] \in
            [Threads[c] -> Directions \cup {Idle, "poll", "wsize", "rsize"}]
    /\ cmds \in [Channels -> [Directions -> Seq(0 .. BurstMod - 1)]]
    /\ ind \in [Channels -> Seq(Directions)]

ChannelInit ==
    /\ size = [to |-> 256, from |-> 64]
    /\ lock = [c \in Channels |-> Nobody]
    /\ call = [c \in Channels |-> [t \in Threads[c] |-> Idle]]
    /\ cmds = [c \in Channels |-> [d \in Directions |-> <<>>]]
    /\ ind = [c \in Channels |-> <<>>]

Capped(bytes) == IF bytes > 1024 THEN 1024 ELSE bytes

\* What a register holds of a size: with the 10 bits that Connectal has by
\* default, nothing is left of 1024.
Held(bytes) == Capped(bytes) % BurstMod

-----------------------------------------------------------------------------

\* The constructor sets both sizes, whatever the other channels use.
NewChannel(c) ==
    /\ size' = [to |-> 256, from |-> 128]
    /\ UNCHANGED <<lock, call, cmds, ind>>

\* pthread_mutex_lock, of a channel that has a lock.
Lock(c, t) ==
    IF c \in Shared THEN lock[c] = Nobody /\ lock' = [lock EXCEPT ![c] = t] ELSE lock' = lock

\* Mutant: channel_lock is kept from one poll to the next.
Leave_KeepsPolling(c, t) ==
    IF c \in Shared /\ call[c][t] = "poll" THEN UNCHANGED <<lock, call>>
    ELSE /\ lock' = [lock EXCEPT ![c] = Nobody]
         /\ call' = [call EXCEPT ![c][t] = Idle]

Leave(c, t) ==
    /\ lock' = [lock EXCEPT ![c] = Nobody]
    /\ call' = [call EXCEPT ![c][t] = Idle]

Enter(c, t, op) ==
    /\ call[c][t] = Idle
    /\ Lock(c, t)
    /\ call' = [call EXCEPT ![c][t] = op]
    /\ UNCHANGED <<size, cmds, ind>>

setWriteRequestSize(c, t, bytes) ==
    /\ call[c][t] = "wsize"
    /\ size' = [size EXCEPT !["from"] = Held(bytes)]
    /\ Leave(c, t)
    /\ UNCHANGED <<cmds, ind>>

setReadRequestSize(c, t, bytes) ==
    /\ call[c][t] = "rsize"
    /\ size' = [size EXCEPT !["to"] = Held(bytes)]
    /\ Leave(c, t)
    /\ UNCHANGED <<cmds, ind>>

\* The command queues with another command.
Issued(c, d) == [cmds EXCEPT ![c][d] = Append(@, size[d])]

transferToFpga(c, t) ==
    /\ call[c][t] = "to"
    /\ cmds' = Issued(c, "to")
    /\ Leave(c, t)
    /\ UNCHANGED <<size, ind>>

transferFromFpga(c, t) ==
    /\ call[c][t] = "from"
    /\ cmds' = Issued(c, "from")
    /\ Leave(c, t)
    /\ UNCHANGED <<size, ind>>

\* The poll of src/sw/dmac.cpp waits for an indication, lock held.
PollReturns(c) == c \in Blocking => ind[c] # <<>>

\* The poll returns with an indication, which event gives to the callback, or
\* with none after its timeout.  next is what the callback does to cmds.
checkIndications(c, t, next) ==
    /\ call[c][t] = "poll"
    /\ PollReturns(c)
    /\ ind' = [ind EXCEPT ![c] = IF @ = <<>> THEN @ ELSE Tail(@)]
    /\ cmds' = next
    /\ Leave(c, t)
    /\ UNCHANGED size

\* The engines: the oldest command of a direction is carried out, and its
\* indication queued.
DmaController(c, d) ==
    /\ cmds[c][d] # <<>>
    /\ cmds' = [cmds EXCEPT ![c][d] = Tail(@)]
    /\ ind' = [ind EXCEPT ![c] = Append(@, d)]
    /\ UNCHANGED <<size, lock, call>>
=============================================================================

------------------------------- MODULE DmaTest -------------------------------
(***************************************************************************)
(* The DMA test program (src/dmac/cpp/testdma.cpp) on DmaChannel: main     *)
(* makes one worker and one channel after the other and starts them at     *)
(* once, a worker reads numIters times and then writes numIters times, and *)
(* its callbacks, run by its own polls, issue the next transfer or count   *)
(* the last one down.                                                      *)
(*                                                                         *)
(* The program's channels have no lock.  A channel of Shared belongs to    *)
(* another client: one thread polls, a second one transfers, and the       *)
(* callbacks only count.                                                   *)
(***************************************************************************)
EXTENDS DmaChannel

CONSTANTS
    Options,    \* command lines: records doRead, doWrite, numIters, w, r
    MaxSent     \* transfers of the second thread of a shared channel

ASSUME TestAssumption ==
    /\ \A c \in Shared : {"worker", "sender"} = Threads[c]
    /\ \A c \in Channels \ Shared : Threads[c] = {"worker"}
    /\ Options \subseteq [doRead: BOOLEAN, doWrite: BOOLEAN, numIters: Nat, w: Nat, r: Nat]
    /\ MaxSent \in Nat

Workers == Channels \ Shared

VARIABLES
    opts,       \* the options of this run
    created,    \* the channels that main has made, with their threads
    started,    \* the flag that the threads spin on
    pc,         \* pc[c]: where the thread is
    phase,      \* phase[c]: i of the loop in run
    left,       \* left[c][d]: numReads and numWrites
    waitCount,  \* waitCount[c]
    total,      \* history: total[c][d]: transfers issued
    sent, got   \* of a shared channel: transfers issued and completed

worker == <<pc, phase, left, waitCount, total>>
main   == <<opts, created, started>>
vars   == <<channelVars, main, worker, sent, got>>

TypeOK ==
    /\ ChannelTypeOK
    /\ opts \in Options
    /\ created \subseteq Channels
    /\ started \in BOOLEAN
    /\ pc \in [Workers -> {"spin", "wsize", "rsize", "begin", "to", "from", "wait", "done"}]
    /\ phase \in [Workers -> 0 .. 2]
    /\ left \in [Workers -> [Directions -> Nat]]
    /\ waitCount \in [Workers -> Nat]
    /\ total \in [Workers -> [Directions -> Nat]]
    /\ sent \in [Shared -> 0 .. MaxSent] /\ got \in [Shared -> 0 .. MaxSent]

Init ==
    /\ ChannelInit
    /\ opts \in Options
    /\ created = {} /\ started = FALSE
    /\ pc = [c \in Workers |-> "spin"]
    /\ phase = [c \in Workers |-> 0]
    /\ left = [c \in Workers |-> [d \in Directions |-> 0]]
    /\ waitCount = [c \in Workers |-> 0]
    /\ total = [c \in Workers |-> [d \in Directions |-> 0]]
    /\ sent = [c \in Shared |-> 0] /\ got = [c \in Shared |-> 0]

-----------------------------------------------------------------------------
(* main and runTest.                                                       *)

NewWorker(c) ==
    /\ c \notin created
    /\ NewChannel(c)
    /\ created' = created \cup {c}
    /\ UNCHANGED <<opts, started, worker, sent, got>>

runTest ==
    /\ created = Channels /\ ~started
    /\ started' = TRUE
    /\ UNCHANGED <<channelVars, opts, created, worker, sent, got>>

\* Mutant: a thread runs as soon as it is there.
threadfn_AtOnce(c) ==
    /\ pc[c] = "spin" /\ c \in created
    /\ pc' = [pc EXCEPT ![c] = "wsize"]
    /\ UNCHANGED <<channelVars, main, phase, left, waitCount, total, sent, got>>

threadfn(c) ==
    /\ pc[c] = "spin" /\ started
    /\ pc' = [pc EXCEPT ![c] = "wsize"]
    /\ UNCHANGED <<channelVars, main, phase, left, waitCount, total, sent, got>>

-----------------------------------------------------------------------------
(* ChannelWorker::run.                                                     *)

\* Mutant: the second phase does not reset the reads.
Assigned_Both(i) ==
    [to |-> IF opts.doRead THEN opts.numIters ELSE 0,
     from |-> IF i = 1 /\ opts.doWrite THEN opts.numIters ELSE 0]

\* numReads and numWrites at the start of a phase.
Assigned(i) ==
    [to |-> IF i = 0 /\ opts.doRead THEN opts.numIters ELSE 0,
     from |-> IF i = 1 /\ opts.doWrite THEN opts.numIters ELSE 0]

FirstCall(n) == IF n["to"] > 0 THEN "to" ELSE IF n["from"] > 0 THEN "from" ELSE "wait"

run_begin(c) ==
    /\ pc[c] = "begin"
    /\ IF phase[c] < 2
       THEN /\ left' = [left EXCEPT ![c] = Assigned(phase[c])]
            /\ pc' = [pc EXCEPT ![c] = FirstCall(Assigned(phase[c]))]
       ELSE pc' = [pc EXCEPT ![c] = "done"] /\ UNCHANGED left
    /\ UNCHANGED <<channelVars, main, phase, waitCount, total, sent, got>>

\* The call that the worker makes next.
Wants(c) ==
    CASE pc[c] \in {"wsize", "rsize", "to", "from"} -> pc[c]
      [] pc[c] = "wait" /\ waitCount[c] > 0         -> "poll"
      [] OTHER                                      -> Idle

run_call(c) ==
    /\ Wants(c) # Idle
    /\ Enter(c, "worker", Wants(c))
    /\ UNCHANGED <<main, worker, sent, got>>

run_sizes(c) ==
    /\ \/ setWriteRequestSize(c, "worker", opts.w) /\ pc' = [pc EXCEPT ![c] = "rsize"]
       \/ setReadRequestSize(c, "worker", opts.r) /\ pc' = [pc EXCEPT ![c] = "begin"]
    /\ UNCHANGED <<main, phase, left, waitCount, total, sent, got>>

\* Bookkeeping of a transfer in direction d.
Counted(c, d) ==
    /\ left' = [left EXCEPT ![c][d] = @ - 1]
    /\ total' = [total EXCEPT ![c][d] = @ + 1]

\* The first transfer of a phase.
run_issue(c) ==
    /\ \/ /\ transferToFpga(c, "worker")
          /\ Counted(c, "to")
          /\ pc' = [pc EXCEPT ![c] = IF left[c]["from"] > 0 THEN "from" ELSE "wait"]
       \/ /\ transferFromFpga(c, "worker")
          /\ Counted(c, "from")
          /\ pc' = [pc EXCEPT ![c] = "wait"]
    /\ waitCount' = [waitCount EXCEPT ![c] = @ + 1]
    /\ UNCHANGED <<main, phase, sent, got>>

\* Mutant: a transfer that the callback issues is waited for once more.
TransferDone_Counts(c, d) ==
    IF left[c][d] > 0
    THEN /\ checkIndications(c, "worker", Issued(c, d))
         /\ Counted(c, d)
         /\ waitCount' = [waitCount EXCEPT ![c] = @ + 1]
    ELSE /\ checkIndications(c, "worker", cmds)
         /\ waitCount' = [waitCount EXCEPT ![c] = @ - 1]
         /\ UNCHANGED <<left, total>>

\* transferToFpgaDone and transferFromFpgaDone, called from the poll.
TransferDone(c, d) ==
    IF left[c][d] > 0
    THEN /\ checkIndications(c, "worker", Issued(c, d))
         /\ Counted(c, d)
         /\ UNCHANGED waitCount
    ELSE /\ checkIndications(c, "worker", cmds)
         /\ waitCount' = [waitCount EXCEPT ![c] = @ - 1]
         /\ UNCHANGED <<left, total>>

run_poll(c) ==
    /\ IF ind[c] # <<>> THEN TransferDone(c, Head(ind[c]))
       ELSE checkIndications(c, "worker", cmds) /\ UNCHANGED <<left, waitCount, total>>
    /\ UNCHANGED <<main, pc, phase, sent, got>>

run_next(c) ==
    /\ pc[c] = "wait" /\ waitCount[c] = 0 /\ call[c]["worker"] = Idle
    /\ phase' = [phase EXCEPT ![c] = @ + 1]
    /\ pc' = [pc EXCEPT ![c] = "begin"]
    /\ UNCHANGED <<channelVars, main, left, waitCount, total, sent, got>>

-----------------------------------------------------------------------------
(* External: a client with two threads on one channel.                     *)

client_call(c, t) ==
    /\ started
    /\ t = "sender" => sent[c] < MaxSent
    /\ Enter(c, t, IF t = "sender" THEN "from" ELSE "poll")
    /\ UNCHANGED <<main, worker, sent, got>>

client_send(c) ==
    /\ transferFromFpga(c, "sender")
    /\ sent' = [sent EXCEPT ![c] = @ + 1]
    /\ UNCHANGED <<main, worker, got>>

client_poll(c) ==
    /\ checkIndications(c, "worker", cmds)
    /\ got' = [got EXCEPT ![c] = IF ind[c] # <<>> THEN @ + 1 ELSE @]
    /\ UNCHANGED <<main, worker, sent>>

-----------------------------------------------------------------------------

engine(c, d) == DmaController(c, d) /\ UNCHANGED <<main, worker, sent, got>>

\* run and threadfn of a worker.
Run(c) ==
    \/ threadfn(c)
    \/ run_begin(c)
    \/ run_call(c)
    \/ run_sizes(c)
    \/ run_issue(c)
    \/ run_poll(c)
    \/ run_next(c)

Next ==
    \/ \E c \in Channels : NewWorker(c)
    \/ runTest
    \/ \E c \in Workers : Run(c)
    \/ \E c \in Shared : \/ \E t \in Threads[c] : client_call(c, t)
                         \/ client_send(c)
                         \/ client_poll(c)
    \/ \E c \in Channels, d \in Directions : engine(c, d)

\* Threads are scheduled and the engines work.  A thread that polls in a loop
\* leaves the lock between two polls (run sleeps there), so that one who waits
\* for it gets it in the end.
Fairness ==
    /\ \A c \in Channels : WF_vars(NewWorker(c))
    /\ WF_vars(runTest)
    /\ \A c \in Workers : WF_vars(Run(c))
    /\ \A c \in Shared :
        /\ \A t \in Threads[c] : SF_vars(client_call(c, t))
        /\ WF_vars(client_send(c))
        /\ WF_vars(client_poll(c))
    /\ \A c \in Channels, d \in Directions : WF_vars(engine(c, d))

Spec == Init /\ [][Next]_vars /\ Fairness

-----------------------------------------------------------------------------
(* Properties.                                                             *)

\* waitCount is what is still to come: the transfers in the engines and the
\* indications not yet polled.  So a poll without timeout never waits for
\* nothing, and a phase ends with nothing under way.
WaitCountExact ==
    /\ TypeOK
    /\ \A c \in Workers : waitCount[c] =
           Len(cmds[c]["to"]) + Len(cmds[c]["from"]) + Len(ind[c])

\* A worker that is done has issued numIters transfers in each direction that
\* it was asked for, and it never wrote before its reads had all come back.
ExactlyNumIters ==
    \A c \in Workers :
        /\ total[c]["from"] > 0 /\ opts.doRead =>
                total[c]["to"] = opts.numIters /\ cmds[c]["to"] = <<>>
        /\ pc[c] = "done" =>
                /\ total[c]["to"] = IF opts.doRead THEN opts.numIters ELSE 0
                /\ total[c]["from"] = IF opts.doWrite THEN opts.numIters ELSE 0

\* The burst that a transfer has when bytes were asked for: as many bytes, 1024
\* at most, and of those that the register is too narrow for the low bits.
AsAsked(burst, bytes) ==
    burst = IF Capped(bytes) < BurstMod THEN Capped(bytes) ELSE Capped(bytes) % BurstMod

\* Although the channels share the size registers and each constructor sets
\* them, every transfer uses the bursts that were asked for, or what the
\* registers can hold of them.
BurstAsConfigured ==
    \A c \in Workers :
        /\ \A k \in DOMAIN cmds[c]["to"] : AsAsked(cmds[c]["to"][k], opts.r)
        /\ \A k \in DOMAIN cmds[c]["from"] : AsAsked(cmds[c]["from"][k], opts.w)

\* Every worker finishes, and every transfer of a second thread is issued and
\* its completion delivered, although the first one polls all the time.
AllComplete ==
    <>[](/\ \A c \in Workers : pc[c] = "done"
         /\ \A c \in Shared : got[c] = MaxSent)
=============================================================================

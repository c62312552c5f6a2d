---------------------------- MODULE DmaTest_proofs ---------------------------
(***************************************************************************)
(* Proofs about DmaTest, for any number of channels, any of them shared or *)
(* with a poll that blocks, and any options.                               *)
(***************************************************************************)
EXTENDS DmaTest, SequenceTheorems, TLAPS

\* The inductive invariant.  A worker inside a phase has transfers of that
\* phase's direction only, and for as long as it has some left to issue one is
\* under way, whose callback issues the next.  Between two phases it has none.
Inside(c) == pc[c] \in {"to", "from", "wait"}

Dir(i) == IF i = 0 THEN "to" ELSE "from"

Asked(d) == IF (IF d = "to" THEN opts.doRead ELSE opts.doWrite) THEN opts.numIters ELSE 0

\* The transfers that the phases so far had to do.
Reached(c, d) ==
    IF d = "to" THEN phase[c] > 0 \/ Inside(c) ELSE phase[c] > 1 \/ (phase[c] = 1 /\ Inside(c))

Planned(c, d) == IF Reached(c, d) THEN Asked(d) ELSE 0

PlaceInv(c) ==
    /\ pc[c] \in {"spin", "wsize", "rsize"} => phase[c] = 0
    /\ pc[c] = "done" => phase[c] = 2
    /\ Inside(c) => phase[c] < 2
    /\ pc[c] = "to" => phase[c] = 0 /\ left[c]["to"] > 0 /\ waitCount[c] = 0
    /\ pc[c] = "from" => phase[c] = 1 /\ left[c]["from"] > 0 /\ waitCount[c] = 0
    /\ pc[c] = "wait" => \A d \in Directions : left[c][d] > 0 => waitCount[c] > 0
    /\ ~Inside(c) => waitCount[c] = 0

FlightInv(c) ==
    /\ waitCount[c] = Len(cmds[c]["to"]) + Len(cmds[c]["from"]) + Len(ind[c])
    /\ \A d \in Directions : total[c][d] + left[c][d] = Planned(c, d)
    /\ \A d \in Directions : left[c][d] > 0 => Inside(c) /\ d = Dir(phase[c])
    /\ \A d \in Directions : cmds[c][d] # <<>> => d = Dir(phase[c])
    /\ \A k \in DOMAIN ind[c] : ind[c][k] = Dir(phase[c])

CallInv(c) == call[c]["worker"] \in {Idle, Wants(c)}

\* No constructor runs any more once a worker runs, and the workers all set
\* the same sizes before they issue anything.
SizeInv(c) ==
    /\ pc[c] # "spin" => created = Channels
    /\ pc[c] \notin {"spin", "wsize"} => size["from"] = Held(opts.w)
    /\ pc[c] \notin {"spin", "wsize", "rsize"} => size["to"] = Held(opts.r)
    /\ \A k \in DOMAIN cmds[c]["to"] : cmds[c]["to"][k] = Held(opts.r)
    /\ \A k \in DOMAIN cmds[c]["from"] : cmds[c]["from"][k] = Held(opts.w)

WorkerInv(c) == PlaceInv(c) /\ FlightInv(c) /\ CallInv(c) /\ SizeInv(c)

\* What the second thread has issued is in an engine, indicated or got.
SharedInv(c) ==
    /\ got[c] + Len(cmds[c]["from"]) + Len(ind[c]) = sent[c]
    /\ cmds[c]["to"] = <<>>
    /\ call[c]["sender"] \in {Idle, "from"}
    /\ call[c]["sender"] = "from" => sent[c] < MaxSent

IInv ==
    /\ TypeOK
    /\ DOMAIN lock = Channels /\ DOMAIN call = Channels
    /\ started => created = Channels
    /\ \A c \in Workers : WorkerInv(c)
    /\ \A c \in Shared : SharedInv(c)
-----------------------------------------------------------------------------
(* Queues and the two-level updates of the functions.                      *)

\* Taking the head off a queue.
LEMMA TakeOff ==
    ASSUME NEW S, NEW q \in Seq(S), q # <<>>
    PROVE  /\ Head(q) \in S /\ Head(q) = q[1] /\ 1 \in DOMAIN q
           /\ Tail(q) \in Seq(S) /\ Len(Tail(q)) = Len(q) - 1 /\ Len(q) \in Nat \ {0}
           /\ \A k \in DOMAIN Tail(q) : k + 1 \in DOMAIN q /\ Tail(q)[k] = q[k + 1]
    BY HeadTailProperties, ElementOfSeq, LenProperties

\* Putting an entry at the end.
LEMMA PutOn ==
    ASSUME NEW S, NEW q \in Seq(S), NEW v \in S
    PROVE  /\ Append(q, v) \in Seq(S) /\ Len(Append(q, v)) = Len(q) + 1 /\ Len(q) \in Nat
           /\ Append(q, v) # <<>>
           /\ \A k \in DOMAIN Append(q, v) :
                Append(q, v)[k] = v \/ (k \in DOMAIN q /\ Append(q, v)[k] = q[k])
    BY AppendProperties, LenProperties

\* Three counts that add up to nothing.
LEMMA NoneLeft ==
    ASSUME NEW a \in Nat, NEW b \in Nat, NEW n \in Nat, a + b + n = 0
    PROVE  a = 0 /\ b = 0 /\ n = 0
    OBVIOUS

\* Changing one value of a function.
LEMMA Updated ==
    ASSUME NEW X, NEW S, NEW f \in [X -> S], NEW x, NEW v \in S
    PROVE  [f EXCEPT ![x] = v] \in [X -> S]
    OBVIOUS

\* Changing one entry of one row of a table leaves all the others.
LEMMA Entry ==
    ASSUME NEW X, NEW Y, NEW Z, NEW f \in [X -> [Y -> Z]], NEW x \in X, NEW y \in Y, NEW z \in Z
    PROVE  LET g == [f EXCEPT ![x][y] = z] IN
           /\ g \in [X -> [Y -> Z]]
           /\ g[x][y] = z
           /\ \A b \in Y : b # y => g[x][b] = f[x][b]
           /\ \A a \in X : a # x => g[a] = f[a]
    OBVIOUS

\* What the types say of the queues of one channel ...
LEMMA QueueTypes ==
    ASSUME TypeOK, NEW c \in Channels
    PROVE  /\ cmds[c]["to"] \in Seq(0 .. BurstMod - 1) /\ cmds[c]["from"] \in Seq(0 .. BurstMod - 1)
           /\ \A d \in Directions : cmds[c][d] \in Seq(0 .. BurstMod - 1)
           /\ ind[c] \in Seq(Directions)
           /\ Len(cmds[c]["to"]) \in Nat /\ Len(cmds[c]["from"]) \in Nat /\ Len(ind[c]) \in Nat
<1>1. /\ cmds \in [Channels -> [Directions -> Seq(0 .. BurstMod - 1)]]
      /\ ind \in [Channels -> Seq(Directions)]
    BY ZenonT(30) DEF TypeOK, ChannelTypeOK
<1>2. /\ cmds[c]["to"] \in Seq(0 .. BurstMod - 1) /\ cmds[c]["from"] \in Seq(0 .. BurstMod - 1)
      /\ \A d \in Directions : cmds[c][d] \in Seq(0 .. BurstMod - 1)
      /\ ind[c] \in Seq(Directions)
    BY <1>1 DEF Directions
<1> QED BY <1>2, LenProperties

\* A register holds the size it is given, or its low bits.
LEMMA HeldSizes ==
    ASSUME NEW bytes \in Nat
    PROVE  Held(bytes) \in 0 .. BurstMod - 1 /\ AsAsked(Held(bytes), bytes)
<1>1. BurstMod \in Nat /\ BurstMod > 256
    BY ChannelAssumption
<1>2. PICK asked \in Nat : asked = Capped(bytes)
    BY DEF Capped
<1>3. asked % BurstMod \in 0 .. BurstMod - 1
    BY <1>1, <1>2
<1>4. asked < BurstMod => asked % BurstMod = asked
    BY <1>1, <1>2
<1> QED BY <1>2, <1>3, <1>4 DEF Held, AsAsked

\* ... and of the sizes.
LEMMA SizeTypes ==
    ASSUME TypeOK, NEW d \in Directions
    PROVE  size[d] \in 0 .. BurstMod - 1
<1> DEFINE S == 0 .. BurstMod - 1
<1>1. size \in [Directions -> S]
    BY ZenonT(30) DEF TypeOK, ChannelTypeOK
<1>2. size[d] \in S
    <2> HIDE DEF S
    <2> QED BY <1>1
<1> QED BY <1>2

\* All that the types say.
LEMMA Types ==
    ASSUME TypeOK
    PROVE  /\ Shared \subseteq Channels /\ Workers \subseteq Channels
           /\ \A c \in Workers : c \notin Shared /\ Threads[c] = {"worker"}
           /\ \A c \in Shared : c \notin Workers /\ Threads[c] = {"worker", "sender"}
           /\ \A c \in Channels : c \in Workers \/ c \in Shared
           /\ "to" \in Directions /\ "from" \in Directions
           /\ \A d \in Directions : size[d] \in 0 .. BurstMod - 1
           /\ \A c \in Channels : \A d \in Directions : cmds[c][d] \in Seq(0 .. BurstMod - 1)
           /\ \A c \in Channels : ind[c] \in Seq(Directions)
           /\ \A c \in Workers : \A d \in Directions : left[c][d] \in Nat /\ total[c][d] \in Nat
           /\ \A c \in Workers : waitCount[c] \in Nat
           /\ \A c \in Workers : phase[c] \in 0 .. 2
           /\ opts \in [doRead: BOOLEAN, doWrite: BOOLEAN, numIters: Nat, w: Nat, r: Nat]
           /\ Held(opts.w) \in 0 .. BurstMod - 1 /\ Held(opts.r) \in 0 .. BurstMod - 1
<1>1. /\ Shared \subseteq Channels /\ Workers \subseteq Channels
      /\ \A c \in Workers : c \notin Shared /\ Threads[c] = {"worker"}
      /\ \A c \in Shared : c \notin Workers /\ Threads[c] = {"worker", "sender"}
      /\ \A c \in Channels : c \in Workers \/ c \in Shared
    BY ChannelAssumption, TestAssumption DEF Workers
<1>2. /\ "to" \in Directions /\ "from" \in Directions
      /\ \A d \in Directions : size[d] \in 0 .. BurstMod - 1
      /\ \A c \in Channels : \A d \in Directions : cmds[c][d] \in Seq(0 .. BurstMod - 1)
      /\ \A c \in Channels : ind[c] \in Seq(Directions)
    <2>1. "to" \in Directions /\ "from" \in Directions
        BY DEF Directions
    <2>2. \A d \in Directions : size[d] \in 0 .. BurstMod - 1
        BY SizeTypes
    <2>3. \A c \in Channels : \A d \in Directions : cmds[c][d] \in Seq(0 .. BurstMod - 1)
        BY QueueTypes
    <2>4. \A c \in Channels : ind[c] \in Seq(Directions)
        BY QueueTypes
    <2> QED BY ONLY <2>1, <2>2, <2>3, <2>4, Zenon
<1>3. /\ \A c \in Workers : \A d \in Directions : left[c][d] \in Nat /\ total[c][d] \in Nat
      /\ \A c \in Workers : waitCount[c] \in Nat
      /\ \A c \in Workers : phase[c] \in 0 .. 2
    BY DEF TypeOK
<1>4. opts \in [doRead: BOOLEAN, doWrite: BOOLEAN, numIters: Nat, w: Nat, r: Nat]
    BY TestAssumption DEF TypeOK
<1>5. Held(opts.w) \in 0 .. BurstMod - 1 /\ Held(opts.r) \in 0 .. BurstMod - 1
    BY <1>4, HeldSizes
<1> QED BY <1>1, <1>2, <1>3, <1>4, <1>5, ZenonT(30)

\* What they say of the variables of one worker.
LEMMA WorkerTypesOf ==
    ASSUME TypeOK, NEW c \in Workers
    PROVE  /\ c \in Channels /\ Threads[c] = {"worker"}
           /\ waitCount[c] \in Nat /\ phase[c] \in 0 .. 2
           /\ \A d \in Directions : left[c][d] \in Nat /\ total[c][d] \in Nat
<1>1. c \in Channels /\ Threads[c] = {"worker"}
    BY ChannelAssumption, TestAssumption DEF Workers
<1> QED BY <1>1 DEF TypeOK

\* A transfer adds a burst of the size that is set to one queue.
LEMMA IssuedQueues ==
    ASSUME TypeOK, NEW c \in Channels, NEW d \in Directions
    PROVE  /\ Issued(c, d) \in [Channels -> [Directions -> Seq(0 .. BurstMod - 1)]]
           /\ Issued(c, d)[c][d] = Append(cmds[c][d], size[d])
           /\ \A e \in Directions : e # d => Issued(c, d)[c][e] = cmds[c][e]
           /\ \A x \in Channels : x # c => Issued(c, d)[x] = cmds[x]
<1>1. Append(cmds[c][d], size[d]) \in Seq(0 .. BurstMod - 1)
    <2>1. cmds[c][d] \in Seq(0 .. BurstMod - 1)
        BY QueueTypes
    <2>2. size[d] \in 0 .. BurstMod - 1
        BY SizeTypes
    <2> QED BY <2>1, <2>2, AppendProperties
<1>2. cmds \in [Channels -> [Directions -> Seq(0 .. BurstMod - 1)]]
    BY DEF TypeOK, ChannelTypeOK
<1> DEFINE q == Append(cmds[c][d], size[d])
           S == Seq(0 .. BurstMod - 1)
<1>3. Issued(c, d) = [cmds EXCEPT ![c][d] = q]
    BY DEF Issued
<1>4. q \in S /\ cmds \in [Channels -> [Directions -> S]]
    BY <1>1, <1>2
<1>5. /\ Issued(c, d) \in [Channels -> [Directions -> S]]
      /\ Issued(c, d)[c][d] = q
      /\ \A e \in Directions : e # d => Issued(c, d)[c][e] = cmds[c][e]
      /\ \A x \in Channels : x # c => Issued(c, d)[x] = cmds[x]
    <2> HIDE DEF q, S
    <2> QED BY <1>3, <1>4, Entry
<1> QED BY <1>5

\* An engine takes the oldest burst off one queue.
LEMMA EngineQueues ==
    ASSUME TypeOK, NEW c \in Channels, NEW d \in Directions, DmaController(c, d)
    PROVE  /\ cmds' \in [Channels -> [Directions -> Seq(0 .. BurstMod - 1)]]
           /\ cmds[c][d] # <<>>
           /\ cmds'[c][d] = Tail(cmds[c][d])
           /\ \A e \in Directions : e # d => cmds'[c][e] = cmds[c][e]
           /\ \A x \in Channels : x # c => cmds'[x] = cmds[x]
           /\ ind' \in [Channels -> Seq(Directions)]
           /\ ind'[c] = Append(ind[c], d)
           /\ \A x \in Channels : x # c => ind'[x] = ind[x]
<1>1. Tail(cmds[c][d]) \in Seq(0 .. BurstMod - 1) /\ Append(ind[c], d) \in Seq(Directions)
    <2>1. cmds[c][d] \in Seq(0 .. BurstMod - 1) /\ ind[c] \in Seq(Directions)
        BY QueueTypes
    <2>2. cmds[c][d] # <<>>
        BY DEF DmaController
    <2> QED BY <2>1, <2>2, HeadTailProperties, AppendProperties
<1>2. cmds \in [Channels -> [Directions -> Seq(0 .. BurstMod - 1)]] /\ ind \in [Channels -> Seq(Directions)]
    BY DEF TypeOK, ChannelTypeOK
<1>3. cmds' = [cmds EXCEPT ![c][d] = Tail(cmds[c][d])] /\ cmds[c][d] # <<>>
    BY DEF DmaController
<1>4. /\ ind' \in [Channels -> Seq(Directions)] /\ ind'[c] = Append(ind[c], d)
      /\ \A x \in Channels : x # c => ind'[x] = ind[x]
    BY <1>1, <1>2 DEF DmaController
<1>5. /\ cmds' \in [Channels -> [Directions -> Seq(0 .. BurstMod - 1)]]
      /\ cmds'[c][d] = Tail(cmds[c][d])
      /\ \A e \in Directions : e # d => cmds'[c][e] = cmds[c][e]
      /\ \A x \in Channels : x # c => cmds'[x] = cmds[x]
    BY <1>1, <1>2, <1>3, Entry
<1> QED BY <1>3, <1>4, <1>5

\* A poll takes the oldest indication, if there is one.
LEMMA PollQueues ==
    ASSUME TypeOK, NEW c \in Channels, NEW t, NEW next, checkIndications(c, t, next)
    PROVE  /\ ind' \in [Channels -> Seq(Directions)]
           /\ ind'[c] = IF ind[c] = <<>> THEN <<>> ELSE Tail(ind[c])
           /\ \A x \in Channels : x # c => ind'[x] = ind[x]
<1>1. ind[c] # <<>> => Tail(ind[c]) \in Seq(Directions)
    BY Types, TakeOff
<1>2. ind \in [Channels -> Seq(Directions)]
    BY DEF TypeOK, ChannelTypeOK
<1> QED BY <1>1, <1>2 DEF checkIndications

\* Entering and leaving a call concern the lock and one thread of the channel.
LEMMA Calls ==
    ASSUME TypeOK, DOMAIN lock = Channels, DOMAIN call = Channels,
           NEW c \in Channels, NEW t \in Threads[c],
           NEW op \in Directions \cup {Idle, "poll", "wsize", "rsize"},
           call' = [call EXCEPT ![c][t] = op],
           \/ lock' = lock
           \/ \E h \in Threads[c] \cup {Nobody} : lock' = [lock EXCEPT ![c] = h]
    PROVE  /\ \A x \in Channels : lock'[x] \in Threads[x] \cup {Nobody}
           /\ \A x \in Channels : call'[x] \in
                [Threads[x] -> Directions \cup {Idle, "poll", "wsize", "rsize"}]
           /\ DOMAIN lock' = Channels /\ DOMAIN call' = Channels
           /\ call'[c][t] = op
           /\ \A s \in Threads[c] : s # t => call'[c][s] = call[c][s]
           /\ \A x \in Channels : x # c => call'[x] = call[x]
<1>1. call' = [call EXCEPT ![c] = [call[c] EXCEPT ![t] = op]]
    OBVIOUS
<1>2. /\ \A x \in Channels : lock[x] \in Threads[x] \cup {Nobody}
      /\ \A x \in Channels : call[x] \in
                [Threads[x] -> Directions \cup {Idle, "poll", "wsize", "rsize"}]
    BY DEF TypeOK, ChannelTypeOK
<1>3. /\ \A x \in Channels : lock'[x] \in Threads[x] \cup {Nobody}
      /\ DOMAIN lock' = Channels
    BY <1>2
<1>4. call'[c] = [call[c] EXCEPT ![t] = op] /\ DOMAIN call' = Channels
    BY <1>1
<1>5. \A x \in Channels : x # c => call'[x] = call[x]
    BY <1>1
<1> QED BY <1>2, <1>3, <1>4, <1>5

\* A call that is left.
LEMMA Left ==
    ASSUME TypeOK, DOMAIN lock = Channels, DOMAIN call = Channels,
           NEW c \in Channels, NEW t \in Threads[c], Leave(c, t)
    PROVE  /\ \A x \in Channels : lock'[x] \in Threads[x] \cup {Nobody}
           /\ \A x \in Channels : call'[x] \in
                [Threads[x] -> Directions \cup {Idle, "poll", "wsize", "rsize"}]
           /\ DOMAIN lock' = Channels /\ DOMAIN call' = Channels
           /\ call'[c][t] = Idle
           /\ \A s \in Threads[c] : s # t => call'[c][s] = call[c][s]
           /\ \A x \in Channels : x # c => call'[x] = call[x]
<1>1. /\ Idle \in Directions \cup {Idle, "poll", "wsize", "rsize"}
      /\ call' = [call EXCEPT ![c][t] = Idle]
      /\ \E h \in Threads[c] \cup {Nobody} : lock' = [lock EXCEPT ![c] = h]
    BY DEF Leave
<1> HIDE DEF Idle
<1> QED BY <1>1, Calls

\* A call that begins.
LEMMA Entered ==
    ASSUME TypeOK, DOMAIN lock = Channels, DOMAIN call = Channels,
           NEW c \in Channels, NEW t \in Threads[c],
           NEW op \in Directions \cup {Idle, "poll", "wsize", "rsize"}, Enter(c, t, op)
    PROVE  /\ \A x \in Channels : lock'[x] \in Threads[x] \cup {Nobody}
           /\ \A x \in Channels : call'[x] \in
                [Threads[x] -> Directions \cup {Idle, "poll", "wsize", "rsize"}]
           /\ DOMAIN lock' = Channels /\ DOMAIN call' = Channels
           /\ call'[c][t] = op
           /\ \A s \in Threads[c] : s # t => call'[c][s] = call[c][s]
           /\ \A x \in Channels : x # c => call'[x] = call[x]
<1>1. /\ call' = [call EXCEPT ![c][t] = op]
      /\ lock' = lock \/ \E h \in Threads[c] \cup {Nobody} : lock' = [lock EXCEPT ![c] = h]
    BY DEF Enter, Lock
<1> QED BY <1>1, Calls

\* Issuing a transfer moves one from what is left to what was issued.
LEMMA CountedTables ==
    ASSUME TypeOK, NEW c \in Workers, NEW d \in Directions, left[c][d] > 0, Counted(c, d)
    PROVE  /\ left' \in [Workers -> [Directions -> Nat]]
           /\ total' \in [Workers -> [Directions -> Nat]]
           /\ left'[c][d] = left[c][d] - 1 /\ total'[c][d] = total[c][d] + 1
           /\ \A e \in Directions : e # d => left'[c][e] = left[c][e] /\ total'[c][e] = total[c][e]
           /\ \A x \in Workers : x # c => left'[x] = left[x] /\ total'[x] = total[x]
<1>1. left \in [Workers -> [Directions -> Nat]] /\ total \in [Workers -> [Directions -> Nat]]
    BY DEF TypeOK
<1>2. left[c][d] - 1 \in Nat /\ total[c][d] + 1 \in Nat
    BY WorkerTypesOf
<1>3. /\ left' = [left EXCEPT ![c][d] = left[c][d] - 1]
      /\ total' = [total EXCEPT ![c][d] = total[c][d] + 1]
    BY DEF Counted
<1>4. /\ left' \in [Workers -> [Directions -> Nat]]
      /\ left'[c][d] = left[c][d] - 1
      /\ \A e \in Directions : e # d => left'[c][e] = left[c][e]
      /\ \A x \in Workers : x # c => left'[x] = left[x]
    BY <1>1, <1>2, <1>3, Entry
<1>5. /\ total' \in [Workers -> [Directions -> Nat]]
      /\ total'[c][d] = total[c][d] + 1
      /\ \A e \in Directions : e # d => total'[c][e] = total[c][e]
      /\ \A x \in Workers : x # c => total'[x] = total[x]
    BY <1>1, <1>2, <1>3, Entry
<1> QED BY <1>4, <1>5
-----------------------------------------------------------------------------
(* Workers.                                                                *)

\* The state of worker x apart from the sizes and the commands.
Apart(x) ==
    /\ pc'[x] = pc[x] /\ phase'[x] = phase[x] /\ left'[x] = left[x]
    /\ waitCount'[x] = waitCount[x] /\ total'[x] = total[x]
    /\ cmds'[x] = cmds[x] /\ ind'[x] = ind[x]
    /\ call'[x]["worker"] = call[x]["worker"]

\* Steps of the others do not disturb a worker: sizes that another one sets are
\* the ones that it would set itself.
LEMMA Frame ==
    ASSUME NEW x \in Workers, WorkerInv(x), Apart(x), opts' = opts, TypeOK,
           \/ size' = size /\ (created = Channels => created' = Channels)
           \/ size' = [size EXCEPT !["from"] = Held(opts.w)] /\ created' = created
           \/ size' = [size EXCEPT !["to"] = Held(opts.r)] /\ created' = created
           \/ created # Channels
    PROVE  WorkerInv(x)'
<1>1. PlaceInv(x)'
    BY DEF WorkerInv, PlaceInv, Apart, Inside
<1>2. FlightInv(x)'
    BY DEF WorkerInv, FlightInv, Apart, Inside, Planned, Reached, Asked
<1>3. CallInv(x)'
    BY DEF WorkerInv, CallInv, Apart, Wants
<1>4. SizeInv(x)'
    <2>1. size \in [Directions -> 0 .. BurstMod - 1] /\ "to" \in Directions /\ "from" \in Directions
        BY DEF TypeOK, ChannelTypeOK, Directions
    <2> QED BY <2>1 DEF WorkerInv, SizeInv, Apart
<1> QED BY <1>1, <1>2, <1>3, <1>4 DEF WorkerInv

\* threadfn, run_begin and run_next go from one place to the next.
LEMMA WorkerMoves ==
    ASSUME IInv, NEW c \in Workers, threadfn(c) \/ run_begin(c) \/ run_next(c)
    PROVE  WorkerInv(c)'
<1>0. TypeOK /\ WorkerInv(c) /\ (started => created = Channels)
    BY DEF IInv
<1>1. UNCHANGED <<channelVars, opts, created, waitCount, total>>
    BY DEF threadfn, run_begin, run_next, main
<1>2. /\ pc \in [Workers -> {"spin", "wsize", "rsize", "begin", "to", "from", "wait", "done"}]
      /\ phase \in [Workers -> 0 .. 2]
      /\ left \in [Workers -> [Directions -> Nat]]
    BY <1>0 DEF TypeOK
<1>3. UNCHANGED <<size, lock, call, cmds, ind>>
    BY <1>1 DEF channelVars
<1>4. CASE threadfn(c)
    <2>1. /\ pc[c] = "spin" /\ started /\ pc'[c] = "wsize"
          /\ UNCHANGED <<phase, left>>
        BY <1>2, <1>4 DEF threadfn
    <2>2. PlaceInv(c)' /\ CallInv(c)' /\ SizeInv(c)'
        BY <1>0, <1>1, <1>3, <2>1 DEF WorkerInv, PlaceInv, Inside, CallInv, Wants, SizeInv, Idle
    <2>3. FlightInv(c)'
        BY <1>0, <1>1, <1>3, <2>1 DEF WorkerInv, FlightInv, Inside, Planned, Reached, Asked
    <2> QED BY <2>2, <2>3 DEF WorkerInv
<1>5. CASE run_begin(c) /\ phase[c] < 2
    <2>1. /\ pc[c] = "begin" /\ pc'[c] = FirstCall(Assigned(phase[c])) /\ phase' = phase
          /\ left'[c] = Assigned(phase[c])
        BY <1>2, <1>5 DEF run_begin
    <2>2. waitCount[c] = 0 /\ \A d \in Directions : left[c][d] = 0
        <3>1. \A d \in Directions : left[c][d] \in Nat
            BY <1>0, Types
        <3>2. ~Inside(c) /\ PlaceInv(c) /\ FlightInv(c)
            BY <1>0, <2>1 DEF Inside, WorkerInv
        <3>3. waitCount[c] = 0 /\ \A d \in Directions : ~(left[c][d] > 0)
            BY <3>2 DEF PlaceInv, FlightInv
        <3> QED BY <3>1, <3>3
    <2>3. /\ left'[c]["to"] = (IF phase[c] = 0 THEN Asked("to") ELSE 0)
          /\ left'[c]["from"] = (IF phase[c] = 1 THEN Asked("from") ELSE 0)
        BY <2>1 DEF Assigned, Asked
    <2>4. /\ pc'[c] = IF left'[c]["to"] > 0 THEN "to" ELSE IF left'[c]["from"] > 0 THEN "from" ELSE "wait"
          /\ Asked("to") \in Nat /\ Asked("from") \in Nat /\ phase[c] \in {0, 1}
        BY <1>0, <1>5, <2>1, Types DEF FirstCall, Asked
    <2>5. PlaceInv(c)' /\ CallInv(c)' /\ SizeInv(c)'
        <3>1. PlaceInv(c)'
            BY <1>1, <2>1, <2>2, <2>3, <2>4 DEF PlaceInv, Inside, Directions
        <3>2. CallInv(c)'
            BY <1>0, <1>1, <1>3, <2>1, <2>2, <2>4 DEF WorkerInv, CallInv, Wants, Idle
        <3>3. SizeInv(c)'
            BY <1>0, <1>1, <1>3, <2>1, <2>4 DEF WorkerInv, SizeInv
        <3> QED BY <3>1, <3>2, <3>3
    <2>6. FlightInv(c)'
        <3>1. Inside(c)' /\ ~Inside(c)
            BY <2>1, <2>4 DEF Inside
        <3>2. Planned(c, "to") = (IF phase[c] > 0 THEN Asked("to") ELSE 0) /\ Planned(c, "from") = 0
            BY <2>4, <3>1 DEF Planned, Reached
        <3>3. /\ Planned(c, "to")' = Asked("to")
              /\ Planned(c, "from")' = IF phase[c] = 1 THEN Asked("from") ELSE 0
            BY <1>1, <2>1, <2>4, <3>1 DEF Planned, Reached, Asked
        <3>4. \A d \in Directions : total'[c][d] + left'[c][d] = Planned(c, d)'
            <4>1. /\ total[c]["to"] \in Nat /\ total[c]["from"] \in Nat
                  /\ total[c]["to"] + left[c]["to"] = Planned(c, "to")
                  /\ total[c]["from"] + left[c]["from"] = Planned(c, "from")
                <5>1. \A d \in Directions : total[c][d] \in Nat /\ total[c][d] + left[c][d] = Planned(c, d)
                    BY <1>0, WorkerTypesOf DEF WorkerInv, FlightInv
                <5> HIDE DEF Planned
                <5> QED BY <5>1 DEF Directions
            <4>2. left[c]["to"] = 0 /\ left[c]["from"] = 0
                BY <2>2 DEF Directions
            <4>3. /\ total'[c]["to"] + left'[c]["to"] = Planned(c, "to")'
                  /\ total'[c]["from"] + left'[c]["from"] = Planned(c, "from")'
                <5> HIDE DEF Planned
                <5> QED BY <1>1, <2>3, <2>4, <3>2, <3>3, <4>1, <4>2
            <4> QED BY <4>3 DEF Directions
        <3>5. \A d \in Directions : left'[c][d] > 0 => d = Dir(phase[c])
            BY <2>3, <2>4 DEF Directions, Dir
        <3> QED BY <1>0, <1>1, <1>3, <2>1, <3>1, <3>4, <3>5 DEF WorkerInv, FlightInv
    <2> QED BY <2>5, <2>6 DEF WorkerInv
<1>6. CASE run_begin(c) /\ ~(phase[c] < 2)
    <2>1. pc[c] = "begin" /\ pc'[c] = "done" /\ phase[c] = 2 /\ UNCHANGED <<phase, left>>
        BY <1>2, <1>6 DEF run_begin
    <2>2. PlaceInv(c)' /\ CallInv(c)' /\ SizeInv(c)'
        BY <1>0, <1>1, <1>3, <2>1 DEF WorkerInv, PlaceInv, Inside, CallInv, Wants, SizeInv, Idle
    <2>3. FlightInv(c)'
        BY <1>0, <1>1, <1>3, <2>1 DEF WorkerInv, FlightInv, Inside, Planned, Reached, Asked
    <2> QED BY <2>2, <2>3 DEF WorkerInv
<1>7. CASE run_next(c)
    <2>1. /\ pc[c] = "wait" /\ waitCount[c] = 0 /\ call[c]["worker"] = Idle
          /\ pc'[c] = "begin" /\ phase'[c] = phase[c] + 1 /\ left' = left
        BY <1>2, <1>7 DEF run_next
    <2>2. phase[c] \in {0, 1} /\ Inside(c) /\ ~Inside(c)'
        BY <1>0, <2>1, Types DEF WorkerInv, PlaceInv, Inside
    <2>3. \A d \in Directions : left[c][d] = 0
        BY <1>0, <2>1, Types DEF WorkerInv, PlaceInv
    <2>4. PlaceInv(c)' /\ CallInv(c)' /\ SizeInv(c)'
        BY <1>0, <1>1, <1>3, <2>1, <2>3 DEF WorkerInv, PlaceInv, Inside, CallInv, Wants, SizeInv, Idle
    <2>5. FlightInv(c)'
        <3>1. \A d \in Directions : Planned(c, d)' = Planned(c, d)
            BY <1>1, <2>1, <2>2 DEF Planned, Reached, Asked, Directions
        <3>2. cmds[c]["to"] = <<>> /\ cmds[c]["from"] = <<>> /\ ind[c] = <<>>
            <4>1. /\ cmds[c]["to"] \in Seq(0 .. BurstMod - 1) /\ cmds[c]["from"] \in Seq(0 .. BurstMod - 1)
                  /\ ind[c] \in Seq(Directions)
                BY <1>0, WorkerTypesOf, QueueTypes
            <4>2. Len(cmds[c]["to"]) + Len(cmds[c]["from"]) + Len(ind[c]) = 0
                BY <1>0, <2>1 DEF WorkerInv, FlightInv
            <4>3. Len(cmds[c]["to"]) = 0 /\ Len(cmds[c]["from"]) = 0 /\ Len(ind[c]) = 0
                <5>1. Len(cmds[c]["to"]) \in Nat /\ Len(cmds[c]["from"]) \in Nat /\ Len(ind[c]) \in Nat
                    BY <4>1, LenProperties
                <5> QED BY <4>2, <5>1, NoneLeft
            <4> QED BY <4>1, <4>3, EmptySeq
        <3> HIDE DEF Planned
        <3>3. waitCount'[c] = Len(cmds'[c]["to"]) + Len(cmds'[c]["from"]) + Len(ind'[c])
            BY <1>0, <1>1, <1>3, <2>1 DEF WorkerInv, FlightInv
        <3>4. \A d \in Directions : total'[c][d] + left'[c][d] = Planned(c, d)'
            <4>1. \A d \in Directions : total[c][d] + left[c][d] = Planned(c, d)
                BY <1>0 DEF WorkerInv, FlightInv
            <4>2. total' = total
                BY <1>7 DEF run_next
            <4> QED BY <2>1, <3>1, <4>1, <4>2
        <3>5. \A d \in Directions : ~(left'[c][d] > 0)
            BY <2>1, <2>3
        <3>6. (\A d \in Directions : cmds'[c][d] = <<>>) /\ DOMAIN ind'[c] = {}
            <4>1. cmds' = cmds /\ ind' = ind
                BY <1>7 DEF run_next, channelVars
            <4> QED BY <3>2, <4>1 DEF Directions
        <3> QED BY <3>3, <3>4, <3>5, <3>6 DEF FlightInv
    <2> QED BY <2>4, <2>5 DEF WorkerInv
<1> QED BY <1>4, <1>5, <1>6, <1>7

\* The commands of a channel in both engines.
InFlight(c) == Len(cmds[c]["to"]) + Len(cmds[c]["from"])

\* They grow by one with a transfer, of the size that is set.
LEMMA FlightGrows ==
    ASSUME TypeOK, NEW c \in Channels, NEW d \in Directions, cmds' = Issued(c, d)
    PROVE  /\ InFlight(c) \in Nat /\ InFlight(c)' = InFlight(c) + 1
           /\ \A e \in Directions : \A k \in DOMAIN cmds'[c][e] :
                \/ k \in DOMAIN cmds[c][e] /\ cmds'[c][e][k] = cmds[c][e][k]
                \/ e = d /\ cmds'[c][e][k] = size[d]
           /\ \A e \in Directions : e # d => cmds'[c][e] = cmds[c][e]
<1>1. /\ cmds'[c][d] = Append(cmds[c][d], size[d])
      /\ \A e \in Directions : e # d => cmds'[c][e] = cmds[c][e]
    BY IssuedQueues
<1>2. /\ cmds[c][d] \in Seq(0 .. BurstMod - 1) /\ size[d] \in 0 .. BurstMod - 1
      /\ \A e \in Directions : cmds[c][e] \in Seq(0 .. BurstMod - 1)
    BY QueueTypes, SizeTypes
<1>3. /\ Len(cmds'[c][d]) = Len(cmds[c][d]) + 1
      /\ \A k \in DOMAIN cmds'[c][d] :
            cmds'[c][d][k] = size[d] \/ (k \in DOMAIN cmds[c][d] /\ cmds'[c][d][k] = cmds[c][d][k])
    BY <1>1, <1>2, PutOn
<1>4. \A e \in Directions : Len(cmds[c][e]) \in Nat
    BY <1>2, LenProperties
<1>5. InFlight(c) \in Nat /\ InFlight(c)' = InFlight(c) + 1
    <2>1. "to" \in Directions /\ "from" \in Directions /\ (d = "to" \/ d = "from")
        BY DEF Directions
    <2>2. Len(cmds[c]["to"]) \in Nat /\ Len(cmds[c]["from"]) \in Nat
        BY <1>4, <2>1
    <2>3. \/ /\ Len(cmds'[c]["to"]) = Len(cmds[c]["to"]) + 1
             /\ Len(cmds'[c]["from"]) = Len(cmds[c]["from"])
          \/ /\ Len(cmds'[c]["to"]) = Len(cmds[c]["to"])
             /\ Len(cmds'[c]["from"]) = Len(cmds[c]["from"]) + 1
        BY <1>1, <1>3, <2>1
    <2>4. /\ InFlight(c) = Len(cmds[c]["to"]) + Len(cmds[c]["from"])
          /\ InFlight(c)' = Len(cmds'[c]["to"]) + Len(cmds'[c]["from"])
        BY DEF InFlight
    <2> DEFINE a == Len(cmds[c]["to"])
               b == Len(cmds[c]["from"])
               x == Len(cmds'[c]["to"])
               y == Len(cmds'[c]["from"])
    <2>5. /\ a \in Nat /\ b \in Nat /\ InFlight(c) = a + b /\ InFlight(c)' = x + y
          /\ (x = a + 1 /\ y = b) \/ (x = a /\ y = b + 1)
        BY <2>2, <2>3, <2>4
    <2> HIDE DEF a, b, x, y
    <2> QED BY <2>5
<1> QED BY <1>1, <1>3, <1>5

\* They shrink by one when an engine takes one.
LEMMA FlightShrinks ==
    ASSUME TypeOK, NEW c \in Channels, NEW d \in Directions, DmaController(c, d)
    PROVE  /\ InFlight(c) \in Nat /\ InFlight(c)' = InFlight(c) - 1
           /\ \A e \in Directions : \A k \in DOMAIN cmds'[c][e] :
                \E l \in DOMAIN cmds[c][e] : cmds'[c][e][k] = cmds[c][e][l]
           /\ \A e \in Directions : e # d => cmds'[c][e] = cmds[c][e]
           /\ cmds[c][d] # <<>>
<1>1. /\ cmds'[c][d] = Tail(cmds[c][d]) /\ cmds[c][d] # <<>>
      /\ \A e \in Directions : e # d => cmds'[c][e] = cmds[c][e]
    BY EngineQueues
<1>2. \A e \in Directions : cmds[c][e] \in Seq(0 .. BurstMod - 1)
    BY Types
<1>3. /\ Len(cmds'[c][d]) = Len(cmds[c][d]) - 1
      /\ \A k \in DOMAIN cmds'[c][d] :
            k + 1 \in DOMAIN cmds[c][d] /\ cmds'[c][d][k] = cmds[c][d][k + 1]
    BY <1>1, <1>2, TakeOff
<1>4. \A e \in Directions : Len(cmds[c][e]) \in Nat
    BY <1>2, LenProperties
<1>5. Len(cmds[c][d]) \in Nat \ {0}
    BY <1>1, <1>2, TakeOff
<1>6. InFlight(c) \in Nat /\ InFlight(c)' = InFlight(c) - 1
    <2>1. "to" \in Directions /\ "from" \in Directions /\ (d = "to" \/ d = "from")
        BY DEF Directions
    <2>2. Len(cmds[c]["to"]) \in Nat /\ Len(cmds[c]["from"]) \in Nat
        BY <1>4, <2>1
    <2>3. \/ /\ Len(cmds'[c]["to"]) = Len(cmds[c]["to"]) - 1
             /\ Len(cmds'[c]["from"]) = Len(cmds[c]["from"])
          \/ /\ Len(cmds'[c]["to"]) = Len(cmds[c]["to"])
             /\ Len(cmds'[c]["from"]) = Len(cmds[c]["from"]) - 1
        BY <1>1, <1>3, <2>1
    <2>4. /\ InFlight(c) = Len(cmds[c]["to"]) + Len(cmds[c]["from"])
          /\ InFlight(c)' = Len(cmds'[c]["to"]) + Len(cmds'[c]["from"])
        BY DEF InFlight
    <2> DEFINE a == Len(cmds[c]["to"])
               b == Len(cmds[c]["from"])
               x == Len(cmds'[c]["to"])
               y == Len(cmds'[c]["from"])
    <2>5. /\ a \in Nat /\ b \in Nat /\ InFlight(c) = a + b /\ InFlight(c)' = x + y
          /\ (x = a - 1 /\ y = b) \/ (x = a /\ y = b - 1)
        BY <2>2, <2>3, <2>4
    <2> HIDE DEF a, b, x, y
    <2> QED BY <2>5
<1> QED BY <1>1, <1>3, <1>6

\* A worker inside a call is where it makes that call.
LEMMA Placed ==
    ASSUME IInv, NEW c \in Workers
    PROVE  /\ call[c]["worker"] \in {"wsize", "rsize", "to", "from"} => pc[c] = call[c]["worker"]
           /\ call[c]["worker"] = "poll" => pc[c] = "wait" /\ waitCount[c] > 0
    BY DEF IInv, WorkerInv, CallInv, Wants, Idle

\* A call begins, or sets a size.
LEMMA WorkerCalls ==
    ASSUME IInv, NEW c \in Workers, run_call(c) \/ run_sizes(c)
    PROVE  WorkerInv(c)'
<1>0. TypeOK /\ WorkerInv(c) /\ DOMAIN lock = Channels /\ DOMAIN call = Channels
    BY DEF IInv
<1>1. c \in Channels /\ Threads[c] = {"worker"} /\ c \notin Shared
    BY <1>0, Types
<1>2. UNCHANGED <<cmds, ind, opts, created, phase, left, waitCount, total>>
    BY DEF run_call, run_sizes, Enter, setWriteRequestSize, setReadRequestSize, main, worker
<1>3. /\ pc \in [Workers -> {"spin", "wsize", "rsize", "begin", "to", "from", "wait", "done"}]
      /\ size \in [Directions -> 0 .. BurstMod - 1] /\ "to" \in Directions /\ "from" \in Directions
    BY <1>0 DEF TypeOK, ChannelTypeOK, Directions
<1>4. CASE run_call(c)
    <2>1. UNCHANGED <<size, pc>> /\ Enter(c, "worker", Wants(c))
        BY <1>4 DEF run_call, Enter, worker
    <2>2. Wants(c) \in Directions \cup {Idle, "poll", "wsize", "rsize"}
        BY DEF Wants, Directions
    <2>3. call'[c]["worker"] = Wants(c)
        BY <1>0, <1>1, <2>1, <2>2, Entered
    <2>4. CallInv(c)'
        BY <1>2, <2>1, <2>3 DEF CallInv, Wants
    <2>5. PlaceInv(c)' /\ FlightInv(c)' /\ SizeInv(c)'
        BY <1>0, <1>2, <2>1 DEF WorkerInv, PlaceInv, FlightInv, SizeInv, Inside, Planned, Reached, Asked
    <2> QED BY <2>4, <2>5 DEF WorkerInv
<1>5. CASE run_sizes(c)
    <2>1. Leave(c, "worker") /\ Idle \in Directions \cup {Idle, "poll", "wsize", "rsize"}
        BY <1>5 DEF run_sizes, setWriteRequestSize, setReadRequestSize
    <2>2. call'[c]["worker"] = Idle
        BY <1>0, <1>1, <2>1, Left
    <2>3. CallInv(c)'
        BY <2>2 DEF CallInv
    <2>4. \/ /\ pc[c] = "wsize" /\ pc'[c] = "rsize"
             /\ size' = [size EXCEPT !["from"] = Held(opts.w)]
          \/ /\ pc[c] = "rsize" /\ pc'[c] = "begin"
             /\ size' = [size EXCEPT !["to"] = Held(opts.r)]
        BY <1>3, <1>5, Placed DEF run_sizes, setWriteRequestSize, setReadRequestSize
    <2>5. PlaceInv(c)' /\ FlightInv(c)'
        BY <1>0, <1>2, <2>4 DEF WorkerInv, PlaceInv, FlightInv, Inside, Planned, Reached, Asked
    <2>6. SizeInv(c)'
        BY <1>0, <1>2, <1>3, <2>4 DEF WorkerInv, SizeInv
    <2> QED BY <2>3, <2>5, <2>6 DEF WorkerInv
<1> QED BY <1>4, <1>5

\* Planned does not change as long as the place stays inside or outside.
LEMMA SamePlan ==
    ASSUME NEW c, phase'[c] = phase[c], Inside(c)' = Inside(c), opts' = opts
    PROVE  \A d \in Directions : Planned(c, d)' = Planned(c, d)
    BY DEF Planned, Reached, Asked

\* The first transfer of a phase.
LEMMA WorkerIssues ==
    ASSUME IInv, NEW c \in Workers, run_issue(c)
    PROVE  WorkerInv(c)'
<1>0. TypeOK /\ WorkerInv(c) /\ DOMAIN lock = Channels /\ DOMAIN call = Channels
    BY DEF IInv
<1>1. c \in Channels /\ Threads[c] = {"worker"} /\ "to" \in Directions /\ "from" \in Directions
    BY <1>0, WorkerTypesOf DEF Directions
<1>2. PICK d \in Directions :
        /\ call[c]["worker"] = d /\ cmds' = Issued(c, d) /\ Leave(c, "worker") /\ Counted(c, d)
        /\ pc' = [pc EXCEPT ![c] =
                    IF d = "to" /\ left[c]["from"] > 0 THEN "from" ELSE "wait"]
    <2>1. CASE transferToFpga(c, "worker") /\ Counted(c, "to")
               /\ pc' = [pc EXCEPT ![c] = IF left[c]["from"] > 0 THEN "from" ELSE "wait"]
        BY <1>1, <2>1 DEF transferToFpga
    <2>2. CASE transferFromFpga(c, "worker") /\ Counted(c, "from")
               /\ pc' = [pc EXCEPT ![c] = "wait"]
        BY <1>1, <2>2 DEF transferFromFpga
    <2> QED BY <2>1, <2>2 DEF run_issue
<1>3. /\ UNCHANGED <<size, ind, opts, created, phase>>
      /\ waitCount' = [waitCount EXCEPT ![c] = waitCount[c] + 1]
    BY DEF run_issue, transferToFpga, transferFromFpga, main
<1>4. pc[c] = d
    BY <1>2, Placed DEF Directions
<1>5. /\ d = Dir(phase[c]) /\ left[c][d] > 0 /\ waitCount[c] = 0 /\ phase[c] < 2
      /\ \A e \in Directions : left[c][e] > 0 => e = d
    <2>1. PlaceInv(c) /\ FlightInv(c)
        BY <1>0 DEF WorkerInv
    <2>2. d = Dir(phase[c]) /\ left[c][d] > 0 /\ waitCount[c] = 0 /\ phase[c] < 2
        BY <1>4, <2>1 DEF PlaceInv, Dir, Inside, Directions
    <2> QED BY <2>1, <2>2 DEF FlightInv
<1>6. pc'[c] = "wait" /\ waitCount'[c] = 1
    <2>1. pc'[c] = IF d = "to" /\ left[c]["from"] > 0 THEN "from" ELSE "wait"
        BY <1>0, <1>2 DEF TypeOK
    <2>2. waitCount'[c] = waitCount[c] + 1
        BY <1>0, <1>3 DEF TypeOK
    <2> QED BY <1>1, <1>5, <2>1, <2>2
<1>7. /\ left'[c][d] = left[c][d] - 1 /\ total'[c][d] = total[c][d] + 1
      /\ \A e \in Directions : e # d => left'[c][e] = left[c][e] /\ total'[c][e] = total[c][e]
    BY <1>0, <1>2, <1>5, CountedTables
<1>8. /\ \A e \in Directions : left[c][e] \in Nat /\ total[c][e] \in Nat
      /\ waitCount[c] \in Nat
    BY <1>0, WorkerTypesOf
<1>9. Inside(c) /\ Inside(c)'
    BY <1>4, <1>6 DEF Inside, Directions
<1>10. CallInv(c)'
    <2>1. call'[c]["worker"] = Idle
        BY <1>0, <1>1, <1>2, Left
    <2> QED BY <2>1 DEF CallInv
<1>11. PlaceInv(c)'
    BY <1>3, <1>5, <1>6, <1>9 DEF PlaceInv
<1>12. FlightInv(c)'
    <2>1. InFlight(c) \in Nat /\ InFlight(c)' = InFlight(c) + 1
        BY <1>0, <1>1, <1>2, FlightGrows
    <2>2. waitCount'[c] = Len(cmds'[c]["to"]) + Len(cmds'[c]["from"]) + Len(ind'[c])
        <3>1. waitCount[c] = InFlight(c) + Len(ind[c]) /\ Len(ind[c]) \in Nat
            <4>1. Len(ind[c]) \in Nat
                BY <1>0, <1>8, WorkerTypesOf, QueueTypes
            <4> QED BY <1>0, <4>1 DEF WorkerInv, FlightInv, InFlight
        <3>2. waitCount'[c] = InFlight(c)' + Len(ind'[c])
            BY <1>3, <1>5, <1>6, <2>1, <3>1
        <3> QED BY <3>2 DEF InFlight
    <2>3. \A e \in Directions : total'[c][e] + left'[c][e] = Planned(c, e)'
        <3>1. \A e \in Directions : Planned(c, e)' = Planned(c, e)
            BY <1>3, <1>9, SamePlan
        <3>2. \A e \in Directions : total[c][e] + left[c][e] = Planned(c, e)
            BY <1>0 DEF WorkerInv, FlightInv
        <3>3. \A e \in Directions : total'[c][e] + left'[c][e] = total[c][e] + left[c][e]
            BY <1>7, <1>8
        <3> QED BY <3>1, <3>2, <3>3
    <2>4. \A e \in Directions : left'[c][e] > 0 => e = Dir(phase'[c])
        BY <1>3, <1>5, <1>7
    <2>5. \A e \in Directions : cmds'[c][e] # <<>> => e = Dir(phase'[c])
        <3>1. \A e \in Directions : e # d => cmds'[c][e] = cmds[c][e]
            BY <1>0, <1>1, <1>2, FlightGrows
        <3> QED BY <1>0, <1>3, <1>5, <3>1 DEF WorkerInv, FlightInv
    <2>6. \A k \in DOMAIN ind'[c] : ind'[c][k] = Dir(phase'[c])
        BY <1>0, <1>3 DEF WorkerInv, FlightInv
    <2> QED BY <1>9, <2>2, <2>3, <2>4, <2>5, <2>6 DEF FlightInv
<1>13. SizeInv(c)'
    <2>1. /\ SizeInv(c) /\ created' = created /\ size' = size /\ opts' = opts
          /\ pc[c] \notin {"spin", "wsize", "rsize"}
        BY <1>0, <1>3, <1>4 DEF WorkerInv, Directions
    <2>2. created = Channels /\ size["from"] = Held(opts.w) /\ size["to"] = Held(opts.r)
        BY <2>1 DEF SizeInv
    <2>3. \A e \in Directions : \A k \in DOMAIN cmds'[c][e] :
                \/ k \in DOMAIN cmds[c][e] /\ cmds'[c][e][k] = cmds[c][e][k]
                \/ e = d /\ cmds'[c][e][k] = size[d]
        BY <1>0, <1>1, <1>2, FlightGrows
    <2>4. /\ \A k \in DOMAIN cmds'[c]["to"] : cmds'[c]["to"][k] = Held(opts.r)
          /\ \A k \in DOMAIN cmds'[c]["from"] : cmds'[c]["from"][k] = Held(opts.w)
        BY <1>1, <2>1, <2>2, <2>3 DEF SizeInv
    <2> QED BY <2>1, <2>2, <2>4 DEF SizeInv
<1> QED BY <1>10, <1>11, <1>12, <1>13 DEF WorkerInv

\* A poll without an indication changes nothing but the call.
LEMMA WorkerPollsNothing ==
    ASSUME IInv, NEW c \in Workers, run_poll(c), ind[c] = <<>>
    PROVE  WorkerInv(c)'
<1>0. TypeOK /\ WorkerInv(c) /\ DOMAIN lock = Channels /\ DOMAIN call = Channels
    BY DEF IInv
<1>1. c \in Channels /\ Threads[c] = {"worker"}
    BY <1>0, Types
<1>2. /\ checkIndications(c, "worker", cmds)
      /\ UNCHANGED <<left, waitCount, total, opts, created, pc, phase>>
    BY DEF run_poll, main
<1>3. ind'[c] = ind[c] /\ cmds' = cmds /\ size' = size /\ Leave(c, "worker")
    BY <1>0, <1>1, <1>2, PollQueues DEF checkIndications
<1>4. call'[c]["worker"] = Idle
    BY <1>0, <1>1, <1>3, Left
<1>5. CallInv(c)'
    BY <1>4 DEF CallInv
<1>6. PlaceInv(c)' /\ FlightInv(c)' /\ SizeInv(c)'
    BY <1>0, <1>2, <1>3 DEF WorkerInv, PlaceInv, FlightInv, SizeInv, Inside, Planned, Reached, Asked
<1> QED BY <1>5, <1>6 DEF WorkerInv

\* An indication, after which the callback issues the next transfer or counts
\* the last one down.
LEMMA WorkerPolls ==
    ASSUME IInv, NEW c \in Workers, run_poll(c), ind[c] # <<>>
    PROVE  WorkerInv(c)'
<1> DEFINE d == Head(ind[c])
<1>0. TypeOK /\ WorkerInv(c) /\ DOMAIN lock = Channels /\ DOMAIN call = Channels
    BY DEF IInv
<1>1. /\ c \in Channels /\ Threads[c] = {"worker"} /\ "to" \in Directions /\ "from" \in Directions
      /\ \A e \in Directions : left[c][e] \in Nat /\ total[c][e] \in Nat
      /\ waitCount[c] \in Nat /\ ind[c] \in Seq(Directions)
    BY <1>0, WorkerTypesOf, QueueTypes DEF Directions
<1>2. /\ d \in Directions /\ d = ind[c][1] /\ 1 \in DOMAIN ind[c]
      /\ Len(Tail(ind[c])) = Len(ind[c]) - 1 /\ Len(ind[c]) \in Nat \ {0}
      /\ \A k \in DOMAIN Tail(ind[c]) : k + 1 \in DOMAIN ind[c] /\ Tail(ind[c])[k] = ind[c][k + 1]
    BY <1>1, TakeOff
<1>3. d = Dir(phase[c])
    BY <1>0, <1>2 DEF WorkerInv, FlightInv
<1> HIDE DEF d
<1>4. UNCHANGED <<opts, created, pc, phase>> /\ TransferDone(c, d)
    BY DEF run_poll, main, d
<1>5. PICK next : checkIndications(c, "worker", next)
    BY <1>4 DEF TransferDone
<1>6. ind'[c] = Tail(ind[c]) /\ size' = size /\ Leave(c, "worker") /\ call[c]["worker"] = "poll"
    BY <1>0, <1>1, <1>5, PollQueues DEF checkIndications
<1>7. pc[c] = "wait" /\ waitCount[c] > 0 /\ Inside(c) /\ Inside(c)'
    BY <1>4, <1>6, Placed DEF Inside
<1>8. CallInv(c)'
    <2>1. call'[c]["worker"] = Idle
        BY <1>0, <1>1, <1>6, Left
    <2> QED BY <2>1 DEF CallInv
<1>9. \A k \in DOMAIN ind'[c] : ind'[c][k] = Dir(phase'[c])
    BY <1>0, <1>2, <1>4, <1>6 DEF WorkerInv, FlightInv
<1>10. \A e \in Directions : left[c][e] > 0 => e = d
    BY <1>0, <1>3 DEF WorkerInv, FlightInv
<1>11. \A e \in Directions : Planned(c, e)' = Planned(c, e)
    BY <1>4, <1>7, SamePlan
<1>12. \A e \in Directions : total[c][e] + left[c][e] = Planned(c, e)
    BY <1>0 DEF WorkerInv, FlightInv
<1>13. waitCount[c] = InFlight(c) + Len(ind[c])
    BY <1>0 DEF WorkerInv, FlightInv, InFlight
<1>14. /\ SizeInv(c) /\ phase[c] < 2
       /\ created = Channels /\ size["from"] = Held(opts.w) /\ size["to"] = Held(opts.r)
    BY <1>0, <1>7 DEF WorkerInv, SizeInv, PlaceInv
<1>15. CASE left[c][d] > 0
    <2>1. cmds' = Issued(c, d) /\ Counted(c, d) /\ waitCount' = waitCount
        BY <1>4, <1>15 DEF TransferDone, checkIndications
    <2>2. /\ left'[c][d] = left[c][d] - 1 /\ total'[c][d] = total[c][d] + 1
          /\ \A e \in Directions : e # d => left'[c][e] = left[c][e] /\ total'[c][e] = total[c][e]
        BY <1>0, <1>2, <1>15, <2>1, CountedTables
    <2>3. /\ InFlight(c) \in Nat /\ InFlight(c)' = InFlight(c) + 1
          /\ \A e \in Directions : \A k \in DOMAIN cmds'[c][e] :
                \/ k \in DOMAIN cmds[c][e] /\ cmds'[c][e][k] = cmds[c][e][k]
                \/ e = d /\ cmds'[c][e][k] = size[d]
          /\ \A e \in Directions : e # d => cmds'[c][e] = cmds[c][e]
        BY <1>0, <1>1, <1>2, <2>1, FlightGrows
    <2>4. PlaceInv(c)'
        BY <1>4, <1>7, <1>14, <2>1 DEF PlaceInv
    <2>5. FlightInv(c)'
        <3>1. waitCount'[c] = Len(cmds'[c]["to"]) + Len(cmds'[c]["from"]) + Len(ind'[c])
            <4>1. waitCount'[c] = InFlight(c)' + Len(ind'[c])
                BY <1>2, <1>6, <1>13, <2>1, <2>3
            <4> QED BY <4>1 DEF InFlight
        <3>2. \A e \in Directions : total'[c][e] + left'[c][e] = Planned(c, e)'
            <4>1. \A e \in Directions : total'[c][e] + left'[c][e] = total[c][e] + left[c][e]
                <5>1. \A e \in Directions : left[c][e] \in Nat /\ total[c][e] \in Nat
                    BY <1>1
                <5>2. total'[c][d] + left'[c][d] = total[c][d] + left[c][d]
                    <6> DEFINE l == left[c][d]
                               n == total[c][d]
                               lp == left'[c][d]
                               np == total'[c][d]
                    <6>1. l \in Nat /\ n \in Nat /\ lp = l - 1 /\ np = n + 1
                        BY <1>2, <2>2, <5>1
                    <6>2. np + lp = n + l
                        <7> HIDE DEF l, n, lp, np
                        <7> QED BY <6>1
                    <6> QED BY <6>2
                <5> QED BY <2>2, <5>2
            <4> QED BY <1>11, <1>12, <4>1
        <3>3. \A e \in Directions : left'[c][e] > 0 => e = Dir(phase'[c])
            BY <1>3, <1>4, <1>10, <2>2
        <3>4. \A e \in Directions : cmds'[c][e] # <<>> => e = Dir(phase'[c])
            BY <1>0, <1>3, <1>4, <2>3 DEF WorkerInv, FlightInv
        <3> QED BY <1>7, <1>9, <3>1, <3>2, <3>3, <3>4 DEF FlightInv
    <2>6. SizeInv(c)'
        <3>1. /\ \A k \in DOMAIN cmds'[c]["to"] : cmds'[c]["to"][k] = Held(opts.r)
              /\ \A k \in DOMAIN cmds'[c]["from"] : cmds'[c]["from"][k] = Held(opts.w)
            BY <1>1, <1>14, <2>3 DEF SizeInv
        <3> QED BY <1>4, <1>6, <1>14, <3>1 DEF SizeInv
    <2> QED BY <1>8, <2>4, <2>5, <2>6 DEF WorkerInv
<1>16. CASE ~(left[c][d] > 0)
    <2>1. /\ UNCHANGED <<cmds, left, total>> /\ waitCount' = [waitCount EXCEPT ![c] = waitCount[c] - 1]
        BY <1>4, <1>16 DEF TransferDone, checkIndications
    <2>2. waitCount'[c] = waitCount[c] - 1
        BY <1>0, <2>1 DEF TypeOK
    <2>3. \A e \in Directions : ~(left[c][e] > 0)
        BY <1>10, <1>16
    <2>4. PlaceInv(c)'
        BY <1>4, <1>7, <1>14, <2>1, <2>3 DEF PlaceInv
    <2>5. FlightInv(c)'
        <3>1. waitCount'[c] = Len(cmds'[c]["to"]) + Len(cmds'[c]["from"]) + Len(ind'[c])
            <4>1. InFlight(c) \in Nat
                <5>1. Len(cmds[c]["to"]) \in Nat /\ Len(cmds[c]["from"]) \in Nat
                    BY <1>0, <1>1, QueueTypes
                <5> DEFINE a == Len(cmds[c]["to"])
                           b == Len(cmds[c]["from"])
                <5>2. a \in Nat /\ b \in Nat /\ InFlight(c) = a + b
                    BY <5>1 DEF InFlight
                <5> HIDE DEF a, b
                <5> QED BY <5>2
            <4>2. waitCount'[c] = InFlight(c) + Len(ind'[c])
                BY <1>2, <1>6, <1>13, <2>2, <4>1
            <4> QED BY <2>1, <4>2 DEF InFlight
        <3>2. \A e \in Directions : total'[c][e] + left'[c][e] = Planned(c, e)'
            BY <1>11, <1>12, <2>1
        <3>3. \A e \in Directions : cmds'[c][e] # <<>> => e = Dir(phase'[c])
            BY <1>0, <1>4, <2>1 DEF WorkerInv, FlightInv
        <3> QED BY <1>9, <2>1, <2>3, <3>1, <3>2, <3>3 DEF FlightInv
    <2>6. SizeInv(c)'
        BY <1>4, <1>6, <1>14, <2>1 DEF SizeInv
    <2> QED BY <1>8, <2>4, <2>5, <2>6 DEF WorkerInv
<1> QED BY <1>15, <1>16

\* An engine turns a command into an indication of the same direction.
LEMMA WorkerEngine ==
    ASSUME IInv, NEW c \in Workers, NEW d \in Directions, engine(c, d)
    PROVE  WorkerInv(c)'
<1>0. TypeOK /\ WorkerInv(c)
    BY DEF IInv
<1>1. c \in Channels /\ "to" \in Directions /\ "from" \in Directions /\ ind[c] \in Seq(Directions)
    BY <1>0, Types
<1>2. /\ DmaController(c, d)
      /\ UNCHANGED <<size, call, opts, created, pc, phase, left, waitCount, total>>
    BY DEF engine, DmaController, main, worker
<1>3. /\ InFlight(c) \in Nat /\ InFlight(c)' = InFlight(c) - 1
      /\ \A e \in Directions : \A k \in DOMAIN cmds'[c][e] :
            \E l \in DOMAIN cmds[c][e] : cmds'[c][e][k] = cmds[c][e][l]
      /\ \A e \in Directions : e # d => cmds'[c][e] = cmds[c][e]
      /\ cmds[c][d] # <<>>
    BY <1>0, <1>1, <1>2, FlightShrinks
<1>4. ind'[c] = Append(ind[c], d)
    BY <1>0, <1>1, <1>2, EngineQueues
<1>5. d = Dir(phase[c])
    BY <1>0, <1>3 DEF WorkerInv, FlightInv
<1>6. /\ Len(ind'[c]) = Len(ind[c]) + 1 /\ Len(ind[c]) \in Nat
      /\ \A k \in DOMAIN ind'[c] : ind'[c][k] = d \/ (k \in DOMAIN ind[c] /\ ind'[c][k] = ind[c][k])
    BY <1>1, <1>4, PutOn
<1>7. CallInv(c)' /\ PlaceInv(c)'
    BY <1>0, <1>2 DEF WorkerInv, CallInv, Wants, PlaceInv, Inside
<1>8. FlightInv(c)'
    <2>1. waitCount'[c] = Len(cmds'[c]["to"]) + Len(cmds'[c]["from"]) + Len(ind'[c])
        <3>1. waitCount[c] = InFlight(c) + Len(ind[c])
            BY <1>0 DEF WorkerInv, FlightInv, InFlight
        <3>2. waitCount'[c] = InFlight(c)' + Len(ind'[c])
            BY <1>2, <1>3, <1>6, <3>1
        <3> QED BY <3>2 DEF InFlight
    <2>2. \A e \in Directions : total'[c][e] + left'[c][e] = Planned(c, e)'
        <3>1. \A e \in Directions : Planned(c, e)' = Planned(c, e)
            <4>1. Inside(c)' = Inside(c)
                BY <1>2 DEF Inside
            <4> QED BY <1>2, <4>1, SamePlan
        <3>2. \A e \in Directions : total[c][e] + left[c][e] = Planned(c, e)
            BY <1>0 DEF WorkerInv, FlightInv
        <3> QED BY <1>2, <3>1, <3>2
    <2>3. \A e \in Directions : cmds'[c][e] # <<>> => e = Dir(phase'[c])
        BY <1>0, <1>2, <1>3, <1>5 DEF WorkerInv, FlightInv
    <2>4. \A k \in DOMAIN ind'[c] : ind'[c][k] = Dir(phase'[c])
        BY <1>0, <1>2, <1>5, <1>6 DEF WorkerInv, FlightInv
    <2>5. \A e \in Directions : left'[c][e] > 0 => Inside(c)' /\ e = Dir(phase'[c])
        BY <1>0, <1>2 DEF WorkerInv, FlightInv, Inside
    <2> QED BY <2>1, <2>2, <2>3, <2>4, <2>5 DEF FlightInv
<1>9. SizeInv(c)'
    BY <1>0, <1>1, <1>2, <1>3 DEF WorkerInv, SizeInv
<1> QED BY <1>7, <1>8, <1>9 DEF WorkerInv
-----------------------------------------------------------------------------
(* The step of a worker as the others see it.                              *)

ChannelsFit == ChannelTypeOK /\ DOMAIN lock = Channels /\ DOMAIN call = Channels

\* Only channel c changes.
OnlyChannel(c) ==
    \A x \in Channels : x # c => cmds'[x] = cmds[x] /\ ind'[x] = ind[x] /\ call'[x] = call[x]

\* Only worker c changes.
OnlyWorker(c) ==
    \A x \in Workers : x # c =>
        /\ pc'[x] = pc[x] /\ phase'[x] = phase[x] /\ left'[x] = left[x]
        /\ waitCount'[x] = waitCount[x] /\ total'[x] = total[x]

SizesSet ==
    \/ size' = size
    \/ size' = [size EXCEPT !["from"] = Held(opts.w)]
    \/ size' = [size EXCEPT !["to"] = Held(opts.r)]

WorkerTypes ==
    /\ pc \in [Workers -> {"spin", "wsize", "rsize", "begin", "to", "from", "wait", "done"}]
    /\ phase \in [Workers -> 0 .. 2]
    /\ left \in [Workers -> [Directions -> Nat]]
    /\ waitCount \in [Workers -> Nat]
    /\ total \in [Workers -> [Directions -> Nat]]

\* A call that returns leaves the types of the channel intact if what it does
\* to the sizes and the queues does.
LEMMA Returned ==
    ASSUME TypeOK, DOMAIN lock = Channels, DOMAIN call = Channels,
           NEW c \in Channels, NEW t \in Threads[c], Leave(c, t), SizesSet,
           cmds' \in [Channels -> [Directions -> Seq(0 .. BurstMod - 1)]],
           ind' \in [Channels -> Seq(Directions)]
    PROVE  ChannelsFit'
<1>1. size' \in [Directions -> 0 .. BurstMod - 1]
    <2> DEFINE w == Held(opts.w)
               r == Held(opts.r)
               S == 0 .. BurstMod - 1
    <2>1. w \in S /\ r \in S
        BY Types, ZenonT(30)
    <2>2. size \in [Directions -> S]
        BY ZenonT(30) DEF TypeOK, ChannelTypeOK
    <2>3. size' = size \/ size' = [size EXCEPT !["from"] = w] \/ size' = [size EXCEPT !["to"] = r]
        BY DEF SizesSet
    <2>4. size' \in [Directions -> S]
        <3> HIDE DEF S, w, r
        <3>1. /\ [size EXCEPT !["from"] = w] \in [Directions -> S]
              /\ [size EXCEPT !["to"] = r] \in [Directions -> S]
            BY <2>1, <2>2, Updated
        <3>2. CASE size' = size
            BY <2>2, <3>2
        <3>3. CASE size' = [size EXCEPT !["from"] = w]
            BY <3>1, <3>3
        <3>4. CASE size' = [size EXCEPT !["to"] = r]
            BY <3>1, <3>4
        <3> QED BY <2>3, <3>2, <3>3, <3>4
    <2> QED BY <2>4, ZenonT(30)
<1>2. /\ \A x \in Channels : lock'[x] \in Threads[x] \cup {Nobody}
      /\ \A x \in Channels : call'[x] \in
                [Threads[x] -> Directions \cup {Idle, "poll", "wsize", "rsize"}]
      /\ DOMAIN lock' = Channels /\ DOMAIN call' = Channels
    BY Left
<1> QED BY <1>1, <1>2, ZenonT(30) DEF ChannelsFit, ChannelTypeOK

\* The same of one that begins.
LEMMA Begun ==
    ASSUME TypeOK, DOMAIN lock = Channels, DOMAIN call = Channels,
           NEW c \in Channels, NEW t \in Threads[c],
           NEW op \in Directions \cup {Idle, "poll", "wsize", "rsize"}, Enter(c, t, op)
    PROVE  ChannelsFit' /\ OnlyChannel(c) /\ UNCHANGED <<size, cmds, ind>>
<1>1. UNCHANGED <<size, cmds, ind>>
    BY DEF Enter
<1>2. /\ \A x \in Channels : lock'[x] \in Threads[x] \cup {Nobody}
      /\ \A x \in Channels : call'[x] \in
                [Threads[x] -> Directions \cup {Idle, "poll", "wsize", "rsize"}]
      /\ DOMAIN lock' = Channels /\ DOMAIN call' = Channels
      /\ \A x \in Channels : x # c => call'[x] = call[x]
    BY Entered
<1>3. /\ size \in [Directions -> 0 .. BurstMod - 1]
      /\ cmds \in [Channels -> [Directions -> Seq(0 .. BurstMod - 1)]]
      /\ ind \in [Channels -> Seq(Directions)]
    BY ZenonT(30) DEF TypeOK, ChannelTypeOK
<1> QED BY <1>1, <1>2, <1>3, ZenonT(30) DEF ChannelsFit, ChannelTypeOK, OnlyChannel

\* A step of worker c stays within its types and its channel.
LEMMA RunStep ==
    ASSUME IInv, NEW c \in Workers, Run(c)
    PROVE  /\ ChannelsFit' /\ WorkerTypes' /\ OnlyChannel(c) /\ OnlyWorker(c) /\ SizesSet
           /\ UNCHANGED <<opts, created, started, sent, got>>
<1>0. TypeOK /\ WorkerInv(c) /\ DOMAIN lock = Channels /\ DOMAIN call = Channels
    BY DEF IInv
<1>1. c \in Channels /\ Threads[c] = {"worker"} /\ "worker" \in Threads[c]
    BY <1>0, Types
<1>2. WorkerTypes /\ ChannelsFit
    BY <1>0 DEF TypeOK, WorkerTypes, ChannelsFit
<1>3. /\ cmds \in [Channels -> [Directions -> Seq(0 .. BurstMod - 1)]]
      /\ ind \in [Channels -> Seq(Directions)]
    BY <1>0 DEF TypeOK, ChannelTypeOK
<1>4. UNCHANGED <<opts, created, started, sent, got>>
    BY DEF Run, threadfn, run_begin, run_call, run_sizes, run_issue, run_poll, run_next, main
<1>5. ASSUME UNCHANGED channelVars
      PROVE  ChannelsFit' /\ OnlyChannel(c) /\ SizesSet
    BY <1>2, <1>5, ZenonT(30) DEF channelVars, ChannelsFit, ChannelTypeOK, OnlyChannel, SizesSet
<1>6. CASE threadfn(c)
    <2>1. UNCHANGED <<phase, left, waitCount, total>> /\ pc' = [pc EXCEPT ![c] = "wsize"]
        BY <1>6 DEF threadfn
    <2>2. WorkerTypes' /\ OnlyWorker(c)
        BY <1>2, <2>1 DEF WorkerTypes, OnlyWorker
    <2> QED BY <1>4, <1>5, <1>6, <2>2 DEF threadfn
<1>7. CASE run_begin(c)
    <2>1. /\ UNCHANGED <<phase, waitCount, total>>
          /\ left' = left \/ left' = [left EXCEPT ![c] = Assigned(phase[c])]
          /\ pc' = [pc EXCEPT ![c] = "done"] \/ pc' = [pc EXCEPT ![c] = FirstCall(Assigned(phase[c]))]
        BY <1>7 DEF run_begin
    <2>2. Assigned(phase[c]) \in [Directions -> Nat]
        <3>1. opts.numIters \in Nat
            BY <1>0, Types
        <3> QED BY <3>1 DEF Assigned, Directions
    <2>3. FirstCall(Assigned(phase[c])) \in {"to", "from", "wait"}
        BY DEF FirstCall
    <2> HIDE DEF Assigned, FirstCall
    <2>4. WorkerTypes' /\ OnlyWorker(c)
        BY <1>2, <2>1, <2>2, <2>3 DEF WorkerTypes, OnlyWorker
    <2> QED BY <1>4, <1>5, <1>7, <2>4 DEF run_begin
<1>8. CASE run_next(c)
    <2>1. /\ UNCHANGED <<left, waitCount, total>> /\ pc[c] = "wait"
          /\ pc' = [pc EXCEPT ![c] = "begin"] /\ phase' = [phase EXCEPT ![c] = phase[c] + 1]
        BY <1>8 DEF run_next
    <2>2. phase[c] + 1 \in 0 .. 2
        <3>1. phase[c] \in 0 .. 2 /\ phase[c] < 2
            BY <1>0, <2>1, WorkerTypesOf DEF WorkerInv, PlaceInv, Inside
        <3> QED BY <3>1
    <2>3. WorkerTypes' /\ OnlyWorker(c)
        BY <1>2, <2>1, <2>2 DEF WorkerTypes, OnlyWorker
    <2> QED BY <1>4, <1>5, <1>8, <2>3 DEF run_next
<1>9. CASE run_call(c)
    <2>1. Enter(c, "worker", Wants(c)) /\ UNCHANGED <<pc, phase, left, waitCount, total>>
        BY <1>9 DEF run_call, worker
    <2>2. Wants(c) \in Directions \cup {Idle, "poll", "wsize", "rsize"}
        BY DEF Wants, Directions
    <2>3. ChannelsFit' /\ OnlyChannel(c) /\ UNCHANGED <<size, cmds, ind>>
        BY <1>0, <1>1, <2>1, <2>2, Begun
    <2>4. WorkerTypes' /\ OnlyWorker(c)
        BY <1>2, <2>1 DEF WorkerTypes, OnlyWorker
    <2> QED BY <1>4, <2>3, <2>4 DEF SizesSet
<1>10. CASE run_sizes(c)
    <2>1. /\ Leave(c, "worker") /\ SizesSet /\ UNCHANGED <<cmds, ind, phase, left, waitCount, total>>
          /\ pc' = [pc EXCEPT ![c] = "rsize"] \/ pc' = [pc EXCEPT ![c] = "begin"]
        BY <1>10 DEF run_sizes, setWriteRequestSize, setReadRequestSize, SizesSet
    <2>2. ChannelsFit'
        BY <1>0, <1>1, <1>3, <2>1, Returned
    <2>3. OnlyChannel(c)
        BY <1>0, <1>1, <2>1, Left DEF OnlyChannel
    <2>4. WorkerTypes' /\ OnlyWorker(c)
        BY <1>2, <2>1 DEF WorkerTypes, OnlyWorker
    <2> QED BY <1>4, <2>1, <2>2, <2>3, <2>4
<1>11. CASE run_issue(c)
    <2>1. PICK d \in Directions :
            /\ call[c]["worker"] = d /\ cmds' = Issued(c, d) /\ Leave(c, "worker") /\ Counted(c, d)
            /\ pc' = [pc EXCEPT ![c] =
                        IF d = "to" /\ left[c]["from"] > 0 THEN "from" ELSE "wait"]
        <3>1. CASE transferToFpga(c, "worker") /\ Counted(c, "to")
                   /\ pc' = [pc EXCEPT ![c] = IF left[c]["from"] > 0 THEN "from" ELSE "wait"]
            BY <3>1 DEF transferToFpga, Directions
        <3>2. CASE transferFromFpga(c, "worker") /\ Counted(c, "from")
                   /\ pc' = [pc EXCEPT ![c] = "wait"]
            BY <3>2 DEF transferFromFpga, Directions
        <3> QED BY <1>11, <3>1, <3>2 DEF run_issue
    <2>2. UNCHANGED <<size, ind, phase>> /\ waitCount' = [waitCount EXCEPT ![c] = waitCount[c] + 1]
        BY <1>11 DEF run_issue, transferToFpga, transferFromFpga
    <2>3. left[c][d] > 0
        <3>1. pc[c] = d
            BY <2>1, Placed DEF Directions
        <3> QED BY <1>0, <3>1 DEF WorkerInv, PlaceInv, Directions
    <2>4. /\ left' \in [Workers -> [Directions -> Nat]]
          /\ total' \in [Workers -> [Directions -> Nat]]
          /\ \A x \in Workers : x # c => left'[x] = left[x] /\ total'[x] = total[x]
        BY <1>0, <2>1, <2>3, CountedTables
    <2>5. WorkerTypes' /\ OnlyWorker(c)
        <3>1. /\ pc' \in [Workers -> {"spin", "wsize", "rsize", "begin", "to", "from", "wait", "done"}]
              /\ \A x \in Workers : x # c => pc'[x] = pc[x]
            BY <1>2, <2>1 DEF WorkerTypes
        <3>2. /\ waitCount' \in [Workers -> Nat]
              /\ \A x \in Workers : x # c => waitCount'[x] = waitCount[x]
            BY <1>2, <2>2 DEF WorkerTypes
        <3>3. phase' = phase /\ phase \in [Workers -> 0 .. 2]
            BY <1>2, <2>2 DEF WorkerTypes
        <3> QED BY <2>4, <3>1, <3>2, <3>3 DEF WorkerTypes, OnlyWorker
    <2>6. /\ cmds' \in [Channels -> [Directions -> Seq(0 .. BurstMod - 1)]]
          /\ \A x \in Channels : x # c => cmds'[x] = cmds[x]
        BY <1>0, <1>1, <2>1, IssuedQueues
    <2>7. SizesSet
        BY <2>2 DEF SizesSet
    <2>8. ChannelsFit'
        BY <1>0, <1>1, <1>3, <2>1, <2>2, <2>6, <2>7, Returned, ZenonT(30)
    <2>9. OnlyChannel(c)
        <3>1. \A x \in Channels : x # c => call'[x] = call[x]
            BY <1>0, <1>1, <2>1, Left
        <3> QED BY <2>2, <2>6, <3>1 DEF OnlyChannel
    <2> QED BY <1>4, <2>5, <2>7, <2>8, <2>9
<1>12. CASE run_poll(c)
    <2>1. /\ UNCHANGED <<pc, phase>>
          /\ \E next : checkIndications(c, "worker", next)
        BY <1>12 DEF run_poll, TransferDone
    <2>2. /\ ind' \in [Channels -> Seq(Directions)]
          /\ \A x \in Channels : x # c => ind'[x] = ind[x]
        BY <1>0, <1>1, <2>1, PollQueues
    <2>3. size' = size /\ SizesSet /\ Leave(c, "worker") /\ call[c]["worker"] = "poll"
        BY <2>1 DEF checkIndications, SizesSet
    <2>4. /\ cmds' \in [Channels -> [Directions -> Seq(0 .. BurstMod - 1)]]
          /\ \A x \in Channels : x # c => cmds'[x] = cmds[x]
          /\ WorkerTypes' /\ OnlyWorker(c)
        <3>1. CASE ind[c] # <<>> /\ left[c][Head(ind[c])] > 0
            <4>1. Head(ind[c]) \in Directions
                BY <1>0, <1>1, <3>1, Types, TakeOff
            <4>2. cmds' = Issued(c, Head(ind[c])) /\ Counted(c, Head(ind[c])) /\ waitCount' = waitCount
                BY <1>12, <3>1 DEF run_poll, TransferDone, checkIndications
            <4>3. /\ cmds' \in [Channels -> [Directions -> Seq(0 .. BurstMod - 1)]]
                  /\ \A x \in Channels : x # c => cmds'[x] = cmds[x]
                BY <1>0, <1>1, <4>1, <4>2, IssuedQueues
            <4>4. /\ left' \in [Workers -> [Directions -> Nat]]
                  /\ total' \in [Workers -> [Directions -> Nat]]
                  /\ \A x \in Workers : x # c => left'[x] = left[x] /\ total'[x] = total[x]
                BY <1>0, <3>1, <4>1, <4>2, CountedTables
            <4> QED BY <1>2, <2>1, <4>2, <4>3, <4>4 DEF WorkerTypes, OnlyWorker
        <3>2. CASE ~(ind[c] # <<>> /\ left[c][Head(ind[c])] > 0)
            <4>1. /\ UNCHANGED <<cmds, left, total>>
                  /\ waitCount' = waitCount \/ waitCount' = [waitCount EXCEPT ![c] = waitCount[c] - 1]
                BY <1>12, <3>2 DEF run_poll, TransferDone, checkIndications
            <4>2. waitCount[c] - 1 \in Nat
                <5>1. waitCount[c] \in Nat /\ waitCount[c] > 0
                    BY <1>0, <2>3, WorkerTypesOf, Placed
                <5> QED BY <5>1
            <4>3. /\ waitCount' \in [Workers -> Nat]
                  /\ \A x \in Workers : x # c => waitCount'[x] = waitCount[x]
                BY <1>2, <4>1, <4>2 DEF WorkerTypes
            <4>4. WorkerTypes' /\ OnlyWorker(c)
                BY <1>2, <2>1, <4>1, <4>3 DEF WorkerTypes, OnlyWorker
            <4> QED BY <1>3, <4>1, <4>4
        <3> QED BY <3>1, <3>2
    <2>5. ChannelsFit'
        BY <1>0, <1>1, <2>2, <2>3, <2>4, Returned
    <2>6. OnlyChannel(c)
        <3>1. \A x \in Channels : x # c => call'[x] = call[x]
            BY <1>0, <1>1, <2>3, Left
        <3> QED BY <2>2, <2>4, <3>1 DEF OnlyChannel
    <2> QED BY <1>4, <2>3, <2>4, <2>5, <2>6
<1> QED BY <1>6, <1>7, <1>8, <1>9, <1>10, <1>11, <1>12 DEF Run
-----------------------------------------------------------------------------
(* The steps of the others, and the whole.                                 *)

\* Nothing of the worker x changes when only another channel does.
LEMMA Elsewhere ==
    ASSUME NEW c \in Channels, NEW x \in Workers, x # c, OnlyChannel(c),
           \/ OnlyWorker(c)
           \/ UNCHANGED <<pc, phase, left, waitCount, total>>
    PROVE  Apart(x)
    BY ChannelAssumption DEF OnlyChannel, OnlyWorker, Apart, Workers

\* What a shared channel goes by.
SharedSame(x) ==
    /\ cmds'[x] = cmds[x] /\ ind'[x] = ind[x] /\ call'[x] = call[x]
    /\ sent'[x] = sent[x] /\ got'[x] = got[x]

\* Such a channel keeps its part of the invariant.
LEMMA SharedFrame ==
    ASSUME NEW x \in Shared, SharedInv(x), SharedSame(x)
    PROVE  SharedInv(x)'
    BY DEF SharedInv, SharedSame

\* A step of a worker.
LEMMA RunPreserves ==
    ASSUME IInv, NEW c \in Workers, Run(c)
    PROVE  IInv'
<1>0. TypeOK /\ c \in Channels /\ c \notin Shared
    BY Types DEF IInv
<1>1. /\ ChannelsFit' /\ WorkerTypes' /\ OnlyChannel(c) /\ OnlyWorker(c) /\ SizesSet
      /\ UNCHANGED <<opts, created, started, sent, got>>
    BY RunStep
<1>2. TypeOK' /\ DOMAIN lock' = Channels /\ DOMAIN call' = Channels
    BY <1>0, <1>1 DEF TypeOK, ChannelsFit, WorkerTypes
<1>3. WorkerInv(c)'
    <2>1. CASE run_poll(c)
        BY <2>1, WorkerPolls, WorkerPollsNothing
    <2> QED BY <2>1, WorkerMoves, WorkerCalls, WorkerIssues DEF Run
<1>4. ASSUME NEW x \in Workers, x # c PROVE WorkerInv(x)'
    <2>1. Apart(x)
        BY <1>0, <1>1, <1>4, Elsewhere
    <2>2. WorkerInv(x)
        BY DEF IInv
    <2> QED BY <1>0, <1>1, <2>1, <2>2, Frame DEF SizesSet
<1>5. ASSUME NEW x \in Shared PROVE SharedInv(x)'
    <2>1. x \in Channels /\ x # c /\ SharedInv(x)
        BY <1>0, Types DEF IInv
    <2>2. SharedSame(x)
        BY <1>1, <2>1 DEF OnlyChannel, SharedSame
    <2> QED BY <2>1, <2>2, SharedFrame
<1>6. started' => created' = Channels
    BY <1>1 DEF IInv
<1> QED BY <1>2, <1>3, <1>4, <1>5, <1>6 DEF IInv

\* main makes the channels and starts the threads.
LEMMA MainPreserves ==
    ASSUME IInv, runTest \/ \E c \in Channels : NewWorker(c)
    PROVE  IInv'
<1>0. TypeOK /\ DOMAIN lock = Channels /\ DOMAIN call = Channels
    BY DEF IInv
<1>1. UNCHANGED <<lock, call, cmds, ind, opts, pc, phase, left, waitCount, total, sent, got>>
    BY DEF runTest, NewWorker, NewChannel, channelVars, worker
<1>2. \/ UNCHANGED <<size, created>> /\ started' = TRUE /\ created = Channels
      \/ /\ size' = [to |-> 256, from |-> 128] /\ UNCHANGED started
         /\ created # Channels /\ created' \subseteq Channels
    <2>1. CASE runTest
        BY <2>1 DEF runTest, channelVars
    <2>2. ASSUME NEW c \in Channels, NewWorker(c)
          PROVE  /\ size' = [to |-> 256, from |-> 128] /\ UNCHANGED started
                 /\ created # Channels /\ created' \subseteq Channels
        BY <1>0, <2>2 DEF NewWorker, NewChannel, TypeOK
    <2> QED BY <2>1, <2>2
<1>3. size' \in [Directions -> 0 .. BurstMod - 1]
    <2>1. [to |-> 256, from |-> 128] \in [Directions -> 0 .. BurstMod - 1]
        BY ChannelAssumption DEF Directions
    <2>2. size \in [Directions -> 0 .. BurstMod - 1]
        BY <1>0, ZenonT(30) DEF TypeOK, ChannelTypeOK
    <2> QED BY <1>2, <2>1, <2>2
<1>4. TypeOK'
    <2>1. ChannelTypeOK'
        BY <1>0, <1>1, <1>3, ZenonT(30) DEF TypeOK, ChannelTypeOK
    <2>2. created' \subseteq Channels /\ started' \in BOOLEAN
        BY <1>0, <1>2 DEF TypeOK
    <2> QED BY <1>0, <1>1, <2>1, <2>2 DEF TypeOK
<1>5. ASSUME NEW x \in Workers PROVE WorkerInv(x)'
    <2>1. WorkerInv(x) /\ Apart(x)
        BY <1>1 DEF IInv, Apart
    <2>2. \/ size' = size /\ (created = Channels => created' = Channels)
          \/ created # Channels
        BY <1>2
    <2> QED BY <1>0, <1>1, <2>1, <2>2, Frame
<1>6. ASSUME NEW x \in Shared PROVE SharedInv(x)'
    BY <1>1, SharedFrame DEF IInv, SharedSame
<1>7. started' => created' = Channels
    BY <1>2 DEF IInv
<1> QED BY <1>0, <1>1, <1>4, <1>5, <1>6, <1>7 DEF IInv

\* The engines.
LEMMA EnginePreserves ==
    ASSUME IInv, NEW c \in Channels, NEW d \in Directions, engine(c, d)
    PROVE  IInv'
<1>0. TypeOK /\ DOMAIN lock = Channels /\ DOMAIN call = Channels
    BY DEF IInv
<1>1. /\ DmaController(c, d)
      /\ UNCHANGED <<size, lock, call, opts, created, started, pc, phase, left, waitCount, total,
                     sent, got>>
    BY DEF engine, DmaController, main, worker
<1>2. /\ cmds' \in [Channels -> [Directions -> Seq(0 .. BurstMod - 1)]]
      /\ ind' \in [Channels -> Seq(Directions)]
      /\ OnlyChannel(c)
      /\ cmds[c][d] # <<>> /\ cmds'[c][d] = Tail(cmds[c][d]) /\ ind'[c] = Append(ind[c], d)
      /\ \A e \in Directions : e # d => cmds'[c][e] = cmds[c][e]
    BY <1>0, <1>1, EngineQueues DEF OnlyChannel
<1>3. TypeOK'
    <2>1. ChannelTypeOK'
        BY <1>0, <1>1, <1>2, ZenonT(30) DEF TypeOK, ChannelTypeOK
    <2> QED BY <1>0, <1>1, <2>1 DEF TypeOK
<1>4. ASSUME NEW x \in Workers PROVE WorkerInv(x)'
    <2>1. CASE x = c
        BY <2>1, WorkerEngine
    <2>2. CASE x # c
        <3>1. Apart(x)
            BY <1>1, <1>2, <2>2, Elsewhere
        <3>2. WorkerInv(x)
            BY DEF IInv
        <3> QED BY <1>0, <1>1, <3>1, <3>2, Frame
    <2> QED BY <2>1, <2>2
<1>5. ASSUME NEW x \in Shared PROVE SharedInv(x)'
    <2>0. SharedInv(x) /\ x \in Channels
        BY <1>0, Types DEF IInv
    <2>1. CASE x = c
        <3>1. d = "from" /\ cmds'[c]["to"] = <<>>
            BY <1>2, <2>0, <2>1 DEF SharedInv, Directions
        <3>2. /\ Len(cmds'[c]["from"]) = Len(cmds[c]["from"]) - 1
              /\ Len(cmds[c]["from"]) \in Nat
            <4>1. cmds[c]["from"] \in Seq(0 .. BurstMod - 1) /\ cmds[c]["from"] # <<>>
                BY <1>0, <1>2, <3>1, QueueTypes
            <4>2. cmds'[c]["from"] = Tail(cmds[c]["from"])
                BY <1>2, <3>1
            <4> QED BY <4>1, <4>2, TakeOff
        <3>3. Len(ind'[c]) = Len(ind[c]) + 1 /\ Len(ind[c]) \in Nat
            <4>1. ind[c] \in Seq(Directions)
                BY <1>0, Types
            <4> QED BY <1>2, <4>1, PutOn
        <3>4. got[c] \in Nat /\ sent[c] \in Nat
            BY <1>0, <2>1, TestAssumption DEF TypeOK
        <3>5. got'[c] + Len(cmds'[c]["from"]) + Len(ind'[c]) = sent'[c]
            <4> DEFINE g == got[c]
                       n == sent[c]
                       a == Len(cmds[c]["from"])
                       b == Len(ind[c])
                       ap == Len(cmds'[c]["from"])
                       bp == Len(ind'[c])
            <4>1. g \in Nat /\ a \in Nat /\ b \in Nat /\ ap = a - 1 /\ bp = b + 1 /\ g + a + b = n
                BY <2>0, <2>1, <3>2, <3>3, <3>4 DEF SharedInv
            <4>2. g + ap + bp = n
                <5> HIDE DEF g, n, a, b, ap, bp
                <5> QED BY <4>1
            <4> QED BY <1>1, <4>2
        <3> QED BY <1>1, <2>0, <2>1, <3>1, <3>5 DEF SharedInv
    <2>2. CASE x # c
        BY <1>1, <1>2, <2>0, <2>2, SharedFrame, ZenonT(30) DEF OnlyChannel, SharedSame
    <2> QED BY <2>1, <2>2
<1>6. started' => created' = Channels
    BY <1>1 DEF IInv
<1> QED BY <1>0, <1>1, <1>3, <1>4, <1>5, <1>6 DEF IInv

\* The two threads of a shared channel.
LEMMA ClientPreserves ==
    ASSUME IInv, NEW c \in Shared,
           (\E t \in Threads[c] : client_call(c, t)) \/ client_send(c) \/ client_poll(c)
    PROVE  IInv'
<1>0. TypeOK /\ DOMAIN lock = Channels /\ DOMAIN call = Channels /\ SharedInv(c)
    BY DEF IInv
<1>1. /\ c \in Channels /\ Threads[c] = {"worker", "sender"} /\ "from" \in Directions
      /\ cmds[c]["from"] \in Seq(0 .. BurstMod - 1) /\ ind[c] \in Seq(Directions)
      /\ size["from"] \in 0 .. BurstMod - 1
    <2>1. c \in Channels /\ Threads[c] = {"worker", "sender"}
        BY ChannelAssumption, TestAssumption
    <2>2. "from" \in Directions
        BY DEF Directions
    <2> QED BY <1>0, <2>1, <2>2, QueueTypes, SizeTypes
<1>2. /\ cmds \in [Channels -> [Directions -> Seq(0 .. BurstMod - 1)]]
      /\ ind \in [Channels -> Seq(Directions)]
      /\ sent \in [Shared -> 0 .. MaxSent] /\ got \in [Shared -> 0 .. MaxSent]
    BY <1>0 DEF TypeOK, ChannelTypeOK
<1>3. UNCHANGED <<size, opts, created, started, pc, phase, left, waitCount, total>>
    BY DEF client_call, client_send, client_poll, Enter, transferFromFpga, checkIndications, main, worker
<1>4. Len(cmds[c]["from"]) \in Nat /\ Len(ind[c]) \in Nat /\ got[c] \in Nat /\ sent[c] \in 0 .. MaxSent
    BY <1>1, <1>2, LenProperties
<1>5. ChannelsFit' /\ OnlyChannel(c) /\ SharedInv(c)'
      /\ sent' \in [Shared -> 0 .. MaxSent] /\ got' \in [Shared -> 0 .. MaxSent]
      /\ \A x \in Shared : x # c => sent'[x] = sent[x] /\ got'[x] = got[x]
    <2>1. ASSUME NEW t \in Threads[c], client_call(c, t) PROVE
              /\ ChannelsFit' /\ OnlyChannel(c) /\ SharedInv(c)'
              /\ sent' \in [Shared -> 0 .. MaxSent] /\ got' \in [Shared -> 0 .. MaxSent]
              /\ \A x \in Shared : x # c => sent'[x] = sent[x] /\ got'[x] = got[x]
        <3>1. /\ Enter(c, t, IF t = "sender" THEN "from" ELSE "poll") /\ UNCHANGED <<sent, got>>
              /\ t = "sender" => sent[c] < MaxSent
            BY <2>1 DEF client_call
        <3>2. (IF t = "sender" THEN "from" ELSE "poll") \in Directions \cup {Idle, "poll", "wsize", "rsize"}
            BY <1>1
        <3>3. ChannelsFit' /\ OnlyChannel(c) /\ UNCHANGED <<size, cmds, ind>>
            BY <1>0, <1>1, <3>1, <3>2, Begun, ZenonT(30)
        <3>4. call'[c]["sender"] = IF t = "sender" THEN "from" ELSE call[c]["sender"]
            <4>1. /\ call'[c][t] = IF t = "sender" THEN "from" ELSE "poll"
                  /\ \A r \in Threads[c] : r # t => call'[c][r] = call[c][r]
                BY <1>0, <1>1, <3>1, <3>2, Entered
            <4> QED BY <1>1, <4>1
        <3>5. SharedInv(c)'
            BY <1>0, <3>1, <3>3, <3>4 DEF SharedInv
        <3> QED BY <1>2, <3>1, <3>3, <3>5
    <2>2. CASE client_send(c)
        <3>1. /\ call[c]["sender"] = "from" /\ cmds' = Issued(c, "from") /\ Leave(c, "sender")
              /\ UNCHANGED <<ind, got>> /\ sent' = [sent EXCEPT ![c] = sent[c] + 1]
            BY <2>2 DEF client_send, transferFromFpga
        <3>2. /\ cmds' \in [Channels -> [Directions -> Seq(0 .. BurstMod - 1)]]
              /\ cmds'[c]["from"] = Append(cmds[c]["from"], size["from"])
              /\ \A e \in Directions : e # "from" => cmds'[c][e] = cmds[c][e]
              /\ \A x \in Channels : x # c => cmds'[x] = cmds[x]
            BY <1>0, <1>1, <3>1, IssuedQueues
        <3>3. /\ DOMAIN call' = Channels /\ call'[c]["sender"] = Idle
              /\ \A x \in Channels : x # c => call'[x] = call[x]
            BY <1>0, <1>1, <3>1, Left
        <3>4. ChannelsFit'
            BY <1>0, <1>1, <1>2, <1>3, <3>1, <3>2, Returned, ZenonT(30) DEF SizesSet
        <3>5. OnlyChannel(c)
            BY <3>1, <3>2, <3>3 DEF OnlyChannel
        <3>6. sent[c] < MaxSent /\ MaxSent \in Nat
            BY <1>0, <3>1, TestAssumption DEF SharedInv
        <3>7. sent[c] + 1 \in 0 .. MaxSent
            BY <1>4, <3>6
        <3>8. /\ sent' \in [Shared -> 0 .. MaxSent] /\ sent'[c] = sent[c] + 1
              /\ \A x \in Shared : x # c => sent'[x] = sent[x]
            BY <1>2, <3>1, <3>7
        <3>9. SharedInv(c)'
            <4>1. cmds'[c]["to"] = <<>>
                BY <1>0, <3>2 DEF SharedInv, Directions
            <4>2. Len(cmds'[c]["from"]) = Len(cmds[c]["from"]) + 1
                BY <1>1, <3>2, PutOn
            <4>3. got'[c] + Len(cmds'[c]["from"]) + Len(ind'[c]) = sent'[c]
                <5> DEFINE g == got[c]
                           n == sent[c]
                           np == sent'[c]
                           a == Len(cmds[c]["from"])
                           b == Len(ind[c])
                           ap == Len(cmds'[c]["from"])
                <5>1. g \in Nat /\ a \in Nat /\ b \in Nat /\ ap = a + 1 /\ g + a + b = n /\ np = n + 1
                    BY <1>0, <1>4, <3>8, <4>2 DEF SharedInv
                <5>2. g + ap + b = np
                    <6> HIDE DEF g, n, np, a, b, ap
                    <6> QED BY <5>1
                <5> QED BY <3>1, <5>2
            <4>4. call'[c]["sender"] # "from"
                BY <3>3 DEF Idle
            <4> QED BY <3>3, <4>1, <4>3, <4>4 DEF SharedInv
        <3> QED BY <1>2, <3>1, <3>4, <3>5, <3>8, <3>9
    <2>3. CASE client_poll(c)
        <3>1. /\ checkIndications(c, "worker", cmds) /\ UNCHANGED sent
              /\ got' = [got EXCEPT ![c] = IF ind[c] # <<>> THEN got[c] + 1 ELSE got[c]]
            BY <2>3 DEF client_poll
        <3>2. Leave(c, "worker") /\ cmds' = cmds
            BY <3>1 DEF checkIndications
        <3>3. /\ ind' \in [Channels -> Seq(Directions)]
              /\ ind'[c] = IF ind[c] = <<>> THEN <<>> ELSE Tail(ind[c])
              /\ \A x \in Channels : x # c => ind'[x] = ind[x]
            BY <1>0, <1>1, <3>1, PollQueues
        <3>4. /\ DOMAIN call' = Channels /\ call'[c]["sender"] = call[c]["sender"]
              /\ \A x \in Channels : x # c => call'[x] = call[x]
            BY <1>0, <1>1, <3>2, Left
        <3>5. ChannelsFit'
            BY <1>0, <1>1, <1>2, <1>3, <3>2, <3>3, Returned, ZenonT(30) DEF SizesSet
        <3>6. OnlyChannel(c)
            BY <3>2, <3>3, <3>4 DEF OnlyChannel
        <3>7. /\ got'[c] \in 0 .. MaxSent
              /\ got'[c] + Len(cmds'[c]["from"]) + Len(ind'[c]) = sent[c]
            <4> DEFINE g == got[c]
                       n == sent[c]
                       gp == got'[c]
                       a == Len(cmds[c]["from"])
                       b == Len(ind[c])
                       bp == Len(ind'[c])
            <4>1. /\ g \in Nat /\ a \in Nat /\ b \in Nat /\ g + a + b = n /\ n \in 0 .. MaxSent
                  /\ MaxSent \in Nat
                BY <1>0, <1>4, TestAssumption DEF SharedInv
            <4>2. \/ gp = g /\ bp = b
                  \/ gp = g + 1 /\ bp = b - 1 /\ b > 0
                <5>1. CASE ind[c] = <<>>
                    BY <1>2, <3>1, <3>3, <5>1
                <5>2. CASE ind[c] # <<>>
                    <6>1. bp = b - 1 /\ b \in Nat \ {0}
                        BY <1>1, <3>3, <5>2, TakeOff
                    <6>2. gp = g + 1
                        BY <1>2, <3>1, <5>2
                    <6> QED BY <6>1, <6>2
                <5> QED BY <5>1, <5>2
            <4>3. gp \in 0 .. MaxSent /\ gp + a + bp = n
                <5> HIDE DEF g, n, gp, a, b, bp
                <5> QED BY <4>1, <4>2
            <4> QED BY <3>2, <4>3
        <3>8. /\ got' \in [Shared -> 0 .. MaxSent]
              /\ \A x \in Shared : x # c => got'[x] = got[x]
            <4>1. got'[c] = IF ind[c] # <<>> THEN got[c] + 1 ELSE got[c]
                BY <1>2, <3>1
            <4>2. got' = [got EXCEPT ![c] = got'[c]]
                BY <3>1, <4>1
            <4> QED BY <1>2, <3>7, <4>2
        <3>9. SharedInv(c)'
            BY <1>0, <3>1, <3>2, <3>4, <3>7 DEF SharedInv
        <3> QED BY <1>2, <3>1, <3>5, <3>6, <3>8, <3>9
    <2> QED BY <2>1, <2>2, <2>3
<1>6. TypeOK' /\ DOMAIN lock' = Channels /\ DOMAIN call' = Channels
    BY <1>0, <1>3, <1>5 DEF TypeOK, ChannelsFit
<1>7. ASSUME NEW x \in Workers PROVE WorkerInv(x)'
    <2>1. WorkerInv(x) /\ x # c
        BY <1>0, Types DEF IInv
    <2>2. Apart(x)
        BY <1>1, <1>3, <1>5, <2>1, Elsewhere
    <2> QED BY <1>0, <1>3, <2>1, <2>2, Frame
<1>8. ASSUME NEW x \in Shared PROVE SharedInv(x)'
    <2>1. CASE x # c
        <3>1. SharedInv(x) /\ x \in Channels
            BY <1>0, Types DEF IInv
        <3>2. SharedSame(x)
            BY <1>5, <2>1, <3>1 DEF OnlyChannel, SharedSame
        <3> QED BY <3>1, <3>2, SharedFrame
    <2> QED BY <1>5, <2>1
<1>9. started' => created' = Channels
    BY <1>3 DEF IInv
<1> QED BY <1>6, <1>7, <1>8, <1>9 DEF IInv

\* At the start there are no channels and nothing is under way.
LEMMA Initially == Init => IInv
<1> SUFFICES ASSUME Init PROVE IInv
    OBVIOUS
<1>1. TypeOK
    <2>1. ChannelTypeOK
        <3>1. size \in [Directions -> 0 .. BurstMod - 1]
            BY ChannelAssumption DEF Init, ChannelInit, Directions
        <3>2. /\ \A c \in Channels : lock[c] \in Threads[c] \cup {Nobody}
              /\ \A c \in Channels : call[c] \in
                    [Threads[c] -> Directions \cup {Idle, "poll", "wsize", "rsize"}]
            BY DEF Init, ChannelInit
        <3>3. /\ cmds \in [Channels -> [Directions -> Seq(0 .. BurstMod - 1)]]
              /\ ind \in [Channels -> Seq(Directions)]
            BY DEF Init, ChannelInit
        <3> QED BY <3>1, <3>2, <3>3, ZenonT(30) DEF ChannelTypeOK
    <2>2. sent \in [Shared -> 0 .. MaxSent] /\ got \in [Shared -> 0 .. MaxSent]
        BY TestAssumption DEF Init
    <2>3. /\ left \in [Workers -> [Directions -> Nat]]
          /\ total \in [Workers -> [Directions -> Nat]]
          /\ waitCount \in [Workers -> Nat] /\ phase \in [Workers -> 0 .. 2]
        BY DEF Init
    <2>4. /\ pc \in [Workers -> {"spin", "wsize", "rsize", "begin", "to", "from", "wait", "done"}]
          /\ opts \in Options /\ created \subseteq Channels /\ started \in BOOLEAN
        BY DEF Init
    <2> QED BY <2>1, <2>2, <2>3, <2>4 DEF TypeOK
<1>2. DOMAIN lock = Channels /\ DOMAIN call = Channels /\ started = FALSE
    BY DEF Init, ChannelInit
<1>3. ASSUME NEW c \in Workers PROVE WorkerInv(c)
    <2>1. /\ c \in Channels /\ "worker" \in Threads[c] /\ "to" \in Directions /\ "from" \in Directions
        BY <1>1, Types
    <2>2. /\ pc[c] = "spin" /\ phase[c] = 0 /\ waitCount[c] = 0
          /\ \A d \in Directions : left[c][d] = 0 /\ total[c][d] = 0 /\ cmds[c][d] = <<>>
          /\ ind[c] = <<>> /\ call[c]["worker"] = Idle
        BY <2>1 DEF Init, ChannelInit
    <2>3. PlaceInv(c) /\ CallInv(c) /\ SizeInv(c)
        BY <2>1, <2>2 DEF PlaceInv, CallInv, SizeInv, Inside
    <2>4. FlightInv(c)
        <3>1. Planned(c, "to") = 0 /\ Planned(c, "from") = 0
            BY <2>2 DEF Planned, Reached, Inside
        <3>2. Len(cmds[c]["to"]) = 0 /\ Len(cmds[c]["from"]) = 0 /\ Len(ind[c]) = 0
            BY <2>1, <2>2
        <3>3. waitCount[c] = Len(cmds[c]["to"]) + Len(cmds[c]["from"]) + Len(ind[c])
            BY <2>2, <3>2
        <3>4. \A d \in Directions : total[c][d] + left[c][d] = Planned(c, d)
            BY <2>2, <3>1 DEF Directions
        <3>5. /\ \A d \in Directions : ~(left[c][d] > 0) /\ cmds[c][d] = <<>>
              /\ \A k \in DOMAIN ind[c] : FALSE
            BY <2>2
        <3> QED BY <3>3, <3>4, <3>5 DEF FlightInv
    <2> QED BY <2>3, <2>4 DEF WorkerInv
<1>4. ASSUME NEW c \in Shared PROVE SharedInv(c)
    <2>1. c \in Channels /\ "sender" \in Threads[c] /\ "to" \in Directions /\ "from" \in Directions
        BY <1>1, Types
    <2>2. /\ got[c] = 0 /\ sent[c] = 0 /\ call[c]["sender"] = Idle
          /\ cmds[c]["to"] = <<>> /\ cmds[c]["from"] = <<>> /\ ind[c] = <<>>
        BY <2>1 DEF Init, ChannelInit
    <2> QED BY <2>2 DEF SharedInv, Idle
<1> QED BY <1>1, <1>2, <1>3, <1>4 DEF IInv

\* The invariant holds of every behaviour of the program.
THEOREM Invariance == Spec => []IInv
<1>1. IInv /\ [Next]_vars => IInv'
    <2> SUFFICES ASSUME IInv, [Next]_vars PROVE IInv'
        OBVIOUS
    <2>1. CASE UNCHANGED vars
        <3>1. UNCHANGED <<size, lock, call, cmds, ind, opts, created, started, pc, phase, left,
                          waitCount, total, sent, got>>
            BY <2>1 DEF vars, channelVars, main, worker
        <3>2. ASSUME NEW x \in Workers PROVE WorkerInv(x)'
            BY <3>1, Frame DEF IInv, Apart
        <3>3. ASSUME NEW x \in Shared PROVE SharedInv(x)'
            BY <3>1, SharedFrame DEF IInv, SharedSame
        <3> QED BY <3>1, <3>2, <3>3, ZenonT(30) DEF IInv, TypeOK, ChannelTypeOK
    <2> QED BY <2>1, MainPreserves, RunPreserves, ClientPreserves, EnginePreserves DEF Next
<1> QED BY <1>1, Initially, PTL DEF Spec

\* waitCount counts what is under way, so that the poll of a worker, which has
\* no timeout in src/sw/dmac.cpp, always has something to wait for.
THEOREM WaitCounts == Spec => []WaitCountExact
<1>1. IInv => WaitCountExact
    BY DEF IInv, WorkerInv, FlightInv, WaitCountExact
<1> QED BY <1>1, Invariance, PTL

\* Every worker issues as many transfers as it was asked to, the reads all
\* done before the first write.
THEOREM Iterations == Spec => []ExactlyNumIters
<1>1. IInv => ExactlyNumIters
    <2> SUFFICES ASSUME IInv, NEW c \in Workers
                 PROVE  /\ total[c]["from"] > 0 /\ opts.doRead =>
                                total[c]["to"] = opts.numIters /\ cmds[c]["to"] = <<>>
                        /\ pc[c] = "done" =>
                                /\ total[c]["to"] = IF opts.doRead THEN opts.numIters ELSE 0
                                /\ total[c]["from"] = IF opts.doWrite THEN opts.numIters ELSE 0
        BY DEF ExactlyNumIters
    <2>1. /\ PlaceInv(c) /\ FlightInv(c) /\ TypeOK
          /\ total[c]["to"] \in Nat /\ left[c]["to"] \in Nat
          /\ total[c]["from"] \in Nat /\ left[c]["from"] \in Nat /\ phase[c] \in 0 .. 2
          /\ "to" \in Directions /\ "from" \in Directions /\ opts.numIters \in Nat
        BY Types DEF IInv, WorkerInv
    <2>2. /\ total[c]["to"] + left[c]["to"] = Planned(c, "to")
          /\ total[c]["from"] + left[c]["from"] = Planned(c, "from")
        BY <2>1 DEF FlightInv
    <2>3. ASSUME total[c]["from"] > 0, opts.doRead
          PROVE  total[c]["to"] = opts.numIters /\ cmds[c]["to"] = <<>>
        <3>1. Planned(c, "from") > 0
            BY <2>1, <2>2, <2>3
        <3>2. phase[c] > 0
            BY <2>1, <3>1 DEF Planned, Reached
        <3>3. "to" # Dir(phase[c])
            BY <2>1, <3>2 DEF Dir
        <3>4. left[c]["to"] = 0 /\ cmds[c]["to"] = <<>>
            BY <2>1, <3>3 DEF FlightInv
        <3>5. Planned(c, "to") = opts.numIters
            BY <2>3, <3>2 DEF Planned, Reached, Asked
        <3> QED BY <2>1, <2>2, <3>4, <3>5
    <2>4. ASSUME pc[c] = "done"
          PROVE  /\ total[c]["to"] = IF opts.doRead THEN opts.numIters ELSE 0
                 /\ total[c]["from"] = IF opts.doWrite THEN opts.numIters ELSE 0
        <3>1. phase[c] = 2 /\ ~Inside(c)
            BY <2>1, <2>4 DEF PlaceInv, Inside
        <3>2. left[c]["to"] = 0 /\ left[c]["from"] = 0
            BY <2>1, <3>1 DEF FlightInv
        <3>3. Planned(c, "to") = Asked("to") /\ Planned(c, "from") = Asked("from")
            BY <3>1 DEF Planned, Reached
        <3>4. total[c]["to"] = Asked("to") /\ total[c]["from"] = Asked("from")
            BY <2>1, <2>2, <3>2, <3>3
        <3> QED BY <3>4 DEF Asked
    <2> QED BY <2>3, <2>4
<1> QED BY <1>1, Invariance, PTL

\* Every burst of a worker has the size that was asked for, although all
\* channels share the size registers, or the low bits of it that they hold.
THEOREM Bursts == Spec => []BurstAsConfigured
<1>1. IInv => BurstAsConfigured
    <2>1. SUFFICES ASSUME IInv, NEW c \in Workers
          PROVE  /\ \A k \in DOMAIN cmds[c]["to"] : AsAsked(cmds[c]["to"][k], opts.r)
                 /\ \A k \in DOMAIN cmds[c]["from"] : AsAsked(cmds[c]["from"][k], opts.w)
        BY DEF BurstAsConfigured
    <2>2. SizeInv(c) /\ TypeOK
        BY <2>1 DEF IInv, WorkerInv
    <2>3. opts.r \in Nat /\ opts.w \in Nat
        BY <2>2, TestAssumption DEF TypeOK
    <2>4. AsAsked(Held(opts.r), opts.r) /\ AsAsked(Held(opts.w), opts.w)
        BY <2>3, HeldSizes
    <2> QED BY <2>2, <2>4 DEF SizeInv
<1> QED BY <1>1, Invariance, PTL
=============================================================================

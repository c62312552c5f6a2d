# TLA+ models of sonic-lite

sonic-lite is an FPGA network card and switch written in Bluespec, with a Linux
daemon beside it.  Its own core logic is the Datacenter Time Protocol (DTP): two
ports at the ends of a link keep their counters together by messages hidden in
idle Ethernet blocks.  Around it are a packet generator, DMA channels, a transmit
path for DPDK and Paxos in the data plane.  This directory holds TLA+ models of
these, the TLC configurations that check them, and TLAPS proofs of the results
that matter most.

Paths below are relative to `src/`.

## 1. Inventory

| Part | State | Operations | Talks to |
|---|---|---|---|
| DTP port (`hw/bsv/DtpTx.bsv`, `DtpRx.bsv`, `Dtpm.bsv`) | `c_local`, `delay`, `curr_state`, timeout counters, `jumpCount`, about 30 small FIFOs | one Bluespec rule per pipeline stage, all in one clock cycle | the peer port by idle blocks; the controller by FIFOs |
| DTP switch (`DtpSwitch.bsv`, switch rules of `DtpTx.bsv`) | `c_global` | maximum of the ports' counters, handed back to the ports | the ports |
| DTP controller (`DtpController.bsv`) | write and read queues of the logger, `lwstate`, register snapshots, reset counter | the methods of the host API, `log_from_host_cycle`, `save_host_data`, `clearOnReset` | the host by the Connectal portal; the ports by synchronising FIFOs |
| DTP daemon (`sw/daemon/kernel.c`, `dtp_portal.c`, older: `dtp.c`) | module parameters, `dtp_priv`, the shared page `dtp_time`, kernel resources | the thread, `/proc/dtp`, the device, load and unload | the board by the words of the portal; user space by the page |
| page reader (`sw/daemon/dtp_user.c`) | a private copy of the page | `__loop` | the page only |
| DMA channels (`dmac/cpp`, `sw/dmac.cpp`, `DmaController.bsv`) | `channel_lock`, the burst size registers, command queues; the test's `waitCount` | transfers, polls, callbacks | the engines; several threads |
| SoNIC for DPDK (`sonic/cpp/dpdk.cpp`, `sonic/SonicTop.bsv`) | `tx_credit`, `newTxDesc`, descriptor queues, freed credits; the MMU's table | registration of memory, sending, credit write-back, receiving | driver threads, poller, MMU; the transmitter is looped into the receiver |
| packet generator (`dtp/examples/pktgen*`, `sw/lpcap.c`, `PktGen.bsv`, `PacketBuffer.bsv`) | the trace in a ring, `pktCount`, `traceLen`, idle counters | load, start, stop; send and write back; drain | the host API; the MAC |
| Paxos data plane (`p4/examples/paxos`) | per-instance registers round, vround, value; sequence number; role | match-action tables as pipeline stages | packets; the host API |
| packet buffers (`PacketBuffer`, `StoreAndForward`, `SharedBuff*`, `MemMgmt`) | ring and free-list pointers, in-flight requests | write, commit, read, free | MAC, DMA, memory |
| scheduler (`scheduler/bsv`) | schedule table, ring buffers | slot-wise send, store and forward | MAC, DMA |
| PCS (`BlockSync`, `Encoder`, `Decoder`, scramblers) | lock state, scrambler state | one block per cycle | PMA, MAC |

`PROJECT.json` lists every part under "components" with its status.

What is hard here.  *In the port*: a beacon is sampled against `c_local` two
cycles before it lands; `delay` is read twice on the way; link glitches drain
the pipeline and clear the counter; one-entry FIFOs drop timestamps; an ack
without a timestamp blocks the transmit path.  *In the logger*: a message
travels as two halves that only their order ties together, with losses and
resets in between.  *In the daemon*: commands, board, thread and reader run
concurrently with no lock but a flag; any call of loading may fail; an answer
read too early shifts all later ones.  *In the programs*: counters of transfers
and credits are changed by callbacks and by several threads.  *In the Paxos
pipeline*: a register is read and written back stages apart.  The hazards are listed one by one, at
their lines and with the properties aimed at them, in `PROJECT.json`.

## 2. Modules

| Module | Models | Proofs |
|---|---|---|
| `DtpCounter` | receive pipeline of a port in NIC mode | `DtpCounter_proofs` |
| `DtpHandshake` | two ports, the link, delay measurement and the way to SYNC | `DtpHandshake_proofs` |
| `DtpLog` | abstract specification of the log: whole messages, in order | - |
| `DtpLogger` | the log from one controller to the other; implements `DtpLog` | `DtpLogger_proofs` |
| `DtpDaemon` | kernel thread, shared page, `/proc/dtp`, portal | in `DtpUser_proofs` |
| `DtpUser` | the page reader, composed with `DtpDaemon` | `DtpUser_proofs` |
| `DtpPortal` | requests and answers of the daemon, word by word | in `DtpModule_proofs` |
| `DtpModule` | loading and unloading of the kernel module, old and new, composed with `DtpPortal`, the thread and clients | `DtpModule_proofs` |
| `DmaChannel` | the DMA channel library and the command queues of the engines | in `DmaTest_proofs` |
| `DmaTest` | the DMA test program on `DmaChannel`, with a second client | `DmaTest_proofs` |
| `SonicDpdk` | registration of packet memory, transmit credits, room and descriptors of the receiver | `SonicDpdk_proofs` |
| `PktGen` | the packet generator, program and board | - |
| `PaxosAcceptor` | abstract specification of an acceptor | - |
| `PaxosIngress` | acceptor, coordinator, forwarder; implements `PaxosAcceptor` | `PaxosIngress_proofs` |

`MC*` modules and `.cfg` files give the constants and bounds; every bound on a
counter is a state or action constraint named there and touches no definition.

### DtpCounter

One step is one clock cycle, because Bluespec rules that do not conflict fire
together.  All rules of the pipeline fire whenever their input is there, so the
two-entry FIFOs between stages hold at most last cycle's entry; each is a
register here, and the queues always written and read together are one register
with several fields (`compareFifo`, `outputFifo`).  Event lane and compare lane
stay separate: that they agree (`LanesAligned`) is a property and not an
assumption.  Five kinds of cycle exist: a beacon, no relevant event, an ack that
changes `delay`, and a cycle in which `rx_stage1` cannot fire, with `rx_ready`
high (only `tx_ready` fell) or low.  The peer is a counter that grows by any
member of `Skips`; its beacons carry increasing timestamps.

`unsettled` is a history variable, not code.  It marks the three situations in
which the pipeline does move the counter backwards: a beacon sampled while the
pipeline refills (`c_local` stands still but is extrapolated), one for which
`delay` shrank between its two reads, and one under way while `rx_ready` cleared
`c_local`.  `NeverBackwards` says there are no others.  Counters are naturals: at
one increment every 6.4 ns the 53-bit registers do not wrap in the life of a board.

### DtpHandshake

One step is one clock cycle of two ports on one clock, as in the test bench
`hw/tests/test_dtpm`.  Within the cycle the order is the one that wires and
bypass FIFOs impose: `rx_stage1`, `tx_stage1`, `delay_measurment` or `beacon`,
the state rule, `tx_stage2`.  A bypass FIFO shows an entry in the cycle of its
enqueue, but its `notFull` is the one at the beginning of the cycle.  The
environment chooses in each cycle whether the block to send is idle, part of a
packet, or idle but taken by a log half; at most `MaxBusy` unusable blocks come
in a row.  An init may be lost: it carries the cycle register with the parity bit
of `c_local`, and `DtpRx` drops it when the two differ.  `tokens` stands for
`dmFifo` and `cfFifo`, which are filled by the same rule and emptied one by one
by the rules that need them.  The two timeouts are counters of their own, as in
the code: `timeout_count_init` runs in INIT and SENT and starts again with each
init, `timeout_count_sync` runs in SYNC, starts there at 0 and again with each
beacon.

The models rest on the compiler flag `-aggressive-conditions` for `tx_stage2`:
the guards of `initTimestampFifo` count only in the branch that reads it.
Without that the rule could never fire while no init is waiting to be answered,
and no port would ever transmit.

The transceivers come up once and stay up; the retry after a link failure starts
with the PHY's reset and so from `Init`.

### DtpLogger and DtpLog

A message is a number; both halves carry it, so that an answer shows whether its
halves belong together, and a message is *whole* if they do.  Nothing is said of
its bits: the controller cuts the 64 bits of each half to 52
(`DtpController.bsv:259` and `268`), where `doc/DTP.md` speaks of 56.  Queues back to back are one queue of their joint length
(the synchronising FIFO and the FIFO in `DtpTx`), which keeps exactly their
order and their total capacity.  A half leaves by `Transmit` (kept or dropped
according to the room in `toHost`) or by `TransmitLost` (peer not ready).
`dtp_reset` of either board is one step: during the pulse no rule of the logger
fires.  What it leaves alone, `lwstate` and the synchronising FIFO towards the
host, is left alone in the model.

`DtpLog` is the promise: per port a queue from which whole messages come in
order, until a half is lost (`torn`); after that it promises nothing.  The
refinement mapping takes the second halves under way, wherever they are, as the
queue: the read queue, the link's and the write queue's entries of the port, in
this order.  Entries of one port are picked out of a queue of all ports by position
(`InOrder` numbers them, `DataAt` reads them off).

### DtpDaemon

Every access of the thread to the page or to the portal is a step, so commands,
answers and readers come between any two of them.  A counter sample is the number
of the round in which it was taken, the numbers that user space compares.  The
requests and answers of `dtp_logger_read_cnt` are queues; the board (`Serve`) is
the controller's method, arrivals are the peer's.  Stores that no reader can tell
apart are one step: `flag = 1` with `log_cnt = 0`, and an entry with its
`log_cnt++`.

The loop in `dtp_update_configs` ends at `DTP_PORT_NUM` and so never copies the
entry of the global counter, although `dtp_proc_write` accepts a command for it;
`Updated` does the same.

`dtp_update_states` reads the state of each port; that is an arbitrary choice
here, since the handshake is a model of its own.  Parsing of commands is reduced
to its outcome, a member of `AllCommands`; refused commands change nothing and
need no action.

### DtpUser

The reader's loop, one step per counter and per entry copied, composed with
the daemon by interleaving.  The copy of one entry is one step: a finer one could
only differ if the daemon rewrote the entry meanwhile, which a pass that is not
`overtaken` does not survive anyway.  Loads and stores happen in program order, as
on the x86 hosts the daemon is written for (it uses `rdtsc`).

The flag is no sequence counter: a whole round of the daemon between its two reads
goes unnoticed, and a reader that slow prints a mixture of two rounds.
`AcceptsWhole` says that nothing else makes it do so.

### DtpPortal and DtpModule

Each method has a FIFO for the words of its requests and, if it answers, one for
the words of its answers.  `Reads` and `Written` are the C side, `DtpRequest` and
`DtpIndication` the widths on the board; that they agree, method by method, is
what `RequestsArrive` and `AnswersBelong` find out.  For the methods in
`LateMethods` the board may answer after the daemon has read; the word read
then is arbitrary, and the method is `late` from there on: its later calls
return words of earlier answers, in the next load of the module as well, and
nothing is promised of them.  Only `dtp_read_message` looks first, and is right
however late the answers are.

`Meant` is what a call says on the C side: a port and a value.  `Effect` is what the
method of the controller does with the words that reach it.  They are the same but for
three methods, which `RequestsArrive` names: `dtp_set_cnt` is empty on the board;
`dtp_read_cnt` answers with the board's cycle counter, whatever the port; and
`dtp_reset(port)` (`dtp_portal.c:82`) sends its port as the length of the reset pulse,
`dtp_reset(Bit#(32) len)` (`DtpController.bsv:357`), which resets all ports.  `doc/DTP.md:13` has it
the board's way, `kernel.c` the other: `__test` calls it once per port, and a check of
the number that `reset=` is given, disabled, says "Unknown port number".  Any 32-bit number
gets to the board by `/proc/dtp`; a length is cut to 28 bits (`ResetMod`) and is at
least 32 cycles (`MinReset`), so for a port it is the shortest.

`DtpModule` has one step per call of `dtp_init` into the kernel, each of which may
fail, the error labels as the table `Label`, and one step per call of `dtp_exit`.
`dtp.c` is a second table, chosen at each load; its thread reads the answers of its first
channel, the version, with two words where the board sends one (`ReadAs`), and so
is out of step with them (`late`) at once.  Clients open, map and close the
device and read `/proc/dtp` at any time at which the kernel lets them.  Four failures
are not reported, and then the module counts as loaded; `kthread_stop` of a thread
that is not there is a crash (`mod = "crashed"`), after which only a reboot helps.
The model also reaches a mapping of address 0 (the device exists before the page)
and a device left open by a load that failed later; both are in the code, and neither is
excluded by a property: `AllOrNothing` is about what the module itself has allocated.

A round of the thread makes up to `RoundCalls` calls (a bound), except that the loop of
`dtp_recv_log` (`kernel.c:166`) goes round again after each message that it finds, with no
bound.

### DmaChannel and DmaTest

A call of a channel is two steps, taking `channel_lock` and the function.  Channels
in `Shared` have a lock, those in `Blocking` are of `sw/dmac.cpp`, whose poll has no
timeout.  The callbacks run inside the poll and issue the next transfer.  The
program's channels have no lock and one thread each; a shared channel belongs to an
external client with two threads, whose callbacks only count.  (A callback that
issues a transfer on a channel with a lock would wait for itself, and a poll without
timeout on a shared channel would shut out the thread that is to transfer.)

The burst size registers have `BurstLenSize` bits and truncate what they are sent
(`DmaController.bsv:111`, `173-178`).  `dmac/Makefile:25` has the definition of that width commented
out, which leaves the default of the Connectal library, 10 bits: the largest
size that `Capped` lets pass, 1024, becomes 0, although `setReadRequestSize` returns 1024.
`BurstMod` is 2 to that width, 1024 in the run, which asks for 512 (kept) and 2048 (cut to
1024, and to 0).  `BurstAsConfigured` says that each transfer runs with the size asked for as
far as the register holds it.

### SonicDpdk

First the entries and borders of the packet memory are sent to the MMU, an external
queue; `init` waits for its confirmation only if the identifier that it was given
is 0, because it takes the identifier for an error code.  Then threads look at the
credit, send and pay, in separate critical sections; `Store` makes load and store
of `tx_credit` two steps, so that the mutex is needed.  The page number of an
entry is computed in an `int`: from 2 GB on (`HalfPages`) its sign covers the
identifier, and `TransfersTranslate` is about the pages below.  An access of a page of
the only size in use always meets the first border, so that the wrap of `idxOffset`, an
unsigned char, at the other borders is in the table but never used.

`mkSonicTop` loops what it transmits into its own receiver (`SonicTop.bsv:312`).  Of this the
model has what can hold up the transmitter: a packet needs room (`RxRoom`: the 16
lengths of `fifoLen`, and the packets whose end waits in the FIFOs before it), and makes
room when it is written to the memory of a receive descriptor, of which the driver
posts as many as it likes, or none.  Data and metadata of what is received, and
`resetWrite`, are left out, and so is the memory of the packet buffer: `RxRoom` packets
are taken to fit its 16 KB, which large ones do not, so that the transmitter may stand
still with fewer packets waiting; the property is the same.

### PktGen

A beat is 16 bytes.  The stages of `PacketBuffer` are merged: a `put` writes the memory
and a `get` reads it.  Packets have two beats or more and traces fit the buffer, with
`caplen = len`: a longer trace blocks the loading or overwrites its beginning, and a
packet of one beat is not ended.  A rate above `LINK_SPEED` or an empty trace is not
checked by `main` and not modelled.

The generator hands over a beat of 16 bytes a cycle (`enqueue_packet`) and counts idle
time at 8 bytes a cycle (`wait_ipg`), the speed of the link at 156.25 MHz; comments speak of
16 (`PktGen.bsv:39`, `lpcap.c:106`).  So a packet takes half of its time on the link, and
the rate asked for is exceeded: packets of 64 bytes at rate 5 of 10 take 4 cycles and 10 idle
ones, where the rate would need 16, and TLC refutes the rate itself.  `RateBounded`
says how far this goes: at a rate `r` of `L`, at most `1 / (1 - r / 2L)` times what was asked,
which is never more than twice.  At rates above two thirds of the link the generator thus
produces more than the link takes, and the store-and-forward buffer behind it has to hold
it up, which the model leaves out.

### PaxosIngress and PaxosAcceptor

`mkIngress` with one action per rule or chain of rules.  A register request takes
effect when it enters the queue of `mkP4Register` (`loadRequest`), which is in order.
An instance is taken modulo `InstanceCount`, so that two of them share a register.
The entries of the tables and the initial registers are those of `test.cpp`; it
clears the first 32 of the 1024 entries of each register, and the others are
taken to be 0 as well.

`PaxosAcceptor` handles a message in one step.  The mapping counts a packet as
handled when its entry of `acceptorTable` is found and its block gets it.  A register is
the one that the packet which is still to write it (`Pending`) will leave
(`Effective`), and the answers are those in `out` and, for each entry of
`bbMetadataFifo`, the one it is due (`Due`): the block's answer at the same position if
there is one, else what the block has read so far with the registers.  It holds until
`torn`, of which there are two reasons, and TLC refutes the refinement if either is
left out: `Hurried`, a packet reads the round of a slot while another one of the slot is
between its own reading and its last write, so that both pass and the older round
may overwrite the newer promise; and `Mixed`, a packet goes to the block of 1A or
2A while the other block has not answered, so that the answers leave in another
order than the metadata.  Replies leave before their writes have entered the
registers.  The coordinator likewise gives an instance twice if a packet reads the
register before the one ahead has written it (`rushed`).  Nothing reads
`currPacketFifo`, so that coordinator and forwarder stop after `FifoDepth` packets.
An entry with the action Drop would block the table, for its basic block never
answers; `test.cpp` adds none.

## 3. Runs

| Run | Checks | Bounds |
|---|---|---|
| `counter` | `TypeOK`, `LanesAligned`, `NeverBackwards`, `EveryJumpCounted` | delays 0, 1, 3; skips 0, 2; counters to 10: room for several jumps in a pipeline three deep |
| `handshake_delay` | `TypeOK`, `NeverUnderestimates`, `SyncIsMeasured` | latency 4, intervals 4, clock to 22: three inits of each port, with acks overlapping the next init |
| `handshake_control` | `AcksHaveStamps`, `EventuallySync` | latency 3, intervals 4 and 6, single unusable blocks of the second port, timestamps abstracted (`CycleMod = TimeMod = 1`), so the state space is finite with no bound on time |
| `logger` | `TypeOK`, `JamNeedsLosses`, `ImplementsLog`, `EventuallyRead` | two ports, queues of 2 or 3, four messages: every queue fills; fairness |
| `daemon` | `TypeOK`, `EntriesInOrder`, `ParamsTakeEffect` | two ports, a page smaller than what arrives, one command of each sort; fairness |
| `daemon_start` | `StartTakesEffect` (violated) | minimal |
| `user` | `UserTypeOK`, `AcceptsWhole`, `PrintsForward` | one port and the global counter, two log entries, two rounds |
| `module` | `AllOrNothing`, `NothingUsedAfterFree`, `RequestsArrive`, `AnswersBelong`, `UnloadEnds` | two ports, words of two bits and values with a high and one with a low half, each method alone (the FIFOs are independent), two requests queued, a FIFO that holds one message, reset lengths on both sides of the shortest and of the cut, late answers of one method that looks first and one that does not, one client, rounds of one call and any number of messages, any number of loads |
| `dma` | `WaitCountExact`, `ExactlyNumIters`, `BurstAsConfigured`, `AllComplete` | three channels: a worker with timeout, one without, one shared channel; all combinations of `-r` and `-w`, no or two iterations, one size that the registers hold and one above the limit |
| `dpdk` | `CreditsConserved`, `OverdraftBounded`, `TransfersTranslate`, `CreditComesBack` | two senders, bursts of up to 2, credit 2, threshold 2, five packets: overdraft, a full credit FIFO, both ways of write-back; room for one packet in the receiver and one receive descriptor at a time; memory below and across the overflow |
| `pktgen` | `BufferHoldsTrace`, `ReplaysTrace`, `RateBounded`, `ExactlyCount`, `RunEnds` | words of two bytes, three traces of one to three packets, four rates, none to four packets, two runs after each other |
| `paxos` | `InstancesDistinct`, `ImplementsAcceptor`, `PacketsLeave` | three packets out of five messages: two rounds of one slot, two instances that share it, another slot, and a message without entry |

The type invariants of the last five runs are conjuncts of the first invariant named
there (of `NothingUsedAfterFree` in `module`).  `CHECK_DEADLOCK FALSE` in `dpdk`, `pktgen` and
`paxos`: all packets of the bound are through.  Each property of a passing run has a
mutant of the model, kept beside the definition it mutates and marked as such, that
breaks it.

### What the runs show besides

* `StartTakesEffect` is violated: the thread skips `dtp_update_configs` while stopped,
  so `start` has no effect.
* `jumpCount` is the number of beacons that won, not of jumps: two beacons in adjacent
  cycles count one jump twice.  `EveryJumpCounted` is the direction that holds.
* After one half of a log message is lost, answers pair halves of different messages
  until the next reset; `ImplementsLog` holds up to the loss.
* A late answer is entered under the number of the port polled next, because
  `kernel.c` drops the port in the answer.

### Fairness

`DtpHandshake`: the clock runs, idle blocks come again and again, and the
transceivers come up.  `EventuallySync` moreover assumes, in its statement, that
from some time on the lines are idle and no init is lost; nothing guarantees that
an init is ever accepted otherwise.  The parity check can lose every second init, and
then, by the alternation described below, the port never gets to SYNC.

Both properties of `handshake_control` depend on the intervals, and the run says
where they hold, not that they always do:

* `EventuallySync`.  A port resends its init every `Interval + 1` cycles (the
  timeout is `> interval - 1`), a port in SYNC sends a beacon every `Interval` cycles
  (`>= interval - 1`), and a due beacon takes precedence over an init received in
  the same cycle.  Of the inits only every second one counts: it moves its port from
  INIT to SENT, the next one back to INIT, where an ack is ignored.  So if the beacons'
  period of one port divides twice the inits' period of the other, all inits that count
  can meet a due beacon.  TLC finds the property violated in these cases, 4 and 5 for
  instance, and holding for 4 and 4, 4 and 6, 4 and 8, 3 and 3, 3 and 6, 5 and 5, 6 and 6, with
  single unusable blocks of one port; with no such blocks it was tried for all intervals
  from 2 to 8 (there 4 and 5, or any two in a row, happen to be good).  1000 (the
  reset value) and 250, 500 and 750 (set by the daemon) are good in every pair.
* `AcksHaveStamps`.  If an ack is held up by unusable blocks until the next init
  arrives, the second timestamp is dropped but the second ack is not, and the
  latter blocks `tx_stage2`, packets included, until one more init arrives, or for
  ever if the peer has reached SYNC with the first.  Single
  unusable blocks of both ports and the intervals 4 to 8 that were tried (latency 3) exclude that; with an
  interval of 3, or runs of two such blocks and intervals of 4 to 6, TLC finds it.  The theorem `Stamps` says how long
  intervals exclude it for good (section 4): for two ports alike, five times the longest
  distance of two idle blocks that carry no log message.  With the 1000 of reset that is
  200 blocks: frames of 1518 bytes with an idle block after each; with the daemon's 250 it is 50,
  where the theorem says nothing of full-size frames.

`DtpLogger`: the rules fire when they can (Bluespec's scheduler), links carry
idle blocks between packets, and the daemon polls.  `DtpDaemon`: the thread is
woken every second and the board answers.  `ParamsTakeEffect` needs arrivals to
end, since the loop in `dtp_recv_log` does; the run bounds them.

`DtpModule`: the kernel carries on with `dtp_exit`, handlers of `/proc` return, the board
answers, and the thread goes on: with the next word of a call, to sleep when it has no
call to make, and awake.  All of it is weak fairness, and none of it ends the loop that
drains the log: while messages are found one after the other the thread does not sleep,
and `kthread_stop`, hence `dtp_exit`, waits.  `UnloadEnds` names that as the one exception
(`[]<>MessageFound`); without it TLC refutes the property.  `DmaTest` and
`SonicDpdk`: threads are scheduled and the engines work; a thread that waits for a
mutex gets it some time (strong fairness), as glibc's mutexes give in practice: they
promise no order, but here the holder goes out of the lock between any two calls.
In `SonicDpdk` nobody has to post receive descriptors: `CreditComesBack` holds of behaviours
in which the receiver is not without room and descriptors for ever (`Starved`), and TLC
refutes it of the others.
`PktGen`: rules that can fire do, and the program goes on.
`PaxosIngress`: some rule fires as long as one can; each takes a packet further, so
more is not needed.

## 4. Proofs

Each theorem is about every value of the constants that the module's `ASSUME` admits:
any number of ports, threads, clients and channels, any depth of the queues, any width
of words and counters.  A theorem `Spec => []P` follows from an inductive invariant,
called `IInv` unless said otherwise, that starts in `Init`, is kept by each action (a
lemma per action) and implies `P`.  All these invariants were first checked by TLC on
the runs' instances.

**`DtpCounter_proofs`**: `Invariance`, `Types`, `Alignment`, `Monotonicity`, `JumpsCounted`
(`TypeOK`, `LanesAligned`, `NeverBackwards`, `EveryJumpCounted`).  `IInv` joins the types,
the lanes and `InFlightOrder`.  `NeverBackwards` is not inductive: whether a beacon that
lands is above `c_local` was decided when it was sampled, so the invariant has to say,
for a beacon at each of the two stages, how its two candidates relate to `c_local`, and
for two beacons in a row that the later offers no less.

**`DtpHandshake_proofs`**: `Types`, `Underestimates`, `SyncMeasured`, `Stamps`, `Undelayed` (`TypeOK`,
`NeverUnderestimates`, `SyncIsMeasured`, `AcksHaveStamps`).  The argument follows an init across the link
and back as an ack: a message at position `i` of the link left its port at least
`Latency - i` cycles ago (an ack, `2 * Latency - i`), and the one-entry timestamp FIFOs
hold stamps that are as old as the places they have passed (`Old`), so what is measured is
at least `Latency - 2` (`Measured`).  Which timestamp a FIFO dropped does not matter,
only that it never holds a younger one.  The types (`Parts`) are proved for all
behaviours, the other two as long as the cycle register has not wrapped
(`[](cycle < CycleMod - 1)`).

`Stamps` is about time, not timestamps, and needs no such bound.  `Wait` is the number of
cycles after which a message has left `txMuxSelFifo`, whatever blocks come; it falls with every
cycle (`WaitShrinks`), which needs that the flow of blocks has not stopped (`Flows`), which in
turn is what is to be proved (and what `Undelayed` states: at most one block is between the
two transmit stages, so the handshake never holds up a packet).  The invariant (`Paced`) compares it with the place of the peer's next
init: on the link (`BeforeArrival`), in the peer's `txMuxSelFifo` (`BeforeSent`), or not yet due
(`BeforeTimeout`).  Inits are far enough apart (`Apart`, `ApartFromNext`) because the timeout
counter, reset when an init is selected, is known for an init that waits (`Fresh`) and for one
on the link (`Recent`).  The hypothesis (`Unhurried`) is that `Interval[p]` is at least
`2 * Gap(p) + 3 * Gap(Peer(p))`, `Gap` being `MaxBusy + 1`: an init waits behind at most one ack, an
ack behind at most two other messages.  It is sufficient and not necessary: the run
`handshake_control` is outside of it and has no such ack either.

**`DtpLogger_proofs`**: `Invariance`, `Types`, `Jams`, `Pairs`, `Refinement` (`TypeOK`,
`JamNeedsLosses`, `ImplementsLog`).  Every
first half counts as a step of 1, every second half as -1, and the halves on their way
from host to host are a walk (`Walk`) that starts at the difference of the two read
queues and ends at what is ahead in the write queues.  In step the walk stays within
1 of 0; a lost half moves the part behind it by one, so it stays within `1 + lost`; a reset
empties queues at both ends but leaves halves under way, and lets the walk go on from
another start.  `JamNeedsLosses` reads that off at the front.  That the queues of the two halves
stay aligned with `lwstate` (`Aligned`) is part of it.

`Refinement`: the logger implements `DtpLog`.  What it needs is `PairInv` (theorem `Pairs`):
as long as a port has lost no half, the row of its first halves from the reader to the
writer, read queue, link and write queue after each other, is that of its second halves,
but for the one half by which `lwstate` or the reader is ahead.  A step of the program
moves entries along the rows and leaves them as they are, or adds at the end, or takes
from the front, and these are the steps of `DtpLog`.  What `OfPort` picks out of a queue of
all ports is defined by positions and not by recursion, so that a lemma can say what an
entry added or removed does to it (`Upwards`, `Smallest`: the least element of a set of
positions takes the place of an induction over the queue).

**`DtpUser_proofs`**, about `DtpUser` and `DtpDaemon`: `UserInvariance`, `UserTypes`,
`DaemonTypes`, `EntriesOrdered`, `Snapshot`, `Forward` (`UserTypeOK`, `TypeOK`,
`EntriesInOrder`, `AcceptsWhole`, `PrintsForward`).  `IInv` has the types of both processes
(so neither the page nor the reader's array is overrun), the range of the thread's and the
reader's index, and `CopyInv`: what a pass has copied so far agrees with the page as long
as the page is not locked and was not unlocked during the pass.  `EntriesOrdered` has its
own invariant, `OrderInv`: the entries of a port in the page, in the responses and on the
board, in this order, are numbered upwards and below what has arrived.  `Forward` has
`PrintInv`.  Both hold up to the wrap of their numbers (`[](arrived < MsgMod - 1)`,
`[](round < RoundMod - 1)`).

**`DtpModule_proofs`**, about `DtpModule` and `DtpPortal`: `Loading`, `Freeing`, `Requests`,
`Answers` (`AllOrNothing`, `NothingUsedAfterFree`, `RequestsArrive`, `AnswersBelong`).

* `ModuleInv`: while `dtp_init` runs, what is held is what has been called for, but for
  failures it does not see; an error path holds at most what it has still to release, and
  returns 0 only after a failed board or `/proc` entry; `dtp_exit` likewise; and what is in use
  is held.  It is proved from the tables, whose necessary properties are lemmas
  (`InitTable`, `ErrorTable`, `ExitTable`, `LabelTable`), for `kernel.c` and `dtp.c` at once.
* `RequestInv`: the words in a request FIFO *mean* the requests queued, one, two or three
  words each; the board takes off exactly one request, and `Requests` says of each method
  what it does with it.
* `BelongInv`: for a method that was never late, the words in the FIFO are those of the
  answers given, less those read by the call under way, and what this call has put together
  so far is the first values of the first answer, the last perhaps only by its high half.
  A method other than `read_message` has one request or answer on its way while it is
  called, and none otherwise: that is what a late answer destroys, for good.

**`DmaTest_proofs`**, about `DmaTest` and `DmaChannel`: `Invariance`, `WaitCounts`,
`Iterations`, `Bursts` (`WaitCountExact`, `ExactlyNumIters`, `BurstAsConfigured`).  A worker's
invariant: inside a phase all its transfers, queued or indicated, are of the phase's
direction and as many as `waitCount`; those made and those left add up to what the phases so
far had to do; and as long as one is left to issue, one is under way, whose callback
issues it.  For the sizes: no constructor runs any more once a worker does, which is why all
of them setting the same two registers is harmless; what a register of any width holds of
a size is the size itself, if it is small enough, or its low bits (`HeldSizes`).

**`SonicDpdk_proofs`**: `Inductive`, `Conserved`, `Overdraft`, `Translate` (`CreditsConserved`,
`OverdraftBounded`, `TransfersTranslate`).  `CreditInv` is the account: `credit` plus what is
outstanding is `TxCredit` plus what was sent and is not yet paid for.  It is inductive only
with `ThreadInv`: who is between load and store of `tx_credit` holds the mutex and has
copied the present value.  `MmuInv` says how much of what the MMU was sent it has worked off,
`DescInv` that descriptors are of the memory it was told of.  Sums over threads and
queues are cardinalities (`Total`), so that one update of a share is a fact about finite
sets.

**`PaxosIngress_proofs`**: `Invariance`, `Instances`, `Steps`, `Refinement`
(`InstancesDistinct`, `ImplementsAcceptor`).  Until a packet
reads the register early (`rushed`), the instances given are 1, 2, 3, ..., and at
most one packet is between its read and its write; it holds the instance given last, or
will get the next.

`Refinement`: the pipeline implements `PaxosAcceptor`.  `StepsInv` (theorem `Steps`) says,
until `torn`, what makes it act one message at a time:

* `Apart`: no two packets between the read of a round and the last write are of one slot.
  The stages are six rows of slots (`Lines`), and every rule puts an entry on one of them,
  moves the first of one to the end of another, or takes it off; three lemmas about rows say
  that they stay apart (`Entered`, `MovedOn`, `WentOff`).
* `RoundsSeen`: hence nobody writes the register of a packet that has read it, and what it
  read is still true when it is compared and looked up.
* `Serves`: `bbMetadataFifo` is, in order, the answers, the job and the requests of one block.

The registers as they will be (`Effective`) then change when a packet is looked up, for
nothing of its slot is pending (`LookedUpWritten`), and no more when its requests enter the
register files (`LoadedSame`); and what is due to a packet changes neither by
the requests of others (`LoadedDue`) nor when its block takes it or answers (`HandledDue`,
`AnsweredDue`).  `AcceptorStep` puts this together rule by rule.

### Assumptions

`DelaysAssumption`, `SkipsAssumption`, `HandshakeAssumption`, `LoggerAssumption`,
`DaemonAssumption`, `PortalAssumption`, `ModuleAssumption`, `ChannelAssumption`, `TestAssumption`,
`DpdkAssumption`, `PaxosAssumption` give the constants their types and exclude queues and
sets of size 0.  Beyond that:

* `HandshakeAssumption`: the link takes at least 3 cycles (the code subtracts 3), and the
  cycle register is not wider than a timestamp.
* `LoggerAssumption`: the synchronising FIFO that outlives a reset is part of `toHost`.
* `PortalAssumption`: ports and the contents of registers fit their words, and a port is
  below the shortest reset, as 4 is below 32.
* `DpdkAssumption`: finitely many threads, and the descriptor ring has room for the credit and
  the overdraft.  `Memories`, the sizes and identifiers that come together, may be any.
* `ChannelAssumption`, `TestAssumption`: a channel without a lock has one thread; the burst
  size registers hold their initial value 256.

The hypotheses about wraps in `Underestimates`, `SyncMeasured`, `EntriesOrdered` and
`Forward` are met by every behaviour up to the first wrap: these specifications state no
fairness in the theorems' `Spec`, so each such prefix followed by stuttering is a behaviour.  They are
needed: a timestamp of before the wrap compared with one of after it is what the code
gets wrong then (section 6), and numbers modulo `MsgMod` or `RoundMod` no longer order
anything.

### Only model-checked

* Liveness: `EventuallySync`, `EventuallyRead`, `ParamsTakeEffect`, `UnloadEnds`, `AllComplete`,
  `CreditComesBack`, `RunEnds`, `PacketsLeave`, and everything under fairness; TLAPS does
  not reason about `ENABLED`.
* `PktGen`: `BufferHoldsTrace`, `ReplaysTrace`, `RateBounded`, `ExactlyCount`: the trace is
  flattened to beats by a fold over packets of different lengths, and what a fold computes
  for any trace is an induction over data.

A proof attempt found one mistake of a model: the arms of the `CASE` in `Decode` and in
`Contents` overlapped, and TLA+ leaves open which one of two true guards is taken (TLC
takes the first).  The guards now exclude each other.

## 5. Plan

1. `DtpSwitch`: switch mode.  `c_global`, the two compare_global rules and
   `rx_stage3_switch_mode`, whose lanes are filled under different conditions.
   Properties: the lanes agree; the ports of a switch follow the maximum.
2. Proofs: `BufferHoldsTrace` of `PktGen`, with the beats of a trace by position.
3. `BlockSync`, `MemMgmt` and the scheduler's ring buffer: pointer and lock machines,
   each with a reference definition.
4. The data of the receive half of `mkSonicTop`, with `resetWrite`.

## 6. Not modelled

Coding and scrambling of blocks, CRCs, parsers and deparsers (bit-level functions
of one cycle); MAC and PHY wrappers (vendor and library code outside the
repository); generated, retired and board files; formatting and files in the
reader, command line front ends, the printing of `/proc/dtp`; register snapshots and
debug counters of the controller; `DmaBuffer`, `DmaEth` and `StreamChannel`; the
data and metadata that SoNIC receives; store and forward, the shared buffer and TDM; the Paxos
learner, whose votes are never counted and whose forwarding queue is never read.

Known to be hard and not covered by a property:

* `DtpTx.bsv:309`: `cycle` has 32 bits and the subtraction 53, so that an init sent
  before the wrap and acknowledged after it yields a huge delay.
* `DtpTx.bsv:406`: in switch mode the compare lanes are filled only if the global counter
  is there in the cycle of the beacon (switch mode).
* `kernel.c:365`: toggles of `logging`, `sending` and `counter` are unlocked; two writers
  of `/proc/dtp` may lose one.  `dtp_proc_write` is one step here.
* `kernel.c:181`: the global counter's parameters are never copied.
* `SonicTop.bsv:346`: `resetWrite` clears the receive queues under transfers.
* `PacketBuffer.bsv:124`: traces that do not fit the buffer.

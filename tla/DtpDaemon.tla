----------------------------- MODULE DtpDaemon ------------------------------
(***************************************************************************)
(* The DTP daemon of the host (src/sw/daemon/kernel.c and dtp_portal.c): a *)
(* kernel thread that once a second samples the DTP counters and drains    *)
(* the log messages of the board into a page shared with user space, and   *)
(* the commands written to /proc/dtp that configure it.                    *)
(*                                                                         *)
(* The thread runs with interrupts off, but not alone: the commands come   *)
(* from other processors, the board answers requests at its own pace, and  *)
(* a reader on another processor looks at the page at any time (DtpUser).  *)
(* So each access of the thread to the page or to the portal is a step.    *)
(*                                                                         *)
(* A counter sample (tsc1, tsc2, low) is the number of the round in which  *)
(* it was taken, a log message a number.  The board is external: what the  *)
(* portal does is taken from how dtp_portal.c uses it.                     *)
(***************************************************************************)
EXTENDS Integers, Sequences, FiniteSets

CONSTANTS
    PortNum,     \* DTP_PORT_NUM (4)
    LogMax,      \* log_max: log entries that fit into the page
    Commands,    \* the commands that users write
    BoardDepth,  \* messages the board keeps for a port (ReadDepth of DtpLogger)
    PortalDepth, \* requests that the portal takes before a write has to wait
    RoundMod,    \* the time stamp counter, in rounds, is modulo RoundMod (2^64)
    MsgMod       \* msg_cnt is modulo MsgMod (2^32)

Ports    == 0 .. PortNum - 1
Counters == 0 .. PortNum          \* the last one is the global counter

\* The commands that change something: beacon= and polling= are not
\* implemented, verbose= only changes what is printed.
AllCommands ==
    [op: {"reset", "stop", "start"}, arg: {0}]
        \cup [op: {"logging", "sending"}, arg: Ports] \cup [op: {"counter"}, arg: Counters]

ASSUME DaemonAssumption ==
    /\ PortNum \in Nat \ {0}
    /\ LogMax \in Nat
    /\ {BoardDepth, PortalDepth, RoundMod, MsgMod} \subseteq Nat \ {0}
    /\ Commands \subseteq AllCommands

VARIABLES
    param,      \* the module parameters mode, logging, sending, counter
    dtp,        \* the daemon's own copy of them, and which ports are in SYNC
    msg_cnt,    \* msg_cnt[p]: number of the next message to send
    dtp_time,   \* the shared page: flag, dtp_cnt, log_cnt, log
    pc,         \* where the thread is in its loop
    i,          \* the port it is at
    round,      \* how often it has gone through the loop: the time stamp
    request,    \* read requests on their way to the board
    board,      \* board[p]: messages the board holds for the host
    response,   \* answers in the indication queue of the portal
    arrived     \* number of the last message of a peer: its msg_cnt

thread == <<pc, i, round>>
daemonVars == <<param, dtp, msg_cnt, dtp_time, thread, request, board, response, arrived>>

Entry == [port: Ports, from: Ports, msg: Nat, round: Nat]

TypeOK ==
    /\ param \in [mode: BOOLEAN, logging: [Ports -> BOOLEAN],
                  sending: [Ports -> BOOLEAN], counter: [Counters -> BOOLEAN]]
    /\ dtp \in [mode: BOOLEAN, logging: [Ports -> BOOLEAN], sending: [Ports -> BOOLEAN],
                counter: [Counters -> BOOLEAN], sync: [Ports -> BOOLEAN]]
    /\ msg_cnt \in [Ports -> Nat]
    /\ dtp_time \in [flag: {0, 1}, dtp_cnt: [Counters -> Nat], log: Seq(Entry)]
    /\ Len(dtp_time.log) <= LogMax
    /\ pc \in {"sleep", "count", "send", "recv", "check", "unlock", "update"}
    /\ i \in Counters
    /\ request \in Seq(Ports)
    /\ board \in [Ports -> Seq(Nat)]
    /\ response \in Seq([port: Ports, msg: Nat])
    /\ round \in Nat /\ arrived \in Nat

\* dtp_init copies the parameters given to insmod (here mode = 1 and any
\* choice of the others) and clears the page; dtp_time.log stands for the
\* first log_cnt entries.
Init ==
    /\ \E on \in BOOLEAN :
        param = [mode |-> TRUE, logging |-> [p \in Ports |-> on],
                 sending |-> [p \in Ports |-> FALSE], counter |-> [c \in Counters |-> TRUE]]
    /\ dtp = [mode |-> param.mode, logging |-> param.logging, sending |-> param.sending,
              counter |-> param.counter, sync |-> [p \in Ports |-> FALSE]]
    /\ msg_cnt = [p \in Ports |-> 0]
    /\ dtp_time = [flag |-> 0, dtp_cnt |-> [c \in Counters |-> 0], log |-> <<>>]
    /\ pc = "sleep"
    /\ i = 0
    /\ round = 0
    /\ request = <<>>
    /\ board = [p \in Ports |-> <<>>]
    /\ response = <<>>
    /\ arrived = 0

-----------------------------------------------------------------------------
(* The thread, run_dtp_daemon.                                             *)

\* With dtp->mode = 0 the thread only sleeps.
Lock ==
    /\ pc = "sleep"
    /\ dtp.mode
    /\ dtp_time' = [dtp_time EXCEPT !.flag = 1, !.log = <<>>]
    /\ round' = (round + 1) % RoundMod
    /\ pc' = "count"
    /\ i' = 0
    /\ UNCHANGED <<param, dtp, msg_cnt, request, board, response, arrived>>

dtp_read_cnt_tsc ==
    /\ pc = "count"
    /\ dtp_time' = IF dtp.counter[i]
                   THEN [dtp_time EXCEPT !.dtp_cnt[i] = round] ELSE dtp_time
    /\ IF i = PortNum THEN pc' = "send" /\ i' = 0 ELSE pc' = pc /\ i' = i + 1
    /\ UNCHANGED <<param, dtp, msg_cnt, round, request, board, response, arrived>>

dtp_send_log ==
    /\ pc = "send"
    /\ msg_cnt' = [p \in Ports |-> IF dtp.sending[p] /\ dtp.sync[p]
                                   THEN (msg_cnt[p] + 1) % MsgMod ELSE msg_cnt[p]]
    /\ pc' = "recv"
    /\ UNCHANGED <<param, dtp, dtp_time, i, round, request, board, response, arrived>>

\* dtp_recv_log, and dtp_read_message up to the request it posts.
dtp_recv_log ==
    /\ pc = "recv"
    /\ \/ /\ i < PortNum /\ dtp.logging[i] /\ dtp.sync[i]
          /\ Len(request) < PortalDepth
          /\ request' = Append(request, i)
          /\ pc' = "check"
          /\ i' = i
       \/ /\ i < PortNum /\ ~(dtp.logging[i] /\ dtp.sync[i])
          /\ i' = i + 1
          /\ UNCHANGED <<request, pc>>
       \/ /\ i = PortNum
          /\ pc' = "unlock"
          /\ i' = 0
          /\ UNCHANGED request
    /\ UNCHANGED <<param, dtp, msg_cnt, dtp_time, round, board, response, arrived>>

\* Mutant: the bound on the log entries off by one.
dtp_insert_log_Late(e) ==
    IF Len(dtp_time.log) > LogMax THEN dtp_time
    ELSE [dtp_time EXCEPT !.log = Append(@, e)]

dtp_insert_log(e) ==
    IF Len(dtp_time.log) >= LogMax THEN dtp_time
    ELSE [dtp_time EXCEPT !.log = Append(@, e)]

\* Mutant: the answer is looked at and left in the queue.
dtp_read_message_Keeps ==
    /\ pc = "check"
    /\ pc' = "recv"
    /\ i' = i + 1
    /\ dtp_time' = IF response = <<>> THEN dtp_time
                   ELSE dtp_insert_log([port |-> i, from |-> Head(response).port,
                                        msg |-> Head(response).msg, round |-> round])
    /\ UNCHANGED <<param, dtp, msg_cnt, round, request, board, response, arrived>>

\* The rest of dtp_read_message: with nothing in the indication queue the log
\* of port i counts as drained; an answer is entered as one of port i,
\* whatever port it names.
dtp_read_message ==
    /\ pc = "check"
    /\ pc' = "recv"
    /\ IF response = <<>>
       THEN i' = i + 1 /\ UNCHANGED <<dtp_time, response>>
       ELSE /\ i' = i
            /\ response' = Tail(response)
            /\ dtp_time' = dtp_insert_log([port |-> i, from |-> Head(response).port,
                                           msg |-> Head(response).msg, round |-> round])
    /\ UNCHANGED <<param, dtp, msg_cnt, round, request, board, arrived>>

Unlock ==
    /\ pc = "unlock"
    /\ dtp_time' = [dtp_time EXCEPT !.flag = 0]
    /\ pc' = "update"
    /\ UNCHANGED <<param, dtp, msg_cnt, i, round, request, board, response, arrived>>

\* Mutant: only the mode is taken over.
Updated_ModeOnly(sync) == [dtp EXCEPT !.mode = param.mode, !.sync = sync]

\* dtp_update_configs copies the arrays up to DTP_PORT_NUM, dtp_update_states
\* asks the board for the state of each port.
Updated(sync) ==
    [dtp EXCEPT !.mode = param.mode,
                !.logging = param.logging,
                !.sending = param.sending,
                !.counter = [c \in Counters |-> IF c < PortNum THEN param.counter[c] ELSE @[c]],
                !.sync = sync]

Update ==
    /\ pc = "update"
    /\ \E sync \in [Ports -> BOOLEAN] : dtp' = Updated(sync)
    /\ pc' = "sleep"
    /\ UNCHANGED <<param, msg_cnt, dtp_time, i, round, request, board, response, arrived>>

Thread ==
    \/ Lock
    \/ dtp_read_cnt_tsc
    \/ dtp_send_log
    \/ dtp_recv_log
    \/ dtp_read_message
    \/ Unlock
    \/ Update

-----------------------------------------------------------------------------
(* The users and the board.                                                *)

\* dtp_proc_write.
dtp_proc_write(c) ==
    /\ param' =
        CASE c.op = "reset"   -> param
          [] c.op = "stop"    -> [param EXCEPT !.mode = FALSE]
          [] c.op = "start"   -> [param EXCEPT !.mode = TRUE]
          [] c.op = "logging" -> [param EXCEPT !.logging[c.arg] = ~@]
          [] c.op = "sending" -> [param EXCEPT !.sending[c.arg] = ~@]
          [] c.op = "counter" -> [param EXCEPT !.counter[c.arg] = ~@]
    /\ board' = IF c.op = "reset" THEN [p \in Ports |-> <<>>] ELSE board
    /\ UNCHANGED <<dtp, msg_cnt, dtp_time, thread, request, response, arrived>>

\* dtp_logger_read_cnt of the board: no answer if there is no message.
Serve ==
    /\ request # <<>>
    /\ request' = Tail(request)
    /\ LET p == Head(request) IN
        IF board[p] = <<>>
        THEN UNCHANGED <<board, response>>
        ELSE /\ response' = Append(response, [port |-> p, msg |-> Head(board[p])])
             /\ board' = [board EXCEPT ![p] = Tail(@)]
    /\ UNCHANGED <<param, dtp, msg_cnt, dtp_time, thread, arrived>>

\* A log message of the peer arrives.
Arrive(p) ==
    /\ Len(board[p]) < BoardDepth
    /\ arrived' = (arrived + 1) % MsgMod
    /\ board' = [board EXCEPT ![p] = Append(@, arrived')]
    /\ UNCHANGED <<param, dtp, msg_cnt, dtp_time, thread, request, response>>

DaemonNext ==
    \/ Lock
    \/ dtp_read_cnt_tsc
    \/ dtp_send_log
    \/ dtp_recv_log
    \/ dtp_read_message
    \/ Unlock
    \/ Update
    \/ \E c \in Commands : dtp_proc_write(c)
    \/ Serve
    \/ \E p \in Ports : Arrive(p)

DaemonSpec == Init /\ [][DaemonNext]_daemonVars

\* The thread is woken up every second and the board answers.
DaemonFairness == WF_daemonVars(Thread) /\ WF_daemonVars(Serve)
DaemonFairSpec == DaemonSpec /\ DaemonFairness

-----------------------------------------------------------------------------
(* Properties.                                                             *)

\* The messages of a port are entered once each and in the order in which
\* they arrived, however late the board answers and whichever loop over the
\* ports picks an answer up: an entry's message is younger than every earlier
\* one of the same port in the page, and is no longer on the board or in the
\* indication queue.
EntriesInOrder ==
    /\ \A k, l \in DOMAIN dtp_time.log :
          /\ k < l /\ dtp_time.log[k].from = dtp_time.log[l].from
          => dtp_time.log[k].msg < dtp_time.log[l].msg
    /\ \A k \in DOMAIN dtp_time.log :
          LET e == dtp_time.log[k] IN
          /\ \A l \in DOMAIN response : response[l].port = e.from => response[l].msg > e.msg
          /\ \A l \in DOMAIN board[e.from] : board[e.from][l] > e.msg

\* A parameter of a port that is set and left alone takes effect, if the
\* daemon is not stopped and the log of the board is drained at last: while
\* messages keep arriving as fast as dtp_recv_log reads them, its loop does
\* not end.
ParamsTakeEffect ==
    \A p \in Ports :
        [](param.mode) =>
            /\ <>[](param.logging[p]) => <>[](dtp.logging[p])
            /\ <>[](~param.counter[p]) => <>[](~dtp.counter[p])

\* The daemon runs once it has been started for good: kernel.c:51 says
\* "Modes: 0 (nothing) 1 (running)".
StartTakesEffect == <>[](param.mode) => []<>(dtp.mode)
=============================================================================

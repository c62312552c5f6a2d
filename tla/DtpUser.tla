------------------------------ MODULE DtpUser -------------------------------
(***************************************************************************)
(* The reader of the shared page (src/sw/daemon/dtp_user.c, __loop),       *)
(* composed with the daemon that writes it (DtpDaemon).                    *)
(*                                                                         *)
(* The daemon brackets its writes with flag = 1 and flag = 0.  The reader  *)
(* waits for flag = 0, copies the counters and the log entries one at a    *)
(* time, and looks at the flag once more: the page may have been rewritten *)
(* meanwhile.  Loads and stores are taken to happen in program order.      *)
(***************************************************************************)
EXTENDS DtpDaemon

VARIABLES
    upc,        \* where the reader is in its loop
    uj,         \* the index at which it copies
    cnt,        \* its copy of dtp_cnt
    log,        \* its copy of log, an array of log_max entries
    log_cnt,    \* and of log_cnt
    ptsc,       \* the round it printed last
    printed,    \* what it printed last
    overtaken   \* history: the daemon unlocked the page during this pass

NoEntry == [port |-> 0, from |-> 0, msg |-> 0, round |-> 0]     \* as calloc leaves it

userVars == <<upc, uj, cnt, log, log_cnt, ptsc, printed, overtaken>>
vars == <<daemonVars, userVars>>

UserTypeOK ==
    /\ upc \in {"wait", "counters", "entries", "length", "check", "print"}
    /\ uj \in Nat
    /\ cnt \in [Counters -> Nat]
    /\ log \in [1 .. LogMax -> Entry]
    /\ log_cnt \in 0 .. LogMax
    /\ ptsc \in Nat
    /\ printed \in [cnt: [Counters -> Nat], log: Seq(Entry)]
    /\ overtaken \in BOOLEAN

UserInit ==
    /\ upc = "wait"
    /\ uj = 0
    /\ cnt = [c \in Counters |-> 0]
    /\ log = [k \in 1 .. LogMax |-> NoEntry]
    /\ log_cnt = 0
    /\ ptsc = 0
    /\ printed = [cnt |-> cnt, log |-> <<>>]
    /\ overtaken = FALSE

-----------------------------------------------------------------------------

\* Leaves the busy loop on the flag.
UserWait ==
    /\ upc = "wait"
    /\ dtp_time.flag = 0
    /\ upc' = "counters"
    /\ uj' = 0
    /\ overtaken' = FALSE
    /\ UNCHANGED <<daemonVars, cnt, log, log_cnt, ptsc, printed>>

UserCopyCounter ==
    /\ upc = "counters"
    /\ cnt' = [cnt EXCEPT ![uj] = dtp_time.dtp_cnt[uj]]
    /\ IF uj = PortNum THEN upc' = "entries" /\ uj' = 1 ELSE upc' = upc /\ uj' = uj + 1
    /\ UNCHANGED <<daemonVars, log, log_cnt, ptsc, printed, overtaken>>

CopiesOn == uj <= Len(dtp_time.log)

\* The loop compares with the log_cnt of the page anew for each entry.
UserCopyEntry ==
    /\ upc = "entries"
    /\ IF CopiesOn
       THEN /\ log' = [log EXCEPT ![uj] = dtp_time.log[uj]]
            /\ uj' = uj + 1
            /\ upc' = upc
       ELSE upc' = "length" /\ UNCHANGED <<log, uj>>
    /\ UNCHANGED <<daemonVars, cnt, log_cnt, ptsc, printed, overtaken>>

UserCopyLength ==
    /\ upc = "length"
    /\ log_cnt' = Len(dtp_time.log)
    /\ upc' = "check"
    /\ UNCHANGED <<daemonVars, uj, cnt, log, ptsc, printed, overtaken>>

\* Mutant: the flag is not looked at again.
Accept_Blind == TRUE

Accept == dtp_time.flag = 0

UserCheck ==
    /\ upc = "check"
    /\ upc' = IF Accept THEN "print" ELSE "wait"
    /\ UNCHANGED <<daemonVars, uj, cnt, log, log_cnt, ptsc, printed, overtaken>>

\* Mutant: every copy is printed.
UserPrint_Always ==
    /\ upc = "print"
    /\ ptsc' = cnt[0]
    /\ printed' = [cnt |-> cnt, log |-> SubSeq(log, 1, log_cnt)]
    /\ upc' = "wait"
    /\ UNCHANGED <<daemonVars, uj, cnt, log, log_cnt, overtaken>>

\* Prints the copy if the first counter is new, then sleeps.
UserPrint ==
    /\ upc = "print"
    /\ IF cnt[0] # ptsc
       THEN /\ ptsc' = cnt[0]
            /\ printed' = [cnt |-> cnt, log |-> SubSeq(log, 1, log_cnt)]
       ELSE UNCHANGED <<ptsc, printed>>
    /\ upc' = "wait"
    /\ UNCHANGED <<daemonVars, uj, cnt, log, log_cnt, overtaken>>

User ==
    \/ UserWait
    \/ UserCopyCounter
    \/ UserCopyEntry
    \/ UserCopyLength
    \/ UserCheck
    \/ UserPrint

\* A step of the daemon, and the history of the pass it may overtake.
DaemonStep ==
    /\ overtaken' = (overtaken \/ (dtp_time.flag = 1 /\ dtp_time'.flag = 0))
    /\ UNCHANGED <<upc, uj, cnt, log, log_cnt, ptsc, printed>>

Next ==
    \/ User
    \/ DaemonNext /\ DaemonStep

Spec == Init /\ UserInit /\ [][Next]_vars

-----------------------------------------------------------------------------
(* Properties.                                                             *)

\* What the reader accepts is what the page holds, entry for entry, unless
\* the daemon locked and unlocked the page between the two looks at the flag.
AcceptsWhole ==
    [][upc = "check" /\ upc' = "print" /\ ~overtaken
        => /\ cnt = dtp_time.dtp_cnt
           /\ log_cnt = Len(dtp_time.log)
           /\ \A k \in 1 .. log_cnt : log[k] = dtp_time.log[k]]_vars

\* No round is printed twice and none after a later one.
PrintsForward ==
    [][printed' # printed => printed'.cnt[0] > printed.cnt[0]]_vars
=============================================================================

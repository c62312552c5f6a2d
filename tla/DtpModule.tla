------------------------------ MODULE DtpModule -----------------------------
(***************************************************************************)
(* Loading and unloading of the DTP kernel module (dtp_init and dtp_exit   *)
(* of src/sw/daemon/kernel.c, and of its predecessor dtp.c in the same     *)
(* directory), composed with what runs meanwhile: the daemon thread and    *)
(* its calls of the portal (DtpPortal), processes that open and map the    *)
(* character device, and processes that read /proc/dtp.                    *)
(*                                                                         *)
(* Every call of dtp_init into the kernel may fail, and every step of      *)
(* dtp_init and dtp_exit interleaves with the others.  What the FIFOs of   *)
(* the board hold outlives the module.  ref_count is never read and is     *)
(* left out.  In which order the thread makes its calls is in DtpDaemon.   *)
(***************************************************************************)
EXTENDS DtpPortal

CONSTANTS
    Clients,    \* processes that use the device and /proc/dtp
    CallSets,   \* bound: sets of methods, one of which a behaviour uses
    RoundCalls  \* calls that a round of the thread makes without finding a message

ASSUME ModuleAssumption == CallSets \subseteq SUBSET Methods /\ RoundCalls \in Nat

VARIABLES
    older,     \* the module that was loaded last is dtp.c, not kernel.c
    mod,       \* out, init, unwind, live, exit, or crashed
    at,        \* the call at which dtp_init, its error path or dtp_exit is
    held,      \* what has been acquired and not released
    status,    \* what dtp_init is going to return: 0 or negative
    failed,    \* history: the calls that failed during this load
    used,      \* the methods that this behaviour uses
    mode,      \* dtp->mode: the thread is running, not only sleeping
    asleep,    \* the thread is in schedule_timeout
    left,      \* how many calls the round can still make
    file,      \* the clients that have the device open
    map,       \* map[c]: what a client has mapped: nothing, the page, address 0
    reading    \* the clients inside a handler of /proc/dtp

loader == <<older, mod, at, held, status, failed>>
thread == <<used, mode, asleep, left>>
users  == <<file, map, reading>>
vars   == <<portalVars, loader, thread, users>>

-----------------------------------------------------------------------------
(* dtp.c has neither the structure dtp nor an entry in /proc.              *)

OlderInitCalls == <<"board", "class", "region", "cdev", "device", "page", "thread">>

OlderLabel ==
    [board |-> "return", class |-> "return", region |-> "class", cdev |-> "region",
     device |-> "cdev", page |-> "device", thread |-> "page"]

OlderErrorPath == <<"page", "device", "cdev", "region", "class", "return">>

OlderExitCalls == <<"thread", "page", "device", "cdev", "region", "class">>

\* Its thread uses the first channel in each round, which is the version of the
\* board: it writes a word that the board ignores, and reads the 32-bit answer as
\* if it were a 64-bit counter, so that it never finds its second word.  It is
\* never stopped but by kthread_stop.
older_run_dtp_daemon == {"version"}

-----------------------------------------------------------------------------
(* The calls of dtp_init in their order, where each goes when it fails     *)
(* (the first thing its error path releases), and what it returns then.    *)

InitCalls == IF older THEN OlderInitCalls ELSE
    <<"dtp", "board", "proc", "class", "region", "cdev", "device", "page", "thread">>

\* Mutant: an error label too far.
Label_Skips ==
    [dtp |-> "return", board |-> "dtp", proc |-> "dtp", class |-> "proc",
     region |-> "class", cdev |-> "class", device |-> "cdev", page |-> "device",
     thread |-> "page"]

Label ==
    [dtp |-> "return", board |-> "dtp", proc |-> "dtp", class |-> "proc",
     region |-> "class", cdev |-> "region", device |-> "cdev", page |-> "device",
     thread |-> "page"]

\* The order of the error labels, which fall through.
ErrorPath == IF older THEN OlderErrorPath ELSE
    <<"page", "device", "cdev", "region", "class", "proc", "dtp", "return">>

\* Mutant: the page is freed before the thread that writes it is stopped.
ExitCalls_PageFirst ==
    <<"page", "thread", "device", "cdev", "region", "class", "proc", "dtp">>

ExitCalls == IF older THEN OlderExitCalls ELSE
    <<"thread", "page", "device", "cdev", "region", "class", "proc", "dtp">>


\* kernel.c leaves status at 0 for a missing board or /proc entry.
Returned(r) == IF ~older /\ r \in {"board", "proc"} THEN 0 ELSE -1

\* device_create and kthread_run report failure with an ERR_PTR, which the
\* tests for NULL do not see.
Seen(r) == r \notin {"device", "thread"}

Resources == {"dtp", "proc", "class", "region", "cdev", "device", "page", "thread"}

TypeOK ==
    /\ PortalTypeOK
    /\ older \in BOOLEAN
    /\ mod \in {"out", "init", "unwind", "live", "exit", "crashed"}
    /\ at \in 0 .. 10
    /\ held \subseteq Resources
    /\ status \in {0, -1}
    /\ failed \subseteq Resources \cup {"board"}
    /\ used \subseteq Methods
    /\ mode \in BOOLEAN /\ asleep \in BOOLEAN /\ left \in 0 .. RoundCalls
    /\ file \subseteq Clients /\ reading \subseteq Clients
    /\ map \in [Clients -> {"none", "page", "null"}]

Init ==
    /\ PortalInit
    /\ older \in BOOLEAN
    /\ mod = "out" /\ at = 0 /\ held = {} /\ status = 0 /\ failed = {}
    /\ used \in CallSets
    /\ mode = FALSE /\ asleep = FALSE /\ left = 0
    /\ file = {} /\ reading = {}
    /\ map = [c \in Clients |-> "none"]

-----------------------------------------------------------------------------
(* dtp_init and dtp_exit.                                                  *)

\* No client has the device open or mapped.
Unused == file = {} /\ \A c \in Clients : map[c] = "none"

\* Bound: no load while a client still has the device of a failed one open.
insmod ==
    /\ mod = "out" /\ Unused
    /\ older' \in BOOLEAN
    /\ mod' = "init" /\ at' = 1
    /\ mode' \in BOOLEAN /\ asleep' = FALSE /\ left' = RoundCalls /\ used' = used
    /\ UNCHANGED <<portalVars, held, status, failed, users>>

\* Once it has the board, dtp_init of kernel.c sets the beacon intervals of
\* all ports but the last.
SetIntervals ==
    LET new == [k \in 1 .. PortNum - 1 |-> [p |-> k - 1, v |-> k % WordMod]]
        Words2(e) == dtp_set_beacon_interval(e.p, e.v)
    IN
    /\ Len(asked["set_interval"]) < MaxPending
    /\ req' = [req EXCEPT !["set_interval"] = @ \o
                [k \in 1 .. 2 * Len(new) |-> Words2(new[(k + 1) \div 2])[2 - (k % 2)]]]
    /\ asked' = [asked EXCEPT !["set_interval"] = @ \o new]
    /\ UNCHANGED <<fifo, call, acc, out, late>>

\* One call into the kernel, with the portal writes that follow it.
dtp_init ==
    /\ mod = "init" /\ at <= Len(InitCalls)
    /\ LET r == InitCalls[at] IN
        \/ /\ held' = held \cup ({r} \ {"board"}) /\ at' = at + 1
           /\ IF r = "board" /\ ~older THEN SetIntervals ELSE UNCHANGED portalVars
           /\ UNCHANGED <<mod, status, failed>>
        \/ /\ failed' = failed \cup {r}
           /\ IF Seen(r)
              THEN /\ mod' = "unwind"
                   /\ at' = CHOOSE k \in DOMAIN ErrorPath : ErrorPath[k] = (IF older THEN OlderLabel ELSE Label)[r]
                   /\ status' = Returned(r)
              ELSE at' = at + 1 /\ UNCHANGED <<mod, status>>
           /\ UNCHANGED <<portalVars, held>>
    /\ UNCHANGED <<older, thread, users>>

dtp_init_returns ==
    /\ mod = "init" /\ at > Len(InitCalls)
    /\ mod' = "live"
    /\ UNCHANGED <<portalVars, older, at, held, status, failed, thread, users>>

\* remove_proc_entry admits no more handlers and waits for those running.
Removing == mod = "exit" /\ at <= Len(ExitCalls) /\ ExitCalls[at] = "proc"

Releasable(r) == r = "proc" => reading = {}

\* Throws the module out.
Gone == mod' = "out" /\ at' = 0 /\ status' = 0 /\ failed' = {}

\* The error path.  A status of 0 leaves the module loaded; otherwise it is
\* thrown out, whether or not a client has opened the device meanwhile.
Unwind ==
    /\ mod = "unwind"
    /\ IF ErrorPath[at] # "return"
       THEN /\ Releasable(ErrorPath[at])
            /\ held' = held \ {ErrorPath[at]} /\ at' = at + 1
            /\ UNCHANGED <<mod, status, failed>>
       ELSE /\ IF status = 0 THEN mod' = "live" /\ UNCHANGED <<at, status, failed>> ELSE Gone
            /\ UNCHANGED held
    /\ UNCHANGED <<portalVars, older, thread, users>>

\* The owner of dtp_fops keeps the module in while the device is open or
\* mapped.
rmmod == mod = "live" /\ Unused

\* kthread_stop waits until the thread has gone (dtp_daemon_wakes), and
\* crashes on the NULL or the ERR_PTR that a failed dtp_init has left.
dtp_exit ==
    /\ \/ rmmod /\ mod' = "exit" /\ at' = 1 /\ UNCHANGED <<held, status, failed>>
       \/ /\ mod = "exit" /\ at <= Len(ExitCalls)
          /\ IF ExitCalls[at] = "thread"
             THEN /\ "thread" \notin held
                  /\ IF failed \subseteq {"device"} THEN mod' = mod ELSE mod' = "crashed"
             ELSE mod' = mod /\ Releasable(ExitCalls[at])
          /\ held' = held \ {ExitCalls[at]}
          /\ at' = at + 1
          /\ UNCHANGED <<status, failed>>
       \/ mod = "exit" /\ at > Len(ExitCalls) /\ Gone /\ UNCHANGED held
    /\ UNCHANGED <<portalVars, older, thread, users>>

reboot ==
    /\ mod = "crashed"
    /\ Gone /\ held' = {} /\ file' = {} /\ reading' = {}
    /\ map' = [c \in Clients |-> "none"]
    /\ UNCHANGED <<portalVars, older, thread>>

-----------------------------------------------------------------------------
(* The thread, run_dtp_daemon: calls of the portal, then a second of sleep. *)

\* The functions of dtp_portal.h but the two that the thread leaves to others.
\* dtp_set_cnt and dtp_read_version are there for the taking.
Called == IF older THEN older_run_dtp_daemon ELSE Methods \ {"reset", "set_interval"}

ReadAs(m) == IF older THEN dtp_read_portal_64bit ELSE Reads[m]

\* dtp_read_message has found a message and reads it.
MessageFound == call.m = "message" /\ call.k > 0

\* The loops of a round go over the ports and end, but for the one that drains
\* the log of a port, which goes round again after each message.
dtp_daemon_calls ==
    /\ "thread" \in held /\ ~asleep
    /\ mode \/ older
    /\ \/ /\ left > 0
          /\ \E m \in Called \cap used, p \in Ports, v \in Values \cup {0} :
                /\ (v # 0) <=> (m \in {"send", "set_cnt"})
                /\ m \in {"global", "version"} => p = 0
                /\ Post(m, p, v, ReadAs(m))
          /\ left' = left - 1
       \/ NoMessage /\ left' = left
       \/ ReadWord /\ left' = IF MessageFound THEN RoundCalls ELSE left
    /\ UNCHANGED <<loader, used, mode, asleep, users>>

\* The end of a round; dtp_update_configs may have found stop.
dtp_daemon_sleeps ==
    /\ "thread" \in held /\ ~asleep /\ call = NoCall
    /\ asleep' = TRUE /\ left' = 0
    /\ mode' \in {mode, FALSE}
    /\ UNCHANGED <<used, portalVars, loader, users>>

\* Mutant: only a running thread looks whether it should stop.
dtp_daemon_wakes_Running ==
    /\ "thread" \in held /\ asleep
    /\ asleep' = FALSE /\ left' = RoundCalls
    /\ held' = IF mod = "exit" /\ mode THEN held \ {"thread"} ELSE held
    /\ UNCHANGED <<portalVars, older, mod, at, status, failed, used, mode, users>>

\* kthread_should_stop is asked after each sleep, stopped or running.
dtp_daemon_wakes ==
    /\ "thread" \in held /\ asleep
    /\ asleep' = FALSE /\ left' = RoundCalls
    /\ held' = IF mod = "exit" THEN held \ {"thread"} ELSE held
    /\ UNCHANGED <<portalVars, older, mod, at, status, failed, used, mode, users>>

-----------------------------------------------------------------------------
(* The clients.                                                            *)

dtp_fs_open(c) ==
    /\ "cdev" \in held /\ mod \in {"init", "unwind", "live"} /\ c \notin file
    /\ file' = file \cup {c}
    /\ UNCHANGED <<portalVars, loader, thread, map, reading>>

\* remap_pfn_range maps whatever dtp_time points to.
dtp_fs_mmap(c) ==
    /\ c \in file /\ map[c] = "none" /\ mod \in {"init", "unwind", "live"}
    /\ map' = [map EXCEPT ![c] = IF "page" \in held THEN "page" ELSE "null"]
    /\ UNCHANGED <<portalVars, loader, thread, file, reading>>

\* close and munmap, in any order.  The code is gone after a failed load.
dtp_fs_release(c) ==
    /\ \/ c \in file /\ file' = file \ {c} /\ map' = map
       \/ map[c] # "none" /\ map' = [map EXCEPT ![c] = "none"] /\ file' = file
    /\ mod' = IF mod = "out" THEN "crashed" ELSE mod
    /\ UNCHANGED <<portalVars, older, at, held, status, failed, thread, reading>>

\* Entry into a handler of /proc/dtp, all of which read *dtp; reset= writes its
\* number, which nothing compares with DTP_PORT_NUM, to the portal besides.
dtp_proc_open(c) ==
    /\ "proc" \in held /\ ~Removing /\ c \notin reading
    /\ reading' = reading \cup {c}
    /\ \/ UNCHANGED portalVars
       \/ /\ mod = "live" /\ "reset" \in used /\ Len(asked["reset"]) < MaxPending
          /\ \E n \in 0 .. WordMod - 1 :
                /\ req' = [req EXCEPT !["reset"] = @ \o dtp_reset(n)]
                /\ asked' = [asked EXCEPT !["reset"] = Append(@, [p |-> n, v |-> 0])]
          /\ UNCHANGED <<fifo, call, acc, out, late>>
    /\ UNCHANGED <<loader, thread, file, map>>

dtp_seq_proc_show(c) ==
    /\ c \in reading
    /\ reading' = reading \ {c}
    /\ UNCHANGED <<portalVars, loader, thread, file, map>>

\* The board.
DtpController == (\E m \in Methods : Serve(m)) /\ UNCHANGED <<loader, thread, users>>

Next ==
    \/ insmod
    \/ dtp_init
    \/ dtp_init_returns
    \/ Unwind
    \/ dtp_exit
    \/ reboot
    \/ dtp_daemon_calls
    \/ dtp_daemon_sleeps
    \/ dtp_daemon_wakes
    \/ DtpController
    \/ \E c \in Clients : \/ dtp_fs_open(c)
                          \/ dtp_fs_mmap(c)
                          \/ dtp_fs_release(c)
                          \/ dtp_proc_open(c)
                          \/ dtp_seq_proc_show(c)

\* The kernel carries on with dtp_exit, the board answers a call that waits for
\* it, the handlers of /proc return, and the thread goes on: it reads the next
\* word, and ends a round that has no more calls, but for an endless one.
Fairness ==
    /\ WF_vars(mod = "exit" /\ dtp_exit)
    /\ WF_vars(call # NoCall /\ dtp_daemon_calls)
    /\ WF_vars(dtp_daemon_sleeps)
    /\ WF_vars(dtp_daemon_wakes)
    /\ WF_vars(call # NoCall /\ DtpController)
    /\ \A c \in Clients : WF_vars(dtp_seq_proc_show(c))

Spec == Init /\ [][Next]_vars /\ Fairness

-----------------------------------------------------------------------------
(* Properties.                                                             *)

\* Whichever call of dtp_init fails, and after any dtp_exit, nothing is held
\* once the module is out; and a module that is loaded has all it needs,
\* unless one of the four calls failed that dtp_init does not report (a missing
\* board it does in dtp.c).
AllOrNothing ==
    /\ mod = "out" => held = {}
    /\ mod = "live" /\ failed \cap {"board", "proc", "device", "thread"} = {}
        => {InitCalls[k] : k \in DOMAIN InitCalls} \subseteq held \cup {"board"}

\* Nobody uses what has been freed: the thread has the page, a mapping of the
\* page keeps it, and a handler of /proc/dtp has *dtp.
NothingUsedAfterFree ==
    /\ TypeOK
    /\ "thread" \in held => "page" \in held /\ ("dtp" \in held \/ older)
    /\ \A c \in Clients : map[c] = "page" => "page" \in held
    /\ reading # {} => "dtp" \in held

\* Unloading ends, whatever the thread is doing and whether it is stopped, unless
\* messages are found for ever: the loop of dtp_recv_log then does not end, and
\* kthread_stop waits for it.
UnloadEnds == []<>MessageFound \/ ((mod = "exit") ~> (mod # "exit"))
=============================================================================

--------------------------- MODULE DtpUser_proofs ---------------------------
(***************************************************************************)
(* Proof that the flag protocol between the daemon and the reader works    *)
(* for every number of ports, size of the page and set of commands, as     *)
(* long as the reader is not overtaken by a whole round of the daemon.     *)
(***************************************************************************)
EXTENDS DtpUser, TLAPS

\* The places of the daemon's loop between the two assignments to the flag.
Locked == {"count", "send", "recv", "check", "unlock"}

\* The flag tells where the daemon is, and its index stays in range.
LoopInv ==
    /\ (dtp_time.flag = 1) <=> (pc \in Locked)
    /\ pc = "check" => i < PortNum

\* What the reader has copied so far, if the page has not been locked since it
\* began, is what the page holds.
CopyInv ==
    /\ upc = "counters" => uj \in Counters
    /\ upc = "entries" => uj \in Nat \ {0}
    /\ ~overtaken /\ dtp_time.flag = 0 =>
        /\ upc = "counters" => \A c \in Counters : c < uj => cnt[c] = dtp_time.dtp_cnt[c]
        /\ upc \in {"entries", "length", "check"} => cnt = dtp_time.dtp_cnt
        /\ upc = "entries" => /\ uj <= Len(dtp_time.log) + 1
                              /\ \A k \in 1 .. uj - 1 : log[k] = dtp_time.log[k]
        /\ upc \in {"length", "check"} =>
              \A k \in 1 .. Len(dtp_time.log) : log[k] = dtp_time.log[k]
        /\ upc = "check" => log_cnt = Len(dtp_time.log)

\* The inductive invariant.
IInv == TypeOK /\ UserTypeOK /\ LoopInv /\ CopyInv

-----------------------------------------------------------------------------

\* The type of the shared page.
Page == [flag: {0, 1}, dtp_cnt: [Counters -> Nat], log: Seq(Entry)]

\* Taking the head off a queue.
LEMMA HeadTail ==
    ASSUME NEW S, NEW q \in Seq(S), q # <<>>
    PROVE  Head(q) \in S /\ Tail(q) \in Seq(S)
OBVIOUS

\* Putting an entry behind a queue.
LEMMA AppendLast ==
    ASSUME NEW S, NEW q \in Seq(S), NEW x \in S
    PROVE  Append(q, x) \in Seq(S) /\ Len(Append(q, x)) = Len(q) + 1
OBVIOUS

\* What the flag and the log of a page are after an assignment to either.
LEMMA PageUpdates ==
    ASSUME NEW d \in Page, NEW f \in {0, 1}, NEW l \in Seq(Entry)
    PROVE  /\ [d EXCEPT !.flag = f] \in Page
           /\ [d EXCEPT !.flag = f].flag = f
           /\ [d EXCEPT !.flag = f].log = d.log
           /\ [d EXCEPT !.flag = f, !.log = l] \in Page
           /\ [d EXCEPT !.flag = f, !.log = l].flag = f
           /\ [d EXCEPT !.flag = f, !.log = l].log = l
           /\ [d EXCEPT !.log = l] \in Page
           /\ [d EXCEPT !.log = l].flag = d.flag
           /\ [d EXCEPT !.log = l].log = l
BY DEF Page

\* An entry is appended to the log only while the page has room.
LEMMA InsertType ==
    ASSUME TypeOK, NEW e \in Entry
    PROVE  /\ dtp_insert_log(e) \in Page
           /\ Len(dtp_insert_log(e).log) <= LogMax
           /\ dtp_insert_log(e).flag = dtp_time.flag
<1> USE DaemonAssumption
<1>1. Len(dtp_time.log) \in Nat /\ dtp_time.log \in Seq(Entry)
    BY DEF TypeOK
<1>2. /\ Append(dtp_time.log, e) \in Seq(Entry)
      /\ Len(Append(dtp_time.log, e)) = Len(dtp_time.log) + 1
    BY <1>1
<1>3. CASE Len(dtp_time.log) >= LogMax
    BY <1>3 DEF dtp_insert_log, TypeOK, Page
<1>4. CASE ~(Len(dtp_time.log) >= LogMax)
    <2>1. dtp_insert_log(e) = [dtp_time EXCEPT !.log = Append(@, e)]
        BY <1>4 DEF dtp_insert_log
    <2>2. Len(dtp_time.log) + 1 <= LogMax
        BY <1>4, <1>1
    <2> QED BY <2>1, <2>2, <1>2 DEF TypeOK, Page
<1> QED BY <1>3, <1>4

\* Every step of the daemon and its environment keeps the daemon's types and
\* the agreement of the flag with the place in the loop.
LEMMA DaemonPreserves ==
    ASSUME TypeOK, LoopInv, DaemonNext
    PROVE  TypeOK' /\ LoopInv'
<1> USE DaemonAssumption
<1>1. CASE Lock
    <2>1. round' \in Nat
        BY <1>1 DEF Lock, TypeOK
    <2>2. /\ dtp_time' \in Page
          /\ Len(dtp_time'.log) <= LogMax
          /\ dtp_time'.flag = 1
        <3>1. <<>> \in Seq(Entry) /\ Len(<<>>) <= LogMax
            OBVIOUS
        <3>2. dtp_time' = [dtp_time EXCEPT !.flag = 1, !.log = <<>>] /\ dtp_time \in Page
            BY <1>1 DEF Lock, TypeOK, Page
        <3> DEFINE d == [dtp_time EXCEPT !.flag = 1, !.log = <<>>]
        <3>3. d \in Page /\ d.flag = 1 /\ d.log = <<>>
            <4>1. 1 \in {0, 1}
                OBVIOUS
            <4> QED BY <3>1, <3>2, <4>1, PageUpdates
        <3> HIDE DEF d
        <3>4. dtp_time' = d
            BY <3>2 DEF d
        <3> QED BY <3>1, <3>3, <3>4
    <2>3. i' \in Counters
        BY <1>1 DEF Lock, Counters
    <2> QED BY <1>1, <2>1, <2>2, <2>3 DEF Lock, TypeOK, LoopInv, Locked, Page
<1>2. CASE dtp_read_cnt_tsc
    <2>1. /\ dtp_time' \in Page
          /\ dtp_time'.log = dtp_time.log
          /\ dtp_time'.flag = dtp_time.flag
        <3>1. CASE dtp.counter[i]
            <4>1. dtp_time' = [dtp_time EXCEPT !.dtp_cnt = [dtp_time.dtp_cnt EXCEPT ![i] = round]]
                BY <1>2, <3>1 DEF dtp_read_cnt_tsc
            <4>2. [dtp_time.dtp_cnt EXCEPT ![i] = round] \in [Counters -> Nat]
                BY DEF TypeOK
            <4> QED BY <4>1, <4>2 DEF TypeOK, Page
        <3>2. CASE ~dtp.counter[i]
            BY <1>2, <3>2 DEF dtp_read_cnt_tsc, TypeOK, Page
        <3> QED BY <3>1, <3>2
    <2>2. i' \in Counters
        <3>1. i' = 0 \/ (i # PortNum /\ i' = i + 1)
            BY <1>2 DEF dtp_read_cnt_tsc
        <3>2. i \in 0 .. PortNum /\ PortNum \in Nat
            BY DEF TypeOK, Counters
        <3> QED BY <3>1, <3>2 DEF Counters
    <2> QED BY <1>2, <2>1, <2>2 DEF dtp_read_cnt_tsc, TypeOK, LoopInv, Locked, Page
<1>3. CASE dtp_send_log
    <2>1. msg_cnt' \in [Ports -> Nat]
        <3>1. \A p \in Ports : msg_cnt[p] \in Nat /\ (msg_cnt[p] + 1) % MsgMod \in Nat
            BY DEF TypeOK
        <3> QED BY <1>3, <3>1 DEF dtp_send_log
    <2> QED BY <1>3, <2>1 DEF dtp_send_log, TypeOK, LoopInv, Locked
<1>4. CASE dtp_recv_log
    <2>1. i' \in Counters /\ request' \in Seq(Ports)
        <3>1. CASE i < PortNum /\ request' = Append(request, i) /\ i' = i
            <4>1. i \in Ports /\ request \in Seq(Ports)
                BY <3>1 DEF TypeOK, Counters, Ports
            <4> QED BY <3>1, <4>1, AppendLast DEF TypeOK
        <3>2. CASE i < PortNum /\ i' = i + 1 /\ request' = request
            BY <3>2 DEF TypeOK, Counters
        <3>3. CASE i' = 0 /\ request' = request
            BY <3>3 DEF TypeOK, Counters
        <3> QED BY <1>4, <3>1, <3>2, <3>3 DEF dtp_recv_log
    <2> QED BY <1>4, <2>1 DEF dtp_recv_log, TypeOK, LoopInv, Locked
<1>5. CASE dtp_read_message
    <2>1. i \in Ports /\ i + 1 \in Counters /\ dtp_time.flag = 1
        BY <1>5 DEF dtp_read_message, TypeOK, LoopInv, Locked, Counters, Ports
    <2>2. CASE response = <<>>
        BY <1>5, <2>1, <2>2 DEF dtp_read_message, TypeOK, LoopInv, Locked
    <2>3. CASE response # <<>>
        <3> DEFINE e == [port |-> i, from |-> Head(response).port,
                         msg |-> Head(response).msg, round |-> round]
        <3>1. /\ Head(response) \in [port: Ports, msg: Nat]
              /\ Tail(response) \in Seq([port: Ports, msg: Nat])
            BY <2>3, HeadTail DEF TypeOK
        <3>2. e \in Entry
            BY <2>1, <3>1 DEF Entry, TypeOK
        <3>3. dtp_time' = dtp_insert_log(e) /\ i' = i /\ response' = Tail(response)
            BY <1>5, <2>3 DEF dtp_read_message
        <3> HIDE DEF e
        <3>4. /\ dtp_time' \in Page
              /\ Len(dtp_time'.log) <= LogMax
              /\ dtp_time'.flag = 1
            BY <3>2, <3>3, <2>1, InsertType
        <3> QED BY <1>5, <3>1, <3>3, <3>4 DEF dtp_read_message, TypeOK, LoopInv, Locked, Page
    <2> QED BY <2>2, <2>3
<1>6. CASE Unlock
    <2>1. dtp_time \in Page /\ dtp_time' = [dtp_time EXCEPT !.flag = 0]
        BY <1>6 DEF Unlock, TypeOK, Page
    <2>2. dtp_time' \in Page /\ dtp_time'.flag = 0 /\ dtp_time'.log = dtp_time.log
        <3>1. dtp_time.log \in Seq(Entry)
            BY <2>1 DEF Page
        <3> QED BY <2>1, <3>1, PageUpdates
    <2>3. pc' = "update"
        BY <1>6 DEF Unlock
    <2>4. LoopInv'
        BY <2>2, <2>3 DEF LoopInv, Locked
    <2>5. Len(dtp_time'.log) <= LogMax
        BY <2>2 DEF TypeOK
    <2>6. TypeOK'
        BY <1>6, <2>2, <2>3, <2>5 DEF Unlock, TypeOK, Page
    <2> QED BY <2>4, <2>6
<1>7. CASE Update
    <2>1. PICK sync \in [Ports -> BOOLEAN] : dtp' = Updated(sync)
        BY <1>7 DEF Update
    <2>2. [c \in Counters |-> IF c < PortNum THEN param.counter[c] ELSE dtp.counter[c]]
                \in [Counters -> BOOLEAN]
        BY DEF TypeOK
    <2>3. Updated(sync) \in [mode: BOOLEAN, logging: [Ports -> BOOLEAN],
                              sending: [Ports -> BOOLEAN], counter: [Counters -> BOOLEAN],
                              sync: [Ports -> BOOLEAN]]
        BY <2>2 DEF Updated, TypeOK
    <2> QED BY <1>7, <2>1, <2>3 DEF Update, TypeOK, LoopInv, Locked
<1>8. CASE \E c \in Commands : dtp_proc_write(c)
    <2>1. PICK c \in Commands : dtp_proc_write(c)
        BY <1>8
    <2>2. c \in AllCommands
        BY <2>1
    <2>3. param' \in [mode: BOOLEAN, logging: [Ports -> BOOLEAN],
                      sending: [Ports -> BOOLEAN], counter: [Counters -> BOOLEAN]]
        <3>1. CASE c.op \in {"reset", "stop", "start"}
            BY <2>1, <3>1 DEF dtp_proc_write, TypeOK
        <3>2. CASE c.op = "logging"
            <4>1. c.arg \in Ports
                BY <2>2, <3>2 DEF AllCommands
            <4>2. [param.logging EXCEPT ![c.arg] = ~param.logging[c.arg]] \in [Ports -> BOOLEAN]
                BY <4>1, Zenon DEF TypeOK
            <4> QED BY <2>1, <3>2, <4>2 DEF dtp_proc_write, TypeOK
        <3>3. CASE c.op = "sending"
            BY <2>1, <2>2, <3>3 DEF dtp_proc_write, TypeOK, AllCommands
        <3>4. CASE c.op = "counter"
            BY <2>1, <2>2, <3>4 DEF dtp_proc_write, TypeOK, AllCommands
        <3> QED BY <2>2, <3>1, <3>2, <3>3, <3>4 DEF AllCommands
    <2>4. board' \in [Ports -> Seq(Nat)]
        BY <2>1 DEF dtp_proc_write, TypeOK
    <2> QED BY <2>1, <2>3, <2>4 DEF dtp_proc_write, TypeOK, LoopInv, Locked, thread
<1>9. CASE Serve
    <2>1. Head(request) \in Ports /\ Tail(request) \in Seq(Ports)
        BY <1>9, HeadTail DEF Serve, TypeOK
    <2>2. board' \in [Ports -> Seq(Nat)] /\ response' \in Seq([port: Ports, msg: Nat])
        <3> DEFINE p == Head(request)
        <3>1. CASE board[p] = <<>>
            BY <1>9, <3>1 DEF Serve, TypeOK
        <3>2. CASE board[p] # <<>>
            <4>1. board[p] \in Seq(Nat)
                BY <2>1 DEF TypeOK
            <4>2. Head(board[p]) \in Nat /\ Tail(board[p]) \in Seq(Nat)
                BY <3>2, <4>1, HeadTail
            <4>3. [port |-> p, msg |-> Head(board[p])] \in [port: Ports, msg: Nat]
                BY <2>1, <4>2
            <4>4. Append(response, [port |-> p, msg |-> Head(board[p])])
                        \in Seq([port: Ports, msg: Nat])
                BY <4>3, AppendLast DEF TypeOK
            <4>5. /\ board' = [board EXCEPT ![p] = Tail(board[p])]
                  /\ response' = Append(response, [port |-> p, msg |-> Head(board[p])])
                BY <1>9, <3>2 DEF Serve
            <4>6. board \in [Ports -> Seq(Nat)]
                BY DEF TypeOK
            <4> QED BY <4>2, <4>4, <4>5, <4>6
        <3> QED BY <3>1, <3>2
    <2> QED BY <1>9, <2>1, <2>2 DEF Serve, TypeOK, LoopInv, Locked, thread
<1>10. CASE \E p \in Ports : Arrive(p)
    <2>1. PICK p \in Ports : Arrive(p)
        BY <1>10
    <2>2. arrived' \in Nat
        <3>1. (arrived + 1) % MsgMod \in Nat
            BY DEF TypeOK
        <3> QED BY <2>1, <3>1 DEF Arrive
    <2>3. board' \in [Ports -> Seq(Nat)]
        <3>1. board[p] \in Seq(Nat)
            BY DEF TypeOK
        <3>2. Append(board[p], arrived') \in Seq(Nat)
            BY <2>2, <3>1, AppendLast
        <3> QED BY <2>1, <3>2 DEF Arrive, TypeOK
    <2> QED BY <2>1, <2>2, <2>3 DEF Arrive, TypeOK, LoopInv, Locked, thread
<1> QED BY <1>1, <1>2, <1>3, <1>4, <1>5, <1>6, <1>7, <1>8, <1>9, <1>10 DEF DaemonNext

\* A step of the daemon leaves the page alone, or leaves it locked, or unlocks
\* it: while the flag is 0 nothing in the page changes.
LEMMA PageKept ==
    ASSUME TypeOK, LoopInv, DaemonNext
    PROVE  \/ dtp_time' = dtp_time
           \/ dtp_time'.flag = 1
           \/ dtp_time.flag = 1 /\ dtp_time'.flag = 0
<1>1. CASE pc \in Locked
    <2>1. dtp_time.flag = 1
        BY <1>1 DEF LoopInv
    <2>2. dtp_time'.flag \in {0, 1}
        BY DaemonPreserves DEF TypeOK
    <2> QED BY <2>1, <2>2
<1>2. CASE pc \notin Locked
    <2>1. CASE Lock
        BY <2>1 DEF Lock, TypeOK
    <2>2. CASE Update
        BY <2>2 DEF Update
    <2>3. CASE \E c \in Commands : dtp_proc_write(c)
        BY <2>3 DEF dtp_proc_write
    <2>4. CASE Serve
        BY <2>4 DEF Serve
    <2>5. CASE \E p \in Ports : Arrive(p)
        BY <2>5 DEF Arrive
    <2> QED BY <1>2, <2>1, <2>2, <2>3, <2>4, <2>5
            DEF DaemonNext, dtp_read_cnt_tsc, dtp_send_log, dtp_recv_log,
                dtp_read_message, Unlock, Locked
<1> QED BY <1>1, <1>2

\* A step of the daemon disturbs no copy that may still be accepted.
LEMMA CopySurvives ==
    ASSUME IInv, DaemonNext, DaemonStep
    PROVE  UserTypeOK' /\ CopyInv'
<1>1. UserTypeOK'
    <2>1. overtaken' \in BOOLEAN
        BY DEF DaemonStep
    <2> QED BY <2>1 DEF IInv, UserTypeOK, DaemonStep
<1>2. CASE dtp_time' = dtp_time
    <2>1. overtaken' = overtaken
        BY <1>2 DEF DaemonStep, IInv, UserTypeOK
    <2> QED BY <1>1, <1>2, <2>1 DEF IInv, CopyInv, DaemonStep
<1>3. CASE dtp_time'.flag = 1
    BY <1>1, <1>3 DEF IInv, CopyInv, DaemonStep
<1>4. CASE dtp_time.flag = 1 /\ dtp_time'.flag = 0
    BY <1>1, <1>4 DEF IInv, CopyInv, DaemonStep
<1> QED BY <1>1, <1>2, <1>3, <1>4, PageKept DEF IInv

\* A step of the reader keeps its types and the copy true to the page.
LEMMA UserPreserves ==
    ASSUME IInv, User
    PROVE  UserTypeOK' /\ CopyInv'
<1> USE DaemonAssumption
<1>t. /\ TypeOK /\ UserTypeOK
      /\ dtp_time' = dtp_time
    BY DEF IInv, User, UserWait, UserCopyCounter, UserCopyEntry, UserCopyLength,
           UserCheck, UserPrint, daemonVars
<1>1. CASE UserWait
    <2>1. 0 \in Counters /\ \A c \in Counters : ~(c < 0)
        BY DEF Counters
    <2> QED BY <1>1, <1>t, <2>1 DEF UserWait, UserTypeOK, CopyInv
<1>2. CASE UserCopyCounter
    <2>1. uj \in Counters /\ dtp_time.dtp_cnt \in [Counters -> Nat] /\ cnt \in [Counters -> Nat]
        BY <1>2, <1>t DEF UserCopyCounter, IInv, CopyInv, TypeOK, UserTypeOK
    <2>2. /\ cnt' \in [Counters -> Nat]
          /\ cnt'[uj] = dtp_time.dtp_cnt[uj]
          /\ \A c \in Counters : c # uj => cnt'[c] = cnt[c]
        BY <1>2, <2>1 DEF UserCopyCounter
    <2>3. UserTypeOK'
        <3>1. uj' \in Nat /\ upc' \in {"counters", "entries"}
            BY <1>2, <2>1 DEF UserCopyCounter, Counters
        <3>2. UNCHANGED <<log, log_cnt, ptsc, printed, overtaken>>
            BY <1>2 DEF UserCopyCounter
        <3> QED BY <1>t, <2>2, <3>1, <3>2 DEF UserTypeOK
    <2>4. ASSUME ~overtaken', dtp_time'.flag = 0
          PROVE  \A c \in Counters : c <= uj => cnt'[c] = dtp_time.dtp_cnt[c]
        <3>1. \A c \in Counters : c < uj => cnt[c] = dtp_time.dtp_cnt[c]
            BY <1>2, <1>t, <2>4 DEF UserCopyCounter, IInv, CopyInv
        <3>2. \A c \in Counters : c <= uj => c < uj \/ c = uj
            BY <2>1 DEF Counters
        <3> QED BY <3>1, <3>2, <2>2
    <2>5. CASE uj = PortNum
        <3>1. \A c \in Counters : c <= uj
            BY <2>5 DEF Counters
        <3>2. upc' = "entries" /\ uj' = 1
            BY <1>2, <2>5 DEF UserCopyCounter
        <3>3. ASSUME ~overtaken', dtp_time'.flag = 0
              PROVE  cnt' = dtp_time.dtp_cnt
            BY <2>1, <2>2, <2>4, <3>1, <3>3
        <3>4. /\ 1 \in Nat \ {0}
              /\ 1 <= Len(dtp_time.log) + 1
              /\ \A k \in 1 .. 1 - 1 : log'[k] = dtp_time.log[k]
            BY <1>t DEF TypeOK
        <3> QED BY <1>t, <2>3, <3>2, <3>3, <3>4 DEF CopyInv
    <2>6. CASE uj # PortNum
        <3>1. upc' = "counters" /\ uj' = uj + 1
            BY <1>2, <2>6 DEF UserCopyCounter
        <3>2. uj' \in Counters /\ \A c \in Counters : c < uj' => c <= uj
            BY <3>1, <2>1, <2>6 DEF Counters
        <3> QED BY <1>t, <2>3, <2>4, <3>1, <3>2 DEF CopyInv
    <2> QED BY <2>5, <2>6
<1>3. CASE UserCopyEntry
    <2>1. uj \in Nat \ {0} /\ log \in [1 .. LogMax -> Entry] /\ dtp_time.log \in Seq(Entry)
        BY <1>3, <1>t DEF UserCopyEntry, IInv, CopyInv, UserTypeOK, TypeOK
    <2>2. Len(dtp_time.log) \in Nat /\ Len(dtp_time.log) <= LogMax
        BY <1>t, <2>1 DEF TypeOK
    <2>3. CASE CopiesOn
        <3>1. uj <= Len(dtp_time.log) /\ uj \in 1 .. LogMax
            BY <2>1, <2>2, <2>3 DEF CopiesOn
        <3>2. dtp_time.log[uj] \in Entry
            BY <2>1, <2>2, <3>1
        <3>3. log' = [log EXCEPT ![uj] = dtp_time.log[uj]] /\ uj' = uj + 1 /\ upc' = "entries"
            BY <1>3, <2>3 DEF UserCopyEntry
        <3>4. /\ log' \in [1 .. LogMax -> Entry]
              /\ log'[uj] = dtp_time.log[uj]
              /\ \A k \in 1 .. LogMax : k # uj => log'[k] = log[k]
            BY <2>1, <3>1, <3>2, <3>3
        <3>5. UserTypeOK'
            BY <1>3, <1>t, <2>1, <3>3, <3>4 DEF UserCopyEntry, UserTypeOK
        <3>6. ASSUME ~overtaken', dtp_time'.flag = 0
              PROVE  \A k \in 1 .. uj' - 1 : log'[k] = dtp_time.log[k]
            <4>1. \A k \in 1 .. uj - 1 : log[k] = dtp_time.log[k]
                BY <1>3, <1>t, <3>6 DEF UserCopyEntry, IInv, CopyInv
            <4>2. \A k \in 1 .. uj' - 1 :
                        k \in 1 .. LogMax /\ (k = uj \/ (k # uj /\ k \in 1 .. uj - 1))
                BY <2>1, <2>2, <3>1, <3>3
            <4> QED BY <3>4, <4>1, <4>2
        <3>7. ASSUME ~overtaken', dtp_time'.flag = 0
              PROVE  cnt' = dtp_time.dtp_cnt
            BY <1>3, <1>t, <3>7 DEF UserCopyEntry, IInv, CopyInv
        <3>8. uj' \in Nat \ {0} /\ uj' <= Len(dtp_time.log) + 1
            BY <2>1, <2>2, <3>1, <3>3
        <3> QED BY <1>t, <3>3, <3>5, <3>6, <3>7, <3>8 DEF CopyInv
    <2>4. CASE ~CopiesOn
        <3>1. upc' = "length" /\ log' = log /\ uj' = uj
            BY <1>3, <2>4 DEF UserCopyEntry
        <3>2. UserTypeOK'
            BY <1>3, <1>t, <3>1 DEF UserCopyEntry, UserTypeOK
        <3>3. ASSUME ~overtaken', dtp_time'.flag = 0
              PROVE  /\ cnt' = dtp_time.dtp_cnt
                     /\ \A k \in 1 .. Len(dtp_time.log) : log'[k] = dtp_time.log[k]
            <4>1. /\ cnt = dtp_time.dtp_cnt
                  /\ \A k \in 1 .. uj - 1 : log[k] = dtp_time.log[k]
                BY <1>3, <1>t, <3>3 DEF UserCopyEntry, IInv, CopyInv
            <4>2. \A k \in 1 .. Len(dtp_time.log) : k \in 1 .. uj - 1
                BY <2>1, <2>2, <2>4 DEF CopiesOn
            <4>3. cnt' = cnt
                BY <1>3 DEF UserCopyEntry
            <4> QED BY <3>1, <4>1, <4>2, <4>3
        <3> QED BY <1>t, <3>1, <3>2, <3>3 DEF CopyInv
    <2> QED BY <2>3, <2>4
<1>4. CASE UserCopyLength
    <2>1. Len(dtp_time.log) \in 0 .. LogMax
        BY <1>t DEF TypeOK
    <2>2. UserTypeOK'
        BY <1>4, <1>t, <2>1 DEF UserCopyLength, UserTypeOK
    <2> QED BY <1>4, <1>t, <2>2 DEF UserCopyLength, IInv, CopyInv
<1>5. CASE UserCheck
    <2>1. upc' \in {"print", "wait"}
        BY <1>5 DEF UserCheck
    <2> QED BY <1>5, <1>t, <2>1 DEF UserCheck, UserTypeOK, CopyInv
<1>6. CASE UserPrint
    <2>1. printed' \in [cnt: [Counters -> Nat], log: Seq(Entry)] /\ ptsc' \in Nat
        <3>1. CASE cnt[0] = ptsc
            BY <1>6, <1>t, <3>1 DEF UserPrint, UserTypeOK
        <3>2. CASE cnt[0] # ptsc
            <4>1. /\ cnt \in [Counters -> Nat] /\ log \in [1 .. LogMax -> Entry]
                  /\ log_cnt \in 0 .. LogMax
                BY <1>t DEF UserTypeOK
            <4>2. SubSeq(log, 1, log_cnt) \in Seq(Entry)
                BY <4>1
            <4>3. cnt[0] \in Nat
                BY <4>1 DEF Counters
            <4> QED BY <1>6, <3>2, <4>1, <4>2, <4>3 DEF UserPrint
        <3> QED BY <3>1, <3>2
    <2> QED BY <1>6, <1>t, <2>1 DEF UserPrint, UserTypeOK, CopyInv
<1> QED BY <1>1, <1>2, <1>3, <1>4, <1>5, <1>6 DEF User

\* The daemon begins with an unlocked, empty page.
LEMMA DaemonInitially ==
    ASSUME Init
    PROVE  TypeOK /\ LoopInv
<1> USE DaemonAssumption
<1>1. PICK on \in BOOLEAN :
        param = [mode |-> TRUE, logging |-> [p \in Ports |-> on],
                 sending |-> [p \in Ports |-> FALSE], counter |-> [c \in Counters |-> TRUE]]
    BY DEF Init
<1>2. param \in [mode: BOOLEAN, logging: [Ports -> BOOLEAN],
                 sending: [Ports -> BOOLEAN], counter: [Counters -> BOOLEAN]]
    BY <1>1
<1>3. dtp \in [mode: BOOLEAN, logging: [Ports -> BOOLEAN], sending: [Ports -> BOOLEAN],
               counter: [Counters -> BOOLEAN], sync: [Ports -> BOOLEAN]]
    BY <1>2 DEF Init
<1>4. dtp_time \in Page /\ Len(dtp_time.log) <= LogMax
    BY DEF Init, Page
<1>5. i \in Counters
    BY DEF Init, Counters
<1>6. TypeOK
    BY <1>2, <1>3, <1>4, <1>5 DEF Init, TypeOK, Page
<1>7. LoopInv
    BY DEF Init, LoopInv, Locked
<1> QED BY <1>6, <1>7

\* The reader begins with nothing copied.
LEMMA Initially ==
    ASSUME Init, UserInit
    PROVE  IInv
<1> USE DaemonAssumption
<1>1. TypeOK
    BY DaemonInitially
<1>2. UserTypeOK
    <2>1. NoEntry \in Entry
        BY DEF NoEntry, Entry, Ports
    <2>2. cnt \in [Counters -> Nat] /\ log \in [1 .. LogMax -> Entry]
        BY <2>1 DEF UserInit
    <2>3. printed \in [cnt: [Counters -> Nat], log: Seq(Entry)]
        BY <2>2 DEF UserInit
    <2>4. uj \in Nat /\ ptsc \in Nat /\ log_cnt \in 0 .. LogMax
        BY DEF UserInit
    <2>5. upc = "wait" /\ overtaken = FALSE
        BY DEF UserInit
    <2> QED BY <2>2, <2>3, <2>4, <2>5 DEF UserTypeOK
<1>3. LoopInv /\ CopyInv
    BY DEF Init, UserInit, LoopInv, CopyInv, Locked
<1> QED BY <1>1, <1>2, <1>3 DEF IInv

\* The types of the daemon and the reader, the agreement of the flag with the
\* daemon's loop, and the faithfulness of the copy hold in every state.
THEOREM UserInvariance == Spec => []IInv
<1>1. Init /\ UserInit => IInv
    BY Initially
<1>2. IInv /\ [Next]_vars => IInv'
    <2> SUFFICES ASSUME IInv, [Next]_vars PROVE IInv'
        OBVIOUS
    <2>1. CASE User
        <3>1. UNCHANGED daemonVars
            BY <2>1 DEF User, UserWait, UserCopyCounter, UserCopyEntry, UserCopyLength,
                        UserCheck, UserPrint
        <3>2. TypeOK' /\ LoopInv'
            BY <3>1 DEF IInv, TypeOK, LoopInv, daemonVars, thread
        <3> QED BY <2>1, <3>2, UserPreserves DEF IInv
    <2>2. CASE DaemonNext /\ DaemonStep
        BY <2>2, DaemonPreserves, CopySurvives DEF IInv
    <2>3. CASE UNCHANGED vars
        BY <2>3 DEF IInv, TypeOK, UserTypeOK, LoopInv, CopyInv, vars, daemonVars, userVars, thread
    <2> QED BY <2>1, <2>2, <2>3 DEF Next
<1> QED BY <1>1, <1>2, PTL DEF Spec

\* The reader accepts only a copy that equals the page, unless the daemon has
\* locked and unlocked the page during the pass.
THEOREM Snapshot == Spec => AcceptsWhole
<1>1. IInv /\ [Next]_vars =>
        [upc = "check" /\ upc' = "print" /\ ~overtaken
            => /\ cnt = dtp_time.dtp_cnt
               /\ log_cnt = Len(dtp_time.log)
               /\ \A k \in 1 .. log_cnt : log[k] = dtp_time.log[k]]_vars
    <2> SUFFICES ASSUME IInv, Next, upc = "check", upc' = "print", ~overtaken
                 PROVE  /\ cnt = dtp_time.dtp_cnt
                        /\ log_cnt = Len(dtp_time.log)
                        /\ \A k \in 1 .. log_cnt : log[k] = dtp_time.log[k]
        BY DEF vars, userVars
    <2>1. UserCheck
        BY DEF Next, User, UserWait, UserCopyCounter, UserCopyEntry, UserCopyLength,
               UserPrint, DaemonStep
    <2>2. dtp_time.flag = 0
        BY <2>1 DEF UserCheck, Accept
    <2> QED BY <2>2 DEF IInv, CopyInv
<1> QED BY <1>1, UserInvariance, PTL DEF Spec, AcceptsWhole
\* The reader never copies beyond its arrays, and the daemon never writes
\* beyond the page.
THEOREM UserTypes == Spec => [](TypeOK /\ UserTypeOK)
<1>1. IInv => TypeOK /\ UserTypeOK
    BY DEF IInv
<1> QED BY <1>1, UserInvariance, PTL

\* The same of the daemon alone.
THEOREM DaemonTypes == DaemonSpec => [](TypeOK /\ LoopInv)
<1>1. Init => TypeOK /\ LoopInv
    BY DaemonInitially
<1>2. (TypeOK /\ LoopInv) /\ [DaemonNext]_daemonVars => (TypeOK /\ LoopInv)'
    <2>1. ASSUME TypeOK, LoopInv, UNCHANGED daemonVars PROVE TypeOK' /\ LoopInv'
        BY <2>1 DEF TypeOK, LoopInv, daemonVars, thread
    <2> QED BY <2>1, DaemonPreserves
<1> QED BY <1>1, <1>2, PTL DEF DaemonSpec

-----------------------------------------------------------------------------
(* The order of the log entries.                                           *)

\* The messages of a port, from the log L of the page over the indication
\* queue R to the board B, are in the order in which they arrived, the last of
\* them as number a.
InOrder(L, R, B, a) ==
    /\ \A k \in DOMAIN L, l \in DOMAIN L : k < l /\ L[k].from = L[l].from => L[k].msg < L[l].msg
    /\ \A k \in DOMAIN L, l \in DOMAIN R : L[k].from = R[l].port => L[k].msg < R[l].msg
    /\ \A k \in DOMAIN L : \A l \in DOMAIN B[L[k].from] : L[k].msg < B[L[k].from][l]
    /\ \A k \in DOMAIN R, l \in DOMAIN R : k < l /\ R[k].port = R[l].port => R[k].msg < R[l].msg
    /\ \A k \in DOMAIN R : \A l \in DOMAIN B[R[k].port] : R[k].msg < B[R[k].port][l]
    /\ \A p \in Ports : \A k \in DOMAIN B[p], l \in DOMAIN B[p] : k < l => B[p][k] < B[p][l]
    /\ \A k \in DOMAIN L : L[k].msg <= a
    /\ \A k \in DOMAIN R : R[k].msg <= a
    /\ \A p \in Ports : \A k \in DOMAIN B[p] : B[p][k] <= a

OrderInv == InOrder(dtp_time.log, response, board, arrived)

\* The places of a log, of an indication queue and of a board, and what is
\* there.
Places(L, R, B) ==
    /\ \A k \in DOMAIN L : k \in Nat /\ L[k].from \in Ports /\ L[k].msg \in Nat
    /\ \A k \in DOMAIN R : k \in Nat /\ R[k].port \in Ports /\ R[k].msg \in Nat
    /\ \A p \in Ports : \A k \in DOMAIN B[p] : k \in Nat /\ B[p][k] \in Nat

\* The queue Q is the queue R without its head.
Shifted(R, Q) ==
    /\ 1 \in DOMAIN R
    /\ \A k \in DOMAIN Q : k \in Nat \ {0} /\ k + 1 \in DOMAIN R /\ Q[k] = R[k + 1]

\* The log M is the log L with the answer x at most behind it.
Logged(L, M, x) ==
    \E n \in Nat :
        /\ \A k \in DOMAIN L : k < n
        /\ \A k \in DOMAIN M : \/ k \in DOMAIN L /\ M[k] = L[k]
                               \/ k = n /\ M[k].from = x.port /\ M[k].msg = x.msg

\* The queue Q is the queue R with x behind it.
Extended(R, Q, x) ==
    \E n \in Nat :
        /\ \A k \in DOMAIN R : k < n
        /\ \A k \in DOMAIN Q : (k \in DOMAIN R /\ Q[k] = R[k]) \/ (k = n /\ Q[k] = x)

\* The boards B and C differ in port p only.
SameBut(B, C, p) == \A q \in Ports : q # p => C[q] = B[q]

\* The first answer becomes the last entry of the log.
LEMMA OrderRead ==
    ASSUME NEW L, NEW R, NEW B, NEW a \in Nat, InOrder(L, R, B, a), Places(L, R, B),
           NEW M, NEW Q, Shifted(R, Q), Logged(L, M, R[1])
    PROVE  InOrder(M, Q, B, a)
<1> USE DEF InOrder, Places, Shifted
<1>0. PICK n \in Nat :
        /\ \A k \in DOMAIN L : k < n
        /\ \A k \in DOMAIN M : \/ k \in DOMAIN L /\ M[k] = L[k]
                               \/ k = n /\ M[k].from = R[1].port /\ M[k].msg = R[1].msg
    BY DEF Logged
<1>1. \A k \in DOMAIN M, l \in DOMAIN M : k < l /\ M[k].from = M[l].from => M[k].msg < M[l].msg
    BY <1>0
<1>2. \A k \in DOMAIN M, l \in DOMAIN Q : M[k].from = Q[l].port => M[k].msg < Q[l].msg
    BY <1>0
<1>3. \A k \in DOMAIN M : \A l \in DOMAIN B[M[k].from] : M[k].msg < B[M[k].from][l]
    BY <1>0
<1>4. \A k \in DOMAIN Q, l \in DOMAIN Q : k < l /\ Q[k].port = Q[l].port => Q[k].msg < Q[l].msg
    BY <1>0
<1>5. \A k \in DOMAIN Q : \A l \in DOMAIN B[Q[k].port] : Q[k].msg < B[Q[k].port][l]
    BY <1>0
<1>6. (\A k \in DOMAIN M : M[k].msg <= a) /\ (\A k \in DOMAIN Q : Q[k].msg <= a)
    BY <1>0
<1> QED BY <1>1, <1>2, <1>3, <1>4, <1>5, <1>6

\* The first message of port p on the board becomes the last answer.
LEMMA OrderServe ==
    ASSUME NEW L, NEW R, NEW B, NEW a \in Nat, InOrder(L, R, B, a), Places(L, R, B),
           NEW Q, NEW C, NEW p \in Ports, NEW x, x.port = p, x.msg = B[p][1],
           Extended(R, Q, x), SameBut(B, C, p), Shifted(B[p], C[p])
    PROVE  InOrder(L, Q, C, a)
<1> USE DEF InOrder, Places, SameBut, Shifted
<1>0. PICK n \in Nat :
        /\ \A k \in DOMAIN R : k < n
        /\ \A k \in DOMAIN Q : \/ k \in DOMAIN R /\ Q[k] = R[k]
                               \/ k = n /\ Q[k].port = p /\ Q[k].msg = B[p][1]
    BY DEF Extended
<1>1. \A k \in DOMAIN L, l \in DOMAIN Q : L[k].from = Q[l].port => L[k].msg < Q[l].msg
    BY <1>0, SMTT(20)
<1>2. \A k \in DOMAIN L : \A l \in DOMAIN C[L[k].from] : L[k].msg < C[L[k].from][l]
    BY <1>0, SMTT(20)
<1>3. \A k \in DOMAIN Q, l \in DOMAIN Q : k < l /\ Q[k].port = Q[l].port => Q[k].msg < Q[l].msg
    BY <1>0
<1>4. ASSUME NEW k \in DOMAIN Q, NEW l \in DOMAIN C[Q[k].port]
      PROVE  Q[k].msg < C[Q[k].port][l]
    <2>1. CASE k \in DOMAIN R /\ Q[k] = R[k] /\ R[k].port # p
        BY <2>1
    <2>2. CASE k \in DOMAIN R /\ Q[k] = R[k] /\ R[k].port = p
        <3>1. l + 1 \in DOMAIN B[p] /\ C[p][l] = B[p][l + 1]
            BY <2>2
        <3>2. R[k].msg < B[p][l + 1]
            BY <2>2, <3>1
        <3> QED BY <2>2, <3>1, <3>2
    <2>3. CASE Q[k].port = p /\ Q[k].msg = B[p][1]
        <3>1. l \in Nat \ {0} /\ l + 1 \in DOMAIN B[p] /\ C[p][l] = B[p][l + 1]
            BY <2>3
        <3>2. B[p][1] < B[p][l + 1]
            BY <3>1
        <3> QED BY <2>3, <3>1, <3>2
    <2> QED BY <1>0, <2>1, <2>2, <2>3
<1>5. \A q \in Ports : \A k \in DOMAIN C[q], l \in DOMAIN C[q] : k < l => C[q][k] < C[q][l]
    BY <1>0
<1>6. \A k \in DOMAIN Q : Q[k].msg <= a
    BY <1>0
<1>7. \A q \in Ports : \A k \in DOMAIN C[q] : C[q][k] <= a
    BY <1>0
<1> QED BY <1>1, <1>2, <1>3, <1>4, <1>5, <1>6, <1>7

\* A message arrives behind the others on the board, with the next number.
LEMMA OrderArrive ==
    ASSUME NEW L, NEW R, NEW B, NEW a \in Nat, InOrder(L, R, B, a), Places(L, R, B),
           NEW C, NEW p \in Ports, SameBut(B, C, p), Extended(B[p], C[p], a + 1)
    PROVE  InOrder(L, R, C, a + 1)
<1> USE DEF InOrder, Places, SameBut
<1>0. PICK n \in Nat :
        /\ \A k \in DOMAIN B[p] : k < n
        /\ \A k \in DOMAIN C[p] : \/ k \in DOMAIN B[p] /\ C[p][k] = B[p][k]
                                  \/ k = n /\ C[p][k] = a + 1
    BY DEF Extended
<1>1. \A k \in DOMAIN L : \A l \in DOMAIN C[L[k].from] : L[k].msg < C[L[k].from][l]
    BY <1>0
<1>2. \A k \in DOMAIN R : \A l \in DOMAIN C[R[k].port] : R[k].msg < C[R[k].port][l]
    BY <1>0
<1>3. \A q \in Ports : \A k \in DOMAIN C[q], l \in DOMAIN C[q] : k < l => C[q][k] < C[q][l]
    BY <1>0
<1>4. \A q \in Ports : \A k \in DOMAIN C[q] : C[q][k] <= a + 1
    BY <1>0
<1>5. (\A k \in DOMAIN L : L[k].msg <= a + 1) /\ (\A k \in DOMAIN R : R[k].msg <= a + 1)
    BY <1>0
<1> QED BY <1>1, <1>2, <1>3, <1>4, <1>5

\* The log is cleared, or the board.
LEMMA OrderCleared ==
    ASSUME NEW L, NEW R, NEW B, NEW a, InOrder(L, R, B, a), Places(L, R, B), NEW M, NEW C,
           M = L \/ DOMAIN M = {}, \A p \in Ports : C[p] = B[p] \/ DOMAIN C[p] = {}
    PROVE  InOrder(M, R, C, a)
BY DEF InOrder, Places
\* A number below the modulus is its own remainder.
LEMMA NoWrap ==
    ASSUME NEW x \in Nat, NEW m \in Nat, x < m
    PROVE  x % m = x
OBVIOUS

\* The places of a queue.
LEMMA QueuePlaces ==
    ASSUME NEW S, NEW q \in Seq(S)
    PROVE  DOMAIN q = 1 .. Len(q) /\ Len(q) \in Nat /\ \A k \in DOMAIN q : q[k] \in S
OBVIOUS

\* Tail and Append, in these terms.
LEMMA QueueSteps ==
    ASSUME NEW S, NEW q \in Seq(S)
    PROVE  /\ q # <<>> => Shifted(q, Tail(q)) /\ Head(q) = q[1] /\ q[1] \in S
           /\ \A x \in S : Extended(q, Append(q, x), x)
<1>1. q # <<>> => Shifted(q, Tail(q)) /\ Head(q) = q[1] /\ q[1] \in S
    BY DEF Shifted
<1>2. ASSUME NEW x \in S PROVE Extended(q, Append(q, x), x)
    <2>1. Len(q) + 1 \in Nat /\ \A k \in DOMAIN q : k < Len(q) + 1
        OBVIOUS
    <2>2. \A k \in DOMAIN Append(q, x) : \/ k \in DOMAIN q /\ Append(q, x)[k] = q[k]
                                         \/ k = Len(q) + 1 /\ Append(q, x)[k] = x
        OBVIOUS
    <2> QED BY <2>1, <2>2 DEF Extended
<1> QED BY <1>1, <1>2

\* A step of the daemon, of a user or of the board keeps the order as long as
\* the numbers of the messages have not wrapped around.
LEMMA OrderPreserved ==
    ASSUME TypeOK, LoopInv, OrderInv, arrived < MsgMod - 1, DaemonNext
    PROVE  OrderInv'
<1> DEFINE L == dtp_time.log
           R == response
<1>0. /\ R \in Seq([port: Ports, msg: Nat]) /\ L \in Seq(Entry)
      /\ board \in [Ports -> Seq(Nat)] /\ arrived \in Nat /\ MsgMod \in Nat
    BY DaemonAssumption DEF TypeOK
<1> HIDE DEF L, R
<1>1. /\ \A k \in DOMAIN L : k \in Nat /\ L[k] \in Entry
      /\ \A k \in DOMAIN R : k \in Nat /\ R[k] \in [port: Ports, msg: Nat]
    <2>1. DOMAIN L = 1 .. Len(L) /\ Len(L) \in Nat /\ \A k \in DOMAIN L : L[k] \in Entry
        BY <1>0, QueuePlaces
    <2> DEFINE Answer == [port: Ports, msg: Nat]
    <2> HIDE DEF Answer
    <2>2. DOMAIN R = 1 .. Len(R) /\ Len(R) \in Nat /\ \A k \in DOMAIN R : R[k] \in Answer
        BY <1>0, QueuePlaces DEF Answer
    <2> QED BY <2>1, <2>2 DEF Answer
<1>2. ASSUME NEW p \in Ports
      PROVE  board[p] \in Seq(Nat) /\ \A k \in DOMAIN board[p] : k \in Nat /\ board[p][k] \in Nat
    BY <1>0, QueuePlaces
<1>3. Places(L, R, board)
    BY <1>1, <1>2 DEF Places, Entry
<1>4. InOrder(L, R, board, arrived)
    BY DEF OrderInv, L, R
<1> SUFFICES InOrder(L', R', board', arrived')
    BY DEF OrderInv, L, R
<1>5. CASE Lock
    <2>1. UNCHANGED <<R, board, arrived>>
        BY <1>5 DEF Lock, R
    <2>2. L' = <<>>
        BY <1>5 DEF Lock, TypeOK, L
    <2>3. DOMAIN L' = {}
        BY <2>2
    <2> QED BY <1>3, <1>4, <2>1, <2>3, OrderCleared
<1>6. CASE dtp_read_message /\ R # <<>>
    <2> DEFINE e == [port |-> i, from |-> Head(R).port, msg |-> Head(R).msg, round |-> round]
    <2>1. R' = Tail(R) /\ dtp_time' = dtp_insert_log(e) /\ UNCHANGED <<board, arrived>>
        BY <1>6 DEF dtp_read_message, R
    <2>2. Shifted(R, R') /\ Head(R) = R[1] /\ R[1] \in [port: Ports, msg: Nat]
        BY <1>0, <1>6, <2>1, QueueSteps
    <2>3. e \in Entry /\ e.from = R[1].port /\ e.msg = R[1].msg
        <3>1. i \in Ports /\ round \in Nat
            BY <1>6, DaemonAssumption DEF dtp_read_message, TypeOK, LoopInv, Counters, Ports
        <3> QED BY <2>2, <3>1 DEF Entry
    <2> HIDE DEF e
    <2>4. L' = L \/ L' = Append(L, e)
        BY <2>1 DEF dtp_insert_log, TypeOK, L
    <2>5. Logged(L, L', R[1])
        <3>1. Extended(L, Append(L, e), e)
            BY <1>0, <2>3, QueueSteps
        <3>2. CASE L' = Append(L, e)
            BY <2>3, <3>1, <3>2 DEF Extended, Logged
        <3>3. CASE L' = L
            BY <3>1, <3>3 DEF Extended, Logged
        <3> QED BY <2>4, <3>2, <3>3
    <2>6. InOrder(L', R', board, arrived)
        BY <1>0, <1>3, <1>4, <2>2, <2>5, OrderRead
    <2> QED BY <2>1, <2>6
<1>7. CASE Serve
    <2> DEFINE p == Head(request)
               x == [port |-> p, msg |-> Head(board[p])]
    <2>1. p \in Ports
        BY <1>7, HeadTail DEF Serve, TypeOK
    <2>2. UNCHANGED <<L, arrived>>
        BY <1>7 DEF Serve, L
    <2>3. CASE board[p] = <<>>
        BY <1>4, <1>7, <2>2, <2>3 DEF Serve, R
    <2>4. CASE board[p] # <<>>
        <3>1. R' = Append(R, x) /\ board' = [board EXCEPT ![p] = Tail(board[p])]
            BY <1>7, <2>4 DEF Serve, R
        <3> HIDE DEF p
        <3>2. SameBut(board, board', p) /\ board'[p] = Tail(board[p])
            BY <1>0, <2>1, <3>1 DEF SameBut
        <3>3. /\ Shifted(board[p], board'[p])
              /\ Head(board[p]) = board[p][1] /\ board[p][1] \in Nat
            BY <1>2, <2>1, <2>4, <3>2, QueueSteps
        <3>4. x \in [port: Ports, msg: Nat] /\ x.port = p /\ x.msg = board[p][1]
            BY <2>1, <3>3
        <3> HIDE DEF x
        <3>5. Extended(R, R', x)
            BY <1>0, <3>1, <3>4, QueueSteps
        <3>6. InOrder(L, R', board', arrived)
            BY <1>0, <1>3, <1>4, <2>1, <3>2, <3>3, <3>4, <3>5, OrderServe
        <3> QED BY <2>2, <3>6
    <2> QED BY <2>3, <2>4
<1>8. ASSUME NEW p \in Ports, Arrive(p) PROVE InOrder(L', R', board', arrived')
    <2>1. arrived' = arrived + 1
        <3>1. arrived + 1 \in Nat /\ arrived + 1 < MsgMod
            BY <1>0
        <3>2. (arrived + 1) % MsgMod = arrived + 1
            BY <1>0, <3>1, NoWrap
        <3> QED BY <1>8, <3>2 DEF Arrive
    <2>2. board' = [board EXCEPT ![p] = Append(board[p], arrived + 1)] /\ UNCHANGED <<L, R>>
        BY <1>8, <2>1 DEF Arrive, L, R
    <2>3. SameBut(board, board', p) /\ board'[p] = Append(board[p], arrived + 1)
        BY <1>0, <2>2 DEF SameBut
    <2>4. board[p] \in Seq(Nat) /\ arrived + 1 \in Nat
        BY <1>0, <1>2
    <2>5. Extended(board[p], board'[p], arrived + 1)
        BY <2>3, <2>4, QueueSteps
    <2>6. InOrder(L, R, board', arrived + 1)
        BY <1>0, <1>3, <1>4, <2>3, <2>5, OrderArrive
    <2> QED BY <2>1, <2>2, <2>6
<1>9. ASSUME NEW c \in Commands, dtp_proc_write(c) PROVE InOrder(L', R', board', arrived')
    <2>1. L' = L /\ R' = R /\ arrived' = arrived
        BY <1>9 DEF dtp_proc_write, L, R
    <2>2. \A p \in Ports : board'[p] = board[p] \/ DOMAIN board'[p] = {}
        <3>1. board' = board \/ \A p \in Ports : board'[p] = <<>>
            BY <1>9 DEF dtp_proc_write
        <3>2. DOMAIN <<>> = {}
            OBVIOUS
        <3> QED BY <3>1, <3>2
    <2> QED BY <1>3, <1>4, <2>1, <2>2, OrderCleared
<1>10. CASE dtp_read_cnt_tsc
    <2>1. L' = L
        BY <1>10 DEF dtp_read_cnt_tsc, TypeOK, L
    <2> QED BY <1>4, <1>10, <2>1 DEF dtp_read_cnt_tsc, R
<1>11. CASE dtp_send_log \/ dtp_recv_log \/ Update
    BY <1>4, <1>11 DEF dtp_send_log, dtp_recv_log, Update, L, R
<1>12. CASE dtp_read_message /\ R = <<>>
    BY <1>4, <1>12 DEF dtp_read_message, L, R
<1>13. CASE Unlock
    <2>1. L' = L
        BY <1>13 DEF Unlock, TypeOK, L
    <2> QED BY <1>4, <1>13, <2>1 DEF Unlock, R
<1> QED BY <1>5, <1>6, <1>7, <1>8, <1>9, <1>10, <1>11, <1>12, <1>13 DEF DaemonNext, R

\* The messages of a port are entered once each and in the order of their
\* arrival, for every number of ports and every depth of the queues, as long
\* as their 32-bit numbers have not wrapped around.
THEOREM EntriesOrdered ==
    DaemonSpec /\ [](arrived < MsgMod - 1) => []EntriesInOrder
<1>1. Init => OrderInv
    BY DEF Init, OrderInv, InOrder
<1>2. (TypeOK /\ LoopInv) /\ OrderInv /\ arrived < MsgMod - 1 /\ [DaemonNext]_daemonVars => OrderInv'
    <2>1. ASSUME OrderInv, UNCHANGED daemonVars PROVE OrderInv'
        BY <2>1 DEF OrderInv, daemonVars
    <2> QED BY <2>1, OrderPreserved
<1>3. (TypeOK /\ LoopInv) /\ OrderInv => EntriesInOrder
    <2> SUFFICES ASSUME TypeOK, OrderInv PROVE EntriesInOrder
        OBVIOUS
    <2>1. /\ \A k \in DOMAIN dtp_time.log : dtp_time.log[k].msg \in Nat
          /\ \A k \in DOMAIN dtp_time.log : dtp_time.log[k].from \in Ports
          /\ \A l \in DOMAIN response : response[l].msg \in Nat
          /\ \A p \in Ports : \A l \in DOMAIN board[p] : board[p][l] \in Nat
        <3>1. /\ dtp_time.log \in Seq(Entry) /\ response \in Seq([port: Ports, msg: Nat])
              /\ \A p \in Ports : board[p] \in Seq(Nat)
            BY DEF TypeOK
        <3>2. /\ \A k \in DOMAIN dtp_time.log : dtp_time.log[k] \in Entry
              /\ \A l \in DOMAIN response : response[l] \in [port: Ports, msg: Nat]
              /\ \A p \in Ports : \A l \in DOMAIN board[p] : board[p][l] \in Nat
            BY <3>1, QueuePlaces
        <3> QED BY <3>2 DEF Entry
    <2> QED BY <2>1 DEF OrderInv, InOrder, EntriesInOrder
<1> QED BY <1>1, <1>2, <1>3, DaemonTypes, PTL DEF DaemonSpec
-----------------------------------------------------------------------------
(* What the reader prints.                                                 *)

\* The rounds only grow from what was printed over the copy and the page to the
\* round the daemon is at.
PrintInv ==
    /\ ptsc = printed.cnt[0]
    /\ ptsc <= cnt[0]
    /\ cnt[0] <= dtp_time.dtp_cnt[0]
    /\ dtp_time.dtp_cnt[0] <= round

\* A step keeps them in order as long as the round has not wrapped around.
LEMMA PrintPreserved ==
    ASSUME IInv, PrintInv, round < RoundMod - 1, [Next]_vars
    PROVE  PrintInv'
<1>0. /\ 0 \in Counters /\ PortNum \in Nat \ {0} /\ RoundMod \in Nat /\ round \in Nat
      /\ dtp_time \in Page /\ cnt \in [Counters -> Nat] /\ ptsc \in Nat
      /\ TypeOK /\ UserTypeOK /\ i \in Counters
    <2>1. TypeOK /\ UserTypeOK
        BY DEF IInv
    <2>2. PortNum \in Nat \ {0} /\ RoundMod \in Nat
        BY DaemonAssumption
    <2>3. 0 \in Counters
        BY <2>2 DEF Counters
    <2>4. round \in Nat /\ dtp_time \in Page /\ i \in Counters
        <3>1. round \in Nat /\ i \in Counters
            BY <2>1 DEF TypeOK
        <3>2. dtp_time \in Page
            BY <2>1 DEF TypeOK, Page
        <3> QED BY <3>1, <3>2
    <2>5. cnt \in [Counters -> Nat] /\ ptsc \in Nat
        BY <2>1 DEF UserTypeOK
    <2> QED BY <2>1, <2>2, <2>3, <2>4, <2>5
<1>1. dtp_time.dtp_cnt \in [Counters -> Nat]
    BY <1>0 DEF Page
<1>2. ASSUME UNCHANGED <<cnt, ptsc, printed>>, dtp_time'.dtp_cnt = dtp_time.dtp_cnt, round' >= round
      PROVE  PrintInv'
    <2>1. round' >= dtp_time.dtp_cnt[0]
        <3>1. \/ round' = round
              \/ Lock
            BY <1>2 DEF Next, User, UserWait, UserCopyCounter, UserCopyEntry, UserCopyLength,
                        UserCheck, UserPrint, DaemonNext, dtp_read_cnt_tsc, dtp_send_log,
                        dtp_recv_log, dtp_read_message, Unlock, Update, dtp_proc_write, Serve, Arrive,
                        vars, daemonVars, thread
        <3>2. round' \in Nat
            BY <1>0, <3>1 DEF Lock
        <3> QED BY <1>0, <1>1, <1>2, <3>2 DEF PrintInv
    <2> QED BY <1>2, <2>1 DEF PrintInv
<1>3. CASE Lock /\ DaemonStep
    <2>1. round' = round + 1
        <3>1. (round + 1) % RoundMod = round + 1
            <4>1. round + 1 \in Nat /\ round + 1 < RoundMod
                BY <1>0
            <4> QED BY <1>0, <4>1, NoWrap
        <3> QED BY <1>3, <3>1 DEF Lock
    <2>2. dtp_time'.dtp_cnt = dtp_time.dtp_cnt
        BY <1>0, <1>3 DEF Lock, Page
    <2> QED BY <1>0, <1>2, <1>3, <2>1, <2>2 DEF DaemonStep
<1>4. CASE dtp_read_cnt_tsc /\ DaemonStep
    <2>1. dtp_time'.dtp_cnt[0] \in {dtp_time.dtp_cnt[0], round}
        <3>1. CASE dtp.counter[i]
            <4>1. dtp_time' = [dtp_time EXCEPT !.dtp_cnt = [dtp_time.dtp_cnt EXCEPT ![i] = round]]
                BY <1>4, <3>1 DEF dtp_read_cnt_tsc
            <4>2. dtp_time'.dtp_cnt = [dtp_time.dtp_cnt EXCEPT ![i] = round]
                BY <1>0, <4>1 DEF Page
            <4> QED BY <1>0, <1>1, <4>2
        <3>2. CASE ~dtp.counter[i]
            BY <1>4, <3>2 DEF dtp_read_cnt_tsc
        <3> QED BY <3>1, <3>2
    <2>2. UNCHANGED <<cnt, ptsc, printed, round>>
        BY <1>4 DEF dtp_read_cnt_tsc, DaemonStep
    <2> QED BY <1>0, <1>1, <2>1, <2>2 DEF PrintInv
<1>5. CASE dtp_read_message /\ DaemonStep
    <2>1. dtp_time'.dtp_cnt = dtp_time.dtp_cnt /\ round' = round
        BY <1>0, <1>5 DEF dtp_read_message, dtp_insert_log, Page
    <2> QED BY <1>0, <1>2, <1>5, <2>1 DEF DaemonStep
<1>6. CASE Unlock /\ DaemonStep
    <2>1. dtp_time'.dtp_cnt = dtp_time.dtp_cnt /\ round' = round
        BY <1>0, <1>6 DEF Unlock, Page
    <2> QED BY <1>0, <1>2, <1>6, <2>1 DEF DaemonStep
<1>7. CASE /\ dtp_send_log \/ dtp_recv_log \/ Update \/ Serve
              \/ (\E c \in Commands : dtp_proc_write(c)) \/ (\E p \in Ports : Arrive(p))
           /\ DaemonStep
    <2>1. dtp_time' = dtp_time /\ round' = round
        BY <1>7 DEF dtp_send_log, dtp_recv_log, Update, Serve, dtp_proc_write, Arrive, thread
    <2> QED BY <1>0, <1>2, <1>7, <2>1 DEF DaemonStep
<1>8. CASE UserCopyCounter
    <2>1. uj \in Counters
        BY <1>8 DEF UserCopyCounter, IInv, CopyInv
    <2>2. cnt'[0] \in {cnt[0], dtp_time.dtp_cnt[0]}
        BY <1>0, <1>8, <2>1 DEF UserCopyCounter
    <2>3. UNCHANGED <<dtp_time, round, ptsc, printed>>
        BY <1>8 DEF UserCopyCounter, daemonVars, thread
    <2> QED BY <1>0, <1>1, <2>2, <2>3 DEF PrintInv
<1>9. CASE UserPrint
    <2>1. UNCHANGED <<dtp_time, round, cnt>>
        BY <1>9 DEF UserPrint, daemonVars, thread
    <2>2. CASE cnt[0] # ptsc
        <3>1. ptsc' = cnt[0] /\ printed'.cnt = cnt
            BY <1>9, <2>2 DEF UserPrint
        <3> QED BY <1>0, <2>1, <3>1 DEF PrintInv
    <2>3. CASE cnt[0] = ptsc
        BY <1>9, <2>1, <2>3 DEF UserPrint, PrintInv
    <2> QED BY <2>2, <2>3
<1>10. CASE UserWait \/ UserCopyEntry \/ UserCopyLength \/ UserCheck \/ UNCHANGED vars
    <2>1. UNCHANGED <<dtp_time, round, cnt, ptsc, printed>>
        BY <1>10 DEF UserWait, UserCopyEntry, UserCopyLength, UserCheck, vars, userVars,
                     daemonVars, thread
    <2> QED BY <1>0, <1>2, <2>1
<1> QED BY <1>3, <1>4, <1>5, <1>6, <1>7, <1>8, <1>9, <1>10 DEF Next, User, DaemonNext

\* No round is printed twice or after a later one, however the passes of the
\* reader and the rounds of the daemon overlap, as long as the time stamps
\* have not wrapped around.
THEOREM Forward == Spec /\ [](round < RoundMod - 1) => PrintsForward
<1>1. Init /\ UserInit => PrintInv
    <2> SUFFICES ASSUME Init, UserInit PROVE PrintInv
        OBVIOUS
    <2>1. 0 \in Counters
        BY DaemonAssumption DEF Counters
    <2>2. printed.cnt = cnt /\ ptsc = 0 /\ round = 0 /\ cnt[0] = 0 /\ dtp_time.dtp_cnt[0] = 0
        BY <2>1 DEF Init, UserInit
    <2> QED BY <2>2 DEF PrintInv
<1>2. IInv /\ PrintInv /\ round < RoundMod - 1 /\ [Next]_vars => PrintInv'
    BY PrintPreserved
<1>3. IInv /\ PrintInv /\ [Next]_vars =>
        [printed' # printed => printed'.cnt[0] > printed.cnt[0]]_vars
    <2> SUFFICES ASSUME IInv, PrintInv, Next, printed' # printed
                 PROVE  printed'.cnt[0] > printed.cnt[0]
        BY DEF vars, userVars
    <2>1. UserPrint
        BY DEF Next, User, UserWait, UserCopyCounter, UserCopyEntry, UserCopyLength, UserCheck,
               DaemonStep
    <2>2. cnt[0] # ptsc /\ printed'.cnt = cnt
        BY <2>1 DEF UserPrint
    <2>3. cnt[0] \in Nat /\ ptsc \in Nat
        BY DaemonAssumption DEF IInv, UserTypeOK, Counters
    <2> QED BY <2>2, <2>3 DEF PrintInv
<1> QED BY <1>1, <1>2, <1>3, UserInvariance, PTL DEF Spec, PrintsForward
=============================================================================

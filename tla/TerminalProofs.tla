--------------------------- MODULE TerminalProofs ---------------------------
(***************************************************************************)
(* The theorems about Terminal, for any number of users and terminals: why *)
(* the machine can stop, where a read() is while it waits for its line,    *)
(* and that nobody else waits for ever.  First the inductive invariant and *)
(* the steps of the users and of task_fs, then those of task_tty.          *)
(***************************************************************************)
EXTENDS Terminal, IPCProofs

(***************************************************************************)
(* The inductive invariant.  A user in a call is sending its request,      *)
(* owed an answer, or answered.                                            *)
(***************************************************************************)
Request(u) == Body(asked[u].type, asked[u].cnt, NO_TASK, asked[u].dev)

Asking(u) ==
  /\ asked[u] # NoCall /\ flags[u] = {SENDING} /\ sendto[u] = FS /\ both[u] = FS
  /\ buf[u] = [source |-> u, body |-> Request(u)]

Owed(u) ==
  /\ asked[u] # NoCall
  /\ \/ flags[u] = {} /\ both[u] = FS
     \/ flags[u] = {RECEIVING} /\ recvfrom[u] = FS /\ both[u] = NO_TASK

Settled(u) == flags[u] = {} /\ both[u] = NO_TASK

UserInv == \A u \in Users : Asking(u) \/ Owed(u) \/ Settled(u)

(***************************************************************************)
(* Where task_fs is: ready, answering u, waiting for a message, holding    *)
(* the request of u or the line of u, or in the dialogue with task_tty     *)
(* about u: asking, waiting for the reply, or holding it.                  *)
(***************************************************************************)
Reads(u) == Owed(u) /\ asked[u].type = "READ"

FsReady == fs_pc.at = "receive" /\ flags[FS] = {} /\ both[FS] = NO_TASK

FsAnswering(u) ==
  /\ fs_pc.at = "receive" /\ flags[FS] = {SENDING} /\ sendto[FS] = u /\ both[FS] = NO_TASK
  /\ Owed(u)

FsWaits ==
  fs_pc.at = "serve" /\ flags[FS] = {RECEIVING} /\ recvfrom[FS] = ANY /\ both[FS] = NO_TASK

FsHas(u) ==
  /\ fs_pc.at = "serve" /\ flags[FS] = {} /\ both[FS] = NO_TASK
  /\ Owed(u) /\ buf[FS] = [source |-> u, body |-> Request(u)]

IsLine(m, u) ==
  /\ m.source = TTY /\ m.body.type = "RESUME_PROC" /\ m.body.proc = u
  /\ m.body \in Bodies

FsHasLine(u) ==
  /\ fs_pc.at = "serve" /\ flags[FS] = {} /\ both[FS] = NO_TASK
  /\ Reads(u) /\ IsLine(buf[FS], u)

\* The request task_fs hands on for u.
DevRequest(u) ==
  Body([OPEN |-> "DEV_OPEN", READ |-> "DEV_READ", WRITE |-> "DEV_WRITE"][asked[u].type],
       asked[u].cnt, u, asked[u].dev)

\* m is what task_tty replies to it.
IsReply(m, u) ==
  /\ m.body \in Bodies
  /\ asked[u].type = "READ" <=> m.body.type = "SUSPEND_PROC"
  /\ asked[u].type # "OPEN" => m.body.cnt = asked[u].cnt
  /\ m.body.type # "RESUME_PROC"

FsServes(u) ==
  /\ fs_pc = [at |-> "driver", type |-> asked[u].type, src |-> u, len |-> asked[u].cnt]
  /\ Owed(u)

FsAsks(u) ==
  /\ FsServes(u) /\ flags[FS] = {SENDING} /\ sendto[FS] = TTY /\ both[FS] = TTY
  /\ buf[FS] = [source |-> FS, body |-> DevRequest(u)]

FsAwaits(u) ==
  /\ FsServes(u)
  /\ \/ flags[FS] = {} /\ both[FS] = TTY
     \/ flags[FS] = {RECEIVING} /\ recvfrom[FS] = TTY /\ both[FS] = NO_TASK

FsTold(u) ==
  /\ FsServes(u) /\ flags[FS] = {} /\ both[FS] = NO_TASK
  /\ IsReply(buf[FS], u)

FsInv ==
  \/ FsReady \/ FsWaits
  \/ \E u \in Users :
       FsAnswering(u) \/ FsHas(u) \/ FsHasLine(u) \/ FsAsks(u) \/ FsAwaits(u) \/ FsTold(u)

(***************************************************************************)
(* Where task_tty is: in its loop over the terminals, there blocked with   *)
(* the reply about u or with the line of u, waiting for a message, or      *)
(* holding an interrupt or the request about u.                            *)
(***************************************************************************)
Scans == tty_pc[1] \in {"keys", "write", "resume"}

TtyRuns == (Scans \/ tty_pc[1] = "receive") /\ flags[TTY] = {}

TtyReplies(u) ==
  /\ Scans /\ tty_pc[1] # "resume"
  /\ flags[TTY] = {SENDING} /\ sendto[TTY] = FS
  /\ FsAwaits(u) /\ buf[TTY].source = TTY /\ IsReply(buf[TTY], u)

TtyResumes(u) ==
  /\ tty_pc[1] \in {"keys", "write", "receive"}
  /\ flags[TTY] = {SENDING} /\ sendto[TTY] = FS
  /\ Reads(u) /\ IsLine(buf[TTY], u)

TtyWaits == tty_pc[1] = "serve" /\ flags[TTY] = {RECEIVING} /\ recvfrom[TTY] = ANY

TtyHasInt == tty_pc[1] = "serve" /\ flags[TTY] = {} /\ buf[TTY] = IntMessage

TtyHas(u) ==
  /\ tty_pc[1] = "serve" /\ flags[TTY] = {}
  /\ FsAwaits(u) /\ buf[TTY] = [source |-> FS, body |-> DevRequest(u)]

TtyInv ==
  /\ both[TTY] = NO_TASK
  /\ \/ TtyRuns \/ TtyWaits \/ TtyHasInt
     \/ \E u \in Users : TtyReplies(u) \/ TtyResumes(u) \/ TtyHas(u)
  /\ \A u \in Users : FsAwaits(u) => TtyReplies(u) \/ TtyHas(u)

(***************************************************************************)
(* Where the read of u is: its request has not reached the terminal yet,   *)
(* a terminal holds it, or its line is on the way, in the hands of         *)
(* task_tty or of task_fs; in one of these places only.                    *)
(***************************************************************************)
Held(u) ==
  \/ fs_pc.at = "serve" /\ flags[FS] = {} /\ buf[FS].source = u
  \/ /\ fs_pc.at = "driver" /\ fs_pc.src = u
     /\ \/ SENDING \in flags[FS]
        \/ tty_pc[1] = "serve" /\ flags[TTY] = {} /\ buf[TTY].source = FS

LineAt(t) == reader[t].left > 0 \/ tty_pc = <<"resume", t>>

TtySends(u) ==
  SENDING \in flags[TTY] /\ buf[TTY].body.type = "RESUME_PROC" /\ buf[TTY].body.proc = u

FsPasses(u) ==
  \/ /\ fs_pc.at = "serve" /\ flags[FS] = {}
     /\ buf[FS].source = TTY /\ buf[FS].body.proc = u
  \/ fs_pc.at = "receive" /\ SENDING \in flags[FS] /\ sendto[FS] = u

\* The line of u has yet to be typed.
Waits(u) == Reads(u) /\ ~Held(u) /\ ~TtySends(u) /\ ~FsPasses(u)

LineInv ==
  /\ \A t \in Terminals : LineAt(t) =>
       reader[t].caller = FS /\ reader[t].procnr \in Users /\ Waits(reader[t].procnr)
  /\ \A s, t \in Terminals :
       LineAt(s) /\ LineAt(t) /\ reader[s].procnr = reader[t].procnr => s = t
  /\ \A u \in Users : TtySends(u) => Reads(u) /\ ~Held(u) /\ ~FsPasses(u)

InDriver(u) == fs_pc.at = "driver" /\ fs_pc.src = u

Kept(u) ==
  IF asked[u].type = "READ"
  THEN \/ Held(u) \/ TtySends(u) \/ FsPasses(u)
       \/ \E t \in Terminals : LineAt(t) /\ reader[t].procnr = u
       \/ u \in overtaken \/ asked[u].cnt = 0
  ELSE Held(u) \/ FsPasses(u) \/ InDriver(u)

KeptInv == \A u \in Users : Owed(u) => Kept(u)

\* Keys and characters that task_tty has not seen lie ahead of it in its loop,
\* or will be announced.
KeysInv ==
  /\ kb # <<>> /\ ~key_pressed =>
       tty_pc[1] = "keys" \/ (Scans /\ tty_pc[2] < current)
  /\ \A t \in Terminals : inbuf[t] # <<>> => Scans /\ tty_pc[2] <= t

Readers == [caller : {NO_TASK, FS}, procnr : Users \cup {NO_TASK},
            left : 0 .. MAX_CNT, trans : 0 .. MAX_CNT]
Calls == [type : {"OPEN", "READ", "WRITE"}, cnt : 0 .. MAX_CNT, dev : Terminals]

TTypes ==
  /\ kb \in Seq(Typed) /\ key_pressed \in BOOLEAN /\ current \in Terminals
  /\ inbuf \in [Terminals -> Seq(Chars)]
  /\ reader \in [Terminals -> Readers]
  /\ \A t \in Terminals : reader[t].left + reader[t].trans <= MAX_CNT
  /\ tty_pc \in {"keys", "write", "resume", "receive", "serve"} \X Terminals
  /\ asked \in [Users -> Calls \cup {NoCall}]

RunInv ==
  /\ IInv /\ TTypes
  /\ UserInv /\ FsInv /\ TtyInv /\ LineInv /\ KeptInv /\ KeysInv

TInv == HaltsOnlyAtResume /\ (halt = "no" => RunInv)
-----------------------------------------------------------------------------
(***************************************************************************)
(* What a system call does, process by process                             *)
(***************************************************************************)

\* The step leaves what the kernel keeps of x, and its message, alone.
Same(x) ==
  /\ flags'[x] = flags[x] /\ sendto'[x] = sendto[x]
  /\ recvfrom'[x] = recvfrom[x] /\ buf'[x] = buf[x]

\* A leaf is left to Zenon unless it says SMT (arithmetic, records).
USE Zenon

\* A SEND, or the SEND half of BOTH, that finds no deadlock: the receiver has the
\* message, or the sender is blocked.
LEMMA Sent ==
  ASSUME IInv, NEW p \in Procs, NEW dest \in Procs \ {p}, NEW body \in Bodies,
         Send(p, dest, body) \/ SendBoth(p, dest, body), halt' # "panic"
  PROVE  /\ IInv' /\ halt = "no" /\ halt' = "no" /\ flags[p] = {} /\ both[p] = NO_TASK
         /\ \A x \in Procs \ {p} : both'[x] = both[x] /\ (x # dest => Same(x))
         /\ buf'[p] = [source |-> p, body |-> body]
         /\ \/ /\ flags[dest] = {RECEIVING} /\ recvfrom[dest] \in {p, ANY}
               /\ flags'[dest] = {} /\ buf'[dest] = [source |-> p, body |-> body]
               /\ flags'[p] = {}
            \/ Same(dest) /\ flags'[p] = {SENDING} /\ sendto'[p] = dest
<1> USE ConstantsAssumption
<1> DEFINE m == [source |-> p, body |-> body]
<1>1. Next
  BY DEF Next
<1>2. IInv'
  BY <1>1, NextInv
<1>3. halt = "no" /\ halt' = "no" /\ flags[p] = {} /\ both[p] = NO_TASK
  BY <1>2 DEF IInv, TypeOK, AssertsHold, Send, SendBoth, Runnable
<1>4. \A x \in Procs \ {p} : both'[x] = both[x]
  BY DEF IInv, TypeOK, Send, SendBoth
<1>5. SendDeliver(p, dest, body) \/ SendBlock(p, dest, body)
  BY DEF Send, SendBoth, msg_send, SendPanic
<1>6. CASE SendDeliver(p, dest, body)
  <2>1. flags[dest] = {RECEIVING} /\ recvfrom[dest] \in {p, ANY}
    BY <1>6 DEF SendDeliver, Awaits, IInv, FieldsAgree
  <2>2. /\ flags' = [flags EXCEPT ![dest] = @ \ {RECEIVING}]
        /\ recvfrom' = [recvfrom EXCEPT ![dest] = NO_TASK]
        /\ sendto' = sendto /\ buf' = [buf EXCEPT ![p] = m, ![dest] = m]
    BY <1>6 DEF SendDeliver
  <2> HIDE DEF m
  <2>3. buf'[p] = m /\ buf'[dest] = m /\ flags'[dest] = {} /\ flags'[p] = {}
    BY <2>1, <2>2, <1>3 DEF IInv, TypeOK
  <2>4. \A x \in Procs \ {p} : x # dest => Same(x)
    BY <2>2 DEF IInv, TypeOK, Same
  <2> QED
    BY <1>2, <1>3, <1>4, <2>1, <2>3, <2>4 DEF m
<1>7. CASE SendBlock(p, dest, body)
  <2>1. /\ flags' = [flags EXCEPT ![p] = @ \cup {SENDING}]
        /\ sendto' = [sendto EXCEPT ![p] = dest]
        /\ recvfrom' = recvfrom /\ buf' = [buf EXCEPT ![p] = m]
    BY <1>7 DEF SendBlock
  <2> HIDE DEF m
  <2>2. buf'[p] = m /\ flags'[p] = {SENDING} /\ sendto'[p] = dest
    BY <2>1, <1>3 DEF IInv, TypeOK
  <2>3. \A x \in Procs \ {p} : Same(x)
    BY <2>1 DEF IInv, TypeOK, Same
  <2> QED
    BY <1>2, <1>3, <1>4, <2>2, <2>3 DEF m
<1> QED
  BY <1>5, <1>6, <1>7

\* A RECEIVE, or the RECEIVE half of BOTH: the caller has an interrupt's message
\* or that of a blocked sender, or is blocked.
LEMMA Got ==
  ASSUME IInv, NEW p \in Procs, NEW src \in Sources \ {p},
         Receive(p, src) \/ (ReceiveBoth(p) /\ both[p] = src)
  PROVE  /\ IInv' /\ halt = "no" /\ halt' = "no" /\ flags[p] = {} /\ both'[p] = NO_TASK
         /\ \A x \in Procs \ {p} : both'[x] = both[x]
         /\ \/ /\ p \in IntTasks /\ src \in {ANY, INTERRUPT}
               /\ flags'[p] = {} /\ buf'[p] = IntMessage
               /\ \A x \in Procs \ {p} : Same(x)
            \/ \E q \in Procs \ {p} :
                 /\ flags[q] = {SENDING} /\ sendto[q] = p /\ src \in {q, ANY}
                 /\ flags'[q] = {} /\ buf'[q] = buf[q]
                 /\ flags'[p] = {} /\ buf'[p] = buf[q]
                 /\ \A x \in Procs \ {p, q} : Same(x)
            \/ /\ flags'[p] = {RECEIVING} /\ recvfrom'[p] = src
               /\ \A x \in Procs \ {p} : Same(x)
<1> USE ConstantsAssumption
<1>1. Next
  BY DEF Next
<1>2. IInv'
  BY <1>1, NextInv
<1>3. PICK body : msg_receive(p, src, body)
  BY DEF Receive, ReceiveBoth
<1>4. halt = "no" /\ halt' = "no" /\ flags[p] = {}
  <2>1. halt = "no" /\ flags[p] = {}
    BY DEF Receive, ReceiveBoth, Runnable
  <2>2. halt' \in {"no", "assert"}
    BY <2>1, <1>3 DEF msg_receive, ReceiveInt, ReceiveQueued, ReceiveBlock, AssertThat
  <2> QED
    BY <2>1, <2>2, <1>2 DEF IInv, AssertsHold
<1>5. both'[p] = NO_TASK /\ \A x \in Procs \ {p} : both'[x] = both[x]
  BY DEF IInv, TypeOK, Receive, ReceiveBoth
<1>6. CASE ReceiveInt(p, src)
  <2>1. /\ p \in IntTasks /\ src \in {ANY, INTERRUPT} /\ UNCHANGED <<flags, recvfrom, sendto>>
        /\ buf' = [buf EXCEPT ![p] = IntMessage]
    BY <1>6 DEF ReceiveInt, IntPending, IInv, CallInv
  <2> QED
    BY <2>1, <1>2, <1>4, <1>5 DEF IInv, TypeOK, Same
<1>7. CASE ReceiveQueued(p, src)
  <2>1. PICK q \in From(p, src) :
          /\ buf' = [buf EXCEPT ![p] = buf[q]]
          /\ sendto' = [sendto EXCEPT ![q] = NO_TASK]
          /\ flags' = [flags EXCEPT ![q] = @ \ {SENDING}]
          /\ recvfrom' = recvfrom
    BY <1>7 DEF ReceiveQueued
  <2>2. q \in Procs \ {p} /\ flags[q] = {SENDING} /\ sendto[q] = p
    BY <2>1, FromSends, SMT DEF SendingTo
  <2>3. src \in {q, ANY}
    BY <2>1 DEF From
  <2>4. flags'[q] = {} /\ buf'[q] = buf[q] /\ flags'[p] = {} /\ buf'[p] = buf[q]
    BY <2>1, <2>2, <1>4 DEF IInv, TypeOK
  <2>5. \A x \in Procs \ {p, q} : Same(x)
    BY <2>1, <2>2 DEF IInv, TypeOK, Same
  <2> QED
    BY <2>2, <2>3, <2>4, <2>5, <1>2, <1>4, <1>5
<1>8. CASE ReceiveBlock(p, src, body)
  <2>1. /\ flags' = [flags EXCEPT ![p] = @ \cup {RECEIVING}]
        /\ recvfrom' = [recvfrom EXCEPT ![p] = src] /\ sendto' = sendto
        /\ buf' = [buf EXCEPT ![p] = [source |-> p, body |-> body]]
    BY <1>8 DEF ReceiveBlock
  <2>2. flags'[p] = {RECEIVING} /\ recvfrom'[p] = src
    BY <2>1, <1>4 DEF IInv, TypeOK
  <2>3. \A x \in Procs \ {p} : Same(x)
    BY <2>1 DEF IInv, TypeOK, Same
  <2> QED
    BY <2>2, <2>3, <1>2, <1>4, <1>5
<1> QED
  BY <1>3, <1>6, <1>7, <1>8 DEF msg_receive

\* inform_init for task_tty: the message is handed over, or left for later.
LEMMA Informed ==
  ASSUME IInv, inform_init(TTY)
  PROVE  /\ IInv' /\ halt = "no" /\ halt' = "no" /\ both' = both
         /\ \A x \in Procs \ {TTY} : Same(x)
         /\ \/ flags[TTY] = {RECEIVING} /\ flags'[TTY] = {} /\ buf'[TTY] = IntMessage
            \/ Same(TTY)
<1> USE ConstantsAssumption, TerminalAssumption
<1>1. IInv'
  BY InformInv
<1>2. halt = "no" /\ halt' = "no" /\ both' = both
  BY <1>1 DEF inform_init, InformDeliver, InformLatch, AssertThat, IInv, AssertsHold
<1>3. CASE InformDeliver(TTY)
  <2>1. /\ flags[TTY] = {RECEIVING} /\ sendto' = sendto
        /\ flags' = [flags EXCEPT ![TTY] = @ \ {RECEIVING}]
        /\ recvfrom' = [recvfrom EXCEPT ![TTY] = NO_TASK]
        /\ buf' = [buf EXCEPT ![TTY] = IntMessage]
    BY <1>3 DEF InformDeliver, AwaitsInt, IInv, FieldsAgree
  <2>2. flags'[TTY] = {} /\ buf'[TTY] = IntMessage
    BY <2>1 DEF IInv, TypeOK
  <2>3. \A x \in Procs \ {TTY} : Same(x)
    BY <2>1 DEF IInv, TypeOK, Same
  <2> QED
    BY <1>1, <1>2, <2>1, <2>2, <2>3
<1>4. CASE InformLatch(TTY)
  BY <1>1, <1>2, <1>4 DEF InformLatch, Same
<1> QED
  BY <1>3, <1>4 DEF inform_init

-----------------------------------------------------------------------------
(***************************************************************************)
(* What the steps have in common                                           *)
(***************************************************************************)

\* The processes are three kinds, and none is a wildcard.
LEMMA Names ==
  /\ TTY \in Procs /\ FS \in Procs /\ TTY # FS /\ IntTasks = {TTY}
  /\ NO_TASK \notin Procs /\ ANY \notin Procs /\ ANY # NO_TASK
  /\ INTERRUPT \notin Procs
  /\ \A u \in Users : u \in Procs /\ u # TTY /\ u # FS /\ u # NO_TASK /\ u # ANY
  /\ \A p \in Procs : p \in Users \/ p = TTY \/ p = FS
  /\ SENDING # RECEIVING
BY ConstantsAssumption, TerminalAssumption DEF Users, SENDING, RECEIVING

\* A user whose own fields a step leaves alone stays where it is in its call.
LEMMA UserFrame ==
  ASSUME NEW u \in Users, Same(u), both'[u] = both[u], asked'[u] = asked[u]
  PROVE  /\ Asking(u)' <=> Asking(u)
         /\ Owed(u)' <=> Owed(u)
         /\ Settled(u)' <=> Settled(u)
         /\ Reads(u)' <=> Reads(u)
BY DEF Same, Asking, Owed, Settled, Reads, Request

\* No call that waits for its answer begins or ends.
CallsSame ==
  \A u \in Users : (Owed(u)' <=> Owed(u)) /\ (Owed(u) => asked'[u] = asked[u])

\* The same for task_fs and the user it serves.
LEMMA FsFrame ==
  ASSUME Same(FS), both'[FS] = both[FS], fs_pc' = fs_pc, CallsSame
  PROVE  /\ FsReady' <=> FsReady
         /\ FsWaits' <=> FsWaits
         /\ \A u \in Users :
              /\ FsAnswering(u)' <=> FsAnswering(u)
              /\ FsHas(u)' <=> FsHas(u)
              /\ FsHasLine(u)' <=> FsHasLine(u)
              /\ FsAsks(u)' <=> FsAsks(u)
              /\ FsAwaits(u)' <=> FsAwaits(u)
              /\ FsTold(u)' <=> FsTold(u)
<1>1. (FsReady' <=> FsReady) /\ (FsWaits' <=> FsWaits)
  BY DEF Same, FsReady, FsWaits
<1>2. ASSUME NEW u \in Users
      PROVE  /\ FsAnswering(u)' <=> FsAnswering(u)
             /\ FsHas(u)' <=> FsHas(u)
             /\ FsHasLine(u)' <=> FsHasLine(u)
             /\ FsAsks(u)' <=> FsAsks(u)
             /\ FsAwaits(u)' <=> FsAwaits(u)
             /\ FsTold(u)' <=> FsTold(u)
  <2>1. CASE ~Owed(u)
    BY <2>1 DEF CallsSame, FsAnswering, FsHas, FsHasLine, FsAsks, FsAwaits, FsTold, FsServes, Reads
  <2>2. CASE Owed(u)
    <3>1. Owed(u)' /\ asked'[u] = asked[u]
      BY <2>2 DEF CallsSame
    <3>2. (FsServes(u)' <=> FsServes(u)) /\ DevRequest(u)' = DevRequest(u)
      BY <2>2, <3>1 DEF FsServes, DevRequest
    <3>3. Request(u)' = Request(u) /\ (IsReply(buf[FS], u)' <=> IsReply(buf[FS], u))
          /\ (IsLine(buf[FS], u)' <=> IsLine(buf[FS], u))
      BY <3>1 DEF Request, IsReply, IsLine, Same
    <3>4. /\ FsAnswering(u)' <=> FsAnswering(u)
          /\ FsHas(u)' <=> FsHas(u)
          /\ FsHasLine(u)' <=> FsHasLine(u)
      BY <2>2, <3>1, <3>3 DEF Same, FsAnswering, FsHas, FsHasLine, Reads
    <3>5. /\ FsAsks(u)' <=> FsAsks(u)
          /\ FsAwaits(u)' <=> FsAwaits(u)
          /\ FsTold(u)' <=> FsTold(u)
      BY <3>2, <3>3 DEF Same, FsAsks, FsAwaits, FsTold
    <3> QED
      BY <3>4, <3>5
  <2> QED
    BY <2>1, <2>2
<1> QED
  BY <1>1, <1>2

\* The same for task_tty.
LEMMA TtyFrame ==
  ASSUME Same(TTY), both'[TTY] = both[TTY], tty_pc' = tty_pc, CallsSame
  PROVE  /\ TtyRuns' <=> TtyRuns
         /\ TtyWaits' <=> TtyWaits
         /\ TtyHasInt' <=> TtyHasInt
         /\ \A u \in Users :
              /\ TtyResumes(u)' <=> TtyResumes(u)
              /\ (FsAwaits(u)' <=> FsAwaits(u)) => /\ TtyReplies(u)' <=> TtyReplies(u)
                                                   /\ TtyHas(u)' <=> TtyHas(u)
<1>1. (TtyRuns' <=> TtyRuns) /\ (TtyWaits' <=> TtyWaits) /\ (TtyHasInt' <=> TtyHasInt)
  BY DEF Same, TtyRuns, TtyWaits, TtyHasInt, Scans
<1>2. ASSUME NEW u \in Users
      PROVE  /\ TtyResumes(u)' <=> TtyResumes(u)
             /\ (FsAwaits(u)' <=> FsAwaits(u)) => /\ TtyReplies(u)' <=> TtyReplies(u)
                                                  /\ TtyHas(u)' <=> TtyHas(u)
  <2>1. CASE ~Owed(u)
    BY <2>1 DEF CallsSame, TtyResumes, TtyReplies, TtyHas, FsAwaits, FsServes, Reads
  <2>2. CASE Owed(u)
    <3>1. Owed(u)' /\ asked'[u] = asked[u]
      BY <2>2 DEF CallsSame
    <3>2. /\ DevRequest(u)' = DevRequest(u)
          /\ (IsReply(buf[TTY], u)' <=> IsReply(buf[TTY], u))
          /\ (IsLine(buf[TTY], u)' <=> IsLine(buf[TTY], u))
      BY <3>1 DEF DevRequest, IsReply, IsLine, Same
    <3>3. TtyResumes(u)' <=> TtyResumes(u)
      BY <2>2, <3>1, <3>2 DEF Same, TtyResumes, Reads
    <3>4. (FsAwaits(u)' <=> FsAwaits(u)) => /\ TtyReplies(u)' <=> TtyReplies(u)
                                            /\ TtyHas(u)' <=> TtyHas(u)
      BY <3>2 DEF Same, TtyReplies, TtyHas, Scans
    <3> QED
      BY <3>3, <3>4
  <2> QED
    BY <2>1, <2>2
<1> QED
  BY <1>1, <1>2

\* A step of neither task leaves both where they are.
LEMMA TasksKept ==
  ASSUME FsInv, TtyInv, CallsSame, fs_pc' = fs_pc, tty_pc' = tty_pc,
         Same(FS), both'[FS] = both[FS], Same(TTY), both'[TTY] = both[TTY]
  PROVE  /\ FsInv' /\ TtyInv'
         /\ \A u : /\ Held(u)' <=> Held(u)
                   /\ TtySends(u)' <=> TtySends(u)
                   /\ FsPasses(u)' <=> FsPasses(u)
                   /\ InDriver(u)' <=> InDriver(u)
<1>1. FsInv'
  BY FsFrame DEF FsInv
<1>2. TtyInv'
  BY FsFrame, TtyFrame DEF TtyInv
<1>3. \A u : /\ Held(u)' <=> Held(u)
             /\ TtySends(u)' <=> TtySends(u)
             /\ FsPasses(u)' <=> FsPasses(u)
             /\ InDriver(u)' <=> InDriver(u)
  BY DEF Same, Held, TtySends, FsPasses, InDriver
<1> QED
  BY <1>1, <1>2, <1>3

\* A step that moves the read of v only keeps all others where they are.
LEMMA ReadersKept ==
  ASSUME LineInv, KeptInv, NEW v,
         \A t \in Terminals : LineAt(t)' =>
           /\ LineAt(t) /\ reader'[t].procnr = reader[t].procnr
           /\ reader'[t].caller = reader[t].caller,
         \A t \in Terminals : LineAt(t) /\ reader[t].procnr # v => LineAt(t)',
         \A u \in Users \ {v} :
           /\ Owed(u)' <=> Owed(u)
           /\ asked'[u] = asked[u]
           /\ Held(u)' <=> Held(u)
           /\ TtySends(u)' <=> TtySends(u)
           /\ FsPasses(u)' <=> FsPasses(u)
           /\ InDriver(u)' <=> InDriver(u)
           /\ u \in overtaken => u \in overtaken',
         v \in Users =>
           /\ \A t \in Terminals : LineAt(t)' /\ reader[t].procnr = v => Waits(v)'
           /\ TtySends(v)' => Reads(v)' /\ ~Held(v)' /\ ~FsPasses(v)'
           /\ Owed(v)' => Kept(v)'
  PROVE  LineInv' /\ KeptInv'
<1>1. \A u \in Users \ {v} : (Reads(u)' <=> Reads(u)) /\ (Waits(u)' <=> Waits(u))
  BY DEF Reads, Waits
<1>2. \A u \in Users \ {v} : Kept(u) => Kept(u)'
  BY DEF Kept
<1>3. LineInv'
  <2>1. ASSUME NEW t \in Terminals, LineAt(t)'
        PROVE  reader'[t].caller = FS /\ reader'[t].procnr \in Users /\ Waits(reader[t].procnr)'
    BY <1>1, <2>1, SMT DEF LineInv
  <2>2. \A s, t \in Terminals :
          LineAt(s)' /\ LineAt(t)' /\ reader'[s].procnr = reader'[t].procnr => s = t
    BY DEF LineInv
  <2>3. \A u \in Users : TtySends(u)' => Reads(u)' /\ ~Held(u)' /\ ~FsPasses(u)'
    BY <1>1 DEF LineInv
  <2> QED
    BY <2>1, <2>2, <2>3 DEF LineInv
<1>4. KeptInv'
  BY <1>2 DEF KeptInv
<1> QED
  BY <1>3, <1>4

\* The same, when no terminal's reader changes.
LEMMA OthersKept ==
  ASSUME LineInv, KeptInv, reader' = reader, NEW v,
         \A t \in Terminals : LineAt(t)' <=> LineAt(t),
         \A u \in Users \ {v} :
           /\ Owed(u)' <=> Owed(u)
           /\ asked'[u] = asked[u]
           /\ Held(u)' <=> Held(u)
           /\ TtySends(u)' <=> TtySends(u)
           /\ FsPasses(u)' <=> FsPasses(u)
           /\ InDriver(u)' <=> InDriver(u)
           /\ u \in overtaken => u \in overtaken',
         v \in Users =>
           /\ Waits(v) => Waits(v)'
           /\ TtySends(v)' => Reads(v)' /\ ~Held(v)' /\ ~FsPasses(v)'
           /\ Owed(v)' => Kept(v)'
  PROVE  LineInv' /\ KeptInv'
<1>1. \A t \in Terminals : LineAt(t)' /\ reader[t].procnr = v /\ v \in Users => Waits(v)'
  BY SMT DEF LineInv
<1> QED
  BY <1>1, ReadersKept

\* Keys and buffers are where they were.
LEMMA LoopKept ==
  ASSUME TTypes, KeysInv, UNCHANGED <<key_state, tty_state>>,
         asked' \in [Users -> Calls \cup {NoCall}]
  PROVE  /\ TTypes' /\ KeysInv' /\ tty_pc' = tty_pc /\ reader' = reader
         /\ \A t \in Terminals : LineAt(t)' <=> LineAt(t)
<1>1. /\ kb' = kb /\ key_pressed' = key_pressed /\ current' = current /\ inbuf' = inbuf
      /\ tty_pc' = tty_pc /\ reader' = reader
  BY DEF key_state, tty_state
<1> QED
  BY <1>1 DEF TTypes, KeysInv, Scans, LineAt

\* A set of processes that the blocked sends do not lead out of shows that
\* deadlock() finds nothing.
LEMMA NoDeadlock ==
  ASSUME NEW p, NEW dest, NEW S \in SUBSET Procs, dest \in S, p \notin S, SendClosed(S)
  PROVE  ~deadlock(p, dest)
BY DEF deadlock

\* The kernel never takes the call of a user for a cycle of sends.
LEMMA NoCallDeadlock ==
  ASSUME RunInv, NEW u \in Users, ~Owed(u)
  PROVE  ~deadlock(u, FS)
<1>1. CASE SENDING \notin flags[FS]
  <2>1. SendClosed({FS})
    BY <1>1 DEF SendClosed
  <2> QED
    BY <2>1, Names, NoDeadlock
<1>2. ASSUME NEW w \in Users, FsAnswering(w) PROVE ~deadlock(u, FS)
  <2>1. w # u /\ SENDING \notin flags[w] /\ sendto[FS] = w
    BY <1>2, Names DEF FsAnswering, Owed
  <2>2. SendClosed({FS, w})
    BY <2>1 DEF SendClosed
  <2> QED
    BY <2>1, <2>2, Names, NoDeadlock
<1>3. ASSUME NEW w \in Users, FsAsks(w) PROVE ~deadlock(u, FS)
  <2>1. SENDING \in flags[TTY] => sendto[TTY] = FS
    BY Names DEF RunInv, TtyInv, TtyRuns, TtyWaits, TtyHasInt, TtyReplies, TtyResumes, TtyHas
  <2>2. SendClosed({FS, TTY})
    BY <1>3, <2>1 DEF SendClosed, FsAsks
  <2> QED
    BY <2>2, Names, NoDeadlock
<1>4. SENDING \in flags[FS] => \E w \in Users : FsAnswering(w) \/ FsAsks(w)
  BY Names DEF RunInv, FsInv, FsReady, FsWaits, FsHas, FsHasLine, FsAwaits, FsTold
<1> QED
  BY <1>1, <1>2, <1>3, <1>4

-----------------------------------------------------------------------------
(***************************************************************************)
(* The steps of a user                                                     *)
(***************************************************************************)

\* What a user asks for, and the message it puts it into.
LEMMA RequestRight ==
  ASSUME NEW u \in Users, NEW req \in Requests[u]
  PROVE  /\ req \in Calls /\ req # NoCall
         /\ Body(req.type, req.cnt, NO_TASK, req.dev) \in Bodies
<1>1. req \in Calls
  BY TerminalAssumption DEF Calls
<1>2. req # NoCall
  BY <1>1, SMT DEF Calls, NoCall
<1>3. Body(req.type, req.cnt, NO_TASK, req.dev) \in Bodies
  BY <1>1, TerminalAssumption DEF Calls, Body
<1> QED
  BY <1>1, <1>2, <1>3

\* open(), read() or write() sends its request.
LEMMA CallInvT ==
  ASSUME RunInv, NEW u \in Users, NEW req \in Requests[u], Call(u, req)
  PROVE  RunInv' /\ halt' = "no"
<1> DEFINE body == Body(req.type, req.cnt, NO_TASK, req.dev)
           m == [source |-> u, body |-> body]
<1>1. /\ req \in Calls /\ req # NoCall /\ body \in Bodies
  BY RequestRight
<1>2. /\ SendBoth(u, FS, body) /\ asked' = [asked EXCEPT ![u] = req]
      /\ overtaken' = overtaken \ {u} /\ both' = [both EXCEPT ![u] = FS]
      /\ UNCHANGED <<key_state, tty_state, fs_pc>> /\ asked[u] = NoCall
  BY DEF Call, SendBoth
<1>3. ~Owed(u)
  BY <1>2 DEF Owed
<1>4. halt' # "panic"
  BY <1>2, <1>3, NoCallDeadlock DEF SendBoth, msg_send, SendPanic, SendDeliver, SendBlock,
        AssertThat, Runnable
<1>5. u \in Procs /\ FS \in Procs \ {u} /\ TTY \in Procs \ {u} /\ TTY # FS
  BY Names
<1> HIDE DEF body
<1>6. /\ IInv' /\ halt = "no" /\ halt' = "no" /\ flags[u] = {} /\ both[u] = NO_TASK
      /\ \A x \in Procs \ {u} : both'[x] = both[x] /\ (x # FS => Same(x))
      /\ buf'[u] = m
      /\ \/ /\ flags[FS] = {RECEIVING} /\ recvfrom[FS] \in {u, ANY}
            /\ flags'[FS] = {} /\ buf'[FS] = m /\ flags'[u] = {}
         \/ Same(FS) /\ flags'[u] = {SENDING} /\ sendto'[u] = FS
  BY <1>1, <1>2, <1>4, <1>5, Sent DEF RunInv
<1>7. /\ asked'[u] = req /\ both'[u] = FS
      /\ \A w \in Users \ {u} : asked'[w] = asked[w] /\ Same(w) /\ both'[w] = both[w]
  BY <1>2, <1>5, <1>6, Names, SMT DEF RunInv, TTypes, IInv, TypeOK
<1>8. \A w \in Users \ {u} : /\ Asking(w)' <=> Asking(w)
                             /\ Owed(w)' <=> Owed(w)
                             /\ Settled(w)' <=> Settled(w)
  BY <1>7, UserFrame
<1>9. asked' \in [Users -> Calls \cup {NoCall}]
  BY <1>1, <1>2 DEF RunInv, TTypes
<1>10. /\ TTypes' /\ KeysInv' /\ tty_pc' = tty_pc /\ reader' = reader
       /\ \A t \in Terminals : LineAt(t)' <=> LineAt(t)
  BY <1>2, <1>9, LoopKept DEF RunInv
<1>11. m.body = Request(u)' /\ m.source = u
  BY <1>7 DEF Request, body
<1>12. ~Waits(u)
  BY <1>3 DEF Waits, Reads
<1>13. Same(TTY) /\ both'[TTY] = both[TTY] /\ both'[FS] = both[FS]
  BY <1>5, <1>6
<1>14. CASE Same(FS) /\ flags'[u] = {SENDING} /\ sendto'[u] = FS
  <2>1. Asking(u)'
    BY <1>1, <1>6, <1>7, <1>11, <1>14 DEF Asking
  <2>2. ~Owed(u)'
    BY <1>14, Names DEF Owed
  <2>3. UserInv'
    BY <1>8, <2>1 DEF RunInv, UserInv
  <2>4. CallsSame
    BY <1>3, <1>7, <1>8, <2>2 DEF CallsSame
  <2>5. FsInv' /\ TtyInv' /\ \A w : /\ Held(w)' <=> Held(w)
                                    /\ TtySends(w)' <=> TtySends(w)
                                    /\ FsPasses(w)' <=> FsPasses(w)
                                    /\ InDriver(w)' <=> InDriver(w)
    BY <1>2, <1>10, <1>13, <1>14, <2>4, TasksKept DEF RunInv
  <2>6. ~TtySends(u)
    BY <1>3 DEF RunInv, LineInv, Reads
  <2>7. LineInv' /\ KeptInv'
    BY <1>2, <1>7, <1>8, <1>10, <1>12, <2>2, <2>5, <2>6, OthersKept DEF RunInv
  <2> QED
    BY <1>6, <1>10, <2>3, <2>5, <2>7 DEF RunInv
<1>15. CASE /\ flags[FS] = {RECEIVING} /\ recvfrom[FS] \in {u, ANY}
            /\ flags'[FS] = {} /\ buf'[FS] = m /\ flags'[u] = {}
  <2>1. FsWaits
    BY <1>5, <1>15, Names
       DEF RunInv, FsInv, FsReady, FsAnswering, FsHas, FsHasLine, FsAsks, FsAwaits, FsTold
  <2>2. Owed(u)'
    BY <1>1, <1>7, <1>15 DEF Owed
  <2>3. FsHas(u)'
    BY <1>2, <1>11, <1>13, <1>15, <2>1, <2>2 DEF FsHas, FsWaits
  <2>4. UserInv'
    BY <1>8, <2>2 DEF RunInv, UserInv
  <2>5. FsInv'
    BY <2>3 DEF FsInv
  <2>6. \A w \in Users : ~FsAwaits(w) /\ ~FsAwaits(w)' /\ ~InDriver(w) /\ ~InDriver(w)'
    BY <1>2, <2>1, SMT DEF FsAwaits, FsServes, FsWaits, InDriver
  <2>7. TtyInv'
    <3>1. TtyRuns \/ TtyWaits \/ TtyHasInt \/ \E w \in Users \ {u} : TtyResumes(w)
      BY <1>3, <2>6 DEF RunInv, TtyInv, TtyReplies, TtyHas, TtyResumes, Reads
    <3>2. (TtyRuns => TtyRuns') /\ (TtyWaits => TtyWaits') /\ (TtyHasInt => TtyHasInt')
      BY <1>10, <1>13 DEF Same, TtyRuns, TtyWaits, TtyHasInt, Scans
    <3>3. \A w \in Users \ {u} : TtyResumes(w) => TtyResumes(w)'
      BY <1>7, <1>8, <1>10, <1>13 DEF TtyResumes, Reads, Same, IsLine
    <3> QED
      BY <3>1, <3>2, <3>3, <1>13, <2>6 DEF RunInv, TtyInv
  <2>8. \A w : TtySends(w)' <=> TtySends(w)
    BY <1>13 DEF Same, TtySends
  <2>9. \A w \in Users \ {u} : ~Held(w) /\ ~Held(w)' /\ ~FsPasses(w) /\ ~FsPasses(w)'
    BY <1>2, <1>5, <1>11, <1>15, <2>1, Names DEF FsWaits, Held, FsPasses
  <2>10. Held(u)' /\ ~TtySends(u)'
    <3>1. ~TtySends(u)
      BY <1>3 DEF RunInv, LineInv, Reads
    <3> QED
      BY <1>2, <1>11, <1>15, <2>1, <2>8, <3>1 DEF Held, FsWaits
  <2>11. Kept(u)'
    BY <2>10 DEF Kept
  <2>12. LineInv' /\ KeptInv'
    BY <1>2, <1>7, <1>8, <1>10, <1>12, <2>6, <2>8, <2>9, <2>10, <2>11, OthersKept DEF RunInv
  <2> QED
    BY <1>6, <1>10, <2>4, <2>5, <2>7, <2>12 DEF RunInv
<1> QED
  BY <1>6, <1>14, <1>15

\* What task_fs holds, when it is ready, waits, answers u or holds a message.
LEMMA Places ==
  ASSUME TtyInv
  PROVE  /\ FsReady \/ FsWaits =>
              \A w \in Users : ~Held(w) /\ ~FsPasses(w) /\ ~InDriver(w) /\ ~FsAwaits(w)
         /\ \A u \in Users : FsAnswering(u) \/ FsHasLine(u) =>
              \A w \in Users : /\ ~Held(w) /\ ~InDriver(w) /\ ~FsAwaits(w)
                               /\ FsPasses(w) <=> w = u
         /\ \A u \in Users : FsHas(u) =>
              \A w \in Users : /\ ~FsPasses(w) /\ ~InDriver(w) /\ ~FsAwaits(w)
                               /\ Held(w) <=> w = u
         /\ \A u \in Users : FsAsks(u) =>
              \A w \in Users : /\ ~FsPasses(w) /\ ~FsAwaits(w)
                               /\ Held(w) <=> w = u
                               /\ InDriver(w) <=> w = u
         /\ \A u \in Users : FsAwaits(u) =>
              \A w \in Users : /\ ~FsPasses(w)
                               /\ Held(w) <=> w = u /\ TtyHas(u)
                               /\ InDriver(w) <=> w = u
                               /\ FsAwaits(w) <=> w = u
         /\ \A u \in Users : FsTold(u) =>
              \A w \in Users : /\ ~Held(w) /\ ~FsPasses(w) /\ ~FsAwaits(w)
                               /\ InDriver(w) <=> w = u
<1> USE Names
<1>1. FsReady \/ FsWaits =>
        \A w \in Users : ~Held(w) /\ ~FsPasses(w) /\ ~InDriver(w) /\ ~FsAwaits(w)
  BY DEF FsReady, FsWaits, Held, FsPasses, InDriver, FsAwaits, FsServes
<1>2. ASSUME NEW u \in Users, FsAnswering(u) \/ FsHasLine(u), NEW w \in Users
      PROVE  ~Held(w) /\ ~InDriver(w) /\ ~FsAwaits(w) /\ (FsPasses(w) <=> w = u)
  BY <1>2 DEF FsAnswering, FsHasLine, IsLine, Held, FsPasses, InDriver, FsAwaits, FsServes
<1>3. ASSUME NEW u \in Users, FsHas(u), NEW w \in Users
      PROVE  ~FsPasses(w) /\ ~InDriver(w) /\ ~FsAwaits(w) /\ (Held(w) <=> w = u)
  <2>1. buf[FS].source = u
    BY <1>3, SMT DEF FsHas
  <2> QED
    BY <1>3, <2>1 DEF FsHas, Held, FsPasses, InDriver, FsAwaits, FsServes
<1>4. ASSUME NEW u \in Users, FsServes(u), NEW w \in Users
      PROVE  ~FsPasses(w) /\ (InDriver(w) <=> w = u) /\ (FsServes(w) => w = u)
  BY <1>4 DEF FsServes, FsPasses, InDriver
<1>5. ASSUME NEW u \in Users, FsAsks(u), NEW w \in Users
      PROVE  ~FsAwaits(w) /\ (Held(w) <=> w = u)
  BY <1>5 DEF FsAsks, Held, FsAwaits, FsServes
<1>6. (tty_pc[1] = "serve" /\ flags[TTY] = {} /\ buf[TTY].source = FS) <=>
        \E u \in Users : TtyHas(u)
  <2>1. TtyHasInt => buf[TTY].source # FS
    BY SMT DEF TtyHasInt, IntMessage
  <2>2. \A u \in Users : TtyHas(u) => buf[TTY].source = FS
    BY SMT DEF TtyHas
  <2> QED
    BY <2>1, <2>2 DEF TtyInv, TtyRuns, TtyWaits, TtyHasInt, TtyReplies, TtyResumes, TtyHas, Scans
<1>7. ASSUME NEW u \in Users, FsAwaits(u), NEW w \in Users
      PROVE  (FsAwaits(w) <=> w = u) /\ (Held(w) <=> w = u /\ TtyHas(u))
  <2>1. FsAwaits(w) <=> w = u
    BY <1>4, <1>7 DEF FsAwaits
  <2>2. \A x \in Users : TtyHas(x) => x = u
    BY <1>4, <1>7 DEF FsAwaits, TtyHas
  <2>3. fs_pc.at = "driver" /\ fs_pc.src = u /\ SENDING \notin flags[FS]
    BY <1>7 DEF FsAwaits, FsServes
  <2> QED
    BY <2>1, <2>2, <2>3, <1>6 DEF Held
<1>8. ASSUME NEW u \in Users, FsTold(u), NEW w \in Users
      PROVE  ~FsAwaits(w) /\ ~Held(w)
  <2>1. \A x \in Users : ~FsAwaits(x) /\ ~TtyHas(x)
    BY <1>8 DEF FsTold, FsAwaits, TtyHas
  <2>2. fs_pc.at = "driver" /\ SENDING \notin flags[FS]
    BY <1>8 DEF FsTold, FsServes
  <2> QED
    BY <2>1, <2>2, <1>6 DEF Held
<1>9. \A u \in Users : FsAsks(u) \/ FsAwaits(u) \/ FsTold(u) => FsServes(u)
  BY DEF FsAsks, FsAwaits, FsTold
<1> QED
  BY <1>1, <1>2, <1>3, <1>4, <1>5, <1>7, <1>8, <1>9

\* task_fs hands u its answer: nobody else has anything to do with the call.
LEMMA Handed ==
  ASSUME RunInv, NEW u \in Users, Settled(u)', IInv', halt' = "no",
         \/ FsAnswering(u) \/ FsHasLine(u)
         \/ FsTold(u) /\ asked[u].type # "READ",
         FsReady', Same(TTY), both'[TTY] = both[TTY],
         \A w \in Users \ {u} : Same(w) /\ both'[w] = both[w],
         UNCHANGED <<key_state, tty_state, user_state>>
  PROVE  RunInv'
<1>1. asked' = asked /\ overtaken' = overtaken
  BY DEF user_state
<1>2. /\ TTypes' /\ KeysInv' /\ tty_pc' = tty_pc /\ reader' = reader
      /\ \A t \in Terminals : LineAt(t)' <=> LineAt(t)
  BY <1>1, LoopKept DEF RunInv, TTypes
<1>3. \A w \in Users \ {u} : /\ Asking(w)' <=> Asking(w)
                             /\ Owed(w)' <=> Owed(w)
                             /\ Settled(w)' <=> Settled(w)
  BY <1>1, UserFrame
<1>4. UserInv' /\ ~Owed(u)' /\ Owed(u)
  <2>1. ~Owed(u)'
    BY Names DEF Settled, Owed
  <2>2. Owed(u)
    BY DEF FsAnswering, FsHasLine, FsTold, FsServes, Reads
  <2> QED
    BY <2>1, <2>2, <1>3 DEF RunInv, UserInv
<1>5. \A w \in Users : ~Held(w)' /\ ~FsPasses(w)' /\ ~InDriver(w)' /\ ~FsAwaits(w)'
  BY Names DEF FsReady, Held, FsPasses, InDriver, FsAwaits, FsServes
<1>6. \A w \in Users : /\ ~Held(w) /\ ~FsAwaits(w)
                       /\ w # u => ~FsPasses(w) /\ ~InDriver(w)
  BY Places DEF RunInv
<1>7. FsPasses(u) \/ asked[u].type # "READ"
  BY Places DEF RunInv
<1>8. ~TtySends(u) /\ ~Waits(u)
  BY <1>7 DEF RunInv, LineInv, Reads, Waits
<1>9. \A w : TtySends(w)' <=> TtySends(w)
  BY DEF Same, TtySends
<1>10. TtyInv'
  <2>1. TtyRuns \/ TtyWaits \/ TtyHasInt \/ \E w \in Users \ {u} : TtyResumes(w)
    BY <1>6, <1>8 DEF RunInv, TtyInv, TtyReplies, TtyHas, TtyResumes, IsLine, TtySends
  <2>2. (TtyRuns => TtyRuns') /\ (TtyWaits => TtyWaits') /\ (TtyHasInt => TtyHasInt')
    BY <1>2 DEF Same, TtyRuns, TtyWaits, TtyHasInt, Scans
  <2>3. \A w \in Users \ {u} : TtyResumes(w) => TtyResumes(w)'
    BY <1>1, <1>2, <1>3 DEF TtyResumes, Reads, Same, IsLine
  <2> QED
    BY <2>1, <2>2, <2>3, <1>5 DEF RunInv, TtyInv
<1>11. LineInv' /\ KeptInv'
  BY <1>1, <1>2, <1>3, <1>4, <1>5, <1>6, <1>8, <1>9, OthersKept DEF RunInv
<1>12. FsInv'
  BY DEF FsInv
<1> QED
  BY <1>2, <1>4, <1>10, <1>11, <1>12 DEF RunInv

\* The RECEIVE half of the user's BOTH.
LEMMA AwaitReplyInvT ==
  ASSUME RunInv, NEW u \in Users, AwaitReply(u)
  PROVE  RunInv' /\ halt' = "no"
<1>1. ReceiveBoth(u) /\ UNCHANGED <<key_state, tty_state, fs_pc, user_state>>
  BY DEF AwaitReply
<1>2. Owed(u) /\ both[u] = FS
  BY <1>1, Names DEF ReceiveBoth, Runnable, RunInv, UserInv, Asking, Owed, Settled
<1>3. u \in Procs /\ FS \in Sources \ {u} /\ TTY \in Procs \ {u}
  BY Names DEF Sources
<1>4. /\ IInv' /\ halt' = "no" /\ flags[u] = {} /\ both'[u] = NO_TASK
      /\ \A x \in Procs \ {u} : both'[x] = both[x]
      /\ \/ /\ flags[FS] = {SENDING} /\ sendto[FS] = u
            /\ flags'[FS] = {} /\ buf'[FS] = buf[FS] /\ flags'[u] = {}
            /\ \A x \in Procs \ {u, FS} : Same(x)
         \/ /\ flags'[u] = {RECEIVING} /\ recvfrom'[u] = FS
            /\ \A x \in Procs \ {u} : Same(x)
  BY <1>1, <1>2, <1>3, Got, Names, SMT DEF RunInv
<1>5. asked' = asked /\ overtaken' = overtaken
  BY <1>1 DEF user_state
<1>6. CASE /\ flags[FS] = {SENDING} /\ sendto[FS] = u
           /\ flags'[FS] = {} /\ flags'[u] = {}
           /\ \A x \in Procs \ {u, FS} : Same(x)
  <2>1. FsAnswering(u)
    BY <1>6, Names
       DEF RunInv, FsInv, FsReady, FsWaits, FsAnswering, FsHas, FsHasLine, FsAsks, FsAwaits, FsTold
  <2>2. FsReady'
    BY <1>1, <1>4, <1>6, <2>1, Names DEF FsReady, FsAnswering
  <2>3. Settled(u)'
    BY <1>4, <1>6 DEF Settled
  <2> QED
    BY <1>1, <1>4, <1>6, <2>1, <2>2, <2>3, Names, Handed
<1>7. CASE /\ flags'[u] = {RECEIVING} /\ recvfrom'[u] = FS
           /\ \A x \in Procs \ {u} : Same(x)
  <2>1. Owed(u)'
    BY <1>2, <1>4, <1>5, <1>7 DEF Owed
  <2>2. \A w \in Users \ {u} : /\ Asking(w)' <=> Asking(w)
                               /\ Owed(w)' <=> Owed(w)
                               /\ Settled(w)' <=> Settled(w)
    BY <1>4, <1>5, <1>7, UserFrame, Names
  <2>3. UserInv' /\ CallsSame
    BY <1>2, <1>5, <2>1, <2>2 DEF RunInv, UserInv, CallsSame
  <2>4. /\ TTypes' /\ KeysInv' /\ tty_pc' = tty_pc /\ reader' = reader
        /\ \A t \in Terminals : LineAt(t)' <=> LineAt(t)
    BY <1>1, <1>5, LoopKept DEF RunInv, TTypes
  <2>5. FsInv' /\ TtyInv' /\ \A w : /\ Held(w)' <=> Held(w)
                                    /\ TtySends(w)' <=> TtySends(w)
                                    /\ FsPasses(w)' <=> FsPasses(w)
                                    /\ InDriver(w)' <=> InDriver(w)
    BY <1>1, <1>3, <1>4, <1>7, <2>3, <2>4, TasksKept, Names DEF RunInv
  <2>6. LineInv' /\ KeptInv'
    BY <1>2, <1>5, <2>1, <2>2, <2>4, <2>5, OthersKept, Names DEF RunInv
  <2> QED
    BY <1>4, <2>3, <2>4, <2>5, <2>6 DEF RunInv
<1> QED
  BY <1>4, <1>6, <1>7

\* The call returns.
LEMMA ReturnInvT ==
  ASSUME RunInv, NEW u \in Users, Return(u)
  PROVE  RunInv' /\ halt' = "no"
<1> DEFINE m == [source |-> NO_TASK, body |-> ZeroBody]
<1>1. /\ halt = "no" /\ flags[u] = {} /\ both[u] = NO_TASK
      /\ asked' = [asked EXCEPT ![u] = NoCall] /\ buf' = [buf EXCEPT ![u] = m]
      /\ UNCHANGED <<flags, msg, recvfrom, sendto, has_int_msg, sending_queue, both, halt>>
      /\ UNCHANGED <<key_state, tty_state, fs_pc>> /\ overtaken' = overtaken
  BY DEF Return, Runnable, kernel
<1>2. m \in Message
  BY DEF Message
<1> HIDE DEF m
<1>3. /\ buf' \in [Procs -> Message] /\ \A x \in Procs \ {u} : buf'[x] = buf[x]
  BY <1>1, <1>2 DEF RunInv, IInv, TypeOK
<1>4. IInv'
  <2>1. (TypeOK /\ FieldsAgree)'
    BY <1>1, <1>3 DEF RunInv, IInv, TypeOK, FieldsAgree, Idle
  <2>2. CallInv'
    BY <1>1, <1>3, Names DEF RunInv, IInv, CallInv
  <2>3. (QueueHoldsSenders /\ SendGraphAcyclic /\ AssertsHold)'
    BY <1>1 DEF RunInv, IInv, QueueHoldsSenders, SendGraphAcyclic, AssertsHold, SendingTo
  <2>4. (NoMissedRendezvous /\ NoMissedInterrupt)'
    BY <1>1 DEF RunInv, IInv, NoMissedRendezvous, NoMissedInterrupt, SendingTo, Awaits, AwaitsInt
  <2> QED
    BY <2>1, <2>2, <2>3, <2>4 DEF IInv
<1>5. \A x \in Procs \ {u} : Same(x) /\ both'[x] = both[x]
  BY <1>1, <1>3 DEF Same
<1>6. ~Owed(u) /\ ~Owed(u)' /\ Settled(u)'
  BY <1>1, Names DEF Owed, Settled
<1>7. \A w \in Users \ {u} : asked'[w] = asked[w]
  BY <1>1 DEF RunInv, TTypes
<1>8. \A w \in Users \ {u} : /\ Asking(w)' <=> Asking(w)
                             /\ Owed(w)' <=> Owed(w)
                             /\ Settled(w)' <=> Settled(w)
  BY <1>5, <1>7, UserFrame, Names
<1>9. UserInv' /\ CallsSame
  BY <1>6, <1>7, <1>8 DEF RunInv, UserInv, CallsSame
<1>10. asked' \in [Users -> Calls \cup {NoCall}]
  BY <1>1 DEF RunInv, TTypes
<1>11. /\ TTypes' /\ KeysInv' /\ tty_pc' = tty_pc /\ reader' = reader
       /\ \A t \in Terminals : LineAt(t)' <=> LineAt(t)
  BY <1>1, <1>10, LoopKept DEF RunInv
<1>12. FsInv' /\ TtyInv' /\ \A w : /\ Held(w)' <=> Held(w)
                                   /\ TtySends(w)' <=> TtySends(w)
                                   /\ FsPasses(w)' <=> FsPasses(w)
                                   /\ InDriver(w)' <=> InDriver(w)
  BY <1>1, <1>5, <1>9, <1>11, TasksKept, Names DEF RunInv
<1>13. ~Waits(u) /\ ~TtySends(u)
  BY <1>6 DEF RunInv, LineInv, Waits, Reads
<1>14. LineInv' /\ KeptInv'
  BY <1>1, <1>6, <1>7, <1>8, <1>11, <1>12, <1>13, OthersKept DEF RunInv
<1> QED
  BY <1>1, <1>4, <1>9, <1>11, <1>12, <1>14 DEF RunInv

-----------------------------------------------------------------------------
(***************************************************************************)
(* The steps of task_fs                                                    *)
(***************************************************************************)

\* task_tty stays where it is, when task_fs is not in a dialogue with it.
LEMMA TtyApart ==
  ASSUME TtyInv, Same(TTY), both'[TTY] = both[TTY], tty_pc' = tty_pc,
         \A w \in Users : ~FsAwaits(w) /\ ~FsAwaits(w)',
         \A w \in Users : Owed(w) => Owed(w)' /\ asked'[w] = asked[w]
  PROVE  TtyInv'
<1>1. TtyRuns \/ TtyWaits \/ TtyHasInt \/ \E w \in Users : TtyResumes(w)
  BY DEF TtyInv, TtyReplies, TtyHas
<1>2. (TtyRuns => TtyRuns') /\ (TtyWaits => TtyWaits') /\ (TtyHasInt => TtyHasInt')
  BY DEF Same, TtyRuns, TtyWaits, TtyHasInt, Scans
<1>3. \A w \in Users : TtyResumes(w) => TtyResumes(w)'
  BY DEF TtyResumes, Reads, Same, IsLine
<1> QED
  BY <1>1, <1>2, <1>3 DEF TtyInv

\* task_fs takes a message, or waits for one.
LEMMA FsReceiveInv ==
  ASSUME RunInv, FsReceive
  PROVE  RunInv' /\ halt' = "no"
<1>1. /\ Receive(FS, ANY) /\ fs_pc' = [FsIdle EXCEPT !.at = "serve"]
      /\ fs_pc.at = "receive" /\ UNCHANGED <<key_state, tty_state, user_state>>
  BY DEF FsReceive
<1>2. FsReady
  BY <1>1, Names DEF Receive, Runnable, RunInv, FsInv, FsReady, FsWaits, FsAnswering, FsHas,
        FsHasLine, FsAsks, FsAwaits, FsTold, FsServes
<1>3. fs_pc'.at = "serve"
  BY <1>1 DEF FsIdle
<1>4. ANY \in Sources \ {FS} /\ FS \in Procs /\ FS \notin IntTasks
  BY Names DEF Sources
<1>5. /\ IInv' /\ halt' = "no" /\ both'[FS] = NO_TASK
      /\ \A x \in Procs \ {FS} : both'[x] = both[x]
      /\ \/ \E q \in Procs \ {FS} :
              /\ flags[q] = {SENDING} /\ sendto[q] = FS
              /\ flags'[q] = {} /\ buf'[q] = buf[q]
              /\ flags'[FS] = {} /\ buf'[FS] = buf[q]
              /\ \A x \in Procs \ {FS, q} : Same(x)
         \/ /\ flags'[FS] = {RECEIVING} /\ recvfrom'[FS] = ANY
            /\ \A x \in Procs \ {FS} : Same(x)
  <2>1. IInv
    BY DEF RunInv
  <2> QED
    BY <1>1, <1>4, <2>1, Got, ZenonT(60)
<1>6. asked' = asked /\ overtaken' = overtaken
  BY <1>1 DEF user_state
<1>7. /\ TTypes' /\ KeysInv' /\ tty_pc' = tty_pc /\ reader' = reader
      /\ \A t \in Terminals : LineAt(t)' <=> LineAt(t)
  BY <1>1, <1>6, LoopKept DEF RunInv, TTypes
<1>8. \A w \in Users : ~Held(w) /\ ~FsPasses(w) /\ ~InDriver(w) /\ ~FsAwaits(w)
  BY <1>2, Places DEF RunInv
<1>9. \A w \in Users : ~InDriver(w)' /\ ~FsAwaits(w)'
  BY <1>3, SMT DEF InDriver, FsAwaits, FsServes
<1>10. ASSUME NEW q \in Users,
              flags[q] = {SENDING}, sendto[q] = FS, flags'[q] = {}, buf'[q] = buf[q],
              flags'[FS] = {}, buf'[FS] = buf[q], \A x \in Procs \ {FS, q} : Same(x)
       PROVE  RunInv'
  <2>1. Asking(q) /\ ~Owed(q)
    BY <1>10, Names DEF RunInv, UserInv, Asking, Owed, Settled
  <2>2. Owed(q)'
    BY <1>5, <1>6, <1>10, <2>1, Names DEF Asking, Owed
  <2>3. FsHas(q)' /\ buf'[FS].source = q
    BY <1>3, <1>5, <1>6, <1>10, <2>1, <2>2, SMT DEF FsHas, Asking, Request
  <2>4. \A w \in Users \ {q} : /\ Asking(w)' <=> Asking(w)
                               /\ Owed(w)' <=> Owed(w)
                               /\ Settled(w)' <=> Settled(w)
    BY <1>5, <1>6, <1>10, UserFrame, Names
  <2>5. UserInv'
    BY <2>2, <2>4 DEF RunInv, UserInv
  <2>6. Same(TTY) /\ both'[TTY] = both[TTY]
    BY <1>5, <1>10, Names
  <2>7. TtyInv'
    BY <1>6, <1>7, <1>8, <1>9, <2>1, <2>4, <2>6, TtyApart DEF RunInv
  <2>8. \A w : TtySends(w)' <=> TtySends(w)
    BY <2>6 DEF Same, TtySends
  <2>9. \A w \in Users : ~FsPasses(w)' /\ (Held(w)' <=> w = q)
    BY <1>3, <1>10, <2>3, Names DEF FsPasses, Held
  <2>10. ~TtySends(q)' /\ ~Waits(q) /\ Kept(q)'
    BY <2>1, <2>8, <2>9 DEF RunInv, LineInv, Waits, Reads, Kept
  <2>11. LineInv' /\ KeptInv'
    BY <1>6, <1>7, <1>8, <1>9, <2>4, <2>8, <2>9, <2>10, OthersKept DEF RunInv
  <2> QED
    BY <1>5, <1>7, <2>3, <2>5, <2>7, <2>11 DEF RunInv, FsInv
<1>11. ASSUME flags[TTY] = {SENDING}, sendto[TTY] = FS, flags'[TTY] = {}, buf'[TTY] = buf[TTY],
              flags'[FS] = {}, buf'[FS] = buf[TTY], \A x \in Procs \ {FS, TTY} : Same(x)
       PROVE  RunInv'
  <2>1. PICK u \in Users : TtyResumes(u)
    BY <1>8, <1>11, Names DEF RunInv, TtyInv, TtyRuns, TtyWaits, TtyHasInt, TtyReplies, TtyHas
  <2>2. TtySends(u)
    BY <2>1, Names DEF TtyResumes, TtySends, IsLine
  <2>3. \A w \in Users : /\ Asking(w)' <=> Asking(w)
                         /\ Owed(w)' <=> Owed(w)
                         /\ Settled(w)' <=> Settled(w)
                         /\ Reads(w)' <=> Reads(w)
    BY <1>5, <1>6, <1>11, UserFrame, Names
  <2>4. UserInv'
    BY <2>3 DEF RunInv, UserInv
  <2>5. FsHasLine(u)'
    BY <1>3, <1>5, <1>11, <2>1, <2>3 DEF FsHasLine, TtyResumes, IsLine
  <2>6. TtyInv'
    <3>1. TtyRuns' /\ both'[TTY] = NO_TASK
      BY <1>5, <1>7, <1>11, <2>1, Names DEF TtyRuns, Scans, TtyResumes, RunInv, TtyInv
    <3> QED
      BY <3>1, <1>9 DEF TtyInv
  <2>7. \A w \in Users : ~TtySends(w)' /\ (TtySends(w) => w = u)
    BY <1>11, <2>1 DEF TtySends, TtyResumes, IsLine
  <2>8. \A w \in Users : ~Held(w)' /\ (FsPasses(w)' <=> w = u)
    BY <1>3, <1>11, <2>1, Names DEF Held, FsPasses, TtyResumes, IsLine
  <2>9. ~Waits(u) /\ Kept(u)'
    BY <2>2, <2>8 DEF Waits, Kept
  <2>10. LineInv' /\ KeptInv'
    BY <1>6, <1>7, <1>8, <1>9, <2>3, <2>7, <2>8, <2>9, OthersKept DEF RunInv
  <2> QED
    BY <1>5, <1>7, <2>4, <2>5, <2>6, <2>10 DEF RunInv, FsInv
<1>12. CASE /\ flags'[FS] = {RECEIVING} /\ recvfrom'[FS] = ANY
            /\ \A x \in Procs \ {FS} : Same(x)
  <2>1. FsWaits'
    BY <1>3, <1>5, <1>12 DEF FsWaits
  <2>2. \A w \in Users : /\ Asking(w)' <=> Asking(w)
                         /\ Owed(w)' <=> Owed(w)
                         /\ Settled(w)' <=> Settled(w)
    BY <1>5, <1>6, <1>12, UserFrame, Names
  <2>3. UserInv'
    BY <2>2 DEF RunInv, UserInv
  <2>4. Same(TTY) /\ both'[TTY] = both[TTY]
    BY <1>5, <1>12, Names
  <2>5. TtyInv'
    BY <1>6, <1>7, <1>8, <1>9, <2>2, <2>4, TtyApart DEF RunInv
  <2>6. \A w : TtySends(w)' <=> TtySends(w)
    BY <2>4 DEF Same, TtySends
  <2>7. \A w \in Users : ~FsPasses(w)' /\ ~Held(w)'
    BY <1>3, <1>12, Names DEF FsPasses, Held
  <2>8. LineInv' /\ KeptInv'
    BY <1>6, <1>7, <1>8, <1>9, <2>2, <2>6, <2>7, OthersKept, Names DEF RunInv
  <2> QED
    BY <1>5, <1>7, <2>1, <2>3, <2>5, <2>8 DEF RunInv, FsInv
<1> QED
  BY <1>5, <1>10, <1>11, <1>12, Names

\* What task_fs sends for u is a message body, and so is what it is sent.
LEMMA DevRequestRight ==
  ASSUME RunInv, NEW u \in Users, Owed(u)
  PROVE  /\ asked[u] \in Calls /\ DevRequest(u) \in Bodies
         /\ DevRequest(u).type = "DEV_READ" <=> asked[u].type = "READ"
         /\ DevRequest(u).type \in {"DEV_OPEN", "DEV_READ", "DEV_WRITE"}
         /\ DevRequest(u).type = "DEV_OPEN" <=> asked[u].type = "OPEN"
         /\ DevRequest(u).cnt = asked[u].cnt /\ DevRequest(u).proc = u
         /\ DevRequest(u).dev = asked[u].dev
<1>1. asked[u] \in Calls
  BY DEF RunInv, TTypes, Owed
<1>2. /\ asked[u].type \in {"OPEN", "READ", "WRITE"} /\ asked[u].cnt \in 0 .. MAX_CNT
      /\ asked[u].dev \in Terminals
  BY <1>1 DEF Calls
<1>3. /\ DevRequest(u).cnt = asked[u].cnt /\ DevRequest(u).proc = u
      /\ DevRequest(u).dev = asked[u].dev
      /\ DevRequest(u).type = [OPEN |-> "DEV_OPEN", READ |-> "DEV_READ",
                               WRITE |-> "DEV_WRITE"][asked[u].type]
  BY DEF DevRequest, Body
<1>4. DevRequest(u) \in Bodies
  BY <1>2, TerminalAssumption, Names, SMT DEF DevRequest, Body
<1> QED
  BY <1>1, <1>2, <1>3, <1>4, SMT

\* Where task_fs serves a message, it is the request or the line of a user.
LEMMA FsServing ==
  ASSUME RunInv, fs_pc.at = "serve", flags[FS] = {}
  PROVE  \E u \in Users : FsHas(u) \/ FsHasLine(u)
<1>1. \A u \in Users : FsServes(u) => fs_pc.at = "driver"
  BY SMT DEF FsServes
<1>2. ~FsReady /\ ~FsWaits
  BY Names DEF FsReady, FsWaits
<1>3. \A u \in Users : ~FsAnswering(u) /\ ~FsAsks(u) /\ ~FsAwaits(u) /\ ~FsTold(u)
  BY <1>1 DEF FsAnswering, FsAsks, FsAwaits, FsTold
<1> QED
  BY <1>2, <1>3 DEF RunInv, FsInv

\* task_fs hands the request of u on to the driver.  If the line of a read is
\* being sent to it meanwhile, that is the end.
LEMMA FsAskDriverInv ==
  ASSUME RunInv, FsAskDriver
  PROVE  TInv'
<1>1. /\ fs_pc.at = "serve" /\ buf[FS].body.type \in {"OPEN", "READ", "WRITE"}
      /\ flags[FS] = {} /\ halt = "no" /\ UNCHANGED <<key_state, tty_state, user_state>>
  <2> DEFINE dev_type == [OPEN |-> "DEV_OPEN", READ |-> "DEV_READ", WRITE |-> "DEV_WRITE"]
  <2>1. DOMAIN dev_type = {"OPEN", "READ", "WRITE"}
    OBVIOUS
  <2>2. buf[FS].body.type \in DOMAIN dev_type
    BY DEF FsAskDriver
  <2> QED
    BY <2>1, <2>2 DEF FsAskDriver, SendBoth, Runnable
<1>2. PICK u \in Users : FsHas(u)
  <2>1. \E w \in Users : FsHas(w) \/ FsHasLine(w)
    BY <1>1, FsServing
  <2>2. \A w \in Users : ~FsHasLine(w)
    BY <1>1 DEF FsHasLine, IsLine
  <2> QED
    BY <2>1, <2>2
<1>3. /\ Owed(u) /\ buf[FS].source = u /\ buf[FS].body.type = asked[u].type
      /\ buf[FS].body.cnt = asked[u].cnt /\ buf[FS].body.dev = asked[u].dev
  BY <1>2, SMT DEF FsHas, Request, Body
<1>4. /\ SendBoth(FS, TTY, DevRequest(u))
      /\ fs_pc' = [at |-> "driver", type |-> asked[u].type, src |-> u, len |-> asked[u].cnt]
  BY <1>3 DEF FsAskDriver, DevRequest
<1> DEFINE m == [source |-> FS, body |-> DevRequest(u)]
<1>5. \A w \in Users : /\ ~FsPasses(w) /\ ~InDriver(w) /\ ~FsAwaits(w)
                       /\ Held(w) <=> w = u
  BY <1>2, Places DEF RunInv
<1>6. CASE halt' = "panic"
  <2>1. /\ deadlock(FS, TTY) /\ flags' = flags /\ sendto' = sendto
        /\ buf' = [buf EXCEPT ![FS] = m]
    BY <1>1, <1>4, <1>6 DEF SendBoth, msg_send, SendPanic, SendDeliver, SendBlock, AssertThat,
          kernel
  <2>2. SENDING \in flags[TTY]
    <3> SUFFICES ASSUME SENDING \notin flags[TTY] PROVE FALSE
      OBVIOUS
    <3>1. SendClosed({TTY})
      BY DEF SendClosed
    <3> QED
      BY <2>1, <3>1, Names, NoDeadlock
  <2>3. PICK w \in Users : TtyResumes(w)
    BY <2>2, <1>5, Names DEF RunInv, TtyInv, TtyRuns, TtyWaits, TtyHasInt, TtyReplies, TtyHas
  <2>4. buf'[TTY].body.type = "RESUME_PROC"
    BY <2>1, <2>3, Names DEF TtyResumes, IsLine, RunInv, IInv, TypeOK
  <2>5. fs_pc'.at = "driver"
    BY <1>4
  <2>6. SENDING \in flags'[TTY] /\ sendto'[TTY] = FS /\ flags'[FS] = {}
    BY <1>1, <2>1, <2>2, <2>3 DEF TtyResumes
  <2> QED
    BY <1>6, <2>4, <2>5, <2>6 DEF TInv, HaltsOnlyAtResume, SendingTo
<1>7. CASE halt' # "panic"
  <2>1. DevRequest(u) \in Bodies
    BY <1>3, DevRequestRight
  <2>2. /\ IInv' /\ halt' = "no"
        /\ \A x \in Procs \ {FS} : both'[x] = both[x] /\ (x # TTY => Same(x))
        /\ buf'[FS] = m
        /\ \/ /\ flags[TTY] = {RECEIVING} /\ flags'[TTY] = {} /\ buf'[TTY] = m
              /\ flags'[FS] = {}
           \/ Same(TTY) /\ flags'[FS] = {SENDING} /\ sendto'[FS] = TTY
    BY <1>4, <1>7, <2>1, Sent, Names, SMT DEF RunInv
  <2>3. both'[FS] = TTY
    BY <1>4, Names DEF SendBoth, RunInv, IInv, TypeOK
  <2>4. asked' = asked /\ overtaken' = overtaken
    BY <1>1 DEF user_state
  <2>5. /\ TTypes' /\ KeysInv' /\ tty_pc' = tty_pc /\ reader' = reader
        /\ \A t \in Terminals : LineAt(t)' <=> LineAt(t)
    BY <1>1, <2>4, LoopKept DEF RunInv, TTypes
  <2>6. \A w \in Users : /\ Asking(w)' <=> Asking(w)
                         /\ Owed(w)' <=> Owed(w)
                         /\ Settled(w)' <=> Settled(w)
    BY <2>2, <2>4, UserFrame, Names
  <2>7. UserInv'
    BY <2>6 DEF RunInv, UserInv
  <2>8. FsServes(u)' /\ m = [source |-> FS, body |-> DevRequest(u)']
    BY <1>3, <1>4, <2>4, <2>6 DEF FsServes, DevRequest
  <2>9. \A w \in Users : ~FsPasses(w)' /\ (InDriver(w)' <=> w = u) /\ (FsServes(w)' => w = u)
    BY <1>4 DEF FsPasses, InDriver, FsServes
  <2>10. ~Waits(u) /\ ~TtySends(u)
    BY <1>5 DEF RunInv, LineInv, Waits
  <2>11. CASE Same(TTY) /\ flags'[FS] = {SENDING} /\ sendto'[FS] = TTY
    <3>1. FsAsks(u)'
      BY <2>2, <2>3, <2>8, <2>11 DEF FsAsks
    <3>2. \A w \in Users : ~FsAwaits(w)' /\ (Held(w)' <=> w = u)
      BY <1>4, <2>11, Names DEF FsAwaits, Held
    <3>3. TtyInv'
      BY <1>5, <2>2, <2>4, <2>5, <2>6, <2>11, <3>2, TtyApart, Names DEF RunInv
    <3>4. \A w : TtySends(w)' <=> TtySends(w)
      BY <2>11 DEF Same, TtySends
    <3>5. Kept(u)'
      BY <3>2 DEF Kept
    <3>6. LineInv' /\ KeptInv'
      <4>1. \A w \in Users \ {u} :
              /\ Owed(w)' <=> Owed(w)
              /\ asked'[w] = asked[w]
              /\ Held(w)' <=> Held(w)
              /\ TtySends(w)' <=> TtySends(w)
              /\ FsPasses(w)' <=> FsPasses(w)
              /\ InDriver(w)' <=> InDriver(w)
              /\ w \in overtaken => w \in overtaken'
        BY <1>5, <2>4, <2>6, <2>9, <3>2, <3>4
      <4>2. /\ Waits(u) => Waits(u)'
            /\ TtySends(u)' => Reads(u)' /\ ~Held(u)' /\ ~FsPasses(u)'
            /\ Owed(u)' => Kept(u)'
        BY <2>10, <3>4, <3>5
      <4> QED
        BY <2>5, <4>1, <4>2, OthersKept DEF RunInv
    <3> QED
      BY <2>2, <2>5, <2>7, <3>1, <3>3, <3>6 DEF TInv, RunInv, FsInv, HaltsOnlyAtResume
  <2>12. CASE flags[TTY] = {RECEIVING} /\ flags'[TTY] = {} /\ buf'[TTY] = m /\ flags'[FS] = {}
    <3>1. tty_pc[1] = "serve" /\ both[TTY] = NO_TASK
      BY <2>12, Names DEF RunInv, TtyInv, TtyRuns, TtyWaits, TtyHasInt, TtyReplies, TtyResumes,
            TtyHas
    <3>2. FsAwaits(u)'
      BY <2>3, <2>8, <2>12 DEF FsAwaits
    <3>3. TtyHas(u)'
      BY <2>5, <2>8, <2>12, <3>1, <3>2 DEF TtyHas
    <3>4. TtyInv'
      BY <2>2, <2>9, <3>1, <3>2, <3>3, Names DEF TtyInv, FsAwaits
    <3>5. \A w \in Users : /\ ~TtySends(w)' /\ ~TtySends(w)
                           /\ (Held(w)' <=> w = u)
      BY <1>4, <2>5, <2>12, <3>1, Names, SMT DEF TtySends, Held
    <3>6. Kept(u)'
      BY <3>5 DEF Kept
    <3>7. LineInv' /\ KeptInv'
      BY <1>5, <2>4, <2>5, <2>6, <2>9, <2>10, <3>5, <3>6, OthersKept DEF RunInv
    <3> QED
      BY <2>2, <2>5, <2>7, <3>2, <3>4, <3>7 DEF TInv, RunInv, FsInv, HaltsOnlyAtResume
  <2> QED
    BY <2>2, <2>11, <2>12
<1> QED
  BY <1>6, <1>7

\* task_fs answers u: the answer is handed over, or task_fs waits until the user
\* is in its RECEIVE half.
LEMMA FsReplies ==
  ASSUME RunInv, NEW u \in Users, NEW body \in Bodies,
         FsHasLine(u) \/ (FsTold(u) /\ asked[u].type # "READ"),
         Send(FS, u, body), fs_pc' = FsIdle,
         UNCHANGED <<key_state, tty_state, user_state>>
  PROVE  RunInv' /\ halt' = "no"
<1>1. Owed(u) /\ both[FS] = NO_TASK
  BY DEF FsHasLine, FsTold, FsServes, Reads
<1>2. ~deadlock(FS, u)
  <2>1. SendClosed({u})
    BY <1>1, Names DEF SendClosed, Owed
  <2> QED
    BY <2>1, Names, NoDeadlock
<1>3. halt' # "panic" /\ both' = both
  BY <1>2 DEF Send, msg_send, SendPanic, SendDeliver, SendBlock, AssertThat, Runnable
<1>4. /\ IInv' /\ halt' = "no"
      /\ \A x \in Procs \ {FS} : both'[x] = both[x] /\ (x # u => Same(x))
      /\ \/ /\ flags[u] = {RECEIVING} /\ flags'[u] = {} /\ flags'[FS] = {}
         \/ Same(u) /\ flags'[FS] = {SENDING} /\ sendto'[FS] = u
  BY <1>3, Sent, Names DEF RunInv
<1>5. fs_pc'.at = "receive"
  BY DEF FsIdle
<1>6. CASE flags[u] = {RECEIVING} /\ flags'[u] = {} /\ flags'[FS] = {}
  <2>1. FsReady'
    BY <1>1, <1>3, <1>5, <1>6 DEF FsReady
  <2>2. Settled(u)'
    BY <1>1, <1>3, <1>6, Names DEF Settled, Owed
  <2> QED
    BY <1>4, <2>1, <2>2, Handed, Names
<1>7. CASE Same(u) /\ flags'[FS] = {SENDING} /\ sendto'[FS] = u
  <2>1. asked' = asked /\ overtaken' = overtaken
    BY DEF user_state
  <2>2. /\ TTypes' /\ KeysInv' /\ tty_pc' = tty_pc /\ reader' = reader
        /\ \A t \in Terminals : LineAt(t)' <=> LineAt(t)
    BY <2>1, LoopKept DEF RunInv, TTypes
  <2>3. \A w \in Users : /\ Asking(w)' <=> Asking(w)
                         /\ Owed(w)' <=> Owed(w)
                         /\ Settled(w)' <=> Settled(w)
    BY <1>4, <1>7, <2>1, UserFrame, Names
  <2>4. UserInv'
    BY <2>3 DEF RunInv, UserInv
  <2>5. FsAnswering(u)'
    BY <1>1, <1>3, <1>5, <1>7, <2>3 DEF FsAnswering
  <2>6. \A w \in Users : ~Held(w)' /\ ~InDriver(w)' /\ ~FsAwaits(w)' /\ (FsPasses(w)' <=> w = u)
    BY <1>5, <1>7, Names DEF Held, InDriver, FsAwaits, FsServes, FsPasses
  <2>7. \A w \in Users : /\ ~Held(w) /\ ~FsAwaits(w)
                         /\ w # u => ~FsPasses(w) /\ ~InDriver(w)
    BY Places DEF RunInv
  <2>8. FsPasses(u) \/ asked[u].type # "READ"
    BY Places DEF RunInv
  <2>9. Same(TTY) /\ both'[TTY] = both[TTY]
    BY <1>4, Names
  <2>10. TtyInv'
    BY <2>1, <2>2, <2>3, <2>6, <2>7, <2>9, TtyApart DEF RunInv
  <2>11. \A w : TtySends(w)' <=> TtySends(w)
    BY <2>9 DEF Same, TtySends
  <2>12. ~Waits(u) /\ ~TtySends(u) /\ Kept(u)'
    BY <2>6, <2>8 DEF RunInv, LineInv, Reads, Waits, Kept
  <2>13. LineInv' /\ KeptInv'
    BY <2>1, <2>2, <2>3, <2>6, <2>7, <2>11, <2>12, OthersKept DEF RunInv
  <2> QED
    BY <1>4, <2>2, <2>4, <2>5, <2>10, <2>13 DEF RunInv, FsInv
<1> QED
  BY <1>4, <1>6, <1>7

\* RESUME_PROC: the line goes to its user.
LEMMA FsResumeInv ==
  ASSUME RunInv, FsResume
  PROVE  RunInv' /\ halt' = "no"
<1> DEFINE body == Body("SYSCALL_RET", buf[FS].body.cnt, buf[FS].body.proc, buf[FS].body.dev)
<1>1. /\ fs_pc.at = "serve" /\ buf[FS].body.type = "RESUME_PROC" /\ fs_pc' = FsIdle
      /\ Send(FS, buf[FS].body.proc, body) /\ UNCHANGED <<key_state, tty_state, user_state>>
  BY DEF FsResume
<1>2. flags[FS] = {}
  BY <1>1 DEF Send, Runnable
<1>3. ASSUME NEW u \in Users, FsHas(u) PROVE FALSE
  <2>1. buf[FS].body.type = asked[u].type /\ asked[u] \in Calls
    BY <1>3, DevRequestRight, SMT DEF FsHas, Request, Body
  <2> QED
    BY <1>1, <2>1 DEF Calls
<1>4. PICK u \in Users : FsHasLine(u)
  BY <1>1, <1>2, <1>3, FsServing
<1>5. buf[FS].body.proc = u /\ buf[FS].body \in Bodies
  BY <1>4 DEF FsHasLine, IsLine
<1>6. body \in Bodies
  BY <1>5, TerminalAssumption DEF Body
<1> HIDE DEF body
<1> QED
  BY <1>1, <1>4, <1>5, <1>6, FsReplies

\* task_fs takes the reply of task_tty, or waits for it.
LEMMA FsAwaitDriverInv ==
  ASSUME RunInv, FsAwaitDriver
  PROVE  RunInv' /\ halt' = "no"
<1>1. ReceiveBoth(FS) /\ UNCHANGED <<key_state, tty_state, fs_pc, user_state>>
  BY DEF FsAwaitDriver
<1>2. flags[FS] = {} /\ both[FS] # NO_TASK
  BY <1>1 DEF ReceiveBoth, Runnable
<1>3. PICK u \in Users : FsAwaits(u)
  BY <1>2, Names DEF RunInv, FsInv, FsReady, FsWaits, FsAnswering, FsHas, FsHasLine, FsAsks,
        FsTold
<1>4. both[FS] = TTY /\ FsServes(u)
  BY <1>2, <1>3, Names DEF FsAwaits
<1>5. FS \in Procs /\ TTY \in Sources \ {FS}
  BY Names DEF Sources
<1>6. /\ IInv' /\ halt' = "no" /\ both'[FS] = NO_TASK
      /\ \A x \in Procs \ {FS} : both'[x] = both[x]
      /\ \/ /\ flags[TTY] = {SENDING} /\ sendto[TTY] = FS
            /\ flags'[TTY] = {} /\ buf'[TTY] = buf[TTY]
            /\ flags'[FS] = {} /\ buf'[FS] = buf[TTY]
            /\ \A x \in Procs \ {FS, TTY} : Same(x)
         \/ /\ flags'[FS] = {RECEIVING} /\ recvfrom'[FS] = TTY
            /\ \A x \in Procs \ {FS} : Same(x)
  BY <1>1, <1>4, <1>5, Got, Names, SMT DEF RunInv
<1>7. asked' = asked /\ overtaken' = overtaken /\ fs_pc' = fs_pc
  BY <1>1 DEF user_state
<1>8. /\ TTypes' /\ KeysInv' /\ tty_pc' = tty_pc /\ reader' = reader
      /\ \A t \in Terminals : LineAt(t)' <=> LineAt(t)
  BY <1>1, <1>7, LoopKept DEF RunInv, TTypes
<1>9. \A w \in Users : Same(w) /\ both'[w] = both[w]
  BY <1>6, Names
<1>10. \A w \in Users : /\ Asking(w)' <=> Asking(w)
                        /\ Owed(w)' <=> Owed(w)
                        /\ Settled(w)' <=> Settled(w)
  BY <1>7, <1>9, UserFrame
<1>11. UserInv'
  BY <1>10 DEF RunInv, UserInv
<1>12. FsServes(u)' /\ DevRequest(u)' = DevRequest(u)
  BY <1>4, <1>7, <1>10 DEF FsServes, DevRequest
<1>13. \A w \in Users : /\ ~FsPasses(w) /\ (InDriver(w) <=> w = u)
                        /\ (Held(w) <=> w = u /\ TtyHas(u))
  BY <1>3, Places DEF RunInv
<1>14. \A w \in Users : /\ ~FsPasses(w)' /\ (InDriver(w)' <=> w = u)
                        /\ (FsServes(w)' => w = u)
  BY <1>12 DEF FsServes, FsPasses, InDriver
<1>15. CASE /\ flags[TTY] = {SENDING} /\ sendto[TTY] = FS
            /\ flags'[TTY] = {} /\ buf'[TTY] = buf[TTY]
            /\ flags'[FS] = {} /\ buf'[FS] = buf[TTY]
  <2>1. TtyReplies(u) /\ ~TtyHas(u)
    BY <1>3, <1>15, Names DEF RunInv, TtyInv, TtyHas
  <2>2. FsTold(u)'
    BY <1>6, <1>7, <1>12, <1>15, <2>1 DEF FsTold, TtyReplies, IsReply
  <2>3. TtyRuns' /\ both'[TTY] = NO_TASK
    BY <1>6, <1>8, <1>15, <2>1, Names DEF TtyRuns, TtyReplies, Scans, RunInv, TtyInv
  <2>4. \A w \in Users : ~FsAwaits(w)'
    BY <1>6, <1>15, Names DEF FsAwaits
  <2>5. TtyInv'
    BY <2>3, <2>4 DEF TtyInv
  <2>6. \A w : ~TtySends(w) /\ ~TtySends(w)'
    BY <1>15, <2>1 DEF TtySends, TtyReplies, IsReply
  <2>7. \A w \in Users : ~Held(w)'
    BY <1>7, <1>8, <1>12, <1>15, <2>1, SMT DEF Held, FsServes, TtyReplies, Scans
  <2>8. LineInv' /\ KeptInv'
    BY <1>7, <1>8, <1>10, <1>13, <1>14, <2>1, <2>6, <2>7, OthersKept, Names DEF RunInv
  <2> QED
    BY <1>6, <1>8, <1>11, <2>2, <2>5, <2>8 DEF RunInv, FsInv
<1>16. CASE /\ flags'[FS] = {RECEIVING} /\ recvfrom'[FS] = TTY
            /\ \A x \in Procs \ {FS} : Same(x)
  <2>1. FsAwaits(u)'
    BY <1>6, <1>12, <1>16 DEF FsAwaits
  <2>2. \A w \in Users : FsAwaits(w)' <=> FsAwaits(w)
    <3>1. \A w \in Users : FsAwaits(w) <=> w = u
      BY <1>3, Places DEF RunInv
    <3> QED
      BY <1>14, <2>1, <3>1 DEF FsAwaits
  <2>3. Same(TTY) /\ both'[TTY] = both[TTY] /\ CallsSame
    BY <1>6, <1>7, <1>10, <1>16, Names DEF CallsSame
  <2>4. TtyInv'
    BY <1>8, <2>2, <2>3, TtyFrame DEF RunInv, TtyInv
  <2>5. \A w : TtySends(w)' <=> TtySends(w)
    BY <2>3 DEF Same, TtySends
  <2>6. \A w : Held(w)' <=> Held(w)
    BY <1>2, <1>4, <1>7, <1>8, <1>16, <2>3, Names DEF Held, Same, FsServes
  <2>7. LineInv' /\ KeptInv'
    BY <1>7, <1>8, <1>10, <1>13, <1>14, <2>5, <2>6, OthersKept, Names DEF RunInv
  <2> QED
    BY <1>6, <1>8, <1>11, <2>1, <2>4, <2>7 DEF RunInv, FsInv
<1> QED
  BY <1>6, <1>15, <1>16

\* The dialogue with task_tty is over: the call is answered, unless the read is
\* suspended.  The assert of do_rdwt holds.
LEMMA FsAnswerInv ==
  ASSUME RunInv, FsAnswer
  PROVE  RunInv' /\ halt' = "no"
<1>1. /\ fs_pc.at = "driver" /\ flags[FS] = {} /\ both[FS] = NO_TASK /\ halt = "no"
      /\ fs_pc' = FsIdle /\ UNCHANGED <<key_state, tty_state, user_state>>
  BY DEF FsAnswer, Runnable
<1>2. PICK u \in Users : FsTold(u)
  BY <1>1, Names DEF RunInv, FsInv, FsReady, FsWaits, FsAnswering, FsHas, FsHasLine, FsAsks,
        FsAwaits
<1>3. /\ fs_pc.type = asked[u].type /\ fs_pc.len = asked[u].cnt /\ fs_pc.src = u
      /\ Owed(u) /\ IsReply(buf[FS], u)
  BY <1>2 DEF FsTold, FsServes
<1>4. ~(fs_pc.type # "OPEN" /\ buf[FS].body.cnt # fs_pc.len)
  BY <1>3 DEF IsReply
<1>5. CASE buf[FS].body.type = "SUSPEND_PROC"
  <2>1. UNCHANGED vars
    BY <1>4, <1>5 DEF FsAnswer
  <2>2. /\ IInv' /\ halt' = "no" /\ asked' = asked /\ overtaken' = overtaken
        /\ \A x \in Procs : Same(x) /\ both'[x] = both[x]
    BY <1>1, <2>1, StutterInv DEF RunInv, vars, kernel, Same, user_state
  <2>3. /\ TTypes' /\ KeysInv' /\ tty_pc' = tty_pc /\ reader' = reader
        /\ \A t \in Terminals : LineAt(t)' <=> LineAt(t)
    BY <1>1, <2>2, LoopKept DEF RunInv, TTypes
  <2>4. \A w \in Users : /\ Asking(w)' <=> Asking(w)
                         /\ Owed(w)' <=> Owed(w)
                         /\ Settled(w)' <=> Settled(w)
    BY <2>2, UserFrame, Names
  <2>5. UserInv'
    BY <2>4 DEF RunInv, UserInv
  <2>6. fs_pc'.at = "receive" /\ flags'[FS] = {}
    BY <1>1, <2>2, Names DEF FsIdle, Same
  <2>7. FsReady'
    BY <1>1, <2>2, <2>6, Names DEF FsReady
  <2>8. \A w \in Users : ~Held(w)' /\ ~FsPasses(w)' /\ ~InDriver(w)' /\ ~FsAwaits(w)'
    BY <2>6, Names, SMT DEF Held, FsPasses, InDriver, FsAwaits, FsServes
  <2>9. \A w \in Users : ~Held(w) /\ ~FsPasses(w) /\ (InDriver(w) <=> w = u) /\ ~FsAwaits(w)
    BY <1>2, Places DEF RunInv
  <2>10. TtyInv'
    BY <2>2, <2>3, <2>4, <2>8, <2>9, TtyApart, Names DEF RunInv
  <2>11. \A w : TtySends(w)' <=> TtySends(w)
    BY <2>2, Names DEF Same, TtySends
  <2>12. asked[u].type = "READ" /\ Kept(u)
    BY <1>3, <1>5 DEF IsReply, RunInv, KeptInv
  <2>13. Kept(u)' /\ (Waits(u) => Waits(u)')
    BY <2>2, <2>3, <2>4, <2>8, <2>9, <2>11, <2>12 DEF Kept, Waits, Reads
  <2>14. TtySends(u)' => Reads(u)'
    BY <2>2, <2>4, <2>11 DEF RunInv, LineInv, Reads
  <2>15. LineInv' /\ KeptInv'
    BY <2>2, <2>3, <2>4, <2>8, <2>9, <2>11, <2>13, <2>14, OthersKept DEF RunInv
  <2> QED
    BY <2>2, <2>3, <2>5, <2>7, <2>10, <2>15 DEF RunInv, FsInv
<1>6. CASE buf[FS].body.type # "SUSPEND_PROC"
  <2> DEFINE body == Body("SYSCALL_RET", asked[u].cnt, buf[FS].body.proc, buf[FS].body.dev)
  <2>1. Send(FS, u, body)
    BY <1>3, <1>4, <1>6 DEF FsAnswer
  <2>2. asked[u].type # "READ" /\ buf[FS].body \in Bodies
    BY <1>3, <1>6 DEF IsReply
  <2>3. asked[u].cnt \in 0 .. MAX_CNT
    BY <1>3, DevRequestRight DEF Calls
  <2>4. body \in Bodies
    BY <2>2, <2>3, TerminalAssumption DEF Body
  <2> HIDE DEF body
  <2> QED
    BY <1>1, <1>2, <2>1, <2>2, <2>4, FsReplies
<1> QED
  BY <1>5, <1>6

-----------------------------------------------------------------------------
(***************************************************************************)
(* The steps of task_tty in its loop                                       *)
(***************************************************************************)

\* Where the loop goes on: at a terminal, with its keys first when it is the
\* current one, or at the end.
LEMMA NextTerminal ==
  ASSUME TTypes, NEW t \in -1 .. NR_CONSOLES - 1, NEW b, NEW next,
         next = IF b # <<>> THEN t ELSE t + 1,
         b # <<>> => t \in Terminals
  PROVE  /\ next \in Terminals /\ next = current => After(t, b) = <<"keys", next>>
         /\ next \in Terminals /\ next # current => After(t, b) = <<"write", next>>
         /\ next \notin Terminals => After(t, b) = <<"receive", 0>> /\ next = NR_CONSOLES
         /\ After(t, b) \in {"keys", "write", "receive"} \X Terminals
         /\ After(t, b)[1] \in {"keys", "write", "receive"}
<1>1. NR_CONSOLES \in Nat \ {0}
  BY TerminalAssumption
<1>2. /\ next \in Terminals /\ next = current => After(t, b) = <<"keys", next>>
      /\ next \in Terminals /\ next # current => After(t, b) = <<"write", next>>
      /\ next \notin Terminals => After(t, b) = <<"receive", 0>>
  BY DEF After, TTypes
<1>3. next \notin Terminals => next = NR_CONSOLES
  BY <1>1, SMT DEF Terminals
<1>4. 0 \in Terminals
  BY <1>1, SMT DEF Terminals
<1>5. After(t, b) \in {"keys", "write", "receive"} \X Terminals
  BY <1>2, <1>4, SMT
<1> QED
  BY <1>2, <1>3, <1>5

\* The loop begins with the first terminal.
LEMMA RescanRight ==
  ASSUME TTypes, Rescan
  PROVE  /\ tty_pc' \in {"keys", "write"} \X Terminals
         /\ tty_pc'[1] \in {"keys", "write"} /\ tty_pc'[2] = 0
         /\ tty_pc'[1] = "keys" \/ 0 < current
<1>1. NR_CONSOLES \in Nat \ {0} /\ 0 \in Terminals /\ -1 \in -1 .. NR_CONSOLES - 1
  BY TerminalAssumption, SMT DEF Terminals
<1>2. tty_pc' = After(-1, <<>>) /\ -1 + 1 = 0
  BY SMT DEF Rescan
<1>3. tty_pc' = IF 0 = current THEN <<"keys", 0>> ELSE <<"write", 0>>
  BY <1>1, <1>2, NextTerminal, SMT
<1>4. current \in Nat
  BY <1>1, SMT DEF TTypes, Terminals
<1> QED
  BY <1>1, <1>3, <1>4, SMT

\* Nothing changes but keys and characters.
LEMMA KeysOnly ==
  ASSUME RunInv, halt = "no", TTypes', KeysInv',
         UNCHANGED <<vars, reader, tty_pc, fs_pc, user_state>>
  PROVE  RunInv' /\ halt' = "no"
<1>1. /\ IInv' /\ halt' = "no" /\ asked' = asked /\ overtaken' = overtaken
      /\ \A x \in Procs : Same(x) /\ both'[x] = both[x]
  BY StutterInv DEF RunInv, vars, kernel, Same, user_state
<1>2. \A w \in Users : /\ Asking(w)' <=> Asking(w)
                       /\ Owed(w)' <=> Owed(w)
                       /\ Settled(w)' <=> Settled(w)
  BY <1>1, UserFrame, Names
<1>3. UserInv' /\ CallsSame
  BY <1>1, <1>2 DEF RunInv, UserInv, CallsSame
<1>4. FsInv' /\ TtyInv' /\ \A w : /\ Held(w)' <=> Held(w)
                                  /\ TtySends(w)' <=> TtySends(w)
                                  /\ FsPasses(w)' <=> FsPasses(w)
                                  /\ InDriver(w)' <=> InDriver(w)
  BY <1>1, <1>3, TasksKept, Names DEF RunInv
<1>5. \A t : LineAt(t)' <=> LineAt(t)
  BY DEF LineAt
<1>6. NO_TASK \notin Users
  BY Names
<1>7. LineInv' /\ KeptInv'
  BY <1>1, <1>2, <1>4, <1>5, <1>6, OthersKept DEF RunInv
<1> QED
  BY <1>1, <1>3, <1>4, <1>7 DEF RunInv

\* A key is taken from the keyboard for the current terminal, or changes it.
LEMMA TtyKeyInv ==
  ASSUME RunInv, TtyKey
  PROVE  RunInv' /\ halt' = "no"
<1> DEFINE t == tty_pc[2]
           k == Head(kb)
<1>1. /\ halt = "no" /\ tty_pc[1] = "keys" /\ kb # <<>> /\ kb' = Tail(kb)
      /\ inbuf' = IF k.ch \in Chars /\ Len(inbuf[t]) < TTY_IN_BYTES
                  THEN [inbuf EXCEPT ![t] = Append(@, k.ch)] ELSE inbuf
      /\ current' = IF k.ch = "alt" THEN k.nr ELSE current
      /\ UNCHANGED <<vars, nkeys, key_pressed, reader, tty_pc, fs_pc, user_state>>
  BY DEF TtyKey, Runnable
<1>2. TTypes
  BY DEF RunInv
<1>3. t \in Terminals /\ kb' \in Seq(Typed) /\ k \in Typed
  BY <1>1, <1>2, SMT DEF TTypes
<1>4. current' \in Terminals
  BY <1>1, <1>2, <1>3 DEF TTypes, Typed, Chars
<1>5. inbuf' \in [Terminals -> Seq(Chars)] /\ \A s \in Terminals : s # t => inbuf'[s] = inbuf[s]
  <2>1. CASE inbuf' = inbuf
    BY <2>1, <1>2 DEF TTypes
  <2>2. CASE k.ch \in Chars /\ inbuf' = [inbuf EXCEPT ![t] = Append(@, k.ch)]
    BY <2>2, <1>2, <1>3, SMT DEF TTypes
  <2> QED
    BY <1>1, <2>1, <2>2
<1>6. asked' = asked
  BY <1>1 DEF user_state
<1>7. TTypes'
  BY <1>1, <1>2, <1>3, <1>4, <1>5, <1>6 DEF TTypes
<1>8. t \in Int /\ \A s \in Terminals : inbuf'[s] # <<>> => t <= s
  <2>1. \A s \in Terminals : s # t /\ inbuf'[s] # <<>> => t <= s
    BY <1>5 DEF RunInv, KeysInv
  <2>2. t \in Int
    BY <1>3, TerminalAssumption, SMT DEF Terminals
  <2> QED
    BY <2>1, <2>2, SMT
<1>9. KeysInv'
  BY <1>1, <1>8 DEF KeysInv, Scans
<1> QED
  BY <1>1, <1>7, <1>9, KeysOnly

\* A key goes down: it will be announced.
LEMMA KeyPressInv ==
  ASSUME RunInv, NEW k \in Typed, KeyPress(k)
  PROVE  RunInv' /\ halt' = "no"
<1>1. /\ halt = "no" /\ kb' = Append(kb, k) /\ key_pressed' = TRUE
      /\ UNCHANGED <<vars, tty_state, fs_pc, user_state>>
  BY DEF KeyPress
<1>2. /\ current' = current /\ inbuf' = inbuf /\ reader' = reader /\ tty_pc' = tty_pc
      /\ asked' = asked
  BY <1>1 DEF tty_state, user_state
<1>3. TTypes'
  BY <1>1, <1>2, SMT DEF RunInv, TTypes
<1>4. KeysInv'
  BY <1>1, <1>2 DEF RunInv, KeysInv, Scans
<1> QED
  BY <1>1, <1>2, <1>3, <1>4, KeysOnly

\* What is left of keys and characters when the loop is done with one of terminal
\* t lies ahead.
LEMMA KeysAhead ==
  ASSUME TTypes, NEW t \in Terminals, tty_pc' = After(t, inbuf'[t]),
         kb' = kb, key_pressed' = key_pressed, current' = current,
         \A s \in Terminals : s # t => inbuf'[s] = inbuf[s],
         kb # <<>> /\ ~key_pressed => t < current,
         \A s \in Terminals : inbuf[s] # <<>> => t <= s
  PROVE  /\ KeysInv'
         /\ tty_pc' \in {"keys", "write", "receive"} \X Terminals
         /\ tty_pc'[1] \in {"keys", "write", "receive"}
<1>1. PICK next : next = IF inbuf'[t] # <<>> THEN t ELSE t + 1
  OBVIOUS
<1>2. t \in -1 .. NR_CONSOLES - 1 /\ current \in Terminals /\ \A s \in Terminals : s \in Int
  BY TerminalAssumption, SMT DEF Terminals, TTypes
<1>3. /\ next \in Terminals /\ next = current => tty_pc' = <<"keys", next>>
      /\ next \in Terminals /\ next # current => tty_pc' = <<"write", next>>
      /\ next \notin Terminals => next = NR_CONSOLES
      /\ tty_pc' \in {"keys", "write", "receive"} \X Terminals
      /\ tty_pc'[1] \in {"keys", "write", "receive"}
  BY <1>1, <1>2, NextTerminal, SMT
<1>4. \A s \in Terminals : inbuf'[s] # <<>> => next <= s
  BY <1>1, <1>2, SMT
<1>5. kb # <<>> /\ ~key_pressed => next <= current
  BY <1>1, <1>2, SMT
<1>6. CASE next \in Terminals
  BY <1>2, <1>3, <1>4, <1>5, <1>6, SMT DEF KeysInv, Scans
<1>7. CASE next \notin Terminals
  <2>1. \A s \in Terminals : ~(next <= s)
    BY <1>3, <1>7, TerminalAssumption, SMT DEF Terminals
  <2> QED
    BY <1>2, <1>3, <1>4, <1>5, <2>1 DEF KeysInv
<1> QED
  BY <1>3, <1>6, <1>7

\* A character typed for a read moves one byte between what is left and what is
\* transferred.
LEMMA EditedRight ==
  ASSUME NEW r \in Readers, r.left + r.trans <= MAX_CNT, r.left > 0, NEW ch
  PROVE  /\ Edited(r, ch) \in Readers /\ Edited(r, ch).left + Edited(r, ch).trans <= MAX_CNT
         /\ Edited(r, ch).caller = r.caller /\ Edited(r, ch).procnr = r.procnr
<1>1. MAX_CNT \in Nat
  BY TerminalAssumption
<1>2. r.left \in Nat /\ r.trans \in Nat
  BY SMT DEF Readers
<1>3. CASE ch = "x"
  <2>1. Edited(r, ch) = [r EXCEPT !.trans = r.trans + 1, !.left = r.left - 1]
    BY <1>3 DEF Edited
  <2>2. /\ Edited(r, ch).trans = r.trans + 1 /\ Edited(r, ch).left = r.left - 1
        /\ Edited(r, ch).caller = r.caller /\ Edited(r, ch).procnr = r.procnr
    BY <2>1 DEF Readers
  <2>3. r.trans + 1 \in 0 .. MAX_CNT /\ r.left - 1 \in 0 .. MAX_CNT
    BY <1>1, <1>2, SMT
  <2>4. Edited(r, ch) \in Readers
    BY <2>1, <2>3 DEF Readers
  <2> QED
    BY <1>1, <1>2, <2>2, <2>4, SMT
<1>4. CASE ch = "bs" /\ r.trans > 0
  <2>1. Edited(r, ch) = [r EXCEPT !.trans = r.trans - 1, !.left = r.left + 1]
    BY <1>4 DEF Edited
  <2>2. /\ Edited(r, ch).trans = r.trans - 1 /\ Edited(r, ch).left = r.left + 1
        /\ Edited(r, ch).caller = r.caller /\ Edited(r, ch).procnr = r.procnr
    BY <2>1 DEF Readers
  <2>3. r.trans - 1 \in 0 .. MAX_CNT /\ r.left + 1 \in 0 .. MAX_CNT
    BY <1>1, <1>2, <1>4, SMT
  <2>4. Edited(r, ch) \in Readers
    BY <2>1, <2>3 DEF Readers
  <2> QED
    BY <1>1, <1>2, <2>2, <2>4, SMT
<1>5. CASE ch # "x" /\ ~(ch = "bs" /\ r.trans > 0)
  BY <1>5 DEF Edited
<1> QED
  BY <1>3, <1>4, <1>5

\* One character goes to the screen and to the read that waits for it; a complete
\* line is announced next.
LEMMA TtyWriteInv ==
  ASSUME RunInv, TtyWrite
  PROVE  RunInv' /\ halt' = "no"
<1>0. PICK t : t = tty_pc[2]
  OBVIOUS
<1> DEFINE ch == Head(inbuf[t])
           r == IF reader[t].left > 0 THEN Edited(reader[t], ch) ELSE reader[t]
           done == reader[t].left > 0 /\ (ch = "nl" \/ r.left = 0)
<1>1. /\ halt = "no" /\ flags[TTY] = {}
      /\ tty_pc[1] = "write" \/ (tty_pc[1] = "keys" /\ kb = <<>>)
      /\ UNCHANGED <<vars, key_state, current, fs_pc, user_state>>
  BY DEF TtyWrite, Runnable
<1>2. \/ inbuf[t] = <<>> /\ tty_pc' = After(t, <<>>) /\ inbuf' = inbuf /\ reader' = reader
      \/ /\ inbuf[t] # <<>> /\ inbuf' = [inbuf EXCEPT ![t] = Tail(inbuf[t])]
         /\ reader' = [reader EXCEPT ![t] = r]
         /\ tty_pc' = IF done THEN <<"resume", t>> ELSE After(t, Tail(inbuf[t]))
  BY <1>0 DEF TtyWrite
<1>3. TTypes /\ t \in Terminals /\ reader[t] \in Readers /\ inbuf[t] \in Seq(Chars)
  BY <1>0 DEF RunInv, TTypes
<1>4. /\ r \in Readers /\ r.left + r.trans <= MAX_CNT
      /\ r.caller = reader[t].caller /\ r.procnr = reader[t].procnr
      /\ reader[t].left = 0 => r.left = 0
  BY <1>3, EditedRight, SMT DEF TTypes, Readers
<1> HIDE DEF r
<1>5. /\ IInv' /\ halt' = "no" /\ asked' = asked /\ overtaken' = overtaken
      /\ \A x \in Procs : Same(x) /\ both'[x] = both[x]
  BY <1>1, StutterInv DEF RunInv, vars, kernel, Same, user_state
<1>6. /\ kb' = kb /\ key_pressed' = key_pressed /\ current' = current
  BY <1>1 DEF key_state
<1>7. /\ reader' \in [Terminals -> Readers]
      /\ \A s \in Terminals : /\ reader'[s].left + reader'[s].trans <= MAX_CNT
                              /\ s # t => reader'[s] = reader[s]
                              /\ reader'[s].caller = reader[s].caller
                              /\ reader'[s].procnr = reader[s].procnr
      /\ inbuf' \in [Terminals -> Seq(Chars)]
      /\ \A s \in Terminals : s # t => inbuf'[s] = inbuf[s]
  <2>1. CASE inbuf' = inbuf /\ reader' = reader
    BY <2>1, <1>3 DEF TTypes
  <2>2. CASE /\ inbuf[t] # <<>> /\ inbuf' = [inbuf EXCEPT ![t] = Tail(inbuf[t])]
             /\ reader' = [reader EXCEPT ![t] = r]
    BY <2>2, <1>3, <1>4, SMT DEF TTypes
  <2> QED
    BY <1>2, <2>1, <2>2
<1>8. /\ \/ tty_pc' = After(t, inbuf'[t])
         \/ tty_pc' = <<"resume", t>> /\ done
      /\ tty_pc' # <<"resume", t>> => (LineAt(t) => reader'[t].left > 0)
  <2>1. CASE inbuf[t] = <<>>
    <3>1. inbuf'[t] = <<>> /\ tty_pc' = After(t, <<>>) /\ reader' = reader
      BY <1>2, <2>1
    <3>2. LineAt(t) => reader'[t].left > 0
      BY <1>1, <3>1, SMT DEF LineAt
    <3> QED
      BY <3>1, <3>2
  <2>2. CASE inbuf[t] # <<>>
    <3>1. inbuf'[t] = Tail(inbuf[t]) /\ reader'[t] = r
      BY <1>2, <1>3, <2>2 DEF TTypes
    <3>2. LineAt(t) => reader[t].left > 0
      BY <1>1, SMT DEF LineAt
    <3>3. reader[t].left > 0 /\ ~done => r.left > 0
      BY <1>4, SMT DEF Readers
    <3> QED
      BY <1>2, <2>2, <3>1, <3>2, <3>3
  <2> QED
    BY <2>1, <2>2
<1>9. /\ kb # <<>> /\ ~key_pressed => t < current
      /\ \A s \in Terminals : inbuf[s] # <<>> => t <= s
  BY <1>0, <1>1 DEF RunInv, KeysInv
<1>10. tty_pc' = After(t, inbuf'[t]) =>
         /\ KeysInv'
         /\ tty_pc' \in {"keys", "write", "receive"} \X Terminals
         /\ tty_pc'[1] \in {"keys", "write", "receive"}
  BY <1>3, <1>6, <1>7, <1>9, KeysAhead
<1>11. tty_pc' = <<"resume", t>> => KeysInv'
  <2>1. t \in Int
    BY <1>3, TerminalAssumption, SMT DEF Terminals
  <2>2. \A s \in Terminals : inbuf'[s] # <<>> => t <= s
    BY <1>7, <1>9, <2>1, SMT
  <2> QED
    BY <1>6, <1>9, <2>2, SMT DEF KeysInv, Scans
<1>12. TTypes'
  BY <1>3, <1>5, <1>6, <1>7, <1>8, <1>10, SMT DEF TTypes
<1>13. KeysInv'
  BY <1>8, <1>10, <1>11
<1>14. tty_pc'[1] \in {"keys", "write", "resume", "receive"}
  BY <1>8, <1>10, SMT
<1>15. TtyRuns'
  BY <1>1, <1>5, <1>14, Names DEF TtyRuns, Same, Scans
<1>16. \A w \in Users : /\ Asking(w)' <=> Asking(w)
                        /\ Owed(w)' <=> Owed(w)
                        /\ Settled(w)' <=> Settled(w)
  BY <1>5, UserFrame, Names
<1>17. UserInv' /\ CallsSame
  BY <1>5, <1>16 DEF RunInv, UserInv, CallsSame
<1>18. FsInv' /\ \A w \in Users : FsAwaits(w)' <=> FsAwaits(w)
  BY <1>1, <1>5, <1>17, FsFrame, Names DEF RunInv, FsInv
<1>19. \A w \in Users : ~FsAwaits(w)
  BY <1>1 DEF RunInv, TtyInv, TtyReplies, TtyHas
<1>20. TtyInv'
  BY <1>5, <1>15, <1>18, <1>19, Names DEF RunInv, TtyInv
<1>21. \A w : /\ Held(w)' <=> Held(w)
              /\ TtySends(w)' <=> TtySends(w)
              /\ FsPasses(w)' <=> FsPasses(w)
              /\ InDriver(w)' <=> InDriver(w)
  BY <1>1, <1>5, <1>14, Names DEF Same, Held, TtySends, FsPasses, InDriver
<1>22. \A s \in Terminals : LineAt(s)' <=> LineAt(s)
  <2>1. \A s \in Terminals : tty_pc # <<"resume", s>>
    BY <1>1, SMT
  <2>2. \A s \in Terminals : s # t => tty_pc' # <<"resume", s>>
    BY <1>8, <1>10, SMT
  <2>3. \A s \in Terminals : s # t => (LineAt(s)' <=> LineAt(s))
    BY <1>7, <2>1, <2>2 DEF LineAt
  <2>4. LineAt(t) => LineAt(t)'
    BY <1>8 DEF LineAt
  <2>5. LineAt(t)' => LineAt(t)
    <3>1. reader'[t] \in {reader[t], r}
      BY <1>2, <1>3 DEF TTypes
    <3>2. reader'[t].left > 0 => reader[t].left > 0
      BY <1>3, <1>4, <3>1, SMT DEF Readers
    <3> QED
      BY <1>8, <1>10, <3>2, SMT DEF LineAt
  <2> QED
    BY <2>3, <2>4, <2>5
<1>23. NO_TASK \notin Users
  BY Names
<1>24. LineInv' /\ KeptInv'
  BY <1>5, <1>7, <1>16, <1>21, <1>22, <1>23, ReadersKept DEF RunInv
<1> QED
  BY <1>5, <1>12, <1>13, <1>17, <1>18, <1>20, <1>24 DEF RunInv

\* Only a request of task_fs to task_tty can make a cycle with a send of task_tty.
LEMMA TtyDeadlock ==
  ASSUME RunInv, deadlock(TTY, FS)
  PROVE  \E w \in Users : FsAsks(w)
<1>1. SENDING \in flags[FS]
  <2> SUFFICES ASSUME SENDING \notin flags[FS] PROVE FALSE
    OBVIOUS
  <2>1. SendClosed({FS})
    BY DEF SendClosed
  <2> QED
    BY <2>1, Names, NoDeadlock
<1>2. \A w \in Users : ~FsAnswering(w)
  <2> SUFFICES ASSUME NEW w \in Users, FsAnswering(w) PROVE FALSE
    OBVIOUS
  <2>1. SENDING \notin flags[w] /\ sendto[FS] = w
    BY Names DEF FsAnswering, Owed
  <2>2. SendClosed({FS, w})
    BY <2>1 DEF SendClosed
  <2> QED
    BY <2>2, Names, NoDeadlock
<1> QED
  BY <1>1, <1>2, Names DEF RunInv, FsInv, FsReady, FsWaits, FsHas, FsHasLine, FsAwaits, FsTold

\* task_fs takes a message of task_tty, when it waits for one.
LEMMA FsTakes ==
  ASSUME RunInv, flags[FS] = {RECEIVING}
  PROVE  FsWaits \/ \E u \in Users : FsAwaits(u)
BY Names DEF RunInv, FsInv, FsReady, FsAnswering, FsHas, FsHasLine, FsAsks, FsTold

\* A line is complete: the read leaves the terminal and is on its way to task_fs.
\* If task_fs has asked for something meanwhile, that is the end.
LEMMA TtyResumeInv ==
  ASSUME RunInv, TtyResume
  PROVE  TInv'
<1>1. PICK t : t = tty_pc[2]
  OBVIOUS
<1>2. /\ tty_pc[1] = "resume" /\ reader' = [reader EXCEPT ![t].left = 0]
      /\ tty_pc' = After(t, inbuf[t])
      /\ UNCHANGED <<key_state, current, inbuf, fs_pc, user_state>>
  BY <1>1 DEF TtyResume
<1>3. TTypes /\ t \in Terminals /\ reader[t] \in Readers /\ tty_pc = <<"resume", t>>
  BY <1>1, <1>2, SMT DEF RunInv, TTypes
<1>4. PICK u \in Users : u = reader[t].procnr
  BY <1>3 DEF RunInv, LineInv, LineAt
<1>5. reader[t].caller = FS /\ Waits(u)
  BY <1>3, <1>4 DEF RunInv, LineInv, LineAt
<1> DEFINE body == Body("RESUME_PROC", reader[t].trans, u, 0)
           m == [source |-> TTY, body |-> body]
<1>6. Send(TTY, FS, body)
  BY <1>1, <1>4, <1>5 DEF TtyResume
<1>7. body \in Bodies
  <2>1. 0 \in Terminals /\ reader[t].trans \in 0 .. MAX_CNT /\ u \in Procs
    BY <1>3, TerminalAssumption, Names, SMT DEF Terminals, Readers
  <2> QED
    BY <2>1, TerminalAssumption DEF Body
<1>8. body.type = "RESUME_PROC" /\ body.proc = u /\ m.source = TTY /\ m.body = body
  BY DEF Body
<1>9. halt = "no" /\ flags[TTY] = {}
  BY <1>6 DEF Send, Runnable
<1>10. \A w \in Users : ~FsAwaits(w)
  BY <1>2, <1>9 DEF RunInv, TtyInv, TtyReplies, TtyHas
<1> HIDE DEF body
<1>11. CASE halt' = "panic"
  <2>1. /\ deadlock(TTY, FS) /\ flags' = flags /\ sendto' = sendto
        /\ buf' = [buf EXCEPT ![TTY] = m]
    BY <1>6, <1>9, <1>11 DEF Send, msg_send, SendPanic, SendDeliver, SendBlock, AssertThat, kernel
  <2>2. PICK w \in Users : FsAsks(w)
    BY <2>1, TtyDeadlock
  <2>3. buf'[TTY] = m
    BY <2>1, Names DEF RunInv, IInv, TypeOK
  <2>4. fs_pc'.at = "driver"
    BY <1>2, <2>2 DEF FsAsks, FsServes
  <2>5. SENDING \in flags'[FS] /\ sendto'[FS] = TTY /\ flags'[TTY] = {}
    BY <1>9, <2>1, <2>2 DEF FsAsks
  <2> QED
    BY <1>8, <1>11, <2>3, <2>4, <2>5 DEF TInv, HaltsOnlyAtResume, SendingTo
<1>12. CASE halt' # "panic"
  <2>1. /\ IInv' /\ halt' = "no"
        /\ \A x \in Procs \ {TTY} : both'[x] = both[x] /\ (x # FS => Same(x))
        /\ buf'[TTY] = m
        /\ \/ /\ flags[FS] = {RECEIVING} /\ flags'[FS] = {} /\ buf'[FS] = m
              /\ flags'[TTY] = {}
           \/ Same(FS) /\ flags'[TTY] = {SENDING} /\ sendto'[TTY] = FS
    BY <1>6, <1>7, <1>12, Sent, Names, SMT DEF RunInv
  <2>2. both' = both /\ both'[TTY] = NO_TASK
    BY <1>6 DEF Send, RunInv, TtyInv
  <2>3. /\ asked' = asked /\ overtaken' = overtaken
        /\ kb' = kb /\ key_pressed' = key_pressed /\ current' = current /\ inbuf' = inbuf
    BY <1>2 DEF user_state, key_state
  <2>4. /\ KeysInv' /\ tty_pc' \in {"keys", "write", "receive"} \X Terminals
        /\ tty_pc'[1] \in {"keys", "write", "receive"}
    <3>1. /\ kb # <<>> /\ ~key_pressed => t < current
          /\ \A s \in Terminals : inbuf[s] # <<>> => t <= s
      BY <1>1, <1>2 DEF RunInv, KeysInv
    <3> QED
      BY <1>2, <1>3, <2>3, <3>1, KeysAhead
  <2>5. /\ reader' \in [Terminals -> Readers]
        /\ \A s \in Terminals : /\ reader'[s].caller = reader[s].caller
                                /\ reader'[s].procnr = reader[s].procnr
                                /\ reader'[s].trans = reader[s].trans
                                /\ s # t => reader'[s] = reader[s]
        /\ reader'[t].left = 0
    <3>1. 0 \in 0 .. MAX_CNT
      BY TerminalAssumption, SMT
    <3>2. reader'[t] = [reader[t] EXCEPT !.left = 0] /\ \A s \in Terminals : s # t => reader'[s] = reader[s]
      BY <1>2, <1>3 DEF TTypes
    <3>3. [reader[t] EXCEPT !.left = 0] \in Readers
      BY <1>3, <3>1 DEF Readers
    <3>4. reader' \in [Terminals -> Readers]
      BY <1>2, <1>3, <3>3 DEF TTypes
    <3>5. /\ reader'[t].caller = reader[t].caller /\ reader'[t].procnr = reader[t].procnr
          /\ reader'[t].trans = reader[t].trans /\ reader'[t].left = 0
      BY <1>3, <3>2 DEF Readers
    <3> QED
      BY <3>2, <3>4, <3>5
  <2>6. TTypes'
    <3>1. \A s \in Terminals : s # t => reader'[s].left + reader'[s].trans <= MAX_CNT
      BY <1>3, <2>5 DEF TTypes
    <3>2. reader'[t].left = 0 /\ reader'[t].trans \in 0 .. MAX_CNT
      BY <1>3, <2>5 DEF Readers
    <3>3. reader'[t].left + reader'[t].trans <= MAX_CNT
      BY <3>2, TerminalAssumption, SMT
    <3> QED
      BY <1>3, <2>3, <2>4, <2>5, <3>1, <3>3 DEF TTypes
  <2>7. \A w \in Users : /\ Asking(w)' <=> Asking(w)
                         /\ Owed(w)' <=> Owed(w)
                         /\ Settled(w)' <=> Settled(w)
    BY <2>1, <2>3, UserFrame, Names
  <2>8. UserInv' /\ CallsSame /\ Reads(u)' /\ Reads(u)
    BY <1>5, <2>3, <2>7 DEF RunInv, UserInv, CallsSame, Reads, Waits
  <2>9. \A s \in Terminals : /\ LineAt(s)' => LineAt(s) /\ s # t /\ reader[s].procnr # u
                             /\ LineAt(s) /\ reader[s].procnr # u => LineAt(s)'
    <3>1. \A s \in Terminals : tty_pc' # <<"resume", s>>
      BY <2>4, SMT
    <3>2. ~LineAt(t)'
      BY <1>3, <2>5, <3>1, SMT DEF LineAt
    <3>3. \A s \in Terminals : s # t => (LineAt(s)' <=> LineAt(s))
      BY <1>3, <2>5, <3>1 DEF LineAt
    <3>4. \A s \in Terminals : LineAt(s) /\ s # t => reader[s].procnr # u
      BY <1>3, <1>4 DEF RunInv, LineInv, LineAt
    <3> QED
      BY <1>4, <3>2, <3>3, <3>4
  <2>10. ~Held(u) /\ ~FsPasses(u) /\ \A w \in Users : ~TtySends(w)
    BY <1>5, <1>9 DEF Waits, TtySends
  <2>11. CASE Same(FS) /\ flags'[TTY] = {SENDING} /\ sendto'[TTY] = FS
    <3>1. IsLine(buf[TTY], u)'
      BY <1>7, <1>8, <2>1 DEF IsLine
    <3>2. TtyResumes(u)'
      BY <2>4, <2>8, <2>11, <3>1 DEF TtyResumes
    <3>3. FsInv' /\ \A w \in Users : FsAwaits(w)' <=> FsAwaits(w)
      BY <1>2, <2>2, <2>8, <2>11, FsFrame DEF RunInv, FsInv
    <3>4. TtyInv'
      BY <1>10, <2>2, <3>2, <3>3 DEF TtyInv
    <3>5. \A w : (Held(w)' <=> Held(w)) /\ (FsPasses(w)' <=> FsPasses(w))
                 /\ (InDriver(w)' <=> InDriver(w))
      BY <1>2, <2>4, <2>11 DEF Same, Held, FsPasses, InDriver
    <3>6. \A w \in Users : TtySends(w)' <=> w = u
      BY <1>8, <2>1, <2>11 DEF TtySends
    <3>7. Kept(u)'
      BY <2>3, <2>8, <3>6 DEF Kept, Reads
    <3>8. LineInv' /\ KeptInv'
      <4>1. \A s \in Terminals : LineAt(s)' =>
              /\ LineAt(s) /\ reader'[s].procnr = reader[s].procnr
              /\ reader'[s].caller = reader[s].caller
        BY <2>5, <2>9
      <4>2. \A s \in Terminals : LineAt(s) /\ reader[s].procnr # u => LineAt(s)'
        BY <2>9
      <4>3. \A w \in Users \ {u} :
              /\ Owed(w)' <=> Owed(w)
              /\ asked'[w] = asked[w]
              /\ Held(w)' <=> Held(w)
              /\ TtySends(w)' <=> TtySends(w)
              /\ FsPasses(w)' <=> FsPasses(w)
              /\ InDriver(w)' <=> InDriver(w)
              /\ w \in overtaken => w \in overtaken'
        BY <2>3, <2>7, <2>10, <3>5, <3>6
      <4>4. /\ \A s \in Terminals : LineAt(s)' /\ reader[s].procnr = u => Waits(u)'
            /\ TtySends(u)' => Reads(u)' /\ ~Held(u)' /\ ~FsPasses(u)'
            /\ Owed(u)' => Kept(u)'
        BY <2>8, <2>9, <2>10, <3>5, <3>7
      <4> QED
        BY <4>1, <4>2, <4>3, <4>4, ReadersKept DEF RunInv
    <3> QED
      BY <2>1, <2>4, <2>6, <2>8, <3>3, <3>4, <3>8 DEF TInv, RunInv, HaltsOnlyAtResume
  <2>12. CASE flags[FS] = {RECEIVING} /\ flags'[FS] = {} /\ buf'[FS] = m /\ flags'[TTY] = {}
    <3>1. FsWaits
      BY <1>10, <2>12, FsTakes
    <3>2. IsLine(buf[FS], u)' /\ buf'[FS].source = TTY /\ buf'[FS].body.proc = u
      BY <1>7, <1>8, <2>12 DEF IsLine
    <3>3. FsHasLine(u)'
      BY <1>2, <2>2, <2>8, <2>12, <3>1, <3>2 DEF FsHasLine, FsWaits
    <3>4. TtyRuns' /\ \A w \in Users : ~FsAwaits(w)'
      BY <1>2, <2>4, <2>12, <3>1, SMT DEF TtyRuns, Scans, FsAwaits, FsServes, FsWaits
    <3>5. TtyInv'
      BY <2>2, <3>4 DEF TtyInv
    <3>6. \A w \in Users : ~Held(w) /\ ~FsPasses(w) /\ ~InDriver(w)
      BY <3>1, Places DEF RunInv
    <3>7. \A w \in Users : ~Held(w)' /\ (FsPasses(w)' <=> w = u) /\ ~InDriver(w)' /\ ~TtySends(w)'
      BY <1>2, <2>12, <3>1, <3>2, Names DEF FsWaits, Held, FsPasses, InDriver, TtySends
    <3>8. Kept(u)'
      BY <2>3, <2>8, <3>7 DEF Kept, Reads
    <3>9. LineInv' /\ KeptInv'
      <4>1. \A s \in Terminals : LineAt(s)' =>
              /\ LineAt(s) /\ reader'[s].procnr = reader[s].procnr
              /\ reader'[s].caller = reader[s].caller
        BY <2>5, <2>9
      <4>2. \A s \in Terminals : LineAt(s) /\ reader[s].procnr # u => LineAt(s)'
        BY <2>9
      <4>3. \A w \in Users \ {u} :
              /\ Owed(w)' <=> Owed(w)
              /\ asked'[w] = asked[w]
              /\ Held(w)' <=> Held(w)
              /\ TtySends(w)' <=> TtySends(w)
              /\ FsPasses(w)' <=> FsPasses(w)
              /\ InDriver(w)' <=> InDriver(w)
              /\ w \in overtaken => w \in overtaken'
        BY <2>3, <2>7, <2>10, <3>6, <3>7
      <4>4. /\ \A s \in Terminals : LineAt(s)' /\ reader[s].procnr = u => Waits(u)'
            /\ TtySends(u)' => Reads(u)' /\ ~Held(u)' /\ ~FsPasses(u)'
            /\ Owed(u)' => Kept(u)'
        BY <2>9, <3>7, <3>8
      <4> QED
        BY <4>1, <4>2, <4>3, <4>4, ReadersKept DEF RunInv
    <3> QED
      BY <2>1, <2>4, <2>6, <2>8, <3>3, <3>5, <3>9 DEF TInv, RunInv, FsInv, HaltsOnlyAtResume
  <2> QED
    BY <2>1, <2>11, <2>12
<1> QED
  BY <1>11, <1>12

-----------------------------------------------------------------------------
(***************************************************************************)
(* The messages of task_tty                                                *)
(***************************************************************************)

\* task_tty takes an interrupt or a request of task_fs, or waits for one; no user
\* sends to it.
LEMMA TtyReceiveInv ==
  ASSUME RunInv, TtyReceive
  PROVE  RunInv' /\ halt' = "no"
<1>1. /\ Receive(TTY, ANY) /\ tty_pc[1] = "receive" /\ tty_pc' = <<"serve", 0>>
      /\ UNCHANGED <<key_state, current, inbuf, reader, fs_pc, user_state>>
  BY DEF TtyReceive
<1>2. TTypes /\ ANY \in Sources \ {TTY} /\ flags[TTY] = {}
  BY <1>1, Names DEF Sources, RunInv, Receive, Runnable
<1>3. /\ IInv' /\ halt' = "no" /\ both'[TTY] = NO_TASK
      /\ \A x \in Procs \ {TTY} : both'[x] = both[x]
      /\ \/ /\ flags'[TTY] = {} /\ buf'[TTY] = IntMessage
            /\ \A x \in Procs \ {TTY} : Same(x)
         \/ \E q \in Procs \ {TTY} :
              /\ flags[q] = {SENDING} /\ sendto[q] = TTY
              /\ flags'[q] = {} /\ buf'[q] = buf[q]
              /\ flags'[TTY] = {} /\ buf'[TTY] = buf[q]
              /\ \A x \in Procs \ {TTY, q} : Same(x)
         \/ /\ flags'[TTY] = {RECEIVING} /\ recvfrom'[TTY] = ANY
            /\ \A x \in Procs \ {TTY} : Same(x)
  <2>1. IInv /\ TTY \in Procs
    BY Names DEF RunInv
  <2> QED
    BY <1>1, <1>2, <2>1, Got, SMT
<1>4. /\ asked' = asked /\ overtaken' = overtaken /\ reader' = reader
      /\ kb' = kb /\ key_pressed' = key_pressed /\ current' = current /\ inbuf' = inbuf
  BY <1>1 DEF user_state, key_state
<1>5. TTypes' /\ tty_pc'[1] = "serve"
  <2>1. 0 \in Terminals
    BY TerminalAssumption, SMT DEF Terminals
  <2> QED
    BY <1>1, <1>2, <1>4, <2>1 DEF TTypes
<1>6. KeysInv'
  BY <1>1, <1>4 DEF RunInv, KeysInv, Scans
<1>7. \A t \in Terminals : LineAt(t)' <=> LineAt(t)
  BY <1>1, <1>4, <1>5, SMT DEF LineAt
<1>8. \A w \in Users : ~FsAwaits(w)
  BY <1>1 DEF RunInv, TtyInv, TtyReplies, TtyHas, Scans
<1>9. \A w \in Users : ~TtySends(w) /\ ~TtySends(w)'
  BY <1>2, <1>3, Names DEF TtySends
<1>10. CASE /\ \/ flags'[TTY] = {} /\ buf'[TTY] = IntMessage
               \/ flags'[TTY] = {RECEIVING} /\ recvfrom'[TTY] = ANY
            /\ \A x \in Procs \ {TTY} : Same(x)
  <2>1. \A w \in Users : /\ Asking(w)' <=> Asking(w)
                         /\ Owed(w)' <=> Owed(w)
                         /\ Settled(w)' <=> Settled(w)
    BY <1>3, <1>4, <1>10, UserFrame, Names
  <2>2. UserInv' /\ CallsSame
    BY <1>4, <2>1 DEF RunInv, UserInv, CallsSame
  <2>3. FsInv' /\ \A w \in Users : FsAwaits(w)' <=> FsAwaits(w)
    BY <1>1, <1>3, <1>10, <2>2, FsFrame, Names DEF RunInv, FsInv
  <2>4. TtyHasInt' \/ TtyWaits'
    BY <1>5, <1>10 DEF TtyHasInt, TtyWaits, IntMessage
  <2>5. TtyInv'
    BY <1>3, <1>8, <2>3, <2>4 DEF TtyInv
  <2>6. buf'[TTY].source # FS \/ flags'[TTY] # {}
    BY <1>10, Names, SMT DEF IntMessage
  <2>7. \A w : (Held(w)' <=> Held(w)) /\ (FsPasses(w)' <=> FsPasses(w))
               /\ (InDriver(w)' <=> InDriver(w))
    BY <1>1, <1>10, <2>6, Names DEF Same, Held, FsPasses, InDriver
  <2>8. LineInv' /\ KeptInv'
    BY <1>4, <1>7, <1>9, <2>1, <2>7, OthersKept, Names DEF RunInv
  <2> QED
    BY <1>3, <1>5, <1>6, <2>2, <2>3, <2>5, <2>8 DEF RunInv
<1>11. ASSUME NEW q \in Procs \ {TTY},
              flags[q] = {SENDING}, sendto[q] = TTY,
              flags'[q] = {}, buf'[q] = buf[q],
              flags'[TTY] = {}, buf'[TTY] = buf[q],
              \A x \in Procs \ {TTY, q} : Same(x)
       PROVE  RunInv'
  <2>1. q = FS
    BY <1>11, Names DEF RunInv, UserInv, Asking, Owed, Settled
  <2>2. PICK u \in Users : FsAsks(u)
    BY <1>11, <2>1, Names DEF RunInv, FsInv, FsReady, FsWaits, FsAnswering, FsHas, FsHasLine,
          FsAwaits, FsTold
  <2>3. \A w \in Users : /\ Asking(w)' <=> Asking(w)
                         /\ Owed(w)' <=> Owed(w)
                         /\ Settled(w)' <=> Settled(w)
    BY <1>3, <1>4, <1>11, <2>1, UserFrame, Names
  <2>4. UserInv'
    BY <2>3 DEF RunInv, UserInv
  <2>5. \A w \in Users : /\ ~FsPasses(w) /\ (Held(w) <=> w = u) /\ (InDriver(w) <=> w = u)
    BY <2>2, Places DEF RunInv
  <2>6. FsAwaits(u)' /\ DevRequest(u)' = DevRequest(u)
    BY <1>1, <1>3, <1>4, <1>11, <2>1, <2>2, <2>3, Names
       DEF FsAsks, FsAwaits, FsServes, DevRequest
  <2>7. TtyHas(u)'
    BY <1>5, <1>11, <2>1, <2>2, <2>6 DEF TtyHas, FsAsks
  <2>8. fs_pc'.at = "driver" /\ fs_pc'.src = u
    BY <2>6 DEF FsAwaits, FsServes
  <2>9. \A w \in Users : /\ ~FsPasses(w)' /\ (Held(w)' <=> w = u) /\ (InDriver(w)' <=> w = u)
                         /\ FsAwaits(w)' => w = u
    <3>1. buf'[TTY].source = FS
      BY <2>7, SMT DEF TtyHas
    <3> QED
      BY <1>5, <1>11, <2>1, <2>8, <3>1, SMT DEF FsPasses, Held, InDriver, FsAwaits, FsServes
  <2>10. TtyInv'
    BY <1>3, <2>7, <2>9 DEF TtyInv
  <2>11. ~Waits(u) /\ Kept(u)'
    BY <2>5, <2>9 DEF Waits, Kept
  <2>12. LineInv' /\ KeptInv'
    BY <1>4, <1>7, <1>9, <2>3, <2>5, <2>9, <2>11, OthersKept DEF RunInv
  <2> QED
    BY <1>3, <1>5, <1>6, <2>4, <2>6, <2>10, <2>12 DEF RunInv, FsInv
<1> QED
  BY <1>3, <1>10, <1>11

\* An interrupt makes task_tty look at its terminals from the first one on.
LEMMA TtyIntInv ==
  ASSUME RunInv, TtyInt
  PROVE  RunInv' /\ halt' = "no"
<1>1. /\ tty_pc[1] = "serve" /\ halt = "no" /\ flags[TTY] = {} /\ buf[TTY].body = HARDWARE_INT
      /\ key_pressed' = FALSE /\ Rescan
      /\ UNCHANGED <<vars, kb, nkeys, current, inbuf, reader, fs_pc, user_state>>
  BY DEF TtyInt, Runnable
<1>2. TTypes
  BY DEF RunInv
<1>3. /\ tty_pc' \in {"keys", "write"} \X Terminals
      /\ tty_pc'[1] \in {"keys", "write"} /\ tty_pc'[2] = 0
      /\ tty_pc'[1] = "keys" \/ 0 < current
  BY <1>1, <1>2, RescanRight
<1>4. /\ IInv' /\ halt' = "no" /\ asked' = asked /\ overtaken' = overtaken
      /\ \A x \in Procs : Same(x) /\ both'[x] = both[x]
  BY <1>1, StutterInv DEF RunInv, vars, kernel, Same, user_state
<1>5. TTypes'
  BY <1>1, <1>2, <1>3, <1>4 DEF TTypes
<1>6. KeysInv'
  <2>1. \A t \in Terminals : 0 <= t
    BY TerminalAssumption, SMT DEF Terminals
  <2> QED
    BY <1>1, <1>3, <2>1 DEF KeysInv, Scans
<1>7. \A w \in Users : ~TtyHas(w)
  <2>1. \A w \in Users : TtyHas(w) => buf[TTY].body = DevRequest(w) /\ Owed(w)
    BY SMT DEF TtyHas, FsAwaits, FsServes
  <2>2. HARDWARE_INT.type = "HARDWARE_INT"
    BY TerminalAssumption DEF Body
  <2> QED
    BY <1>1, <2>1, <2>2, DevRequestRight
<1>8. \A w \in Users : ~FsAwaits(w)
  BY <1>1, <1>7, Names DEF RunInv, TtyInv, TtyReplies
<1>9. \A w \in Users : /\ Asking(w)' <=> Asking(w)
                       /\ Owed(w)' <=> Owed(w)
                       /\ Settled(w)' <=> Settled(w)
  BY <1>4, UserFrame, Names
<1>10. UserInv' /\ CallsSame
  BY <1>4, <1>9 DEF RunInv, UserInv, CallsSame
<1>11. FsInv' /\ \A w \in Users : FsAwaits(w)' <=> FsAwaits(w)
  BY <1>1, <1>4, <1>10, FsFrame, Names DEF RunInv, FsInv
<1>12. TtyRuns'
  BY <1>1, <1>3, <1>4, Names DEF Same, TtyRuns, Scans
<1>13. TtyInv'
  BY <1>4, <1>8, <1>11, <1>12, Names DEF RunInv, TtyInv
<1>14. buf[TTY].source # FS
  <2>1. ~TtyRuns /\ ~TtyWaits /\ \A w : ~TtyReplies(w) /\ ~TtyResumes(w)
    BY <1>1 DEF TtyRuns, TtyWaits, TtyReplies, TtyResumes, Scans
  <2>2. TtyHasInt
    BY <1>7, <2>1 DEF RunInv, TtyInv
  <2> QED
    BY <2>2, Names, SMT DEF TtyHasInt, IntMessage
<1>15. \A w : /\ Held(w)' <=> Held(w)
              /\ TtySends(w)' <=> TtySends(w)
              /\ FsPasses(w)' <=> FsPasses(w)
              /\ InDriver(w)' <=> InDriver(w)
  BY <1>1, <1>3, <1>4, <1>14, Names DEF Same, Held, TtySends, FsPasses, InDriver
<1>16. \A t \in Terminals : LineAt(t)' <=> LineAt(t)
  BY <1>1, <1>3, SMT DEF LineAt
<1>17. LineInv' /\ KeptInv'
  BY <1>1, <1>4, <1>9, <1>15, <1>16, OthersKept, Names DEF RunInv
<1> QED
  BY <1>4, <1>5, <1>6, <1>10, <1>11, <1>13, <1>17 DEF RunInv

\* task_tty replies about u: task_fs has the reply, or still has to ask for it.
\* Here the kernel never sees a cycle.
LEMMA TtyReplied ==
  ASSUME RunInv, NEW u \in Users, NEW body \in Bodies, TtyHas(u), Send(TTY, FS, body),
         IsReply([source |-> TTY, body |-> body], u), Rescan, asked' = asked,
         UNCHANGED <<key_state, current, inbuf, fs_pc>>
  PROVE  /\ IInv' /\ halt' = "no" /\ UserInv' /\ FsInv' /\ TtyInv' /\ KeysInv'
         /\ tty_pc' \in {"keys", "write"} \X Terminals /\ tty_pc'[1] \in {"keys", "write"}
         /\ \A w \in Users :
              /\ Owed(w)' <=> Owed(w)
              /\ Held(w) <=> w = u
              /\ ~TtySends(w) /\ ~FsPasses(w)
              /\ ~Held(w)' /\ ~TtySends(w)' /\ ~FsPasses(w)'
              /\ InDriver(w)' <=> InDriver(w)
              /\ InDriver(w) <=> w = u
<1> DEFINE m == [source |-> TTY, body |-> body]
<1>1. /\ tty_pc[1] = "serve" /\ flags[TTY] = {} /\ FsAwaits(u) /\ FsServes(u)
      /\ SENDING \notin flags[FS] /\ (flags[FS] = {RECEIVING} => both[FS] = NO_TASK)
      /\ Owed(u)
  BY Names DEF TtyHas, FsAwaits, FsServes, RunInv
<1>2. ~deadlock(TTY, FS)
  <2>1. SendClosed({FS})
    BY <1>1 DEF SendClosed
  <2> QED
    BY <2>1, Names, NoDeadlock
<1>3. halt' # "panic"
  BY <1>2 DEF Send, msg_send, SendPanic, SendDeliver, SendBlock, AssertThat, Runnable
<1>4. /\ IInv' /\ halt' = "no"
      /\ \A x \in Procs \ {TTY} : both'[x] = both[x] /\ (x # FS => Same(x))
      /\ buf'[TTY] = m
      /\ \/ /\ flags[FS] = {RECEIVING} /\ flags'[FS] = {} /\ buf'[FS] = m
            /\ flags'[TTY] = {}
         \/ Same(FS) /\ flags'[TTY] = {SENDING} /\ sendto'[TTY] = FS
  BY <1>3, Sent, Names, SMT DEF RunInv
<1>5. both' = both /\ both'[TTY] = NO_TASK
  BY DEF Send, RunInv, TtyInv
<1>6. TTypes /\ kb' = kb /\ key_pressed' = key_pressed
  BY DEF RunInv, key_state
<1>7. /\ tty_pc' \in {"keys", "write"} \X Terminals
      /\ tty_pc'[1] \in {"keys", "write"} /\ tty_pc'[2] = 0
      /\ tty_pc'[1] = "keys" \/ 0 < current
  BY <1>6, RescanRight
<1>8. KeysInv'
  <2>1. \A t \in Terminals : 0 <= t
    BY TerminalAssumption, SMT DEF Terminals
  <2> QED
    BY <1>7, <2>1 DEF KeysInv, Scans
<1>9. \A w \in Users : /\ Asking(w)' <=> Asking(w)
                       /\ Owed(w)' <=> Owed(w)
                       /\ Settled(w)' <=> Settled(w)
  BY <1>4, UserFrame, Names
<1>10. UserInv' /\ CallsSame
  BY <1>9 DEF RunInv, UserInv, CallsSame
<1>11. FsServes(u)' /\ \A w \in Users : FsServes(w)' => w = u
  BY <1>1, <1>10 DEF FsServes, CallsSame
<1>12. \A w \in Users : /\ ~FsPasses(w) /\ (Held(w) <=> w = u) /\ (InDriver(w) <=> w = u)
  BY <1>1, Places DEF RunInv
<1>13. \A w \in Users : /\ ~FsPasses(w)' /\ ~Held(w)' /\ (InDriver(w)' <=> InDriver(w))
                        /\ ~TtySends(w) /\ ~TtySends(w)'
  <2>1. fs_pc'.at = "driver" /\ SENDING \notin flags'[FS] /\ m.body.type # "RESUME_PROC"
    BY <1>1, <1>4, Names DEF FsServes, Same, IsReply
  <2> QED
    BY <1>1, <1>4, <1>7, <2>1 DEF FsPasses, Held, InDriver, TtySends
<1>14. FsInv' /\ TtyInv'
  <2>1. CASE Same(FS) /\ flags'[TTY] = {SENDING} /\ sendto'[TTY] = FS
    <3>1. FsInv' /\ FsAwaits(u)'
      BY <1>1, <1>5, <1>10, <2>1, FsFrame DEF RunInv, FsInv
    <3>2. IsReply(buf[TTY], u)' /\ buf'[TTY].source = TTY
      BY <1>4, SMT DEF IsReply
    <3>3. TtyReplies(u)'
      BY <1>7, <2>1, <3>1, <3>2 DEF TtyReplies, Scans
    <3> QED
      BY <1>5, <1>11, <3>1, <3>3 DEF TtyInv, FsAwaits
  <2>2. CASE /\ flags[FS] = {RECEIVING} /\ flags'[FS] = {} /\ buf'[FS] = m
             /\ flags'[TTY] = {}
    <3>1. IsReply(buf[FS], u)'
      BY <2>2 DEF IsReply
    <3>2. both'[FS] = NO_TASK
      BY <1>1, <1>5, <2>2
    <3>3. FsTold(u)'
      BY <1>11, <2>2, <3>1, <3>2 DEF FsTold
    <3>4. \A w \in Users : ~FsAwaits(w)'
      BY <2>2, <3>2, Names DEF FsAwaits
    <3>5. TtyRuns'
      BY <1>7, <2>2 DEF TtyRuns, Scans
    <3> QED
      BY <1>5, <3>3, <3>4, <3>5 DEF TtyInv, FsInv
  <2> QED
    BY <1>4, <2>1, <2>2
<1> QED
  BY <1>4, <1>7, <1>8, <1>9, <1>10, <1>12, <1>13, <1>14

\* What task_tty serves is an interrupt or the request about a user.
LEMMA TtyServing ==
  ASSUME RunInv, tty_pc[1] = "serve", flags[TTY] = {},
         buf[TTY].body.type \in {"DEV_OPEN", "DEV_READ", "DEV_WRITE"}
  PROVE  \E u \in Users : TtyHas(u)
<1>1. ~TtyHasInt
  BY TerminalAssumption, SMT DEF TtyHasInt, IntMessage, Body
<1> QED
  BY <1>1, Names DEF RunInv, TtyInv, TtyRuns, TtyWaits, TtyReplies, TtyResumes, Scans

\* An open or a write is answered at once.
LEMMA TtyAnswerInv ==
  ASSUME RunInv, TtyAnswer
  PROVE  RunInv' /\ halt' = "no"
<1>1. /\ tty_pc[1] = "serve" /\ buf[TTY].body.type \in {"DEV_OPEN", "DEV_WRITE"} /\ Rescan
      /\ UNCHANGED <<key_state, current, inbuf, reader, fs_pc, user_state>>
  BY DEF TtyAnswer
<1>2. flags[TTY] = {}
  BY DEF TtyAnswer, Send, Runnable
<1>3. PICK u \in Users : TtyHas(u)
  BY <1>1, <1>2, TtyServing
<1>4. Owed(u) /\ buf[TTY].source = FS /\ buf[TTY].body = DevRequest(u)
  BY <1>3, SMT DEF TtyHas, FsAwaits, FsServes
<1> DEFINE body == IF DevRequest(u).type = "DEV_OPEN" THEN Body("SYSCALL_RET", 0, NO_TASK, 0)
                   ELSE [DevRequest(u) EXCEPT !.type = "SYSCALL_RET"]
<1>5. Send(TTY, FS, body)
  BY <1>4 DEF TtyAnswer
<1>6. /\ asked[u] \in Calls /\ DevRequest(u) \in Bodies
      /\ DevRequest(u).type = "DEV_READ" <=> asked[u].type = "READ"
      /\ DevRequest(u).type = "DEV_OPEN" <=> asked[u].type = "OPEN"
      /\ DevRequest(u).cnt = asked[u].cnt
  BY <1>4, DevRequestRight
<1>7. asked[u].type # "READ"
  BY <1>1, <1>4, <1>6
<1>8. body \in Bodies /\ body.type = "SYSCALL_RET" /\ (asked[u].type # "OPEN" => body.cnt = asked[u].cnt)
  <2>1. CASE DevRequest(u).type = "DEV_OPEN"
    <3>1. 0 \in Terminals /\ 0 \in 0 .. MAX_CNT
      BY TerminalAssumption, SMT DEF Terminals
    <3> QED
      BY <1>6, <2>1, <3>1, TerminalAssumption DEF Body
  <2>2. CASE DevRequest(u).type # "DEV_OPEN"
    BY <1>6, <2>2, TerminalAssumption
  <2> QED
    BY <2>1, <2>2
<1> HIDE DEF body
<1>9. IsReply([source |-> TTY, body |-> body], u)
  BY <1>7, <1>8 DEF IsReply
<1>10. asked' = asked /\ overtaken' = overtaken
  BY <1>1 DEF user_state
<1>11. /\ IInv' /\ halt' = "no" /\ UserInv' /\ FsInv' /\ TtyInv' /\ KeysInv'
       /\ tty_pc' \in {"keys", "write"} \X Terminals /\ tty_pc'[1] \in {"keys", "write"}
       /\ \A w \in Users :
            /\ Owed(w)' <=> Owed(w)
            /\ Held(w) <=> w = u
            /\ ~TtySends(w) /\ ~FsPasses(w)
            /\ ~Held(w)' /\ ~TtySends(w)' /\ ~FsPasses(w)'
            /\ InDriver(w)' <=> InDriver(w)
            /\ InDriver(w) <=> w = u
  BY <1>1, <1>3, <1>5, <1>8, <1>9, <1>10, TtyReplied
<1>12. TTypes'
  BY <1>1, <1>10, <1>11 DEF RunInv, TTypes, key_state
<1>13. \A t \in Terminals : LineAt(t)' <=> LineAt(t)
  BY <1>1, <1>11, SMT DEF LineAt
<1>14. Kept(u)' /\ ~Waits(u)
  BY <1>7, <1>10, <1>11 DEF Kept, Waits
<1>15. LineInv' /\ KeptInv'
  <2>1. \A w \in Users \ {u} :
          /\ Owed(w)' <=> Owed(w)
          /\ asked'[w] = asked[w]
          /\ Held(w)' <=> Held(w)
          /\ TtySends(w)' <=> TtySends(w)
          /\ FsPasses(w)' <=> FsPasses(w)
          /\ InDriver(w)' <=> InDriver(w)
          /\ w \in overtaken => w \in overtaken'
    BY <1>10, <1>11
  <2>2. /\ Waits(u) => Waits(u)'
        /\ TtySends(u)' => Reads(u)' /\ ~Held(u)' /\ ~FsPasses(u)'
        /\ Owed(u)' => Kept(u)'
    BY <1>11, <1>14
  <2> QED
    BY <1>1, <1>13, <2>1, <2>2, OthersKept DEF RunInv, key_state
<1> QED
  BY <1>11, <1>12, <1>15 DEF RunInv

\* A read is left with its terminal, where it replaces the one before, and
\* suspended.
LEMMA TtyReadInv ==
  ASSUME RunInv, TtyRead
  PROVE  RunInv' /\ halt' = "no"
<1>1. /\ tty_pc[1] = "serve" /\ buf[TTY].body.type = "DEV_READ" /\ Rescan
      /\ UNCHANGED <<key_state, current, inbuf, fs_pc, asked>>
  BY DEF TtyRead
<1>2. flags[TTY] = {}
  BY DEF TtyRead, Send, Runnable
<1>3. PICK u \in Users : TtyHas(u)
  BY <1>1, <1>2, TtyServing
<1>4. Owed(u) /\ buf[TTY].source = FS /\ buf[TTY].body = DevRequest(u)
  BY <1>3, SMT DEF TtyHas, FsAwaits, FsServes
<1>5. /\ asked[u] \in Calls /\ DevRequest(u) \in Bodies
      /\ DevRequest(u).type = "DEV_READ" <=> asked[u].type = "READ"
      /\ DevRequest(u).cnt = asked[u].cnt /\ DevRequest(u).proc = u
      /\ DevRequest(u).dev = asked[u].dev
  BY <1>4, DevRequestRight
<1>6. PICK t : t = asked[u].dev
  OBVIOUS
<1> DEFINE new == [caller |-> FS, procnr |-> u, left |-> asked[u].cnt, trans |-> 0]
           body == [DevRequest(u) EXCEPT !.type = "SUSPEND_PROC"]
<1>7. /\ Send(TTY, FS, body) /\ reader' = [reader EXCEPT ![t] = new]
      /\ overtaken' = IF reader[t].left > 0 THEN overtaken \cup {reader[t].procnr} ELSE overtaken
  BY <1>4, <1>5, <1>6 DEF TtyRead
<1>8. /\ asked[u].type = "READ" /\ t \in Terminals /\ asked[u].cnt \in 0 .. MAX_CNT
  BY <1>1, <1>4, <1>5, <1>6 DEF Calls
<1>9. body \in Bodies /\ body.type = "SUSPEND_PROC" /\ body.cnt = asked[u].cnt
  BY <1>5, TerminalAssumption
<1>10. /\ new \in Readers /\ new.left + new.trans <= MAX_CNT /\ new.left = asked[u].cnt
       /\ new.caller = FS /\ new.procnr = u
  BY <1>8, TerminalAssumption, SMT DEF Readers
<1> HIDE DEF body, new
<1>11. IsReply([source |-> TTY, body |-> body], u)
  BY <1>8, <1>9 DEF IsReply
<1>12. /\ IInv' /\ halt' = "no" /\ UserInv' /\ FsInv' /\ TtyInv' /\ KeysInv'
       /\ tty_pc' \in {"keys", "write"} \X Terminals /\ tty_pc'[1] \in {"keys", "write"}
       /\ \A w \in Users :
            /\ Owed(w)' <=> Owed(w)
            /\ Held(w) <=> w = u
            /\ ~TtySends(w) /\ ~FsPasses(w)
            /\ ~Held(w)' /\ ~TtySends(w)' /\ ~FsPasses(w)'
            /\ InDriver(w)' <=> InDriver(w)
            /\ InDriver(w) <=> w = u
  BY <1>1, <1>3, <1>7, <1>9, <1>11, TtyReplied
<1>13. reader'[t] = new /\ \A s \in Terminals : s # t => reader'[s] = reader[s]
  BY <1>7, <1>8 DEF RunInv, TTypes
<1>14. TTypes'
  <2>1. reader' \in [Terminals -> Readers]
    BY <1>7, <1>8, <1>10 DEF RunInv, TTypes
  <2>2. \A s \in Terminals : reader'[s].left + reader'[s].trans <= MAX_CNT
    BY <1>10, <1>13 DEF RunInv, TTypes
  <2> QED
    BY <1>1, <1>12, <2>1, <2>2 DEF RunInv, TTypes, key_state
<1>15. \A s \in Terminals : /\ tty_pc # <<"resume", s>> /\ tty_pc' # <<"resume", s>>
                            /\ LineAt(s) <=> reader[s].left > 0
                            /\ LineAt(s)' <=> reader'[s].left > 0
  BY <1>1, <1>12, SMT DEF LineAt
<1>16. \A s \in Terminals : LineAt(s) => /\ reader[s].procnr \in Users \ {u}
                                         /\ reader[s].caller = FS /\ Waits(reader[s].procnr)
  BY <1>12 DEF RunInv, LineInv, Waits
<1>17. \A w \in Users : /\ Reads(w)' <=> Reads(w)
                        /\ Waits(w)' <=> Reads(w)
                        /\ Waits(w) => Reads(w)
  BY <1>1, <1>12 DEF Reads, Waits
<1>18. Reads(u)
  BY <1>4, <1>8 DEF Reads
<1>19. LineInv'
  <2>1. ASSUME NEW s \in Terminals, LineAt(s)'
        PROVE  /\ reader'[s].caller = FS /\ reader'[s].procnr \in Users
               /\ Waits(reader[s].procnr)'
               /\ s # t => reader'[s].procnr # u
    <3>1. CASE s = t
      BY <1>10, <1>13, <1>17, <1>18, <3>1
    <3>2. CASE s # t
      BY <1>13, <1>15, <1>16, <1>17, <2>1, <3>2
    <3> QED
      BY <3>1, <3>2
  <2>2. \A r, s \in Terminals :
          LineAt(r)' /\ LineAt(s)' /\ reader'[r].procnr = reader'[s].procnr => r = s
    <3>1. \A r, s \in Terminals :
            LineAt(r) /\ LineAt(s) /\ reader[r].procnr = reader[s].procnr => r = s
      BY DEF RunInv, LineInv
    <3> QED
      BY <1>10, <1>13, <1>15, <2>1, <3>1, SMT
  <2> QED
    BY <1>12, <2>1, <2>2 DEF LineInv
<1>20. KeptInv'
  <2>1. ASSUME NEW w \in Users \ {u}, Owed(w)' PROVE Kept(w)'
    <3>1. Kept(w) /\ ~InDriver(w)
      BY <1>12, <2>1 DEF RunInv, KeptInv
    <3>2. asked[w].type = "READ"
      BY <1>12, <3>1 DEF Kept
    <3>3. w \in overtaken => w \in overtaken'
      BY <1>7
    <3>4. CASE \E s \in Terminals : LineAt(s) /\ reader[s].procnr = w
      BY <1>1, <1>7, <1>13, <1>15, <3>2, <3>4 DEF Kept
    <3>5. CASE w \in overtaken \/ asked[w].cnt = 0
      BY <1>1, <3>2, <3>3, <3>5 DEF Kept
    <3> QED
      BY <1>12, <3>1, <3>2, <3>4, <3>5 DEF Kept
  <2>2. Kept(u)'
    <3>1. asked[u].cnt = 0 \/ LineAt(t)'
      BY <1>8, <1>10, <1>13, <1>15, SMT
    <3> QED
      BY <1>1, <1>8, <1>10, <1>13, <3>1 DEF Kept
  <2> QED
    BY <2>1, <2>2 DEF KeptInv
<1> QED
  BY <1>12, <1>14, <1>19, <1>20 DEF RunInv

\* The clock tells task_tty of a key, at once or at its next RECEIVE.
LEMMA ClockInformsInv ==
  ASSUME RunInv, ClockInforms
  PROVE  RunInv' /\ halt' = "no"
<1>1. inform_init(TTY) /\ UNCHANGED <<key_state, tty_state, fs_pc, user_state>>
  BY DEF ClockInforms
<1>2. /\ IInv' /\ halt' = "no" /\ both' = both
      /\ \A x \in Procs \ {TTY} : Same(x)
      /\ \/ flags[TTY] = {RECEIVING} /\ flags'[TTY] = {} /\ buf'[TTY] = IntMessage
         \/ Same(TTY)
  BY <1>1, Informed DEF RunInv
<1>3. asked' = asked /\ overtaken' = overtaken
  BY <1>1 DEF user_state
<1>4. /\ TTypes' /\ KeysInv' /\ tty_pc' = tty_pc /\ reader' = reader
      /\ \A t \in Terminals : LineAt(t)' <=> LineAt(t)
  BY <1>1, <1>3, LoopKept DEF RunInv, TTypes
<1>5. \A w \in Users : /\ Asking(w)' <=> Asking(w)
                       /\ Owed(w)' <=> Owed(w)
                       /\ Settled(w)' <=> Settled(w)
  BY <1>2, <1>3, UserFrame, Names
<1>6. UserInv' /\ CallsSame
  BY <1>3, <1>5 DEF RunInv, UserInv, CallsSame
<1>7. Same(FS)
  BY <1>2, Names
<1>8. CASE Same(TTY)
  <2>1. FsInv' /\ TtyInv' /\ \A w : /\ Held(w)' <=> Held(w)
                                    /\ TtySends(w)' <=> TtySends(w)
                                    /\ FsPasses(w)' <=> FsPasses(w)
                                    /\ InDriver(w)' <=> InDriver(w)
    BY <1>1, <1>2, <1>4, <1>6, <1>7, <1>8, TasksKept DEF RunInv
  <2>2. LineInv' /\ KeptInv'
    BY <1>3, <1>4, <1>5, <2>1, OthersKept, Names DEF RunInv
  <2> QED
    BY <1>2, <1>4, <1>6, <2>1, <2>2 DEF RunInv
<1>9. CASE flags[TTY] = {RECEIVING} /\ flags'[TTY] = {} /\ buf'[TTY] = IntMessage
  <2>1. TtyWaits
    BY <1>9, Names DEF RunInv, TtyInv, TtyRuns, TtyHasInt, TtyReplies, TtyResumes, TtyHas
  <2>2. FsInv' /\ \A w \in Users : FsAwaits(w)' <=> FsAwaits(w)
    BY <1>1, <1>2, <1>6, <1>7, FsFrame DEF RunInv, FsInv
  <2>3. \A w \in Users : ~FsAwaits(w)
    BY <1>9, <2>1, Names DEF RunInv, TtyInv, TtyReplies, TtyHas
  <2>4. TtyHasInt'
    BY <1>4, <1>9, <2>1 DEF TtyHasInt, TtyWaits, IntMessage
  <2>5. TtyInv'
    BY <1>2, <2>2, <2>3, <2>4 DEF RunInv, TtyInv
  <2>6. buf'[TTY].source # FS
    BY <1>9, Names, SMT DEF IntMessage
  <2>7. \A w : /\ Held(w)' <=> Held(w)
               /\ TtySends(w)' <=> TtySends(w)
               /\ FsPasses(w)' <=> FsPasses(w)
               /\ InDriver(w)' <=> InDriver(w)
    BY <1>1, <1>7, <1>9, <2>6, Names DEF Same, Held, TtySends, FsPasses, InDriver
  <2>8. LineInv' /\ KeptInv'
    BY <1>3, <1>4, <1>5, <2>7, OthersKept, Names DEF RunInv
  <2> QED
    BY <1>2, <1>4, <1>6, <2>2, <2>5, <2>8 DEF RunInv
<1> QED
  BY <1>2, <1>8, <1>9

-----------------------------------------------------------------------------
(***************************************************************************)
(* All steps together, and what follows                                    *)
(***************************************************************************)

\* At first nobody is in a call and nothing is typed.
LEMMA TInitInv == TInit => TInv
<1> SUFFICES ASSUME TInit PROVE TInv
  OBVIOUS
<1>1. IInv /\ halt = "no" /\ \A p \in Procs : flags[p] = {} /\ both[p] = NO_TASK
  BY InitInv DEF TInit, Init
<1>2. NR_CONSOLES \in Nat \ {0} /\ 0 \in Terminals /\ 0 \in 0 .. MAX_CNT /\ MAX_CNT \in Nat
  BY TerminalAssumption, SMT DEF Terminals
<1>3. NoReader \in Readers /\ NoReader.left = 0 /\ NoReader.trans = 0
  BY <1>2 DEF NoReader, Readers
<1>4. TTypes
  BY <1>2, <1>3, SMT DEF TInit, TTypes
<1>5. \A u \in Users : Settled(u) /\ ~Owed(u)
  BY <1>1, Names DEF TInit, Settled, Owed
<1>6. UserInv /\ KeptInv
  BY <1>5 DEF UserInv, KeptInv
<1>7. FsReady /\ fs_pc.at = "receive"
  BY <1>1, Names DEF TInit, FsReady, FsIdle
<1>8. \A u \in Users : ~FsAwaits(u)
  BY <1>7, SMT DEF FsAwaits, FsServes
<1>9. TtyInv
  BY <1>1, <1>8, Names DEF TInit, TtyInv, TtyRuns, Scans
<1>10. \A t \in Terminals : ~LineAt(t)
  BY <1>3, SMT DEF TInit, LineAt
<1>11. LineInv
  BY <1>1, <1>10, Names DEF LineInv, TtySends
<1>12. KeysInv
  BY DEF TInit, KeysInv
<1> QED
  BY <1>1, <1>4, <1>6, <1>7, <1>9, <1>11, <1>12 DEF TInv, RunInv, FsInv, HaltsOnlyAtResume

\* A machine that has stopped takes no step.
LEMMA StepsRun == TNext => halt = "no"
<1>1. ASSUME NEW u \in Users, UserStep(u) \/ \E req \in Requests[u] : Call(u, req)
      PROVE  halt = "no"
  BY <1>1 DEF UserStep, Call, AwaitReply, Return, SendBoth, ReceiveBoth, Runnable
<1>2. FsStep => halt = "no"
  BY DEF FsStep, FsReceive, FsAskDriver, FsResume, FsAwaitDriver, FsAnswer, Receive, SendBoth,
         Send, ReceiveBoth, Runnable
<1>3. TtyStep => halt = "no"
  BY DEF TtyStep, TtyKey, TtyWrite, TtyResume, TtyReceive, TtyInt, TtyAnswer, TtyRead, Receive,
         Send, Runnable
<1>4. (\E k \in Typed : KeyPress(k)) \/ ClockInforms => halt = "no"
  BY DEF KeyPress, ClockInforms
<1> QED
  BY <1>1, <1>2, <1>3, <1>4 DEF TNext

\* Every step keeps the invariant.
LEMMA TNextInv == TInv /\ [TNext]_tvars => TInv'
<1> SUFFICES ASSUME TInv, [TNext]_tvars PROVE TInv'
  OBVIOUS
<1>1. CASE UNCHANGED tvars
  <2>1. /\ UNCHANGED vars /\ UNCHANGED <<fs_pc, user_state>>
        /\ kb' = kb /\ key_pressed' = key_pressed /\ current' = current /\ inbuf' = inbuf
        /\ reader' = reader /\ tty_pc' = tty_pc /\ asked' = asked
    BY <1>1 DEF tvars, key_state, tty_state, user_state
  <2>2. HaltsOnlyAtResume'
    BY <2>1 DEF TInv, HaltsOnlyAtResume, SendingTo, vars, kernel
  <2>3. halt' = halt
    BY <2>1 DEF vars
  <2>4. ASSUME halt = "no" PROVE RunInv'
    <3>1. RunInv
      BY <2>4 DEF TInv
    <3>2. TTypes' /\ KeysInv'
      BY <2>1, <3>1 DEF RunInv, TTypes, KeysInv, Scans
    <3> QED
      BY <2>1, <2>4, <3>1, <3>2, KeysOnly
  <2> QED
    BY <2>2, <2>3, <2>4 DEF TInv
<1>2. CASE TNext
  <2>1. RunInv
    BY <1>2, StepsRun DEF TInv
  <2>2. RunInv' /\ halt' = "no" => TInv'
    BY DEF TInv, HaltsOnlyAtResume
  <2>3. ASSUME NEW u \in Users, NEW req \in Requests[u], Call(u, req) PROVE TInv'
    BY <2>1, <2>2, <2>3, CallInvT
  <2>4. ASSUME NEW u \in Users, UserStep(u) PROVE TInv'
    BY <2>1, <2>2, <2>4, AwaitReplyInvT, ReturnInvT DEF UserStep
  <2>5. CASE FsStep
    BY <2>1, <2>2, <2>5, FsReceiveInv, FsAskDriverInv, FsResumeInv, FsAwaitDriverInv, FsAnswerInv
       DEF FsStep
  <2>6. CASE TtyStep
    BY <2>1, <2>2, <2>6, TtyKeyInv, TtyWriteInv, TtyResumeInv, TtyReceiveInv, TtyIntInv,
       TtyAnswerInv, TtyReadInv DEF TtyStep
  <2>7. ASSUME NEW k \in Typed, KeyPress(k) PROVE TInv'
    BY <2>1, <2>2, <2>7, KeyPressInv
  <2>8. CASE ClockInforms
    BY <2>1, <2>2, <2>8, ClockInformsInv
  <2> QED
    BY <1>2, <2>3, <2>4, <2>5, <2>6, <2>7, <2>8 DEF TNext
<1> QED
  BY <1>1, <1>2

\* Users, task_fs and task_tty stay in the places TInv allows: every call is in
\* exactly one of them, whatever is typed and however the processes interleave.
THEOREM TerminalsInductive == TSpec => []TInv
<1>1. TInit => TInv
  BY TInitInv
<1>2. TInv /\ [TNext]_tvars => TInv'
  BY TNextInv
<1> QED
  BY <1>1, <1>2, PTL DEF TSpec

\* Whatever is typed and asked for, of any number of terminals, the machine stops
\* only where a line and a request of task_fs cross; no assert fails.
THEOREM StopsOnlyAtResume == TSpec => []HaltsOnlyAtResume
<1>1. TInv => HaltsOnlyAtResume
  BY DEF TInv
<1> QED
  BY <1>1, TerminalsInductive, PTL

\* A read() that waits for its line is with a terminal, unless another read of that
\* terminal replaced it or it asked for nothing; and a terminal fills the buffer of
\* a process in its read() only.
THEOREM ReadsKept == TSpec => []ReaderKept
<1>1. ASSUME TInv PROVE ReaderKept
  <2> SUFFICES ASSUME halt = "no" PROVE ReaderKept
    BY DEF ReaderKept
  <2>1. RunInv
    BY <1>1 DEF TInv
  <2>2. ASSUME NEW u \in Users, InRead(u), ~SendingTo(u, FS), ~Served(u), ~Resumed(u)
        PROVE  \/ \E t \in Terminals : reader[t].procnr = u /\ reader[t].left > 0
               \/ u \in overtaken
               \/ asked[u].cnt = 0
    <3>1. Owed(u) /\ asked[u].type = "READ"
      BY <2>1, <2>2 DEF RunInv, UserInv, Asking, Settled, InRead, SendingTo
    <3>2. Kept(u)
      BY <2>1, <3>1 DEF RunInv, KeptInv
    <3>3. ~Held(u)
      BY <2>2 DEF Held, Served
    <3>4. ~TtySends(u)
      <4>1. SENDING \in flags[TTY] => sendto[TTY] = FS
        BY <2>1, Names DEF RunInv, TtyInv, TtyRuns, TtyWaits, TtyHasInt, TtyReplies, TtyResumes,
              TtyHas
      <4> QED
        BY <2>2, <4>1 DEF TtySends, Resumed, SendingTo
    <3>5. ~FsPasses(u)
      BY <2>2 DEF FsPasses, Resumed, SendingTo
    <3>6. \A t \in Terminals : LineAt(t) /\ reader[t].procnr = u => reader[t].left > 0
      BY <2>2, SMT DEF LineAt, Resumed
    <3> QED
      BY <3>1, <3>2, <3>3, <3>4, <3>5, <3>6 DEF Kept
  <2>3. ASSUME NEW t \in Terminals, reader[t].left > 0 PROVE InRead(reader[t].procnr)
    <3>1. Reads(reader[t].procnr) /\ FS # NO_TASK
      BY <2>1, <2>3, Names DEF RunInv, LineInv, LineAt, Waits
    <3> QED
      BY <3>1 DEF Reads, Owed, InRead
  <2> QED
    BY <2>2, <2>3 DEF ReaderKept
<1> QED
  BY <1>1, TerminalsInductive, PTL

\* When no process can run and no key is waiting, task_tty and task_fs are ready
\* for the next message and every user is in a read(): the kernel, task_fs and
\* task_tty never leave a call waiting for each other.
THEOREM NobodyStuck == TSpec => []RestsOnlyInReads
<1>1. ASSUME TInv PROVE RestsOnlyInReads
  <2> SUFFICES ASSUME halt = "no", ~key_pressed, \A p \in Procs : ~Runnable(p)
               PROVE  /\ Awaits(TTY, FS) /\ AwaitsInt(TTY) /\ \A u \in Users : Awaits(FS, u)
                      /\ \A u \in Users : InRead(u)
                      /\ kb = <<>> /\ \A t \in Terminals : inbuf[t] = <<>>
    BY DEF RestsOnlyInReads
  <2>1. RunInv /\ NoMissedRendezvous /\ SendGraphAcyclic
    BY <1>1 DEF TInv, RunInv, IInv
  <2>2. \A p \in Procs : flags[p] # {}
    BY DEF Runnable
  <2>3. \A p, q \in Procs :
          ~(flags[p] = {SENDING} /\ sendto[p] = q /\ flags[q] = {RECEIVING} /\ recvfrom[q] \in {p, ANY})
    BY <2>1 DEF NoMissedRendezvous, SendingTo, Awaits
  <2>4. \A w \in Users : ~FsAnswering(w)
    BY <2>2, <2>3, Names DEF FsAnswering, Owed
  <2>5. FsWaits \/ \E w \in Users : FsAsks(w) \/ (FsAwaits(w) /\ flags[FS] = {RECEIVING} /\ recvfrom[FS] = TTY)
    BY <2>1, <2>2, <2>4, Names DEF RunInv, FsInv, FsReady, FsHas, FsHasLine, FsAwaits, FsTold
  <2>6. \A w \in Users : ~TtyReplies(w)
    BY <2>2, <2>3, Names DEF TtyReplies, FsAwaits
  <2>7. \A w \in Users : ~TtyResumes(w)
    <3> SUFFICES ASSUME NEW w \in Users, TtyResumes(w) PROVE FALSE
      OBVIOUS
    <3>1. flags[TTY] = {SENDING} /\ sendto[TTY] = FS
      BY DEF TtyResumes
    <3>2. flags[FS] = {SENDING} /\ sendto[FS] = TTY
      BY <2>3, <2>5, <3>1, Names DEF FsWaits, FsAsks
    <3>3. {TTY, FS} \in SUBSET Procs /\ {TTY, FS} # {}
      BY Names
    <3> QED
      BY <2>1, <3>1, <3>2, <3>3 DEF SendGraphAcyclic
  <2>8. TtyWaits
    BY <2>1, <2>2, <2>6, <2>7, Names DEF RunInv, TtyInv, TtyRuns, TtyHasInt, TtyHas
  <2>9. FsWaits
    <3>1. \A w \in Users : ~FsAsks(w)
      BY <2>3, <2>8, Names DEF TtyWaits, FsAsks
    <3>2. \A w \in Users : ~FsAwaits(w)
      BY <2>1, <2>6, <2>8, Names DEF RunInv, TtyInv, TtyHas, TtyWaits
    <3> QED
      BY <2>5, <3>1, <3>2
  <2>10. ASSUME NEW u \in Users PROVE InRead(u)
    <3>1. ~Asking(u) /\ ~Settled(u)
      BY <2>2, <2>3, <2>9, Names DEF Asking, Settled, FsWaits
    <3>2. Owed(u) /\ Kept(u) /\ flags[u] = {RECEIVING}
      BY <2>1, <2>2, <3>1, Names DEF RunInv, UserInv, KeptInv, Owed
    <3>3. ~Held(u) /\ ~FsPasses(u) /\ ~InDriver(u)
      BY <2>1, <2>9, Places DEF RunInv
    <3> QED
      BY <3>2, <3>3 DEF Kept, InRead
  <2>11. kb = <<>> /\ \A t \in Terminals : inbuf[t] = <<>>
    BY <2>1, <2>8 DEF RunInv, KeysInv, TtyWaits, Scans
  <2> QED
    BY <2>8, <2>9, <2>10, <2>11, Names DEF TtyWaits, FsWaits, Awaits, AwaitsInt
<1> QED
  BY <1>1, TerminalsInductive, PTL

-----------------------------------------------------------------------------
=============================================================================

----------------------------- MODULE IrqProofs ------------------------------
(***************************************************************************)
(* The proof that interrupts inside system calls leave the tables of       *)
(* kernel/proc.c consistent whenever the machine has not stopped, for any  *)
(* set of processes: ISpec => []RestConsistent.                            *)
(***************************************************************************)
EXTENDS IpcIrq, IPCProofs

(***************************************************************************)
(* The inductive invariant.  Between system calls the fields of every      *)
(* process agree with its flags (Settled).  Inside a call they do for all  *)
(* but the one process whose fields the call is writing (Writing), and     *)
(* PcInv says how far that process has come.  An interrupt can only have   *)
(* changed the task it informs in between, and then that task is idle.     *)
(***************************************************************************)
Settled(p) ==
  /\ flags[p] = {} => Idle(p)
  /\ SENDING \in flags[p] =>
       /\ flags[p] = {SENDING} /\ msg[p]
       /\ sendto[p] \in Procs \ {p} /\ recvfrom[p] = NO_TASK
  /\ RECEIVING \in flags[p] =>
       /\ flags[p] = {RECEIVING} /\ msg[p]
       /\ recvfrom[p] \in Sources \ {p} /\ sendto[p] = NO_TASK

SendPcs    == {"send", "pmsg", "copy", "msg0", "flags0", "recvfrom0", "sent"}
ReceivePcs == {"recv", "int", "int0", "look", "flags1", "msg1", "recvfrom1", "block"}

ITypeOK ==
  /\ flags \in [Procs -> SUBSET {SENDING, RECEIVING}]
  /\ msg \in [Procs -> BOOLEAN]
  /\ recvfrom \in [Procs -> Sources \cup {NO_TASK}]
  /\ sendto \in [Procs -> Procs \cup {NO_TASK}]
  /\ has_int_msg \in [Procs -> BOOLEAN]
  /\ sending_queue \in [Procs -> Seq(Procs)]
  /\ both \in [Procs -> {NO_TASK, TTY}]
  /\ \/ call = NoCall
     \/ /\ call \in [who : Procs, other : Sources,
                     pc : SendPcs \cup ReceivePcs \cup {"asleep"}]
        /\ call.other # call.who
        /\ call.pc \in SendPcs => call.other \in Procs

\* The process some of whose fields the call in progress has written.
Writing(p) ==
  \/ p = call.other /\ call.pc \in {"flags0", "recvfrom0"}
  \/ p = call.who /\ call.pc \in {"msg1", "recvfrom1"}

\* No process offers the caller a message that it asks for.
NoOffer == \A q \in Procs : call.other \in {q, ANY} => ~SendingTo(q, call.who)

PcInv ==
  LET p == call.who
      o == call.other
  IN  /\ call.pc \in SendPcs \cup {"recv", "int", "int0", "look", "flags1"} => Idle(p)
      /\ call.pc \in {"pmsg", "copy", "msg0"} => flags[o] = {} \/ Awaits(o, p)
      /\ call.pc = "flags0" =>
           /\ ~msg[o] /\ sendto[o] = NO_TASK
           /\ \/ flags[o] = {} /\ recvfrom[o] = NO_TASK
              \/ flags[o] = {RECEIVING} /\ recvfrom[o] \in {p, ANY}
      /\ call.pc = "recvfrom0" => flags[o] = {} /\ ~msg[o] /\ sendto[o] = NO_TASK
      /\ call.pc = "sent" => Idle(o)
      /\ call.pc \in {"flags1", "msg1", "recvfrom1"} => NoOffer
      /\ call.pc \in {"msg1", "recvfrom1"} =>
           /\ flags[p] = {RECEIVING} /\ recvfrom[p] = NO_TASK /\ sendto[p] = NO_TASK
           /\ msg[p] <=> call.pc = "recvfrom1"
      /\ call.pc = "block" => SENDING \notin flags[p]

Consistent ==
  /\ ITypeOK
  /\ \A p \in Procs : Settled(p) \/ Writing(p)
  /\ PcInv
  /\ QueueHoldsSenders
  /\ NoMissedRendezvous
  /\ \A t \in Procs : AwaitsInt(t) /\ has_int_msg[t] =>
       t = call.who /\ call.pc \in {"block", "asleep"}

IrqInv == halt = "no" => Consistent

-----------------------------------------------------------------------------
(***************************************************************************)
(* Steps that write no field of a process but has_int_msg                  *)
(***************************************************************************)
tables == <<flags, msg, recvfrom, sendto, sending_queue>>

\* A leaf is left to Zenon unless it says SMT (arithmetic, records).
USE Zenon

\* What depends on the tables only stays as it was.
LEMMA SameTables ==
  ASSUME UNCHANGED tables
  PROVE  /\ QueueHoldsSenders' <=> QueueHoldsSenders
         /\ NoMissedRendezvous' <=> NoMissedRendezvous
         /\ \A x \in Procs : Settled(x)' <=> Settled(x)
         /\ \A x \in Procs : Idle(x)' <=> Idle(x)
         /\ \A x \in Procs : AwaitsInt(x)' <=> AwaitsInt(x)
         /\ \A x, y : SendingTo(x, y)' <=> SendingTo(x, y)
         /\ \A x, y : Awaits(x, y)' <=> Awaits(x, y)
<1>1. /\ \A x : Idle(x)' <=> Idle(x)
      /\ \A x : AwaitsInt(x)' <=> AwaitsInt(x)
      /\ \A x, y : SendingTo(x, y)' <=> SendingTo(x, y)
      /\ \A x, y : Awaits(x, y)' <=> Awaits(x, y)
  BY DEF tables, Idle, AwaitsInt, SendingTo, Awaits
<1>2. \A x : Settled(x)' <=> Settled(x)
  BY <1>1 DEF tables, Settled
<1>3. QueueHoldsSenders' <=> QueueHoldsSenders
  BY <1>1 DEF tables, QueueHoldsSenders
<1>4. NoMissedRendezvous' <=> NoMissedRendezvous
  BY <1>1 DEF NoMissedRendezvous
<1> QED
  BY <1>1, <1>2, <1>3, <1>4

\* A process enters the kernel: it is idle, and so are its fields.
LEMMA EnterInv ==
  ASSUME Consistent, NEW p \in Procs, NEW other \in Sources \ {p}, NEW body,
         NEW pc \in {"send", "recv"}, pc = "send" => other \in Procs,
         Enter(p, other, body, pc), both' \in [Procs -> {NO_TASK, TTY}]
  PROVE  Consistent'
<1>1. /\ UNCHANGED tables /\ has_int_msg' = has_int_msg
      /\ call = NoCall /\ call' = [who |-> p, other |-> other, pc |-> pc]
      /\ flags[p] = {}
  BY DEF Enter, kernel, tables, Runnable
<1>2. call.pc = "none" /\ call'.pc = pc /\ call'.who = p /\ call'.other = other
  BY <1>1 DEF NoCall
<1>3. ITypeOK'
  BY <1>1, <1>2 DEF Consistent, ITypeOK, tables, SendPcs, ReceivePcs
<1>4. \A x \in Procs : Settled(x)
  BY <1>2 DEF Consistent, Writing
<1>5. Idle(p)
  BY <1>1, <1>4 DEF Settled
<1>6. PcInv'
  BY <1>1, <1>2, <1>5, SameTables DEF PcInv, SendPcs
<1>7. \A t \in Procs : ~(AwaitsInt(t) /\ has_int_msg[t])
  BY <1>2 DEF Consistent
<1> QED
  BY <1>1, <1>3, <1>4, <1>6, <1>7, SameTables DEF Consistent

\* A step inside a call that goes on to another point of the call.
LEMMA GotoInv ==
  ASSUME Consistent, call # NoCall, UNCHANGED <<tables, has_int_msg, both>>,
         NEW pc \in SendPcs \cup ReceivePcs \cup {"asleep"}, Goto(pc),
         pc \in SendPcs => call.pc \in SendPcs,
         \A x \in Procs : ~Writing(x), PcInv',
         call.pc \in {"block", "asleep"} => pc \in {"block", "asleep"}
  PROVE  Consistent'
<1>1. call' = [call EXCEPT !.pc = pc]
  BY DEF Goto
<1>2. call'.who = call.who /\ call'.other = call.other /\ call'.pc = pc
  BY <1>1 DEF Consistent, ITypeOK
<1>3. ITypeOK'
  BY <1>1, <1>2 DEF Consistent, ITypeOK, tables
<1>4. \A x \in Procs : Settled(x)'
  BY SameTables DEF Consistent
<1> QED
  BY <1>2, <1>3, <1>4, SameTables DEF Consistent

\* The end of a call.
LEMMA ReturnsInv ==
  ASSUME Consistent, UNCHANGED <<tables, both>>, Return,
         \A x \in Procs : ~Writing(x),
         has_int_msg' \in [Procs -> BOOLEAN],
         \A t \in Procs : has_int_msg'[t] => has_int_msg[t],
         call.pc = "asleep" => ~(AwaitsInt(call.who) /\ has_int_msg'[call.who]),
         call.pc # "block"
  PROVE  Consistent'
<1>1. call'.pc = "none" /\ call' = NoCall
  BY DEF Return, NoCall
<1>2. ITypeOK'
  BY <1>1 DEF Consistent, ITypeOK, tables
<1>3. PcInv'
  BY <1>1 DEF PcInv, SendPcs
<1>4. \A x \in Procs : Settled(x)'
  BY SameTables DEF Consistent
<1> QED
  BY <1>1, <1>2, <1>3, <1>4, SameTables DEF Consistent

-----------------------------------------------------------------------------
(***************************************************************************)
(* msg_send                                                                *)
(***************************************************************************)

\* The call in progress, by the point it has reached.
LEMMA InCall ==
  ASSUME Consistent, call.pc # "none"
  PROVE  /\ call # NoCall /\ call.who \in Procs /\ call.other \in Sources \ {call.who}
         /\ call.pc \in SendPcs => call.other \in Procs
BY SMT DEF Consistent, ITypeOK, NoCall

\* The process that a step of a call writes; all others stay as they were.
LEMMA OthersKept ==
  ASSUME NEW o \in Procs,
         \A x \in Procs \ {o} : /\ flags'[x] = flags[x] /\ msg'[x] = msg[x]
                                /\ recvfrom'[x] = recvfrom[x] /\ sendto'[x] = sendto[x]
  PROVE  \A x \in Procs \ {o} :
           /\ Settled(x)' <=> Settled(x)
           /\ Idle(x)' <=> Idle(x)
           /\ AwaitsInt(x)' <=> AwaitsInt(x)
           /\ \A y : SendingTo(x, y)' <=> SendingTo(x, y)
           /\ \A y : Awaits(x, y)' <=> Awaits(x, y)
BY DEF Settled, Idle, AwaitsInt, SendingTo, Awaits

\* The lists stay right when no process starts or stops SENDING.
LEMMA QueueKept ==
  ASSUME QueueHoldsSenders, UNCHANGED <<sendto, sending_queue>>,
         \A x \in Procs : SENDING \in flags'[x] <=> SENDING \in flags[x]
  PROVE  QueueHoldsSenders' /\ \A x \in Procs : \A y : SendingTo(x, y)' <=> SendingTo(x, y)
BY DEF QueueHoldsSenders, SendingTo

\* A message for nobody who waits: the sender joins the list and blocks.
LEMMA SendTestInv ==
  ASSUME Consistent, SendTest, halt' = "no", both' = both
  PROVE  Consistent'
<1> USE ConstantsAssumption DEF SENDING, RECEIVING
<1>0. call.pc = "send" /\ call.pc # "none"
  BY DEF SendTest, At
<1>1. PICK p \in Procs : p = call.who
  BY <1>0, InCall
<1>2. PICK dest \in Procs \ {p} : dest = call.other
  BY <1>0, <1>1, InCall DEF SendPcs
<1>3. Idle(p) /\ \A x \in Procs : ~Writing(x) /\ Settled(x)
  BY <1>0, <1>1 DEF Consistent, PcInv, SendPcs, Writing
<1>4. CASE Awaits(dest, p) /\ Goto("pmsg") /\ UNCHANGED <<kernel, buf>>
  <2>1. UNCHANGED <<tables, has_int_msg>>
    BY <1>4 DEF tables, kernel
  <2>2. call'.who = p /\ call'.other = dest /\ call'.pc = "pmsg"
    BY <1>0, <1>1, <1>2, <1>4, InCall DEF Goto, Consistent, ITypeOK
  <2>3. PcInv'
    BY <1>3, <1>4, <2>1, <2>2, SameTables DEF PcInv, SendPcs
  <2> QED
    BY <1>0, <1>3, <1>4, <2>1, <2>3, InCall, GotoInv DEF SendPcs
<1>5. CASE SendBlock(p, dest, buf[p].body) /\ Goto("asleep")
  <2>1. /\ \A x \in Procs : flags'[x] = IF x = p THEN {SENDING} ELSE flags[x]
        /\ \A x \in Procs : sendto'[x] = IF x = p THEN dest ELSE sendto[x]
        /\ msg'[p] /\ \A x \in Procs \ {p} : msg'[x] = msg[x]
        /\ recvfrom' = recvfrom /\ has_int_msg' = has_int_msg
        /\ sending_queue' = [sending_queue EXCEPT ![dest] = Append(@, p)]
    <3>1. \A x \in Procs : flags'[x] = IF x = p THEN {SENDING} ELSE flags[x]
      BY <1>3, <1>5 DEF Consistent, ITypeOK, SendBlock, Idle
    <3>2. \A x \in Procs : sendto'[x] = IF x = p THEN dest ELSE sendto[x]
      BY <1>5 DEF Consistent, ITypeOK, SendBlock
    <3>3. msg'[p] /\ \A x \in Procs \ {p} : msg'[x] = msg[x]
      BY <1>5 DEF Consistent, ITypeOK, SendBlock
    <3>4. /\ recvfrom' = recvfrom /\ has_int_msg' = has_int_msg
          /\ sending_queue' = [sending_queue EXCEPT ![dest] = Append(@, p)]
      BY <1>5 DEF SendBlock
    <3> QED
      BY <3>1, <3>2, <3>3, <3>4
  <2>2. call'.who = p /\ call'.other = dest /\ call'.pc = "asleep"
    BY <1>0, <1>1, <1>2, <1>5, InCall DEF Goto, Consistent, ITypeOK
  <2>3. sending_queue' \in [Procs -> Seq(Procs)] /\ QueueHoldsSenders'
    BY <1>3, <2>1, QueueJoined DEF Consistent, ITypeOK, Idle
  <2>4. ITypeOK'
    <3>1. /\ flags' \in [Procs -> SUBSET {SENDING, RECEIVING}]
          /\ msg' \in [Procs -> BOOLEAN]
          /\ sendto' \in [Procs -> Procs \cup {NO_TASK}]
      BY <1>5 DEF Consistent, ITypeOK, SendBlock
    <3>2. call' \in [who : Procs, other : Sources, pc : SendPcs \cup ReceivePcs \cup {"asleep"}]
      BY <1>0, <1>5, InCall DEF Consistent, ITypeOK, Goto
    <3> QED
      BY <2>1, <2>2, <2>3, <3>1, <3>2 DEF Consistent, ITypeOK, SendPcs
  <2>5. \A x \in Procs \ {p} : /\ Settled(x)' <=> Settled(x)
                               /\ AwaitsInt(x)' <=> AwaitsInt(x)
                               /\ \A y : SendingTo(x, y)' <=> SendingTo(x, y)
                               /\ \A y : Awaits(x, y)' <=> Awaits(x, y)
    BY <2>1, OthersKept
  <2>6. /\ Settled(p)' /\ ~AwaitsInt(p)' /\ (\A y : ~Awaits(p, y)')
        /\ \A y \in Procs : SendingTo(p, y)' => y = dest
    <3>1. flags'[p] = {SENDING} /\ msg'[p] /\ sendto'[p] = dest /\ recvfrom'[p] = NO_TASK
      BY <1>3, <2>1 DEF Idle
    <3> QED
      BY <3>1 DEF Settled, AwaitsInt, Awaits, SendingTo
  <2>7. NoMissedRendezvous'
    <3>1. ~Awaits(dest, p)
      BY <1>5 DEF SendBlock
    <3> QED
      BY <2>5, <2>6, <3>1, SMT DEF Consistent, NoMissedRendezvous
  <2>8. PcInv'
    BY <2>2 DEF PcInv, SendPcs
  <2>9. \A t \in Procs : ~(AwaitsInt(t)' /\ has_int_msg'[t])
    BY <1>0, <2>1, <2>5, <2>6 DEF Consistent
  <2> QED
    BY <1>3, <2>3, <2>4, <2>5, <2>6, <2>7, <2>8, <2>9 DEF Consistent
<1>6. \/ halt' = "panic"
      \/ Awaits(dest, p) /\ Goto("pmsg") /\ UNCHANGED <<kernel, buf>>
      \/ SendBlock(p, dest, buf[p].body) /\ Goto("asleep")
  BY <1>1, <1>2 DEF SendTest
<1>7. halt' # "panic"
  OBVIOUS
<1> QED
  BY <1>4, <1>5, <1>6, <1>7

\* Where a call goes on to, it is the same call.
LEMMA GoneTo ==
  ASSUME Consistent, call.pc # "none", NEW pc, Goto(pc)
  PROVE  call'.who = call.who /\ call'.other = call.other /\ call'.pc = pc
BY InCall DEF Goto, Consistent, ITypeOK

\* The assert and the copy write no field; the last step finds both idle.
LEMMA SendPlainInv ==
  ASSUME Consistent, SendAssert \/ SendCopy \/ SendDone, halt' = "no", both' = both
  PROVE  Consistent'
<1>1. /\ call.pc \in {"pmsg", "copy", "sent"} /\ UNCHANGED <<tables, has_int_msg>>
      /\ call.pc # "none"
  BY DEF SendAssert, SendCopy, SendDone, At, kernel, tables
<1>2. \A x \in Procs : ~Writing(x)
  BY <1>1 DEF Writing
<1>3. CASE SendAssert \/ SendCopy
  <2>1. PICK pc \in {"copy", "msg0"} : Goto(pc)
    BY <1>3 DEF SendAssert, SendCopy
  <2>2. call.pc \in {"pmsg", "copy"}
    BY <1>3 DEF SendAssert, SendCopy, At
  <2>3. PcInv'
    <3>1. call.who \in Procs /\ call.other \in Procs
      BY <2>2, <1>1, InCall DEF SendPcs
    <3>2. Idle(call.who) /\ (flags[call.other] = {} \/ Awaits(call.other, call.who))
      BY <2>2 DEF Consistent, PcInv, SendPcs
    <3>3. flags' = flags
      BY <1>1 DEF tables
    <3> QED
      BY <1>1, <2>1, <3>1, <3>2, <3>3, GoneTo, SameTables DEF PcInv, SendPcs
  <2> QED
    BY <1>1, <1>2, <2>1, <2>2, <2>3, InCall, GotoInv DEF SendPcs
<1>4. CASE SendDone
  BY <1>1, <1>2, <1>4, ReturnsInv DEF SendDone, At, Consistent, ITypeOK
<1> QED
  BY <1>3, <1>4

\* A step that writes fields of one process, neither flag SENDING nor sendto.
LEMMA WriteInv ==
  ASSUME Consistent, call.pc # "none", NEW o \in Procs,
         NEW pc \in SendPcs \cup ReceivePcs \cup {"asleep"}, Goto(pc),
         pc \in SendPcs => call.pc \in SendPcs,
         UNCHANGED <<sendto, has_int_msg, sending_queue, both>>,
         flags' \in [Procs -> SUBSET {SENDING, RECEIVING}],
         msg' \in [Procs -> BOOLEAN],
         recvfrom' \in [Procs -> Sources \cup {NO_TASK}],
         \A x \in Procs \ {o} : /\ flags'[x] = flags[x] /\ msg'[x] = msg[x]
                                /\ recvfrom'[x] = recvfrom[x],
         SENDING \in flags'[o] <=> SENDING \in flags[o],
         \A x \in Procs \ {o} : ~Writing(x),
         Settled(o)' \/ Writing(o)',
         \A q \in Procs : SendingTo(q, o) => ~Awaits(o, q)',
         AwaitsInt(o)' => AwaitsInt(o) \/ (o = call.who /\ pc = "block"),
         call.pc \notin {"block", "asleep"},
         PcInv'
  PROVE  Consistent'
<1>1. call'.who = call.who /\ call'.other = call.other /\ call'.pc = pc
  BY GoneTo
<1>2. ITypeOK'
  <2>1. call' \in [who : Procs, other : Sources, pc : SendPcs \cup ReceivePcs \cup {"asleep"}]
    BY InCall DEF Consistent, ITypeOK, Goto
  <2> QED
    BY <1>1, <2>1, InCall DEF Consistent, ITypeOK
<1>3. \A x \in Procs \ {o} : /\ Settled(x)' <=> Settled(x)
                             /\ AwaitsInt(x)' <=> AwaitsInt(x)
                             /\ \A y : Awaits(x, y)' <=> Awaits(x, y)
  BY OthersKept
<1>4. \A x \in Procs : Settled(x)' \/ Writing(x)'
  BY <1>3 DEF Consistent
<1>5. QueueHoldsSenders' /\ \A x \in Procs : \A y : SendingTo(x, y)' <=> SendingTo(x, y)
  <2>1. \A x \in Procs : SENDING \in flags'[x] <=> SENDING \in flags[x]
    OBVIOUS
  <2> QED
    BY <2>1, QueueKept DEF Consistent
<1>6. NoMissedRendezvous'
  BY <1>3, <1>5 DEF Consistent, NoMissedRendezvous
<1>7. \A t \in Procs : AwaitsInt(t)' /\ has_int_msg'[t] =>
        t = call'.who /\ call'.pc \in {"block", "asleep"}
  BY <1>1, <1>3 DEF Consistent
<1> QED
  BY <1>2, <1>4, <1>5, <1>6, <1>7 DEF Consistent

\* Clearing msg, flags and recvfrom of the receiver, one by one.  By then an
\* interrupt may have cleared them all.
LEMMA SendClearInv ==
  ASSUME Consistent, SendClearMsg \/ SendClearFlags \/ SendClearFrom, both' = both
  PROVE  Consistent'
<1> USE ConstantsAssumption DEF SENDING, RECEIVING
<1>1. call.pc \in {"msg0", "flags0", "recvfrom0"} /\ call.pc # "none"
  BY DEF SendClearMsg, SendClearFlags, SendClearFrom, At
<1>2. PICK p \in Procs : p = call.who
  BY <1>1, InCall
<1>3. PICK o \in Procs \ {p} : o = call.other
  BY <1>1, <1>2, InCall DEF SendPcs
<1>4. Idle(p) /\ \A x \in Procs \ {o} : ~Writing(x)
  BY <1>1, <1>2, <1>3 DEF Consistent, PcInv, SendPcs, Writing
<1>5. NoMissedRendezvous
  BY DEF Consistent
<1>6. CASE SendClearMsg
  <2>1. call.pc = "msg0" /\ Goto("flags0")
    BY <1>6 DEF SendClearMsg, At
  <2>2. /\ ~msg'[o] /\ \A x \in Procs \ {o} : msg'[x] = msg[x]
        /\ msg' \in [Procs -> BOOLEAN]
        /\ UNCHANGED <<flags, recvfrom, sendto, has_int_msg, sending_queue>>
    BY <1>3, <1>6 DEF SendClearMsg, Consistent, ITypeOK
  <2>3. Settled(o) /\ (flags[o] = {} \/ Awaits(o, p))
    BY <1>2, <1>3, <2>1 DEF Consistent, PcInv, Writing
  <2>4. /\ sendto[o] = NO_TASK
        /\ \/ flags[o] = {} /\ recvfrom[o] = NO_TASK
           \/ flags[o] = {RECEIVING} /\ recvfrom[o] \in {p, ANY}
    BY <2>3 DEF Settled, Idle, Awaits
  <2>5. call'.who = p /\ call'.other = o /\ call'.pc = "flags0"
    BY <1>1, <1>2, <1>3, <2>1, GoneTo
  <2>6. PcInv' /\ Writing(o)'
    BY <1>4, <2>2, <2>4, <2>5 DEF PcInv, Writing, Idle, SendPcs
  <2>7. (\A q \in Procs : SendingTo(q, o) => ~Awaits(o, q)') /\ (AwaitsInt(o)' => AwaitsInt(o))
    BY <1>5, <2>2 DEF NoMissedRendezvous, SendingTo, Awaits, AwaitsInt
  <2> QED
    BY <1>1, <1>4, <2>1, <2>2, <2>6, <2>7, WriteInv DEF Consistent, ITypeOK, SendPcs
<1>7. CASE SendClearFlags
  <2>1. call.pc = "flags0" /\ Goto("recvfrom0")
    BY <1>7 DEF SendClearFlags, At
  <2>2. /\ flags'[o] = flags[o] \ {RECEIVING}
        /\ \A x \in Procs \ {o} : flags'[x] = flags[x]
        /\ flags' \in [Procs -> SUBSET {SENDING, RECEIVING}]
        /\ UNCHANGED <<msg, recvfrom, sendto, has_int_msg, sending_queue>>
    BY <1>3, <1>7 DEF SendClearFlags, Consistent, ITypeOK
  <2>3. ~msg[o] /\ sendto[o] = NO_TASK /\ flags'[o] = {} /\ SENDING \notin flags[o]
    BY <1>2, <1>3, <2>1, <2>2 DEF Consistent, PcInv
  <2>5. call'.who = p /\ call'.other = o /\ call'.pc = "recvfrom0"
    BY <1>1, <1>2, <1>3, <2>1, GoneTo
  <2>6. PcInv' /\ Writing(o)'
    BY <1>4, <2>2, <2>3, <2>5 DEF PcInv, Writing, Idle, SendPcs
  <2>7. (\A q \in Procs : ~Awaits(o, q)') /\ ~AwaitsInt(o)'
    BY <2>3 DEF Awaits, AwaitsInt
  <2> QED
    BY <1>1, <1>4, <2>1, <2>2, <2>3, <2>6, <2>7, WriteInv DEF Consistent, ITypeOK, SendPcs
<1>8. CASE SendClearFrom
  <2>1. call.pc = "recvfrom0" /\ Goto("sent")
    BY <1>8 DEF SendClearFrom, At
  <2>2. /\ recvfrom'[o] = NO_TASK /\ \A x \in Procs \ {o} : recvfrom'[x] = recvfrom[x]
        /\ recvfrom' \in [Procs -> Sources \cup {NO_TASK}]
        /\ UNCHANGED <<flags, msg, sendto, has_int_msg, sending_queue>>
    BY <1>3, <1>8 DEF SendClearFrom, Consistent, ITypeOK
  <2>3. flags[o] = {} /\ ~msg[o] /\ sendto[o] = NO_TASK
    BY <1>2, <1>3, <2>1 DEF Consistent, PcInv
  <2>5. call'.who = p /\ call'.other = o /\ call'.pc = "sent"
    BY <1>1, <1>2, <1>3, <2>1, GoneTo
  <2>6. PcInv'
    BY <1>4, <2>2, <2>3, <2>5 DEF PcInv, Idle, SendPcs
  <2>7. Settled(o)' /\ (\A q \in Procs : ~Awaits(o, q)') /\ ~AwaitsInt(o)'
    BY <2>2, <2>3 DEF Awaits, AwaitsInt, Settled, Idle
  <2> QED
    BY <1>1, <1>4, <2>1, <2>2, <2>6, <2>7, WriteInv DEF Consistent, ITypeOK, SendPcs
<1> QED
  BY <1>6, <1>7, <1>8

-----------------------------------------------------------------------------
(***************************************************************************)
(* msg_receive                                                             *)
(***************************************************************************)

\* The steps that write no field but has_int_msg.
LEMMA RecvPlainInv ==
  ASSUME Consistent, RecvTest \/ RecvInt \/ RecvIntDone \/ Block \/ Asleep,
         halt = "no", halt' = "no", both' = both
  PROVE  Consistent'
<1>1. /\ call.pc \in {"recv", "int", "int0", "block", "asleep"} /\ call.pc # "none"
      /\ UNCHANGED tables
  BY DEF RecvTest, RecvInt, RecvIntDone, Block, Asleep, At, kernel, tables
<1>2. call.who \in Procs /\ \A x \in Procs : ~Writing(x)
  BY <1>1, InCall DEF Writing
<1>3. CASE RecvTest \/ RecvInt
  <2>1. /\ has_int_msg' = has_int_msg /\ call.pc \in {"recv", "int"}
        /\ \E pc \in {"int", "look", "int0"} : Goto(pc)
    BY <1>3 DEF RecvTest, RecvInt, kernel, At
  <2>2. PICK pc \in {"int", "look", "int0"} : Goto(pc)
    BY <2>1
  <2>3. PcInv'
    <3>1. Idle(call.who)
      BY <2>1 DEF Consistent, PcInv
    <3> QED
      BY <1>1, <1>2, <2>2, <3>1, GoneTo, SameTables DEF PcInv, SendPcs
  <2> QED
    BY <1>1, <1>2, <2>1, <2>2, <2>3, InCall, GotoInv DEF SendPcs, ReceivePcs
<1>4. CASE RecvIntDone
  <2>1. call.pc = "int0" /\ Return
    BY <1>4 DEF RecvIntDone, At
  <2>2. /\ has_int_msg' \in [Procs -> BOOLEAN]
        /\ \A t \in Procs : has_int_msg'[t] => has_int_msg[t]
    BY <1>4 DEF RecvIntDone, Consistent, ITypeOK
  <2> QED
    BY <1>1, <1>2, <2>1, <2>2, ReturnsInv
<1>5. CASE Block
  <2>1. has_int_msg' = has_int_msg /\ call.pc = "block" /\ Goto("asleep")
    BY <1>5 DEF Block, kernel, At
  <2>2. PcInv'
    BY <1>1, <2>1, GoneTo, SMT DEF PcInv, SendPcs
  <2> QED
    BY <1>1, <1>2, <2>1, <2>2, InCall, GotoInv DEF SendPcs
<1>6. CASE Asleep
  <2>1. has_int_msg' = has_int_msg /\ call.pc = "asleep" /\ Return
    BY <1>6 DEF Asleep, kernel, At
  <2>2. flags[call.who] = {SENDING} \/ ~has_int_msg[call.who]
    BY <1>6 DEF Asleep, AssertThat
  <2>3. ~(AwaitsInt(call.who) /\ has_int_msg'[call.who])
    BY <2>1, <2>2 DEF AwaitsInt, SENDING, RECEIVING
  <2> QED
    BY <1>1, <1>2, <2>1, <2>3, ReturnsInv DEF Consistent, ITypeOK
<1> QED
  BY <1>3, <1>4, <1>5, <1>6

\* Taking the message of a sender, unlinking and unblocking it; or finding
\* that there is none.
LEMMA RecvLookInv ==
  ASSUME Consistent, RecvLook, both' = both
  PROVE  Consistent'
<1> USE ConstantsAssumption DEF SENDING, RECEIVING
<1>1. call.pc = "look" /\ call.pc # "none"
  BY DEF RecvLook, At
<1>2. PICK p \in Procs : p = call.who
  BY <1>1, InCall
<1>3. PICK src \in Sources \ {p} : src = call.other
  BY <1>1, <1>2, InCall
<1>4. Idle(p) /\ \A x \in Procs : ~Writing(x) /\ Settled(x)
  BY <1>1, <1>2 DEF Consistent, PcInv, SendPcs, Writing
<1>5. CASE /\ \E q \in From(p, src) :
                /\ sending_queue' = [sending_queue EXCEPT ![p] = Unlink(@, q)]
                /\ msg' = [msg EXCEPT ![q] = FALSE]
                /\ sendto' = [sendto EXCEPT ![q] = NO_TASK]
                /\ flags' = [flags EXCEPT ![q] = @ \ {SENDING}]
           /\ UNCHANGED <<recvfrom, has_int_msg>>
           /\ Return
  <2>1. PICK q \in From(p, src) :
          /\ sending_queue' = [sending_queue EXCEPT ![p] = Unlink(@, q)]
          /\ msg' = [msg EXCEPT ![q] = FALSE]
          /\ sendto' = [sendto EXCEPT ![q] = NO_TASK]
          /\ flags' = [flags EXCEPT ![q] = @ \ {SENDING}]
    BY <1>5
  <2>2. q \in Procs /\ SendingTo(q, p)
    BY QueuedSends DEF Consistent, ITypeOK
  <2>3. flags[q] = {SENDING} /\ recvfrom[q] = NO_TASK
    BY <1>4, <2>2 DEF Settled, SendingTo
  <2>4. /\ flags'[q] = {} /\ ~msg'[q] /\ sendto'[q] = NO_TASK /\ recvfrom'[q] = NO_TASK
        /\ \A x \in Procs \ {q} : flags'[x] = flags[x] /\ sendto'[x] = sendto[x]
                                  /\ msg'[x] = msg[x] /\ recvfrom'[x] = recvfrom[x]
        /\ has_int_msg' = has_int_msg
    <3>1. flags'[q] = {} /\ \A x \in Procs \ {q} : flags'[x] = flags[x]
      BY <2>1, <2>2, <2>3 DEF Consistent, ITypeOK
    <3>2. sendto'[q] = NO_TASK /\ \A x \in Procs \ {q} : sendto'[x] = sendto[x]
      BY <2>1, <2>2 DEF Consistent, ITypeOK
    <3>3. ~msg'[q] /\ \A x \in Procs \ {q} : msg'[x] = msg[x]
      BY <2>1, <2>2 DEF Consistent, ITypeOK
    <3>4. recvfrom' = recvfrom /\ has_int_msg' = has_int_msg
      BY <1>5
    <3> QED
      BY <2>3, <3>1, <3>2, <3>3, <3>4
  <2>5. call'.pc = "none" /\ call' = NoCall
    BY <1>5 DEF Return, NoCall
  <2>6. sending_queue' \in [Procs -> Seq(Procs)] /\ QueueHoldsSenders'
    BY <2>1, <2>2, <2>4, QueueLeft DEF Consistent, ITypeOK
  <2>7. ITypeOK'
    <3>1. /\ flags' \in [Procs -> SUBSET {SENDING, RECEIVING}]
          /\ msg' \in [Procs -> BOOLEAN]
          /\ sendto' \in [Procs -> Procs \cup {NO_TASK}]
      BY <2>1, <2>2 DEF Consistent, ITypeOK
    <3> QED
      BY <1>5, <2>5, <2>6, <3>1 DEF Consistent, ITypeOK
  <2>8. \A x \in Procs \ {q} : /\ Settled(x)' <=> Settled(x)
                               /\ AwaitsInt(x)' <=> AwaitsInt(x)
                               /\ \A y : SendingTo(x, y)' <=> SendingTo(x, y)
                               /\ \A y : Awaits(x, y)' <=> Awaits(x, y)
    BY <2>2, <2>4, OthersKept
  <2>9. /\ Settled(q)' /\ ~AwaitsInt(q)'
        /\ \A y : ~Awaits(q, y)' /\ ~SendingTo(q, y)'
    BY <2>4 DEF Settled, Idle, AwaitsInt, Awaits, SendingTo
  <2>10. NoMissedRendezvous'
    BY <2>2, <2>8, <2>9, SMT DEF Consistent, NoMissedRendezvous
  <2>11. PcInv'
    BY <2>5 DEF PcInv, SendPcs
  <2>12. \A t \in Procs : ~(AwaitsInt(t)' /\ has_int_msg'[t])
    BY <1>1, <2>4, <2>8, <2>9 DEF Consistent
  <2> QED
    BY <1>4, <2>6, <2>7, <2>8, <2>9, <2>10, <2>11, <2>12 DEF Consistent
<1>6. CASE From(p, src) = {} /\ Goto("flags1") /\ UNCHANGED kernel
  <2>1. UNCHANGED <<tables, has_int_msg>>
    BY <1>6 DEF kernel, tables
  <2>2. call'.who = p /\ call'.other = src /\ call'.pc = "flags1"
    BY <1>1, <1>2, <1>3, <1>6, GoneTo
  <2>3. \A q \in Procs : src \in {q, ANY} => ~SendingTo(q, p)
    BY <1>6, NothingQueued DEF Consistent, ITypeOK
  <2>4. NoOffer'
    BY <2>1, <2>2, <2>3, SameTables DEF NoOffer
  <2>5. PcInv'
    BY <1>4, <2>1, <2>2, <2>4, SameTables DEF PcInv, SendPcs
  <2> QED
    BY <1>1, <1>4, <1>6, <2>1, <2>5, InCall, GotoInv DEF SendPcs, ReceivePcs
<1>7. \/ /\ \E q \in From(p, src) :
              /\ sending_queue' = [sending_queue EXCEPT ![p] = Unlink(@, q)]
              /\ msg' = [msg EXCEPT ![q] = FALSE]
              /\ sendto' = [sendto EXCEPT ![q] = NO_TASK]
              /\ flags' = [flags EXCEPT ![q] = @ \ {SENDING}]
         /\ UNCHANGED <<recvfrom, has_int_msg>>
         /\ Return
      \/ From(p, src) = {} /\ Goto("flags1") /\ UNCHANGED kernel
  BY <1>2, <1>3 DEF RecvLook
<1> QED
  BY <1>5, <1>6, <1>7

\* Setting flags, msg and recvfrom of the caller, one by one.  Nobody offers
\* it a message, and an interrupt does not find it waiting before the last.
LEMMA RecvSetInv ==
  ASSUME Consistent, RecvSetFlags \/ RecvSetMsg \/ RecvSetFrom, both' = both
  PROVE  Consistent'
<1> USE ConstantsAssumption DEF SENDING, RECEIVING
<1>1. call.pc \in {"flags1", "msg1", "recvfrom1"} /\ call.pc # "none"
  BY DEF RecvSetFlags, RecvSetMsg, RecvSetFrom, At
<1>2. PICK p \in Procs : p = call.who
  BY <1>1, InCall
<1>3. PICK o \in Sources \ {p} : o = call.other
  BY <1>1, <1>2, InCall
<1>4. /\ \A x \in Procs \ {p} : ~Writing(x)
      /\ \A q \in Procs : o \in {q, ANY} => ~SendingTo(q, p)
  BY <1>1, <1>2, <1>3 DEF Consistent, PcInv, NoOffer, Writing
<1>6. CASE RecvSetFlags
  <2>1. call.pc = "flags1" /\ Goto("msg1")
    BY <1>6 DEF RecvSetFlags, At
  <2>2. /\ flags'[p] = flags[p] \cup {RECEIVING}
        /\ \A x \in Procs \ {p} : flags'[x] = flags[x]
        /\ flags' \in [Procs -> SUBSET {SENDING, RECEIVING}]
        /\ UNCHANGED <<msg, recvfrom, sendto, has_int_msg, sending_queue>>
    BY <1>2, <1>6 DEF RecvSetFlags, Consistent, ITypeOK
  <2>3. /\ SENDING \notin flags[p] /\ flags'[p] = {RECEIVING} /\ ~msg[p]
        /\ recvfrom[p] = NO_TASK /\ sendto[p] = NO_TASK
    BY <1>2, <2>1, <2>2 DEF Consistent, PcInv, Idle
  <2>5. call'.who = p /\ call'.other = o /\ call'.pc = "msg1"
    BY <1>1, <1>2, <1>3, <2>1, GoneTo
  <2>6. NoOffer'
    BY <1>4, <2>2, <2>3, <2>5 DEF NoOffer, SendingTo
  <2>7. PcInv' /\ Writing(p)'
    BY <2>2, <2>3, <2>5, <2>6 DEF PcInv, Writing, SendPcs
  <2>8. (\A q \in Procs : ~Awaits(p, q)') /\ ~AwaitsInt(p)'
    BY <2>2, <2>3 DEF Awaits, AwaitsInt
  <2> QED
    BY <1>1, <1>4, <2>1, <2>2, <2>3, <2>7, <2>8, WriteInv
       DEF Consistent, ITypeOK, SendPcs, ReceivePcs
<1>7. CASE RecvSetMsg
  <2>1. call.pc = "msg1" /\ Goto("recvfrom1")
    BY <1>7 DEF RecvSetMsg, At
  <2>2. /\ msg'[p] /\ \A x \in Procs \ {p} : msg'[x] = msg[x]
        /\ msg' \in [Procs -> BOOLEAN]
        /\ UNCHANGED <<flags, recvfrom, sendto, has_int_msg, sending_queue>>
    BY <1>2, <1>7 DEF RecvSetMsg, Consistent, ITypeOK
  <2>3. flags[p] = {RECEIVING} /\ recvfrom[p] = NO_TASK /\ sendto[p] = NO_TASK
    BY <1>2, <2>1 DEF Consistent, PcInv
  <2>5. call'.who = p /\ call'.other = o /\ call'.pc = "recvfrom1"
    BY <1>1, <1>2, <1>3, <2>1, GoneTo
  <2>6. NoOffer'
    BY <1>4, <2>2, <2>5 DEF NoOffer, SendingTo
  <2>7. PcInv' /\ Writing(p)'
    BY <2>2, <2>3, <2>5, <2>6 DEF PcInv, Writing, SendPcs
  <2>8. (\A q \in Procs : ~Awaits(p, q)') /\ ~AwaitsInt(p)'
    BY <2>2, <2>3 DEF Awaits, AwaitsInt
  <2> QED
    BY <1>1, <1>4, <2>1, <2>2, <2>7, <2>8, WriteInv
       DEF Consistent, ITypeOK, SendPcs, ReceivePcs
<1>8. CASE RecvSetFrom
  <2>1. call.pc = "recvfrom1" /\ Goto("block")
    BY <1>8 DEF RecvSetFrom, At
  <2>2. /\ recvfrom'[p] = o /\ \A x \in Procs \ {p} : recvfrom'[x] = recvfrom[x]
        /\ recvfrom' \in [Procs -> Sources \cup {NO_TASK}]
        /\ UNCHANGED <<flags, msg, sendto, has_int_msg, sending_queue>>
    BY <1>2, <1>3, <1>8 DEF RecvSetFrom, Consistent, ITypeOK
  <2>3. flags[p] = {RECEIVING} /\ msg[p] /\ sendto[p] = NO_TASK
    BY <1>2, <2>1 DEF Consistent, PcInv
  <2>5. call'.who = p /\ call'.other = o /\ call'.pc = "block"
    BY <1>1, <1>2, <1>3, <2>1, GoneTo
  <2>6. PcInv'
    BY <2>2, <2>3, <2>5, SMT DEF PcInv, SendPcs
  <2>7. Settled(p)'
    BY <2>2, <2>3 DEF Settled
  <2>8. \A q \in Procs : SendingTo(q, p) => ~Awaits(p, q)'
    BY <1>4, <2>2 DEF Awaits
  <2> QED
    BY <1>1, <1>2, <1>4, <2>1, <2>2, <2>6, <2>7, <2>8, WriteInv
       DEF Consistent, ITypeOK, SendPcs, ReceivePcs
<1> QED
  BY <1>6, <1>7, <1>8

-----------------------------------------------------------------------------
(***************************************************************************)
(* Interrupts, and the theorem                                             *)
(***************************************************************************)

\* inform_init in the middle of a call: it writes only the task it informs, and
\* only when that waits with recvfrom set, and leaves it idle.
LEMMA InformsInv ==
  ASSUME Consistent, NEW t \in Procs, InformWakes(t) \/ InformLatch(t),
         UNCHANGED <<both, call>>, halt' = "no"
  PROVE  Consistent'
<1> USE ConstantsAssumption DEF SENDING, RECEIVING
<1>1. call' = call /\ both' = both
  OBVIOUS
<1>2. CASE InformLatch(t)
  <2>1. /\ UNCHANGED tables /\ ~AwaitsInt(t)
        /\ has_int_msg' = [has_int_msg EXCEPT ![t] = TRUE]
    BY <1>2 DEF InformLatch, tables
  <2>2. ITypeOK'
    BY <1>1, <2>1 DEF Consistent, ITypeOK, tables
  <2>3. PcInv'
    BY <1>1, <2>1, SameTables DEF Consistent, PcInv, NoOffer, tables, Idle, Awaits
  <2>4. \A x \in Procs : Settled(x)' \/ Writing(x)'
    BY <1>1, <2>1, SameTables DEF Consistent, Writing
  <2>5. \A x \in Procs : AwaitsInt(x)' /\ has_int_msg'[x] =>
          x = call'.who /\ call'.pc \in {"block", "asleep"}
    BY <1>1, <2>1, SameTables DEF Consistent, ITypeOK
  <2> QED
    BY <2>1, <2>2, <2>3, <2>4, <2>5, SameTables DEF Consistent
<1>3. CASE InformWakes(t)
  <2>1. /\ flags' = [flags EXCEPT ![t] = @ \ {RECEIVING}]
        /\ msg' = [msg EXCEPT ![t] = FALSE]
        /\ recvfrom' = [recvfrom EXCEPT ![t] = NO_TASK]
        /\ has_int_msg' = [has_int_msg EXCEPT ![t] = FALSE]
        /\ UNCHANGED <<sendto, sending_queue>>
        /\ AwaitsInt(t) /\ flags'[t] = {} /\ sendto[t] = NO_TASK
    BY <1>3 DEF InformWakes, AssertThat
  <2>2. /\ \A x \in Procs \ {t} : /\ flags'[x] = flags[x] /\ msg'[x] = msg[x]
                                  /\ recvfrom'[x] = recvfrom[x]
                                  /\ has_int_msg'[x] = has_int_msg[x]
        /\ Idle(t)' /\ SENDING \notin flags[t] /\ ~has_int_msg'[t]
    BY <1>1, <2>1, SMT DEF Consistent, ITypeOK, Idle
  <2>3. ITypeOK'
    BY <1>1, <2>1 DEF Consistent, ITypeOK
  <2>4. \A x \in Procs \ {t} : /\ Settled(x)' <=> Settled(x)
                               /\ Idle(x)' <=> Idle(x)
                               /\ AwaitsInt(x)' <=> AwaitsInt(x)
                               /\ \A y : Awaits(x, y)' <=> Awaits(x, y)
    BY <1>1, <2>1, <2>2, OthersKept
  <2>5. QueueHoldsSenders' /\ \A x \in Procs : \A y : SendingTo(x, y)' <=> SendingTo(x, y)
    <3>1. \A x \in Procs : SENDING \in flags'[x] <=> SENDING \in flags[x]
      BY <2>1, <2>2
    <3> QED
      BY <2>1, <3>1, QueueKept DEF Consistent
  <2>6. Settled(t)' /\ ~AwaitsInt(t)' /\ \A y : ~Awaits(t, y)'
    BY <2>1, <2>2 DEF Settled, Idle, AwaitsInt, Awaits
  <2>7. \A x \in Procs : Settled(x)' \/ Writing(x)'
    BY <1>1, <2>4, <2>6 DEF Consistent, Writing
  <2>8. NoMissedRendezvous'
    BY <2>4, <2>5, <2>6, SMT DEF Consistent, NoMissedRendezvous
  <2>9. \A x \in Procs : AwaitsInt(x)' /\ has_int_msg'[x] =>
          x = call'.who /\ call'.pc \in {"block", "asleep"}
    BY <1>1, <2>2, <2>4, <2>6 DEF Consistent
  <2>10. ~Idle(t) /\ flags[t] = {RECEIVING} /\ recvfrom[t] # NO_TASK
    BY <1>1, <2>1, <2>2, SMT DEF Consistent, ITypeOK, AwaitsInt, Idle
  <2>11. PcInv'
    <3>1. CASE call = NoCall
      <4>1. call.pc = "none"
        BY <3>1 DEF NoCall
      <4>2. call'.pc = "none"
        BY <1>1, <4>1
      <4> QED
        BY <4>2 DEF PcInv, SendPcs
    <3>2. CASE call # NoCall
      <4>1. PICK p \in Procs : p = call.who /\ p = call'.who
        BY <1>1, <3>2 DEF Consistent, ITypeOK
      <4>2. PICK o \in Sources \ {p} : o = call.other /\ o = call'.other
        BY <1>1, <3>2, <4>1 DEF Consistent, ITypeOK
      <4>3. call.pc \in SendPcs => o \in Procs
        BY <3>2, <4>2 DEF Consistent, ITypeOK
      <4>4. call.pc \in SendPcs \cup {"recv", "int", "int0", "look", "flags1"} => Idle(p)'
        BY <2>4, <2>10, <4>1 DEF Consistent, PcInv
      <4>5. call.pc \in {"pmsg", "copy", "msg0"} => (flags'[o] = {} \/ Awaits(o, p)')
        <5> SUFFICES ASSUME call.pc \in {"pmsg", "copy", "msg0"}
                     PROVE  flags'[o] = {} \/ Awaits(o, p)'
          OBVIOUS
        <5>1. (flags[o] = {} \/ Awaits(o, p)) /\ o \in Procs
          BY <4>1, <4>2, <4>3 DEF Consistent, PcInv, SendPcs
        <5> QED
          BY <5>1, <2>1, <2>2, <2>4
      <4>6. call.pc = "flags0" =>
              /\ ~msg'[o] /\ sendto'[o] = NO_TASK
              /\ \/ flags'[o] = {} /\ recvfrom'[o] = NO_TASK
                 \/ flags'[o] = {RECEIVING} /\ recvfrom'[o] \in {p, ANY}
        <5> SUFFICES ASSUME call.pc = "flags0"
                     PROVE  /\ ~msg'[o] /\ sendto'[o] = NO_TASK
                            /\ \/ flags'[o] = {} /\ recvfrom'[o] = NO_TASK
                               \/ flags'[o] = {RECEIVING} /\ recvfrom'[o] \in {p, ANY}
          OBVIOUS
        <5>1. o \in Procs
          BY <4>3 DEF SendPcs
        <5>2. CASE o = t
          BY <5>2, <2>1, <2>2 DEF Idle
        <5>3. CASE o # t
          <6>1. /\ ~msg[o] /\ sendto[o] = NO_TASK
                /\ \/ flags[o] = {} /\ recvfrom[o] = NO_TASK
                   \/ flags[o] = {RECEIVING} /\ recvfrom[o] \in {p, ANY}
            BY <4>1, <4>2 DEF Consistent, PcInv
          <6> QED
            BY <5>1, <5>3, <6>1, <2>1, <2>2
        <5> QED
          BY <5>2, <5>3
      <4>7. call.pc \in {"recvfrom0", "sent"} => o # t /\ o \in Procs
        BY <2>10, <4>2, <4>3 DEF Consistent, PcInv, SendPcs
      <4>8. /\ call.pc = "recvfrom0" => flags'[o] = {} /\ ~msg'[o] /\ sendto'[o] = NO_TASK
            /\ call.pc = "sent" => Idle(o)'
        BY <2>1, <2>2, <2>4, <4>2, <4>7 DEF Consistent, PcInv
      <4>9. call.pc \in {"flags1", "msg1", "recvfrom1"} => NoOffer'
        BY <1>1, <2>5, <4>1 DEF Consistent, PcInv, NoOffer
      <4>10. call.pc \in {"msg1", "recvfrom1"} => p # t
        BY <2>10, <4>1 DEF Consistent, PcInv
      <4>11. /\ call.pc \in {"msg1", "recvfrom1"} =>
                  /\ flags'[p] = {RECEIVING} /\ recvfrom'[p] = NO_TASK /\ sendto'[p] = NO_TASK
                  /\ msg'[p] <=> call.pc = "recvfrom1"
             /\ call.pc = "block" => SENDING \notin flags'[p]
        BY <2>1, <2>2, <4>1, <4>10, SMT DEF Consistent, PcInv
      <4> QED
        BY <1>1, <4>1, <4>2, <4>4, <4>5, <4>6, <4>8, <4>9, <4>11 DEF PcInv
    <3> QED
      BY <3>1, <3>2
  <2> QED
    BY <2>3, <2>5, <2>7, <2>8, <2>9, <2>11 DEF Consistent
<1> QED
  BY <1>2, <1>3

\* The processes' own steps: entering a call, or noting what has happened.
LEMMA ProcessInv ==
  ASSUME Consistent, ProcessStep
  PROVE  Consistent'
<1> USE ConstantsAssumption, TTYAssumption
<1>1. both \in [Procs -> {NO_TASK, TTY}] /\ TTY \in Procs /\ HD \in Procs
  BY DEF Consistent, ITypeOK
<1>2. ASSUME NEW p \in Clients, ClientReceive(p) PROVE Consistent'
  <2>1. p \in Procs \ {TTY} /\ both[p] = TTY
    BY <1>1, <1>2 DEF Clients, ClientReceive
  <2>2. Enter(p, TTY, buf[p].body, "recv") /\ both' \in [Procs -> {NO_TASK, TTY}]
    BY <1>1, <1>2, <2>1 DEF ClientReceive
  <2> QED
    BY <1>1, <2>1, <2>2, EnterInv DEF Sources
<1>3. ASSUME NEW p \in Clients, NEW body \in Bodies, ClientSend(p, body) PROVE Consistent'
  <2>1. p \in Procs \ {TTY}
    BY DEF Clients
  <2>2. Enter(p, TTY, body, "send") /\ both' \in [Procs -> {NO_TASK, TTY}]
    BY <1>1, <1>3, <2>1 DEF ClientSend
  <2> QED
    BY <1>1, <2>1, <2>2, EnterInv DEF Sources
<1>4. CASE TtyReceive
  <2>1. Enter(TTY, ANY, ZeroBody, "recv") /\ both' = both
    BY <1>4 DEF TtyReceive
  <2> QED
    BY <1>1, <2>1, EnterInv DEF Sources
<1>5. CASE TtyKey \/ HdCommand \/ HdReturns
  <2>1. UNCHANGED <<tables, has_int_msg, both, call>>
    BY <1>5 DEF TtyKey, HdCommand, HdReturns, vars, kernel, tables
  <2>2. call = NoCall /\ call.pc = "none"
    <3>1. call = NoCall
      BY <1>5 DEF TtyKey, HdCommand, HdReturns
    <3> QED
      BY <3>1 DEF NoCall
  <2>3. ITypeOK' /\ PcInv'
    BY <2>1, <2>2 DEF Consistent, ITypeOK, tables, PcInv, SendPcs
  <2>4. \A x \in Procs : Settled(x)'
    BY <2>1, <2>2, SameTables DEF Consistent, Writing
  <2>5. \A t \in Procs : ~(AwaitsInt(t)' /\ has_int_msg'[t])
    BY <2>1, <2>2, SameTables DEF Consistent
  <2> QED
    BY <2>1, <2>3, <2>4, <2>5, SameTables DEF Consistent
<1>6. CASE TtyAnswer
  <2>1. PICK c \in Procs \ {TTY} : c = buf[TTY].source
    BY <1>6 DEF TtyAnswer, Clients
  <2>2. Enter(TTY, c, buf[TTY].body, "send") /\ both' = both
    BY <1>6, <2>1 DEF TtyAnswer
  <2> QED
    BY <1>1, <2>1, <2>2, EnterInv DEF Sources
<1>7. CASE HdWait
  <2>1. Enter(HD, INTERRUPT, ZeroBody, "recv") /\ both' = both
    BY <1>7 DEF HdWait
  <2> QED
    BY <1>1, <2>1, EnterInv DEF Sources
<1> QED
  BY <1>2, <1>3, <1>4, <1>5, <1>6, <1>7 DEF ProcessStep

\* The tables as kernel_main fills them are consistent.
LEMMA IrqInitInv == IInit => IrqInv
<1> SUFFICES ASSUME IInit PROVE Consistent
  BY DEF IrqInv
<1> USE ConstantsAssumption DEF IInit, Init
<1>1. call = NoCall /\ call.pc = "none"
  BY DEF NoCall
<1>2. ITypeOK
  <2>1. sending_queue \in [Procs -> Seq(Procs)]
    BY SMT
  <2> QED
    BY <1>1, <2>1 DEF ITypeOK, Sources
<1>3. \A p \in Procs : Idle(p) /\ Settled(p)
  BY DEF Idle, Settled
<1>4. \A p \in Procs : ~AwaitsInt(p) /\ \A q : ~SendingTo(p, q) /\ ~Awaits(p, q)
  BY <1>3 DEF AwaitsInt, SendingTo, Awaits, Idle
<1>5. QueueHoldsSenders
  <2>1. Range(<< >>) = {} /\ IsInjective(<< >>)
    BY SMT DEF Range, IsInjective
  <2> QED
    BY <1>4, <2>1 DEF QueueHoldsSenders
<1> QED
  BY <1>1, <1>2, <1>3, <1>4, <1>5 DEF Consistent, PcInv, SendPcs, NoMissedRendezvous

\* Every step of a process, of the kernel or of an interrupt keeps them so.
LEMMA IrqNextInv == IrqInv /\ [INext]_ivars => IrqInv'
<1> SUFFICES ASSUME IrqInv, [INext]_ivars, halt' = "no" PROVE Consistent'
  BY DEF IrqInv
<1>1. CASE UNCHANGED <<vars, call>>
  <2>1. halt = "no" /\ UNCHANGED <<tables, has_int_msg, both, call>>
    BY <1>1 DEF vars, kernel, tables
  <2>2. Consistent
    BY <2>1 DEF IrqInv
  <2>3. ITypeOK' /\ PcInv'
    BY <2>1, <2>2 DEF Consistent, ITypeOK, tables, PcInv, NoOffer, Idle, Awaits, SendingTo
  <2>4. \A x \in Procs : Settled(x)' \/ Writing(x)'
    BY <2>1, <2>2, SameTables DEF Consistent, Writing
  <2> QED
    BY <2>1, <2>2, <2>3, <2>4, SameTables DEF Consistent
<1>2. ASSUME halt = "no" PROVE Consistent
  BY <1>2 DEF IrqInv
<1>3. CASE ProcessStep
  <2>1. halt = "no"
    BY <1>3 DEF ProcessStep, ClientReceive, ClientSend, TtyReceive, TtyKey, TtyAnswer,
                HdCommand, HdWait, HdReturns, Enter, Runnable
  <2> QED
    BY <1>2, <1>3, <2>1, ProcessInv
<1>4. CASE KernelStep
  <2>1. halt = "no" /\ both' = both
    BY <1>4 DEF KernelStep, msg_send_steps, msg_receive_steps, SendTest, SendAssert,
                SendCopy, SendClearMsg, SendClearFlags, SendClearFrom, SendDone, RecvTest,
                RecvInt, RecvIntDone, RecvLook, RecvSetFlags, RecvSetMsg, RecvSetFrom,
                Block, Asleep, At
  <2>2. CASE msg_send_steps
    BY <1>2, <2>1, <2>2, SendTestInv, SendPlainInv, SendClearInv DEF msg_send_steps
  <2>3. CASE msg_receive_steps
    BY <1>2, <2>1, <2>3, RecvPlainInv, RecvLookInv, RecvSetInv DEF msg_receive_steps
  <2> QED
    BY <1>4, <2>2, <2>3 DEF KernelStep
<1>5. CASE ClockInforms \/ DiskInforms
  <2>1. PICK t \in Procs : InformWakes(t) \/ InformLatch(t)
    BY <1>5, ConstantsAssumption, TTYAssumption DEF ClockInforms, DiskInforms
  <2>2. halt = "no" /\ UNCHANGED <<both, call>>
    BY <1>5 DEF ClockInforms, DiskInforms
  <2> QED
    BY <1>2, <2>1, <2>2, InformsInv
<1>6. CASE KeyPressed
  BY <1>1, <1>6 DEF KeyPressed
<1> QED
  BY <1>1, <1>3, <1>4, <1>5, <1>6 DEF INext, ivars

\* Whatever interrupts fall into the system calls, between two calls of a
\* machine that runs the lists hold the blocked senders, no matching pair is
\* blocked, no task sleeps on a signalled interrupt, and the fields
\* of every process agree with its flags.
THEOREM TablesConsistentAtRest == ISpec => []RestConsistent
<1>1. IrqInv => RestConsistent
  <2> SUFFICES ASSUME IrqInv, call = NoCall, halt = "no"
               PROVE  /\ QueueHoldsSenders /\ NoMissedRendezvous /\ NoMissedInterrupt
                      /\ \A p \in Procs :
                           /\ flags[p] = {} => Idle(p)
                           /\ RECEIVING \in flags[p] => msg[p] /\ recvfrom[p] # NO_TASK
    BY DEF RestConsistent
  <2>1. Consistent /\ call.pc = "none"
    BY DEF IrqInv, NoCall
  <2>2. \A p \in Procs : Settled(p)
    BY <2>1 DEF Consistent, Writing
  <2>3. NoMissedInterrupt
    BY <2>1 DEF Consistent, NoMissedInterrupt
  <2>4. NO_TASK \notin Sources
    BY ConstantsAssumption DEF Sources
  <2> QED
    BY <2>1, <2>2, <2>3, <2>4 DEF Consistent, Settled
<1> QED
  BY <1>1, IrqInitInv, IrqNextInv, PTL DEF ISpec
=============================================================================

-------------------------------- MODULE IPC --------------------------------
(***************************************************************************)
(* Synchronous message passing between processes, kernel/proc.c.           *)
(*                                                                         *)
(* A process enters the kernel with sendrec(SEND | RECEIVE, ...); the      *)
(* caller either completes at once or is blocked (flags # 0) until its     *)
(* partner calls.  Interrupt handlers call inform_init() to leave a        *)
(* HARDWARE_INT message for a task.                                        *)
(*                                                                         *)
(* One action is one system call or one call of inform_init().  Any        *)
(* process with flags = 0 may run next: schedule() is modelled in Sched.   *)
(* Interrupts that arrive inside a system call are modelled in IpcIrq.     *)
(***************************************************************************)
EXTENDS Naturals, Sequences, Functions

CONSTANTS
  Procs,         \* the process numbers that index proc_table
  IntTasks,      \* the tasks an interrupt handler informs (TASK_TTY, TASK_HD)
  ANY,           \* "receive from anyone"
  INTERRUPT,     \* "receive from a hardware interrupt"
  NO_TASK,       \* no partner
  Bodies,        \* what a sender can put into a message
  ZeroBody,      \* a message cleared by memset / reset_msg
  HARDWARE_INT   \* the type of the message an interrupt leaves

ASSUME ConstantsAssumption ==
  /\ IntTasks \subseteq Procs
  /\ ANY \notin Procs /\ INTERRUPT \notin Procs /\ NO_TASK \notin Procs
  /\ ANY # INTERRUPT /\ ANY # NO_TASK /\ INTERRUPT # NO_TASK

SENDING   == "SENDING"
RECEIVING == "RECEIVING"

VARIABLES
  flags,          \* why a process is not runnable; {} is the code's 0
  msg,            \* is PROCESS.msg set (it then points to the caller's buf)
  recvfrom,       \* whom a RECEIVING process waits for
  sendto,         \* whom a SENDING process waits for
  has_int_msg,    \* an interrupt that has not been received yet
  sending_queue,  \* the list sending_queue/next_sending, oldest first
  buf,            \* the MESSAGE in the memory of the process
  both,           \* send_recv(BOTH) in progress: its partner, else NO_TASK
  halt            \* "no", or why the machine stopped: "assert" or "panic"

kernel == <<flags, msg, recvfrom, sendto, has_int_msg, sending_queue>>
vars   == <<kernel, buf, both, halt>>

Sources == Procs \cup {ANY, INTERRUPT}
Message == [source : Procs \cup {INTERRUPT, NO_TASK},
            body   : Bodies \cup {ZeroBody, HARDWARE_INT}]
IntMessage == [source |-> INTERRUPT, body |-> HARDWARE_INT]

-----------------------------------------------------------------------------
(***************************************************************************)
(* Helpers                                                                 *)
(***************************************************************************)

\* The process can be chosen by schedule() and make a call.
Runnable(p) == halt = "no" /\ flags[p] = {}

\* p is blocked in a SEND to q.
SendingTo(p, q) == SENDING \in flags[p] /\ sendto[p] = q

\* q is blocked in a RECEIVE that a message of p satisfies.
Awaits(q, p) == RECEIVING \in flags[q] /\ recvfrom[q] \in {p, ANY}

\* q is blocked in a RECEIVE that an interrupt satisfies.
AwaitsInt(q) == RECEIVING \in flags[q] /\ recvfrom[q] \in {INTERRUPT, ANY}

\* S contains every process that the chain of blocked sends leads to from
\* one of its members.
SendClosed(S) == \A q \in S : SENDING \in flags[q] => sendto[q] \in S

\* A mutant of deadlock: it looks one process ahead and no further.
deadlockOneStep(src, dest) == SendingTo(dest, src)

\* The chain of blocked sends that starts at dest leads to src: the loop
\* follows sendto from dest while the process it reaches is SENDING.
deadlock(src, dest) ==
  \A S \in SUBSET Procs : dest \in S /\ SendClosed(S) => src \in S

\* The fields of a process that is in neither a SEND nor a RECEIVE.
Idle(p) ==
  /\ flags[p] = {}
  /\ ~msg[p]
  /\ recvfrom[p] = NO_TASK
  /\ sendto[p] = NO_TASK

\* The outcome of a run of assert()s: the machine stops when one is false.
AssertThat(cond) == halt' = IF cond THEN halt ELSE "assert"

-----------------------------------------------------------------------------
(***************************************************************************)
(* msg_send: three outcomes                                                *)
(***************************************************************************)

\* The send would close a cycle of blocked sends: panic.
SendPanic(p, dest, body) ==
  /\ deadlock(p, dest)
  /\ halt' = "panic"
  /\ buf' = [buf EXCEPT ![p] = [source |-> p, body |-> body]]
  /\ UNCHANGED kernel

\* A mutant of SendDeliver: any receiver will do.
SendDeliverToAny(p, dest, body) ==
  /\ ~deadlock(p, dest)
  /\ RECEIVING \in flags[dest]
  /\ LET m == [source |-> p, body |-> body]
     IN  buf' = [buf EXCEPT ![p] = m, ![dest] = m]
  /\ msg' = [msg EXCEPT ![dest] = FALSE]
  /\ flags' = [flags EXCEPT ![dest] = @ \ {RECEIVING}]
  /\ recvfrom' = [recvfrom EXCEPT ![dest] = NO_TASK]
  /\ UNCHANGED <<sendto, has_int_msg, sending_queue, halt>>

\* dest is waiting for this message: copy it and unblock dest.
SendDeliver(p, dest, body) ==
  /\ ~deadlock(p, dest)
  /\ Awaits(dest, p)
  /\ LET m == [source |-> p, body |-> body]
     IN  buf' = [buf EXCEPT ![p] = m, ![dest] = m]
  /\ msg' = [msg EXCEPT ![dest] = FALSE]
  /\ flags' = [flags EXCEPT ![dest] = @ \ {RECEIVING}]
  /\ recvfrom' = [recvfrom EXCEPT ![dest] = NO_TASK]
  /\ UNCHANGED <<sendto, has_int_msg, sending_queue>>
  /\ AssertThat(msg[dest] /\ Idle(dest)' /\ Idle(p))

\* A mutant of SendBlock: the sender joins the head of the list.
SendBlockAtHead(p, dest, body) ==
  /\ ~deadlock(p, dest)
  /\ ~Awaits(dest, p)
  /\ flags' = [flags EXCEPT ![p] = @ \cup {SENDING}]
  /\ sendto' = [sendto EXCEPT ![p] = dest]
  /\ msg' = [msg EXCEPT ![p] = TRUE]
  /\ sending_queue' = [sending_queue EXCEPT ![dest] = <<p>> \o @]
  /\ buf' = [buf EXCEPT ![p] = [source |-> p, body |-> body]]
  /\ UNCHANGED <<recvfrom, has_int_msg, halt>>

\* Nobody waits for the message: join the tail of dest's queue and block.
SendBlock(p, dest, body) ==
  /\ ~deadlock(p, dest)
  /\ ~Awaits(dest, p)
  /\ flags' = [flags EXCEPT ![p] = @ \cup {SENDING}]
  /\ sendto' = [sendto EXCEPT ![p] = dest]
  /\ msg' = [msg EXCEPT ![p] = TRUE]
  /\ sending_queue' = [sending_queue EXCEPT ![dest] = Append(@, p)]
  /\ buf' = [buf EXCEPT ![p] = [source |-> p, body |-> body]]
  /\ AssertThat(flags[p] = {} /\ recvfrom[p] = NO_TASK)
  /\ UNCHANGED <<recvfrom, has_int_msg>>

msg_send(p, dest, body) ==
  \/ SendPanic(p, dest, body)
  \/ SendDeliver(p, dest, body)
  \/ SendBlock(p, dest, body)

-----------------------------------------------------------------------------
(***************************************************************************)
(* msg_receive: three outcomes.  body is what the receive buffer holds at  *)
(* the call.  A RECEIVE from INTERRUPT reads proc_table[INTERRUPT], which  *)
(* lies outside the table; as the callers rely on, that memory is taken    *)
(* not to look like a process sending to the caller.                       *)
(***************************************************************************)

\* A mutant of IntPending: RECEIVE ANY does not look for interrupts.
IntPendingNotAny(p, src) == has_int_msg[p] /\ src = INTERRUPT

IntPending(p, src) == has_int_msg[p] /\ src \in {ANY, INTERRUPT}

\* A mutant of From: only the head of the list is looked at.
FromHead(p, src) ==
  {q \in {sending_queue[p][i] : i \in DOMAIN sending_queue[p] \cap {1}} :
     src \in {q, ANY}}

\* The process whose message a RECEIVE from src can take now.
From(p, src) ==
  IF src = ANY
  THEN {sending_queue[p][i] : i \in DOMAIN sending_queue[p] \cap {1}}
  ELSE {q \in Procs \cap {src} : SendingTo(q, p)}

\* The list without q: the code looks for q and links its neighbours.
Unlink(list, q) ==
  LET i == CHOOSE j \in DOMAIN list : list[j] = q
  IN  IF q \in Range(list)
      THEN SubSeq(list, 1, i - 1) \o SubSeq(list, i + 1, Len(list))
      ELSE list

\* A mutant of ReceiveInt: the interrupt stays pending.
ReceiveIntAgain(p, src) ==
  /\ IntPending(p, src)
  /\ buf' = [buf EXCEPT ![p] = IntMessage]
  /\ UNCHANGED <<kernel, halt>>

\* An interrupt is pending and src admits it: it goes before any sender.
ReceiveInt(p, src) ==
  /\ IntPending(p, src)
  /\ buf' = [buf EXCEPT ![p] = IntMessage]
  /\ has_int_msg' = [has_int_msg EXCEPT ![p] = FALSE]
  /\ AssertThat(flags[p] = {} /\ ~msg[p] /\ sendto[p] = NO_TASK)
  /\ UNCHANGED <<flags, msg, recvfrom, sendto, sending_queue>>

\* What the mutants of ReceiveQueued do to the sender q but for msg.
Unblocked(q) ==
  /\ sendto' = [sendto EXCEPT ![q] = NO_TASK]
  /\ flags' = [flags EXCEPT ![q] = @ \ {SENDING}]
  /\ UNCHANGED <<recvfrom, has_int_msg, halt>>

\* A mutant of ReceiveQueued: it does not reset the sender's msg.
ReceiveQueuedKeepsMsg(p, src) ==
  /\ ~IntPending(p, src)
  /\ \E q \in From(p, src) :
       /\ sending_queue' = [sending_queue EXCEPT ![p] = Unlink(@, q)]
       /\ buf' = [buf EXCEPT ![p] = buf[q]]
       /\ Unblocked(q)
  /\ UNCHANGED msg

\* A mutant of ReceiveQueued: it unlinks the head of the list, whoever sent.
ReceiveQueuedUnlinksHead(p, src) ==
  /\ ~IntPending(p, src)
  /\ \E q \in From(p, src) :
       /\ sending_queue' = [sending_queue EXCEPT ![p] = Tail(@)]
       /\ buf' = [buf EXCEPT ![p] = buf[q]]
       /\ msg' = [msg EXCEPT ![q] = FALSE]
       /\ Unblocked(q)

\* A mutant of ReceiveQueued: it copies the message of the head of the list.
ReceiveQueuedCopiesHead(p, src) ==
  /\ ~IntPending(p, src)
  /\ \E q \in From(p, src) :
       /\ sending_queue' = [sending_queue EXCEPT ![p] = Unlink(@, q)]
       /\ buf' = [buf EXCEPT ![p] = buf[Head(sending_queue[p])]]
       /\ msg' = [msg EXCEPT ![q] = FALSE]
       /\ Unblocked(q)

\* Take the message of a blocked sender, unlink and unblock the sender.
ReceiveQueued(p, src) ==
  /\ ~IntPending(p, src)
  /\ \E q \in From(p, src) :
       /\ sending_queue' = [sending_queue EXCEPT ![p] = Unlink(@, q)]
       /\ buf' = [buf EXCEPT ![p] = buf[q]]
       /\ msg' = [msg EXCEPT ![q] = FALSE]
       /\ sendto' = [sendto EXCEPT ![q] = NO_TASK]
       /\ flags' = [flags EXCEPT ![q] = @ \ {SENDING}]
       /\ AssertThat(/\ Idle(p) /\ q \in Range(sending_queue[p])
                     /\ flags[q] = {SENDING} /\ msg[q]
                     /\ recvfrom[q] = NO_TASK /\ sendto[q] = p)
  /\ UNCHANGED <<recvfrom, has_int_msg>>

\* Nothing to take: wait.
ReceiveBlock(p, src, body) ==
  /\ ~IntPending(p, src)
  /\ From(p, src) = {}
  /\ flags' = [flags EXCEPT ![p] = @ \cup {RECEIVING}]
  /\ msg' = [msg EXCEPT ![p] = TRUE]
  /\ recvfrom' = [recvfrom EXCEPT ![p] = src]
  /\ buf' = [buf EXCEPT ![p] = [source |-> p, body |-> body]]
  /\ AssertThat(flags'[p] = {RECEIVING} /\ sendto[p] = NO_TASK
                /\ ~has_int_msg[p])
  /\ UNCHANGED <<sendto, has_int_msg, sending_queue>>

msg_receive(p, src, body) ==
  \/ ReceiveInt(p, src)
  \/ ReceiveQueued(p, src)
  \/ ReceiveBlock(p, src, body)

-----------------------------------------------------------------------------
(***************************************************************************)
(* inform_init: called by clock_handler for TASK_TTY and by hd_handler for *)
(* TASK_HD                                                                 *)
(***************************************************************************)

\* The task waits for an interrupt or for anyone: hand the message over.
InformDeliver(t) ==
  /\ AwaitsInt(t)
  /\ buf' = [buf EXCEPT ![t] = IntMessage]
  /\ msg' = [msg EXCEPT ![t] = FALSE]
  /\ has_int_msg' = [has_int_msg EXCEPT ![t] = FALSE]
  /\ flags' = [flags EXCEPT ![t] = @ \ {RECEIVING}]
  /\ recvfrom' = [recvfrom EXCEPT ![t] = NO_TASK]
  /\ AssertThat(flags'[t] = {} /\ sendto[t] = NO_TASK)
  /\ UNCHANGED <<sendto, sending_queue>>

\* The task is busy: leave the interrupt for its next RECEIVE.
InformLatch(t) ==
  /\ ~AwaitsInt(t)
  /\ has_int_msg' = [has_int_msg EXCEPT ![t] = TRUE]
  /\ UNCHANGED <<flags, msg, recvfrom, sendto, sending_queue, buf, halt>>

-----------------------------------------------------------------------------
(***************************************************************************)
(* What processes do: send_recv(), the only way they enter the kernel.     *)
(*                                                                         *)
(* The tasks that take interrupts keep a discipline.  task_tty waits only  *)
(* with RECEIVE ANY; hd.c asks TASK_SYS for the time only while no disk    *)
(* command is outstanding, so a disk interrupt neither is pending when     *)
(* such a dialogue starts nor arrives during it.  Only hd.c receives from  *)
(* INTERRUPT.                                                              *)
(***************************************************************************)

InDialogue(t) ==
  \/ both[t] # NO_TASK
  \/ RECEIVING \in flags[t] /\ recvfrom[t] \in Procs

MayTalk(p) == ~(p \in IntTasks /\ has_int_msg[p])

\* send_recv(SEND, dest, m)
Send(p, dest, body) ==
  /\ Runnable(p) /\ both[p] = NO_TASK
  /\ msg_send(p, dest, body)
  /\ UNCHANGED both

\* send_recv(BOTH, dest, m), its SEND half
SendBoth(p, dest, body) ==
  /\ Runnable(p) /\ both[p] = NO_TASK
  /\ MayTalk(p)
  /\ msg_send(p, dest, body)
  /\ both' = [both EXCEPT ![p] = dest]

\* send_recv(BOTH, dest, m), its RECEIVE half: the request is still in m
ReceiveBoth(p) ==
  /\ Runnable(p) /\ both[p] # NO_TASK
  /\ msg_receive(p, both[p], buf[p].body)
  /\ both' = [both EXCEPT ![p] = NO_TASK]

\* send_recv(RECEIVE, src, m): m is cleared first
Receive(p, src) ==
  /\ Runnable(p) /\ both[p] = NO_TASK
  /\ src \in Procs => MayTalk(p)
  /\ src = INTERRUPT => p \in IntTasks
  /\ msg_receive(p, src, ZeroBody)
  /\ UNCHANGED both

inform_init(t) ==
  /\ halt = "no"
  /\ ~InDialogue(t)
  /\ InformDeliver(t) \/ InformLatch(t)
  /\ UNCHANGED both

-----------------------------------------------------------------------------
\* kernel_main fills proc_table; a buffer is uninitialised stack memory.
Init ==
  /\ flags = [p \in Procs |-> {}]
  /\ msg = [p \in Procs |-> FALSE]
  /\ recvfrom = [p \in Procs |-> NO_TASK]
  /\ sendto = [p \in Procs |-> NO_TASK]
  /\ has_int_msg = [p \in Procs |-> FALSE]
  /\ sending_queue = [p \in Procs |-> <<>>]
  /\ buf = [p \in Procs |-> [source |-> NO_TASK, body |-> ZeroBody]]
  /\ both = [p \in Procs |-> NO_TASK]
  /\ halt = "no"

Next ==
  \/ \E p \in Procs : \E dest \in Procs \ {p}, body \in Bodies :
       Send(p, dest, body) \/ SendBoth(p, dest, body)
  \/ \E p \in Procs : \E src \in Sources \ {p} : Receive(p, src)
  \/ \E p \in Procs : ReceiveBoth(p)
  \/ \E t \in IntTasks : inform_init(t)

Spec == Init /\ [][Next]_vars

-----------------------------------------------------------------------------
(***************************************************************************)
(* Properties                                                              *)
(***************************************************************************)

\* The type of the kernel's and the processes' state.
TypeOK ==
  /\ flags \in [Procs -> SUBSET {SENDING, RECEIVING}]
  /\ msg \in [Procs -> BOOLEAN]
  /\ recvfrom \in [Procs -> Sources \cup {NO_TASK}]
  /\ sendto \in [Procs -> Procs \cup {NO_TASK}]
  /\ has_int_msg \in [Procs -> BOOLEAN]
  /\ sending_queue \in [Procs -> Seq(Procs)]
  /\ buf \in [Procs -> Message]
  /\ both \in [Procs -> Procs \cup {NO_TASK}]
  /\ halt \in {"no", "assert", "panic"}

\* No assert() of msg_send, msg_receive or inform_init ever fails.
AssertsHold == halt # "assert"

\* The linked list of q holds exactly the processes blocked in a SEND to q,
\* each of them once: msg_receive never leaves a sender behind in a list
\* after unblocking it, and never loses one when it unlinks another.
QueueHoldsSenders ==
  \A q \in Procs :
    /\ Range(sending_queue[q]) = {p \in Procs : SendingTo(p, q)}
    /\ IsInjective(sending_queue[q])

\* A rendezvous is never missed: there is no receiver blocked for a message
\* that a sender blocked on it offers.
NoMissedRendezvous ==
  \A p, q \in Procs : ~(SendingTo(p, q) /\ Awaits(q, p))

\* No task sleeps on an interrupt that has already been signalled.
NoMissedInterrupt ==
  \A t \in Procs : ~(AwaitsInt(t) /\ has_int_msg[t])

\* The graph of blocked sends has no cycle, so that the loop of deadlock(),
\* which follows sendto until it meets a process that is not SENDING, ends.
SendGraphAcyclic ==
  \A T \in SUBSET Procs :
    T # {} => \E p \in T : ~(SENDING \in flags[p] /\ sendto[p] \in T)

\* A process leaves RECEIVING only in a step that puts into its buffer a
\* message of a source it was waiting for, and the message of a process is
\* the one that process has just sent.
WakeStep ==
  \A q \in Procs :
    RECEIVING \in flags[q] /\ RECEIVING \notin flags'[q] =>
      LET s == buf'[q].source
      IN  /\ recvfrom[q] \in {s, ANY}
          /\ \/ s = INTERRUPT /\ buf'[q].body = HARDWARE_INT
             \/ s \in Procs /\ buf'[q] = buf'[s]

WakesWithItsMessage == [][WakeStep]_vars

\* A process leaves SENDING only in a step in which the process it was
\* sending to takes the very message it offered, and that process takes no
\* other sender's message in the step.
DeliverStep ==
  \A p \in Procs :
    SENDING \in flags[p] /\ SENDING \notin flags'[p] =>
      /\ buf'[sendto[p]] = buf[p] /\ buf[p].source = p
      /\ \A r \in Procs \ {p} : SENDING \in flags[r] => SENDING \in flags'[r]

DeliveredOnce == [][DeliverStep]_vars

\* Senders keep their turn: while two processes stay blocked on q, the one
\* that came first stays ahead, and a new sender goes behind all of them.
TurnStep ==
  \A q \in Procs :
    LET old == sending_queue[q]
        new == sending_queue'[q]
    IN  \A i, j \in DOMAIN new :
          new[j] \in Range(old) /\ i < j =>
            \E k, l \in DOMAIN old : old[k] = new[i] /\ old[l] = new[j] /\ k < l

SendersKeepTurn == [][TurnStep]_vars

\* The implementation of sendrec() by flags, lists and asserts keeps the
\* promise of Rendezvous: sendto and recvfrom alone tell who waits for whom.
Abstract == INSTANCE Rendezvous WITH
  offer <- sendto, want <- recvfrom, irq <- has_int_msg

ImplementsRendezvous == Abstract!Spec
=============================================================================

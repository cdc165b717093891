------------------------------- MODULE IpcIrq -------------------------------
(***************************************************************************)
(* sendrec() with interrupts enabled, kernel/proc.c and kernel/clock.c.    *)
(*                                                                         *)
(* sys_call (kernel.asm) executes sti before it calls sys_sendrec(), and   *)
(* nothing in proc.c disables interrupts again.  While a key is waiting    *)
(* each clock interrupt calls inform_init(TASK_TTY), and the interrupt     *)
(* that ends a disk command calls inform_init(TASK_HD), between any two    *)
(* statements of msg_send() and msg_receive().  Here the system calls of   *)
(* task_tty, of its clients and of task_hd are cut into the steps between  *)
(* which an interrupt makes a difference; IPC is the same code             *)
(* uninterrupted.                                                          *)
(***************************************************************************)
EXTENDS IPC

CONSTANTS TTY, HD   \* TASK_TTY and TASK_HD

ASSUME TTYAssumption == {TTY, HD} \subseteq IntTasks /\ TTY # HD

VARIABLES
  call,         \* the system call in progress, if any
  handling,     \* task_tty has returned from RECEIVE and looks at the message
  key_pressed,  \* set by keyboard_handler, cleared by task_tty
  hd_pc,        \* where task_hd is: "ready" for a command, or having "issued"
                \* one, or "waiting" for its interrupt
  disk_busy     \* the drive has still to raise that interrupt

tty_state  == <<handling, key_pressed>>
disk_state == <<hd_pc, disk_busy>>
ivars == <<vars, call, tty_state, disk_state>>

Clients == Procs \ {TTY, HD}
NoCall  == [who |-> NO_TASK, other |-> NO_TASK, pc |-> "none"]

At(pc)   == halt = "no" /\ call.pc = pc
Goto(pc) == call' = [call EXCEPT !.pc = pc]
Return   == call' = NoCall

IInit ==
  /\ Init
  /\ call = NoCall
  /\ handling = FALSE
  /\ key_pressed = FALSE
  /\ hd_pc = "ready" /\ disk_busy = FALSE

-----------------------------------------------------------------------------
(***************************************************************************)
(* The processes enter the kernel when no system call is in progress       *)
(***************************************************************************)

\* sys_sendrec stores the caller into the message before it goes on.
Enter(p, other, body, pc) ==
  /\ call = NoCall /\ Runnable(p)
  /\ buf' = [buf EXCEPT ![p] = [source |-> p, body |-> body]]
  /\ call' = [who |-> p, other |-> other, pc |-> pc]
  /\ UNCHANGED <<kernel, halt>>

\* A client asks the terminal for something: send_recv(BOTH, TASK_TTY, m).
ClientSend(p, body) ==
  /\ both[p] = NO_TASK
  /\ Enter(p, TTY, body, "send")
  /\ both' = [both EXCEPT ![p] = TTY]
  /\ UNCHANGED <<tty_state, disk_state>>

ClientReceive(p) ==
  /\ both[p] # NO_TASK
  /\ Enter(p, both[p], buf[p].body, "recv")
  /\ both' = [both EXCEPT ![p] = NO_TASK]
  /\ UNCHANGED <<tty_state, disk_state>>

\* The loop of task_tty: RECEIVE ANY ...
TtyReceive ==
  /\ ~handling
  /\ Enter(TTY, ANY, ZeroBody, "recv")
  /\ handling' = TRUE
  /\ UNCHANGED <<both, key_pressed, disk_state>>

\* ... and then either note the key, or serve and answer the client.
TtyKey ==
  /\ call = NoCall /\ Runnable(TTY) /\ handling
  /\ buf[TTY].source = INTERRUPT
  /\ key_pressed' = FALSE
  /\ handling' = FALSE
  /\ UNCHANGED <<vars, call, disk_state>>

TtyAnswer ==
  /\ handling /\ buf[TTY].source \in Clients
  /\ Enter(TTY, buf[TTY].source, buf[TTY].body, "send")
  /\ handling' = FALSE
  /\ UNCHANGED <<both, key_pressed, disk_state>>

\* task_hd gives the drive something to do, which ends with an interrupt: a
\* command, or the next sector of one ...
HdCommand ==
  /\ call = NoCall /\ Runnable(HD) /\ hd_pc = "ready"
  /\ hd_pc' = "issued" /\ disk_busy' = TRUE
  /\ UNCHANGED <<vars, call, tty_state>>

\* ... waits for that in interrupt_wait() ...
HdWait ==
  /\ hd_pc = "issued"
  /\ Enter(HD, INTERRUPT, ZeroBody, "recv")
  /\ hd_pc' = "waiting"
  /\ UNCHANGED <<both, tty_state, disk_busy>>

\* ... and goes on.
HdReturns ==
  /\ call = NoCall /\ Runnable(HD) /\ hd_pc = "waiting"
  /\ hd_pc' = "ready"
  /\ UNCHANGED <<vars, call, tty_state, disk_busy>>

-----------------------------------------------------------------------------
(***************************************************************************)
(* msg_send                                                                *)
(***************************************************************************)

\* deadlock(), then: is dest waiting for this message?  If not, nothing an
\* interrupt does to dest matters any more: the sender queues up and blocks.
SendTest ==
  LET p == call.who
      dest == call.other
  IN  /\ At("send")
      /\ \/ /\ deadlock(p, dest) \/ Awaits(dest, p)
            /\ halt' = IF deadlock(p, dest) THEN "panic" ELSE halt
            /\ Goto("pmsg")
            /\ UNCHANGED <<kernel, buf>>
         \/ SendBlock(p, dest, buf[p].body) /\ Goto("asleep")

\* assert(pdest->msg)
SendAssert ==
  /\ At("pmsg") /\ Goto("copy")
  /\ AssertThat(msg[call.other])
  /\ UNCHANGED <<kernel, buf>>

\* phys_copy to pdest->msg; if that is 0 by now, to address 0.
SendCopy ==
  /\ At("copy") /\ Goto("msg0")
  /\ buf' = IF msg[call.other] THEN [buf EXCEPT ![call.other] = buf[call.who]] ELSE buf
  /\ UNCHANGED <<kernel, halt>>

SendClearMsg ==
  /\ At("msg0") /\ Goto("flags0")
  /\ msg' = [msg EXCEPT ![call.other] = FALSE]
  /\ UNCHANGED <<flags, recvfrom, sendto, has_int_msg, sending_queue, buf, halt>>

SendClearFlags ==
  /\ At("flags0") /\ Goto("recvfrom0")
  /\ flags' = [flags EXCEPT ![call.other] = @ \ {RECEIVING}]
  /\ UNCHANGED <<msg, recvfrom, sendto, has_int_msg, sending_queue, buf, halt>>

SendClearFrom ==
  /\ At("recvfrom0") /\ Goto("sent")
  /\ recvfrom' = [recvfrom EXCEPT ![call.other] = NO_TASK]
  /\ UNCHANGED <<flags, msg, sendto, has_int_msg, sending_queue, buf, halt>>

\* unblock(pdest), the asserts on both, return.
SendDone ==
  /\ At("sent") /\ Return
  /\ AssertThat(Idle(call.other) /\ Idle(call.who))
  /\ UNCHANGED <<kernel, buf>>

msg_send_steps ==
  \/ SendTest \/ SendAssert \/ SendCopy
  \/ SendClearMsg \/ SendClearFlags \/ SendClearFrom \/ SendDone

-----------------------------------------------------------------------------
(***************************************************************************)
(* msg_receive                                                             *)
(***************************************************************************)

RecvTest ==
  /\ At("recv")
  /\ Goto(IF IntPending(call.who, call.other) THEN "int" ELSE "look")
  /\ UNCHANGED <<kernel, buf, halt>>

RecvInt ==
  /\ At("int") /\ Goto("int0")
  /\ buf' = [buf EXCEPT ![call.who] = IntMessage]
  /\ UNCHANGED <<kernel, halt>>

RecvIntDone ==
  /\ At("int0") /\ Return
  /\ has_int_msg' = [has_int_msg EXCEPT ![call.who] = FALSE]
  /\ AssertThat(/\ flags[call.who] = {} /\ ~msg[call.who]
                /\ sendto[call.who] = NO_TASK)
  /\ UNCHANGED <<flags, msg, recvfrom, sendto, sending_queue, buf>>

\* Look for a sender.  An interrupt touches neither the list of the caller nor
\* a process that is SENDING, so taking its message is one step.
RecvLook ==
  LET p == call.who
  IN  /\ At("look")
      /\ \/ /\ \E q \in From(p, call.other) :
                 /\ sending_queue' = [sending_queue EXCEPT ![p] = Unlink(@, q)]
                 /\ buf' = [buf EXCEPT ![p] = buf[q]]
                 /\ msg' = [msg EXCEPT ![q] = FALSE]
                 /\ sendto' = [sendto EXCEPT ![q] = NO_TASK]
                 /\ flags' = [flags EXCEPT ![q] = @ \ {SENDING}]
                 /\ AssertThat(Idle(p) /\ flags[q] = {SENDING} /\ msg[q]
                               /\ recvfrom[q] = NO_TASK /\ sendto[q] = p)
            /\ UNCHANGED <<recvfrom, has_int_msg>>
            /\ Return
         \/ /\ From(p, call.other) = {}
            /\ Goto("flags1")
            /\ UNCHANGED <<kernel, buf, halt>>

RecvSetFlags ==
  /\ At("flags1") /\ Goto("msg1")
  /\ flags' = [flags EXCEPT ![call.who] = @ \cup {RECEIVING}]
  /\ UNCHANGED <<msg, recvfrom, sendto, has_int_msg, sending_queue, buf, halt>>

RecvSetMsg ==
  /\ At("msg1") /\ Goto("recvfrom1")
  /\ msg' = [msg EXCEPT ![call.who] = TRUE]
  /\ UNCHANGED <<flags, recvfrom, sendto, has_int_msg, sending_queue, buf, halt>>

RecvSetFrom ==
  /\ At("recvfrom1") /\ Goto("block")
  /\ recvfrom' = [recvfrom EXCEPT ![call.who] = call.other]
  /\ UNCHANGED <<flags, msg, sendto, has_int_msg, sending_queue, buf, halt>>

\* block(): assert(p->flags); then schedule().
Block ==
  /\ At("block") /\ Goto("asleep")
  /\ AssertThat(flags[call.who] # {})
  /\ UNCHANGED <<kernel, buf>>

\* A mutant of Asleep: without the asserts.
AsleepUnchecked ==
  /\ At("asleep") /\ Return
  /\ UNCHANGED <<kernel, buf, halt>>

\* After schedule(), the asserts at the end of msg_send and msg_receive.
Asleep ==
  LET p == call.who
  IN  /\ At("asleep") /\ Return
      /\ AssertThat(\/ flags[p] = {SENDING} /\ msg[p] /\ recvfrom[p] = NO_TASK
                       /\ sendto[p] = call.other
                    \/ flags[p] = {RECEIVING} /\ msg[p] /\ recvfrom[p] # NO_TASK
                       /\ sendto[p] = NO_TASK /\ ~has_int_msg[p])
      /\ UNCHANGED <<kernel, buf>>

msg_receive_steps ==
  \/ RecvTest \/ RecvInt \/ RecvIntDone \/ RecvLook
  \/ RecvSetFlags \/ RecvSetMsg \/ RecvSetFrom \/ Block \/ Asleep

KernelStep ==
  /\ msg_send_steps \/ msg_receive_steps
  /\ UNCHANGED <<both, tty_state, disk_state>>

-----------------------------------------------------------------------------
(***************************************************************************)
(* Interrupts                                                              *)
(***************************************************************************)

\* keyboard_handler
KeyPressed ==
  /\ halt = "no"
  /\ key_pressed' = TRUE
  /\ UNCHANGED <<vars, call, handling, disk_state>>

\* inform_init: p->msg->type and source go to address 0 if p->msg is 0.
InformWakes(t) ==
  /\ AwaitsInt(t)
  /\ buf' = IF msg[t] THEN [buf EXCEPT ![t] = IntMessage] ELSE buf
  /\ msg' = [msg EXCEPT ![t] = FALSE]
  /\ has_int_msg' = [has_int_msg EXCEPT ![t] = FALSE]
  /\ flags' = [flags EXCEPT ![t] = @ \ {RECEIVING}]
  /\ recvfrom' = [recvfrom EXCEPT ![t] = NO_TASK]
  /\ AssertThat(flags'[t] = {} /\ sendto[t] = NO_TASK)
  /\ UNCHANGED <<sendto, sending_queue>>

\* clock_handler, as far as it touches the terminal.
ClockInforms ==
  /\ halt = "no" /\ key_pressed
  /\ InformWakes(TTY) \/ InformLatch(TTY)
  /\ UNCHANGED <<both, call, tty_state, disk_state>>

\* hd_handler
DiskInforms ==
  /\ halt = "no" /\ disk_busy
  /\ disk_busy' = FALSE
  /\ InformWakes(HD) \/ InformLatch(HD)
  /\ UNCHANGED <<both, call, tty_state, hd_pc>>

-----------------------------------------------------------------------------
ProcessStep ==
  \/ \E p \in Clients : ClientReceive(p) \/ \E body \in Bodies : ClientSend(p, body)
  \/ TtyReceive \/ TtyKey \/ TtyAnswer
  \/ HdCommand \/ HdWait \/ HdReturns

INext == ProcessStep \/ KernelStep \/ KeyPressed \/ ClockInforms \/ DiskInforms

(***************************************************************************)
(* The processor finishes the system call it is in; a runnable task runs   *)
(* (Sched); the clock, which is asynchronous to the processes, does not    *)
(* strike inside a system call every time; the drive ends its commands.    *)
(***************************************************************************)
IFairness ==
  /\ WF_ivars(KernelStep)
  /\ SF_ivars(TtyReceive \/ TtyKey \/ TtyAnswer)
  /\ \A p \in Clients : SF_ivars(ClientReceive(p))
  /\ SF_ivars(ClockInforms /\ call = NoCall)
  /\ SF_ivars(HdWait \/ HdReturns)
  /\ WF_ivars(DiskInforms)

ISpec == IInit /\ [][INext]_ivars /\ IFairness

-----------------------------------------------------------------------------
(***************************************************************************)
(* Properties                                                              *)
(***************************************************************************)

\* Whatever interrupts came during a system call, when it has returned and the
\* machine still runs, the tables are those of uninterrupted calls: the lists
\* hold the blocked senders, no matching pair is blocked, and neither the terminal
\* nor the disk task sleeps on a signalled interrupt.
RestConsistent ==
  call = NoCall /\ halt = "no" =>
    /\ QueueHoldsSenders /\ NoMissedRendezvous /\ NoMissedInterrupt
    /\ \A p \in Procs :
         /\ flags[p] = {} => Idle(p)
         /\ RECEIVING \in flags[p] => msg[p] /\ recvfrom[p] # NO_TASK

\* A key is seen, and so is the end of a disk command, unless an assertion stops
\* the machine.  The terminal task clears key_pressed after every key, even when
\* the interrupt that first announced it was overwritten, because the clock
\* informs the task again.  The drive interrupts once: task_hd returns from its
\* RECEIVE however the statements of msg_receive and the interrupt interleave.
InterruptsSeen ==
  /\ key_pressed ~> (~key_pressed \/ halt # "no")
  /\ hd_pc = "issued" ~> (hd_pc = "ready" \/ halt # "no")
=============================================================================

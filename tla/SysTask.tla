------------------------------ MODULE SysTask ------------------------------
(***************************************************************************)
(* The system task and its clients, composed over IPC: task_sys() in       *)
(* kernel/systask.c serves get_ticks() (kernel/main.c) and getpid()        *)
(* (lib/getpid.c), each of which is a send_recv(BOTH) to TASK_SYS; the     *)
(* clock keeps advancing ticks (kernel/clock.c).                           *)
(*                                                                         *)
(* A message body is a record [type, val]; val stands for RETVAL and PID.  *)
(***************************************************************************)
EXTENDS IPC

CONSTANTS
  SYS,         \* TASK_SYS
  MAX_TICKS,   \* ticks starts again from 0 here
  NoVal        \* the contents of a field nobody has set

ASSUME SysAssumption ==
  /\ SYS \in Procs /\ MAX_TICKS \in Nat \ {0}
  /\ Bodies = [type : {"GET_TICKS", "GET_PID", "SYSCALL_RET"},
               val  : Procs \cup 0 .. MAX_TICKS - 1 \cup {NoVal}]

VARIABLES
  ticks,      \* clock interrupts so far
  received,   \* task_sys holds a message it has not answered
  asked,      \* the request a client waits for, or "none"
  seen        \* the values ticks has had since the client called

svars == <<vars, ticks, received, asked, seen>>

Clients == Procs \ {SYS}

SInit ==
  /\ Init
  /\ ticks = 0
  /\ received = FALSE
  /\ asked = [p \in Clients |-> "none"]
  /\ seen = [p \in Clients |-> {}]

-----------------------------------------------------------------------------
\* The client enters get_ticks() or getpid() and sends its request.
Call(p, type) ==
  /\ asked[p] = "none"
  /\ SendBoth(p, SYS, [type |-> type, val |-> NoVal])
  /\ asked' = [asked EXCEPT ![p] = type]
  /\ seen' = [seen EXCEPT ![p] = {ticks}]
  /\ UNCHANGED <<ticks, received>>

\* The RECEIVE half of BOTH.
AwaitReply(p) ==
  /\ ReceiveBoth(p)
  /\ UNCHANGED <<ticks, received, asked, seen>>

\* The call returns what its message holds; getpid() asserts its type first.
Return(p) ==
  /\ asked[p] # "none" /\ Runnable(p) /\ both[p] = NO_TASK
  /\ AssertThat(asked[p] = "GET_PID" => buf[p].body.type = "SYSCALL_RET")
  /\ asked' = [asked EXCEPT ![p] = "none"]
  /\ seen' = [seen EXCEPT ![p] = {}]
  /\ UNCHANGED <<kernel, buf, both, ticks, received>>

\* task_sys: send_recv(RECEIVE, ANY, &msg)
TakeRequest ==
  /\ ~received
  /\ Receive(SYS, ANY)
  /\ received' = TRUE
  /\ UNCHANGED <<ticks, asked, seen>>

\* Mutants of Reply: GET_PID keeps its type; and is answered with TASK_SYS.
ReplyKeepsType(src, type) ==
  [type |-> type, val |-> IF type = "GET_TICKS" THEN ticks ELSE src]
ReplyOwnPid(src, type) ==
  IF type = "GET_TICKS" THEN [type |-> type, val |-> ticks]
                        ELSE [type |-> "SYSCALL_RET", val |-> SYS]

\* What task_sys writes into the message it has received from src.
Reply(src, type) ==
  IF type = "GET_TICKS" THEN [type |-> type, val |-> ticks]
                        ELSE [type |-> "SYSCALL_RET", val |-> src]

\* A mutant of Serve: only GET_TICKS is answered.
ServeTicksOnly ==
  LET m == buf[SYS]
  IN  /\ received /\ Runnable(SYS)
      /\ IF m.body.type = "GET_TICKS"
         THEN \E src \in {m.source} : Send(SYS, src, Reply(src, m.body.type))
         ELSE UNCHANGED vars
      /\ received' = FALSE
      /\ UNCHANGED <<ticks, asked, seen>>

\* task_sys: the switch, and send_recv(SEND, src, &msg)
Serve ==
  LET m == buf[SYS]
  IN  /\ received
      /\ \E src \in {m.source} : Send(SYS, src, Reply(src, m.body.type))
      /\ received' = FALSE
      /\ UNCHANGED <<ticks, asked, seen>>

\* clock_handler: if (++ticks >= MAX_TICKS) ticks = 0;
Tick ==
  /\ halt = "no"
  /\ ticks' = IF ticks + 1 >= MAX_TICKS THEN 0 ELSE ticks + 1
  /\ seen' = [p \in Clients |-> IF asked[p] = "none" THEN seen[p]
                                ELSE seen[p] \cup {ticks'}]
  /\ UNCHANGED <<vars, received, asked>>

SNext ==
  \/ \E p \in Clients :
       \/ \E type \in {"GET_TICKS", "GET_PID"} : Call(p, type)
       \/ AwaitReply(p)
       \/ Return(p)
  \/ TakeRequest \/ Serve
  \/ Tick

\* A runnable process runs (Sched); clients need never call.
SFairness ==
  /\ WF_svars(TakeRequest \/ Serve)
  /\ \A p \in Clients : WF_svars(AwaitReply(p) \/ Return(p))

SSpec == SInit /\ [][SNext]_svars /\ SFairness

-----------------------------------------------------------------------------
\* A reply answers the caller's own request, however the requests of several
\* clients interleave in the one message buffer of task_sys: getpid() returns
\* the caller, and get_ticks() a value ticks had between the call and the
\* return.
AnswerStep ==
  \A p \in Clients :
    asked[p] # "none" /\ asked'[p] = "none" =>
      IF asked[p] = "GET_PID" THEN buf[p].body.val = p
                              ELSE buf[p].body.val \in seen[p]

RightAnswer == [][AnswerStep]_svars

\* Neither an assert() nor the panic of deadlock() ever stops the dialogue of
\* the system task with its clients.
NeverHalts == halt = "no"

\* Every call returns: no client waits for ever, whoever else calls.
CallsReturn == \A p \in Clients : asked[p] # "none" ~> asked[p] = "none"
=============================================================================

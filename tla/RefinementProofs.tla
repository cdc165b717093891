-------------------------- MODULE RefinementProofs --------------------------
(***************************************************************************)
(* From a dialogue to an abstract rendezvous, for any set of processes:    *)
(* what a step of IPC may do, that IPC implements Rendezvous, and that     *)
(* the dialogue of SysTask is made of steps of IPC, never stops the        *)
(* machine, and gives every client the answer to its own request.          *)
(***************************************************************************)
EXTENDS SysTask, IPCProofs

(***************************************************************************)
(* What a step may do                                                      *)
(***************************************************************************)

\* A leaf is left to Zenon unless it says SMT (arithmetic, records).
USE Zenon

\* A step of IPC is a call of msg_send, of msg_receive or of inform_init.
LEMMA NextCalls ==
  ASSUME IInv, Next
  PROVE  \/ \E p \in Procs : \E dest \in Procs \ {p}, body \in Bodies :
              Runnable(p) /\ msg_send(p, dest, body)
         \/ \E p \in Procs : \E src \in Sources \ {p}, body \in Bodies \cup {ZeroBody} :
              Runnable(p) /\ msg_receive(p, src, body)
         \/ \E t \in IntTasks : inform_init(t)
<1>1. ASSUME NEW p \in Procs, NEW dest \in Procs \ {p}, NEW body \in Bodies,
             Send(p, dest, body) \/ SendBoth(p, dest, body)
      PROVE  Runnable(p) /\ msg_send(p, dest, body)
  BY <1>1, SendStep
<1>2. ASSUME NEW p \in Procs,
             ReceiveBoth(p) \/ \E src \in Sources \ {p} : Receive(p, src)
      PROVE  \E src \in Sources \ {p}, body \in Bodies \cup {ZeroBody} :
               Runnable(p) /\ msg_receive(p, src, body)
  BY <1>2, ReceiveStep
<1> QED
  BY <1>1, <1>2 DEF Next

\* Setting a flag of one process clears no flag of any; clearing one clears no
\* other.
LEMMA FlagChange ==
  ASSUME NEW f \in [Procs -> SUBSET {SENDING, RECEIVING}], NEW x, NEW g, NEW h,
         NEW y \in Procs, h \in f[y]
  PROVE  /\ h \in [f EXCEPT ![x] = @ \cup {g}][y]
         /\ h \notin [f EXCEPT ![x] = @ \ {g}][y] => y = x /\ h = g
BY DEF SENDING, RECEIVING

\* A process wakes from RECEIVE with a message it asked for in its buffer.
THEOREM WakesRight == Spec => WakesWithItsMessage
<1>1. IInv /\ [Next]_vars => [WakeStep]_vars
  <2> SUFFICES ASSUME IInv, Next, NEW q \in Procs,
                      RECEIVING \in flags[q], RECEIVING \notin flags'[q]
               PROVE  /\ recvfrom[q] \in {buf'[q].source, ANY}
                      /\ \/ buf'[q].source = INTERRUPT /\ buf'[q].body = HARDWARE_INT
                         \/ buf'[q].source \in Procs /\ buf'[q] = buf'[buf'[q].source]
    BY DEF WakeStep
  <2>0. flags \in [Procs -> SUBSET {SENDING, RECEIVING}] /\ SENDING # RECEIVING
    BY DEF IInv, TypeOK, SENDING, RECEIVING
  <2>1. ASSUME NEW p \in Procs, NEW dest \in Procs \ {p}, NEW body \in Bodies,
               msg_send(p, dest, body)
        PROVE  /\ recvfrom[q] \in {buf'[q].source, ANY}
               /\ buf'[q].source \in Procs /\ buf'[q] = buf'[buf'[q].source]
    <3>1. SendDeliver(p, dest, body) /\ q = dest
      <4>1. ~SendPanic(p, dest, body)
        BY DEF SendPanic, kernel
      <4>2. ~SendBlock(p, dest, body)
        BY <2>0, FlagChange, SMT DEF SendBlock
      <4>3. SendDeliver(p, dest, body) => q = dest
        BY <2>0, FlagChange DEF SendDeliver
      <4> QED
        BY <2>1, <4>1, <4>2, <4>3 DEF msg_send
    <3>2. buf'[q] = [source |-> p, body |-> body] /\ buf'[p] = buf'[q]
      BY <3>1 DEF IInv, TypeOK, SendDeliver
    <3> QED
      BY <3>1, <3>2, SMT DEF SendDeliver, Awaits
  <2>2. ASSUME NEW p \in Procs, NEW src \in Sources \ {p},
               NEW body \in Bodies \cup {ZeroBody}, msg_receive(p, src, body)
        PROVE  FALSE
    <3>1. ~ReceiveInt(p, src) /\ ~ReceiveBlock(p, src, body)
      <4>1. ~ReceiveInt(p, src)
        BY DEF ReceiveInt
      <4>2. ~ReceiveBlock(p, src, body)
        BY <2>0, FlagChange, SMT DEF ReceiveBlock
      <4> QED
        BY <4>1, <4>2
    <3>2. ~ReceiveQueued(p, src)
      <4> SUFFICES ASSUME NEW x \in From(p, src),
                          flags' = [flags EXCEPT ![x] = @ \ {SENDING}]
                   PROVE  FALSE
        BY DEF ReceiveQueued
      <4> QED
        BY <2>0, FlagChange
    <3> QED
      BY <2>2, <3>1, <3>2 DEF msg_receive
  <2>3. ASSUME NEW t \in IntTasks, inform_init(t)
        PROVE  /\ recvfrom[q] \in {buf'[q].source, ANY}
               /\ buf'[q].source = INTERRUPT /\ buf'[q].body = HARDWARE_INT
    <3>1. InformDeliver(t) /\ q = t
      BY <2>0, <2>3, FlagChange DEF inform_init, InformDeliver, InformLatch
    <3>2. buf'[q] = IntMessage
      BY <3>1 DEF IInv, TypeOK, InformDeliver
    <3>3. recvfrom[q] \in {INTERRUPT, ANY}
      BY <3>1 DEF InformDeliver, AwaitsInt
    <3> QED
      BY <3>2, <3>3, SMT DEF IntMessage
  <2> QED
    BY <2>1, <2>2, <2>3, NextCalls
<1> QED
  BY <1>1, Inductive, PTL DEF Spec, WakesWithItsMessage

\* A blocked send ends exactly when its message is taken by its destination.
THEOREM DeliveredRight == Spec => DeliveredOnce
<1>1. IInv /\ [Next]_vars => [DeliverStep]_vars
  <2> SUFFICES ASSUME IInv, Next, NEW p \in Procs,
                      SENDING \in flags[p], SENDING \notin flags'[p]
               PROVE  /\ buf'[sendto[p]] = buf[p] /\ buf[p].source = p
                      /\ \A r \in Procs \ {p} :
                           SENDING \in flags[r] => SENDING \in flags'[r]
    BY DEF DeliverStep
  <2>0. flags \in [Procs -> SUBSET {SENDING, RECEIVING}] /\ SENDING # RECEIVING
    BY DEF IInv, TypeOK, SENDING, RECEIVING
  <2>1. ASSUME NEW x \in Procs, NEW dest \in Procs \ {x}, NEW body \in Bodies,
               msg_send(x, dest, body)
        PROVE  FALSE
    <3>1. ~SendPanic(x, dest, body)
      BY DEF SendPanic, kernel
    <3>2. ~SendBlock(x, dest, body)
      BY <2>0, FlagChange, SMT DEF SendBlock
    <3>3. ~SendDeliver(x, dest, body)
      BY <2>0, FlagChange, SMT DEF SendDeliver
    <3> QED
      BY <2>1, <3>1, <3>2, <3>3 DEF msg_send
  <2>2. ASSUME NEW x \in Procs, NEW src \in Sources \ {x},
               NEW body \in Bodies \cup {ZeroBody}, msg_receive(x, src, body)
        PROVE  /\ buf'[sendto[p]] = buf[p] /\ buf[p].source = p
               /\ \A r \in Procs \ {p} : SENDING \in flags[r] => SENDING \in flags'[r]
    <3>1. ReceiveQueued(x, src)
      <4>1. ~ReceiveInt(x, src)
        BY DEF ReceiveInt
      <4>2. ~ReceiveBlock(x, src, body)
        BY <2>0, FlagChange, SMT DEF ReceiveBlock
      <4> QED
        BY <2>2, <4>1, <4>2 DEF msg_receive
    <3>2. PICK q \in From(x, src) : /\ buf' = [buf EXCEPT ![x] = buf[q]]
                                    /\ flags' = [flags EXCEPT ![q] = @ \ {SENDING}]
      BY <3>1 DEF ReceiveQueued
    <3>3. q \in Procs /\ SendingTo(q, x)
      BY FromSends
    <3>4. q = p /\ sendto[p] = x
      BY <2>0, <3>2, <3>3, FlagChange DEF SendingTo
    <3>5. buf'[x] = buf[p] /\ buf[p].source = p
      BY <3>2, <3>4 DEF IInv, TypeOK, CallInv
    <3>6. ASSUME NEW r \in Procs \ {p}, SENDING \in flags[r] PROVE SENDING \in flags'[r]
      BY <2>0, <3>2, <3>4, <3>6, FlagChange
    <3> QED
      BY <3>4, <3>5, <3>6
  <2>3. ASSUME NEW t \in IntTasks, inform_init(t)
        PROVE  FALSE
    <3>1. ~InformDeliver(t)
      BY <2>0, FlagChange, SMT DEF InformDeliver
    <3>2. ~InformLatch(t)
      BY DEF InformLatch
    <3> QED
      BY <2>3, <3>1, <3>2 DEF inform_init
  <2> QED
    BY <2>1, <2>2, <2>3, NextCalls
<1> QED
  BY <1>1, Inductive, PTL DEF Spec, DeliveredOnce

\* A sender keeps its place in the list until its own message is taken.
THEOREM TurnsKept == Spec => SendersKeepTurn
<1>1. IInv /\ [Next]_vars => [TurnStep]_vars
  <2> SUFFICES ASSUME IInv, Next PROVE TurnStep
    OBVIOUS
  <2> SUFFICES ASSUME NEW q \in Procs,
                      NEW i \in DOMAIN sending_queue'[q],
                      NEW j \in DOMAIN sending_queue'[q],
                      sending_queue'[q][j] \in Range(sending_queue[q]), i < j
               PROVE  \E k, l \in DOMAIN sending_queue[q] :
                        /\ sending_queue[q][k] = sending_queue'[q][i]
                        /\ sending_queue[q][l] = sending_queue'[q][j] /\ k < l
    BY SMT DEF TurnStep
  <2> DEFINE Goal == \E k, l \in DOMAIN sending_queue[q] :
                       /\ sending_queue[q][k] = sending_queue'[q][i]
                       /\ sending_queue[q][l] = sending_queue'[q][j] /\ k < l
  <2>0. CASE sending_queue'[q] = sending_queue[q]
    BY <2>0
  <2>1. sending_queue \in [Procs -> Seq(Procs)]
    BY DEF IInv, TypeOK
  <2>2. ASSUME NEW p \in Procs, NEW dest \in Procs \ {p}, NEW body \in Bodies,
               Runnable(p), msg_send(p, dest, body)
        PROVE  Goal
    <3>1. CASE SendBlock(p, dest, body) /\ q = dest
      <4>1. sending_queue'[q] = Append(sending_queue[q], p)
        BY <2>1, <3>1 DEF SendBlock
      <4>2. p \notin Range(sending_queue[q])
        BY <2>2, CallerIdle DEF IInv, QueueHoldsSenders, SendingTo
      <4>3. sending_queue[q] \in Seq(Procs)
        BY <2>1
      <4>4. /\ DOMAIN sending_queue'[q] = 1 .. Len(sending_queue[q]) + 1
            /\ DOMAIN sending_queue[q] = 1 .. Len(sending_queue[q])
            /\ Len(sending_queue[q]) \in Nat
            /\ \A m \in 1 .. Len(sending_queue[q]) :
                 sending_queue'[q][m] = sending_queue[q][m]
            /\ sending_queue'[q][Len(sending_queue[q]) + 1] = p
        BY <4>1, <4>3, SMT
      <4> QED
        BY <4>2, <4>4, SMT
    <3>2. CASE ~(SendBlock(p, dest, body) /\ q = dest)
      BY <2>0, <2>1, <2>2, <3>2 DEF msg_send, SendPanic, SendDeliver, SendBlock, kernel
    <3> QED
      BY <3>1, <3>2
  <2>3. ASSUME NEW p \in Procs, NEW src \in Sources \ {p},
               NEW body \in Bodies \cup {ZeroBody}, msg_receive(p, src, body)
        PROVE  Goal
    <3>1. CASE ReceiveQueued(p, src) /\ q = p
      <4>1. PICK x \in From(p, src) :
              sending_queue' = [sending_queue EXCEPT ![p] = Unlink(@, x)]
        BY <3>1 DEF ReceiveQueued
      <4>2. x \in Range(sending_queue[q])
        BY <3>1, FromSends
      <4>3. sending_queue[q] \in Seq(Procs) /\ IsInjective(sending_queue[q])
        BY <2>1 DEF IInv, QueueHoldsSenders
      <4>4. sending_queue'[q] = Unlink(sending_queue[q], x)
        BY <2>1, <3>1, <4>1
      <4> QED
        BY <4>2, <4>3, <4>4, RemoveMember, SMT
    <3>2. CASE ~(ReceiveQueued(p, src) /\ q = p)
      BY <2>0, <2>1, <2>3, <3>2 DEF msg_receive, ReceiveInt, ReceiveQueued, ReceiveBlock
    <3> QED
      BY <3>1, <3>2
  <2>4. ASSUME NEW t \in IntTasks, inform_init(t)
        PROVE  Goal
    BY <2>0, <2>4 DEF inform_init, InformDeliver, InformLatch
  <2> QED
    BY <2>2, <2>3, <2>4, NextCalls
<1> QED
  BY <1>1, Inductive, PTL DEF Spec, SendersKeepTurn
-----------------------------------------------------------------------------
(***************************************************************************)
(* Refinement: sendto and recvfrom tell, without the flags and the lists,  *)
(* who waits for whom, and every system call is one step of the abstract   *)
(* hand-over.                                                              *)
(***************************************************************************)

\* The refinement mapping: a process is SENDING iff sendto names a partner,
\* and RECEIVING iff recvfrom names one.
LEMMA Mapping ==
  ASSUME IInv, NEW p \in Procs
  PROVE  /\ SENDING \in flags[p] <=> sendto[p] # NO_TASK
         /\ RECEIVING \in flags[p] <=> recvfrom[p] # NO_TASK
         /\ flags[p] = {} <=> sendto[p] = NO_TASK /\ recvfrom[p] = NO_TASK
<1> USE ConstantsAssumption DEF SENDING, RECEIVING
<1>1. flags[p] \in SUBSET {SENDING, RECEIVING}
  BY DEF IInv, TypeOK
<1>2. CASE flags[p] = {}
  BY <1>2 DEF IInv, FieldsAgree, Idle
<1>3. CASE SENDING \in flags[p]
  BY <1>3 DEF IInv, FieldsAgree
<1>4. CASE RECEIVING \in flags[p]
  BY <1>4 DEF IInv, FieldsAgree, Sources
<1> QED
  BY <1>1, <1>2, <1>3, <1>4

\* The processes start with nothing offered and nothing wanted.
LEMMA InitMaps == Init => Abstract!Init
BY DEF Init, Abstract!Init

\* msg_send is a Hand, an Offer, or the refusal that stops the machine.
LEMMA SendMaps ==
  ASSUME IInv, NEW p \in Procs, NEW dest \in Procs \ {p}, NEW body \in Bodies,
         Runnable(p), msg_send(p, dest, body)
  PROVE  Abstract!Next
<1>1. Abstract!Free(p)
  BY CallerIdle DEF Abstract!Free, Idle
<1>2. CASE SendPanic(p, dest, body)
  <2>1. Abstract!Refuse(p, body)
    BY <1>1, <1>2 DEF SendPanic, Abstract!Refuse, kernel
  <2> QED
    BY <2>1 DEF Abstract!Next
<1>3. CASE SendDeliver(p, dest, body)
  <2>1. Abstract!Hand(p, dest, body)
    BY <1>1, <1>3 DEF SendDeliver, Awaits, Abstract!Hand, Abstract!Admits
  <2> QED
    BY <2>1 DEF Abstract!Next
<1>4. CASE SendBlock(p, dest, body)
  <2>1. ~Abstract!Admits(recvfrom[dest], p)
    BY <1>4, Mapping, ConstantsAssumption DEF SendBlock, Awaits, Abstract!Admits
  <2>2. Abstract!Offer(p, dest, body)
    BY <1>1, <1>4, <2>1 DEF SendBlock, Abstract!Offer
  <2> QED
    BY <2>2 DEF Abstract!Next
<1> QED
  BY <1>2, <1>3, <1>4 DEF msg_send

\* msg_receive is a TakeInterrupt, a Take or a Wait.
LEMMA ReceiveMaps ==
  ASSUME IInv, NEW p \in Procs, NEW src \in Sources \ {p},
         NEW body \in Bodies \cup {ZeroBody}, src \in Procs => ~has_int_msg[p],
         Runnable(p), msg_receive(p, src, body)
  PROVE  Abstract!Next
<1>1. Abstract!Free(p)
  BY CallerIdle DEF Abstract!Free, Idle
<1>2. src \in (Procs \ {p}) \cup {ANY, INTERRUPT}
  BY DEF Sources
<1>3. CASE ReceiveInt(p, src)
  <2>1. Abstract!TakeInterrupt(p)
    BY <1>1, <1>3 DEF ReceiveInt, IntPending, IntMessage, Abstract!TakeInterrupt
  <2> QED
    BY <2>1 DEF Abstract!Next
<1>4. CASE ReceiveQueued(p, src)
  <2>1. PICK q \in From(p, src) : /\ buf' = [buf EXCEPT ![p] = buf[q]]
                                  /\ sendto' = [sendto EXCEPT ![q] = NO_TASK]
    BY <1>4 DEF ReceiveQueued
  <2>2. q \in Procs \ {p} /\ sendto[q] = p
    BY FromSends, SMT DEF SendingTo
  <2>3. src \in {q, ANY}
    BY <2>1 DEF From
  <2>4. Abstract!Take(p, src, q)
    BY <1>1, <1>4, <2>1, <2>2, <2>3
       DEF ReceiveQueued, IntPending, Abstract!Take, Abstract!Admits
  <2> QED
    BY <1>2, <2>2, <2>4 DEF Abstract!Next
<1>5. CASE ReceiveBlock(p, src, body)
  <2>1. ASSUME NEW q \in Procs, Abstract!Admits(src, q), sendto[q] = p PROVE FALSE
    <3>1. ~SendingTo(q, p)
      BY <1>5, <2>1, FromEmpty DEF ReceiveBlock, Abstract!Admits
    <3> QED
      BY <2>1, <3>1, Mapping, ConstantsAssumption DEF SendingTo
  <2>2. ~has_int_msg[p]
    BY <1>2, <1>5 DEF ReceiveBlock, IntPending
  <2>3. Abstract!Wait(p, src, body)
    BY <1>1, <1>5, <2>1, <2>2 DEF ReceiveBlock, Abstract!Wait
  <2> QED
    BY <1>2, <2>3 DEF Abstract!Next
<1> QED
  BY <1>3, <1>4, <1>5 DEF msg_receive

\* inform_init is an Interrupt.
LEMMA InformMaps ==
  ASSUME IInv, NEW t \in IntTasks, inform_init(t)
  PROVE  Abstract!Next
<1>1. t \in Procs
  BY ConstantsAssumption
<1>2. CASE InformDeliver(t)
  <2>1. has_int_msg[t] = FALSE
    BY <1>1, <1>2 DEF IInv, TypeOK, NoMissedInterrupt, InformDeliver
  <2>2. has_int_msg' = has_int_msg
    BY <1>1, <1>2, <2>1 DEF IInv, TypeOK, InformDeliver
  <2>3. Abstract!Interrupt(t)
    BY <1>2, <2>2 DEF InformDeliver, AwaitsInt, IntMessage, Abstract!Interrupt
  <2> QED
    BY <2>3 DEF Abstract!Next
<1>3. CASE InformLatch(t)
  <2>1. recvfrom[t] \notin {ANY, INTERRUPT}
    BY <1>1, <1>3, Mapping, ConstantsAssumption DEF InformLatch, AwaitsInt
  <2>2. Abstract!Interrupt(t)
    BY <1>3, <2>1 DEF InformLatch, Abstract!Interrupt
  <2> QED
    BY <2>2 DEF Abstract!Next
<1> QED
  BY <1>2, <1>3 DEF inform_init

\* sendrec() and inform_init(), with their flags and lists, implement the
\* atomic hand-over of Rendezvous, for any set of processes.
THEOREM Refinement == Spec => ImplementsRendezvous
<1>1. Init => Abstract!Init
  BY InitMaps
<1>2. IInv /\ [Next]_vars => [Abstract!Next]_(Abstract!vars)
  <2> SUFFICES ASSUME IInv, [Next]_vars
               PROVE  Abstract!Next \/ UNCHANGED Abstract!vars
    OBVIOUS
  <2>1. ASSUME NEW p \in Procs, NEW dest \in Procs \ {p}, NEW body \in Bodies,
               Send(p, dest, body) \/ SendBoth(p, dest, body)
        PROVE  Abstract!Next
    BY <2>1, SendStep, SendMaps
  <2>2. ASSUME NEW p \in Procs,
               ReceiveBoth(p) \/ \E src \in Sources \ {p} : Receive(p, src)
        PROVE  Abstract!Next
    BY <2>2, ReceiveStep, ReceiveMaps
  <2>3. ASSUME NEW t \in IntTasks, inform_init(t)
        PROVE  Abstract!Next
    BY <2>3, InformMaps
  <2>4. CASE UNCHANGED vars
    BY <2>4 DEF vars, kernel, Abstract!vars
  <2> QED
    BY <2>1, <2>2, <2>3, <2>4 DEF Next
<1> QED
  BY <1>1, <1>2, Inductive, PTL DEF Spec, ImplementsRendezvous, Abstract!Spec

-----------------------------------------------------------------------------

(***************************************************************************)
(* The dialogue with TASK_SYS, for any number of clients and any MAX_TICKS *)
(***************************************************************************)

(***************************************************************************)
(* The inductive invariant.  A client in a call is sending its request,    *)
(* owed an answer (TASK_SYS has the request), or answered; TASK_SYS owes   *)
(* an answer to at most one client at a time, whose request is in its      *)
(* message buffer until the answer is.                                     *)
(***************************************************************************)
Request(c) == [type |-> asked[c], val |-> NoVal]

\* A message body that answers what c has asked for.
Answers(body, c) ==
  IF asked[c] = "GET_PID" THEN body.type = "SYSCALL_RET" /\ body.val = c
                          ELSE body.val \in seen[c]

Asking(c) ==
  /\ asked[c] # "none" /\ flags[c] = {SENDING} /\ sendto[c] = SYS /\ both[c] = SYS
  /\ buf[c] = [source |-> c, body |-> Request(c)]

Owed(c) ==
  /\ asked[c] # "none"
  /\ \/ flags[c] = {} /\ both[c] = SYS
     \/ flags[c] = {RECEIVING} /\ recvfrom[c] = SYS /\ both[c] = NO_TASK

Answered(c) ==
  /\ asked[c] # "none" /\ flags[c] = {} /\ both[c] = NO_TASK
  /\ Answers(buf[c].body, c)

Away(c) == asked[c] = "none" /\ flags[c] = {} /\ both[c] = NO_TASK

ClientInv ==
  \A c \in Clients :
    /\ Away(c) \/ Asking(c) \/ Owed(c) \/ Answered(c)
    /\ asked[c] # "none" => ticks \in seen[c]

SysInv ==
  /\ both[SYS] = NO_TASK
  /\ \/ flags[SYS] = {} /\ ~received
     \/ flags[SYS] = {RECEIVING} /\ recvfrom[SYS] = ANY /\ received
     \/ /\ flags[SYS] = {} /\ received
        /\ \E c \in Clients :
             Owed(c) /\ buf[SYS] = [source |-> c, body |-> Request(c)]
     \/ /\ flags[SYS] = {SENDING} /\ ~received
        /\ \E c \in Clients :
             Owed(c) /\ sendto[SYS] = c /\ Answers(buf[SYS].body, c)

STypeOK ==
  /\ ticks \in 0 .. MAX_TICKS - 1
  /\ received \in BOOLEAN
  /\ asked \in [Clients -> {"none", "GET_TICKS", "GET_PID"}]
  /\ seen \in [Clients -> SUBSET (0 .. MAX_TICKS - 1)]

SInv ==
  /\ IInv /\ STypeOK /\ halt = "no"
  /\ \A p \in Procs : ~has_int_msg[p]
  /\ ClientInv /\ SysInv

-----------------------------------------------------------------------------
(***************************************************************************)
(* What the steps have in common                                           *)
(***************************************************************************)

\* A set of processes that the blocked sends do not lead out of shows that
\* deadlock() finds nothing.
LEMMA NoDeadlock ==
  ASSUME NEW p, NEW dest, NEW S \in SUBSET Procs,
         dest \in S, p \notin S, SendClosed(S)
  PROVE  ~deadlock(p, dest)
BY DEF deadlock

\* The requests and the replies are message bodies.
LEMMA BodiesRight ==
  ASSUME STypeOK
  PROVE  /\ \A type \in {"GET_TICKS", "GET_PID"} : [type |-> type, val |-> NoVal] \in Bodies
         /\ \A src \in Procs, type \in {"GET_TICKS", "GET_PID"} : Reply(src, type) \in Bodies
BY SysAssumption DEF STypeOK, Reply

\* A client whose own fields a step leaves alone stays where it is in its call.
LEMMA ClientFrame ==
  ASSUME NEW d \in Clients,
         flags'[d] = flags[d], sendto'[d] = sendto[d], recvfrom'[d] = recvfrom[d],
         both'[d] = both[d], buf'[d] = buf[d],
         asked'[d] = asked[d], seen[d] \subseteq seen'[d]
  PROVE  /\ Away(d) => Away(d)'
         /\ Asking(d) => Asking(d)'
         /\ Owed(d) => Owed(d)'
         /\ Answered(d) => Answered(d)'
<1>1. Answers(buf[d].body, d) => Answers(buf[d].body, d)'
  BY DEF Answers
<1> QED
  BY <1>1 DEF Away, Asking, Owed, Answered, Request, Answers

\* The same for TASK_SYS, when the client it serves is still owed its answer.
LEMMA SysFrame ==
  ASSUME SysInv,
         flags'[SYS] = flags[SYS], sendto'[SYS] = sendto[SYS],
         recvfrom'[SYS] = recvfrom[SYS], both'[SYS] = both[SYS],
         buf'[SYS] = buf[SYS], received' = received,
         \A d \in Clients : Owed(d) =>
           Owed(d)' /\ asked'[d] = asked[d] /\ seen[d] \subseteq seen'[d]
  PROVE  SysInv'
<1>1. \A d \in Clients : Owed(d) => Request(d)' = Request(d)
  BY DEF Request
<1>2. \A d \in Clients : Owed(d) /\ Answers(buf[SYS].body, d) => Answers(buf[SYS].body, d)'
  BY DEF Answers
<1> QED
  BY <1>1, <1>2 DEF SysInv

\* A step of IPC that does not panic leaves the machine running.
LEMMA StillRuns ==
  ASSUME IInv, halt = "no", Next, halt' # "panic"
  PROVE  IInv' /\ halt' = "no"
<1>1. IInv'
  BY NextInv
<1> QED
  BY <1>1 DEF IInv, TypeOK, AssertsHold

\* A client's process is not TASK_SYS, and neither is a wildcard.
LEMMA ClientsAre ==
  ASSUME NEW c \in Clients
  PROVE  /\ c \in Procs /\ c # SYS /\ SYS \in Procs
         /\ SYS # NO_TASK /\ SYS # ANY /\ SYS # INTERRUPT /\ SYS \in Sources \ {c}
         /\ c \in Procs \ {SYS} /\ c # NO_TASK
BY ConstantsAssumption, SysAssumption DEF Clients, Sources
-----------------------------------------------------------------------------
(***************************************************************************)
(* Each step preserves the invariant                                       *)
(***************************************************************************)

\* The kernel never takes a client's request for a cycle of sends.
LEMMA NoCallDeadlock ==
  ASSUME SInv, NEW c \in Clients, Away(c)
  PROVE  ~deadlock(c, SYS)
<1>1. CASE SENDING \in flags[SYS]
  <2>1. PICK d \in Clients : Owed(d) /\ sendto[SYS] = d
    BY <1>1, SMT DEF SInv, SysInv, SENDING, RECEIVING
  <2>2. d # c /\ SENDING \notin flags[d]
    BY <2>1 DEF Owed, Away, SENDING, RECEIVING
  <2>3. SendClosed({SYS, d})
    BY <2>1, <2>2 DEF SendClosed
  <2> QED
    BY <2>2, <2>3, ClientsAre, NoDeadlock
<1>2. CASE SENDING \notin flags[SYS]
  <2>1. SendClosed({SYS})
    BY <1>2 DEF SendClosed
  <2> QED
    BY <2>1, ClientsAre, NoDeadlock
<1> QED
  BY <1>1, <1>2

\* get_ticks() and getpid(), sending the request.
LEMMA CallInvS ==
  ASSUME SInv, NEW c \in Clients, NEW type \in {"GET_TICKS", "GET_PID"}, Call(c, type)
  PROVE  SInv' /\ Next
<1> DEFINE m == [source |-> c, body |-> [type |-> type, val |-> NoVal]]
<1>1. /\ Away(c) /\ Runnable(c) /\ Idle(c)
      /\ both' = [both EXCEPT ![c] = SYS]
      /\ asked' = [asked EXCEPT ![c] = type] /\ seen' = [seen EXCEPT ![c] = {ticks}]
      /\ ticks' = ticks /\ received' = received
  <2>1. Away(c)
    BY DEF Call, SInv, ClientInv, Asking, Owed, Answered
  <2>2. Runnable(c)
    BY DEF Call, SendBoth
  <2>3. Idle(c)
    BY <2>2, ClientsAre, CallerIdle DEF SInv
  <2> QED
    BY <2>1, <2>2, <2>3 DEF Call, SendBoth
<1>2. Next
  BY ClientsAre, BodiesRight DEF Call, SInv, Next
<1>3. SendDeliver(c, SYS, m.body) \/ SendBlock(c, SYS, m.body)
  BY <1>1, NoCallDeadlock DEF Call, SendBoth, msg_send, SendPanic
<1>4. IInv' /\ halt' = "no"
  BY <1>2, <1>3, StillRuns DEF SInv, SendDeliver, SendBlock, AssertThat
<1>5. STypeOK' /\ \A p \in Procs : ~has_int_msg'[p]
  BY <1>1, <1>3, SMT DEF SInv, STypeOK, SendDeliver, SendBlock
<1>6. asked'[c] = type /\ ticks \in seen'[c] /\ both'[c] = SYS
  BY <1>1, ClientsAre DEF SInv, STypeOK, IInv, TypeOK
<1>7. ASSUME NEW d \in Clients, d # c
      PROVE  /\ flags'[d] = flags[d] /\ sendto'[d] = sendto[d] /\ recvfrom'[d] = recvfrom[d]
             /\ both'[d] = both[d] /\ buf'[d] = buf[d]
             /\ asked'[d] = asked[d] /\ seen'[d] = seen[d]
  BY <1>1, <1>3, <1>7, ClientsAre, SMT DEF SInv, STypeOK, IInv, TypeOK, SendDeliver, SendBlock
<1>8. CASE SendDeliver(c, SYS, m.body)
  <2>1. flags[SYS] = {RECEIVING} /\ received
    BY <1>8, SMT DEF SInv, SysInv, SendDeliver, Awaits, RECEIVING, SENDING
  <2>2. flags'[SYS] = {} /\ flags'[c] = {} /\ buf'[SYS] = m
    BY <2>1, <1>1, <1>8, ClientsAre DEF SInv, IInv, TypeOK, SendDeliver, Away
  <2>3. Owed(c)'
    BY <2>2, <1>6 DEF Owed
  <2>4. SysInv'
    BY <2>1, <2>2, <2>3, <1>1, <1>6, ClientsAre, SMT DEF SysInv, SInv, Request
  <2>5. ClientInv'
    BY <2>3, <1>1, <1>6, <1>7, ClientFrame DEF SInv, ClientInv
  <2> QED
    BY <1>2, <1>4, <1>5, <2>4, <2>5 DEF SInv
<1>9. CASE SendBlock(c, SYS, m.body)
  <2>1. flags'[c] = {SENDING} /\ sendto'[c] = SYS /\ buf'[c] = m
    BY <1>1, <1>9, ClientsAre DEF SInv, IInv, TypeOK, SendBlock, Away
  <2>2. Asking(c)'
    BY <2>1, <1>6 DEF Asking, Request
  <2>3. ClientInv'
    BY <2>2, <1>1, <1>6, <1>7, ClientFrame DEF SInv, ClientInv
  <2>4. \A d \in Clients : Owed(d) => d # c
    BY <1>1 DEF Owed, Away
  <2>5. SysInv'
    <3>1. /\ flags'[SYS] = flags[SYS] /\ sendto'[SYS] = sendto[SYS]
          /\ recvfrom'[SYS] = recvfrom[SYS] /\ both'[SYS] = both[SYS] /\ buf'[SYS] = buf[SYS]
      BY <1>1, <1>9, ClientsAre DEF SInv, IInv, TypeOK, SendBlock
    <3> QED
      BY <3>1, <2>4, <1>1, <1>7, ClientFrame, SysFrame DEF SInv
  <2> QED
    BY <1>2, <1>4, <1>5, <2>3, <2>5 DEF SInv
<1> QED
  BY <1>3, <1>8, <1>9

\* The RECEIVE half of BOTH: TASK_SYS is already offering the answer, or the
\* client waits for it.
LEMMA AwaitReplyInv ==
  ASSUME SInv, NEW c \in Clients, AwaitReply(c)
  PROVE  SInv' /\ Next
<1>1. /\ Runnable(c) /\ Owed(c) /\ both[c] = SYS /\ flags[c] = {}
      /\ both' = [both EXCEPT ![c] = NO_TASK]
      /\ asked' = asked /\ seen' = seen /\ ticks' = ticks /\ received' = received
  <2>1. flags[c] = {} /\ both[c] # NO_TASK
    BY DEF AwaitReply, ReceiveBoth, Runnable
  <2>2. Owed(c) /\ both[c] = SYS
    BY <2>1, ClientsAre DEF SInv, ClientInv, Away, Asking, Owed, Answered, SENDING, RECEIVING
  <2> QED
    BY <2>1, <2>2 DEF AwaitReply, ReceiveBoth
<1>2. Next
  BY ClientsAre DEF AwaitReply, Next
<1>3. ReceiveQueued(c, SYS) \/ ReceiveBlock(c, SYS, buf[c].body)
  BY <1>1, ClientsAre DEF AwaitReply, ReceiveBoth, msg_receive, ReceiveInt, IntPending, SInv
<1>4. IInv' /\ halt' = "no"
  BY <1>2, <1>3, StillRuns DEF SInv, ReceiveQueued, ReceiveBlock, AssertThat
<1>5. STypeOK' /\ \A p \in Procs : ~has_int_msg'[p]
  BY <1>1, <1>3 DEF SInv, STypeOK, ReceiveQueued, ReceiveBlock
<1>6. /\ both'[c] = NO_TASK
      /\ \A d \in Procs : d # c => both'[d] = both[d]
      /\ recvfrom' \in [Procs -> Sources \cup {NO_TASK}]
  BY <1>1, <1>4, ClientsAre DEF SInv, IInv, TypeOK
<1>7. CASE ReceiveQueued(c, SYS)
  <2>1. /\ SendingTo(SYS, c)
        /\ buf' = [buf EXCEPT ![c] = buf[SYS]]
        /\ sendto' = [sendto EXCEPT ![SYS] = NO_TASK]
        /\ flags' = [flags EXCEPT ![SYS] = @ \ {SENDING}]
        /\ recvfrom' = recvfrom
    BY <1>7, ClientsAre DEF ReceiveQueued, From
  <2>2. flags[SYS] = {SENDING} /\ ~received /\ Answers(buf[SYS].body, c)
    BY <2>1, SMT DEF SInv, SysInv, SendingTo, SENDING, RECEIVING
  <2>3. flags'[c] = {} /\ buf'[c] = buf[SYS] /\ flags'[SYS] = {}
    BY <2>1, <2>2, <1>1, ClientsAre DEF SInv, IInv, TypeOK
  <2>4. Answered(c)'
    BY <2>2, <2>3, <1>1, <1>6 DEF Answered, Owed, Answers
  <2>5. ASSUME NEW d \in Clients, d # c
        PROVE  /\ flags'[d] = flags[d] /\ sendto'[d] = sendto[d] /\ recvfrom'[d] = recvfrom[d]
               /\ both'[d] = both[d] /\ buf'[d] = buf[d]
    BY <2>1, <2>5, <1>6, ClientsAre DEF SInv, IInv, TypeOK
  <2>6. ClientInv'
    BY <2>4, <2>5, <1>1, ClientFrame DEF SInv, ClientInv
  <2>7. SysInv'
    BY <2>2, <2>3, <1>1, <1>6, ClientsAre DEF SInv, SysInv
  <2> QED
    BY <1>2, <1>4, <1>5, <2>6, <2>7 DEF SInv
<1>8. CASE ReceiveBlock(c, SYS, buf[c].body)
  <2>1. /\ flags' = [flags EXCEPT ![c] = @ \cup {RECEIVING}]
        /\ recvfrom' = [recvfrom EXCEPT ![c] = SYS]
        /\ buf' = [buf EXCEPT ![c] = [source |-> c, body |-> buf[c].body]]
        /\ sendto' = sendto
    BY <1>8 DEF ReceiveBlock
  <2>2. flags'[c] = {RECEIVING} /\ recvfrom'[c] = SYS
    BY <2>1, <1>1, ClientsAre DEF SInv, IInv, TypeOK
  <2>3. Owed(c)'
    BY <2>2, <1>1, <1>6 DEF Owed
  <2>4. ASSUME NEW d \in Procs, d # c
        PROVE  /\ flags'[d] = flags[d] /\ sendto'[d] = sendto[d] /\ recvfrom'[d] = recvfrom[d]
               /\ both'[d] = both[d] /\ buf'[d] = buf[d]
    BY <2>1, <2>4, <1>6, ClientsAre DEF SInv, IInv, TypeOK
  <2>5. ClientInv'
    BY <2>3, <2>4, <1>1, ClientsAre, ClientFrame DEF SInv, ClientInv
  <2>6. \A d \in Clients : Owed(d) => Owed(d)'
    BY <2>3, <2>4, <1>1, ClientsAre, ClientFrame
  <2>7. SysInv'
    BY <2>4, <2>6, <1>1, ClientsAre, SysFrame DEF SInv
  <2> QED
    BY <1>2, <1>4, <1>5, <2>5, <2>7 DEF SInv
<1> QED
  BY <1>3, <1>7, <1>8

\* The call returns: its message holds the answer, so the assert of getpid()
\* holds.
LEMMA ReturnInv ==
  ASSUME SInv, NEW c \in Clients, Return(c)
  PROVE  SInv' /\ UNCHANGED vars /\ Answered(c)
<1>1. Answered(c)
  BY ClientsAre DEF Return, Runnable, SInv, ClientInv, Away, Asking, Owed, SENDING, RECEIVING
<1>2. UNCHANGED vars
  BY <1>1 DEF Return, AssertThat, Answered, Answers, vars, kernel
<1>3. /\ asked' = [asked EXCEPT ![c] = "none"] /\ seen' = [seen EXCEPT ![c] = {}]
      /\ ticks' = ticks /\ received' = received
  BY DEF Return
<1>4. IInv' /\ halt' = "no" /\ STypeOK' /\ \A p \in Procs : ~has_int_msg'[p]
  <2>1. IInv'
    BY <1>2, StutterInv DEF SInv
  <2> QED
    BY <2>1, <1>2, <1>3 DEF SInv, STypeOK, vars, kernel
<1>5. Away(c)'
  BY <1>1, <1>2, <1>3 DEF Answered, Away, SInv, STypeOK, vars, kernel
<1>6. ASSUME NEW d \in Clients, d # c
      PROVE  /\ flags'[d] = flags[d] /\ sendto'[d] = sendto[d] /\ recvfrom'[d] = recvfrom[d]
             /\ both'[d] = both[d] /\ buf'[d] = buf[d]
             /\ asked'[d] = asked[d] /\ seen'[d] = seen[d]
  BY <1>2, <1>3, <1>6 DEF SInv, STypeOK, vars, kernel
<1>7. ClientInv'
  BY <1>3, <1>5, <1>6, ClientFrame DEF SInv, ClientInv, Away
<1>8. \A d \in Clients : Owed(d) => d # c
  BY <1>1, ClientsAre DEF Answered, Owed, RECEIVING
<1>9. SysInv'
  BY <1>2, <1>3, <1>6, <1>8, ClientFrame, SysFrame DEF SInv, vars, kernel
<1> QED
  BY <1>1, <1>2, <1>4, <1>7, <1>9 DEF SInv

\* task_sys takes the request at the head of its list, or waits for one.
LEMMA TakeRequestInv ==
  ASSUME SInv, TakeRequest
  PROVE  SInv' /\ Next
<1> USE SysAssumption, ConstantsAssumption
<1>1. /\ Runnable(SYS) /\ flags[SYS] = {} /\ ~received /\ both' = both
      /\ asked' = asked /\ seen' = seen /\ ticks' = ticks /\ received' = TRUE
  BY DEF TakeRequest, Receive, Runnable
<1>2. Next
  BY DEF TakeRequest, Next, Sources
<1>3. ReceiveQueued(SYS, ANY) \/ ReceiveBlock(SYS, ANY, ZeroBody)
  BY DEF TakeRequest, Receive, msg_receive, ReceiveInt, IntPending, SInv
<1>4. IInv' /\ halt' = "no"
  BY <1>2, <1>3, StillRuns DEF SInv, ReceiveQueued, ReceiveBlock, AssertThat
<1>5. STypeOK' /\ \A p \in Procs : ~has_int_msg'[p]
  BY <1>1, <1>3 DEF SInv, STypeOK, ReceiveQueued, ReceiveBlock
<1>6. CASE ReceiveQueued(SYS, ANY)
  <2>1. PICK c \in From(SYS, ANY) :
          /\ buf' = [buf EXCEPT ![SYS] = buf[c]]
          /\ sendto' = [sendto EXCEPT ![c] = NO_TASK]
          /\ flags' = [flags EXCEPT ![c] = @ \ {SENDING}]
          /\ recvfrom' = recvfrom
    BY <1>6 DEF ReceiveQueued
  <2>2. c \in Clients /\ flags[c] = {SENDING}
    BY FromSends, SMT DEF SInv, Clients, Sources
  <2>3. Asking(c)
    BY <2>2 DEF SInv, ClientInv, Away, Owed, Answered, SENDING, RECEIVING
  <2>4. flags'[c] = {} /\ flags'[SYS] = {} /\ buf'[SYS] = buf[c]
    BY <2>1, <2>2, <1>1, ClientsAre DEF SInv, IInv, TypeOK
  <2>5. Owed(c)'
    BY <2>3, <2>4, <1>1 DEF Owed, Asking
  <2>6. ASSUME NEW d \in Clients, d # c
        PROVE  /\ flags'[d] = flags[d] /\ sendto'[d] = sendto[d] /\ recvfrom'[d] = recvfrom[d]
               /\ both'[d] = both[d] /\ buf'[d] = buf[d]
    BY <2>1, <2>6, <1>1, ClientsAre DEF SInv, IInv, TypeOK
  <2>7. ClientInv'
    BY <2>2, <2>5, <2>6, <1>1, ClientFrame DEF SInv, ClientInv
  <2>8. SysInv'
    BY <2>2, <2>3, <2>4, <2>5, <1>1 DEF SInv, SysInv, Asking, Request
  <2> QED
    BY <1>2, <1>4, <1>5, <2>7, <2>8 DEF SInv
<1>7. CASE ReceiveBlock(SYS, ANY, ZeroBody)
  <2>1. /\ flags' = [flags EXCEPT ![SYS] = @ \cup {RECEIVING}]
        /\ recvfrom' = [recvfrom EXCEPT ![SYS] = ANY]
        /\ buf' = [buf EXCEPT ![SYS] = [source |-> SYS, body |-> ZeroBody]]
        /\ sendto' = sendto
    BY <1>7 DEF ReceiveBlock
  <2>2. flags'[SYS] = {RECEIVING} /\ recvfrom'[SYS] = ANY
    BY <2>1, <1>1 DEF SInv, IInv, TypeOK
  <2>3. ASSUME NEW d \in Clients
        PROVE  /\ flags'[d] = flags[d] /\ sendto'[d] = sendto[d] /\ recvfrom'[d] = recvfrom[d]
               /\ both'[d] = both[d] /\ buf'[d] = buf[d]
    BY <2>1, <1>1, ClientsAre DEF SInv, IInv, TypeOK
  <2>4. ClientInv'
    BY <2>3, <1>1, ClientFrame DEF SInv, ClientInv
  <2>5. SysInv'
    BY <2>2, <1>1 DEF SInv, SysInv
  <2> QED
    BY <1>2, <1>4, <1>5, <2>4, <2>5 DEF SInv
<1> QED
  BY <1>3, <1>6, <1>7

\* task_sys answers the client whose request it holds: the answer is handed
\* over, or TASK_SYS waits until the client is in its RECEIVE half.
LEMMA ServeInv ==
  ASSUME SInv, Serve
  PROVE  SInv' /\ Next
<1> USE SysAssumption, ConstantsAssumption
<1>1. /\ Runnable(SYS) /\ flags[SYS] = {} /\ received /\ both' = both
      /\ asked' = asked /\ seen' = seen /\ ticks' = ticks /\ received' = FALSE
  BY DEF Serve, Send, Runnable
<1>2. PICK c \in Clients : Owed(c) /\ buf[SYS] = [source |-> c, body |-> Request(c)]
  BY <1>1 DEF SInv, SysInv, RECEIVING, SENDING
<1>3. /\ buf[SYS].source = c /\ buf[SYS].body.type = asked[c]
      /\ asked[c] \in {"GET_TICKS", "GET_PID"}
  BY <1>2, SMT DEF Request, Owed, SInv, STypeOK
<1>4. PICK r \in Bodies : r = Reply(c, asked[c])
  BY <1>2, <1>3, ClientsAre, BodiesRight DEF SInv
<1>5. /\ Answers(r, c)
      /\ Send(SYS, c, r) /\ msg_send(SYS, c, r)
  <2>1. Answers(r, c)
    BY <1>2, <1>3, <1>4 DEF Answers, Reply, SInv, ClientInv
  <2>2. Send(SYS, c, r)
    BY <1>3, <1>4 DEF Serve
  <2> QED
    BY <2>1, <2>2 DEF Send
<1>6. Next
  BY <1>2, <1>5, ClientsAre DEF Next
<1>7. SendDeliver(SYS, c, r) \/ SendBlock(SYS, c, r)
  <2>1. SendClosed({c})
    BY <1>2, SMT DEF SendClosed, Owed, SENDING, RECEIVING
  <2>2. ~deadlock(SYS, c)
    BY <2>1, <1>2, ClientsAre, NoDeadlock
  <2> QED
    BY <2>2, <1>5 DEF msg_send, SendPanic
<1>8. IInv' /\ halt' = "no"
  BY <1>6, <1>7, StillRuns DEF SInv, SendDeliver, SendBlock, AssertThat
<1>9. STypeOK' /\ \A p \in Procs : ~has_int_msg'[p]
  BY <1>1, <1>7 DEF SInv, STypeOK, SendDeliver, SendBlock
<1>10. CASE SendDeliver(SYS, c, r)
  <2>1. /\ flags' = [flags EXCEPT ![c] = @ \ {RECEIVING}]
        /\ recvfrom' = [recvfrom EXCEPT ![c] = NO_TASK]
        /\ sendto' = sendto
        /\ buf' = [buf EXCEPT ![SYS] = [source |-> SYS, body |-> r],
                              ![c] = [source |-> SYS, body |-> r]]
        /\ RECEIVING \in flags[c]
    BY <1>10 DEF SendDeliver, Awaits
  <2>2. flags'[c] = {} /\ flags'[SYS] = {} /\ buf'[c].body = r /\ both'[c] = NO_TASK
    BY <2>1, <1>1, <1>2, ClientsAre DEF SInv, IInv, TypeOK, Owed
  <2>3. Answered(c)'
    BY <2>2, <1>1, <1>2, <1>5 DEF Answered, Owed, Answers
  <2>4. ASSUME NEW d \in Clients, d # c
        PROVE  /\ flags'[d] = flags[d] /\ sendto'[d] = sendto[d] /\ recvfrom'[d] = recvfrom[d]
               /\ both'[d] = both[d] /\ buf'[d] = buf[d]
    BY <2>1, <2>4, <1>1, <1>2, ClientsAre DEF SInv, IInv, TypeOK
  <2>5. ClientInv'
    BY <2>3, <2>4, <1>1, <1>2, ClientFrame DEF SInv, ClientInv
  <2>6. SysInv'
    BY <2>2, <1>1 DEF SInv, SysInv
  <2> QED
    BY <1>6, <1>8, <1>9, <2>5, <2>6 DEF SInv
<1>11. CASE SendBlock(SYS, c, r)
  <2>1. /\ flags' = [flags EXCEPT ![SYS] = @ \cup {SENDING}]
        /\ sendto' = [sendto EXCEPT ![SYS] = c]
        /\ recvfrom' = recvfrom
        /\ buf' = [buf EXCEPT ![SYS] = [source |-> SYS, body |-> r]]
    BY <1>11 DEF SendBlock
  <2>2. flags'[SYS] = {SENDING} /\ sendto'[SYS] = c /\ buf'[SYS].body = r
    BY <2>1, <1>1 DEF SInv, IInv, TypeOK
  <2>3. ASSUME NEW d \in Clients
        PROVE  /\ flags'[d] = flags[d] /\ sendto'[d] = sendto[d] /\ recvfrom'[d] = recvfrom[d]
               /\ both'[d] = both[d] /\ buf'[d] = buf[d]
    BY <2>1, <1>1, ClientsAre DEF SInv, IInv, TypeOK
  <2>4. ClientInv' /\ Owed(c)'
    BY <2>3, <1>1, <1>2, ClientFrame DEF SInv, ClientInv
  <2>5. Answers(r, c)'
    BY <1>1, <1>5 DEF Answers
  <2>6. SysInv'
    BY <2>2, <2>4, <2>5, <1>1, <1>2 DEF SInv, SysInv
  <2> QED
    BY <1>6, <1>8, <1>9, <2>4, <2>6 DEF SInv
<1> QED
  BY <1>7, <1>10, <1>11

\* A clock interrupt: the new value of ticks is seen by every call under way.
LEMMA TickInv ==
  ASSUME SInv, Tick
  PROVE  SInv' /\ UNCHANGED vars
<1>1. UNCHANGED vars /\ received' = received /\ asked' = asked
  BY DEF Tick
<1>2. ticks' \in 0 .. MAX_TICKS - 1
  BY SysAssumption, SMT DEF Tick, SInv, STypeOK
<1>3. \A d \in Clients : /\ seen[d] \subseteq seen'[d]
                         /\ asked[d] # "none" => ticks' \in seen'[d]
  BY DEF Tick
<1>4. STypeOK'
  BY <1>1, <1>2 DEF Tick, SInv, STypeOK
<1>5. IInv' /\ halt' = "no" /\ \A p \in Procs : ~has_int_msg'[p]
  <2>1. IInv'
    BY <1>1, StutterInv DEF SInv
  <2> QED
    BY <2>1, <1>1 DEF SInv, vars, kernel
<1>6. ClientInv'
  BY <1>1, <1>3, ClientFrame DEF SInv, ClientInv, vars, kernel
<1>7. SysInv'
  BY <1>1, <1>3, ClientFrame, SysFrame DEF SInv, vars, kernel
<1> QED
  BY <1>1, <1>4, <1>5, <1>6, <1>7 DEF SInv

\* Before the first call nobody owes anybody anything.
LEMMA SInitInv == SInit => SInv
<1> SUFFICES ASSUME SInit PROVE SInv
  OBVIOUS
<1> USE SysAssumption, ConstantsAssumption
<1>1. IInv
  BY InitInv DEF SInit
<1>2. STypeOK /\ halt = "no" /\ \A p \in Procs : ~has_int_msg[p]
  <2>1. ticks \in 0 .. MAX_TICKS - 1
    BY SMT DEF SInit
  <2>2. halt = "no" /\ \A p \in Procs : ~has_int_msg[p]
    BY DEF SInit, Init
  <2> QED
    BY <2>1, <2>2, Zenon DEF SInit, STypeOK
<1>3. ClientInv
  BY DEF SInit, Init, ClientInv, Away, Clients
<1>4. SysInv
  BY DEF SInit, Init, SysInv
<1> QED
  BY <1>1, <1>2, <1>3, <1>4 DEF SInv

\* Every step preserves the invariant, and is a step of IPC or leaves the
\* kernel and the messages alone.
LEMMA SNextInv == SInv /\ [SNext]_svars => SInv' /\ [Next]_vars
<1> SUFFICES ASSUME SInv, [SNext]_svars PROVE SInv' /\ [Next]_vars
  OBVIOUS
<1>1. ASSUME NEW c \in Clients, NEW type \in {"GET_TICKS", "GET_PID"}, Call(c, type)
      PROVE  SInv' /\ [Next]_vars
  BY <1>1, CallInvS
<1>2. ASSUME NEW c \in Clients, AwaitReply(c)
      PROVE  SInv' /\ [Next]_vars
  BY <1>2, AwaitReplyInv
<1>3. ASSUME NEW c \in Clients, Return(c)
      PROVE  SInv' /\ [Next]_vars
  BY <1>3, ReturnInv
<1>4. CASE TakeRequest
  BY <1>4, TakeRequestInv
<1>5. CASE Serve
  BY <1>5, ServeInv
<1>6. CASE Tick
  BY <1>6, TickInv
<1>7. CASE UNCHANGED svars
  <2>1. UNCHANGED vars
    BY <1>7 DEF svars
  <2>2. IInv'
    BY <2>1, StutterInv DEF SInv
  <2>3. STypeOK' /\ halt' = "no" /\ \A p \in Procs : ~has_int_msg'[p]
    BY <1>7 DEF SInv, STypeOK, svars, vars, kernel
  <2>4. ClientInv'
    BY <1>7, ClientFrame DEF SInv, ClientInv, svars, vars, kernel
  <2>5. SysInv'
    BY <1>7, ClientFrame, SysFrame DEF SInv, svars, vars, kernel
  <2> QED
    BY <2>1, <2>2, <2>3, <2>4, <2>5 DEF SInv
<1> QED
  BY <1>1, <1>2, <1>3, <1>4, <1>5, <1>6, <1>7 DEF SNext

-----------------------------------------------------------------------------
\* The dialogue of task_sys with any number of clients never stops the machine:
\* deadlock() never takes it for a cycle, and no assert() of it fails.
THEOREM DialogueNeverHalts == SSpec => []NeverHalts
<1>1. SInv => NeverHalts
  BY DEF SInv, NeverHalts
<1> QED
  BY <1>1, SInitInv, SNextInv, PTL DEF SSpec

\* get_ticks() and getpid() return the answer to the caller's own request.
THEOREM AnswersRight == SSpec => RightAnswer
<1> DEFINE Right(c) == asked[c] # "none" /\ asked'[c] = "none" =>
                         IF asked[c] = "GET_PID" THEN buf[c].body.val = c
                                                 ELSE buf[c].body.val \in seen[c]
<1>1. ASSUME SInv, SNext, NEW c \in Clients
      PROVE  Right(c)
  <2>1. ASSUME NEW d \in Clients, Return(d)
        PROVE  Right(c)
    <3>1. asked' = [asked EXCEPT ![d] = "none"] /\ Answered(d)
      BY <2>1, <1>1, ReturnInv DEF Return
    <3>2. CASE d = c
      BY <3>1, <3>2 DEF Answered, Answers
    <3>3. CASE d # c
      BY <3>1, <3>3, <1>1 DEF SInv, STypeOK
    <3> QED
      BY <3>2, <3>3
  <2>2. ASSUME NEW d \in Clients, NEW type \in {"GET_TICKS", "GET_PID"}, Call(d, type)
        PROVE  Right(c)
    <3>1. asked' = [asked EXCEPT ![d] = type]
      BY <2>2 DEF Call
    <3> QED
      BY <3>1, <1>1 DEF SInv, STypeOK
  <2>3. CASE asked' = asked
    BY <2>3
  <2> QED
    BY <1>1, <2>1, <2>2, <2>3 DEF SNext, AwaitReply, TakeRequest, Serve, Tick
<1>2. SInv /\ [SNext]_svars => [AnswerStep]_svars
  BY <1>1 DEF AnswerStep
<1> QED
  BY <1>2, SInitInv, SNextInv, PTL DEF SSpec, RightAnswer

\* The system task and its clients use sendrec() as IPC describes: whatever is
\* proved of IPC holds of them, in particular that the dialogue implements
\* Rendezvous.
THEOREM DialogueIsIPC == SSpec => Spec
<1>1. SInit => Init
  BY DEF SInit
<1> QED
  BY <1>1, SInitInv, SNextInv, PTL DEF SSpec, Spec
=============================================================================

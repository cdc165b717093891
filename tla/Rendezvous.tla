----------------------------- MODULE Rendezvous -----------------------------
(***************************************************************************)
(* What sendrec() promises, without lists, flags or assertions: a message  *)
(* goes from the buffer of its sender to the buffer of a receiver that     *)
(* asked for it in one step, as soon as both have called; an interrupt is  *)
(* handed to a task before any process's message.                          *)
(***************************************************************************)
CONSTANTS Procs, IntTasks, ANY, INTERRUPT, NO_TASK, Bodies, ZeroBody, HARDWARE_INT

VARIABLES
  offer,   \* the process a sender waits for, or NO_TASK
  want,    \* the source a receiver waits for, or NO_TASK
  irq,     \* is an interrupt waiting for the task
  buf      \* the message in the memory of each process

vars == <<offer, want, irq, buf>>

Free(p) == offer[p] = NO_TASK /\ want[p] = NO_TASK

\* A receiver waiting for, or calling for, src takes messages of p.
Admits(src, p) == src \in {p, ANY}

Init ==
  /\ offer = [p \in Procs |-> NO_TASK]
  /\ want = [p \in Procs |-> NO_TASK]
  /\ irq = [p \in Procs |-> FALSE]
  /\ buf = [p \in Procs |-> [source |-> NO_TASK, body |-> ZeroBody]]

\* p sends to q, which is waiting for it.
Hand(p, q, body) ==
  /\ Free(p)
  /\ Admits(want[q], p)
  /\ LET m == [source |-> p, body |-> body]
     IN  buf' = [buf EXCEPT ![p] = m, ![q] = m]
  /\ want' = [want EXCEPT ![q] = NO_TASK]
  /\ UNCHANGED <<offer, irq>>

\* p sends to q, which is not waiting for it.
Offer(p, q, body) ==
  /\ Free(p)
  /\ ~Admits(want[q], p)
  /\ buf' = [buf EXCEPT ![p] = [source |-> p, body |-> body]]
  /\ offer' = [offer EXCEPT ![p] = q]
  /\ UNCHANGED <<want, irq>>

\* The send of p is refused, which stops the machine.
Refuse(p, body) ==
  /\ Free(p)
  /\ buf' = [buf EXCEPT ![p] = [source |-> p, body |-> body]]
  /\ UNCHANGED <<offer, want, irq>>

\* q receives from src and takes what p offers.
Take(q, src, p) ==
  /\ Free(q)
  /\ Admits(src, p) /\ offer[p] = q
  /\ src = ANY => ~irq[q]
  /\ buf' = [buf EXCEPT ![q] = buf[p]]
  /\ offer' = [offer EXCEPT ![p] = NO_TASK]
  /\ UNCHANGED <<want, irq>>

\* q receives from src and nothing is there to take.
Wait(q, src, body) ==
  /\ Free(q)
  /\ \A p \in Procs : ~(Admits(src, p) /\ offer[p] = q)
  /\ ~irq[q]
  /\ buf' = [buf EXCEPT ![q] = [source |-> q, body |-> body]]
  /\ want' = [want EXCEPT ![q] = src]
  /\ UNCHANGED <<offer, irq>>

\* q receives and an interrupt is waiting.
TakeInterrupt(q) ==
  /\ Free(q) /\ irq[q]
  /\ buf' = [buf EXCEPT ![q] = [source |-> INTERRUPT, body |-> HARDWARE_INT]]
  /\ irq' = [irq EXCEPT ![q] = FALSE]
  /\ UNCHANGED <<offer, want>>

\* An interrupt for t: it wakes t, or waits for t.
Interrupt(t) ==
  \/ /\ want[t] \in {ANY, INTERRUPT}
     /\ buf' = [buf EXCEPT ![t] = [source |-> INTERRUPT, body |-> HARDWARE_INT]]
     /\ want' = [want EXCEPT ![t] = NO_TASK]
     /\ UNCHANGED <<offer, irq>>
  \/ /\ want[t] \notin {ANY, INTERRUPT}
     /\ irq' = [irq EXCEPT ![t] = TRUE]
     /\ UNCHANGED <<offer, want, buf>>

Next ==
  \/ \E p \in Procs, body \in Bodies :
       \/ Refuse(p, body)
       \/ \E q \in Procs \ {p} : Hand(p, q, body) \/ Offer(p, q, body)
  \/ \E q \in Procs :
       \/ TakeInterrupt(q)
       \/ \E src \in (Procs \ {q}) \cup {ANY, INTERRUPT} :
            \/ \E p \in Procs \ {q} : Take(q, src, p)
            \/ \E body \in Bodies \cup {ZeroBody} : Wait(q, src, body)
  \/ \E t \in IntTasks : Interrupt(t)

Spec == Init /\ [][Next]_vars
=============================================================================

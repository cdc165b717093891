------------------------------- MODULE MCIPC -------------------------------
(***************************************************************************)
(* Model of IPC for TLC: four processes, of which one takes interrupts.    *)
(***************************************************************************)
EXTENDS IPC, TLC

CONSTANTS tty, a, b, c

MCProcs    == {tty, a, b, c}
MCIntTasks == {tty}

\* Every property treats a, b and c alike.
Symm == Permutations({a, b, c})

\* The loop of deadlock() as it is written: follow sendto from p while the
\* process reached is SENDING, and report whether src is sent to.
RECURSIVE Walk(_, _)
Walk(p, src) ==
  SENDING \in flags[p] /\ (sendto[p] = src \/ Walk(sendto[p], src))

\* The loop ends, and finds a cycle exactly when the closure that IPC uses
\* says there is one, for every send a runnable process could make.
WalkFindsCycle ==
  \A src, dest \in Procs :
    Runnable(src) /\ src # dest => Walk(dest, src) = deadlock(src, dest)
=============================================================================

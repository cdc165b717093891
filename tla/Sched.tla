------------------------------- MODULE Sched -------------------------------
(***************************************************************************)
(* The scheduler: schedule() in kernel/proc.c and clock_handler() in       *)
(* kernel/clock.c.                                                         *)
(*                                                                         *)
(* schedule() runs with interrupts enabled, from block() inside a system   *)
(* call or from clock_handler(), so that device interrupts (and, inside a  *)
(* system call, clock interrupts too: the handler of the clock masks only  *)
(* itself) come between its reads and writes of proc_table.  The loops are *)
(* therefore modelled one process at a time.  What a process is blocked    *)
(* for is the subject of IPC; here it is blocked or not.                   *)
(***************************************************************************)
EXTENDS Naturals

CONSTANTS
  N,          \* the number of processes in proc_table
  Priority,   \* PROCESS.priority
  IntTasks    \* the processes an interrupt can unblock

ASSUME SchedAssumption ==
  /\ N \in Nat \ {0}
  /\ Priority \in [1 .. N -> Nat]
  /\ IntTasks \subseteq 1 .. N

Procs == 1 .. N

VARIABLES
  blocked,        \* flags # 0
  ticks,          \* PROCESS.ticks
  p_proc_ready,   \* the process that runs, or that restart() will resume
  mode,           \* where the processor is, see Modes
  ctx,            \* who called schedule(): "syscall" or "clock"
  cursor,         \* the loop variable p of schedule()
  greatest_ticks

vars == <<blocked, ticks, p_proc_ready, mode, ctx, cursor, greatest_ticks>>

\* "user": k_reenter = -1, the process runs; "kernel": it is in a system call;
\* "test", "take", "refill": schedule() is about to compare p->ticks, to assign
\* greatest_ticks and p_proc_ready, or to reload p->ticks.
Modes == {"user", "kernel", "test", "take", "refill"}

Scheduling == mode \in {"test", "take", "refill"}

loop == <<ctx, cursor, greatest_ticks>>

\* kernel_main: nobody gives a process its first ticks, so they are 0.
Init ==
  /\ blocked = [p \in Procs |-> FALSE]
  /\ ticks = [p \in Procs |-> 0]
  /\ p_proc_ready = 1
  /\ mode = "user"
  /\ ctx = "clock" /\ cursor = 1 /\ greatest_ticks = 0

-----------------------------------------------------------------------------
(***************************************************************************)
(* schedule()                                                              *)
(***************************************************************************)

\* The call: greatest_ticks = 0, p = &FIRST_PROC.
CallSchedule(caller) ==
  /\ mode' = "test" /\ ctx' = caller /\ cursor' = 1 /\ greatest_ticks' = 0

\* The end of the for loop: p++, and out of the loop and the function, or
\* into the loop that reloads the ticks.
NextProc(greatest) ==
  \/ /\ cursor < N
     /\ cursor' = cursor + 1 /\ mode' = "test"
  \/ /\ cursor = N
     /\ cursor' = 1
     /\ mode' = IF greatest > 0 THEN "user" ELSE "refill"

\* A mutant of TestProc: the flags are not looked at.
TestProcAnyFlags ==
  /\ mode = "test"
  /\ IF ticks[cursor] > greatest_ticks
     THEN mode' = "take" /\ UNCHANGED cursor
     ELSE NextProc(greatest_ticks)
  /\ UNCHANGED <<blocked, ticks, p_proc_ready, ctx, greatest_ticks>>

\* if (p->flags == 0) if (p->ticks > greatest_ticks)
TestProc ==
  /\ mode = "test"
  /\ IF ~blocked[cursor] /\ ticks[cursor] > greatest_ticks
     THEN mode' = "take" /\ UNCHANGED cursor
     ELSE NextProc(greatest_ticks)
  /\ UNCHANGED <<blocked, ticks, p_proc_ready, ctx, greatest_ticks>>

\* greatest_ticks = p->ticks; p_proc_ready = p.  The ticks may have gone since
\* they were compared.
TakeProc ==
  /\ mode = "take"
  /\ greatest_ticks' = ticks[cursor]
  /\ p_proc_ready' = cursor
  /\ NextProc(ticks[cursor])
  /\ UNCHANGED <<blocked, ticks, ctx>>

\* A mutant of RefillProc: the loop stops before LAST_PROC.
RefillProcButLast ==
  /\ mode = "refill"
  /\ ticks' = IF cursor < N THEN [ticks EXCEPT ![cursor] = Priority[cursor]] ELSE ticks
  /\ IF cursor < N THEN cursor' = cursor + 1 /\ UNCHANGED mode
                   ELSE cursor' = 1 /\ mode' = "test"
  /\ UNCHANGED <<blocked, p_proc_ready, ctx, greatest_ticks>>

\* p->ticks = p->priority; after the last process the outer loop starts again.
RefillProc ==
  /\ mode = "refill"
  /\ ticks' = [ticks EXCEPT ![cursor] = Priority[cursor]]
  /\ IF cursor < N THEN cursor' = cursor + 1 /\ UNCHANGED mode
                   ELSE cursor' = 1 /\ mode' = "test"
  /\ UNCHANGED <<blocked, p_proc_ready, ctx, greatest_ticks>>

schedule == TestProc \/ TakeProc \/ RefillProc

-----------------------------------------------------------------------------
(***************************************************************************)
(* Interrupts                                                              *)
(***************************************************************************)

\* Mutants of Decremented: below zero; and the process is not charged.
DecrementedBelow == [ticks EXCEPT ![p_proc_ready] = @ - 1]
DecrementedNever == ticks

Decremented == [ticks EXCEPT ![p_proc_ready] = IF @ > 0 THEN @ - 1 ELSE 0]

\* inform_init: the task may have been waiting for the interrupt.
Unblocks(S) ==
  \/ UNCHANGED blocked
  \/ \E t \in S : blocked[t] /\ blocked' = [blocked EXCEPT ![t] = FALSE]

\* The clock interrupts a process: charge it, and schedule when it has spent
\* its ticks.
ClockUser ==
  /\ mode = "user"
  /\ ticks' = Decremented
  /\ Unblocks(IntTasks)
  /\ IF Decremented[p_proc_ready] > 0
     THEN UNCHANGED <<mode, loop>>
     ELSE CallSchedule("clock")
  /\ UNCHANGED p_proc_ready

\* The clock interrupts the kernel (k_reenter # 0): charge, never schedule.
ClockNested ==
  /\ Scheduling => ctx = "syscall"
  /\ ticks' = Decremented
  /\ Unblocks(IntTasks)
  /\ UNCHANGED <<p_proc_ready, mode, loop>>

\* A device interrupts whatever runs; hd_handler calls inform_init().
DeviceInt ==
  /\ Unblocks(IntTasks)
  /\ UNCHANGED <<ticks, p_proc_ready, mode, loop>>

-----------------------------------------------------------------------------
(***************************************************************************)
(* System calls                                                            *)
(***************************************************************************)

\* int INT_VECTOR_SYS_CALL
SysCall ==
  /\ mode = "user"
  /\ mode' = "kernel"
  /\ UNCHANGED <<blocked, ticks, p_proc_ready, loop>>

\* The call completes; a SEND or RECEIVE may have unblocked the partner.
SysReturn ==
  /\ mode = "kernel"
  /\ Unblocks(Procs)
  /\ mode' = "user"
  /\ UNCHANGED <<ticks, p_proc_ready, loop>>

\* block(): flags has just been set; restart() resumes whom schedule() finds.
block ==
  /\ mode = "kernel"
  /\ blocked' = [blocked EXCEPT ![p_proc_ready] = TRUE]
  /\ CallSchedule("syscall")
  /\ UNCHANGED <<ticks, p_proc_ready>>

Next ==
  \/ schedule
  \/ ClockUser \/ ClockNested \/ DeviceInt
  \/ SysCall \/ SysReturn \/ block

(***************************************************************************)
(* The processor executes schedule() and finishes system calls; the clock  *)
(* is asynchronous to the processes, so it cannot find every process that  *)
(* keeps running inside the kernel each time.                              *)
(***************************************************************************)
Fairness ==
  /\ WF_vars(schedule)
  /\ WF_vars(SysReturn \/ block)
  /\ SF_vars(ClockUser)

Spec     == Init /\ [][Next]_vars
FairSpec == Spec /\ Fairness

-----------------------------------------------------------------------------
(***************************************************************************)
(* Properties                                                              *)
(***************************************************************************)

\* Types; a process never has more ticks than its priority grants.
TypeOK ==
  /\ blocked \in [Procs -> BOOLEAN]
  /\ ticks \in [Procs -> Nat] /\ \A p \in Procs : ticks[p] <= Priority[p]
  /\ p_proc_ready \in Procs
  /\ mode \in Modes /\ ctx \in {"syscall", "clock"}
  /\ cursor \in Procs
  /\ greatest_ticks \in Nat

\* The processor never runs a process whose flags are set: schedule(), which
\* lets p_proc_ready point to the blocked caller until it finds another and is
\* interrupted by ticks and wake-ups all along, returns only with a process
\* that is ready.
RunsReady == ~Scheduling => ~blocked[p_proc_ready]

\* The clock strikes schedule() when it has a process to choose only finitely
\* often.  The loop keeps its candidate in p_proc_ready, where a tick that comes
\* before the loop ends is charged to the candidate although it has not run: a
\* clock in step with the loop could eat all the ticks of a process that way.
\* Ticks that strike the loop while every process is blocked are the idle system.
Quiet ==
  <>[][Scheduling /\ Scheduling' /\ cursor' = cursor /\ ticks' # ticks =>
         \A p \in Procs : blocked[p]]_vars

\* schedule() returns when some process is ready.
ScheduleReturns ==
  Quiet => ((Scheduling /\ \E p \in Procs : ~blocked[p]) ~> mode = "user")

\* No starvation: a process that is ready runs after a while, however the
\* others compute, call each other and are interrupted.
ReadyRuns ==
  Quiet => \A p \in Procs : ~blocked[p] ~> (p_proc_ready = p /\ ~Scheduling)
=============================================================================

----------------------------- MODULE Processes -----------------------------
(***************************************************************************)
(* fork(), exit() and wait(), composed over IPC: the calls (lib/fork.c,    *)
(* lib/exit.c, lib/wait.c) and the memory manager that serves them         *)
(* (mm/main.c, mm/forkexit.c).                                             *)
(*                                                                         *)
(* task_mm runs in ring 1 with interrupts on and works on the entries of   *)
(* proc_table while their owners may run: a caller that has done the SEND  *)
(* half of its call and not yet the RECEIVE half has flags = 0.  So an     *)
(* entry is copied in three steps, and flags |= X, which gcc compiles here *)
(* to a load, an or and a store, is two: read, then written.               *)
(*                                                                         *)
(* Module Files has what task_fs does when task_mm tells it of a fork() or *)
(* an exit(); here that dialogue is part of the step before it.  Names,    *)
(* segments and memory contents are left out.                              *)
(***************************************************************************)
EXTENDS IPC, Integers, SequencesExt

CONSTANTS
  MM, INIT_,    \* TASK_MM and INIT
  Slots,        \* the entries that fork() fills, as the sequence of their numbers
  Calls,        \* the calls each process makes; no native process calls exit()
  Statuses,     \* what a process can pass to exit()
  MaxForks      \* fork() calls

WAITING   == "WAITING"
HANGING   == "HANGING"
FREE_SLOT == "FREE_SLOT"

\* A message: its type, PID, and STATUS or RETVAL.
Body(type, pid, status) == [type |-> type, pid |-> pid, status |-> status]

Exited(pid, parent, status) == [pid |-> pid, parent |-> parent, status |-> status]

Children == ToSet(Slots)
Users    == {INIT_} \cup Children

ASSUME ProcessesAssumption ==
  /\ IsInjective(Slots) /\ MM # INIT_ /\ {MM, INIT_} \cap Children = {}
  /\ Procs = {MM} \cup Users /\ IntTasks = {}
  /\ ZeroBody = Body("none", NO_TASK, 0)
  /\ Calls \in [Users -> SUBSET {"FORK", "WAIT", "EXIT"}] /\ "EXIT" \notin Calls[INIT_]
  /\ MaxForks \in Nat /\ 0 \notin Procs

VARIABLES
  build,      \* is ASSERT defined (include/stdio.h), and for how many children
              \* is there memory; neither changes
  p_parent, exit_status,
  mm,         \* where task_mm is: its request, the entry it works on, the flags
              \* it has read and what it answers
  asked,      \* the call each user is in, or "none"
  nforks,
  untold,     \* the exit()s whose parent has not returned from wait() with them
  raced       \* processes that did their RECEIVE while task_mm was inside a
              \* copy of their entry or an update of their flags

table  == <<p_parent, exit_status>>
ghosts == <<untold, raced>>
pvars  == <<vars, build, table, mm, asked, nforks, ghosts>>

MMIdle == [pc |-> "receive", src |-> NO_TASK, entry |-> NO_TASK, read |-> {}, answer |-> ZeroBody]

\* kernel_main leaves p_parent of a free entry 0, which is task_tty; that is
\* nobody who calls wait(), and neither is NO_TASK.
PInit ==
  /\ build \in [asserts : BOOLEAN, room : {1, Len(Slots)}]
  /\ flags = [p \in Procs |-> IF p \in Children THEN {FREE_SLOT} ELSE {}]
  /\ msg = [p \in Procs |-> FALSE]
  /\ recvfrom = [p \in Procs |-> NO_TASK]
  /\ sendto = [p \in Procs |-> NO_TASK]
  /\ has_int_msg = [p \in Procs |-> FALSE]
  /\ sending_queue = [p \in Procs |-> <<>>]
  /\ buf = [p \in Procs |-> [source |-> NO_TASK, body |-> ZeroBody]]
  /\ both = [p \in Procs |-> NO_TASK]
  /\ halt = "no"
  /\ p_parent = [p \in Procs |-> NO_TASK]
  /\ exit_status = [p \in Procs |-> 0]
  /\ mm = MMIdle
  /\ asked = [u \in Users |-> "none"]
  /\ nforks = 0
  /\ untold = <<>> /\ raced = {}

\* The first entry of proc_table in S, if any.
First(S) ==
  LET inS(c) == c \in S
      i == SelectInSeq(Slots, inS)
  IN  IF i = 0 THEN {} ELSE {Slots[i]}

-----------------------------------------------------------------------------
(***************************************************************************)
(* The callers                                                             *)
(***************************************************************************)

\* Bounds: MaxForks calls of fork(), and one more when no entry is free; once
\* somebody has raced, exit() by anyone and wait() by those who did.
InBounds(u, type) ==
  /\ type = "FORK" =>
       \/ nforks < MaxForks
       \/ nforks = MaxForks /\ \A c \in Children : flags[c] # {FREE_SLOT}
  /\ raced # {} => type = "EXIT" \/ (u \in raced /\ type = "WAIT")

\* fork(), wait() or exit(status): the SEND half of BOTH.
Call(u, type, status) ==
  /\ asked[u] = "none"
  /\ InBounds(u, type)
  /\ status \in IF type = "EXIT" THEN Statuses ELSE {0}
  /\ SendBoth(u, MM, Body(type, NO_TASK, status))
  /\ asked' = [asked EXCEPT ![u] = type]
  /\ nforks' = IF type = "FORK" THEN nforks + 1 ELSE nforks
  /\ UNCHANGED <<build, table, mm, ghosts>>

\* task_mm is inside an update of u's entry.
BeingChanged(u) ==
  \/ mm.pc \in {"copy flags", "copy rest"} /\ u \in {mm.src, mm.entry}
  \/ mm.pc = "mark" /\ u = mm.src

AwaitReply(u) ==
  /\ ReceiveBoth(u)
  /\ raced' = IF BeingChanged(u) THEN raced \cup {u} ELSE raced
  /\ UNCHANGED <<build, table, mm, asked, nforks, untold>>

\* u is about to return from its call.
Returns(u) == asked[u] # "none" /\ Runnable(u) /\ both[u] = NO_TASK

Return(u) ==
  /\ Returns(u)
  /\ asked' = [asked EXCEPT ![u] = "none"]
  /\ buf' = [buf EXCEPT ![u] = [source |-> NO_TASK, body |-> ZeroBody]]
  /\ untold' = IF asked[u] # "WAIT" THEN untold
               ELSE RemoveFirst(untold, Exited(buf[u].body.pid, u, buf[u].body.status))
  /\ UNCHANGED <<kernel, both, halt, build, table, mm, nforks, raced>>

-----------------------------------------------------------------------------
(***************************************************************************)
(* task_mm                                                                 *)
(***************************************************************************)

MMReceive ==
  /\ mm.pc = "receive"
  /\ Receive(MM, ANY)
  /\ mm' = [mm EXCEPT !.pc = "serve"]
  /\ UNCHANGED <<build, table, asked, nforks, ghosts>>

\* The request task_mm has received and not begun to serve.
Serves(type) == mm.pc = "serve" /\ Runnable(MM) /\ buf[MM].body.type = type

\* send_recv(SEND, dest, m) by task_mm, which goes on at next.  The test in
\* sys_sendrec admits the tasks and the native processes only.
MMSends(dest, body, next) ==
  IF build.asserts /\ dest \in Children
  THEN /\ Runnable(MM) /\ halt' = "assert"
       /\ UNCHANGED <<kernel, buf, both, mm>>
  ELSE Send(MM, dest, body) /\ mm' = next

-----------------------------------------------------------------------------
(***************************************************************************)
(* do_fork                                                                 *)
(***************************************************************************)

\* No entry is free: -1.  The PID in the answer is what the request held.
ForkFails ==
  /\ Serves("FORK")
  /\ \A c \in Children : flags[c] # {FREE_SLOT}
  /\ mm' = [MMIdle EXCEPT !.pc = "answer", !.src = buf[MM].source,
                          !.answer = Body("SYSCALL_RET", NO_TASK, -1)]
  /\ UNCHANGED <<vars, build, table, asked, nforks, ghosts>>

\* The first free entry is filled from the caller's: regs, which say where it
\* is in its call, come first.  (Its stack is copied later; until then the
\* child would run on its parent's.)  They are copied in one step: that the
\* caller runs between two words, on its way to its RECEIVE, and the child gets
\* registers of two moments, is left out.
ForkCopiesRegs ==
  LET src == buf[MM].source
  IN  /\ Serves("FORK")
      /\ \E c \in First({c \in Children : flags[c] = {FREE_SLOT}}) :
           /\ both' = [both EXCEPT ![c] = both[src]]
           /\ buf' = [buf EXCEPT ![c] = buf[src]]
           /\ asked' = [asked EXCEPT ![c] = asked[src]]
           /\ mm' = [MMIdle EXCEPT !.pc = "copy flags", !.src = src, !.entry = c]
      /\ UNCHANGED <<kernel, halt, build, table, nforks, ghosts>>

ForkCopiesFlags ==
  /\ mm.pc = "copy flags" /\ Runnable(MM)
  /\ flags' = [flags EXCEPT ![mm.entry] = flags[mm.src]]
  /\ mm' = [mm EXCEPT !.pc = "copy rest"]
  /\ UNCHANGED <<msg, recvfrom, sendto, has_int_msg, sending_queue, buf, both, halt,
                 build, table, asked, nforks, ghosts>>

\* The other fields, and p_parent; then memory for the child.
ForkCopiesRest ==
  LET c == mm.entry
  IN  /\ mm.pc = "copy rest" /\ Runnable(MM)
      /\ msg' = [msg EXCEPT ![c] = msg[mm.src]]
      /\ recvfrom' = [recvfrom EXCEPT ![c] = recvfrom[mm.src]]
      /\ sendto' = [sendto EXCEPT ![c] = sendto[mm.src]]
      /\ has_int_msg' = [has_int_msg EXCEPT ![c] = has_int_msg[mm.src]]
      /\ sending_queue' = [sending_queue EXCEPT ![c] = sending_queue[mm.src]]
      /\ p_parent' = [p_parent EXCEPT ![c] = mm.src]
      /\ exit_status' = [exit_status EXCEPT ![c] = exit_status[mm.src]]
      /\ mm' = [mm EXCEPT !.pc = "alloc"]
      /\ UNCHANGED <<flags, buf, both, halt, build, asked, nforks, ghosts>>

\* alloc_mem: the n-th entry has the n-th megabyte from PROCS_BASE.
alloc_mem ==
  /\ mm.pc = "alloc" /\ Runnable(MM)
  /\ halt' = IF \E i \in 1 .. build.room : Slots[i] = mm.entry THEN halt ELSE "panic"
  /\ mm' = IF halt' = "no" THEN [mm EXCEPT !.pc = "child"] ELSE mm
  /\ UNCHANGED <<kernel, buf, both, build, table, asked, nforks, ghosts>>

\* A mutant of ForkAnswersChild: the child is told its own number.
ForkAnswersChildPid ==
  /\ mm.pc = "child"
  /\ \E c \in {mm.entry} :
       MMSends(c, Body("SYSCALL_RET", c, 0),
               [mm EXCEPT !.pc = "answer", !.answer = Body("SYSCALL_RET", c, 0)])
  /\ UNCHANGED <<build, table, asked, nforks, ghosts>>

\* The child's fork() returns 0 ...
ForkAnswersChild ==
  /\ mm.pc = "child"
  /\ \E c \in {mm.entry} :
       MMSends(c, Body("SYSCALL_RET", 0, 0),
               [mm EXCEPT !.pc = "answer", !.answer = Body("SYSCALL_RET", c, 0)])
  /\ UNCHANGED <<build, table, asked, nforks, ghosts>>

\* ... and the parent's the number of the child.
MMAnswers ==
  /\ mm.pc = "answer"
  /\ \E p \in {mm.src} : MMSends(p, mm.answer, MMIdle)
  /\ UNCHANGED <<build, table, asked, nforks, ghosts>>

-----------------------------------------------------------------------------
(***************************************************************************)
(* cleanup                                                                 *)
(***************************************************************************)

\* Tell the parent; task_mm then goes on to free the entry.
CleanupTells ==
  /\ mm.pc \in {"cleanup", "cleanup child", "cleanup orphan"}
  /\ \E c \in {mm.entry}, p \in {p_parent[mm.entry]} :
       MMSends(p, Body("SYSCALL_RET", c, exit_status[c]),
               [mm EXCEPT !.pc = CASE mm.pc = "cleanup" -> "free"
                                   [] mm.pc = "cleanup child" -> "free child"
                                   [] mm.pc = "cleanup orphan" -> "free orphan"])
  /\ UNCHANGED <<build, table, asked, nforks, ghosts>>

\* do_wait returns then, do_exit has the children of the process left, and
\* an orphan ends in assert(0).
CleanupFrees ==
  /\ mm.pc \in {"free", "free child", "free orphan"} /\ Runnable(MM)
  /\ flags' = [flags EXCEPT ![mm.entry] = {FREE_SLOT}]
  /\ asked' = [asked EXCEPT ![mm.entry] = "none"]
  /\ halt' = IF mm.pc = "free orphan" /\ build.asserts THEN "assert" ELSE halt
  /\ mm' = IF mm.pc = "free child" THEN [mm EXCEPT !.pc = "reparent"] ELSE MMIdle
  /\ UNCHANGED <<msg, recvfrom, sendto, has_int_msg, sending_queue, buf, both, build,
                 table, nforks, ghosts>>

-----------------------------------------------------------------------------
(***************************************************************************)
(* do_exit                                                                 *)
(***************************************************************************)

\* A mutant of ExitTells: WAITING stays set while the parent is told.
ExitTellsWaiting ==
  LET pid == buf[MM].source
      parent == p_parent[pid]
  IN  /\ Serves("EXIT") /\ WAITING \in flags[parent]
      /\ exit_status' = [exit_status EXCEPT ![pid] = buf[MM].body.status]
      /\ untold' = Append(untold, Exited(pid, parent, buf[MM].body.status))
      /\ mm' = [MMIdle EXCEPT !.pc = "cleanup child", !.src = pid, !.entry = pid]
      /\ UNCHANGED <<vars, build, p_parent, asked, nforks, raced>>

\* The parent is WAITING: it is stopped, so that nobody else changes its flags.
ExitTells ==
  LET pid == buf[MM].source
      parent == p_parent[pid]
  IN  /\ Serves("EXIT") /\ WAITING \in flags[parent]
      /\ exit_status' = [exit_status EXCEPT ![pid] = buf[MM].body.status]
      /\ flags' = [flags EXCEPT ![parent] = @ \ {WAITING}]
      /\ untold' = Append(untold, Exited(pid, parent, buf[MM].body.status))
      /\ mm' = [MMIdle EXCEPT !.pc = "cleanup child", !.src = pid, !.entry = pid]
      /\ UNCHANGED <<msg, recvfrom, sendto, has_int_msg, sending_queue, buf, both, halt,
                     build, p_parent, asked, nforks, raced>>

\* It is not: flags |= HANGING begins.
ExitReads ==
  LET pid == buf[MM].source
      parent == p_parent[pid]
  IN  /\ Serves("EXIT") /\ WAITING \notin flags[parent]
      /\ exit_status' = [exit_status EXCEPT ![pid] = buf[MM].body.status]
      /\ untold' = Append(untold, Exited(pid, parent, buf[MM].body.status))
      /\ mm' = [MMIdle EXCEPT !.pc = "hang", !.src = pid, !.read = flags[pid]]
      /\ UNCHANGED <<vars, build, p_parent, asked, nforks, raced>>

ExitHangs ==
  /\ mm.pc = "hang" /\ Runnable(MM)
  /\ flags' = [flags EXCEPT ![mm.src] = mm.read \cup {HANGING}]
  /\ mm' = [mm EXCEPT !.pc = "reparent"]
  /\ UNCHANGED <<msg, recvfrom, sendto, has_int_msg, sending_queue, buf, both, halt,
                 build, table, asked, nforks, ghosts>>

\* A mutant of ExitReparents: INIT is not told of a child it inherits dead.
ExitReparentsOnly ==
  LET orphans == {c \in Children : p_parent[c] = mm.src}
  IN  /\ mm.pc = "reparent" /\ Runnable(MM)
      /\ p_parent' = [p \in Procs |-> IF p \in orphans THEN INIT_ ELSE p_parent[p]]
      /\ mm' = MMIdle
      /\ UNCHANGED <<vars, build, exit_status, asked, nforks, ghosts>>

\* The children of the process, and every free entry that names it, go to INIT.
\* The first that is HANGING is told to INIT if INIT is WAITING, which it then
\* is no longer.
ExitReparents ==
  LET orphans == {c \in Children : p_parent[c] = mm.src}
      told == IF WAITING \in flags[INIT_]
              THEN First({c \in orphans : HANGING \in flags[c]}) ELSE {}
  IN  /\ mm.pc = "reparent" /\ Runnable(MM)
      /\ p_parent' = [p \in Procs |-> IF p \in orphans THEN INIT_ ELSE p_parent[p]]
      /\ flags' = IF told = {} THEN flags ELSE [flags EXCEPT ![INIT_] = @ \ {WAITING}]
      /\ untold' = [i \in DOMAIN untold |->
                     [untold[i] EXCEPT !.parent = IF @ = mm.src THEN INIT_ ELSE @]]
      /\ mm' \in IF told = {} THEN {MMIdle}
                 ELSE {[MMIdle EXCEPT !.pc = "cleanup orphan", !.entry = c] : c \in told}
      /\ UNCHANGED <<msg, recvfrom, sendto, has_int_msg, sending_queue, buf, both, halt,
                     build, exit_status, asked, nforks, raced>>

-----------------------------------------------------------------------------
(***************************************************************************)
(* do_wait.  An entry that names the caller is a child, a free one too.    *)
(***************************************************************************)

ChildrenOf(p) == {c \in Children : p_parent[c] = p}

\* A child whose flags are HANGING and nothing else.
WaitFinds ==
  LET pid == buf[MM].source
  IN  /\ Serves("WAIT")
      /\ \E c \in First({c \in ChildrenOf(pid) : flags[c] = {HANGING}}) :
           mm' = [MMIdle EXCEPT !.pc = "cleanup", !.src = pid, !.entry = c]
      /\ UNCHANGED <<vars, build, table, asked, nforks, ghosts>>

\* Children, but no such: flags |= WAITING begins.
WaitReads ==
  LET pid == buf[MM].source
  IN  /\ Serves("WAIT")
      /\ ChildrenOf(pid) # {} /\ \A c \in ChildrenOf(pid) : flags[c] # {HANGING}
      /\ mm' = [MMIdle EXCEPT !.pc = "mark", !.src = pid, !.read = flags[pid]]
      /\ UNCHANGED <<vars, build, table, asked, nforks, ghosts>>

WaitMarks ==
  /\ mm.pc = "mark" /\ Runnable(MM)
  /\ flags' = [flags EXCEPT ![mm.src] = mm.read \cup {WAITING}]
  /\ mm' = MMIdle
  /\ UNCHANGED <<msg, recvfrom, sendto, has_int_msg, sending_queue, buf, both, halt,
                 build, table, asked, nforks, ghosts>>

\* No children: wait() returns -1.
WaitFails ==
  LET pid == buf[MM].source
  IN  /\ Serves("WAIT") /\ ChildrenOf(pid) = {}
      /\ mm' = [MMIdle EXCEPT !.pc = "answer", !.src = pid,
                              !.answer = Body("SYSCALL_RET", NO_TASK, 0)]
      /\ UNCHANGED <<vars, build, table, asked, nforks, ghosts>>

-----------------------------------------------------------------------------
do_fork == \/ ForkFails \/ ForkCopiesRegs \/ ForkCopiesFlags \/ ForkCopiesRest
           \/ alloc_mem \/ ForkAnswersChild
do_exit == ExitTells \/ ExitReads \/ ExitHangs \/ ExitReparents
do_wait == WaitFinds \/ WaitReads \/ WaitMarks \/ WaitFails

task_mm == MMReceive \/ do_fork \/ do_exit \/ do_wait \/ CleanupTells \/ CleanupFrees \/ MMAnswers

PNext ==
  \/ \E u \in Users :
       \/ \E type \in Calls[u], status \in Statuses \cup {0} : Call(u, type, status)
       \/ AwaitReply(u) \/ Return(u)
  \/ task_mm

PSpec == PInit /\ [][PNext]_pvars

-----------------------------------------------------------------------------
(***************************************************************************)
(* Properties                                                              *)
(***************************************************************************)

\* Where fork(), wait() and exit() can stop the machine.  With assert() compiled
\* in, every fork() that finds an entry and memory does, when task_mm answers the
\* child (kernel/proc.c:65 against mm/forkexit.c:31); a fork() without memory
\* panics; otherwise only a caller that did its RECEIVE while task_mm was inside
\* an update of its entry leads to a failed assert or a deadlock panic.  (Where
\* assert() is not compiled in, the model stops where its condition fails.)
HaltsKnown ==
  halt # "no" =>
    \/ build.asserts /\ halt = "assert" /\ mm.pc = "child"
    \/ halt = "panic" /\ mm.pc = "alloc"
    \/ ~build.asserts /\ raced # {}

\* What the calls return, unless the caller raced with task_mm.  wait(): a child
\* of the caller that called exit() with that status and that no wait() returned
\* before; -1 only if the caller has no child, live or dead.  fork(): 0 to a
\* process that has a parent; to the parent a process it is the parent of.  exit()
\* does not return.
CallsTellTruth ==
  \A u \in Users \ raced :
    LET m == buf[u]
    IN  Returns(u) =>
          /\ m.source = MM /\ m.body.type = "SYSCALL_RET"
          /\ asked[u] = "WAIT" =>
               IF m.body.pid = NO_TASK
               THEN \A c \in ChildrenOf(u) : flags[c] = {FREE_SLOT}
               ELSE Contains(untold, Exited(m.body.pid, u, m.body.status))
          /\ asked[u] = "FORK" /\ m.body.status = 0 =>
               IF m.body.pid = 0 THEN p_parent[u] \in Users \ {u}
               ELSE m.body.pid \in ChildrenOf(u) /\ flags[m.body.pid] # {FREE_SLOT}
          /\ asked[u] # "EXIT"

\* Nobody waits for ever on somebody who waits: when no process can run and
\* nobody raced, task_mm is ready for the next request, and every process has
\* exited and keeps its entry for its parent, or is in a wait() which no child
\* can end: none of them is HANGING in the way do_wait looks for.
RestsOnlyInWaits ==
  (halt = "no" /\ raced = {} /\ \A p \in Procs : ~Runnable(p)) =>
    /\ mm.pc = "serve" /\ Awaits(MM, INIT_) /\ recvfrom[MM] = ANY
    /\ \A u \in Users :
         \/ flags[u] = {FREE_SLOT}
         \/ HANGING \in flags[u] /\ asked[u] = "EXIT" /\ FREE_SLOT \notin flags[p_parent[u]]
         \/ /\ flags[u] = IF both[u] = NO_TASK THEN {RECEIVING, WAITING} ELSE {WAITING}
            /\ asked[u] = "WAIT"
            /\ \A c \in ChildrenOf(u) : flags[c] # {HANGING}
=============================================================================

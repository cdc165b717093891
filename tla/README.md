# Specifications of lwos

TLA+ specifications of lwos, a small x86 operating system: a kernel that
schedules processes and passes messages between them, and a set of tasks
(system, terminal, disk, file system, memory) that are ordinary processes
talking to each other and to user programs by message only. What everything
else rests on is `sendrec()` in `kernel/proc.c`. The project starts there, with
the scheduler, and follows the tasks built on top of it: system, terminal with
keyboard and console, disk, file system, memory manager.

`PROJECT.json` lists the components, the runs, the source lines of every
definition (`map`), the hazards, the findings and the theorems.

## The system

| Part | Source | State | How it interacts |
|---|---|---|---|
| Message passing | `kernel/proc.c` | `flags`, `msg`, `recvfrom`, `sendto`, `has_int_msg` and the list `sending_queue`/`next_sending` of each `PROCESS` | every task and program calls `send_recv`; interrupt handlers call `inform_init` |
| Scheduler, clock | `kernel/proc.c`, `kernel/clock.c` | `ticks`, `priority`, `p_proc_ready`, `k_reenter` | `block()` and `clock_handler` call `schedule`; `clock_handler` informs `TASK_TTY` |
| Interrupt entry | `kernel/kernel.asm`, `i8259.c` | `k_reenter`, masks | a system call runs with interrupts enabled |
| System task | `kernel/systask.c` | `ticks` | answers `get_ticks()`, `getpid()`, `get_time` |
| Terminal task | `kernel/tty.c`, `console.c`, `keyboard.c` | ring buffers, cursor, suspended reader | informed by the clock when `key_pressed`; serves FS; sends `RESUME_PROC` to FS |
| Disk driver | `kernel/hd.c` | command in progress, status | informed by `hd_handler`; serves FS; asks `TASK_SYS` for the time |
| File system task | `fs/*.c` | `f_desc_table`, `inode_table`, maps and directory on disk | serves programs and MM; calls HD and TTY |
| Memory manager | `mm/*.c` | slots of `proc_table`, `FREE_SLOT`, `HANGING`, `WAITING` | serves `fork`, `exit`, `wait`; tells FS |
| Library | `lib/*.c` | – | each call is one `send_recv(BOTH)` |
| Boot, protection, formatting | `boot/`, `kernel/start.c`, `protect.c`, `lib/printf.c` | – | straight-line set-up, text |

## Modules

| Module | Models | Role |
|---|---|---|
| `IPC` | `sys_sendrec`, `send_recv`, `msg_send`, `msg_receive`, `deadlock`, `inform_init` | the detailed specification, one action per call |
| `Rendezvous` | – | what `sendrec()` promises: the abstract specification |
| `IpcIrq` | the same calls with interrupts between their statements, `task_tty`'s loop, `interrupt_wait` of `task_hd`, `clock_handler`, `keyboard_handler`, `hd_handler` | extends `IPC` |
| `Sched` | `schedule`, `clock_handler`, `block`, system call entry and exit | one action per iteration of the loops |
| `SysTask` | `task_sys`, `get_ticks`, `getpid`, the wrap of `ticks` | a composition over `IPC` |
| `Console` | `init_screen`, `out_char`, `scroll_screen`, `select_console`, `flush`; `sys_printx` as a second caller | one action per statement that matters |
| `Keyboard` | `keyboard_handler`, `keyboard_read`, `get_byte_from_kbuf` | one action per byte |
| `Ring` | `kb_in`, `inbuf` | the ring buffers as operators |
| `Terminal` | `task_tty`, `in_process`, `tty_do_read`, `tty_do_write`, and FS as the client between it and the users | a composition over `IPC` |
| `HardDisk` | `task_hd`, `hd_open`, `partition`, `hd_rdwt`, `waitfor`, `hd_handler`; the drive | one action per register access that matters |
| `ReadWrite` | `do_rdwt`, `rw_sector`, `sync_inode` | a composition over `HardDisk` |
| `Files` | `do_open`, `do_close`, `do_unlink`, `fs_fork`, `fs_exit`, `get_inode`, `put_inode`, `search_file`, `new_dir_entry`, `mkfs` | one action per request of `task_fs` |
| `Processes` | `task_mm`, `do_fork`, `do_exit`, `do_wait`, `cleanup`, `alloc_mem`; `fork`, `exit`, `wait` | a composition over `IPC` |
| `MC*` | – | instances for TLC |
| `IPCProofs`, `RefinementProofs` | – | the proofs about `IPC`; the second also has its steps, the refinement and `SysTask` |
| `IrqProofs` | – | the proofs about `IpcIrq` |
| `TerminalProofs` | – | the proofs about `Terminal`, over those about `IPC` |
| `FilesProofs` | – | the proofs about `Files` |
| `DiskProofs`, `TransferProofs` | – | the proofs about `HardDisk` and `ReadWrite`; the second also about `Sched` |
| `ConsoleProofs` | – | the proofs about `Console`, and about `Ring` |

### IPC

The variables are the fields of `PROCESS`, as functions of the process number.
`flags` is the set of the flags that are set, so `{}` is the code's 0; `msg` says
whether the pointer is set, because it only ever points to the caller's own
message, which is `buf`; the linked list is a sequence, oldest sender first.
`both` remembers that a process is between the two halves of `send_recv(BOTH)`,
and `halt` that an `assert` or the panic of `deadlock()` has stopped the machine.

`msg_send` and `msg_receive` have three outcomes each, and every outcome is an
operator of its own (`SendPanic`, `SendDeliver`, `SendBlock`, `ReceiveInt`,
`ReceiveQueued`, `ReceiveBlock`). The `assert()`s of a path are collected in
`AssertThat`, which sets `halt` when one of them is false. `deadlock(src, dest)`
is stated as a closure (every set that contains `dest` and is closed under
blocked sends contains `src`), which needs no recursion and so can be reasoned
about; `MCIPC` states the loop as it is written (`Walk`) and the run `ipc`
compares the two.

Two assumptions are written into the actions. A task that takes interrupts has
none pending and gets none while it is in a dialogue with one particular
process (`InDialogue`, `MayTalk`): `task_tty` only ever waits with RECEIVE ANY,
and `hd.c` talks to `TASK_SYS` only while no disk command is outstanding. Without
it `assert(has_int_msg == 0)` at `proc.c:485` would fail. And RECEIVE from
INTERRUPT computes an address before `proc_table`; the memory there is taken not
to look like a process that is sending to the caller.

### IpcIrq

`sys_call` in `kernel.asm` executes `sti`, so the calls above are not atomic.
`IpcIrq` cuts those of the terminal, its clients and the disk task into the steps
between which `inform_init(TASK_TTY)`, called by the clock, or `inform_init(TASK_HD)`,
called by the drive's interrupt, makes a difference; `call.pc` says which statement
comes next. Of `task_hd` there is what matters here: it has given the drive something
to do, and waits for the one interrupt that ends it. Statements an interrupt cannot touch stay together: queueing up a
sender, and taking the message of a blocked one, change only processes that are
SENDING and the list of the caller, neither of which `inform_init` reads or
writes. A store through a `msg` pointer that has become 0 goes to address 0 and
changes no buffer.

### Sched

`schedule()` is modelled one process at a time, with the comparison and the
assignments it guards as two steps (`TestProc`, `TakeProc`), because a tick can
come between them. `mode` says where the processor is; `ctx` who called, since
the clock's handler masks the clock itself. Blocking and unblocking are
nondeterministic here: what a process is blocked for is the subject of `IPC`.
`Priority` is a constant. The instance has the priorities 3, 1 and 2, standing
for those declared in `task_table` and `user_process_table`; `SourcePriority`
is what `proc_table` really holds (see Findings).

### SysTask

Clients call `get_ticks()` and `getpid()` through the actions of `IPC`.
`task_sys` takes a request and answers from its one message variable. `seen` is
a history variable: the values `ticks` has had since a client called.

### Files

`task_fs` takes the next message when it has answered the last, so a request is
one action; every boot makes a new file system, so nothing has to survive a
crash. The tables are those of the code; a slot of `inode_table` with count 0 is
`NoSlot`, since its contents are never read again. All files have the same number
of sectors and the sector map is allocated in runs of that length, so it is kept
in units of such runs (extents). The directory is its entries and its size
(`i_size`), because the code is about the difference: `search_file` looks one entry
further than `i_size`, and `do_unlink` recomputes it. `LongNames` are names that
fill the 12 characters of an entry; for them `new_dir_entry` writes the
terminating zero into the next entry. An entry that has lost its inode number in this
way keeps its name, and `strcpy` of a shorter one over it leaves a tail: the constant
operator `strcpy` says what the field holds then, and `Leftovers` are the fields that
are nobody's name. `do_unlink` frees inode, bits and sectors before it looks for the
entry, and that is also what an unlink stopped by `assert(flg)` leaves behind.
`fork()` is two steps, the copy of the slot
by the memory manager and the FORK message, with requests of others in between.
FS is modelled as its own code has it: that the kernel of today refuses a forked
process as the partner of a message (`proc.c:65`) is in `Processes`. Clients close
only what they have opened.

### Console and Keyboard

Both consoles and keyboard are modelled alone: they share no state with each
other, and `Terminal` uses what they promise (a key is reported once, output
returns). A console is its cursor, the first line on the screen (`crtc_start`) and
`is_full`; a cell is its address, characters are left out. Console 0 has two
callers. `task_tty` can be preempted between any two statements; `sys_printx`
prints from within the kernel, where nobody else runs. So a statement of
`task_tty` is a step of its own wherever a print in between could change the
outcome (`job[w].pc`), and `raced` remembers that this has happened. The keys that
scroll do so on the console `keyboard_read` was called for, which need not be the
current one any more, so `ScrollKey` takes any console.

`Keyboard` has the bytes on the wire, in `kb_in`, and in the hands of
`keyboard_read`, and, written down separately from the keys held, what
`in_process` should be told. One key of each kind stands for those treated alike:
a letter, a modifier, a lock, keypad keys, E0 keys, Print Screen and Pause. `kb_in`
is a sequence, which `Ring` justifies.

### Terminal

Users call `open`, `read` and `write`; FS hands each call to `task_tty` and answers
the user, except that `task_tty` suspends a read at once and sends `RESUME_PROC`
when its line is complete. `tty_pc` is where `task_tty` is in its loop over the
terminals. Everything goes through the actions of `IPC`, so asserts, the panic of
`deadlock()` and blocked sends are those of the kernel. Keys arrive decoded.

### HardDisk and ReadWrite

The drive is external: status, data and command registers, one interrupt per
sector. `task_hd` polls the status with `get_ticks()` for a clock, whose wrap and
32-bit arithmetic are kept (`Elapsed`, with `INT` for 2^32). `partition` walks the
tables of the drive, which are made from a plan (`Plans`) that says what the
partitions should be. `ReadWrite` adds one `read()` or `write()` at a time, cut into
chunks of at most `bufsize` sectors, the size of `fsbuf`, which is chosen at the start
(`FsbufSizes`). A descriptor that has created its file without `O_RDWR` (`rdwr`) gets 0 at
once. A byte is a number of its own, so `TransferRight` can say which byte went where.

### Processes

`task_mm` changes entries of `proc_table` while their owners may run: a caller that
has sent its request and not yet done its RECEIVE has `flags` 0 and may do it at any
moment. So `*p = proc_table[pid]` is three steps (registers, `flags`, the rest) and
`flags |= X` is two. `raced` are the processes whose RECEIVE fell inside. The registers
are copied in one step: a caller that runs between two words of them, on its way to its
RECEIVE, would leave the child registers of two moments, and what such a child does is
not modelled. `build`
says whether `assert()` is compiled in (`ASSERT` in `include/stdio.h`) and how much
memory there is; both kinds of build are explored. `untold` are the exits no
`wait()` has returned yet. The messages MM sends to FS are answered at once; what
FS does with them is in `Files`.

## Runs

| Run | Instance | What it shows |
|---|---|---|
| `ipc` | four processes, one takes interrupts, one message | every invariant and action property of `IPC`; `IPC` implements `Rendezvous` |
| `sched` | three processes, priorities 3, 1, 2 | only ready processes run; `schedule()` returns; nobody starves |
| `ipc_irq` | terminal, two clients, disk task | consistency after interrupted calls; keys and the ends of disk commands are noticed |
| `systask` | system task, three clients, `ticks` wraps at 3 | the right answer to every call, and every call returns |
| `files` | a process and its child, three files (one with a long name), one console, two descriptors each | counts, cache, maps and directory stay consistent |
| `devices` | two consoles of three lines, or a keyboard with one of three sets of keys | cursor, screen and registers; keys |
| `terminal` | two users, two terminals, two keys | where the machine can stop; readers; no waiting in a circle |
| `disk` | two ways to divide a drive of 25 sectors, two sizes of `fsbuf`, three calls on a file of 5 | interrupts, partitions, bytes; requests return |
| `processes` | INIT and three entries to fork into | where the machine can stop; what the calls return; who is left waiting |
| `sched_priority`, `irq_asserts`, `files_unlink` | as above | the findings, each a counterexample |

The properties of `ipc`:

- `AssertsHold`: none of the asserts of `proc.c` fails.
- `QueueHoldsSenders`: the list of a process holds its blocked senders, each once.
- `NoMissedRendezvous`, `NoMissedInterrupt`: nobody sleeps on what is already there.
- `SendGraphAcyclic`, `WalkFindsCycle`: blocked sends form no cycle, so the loop
  of `deadlock()` ends, and it finds a cycle exactly when there would be one.
- `WakesWithItsMessage`, `DeliveredOnce`: a receiver wakes only with a message it
  asked for, a sender only because its message was taken.
- `SendersKeepTurn`: no sender is overtaken by a later one that stays in the list.

The properties of `files`: `SharedRight` (`fd_cnt` is the number of descriptors that
share an entry), `InUseStays` (`i_cnt` covers all open descriptors), `CacheRight`
(cached inodes are allocated, cached once, and equal to the disk's),
`SectorsRight` (the sector map is exactly the files' sectors, and files do not
overlap), `EntriesRight` (entries name allocated inodes, each once, unless an assert has
stopped `do_unlink` halfway).

The other runs:

- `RestConsistent`, `InterruptsSeen`: after an interrupted call the tables are consistent,
  the terminal task gets every key and `task_hd` returns from `interrupt_wait`, wherever
  the interrupts came; both unless an assert has stopped the machine.
- `CursorInside`, `FailsOnlyByRace`, `ScreenRight`, `OutCharReturns`: the cursor stays
  in its region whatever races with it; the asserts of `out_char`, the lines shown,
  the cells written and the registers are right unless the kernel printed in the
  middle of a call of `task_tty`; calls return, except from the scroll loop in two
  named situations (`Endless`, see Observations).
- `KeysRight`, `SpinIsShort`: `in_process` gets the keys pressed, each once, in
  order, with the modifiers of that moment, wherever interrupts cut the bytes; the
  loop in `get_byte_from_kbuf` waits only for bytes that are on their way. Excepted
  are lost bytes, Pause, and a key after Print Screen or Pause in the same call.
- `HaltsOnlyAtResume`, `ReaderKept`, `RestsOnlyInReads`: the only stop is the deadlock
  panic between `RESUME_PROC` and a request of FS; a suspended read is forgotten
  only when another replaces it or it asked for nothing; at rest, both tasks are
  ready and everybody else is in a `read()`.
- `InterruptsMatched`, `PartitionsRight`, `TransferRight`, `RequestsReturn`: no disk
  interrupt comes unawaited, which is the discipline `IPC` assumes of `TASK_HD`;
  `hd_info` is what the tables say; `read()` and `write()` inside the file move
  exactly their bytes and leave `i_size` where it should be, no `read()` changes the
  file's sectors, and after any call the inode on the disk has the size; a request of at most 256 sectors returns unless the driver
  panics, and it panics only after the timeout or a wrap of `ticks`.
- `HaltsKnown`, `CallsTellTruth`, `RestsOnlyInWaits`: fork, exit and wait stop the
  machine only in named places; they return the truth to callers that did not race
  with `task_mm`; at rest every process has exited or is in a `wait()` that no child
  can end.

**Bounds.** With four processes a list holds up to three senders, so one is
unlinked from its head, middle and end, and a chain of blocked sends is long
enough for a cycle that a look at one neighbour misses. One message suffices
there, because the source tells messages apart. The clients `a`, `b`, `c` are interchangeable, and the
run `ipc` has no liveness property, so it uses symmetry. In `sched` three
processes give a first, a middle and a last iteration of each loop. In `systask`
three clients make a queue of two behind the one being served, and `ticks` wraps
within a single call. In `files` the tables are small enough for each of them to
run full (`panic`), a parent and a child share descriptors, and with three files an
entry is freed before, and behind, one in use, an entry loses its number to the long
name before it and is given to a shorter one, and an unlink stops halfway; `MAX_CNT`
bounds the references that refused calls of `unlink()` leave behind, and the third
file is there only while there is one process (`MCNext`). `files_unlink` has one process and
three files.

In `devices` a region has three lines of two cells and a screen two: the cursor wraps,
the screen scrolls to either end, `crtc_start` can pass the region's end after a race
and 2^32 is small (16) so that it wraps. Output on the second console is kept to two
lines. `kb_in` has three bytes, so that a sequence of Print Screen or Pause fills it; each set
of keys holds those that influence each other. In `terminal` the buffer holds two
characters and two keys are typed (`MaxKeys`), enough for a line with its newline,
a character with its erasure, or a key and a switch of terminals; `Requests` gives one
user the read of nothing and the other the competing calls. In `disk` `COUNT`
(sectors per command) is 3 and a buffer has 2 sectors or 4: with 2 a call meets one
chunk and two, with 4 a request too long for `cmd.count`; sectors have two bytes, so there are
odd beginnings and ends; `ticks` wraps at 6, within one timeout; one plan has more
logical partitions than `NR_SUB_PER_PART`. `MaxCalls` is 3: write, read back, once more
after `close` and `open`. In `processes` three entries are needed for an orphan: INIT's
child forks and exits before its own child, while INIT waits. `Calls` says which
entries fork and wait, `MaxForks` is 3 (one more when the table is full), and after
a race nobody forks (`InBounds`), since nothing is claimed of what follows.

The bounds that cut behaviours off are `MAX_CNT`, in `MCFiles` the third file, `MaxKeys`, `MaxCalls`, `MaxForks`,
`InBounds`, `Requests`, `Calls`, and in `MCDevices` the output on the second console
and that the user stops typing once a byte is lost. Only `sched` and `systask` report
deadlock: elsewhere all processes may legitimately wait for each other, a panic or a
failed assert stops the machine, or the bounded user has nothing more to do. Where
waiting would be wrong an invariant says so (`RestsOnlyInReads`, `RestsOnlyInWaits`).

**Fairness.** `Sched`: the processor executes the statements of `schedule()` and
finishes the system call it is in (weak fairness); clock interrupts are
asynchronous to the processes, so the clock does not find every process inside
the kernel each time (strong fairness of `ClockUser`). `ScheduleReturns` and
`ReadyRuns` also assume `Quiet`: from some point on the clock does not strike
`schedule()` while it has a process to choose. The loop keeps its candidate in
`p_proc_ready`, where a tick is charged to a process that has not run; a clock in
step with the loop could drain every process that way, and with a loop of a few
instructions against a period of 10 ms it does not. `IpcIrq`: strong fairness of
the tasks' and the clients' steps stands for what `Sched` establishes, and of
`ClockInforms` outside system calls for the asynchronous clock; weak fairness of
`DiskInforms`, since the drive ends what it is given. `SysTask`: weak
fairness of each process, once it can run; clients need never call. `Console`:
strong fairness of each caller in the middle of a call, because `task_tty` stands
still whenever the kernel prints, and is scheduled again afterwards. `HardDisk` and
`ReadWrite`: weak fairness of `task_hd`, of `task_fs` and of the drive, which finishes
what it is told; nothing is assumed of the clock.

## What is proved

About `IPC`, for every set of processes, every set of interrupt tasks and every set of
message bodies, from `ConstantsAssumption` (the special process numbers differ from each
other and from real ones):

| Theorem | Says |
|---|---|
| `IPCProofs!Inductive` | `Spec => []IInv` |
| `TypeCorrect`, `AssertsNeverFail`, `QueueIsSenders`, `NoRendezvousMissed`, `NoInterruptMissed`, `NoSendCycle` | the invariants of the run `ipc` |
| `RefinementProofs!WakesRight`, `DeliveredRight`, `TurnsKept` | its action properties |
| `RefinementProofs!Refinement` | `Spec => ImplementsRendezvous` |

About the other modules, each from the assumption on constants its module states:

| Theorem | Says |
|---|---|
| `RefinementProofs!DialogueNeverHalts`, `AnswersRight`, `DialogueIsIPC` | for any number of clients (`SysAssumption`): no dialogue with `task_sys` stops the machine, each client gets the answer to its own request, and `SSpec => Spec`, so the theorems about `IPC` hold of it |
| `IrqProofs!TablesConsistentAtRest` | for any set of clients (`TTYAssumption`: terminal and disk take interrupts): between system calls the tables are consistent, wherever interrupts have cut into the calls before |
| `TerminalProofs!TerminalsInductive`, `StopsOnlyAtResume`, `ReadsKept`, `NobodyStuck` | for any users, terminals, requests and keys (`TerminalAssumption`): the invariants of the run `terminal` |
| `FilesProofs!FilesInductive`, `SharingRight`, `OpenFilesStay`, `CacheMatchesDisk`, `NoSectorShared`, `DirectoryRight` | for any processes and names and all sizes of the tables (`FilesAssumption`: the inode map and the directory have room for a file in every extent and for the terminals; `NamesAssumption`: what `strcpy` leaves over an old name): the invariants of the run `files` |
| `DiskProofs!DriverAndDriveInStep`, `PartitionsFound`; `TransferProofs!BytesMovedRight` | for any partition tables, files, buffers and calls (`HardDiskAssumption`, `ReadWriteAssumption`): `InterruptsMatched`, `PartitionsRight`, `TransferRight` |
| `TransferProofs!OnlyReadyRuns`, `TicksBounded` | for every N and all priorities, `schedule()` returns only with a ready process, and no process has more ticks than its priority |
| `ConsoleProofs!CursorStaysInside`, `AssertsFailOnlyByRace`, `ScreenStaysRight` | for screens and regions of every size and any number of consoles (`ConsoleAssumption`: a screen is whole lines, at least two, and fits in a region; regions are less than half of 2^32) |
| `ConsoleProofs!EmptyAtFirst`, `PutAppends`, `TakeRemoves` | for every size of the array, the ring buffer of `Ring` is a bounded first-in first-out queue |

**The invariant of IPC.** None of the asserts is inductive alone. `IInv` adds
`FieldsAgree` (a process that is not blocked has clean fields; one that is SENDING
or RECEIVING has exactly that flag, a message, and a partner other than itself)
and `CallInv` (what a blocked sender's buffer holds, and that a BOTH in progress
has no interrupt pending). Each outcome of a call has a lemma that it preserves
`IInv`. Two carry the argument. `NoNewCycle`: if `deadlock(p, dest)` is false,
some closed set contains `dest` and not `p`, so a set of processes that closed a
cycle through the new edge would, cut down to that closed set, have been a cycle
before. `RemoveMember`: removing a sender from an injective list leaves the
others, in their order.

**Refinement.** `sendto` maps to `offer`, `recvfrom` to `want`, `has_int_msg` to
`irq`; `FieldsAgree` is what makes the flags redundant. Lists, flags and asserts
disappear, so `Rendezvous` says which message may go where, not who comes first.

**The invariant of SysTask.** `SInv` adds to `IInv` where each client is (asking,
owed an answer, or answered) and where `task_sys` is (ready, waiting, holding a
request, or answering), with the message each of them has. A blocked send leads to
`task_sys`, or from it to a client that is owed an answer and does not send: the set
of such processes is closed, so `deadlock()` finds no cycle.

**The invariant of IpcIrq.** Within a call a process has some fields written and
others not. `IrqInv` lists, per value of `call.pc`, which fields of the caller are out
of step (`Writing`, `PcInv`); every other process is `Settled`. An interrupt changes the
task it informs and nobody else, one lemma for clock and drive (`InformsInv`). It says nothing once
an assert has failed, which interrupts can bring about (see Findings).

**The invariant of Terminal.** `TInv` says of each user whether it asks, is owed an
answer, or is settled; for `task_fs` and `task_tty`, which of their few situations
they are in and about which user; and where the line of a suspended `read()` is: at
its terminal, in the message `RESUME_PROC`, or with `task_fs` (`LineInv`, `KeptInv`).
`RestsOnlyInReads` follows because in every situation where a task waits for the
other, the other has a step.

**The invariant of Files.** Each of the five invariants uses the others: a descriptor
released must have been counted, a slot freed must not be in use, the inode written
back must be the one on the disk. `FilesInv` is their conjunction with three more:
`ForkInv` (between the memory manager's copy and the FORK message the child's slot is
its parent's), `SlotsInv` (a free slot is empty; the root directory has the first),
and `CountInv`, without which the directory could run full: there are as many inodes
as extents in use and terminals. An unlink that `assert(flg)` stops leaves an entry that
names a freed inode, so `InductiveInv` keeps all of `FilesInv` while FS runs, and after a
stop what does not speak of the entries (`TablesInv`).

**The invariant of the disk.** `InterruptsMatched` holds because the drive never has
more sectors to go than the driver. `DriveInv` says so for each place of the driver;
`RequestInv` adds that a request is for one sector at least, which is why the loop of
`do_rdwt` tests before it asks.

`PartitionsRight` also needs which sector the drive is at (`SectorInv`: the one the
driver means, counted from the command) and how far `partition()` has come (`PartInv`:
nothing opened, reading the first table, at its i-th entry, at the k-th table inside
the i-th entry, or done, and which entries of `hd_info` are filled at each). The
plans are assumed to be what a partitioning program writes (`IsPlan`: extended
partitions do not overlap, every logical partition's table lies in its own sector
inside its extended partition) with the file system's partition among them
(`HasRoot`); nothing is assumed of how many there are.

`TransferRight` needs `TransferInv`: how far the loop of `do_rdwt` has come
(`NumbersInv`), how many sectors of the chunk have been moved (`Progress`), and byte by
byte that the disk and `fsbuf` have what they should have, except the bytes still to be
written (`AsDue`). `NumbersInv` also has the size the file should get: `i_size`, or where
the bytes still to be moved will end. The argument is arithmetic: a byte of the i-th sector lies in the
user's buffer at `Place`, chunk after chunk, and bytes of other sectors lie outside the
part of the buffer the chunk stands for (`ChunkPlaces`).

**The invariant of Sched.** `RunsReady` says nothing while `schedule()` is at work,
so `Candidate` adds what the loop maintains: a candidate that has been found, and
the process about to be taken, are ready. Interrupts only unblock.

**The invariants of Console.** `CursorInside` is not inductive: it says nothing of the
cursor a caller is about to store, nor why the kernel, coming in the middle of a
wrap, does not carry a cursor of `con_size` on. `CursorInv` adds that a value to be
stored is at most `con_size` (with `LinesFit`, the arithmetic of a newline), that
the kernel between its assert and its store still finds the cursor inside, and
that both callers are at work only if the kernel came second. `ScreenInv` adds, as
long as there has been no race, what the locals of a call mean (`JobRight`): above
all that `scroll_screen` has decided on a screen inside the region, which is
`ScrollsInside`, a fact about multiples of the width; and that the registers can be out of date only
for a console with a call under way.

Only model-checked: all liveness properties (`ScheduleReturns`, `ReadyRuns`,
`InterruptsSeen`, `CallsReturn`, `OutCharReturns`, `RequestsReturn`), which need fairness;
`WalkFindsCycle`, which is about a recursive definition; `KeysRight` and `SpinIsShort`,
which follow sequences of bytes through the decoder and would need induction over
them; the properties of `Processes`. `MCDevices`
also evaluates what is proved of `Ring` on the buffers of up to three bytes.

## Findings

- **Priorities are never assigned** (`sched_priority`). `kernel/global.c` declares
  a priority for every task, but nothing copies it to `PROCESS.priority`. In the
  zero-initialised `proc_table` the reload `p->ticks = p->priority` stores 0 and
  `schedule()` never returns.
- **Asserts race with interrupts** (`irq_asserts`). A clock interrupt between the
  statements with which `msg_receive` puts `task_tty` to sleep, or a disk interrupt
  between those that put `task_hd` to sleep, makes one of the asserts of `block()`,
  `msg_receive()` or `inform_init()` false.
- **A file falls out of the directory** (`files_unlink`). Create a, b and c, unlink
  a, then c: `do_unlink` sets `i_size` to the number of entries still in use, but b
  sits behind the free entry of a. `search_file` still finds it, one place behind
  `i_size`; `do_unlink` of b frees its inode and sectors and then fails
  `assert(flg)`.

`ipc_irq` shows what remains true: as long as no assert has stopped the machine,
the tables are consistent after every call.

## Observations

What the models show or had to take into account, without a line of the
repository that says otherwise:

- Messages: a clock interrupt between `assert(pdest->msg)` and `phys_copy` in
  `msg_send` takes the receive buffer away, and the message is lost (`ipc_irq`).
- Console: printing from the kernel inside a call of `task_tty` can fail an assert of
  `out_char` or leave the screen outside the region. The scroll loop of `out_char`
  does not end when backspaces have led the cursor above the screen of a console
  that has never wrapped, or when the screen is outside the region. `clear_screen`
  can run over the end of the region by less than a line.
- Keyboard: `PAD_RIGHT` is defined as `PAD_5`. After Print Screen or Pause, `key`
  keeps its value for the rest of the call. `make` is read uninitialised on Pause.
- Terminal: `RESUME_PROC` against a request of FS is taken for a deadlock and
  panics; a second reader of a terminal replaces the first for good; what is typed
  while nobody reads is thrown away; a read of 0 bytes is suspended for ever.
- Disk: a request for more than 256 sectors never returns. `MAX_IO_BYTES` is
  honoured in `fs/disklog.c` only; a transfer of `do_rdwt` that needs more than one
  chunk begins with such a request. `read()` does not stop at the end of the file: it moves
  `i_size` on, as `write()` does, and writes the inode. `write()` can pass the file's last
  sector; what `TransferRight` says of bytes and `i_size` is about calls that do neither. `waitfor` panics early when `ticks` wraps: `MAX_TICKS` is 2^31 - 21555, so
  that `(get_ticks() - t) * 1000` modulo 2^32, divided by `HZ`, is at least 215550,
  past `HD_TIMEOUT`; the constants of `MCDisk.cfg` keep that relation.
- Processes: with `assert()` compiled in no `fork()` completes (`proc.c:65` admits
  only native processes; `proc_table` is declared for those only). Without, a `fork()`
  that finds no entry returns whatever `PID` held. `wait()` finds an exited child only
  if the child has not yet done its RECEIVE, since `do_wait` compares `flags` with
  HANGING alone. A freed entry keeps its `p_parent`, so `wait()` without children
  blocks. Updates of `flags` by `task_mm` can overwrite those of the kernel.

## Not modelled

- `GET_RTC_TIME`: the registers of the clock chip are copied to the client; whether
  they fit together depends on the chip.
- The bits of the inode and sector maps: `Files` has sets in their place.
  `alloc_imap_bit` and `alloc_smap_bit` search them sequentially.
- `set_leds` with `kb_wait` and `kb_ack`, which poll the keyboard controller: they are
  taken to return, and `kb_ack` to throw away no byte of a key.
- `hd_close` and `do_lseek`, which nobody calls; `print_identify_info`, `tty_dump`,
  `dump_proc`, which print.
- `exit()` of a native process, which would use `proc_table[NO_TASK]`; no native
  process calls it.
- Boot code, descriptor tables, the interrupt controller, exceptions, `printf` and the
  string functions: set-up and text, with no state shared between processes.
- The disk log (`fs/disklog.c`), which is compiled out.

Not composed: all tasks at once. Each composition has the tasks that talk to each
other (users, FS and TTY; FS, the driver and the drive; users and MM), and the calls to
further tasks are answered as the module about them shows.

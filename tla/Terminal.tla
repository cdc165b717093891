------------------------------ MODULE Terminal ------------------------------
(***************************************************************************)
(* Terminals in use, composed over IPC: user processes call open(), read() *)
(* and write() on terminals, which task_fs (fs/main.c, fs/read_write.c,    *)
(* fs/open.c) hands on to task_tty (kernel/tty.c).  A read() is answered   *)
(* in two parts: task_tty suspends it at once and, when the line is typed, *)
(* sends RESUME_PROC to task_fs, which then answers the user.              *)
(*                                                                         *)
(* Keys come from module Keyboard, already decoded; what out_char does to  *)
(* the screen is in module Console.  A message body is a record [type,     *)
(* cnt, proc, dev] for the fields type, CNT, PROC_NR and DEVICE.           *)
(***************************************************************************)
EXTENDS IPC, Integers

CONSTANTS
  TTY, FS,          \* TASK_TTY and TASK_FS
  NR_CONSOLES,      \* terminals
  TTY_IN_BYTES,     \* length of a terminal's buffer
  Requests,         \* what each user may ask for: open, read or write, how
                    \* many bytes, of which terminal
  MAX_CNT,          \* the most bytes that are asked for
  MaxKeys           \* keys typed in all

Terminals == 0 .. NR_CONSOLES - 1
Users == Procs \ {TTY, FS}

Body(type, cnt, proc, dev) == [type |-> type, cnt |-> cnt, proc |-> proc, dev |-> dev]

ASSUME TerminalAssumption ==
  /\ ZeroBody = Body("none", 0, NO_TASK, 0)
  /\ HARDWARE_INT = Body("HARDWARE_INT", 0, NO_TASK, 0)
  /\ {TTY, FS} \subseteq Procs /\ TTY # FS /\ IntTasks = {TTY}
  /\ \A u \in Users :
       Requests[u] \subseteq [type : {"OPEN", "READ", "WRITE"}, cnt : 0 .. MAX_CNT,
                              dev : Terminals]
  /\ Bodies = [type : {"OPEN", "READ", "WRITE", "DEV_OPEN", "DEV_READ", "DEV_WRITE",
                       "SUSPEND_PROC", "RESUME_PROC", "SYSCALL_RET"},
               cnt : 0 .. MAX_CNT, proc : Procs \cup {NO_TASK}, dev : Terminals]
  /\ NR_CONSOLES \in Nat \ {0} /\ {TTY_IN_BYTES, MAX_CNT, MaxKeys} \subseteq Nat

\* What in_process is given: a printable character, Enter or Backspace, or one
\* of Alt-F1, Alt-F2 ... with the terminal it selects.
Chars == {"x", "nl", "bs"}
Typed == [ch : Chars, nr : {0}] \cup [ch : {"alt"}, nr : Terminals]

VARIABLES
  kb,            \* keys pressed and not yet taken by keyboard_read
  nkeys,         \* keys pressed so far
  key_pressed,
  current,       \* nr_current_console
  inbuf,         \* characters waiting in each terminal
  reader,        \* tty_caller, tty_procnr, tty_left_cnt, tty_trans_cnt
  tty_pc,        \* where task_tty is, and at which terminal
  fs_pc,         \* where task_fs is; the request it serves, its len and sender
  asked,         \* the call each user is in, or "none"
  overtaken      \* users whose read was replaced by another on the terminal

key_state  == <<kb, nkeys, key_pressed>>
tty_state  == <<current, inbuf, reader, tty_pc>>
user_state == <<asked, overtaken>>
tvars == <<vars, key_state, tty_state, fs_pc, user_state>>

NoReader == [caller |-> NO_TASK, procnr |-> NO_TASK, left |-> 0, trans |-> 0]
NoCall   == [type |-> "none", cnt |-> 0, dev |-> 0]

FsIdle   == [at |-> "receive", type |-> "none", src |-> NO_TASK, len |-> 0]

TInit ==
  /\ Init
  /\ kb = <<>> /\ nkeys = 0 /\ key_pressed = FALSE
  /\ current = 0
  /\ inbuf = [t \in Terminals |-> <<>>]
  /\ reader = [t \in Terminals |-> NoReader]
  /\ tty_pc = <<"keys", 0>>
  /\ fs_pc = FsIdle
  /\ asked = [u \in Users |-> NoCall]
  /\ overtaken = {}

-----------------------------------------------------------------------------
(***************************************************************************)
(* Users                                                                   *)
(***************************************************************************)

\* open(), read() or write(): the SEND half of BOTH.
Call(u, req) ==
  /\ asked[u] = NoCall
  /\ SendBoth(u, FS, Body(req.type, req.cnt, NO_TASK, req.dev))
  /\ asked' = [asked EXCEPT ![u] = req]
  /\ overtaken' = overtaken \ {u}
  /\ UNCHANGED <<key_state, tty_state, fs_pc>>

AwaitReply(u) ==
  /\ ReceiveBoth(u)
  /\ UNCHANGED <<key_state, tty_state, fs_pc, user_state>>

\* The call returns; the message was a local variable of it.
Return(u) ==
  /\ asked[u] # NoCall /\ Runnable(u) /\ both[u] = NO_TASK
  /\ asked' = [asked EXCEPT ![u] = NoCall]
  /\ buf' = [buf EXCEPT ![u] = [source |-> NO_TASK, body |-> ZeroBody]]
  /\ UNCHANGED <<kernel, both, halt, key_state, tty_state, fs_pc, overtaken>>

-----------------------------------------------------------------------------
(***************************************************************************)
(* task_fs                                                                 *)
(***************************************************************************)

FsReceive ==
  /\ fs_pc.at = "receive"
  /\ Receive(FS, ANY)
  /\ fs_pc' = [FsIdle EXCEPT !.at = "serve"]
  /\ UNCHANGED <<key_state, tty_state, user_state>>

\* OPEN, READ and WRITE of a terminal: the driver is asked with BOTH.  (do_rdwt
\* returns 0 at once for a descriptor without O_RDWR.  A terminal's has it: its
\* file exists, O_CREAT fails on it, and without O_CREAT do_open asserts O_RDWR.)
FsAskDriver ==
  LET m == buf[FS]
      dev_type == [OPEN |-> "DEV_OPEN", READ |-> "DEV_READ", WRITE |-> "DEV_WRITE"]
  IN  /\ fs_pc.at = "serve" /\ m.body.type \in DOMAIN dev_type
      /\ SendBoth(FS, TTY, Body(dev_type[m.body.type], m.body.cnt, m.source, m.body.dev))
      /\ fs_pc' = [at |-> "driver", type |-> m.body.type, src |-> m.source, len |-> m.body.cnt]
      /\ UNCHANGED <<key_state, tty_state, user_state>>

\* RESUME_PROC: the process named in it gets its answer.
FsResume ==
  LET m == buf[FS]
  IN  /\ fs_pc.at = "serve" /\ m.body.type = "RESUME_PROC"
      /\ \E u \in {m.body.proc} : Send(FS, u, Body("SYSCALL_RET", m.body.cnt, m.body.proc, m.body.dev))
      /\ fs_pc' = FsIdle
      /\ UNCHANGED <<key_state, tty_state, user_state>>

FsAwaitDriver ==
  /\ ReceiveBoth(FS)
  /\ UNCHANGED <<key_state, tty_state, fs_pc, user_state>>

\* A mutant of FsAnswer: a suspended read is answered like any other call.
FsAnswerAlways ==
  LET m == buf[FS]
  IN  /\ fs_pc.at = "driver" /\ both[FS] = NO_TASK
      /\ \E u \in {fs_pc.src} : Send(FS, u, Body("SYSCALL_RET", fs_pc.len, m.body.proc, m.body.dev))
      /\ fs_pc' = FsIdle
      /\ UNCHANGED <<key_state, tty_state, user_state>>

\* do_rdwt asserts fs_msg.CNT == len after the dialogue (do_open uses a message
\* of its own); the user is answered unless its read was suspended.
FsAnswer ==
  LET m == buf[FS]
  IN  /\ fs_pc.at = "driver" /\ Runnable(FS) /\ both[FS] = NO_TASK
      /\ IF fs_pc.type # "OPEN" /\ m.body.cnt # fs_pc.len
         THEN halt' = "assert" /\ UNCHANGED <<kernel, buf, both>>
         ELSE IF m.body.type = "SUSPEND_PROC" THEN UNCHANGED vars
         ELSE \E u \in {fs_pc.src} :
                Send(FS, u, Body("SYSCALL_RET", fs_pc.len, m.body.proc, m.body.dev))
      /\ fs_pc' = FsIdle
      /\ UNCHANGED <<key_state, tty_state, user_state>>

-----------------------------------------------------------------------------
(***************************************************************************)
(* task_tty: its loop over the terminals                                   *)
(***************************************************************************)

\* Where the do-while and the for go on after terminal t, whose buffer is then
\* b: keys are read for the current console only.
After(t, b) ==
  LET next == IF b # <<>> THEN t ELSE t + 1
  IN  CASE next \notin Terminals -> <<"receive", 0>>
        [] next = current -> <<"keys", next>>
        [] OTHER -> <<"write", next>>

\* tty_dev_read, keyboard_read: one more key for the terminal.  in_process buffers
\* a character, as long as there is room, or switches to another terminal.
TtyKey ==
  LET t == tty_pc[2]
      k == Head(kb)
  IN  /\ Runnable(TTY) /\ tty_pc[1] = "keys" /\ kb # <<>>
      /\ kb' = Tail(kb)
      /\ inbuf' = IF k.ch \in Chars /\ Len(inbuf[t]) < TTY_IN_BYTES
                  THEN [inbuf EXCEPT ![t] = Append(@, k.ch)] ELSE inbuf
      /\ current' = IF k.ch = "alt" THEN k.nr ELSE current
      /\ UNCHANGED <<vars, nkeys, key_pressed, reader, tty_pc, fs_pc, user_state>>

\* The reader of a terminal after the character ch.
Edited(r, ch) ==
  CASE ch = "x" -> [r EXCEPT !.trans = @ + 1, !.left = @ - 1]
    [] ch = "bs" /\ r.trans > 0 -> [r EXCEPT !.trans = @ - 1, !.left = @ + 1]
    [] OTHER -> r

\* No key is left: tty_dev_write, one character, for the reader if there is one.
TtyWrite ==
  LET t == tty_pc[2]
      ch == Head(inbuf[t])
      r == IF reader[t].left > 0 THEN Edited(reader[t], ch) ELSE reader[t]
      done == reader[t].left > 0 /\ (ch = "nl" \/ r.left = 0)
  IN  /\ Runnable(TTY)
      /\ tty_pc[1] = "write" \/ (tty_pc[1] = "keys" /\ kb = <<>>)
      /\ IF inbuf[t] = <<>>
         THEN tty_pc' = After(t, <<>>) /\ UNCHANGED <<inbuf, reader>>
         ELSE /\ inbuf' = [inbuf EXCEPT ![t] = Tail(@)]
              /\ reader' = [reader EXCEPT ![t] = r]
              /\ tty_pc' = IF done THEN <<"resume", t>> ELSE After(t, Tail(inbuf[t]))
      /\ UNCHANGED <<vars, key_state, current, fs_pc, user_state>>

\* The line is complete: RESUME_PROC to tty_caller, and no more reader.
TtyResume ==
  LET t == tty_pc[2]
  IN  /\ tty_pc[1] = "resume"
      /\ \E p \in {reader[t].caller} :
           Send(TTY, p, Body("RESUME_PROC", reader[t].trans, reader[t].procnr, 0))
      /\ reader' = [reader EXCEPT ![t].left = 0]
      /\ tty_pc' = After(t, inbuf[t])
      /\ UNCHANGED <<key_state, current, inbuf, fs_pc, user_state>>

-----------------------------------------------------------------------------
(***************************************************************************)
(* task_tty: messages                                                      *)
(***************************************************************************)

\* The loop over the terminals begins.
Rescan == tty_pc' = After(-1, <<>>)

TtyReceive ==
  /\ tty_pc[1] = "receive"
  /\ Receive(TTY, ANY)
  /\ tty_pc' = <<"serve", 0>>
  /\ UNCHANGED <<key_state, current, inbuf, reader, fs_pc, user_state>>

\* HARDWARE_INT
TtyInt ==
  /\ tty_pc[1] = "serve" /\ Runnable(TTY) /\ buf[TTY].body = HARDWARE_INT
  /\ key_pressed' = FALSE
  /\ Rescan
  /\ UNCHANGED <<vars, kb, nkeys, current, inbuf, reader, fs_pc, user_state>>

\* Mutants of TtyAnswer: the reply to a write is cleared too; DEV_OPEN is not
\* answered.
TtyAnswerCleared ==
  LET m == buf[TTY]
  IN  /\ tty_pc[1] = "serve" /\ m.body.type \in {"DEV_OPEN", "DEV_WRITE"}
      /\ \E p \in {m.source} : Send(TTY, p, Body("SYSCALL_RET", 0, NO_TASK, 0))
      /\ Rescan
      /\ UNCHANGED <<key_state, current, inbuf, reader, fs_pc, user_state>>
TtyAnswerWrites ==
  LET m == buf[TTY]
  IN  /\ tty_pc[1] = "serve" /\ Runnable(TTY) /\ m.body.type \in {"DEV_OPEN", "DEV_WRITE"}
      /\ \E p \in {m.source} :
           IF m.body.type = "DEV_OPEN" THEN UNCHANGED vars
           ELSE Send(TTY, p, [m.body EXCEPT !.type = "SYSCALL_RET"])
      /\ Rescan
      /\ UNCHANGED <<key_state, current, inbuf, reader, fs_pc, user_state>>

\* DEV_OPEN and DEV_WRITE (tty_do_write) are answered at once.
TtyAnswer ==
  LET m == buf[TTY]
  IN  /\ tty_pc[1] = "serve" /\ m.body.type \in {"DEV_OPEN", "DEV_WRITE"}
      /\ \E p \in {m.source} :
           Send(TTY, p, IF m.body.type = "DEV_OPEN" THEN Body("SYSCALL_RET", 0, NO_TASK, 0)
                        ELSE [m.body EXCEPT !.type = "SYSCALL_RET"])
      /\ Rescan
      /\ UNCHANGED <<key_state, current, inbuf, reader, fs_pc, user_state>>

\* tty_do_read: the new reader replaces whoever was there; SUSPEND_PROC.
TtyRead ==
  LET m == buf[TTY]
      t == m.body.dev
  IN  /\ tty_pc[1] = "serve" /\ m.body.type = "DEV_READ"
      /\ reader' = [reader EXCEPT ![t] = [caller |-> m.source, procnr |-> m.body.proc,
                                          left |-> m.body.cnt, trans |-> 0]]
      /\ \E p \in {m.source} : Send(TTY, p, [m.body EXCEPT !.type = "SUSPEND_PROC"])
      /\ Rescan
      /\ overtaken' = IF reader[t].left > 0 THEN overtaken \cup {reader[t].procnr} ELSE overtaken
      /\ UNCHANGED <<key_state, current, inbuf, fs_pc, asked>>

-----------------------------------------------------------------------------
\* A key goes down: keyboard_handler.
KeyPress(k) ==
  /\ halt = "no" /\ nkeys < MaxKeys
  /\ kb' = Append(kb, k) /\ nkeys' = nkeys + 1 /\ key_pressed' = TRUE
  /\ UNCHANGED <<vars, tty_state, fs_pc, user_state>>

\* clock_handler: if (key_pressed) inform_init(TASK_TTY);
ClockInforms ==
  /\ halt = "no" /\ key_pressed
  /\ inform_init(TTY)
  /\ UNCHANGED <<key_state, tty_state, fs_pc, user_state>>

UserStep(u) == AwaitReply(u) \/ Return(u)
FsStep  == FsReceive \/ FsAskDriver \/ FsResume \/ FsAwaitDriver \/ FsAnswer
TtyStep == TtyKey \/ TtyWrite \/ TtyResume \/ TtyReceive \/ TtyInt \/ TtyAnswer \/ TtyRead

TNext ==
  \/ \E u \in Users :
       \/ \E req \in Requests[u] : Call(u, req)
       \/ UserStep(u)
  \/ FsStep \/ TtyStep
  \/ \E k \in Typed : KeyPress(k)
  \/ ClockInforms

TSpec == TInit /\ [][TNext]_tvars

-----------------------------------------------------------------------------
(***************************************************************************)
(* Properties                                                              *)
(***************************************************************************)

\* The machine stops for one reason only: task_tty sends RESUME_PROC to task_fs
\* and task_fs a request to task_tty, one being blocked when the other calls,
\* which msg_send takes for a deadlock.  No assert of the kernel or of do_rdwt
\* fails.
HaltsOnlyAtResume ==
  halt # "no" =>
    /\ halt = "panic"
    /\ buf[TTY].body.type = "RESUME_PROC" /\ fs_pc.at = "driver"
    /\ SendingTo(FS, TTY) # SendingTo(TTY, FS)

\* The call of u is in the hands of task_fs.
Served(u) ==
  \/ fs_pc.at = "serve" /\ flags[FS] = {} /\ buf[FS].source = u
  \/ fs_pc.at = "driver" /\ fs_pc.src = u

\* The line of u is complete and on its way to u.
Resumed(u) ==
  \/ tty_pc[1] = "resume" /\ reader[tty_pc[2]].procnr = u
  \/ SendingTo(TTY, FS) /\ buf[TTY].body.type = "RESUME_PROC" /\ buf[TTY].body.proc = u
  \/ fs_pc.at = "serve" /\ flags[FS] = {} /\ buf[FS].source = TTY /\ buf[FS].body.proc = u
  \/ SendingTo(FS, u)

InRead(u) == asked[u].type = "READ" /\ (RECEIVING \in flags[u] \/ both[u] # NO_TASK)

\* A read that waits for its line is known to a terminal, except when another
\* read of that terminal has replaced it, or it asked for nothing (such a read
\* is suspended and never resumed); and a terminal copies characters only into
\* the buffer of a process that is still in its read().
ReaderKept ==
  halt = "no" =>
    /\ \A u \in Users :
         InRead(u) /\ ~SendingTo(u, FS) /\ ~Served(u) /\ ~Resumed(u) =>
           \/ \E t \in Terminals : reader[t].procnr = u /\ reader[t].left > 0
           \/ u \in overtaken
           \/ asked[u].cnt = 0
    /\ \A t \in Terminals : reader[t].left > 0 => InRead(reader[t].procnr)

\* Nobody waits for ever on somebody who waits: when no process can run and no
\* key is waiting, task_tty and task_fs are ready for the next message, and
\* whoever is in a call is in a read() that waits for its line.
RestsOnlyInReads ==
  (halt = "no" /\ ~key_pressed /\ \A p \in Procs : ~Runnable(p)) =>
    /\ Awaits(TTY, FS) /\ AwaitsInt(TTY) /\ \A u \in Users : Awaits(FS, u)
    /\ \A u \in Users : InRead(u)
    /\ kb = <<>> /\ \A t \in Terminals : inbuf[t] = <<>>
=============================================================================

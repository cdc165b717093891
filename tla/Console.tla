------------------------------ MODULE Console ------------------------------
(***************************************************************************)
(* The consoles, kernel/console.c: cursor, wrap and scroll arithmetic of   *)
(* out_char() and scroll_screen() in the part of video memory each console *)
(* owns, and the registers of the video chip.                              *)
(*                                                                         *)
(* Two callers share console 0.  task_tty echoes keys and serves writes;   *)
(* it can be preempted between any two statements.  sys_printx() prints    *)
(* for any process from within the kernel, where no other process runs     *)
(* (clock_handler does not schedule while k_reenter is set).  Both run the *)
(* same steps, but those of task_tty wait while the kernel prints.         *)
(*                                                                         *)
(* The characters themselves are left out: a cell is its address.          *)
(***************************************************************************)
EXTENDS Integers

CONSTANTS
  NR_CONSOLES,
  SCREEN_WIDTH,      \* cells of a line
  SCREEN_SIZE,       \* cells of a screen
  VIDEO_MEM_WORDS,   \* VIDEO_MEM_SIZE >> 1
  UINT               \* 2^32: the cells of a console are unsigned int

size_per_con == VIDEO_MEM_WORDS \div NR_CONSOLES
con_size     == (size_per_con \div SCREEN_WIDTH) * SCREEN_WIDTH
orig(c)      == size_per_con * c

ASSUME ConsoleAssumption ==
  /\ NR_CONSOLES \in Nat \ {0} /\ SCREEN_WIDTH \in Nat \ {0}
  /\ SCREEN_SIZE \in Nat /\ VIDEO_MEM_WORDS \in Nat
  /\ SCREEN_SIZE % SCREEN_WIDTH = 0
  /\ 2 * SCREEN_WIDTH <= SCREEN_SIZE /\ SCREEN_SIZE <= con_size
  /\ UINT \in Nat /\ 2 * con_size <= UINT

Consoles == 0 .. NR_CONSOLES - 1
Callers  == {"task", "kernel"}
Chars    == {"nl", "bs", "x"}   \* newline, backspace, any other

\* What sys_printx is given: no string of printl() holds a backspace.
PrintxChars == {"nl", "x"}

VARIABLES
  cursor,               \* console->cursor - console->orig
  crtc_start,           \* console->crtc_start - console->orig
  is_full,
  nr_current_console,
  shown,                \* the registers: first cell on the screen, and cursor
  job,                  \* what each caller is executing
  wrote,                \* cells written by the last step, counted from orig
  raced,                \* the kernel has printed while task_tty was at work
  failed                \* an assert() has failed

cvars == <<cursor, crtc_start, is_full, nr_current_console, shown, job, wrote, raced, failed>>

\* pc is the next statement; at, the cursor when video_mem was computed; new, the
\* value to be stored; move and top, what scroll_screen has decided and read;
\* back, where it returns to.
Idle == [pc |-> "idle", c |-> 0, ch |-> "x", at |-> 0, new |-> 0,
         move |-> "stay", top |-> 0, back |-> "idle"]

\* The job of j at statement pc, its other locals being of no more use.
Going(j, pc) == [Idle EXCEPT !.pc = pc, !.c = j.c]

Registers(c, start, pos) == [start |-> orig(c) + start, cursor |-> orig(c) + pos]

\* After init_screen for each console and select_console(0): the first console
\* goes on below the boot messages, the others have printed a one-line prompt.
ConInit ==
  /\ cursor \in {[c \in Consoles |-> IF c = 0 THEN boot ELSE SCREEN_WIDTH] :
                    boot \in 0 .. SCREEN_SIZE - 1}
  /\ crtc_start = [c \in Consoles |-> 0]
  /\ is_full = [c \in Consoles |-> FALSE]
  /\ nr_current_console = 0
  /\ shown = Registers(0, 0, cursor[0])
  /\ job = [w \in Callers |-> Idle]
  /\ wrote = {}
  /\ raced = FALSE /\ failed = FALSE

-----------------------------------------------------------------------------
\* Caller w may execute its next statement, which is pc.
At(w, pc) ==
  /\ ~failed /\ job[w].pc = pc
  /\ w = "task" => job["kernel"].pc = "idle"

Goto(w, pc) == job' = [job EXCEPT ![w].pc = pc]

Cells(lo, n) == lo .. lo + n - 1

\* An unsigned number as an int.
Signed(n) == IF n < UINT \div 2 THEN n ELSE n - UINT

LineNr(pos) == pos \div SCREEN_WIDTH

OnScreen(c) ==
  crtc_start[c] <= cursor[c] /\ cursor[c] < (crtc_start[c] + SCREEN_SIZE) % UINT

\* flush() of console c, when cur is the current one.
flush(c, cur, start, pos) ==
  shown' = IF c = cur THEN Registers(c, start, pos) ELSE shown

-----------------------------------------------------------------------------
(***************************************************************************)
(* out_char(console, ch).  What a race between callers can make of a       *)
(* statement is kept: each read of the cursor and each store is a step     *)
(* wherever the kernel can print in between and change the outcome.        *)
(***************************************************************************)

\* The call, and video_mem.  sys_printx prints on the first console only.
OutChar(w, c, ch) ==
  /\ At(w, "idle")
  /\ w = "kernel" => c = 0 /\ ch \in PrintxChars
  /\ job' = [job EXCEPT ![w] = [Idle EXCEPT !.pc = "enter", !.c = c, !.ch = ch,
                                            !.at = cursor[c]]]
  /\ raced' = (raced \/ (w = "kernel" /\ job["task"].pc # "idle"))
  /\ wrote' = {}
  /\ UNCHANGED <<cursor, crtc_start, is_full, nr_current_console, shown, failed>>

\* Either assert(cursor - orig < con_size), and, after the first, cursor_y.
Assert(w) ==
  LET j == job[w]
      checked == IF j.pc = "enter"
                 THEN [j EXCEPT !.pc = "switch", !.new = SCREEN_WIDTH * (LineNr(cursor[j.c]) + 1)]
                 ELSE [j EXCEPT !.pc = "loop"]
  IN  /\ At(w, "enter") \/ At(w, "assert")
      /\ failed' = (cursor[j.c] >= con_size)
      /\ job' = IF failed' THEN job ELSE [job EXCEPT ![w] = checked]
      /\ wrote' = {}
      /\ UNCHANGED <<cursor, crtc_start, is_full, nr_current_console, shown, raced>>

\* A mutant of Switch: backspace does not look where the line begins.
SwitchNoTest(w) ==
  LET j == job[w]
      pos == cursor[j.c]
  IN  /\ At(w, "switch")
      /\ job' = [job EXCEPT ![w].pc = "store",
                            ![w].new = CASE j.ch = "nl" -> j.new
                                         [] j.ch = "bs" -> pos - 1
                                         [] OTHER       -> pos + 1]
      /\ wrote' = IF j.ch = "x" THEN {j.at} ELSE {}
      /\ UNCHANGED <<cursor, crtc_start, is_full, nr_current_console, shown, raced, failed>>

\* The switch, up to reading the cursor that is to be stored.
Switch(w) ==
  LET j == job[w]
      pos == cursor[j.c]
  IN  /\ At(w, "switch")
      /\ job' = IF j.ch = "bs" /\ pos = 0
                THEN [job EXCEPT ![w] = Going(j, "wrap")]
                ELSE [job EXCEPT ![w].pc = "store",
                                 ![w].new = CASE j.ch = "nl" -> j.new
                                              [] j.ch = "bs" -> pos - 1
                                              [] OTHER       -> pos + 1]
      /\ wrote' = IF j.ch = "x" THEN {j.at} ELSE {}
      /\ UNCHANGED <<cursor, crtc_start, is_full, nr_current_console, shown, raced, failed>>

Store(w) ==
  LET j == job[w]
  IN  /\ At(w, "store")
      /\ cursor' = [cursor EXCEPT ![j.c] = j.new]
      /\ job' = [job EXCEPT ![w] = Going(j, "wrap")]
      /\ wrote' = IF j.ch = "bs" THEN {j.at - 1} ELSE {}
      /\ UNCHANGED <<crtc_start, is_full, nr_current_console, shown, raced, failed>>

\* A mutant of Wrap: it begins one cell late.
WrapLate(w) ==
  LET j == job[w]
      pos == cursor[j.c]
  IN  /\ At(w, "wrap")
      /\ IF pos > con_size
         THEN /\ crtc_start' = [crtc_start EXCEPT ![j.c] = 0]
              /\ cursor' = [cursor EXCEPT ![j.c] = SCREEN_SIZE - SCREEN_WIDTH + (pos % SCREEN_WIDTH)]
              /\ Goto(w, "full")
         ELSE Goto(w, "assert") /\ UNCHANGED <<cursor, crtc_start>>
      /\ wrote' = {}
      /\ UNCHANGED <<is_full, nr_current_console, shown, raced, failed>>

\* At the end of the region the last lines move to its beginning.  (Until the
\* cursor is stored any call of the kernel fails its assert: one step.)
Wrap(w) ==
  LET j == job[w]
      pos == cursor[j.c]
  IN  /\ At(w, "wrap")
      /\ IF pos >= con_size
         THEN /\ wrote' = Cells(0, SCREEN_SIZE - SCREEN_WIDTH)
              /\ crtc_start' = [crtc_start EXCEPT ![j.c] = 0]
              /\ cursor' = [cursor EXCEPT ![j.c] = SCREEN_SIZE - SCREEN_WIDTH + (pos % SCREEN_WIDTH)]
              /\ Goto(w, "full")
         ELSE Goto(w, "assert") /\ wrote' = {} /\ UNCHANGED <<cursor, crtc_start>>
      /\ UNCHANGED <<is_full, nr_current_console, shown, raced, failed>>

Full(w) ==
  LET j == job[w]
  IN  /\ At(w, "full")
      /\ wrote' = Cells(cursor[j.c], SCREEN_WIDTH)
      /\ is_full' = [is_full EXCEPT ![j.c] = TRUE]
      /\ Goto(w, "assert")
      /\ UNCHANGED <<cursor, crtc_start, nr_current_console, shown, raced, failed>>

\* A mutant of Loop: the screen scrolls the other way.
LoopDown(w) ==
  LET j == job[w]
  IN  /\ At(w, "loop")
      /\ IF OnScreen(j.c)
         THEN /\ flush(j.c, nr_current_console, crtc_start[j.c], cursor[j.c])
              /\ job' = [job EXCEPT ![w] = Idle]
         ELSE /\ job' = [job EXCEPT ![w].pc = "down", ![w].back = "clear"]
              /\ UNCHANGED shown
      /\ wrote' = {}
      /\ UNCHANGED <<cursor, crtc_start, is_full, nr_current_console, raced, failed>>

\* The test of the while, and flush() after it.
Loop(w) ==
  LET j == job[w]
  IN  /\ At(w, "loop")
      /\ IF OnScreen(j.c)
         THEN /\ flush(j.c, nr_current_console, crtc_start[j.c], cursor[j.c])
              /\ job' = [job EXCEPT ![w] = Idle]
         ELSE /\ job' = [job EXCEPT ![w].pc = "up", ![w].back = "clear"]
              /\ UNCHANGED shown
      /\ wrote' = {}
      /\ UNCHANGED <<cursor, crtc_start, is_full, nr_current_console, raced, failed>>

Clear(w) ==
  /\ At(w, "clear")
  /\ wrote' = Cells(cursor[job[w].c], SCREEN_WIDTH)
  /\ Goto(w, "loop")
  /\ UNCHANGED <<cursor, crtc_start, is_full, nr_current_console, shown, raced, failed>>

-----------------------------------------------------------------------------
(***************************************************************************)
(* scroll_screen(console, direction)                                       *)
(***************************************************************************)

ScrollDown(pos, top, full) ==
  LET newest == LineNr(pos) * SCREEN_WIDTH
      oldest == (newest + SCREEN_WIDTH) % con_size
  IN  CASE ~full /\ top > 0 -> "dec"
        [] full /\ top # oldest /\ top = 0 ->
             IF pos >= con_size - SCREEN_SIZE THEN "stay" ELSE "end"
        [] full /\ top # oldest /\ top # 0 -> "dec"
        [] OTHER -> "stay"

\* A mutant of ScrollUp: the end of the region is not looked for.
ScrollUpPast(pos, top, full) ==
  LET newest == LineNr(pos) * SCREEN_WIDTH
  IN  CASE ~full /\ newest >= top + SCREEN_SIZE -> "inc"
        [] full /\ top + SCREEN_SIZE - SCREEN_WIDTH # newest -> "inc"
        [] OTHER -> "stay"

ScrollUp(pos, top, full) ==
  LET newest == LineNr(pos) * SCREEN_WIDTH
  IN  CASE ~full /\ newest >= top + SCREEN_SIZE -> "inc"
        [] full /\ top + SCREEN_SIZE - SCREEN_WIDTH # newest ->
             IF top + SCREEN_SIZE = con_size THEN "home" ELSE "inc"
        [] OTHER -> "stay"

\* in_process, on Shift-Up and Shift-Down; the pc is the direction.  The console
\* is that of the terminal keyboard_read() was called for: it was the current one
\* then, and Alt-F1 and so on, earlier in the same call, may have changed that.
ScrollKey(c, dir) ==
  /\ At("task", "idle")
  /\ job' = [job EXCEPT !["task"] = [Idle EXCEPT !.pc = dir, !.c = c]]
  /\ wrote' = {}
  /\ UNCHANGED <<cursor, crtc_start, is_full, nr_current_console, shown, raced, failed>>

Decide(w) ==
  LET j == job[w]
      pos == cursor[j.c]
      top == crtc_start[j.c]
  IN  /\ At(w, "up") \/ At(w, "down")
      /\ job' = [job EXCEPT ![w].pc = "move", ![w].top = top,
                            ![w].move = IF j.pc = "up" THEN ScrollUp(pos, Signed(top), is_full[j.c])
                                                       ELSE ScrollDown(pos, Signed(top), is_full[j.c])]
      /\ wrote' = {}
      /\ UNCHANGED <<cursor, crtc_start, is_full, nr_current_console, shown, raced, failed>>

Moved(move, top) ==
  CASE move = "inc"  -> (top + SCREEN_WIDTH) % UINT
    [] move = "dec"  -> (top - SCREEN_WIDTH) % UINT
    [] move = "home" -> 0
    [] move = "end"  -> con_size - SCREEN_SIZE

\* crtc_start is changed as decided, from its value now or the one read then
\* (+= is a read, an addition and a store), and flush().
Move(w) ==
  LET j == job[w]
  IN  /\ At(w, "move")
      /\ \/ j.move = "stay" /\ UNCHANGED crtc_start
         \/ /\ j.move # "stay"
            /\ \E top \in {j.top, crtc_start[j.c]} :
                  crtc_start' = [crtc_start EXCEPT ![j.c] = Moved(j.move, top)]
      /\ flush(j.c, nr_current_console, crtc_start'[j.c], cursor[j.c])
      /\ job' = [job EXCEPT ![w] = IF j.back = "idle" THEN Idle ELSE Going(j, j.back)]
      /\ wrote' = {}
      /\ UNCHANGED <<cursor, is_full, nr_current_console, raced, failed>>

\* select_console(), on Alt-F1 and so on; a number out of range is refused.
SelectConsole(nr) ==
  /\ At("task", "idle")
  /\ IF nr \in Consoles
     THEN nr_current_console' = nr /\ flush(nr, nr, crtc_start[nr], cursor[nr])
     ELSE UNCHANGED <<nr_current_console, shown>>
  /\ wrote' = {}
  /\ UNCHANGED <<cursor, crtc_start, is_full, job, raced, failed>>

-----------------------------------------------------------------------------
CallerStep(w) ==
  \/ Assert(w) \/ Switch(w) \/ Store(w) \/ Wrap(w) \/ Full(w)
  \/ Loop(w) \/ Clear(w) \/ Decide(w) \/ Move(w)

ConNext ==
  \/ \E w \in Callers, c \in Consoles, ch \in Chars : OutChar(w, c, ch)
  \/ \E w \in Callers : CallerStep(w)
  \/ \E c \in Consoles, dir \in {"up", "down"} : ScrollKey(c, dir)
  \/ \E nr \in 0 .. NR_CONSOLES : SelectConsole(nr)

\* A process that is in the middle of a call is scheduled again and again.
ConFairness == \A w \in Callers : SF_cvars(CallerStep(w))

ConSpec == ConInit /\ [][ConNext]_cvars /\ ConFairness

-----------------------------------------------------------------------------
(***************************************************************************)
(* Properties                                                              *)
(***************************************************************************)

Pcs == {"idle", "enter", "switch", "store", "wrap", "full", "assert", "loop",
        "clear", "up", "down", "move"}

ConTypeOK ==
  /\ cursor \in [Consoles -> Nat]
  /\ crtc_start \in [Consoles -> 0 .. UINT - 1]
  /\ is_full \in [Consoles -> BOOLEAN]
  /\ nr_current_console \in Consoles
  /\ shown \in [start : Nat, cursor : Nat]
  /\ job \in [Callers -> [pc : Pcs, c : Consoles, ch : Chars, at : Nat, new : Nat,
                          move : {"stay", "inc", "dec", "home", "end"}, top : Nat,
                          back : {"idle", "clear"}]]
  /\ raced \in BOOLEAN /\ failed \in BOOLEAN

\* The cursor of a console never leaves its region of video memory, however the
\* steps of task_tty and of sys_printx interleave: one past its end is reached
\* only between the store of a new cursor and the wrap that follows it.
CursorInside ==
  \A c \in Consoles :
    /\ cursor[c] \in 0 .. con_size
    /\ cursor[c] = con_size =>
         \E w \in Callers : job[w].c = c /\ job[w].pc = "wrap"

\* The asserts of out_char fail only if sys_printx has been called while task_tty
\* was in the middle of a call (the kernel then finds the cursor of the wrap).
FailsOnlyByRace == failed => raced

\* As long as no print of the kernel has come in the middle of a call of
\* task_tty, the screen shows whole lines of the console's own region.
WindowInside ==
  ~raced => \A c \in Consoles :
    /\ crtc_start[c] \in 0 .. con_size - SCREEN_SIZE
    /\ crtc_start[c] % SCREEN_WIDTH = 0

\* Likewise no cell before the region is written and, beyond it, less than one
\* line: clear_screen(cursor, SCREEN_WIDTH) starts in the middle of a line
\* when a character is printed after the user has scrolled.
WritesNear ==
  ~raced => wrote \subseteq 0 .. con_size + SCREEN_WIDTH - 2

\* Likewise, between calls, the registers show the current console where it is.
RegistersRight ==
  (~raced /\ \A w \in Callers : job[w].pc = "idle") =>
     LET c == nr_current_console IN shown = Registers(c, crtc_start[c], cursor[c])

\* What the user sees and what is overwritten are right unless the callers race.
ScreenRight == WindowInside /\ WritesNear /\ RegistersRight

\* The loop at the end of out_char cannot bring the cursor back: the console has
\* never been full and the cursor is above the screen (where backspaces led it),
\* or the screen is outside of the region.
Endless(w) ==
  LET c == job[w].c
  IN  /\ job[w].pc \in {"loop", "up", "move", "clear"}
      /\ \/ ~is_full[c] /\ cursor[c] < crtc_start[c]
         \/ crtc_start[c] > con_size - SCREEN_SIZE

\* Every call of out_char and scroll_screen returns, except after a failed assert
\* and in that loop, the caller's own or that of the kernel printing meanwhile.
OutCharReturns ==
  \A w \in Callers :
    job[w].pc # "idle" ~> (job[w].pc = "idle" \/ failed \/ \E v \in Callers : Endless(v))

=============================================================================

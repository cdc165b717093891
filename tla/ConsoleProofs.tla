--------------------------- MODULE ConsoleProofs ---------------------------
(***************************************************************************)
(* Proofs about Console: for screens and regions of every size, and every  *)
(* number of consoles, the cursor stays in its region, and the asserts of  *)
(* out_char fail only if the kernel prints in the middle of a call of      *)
(* task_tty; until then the screen, too, is right (second part).  The last *)
(* part is about Ring: the buffers of the keyboard and of the terminals    *)
(* may be taken for sequences.                                             *)
(***************************************************************************)
EXTENDS Console, Ring, SequenceTheorems, TLAPS

Jobs == [pc : Pcs, c : Consoles, ch : Chars, at : Nat, new : Int,
         move : {"stay", "inc", "dec", "home", "end"}, top : Int,
         back : {"idle", "clear"}]

\* The parts of the state the argument is about.
Screen == crtc_start \in [Consoles -> Int] /\ nr_current_console \in Consoles

Types ==
  /\ Screen
  /\ cursor \in [Consoles -> Int]
  /\ job \in [Callers -> Jobs]
  /\ raced \in BOOLEAN /\ failed \in BOOLEAN

\* A cursor about to be stored is at most one past the end; the kernel, which
\* nobody interrupts, still finds the cursor where its first assert found it;
\* and if both callers are at work, then the kernel came second.
CursorInv ==
  /\ Types
  /\ CursorInside
  /\ FailsOnlyByRace
  /\ \A w \in Callers : job[w].pc \in {"switch", "store"} => job[w].new \in 0 .. con_size
  /\ job["kernel"].pc = "switch" => cursor[job["kernel"].c] < con_size
  /\ (job["kernel"].pc # "idle" /\ job["task"].pc # "idle") => raced

-----------------------------------------------------------------------------

\* A leaf is left to Zenon unless it says SMT (arithmetic, records).
USE Zenon

\* Division of a cell number into its line and its column.
LEMMA DivMod ==
  ASSUME NEW w \in Nat \ {0}, NEW n \in Nat
  PROVE  /\ n \div w \in Nat /\ n % w \in 0 .. w - 1
         /\ n = w * (n \div w) + (n % w)
<1>1. n % w \in 0 .. w - 1
  BY SMT
<1>2. n = w * (n \div w) + (n % w)
  BY SMT
<1>3. n \div w \in Int
  BY SMT
<1>4. n \div w >= 0
  BY <1>1, <1>2, <1>3, SMT
<1> QED
  BY <1>1, <1>2, <1>3, <1>4, SMT

\* The line after that of a cell begins in the region or at its end.
LEMMA LinesFit ==
  ASSUME NEW w \in Nat \ {0}, NEW k \in Nat, NEW n \in Nat, n < k * w
  PROVE  w * (n \div w + 1) \in 0 .. k * w
<1> DEFINE q == n \div w
<1>1. q \in Nat /\ w * q <= n
  BY DivMod, SMT
<1> HIDE DEF q
<1>2. q < k
  <2> SUFFICES ASSUME q >= k PROVE FALSE
    BY <1>1, SMT
  <2>1. w * q >= w * k
    BY <1>1, SMT
  <2> QED
    BY <1>1, <2>1, SMT
<1>3. w * (q + 1) <= w * k
  BY <1>1, <1>2, SMT
<1> QED
  BY <1>1, <1>3, SMT DEF q

\* What ConsoleAssumption says of the sizes init_screen computes: a region holds the
\* screen, and whole lines.
LEMMA Sizes ==
  /\ SCREEN_WIDTH \in Nat \ {0} /\ SCREEN_SIZE \in Nat /\ con_size \in Nat
  /\ 2 * SCREEN_WIDTH <= SCREEN_SIZE /\ SCREEN_SIZE <= con_size
  /\ \A n \in Nat : n < con_size => SCREEN_WIDTH * (LineNr(n) + 1) \in 0 .. con_size
<1> DEFINE k == size_per_con \div SCREEN_WIDTH
<1>1. size_per_con \in Nat
  BY ConsoleAssumption, DivMod DEF size_per_con
<1>2. SCREEN_WIDTH \in Nat \ {0} /\ k \in Nat /\ con_size = k * SCREEN_WIDTH
  BY <1>1, ConsoleAssumption, DivMod DEF con_size
<1> HIDE DEF k
<1>3. con_size \in Nat
  BY <1>2, SMT
<1> QED
  BY <1>2, <1>3, ConsoleAssumption, LinesFit DEF LineNr

-----------------------------------------------------------------------------

\* init_screen leaves every cursor in its region and nobody at work.
LEMMA InitInv == ConInit => CursorInv
<1> SUFFICES ASSUME ConInit PROVE CursorInv
  OBVIOUS
<1>1. \A c \in Consoles : cursor[c] \in 0 .. con_size - 1
  BY Sizes, SMT DEF ConInit
<1>2. job = [w \in Callers |-> Idle] /\ Idle \in Jobs
  BY ConsoleAssumption, SMT DEF ConInit, Idle, Jobs, Pcs, Chars, Consoles
<1>3. Types
  <2>1. cursor \in [Consoles -> Int]
    BY Sizes, SMT DEF ConInit
  <2>2. job \in [Callers -> Jobs]
    BY <1>2
  <2>3. Screen
    BY ConsoleAssumption, SMT DEF ConInit, Screen, Consoles
  <2> QED
    BY <2>1, <2>2, <2>3 DEF ConInit, Types
<1>4. \A w \in Callers : job[w].pc = "idle"
  BY <1>2 DEF Idle
<1>5. "kernel" \in Callers /\ "task" \in Callers
  BY DEF Callers
<1> QED
  BY <1>1, <1>3, <1>4, <1>5, Sizes, SMT DEF CursorInv, CursorInside, FailsOnlyByRace, ConInit

\* A step of w that leaves the cursors alone, and begins or ends no wrap.
LEMMA CursorsKept ==
  ASSUME CursorInv, NEW w \in Callers, NEW j \in Jobs,
         job' = [job EXCEPT ![w] = j], cursor' = cursor, Screen', job[w].pc # "wrap",
         j.pc \in {"switch", "store"} => j.new \in 0 .. con_size,
         (w = "kernel" /\ j.pc = "switch") => cursor[j.c] < con_size,
         raced' \in BOOLEAN, failed' \in BOOLEAN, raced => raced', failed' => raced',
         \/ w = "task" /\ job["kernel"].pc = "idle"
         \/ w = "kernel" /\ (job["task"].pc # "idle" => raced')
  PROVE  CursorInv'
<1>1. job \in [Callers -> Jobs] /\ job' \in [Callers -> Jobs]
  BY DEF CursorInv, Types
<1>2. job'[w] = j /\ \A v \in Callers \ {w} : job'[v] = job[v]
  BY <1>1
<1>3. "kernel" \in Callers /\ "task" \in Callers /\ \A v \in Callers : v = "kernel" \/ v = "task"
  BY DEF Callers
<1>4. Types'
  BY <1>1 DEF CursorInv, Types
<1>5. CursorInside'
  <2> SUFFICES ASSUME NEW c \in Consoles
               PROVE  /\ cursor[c] \in 0 .. con_size
                      /\ cursor[c] = con_size => \E v \in Callers : job'[v].c = c /\ job'[v].pc = "wrap"
    BY DEF CursorInside
  <2> QED
    BY <1>2 DEF CursorInv, CursorInside
<1>6. FailsOnlyByRace'
  BY DEF FailsOnlyByRace
<1>7. \A v \in Callers : job'[v].pc \in {"switch", "store"} => job'[v].new \in 0 .. con_size
  BY <1>2 DEF CursorInv
<1>8. job'["kernel"].pc = "switch" => cursor'[job'["kernel"].c] < con_size
  BY <1>2, <1>3 DEF CursorInv
<1>9. (job'["kernel"].pc # "idle" /\ job'["task"].pc # "idle") => raced'
  BY <1>2, <1>3 DEF CursorInv
<1> QED
  BY <1>4, <1>5, <1>6, <1>7, <1>8, <1>9 DEF CursorInv

\* Who may execute a statement: nobody while the kernel is in the middle of a call
\* but the kernel itself.
LEMMA WhoMoves ==
  ASSUME CursorInv, NEW w \in Callers, NEW pc, At(w, pc)
  PROVE  /\ job[w] \in Jobs /\ job[w].pc = pc /\ ~failed
         /\ \/ w = "task" /\ job["kernel"].pc = "idle"
            \/ w = "kernel" /\ (pc # "idle" => (job["task"].pc # "idle" => raced))
BY DEF CursorInv, Types, At, Callers

\* If the cursor of w, which is not in a wrap, is past the end, then w is the kernel
\* and has come in the middle of a wrap of task_tty.
LEMMA PastTheEnd ==
  ASSUME CursorInv, NEW w \in Callers, NEW pc, At(w, pc), pc # "wrap", pc # "idle",
         ~(cursor[job[w].c] < con_size)
  PROVE  w = "kernel" /\ raced
<1>1. job[w] \in Jobs /\ job[w].c \in Consoles /\ job[w].pc = pc
  BY WhoMoves DEF Jobs
<1>2. cursor[job[w].c] = con_size
  BY <1>1, Sizes, SMT DEF CursorInv, CursorInside
<1>3. PICK v \in Callers : job[v].c = job[w].c /\ job[v].pc = "wrap"
  BY <1>1, <1>2 DEF CursorInv, CursorInside
<1>4. v # w
  BY <1>1, <1>3
<1> QED
  BY <1>1, <1>3, <1>4, WhoMoves DEF Callers

-----------------------------------------------------------------------------

\* A caller that returns, or goes on to another statement, still has a job.
LEMMA IdleJob ==
  /\ Idle \in Jobs /\ Idle.pc = "idle"
  /\ \A j \in Jobs, pc \in Pcs :
       Going(j, pc) \in Jobs /\ Going(j, pc).pc = pc /\ Going(j, pc).c = j.c
<1>1. 0 \in Consoles /\ "x" \in Chars /\ "idle" \in Pcs
  BY ConsoleAssumption, SMT DEF Consoles, Chars, Pcs
<1>2. Idle \in Jobs /\ Idle.pc = "idle"
  BY <1>1, SMT DEF Idle, Jobs
<1>3. \A j \in Jobs, pc \in Pcs :
        Going(j, pc) \in Jobs /\ Going(j, pc).pc = pc /\ Going(j, pc).c = j.c
  <2> TAKE j \in Jobs, pc \in Pcs
  <2>1. j.c \in Consoles
    BY DEF Jobs
  <2> QED
    BY <1>2, <2>1 DEF Going, Jobs
<1> QED
  BY <1>2, <1>3

\* The same, for a job whose place in the code alone changes.
LEMMA NewPc ==
  ASSUME NEW j \in Jobs, NEW pc \in Pcs
  PROVE  [j EXCEPT !.pc = pc] \in Jobs /\ [j EXCEPT !.pc = pc].pc = pc
BY DEF Jobs

\* A call of out_char begins.
LEMMA OutCharInv ==
  ASSUME CursorInv, NEW w \in Callers, NEW c \in Consoles, NEW ch \in Chars, OutChar(w, c, ch)
  PROVE  CursorInv'
<1> DEFINE j == [Idle EXCEPT !.pc = "enter", !.c = c, !.ch = ch, !.at = cursor[c]]
<1>1. At(w, "idle") /\ job' = [job EXCEPT ![w] = j] /\ cursor' = cursor /\ failed' = failed
      /\ Screen' /\ raced' = (raced \/ (w = "kernel" /\ job["task"].pc # "idle"))
  BY DEF OutChar, CursorInv, Types, Screen
<1>2. cursor[c] \in Nat /\ "enter" \in Pcs
  BY Sizes, SMT DEF CursorInv, CursorInside, Pcs
<1>3. j \in Jobs /\ j.pc = "enter"
  BY <1>2, IdleJob DEF Jobs
<1>4. job[w].pc = "idle" /\ ~failed /\ \/ w = "task" /\ job["kernel"].pc = "idle"
                                       \/ w = "kernel"
  BY <1>1, WhoMoves
<1> HIDE DEF j
<1> QED
  BY <1>1, <1>3, <1>4, CursorsKept DEF CursorInv, Types

\* The asserts of out_char.
LEMMA AssertInv ==
  ASSUME CursorInv, NEW w \in Callers, Assert(w)
  PROVE  CursorInv'
<1> DEFINE j == job[w]
           n == SCREEN_WIDTH * (LineNr(cursor[j.c]) + 1)
           entered == [j EXCEPT !.pc = "switch", !.new = n]
           looping == [j EXCEPT !.pc = "loop"]
<1>1. /\ cursor' = cursor /\ raced' = raced /\ Screen'
      /\ failed' = (cursor[j.c] >= con_size)
      /\ At(w, "enter") \/ At(w, "assert")
  BY DEF Assert, CursorInv, Types, Screen
<1>2. job' = IF failed' THEN job
             ELSE [job EXCEPT ![w] = IF j.pc = "enter" THEN entered ELSE looping]
  BY DEF Assert
<1>3. /\ j \in Jobs /\ j.c \in Consoles /\ j.pc \in {"enter", "assert"}
      /\ \/ w = "task" /\ job["kernel"].pc = "idle"
         \/ w = "kernel" /\ (job["task"].pc # "idle" => raced)
  BY <1>1, WhoMoves DEF Jobs
<1>4. cursor[j.c] \in 0 .. con_size
  BY <1>3 DEF CursorInv, CursorInside
<1>5. CASE cursor[j.c] >= con_size
  <2>1. raced
    BY <1>1, <1>4, <1>5, PastTheEnd, Sizes, SMT
  <2> QED
    BY <1>1, <1>2, <1>5, <2>1 DEF CursorInv, Types, CursorInside, FailsOnlyByRace
<1>6. CASE ~(cursor[j.c] >= con_size)
  <2>1. cursor[j.c] \in Nat /\ cursor[j.c] < con_size
    BY <1>4, <1>6, Sizes, SMT
  <2>6. failed' = FALSE
    <3>1. (cursor[j.c] >= con_size) = FALSE
      BY <1>6, SMT
    <3> QED
      BY <1>1, <3>1, Zenon
  <2>2. n \in 0 .. con_size
    BY <2>1, Sizes
  <2> HIDE DEF n
  <2>3. /\ entered \in Jobs /\ entered.pc = "switch" /\ entered.new = n /\ entered.c = j.c
        /\ looping \in Jobs /\ looping.pc = "loop"
    <3>1. n \in Int /\ "switch" \in Pcs /\ "loop" \in Pcs
      BY <2>2, Sizes, SMT DEF Pcs
    <3> HIDE DEF j
    <3>2. entered \in Jobs /\ entered.pc = "switch" /\ entered.new = n /\ entered.c = j.c
      BY <1>3, <3>1 DEF Jobs
    <3>3. looping \in Jobs /\ looping.pc = "loop"
      BY <1>3, <3>1, NewPc
    <3> QED
      BY <3>2, <3>3
  <2>4. CASE j.pc = "enter"
    <3>1. job' = [job EXCEPT ![w] = entered]
      BY <1>2, <2>6, <2>4
    <3> HIDE DEF entered, looping
    <3> QED
      BY <1>1, <1>3, <2>1, <2>6, <2>2, <2>3, <3>1, CursorsKept DEF CursorInv, Types
  <2>5. CASE j.pc # "enter"
    <3>1. job' = [job EXCEPT ![w] = looping]
      BY <1>2, <2>6, <2>5
    <3> HIDE DEF entered, looping
    <3> QED
      BY <1>1, <1>3, <2>6, <2>3, <3>1, CursorsKept DEF CursorInv, Types
  <2> QED
    BY <2>4, <2>5
<1> QED
  BY <1>5, <1>6

\* The switch of out_char on the character: the new cursor is computed.
LEMMA SwitchInv ==
  ASSUME CursorInv, NEW w \in Callers, Switch(w)
  PROVE  CursorInv'
<1> DEFINE j == job[w]
           pos == cursor[j.c]
           n == CASE j.ch = "nl" -> j.new
                  [] j.ch = "bs" -> pos - 1
                  [] OTHER       -> pos + 1
           k == [j EXCEPT !.pc = "store", !.new = n]
<1>1. /\ At(w, "switch") /\ cursor' = cursor /\ Screen' /\ raced' = raced /\ failed' = failed
      /\ job' = IF j.ch = "bs" /\ pos = 0 THEN [job EXCEPT ![w] = Going(j, "wrap")]
                                          ELSE [job EXCEPT ![w] = k]
  BY DEF Switch, CursorInv, Types, Screen
<1>2. /\ j \in Jobs /\ j.c \in Consoles /\ j.pc = "switch" /\ ~failed
      /\ \/ w = "task" /\ job["kernel"].pc = "idle"
         \/ w = "kernel" /\ (job["task"].pc # "idle" => raced)
  BY <1>1, WhoMoves DEF Jobs
<1>3. pos \in 0 .. con_size - 1 /\ j.new \in 0 .. con_size
  <2>1. pos \in 0 .. con_size /\ j.new \in 0 .. con_size
    BY <1>2 DEF CursorInv, CursorInside
  <2>2. pos < con_size
    BY <1>1, <1>2, PastTheEnd DEF CursorInv
  <2> QED
    BY <2>1, <2>2, Sizes, SMT
<1>4. CASE j.ch = "bs" /\ pos = 0
  <2>1. job' = [job EXCEPT ![w] = Going(j, "wrap")]
    BY <1>1, <1>4
  <2>2. Going(j, "wrap") \in Jobs /\ Going(j, "wrap").pc = "wrap"
    BY <1>2, IdleJob DEF Pcs
  <2> QED
    BY <1>1, <1>2, <2>1, <2>2, CursorsKept DEF CursorInv, Types
<1>5. CASE ~(j.ch = "bs" /\ pos = 0)
  <2>1. n \in 0 .. con_size
    BY <1>3, <1>5, Sizes, SMT
  <2> HIDE DEF n
  <2>2. k \in Jobs /\ k.pc = "store" /\ k.new = n
    <3>1. n \in Int /\ "store" \in Pcs
      BY <2>1, Sizes, SMT DEF Pcs
    <3> HIDE DEF j
    <3> QED
      BY <1>2, <3>1 DEF Jobs
  <2>3. job' = [job EXCEPT ![w] = k]
    BY <1>1, <1>5
  <2> HIDE DEF k
  <2> QED
    BY <1>1, <1>2, <2>1, <2>2, <2>3, CursorsKept DEF CursorInv, Types
<1> QED
  BY <1>4, <1>5

\* A step of w to the statement pc of the same call, the cursors left alone.
LEMMA NextStatement ==
  ASSUME CursorInv, NEW w \in Callers, NEW from \in Pcs, NEW pc \in Pcs, At(w, from),
         from \notin {"idle", "wrap"}, pc \notin {"switch", "store"},
         NEW j \in Jobs, j.pc = pc, job' = [job EXCEPT ![w] = j],
         cursor' = cursor, Screen', raced' = raced, failed' = failed
  PROVE  CursorInv'
<1>1. /\ job[w].pc = from /\ ~failed
      /\ \/ w = "task" /\ job["kernel"].pc = "idle"
         \/ w = "kernel" /\ (job["task"].pc # "idle" => raced)
  BY WhoMoves
<1> QED
  BY <1>1, CursorsKept DEF CursorInv, Types

\* A step of w that stores a cursor in its console, and after which w is at pc.
LEMMA CursorStored ==
  ASSUME CursorInv, NEW w \in Callers, NEW from, At(w, from), from # "idle",
         NEW n \in 0 .. con_size, NEW j \in Jobs, j.c = job[w].c,
         j.pc \notin {"switch", "store"}, n = con_size => j.pc = "wrap",
         cursor' = [cursor EXCEPT ![job[w].c] = n], job' = [job EXCEPT ![w] = j],
         Screen', raced' = raced, failed' = failed
  PROVE  CursorInv'
<1>1. /\ job[w] \in Jobs /\ job[w].c \in Consoles /\ job[w].pc = from /\ ~failed
      /\ \/ w = "task" /\ job["kernel"].pc = "idle"
         \/ w = "kernel" /\ (job["task"].pc # "idle" => raced)
  BY WhoMoves DEF Jobs
<1>2. job \in [Callers -> Jobs] /\ cursor \in [Consoles -> Int]
  BY DEF CursorInv, Types
<1>3. job'[w] = j /\ \A v \in Callers \ {w} : job'[v] = job[v]
  BY <1>2
<1>4. cursor'[job[w].c] = n /\ \A c \in Consoles \ {job[w].c} : cursor'[c] = cursor[c]
  BY <1>1, <1>2
<1>5. "kernel" \in Callers /\ "task" \in Callers /\ \A v \in Callers : v = "kernel" \/ v = "task"
  BY DEF Callers
<1>6. Types'
  <2>1. n \in Int
    BY Sizes, SMT
  <2>2. cursor' \in [Consoles -> Int]
    BY <1>2, <2>1
  <2>3. job' \in [Callers -> Jobs]
    BY <1>2
  <2> QED
    BY <2>2, <2>3 DEF CursorInv, Types
<1>7. CursorInside'
  <2> SUFFICES ASSUME NEW c \in Consoles
               PROVE  /\ cursor'[c] \in 0 .. con_size
                      /\ cursor'[c] = con_size =>
                           \E v \in Callers : job'[v].c = c /\ job'[v].pc = "wrap"
    BY DEF CursorInside
  <2>1. CASE c = job[w].c
    BY <1>3, <1>4, <2>1
  <2>2. CASE c # job[w].c
    <3>1. cursor'[c] = cursor[c]
      BY <1>4, <2>2
    <3>2. /\ cursor[c] \in 0 .. con_size
          /\ cursor[c] = con_size => \E v \in Callers : job[v].c = c /\ job[v].pc = "wrap"
      BY DEF CursorInv, CursorInside
    <3> QED
      BY <1>3, <2>2, <3>1, <3>2
  <2> QED
    BY <2>1, <2>2
<1>8. FailsOnlyByRace'
  BY DEF FailsOnlyByRace, CursorInv
<1>9. \A v \in Callers : job'[v].pc \in {"switch", "store"} => job'[v].new \in 0 .. con_size
  BY <1>3 DEF CursorInv
<1>10. job'["kernel"].pc = "switch" => cursor'[job'["kernel"].c] < con_size
  BY <1>1, <1>3, <1>5 DEF CursorInv
<1>11. (job'["kernel"].pc # "idle" /\ job'["task"].pc # "idle") => raced'
  BY <1>1, <1>3, <1>5 DEF CursorInv
<1> QED
  BY <1>6, <1>7, <1>8, <1>9, <1>10, <1>11 DEF CursorInv

\* The new cursor is stored.
LEMMA StoreInv ==
  ASSUME CursorInv, NEW w \in Callers, Store(w)
  PROVE  CursorInv'
<1> DEFINE j == Going(job[w], "wrap")
<1>1. /\ At(w, "store") /\ cursor' = [cursor EXCEPT ![job[w].c] = job[w].new]
      /\ job' = [job EXCEPT ![w] = j] /\ Screen' /\ raced' = raced /\ failed' = failed
  BY DEF Store, CursorInv, Types, Screen
<1>2. job[w] \in Jobs /\ job[w].pc = "store"
  BY <1>1, WhoMoves
<1>3. job[w].new \in 0 .. con_size
  BY <1>2 DEF CursorInv
<1>4. j \in Jobs /\ j.pc = "wrap"
  BY <1>2, IdleJob DEF Pcs
<1>5. j.c = job[w].c
  BY DEF Going, Idle
<1> HIDE DEF j
<1> QED
  BY <1>1, <1>3, <1>4, <1>5, CursorStored

\* The wrap of out_char at the end of the region.
LEMMA WrapInv ==
  ASSUME CursorInv, NEW w \in Callers, Wrap(w)
  PROVE  CursorInv'
<1> DEFINE pos == cursor[job[w].c]
           n == SCREEN_SIZE - SCREEN_WIDTH + (pos % SCREEN_WIDTH)
           full == [job[w] EXCEPT !.pc = "full"]
           next == [job[w] EXCEPT !.pc = "assert"]
<1>1. /\ At(w, "wrap") /\ raced' = raced /\ failed' = failed
      /\ pos >= con_size => /\ cursor' = [cursor EXCEPT ![job[w].c] = n]
                            /\ job' = [job EXCEPT ![w] = full]
      /\ ~(pos >= con_size) => cursor' = cursor /\ job' = [job EXCEPT ![w] = next]
  BY DEF Wrap, Goto
<1>2. job[w] \in Jobs /\ job[w].pc = "wrap" /\ job[w].c \in Consoles
  BY <1>1, WhoMoves DEF Jobs
<1>3. pos \in 0 .. con_size
  BY <1>2 DEF CursorInv, CursorInside
<1>4. /\ full \in Jobs /\ full.pc = "full" /\ full.c = job[w].c
      /\ next \in Jobs /\ next.pc = "assert" /\ next.c = job[w].c
  BY <1>2 DEF Jobs, Pcs
<1>7. Screen'
  BY SMT DEF Wrap, CursorInv, Types, Screen
<1>5. CASE pos >= con_size
  <2>1. pos % SCREEN_WIDTH \in 0 .. SCREEN_WIDTH - 1
    <3>1. pos \in Nat
      BY <1>3, Sizes, SMT
    <3> HIDE DEF pos
    <3> QED
      BY <3>1, Sizes, DivMod
  <2>2. n \in 0 .. con_size /\ n # con_size
    BY <2>1, Sizes, SMT
  <2> HIDE DEF full, n
  <2> QED
    BY <1>1, <1>4, <1>5, <1>7, <2>2, CursorStored
<1>6. CASE ~(pos >= con_size)
  <2>1. pos \in 0 .. con_size /\ pos # con_size
    BY <1>3, <1>6, Sizes, SMT
  <2>2. cursor' = [cursor EXCEPT ![job[w].c] = pos]
    BY <1>1, <1>2, <1>6 DEF CursorInv, Types
  <2>3. job' = [job EXCEPT ![w] = next]
    BY <1>1, <1>6
  <2> HIDE DEF next, pos
  <2> QED
    BY <1>1, <1>4, <1>7, <2>1, <2>2, <2>3, CursorStored
<1> QED
  BY <1>5, <1>6

-----------------------------------------------------------------------------

\* What scroll_screen decides, and where it moves the screen.
LEMMA Scrolls ==
  /\ \A pos, top, full : /\ ScrollUp(pos, top, full) \in {"stay", "inc", "home"}
                         /\ ScrollDown(pos, top, full) \in {"stay", "dec", "end"}
  /\ \A move \in {"inc", "dec", "home", "end"}, top \in Int : Moved(move, top) \in Int
<1>1. UINT \in Nat \ {0} /\ SCREEN_WIDTH \in Nat /\ SCREEN_SIZE \in Nat /\ con_size \in Nat
  BY Sizes, ConsoleAssumption, SMT
<1> QED
  BY <1>1, SMT DEF ScrollUp, ScrollDown, Moved

\* Every step of the console keeps the cursors in their regions.
LEMMA StepInv == CursorInv /\ [ConNext]_cvars => CursorInv'
<1> SUFFICES ASSUME CursorInv, [ConNext]_cvars PROVE CursorInv'
  OBVIOUS
<1>1. ASSUME NEW w \in Callers, NEW c \in Consoles, NEW ch \in Chars, OutChar(w, c, ch)
      PROVE  CursorInv'
  BY <1>1, OutCharInv
<1>2. ASSUME NEW w \in Callers, CallerStep(w) PROVE CursorInv'
  <2>1. job[w] \in Jobs
    BY DEF CursorInv, Types
  <2>2. CASE Assert(w)
    BY <2>2, AssertInv
  <2>3. CASE Switch(w)
    BY <2>3, SwitchInv
  <2>4. CASE Store(w)
    BY <2>4, StoreInv
  <2>5. CASE Wrap(w)
    BY <2>5, WrapInv
  <2>6. CASE Full(w)
    <3>1. "assert" \in Pcs /\ "full" \in Pcs
      BY DEF Pcs
    <3>2. At(w, "full") /\ job' = [job EXCEPT ![w] = [job[w] EXCEPT !.pc = "assert"]]
          /\ cursor' = cursor /\ Screen' /\ raced' = raced /\ failed' = failed
      BY <2>6 DEF Full, Goto, CursorInv, Types, Screen
    <3> QED
      BY <2>1, <3>1, <3>2, NewPc, NextStatement
  <2>7. CASE Loop(w)
    <3> DEFINE up == [job[w] EXCEPT !.pc = "up", !.back = "clear"]
    <3>1. "loop" \in Pcs /\ "up" \in Pcs /\ "idle" \in Pcs
      BY DEF Pcs
    <3>2. At(w, "loop") /\ cursor' = cursor /\ Screen' /\ raced' = raced /\ failed' = failed
          /\ (job' = [job EXCEPT ![w] = Idle] \/ job' = [job EXCEPT ![w] = up])
      BY <2>7 DEF Loop, CursorInv, Types, Screen
    <3>3. up \in Jobs /\ up.pc = "up"
      BY <2>1, <3>1 DEF Jobs
    <3> HIDE DEF up
    <3>4. CASE job' = [job EXCEPT ![w] = Idle]
      BY <3>1, <3>2, <3>4, IdleJob, NextStatement
    <3>5. CASE job' = [job EXCEPT ![w] = up]
      BY <3>1, <3>2, <3>3, <3>5, NextStatement
    <3> QED
      BY <3>2, <3>4, <3>5
  <2>8. CASE Clear(w)
    <3>1. "clear" \in Pcs /\ "loop" \in Pcs
      BY DEF Pcs
    <3>2. At(w, "clear") /\ job' = [job EXCEPT ![w] = [job[w] EXCEPT !.pc = "loop"]]
          /\ cursor' = cursor /\ Screen' /\ raced' = raced /\ failed' = failed
      BY <2>8 DEF Clear, Goto, CursorInv, Types, Screen
    <3> QED
      BY <2>1, <3>1, <3>2, NewPc, NextStatement
  <2>9. CASE Decide(w)
    <3> DEFINE move == IF job[w].pc = "up"
                       THEN ScrollUp(cursor[job[w].c], Signed(crtc_start[job[w].c]), is_full[job[w].c])
                       ELSE ScrollDown(cursor[job[w].c], Signed(crtc_start[job[w].c]), is_full[job[w].c])
               j == [job[w] EXCEPT !.pc = "move", !.top = crtc_start[job[w].c], !.move = move]
    <3>1. "move" \in Pcs /\ "up" \in Pcs /\ "down" \in Pcs
      BY DEF Pcs
    <3>2. /\ At(w, "up") \/ At(w, "down")
          /\ cursor' = cursor /\ Screen' /\ raced' = raced /\ failed' = failed
          /\ job' = [job EXCEPT ![w] = j]
      BY <2>9 DEF Decide, CursorInv, Types, Screen
    <3>3. move \in {"stay", "inc", "dec", "home", "end"}
      BY Scrolls
    <3> HIDE DEF move
    <3>4. j \in Jobs /\ j.pc = "move"
      <4>1. crtc_start[job[w].c] \in Int
        BY <2>1 DEF CursorInv, Types, Screen, Jobs
      <4> QED
        BY <2>1, <3>1, <3>3, <4>1 DEF Jobs
    <3> HIDE DEF j
    <3> QED
      BY <3>1, <3>2, <3>4, NextStatement
  <2>10. CASE Move(w)
    <3>1. "idle" \in Pcs /\ "clear" \in Pcs /\ "move" \in Pcs
      BY DEF Pcs
    <3>7. Screen'
      BY <2>1, <2>10, Scrolls, SMT DEF Move, CursorInv, Types, Screen, Jobs
    <3>2. /\ At(w, "move") /\ cursor' = cursor /\ raced' = raced /\ failed' = failed
          /\ job' = [job EXCEPT ![w] = IF job[w].back = "idle" THEN Idle
                                       ELSE Going(job[w], job[w].back)]
      BY <2>10 DEF Move
    <3>3. job[w].back = "idle" \/ job[w].back = "clear"
      BY <2>1 DEF Jobs
    <3>4. Going(job[w], "clear") \in Jobs /\ Going(job[w], "clear").pc = "clear"
      BY <2>1, <3>1, IdleJob
    <3>5. CASE job[w].back = "idle"
      BY <3>1, <3>2, <3>5, <3>7, IdleJob, NextStatement
    <3>6. CASE job[w].back = "clear"
      <4>1. job' = [job EXCEPT ![w] = Going(job[w], "clear")]
        BY <3>2, <3>6
      <4> QED
        BY <3>1, <3>2, <3>4, <3>7, <4>1, NextStatement
    <3> QED
      BY <3>3, <3>5, <3>6
  <2> QED
    BY <1>2, <2>2, <2>3, <2>4, <2>5, <2>6, <2>7, <2>8, <2>9, <2>10 DEF CallerStep
<1>3. ASSUME NEW c \in Consoles, NEW dir \in {"up", "down"}, ScrollKey(c, dir)
      PROVE  CursorInv'
  <2> DEFINE j == [Idle EXCEPT !.pc = dir, !.c = c]
  <2>1. /\ At("task", "idle") /\ cursor' = cursor /\ Screen' /\ raced' = raced /\ failed' = failed
        /\ job' = [job EXCEPT !["task"] = j]
    BY <1>3 DEF ScrollKey, CursorInv, Types, Screen
  <2>2. "task" \in Callers /\ j.pc \in {"up", "down"}
    BY DEF Callers, Idle
  <2>3. job["task"].pc = "idle" /\ ~failed /\ job["kernel"].pc = "idle"
    BY <2>1, <2>2, WhoMoves
  <2>4. j \in Jobs
    <3>1. dir \in Pcs
      BY DEF Pcs
    <3> QED
      BY <3>1, IdleJob DEF Jobs
  <2> HIDE DEF j
  <2> QED
    BY <2>1, <2>2, <2>3, <2>4, CursorsKept DEF CursorInv, Types
<1>4. ASSUME NEW nr \in 0 .. NR_CONSOLES, SelectConsole(nr) PROVE CursorInv'
  BY <1>4 DEF SelectConsole, CursorInv, Types, CursorInside, FailsOnlyByRace, Screen
<1>5. CASE UNCHANGED cvars
  BY <1>5 DEF cvars, CursorInv, Types, Screen, CursorInside, FailsOnlyByRace
<1> QED
  BY <1>1, <1>2, <1>3, <1>4, <1>5 DEF ConNext

\* The cursor of every console stays in its region of video memory, one past the
\* end being reached only on the way into the wrap of out_char, whatever the sizes
\* and however sys_printx breaks into the steps of task_tty.
THEOREM CursorStaysInside == ConSpec => []CursorInside
<1>1. CursorInv => CursorInside
  BY DEF CursorInv
<1> QED
  BY <1>1, InitInv, StepInv, PTL DEF ConSpec

\* The asserts of out_char fail only after the kernel has printed in the middle of
\* a call of task_tty.
THEOREM AssertsFailOnlyByRace == ConSpec => []FailsOnlyByRace
<1>1. CursorInv => FailsOnlyByRace
  BY DEF CursorInv
<1> QED
  BY <1>1, InitInv, StepInv, PTL DEF ConSpec
-----------------------------------------------------------------------------
(***************************************************************************)
(* The screen: as long as the kernel has not printed in the middle of a    *)
(* call of task_tty, what is shown and what is overwritten is right        *)
(* (ScreenRight), for screens and regions of every size.                   *)
(***************************************************************************)

\* First cells of a screen that holds whole lines of the region.
InWindow(t) == t \in 0 .. con_size - SCREEN_SIZE /\ t % SCREEN_WIDTH = 0

\* The locals of a call on a console with the given cursor and screen: video_mem
\* is where the cursor is, a backspace has something to erase, and scroll_screen
\* has decided on a screen within the region.
JobRight(j, pos, top) ==
  /\ j.pc \in {"enter", "switch", "store"} => j.at = pos /\ pos \in 0 .. con_size - 1
  /\ (j.pc = "store" /\ j.ch = "bs") => j.at # 0
  /\ j.pc = "move" => j.top = top /\ (j.move # "stay" => InWindow(Moved(j.move, top)))

\* A call on console c is under way: its registers may be out of date.
Busy(c) == \E w \in Callers : job[w].pc # "idle" /\ job[w].c = c

ScreenInv ==
  ~raced =>
    /\ \A c \in Consoles : InWindow(crtc_start[c])
    /\ wrote \subseteq 0 .. con_size + SCREEN_WIDTH - 2
    /\ LET c == nr_current_console
       IN  Busy(c) \/ shown = Registers(c, crtc_start[c], cursor[c])
    /\ \A w \in Callers : JobRight(job[w], cursor[job[w].c], crtc_start[job[w].c])

-----------------------------------------------------------------------------

\* Lines begin at multiples of the width.
LEMMA Multiples ==
  ASSUME NEW w \in Nat \ {0}, NEW m \in Nat
  PROVE  (w * m) % w = 0
<1> DEFINE n == w * m
           q == n \div w
           r == n % w
<1>1. n \in Nat
  BY SMT
<1> HIDE DEF n
<1>2. q \in Nat /\ r \in 0 .. w - 1 /\ n = w * q + r
  BY <1>1, DivMod
<1> HIDE DEF q, r
<1>3. w * m = w * q + r
  BY <1>2 DEF n
<1>4. CASE m < q
  <2>1. w * (m + 1) <= w * q
    BY <1>2, <1>4, SMT
  <2> QED
    BY <1>2, <1>3, <2>1, SMT
<1>5. CASE m > q
  <2>1. w * (q + 1) <= w * m
    BY <1>2, <1>5, SMT
  <2> QED
    BY <1>2, <1>3, <2>1, SMT
<1>6. CASE m = q
  <2>1. r = 0
    BY <1>2, <1>3, <1>6, SMT
  <2> QED
    BY <2>1 DEF r, n
<1> QED
  BY <1>2, <1>4, <1>5, <1>6, SMT

\* Order and distance of multiples of the width are those of the line numbers.
LEMMA MultiplesOrder ==
  ASSUME NEW w \in Nat \ {0}, NEW a \in Int, NEW b \in Int
  PROVE  /\ (w * a < w * b) <=> (a < b)
         /\ (w * a <= w * b) <=> (a <= b)
         /\ (w * a = w * b) <=> (a = b)
<1>1. a < b => w * a < w * b
  BY SMT
<1>2. b < a => w * b < w * a
  BY SMT
<1>3. w * a \in Int /\ w * b \in Int
  BY SMT
<1> QED
  BY <1>1, <1>2, <1>3, SMT

\* Sizes and screens in lines.
LEMMA InLines ==
  /\ \E k \in Nat : con_size = SCREEN_WIDTH * k
  /\ \E h \in Nat : SCREEN_SIZE = SCREEN_WIDTH * h
  /\ \A t : InWindow(t) => \E a \in Nat : t = SCREEN_WIDTH * a
<1>1. size_per_con \in Nat
  BY ConsoleAssumption, DivMod DEF size_per_con
<1>2. \E k \in Nat : con_size = SCREEN_WIDTH * k
  <2> DEFINE k == size_per_con \div SCREEN_WIDTH
  <2>1. k \in Nat /\ con_size = k * SCREEN_WIDTH
    BY <1>1, Sizes, DivMod DEF con_size
  <2> HIDE DEF k
  <2> QED
    BY <2>1, Sizes, SMT
<1>3. \A n \in Nat : n % SCREEN_WIDTH = 0 => \E a \in Nat : n = SCREEN_WIDTH * a
  <2> SUFFICES ASSUME NEW n \in Nat, n % SCREEN_WIDTH = 0
               PROVE  \E a \in Nat : n = SCREEN_WIDTH * a
    OBVIOUS
  <2>1. n \div SCREEN_WIDTH \in Nat /\ n = SCREEN_WIDTH * (n \div SCREEN_WIDTH) + (n % SCREEN_WIDTH)
    BY Sizes, DivMod
  <2>2. n = SCREEN_WIDTH * (n \div SCREEN_WIDTH)
    BY <2>1, Sizes, SMT
  <2> QED
    BY <2>1, <2>2
<1>4. \E h \in Nat : SCREEN_SIZE = SCREEN_WIDTH * h
  BY <1>3, ConsoleAssumption
<1>5. \A t : InWindow(t) => t \in Nat /\ t % SCREEN_WIDTH = 0
  BY Sizes, SMT DEF InWindow
<1> QED
  BY <1>2, <1>3, <1>4, <1>5

\* scroll_screen moves the screen only to whole lines within the region, if the
\* screen and the cursor are there to begin with.
LEMMA ScrollsInside ==
  ASSUME NEW pos \in 0 .. con_size - 1, NEW top, InWindow(top), NEW full,
         NEW move \in {ScrollUp(pos, Signed(top), full), ScrollDown(pos, Signed(top), full)},
         move # "stay"
  PROVE  InWindow(Moved(move, top))
<1> DEFINE W == SCREEN_WIDTH
<1>1. PICK k \in Nat : con_size = W * k
  BY InLines
<1>2. PICK h \in Nat : SCREEN_SIZE = W * h
  BY InLines
<1>3. PICK a \in Nat : top = W * a
  BY InLines
<1> DEFINE l == LineNr(pos)
<1>4. l \in Nat /\ W * l <= pos /\ pos < con_size
  BY Sizes, DivMod, SMT DEF LineNr
<1> HIDE DEF l
<1>5. l < k /\ a + h <= k /\ h <= k
  <2>1. W * l < W * k
    BY <1>1, <1>4, Sizes, SMT
  <2>2. W * (a + h) <= W * k
    <3>1. top + SCREEN_SIZE <= con_size
      BY Sizes, SMT DEF InWindow
    <3>2. W * (a + h) = W * a + W * h
      BY Sizes, SMT
    <3> QED
      BY <1>1, <1>2, <1>3, <3>1, <3>2
  <2>3. W * h <= W * k
    BY <1>1, <1>2, Sizes
  <2> QED
    BY <1>4, <2>1, <2>2, <2>3, Sizes, MultiplesOrder, SMT
<1>6. Signed(top) = top
  <2>1. top \in Nat /\ top < con_size /\ UINT \in Nat /\ 2 * con_size <= UINT
    BY Sizes, ConsoleAssumption, SMT DEF InWindow
  <2> QED
    BY <2>1, Sizes, SMT DEF Signed
<1>7. ASSUME NEW m \in Nat, m + h <= k PROVE InWindow(W * m) /\ (W * m) % UINT = W * m
  <2>1. W * (m + h) <= W * k /\ W * (m + h) = W * m + W * h
    BY <1>7, Sizes, MultiplesOrder, SMT
  <2>2. W * m \in Nat
    BY Sizes, SMT
  <2>3. W * m \in 0 .. con_size - SCREEN_SIZE
    BY <1>1, <1>2, <2>1, <2>2, Sizes, SMT
  <2>4. W * m < UINT /\ UINT \in Nat
    BY <2>3, Sizes, ConsoleAssumption, SMT
  <2>5. (W * m) % UINT = W * m
    <3> DEFINE n == W * m
    <3>1. n \in Nat /\ n < UINT /\ UINT \in Nat
      BY <2>2, <2>4
    <3> HIDE DEF n
    <3>2. n % UINT = n
      BY <3>1, SMT
    <3> QED
      BY <3>2 DEF n
  <2> QED
    BY <2>3, <2>5, Sizes, Multiples DEF InWindow
<1>8. CASE move = "inc"
  <2>1. \/ W * l >= W * a + W * h
        \/ W * a + W * h # W * k
    <3>1. move = ScrollUp(pos, top, full)
      BY <1>6, <1>8, Scrolls
    <3>2. l * W >= top + SCREEN_SIZE \/ top + SCREEN_SIZE # con_size
      BY <1>8, <3>1 DEF ScrollUp, l
    <3>3. l * W = W * l
      BY <1>4, Sizes, SMT
    <3> QED
      BY <1>1, <1>2, <1>3, <3>2, <3>3
  <2>2. W * a + W * h = W * (a + h)
    BY Sizes, SMT
  <2>3. a + h <= l \/ a + h # k
    BY <1>4, <2>1, <2>2, Sizes, MultiplesOrder, SMT
  <2>4. (a + 1) + h <= k /\ a + 1 \in Nat
    BY <1>4, <1>5, <2>3, SMT
  <2>5. W * (a + 1) = top + W
    BY <1>3, Sizes, SMT
  <2> QED
    BY <1>7, <1>8, <2>4, <2>5 DEF Moved
<1>9. CASE move = "dec"
  <2>1. top # 0
    BY <1>3, <1>6, <1>9, Sizes, SMT DEF ScrollUp, ScrollDown
  <2>2. a # 0
    BY <1>3, <2>1, Sizes, SMT
  <2>3. a - 1 \in Nat /\ (a - 1) + h <= k
    BY <1>5, <2>2, SMT
  <2>4. W * (a - 1) = top - W
    BY <1>3, Sizes, SMT
  <2> QED
    BY <1>7, <1>9, <2>3, <2>4 DEF Moved
<1>10. CASE move = "home"
  <2>1. W * 0 = 0
    BY Sizes, SMT
  <2> QED
    BY <1>5, <1>7, <1>10, <2>1, SMT DEF Moved
<1>11. CASE move = "end"
  <2>1. k - h \in Nat /\ (k - h) + h <= k
    BY <1>5, SMT
  <2>2. W * (k - h) = con_size - SCREEN_SIZE
    BY <1>1, <1>2, Sizes, SMT
  <2> QED
    BY <1>7, <1>11, <2>1, <2>2 DEF Moved
<1> QED
  BY <1>8, <1>9, <1>10, <1>11, Scrolls

-----------------------------------------------------------------------------

\* The first screen of a region holds whole lines of it.
LEMMA HomeInWindow == InWindow(0)
<1>1. SCREEN_WIDTH * 0 = 0
  BY Sizes, SMT
<1> QED
  BY <1>1, Sizes, Multiples, SMT DEF InWindow

\* init_screen shows the first screen of the first console.
LEMMA ScreenInit == ConInit => ScreenInv
<1> SUFFICES ASSUME ConInit PROVE ScreenInv
  OBVIOUS
<1>1. InWindow(0)
  BY HomeInWindow
<1>2. 0 \in Consoles /\ \A w \in Callers : job[w] = Idle
  BY ConsoleAssumption, SMT DEF ConInit, Consoles
<1>3. \A pos, top : JobRight(Idle, pos, top)
  BY DEF JobRight, Idle
<1> QED
  BY <1>1, <1>2, <1>3 DEF ConInit, ScreenInv

\* A step of w, while the other caller is idle, to job j.
LEMMA ScreenKept ==
  ASSUME CursorInv, NEW w \in Callers, \A v \in Callers \ {w} : job[v].pc = "idle",
         NEW j \in Jobs, job' = [job EXCEPT ![w] = j],
         JobRight(j, cursor'[j.c], crtc_start'[j.c]),
         \A c \in Consoles : InWindow(crtc_start'[c]),
         wrote' \subseteq 0 .. con_size + SCREEN_WIDTH - 2,
         \/ j.pc # "idle" /\ j.c = nr_current_console'
         \/ shown' = Registers(nr_current_console', crtc_start'[nr_current_console'],
                               cursor'[nr_current_console'])
  PROVE  ScreenInv'
<1>1. job'[w] = j /\ \A v \in Callers \ {w} : job'[v] = job[v]
  BY DEF CursorInv, Types
<1>2. \A v \in Callers \ {w} : JobRight(job'[v], cursor'[job'[v].c], crtc_start'[job'[v].c])
  BY <1>1 DEF JobRight
<1>3. \A v \in Callers : JobRight(job'[v], cursor'[job'[v].c], crtc_start'[job'[v].c])
  BY <1>1, <1>2
<1>4. (Busy(nr_current_console))'
      \/ shown' = Registers(nr_current_console', crtc_start'[nr_current_console'],
                            cursor'[nr_current_console'])
  BY <1>1 DEF Busy
<1> QED
  BY <1>3, <1>4 DEF ScreenInv

\* The state in which w executes a statement of a call, before any race.
LEMMA Alone ==
  ASSUME CursorInv, ScreenInv, ~raced, NEW w \in Callers, NEW pc, At(w, pc), pc # "idle"
  PROVE  /\ job[w] \in Jobs /\ job[w].c \in Consoles /\ job[w].pc = pc
         /\ \A v \in Callers \ {w} : job[v].pc = "idle"
         /\ \A c \in Consoles : InWindow(crtc_start[c])
         /\ JobRight(job[w], cursor[job[w].c], crtc_start[job[w].c])
         /\ job[w].c = nr_current_console
            \/ shown = Registers(nr_current_console, crtc_start[nr_current_console],
                                 cursor[nr_current_console])
         /\ pc # "wrap" => cursor[job[w].c] \in 0 .. con_size - 1
<1>1. /\ job[w] \in Jobs /\ job[w].pc = pc
      /\ \/ w = "task" /\ job["kernel"].pc = "idle"
         \/ w = "kernel" /\ job["task"].pc = "idle"
  BY WhoMoves
<1>2. \A v \in Callers \ {w} : job[v].pc = "idle"
  BY <1>1, SMT DEF Callers
<1>3. job[w].c \in Consoles
  BY <1>1 DEF Jobs
<1>4. /\ \A c \in Consoles : InWindow(crtc_start[c])
      /\ JobRight(job[w], cursor[job[w].c], crtc_start[job[w].c])
      /\ Busy(nr_current_console)
         \/ shown = Registers(nr_current_console, crtc_start[nr_current_console],
                              cursor[nr_current_console])
  BY DEF ScreenInv
<1>5. Busy(nr_current_console) => job[w].c = nr_current_console
  BY <1>2 DEF Busy
<1>6. pc # "wrap" => cursor[job[w].c] \in 0 .. con_size - 1
  <2> SUFFICES ASSUME pc # "wrap" PROVE cursor[job[w].c] \in 0 .. con_size - 1
    OBVIOUS
  <2>1. cursor[job[w].c] \in 0 .. con_size
    BY <1>3 DEF CursorInv, CursorInside
  <2>2. cursor[job[w].c] < con_size
    BY PastTheEnd
  <2> QED
    BY <2>1, <2>2, Sizes, SMT
<1> QED
  BY <1>1, <1>2, <1>3, <1>4, <1>5, <1>6

\* A step of w within a call that changes at most the cursor and the screen of its
\* console, and not the registers.
LEMMA WithinCall ==
  ASSUME CursorInv, ScreenInv, NEW w \in Callers, NEW pc, At(w, pc), pc # "idle", ~raced,
         NEW j \in Jobs, j.c = job[w].c, j.pc # "idle", job' = [job EXCEPT ![w] = j],
         \A c \in Consoles \ {j.c} : cursor'[c] = cursor[c] /\ crtc_start'[c] = crtc_start[c],
         UNCHANGED <<nr_current_console, shown>>,
         InWindow(crtc_start[j.c]) => InWindow(crtc_start'[j.c]),
         JobRight(j, cursor'[j.c], crtc_start'[j.c]),
         wrote' \subseteq 0 .. con_size + SCREEN_WIDTH - 2
  PROVE  ScreenInv'
<1>1. /\ job[w].c \in Consoles /\ nr_current_console \in Consoles
      /\ \A v \in Callers \ {w} : job[v].pc = "idle"
      /\ \A c \in Consoles : InWindow(crtc_start[c])
      /\ job[w].c = nr_current_console
         \/ shown = Registers(nr_current_console, crtc_start[nr_current_console],
                              cursor[nr_current_console])
  BY Alone DEF CursorInv, Types, Screen
<1>2. \A c \in Consoles : InWindow(crtc_start'[c])
  BY <1>1
<1>3. \/ j.pc # "idle" /\ j.c = nr_current_console'
      \/ shown' = Registers(nr_current_console', crtc_start'[nr_current_console'],
                            cursor'[nr_current_console'])
  BY <1>1
<1> QED
  BY <1>1, <1>2, <1>3, ScreenKept

\* A call, or part of one, that ends with flush().
LEMMA EndsWithFlush ==
  ASSUME CursorInv, ScreenInv, NEW w \in Callers, NEW pc, At(w, pc), pc # "idle", ~raced,
         NEW j \in Jobs, job' = [job EXCEPT ![w] = j],
         \A c \in Consoles \ {job[w].c} : crtc_start'[c] = crtc_start[c],
         UNCHANGED <<cursor, nr_current_console>>,
         InWindow(crtc_start'[job[w].c]),
         JobRight(j, cursor[j.c], crtc_start'[j.c]), wrote' = {},
         flush(job[w].c, nr_current_console, crtc_start'[job[w].c], cursor[job[w].c])
  PROVE  ScreenInv'
<1>1. /\ job[w].c \in Consoles /\ nr_current_console \in Consoles
      /\ \A v \in Callers \ {w} : job[v].pc = "idle"
      /\ \A c \in Consoles : InWindow(crtc_start[c])
      /\ job[w].c = nr_current_console
         \/ shown = Registers(nr_current_console, crtc_start[nr_current_console],
                              cursor[nr_current_console])
  BY Alone DEF CursorInv, Types, Screen
<1>2. \A c \in Consoles : InWindow(crtc_start'[c])
  BY <1>1
<1>3. shown' = Registers(nr_current_console', crtc_start'[nr_current_console'],
                         cursor'[nr_current_console'])
  BY <1>1 DEF flush
<1> QED
  BY <1>1, <1>2, <1>3, ScreenKept

\* clear_screen(cursor, SCREEN_WIDTH), from inside the region.
LEMMA ClearNear ==
  ASSUME NEW pos \in 0 .. con_size - 1
  PROVE  Cells(pos, SCREEN_WIDTH) \subseteq 0 .. con_size + SCREEN_WIDTH - 2
BY Sizes, SMT DEF Cells

\* A call of out_char begins: what is on the screen stays.
LEMMA OutCharScreen ==
  ASSUME CursorInv, ScreenInv, ~raced', NEW w \in Callers, NEW c \in Consoles, NEW ch \in Chars,
         OutChar(w, c, ch)
  PROVE  ScreenInv'
<1> DEFINE j == [Idle EXCEPT !.pc = "enter", !.c = c, !.ch = ch, !.at = cursor[c]]
<1>1. /\ At(w, "idle") /\ job' = [job EXCEPT ![w] = j] /\ wrote' = {}
      /\ UNCHANGED <<cursor, crtc_start, nr_current_console, shown>>
      /\ raced' = (raced \/ (w = "kernel" /\ job["task"].pc # "idle"))
  BY DEF OutChar
<1>2. ~raced /\ (w = "kernel" => job["task"].pc = "idle")
  BY <1>1
<1>3. \A v \in Callers : job[v].pc = "idle"
  BY <1>1, <1>2, WhoMoves DEF Callers
<1>4. cursor[c] \in 0 .. con_size - 1
  <2>1. cursor[c] \in 0 .. con_size /\ cursor[c] # con_size
    BY <1>3 DEF CursorInv, CursorInside
  <2> QED
    BY <2>1, Sizes, SMT
<1>5. j \in Jobs /\ j.pc = "enter" /\ j.at = cursor[c] /\ j.c = c
  <2>1. "enter" \in Pcs /\ cursor[c] \in Nat
    BY <1>4, Sizes, SMT DEF Pcs
  <2> QED
    BY <2>1, IdleJob DEF Jobs, Idle
<1>6. JobRight(j, cursor[c], crtc_start[c])
  BY <1>4, <1>5 DEF JobRight
<1>7. /\ \A d \in Consoles : InWindow(crtc_start[d])
      /\ shown = Registers(nr_current_console, crtc_start[nr_current_console],
                           cursor[nr_current_console])
  BY <1>2, <1>3 DEF ScreenInv, Busy
<1> HIDE DEF j
<1> QED
  BY <1>1, <1>3, <1>5, <1>6, <1>7, ScreenKept

\* The asserts of out_char, on entry and in front of the scrolling loop.
LEMMA AssertScreen ==
  ASSUME CursorInv, ScreenInv, ~raced, NEW w \in Callers, Assert(w)
  PROVE  ScreenInv'
<1> DEFINE n == SCREEN_WIDTH * (LineNr(cursor[job[w].c]) + 1)
           entered == [job[w] EXCEPT !.pc = "switch", !.new = n]
           looping == [job[w] EXCEPT !.pc = "loop"]
<1>1. /\ UNCHANGED <<cursor, crtc_start, nr_current_console, shown>> /\ wrote' = {}
      /\ At(w, "enter") \/ At(w, "assert")
      /\ failed' = (cursor[job[w].c] >= con_size)
  BY DEF Assert
<1>2. job' = IF failed' THEN job
             ELSE [job EXCEPT ![w] = IF job[w].pc = "enter" THEN entered ELSE looping]
  BY DEF Assert
<1>3. /\ job[w] \in Jobs /\ job[w].pc \in {"enter", "assert"}
      /\ JobRight(job[w], cursor[job[w].c], crtc_start[job[w].c])
      /\ cursor[job[w].c] \in 0 .. con_size - 1
      /\ job[w].pc = "enter" => At(w, "enter")
      /\ job[w].pc # "enter" => At(w, "assert")
  BY <1>1, Alone DEF At
<1>4. failed' = FALSE
  <2>1. (cursor[job[w].c] >= con_size) = FALSE
    BY <1>3, Sizes, SMT
  <2> QED
    BY <1>1, <2>1, Zenon
<1>5. n \in Int
  BY <1>3, Sizes, SMT
<1> HIDE DEF n
<1>6. CASE job[w].pc = "enter"
  <2>1. job' = [job EXCEPT ![w] = entered]
    BY <1>2, <1>4, <1>6
  <2>2. /\ entered \in Jobs /\ entered.pc = "switch" /\ entered.c = job[w].c
        /\ entered.at = job[w].at
    BY <1>3, <1>5 DEF Jobs, Pcs
  <2>3. JobRight(entered, cursor[job[w].c], crtc_start[job[w].c])
    BY <1>3, <1>6, <2>2 DEF JobRight
  <2> HIDE DEF entered
  <2> QED
    BY <1>1, <1>3, <1>6, <2>1, <2>2, <2>3, WithinCall
<1>7. CASE job[w].pc # "enter"
  <2>1. job' = [job EXCEPT ![w] = looping]
    BY <1>2, <1>4, <1>7
  <2>2. looping \in Jobs /\ looping.pc = "loop" /\ looping.c = job[w].c
    BY <1>3 DEF Jobs, Pcs
  <2>3. JobRight(looping, cursor[job[w].c], crtc_start[job[w].c])
    BY <2>2 DEF JobRight
  <2> HIDE DEF looping
  <2> QED
    BY <1>1, <1>3, <1>7, <2>1, <2>2, <2>3, WithinCall
<1> QED
  BY <1>6, <1>7

\* The switch of out_char: the character goes into the cell of the cursor.
LEMMA SwitchScreen ==
  ASSUME CursorInv, ScreenInv, ~raced, NEW w \in Callers, Switch(w)
  PROVE  ScreenInv'
<1> DEFINE pos == cursor[job[w].c]
           n == CASE job[w].ch = "nl" -> job[w].new
                  [] job[w].ch = "bs" -> pos - 1
                  [] OTHER       -> pos + 1
           k == [job[w] EXCEPT !.pc = "store", !.new = n]
<1>1. /\ At(w, "switch") /\ UNCHANGED <<cursor, crtc_start, nr_current_console, shown>>
      /\ job' = IF job[w].ch = "bs" /\ pos = 0 THEN [job EXCEPT ![w] = Going(job[w], "wrap")]
                                               ELSE [job EXCEPT ![w] = k]
      /\ wrote' = IF job[w].ch = "x" THEN {job[w].at} ELSE {}
  BY DEF Switch
<1>2. /\ job[w] \in Jobs /\ job[w].pc = "switch"
      /\ job[w].at = pos /\ pos \in 0 .. con_size - 1
  BY <1>1, Alone DEF JobRight
<1>3. wrote' \subseteq 0 .. con_size + SCREEN_WIDTH - 2
  BY <1>1, <1>2, Sizes, SMT
<1>4. CASE job[w].ch = "bs" /\ pos = 0
  <2>1. job' = [job EXCEPT ![w] = Going(job[w], "wrap")]
    BY <1>1, <1>4
  <2>2. Going(job[w], "wrap") \in Jobs /\ Going(job[w], "wrap").pc = "wrap"
        /\ Going(job[w], "wrap").c = job[w].c
    BY <1>2, IdleJob DEF Pcs
  <2>3. JobRight(Going(job[w], "wrap"), pos, crtc_start[job[w].c])
    BY <2>2 DEF JobRight
  <2> QED
    BY <1>1, <1>3, <2>1, <2>2, <2>3, WithinCall
<1>5. CASE ~(job[w].ch = "bs" /\ pos = 0)
  <2>1. job' = [job EXCEPT ![w] = k]
    BY <1>1, <1>5
  <2>2. n \in Int
    BY <1>2, Sizes, SMT DEF Jobs
  <2> HIDE DEF n
  <2>3. /\ k \in Jobs /\ k.pc = "store" /\ k.c = job[w].c /\ k.at = job[w].at
        /\ k.ch = job[w].ch
    BY <1>2, <2>2 DEF Jobs, Pcs
  <2>4. JobRight(k, pos, crtc_start[job[w].c])
    BY <1>2, <1>5, <2>3 DEF JobRight
  <2> HIDE DEF k
  <2> QED
    BY <1>1, <1>3, <2>1, <2>3, <2>4, WithinCall
<1> QED
  BY <1>4, <1>5

\* The new cursor is stored; a backspace clears the cell before the old one.
LEMMA StoreScreen ==
  ASSUME CursorInv, ScreenInv, ~raced, NEW w \in Callers, Store(w)
  PROVE  ScreenInv'
<1> DEFINE j == Going(job[w], "wrap")
<1>1. /\ At(w, "store") /\ cursor' = [cursor EXCEPT ![job[w].c] = job[w].new]
      /\ job' = [job EXCEPT ![w] = j] /\ UNCHANGED <<crtc_start, nr_current_console, shown>>
      /\ wrote' = IF job[w].ch = "bs" THEN {job[w].at - 1} ELSE {}
  BY DEF Store
<1>2. /\ job[w] \in Jobs
      /\ job[w].at \in 0 .. con_size - 1 /\ (job[w].ch = "bs" => job[w].at # 0)
  BY <1>1, Alone DEF JobRight
<1>3. wrote' \subseteq 0 .. con_size + SCREEN_WIDTH - 2
  BY <1>1, <1>2, Sizes, SMT
<1>4. j \in Jobs /\ j.pc = "wrap" /\ j.c = job[w].c
  BY <1>2, IdleJob DEF Pcs
<1>5. \A pos, top : JobRight(j, pos, top)
  BY <1>4 DEF JobRight
<1>6. \A c \in Consoles \ {j.c} : cursor'[c] = cursor[c]
  BY <1>1, <1>4 DEF CursorInv, Types
<1> HIDE DEF j
<1> QED
  BY <1>1, <1>3, <1>4, <1>5, <1>6, WithinCall

\* The wrap at the end of the region copies the last screen to its beginning.
LEMMA WrapScreen ==
  ASSUME CursorInv, ScreenInv, ~raced, NEW w \in Callers, Wrap(w)
  PROVE  ScreenInv'
<1> DEFINE pos == cursor[job[w].c]
           full == [job[w] EXCEPT !.pc = "full"]
           next == [job[w] EXCEPT !.pc = "assert"]
<1>1. /\ At(w, "wrap") /\ UNCHANGED <<nr_current_console, shown>>
      /\ \/ /\ job' = [job EXCEPT ![w] = full]
            /\ wrote' = Cells(0, SCREEN_SIZE - SCREEN_WIDTH)
            /\ crtc_start' = [crtc_start EXCEPT ![job[w].c] = 0]
            /\ \E n : cursor' = [cursor EXCEPT ![job[w].c] = n]
         \/ /\ job' = [job EXCEPT ![w] = next] /\ wrote' = {}
            /\ UNCHANGED <<cursor, crtc_start>>
  BY DEF Wrap, Goto
<1>2. job[w] \in Jobs /\ job[w].c \in Consoles
  BY <1>1, Alone
<1>3. /\ full \in Jobs /\ full.pc = "full" /\ full.c = job[w].c
      /\ next \in Jobs /\ next.pc = "assert" /\ next.c = job[w].c
  BY <1>2 DEF Jobs, Pcs
<1>4. \A p, top : JobRight(full, p, top) /\ JobRight(next, p, top)
  BY <1>3 DEF JobRight
<1>5. wrote' \subseteq 0 .. con_size + SCREEN_WIDTH - 2
  BY <1>1, Sizes, SMT DEF Cells
<1>6. \A c \in Consoles \ {job[w].c} : cursor'[c] = cursor[c] /\ crtc_start'[c] = crtc_start[c]
  BY <1>1 DEF CursorInv, Types, Screen
<1>7. InWindow(crtc_start[job[w].c]) => InWindow(crtc_start'[job[w].c])
  BY <1>1, <1>2, HomeInWindow DEF CursorInv, Types, Screen
<1> HIDE DEF full, next
<1> QED
  BY <1>1, <1>3, <1>4, <1>5, <1>6, <1>7, WithinCall, SMT

\* Full and Clear: a line is blanked from the cursor on.
LEMMA BlankScreen ==
  ASSUME CursorInv, ScreenInv, ~raced, NEW w \in Callers, Full(w) \/ Clear(w)
  PROVE  ScreenInv'
<1>1. PICK from \in {"full", "clear"}, to \in {"assert", "loop"} :
         /\ At(w, from) /\ job' = [job EXCEPT ![w] = [job[w] EXCEPT !.pc = to]]
         /\ UNCHANGED <<cursor, crtc_start, nr_current_console, shown>>
         /\ wrote' = Cells(cursor[job[w].c], SCREEN_WIDTH)
  BY DEF Full, Clear, Goto
<1> DEFINE j == [job[w] EXCEPT !.pc = to]
<1>2. job[w] \in Jobs /\ cursor[job[w].c] \in 0 .. con_size - 1
  BY <1>1, Alone
<1>3. j \in Jobs /\ j.pc = to /\ j.c = job[w].c
  BY <1>2 DEF Jobs, Pcs
<1>4. \A pos, top : JobRight(j, pos, top)
  BY <1>3 DEF JobRight
<1>5. wrote' \subseteq 0 .. con_size + SCREEN_WIDTH - 2
  BY <1>1, <1>2, ClearNear
<1>6. job' = [job EXCEPT ![w] = j]
  BY <1>1
<1> HIDE DEF j
<1> QED
  BY <1>1, <1>3, <1>4, <1>5, <1>6, WithinCall

\* The loop that scrolls until the cursor is on the screen, and the flush after it.
LEMMA LoopScreen ==
  ASSUME CursorInv, ScreenInv, ~raced, NEW w \in Callers, Loop(w)
  PROVE  ScreenInv'
<1> DEFINE up == [job[w] EXCEPT !.pc = "up", !.back = "clear"]
<1>1. /\ At(w, "loop") /\ UNCHANGED <<cursor, crtc_start, nr_current_console>> /\ wrote' = {}
      /\ \/ /\ flush(job[w].c, nr_current_console, crtc_start[job[w].c], cursor[job[w].c])
            /\ job' = [job EXCEPT ![w] = Idle]
         \/ job' = [job EXCEPT ![w] = up] /\ UNCHANGED shown
  BY DEF Loop
<1>2. job[w] \in Jobs /\ InWindow(crtc_start[job[w].c])
  BY <1>1, Alone
<1>3. CASE /\ flush(job[w].c, nr_current_console, crtc_start[job[w].c], cursor[job[w].c])
           /\ job' = [job EXCEPT ![w] = Idle]
  <2>1. \A pos, top : JobRight(Idle, pos, top)
    BY DEF JobRight, Idle
  <2>2. flush(job[w].c, nr_current_console, crtc_start'[job[w].c], cursor[job[w].c])
    BY <1>1, <1>3 DEF flush
  <2> QED
    BY <1>1, <1>2, <1>3, <2>1, <2>2, IdleJob, EndsWithFlush
<1>4. CASE job' = [job EXCEPT ![w] = up] /\ UNCHANGED shown
  <2>1. up \in Jobs /\ up.pc = "up" /\ up.c = job[w].c
    BY <1>2 DEF Jobs, Pcs
  <2>2. \A pos, top : JobRight(up, pos, top)
    BY <2>1 DEF JobRight
  <2> HIDE DEF up
  <2> QED
    BY <1>1, <1>4, <2>1, <2>2, WithinCall
<1> QED
  BY <1>1, <1>3, <1>4

\* scroll_screen decides how far to go.
LEMMA DecideScreen ==
  ASSUME CursorInv, ScreenInv, ~raced, NEW w \in Callers, Decide(w)
  PROVE  ScreenInv'
<1> DEFINE pos == cursor[job[w].c]
           top == crtc_start[job[w].c]
           full == is_full[job[w].c]
           move == IF job[w].pc = "up" THEN ScrollUp(pos, Signed(top), full)
                                       ELSE ScrollDown(pos, Signed(top), full)
           j == [job[w] EXCEPT !.pc = "move", !.top = top, !.move = move]
<1>1. /\ At(w, "up") \/ At(w, "down")
      /\ UNCHANGED <<cursor, crtc_start, nr_current_console, shown>> /\ wrote' = {}
      /\ job' = [job EXCEPT ![w] = j]
  BY DEF Decide
<1>2. /\ job[w] \in Jobs /\ job[w].c \in Consoles
      /\ InWindow(top) /\ pos \in 0 .. con_size - 1
  BY <1>1, Alone
<1>3. top \in Int
  BY <1>2 DEF CursorInv, Types, Screen
<1>4. /\ move \in {"stay", "inc", "dec", "home", "end"}
      /\ move \in {ScrollUp(pos, Signed(top), full), ScrollDown(pos, Signed(top), full)}
  BY Scrolls
<1> HIDE DEF move
<1>5. move # "stay" => InWindow(Moved(move, top))
  <2> HIDE DEF pos, top, full
  <2> QED
    BY <1>2, <1>4, ScrollsInside
<1>6. j \in Jobs /\ j.pc = "move" /\ j.c = job[w].c /\ j.top = top /\ j.move = move
  BY <1>2, <1>3, <1>4 DEF Jobs, Pcs
<1>7. JobRight(j, pos, top)
  BY <1>5, <1>6 DEF JobRight
<1> HIDE DEF j
<1> QED
  BY <1>1, <1>6, <1>7, WithinCall

\* scroll_screen moves the screen and flushes the registers.
LEMMA MoveScreen ==
  ASSUME CursorInv, ScreenInv, ~raced, NEW w \in Callers, Move(w)
  PROVE  ScreenInv'
<1> DEFINE j == IF job[w].back = "idle" THEN Idle ELSE Going(job[w], job[w].back)
           top == crtc_start[job[w].c]
<1>1. /\ At(w, "move") /\ UNCHANGED <<cursor, nr_current_console>> /\ wrote' = {}
      /\ job' = [job EXCEPT ![w] = j]
      /\ flush(job[w].c, nr_current_console, crtc_start'[job[w].c], cursor[job[w].c])
      /\ \/ job[w].move = "stay" /\ UNCHANGED crtc_start
         \/ /\ job[w].move # "stay"
            /\ \E t \in {job[w].top, top} :
                  crtc_start' = [crtc_start EXCEPT ![job[w].c] = Moved(job[w].move, t)]
  BY DEF Move
<1>2. /\ job[w] \in Jobs /\ job[w].c \in Consoles /\ InWindow(top)
      /\ job[w].top = top /\ (job[w].move # "stay" => InWindow(Moved(job[w].move, top)))
  BY <1>1, Alone DEF JobRight
<1>3. crtc_start \in [Consoles -> Int]
  BY DEF CursorInv, Types, Screen
<1>4. /\ \A c \in Consoles \ {job[w].c} : crtc_start'[c] = crtc_start[c]
      /\ InWindow(crtc_start'[job[w].c])
  BY <1>1, <1>2, <1>3
<1>5. j \in Jobs /\ j.pc \in {"idle", "clear"}
  <2>1. job[w].back \in {"idle", "clear"} /\ "clear" \in Pcs
    BY <1>2 DEF Jobs, Pcs
  <2> QED
    BY <1>2, <2>1, IdleJob
<1>6. \A p, t : JobRight(j, p, t)
  BY <1>5 DEF JobRight
<1> HIDE DEF j
<1> QED
  BY <1>1, <1>4, <1>5, <1>6, EndsWithFlush

\* Every step keeps the screen right, unless the kernel has come in between.
LEMMA ScreenStep == CursorInv /\ ScreenInv /\ [ConNext]_cvars => ScreenInv'
<1> SUFFICES ASSUME CursorInv, ScreenInv, [ConNext]_cvars, ~raced' PROVE ScreenInv'
  BY DEF ScreenInv
<1>1. ASSUME NEW w \in Callers, NEW c \in Consoles, NEW ch \in Chars, OutChar(w, c, ch)
      PROVE  ScreenInv'
  BY <1>1, OutCharScreen
<1>2. ASSUME NEW w \in Callers, CallerStep(w) PROVE ScreenInv'
  <2>1. ~raced
    BY <1>2 DEF CallerStep, Assert, Switch, Store, Wrap, Full, Loop, Clear, Decide, Move
  <2> QED
    BY <1>2, <2>1, AssertScreen, SwitchScreen, StoreScreen, WrapScreen, BlankScreen,
       LoopScreen, DecideScreen, MoveScreen DEF CallerStep
<1>3. ASSUME NEW con \in Consoles, NEW dir \in {"up", "down"}, ScrollKey(con, dir)
      PROVE  ScreenInv'
  <2> DEFINE j == [Idle EXCEPT !.pc = dir, !.c = con]
  <2>1. /\ At("task", "idle") /\ wrote' = {} /\ raced' = raced
        /\ UNCHANGED <<cursor, crtc_start, nr_current_console, shown>>
        /\ job' = [job EXCEPT !["task"] = j]
    BY <1>3 DEF ScrollKey
  <2>2. "task" \in Callers /\ \A v \in Callers : job[v].pc = "idle"
    BY <2>1, WhoMoves DEF Callers
  <2>3. j \in Jobs /\ j.pc = dir
    <3>1. dir \in Pcs
      BY DEF Pcs
    <3> QED
      BY <3>1, IdleJob DEF Jobs, Idle
  <2>4. \A p, t : JobRight(j, p, t)
    BY <2>3 DEF JobRight
  <2>5. /\ \A c \in Consoles : InWindow(crtc_start[c])
        /\ shown = Registers(nr_current_console, crtc_start[nr_current_console],
                             cursor[nr_current_console])
    BY <2>1, <2>2 DEF ScreenInv, Busy
  <2> HIDE DEF j
  <2> QED
    BY <2>1, <2>2, <2>3, <2>4, <2>5, ScreenKept
<1>4. ASSUME NEW nr \in 0 .. NR_CONSOLES, SelectConsole(nr) PROVE ScreenInv'
  <2>1. /\ At("task", "idle") /\ wrote' = {} /\ UNCHANGED <<cursor, crtc_start, job, raced>>
        /\ \/ nr_current_console' = nr /\ shown' = Registers(nr, crtc_start[nr], cursor[nr])
           \/ UNCHANGED <<nr_current_console, shown>>
    BY <1>4 DEF SelectConsole, flush
  <2>2. \A v \in Callers : job[v].pc = "idle"
    BY <2>1, WhoMoves DEF Callers
  <2> QED
    BY <2>1, <2>2 DEF ScreenInv, Busy
<1>5. CASE UNCHANGED cvars
  BY <1>5 DEF cvars, ScreenInv, Busy
<1> QED
  BY <1>1, <1>2, <1>3, <1>4, <1>5 DEF ConNext

\* As long as the kernel has not printed in the middle of a call of task_tty: the
\* screen shows whole lines of the console's own region, nothing is overwritten
\* before it and less than a line after it, and between calls the registers of the
\* chip agree with the console; for screens and regions of every size.
THEOREM ScreenStaysRight == ConSpec => []ScreenRight
<1>1. ScreenInv => ScreenRight
  BY DEF ScreenInv, ScreenRight, WindowInside, WritesNear, RegistersRight, InWindow, Busy
<1> QED
  BY <1>1, InitInv, StepInv, ScreenInit, ScreenStep, PTL DEF ConSpec

(***************************************************************************)
(* The ring buffers                                                        *)
(***************************************************************************)

\* The cells from a tail on: they are cells of the array, different ones for
\* different offsets, and advancing a pointer leads from one to the next.
LEMMA RingCells ==
  ASSUME NEW size \in Nat \ {0}
  PROVE  \A t, n \in 0 .. size - 1 :
           /\ Cell(t + n, size) \in 0 .. size - 1
           /\ Advance(Cell(t + n, size), size) = Cell(t + n + 1, size)
           /\ Cell(Advance(t, size) + n, size) = Cell(t + n + 1, size)
           /\ \A m \in 0 .. size - 1 : m # n => Cell(t + m, size) # Cell(t + n, size)
BY SMT DEF Cell, Advance

\* The fields of a buffer, and what it holds cell by cell.
LEMMA ContentsOf ==
  ASSUME NEW size \in Nat \ {0}, NEW Byte
  PROVE  \A r \in Buffers(size, Byte) :
           /\ r.buf \in [0 .. size - 1 -> Byte]
           /\ r.head \in 0 .. size - 1 /\ r.tail \in 0 .. size - 1 /\ r.count \in 0 .. size
           /\ r.head = Cell(r.tail + r.count, size)
           /\ Contents(r, size) \in Seq(Byte) /\ Len(Contents(r, size)) = r.count
           /\ \A i \in 1 .. r.count :
                Contents(r, size)[i] = r.buf[Cell(r.tail + (i - 1), size)]
<1> TAKE r \in Buffers(size, Byte)
<1>1. /\ r.buf \in [0 .. size - 1 -> Byte]
      /\ r.head \in 0 .. size - 1 /\ r.tail \in 0 .. size - 1 /\ r.count \in 0 .. size
      /\ r.head = Cell(r.tail + r.count, size)
  BY DEF Buffers
<1>2. \A i \in 1 .. r.count : Cell(r.tail + (i - 1), size) \in 0 .. size - 1
  <2> TAKE i \in 1 .. r.count
  <2>1. i - 1 \in 0 .. size - 1
    BY <1>1, SMT
  <2> QED
    BY <1>1, <2>1, RingCells
<1>3. Contents(r, size) \in [1 .. r.count -> Byte]
  BY <1>1, <1>2 DEF Contents
<1>4. Contents(r, size) \in Seq(Byte)
  <2>1. r.count \in Nat
    BY <1>1, SMT
  <2> QED
    BY <1>3, <2>1, SMT
<1>5. Len(Contents(r, size)) = r.count
  <2>1. /\ Len(Contents(r, size)) \in Nat
        /\ DOMAIN Contents(r, size) = 1 .. Len(Contents(r, size))
    BY <1>4, LenProperties
  <2>2. 1 .. Len(Contents(r, size)) = 1 .. r.count
    BY <1>3, <2>1
  <2> QED
    BY <1>1, <2>1, <2>2, SMT
<1>6. \A i \in 1 .. r.count : Contents(r, size)[i] = r.buf[Cell(r.tail + (i - 1), size)]
  BY DEF Contents
<1> QED
  BY <1>1, <1>4, <1>5, <1>6

\* init_keyboard and init_tty leave a buffer that holds nothing: both pointers at the
\* same cell, whatever is in the array.
THEOREM EmptyAtFirst ==
  ASSUME NEW size \in Nat \ {0}, NEW Byte, NEW array \in [0 .. size - 1 -> Byte]
  PROVE  /\ Initial(array) \in Buffers(size, Byte)
         /\ Contents(Initial(array), size) = << >>
<1>1. Initial(array) \in Buffers(size, Byte)
  BY SMT DEF Initial, Buffers, Cell
<1>2. Len(Contents(Initial(array), size)) = 0 /\ Contents(Initial(array), size) \in Seq(Byte)
  <2>1. Initial(array).count = 0
    BY DEF Initial
  <2> QED
    BY <1>1, <2>1, ContentsOf, SMT
<1> QED
  BY <1>1, <1>2, EmptySeq

\* keyboard_handler and put_key keep a buffer a buffer, and append the byte to
\* what it holds if there is room; if there is none nothing changes.
THEOREM PutAppends ==
  ASSUME NEW size \in Nat \ {0}, NEW Byte, NEW r \in Buffers(size, Byte), NEW byte \in Byte
  PROVE  /\ Put(r, byte, size) \in Buffers(size, Byte)
         /\ Contents(Put(r, byte, size), size) =
              IF Len(Contents(r, size)) < size
              THEN Append(Contents(r, size), byte) ELSE Contents(r, size)
<1>0. \A t, n \in 0 .. size - 1 :
         /\ Cell(t + n, size) \in 0 .. size - 1
         /\ Advance(Cell(t + n, size), size) = Cell(t + n + 1, size)
         /\ Cell(Advance(t, size) + n, size) = Cell(t + n + 1, size)
         /\ \A m \in 0 .. size - 1 : m # n => Cell(t + m, size) # Cell(t + n, size)
  BY RingCells, Zenon
<1>01. \A t \in Buffers(size, Byte) :
         /\ Contents(t, size) \in Seq(Byte) /\ Len(Contents(t, size)) = t.count
         /\ \A i \in 1 .. t.count : Contents(t, size)[i] = t.buf[Cell(t.tail + (i - 1), size)]
  <2>1. \A t \in Buffers(size, Byte) :
          /\ t.buf \in [0 .. size - 1 -> Byte]
          /\ t.head \in 0 .. size - 1 /\ t.tail \in 0 .. size - 1 /\ t.count \in 0 .. size
          /\ t.head = Cell(t.tail + t.count, size)
          /\ Contents(t, size) \in Seq(Byte) /\ Len(Contents(t, size)) = t.count
          /\ \A i \in 1 .. t.count : Contents(t, size)[i] = t.buf[Cell(t.tail + (i - 1), size)]
    BY ContentsOf
  <2> TAKE t \in Buffers(size, Byte)
  <2> QED
    BY <2>1
<1> DEFINE s == Put(r, byte, size)
           old == Contents(r, size)
           new == Contents(s, size)
<1>1. /\ r.buf \in [0 .. size - 1 -> Byte]
      /\ r.head \in 0 .. size - 1 /\ r.tail \in 0 .. size - 1 /\ r.count \in 0 .. size
      /\ r.head = Cell(r.tail + r.count, size)
      /\ old \in Seq(Byte) /\ Len(old) = r.count
      /\ \A i \in 1 .. r.count : old[i] = r.buf[Cell(r.tail + (i - 1), size)]
  BY ContentsOf
<1>2. CASE r.count < size
  <2>1. /\ s.buf = [r.buf EXCEPT ![r.head] = byte] /\ s.head = Advance(r.head, size)
        /\ s.tail = r.tail /\ s.count = r.count + 1
    BY <1>2 DEF Put
  <2>2. r.count \in 0 .. size - 1
    BY <1>1, <1>2, SMT
  <2>3. s.head = Cell(s.tail + s.count, size)
    <3>1. Advance(Cell(r.tail + r.count, size), size) = Cell(r.tail + r.count + 1, size)
      BY <1>0, <1>1, <2>2
    <3>2. r.tail + r.count + 1 = r.tail + (r.count + 1)
      BY <1>1, SMT
    <3> QED
      BY <1>1, <2>1, <3>1, <3>2
  <2>4. s \in Buffers(size, Byte)
    <3>1. s.head \in 0 .. size - 1
      BY <1>1, <2>1, SMT DEF Advance
    <3>2. s.buf \in [0 .. size - 1 -> Byte]
      BY <1>1, <2>1
    <3>3. s.tail \in 0 .. size - 1 /\ s.count \in 0 .. size
      BY <1>1, <2>1, <2>2, SMT
    <3>4. s = [buf |-> s.buf, head |-> s.head, tail |-> s.tail, count |-> s.count]
      BY <1>2 DEF Put
    <3> HIDE DEF s
    <3> QED
      BY <2>3, <3>1, <3>2, <3>3, <3>4 DEF Buffers
  <2>5. /\ new \in Seq(Byte) /\ Len(new) = r.count + 1
        /\ \A i \in 1 .. r.count + 1 : new[i] = s.buf[Cell(r.tail + (i - 1), size)]
    <3> HIDE DEF s
    <3> QED
      BY <1>01, <2>1, <2>4
  <2>6. \A i \in 1 .. r.count : new[i] = old[i]
    <3> TAKE i \in 1 .. r.count
    <3>1. i - 1 \in 0 .. size - 1 /\ i - 1 # r.count /\ i \in 1 .. r.count + 1
      BY <1>1, SMT
    <3> HIDE DEF s, old, new
    <3>2. /\ Cell(r.tail + (i - 1), size) # Cell(r.tail + r.count, size)
          /\ Cell(r.tail + (i - 1), size) \in 0 .. size - 1
      <4>1. r.tail \in 0 .. size - 1
        BY <1>1
      <4>2. \A m \in 0 .. size - 1 :
              m # r.count => Cell(r.tail + m, size) # Cell(r.tail + r.count, size)
        BY <1>0, <2>2, <4>1, Zenon
      <4>3. \A m \in 0 .. size - 1 : Cell(r.tail + m, size) \in 0 .. size - 1
        BY <1>0, <4>1, Zenon
      <4> QED
        BY <3>1, <4>2, <4>3
    <3> QED
      BY <1>1, <2>1, <2>5, <3>1, <3>2
  <2>7. new[r.count + 1] = byte
    <3>1. r.count + 1 \in 1 .. r.count + 1 /\ (r.count + 1) - 1 = r.count
      BY <1>1, SMT
    <3> HIDE DEF s, old, new
    <3>2. new[r.count + 1] = s.buf[Cell(r.tail + r.count, size)]
      BY <2>5, <3>1, Zenon
    <3> QED
      BY <1>1, <2>1, <3>2
  <2>8. /\ Append(old, byte) \in Seq(Byte) /\ Len(Append(old, byte)) = r.count + 1
        /\ \A i \in 1 .. r.count : Append(old, byte)[i] = old[i]
        /\ Append(old, byte)[r.count + 1] = byte
    <3> HIDE DEF old
    <3> QED
      BY <1>1, AppendProperties, SMT
  <2>9. new = Append(old, byte)
    <3> HIDE DEF s, old, new
    <3>1. \A i \in 1 .. Len(new) : new[i] = Append(old, byte)[i]
      BY <1>1, <2>5, <2>6, <2>7, <2>8, SMT
    <3> QED
      BY <2>5, <2>8, <3>1, SeqEqual
  <2> HIDE DEF s, old, new
  <2>10. Len(old) < size
    BY <1>1, <1>2
  <2> QED
    BY <2>4, <2>9, <2>10 DEF s, old, new
<1>3. CASE ~(r.count < size)
  <2>1. s = r
    BY <1>3 DEF Put
  <2> QED
    BY <1>1, <1>3, <2>1
<1> QED
  BY <1>2, <1>3

\* get_byte_from_kbuf and tty_dev_write take the byte that was put first and
\* leave the others, in their order.
THEOREM TakeRemoves ==
  ASSUME NEW size \in Nat \ {0}, NEW Byte, NEW r \in Buffers(size, Byte), r.count > 0
  PROVE  /\ Take(r, size) \in Buffers(size, Byte)
         /\ Oldest(r) = Head(Contents(r, size))
         /\ Contents(Take(r, size), size) = Tail(Contents(r, size))
<1>0. \A t, n \in 0 .. size - 1 :
         /\ Cell(t + n, size) \in 0 .. size - 1
         /\ Advance(Cell(t + n, size), size) = Cell(t + n + 1, size)
         /\ Cell(Advance(t, size) + n, size) = Cell(t + n + 1, size)
         /\ \A m \in 0 .. size - 1 : m # n => Cell(t + m, size) # Cell(t + n, size)
  BY RingCells, Zenon
<1> DEFINE s == Take(r, size)
           old == Contents(r, size)
           new == Contents(s, size)
<1>1. /\ r.buf \in [0 .. size - 1 -> Byte]
      /\ r.head \in 0 .. size - 1 /\ r.tail \in 0 .. size - 1 /\ r.count \in 1 .. size
      /\ r.head = Cell(r.tail + r.count, size)
      /\ old \in Seq(Byte) /\ Len(old) = r.count
      /\ \A i \in 1 .. r.count : old[i] = r.buf[Cell(r.tail + (i - 1), size)]
  BY ContentsOf, SMT
<1>2. s.buf = r.buf /\ s.head = r.head /\ s.tail = Advance(r.tail, size) /\ s.count = r.count - 1
  BY DEF Take
<1>3. \A n \in 0 .. size - 1 : Cell(s.tail + n, size) = Cell(r.tail + n + 1, size)
  <2>1. \A n \in 0 .. size - 1 : Cell(Advance(r.tail, size) + n, size) = Cell(r.tail + n + 1, size)
    BY <1>0, <1>1, Zenon
  <2> HIDE DEF s, old, new
  <2> QED
    BY <1>2, <2>1
<1>4. s \in Buffers(size, Byte)
  <2>1. s.tail \in 0 .. size - 1
    BY <1>1, <1>2, SMT DEF Advance
  <2>2. s.count \in 0 .. size /\ s.count \in 0 .. size - 1
    BY <1>1, <1>2, SMT
  <2>3. s.head = Cell(s.tail + s.count, size)
    <3>1. r.tail + s.count + 1 = r.tail + r.count
      BY <1>1, <1>2, SMT
    <3> QED
      BY <1>1, <1>2, <1>3, <2>2, <3>1
  <2>4. s = [buf |-> s.buf, head |-> s.head, tail |-> s.tail, count |-> s.count]
    BY DEF Take
  <2>5. s.buf \in [0 .. size - 1 -> Byte] /\ s.head \in 0 .. size - 1
    BY <1>1, <1>2
  <2> HIDE DEF s
  <2> QED
    BY <2>1, <2>2, <2>3, <2>4, <2>5 DEF Buffers
<1>5. /\ new \in Seq(Byte) /\ Len(new) = r.count - 1
      /\ \A i \in 1 .. r.count - 1 : new[i] = r.buf[Cell(s.tail + (i - 1), size)]
  <2> HIDE DEF s
  <2> QED
    BY <1>2, <1>4, ContentsOf, SMT
<1>6. \A i \in 1 .. r.count - 1 : new[i] = old[i + 1]
  <2> TAKE i \in 1 .. r.count - 1
  <2>1. i - 1 \in 0 .. size - 1 /\ i + 1 \in 1 .. r.count
        /\ r.tail + (i - 1) + 1 = r.tail + ((i + 1) - 1)
    BY <1>1, SMT
  <2> HIDE DEF s, old, new
  <2>2. Cell(s.tail + (i - 1), size) = Cell(r.tail + ((i + 1) - 1), size)
    BY <1>3, <2>1
  <2> QED
    BY <1>1, <1>5, <2>1, <2>2
<1> HIDE DEF s, old, new
<1>7. old # << >>
  BY <1>1, EmptySeq, SMT
<1>8. /\ Tail(old) \in Seq(Byte) /\ Len(Tail(old)) = r.count - 1
      /\ \A i \in 1 .. r.count - 1 : Tail(old)[i] = old[i + 1]
  BY <1>1, <1>7, HeadTailProperties
<1>9. new = Tail(old)
  BY <1>5, <1>6, <1>8, SeqEqual
<1>10. Oldest(r) = Head(old)
  <2>1. 1 \in 1 .. r.count /\ r.tail + (1 - 1) = r.tail
    BY <1>1, SMT
  <2>2. Cell(r.tail, size) = r.tail
    BY <1>1, SMT DEF Cell
  <2>3. old[1] = r.buf[r.tail]
    BY <1>1, <2>1, <2>2
  <2> QED
    BY <1>1, <1>7, <2>3, SMT DEF Oldest
<1> QED
  BY <1>4, <1>9, <1>10 DEF s, old, new
=============================================================================

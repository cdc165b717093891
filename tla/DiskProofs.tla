----------------------------- MODULE DiskProofs -----------------------------
(***************************************************************************)
(* The proofs about the disk driver, for any partition tables, any sizes   *)
(* of files and buffers and any sequence of read() and write(): the driver *)
(* of kernel/hd.c and the drive never get out of step (InterruptsMatched), *)
(* and partition() finds the partitions that are there (PartitionsRight).  *)
(***************************************************************************)
EXTENDS ReadWrite, TLAPS

(***************************************************************************)
(* The inductive invariant.  Every request is for at least one sector,     *)
(* because the loop of do_rdwt asks only when i <= max (RequestInv); the   *)
(* driver is at rest when there is none.  DriveInv says what the drive is  *)
(* doing at each place of the driver.  The drive never has more sectors to *)
(* go than the driver; it has fewer when the request does not fit into     *)
(* cmd.count, and then becomes idle early.                                 *)
(***************************************************************************)
WaitPcs == {"t0", "elapsed", "status", "panic"}

FsType ==
  [pc : {"boot", "open", "idle", "loop", "read", "write", "sync", "synced"},
   type : {"none", "read", "write"}, len : Int, i : Int, max : Int,
   chunk : Int, off : Int, rw : Int, left : Int]

DiskTypeOK ==
  /\ hd = [pc |-> hd.pc, bit |-> hd.bit, cmd |-> hd.cmd, left |-> hd.left]
  /\ hd.pc \in WaitPcs \cup {"receive", "partition", "await"} /\ hd.left \in Nat
  /\ hd.cmd.command \in {"none", "identify", "read", "write"}
  /\ drive = [at |-> drive.at, command |-> drive.command, lba |-> drive.lba, left |-> drive.left]
  /\ irq \in BOOLEAN /\ has_int_msg \in BOOLEAN
  /\ req \in [type : {"none", "open", "read", "write"}, pos : Int, n : Nat]
  /\ fs \in FsType
  /\ pos \in Int /\ i_size \in Int /\ bufsize \in FsbufSizes

RequestInv ==
  /\ fs.pc \in {"loop", "idle"} => req = NoReq
  /\ fs.pc = "loop" /\ fs.i <= fs.max => fs.chunk >= 1
  /\ fs.pc \in {"read", "write"} => fs.chunk >= 1
  /\ req = NoReq => hd.pc = "receive"
  /\ req # NoReq => req.n >= 1

NoInterrupt == ~irq /\ ~has_int_msg
Told  == irq # has_int_msg

\* The drive is at work on the driver's command, n sectors to go.
Working(n) == drive.command = hd.cmd.command /\ drive.left \in 1 .. n

DriveInv ==
  /\ hd.pc \in {"receive", "partition"} => drive.at = "idle" /\ NoInterrupt
  /\ hd.pc \notin {"receive", "partition"} =>
       /\ hd.left >= 1
       /\ hd.cmd.command = "identify" \/ req.type = "open" => hd.left = 1
  /\ hd.pc \in WaitPcs =>
       /\ NoInterrupt
       /\ \/ hd.bit = "BSY" /\ drive.at = "idle" /\ hd.cmd.count = hd.left % COUNT
          \/ /\ hd.bit = "DRQ" /\ hd.cmd.command = "write"
             /\ drive.at = "idle" \/ (drive.at \in {"want", "empty"} /\ Working(hd.left))
  /\ hd.pc = "await" /\ hd.cmd.command # "write" =>
       \/ drive.at = "fetch" /\ NoInterrupt /\ Working(hd.left)
       \/ drive.at = "full" /\ Told /\ Working(hd.left)
       \/ drive.at = "idle" /\ NoInterrupt
  /\ hd.pc = "await" /\ hd.cmd.command = "write" =>
       /\ hd.bit = "DRQ"
       /\ \/ drive.at = "store" /\ NoInterrupt /\ Working(hd.left)
          \/ drive.at = "empty" /\ Told /\ Working(hd.left - 1)
          \/ drive.at = "idle" /\ Told

DiskInv == DiskTypeOK /\ RequestInv /\ DriveInv

-----------------------------------------------------------------------------
\* A leaf is left to Zenon unless it says SMT (arithmetic, records).
USE Zenon

\* The lesser of two numbers is one of them.
LEMMA MinOfTwo ==
  ASSUME NEW a \in Int, NEW b \in Int
  PROVE  Min({a, b}) \in Int /\ Min({a, b}) = IF a <= b THEN a ELSE b
<1>1. CASE a <= b
  BY <1>1, SMT DEF Min
<1>2. CASE b < a
  BY <1>2, SMT DEF Min
<1> QED
  BY <1>1, <1>2, SMT

\* A command can say at least one sector.
LEMMA CountPositive == COUNT \in Nat /\ COUNT >= 1
BY HardDiskAssumption, SMT

\* The u8 count of a command never stands for more sectors than asked for.
LEMMA CountFits ==
  ASSUME NEW n \in Nat, n >= 1
  PROVE  /\ n % COUNT \in Nat /\ n % COUNT <= n
         /\ n % COUNT = 0 => COUNT <= n
<1>1. PICK w \in Nat \ {0} : w = COUNT
  BY HardDiskAssumption
<1>2. n % w \in 0 .. w - 1
  BY SMT
<1>3. n = w * (n \div w) + (n % w)
  BY SMT
<1>4. n \div w \in Int
  BY SMT
<1>5. n \div w >= 0
  BY <1>2, <1>3, <1>4, SMT
<1> DEFINE q == n \div w
           r == n % w
           m == w * q
<1>6. q \in Nat /\ m \in Nat /\ n = m + r /\ r \in 0 .. w - 1
  BY <1>2, <1>3, <1>4, <1>5, SMT
<1>7. q >= 1 => m >= w
  BY <1>6, SMT
<1>8. q = 0 => m = 0
  BY <1>6, SMT
<1> HIDE DEF q, r, m
<1>9. r \in Nat /\ r <= n /\ (r = 0 => w <= n)
  BY <1>6, <1>7, <1>8, SMT
<1> QED
  BY <1>1, <1>9 DEF r

\* What task_fs and its files are about stays as it was.
fs_state == <<fs, pos, i_size, bufsize>>

\* The drive and its interrupt: each makes the next one possible only after
\* the driver has taken the one before.
LEMMA DriveStepInv ==
  ASSUME DiskInv, Drive, UNCHANGED fs_state
  PROVE  DiskInv'
<1> USE DEF DiskInv, DiskTypeOK, DriveInv, WaitPcs
<1>1. UNCHANGED <<hd, req, fs, pos, i_size, bufsize>>
  BY DEF Drive, DriveFetch, DriveWant, DriveStore, hd_handler, fs_state
<1>2. RequestInv'
  BY <1>1 DEF RequestInv
<1>3. CASE DriveFetch
  <2>1. /\ drive.at = "fetch" /\ drive'.at = "full" /\ irq' /\ has_int_msg' = has_int_msg
        /\ drive'.command = drive.command /\ drive'.left = drive.left
    BY <1>3 DEF DriveFetch
  <2>2. hd.pc = "await" /\ hd.cmd.command # "write" /\ NoInterrupt /\ Working(hd.left)
    BY <2>1
  <2>3. Told' /\ Working(hd.left)'
    BY <1>1, <2>1, <2>2 DEF NoInterrupt, Told, Working
  <2>4. DiskTypeOK'
    BY <1>1, <1>3 DEF DriveFetch
  <2> QED
    BY <1>1, <1>2, <2>1, <2>2, <2>3, <2>4
<1>4. CASE DriveWant
  <2>1. /\ drive.at = "want" /\ drive'.at = "empty" /\ UNCHANGED <<irq, has_int_msg>>
        /\ drive'.command = drive.command /\ drive'.left = drive.left
    BY <1>4 DEF DriveWant
  <2>2. hd.pc \in WaitPcs /\ hd.bit = "DRQ" /\ hd.cmd.command = "write" /\ NoInterrupt
        /\ Working(hd.left)
    BY <2>1
  <2>3. NoInterrupt' /\ Working(hd.left)'
    BY <1>1, <2>1, <2>2 DEF NoInterrupt, Working
  <2>4. DiskTypeOK'
    BY <1>1, <1>4 DEF DriveWant
  <2> QED
    BY <1>1, <1>2, <2>1, <2>2, <2>3, <2>4
<1>5. CASE DriveStore
  <2>1. drive.at = "store" /\ drive' = Moved /\ irq' /\ has_int_msg' = has_int_msg
    BY <1>5 DEF DriveStore
  <2>2. hd.pc = "await" /\ hd.cmd.command = "write" /\ hd.bit = "DRQ" /\ NoInterrupt
        /\ Working(hd.left)
    BY <2>1
  <2>3. Told'
    BY <2>1, <2>2 DEF NoInterrupt, Told
  <2>4. drive'.at = "idle" \/ (drive'.at = "empty" /\ Working(hd.left - 1)')
    BY <1>1, <2>1, <2>2, SMT DEF Moved, DriveIdle, Working
  <2>5. DiskTypeOK'
    BY <1>1, <2>1 DEF Moved, DriveIdle
  <2> QED
    BY <1>1, <1>2, <2>2, <2>3, <2>4, <2>5
<1>6. CASE hd_handler
  <2>1. irq /\ ~irq' /\ has_int_msg' /\ drive' = drive
    BY <1>6 DEF hd_handler
  <2>2. hd.pc = "await" /\ Told /\ Told'
    BY <2>1 DEF NoInterrupt, Told
  <2>3. DiskTypeOK'
    BY <1>1, <1>6 DEF hd_handler
  <2>4. \A n : Working(n)' <=> Working(n)
    BY <1>1, <2>1 DEF Working
  <2>5. ~NoInterrupt
    BY <2>1 DEF NoInterrupt
  <2> QED
    BY <1>1, <1>2, <2>1, <2>2, <2>3, <2>4, <2>5
<1> QED
  BY <1>3, <1>4, <1>5, <1>6 DEF Drive

\* A driver step that leaves the request and the files alone.
LEMMA DriverFrame ==
  ASSUME DiskInv, UNCHANGED <<req, fs_state>>, hd.pc # "receive"
  PROVE  RequestInv' /\ req # NoReq /\ req.n >= 1
BY DEF DiskInv, RequestInv, fs_state

\* waitfor: the drive may move meanwhile, but raises no interrupt.
LEMMA WaitInv ==
  ASSUME DiskInv, WaitFor, UNCHANGED fs_state
  PROVE  DiskInv'
<1> USE DEF DiskInv, DiskTypeOK, DriveInv, WaitPcs
<1>1. /\ hd.pc \in WaitPcs /\ UNCHANGED <<req, irq, has_int_msg, fs, pos, i_size, bufsize>>
  BY DEF WaitFor, WaitBegins, WaitTests, WaitGoesOn, CommandGoesOut, SectorGoesOut, fs_state
<1>2. RequestInv' /\ NoInterrupt'
  BY <1>1, DriverFrame DEF NoInterrupt, fs_state
<1>3. CASE WaitBegins \/ WaitTests \/ WaitGoesOn
  <2>1. PICK pc \in WaitPcs : hd' = [hd EXCEPT !.pc = pc]
    <3>1. CASE WaitBegins \/ WaitGoesOn
      BY <3>1 DEF WaitBegins, WaitGoesOn
    <3>2. CASE WaitTests
      <4>1. PICK pc \in {"status", "panic"} :
              pc = IF Elapsed(clock.ticks, clock.t) < HD_TIMEOUT THEN "status" ELSE "panic"
        OBVIOUS
      <4>2. hd' = [hd EXCEPT !.pc = pc]
        BY <3>2, <4>1 DEF WaitTests
      <4> QED
        BY <4>2
    <3> QED
      BY <1>3, <3>1, <3>2
  <2>2. hd'.pc = pc /\ hd'.bit = hd.bit /\ hd'.cmd = hd.cmd /\ hd'.left = hd.left
    BY <2>1
  <2>3. drive' = drive
    BY <1>3 DEF WaitBegins, WaitTests, WaitGoesOn
  <2>4. DiskTypeOK'
    BY <1>1, <2>1, <2>2, <2>3
  <2>5. \A n : Working(n)' <=> Working(n)
    BY <2>2, <2>3 DEF Working
  <2> QED
    BY <1>1, <1>2, <2>2, <2>3, <2>4, <2>5
<1>4. CASE CommandGoesOut
  <2>1. hd.bit = "BSY" /\ hd.left \in Nat /\ hd.left >= 1 /\ hd.cmd.count = hd.left % COUNT
    BY <1>1, <1>4 DEF CommandGoesOut
  <2>2. hd.cmd.command = "identify" => hd.left = 1
    BY <1>1
  <2>3. drive' = Command(hd.cmd)
    BY <1>4 DEF CommandGoesOut
  <2>4. /\ drive'.command = hd.cmd.command /\ drive'.left \in 1 .. hd.left
        /\ drive'.at = IF hd.cmd.command = "write" THEN "want" ELSE "fetch"
    <3>1. COUNT \in Nat /\ COUNT >= 1
      BY CountPositive
    <3>2. /\ hd.cmd.count \in Nat /\ hd.cmd.count <= hd.left
          /\ hd.cmd.count = 0 => COUNT <= hd.left
      BY <2>1, CountFits
    <3> QED
      BY <2>1, <2>2, <2>3, <3>1, <3>2, SMT DEF Command
  <2>5. /\ hd'.cmd = hd.cmd /\ hd'.left = hd.left
        /\ hd.cmd.command = "write" => hd'.pc = "t0" /\ hd'.bit = "DRQ"
        /\ hd.cmd.command # "write" => hd'.pc = "await"
    BY <1>4 DEF CommandGoesOut
  <2>6. Working(hd.left)'
    BY <2>4, <2>5 DEF Working
  <2>7. DiskTypeOK'
    BY <1>1, <1>4, <2>3, <2>5 DEF CommandGoesOut, Command
  <2> QED
    BY <1>1, <1>2, <2>4, <2>5, <2>6, <2>7
<1>5. CASE SectorGoesOut
  <2>1. hd.bit = "DRQ" /\ drive.at \in {"full", "empty"}
    BY <1>5 DEF SectorGoesOut, DRQ
  <2>2. hd.cmd.command = "write" /\ Working(hd.left)
    BY <1>1, <2>1
  <2>3. /\ drive'.at = "store" /\ drive'.command = drive.command /\ drive'.left = drive.left
        /\ hd'.pc = "await" /\ hd'.bit = "DRQ" /\ hd'.cmd = hd.cmd /\ hd'.left = hd.left
    BY <1>5, <2>1 DEF SectorGoesOut
  <2>4. Working(hd.left)'
    BY <2>2, <2>3 DEF Working
  <2>5. DiskTypeOK'
    BY <1>1, <1>5, <2>3 DEF SectorGoesOut
  <2> QED
    BY <1>1, <1>2, <2>2, <2>3, <2>4, <2>5
<1> QED
  BY <1>3, <1>4, <1>5 DEF WaitFor

\* A command for n >= 1 sectors begins while the drive is idle.
LEMMA CmdOutInv ==
  ASSUME DiskInv, UNCHANGED fs_state, req' = req, RequestInv',
         NEW command \in {"identify", "read", "write"}, NEW lba, NEW n \in Nat, n >= 1,
         CmdOut(command, lba, n),
         command = "identify" \/ req.type = "open" => n = 1,
         NoInterrupt', drive'.at = "idle", irq' \in BOOLEAN, has_int_msg' \in BOOLEAN,
         drive' = DriveIdle \/ drive' = drive
  PROVE  DiskInv'
<1>1. /\ hd' = [pc |-> "t0", bit |-> "BSY", left |-> n,
                cmd |-> [command |-> command, lba |-> lba, count |-> n % COUNT]]
      /\ hd'.pc = "t0" /\ hd'.bit = "BSY" /\ hd'.left = n /\ hd'.cmd.command = command
      /\ hd'.cmd.count = n % COUNT
  BY DEF CmdOut
<1>2. DiskTypeOK'
  BY <1>1 DEF DiskInv, DiskTypeOK, fs_state, WaitPcs, DriveIdle
<1>3. DriveInv'
  BY <1>1 DEF DriveInv, WaitPcs
<1> QED
  BY <1>2, <1>3 DEF DiskInv

\* The driver answers while the drive is idle.
LEMMA AnswerInv ==
  ASSUME DiskInv, UNCHANGED fs_state, Answer,
         NoInterrupt', drive'.at = "idle", irq' \in BOOLEAN, has_int_msg' \in BOOLEAN,
         drive' = DriveIdle \/ drive' = drive
  PROVE  DiskInv'
<1>1. hd' = HdIdle /\ hd'.pc = "receive" /\ req' = NoReq
  BY DEF Answer, HdIdle
<1>2. DiskTypeOK'
  BY <1>1, SMT DEF DiskInv, DiskTypeOK, fs_state, WaitPcs, DriveIdle, HdIdle, NoCmd, NoReq
<1>3. RequestInv' /\ DriveInv'
  BY <1>1 DEF DiskInv, RequestInv, DriveInv, WaitPcs, fs_state
<1> QED
  BY <1>2, <1>3 DEF DiskInv

\* The driver takes an interrupt after a read or an identify: a sector is at
\* hand; if it is the driver's last, it is the drive's last.
LEMMA InterruptTaken ==
  ASSUME DiskInv, hd.pc = "await", hd.cmd.command # "write", has_int_msg,
         ~has_int_msg', drive' = Moved, irq' = irq
  PROVE  /\ NoInterrupt' /\ ~irq
         /\ \/ drive' = DriveIdle /\ drive'.at = "idle"
            \/ /\ drive' = [drive EXCEPT !.lba = @ + 1, !.left = @ - 1, !.at = "fetch"]
               /\ drive'.at = "fetch" /\ drive'.command = hd.cmd.command
               /\ drive'.left \in 1 .. hd.left - 1 /\ hd.left > 1
<1>1. drive.at = "full" /\ Told /\ Working(hd.left)
  BY DEF DiskInv, DriveInv, NoInterrupt
<1>2. NoInterrupt' /\ ~irq
  BY <1>1 DEF Told, NoInterrupt, DiskInv, DiskTypeOK
<1>3. drive.left \in Nat /\ drive.left >= 1 /\ hd.left \in Nat /\ drive.left <= hd.left
      /\ drive.command = hd.cmd.command
  BY <1>1, SMT DEF Working, DiskInv, DiskTypeOK
<1>4. CASE drive.left = 1
  BY <1>2, <1>4 DEF Moved, DriveIdle
<1>5. CASE drive.left # 1
  <2>1. drive' = [drive EXCEPT !.lba = @ + 1, !.left = @ - 1, !.at = "fetch"]
    BY <1>3, <1>5 DEF Moved
  <2>2. /\ drive'.at = "fetch" /\ drive'.command = hd.cmd.command
        /\ drive'.left = drive.left - 1
    BY <1>3, <2>1 DEF DiskInv, DiskTypeOK
  <2> QED
    BY <1>2, <1>3, <1>5, <2>1, <2>2, SMT
<1> QED
  BY <1>4, <1>5

\* hd_rdwt: the loop of the driver and the sectors of the drive end together.
LEMMA RdwtInv ==
  ASSUME DiskInv, Rdwt, UNCHANGED fs_state
  PROVE  DiskInv'
<1> USE DEF WaitPcs
<1>1. CASE hd_rdwt
  <2>1. PICK command \in {"read", "write"} : command = req.type
    BY <1>1 DEF hd_rdwt
  <2>2. PICK n \in Nat : n = req.n
    BY DEF DiskInv, DiskTypeOK
  <2>3. CmdOut(command, hd_info.logical[Root].base + req.pos, n)
        /\ UNCHANGED <<req, drive, irq, has_int_msg>> /\ hd.pc = "receive"
    BY <1>1, <2>1, <2>2 DEF hd_rdwt
  <2>4. n >= 1
    BY <1>1, <2>2, SMT DEF hd_rdwt, DiskInv, RequestInv, NoReq
  <2>5. NoInterrupt' /\ drive'.at = "idle" /\ irq' \in BOOLEAN /\ has_int_msg' \in BOOLEAN
    BY <2>3 DEF DiskInv, DriveInv, DiskTypeOK, NoInterrupt
  <2>6. RequestInv'
    BY <1>1, <2>3, SMT DEF hd_rdwt, DiskInv, RequestInv, fs_state, NoReq
  <2> QED
    BY <2>1, <2>3, <2>4, <2>5, <2>6, CmdOutInv
<1>2. CASE SectorIsRead
  <2>1. /\ hd.pc = "await" /\ hd.cmd.command = "read" /\ req.type = "read" /\ has_int_msg
        /\ ~has_int_msg' /\ drive' = Moved /\ irq' = irq
        /\ irq' \in BOOLEAN /\ has_int_msg' \in BOOLEAN
    BY <1>2 DEF SectorIsRead, DiskInv, DiskTypeOK
  <2>2. /\ NoInterrupt'
        /\ \/ drive' = DriveIdle /\ drive'.at = "idle"
           \/ /\ drive' = [drive EXCEPT !.lba = @ + 1, !.left = @ - 1, !.at = "fetch"]
              /\ drive'.at = "fetch" /\ drive'.command = hd.cmd.command
              /\ drive'.left \in 1 .. hd.left - 1 /\ hd.left > 1
    BY <2>1, InterruptTaken
  <2>3. hd.left \in Nat /\ hd.left >= 1
    BY <2>1 DEF DiskInv, DiskTypeOK, DriveInv
  <2>4. CASE hd.left = 1
    <3>1. Answer /\ drive' = DriveIdle /\ drive'.at = "idle"
      BY <1>2, <2>2, <2>4, SMT DEF SectorIsRead, LoopEnds
    <3> QED
      BY <2>1, <2>2, <3>1, AnswerInv
  <2>5. CASE hd.left # 1
    <3>1. hd' = [hd EXCEPT !.left = @ - 1] /\ req' = req
      BY <1>2, <2>5 DEF SectorIsRead, LoopEnds
    <3>2. hd'.pc = "await" /\ hd'.cmd = hd.cmd /\ hd'.left = hd.left - 1
      BY <2>1, <3>1 DEF DiskInv, DiskTypeOK
    <3>3. RequestInv'
      BY <2>1, <3>1, DriverFrame
    <3>4. DiskTypeOK'
      <4>1. hd' = [pc |-> hd'.pc, bit |-> hd'.bit, cmd |-> hd'.cmd, left |-> hd'.left]
        BY <3>1 DEF DiskInv, DiskTypeOK
      <4>2. drive' = [at |-> drive'.at, command |-> drive'.command, lba |-> drive'.lba,
                      left |-> drive'.left]
        BY <2>2 DEF DiskInv, DiskTypeOK, DriveIdle
      <4>3. hd.left - 1 \in Nat
        BY <2>3, SMT
      <4> QED
        BY <2>1, <3>1, <3>2, <4>1, <4>2, <4>3 DEF DiskInv, DiskTypeOK, fs_state
    <3>5. drive'.at = "idle" \/ (drive'.at = "fetch" /\ Working(hd.left)')
      BY <2>2, <3>2 DEF Working
    <3>6. DriveInv'
      BY <2>1, <2>2, <2>3, <2>5, <3>1, <3>2, <3>5, SMT DEF DriveInv
    <3> QED
      BY <3>3, <3>4, <3>6 DEF DiskInv
  <2> QED
    BY <2>4, <2>5
<1>3. CASE SectorIsWritten
  <2>1. /\ hd.pc = "await" /\ hd.cmd.command = "write" /\ has_int_msg
        /\ ~has_int_msg' /\ drive' = drive /\ irq' = irq
        /\ irq' \in BOOLEAN /\ has_int_msg' \in BOOLEAN
    BY <1>3 DEF SectorIsWritten, DiskInv, DiskTypeOK
  <2>2. /\ Told /\ hd.bit = "DRQ" /\ hd.left \in Nat /\ hd.left >= 1
        /\ drive.at = "idle" \/ (drive.at = "empty" /\ Working(hd.left - 1))
    BY <2>1 DEF DiskInv, DriveInv, DiskTypeOK, NoInterrupt
  <2>3. NoInterrupt'
    BY <2>1, <2>2 DEF Told, NoInterrupt
  <2>4. CASE hd.left = 1
    <3>1. Answer /\ drive.at = "idle"
      BY <1>3, <2>2, <2>4, SMT DEF SectorIsWritten, LoopEnds, Working
    <3> QED
      BY <2>1, <2>3, <3>1, AnswerInv
  <2>5. CASE hd.left # 1
    <3>1. hd' = [hd EXCEPT !.pc = "t0", !.left = @ - 1] /\ req' = req
      BY <1>3, <2>5 DEF SectorIsWritten, LoopEnds
    <3>2. /\ hd'.pc = "t0" /\ hd'.bit = "DRQ" /\ hd'.cmd = hd.cmd
          /\ hd'.left = hd.left - 1
      BY <2>2, <3>1 DEF DiskInv, DiskTypeOK
    <3>3. RequestInv'
      BY <2>1, <3>1, DriverFrame
    <3>4. DiskTypeOK'
      <4>1. hd' = [pc |-> hd'.pc, bit |-> hd'.bit, cmd |-> hd'.cmd, left |-> hd'.left]
        BY <3>1 DEF DiskInv, DiskTypeOK
      <4>2. hd.left - 1 \in Nat
        BY <2>2, SMT
      <4> QED
        BY <2>1, <3>1, <3>2, <4>1, <4>2 DEF DiskInv, DiskTypeOK, fs_state
    <3>5. drive'.at = "idle" \/ (drive'.at = "empty" /\ Working(hd.left)')
      BY <2>1, <2>2, <3>2 DEF Working
    <3>6. hd.cmd.command = "identify" \/ req.type = "open" => hd.left = 1
      BY <2>1 DEF DiskInv, DriveInv
    <3>7. DriveInv'
      BY <2>1, <2>2, <2>3, <2>5, <3>1, <3>2, <3>5, <3>6, SMT DEF DriveInv
    <3> QED
      BY <3>3, <3>4, <3>7 DEF DiskInv
  <2> QED
    BY <2>4, <2>5
<1> QED
  BY <1>1, <1>2, <1>3 DEF Rdwt

\* partition() goes on with the drive idle.
LEMMA PartitionInv ==
  ASSUME DiskInv, UNCHANGED fs_state, req' = req, hd.pc # "receive",
         hd' = [hd EXCEPT !.pc = "partition"] \/ (hd.pc = "partition" /\ hd' = hd),
         NoInterrupt', drive'.at = "idle", irq' \in BOOLEAN, has_int_msg' \in BOOLEAN,
         drive' = DriveIdle \/ drive' = drive
  PROVE  DiskInv'
<1>1. hd'.pc = "partition" /\ hd'.cmd = hd.cmd /\ hd'.left = hd.left
  BY DEF DiskInv, DiskTypeOK
<1>2. RequestInv'
  BY DriverFrame
<1>3. DiskTypeOK'
  <2>1. hd' = [pc |-> hd'.pc, bit |-> hd'.bit, cmd |-> hd'.cmd, left |-> hd'.left]
    BY DEF DiskInv, DiskTypeOK
  <2> QED
    BY <1>1, <2>1 DEF DiskInv, DiskTypeOK, fs_state, DriveIdle
<1>4. DriveInv'
  BY <1>1 DEF DriveInv, WaitPcs
<1> QED
  BY <1>2, <1>3, <1>4 DEF DiskInv

\* Of a request of one sector the driver's interrupt is the drive's last.
LEMMA LastTaken ==
  ASSUME DiskInv, hd.pc = "await", hd.cmd.command # "write",
         hd.cmd.command = "identify" \/ req.type = "open", has_int_msg,
         has_int_msg' = FALSE, drive' = Moved, irq' = irq
  PROVE  /\ NoInterrupt' /\ drive' = DriveIdle /\ drive'.at = "idle"
         /\ irq' \in BOOLEAN /\ has_int_msg' \in BOOLEAN
<1>1. hd.left = 1
  BY DEF DiskInv, DriveInv
<1>2. irq' \in BOOLEAN /\ has_int_msg' \in BOOLEAN /\ ~has_int_msg'
  BY DEF DiskInv, DiskTypeOK
<1> QED
  BY <1>1, <1>2, InterruptTaken, SMT

\* hd_open: every command of it moves one sector.
LEMMA OpenInv ==
  ASSUME DiskInv, Open, UNCHANGED fs_state
  PROVE  DiskInv'
<1>1. CASE hd_open
  <2>1. /\ CmdOut("identify", 0, 1) /\ hd.pc = "receive" /\ req.type = "open"
        /\ UNCHANGED <<req, drive, irq, has_int_msg>>
    BY <1>1 DEF hd_open
  <2>2. NoInterrupt' /\ drive'.at = "idle" /\ irq' \in BOOLEAN /\ has_int_msg' \in BOOLEAN
    BY <2>1 DEF DiskInv, DriveInv, DiskTypeOK, NoInterrupt
  <2>3. RequestInv'
    <3>1. hd'.pc = "t0" /\ req # NoReq
      BY <2>1, SMT DEF CmdOut, NoReq
    <3> QED
      BY <2>1, <3>1 DEF DiskInv, RequestInv, fs_state
  <2> QED
    BY <2>1, <2>2, <2>3, CmdOutInv, SMT
<1>2. CASE Identified
  <2>1. /\ hd.pc = "await" /\ hd.cmd.command = "identify" /\ has_int_msg
        /\ has_int_msg' = FALSE /\ drive' = Moved /\ irq' = irq
        /\ (CmdOut("read", 0, 1) /\ req' = req) \/ Answer
    BY <1>2 DEF Identified
  <2>2. /\ NoInterrupt' /\ drive' = DriveIdle /\ drive'.at = "idle"
        /\ irq' \in BOOLEAN /\ has_int_msg' \in BOOLEAN
    BY <2>1, LastTaken
  <2>3. CASE CmdOut("read", 0, 1) /\ req' = req
    <3>1. RequestInv'
      BY <2>1, <2>3, DriverFrame
    <3> QED
      BY <2>2, <2>3, <3>1, CmdOutInv, SMT
  <2>4. CASE Answer
    BY <2>2, <2>4, AnswerInv
  <2> QED
    BY <2>1, <2>3, <2>4
<1>3. CASE PrimaryTable
  <2>1. /\ hd.pc = "await" /\ hd.cmd.command = "read" /\ req.type = "open" /\ has_int_msg
        /\ has_int_msg' = FALSE /\ drive' = Moved /\ irq' = irq /\ req' = req
        /\ hd' = [hd EXCEPT !.pc = "partition"]
    BY <1>3 DEF PrimaryTable
  <2>2. /\ NoInterrupt' /\ drive' = DriveIdle /\ drive'.at = "idle"
        /\ irq' \in BOOLEAN /\ has_int_msg' \in BOOLEAN
    BY <2>1, LastTaken
  <2> QED
    BY <2>1, <2>2, PartitionInv
<1>4. CASE PrimaryEntry
  <2>1. /\ hd.pc = "partition" /\ UNCHANGED <<drive, irq, has_int_msg, req>>
        /\ (\E lba : CmdOut("read", lba, 1)) \/ hd' = hd
    BY <1>4 DEF PrimaryEntry
  <2>2. NoInterrupt' /\ drive'.at = "idle" /\ irq' \in BOOLEAN /\ has_int_msg' \in BOOLEAN
    BY <2>1 DEF DiskInv, DriveInv, DiskTypeOK, NoInterrupt
  <2>3. ASSUME NEW lba, CmdOut("read", lba, 1) PROVE DiskInv'
    <3>1. RequestInv'
      BY <2>1, DriverFrame
    <3> QED
      BY <2>1, <2>2, <2>3, <3>1, CmdOutInv, SMT
  <2>4. CASE hd' = hd
    BY <2>1, <2>2, <2>4, PartitionInv
  <2> QED
    BY <2>1, <2>3, <2>4
<1>5. CASE LogicalEntry
  <2>1. /\ hd.pc = "await" /\ hd.cmd.command = "read" /\ req.type = "open" /\ has_int_msg
        /\ has_int_msg' = FALSE /\ drive' = Moved /\ irq' = irq /\ req' = req
        /\ (\E lba : CmdOut("read", lba, 1)) \/ hd' = [hd EXCEPT !.pc = "partition"]
    BY <1>5 DEF LogicalEntry
  <2>2. /\ NoInterrupt' /\ drive' = DriveIdle /\ drive'.at = "idle"
        /\ irq' \in BOOLEAN /\ has_int_msg' \in BOOLEAN
    BY <2>1, LastTaken
  <2>3. ASSUME NEW lba, CmdOut("read", lba, 1) PROVE DiskInv'
    <3>1. RequestInv'
      BY <2>1, DriverFrame
    <3> QED
      BY <2>1, <2>2, <2>3, <3>1, CmdOutInv, SMT
  <2>4. CASE hd' = [hd EXCEPT !.pc = "partition"]
    BY <2>1, <2>2, <2>4, PartitionInv
  <2> QED
    BY <2>1, <2>3, <2>4
<1>6. CASE Partitioned
  <2>1. hd.pc = "partition" /\ Answer /\ UNCHANGED <<drive, irq, has_int_msg>>
    BY <1>6 DEF Partitioned
  <2>2. NoInterrupt' /\ drive'.at = "idle" /\ irq' \in BOOLEAN /\ has_int_msg' \in BOOLEAN
    BY <2>1 DEF DiskInv, DriveInv, DiskTypeOK, NoInterrupt
  <2> QED
    BY <2>1, <2>2, AnswerInv
<1> QED
  BY <1>1, <1>2, <1>3, <1>4, <1>5, <1>6 DEF Open

-----------------------------------------------------------------------------
(***************************************************************************)
(* task_fs                                                                 *)
(***************************************************************************)

\* task_fs asks for sectors only when the driver is at rest.
LEMMA FsInv ==
  ASSUME DiskInv, UNCHANGED <<drive, irq, has_int_msg, hd>>,
         fs' \in FsType, pos' \in Int, i_size' \in Int, bufsize' = bufsize,
         fs'.pc = "loop" /\ fs'.i <= fs'.max => fs'.chunk >= 1,
         fs'.pc \in {"read", "write"} => fs'.chunk >= 1,
         \/ req' = req /\ (fs'.pc \in {"loop", "idle"} => req = NoReq)
         \/ /\ fs'.pc \notin {"loop", "idle"} /\ req = NoReq
            /\ \E type \in {"open", "read", "write"}, s \in Int, n \in Nat :
                 n >= 1 /\ req' = [type |-> type, pos |-> s, n |-> n]
  PROVE  DiskInv'
<1>1. CASE req' = req /\ (fs'.pc \in {"loop", "idle"} => req = NoReq)
  <2>1. DiskTypeOK' /\ RequestInv'
    BY <1>1 DEF DiskInv, DiskTypeOK, RequestInv, FsType
  <2>2. DriveInv'
    BY <1>1 DEF DiskInv, DriveInv, NoInterrupt, Told, Working
  <2> QED
    BY <2>1, <2>2 DEF DiskInv
<1>2. CASE /\ fs'.pc \notin {"loop", "idle"} /\ req = NoReq
           /\ \E type \in {"open", "read", "write"}, s \in Int, n \in Nat :
                n >= 1 /\ req' = [type |-> type, pos |-> s, n |-> n]
  <2>1. PICK type \in {"open", "read", "write"}, s \in Int, n \in Nat :
               n >= 1 /\ req' = [type |-> type, pos |-> s, n |-> n]
    BY <1>2
  <2>2. hd.pc = "receive" /\ req' # NoReq /\ req'.n = n
    BY <1>2, <2>1 DEF DiskInv, RequestInv, NoReq
  <2>3. DiskTypeOK' /\ RequestInv'
    BY <1>2, <2>1, <2>2 DEF DiskInv, DiskTypeOK, RequestInv, FsType
  <2>4. DriveInv'
    BY <2>2 DEF DiskInv, DriveInv, NoInterrupt, WaitPcs
  <2> QED
    BY <2>3, <2>4 DEF DiskInv
<1> QED
  BY <1>1, <1>2

\* The constants of a file.
LEMMA FileConstants ==
  /\ SECTOR_SIZE \in Nat \ {0} /\ FSBUF_SECTS \in Nat \ {0} /\ FileSects \in Nat \ {0}
  /\ InodeSect \in Nat /\ FileStart \in Nat /\ InodeSect < FileStart
  /\ Sizes \subseteq Int /\ Lens \subseteq Int /\ FsbufSizes \subseteq 1 .. FSBUF_SECTS
BY ReadWriteAssumption, SMT

\* The numbers before the loop of do_rdwt: a chunk is a sector or more
\* whenever there is a first turn.
LEMMA CallInv ==
  ASSUME DiskInv, NEW type \in {"read", "write"}, NEW len \in Lens, FsCall(type, len)
  PROVE  DiskInv'
<1> DEFINE limit   == IF type = "read" THEN i_size ELSE FileSects * SECTOR_SIZE
           pos_end == Min({pos + len, limit})
           min     == FileStart + pos \div SECTOR_SIZE
           max     == FileStart + pos_end \div SECTOR_SIZE
           chunk   == Min({max - min + 1, bufsize})
<1>1. /\ fs.pc = "idle"
      /\ fs' = [pc |-> "loop", type |-> type, len |-> len, i |-> min, max |-> max,
                chunk |-> chunk, off |-> pos % SECTOR_SIZE, rw |-> 0, left |-> len]
      /\ UNCHANGED <<dvars, pos, i_size, bufsize>>
  BY DEF FsCall, settings
<1>2. /\ pos \in Int /\ i_size \in Int /\ len \in Int /\ fs.pc = "idle" /\ req = NoReq
      /\ bufsize \in FsbufSizes
  BY <1>1, FileConstants DEF DiskInv, DiskTypeOK, RequestInv
<1>3. limit \in Int /\ pos + len \in Int
  BY <1>2, FileConstants, SMT
<1>4. pos_end \in Int
  BY <1>3, MinOfTwo
<1>5. PICK w \in Nat \ {0} : w = SECTOR_SIZE
  BY FileConstants
<1>6. ASSUME NEW n \in Int PROVE n \div w \in Int /\ n % w \in Int
  BY SMT
<1>7. min \in Int /\ max \in Int
  BY <1>2, <1>4, <1>5, <1>6, FileConstants, SMT
<1> HIDE DEF limit, pos_end, min, max
<1>8. chunk \in Int /\ chunk = IF max - min + 1 <= bufsize THEN max - min + 1 ELSE bufsize
  <2>1. max - min + 1 \in Int /\ bufsize \in Int
    BY <1>2, <1>7, FileConstants, SMT
  <2> QED
    BY <2>1, MinOfTwo
<1>9. pos % SECTOR_SIZE \in Int
  BY <1>2, <1>5, <1>6
<1> HIDE DEF chunk
<1>10. min <= max => chunk >= 1
  BY <1>2, <1>7, <1>8, FileConstants, SMT
<1>11. fs' \in FsType
  BY <1>1, <1>2, <1>7, <1>8, <1>9, SMT DEF FsType
<1>12. UNCHANGED <<drive, irq, has_int_msg, hd, req>>
  BY <1>1 DEF dvars
<1>13. fs'.pc = "loop" /\ fs'.i = min /\ fs'.max = max /\ fs'.chunk = chunk
  BY <1>1
<1> QED
  BY <1>1, <1>2, <1>10, <1>11, <1>12, <1>13, FsInv

\* The steps of task_fs.  Only the loop of do_rdwt asks for a number of
\* sectors it has computed.
LEMMA TaskFsInv ==
  ASSUME DiskInv, task_fs
  PROVE  DiskInv'
<1> USE FileConstants
<1>0. fs \in FsType /\ pos \in Int /\ i_size \in Int
  BY DEF DiskInv, DiskTypeOK
<1>1. CASE FsOpens
  <2>1. /\ fs' = FsAt("open") /\ UNCHANGED <<drive, irq, has_int_msg, hd, pos, i_size, bufsize>>
        /\ req = NoReq /\ req' = [type |-> "open", pos |-> 0, n |-> 1]
    BY <1>1 DEF FsOpens, FsGoesOn, rw_sector, file_state, settings
  <2>2. fs' \in FsType /\ fs'.pc = "open"
    BY <2>1, SMT DEF FsAt, FsType
  <2> QED
    BY <1>0, <2>1, <2>2, FsInv, SMT
<1>2. CASE FsAsksGeometry
  <2>1. /\ fs' = FsAt("idle") /\ UNCHANGED <<drive, irq, has_int_msg, hd, req, pos, i_size, bufsize>>
        /\ req = NoReq
    BY <1>2 DEF FsAsksGeometry, FsGoesOn, dvars, settings
  <2>2. fs' \in FsType /\ fs'.pc = "idle"
    BY <2>1, SMT DEF FsAt, FsType
  <2> QED
    BY <1>0, <2>1, <2>2, FsInv
<1>3. CASE LoopReads
  <2>1. /\ fs.pc = "loop" /\ fs.i <= fs.max /\ fs' = [fs EXCEPT !.pc = "read"]
        /\ UNCHANGED <<drive, irq, has_int_msg, hd, pos, i_size, bufsize>>
        /\ req' = [type |-> "read", pos |-> fs.i, n |-> fs.chunk]
    BY <1>3 DEF LoopReads, rw_sector, file_state, settings
  <2>2. req = NoReq /\ fs.chunk >= 1 /\ fs.chunk \in Nat /\ fs.i \in Int
    BY <1>0, <2>1, SMT DEF DiskInv, RequestInv, FsType
  <2>3. fs' \in FsType /\ fs'.pc = "read" /\ fs'.chunk = fs.chunk
    BY <1>0, <2>1 DEF FsType
  <2> QED
    BY <1>0, <2>1, <2>2, <2>3, FsInv
<1>4. ChunkBytes \in Int
  <2>1. fs.left \in Int /\ fs.chunk \in Int /\ fs.off \in Int
    BY <1>0 DEF FsType
  <2>2. fs.chunk * SECTOR_SIZE - fs.off \in Int
    BY <2>1, SMT
  <2> QED
    BY <2>1, <2>2, MinOfTwo DEF ChunkBytes
<1>5. ASSUME TurnEnds, fs.pc \in {"read", "write"}, req = NoReq,
             UNCHANGED <<drive, irq, has_int_msg, hd, req, i_size, bufsize>>
      PROVE  DiskInv'
  <2>1. /\ fs' = [fs EXCEPT !.pc = "loop", !.i = @ + fs.chunk, !.off = 0,
                            !.rw = @ + ChunkBytes, !.left = @ - ChunkBytes]
        /\ pos' = pos + ChunkBytes
    BY <1>5 DEF TurnEnds
  <2>2. fs.chunk >= 1
    BY <1>5 DEF DiskInv, RequestInv
  <2>3. fs' \in FsType /\ fs'.pc = "loop" /\ fs'.chunk = fs.chunk /\ pos' \in Int
    <3>1. PICK b \in Int : b = ChunkBytes
      BY <1>4
    <3>2. fs.i + fs.chunk \in Int /\ fs.rw + b \in Int /\ fs.left - b \in Int /\ pos + b \in Int
      BY <1>0, SMT DEF FsType
    <3>3. fs' = [fs EXCEPT !.pc = "loop", !.i = fs.i + fs.chunk, !.off = 0,
                           !.rw = fs.rw + b, !.left = fs.left - b]
      BY <2>1, <3>1
    <3>4. fs' \in FsType
      <4>1. /\ fs' = [pc |-> "loop", type |-> fs.type, len |-> fs.len, i |-> fs.i + fs.chunk,
                      max |-> fs.max, chunk |-> fs.chunk, off |-> 0, rw |-> fs.rw + b,
                      left |-> fs.left - b]
            /\ fs.type \in {"none", "read", "write"} /\ fs.len \in Int /\ fs.max \in Int
            /\ fs.chunk \in Int
        BY <1>0, <3>3 DEF FsType
      <4> QED
        BY <3>2, <4>1, SMT DEF FsType
    <3>5. fs'.pc = "loop" /\ fs'.chunk = fs.chunk
      BY <1>0, <3>3 DEF FsType
    <3> QED
      BY <2>1, <3>1, <3>2, <3>4, <3>5
  <2> QED
    BY <1>0, <1>5, <2>2, <2>3, FsInv
<1>6. CASE CopyToUser
  BY <1>5, <1>6 DEF CopyToUser, FsGoesOn, dvars, settings
<1>7. CASE CopyFromUser
  <2>1. /\ fs.pc = "read" /\ req = NoReq /\ fs' = [fs EXCEPT !.pc = "write"]
        /\ UNCHANGED <<drive, irq, has_int_msg, hd, pos, i_size, bufsize>>
        /\ req' = [type |-> "write", pos |-> fs.i, n |-> fs.chunk]
    BY <1>7 DEF CopyFromUser, FsGoesOn, rw_sector, file_state, settings
  <2>2. fs.chunk >= 1 /\ fs.chunk \in Nat /\ fs.i \in Int
    BY <1>0, <2>1, SMT DEF DiskInv, RequestInv, FsType
  <2>3. fs' \in FsType /\ fs'.pc = "write" /\ fs'.chunk = fs.chunk
    BY <1>0, <2>1 DEF FsType
  <2> QED
    BY <1>0, <2>1, <2>2, <2>3, FsInv
<1>8. CASE Written
  BY <1>5, <1>8 DEF Written, FsGoesOn, dvars, settings
<1>9. CASE LoopEndsHere \/ Synced
  <2>1. /\ fs' = FsAt("idle") /\ UNCHANGED <<drive, irq, has_int_msg, hd, req, pos, i_size, bufsize>>
        /\ req = NoReq
    BY <1>9 DEF LoopEndsHere, Synced, FsReturns, FsGoesOn, dvars, settings, DiskInv, RequestInv
  <2>2. fs' \in FsType /\ fs'.pc = "idle"
    BY <2>1, SMT DEF FsAt, FsType
  <2> QED
    BY <1>0, <2>1, <2>2, FsInv
<1>10. CASE SyncReads
  <2>1. /\ fs' = [fs EXCEPT !.pc = "sync"] /\ UNCHANGED <<drive, irq, has_int_msg, hd, pos, bufsize>>
        /\ req = NoReq /\ req' = [type |-> "read", pos |-> InodeSect, n |-> 1] /\ i_size' = pos
    BY <1>10 DEF SyncReads, rw_sector, settings, DiskInv, RequestInv
  <2>2. fs' \in FsType /\ fs'.pc = "sync"
    BY <1>0, <2>1 DEF FsType
  <2>3. \E type \in {"open", "read", "write"}, s \in Int, n \in Nat :
          n >= 1 /\ req' = [type |-> type, pos |-> s, n |-> n]
    <3>1. "read" \in {"open", "read", "write"} /\ InodeSect \in Int /\ 1 \in Nat /\ 1 >= 1
      BY SMT
    <3> QED
      BY <2>1, <3>1, Zenon
  <2> QED
    BY <1>0, <2>1, <2>2, <2>3, FsInv
<1>11. CASE SyncWrites
  <2>1. /\ fs' = [fs EXCEPT !.pc = "synced"]
        /\ UNCHANGED <<drive, irq, has_int_msg, hd, pos, i_size, bufsize>>
        /\ req = NoReq /\ req' = [type |-> "write", pos |-> InodeSect, n |-> 1]
    BY <1>11 DEF SyncWrites, FsGoesOn, rw_sector, file_state, settings
  <2>2. fs' \in FsType /\ fs'.pc = "synced"
    BY <1>0, <2>1 DEF FsType
  <2>3. \E type \in {"open", "read", "write"}, s \in Int, n \in Nat :
          n >= 1 /\ req' = [type |-> type, pos |-> s, n |-> n]
    <3>1. "write" \in {"open", "read", "write"} /\ InodeSect \in Int /\ 1 \in Nat /\ 1 >= 1
      BY SMT
    <3> QED
      BY <2>1, <3>1, Zenon
  <2> QED
    BY <1>0, <2>1, <2>2, <2>3, FsInv
<1> QED
  BY <1>1, <1>2, <1>3, <1>6, <1>7, <1>8, <1>9, <1>10, <1>11 DEF task_fs

\* At boot the drive and the driver are at rest.
LEMMA DiskInitInv == RWInit => DiskInv
<1> SUFFICES ASSUME RWInit PROVE DiskInv
  OBVIOUS
<1>1. /\ drive = DriveIdle /\ ~irq /\ ~has_int_msg /\ hd = HdIdle /\ req = NoReq
      /\ fs = FsAt("boot") /\ pos = 0 /\ i_size \in Int /\ bufsize \in FsbufSizes
      /\ irq \in BOOLEAN /\ has_int_msg \in BOOLEAN
  BY FileConstants DEF RWInit, DInit
<1>2. hd.pc = "receive" /\ drive.at = "idle" /\ fs.pc = "boot"
  BY <1>1 DEF HdIdle, DriveIdle, FsAt
<1>3. DiskTypeOK
  BY <1>1, SMT DEF DiskTypeOK, HdIdle, NoCmd, DriveIdle, FsAt, FsType, NoReq, WaitPcs
<1> QED
  BY <1>1, <1>2, <1>3 DEF DiskInv, RequestInv, DriveInv, NoInterrupt, WaitPcs

\* Every step of task_fs, of the driver and of the drive keeps them in step.
LEMMA DiskNextInv == DiskInv /\ [RWNext]_rwvars => DiskInv'
<1> SUFFICES ASSUME DiskInv, [RWNext]_rwvars PROVE DiskInv'
  OBVIOUS
<1>1. ASSUME UNCHANGED <<drive, irq, has_int_msg, req, hd, fs, i_size, bufsize>>,
             pos' = pos \/ pos' = 0
      PROVE  DiskInv'
  BY <1>1, SMT DEF DiskInv, DiskTypeOK, RequestInv, DriveInv, NoInterrupt, Told, Working
<1>2. CASE UNCHANGED rwvars
  BY <1>1, <1>2 DEF rwvars, dvars, file_state, settings
<1>3. CASE task_fs
  BY <1>3, TaskFsInv
<1>4. CASE \E type \in {"read", "write"}, len \in Lens : FsCall(type, len)
  BY <1>4, CallInv
<1>5. CASE NoTransfer
  BY <1>1, <1>5 DEF Reopen, FsRefuses, NoTransfer, dvars, settings
<1>6. CASE (task_hd \/ Drive \/ Tick) /\ Others
  <2>1. UNCHANGED fs_state
    BY <1>6 DEF Others, file_state, settings, fs_state
  <2>2. CASE Tick
    BY <1>1, <2>1, <2>2 DEF Tick, fs_state
  <2> QED
    BY <1>6, <2>1, <2>2, WaitInv, OpenInv, RdwtInv, DriveStepInv DEF task_hd
<1> QED
  BY <1>2, <1>3, <1>4, <1>5, <1>6 DEF RWNext

\* The driver of kernel/hd.c waits for every interrupt the drive raises: none
\* is raised or pending while it asks task_sys for the time or takes requests,
\* and none is raised before the one before it has been taken.
THEOREM DriverAndDriveInStep == RWSpec => []InterruptsMatched
<1>1. DiskInv => InterruptsMatched
  BY DEF DiskInv, DiskTypeOK, DriveInv, InterruptsMatched, NoInterrupt, Told, WaitPcs
<1> QED
  BY <1>1, DiskInitInv, DiskNextInv, PTL DEF RWSpec

-----------------------------------------------------------------------------
(***************************************************************************)
(* The sector the drive is at is the one the driver means (SectorInv).     *)
(***************************************************************************)

\* Sectors of the command that are done, on the side of the drive.
Done == req.n - (IF hd.pc = "await" /\ drive.at = "empty" THEN hd.left - 1 ELSE hd.left)

SectorInv ==
  /\ req.type = "open" => req.n = 1
  /\ hd.pc \in WaitPcs /\ hd.bit = "BSY" => hd.left = req.n
  /\ drive.at # "idle" => drive.lba = hd.cmd.lba + Done

(***************************************************************************)
(* partition(): what hd_info has of the tables so far                      *)
(***************************************************************************)
Parts   == 1 .. NR_PART_PER_DRIVE
Subs    == 0 .. NR_SUB_PER_PART - 1
Regions == [base : Int, size : Int]
Info    == [open_cnt : Nat, primary : [Prims -> Regions], logical : [Logicals -> Regions]]

\* What hd_info should have of the i-th primary partition and, with i, of the
\* k-th logical one in it.
PrimaryOf(i) ==
  IF plan[i].sys = "none" THEN NoPart ELSE [base |-> plan[i].start, size |-> plan[i].size]
LogicalOf(i, k) ==
  IF plan[i].sys = "ext" /\ k < Len(plan[i].logical)
  THEN [base |-> plan[i].logical[k + 1].start, size |-> plan[i].logical[k + 1].size]
  ELSE NoPart

Index(i, k) == (i - 1) * NR_SUB_PER_PART + k

PrimariesTo(n) ==
  \A p \in Parts : hd_info.primary[p] = IF p <= n THEN PrimaryOf(p) ELSE NoPart
LogicalsTo(i, k) ==
  \A p \in Parts, l \in Subs :
    hd_info.logical[Index(p, l)] = IF p < i \/ (p = i /\ l < k) THEN LogicalOf(p, l) ELSE NoPart

\* Nothing is opened yet; the table of the drive is being read; its entries
\* are gone through; the tables of an extended partition are read; all is done.
Unopened ==
  /\ \/ fs.pc = "boot" /\ req = NoReq
     \/ fs.pc = "open" /\ req.type = "open" /\ (hd.pc = "receive" \/ hd.cmd.command = "identify")
  /\ hd.pc # "partition"
  /\ hd_info.open_cnt = 0 /\ scan = NoScan /\ PrimariesTo(0) /\ LogicalsTo(1, 0)

Scanning == fs.pc = "open" /\ req.type = "open" /\ hd.cmd.command = "read" /\ hd.pc # "receive"

ReadsFirst ==
  /\ Scanning /\ hd.pc # "partition"
  /\ hd.cmd.lba = 0 /\ scan = NoScan /\ PrimariesTo(0) /\ LogicalsTo(1, 0)

Goes(i) ==
  /\ Scanning /\ hd.pc = "partition"
  /\ scan = [tbl |-> TableAt(0), i |-> i, j |-> 0, k |-> 0]
  /\ PrimariesTo(i - 1) /\ LogicalsTo(i, 0)

Walks(i, k) ==
  /\ Scanning /\ hd.pc # "partition"
  /\ plan[i].sys = "ext" /\ k < Len(plan[i].logical)
  /\ scan = [tbl |-> TableAt(0), i |-> i, j |-> i, k |-> k]
  /\ hd.cmd.lba = Ebr(plan[i], k + 1)
  /\ PrimariesTo(i) /\ LogicalsTo(i, k)

Opened ==
  /\ fs.pc # "boot" /\ req.type # "open" /\ hd.pc # "partition"
  /\ scan = NoScan /\ PrimariesTo(NR_PART_PER_DRIVE) /\ LogicalsTo(NR_PART_PER_DRIVE + 1, 0)
  /\ hd.pc # "receive" => hd.cmd.command = req.type /\ hd.cmd.lba = Addr(req.pos)

PartInv ==
  /\ plan \in Plans
  /\ hd.pc \notin {"receive", "partition"} => hd.cmd.lba \in Int
  /\ hd_info \in Info
  /\ \/ Unopened
     \/ ReadsFirst
     \/ \E i \in 1 .. NR_PART_PER_DRIVE + 1 : Goes(i)
     \/ \E i \in Parts, k \in Subs : Walks(i, k)
     \/ Opened

-----------------------------------------------------------------------------
\* The fields of the records the drive and the driver are.
LEMMA Shapes ==
  ASSUME DiskInv
  PROVE  /\ hd.left \in Nat /\ req.n \in Nat /\ req.pos \in Int /\ fs \in FsType
         /\ hd.pc \in WaitPcs \cup {"receive", "partition", "await"}
         /\ \A v : [hd EXCEPT !.pc = v].pc = v /\ [hd EXCEPT !.pc = v].left = hd.left
                   /\ [hd EXCEPT !.pc = v].cmd = hd.cmd /\ [hd EXCEPT !.pc = v].bit = hd.bit
         /\ \A v : [drive EXCEPT !.at = v].at = v /\ [drive EXCEPT !.at = v].lba = drive.lba
BY DEF DiskInv, DiskTypeOK

\* The drive is identified, and its tables are gone through, for an open.
LEMMA OpenIsServed ==
  ASSUME DiskInv, PartInv,
         hd.pc = "partition" \/ (hd.pc # "receive" /\ hd.cmd.command = "identify")
  PROVE  req.type = "open"
<1>1. req = NoReq => hd.pc = "receive"
  BY DEF DiskInv, RequestInv
<1>2. req \in [type : {"none", "open", "read", "write"}, pos : Int, n : Nat]
  BY DEF DiskInv, DiskTypeOK
<1> QED
  BY <1>1, <1>2 DEF PartInv, Unopened, ReadsFirst, Goes, Walks, Scanning, Opened

\* While the drive is idle there is nothing to say of its sector.
LEMMA SectorIdle ==
  ASSUME req'.type = "open" => req'.n = 1,
         hd'.pc \in WaitPcs /\ hd'.bit = "BSY" => hd'.left = req'.n,
         drive'.at = "idle"
  PROVE  SectorInv'
BY DEF SectorInv

\* The drive goes on to the next sector when one has been moved.
LEMMA SectorDrive ==
  ASSUME DiskInv, SectorInv, Drive, UNCHANGED fs_state,
         hd.pc \notin {"receive", "partition"} => hd.cmd.lba \in Int
  PROVE  SectorInv'
<1>1. UNCHANGED <<hd, req>>
  BY DEF Drive, DriveFetch, DriveWant, DriveStore, hd_handler
<1>2. CASE DriveFetch \/ DriveWant
  <2>1. drive'.lba = drive.lba /\ drive.at # "idle" /\ drive.at # "empty"
        /\ (drive'.at = "full" \/ (drive'.at = "empty" /\ drive.at = "want"))
    BY <1>2 DEF DriveFetch, DriveWant, DiskInv, DiskTypeOK
  <2>2. drive.at = "want" => hd.pc # "await"
    BY DEF DiskInv, DriveInv
  <2>3. Done' = Done
    BY <1>1, <2>1, <2>2 DEF Done
  <2> QED
    BY <1>1, <2>1, <2>3 DEF SectorInv, WaitPcs
<1>3. CASE DriveStore
  <2>1. drive.at = "store" /\ drive' = Moved
    BY <1>3 DEF DriveStore
  <2>2. hd.pc = "await" /\ hd.cmd.command = "write" /\ Working(hd.left)
    BY <2>1 DEF DiskInv, DriveInv, WaitPcs, DiskTypeOK
  <2>3. CASE drive.left = 1
    BY <1>1, <2>1, <2>2, <2>3 DEF SectorInv, Moved, DriveIdle, WaitPcs
  <2>4. CASE drive.left # 1
    <3>1. drive' = [drive EXCEPT !.lba = @ + 1, !.left = @ - 1, !.at = "empty"]
      BY <2>1, <2>2, <2>4 DEF Moved, Working
    <3>2. drive'.at = "empty" /\ drive'.lba = drive.lba + 1
      BY <3>1 DEF DiskInv, DiskTypeOK
    <3>3. Done' = req.n - (hd.left - 1) /\ Done = req.n - hd.left
      BY <1>1, <2>1, <2>2, <3>2 DEF Done
    <3>4. drive.lba = hd.cmd.lba + Done /\ hd.cmd.lba \in Int
      BY <2>1, <2>2 DEF SectorInv
    <3>5. hd.cmd.lba + (req.n - hd.left) + 1 = hd.cmd.lba + (req.n - (hd.left - 1))
      BY <3>4, Shapes, SMT
    <3>6. drive'.lba = hd'.cmd.lba + Done'
      BY <1>1, <3>2, <3>3, <3>4, <3>5
    <3> QED
      BY <1>1, <2>2, <3>6 DEF SectorInv, WaitPcs
  <2> QED
    BY <2>3, <2>4
<1>4. CASE hd_handler
  BY <1>1, <1>4 DEF hd_handler, SectorInv, Done
<1> QED
  BY <1>2, <1>3, <1>4 DEF Drive

\* A command begins with its first sector.
LEMMA SectorWait ==
  ASSUME DiskInv, SectorInv, WaitFor, UNCHANGED fs_state,
         hd.pc \notin {"receive", "partition"} => hd.cmd.lba \in Int
  PROVE  SectorInv'
<1>1. hd.pc \in WaitPcs /\ hd.pc # "await" /\ req' = req
  BY DEF WaitFor, WaitBegins, WaitTests, WaitGoesOn, CommandGoesOut, SectorGoesOut, WaitPcs
<1>2. CASE WaitBegins \/ WaitTests \/ WaitGoesOn
  <2>1. drive' = drive /\ \E v \in WaitPcs : hd' = [hd EXCEPT !.pc = v]
    <3>1. CASE WaitBegins \/ WaitGoesOn
      BY <3>1 DEF WaitBegins, WaitGoesOn, WaitPcs
    <3>2. CASE WaitTests
      <4>1. PICK v \in {"status", "panic"} :
              v = IF Elapsed(clock.ticks, clock.t) < HD_TIMEOUT THEN "status" ELSE "panic"
        OBVIOUS
      <4>2. hd' = [hd EXCEPT !.pc = v] /\ drive' = drive
        BY <3>2, <4>1 DEF WaitTests
      <4> QED
        BY <4>2 DEF WaitPcs
    <3> QED
      BY <1>2, <3>1, <3>2
  <2>2. drive' = drive /\ hd'.left = hd.left /\ hd'.cmd = hd.cmd /\ hd'.bit = hd.bit
        /\ hd'.pc \in WaitPcs /\ hd'.pc # "await"
    BY <2>1, Shapes DEF WaitPcs
  <2>3. Done' = Done
    BY <1>1, <2>2 DEF Done
  <2> QED
    BY <1>1, <2>2, <2>3 DEF SectorInv
<1>3. CASE CommandGoesOut
  <2>1. /\ hd.bit = "BSY" /\ drive' = Command(hd.cmd)
        /\ hd' = IF hd.cmd.command = "write" THEN [hd EXCEPT !.pc = "t0", !.bit = "DRQ"]
                                             ELSE [hd EXCEPT !.pc = "await"]
    BY <1>3 DEF CommandGoesOut
  <2>2. /\ drive'.lba = hd.cmd.lba /\ drive'.at \in {"want", "fetch"}
        /\ hd'.left = hd.left /\ hd'.cmd = hd.cmd
        /\ hd'.pc \in WaitPcs => hd'.bit = "DRQ"
    BY <2>1 DEF Command, DiskInv, DiskTypeOK, WaitPcs
  <2>3. hd.left = req.n
    BY <1>1, <2>1 DEF SectorInv
  <2>4. Done' = req.n - req.n
    BY <1>1, <2>2, <2>3 DEF Done
  <2>5. hd.cmd.lba \in Int
    BY <1>1 DEF WaitPcs
  <2>6. drive'.lba = hd'.cmd.lba + Done'
    BY <2>2, <2>4, <2>5, Shapes, SMT
  <2> QED
    BY <1>1, <2>2, <2>6 DEF SectorInv
<1>4. CASE SectorGoesOut
  <2>1. /\ drive.at \in {"full", "empty"} /\ drive'.at = "store" /\ drive'.lba = drive.lba
        /\ hd'.left = hd.left /\ hd'.cmd = hd.cmd /\ hd'.pc = "await"
    BY <1>4, Shapes DEF SectorGoesOut, DRQ
  <2>2. Done' = Done
    BY <1>1, <2>1 DEF Done
  <2> QED
    BY <1>1, <2>1, <2>2 DEF SectorInv, WaitPcs
<1> QED
  BY <1>2, <1>3, <1>4 DEF WaitFor

\* A command is given for the sectors that are asked for.
LEMMA SectorCmd ==
  ASSUME SectorInv, req' = req, NEW command, NEW lba, CmdOut(command, lba, req.n), drive'.at = "idle"
  PROVE  SectorInv'
<1>1. hd'.left = req.n
  BY DEF CmdOut
<1> QED
  BY <1>1, SectorIdle DEF SectorInv

\* The driver and the drive count the same sectors.
LEMMA SectorRdwt ==
  ASSUME DiskInv, DiskInv', SectorInv, Rdwt, UNCHANGED fs_state,
         hd.pc \notin {"receive", "partition"} => hd.cmd.lba \in Int
  PROVE  SectorInv'
<1>1. CASE hd_rdwt
  <2>1. drive'.at = "idle"
    BY <1>1 DEF hd_rdwt, DiskInv, DriveInv
  <2> QED
    BY <1>1, <2>1, SectorCmd DEF hd_rdwt
<1>2. ASSUME Answer PROVE SectorInv'
  <2>1. hd'.pc = "receive" /\ req'.type = "none"
    BY <1>2 DEF Answer, HdIdle, NoReq
  <2>2. drive'.at = "idle"
    BY <2>1 DEF DiskInv, DriveInv
  <2> QED
    BY <2>1, <2>2, SectorIdle DEF WaitPcs
<1>3. CASE SectorIsRead /\ ~Answer
  <2>1. /\ hd.pc = "await" /\ hd.cmd.command = "read" /\ has_int_msg /\ has_int_msg' = FALSE
        /\ drive' = Moved /\ irq' = irq /\ req' = req /\ hd' = [hd EXCEPT !.left = @ - 1]
    BY <1>3 DEF SectorIsRead
  <2>2. hd'.pc = "await" /\ hd'.cmd = hd.cmd /\ hd'.left = hd.left - 1
    BY <2>1 DEF DiskInv, DiskTypeOK
  <2>3. CASE drive' = DriveIdle
    BY <2>1, <2>2, <2>3, SectorIdle, SMT DEF SectorInv, DriveIdle, WaitPcs
  <2>4. CASE drive' # DriveIdle
    <3>1. drive.at = "full" /\ drive' = [drive EXCEPT !.lba = @ + 1, !.left = @ - 1, !.at = "fetch"]
      BY <2>1, <2>4, InterruptTaken DEF DiskInv, DriveInv, NoInterrupt
    <3>2. drive'.at = "fetch" /\ drive'.lba = drive.lba + 1
      BY <3>1 DEF DiskInv, DiskTypeOK
    <3>3. Done' = req.n - (hd.left - 1) /\ Done = req.n - hd.left
      BY <2>1, <2>2, <3>1, <3>2 DEF Done
    <3>4. drive.lba = hd.cmd.lba + Done /\ hd.cmd.lba \in Int
      BY <2>1, <3>1 DEF SectorInv
    <3>5. hd.cmd.lba + (req.n - hd.left) + 1 = hd.cmd.lba + (req.n - (hd.left - 1))
      BY <3>4, Shapes, SMT
    <3>6. drive'.lba = hd'.cmd.lba + Done'
      BY <2>2, <3>2, <3>3, <3>4, <3>5
    <3> QED
      BY <2>1, <2>2, <3>6 DEF SectorInv, WaitPcs
  <2> QED
    BY <2>3, <2>4
<1>4. CASE SectorIsWritten /\ ~Answer
  <2>1. /\ hd.pc = "await" /\ hd.cmd.command = "write" /\ has_int_msg
        /\ drive' = drive /\ req' = req /\ hd' = [hd EXCEPT !.pc = "t0", !.left = @ - 1]
    BY <1>4 DEF SectorIsWritten
  <2>2. hd'.pc = "t0" /\ hd'.cmd = hd.cmd /\ hd'.left = hd.left - 1 /\ hd'.bit = hd.bit
    BY <2>1 DEF DiskInv, DiskTypeOK
  <2>3. hd.bit = "DRQ" /\ drive.at \in {"empty", "idle"}
    BY <2>1 DEF DiskInv, DriveInv, NoInterrupt
  <2>4. drive.at = "empty" => Done' = Done
    BY <2>1, <2>2 DEF Done
  <2> QED
    BY <2>1, <2>2, <2>3, <2>4 DEF SectorInv
<1> QED
  BY <1>1, <1>2, <1>3, <1>4 DEF Rdwt, SectorIsRead, SectorIsWritten

\* Every command of hd_open and partition() is for one sector.
LEMMA SectorOpen ==
  ASSUME DiskInv, DiskInv', PartInv, SectorInv, Open, UNCHANGED fs_state
  PROVE  SectorInv'
<1>1. ASSUME req' = req, req.type = "open", NEW command, NEW lba, CmdOut(command, lba, 1), drive'.at = "idle"
      PROVE  SectorInv'
  BY <1>1, SectorCmd DEF SectorInv
<1>2. ASSUME Answer \/ (req' = req /\ hd'.pc = "partition") PROVE SectorInv'
  <2>1. hd'.pc \in {"receive", "partition"} /\ (req'.type = "none" \/ req' = req)
    BY <1>2, SMT DEF Answer, HdIdle, NoReq
  <2>2. drive'.at = "idle"
    BY <2>1 DEF DiskInv, DriveInv
  <2> QED
    BY <2>1, <2>2, SectorIdle, SMT DEF WaitPcs, SectorInv
<1>3. CASE hd_open
  <2>1. drive'.at = "idle"
    BY <1>3 DEF hd_open, DiskInv, DriveInv
  <2> QED
    BY <1>1, <1>3, <2>1 DEF hd_open
<1>4. CASE Identified
  <2>1. /\ hd.pc = "await" /\ hd.cmd.command = "identify" /\ has_int_msg
        /\ has_int_msg' = FALSE /\ drive' = Moved /\ irq' = irq
        /\ (CmdOut("read", 0, 1) /\ req' = req) \/ Answer
    BY <1>4 DEF Identified
  <2>2. drive'.at = "idle" /\ hd.left = 1
    BY <2>1, LastTaken DEF DiskInv, DriveInv
  <2>3. CASE CmdOut("read", 0, 1) /\ req' = req
    BY <1>1, <2>1, <2>2, <2>3, OpenIsServed
  <2> QED
    BY <1>2, <2>1, <2>3
<1>5. CASE PrimaryTable
  <2>1. req' = req /\ hd'.pc = "partition"
    BY <1>5, Shapes DEF PrimaryTable
  <2> QED
    BY <1>2, <2>1
<1>6. CASE PrimaryEntry
  <2>1. /\ hd.pc = "partition" /\ UNCHANGED <<drive, req>>
        /\ (\E lba : CmdOut("read", lba, 1)) \/ hd' = hd
    BY <1>6 DEF PrimaryEntry
  <2>2. drive'.at = "idle" /\ req.type = "open"
    BY <2>1, OpenIsServed DEF DiskInv, DriveInv
  <2> QED
    BY <1>1, <1>2, <2>1, <2>2
<1>7. CASE LogicalEntry
  <2>1. /\ hd.pc = "await" /\ hd.cmd.command = "read" /\ req.type = "open" /\ has_int_msg
        /\ has_int_msg' = FALSE /\ drive' = Moved /\ irq' = irq /\ req' = req
        /\ (\E lba : CmdOut("read", lba, 1)) \/ hd' = [hd EXCEPT !.pc = "partition"]
    BY <1>7 DEF LogicalEntry
  <2>2. drive'.at = "idle"
    BY <2>1, LastTaken
  <2>3. hd' = [hd EXCEPT !.pc = "partition"] => hd'.pc = "partition"
    BY Shapes
  <2> QED
    BY <1>1, <1>2, <2>1, <2>2, <2>3
<1>8. CASE Partitioned
  BY <1>2, <1>8 DEF Partitioned
<1> QED
  BY <1>3, <1>4, <1>5, <1>6, <1>7, <1>8 DEF Open

\* task_fs leaves the driver and the drive alone, and asks only when it has its
\* answer.
LEMMA FsLeaves ==
  ASSUME DiskInv, task_fs \/ NoTransfer \/ \E type \in {"read", "write"}, len \in Lens : FsCall(type, len)
  PROVE  /\ UNCHANGED <<plan, disk, drive, irq, has_int_msg, hd, scan, hd_info, clock>>
         /\ \/ req' = req
            \/ /\ req = NoReq /\ hd.pc = "receive" /\ req'.type \in {"open", "read", "write"}
               /\ req'.type = "open" => FsOpens /\ req'.n = 1
<1>1. CASE FsOpens \/ LoopReads \/ CopyFromUser \/ SyncReads \/ SyncWrites
  <2>1. req = NoReq /\ hd.pc = "receive"
    BY <1>1 DEF FsOpens, LoopReads, CopyFromUser, SyncReads, SyncWrites, FsGoesOn, DiskInv, RequestInv
  <2>2. /\ UNCHANGED <<plan, disk, drive, irq, has_int_msg, hd, scan, hd_info, clock>>
        /\ req'.type \in {"open", "read", "write"}
        /\ req'.type = "open" => FsOpens /\ req'.n = 1
    BY <1>1, SMT DEF FsOpens, LoopReads, CopyFromUser, SyncReads, SyncWrites, rw_sector
  <2> QED
    BY <2>1, <2>2
<1>2. CASE \/ FsAsksGeometry \/ CopyToUser \/ Written \/ LoopEndsHere \/ Synced \/ NoTransfer
           \/ \E type \in {"read", "write"}, len \in Lens : FsCall(type, len)
  BY <1>2 DEF FsAsksGeometry, CopyToUser, Written, LoopEndsHere, Synced, NoTransfer, FsRefuses, Reopen,
         FsCall, dvars
<1> QED
  BY <1>1, <1>2 DEF task_fs

\* The steps of the system, by who takes them.
LEMMA WhoSteps ==
  ASSUME [RWNext]_rwvars
  PROVE  \/ UNCHANGED <<dvars, fs, file_state>>
         \/ task_fs \/ NoTransfer \/ \E type \in {"read", "write"}, len \in Lens : FsCall(type, len)
         \/ /\ UNCHANGED <<fs, file_state>> /\ UNCHANGED fs_state
            /\ Drive \/ WaitFor \/ Open \/ Rdwt
         \/ /\ UNCHANGED <<fs, file_state>> /\ UNCHANGED fs_state
            /\ Tick
BY DEF RWNext, rwvars, Others, file_state, settings, fs_state, task_hd

\* Sectors on both sides stay the same ones.
LEMMA SectorNext ==
  ASSUME DiskInv, DiskInv', PartInv, SectorInv, [RWNext]_rwvars
  PROVE  SectorInv'
<1>1. hd.pc \notin {"receive", "partition"} => hd.cmd.lba \in Int
  BY DEF PartInv
<1>2. ASSUME UNCHANGED <<hd, req, drive>> PROVE SectorInv'
  BY <1>2 DEF SectorInv, Done
<1>3. CASE task_fs \/ NoTransfer \/ \E type \in {"read", "write"}, len \in Lens : FsCall(type, len)
  <2>1. CASE req' = req
    BY <1>2, <1>3, <2>1, FsLeaves
  <2>2. CASE req' # req
    <3>1. hd'.pc = "receive" /\ (req'.type = "open" => req'.n = 1)
      BY <1>3, <2>2, FsLeaves
    <3>2. drive'.at = "idle"
      BY <3>1 DEF DiskInv, DriveInv
    <3> QED
      BY <3>1, <3>2, SectorIdle DEF WaitPcs
  <2> QED
    BY <2>1, <2>2
<1>4. CASE UNCHANGED dvars \/ Tick
  BY <1>2, <1>4 DEF dvars, Tick
<1> QED
  BY <1>1, <1>3, <1>4, WhoSteps, SectorDrive, SectorWait, SectorOpen, SectorRdwt

-----------------------------------------------------------------------------
\* The constants of the tables.
LEMMA TableConstants ==
  /\ NR_PART_PER_DRIVE \in Nat /\ NR_SUB_PER_PART \in Nat \ {0}
  /\ \A p \in Plans : IsPlan(p)
BY HardDiskAssumption

\* Every logical partition has its own place in logical[].
LEMMA IndexUnique ==
  ASSUME NEW p \in Parts, NEW q \in Parts, NEW l \in Subs, NEW m \in Subs
  PROVE  /\ Index(p, l) \in Logicals
         /\ Index(p, l) = Index(q, m) => p = q /\ l = m
<1>1. PICK w \in Nat \ {0} : w = NR_SUB_PER_PART
  BY TableConstants
<1>2. PICK n \in Nat : n = NR_PART_PER_DRIVE
  BY TableConstants
<1>3. p \in Int /\ q \in Int /\ l \in 0 .. w - 1 /\ m \in 0 .. w - 1 /\ 1 <= p /\ p <= n
  BY <1>1, <1>2, SMT DEF Parts, Subs
<1>4. (p - 1) * w + l \in 0 .. n * w - 1
  <2>1. (p - 1) * w >= 0 /\ (p - 1) * w + w = p * w
    BY <1>3, SMT
  <2>2. p * w <= n * w
    BY <1>3, SMT
  <2>3. (p - 1) * w \in Int /\ p * w \in Int /\ n * w \in Int
    BY <1>3, SMT
  <2> QED
    BY <1>3, <2>1, <2>2, <2>3, SMT
<1>5. ASSUME (p - 1) * w + l = (q - 1) * w + m PROVE p = q /\ l = m
  <2>1. p < q => (p - 1) * w + w <= (q - 1) * w
    BY <1>3, SMT
  <2>2. q < p => (q - 1) * w + w <= (p - 1) * w
    BY <1>3, SMT
  <2>3. (p - 1) * w \in Int /\ (q - 1) * w \in Int
    BY <1>3, SMT
  <2>4. p = q
    BY <1>3, <1>5, <2>1, <2>2, <2>3, SMT
  <2> QED
    BY <1>3, <1>5, <2>3, <2>4, SMT
<1> QED
  BY <1>1, <1>2, <1>4, <1>5 DEF Index, Logicals

\* The file system's partition is one of them.
LEMMA RootHasIndex ==
  ASSUME plan \in Plans
  PROVE  /\ Root \div NR_SUB_PER_PART + 1 \in Parts /\ Root % NR_SUB_PER_PART \in Subs
         /\ Root = Index(Root \div NR_SUB_PER_PART + 1, Root % NR_SUB_PER_PART)
         /\ plan[Root \div NR_SUB_PER_PART + 1].sys = "ext"
         /\ Root % NR_SUB_PER_PART < Len(plan[Root \div NR_SUB_PER_PART + 1].logical)
<1>1. PICK w \in Nat \ {0} : w = NR_SUB_PER_PART
  BY TableConstants
<1>2. PICK r \in Nat : r = Root
  BY ReadWriteAssumption
<1>3. r % w \in 0 .. w - 1 /\ r \div w \in Int /\ r = w * (r \div w) + (r % w)
  BY SMT
<1>4. r = ((r \div w + 1) - 1) * w + (r % w)
  BY <1>3, SMT
<1>5. HasRoot(plan) /\ IsPlan(plan)
  BY ReadWriteAssumption, TableConstants
<1> QED
  BY <1>1, <1>2, <1>3, <1>4, <1>5 DEF HasRoot, IsPlan, Parts, Subs, Index

\* What the table of the drive says.
LEMMA FirstTable ==
  ASSUME plan \in Plans, NEW i \in Parts
  PROVE  /\ TableAt(0)[i].sys = plan[i].sys
         /\ TableAt(0)[i].start = plan[i].start /\ TableAt(0)[i].size = plan[i].size
         /\ plan[i].sys \in {"none", "data", "ext"} /\ plan[i].start \in Nat /\ plan[i].size \in Nat
<1>1. IsPlan(plan)
  BY TableConstants
<1> QED
  BY <1>1 DEF IsPlan, TableAt, Entry, Parts

\* What the table in front of a logical partition says.
LEMMA LogicalTable ==
  ASSUME plan \in Plans, NEW i \in Parts, NEW k \in Nat, plan[i].sys = "ext", k < Len(plan[i].logical)
  PROVE  /\ TableAt(Ebr(plan[i], k + 1)) = ExtTable(plan[i], k + 1)
         /\ Len(plan[i].logical) \in Nat /\ k + 1 \in DOMAIN plan[i].logical
         /\ Ebr(plan[i], k + 1) \in Int
         /\ plan[i].logical[k + 1].start \in Nat /\ plan[i].logical[k + 1].size \in Nat
<1> DEFINE part == plan[i]
           s    == Ebr(part, k + 1)
<1>1. /\ DOMAIN plan = Parts
      /\ part.start \in Nat /\ part.size \in Nat
      /\ part.start > 0 /\ part.logical \in Seq([start : Nat, size : Nat])
      /\ \A m \in DOMAIN part.logical : Ebr(part, m) \in Extent(part)
      /\ \A m, l \in DOMAIN part.logical : Ebr(part, m) = Ebr(part, l) => m = l
      /\ \A j \in DOMAIN plan \ {i} : plan[j].sys = "ext" => Extent(part) \cap Extent(plan[j]) = {}
  BY TableConstants, SMT DEF IsPlan, Parts
<1>2. /\ Len(part.logical) \in Nat /\ DOMAIN part.logical = 1 .. Len(part.logical)
      /\ k + 1 \in DOMAIN part.logical
  BY <1>1, SMT
<1>3. part.logical[k + 1] \in [start : Nat, size : Nat]
  <2>1. PICK R : R = [start : Nat, size : Nat]
    OBVIOUS
  <2>2. part.logical \in Seq(R) /\ k + 1 \in 1 .. Len(part.logical)
    BY <1>1, <1>2, <2>1
  <2> HIDE DEF part
  <2>3. part.logical[k + 1] \in R
    BY <2>2, SMT
  <2> QED
    BY <2>1, <2>3
<1>4. s \in Extent(part) /\ s \in Int /\ s # 0
  <2>1. s \in Extent(part)
    BY <1>1, <1>2
  <2> HIDE DEF s, part
  <2> QED
    BY <1>1, <2>1, SMT DEF Extent
<1> DEFINE OfSector(j) == plan[j].sys = "ext" /\ s \in Extent(plan[j])
           c == CHOOSE j \in DOMAIN plan : OfSector(j)
<1>5. i \in DOMAIN plan /\ OfSector(i) /\ \A j \in DOMAIN plan : OfSector(j) => j = i
  BY <1>1, <1>4
<1>6. c = i
  <2> HIDE DEF OfSector
  <2> QED
    BY <1>5
<1>7. (CHOOSE m \in DOMAIN part.logical : Ebr(part, m) = s) = k + 1
  BY <1>1, <1>2
<1>8. TableAt(s) = ExtTable(plan[c], CHOOSE m \in DOMAIN plan[c].logical : Ebr(plan[c], m) = s)
  BY <1>4 DEF TableAt
<1> QED
  BY <1>2, <1>3, <1>4, <1>6, <1>7, <1>8

\* What hd_info should have and has so far depends on plan and hd_info only.
LEMMA SameInfo ==
  ASSUME UNCHANGED <<plan, hd_info>>
  PROVE  /\ \A n : PrimariesTo(n)' <=> PrimariesTo(n)
         /\ \A i, k : LogicalsTo(i, k)' <=> LogicalsTo(i, k)
         /\ TableAt(0)' = TableAt(0)
         /\ \A s : Addr(s)' = Addr(s)
BY SMT DEF PrimariesTo, LogicalsTo, PrimaryOf, LogicalOf, TableAt, Addr, RootPart

\* Addresses of the partition are numbers.
LEMMA AddrInt ==
  ASSUME plan \in Plans
  PROVE  RootPart.start \in Nat /\ \A s \in Int : Addr(s) \in Int
<1> DEFINE n == Root \div NR_SUB_PER_PART + 1
           k == Root % NR_SUB_PER_PART
<1>1. n \in Parts /\ k \in Subs /\ plan[n].sys = "ext" /\ k < Len(plan[n].logical)
  BY RootHasIndex
<1>2. k \in Nat
  BY <1>1, TableConstants, SMT DEF Subs
<1>3. RootPart = plan[n].logical[k + 1]
  BY DEF RootPart
<1> HIDE DEF n, k
<1>4. RootPart.start \in Nat
  BY <1>1, <1>2, <1>3, LogicalTable
<1> QED
  BY <1>4, SMT DEF Addr

\* A step within a command.
LEMMA PartKept ==
  ASSUME PartInv, UNCHANGED <<plan, scan, hd_info, req, fs>>, hd'.cmd = hd.cmd,
         \/ hd'.pc = hd.pc
         \/ hd.pc \notin {"receive", "partition"} /\ hd'.pc \notin {"receive", "partition"}
  PROVE  PartInv'
<1> USE SameInfo
<1>1. Unopened => Unopened'
  BY DEF Unopened
<1>2. ReadsFirst => ReadsFirst'
  BY DEF ReadsFirst, Scanning
<1>3. \A i \in 1 .. NR_PART_PER_DRIVE + 1 : Goes(i) => Goes(i)'
  BY DEF Goes, Scanning
<1>4. \A i \in Parts, k \in Subs : Walks(i, k) => Walks(i, k)'
  BY DEF Walks, Scanning
<1>5. Opened => Opened'
  BY DEF Opened
<1> QED
  BY <1>1, <1>2, <1>3, <1>4, <1>5 DEF PartInv

\* The drive is open, and stays so.
LEMMA PartOpened ==
  ASSUME PartInv, Opened, UNCHANGED <<plan, scan, hd_info>>,
         fs'.pc # "boot", req'.type # "open", hd'.pc # "partition",
         hd'.pc # "receive" => hd'.cmd.command = req'.type /\ hd'.cmd.lba = Addr(req'.pos)
                               /\ req'.pos \in Int
  PROVE  PartInv'
<1>1. Opened'
  BY SameInfo DEF Opened
<1>2. hd'.pc # "receive" => hd'.cmd.lba \in Int
  BY AddrInt DEF PartInv
<1> QED
  BY <1>1, <1>2 DEF PartInv

\* Which of the situations it is.
LEMMA Situation ==
  ASSUME DiskInv, PartInv
  PROVE  /\ fs.pc \notin {"boot", "open"} => Opened
         /\ req.type \in {"read", "write"} => Opened
         /\ fs.pc = "open" /\ req = NoReq => Opened
         /\ hd.pc # "receive" /\ hd.cmd.command = "write" => Opened
         /\ fs.pc = "boot" => Unopened
         /\ req.type = "open" /\ hd.pc = "receive" => Unopened
         /\ hd.pc \notin {"receive", "partition"} /\ hd.cmd.command = "identify" => Unopened
         /\ hd.pc = "partition" => \E i \in 1 .. NR_PART_PER_DRIVE + 1 : Goes(i)
         /\ hd.pc = "await" /\ hd.cmd.command = "read" /\ req.type = "open" /\ scan.i = 0 => ReadsFirst
         /\ hd.pc = "await" /\ hd.cmd.command = "read" /\ req.type = "open" /\ scan.i # 0 =>
              \E i \in Parts, k \in Subs : Walks(i, k)
<1>1. req \in [type : {"none", "open", "read", "write"}, pos : Int, n : Nat]
  BY DEF DiskInv, DiskTypeOK
<1>2. req = NoReq => hd.pc = "receive" /\ req.type = "none"
  BY SMT DEF DiskInv, RequestInv, NoReq
<1>3. Unopened => /\ fs.pc \in {"boot", "open"} /\ hd.pc # "partition" /\ scan.i = 0
                  /\ req = NoReq \/ (req.type = "open" /\ fs.pc = "open")
                  /\ hd.pc = "receive" \/ hd.cmd.command = "identify"
                  /\ fs.pc = "open" => req.type = "open"
  BY <1>2, SMT DEF Unopened, NoScan
<1>4. ReadsFirst => Scanning /\ hd.pc # "partition" /\ scan.i = 0
  BY SMT DEF ReadsFirst, NoScan
<1>5. ASSUME NEW i \in 1 .. NR_PART_PER_DRIVE + 1, Goes(i) PROVE Scanning /\ hd.pc = "partition"
  BY <1>5 DEF Goes
<1>6. ASSUME NEW i \in Parts, NEW k \in Subs, Walks(i, k)
      PROVE  Scanning /\ hd.pc # "partition" /\ scan.i # 0
  BY <1>6, TableConstants, SMT DEF Walks, Parts
<1>7. Opened => fs.pc # "boot" /\ req.type # "open" /\ hd.pc # "partition" /\ scan.i = 0
                /\ (hd.pc # "receive" => hd.cmd.command = req.type)
  BY SMT DEF Opened, NoScan
<1> QED
  BY <1>1, <1>2, <1>3, <1>4, <1>5, <1>6, <1>7 DEF PartInv, Scanning

\* The steps of task_fs.
LEMMA PartFs ==
  ASSUME DiskInv, DiskInv', PartInv,
         task_fs \/ NoTransfer \/ \E type \in {"read", "write"}, len \in Lens : FsCall(type, len)
  PROVE  PartInv'
<1>1. /\ UNCHANGED <<plan, disk, drive, irq, has_int_msg, hd, scan, hd_info, clock>>
      /\ \/ req' = req
         \/ /\ req = NoReq /\ hd.pc = "receive" /\ req'.type \in {"open", "read", "write"}
            /\ req'.type = "open" => FsOpens /\ req'.n = 1
  BY FsLeaves
<1>2. CASE FsOpens
  <2>1. fs.pc = "boot" /\ fs'.pc = "open" /\ req = NoReq /\ req'.type = "open"
    BY <1>2 DEF FsOpens, FsGoesOn, FsAt, rw_sector
  <2>2. hd.pc = "receive" /\ Unopened
    BY <2>1, Situation DEF DiskInv, RequestInv
  <2>3. Unopened'
    BY <1>1, <2>1, <2>2, SameInfo DEF Unopened
  <2> QED
    BY <1>1, <2>2, <2>3 DEF PartInv
<1>3. CASE ~FsOpens
  <2>1. (fs.pc = "open" /\ req = NoReq) \/ fs.pc \notin {"boot", "open"}
    BY <1>3 DEF task_fs, NoTransfer, FsRefuses, Reopen, FsCall, FsAsksGeometry,
                LoopReads, CopyToUser, CopyFromUser, Written, LoopEndsHere, SyncReads, SyncWrites, Synced, FsGoesOn
  <2>2. Opened
    BY <2>1, Situation
  <2>3. fs'.pc # "boot"
    <3>1. \A v : [fs EXCEPT !.pc = v].pc = v
      BY Shapes DEF FsType
    <3>2. CASE FsAsksGeometry \/ LoopEndsHere \/ Synced
      BY <3>2, SMT DEF FsAsksGeometry, LoopEndsHere, Synced, FsReturns, FsAt
    <3>3. CASE LoopReads \/ CopyFromUser \/ SyncReads \/ SyncWrites
      BY <3>1, <3>3 DEF LoopReads, CopyFromUser, SyncReads, SyncWrites
    <3>4. CASE CopyToUser \/ Written
      BY <3>4, Shapes DEF CopyToUser, Written, TurnEnds, FsType
    <3>5. ASSUME NEW type, NEW len, FsCall(type, len) PROVE fs'.pc = "loop"
      BY <3>5 DEF FsCall
    <3>6. CASE NoTransfer
      BY <3>6 DEF NoTransfer, FsRefuses, Reopen
    <3> QED
      BY <1>3, <3>2, <3>3, <3>4, <3>5, <3>6 DEF task_fs
  <2>4. req'.type # "open" /\ (hd.pc # "receive" => req' = req)
    BY <1>1, <1>3, <2>2 DEF Opened
  <2>5. req'.pos \in Int
    BY DEF DiskInv, DiskTypeOK
  <2>6. hd'.pc # "partition" /\ (hd'.pc # "receive" => hd'.cmd.command = req'.type /\ hd'.cmd.lba = Addr(req'.pos))
    BY <1>1, <2>2, <2>4 DEF Opened
  <2> QED
    BY <1>1, <2>2, <2>3, <2>4, <2>5, <2>6, PartOpened
<1> QED
  BY <1>2, <1>3

\* What the driver waits for, the drive does and the clock counts says nothing
\* of the tables.
LEMMA PartWaits ==
  ASSUME DiskInv, PartInv, WaitFor \/ Drive \/ Tick, UNCHANGED fs_state
  PROVE  PartInv'
<1>1. UNCHANGED <<plan, scan, hd_info, req, fs>>
  BY DEF WaitFor, WaitBegins, WaitTests, WaitGoesOn, CommandGoesOut, SectorGoesOut, fs_state,
         Drive, DriveFetch, DriveWant, DriveStore, hd_handler, Tick
<1>2. CASE Drive \/ Tick
  <2>1. hd' = hd
    BY <1>2 DEF Drive, DriveFetch, DriveWant, DriveStore, hd_handler, Tick
  <2> QED
    BY <1>1, <2>1, PartKept
<1>3. CASE WaitFor
  <2>1. hd.pc \in WaitPcs
    BY <1>3 DEF WaitFor, WaitBegins, WaitTests, WaitGoesOn, CommandGoesOut, SectorGoesOut, WaitPcs
  <2>2. \/ \E v \in WaitPcs \cup {"await"} : hd' = [hd EXCEPT !.pc = v]
        \/ hd' = [hd EXCEPT !.pc = "t0", !.bit = "DRQ"]
    <3>1. CASE WaitTests
      <4>1. PICK v \in {"status", "panic"} :
              v = IF Elapsed(clock.ticks, clock.t) < HD_TIMEOUT THEN "status" ELSE "panic"
        OBVIOUS
      <4>2. hd' = [hd EXCEPT !.pc = v]
        BY <3>1, <4>1 DEF WaitTests
      <4> QED
        BY <4>2 DEF WaitPcs
    <3>2. CASE WaitBegins \/ WaitGoesOn \/ CommandGoesOut \/ SectorGoesOut
      BY <3>2 DEF WaitBegins, WaitGoesOn, CommandGoesOut, SectorGoesOut, WaitPcs
    <3> QED
      BY <1>3, <3>1, <3>2 DEF WaitFor
  <2>3. hd'.cmd = hd.cmd /\ hd'.pc \in WaitPcs \cup {"await"}
    BY <2>2 DEF DiskInv, DiskTypeOK, WaitPcs
  <2> QED
    BY <1>1, <2>1, <2>3, PartKept DEF WaitPcs
<1> QED
  BY <1>2, <1>3

\* What logical[] has for the file system's partition.
LEMMA RootBase ==
  ASSUME plan \in Plans, LogicalsTo(NR_PART_PER_DRIVE + 1, 0)
  PROVE  hd_info.logical[Root].base = RootPart.start
<1> DEFINE n == Root \div NR_SUB_PER_PART + 1
           k == Root % NR_SUB_PER_PART
<1>1. n \in Parts /\ k \in Subs /\ plan[n].sys = "ext" /\ k < Len(plan[n].logical) /\ Root = Index(n, k)
  BY RootHasIndex
<1>2. RootPart = plan[n].logical[k + 1]
  BY DEF RootPart
<1> HIDE DEF n, k
<1>3. n < NR_PART_PER_DRIVE + 1
  BY <1>1, TableConstants, SMT DEF Parts
<1>4. hd_info.logical[Root] = LogicalOf(n, k)
  BY <1>1, <1>3 DEF LogicalsTo
<1> QED
  BY <1>1, <1>2, <1>4, SMT DEF LogicalOf

\* read and write: the sectors asked for are those of the partition.
LEMMA PartRdwt ==
  ASSUME DiskInv, DiskInv', PartInv, Rdwt, UNCHANGED fs_state
  PROVE  PartInv'
<1>1. UNCHANGED <<plan, scan, hd_info, fs>>
  BY DEF Rdwt, hd_rdwt, SectorIsRead, SectorIsWritten, fs_state
<1>2. CASE hd_rdwt
  <2>1. Opened /\ req' = req /\ req.type \in {"read", "write"} /\ req.pos \in Int
    BY <1>2, Situation, Shapes DEF hd_rdwt
  <2>2. hd_info.logical[Root].base = RootPart.start
    BY <2>1, RootBase DEF Opened, PartInv
  <2>3. hd'.pc = "t0" /\ hd'.cmd.command = req.type /\ hd'.cmd.lba = Addr(req.pos)
    BY <1>2, <2>2 DEF hd_rdwt, CmdOut, Addr
  <2> QED
    BY <1>1, <2>1, <2>3, PartOpened DEF Opened
<1>3. CASE SectorIsRead \/ SectorIsWritten
  <2>1. Opened
    BY <1>3, Situation DEF SectorIsRead, SectorIsWritten
  <2>2. CASE Answer
    BY <1>1, <2>1, <2>2, PartOpened DEF Answer, HdIdle, NoReq, Opened
  <2>3. CASE ~Answer
    <3>1. req' = req /\ hd.pc = "await"
          /\ (hd' = [hd EXCEPT !.left = @ - 1] \/ hd' = [hd EXCEPT !.pc = "t0", !.left = @ - 1])
      BY <1>3, <2>3 DEF SectorIsRead, SectorIsWritten
    <3>2. hd'.cmd = hd.cmd /\ hd'.pc \in {"await", "t0"}
      BY <3>1 DEF DiskInv, DiskTypeOK
    <3> QED
      BY <1>1, <3>1, <3>2, PartKept
  <2> QED
    BY <2>2, <2>3
<1> QED
  BY <1>2, <1>3 DEF Rdwt

\* The table that has been read is that of the sector meant.
LEMMA TableRead ==
  ASSUME DiskInv, SectorInv, PartInv, hd.pc = "await", hd.cmd.command = "read", req.type = "open",
         has_int_msg
  PROVE  drive.lba = hd.cmd.lba
<1>1. drive.at = "full" /\ hd.left = 1 /\ req.n = 1 /\ hd.cmd.lba \in Int
  BY DEF DiskInv, DriveInv, NoInterrupt, SectorInv, PartInv
<1>2. Done = 0
  BY <1>1, SMT DEF Done
<1> QED
  BY <1>1, <1>2, SMT DEF SectorInv

\* hd_info, when one entry of it changes.
LEMMA InfoEdits ==
  ASSUME PartInv, NEW p \in Prims, NEW l \in Logicals, NEW r \in Regions
  PROVE  /\ [hd_info EXCEPT !.primary[p] = r] \in Info
         /\ [hd_info EXCEPT !.primary[p] = r].primary = [hd_info.primary EXCEPT ![p] = r]
         /\ [hd_info EXCEPT !.primary[p] = r].logical = hd_info.logical
         /\ [hd_info EXCEPT !.logical[l] = r] \in Info
         /\ [hd_info EXCEPT !.logical[l] = r].primary = hd_info.primary
         /\ [hd_info EXCEPT !.logical[l] = r].logical = [hd_info.logical EXCEPT ![l] = r]
<1>1. hd_info \in [open_cnt : Nat, primary : [Prims -> Regions], logical : [Logicals -> Regions]]
  BY DEF PartInv, Info
<1>2. [hd_info EXCEPT !.primary[p] = r] \in Info
  BY <1>1 DEF Info
<1>3. [hd_info EXCEPT !.logical[l] = r] \in Info
  BY <1>1 DEF Info
<1> QED
  BY <1>1, <1>2, <1>3

\* hd_identify, and the first request of partition().
LEMMA PartIdentified ==
  ASSUME DiskInv, PartInv, hd_open \/ Identified, UNCHANGED fs_state
  PROVE  PartInv'
<1>1. UNCHANGED <<plan, scan, fs>>
  BY DEF hd_open, Identified, fs_state
<1>2. CASE hd_open
  <2>1. Unopened /\ UNCHANGED <<req, hd_info>> /\ req.type = "open" /\ req # NoReq
    BY <1>2, Situation, SMT DEF hd_open, NoReq
  <2>2. hd'.pc = "t0" /\ hd'.cmd.command = "identify" /\ hd'.cmd.lba = 0
    BY <1>2 DEF hd_open, CmdOut
  <2>3. Unopened'
    BY <1>1, <2>1, <2>2, SameInfo DEF Unopened
  <2> QED
    BY <1>1, <2>1, <2>2, <2>3, SMT DEF PartInv
<1>3. CASE Identified
  <2>1. Unopened /\ req.type = "open" /\ fs.pc = "open"
    <3>1. Unopened /\ req # NoReq
      BY <1>3, Situation DEF Identified, DiskInv, RequestInv
    <3> QED
      BY <3>1 DEF Unopened
  <2> DEFINE whole == [base |-> 0, size |-> DRIVE_SIZE]
  <2>2. /\ hd_info' = [hd_info EXCEPT !.primary[0] = whole, !.open_cnt = @ + 1]
        /\ CmdOut("read", 0, 1) /\ req' = req
    BY <1>3, <2>1 DEF Identified, Unopened
  <2>3. whole \in Regions /\ 0 \in Prims /\ 0 \in Logicals
    <3>1. PICK n \in Nat : n = NR_PART_PER_DRIVE
      BY TableConstants
    <3>2. DRIVE_SIZE \in Int
      BY HardDiskAssumption, SMT
    <3>3. whole \in Regions /\ 0 \in Prims
      BY <3>1, <3>2, SMT DEF Regions, Prims
    <3>4. PICK w \in Nat \ {0} : w = NR_SUB_PER_PART
      BY TableConstants
    <3>5. n >= 1
      <4>1. IsPlan(plan)
        BY TableConstants DEF PartInv
      <4>2. PICK i : i \in 1 .. NR_PART_PER_DRIVE
        BY <4>1 DEF IsPlan
      <4> QED
        BY <3>1, <4>2, SMT
    <3>6. n * w >= 1 /\ n * w \in Int
      BY <3>4, <3>5, SMT
    <3> QED
      BY <3>1, <3>3, <3>4, <3>6, SMT DEF Logicals
  <2>4. /\ hd_info' \in Info
        /\ hd_info'.logical = hd_info.logical
        /\ hd_info'.primary = [hd_info.primary EXCEPT ![0] = whole]
    <3> HIDE DEF whole
    <3>1. PICK g \in Info : /\ g = [hd_info EXCEPT !.primary[0] = whole]
                            /\ g.primary = [hd_info.primary EXCEPT ![0] = whole]
                            /\ g.logical = hd_info.logical
      BY <2>3, InfoEdits
    <3>2. hd_info \in Info /\ hd_info.open_cnt + 1 \in Nat
      BY SMT DEF PartInv, Info
    <3>3. [g EXCEPT !.open_cnt = hd_info.open_cnt + 1] = hd_info'
      BY <2>2, <3>1, <3>2 DEF Info
    <3> QED
      BY <3>1, <3>2, <3>3 DEF Info
  <2>5. \A p \in Parts : hd_info'.primary[p] = hd_info.primary[p]
    BY <2>4, TableConstants, SMT DEF Parts, Prims, PartInv, Info
  <2>6. PrimariesTo(0)' /\ LogicalsTo(1, 0)'
    BY <1>1, <2>1, <2>4, <2>5, SMT DEF Unopened, PrimariesTo, LogicalsTo, PrimaryOf, LogicalOf
  <2>7. hd'.pc = "t0" /\ hd'.cmd.command = "read" /\ hd'.cmd.lba = 0
    BY <2>2 DEF CmdOut
  <2>8. ReadsFirst'
    BY <1>1, <2>1, <2>2, <2>6, <2>7 DEF ReadsFirst, Scanning, Unopened
  <2> QED
    BY <1>1, <2>4, <2>7, <2>8, SMT DEF PartInv
<1> QED
  BY <1>2, <1>3

\* The table of the drive is read, and at the end all entries are done.
LEMMA PartEnds ==
  ASSUME DiskInv, SectorInv, PartInv, PrimaryTable \/ Partitioned, UNCHANGED fs_state
  PROVE  PartInv'
<1>1. UNCHANGED <<plan, hd_info, fs>>
  BY DEF PrimaryTable, Partitioned, fs_state
<1>2. CASE PrimaryTable
  <2>1. ReadsFirst /\ req' = req
    BY <1>2, Situation DEF PrimaryTable
  <2>2. drive.lba = 0
    BY <1>2, <2>1, TableRead DEF PrimaryTable, ReadsFirst
  <2>3. scan' = [tbl |-> TableAt(0), i |-> 1, j |-> 0, k |-> 0]
    BY <1>2, <2>1, <2>2 DEF PrimaryTable, ReadsFirst, NoScan
  <2>4. hd'.pc = "partition" /\ hd'.cmd = hd.cmd
    BY <1>2, Shapes DEF PrimaryTable
  <2>5. Goes(1)'
    BY <1>1, <2>1, <2>3, <2>4, SameInfo, SMT DEF ReadsFirst, Goes, Scanning
  <2>6. 1 \in 1 .. NR_PART_PER_DRIVE + 1
    BY TableConstants, SMT
  <2> QED
    BY <1>1, <2>4, <2>5, <2>6 DEF PartInv
<1>3. CASE Partitioned
  <2>1. PICK i \in 1 .. NR_PART_PER_DRIVE + 1 : Goes(i)
    BY <1>3, Situation DEF Partitioned
  <2>2. i = NR_PART_PER_DRIVE + 1
    BY <1>3, <2>1, TableConstants, SMT DEF Partitioned, Goes
  <2>3. i - 1 = NR_PART_PER_DRIVE
    BY <2>2, TableConstants, SMT
  <2>4. req'.type = "none" /\ hd'.pc = "receive" /\ scan' = NoScan
    BY <1>3 DEF Partitioned, Answer, HdIdle, NoReq
  <2>5. Opened'
    BY <1>1, <2>1, <2>2, <2>3, <2>4, SameInfo DEF Goes, Scanning, Opened
  <2> QED
    BY <1>1, <2>4, <2>5 DEF PartInv
<1> QED
  BY <1>2, <1>3

\* An entry of the table of the drive.
LEMMA PartEntry ==
  ASSUME DiskInv, PartInv, PrimaryEntry, UNCHANGED fs_state
  PROVE  PartInv'
<1>1. UNCHANGED <<plan, fs, req>> /\ plan \in Plans
  BY DEF PrimaryEntry, fs_state, PartInv
<1>2. PICK i \in 1 .. NR_PART_PER_DRIVE + 1 : Goes(i)
  BY Situation DEF PrimaryEntry
<1>3. i \in Parts /\ i \in Nat /\ scan.i = i
  BY <1>2, TableConstants, SMT DEF PrimaryEntry, Goes, Parts
<1> DEFINE e == TableAt(0)[i]
           r == [base |-> e.start, size |-> e.size]
<1>4. /\ e.sys = plan[i].sys /\ e.start = plan[i].start /\ e.size = plan[i].size
      /\ plan[i].sys \in {"none", "data", "ext"} /\ plan[i].start \in Nat /\ plan[i].size \in Nat
  BY <1>1, <1>3, FirstTable
<1>5. scan.tbl[scan.i] = e
  BY <1>2, <1>3 DEF Goes
<1>6. /\ hd_info' = IF e.sys = "none" THEN hd_info ELSE [hd_info EXCEPT !.primary[i] = r]
      /\ e.sys = "ext" => CmdOut("read", e.start, 1) /\ scan' = [scan EXCEPT !.j = i, !.k = 0]
      /\ e.sys # "ext" => scan' = [scan EXCEPT !.i = i + 1] /\ hd' = hd
  BY <1>3, <1>5 DEF PrimaryEntry
<1>7. r \in Regions /\ i \in Prims /\ \E l : l \in Logicals
  <2>1. r \in Regions /\ i \in Prims
    BY <1>3, <1>4, TableConstants, SMT DEF Regions, Prims, Parts
  <2>2. 0 \in Subs
    BY TableConstants, SMT DEF Subs
  <2> QED
    BY <1>3, <2>1, <2>2, IndexUnique
<1>8. TableAt(0)' = TableAt(0)
  BY <1>1 DEF TableAt
<1> HIDE DEF e, r
<1>9. /\ hd_info' \in Info /\ hd_info'.logical = hd_info.logical
      /\ hd_info'.primary = IF e.sys = "none" THEN hd_info.primary ELSE [hd_info.primary EXCEPT ![i] = r]
  <2>1. PICK l : l \in Logicals
    BY <1>7
  <2>2. /\ [hd_info EXCEPT !.primary[i] = r] \in Info
        /\ [hd_info EXCEPT !.primary[i] = r].primary = [hd_info.primary EXCEPT ![i] = r]
        /\ [hd_info EXCEPT !.primary[i] = r].logical = hd_info.logical
    BY <1>7, <2>1, InfoEdits
  <2>3. hd_info \in Info
    BY DEF PartInv
  <2> QED
    BY <1>6, <2>2, <2>3
<1>10. PrimariesTo(i)'
  <2>1. ASSUME NEW p \in Parts PROVE hd_info'.primary[p] = IF p <= i THEN PrimaryOf(p) ELSE NoPart
    <3>1. p \in Int /\ p \in Prims /\ (p <= i - 1 <=> p <= i /\ p # i)
      BY <1>3, TableConstants, SMT DEF Parts, Prims
    <3>2. hd_info.primary[p] = IF p <= i - 1 THEN PrimaryOf(p) ELSE NoPart
      BY <1>2 DEF Goes, PrimariesTo
    <3>3. CASE p = i
      <4>1. hd_info.primary[i] = NoPart
        BY <1>3, <3>2, <3>3, SMT
      <4>2. hd_info'.primary[i] = PrimaryOf(i)
        BY <1>4, <1>7, <1>9, <4>1 DEF PrimaryOf, PartInv, Info, r
      <4> QED
        BY <1>3, <3>3, <4>2, SMT
    <3>4. CASE p # i
      <4>1. hd_info'.primary[p] = hd_info.primary[p]
        BY <1>9, <3>1, <3>4 DEF PartInv, Info
      <4> QED
        BY <3>1, <3>2, <3>4, <4>1
    <3> QED
      BY <3>3, <3>4
  <2> QED
    BY <1>1, <2>1 DEF PrimariesTo, PrimaryOf
<1>11. LogicalsTo(i, 0)'
  BY <1>1, <1>2, <1>9 DEF Goes, LogicalsTo, LogicalOf
<1>12. CASE e.sys = "ext"
  <2>1. hd'.pc = "t0" /\ hd'.cmd.command = "read" /\ hd'.cmd.lba = e.start
    BY <1>6, <1>12, SMT DEF CmdOut
  <2>2. scan' = [tbl |-> TableAt(0), i |-> i, j |-> i, k |-> 0]
    BY <1>2, <1>6, <1>12 DEF Goes
  <2>3. Ebr(plan[i], 0 + 1) = e.start /\ 0 < Len(plan[i].logical)
    <3>1. IsPlan(plan)
      BY <1>1, TableConstants
    <3>2. plan[i].logical \in Seq([start : Nat, size : Nat]) /\ plan[i].logical # <<>>
      BY <1>3, <1>4, <1>12, <3>1 DEF IsPlan, Parts
    <3>3. PICK q, R : q = plan[i].logical /\ q \in Seq(R) /\ q # <<>>
      BY <3>2
    <3>4. Len(q) > 0
      BY <3>3, SMT
    <3> QED
      BY <1>4, <3>3, <3>4, SMT DEF Ebr
  <2>4. Walks(i, 0)'
    BY <1>1, <1>2, <1>4, <1>8, <1>10, <1>11, <1>12, <2>1, <2>2, <2>3 DEF Walks, Goes, Scanning
  <2>5. 0 \in Subs
    BY TableConstants, SMT DEF Subs
  <2> QED
    BY <1>1, <1>3, <1>4, <1>9, <2>1, <2>4, <2>5, SMT DEF PartInv
<1>13. CASE e.sys # "ext"
  <2>1. hd' = hd /\ scan' = [tbl |-> TableAt(0), i |-> i + 1, j |-> 0, k |-> 0]
    BY <1>2, <1>6, <1>13 DEF Goes
  <2>2. LogicalsTo(i + 1, 0)'
    <3>1. ASSUME NEW p \in Parts, NEW l \in Subs
          PROVE  hd_info'.logical[Index(p, l)] = IF p < i + 1 \/ (p = i + 1 /\ l < 0) THEN LogicalOf(p, l) ELSE NoPart
      <4>1. hd_info'.logical[Index(p, l)] = IF p < i \/ (p = i /\ l < 0) THEN LogicalOf(p, l) ELSE NoPart
        BY <1>2, <1>9 DEF Goes, LogicalsTo
      <4>2. LogicalOf(i, l) = NoPart
        BY <1>4, <1>13 DEF LogicalOf
      <4>3. p \in Int /\ l \in Nat
        BY TableConstants, SMT DEF Parts, Subs
      <4> QED
        BY <1>3, <4>1, <4>2, <4>3, SMT
    <3> QED
      BY <1>1, <3>1 DEF LogicalsTo, LogicalOf
  <2>3. (i + 1) - 1 = i /\ i + 1 \in 1 .. NR_PART_PER_DRIVE + 1
    BY <1>3, TableConstants, SMT DEF Parts
  <2>4. Goes(i + 1)'
    BY <1>1, <1>2, <1>8, <1>10, <2>1, <2>2, <2>3 DEF Goes, Scanning
  <2> QED
    BY <1>1, <1>9, <2>1, <2>3, <2>4 DEF PartInv, Goes
<1> QED
  BY <1>12, <1>13

\* The table in front of a logical partition.
LEMMA PartLogical ==
  ASSUME DiskInv, SectorInv, PartInv, LogicalEntry, UNCHANGED fs_state
  PROVE  PartInv'
<1>1. UNCHANGED <<plan, fs, req>> /\ plan \in Plans
  BY DEF LogicalEntry, fs_state, PartInv
<1>2. PICK i \in Parts, k \in Subs : Walks(i, k)
  BY Situation DEF LogicalEntry
<1>3. i \in Nat /\ k \in Nat /\ NR_SUB_PER_PART \in Nat /\ NR_PART_PER_DRIVE \in Nat
  BY TableConstants, SMT DEF Parts, Subs
<1> DEFINE part  == plan[i]
           n     == Len(part.logical)
           first == part.logical[k + 1]
           s     == Ebr(part, k + 1)
           r     == [base |-> first.start, size |-> first.size]
<1>4. part.sys = "ext" /\ k < n /\ scan = [tbl |-> TableAt(0), i |-> i, j |-> i, k |-> k] /\ hd.cmd.lba = s
  BY <1>2 DEF Walks
<1>5. /\ TableAt(s) = ExtTable(part, k + 1) /\ n \in Nat /\ s \in Int
      /\ first.start \in Nat /\ first.size \in Nat
  BY <1>1, <1>3, <1>4, LogicalTable
<1>6. drive.lba = s
  BY <1>4, TableRead DEF LogicalEntry
<1> DEFINE tbl  == ExtTable(part, k + 1)
           last == tbl[2].sys = "none" \/ k = NR_SUB_PER_PART - 1
<1>7. /\ tbl[1].start = first.start - s /\ tbl[1].size = first.size
      /\ tbl[2].sys = "none" <=> k + 1 = n
      /\ k + 1 # n => tbl[2].start = Ebr(part, k + 2) - part.start
  <2>1. k + 1 + 1 = k + 2
    BY <1>3, SMT
  <2> QED
    BY <2>1 DEF ExtTable, Entry
<1> HIDE DEF tbl
<1>8. /\ hd_info' = [hd_info EXCEPT !.logical[Index(i, k)] =
                       [base |-> s + tbl[1].start, size |-> tbl[1].size]]
      /\ last => hd' = [hd EXCEPT !.pc = "partition"] /\ scan' = [scan EXCEPT !.i = @ + 1, !.j = 0, !.k = 0]
      /\ ~last => /\ CmdOut("read", hd_info.primary[i].base + tbl[2].start, 1)
                  /\ scan' = [scan EXCEPT !.k = @ + 1]
  BY <1>4, <1>5, <1>6, SMT DEF LogicalEntry, LogicalBase, NextTable, Index, tbl
<1>9. [base |-> s + tbl[1].start, size |-> tbl[1].size] = r /\ r \in Regions
  <2>1. s + (first.start - s) = first.start
    BY <1>5, SMT
  <2> QED
    BY <1>5, <1>7, <2>1, SMT DEF Regions
<1>10. TableAt(0)' = TableAt(0)
  BY <1>1 DEF TableAt
<1>11. r = LogicalOf(i, k)
  BY <1>4 DEF LogicalOf
<1> HIDE DEF part, n, first, s, r, last
<1>12. /\ hd_info' \in Info /\ hd_info'.primary = hd_info.primary
       /\ hd_info'.logical = [hd_info.logical EXCEPT ![Index(i, k)] = r]
  <2>1. Index(i, k) \in Logicals /\ 0 \in Prims
    BY <1>2, <1>3, IndexUnique, SMT DEF Prims
  <2>2. /\ [hd_info EXCEPT !.logical[Index(i, k)] = r] \in Info
        /\ [hd_info EXCEPT !.logical[Index(i, k)] = r].primary = hd_info.primary
        /\ [hd_info EXCEPT !.logical[Index(i, k)] = r].logical = [hd_info.logical EXCEPT ![Index(i, k)] = r]
    <3>1. PICK x \in Logicals : x = Index(i, k)
      BY <2>1
    <3>2. r \in Regions
      BY <1>9
    <3>3. /\ [hd_info EXCEPT !.logical[x] = r] \in Info
          /\ [hd_info EXCEPT !.logical[x] = r].primary = hd_info.primary
          /\ [hd_info EXCEPT !.logical[x] = r].logical = [hd_info.logical EXCEPT ![x] = r]
      BY <2>1, <3>2, InfoEdits
    <3> QED
      BY <3>1, <3>3
  <2>3. hd_info' = [hd_info EXCEPT !.logical[Index(i, k)] = r]
    BY <1>8, <1>9
  <2> QED
    BY <2>2, <2>3
<1>13. PrimariesTo(i)'
  BY <1>1, <1>2, <1>12 DEF Walks, PrimariesTo, PrimaryOf
<1>14. ASSUME NEW p \in Parts, NEW l \in Subs
       PROVE  hd_info'.logical[Index(p, l)] =
                IF p < i \/ (p = i /\ l < k + 1) THEN LogicalOf(p, l) ELSE NoPart
  <2>1. Index(p, l) \in Logicals /\ (Index(p, l) = Index(i, k) => p = i /\ l = k)
    BY IndexUnique, SMT
  <2>2. hd_info.logical[Index(p, l)] = IF p < i \/ (p = i /\ l < k) THEN LogicalOf(p, l) ELSE NoPart
    BY <1>2 DEF Walks, LogicalsTo
  <2>3. p \in Int /\ l \in Int
    BY TableConstants, SMT DEF Parts, Subs
  <2>4. CASE p = i /\ l = k
    <3>1. hd_info'.logical[Index(p, l)] = r
      BY <1>12, <2>1, <2>4 DEF PartInv, Info
    <3> QED
      BY <1>3, <1>11, <2>4, <3>1, SMT
  <2>5. CASE ~(p = i /\ l = k)
    <3>1. hd_info'.logical[Index(p, l)] = hd_info.logical[Index(p, l)]
      BY <1>12, <2>1, <2>5 DEF PartInv, Info
    <3> QED
      BY <1>3, <2>2, <2>3, <2>5, <3>1, SMT
  <2> QED
    BY <2>4, <2>5
<1>15. \A p, l : LogicalOf(p, l)' = LogicalOf(p, l)
  BY <1>1 DEF LogicalOf
<1>16. CASE last
  <2>1. hd'.pc = "partition" /\ hd'.cmd = hd.cmd
    <3>1. hd' = [hd EXCEPT !.pc = "partition"]
      BY <1>8, <1>16
    <3>2. /\ [hd EXCEPT !.pc = "partition"].pc = "partition"
          /\ [hd EXCEPT !.pc = "partition"].cmd = hd.cmd
      BY Shapes
    <3> QED
      BY <3>1, <3>2
  <2>2. scan' = [tbl |-> TableAt(0), i |-> i + 1, j |-> 0, k |-> 0]
    BY <1>4, <1>8, <1>16
  <2>3. ASSUME NEW p \in Parts, NEW l \in Subs
        PROVE  hd_info'.logical[Index(p, l)] =
                 IF p < i + 1 \/ (p = i + 1 /\ l < 0) THEN LogicalOf(p, l) ELSE NoPart
    <3>1. p \in Int /\ l \in Nat /\ l <= NR_SUB_PER_PART - 1
      BY <1>3, SMT DEF Parts, Subs
    <3>2. CASE p = i /\ l >= k + 1
      <4>1. k + 1 = n
        BY <1>3, <1>7, <1>16, <3>1, <3>2, SMT DEF last
      <4>2. ~(l < n)
        BY <1>3, <1>5, <3>1, <3>2, <4>1, SMT
      <4>3. LogicalOf(p, l) = NoPart
        BY <3>2, <4>2 DEF LogicalOf, n, part
      <4> QED
        BY <1>3, <1>14, <3>1, <3>2, <4>3
    <3>3. CASE ~(p = i /\ l >= k + 1)
      BY <1>3, <1>14, <3>1, <3>3, SMT
    <3> QED
      BY <3>2, <3>3
  <2>4. LogicalsTo(i + 1, 0)'
    BY <1>15, <2>3 DEF LogicalsTo
  <2>5. (i + 1) - 1 = i /\ i + 1 \in 1 .. NR_PART_PER_DRIVE + 1
    BY <1>3, SMT DEF Parts
  <2>6. Goes(i + 1)'
    BY <1>1, <1>2, <1>10, <1>13, <2>1, <2>2, <2>4, <2>5 DEF Goes, Walks, Scanning
  <2> QED
    BY <1>1, <1>12, <2>1, <2>5, <2>6 DEF PartInv
<1>17. CASE ~last
  <2>1. k + 1 < n /\ k + 1 \in Subs /\ k + 1 # n
    BY <1>3, <1>4, <1>5, <1>7, <1>17, SMT DEF last, Subs, n
  <2>2. hd_info.primary[i].base = part.start /\ part.start \in Nat
    <3>1. hd_info.primary[i] = PrimaryOf(i)
      BY <1>2, <1>3, SMT DEF Walks, PrimariesTo
    <3>2. part.start \in Nat
      BY <1>1, FirstTable DEF part
    <3> QED
      BY <1>4, <3>1, <3>2, SMT DEF PrimaryOf, part
  <2>3. Ebr(part, k + 2) \in Int /\ (k + 1) + 1 = k + 2
    <3>1. (k + 1) + 1 = k + 2 /\ k + 1 \in Nat
      BY <1>3, SMT
    <3> QED
      BY <1>1, <1>4, <2>1, <3>1, LogicalTable DEF part, n
  <2>4. hd_info.primary[i].base + tbl[2].start = Ebr(part, k + 2)
    BY <1>7, <2>1, <2>2, <2>3, SMT
  <2>5. hd'.pc = "t0" /\ hd'.cmd.command = "read" /\ hd'.cmd.lba = Ebr(part, (k + 1) + 1)
    BY <1>8, <1>17, <2>3, <2>4, SMT DEF CmdOut
  <2>6. scan' = [tbl |-> TableAt(0), i |-> i, j |-> i, k |-> k + 1]
    BY <1>4, <1>8, <1>17
  <2>7. LogicalsTo(i, k + 1)'
    BY <1>14, <1>15 DEF LogicalsTo
  <2>8. Walks(i, k + 1)'
    BY <1>1, <1>2, <1>4, <1>10, <1>13, <2>1, <2>5, <2>6, <2>7 DEF Walks, Scanning, part, n
  <2> QED
    BY <1>1, <1>12, <2>1, <2>3, <2>5, <2>8 DEF PartInv
<1> QED
  BY <1>16, <1>17

\* Before the drive is opened hd_info is empty.
LEMMA PartInit == RWInit => SectorInv /\ PartInv
<1> SUFFICES ASSUME RWInit PROVE SectorInv /\ PartInv
  OBVIOUS
<1>1. /\ plan \in Plans /\ drive = DriveIdle /\ hd = HdIdle /\ scan = NoScan /\ req = NoReq
      /\ fs = FsAt("boot")
      /\ hd_info = [open_cnt |-> 0, primary |-> [d \in Prims |-> NoPart],
                    logical |-> [d \in Logicals |-> NoPart]]
  BY DEF RWInit, DInit
<1>2. SectorInv
  BY <1>1 DEF SectorInv, DriveIdle, HdIdle, NoReq, WaitPcs
<1>3. NoPart \in Regions
  BY SMT DEF NoPart, Regions
<1>4. hd_info \in Info
  <2> HIDE DEF Regions
  <2> QED
    BY <1>1, <1>3 DEF Info
<1>5. PrimariesTo(0)
  <2> SUFFICES ASSUME NEW p \in Parts PROVE hd_info.primary[p] = NoPart /\ ~(p <= 0)
    BY DEF PrimariesTo
  <2> QED
    BY <1>1, TableConstants, SMT DEF Parts, Prims
<1>6. LogicalsTo(1, 0)
  <2> SUFFICES ASSUME NEW p \in Parts, NEW l \in Subs
               PROVE  hd_info.logical[Index(p, l)] = NoPart /\ ~(p < 1) /\ ~(l < 0)
    BY DEF LogicalsTo
  <2>1. Index(p, l) \in Logicals
    BY IndexUnique
  <2> QED
    BY <1>1, <2>1, TableConstants, SMT DEF Parts, Subs
<1>7. Unopened
  BY <1>1, <1>5, <1>6 DEF Unopened, FsAt, HdIdle
<1> QED
  BY <1>1, <1>2, <1>4, <1>7 DEF PartInv, HdIdle

\* What hd_info has of the tables grows by one entry at a time.
LEMMA PartNext ==
  ASSUME DiskInv, DiskInv', SectorInv, PartInv, [RWNext]_rwvars
  PROVE  PartInv'
<1>1. CASE UNCHANGED <<dvars, fs, file_state>>
  BY <1>1, PartKept DEF dvars
<1>2. CASE UNCHANGED fs_state /\ Open
  BY <1>2, PartIdentified, PartEnds, PartEntry, PartLogical DEF Open
<1> QED
  BY <1>1, <1>2, WhoSteps, PartFs, PartWaits, PartRdwt

\* The partitions in hd_info are those of the drive's tables when the drive has
\* been opened, for any tables partition() can read.
LEMMA PartInvRight == DiskInv /\ PartInv => PartitionsRight
<1> SUFFICES ASSUME DiskInv, PartInv, hd.pc = "receive", hd_info.open_cnt > 0
             PROVE  \A i \in Parts : /\ hd_info.primary[i] = PrimaryOf(i)
                                     /\ \A k \in Subs : hd_info.logical[Index(i, k)] = LogicalOf(i, k)
  BY DEF PartitionsRight, Parts, Subs, PrimaryOf, LogicalOf, Index
<1>1. ~(hd_info.open_cnt = 0)
  BY SMT
<1>2. Opened
  BY <1>1 DEF PartInv, Unopened, ReadsFirst, Goes, Walks, Scanning
<1>3. \A i \in Parts : i <= NR_PART_PER_DRIVE /\ i < NR_PART_PER_DRIVE + 1
  BY TableConstants, SMT DEF Parts
<1> QED
  BY <1>2, <1>3 DEF Opened, PrimariesTo, LogicalsTo

\* Once hd_open has been answered, hd_info has every primary partition and the
\* logical ones, up to NR_SUB_PER_PART of each extended one, as the tables on
\* the drive have them: partition() (hd.c) goes through them to the end and
\* counts from the right sector, whatever the tables say.
THEOREM PartitionsFound == RWSpec => []PartitionsRight
<1>1. RWInit => DiskInv /\ SectorInv /\ PartInv
  BY DiskInitInv, PartInit
<1>2. DiskInv /\ SectorInv /\ PartInv /\ [RWNext]_rwvars => (DiskInv /\ SectorInv /\ PartInv)'
  BY DiskNextInv, SectorNext, PartNext
<1> QED
  BY <1>1, <1>2, PartInvRight, PTL DEF RWSpec
=============================================================================

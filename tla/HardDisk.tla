------------------------------ MODULE HardDisk ------------------------------
(***************************************************************************)
(* The disk driver (kernel/hd.c): task_hd serves one request at a time of  *)
(* its only client, task_fs; it polls the drive with get_ticks() for a     *)
(* clock, gives it a command and waits for one interrupt per sector.       *)
(*                                                                         *)
(* The drive is external: it is modelled from the registers the driver     *)
(* uses.  So is the format of partition tables, from what partition()      *)
(* reads; get_ticks() is the call that module SysTask shows to return.     *)
(***************************************************************************)
EXTENDS Integers, Sequences

CONSTANTS
  Plans,         \* ways to divide the drive into partitions
  Root,          \* number in logical[] of the partition with the file system
  NR_PART_PER_DRIVE,
  NR_SUB_PER_PART,
  DRIVE_SIZE,    \* in sectors
  COUNT,         \* 256: values of the u8 cmd.count
  INT,           \* 2^32: values of an int
  MAX_TICKS,
  HZ, MS,        \* MS = 1000
  HD_TIMEOUT

\* A plan: the primary partitions and, in the extended ones, the logical ones,
\* as regions of the drive.  Each logical partition has a table in front of it,
\* in a sector of its own; the first one that of its extended partition.
Extent(part) == part.start .. part.start + part.size - 1
Ebr(part, k) == IF k = 1 THEN part.start ELSE part.logical[k].start - 1

IsPlan(p) ==
  /\ DOMAIN p = 1 .. NR_PART_PER_DRIVE
  /\ \E i \in DOMAIN p : p[i].sys # "none"
  /\ \A i \in DOMAIN p :
       /\ p[i].sys \in {"none", "data", "ext"} /\ p[i].start \in Nat /\ p[i].size \in Nat
       /\ p[i].sys = "ext" =>
            /\ p[i].start > 0 /\ p[i].logical \in Seq([start : Nat, size : Nat]) /\ p[i].logical # <<>>
            /\ \A k \in DOMAIN p[i].logical : Ebr(p[i], k) \in Extent(p[i])
            /\ \A k, l \in DOMAIN p[i].logical : Ebr(p[i], k) = Ebr(p[i], l) => k = l
            /\ \A j \in DOMAIN p \ {i} : p[j].sys = "ext" => Extent(p[i]) \cap Extent(p[j]) = {}

ASSUME HardDiskAssumption ==
  /\ \A p \in Plans : IsPlan(p)
  /\ NR_PART_PER_DRIVE \in Nat
  /\ {DRIVE_SIZE, COUNT, MAX_TICKS, HZ, MS, HD_TIMEOUT} \subseteq Nat \ {0}
  /\ NR_SUB_PER_PART \in Nat \ {0} /\ INT \div 2 \in Nat

VARIABLES
  plan,          \* what the tables on the drive say
  disk,          \* sectors of the file system's partition
  drive,         \* the drive: its state, the sector at hand, sectors to go
  irq,           \* AT_WINI_IRQ is raised and not yet handled
  has_int_msg,   \* of task_hd
  req,           \* the request of task_fs that is being served
  fsbuf,         \* the client's buffer, in sectors
  hd,            \* task_hd: where it is; the command; sectors to go
  scan,          \* partition(): i, j and k of its loops, s, and part_tbl
  hd_info,       \* base and size of primary[] and logical[]
  clock          \* ticks, t of waitfor, ticks since t and whether they wrapped

dvars == <<plan, disk, drive, irq, has_int_msg, req, fsbuf, hd, scan, hd_info, clock>>

NoReq    == [type |-> "none", pos |-> 0, n |-> 0]
NoCmd    == [command |-> "none", lba |-> 0, count |-> 0]
NoScan   == [tbl |-> <<>>, i |-> 0, j |-> 0, k |-> 0]
HdIdle   == [pc |-> "receive", bit |-> "none", cmd |-> NoCmd, left |-> 0]
NoClock  == [ticks |-> 0, t |-> 0, waited |-> 0, wrapped |-> FALSE]
NoPart   == [base |-> 0, size |-> 0]
Prims    == 0 .. NR_PART_PER_DRIVE
Logicals == 0 .. NR_PART_PER_DRIVE * NR_SUB_PER_PART - 1

\* What the drive holds: sector 0 and the first sector of every logical
\* partition's own extent have tables, which count from the extended partition.
Entry(sys, start, size) == [sys |-> sys, start |-> start, size |-> size]
ExtTable(part, k) ==
  <<Entry("data", part.logical[k].start - Ebr(part, k), part.logical[k].size),
    IF k = Len(part.logical) THEN Entry("none", 0, 0)
    ELSE Entry("ext", Ebr(part, k + 1) - part.start, part.logical[k + 1].size + 1)>>
TableAt(s) ==
  IF s = 0 THEN [i \in DOMAIN plan |-> Entry(plan[i].sys, plan[i].start, plan[i].size)]
  ELSE LET part == plan[CHOOSE i \in DOMAIN plan :
                          plan[i].sys = "ext" /\ s \in Extent(plan[i])]
       IN  ExtTable(part, CHOOSE k \in DOMAIN part.logical : Ebr(part, k) = s)

DriveIdle == [at |-> "idle", command |-> "none", lba |-> 0, left |-> 0]

DInit ==
  /\ plan \in Plans
  /\ drive = DriveIdle /\ irq = FALSE /\ has_int_msg = FALSE
  /\ hd = HdIdle
  /\ scan = NoScan
  /\ hd_info = [open_cnt |-> 0, primary |-> [d \in Prims |-> NoPart],
                logical |-> [d \in Logicals |-> NoPart]]
  /\ clock = NoClock

-----------------------------------------------------------------------------
(***************************************************************************)
(* The drive                                                               *)
(***************************************************************************)

Busy == drive.at \in {"fetch", "want", "store"}
DRQ  == drive.at \in {"full", "empty"}

\* out_byte(REG_CMD, ...): a count of 0 stands for COUNT sectors.
Command(cmd) ==
  [at |-> IF cmd.command = "write" THEN "want" ELSE "fetch",
   command |-> cmd.command, lba |-> cmd.lba,
   left |-> CASE cmd.command = "identify" -> 1
              [] cmd.count = 0 -> COUNT
              [] OTHER -> cmd.count]

\* A sector has been transferred.
Moved == IF drive.left = 1 THEN DriveIdle
         ELSE [drive EXCEPT !.lba = @ + 1, !.left = @ - 1,
                            !.at = IF drive.command = "write" THEN "empty" ELSE "fetch"]

\* Data for the driver to read, with an interrupt.
DriveFetch ==
  /\ drive.at = "fetch"
  /\ drive' = [drive EXCEPT !.at = "full"]
  /\ irq' = TRUE
  /\ UNCHANGED <<plan, disk, has_int_msg, req, fsbuf, hd, scan, hd_info, clock>>

\* Ready for the first sector of a write, without one.
DriveWant ==
  /\ drive.at = "want"
  /\ drive' = [drive EXCEPT !.at = "empty"]
  /\ UNCHANGED <<plan, disk, irq, has_int_msg, req, fsbuf, hd, scan, hd_info, clock>>

\* A sector is written, with an interrupt.
DriveStore ==
  /\ drive.at = "store"
  /\ drive' = Moved
  /\ irq' = TRUE
  /\ UNCHANGED <<plan, disk, has_int_msg, req, fsbuf, hd, scan, hd_info, clock>>

\* Reading the status register takes the interrupt back; task_hd is informed.
hd_handler ==
  /\ irq
  /\ irq' = FALSE
  /\ has_int_msg' = TRUE
  /\ UNCHANGED <<plan, disk, drive, req, fsbuf, hd, scan, hd_info, clock>>

\* The clock goes on; it is followed only while waitfor compares it.
Tick ==
  /\ hd.pc \in {"elapsed", "status"}
  /\ clock' = [clock EXCEPT !.ticks = (@ + 1) % MAX_TICKS,
                            !.waited = IF @ * MS >= HD_TIMEOUT * HZ THEN @ ELSE @ + 1,
                            !.wrapped = @ \/ clock.ticks + 1 = MAX_TICKS]
  /\ UNCHANGED <<plan, disk, drive, irq, has_int_msg, req, fsbuf, hd, scan, hd_info>>

-----------------------------------------------------------------------------
(***************************************************************************)
(* hd_cmd_out, waitfor and interrupt_wait                                  *)
(***************************************************************************)

\* hd_cmd_out, for a command that moves n sectors, begins with waitfor.
CmdOut(command, lba, n) ==
  hd' = [pc |-> "t0", bit |-> "BSY", left |-> n,
         cmd |-> [command |-> command, lba |-> lba, count |-> n % COUNT]]

\* t = get_ticks()
WaitBegins ==
  /\ hd.pc = "t0"
  /\ \E t \in 0 .. MAX_TICKS - 1 : clock' = [NoClock EXCEPT !.ticks = t, !.t = t]
  /\ hd' = [hd EXCEPT !.pc = "elapsed"]
  /\ UNCHANGED <<plan, disk, drive, irq, has_int_msg, req, fsbuf, scan, hd_info>>

Signed(n) == ((n + INT \div 2) % INT) - INT \div 2

\* A mutant of Elapsed: ticks are not turned into milliseconds.
ElapsedUndivided(ticks, t) == Signed((ticks - t) * MS)

\* (get_ticks() - t) * 1000 / HZ
Elapsed(ticks, t) == Signed((ticks - t) * MS) \div HZ

\* The test of the loop; when the time is over the caller panics.
WaitTests ==
  /\ hd.pc = "elapsed"
  /\ hd' = [hd EXCEPT !.pc = IF Elapsed(clock.ticks, clock.t) < HD_TIMEOUT THEN "status" ELSE "panic"]
  /\ UNCHANGED <<plan, disk, drive, irq, has_int_msg, req, fsbuf, scan, hd_info, clock>>

\* in_byte(REG_STATUS) is not what is waited for.
WaitGoesOn ==
  /\ hd.pc = "status"
  /\ IF hd.bit = "BSY" THEN Busy ELSE ~DRQ
  /\ hd' = [hd EXCEPT !.pc = "elapsed"]
  /\ UNCHANGED <<plan, disk, drive, irq, has_int_msg, req, fsbuf, scan, hd_info, clock>>

\* BSY is clear: the command goes out.  A write waits for DRQ, the others for
\* an interrupt.
CommandGoesOut ==
  /\ hd.pc = "status" /\ hd.bit = "BSY" /\ ~Busy
  /\ drive' = Command(hd.cmd)
  /\ hd' = IF hd.cmd.command = "write" THEN [hd EXCEPT !.pc = "t0", !.bit = "DRQ"]
                                       ELSE [hd EXCEPT !.pc = "await"]
  /\ clock' = NoClock
  /\ UNCHANGED <<plan, disk, irq, has_int_msg, req, fsbuf, scan, hd_info>>

\* A mutant of SectorGoesOut: the next sector only waits for DRQ.
SectorGoesOutPolled ==
  /\ hd.pc = "status" /\ hd.bit = "DRQ" /\ DRQ
  /\ disk' = [disk EXCEPT ![drive.lba] = fsbuf[req.n - hd.left]]
  /\ drive' = [drive EXCEPT !.at = "store"]
  /\ hd' = [hd EXCEPT !.pc = IF hd.left = 1 THEN "await" ELSE "t0",
                      !.left = IF hd.left = 1 THEN 1 ELSE @ - 1]
  /\ clock' = NoClock
  /\ UNCHANGED <<plan, irq, has_int_msg, req, fsbuf, scan, hd_info>>

\* DRQ is set: port_write.
SectorGoesOut ==
  /\ hd.pc = "status" /\ hd.bit = "DRQ" /\ DRQ
  /\ disk' = [disk EXCEPT ![drive.lba] = fsbuf[req.n - hd.left]]
  /\ drive' = [drive EXCEPT !.at = "store"]
  /\ hd' = [hd EXCEPT !.pc = "await"]
  /\ clock' = NoClock
  /\ UNCHANGED <<plan, irq, has_int_msg, req, fsbuf, scan, hd_info>>

-----------------------------------------------------------------------------
(***************************************************************************)
(* hd_rdwt: one turn of its loop per sector                                *)
(***************************************************************************)

\* send_recv(SEND, src, &msg)
Answer == hd' = HdIdle /\ req' = NoReq

\* bytes_left -= SECTOR_SIZE; while (bytes_left > 0)
LoopEnds == hd.left = 1

hd_rdwt ==
  LET base == hd_info.logical[Root].base
  IN  /\ hd.pc = "receive" /\ req.type \in {"read", "write"}
      /\ CmdOut(req.type, base + req.pos, req.n)
      /\ UNCHANGED <<plan, disk, drive, irq, has_int_msg, req, fsbuf, scan, hd_info, clock>>

\* interrupt_wait and port_read.
SectorIsRead ==
  /\ hd.pc = "await" /\ hd.cmd.command = "read" /\ req.type = "read" /\ has_int_msg
  /\ has_int_msg' = FALSE
  /\ fsbuf' = [fsbuf EXCEPT ![req.n - hd.left] = disk[drive.lba]]
  /\ drive' = Moved
  /\ IF LoopEnds THEN Answer ELSE hd' = [hd EXCEPT !.left = @ - 1] /\ UNCHANGED req
  /\ UNCHANGED <<plan, disk, irq, scan, hd_info, clock>>

\* interrupt_wait after port_write.
SectorIsWritten ==
  /\ hd.pc = "await" /\ hd.cmd.command = "write" /\ has_int_msg
  /\ has_int_msg' = FALSE
  /\ IF LoopEnds THEN Answer ELSE hd' = [hd EXCEPT !.pc = "t0", !.left = @ - 1] /\ UNCHANGED req
  /\ UNCHANGED <<plan, disk, drive, irq, fsbuf, scan, hd_info, clock>>

-----------------------------------------------------------------------------
(***************************************************************************)
(* hd_open: the drive is identified, then its partition tables are read    *)
(***************************************************************************)

hd_open ==
  /\ hd.pc = "receive" /\ req.type = "open"
  /\ CmdOut("identify", 0, 1)
  /\ UNCHANGED <<plan, disk, drive, irq, has_int_msg, req, fsbuf, scan, hd_info, clock>>

\* The rest of hd_identify; the first open goes on to partition().
Identified ==
  /\ hd.pc = "await" /\ hd.cmd.command = "identify" /\ has_int_msg
  /\ has_int_msg' = FALSE
  /\ drive' = Moved
  /\ hd_info' = [hd_info EXCEPT !.primary[0] = [base |-> 0, size |-> DRIVE_SIZE], !.open_cnt = @ + 1]
  /\ IF hd_info.open_cnt = 0 THEN CmdOut("read", 0, 1) /\ UNCHANGED req ELSE Answer
  /\ UNCHANGED <<plan, disk, irq, fsbuf, scan, clock>>

\* get_part_table has read the table of the drive.
PrimaryTable ==
  /\ hd.pc = "await" /\ hd.cmd.command = "read" /\ req.type = "open" /\ scan.i = 0 /\ has_int_msg
  /\ has_int_msg' = FALSE
  /\ drive' = Moved
  /\ scan' = [scan EXCEPT !.tbl = TableAt(drive.lba), !.i = 1]
  /\ hd' = [hd EXCEPT !.pc = "partition"]
  /\ UNCHANGED <<plan, disk, irq, req, fsbuf, hd_info, clock>>

\* One turn of the loop over the primary partitions; partition() calls itself
\* for an extended one.
PrimaryEntry ==
  LET e == scan.tbl[scan.i]
  IN  /\ hd.pc = "partition" /\ scan.i <= NR_PART_PER_DRIVE
      /\ hd_info' = IF e.sys = "none" THEN hd_info
                    ELSE [hd_info EXCEPT !.primary[scan.i] = [base |-> e.start, size |-> e.size]]
      /\ IF e.sys = "ext"
         THEN CmdOut("read", e.start, 1) /\ scan' = [scan EXCEPT !.j = scan.i, !.k = 0]
         ELSE scan' = [scan EXCEPT !.i = @ + 1] /\ UNCHANGED hd
      /\ UNCHANGED <<plan, disk, drive, irq, has_int_msg, req, fsbuf, clock>>

\* A mutant of LogicalBase: counted from the extended partition.
LogicalBaseExt(s, j, start) == hd_info.primary[j].base + start

\* s + part_tbl[0].start_sect, and s = ext_start_sect + part_tbl[1].start_sect
LogicalBase(s, j, start) == s + start
NextTable(j, start)      == hd_info.primary[j].base + start

\* One turn of the loop over the logical partitions in one that is extended.
LogicalEntry ==
  LET tbl    == TableAt(drive.lba)
      dev_nr == (scan.j - 1) * NR_SUB_PER_PART + scan.k
      last   == tbl[2].sys = "none" \/ scan.k = NR_SUB_PER_PART - 1
  IN  /\ hd.pc = "await" /\ hd.cmd.command = "read" /\ req.type = "open" /\ scan.i # 0 /\ has_int_msg
      /\ has_int_msg' = FALSE
      /\ drive' = Moved
      /\ hd_info' = [hd_info EXCEPT !.logical[dev_nr] =
                       [base |-> LogicalBase(drive.lba, scan.j, tbl[1].start), size |-> tbl[1].size]]
      /\ IF last
         THEN hd' = [hd EXCEPT !.pc = "partition"] /\ scan' = [scan EXCEPT !.i = @ + 1, !.j = 0, !.k = 0]
         ELSE /\ CmdOut("read", NextTable(scan.j, tbl[2].start), 1)
              /\ scan' = [scan EXCEPT !.k = @ + 1]
      /\ UNCHANGED <<plan, disk, irq, req, fsbuf, clock>>

Partitioned ==
  /\ hd.pc = "partition" /\ scan.i > NR_PART_PER_DRIVE
  /\ scan' = NoScan
  /\ Answer
  /\ UNCHANGED <<plan, disk, drive, irq, has_int_msg, fsbuf, hd_info, clock>>

-----------------------------------------------------------------------------
WaitFor == WaitBegins \/ WaitTests \/ WaitGoesOn \/ CommandGoesOut \/ SectorGoesOut
Open    == hd_open \/ Identified \/ PrimaryTable \/ PrimaryEntry \/ LogicalEntry \/ Partitioned
Rdwt    == hd_rdwt \/ SectorIsRead \/ SectorIsWritten
task_hd == WaitFor \/ Open \/ Rdwt
Drive   == DriveFetch \/ DriveWant \/ DriveStore \/ hd_handler

\* The drive finishes what it is told, its interrupt is handled, and task_hd
\* goes on while it can.
DFairness == WF_dvars(task_hd) /\ WF_dvars(Drive)

-----------------------------------------------------------------------------
(***************************************************************************)
(* Properties                                                              *)
(***************************************************************************)

\* Every interrupt of the drive is one that task_hd is waiting for: none is
\* raised or pending when it talks to task_sys in waitfor(), where the assert of
\* msg_receive (proc.c) would fail, nor when it takes requests, where it would
\* spin on the unknown message; and none is raised before the one before it has
\* been taken.
InterruptsMatched ==
  /\ irq \/ has_int_msg => hd.pc = "await"
  /\ ~(irq /\ has_int_msg)

\* Once the drive is open, hd_info has the partitions that were written to its
\* tables, primary and logical, up to NR_SUB_PER_PART in each extended one.
PartitionsRight ==
  hd.pc = "receive" /\ hd_info.open_cnt > 0 =>
    \A i \in 1 .. NR_PART_PER_DRIVE :
      LET part == plan[i]
      IN  /\ hd_info.primary[i] = IF part.sys = "none" THEN NoPart
                                  ELSE [base |-> part.start, size |-> part.size]
          /\ \A k \in 0 .. NR_SUB_PER_PART - 1 :
               hd_info.logical[(i - 1) * NR_SUB_PER_PART + k] =
                 IF part.sys = "ext" /\ k < Len(part.logical)
                 THEN [base |-> part.logical[k + 1].start, size |-> part.logical[k + 1].size]
                 ELSE NoPart

\* The timeout has passed since waitfor began, or ticks has wrapped to 0.
Late == clock.wrapped \/ clock.waited * MS >= HD_TIMEOUT * HZ

\* A request for at most COUNT sectors is answered, unless the driver panics,
\* and it panics only after the whole timeout or when ticks has wrapped to 0
\* meanwhile.  (cmd.count cannot say more than COUNT sectors: for such a
\* request the driver waits for interrupts that never come.)
RequestsReturn ==
  (req # NoReq /\ req.n <= COUNT) ~> (req = NoReq \/ (hd.pc = "panic" /\ Late))
=============================================================================

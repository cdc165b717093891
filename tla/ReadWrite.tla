----------------------------- MODULE ReadWrite ------------------------------
(***************************************************************************)
(* read() and write() on a regular file (do_rdwt in fs/read_write.c), down *)
(* to the sectors: task_fs moves the bytes between the user's buffer and   *)
(* fsbuf and has the driver of module HardDisk move fsbuf.  It serves one  *)
(* call at a time; which file a descriptor stands for is in module Files.  *)
(*                                                                         *)
(* A byte is a number: on the disk at first its address, in the user's     *)
(* buffer a negative one of its own.                                       *)
(***************************************************************************)
EXTENDS HardDisk, FiniteSetsExt

CONSTANTS
  SECTOR_SIZE,
  FsbufSizes,      \* values of FSBUF_SIZE >> SECTOR_SIZE_SHIFT
  FSBUF_SECTS,     \* a bound on them
  InodeSect,       \* sector of the partition with the file's inode
  FileStart,       \* i_start_sect
  FileSects,       \* i_nr_sects
  Sizes,           \* i_size at first
  Lens,            \* lengths of calls
  MaxCalls         \* number of calls

\* The file system's partition is there.
HasRoot(p) ==
  LET n == Root \div NR_SUB_PER_PART + 1
  IN  /\ n \in DOMAIN p /\ p[n].sys = "ext"
      /\ Root % NR_SUB_PER_PART < Len(p[n].logical)

ASSUME ReadWriteAssumption ==
  /\ {SECTOR_SIZE, FSBUF_SECTS, FileSects} \subseteq Nat \ {0}
  /\ {InodeSect, FileStart} \subseteq Nat /\ InodeSect < FileStart
  /\ Sizes \subseteq 0 .. FileSects * SECTOR_SIZE
  /\ FsbufSizes \subseteq 1 .. FSBUF_SECTS
  /\ Lens \subseteq Nat /\ MaxCalls \in Nat
  /\ Root \in Nat /\ \A p \in Plans : HasRoot(p)

VARIABLES
  fs,       \* where task_fs is, and the variables of do_rdwt
  pos,      \* fd_pos
  i_size,
  geo,      \* what mkfs() learns of the partition
  bufsize,  \* FSBUF_SIZE >> SECTOR_SIZE_SHIFT
  rdwr,     \* fd_mode & O_RDWR
  ubuf,     \* the user's buffer
  calls,    \* number of calls made
  due       \* what the last call should have done

settings   == <<geo, bufsize, rdwr>>
file_state == <<pos, i_size, settings, ubuf, calls, due>>
rwvars     == <<dvars, fs, file_state>>

RootPart == LET n == Root \div NR_SUB_PER_PART
            IN  plan[n + 1].logical[(Root % NR_SUB_PER_PART) + 1]
Addr(s)  == RootPart.start + s

\* The sectors a call can reach: those of the file and fsbuf more.
DataSects == FileStart .. FileStart + FileSects + FSBUF_SECTS
Offsets   == 0 .. SECTOR_SIZE - 1
DataOf(d) == [s \in DataSects |-> d[Addr(s)]]

\* The user's k-th byte in the n-th call.
UserByte(n, k) == 0 - (n * (Max(Lens) + 1) + k + 1)

FsAt(pc) == [pc |-> pc, type |-> "none", len |-> 0, i |-> 0, max |-> 0, chunk |-> 0,
             off |-> 0, rw |-> 0, left |-> 0]
NoDue    == [type |-> "none", len |-> 0, ret |-> 0, inside |-> FALSE,
             size |-> 0, bytes |-> <<>>, data |-> <<>>]

\* A descriptor without O_RDWR is one that has created the file (do_open).
RWInit ==
  /\ DInit
  /\ i_size \in Sizes
  /\ disk = [s \in {Addr(InodeSect)} \cup {Addr(t) : t \in DataSects} |->
               [o \in Offsets |-> IF s = Addr(InodeSect) THEN i_size ELSE s * SECTOR_SIZE + o]]
  /\ req = NoReq
  /\ fsbuf = [b \in 0 .. FSBUF_SECTS - 1 |-> [o \in Offsets |-> 0]]
  /\ fs = FsAt("boot")
  /\ bufsize \in FsbufSizes /\ rdwr \in BOOLEAN
  /\ pos = 0 /\ geo = NoPart /\ ubuf = <<>> /\ calls = 0 /\ due = NoDue

-----------------------------------------------------------------------------
(***************************************************************************)
(* rw_sector, init_fs                                                      *)
(***************************************************************************)

\* send_recv(BOTH, TASK_HD, ...), for n sectors
rw_sector(type, s, n) ==
  /\ req' = [type |-> type, pos |-> s, n |-> n]
  /\ UNCHANGED <<plan, disk, drive, irq, has_int_msg, hd, scan, hd_info, clock>>

\* task_fs is at pc and its request has been answered.
FsGoesOn(pc) == fs.pc = pc /\ req = NoReq

\* init_fs: DEV_OPEN
FsOpens ==
  /\ FsGoesOn("boot")
  /\ rw_sector("open", 0, 1)
  /\ fs' = FsAt("open")
  /\ UNCHANGED <<fsbuf, file_state>>

\* mkfs: DEV_IOCTL, GET_GEO; hd_ioctl answers at once.  What else it writes is
\* the first state of module Files.
FsAsksGeometry ==
  /\ FsGoesOn("open")
  /\ geo' = hd_info.logical[Root]
  /\ fs' = FsAt("idle")
  /\ UNCHANGED <<dvars, pos, i_size, bufsize, rdwr, ubuf, calls, due>>

-----------------------------------------------------------------------------
(***************************************************************************)
(* do_rdwt                                                                 *)
(***************************************************************************)

\* The bytes of the file before the call that are to be read, and the sectors
\* and the size of the file as they should be after it.
FileByte(data, p) == data[FileStart + p \div SECTOR_SIZE][p % SECTOR_SIZE]
Due(type, len) ==
  LET data == DataOf(disk)
      at(s, o) == (s - FileStart) * SECTOR_SIZE + o - pos   \* place in the buffer
      inside   == /\ pos + len <= FileSects * SECTOR_SIZE
                  /\ type = "read" => pos + len <= i_size
  IN  [type |-> type, len |-> len, ret |-> 0, inside |-> inside,
       size |-> IF pos + len > i_size THEN pos + len ELSE i_size,
       bytes |-> IF type = "read" /\ inside
                 THEN [k \in 1 .. len |-> FileByte(data, pos + k - 1)] ELSE <<>>,
       data |-> [s \in DataSects |-> [o \in Offsets |->
                   IF type = "write" /\ at(s, o) \in 0 .. len - 1
                   THEN UserByte(calls + 1, at(s, o)) ELSE data[s][o]]]]

\* The user calls read() or write() on a descriptor without O_RDWR: 0 is
\* returned.
FsRefuses ==
  /\ fs.pc = "idle" /\ calls < MaxCalls /\ ~rdwr
  /\ calls' = calls + 1
  /\ due' = NoDue
  /\ UNCHANGED <<dvars, fs, pos, i_size, settings, ubuf>>

\* The user calls read() or write(); what is computed before the loop.
FsCall(type, len) ==
  LET pos_end == Min({pos + len, IF type = "read" THEN i_size ELSE FileSects * SECTOR_SIZE})
      min     == FileStart + pos \div SECTOR_SIZE
      max     == FileStart + pos_end \div SECTOR_SIZE
  IN  /\ fs.pc = "idle" /\ calls < MaxCalls /\ rdwr
      /\ fs' = [pc |-> "loop", type |-> type, len |-> len, i |-> min, max |-> max,
                chunk |-> Min({max - min + 1, bufsize}),
                off |-> pos % SECTOR_SIZE, rw |-> 0, left |-> len]
      /\ ubuf' = [k \in 1 .. len |-> IF type = "read" THEN 0 ELSE UserByte(calls + 1, k - 1)]
      /\ calls' = calls + 1
      /\ due' = Due(type, len)
      /\ UNCHANGED <<dvars, pos, i_size, settings>>

\* close() and open() again: without O_CREAT, so O_RDWR is asserted.
Reopen ==
  /\ fs.pc = "idle" /\ (pos # 0 \/ ~rdwr)
  /\ pos' = 0 /\ rdwr' = TRUE
  /\ UNCHANGED <<dvars, fs, i_size, geo, bufsize, ubuf, calls, due>>

\* The head of the loop, and the rw_sector(DEV_READ) in it.
LoopReads ==
  /\ fs.pc = "loop" /\ fs.i <= fs.max
  /\ rw_sector("read", fs.i, fs.chunk)
  /\ fs' = [fs EXCEPT !.pc = "read"]
  /\ UNCHANGED <<fsbuf, file_state>>

\* bytes
ChunkBytes == Min({fs.left, fs.chunk * SECTOR_SIZE - fs.off})

\* A mutant of TurnEnds: off stays as it was.
TurnEndsOff ==
  /\ fs' = [fs EXCEPT !.pc = "loop", !.i = @ + fs.chunk,
                      !.rw = @ + ChunkBytes, !.left = @ - ChunkBytes]
  /\ pos' = pos + ChunkBytes

\* The end of a turn.
TurnEnds ==
  /\ fs' = [fs EXCEPT !.pc = "loop", !.i = @ + fs.chunk, !.off = 0,
                      !.rw = @ + ChunkBytes, !.left = @ - ChunkBytes]
  /\ pos' = pos + ChunkBytes

\* READ: from fsbuf to the user.
CopyToUser ==
  /\ FsGoesOn("read") /\ fs.type = "read"
  /\ ubuf' = [k \in DOMAIN ubuf |->
                LET b == fs.off + k - 1 - fs.rw
                IN  IF k \in fs.rw + 1 .. fs.rw + ChunkBytes
                    THEN fsbuf[b \div SECTOR_SIZE][b % SECTOR_SIZE] ELSE ubuf[k]]
  /\ TurnEnds
  /\ UNCHANGED <<dvars, i_size, settings, calls, due>>

\* WRITE: from the user to fsbuf, which goes back to the disk.
CopyFromUser ==
  /\ FsGoesOn("read") /\ fs.type = "write"
  /\ fsbuf' = [n \in DOMAIN fsbuf |-> [o \in Offsets |->
                 LET b == n * SECTOR_SIZE + o
                 IN  IF b \in fs.off .. fs.off + ChunkBytes - 1
                     THEN ubuf[fs.rw + b - fs.off + 1] ELSE fsbuf[n][o]]]
  /\ rw_sector("write", fs.i, fs.chunk)
  /\ fs' = [fs EXCEPT !.pc = "write"]
  /\ UNCHANGED file_state

Written ==
  /\ FsGoesOn("write")
  /\ TurnEnds
  /\ UNCHANGED <<dvars, i_size, settings, ubuf, calls, due>>

\* After the loop: i_size follows fd_pos, and sync_inode reads the inode's
\* sector, changes it and writes it.
FsReturns ==
  /\ fs' = FsAt("idle")
  /\ due' = [due EXCEPT !.ret = fs.rw]

LoopEndsHere ==
  /\ fs.pc = "loop" /\ fs.i > fs.max /\ pos <= i_size
  /\ FsReturns
  /\ UNCHANGED <<dvars, pos, i_size, settings, ubuf, calls>>

SyncReads ==
  /\ fs.pc = "loop" /\ fs.i > fs.max /\ pos > i_size
  /\ i_size' = pos
  /\ rw_sector("read", InodeSect, 1)
  /\ fs' = [fs EXCEPT !.pc = "sync"]
  /\ UNCHANGED <<fsbuf, pos, settings, ubuf, calls, due>>

SyncWrites ==
  /\ FsGoesOn("sync")
  /\ fsbuf' = [fsbuf EXCEPT ![0] = [o \in Offsets |-> i_size]]
  /\ rw_sector("write", InodeSect, 1)
  /\ fs' = [fs EXCEPT !.pc = "synced"]
  /\ UNCHANGED file_state

Synced ==
  /\ FsGoesOn("synced")
  /\ FsReturns
  /\ UNCHANGED <<dvars, pos, i_size, settings, ubuf, calls>>

-----------------------------------------------------------------------------
task_fs ==
  \/ FsOpens \/ FsAsksGeometry
  \/ LoopReads \/ CopyToUser \/ CopyFromUser \/ Written
  \/ LoopEndsHere \/ SyncReads \/ SyncWrites \/ Synced

NoTransfer == FsRefuses \/ Reopen

Others == UNCHANGED <<fs, file_state>>

RWNext ==
  \/ task_fs
  \/ \E type \in {"read", "write"}, len \in Lens : FsCall(type, len)
  \/ NoTransfer
  \/ (task_hd \/ Drive \/ Tick) /\ Others

RWFairness == DFairness /\ WF_rwvars(task_fs)

RWSpec == RWInit /\ [][RWNext]_rwvars /\ RWFairness

-----------------------------------------------------------------------------
(***************************************************************************)
(* Properties                                                              *)
(***************************************************************************)

\* A call that stays inside the file moves exactly its bytes, however it is cut
\* into chunks and padded to sectors: write() changes those of the file and no
\* others in the file's sectors or behind them, read() returns those that were
\* there; both return their length, and the file has grown to the end of what
\* was written and not otherwise.  No read() changes the file's sectors or those
\* behind them.  (One that runs past i_size moves i_size, as write() does, and
\* writes the inode.)  When any call is over, the inode on the disk has the size
\* of the one in memory.
TransferRight ==
  fs.pc = "idle" /\ due # NoDue =>
    /\ due.inside =>
         /\ due.ret = due.len /\ i_size = due.size
         /\ due.type = "read" => ubuf = due.bytes
    /\ due.inside \/ due.type = "read" => DataOf(disk) = due.data
    /\ disk[Addr(InodeSect)][0] = i_size
=============================================================================

--------------------------- MODULE TransferProofs ---------------------------
(***************************************************************************)
(* The proof that do_rdwt of fs/read_write.c moves the bytes it should     *)
(* (TransferRight), for any sizes of files and buffers and any sequence of *)
(* read() and write(), on the facts of DiskProofs about the driver.  The   *)
(* last part has the proofs about Sched.                                   *)
(***************************************************************************)
EXTENDS DiskProofs, Sched

\* A leaf is left to Zenon unless it says SMT (arithmetic, records).
USE Zenon

(***************************************************************************)
(* do_rdwt: which bytes are where                                          *)
(***************************************************************************)

\* Bytes of a call that lie before the file position have been moved.  Where a
\* byte of a sector lies in the user's buffer:
Place(s, o) == (s - FileStart) * SECTOR_SIZE + o - (pos - fs.rw)

\* A byte is as it should be at the end of the call, unless it is one of those
\* to be written from the r-th on.
AsDue(s, o, v, r) ==
  ~(fs.type = "write" /\ Place(s, o) \in r .. fs.len - 1) => v = due.data[s][o]

IsSector(v) == v = [o \in Offsets |-> v[o]]

\* Sectors of the request of task_fs that have been moved.
Progress ==
  IF req = NoReq THEN fs.chunk
  ELSE IF hd.pc = "receive" THEN 0
  ELSE IF hd.pc = "await" /\ hd.cmd.command = "write" THEN req.n - hd.left + 1
  ELSE req.n - hd.left

InLoop  == fs.pc \in {"loop", "read", "write"}
InCall  == InLoop \/ fs.pc \in {"sync", "synced"}
Claimed == fs.type = "read" \/ due.inside

\* The numbers of do_rdwt.
NumbersInv ==
  /\ pos \in Nat /\ fs.len \in Nat /\ fs.rw \in Nat /\ fs.left \in Nat
  /\ fs.type \in {"read", "write"} /\ fs.rw + fs.left = fs.len
  /\ due.type = fs.type /\ due.len = fs.len /\ due.inside \in BOOLEAN
  /\ due # NoDue /\ DOMAIN due = DOMAIN NoDue
  /\ InLoop =>
       /\ fs.chunk <= FSBUF_SECTS
       /\ fs.i >= FileStart /\ fs.off \in Offsets
       /\ fs.left > 0 => (fs.i - FileStart) * SECTOR_SIZE + fs.off = pos
       /\ due.inside \/ fs.type = "write" => fs.max <= FileStart + FileSects
       /\ due.inside => pos + fs.left < (fs.max + 1 - FileStart) * SECTOR_SIZE
       /\ due.inside => due.size = IF pos + fs.left > i_size THEN pos + fs.left ELSE i_size
       /\ fs.pc \in {"read", "write"} => fs.i <= fs.max
       /\ fs.pc = "write" => fs.type = "write"
  /\ ~InLoop /\ due.inside => fs.left = 0 /\ i_size = due.size

\* What should come out, as the call found it.
DueInv ==
  /\ fs.type = "read" => ubuf = [k \in 1 .. fs.len |-> ubuf[k]]
  /\ fs.type = "read" /\ due.inside =>
       /\ due.bytes = [k \in 1 .. fs.len |-> FileByte(due.data, pos - fs.rw + k - 1)]
       /\ \A k \in 1 .. fs.rw : ubuf[k] = due.bytes[k]
  /\ fs.type = "write" =>
       /\ ubuf = [k \in 1 .. fs.len |-> UserByte(calls, k - 1)]
       /\ \A s \in DataSects, o \in Offsets :
            Place(s, o) \in 0 .. fs.len - 1 => due.data[s][o] = UserByte(calls, Place(s, o))
  /\ due.data = [s \in DataSects |-> [o \in Offsets |-> due.data[s][o]]]

\* The bytes on the disk; fsbuf, while the driver fills it from the disk and
\* while it writes it there; the sector of the inode.
DataInv ==
  Claimed => \A s \in DataSects, o \in Offsets :
    AsDue(s, o, disk[Addr(s)][o],
          IF fs.pc = "write" /\ s \in fs.i .. fs.i + Progress - 1 THEN fs.rw + ChunkBytes ELSE fs.rw)
ReadInv ==
  fs.pc = "read" =>
    /\ req # NoReq => req = [type |-> "read", pos |-> fs.i, n |-> fs.chunk]
    /\ \A b \in 0 .. Progress - 1 : fsbuf[b] = disk[Addr(fs.i + b)]
WriteInv ==
  fs.pc = "write" =>
    /\ req # NoReq => req = [type |-> "write", pos |-> fs.i, n |-> fs.chunk]
    /\ \A b \in 0 .. fs.chunk - 1 :
         /\ IsSector(fsbuf[b])
         /\ Claimed => \A o \in Offsets : AsDue(fs.i + b, o, fsbuf[b][o], fs.rw + ChunkBytes)
InodeGone == req = NoReq \/ (hd.pc = "await" /\ hd.cmd.command = "write")
SyncInv ==
  /\ fs.pc = "sync" /\ req # NoReq => req = [type |-> "read", pos |-> InodeSect, n |-> 1]
  /\ fs.pc = "synced" =>
       /\ req # NoReq => req = [type |-> "write", pos |-> InodeSect, n |-> 1]
       /\ fsbuf[0] = [o \in Offsets |-> i_size]
       /\ InodeGone => disk[Addr(InodeSect)][0] = i_size

DiskSectors == {Addr(InodeSect)} \cup {Addr(t) : t \in DataSects}

TransferInv ==
  /\ disk = [s \in DiskSectors |-> disk[s]]
  /\ \A s \in DiskSectors : IsSector(disk[s])
  /\ DOMAIN fsbuf = 0 .. FSBUF_SECTS - 1
  /\ pos \in Nat
  /\ req.type \in {"read", "write"} /\ hd.pc # "receive" => hd.left <= req.n
  /\ fs.pc \notin {"sync", "synced"} => disk[Addr(InodeSect)][0] = i_size
  /\ fs.pc \in {"boot", "open"} => due = NoDue /\ req.type \in {"none", "open"}
  /\ fs.pc = "idle" => TransferRight
  /\ InCall => NumbersInv /\ DueInv /\ DataInv /\ ReadInv /\ WriteInv /\ SyncInv

-----------------------------------------------------------------------------
(***************************************************************************)
(* Arithmetic of sectors and bytes                                         *)
(***************************************************************************)

\* A number of bytes in sectors.
LEMMA DivMod ==
  ASSUME NEW w \in Nat \ {0}, NEW n \in Nat
  PROVE  /\ n \div w \in Nat /\ n % w \in 0 .. w - 1
         /\ n = (n \div w) * w + (n % w)
         /\ n < (n \div w + 1) * w
<1>1. n % w \in 0 .. w - 1 /\ n \div w \in Int /\ n = w * (n \div w) + (n % w)
  BY SMT
<1>2. n \div w >= 0
  BY <1>1, SMT
<1>3. PICK q \in Nat, r \in 0 .. w - 1 : q = n \div w /\ r = n % w /\ n = w * q + r
  BY <1>1, <1>2, SMT
<1>4. n = q * w + r /\ n < (q + 1) * w
  BY <1>3, SMT
<1> QED
  BY <1>3, <1>4

\* ... in one way only.
LEMMA DivModUnique ==
  ASSUME NEW w \in Nat \ {0}, NEW q \in Nat, NEW r \in 0 .. w - 1
  PROVE  (q * w + r) \div w = q /\ (q * w + r) % w = r
<1> DEFINE n == q * w + r
           d == n \div w
           m == n % w
<1>1. n \in Nat
  BY SMT
<1> HIDE DEF n
<1>2. d \in Nat /\ m \in 0 .. w - 1 /\ n = d * w + m
  BY <1>1, DivMod
<1> HIDE DEF d, m
<1>3. d * w + m = q * w + r
  BY <1>2 DEF n
<1>4. d < q => d * w + w <= q * w
  BY <1>2, SMT
<1>5. q < d => q * w + w <= d * w
  BY <1>2, SMT
<1>6. d * w \in Int /\ q * w \in Int
  BY <1>2, SMT
<1>7. d = q
  BY <1>2, <1>3, <1>4, <1>5, <1>6, SMT
<1>8. m = r
  BY <1>2, <1>3, <1>6, <1>7, SMT
<1> QED
  BY <1>7, <1>8 DEF d, m, n

\* A limit in bytes is one in sectors.
LEMMA DivBound ==
  ASSUME NEW w \in Nat \ {0}, NEW n \in Nat, NEW m \in Nat
  PROVE  /\ n <= m * w => n \div w <= m
         /\ n < m * w => n \div w < m
<1> DEFINE q == n \div w
<1>1. q \in Nat /\ \E r \in 0 .. w - 1 : n = q * w + r
  BY DivMod
<1> HIDE DEF q
<1>2. PICK r \in 0 .. w - 1 : n = q * w + r
  BY <1>1
<1>3. q > m => q * w >= m * w + w
  BY <1>1, SMT
<1>4. q = m => q * w = m * w
  OBVIOUS
<1>5. q * w \in Int /\ m * w \in Int
  BY <1>1, SMT
<1> QED
  BY <1>1, <1>2, <1>3, <1>4, <1>5, SMT DEF q

\* The bytes of a chunk of sectors that begins with sector i.
LEMMA ChunkPlaces ==
  ASSUME NEW w \in Nat \ {0}, NEW i \in Int, NEW s \in Int, NEW o \in 0 .. w - 1, NEW off \in 0 .. w - 1,
         NEW chunk \in Int
  PROVE  /\ s < i => (s - i) * w + o - off < 0
         /\ s >= i + chunk => (s - i) * w + o - off >= chunk * w - off
<1>1. s < i => (s - i) * w <= 0 - w
  BY SMT
<1>2. s >= i + chunk => (s - i) * w >= chunk * w
  BY SMT
<1>3. (s - i) * w \in Int /\ chunk * w \in Int
  BY SMT
<1> QED
  BY <1>1, <1>2, <1>3, SMT

-----------------------------------------------------------------------------
(***************************************************************************)
(* The steps of the driver                                                 *)
(***************************************************************************)

\* What the bytes' places are counted from stays while task_fs waits.
LEMMA SamePlaces ==
  ASSUME UNCHANGED <<plan, fs, file_state>>
  PROVE  /\ \A s : Addr(s)' = Addr(s)
         /\ \A s, o, v, r : AsDue(s, o, v, r)' <=> AsDue(s, o, v, r)
         /\ ChunkBytes' = ChunkBytes /\ (Claimed' <=> Claimed) /\ (InCall' <=> InCall) /\ DiskSectors' = DiskSectors
<1>1. \A s : Addr(s)' = Addr(s)
  BY DEF Addr, RootPart
<1>2. \A s, o, v, r : AsDue(s, o, v, r)' <=> AsDue(s, o, v, r)
  BY DEF AsDue, Place, file_state
<1>3. ChunkBytes' = ChunkBytes /\ (Claimed' <=> Claimed) /\ (InCall' <=> InCall)
  BY DEF ChunkBytes, Claimed, InCall, InLoop, file_state
<1>4. DiskSectors' = DiskSectors
  BY <1>1 DEF DiskSectors
<1> QED
  BY <1>1, <1>2, <1>3, <1>4

\* The part of the invariant that the driver cannot disturb.
LEMMA CallKept ==
  ASSUME UNCHANGED <<fs, file_state>>
  PROVE  (NumbersInv' <=> NumbersInv) /\ (DueInv' <=> DueInv)
<1>1. NumbersInv' <=> NumbersInv
  BY DEF NumbersInv, InLoop, file_state
<1>2. DueInv' <=> DueInv
  BY SMT DEF DueInv, FileByte, Place, file_state
<1> QED
  BY <1>1, <1>2

\* A step that moves no sector.
LEMMA TransferKept ==
  ASSUME TransferInv, UNCHANGED <<plan, disk, fsbuf, fs, file_state, req>>, Progress' = Progress,
         req.type \in {"read", "write"} /\ hd'.pc # "receive" => hd'.left <= req.n,
         InodeGone' => InodeGone
  PROVE  TransferInv'
<1> USE SamePlaces
<1>1. /\ disk' = [s \in DiskSectors' |-> disk'[s]] /\ (\A s \in DiskSectors' : IsSector(disk'[s]))
      /\ DOMAIN fsbuf' = 0 .. FSBUF_SECTS - 1 /\ pos' \in Nat
      /\ fs'.pc \notin {"sync", "synced"} => disk'[Addr(InodeSect)'][0] = i_size'
      /\ fs'.pc \in {"boot", "open"} => due' = NoDue /\ req'.type \in {"none", "open"}
  BY DEF TransferInv, file_state
<1>2. fs'.pc = "idle" => TransferRight'
  BY DEF TransferInv, TransferRight, DataOf, file_state
<1>3. CASE InCall
  <2>1. NumbersInv' /\ DueInv'
    BY <1>3, CallKept DEF TransferInv
  <2>2. DataInv'
    BY <1>3 DEF TransferInv, DataInv
  <2>3. ReadInv' /\ WriteInv' /\ SyncInv'
    BY <1>3, SMT DEF TransferInv, ReadInv, WriteInv, SyncInv, IsSector, file_state
  <2> QED
    BY <1>1, <1>2, <2>1, <2>2, <2>3 DEF TransferInv, IsSector
<1> QED
  BY <1>1, <1>2, <1>3 DEF TransferInv, IsSector

\* No sector moves in waitfor and the drive, nor when a request is taken.
LEMMA TransferWaits ==
  ASSUME DiskInv, TransferInv, UNCHANGED <<fs, file_state>>,
         Drive \/ Tick \/ hd_rdwt \/ (WaitFor /\ ~SectorGoesOut)
  PROVE  TransferInv'
<1>1. UNCHANGED <<plan, disk, fsbuf, req>>
  BY DEF WaitFor, WaitBegins, WaitTests, WaitGoesOn, CommandGoesOut, hd_rdwt,
         Drive, DriveFetch, DriveWant, DriveStore, hd_handler, Tick
<1>2. ASSUME Progress' = Progress,
             req.type \in {"read", "write"} /\ hd'.pc # "receive" => hd'.left <= req.n,
             InodeGone' => InodeGone
      PROVE  TransferInv'
  BY <1>1, <1>2, TransferKept
<1>3. CASE Drive \/ Tick
  <2>1. hd' = hd
    BY <1>3 DEF Drive, DriveFetch, DriveWant, DriveStore, hd_handler, Tick
  <2> QED
    BY <1>1, <1>2, <2>1 DEF Progress, InodeGone, TransferInv
<1>4. CASE hd_rdwt
  <2>1. hd.pc = "receive" /\ hd'.pc = "t0" /\ hd'.left = req.n /\ req.n \in Nat /\ req # NoReq
    BY <1>4, Shapes, SMT DEF hd_rdwt, CmdOut, NoReq
  <2>2. Progress = 0 /\ Progress' = 0
    BY <1>1, <2>1, SMT DEF Progress
  <2> QED
    BY <1>1, <1>2, <2>1, <2>2, SMT DEF InodeGone
<1>5. CASE WaitFor /\ ~SectorGoesOut
  <2>1. /\ hd.pc \in WaitPcs /\ hd'.left = hd.left /\ hd'.cmd = hd.cmd
        /\ hd'.pc \in WaitPcs \/ (hd'.pc = "await" /\ hd.cmd.command # "write")
    <3>1. CASE WaitBegins \/ WaitGoesOn
      <4>1. hd.pc \in {"t0", "status"} /\ hd' = [hd EXCEPT !.pc = "elapsed"]
        BY <3>1 DEF WaitBegins, WaitGoesOn
      <4> QED
        BY <4>1, Shapes DEF WaitPcs
    <3>2. CASE WaitTests
      <4>1. PICK v \in {"status", "panic"} :
              v = IF Elapsed(clock.ticks, clock.t) < HD_TIMEOUT THEN "status" ELSE "panic"
        OBVIOUS
      <4>2. hd.pc = "elapsed" /\ hd' = [hd EXCEPT !.pc = v]
        BY <3>2, <4>1 DEF WaitTests
      <4> QED
        BY <4>1, <4>2, Shapes, SMT DEF WaitPcs
    <3>3. CASE CommandGoesOut
      BY <3>3 DEF CommandGoesOut, DiskInv, DiskTypeOK, WaitPcs
    <3> QED
      BY <1>5, <3>1, <3>2, <3>3 DEF WaitFor
  <2>2. hd.pc \notin {"receive", "await"} /\ hd'.pc # "receive" /\ ~(hd'.pc = "await" /\ hd'.cmd.command = "write")
    BY <2>1 DEF WaitPcs
  <2>3. Progress' = Progress
    BY <1>1, <2>1, <2>2 DEF Progress
  <2> QED
    BY <1>1, <1>2, <2>1, <2>2, <2>3 DEF InodeGone, TransferInv
<1> QED
  BY <1>3, <1>4, <1>5

\* The file system is not there before the drive has been opened.
LEMMA TransferOpen ==
  ASSUME DiskInv, PartInv, TransferInv, UNCHANGED <<fs, file_state>>, Open
  PROVE  TransferInv'
<1>1. req.type = "open"
  BY OpenIsServed DEF Open, hd_open, Identified, PrimaryTable, PrimaryEntry, LogicalEntry, Partitioned
<1>2. fs.pc \in {"boot", "open"}
  BY <1>1, Situation DEF Opened
<1>3. UNCHANGED <<plan, disk, fsbuf>> /\ (req' = req \/ req' = NoReq)
  BY DEF Open, hd_open, Identified, PrimaryTable, PrimaryEntry, LogicalEntry, Partitioned, Answer
<1>4. req'.type \in {"none", "open"}
  BY <1>1, <1>3, SMT DEF NoReq
<1>5. ~InCall' /\ fs'.pc # "idle"
  BY <1>2 DEF InCall, InLoop
<1> QED
  BY <1>2, <1>3, <1>4, <1>5, SamePlaces DEF TransferInv, IsSector, file_state

\* The request that the driver serves, and the sector that it moves.
LEMMA Serving ==
  ASSUME DiskInv, SectorInv, PartInv, TransferInv,
         hd.pc \notin {"receive", "partition"}, hd.cmd.command \in {"read", "write"}, req.type # "open"
  PROVE  /\ req # NoReq /\ req.type = hd.cmd.command /\ req.n - hd.left \in 0 .. req.n - 1
         /\ drive.at # "idle" /\ ~(hd.pc = "await" /\ drive.at = "empty") =>
              drive.lba = Addr(req.pos + (req.n - hd.left))
         /\ fs.pc \in {"read", "write", "sync", "synced"}
         /\ fs.pc \in {"read", "sync"} <=> req.type = "read"
<1>1. req # NoReq /\ req.n \in Nat /\ req.pos \in Int /\ hd.left \in Nat /\ hd.left >= 1 /\ fs \in FsType
  BY Shapes DEF DiskInv, RequestInv, DriveInv
<1>2. req.type \in {"read", "write"}
  BY <1>1 DEF DiskInv, DiskTypeOK, RequestInv, PartInv, Unopened, ReadsFirst, Goes, Walks, Scanning, Opened
<1>3. Opened
  BY <1>2, Situation
<1>4. req.type = hd.cmd.command /\ hd.cmd.lba = Addr(req.pos) /\ hd.left <= req.n
  BY <1>2, <1>3 DEF Opened, TransferInv
<1>5. RootPart.start \in Nat
  BY AddrInt DEF PartInv
<1>6. drive.at # "idle" /\ ~(hd.pc = "await" /\ drive.at = "empty") =>
        drive.lba = Addr(req.pos) + (req.n - hd.left)
  BY <1>4 DEF SectorInv, Done
<1>7. Addr(req.pos) + (req.n - hd.left) = Addr(req.pos + (req.n - hd.left))
  BY <1>1, <1>5, SMT DEF Addr
<1>8. fs.pc \in {"read", "write", "sync", "synced"}
  BY <1>1, <1>2 DEF TransferInv, DiskInv, RequestInv, FsType
<1>9. fs.pc \in {"read", "sync"} <=> req.type = "read"
  BY <1>1, <1>8, SMT DEF TransferInv, InCall, InLoop, ReadInv, WriteInv, SyncInv
<1> QED
  BY <1>1, <1>4, <1>6, <1>7, <1>8, <1>9, SMT

\* Addresses of different sectors differ, and the disk has those of the file.
LEMMA Addresses ==
  ASSUME plan \in Plans
  PROVE  /\ \A s, t \in Int : Addr(s) = Addr(t) => s = t
         /\ InodeSect \in Int \ DataSects /\ DataSects \subseteq Int
         /\ Addr(InodeSect) \in DiskSectors /\ \A s \in DataSects : Addr(s) \in DiskSectors
         /\ 0 \in Offsets
<1>1. RootPart.start \in Nat
  BY AddrInt
<1>2. \A s, t \in Int : Addr(s) = Addr(t) => s = t
  BY <1>1, SMT DEF Addr
<1>3. InodeSect \in Int \ DataSects /\ DataSects \subseteq Int /\ 0 \in Offsets
  BY FileConstants, SMT DEF DataSects, Offsets
<1>4. Addr(InodeSect) \in DiskSectors /\ \A s \in DataSects : Addr(s) \in DiskSectors
  BY DEF DiskSectors
<1> QED
  BY <1>2, <1>3, <1>4

\* The sectors of a chunk that is written are ones of the disk.
LEMMA ChunkOnDisk ==
  ASSUME DiskInv, TransferInv, fs.pc = "write"
  PROVE  /\ \A b \in 0 .. fs.chunk - 1 : fs.i + b \in DataSects
         /\ fs.i \in Int /\ fs.chunk \in Int
<1>1. fs.i \in Int /\ fs.chunk \in Int /\ fs.max \in Int
  BY Shapes DEF FsType
<1>2. /\ fs.chunk <= FSBUF_SECTS /\ fs.i >= FileStart /\ fs.i <= fs.max
      /\ fs.max <= FileStart + FileSects
  BY DEF TransferInv, InCall, InLoop, NumbersInv
<1>3. \A b \in 0 .. fs.chunk - 1 : fs.i + b \in DataSects
  BY <1>1, <1>2, FileConstants, SMT DEF DataSects
<1> QED
  BY <1>1, <1>3

\* A sector goes out: one more of the chunk is on the disk, or the inode.
LEMMA TransferGoesOut ==
  ASSUME DiskInv, SectorInv, PartInv, TransferInv, UNCHANGED <<fs, file_state>>, SectorGoesOut
  PROVE  TransferInv'
<1> USE SamePlaces
<1>1. /\ hd.pc = "status" /\ hd.bit = "DRQ" /\ DRQ /\ UNCHANGED <<plan, fsbuf, req>>
      /\ disk' = [disk EXCEPT ![drive.lba] = fsbuf[req.n - hd.left]]
      /\ hd' = [hd EXCEPT !.pc = "await"]
  BY DEF SectorGoesOut
<1>2. hd'.pc = "await" /\ hd'.left = hd.left /\ hd'.cmd = hd.cmd /\ hd.left \in Nat /\ req.n \in Nat
  BY <1>1, Shapes
<1>3. drive.at \in {"full", "empty"} /\ hd.cmd.command = "write"
  BY <1>1 DEF DiskInv, DriveInv, DRQ, WaitPcs
<1>4. /\ req # NoReq /\ req.type = "write" /\ req.n - hd.left \in 0 .. req.n - 1
      /\ drive.lba = Addr(req.pos + (req.n - hd.left))
      /\ fs.pc \in {"write", "synced"}
  <2>1. req.type # "open"
    BY <1>1, <1>3, Situation DEF Opened
  <2> QED
    BY <1>1, <1>3, <2>1, Serving
<1>5. PICK b \in 0 .. req.n - 1 : b = req.n - hd.left
  BY <1>4
<1>6. Progress = b /\ Progress' = b + 1
  BY <1>1, <1>2, <1>3, <1>4, <1>5 DEF Progress
<1>7. plan \in Plans /\ hd'.left <= req.n
  BY <1>2, <1>4, SMT DEF PartInv
<1>8. InCall /\ InCall' /\ NumbersInv' /\ DueInv' /\ fs'.pc = fs.pc
  BY <1>4, CallKept DEF InCall, InLoop, TransferInv
<1>9. /\ disk = [s \in DiskSectors |-> disk[s]] /\ \A s \in DiskSectors : IsSector(disk[s])
      /\ DOMAIN fsbuf' = 0 .. FSBUF_SECTS - 1 /\ pos' \in Nat
  BY <1>1 DEF TransferInv, file_state
<1>10. ASSUME IsSector(fsbuf[b])
       PROVE  disk' = [s \in DiskSectors' |-> disk'[s]] /\ \A s \in DiskSectors' : IsSector(disk'[s])
  <2>1. DiskSectors' = DiskSectors
    BY <1>1
  <2>2. disk' = [s \in DiskSectors |-> IF s = drive.lba THEN fsbuf[b] ELSE disk[s]]
    BY <1>1, <1>5, <1>9
  <2> QED
    BY <1>9, <1>10, <2>1, <2>2 DEF IsSector
<1>11. CASE fs.pc = "write"
  <2>1. /\ req.pos = fs.i /\ req.n = fs.chunk /\ IsSector(fsbuf[b])
        /\ Claimed => \A o \in Offsets : AsDue(fs.i + b, o, fsbuf[b][o], fs.rw + ChunkBytes)
    BY <1>4, <1>8, <1>11, SMT DEF TransferInv, WriteInv
  <2>2. fs.i + b \in DataSects /\ fs.i \in Int
    BY <1>11, <2>1, ChunkOnDisk
  <2>3. \A s \in DataSects : disk'[Addr(s)] = IF s = fs.i + b THEN fsbuf[b] ELSE disk[Addr(s)]
    BY <1>1, <1>4, <1>5, <1>7, <1>9, <2>1, <2>2, Addresses
  <2>4. disk'[Addr(InodeSect)] = disk[Addr(InodeSect)]
    BY <1>1, <1>4, <1>5, <1>7, <1>9, <2>1, <2>2, Addresses
  <2>5. DataInv'
    <3> SUFFICES ASSUME Claimed, NEW s \in DataSects, NEW o \in Offsets
                 PROVE  AsDue(s, o, disk'[Addr(s)][o],
                              IF s \in fs.i .. fs.i + b THEN fs.rw + ChunkBytes ELSE fs.rw)
      BY <1>1, <1>6, <1>8, <1>11, <2>2, SMT DEF DataInv
    <3>1. CASE s = fs.i + b
      BY <2>1, <2>2, <2>3, <3>1, SMT
    <3>2. CASE s # fs.i + b
      <4>1. s \in fs.i .. fs.i + b <=> s \in fs.i .. fs.i + b - 1
        BY <2>2, <3>2, SMT DEF DataSects
      <4>2. AsDue(s, o, disk[Addr(s)][o], IF s \in fs.i .. fs.i + b - 1 THEN fs.rw + ChunkBytes ELSE fs.rw)
        BY <1>6, <1>8, <1>11 DEF TransferInv, DataInv
      <4> QED
        BY <2>3, <3>2, <4>1, <4>2
    <3> QED
      BY <3>1, <3>2
  <2>6. ReadInv' /\ SyncInv'
    BY <1>8, <1>11 DEF ReadInv, SyncInv
  <2>7. WriteInv'
    BY <1>1, <1>8, <1>11 DEF TransferInv, WriteInv, IsSector
  <2>8. disk'[Addr(InodeSect)'][0] = i_size'
    BY <1>1, <1>11, <2>4 DEF TransferInv, file_state
  <2> QED
    BY <1>1, <1>7, <1>8, <1>9, <1>10, <1>11, <2>1, <2>5, <2>6, <2>7, <2>8 DEF TransferInv, IsSector
<1>12. CASE fs.pc = "synced"
  <2>1. req.pos = InodeSect /\ req.n = 1 /\ b = 0 /\ fsbuf[0] = [o \in Offsets |-> i_size]
    BY <1>4, <1>8, <1>12, SMT DEF TransferInv, SyncInv
  <2>2. drive.lba = Addr(InodeSect)
    BY <1>4, <1>5, <2>1, FileConstants, SMT
  <2>3. disk'[Addr(InodeSect)][0] = i_size
    BY <1>1, <1>5, <1>7, <1>9, <2>1, <2>2, Addresses, SMT
  <2>4. \A s \in DataSects : disk'[Addr(s)] = disk[Addr(s)]
    BY <1>1, <1>7, <1>9, <2>2, Addresses
  <2>5. DataInv'
    <3> SUFFICES ASSUME Claimed, NEW s \in DataSects, NEW o \in Offsets
                 PROVE  AsDue(s, o, disk'[Addr(s)][o], fs.rw)
      BY <1>1, <1>8, <1>12 DEF DataInv
    <3> QED
      BY <1>8, <1>12, <2>4 DEF TransferInv, DataInv
  <2>6. ReadInv' /\ WriteInv'
    BY <1>8, <1>12 DEF ReadInv, WriteInv
  <2>7. SyncInv'
    BY <1>1, <1>8, <1>12, <2>3 DEF TransferInv, SyncInv, file_state
  <2>8. IsSector(fsbuf[b])
    BY <2>1 DEF IsSector
  <2> QED
    BY <1>1, <1>7, <1>8, <1>9, <1>10, <1>12, <2>5, <2>6, <2>7, <2>8 DEF TransferInv, IsSector
<1> QED
  BY <1>4, <1>11, <1>12

\* A sector comes in: one more of the chunk is in fsbuf, or the inode's.
LEMMA TransferComesIn ==
  ASSUME DiskInv, SectorInv, PartInv, TransferInv, UNCHANGED <<fs, file_state>>, SectorIsRead
  PROVE  TransferInv'
<1> USE SamePlaces
<1>1. /\ hd.pc = "await" /\ hd.cmd.command = "read" /\ req.type = "read" /\ has_int_msg
      /\ fsbuf' = [fsbuf EXCEPT ![req.n - hd.left] = disk[drive.lba]]
      /\ UNCHANGED <<plan, disk>>
      /\ \/ hd.left = 1 /\ Answer
         \/ hd.left # 1 /\ hd' = [hd EXCEPT !.left = @ - 1] /\ req' = req
  BY DEF SectorIsRead, LoopEnds
<1>2. drive.at = "full"
  BY <1>1 DEF DiskInv, DriveInv, NoInterrupt
<1>3. /\ req # NoReq /\ req.n - hd.left \in 0 .. req.n - 1
      /\ drive.lba = Addr(req.pos + (req.n - hd.left))
      /\ fs.pc \in {"read", "sync"} /\ hd.left \in Nat /\ req.n \in Nat
  BY <1>1, <1>2, Serving, Shapes
<1>4. PICK b \in 0 .. req.n - 1 : b = req.n - hd.left
  BY <1>3
<1>5. /\ \/ hd.left = 1 /\ req' = NoReq /\ hd'.pc = "receive"
         \/ hd'.left = hd.left - 1 /\ hd'.pc = "await" /\ hd'.cmd = hd.cmd /\ req' = req
      /\ hd'.pc # "receive" => hd'.left <= req'.n
  BY <1>1, <1>3, SMT DEF Answer, HdIdle, DiskInv, DiskTypeOK
<1>6. Progress = b /\ (req.n = fs.chunk => Progress' = b + 1)
  BY <1>1, <1>3, <1>4, <1>5, SMT DEF Progress
<1>7. InCall /\ InCall' /\ NumbersInv' /\ DueInv' /\ fs'.pc = fs.pc
  BY <1>3, CallKept DEF InCall, InLoop, TransferInv
<1>8. DataInv'
  <2> SUFFICES ASSUME Claimed, NEW s \in DataSects, NEW o \in Offsets
               PROVE  AsDue(s, o, disk[Addr(s)][o], fs.rw)
    BY <1>1, <1>3, <1>7 DEF DataInv
  <2> QED
    BY <1>3, <1>7 DEF TransferInv, DataInv
<1>9. /\ disk' = [s \in DiskSectors' |-> disk'[s]] /\ \A s \in DiskSectors' : IsSector(disk'[s])
      /\ DOMAIN fsbuf' = 0 .. FSBUF_SECTS - 1 /\ pos' \in Nat
  BY <1>1 DEF TransferInv, file_state
<1>10. WriteInv'
  BY <1>3, <1>7 DEF WriteInv
<1>11. SyncInv'
  BY <1>3, <1>5, <1>7 DEF TransferInv, SyncInv
<1>12. ReadInv'
  <2> SUFFICES ASSUME fs.pc = "read"
               PROVE  /\ req' # NoReq => req' = [type |-> "read", pos |-> fs.i, n |-> fs.chunk]
                      /\ \A c \in 0 .. Progress' - 1 : fsbuf'[c] = disk[Addr(fs.i + c)]
    BY <1>1, <1>7 DEF ReadInv
  <2>1. /\ req = [type |-> "read", pos |-> fs.i, n |-> fs.chunk]
        /\ \A c \in 0 .. Progress - 1 : fsbuf[c] = disk[Addr(fs.i + c)]
        /\ fs.chunk <= FSBUF_SECTS
    BY <1>3, <1>7 DEF TransferInv, ReadInv, NumbersInv, InLoop
  <2>2. req.n = fs.chunk /\ req.pos = fs.i /\ Progress' = b + 1
    BY <1>6, <2>1
  <2>3. b \in DOMAIN fsbuf
    BY <2>1, <2>2, <1>3, FileConstants, SMT DEF TransferInv
  <2>4. fsbuf'[b] = disk[Addr(fs.i + b)] /\ \A c : c # b => fsbuf'[c] = fsbuf[c]
    BY <1>1, <1>3, <1>4, <2>2, <2>3, SMT
  <2> QED
    BY <1>5, <1>6, <2>1, <2>2, <2>4, SMT
<1>13. fs'.pc \notin {"sync", "synced"} => disk'[Addr(InodeSect)'][0] = i_size'
  BY <1>1, <1>7 DEF TransferInv, file_state
<1>14. fs'.pc \notin {"boot", "open", "idle"}
  BY <1>3, <1>7
<1> QED
  BY <1>5, <1>7, <1>8, <1>9, <1>10, <1>11, <1>12, <1>13, <1>14 DEF TransferInv

\* A sector has gone out.
LEMMA TransferIsWritten ==
  ASSUME DiskInv, SectorInv, PartInv, TransferInv, UNCHANGED <<fs, file_state>>, SectorIsWritten
  PROVE  TransferInv'
<1> USE SamePlaces
<1>1. /\ hd.pc = "await" /\ hd.cmd.command = "write" /\ UNCHANGED <<plan, disk, fsbuf>>
      /\ \/ hd.left = 1 /\ Answer
         \/ hd' = [hd EXCEPT !.pc = "t0", !.left = @ - 1] /\ req' = req
  BY DEF SectorIsWritten, LoopEnds
<1>2. /\ req # NoReq /\ req.n - hd.left \in 0 .. req.n - 1 /\ req.type = "write"
      /\ fs.pc \in {"write", "synced"} /\ hd.left \in Nat /\ req.n \in Nat
  <2>1. req.type # "open"
    BY <1>1, Situation DEF Opened
  <2> QED
    BY <1>1, <2>1, Serving, Shapes
<1>3. Progress = req.n - hd.left + 1
  BY <1>1, <1>2 DEF Progress
<1>4. CASE hd' = [hd EXCEPT !.pc = "t0", !.left = @ - 1] /\ req' = req
  <2>1. hd'.pc = "t0" /\ hd'.left = hd.left - 1
    BY <1>4 DEF DiskInv, DiskTypeOK
  <2>2. Progress' = Progress
    BY <1>2, <1>3, <1>4, <2>1, SMT DEF Progress
  <2> QED
    BY <1>1, <1>2, <1>4, <2>1, <2>2, TransferKept, SMT DEF InodeGone
<1>5. CASE hd.left = 1 /\ Answer
  <2>1. req' = NoReq /\ hd'.pc = "receive" /\ InodeGone
    BY <1>1, <1>5 DEF Answer, HdIdle, InodeGone
  <2>2. Progress' = fs.chunk
    BY <2>1 DEF Progress
  <2>3. InCall /\ InCall' /\ NumbersInv' /\ DueInv' /\ fs'.pc = fs.pc
    BY <1>2, CallKept DEF InCall, InLoop, TransferInv
  <2>4. fs.pc = "write" => Progress = fs.chunk
    <3>1. fs.pc = "write" => req.n = fs.chunk
      BY <1>2, <2>3, SMT DEF TransferInv, WriteInv
    <3> QED
      BY <1>2, <1>3, <1>5, <3>1, SMT
  <2>5. DataInv'
    BY <1>1, <2>2, <2>3, <2>4 DEF TransferInv, DataInv
  <2>6. ReadInv' /\ WriteInv' /\ SyncInv'
    BY <1>1, <1>2, <2>1, <2>3 DEF TransferInv, ReadInv, WriteInv, SyncInv, IsSector, file_state
  <2>7. /\ disk' = [s \in DiskSectors' |-> disk'[s]] /\ \A s \in DiskSectors' : IsSector(disk'[s])
        /\ DOMAIN fsbuf' = 0 .. FSBUF_SECTS - 1 /\ pos' \in Nat
        /\ fs'.pc \notin {"sync", "synced"} => disk'[Addr(InodeSect)'][0] = i_size'
    BY <1>1, <2>3 DEF TransferInv, file_state
  <2> QED
    BY <1>2, <2>1, <2>3, <2>5, <2>6, <2>7 DEF TransferInv
<1> QED
  BY <1>1, <1>4, <1>5

-----------------------------------------------------------------------------
(***************************************************************************)
(* The steps of task_fs                                                    *)
(***************************************************************************)

\* Where the sectors are is a matter of the plan alone.
LEMMA SameDisk ==
  ASSUME plan' = plan
  PROVE  (\A s : Addr(s)' = Addr(s)) /\ DiskSectors' = DiskSectors
<1>1. \A s : Addr(s)' = Addr(s)
  BY DEF Addr, RootPart
<1> QED
  BY <1>1 DEF DiskSectors

\* task_fs leaves the disk, and makes a request only when the driver is idle.
LEMMA TransferFs ==
  ASSUME DiskInv, TransferInv, UNCHANGED <<plan, disk, hd>>, DOMAIN fsbuf' = DOMAIN fsbuf, pos' \in Nat,
         req = NoReq, fs'.pc \notin {"boot", "open"},
         fs'.pc \notin {"sync", "synced"} => disk[Addr(InodeSect)][0] = i_size',
         fs'.pc = "idle" => TransferRight',
         InCall' => NumbersInv' /\ DueInv' /\ DataInv' /\ ReadInv' /\ WriteInv' /\ SyncInv'
  PROVE  TransferInv'
<1>1. hd'.pc = "receive"
  BY DEF DiskInv, RequestInv
<1>2. disk' = [s \in DiskSectors' |-> disk'[s]] /\ \A s \in DiskSectors' : IsSector(disk'[s])
  BY SameDisk DEF TransferInv
<1>3. fs'.pc \notin {"sync", "synced"} => disk'[Addr(InodeSect)'][0] = i_size'
  BY SameDisk
<1> QED
  BY <1>1, <1>2, <1>3 DEF TransferInv

\* Inside a call only the place in the code changes.
LEMMA SameCall ==
  ASSUME NEW v, fs \in FsType, fs' = [fs EXCEPT !.pc = v], UNCHANGED <<plan, pos, ubuf, calls, due>>
  PROVE  /\ fs'.pc = v /\ fs'.type = fs.type /\ fs'.len = fs.len /\ fs'.i = fs.i /\ fs'.max = fs.max
         /\ fs'.chunk = fs.chunk /\ fs'.off = fs.off /\ fs'.rw = fs.rw /\ fs'.left = fs.left
         /\ \A s, o, w, r : AsDue(s, o, w, r)' <=> AsDue(s, o, w, r)
         /\ (Claimed' <=> Claimed) /\ (DueInv' <=> DueInv) /\ ChunkBytes' = ChunkBytes
<1>1. /\ fs'.pc = v /\ fs'.type = fs.type /\ fs'.len = fs.len /\ fs'.i = fs.i /\ fs'.max = fs.max
      /\ fs'.chunk = fs.chunk /\ fs'.off = fs.off /\ fs'.rw = fs.rw /\ fs'.left = fs.left
  BY DEF FsType
<1>2. \A s, o : Place(s, o)' = Place(s, o)
  BY <1>1 DEF Place
<1>3. \A s, o, w, r : AsDue(s, o, w, r)' <=> AsDue(s, o, w, r)
  BY <1>1, <1>2 DEF AsDue
<1>4. (Claimed' <=> Claimed) /\ ChunkBytes' = ChunkBytes
  BY <1>1 DEF Claimed, ChunkBytes
<1>5. DueInv' <=> DueInv
  BY <1>1, <1>2, SMT DEF DueInv, FileByte
<1> QED
  BY <1>1, <1>3, <1>4, <1>5

\* Before the first call, and between calls.
LEMMA TransferBoots ==
  ASSUME DiskInv, TransferInv, FsOpens \/ FsAsksGeometry \/ NoTransfer
  PROVE  TransferInv'
<1>1. UNCHANGED <<plan, disk, fsbuf, hd>>
  BY DEF FsOpens, FsAsksGeometry, NoTransfer, FsRefuses, Reopen, rw_sector, dvars
<1>2. CASE FsOpens
  <2>1. fs.pc = "boot" /\ fs'.pc = "open" /\ req'.type = "open" /\ UNCHANGED file_state
    BY <1>2 DEF FsOpens, FsGoesOn, rw_sector, FsAt
  <2>2. ~InCall'
    BY <2>1 DEF InCall, InLoop
  <2> QED
    BY <1>1, <2>1, <2>2, SameDisk DEF TransferInv, IsSector, file_state
<1>3. CASE FsAsksGeometry
  <2>1. fs.pc = "open" /\ fs'.pc = "idle" /\ req = NoReq /\ UNCHANGED <<pos, i_size, due>>
    BY <1>3 DEF FsAsksGeometry, FsGoesOn, FsAt
  <2>2. ~InCall' /\ TransferRight' /\ disk[Addr(InodeSect)][0] = i_size' /\ pos' \in Nat
    BY <2>1 DEF InCall, InLoop, TransferInv, TransferRight
  <2> QED
    BY <1>1, <2>1, <2>2, TransferFs
<1>4. CASE NoTransfer
  <2>1. /\ fs.pc = "idle" /\ fs'.pc = "idle" /\ (pos' = pos \/ pos' = 0)
        /\ UNCHANGED <<i_size, ubuf>> /\ (due' = due \/ due' = NoDue)
    BY <1>4 DEF NoTransfer, FsRefuses, Reopen
  <2>2. req = NoReq
    BY <2>1 DEF DiskInv, RequestInv
  <2>3. TransferRight'
    BY <1>1, <2>1, SameDisk DEF TransferInv, TransferRight, DataOf
  <2>4. ~InCall' /\ disk[Addr(InodeSect)][0] = i_size' /\ pos' \in Nat
    <3>1. 0 \in Nat
      BY SMT
    <3>2. ~InCall' /\ pos' \in Nat
      BY <2>1, <3>1 DEF InCall, InLoop, TransferInv
    <3>3. disk[Addr(InodeSect)][0] = i_size'
      BY <2>1 DEF InCall, InLoop, TransferInv
    <3> QED
      BY <3>2, <3>3
  <2> QED
    BY <1>1, <2>1, <2>2, <2>3, <2>4, TransferFs
<1> QED
  BY <1>2, <1>3, <1>4

\* A turn of the loop begins: its sectors are asked for.
LEMMA TransferReads ==
  ASSUME DiskInv, TransferInv, LoopReads
  PROVE  TransferInv'
<1>1. /\ fs.pc = "loop" /\ fs.i <= fs.max /\ fs' = [fs EXCEPT !.pc = "read"] /\ fs \in FsType
      /\ req' = [type |-> "read", pos |-> fs.i, n |-> fs.chunk]
      /\ UNCHANGED <<plan, disk, hd, fsbuf, pos, i_size, ubuf, calls, due>>
  BY Shapes DEF LoopReads, rw_sector, file_state
<1>2. req = NoReq /\ hd.pc = "receive" /\ InCall /\ pos' \in Nat /\ disk[Addr(InodeSect)][0] = i_size'
  BY <1>1 DEF DiskInv, RequestInv, InCall, InLoop, TransferInv
<1> USE SameCall, SameDisk
<1>3. NumbersInv' /\ DueInv'
  BY <1>1, <1>2 DEF TransferInv, NumbersInv, InLoop
<1>4. DataInv'
  <2> SUFFICES ASSUME Claimed, NEW s \in DataSects, NEW o \in Offsets
               PROVE  AsDue(s, o, disk[Addr(s)][o], fs.rw)
    BY <1>1, SMT DEF DataInv
  <2> QED
    BY <1>1, <1>2 DEF TransferInv, DataInv
<1>5. Progress' = 0
  BY <1>1, <1>2 DEF Progress, NoReq
<1>6. ReadInv' /\ WriteInv' /\ SyncInv'
  BY <1>1, <1>5, SMT DEF ReadInv, WriteInv, SyncInv
<1> QED
  BY <1>1, <1>2, <1>3, <1>4, <1>6, TransferFs

\* A call inside the file does not leave the loop before all is moved.
LEMMA LoopDone ==
  ASSUME DiskInv, TransferInv, fs.pc = "loop", fs.i > fs.max, due.inside
  PROVE  fs.left = 0
<1>1. NumbersInv /\ InLoop
  BY DEF TransferInv, InCall, InLoop
<1>2. fs.i \in Int /\ fs.max \in Int /\ fs.left \in Nat /\ pos \in Nat /\ fs.off \in Nat
  BY <1>1, Shapes, FileConstants, SMT DEF NumbersInv, FsType, Offsets
<1>3. /\ fs.left > 0 => (fs.i - FileStart) * SECTOR_SIZE + fs.off = pos
      /\ pos + fs.left < (fs.max + 1 - FileStart) * SECTOR_SIZE
  BY <1>1 DEF NumbersInv
<1>4. (fs.max + 1 - FileStart) * SECTOR_SIZE <= (fs.i - FileStart) * SECTOR_SIZE
  <2>1. PICK a \in Int, b \in Int, w \in Nat : /\ a = fs.max + 1 - FileStart /\ b = fs.i - FileStart
                                               /\ w = SECTOR_SIZE /\ a <= b
    BY <1>2, FileConstants, SMT
  <2>2. a * w <= b * w
    BY <2>1, SMT
  <2> QED
    BY <2>1, <2>2
<1>5. (fs.max + 1 - FileStart) * SECTOR_SIZE \in Int /\ (fs.i - FileStart) * SECTOR_SIZE \in Int
  BY <1>2, FileConstants, SMT
<1> QED
  BY <1>2, <1>3, <1>4, <1>5, SMT

\* ... and the file has the size it should have, if i_size follows fd_pos.
LEMMA SizeDone ==
  ASSUME DiskInv, TransferInv, fs.pc = "loop", fs.i > fs.max, due.inside
  PROVE  due.size = IF pos > i_size THEN pos ELSE i_size
<1>1. fs.left = 0 /\ NumbersInv /\ InLoop
  BY LoopDone DEF TransferInv, InCall, InLoop
<1>2. pos + fs.left = pos
  BY <1>1, SMT DEF NumbersInv
<1> QED
  BY <1>1, <1>2 DEF NumbersInv

\* What is on the disk when all is moved, or nothing is to be written.
LEMMA DataDone ==
  ASSUME DiskInv, TransferInv, InCall, fs.pc # "write", due.inside => fs.left = 0, Claimed, plan \in Plans
  PROVE  DataOf(disk) = due.data
<1>1. NumbersInv /\ DueInv /\ DataInv
  BY DEF TransferInv
<1>2. fs.type = "read" \/ fs.rw = fs.len
  BY <1>1, SMT DEF NumbersInv, Claimed
<1>3. fs.rw \in Int /\ fs.len \in Int
  BY <1>1, SMT DEF NumbersInv
<1>4. \A s \in DataSects, o \in Offsets : disk[Addr(s)][o] = due.data[s][o]
  <2> TAKE s \in DataSects, o \in Offsets
  <2>1. AsDue(s, o, disk[Addr(s)][o], fs.rw)
    BY <1>1 DEF DataInv
  <2>2. ~(fs.type = "write" /\ Place(s, o) \in fs.rw .. fs.len - 1)
    BY <1>2, <1>3, SMT
  <2> QED
    BY <2>1, <2>2 DEF AsDue
<1>5. \A s \in DataSects : disk[Addr(s)] = [o \in Offsets |-> disk[Addr(s)][o]]
  BY Addresses DEF TransferInv, IsSector
<1>6. DataOf(disk) = [s \in DataSects |-> [o \in Offsets |-> due.data[s][o]]]
  BY <1>4, <1>5 DEF DataOf
<1> QED
  BY <1>1, <1>6 DEF DueInv

\* The end of a call.
LEMMA TransferReturns ==
  ASSUME DiskInv, TransferInv, plan \in Plans, LoopEndsHere \/ Synced
  PROVE  TransferInv'
<1>1. /\ fs.pc \in {"loop", "synced"} /\ fs'.pc = "idle" /\ due' = [due EXCEPT !.ret = fs.rw]
      /\ UNCHANGED <<plan, disk, hd, fsbuf, pos, i_size, ubuf>>
  BY SMT DEF LoopEndsHere, Synced, FsGoesOn, FsReturns, FsAt, dvars
<1>2. req = NoReq
  BY DEF LoopEndsHere, Synced, FsGoesOn, DiskInv, RequestInv
<1>3. InCall /\ NumbersInv /\ DueInv /\ SyncInv
  BY <1>1 DEF TransferInv, InCall, InLoop
<1>4. due.inside => fs.left = 0
  BY <1>1, <1>3, LoopDone DEF LoopEndsHere, Synced, FsGoesOn, NumbersInv, InLoop
<1>5. disk[Addr(InodeSect)][0] = i_size
  BY <1>1, <1>2, <1>3 DEF TransferInv, SyncInv, InodeGone
<1>6. due.inside => i_size = due.size
  <2>1. CASE LoopEndsHere
    <3>1. fs.pc = "loop" /\ fs.i > fs.max /\ pos <= i_size /\ ~(pos > i_size)
      BY <2>1, SMT DEF LoopEndsHere, DiskInv, DiskTypeOK
    <3> QED
      BY <3>1, SizeDone
  <2>2. CASE Synced
    BY <1>3, <2>2 DEF Synced, FsGoesOn, NumbersInv, InLoop
  <2> QED
    BY <2>1, <2>2
<1>7. /\ due'.type = due.type /\ due'.len = due.len /\ due'.inside = due.inside /\ due'.bytes = due.bytes
      /\ due'.data = due.data /\ due'.size = due.size /\ due'.ret = fs.rw
  <2>1. DOMAIN due = {"type", "len", "ret", "inside", "size", "bytes", "data"}
    BY <1>3 DEF NumbersInv, NoDue
  <2> QED
    BY <1>1, <2>1
<1>8. TransferRight'
  <2>1. due.inside => fs.rw = due.len
    BY <1>3, <1>4, SMT DEF NumbersInv
  <2>2. due.inside /\ due.type = "read" => ubuf = due.bytes
    BY <1>3, <1>4, SMT DEF NumbersInv, DueInv
  <2>3. due.inside \/ due.type = "read" => DataOf(disk) = due.data
    BY <1>1, <1>3, <1>4, DataDone DEF Claimed, NumbersInv
  <2>4. DataOf(disk)' = DataOf(disk) /\ disk'[Addr(InodeSect)'][0] = i_size'
    BY <1>1, <1>5, SameDisk DEF DataOf
  <2> QED
    BY <1>1, <1>7, <1>6, <2>1, <2>2, <2>3, <2>4 DEF TransferRight
<1>9. ~InCall' /\ pos' \in Nat
  BY <1>1 DEF InCall, InLoop, TransferInv
<1> QED
  BY <1>1, <1>2, <1>5, <1>8, <1>9, TransferFs

\* sync_inode: the inode's sector is read, changed and written.
LEMMA TransferSyncs ==
  ASSUME DiskInv, TransferInv, SyncReads \/ SyncWrites
  PROVE  TransferInv'
<1> USE SameCall, SameDisk
<1>1. /\ UNCHANGED <<plan, disk, hd, pos, ubuf, calls, due>> /\ fs \in FsType
      /\ \/ /\ fs.pc = "loop" /\ fs.i > fs.max /\ fs' = [fs EXCEPT !.pc = "sync"] /\ fsbuf' = fsbuf
            /\ req' = [type |-> "read", pos |-> InodeSect, n |-> 1]
         \/ /\ fs.pc = "sync" /\ fs' = [fs EXCEPT !.pc = "synced"] /\ i_size' = i_size
            /\ req' = [type |-> "write", pos |-> InodeSect, n |-> 1]
            /\ fsbuf' = [fsbuf EXCEPT ![0] = [o \in Offsets |-> i_size]]
  BY Shapes DEF SyncReads, SyncWrites, FsGoesOn, rw_sector, file_state
<1>2. req = NoReq /\ hd.pc = "receive"
  BY <1>1 DEF SyncReads, SyncWrites, FsGoesOn, DiskInv, RequestInv
<1>3. InCall /\ NumbersInv /\ DueInv /\ pos' \in Nat
  BY <1>1 DEF TransferInv, InCall, InLoop
<1>4. fs'.pc \in {"sync", "synced"}
  BY <1>1
<1>5. due.inside => fs.left = 0
  BY <1>1, <1>3, LoopDone DEF NumbersInv, InLoop
<1>6. due.inside => i_size' = due.size
  <2>1. CASE SyncReads
    <3>1. fs.pc = "loop" /\ fs.i > fs.max /\ pos > i_size /\ i_size' = pos
      BY <2>1 DEF SyncReads
    <3> QED
      BY <3>1, SizeDone
  <2>2. CASE SyncWrites
    BY <1>3, <2>2 DEF SyncWrites, FsGoesOn, NumbersInv, InLoop, file_state
  <2> QED
    BY <2>1, <2>2
<1>7. NumbersInv' /\ DueInv'
  BY <1>1, <1>3, <1>4, <1>5, <1>6 DEF NumbersInv, InLoop
<1>8. DataInv'
  <2> SUFFICES ASSUME Claimed, NEW s \in DataSects, NEW o \in Offsets
               PROVE  AsDue(s, o, disk[Addr(s)][o], fs.rw)
    BY <1>1, <1>4 DEF DataInv
  <2> QED
    BY <1>1, <1>3 DEF TransferInv, DataInv
<1>9. ReadInv' /\ WriteInv'
  BY <1>4 DEF ReadInv, WriteInv
<1>10. SyncInv'
  <2>1. ~InodeGone' /\ (fs'.pc = "sync" => req' = [type |-> "read", pos |-> InodeSect, n |-> 1])
        /\ (fs'.pc = "synced" => req' = [type |-> "write", pos |-> InodeSect, n |-> 1])
    BY <1>1, <1>2, SMT DEF InodeGone, NoReq
  <2>2. fs'.pc = "synced" => fsbuf'[0] = [o \in Offsets |-> i_size']
    <3>1. 0 \in DOMAIN fsbuf
      BY FileConstants, SMT DEF TransferInv
    <3>2. fs'.pc = "synced" =>
            i_size' = i_size /\ fsbuf' = [fsbuf EXCEPT ![0] = [o \in Offsets |-> i_size]]
      BY <1>1
    <3> QED
      BY <3>1, <3>2
  <2> QED
    BY <2>1, <2>2 DEF SyncInv
<1> QED
  BY <1>1, <1>2, <1>3, <1>4, <1>7, <1>8, <1>9, <1>10, TransferFs

\* The numbers of a turn: its bytes end with the chunk, unless they are the last.
LEMMA TurnNumbers ==
  ASSUME DiskInv, TransferInv, fs.pc \in {"read", "write"}
  PROVE  /\ ChunkBytes \in 0 .. fs.left /\ ChunkBytes <= fs.chunk * SECTOR_SIZE - fs.off
         /\ fs.left > ChunkBytes => ChunkBytes = fs.chunk * SECTOR_SIZE - fs.off
         /\ {pos, fs.len, fs.rw, fs.left} \subseteq Nat /\ fs.rw + fs.left = fs.len
         /\ fs.chunk \in 1 .. FSBUF_SECTS /\ fs.off \in Offsets /\ fs.i \in Int /\ fs.i >= FileStart
         /\ fs.left > 0 => (fs.i - FileStart) * SECTOR_SIZE + fs.off = pos
         /\ due.inside \/ fs.type = "write" =>
              \A b \in 0 .. fs.chunk - 1 : fs.i + b \in DataSects
         /\ DataInv /\ DueInv /\ fs.type \in {"read", "write"}
<1>1. InCall /\ InLoop /\ NumbersInv /\ DataInv /\ DueInv
  BY DEF TransferInv, InCall, InLoop
<1>2. fs.chunk >= 1 /\ fs.chunk \in Int /\ fs.i \in Int /\ fs.max \in Int
  BY Shapes DEF DiskInv, RequestInv, FsType
<1>3. /\ {pos, fs.len, fs.rw, fs.left} \subseteq Nat /\ fs.rw + fs.left = fs.len
      /\ fs.chunk \in 1 .. FSBUF_SECTS /\ fs.off \in Offsets /\ fs.i >= FileStart
      /\ fs.left > 0 => (fs.i - FileStart) * SECTOR_SIZE + fs.off = pos
      /\ fs.type \in {"read", "write"} /\ fs.i <= fs.max
      /\ due.inside \/ fs.type = "write" => fs.max <= FileStart + FileSects
  BY <1>1, <1>2, FileConstants, SMT DEF NumbersInv
<1>4. fs.chunk * SECTOR_SIZE - fs.off \in Nat
  <2>1. PICK c \in Nat, w \in Nat, o \in Nat : c = fs.chunk /\ w = SECTOR_SIZE /\ o = fs.off /\ c >= 1 /\ o < w
    <3>1. fs.off \in Nat /\ fs.off < SECTOR_SIZE /\ fs.chunk \in Nat
      BY <1>2, <1>3, FileConstants, SMT DEF Offsets
    <3> QED
      BY <1>2, <3>1, FileConstants
  <2>2. c * w >= w
    BY <2>1, SMT
  <2>3. c * w \in Nat
    BY SMT
  <2>4. c * w - o \in Nat
    BY <2>1, <2>2, <2>3, SMT
  <2> QED
    BY <2>1, <2>4
<1>5. PICK m \in Nat : m = fs.chunk * SECTOR_SIZE - fs.off
  BY <1>4
<1>6. ChunkBytes = IF fs.left <= m THEN fs.left ELSE m
  BY <1>3, <1>5, MinOfTwo, SMT DEF ChunkBytes
<1>7. /\ ChunkBytes \in 0 .. fs.left /\ ChunkBytes <= m
      /\ fs.left > ChunkBytes => ChunkBytes = m
  BY <1>3, <1>5, <1>6, SMT
<1>8. due.inside \/ fs.type = "write" => \A b \in 0 .. fs.chunk - 1 : fs.i + b \in DataSects
  BY <1>2, <1>3, FileConstants, SMT DEF DataSects
<1> QED
  BY <1>1, <1>2, <1>3, <1>5, <1>7, <1>8

\* Where a byte of the chunk lies in the user's buffer.
LEMMA TurnPlace ==
  ASSUME DiskInv, TransferInv, fs.pc \in {"read", "write"}, fs.left > 0, NEW s \in Int, NEW o \in Offsets
  PROVE  Place(s, o) = (s - fs.i) * SECTOR_SIZE + o - fs.off + fs.rw
<1>1. PICK w \in Nat : w = SECTOR_SIZE
  BY FileConstants
<1>2. PICK a \in Int, b \in Int : a = s - fs.i /\ b = fs.i - FileStart
  BY TurnNumbers, FileConstants, SMT
<1>3. s - FileStart = a + b
  BY <1>2, TurnNumbers, FileConstants, SMT
<1>4. (a + b) * w = a * w + b * w
  BY SMT
<1>5. pos = b * w + fs.off /\ {pos, fs.rw, fs.off, o} \subseteq Int /\ a * w \in Int /\ b * w \in Int
  BY <1>1, <1>2, TurnNumbers, FileConstants, SMT DEF Offsets
<1>6. (a + b) * w + o - (pos - fs.rw) = a * w + o - fs.off + fs.rw
  BY <1>4, <1>5, SMT
<1> QED
  BY <1>1, <1>2, <1>3, <1>6 DEF Place

\* The end of a turn: the same bytes are due, from further on.
LEMMA TurnEndsRight ==
  ASSUME DiskInv, TransferInv, fs.pc \in {"read", "write"}, TurnEnds, UNCHANGED <<plan, i_size, calls, due>>
  PROVE  /\ fs'.pc = "loop" /\ fs'.type = fs.type /\ fs'.len = fs.len /\ fs'.rw = fs.rw + ChunkBytes
         /\ pos' \in Nat /\ pos' - fs'.rw = pos - fs.rw
         /\ NumbersInv' /\ \A s, o : Place(s, o)' = Place(s, o)
         /\ \A s, o, v, r : AsDue(s, o, v, r)' <=> AsDue(s, o, v, r)
         /\ (Claimed' <=> Claimed)
<1>1. /\ fs'.pc = "loop" /\ fs'.type = fs.type /\ fs'.len = fs.len /\ fs'.rw = fs.rw + ChunkBytes
      /\ fs'.left = fs.left - ChunkBytes /\ fs'.i = fs.i + fs.chunk /\ fs'.max = fs.max /\ fs'.off = 0
      /\ fs'.chunk = fs.chunk /\ pos' = pos + ChunkBytes
  BY Shapes DEF TurnEnds, FsType
<1>2. PICK n \in Nat : n = ChunkBytes
  BY TurnNumbers, SMT
<1>3. /\ pos' \in Nat /\ fs'.rw \in Nat /\ fs'.left \in Nat /\ fs'.rw + fs'.left = fs'.len
      /\ pos' - fs'.rw = pos - fs.rw /\ pos' + fs'.left = pos + fs.left
  BY <1>1, <1>2, TurnNumbers, SMT
<1>4. \A s, o : Place(s, o)' = Place(s, o)
  BY <1>3 DEF Place
<1>5. (\A s, o, v, r : AsDue(s, o, v, r)' <=> AsDue(s, o, v, r)) /\ (Claimed' <=> Claimed)
  BY <1>1, <1>4 DEF AsDue, Claimed
<1>6. fs'.left > 0 => (fs'.i - FileStart) * SECTOR_SIZE + fs'.off = pos'
  <2> SUFFICES ASSUME fs.left > n
               PROVE  (fs.i + fs.chunk - FileStart) * SECTOR_SIZE = pos + n
    BY <1>1, <1>2, TurnNumbers, FileConstants, SMT
  <2>1. PICK w \in Nat : w = SECTOR_SIZE
    BY FileConstants
  <2>2. PICK b \in Int, c \in Int : b = fs.i - FileStart /\ c = fs.chunk
    BY TurnNumbers, FileConstants, SMT
  <2>3. fs.i + fs.chunk - FileStart = b + c
    BY <2>2, TurnNumbers, FileConstants, SMT
  <2>4. (b + c) * w = b * w + c * w /\ b * w \in Int /\ c * w \in Int
    BY SMT
  <2>5. fs.off \in Int /\ pos = b * w + fs.off /\ n = c * w - fs.off
    BY <1>2, <2>1, <2>2, TurnNumbers, FileConstants, SMT DEF Offsets
  <2> QED
    BY <2>1, <2>3, <2>4, <2>5, SMT
<1>7. 0 \in Offsets /\ fs.i + fs.chunk >= FileStart
  BY TurnNumbers, FileConstants, SMT DEF Offsets
<1>8. NumbersInv /\ InLoop /\ InLoop'
  BY <1>1 DEF TransferInv, InCall, InLoop
<1>9. NumbersInv'
  BY <1>1, <1>3, <1>6, <1>7, <1>8 DEF NumbersInv
<1> QED
  BY <1>1, <1>3, <1>4, <1>5, <1>9

\* A turn of the loop moves no sector of the disk.
LEMMA TransferTurn ==
  ASSUME DiskInv, TransferInv, fs.pc \in {"read", "write"}, req = NoReq, TurnEnds,
         UNCHANGED <<plan, disk, hd, fsbuf, i_size, calls, due>>, DueInv',
         Claimed => \A s \in DataSects, o \in Offsets :
                      AsDue(s, o, disk[Addr(s)][o], fs.rw + ChunkBytes)
  PROVE  TransferInv'
<1>1. /\ fs'.pc = "loop" /\ fs'.rw = fs.rw + ChunkBytes /\ pos' \in Nat /\ NumbersInv'
      /\ \A s, o, v, r : AsDue(s, o, v, r)' <=> AsDue(s, o, v, r)
      /\ (Claimed' <=> Claimed)
  BY TurnEndsRight
<1>2. DataInv'
  <2> SUFFICES ASSUME Claimed, NEW s \in DataSects, NEW o \in Offsets
               PROVE  AsDue(s, o, disk[Addr(s)][o], fs.rw + ChunkBytes)
    BY <1>1, SameDisk DEF DataInv
  <2> QED
    OBVIOUS
<1>3. ReadInv' /\ WriteInv' /\ SyncInv'
  BY <1>1 DEF ReadInv, WriteInv, SyncInv
<1>4. disk[Addr(InodeSect)][0] = i_size'
  BY DEF TransferInv
<1> QED
  BY <1>1, <1>2, <1>3, <1>4, TransferFs

\* A byte that is copied to the user is the one of the file.
LEMMA BytesRead ==
  ASSUME DiskInv, TransferInv, CopyToUser, due.inside, NEW k \in fs.rw + 1 .. fs.rw + ChunkBytes
  PROVE  k \in 1 .. fs.len /\ ubuf'[k] = due.bytes[k]
<1>1. fs.pc = "read" /\ req = NoReq /\ fs.type = "read" /\ fs.pc \in {"read", "write"}
  BY DEF CopyToUser, FsGoesOn
<1> USE TurnNumbers
<1>2. k \in 1 .. fs.len /\ fs.left > 0 /\ k \in Int /\ fs.off \in Nat
  BY <1>1, FileConstants, SMT DEF Offsets
<1>3. PICK b \in Nat : b = fs.off + k - 1 - fs.rw /\ b < fs.chunk * SECTOR_SIZE
  <2>1. fs.off + k - 1 - fs.rw \in Nat
    BY <1>1, <1>2, SMT
  <2>2. fs.chunk * SECTOR_SIZE \in Int
    BY <1>1, FileConstants, SMT
  <2>3. fs.off + k - 1 - fs.rw < fs.chunk * SECTOR_SIZE
    BY <1>1, <1>2, <2>2, SMT
  <2> QED
    BY <2>1, <2>3
<1>4. PICK w \in Nat \ {0} : w = SECTOR_SIZE
  BY FileConstants
<1>5. PICK q \in Nat, r \in 0 .. w - 1 : q = b \div w /\ r = b % w /\ b = q * w + r
  <2>1. b \div w \in Nat /\ b % w \in 0 .. w - 1 /\ b = (b \div w) * w + (b % w)
    BY DivMod
  <2> QED
    BY <2>1
<1>6. q \in 0 .. fs.chunk - 1 /\ r \in Offsets
  <2>1. PICK c \in Nat : c = fs.chunk
    BY <1>1, FileConstants, SMT
  <2>2. q < c
    BY <1>3, <1>4, <1>5, <2>1, DivBound
  <2> QED
    BY <1>4, <2>1, <2>2, SMT DEF Offsets
<1>7. fsbuf[q] = disk[Addr(fs.i + q)]
  <2>1. Progress = fs.chunk /\ ReadInv
    BY <1>1 DEF Progress, TransferInv, InCall, InLoop
  <2> QED
    BY <1>1, <1>6, <2>1 DEF ReadInv
<1>8. ubuf'[k] = disk[Addr(fs.i + q)][r]
  <2>1. ubuf = [m \in 1 .. fs.len |-> ubuf[m]]
    BY <1>1 DEF DueInv
  <2>2. k \in DOMAIN ubuf
    BY <1>2, <2>1
  <2>3. ubuf'[k] = LET c == fs.off + k - 1 - fs.rw IN fsbuf[c \div SECTOR_SIZE][c % SECTOR_SIZE]
    BY <2>2 DEF CopyToUser
  <2> QED
    BY <1>3, <1>4, <1>5, <1>7, <2>3
<1>9. disk[Addr(fs.i + q)][r] = due.data[fs.i + q][r]
  <2>1. fs.i + q \in DataSects
    BY <1>1, <1>6
  <2>2. AsDue(fs.i + q, r, disk[Addr(fs.i + q)][r], fs.rw)
    BY <1>1, <1>6, <2>1 DEF DataInv, Claimed
  <2> QED
    BY <1>1, <2>2 DEF AsDue
<1>10. due.bytes[k] = due.data[fs.i + q][r]
  <2>1. due.bytes[k] = FileByte(due.data, pos - fs.rw + k - 1)
    BY <1>1, <1>2, SMT DEF DueInv
  <2>2. PICK a \in Nat : a = fs.i - FileStart
    BY <1>1, FileConstants, SMT
  <2>3. pos = a * w + fs.off /\ a * w \in Int /\ q * w \in Int /\ r \in Int
    BY <1>1, <1>2, <1>4, <2>2, SMT
  <2>4. pos - fs.rw + k - 1 = (a + q) * w + r
    <3>1. (a + q) * w = a * w + q * w
      BY SMT
    <3>2. pos - fs.rw + k - 1 = a * w + (fs.off + k - 1 - fs.rw)
      BY <1>1, <1>2, <2>3, SMT
    <3>3. fs.off + k - 1 - fs.rw = q * w + r
      BY <1>3, <1>5
    <3> QED
      BY <2>3, <3>1, <3>2, <3>3, SMT
  <2>5. PICK p \in Nat : p = a + q /\ FileStart + p = fs.i + q
    BY <1>1, <2>2, FileConstants, SMT
  <2>6. (p * w + r) \div w = p /\ (p * w + r) % w = r
    BY DivModUnique
  <2> QED
    BY <1>4, <2>1, <2>4, <2>5, <2>6 DEF FileByte
<1> QED
  BY <1>2, <1>8, <1>9, <1>10

\* read(): a chunk is copied to the user.
LEMMA TransferToUser ==
  ASSUME DiskInv, TransferInv, CopyToUser
  PROVE  TransferInv'
<1>1. /\ fs.pc \in {"read", "write"} /\ fs.pc = "read" /\ req = NoReq /\ fs.type = "read" /\ TurnEnds
      /\ UNCHANGED <<plan, disk, hd, fsbuf, i_size, calls, due>>
  BY DEF CopyToUser, FsGoesOn, dvars
<1>2. DataInv /\ DueInv /\ fs.rw \in Int /\ ChunkBytes \in Nat
  BY <1>1, TurnNumbers, SMT
<1>3. \A s \in DataSects, o \in Offsets : AsDue(s, o, disk[Addr(s)][o], fs.rw + ChunkBytes)
  BY <1>1, <1>2 DEF DataInv, AsDue, Claimed
<1>4. DueInv'
  <2>1. fs'.type = "read" /\ fs'.len = fs.len /\ fs'.rw = fs.rw + ChunkBytes /\ pos' - fs'.rw = pos - fs.rw
    BY <1>1, TurnEndsRight
  <2>2. ubuf' = [k \in 1 .. fs.len |-> ubuf'[k]]
    <3>1. DOMAIN ubuf = 1 .. fs.len
      BY <1>1, <1>2 DEF DueInv
    <3> QED
      BY <3>1 DEF CopyToUser
  <2>3. ASSUME due.inside, NEW k \in 1 .. fs'.rw PROVE ubuf'[k] = due.bytes[k]
    <3>1. CASE k \in 1 .. fs.rw
      <4>1. k \in 1 .. fs.len /\ k \notin fs.rw + 1 .. fs.rw + ChunkBytes
        BY <1>1, <3>1, TurnNumbers, SMT
      <4>2. ubuf'[k] = ubuf[k]
        BY <1>1, <1>2, <4>1 DEF CopyToUser, DueInv
      <4> QED
        BY <1>1, <1>2, <2>3, <3>1, <4>2 DEF DueInv
    <3>2. CASE k \in fs.rw + 1 .. fs.rw + ChunkBytes
      BY <2>3, <3>2, BytesRead
    <3> QED
      BY <1>2, <2>1, <3>1, <3>2, SMT
  <2> QED
    BY <1>1, <1>2, <2>1, <2>2, <2>3 DEF DueInv
<1> QED
  BY <1>1, <1>3, <1>4, TransferTurn

\* A byte of fsbuf that goes back to the disk is the user's, or the old one.
LEMMA BytesWritten ==
  ASSUME DiskInv, TransferInv, CopyFromUser, Claimed, NEW b \in 0 .. fs.chunk - 1, NEW o \in Offsets
  PROVE  AsDue(fs.i + b, o, fsbuf'[b][o], fs.rw + ChunkBytes)
<1>1. fs.pc = "read" /\ req = NoReq /\ fs.type = "write" /\ fs.pc \in {"read", "write"}
  BY DEF CopyFromUser, FsGoesOn
<1> DEFINE s == fs.i + b
           c == b * SECTOR_SIZE + o
<1>2. s \in DataSects /\ s \in Int /\ b \in DOMAIN fsbuf
  <2>1. fs.i + b \in DataSects /\ fs.i \in Int /\ fs.chunk \in 1 .. FSBUF_SECTS
    BY <1>1, TurnNumbers
  <2>2. DOMAIN fsbuf = 0 .. FSBUF_SECTS - 1
    BY DEF TransferInv
  <2> QED
    BY <2>1, <2>2, FileConstants, SMT
<1>3. c \in Int /\ fs.off \in Int /\ {fs.rw, fs.len, fs.left, ChunkBytes} \subseteq Int
  BY <1>1, TurnNumbers, FileConstants, SMT DEF Offsets
<1>4. fs.left > 0 => Place(s, o) = c - fs.off + fs.rw
  <2> SUFFICES ASSUME fs.left > 0 PROVE Place(s, o) = c - fs.off + fs.rw
    OBVIOUS
  <2>1. PICK a : a = s - fs.i /\ a = b
    BY <1>1, TurnNumbers, SMT
  <2>2. Place(s, o) = a * SECTOR_SIZE + o - fs.off + fs.rw
    BY <1>1, <1>2, <2>1, TurnPlace
  <2>3. b * SECTOR_SIZE \in Int /\ o \in Int
    BY FileConstants, SMT DEF Offsets
  <2>4. Place(s, o) = b * SECTOR_SIZE + o - fs.off + fs.rw
    BY <2>1, <2>2
  <2> HIDE DEF s
  <2> QED
    BY <1>3, <2>3, <2>4, SMT
<1>5. fsbuf'[b][o] = IF c \in fs.off .. fs.off + ChunkBytes - 1
                     THEN ubuf[fs.rw + c - fs.off + 1] ELSE fsbuf[b][o]
  BY <1>2 DEF CopyFromUser
<1>6. CASE c \in fs.off .. fs.off + ChunkBytes - 1
  <2> HIDE DEF s, c
  <2>1. /\ fs.left > 0 /\ Place(s, o) = c - fs.off + fs.rw
        /\ Place(s, o) \in 0 .. fs.len - 1 /\ Place(s, o) + 1 \in 1 .. fs.len
        /\ fs.rw + c - fs.off + 1 = Place(s, o) + 1
    <3>1. fs.left > 0
      BY <1>1, <1>3, <1>6, TurnNumbers, SMT
    <3>2. Place(s, o) = c - fs.off + fs.rw
      BY <1>4, <3>1
    <3> QED
      BY <1>1, <1>3, <1>6, <3>1, <3>2, TurnNumbers, SMT
  <2>2. PICK p \in 0 .. fs.len - 1 : p = Place(s, o)
    BY <2>1
  <2>3. ubuf = [k \in 1 .. fs.len |-> UserByte(calls, k - 1)]
    BY <1>1, TurnNumbers DEF DueInv
  <2>4. p + 1 \in 1 .. fs.len /\ p + 1 - 1 = p
    BY <1>3, SMT
  <2>5. due.data[s][o] = UserByte(calls, p)
    BY <1>1, <1>2, <2>1, <2>2, TurnNumbers DEF DueInv
  <2>6. fsbuf'[b][o] = due.data[s][o]
    BY <1>5, <1>6, <2>1, <2>2, <2>3, <2>4, <2>5, SMT
  <2> QED
    BY <2>6 DEF AsDue, s
<1>7. CASE c \notin fs.off .. fs.off + ChunkBytes - 1
  <2> HIDE DEF s, c
  <2>1. fsbuf[b] = disk[Addr(s)]
    <3>1. Progress = fs.chunk /\ ReadInv
      BY <1>1 DEF Progress, TransferInv, InCall, InLoop
    <3> QED
      BY <1>1, <3>1 DEF ReadInv, s
  <2>2. AsDue(s, o, fsbuf'[b][o], fs.rw)
    BY <1>1, <1>2, <1>5, <1>7, <2>1, TurnNumbers DEF DataInv
  <2>3. Place(s, o) \notin fs.rw + ChunkBytes .. fs.len - 1 => Place(s, o) \notin fs.rw .. fs.len - 1
    <3>1. CASE fs.left > 0
      <4>1. PICK p \in Int : p = Place(s, o) /\ p = c - fs.off + fs.rw
        BY <1>3, <1>4, <3>1, SMT
      <4>2. p \notin fs.rw .. fs.rw + ChunkBytes - 1
        BY <1>3, <1>7, <4>1, SMT
      <4> QED
        BY <1>3, <4>1, <4>2, SMT
    <3>2. CASE fs.left = 0
      BY <1>1, <1>3, <3>2, TurnNumbers, SMT
    <3> QED
      BY <1>1, <3>1, <3>2, TurnNumbers, SMT
  <2> QED
    BY <2>2, <2>3 DEF AsDue, s
<1> QED
  BY <1>6, <1>7

\* write(): a chunk is completed by the user's bytes.
LEMMA TransferFromUser ==
  ASSUME DiskInv, TransferInv, CopyFromUser
  PROVE  TransferInv'
<1> USE SameCall, SameDisk
<1>1. /\ fs.pc = "read" /\ req = NoReq /\ fs.type = "write" /\ fs' = [fs EXCEPT !.pc = "write"] /\ fs \in FsType
      /\ req' = [type |-> "write", pos |-> fs.i, n |-> fs.chunk] /\ fs.pc \in {"read", "write"}
      /\ UNCHANGED <<plan, disk, hd, pos, i_size, ubuf, calls, due>>
  BY Shapes DEF CopyFromUser, FsGoesOn, rw_sector, file_state
<1>2. hd.pc = "receive" /\ InCall /\ pos' \in Nat /\ disk[Addr(InodeSect)][0] = i_size'
  BY <1>1 DEF DiskInv, RequestInv, InCall, InLoop, TransferInv
<1>3. NumbersInv' /\ DueInv'
  BY <1>1, <1>2 DEF TransferInv, NumbersInv, InLoop
<1>4. Progress' = 0
  BY <1>1, <1>2 DEF Progress, NoReq
<1>5. DataInv'
  <2> SUFFICES ASSUME Claimed, NEW s \in DataSects, NEW o \in Offsets
               PROVE  AsDue(s, o, disk[Addr(s)][o],
                            IF s \in fs.i .. fs.i + 0 - 1 THEN fs.rw + ChunkBytes ELSE fs.rw)
    BY <1>1, <1>4 DEF DataInv
  <2>1. s \notin fs.i .. fs.i + 0 - 1
    BY <1>1, SMT DEF FsType
  <2> QED
    BY <1>1, <2>1, TurnNumbers DEF DataInv
<1>6. DOMAIN fsbuf' = DOMAIN fsbuf
  BY DEF CopyFromUser
<1>7. WriteInv'
  <2>1. \A b \in 0 .. fs.chunk - 1 : IsSector(fsbuf'[b])
    <3>1. \A b \in 0 .. fs.chunk - 1 : b \in DOMAIN fsbuf
      BY <1>1, TurnNumbers, FileConstants, SMT DEF TransferInv
    <3> QED
      BY <3>1 DEF CopyFromUser, IsSector
  <2>2. \A b \in 0 .. fs.chunk - 1 :
          Claimed => \A o \in Offsets : AsDue(fs.i + b, o, fsbuf'[b][o], fs.rw + ChunkBytes)
    BY BytesWritten
  <2> QED
    BY <1>1, <2>1, <2>2 DEF WriteInv, IsSector
<1>8. ReadInv' /\ SyncInv'
  BY <1>1 DEF ReadInv, SyncInv
<1> QED
  BY <1>1, <1>2, <1>3, <1>5, <1>6, <1>7, <1>8, TransferFs

\* write(): a chunk is on the disk.
LEMMA TransferWritten ==
  ASSUME DiskInv, TransferInv, Written
  PROVE  TransferInv'
<1>1. /\ fs.pc \in {"read", "write"} /\ fs.pc = "write" /\ req = NoReq /\ TurnEnds
      /\ UNCHANGED <<plan, disk, hd, fsbuf, i_size, ubuf, calls, due>>
  BY DEF Written, FsGoesOn, dvars
<1>2. DataInv /\ DueInv /\ NumbersInv /\ fs.type = "write"
  BY <1>1 DEF TransferInv, InCall, InLoop, NumbersInv
<1>3. DueInv'
  <2>1. fs'.type = "write" /\ fs'.len = fs.len /\ \A s, o : Place(s, o)' = Place(s, o)
    BY <1>1, <1>2, TurnEndsRight
  <2> QED
    BY <1>1, <1>2, <2>1 DEF DueInv
<1>4. ASSUME Claimed, NEW s \in DataSects, NEW o \in Offsets
      PROVE  AsDue(s, o, disk[Addr(s)][o], fs.rw + ChunkBytes)
  <2>1. Progress = fs.chunk
    BY <1>1 DEF Progress
  <2>2. AsDue(s, o, disk[Addr(s)][o],
              IF s \in fs.i .. fs.i + fs.chunk - 1 THEN fs.rw + ChunkBytes ELSE fs.rw)
    BY <1>1, <1>2, <1>4, <2>1 DEF DataInv
  <2>3. CASE s \in fs.i .. fs.i + fs.chunk - 1
    BY <2>2, <2>3
  <2>4. CASE s \notin fs.i .. fs.i + fs.chunk - 1
    <3>1. s \in Int /\ fs.i \in Int /\ fs.chunk \in Int /\ {fs.rw, fs.len, fs.left, ChunkBytes} \subseteq Int
      BY <1>1, TurnNumbers, FileConstants, SMT DEF DataSects
    <3>2. Place(s, o) \notin fs.rw + ChunkBytes .. fs.len - 1 => Place(s, o) \notin fs.rw .. fs.len - 1
      <4>1. CASE fs.left = 0
        BY <1>1, <3>1, <4>1, TurnNumbers, SMT
      <4>2. CASE fs.left > 0
        <5>1. PICK w \in Nat \ {0}, off \in Nat : w = SECTOR_SIZE /\ off = fs.off /\ off \in 0 .. w - 1 /\ o \in 0 .. w - 1
          <6>1. SECTOR_SIZE \in Nat \ {0}
            BY FileConstants
          <6>2. fs.off \in 0 .. SECTOR_SIZE - 1 /\ o \in 0 .. SECTOR_SIZE - 1
            BY <1>1, TurnNumbers DEF Offsets
          <6> QED
            BY <6>1, <6>2, SMT
        <5>2. PICK m \in Int, n \in Int : m = (s - fs.i) * w + o - off /\ n = fs.chunk * w - off
          BY <3>1, <5>1, SMT
        <5>3. m < 0 \/ m >= n
          BY <2>4, <3>1, <5>1, <5>2, ChunkPlaces, SMT
        <5>4. Place(s, o) = m + fs.rw
          BY <1>1, <3>1, <4>2, <5>1, <5>2, TurnPlace
        <5>5. n >= ChunkBytes
          BY <1>1, <5>1, <5>2, TurnNumbers
        <5> QED
          BY <3>1, <5>2, <5>3, <5>4, <5>5, SMT
      <4> QED
        BY <1>1, <4>1, <4>2, TurnNumbers, SMT
    <3> QED
      BY <2>2, <2>4, <3>2 DEF AsDue
  <2> QED
    BY <2>3, <2>4
<1> QED
  BY <1>1, <1>3, <1>4, TransferTurn

\* The numbers before the loop: a call inside the file ends in its last sector.
LEMMA CallNumbers ==
  ASSUME DiskInv, TransferInv, NEW type \in {"read", "write"}, NEW len \in Lens, FsCall(type, len)
  PROVE  NumbersInv'
<1> DEFINE limit   == IF type = "read" THEN i_size ELSE FileSects * SECTOR_SIZE
           pos_end == Min({pos + len, limit})
           min     == FileStart + pos \div SECTOR_SIZE
           max     == FileStart + pos_end \div SECTOR_SIZE
           chunk   == Min({max - min + 1, bufsize})
<1>1. /\ fs'.pc = "loop" /\ fs'.type = type /\ fs'.len = len /\ fs'.i = min /\ fs'.max = max
      /\ fs'.chunk = chunk /\ fs'.off = pos % SECTOR_SIZE /\ fs'.rw = 0 /\ fs'.left = len
      /\ pos' = pos /\ i_size' = i_size
  BY DEF FsCall
<1>2. PICK inside \in BOOLEAN :
        /\ inside <=> /\ pos + len <= FileSects * SECTOR_SIZE
                      /\ type = "read" => pos + len <= i_size
        /\ due'.type = type /\ due'.len = len /\ due'.inside = inside
        /\ due'.size = IF pos + len > i_size THEN pos + len ELSE i_size
        /\ DOMAIN due' = DOMAIN NoDue
  BY DEF FsCall, Due, NoDue
<1>3. pos \in Nat /\ i_size \in Int /\ len \in Nat
  BY ReadWriteAssumption DEF TransferInv, DiskInv, DiskTypeOK
<1>4. PICK w \in Nat \ {0}, n \in Nat : w = SECTOR_SIZE /\ n = FileSects
  BY FileConstants
<1>5. n * w \in Nat /\ limit \in Int /\ pos + len \in Nat
  BY <1>3, <1>4, SMT
<1>6. pos_end \in Int /\ pos_end = IF pos + len <= limit THEN pos + len ELSE limit
  BY <1>5, MinOfTwo, SMT
<1>7. /\ inside => pos_end = pos + len
      /\ inside \/ type = "write" => pos_end \in Nat /\ pos_end <= n * w
  BY <1>2, <1>3, <1>4, <1>5, <1>6, SMT
<1>8. /\ inside \/ type = "write" => max <= FileStart + FileSects
      /\ inside => pos + len < (max + 1 - FileStart) * SECTOR_SIZE
  <2> SUFFICES ASSUME inside \/ type = "write"
               PROVE  /\ max <= FileStart + FileSects
                      /\ inside => pos + len < (max + 1 - FileStart) * SECTOR_SIZE
    OBVIOUS
  <2> HIDE DEF pos_end
  <2>1. pos_end \in Nat /\ pos_end <= n * w
    BY <1>7
  <2>2. PICK q \in Nat : q = pos_end \div w /\ q <= n /\ pos_end < (q + 1) * w
    BY <2>1, DivMod, DivBound
  <2>3. max = FileStart + q /\ max + 1 - FileStart = q + 1
    BY <1>4, <2>2, FileConstants, SMT
  <2> QED
    BY <1>4, <1>7, <2>2, <2>3, FileConstants, SMT
<1>9. min >= FileStart /\ pos % SECTOR_SIZE \in Offsets /\ (min - FileStart) * SECTOR_SIZE + (pos % SECTOR_SIZE) = pos
      /\ min \in Int
  <2>1. PICK q \in Nat, r \in 0 .. w - 1 : q = pos \div w /\ r = pos % w /\ pos = q * w + r
    <3>1. pos \div w \in Nat /\ pos % w \in 0 .. w - 1 /\ pos = (pos \div w) * w + (pos % w)
      BY <1>3, DivMod
    <3> QED
      BY <3>1
  <2>2. min = FileStart + q /\ min - FileStart = q
    BY <1>4, <2>1, FileConstants, SMT
  <2> QED
    BY <1>4, <2>1, <2>2, FileConstants, SMT DEF Offsets
<1>10. chunk <= FSBUF_SECTS
  <2>1. max \in Int
    BY <1>4, <1>6, FileConstants, SMT
  <2> HIDE DEF max, min
  <2>2. max - min + 1 \in Int /\ bufsize \in Int /\ bufsize <= FSBUF_SECTS /\ FSBUF_SECTS \in Int
    BY <1>9, <2>1, FileConstants, SMT DEF DiskInv, DiskTypeOK
  <2>3. chunk \in Int /\ chunk = IF max - min + 1 <= bufsize THEN max - min + 1 ELSE bufsize
    BY <2>2, MinOfTwo
  <2> HIDE DEF chunk
  <2> QED
    BY <2>2, <2>3, SMT
<1> HIDE DEF limit, pos_end, min, max, chunk
<1>11. due' # NoDue
  BY <1>2, SMT DEF NoDue
<1> QED
  BY <1>1, <1>2, <1>3, <1>8, <1>9, <1>10, <1>11, SMT DEF NumbersInv, InLoop

\* What a call should do, in the terms of the invariant.
LEMMA CallDue ==
  ASSUME DiskInv, TransferInv, NEW type \in {"read", "write"}, NEW len \in Lens, FsCall(type, len)
  PROVE  DueInv' /\ DataInv'
<1> DEFINE at(s, o) == (s - FileStart) * SECTOR_SIZE + o - pos
<1>1. /\ fs'.pc = "loop" /\ fs'.type = type /\ fs'.len = len /\ fs'.rw = 0
      /\ pos' = pos /\ calls' = calls + 1 /\ UNCHANGED <<plan, disk>>
      /\ ubuf' = [k \in 1 .. len |-> IF type = "read" THEN 0 ELSE UserByte(calls + 1, k - 1)]
  BY DEF FsCall, dvars
<1>2. /\ due'.inside => pos + len <= FileSects * SECTOR_SIZE
      /\ due'.inside /\ type = "read" =>
           due'.bytes = [k \in 1 .. len |-> FileByte(DataOf(disk), pos + k - 1)]
      /\ due'.data = [s \in DataSects |-> [o \in Offsets |->
                        IF type = "write" /\ at(s, o) \in 0 .. len - 1
                        THEN UserByte(calls + 1, at(s, o)) ELSE DataOf(disk)[s][o]]]
  BY DEF FsCall, Due
<1>3. pos \in Nat /\ len \in Nat
  BY ReadWriteAssumption DEF TransferInv
<1>4. \A s \in DataSects, o \in Offsets : Place(s, o)' = at(s, o)
  BY <1>1, <1>3, SMT DEF Place
<1>5. \A s \in DataSects, o \in Offsets :
        due'.data[s][o] = IF type = "write" /\ at(s, o) \in 0 .. len - 1
                          THEN UserByte(calls + 1, at(s, o)) ELSE disk[Addr(s)][o]
  <2> HIDE DEF at
  <2> TAKE s \in DataSects, o \in Offsets
  <2>1. DataOf(disk)[s] = disk[Addr(s)]
    BY DEF DataOf
  <2>2. due'.data[s] = [p \in Offsets |-> IF type = "write" /\ at(s, p) \in 0 .. len - 1
                                          THEN UserByte(calls + 1, at(s, p)) ELSE DataOf(disk)[s][p]]
    BY <1>2
  <2> QED
    BY <2>1, <2>2
<1> HIDE DEF at
<1>6. DataInv'
  <2> SUFFICES ASSUME NEW s \in DataSects, NEW o \in Offsets
               PROVE  AsDue(s, o, disk[Addr(s)][o], 0)'
    BY <1>1, SameDisk DEF DataInv
  <2> QED
    BY <1>1, <1>4, <1>5, SameDisk DEF AsDue
<1>7. type = "read" /\ due'.inside =>
        due'.bytes = [k \in 1 .. len |-> FileByte(due'.data, pos - 0 + k - 1)]
  <2>1. ASSUME type = "read", due'.inside, NEW k \in 1 .. len
        PROVE  FileByte(DataOf(disk), pos + k - 1) = FileByte(due'.data, pos - 0 + k - 1)
    <3>1. PICK w \in Nat \ {0}, n \in Nat : w = SECTOR_SIZE /\ n = FileSects
      BY FileConstants
    <3>2. n * w \in Nat
      BY SMT
    <3>3. PICK p \in Nat : p = pos + k - 1 /\ p < n * w
      BY <1>2, <1>3, <2>1, <3>1, <3>2, SMT
    <3>4. p \div w \in Nat /\ p % w \in 0 .. w - 1 /\ p \div w < n
      BY <3>3, DivMod, DivBound
    <3>5. FileStart + p \div w \in DataSects /\ p % w \in Offsets
      BY <3>1, <3>4, FileConstants, SMT DEF DataSects, Offsets
    <3>6. FileByte(DataOf(disk), p) = FileByte(due'.data, p)
      BY <1>5, <2>1, <3>1, <3>5 DEF FileByte, DataOf
    <3>7. pos + k - 1 = pos - 0 + k - 1
      BY <1>3, SMT
    <3> QED
      BY <3>3, <3>6, <3>7
  <2> QED
    BY <1>2, <2>1
<1>8. due'.data = [s \in DataSects |-> [o \in Offsets |-> due'.data[s][o]]]
  BY <1>2
<1>9. type = "write" => /\ ubuf' = [k \in 1 .. len |-> UserByte(calls', k - 1)]
                        /\ \A s \in DataSects, o \in Offsets :
                             at(s, o) \in 0 .. len - 1 => due'.data[s][o] = UserByte(calls', at(s, o))
  BY <1>1, <1>5
<1>10. ubuf' = [k \in 1 .. len |-> ubuf'[k]]
  BY <1>1
<1>11. DueInv'
  <2>1. \A k \in 1 .. fs'.rw : FALSE
    BY <1>1, SMT
  <2>2. type = "read" /\ due'.inside =>
          due'.bytes = [k \in 1 .. fs'.len |-> FileByte(due'.data, pos' - fs'.rw + k - 1)]
    BY <1>1, <1>7
  <2>3. (fs.type = "read" => ubuf = [k \in 1 .. fs.len |-> ubuf[k]])'
    BY <1>1, <1>10
  <2>4. (fs.type = "read" /\ due.inside =>
           /\ due.bytes = [k \in 1 .. fs.len |-> FileByte(due.data, pos - fs.rw + k - 1)]
           /\ \A k \in 1 .. fs.rw : ubuf[k] = due.bytes[k])'
    BY <1>1, <2>1, <2>2 DEF FileByte
  <2>5. (fs.type = "write" =>
           /\ ubuf = [k \in 1 .. fs.len |-> UserByte(calls, k - 1)]
           /\ \A s \in DataSects, o \in Offsets :
                Place(s, o) \in 0 .. fs.len - 1 => due.data[s][o] = UserByte(calls, Place(s, o)))'
    <3> SUFFICES ASSUME type = "write"
                 PROVE  /\ (ubuf = [k \in 1 .. fs.len |-> UserByte(calls, k - 1)])'
                        /\ \A s \in DataSects, o \in Offsets :
                             (Place(s, o) \in 0 .. fs.len - 1)' =>
                               (due.data[s][o] = UserByte(calls, Place(s, o)))'
      BY <1>1
    <3>1. (ubuf = [k \in 1 .. fs.len |-> UserByte(calls, k - 1)])'
      BY <1>1, <1>9 DEF UserByte
    <3>2. ASSUME NEW s \in DataSects, NEW o \in Offsets, (Place(s, o) \in 0 .. fs.len - 1)'
          PROVE  (due.data[s][o] = UserByte(calls, Place(s, o)))'
      <4>1. Place(s, o)' = at(s, o) /\ at(s, o) \in 0 .. len - 1
        BY <1>1, <1>4, <3>2
      <4>2. due'.data[s][o] = UserByte(calls', at(s, o))
        BY <1>9, <4>1
      <4> QED
        BY <4>1, <4>2 DEF UserByte
    <3> QED
      BY <3>1, <3>2
  <2> QED
    BY <1>8, <2>3, <2>4, <2>5 DEF DueInv
<1> QED
  BY <1>6, <1>11

\* A call begins.
LEMMA TransferCall ==
  ASSUME DiskInv, TransferInv, NEW type \in {"read", "write"}, NEW len \in Lens, FsCall(type, len)
  PROVE  TransferInv'
<1>1. fs.pc = "idle" /\ fs'.pc = "loop" /\ UNCHANGED <<plan, disk, hd, fsbuf, pos, i_size>>
  BY DEF FsCall, dvars
<1>2. req = NoReq /\ pos' \in Nat /\ disk[Addr(InodeSect)][0] = i_size'
  BY <1>1 DEF DiskInv, RequestInv, TransferInv
<1>3. ReadInv' /\ WriteInv' /\ SyncInv'
  BY <1>1 DEF ReadInv, WriteInv, SyncInv
<1> QED
  BY <1>1, <1>2, <1>3, CallNumbers, CallDue, TransferFs

-----------------------------------------------------------------------------
\* The disk holds the inode with its size, and nothing has been asked.
LEMMA TransferInit == RWInit /\ plan \in Plans => TransferInv
<1> SUFFICES ASSUME RWInit, plan \in Plans PROVE TransferInv
  OBVIOUS
<1>1. disk = [s \in DiskSectors |->
                [o \in Offsets |-> IF s = Addr(InodeSect) THEN i_size ELSE s * SECTOR_SIZE + o]]
  BY DEF RWInit, DiskSectors
<1>2. disk[Addr(InodeSect)][0] = i_size
  BY <1>1, Addresses
<1>3. fs.pc = "boot" /\ req.type = "none" /\ due = NoDue /\ pos = 0 /\ DOMAIN fsbuf = 0 .. FSBUF_SECTS - 1
  BY DEF RWInit, FsAt, NoReq
<1> QED
  BY <1>1, <1>2, <1>3 DEF TransferInv, IsSector, InCall, InLoop

\* Every step keeps the bytes where they should be.
LEMMA TransferNext ==
  ASSUME DiskInv, SectorInv, PartInv, TransferInv, [RWNext]_rwvars
  PROVE  TransferInv'
<1>1. plan \in Plans
  BY DEF PartInv
<1>2. CASE UNCHANGED <<dvars, fs, file_state>>
  BY <1>2, TransferKept DEF dvars, Progress, InodeGone, TransferInv
<1>3. CASE task_fs
  BY <1>1, <1>3, TransferBoots, TransferReads, TransferToUser, TransferFromUser, TransferWritten,
     TransferReturns, TransferSyncs DEF task_fs
<1>4. CASE NoTransfer
  BY <1>4, TransferBoots
<1>5. CASE \E type \in {"read", "write"}, len \in Lens : FsCall(type, len)
  BY <1>5, TransferCall
<1>6. CASE UNCHANGED <<fs, file_state>> /\ (Drive \/ WaitFor \/ Tick)
  BY <1>6, TransferWaits, TransferGoesOut
<1>7. CASE UNCHANGED <<fs, file_state>> /\ Open
  BY <1>7, TransferOpen
<1>8. CASE UNCHANGED <<fs, file_state>> /\ Rdwt
  BY <1>8, TransferWaits, TransferComesIn, TransferIsWritten DEF Rdwt
<1> QED
  BY <1>2, <1>3, <1>4, <1>5, <1>6, <1>7, <1>8, WhoSteps

\* Whatever the sizes of sectors, buffer and file and however long the calls: a
\* read() or write() inside the file moves exactly its bytes, do_rdwt
\* (read_write.c) pads chunks to sectors without touching a byte around them,
\* no read() changes the file's sectors or those behind them, i_size becomes what
\* it should be, and the inode on the disk follows it.
THEOREM BytesMovedRight == RWSpec => []TransferRight
<1>1. RWInit => DiskInv /\ SectorInv /\ PartInv /\ TransferInv
  BY DiskInitInv, PartInit, TransferInit DEF PartInv
<1>2. DiskInv /\ SectorInv /\ PartInv /\ TransferInv /\ [RWNext]_rwvars
      => (DiskInv /\ SectorInv /\ PartInv /\ TransferInv)'
  BY DiskNextInv, SectorNext, PartNext, TransferNext
<1>3. TransferInv => TransferRight
  BY DEF TransferInv, TransferRight
<1> QED
  BY <1>1, <1>2, <1>3, PTL DEF RWSpec

(***************************************************************************)
(* The scheduler: the processor runs ready processes only, for any number  *)
(* of processes and any priorities.                                        *)
(***************************************************************************)

(***************************************************************************)
(* RunsReady says nothing while schedule() is at work.  What makes it true *)
(* again when schedule() returns: a candidate found (greatest_ticks > 0)   *)
(* is ready, and so is the process about to be taken, because a process    *)
(* only ever blocks itself and none runs in the meantime.                  *)
(***************************************************************************)
Candidate ==
  /\ Scheduling /\ greatest_ticks > 0 => ~blocked[p_proc_ready]
  /\ mode = "take" => ~blocked[cursor]

IInv == TypeOK /\ RunsReady /\ Candidate

\* The state kernel_main leaves satisfies the invariant.
LEMMA InitInv == Init => IInv
BY SchedAssumption, SMT DEF Init, IInv, TypeOK, RunsReady, Candidate, Scheduling, Modes, Procs

\* An interrupt unblocks, it blocks nobody.
LEMMA UnblocksOnly ==
  ASSUME TypeOK, NEW S \in SUBSET Procs, Unblocks(S)
  PROVE  blocked' \in [Procs -> BOOLEAN] /\ \A p \in Procs : blocked'[p] => blocked[p]
BY DEF TypeOK, Unblocks

\* Charging a tick keeps the ticks within the priority.
LEMMA ChargeType ==
  ASSUME TypeOK
  PROVE  Decremented \in [Procs -> Nat] /\ \A p \in Procs : Decremented[p] <= Priority[p]
BY SchedAssumption, SMT DEF TypeOK, Decremented, Procs

\* Each iteration of the loops of schedule() preserves the invariant.
LEMMA ScheduleInv == IInv /\ schedule => IInv'
<1> SUFFICES ASSUME IInv, schedule PROVE IInv'
  OBVIOUS
<1> USE SchedAssumption DEF IInv, TypeOK, RunsReady, Candidate, Scheduling, Modes, Procs
<1>1. CASE TestProc
  <2>1. CASE ~blocked[cursor] /\ ticks[cursor] > greatest_ticks
    BY <1>1, <2>1 DEF TestProc
  <2>2. CASE ~(~blocked[cursor] /\ ticks[cursor] > greatest_ticks)
    <3>1. /\ cursor' \in Procs /\ mode' \in {"test", "user", "refill"}
          /\ mode' = "user" => greatest_ticks > 0
      BY <1>1, <2>2, SMT DEF TestProc, NextProc
    <3> QED
      BY <1>1, <3>1 DEF TestProc
  <2> QED
    BY <2>1, <2>2
<1>2. CASE TakeProc
  <2>1. /\ cursor' \in Procs /\ mode' \in {"test", "user", "refill"}
    <3>1. CASE cursor < N /\ cursor' = cursor + 1 /\ mode' = "test"
      BY <3>1, SMT
    <3>2. CASE cursor = N /\ cursor' = 1 /\ mode' \in {"user", "refill"}
      BY <3>2, SMT
    <3> QED
      BY <1>2, <3>1, <3>2 DEF TakeProc, NextProc
  <2>2. ~blocked'[p_proc_ready']
    <3>1. ~blocked[cursor]
      BY <1>2 DEF TakeProc
    <3> QED
      BY <1>2, <3>1 DEF TakeProc
  <2> QED
    BY <1>2, <2>1, <2>2 DEF TakeProc
<1>3. CASE RefillProc
  <2>1. ticks' \in [Procs -> Nat] /\ \A p \in Procs : ticks'[p] <= Priority[p]
    BY <1>3, SMT DEF RefillProc
  <2> QED
    BY <1>3, <2>1, SMT DEF RefillProc
<1> QED
  BY <1>1, <1>2, <1>3 DEF schedule

\* Interrupts preserve the invariant.
LEMMA InterruptInv == IInv /\ (ClockUser \/ ClockNested \/ DeviceInt) => IInv'
<1> SUFFICES ASSUME IInv, ClockUser \/ ClockNested \/ DeviceInt PROVE IInv'
  OBVIOUS
<1> USE SchedAssumption DEF Scheduling, Modes, Procs
<1>1. blocked' \in [Procs -> BOOLEAN] /\ \A p \in Procs : blocked'[p] => blocked[p]
  BY UnblocksOnly DEF IInv, ClockUser, ClockNested, DeviceInt
<1>2. ticks' \in [Procs -> Nat] /\ \A p \in Procs : ticks'[p] <= Priority[p]
  <2>1. CASE DeviceInt
    BY <2>1 DEF IInv, TypeOK, DeviceInt
  <2>2. CASE ClockUser \/ ClockNested
    BY <2>2, ChargeType DEF IInv, ClockUser, ClockNested
  <2> QED
    BY <2>1, <2>2
<1>3. CASE ClockUser
  <2>1. CASE Decremented[p_proc_ready] > 0
    BY <1>1, <1>2, <1>3, <2>1 DEF IInv, TypeOK, RunsReady, Candidate, ClockUser, loop
  <2>2. CASE ~(Decremented[p_proc_ready] > 0)
    BY <1>1, <1>2, <1>3, <2>2, SMT
       DEF IInv, TypeOK, RunsReady, Candidate, ClockUser, CallSchedule
  <2> QED
    BY <2>1, <2>2
<1>4. CASE ClockNested
  BY <1>1, <1>2, <1>4 DEF IInv, TypeOK, RunsReady, Candidate, ClockNested, loop
<1>5. CASE DeviceInt
  BY <1>1, <1>2, <1>5 DEF IInv, TypeOK, RunsReady, Candidate, DeviceInt, loop
<1> QED
  BY <1>3, <1>4, <1>5

\* System calls preserve the invariant.
LEMMA SysCallInv == IInv /\ (SysCall \/ SysReturn \/ block) => IInv'
<1> SUFFICES ASSUME IInv, SysCall \/ SysReturn \/ block PROVE IInv'
  OBVIOUS
<1> USE SchedAssumption DEF Scheduling, Modes, Procs
<1>1. CASE SysCall
  BY <1>1 DEF IInv, TypeOK, RunsReady, Candidate, SysCall, loop
<1>2. CASE SysReturn
  <2>1. blocked' \in [Procs -> BOOLEAN] /\ \A p \in Procs : blocked'[p] => blocked[p]
    BY <1>2, UnblocksOnly DEF IInv, SysReturn
  <2> QED
    BY <1>2, <2>1 DEF IInv, TypeOK, RunsReady, Candidate, SysReturn, loop
<1>3. CASE block
  BY <1>3, SMT DEF IInv, TypeOK, RunsReady, Candidate, block, CallSchedule
<1> QED
  BY <1>1, <1>2, <1>3

\* The invariant holds throughout.
THEOREM Inductive == Spec => []IInv
<1>1. IInv /\ UNCHANGED vars => IInv'
  BY DEF IInv, vars, TypeOK, RunsReady, Candidate, Scheduling
<1>2. IInv /\ [Next]_vars => IInv'
  BY <1>1, ScheduleInv, InterruptInv, SysCallInv DEF Next
<1> QED
  BY <1>2, InitInv, PTL DEF Spec

\* No process with flags set is ever resumed, however interrupts interleave
\* with the loops of schedule().
THEOREM OnlyReadyRuns == Spec => []RunsReady
<1>1. IInv => RunsReady
  BY DEF IInv
<1> QED
  BY <1>1, Inductive, PTL

\* Types, and the bound of the ticks by the priority.
THEOREM TicksBounded == Spec => []TypeOK
<1>1. IInv => TypeOK
  BY DEF IInv
<1> QED
  BY <1>1, Inductive, PTL
=============================================================================

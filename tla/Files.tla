------------------------------- MODULE Files -------------------------------
(***************************************************************************)
(* Open files and the directory of the file system task, fs/open.c,        *)
(* fs/link.c, fs/misc.c and fs/main.c: descriptors, the cache of inodes    *)
(* and its reference counts, the maps of inodes and sectors, and the one   *)
(* directory.                                                              *)
(*                                                                         *)
(* task_fs serves one message at a time, so one action is one request.     *)
(* Every file has NR_DEFAULT_FILE_SECTS sectors; the sector map is kept in *)
(* units of that many, called extents.  The directory fits in one sector.  *)
(* What a file contains is left out.                                       *)
(***************************************************************************)
EXTENDS Naturals, Sequences, FiniteSets, FiniteSetsExt

CONSTANTS
  Procs,          \* the slots of proc_table that clients use
  First,          \* the process that runs at boot
  Names,          \* the names clients give to files
  LongNames,      \* those of MAX_FILENAME_LEN characters or more
  Ttys,           \* the names of the special files, one per console
  Leftovers,      \* what a name field holds that has the tail of another name
  strcpy(_, _),   \* the field, once the second name is copied over the first
  NR_FILES,       \* descriptors per process
  NR_FILE_DESC,   \* entries of f_desc_table
  NR_INODE,       \* entries of inode_table
  NR_INODES,      \* inodes on the disk
  NR_EXTENTS,     \* extents on the disk
  NR_ENTRIES,     \* directory entries in a sector
  MAX_CNT         \* bound: requests stop when a count has reached it

ROOT_INODE == 1
Paths      == Names \cup {Ttys[k] : k \in DOMAIN Ttys} \cup {"/", "."}

\* The inodes of a disk below 4 GB outlast its sectors.
ASSUME FilesAssumption ==
  /\ IsFiniteSet(Procs) /\ First \in Procs /\ LongNames \subseteq Names
  /\ Ttys \in Seq(STRING)
  /\ {NR_FILES, NR_FILE_DESC, NR_INODES, NR_ENTRIES} \subseteq Nat
  /\ {NR_INODE, NR_EXTENTS} \subseteq Nat \ {0}
  /\ NR_EXTENTS + Len(Ttys) <= NR_INODES
  /\ Len(Ttys) + NR_EXTENTS < NR_ENTRIES

\* A name copied over another leaves the tail of a longer one.
ASSUME NamesAssumption ==
  /\ Leftovers \cap Paths = {}
  /\ \A name \in Names : /\ strcpy("", name) = name
                         /\ \A old \in Paths \cup Leftovers :
                              strcpy(old, name) \in {name} \cup Leftovers

FDs     == 0 .. NR_FILES - 1
Descs   == 1 .. NR_FILE_DESC
Slots   == 1 .. NR_INODE
Numbers == 1 .. NR_INODES
Extents == 0 .. NR_EXTENTS - 1
Entries == 1 .. NR_ENTRIES
Fields  == Paths \cup Leftovers \cup {""}

VARIABLES
  filp,           \* PROCESS.filp: the descriptor of each fd, or 0
  f_desc_table,   \* fd_inode (a slot of inode_table, or 0) and fd_cnt
  inode_table,    \* i_num, i_cnt, i_mode and the extent of i_start_sect
  imap, smap,     \* the bits set in the inode map and the sector map
  inodes,         \* the inode array on the disk
  dir, dirsize,   \* the entries of the directory, and its i_size in entries
  alive,          \* the processes that can make requests
  forking,        \* parent and child of a fork() that FS has not heard of
  halt            \* "no", "assert" or "panic"

disk  == <<imap, smap, inodes, dir, dirsize>>
procs == <<alive, forking>>
vars  == <<filp, f_desc_table, inode_table, disk, procs, halt>>

NoEntry == [nr |-> 0, name |-> ""]
NoInode == [mode |-> "none", ext |-> 0]
NoSlot  == [num |-> 0, cnt |-> 0, mode |-> "none", ext |-> 0]
NoDesc  == [inode |-> 0, cnt |-> 0]
NoFork  == <<>>

\* mkfs: a new file system at every boot, with the directory and the special
\* files of the consoles.
mkfs ==
  /\ imap = 1 .. Len(Ttys) + 1
  /\ smap = {0}
  /\ inodes = [n \in Numbers |->
       [NoInode EXCEPT !.mode = CASE n = ROOT_INODE -> "dir"
                                  [] n \in 2 .. Len(Ttys) + 1 -> "tty"
                                  [] OTHER -> "none"]]
  /\ dir = [k \in Entries |->
       CASE k = 1 -> [nr |-> ROOT_INODE, name |-> "."]
         [] k \in 2 .. Len(Ttys) + 1 -> [nr |-> k, name |-> Ttys[k - 1]]
         [] OTHER -> NoEntry]
  /\ dirsize = Len(Ttys) + 1

\* init_fs: the root inode stays in the cache for good.
Init ==
  /\ filp = [p \in Procs |-> [fd \in FDs |-> 0]]
  /\ f_desc_table = [d \in Descs |-> NoDesc]
  /\ inode_table = [s \in Slots |-> IF s = 1
       THEN [num |-> ROOT_INODE, cnt |-> 1, mode |-> "dir", ext |-> 0] ELSE NoSlot]
  /\ mkfs
  /\ alive = {First}
  /\ forking = NoFork
  /\ halt = "no"

-----------------------------------------------------------------------------
(***************************************************************************)
(* Helpers of the requests                                                 *)
(***************************************************************************)

\* search_file: the first entry with this name, up to the one behind the last;
\* 0 if there is none.
search_file(name) ==
  LET found == {k \in Entries \cap 1 .. dirsize + 1 : dir[k].name = name}
  IN  IF name = "/" THEN ROOT_INODE
      ELSE IF found = {} THEN 0 ELSE dir[Min(found)].nr

\* get_inode: the slot that caches inode n, else the first free one, else 0.
Cached(n) == {s \in Slots : inode_table[s].cnt > 0 /\ inode_table[s].num = n}

SlotFor(n) ==
  LET free == {s \in Slots : inode_table[s].cnt = 0}
  IN  CASE Cached(n) # {} -> Min(Cached(n))
        [] Cached(n) = {} /\ free # {} -> Min(free)
        [] OTHER -> 0

\* A mutant of get_inode: i_start_sect is not read from the disk.
get_inodeNoSectors(n) ==
  [inode_table EXCEPT ![SlotFor(n)] =
     IF Cached(n) # {} THEN [inode_table[SlotFor(n)] EXCEPT !.cnt = @ + 1]
     ELSE [num |-> n, cnt |-> 1, mode |-> inodes[n].mode, ext |-> 0]]

\* ... and the table with the reference the caller gets.
get_inode(n) ==
  [inode_table EXCEPT ![SlotFor(n)] =
     IF Cached(n) # {} THEN [inode_table[SlotFor(n)] EXCEPT !.cnt = @ + 1]
     ELSE [num |-> n, cnt |-> 1, mode |-> inodes[n].mode, ext |-> inodes[n].ext]]

\* put_inode k times: a slot that nothing refers to is free, its contents are
\* never looked at.
put_inode(slot, k) == IF slot.cnt <= k THEN NoSlot ELSE [slot EXCEPT !.cnt = @ - k]

FreeFDs(p) == {fd \in FDs : filp[p][fd] = 0}
FreeDescs  == {d \in Descs : f_desc_table[d].inode = 0}

Halt(why) == halt' = why /\ UNCHANGED <<filp, f_desc_table, inode_table, disk, procs>>

\* Every process but one that waits for its fork() can make a request.
Requests(p) ==
  /\ halt = "no" /\ p \in alive
  /\ forking # NoFork => p # forking[1]

-----------------------------------------------------------------------------
(***************************************************************************)
(* OPEN                                                                    *)
(***************************************************************************)

\* The end of do_open: slot s is open as the caller's first free descriptor.
Opened(p, s) ==
  LET d == Min(FreeDescs)
  IN  /\ filp' = [filp EXCEPT ![p][Min(FreeFDs(p))] = d]
      /\ f_desc_table' = [f_desc_table EXCEPT ![d] = [inode |-> s, cnt |-> 1]]

\* new_dir_entry: the first entry in the directory that is free, else one more.
\* A long name fills the field without its end, which strcpy writes into the
\* inode number of the next entry.  An entry that has lost its number in that way
\* still has its name, and a shorter one copied over it leaves the tail: what is
\* there then is no name that search_file compares with.
NewEntry ==
  LET free == {k \in 1 .. dirsize : dir[k].nr = 0}
  IN  IF free = {} THEN dirsize + 1 ELSE Min(free)

new_dir_entry(n, name) ==
  LET k == NewEntry
  IN  /\ dir' = [j \in Entries |->
                   CASE j = k -> [nr |-> n, name |-> strcpy(dir[k].name, name)]
                     [] j = k + 1 /\ name \in LongNames -> [dir[j] EXCEPT !.nr = 0]
                     [] OTHER -> dir[j]]
      /\ dirsize' = IF k > dirsize THEN k ELSE dirsize

\* The first inode and the first extent whose bits are clear.
alloc_imap_bit == Min(Numbers \ imap)
alloc_smap_bit == Min(Extents \ smap)

\* new_inode: cache the inode and write it to the disk.
new_inode(n, e) ==
  /\ inode_table' = [inode_table EXCEPT ![SlotFor(n)] =
                       [num |-> n, cnt |-> 1, mode |-> "file", ext |-> e]]
  /\ inodes' = [inodes EXCEPT ![n] = [mode |-> "file", ext |-> e]]

\* create_file, for do_open: the disk or the cache may be full.
create_file(p, name) ==
  LET n == alloc_imap_bit
  IN  \/ (smap = Extents) /\ Halt("assert")
      \/ (smap # Extents /\ SlotFor(n) = 0) /\ Halt("panic")
      \/ /\ smap # Extents /\ SlotFor(n) # 0
         /\ imap' = imap \cup {n}
         /\ smap' = smap \cup {alloc_smap_bit}
         /\ new_inode(n, alloc_smap_bit)
         /\ new_dir_entry(n, name)
         /\ Opened(p, SlotFor(n))
         /\ UNCHANGED <<procs, halt>>

\* The file is there: get_inode.
OpenFile(p, name) ==
  LET n == search_file(name)
  IN  \/ (SlotFor(n) = 0) /\ Halt("panic")
      \/ /\ SlotFor(n) # 0
         /\ inode_table' = get_inode(n)
         /\ Opened(p, SlotFor(n))
         /\ UNCHANGED <<disk, procs, halt>>

\* open(name, O_RDWR), or with O_CREAT; an open that returns -1 changes nothing.
do_open(p, name, creat) ==
  /\ Requests(p)
  /\ \/ (FreeFDs(p) = {} \/ FreeDescs = {}) /\ Halt("panic")
     \/ /\ FreeFDs(p) # {} /\ FreeDescs # {}
        /\ \/ creat /\ search_file(name) = 0 /\ create_file(p, name)
           \/ ~creat /\ search_file(name) # 0 /\ OpenFile(p, name)

-----------------------------------------------------------------------------
(***************************************************************************)
(* CLOSE, UNLINK                                                           *)
(***************************************************************************)

\* A mutant of Release: fd_inode is not reset.
ReleaseKeepsInode(desc, k) == [desc EXCEPT !.cnt = @ - k]

\* The descriptor loses k of its references; without any it is free.
Release(desc, k) == IF desc.cnt <= k THEN NoDesc ELSE [desc EXCEPT !.cnt = @ - k]

\* close(fd) of a descriptor the process has.
do_close(p, fd) ==
  LET d == filp[p][fd]
      s == f_desc_table[d].inode
  IN  /\ Requests(p) /\ d # 0
      /\ inode_table' = [inode_table EXCEPT ![s] = put_inode(@, 1)]
      /\ f_desc_table' = [f_desc_table EXCEPT ![d] = Release(@, 1)]
      /\ filp' = [filp EXCEPT ![p][fd] = 0]
      /\ UNCHANGED <<disk, procs, halt>>

\* do_unlink finds that the inode is special or in use, and returns with the
\* reference it has just taken.
UnlinkRefused(n) ==
  /\ inode_table' = get_inode(n)
  /\ UNCHANGED <<filp, f_desc_table, disk, procs, halt>>

\* A mutant of ListedAt: the last entry, whichever it is.
ListedAtLast(n) == {dirsize}

\* The entry of the directory that do_unlink removes.
ListedAt(n) == {k \in 1 .. dirsize : dir[k].nr = n}

\* do_unlink clears the bits, which it asserts to be set, the inode and then the
\* directory entry, which it asserts to have found (flg).  i_size becomes the
\* entries in use that were counted before the one removed, if that was the last.
EntryCleared(n) ==
  LET k == Min(ListedAt(n))
  IN  /\ dir' = [dir EXCEPT ![k] = NoEntry]
      /\ dirsize' = IF k = dirsize
                    THEN Cardinality({j \in 1 .. k - 1 : dir[j].nr # 0})
                    ELSE dirsize

Unlinked(n) ==
  LET slot == get_inode(n)[SlotFor(n)]
  IN  /\ \/ /\ n \notin imap
            /\ halt' = "assert" /\ inode_table' = get_inode(n) /\ UNCHANGED disk
         \/ /\ n \in imap /\ slot.ext \notin smap
            /\ halt' = "assert" /\ inode_table' = get_inode(n) /\ imap' = imap \ {n}
            /\ UNCHANGED <<smap, inodes, dir, dirsize>>
         \/ /\ n \in imap /\ slot.ext \in smap
            /\ imap' = imap \ {n}
            /\ smap' = smap \ {slot.ext}
            /\ inodes' = [inodes EXCEPT ![n] = NoInode]
            /\ inode_table' = [inode_table EXCEPT ![SlotFor(n)] = NoSlot]
            /\ IF ListedAt(n) = {} THEN halt' = "assert" /\ UNCHANGED <<dir, dirsize>>
               ELSE EntryCleared(n) /\ UNCHANGED halt
      /\ UNCHANGED <<filp, f_desc_table, procs>>

\* A mutant of do_unlink: i_cnt is not looked at.
do_unlinkOpen(p, name) ==
  LET n    == search_file(name)
      slot == get_inode(n)[SlotFor(n)]
  IN  /\ Requests(p) /\ name # "/" /\ n # 0 /\ SlotFor(n) # 0
      /\ slot.mode = "file" /\ Unlinked(n)

\* unlink(name); an unlink of the root or of no file returns -1 at once.
do_unlink(p, name) ==
  LET n    == search_file(name)
      slot == get_inode(n)[SlotFor(n)]
  IN  /\ Requests(p) /\ name # "/" /\ n # 0
      /\ \/ (SlotFor(n) = 0) /\ Halt("panic")
         \/ /\ SlotFor(n) # 0 /\ slot.cnt < MAX_CNT
            /\ \/ (slot.mode # "file" \/ slot.cnt > 1) /\ UnlinkRefused(n)
               \/ (slot.mode = "file" /\ slot.cnt <= 1) /\ Unlinked(n)

-----------------------------------------------------------------------------
(***************************************************************************)
(* FORK, EXIT: what the memory manager tells FS                            *)
(***************************************************************************)

\* How many descriptors of p are d, and how many are of the inode in slot s.
Uses(p, d)      == Cardinality({fd \in FDs : filp[p][fd] = d})
UsesInode(p, s) == Cardinality({fd \in FDs : filp[p][fd] # 0
                                  /\ f_desc_table[filp[p][fd]].inode = s})

\* do_fork copies the parent's slot, with its filp, before FS is told.
ForkCopies(p, c) ==
  /\ Requests(p) /\ forking = NoFork
  /\ c \in Procs \ alive
  /\ forking' = <<p, c>>
  /\ filp' = [filp EXCEPT ![c] = filp[p]]
  /\ UNCHANGED <<f_desc_table, inode_table, disk, alive, halt>>

\* A mutant of fs_fork: i_cnt is not increased.
fs_forkDescOnly ==
  /\ halt = "no" /\ forking # NoFork
  /\ f_desc_table' = [d \in Descs |->
       [f_desc_table[d] EXCEPT !.cnt = @ + Uses(forking[2], d)]]
  /\ alive' = alive \cup {forking[2]}
  /\ forking' = NoFork
  /\ UNCHANGED <<filp, inode_table, disk, halt>>

\* FORK: the child shares every descriptor of its parent.
fs_fork ==
  /\ halt = "no" /\ forking # NoFork
  /\ LET c == forking[2]
     IN  /\ f_desc_table' = [d \in Descs |->
              [f_desc_table[d] EXCEPT !.cnt = @ + Uses(c, d)]]
         /\ inode_table' = [s \in Slots |->
              [inode_table[s] EXCEPT !.cnt = @ + UsesInode(c, s)]]
         /\ alive' = alive \cup {c}
  /\ forking' = NoFork
  /\ UNCHANGED <<filp, disk, halt>>

\* EXIT: every descriptor of the process is closed.
fs_exit(p) ==
  /\ Requests(p) /\ forking = NoFork
  /\ f_desc_table' = [d \in Descs |-> Release(f_desc_table[d], Uses(p, d))]
  /\ inode_table' = [s \in Slots |-> put_inode(inode_table[s], UsesInode(p, s))]
  /\ filp' = [filp EXCEPT ![p] = [fd \in FDs |-> 0]]
  /\ alive' = alive \ {p}
  /\ UNCHANGED <<disk, forking, halt>>

Next ==
  \/ \E p \in Procs :
       \/ \E name \in Names : do_open(p, name, TRUE)
       \/ \E name \in Paths : do_open(p, name, FALSE) \/ do_unlink(p, name)
       \/ \E fd \in FDs : do_close(p, fd)
       \/ \E c \in Procs : ForkCopies(p, c)
       \/ fs_exit(p)
  \/ fs_fork

Spec == Init /\ [][Next]_vars

-----------------------------------------------------------------------------
(***************************************************************************)
(* Properties                                                              *)
(***************************************************************************)

\* The processes whose descriptors FS has counted.
Counted == Procs \ {forking[i] : i \in DOMAIN forking \cap {2}}

\* The descriptors, of all these processes, that are entry d of f_desc_table,
\* and those that are open on the inode in slot s.
Users(d)  == {u \in Counted \X FDs : filp[u[1]][u[2]] = d}
OpenOn(s) == {u \in Counted \X FDs :
                filp[u[1]][u[2]] # 0 /\ f_desc_table[filp[u[1]][u[2]]].inode = s}

\* fd_cnt is the number of descriptors, in all processes, that share the entry
\* of f_desc_table, and only an entry that is shared by none is free: open,
\* close, fork and exit in any order neither free an entry somebody still has
\* nor keep one nobody has.
SharedRight ==
  \A d \in Descs :
    /\ f_desc_table[d].cnt = Cardinality(Users(d))
    /\ f_desc_table[d].inode # 0 <=> Users(d) # {}

\* No inode is dropped from the cache while it is open: i_cnt covers every open
\* descriptor, and the root inode once more.  It may be greater: an unlink()
\* that is refused never gives its reference back.
InUseStays ==
  \A s \in Slots :
    inode_table[s].cnt >=
      Cardinality(OpenOn(s)) + (IF inode_table[s].num = ROOT_INODE THEN 1 ELSE 0)

\* What is cached is what is on the disk, at most once, and allocated there: a
\* file is not removed while it is open, and its number not given to another.
CacheRight ==
  \A s \in Slots :
    inode_table[s].cnt > 0 =>
      LET n == inode_table[s].num
      IN  /\ n \in imap /\ Cached(n) = {s}
          /\ inodes[n] = [mode |-> inode_table[s].mode, ext |-> inode_table[s].ext]

\* Files do not overlap, and no sector is lost: the sector map is exactly the
\* extents of the files, each of which has its own.
SectorsRight ==
  LET stored == {n \in imap : inodes[n].mode \in {"file", "dir"}}
  IN  /\ smap = {inodes[n].ext : n \in stored}
      /\ \A m, n \in stored : inodes[m].ext = inodes[n].ext => m = n

\* An entry of the directory never names an inode that has been freed, nor one
\* that another entry names, as long as no assert has stopped do_unlink halfway.
EntriesRight ==
  halt = "no" =>
    \A k \in Entries :
      dir[k].nr # 0 =>
        /\ dir[k].nr \in imap
        /\ \A j \in Entries : dir[j].nr = dir[k].nr => j = k

\* do_unlink finds the entry of the file that search_file has just found, which
\* it asserts after it has freed everything else (assert(flg)).
FoundIsListed ==
  halt = "no" =>
    \A name \in Names : search_file(name) # 0 => ListedAt(search_file(name)) # {}
=============================================================================

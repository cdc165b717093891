---------------------------- MODULE FilesProofs ----------------------------
(***************************************************************************)
(* The invariants of Files, proved for any number of processes, names,     *)
(* descriptors, slots, inodes, extents and directory entries.              *)
(*                                                                         *)
(* The five invariants are not inductive one by one, since a request       *)
(* trusts all the tables at once: unlink() frees what the cache says, the  *)
(* cache is right because only what the directory lists is opened, and the *)
(* directory is right because a number that is free is listed nowhere.     *)
(* FilesInv adds what they leave out: a free slot is empty, the root inode *)
(* is always cached, a process FS has not heard of has the descriptors of  *)
(* its parent, a dead one has none, and there is a number left whenever    *)
(* there is an extent left.                                                *)
(***************************************************************************)
EXTENDS Files, FiniteSetTheorems, TLAPS

Modes  == {"none", "file", "dir", "tty"}
NoFile == [fd \in FDs |-> 0]

FilesType ==
  /\ filp \in [Procs -> [FDs -> Descs \cup {0}]]
  /\ f_desc_table \in [Descs -> [inode : Slots \cup {0}, cnt : Nat]]
  /\ inode_table \in [Slots -> [num : Numbers \cup {0}, cnt : Nat, mode : Modes, ext : Extents]]
  /\ imap \in SUBSET Numbers /\ smap \in SUBSET Extents
  /\ inodes \in [Numbers -> [mode : Modes, ext : Extents]]
  /\ dir \in [Entries -> [nr : Numbers \cup {0}, name : Fields]]
  /\ dirsize \in 0 .. NR_ENTRIES
  /\ alive \in SUBSET Procs

\* The child of a fork() has the descriptors of its parent, who waits; whoever
\* is neither alive nor such a child has none.
ForkInv ==
  /\ forking # NoFork =>
       \E p \in alive, c \in Procs \ alive : forking = <<p, c>> /\ filp[c] = filp[p]
  /\ \A q \in Counted \ alive : filp[q] = NoFile

\* A free slot is empty, and the root inode has slot 1.
SlotsInv ==
  /\ \A s \in Slots : inode_table[s].cnt = 0 => inode_table[s] = NoSlot
  /\ inode_table[1].num = ROOT_INODE /\ inode_table[1].mode = "dir"

\* Every inode has an extent of its own, except the special files.
CountInv == Cardinality(imap) = Cardinality(smap) + Len(Ttys)

\* The entries of the directory, as EntriesRight has them while FS runs.
EntriesInv ==
  \A k \in Entries :
    dir[k].nr # 0 =>
      /\ dir[k].nr \in imap
      /\ \A j \in Entries : dir[j].nr = dir[k].nr => j = k

FilesInv ==
  /\ FilesType /\ ForkInv /\ SlotsInv /\ CountInv
  /\ SharedRight /\ InUseStays /\ CacheRight /\ SectorsRight /\ EntriesInv

\* What is left of it when assert(flg) has failed in do_unlink, and the whole.
TablesInv ==
  /\ FilesType /\ ForkInv /\ SlotsInv /\ CountInv
  /\ SharedRight /\ InUseStays /\ CacheRight /\ SectorsRight

InductiveInv == TablesInv /\ (halt = "no" => FilesInv)

-----------------------------------------------------------------------------
(***************************************************************************)
(* What the operators of the model return                                  *)
(***************************************************************************)

\* A leaf is left to Zenon unless it says SMT (arithmetic, records).
USE Zenon

\* The loops that look for the first free bit, slot or entry find one, if there
\* is one: Min is in the set.
LEMMA MinIn ==
  ASSUME NEW S \in SUBSET Nat, S # {}
  PROVE  Min(S) \in S
<1> DEFINE R == {ss \in Nat \X Nat : ss[1] < ss[2]}
<1>1. IsWellFoundedOn(R, Nat)
  BY NatLessThanWellFounded DEF OpToRel
<1>2. \E x \in S : \A y \in S : ~(<<y, x>> \in R)
  <2> HIDE DEF R
  <2> QED  BY <1>1, WFMin
<1>3. PICK x \in S : \A y \in S : ~(<<y, x>> \in R)
  BY <1>2
<1>4. ASSUME NEW y \in S PROVE x <= y
  <2>1. <<y, x>> \in Nat \X Nat /\ ~(<<y, x>> \in R)
    BY <1>3
  <2>2. ~(y < x)
    BY <2>1
  <2> QED  BY <2>2, SMT
<1> QED  BY <1>4 DEF Min

\* The sizes of the tables, as numbers.
LEMMA FileSizes ==
  /\ NR_FILES \in Nat /\ NR_FILE_DESC \in Nat /\ NR_INODES \in Nat /\ NR_ENTRIES \in Nat
  /\ NR_INODE \in Nat \ {0} /\ NR_EXTENTS \in Nat \ {0}
  /\ Len(Ttys) \in Nat /\ NR_EXTENTS + Len(Ttys) <= NR_INODES
  /\ Len(Ttys) + NR_EXTENTS < NR_ENTRIES
BY FilesAssumption, SMT

\* The tables are finite.
LEMMA FileSets ==
  /\ IsFiniteSet(FDs) /\ IsFiniteSet(Numbers) /\ IsFiniteSet(Extents)
  /\ Cardinality(Numbers) = NR_INODES /\ Cardinality(Extents) = NR_EXTENTS
  /\ FDs \in SUBSET Nat /\ Descs \in SUBSET (Nat \ {0}) /\ Slots \in SUBSET (Nat \ {0})
  /\ Numbers \in SUBSET (Nat \ {0}) /\ Extents \in SUBSET Nat /\ Entries \in SUBSET (Nat \ {0})
  /\ 1 \in Slots /\ ROOT_INODE \in Numbers /\ 0 \in Extents
<1>1. 0 - 1 \in Int /\ NR_FILES - 1 \in Int /\ NR_EXTENTS - 1 \in Int
  BY FileSizes, SMT
<1>2. IsFiniteSet(FDs)
  BY <1>1, FileSizes, FS_Interval, SMT DEF FDs
<1>3. IsFiniteSet(Numbers) /\ Cardinality(Numbers) = NR_INODES
  BY FileSizes, FS_Interval, SMT DEF Numbers
<1>4. IsFiniteSet(Extents) /\ Cardinality(Extents) = NR_EXTENTS
  <2>1. /\ IsFiniteSet(0 .. NR_EXTENTS - 1)
        /\ Cardinality(0 .. NR_EXTENTS - 1) =
             IF 0 > NR_EXTENTS - 1 THEN 0 ELSE (NR_EXTENTS - 1) - 0 + 1
    BY <1>1, FS_Interval, SMT
  <2> QED  BY <2>1, FileSizes, SMT DEF Extents
<1> QED  BY <1>2, <1>3, <1>4, FileSizes, SMT DEF FDs, Descs, Slots, Numbers, Extents, Entries, ROOT_INODE

\* get_inode returns the slot that caches the inode, else a free one, else none.
LEMMA SlotFound ==
  ASSUME NEW n, SlotFor(n) # 0
  PROVE  /\ SlotFor(n) \in Slots
         /\ Cached(n) # {} => SlotFor(n) \in Cached(n)
         /\ Cached(n) = {} => inode_table[SlotFor(n)].cnt = 0
<1> DEFINE free == {s \in Slots : inode_table[s].cnt = 0}
<1>1. Cached(n) \in SUBSET Slots /\ Cached(n) \in SUBSET Nat
  BY FileSets DEF Cached
<1>2. free \in SUBSET Slots /\ free \in SUBSET Nat
  BY FileSets
<1>3. CASE Cached(n) # {}
  <2>1. SlotFor(n) = Min(Cached(n))
    BY <1>3 DEF SlotFor
  <2> QED  BY <1>1, <1>3, <2>1, MinIn
<1>4. CASE Cached(n) = {}
  <2>1. free # {} /\ SlotFor(n) = Min(free)
    BY <1>4 DEF SlotFor
  <2>2. SlotFor(n) \in free
    <3> HIDE DEF free
    <3> QED  BY <1>2, <2>1, MinIn
  <2> QED  BY <1>4, <2>2
<1> QED  BY <1>3, <1>4

\* The processes FS has counted: all, or all but the child of a fork().
LEMMA WhoIsCounted ==
  /\ forking = NoFork => Counted = Procs
  /\ \A p, c : forking = <<p, c>> => Counted = Procs \ {c}
BY SMT DEF Counted, NoFork

\* Which descriptors use an entry of f_desc_table, or a slot.
LEMMA UserOf ==
  ASSUME NEW q \in Counted, NEW g \in FDs, NEW d
  PROVE  /\ <<q, g>> \in Users(d) <=> filp[q][g] = d
         /\ <<q, g>> \in OpenOn(d) <=>
              filp[q][g] # 0 /\ f_desc_table[filp[q][g]].inode = d
BY DEF Users, OpenOn

\* Only finitely many descriptors are open.
LEMMA UsersFinite ==
  ASSUME NEW d
  PROVE  /\ IsFiniteSet(Users(d)) /\ Cardinality(Users(d)) \in Nat
         /\ IsFiniteSet(OpenOn(d)) /\ Cardinality(OpenOn(d)) \in Nat
<1>1. IsFiniteSet(Counted)
  BY FilesAssumption, FS_Difference DEF Counted
<1>2. IsFiniteSet(Counted \X FDs)
  BY <1>1, FileSets, FS_Product
<1>3. Users(d) \in SUBSET (Counted \X FDs) /\ OpenOn(d) \in SUBSET (Counted \X FDs)
  BY DEF Users, OpenOn
<1>4. IsFiniteSet(Users(d)) /\ IsFiniteSet(OpenOn(d))
  BY <1>2, <1>3, FS_Subset
<1> QED  BY <1>4, FS_CardinalityType

\* The root inode is in the cache, and so in use.
LEMMA RootStays ==
  ASSUME FilesInv
  PROVE  /\ inode_table[1].num = ROOT_INODE /\ inode_table[1].cnt > 0
         /\ ROOT_INODE \in imap /\ Cached(ROOT_INODE) = {1}
<1>1. 1 \in Slots /\ inode_table[1].num = ROOT_INODE
  BY FileSets DEF FilesInv, SlotsInv
<1>2. inode_table[1].cnt \in Nat /\ Cardinality(OpenOn(1)) + 1 <= inode_table[1].cnt
  BY <1>1 DEF FilesInv, FilesType, InUseStays
<1>3. inode_table[1].cnt > 0
  BY <1>2, UsersFinite, SMT
<1> QED  BY <1>1, <1>3 DEF FilesInv, CacheRight

\* Whatever search_file finds is an inode in use.
LEMMA FoundInUse ==
  ASSUME FilesInv, NEW name, search_file(name) # 0
  PROVE  search_file(name) \in imap /\ search_file(name) \in Numbers
<1> DEFINE found == {k \in Entries \cap 1 .. dirsize + 1 : dir[k].name = name}
<1>1. CASE name = "/"
  BY <1>1, RootStays, FileSets DEF search_file
<1>2. CASE name # "/"
  <2>1. found # {} /\ search_file(name) = dir[Min(found)].nr
    BY <1>2 DEF search_file
  <2>2. found \in SUBSET Nat
    BY FileSets
  <2>3. Min(found) \in Entries
    <3>1. Min(found) \in found
      <4> HIDE DEF found
      <4> QED  BY <2>1, <2>2, MinIn
    <3> QED  BY <3>1
  <2> QED  BY <2>1, <2>3 DEF FilesInv, EntriesInv, FilesType
<1> QED  BY <1>1, <1>2

\* Whoever makes a request has been counted.
LEMMA WhoRequests ==
  ASSUME FilesInv, NEW p \in Procs, Requests(p)
  PROVE  /\ p \in Counted /\ p \in alive
         /\ forking # NoFork => filp[forking[1]] = filp[forking[2]] /\ p # forking[1] /\ p # forking[2]
<1>1. CASE forking = NoFork
  BY <1>1, WhoIsCounted DEF Requests
<1>2. CASE forking # NoFork
  <2>1. PICK q \in alive, c \in Procs \ alive : forking = <<q, c>> /\ filp[c] = filp[q]
    BY <1>2 DEF FilesInv, ForkInv
  <2> QED  BY <1>2, <2>1, WhoIsCounted DEF Requests
<1> QED  BY <1>1, <1>2

-----------------------------------------------------------------------------
(***************************************************************************)
(* Descriptors: what open, close, fork and exit do to who uses what        *)
(***************************************************************************)

\* A request changes only the descriptors of the process that makes it.
LEMMA ForkKept ==
  ASSUME FilesInv, NEW p \in Procs, Requests(p), UNCHANGED procs,
         \A q \in Procs \ {p} : filp'[q] = filp[q]
  PROVE  ForkInv'
<1>1. forking' = forking /\ alive' = alive /\ Counted' = Counted /\ Counted \in SUBSET Procs
  BY DEF procs, Counted
<1>2. forking # NoFork =>
        \E q \in alive, c \in Procs \ alive : forking = <<q, c>> /\ filp'[c] = filp'[q]
  <2> HAVE forking # NoFork
  <2>1. PICK q \in alive, c \in Procs \ alive : forking = <<q, c>> /\ filp[c] = filp[q]
    BY DEF FilesInv, ForkInv
  <2>2. q # p /\ c # p /\ q \in Procs
    BY <2>1, WhoRequests DEF FilesInv, FilesType
  <2> QED  BY <2>1, <2>2
<1>3. \A q \in Counted \ alive : filp'[q] = NoFile
  BY <1>1, WhoRequests DEF FilesInv, ForkInv
<1>4. NoFile' = NoFile
  BY DEF NoFile
<1> QED  BY <1>1, <1>2, <1>3, <1>4 DEF ForkInv

\* The end of do_open: one descriptor more is open on the slot, and on no other.
LEMMA OpenedUsers ==
  ASSUME FilesInv, NEW p \in Procs, Requests(p), FreeFDs(p) # {}, FreeDescs # {},
         NEW s \in Slots, Opened(p, s), UNCHANGED procs
  PROVE  /\ filp' \in [Procs -> [FDs -> Descs \cup {0}]]
         /\ f_desc_table' \in [Descs -> [inode : Slots \cup {0}, cnt : Nat]]
         /\ ForkInv' /\ SharedRight'
         /\ Cardinality(OpenOn(s))' = Cardinality(OpenOn(s)) + 1
         /\ \A t \in Slots \ {s} : OpenOn(t)' = OpenOn(t)
<1>1. PICK fd : fd = Min(FreeFDs(p))
  OBVIOUS
<1>2. PICK d : d = Min(FreeDescs)
  OBVIOUS
<1>3. fd \in FDs /\ filp[p][fd] = 0
  <2>1. FreeFDs(p) \in SUBSET Nat
    BY FileSets DEF FreeFDs
  <2> QED  BY <1>1, <2>1, MinIn DEF FreeFDs
<1>4. d \in Descs /\ f_desc_table[d].inode = 0 /\ d # 0
  <2>1. FreeDescs \in SUBSET Nat
    BY FileSets DEF FreeDescs
  <2>2. d \in FreeDescs
    BY <1>2, <2>1, MinIn
  <2> QED  BY <2>2, FileSets DEF FreeDescs
<1>5. /\ filp' = [filp EXCEPT ![p][fd] = d]
      /\ f_desc_table' = [f_desc_table EXCEPT ![d] = [inode |-> s, cnt |-> 1]]
  BY <1>1, <1>2 DEF Opened
<1>6. /\ filp \in [Procs -> [FDs -> Descs \cup {0}]]
      /\ f_desc_table \in [Descs -> [inode : Slots \cup {0}, cnt : Nat]]
  BY DEF FilesInv, FilesType
<1>7. /\ filp' \in [Procs -> [FDs -> Descs \cup {0}]]
      /\ filp'[p][fd] = d
      /\ \A q \in Procs, g \in FDs : <<q, g>> # <<p, fd>> => filp'[q][g] = filp[q][g]
      /\ \A q \in Procs \ {p} : filp'[q] = filp[q]
  BY <1>3, <1>4, <1>5, <1>6
<1>8. /\ f_desc_table' \in [Descs -> [inode : Slots \cup {0}, cnt : Nat]]
      /\ f_desc_table'[d] = [inode |-> s, cnt |-> 1]
      /\ \A e \in Descs \ {d} : f_desc_table'[e] = f_desc_table[e]
  BY <1>4, <1>5, <1>6
<1>9. Counted' = Counted /\ p \in Counted /\ Counted \in SUBSET Procs
  BY WhoRequests DEF Counted, procs
<1>10. Users(d) = {}
  BY <1>4 DEF FilesInv, SharedRight
<1>11. \A q \in Counted, g \in FDs : filp[q][g] # d
  BY <1>10, UserOf
<1>12. Users(d)' = {<<p, fd>>}
  BY <1>3, <1>7, <1>9, <1>11, SMT DEF Users
<1>13. ASSUME NEW e \in Descs \ {d} PROVE Users(e)' = Users(e)
  <2>1. e # 0
    BY FileSets
  <2> QED  BY <1>3, <1>7, <1>9, <2>1, SMT DEF Users
<1>14. SharedRight'
  <2> SUFFICES ASSUME NEW e \in Descs
               PROVE  /\ f_desc_table'[e].cnt = Cardinality(Users(e)')
                      /\ f_desc_table'[e].inode # 0 <=> Users(e)' # {}
    BY DEF SharedRight
  <2>1. CASE e = d
    <3>1. Cardinality(Users(d)') = 1
      BY <1>12, FS_Singleton
    <3>2. f_desc_table'[e].cnt = 1 /\ f_desc_table'[e].inode = s /\ s # 0
      BY <1>8, <2>1, FileSets, SMT
    <3>3. Users(e)' = {<<p, fd>>} /\ Cardinality(Users(e)') = 1
      BY <1>12, <2>1, <3>1
    <3> QED  BY <3>2, <3>3
  <2>2. CASE e # d
    BY <1>8, <1>13, <2>2 DEF FilesInv, SharedRight
  <2> QED  BY <2>1, <2>2
<1>15. OpenOn(s)' = OpenOn(s) \cup {<<p, fd>>} /\ <<p, fd>> \notin OpenOn(s)
  <2>1. <<p, fd>> \notin OpenOn(s)
    BY <1>3 DEF OpenOn
  <2>2. \A q \in Counted, g \in FDs : <<q, g>> # <<p, fd>> =>
          (<<q, g>> \in OpenOn(s)' <=> <<q, g>> \in OpenOn(s))
    BY <1>6, <1>7, <1>8, <1>9, <1>11, SMT DEF OpenOn
  <2>3. <<p, fd>> \in OpenOn(s)'
    BY <1>3, <1>4, <1>7, <1>8, <1>9, SMT DEF OpenOn
  <2>4. OpenOn(s) \in SUBSET (Counted \X FDs) /\ OpenOn(s)' \in SUBSET (Counted \X FDs)
    BY <1>9 DEF OpenOn
  <2> QED  BY <2>1, <2>2, <2>3, <2>4, SMT
<1>16. Cardinality(OpenOn(s))' = Cardinality(OpenOn(s)) + 1
  BY <1>15, UsersFinite, FS_AddElement
<1>17. ASSUME NEW t \in Slots \ {s} PROVE OpenOn(t)' = OpenOn(t)
  <2>1. <<p, fd>> \notin OpenOn(t) /\ <<p, fd>> \notin OpenOn(t)'
    BY <1>3, <1>7, <1>8, SMT DEF OpenOn
  <2>2. \A q \in Counted, g \in FDs : <<q, g>> # <<p, fd>> =>
          (<<q, g>> \in OpenOn(t)' <=> <<q, g>> \in OpenOn(t))
    BY <1>6, <1>7, <1>8, <1>9, <1>11, SMT DEF OpenOn
  <2>3. OpenOn(t) \in SUBSET (Counted \X FDs) /\ OpenOn(t)' \in SUBSET (Counted \X FDs)
    BY <1>9 DEF OpenOn
  <2> QED  BY <2>1, <2>2, <2>3, SMT
<1>18. ForkInv'
  BY <1>7, ForkKept
<1> QED  BY <1>7, <1>8, <1>14, <1>16, <1>17, <1>18

\* do_close: one descriptor less is open on the slot, the entry of f_desc_table
\* is free if it was the last.
LEMMA ClosedUsers ==
  ASSUME FilesInv, NEW p \in Procs, NEW fd \in FDs, Requests(p), UNCHANGED procs,
         NEW d, d = filp[p][fd], d # 0,
         f_desc_table' = [f_desc_table EXCEPT ![d] = Release(@, 1)],
         filp' = [filp EXCEPT ![p][fd] = 0],
         NEW s, s = f_desc_table[d].inode
  PROVE  /\ filp' \in [Procs -> [FDs -> Descs \cup {0}]]
         /\ f_desc_table' \in [Descs -> [inode : Slots \cup {0}, cnt : Nat]]
         /\ ForkInv' /\ SharedRight' /\ s \in Slots
         /\ Cardinality(OpenOn(s))' = Cardinality(OpenOn(s)) - 1
         /\ Cardinality(OpenOn(s)) > 0
         /\ \A t \in Slots \ {s} : OpenOn(t)' = OpenOn(t)
<1>1. /\ filp \in [Procs -> [FDs -> Descs \cup {0}]]
      /\ f_desc_table \in [Descs -> [inode : Slots \cup {0}, cnt : Nat]]
  BY DEF FilesInv, FilesType
<1>2. d \in Descs
  BY <1>1, SMT
<1>3. Counted' = Counted /\ p \in Counted /\ Counted \in SUBSET Procs
  BY WhoRequests DEF Counted, procs
<1>4. <<p, fd>> \in Users(d)
  BY <1>3, UserOf
<1>5. s \in Slots
  BY <1>1, <1>2, <1>4 DEF FilesInv, SharedRight
<1>6. /\ filp' \in [Procs -> [FDs -> Descs \cup {0}]]
      /\ filp'[p][fd] = 0
      /\ \A q \in Procs, g \in FDs : <<q, g>> # <<p, fd>> => filp'[q][g] = filp[q][g]
      /\ \A q \in Procs \ {p} : filp'[q] = filp[q]
  BY <1>1
<1>7. f_desc_table[d].cnt = Cardinality(Users(d)) /\ Cardinality(Users(d)) \in Nat
  BY <1>2, UsersFinite DEF FilesInv, SharedRight
<1>8. /\ f_desc_table' \in [Descs -> [inode : Slots \cup {0}, cnt : Nat]]
      /\ f_desc_table'[d] = IF f_desc_table[d].cnt <= 1 THEN NoDesc
                            ELSE [inode |-> s, cnt |-> f_desc_table[d].cnt - 1]
      /\ \A e \in Descs \ {d} : f_desc_table'[e] = f_desc_table[e]
  <2>1. Release(f_desc_table[d], 1) = IF f_desc_table[d].cnt <= 1 THEN NoDesc
                                      ELSE [inode |-> s, cnt |-> f_desc_table[d].cnt - 1]
    BY <1>1, <1>2, SMT DEF Release
  <2>2. Release(f_desc_table[d], 1) \in [inode : Slots \cup {0}, cnt : Nat]
    BY <1>5, <1>7, <2>1, SMT DEF NoDesc
  <2> QED  BY <1>1, <1>2, <2>1, <2>2
<1>9. Users(d)' = Users(d) \ {<<p, fd>>}
  BY <1>3, <1>6, SMT DEF Users
<1>10. Cardinality(Users(d)') = Cardinality(Users(d)) - 1 /\ IsFiniteSet(Users(d)')
  <2>1. IsFiniteSet(Users(d))
    BY UsersFinite
  <2> QED  BY <1>4, <1>9, <2>1, FS_RemoveElement
<1>11. ASSUME NEW e \in Descs \ {d} PROVE Users(e)' = Users(e)
  <2>1. e # 0
    BY FileSets
  <2> QED  BY <1>3, <1>6, <2>1, SMT DEF Users
<1>12. SharedRight'
  <2> SUFFICES ASSUME NEW e \in Descs
               PROVE  /\ f_desc_table'[e].cnt = Cardinality(Users(e)')
                      /\ f_desc_table'[e].inode # 0 <=> Users(e)' # {}
    BY DEF SharedRight
  <2>1. CASE e = d
    <3>1. Cardinality(Users(d)') = 0 <=> Users(d)' = {}
      BY <1>10, FS_EmptySet
    <3>2. Cardinality(Users(d)) > 0
      BY <1>4, <1>7, UsersFinite, FS_EmptySet, SMT
    <3>3. s # 0
      BY <1>5, FileSets
    <3>4. /\ f_desc_table'[d].cnt = Cardinality(Users(d)')
          /\ f_desc_table'[d].inode # 0 <=> Cardinality(Users(d)') # 0
      BY <1>7, <1>8, <1>10, <3>2, <3>3, SMT DEF NoDesc
    <3> QED  BY <2>1, <3>1, <3>4
  <2>2. CASE e # d
    BY <1>8, <1>11, <2>2 DEF FilesInv, SharedRight
  <2> QED  BY <2>1, <2>2
<1>13. ASSUME NEW q \in Counted, NEW g \in FDs, <<q, g>> # <<p, fd>>, filp[q][g] # 0
       PROVE  f_desc_table'[filp[q][g]].inode = f_desc_table[filp[q][g]].inode
  <2>1. CASE filp[q][g] = d
    <3>1. <<q, g>> \in Users(d)'
      BY <1>9, <2>1, <1>13, UserOf
    <3>2. f_desc_table'[d].inode # 0
      BY <1>2, <1>12, <3>1 DEF SharedRight
    <3> QED  BY <1>8, <2>1, <3>2, SMT DEF NoDesc
  <2>2. CASE filp[q][g] # d
    <3>1. filp[q][g] \in Descs
      BY <1>1, <1>3, <1>13, SMT
    <3> QED  BY <1>8, <2>2, <3>1
  <2> QED  BY <2>1, <2>2
<1>14. ASSUME NEW t \in Slots
       PROVE  OpenOn(t)' = OpenOn(t) \ {<<p, fd>>}
  <2>1. \A q \in Counted, g \in FDs : <<q, g>> # <<p, fd>> =>
          (<<q, g>> \in OpenOn(t)' <=> <<q, g>> \in OpenOn(t))
    BY <1>3, <1>6, <1>13, SMT DEF OpenOn
  <2>2. <<p, fd>> \notin OpenOn(t)'
    BY <1>6 DEF OpenOn
  <2>3. OpenOn(t) \in SUBSET (Counted \X FDs) /\ OpenOn(t)' \in SUBSET (Counted \X FDs)
    BY <1>3 DEF OpenOn
  <2> QED  BY <2>1, <2>2, <2>3, SMT
<1>15. <<p, fd>> \in OpenOn(s)
  BY <1>3, UserOf
<1>16. Cardinality(OpenOn(s)') = Cardinality(OpenOn(s)) - 1
  <2>1. IsFiniteSet(OpenOn(s)) /\ OpenOn(s)' = OpenOn(s) \ {<<p, fd>>}
    BY <1>5, <1>14, UsersFinite
  <2> QED  BY <1>15, <2>1, FS_RemoveElement
<1>17. Cardinality(OpenOn(s)) > 0
  BY <1>15, UsersFinite, FS_EmptySet, SMT
<1>18. ASSUME NEW t \in Slots \ {s} PROVE OpenOn(t)' = OpenOn(t)
  <2>1. <<p, fd>> \notin OpenOn(t)
    BY <1>3, UserOf
  <2> QED  BY <1>14, <2>1, Zenon, SMT
<1>19. ForkInv'
  BY <1>6, ForkKept
<1> QED  BY <1>5, <1>6, <1>8, <1>12, <1>16, <1>17, <1>18, <1>19

\* Counting the descriptors of one process more.
LEMMA OneMore ==
  ASSUME NEW A, IsFiniteSet(A), NEW c, NEW T \in SUBSET FDs, A \cap ({c} \X T) = {}
  PROVE  /\ Cardinality(A \cup ({c} \X T)) = Cardinality(A) + Cardinality(T)
         /\ Cardinality(T) \in Nat /\ Cardinality(A) \in Nat
<1>1. IsFiniteSet(T) /\ Cardinality(T) \in Nat /\ Cardinality(A) \in Nat
  BY FileSets, FS_Subset, FS_CardinalityType
<1>2. IsFiniteSet({c}) /\ Cardinality({c}) = 1
  BY FS_Singleton
<1>3. IsFiniteSet({c} \X T) /\ Cardinality({c} \X T) = Cardinality({c}) * Cardinality(T)
  BY <1>1, <1>2, FS_Product
<1>4. Cardinality({c} \X T) = Cardinality(T)
  BY <1>1, <1>2, <1>3, SMT
<1>5. Cardinality(A \cup ({c} \X T)) =
        Cardinality(A) + Cardinality({c} \X T) - Cardinality(A \cap ({c} \X T))
  BY <1>3, FS_Union
<1>6. Cardinality(A \cap ({c} \X T)) = 0
  BY FS_EmptySet
<1> QED  BY <1>1, <1>4, <1>5, <1>6, SMT

\* do_fork of MM copies the descriptors to a process that FS does not count yet.
LEMMA ForkCopiesInv ==
  ASSUME FilesInv, NEW p \in Procs, NEW c \in Procs, ForkCopies(p, c)
  PROVE  /\ filp' \in [Procs -> [FDs -> Descs \cup {0}]]
         /\ ForkInv' /\ SharedRight' /\ InUseStays'
<1>1. filp \in [Procs -> [FDs -> Descs \cup {0}]] /\ alive \in SUBSET Procs
  BY DEF FilesInv, FilesType
<1>2. /\ p \in alive /\ c \notin alive /\ forking = NoFork /\ forking' = <<p, c>>
      /\ filp' = [filp EXCEPT ![c] = filp[p]] /\ alive' = alive
      /\ f_desc_table' = f_desc_table /\ inode_table' = inode_table
  BY DEF ForkCopies, Requests
<1>3. Counted = Procs /\ Counted' = Procs \ {c}
  <2>1. {forking'[i] : i \in DOMAIN forking' \cap {2}} = {c}
    BY <1>2, SMT
  <2> QED  BY <1>2, <2>1, WhoIsCounted DEF Counted
<1>4. filp[c] = NoFile
  BY <1>2, <1>3 DEF FilesInv, ForkInv
<1>5. /\ filp' \in [Procs -> [FDs -> Descs \cup {0}]] /\ filp'[c] = filp[p] /\ filp'[p] = filp[p]
      /\ \A q \in Procs \ {c} : filp'[q] = filp[q]
  BY <1>1, <1>2
<1>6. ForkInv'
  <2>1. \E q \in alive', d \in Procs \ alive' : forking' = <<q, d>> /\ filp'[d] = filp'[q]
    BY <1>2, <1>5
  <2>2. \A q \in Counted' \ alive' : filp'[q] = NoFile'
    BY <1>2, <1>3, <1>5 DEF FilesInv, ForkInv, NoFile
  <2> QED  BY <2>1, <2>2 DEF ForkInv
<1>7. ASSUME NEW d \in Descs PROVE Users(d)' = Users(d)
  <2>1. d # 0
    BY FileSets
  <2> QED  BY <1>3, <1>4, <1>5, <2>1, SMT DEF Users, NoFile
<1>8. ASSUME NEW s \in Slots PROVE OpenOn(s)' = OpenOn(s)
  BY <1>2, <1>3, <1>4, <1>5, SMT DEF OpenOn, NoFile
<1>9. SharedRight'
  BY <1>2, <1>7 DEF FilesInv, SharedRight
<1>10. InUseStays'
  BY <1>2, <1>8 DEF FilesInv, InUseStays
<1> QED  BY <1>5, <1>6, <1>9, <1>10

\* FORK: FS counts the descriptors of the child.
LEMMA ForkedUsers ==
  ASSUME FilesInv, fs_fork
  PROVE  /\ f_desc_table' \in [Descs -> [inode : Slots \cup {0}, cnt : Nat]]
         /\ ForkInv' /\ SharedRight' /\ alive' \in SUBSET Procs
         /\ \A s \in Slots :
              /\ Cardinality(OpenOn(s)') = Cardinality(OpenOn(s)) + UsesInode(forking[2], s)
              /\ UsesInode(forking[2], s) \in Nat
              /\ UsesInode(forking[2], s) > 0 => Cardinality(OpenOn(s)) > 0
<1>1. /\ filp \in [Procs -> [FDs -> Descs \cup {0}]] /\ alive \in SUBSET Procs
      /\ f_desc_table \in [Descs -> [inode : Slots \cup {0}, cnt : Nat]]
  BY DEF FilesInv, FilesType
<1>2. PICK p \in alive, c \in Procs \ alive : forking = <<p, c>> /\ filp[c] = filp[p]
  BY DEF FilesInv, ForkInv, fs_fork
<1>3. /\ forking[2] = c /\ filp' = filp /\ forking' = NoFork /\ alive' = alive \cup {c}
      /\ f_desc_table' = [d \in Descs |-> [f_desc_table[d] EXCEPT !.cnt = @ + Uses(c, d)]]
  BY <1>2 DEF fs_fork
<1>4. Counted = Procs \ {c} /\ Counted' = Procs /\ p \in Counted /\ p \in Procs /\ p # c
  BY <1>1, <1>2, <1>3, WhoIsCounted, SMT DEF Counted, NoFork
<1>5. ASSUME NEW d \in Descs
      PROVE  /\ Cardinality(Users(d)') = Cardinality(Users(d)) + Uses(c, d)
             /\ Uses(c, d) \in Nat
             /\ Users(d)' # {} <=> Users(d) # {}
  <2> DEFINE T == {fd \in FDs : filp[c][fd] = d}
  <2>1. Users(d)' = Users(d) \cup ({c} \X T)
    BY <1>3, <1>4 DEF Users
  <2>2. Users(d) \cap ({c} \X T) = {}
    BY <1>4 DEF Users
  <2>3. T \in SUBSET FDs /\ Uses(c, d) = Cardinality(T)
    BY DEF Uses
  <2>4. \A fd \in T : <<p, fd>> \in Users(d)
    BY <1>2, <1>4, UserOf
  <2>5. {c} \X T # {} => Users(d) # {}
    BY <2>4
  <2> HIDE DEF T
  <2>6. /\ Cardinality(Users(d) \cup ({c} \X T)) = Cardinality(Users(d)) + Cardinality(T)
        /\ Cardinality(T) \in Nat
    <3>1. IsFiniteSet(Users(d)) /\ T \in SUBSET FDs
      BY <2>3, UsersFinite
    <3> QED  BY <2>2, <3>1, OneMore
  <2> QED  BY <2>1, <2>3, <2>5, <2>6
<1>6. ASSUME NEW d \in Descs
      PROVE  /\ f_desc_table'[d] \in [inode : Slots \cup {0}, cnt : Nat]
             /\ f_desc_table'[d].cnt = f_desc_table[d].cnt + Uses(c, d)
             /\ f_desc_table'[d].inode = f_desc_table[d].inode
  BY <1>1, <1>3, <1>5, SMT
<1>7. f_desc_table' \in [Descs -> [inode : Slots \cup {0}, cnt : Nat]]
  BY <1>1, <1>3, <1>6
<1>8. SharedRight'
  <2> SUFFICES ASSUME NEW d \in Descs
               PROVE  /\ f_desc_table'[d].cnt = Cardinality(Users(d)')
                      /\ f_desc_table'[d].inode # 0 <=> Users(d)' # {}
    BY DEF SharedRight
  <2>1. /\ f_desc_table[d].cnt = Cardinality(Users(d))
        /\ f_desc_table[d].inode # 0 <=> Users(d) # {}
    BY DEF FilesInv, SharedRight
  <2>2. /\ f_desc_table'[d].cnt = f_desc_table[d].cnt + Uses(c, d)
        /\ f_desc_table'[d].inode = f_desc_table[d].inode
    BY <1>6
  <2> QED  BY <1>5, <2>1, <2>2
<1>9. ForkInv'
  BY <1>2, <1>3, <1>4 DEF FilesInv, ForkInv, NoFile, NoFork
<1>10. ASSUME NEW s \in Slots
       PROVE  /\ Cardinality(OpenOn(s)') = Cardinality(OpenOn(s)) + UsesInode(c, s)
              /\ UsesInode(c, s) \in Nat
              /\ UsesInode(c, s) > 0 => Cardinality(OpenOn(s)) > 0
  <2> DEFINE T == {fd \in FDs : filp[c][fd] # 0 /\ f_desc_table[filp[c][fd]].inode = s}
  <2>1. OpenOn(s)' = OpenOn(s) \cup ({c} \X T)
    <3>1. \A q \in Procs, g \in FDs :
            filp[q][g] # 0 => f_desc_table'[filp[q][g]].inode = f_desc_table[filp[q][g]].inode
      <4>1. \A q \in Procs, g \in FDs : filp[q][g] # 0 => filp[q][g] \in Descs
        BY <1>1, SMT
      <4>2. \A d \in Descs : f_desc_table'[d].inode = f_desc_table[d].inode
        BY <1>6
      <4> QED  BY <4>1, <4>2
    <3> QED  BY <1>3, <1>4, <3>1, SMT DEF OpenOn
  <2>2. OpenOn(s) \cap ({c} \X T) = {}
    BY <1>4 DEF OpenOn
  <2>3. T \in SUBSET FDs /\ UsesInode(c, s) = Cardinality(T)
    BY DEF UsesInode
  <2>4. \A fd \in T : <<p, fd>> \in OpenOn(s)
    BY <1>2, <1>4, UserOf, SMT
  <2>5. T # {} => OpenOn(s) # {}
    BY <2>4
  <2> HIDE DEF T
  <2>6. Cardinality(T) > 0 => T # {}
    BY FS_EmptySet, SMT
  <2>7. OpenOn(s) # {} => Cardinality(OpenOn(s)) > 0
    BY UsersFinite, FS_EmptySet, SMT
  <2>8. /\ Cardinality(OpenOn(s) \cup ({c} \X T)) = Cardinality(OpenOn(s)) + Cardinality(T)
        /\ Cardinality(T) \in Nat
    <3>1. IsFiniteSet(OpenOn(s)) /\ T \in SUBSET FDs
      BY <2>3, UsersFinite
    <3> QED  BY <2>2, <3>1, OneMore
  <2> QED  BY <2>1, <2>3, <2>5, <2>6, <2>7, <2>8
<1> QED  BY <1>1, <1>3, <1>7, <1>8, <1>9, <1>10

\* EXIT: FS gives back every descriptor of the process.
LEMMA ExitedUsers ==
  ASSUME FilesInv, NEW p \in Procs, fs_exit(p)
  PROVE  /\ filp' \in [Procs -> [FDs -> Descs \cup {0}]]
         /\ f_desc_table' \in [Descs -> [inode : Slots \cup {0}, cnt : Nat]]
         /\ ForkInv' /\ SharedRight' /\ alive' \in SUBSET Procs
         /\ \A s \in Slots :
              /\ Cardinality(OpenOn(s)) = Cardinality(OpenOn(s)') + UsesInode(p, s)
              /\ UsesInode(p, s) \in Nat /\ Cardinality(OpenOn(s)') \in Nat
<1>1. /\ filp \in [Procs -> [FDs -> Descs \cup {0}]] /\ alive \in SUBSET Procs
      /\ f_desc_table \in [Descs -> [inode : Slots \cup {0}, cnt : Nat]]
  BY DEF FilesInv, FilesType
<1>2. /\ forking = NoFork /\ forking' = NoFork /\ alive' = alive \ {p}
      /\ filp' = [filp EXCEPT ![p] = [fd \in FDs |-> 0]]
      /\ f_desc_table' = [d \in Descs |-> Release(f_desc_table[d], Uses(p, d))]
  BY DEF fs_exit
<1>3. Counted = Procs /\ Counted' = Procs
  BY <1>2, WhoIsCounted DEF Counted
<1>4. /\ filp' \in [Procs -> [FDs -> Descs \cup {0}]]
      /\ filp'[p] = NoFile /\ \A fd \in FDs : filp'[p][fd] = 0
      /\ \A q \in Procs \ {p} : filp'[q] = filp[q]
  BY <1>1, <1>2 DEF NoFile
<1>5. ASSUME NEW d \in Descs
      PROVE  /\ Cardinality(Users(d)) = Cardinality(Users(d)') + Uses(p, d)
             /\ Uses(p, d) \in Nat /\ Cardinality(Users(d)') \in Nat
             /\ Cardinality(Users(d)') = 0 <=> Users(d)' = {}
  <2> DEFINE T == {fd \in FDs : filp[p][fd] = d}
  <2>1. d # 0
    BY FileSets
  <2>2. Users(d) = Users(d)' \cup ({p} \X T)
    BY <1>3, <1>4, <2>1 DEF Users
  <2>3. Users(d)' \cap ({p} \X T) = {}
    BY <1>4, <2>1 DEF Users
  <2>4. T \in SUBSET FDs /\ Uses(p, d) = Cardinality(T)
    BY DEF Uses
  <2>5. IsFiniteSet(Users(d)')
    <3>1. IsFiniteSet(Users(d)) /\ Users(d)' \in SUBSET Users(d)
      BY <2>2, UsersFinite
    <3> QED  BY <3>1, FS_Subset
  <2> HIDE DEF T
  <2>6. /\ Cardinality(Users(d)' \cup ({p} \X T)) = Cardinality(Users(d)') + Cardinality(T)
        /\ Cardinality(T) \in Nat /\ Cardinality(Users(d)') \in Nat
    BY <2>3, <2>4, <2>5, OneMore
  <2> QED  BY <2>2, <2>4, <2>5, <2>6, FS_EmptySet
<1>6. ASSUME NEW d \in Descs
      PROVE  /\ f_desc_table'[d] \in [inode : Slots \cup {0}, cnt : Nat]
             /\ f_desc_table'[d].cnt = Cardinality(Users(d)')
             /\ f_desc_table'[d].inode # 0 <=> Users(d)' # {}
             /\ f_desc_table'[d].inode # 0 => f_desc_table'[d].inode = f_desc_table[d].inode
  <2>1. /\ f_desc_table[d].cnt = Cardinality(Users(d))
        /\ f_desc_table[d].inode # 0 <=> Users(d) # {}
    BY DEF FilesInv, SharedRight
  <2>2. f_desc_table'[d] = Release(f_desc_table[d], Uses(p, d))
    BY <1>2
  <2>3. CASE f_desc_table[d].cnt <= Uses(p, d)
    <3>1. f_desc_table'[d] = [inode |-> 0, cnt |-> 0]
      BY <2>2, <2>3 DEF Release, NoDesc
    <3>2. Cardinality(Users(d)') = 0
      BY <1>5, <2>1, <2>3, SMT
    <3> QED  BY <1>5, <3>1, <3>2, SMT
  <2>4. CASE ~(f_desc_table[d].cnt <= Uses(p, d))
    <3>1. f_desc_table'[d] = [f_desc_table[d] EXCEPT !.cnt = @ - Uses(p, d)]
      BY <2>2, <2>4 DEF Release
    <3>2. f_desc_table[d].cnt - Uses(p, d) = Cardinality(Users(d)')
      BY <1>5, <2>1, SMT
    <3>3. Cardinality(Users(d)') # 0 /\ Cardinality(Users(d)') \in Nat
      BY <1>5, <2>1, <2>4, SMT
    <3>4. /\ f_desc_table'[d] \in [inode : Slots \cup {0}, cnt : Nat]
          /\ f_desc_table'[d].cnt = Cardinality(Users(d)')
          /\ f_desc_table'[d].inode = f_desc_table[d].inode
      BY <1>1, <3>1, <3>2, <3>3
    <3>5. Users(d)' # {} /\ Users(d) # {}
      <4>1. Users(d) # {}
        <5>1. Cardinality(Users(d)) # 0
          BY <1>5, <3>3, SMT
        <5> QED  BY <5>1, FS_EmptySet
      <4> QED  BY <1>5, <3>3, <4>1
    <3> QED  BY <2>1, <3>4, <3>5
  <2> QED  BY <2>3, <2>4
<1>7. f_desc_table' \in [Descs -> [inode : Slots \cup {0}, cnt : Nat]]
  BY <1>2, <1>6
<1>8. SharedRight'
  BY <1>6, Zenon DEF SharedRight
<1>9. ForkInv'
  BY <1>2, <1>3, <1>4 DEF FilesInv, ForkInv, NoFile
<1>10. ASSUME NEW s \in Slots
       PROVE  /\ Cardinality(OpenOn(s)) = Cardinality(OpenOn(s)') + UsesInode(p, s)
              /\ UsesInode(p, s) \in Nat /\ Cardinality(OpenOn(s)') \in Nat
  <2> DEFINE T == {fd \in FDs : filp[p][fd] # 0 /\ f_desc_table[filp[p][fd]].inode = s}
  <2>1. \A q \in Procs \ {p}, g \in FDs :
          filp[q][g] # 0 => f_desc_table'[filp[q][g]].inode = f_desc_table[filp[q][g]].inode
    <3> TAKE q \in Procs \ {p}, g \in FDs
    <3> HAVE filp[q][g] # 0
    <3>1. PICK d : d = filp[q][g]
      OBVIOUS
    <3>2. d \in Descs
      BY <1>1, <3>1, SMT
    <3>3. <<q, g>> \in Users(d)'
      BY <1>3, <1>4, <3>1 DEF Users
    <3> QED  BY <1>6, <3>1, <3>2, <3>3
  <2>2. OpenOn(s) = OpenOn(s)' \cup ({p} \X T)
    BY <1>3, <1>4, <2>1, SMT DEF OpenOn
  <2>3. OpenOn(s)' \cap ({p} \X T) = {}
    BY <1>4 DEF OpenOn
  <2>4. T \in SUBSET FDs /\ UsesInode(p, s) = Cardinality(T)
    BY DEF UsesInode
  <2>5. IsFiniteSet(OpenOn(s)')
    <3>1. IsFiniteSet(OpenOn(s)) /\ OpenOn(s)' \in SUBSET OpenOn(s)
      BY <2>2, UsersFinite
    <3> QED  BY <3>1, FS_Subset
  <2> HIDE DEF T
  <2>6. /\ Cardinality(OpenOn(s)' \cup ({p} \X T)) = Cardinality(OpenOn(s)') + Cardinality(T)
        /\ Cardinality(T) \in Nat /\ Cardinality(OpenOn(s)') \in Nat
    BY <2>3, <2>4, <2>5, OneMore
  <2> QED  BY <2>2, <2>4, <2>6
<1> QED  BY <1>1, <1>2, <1>4, <1>7, <1>8, <1>9, <1>10

-----------------------------------------------------------------------------
(***************************************************************************)
(* The cache of inodes                                                     *)
(***************************************************************************)

SlotRecord == [num : Numbers \cup {0}, cnt : Nat, mode : Modes, ext : Extents]

\* CacheRight, without the set Cached.
CachedOnce ==
  \A s \in Slots :
    inode_table[s].cnt > 0 =>
      /\ inode_table[s].num \in imap
      /\ inodes[inode_table[s].num] = [mode |-> inode_table[s].mode, ext |-> inode_table[s].ext]
      /\ \A t \in Slots :
           inode_table[t].cnt > 0 /\ inode_table[t].num = inode_table[s].num => t = s

\* The two forms say the same, before and after a step.
LEMMA CacheForms ==
  (CacheRight <=> CachedOnce) /\ (CacheRight' <=> CachedOnce')
<1>1. CacheRight <=> CachedOnce
  BY DEF CacheRight, CachedOnce, Cached
<1>2. CacheRight' <=> CachedOnce'
  BY DEF CacheRight, CachedOnce, Cached
<1> QED  BY <1>1, <1>2

\* What CacheRight says of one slot.
LEMMA CachedSlot ==
  ASSUME FilesInv, NEW s \in Slots, inode_table[s].cnt > 0
  PROVE  /\ inode_table[s].num \in imap
         /\ inodes[inode_table[s].num] =
              [mode |-> inode_table[s].mode, ext |-> inode_table[s].ext]
         /\ \A t \in Slots : inode_table[t].cnt > 0 /\ inode_table[t].num = inode_table[s].num
              => t = s
BY CacheForms DEF FilesInv, CachedOnce

\* Closing, forking and exiting change the counts of slots and empty some, never
\* the one of the root: the cache stays right.
LEMMA CountsChange ==
  ASSUME FilesInv, inode_table' \in [Slots -> SlotRecord], UNCHANGED disk,
         \A s \in Slots :
           \/ inode_table'[s] = NoSlot /\ inode_table[s].num # ROOT_INODE
           \/ /\ inode_table[s].cnt > 0 /\ inode_table'[s].cnt > 0
              /\ inode_table'[s].num = inode_table[s].num
              /\ inode_table'[s].mode = inode_table[s].mode
              /\ inode_table'[s].ext = inode_table[s].ext
  PROVE  SlotsInv' /\ CacheRight'
<1>1. imap' = imap /\ inodes' = inodes
  BY DEF disk
<1>2. SlotsInv'
  <2>1. \A s \in Slots : inode_table'[s].cnt = 0 => inode_table'[s] = NoSlot
    BY SMT
  <2>2. inode_table'[1].num = ROOT_INODE /\ inode_table'[1].mode = "dir"
    BY FileSets DEF FilesInv, SlotsInv
  <2> QED  BY <2>1, <2>2 DEF SlotsInv
<1>3. CacheRight'
  <2> SUFFICES ASSUME NEW s \in Slots, inode_table'[s].cnt > 0
               PROVE  /\ inode_table'[s].num \in imap'
                      /\ inodes'[inode_table'[s].num] = [mode |-> inode_table'[s].mode,
                                                         ext |-> inode_table'[s].ext]
                      /\ \A t \in Slots :
                             (inode_table'[t].cnt > 0 /\ inode_table'[t].num = inode_table'[s].num)
                               => t = s
    BY CacheForms DEF CachedOnce
  <2>1. ASSUME NEW t \in Slots, inode_table'[t].cnt > 0
        PROVE  /\ inode_table[t].cnt > 0
               /\ inode_table'[t].num = inode_table[t].num
               /\ inode_table'[t].mode = inode_table[t].mode
               /\ inode_table'[t].ext = inode_table[t].ext
    BY <2>1, SMT DEF NoSlot
  <2>2. \A t \in Slots : inode_table'[t].cnt > 0 /\ inode_table'[t].num = inode_table'[s].num
          => t = s
    BY <2>1, CachedSlot
  <2> QED  BY <1>1, <2>1, <2>2, CachedSlot
<1> QED  BY <1>2, <1>3

\* An inode that was not in the cache fills a free slot of it.
LEMMA SlotFilled ==
  ASSUME FilesInv, NEW n \in Numbers, NEW s \in Slots, NEW m \in Modes, NEW e \in Extents,
         Cached(n) = {}, inode_table[s] = NoSlot,
         inode_table' = [inode_table EXCEPT ![s] =
                           [num |-> n, cnt |-> 1, mode |-> m, ext |-> e]],
         n \in imap', imap \in SUBSET imap', inodes'[n] = [mode |-> m, ext |-> e],
         \A k \in imap \ {n} : inodes'[k] = inodes[k]
  PROVE  /\ inode_table' \in [Slots -> SlotRecord] /\ SlotsInv' /\ CacheRight'
         /\ \A t \in Slots \ {s} : inode_table'[t] = inode_table[t]
         /\ inode_table'[s].num = n /\ inode_table'[s].cnt = 1
<1>1. inode_table \in [Slots -> SlotRecord]
  BY DEF FilesInv, FilesType, SlotRecord
<1>2. /\ inode_table' \in [Slots -> SlotRecord]
      /\ \A t \in Slots \ {s} : inode_table'[t] = inode_table[t]
      /\ inode_table'[s] = [num |-> n, cnt |-> 1, mode |-> m, ext |-> e]
  BY <1>1 DEF SlotRecord
<1>3. SlotsInv'
  <2>1. \A t \in Slots : inode_table'[t].cnt = 0 => inode_table'[t] = NoSlot
    BY <1>2, SMT DEF FilesInv, SlotsInv
  <2>2. 1 # s
    BY RootStays, SMT DEF NoSlot
  <2>3. inode_table'[1].num = ROOT_INODE /\ inode_table'[1].mode = "dir"
    BY <1>2, <2>2, FileSets DEF FilesInv, SlotsInv
  <2> QED  BY <2>1, <2>3 DEF SlotsInv
<1>4. \A t \in Slots : inode_table[t].cnt > 0 => inode_table[t].num # n
  BY DEF Cached
<1>5. CacheRight'
  <2> SUFFICES ASSUME NEW u \in Slots, inode_table'[u].cnt > 0
               PROVE  /\ inode_table'[u].num \in imap'
                      /\ inodes'[inode_table'[u].num] = [mode |-> inode_table'[u].mode,
                                                         ext |-> inode_table'[u].ext]
                      /\ \A t \in Slots :
                           inode_table'[t].cnt > 0 /\ inode_table'[t].num = inode_table'[u].num
                           => t = u
    BY CacheForms DEF CachedOnce
  <2>1. ASSUME NEW t \in Slots, inode_table'[t].cnt > 0,
               inode_table'[t].num = inode_table'[u].num
        PROVE  t = u
    <3>1. CASE t = s
      BY <1>2, <1>4, <2>1, <3>1
    <3>2. CASE u = s
      BY <1>2, <1>4, <2>1, <3>2
    <3>3. CASE t # s /\ u # s
      BY <1>2, <2>1, <3>3, CachedSlot
    <3> QED  BY <3>1, <3>2, <3>3
  <2>2. CASE u = s
    BY <1>2, <2>1, <2>2
  <2>3. CASE u # s
    <3>1. inode_table'[u] = inode_table[u] /\ inode_table[u].cnt > 0
      BY <1>2, <2>3
    <3>2. inode_table[u].num \in imap \ {n}
      BY <1>4, <3>1, CachedSlot
    <3> QED  BY <2>1, <3>1, <3>2, CachedSlot, SMT
  <2> QED  BY <2>2, <2>3
<1> QED  BY <1>2, <1>3, <1>5

\* get_inode of an inode in use: its slot has one reference more, and is the
\* slot of the root only if it was.
LEMMA SlotTaken ==
  ASSUME FilesInv, NEW n \in imap, SlotFor(n) # 0, inode_table' = get_inode(n), UNCHANGED disk
  PROVE  /\ inode_table' \in [Slots -> SlotRecord]
         /\ SlotsInv' /\ CacheRight'
         /\ \A t \in Slots \ {SlotFor(n)} : inode_table'[t] = inode_table[t]
         /\ inode_table'[SlotFor(n)].cnt = inode_table[SlotFor(n)].cnt + 1
         /\ inode_table'[SlotFor(n)].num = ROOT_INODE <=>
              inode_table[SlotFor(n)].num = ROOT_INODE
<1>1. /\ inode_table \in [Slots -> SlotRecord] /\ n \in Numbers
      /\ inodes \in [Numbers -> [mode : Modes, ext : Extents]]
      /\ imap' = imap /\ inodes' = inodes
  BY DEF FilesInv, FilesType, SlotRecord, disk
<1>2. PICK s : s = SlotFor(n)
  OBVIOUS
<1>3. /\ s \in Slots
      /\ Cached(n) # {} => s \in Cached(n)
      /\ Cached(n) = {} => inode_table[s].cnt = 0
  BY <1>2, SlotFound
<1>4. CASE Cached(n) # {}
  <2>1. inode_table[s].cnt > 0 /\ inode_table[s].num = n
    BY <1>3, <1>4 DEF Cached
  <2>2. inode_table' = [inode_table EXCEPT ![s] =
          [num |-> n, cnt |-> inode_table[s].cnt + 1,
           mode |-> inode_table[s].mode, ext |-> inode_table[s].ext]]
    <3>1. [inode_table[s] EXCEPT !.cnt = @ + 1] =
            [num |-> n, cnt |-> inode_table[s].cnt + 1,
             mode |-> inode_table[s].mode, ext |-> inode_table[s].ext]
      BY <1>1, <1>3, <2>1, SMT DEF SlotRecord
    <3>2. inode_table' = [inode_table EXCEPT ![s] =
            IF Cached(n) # {} THEN [inode_table[s] EXCEPT !.cnt = inode_table[s].cnt + 1]
            ELSE [num |-> n, cnt |-> 1, mode |-> inodes[n].mode, ext |-> inodes[n].ext]]
      BY <1>1, <1>2, <1>3 DEF get_inode
    <3> QED  BY <1>4, <3>1, <3>2
  <2>3. /\ inode_table' \in [Slots -> SlotRecord]
        /\ \A t \in Slots \ {s} : inode_table'[t] = inode_table[t]
        /\ inode_table'[s].cnt = inode_table[s].cnt + 1
        /\ inode_table'[s].num = n
        /\ inode_table'[s].mode = inode_table[s].mode
        /\ inode_table'[s].ext = inode_table[s].ext
    BY <1>1, <1>3, <2>1, <2>2, SMT DEF SlotRecord
  <2>4. SlotsInv'
    <3>1. inode_table[s].cnt \in Nat
      BY <1>1, <1>3 DEF SlotRecord
    <3>2. \A t \in Slots : inode_table'[t].cnt = 0 => inode_table'[t] = NoSlot
      BY <2>3, <3>1, SMT DEF FilesInv, SlotsInv
    <3>3. inode_table'[1].num = ROOT_INODE /\ inode_table'[1].mode = "dir"
      BY <2>1, <2>3, FileSets DEF FilesInv, SlotsInv
    <3> QED  BY <3>2, <3>3 DEF SlotsInv
  <2>5. CacheRight'
    <3> SUFFICES ASSUME NEW u \in Slots, inode_table'[u].cnt > 0
                 PROVE  /\ inode_table'[u].num \in imap'
                        /\ inodes'[inode_table'[u].num] = [mode |-> inode_table'[u].mode,
                                                           ext |-> inode_table'[u].ext]
                        /\ \A t \in Slots :
                             (inode_table'[t].cnt > 0 /\ inode_table'[t].num = inode_table'[u].num)
                               => t = u
      BY CacheForms DEF CachedOnce
    <3>1. ASSUME NEW t \in Slots, inode_table'[t].cnt > 0
          PROVE  /\ inode_table[t].cnt > 0
                 /\ inode_table'[t].num = inode_table[t].num
                 /\ inode_table'[t].mode = inode_table[t].mode
                 /\ inode_table'[t].ext = inode_table[t].ext
      BY <2>1, <2>3, <3>1
    <3>2. \A t \in Slots : inode_table'[t].cnt > 0 /\ inode_table'[t].num = inode_table'[u].num
            => t = u
      BY <3>1, CachedSlot
    <3> QED  BY <1>1, <3>1, <3>2, CachedSlot
  <2> QED  BY <1>2, <2>1, <2>3, <2>4, <2>5
<1>5. CASE Cached(n) = {}
  <2>1. inode_table[s] = NoSlot /\ n # ROOT_INODE
    BY <1>3, <1>5, RootStays DEF FilesInv, SlotsInv
  <2>2. inode_table' = [inode_table EXCEPT ![s] =
          [num |-> n, cnt |-> 1, mode |-> inodes[n].mode, ext |-> inodes[n].ext]]
    BY <1>2, <1>5 DEF get_inode
  <2>3. PICK m \in Modes, e \in Extents : inodes[n] = [mode |-> m, ext |-> e]
    BY <1>1
  <2>4. /\ inode_table' \in [Slots -> SlotRecord] /\ SlotsInv' /\ CacheRight'
        /\ \A t \in Slots \ {s} : inode_table'[t] = inode_table[t]
        /\ inode_table'[s].num = n /\ inode_table'[s].cnt = 1
    BY <1>1, <1>3, <1>5, <2>1, <2>2, <2>3, SlotFilled
  <2> QED  BY <1>2, <2>1, <2>4, SMT DEF NoSlot, ROOT_INODE
<1> QED  BY <1>4, <1>5

-----------------------------------------------------------------------------
(***************************************************************************)
(* The disk: the maps, the inode array and the directory                   *)
(***************************************************************************)

\* As long as there is an extent left, alloc_imap_bit and alloc_smap_bit find a
\* clear bit.
LEMMA Allocated ==
  ASSUME FilesInv, smap # Extents
  PROVE  /\ alloc_imap_bit \in Numbers /\ alloc_imap_bit \notin imap
         /\ alloc_smap_bit \in Extents /\ alloc_smap_bit \notin smap
         /\ Cardinality(imap) \in Nat /\ Cardinality(imap) < NR_EXTENTS + Len(Ttys)
         /\ IsFiniteSet(imap) /\ IsFiniteSet(smap)
         /\ Cardinality(smap) \in Nat
<1>1. imap \in SUBSET Numbers /\ smap \in SUBSET Extents
  BY DEF FilesInv, FilesType
<1>2. IsFiniteSet(imap) /\ IsFiniteSet(smap)
  BY <1>1, FileSets, FS_Subset
<1>3. Cardinality(imap) \in Nat /\ Cardinality(smap) \in Nat
  BY <1>2, FS_CardinalityType
<1>4. Cardinality(smap) <= NR_EXTENTS /\ Cardinality(smap) # NR_EXTENTS
  BY <1>1, FileSets, FS_Subset
<1>5. Cardinality(imap) < NR_EXTENTS + Len(Ttys)
  BY <1>3, <1>4, FileSizes, SMT DEF FilesInv, CountInv
<1>6. imap # Numbers
  BY <1>3, <1>5, FileSizes, FileSets, SMT
<1>7. Numbers \ imap # {} /\ Numbers \ imap \in SUBSET Nat
  BY <1>1, <1>6, FileSets
<1>8. Extents \ smap # {} /\ Extents \ smap \in SUBSET Nat
  BY <1>1, FileSets
<1>9. alloc_imap_bit \in Numbers \ imap
  BY <1>7, MinIn DEF alloc_imap_bit
<1>10. alloc_smap_bit \in Extents \ smap
  BY <1>8, MinIn DEF alloc_smap_bit
<1> QED  BY <1>2, <1>3, <1>5, <1>9, <1>10

\* new_dir_entry finds room: the entries in use name different inodes in use.
LEMMA RoomForEntry ==
  ASSUME FilesInv, smap # Extents
  PROVE  NewEntry \in Entries
<1> DEFINE free == {k \in 1 .. dirsize : dir[k].nr = 0}
           f    == [j \in 1 .. dirsize |-> dir[j].nr]
<1>1. dirsize \in Nat /\ dirsize <= NR_ENTRIES /\ 1 .. dirsize \in SUBSET Entries
  <2>1. dirsize \in 0 .. NR_ENTRIES
    BY DEF FilesInv, FilesType
  <2> QED  BY <2>1, FileSizes, SMT DEF Entries
<1>2. CASE free # {}
  <2>1. NewEntry = Min(free)
    BY <1>2 DEF NewEntry
  <2>2. free \in SUBSET Nat /\ free \in SUBSET Entries
    BY <1>1, SMT
  <2> HIDE DEF free
  <2> QED  BY <1>2, <2>1, <2>2, MinIn
<1>3. CASE free = {}
  <2>1. NewEntry = dirsize + 1
    BY <1>3 DEF NewEntry
  <2>2. \A j \in 1 .. dirsize : dir[j].nr # 0
    BY <1>3
  <2>3. \A j \in 1 .. dirsize : dir[j].nr \in imap
    BY <1>1, <2>2 DEF FilesInv, EntriesInv
  <2>4. \A i, j \in 1 .. dirsize : dir[i].nr = dir[j].nr => i = j
    BY <1>1, <2>2 DEF FilesInv, EntriesInv
  <2>5. f \in Injection(1 .. dirsize, imap)
    BY <2>3, <2>4 DEF Injection, IsInjective
  <2>6. Cardinality(1 .. dirsize) <= Cardinality(imap)
    <3> HIDE DEF f
    <3> QED  BY <2>5, Allocated, FS_Injection
  <2>7. Cardinality(1 .. dirsize) = IF 1 > dirsize THEN 0 ELSE dirsize - 1 + 1
    BY <1>1, FS_Interval, SMT
  <2>8. dirsize < NR_EXTENTS + Len(Ttys)
    BY <1>1, <2>6, <2>7, Allocated, FileSizes, SMT
  <2> QED  BY <1>1, <2>1, <2>8, FileSizes, SMT DEF Entries
<1> QED  BY <1>2, <1>3

\* The new entry names an inode that no other entry names; a long name can only
\* clear the one behind it.
LEMMA EntryAdded ==
  ASSUME FilesInv, smap # Extents, NEW n \in Numbers, n \notin imap, NEW name \in Names,
         new_dir_entry(n, name), imap' = imap \cup {n}
  PROVE  /\ dir' \in [Entries -> [nr : Numbers \cup {0}, name : Fields]]
         /\ dirsize' \in 0 .. NR_ENTRIES /\ EntriesInv'
<1>1. /\ dir \in [Entries -> [nr : Numbers \cup {0}, name : Fields]]
      /\ dirsize \in 0 .. NR_ENTRIES
  BY DEF FilesInv, FilesType
<1>2. PICK k \in Entries : k = NewEntry
  BY RoomForEntry
<1>3. PICK field \in Fields : field = strcpy(dir[k].name, name)
  <2>1. dir[k].name \in Fields
    BY <1>1
  <2>2. strcpy(dir[k].name, name) \in {name} \cup Leftovers
    BY <2>1, NamesAssumption DEF Fields
  <2> QED  BY <2>2 DEF Fields, Paths
<1>4. /\ dir' = [j \in Entries |->
                   CASE j = k -> [nr |-> n, name |-> field]
                     [] j = k + 1 /\ name \in LongNames -> [dir[j] EXCEPT !.nr = 0]
                     [] OTHER -> dir[j]]
      /\ dirsize' = IF k > dirsize THEN k ELSE dirsize
  BY <1>2, <1>3, SMT DEF new_dir_entry
<1>5. ASSUME NEW j \in Entries
      PROVE  /\ dir'[j] \in [nr : Numbers \cup {0}, name : Fields]
             /\ j = k => dir'[j].nr = n
             /\ j # k => dir'[j].nr \in {0, dir[j].nr}
  <2>1. CASE j = k
    <3>1. k \in Nat
      BY FileSets
    <3>2. dir'[j] = [nr |-> n, name |-> field]
      BY <1>4, <2>1, <3>1, SMT
    <3>3. [nr |-> n, name |-> field] \in [nr : Numbers \cup {0}, name : Fields]
      OBVIOUS
    <3>4. dir'[j].nr = n
      BY <3>2, SMT
    <3> QED  BY <2>1, <3>2, <3>3, <3>4
  <2>2. CASE j # k /\ j = k + 1 /\ name \in LongNames
    <3>1. dir'[j] = [dir[j] EXCEPT !.nr = 0]
      BY <1>4, <2>2
    <3> QED  BY <1>1, <2>2, <3>1
  <2>3. CASE j # k /\ ~(j = k + 1 /\ name \in LongNames)
    <3>1. dir'[j] = dir[j]
      BY <1>4, <2>3
    <3> QED  BY <1>1, <2>3, <3>1
  <2> QED  BY <2>1, <2>2, <2>3
<1>6. dir' \in [Entries -> [nr : Numbers \cup {0}, name : Fields]]
  <2>1. dir' = [j \in Entries |-> dir'[j]]
    BY <1>4, SMT
  <2> QED  BY <1>5, <2>1
<1>7. dirsize' \in 0 .. NR_ENTRIES
  <2>1. k \in 0 .. NR_ENTRIES
    BY FileSizes, SMT DEF Entries
  <2>2. dirsize' = k \/ dirsize' = dirsize
    BY <1>4
  <2> QED  BY <1>1, <2>1, <2>2
<1>8. EntriesInv'
  <2>1. n # 0
    BY FileSets
  <2>2. \A j \in Entries : dir[j].nr # 0 => dir[j].nr \in imap
    BY DEF FilesInv, EntriesInv
  <2>3. \A i, j \in Entries : dir[i].nr # 0 /\ dir[i].nr = dir[j].nr => i = j
    BY DEF FilesInv, EntriesInv
  <2>4. ASSUME NEW i \in Entries, dir'[i].nr # 0
        PROVE  /\ dir'[i].nr \in imap'
               /\ \A j \in Entries : dir'[j].nr = dir'[i].nr => j = i
    <3>1. dir'[i].nr \in imap'
      BY <1>5, <2>2, <2>4
    <3>2. ASSUME NEW j \in Entries, dir'[j].nr = dir'[i].nr PROVE j = i
      <4>1. CASE i = k
        BY <1>5, <2>1, <2>2, <2>4, <3>2, <4>1
      <4>2. CASE i # k /\ j = k
        BY <1>5, <2>1, <2>2, <2>4, <3>2, <4>2, ZenonT(30)
      <4>3. CASE i # k /\ j # k
        BY <1>5, <2>3, <2>4, <3>2, <4>3
      <4> QED  BY <4>1, <4>2, <4>3
    <3> QED  BY <3>1, <3>2
  <2> QED  BY <2>4 DEF EntriesInv
<1> QED  BY <1>6, <1>7, <1>8

\* A new file gets an extent no other file has.
LEMMA SectorsTaken ==
  ASSUME FilesInv, NEW n \in Numbers \ imap, NEW e \in Extents \ smap,
         IsFiniteSet(imap), IsFiniteSet(smap),
         imap' = imap \cup {n}, smap' = smap \cup {e},
         inodes' = [inodes EXCEPT ![n] = [mode |-> "file", ext |-> e]]
  PROVE  /\ SectorsRight' /\ CountInv'
         /\ imap' \in SUBSET Numbers /\ smap' \in SUBSET Extents
         /\ inodes' \in [Numbers -> [mode : Modes, ext : Extents]]
         /\ inodes'[n] = [mode |-> "file", ext |-> e]
         /\ \A m \in Numbers \ {n} : inodes'[m] = inodes[m]
<1>1. /\ inodes \in [Numbers -> [mode : Modes, ext : Extents]]
      /\ imap \in SUBSET Numbers /\ smap \in SUBSET Extents
  BY DEF FilesInv, FilesType
<1>2. /\ inodes' \in [Numbers -> [mode : Modes, ext : Extents]]
      /\ inodes'[n] = [mode |-> "file", ext |-> e]
      /\ \A m \in Numbers \ {n} : inodes'[m] = inodes[m]
  BY <1>1 DEF Modes
<1>3. CountInv'
  <2>1. Cardinality(imap') = Cardinality(imap) + 1 /\ Cardinality(smap') = Cardinality(smap) + 1
    BY FS_AddElement
  <2>2. Cardinality(imap) \in Nat /\ Cardinality(smap) \in Nat
    BY FS_CardinalityType
  <2> QED  BY <2>1, <2>2, FileSizes, SMT DEF FilesInv, CountInv
<1>4. SectorsRight'
  <2> DEFINE stored == {m \in imap : inodes[m].mode \in {"file", "dir"}}
             later  == {m \in imap' : inodes'[m].mode \in {"file", "dir"}}
  <2>1. later = stored \cup {n}
    BY <1>1, <1>2
  <2>2. smap = {inodes[m].ext : m \in stored}
    BY DEF FilesInv, SectorsRight
  <2>3. \A m \in stored : m \in Numbers \ {n} /\ inodes'[m].ext = inodes[m].ext /\ inodes[m].ext \in smap
    BY <1>1, <1>2, <2>2
  <2>4. inodes'[n].ext = e
    BY <1>2
  <2>5. smap' = {inodes'[m].ext : m \in later}
    <3> HIDE DEF stored, later
    <3> QED  BY <2>1, <2>2, <2>3, <2>4
  <2>6. \A l, m \in stored : inodes[l].ext = inodes[m].ext => l = m
    BY DEF FilesInv, SectorsRight
  <2>7. \A l, m \in later : inodes'[l].ext = inodes'[m].ext => l = m
    <3> HIDE DEF stored, later
    <3> QED  BY <2>1, <2>3, <2>4, <2>6, SMT
  <2> QED  BY <2>5, <2>7, Zenon DEF SectorsRight
<1> QED  BY <1>1, <1>2, <1>3, <1>4

\* create_file: the new inode is cached, in a slot that was free.
LEMMA CreateInv ==
  ASSUME FilesInv, NEW p \in Procs, NEW name \in Names, Requests(p),
         FreeFDs(p) # {}, FreeDescs # {}, create_file(p, name),
         smap # Extents, SlotFor(alloc_imap_bit) # 0
  PROVE  FilesInv'
<1>1. PICK n \in Numbers \ imap : n = alloc_imap_bit
  BY Allocated
<1>2. PICK e \in Extents \ smap : e = alloc_smap_bit
  BY Allocated
<1>3. PICK s : s = SlotFor(n)
  OBVIOUS
<1>4. Cached(n) = {}
  BY CachedSlot DEF Cached
<1>5. s \in Slots /\ inode_table[s] = NoSlot
  BY <1>1, <1>3, <1>4, SlotFound DEF FilesInv, SlotsInv
<1>6. /\ imap' = imap \cup {n} /\ smap' = smap \cup {e}
      /\ inode_table' = [inode_table EXCEPT ![s] =
                           [num |-> n, cnt |-> 1, mode |-> "file", ext |-> e]]
      /\ inodes' = [inodes EXCEPT ![n] = [mode |-> "file", ext |-> e]]
      /\ new_dir_entry(n, name) /\ Opened(p, s) /\ UNCHANGED procs
  BY <1>1, <1>2, <1>3 DEF create_file, new_inode
<1>7. /\ SectorsRight' /\ CountInv'
      /\ imap' \in SUBSET Numbers /\ smap' \in SUBSET Extents
      /\ inodes' \in [Numbers -> [mode : Modes, ext : Extents]]
      /\ inodes'[n] = [mode |-> "file", ext |-> e]
      /\ \A m \in Numbers \ {n} : inodes'[m] = inodes[m]
  BY <1>6, Allocated, SectorsTaken
<1>8. /\ inode_table' \in [Slots -> SlotRecord] /\ SlotsInv' /\ CacheRight'
      /\ \A t \in Slots \ {s} : inode_table'[t] = inode_table[t]
      /\ inode_table'[s].num = n /\ inode_table'[s].cnt = 1
  <2>1. "file" \in Modes /\ imap \in SUBSET Numbers
    BY DEF Modes, FilesInv, FilesType
  <2>2. n \in imap' /\ imap \in SUBSET imap' /\ \A k \in imap \ {n} : inodes'[k] = inodes[k]
    BY <1>6, <1>7, <2>1
  <2> QED  BY <1>4, <1>5, <1>6, <1>7, <2>1, <2>2, SlotFilled
<1>9. /\ dir' \in [Entries -> [nr : Numbers \cup {0}, name : Fields]]
      /\ dirsize' \in 0 .. NR_ENTRIES /\ EntriesInv'
  BY <1>6, EntryAdded
<1>10. /\ filp' \in [Procs -> [FDs -> Descs \cup {0}]]
       /\ f_desc_table' \in [Descs -> [inode : Slots \cup {0}, cnt : Nat]]
       /\ ForkInv' /\ SharedRight'
       /\ Cardinality(OpenOn(s))' = Cardinality(OpenOn(s)) + 1
       /\ \A t \in Slots \ {s} : OpenOn(t)' = OpenOn(t)
  BY <1>5, <1>6, OpenedUsers
<1>11. alive' \in SUBSET Procs
  BY <1>6 DEF FilesInv, FilesType, procs
<1>12. FilesType'
  BY <1>7, <1>8, <1>9, <1>10, <1>11 DEF FilesType, SlotRecord
<1>13. InUseStays'
  <2>1. n # ROOT_INODE
    BY RootStays
  <2>2. Cardinality(OpenOn(s)) = 0
    <3>1. NoSlot.cnt = 0 /\ NoSlot.num # ROOT_INODE
      BY SMT DEF NoSlot, ROOT_INODE
    <3> QED  BY <1>5, <3>1, UsersFinite, SMT DEF FilesInv, InUseStays
  <2> SUFFICES ASSUME NEW t \in Slots
               PROVE  inode_table'[t].cnt >= Cardinality(OpenOn(t))' +
                        (IF inode_table'[t].num = ROOT_INODE THEN 1 ELSE 0)
    BY DEF InUseStays, ROOT_INODE
  <2>3. CASE t = s
    BY <1>8, <1>10, <2>1, <2>2, <2>3, SMT
  <2>4. CASE t # s
    BY <1>8, <1>10, <2>4 DEF FilesInv, InUseStays
  <2> QED  BY <2>3, <2>4
<1> QED  BY <1>7, <1>8, <1>9, <1>10, <1>12, <1>13 DEF FilesInv

-----------------------------------------------------------------------------
(***************************************************************************)
(* The requests                                                            *)
(***************************************************************************)

\* What is on the disk is right as long as a request leaves it alone.
LEMMA DiskKept ==
  ASSUME FilesInv, UNCHANGED disk
  PROVE  /\ SectorsRight' /\ CountInv' /\ EntriesInv'
         /\ imap' \in SUBSET Numbers /\ smap' \in SUBSET Extents
         /\ inodes' \in [Numbers -> [mode : Modes, ext : Extents]]
         /\ dir' \in [Entries -> [nr : Numbers \cup {0}, name : Fields]]
         /\ dirsize' \in 0 .. NR_ENTRIES
<1>1. /\ imap' = imap /\ smap' = smap /\ inodes' = inodes /\ dir' = dir /\ dirsize' = dirsize
  BY DEF disk
<1>2. SectorsRight' /\ CountInv' /\ EntriesInv'
  BY <1>1 DEF FilesInv, SectorsRight, CountInv, EntriesInv
<1> QED  BY <1>1, <1>2 DEF FilesInv, FilesType

\* Who uses what is the same as long as descriptors and processes are.
LEMMA UsersKept ==
  ASSUME FilesInv, UNCHANGED <<filp, f_desc_table, procs>>
  PROVE  /\ filp' \in [Procs -> [FDs -> Descs \cup {0}]]
         /\ f_desc_table' \in [Descs -> [inode : Slots \cup {0}, cnt : Nat]]
         /\ alive' \in SUBSET Procs
         /\ ForkInv' /\ SharedRight'
         /\ \A t \in Slots : OpenOn(t)' = OpenOn(t)
<1>1. /\ filp' = filp /\ f_desc_table' = f_desc_table /\ alive' = alive /\ forking' = forking
  BY DEF procs
<1>2. Counted' = Counted
  BY <1>1 DEF Counted
<1>3. \A d : Users(d)' = Users(d) /\ OpenOn(d)' = OpenOn(d)
  BY <1>1, <1>2 DEF Users, OpenOn
<1>4. ForkInv'
  BY <1>1, <1>2 DEF FilesInv, ForkInv, NoFile
<1>5. SharedRight'
  BY <1>1, <1>3 DEF FilesInv, SharedRight
<1> QED  BY <1>1, <1>3, <1>4, <1>5 DEF FilesInv, FilesType

\* A panic or an assertion that fails changes nothing.
LEMMA HaltInv ==
  ASSUME FilesInv, UNCHANGED <<filp, f_desc_table, inode_table, disk, procs>>
  PROVE  FilesInv'
<1>1. imap' = imap /\ inodes' = inodes /\ inode_table' = inode_table
  BY DEF disk
<1>2. SlotsInv' /\ CacheRight'
  BY <1>1 DEF FilesInv, SlotsInv, CacheRight, Cached
<1>3. InUseStays'
  BY <1>1, UsersKept DEF FilesInv, InUseStays
<1> QED  BY <1>1, <1>2, <1>3, DiskKept, UsersKept DEF FilesInv, FilesType

\* do_open of a file that is there.
LEMMA OpenFileInv ==
  ASSUME FilesInv, NEW p \in Procs, NEW name, Requests(p), FreeFDs(p) # {}, FreeDescs # {},
         search_file(name) # 0, SlotFor(search_file(name)) # 0, OpenFile(p, name)
  PROVE  FilesInv'
<1>1. PICK n \in imap : n = search_file(name)
  BY FoundInUse
<1>2. PICK s \in Slots : s = SlotFor(n)
  BY <1>1, SlotFound
<1>3. /\ inode_table' = get_inode(n) /\ Opened(p, s) /\ UNCHANGED <<disk, procs>>
      /\ SlotFor(n) # 0
  BY <1>1, <1>2 DEF OpenFile
<1>4. /\ inode_table' \in [Slots -> SlotRecord]
      /\ SlotsInv' /\ CacheRight'
      /\ \A t \in Slots \ {s} : inode_table'[t] = inode_table[t]
      /\ inode_table'[s].cnt = inode_table[s].cnt + 1
      /\ inode_table'[s].num = ROOT_INODE <=> inode_table[s].num = ROOT_INODE
  BY <1>2, <1>3, SlotTaken
<1>5. /\ filp' \in [Procs -> [FDs -> Descs \cup {0}]]
      /\ f_desc_table' \in [Descs -> [inode : Slots \cup {0}, cnt : Nat]]
      /\ ForkInv' /\ SharedRight'
      /\ Cardinality(OpenOn(s))' = Cardinality(OpenOn(s)) + 1
      /\ \A t \in Slots \ {s} : OpenOn(t)' = OpenOn(t)
  BY <1>3, OpenedUsers
<1>6. alive' \in SUBSET Procs
  BY <1>3 DEF FilesInv, FilesType, procs
<1>7. InUseStays'
  <2> SUFFICES ASSUME NEW t \in Slots
               PROVE  inode_table'[t].cnt >= Cardinality(OpenOn(t))' +
                        (IF inode_table'[t].num = ROOT_INODE THEN 1 ELSE 0)
    BY DEF InUseStays, ROOT_INODE
  <2>1. /\ inode_table[t].cnt \in Nat /\ Cardinality(OpenOn(t)) \in Nat
        /\ inode_table[t].cnt >= Cardinality(OpenOn(t)) +
             (IF inode_table[t].num = ROOT_INODE THEN 1 ELSE 0)
    BY UsersFinite DEF FilesInv, FilesType, InUseStays
  <2>2. CASE t = s
    BY <1>4, <1>5, <2>1, <2>2, SMT
  <2>3. CASE t # s
    BY <1>4, <1>5, <2>1, <2>3
  <2> QED  BY <2>2, <2>3
<1>8. FilesType'
  BY <1>3, <1>4, <1>5, <1>6, DiskKept DEF FilesType, SlotRecord
<1> QED  BY <1>3, <1>4, <1>5, <1>7, <1>8, DiskKept DEF FilesInv

\* do_unlink that is refused: the reference it took stays.
LEMMA UnlinkRefusedInv ==
  ASSUME FilesInv, NEW n \in imap, SlotFor(n) # 0, UnlinkRefused(n)
  PROVE  FilesInv'
<1>1. /\ inode_table' = get_inode(n) /\ UNCHANGED disk
      /\ UNCHANGED <<filp, f_desc_table, procs>>
  BY DEF UnlinkRefused
<1>2. PICK s \in Slots : s = SlotFor(n)
  BY SlotFound
<1>3. /\ inode_table' \in [Slots -> SlotRecord]
      /\ SlotsInv' /\ CacheRight'
      /\ \A t \in Slots \ {s} : inode_table'[t] = inode_table[t]
      /\ inode_table'[s].cnt = inode_table[s].cnt + 1
      /\ inode_table'[s].num = ROOT_INODE <=> inode_table[s].num = ROOT_INODE
  BY <1>1, <1>2, SlotTaken
<1>4. InUseStays'
  <2> SUFFICES ASSUME NEW t \in Slots
               PROVE  inode_table'[t].cnt >= Cardinality(OpenOn(t))' +
                        (IF inode_table'[t].num = ROOT_INODE THEN 1 ELSE 0)
    BY DEF InUseStays, ROOT_INODE
  <2>1. /\ inode_table[t].cnt \in Nat /\ Cardinality(OpenOn(t)) \in Nat
        /\ inode_table[t].cnt >= Cardinality(OpenOn(t)) +
             (IF inode_table[t].num = ROOT_INODE THEN 1 ELSE 0)
    BY UsersFinite DEF FilesInv, FilesType, InUseStays
  <2>2. OpenOn(t)' = OpenOn(t)
    BY <1>1, UsersKept
  <2>3. CASE t = s
    BY <1>3, <2>1, <2>2, <2>3, SMT
  <2>4. CASE t # s
    BY <1>3, <2>1, <2>2, <2>4
  <2> QED  BY <2>3, <2>4
<1>5. FilesType'
  BY <1>1, <1>3, DiskKept, UsersKept DEF FilesType, SlotRecord
<1> QED  BY <1>1, <1>3, <1>4, <1>5, DiskKept, UsersKept DEF FilesInv

\* put_inode k times, of a slot with at least k references besides the root's.
LEMMA PutInode ==
  ASSUME NEW slot \in SlotRecord, NEW k \in Nat,
         slot.cnt = 0 => slot = NoSlot,
         slot.cnt >= k + (IF slot.num = ROOT_INODE THEN 1 ELSE 0)
  PROVE  /\ put_inode(slot, k) \in SlotRecord
         /\ put_inode(slot, k).cnt = slot.cnt - k
         /\ \/ put_inode(slot, k) = NoSlot /\ slot.num # ROOT_INODE
            \/ /\ slot.cnt > 0 /\ put_inode(slot, k).cnt > 0
               /\ put_inode(slot, k).num = slot.num
               /\ put_inode(slot, k).mode = slot.mode
               /\ put_inode(slot, k).ext = slot.ext
<1>1. slot.cnt \in Nat
  BY DEF SlotRecord
<1>2. CASE slot.cnt <= k
  <2>1. put_inode(slot, k) = NoSlot
    BY <1>2 DEF put_inode
  <2>2. NoSlot \in SlotRecord /\ NoSlot.cnt = 0
    BY FileSets DEF NoSlot, SlotRecord, Modes
  <2>3. slot.cnt = k /\ slot.num # ROOT_INODE
    BY <1>1, <1>2, SMT
  <2> QED  BY <1>1, <2>1, <2>2, <2>3, SMT
<1>3. CASE ~(slot.cnt <= k)
  <2>1. put_inode(slot, k) = [slot EXCEPT !.cnt = @ - k]
    BY <1>3 DEF put_inode
  <2>2. slot.cnt - k \in Nat /\ slot.cnt - k > 0
    BY <1>1, <1>3, SMT
  <2>3. /\ put_inode(slot, k) \in SlotRecord
        /\ put_inode(slot, k).cnt = slot.cnt - k
        /\ put_inode(slot, k).num = slot.num
        /\ put_inode(slot, k).mode = slot.mode
        /\ put_inode(slot, k).ext = slot.ext
    BY <2>1, <2>2 DEF SlotRecord
  <2> QED  BY <1>1, <1>3, <2>2, <2>3, SMT
<1> QED  BY <1>2, <1>3

\* What FilesInv says of one slot.
LEMMA SlotFacts ==
  ASSUME FilesInv, NEW t \in Slots
  PROVE  /\ inode_table[t] \in SlotRecord /\ inode_table[t].cnt \in Nat
         /\ Cardinality(OpenOn(t)) \in Nat
         /\ inode_table[t].cnt = 0 => inode_table[t] = NoSlot
         /\ inode_table[t].cnt >= Cardinality(OpenOn(t)) +
              (IF inode_table[t].num = ROOT_INODE THEN 1 ELSE 0)
BY UsersFinite DEF FilesInv, FilesType, SlotRecord, SlotsInv, InUseStays

\* do_close
LEMMA CloseInv ==
  ASSUME FilesInv, NEW p \in Procs, NEW fd \in FDs, do_close(p, fd)
  PROVE  FilesInv'
<1>1. PICK d : d = filp[p][fd]
  OBVIOUS
<1>2. PICK s : s = f_desc_table[d].inode
  OBVIOUS
<1>3. /\ Requests(p) /\ d # 0 /\ UNCHANGED disk /\ UNCHANGED procs
      /\ inode_table' = [inode_table EXCEPT ![s] = put_inode(@, 1)]
      /\ f_desc_table' = [f_desc_table EXCEPT ![d] = Release(@, 1)]
      /\ filp' = [filp EXCEPT ![p][fd] = 0]
  BY <1>1, <1>2 DEF do_close
<1>4. /\ filp' \in [Procs -> [FDs -> Descs \cup {0}]]
      /\ f_desc_table' \in [Descs -> [inode : Slots \cup {0}, cnt : Nat]]
      /\ ForkInv' /\ SharedRight' /\ s \in Slots
      /\ Cardinality(OpenOn(s))' = Cardinality(OpenOn(s)) - 1
      /\ Cardinality(OpenOn(s)) > 0
      /\ \A t \in Slots \ {s} : OpenOn(t)' = OpenOn(t)
  BY <1>1, <1>2, <1>3, ClosedUsers
<1>5. PICK slot : slot = inode_table[s]
  OBVIOUS
<1>6. /\ slot \in SlotRecord /\ slot.cnt \in Nat /\ (slot.cnt = 0 => slot = NoSlot)
      /\ slot.cnt >= 1 + (IF slot.num = ROOT_INODE THEN 1 ELSE 0)
  BY <1>4, <1>5, SlotFacts, SMT
<1>7. PICK left : left = put_inode(slot, 1)
  OBVIOUS
<1>8. /\ left \in SlotRecord /\ left.cnt = slot.cnt - 1
      /\ \/ left = NoSlot /\ slot.num # ROOT_INODE
         \/ /\ slot.cnt > 0 /\ left.cnt > 0 /\ left.num = slot.num
            /\ left.mode = slot.mode /\ left.ext = slot.ext
  BY <1>6, <1>7, PutInode
<1>9. inode_table \in [Slots -> SlotRecord]
  BY DEF FilesInv, FilesType, SlotRecord
<1>10. /\ inode_table' \in [Slots -> SlotRecord]
       /\ inode_table'[s] = left
       /\ \A t \in Slots \ {s} : inode_table'[t] = inode_table[t]
  BY <1>3, <1>4, <1>5, <1>7, <1>8, <1>9
<1>11. SlotsInv' /\ CacheRight'
  <2>1. ASSUME NEW t \in Slots
        PROVE  \/ inode_table'[t] = NoSlot /\ inode_table[t].num # ROOT_INODE
               \/ /\ inode_table[t].cnt > 0 /\ inode_table'[t].cnt > 0
                  /\ inode_table'[t].num = inode_table[t].num
                  /\ inode_table'[t].mode = inode_table[t].mode
                  /\ inode_table'[t].ext = inode_table[t].ext
    <3>1. CASE t = s
      BY <1>5, <1>8, <1>10, <3>1
    <3>2. CASE t # s
      BY <1>10, <3>2, SlotFacts, SMT DEF NoSlot, ROOT_INODE
    <3> QED  BY <3>1, <3>2
  <2> QED  BY <1>3, <1>10, <2>1, CountsChange
<1>12. InUseStays'
  <2> SUFFICES ASSUME NEW t \in Slots
               PROVE  inode_table'[t].cnt >= Cardinality(OpenOn(t))' +
                        (IF inode_table'[t].num = ROOT_INODE THEN 1 ELSE 0)
    BY DEF InUseStays, ROOT_INODE
  <2>1. CASE t = s
    <3>1. left.num = ROOT_INODE => slot.num = ROOT_INODE
      BY <1>8, SMT DEF NoSlot, ROOT_INODE
    <3> QED  BY <1>4, <1>5, <1>8, <1>10, <2>1, <3>1, SlotFacts, SMT
  <2>2. CASE t # s
    BY <1>4, <1>10, <2>2, SlotFacts
  <2> QED  BY <2>1, <2>2
<1>13. alive' \in SUBSET Procs
  BY <1>3 DEF FilesInv, FilesType, procs
<1>14. FilesType'
  BY <1>3, <1>4, <1>10, <1>13, DiskKept DEF FilesType, SlotRecord
<1> QED  BY <1>3, <1>4, <1>11, <1>12, <1>14, DiskKept DEF FilesInv

\* fs_exit
LEMMA ExitInv ==
  ASSUME FilesInv, NEW p \in Procs, fs_exit(p)
  PROVE  FilesInv'
<1>1. /\ inode_table' = [s \in Slots |-> put_inode(inode_table[s], UsesInode(p, s))]
      /\ UNCHANGED disk
  BY DEF fs_exit
<1>2. ASSUME NEW s \in Slots
      PROVE  /\ inode_table'[s] \in SlotRecord
             /\ inode_table'[s].cnt = inode_table[s].cnt - UsesInode(p, s)
             /\ \/ inode_table'[s] = NoSlot /\ inode_table[s].num # ROOT_INODE
                \/ /\ inode_table[s].cnt > 0 /\ inode_table'[s].cnt > 0
                   /\ inode_table'[s].num = inode_table[s].num
                   /\ inode_table'[s].mode = inode_table[s].mode
                   /\ inode_table'[s].ext = inode_table[s].ext
  <2>1. PICK slot : slot = inode_table[s]
    OBVIOUS
  <2>2. PICK k : k = UsesInode(p, s)
    OBVIOUS
  <2>3. /\ Cardinality(OpenOn(s)) = Cardinality(OpenOn(s)') + k
        /\ k \in Nat /\ Cardinality(OpenOn(s)') \in Nat
    BY <2>2, ExitedUsers
  <2>4. /\ slot \in SlotRecord /\ slot.cnt \in Nat /\ (slot.cnt = 0 => slot = NoSlot)
        /\ slot.cnt >= k + (IF slot.num = ROOT_INODE THEN 1 ELSE 0)
    BY <2>1, <2>3, SlotFacts, SMT
  <2>5. inode_table'[s] = put_inode(slot, k)
    BY <1>1, <2>1, <2>2
  <2> QED  BY <2>1, <2>2, <2>3, <2>4, <2>5, PutInode, SMT
<1>3. inode_table' \in [Slots -> SlotRecord]
  BY <1>1, <1>2
<1>4. SlotsInv' /\ CacheRight'
  BY <1>1, <1>2, <1>3, CountsChange
<1>5. InUseStays'
  <2> SUFFICES ASSUME NEW s \in Slots
               PROVE  inode_table'[s].cnt >= Cardinality(OpenOn(s)') +
                        (IF inode_table'[s].num = ROOT_INODE THEN 1 ELSE 0)
    BY DEF InUseStays, ROOT_INODE
  <2>1. /\ Cardinality(OpenOn(s)) = Cardinality(OpenOn(s)') + UsesInode(p, s)
        /\ UsesInode(p, s) \in Nat /\ Cardinality(OpenOn(s)') \in Nat
    BY ExitedUsers
  <2>2. inode_table'[s].num = ROOT_INODE => inode_table[s].num = ROOT_INODE
    BY <1>2, SMT DEF NoSlot, ROOT_INODE
  <2>3. inode_table'[s].cnt = inode_table[s].cnt - UsesInode(p, s)
    BY <1>2
  <2> QED  BY <2>1, <2>2, <2>3, SlotFacts, SMT
<1>6. FilesType'
  BY <1>1, <1>3, ExitedUsers, DiskKept DEF FilesType, SlotRecord
<1> QED  BY <1>1, <1>4, <1>5, <1>6, ExitedUsers, DiskKept DEF FilesInv

\* fs_fork
LEMMA ForkedInv ==
  ASSUME FilesInv, fs_fork
  PROVE  FilesInv'
<1>1. PICK c : c = forking[2]
  OBVIOUS
<1>2. /\ inode_table' = [s \in Slots |->
           [inode_table[s] EXCEPT !.cnt = @ + UsesInode(c, s)]]
      /\ UNCHANGED disk /\ filp' = filp
  BY <1>1 DEF fs_fork
<1>3. ASSUME NEW s \in Slots
      PROVE  /\ Cardinality(OpenOn(s)') = Cardinality(OpenOn(s)) + UsesInode(c, s)
             /\ UsesInode(c, s) \in Nat
             /\ UsesInode(c, s) > 0 => Cardinality(OpenOn(s)) > 0
  BY <1>1, ForkedUsers
<1>4. ASSUME NEW s \in Slots
      PROVE  /\ inode_table'[s] \in SlotRecord
             /\ inode_table'[s].cnt = inode_table[s].cnt + UsesInode(c, s)
             /\ inode_table'[s].num = inode_table[s].num
             /\ inode_table'[s].mode = inode_table[s].mode
             /\ inode_table'[s].ext = inode_table[s].ext
  BY <1>2, <1>3, SlotFacts, SMT DEF SlotRecord
<1>5. inode_table' \in [Slots -> SlotRecord]
  BY <1>2, <1>4
<1>6. ASSUME NEW s \in Slots, inode_table[s].cnt = 0
      PROVE  inode_table'[s] = NoSlot
  <2>1. Cardinality(OpenOn(s)) = 0 /\ inode_table[s] = NoSlot
    BY <1>6, SlotFacts, SMT
  <2>2. UsesInode(c, s) = 0
    BY <1>3, <2>1, SMT
  <2>3. inode_table'[s] = [NoSlot EXCEPT !.cnt = @ + 0]
    BY <1>2, <2>1, <2>2
  <2> QED  BY <2>3, SMT DEF NoSlot
<1>7. SlotsInv' /\ CacheRight'
  <2>1. ASSUME NEW s \in Slots
        PROVE  \/ inode_table'[s] = NoSlot /\ inode_table[s].num # ROOT_INODE
               \/ /\ inode_table[s].cnt > 0 /\ inode_table'[s].cnt > 0
                  /\ inode_table'[s].num = inode_table[s].num
                  /\ inode_table'[s].mode = inode_table[s].mode
                  /\ inode_table'[s].ext = inode_table[s].ext
    <3>1. CASE inode_table[s].cnt = 0
      BY <1>6, <3>1, SlotFacts, SMT DEF NoSlot, ROOT_INODE
    <3>2. CASE inode_table[s].cnt # 0
      <4>1. inode_table[s].cnt > 0 /\ inode_table[s].cnt + UsesInode(c, s) > 0
        BY <1>3, <3>2, SlotFacts, SMT
      <4> QED  BY <1>4, <4>1
    <3> QED  BY <3>1, <3>2
  <2> QED  BY <1>2, <1>5, <2>1, CountsChange
<1>8. InUseStays'
  <2> SUFFICES ASSUME NEW s \in Slots
               PROVE  inode_table'[s].cnt >= Cardinality(OpenOn(s)') +
                        (IF inode_table'[s].num = ROOT_INODE THEN 1 ELSE 0)
    BY DEF InUseStays, ROOT_INODE
  <2> QED  BY <1>3, <1>4, SlotFacts, SMT
<1>9. FilesType'
  <2>1. filp' \in [Procs -> [FDs -> Descs \cup {0}]]
    BY <1>2 DEF FilesInv, FilesType
  <2> QED  BY <1>2, <1>5, <2>1, ForkedUsers, DiskKept DEF FilesType, SlotRecord
<1> QED  BY <1>2, <1>7, <1>8, <1>9, ForkedUsers, DiskKept DEF FilesInv

\* ForkCopies
LEMMA CopiedInv ==
  ASSUME FilesInv, NEW p \in Procs, NEW c \in Procs, ForkCopies(p, c)
  PROVE  FilesInv'
<1>1. /\ f_desc_table' = f_desc_table /\ inode_table' = inode_table /\ alive' = alive
      /\ imap' = imap /\ inodes' = inodes /\ UNCHANGED disk
  BY DEF ForkCopies, disk
<1>2. SlotsInv' /\ CacheRight'
  BY <1>1 DEF FilesInv, SlotsInv, CacheRight, Cached
<1>3. FilesType'
  BY <1>1, ForkCopiesInv, DiskKept DEF FilesInv, FilesType
<1> QED  BY <1>1, <1>2, <1>3, ForkCopiesInv, DiskKept DEF FilesInv

\* The only entry that names the inode is cleared.
LEMMA ClearedInv ==
  ASSUME FilesInv, NEW n \in imap, ListedAt(n) # {}, EntryCleared(n), imap' = imap \ {n}
  PROVE  /\ dir' \in [Entries -> [nr : Numbers \cup {0}, name : Fields]]
         /\ dirsize' \in 0 .. NR_ENTRIES /\ EntriesInv'
<1>1. /\ n \in Numbers /\ dirsize \in 0 .. NR_ENTRIES
      /\ dir \in [Entries -> [nr : Numbers \cup {0}, name : Fields]]
  BY DEF FilesInv, FilesType
<1>2. PICK k : k = Min(ListedAt(n))
  OBVIOUS
<1>3. k \in 1 .. dirsize /\ k \in Entries /\ dir[k].nr = n
  <2>0. dirsize \in Nat /\ dirsize <= NR_ENTRIES
    <3>1. dirsize \in 0 .. NR_ENTRIES /\ NR_ENTRIES \in Nat
      BY <1>1, FileSizes
    <3> HIDE <1>1
    <3> QED  BY <3>1, SMT
  <2>1. ListedAt(n) \in SUBSET Nat
    BY <2>0, SMT DEF ListedAt
  <2>2. k \in ListedAt(n)
    BY <1>2, <2>1, MinIn
  <2>3. k \in 1 .. dirsize /\ dir[k].nr = n
    BY <2>2 DEF ListedAt
  <2> QED  BY <2>0, <2>3, FileSizes, SMT DEF Entries
<1>4. /\ dir' = [dir EXCEPT ![k] = NoEntry]
       /\ dirsize' = IF k = dirsize
                     THEN Cardinality({j \in 1 .. k - 1 : dir[j].nr # 0}) ELSE dirsize
  BY <1>2 DEF EntryCleared
<1>5. /\ dir' \in [Entries -> [nr : Numbers \cup {0}, name : Fields]]
       /\ dir'[k].nr = 0 /\ \A j \in Entries \ {k} : dir'[j] = dir[j]
  <2>1. NoEntry \in [nr : Numbers \cup {0}, name : Fields] /\ NoEntry.nr = 0
    BY DEF NoEntry, Fields
  <2> QED  BY <1>1, <1>3, <1>4, <2>1
<1>6. dirsize' \in 0 .. NR_ENTRIES
  <2> DEFINE J == {j \in 1 .. k - 1 : dir[j].nr # 0}
  <2>1. k \in Nat /\ k - 1 \in Nat /\ k - 1 <= NR_ENTRIES
    BY <1>3, FileSizes, SMT DEF Entries
  <2>2. IsFiniteSet(1 .. k - 1) /\ Cardinality(1 .. k - 1) = IF 1 > k - 1 THEN 0 ELSE (k - 1) - 1 + 1
    BY <2>1, FS_Interval, SMT
  <2>3. J \in SUBSET (1 .. k - 1)
    OBVIOUS
  <2>4. Cardinality(J) \in Nat /\ Cardinality(J) <= Cardinality(1 .. k - 1)
    <3> HIDE DEF J
    <3> QED  BY <2>2, <2>3, FS_Subset, FS_CardinalityType
  <2>5. Cardinality(J) \in 0 .. NR_ENTRIES
    <3> HIDE DEF J
    <3> QED  BY <2>1, <2>2, <2>4, FileSizes, SMT
  <2> QED  BY <1>1, <1>4, <2>5
<1>7. EntriesInv'
  <2>1. \A j \in Entries : dir[j].nr = n => j = k
    <3>1. n # 0
      BY <1>1, FileSets
    <3> QED  BY <1>3, <3>1 DEF FilesInv, EntriesInv
  <2>2. \A j \in Entries : dir[j].nr # 0 => dir[j].nr \in imap
    BY DEF FilesInv, EntriesInv
  <2>3. \A i, j \in Entries : dir[i].nr # 0 /\ dir[i].nr = dir[j].nr => i = j
    BY DEF FilesInv, EntriesInv
  <2>4. ASSUME NEW i \in Entries, dir'[i].nr # 0
        PROVE  /\ dir'[i].nr \in imap'
               /\ \A j \in Entries : dir'[j].nr = dir'[i].nr => j = i
    <3>1. i # k /\ dir'[i] = dir[i]
      BY <1>5, <2>4
    <3>2. dir'[i].nr \in imap'
      BY <1>4, <2>1, <2>2, <2>4, <3>1, SMT
    <3>3. ASSUME NEW j \in Entries, dir'[j].nr = dir'[i].nr PROVE j = i
      <4>1. j # k /\ dir'[j] = dir[j]
        BY <1>5, <2>4, <3>3
      <4> QED  BY <2>3, <2>4, <3>1, <3>3, <4>1
    <3> QED  BY <3>2, <3>3
  <2> QED  BY <2>4 DEF EntriesInv
<1> QED  BY <1>5, <1>6, <1>7

\* do_unlink that removes the file: nobody had it in the cache, its extent goes,
\* and the only entry that names it if it is found.
LEMMA UnlinkedInv ==
  ASSUME FilesInv, NEW n \in imap, SlotFor(n) # 0, Unlinked(n),
         NEW slot, slot = get_inode(n)[SlotFor(n)],
         slot.mode = "file", slot.cnt <= 1
  PROVE  TablesInv' /\ (halt' = "no" => EntriesInv')
<1>1. /\ inode_table \in [Slots -> SlotRecord] /\ n \in Numbers
      /\ inodes \in [Numbers -> [mode : Modes, ext : Extents]]
      /\ imap \in SUBSET Numbers /\ smap \in SUBSET Extents
      /\ dir \in [Entries -> [nr : Numbers \cup {0}, name : Fields]]
      /\ dirsize \in 0 .. NR_ENTRIES
  BY DEF FilesInv, FilesType, SlotRecord
<1>2. PICK s \in Slots : s = SlotFor(n)
  BY SlotFound
<1>3. Cached(n) = {}
  <2> SUFFICES ASSUME Cached(n) # {} PROVE FALSE
    OBVIOUS
  <2>1. inode_table[s].cnt > 0 /\ inode_table[s].cnt \in Nat
    BY <1>2, SlotFound, SlotFacts DEF Cached
  <2>2. slot = [inode_table[s] EXCEPT !.cnt = @ + 1]
    BY <1>1, <1>2 DEF get_inode
  <2>3. slot.cnt = inode_table[s].cnt + 1
    BY <1>1, <2>2 DEF SlotRecord
  <2> QED  BY <2>1, <2>3, SMT
<1>4. inode_table[s] = NoSlot /\ n # ROOT_INODE
  BY <1>2, <1>3, SlotFound, RootStays DEF FilesInv, SlotsInv
<1>5. slot = [num |-> n, cnt |-> 1, mode |-> inodes[n].mode, ext |-> inodes[n].ext]
  BY <1>1, <1>2, <1>3 DEF get_inode
<1>6. inodes[n].mode = "file"
  BY <1>5, SMT
<1>7. PICK e \in smap : e = inodes[n].ext
  BY <1>6 DEF FilesInv, SectorsRight
<1>8. /\ imap' = imap \ {n} /\ smap' = smap \ {e}
       /\ inodes' = [inodes EXCEPT ![n] = NoInode]
       /\ inode_table' = [inode_table EXCEPT ![s] = NoSlot]
       /\ UNCHANGED <<filp, f_desc_table, procs>>
       /\ \/ ListedAt(n) = {} /\ halt' = "assert" /\ UNCHANGED <<dir, dirsize>>
          \/ ListedAt(n) # {} /\ EntryCleared(n)
  <2>1. e = slot.ext
    BY <1>5, <1>7, SMT
  <2> QED  BY <1>2, <1>7, <2>1 DEF Unlinked
<1>9. inode_table' = inode_table
  BY <1>1, <1>4, <1>8
<1>10. /\ inodes' \in [Numbers -> [mode : Modes, ext : Extents]]
       /\ inodes'[n].mode = "none" /\ \A m \in Numbers \ {n} : inodes'[m] = inodes[m]
  <2>1. NoInode \in [mode : Modes, ext : Extents] /\ NoInode.mode = "none"
    BY FileSets DEF NoInode, Modes
  <2> QED  BY <1>1, <1>8, <2>1
<1>11. /\ dir' \in [Entries -> [nr : Numbers \cup {0}, name : Fields]]
       /\ dirsize' \in 0 .. NR_ENTRIES /\ (halt' = "no" => EntriesInv')
  <2>1. CASE ListedAt(n) = {}
    BY <1>1, <1>8, <2>1
  <2>2. CASE ListedAt(n) # {}
    BY <1>8, <2>2, ClearedInv
  <2> QED  BY <2>1, <2>2
<1>12. CountInv'
  <2>1. IsFiniteSet(imap) /\ IsFiniteSet(smap)
    BY <1>1, FileSets, FS_Subset
  <2>2. Cardinality(imap) \in Nat /\ Cardinality(smap) \in Nat
    BY <2>1, FS_CardinalityType
  <2>3. Cardinality(imap') = Cardinality(imap) - 1 /\ Cardinality(smap') = Cardinality(smap) - 1
    BY <1>8, <2>1, FS_RemoveElement
  <2> QED  BY <2>2, <2>3, FileSizes, SMT DEF FilesInv, CountInv
<1>13. SectorsRight'
  <2> DEFINE stored == {m \in imap : inodes[m].mode \in {"file", "dir"}}
             later  == {m \in imap' : inodes'[m].mode \in {"file", "dir"}}
  <2>1. later = stored \ {n} /\ n \in stored
    BY <1>1, <1>6, <1>8, <1>10
  <2>2. smap = {inodes[m].ext : m \in stored}
    BY DEF FilesInv, SectorsRight
  <2>3. \A l, m \in stored : inodes[l].ext = inodes[m].ext => l = m
    BY DEF FilesInv, SectorsRight
  <2>4. \A m \in later : inodes'[m].ext = inodes[m].ext
    BY <1>1, <1>8, <1>10, <2>1
  <2>5. smap' = {inodes'[m].ext : m \in later}
    <3> HIDE DEF stored, later
    <3> QED  BY <1>7, <1>8, <2>1, <2>2, <2>3, <2>4, SMT
  <2>6. \A l, m \in later : inodes'[l].ext = inodes'[m].ext => l = m
    <3> HIDE DEF stored, later
    <3> QED  BY <2>1, <2>3, <2>4, SMT
  <2> QED  BY <2>5, <2>6, Zenon DEF SectorsRight
<1>14. CacheRight'
  <2>1. ASSUME NEW t \in Slots, inode_table[t].cnt > 0
        PROVE  inode_table[t].num \in imap \ {n} /\ inode_table[t].num \in Numbers
    BY <1>1, <1>3, <2>1, CachedSlot DEF Cached
  <2>2. CachedOnce'
    <3> SUFFICES ASSUME NEW t \in Slots, inode_table'[t].cnt > 0
                 PROVE  /\ inode_table'[t].num \in imap'
                        /\ inodes'[inode_table'[t].num] =
                             [mode |-> inode_table'[t].mode, ext |-> inode_table'[t].ext]
                        /\ \A u \in Slots :
                             inode_table'[u].cnt > 0 /\ inode_table'[u].num = inode_table'[t].num
                             => u = t
      BY DEF CachedOnce
    <3>1. inode_table[t].cnt > 0 /\ inode_table[t].num \in imap \ {n} /\ inode_table[t].num \in Numbers
      BY <1>9, <2>1
    <3>2. inode_table'[t] = inode_table[t]
      BY <1>9
    <3> QED  BY <1>8, <1>9, <1>10, <2>1, <3>1, <3>2, CachedSlot
  <2> QED  BY <2>2, CacheForms
<1>15. SlotsInv'
  BY <1>9 DEF FilesInv, SlotsInv
<1>16. InUseStays'
  BY <1>8, <1>9, UsersKept DEF FilesInv, InUseStays
<1>17. FilesType'
  <2>1. imap' \in SUBSET Numbers /\ smap' \in SUBSET Extents
    BY <1>1, <1>8
  <2> QED  BY <1>1, <1>8, <1>9, <1>10, <1>11, <2>1, UsersKept DEF FilesType, SlotRecord
<1> QED
  BY <1>8, <1>11, <1>12, <1>13, <1>14, <1>15, <1>16, <1>17, UsersKept DEF TablesInv

\* do_open
LEMMA DoOpenInv ==
  ASSUME FilesInv, NEW p \in Procs, NEW name, NEW creat, creat => name \in Names,
         do_open(p, name, creat)
  PROVE  FilesInv'
<1>1. ASSUME NEW why, Halt(why) PROVE FilesInv'
  BY <1>1, HaltInv DEF Halt
<1>2. CASE FreeFDs(p) # {} /\ FreeDescs # {} /\ creat /\ search_file(name) = 0
           /\ create_file(p, name)
  <2>1. CASE smap # Extents /\ SlotFor(alloc_imap_bit) # 0
    BY <1>2, <2>1, CreateInv DEF do_open
  <2>2. CASE ~(smap # Extents /\ SlotFor(alloc_imap_bit) # 0)
    BY <1>1, <1>2, <2>2 DEF create_file
  <2> QED  BY <2>1, <2>2
<1>3. CASE FreeFDs(p) # {} /\ FreeDescs # {} /\ search_file(name) # 0 /\ OpenFile(p, name)
  <2>1. CASE SlotFor(search_file(name)) # 0
    BY <1>3, <2>1, OpenFileInv DEF do_open
  <2>2. CASE SlotFor(search_file(name)) = 0
    BY <1>1, <1>3, <2>2 DEF OpenFile
  <2> QED  BY <2>1, <2>2
<1> QED  BY <1>1, <1>2, <1>3 DEF do_open

\* FilesInv has the whole.
LEMMA Running == (FilesInv => InductiveInv) /\ (FilesInv' => InductiveInv')
<1>1. FilesInv => InductiveInv
  BY DEF FilesInv, TablesInv, InductiveInv
<1>2. FilesInv' => InductiveInv'
  BY DEF FilesInv, TablesInv, InductiveInv
<1> QED  BY <1>1, <1>2

\* do_unlink
LEMMA DoUnlinkInv ==
  ASSUME FilesInv, NEW p \in Procs, NEW name, do_unlink(p, name)
  PROVE  InductiveInv'
<1>1. ASSUME NEW why, Halt(why) PROVE InductiveInv'
  BY <1>1, HaltInv, Running DEF Halt
<1>2. PICK n \in imap : n = search_file(name)
  BY FoundInUse DEF do_unlink
<1>3. PICK slot : slot = get_inode(n)[SlotFor(n)]
  OBVIOUS
<1>4. CASE SlotFor(n) # 0 /\ UnlinkRefused(n)
  BY <1>4, UnlinkRefusedInv, Running
<1>5. CASE SlotFor(n) # 0 /\ slot.mode = "file" /\ slot.cnt <= 1 /\ Unlinked(n)
  BY <1>3, <1>5, UnlinkedInv DEF InductiveInv, TablesInv, FilesInv
<1> QED  BY <1>1, <1>2, <1>3, <1>4, <1>5 DEF do_unlink

-----------------------------------------------------------------------------
(***************************************************************************)
(* The theorems                                                            *)
(***************************************************************************)

\* mkfs and init_fs establish the invariant.
LEMMA FilesInitInv == Init => FilesInv
<1> SUFFICES ASSUME Init PROVE FilesInv
  OBVIOUS
<1>1. /\ filp = [p \in Procs |-> [fd \in FDs |-> 0]]
      /\ f_desc_table = [d \in Descs |-> NoDesc]
      /\ inode_table = [s \in Slots |-> IF s = 1
           THEN [num |-> ROOT_INODE, cnt |-> 1, mode |-> "dir", ext |-> 0] ELSE NoSlot]
      /\ imap = 1 .. Len(Ttys) + 1 /\ smap = {0}
      /\ dirsize = Len(Ttys) + 1
      /\ alive = {First} /\ forking = NoFork
  BY DEF Init, mkfs
<1>2. Counted = Procs
  BY <1>1, WhoIsCounted
<1>3. ASSUME NEW n \in Numbers
      PROVE  /\ inodes[n] \in [mode : Modes, ext : Extents]
             /\ n = ROOT_INODE => inodes[n] = [mode |-> "dir", ext |-> 0]
             /\ inodes[n].mode \in {"file", "dir"} => n = ROOT_INODE
             /\ inodes[n].ext = 0
  <2>1. inodes[n] = [NoInode EXCEPT !.mode = CASE n = ROOT_INODE -> "dir"
                                  [] n \in 2 .. Len(Ttys) + 1 -> "tty"
                                  [] OTHER -> "none"]
    BY DEF Init, mkfs
  <2>2. CASE n = ROOT_INODE
    <3>1. n \notin 2 .. Len(Ttys) + 1
      BY <2>2, FileSizes, SMT DEF ROOT_INODE
    <3>2. inodes[n] = [NoInode EXCEPT !.mode = "dir"]
      BY <2>1, <2>2, <3>1
    <3> QED  BY <2>2, <3>2, FileSets DEF NoInode, Modes
  <2>3. CASE n # ROOT_INODE
    <3>1. \E m \in {"tty", "none"} : inodes[n] = [NoInode EXCEPT !.mode = m]
      BY <2>1, <2>3
    <3> QED  BY <2>3, <3>1, FileSets DEF NoInode, Modes
  <2> QED  BY <2>2, <2>3
<1>4. ASSUME NEW k \in Entries
      PROVE  /\ dir[k] \in [nr : Numbers \cup {0}, name : Fields]
             /\ dir[k].nr # 0 => dir[k].nr = k /\ k \in imap
  <2>1. dir[k] = CASE k = 1 -> [nr |-> ROOT_INODE, name |-> "."]
                   [] k \in 2 .. Len(Ttys) + 1 -> [nr |-> k, name |-> Ttys[k - 1]]
                   [] OTHER -> NoEntry
    BY DEF Init, mkfs
  <2>2. CASE k = 1
    <3>1. k \notin 2 .. Len(Ttys) + 1
      BY <2>2, FileSizes, SMT
    <3>2. dir[k] = [nr |-> ROOT_INODE, name |-> "."]
      BY <2>1, <2>2, <3>1
    <3>3. "." \in Paths /\ 1 \in imap
      BY <1>1, FileSizes, SMT DEF Paths
    <3> QED  BY <2>2, <3>2, <3>3, FileSets, SMT DEF ROOT_INODE, Fields
  <2>3. CASE k # 1 /\ k \in 2 .. Len(Ttys) + 1
    <3>1. dir[k] = [nr |-> k, name |-> Ttys[k - 1]]
      BY <2>1, <2>3
    <3>2. k - 1 \in DOMAIN Ttys
      BY <2>3, FilesAssumption, SMT
    <3>3. Ttys[k - 1] \in Paths
      BY <3>2 DEF Paths
    <3>4. k \in imap /\ k \in Numbers
      BY <1>1, <2>3, FileSizes, SMT DEF Numbers
    <3>5. [nr |-> k, name |-> Ttys[k - 1]] \in [nr : Numbers \cup {0}, name : Fields]
      BY <3>3, <3>4 DEF Fields
    <3>6. dir[k].nr = k
      BY <3>1, SMT
    <3> QED  BY <3>1, <3>4, <3>5, <3>6
  <2>4. CASE k # 1 /\ k \notin 2 .. Len(Ttys) + 1
    <3>1. dir[k] = NoEntry
      BY <2>1, <2>4
    <3>2. NoEntry \in [nr : Numbers \cup {0}, name : Fields] /\ NoEntry.nr = 0
      BY DEF NoEntry, Fields
    <3> QED  BY <3>1, <3>2
  <2> QED  BY <2>2, <2>3, <2>4
<1>5. FilesType
  <2>1. NoSlot \in SlotRecord /\ NoDesc \in [inode : Slots \cup {0}, cnt : Nat]
    BY FileSets DEF NoSlot, NoDesc, SlotRecord, Modes
  <2>2. [num |-> ROOT_INODE, cnt |-> 1, mode |-> "dir", ext |-> 0] \in SlotRecord
    BY FileSets DEF SlotRecord, Modes
  <2>3. inode_table \in [Slots -> SlotRecord]
    BY <1>1, <2>1, <2>2
  <2>4. imap \in SUBSET Numbers /\ smap \in SUBSET Extents /\ dirsize \in 0 .. NR_ENTRIES
    BY <1>1, FileSizes, FileSets, SMT DEF Numbers
  <2>5. /\ inodes = [n \in Numbers |-> inodes[n]] /\ dir = [k \in Entries |-> dir[k]]
    BY SMT DEF Init, mkfs
  <2>6. inodes \in [Numbers -> [mode : Modes, ext : Extents]]
    BY <1>3, <2>5
  <2>7. dir \in [Entries -> [nr : Numbers \cup {0}, name : Fields]]
    BY <1>4, <2>5
  <2>8. /\ filp \in [Procs -> [FDs -> Descs \cup {0}]] /\ alive \in SUBSET Procs
        /\ f_desc_table \in [Descs -> [inode : Slots \cup {0}, cnt : Nat]]
    BY <1>1, <2>1, FilesAssumption
  <2> QED  BY <2>3, <2>4, <2>6, <2>7, <2>8 DEF FilesType, SlotRecord
<1>6. ForkInv
  BY <1>1, <1>2 DEF ForkInv, NoFile
<1>7. SlotsInv
  BY <1>1, FileSets DEF SlotsInv
<1>8. CountInv
  <2>1. Cardinality(imap) = Len(Ttys) + 1
    <3>1. Cardinality(1 .. Len(Ttys) + 1) =
            IF 1 > Len(Ttys) + 1 THEN 0 ELSE (Len(Ttys) + 1) - 1 + 1
      BY FileSizes, FS_Interval, SMT
    <3> QED  BY <1>1, <3>1, FileSizes, SMT
  <2>2. Cardinality(smap) = 1
    BY <1>1, FS_Singleton
  <2> QED  BY <2>1, <2>2, FileSizes, SMT DEF CountInv
<1>9. ASSUME NEW d, d # 0
      PROVE  Users(d) = {}
  BY <1>1, <1>2, <1>9 DEF Users
<1>10. ASSUME NEW s PROVE OpenOn(s) = {}
  BY <1>1, <1>2 DEF OpenOn
<1>11. SharedRight
  <2> SUFFICES ASSUME NEW d \in Descs
               PROVE  /\ f_desc_table[d].cnt = Cardinality(Users(d))
                      /\ f_desc_table[d].inode # 0 <=> Users(d) # {}
    BY DEF SharedRight
  <2>1. f_desc_table[d].cnt = 0 /\ f_desc_table[d].inode = 0
    BY <1>1 DEF NoDesc
  <2>2. Users(d) = {} /\ Cardinality(Users(d)) = 0
    BY <1>9, FileSets, FS_EmptySet
  <2> QED  BY <2>1, <2>2
<1>12. InUseStays
  <2> SUFFICES ASSUME NEW s \in Slots
               PROVE  inode_table[s].cnt >= Cardinality(OpenOn(s)) +
                        (IF inode_table[s].num = ROOT_INODE THEN 1 ELSE 0)
    BY DEF InUseStays
  <2>1. Cardinality(OpenOn(s)) = 0
    BY <1>10, FS_EmptySet
  <2> QED  BY <1>1, <2>1, SMT DEF NoSlot, ROOT_INODE
<1>13. CacheRight
  <2>1. inodes[ROOT_INODE] = [mode |-> "dir", ext |-> 0]
    BY <1>3, FileSets
  <2>2. ROOT_INODE \in imap
    BY <1>1, FileSizes, SMT DEF ROOT_INODE
  <2>3. CachedOnce
    BY <1>1, <2>1, <2>2, SMT DEF CachedOnce, NoSlot
  <2> QED  BY <2>3, CacheForms
<1>14. SectorsRight
  <2> DEFINE stored == {n \in imap : inodes[n].mode \in {"file", "dir"}}
  <2>1. ROOT_INODE \in imap /\ imap \in SUBSET Numbers
    <3>1. ROOT_INODE \in imap
      BY <1>1, FileSizes, SMT DEF ROOT_INODE
    <3>2. imap \in SUBSET Numbers
      BY <1>5 DEF FilesType
    <3> QED  BY <3>1, <3>2
  <2>2. stored = {ROOT_INODE}
    BY <1>3, <2>1, SMT
  <2>3. inodes[ROOT_INODE].ext = 0
    BY <1>3, FileSets
  <2>4. smap = {inodes[n].ext : n \in stored}
    BY <1>1, <2>2, <2>3
  <2>5. \A m, n \in stored : inodes[m].ext = inodes[n].ext => m = n
    BY <2>2
  <2> QED  BY <2>4, <2>5, Zenon DEF SectorsRight
<1>15. EntriesInv
  BY <1>4, ZenonT(30) DEF EntriesInv
<1> QED  BY <1>5, <1>6, <1>7, <1>8, <1>11, <1>12, <1>13, <1>14, <1>15 DEF FilesInv

\* A step that changes nothing, when FS has stopped or before.
LEMMA AllKept ==
  ASSUME InductiveInv, UNCHANGED vars
  PROVE  InductiveInv'
<1>1. /\ filp' = filp /\ f_desc_table' = f_desc_table /\ inode_table' = inode_table /\ imap' = imap
      /\ smap' = smap /\ inodes' = inodes /\ dir' = dir /\ dirsize' = dirsize /\ alive' = alive
      /\ forking' = forking /\ halt' = halt
  BY DEF vars, disk, procs
<1>2. Counted' = Counted
  BY <1>1 DEF Counted
<1>3. FilesType' /\ SlotsInv' /\ CountInv' /\ SectorsRight' /\ CacheRight'
  <2>1. FilesType'
    BY <1>1 DEF InductiveInv, TablesInv, FilesType
  <2>2. SlotsInv' /\ CountInv'
    BY <1>1 DEF InductiveInv, TablesInv, SlotsInv, CountInv
  <2>3. SectorsRight'
    BY <1>1 DEF InductiveInv, TablesInv, SectorsRight
  <2>4. CacheRight'
    <3>1. \A n : Cached(n)' = Cached(n)
      BY <1>1 DEF Cached
    <3> QED
      BY <1>1, <3>1 DEF InductiveInv, TablesInv, CacheRight
  <2> QED
    BY <2>1, <2>2, <2>3, <2>4
<1>4. ForkInv' /\ SharedRight' /\ InUseStays'
  BY <1>1, <1>2 DEF InductiveInv, TablesInv, ForkInv, SharedRight, InUseStays, Users, OpenOn
<1>5. halt' = "no" => FilesInv'
  BY <1>1, HaltInv DEF InductiveInv, vars, disk, procs
<1> QED  BY <1>3, <1>4, <1>5 DEF InductiveInv, TablesInv

\* Every request keeps it.
LEMMA FilesNextInv == InductiveInv /\ [Next]_vars => InductiveInv'
<1> SUFFICES ASSUME InductiveInv, [Next]_vars PROVE InductiveInv'
  OBVIOUS
<1>0. Next => FilesInv
  BY DEF InductiveInv, Next, do_open, do_unlink, do_close, ForkCopies, fs_exit, fs_fork, Requests
<1>1. ASSUME NEW p \in Procs, NEW name \in Names, do_open(p, name, TRUE) PROVE InductiveInv'
  BY <1>0, <1>1, DoOpenInv, Running DEF Next
<1>2. ASSUME NEW p \in Procs, NEW name \in Paths, do_open(p, name, FALSE) PROVE InductiveInv'
  BY <1>0, <1>2, DoOpenInv, Running DEF Next
<1>3. ASSUME NEW p \in Procs, NEW name \in Paths, do_unlink(p, name) PROVE InductiveInv'
  BY <1>0, <1>3, DoUnlinkInv DEF Next
<1>4. ASSUME NEW p \in Procs, NEW fd \in FDs, do_close(p, fd) PROVE InductiveInv'
  BY <1>0, <1>4, CloseInv, Running DEF Next
<1>5. ASSUME NEW p \in Procs, NEW c \in Procs, ForkCopies(p, c) PROVE InductiveInv'
  BY <1>0, <1>5, CopiedInv, Running DEF Next
<1>6. ASSUME NEW p \in Procs, fs_exit(p) PROVE InductiveInv'
  BY <1>0, <1>6, ExitInv, Running DEF Next
<1>7. CASE fs_fork
  BY <1>0, <1>7, ForkedInv, Running DEF Next
<1>8. CASE UNCHANGED vars
  BY <1>8, AllKept
<1> QED  BY <1>1, <1>2, <1>3, <1>4, <1>5, <1>6, <1>7, <1>8 DEF Next

\* FilesInv is an invariant, but for the directory when do_unlink has stopped
\* between the inode and its entry (link.c:168).
THEOREM FilesInductive == Spec => []InductiveInv
<1> QED  BY FilesInitInv, Running, FilesNextInv, PTL DEF Spec

\* open, close, fork and exit in any order, by any number of processes: fd_cnt is
\* the number of descriptors that share an entry of f_desc_table, and exactly
\* the entries nobody has are free.
THEOREM SharingRight == Spec => []SharedRight
<1>1. InductiveInv => SharedRight
  BY DEF InductiveInv, TablesInv
<1> QED  BY <1>1, FilesInductive, PTL

\* i_cnt covers every open descriptor, so put_inode never frees the slot of an
\* inode that is open, nor that of the root.
THEOREM OpenFilesStay == Spec => []InUseStays
<1>1. InductiveInv => InUseStays
  BY DEF InductiveInv, TablesInv
<1> QED  BY <1>1, FilesInductive, PTL

\* The cache holds an inode once, as it is on the disk, and only while its number
\* is allocated there: unlink() removes no file that is open.
THEOREM CacheMatchesDisk == Spec => []CacheRight
<1>1. InductiveInv => CacheRight
  BY DEF InductiveInv, TablesInv
<1> QED  BY <1>1, FilesInductive, PTL

\* The sector map is exactly the extents of the files, no two of which overlap,
\* whatever is created and unlinked.
THEOREM NoSectorShared == Spec => []SectorsRight
<1>1. InductiveInv => SectorsRight
  BY DEF InductiveInv, TablesInv
<1> QED  BY <1>1, FilesInductive, PTL

\* Unless an assert has stopped do_unlink halfway, an entry of the directory names
\* an inode in use that no other entry names, long names that overwrite the next
\* entry included.
THEOREM DirectoryRight == Spec => []EntriesRight
<1>1. InductiveInv => EntriesRight
  BY DEF InductiveInv, FilesInv, EntriesInv, EntriesRight
<1> QED  BY <1>1, FilesInductive, PTL
=============================================================================

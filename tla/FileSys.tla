------------------------------ MODULE FileSys ------------------------------
(***************************************************************************)
(* The file system: filesys.c, directory.c, inode.c, file.c and free-map.c *)
(* over a disk of sectors.  Filesys_lock makes one call run at a time; a   *)
(* call is cut into steps at its disk writes, because a crash may come     *)
(* between any two.  Lengths are counted in sectors.  The free map's own   *)
(* file and the root directory's data lie in the first sectors and are     *)
(* modelled by what they hold.                                             *)
(***************************************************************************)
EXTENDS Integers, FiniteSets

CONSTANTS
  Name, LongName,    \* names, and those dir_add () finds too long
  SectorCnt, Reserved,
  Size,              \* initial sizes, in sectors
  SlotCnt,           \* entries that fit in the root directory
  Handle,
  Val, Zero, None,
  Failure            \* what memory may be short for: "calloc", "bitmap_write", "read"

Sector == 0 .. SectorCnt - 1

ASSUME FileSysAssumption ==
  /\ LongName \subseteq Name
  /\ SectorCnt \in Nat /\ Reserved \in 1 .. SectorCnt
  /\ Size \subseteq Nat /\ SlotCnt \in Nat
  /\ IsFiniteSet(Handle) /\ None \notin Name \cup Sector
  /\ \A k \in Size \cup {0} : None \notin [1 .. k -> Val \cup {Zero}]
  /\ Failure \subseteq {"calloc", "bitmap_write", "read"}

VARIABLES
  free_map,          \* sectors marked in memory ...
  free_map_file,     \* ... and in the free map's file
  disk,              \* sectors: an inode_disk, or data
  root,              \* the root directory's entries
  open_inodes,       \* by sector
  files,             \* structs file, by who holds them
  pc, op,            \* the call in progress, see NoOp
  lost               \* sectors marked for good though no file has them (history)

memVars  == <<open_inodes, files>>
mapVars  == <<free_map, free_map_file>>
vars == <<mapVars, disk, root, memVars, pc, op, lost>>

NoOp == [name |-> None, sector |-> 0, start |-> 0, length |-> 0]

Extent(start, length) == start .. start + length - 1

FreeEntry == [name |-> None, sector |-> 0]

Lowest(S) == CHOOSE x \in S : \A y \in S : x <= y

Go(label, o) == pc' = label /\ op' = IF label = "idle" THEN NoOp ELSE o

-----------------------------------------------------------------------------
(* free-map.c                                                              *)

\* bitmap_scan (): the first run of cnt clear bits, or none.
Fits(cnt) == {s \in 0 .. SectorCnt - cnt : Extent(s, cnt) \cap free_map = {}}

\* Changed form, for the mutation runs: the free map's file is not written.
free_map_allocate_lazy(cnt, s) ==
  /\ Fits(cnt) # {} /\ s = Lowest(Fits(cnt))
  /\ free_map' = free_map \cup Extent(s, cnt)
  /\ UNCHANGED free_map_file

free_map_allocate(cnt, s) ==
  /\ Fits(cnt) # {} /\ s = Lowest(Fits(cnt))
  /\ free_map' = free_map \cup Extent(s, cnt)
  /\ free_map_file' = free_map'

\* ... or the memory the caller needs for it is short.
AllocateFails(cnt) ==
  /\ Fits(cnt) = {} \/ Failure \cap {"calloc", "bitmap_write"} # {}
  /\ UNCHANGED mapVars

\* The result of bitmap_write () is not looked at.
free_map_release(S) ==
  /\ free_map' = free_map \ S
  /\ \/ free_map_file' = free_map'
     \/ "bitmap_write" \in Failure /\ UNCHANGED free_map_file

-----------------------------------------------------------------------------
(* inode.c                                                                 *)

NoInode == [open_cnt |-> 0, removed |-> FALSE, deny_write_cnt |-> 0, start |-> 0, length |-> 0]

\* Changed form, for the mutation runs: inode_open () forgets who has the inode open.
Opened_again(s) ==
  [NoInode EXCEPT !.open_cnt = 1, !.start = disk[s].start, !.length = disk[s].length]

\* inode_open (): one struct inode per sector, read from disk the first time.
Opened(s) ==
  IF open_inodes[s].open_cnt > 0 THEN [open_inodes[s] EXCEPT !.open_cnt = @ + 1]
  ELSE [NoInode EXCEPT !.open_cnt = 1, !.start = disk[s].start, !.length = disk[s].length]

\* inode_close () of an inode in state i, up to the releases.
Closed(i) == IF i.open_cnt = 1 THEN NoInode ELSE [i EXCEPT !.open_cnt = @ - 1]

\* Changed form, for the mutation runs: a removed inode is released at every close.
ReleaseAfter_always(s, i) ==
  IF i.removed
  THEN Go("release_inode", [NoOp EXCEPT !.sector = s, !.start = i.start, !.length = i.length])
  ELSE Go("idle", NoOp)

\* ... which follow if this was the last opener of a removed inode.
ReleaseAfter(s, i) ==
  IF i.open_cnt = 1 /\ i.removed
  THEN Go("release_inode", [NoOp EXCEPT !.sector = s, !.start = i.start, !.length = i.length])
  ELSE Go("idle", NoOp)

release_inode ==
  /\ pc = "release_inode"
  /\ free_map_release({op.sector})
  /\ Go("release_data", op)
  /\ UNCHANGED <<disk, root, memVars, lost>>

release_data ==
  /\ pc = "release_data"
  /\ free_map_release(Extent(op.start, op.length))
  /\ Go("idle", NoOp)
  /\ UNCHANGED <<disk, root, memVars, lost>>

-----------------------------------------------------------------------------
(* filesys_create ().  Its dir_open_root () may fail as well.              *)

filesys_create(n, k) ==
  /\ pc = "idle"
  /\ \/ \E s \in Sector :
          /\ free_map_allocate(1, s)
          /\ Go("create_data", [NoOp EXCEPT !.name = n, !.sector = s, !.length = k])
     \/ AllocateFails(1) /\ Go("idle", NoOp)
  /\ UNCHANGED <<disk, root, memVars, lost>>

\* inode_create (): the data sectors, the inode, then the zeros.
inode_create ==
  /\ pc = "create_data"
  /\ \/ \E s \in Sector :
          /\ free_map_allocate(op.length, s)
          /\ Go("create_inode", [op EXCEPT !.start = s])
     \/ AllocateFails(op.length) /\ Go("create_undo", [op EXCEPT !.length = 0])
  /\ UNCHANGED <<disk, root, memVars, lost>>

inode_create_write ==
  /\ pc = "create_inode"
  /\ disk' = [disk EXCEPT ![op.sector] = [start |-> op.start, length |-> op.length]]
  /\ Go("create_zeros", op)
  /\ UNCHANGED <<mapVars, root, memVars, lost>>

\* The loop over the sectors has come to the k-th.
inode_create_zeros ==
  /\ pc = "create_zeros"
  /\ \E k \in 0 .. op.length :
       /\ disk' = [s \in Sector |-> IF s \in Extent(op.start, k) THEN Zero ELSE disk[s]]
       /\ Go(IF k = op.length THEN "dir_add" ELSE "create_zeros", op)
  /\ UNCHANGED <<mapVars, root, memVars, lost>>

Entries(n) == {i \in DOMAIN root : root[i].name = n}

\* The slots at which dir_add ()'s scan may stop: the first free one, or the end
\* of the directory, or, for want of a bounce buffer, one that it could not read.
ScanStops ==
  LET free == Entries(None) \cup {SlotCnt + 1}
  IN  {Lowest(free)} \cup IF "read" \in Failure THEN 1 .. Lowest(free) ELSE {}

\* lookup () misses the name when it is not there, or when a read fell short.
Missing(n) == Entries(n) = {} \/ "read" \in Failure

dir_add ==
  /\ pc = "dir_add"
  /\ \/ /\ op.name \notin LongName /\ Missing(op.name)
        /\ \E i \in ScanStops \cap (1 .. SlotCnt) :
             root' = [root EXCEPT ![i] = [name |-> op.name, sector |-> op.sector]]
        /\ Go("idle", NoOp)
     \/ /\ \/ op.name \in LongName
           \/ Entries(op.name) # {}
           \/ SlotCnt + 1 \in ScanStops
           \/ "calloc" \in Failure             \* no bounce buffer for the write
        /\ Go("create_undo", op)
        /\ UNCHANGED root
  /\ UNCHANGED <<mapVars, disk, memVars, lost>>

\* Only the inode's own sector is given back.
create_undo ==
  /\ pc = "create_undo"
  /\ free_map_release({op.sector})
  /\ lost' = lost \cup Extent(op.start, op.length)
  /\ Go("idle", NoOp)
  /\ UNCHANGED <<disk, root, memVars>>

-----------------------------------------------------------------------------
(* filesys_remove () and what opens, closes and writes files.              *)

\* The inode is opened, its entry erased, the inode marked, and closed.
filesys_remove(n) ==
  /\ pc = "idle"
  /\ Entries(n) # {}
  /\ LET i == Lowest(Entries(n))
         s == root[i].sector
         inode == [Opened(s) EXCEPT !.removed = TRUE]
     IN  /\ root' = [root EXCEPT ![i] = FreeEntry]
         /\ open_inodes' = [open_inodes EXCEPT ![s] = Closed(inode)]
         /\ ReleaseAfter(s, inode)
  /\ UNCHANGED <<mapVars, disk, files, lost>>

NoFile == [sector |-> None, deny_write |-> FALSE]

\* file_open () of an inode that inode_open () or inode_reopen () just gave.
OpenAt(h, s) ==
  /\ pc = "idle"
  /\ files[h] = NoFile
  /\ open_inodes' = [open_inodes EXCEPT ![s] = Opened(s)]
  /\ files' = [files EXCEPT ![h] = [NoFile EXCEPT !.sector = s]]
  /\ UNCHANGED <<mapVars, disk, root, pc, op, lost>>

filesys_open(h, n) == Entries(n) # {} /\ OpenAt(h, root[Lowest(Entries(n))].sector)

file_reopen(h, g) == files[g] # NoFile /\ OpenAt(h, files[g].sector)

\* file_deny_write (), as load () and nothing else calls it.
file_deny_write(h) ==
  /\ pc = "idle"
  /\ files[h] # NoFile /\ ~files[h].deny_write
  /\ files' = [files EXCEPT ![h].deny_write = TRUE]
  /\ open_inodes' = [open_inodes EXCEPT ![files[h].sector].deny_write_cnt = @ + 1]
  /\ UNCHANGED <<mapVars, disk, root, pc, op, lost>>

\* file_close (): file_allow_write (), then inode_close ().
file_close(h) ==
  /\ pc = "idle"
  /\ files[h] # NoFile
  /\ LET s == files[h].sector
         inode == [open_inodes[s] EXCEPT
                     !.deny_write_cnt = IF files[h].deny_write THEN @ - 1 ELSE @]
     IN  /\ open_inodes' = [open_inodes EXCEPT ![s] = Closed(inode)]
         /\ ReleaseAfter(s, inode)
  /\ files' = [files EXCEPT ![h] = NoFile]
  /\ UNCHANGED <<mapVars, disk, root, lost>>

\* A sector's worth of inode_write_at (), at block i of the file.
inode_write_at(h, i, v) ==
  /\ pc = "idle"
  /\ files[h] # NoFile
  /\ LET inode == open_inodes[files[h].sector]
     IN  /\ inode.deny_write_cnt = 0
         /\ i < inode.length
         /\ disk' = [disk EXCEPT ![inode.start + i] = v]
  /\ UNCHANGED <<mapVars, root, memVars, pc, op, lost>>

-----------------------------------------------------------------------------

Linked == {root[i].sector : i \in {j \in DOMAIN root : root[j].name # None}}

\* The sectors of an inode that is on disk or open.
Owned(s) == {s} \cup IF open_inodes[s].open_cnt > 0
                     THEN Extent(open_inodes[s].start, open_inodes[s].length)
                     ELSE Extent(disk[s].start, disk[s].length)

\* Power fails, or the machine is shut down, and filesys_init (false) starts over.
Restart ==
  /\ open_inodes' = [s \in Sector |-> NoInode]
  /\ files' = [h \in Handle |-> NoFile]
  /\ free_map' = free_map_file
  /\ Go("idle", NoOp)
  /\ lost' = free_map_file \ ((0 .. Reserved - 1) \cup UNION {Owned(s) : s \in Linked})
  /\ UNCHANGED <<free_map_file, disk, root>>

\* do_format (), then free_map_open ().
Init ==
  /\ free_map = 0 .. Reserved - 1
  /\ free_map_file = free_map
  /\ disk = [s \in Sector |-> Zero]
  /\ root = [i \in 1 .. SlotCnt |-> FreeEntry]
  /\ open_inodes = [s \in Sector |-> NoInode]
  /\ files = [h \in Handle |-> NoFile]
  /\ pc = "idle" /\ op = NoOp
  /\ lost = {}

Next ==
  \/ \E n \in Name, k \in Size : filesys_create(n, k)
  \/ inode_create \/ inode_create_write \/ inode_create_zeros \/ dir_add \/ create_undo
  \/ \E n \in Name : filesys_remove(n)
  \/ release_inode \/ release_data
  \/ \E h \in Handle, n \in Name : filesys_open(h, n)
  \/ \E h, g \in Handle : file_reopen(h, g)
  \/ \E h \in Handle : file_deny_write(h) \/ file_close(h)
  \/ \E h \in Handle, i \in Sector, v \in Val : inode_write_at(h, i, v)
  \/ Restart

Spec == Init /\ [][Next]_vars

-----------------------------------------------------------------------------
(* Properties.                                                             *)

TypeOK ==
  /\ free_map \cup free_map_file \cup lost \subseteq Sector
  /\ DOMAIN disk = Sector
  /\ root \in [1 .. SlotCnt -> [name : Name \cup {None}, sector : Sector]]
  /\ open_inodes \in [Sector -> [open_cnt : Nat, removed : BOOLEAN, deny_write_cnt : Nat,
                                 start : Sector, length : Size \cup {0}]]
  /\ files \in [Handle -> [sector : Sector \cup {None}, deny_write : BOOLEAN]]
  /\ op \in [name : Name \cup {None}, sector : Sector, start : Sector, length : Size \cup {0}]

Live == Linked \cup {s \in Sector : open_inodes[s].open_cnt > 0}

\* What the call in progress holds that no live file has.
InOp ==
  (IF pc \in {"idle", "release_data"} THEN {} ELSE {op.sector}) \cup
  (IF pc \in {"idle", "create_data"} THEN {} ELSE Extent(op.start, op.length))

\* The free map in memory marks exactly the reserved sectors, those of files that
\* have a name or an opener, those of the call in progress, and those lost: by a
\* filesys_create () whose dir_add () failed, which gives back the inode's sector
\* but not the data's, or by a restart.
FreeMapExact ==
  free_map = (0 .. Reserved - 1) \cup (UNION {Owned(s) : s \in Live}) \cup InOp \cup lost

\* The sectors of files that have a name are marked in the free map's file at
\* every moment, so a crash between any two disk writes leaves no live sector to
\* be given out again: sectors are marked before they are linked, and unlinked
\* before they are freed.
CrashSafe == UNION {Owned(s) : s \in Linked} \subseteq free_map_file

\* No sector belongs to two files, nor to a file and the call in progress.
NoSharedSectors ==
  /\ \A s, t \in Live : s # t => Owned(s) \cap Owned(t) = {}
  /\ InOp \cap (lost \cup UNION {Owned(s) : s \in Live}) = {}
  /\ \A i, j \in DOMAIN root : root[i].name # None /\ root[j].name # None /\ i # j =>
       root[i].sector # root[j].sector /\ root[i].name # root[j].name

\* The counts of a struct inode are its openers and those among them that denied
\* writes, so inode_deny_write ()'s and inode_allow_write ()'s assertions hold.
CountsExact ==
  \A s \in Sector :
    LET openers == {h \in Handle : files[h].sector = s}
    IN  /\ open_inodes[s].open_cnt = Cardinality(openers)
        /\ open_inodes[s].deny_write_cnt = Cardinality({h \in openers : files[h].deny_write})

\* free_map_release () is only asked for sectors that are marked (its assertion).
ReleasesMarked ==
  /\ pc \in {"create_undo", "release_inode"} => op.sector \in free_map
  /\ pc \in {"release_inode", "release_data"} => Extent(op.start, op.length) \subseteq free_map

\* What free_map, the inodes on disk and in memory and the root directory say agrees
\* at every step of filesys_create (), filesys_remove () and file_close (), after
\* failures and restarts too.
MetadataConsistent ==
  TypeOK /\ FreeMapExact /\ NoSharedSectors /\ CountsExact /\ ReleasesMarked

\* dir_add ()'s comment: "inode_read_at() will only return a short read at end of
\* file", so that the slot it writes is free: an entry never replaces another.
EntriesKept ==
  [][\A i \in DOMAIN root :
       root[i].name # None => root'[i] \in {root[i], FreeEntry}]_vars

-----------------------------------------------------------------------------
(* What callers see.                                                       *)

Blocks(s) ==
  LET i == IF open_inodes[s].open_cnt > 0 THEN open_inodes[s] ELSE disk[s]
  IN  [b \in 1 .. i.length |-> disk[i.start + b - 1]]

Store ==
  INSTANCE FileStore WITH
    Fid <- Sector,
    names <- [n \in Name |-> IF Entries(n) = {} THEN None ELSE root[Lowest(Entries(n))].sector],
    opened <- [h \in Handle |-> files[h].sector],
    content <- [s \in Sector |-> IF s \in Live THEN Blocks(s) ELSE None]

\* The file system implements FileStore: create and remove are atomic even when
\* the machine stops in the middle, and a removed file serves its openers.
ImplementsFileStore == Store!Spec
=============================================================================

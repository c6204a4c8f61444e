------------------------------ MODULE Partition ------------------------------
(***************************************************************************)
(* Block devices: the scan of a disk's partition tables                    *)
(* (devices/partition.c), the list of block devices and access to them     *)
(* (devices/block.c), and the choice of the devices for the kernel's roles *)
(* (locate_block_devices () of threads/init.c).                            *)
(*                                                                         *)
(* Sector numbers have Width bits.  The calls of read_partition_table ()   *)
(* that have not returned are in stack, the innermost last.                *)
(***************************************************************************)
EXTENDS Integers, Sequences, SequencesExt

CONSTANTS
  Width,
  DiskSize,       \* sectors of the disk
  Entry,          \* partition table entries a table may have: [type, offset, size]
  EntryCount,     \* number of entries of a table
  Elsewhere,      \* what the sectors other than 0 may hold: a table or NoTable
  NoTable,        \* a sector without signature
  Role,           \* the roles to fill: partition types
  MaxDepth        \* calls of read_partition_table () that fit on the kernel stack

PartitionAssumption ==
  /\ Width \in Nat /\ DiskSize \in 1 .. 2 ^ Width - 1 /\ MaxDepth \in Nat \ {0}
  /\ Entry \subseteq [type : {"empty", "extended", "foreign"} \cup Role,
                      offset : 0 .. 2 ^ Width - 1, size : 0 .. 2 ^ Width - 1]
  /\ Elsewhere \subseteq [1 .. EntryCount -> Entry] \cup {NoTable}

VARIABLES
  disk,          \* the partition tables on the disk, by sector
  stack,         \* frames of read_partition_table (): sector, primary, pt and i
  part_nr,
  all_blocks,    \* the registered devices, the disk first: type, start, size, nr
  block_by_role,
  access,        \* the last access: index of the block, sector, sector on the disk
  pc             \* "scan", "locate", "run", or why the kernel stopped

vars == <<disk, stack, part_nr, all_blocks, block_by_role, access, pc>>

M(x) == x % 2 ^ Width
NoAccess == [block |-> 0, sector |-> 0, disk |-> 0]

-----------------------------------------------------------------------------
(* partition_scan ().                                                      *)

\* read_partition_table () up to its loop: the frame of the call.
Frame(sector, primary) == [sector |-> sector, primary |-> primary, pt |-> disk[0], i |-> 1]

\* A call that finds its sector past the end or the signature wrong returns at once.
Call(frames, sector, primary) ==
  IF sector >= DiskSize \/ disk[0] = NoTable THEN stack' = frames /\ UNCHANGED pc
  ELSE IF Len(frames) = MaxDepth THEN pc' = "overflow" /\ stack' = frames
  ELSE stack' = Append(frames, Frame(sector, primary)) /\ UNCHANGED pc

\* Changed form, for the mutation runs: an end that wraps around is not noticed.
found_partition_wraps(type, start, size, nr) ==
  all_blocks' =
    IF start >= DiskSize \/ M(start + size) > DiskSize
    THEN all_blocks
    ELSE Append(all_blocks, [type |-> type, start |-> start, size |-> size, nr |-> nr])

\* found_partition (): a partition that does not lie within the disk is not registered.
found_partition(type, start, size, nr) ==
  all_blocks' =
    IF start >= DiskSize \/ M(start + size) < start \/ M(start + size) > DiskSize
    THEN all_blocks
    ELSE Append(all_blocks, [type |-> type, start |-> start, size |-> size, nr |-> nr])

\* One entry of the table of the innermost call.
ParseEntry ==
  LET f == Last(stack)
      e == f.pt[f.i]
      rest == [stack EXCEPT ![Len(stack)].i = @ + 1]
  IN  /\ pc = "scan" /\ stack # <<>> /\ f.i <= EntryCount
      /\ \/ /\ e.size = 0 \/ e.type = "empty"
            /\ stack' = rest
            /\ UNCHANGED <<part_nr, all_blocks, pc>>
         \/ /\ e.size # 0 /\ e.type = "extended"
            /\ IF f.sector = 0 THEN Call(rest, e.offset, e.offset)
               ELSE Call(rest, M(e.offset + f.primary), f.primary)
            /\ UNCHANGED <<part_nr, all_blocks>>
         \/ /\ e.size # 0 /\ e.type \notin {"empty", "extended"}
            /\ part_nr' = part_nr + 1
            /\ found_partition(e.type, M(e.offset + f.sector), e.size, part_nr')
            /\ stack' = rest
            /\ UNCHANGED pc
      /\ UNCHANGED <<disk, block_by_role, access>>

\* The end of the loop.
EndOfTable ==
  /\ pc = "scan"
  /\ stack # <<>> => Last(stack).i > EntryCount
  /\ IF stack = <<>> THEN pc' = "locate" /\ UNCHANGED stack
     ELSE stack' = Front(stack) /\ UNCHANGED pc
  /\ UNCHANGED <<disk, part_nr, all_blocks, block_by_role, access>>

-----------------------------------------------------------------------------
(* Roles and access.                                                       *)

Candidates(role) == {k \in DOMAIN all_blocks : all_blocks[k].type = role}

\* locate_block_devices (): the device named on the command line (0: none is named, and
\* Len(all_blocks) + 1: a name no device has, which is a panic), or the first of the
\* role's type, if any.
locate_block_devices ==
  /\ pc = "locate"
  /\ \E named \in [Role -> 0 .. Len(all_blocks) + 1] :
       IF \E r \in Role : named[r] \notin {0} \cup DOMAIN all_blocks
       THEN pc' = "no such device" /\ UNCHANGED block_by_role
       ELSE /\ pc' = "run"
            /\ block_by_role' = [r \in Role |->
                 IF named[r] # 0 THEN named[r]
                 ELSE IF Candidates(r) = {} THEN 0
                 ELSE CHOOSE k \in Candidates(r) : \A j \in Candidates(r) : k <= j]
  /\ UNCHANGED <<disk, stack, part_nr, all_blocks, access>>

\* block_read () and block_write () of a partition, down to the disk, which checks the
\* sector again.
Access(role, sector, write) ==
  LET k == block_by_role[role]
      b == all_blocks[k]
      sec == M(b.start + sector)
  IN  /\ pc = "run" /\ k # 0
      /\ \/ /\ sector >= b.size \/ (write /\ b.type = "foreign") \/ sec >= DiskSize
            /\ pc' = IF sector >= b.size THEN "past end"
                     ELSE IF write /\ b.type = "foreign" THEN "foreign" ELSE "past end of disk"
            /\ UNCHANGED access
         \/ /\ sector < b.size /\ ~(write /\ b.type = "foreign") /\ sec < DiskSize
            /\ access' = [block |-> k, sector |-> sector, disk |-> sec]
            /\ UNCHANGED pc
      /\ UNCHANGED <<disk, stack, part_nr, all_blocks, block_by_role>>

Init ==
  /\ disk \in {[s \in 0 .. DiskSize - 1 |-> IF s = 0 THEN mbr ELSE other] :
                 mbr \in [1 .. EntryCount -> Entry] \cup {NoTable}, other \in Elsewhere}
  /\ stack = IF disk[0] = NoTable THEN <<>> ELSE <<Frame(0, 0)>>
  /\ part_nr = 0
  /\ all_blocks = <<[type |-> "raw", start |-> 0, size |-> DiskSize, nr |-> 0]>>
  /\ block_by_role = [r \in Role |-> 0]
  /\ access = NoAccess
  /\ pc = "scan"

Next ==
  \/ ParseEntry \/ EndOfTable \/ locate_block_devices
  \/ \E r \in Role, s \in 0 .. DiskSize, w \in BOOLEAN : Access(r, s, w)
  \/ /\ \/ pc \notin {"scan", "locate", "run"}
        \/ pc = "run" /\ \A r \in Role : block_by_role[r] = 0
     /\ UNCHANGED vars

Spec == Init /\ [][Next]_vars

-----------------------------------------------------------------------------
(* Properties.                                                             *)

\* Type invariant.
TypeOK ==
  /\ Len(stack) <= MaxDepth
  /\ \A k \in DOMAIN all_blocks : all_blocks[k].nr \in 0 .. part_nr
  /\ block_by_role \in [Role -> {0} \cup DOMAIN all_blocks]
  /\ pc \in {"scan", "locate", "run", "no such device", "overflow", "past end", "foreign"}

\* Whatever the tables hold, a sector of a partition is a sector of the disk, at its
\* distance from the partition's start: sums that wrap around are caught when the
\* partition is registered.
AccessInPartition ==
  access # NoAccess =>
    LET b == all_blocks[access.block]
    IN  access.disk = b.start + access.sector /\ b.start + b.size <= DiskSize

Extent(b) == b.start .. b.start + b.size - 1

\* Primary partitions whose entries do not overlap never share a sector of the disk:
\* writes of one role leave the data of the others alone.
RolesApart ==
  LET mbr == {disk[0]} \ {NoTable}
  IN  \A t \in mbr :
        /\ \A i \in 1 .. EntryCount : t[i].type # "extended"
        /\ \A i, j \in 1 .. EntryCount :
             i # j => (t[i].offset .. t[i].offset + t[i].size - 1)
                        \cap (t[j].offset .. t[j].offset + t[j].size - 1) = {}
        => \A j, k \in DOMAIN all_blocks \ {1} :
             j # k => Extent(all_blocks[j]) \cap Extent(all_blocks[k]) = {}

\* "Reads the partition table in the given SECTOR of BLOCK" (the comment of
\* read_partition_table ()).
ReadsGivenSector == \A i \in DOMAIN stack : stack[i].pt = disk[stack[i].sector]
=============================================================================

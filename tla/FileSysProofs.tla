---------------------------- MODULE FileSysProofs ----------------------------
(***************************************************************************)
(* What FileSys promises, proved for disks and directories of any size.    *)
(***************************************************************************)
EXTENDS FileSys, Sequences, TLAPS

-----------------------------------------------------------------------------
(* The inductive invariant, in parts.                                      *)

\* The directory's reads do not fall short (see EntriesKept).
ReadsWhole == "read" \notin Failure

Labels == {"idle", "create_data", "create_inode", "create_zeros", "dir_add", "create_undo",
           "release_inode", "release_data"}

Length == Size \cup {0}

InodeDisk == [start : Sector, length : Length]

Boot == 0 .. Reserved - 1

Types == TypeOK /\ pc \in Labels /\ disk = [s \in Sector |-> disk[s]]

IsOpen(s) == open_inodes[s].open_cnt > 0

\* The sectors of inode s, as the disk has them.
Data(s) == Extent(disk[s].start, disk[s].length)

OnDisk(s) == {s} \cup Data(s)

\* The inode of a file that is live is on the disk, and the one in memory is a copy.
InodeInv ==
  /\ \A s \in Live : /\ s \in Sector /\ disk[s] \in InodeDisk /\ Data(s) \subseteq Sector
                     /\ s \notin Data(s)
  /\ \A s \in Sector : IsOpen(s) =>
       /\ open_inodes[s].start = disk[s].start /\ open_inodes[s].length = disk[s].length
       /\ open_inodes[s].removed <=> s \notin Linked
  /\ \A s \in Sector : ~IsOpen(s) => open_inodes[s] = NoInode

\* Sectors are marked once: reserved, lost, of one file, or of the call in progress.
ApartInv ==
  /\ \A s, t \in Live : s # t => OnDisk(s) \cap OnDisk(t) = {}
  /\ \A s \in Live : OnDisk(s) \cap (Boot \cup lost \cup InOp) = {}
  /\ InOp \cap (Boot \cup lost) = {}

MapInv ==
  /\ free_map = Boot \cup (UNION {OnDisk(s) : s \in Live}) \cup InOp \cup lost
  /\ free_map \subseteq free_map_file

\* No two entries have a name or an inode in common.
EntryInv ==
  \A i, j \in 1 .. SlotCnt : root[i].name # None /\ root[j].name # None /\ i # j =>
    root[i].sector # root[j].sector /\ root[i].name # root[j].name

\* What the call in progress has done so far.
OpInv ==
  /\ pc = "idle" => op = NoOp
  /\ pc \in {"create_data", "create_inode", "create_zeros", "dir_add", "create_undo"} =>
       op.name \in Name
  /\ pc \notin {"idle", "create_data"} => Extent(op.start, op.length) \subseteq Sector
  /\ pc \notin {"idle", "create_data", "release_data"} =>
       op.sector \notin Extent(op.start, op.length)
  /\ pc \in {"create_zeros", "dir_add"} =>
       disk[op.sector] = [start |-> op.start, length |-> op.length]

FileInv == \A h \in Handle : files[h].sector = None => files[h] = NoFile

FsInv ==
  Types /\ InodeInv /\ ApartInv /\ MapInv /\ EntryInv /\ CountsExact /\ OpInv /\ FileInv

-----------------------------------------------------------------------------
(* Helpers.                                                                *)

\* What the constants are.
LEMMA Constants ==
  /\ 0 \in Sector /\ Sector \subseteq Nat /\ Boot \subseteq Sector
  /\ None \notin Name /\ None \notin Sector /\ Length \subseteq Nat /\ 0 \in Length
  /\ FreeEntry \in [name : Name \cup {None}, sector : Sector]
  /\ NoOp \in [name : Name \cup {None}, sector : Sector, start : Sector, length : Length]
  /\ NoInode \in [open_cnt : Nat, removed : BOOLEAN, deny_write_cnt : Nat,
                  start : Sector, length : Length]
<1>1. 0 \in Sector /\ Sector \subseteq Nat /\ Boot \subseteq Sector
  BY FileSysAssumption DEF Sector, Boot
<1>2. None \notin Name /\ None \notin Sector /\ Length \subseteq Nat /\ 0 \in Length
  BY FileSysAssumption DEF Length
<1> QED
  BY <1>1, <1>2 DEF FreeEntry, NoOp, NoInode

\* Sets of numbers have a least element and sets of handles can be counted;
\* HandlesCounted below proves both.
CanCount ==
  /\ \A T \in SUBSET Nat : T # {} => \E x \in T : \A y \in T : x <= y
  /\ Cardinality({}) = 0
  /\ \A T \in SUBSET Handle :
       /\ Cardinality(T) \in Nat /\ (Cardinality(T) = 0 => T = {})
       /\ \A h \in Handle : h \notin T => Cardinality(T \cup {h}) = Cardinality(T) + 1
       /\ \A h \in T : Cardinality(T \ {h}) = Cardinality(T) - 1

\* The least element of a set of numbers is one of them.
LEMMA LowestIs ==
  ASSUME CanCount, NEW S, S \subseteq Nat, S # {}
  PROVE  Lowest(S) \in S /\ \A y \in S : Lowest(S) <= y
<1>1. \E x \in S : \A y \in S : x <= y
  BY Zenon DEF CanCount
<1> QED
  BY <1>1, Zenon DEF Lowest

\* The openers of an inode can be counted.
LEMMA CountHandles ==
  ASSUME CanCount, NEW T, T \subseteq Handle
  PROVE  /\ Cardinality(T) \in Nat /\ (Cardinality(T) = 0 => T = {})
         /\ \A h \in Handle : h \notin T => Cardinality(T \cup {h}) = Cardinality(T) + 1
         /\ \A h \in T : Cardinality(T \ {h}) = Cardinality(T) - 1
BY Zenon DEF CanCount

\* bitmap_scan () finds sectors that are on the disk and not marked.
LEMMA FitsIs ==
  ASSUME CanCount, NEW cnt \in Nat, Fits(cnt) # {}
  PROVE  LET s == Lowest(Fits(cnt))
         IN  s \in Nat /\ Extent(s, cnt) \subseteq Sector /\ Extent(s, cnt) \cap free_map = {}
<1>1. Fits(cnt) \subseteq Nat
  BY FileSysAssumption DEF Fits
<1>2. PICK s \in Fits(cnt) : s = Lowest(Fits(cnt))
  BY <1>1, LowestIs
<1>3. s \in 0 .. SectorCnt - cnt /\ Extent(s, cnt) \cap free_map = {}
  BY DEF Fits
<1>4. Extent(s, cnt) \subseteq Sector
  BY <1>3, FileSysAssumption DEF Extent, Sector
<1> QED
  BY <1>2, <1>3, <1>4

\* An extent of no sectors.
LEMMA NoExtent ==
  ASSUME NEW s \in Nat
  PROVE  Extent(s, 0) = {}
BY DEF Extent

\* The parts of the type invariant.
LEMMA TypesAre ==
  ASSUME Types
  PROVE  /\ free_map \subseteq Sector /\ free_map_file \subseteq Sector /\ lost \subseteq Sector
         /\ root \in [1 .. SlotCnt -> [name : Name \cup {None}, sector : Sector]]
         /\ open_inodes \in [Sector -> [open_cnt : Nat, removed : BOOLEAN, deny_write_cnt : Nat,
                                        start : Sector, length : Length]]
         /\ files \in [Handle -> [sector : Sector \cup {None}, deny_write : BOOLEAN]]
         /\ op \in [name : Name \cup {None}, sector : Sector, start : Sector, length : Length]
         /\ pc \in Labels
BY DEF Types, TypeOK, Length

\* Directory and inode table decide which files are live.
LEMMA SameLive ==
  ASSUME UNCHANGED <<root, open_inodes>>
  PROVE  /\ Linked' = Linked /\ Live' = Live /\ \A s : IsOpen(s)' <=> IsOpen(s)
<1>1. Linked' = Linked
  BY Zenon DEF Linked
<1>2. \A s : IsOpen(s)' <=> IsOpen(s)
  BY Zenon DEF IsOpen
<1> QED
  BY <1>1, <1>2, Zenon DEF Live

\* The files and the inode table decide the counts.
LEMMA SameCounts ==
  ASSUME CountsExact, FileInv, UNCHANGED <<open_inodes, files>>
  PROVE  CountsExact' /\ FileInv'
BY Zenon DEF CountsExact, FileInv

-----------------------------------------------------------------------------
(* Who has which sectors, before and after a step.                         *)

\* A file has sector x.
Has(x) == \E s \in Live : x \in OnDisk(s)

\* A sector is marked when a file has it, and for no more than three other reasons.
LEMMA MarkedIs ==
  (free_map = Boot \cup (UNION {OnDisk(s) : s \in Live}) \cup InOp \cup lost)
    <=> (\A x : x \in free_map <=> x \in Boot \/ Has(x) \/ x \in InOp \/ x \in lost)
<1> DEFINE U == UNION {OnDisk(s) : s \in Live}
<1>1. \A x : x \in U <=> Has(x)
  BY Zenon DEF Has
<1> HIDE DEF U
<1>2. (free_map = Boot \cup U \cup InOp \cup lost)
        <=> (\A x : x \in free_map <=> x \in Boot \/ x \in U \/ x \in InOp \/ x \in lost)
  OBVIOUS
<1>3. (\A x : x \in free_map <=> x \in Boot \/ x \in U \/ x \in InOp \/ x \in lost)
        <=> (\A x : x \in free_map <=> x \in Boot \/ Has(x) \/ x \in InOp \/ x \in lost)
  BY <1>1, Zenon
<1> QED
  BY <1>2, <1>3 DEF U

\* The same after the step.
LEMMA MarkedWas ==
  (free_map' = Boot' \cup (UNION {OnDisk(s)' : s \in Live'}) \cup InOp' \cup lost')
    <=> (\A x : x \in free_map' <=> x \in Boot' \/ Has(x)' \/ x \in InOp' \/ x \in lost')
<1> DEFINE U == UNION {OnDisk(s)' : s \in Live'}
<1>1. \A x : x \in U <=> Has(x)'
  BY Zenon DEF Has
<1> HIDE DEF U
<1>2. (free_map' = Boot' \cup U \cup InOp' \cup lost')
        <=> (\A x : x \in free_map' <=> x \in Boot' \/ x \in U \/ x \in InOp' \/ x \in lost')
  OBVIOUS
<1>3. (\A x : x \in free_map' <=> x \in Boot' \/ x \in U \/ x \in InOp' \/ x \in lost')
        <=> (\A x : x \in free_map' <=> x \in Boot' \/ Has(x)' \/ x \in InOp' \/ x \in lost')
  BY <1>1, Zenon
<1> QED
  BY <1>2, <1>3 DEF U

\* The same files are live and have the same sectors; E is taken by the call in
\* progress, R is given back and L is lost.
LEMMA SharesMove ==
  ASSUME ApartInv, MapInv, Live' = Live, \A s \in Live : OnDisk(s)' = OnDisk(s),
         NEW E, NEW R, NEW L, E \cap free_map = {}, R \subseteq InOp, L \subseteq InOp, R \cap L = {},
         free_map' = (free_map \cup E) \ R, InOp' = (InOp \cup E) \ (R \cup L),
         lost' = lost \cup L, free_map' \subseteq free_map_file'
  PROVE  ApartInv' /\ MapInv'
<1>1. \A x : x \in free_map <=> x \in Boot \/ Has(x) \/ x \in InOp \/ x \in lost
  BY MarkedIs, Zenon DEF MapInv
<1>2. Boot' = Boot
  BY DEF Boot
<1>3. \A s \in Live : \A x \in OnDisk(s) : x \in free_map
  BY <1>1, Zenon DEF Has
<1>4. \A s \in Live : OnDisk(s) \cap (Boot \cup lost' \cup InOp') = {}
  BY <1>3, Zenon DEF ApartInv
<1>5. InOp' \cap (Boot \cup lost') = {}
  BY <1>1, Zenon DEF ApartInv
<1>6. ApartInv'
  BY <1>2, <1>4, <1>5, Zenon DEF ApartInv
<1>7. ASSUME NEW x
      PROVE  x \in free_map' <=> x \in Boot' \/ Has(x)' \/ x \in InOp' \/ x \in lost'
  <2>1. Has(x)' <=> Has(x)
    BY Zenon DEF Has
  <2>2. x \in InOp => x \notin Boot /\ x \notin lost /\ ~Has(x)
    BY Zenon DEF ApartInv, Has
  <2>3. /\ x \in InOp' <=> (x \in InOp \/ x \in E) /\ x \notin R /\ x \notin L
        /\ x \in lost' <=> x \in lost \/ x \in L
        /\ x \in free_map' <=> (x \in free_map \/ x \in E) /\ x \notin R
        /\ (x \in R => x \in InOp /\ x \notin L) /\ (x \in L => x \in InOp)
    BY Zenon
  <2> QED
    BY <1>1, <1>2, <2>1, <2>2, <2>3, Zenon
<1> QED
  BY <1>6, <1>7, MarkedWas, Zenon DEF MapInv

\* dir_add () gives all the call has to the file it links.
LEMMA SharesJoin ==
  ASSUME ApartInv, MapInv, NEW t, Live' = Live \cup {t}, \A s \in Live' : OnDisk(s)' = OnDisk(s),
         InOp = OnDisk(t), InOp' = {}, UNCHANGED <<free_map, free_map_file, lost>>
  PROVE  ApartInv' /\ MapInv'
<1>1. \A x : x \in free_map <=> x \in Boot \/ Has(x) \/ x \in InOp \/ x \in lost
  BY MarkedIs, Zenon DEF MapInv
<1>2. Boot' = Boot
  BY DEF Boot
<1>3. \A s \in Live : OnDisk(s) \cap OnDisk(t) = {} /\ OnDisk(t) \cap OnDisk(s) = {}
  BY Zenon DEF ApartInv
<1>4. \A s \in Live' : OnDisk(s) \cap (Boot \cup lost) = {}
  BY Zenon DEF ApartInv
<1>5. ASSUME NEW r \in Live', NEW s \in Live', r # s PROVE OnDisk(r)' \cap OnDisk(s)' = {}
  <2>1. CASE r = t
    BY <1>3, <1>5, <2>1, Zenon
  <2>2. CASE s = t
    BY <1>3, <1>5, <2>2, Zenon
  <2>3. CASE r # t /\ s # t
    BY <1>5, <2>3, Zenon DEF ApartInv
  <2> QED
    BY <2>1, <2>2, <2>3
<1>6. \A s \in Live' : OnDisk(s)' \cap (Boot \cup lost' \cup InOp') = {}
  BY <1>4, Zenon
<1>7. ApartInv'
  BY <1>2, <1>5, <1>6, Zenon DEF ApartInv
<1>8. \A x : Has(x)' <=> Has(x) \/ x \in InOp
  BY Zenon DEF Has
<1>9. \A x : x \in free_map' <=> x \in Boot' \/ Has(x)' \/ x \in InOp' \/ x \in lost'
  BY <1>1, <1>2, <1>8, Zenon
<1> QED
  BY <1>7, <1>9, MarkedWas, Zenon DEF MapInv

\* The last close of a removed file gives all it has to the call that closes it.
LEMMA SharesLeave ==
  ASSUME ApartInv, MapInv, NEW t \in Live, Live' = Live \ {t},
         \A s \in Live : OnDisk(s)' = OnDisk(s),
         InOp = {}, InOp' = OnDisk(t), UNCHANGED <<free_map, free_map_file, lost>>
  PROVE  ApartInv' /\ MapInv'
<1>1. \A x : x \in free_map <=> x \in Boot \/ Has(x) \/ x \in lost
  BY MarkedIs, Zenon DEF MapInv
<1>2. Boot' = Boot
  BY DEF Boot
<1>3. \A s \in Live' : OnDisk(s) \cap OnDisk(t) = {} /\ OnDisk(s) \cap (Boot \cup lost) = {}
  BY Zenon DEF ApartInv
<1>4. \A s \in Live' : OnDisk(s)' \cap (Boot \cup lost' \cup InOp') = {}
  BY <1>3, Zenon
<1>5. InOp' \cap (Boot \cup lost') = {}
  BY Zenon DEF ApartInv
<1>6. ApartInv'
  BY <1>2, <1>4, <1>5, Zenon DEF ApartInv
<1>7. \A x : Has(x) <=> Has(x)' \/ x \in InOp'
  BY Zenon DEF Has
<1>8. \A x : x \in free_map' <=> x \in Boot' \/ Has(x)' \/ x \in InOp' \/ x \in lost'
  BY <1>1, <1>2, <1>7, Zenon
<1> QED
  BY <1>6, <1>8, MarkedWas, Zenon DEF MapInv

-----------------------------------------------------------------------------
(* Steps of filesys_create () and of inode_close () that leave files alone. *)

\* What the call in progress has, by how far it has come.
LEMMA InOpIs ==
  /\ pc = "idle" => InOp = {}
  /\ pc = "create_data" => InOp = {op.sector}
  /\ pc = "release_data" => InOp = Extent(op.start, op.length)
  /\ pc \in {"create_inode", "create_zeros", "dir_add", "create_undo", "release_inode"} =>
       InOp = {op.sector} \cup Extent(op.start, op.length)
BY DEF InOp

\* The same after the step.
LEMMA InOpWas ==
  /\ pc' = "idle" => InOp' = {}
  /\ pc' = "create_data" => InOp' = {op'.sector}
  /\ pc' = "release_data" => InOp' = Extent(op'.start, op'.length)
  /\ pc' \in {"create_inode", "create_zeros", "dir_add", "create_undo", "release_inode"} =>
       InOp' = {op'.sector} \cup Extent(op'.start, op'.length)
BY DEF InOp, Extent

\* What Go does.
LEMMA GoIs ==
  ASSUME NEW label, NEW o, Go(label, o)
  PROVE  /\ pc' = label
         /\ label = "idle" => op' = NoOp
         /\ label # "idle" => op' = o
BY DEF Go

\* A step that leaves the directory, the open inodes and the inodes of live files
\* alone; E, R and L as in SharesMove.
LEMMA QuietStep ==
  ASSUME FsInv, UNCHANGED <<root, memVars>>, Types', OpInv', \A s \in Live : disk'[s] = disk[s],
         NEW E, NEW R, NEW L, E \cap free_map = {}, R \subseteq InOp, L \subseteq InOp, R \cap L = {},
         free_map' = (free_map \cup E) \ R, InOp' = (InOp \cup E) \ (R \cup L),
         lost' = lost \cup L, free_map' \subseteq free_map_file'
  PROVE  FsInv'
<1>1. ApartInv /\ MapInv /\ InodeInv /\ EntryInv /\ CountsExact /\ FileInv
  BY DEF FsInv
<1>2. UNCHANGED <<root, open_inodes, files>>
  BY DEF memVars
<1>3. Linked' = Linked /\ Live' = Live /\ \A s : IsOpen(s)' <=> IsOpen(s)
  BY <1>2, SameLive
<1>4. \A s \in Live : Data(s)' = Data(s) /\ OnDisk(s)' = OnDisk(s)
  BY Zenon DEF Data, OnDisk, Extent
<1>5. ApartInv' /\ MapInv'
  BY <1>1, <1>3, <1>4, SharesMove, ZenonT(40)
<1>6. InodeInv'
  <2>1. \A s \in Live' : /\ s \in Sector /\ disk'[s] \in InodeDisk /\ Data(s)' \subseteq Sector
                         /\ s \notin Data(s)'
    BY <1>1, <1>3, <1>4, Zenon DEF InodeInv
  <2>2. \A s \in Sector : IsOpen(s) => s \in Live
    BY Zenon DEF Live, IsOpen
  <2>3. \A s \in Sector : IsOpen(s)' =>
          /\ open_inodes'[s].start = disk'[s].start /\ open_inodes'[s].length = disk'[s].length
          /\ open_inodes'[s].removed <=> s \notin Linked'
    BY <1>1, <1>2, <1>3, <2>2, Zenon DEF InodeInv
  <2>4. \A s \in Sector : ~IsOpen(s)' => open_inodes'[s] = NoInode
    BY <1>1, <1>2, <1>3, Zenon DEF InodeInv
  <2> QED
    BY <2>1, <2>3, <2>4, Zenon DEF InodeInv, InodeDisk
<1>7. EntryInv' /\ CountsExact' /\ FileInv'
  <2>1. EntryInv'
    BY <1>1, <1>2, Zenon DEF EntryInv
  <2>2. CountsExact'
    BY <1>1, <1>2, Zenon DEF CountsExact
  <2>3. FileInv'
    BY <1>1, <1>2, Zenon DEF FileInv
  <2> QED
    BY <2>1, <2>2, <2>3, Zenon
<1> QED
  BY <1>5, <1>6, <1>7 DEF FsInv

\* filesys_create () takes a sector for the inode, or gives up.
LEMMA CreateKeeps ==
  ASSUME CanCount, FsInv, NEW n \in Name, NEW k \in Size, filesys_create(n, k)
  PROVE  FsInv'
<1>1. Types /\ OpInv /\ MapInv
  BY DEF FsInv
<1>2. pc = "idle" /\ UNCHANGED <<disk, root, memVars, lost>> /\ InOp = {}
  BY InOpIs, Zenon DEF filesys_create
<1>3. ASSUME NEW s \in Sector, free_map_allocate(1, s),
             Go("create_data", [NoOp EXCEPT !.name = n, !.sector = s, !.length = k])
      PROVE  FsInv'
  <2>1. /\ s = Lowest(Fits(1)) /\ Fits(1) # {} /\ free_map' = free_map \cup Extent(s, 1)
        /\ free_map_file' = free_map'
    BY <1>3 DEF free_map_allocate
  <2>2. 1 \in Nat /\ s \in Nat /\ k \in Length /\ s \in Int
    BY Constants DEF Length
  <2>3. Extent(s, 1) \subseteq Sector /\ Extent(s, 1) \cap free_map = {}
    BY <2>1, <2>2, FitsIs
  <2>4. Extent(s, 1) = {s}
    BY <2>2 DEF Extent
  <2>5. pc' = "create_data" /\ op' = [NoOp EXCEPT !.name = n, !.sector = s, !.length = k]
    BY <1>3, GoIs
  <2>6. /\ op'.sector = s /\ op'.name = n
        /\ op' \in [name : Name \cup {None}, sector : Sector, start : Sector, length : Length]
    BY <2>2, <2>5, Constants, Zenon DEF NoOp
  <2>7. Types'
    BY <1>1, <1>2, <2>1, <2>3, <2>5, <2>6 DEF Types, TypeOK, memVars, Labels, Length
  <2>8. OpInv'
    BY <2>5, <2>6 DEF OpInv
  <2>9. InOp' = (InOp \cup {s}) \ ({} \cup {})
    BY <1>2, <2>5, <2>6, InOpWas
  <2>10. free_map' = (free_map \cup {s}) \ {} /\ lost' = lost \cup {} /\ {s} \cap free_map = {}
    BY <1>2, <2>1, <2>3, <2>4
  <2>11. \A t \in Live : disk'[t] = disk[t]
    BY <1>2
  <2> QED
    BY <1>2, <2>1, <2>7, <2>8, <2>9, <2>10, <2>11, QuietStep
<1>4. CASE AllocateFails(1) /\ Go("idle", NoOp)
  <2>1. pc' = "idle" /\ op' = NoOp /\ UNCHANGED <<free_map, free_map_file>> /\ InOp' = {}
    BY <1>4, GoIs, InOpWas DEF AllocateFails, mapVars
  <2>2. Types'
    BY <1>1, <1>2, <2>1, Constants, Zenon DEF Types, TypeOK, memVars, Labels, Length
  <2>3. OpInv'
    BY <2>1 DEF OpInv
  <2>4. InOp' = (InOp \cup {}) \ ({} \cup {}) /\ lost' = lost \cup {}
        /\ free_map' = (free_map \cup {}) \ {} /\ free_map' \subseteq free_map_file'
    BY <1>1, <1>2, <2>1 DEF MapInv
  <2>5. \A t \in Live : disk'[t] = disk[t]
    BY <1>2
  <2> QED
    BY <1>2, <2>2, <2>3, <2>4, <2>5, QuietStep
<1> QED
  BY <1>3, <1>4, Zenon DEF filesys_create

\* A step of a call that takes, gives back and loses nothing.
LEMMA OnlyCall ==
  ASSUME FsInv, UNCHANGED <<mapVars, root, memVars, lost>>, Types', OpInv', InOp' = InOp,
         \A s \in Live : disk'[s] = disk[s]
  PROVE  FsInv'
<1>1. free_map' = free_map /\ free_map_file' = free_map_file /\ free_map \subseteq free_map_file
  BY DEF FsInv, MapInv, mapVars
<1>2. PICK N : N = {}
  BY Zenon
<1>3. /\ N \cap free_map = {} /\ N \subseteq InOp /\ N \cap N = {}
      /\ InOp' = (InOp \cup N) \ (N \cup N) /\ lost' = lost \cup N
      /\ free_map' = (free_map \cup N) \ N /\ free_map' \subseteq free_map_file'
  BY <1>1, <1>2
<1> QED
  BY <1>3, QuietStep, ZenonT(40)

\* A step of a call that gives back the sectors R.
LEMMA GivesBack ==
  ASSUME FsInv, UNCHANGED <<disk, root, memVars, lost>>, Types', OpInv', NEW R,
         R \subseteq InOp, InOp' = InOp \ R, free_map' = free_map \ R,
         free_map' \subseteq free_map_file'
  PROVE  FsInv'
<1>1. PICK N : N = {}
  BY Zenon
<1>2. /\ N \cap free_map = {} /\ N \subseteq InOp /\ R \cap N = {}
      /\ InOp' = (InOp \cup N) \ (R \cup N) /\ lost' = lost \cup N
      /\ free_map' = (free_map \cup N) \ R
  BY <1>1
<1>3. \A t \in Live : disk'[t] = disk[t]
  OBVIOUS
<1> QED
  BY <1>2, <1>3, QuietStep, ZenonT(40)

\* inode_create () takes the data sectors, or fails and leaves the inode's sector
\* to be given back.
LEMMA InodeCreateKeeps ==
  ASSUME CanCount, FsInv, inode_create
  PROVE  FsInv'
<1>1. /\ Types /\ OpInv /\ MapInv /\ op.length \in Length /\ op.sector \in Sector
      /\ op \in [name : Name \cup {None}, sector : Sector, start : Sector, length : Length]
  BY TypesAre DEF FsInv
<1>2. pc = "create_data" /\ UNCHANGED <<disk, root, memVars, lost>> /\ InOp = {op.sector}
  BY InOpIs DEF inode_create
<1>3. op.sector \in free_map /\ op.name \in Name
  BY <1>1, <1>2 DEF MapInv, OpInv
<1>4. ASSUME NEW s \in Sector, free_map_allocate(op.length, s),
             Go("create_inode", [op EXCEPT !.start = s])
      PROVE  FsInv'
  <2>1. PICK k \in Length : k = op.length /\ k \in Nat
    BY <1>1, Constants, Zenon
  <2>2. /\ s = Lowest(Fits(k)) /\ Fits(k) # {} /\ free_map' = free_map \cup Extent(s, k)
        /\ free_map_file' = free_map'
    BY <1>4, <2>1 DEF free_map_allocate
  <2>3. Extent(s, k) \subseteq Sector /\ Extent(s, k) \cap free_map = {}
    BY <2>1, <2>2, FitsIs
  <2>4. pc' = "create_inode" /\ op' = [op EXCEPT !.start = s]
    BY <1>4, GoIs
  <2>5. /\ op'.sector = op.sector /\ op'.name = op.name /\ op'.start = s /\ op'.length = k
        /\ op' \in [name : Name \cup {None}, sector : Sector, start : Sector, length : Length]
    BY <1>1, <2>1, <2>4
  <2> HIDE DEF Extent
  <2>6. PICK E : E = Extent(s, k)
    OBVIOUS
  <2>7. Types'
    BY <1>1, <1>2, <2>2, <2>3, <2>4, <2>5, <2>6 DEF Types, TypeOK, memVars, Labels, Length
  <2>8. OpInv'
    <3>1. op.sector \notin E
      BY <1>3, <2>3, <2>6
    <3> QED
      BY <1>3, <2>3, <2>4, <2>5, <2>6, <3>1 DEF OpInv
  <2>9. InOp' = {op.sector} \cup E
    BY <2>4, <2>5, <2>6, InOpWas
  <2>10. /\ InOp' = (InOp \cup E) \ ({} \cup {}) /\ lost' = lost \cup {}
         /\ free_map' = (free_map \cup E) \ {} /\ E \cap free_map = {}
    BY <1>2, <2>2, <2>3, <2>6, <2>9
  <2>11. \A t \in Live : disk'[t] = disk[t]
    BY <1>2
  <2> QED
    BY <1>2, <2>2, <2>7, <2>8, <2>10, <2>11, QuietStep, ZenonT(40)
<1>5. CASE AllocateFails(op.length) /\ Go("create_undo", [op EXCEPT !.length = 0])
  <2>1. /\ pc' = "create_undo" /\ op' = [op EXCEPT !.length = 0]
        /\ UNCHANGED <<free_map, free_map_file>>
    BY <1>5, GoIs DEF AllocateFails, mapVars
  <2>2. /\ op'.sector = op.sector /\ op'.name = op.name /\ op'.length = 0 /\ op'.start \in Nat
        /\ op' \in [name : Name \cup {None}, sector : Sector, start : Sector, length : Length]
    BY <1>1, <2>1, Constants
  <2>3. Extent(op'.start, op'.length) = {}
    BY <2>2, NoExtent
  <2>4. Types'
    BY <1>1, <1>2, <2>1, <2>2 DEF Types, TypeOK, memVars, Labels, Length
  <2>5. OpInv'
    BY <1>3, <2>1, <2>2, <2>3 DEF OpInv
  <2>6. InOp' = InOp
    BY <1>2, <2>1, <2>2, <2>3, InOpWas
  <2> QED
    BY <1>2, <2>1, <2>4, <2>5, <2>6, OnlyCall DEF mapVars
<1> QED
  BY <1>4, <1>5, Zenon DEF inode_create

\* The inode is written to a sector no file has.
LEMMA CreateWriteKeeps ==
  ASSUME FsInv, inode_create_write
  PROVE  FsInv'
<1>1. /\ Types /\ OpInv /\ MapInv /\ ApartInv /\ op.sector \in Sector
      /\ op.start \in Sector /\ op.length \in Length
  BY TypesAre DEF FsInv
<1>2. /\ pc = "create_inode" /\ UNCHANGED <<mapVars, root, memVars, lost>>
      /\ disk' = [disk EXCEPT ![op.sector] = [start |-> op.start, length |-> op.length]]
      /\ Go("create_zeros", op)
  BY DEF inode_create_write
<1>3. pc' = "create_zeros" /\ op' = op
  BY <1>2, GoIs
<1>4. InOp = {op.sector} \cup Extent(op.start, op.length) /\ InOp' = InOp
  BY <1>2, <1>3, InOpIs, InOpWas
<1>5. ASSUME NEW s \in Live PROVE disk'[s] = disk[s]
  <2>1. s # op.sector
    BY <1>1, <1>4 DEF ApartInv, OnDisk
  <2> QED
    BY <1>2, <2>1
<1>6. disk'[op.sector] = [start |-> op.start, length |-> op.length]
  BY <1>1, <1>2 DEF Types
<1>7. DOMAIN disk' = Sector /\ disk' = [s \in Sector |-> disk'[s]]
  BY <1>1, <1>2 DEF Types
<1>8. Types'
  BY <1>1, <1>2, <1>3, <1>7 DEF Types, TypeOK, memVars, mapVars, Labels
<1>9. OpInv'
  BY <1>1, <1>2, <1>3, <1>6 DEF OpInv
<1> QED
  BY <1>2, <1>4, <1>5, <1>8, <1>9, OnlyCall

\* The zeros written so far are in the first sectors of the file.
LEMMA ZerosAre ==
  ASSUME Types, inode_create_zeros
  PROVE  \E D \in SUBSET Extent(op.start, op.length) :
           /\ disk' = [s \in Sector |-> IF s \in D THEN Zero ELSE disk[s]]
           /\ pc' \in {"create_zeros", "dir_add"} /\ op' = op
           /\ pc' = "dir_add" => D = Extent(op.start, op.length)
<1>1. PICK k \in 0 .. op.length :
        /\ disk' = [s \in Sector |-> IF s \in Extent(op.start, k) THEN Zero ELSE disk[s]]
        /\ Go(IF k = op.length THEN "dir_add" ELSE "create_zeros", op)
  BY Zenon DEF inode_create_zeros
<1>2. /\ pc' = IF k = op.length THEN "dir_add" ELSE "create_zeros"
      /\ op' = op
  BY <1>1, GoIs
<1>3. op.start \in Nat /\ op.length \in Nat
  BY TypesAre, Constants
<1>4. Extent(op.start, k) \subseteq Extent(op.start, op.length)
  BY <1>1, <1>3 DEF Extent
<1>5. pc' = "dir_add" => Extent(op.start, k) = Extent(op.start, op.length)
  BY <1>2
<1> QED
  BY <1>1, <1>2, <1>4, <1>5

\* The zeros go to sectors no file has.
LEMMA CreateZerosKeeps ==
  ASSUME FsInv, inode_create_zeros
  PROVE  FsInv'
<1>1. Types /\ OpInv /\ MapInv /\ ApartInv /\ InodeInv /\ op.sector \in Sector
  BY TypesAre DEF FsInv
<1>2. PICK E : E = Extent(op.start, op.length)
  OBVIOUS
<1>3. pc = "create_zeros" /\ UNCHANGED <<mapVars, root, memVars, lost>>
  BY DEF inode_create_zeros
<1>4. PICK D \in SUBSET E :
        /\ disk' = [s \in Sector |-> IF s \in D THEN Zero ELSE disk[s]]
        /\ pc' \in {"create_zeros", "dir_add"} /\ op' = op
  BY <1>1, <1>2, ZerosAre
<1>5. InOp = {op.sector} \cup E /\ InOp' = InOp
  BY <1>2, <1>3, <1>4, InOpIs, InOpWas
<1>6. ASSUME NEW s \in Live PROVE disk'[s] = disk[s]
  <2>1. s \notin E /\ s \in Sector
    BY <1>1, <1>5 DEF ApartInv, OnDisk, InodeInv
  <2> QED
    BY <1>4, <2>1
<1>7. disk'[op.sector] = disk[op.sector]
  BY <1>1, <1>2, <1>3, <1>4 DEF OpInv
<1>8. DOMAIN disk' = Sector /\ disk' = [s \in Sector |-> disk'[s]]
  BY <1>4
<1>9. Types'
  BY <1>1, <1>3, <1>4, <1>8 DEF Types, TypeOK, memVars, mapVars, Labels
<1>10. OpInv'
  BY <1>1, <1>2, <1>3, <1>4, <1>7 DEF OpInv
<1> QED
  BY <1>3, <1>5, <1>6, <1>9, <1>10, OnlyCall

\* Bits that free_map_release () clears may stay set in the free map's file.
LEMMA ReleaseIs ==
  ASSUME MapInv, Types, NEW S, free_map_release(S)
  PROVE  /\ free_map' = free_map \ S /\ free_map' \subseteq free_map_file'
         /\ free_map' \subseteq Sector /\ free_map_file' \subseteq Sector
<1>1. free_map \subseteq free_map_file /\ free_map \subseteq Sector /\ free_map_file \subseteq Sector
  BY TypesAre DEF MapInv
<1> QED
  BY <1>1 DEF free_map_release

\* filesys_create () gives the inode's sector back; the data's are lost.
LEMMA UndoKeeps ==
  ASSUME FsInv, create_undo
  PROVE  FsInv'
<1>1. Types /\ OpInv /\ MapInv /\ ApartInv /\ op.sector \in Sector
  BY TypesAre DEF FsInv
<1>2. PICK L : L = Extent(op.start, op.length)
  OBVIOUS
<1>3. /\ pc = "create_undo" /\ free_map_release({op.sector}) /\ lost' = lost \cup L
      /\ Go("idle", NoOp) /\ UNCHANGED <<disk, root, memVars>>
  BY <1>2 DEF create_undo
<1>4. pc' = "idle" /\ op' = NoOp /\ InOp' = {}
  BY <1>3, GoIs, InOpWas
<1>5. InOp = {op.sector} \cup L /\ op.sector \notin L /\ L \subseteq Sector
  BY <1>1, <1>2, <1>3, InOpIs DEF OpInv
<1>6. /\ free_map' = free_map \ {op.sector} /\ free_map' \subseteq free_map_file'
      /\ free_map' \subseteq Sector /\ free_map_file' \subseteq Sector
  BY <1>1, <1>3, ReleaseIs
<1>7. Types'
  BY <1>1, <1>3, <1>4, <1>5, <1>6, Constants, Zenon DEF Types, TypeOK, memVars, Labels, Length
<1>8. OpInv'
  BY <1>4 DEF OpInv
<1>9. /\ {op.sector} \subseteq InOp /\ L \subseteq InOp /\ {op.sector} \cap L = {}
      /\ InOp' = (InOp \cup {}) \ ({op.sector} \cup L) /\ free_map' = (free_map \cup {}) \ {op.sector}
  BY <1>4, <1>5, <1>6
<1>10. \A t \in Live : disk'[t] = disk[t]
  BY <1>3
<1> QED
  BY <1>3, <1>6, <1>7, <1>8, <1>9, <1>10, QuietStep, ZenonT(40)

\* inode_close () releases the inode's sector, and then the data's.
LEMMA ReleaseKeeps ==
  ASSUME FsInv, release_inode \/ release_data
  PROVE  FsInv'
<1>1. Types /\ OpInv /\ MapInv /\ ApartInv /\ op.sector \in Sector
  BY TypesAre DEF FsInv
<1>2. PICK D : D = Extent(op.start, op.length)
  OBVIOUS
<1>3. UNCHANGED <<disk, root, memVars, lost>>
  BY DEF release_inode, release_data
<1>5. CASE release_inode
  <2>1. pc = "release_inode" /\ free_map_release({op.sector}) /\ Go("release_data", op)
    BY <1>5 DEF release_inode
  <2>2. pc' = "release_data" /\ op' = op /\ InOp' = D
    BY <1>2, <2>1, GoIs, InOpWas
  <2>3. InOp = {op.sector} \cup D /\ op.sector \notin D /\ D \subseteq Sector
    BY <1>1, <1>2, <2>1, InOpIs DEF OpInv
  <2>4. /\ free_map' = free_map \ {op.sector} /\ free_map' \subseteq free_map_file'
        /\ free_map' \subseteq Sector /\ free_map_file' \subseteq Sector
    BY <1>1, <2>1, ReleaseIs
  <2>5. Types'
    BY <1>1, <1>3, <2>2, <2>4 DEF Types, TypeOK, memVars, Labels
  <2>6. OpInv'
    BY <1>2, <2>2, <2>3 DEF OpInv
  <2>7. {op.sector} \subseteq InOp /\ InOp' = InOp \ {op.sector}
    BY <2>2, <2>3
  <2> QED
    BY <1>3, <2>4, <2>5, <2>6, <2>7, GivesBack, Zenon
<1>6. CASE release_data
  <2>1. pc = "release_data" /\ free_map_release(D) /\ Go("idle", NoOp)
    BY <1>2, <1>6 DEF release_data
  <2>2. pc' = "idle" /\ op' = NoOp /\ InOp' = {}
    BY <2>1, GoIs, InOpWas
  <2>3. InOp = D
    BY <1>2, <2>1, InOpIs
  <2>4. /\ free_map' = free_map \ D /\ free_map' \subseteq free_map_file'
        /\ free_map' \subseteq Sector /\ free_map_file' \subseteq Sector
    BY <1>1, <2>1, ReleaseIs
  <2>5. Types'
    BY <1>1, <1>3, <2>2, <2>4, Constants DEF Types, TypeOK, memVars, Labels, Length
  <2>6. OpInv'
    BY <2>2 DEF OpInv
  <2>7. D \subseteq InOp /\ InOp' = InOp \ D
    BY <2>2, <2>3
  <2> QED
    BY <1>3, <2>4, <2>5, <2>6, <2>7, GivesBack
<1> QED
  BY <1>5, <1>6

-----------------------------------------------------------------------------
(* Steps that change the directory or the open inodes.                     *)

\* Entry i names inode s.
Names(i, s) == i \in DOMAIN root /\ root[i].name # None /\ root[i].sector = s

\* The linked inodes are those an entry names.
LEMMA LinkedIs == \A s : s \in Linked <=> \E i : Names(i, s)
BY Zenon DEF Linked, Names

\* The same after the step.
LEMMA LinkedWas == \A s : s \in Linked' <=> \E i : Names(i, s)'
BY Zenon DEF Linked, Names

\* A live inode is linked or open.
LEMMA LiveIs == \A s : s \in Live <=> s \in Linked \/ (s \in Sector /\ IsOpen(s))
BY Zenon DEF Live, IsOpen

\* The same after the step.
LEMMA LiveWas == \A s : s \in Live' <=> s \in Linked' \/ (s \in Sector /\ IsOpen(s)')
BY Zenon DEF Live, IsOpen

\* On a live inode, memory and disk agree on the sectors.
LEMMA OwnedIs ==
  ASSUME InodeInv
  PROVE  \A s \in Live : Owned(s) = OnDisk(s)
<1> SUFFICES ASSUME NEW s \in Live PROVE Owned(s) = OnDisk(s)
  OBVIOUS
<1>1. s \in Sector
  BY DEF InodeInv
<1>2. CASE IsOpen(s)
  <2>1. open_inodes[s].start = disk[s].start /\ open_inodes[s].length = disk[s].length
    BY <1>1, <1>2, Zenon DEF InodeInv
  <2> QED
    BY <1>2, <2>1, Zenon DEF Owned, OnDisk, Data, IsOpen
<1>3. CASE ~IsOpen(s)
  BY <1>3, Zenon DEF Owned, OnDisk, Data, IsOpen
<1> QED
  BY <1>2, <1>3

\* When reads do not fall short, dir_add () stops at a free slot.
LEMMA StopsAtFree ==
  ASSUME CanCount, ReadsWhole, Types, NEW i \in ScanStops \cap (1 .. SlotCnt)
  PROVE  i \in DOMAIN root /\ root[i].name = None
<1> DEFINE free == Entries(None) \cup {SlotCnt + 1}
<1>1. DOMAIN root = 1 .. SlotCnt /\ SlotCnt \in Nat
  BY TypesAre, FileSysAssumption
<1>2. free \subseteq Nat /\ free # {}
  BY <1>1 DEF Entries
<1>3. Lowest(free) \in free
  BY <1>2, LowestIs
<1>4. i = Lowest(free)
  BY DEF ScanStops, ReadsWhole
<1>5. i # SlotCnt + 1 /\ i \in 1 .. SlotCnt
  BY <1>1
<1>6. i \in Entries(None)
  BY <1>3, <1>4, <1>5
<1> QED
  BY <1>6 DEF Entries

\* dir_add () links the new inode, or the call is undone.
LEMMA DirAddKeeps ==
  ASSUME CanCount, ReadsWhole, FsInv, dir_add
  PROVE  FsInv'
<1>1. /\ Types /\ OpInv /\ MapInv /\ ApartInv /\ InodeInv /\ EntryInv /\ CountsExact
      /\ op.sector \in Sector /\ op.start \in Sector /\ op.length \in Length
      /\ root \in [1 .. SlotCnt -> [name : Name \cup {None}, sector : Sector]]
  BY TypesAre DEF FsInv
<1>2. PICK t \in Sector : t = op.sector
  BY <1>1
<1>3. /\ pc = "dir_add" /\ UNCHANGED <<mapVars, disk, memVars, lost>>
      /\ UNCHANGED <<free_map, free_map_file, open_inodes, files>>
  BY DEF dir_add, memVars, mapVars
<1>4. disk[t] = [start |-> op.start, length |-> op.length] /\ op.name \in Name
  BY <1>1, <1>2, <1>3 DEF OpInv
<1>5. InOp = {t} \cup Extent(op.start, op.length)
  BY <1>2, <1>3, InOpIs
<1>6. Data(t) = Extent(op.start, op.length) /\ disk[t] \in InodeDisk /\ InOp = OnDisk(t)
  BY <1>1, <1>4, <1>5 DEF Data, OnDisk, InodeDisk
<1>7. Data(t) \subseteq Sector /\ t \notin Data(t)
  BY <1>1, <1>2, <1>3, <1>6 DEF OpInv
<1>8. t \notin Live
  BY <1>1, <1>5 DEF ApartInv, OnDisk
<1>9. t \notin Linked /\ ~IsOpen(t)
  BY <1>8, LiveIs, Zenon
<1>10. ASSUME NEW i \in ScanStops \cap (1 .. SlotCnt), Missing(op.name),
              root' = [root EXCEPT ![i] = [name |-> op.name, sector |-> op.sector]],
              Go("idle", NoOp)
       PROVE  FsInv'
  <2>1. pc' = "idle" /\ op' = NoOp /\ InOp' = {}
    BY <1>10, GoIs, InOpWas
  <2>2. i \in 1 .. SlotCnt /\ root[i].name = None
    BY <1>1, <1>10, StopsAtFree
  <2>3. \A j \in 1 .. SlotCnt : root[j].name # op.name
    BY <1>1, <1>10 DEF Missing, ReadsWhole, Entries
  <2>4. /\ DOMAIN root' = 1 .. SlotCnt /\ root'[i].name = op.name /\ root'[i].sector = t
        /\ \A j \in 1 .. SlotCnt : j # i => root'[j] = root[j]
        /\ root' \in [1 .. SlotCnt -> [name : Name \cup {None}, sector : Sector]]
    BY <1>1, <1>2, <1>4, <1>10, <2>2
  <2>5. Types'
    BY <1>1, <1>3, <2>1, <2>4, Constants DEF Types, TypeOK, Labels, Length
  <2>6. OpInv'
    BY <2>1 DEF OpInv
  <2>7. op.name # None
    BY <1>4, Constants
  <2>8. ASSUME NEW s PROVE s \in Linked' <=> s \in Linked \/ s = t
    <3>1. ASSUME s \in Linked PROVE s \in Linked'
      <4>1. PICK j : Names(j, s)
        BY <3>1, LinkedIs, Zenon
      <4>2. j \in 1 .. SlotCnt /\ j # i
        BY <1>1, <2>2, <4>1 DEF Names
      <4>3. Names(j, s)'
        BY <2>4, <4>1, <4>2 DEF Names
      <4> QED
        BY <4>3, LinkedWas, Zenon
    <3>2. t \in Linked'
      <4>1. Names(i, t)'
        BY <2>2, <2>4, <2>7 DEF Names
      <4> QED
        BY <4>1, LinkedWas, Zenon
    <3>3. ASSUME s \in Linked' PROVE s \in Linked \/ s = t
      <4>1. PICK j : Names(j, s)'
        BY <3>3, LinkedWas, Zenon
      <4>2. CASE j = i
        BY <2>4, <4>1, <4>2 DEF Names
      <4>3. CASE j # i
        <5>1. Names(j, s)
          BY <1>1, <2>4, <4>1, <4>3 DEF Names
        <5> QED
          BY <5>1, LinkedIs, Zenon
      <4> QED
        BY <4>2, <4>3
    <3> QED
      BY <3>1, <3>2, <3>3
  <2>9. \A s : IsOpen(s)' <=> IsOpen(s)
    BY <1>3 DEF IsOpen
  <2>10. \A s : s \in Live' <=> s \in Live \/ s = t
    BY <2>8, <2>9, LiveIs, LiveWas, Zenon
  <2>11. Live' = Live \cup {t}
    BY <2>10, Zenon
  <2>12. \A s : Data(s)' = Data(s) /\ OnDisk(s)' = OnDisk(s)
    BY <1>3, Zenon DEF Data, OnDisk, Extent
  <2>13. ApartInv' /\ MapInv'
    BY <1>1, <1>3, <1>6, <2>1, <2>11, <2>12, SharesJoin
  <2>14. InodeInv'
    <3>1. \A s \in Live' : /\ s \in Sector /\ disk'[s] \in InodeDisk /\ Data(s)' \subseteq Sector
                           /\ s \notin Data(s)'
      BY <1>1, <1>3, <1>6, <1>7, <2>10, <2>12, Zenon DEF InodeInv
    <3>2. \A s \in Sector : IsOpen(s)' =>
            /\ open_inodes'[s].start = disk'[s].start /\ open_inodes'[s].length = disk'[s].length
            /\ open_inodes'[s].removed <=> s \notin Linked'
      BY <1>1, <1>3, <1>9, <2>8, <2>9, Zenon DEF InodeInv
    <3>3. \A s \in Sector : ~IsOpen(s)' => open_inodes'[s] = NoInode
      BY <1>1, <1>3, <2>9, Zenon DEF InodeInv
    <3> QED
      BY <3>1, <3>2, <3>3, Zenon DEF InodeInv, InodeDisk
  <2>15. ASSUME NEW j \in 1 .. SlotCnt, root[j].name # None
         PROVE  root[j].sector # t
    <3>1. Names(j, root[j].sector)
      BY <1>1, <2>15 DEF Names
    <3> QED
      BY <1>9, <3>1, LinkedIs, Zenon
  <2>16. EntryInv'
    <3> SUFFICES ASSUME NEW j \in 1 .. SlotCnt, NEW k \in 1 .. SlotCnt, j # k,
                        root'[j].name # None, root'[k].name # None
                 PROVE  root'[j].sector # root'[k].sector /\ root'[j].name # root'[k].name
      BY Zenon DEF EntryInv
    <3>1. CASE j = i
      BY <2>3, <2>4, <2>15, <3>1, Zenon
    <3>2. CASE k = i
      BY <2>3, <2>4, <2>15, <3>2, Zenon
    <3>3. CASE j # i /\ k # i
      BY <1>1, <2>4, <3>3, Zenon DEF EntryInv
    <3> QED
      BY <3>1, <3>2, <3>3
  <2>17. UNCHANGED <<open_inodes, files>>
    BY <1>3
  <2>18. CountsExact' /\ FileInv'
    BY <1>1, <2>17, SameCounts DEF FsInv
  <2> QED
    BY <2>5, <2>6, <2>13, <2>14, <2>16, <2>18 DEF FsInv
<1>11. CASE Go("create_undo", op) /\ UNCHANGED root
  <2>1. pc' = "create_undo" /\ op' = op
    BY <1>11, GoIs
  <2>2. InOp' = InOp
    BY <1>3, <2>1, InOpIs, InOpWas
  <2>3. Types'
    BY <1>1, <1>3, <1>11, <2>1 DEF Types, TypeOK, Labels
  <2>4. OpInv'
    BY <1>1, <1>3, <2>1 DEF OpInv
  <2>5. \A s \in Live : disk'[s] = disk[s]
    BY <1>3
  <2> QED
    BY <1>3, <1>11, <2>2, <2>3, <2>4, <2>5, OnlyCall
<1> QED
  BY <1>10, <1>11 DEF dir_add

-----------------------------------------------------------------------------
(* Openers.                                                                *)

InodeType == [open_cnt : Nat, removed : BOOLEAN, deny_write_cnt : Nat,
              start : Sector, length : Length]

Openers(s) == {h \in Handle : files[h].sector = s}

Deniers(s) == {h \in Openers(s) : files[h].deny_write}

\* The counts of inode s are right.
Counted(s) ==
  /\ open_inodes[s].open_cnt = Cardinality(Openers(s))
  /\ open_inodes[s].deny_write_cnt = Cardinality(Deniers(s))

\* CountsExact, inode by inode.
LEMMA CountsAre == CountsExact <=> \A s \in Sector : Counted(s)
BY Zenon DEF CountsExact, Counted, Openers, Deniers

\* The same after the step.
LEMMA CountsWere == CountsExact' <=> \A s \in Sector : Counted(s)'
BY Zenon DEF CountsExact, Counted, Openers, Deniers

\* Openers are handles.
LEMMA OpenersAre ==
  \A s : /\ Openers(s) \subseteq Handle /\ Deniers(s) \subseteq Handle
         /\ Openers(s)' \subseteq Handle /\ Deniers(s)' \subseteq Handle
BY DEF Openers, Deniers

\* An inode has an opener when it is open, and only then.
LEMMA OpenerOpen ==
  ASSUME CanCount, CountsExact, NEW h \in Handle, files[h].sector \in Sector
  PROVE  /\ IsOpen(files[h].sector) /\ h \in Openers(files[h].sector)
         /\ files[h].sector \in Live
<1>1. PICK s \in Sector : s = files[h].sector
  OBVIOUS
<1>2. h \in Openers(s)
  BY <1>1 DEF Openers
<1>3. Cardinality(Openers(s)) # 0 /\ Cardinality(Openers(s)) \in Nat
  BY <1>2, OpenersAre, CountHandles, Zenon
<1>4. open_inodes[s].open_cnt = Cardinality(Openers(s))
  BY CountsAre DEF Counted
<1>5. IsOpen(s)
  BY <1>3, <1>4 DEF IsOpen
<1> QED
  BY <1>1, <1>2, <1>5, LiveIs

\* What the table of inodes and the files are, one by one.
LEMMA TableIs ==
  ASSUME Types
  PROVE  /\ \A s \in Sector : open_inodes[s] \in InodeType
         /\ \A h \in Handle : files[h] \in [sector : Sector \cup {None}, deny_write : BOOLEAN]
         /\ open_inodes = [s \in Sector |-> open_inodes[s]]
         /\ files = [h \in Handle |-> files[h]]
BY TypesAre DEF InodeType

\* inode_open () of a live inode adds one to its openers.
LEMMA OpenedIs ==
  ASSUME Types, InodeInv, NEW s \in Live
  PROVE  /\ Opened(s) \in InodeType
         /\ Opened(s).open_cnt = open_inodes[s].open_cnt + 1
         /\ Opened(s).removed = open_inodes[s].removed
         /\ Opened(s).deny_write_cnt = open_inodes[s].deny_write_cnt
         /\ Opened(s).start = disk[s].start /\ Opened(s).length = disk[s].length
<1>1. s \in Sector /\ disk[s] \in InodeDisk
  BY DEF InodeInv
<1>2. open_inodes[s] \in InodeType /\ disk[s].start \in Sector /\ disk[s].length \in Length
  BY <1>1, TableIs DEF InodeDisk
<1>3. CASE IsOpen(s)
  <2>1. open_inodes[s].start = disk[s].start /\ open_inodes[s].length = disk[s].length
    BY <1>1, <1>3 DEF InodeInv
  <2>2. PICK i \in InodeType : i = open_inodes[s]
    BY <1>2
  <2>3. Opened(s) = [i EXCEPT !.open_cnt = i.open_cnt + 1]
    BY <1>3, <2>2 DEF Opened, IsOpen
  <2>4. i.open_cnt + 1 \in Nat
    BY DEF InodeType
  <2>5. /\ Opened(s) \in InodeType /\ Opened(s).open_cnt = i.open_cnt + 1
        /\ Opened(s).removed = i.removed /\ Opened(s).deny_write_cnt = i.deny_write_cnt
        /\ Opened(s).start = i.start /\ Opened(s).length = i.length
    BY <2>3, <2>4 DEF InodeType
  <2> QED
    BY <2>1, <2>2, <2>5
<1>4. CASE ~IsOpen(s)
  <2>1. open_inodes[s] = NoInode
    BY <1>1, <1>4 DEF InodeInv
  <2>2. PICK a \in Sector, k \in Length : a = disk[s].start /\ k = disk[s].length
    BY <1>2
  <2>3. Opened(s) = [NoInode EXCEPT !.open_cnt = 1, !.start = a, !.length = k]
    BY <1>4, <2>2 DEF Opened, IsOpen
  <2>4. /\ Opened(s) \in InodeType /\ Opened(s).open_cnt = 0 + 1
        /\ Opened(s).removed = FALSE /\ Opened(s).deny_write_cnt = 0
        /\ Opened(s).start = a /\ Opened(s).length = k
    <3>1. Opened(s) = [open_cnt |-> 1, removed |-> FALSE, deny_write_cnt |-> 0,
                       start |-> a, length |-> k]
      BY <2>3, Zenon DEF NoInode
    <3>2. 1 \in Nat /\ 0 \in Nat /\ 0 + 1 = 1
      OBVIOUS
    <3> QED
      BY <3>1, <3>2 DEF InodeType
  <2>5. NoInode.open_cnt = 0 /\ NoInode.removed = FALSE /\ NoInode.deny_write_cnt = 0
    BY DEF NoInode
  <2> QED
    BY <2>1, <2>2, <2>4, <2>5, Zenon
<1> QED
  BY <1>3, <1>4

\* inode_close () takes one from its openers.
LEMMA ClosedIs ==
  ASSUME NEW i \in InodeType, i.open_cnt > 0
  PROVE  /\ Closed(i) \in InodeType /\ Closed(i).open_cnt = i.open_cnt - 1
         /\ i.open_cnt = 1 => Closed(i) = NoInode
         /\ i.open_cnt # 1 => /\ Closed(i).removed = i.removed
                              /\ Closed(i).deny_write_cnt = i.deny_write_cnt
                              /\ Closed(i).start = i.start /\ Closed(i).length = i.length
<1>1. CASE i.open_cnt = 1
  BY <1>1, Constants DEF Closed, InodeType, NoInode
<1>2. CASE i.open_cnt # 1
  <2>1. Closed(i) = [i EXCEPT !.open_cnt = @ - 1]
    BY <1>2 DEF Closed
  <2>2. i.open_cnt \in Nat /\ i.open_cnt - 1 \in Nat
    BY DEF InodeType
  <2> QED
    BY <1>2, <2>1, <2>2 DEF InodeType
<1> QED
  BY <1>1, <1>2

\* A step after which the same files are live, while no call is in progress.
LEMMA SharesStay ==
  ASSUME ApartInv, MapInv, UNCHANGED <<mapVars, disk, lost>>, Live' = Live, InOp' = InOp
  PROVE  ApartInv' /\ MapInv'
<1>1. PICK N : N = {}
  BY Zenon
<1>2. free_map' = free_map /\ free_map_file' = free_map_file /\ free_map \subseteq free_map_file
  BY DEF MapInv, mapVars
<1>3. /\ N \cap free_map = {} /\ N \subseteq InOp /\ N \cap N = {}
      /\ InOp' = (InOp \cup N) \ (N \cup N) /\ lost' = lost \cup N
      /\ free_map' = (free_map \cup N) \ N /\ free_map' \subseteq free_map_file'
  BY <1>1, <1>2
<1>4. \A s \in Live : OnDisk(s)' = OnDisk(s)
  BY Zenon DEF Data, OnDisk, Extent
<1> QED
  BY <1>3, <1>4, SharesMove, ZenonT(40)

\* A step that changes one inode of the table.
LEMMA InodeChange ==
  ASSUME InodeInv, UNCHANGED disk, Live' \subseteq Live, NEW s \in Sector,
         \A t \in Sector : t # s =>
           open_inodes'[t] = open_inodes[t] /\ (t \in Linked' <=> t \in Linked),
         IsOpen(s)' => /\ open_inodes'[s].start = disk[s].start
                       /\ open_inodes'[s].length = disk[s].length
                       /\ open_inodes'[s].removed <=> s \notin Linked',
         ~IsOpen(s)' => open_inodes'[s] = NoInode
  PROVE  InodeInv'
<1>1. \A t : Data(t)' = Data(t)
  BY Zenon DEF Data, Extent
<1>2. \A t \in Live' : /\ t \in Sector /\ disk'[t] \in InodeDisk /\ Data(t)' \subseteq Sector
                       /\ t \notin Data(t)'
  BY <1>1, Zenon DEF InodeInv
<1>3. \A t \in Sector : t # s => (IsOpen(t)' <=> IsOpen(t))
  BY Zenon DEF IsOpen
<1>4. ASSUME NEW t \in Sector, IsOpen(t)'
      PROVE  /\ open_inodes'[t].start = disk'[t].start /\ open_inodes'[t].length = disk'[t].length
             /\ open_inodes'[t].removed <=> t \notin Linked'
  <2>1. CASE t = s
    BY <1>4, <2>1, Zenon
  <2>2. CASE t # s
    BY <1>3, <1>4, <2>2, Zenon DEF InodeInv
  <2> QED
    BY <2>1, <2>2
<1>5. ASSUME NEW t \in Sector, ~IsOpen(t)' PROVE open_inodes'[t] = NoInode
  <2>1. CASE t = s
    BY <1>5, <2>1, Zenon
  <2>2. CASE t # s
    BY <1>3, <1>5, <2>2, Zenon DEF InodeInv
  <2> QED
    BY <2>1, <2>2
<1> QED
  BY <1>2, <1>4, <1>5, Zenon DEF InodeInv, InodeDisk

\* The same for the counts; the file of h is, and was, of inode s or closed.
LEMMA CountsChange ==
  ASSUME Types, CountsExact, FileInv, NEW s \in Sector, NEW h \in Handle, NEW f,
         files' = [files EXCEPT ![h] = f], files[h].sector \in {s, None}, f.sector \in {s, None},
         f.sector = None => f = NoFile,
         \A t \in Sector : t # s => open_inodes'[t] = open_inodes[t],
         Counted(s)'
  PROVE  CountsExact' /\ FileInv'
<1>1. files'[h] = f /\ \A g \in Handle : g # h => files'[g] = files[g]
  BY TableIs
<1>2. ASSUME NEW t \in Sector, t # s PROVE Counted(t)'
  <2>1. f.sector # t /\ files[h].sector # t
    BY <1>2, Constants
  <2>2. \A g \in Handle : files'[g].sector = t <=> files[g].sector = t
    BY <1>1, <2>1, Zenon
  <2>3. Openers(t)' = Openers(t)
    BY <2>2 DEF Openers
  <2>4. \A g \in Openers(t) : files'[g] = files[g]
    BY <1>1, <2>1, Zenon DEF Openers
  <2>5. Deniers(t)' = Deniers(t)
    BY <2>3, <2>4 DEF Deniers
  <2>6. Counted(t) /\ open_inodes'[t] = open_inodes[t]
    BY <1>2, CountsAre, Zenon
  <2> QED
    BY <2>3, <2>5, <2>6, Zenon DEF Counted
<1>3. \A t \in Sector : Counted(t)'
  BY <1>2, Zenon
<1>4. FileInv'
  BY <1>1, Zenon DEF FileInv, NoFile
<1> QED
  BY <1>3, <1>4, CountsWere, Zenon

\* file_open () of a live inode.
LEMMA OpenKeeps ==
  ASSUME CanCount, FsInv, NEW h \in Handle, NEW s \in Live, OpenAt(h, s)
  PROVE  FsInv'
<1>1. /\ Types /\ OpInv /\ MapInv /\ ApartInv /\ InodeInv /\ EntryInv /\ CountsExact /\ FileInv
      /\ s \in Sector
  BY DEF FsInv, InodeInv
<1>2. /\ pc = "idle" /\ files[h] = NoFile /\ open_inodes' = [open_inodes EXCEPT ![s] = Opened(s)]
      /\ files' = [files EXCEPT ![h] = [NoFile EXCEPT !.sector = s]]
      /\ UNCHANGED <<mapVars, disk, root, pc, op, lost>>
  BY DEF OpenAt
<1>3. PICK o \in InodeType : o = Opened(s)
  BY <1>1, OpenedIs
<1>4. /\ o.open_cnt = open_inodes[s].open_cnt + 1 /\ o.removed = open_inodes[s].removed
      /\ o.deny_write_cnt = open_inodes[s].deny_write_cnt
      /\ o.start = disk[s].start /\ o.length = disk[s].length
  BY <1>1, <1>3, OpenedIs
<1>5. /\ open_inodes \in [Sector -> InodeType] /\ open_inodes[s] \in InodeType
      /\ files \in [Handle -> [sector : Sector \cup {None}, deny_write : BOOLEAN]]
  BY <1>1, TypesAre DEF InodeType
<1>6. /\ open_inodes' \in [Sector -> InodeType] /\ open_inodes'[s] = o
      /\ \A t \in Sector : t # s => open_inodes'[t] = open_inodes[t]
  BY <1>1, <1>2, <1>3, <1>5
<1>7. PICK f : f = [NoFile EXCEPT !.sector = s]
  BY Zenon
<1>8. /\ files' = [files EXCEPT ![h] = f] /\ f.sector = s /\ f.deny_write = FALSE
      /\ files[h].sector = None /\ files[h].deny_write = FALSE
      /\ files' \in [Handle -> [sector : Sector \cup {None}, deny_write : BOOLEAN]]
  <2>1. NoFile.sector = None /\ NoFile.deny_write = FALSE
    BY DEF NoFile
  <2>2. /\ f \in [sector : Sector \cup {None}, deny_write : BOOLEAN]
        /\ f.sector = s /\ f.deny_write = FALSE
    BY <1>1, <1>7, Zenon DEF NoFile
  <2>3. files' = [files EXCEPT ![h] = f]
    BY <1>2, <1>7
  <2>4. files' \in [Handle -> [sector : Sector \cup {None}, deny_write : BOOLEAN]]
    BY <1>5, <2>2, <2>3
  <2> QED
    BY <1>2, <2>1, <2>2, <2>3, <2>4, Zenon
<1>9. Types'
  BY <1>1, <1>2, <1>6, <1>8 DEF Types, TypeOK, mapVars, InodeType, Length
<1>10. OpInv' /\ EntryInv' /\ InOp' = InOp
  BY <1>1, <1>2, InOpIs, InOpWas DEF OpInv, EntryInv
<1>11. Linked' = Linked
  BY <1>2, Zenon DEF Linked
<1>12. open_inodes[s].open_cnt \in Nat /\ o.open_cnt > 0
  BY <1>4, <1>5 DEF InodeType
<1>13. IsOpen(s)'
  BY <1>6, <1>12 DEF IsOpen
<1>14. \A t \in Sector : t # s => (IsOpen(t)' <=> IsOpen(t))
  BY <1>6 DEF IsOpen
<1>15. \A t : t \in Live' <=> t \in Live
  BY <1>1, <1>11, <1>13, <1>14, LiveIs, LiveWas, Zenon
<1>16. Live' = Live
  BY <1>15, Zenon
<1>17. ApartInv' /\ MapInv'
  BY <1>1, <1>2, <1>10, <1>16, SharesStay
<1>18. o.removed <=> s \notin Linked
  <2>1. CASE IsOpen(s)
    BY <1>1, <1>4, <2>1 DEF InodeInv
  <2>2. CASE ~IsOpen(s)
    <3>1. open_inodes[s] = NoInode /\ s \in Linked
      BY <1>1, <2>2, LiveIs DEF InodeInv
    <3> QED
      BY <1>4, <3>1 DEF NoInode
  <2> QED
    BY <2>1, <2>2
<1>19. InodeInv'
  <2>1. /\ open_inodes'[s].start = disk[s].start /\ open_inodes'[s].length = disk[s].length
        /\ open_inodes'[s].removed <=> s \notin Linked'
    BY <1>4, <1>6, <1>11, <1>18
  <2>2. \A t \in Sector : t # s =>
          open_inodes'[t] = open_inodes[t] /\ (t \in Linked' <=> t \in Linked)
    BY <1>6, <1>11
  <2> QED
    BY <1>1, <1>2, <1>13, <1>16, <2>1, <2>2, InodeChange, Zenon
<1>20. Counted(s)'
  <2>1. \A g \in Handle : g # h => files'[g] = files[g]
    BY <1>5, <1>8
  <2>2. files'[h] = f /\ s # None
    BY <1>1, <1>5, <1>8, Constants
  <2>3. Openers(s)' = Openers(s) \cup {h} /\ h \notin Openers(s)
    BY <1>8, <2>1, <2>2 DEF Openers
  <2>4. Deniers(s)' = Deniers(s)
    BY <1>8, <2>1, <2>2, <2>3 DEF Deniers, Openers
  <2>5. Cardinality(Openers(s)') = Cardinality(Openers(s)) + 1
    BY <2>3, OpenersAre, CountHandles, Zenon
  <2>6. Counted(s)
    BY <1>1, CountsAre
  <2> QED
    BY <1>4, <1>6, <2>4, <2>5, <2>6 DEF Counted
<1>21. CountsExact' /\ FileInv'
  BY <1>1, <1>6, <1>8, <1>20, CountsChange, Constants, Zenon
<1> QED
  BY <1>9, <1>10, <1>17, <1>19, <1>21 DEF FsInv

\* file_deny_write () counts its caller.
LEMMA DenyKeeps ==
  ASSUME CanCount, FsInv, NEW h \in Handle, file_deny_write(h)
  PROVE  FsInv'
<1>1. Types /\ OpInv /\ MapInv /\ ApartInv /\ InodeInv /\ EntryInv /\ CountsExact /\ FileInv
  BY DEF FsInv
<1>2. /\ open_inodes \in [Sector -> InodeType]
      /\ files \in [Handle -> [sector : Sector \cup {None}, deny_write : BOOLEAN]]
  BY <1>1, TypesAre DEF InodeType
<1>3. /\ pc = "idle" /\ files[h] # NoFile /\ ~files[h].deny_write
      /\ files' = [files EXCEPT ![h].deny_write = TRUE]
      /\ open_inodes' = [open_inodes EXCEPT ![files[h].sector].deny_write_cnt = @ + 1]
      /\ UNCHANGED <<mapVars, disk, root, pc, op, lost>>
  BY DEF file_deny_write
<1>4. files[h].sector \in Sector
  BY <1>1, <1>2, <1>3 DEF FileInv
<1>5. PICK s \in Sector : s = files[h].sector
  BY <1>4
<1>6. IsOpen(s) /\ h \in Openers(s) /\ s \in Live
  BY <1>1, <1>4, <1>5, OpenerOpen
<1>7. PICK i \in InodeType : i = open_inodes[s]
  BY <1>2
<1>8. PICK o : o = [i EXCEPT !.deny_write_cnt = i.deny_write_cnt + 1]
  BY Zenon
<1>9. /\ o \in InodeType /\ o.deny_write_cnt = i.deny_write_cnt + 1 /\ o.open_cnt = i.open_cnt
      /\ o.removed = i.removed /\ o.start = i.start /\ o.length = i.length
  BY <1>8 DEF InodeType
<1>10. open_inodes' = [open_inodes EXCEPT ![s] = o]
  BY <1>3, <1>5, <1>7, <1>8
<1>11. /\ open_inodes' \in [Sector -> InodeType] /\ open_inodes'[s] = o
       /\ \A t \in Sector : t # s => open_inodes'[t] = open_inodes[t]
  BY <1>2, <1>9, <1>10
<1>12. PICK g \in [sector : Sector \cup {None}, deny_write : BOOLEAN] : g = files[h]
  BY <1>2
<1>13. PICK f : f = [g EXCEPT !.deny_write = TRUE]
  BY Zenon
<1>14. /\ files' = [files EXCEPT ![h] = f] /\ f.sector = s /\ f.deny_write = TRUE
       /\ files' \in [Handle -> [sector : Sector \cup {None}, deny_write : BOOLEAN]]
  <2>1. /\ f \in [sector : Sector \cup {None}, deny_write : BOOLEAN]
        /\ f.sector = g.sector /\ f.deny_write = TRUE
    BY <1>13, Zenon
  <2>2. files' = [files EXCEPT ![h] = f]
    BY <1>3, <1>12, <1>13
  <2>3. files' \in [Handle -> [sector : Sector \cup {None}, deny_write : BOOLEAN]]
    BY <1>2, <2>1, <2>2
  <2> QED
    BY <1>5, <1>12, <2>1, <2>2, <2>3
<1>15. Types'
  <2>1. open_inodes' \in [Sector -> [open_cnt : Nat, removed : BOOLEAN, deny_write_cnt : Nat,
                                  start : Sector, length : Size \cup {0}]]
    BY <1>11 DEF InodeType, Length
  <2>2. (DOMAIN disk = Sector)' /\ (disk = [t \in Sector |-> disk[t]])'
    BY <1>1, <1>3 DEF Types, TypeOK
  <2> QED
    BY <1>1, <1>3, <1>14, <2>1, <2>2 DEF Types, TypeOK, mapVars, Length
<1>16. OpInv' /\ EntryInv' /\ InOp' = InOp
  BY <1>1, <1>3, InOpIs, InOpWas, Zenon DEF OpInv, EntryInv
<1>17. Linked' = Linked
  BY <1>3, Zenon DEF Linked
<1>18. \A t \in Sector : IsOpen(t)' <=> IsOpen(t)
  BY <1>7, <1>9, <1>11 DEF IsOpen
<1>19. \A t : t \in Live' <=> t \in Live
  BY <1>17, <1>18, LiveIs, LiveWas, Zenon
<1>20. Live' = Live
  BY <1>19, Zenon
<1>21. ApartInv' /\ MapInv'
  BY <1>1, <1>3, <1>16, <1>20, SharesStay
<1>22. /\ i.start = disk[s].start /\ i.length = disk[s].length
       /\ i.removed <=> s \notin Linked
  BY <1>1, <1>6, <1>7 DEF InodeInv
<1>23. InodeInv'
  <2>1. /\ IsOpen(s)' /\ open_inodes'[s].start = disk[s].start
        /\ open_inodes'[s].length = disk[s].length
        /\ open_inodes'[s].removed <=> s \notin Linked'
    BY <1>6, <1>9, <1>11, <1>17, <1>18, <1>22
  <2>2. \A t \in Sector : t # s =>
          open_inodes'[t] = open_inodes[t] /\ (t \in Linked' <=> t \in Linked)
    BY <1>11, <1>17
  <2> QED
    BY <1>1, <1>3, <1>20, <2>1, <2>2, InodeChange, Zenon
<1>24. Counted(s)'
  <2>1. \A k \in Handle : k # h => files'[k] = files[k]
    BY <1>2, <1>14
  <2>2. files'[h] = f
    BY <1>2, <1>14
  <2>3. Openers(s)' = Openers(s)
    BY <1>5, <1>14, <2>1, <2>2 DEF Openers
  <2>4. Deniers(s)' = Deniers(s) \cup {h} /\ h \notin Deniers(s)
    BY <1>3, <1>6, <1>14, <2>1, <2>2, <2>3 DEF Deniers, Openers
  <2>5. Cardinality(Deniers(s)') = Cardinality(Deniers(s)) + 1
    BY <2>4, OpenersAre, CountHandles, Zenon
  <2>6. Counted(s)
    BY <1>1, CountsAre
  <2> QED
    BY <1>7, <1>9, <1>11, <2>3, <2>5, <2>6 DEF Counted
<1>25. CountsExact' /\ FileInv'
  BY <1>1, <1>5, <1>11, <1>14, <1>24, CountsChange, Constants, Zenon
<1> QED
  BY <1>15, <1>16, <1>21, <1>23, <1>25 DEF FsInv

\* The releases follow the last close of a removed inode.
LEMMA ReleaseAfterIs ==
  ASSUME NEW s, NEW i, ReleaseAfter(s, i)
  PROVE  /\ i.open_cnt = 1 /\ i.removed =>
              /\ pc' = "release_inode"
              /\ op' = [NoOp EXCEPT !.sector = s, !.start = i.start, !.length = i.length]
         /\ ~(i.open_cnt = 1 /\ i.removed) => pc' = "idle" /\ op' = NoOp
<1>1. CASE i.open_cnt = 1 /\ i.removed
  BY <1>1, GoIs DEF ReleaseAfter
<1>2. CASE ~(i.open_cnt = 1 /\ i.removed)
  BY <1>2, GoIs DEF ReleaseAfter
<1> QED
  BY <1>1, <1>2

\* The file that nobody names or has open passes to the call that closed it.
LEMMA FileLeaves ==
  ASSUME FsInv, NEW s \in Live, NEW i \in InodeType, pc = "idle", pc' = "release_inode",
         op' = [NoOp EXCEPT !.sector = s, !.start = i.start, !.length = i.length],
         i.start = disk[s].start, i.length = disk[s].length,
         UNCHANGED <<mapVars, disk, lost>>, Live' = Live \ {s}
  PROVE  /\ ApartInv' /\ MapInv' /\ OpInv'
         /\ op' \in [name : Name \cup {None}, sector : Sector, start : Sector, length : Length]
<1>1. ApartInv /\ MapInv /\ s \in Sector /\ Data(s) \subseteq Sector /\ s \notin Data(s)
  BY DEF FsInv, InodeInv
<1>2. i.start \in Sector /\ i.length \in Length
  BY DEF InodeType
<1>3. /\ op'.sector = s /\ op'.start = i.start /\ op'.length = i.length
      /\ op' \in [name : Name \cup {None}, sector : Sector, start : Sector, length : Length]
  BY <1>1, <1>2, Constants, Zenon DEF NoOp
<1>4. Extent(op'.start, op'.length) = Data(s)
  BY <1>3 DEF Data
<1>5. InOp = {} /\ InOp' = OnDisk(s)
  BY <1>3, <1>4, InOpIs, InOpWas DEF OnDisk
<1>6. OpInv'
  BY <1>1, <1>3, <1>4 DEF OpInv
<1>7. \A t \in Live : OnDisk(t)' = OnDisk(t)
  BY Zenon DEF Data, OnDisk, Extent
<1>8. UNCHANGED <<free_map, free_map_file, lost>>
  BY DEF mapVars
<1>9. ApartInv' /\ MapInv'
  BY <1>1, <1>5, <1>7, <1>8, SharesLeave, Zenon
<1> QED
  BY <1>3, <1>6, <1>9

\* file_close () takes its caller from the counts, and the last close of a removed
\* file hands its sectors to the releases.
LEMMA CloseKeeps ==
  ASSUME CanCount, FsInv, NEW h \in Handle, file_close(h)
  PROVE  FsInv'
<1>1. Types /\ OpInv /\ MapInv /\ ApartInv /\ InodeInv /\ EntryInv /\ CountsExact /\ FileInv
  BY DEF FsInv
<1>2. /\ open_inodes \in [Sector -> InodeType]
      /\ files \in [Handle -> [sector : Sector \cup {None}, deny_write : BOOLEAN]]
  BY <1>1, TypesAre DEF InodeType
<1>3. pc = "idle" /\ files[h] # NoFile /\ files[h].sector \in Sector
  BY <1>1, <1>2 DEF file_close, FileInv
<1>4. PICK s \in Sector : s = files[h].sector
  BY <1>3
<1>5. IsOpen(s) /\ h \in Openers(s) /\ s \in Live
  BY <1>1, <1>3, <1>4, OpenerOpen
<1>6. PICK i \in InodeType : i = open_inodes[s]
  BY <1>2
<1>7. /\ i.start = disk[s].start /\ i.length = disk[s].length
      /\ i.removed <=> s \notin Linked
  BY <1>1, <1>5, <1>6 DEF InodeInv
<1>8. PICK d : d = IF files[h].deny_write THEN i.deny_write_cnt - 1 ELSE i.deny_write_cnt
  OBVIOUS
<1>9. PICK j : j = [i EXCEPT !.deny_write_cnt = d]
  BY Zenon
<1>10. /\ open_inodes' = [open_inodes EXCEPT ![s] = Closed(j)] /\ ReleaseAfter(s, j)
       /\ files' = [files EXCEPT ![h] = NoFile] /\ UNCHANGED <<mapVars, disk, root, lost>>
  BY <1>4, <1>6, <1>8, <1>9, Zenon DEF file_close
<1>11. Counted(s) /\ i.open_cnt \in Nat /\ i.deny_write_cnt \in Nat /\ i.open_cnt > 0
  BY <1>1, <1>5, <1>6, CountsAre DEF InodeType, IsOpen
<1>12. /\ i.open_cnt = Cardinality(Openers(s)) /\ i.deny_write_cnt = Cardinality(Deniers(s))
  BY <1>6, <1>11 DEF Counted
<1>13. /\ files'[h] = NoFile /\ \A g \in Handle : g # h => files'[g] = files[g]
       /\ files' \in [Handle -> [sector : Sector \cup {None}, deny_write : BOOLEAN]]
  <2>1. NoFile \in [sector : Sector \cup {None}, deny_write : BOOLEAN]
    BY DEF NoFile
  <2> QED
    BY <1>2, <1>10, <2>1
<1>14. NoFile.sector = None /\ None # s
  BY Constants DEF NoFile
<1>15. Openers(s)' = Openers(s) \ {h}
  BY <1>13, <1>14 DEF Openers
<1>16. Deniers(s)' = Deniers(s) \ {h}
  BY <1>13, <1>15 DEF Deniers, Openers
<1>17. Cardinality(Openers(s)') = i.open_cnt - 1
  BY <1>5, <1>12, <1>15, OpenersAre, CountHandles, Zenon
<1>18. Cardinality(Deniers(s)') = d /\ d \in Nat
  <2>1. CASE files[h].deny_write
    <3>1. h \in Deniers(s)
      BY <1>5, <2>1 DEF Deniers
    <3>2. Cardinality(Deniers(s)') = i.deny_write_cnt - 1
      BY <1>12, <1>16, <3>1, OpenersAre, CountHandles, Zenon
    <3>3. Cardinality(Deniers(s)') \in Nat
      BY OpenersAre, CountHandles, Zenon
    <3> QED
      BY <1>8, <2>1, <3>2, <3>3
  <2>2. CASE ~files[h].deny_write
    <3>1. Deniers(s)' = Deniers(s)
      BY <1>16, <2>2 DEF Deniers
    <3> QED
      BY <1>8, <1>11, <1>12, <2>2, <3>1
  <2> QED
    BY <2>1, <2>2
<1>19. /\ j \in InodeType /\ j.deny_write_cnt = d /\ j.open_cnt = i.open_cnt
       /\ j.removed = i.removed /\ j.start = i.start /\ j.length = i.length
  BY <1>9, <1>18 DEF InodeType
<1>20. PICK c : c = Closed(j)
  OBVIOUS
<1>21. /\ c \in InodeType /\ c.open_cnt = i.open_cnt - 1
       /\ i.open_cnt = 1 => c = NoInode
       /\ i.open_cnt # 1 => /\ c.removed = i.removed /\ c.deny_write_cnt = d
                            /\ c.start = i.start /\ c.length = i.length
  BY <1>11, <1>19, <1>20, ClosedIs
<1>22. /\ open_inodes' \in [Sector -> InodeType] /\ open_inodes'[s] = c
       /\ \A t \in Sector : t # s => open_inodes'[t] = open_inodes[t]
  BY <1>2, <1>10, <1>20, <1>21
<1>23. /\ i.open_cnt = 1 /\ i.removed =>
            /\ pc' = "release_inode"
            /\ op' = [NoOp EXCEPT !.sector = s, !.start = j.start, !.length = j.length]
       /\ ~(i.open_cnt = 1 /\ i.removed) => pc' = "idle" /\ op' = NoOp
  BY <1>10, <1>19, ReleaseAfterIs, Zenon
<1>24. Linked' = Linked /\ EntryInv'
  BY <1>1, <1>10, Zenon DEF Linked, EntryInv
<1>25. IsOpen(s)' <=> i.open_cnt # 1
  BY <1>11, <1>21, <1>22 DEF IsOpen
<1>26. \A t \in Sector : t # s => (IsOpen(t)' <=> IsOpen(t))
  BY <1>22 DEF IsOpen
<1>27. /\ i.open_cnt = 1 /\ i.removed => Live' = Live \ {s}
       /\ ~(i.open_cnt = 1 /\ i.removed) => Live' = Live
  <2>1. \A t : t # s => (t \in Live' <=> t \in Live)
    BY <1>24, <1>26, LiveIs, LiveWas, Zenon
  <2>2. s \in Live' <=> s \in Linked \/ i.open_cnt # 1
    BY <1>24, <1>25, LiveWas, Zenon
  <2> QED
    BY <1>5, <1>7, <2>1, <2>2
<1>28. InodeInv'
  <2>1. Live' \subseteq Live
    BY <1>27
  <2>2. IsOpen(s)' => /\ open_inodes'[s].start = disk[s].start
                      /\ open_inodes'[s].length = disk[s].length
                      /\ open_inodes'[s].removed <=> s \notin Linked'
    BY <1>7, <1>21, <1>22, <1>24, <1>25
  <2>3. ~IsOpen(s)' => open_inodes'[s] = NoInode
    BY <1>21, <1>22, <1>25
  <2>4. \A t \in Sector : t # s =>
          open_inodes'[t] = open_inodes[t] /\ (t \in Linked' <=> t \in Linked)
    BY <1>22, <1>24
  <2> QED
    BY <1>1, <1>10, <2>1, <2>2, <2>3, <2>4, InodeChange, Zenon
<1>29. Counted(s)'
  <2>1. c.open_cnt = Cardinality(Openers(s)')
    BY <1>17, <1>21
  <2>2. c.deny_write_cnt = Cardinality(Deniers(s)')
    <3>1. CASE i.open_cnt # 1
      BY <1>18, <1>21, <3>1
    <3>2. CASE i.open_cnt = 1
      <4>1. Cardinality(Openers(s)') = 0
        BY <1>17, <3>2
      <4>2. Openers(s)' = {}
        BY <4>1, OpenersAre, CountHandles, Zenon
      <4>3. Deniers(s)' = {}
        BY <4>2 DEF Deniers
      <4>4. Cardinality({}) = 0
        BY Zenon DEF CanCount
      <4> QED
        BY <1>21, <3>2, <4>3, <4>4 DEF NoInode
    <3> QED
      BY <3>1, <3>2
  <2> QED
    BY <1>22, <2>1, <2>2 DEF Counted
<1>30. CountsExact' /\ FileInv'
  BY <1>1, <1>4, <1>10, <1>14, <1>22, <1>29, CountsChange, Zenon
<1>31. /\ ApartInv' /\ MapInv' /\ OpInv' /\ pc' \in Labels
       /\ op' \in [name : Name \cup {None}, sector : Sector, start : Sector, length : Length]
  <2>1. CASE i.open_cnt = 1 /\ i.removed
    <3>1. pc' \in Labels
      BY <1>23, <2>1 DEF Labels
    <3> QED
      BY <1>3, <1>5, <1>7, <1>10, <1>19, <1>23, <1>27, <2>1, <3>1, FileLeaves, Zenon
  <2>2. CASE ~(i.open_cnt = 1 /\ i.removed)
    <3>1. InOp' = InOp /\ OpInv' /\ pc' \in Labels
      BY <1>3, <1>23, <2>2, InOpIs, InOpWas DEF OpInv, Labels
    <3>2. ApartInv' /\ MapInv'
      BY <1>1, <1>10, <1>27, <2>2, <3>1, SharesStay, Zenon
    <3> QED
      BY <1>23, <2>2, <3>1, <3>2, Constants
  <2> QED
    BY <2>1, <2>2
<1>32. Types'
  BY <1>1, <1>10, <1>13, <1>22, <1>31 DEF Types, TypeOK, mapVars, InodeType, Length
<1> QED
  BY <1>24, <1>28, <1>30, <1>31, <1>32 DEF FsInv

\* filesys_remove () takes the name away; the file stays for those who have it open.
LEMMA RemoveKeeps ==
  ASSUME CanCount, FsInv, NEW n \in Name, filesys_remove(n)
  PROVE  FsInv'
<1>1. Types /\ OpInv /\ MapInv /\ ApartInv /\ InodeInv /\ EntryInv /\ CountsExact /\ FileInv
  BY DEF FsInv
<1>2. /\ open_inodes \in [Sector -> InodeType]
      /\ root \in [1 .. SlotCnt -> [name : Name \cup {None}, sector : Sector]]
  BY <1>1, TypesAre DEF InodeType
<1>3. PICK e \in Entries(n) : e = Lowest(Entries(n))
  <2>1. Entries(n) \subseteq Nat
    BY <1>2, FileSysAssumption DEF Entries
  <2>2. Entries(n) # {}
    BY DEF filesys_remove
  <2> QED
    BY <2>1, <2>2, LowestIs
<1>4. e \in 1 .. SlotCnt /\ root[e].name = n /\ n # None
  BY <1>2, Constants DEF Entries
<1>5. PICK s \in Sector : s = root[e].sector
  BY <1>2, <1>4
<1>6. Names(e, s) /\ s \in Linked
  <2>1. Names(e, s)
    BY <1>2, <1>4, <1>5 DEF Names
  <2> QED
    BY <2>1, LinkedIs, Zenon
<1>7. s \in Live
  BY <1>6, LiveIs, Zenon
<1>8. PICK o \in InodeType : o = Opened(s)
  BY <1>1, <1>7, OpenedIs
<1>9. PICK j : j = [o EXCEPT !.removed = TRUE]
  BY Zenon
<1>10. /\ pc = "idle" /\ root' = [root EXCEPT ![e] = FreeEntry]
       /\ open_inodes' = [open_inodes EXCEPT ![s] = Closed(j)] /\ ReleaseAfter(s, j)
       /\ UNCHANGED <<mapVars, disk, files, lost>>
  BY <1>3, <1>5, <1>8, <1>9, Zenon DEF filesys_remove
<1>11. PICK i \in InodeType : i = open_inodes[s]
  BY <1>2
<1>12. /\ j \in InodeType /\ j.open_cnt = i.open_cnt + 1 /\ j.removed = TRUE
       /\ j.deny_write_cnt = i.deny_write_cnt
       /\ j.start = disk[s].start /\ j.length = disk[s].length
  <2>1. /\ o.open_cnt = i.open_cnt + 1 /\ o.deny_write_cnt = i.deny_write_cnt
        /\ o.start = disk[s].start /\ o.length = disk[s].length
    BY <1>1, <1>7, <1>8, <1>11, OpenedIs
  <2>2. /\ j \in InodeType /\ j.removed = TRUE /\ j.open_cnt = o.open_cnt
        /\ j.deny_write_cnt = o.deny_write_cnt /\ j.start = o.start /\ j.length = o.length
    BY <1>9, Zenon DEF InodeType
  <2> QED
    BY <2>1, <2>2
<1>13. i.open_cnt \in Nat /\ (IsOpen(s) <=> i.open_cnt # 0) /\ (j.open_cnt = 1 <=> i.open_cnt = 0)
  BY <1>11, <1>12 DEF InodeType, IsOpen
<1>14. PICK c : c = Closed(j)
  OBVIOUS
<1>15. /\ c \in InodeType /\ c.open_cnt = i.open_cnt
       /\ i.open_cnt = 0 => c = NoInode
       /\ i.open_cnt # 0 => /\ c.removed = TRUE /\ c.deny_write_cnt = i.deny_write_cnt
                            /\ c.start = disk[s].start /\ c.length = disk[s].length
  <2>1. j.open_cnt > 0 /\ j.open_cnt - 1 = i.open_cnt
    BY <1>12, <1>13
  <2> QED
    BY <1>12, <1>13, <1>14, <2>1, ClosedIs
<1>16. i.open_cnt = 0 => i = NoInode
  BY <1>1, <1>11, <1>13 DEF InodeInv
<1>17. c.deny_write_cnt = i.deny_write_cnt
  BY <1>15, <1>16
<1>18. /\ open_inodes' \in [Sector -> InodeType] /\ open_inodes'[s] = c
       /\ \A t \in Sector : t # s => open_inodes'[t] = open_inodes[t]
  BY <1>2, <1>10, <1>14, <1>15, Zenon
<1>19. /\ i.open_cnt = 0 =>
            /\ pc' = "release_inode"
            /\ op' = [NoOp EXCEPT !.sector = s, !.start = j.start, !.length = j.length]
       /\ i.open_cnt # 0 => pc' = "idle" /\ op' = NoOp
  BY <1>10, <1>12, <1>13, ReleaseAfterIs, Zenon
<1>20. /\ DOMAIN root' = 1 .. SlotCnt /\ root'[e].name = None
       /\ \A k \in 1 .. SlotCnt : k # e => root'[k] = root[k]
       /\ root' \in [1 .. SlotCnt -> [name : Name \cup {None}, sector : Sector]]
  BY <1>2, <1>4, <1>10, Constants DEF FreeEntry
<1>21. ASSUME NEW t PROVE t \in Linked' <=> t \in Linked /\ t # s
  <2>1. ASSUME t \in Linked' PROVE t \in Linked /\ t # s
    <3>1. PICK k : Names(k, t)'
      BY <2>1, LinkedWas, Zenon
    <3>2. k \in 1 .. SlotCnt /\ k # e /\ root'[k] = root[k]
      BY <1>20, <3>1 DEF Names
    <3>3. Names(k, t)
      BY <1>2, <3>1, <3>2 DEF Names
    <3>4. root[k].sector # root[e].sector
      BY <1>1, <1>4, <3>2, <3>3 DEF EntryInv, Names
    <3> QED
      BY <1>5, <3>3, <3>4, LinkedIs, Zenon DEF Names
  <2>2. ASSUME t \in Linked, t # s PROVE t \in Linked'
    <3>1. PICK k : Names(k, t)
      BY <2>2, LinkedIs, Zenon
    <3>2. k \in 1 .. SlotCnt /\ k # e
      BY <1>2, <1>5, <2>2, <3>1 DEF Names
    <3>3. Names(k, t)'
      BY <1>20, <3>1, <3>2 DEF Names
    <3> QED
      BY <3>3, LinkedWas, Zenon
  <2> QED
    BY <2>1, <2>2
<1>22. EntryInv'
  <2> SUFFICES ASSUME NEW k \in 1 .. SlotCnt, NEW l \in 1 .. SlotCnt, k # l,
                      root'[k].name # None, root'[l].name # None
               PROVE  root'[k].sector # root'[l].sector /\ root'[k].name # root'[l].name
    BY Zenon DEF EntryInv
  <2>1. k # e /\ l # e
    BY <1>20, Zenon
  <2> QED
    BY <1>1, <1>20, <2>1, Zenon DEF EntryInv
<1>23. IsOpen(s)' <=> i.open_cnt # 0
  BY <1>13, <1>15, <1>18 DEF IsOpen
<1>24. \A t \in Sector : t # s => (IsOpen(t)' <=> IsOpen(t))
  BY <1>18 DEF IsOpen
<1>25. /\ i.open_cnt = 0 => Live' = Live \ {s}
       /\ i.open_cnt # 0 => Live' = Live
  <2>1. \A t : t # s => (t \in Live' <=> t \in Live)
    BY <1>21, <1>24, LiveIs, LiveWas, Zenon
  <2>2. s \in Live' <=> i.open_cnt # 0
    BY <1>21, <1>23, LiveWas, Zenon
  <2> QED
    BY <1>7, <2>1, <2>2
<1>26. InodeInv'
  <2>1. Live' \subseteq Live
    BY <1>25
  <2>2. IsOpen(s)' => /\ open_inodes'[s].start = disk[s].start
                      /\ open_inodes'[s].length = disk[s].length
                      /\ open_inodes'[s].removed <=> s \notin Linked'
    BY <1>15, <1>18, <1>21, <1>23
  <2>3. ~IsOpen(s)' => open_inodes'[s] = NoInode
    BY <1>15, <1>18, <1>23
  <2>4. \A t \in Sector : t # s =>
          open_inodes'[t] = open_inodes[t] /\ (t \in Linked' <=> t \in Linked)
    BY <1>18, <1>21
  <2> QED
    BY <1>1, <1>10, <2>1, <2>2, <2>3, <2>4, InodeChange, Zenon
<1>27. CountsExact' /\ FileInv'
  <2>1. \A t : Openers(t)' = Openers(t) /\ Deniers(t)' = Deniers(t)
    BY <1>10, Zenon DEF Openers, Deniers
  <2>2. ASSUME NEW t \in Sector PROVE Counted(t)'
    <3>1. Counted(t)
      BY <1>1, CountsAre
    <3>2. /\ open_inodes'[t].open_cnt = open_inodes[t].open_cnt
          /\ open_inodes'[t].deny_write_cnt = open_inodes[t].deny_write_cnt
      BY <1>11, <1>15, <1>17, <1>18, Zenon
    <3> QED
      BY <2>1, <3>1, <3>2, Zenon DEF Counted
  <2>3. FileInv'
    BY <1>1, <1>10, Zenon DEF FileInv
  <2> QED
    BY <2>2, <2>3, CountsWere, Zenon
<1>28. /\ ApartInv' /\ MapInv' /\ OpInv' /\ pc' \in Labels
       /\ op' \in [name : Name \cup {None}, sector : Sector, start : Sector, length : Length]
  <2>1. CASE i.open_cnt = 0
    <3>1. pc' \in Labels
      BY <1>19, <2>1 DEF Labels
    <3> QED
      BY <1>7, <1>10, <1>12, <1>19, <1>25, <2>1, <3>1, FileLeaves, Zenon
  <2>2. CASE i.open_cnt # 0
    <3>1. InOp' = InOp /\ OpInv' /\ pc' \in Labels
      BY <1>10, <1>19, <2>2, InOpIs, InOpWas, Zenon DEF OpInv, Labels
    <3>2. ApartInv' /\ MapInv'
      BY <1>1, <1>10, <1>25, <2>2, <3>1, SharesStay, Zenon
    <3> QED
      BY <1>19, <2>2, <3>1, <3>2, Constants
  <2> QED
    BY <2>1, <2>2
<1>29. Types'
  <2>1. open_inodes' \in [Sector -> [open_cnt : Nat, removed : BOOLEAN, deny_write_cnt : Nat,
                                  start : Sector, length : Size \cup {0}]]
    BY <1>18 DEF InodeType, Length
  <2>2. (DOMAIN disk = Sector)' /\ (disk = [t \in Sector |-> disk[t]])'
    BY <1>1, <1>10 DEF Types, TypeOK
  <2> QED
    BY <1>1, <1>10, <1>20, <1>28, <2>1, <2>2 DEF Types, TypeOK, mapVars, Length
<1> QED
  BY <1>22, <1>26, <1>27, <1>28, <1>29 DEF FsInv

\* inode_write_at () writes to the file's own data.
LEMMA WriteKeeps ==
  ASSUME CanCount, FsInv, NEW h \in Handle, NEW i \in Sector, NEW v \in Val, inode_write_at(h, i, v)
  PROVE  FsInv'
<1>1. Types /\ OpInv /\ MapInv /\ ApartInv /\ InodeInv /\ EntryInv /\ CountsExact /\ FileInv
  BY DEF FsInv
<1>2. /\ open_inodes \in [Sector -> InodeType]
      /\ files \in [Handle -> [sector : Sector \cup {None}, deny_write : BOOLEAN]]
  BY <1>1, TypesAre DEF InodeType
<1>3. pc = "idle" /\ files[h] # NoFile /\ files[h].sector \in Sector
  BY <1>1, <1>2 DEF inode_write_at, FileInv
<1>4. PICK s \in Sector : s = files[h].sector
  BY <1>3
<1>5. IsOpen(s) /\ s \in Live
  BY <1>1, <1>3, <1>4, OpenerOpen
<1>6. PICK o \in InodeType : o = open_inodes[s]
  BY <1>2
<1>7. PICK b : b = o.start + i
  OBVIOUS
<1>8. /\ i < o.length /\ disk' = [disk EXCEPT ![b] = v]
      /\ UNCHANGED <<mapVars, root, memVars, pc, op, lost>>
  BY <1>4, <1>6, <1>7, Zenon DEF inode_write_at
<1>9. o.start = disk[s].start /\ o.length = disk[s].length
  BY <1>1, <1>5, <1>6, Zenon DEF InodeInv
<1>10. o.start \in Nat /\ o.length \in Nat /\ i \in Nat
  BY Constants, Zenon DEF InodeType
<1>11. b \in Extent(o.start, o.length)
  BY <1>7, <1>8, <1>10 DEF Extent
<1>12. b \in Data(s)
  BY <1>9, <1>11 DEF Data
<1>13. ASSUME NEW t \in Live PROVE disk'[t] = disk[t]
  <2>1. CASE t = s
    <3>1. s # b
      BY <1>1, <1>5, <1>12, Zenon DEF InodeInv
    <3> QED
      BY <1>8, <2>1, <3>1
  <2>2. CASE t # s
    <3>1. t # b
      BY <1>1, <1>5, <1>12, <2>2, Zenon DEF ApartInv, OnDisk
    <3> QED
      BY <1>8, <3>1
  <2> QED
    BY <2>1, <2>2
<1>14. DOMAIN disk' = Sector /\ disk' = [t \in Sector |-> disk'[t]]
  BY <1>1, <1>8 DEF Types
<1>15. Types'
  BY <1>1, <1>8, <1>14 DEF Types, TypeOK, memVars, mapVars
<1>16. OpInv' /\ InOp' = InOp
  BY <1>1, <1>3, <1>8, InOpIs, InOpWas, Zenon DEF OpInv
<1> QED
  BY <1>8, <1>13, <1>15, <1>16, OnlyCall

\* A restart finds every linked file as the disk has it; what else the free map's
\* file marks is lost.
LEMMA RestartKeeps ==
  ASSUME CanCount, FsInv, Restart
  PROVE  FsInv'
<1>1. Types /\ OpInv /\ MapInv /\ ApartInv /\ InodeInv /\ EntryInv /\ CountsExact /\ FileInv
  BY DEF FsInv
<1>2. /\ open_inodes' = [s \in Sector |-> NoInode] /\ files' = [h \in Handle |-> NoFile]
      /\ free_map' = free_map_file /\ Go("idle", NoOp) /\ UNCHANGED <<free_map_file, disk, root>>
  BY DEF Restart
<1>3. pc' = "idle" /\ op' = NoOp /\ InOp' = {}
  BY <1>2, GoIs, InOpWas
<1>4. \A s \in Sector : ~IsOpen(s)' /\ open_inodes'[s] = NoInode
  BY <1>2 DEF IsOpen, NoInode
<1>5. Linked' = Linked /\ EntryInv'
  BY <1>1, <1>2, Zenon DEF Linked, EntryInv
<1>6. \A s : s \in Live' <=> s \in Linked
  BY <1>4, <1>5, LiveWas, Zenon
<1>7. \A s \in Live' : s \in Live
  BY <1>6, LiveIs, Zenon
<1>8. \A s : Data(s)' = Data(s) /\ OnDisk(s)' = OnDisk(s)
  BY <1>2, Zenon DEF Data, OnDisk, Extent
<1>9. \A x : x \in lost' <=> x \in free_map_file /\ x \notin Boot /\ ~Has(x)'
  <2>1. lost' = free_map_file \ (Boot \cup (UNION {Owned(s) : s \in Linked}))
    BY DEF Restart, Boot
  <2>2. \A x : x \in UNION {Owned(s) : s \in Linked} <=> \E s \in Linked : x \in Owned(s)
    BY Zenon
  <2>3. \A s \in Linked : Owned(s) = OnDisk(s)
    BY <1>1, OwnedIs, LiveIs, Zenon
  <2>4. \A x : Has(x)' <=> \E s \in Linked : x \in Owned(s)
    BY <1>6, <1>8, <2>3, Zenon DEF Has
  <2> QED
    BY <2>1, <2>2, <2>4, Zenon
<1>10. Boot' = Boot
  BY DEF Boot
<1>11. \A x : x \in free_map <=> x \in Boot \/ Has(x) \/ x \in InOp \/ x \in lost
  BY <1>1, MarkedIs, Zenon DEF MapInv
<1>12. \A x : Has(x)' => Has(x)
  BY <1>7, <1>8, Zenon DEF Has
<1>13. \A x \in free_map : x \in free_map_file
  BY <1>1 DEF MapInv
<1>14. \A x : x \in free_map' <=> x \in Boot' \/ Has(x)' \/ x \in InOp' \/ x \in lost'
  <2> SUFFICES ASSUME NEW x
               PROVE  x \in free_map' <=> x \in Boot' \/ Has(x)' \/ x \in InOp' \/ x \in lost'
    OBVIOUS
  <2>1. x \in Boot \/ Has(x)' => x \in free_map_file
    BY <1>11, <1>12, <1>13, Zenon
  <2>2. x \notin InOp'
    BY <1>3
  <2>3. x \in lost' <=> x \in free_map_file /\ x \notin Boot /\ ~Has(x)'
    BY <1>9, Zenon
  <2>4. x \in free_map' <=> x \in free_map_file
    BY <1>2
  <2> QED
    BY <1>10, <2>1, <2>2, <2>3, <2>4, Zenon
<1>15. MapInv'
  <2>1. free_map' \subseteq free_map_file'
    BY <1>2
  <2> QED
    BY <1>14, <2>1, MarkedWas, Zenon DEF MapInv
<1>16. ApartInv'
  <2>1. ASSUME NEW s \in Live', NEW t \in Live', s # t PROVE OnDisk(s)' \cap OnDisk(t)' = {}
    BY <1>1, <1>7, <1>8, <2>1, Zenon DEF ApartInv
  <2>2. ASSUME NEW s \in Live' PROVE OnDisk(s)' \cap (Boot' \cup lost' \cup InOp') = {}
    <3>1. OnDisk(s) \cap Boot = {}
      BY <1>1, <1>7, Zenon DEF ApartInv
    <3>2. \A x \in OnDisk(s)' : Has(x)'
      BY Zenon DEF Has
    <3>3. \A x \in OnDisk(s)' : x \notin lost'
      BY <1>9, <3>2, Zenon
    <3> QED
      BY <1>3, <1>8, <1>10, <3>1, <3>3, Zenon
  <2>3. InOp' \cap (Boot' \cup lost') = {}
    BY <1>3
  <2> QED
    BY <2>1, <2>2, <2>3, Zenon DEF ApartInv
<1>17. InodeInv'
  <2>1. \A s \in Live' : /\ s \in Sector /\ disk'[s] \in InodeDisk /\ Data(s)' \subseteq Sector
                         /\ s \notin Data(s)'
    BY <1>1, <1>2, <1>7, <1>8, Zenon DEF InodeInv
  <2> QED
    BY <1>4, <2>1, Zenon DEF InodeInv, InodeDisk
<1>18. \A h \in Handle : files'[h] = NoFile
  BY <1>2
<1>19. CountsExact'
  <2>1. ASSUME NEW s \in Sector PROVE Counted(s)'
    <3>1. NoFile.sector = None /\ s # None
      BY Constants, Zenon DEF NoFile
    <3>2. Openers(s)' = {}
      BY <1>18, <3>1 DEF Openers
    <3>3. Deniers(s)' = {}
      BY <3>2 DEF Deniers
    <3> QED
      <4>1. NoInode.open_cnt = 0 /\ NoInode.deny_write_cnt = 0
        BY DEF NoInode
      <4>2. open_inodes'[s].open_cnt = 0 /\ open_inodes'[s].deny_write_cnt = 0
        BY <1>4, <4>1, Zenon
      <4>3. Cardinality({}) = 0
        BY Zenon DEF CanCount
      <4> QED
        BY <3>2, <3>3, <4>2, <4>3, Zenon DEF Counted
  <2> QED
    BY <2>1, CountsWere, Zenon
<1>20. FileInv'
  BY <1>18, Zenon DEF FileInv
<1>21. OpInv'
  BY <1>3 DEF OpInv
<1>22. Types'
  <2>1. lost' \subseteq Sector /\ free_map' \subseteq Sector /\ free_map_file' \subseteq Sector
    BY <1>1, <1>2, <1>9, TypesAre
  <2>2. files' \in [Handle -> [sector : Sector \cup {None}, deny_write : BOOLEAN]]
    BY <1>2 DEF NoFile
  <2>3. open_inodes' \in [Sector -> InodeType]
    BY <1>2, Constants DEF InodeType
  <2>4. pc' \in Labels
    BY <1>3 DEF Labels
  <2> QED
    BY <1>1, <1>2, <1>3, <2>1, <2>2, <2>3, <2>4, Constants DEF Types, TypeOK, InodeType, Length
<1> QED
  BY <1>5, <1>15, <1>16, <1>17, <1>19, <1>20, <1>21, <1>22 DEF FsInv

-----------------------------------------------------------------------------
(* The invariant holds at every step, and what it means.                  *)

\* do_format () leaves a disk with no files.
LEMMA InitHolds == ASSUME CanCount PROVE Init => FsInv
<1> SUFFICES ASSUME Init PROVE FsInv
  OBVIOUS
<1>1. /\ free_map = Boot /\ free_map_file = free_map /\ disk = [s \in Sector |-> Zero]
      /\ root = [i \in 1 .. SlotCnt |-> FreeEntry]
      /\ open_inodes = [s \in Sector |-> NoInode] /\ files = [h \in Handle |-> NoFile]
      /\ pc = "idle" /\ op = NoOp /\ lost = {}
  BY DEF Init, Boot
<1>2. \A i \in 1 .. SlotCnt : root[i].name = None
  BY <1>1 DEF FreeEntry
<1>3. \A s \in Sector : open_inodes[s] = NoInode /\ ~IsOpen(s)
  BY <1>1 DEF IsOpen, NoInode
<1>4. Linked = {}
  BY <1>1, <1>2 DEF Linked
<1>5. Live = {} /\ InOp = {}
  BY <1>1, <1>3, <1>4, LiveIs, InOpIs
<1>6. Types
  <2>1. files \in [Handle -> [sector : Sector \cup {None}, deny_write : BOOLEAN]]
    BY <1>1 DEF NoFile
  <2>2. pc \in Labels
    BY <1>1 DEF Labels
  <2> QED
    BY <1>1, <2>1, <2>2, Constants DEF Types, TypeOK, Length
<1>7. InodeInv /\ ApartInv
  BY <1>1, <1>3, <1>5, Zenon DEF InodeInv, ApartInv
<1>8. MapInv
  <2>1. \A x : ~Has(x)
    BY <1>5 DEF Has
  <2> QED
    BY <1>1, <1>5, <2>1, MarkedIs DEF MapInv
<1>9. EntryInv /\ OpInv /\ FileInv
  BY <1>1, <1>2, Zenon DEF EntryInv, OpInv, FileInv
<1>10. CountsExact
  <2>1. ASSUME NEW s \in Sector PROVE Counted(s)
    <3>1. NoFile.sector = None /\ s # None
      BY Constants DEF NoFile
    <3>2. Openers(s) = {}
      BY <1>1, <3>1 DEF Openers
    <3>3. Deniers(s) = {}
      BY <3>2 DEF Deniers
    <3> QED
      <4>1. NoInode.open_cnt = 0 /\ NoInode.deny_write_cnt = 0
        BY DEF NoInode
      <4>2. open_inodes[s].open_cnt = 0 /\ open_inodes[s].deny_write_cnt = 0
        BY <1>3, <4>1, Zenon
      <4>3. Cardinality({}) = 0
        BY Zenon DEF CanCount
      <4> QED
        BY <3>2, <3>3, <4>2, <4>3, Zenon DEF Counted
  <2> QED
    BY <2>1, CountsAre
<1> QED
  BY <1>6, <1>7, <1>8, <1>9, <1>10 DEF FsInv

\* Stuttering.
LEMMA StutterKeeps ==
  ASSUME FsInv, UNCHANGED vars
  PROVE  FsInv'
<1>1. UNCHANGED <<free_map, free_map_file, disk, root, open_inodes, files, pc, op, lost>>
  BY DEF vars, mapVars, memVars
<1>2. Types'
  BY <1>1 DEF FsInv, Types, TypeOK
<1>3. OpInv' /\ InOp' = InOp
  BY <1>1, Zenon DEF FsInv, OpInv, InOp
<1>4. UNCHANGED <<mapVars, root, memVars, lost>> /\ \A s \in Live : disk'[s] = disk[s]
  BY <1>1 DEF mapVars, memVars
<1> QED
  BY <1>2, <1>3, <1>4, OnlyCall

\* Every step of every call, and a restart at any moment, keep the invariant.
LEMMA StepKeeps ==
  ASSUME CanCount, ReadsWhole, FsInv, [Next]_vars
  PROVE  FsInv'
<1>1. ASSUME NEW n \in Name, NEW k \in Size, filesys_create(n, k) PROVE FsInv'
  BY <1>1, CreateKeeps
<1>2. CASE inode_create
  BY <1>2, InodeCreateKeeps
<1>3. CASE inode_create_write
  BY <1>3, CreateWriteKeeps
<1>4. CASE inode_create_zeros
  BY <1>4, CreateZerosKeeps
<1>5. CASE dir_add
  BY <1>5, DirAddKeeps
<1>6. CASE create_undo
  BY <1>6, UndoKeeps
<1>7. ASSUME NEW n \in Name, filesys_remove(n) PROVE FsInv'
  BY <1>7, RemoveKeeps
<1>8. CASE release_inode \/ release_data
  BY <1>8, ReleaseKeeps
<1>9. ASSUME NEW h \in Handle, NEW n \in Name, filesys_open(h, n) PROVE FsInv'
  <2>1. Types /\ Entries(n) # {} /\ OpenAt(h, root[Lowest(Entries(n))].sector)
    BY <1>9 DEF filesys_open, FsInv
  <2>2. DOMAIN root = 1 .. SlotCnt
    BY <2>1, TypesAre
  <2>3. Entries(n) \subseteq Nat
    BY <2>2, FileSysAssumption DEF Entries
  <2>4. PICK e \in Entries(n) : e = Lowest(Entries(n))
    BY <2>1, <2>3, LowestIs
  <2>5. Names(e, root[e].sector)
    BY Constants DEF Entries, Names
  <2>6. root[e].sector \in Live
    BY <2>5, LinkedIs, LiveIs, Zenon
  <2> QED
    BY <2>1, <2>4, <2>6, OpenKeeps, Zenon
<1>10. ASSUME NEW h \in Handle, NEW g \in Handle, file_reopen(h, g) PROVE FsInv'
  <2>1. files[g].sector \in Sector /\ CountsExact /\ OpenAt(h, files[g].sector)
    BY <1>10, TypesAre DEF file_reopen, FsInv, FileInv
  <2>2. files[g].sector \in Live
    BY <2>1, OpenerOpen
  <2> QED
    BY <2>1, <2>2, OpenKeeps, Zenon
<1>11. ASSUME NEW h \in Handle, file_deny_write(h) \/ file_close(h) PROVE FsInv'
  BY <1>11, DenyKeeps, CloseKeeps
<1>12. ASSUME NEW h \in Handle, NEW i \in Sector, NEW v \in Val, inode_write_at(h, i, v)
       PROVE  FsInv'
  BY <1>12, WriteKeeps
<1>13. CASE Restart
  BY <1>13, RestartKeeps
<1>14. CASE UNCHANGED vars
  BY <1>14, StutterKeeps
<1> QED
  BY <1>1, <1>2, <1>3, <1>4, <1>5, <1>6, <1>7, <1>8, <1>9, <1>10, <1>11, <1>12, <1>13, <1>14
     DEF Next

\* What the invariant says of the free map, the sectors and the counts.
LEMMA InvariantMeans == FsInv => MetadataConsistent /\ CrashSafe
<1> SUFFICES ASSUME FsInv PROVE MetadataConsistent /\ CrashSafe
  OBVIOUS
<1>1. /\ Types /\ OpInv /\ MapInv /\ ApartInv /\ InodeInv /\ EntryInv /\ CountsExact
      /\ DOMAIN root = 1 .. SlotCnt
  BY TypesAre DEF FsInv
<1>2. \A s \in Live : Owned(s) = OnDisk(s)
  BY <1>1, OwnedIs
<1>3. \A x : x \in UNION {Owned(s) : s \in Live} <=> Has(x)
  BY <1>2, Zenon DEF Has
<1>4. \A x : x \in free_map <=> x \in Boot \/ Has(x) \/ x \in InOp \/ x \in lost
  BY <1>1, MarkedIs, Zenon DEF MapInv
<1>5. TypeOK
  BY <1>1 DEF Types
<1>6. FreeMapExact
  <2>1. PICK U : U = UNION {Owned(s) : s \in Live}
    BY Zenon
  <2>2. \A x : x \in U <=> Has(x)
    BY <1>3, <2>1, Zenon
  <2>3. free_map = Boot \cup U \cup InOp \cup lost
    BY <1>4, <2>2
  <2> QED
    BY <2>1, <2>3 DEF FreeMapExact, Boot
<1>7. NoSharedSectors
  <2>1. \A s, t \in Live : s # t => Owned(s) \cap Owned(t) = {}
    BY <1>1, <1>2, Zenon DEF ApartInv
  <2>2. \A x : Has(x) => x \notin InOp
    BY <1>1, Zenon DEF Has, ApartInv
  <2>3. InOp \cap (lost \cup UNION {Owned(s) : s \in Live}) = {}
    BY <1>1, <1>3, <2>2, Zenon DEF ApartInv
  <2> QED
    BY <1>1, <2>1, <2>3, Zenon DEF NoSharedSectors, EntryInv
<1>8. ReleasesMarked
  <2>1. InOp \subseteq free_map
    BY <1>4
  <2> QED
    BY <2>1, InOpIs DEF ReleasesMarked
<1>9. CrashSafe
  <2>1. ASSUME NEW s \in Linked, NEW x \in Owned(s) PROVE x \in free_map_file
    <3>1. s \in Live
      BY LiveIs, Zenon
    <3>2. Has(x)
      BY <1>2, <3>1, Zenon DEF Has
    <3> QED
      BY <1>1, <1>4, <3>2 DEF MapInv
  <2> QED
    BY <2>1, Zenon DEF CrashSafe
<1> QED
  BY <1>1, <1>5, <1>6, <1>7, <1>8, <1>9 DEF MetadataConsistent

\* An entry is never replaced.
EntryStep ==
  \A i \in DOMAIN root : root[i].name # None => root'[i] \in {root[i], FreeEntry}

\* Only dir_add () and filesys_remove () write entries, a free one and its own.
LEMMA EntryStays ==
  ASSUME CanCount, ReadsWhole, FsInv, [Next]_vars
  PROVE  EntryStep
<1>1. Types /\ root \in [1 .. SlotCnt -> [name : Name \cup {None}, sector : Sector]]
  BY TypesAre DEF FsInv
<1>2. CASE UNCHANGED root
  BY <1>2 DEF EntryStep
<1>3. CASE dir_add
  <2>1. ASSUME NEW i \in ScanStops \cap (1 .. SlotCnt),
               root' = [root EXCEPT ![i] = [name |-> op.name, sector |-> op.sector]]
        PROVE  EntryStep
    <3>1. i \in DOMAIN root /\ root[i].name = None
      BY <1>1, StopsAtFree
    <3> QED
      BY <2>1, <3>1 DEF EntryStep
  <2> QED
    BY <1>2, <1>3, <2>1, Zenon DEF dir_add
<1>4. ASSUME NEW n \in Name, filesys_remove(n) PROVE EntryStep
  <2>1. PICK e : root' = [root EXCEPT ![e] = FreeEntry]
    BY <1>4, Zenon DEF filesys_remove
  <2> QED
    BY <1>1, <2>1 DEF EntryStep
<1> QED
  BY <1>2, <1>3, <1>4, Zenon
     DEF Next, vars, filesys_create, inode_create, inode_create_write, inode_create_zeros,
         create_undo, release_inode, release_data, filesys_open, file_reopen, OpenAt,
         file_deny_write, file_close, inode_write_at, Restart

-----------------------------------------------------------------------------
(* FileSys implements FileStore.                                           *)

\* What the refinement mapping gives FileStore.
NameOf(n) == IF Entries(n) = {} THEN None ELSE root[Lowest(Entries(n))].sector

StoreNames == [n \in Name |-> NameOf(n)]

StoreOpened == [h \in Handle |-> files[h].sector]

StoreContent == [s \in Sector |-> IF s \in Live THEN Blocks(s) ELSE None]

\* A name or a handle leads to s.
Reached(s) == (\E n \in Name : NameOf(n) = s) \/ (\E h \in Handle : files[h].sector = s)

\* The blocks of a live file hold what was written, and those of the file that
\* dir_add () is about to link hold zeros.
ContentInv ==
  /\ \A s \in Live : \A x \in Data(s) : disk[x] \in Val \cup {Zero}
  /\ pc = "dir_add" => \A x \in Extent(op.start, op.length) : disk[x] = Zero
  /\ pc \in {"create_data", "create_inode", "create_zeros", "dir_add"} => op.length \in Size

NamesRight ==
  \A n \in Name : /\ Entries(n) = {} => NameOf(n) = None
                  /\ \A i \in Entries(n) : NameOf(n) = root[i].sector

LiveRight == \A s : s \in Live <=> s \in Sector /\ Reached(s)

\* A name leads to its one entry.
LEMMA NameIs ==
  ASSUME CanCount
  PROVE  FsInv => \A n \in Name : /\ Entries(n) = {} => NameOf(n) = None
                                  /\ \A i \in Entries(n) : NameOf(n) = root[i].sector
<1> SUFFICES ASSUME FsInv, NEW n \in Name, NEW i \in Entries(n)
             PROVE  NameOf(n) = root[i].sector
  BY DEF NameOf
<1>1. Types /\ EntryInv /\ DOMAIN root = 1 .. SlotCnt
  BY TypesAre DEF FsInv
<1>2. Entries(n) \subseteq Nat /\ Entries(n) # {}
  BY <1>1, FileSysAssumption DEF Entries
<1>3. PICK j \in Entries(n) : j = Lowest(Entries(n))
  BY <1>2, LowestIs
<1>4. NameOf(n) = root[j].sector
  BY <1>3 DEF NameOf
<1>5. i = j
  BY <1>1, Constants DEF Entries, EntryInv
<1> QED
  BY <1>4, <1>5

\* The same after the step.
LEMMA NameWas ==
  ASSUME CanCount
  PROVE  FsInv' => \A n \in Name : /\ Entries(n)' = {} => NameOf(n)' = None
                                   /\ \A i \in Entries(n)' : NameOf(n)' = root'[i].sector
<1>1. FsInv => NamesRight
  BY NameIs, Zenon DEF NamesRight
<1>2. FsInv' => NamesRight'
  BY <1>1, PTL
<1> QED
  BY <1>2, Zenon DEF NamesRight

\* A file is live when a name or a handle leads to it.
LEMMA LiveReached ==
  ASSUME CanCount
  PROVE  FsInv => \A s : s \in Live <=> s \in Sector /\ Reached(s)
<1> SUFFICES ASSUME FsInv, NEW s PROVE s \in Live <=> s \in Sector /\ Reached(s)
  OBVIOUS
<1>1. /\ Types /\ InodeInv /\ CountsExact
      /\ root \in [1 .. SlotCnt -> [name : Name \cup {None}, sector : Sector]]
      /\ open_inodes \in [Sector -> InodeType]
  BY TypesAre DEF FsInv, InodeType
<1>2. ASSUME s \in Live PROVE s \in Sector /\ Reached(s)
  <2>1. s \in Sector
    BY <1>1, <1>2 DEF InodeInv
  <2>2. CASE s \in Linked
    <3>1. PICK i : Names(i, s)
      BY <2>2, LinkedIs, Zenon
    <3>2. i \in Entries(root[i].name) /\ root[i].name \in Name /\ root[i].sector = s
      BY <1>1, <3>1 DEF Names, Entries
    <3>3. NameOf(root[i].name) = s
      BY <3>2, NameIs, Zenon
    <3> QED
      BY <2>1, <3>2, <3>3, Zenon DEF Reached
  <2>3. CASE IsOpen(s)
    <3>1. open_inodes[s].open_cnt = Cardinality(Openers(s)) /\ open_inodes[s].open_cnt \in Nat
      BY <1>1, <2>1, CountsAre DEF Counted, InodeType
    <3>2. Cardinality(Openers(s)) # 0
      BY <2>3, <3>1 DEF IsOpen
    <3>3. Openers(s) # {}
      BY <3>2, Zenon DEF CanCount
    <3> QED
      BY <2>1, <3>3 DEF Openers, Reached
  <2> QED
    BY <1>2, <2>2, <2>3, LiveIs, Zenon
<1>3. ASSUME s \in Sector, NEW n \in Name, NameOf(n) = s PROVE s \in Live
  <2>1. PICK i : i \in Entries(n)
    BY <1>3, Constants DEF NameOf
  <2>2. NameOf(n) = root[i].sector
    BY <2>1, NameIs, Zenon
  <2>3. Names(i, s)
    BY <1>3, <2>1, <2>2, Constants DEF Names, Entries
  <2> QED
    BY <2>3, LinkedIs, LiveIs, Zenon
<1>4. ASSUME s \in Sector, NEW h \in Handle, files[h].sector = s PROVE s \in Live
  BY <1>1, <1>4, OpenerOpen
<1> QED
  BY <1>2, <1>3, <1>4, Zenon DEF Reached

\* The same after the step.
LEMMA LiveWasReached ==
  ASSUME CanCount
  PROVE  FsInv' => \A s : s \in Live' <=> s \in Sector /\ Reached(s)'
<1>1. FsInv => LiveRight
  BY LiveReached, Zenon DEF LiveRight
<1>2. FsInv' => LiveRight'
  BY <1>1, PTL
<1> QED
  BY <1>2, Zenon DEF LiveRight

DiskBlocks(s) == [b \in 1 .. disk[s].length |-> disk[disk[s].start + b - 1]]

BlocksRight == \A s \in Live : Blocks(s) = DiskBlocks(s)

\* The blocks of a live file are those its inode on disk leads to.
LEMMA BlocksAre == FsInv => \A s \in Live : Blocks(s) = DiskBlocks(s)
<1> SUFFICES ASSUME FsInv, NEW s \in Live PROVE Blocks(s) = DiskBlocks(s)
  OBVIOUS
<1>1. InodeInv /\ s \in Sector
  BY Zenon DEF FsInv, InodeInv
<1>2. CASE IsOpen(s)
  <2>1. open_inodes[s].start = disk[s].start /\ open_inodes[s].length = disk[s].length
    BY <1>1, <1>2, Zenon DEF InodeInv
  <2>2. Blocks(s) = [b \in 1 .. open_inodes[s].length |-> disk[open_inodes[s].start + b - 1]]
    BY <1>2, Zenon DEF Blocks, IsOpen
  <2> QED
    BY <2>1, <2>2, Zenon DEF DiskBlocks
<1>3. CASE ~IsOpen(s)
  BY <1>3, Zenon DEF Blocks, IsOpen, DiskBlocks
<1> QED
  BY <1>2, <1>3

\* The same after the step.
LEMMA BlocksWere == FsInv' => \A s \in Live' : Blocks(s)' = DiskBlocks(s)'
<1>1. FsInv => BlocksRight
  BY BlocksAre, Zenon DEF BlocksRight
<1>2. FsInv' => BlocksRight'
  BY <1>1, PTL
<1> QED
  BY <1>2, Zenon DEF BlocksRight

\* The blocks of a live file are in its sectors.
LEMMA BlockPlaces ==
  ASSUME FsInv, NEW s \in Live
  PROVE  /\ disk[s].start \in Nat /\ disk[s].length \in Length /\ disk[s].length \in Nat
         /\ \A b \in 1 .. disk[s].length : disk[s].start + b - 1 \in Data(s)
<1>1. disk[s] \in InodeDisk
  BY DEF FsInv, InodeInv
<1>2. disk[s].start \in Nat /\ disk[s].length \in Length /\ disk[s].length \in Nat
  BY <1>1, Constants, Zenon DEF InodeDisk
<1> QED
  BY <1>2 DEF Data, Extent

\* A step that leaves the blocks of s alone.
LEMMA SameBlocks ==
  ASSUME FsInv, NEW s \in Live, disk'[s] = disk[s], \A x \in Data(s) : disk'[x] = disk[x]
  PROVE  DiskBlocks(s)' = DiskBlocks(s) /\ Data(s)' = Data(s)
<1>1. PICK a, k : a = disk[s].start /\ k = disk[s].length
  OBVIOUS
<1>2. \A b \in 1 .. k : disk'[a + b - 1] = disk[a + b - 1]
  BY <1>1, BlockPlaces
<1>3. DiskBlocks(s)' = [b \in 1 .. k |-> disk'[a + b - 1]]
  BY <1>1 DEF DiskBlocks
<1>4. DiskBlocks(s) = [b \in 1 .. k |-> disk[a + b - 1]]
  BY <1>1 DEF DiskBlocks
<1> QED
  BY <1>2, <1>3, <1>4 DEF Data, Extent

\* What FileStore sees of a step that neither reaches new files nor writes to one.
LEMMA DropMaps ==
  ASSUME CanCount, FsInv, FsInv', ContentInv, \A s \in Sector : Reached(s)' => Reached(s),
         \A s \in Live : disk'[s] = disk[s] /\ \A x \in Data(s) : disk'[x] = disk[x]
  PROVE  /\ \A s \in Live' : s \in Live /\ Data(s)' = Data(s)
         /\ \A s \in Live' : \A x \in Data(s)' : disk'[x] \in Val \cup {Zero}
         /\ \A s \in Sector : StoreContent'[s] = IF Reached(s)' THEN StoreContent[s] ELSE None
<1>1. \A s \in Live' : s \in Live
  BY LiveReached, LiveWasReached, Zenon
<1>2. \A s \in Live' : Data(s)' = Data(s)
  BY <1>1, SameBlocks
<1>3. \A s \in Live' : \A x \in Data(s)' : disk'[x] \in Val \cup {Zero}
  BY <1>1, <1>2, Zenon DEF ContentInv
<1>4. ASSUME NEW s \in Sector
      PROVE  StoreContent'[s] = IF Reached(s)' THEN StoreContent[s] ELSE None
  <2>1. StoreContent'[s] = IF s \in Live' THEN Blocks(s)' ELSE None
    BY DEF StoreContent
  <2>2. StoreContent[s] = IF s \in Live THEN Blocks(s) ELSE None
    BY DEF StoreContent
  <2>3. s \in Live' <=> Reached(s)'
    BY LiveWasReached, Zenon
  <2>4. CASE s \in Live'
    <3>1. Blocks(s)' = DiskBlocks(s)' /\ Blocks(s) = DiskBlocks(s) /\ s \in Live
      BY <1>1, <2>4, BlocksAre, BlocksWere, Zenon
    <3>2. DiskBlocks(s)' = DiskBlocks(s)
      BY <3>1, SameBlocks
    <3> QED
      BY <2>1, <2>2, <2>3, <2>4, <3>1, <3>2, Zenon
  <2>5. CASE s \notin Live'
    BY <2>1, <2>3, <2>5
  <2> QED
    BY <2>4, <2>5, Zenon
<1> QED
  BY <1>1, <1>2, <1>3, <1>4, Zenon

\* A step that FileStore does not see.
LEMMA QuietMaps ==
  ASSUME CanCount, FsInv, FsInv', ContentInv, UNCHANGED root,
         \A h \in Handle : files'[h].sector = files[h].sector,
         \A s \in Live : disk'[s] = disk[s] /\ \A x \in Data(s) : disk'[x] = disk[x],
         pc' = "dir_add" => \A x \in Extent(op'.start, op'.length) : disk'[x] = Zero,
         pc' \in {"create_data", "create_inode", "create_zeros", "dir_add"} => op'.length \in Size
  PROVE  ContentInv' /\ UNCHANGED Store!vars
<1>1. \A n : NameOf(n)' = NameOf(n)
  BY Zenon DEF NameOf, Entries
<1>2. \A s : Reached(s)' <=> Reached(s)
  BY <1>1, Zenon DEF Reached
<1>3. /\ \A s \in Live' : \A x \in Data(s)' : disk'[x] \in Val \cup {Zero}
      /\ \A s \in Sector : StoreContent'[s] = IF Reached(s)' THEN StoreContent[s] ELSE None
  BY <1>2, DropMaps, Zenon
<1>4. ContentInv'
  BY <1>3, Zenon DEF ContentInv, Extent
<1>5. \A s \in Sector : StoreContent'[s] = StoreContent[s]
  <2> SUFFICES ASSUME NEW s \in Sector, ~Reached(s) PROVE StoreContent[s] = None
    BY <1>2, <1>3, Zenon
  <2> QED
    BY LiveReached, Zenon DEF StoreContent
<1>6. StoreContent' = StoreContent
  <2>1. /\ StoreContent = [s \in Sector |-> StoreContent[s]]
        /\ StoreContent' = [s \in Sector |-> StoreContent'[s]]
    BY Zenon DEF StoreContent
  <2> QED
    BY <1>5, <2>1
<1>7. StoreNames' = StoreNames
  BY <1>1, Zenon DEF StoreNames
<1>8. StoreOpened' = StoreOpened
  BY DEF StoreOpened
<1> QED
  BY <1>4, <1>6, <1>7, <1>8, Zenon DEF Store!vars, StoreNames, StoreOpened, StoreContent, NameOf

\* Kept, in the words of FileSys.
LEMMA KeptIs ==
  ASSUME CanCount, FsInv, FsInv', ContentInv, \A s \in Sector : Reached(s)' => Reached(s),
         \A s \in Live : disk'[s] = disk[s] /\ \A x \in Data(s) : disk'[x] = disk[x]
  PROVE  StoreContent' = Store!Kept(StoreNames', StoreOpened')
<1>1. \A s \in Sector : StoreContent'[s] = IF Reached(s)' THEN StoreContent[s] ELSE None
  BY DropMaps, Zenon
<1>2. \A s : Reached(s)' <=> (\E n \in Name : StoreNames'[n] = s)
                              \/ (\E h \in Handle : StoreOpened'[h] = s)
  BY DEF Reached, StoreNames, StoreOpened
<1>3. Store!Kept(StoreNames', StoreOpened') =
        [s \in Sector |-> IF (\E n \in Name : StoreNames'[n] = s)
                              \/ (\E h \in Handle : StoreOpened'[h] = s)
                          THEN StoreContent[s] ELSE None]
  BY Zenon DEF Store!Kept, StoreContent
<1>4. StoreContent' = [s \in Sector |-> StoreContent'[s]]
  BY DEF StoreContent
<1>5. \A s \in Sector : Store!Kept(StoreNames', StoreOpened')[s] = StoreContent'[s]
  BY <1>1, <1>2, <1>3, Zenon
<1> QED
  BY <1>3, <1>4, <1>5

\* The steps of filesys_create () before dir_add () do not show.
LEMMA CreateStepsMap ==
  ASSUME CanCount, FsInv, FsInv', ContentInv,
         \/ \E n \in Name, k \in Size : filesys_create(n, k)
         \/ inode_create \/ inode_create_write \/ inode_create_zeros
  PROVE  ContentInv' /\ UNCHANGED Store!vars
<1>1. /\ Types /\ ApartInv /\ op.sector \in Sector
      /\ op \in [name : Name \cup {None}, sector : Sector, start : Sector, length : Length]
  BY TypesAre DEF FsInv
<1>2. UNCHANGED <<root, files>>
  BY Zenon DEF filesys_create, inode_create, inode_create_write, inode_create_zeros, memVars
<1>3. \A h \in Handle : files'[h].sector = files[h].sector
  BY <1>2
<1>4. ASSUME NEW n \in Name, NEW k \in Size, filesys_create(n, k)
      PROVE  ContentInv' /\ UNCHANGED Store!vars
  <2>1. UNCHANGED disk
    BY <1>4, Zenon DEF filesys_create
  <2>2. \A s \in Live : disk'[s] = disk[s] /\ \A x \in Data(s) : disk'[x] = disk[x]
    BY <2>1
  <2>3. \/ pc' = "idle"
        \/ \E s \in Sector : /\ pc' = "create_data"
                             /\ op' = [NoOp EXCEPT !.name = n, !.sector = s, !.length = k]
    BY <1>4, Zenon DEF filesys_create, Go
  <2>4. pc' # "dir_add" /\ (pc' # "idle" => op'.length \in Size)
    BY <2>3, Zenon DEF NoOp
  <2> QED
    BY <1>2, <1>3, <2>2, <2>3, <2>4, QuietMaps, Zenon
<1>5. CASE inode_create
  <2>1. UNCHANGED disk /\ op.length \in Size
    BY <1>5 DEF inode_create, ContentInv
  <2>2. \A s \in Live : disk'[s] = disk[s] /\ \A x \in Data(s) : disk'[x] = disk[x]
    BY <2>1
  <2>3. \/ pc' = "create_undo"
        \/ \E s \in Sector : pc' = "create_inode" /\ op' = [op EXCEPT !.start = s]
    BY <1>5 DEF inode_create, Go
  <2>4. pc' # "dir_add" /\ (pc' = "create_inode" => op'.length \in Size)
    BY <1>1, <2>1, <2>3
  <2> QED
    BY <1>2, <1>3, <2>2, <2>3, <2>4, QuietMaps
<1>6. CASE inode_create_write
  <2>1. /\ pc = "create_inode" /\ op.length \in Size /\ pc' = "create_zeros" /\ op' = op
        /\ disk' = [disk EXCEPT ![op.sector] = [start |-> op.start, length |-> op.length]]
    <3>1. op.length \in Size
      BY <1>6, Zenon DEF inode_create_write, ContentInv
    <3> QED
      BY <1>6, <3>1, GoIs DEF inode_create_write
  <2>2. op.sector \in InOp
    BY <2>1, InOpIs
  <2>3. \A s \in Live : op.sector \notin OnDisk(s)
    BY <1>1, <2>2 DEF ApartInv
  <2>4. \A s \in Live : disk'[s] = disk[s] /\ \A x \in Data(s) : disk'[x] = disk[x]
    BY <2>1, <2>3 DEF OnDisk
  <2> QED
    BY <1>2, <1>3, <2>1, <2>4, QuietMaps
<1>7. CASE inode_create_zeros
  <2>1. PICK E : E = Extent(op.start, op.length)
    OBVIOUS
  <2>2. pc = "create_zeros" /\ op.length \in Size
    BY <1>7 DEF inode_create_zeros, ContentInv
  <2>3. PICK D \in SUBSET E :
          /\ disk' = [s \in Sector |-> IF s \in D THEN Zero ELSE disk[s]]
          /\ pc' \in {"create_zeros", "dir_add"} /\ op' = op
          /\ pc' = "dir_add" => D = E
    BY <1>1, <1>7, <2>1, ZerosAre
  <2>4. E \subseteq InOp /\ E \subseteq Sector
    BY <2>1, <2>2, InOpIs, Zenon DEF FsInv, OpInv
  <2>5. \A s \in Live : s \in Sector /\ Data(s) \subseteq Sector
    BY Zenon DEF FsInv, InodeInv
  <2>6. \A s \in Live : s \notin E /\ Data(s) \cap E = {}
    BY <1>1, <2>4, Zenon DEF ApartInv, OnDisk
  <2>7. \A s \in Live : disk'[s] = disk[s] /\ \A x \in Data(s) : disk'[x] = disk[x]
    BY <2>3, <2>5, <2>6
  <2>8. pc' = "dir_add" => \A x \in Extent(op'.start, op'.length) : disk'[x] = Zero
    BY <2>1, <2>3, <2>4
  <2> QED
    BY <1>2, <1>3, <2>2, <2>3, <2>7, <2>8, QuietMaps
<1> QED
  BY <1>4, <1>5, <1>6, <1>7

\* Nor do those that give sectors back, file_deny_write () and stuttering.
LEMMA HiddenStepsMap ==
  ASSUME CanCount, FsInv, FsInv', ContentInv,
         \/ create_undo \/ release_inode \/ release_data
         \/ \E h \in Handle : file_deny_write(h)
         \/ UNCHANGED vars
  PROVE  ContentInv' /\ UNCHANGED Store!vars
<1>1. UNCHANGED <<disk, root>>
  BY Zenon DEF create_undo, release_inode, release_data, file_deny_write, vars
<1>2. \A s \in Live : disk'[s] = disk[s] /\ \A x \in Data(s) : disk'[x] = disk[x]
  BY <1>1
<1>3. CASE create_undo \/ release_inode \/ release_data
  <2>1. files' = files /\ pc' \in {"idle", "release_data"}
    BY <1>3, GoIs DEF create_undo, release_inode, release_data, memVars
  <2>2. \A h \in Handle : files'[h].sector = files[h].sector
    BY <2>1
  <2> QED
    BY <1>1, <1>2, <2>1, <2>2, QuietMaps
<1>4. ASSUME NEW h \in Handle, file_deny_write(h) PROVE ContentInv' /\ UNCHANGED Store!vars
  <2>1. pc' = "idle" /\ files' = [files EXCEPT ![h].deny_write = TRUE]
    BY <1>4 DEF file_deny_write
  <2>2. files \in [Handle -> [sector : Sector \cup {None}, deny_write : BOOLEAN]]
    BY TypesAre DEF FsInv
  <2>3. \A g \in Handle : files'[g].sector = files[g].sector
    BY <2>1, <2>2
  <2> QED
    BY <1>1, <1>2, <2>1, <2>3, QuietMaps
<1>5. CASE UNCHANGED vars
  <2>1. UNCHANGED <<pc, op, files>>
    BY <1>5 DEF vars, memVars
  <2>2. /\ \A g \in Handle : files'[g].sector = files[g].sector
        /\ pc' = "dir_add" => \A x \in Extent(op'.start, op'.length) : disk'[x] = Zero
        /\ pc' \in {"create_data", "create_inode", "create_zeros", "dir_add"} =>
             op'.length \in Size
    BY <1>1, <2>1, Zenon DEF ContentInv
  <2> QED
    BY <1>1, <1>2, <2>2, QuietMaps, Zenon
<1> QED
  BY <1>3, <1>4, <1>5

\* dir_add () is where the file appears, or it does not show.
LEMMA DirAddMaps ==
  ASSUME CanCount, ReadsWhole, FsInv, FsInv', ContentInv, dir_add
  PROVE  ContentInv' /\ [Store!Next]_(Store!vars)
<1>1. /\ Types /\ OpInv /\ ApartInv /\ InodeInv
      /\ op.sector \in Sector /\ op.start \in Sector /\ op.length \in Size
      /\ root \in [1 .. SlotCnt -> [name : Name \cup {None}, sector : Sector]]
  BY TypesAre, Zenon DEF FsInv, ContentInv, dir_add
<1>2. /\ pc = "dir_add" /\ UNCHANGED <<disk, open_inodes, files>>
      /\ op.name \in Name /\ op.name # None
  BY <1>1, Constants, Zenon DEF dir_add, memVars, OpInv
<1>3. \A s \in Live : disk'[s] = disk[s] /\ \A x \in Data(s) : disk'[x] = disk[x]
  BY <1>2
<1>4. \A h \in Handle : files'[h].sector = files[h].sector
  BY <1>2
<1>5. CASE Go("create_undo", op) /\ UNCHANGED root
  <2>1. pc' = "create_undo"
    BY <1>5, GoIs
  <2> QED
    BY <1>3, <1>4, <1>5, <2>1, QuietMaps, Zenon
<1>6. ASSUME NEW i \in ScanStops \cap (1 .. SlotCnt), Missing(op.name),
             root' = [root EXCEPT ![i] = [name |-> op.name, sector |-> op.sector]],
             Go("idle", NoOp)
      PROVE  ContentInv' /\ Store!Next
  <2>1. PICK n \in Name, t \in Sector, k \in Size, a \in Sector :
          n = op.name /\ t = op.sector /\ k = op.length /\ a = op.start
    BY <1>1, <1>2
  <2>2. pc' = "idle" /\ root[i].name = None /\ Entries(n) = {} /\ i \in 1 .. SlotCnt
    BY <1>1, <1>6, <2>1, GoIs, StopsAtFree DEF Missing, ReadsWhole
  <2>3. /\ DOMAIN root' = 1 .. SlotCnt /\ root'[i].name = n /\ root'[i].sector = t
        /\ \A j \in 1 .. SlotCnt : j # i => root'[j] = root[j]
    BY <1>1, <1>6, <2>1, <2>2, Zenon
  <2>4. NameOf(n) = None /\ NameOf(n)' = t
    <3>1. i \in Entries(n)'
      BY <2>2, <2>3 DEF Entries
    <3> QED
      BY <2>2, <2>3, <3>1, NameIs, NameWas, Zenon
  <2>5. ASSUME NEW m \in Name, m # n PROVE NameOf(m)' = NameOf(m)
    <3>1. m # None
      BY Constants
    <3>2. \A j : j \in Entries(m)' <=> j \in Entries(m)
      BY <1>1, <2>2, <2>3, <2>5, <3>1 DEF Entries
    <3>3. CASE Entries(m) = {}
      BY <3>2, <3>3, NameIs, NameWas, Zenon
    <3>4. ASSUME NEW j \in Entries(m) PROVE NameOf(m)' = NameOf(m)
      <4>1. j \in 1 .. SlotCnt /\ j # i
        BY <1>1, <2>2, <3>1, <3>4 DEF Entries
      <4>2. root'[j] = root[j] /\ j \in Entries(m)'
        BY <2>3, <3>2, <3>4, <4>1, Zenon
      <4>3. NameOf(m) = root[j].sector /\ NameOf(m)' = root'[j].sector
        BY <3>4, <4>2, NameIs, NameWas, Zenon
      <4> QED
        BY <4>2, <4>3
    <3> QED
      BY <3>3, <3>4, Zenon
  <2>6. \A s \in Sector : Reached(s)' <=> Reached(s) \/ s = t
    <3>1. ASSUME NEW s \in Sector PROVE
            (\E m \in Name : NameOf(m)' = s) <=> (\E m \in Name : NameOf(m) = s) \/ s = t
      <4>1. s # None
        BY Constants
      <4> QED
        BY <2>4, <2>5, <4>1, Zenon
    <3> QED
      BY <1>4, <3>1, Zenon DEF Reached
  <2>7. disk[t] = [start |-> a, length |-> k]
    BY <1>1, <1>2, <2>1, Zenon DEF OpInv
  <2>8. Data(t) = Extent(a, k) /\ Data(t)' = Data(t) /\ disk[t].start = a /\ disk[t].length = k
    <3>1. disk[t].start = a /\ disk[t].length = k
      BY <2>7
    <3>2. disk' = disk
      BY <1>2, Zenon
    <3> QED
      BY <3>1, <3>2, Zenon DEF Data, Extent
  <2>9. t \notin Live /\ t \in Live'
    <3>1. t \in InOp
      BY <1>2, <2>1, InOpIs
    <3>2. t \notin Live
      BY <1>1, <3>1 DEF ApartInv, OnDisk
    <3> QED
      BY <2>6, <3>2, LiveWasReached, Zenon
  <2>10. \A s \in Live' : s # t => s \in Live
    BY <2>6, LiveReached, LiveWasReached, Zenon
  <2>11. \A s \in Live : s \in Live' /\ s # t
    BY <2>6, <2>9, LiveReached, LiveWasReached, Zenon
  <2>12. \A x \in Data(t) : disk[x] = Zero
    BY <1>2, <2>1, <2>8, Zenon DEF ContentInv
  <2>13. ContentInv'
    <3>1. ASSUME NEW s \in Live', NEW x \in Data(s)' PROVE disk'[x] \in Val \cup {Zero}
      <4>1. CASE s = t
        BY <1>2, <2>8, <2>12, <4>1
      <4>2. CASE s # t
        BY <1>2, <2>10, <3>1, <4>2, Zenon DEF ContentInv, Data, Extent
      <4> QED
        BY <4>1, <4>2
    <3> QED
      BY <2>2, <3>1, Zenon DEF ContentInv
  <2>14. StoreNames[n] = None /\ StoreNames' = [StoreNames EXCEPT ![n] = t]
    BY <2>4, <2>5, Zenon DEF StoreNames
  <2>15. StoreOpened' = StoreOpened
    BY <1>2 DEF StoreOpened
  <2>16. StoreContent[t] = None
    BY <2>9 DEF StoreContent
  <2>17. StoreContent'[t] = [b \in 1 .. k |-> Zero]
    <3>1. StoreContent'[t] = DiskBlocks(t)'
      BY <2>9, BlocksWere DEF StoreContent
    <3>2. DiskBlocks(t)' = [b \in 1 .. k |-> disk[a + b - 1]]
      BY <1>2, <2>8 DEF DiskBlocks
    <3>3. k \in Nat /\ a \in Nat
      BY Constants DEF Length
    <3>4. \A b \in 1 .. k : a + b - 1 \in Extent(a, k)
      BY <3>3 DEF Extent
    <3> QED
      <4>1. Data(t) = Extent(a, k)
        BY <2>8, Zenon DEF Data
      <4>2. \A b \in 1 .. k : disk[a + b - 1] = Zero
        BY <2>12, <3>4, <4>1, Zenon
      <4> QED
        BY <3>1, <3>2, <4>2
  <2>18. ASSUME NEW s \in Sector, s # t PROVE StoreContent'[s] = StoreContent[s]
    <3>1. CASE s \in Live
      <4>1. Blocks(s) = DiskBlocks(s) /\ Blocks(s)' = DiskBlocks(s)' /\ s \in Live'
        BY <2>11, <3>1, BlocksAre, BlocksWere, Zenon
      <4>2. DiskBlocks(s)' = DiskBlocks(s)
        BY <1>3, <3>1, SameBlocks
      <4> QED
        BY <3>1, <4>1, <4>2 DEF StoreContent
    <3>2. CASE s \notin Live
      BY <2>10, <2>18, <3>2 DEF StoreContent
    <3> QED
      BY <3>1, <3>2
  <2>19. StoreContent' = [StoreContent EXCEPT ![t] = [b \in 1 .. k |-> Zero]]
    <3>1. /\ StoreContent = [s \in Sector |-> StoreContent[s]]
          /\ StoreContent' = [s \in Sector |-> StoreContent'[s]]
      BY DEF StoreContent
    <3> QED
      BY <2>17, <2>18, <3>1
  <2>20. Store!Create(n, t, k)
    BY <2>14, <2>15, <2>16, <2>19, Zenon
       DEF Store!Create, StoreNames, StoreOpened, StoreContent, NameOf
  <2> QED
    BY <2>13, <2>20, Zenon DEF Store!Next
<1> QED
  BY <1>5, <1>6, Zenon DEF dir_add

\* filesys_remove () is Remove.
LEMMA RemoveMaps ==
  ASSUME CanCount, FsInv, FsInv', ContentInv, NEW n \in Name, filesys_remove(n)
  PROVE  ContentInv' /\ Store!Next
<1>1. /\ Types /\ EntryInv
      /\ root \in [1 .. SlotCnt -> [name : Name \cup {None}, sector : Sector]]
  BY TypesAre DEF FsInv
<1>2. PICK e \in Entries(n) : e = Lowest(Entries(n))
  <2>1. Entries(n) \subseteq Nat
    BY <1>1, FileSysAssumption DEF Entries
  <2>2. Entries(n) # {}
    BY DEF filesys_remove
  <2> QED
    BY <2>1, <2>2, LowestIs
<1>3. e \in 1 .. SlotCnt /\ root[e].name = n /\ n # None
  BY <1>1, Constants DEF Entries
<1>4. root' = [root EXCEPT ![e] = FreeEntry] /\ UNCHANGED <<disk, files>>
  BY <1>2, Zenon DEF filesys_remove
<1>5. pc' \in {"idle", "release_inode"}
  BY ReleaseAfterIs, Zenon DEF filesys_remove
<1>6. /\ DOMAIN root' = 1 .. SlotCnt /\ root'[e].name = None
      /\ \A k \in 1 .. SlotCnt : k # e => root'[k] = root[k]
  BY <1>1, <1>3, <1>4, Zenon DEF FreeEntry
<1>7. NameOf(n) # None /\ NameOf(n)' = None
  <2>1. NameOf(n) = root[e].sector
    BY NameIs, Zenon
  <2>2. \A k \in 1 .. SlotCnt : root[k].name = n => k = e
    BY <1>1, <1>3 DEF EntryInv
  <2>3. Entries(n)' = {}
    BY <1>3, <1>6, <2>2 DEF Entries
  <2> QED
    BY <1>1, <1>3, <2>1, <2>3, NameWas, Constants, Zenon
<1>8. ASSUME NEW m \in Name, m # n PROVE NameOf(m)' = NameOf(m)
  <2>1. m # None
    BY Constants
  <2>2. \A j : j \in Entries(m)' <=> j \in Entries(m)
    BY <1>1, <1>3, <1>6, <1>8, <2>1 DEF Entries
  <2>3. CASE Entries(m) = {}
    BY <2>2, <2>3, NameIs, NameWas, Zenon
  <2>4. ASSUME NEW j \in Entries(m) PROVE NameOf(m)' = NameOf(m)
    <3>1. j \in 1 .. SlotCnt /\ j # e
      BY <1>1, <1>3, <1>8, <2>4 DEF Entries
    <3>2. root'[j] = root[j] /\ j \in Entries(m)'
      BY <1>6, <2>2, <2>4, <3>1, Zenon
    <3>3. NameOf(m) = root[j].sector /\ NameOf(m)' = root'[j].sector
      BY <2>4, <3>2, NameIs, NameWas, Zenon
    <3> QED
      BY <3>2, <3>3
  <2> QED
    BY <2>3, <2>4, Zenon
<1>9. \A s \in Sector : Reached(s)' => Reached(s)
  <2>1. \A s \in Sector : s # None
    BY Constants
  <2>2. \A h \in Handle : files'[h].sector = files[h].sector
    BY <1>4
  <2> QED
    BY <1>7, <1>8, <2>1, <2>2, Zenon DEF Reached
<1>10. \A s \in Live : disk'[s] = disk[s] /\ \A x \in Data(s) : disk'[x] = disk[x]
  BY <1>4
<1>11. ContentInv'
  <2>1. \A s \in Live' : \A x \in Data(s)' : disk'[x] \in Val \cup {Zero}
    BY <1>9, <1>10, DropMaps, Zenon
  <2> QED
    BY <1>5, <2>1, Zenon DEF ContentInv
<1>12. StoreNames[n] # None /\ StoreNames' = [StoreNames EXCEPT ![n] = None]
  BY <1>7, <1>8, Zenon DEF StoreNames
<1>13. StoreOpened' = StoreOpened
  BY <1>4 DEF StoreOpened
<1>14. StoreContent' = Store!Kept(StoreNames', StoreOpened)
  BY <1>9, <1>10, <1>13, KeptIs, Zenon
<1>15. Store!Remove(n)
  BY <1>12, <1>13, <1>14, Zenon DEF Store!Remove, StoreNames, StoreOpened, StoreContent, NameOf
<1> QED
  BY <1>11, <1>15, Zenon DEF Store!Next

\* file_open () is Open.
LEMMA OpenMaps ==
  ASSUME CanCount, FsInv, FsInv', ContentInv, NEW h \in Handle, NEW s \in Live, OpenAt(h, s)
  PROVE  ContentInv' /\ Store!Next
<1>1. /\ Types /\ s \in Sector
      /\ files \in [Handle -> [sector : Sector \cup {None}, deny_write : BOOLEAN]]
  BY TypesAre, Zenon DEF FsInv, InodeInv
<1>2. /\ files[h] = NoFile /\ files' = [files EXCEPT ![h] = [NoFile EXCEPT !.sector = s]]
      /\ UNCHANGED <<disk, root, pc>> /\ pc' = "idle"
  BY DEF OpenAt
<1>3. /\ files[h].sector = None /\ files'[h].sector = s
      /\ \A g \in Handle : g # h => files'[g].sector = files[g].sector
  BY <1>1, <1>2 DEF NoFile
<1>4. \A n : NameOf(n)' = NameOf(n)
  BY <1>2, Zenon DEF NameOf, Entries
<1>5. Reached(s)
  BY LiveReached, Zenon
<1>6. \A t \in Sector : Reached(t)' => Reached(t)
  BY <1>3, <1>4, <1>5, Zenon DEF Reached
<1>7. \A t \in Sector : Reached(t) => Reached(t)'
  <2>1. \A t \in Sector : t # None
    BY Constants
  <2> QED
    BY <1>3, <1>4, <2>1, Zenon DEF Reached
<1>8. \A t \in Live : disk'[t] = disk[t] /\ \A x \in Data(t) : disk'[x] = disk[x]
  BY <1>2
<1>9. /\ \A t \in Live' : \A x \in Data(t)' : disk'[x] \in Val \cup {Zero}
      /\ \A t \in Sector : StoreContent'[t] = IF Reached(t)' THEN StoreContent[t] ELSE None
  BY <1>6, <1>8, DropMaps, Zenon
<1>10. ContentInv'
  BY <1>2, <1>9, Zenon DEF ContentInv
<1>11. \A t \in Sector : StoreContent'[t] = StoreContent[t]
  <2> SUFFICES ASSUME NEW t \in Sector, ~Reached(t) PROVE StoreContent[t] = None
    BY <1>6, <1>7, <1>9, Zenon
  <2> QED
    BY LiveReached DEF StoreContent
<1>12. StoreContent' = StoreContent
  <2>1. /\ StoreContent = [t \in Sector |-> StoreContent[t]]
        /\ StoreContent' = [t \in Sector |-> StoreContent'[t]]
    BY DEF StoreContent
  <2> QED
    BY <1>11, <2>1
<1>13. StoreNames' = StoreNames
  BY <1>4 DEF StoreNames
<1>14. StoreOpened[h] = None /\ StoreOpened' = [StoreOpened EXCEPT ![h] = s]
  BY <1>3, Zenon DEF StoreOpened
<1>15. StoreContent[s] # None
  <2>1. PICK k \in Length : k = disk[s].length
    BY BlockPlaces, Zenon
  <2>2. StoreContent[s] = DiskBlocks(s)
    BY <1>1, BlocksAre DEF StoreContent
  <2>3. \A b \in 1 .. disk[s].length : disk[disk[s].start + b - 1] \in Val \cup {Zero}
    BY BlockPlaces, Zenon DEF ContentInv
  <2>4. DiskBlocks(s) \in [1 .. k -> Val \cup {Zero}]
    BY <2>1, <2>3 DEF DiskBlocks
  <2> QED
    BY <2>1, <2>2, <2>4, FileSysAssumption, Zenon DEF Length
<1>16. Store!Open(h, s)
  BY <1>12, <1>13, <1>14, <1>15, Zenon
     DEF Store!Open, StoreNames, StoreOpened, StoreContent, NameOf
<1> QED
  BY <1>1, <1>10, <1>16, Zenon DEF Store!Next

\* file_close () is Close, and a restart is Crash.
LEMMA CloseMaps ==
  ASSUME CanCount, FsInv, FsInv', ContentInv, (\E h \in Handle : file_close(h)) \/ Restart
  PROVE  ContentInv' /\ Store!Next
<1>1. /\ Types /\ FileInv
      /\ files \in [Handle -> [sector : Sector \cup {None}, deny_write : BOOLEAN]]
  BY TypesAre DEF FsInv
<1>2. UNCHANGED <<disk, root>>
  BY Zenon DEF file_close, Restart
<1>3. \A n : NameOf(n)' = NameOf(n)
  BY <1>2, Zenon DEF NameOf, Entries
<1>4. \A s \in Live : disk'[s] = disk[s] /\ \A x \in Data(s) : disk'[x] = disk[x]
  BY <1>2
<1>5. StoreNames' = StoreNames
  BY <1>3 DEF StoreNames
<1>6. pc' \in {"idle", "release_inode"}
  <2>1. CASE Restart
    BY <2>1, GoIs DEF Restart
  <2>2. ASSUME NEW h \in Handle, file_close(h) PROVE pc' \in {"idle", "release_inode"}
    BY <2>2, ReleaseAfterIs, Zenon DEF file_close
  <2> QED
    BY <2>1, <2>2
<1>7. NoFile.sector = None /\ \A s \in Sector : s # None
  BY Constants DEF NoFile
<1>8. ASSUME \A h \in Handle : files'[h].sector \in {files[h].sector, None}
      PROVE  ContentInv' /\ StoreContent' = Store!Kept(StoreNames', StoreOpened')
  <2>1. \A s \in Sector : Reached(s)' => Reached(s)
    BY <1>3, <1>7, <1>8, Zenon DEF Reached
  <2>2. \A s \in Live' : \A x \in Data(s)' : disk'[x] \in Val \cup {Zero}
    BY <1>4, <2>1, DropMaps, Zenon
  <2>3. ContentInv'
    BY <1>6, <2>2, Zenon DEF ContentInv
  <2> QED
    BY <1>4, <2>1, <2>3, KeptIs, Zenon
<1>9. ASSUME NEW h \in Handle, file_close(h) PROVE ContentInv' /\ Store!Next
  <2>1. files' = [files EXCEPT ![h] = NoFile] /\ files[h] # NoFile
    BY <1>9, Zenon DEF file_close
  <2>2. files'[h].sector = None /\ \A g \in Handle : g # h => files'[g].sector = files[g].sector
    BY <1>1, <1>7, <2>1
  <2>3. ContentInv' /\ StoreContent' = Store!Kept(StoreNames', StoreOpened')
    BY <1>8, <2>2
  <2>4. StoreOpened[h] # None /\ StoreOpened' = [StoreOpened EXCEPT ![h] = None]
    BY <1>1, <2>1, <2>2, Zenon DEF StoreOpened, FileInv
  <2>5. StoreContent' = Store!Kept(StoreNames, StoreOpened')
    BY <1>5, <2>3
  <2>6. Store!Close(h)
    BY <1>5, <2>4, <2>5, Zenon DEF Store!Close, StoreNames, StoreOpened, StoreContent, NameOf
  <2> QED
    BY <2>3, <2>6, Zenon DEF Store!Next
<1>10. CASE Restart
  <2>1. files' = [h \in Handle |-> NoFile]
    BY <1>10 DEF Restart
  <2>2. \A h \in Handle : files'[h].sector = None
    BY <1>7, <2>1
  <2>3. ContentInv' /\ StoreContent' = Store!Kept(StoreNames', StoreOpened')
    BY <1>8, <2>2
  <2>4. StoreOpened' = [h \in Handle |-> None]
    BY <2>2 DEF StoreOpened
  <2>5. StoreContent' = Store!Kept(StoreNames, StoreOpened')
    BY <1>5, <2>3
  <2>6. Store!Crash
    BY <1>5, <2>4, <2>5, Zenon DEF Store!Crash, StoreNames, StoreOpened, StoreContent, NameOf
  <2> QED
    BY <2>3, <2>6, Zenon DEF Store!Next
<1> QED
  BY <1>9, <1>10

\* inode_write_at () is Write.
LEMMA WriteMaps ==
  ASSUME CanCount, FsInv, FsInv', ContentInv, NEW h \in Handle, NEW i \in Sector, NEW v \in Val,
         inode_write_at(h, i, v)
  PROVE  ContentInv' /\ Store!Next
<1>1. /\ Types /\ InodeInv /\ ApartInv /\ CountsExact /\ FileInv
      /\ open_inodes \in [Sector -> InodeType]
      /\ files \in [Handle -> [sector : Sector \cup {None}, deny_write : BOOLEAN]]
  BY TypesAre DEF FsInv, InodeType
<1>2. /\ pc' = "idle" /\ files[h] # NoFile /\ files[h].sector \in Sector
      /\ UNCHANGED <<root, files, open_inodes>>
  BY <1>1 DEF inode_write_at, FileInv, memVars
<1>3. PICK s \in Sector : s = files[h].sector
  BY <1>2
<1>4. IsOpen(s) /\ s \in Live /\ s # None
  BY <1>1, <1>2, <1>3, OpenerOpen, Constants
<1>5. PICK a \in Nat, k \in Length : a = disk[s].start /\ k = disk[s].length /\ k \in Nat
  BY <1>4, BlockPlaces, Zenon
<1>6. open_inodes[s].start = a /\ open_inodes[s].length = k
  BY <1>1, <1>4, <1>5, Zenon DEF InodeInv
<1>7. i < k /\ disk' = [disk EXCEPT ![a + i] = v]
  BY <1>3, <1>6, Zenon DEF inode_write_at
<1>8. i \in Nat /\ k \in Size /\ i + 1 \in 1 .. k
  <2>1. i \in Nat /\ k \in Nat
    BY <1>5, Constants, Zenon
  <2>2. k \in Size
    BY <1>7, <2>1 DEF Length
  <2> QED
    BY <1>7, <2>1, <2>2
<1>9. Data(s) = a .. a + k - 1 /\ a + i \in Data(s)
  BY <1>5, <1>7, <1>8 DEF Data, Extent
<1>10. Data(s) \subseteq Sector /\ s \notin Data(s) /\ DOMAIN disk = Sector
  BY <1>1, <1>4, Zenon DEF InodeInv, Types
<1>11. disk'[s] = disk[s] /\ disk'[a + i] = v
  BY <1>7, <1>9, <1>10
<1>12. \A x \in Data(s) : x # a + i => disk'[x] = disk[x]
  BY <1>7, <1>10
<1>13. ASSUME NEW t \in Live, t # s
       PROVE  disk'[t] = disk[t] /\ \A x \in Data(t) : disk'[x] = disk[x]
  <2>1. a + i \notin OnDisk(t)
    BY <1>1, <1>4, <1>9, <1>13, Zenon DEF ApartInv, OnDisk
  <2> QED
    BY <1>7, <2>1 DEF OnDisk
<1>14. \A t \in Live : disk'[t] = disk[t]
  BY <1>11, <1>13, Zenon
<1>15. Live' = Live /\ \A t \in Live : Data(t)' = Data(t)
  BY <1>2, <1>14, SameLive, Zenon DEF Data, Extent
<1>16. ContentInv'
  <2>1. ASSUME NEW t \in Live', NEW x \in Data(t)' PROVE disk'[x] \in Val \cup {Zero}
    <3>1. t \in Live /\ x \in Data(t)
      BY <1>15, <2>1
    <3>2. disk[x] \in Val \cup {Zero}
      BY <3>1 DEF ContentInv
    <3>3. disk'[x] \in {v, disk[x]}
      BY <1>11, <1>12, <1>13, <3>1, Zenon
    <3> QED
      BY <3>2, <3>3, Zenon
  <2> QED
    BY <1>2, <2>1, Zenon DEF ContentInv
<1>17. StoreNames' = StoreNames /\ StoreOpened' = StoreOpened
  BY <1>2, Zenon DEF StoreNames, StoreOpened, NameOf, Entries
<1>18. StoreContent[s] = [b \in 1 .. k |-> disk[a + b - 1]]
  <2>1. StoreContent[s] = DiskBlocks(s)
    BY <1>4, BlocksAre DEF StoreContent
  <2> QED
    BY <1>5, <2>1, Zenon DEF DiskBlocks
<1>19. StoreContent'[s] = [b \in 1 .. k |-> disk'[a + b - 1]]
  <2>1. StoreContent'[s] = DiskBlocks(s)'
    BY <1>4, <1>15, BlocksWere DEF StoreContent
  <2> QED
    BY <1>5, <1>11, <2>1, Zenon DEF DiskBlocks
<1>20. StoreContent'[s] = [StoreContent[s] EXCEPT ![i + 1] = v]
  <2>1. ASSUME NEW b \in 1 .. k, b # i + 1 PROVE disk'[a + b - 1] = disk[a + b - 1]
    <3>1. b \in Nat /\ a + b - 1 \in a .. a + k - 1 /\ a + b - 1 # a + i
      BY <1>5, <1>8, <2>1
    <3>2. a + b - 1 \in Data(s)
      BY <1>9, <3>1
    <3> QED
      BY <1>12, <3>1, <3>2
  <2>2. a + (i + 1) - 1 = a + i
    BY <1>5, <1>8
  <2>3. disk'[a + (i + 1) - 1] = v
    BY <1>11, <2>2
  <2>4. PICK c, d : c = StoreContent[s] /\ d = StoreContent'[s]
    OBVIOUS
  <2>5. /\ DOMAIN c = 1 .. k /\ c = [b \in 1 .. k |-> c[b]]
        /\ DOMAIN d = 1 .. k /\ d = [b \in 1 .. k |-> d[b]]
        /\ \A b \in 1 .. k : c[b] = disk[a + b - 1] /\ d[b] = disk'[a + b - 1]
    BY <1>18, <1>19, <2>4, Zenon
  <2>6. \A b \in 1 .. k : b # i + 1 => d[b] = c[b]
    BY <2>1, <2>5, Zenon
  <2>7. d[i + 1] = v
    BY <1>8, <2>3, <2>5
  <2>8. d = [c EXCEPT ![i + 1] = v]
    BY <2>5, <2>6, <2>7, Zenon
  <2> QED
    BY <2>4, <2>8, Zenon
<1>21. ASSUME NEW t \in Sector, t # s PROVE StoreContent'[t] = StoreContent[t]
  <2>1. CASE t \in Live
    <3>1. Blocks(t) = DiskBlocks(t) /\ Blocks(t)' = DiskBlocks(t)' /\ t \in Live'
      BY <1>15, <2>1, BlocksAre, BlocksWere, Zenon
    <3>2. DiskBlocks(t)' = DiskBlocks(t)
      BY <1>13, <1>21, <2>1, SameBlocks, Zenon
    <3> QED
      BY <2>1, <3>1, <3>2 DEF StoreContent
  <2>2. CASE t \notin Live
    BY <1>15, <2>2 DEF StoreContent
  <2> QED
    BY <2>1, <2>2
<1>22. StoreContent' = [StoreContent EXCEPT ![s] = [StoreContent[s] EXCEPT ![i + 1] = v]]
  <2>1. /\ StoreContent = [t \in Sector |-> StoreContent[t]]
        /\ StoreContent' = [t \in Sector |-> StoreContent'[t]]
    BY DEF StoreContent
  <2> QED
    BY <1>20, <1>21, <2>1
<1>23. StoreOpened[h] = s
  BY <1>3 DEF StoreOpened
<1>24. DOMAIN StoreContent[s] = 1 .. k
  BY <1>18
<1>25. StoreContent' = [StoreContent EXCEPT ![StoreOpened[h]][i + 1] = v]
  BY <1>22, <1>23
<1>26. StoreOpened[h] # None /\ i + 1 \in DOMAIN StoreContent[StoreOpened[h]]
  BY <1>4, <1>8, <1>23, <1>24, Zenon
<1>27. Store!Write(h, i + 1, v)
  BY <1>17, <1>25, <1>26, Zenon
     DEF Store!Write, StoreNames, StoreOpened, StoreContent, NameOf
<1> QED
  BY <1>8, <1>16, <1>27, Zenon DEF Store!Next

\* A formatted disk has no files, for FileStore either.
LEMMA InitMaps == Init => ContentInv /\ Store!Init
<1> SUFFICES ASSUME Init PROVE ContentInv /\ Store!Init
  OBVIOUS
<1>1. /\ root = [i \in 1 .. SlotCnt |-> FreeEntry] /\ files = [h \in Handle |-> NoFile]
      /\ open_inodes = [s \in Sector |-> NoInode] /\ pc = "idle"
  BY DEF Init
<1>2. FreeEntry.name = None /\ NoFile.sector = None /\ NoInode.open_cnt = 0
  BY Zenon DEF FreeEntry, NoFile, NoInode
<1>3. \A n \in Name : Entries(n) = {}
  BY <1>1, <1>2, Constants DEF Entries
<1>4. Linked = {}
  BY <1>1, <1>2, Zenon DEF Linked
<1>5. Live = {}
  <2>1. \A s \in Sector : open_inodes[s].open_cnt = 0
    BY <1>1, <1>2, Zenon
  <2>2. \A s \in Sector : ~(open_inodes[s].open_cnt > 0)
    BY <2>1
  <2> QED
    BY <1>4, <2>2, Zenon DEF Live
<1>6. ContentInv
  BY <1>1, <1>5 DEF ContentInv
<1>7. StoreNames = [n \in Name |-> None]
  BY <1>3 DEF StoreNames, NameOf
<1>8. StoreOpened = [h \in Handle |-> None]
  BY <1>1, <1>2, Zenon DEF StoreOpened
<1>9. StoreContent = [s \in Sector |-> None]
  BY <1>5 DEF StoreContent
<1> QED
  BY <1>6, <1>7, <1>8, <1>9, Zenon
     DEF Store!Init, StoreNames, StoreOpened, StoreContent, NameOf

\* Every step is a step of FileStore or does not show.
LEMMA StepMaps ==
  ASSUME CanCount, ReadsWhole, FsInv, FsInv', ContentInv, [Next]_vars
  PROVE  ContentInv' /\ [Store!Next]_(Store!vars)
<1>1. CASE \/ \E n \in Name, k \in Size : filesys_create(n, k)
           \/ inode_create \/ inode_create_write \/ inode_create_zeros
  BY <1>1, CreateStepsMap
<1>2. CASE \/ create_undo \/ release_inode \/ release_data
           \/ \E h \in Handle : file_deny_write(h)
           \/ UNCHANGED vars
  BY <1>2, HiddenStepsMap
<1>3. CASE dir_add
  BY <1>3, DirAddMaps
<1>4. ASSUME NEW n \in Name, filesys_remove(n) PROVE ContentInv' /\ Store!Next
  BY <1>4, RemoveMaps
<1>5. ASSUME NEW h \in Handle, NEW n \in Name, filesys_open(h, n) PROVE ContentInv' /\ Store!Next
  <2>1. Entries(n) # {} /\ OpenAt(h, NameOf(n))
    BY <1>5 DEF filesys_open, NameOf
  <2>2. NameOf(n) \in Sector
    <3>1. PICK e : e \in Entries(n)
      BY <2>1
    <3>2. NameOf(n) = root[e].sector /\ Types
      BY <3>1, NameIs, Zenon DEF FsInv
    <3> QED
      BY <3>1, <3>2, TypesAre, Zenon DEF Entries
  <2>3. NameOf(n) \in Live
    BY <2>2, LiveReached, Zenon DEF Reached
  <2> QED
    BY <2>1, <2>3, OpenMaps, Zenon
<1>6. ASSUME NEW h \in Handle, NEW g \in Handle, file_reopen(h, g)
      PROVE  ContentInv' /\ Store!Next
  <2>1. files[g].sector \in Sector /\ CountsExact /\ OpenAt(h, files[g].sector)
    BY <1>6, TypesAre, Zenon DEF file_reopen, FsInv, FileInv
  <2>2. files[g].sector \in Live
    BY <2>1, OpenerOpen
  <2> QED
    BY <2>1, <2>2, OpenMaps, Zenon
<1>7. CASE (\E h \in Handle : file_close(h)) \/ Restart
  BY <1>7, CloseMaps
<1>8. ASSUME NEW h \in Handle, NEW i \in Sector, NEW v \in Val, inode_write_at(h, i, v)
      PROVE  ContentInv' /\ Store!Next
  BY <1>8, WriteMaps
<1> QED
  BY <1>1, <1>2, <1>3, <1>4, <1>5, <1>6, <1>7, <1>8, Zenon DEF Next

-----------------------------------------------------------------------------
(* There are finitely many handles, so sets of them can be counted.  The   *)
(* theorems about cardinalities are instantiated here, where they are      *)
(* used; as that gives Cardinality and IsFiniteSet a second meaning, what  *)
(* both abbreviate links the two.                                          *)

\* What Cardinality(S) abbreviates.
CountOf(S) ==
  LET CS[T \in SUBSET S] == IF T = {} THEN 0 ELSE 1 + CS[T \ {CHOOSE x : x \in T}]
  IN  CS[S]

\* The cardinalities in the model count.
LEMMA ModelCounts == \A S : Cardinality(S) = CountOf(S)
BY Zenon DEF Cardinality, CountOf

\* There is a list of all handles.
LEMMA HandlesListed ==
  \E s \in Seq(Handle) : \A h \in Handle : \E n \in 1 .. Len(s) : s[n] = h
BY FileSysAssumption DEF IsFiniteSet

\* Counting follows from its laws for CountOf.
LEMMA CountingLaws ==
  ASSUME \A T \in SUBSET Nat : T # {} => \E x \in T : \A y \in T : x <= y,
         CountOf({}) = 0,
         \A T \in SUBSET Handle :
           /\ CountOf(T) \in Nat /\ (CountOf(T) = 0 => T = {})
           /\ \A h \in Handle : h \notin T => CountOf(T \cup {h}) = CountOf(T) + 1
           /\ \A h \in T : CountOf(T \ {h}) = CountOf(T) - 1
  PROVE  CanCount
BY ModelCounts, Zenon DEF CanCount

LOCAL INSTANCE FiniteSetTheorems

LOCAL INSTANCE WellFoundedInduction

\* The cardinalities of FiniteSetTheorems count too.
LEMMA LibraryCounts == \A S : Cardinality(S) = CountOf(S)
BY Zenon DEF Cardinality, CountOf

\* A set of numbers that is not empty has a least element.
LEMMA LeastNumber ==
  ASSUME NEW T, T \subseteq Nat, T # {}
  PROVE  \E x \in T : \A y \in T : x <= y
<1> DEFINE R == OpToRel(<, Nat)
<1>1. \A x, y \in Nat : y < x => <<y, x>> \in R
  BY DEF OpToRel
<1> HIDE DEF R
<1>2. IsWellFoundedOn(R, Nat)
  BY NatLessThanWellFounded, Zenon DEF R
<1>3. PICK x \in T : \A y \in T : ~(<<y, x>> \in R)
  BY <1>2, WFMin, Zenon
<1>4. \A y \in T : ~(y < x)
  BY <1>1, <1>3, Zenon
<1> QED
  BY <1>4

\* Sets of handles can be counted, however many handles there are.
LEMMA HandlesCounted == CanCount
<1>1. ASSUME NEW T \in SUBSET Handle
      PROVE  /\ CountOf(T) \in Nat /\ (CountOf(T) = 0 => T = {})
             /\ \A h \in Handle : h \notin T => CountOf(T \cup {h}) = CountOf(T) + 1
             /\ \A h \in T : CountOf(T \ {h}) = CountOf(T) - 1
  <2>1. IsFiniteSet(Handle)
    BY HandlesListed DEF IsFiniteSet
  <2>2. IsFiniteSet(T)
    BY <2>1, FS_Subset, Zenon
  <2>3. Cardinality(T) \in Nat /\ (Cardinality(T) = 0 => T = {})
    BY <2>2, FS_CardinalityType, FS_EmptySet, Zenon
  <2>4. \A h \in Handle : h \notin T => Cardinality(T \cup {h}) = Cardinality(T) + 1
    BY <2>2, FS_AddElement
  <2>5. \A h \in T : Cardinality(T \ {h}) = Cardinality(T) - 1
    BY <2>2, FS_RemoveElement
  <2> QED
    BY <2>3, <2>4, <2>5, LibraryCounts, Zenon
<1>2. CountOf({}) = 0
  BY FS_EmptySet, LibraryCounts, Zenon
<1>3. \A T \in SUBSET Nat : T # {} => \E x \in T : \A y \in T : x <= y
  BY LeastNumber, Zenon
<1> QED
  BY <1>1, <1>2, <1>3, CountingLaws, Zenon

-----------------------------------------------------------------------------
(* The theorems.                                                           *)

\* The invariant holds at every step, whatever fails but the directory's reads.
THEOREM FileSysInvariance ==
  ASSUME ReadsWhole
  PROVE  Spec => []FsInv
<1>1. Init => FsInv
  BY InitHolds, HandlesCounted, Zenon
<1>2. FsInv /\ [Next]_vars => FsInv'
  BY StepKeeps, HandlesCounted, Zenon
<1> QED
  BY <1>1, <1>2, PTL DEF Spec

\* What free_map, the inodes and the directory say agrees at every step: every sector
\* is free, reserved, lost, or of exactly one file or call, the counts of an open
\* inode are right, and free_map_release () only clears bits that are set.
THEOREM MetadataAlwaysConsistent ==
  ASSUME ReadsWhole
  PROVE  Spec => []MetadataConsistent
BY FileSysInvariance, InvariantMeans, PTL

\* A crash at any moment finds the sectors of every named file marked on disk.
THEOREM AlwaysCrashSafe ==
  ASSUME ReadsWhole
  PROVE  Spec => []CrashSafe
BY FileSysInvariance, InvariantMeans, PTL

\* dir_add () never writes over an entry, as its comment says, when reads do not
\* fall short.
THEOREM EntriesAlwaysKept ==
  ASSUME ReadsWhole
  PROVE  Spec => EntriesKept
<1>1. FsInv /\ [Next]_vars => [EntryStep]_vars
  BY EntryStays, HandlesCounted, Zenon
<1>2. Spec => [][EntryStep]_vars
  BY <1>1, FileSysInvariance, PTL DEF Spec
<1> QED
  BY <1>2 DEF EntriesKept, EntryStep

\* The file system implements FileStore: every call takes effect at one step, for
\* good, whatever else is in progress and whenever the machine stops.
THEOREM FileSysRefinesFileStore ==
  ASSUME ReadsWhole
  PROVE  Spec => ImplementsFileStore
<1>1. FsInv /\ FsInv' /\ ContentInv /\ [Next]_vars => ContentInv' /\ [Store!Next]_(Store!vars)
  BY StepMaps, HandlesCounted, Zenon
<1>2. Init => ContentInv /\ Store!Init
  BY InitMaps
<1> QED
  BY <1>1, <1>2, FileSysInvariance, PTL DEF Spec, ImplementsFileStore, Store!Spec
=============================================================================

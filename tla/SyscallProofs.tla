---------------------------- MODULE SyscallProofs ----------------------------
(***************************************************************************)
(* What Syscall promises, proved for any number of processes, descriptors, *)
(* files and inodes.                                                       *)
(***************************************************************************)
EXTENDS Syscall, KernelListProofs

-----------------------------------------------------------------------------
(* The inductive invariant, in parts.                                      *)

Labels == {"none", "load", "user", "exit", "exit_exec", "exit_clear", "open_fd", "close_file",
           "close_fd", "mmap_pages", "unmap", "unmap_close", "unmap_remove", "panic"}

Mapping == [mapid : Nat, file : File]

Call == [file : File \cup {Nil}, fd : Fd \cup {Nil}, map : Mapping \cup {Nil},
         image : Val \cup {Nil}, exiting : BOOLEAN]

InodeTypes ==
  /\ linked \in [Name -> Inode \cup {Nil}]
  /\ length \in [Inode -> Size] /\ content \in [Inode -> Val]

FileTypes == files \in [File -> [inode : Inode \cup {Nil}, pos : Nat, deny_write : BOOLEAN]]

ProcTypes ==
  /\ Fd_table \in [Proc -> [Fd -> File \cup {Nil}]]
  /\ Exec_file \in [Proc -> File \cup {Nil}]
  /\ Mmap_list \in [Proc -> Seq(Mapping)]
  /\ next_mapid \in [Proc -> Nat]
  /\ pc \in [Proc -> Labels]
  /\ call \in [Proc -> Call]

\* A process that does not run a program has no files; process_exit () has closed
\* the descriptors before the executable, and that before the mappings.
Unmapping == {"unmap", "unmap_close", "unmap_remove"}

LifeInv(p) ==
  /\ pc[p] \in {"none", "load"} => Exec_file[p] = Nil /\ Mmap_list[p] = <<>>
  /\ pc[p] \in {"none", "load", "exit_exec", "exit_clear"} => Fd_table[p] = NoTable
  /\ call[p].exiting => /\ pc[p] \in Unmapping
                        /\ Exec_file[p] = Nil /\ Fd_table[p] = NoTable
  /\ call[p].image # Nil => Exec_file[p] # Nil /\ pc[p] # "exit_clear"

\* What the locals of a call are about.
CallInv(p) ==
  /\ call[p].file # Nil <=> pc[p] \in {"open_fd", "close_file", "mmap_pages"}
  /\ pc[p] = "close_fd" => call[p].fd \in Fd
  /\ pc[p] \in Unmapping => call[p].map \in ToSet(Mmap_list[p])

\* Mappings are numbered in the order they are made, and a number is used once.
MapInv(p) ==
  /\ \A i, j \in 1 .. Len(Mmap_list[p]) : Mmap_list[p][i] = Mmap_list[p][j] => i = j
  /\ \A m, n \in ToSet(Mmap_list[p]) : m.mapid = n.mapid => m = n
  /\ \A m \in ToSet(Mmap_list[p]) : m.mapid < next_mapid[p]

IsOpen(f) == files[f] # NoFile

\* The places of process p that have to close f: a descriptor, the executable, a
\* local of the call p is in, and a mapping.
FdHeld(p, x, f) == Fd_table[p][x] = f /\ ~(pc[p] = "close_fd" /\ call[p].fd = x)
ExecHeld(p, f) == Exec_file[p] = f /\ pc[p] # "exit_clear"
CallHeld(p, f) == call[p].file = f
MapHeld(p, x, f) ==
  \E m \in ToSet(Mmap_list[p]) :
    x = - 1 - m.mapid /\ m.file = f /\ ~(pc[p] = "unmap_remove" /\ call[p].map = m)

\* The same with the places numbered.
Held(p, x, f) ==
  \/ x \in Fd /\ FdHeld(p, x, f)
  \/ x = 0 /\ ExecHeld(p, f)
  \/ x = 1 /\ CallHeld(p, f)
  \/ MapHeld(p, x, f)

\* A struct file is allocated exactly while somebody has to close it, and only one
\* place has to.
HoldInv ==
  /\ \A f \in File : IsOpen(f) <=> \E p \in Proc, x \in Int : Held(p, x, f)
  /\ \A f \in File, p, q \in Proc, x, y \in Int : Held(p, x, f) /\ Held(q, y, f) => p = q /\ x = y

\* An open file has an inode, and denies writes if it is an executable.
FileInv ==
  \A f \in File : IsOpen(f) =>
    /\ files[f].inode \in Inode
    /\ files[f].deny_write <=> \E p \in Proc : Held(p, 0, f)

Executing(i) == {p \in Proc : \E f \in File : Held(p, 0, f) /\ files[f].inode = i}

DenyInv ==
  /\ deny_write_cnt \in [Inode -> Nat]
  /\ \A i \in Inode : deny_write_cnt[i] = Cardinality(Executing(i))

ImageInv ==
  \A p \in Proc : call[p].image # Nil =>
    \E f \in File : Held(p, 0, f) /\ content[files[f].inode] = call[p].image

Types == InodeTypes /\ FileTypes /\ ProcTypes

Local == \A p \in Proc : LifeInv(p) /\ CallInv(p) /\ MapInv(p)

Shared == HoldInv /\ FileInv /\ DenyInv /\ ImageInv

FInv == Types /\ Local /\ Shared

-----------------------------------------------------------------------------
(* Sets of processes, and the places that hold files.                      *)

\* Sets of numbers have a least element and sets of processes can be counted;
\* ProcsCounted below proves both.
CanCount ==
  /\ \A T \in SUBSET Nat : T # {} => \E x \in T : \A y \in T : x <= y
  /\ Cardinality({}) = 0 /\ \A x : Cardinality({x}) = 1
  /\ \A T \in SUBSET Proc :
       /\ Cardinality(T) \in Nat /\ Cardinality(T) <= Cardinality(Proc)
       /\ \A p \in Proc \ T : Cardinality(T \cup {p}) = Cardinality(T) + 1
       /\ \A p \in T : Cardinality(T \ {p}) = Cardinality(T) - 1

\* So those that execute an inode can be counted.
LEMMA CountProcs ==
  ASSUME CanCount, NEW T, T \subseteq Proc
  PROVE  /\ Cardinality(T) \in Nat /\ Cardinality(T) <= Cardinality(Proc)
         /\ \A p \in Proc \ T : Cardinality(T \cup {p}) = Cardinality(T) + 1
         /\ \A p \in T : Cardinality(T \ {p}) = Cardinality(T) - 1
BY Zenon DEF CanCount

\* Mappings are numbered below all other places.
LEMMA NoMapping ==
  ASSUME ProcTypes, NEW p \in Proc, NEW x \in Nat
  PROVE  /\ \A m \in ToSet(Mmap_list[p]) : m \in Mapping /\ m.mapid \in Nat /\ m.file \in File
         /\ \A f \in File : ~MapHeld(p, x, f)
<1>1. \A m \in ToSet(Mmap_list[p]) : m \in Mapping /\ m.mapid \in Nat /\ m.file \in File
  <2>1. Mmap_list[p] \in Seq(Mapping)
    BY DEF ProcTypes
  <2> QED
    BY <2>1, ElementsAre, Zenon DEF Mapping
<1> QED
  BY <1>1 DEF MapHeld

\* Place 0 is the executable and nothing else, place 1 the local of a call.
LEMMA PlacesApart ==
  ASSUME ProcTypes, NEW p \in Proc, NEW f \in File
  PROVE  /\ Held(p, 0, f) <=> ExecHeld(p, f)
         /\ Held(p, 1, f) <=> CallHeld(p, f)
         /\ \A d \in Fd : Held(p, d, f) <=> FdHeld(p, d, f)
<1>2. 0 \notin Fd /\ 1 \notin Fd /\ Fd \subseteq Nat
  BY SyscallAssumption DEF Fd, FD_BASE
<1>3. \A x \in Nat : ~MapHeld(p, x, f)
  BY NoMapping
<1> QED
  BY <1>2, <1>3 DEF Held

-----------------------------------------------------------------------------
(* What happens to the files when a step opens, closes or moves one.       *)

\* File f has the same inode and flag after the step, and is open or not as before.
Untouched(f) ==
  /\ files'[f].inode = files[f].inode
  /\ files'[f].deny_write = files[f].deny_write
  /\ IsOpen(f)' <=> IsOpen(f)

\* Nobody loses an image, and no image a process still has changes.
ImagesKept ==
  /\ \A q \in Proc : call'[q].image \in {Nil, call[q].image}
  /\ \A q \in Proc, f \in File :
       Held(q, 0, f) => content'[files[f].inode] = content[files[f].inode]

\* A step that neither opens nor closes a file, as read () or exit ().
LEMMA SharedKept ==
  ASSUME Shared, ImagesKept, deny_write_cnt' = deny_write_cnt,
         \A f \in File : Untouched(f),
         \A q \in Proc, x \in Int, f \in File : Held(q, x, f)' <=> Held(q, x, f)
  PROVE  Shared'
<1>1. 0 \in Int
  OBVIOUS
<1>2. HoldInv'
  BY Zenon DEF Shared, HoldInv, Untouched
<1>3. FileInv'
  BY <1>1, Zenon DEF Shared, FileInv, Untouched
<1>4. \A i \in Inode : Executing(i)' = Executing(i)
  BY <1>1, Zenon DEF Executing, Untouched
<1>5. DenyInv'
  BY <1>4, Zenon DEF Shared, DenyInv
<1>6. ImageInv'
  <2> SUFFICES ASSUME NEW q \in Proc, call'[q].image # Nil
               PROVE  \E f \in File : Held(q, 0, f)' /\ content'[files'[f].inode] = call'[q].image
    BY DEF ImageInv
  <2>1. call'[q].image = call[q].image
    BY DEF ImagesKept
  <2>2. PICK f \in File : Held(q, 0, f) /\ content[files[f].inode] = call[q].image
    BY <2>1 DEF Shared, ImageInv
  <2>3. content'[files[f].inode] = content[files[f].inode] /\ files'[f].inode = files[f].inode
    BY <2>2, Zenon DEF ImagesKept, Untouched
  <2> QED
    BY <1>1, <2>1, <2>2, <2>3, Zenon
<1> QED
  BY <1>2, <1>3, <1>5, <1>6 DEF Shared

\* A step that moves file g from place y of process p to place z, as open () does
\* when it has found a descriptor.
LEMMA SharedMoved ==
  ASSUME Shared, ImagesKept, deny_write_cnt' = deny_write_cnt, files' = files,
         NEW p \in Proc, NEW g \in File, NEW y \in Int \ {0}, NEW z \in Int \ {0}, Held(p, y, g),
         \A q \in Proc, x \in Int, f \in File :
           Held(q, x, f)' <=> IF f = g THEN q = p /\ x = z ELSE Held(q, x, f)
  PROVE  Shared'
<1>0. 0 \in Int /\ y # 0 /\ z # 0 /\ y \in Int /\ z \in Int
  OBVIOUS
<1>1. \A q \in Proc : Held(q, 0, g)' <=> Held(q, 0, g)
  BY <1>0, Zenon DEF Shared, HoldInv
<1>2. \A q \in Proc, f \in File : Held(q, 0, f)' <=> Held(q, 0, f)
  BY <1>0, <1>1, Zenon
<1>3. \A f \in File : IsOpen(f)' <=> IsOpen(f)
  BY Zenon DEF IsOpen, NoFile
<1>4. HoldInv'
  <2>1. ASSUME NEW f \in File
        PROVE  IsOpen(f)' <=> \E q \in Proc, x \in Int : Held(q, x, f)'
    <3>1. CASE f = g
      BY <1>0, <1>3, <3>1, Zenon DEF Shared, HoldInv
    <3>2. CASE f # g
      BY <1>3, <3>2, ZenonT(30) DEF Shared, HoldInv
    <3> QED
      BY <3>1, <3>2
  <2>2. ASSUME NEW f \in File, NEW q1 \in Proc, NEW q2 \in Proc, NEW x1 \in Int, NEW x2 \in Int,
               Held(q1, x1, f)', Held(q2, x2, f)'
        PROVE  q1 = q2 /\ x1 = x2
    <3>1. CASE f = g
      BY <2>2, <3>1, Zenon
    <3>2. CASE f # g
      <4>1. Held(q1, x1, f) /\ Held(q2, x2, f)
        BY <2>2, <3>2, Zenon
      <4> QED
        BY <4>1, Zenon DEF Shared, HoldInv
    <3> QED
      BY <3>1, <3>2
  <2> QED
    BY <2>1, <2>2, Zenon DEF HoldInv
<1>5. FileInv'
  BY <1>2, <1>3, Zenon DEF Shared, FileInv
<1>6. \A i \in Inode : Executing(i)' = Executing(i)
  BY <1>2, Zenon DEF Executing
<1>7. DenyInv'
  BY <1>6, Zenon DEF Shared, DenyInv
<1>8. ImageInv'
  BY <1>2, ZenonT(30) DEF Shared, ImageInv, ImagesKept
<1> QED
  BY <1>4, <1>5, <1>7, <1>8 DEF Shared

\* A step that opens file g, not as an executable.
LEMMA SharedOpened ==
  ASSUME Shared, ImagesKept, deny_write_cnt' = deny_write_cnt, FileTypes,
         NEW p \in Proc, NEW g \in FreeFiles, NEW z \in Int \ {0}, NEW i \in Inode, FileOpen(g, i),
         \A q \in Proc, x \in Int, f \in File :
           Held(q, x, f)' <=> Held(q, x, f) \/ (q = p /\ x = z /\ f = g)
  PROVE  Shared'
<1>1. 0 \in Int /\ z # 0 /\ g \in File /\ ~IsOpen(g)
  BY DEF FreeFiles, IsOpen
<1>2. \A q \in Proc, x \in Int : ~Held(q, x, g)
  BY <1>1, Zenon DEF Shared, HoldInv
<1>3. \A q \in Proc, f \in File : Held(q, 0, f)' <=> Held(q, 0, f)
  BY <1>1, Zenon
<1>4. \A f \in File \ {g} : files'[f] = files[f] /\ (IsOpen(f)' <=> IsOpen(f))
  BY DEF FileOpen, FileTypes, IsOpen, NoFile
<1>5. files'[g].inode = i /\ files'[g].deny_write = FALSE /\ IsOpen(g)'
  BY <1>1, SyscallAssumption DEF FileOpen, FileTypes, IsOpen, NoFile
<1>6. HoldInv'
  <2>1. ASSUME NEW f \in File
        PROVE  IsOpen(f)' <=> \E q \in Proc, x \in Int : Held(q, x, f)'
    <3>1. CASE f = g
      <4>1. Held(p, z, g)'
        BY <1>1, Zenon
      <4> QED
        BY <1>5, <3>1, <4>1, Zenon
    <3>2. CASE f # g
      <4>1. \A q \in Proc, x \in Int : Held(q, x, f)' <=> Held(q, x, f)
        BY <3>2, Zenon
      <4> QED
        BY <1>4, <3>2, <4>1, Zenon DEF Shared, HoldInv
    <3> QED
      BY <3>1, <3>2
  <2>2. ASSUME NEW f \in File, NEW q1 \in Proc, NEW q2 \in Proc, NEW x1 \in Int, NEW x2 \in Int,
               Held(q1, x1, f)', Held(q2, x2, f)'
        PROVE  q1 = q2 /\ x1 = x2
    <3>1. CASE f = g
      BY <1>2, <2>2, <3>1, Zenon
    <3>2. CASE f # g
      <4>1. Held(q1, x1, f) /\ Held(q2, x2, f)
        BY <2>2, <3>2, Zenon
      <4> QED
        BY <4>1, SMT DEF Shared, HoldInv
    <3> QED
      BY <3>1, <3>2
  <2> QED
    BY <2>1, <2>2, Zenon DEF HoldInv
<1>7. FileInv'
  BY <1>1, <1>2, <1>3, <1>4, <1>5, Zenon DEF Shared, FileInv
<1>8. \A j \in Inode : Executing(j)' = Executing(j)
  BY <1>1, <1>2, <1>3, <1>4, Zenon DEF Executing
<1>9. DenyInv'
  BY <1>8, Zenon DEF Shared, DenyInv
<1>10. ImageInv'
  <2> SUFFICES ASSUME NEW q \in Proc, call'[q].image # Nil
               PROVE  \E f \in File : Held(q, 0, f)' /\ content'[files'[f].inode] = call'[q].image
    BY DEF ImageInv
  <2>1. call'[q].image = call[q].image
    BY DEF ImagesKept
  <2>2. PICK f \in File : Held(q, 0, f) /\ content[files[f].inode] = call[q].image
    BY <2>1 DEF Shared, ImageInv
  <2>3. f # g /\ content'[files[f].inode] = content[files[f].inode]
    BY <1>1, <1>2, <2>2, Zenon DEF ImagesKept
  <2> QED
    BY <1>3, <1>4, <2>1, <2>2, <2>3, Zenon
<1> QED
  BY <1>6, <1>7, <1>9, <1>10 DEF Shared

\* A step that opens file g as the executable of p, as load () does, counts the
\* process among those that deny writes to the inode.
LEMMA SharedLoaded ==
  ASSUME CanCount, Shared, FileTypes, content' = content,
         NEW p \in Proc, NEW g \in FreeFiles, NEW i \in Inode,
         files' = [files EXCEPT ![g] = [inode |-> i, pos |-> 0, deny_write |-> TRUE]],
         deny_write_cnt' = [deny_write_cnt EXCEPT ![i] = @ + 1],
         call'[p].image = content[i],
         \A q \in Proc \ {p} : call'[q].image = call[q].image,
         \A f \in File : ~Held(p, 0, f),
         \A q \in Proc, x \in Int, f \in File :
           Held(q, x, f)' <=> Held(q, x, f) \/ (q = p /\ x = 0 /\ f = g)
  PROVE  Shared'
<1>1. 0 \in Int /\ g \in File /\ ~IsOpen(g)
  BY DEF FreeFiles, IsOpen
<1>2. \A q \in Proc, x \in Int : ~Held(q, x, g)
  BY <1>1, Zenon DEF Shared, HoldInv
<1>3. \A q \in Proc, f \in File : Held(q, 0, f)' <=> Held(q, 0, f) \/ (q = p /\ f = g)
  BY <1>1, Zenon
<1>4. \A f \in File \ {g} : files'[f] = files[f] /\ (IsOpen(f)' <=> IsOpen(f))
  BY DEF FileTypes, IsOpen, NoFile
<1>5. files'[g].inode = i /\ files'[g].deny_write = TRUE /\ IsOpen(g)'
  BY <1>1, SyscallAssumption DEF FileTypes, IsOpen, NoFile
<1>6. HoldInv'
  <2>1. ASSUME NEW f \in File
        PROVE  IsOpen(f)' <=> \E q \in Proc, x \in Int : Held(q, x, f)'
    <3>1. CASE f = g
      <4>1. Held(p, 0, g)'
        BY <1>1, Zenon
      <4> QED
        BY <1>1, <1>5, <3>1, <4>1, Zenon
    <3>2. CASE f # g
      <4>1. \A q \in Proc, x \in Int : Held(q, x, f)' <=> Held(q, x, f)
        BY <3>2, Zenon
      <4> QED
        BY <1>4, <3>2, <4>1, Zenon DEF Shared, HoldInv
    <3> QED
      BY <3>1, <3>2
  <2>2. ASSUME NEW f \in File, NEW q1 \in Proc, NEW q2 \in Proc, NEW x1 \in Int, NEW x2 \in Int,
               Held(q1, x1, f)', Held(q2, x2, f)'
        PROVE  q1 = q2 /\ x1 = x2
    <3>1. CASE f = g
      <4>1. \A q \in Proc, x \in Int : Held(q, x, g)' => q = p /\ x = 0
        BY <1>1, <1>2, Zenon
      <4> QED
        BY <2>2, <3>1, <4>1, Zenon
    <3>2. CASE f # g
      <4>1. Held(q1, x1, f) /\ Held(q2, x2, f)
        BY <2>2, <3>2, Zenon
      <4> QED
        BY <4>1, SMT DEF Shared, HoldInv
    <3> QED
      BY <3>1, <3>2
  <2> QED
    BY <2>1, <2>2, Zenon DEF HoldInv
<1>7. FileInv'
  <2>1. ASSUME NEW f \in File, IsOpen(f)'
        PROVE  files'[f].inode \in Inode /\ (files'[f].deny_write <=> \E q \in Proc : Held(q, 0, f)')
    <3>1. CASE f = g
      BY <1>3, <1>5, <3>1, Zenon
    <3>2. CASE f # g
      BY <1>3, <1>4, <2>1, <3>2, Zenon DEF Shared, FileInv
    <3> QED
      BY <3>1, <3>2
  <2> QED
    BY <2>1, Zenon DEF FileInv
<1>8. ASSUME NEW q \in Proc, NEW j \in Inode
      PROVE  (\E f \in File : Held(q, 0, f)' /\ files'[f].inode = j)
               <=> (\E f \in File : Held(q, 0, f) /\ files[f].inode = j) \/ (q = p /\ i = j)
  <2>1. ASSUME NEW f \in File, Held(q, 0, f)', files'[f].inode = j
        PROVE  (\E e \in File : Held(q, 0, e) /\ files[e].inode = j) \/ (q = p /\ i = j)
    <3>1. CASE f = g
      BY <1>1, <1>2, <1>3, <1>5, <2>1, <3>1, Zenon
    <3>2. CASE f # g
      BY <1>3, <1>4, <2>1, <3>2, Zenon
    <3> QED
      BY <3>1, <3>2
  <2>2. ASSUME NEW f \in File, Held(q, 0, f), files[f].inode = j
        PROVE  \E e \in File : Held(q, 0, e)' /\ files'[e].inode = j
    BY <1>1, <1>2, <1>3, <1>4, <2>2, Zenon
  <2>3. ASSUME q = p, i = j
        PROVE  \E e \in File : Held(q, 0, e)' /\ files'[e].inode = j
    BY <1>1, <1>3, <1>5, <2>3, Zenon
  <2> QED
    BY <2>1, <2>2, <2>3, Zenon
<1>9. /\ Executing(i)' = Executing(i) \cup {p} /\ p \notin Executing(i)
      /\ \A j \in Inode \ {i} : Executing(j)' = Executing(j)
  <2>0. ASSUME NEW q \in Proc, NEW j \in Inode
        PROVE  q \in Executing(j)' <=> q \in Executing(j) \/ (q = p /\ i = j)
    <3>1. q \in Executing(j)' <=> \E f \in File : Held(q, 0, f)' /\ files'[f].inode = j
      BY DEF Executing
    <3>2. q \in Executing(j) <=> \E f \in File : Held(q, 0, f) /\ files[f].inode = j
      BY DEF Executing
    <3> QED
      BY <1>8, <3>1, <3>2
  <2>4. \A j \in Inode : Executing(j) \subseteq Proc /\ Executing(j)' \subseteq Proc
    BY Zenon DEF Executing
  <2>1. Executing(i)' = Executing(i) \cup {p}
    BY <2>0, <2>4, Zenon
  <2>2. p \notin Executing(i)
    BY Zenon DEF Executing
  <2>3. ASSUME NEW j \in Inode, i # j PROVE Executing(j)' = Executing(j)
    BY <2>0, <2>3, <2>4, Zenon
  <2> QED
    BY <2>1, <2>2, <2>3, Zenon
<1>10. DenyInv'
  <2>1. Cardinality(Executing(i) \cup {p}) = Cardinality(Executing(i)) + 1
    BY <1>9, CountProcs, Zenon DEF Executing
  <2>2. deny_write_cnt' \in [Inode -> Nat] /\ deny_write_cnt'[i] = deny_write_cnt[i] + 1
        /\ \A j \in Inode \ {i} : deny_write_cnt'[j] = deny_write_cnt[j]
    BY DEF Shared, DenyInv
  <2>3. deny_write_cnt'[i] = Cardinality(Executing(i)')
    BY <1>9, <2>1, <2>2, Zenon DEF Shared, DenyInv
  <2>4. \A j \in Inode \ {i} : deny_write_cnt'[j] = Cardinality(Executing(j)')
    BY <1>9, <2>2, Zenon DEF Shared, DenyInv
  <2> QED
    BY <2>2, <2>3, <2>4, Zenon DEF DenyInv
<1>11. ImageInv'
  <2> SUFFICES ASSUME NEW q \in Proc, call'[q].image # Nil
               PROVE  \E f \in File : Held(q, 0, f)' /\ content'[files'[f].inode] = call'[q].image
    BY DEF ImageInv
  <2>1. CASE q = p
    BY <1>1, <1>3, <1>5, <2>1, Zenon
  <2>2. CASE q # p
    <3>1. PICK f \in File : Held(q, 0, f) /\ content[files[f].inode] = call[q].image
      BY <2>2, Zenon DEF Shared, ImageInv
    <3>2. f # g
      BY <1>1, <1>2, <3>1, Zenon
    <3> QED
      BY <1>3, <1>4, <2>2, <3>1, <3>2, Zenon
  <2> QED
    BY <2>1, <2>2
<1> QED
  BY <1>6, <1>7, <1>10, <1>11 DEF Shared

\* The files of S are closed and nobody holds them any more.
Closes(S) ==
  /\ FileClose(S)
  /\ \A f \in S : f \in File
  /\ \A q \in Proc, x \in Int, f \in File : Held(q, x, f)' <=> Held(q, x, f) /\ f \notin S

\* A closed file is free, and the others are as they were.
LEMMA CloseFrees ==
  ASSUME FileTypes, NEW S, FileClose(S)
  PROVE  /\ \A f \in File \ S : files'[f] = files[f] /\ (IsOpen(f)' <=> IsOpen(f))
         /\ \A f \in File : f \in S => ~IsOpen(f)'
BY DEF FileTypes, FileClose, IsOpen, NoFile

\* Whoever closes a file, what holds and describes the others stays right.
LEMMA ClosesKeeps ==
  ASSUME Shared, FileTypes, NEW S, Closes(S)
  PROVE  HoldInv' /\ FileInv'
<1>1. /\ \A f \in File \ S : files'[f] = files[f] /\ (IsOpen(f)' <=> IsOpen(f))
      /\ \A f \in File : f \in S => ~IsOpen(f)'
  BY CloseFrees, Zenon DEF Closes
<1>2. \A q \in Proc, x \in Int, f \in File : Held(q, x, f)' <=> Held(q, x, f) /\ f \notin S
  BY Zenon DEF Closes
<1>3. 0 \in Int /\ HoldInv /\ FileInv
  BY DEF Shared
<1>4. HoldInv'
  <2>1. ASSUME NEW f \in File
        PROVE  IsOpen(f)' <=> \E q \in Proc, x \in Int : Held(q, x, f)'
    <3>1. CASE f \in S
      BY <1>1, <1>2, <3>1, Zenon
    <3>2. CASE f \notin S
      <4>1. \A q \in Proc, x \in Int : Held(q, x, f)' <=> Held(q, x, f)
        BY <1>2, <3>2, Zenon
      <4> QED
        BY <1>1, <1>3, <3>2, <4>1, Zenon DEF HoldInv
    <3> QED
      BY <3>1, <3>2
  <2>2. ASSUME NEW f \in File, NEW q1 \in Proc, NEW q2 \in Proc, NEW x1 \in Int, NEW x2 \in Int,
               Held(q1, x1, f)', Held(q2, x2, f)'
        PROVE  q1 = q2 /\ x1 = x2
    <3>1. Held(q1, x1, f) /\ Held(q2, x2, f)
      BY <1>2, <2>2, Zenon
    <3> QED
      BY <1>3, <3>1, SMT DEF HoldInv
  <2> QED
    BY <2>1, <2>2, Zenon DEF HoldInv
<1>5. FileInv'
  <2>1. ASSUME NEW f \in File, IsOpen(f)'
        PROVE  files'[f].inode \in Inode /\ (files'[f].deny_write <=> \E q \in Proc : Held(q, 0, f)')
    <3>1. f \notin S /\ IsOpen(f) /\ files'[f] = files[f]
      BY <1>1, <2>1, Zenon
    <3>2. \A q \in Proc : Held(q, 0, f)' <=> Held(q, 0, f)
      BY <1>2, <1>3, <3>1, Zenon
    <3> QED
      BY <1>3, <3>1, <3>2, Zenon DEF FileInv
  <2> QED
    BY <2>1, Zenon DEF FileInv
<1> QED
  BY <1>4, <1>5

\* A step that closes files that are not executables, as close () or the loop of
\* process_exit () over the descriptors.
LEMMA SharedClosed ==
  ASSUME CanCount, Shared, FileTypes, content' = content, NEW S, Closes(S),
         \A q \in Proc : call'[q].image \in {Nil, call[q].image},
         \A f \in S : IsOpen(f) /\ \A q \in Proc : ~Held(q, 0, f)
  PROVE  Shared'
<1>0. 0 \in Int
  OBVIOUS
<1>1. \A f \in File \ S : files'[f] = files[f] /\ (IsOpen(f)' <=> IsOpen(f))
  BY CloseFrees, Zenon DEF Closes
<1>2. \A q \in Proc, f \in File : Held(q, 0, f)' <=> Held(q, 0, f)
  BY <1>0, Zenon DEF Closes
<1>3. \A q \in Proc, f \in File : Held(q, 0, f) => f \notin S
  BY Zenon
<1>4. \A j \in Inode : Executing(j)' = Executing(j)
  BY <1>1, <1>2, <1>3, Zenon DEF Executing
<1>5. \A f \in S : ~files[f].deny_write
  BY Zenon DEF Closes, Shared, FileInv
<1>6. deny_write_cnt' = deny_write_cnt
  <2>1. \A j \in Inode : {f \in S : files[f].inode = j /\ files[f].deny_write} = {}
    BY <1>5
  <2>2. deny_write_cnt' = [j \in Inode |-> deny_write_cnt[j] - Cardinality({})]
    BY <2>1, Zenon DEF Closes, FileClose
  <2> QED
    BY <2>2 DEF Shared, DenyInv, CanCount
<1>7. DenyInv'
  BY <1>4, <1>6, Zenon DEF Shared, DenyInv
<1>8. ImageInv'
  <2> SUFFICES ASSUME NEW q \in Proc, call'[q].image # Nil
               PROVE  \E f \in File : Held(q, 0, f)' /\ content'[files'[f].inode] = call'[q].image
    BY DEF ImageInv
  <2>1. call'[q].image = call[q].image
    OBVIOUS
  <2>2. PICK f \in File : Held(q, 0, f) /\ content[files[f].inode] = call[q].image
    BY <2>1 DEF Shared, ImageInv
  <2>3. files'[f] = files[f]
    BY <1>1, <1>3, <2>2, Zenon
  <2> QED
    BY <1>2, <2>1, <2>2, <2>3, Zenon
<1> QED
  BY <1>7, <1>8, ClosesKeeps DEF Shared

\* The step of process_exit () that closes the executable g of p.
LEMMA SharedLeft ==
  ASSUME CanCount, Shared, FileTypes, ProcTypes, content' = content,
         NEW p \in Proc, NEW g \in File, Held(p, 0, g), Closes({g}),
         call'[p].image = Nil, \A q \in Proc \ {p} : call'[q].image = call[q].image
  PROVE  Shared'
<1>0. 0 \in Int
  OBVIOUS
<1>1. \A f \in File \ {g} : files'[f] = files[f] /\ (IsOpen(f)' <=> IsOpen(f))
  BY CloseFrees, Zenon DEF Closes
<1>2. \A q \in Proc, f \in File : Held(q, 0, f)' <=> Held(q, 0, f) /\ f # g
  BY <1>0, Zenon DEF Closes
<1>3. \A q \in Proc : Held(q, 0, g) => q = p
  BY <1>0, Zenon DEF Shared, HoldInv
<1>4. IsOpen(g) /\ files[g].deny_write /\ files[g].inode \in Inode
  BY <1>0, Zenon DEF Shared, HoldInv, FileInv
<1>5. PICK i \in Inode : i = files[g].inode
  BY <1>4
<1>6. \A f \in File : Held(p, 0, f) => f = g
  BY PlacesApart DEF ExecHeld
<1>7. \A j \in Inode \ {i} : Executing(j)' = Executing(j)
  BY <1>1, <1>2, <1>5, Zenon DEF Executing
<1>8. Executing(i)' = Executing(i) \ {p} /\ p \in Executing(i)
  BY <1>1, <1>2, <1>3, <1>5, <1>6, Zenon DEF Executing
<1>9. DenyInv'
  <2>1. /\ {f \in {g} : files[f].inode = i /\ files[f].deny_write} = {g}
        /\ \A j \in Inode \ {i} : {f \in {g} : files[f].inode = j /\ files[f].deny_write} = {}
    BY <1>4, <1>5
  <2>2. /\ DOMAIN deny_write_cnt' = Inode
        /\ deny_write_cnt'[i] = deny_write_cnt[i] - Cardinality({g})
        /\ \A j \in Inode \ {i} : deny_write_cnt'[j] = deny_write_cnt[j] - Cardinality({})
        /\ deny_write_cnt' = [j \in Inode |-> deny_write_cnt'[j]]
    BY <2>1, Zenon DEF Closes, FileClose
  <2>3. Cardinality({g}) = 1 /\ Cardinality({}) = 0
    BY Zenon DEF CanCount
  <2>4. Cardinality(Executing(i) \ {p}) = Cardinality(Executing(i)) - 1
    BY <1>8, CountProcs, Zenon DEF Executing
  <2>5. \A j \in Inode : deny_write_cnt[j] = Cardinality(Executing(j)) /\ deny_write_cnt[j] \in Nat
    BY DEF Shared, DenyInv
  <2>6. deny_write_cnt'[i] = Cardinality(Executing(i)')
    BY <1>8, <2>2, <2>3, <2>4, <2>5, Zenon
  <2>7. \A j \in Inode \ {i} : deny_write_cnt'[j] = deny_write_cnt[j]
    BY <2>2, <2>3, <2>5
  <2>8. \A j \in Inode : deny_write_cnt'[j] = Cardinality(Executing(j)')
    BY <1>7, <2>5, <2>6, <2>7, Zenon
  <2>9. \A j \in Inode : Cardinality(Executing(j)') \in Nat
    BY CountProcs, Zenon DEF Executing
  <2> QED
    BY <2>2, <2>8, <2>9 DEF DenyInv
<1>10. ImageInv'
  <2> SUFFICES ASSUME NEW q \in Proc, call'[q].image # Nil
               PROVE  \E f \in File : Held(q, 0, f)' /\ content'[files'[f].inode] = call'[q].image
    BY DEF ImageInv
  <2>1. q # p /\ call'[q].image = call[q].image
    BY Zenon
  <2>2. PICK f \in File : Held(q, 0, f) /\ content[files[f].inode] = call[q].image
    BY <2>1, Zenon DEF Shared, ImageInv
  <2>3. f # g
    BY <1>3, <2>1, <2>2, Zenon
  <2> QED
    BY <1>1, <1>2, <2>1, <2>2, <2>3, Zenon
<1> QED
  BY <1>9, <1>10, ClosesKeeps DEF Shared

-----------------------------------------------------------------------------
(* Steps of one process.                                                   *)

\* Nothing of process q changes.
SameProc(q) ==
  /\ pc'[q] = pc[q] /\ call'[q] = call[q]
  /\ Fd_table'[q] = Fd_table[q] /\ Exec_file'[q] = Exec_file[q]
  /\ Mmap_list'[q] = Mmap_list[q] /\ next_mapid'[q] = next_mapid[q]

\* What Go and Return do.
LEMMA GoIs ==
  ASSUME ProcTypes, NEW p \in Proc, NEW label \in Labels, NEW c \in Call, Go(p, label, c)
  PROVE  /\ pc' \in [Proc -> Labels] /\ pc'[p] = label
         /\ call' \in [Proc -> Call] /\ call'[p] = c
         /\ \A q \in Proc \ {p} : pc'[q] = pc[q] /\ call'[q] = call[q]
BY DEF ProcTypes, Go

\* A process whose state does not change holds the same files.
LEMMA SameHeld ==
  ASSUME NEW q \in Proc, SameProc(q)
  PROVE  \A x \in Int, f \in File : Held(q, x, f)' <=> Held(q, x, f)
<1> SUFFICES ASSUME NEW x \in Int, NEW f \in File PROVE Held(q, x, f)' <=> Held(q, x, f)
  OBVIOUS
<1>1. FdHeld(q, x, f)' <=> FdHeld(q, x, f)
  BY Zenon DEF SameProc, FdHeld
<1>2. (ExecHeld(q, f)' <=> ExecHeld(q, f)) /\ (CallHeld(q, f)' <=> CallHeld(q, f))
  BY Zenon DEF SameProc, ExecHeld, CallHeld
<1>3. MapHeld(q, x, f)' <=> MapHeld(q, x, f)
  BY Zenon DEF SameProc, MapHeld
<1> QED
  BY <1>1, <1>2, <1>3, Zenon DEF Held

\* Only one place has to close a file.
LEMMA OnePlace ==
  ASSUME FInv, NEW f \in File, NEW p \in Proc, NEW q \in Proc, NEW x \in Int, NEW y \in Int,
         Held(p, x, f), Held(q, y, f)
  PROVE  p = q /\ x = y
BY Zenon DEF FInv, Shared, HoldInv

\* Between calls the locals hold nothing.
LEMMA IdleIs ==
  Idle.file = Nil /\ Idle.fd = Nil /\ Idle.map = Nil /\ Idle.image = Nil /\ Idle.exiting = FALSE
BY DEF Idle

\* Descriptors are numbers from 2 on.
LEMMA FdIs == \A d \in Fd : d \in Nat /\ d > 1
BY SyscallAssumption DEF Fd, FD_BASE

\* When only p moves, only what is said of p has to be shown again.
LEMMA OneMoves ==
  ASSUME Local, NEW p \in Proc, \A q \in Proc \ {p} : SameProc(q),
         LifeInv(p)', CallInv(p)', MapInv(p)'
  PROVE  Local'
<1>1. ASSUME NEW q \in Proc, q # p PROVE LifeInv(q)' /\ CallInv(q)' /\ MapInv(q)'
  <2>1. SameProc(q) /\ LifeInv(q) /\ CallInv(q) /\ MapInv(q)
    BY <1>1, Zenon DEF Local
  <2>2. LifeInv(q)'
    BY <2>1, Zenon DEF SameProc, LifeInv
  <2>3. CallInv(q)'
    BY <2>1, Zenon DEF SameProc, CallInv
  <2>4. MapInv(q)'
    BY <2>1, Zenon DEF SameProc, MapInv
  <2> QED
    BY <2>2, <2>3, <2>4
<1> QED
  BY <1>1, Zenon DEF Local

\* The places of p that a step leaves alone.
LEMMA FdSame ==
  ASSUME NEW p \in Proc, Fd_table'[p] = Fd_table[p], pc[p] # "close_fd", pc'[p] # "close_fd"
  PROVE  \A x \in Fd, f \in File : FdHeld(p, x, f)' <=> FdHeld(p, x, f)
BY DEF FdHeld

\* The executable, as long as process_exit () has not closed it.
LEMMA ExecSame ==
  ASSUME NEW p \in Proc, Exec_file'[p] = Exec_file[p],
         pc[p] # "exit_clear", pc'[p] # "exit_clear"
  PROVE  \A f \in File : ExecHeld(p, f)' <=> ExecHeld(p, f)
BY DEF ExecHeld

\* The mappings, as long as page_unmap () has closed none.
LEMMA MapSame ==
  ASSUME NEW p \in Proc, Mmap_list'[p] = Mmap_list[p],
         pc[p] # "unmap_remove", pc'[p] # "unmap_remove"
  PROVE  \A x \in Int, f \in File : MapHeld(p, x, f)' <=> MapHeld(p, x, f)
BY Zenon DEF MapHeld

\* A step of p after which p holds the same files.
LEMMA QuietStep ==
  ASSUME FInv, Types', NEW p \in Proc, \A q \in Proc \ {p} : SameProc(q),
         LifeInv(p)', CallInv(p)', MapInv(p)',
         \A x \in Int, f \in File : Held(p, x, f)' <=> Held(p, x, f),
         ImagesKept, deny_write_cnt' = deny_write_cnt, \A f \in File : Untouched(f)
  PROVE  FInv'
<1>1. \A q \in Proc, x \in Int, f \in File : Held(q, x, f)' <=> Held(q, x, f)
  BY SameHeld, Zenon
<1>2. Shared'
  BY <1>1, SharedKept, Zenon DEF FInv
<1>3. Local'
  BY OneMoves, Zenon DEF FInv
<1> QED
  BY <1>2, <1>3 DEF FInv

\* A step that only moves p on in the code of a call, with the file it holds.
LEMMA AdvanceStep ==
  ASSUME FInv, NEW p \in Proc, NEW label \in Labels, NEW c \in Call, Go(p, label, c),
         UNCHANGED <<files, deny_write_cnt, procVars>>, InodeTypes', ImagesKept,
         c.file = call[p].file, LifeInv(p)', CallInv(p)',
         {pc[p], label} \cap {"close_fd", "exit_clear", "unmap_remove"} = {}
  PROVE  FInv'
<1>1. Types /\ FileTypes /\ ProcTypes /\ Local
  BY DEF FInv, Types
<1>2. /\ pc' \in [Proc -> Labels] /\ pc'[p] = label
      /\ call' \in [Proc -> Call] /\ call'[p] = c
      /\ \A q \in Proc \ {p} : pc'[q] = pc[q] /\ call'[q] = call[q]
  BY <1>1, GoIs, Zenon
<1>3. Types'
  BY <1>1, <1>2 DEF Types, FileTypes, ProcTypes, procVars
<1>4. \A q \in Proc \ {p} : SameProc(q)
  BY <1>2 DEF SameProc, procVars
<1>5. MapInv(p)'
  BY <1>1, Zenon DEF Local, MapInv, procVars
<1>6. \A x \in Int, f \in File : Held(p, x, f)' <=> Held(p, x, f)
  <2>1. \A x \in Fd, f \in File : FdHeld(p, x, f)' <=> FdHeld(p, x, f)
    BY <1>2, FdSame, Zenon DEF procVars
  <2>2. \A f \in File : ExecHeld(p, f)' <=> ExecHeld(p, f)
    BY <1>2, ExecSame, Zenon DEF procVars
  <2>3. \A x \in Int, f \in File : MapHeld(p, x, f)' <=> MapHeld(p, x, f)
    BY <1>2, MapSame, Zenon DEF procVars
  <2>4. \A f \in File : CallHeld(p, f)' <=> CallHeld(p, f)
    BY <1>2 DEF CallHeld
  <2> QED
    BY <2>1, <2>2, <2>3, <2>4, Zenon DEF Held
<1>7. \A f \in File : Untouched(f)
  BY DEF Untouched, IsOpen, NoFile
<1> QED
  BY <1>3, <1>4, <1>5, <1>6, <1>7, QuietStep

\* A step that leaves the processes as they are.
LEMMA StillStep ==
  ASSUME FInv, UNCHANGED <<procVars, pc, call>>, InodeTypes', FileTypes',
         ImagesKept, deny_write_cnt' = deny_write_cnt, \A f \in File : Untouched(f)
  PROVE  FInv'
<1>1. \A q \in Proc : SameProc(q)
  BY DEF SameProc, procVars
<1>2. \A q \in Proc, x \in Int, f \in File : Held(q, x, f)' <=> Held(q, x, f)
  BY <1>1, SameHeld, Zenon
<1>3. Shared'
  BY <1>2, SharedKept, Zenon DEF FInv
<1>4. Local'
  BY DEF FInv, Local, LifeInv, CallInv, MapInv, procVars
<1>5. Types'
  BY DEF FInv, Types, ProcTypes, procVars
<1> QED
  BY <1>3, <1>4, <1>5 DEF FInv

\* What the invariant says of a process, and the records calls are made of.
LEMMA AboutProc ==
  ASSUME FInv, NEW p \in Proc
  PROVE  /\ ProcTypes /\ InodeTypes /\ FileTypes /\ Shared /\ Local
         /\ LifeInv(p) /\ CallInv(p) /\ MapInv(p)
         /\ pc[p] \in Labels /\ call[p] \in Call /\ Idle \in Call
         /\ [Idle EXCEPT !.image = call[p].image] \in Call
         /\ Nil \notin File /\ Nil \notin Inode /\ Nil \notin Val
<1>1. ProcTypes /\ InodeTypes /\ FileTypes /\ Shared /\ Local
  BY DEF FInv, Types
<1>2. pc[p] \in Labels /\ call[p] \in Call
  BY <1>1 DEF ProcTypes
<1>3. Idle \in Call /\ [Idle EXCEPT !.image = call[p].image] \in Call
  BY <1>2, Zenon DEF Idle, Call
<1> QED
  BY <1>1, <1>2, <1>3, SyscallAssumption DEF Local

\* When no content changes, images are kept by whoever keeps or drops its own.
LEMMA ImagesStay ==
  ASSUME content' = content, NEW p \in Proc,
         \A q \in Proc \ {p} : call'[q] = call[q],
         call'[p].image \in {Nil, call[p].image}
  PROVE  ImagesKept
BY DEF ImagesKept

\* start_process () begins with no files.
LEMMA StartKeeps ==
  ASSUME FInv, NEW p \in Proc, start_process(p)
  PROVE  FInv'
<1>1. /\ ProcTypes /\ InodeTypes /\ LifeInv(p) /\ CallInv(p) /\ MapInv(p) /\ call[p] \in Call
      /\ Idle \in Call
  BY AboutProc, Zenon
<1>2. /\ pc[p] = "none" /\ Go(p, "load", Idle) /\ "load" \in Labels
      /\ UNCHANGED <<inodeVars, files, procVars>>
  BY DEF start_process, Labels
<1>3. /\ pc'[p] = "load" /\ call'[p] = Idle
      /\ \A q \in Proc \ {p} : pc'[q] = pc[q] /\ call'[q] = call[q]
  BY <1>1, <1>2, GoIs
<1>4. InodeTypes' /\ ImagesKept
  BY <1>1, <1>2, <1>3, ImagesStay DEF InodeTypes, inodeVars, Idle
<1>5. LifeInv(p)'
  BY <1>1, <1>2, <1>3 DEF LifeInv, procVars, Idle
<1>6. CallInv(p)' /\ call[p].file = Idle.file
  BY <1>1, <1>2, <1>3 DEF CallInv, Unmapping, Idle, Call
<1> QED
  BY <1>1, <1>2, <1>3, <1>4, <1>5, <1>6, AdvanceStep DEF inodeVars

\* exit () keeps everything until process_exit () closes it.
LEMMA ExitKeeps ==
  ASSUME FInv, NEW p \in Proc, exit(p)
  PROVE  FInv'
<1>1. /\ ProcTypes /\ InodeTypes /\ LifeInv(p) /\ CallInv(p) /\ MapInv(p) /\ call[p] \in Call
  BY AboutProc, Zenon
<1>2. /\ pc[p] = "user" /\ Go(p, "exit", call[p]) /\ "exit" \in Labels
      /\ UNCHANGED <<inodeVars, files, procVars>>
  BY DEF exit, Labels
<1>3. /\ pc'[p] = "exit" /\ call'[p] = call[p]
      /\ \A q \in Proc \ {p} : pc'[q] = pc[q] /\ call'[q] = call[q]
  BY <1>1, <1>2, GoIs
<1>4. InodeTypes' /\ ImagesKept
  BY <1>1, <1>2, <1>3, ImagesStay DEF InodeTypes, inodeVars
<1>5. LifeInv(p)'
  BY <1>1, <1>2, <1>3 DEF LifeInv, procVars, Unmapping
<1>6. CallInv(p)'
  BY <1>1, <1>2, <1>3 DEF CallInv, Unmapping
<1> QED
  BY <1>1, <1>2, <1>3, <1>4, <1>5, <1>6, AdvanceStep, Zenon DEF inodeVars

\* munmap () finds the mapping on the list of the process.
LEMMA MunmapKeeps ==
  ASSUME FInv, NEW p \in Proc, NEW id, munmap(p, id)
  PROVE  FInv'
<1>1. /\ ProcTypes /\ InodeTypes /\ LifeInv(p) /\ CallInv(p) /\ MapInv(p) /\ call[p] \in Call
  BY AboutProc, Zenon
<1>2. PICK k \in DOMAIN Mmap_list[p] : Go(p, "unmap", [call[p] EXCEPT !.map = Mmap_list[p][k]])
  BY DEF munmap
<1>3. pc[p] = "user" /\ "unmap" \in Labels /\ UNCHANGED <<inodeVars, files, procVars>>
  BY DEF munmap, Labels
<1>4. Mmap_list[p] \in Seq(Mapping) /\ Mmap_list[p][k] \in ToSet(Mmap_list[p])
  BY <1>1 DEF ProcTypes, ToSet
<1>5. Mmap_list[p][k] \in Mapping
  BY <1>4, ElementsAre
<1> DEFINE c == [call[p] EXCEPT !.map = Mmap_list[p][k]]
<1>6. /\ c \in Call /\ c.map = Mmap_list[p][k] /\ c.file = call[p].file
      /\ c.image = call[p].image /\ c.exiting = call[p].exiting
  BY <1>1, <1>5 DEF Call
<1> HIDE DEF c
<1>7. /\ pc'[p] = "unmap" /\ call'[p] = c
      /\ \A q \in Proc \ {p} : pc'[q] = pc[q] /\ call'[q] = call[q]
  BY <1>1, <1>2, <1>3, <1>6, GoIs DEF c
<1>8. InodeTypes' /\ ImagesKept
  BY <1>1, <1>3, <1>6, <1>7, ImagesStay DEF InodeTypes, inodeVars
<1>9. LifeInv(p)'
  BY <1>1, <1>3, <1>6, <1>7, Zenon DEF LifeInv, procVars, Unmapping
<1>10. CallInv(p)'
  BY <1>1, <1>3, <1>4, <1>6, <1>7, Zenon DEF CallInv, Unmapping, procVars
<1>11. Go(p, "unmap", c)
  BY <1>2 DEF c
<1> QED
  BY <1>1, <1>3, <1>6, <1>7, <1>8, <1>9, <1>10, <1>11, AdvanceStep DEF inodeVars

-----------------------------------------------------------------------------
(* Reading and writing.                                                    *)

\* The inode of an executable is denied to writers.
LEMMA Protected ==
  ASSUME CanCount, FInv, NEW q \in Proc, NEW f \in File, Held(q, 0, f)
  PROVE  files[f].inode \in Inode /\ deny_write_cnt[files[f].inode] > 0
<1>1. ProcTypes /\ FileTypes /\ Shared /\ 0 \in Int
  BY DEF FInv, Types
<1>2. IsOpen(f)
  BY <1>1, Zenon DEF Shared, HoldInv
<1>3. PICK i \in Inode : i = files[f].inode
  BY <1>1, <1>2, Zenon DEF Shared, FileInv
<1>4. q \in Executing(i) /\ Executing(i) \subseteq Proc
  BY <1>3, Zenon DEF Executing
<1>5. Cardinality(Executing(i) \ {q}) \in Nat
  BY <1>4, CountProcs
<1>6. Cardinality(Executing(i)) \in Nat /\ Cardinality(Executing(i) \ {q}) = Cardinality(Executing(i)) - 1
  BY <1>4, CountProcs, Zenon
<1> QED
  BY <1>1, <1>3, <1>5, <1>6 DEF Shared, DenyInv

\* A write to an inode that is not denied changes no image.
LEMMA WriteIsHarmless ==
  ASSUME CanCount, FInv, NEW i, NEW v, deny_write_cnt[i] = 0, \A q \in Proc : call'[q].image = call[q].image,
         content' = content \/ content' = [content EXCEPT ![i] = v]
  PROVE  ImagesKept
<1>1. \A q \in Proc : call'[q].image \in {Nil, call[q].image}
  OBVIOUS
<1>2. ASSUME NEW q \in Proc, NEW f \in File, Held(q, 0, f)
      PROVE  content'[files[f].inode] = content[files[f].inode]
  <2>1. files[f].inode \in Inode /\ deny_write_cnt[files[f].inode] > 0
    BY <1>2, Protected
  <2>2. files[f].inode # i
    BY <2>1
  <2>3. content \in [Inode -> Val]
    BY DEF FInv, Types, InodeTypes
  <2> QED
    BY <2>1, <2>2, <2>3
<1> QED
  BY <1>1, <1>2 DEF ImagesKept

\* page_unmap () writes a mapping back unless a process executes the file.
LEMMA UnmapWriteKeeps ==
  ASSUME CanCount, FInv, NEW p \in Proc, NEW v \in Val, page_unmap_write(p, v)
  PROVE  FInv'
<1>1. /\ ProcTypes /\ InodeTypes /\ LifeInv(p) /\ CallInv(p) /\ MapInv(p) /\ call[p] \in Call
  BY AboutProc, Zenon
<1>2. /\ pc[p] = "unmap" /\ Go(p, "unmap_close", call[p]) /\ "unmap_close" \in Labels
      /\ UNCHANGED <<linked, length, deny_write_cnt, files, procVars>>
  BY Zenon DEF page_unmap_write, Labels
<1>3. /\ pc'[p] = "unmap_close" /\ call'[p] = call[p]
      /\ \A q \in Proc \ {p} : pc'[q] = pc[q] /\ call'[q] = call[q]
  BY <1>1, <1>2, GoIs
<1>4. PICK i : i = files[call[p].map.file].inode
  OBVIOUS
<1>5. content' = IF deny_write_cnt[i] > 0 THEN content ELSE [content EXCEPT ![i] = v]
  BY <1>4, Zenon DEF page_unmap_write
<1>6. InodeTypes'
  BY <1>1, <1>2, <1>5, Zenon DEF InodeTypes
<1>7. ImagesKept
  <2>1. CASE deny_write_cnt[i] > 0
    BY <1>3, <1>5, <2>1, ImagesStay
  <2>2. CASE i \notin Inode
    <3>1. content' = content
      BY <1>1, <1>5, <2>2 DEF InodeTypes
    <3> QED
      BY <1>3, <3>1, ImagesStay
  <2>3. CASE i \in Inode /\ ~(deny_write_cnt[i] > 0)
    <3>1. deny_write_cnt[i] = 0
      BY <2>3 DEF FInv, Shared, DenyInv
    <3> QED
      BY <1>3, <1>5, <3>1, WriteIsHarmless, Zenon
  <2> QED
    BY <2>1, <2>2, <2>3
<1>8. LifeInv(p)'
  BY <1>1, <1>2, <1>3, Zenon DEF LifeInv, procVars, Unmapping
<1>9. CallInv(p)'
  BY <1>1, <1>2, <1>3, Zenon DEF CallInv, Unmapping, procVars
<1> QED
  BY <1>1, <1>2, <1>3, <1>6, <1>7, <1>8, <1>9, AdvanceStep

\* remove () takes a name away; open files keep their inode.
LEMMA RemoveKeeps ==
  ASSUME FInv, NEW p \in Proc, NEW n \in Name, remove(p, n)
  PROVE  FInv'
<1>1. InodeTypes /\ FileTypes
  BY DEF FInv, Types
<1>2. /\ linked' = [linked EXCEPT ![n] = Nil]
      /\ UNCHANGED <<length, content, deny_write_cnt, files, procVars, pc, call>>
  BY DEF remove
<1>3. InodeTypes' /\ FileTypes'
  BY <1>1, <1>2 DEF InodeTypes, FileTypes
<1>4. ImagesKept /\ \A f \in File : Untouched(f)
  BY <1>2 DEF ImagesKept, Untouched, IsOpen, NoFile
<1> QED
  BY <1>2, <1>3, <1>4, StillStep

\* create () takes an inode that no directory entry and no open file needs.
LEMMA CreateKeeps ==
  ASSUME FInv, NEW p \in Proc, NEW n \in Name, NEW size \in Size, NEW i \in Inode,
         create(p, n, size, i)
  PROVE  FInv'
<1>1. /\ ProcTypes /\ InodeTypes /\ FileTypes /\ LifeInv(p) /\ CallInv(p) /\ call[p] \in Call
  BY AboutProc, Zenon
<1>2. pc[p] = "user" /\ i \notin Live /\ UNCHANGED <<files, procVars>> /\ "panic" \in Labels
  BY DEF create, Labels
<1>3. CASE off_t(size) < 0
  <2>1. Go(p, "panic", call[p]) /\ UNCHANGED inodeVars
    BY <1>3 DEF create
  <2>2. /\ pc'[p] = "panic" /\ call'[p] = call[p]
        /\ \A q \in Proc \ {p} : pc'[q] = pc[q] /\ call'[q] = call[q]
    BY <1>1, <1>2, <2>1, GoIs
  <2>3. InodeTypes' /\ ImagesKept
    BY <1>1, <2>1, <2>2, ImagesStay, Zenon DEF InodeTypes, inodeVars
  <2>4. LifeInv(p)' /\ CallInv(p)'
    BY <1>1, <1>2, <2>2, Zenon DEF LifeInv, CallInv, procVars, Unmapping
  <2> QED
    BY <1>1, <1>2, <2>1, <2>2, <2>3, <2>4, AdvanceStep, Zenon DEF inodeVars
<1>4. CASE ~(off_t(size) < 0)
  <2>1. /\ linked' = [linked EXCEPT ![n] = i]
        /\ length' = [length EXCEPT ![i] = size]
        /\ content' = [content EXCEPT ![i] = Zero]
        /\ UNCHANGED <<deny_write_cnt, pc, call>>
    BY <1>4, Zenon DEF create
  <2>2. InodeTypes' /\ FileTypes'
    BY <1>1, <1>2, <2>1, SyscallAssumption, Zenon DEF InodeTypes, FileTypes
  <2>3. \A f \in File : files[f].inode # i
    BY <1>2 DEF Live
  <2>4. ImagesKept
    <3>1. \A j : j # i => content'[j] = content[j]
      BY <1>1, <2>1 DEF InodeTypes
    <3> QED
      BY <2>1, <2>3, <3>1, Zenon DEF ImagesKept
  <2>5. \A f \in File : Untouched(f)
    BY <1>2 DEF Untouched, IsOpen, NoFile
  <2> QED
    BY <1>2, <2>1, <2>2, <2>4, <2>5, StillStep
<1> QED
  BY <1>3, <1>4

\* What a process may have to close is an open file.
LEMMA HeldIsOpen ==
  ASSUME FInv, NEW p \in Proc, NEW x \in Int, NEW f \in File, Held(p, x, f)
  PROVE  IsOpen(f) /\ files[f].inode \in Inode
BY Zenon DEF FInv, Shared, HoldInv, FileInv

\* get_file () finds an open file behind a descriptor.
LEMMA TableOpen ==
  ASSUME FInv, NEW p \in Proc, NEW d \in Fd, pc[p] # "close_fd", get_file(p, d) # Nil
  PROVE  /\ get_file(p, d) \in File /\ Held(p, d, get_file(p, d)) /\ d \in Int /\ d # 0 /\ d # 1
         /\ IsOpen(get_file(p, d)) /\ files[get_file(p, d)].inode \in Inode
<1>1. get_file(p, d) \in File /\ d \in Int /\ d # 0 /\ d # 1
  BY SyscallAssumption DEF FInv, Types, ProcTypes, get_file, Fd, FD_BASE
<1>2. Held(p, d, get_file(p, d))
  BY DEF Held, FdHeld, get_file
<1> QED
  BY <1>1, <1>2, HeldIsOpen

\* Moving the position of an open file leaves it open.
LEMMA PosMoves ==
  ASSUME FInv, NEW f \in File, IsOpen(f), NEW n \in Nat, files' = [files EXCEPT ![f].pos = n]
  PROVE  FileTypes' /\ \A g \in File : Untouched(g)
<1>1. FileTypes /\ files[f].inode \in Inode /\ Nil \notin Inode
  BY SyscallAssumption DEF FInv, Types, Shared, FileInv
<1>2. FileTypes'
  BY <1>1 DEF FileTypes
<1>3. \A g \in File \ {f} : files'[g] = files[g]
  BY <1>1 DEF FileTypes
<1>4. files'[f].inode = files[f].inode /\ files'[f].deny_write = files[f].deny_write
  BY <1>1 DEF FileTypes
<1>5. IsOpen(f)'
  BY <1>1, <1>4 DEF IsOpen, NoFile
<1> QED
  BY <1>2, <1>3, <1>4, <1>5 DEF Untouched, IsOpen, NoFile

\* A conversion to off_t and a transfer give numbers.
LEMMA BytesIsNatural ==
  ASSUME FInv, NEW i \in Inode, NEW pos \in Nat, NEW size \in Offset
  PROVE  off_t(size) \in Int /\ Bytes(i, pos, size) \in Nat
<1>1. size \in Nat /\ 2 ^ Width \in Int /\ 2 ^ (Width - 1) \in Int
  BY SyscallAssumption
<1>2. off_t(size) \in Int
  BY <1>1 DEF off_t
<1>3. length[i] \in Int
  <2>1. length[i] \in Size
    BY DEF FInv, Types, InodeTypes
  <2>2. PICK w \in Int : w = 2 ^ Width - 1
    BY <1>1
  <2>3. length[i] \in 0 .. w
    BY <2>1, <2>2, SyscallAssumption, Zenon
  <2> QED
    BY <2>2, <2>3
<1> QED
  BY <1>2, <1>3 DEF Bytes

\* read () moves a position.
LEMMA ReadKeeps ==
  ASSUME FInv, NEW p \in Proc, NEW d \in Fd, NEW size \in Offset, read(p, d, size)
  PROVE  FInv'
<1>1. PICK f : f = get_file(p, d)
  OBVIOUS
<1>2. f \in File /\ IsOpen(f) /\ files[f].inode \in Inode /\ UNCHANGED <<inodeVars, procVars, pc, call>>
  BY <1>1, TableOpen DEF read
<1>3. InodeTypes /\ FileTypes /\ files[f].pos \in Nat
  BY <1>2 DEF FInv, Types, FileTypes
<1>4. PICK n \in 0 .. Bytes(files[f].inode, files[f].pos, size) :
        files' = [files EXCEPT ![f].pos = @ + n]
  BY <1>1, Zenon DEF read
<1>5. PICK m \in Nat : m = files[f].pos + n
  BY <1>2, <1>3, <1>4, BytesIsNatural
<1>6. FileTypes' /\ \A g \in File : Untouched(g)
  <2>1. files' = [files EXCEPT ![f].pos = m]
    BY <1>4, <1>5
  <2> QED
    BY <1>2, <2>1, PosMoves, Zenon
<1>7. InodeTypes' /\ ImagesKept
  BY <1>2, <1>3 DEF InodeTypes, inodeVars, ImagesKept
<1> QED
  BY <1>2, <1>6, <1>7, StillStep DEF inodeVars

\* write () moves a position and changes an inode that nobody executes.
LEMMA WriteKeeps ==
  ASSUME CanCount, FInv, NEW p \in Proc, NEW d \in Fd, NEW size \in Offset, NEW v \in Val,
         write(p, d, size, v)
  PROVE  FInv'
<1>1. PICK f : f = get_file(p, d)
  OBVIOUS
<1>2. /\ f \in File /\ IsOpen(f) /\ files[f].inode \in Inode
      /\ UNCHANGED <<linked, length, deny_write_cnt, procVars, pc, call>>
  BY <1>1, TableOpen DEF write
<1>3. InodeTypes /\ FileTypes /\ files[f].pos \in Nat
  BY <1>2 DEF FInv, Types, FileTypes
<1>4. PICK i \in Inode : i = files[f].inode
  BY <1>2
<1>5. deny_write_cnt[i] \in Nat
  BY DEF FInv, Shared, DenyInv
<1>6. PICK n \in 0 .. (IF deny_write_cnt[i] > 0 THEN 0 ELSE Bytes(i, files[f].pos, size)) :
        /\ files' = [files EXCEPT ![f].pos = @ + n]
        /\ content' = IF n > 0 THEN [content EXCEPT ![i] = v] ELSE content
  BY <1>1, <1>4, Zenon DEF write
<1>7. n \in Nat /\ (n > 0 => deny_write_cnt[i] = 0)
  BY <1>3, <1>5, <1>6, BytesIsNatural
<1>8. PICK m \in Nat : m = files[f].pos + n
  BY <1>3, <1>7
<1>9. FileTypes' /\ \A g \in File : Untouched(g)
  <2>1. files' = [files EXCEPT ![f].pos = m]
    BY <1>6, <1>8
  <2> QED
    BY <1>2, <2>1, PosMoves, Zenon
<1>10. InodeTypes'
  BY <1>2, <1>3, <1>6 DEF InodeTypes
<1>11. ImagesKept
  <2>1. CASE n > 0
    BY <1>2, <1>7, <1>6, <2>1, WriteIsHarmless
  <2>2. CASE ~(n > 0)
    BY <1>2, <1>6, <2>2 DEF ImagesKept
  <2> QED
    BY <2>1, <2>2
<1> QED
  BY <1>2, <1>9, <1>10, <1>11, StillStep

\* seek () moves a position, or stops the kernel.
LEMMA SeekKeeps ==
  ASSUME FInv, NEW p \in Proc, NEW d \in Fd, NEW position \in Offset, seek(p, d, position)
  PROVE  FInv'
<1>1. PICK f : f = get_file(p, d)
  OBVIOUS
<1>2. /\ f \in File /\ IsOpen(f) /\ files[f].inode \in Inode /\ pc[p] = "user"
      /\ UNCHANGED <<inodeVars, procVars>> /\ "panic" \in Labels
  BY <1>1, TableOpen DEF seek, Labels
<1>3. /\ ProcTypes /\ InodeTypes /\ FileTypes /\ LifeInv(p) /\ CallInv(p) /\ call[p] \in Call
  BY AboutProc, Zenon
<1>4. CASE off_t(position) < 0
  <2> DEFINE c == [call[p] EXCEPT !.fd = d]
  <2>1. /\ c \in Call /\ c.file = call[p].file /\ c.image = call[p].image
        /\ c.exiting = call[p].exiting
    BY <1>3 DEF Call
  <2>2. Go(p, "panic", c) /\ UNCHANGED files
    BY <1>4 DEF seek
  <2> HIDE DEF c
  <2>3. /\ pc'[p] = "panic" /\ call'[p] = c
        /\ \A q \in Proc \ {p} : pc'[q] = pc[q] /\ call'[q] = call[q]
    BY <1>2, <1>3, <2>1, <2>2, GoIs, Zenon
  <2>4. InodeTypes' /\ ImagesKept
    BY <1>2, <1>3, <2>1, <2>3, ImagesStay, Zenon DEF InodeTypes, inodeVars
  <2>5. LifeInv(p)' /\ CallInv(p)'
    BY <1>2, <1>3, <2>1, <2>3, Zenon DEF LifeInv, CallInv, procVars, Unmapping
  <2> QED
    BY <1>2, <1>3, <2>1, <2>2, <2>3, <2>4, <2>5, AdvanceStep DEF inodeVars
<1>5. CASE ~(off_t(position) < 0)
  <2>1. PICK n \in Nat : n = off_t(position)
    BY <1>2, <1>5, BytesIsNatural
  <2>2. files' = [files EXCEPT ![f].pos = n] /\ UNCHANGED <<pc, call>>
    BY <1>1, <1>5, <2>1 DEF seek
  <2>3. FileTypes' /\ \A g \in File : Untouched(g)
    BY <1>2, <2>2, PosMoves, Zenon
  <2>4. InodeTypes' /\ ImagesKept
    BY <1>2, <1>3, <2>2 DEF InodeTypes, inodeVars, ImagesKept
  <2> QED
    BY <1>2, <2>2, <2>3, <2>4, StillStep DEF inodeVars
<1> QED
  BY <1>4, <1>5

-----------------------------------------------------------------------------
(* Clearing what points to a file that is closed.                          *)

\* After the executable is closed, process_exit () forgets it and goes through the
\* mappings.
LEMMA ExitClearKeeps ==
  ASSUME FInv, NEW p \in Proc, exit_clear(p)
  PROVE  FInv'
<1>1. /\ ProcTypes /\ InodeTypes /\ FileTypes /\ LifeInv(p) /\ CallInv(p) /\ MapInv(p)
      /\ call[p] \in Call /\ Idle \in Call /\ Nil \notin File
  BY AboutProc, Zenon
<1>2. /\ pc[p] = "exit_clear" /\ Exec_file' = [Exec_file EXCEPT ![p] = Nil]
      /\ UNCHANGED <<inodeVars, files, Fd_table, Mmap_list, next_mapid>>
  BY DEF exit_clear
<1>3. PICK label \in {"none", "unmap"}, c \in Call :
        /\ Go(p, label, c) /\ c.file = Nil /\ c.image = Nil
        /\ label = "none" => Mmap_list[p] = <<>> /\ ~c.exiting
        /\ label = "unmap" => c.map \in ToSet(Mmap_list[p])
  <2>1. CASE Mmap_list[p] = <<>>
    BY <1>1, <2>1 DEF exit_clear, Idle
  <2>2. CASE Mmap_list[p] # <<>>
    <3>1. Mmap_list[p] \in Seq(Mapping)
      BY <1>1 DEF ProcTypes
    <3>2. Head(Mmap_list[p]) \in Mapping /\ Head(Mmap_list[p]) \in ToSet(Mmap_list[p])
      BY <2>2, <3>1, PopFront
    <3> DEFINE c == [Idle EXCEPT !.map = Head(Mmap_list[p]), !.exiting = TRUE]
    <3>3. c \in Call /\ c.file = Nil /\ c.image = Nil /\ c.map = Head(Mmap_list[p])
      BY <1>1, <3>2, Zenon DEF Call, Idle
    <3>4. Go(p, "unmap", c)
      BY <2>2 DEF exit_clear
    <3> QED
      BY <3>2, <3>3, <3>4, Zenon
  <2> QED
    BY <2>1, <2>2, Zenon
<1>4. /\ label \in Labels /\ pc' \in [Proc -> Labels] /\ pc'[p] = label
      /\ call' \in [Proc -> Call] /\ call'[p] = c
      /\ \A q \in Proc \ {p} : pc'[q] = pc[q] /\ call'[q] = call[q]
  <2>1. label \in Labels
    BY <1>3 DEF Labels
  <2> QED
    BY <1>1, <1>3, <2>1, GoIs, Zenon
<1>5. Exec_file' \in [Proc -> File \cup {Nil}] /\ Exec_file'[p] = Nil
  BY <1>1, <1>2 DEF ProcTypes
<1>6. Types'
  BY <1>1, <1>2, <1>4, <1>5 DEF Types, InodeTypes, FileTypes, ProcTypes, inodeVars
<1>7. \A q \in Proc \ {p} : SameProc(q)
  BY <1>1, <1>2, <1>4 DEF SameProc, ProcTypes
<1>8. LifeInv(p)'
  BY <1>1, <1>2, <1>3, <1>4, <1>5, Zenon DEF LifeInv, Unmapping
<1>9. CallInv(p)' /\ MapInv(p)'
  BY <1>1, <1>2, <1>3, <1>4, Zenon DEF CallInv, MapInv, Unmapping
<1>10. \A x \in Int, f \in File : Held(p, x, f)' <=> Held(p, x, f)
  <2>1. \A x \in Fd, f \in File : FdHeld(p, x, f)' <=> FdHeld(p, x, f)
    BY <1>2, <1>3, <1>4, FdSame, Zenon
  <2>2. \A f \in File : ~ExecHeld(p, f)' /\ ~ExecHeld(p, f)
    BY <1>1, <1>2, <1>5, Zenon DEF ExecHeld
  <2>3. \A x \in Int, f \in File : MapHeld(p, x, f)' <=> MapHeld(p, x, f)
    BY <1>2, <1>3, <1>4, MapSame, Zenon
  <2>4. \A f \in File : ~CallHeld(p, f)' /\ ~CallHeld(p, f)
    BY <1>1, <1>2, <1>3, <1>4, Zenon DEF CallHeld, CallInv
  <2> QED
    BY <2>1, <2>2, <2>3, <2>4, Zenon DEF Held
<1>11. ImagesKept /\ \A f \in File : Untouched(f)
  BY <1>2, <1>3, <1>4, Zenon DEF ImagesKept, Untouched, IsOpen, NoFile, inodeVars
<1> QED
  BY <1>2, <1>6, <1>7, <1>8, <1>9, <1>10, <1>11, QuietStep DEF inodeVars

\* close () clears the entry it closed.
LEMMA CloseFdKeeps ==
  ASSUME FInv, NEW p \in Proc, close_fd(p)
  PROVE  FInv'
<1>1. /\ ProcTypes /\ InodeTypes /\ FileTypes /\ LifeInv(p) /\ CallInv(p) /\ MapInv(p)
      /\ call[p] \in Call /\ [Idle EXCEPT !.image = call[p].image] \in Call /\ Nil \notin File
  BY AboutProc
<1>2. /\ pc[p] = "close_fd" /\ Fd_table' = [Fd_table EXCEPT ![p][call[p].fd] = Nil] /\ Return(p)
      /\ UNCHANGED <<inodeVars, files, Exec_file, Mmap_list, next_mapid>>
  BY DEF close_fd
<1>3. /\ "user" \in Labels /\ pc' \in [Proc -> Labels] /\ pc'[p] = "user"
      /\ call' \in [Proc -> Call] /\ call'[p] = [Idle EXCEPT !.image = call[p].image]
      /\ \A q \in Proc \ {p} : pc'[q] = pc[q] /\ call'[q] = call[q]
  BY <1>1, <1>2, GoIs DEF Labels, Return
<1>4. call'[p].file = Nil /\ call'[p].image = call[p].image /\ ~call'[p].exiting
  BY <1>3 DEF Idle
<1>5. PICK d \in Fd : d = call[p].fd
  BY <1>1, <1>2 DEF CallInv
<1>6. /\ Fd_table' \in [Proc -> [Fd -> File \cup {Nil}]]
      /\ Fd_table'[p][d] = Nil /\ \A x \in Fd \ {d} : Fd_table'[p][x] = Fd_table[p][x]
      /\ \A q \in Proc \ {p} : Fd_table'[q] = Fd_table[q]
  BY <1>1, <1>2, <1>5 DEF ProcTypes
<1>7. Types'
  BY <1>1, <1>2, <1>3, <1>6 DEF Types, InodeTypes, FileTypes, ProcTypes, inodeVars
<1>8. \A q \in Proc \ {p} : SameProc(q)
  BY <1>2, <1>3, <1>6 DEF SameProc
<1>9. LifeInv(p)' /\ CallInv(p)' /\ MapInv(p)'
  BY <1>1, <1>2, <1>3, <1>4 DEF LifeInv, CallInv, MapInv, Unmapping
<1>10. \A x \in Int, f \in File : Held(p, x, f)' <=> Held(p, x, f)
  <2>1. \A x \in Fd, f \in File : FdHeld(p, x, f)' <=> FdHeld(p, x, f)
    BY <1>1, <1>2, <1>3, <1>5, <1>6 DEF FdHeld
  <2>2. \A f \in File : ExecHeld(p, f)' <=> ExecHeld(p, f)
    BY <1>2, <1>3, ExecSame
  <2>3. \A x \in Int, f \in File : MapHeld(p, x, f)' <=> MapHeld(p, x, f)
    BY <1>2, <1>3, MapSame
  <2>4. \A f \in File : ~CallHeld(p, f)' /\ ~CallHeld(p, f)
    BY <1>1, <1>2, <1>4 DEF CallHeld, CallInv
  <2> QED
    BY <2>1, <2>2, <2>3, <2>4, Zenon DEF Held
<1>11. ImagesKept /\ \A f \in File : Untouched(f)
  BY <1>2, <1>3, <1>4, Zenon DEF ImagesKept, Untouched, IsOpen, NoFile, inodeVars
<1> QED
  BY <1>2, <1>7, <1>8, <1>9, <1>10, <1>11, QuietStep DEF inodeVars

\* page_unmap () takes the mapping whose file it closed off the list, and no other.
LEMMA UnmapRemoveKeeps ==
  ASSUME FInv, NEW p \in Proc, page_unmap_remove(p)
  PROVE  FInv'
<1>1. /\ ProcTypes /\ InodeTypes /\ FileTypes /\ LifeInv(p) /\ CallInv(p) /\ MapInv(p)
      /\ call[p] \in Call /\ Idle \in Call /\ [Idle EXCEPT !.image = call[p].image] \in Call
      /\ Nil \notin File
  BY AboutProc
<1> DEFINE list == Mmap_list[p]
           rest == RemoveAt(list, Place(list, call[p].map))
<1>2. /\ pc[p] = "unmap_remove" /\ Mmap_list' = [Mmap_list EXCEPT ![p] = rest]
      /\ IF ~call[p].exiting THEN Return(p)
         ELSE IF rest = <<>> THEN Go(p, "none", Idle)
         ELSE Go(p, "unmap", [call[p] EXCEPT !.map = Head(rest)])
      /\ UNCHANGED <<inodeVars, files, Fd_table, Exec_file, next_mapid>>
  BY DEF page_unmap_remove
<1>3. /\ list \in Seq(Mapping) /\ call[p].map \in ToSet(list)
      /\ \A i, j \in 1 .. Len(list) : list[i] = list[j] => i = j
  BY <1>1, <1>2 DEF ProcTypes, CallInv, MapInv, Unmapping
<1>4. Place(list, call[p].map) \in 1 .. Len(list) /\ list[Place(list, call[p].map)] = call[p].map
  <2> HIDE DEF list
  <2> QED
    BY <1>3, PlaceIs, Zenon
<1>5. /\ rest \in Seq(Mapping) /\ ToSet(rest) = ToSet(list) \ {call[p].map}
      /\ \A i, j \in 1 .. Len(rest) : rest[i] = rest[j] => i = j
  <2> HIDE DEF list
  <2>1. PICK n \in 1 .. Len(list) : n = Place(list, call[p].map)
    BY <1>4
  <2>2. /\ RemoveAt(list, n) \in Seq(Mapping) /\ ToSet(RemoveAt(list, n)) = ToSet(list) \ {list[n]}
        /\ \A i, j \in 1 .. Len(RemoveAt(list, n)) :
             RemoveAt(list, n)[i] = RemoveAt(list, n)[j] => i = j
    BY <1>3, RemoveElement
  <2> QED
    BY <1>4, <2>1, <2>2, Zenon DEF rest
<1> HIDE DEF rest
<1>6. PICK label \in {"user", "none", "unmap"}, c \in Call :
        /\ Go(p, label, c) /\ c.file = Nil /\ c.image \in {Nil, call[p].image}
        /\ c.exiting => call[p].exiting /\ label = "unmap"
        /\ label = "none" => call[p].exiting /\ rest = <<>>
        /\ label = "unmap" => c.map \in ToSet(rest)
  <2>1. CASE ~call[p].exiting
    BY <1>1, <1>2, <2>1 DEF Return, Idle
  <2>2. CASE call[p].exiting /\ rest = <<>>
    BY <1>1, <1>2, <2>2 DEF Idle
  <2>3. CASE call[p].exiting /\ rest # <<>>
    <3>1. Head(rest) \in Mapping /\ Head(rest) \in ToSet(rest)
      BY <1>5, <2>3, PopFront, Zenon
    <3> DEFINE c == [call[p] EXCEPT !.map = Head(rest)]
    <3>2. c \in Call /\ c.file = call[p].file /\ c.image = call[p].image /\ c.map = Head(rest)
      BY <1>1, <3>1 DEF Call
    <3>3. Go(p, "unmap", c)
      BY <1>2, <2>3
    <3>4. call[p].file = Nil
      BY <1>1, <1>2 DEF CallInv
    <3> QED
      BY <2>3, <3>1, <3>2, <3>3, <3>4, Zenon
  <2> QED
    BY <2>1, <2>2, <2>3, Zenon
<1>7. /\ label \in Labels /\ pc' \in [Proc -> Labels] /\ pc'[p] = label
      /\ call' \in [Proc -> Call] /\ call'[p] = c
      /\ \A q \in Proc \ {p} : pc'[q] = pc[q] /\ call'[q] = call[q]
  BY <1>1, <1>6, GoIs DEF Labels
<1>8. /\ Mmap_list' \in [Proc -> Seq(Mapping)] /\ Mmap_list'[p] = rest
      /\ \A q \in Proc \ {p} : Mmap_list'[q] = Mmap_list[q]
  BY <1>1, <1>2, <1>5 DEF ProcTypes
<1>9. Types'
  BY <1>1, <1>2, <1>7, <1>8 DEF Types, InodeTypes, FileTypes, ProcTypes, inodeVars
<1>10. \A q \in Proc \ {p} : SameProc(q)
  BY <1>2, <1>7, <1>8 DEF SameProc
<1>11. LifeInv(p)'
  BY <1>1, <1>2, <1>6, <1>7, <1>8 DEF LifeInv, Unmapping
<1>12. CallInv(p)'
  BY <1>6, <1>7, <1>8 DEF CallInv, Unmapping
<1>13. MapInv(p)'
  BY <1>1, <1>2, <1>5, <1>8 DEF MapInv
<1>14. \A x \in Int, f \in File : Held(p, x, f)' <=> Held(p, x, f)
  <2>1. \A x \in Fd, f \in File : FdHeld(p, x, f)' <=> FdHeld(p, x, f)
    BY <1>2, <1>6, <1>7, FdSame
  <2>2. \A f \in File : ExecHeld(p, f)' <=> ExecHeld(p, f)
    BY <1>2, <1>6, <1>7, ExecSame
  <2>3. \A x \in Int, f \in File : MapHeld(p, x, f)' <=> MapHeld(p, x, f)
    BY <1>2, <1>5, <1>6, <1>7, <1>8 DEF MapHeld
  <2>4. \A f \in File : ~CallHeld(p, f)' /\ ~CallHeld(p, f)
    BY <1>1, <1>2, <1>6, <1>7 DEF CallHeld, CallInv
  <2> QED
    BY <2>1, <2>2, <2>3, <2>4, Zenon DEF Held
<1>15. ImagesKept /\ \A f \in File : Untouched(f)
  BY <1>2, <1>6, <1>7 DEF ImagesKept, Untouched, IsOpen, NoFile, inodeVars
<1> QED
  BY <1>2, <1>9, <1>10, <1>11, <1>12, <1>13, <1>14, <1>15, QuietStep DEF inodeVars

-----------------------------------------------------------------------------
(* Opening and closing.                                                    *)

\* What p alone changes of the places is all that changes.
LEMMA ClosesIs ==
  ASSUME FInv, NEW p \in Proc, \A q \in Proc \ {p} : SameProc(q), NEW S, FileClose(S),
         \A f \in S : f \in File /\ \E y \in Int : Held(p, y, f),
         \A x \in Int, f \in File : Held(p, x, f)' <=> Held(p, x, f) /\ f \notin S
  PROVE  Closes(S)
<1>1. ASSUME NEW q \in Proc, NEW x \in Int, NEW f \in File
      PROVE  Held(q, x, f)' <=> Held(q, x, f) /\ f \notin S
  <2>1. CASE q = p
    BY <2>1, Zenon
  <2>2. CASE q # p
    <3>1. Held(q, x, f)' <=> Held(q, x, f)
      BY <2>2, SameHeld, Zenon
    <3>2. f \in S => ~Held(q, x, f)
      BY <2>2, Zenon DEF FInv, Shared, HoldInv
    <3> QED
      BY <3>1, <3>2
  <2> QED
    BY <2>1, <2>2
<1> QED
  BY <1>1, Zenon DEF Closes

\* A step of p that closes files it holds, none of them its executable.
LEMMA ClosingStep ==
  ASSUME CanCount, FInv, Types', NEW p \in Proc, \A q \in Proc \ {p} : SameProc(q),
         LifeInv(p)', CallInv(p)', MapInv(p)',
         content' = content, call'[p].image \in {Nil, call[p].image}, NEW S, FileClose(S),
         \A f \in S : f \in File /\ \E y \in Int \ {0} : Held(p, y, f),
         \A x \in Int, f \in File : Held(p, x, f)' <=> Held(p, x, f) /\ f \notin S
  PROVE  FInv'
<1>1. Closes(S)
  <2>1. \A f \in S : f \in File /\ \E y \in Int : Held(p, y, f)
    BY Zenon
  <2> QED
    BY <2>1, ClosesIs, Zenon
<1>2. ASSUME NEW f \in S PROVE IsOpen(f) /\ \A q \in Proc : ~Held(q, 0, f)
  <2>1. PICK y \in Int : y # 0 /\ Held(p, y, f) /\ f \in File
    BY Zenon
  <2>2. IsOpen(f)
    BY <2>1, HeldIsOpen, Zenon
  <2>3. 0 \in Int
    OBVIOUS
  <2>4. \A q \in Proc : ~Held(q, 0, f)
    BY <2>1, <2>3, Zenon DEF FInv, Shared, HoldInv
  <2> QED
    BY <2>2, <2>4, Zenon
<1>3. \A q \in Proc : call'[q].image \in {Nil, call[q].image}
  BY DEF SameProc
<1>4. Shared /\ FileTypes
  BY DEF FInv, Types
<1>5. Shared'
  BY <1>1, <1>2, <1>3, <1>4, SharedClosed, Zenon
<1>6. Local'
  BY OneMoves, Zenon DEF FInv
<1> QED
  BY <1>5, <1>6, Zenon DEF FInv

\* The same for a single place y, which held nothing but g.
LEMMA ClosingPlace ==
  ASSUME CanCount, FInv, Types', NEW p \in Proc, \A q \in Proc \ {p} : SameProc(q),
         LifeInv(p)', CallInv(p)', MapInv(p)',
         content' = content, call'[p].image \in {Nil, call[p].image},
         NEW g \in File, NEW y \in Int \ {0}, Held(p, y, g), FileClose({g}),
         \A f \in File : Held(p, y, f) => f = g,
         \A x \in Int, f \in File : Held(p, x, f)' <=> Held(p, x, f) /\ x # y
  PROVE  FInv'
<1>1. ASSUME NEW x \in Int, NEW f \in File
      PROVE  Held(p, x, f)' <=> Held(p, x, f) /\ f \notin {g}
  <2>1. ASSUME Held(p, x, f), f = g PROVE x = y
    <3>1. Held(p, x, g) /\ y \in Int
      BY <2>1
    <3> QED
      BY <3>1, OnePlace, Zenon
  <2>2. Held(p, x, f) /\ x = y => f = g
    BY Zenon
  <2> QED
    BY <2>1, <2>2, Zenon
<1>2. \A f \in {g} : f \in File /\ \E z \in Int \ {0} : Held(p, z, f)
  BY Zenon
<1> QED
  BY <1>1, <1>2, ClosingStep, Zenon

\* A step of p that opens file g and keeps it in a local.
LEMMA OpeningStep ==
  ASSUME FInv, NEW p \in Proc, pc[p] = "user", NEW g \in FreeFiles, NEW i \in Inode, FileOpen(g, i),
         NEW label \in {"open_fd", "mmap_pages"}, Go(p, label, [call[p] EXCEPT !.file = g]),
         UNCHANGED <<inodeVars, procVars>>
  PROVE  FInv'
<1>1. /\ ProcTypes /\ InodeTypes /\ FileTypes /\ LifeInv(p) /\ CallInv(p) /\ MapInv(p)
      /\ call[p] \in Call /\ Nil \notin File /\ Shared
  BY AboutProc, Zenon
<1>2. g \in File /\ label \in Labels
  BY DEF FreeFiles, Labels
<1> DEFINE c == [call[p] EXCEPT !.file = g]
<1>3. c \in Call /\ c.file = g /\ c.image = call[p].image /\ c.exiting = call[p].exiting
  BY <1>1, <1>2 DEF Call
<1> HIDE DEF c
<1>4. /\ pc' \in [Proc -> Labels] /\ pc'[p] = label
      /\ call' \in [Proc -> Call] /\ call'[p] = c
      /\ \A q \in Proc \ {p} : pc'[q] = pc[q] /\ call'[q] = call[q]
  BY <1>1, <1>2, <1>3, GoIs DEF c
<1>5. \A q \in Proc \ {p} : SameProc(q)
  BY <1>4 DEF SameProc, procVars
<1>6. FileTypes'
  BY <1>1, <1>2, Zenon DEF FileTypes, FileOpen, NoFile
<1>7. Types'
  BY <1>1, <1>4, <1>6 DEF Types, InodeTypes, ProcTypes, inodeVars, procVars
<1>8. LifeInv(p)' /\ CallInv(p)' /\ MapInv(p)'
  <2>1. LifeInv(p)'
    BY <1>1, <1>3, <1>4 DEF LifeInv, procVars, Unmapping
  <2>2. CallInv(p)'
    BY <1>1, <1>2, <1>3, <1>4 DEF CallInv, Unmapping
  <2>3. MapInv(p)'
    BY <1>1 DEF MapInv, procVars
  <2> QED
    BY <2>1, <2>2, <2>3
<1>9. \A x \in Int, f \in File : Held(p, x, f)' <=> Held(p, x, f) \/ (x = 1 /\ f = g)
  <2>1. \A x \in Fd, f \in File : FdHeld(p, x, f)' <=> FdHeld(p, x, f)
    BY <1>4, FdSame DEF procVars
  <2>2. \A f \in File : ExecHeld(p, f)' <=> ExecHeld(p, f)
    BY <1>4, ExecSame DEF procVars
  <2>3. \A x \in Int, f \in File : MapHeld(p, x, f)' <=> MapHeld(p, x, f)
    BY <1>4, MapSame DEF procVars
  <2>4. \A f \in File : ~CallHeld(p, f) /\ (CallHeld(p, f)' <=> f = g)
    BY <1>1, <1>3, <1>4 DEF CallHeld, CallInv
  <2> QED
    BY <2>1, <2>2, <2>3, <2>4, Zenon DEF Held
<1>10. \A q \in Proc, x \in Int, f \in File :
         Held(q, x, f)' <=> Held(q, x, f) \/ (q = p /\ x = 1 /\ f = g)
  BY <1>5, <1>9, SameHeld, Zenon
<1>11. ImagesKept /\ deny_write_cnt' = deny_write_cnt
  BY <1>3, <1>4, ImagesStay DEF inodeVars
<1>12. Shared'
  <2>1. 1 \in Int \ {0}
    OBVIOUS
  <2> QED
    BY <1>1, <1>10, <1>11, <2>1, SharedOpened
<1>13. Local'
  BY <1>5, <1>8, OneMoves, Zenon DEF FInv
<1> QED
  BY <1>7, <1>12, <1>13 DEF FInv

\* open () and mmap () hold the new file in a local until it has a place.
LEMMA OpenKeeps ==
  ASSUME FInv, NEW p \in Proc, NEW n \in Name, open(p, n)
  PROVE  FInv'
<1>1. PICK f \in FreeFiles : FileOpen(f, linked[n]) /\ Go(p, "open_fd", [call[p] EXCEPT !.file = f])
  BY DEF open
<1>2. linked[n] \in Inode
  BY DEF open, FInv, Types, InodeTypes
<1> QED
  BY <1>1, <1>2, OpeningStep DEF open

\* mmap () opens the inode behind the descriptor once more.
LEMMA MmapKeeps ==
  ASSUME FInv, NEW p \in Proc, NEW d \in Fd, mmap(p, d)
  PROVE  FInv'
<1>1. PICK f \in FreeFiles : /\ FileOpen(f, files[get_file(p, d)].inode)
                             /\ Go(p, "mmap_pages", [call[p] EXCEPT !.file = f])
  BY DEF mmap
<1>2. files[get_file(p, d)].inode \in Inode
  BY TableOpen DEF mmap
<1> QED
  BY <1>1, <1>2, OpeningStep DEF mmap

\* FileClose leaves the types of files alone.
LEMMA CloseTypes ==
  ASSUME FileTypes, NEW S, FileClose(S)
  PROVE  FileTypes'
BY DEF FileTypes, FileClose, NoFile

\* The file of a call that failed is closed, and the call returns.
LEMMA CloseFileKeeps ==
  ASSUME CanCount, FInv, NEW p \in Proc, close_file(p)
  PROVE  FInv'
<1>1. /\ ProcTypes /\ InodeTypes /\ FileTypes /\ LifeInv(p) /\ CallInv(p) /\ MapInv(p)
      /\ call[p] \in Call /\ [Idle EXCEPT !.image = call[p].image] \in Call /\ Nil \notin File
  BY AboutProc
<1>2. /\ pc[p] = "close_file" /\ FileClose({call[p].file}) /\ Return(p)
      /\ UNCHANGED <<linked, length, content, procVars>>
  BY DEF close_file
<1>3. /\ "user" \in Labels /\ pc' \in [Proc -> Labels] /\ pc'[p] = "user"
      /\ call' \in [Proc -> Call] /\ call'[p] = [Idle EXCEPT !.image = call[p].image]
      /\ \A q \in Proc \ {p} : pc'[q] = pc[q] /\ call'[q] = call[q]
  BY <1>1, <1>2, GoIs DEF Labels, Return
<1>4. call'[p].file = Nil /\ call'[p].image = call[p].image /\ ~call'[p].exiting
  BY <1>3 DEF Idle
<1>5. PICK g \in File : g = call[p].file
  BY <1>1, <1>2 DEF CallInv, Call
<1>6. \A q \in Proc \ {p} : SameProc(q)
  BY <1>2, <1>3 DEF SameProc, procVars
<1>7. Types'
  BY <1>1, <1>2, <1>3, CloseTypes DEF Types, InodeTypes, ProcTypes, procVars
<1>8. LifeInv(p)' /\ CallInv(p)' /\ MapInv(p)'
  BY <1>1, <1>2, <1>3, <1>4 DEF LifeInv, CallInv, MapInv, procVars, Unmapping
<1>9. /\ Held(p, 1, g) /\ \A f \in File : Held(p, 1, f) => f = g
      /\ 1 \in Int \ {0}
  BY <1>1, <1>5, PlacesApart DEF CallHeld
<1>10. \A x \in Int, f \in File : Held(p, x, f)' <=> Held(p, x, f) /\ x # 1
  <2>1. \A x \in Fd, f \in File : FdHeld(p, x, f)' <=> FdHeld(p, x, f)
    BY <1>2, <1>3, FdSame DEF procVars
  <2>2. \A f \in File : ExecHeld(p, f)' <=> ExecHeld(p, f)
    BY <1>2, <1>3, ExecSame DEF procVars
  <2>3. \A x \in Int, f \in File : MapHeld(p, x, f)' <=> MapHeld(p, x, f)
    BY <1>2, <1>3, MapSame DEF procVars
  <2>4. \A f \in File : ~CallHeld(p, f)'
    BY <1>1, <1>4 DEF CallHeld
  <2>5. \A f \in File : ~MapHeld(p, 1, f)
    BY <1>1, NoMapping
  <2>6. 1 \notin Fd /\ 1 # 0
    BY SyscallAssumption DEF Fd, FD_BASE
  <2> QED
    BY <2>1, <2>2, <2>3, <2>4, <2>5, <2>6, Zenon DEF Held
<1> QED
  BY <1>2, <1>4, <1>5, <1>6, <1>7, <1>8, <1>9, <1>10, ClosingPlace, Zenon

\* close () closes the file of a descriptor; the entry is not looked at again before
\* it is cleared.
LEMMA CloseKeeps ==
  ASSUME CanCount, FInv, NEW p \in Proc, NEW d \in Fd, close(p, d)
  PROVE  FInv'
<1>1. /\ ProcTypes /\ InodeTypes /\ FileTypes /\ LifeInv(p) /\ CallInv(p) /\ MapInv(p)
      /\ call[p] \in Call /\ Nil \notin File
  BY AboutProc, Zenon
<1>2. /\ pc[p] = "user" /\ get_file(p, d) # Nil /\ FileClose({get_file(p, d)})
      /\ Go(p, "close_fd", [call[p] EXCEPT !.fd = d]) /\ "close_fd" \in Labels
      /\ UNCHANGED <<linked, length, content, procVars>>
  BY DEF close, Labels
<1> DEFINE c == [call[p] EXCEPT !.fd = d]
<1>3. /\ c \in Call /\ c.fd = d /\ c.file = call[p].file /\ c.image = call[p].image
      /\ c.exiting = call[p].exiting
  BY <1>1 DEF Call
<1> HIDE DEF c
<1>4. /\ pc' \in [Proc -> Labels] /\ pc'[p] = "close_fd"
      /\ call' \in [Proc -> Call] /\ call'[p] = c
      /\ \A q \in Proc \ {p} : pc'[q] = pc[q] /\ call'[q] = call[q]
  BY <1>1, <1>2, <1>3, GoIs DEF c
<1>5. PICK g \in File : g = get_file(p, d) /\ Held(p, d, g)
  BY <1>2, TableOpen
<1>6. \A q \in Proc \ {p} : SameProc(q)
  BY <1>2, <1>4 DEF SameProc, procVars
<1>7. Types'
  BY <1>1, <1>2, <1>4, CloseTypes DEF Types, InodeTypes, ProcTypes, procVars
<1>8. LifeInv(p)' /\ CallInv(p)' /\ MapInv(p)'
  BY <1>1, <1>2, <1>3, <1>4 DEF LifeInv, CallInv, MapInv, procVars, Unmapping
<1>9. d \in Int \ {0} /\ \A f \in File : Held(p, d, f) => f = g
  <2>1. \A f \in File : Held(p, d, f) => FdHeld(p, d, f)
    BY <1>1, PlacesApart
  <2>2. d \in Int \ {0}
    BY <1>2, TableOpen
  <2> QED
    BY <1>5, <2>1, <2>2 DEF FdHeld, get_file
<1>10. \A x \in Int, f \in File : Held(p, x, f)' <=> Held(p, x, f) /\ x # d
  <2>1. \A x \in Fd, f \in File : FdHeld(p, x, f)' <=> FdHeld(p, x, f) /\ x # d
    BY <1>2, <1>3, <1>4 DEF FdHeld, procVars
  <2>2. \A f \in File : ExecHeld(p, f)' <=> ExecHeld(p, f)
    BY <1>2, <1>4, ExecSame DEF procVars
  <2>3. \A x \in Int, f \in File : MapHeld(p, x, f)' <=> MapHeld(p, x, f)
    BY <1>2, <1>4, MapSame DEF procVars
  <2>4. \A f \in File : CallHeld(p, f)' <=> CallHeld(p, f)
    BY <1>3, <1>4 DEF CallHeld
  <2>5. d # 0 /\ d # 1 /\ d \in Nat
    BY SyscallAssumption DEF Fd, FD_BASE
  <2>6. \A f \in File : ~MapHeld(p, d, f)
    BY <1>1, <2>5, NoMapping
  <2> QED
    BY <2>1, <2>2, <2>3, <2>4, <2>5, <2>6, Zenon DEF Held
<1> QED
  BY <1>2, <1>3, <1>4, <1>5, <1>6, <1>7, <1>8, <1>9, <1>10, ClosingPlace

\* page_unmap () closes the file of a mapping; the mapping is not looked at again
\* before it is off the list.
LEMMA UnmapCloseKeeps ==
  ASSUME CanCount, FInv, NEW p \in Proc, page_unmap_close(p)
  PROVE  FInv'
<1>1. /\ ProcTypes /\ InodeTypes /\ FileTypes /\ LifeInv(p) /\ CallInv(p) /\ MapInv(p)
      /\ call[p] \in Call /\ Nil \notin File
  BY AboutProc, Zenon
<1>2. /\ pc[p] \in {"unmap", "unmap_close"} /\ FileClose({call[p].map.file})
      /\ Go(p, "unmap_remove", call[p]) /\ "unmap_remove" \in Labels
      /\ UNCHANGED <<linked, length, content, procVars>>
  BY Zenon DEF page_unmap_close, Labels
<1>3. /\ pc' \in [Proc -> Labels] /\ pc'[p] = "unmap_remove"
      /\ call' \in [Proc -> Call] /\ call'[p] = call[p]
      /\ \A q \in Proc \ {p} : pc'[q] = pc[q] /\ call'[q] = call[q]
  BY <1>1, <1>2, GoIs, Zenon
<1>4. PICK m \in ToSet(Mmap_list[p]) : m = call[p].map
  BY <1>1, <1>2, Zenon DEF CallInv, Unmapping
<1>5. \A n \in ToSet(Mmap_list[p]) : n.mapid \in Nat /\ n.file \in File /\ (n.mapid = m.mapid => n = m)
  BY <1>1, NoMapping, Zenon DEF MapInv
<1>6. PICK g \in File, y \in Int \ {0} : g = m.file /\ y = - 1 - m.mapid /\ y < 0
  BY <1>5
<1>7. ASSUME NEW n \in ToSet(Mmap_list[p])
      PROVE  y = - 1 - n.mapid <=> n = m
  <2>1. n.mapid \in Nat /\ m.mapid \in Nat /\ (n.mapid = m.mapid => n = m)
    BY <1>5
  <2>2. y = - 1 - n.mapid <=> n.mapid = m.mapid
    BY <1>6, <2>1
  <2> QED
    BY <2>1, <2>2, Zenon
<1>8. \A q \in Proc \ {p} : SameProc(q)
  BY <1>2, <1>3, Zenon DEF SameProc, procVars
<1>9. Types'
  BY <1>1, <1>2, <1>3, CloseTypes DEF Types, InodeTypes, ProcTypes, procVars
<1>10. LifeInv(p)' /\ CallInv(p)' /\ MapInv(p)'
  BY <1>1, <1>2, <1>3, Zenon DEF LifeInv, CallInv, MapInv, procVars, Unmapping
<1>11. y \notin Fd /\ y # 0 /\ y # 1
  BY <1>6, FdIs
<1>12. Held(p, y, g) /\ \A f \in File : Held(p, y, f) => f = g
  <2>1. \A f \in File : MapHeld(p, y, f) <=> f = g
    BY <1>2, <1>6, <1>7, Zenon DEF MapHeld
  <2> QED
    BY <1>11, <2>1, Zenon DEF Held
<1>13. \A x \in Int, f \in File : Held(p, x, f)' <=> Held(p, x, f) /\ x # y
  <2>1. \A x \in Fd, f \in File : FdHeld(p, x, f)' <=> FdHeld(p, x, f)
    BY <1>2, <1>3, FdSame, Zenon DEF procVars
  <2>2. \A f \in File : ExecHeld(p, f)' <=> ExecHeld(p, f)
    BY <1>2, <1>3, ExecSame, Zenon DEF procVars
  <2>3. \A x \in Int, f \in File : MapHeld(p, x, f)' <=> MapHeld(p, x, f) /\ x # y
    <3> SUFFICES ASSUME NEW x \in Int, NEW f \in File
                 PROVE  MapHeld(p, x, f)' <=> MapHeld(p, x, f) /\ x # y
      OBVIOUS
    <3>1. MapHeld(p, x, f) <=> \E n \in ToSet(Mmap_list[p]) : x = - 1 - n.mapid /\ n.file = f
      BY <1>2 DEF MapHeld
    <3>2. MapHeld(p, x, f)' <=> \E n \in ToSet(Mmap_list[p]) : x = - 1 - n.mapid /\ n.file = f /\ n # m
      BY <1>2, <1>3, <1>4, Zenon DEF MapHeld, procVars
    <3> QED
      BY <1>7, <3>1, <3>2, Zenon
  <2>4. \A f \in File : CallHeld(p, f)' <=> CallHeld(p, f)
    BY <1>3 DEF CallHeld
  <2> QED
    BY <1>11, <2>1, <2>2, <2>3, <2>4, Zenon DEF Held
<1> QED
  BY <1>2, <1>3, <1>4, <1>6, <1>8, <1>9, <1>10, <1>12, <1>13, ClosingPlace, Zenon

\* process_exit () closes every descriptor and empties the table.
LEMMA ExitFilesKeeps ==
  ASSUME CanCount, FInv, NEW p \in Proc, exit_files(p)
  PROVE  FInv'
<1>1. /\ ProcTypes /\ InodeTypes /\ FileTypes /\ LifeInv(p) /\ CallInv(p) /\ MapInv(p)
      /\ call[p] \in Call /\ Nil \notin File
  BY AboutProc, Zenon
<1> DEFINE S == {Fd_table[p][d] : d \in Fd} \ {Nil}
<1>2. /\ pc[p] = "exit" /\ FileClose(S) /\ Fd_table' = [Fd_table EXCEPT ![p] = NoTable]
      /\ Go(p, "exit_exec", call[p]) /\ "exit_exec" \in Labels
      /\ UNCHANGED <<linked, length, content, Exec_file, Mmap_list, next_mapid>>
  BY Zenon DEF exit_files, Labels
<1>3. /\ pc' \in [Proc -> Labels] /\ pc'[p] = "exit_exec"
      /\ call' \in [Proc -> Call] /\ call'[p] = call[p]
      /\ \A q \in Proc \ {p} : pc'[q] = pc[q] /\ call'[q] = call[q]
  BY <1>1, <1>2, GoIs, Zenon
<1>4. /\ Fd_table' \in [Proc -> [Fd -> File \cup {Nil}]] /\ Fd_table'[p] = NoTable
      /\ \A q \in Proc \ {p} : Fd_table'[q] = Fd_table[q]
      /\ \A d \in Fd : NoTable[d] = Nil
  BY <1>1, <1>2, Zenon DEF ProcTypes, NoTable
<1>5. \A f \in File : f \in S <=> \E d \in Fd : FdHeld(p, d, f)
  BY <1>1, <1>2, Zenon DEF FdHeld
<1>6. \A f \in S : f \in File
  BY <1>1 DEF ProcTypes
<1> HIDE DEF S
<1>7. \A q \in Proc \ {p} : SameProc(q)
  BY <1>2, <1>3, <1>4 DEF SameProc
<1>8. Types'
  BY <1>1, <1>2, <1>3, <1>4, CloseTypes, Zenon DEF Types, InodeTypes, ProcTypes
<1>9. LifeInv(p)' /\ CallInv(p)' /\ MapInv(p)'
  BY <1>1, <1>2, <1>3, <1>4, Zenon DEF LifeInv, CallInv, MapInv, Unmapping
<1>10. Fd \subseteq Int \ {0}
  BY SyscallAssumption DEF Fd, FD_BASE
<1>11. \A f \in S : f \in File /\ \E y \in Int \ {0} : Held(p, y, f)
  BY <1>5, <1>6, <1>10, Zenon DEF Held
<1>12. ASSUME NEW x \in Int, NEW f \in File
       PROVE  Held(p, x, f)' <=> Held(p, x, f) /\ f \notin S
  <2>1. \A d \in Fd : ~FdHeld(p, d, f)'
    BY <1>1, <1>4, Zenon DEF FdHeld
  <2>2. ExecHeld(p, f)' <=> ExecHeld(p, f)
    BY <1>2, <1>3, ExecSame, Zenon
  <2>3. MapHeld(p, x, f)' <=> MapHeld(p, x, f)
    BY <1>2, <1>3, MapSame, Zenon
  <2>4. CallHeld(p, f)' <=> CallHeld(p, f)
    BY <1>3 DEF CallHeld
  <2>5. CASE x \in Fd
    <3>1. Held(p, x, f) => f \in S
      BY <1>1, <1>5, <2>5, PlacesApart, Zenon
    <3>2. x \in Nat /\ x # 0 /\ x # 1
      BY <2>5, SyscallAssumption DEF Fd, FD_BASE
    <3>3. ~MapHeld(p, x, f)
      BY <1>1, <3>2, NoMapping
    <3>4. ~Held(p, x, f)'
      BY <2>1, <2>3, <2>5, <3>2, <3>3, Zenon DEF Held
    <3> QED
      BY <3>1, <3>4, Zenon
  <2>6. CASE x \notin Fd
    <3>1. Held(p, x, f)' <=> Held(p, x, f)
      BY <2>2, <2>3, <2>4, <2>6, Zenon DEF Held
    <3>2. Held(p, x, f) => f \notin S
      <4> SUFFICES ASSUME Held(p, x, f), f \in S PROVE FALSE
        OBVIOUS
      <4>1. PICK d \in Fd : FdHeld(p, d, f)
        BY <1>5
      <4>2. Held(p, d, f) /\ d \in Int
        BY <1>10, <4>1, Zenon DEF Held
      <4>3. x = d
        BY <4>2, SMT DEF FInv, Shared, HoldInv
      <4> QED
        BY <2>6, <4>3
    <3> QED
      BY <3>1, <3>2, Zenon
  <2> QED
    BY <2>5, <2>6
<1> QED
  BY <1>2, <1>3, <1>7, <1>8, <1>9, <1>11, <1>12, ClosingStep, Zenon

\* process_exit () closes the executable and with it lets writes through again.
LEMMA ExitExecKeeps ==
  ASSUME CanCount, FInv, NEW p \in Proc, exit_exec(p)
  PROVE  FInv'
<1>1. /\ ProcTypes /\ InodeTypes /\ FileTypes /\ LifeInv(p) /\ CallInv(p) /\ MapInv(p)
      /\ call[p] \in Call /\ Nil \notin File /\ Shared
  BY AboutProc, Zenon
<1> DEFINE c == [call[p] EXCEPT !.image = Nil]
<1>2. /\ pc[p] = "exit_exec" /\ FileClose({Exec_file[p]} \ {Nil}) /\ Go(p, "exit_clear", c)
      /\ "exit_clear" \in Labels /\ UNCHANGED <<linked, length, content, procVars>>
  BY DEF exit_exec, Labels
<1>3. c \in Call /\ c.file = call[p].file /\ c.image = Nil /\ c.exiting = call[p].exiting
  BY <1>1 DEF Call
<1> HIDE DEF c
<1>4. /\ pc' \in [Proc -> Labels] /\ pc'[p] = "exit_clear"
      /\ call' \in [Proc -> Call] /\ call'[p] = c
      /\ \A q \in Proc \ {p} : pc'[q] = pc[q] /\ call'[q] = call[q]
  BY <1>1, <1>2, <1>3, GoIs, Zenon
<1>5. \A q \in Proc \ {p} : SameProc(q)
  BY <1>2, <1>4 DEF SameProc, procVars
<1>6. Types'
  BY <1>1, <1>2, <1>4, CloseTypes DEF Types, InodeTypes, ProcTypes, procVars
<1>7. LifeInv(p)' /\ CallInv(p)' /\ MapInv(p)'
  BY <1>1, <1>2, <1>3, <1>4, Zenon DEF LifeInv, CallInv, MapInv, procVars, Unmapping
<1>8. \A x \in Int, f \in File : Held(p, x, f)' <=> Held(p, x, f) /\ x # 0
  <2>1. \A x \in Fd, f \in File : FdHeld(p, x, f)' <=> FdHeld(p, x, f)
    BY <1>2, <1>4, FdSame, Zenon DEF procVars
  <2>2. \A f \in File : ~ExecHeld(p, f)'
    BY <1>4 DEF ExecHeld
  <2>3. \A x \in Int, f \in File : MapHeld(p, x, f)' <=> MapHeld(p, x, f)
    BY <1>2, <1>4, MapSame, Zenon DEF procVars
  <2>4. \A f \in File : CallHeld(p, f)' <=> CallHeld(p, f)
    BY <1>3, <1>4 DEF CallHeld
  <2>5. \A f \in File : ~MapHeld(p, 0, f)
    BY <1>1, NoMapping
  <2>6. 0 \notin Fd /\ 1 # 0
    BY SyscallAssumption DEF Fd, FD_BASE
  <2> QED
    BY <2>1, <2>2, <2>3, <2>4, <2>5, <2>6, Zenon DEF Held
<1>9. \A f \in File : Held(p, 0, f) <=> f = Exec_file[p]
  BY <1>1, <1>2, PlacesApart, Zenon DEF ExecHeld
<1>10. CASE Exec_file[p] = Nil
  <2>1. PICK S : S = {} /\ FileClose(S)
    <3>1. {Exec_file[p]} \ {Nil} = {}
      BY <1>10
    <3> QED
      BY <1>2, <3>1
  <2>2. \A x \in Int, f \in File : Held(p, x, f)' <=> Held(p, x, f) /\ f \notin S
    BY <1>1, <1>8, <1>9, <1>10, <2>1, Zenon
  <2>3. \A f \in S : f \in File /\ \E y \in Int \ {0} : Held(p, y, f)
    BY <2>1
  <2> QED
    BY <1>2, <1>3, <1>4, <1>5, <1>6, <1>7, <2>1, <2>2, <2>3, ClosingStep, Zenon
<1>11. CASE Exec_file[p] # Nil
  <2>1. PICK g \in File : g = Exec_file[p]
    BY <1>1, <1>11 DEF ProcTypes
  <2>2. FileClose({g})
    <3>1. {Exec_file[p]} \ {Nil} = {g}
      BY <1>11, <2>1
    <3> QED
      BY <1>2, <3>1, Zenon
  <2>3. Held(p, 0, g) /\ 0 \in Int
    BY <1>9, <2>1
  <2>4. ASSUME NEW x \in Int, NEW f \in File
        PROVE  Held(p, x, f)' <=> Held(p, x, f) /\ f \notin {g}
    <3>1. Held(p, x, f) /\ f = g => x = 0
      BY <2>3, SMT DEF FInv, Shared, HoldInv
    <3>2. Held(p, x, f) /\ x = 0 => f = g
      BY <1>9, <2>1, Zenon
    <3> QED
      BY <1>8, <3>1, <3>2, Zenon
  <2>5. Closes({g})
    <3>1. \A f \in {g} : f \in File /\ \E y \in Int : Held(p, y, f)
      BY <2>3
    <3> QED
      BY <1>5, <2>2, <2>4, <3>1, ClosesIs, Zenon
  <2>6. Shared'
    <3>1. call'[p].image = Nil /\ \A q \in Proc \ {p} : call'[q].image = call[q].image
      BY <1>3, <1>4
    <3> QED
      BY <1>1, <1>2, <2>3, <2>5, <3>1, SharedLeft, Zenon
  <2>7. Local'
    BY <1>5, <1>7, OneMoves, Zenon DEF FInv
  <2> QED
    BY <1>6, <2>6, <2>7 DEF FInv
<1> QED
  BY <1>10, <1>11

\* Place y of process p hands its file g on to place z.
HandsOn(p, y, z, g) ==
  /\ Held(p, y, g) /\ \A f \in File : Held(p, y, f) => f = g
  /\ \A x \in Int, f \in File :
       Held(p, x, f)' <=> (Held(p, x, f) /\ x # y) \/ (x = z /\ f = g)

\* A step of p that hands a file on.
LEMMA MovingPlace ==
  ASSUME FInv, Types', NEW p \in Proc, \A q \in Proc \ {p} : SameProc(q),
         LifeInv(p)', CallInv(p)', MapInv(p)', UNCHANGED <<content, files, deny_write_cnt>>,
         call'[p].image \in {Nil, call[p].image},
         NEW g \in File, NEW y \in Int \ {0}, NEW z \in Int \ {0}, HandsOn(p, y, z, g)
  PROVE  FInv'
<1>1. ImagesKept
  <2>1. content' = content /\ \A q \in Proc \ {p} : call'[q] = call[q]
    BY Zenon DEF SameProc
  <2> QED
    BY <2>1, ImagesStay
<1>2. ASSUME NEW q \in Proc, NEW x \in Int, NEW f \in File
      PROVE  Held(q, x, f)' <=> IF f = g THEN q = p /\ x = z ELSE Held(q, x, f)
  <2>1. CASE q = p
    <3>1. ASSUME Held(p, x, f), f = g PROVE x = y
      <4>1. Held(p, x, g) /\ y \in Int /\ Held(p, y, g)
        BY <3>1, Zenon DEF HandsOn
      <4> QED
        BY <4>1, OnePlace, Zenon
    <3>2. Held(p, x, f) /\ x = y => f = g
      BY Zenon DEF HandsOn
    <3> QED
      BY <2>1, <3>1, <3>2, Zenon DEF HandsOn
  <2>2. CASE q # p
    <3>1. Held(q, x, f)' <=> Held(q, x, f)
      BY <2>2, SameHeld, Zenon
    <3>2. ASSUME Held(q, x, f), f = g PROVE q = p
      <4>1. Held(q, x, g) /\ y \in Int /\ Held(p, y, g)
        BY <3>2, Zenon DEF HandsOn
      <4> QED
        BY <4>1, OnePlace, Zenon
    <3> QED
      BY <2>2, <3>1, <3>2, Zenon
  <2> QED
    BY <2>1, <2>2, Zenon
<1>3. Shared'
  <2>1. Shared /\ deny_write_cnt' = deny_write_cnt /\ files' = files /\ Held(p, y, g)
    BY Zenon DEF FInv, HandsOn
  <2> QED
    BY <1>1, <1>2, <2>1, SharedMoved, Zenon
<1>4. Local'
  BY OneMoves, Zenon DEF FInv
<1> QED
  BY <1>3, <1>4 DEF FInv

\* A call that failed after it opened a file goes on to close it.
LEMMA GivesUp ==
  ASSUME FInv, NEW p \in Proc, pc[p] \in {"open_fd", "mmap_pages"}, Go(p, "close_file", call[p]),
         UNCHANGED <<inodeVars, files, procVars>>
  PROVE  FInv'
<1>1. ProcTypes /\ InodeTypes /\ LifeInv(p) /\ CallInv(p) /\ MapInv(p) /\ call[p] \in Call
  BY AboutProc, Zenon
<1>2. "close_file" \in Labels
  BY Zenon DEF Labels
<1>3. /\ pc'[p] = "close_file" /\ call'[p] = call[p]
      /\ \A q \in Proc \ {p} : pc'[q] = pc[q] /\ call'[q] = call[q]
  BY <1>1, <1>2, GoIs, Zenon
<1>4. InodeTypes' /\ ImagesKept
  BY <1>1, <1>3, ImagesStay, Zenon DEF InodeTypes, inodeVars
<1>5. LifeInv(p)'
  BY <1>1, <1>3, Zenon DEF LifeInv, procVars, Unmapping
<1>6. CallInv(p)'
  BY <1>1, <1>3, Zenon DEF CallInv, Unmapping
<1> QED
  BY <1>1, <1>2, <1>3, <1>4, <1>5, <1>6, AdvanceStep, Zenon DEF inodeVars

\* open () puts the file in the lowest free descriptor, or closes it again.
LEMMA OpenFdKeeps ==
  ASSUME CanCount, FInv, NEW p \in Proc, open_fd(p)
  PROVE  FInv'
<1>1. /\ ProcTypes /\ InodeTypes /\ FileTypes /\ LifeInv(p) /\ CallInv(p) /\ MapInv(p)
      /\ call[p] \in Call /\ [Idle EXCEPT !.image = call[p].image] \in Call /\ Nil \notin File
  BY AboutProc
<1>2. /\ pc[p] = "open_fd" /\ UNCHANGED <<inodeVars, files, Exec_file, Mmap_list, next_mapid>>
  BY DEF open_fd
<1>3. CASE FreeFds(p) = {} /\ Go(p, "close_file", call[p]) /\ UNCHANGED Fd_table
  BY <1>2, <1>3, GivesUp DEF procVars
<1>4. CASE /\ FreeFds(p) # {} /\ Fd_table' = [Fd_table EXCEPT ![p][LowestFd(p)] = call[p].file]
           /\ Return(p)
  <2>1. Fd \subseteq Nat /\ Fd \subseteq Int \ {0} /\ FreeFds(p) \subseteq Fd /\ 1 \notin Fd
    BY SyscallAssumption DEF Fd, FD_BASE, FreeFds
  <2>2. \E d \in FreeFds(p) : \A e \in FreeFds(p) : d <= e
    <3>1. FreeFds(p) \subseteq Nat
      BY <2>1, Zenon
    <3> QED
      BY <1>4, <3>1, Zenon DEF CanCount
  <2>3. LowestFd(p) \in FreeFds(p)
    BY <2>2, Zenon DEF LowestFd
  <2>4. PICK z \in Fd : z = LowestFd(p) /\ Fd_table[p][z] = Nil
    BY <2>3 DEF FreeFds
  <2>5. PICK g \in File : g = call[p].file
    BY <1>1, <1>2 DEF CallInv, Call
  <2>6. /\ "user" \in Labels /\ pc' \in [Proc -> Labels] /\ pc'[p] = "user"
        /\ call' \in [Proc -> Call] /\ call'[p] = [Idle EXCEPT !.image = call[p].image]
        /\ \A q \in Proc \ {p} : pc'[q] = pc[q] /\ call'[q] = call[q]
    BY <1>1, <1>4, GoIs DEF Labels, Return
  <2>7. call'[p].file = Nil /\ call'[p].image = call[p].image /\ ~call'[p].exiting
    BY <2>6 DEF Idle
  <2>8. /\ Fd_table' \in [Proc -> [Fd -> File \cup {Nil}]]
        /\ Fd_table'[p][z] = g /\ \A d \in Fd \ {z} : Fd_table'[p][d] = Fd_table[p][d]
        /\ \A q \in Proc \ {p} : Fd_table'[q] = Fd_table[q]
    BY <1>1, <1>4, <2>4, <2>5 DEF ProcTypes
  <2>9. \A q \in Proc \ {p} : SameProc(q)
    BY <1>2, <2>6, <2>8 DEF SameProc
  <2>10. Types'
    BY <1>1, <1>2, <2>6, <2>8 DEF Types, InodeTypes, FileTypes, ProcTypes, inodeVars
  <2>11. LifeInv(p)' /\ CallInv(p)' /\ MapInv(p)'
    BY <1>1, <1>2, <2>6, <2>7 DEF LifeInv, CallInv, MapInv, Unmapping
  <2>12. \A f \in File : CallHeld(p, f) <=> f = g
    BY <2>5 DEF CallHeld
  <2>13. Held(p, 1, g) /\ \A f \in File : Held(p, 1, f) => f = g
    BY <1>1, <2>12, PlacesApart
  <2>14. \A x \in Int, f \in File : Held(p, x, f)' <=> (Held(p, x, f) /\ x # 1) \/ (x = z /\ f = g)
    <3>1. \A x \in Fd, f \in File : FdHeld(p, x, f)' <=> FdHeld(p, x, f) \/ (x = z /\ f = g)
      BY <1>1, <1>2, <2>4, <2>6, <2>8 DEF FdHeld
    <3>2. \A f \in File : ExecHeld(p, f)' <=> ExecHeld(p, f)
      BY <1>2, <2>6, ExecSame
    <3>3. \A x \in Int, f \in File : MapHeld(p, x, f)' <=> MapHeld(p, x, f)
      BY <1>2, <2>6, MapSame
    <3>4. \A f \in File : ~CallHeld(p, f)'
      BY <1>1, <2>7 DEF CallHeld
    <3>5. 1 # 0 /\ \A f \in File : ~MapHeld(p, 1, f)
      BY <1>1, NoMapping
    <3> QED
      BY <2>1, <2>4, <3>1, <3>2, <3>3, <3>4, <3>5, Zenon DEF Held
  <2>15. 1 \in Int \ {0} /\ z \in Int \ {0}
    BY <2>1
  <2>16. HandsOn(p, 1, z, g)
    BY <2>13, <2>14, Zenon DEF HandsOn
  <2>17. UNCHANGED <<content, files, deny_write_cnt>> /\ call'[p].image \in {Nil, call[p].image}
    BY <1>2, <2>7 DEF inodeVars
  <2> QED
    BY <2>9, <2>10, <2>11, <2>15, <2>16, <2>17, MovingPlace, Zenon
<1> QED
  BY <1>3, <1>4 DEF open_fd

\* mmap () hands the file on to the new mapping, or closes it again.
LEMMA MmapPagesKeeps ==
  ASSUME FInv, NEW p \in Proc, mmap_pages(p)
  PROVE  FInv'
<1>1. /\ ProcTypes /\ InodeTypes /\ FileTypes /\ LifeInv(p) /\ CallInv(p) /\ MapInv(p)
      /\ call[p] \in Call /\ [Idle EXCEPT !.image = call[p].image] \in Call /\ Nil \notin File
  BY AboutProc
<1> DEFINE m == [mapid |-> next_mapid[p], file |-> call[p].file]
<1>2. pc[p] = "mmap_pages" /\ UNCHANGED <<inodeVars, files, Fd_table, Exec_file>>
  BY DEF mmap_pages
<1>3. CASE Go(p, "close_file", call[p]) /\ UNCHANGED <<Mmap_list, next_mapid>>
  BY <1>2, <1>3, GivesUp DEF procVars
<1>4. CASE /\ Mmap_list' = [Mmap_list EXCEPT ![p] = Append(@, m)]
           /\ next_mapid' = [next_mapid EXCEPT ![p] = @ + 1]
           /\ Return(p) \/ Go(p, "unmap", [call[p] EXCEPT !.file = Nil, !.map = m])
  <2>1. PICK g \in File : g = call[p].file
    BY <1>1, <1>2 DEF CallInv, Call
  <2>2. PICK k \in Nat : k = next_mapid[p]
    BY <1>1 DEF ProcTypes
  <2>3. PICK n \in Mapping : n = m /\ n.mapid = k /\ n.file = g
    <3>1. m \in Mapping /\ m.mapid = k /\ m.file = g
      BY <2>1, <2>2 DEF Mapping
    <3> QED
      BY <3>1
  <2>4. PICK s \in Seq(Mapping) : s = Mmap_list[p]
    BY <1>1 DEF ProcTypes
  <2> HIDE DEF m
  <2>5. \A o \in ToSet(s) : o \in Mapping /\ o.mapid \in Nat /\ o.file \in File /\ o.mapid < k
    BY <1>1, <2>2, <2>4, NoMapping DEF MapInv
  <2>6. n \notin ToSet(s)
    BY <2>3, <2>5
  <2>7. /\ Append(s, n) \in Seq(Mapping) /\ ToSet(Append(s, n)) = ToSet(s) \cup {n}
        /\ \A i, j \in 1 .. Len(Append(s, n)) : Append(s, n)[i] = Append(s, n)[j] => i = j
    <3>1. \A i, j \in 1 .. Len(s) : s[i] = s[j] => i = j
      BY <1>1, <2>4 DEF MapInv
    <3> QED
      BY <2>6, <3>1, AppendElement
  <2>8. /\ Mmap_list' \in [Proc -> Seq(Mapping)] /\ Mmap_list'[p] = Append(s, n)
        /\ \A q \in Proc \ {p} : Mmap_list'[q] = Mmap_list[q]
    BY <1>1, <1>4, <2>3, <2>4, <2>7 DEF ProcTypes
  <2>9. /\ next_mapid' \in [Proc -> Nat] /\ next_mapid'[p] = k + 1
        /\ \A q \in Proc \ {p} : next_mapid'[q] = next_mapid[q]
    BY <1>1, <1>4, <2>2 DEF ProcTypes
  <2>10. PICK c \in Call, label \in {"user", "unmap"} :
           /\ Go(p, label, c) /\ c.file = Nil /\ c.image = call[p].image /\ ~c.exiting
           /\ label = "unmap" => c.map = n
    <3>1. CASE Return(p)
      <4>1. [Idle EXCEPT !.image = call[p].image].file = Nil
            /\ [Idle EXCEPT !.image = call[p].image].image = call[p].image
            /\ ~[Idle EXCEPT !.image = call[p].image].exiting
        BY DEF Idle
      <4>2. "user" # "unmap"
        OBVIOUS
      <4> QED
        BY <1>1, <3>1, <4>1, <4>2, Zenon DEF Return
    <3>2. CASE Go(p, "unmap", [call[p] EXCEPT !.file = Nil, !.map = m])
      <4> DEFINE d == [call[p] EXCEPT !.file = Nil, !.map = n]
      <4>1. d \in Call /\ d.file = Nil /\ d.image = call[p].image /\ d.exiting = call[p].exiting
            /\ d.map = n
        BY <1>1, <2>3, Zenon DEF Call
      <4>2. ~call[p].exiting
        BY <1>1, <1>2 DEF LifeInv, Unmapping
      <4>3. Go(p, "unmap", d)
        BY <2>3, <3>2
      <4> HIDE DEF d
      <4> QED
        BY <4>1, <4>2, <4>3, Zenon
    <3> QED
      BY <1>4, <3>1, <3>2
  <2>11. /\ label \in Labels /\ pc' \in [Proc -> Labels] /\ pc'[p] = label
         /\ call' \in [Proc -> Call] /\ call'[p] = c
         /\ \A q \in Proc \ {p} : pc'[q] = pc[q] /\ call'[q] = call[q]
    <3>1. label \in Labels
      BY DEF Labels
    <3> QED
      BY <1>1, <2>10, <3>1, GoIs
  <2>12. \A q \in Proc \ {p} : SameProc(q)
    BY <1>2, <2>8, <2>9, <2>11, Zenon DEF SameProc
  <2>13. Types'
    BY <1>1, <1>2, <2>8, <2>9, <2>11 DEF Types, InodeTypes, FileTypes, ProcTypes, inodeVars
  <2>14. LifeInv(p)'
    BY <1>1, <1>2, <2>10, <2>11 DEF LifeInv, Unmapping
  <2>15. CallInv(p)'
    BY <2>7, <2>8, <2>10, <2>11, Zenon DEF CallInv, Unmapping
  <2>16. MapInv(p)'
    <3>1. \A o1, o2 \in ToSet(Append(s, n)) : o1.mapid = o2.mapid => o1 = o2
      <4>1. \A o1, o2 \in ToSet(s) : o1.mapid = o2.mapid => o1 = o2
        BY <1>1, <2>4 DEF MapInv
      <4>2. ASSUME NEW o \in ToSet(s) PROVE o.mapid # n.mapid
        <5>1. o.mapid \in Nat /\ o.mapid < k
          BY <2>5
        <5> QED
          BY <2>3, <5>1
      <4> QED
        BY <2>7, <4>1, <4>2, Zenon
    <3>2. \A o \in ToSet(Append(s, n)) : o.mapid < k + 1
      <4>1. ASSUME NEW o \in ToSet(s) PROVE o.mapid < k + 1
        <5>1. o.mapid \in Nat /\ o.mapid < k
          BY <2>5
        <5> QED
          BY <5>1
      <4>2. n.mapid < k + 1
        BY <2>3
      <4> QED
        BY <2>7, <4>1, <4>2, Zenon
    <3> QED
      BY <2>7, <2>8, <2>9, <3>1, <3>2, Zenon DEF MapInv
  <2>17. \A f \in File : CallHeld(p, f) <=> f = g
    BY <2>1 DEF CallHeld
  <2>18. Held(p, 1, g) /\ \A f \in File : Held(p, 1, f) => f = g
    BY <1>1, <2>17, PlacesApart
  <2>19. PICK z \in Int : z = - 1 - k /\ z # 0
    OBVIOUS
  <2>20. \A x \in Int, f \in File : Held(p, x, f)' <=> (Held(p, x, f) /\ x # 1) \/ (x = z /\ f = g)
    <3>1. \A x \in Fd, f \in File : FdHeld(p, x, f)' <=> FdHeld(p, x, f)
      BY <1>2, <2>10, <2>11, FdSame, Zenon
    <3>2. \A f \in File : ExecHeld(p, f)' <=> ExecHeld(p, f)
      BY <1>2, <2>10, <2>11, ExecSame, Zenon
    <3>3. \A x \in Int, f \in File : MapHeld(p, x, f)' <=> MapHeld(p, x, f) \/ (x = z /\ f = g)
      <4>1. pc[p] # "unmap_remove" /\ pc'[p] # "unmap_remove"
        BY <1>2, <2>10, <2>11, Zenon
      <4>2. z = - 1 - n.mapid
        BY <2>3, <2>19
      <4> QED
        BY <2>3, <2>4, <2>7, <2>8, <4>1, <4>2, Zenon DEF MapHeld
    <3>4. \A f \in File : ~CallHeld(p, f)'
      BY <1>1, <2>10, <2>11 DEF CallHeld
    <3>5. 1 # 0 /\ 1 \notin Fd /\ \A f \in File : ~MapHeld(p, 1, f)
      BY <1>1, NoMapping, SyscallAssumption DEF Fd, FD_BASE
    <3> QED
      BY <3>1, <3>2, <3>3, <3>4, <3>5, Zenon DEF Held
  <2>21. 1 \in Int \ {0} /\ z \in Int \ {0}
    BY <2>19
  <2>22. HandsOn(p, 1, z, g)
    BY <2>18, <2>20, Zenon DEF HandsOn
  <2>23. UNCHANGED <<content, files, deny_write_cnt>> /\ call'[p].image \in {Nil, call[p].image}
    BY <1>2, <2>10, <2>11, Zenon DEF inodeVars
  <2> QED
    BY <2>12, <2>13, <2>14, <2>15, <2>16, <2>21, <2>22, <2>23, MovingPlace, Zenon
<1> QED
  BY <1>3, <1>4 DEF mmap_pages

\* load () takes the executable and denies writes to it; a process that could not
\* be loaded has no files.
LEMMA LoadKeeps ==
  ASSUME CanCount, FInv, NEW p \in Proc, NEW n \in Name, load(p, n)
  PROVE  FInv'
<1>1. /\ ProcTypes /\ InodeTypes /\ FileTypes /\ LifeInv(p) /\ CallInv(p) /\ MapInv(p)
      /\ call[p] \in Call /\ Idle \in Call /\ Nil \notin File /\ Nil \notin Val /\ Shared
  BY AboutProc, Zenon
<1>2. /\ pc[p] = "load" /\ UNCHANGED <<linked, length, content, Fd_table>>
  BY DEF load
<1>3. CASE /\ Go(p, "exit", Idle)
           /\ UNCHANGED <<deny_write_cnt, files, Exec_file, Mmap_list, next_mapid>>
  <2>1. "exit" \in Labels /\ UNCHANGED procVars
    BY <1>2, <1>3 DEF Labels, procVars
  <2>2. /\ pc'[p] = "exit" /\ call'[p] = Idle
        /\ \A q \in Proc \ {p} : pc'[q] = pc[q] /\ call'[q] = call[q]
    BY <1>1, <1>3, <2>1, GoIs, Zenon
  <2>3. InodeTypes' /\ ImagesKept
    <3>1. InodeTypes'
      BY <1>1, <1>2, Zenon DEF InodeTypes
    <3>2. content' = content /\ call'[p].image = Nil
      BY <1>2, <2>2, IdleIs, Zenon
    <3>3. ImagesKept
      BY <2>2, <3>2, ImagesStay, Zenon
    <3> QED
      BY <3>1, <3>3
  <2>4. LifeInv(p)'
    <3>1. call'[p].image = Nil /\ ~call'[p].exiting
      BY <2>2, IdleIs, Zenon
    <3> QED
      BY <2>2, <3>1, Zenon DEF LifeInv
  <2>5. CallInv(p)' /\ call[p].file = Idle.file
    BY <1>1, <1>2, <2>2, Zenon DEF CallInv, Unmapping, Idle, Call
  <2> QED
    BY <1>1, <1>2, <1>3, <2>1, <2>2, <2>3, <2>4, <2>5, AdvanceStep, Zenon
<1>4. ASSUME NEW g \in FreeFiles, linked[n] # Nil,
             files' = [files EXCEPT ![g] = [inode |-> linked[n], pos |-> 0, deny_write |-> TRUE]],
             deny_write_cnt' = [deny_write_cnt EXCEPT ![linked[n]] = @ + 1],
             Exec_file' = [Exec_file EXCEPT ![p] = g],
             Mmap_list' = [Mmap_list EXCEPT ![p] = <<>>],
             next_mapid' = [next_mapid EXCEPT ![p] = 1],
             Go(p, "user", [Idle EXCEPT !.image = content[linked[n]]])
      PROVE  FInv'
  <2>1. PICK i \in Inode : i = linked[n]
    BY <1>1, <1>4 DEF InodeTypes
  <2>2. g \in File /\ g # Nil /\ content[i] \in Val /\ content[i] # Nil
    BY <1>1, <1>4 DEF FreeFiles, InodeTypes
  <2> DEFINE c == [Idle EXCEPT !.image = content[i]]
  <2>3. c \in Call /\ c.file = Nil /\ c.image = content[i] /\ ~c.exiting
    BY <1>1, <2>2, Zenon DEF Call, Idle
  <2>4. Go(p, "user", c)
    BY <1>4, <2>1
  <2> HIDE DEF c
  <2>5. /\ "user" \in Labels /\ pc' \in [Proc -> Labels] /\ pc'[p] = "user"
        /\ call' \in [Proc -> Call] /\ call'[p] = c
        /\ \A q \in Proc \ {p} : pc'[q] = pc[q] /\ call'[q] = call[q]
    <3>1. "user" \in Labels
      BY DEF Labels
    <3> QED
      BY <1>1, <2>3, <2>4, <3>1, GoIs, Zenon
  <2>6. /\ Exec_file' \in [Proc -> File \cup {Nil}] /\ Exec_file'[p] = g
        /\ \A q \in Proc \ {p} : Exec_file'[q] = Exec_file[q]
    BY <1>1, <1>4, <2>2 DEF ProcTypes
  <2>7. /\ Mmap_list' \in [Proc -> Seq(Mapping)] /\ Mmap_list'[p] = <<>> /\ Mmap_list[p] = <<>>
        /\ \A q \in Proc \ {p} : Mmap_list'[q] = Mmap_list[q]
    BY <1>1, <1>2, <1>4 DEF ProcTypes, LifeInv
  <2>8. /\ next_mapid' \in [Proc -> Nat] /\ next_mapid'[p] = 1
        /\ \A q \in Proc \ {p} : next_mapid'[q] = next_mapid[q]
    BY <1>1, <1>4 DEF ProcTypes
  <2>9. \A q \in Proc \ {p} : SameProc(q)
    BY <1>2, <2>5, <2>6, <2>7, <2>8, Zenon DEF SameProc
  <2>10. FileTypes'
    BY <1>1, <1>4, <2>1, Zenon DEF FileTypes
  <2>11. Types'
    BY <1>1, <1>2, <2>5, <2>6, <2>7, <2>8, <2>10, Zenon DEF Types, InodeTypes, ProcTypes
  <2>12. LifeInv(p)' /\ CallInv(p)'
    BY <2>2, <2>3, <2>5, <2>6, Zenon DEF LifeInv, CallInv, Unmapping
  <2>13. ToSet(<<>>) = {} /\ 1 .. Len(<<>>) = {}
    BY DEF ToSet
  <2>14. MapInv(p)'
    BY <2>7, <2>13, Zenon DEF MapInv
  <2>15. \A f \in File : ~Held(p, 0, f)
    BY <1>1, <1>2, PlacesApart, Zenon DEF ExecHeld, LifeInv
  <2>16. \A x \in Int, f \in File : Held(p, x, f)' <=> Held(p, x, f) \/ (x = 0 /\ f = g)
    <3>1. \A x \in Fd, f \in File : FdHeld(p, x, f)' <=> FdHeld(p, x, f)
      BY <1>2, <2>5, FdSame, Zenon
    <3>2. \A f \in File : ExecHeld(p, f)' <=> f = g
      BY <2>5, <2>6, Zenon DEF ExecHeld
    <3>3. \A f \in File : ~ExecHeld(p, f)
      BY <1>1, <1>2, Zenon DEF ExecHeld, LifeInv
    <3>4. \A x \in Int, f \in File : MapHeld(p, x, f)' <=> MapHeld(p, x, f)
      BY <1>2, <2>5, <2>7, MapSame, Zenon
    <3>5. \A f \in File : CallHeld(p, f)' <=> CallHeld(p, f)
      BY <1>1, <1>2, <2>3, <2>5, Zenon DEF CallHeld, CallInv
    <3> QED
      BY <3>1, <3>2, <3>3, <3>4, <3>5, Zenon DEF Held
  <2>17. \A q \in Proc, x \in Int, f \in File :
           Held(q, x, f)' <=> Held(q, x, f) \/ (q = p /\ x = 0 /\ f = g)
    <3>1. \A q \in Proc \ {p}, x \in Int, f \in File : Held(q, x, f)' <=> Held(q, x, f)
      BY <2>9, SameHeld, Zenon
    <3> QED
      BY <2>16, <3>1, Zenon
  <2>18. Shared'
    <3>1. /\ files' = [files EXCEPT ![g] = [inode |-> i, pos |-> 0, deny_write |-> TRUE]]
          /\ deny_write_cnt' = [deny_write_cnt EXCEPT ![i] = @ + 1]
          /\ call'[p].image = content[i] /\ content' = content
          /\ \A q \in Proc \ {p} : call'[q].image = call[q].image
      BY <1>2, <1>4, <2>1, <2>3, <2>5
    <3> QED
      BY <1>1, <2>15, <2>17, <3>1, SharedLoaded, Zenon
  <2>19. Local'
    BY <2>9, <2>12, <2>14, OneMoves, Zenon DEF FInv
  <2> QED
    BY <2>11, <2>18, <2>19 DEF FInv
<1> QED
  BY <1>3, <1>4 DEF load

-----------------------------------------------------------------------------
(* The invariant holds, and what follows from it.                          *)

\* At boot no process runs and no file is open.
LEMMA InitHolds == ASSUME CanCount PROVE Init => FInv
<1> SUFFICES ASSUME Init PROVE FInv
  OBVIOUS
<1>1. Nil \notin File /\ Nil \notin Inode /\ 1 \in Size /\ Zero \in Val
  BY SyscallAssumption
<1>2. InodeTypes /\ FileTypes
  BY <1>1 DEF Init, InodeTypes, FileTypes, NoFile
<1>3. ProcTypes
  <2>1. Idle \in Call /\ "none" \in Labels /\ NoTable \in [Fd -> File \cup {Nil}]
    BY DEF Idle, Call, Labels, NoTable
  <2>2. <<>> \in Seq(Mapping)
    OBVIOUS
  <2> QED
    BY <2>1, <2>2 DEF Init, ProcTypes
<1>4. ASSUME NEW p \in Proc PROVE LifeInv(p) /\ CallInv(p) /\ MapInv(p)
  <2>1. /\ pc[p] = "none" /\ call[p] = Idle /\ Mmap_list[p] = <<>> /\ Exec_file[p] = Nil
        /\ Fd_table[p] = NoTable
    BY DEF Init
  <2>2. Idle.file = Nil /\ Idle.image = Nil /\ ~Idle.exiting
    BY DEF Idle
  <2>3. ToSet(<<>>) = {} /\ 1 .. Len(<<>>) = {}
    BY DEF ToSet
  <2>4. MapInv(p)
    BY <2>1, <2>3, Zenon DEF MapInv
  <2> QED
    BY <2>1, <2>2, <2>4 DEF LifeInv, CallInv, Unmapping
<1>5. \A f \in File : ~IsOpen(f)
  BY DEF Init, IsOpen
<1>6. \A p \in Proc, x \in Int, f \in File : ~Held(p, x, f)
  <2> SUFFICES ASSUME NEW p \in Proc, NEW x \in Int, NEW f \in File
               PROVE  ~Held(p, x, f)
    OBVIOUS
  <2>1. ToSet(<<>>) = {}
    BY DEF ToSet
  <2>2. ~MapHeld(p, x, f)
    BY <2>1, Zenon DEF Init, MapHeld
  <2>3. ~ExecHeld(p, f) /\ ~CallHeld(p, f) /\ (x \in Fd => ~FdHeld(p, x, f))
    BY <1>1 DEF Init, ExecHeld, CallHeld, FdHeld, NoTable, Idle
  <2> QED
    BY <2>2, <2>3 DEF Held
<1>7. HoldInv /\ FileInv
  BY <1>5, <1>6, Zenon DEF HoldInv, FileInv
<1>8. DenyInv
  <2>1. \A i \in Inode : Executing(i) = {}
    <3>1. 0 \in Int
      OBVIOUS
    <3> QED
      BY <1>6, <3>1, Zenon DEF Executing
  <2>2. Cardinality({}) = 0
    BY Zenon DEF CanCount
  <2> QED
    BY <2>1, <2>2, Zenon DEF Init, DenyInv
<1>9. ImageInv
  BY DEF Init, ImageInv, Idle
<1> QED
  BY <1>2, <1>3, <1>4, <1>7, <1>8, <1>9 DEF FInv, Types, Local, Shared

\* Every step of a process keeps it.
LEMMA StepKeeps ==
  ASSUME CanCount, FInv, NEW p \in Proc, Step(p)
  PROVE  FInv'
<1>1. CASE start_process(p) \/ exit(p) \/ exit_files(p) \/ exit_exec(p) \/ exit_clear(p)
  BY <1>1, StartKeeps, ExitKeeps, ExitFilesKeeps, ExitExecKeeps, ExitClearKeeps, Zenon
<1>2. CASE open_fd(p) \/ close_file(p) \/ close_fd(p)
  BY <1>2, OpenFdKeeps, CloseFileKeeps, CloseFdKeeps, Zenon
<1>3. CASE mmap_pages(p) \/ page_unmap_close(p) \/ page_unmap_remove(p)
  BY <1>3, MmapPagesKeeps, UnmapCloseKeeps, UnmapRemoveKeeps, Zenon
<1>4. CASE \E n \in Name : load(p, n) \/ remove(p, n) \/ open(p, n)
  BY <1>4, LoadKeeps, RemoveKeeps, OpenKeeps, Zenon
<1>5. CASE \E n \in Name, size \in Size, i \in Inode : create(p, n, size, i)
  BY <1>5, CreateKeeps, Zenon
<1>6. CASE \E d \in Fd : close(p, d) \/ mmap(p, d)
  BY <1>6, CloseKeeps, MmapKeeps, Zenon
<1>7. CASE \E d \in Fd, size \in Offset : read(p, d, size) \/ seek(p, d, size)
  BY <1>7, ReadKeeps, SeekKeeps, Zenon
<1>8. CASE \E d \in Fd, size \in Offset, v \in Val : write(p, d, size, v)
  BY <1>8, WriteKeeps, Zenon
<1>9. CASE \E id \in 1 .. MaxMapId : munmap(p, id)
  BY <1>9, MunmapKeeps, Zenon
<1>10. CASE \E v \in Val : page_unmap_write(p, v)
  BY <1>10, UnmapWriteKeeps, Zenon
<1> QED
  BY <1>1, <1>2, <1>3, <1>4, <1>5, <1>6, <1>7, <1>8, <1>9, <1>10, Zenon DEF Step

\* A step that changes nothing keeps it, as after a kernel panic.
LEMMA StutterKeeps ==
  ASSUME FInv, UNCHANGED vars
  PROVE  FInv'
<1>1. UNCHANGED <<procVars, pc, call>> /\ UNCHANGED <<linked, length, content, deny_write_cnt, files>>
  BY DEF vars, inodeVars
<1>2. InodeTypes' /\ FileTypes'
  BY <1>1 DEF FInv, Types, InodeTypes, FileTypes
<1>3. ImagesKept /\ \A f \in File : Untouched(f)
  BY <1>1, Zenon DEF ImagesKept, Untouched, IsOpen, NoFile
<1> QED
  BY <1>1, <1>2, <1>3, StillStep

\* Triple r of References stands for place x of process p.
StandsFor(r, p, x, f) ==
  \/ x \in Nat /\ r = <<p, x, f>>
  \/ \E k \in 1 .. Len(Mmap_list[p]) :
       r = <<p, - k, f>> /\ x = - 1 - Mmap_list[p][k].mapid

\* Every reference is a place that holds its file.
LEMMA ReferenceHeld ==
  ASSUME FInv, NEW r \in References
  PROVE  \E p \in Proc, x \in Int, f \in File : Held(p, x, f) /\ StandsFor(r, p, x, f) /\ r[3] = f
<1>1. ProcTypes /\ Fd \subseteq Nat
  BY SyscallAssumption DEF FInv, Types, Fd, FD_BASE
<1>2. CASE r \in {s \in Proc \X Fd \X File :
                    /\ Fd_table[s[1]][s[2]] = s[3]
                    /\ ~(pc[s[1]] = "close_fd" /\ call[s[1]].fd = s[2])}
  <2>1. PICK p \in Proc, d \in Fd, f \in File : r = <<p, d, f>>
    BY <1>2, SMTT(30)
  <2>2. FdHeld(p, d, f)
    BY <1>2, <2>1 DEF FdHeld
  <2>3. Held(p, d, f)
    BY <2>2, Zenon DEF Held
  <2>4. StandsFor(r, p, d, f) /\ r[3] = f /\ d \in Int
    BY <1>1, <2>1 DEF StandsFor
  <2> QED
    BY <2>3, <2>4, Zenon
<1>3. CASE r \in {s \in Proc \X {0} \X File : Exec_file[s[1]] = s[3] /\ pc[s[1]] # "exit_clear"}
  <2>1. PICK p \in Proc, f \in File : r = <<p, 0, f>>
    BY <1>3
  <2>2. ExecHeld(p, f)
    BY <1>3, <2>1 DEF ExecHeld
  <2>3. Held(p, 0, f)
    BY <2>2, Zenon DEF Held
  <2>4. StandsFor(r, p, 0, f) /\ r[3] = f /\ 0 \in Int
    BY <2>1 DEF StandsFor
  <2> QED
    BY <2>3, <2>4, Zenon
<1>4. CASE r \in {s \in Proc \X {1} \X File : call[s[1]].file = s[3]}
  <2>1. PICK p \in Proc, f \in File : r = <<p, 1, f>>
    BY <1>4
  <2>2. CallHeld(p, f)
    BY <1>4, <2>1 DEF CallHeld
  <2>3. Held(p, 1, f)
    BY <2>2, Zenon DEF Held
  <2>4. StandsFor(r, p, 1, f) /\ r[3] = f /\ 1 \in Int
    BY <2>1 DEF StandsFor
  <2> QED
    BY <2>3, <2>4, Zenon
<1>5. ASSUME NEW p \in Proc, NEW k \in DOMAIN Mmap_list[p],
             ~(pc[p] = "unmap_remove" /\ call[p].map = Mmap_list[p][k]),
             r = <<p, - k, Mmap_list[p][k].file>>
      PROVE  \E q \in Proc, x \in Int, f \in File : Held(q, x, f) /\ StandsFor(r, q, x, f) /\ r[3] = f
  <2>1. PICK m : m = Mmap_list[p][k]
    OBVIOUS
  <2>2. k \in 1 .. Len(Mmap_list[p]) /\ m \in ToSet(Mmap_list[p])
    BY <1>1, <2>1 DEF ProcTypes, ToSet
  <2>3. m.mapid \in Nat /\ m.file \in File
    BY <1>1, <2>2, NoMapping
  <2>4. PICK x \in Int : x = - 1 - m.mapid
    BY <2>3
  <2>5. MapHeld(p, x, m.file)
    BY <1>5, <2>1, <2>2, <2>4, Zenon DEF MapHeld
  <2>6. Held(p, x, m.file)
    BY <2>5, Zenon DEF Held
  <2>7. StandsFor(r, p, x, m.file)
    BY <1>5, <2>1, <2>2, <2>4 DEF StandsFor
  <2>8. r[3] = m.file
    BY <1>5, <2>1
  <2> QED
    BY <2>3, <2>6, <2>7, <2>8, Zenon
<1>6. ASSUME r \in UNION {{<<p, - k, Mmap_list[p][k].file>> :
                             k \in {j \in DOMAIN Mmap_list[p] :
                                      ~(pc[p] = "unmap_remove" /\ call[p].map = Mmap_list[p][j])}} :
                          p \in Proc}
      PROVE  \E p \in Proc : \E k \in DOMAIN Mmap_list[p] :
               /\ ~(pc[p] = "unmap_remove" /\ call[p].map = Mmap_list[p][k])
               /\ r = <<p, - k, Mmap_list[p][k].file>>
  BY <1>6, Zenon
<1> QED
  BY <1>2, <1>3, <1>4, <1>5, <1>6, Zenon DEF References

\* Every place that holds a file is a reference to it.
LEMMA HeldReferenced ==
  ASSUME FInv, NEW p \in Proc, NEW x \in Int, NEW f \in File, Held(p, x, f)
  PROVE  \E r \in References : r[3] = f
<1>1. ProcTypes
  BY DEF FInv, Types
<1>2. CASE x \in Fd /\ FdHeld(p, x, f)
  <2>1. <<p, x, f>> \in References
    BY <1>2, Zenon DEF References, FdHeld
  <2> QED
    BY <2>1
<1>3. CASE x = 0 /\ ExecHeld(p, f)
  <2>1. <<p, 0, f>> \in References
    BY <1>3, Zenon DEF References, ExecHeld
  <2> QED
    BY <2>1
<1>4. CASE x = 1 /\ CallHeld(p, f)
  <2>1. <<p, 1, f>> \in References
    BY <1>4, Zenon DEF References, CallHeld
  <2> QED
    BY <2>1
<1>5. CASE MapHeld(p, x, f)
  <2>1. PICK m \in ToSet(Mmap_list[p]) : m.file = f /\ ~(pc[p] = "unmap_remove" /\ call[p].map = m)
    BY <1>5 DEF MapHeld
  <2>2. PICK k \in DOMAIN Mmap_list[p] : Mmap_list[p][k] = m
    BY <1>1, Zenon DEF ProcTypes, ToSet
  <2>3. <<p, - k, f>> \in References
    <3> DEFINE maps(q) == {<<q, - i, Mmap_list[q][i].file>> :
                             i \in {j \in DOMAIN Mmap_list[q] :
                                      ~(pc[q] = "unmap_remove" /\ call[q].map = Mmap_list[q][j])}}
    <3>1. <<p, - k, f>> \in maps(p)
      BY <2>1, <2>2, Zenon
    <3>2. <<p, - k, f>> \in UNION {maps(q) : q \in Proc}
      BY <3>1, Zenon
    <3> QED
      BY <3>2, Zenon DEF References
  <2> QED
    BY <2>3, Zenon
<1> QED
  BY <1>2, <1>3, <1>4, <1>5, Zenon DEF Held

\* No file has two references.
LEMMA OneReference ==
  ASSUME FInv, NEW r \in References, NEW s \in References, r[3] = s[3]
  PROVE  r = s
<1>1. PICK p \in Proc, x \in Int, f \in File : Held(p, x, f) /\ StandsFor(r, p, x, f) /\ r[3] = f
  BY ReferenceHeld
<1>2. PICK q \in Proc, y \in Int, g \in File : Held(q, y, g) /\ StandsFor(s, q, y, g) /\ s[3] = g
  BY ReferenceHeld
<1>3. q = p /\ y = x /\ g = f
  <2>1. g = f
    BY <1>1, <1>2, Zenon
  <2> QED
    BY <1>1, <1>2, <2>1, SMT DEF FInv, Shared, HoldInv
<1>4. ProcTypes /\ MapInv(p)
  BY AboutProc, Zenon
<1>5. \A k \in 1 .. Len(Mmap_list[p]) :
        Mmap_list[p][k] \in ToSet(Mmap_list[p]) /\ Mmap_list[p][k].mapid \in Nat
  <2>1. \A k \in 1 .. Len(Mmap_list[p]) : Mmap_list[p][k] \in ToSet(Mmap_list[p])
    <3>1. Mmap_list[p] \in Seq(Mapping)
      BY <1>4 DEF ProcTypes
    <3> QED
      BY <3>1 DEF ToSet
  <2>2. \A m \in ToSet(Mmap_list[p]) : m.mapid \in Nat
    BY <1>4, NoMapping
  <2> QED
    BY <2>1, <2>2, Zenon
<1>6. CASE x \in Nat
  <2>1. \A k \in 1 .. Len(Mmap_list[p]) : x # - 1 - Mmap_list[p][k].mapid
    BY <1>5, <1>6
  <2> QED
    BY <1>1, <1>2, <1>3, <2>1, Zenon DEF StandsFor
<1>7. CASE x \notin Nat
  <2>1. PICK k \in 1 .. Len(Mmap_list[p]) : r = <<p, - k, f>> /\ x = - 1 - Mmap_list[p][k].mapid
    BY <1>1, <1>7, Zenon DEF StandsFor
  <2>2. PICK j \in 1 .. Len(Mmap_list[p]) : s = <<p, - j, f>> /\ x = - 1 - Mmap_list[p][j].mapid
    BY <1>2, <1>3, <1>7, Zenon DEF StandsFor
  <2>3. PICK a \in Nat, b \in Nat : a = Mmap_list[p][k].mapid /\ b = Mmap_list[p][j].mapid
    BY <1>5, Zenon
  <2>4. a = b
    <3>1. - 1 - a = - 1 - b
      BY <2>1, <2>2, <2>3, Zenon
    <3> QED
      BY <3>1
  <2>5. Mmap_list[p][k] = Mmap_list[p][j]
    BY <1>4, <1>5, <2>3, <2>4, Zenon DEF MapInv
  <2>6. k = j
    BY <1>4, <2>5, Zenon DEF MapInv
  <2> QED
    BY <2>1, <2>2, <2>6, Zenon
<1> QED
  BY <1>6, <1>7

\* With one place for every struct file and one file for every place, each has one
\* reference.
LEMMA AccountedFrom ==
  ASSUME CanCount, FInv
  PROVE  FilesAccounted
<1>1. ASSUME NEW f \in File \ FreeFiles
      PROVE  Cardinality({r \in References : r[3] = f}) = 1
  <2>1. IsOpen(f) /\ f \in File
    BY DEF FreeFiles, IsOpen
  <2>2. PICK p \in Proc, x \in Int : Held(p, x, f)
    BY <2>1, Zenon DEF FInv, Shared, HoldInv
  <2>3. PICK r \in References : r[3] = f
    BY <2>1, <2>2, HeldReferenced
  <2>4. {s \in References : s[3] = f} = {r}
    BY <2>3, OneReference
  <2> QED
    BY <2>4, Zenon DEF CanCount
<1>2. ASSUME NEW r \in References PROVE r[3] \notin FreeFiles
  <2>1. PICK p \in Proc, x \in Int, f \in File : Held(p, x, f) /\ r[3] = f
    BY ReferenceHeld
  <2>2. IsOpen(f)
    BY <2>1, HeldIsOpen
  <2> QED
    BY <2>1, <2>2 DEF IsOpen, FreeFiles
<1> QED
  BY <1>1, <1>2 DEF FilesAccounted

\* The processes that execute an inode are those whose executable it is.
LEMMA ProtectedFrom ==
  ASSUME CanCount, FInv
  PROVE  ImageProtected
<1>1. ProcTypes /\ InodeTypes /\ FileTypes /\ DenyInv /\ ImageInv /\ Nil \notin File
  BY SyscallAssumption DEF FInv, Types, Shared
<1>2. TypeOK
  <2>1. ASSUME NEW i \in Inode PROVE deny_write_cnt[i] \in 0 .. Cardinality(Proc)
    <3>1. Executing(i) \subseteq Proc /\ Proc \subseteq Proc
      BY DEF Executing
    <3>2. /\ Cardinality(Executing(i)) \in Nat /\ Cardinality(Proc) \in Nat
          /\ Cardinality(Executing(i)) <= Cardinality(Proc)
      BY <3>1, CountProcs, Zenon
    <3>3. deny_write_cnt[i] = Cardinality(Executing(i))
      BY <1>1 DEF DenyInv
    <3> QED
      BY <3>2, <3>3
  <2>2. deny_write_cnt \in [Inode -> 0 .. Cardinality(Proc)]
    BY <1>1, <2>1 DEF DenyInv
  <2> QED
    BY <1>1, <2>2 DEF TypeOK, ProcTypes, InodeTypes, FileTypes
<1>3. \A p \in Proc, f \in File : Held(p, 0, f) <=> Exec_file[p] = f /\ pc[p] # "exit_clear"
  BY <1>1, PlacesApart, Zenon DEF ExecHeld
<1>4. DenyExact
  <2> SUFFICES ASSUME NEW i \in Inode
               PROVE  deny_write_cnt[i] =
                        Cardinality({p \in Proc : /\ Exec_file[p] # Nil /\ pc[p] # "exit_clear"
                                                  /\ files[Exec_file[p]].inode = i})
    BY DEF DenyExact
  <2>1. \A p \in Proc : Exec_file[p] \in File <=> Exec_file[p] # Nil
    BY <1>1 DEF ProcTypes
  <2>2. \A p \in Proc : p \in Executing(i) <=> /\ Exec_file[p] # Nil /\ pc[p] # "exit_clear"
                                               /\ files[Exec_file[p]].inode = i
    BY <1>3, <2>1, Zenon DEF Executing
  <2>3. Executing(i) = {p \in Proc : /\ Exec_file[p] # Nil /\ pc[p] # "exit_clear"
                                     /\ files[Exec_file[p]].inode = i}
    BY <2>2, Zenon DEF Executing
  <2> QED
    BY <1>1, <2>3, Zenon DEF DenyInv
<1>5. ImageUnchanged
  BY <1>1, <1>3, Zenon DEF ImageInv, ImageUnchanged
<1> QED
  BY <1>2, <1>4, <1>5 DEF ImageProtected

-----------------------------------------------------------------------------
(* There are finitely many processes, so sets of them can be counted.  The *)
(* theorems about cardinalities are instantiated here, where they are      *)
(* used; as that gives Cardinality and IsFiniteSet a second meaning, what  *)
(* both abbreviate links the two.                                          *)

\* What Cardinality(S) abbreviates.
CountOf(S) ==
  LET CS[T \in SUBSET S] == IF T = {} THEN 0 ELSE 1 + CS[T \ {CHOOSE x : x \in T}]
  IN  CS[S]

\* The cardinalities in the model count.
LEMMA ModelCounts == \A S : Cardinality(S) = CountOf(S)
BY Zenon DEF Cardinality, CountOf

\* There is a list of all processes.
LEMMA ProcsListed == \E s \in Seq(Proc) : \A p \in Proc : \E n \in 1 .. Len(s) : s[n] = p
BY SyscallAssumption DEF IsFiniteSet

\* Counting follows from its laws for CountOf.
LEMMA CountingLaws ==
  ASSUME \A T \in SUBSET Nat : T # {} => \E x \in T : \A y \in T : x <= y,
         CountOf({}) = 0, \A x : CountOf({x}) = 1,
         \A T \in SUBSET Proc :
           /\ CountOf(T) \in Nat /\ CountOf(T) <= CountOf(Proc)
           /\ \A p \in Proc \ T : CountOf(T \cup {p}) = CountOf(T) + 1
           /\ \A p \in T : CountOf(T \ {p}) = CountOf(T) - 1
  PROVE  CanCount
BY ModelCounts, Zenon DEF CanCount

LOCAL INSTANCE FiniteSetTheorems

LOCAL INSTANCE WellFoundedInduction

\* The cardinalities of FiniteSetTheorems count too.
LEMMA LibraryCounts == \A S : Cardinality(S) = CountOf(S)
BY Zenon DEF Cardinality, CountOf

\* A set of numbers that is not empty has a least element.
LEMMA LeastNumber ==
  ASSUME NEW T, T \subseteq Nat, T # {}
  PROVE  \E x \in T : \A y \in T : x <= y
<1> DEFINE R == OpToRel(<, Nat)
<1>1. \A x, y \in Nat : y < x => <<y, x>> \in R
  BY DEF OpToRel
<1> HIDE DEF R
<1>2. IsWellFoundedOn(R, Nat)
  BY NatLessThanWellFounded, Zenon DEF R
<1>3. PICK x \in T : \A y \in T : ~(<<y, x>> \in R)
  BY <1>2, WFMin, Zenon
<1>4. \A y \in T : ~(y < x)
  BY <1>1, <1>3, Zenon
<1> QED
  BY <1>4

\* Sets of processes can be counted, however many processes there are.
LEMMA ProcsCounted == CanCount
<1>1. ASSUME NEW T \in SUBSET Proc
      PROVE  /\ CountOf(T) \in Nat /\ CountOf(T) <= CountOf(Proc)
             /\ \A p \in Proc \ T : CountOf(T \cup {p}) = CountOf(T) + 1
             /\ \A p \in T : CountOf(T \ {p}) = CountOf(T) - 1
  <2>1. IsFiniteSet(Proc)
    BY ProcsListed DEF IsFiniteSet
  <2>2. IsFiniteSet(T) /\ Cardinality(T) <= Cardinality(Proc)
    BY <2>1, FS_Subset, Zenon
  <2>3. Cardinality(T) \in Nat
    BY <2>2, FS_CardinalityType, Zenon
  <2>4. \A p \in Proc \ T : Cardinality(T \cup {p}) = Cardinality(T) + 1
    BY <2>2, FS_AddElement
  <2>5. \A p \in T : Cardinality(T \ {p}) = Cardinality(T) - 1
    BY <2>2, FS_RemoveElement
  <2> QED
    BY <2>2, <2>3, <2>4, <2>5, LibraryCounts, Zenon
<1>2. CountOf({}) = 0 /\ \A x : CountOf({x}) = 1
  BY FS_EmptySet, FS_Singleton, LibraryCounts, Zenon
<1>3. \A T \in SUBSET Nat : T # {} => \E x \in T : \A y \in T : x <= y
  BY LeastNumber, Zenon
<1> QED
  BY <1>1, <1>2, <1>3, CountingLaws, Zenon

\* The invariant of the system call layer: a struct file is open exactly while one
\* descriptor, executable, mapping or call has to close it, writes to an inode are
\* denied as often as it is executed, and no image changes.
THEOREM SyscallInvariance == Spec => []FInv
<1>1. Init => FInv
  BY InitHolds, ProcsCounted, Zenon
<1>2. FInv /\ [Next]_vars => FInv'
  BY StepKeeps, ProcsCounted, StutterKeeps, Zenon DEF Next
<1> QED
  BY <1>1, <1>2, PTL DEF Spec

\* No early return of open (), mmap (), load () or process_exit () leaks a struct
\* file or closes one twice, for any number of processes, descriptors and files.
THEOREM FilesAlwaysAccounted == Spec => []FilesAccounted
<1>1. FInv => FilesAccounted
  BY ProcsCounted, AccountedFrom
<1> QED
  BY <1>1, SyscallInvariance, PTL

\* From load () to process_exit () the executable of a process is protected: writes
\* to it are counted as denied once per process, and its content never changes.
THEOREM ImageAlwaysProtected == Spec => []ImageProtected
<1>1. FInv => ImageProtected
  BY ProcsCounted, ProtectedFrom
<1> QED
  BY <1>1, SyscallInvariance, PTL
=============================================================================

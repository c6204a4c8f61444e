------------------------------- MODULE Syscall -------------------------------
(***************************************************************************)
(* The system calls on files (userprog/syscall.c) of several processes:    *)
(* Fd_table, the structs file behind it (filesys/file.c), the executable a *)
(* process holds from load () to process_exit (), and its mappings.        *)
(*                                                                         *)
(* Between two system calls a process is at "user".  What a call does      *)
(* while it holds Filesys_lock is one step, since every other use of files *)
(* takes that lock too; what it does before and after are steps of their   *)
(* own.  The checks of user addresses, which come before the lock is taken *)
(* and can only end in exit (-1), are part of exit.                        *)
(*                                                                         *)
(* unsigned and off_t have Width bits: a value with the top bit set turns  *)
(* negative when file.c gets it.                                           *)
(***************************************************************************)
EXTENDS KernelList, FiniteSets

CONSTANTS
  Proc,
  FD_MAX,
  Name, Inode,
  File,            \* structs file the kernel has memory for
  Width, Size, Offset,
  Val, Zero,
  MaxMapId,        \* bound on next_mapid
  Nil

FD_BASE == 2

ASSUME SyscallAssumption ==
  /\ FD_MAX \in Nat /\ FD_MAX > FD_BASE
  /\ Width \in Nat \ {0}
  /\ Size \subseteq 0 .. 2 ^ Width - 1 /\ Offset \subseteq 0 .. 2 ^ Width - 1
  /\ 1 \in Size /\ Zero \in Val
  /\ Nil \notin Proc \cup File \cup Inode \cup Val
  /\ IsFiniteSet(Proc)

Fd == FD_BASE .. FD_MAX - 1

VARIABLES
  linked,          \* the directory: the inode of a name
  length, content, deny_write_cnt,  \* of an inode
  files,           \* struct file
  Fd_table, Exec_file,
  Mmap_list, next_mapid,
  pc,
  call             \* locals of the call a process is in

inodeVars == <<linked, length, content, deny_write_cnt>>
procVars == <<Fd_table, Exec_file, Mmap_list, next_mapid>>
vars == <<inodeVars, files, procVars, pc, call>>

NoFile == [inode |-> Nil, pos |-> 0, deny_write |-> FALSE]
Idle == [file |-> Nil, fd |-> Nil, map |-> Nil, image |-> Nil, exiting |-> FALSE]
NoTable == [d \in Fd |-> Nil]

Go(p, label, c) == pc' = [pc EXCEPT ![p] = label] /\ call' = [call EXCEPT ![p] = c]

Return(p) == Go(p, "user", [Idle EXCEPT !.image = call[p].image])

\* The conversion of an unsigned argument to off_t.
off_t(x) == IF x < 2 ^ (Width - 1) THEN x ELSE x - 2 ^ Width

-----------------------------------------------------------------------------
(* struct file.                                                            *)

FreeFiles == {f \in File : files[f] = NoFile}

\* file_open (): a new struct file f for inode i.
FileOpen(f, i) == files' = [files EXCEPT ![f] = [NoFile EXCEPT !.inode = i]]

\* file_close () of every file in S, with file_allow_write ().
FileClose(S) ==
  /\ files' = [f \in File |-> IF f \in S THEN NoFile ELSE files[f]]
  /\ deny_write_cnt' = [i \in Inode |->
       deny_write_cnt[i] - Cardinality({f \in S : files[f].inode = i /\ files[f].deny_write})]

\* The bytes inode_read_at () and inode_write_at () can move at pos.
Bytes(i, pos, size) ==
  LET left == length[i] - pos
      n == IF off_t(size) < left THEN off_t(size) ELSE left
  IN  IF n > 0 THEN n ELSE 0

\* Inodes that a directory entry or an open file needs.
Live == {linked[n] : n \in Name} \cup {files[f].inode : f \in File}

-----------------------------------------------------------------------------
(* The life of a process: start_process (), load () and process_exit ().   *)

start_process(p) ==
  /\ pc[p] = "none"
  /\ Go(p, "load", Idle)
  /\ UNCHANGED <<inodeVars, files, procVars>>

\* load () holds Filesys_lock throughout, and all that looks at files takes it: the file
\* is opened and writes to it are denied; when a later step fails it is closed again,
\* which leaves everything as it was.
load(p, n) ==
  LET i == linked[n]
  IN  /\ pc[p] = "load"
      /\ \/ \E f \in FreeFiles :
              /\ i # Nil
              /\ files' = [files EXCEPT ![f] = [inode |-> i, pos |-> 0, deny_write |-> TRUE]]
              /\ deny_write_cnt' = [deny_write_cnt EXCEPT ![i] = @ + 1]
              /\ Exec_file' = [Exec_file EXCEPT ![p] = f]
              /\ Mmap_list' = [Mmap_list EXCEPT ![p] = <<>>]
              /\ next_mapid' = [next_mapid EXCEPT ![p] = 1]
              /\ Go(p, "user", [Idle EXCEPT !.image = content[i]])
         \/ Go(p, "exit", Idle) /\ UNCHANGED <<deny_write_cnt, files, Exec_file, Mmap_list, next_mapid>>
      /\ UNCHANGED <<linked, length, content, Fd_table>>

\* exit (), a check of a user address that fails, or a killed process.
exit(p) ==
  /\ pc[p] = "user"
  /\ Go(p, "exit", call[p])
  /\ UNCHANGED <<inodeVars, files, procVars>>

\* process_exit () closes the descriptors in one critical section ...
exit_files(p) ==
  /\ pc[p] = "exit"
  /\ FileClose({Fd_table[p][d] : d \in Fd} \ {Nil})
  /\ Fd_table' = [Fd_table EXCEPT ![p] = NoTable]
  /\ Go(p, "exit_exec", call[p])
  /\ UNCHANGED <<linked, length, content, Exec_file, Mmap_list, next_mapid>>

\* ... then the executable ...
exit_exec(p) ==
  /\ pc[p] = "exit_exec"
  /\ FileClose({Exec_file[p]} \ {Nil})
  /\ Go(p, "exit_clear", [call[p] EXCEPT !.image = Nil])
  /\ UNCHANGED <<linked, length, content, procVars>>

\* ... and page_unmap_all () takes the mappings down.
exit_clear(p) ==
  /\ pc[p] = "exit_clear"
  /\ Exec_file' = [Exec_file EXCEPT ![p] = Nil]
  /\ IF Mmap_list[p] = <<>> THEN Go(p, "none", Idle)
     ELSE Go(p, "unmap", [Idle EXCEPT !.map = Head(Mmap_list[p]), !.exiting = TRUE])
  /\ UNCHANGED <<inodeVars, files, Fd_table, Mmap_list, next_mapid>>

-----------------------------------------------------------------------------
(* create, remove, open, close.                                            *)

\* inode_create () asserts that the size is not negative, before dir_add () finds out
\* whether the name is free.
create(p, n, size, i) ==
  /\ pc[p] = "user"
  /\ i \notin Live
  /\ IF off_t(size) < 0 THEN Go(p, "panic", call[p]) /\ UNCHANGED inodeVars
     ELSE /\ linked[n] = Nil
          /\ linked' = [linked EXCEPT ![n] = i]
          /\ length' = [length EXCEPT ![i] = size]
          /\ content' = [content EXCEPT ![i] = Zero]
          /\ UNCHANGED <<deny_write_cnt, pc, call>>
  /\ UNCHANGED <<files, procVars>>

remove(p, n) ==
  /\ pc[p] = "user"
  /\ linked[n] # Nil
  /\ linked' = [linked EXCEPT ![n] = Nil]
  /\ UNCHANGED <<length, content, deny_write_cnt, files, procVars, pc, call>>

open(p, n) ==
  /\ pc[p] = "user"
  /\ linked[n] # Nil
  /\ \E f \in FreeFiles :
       /\ FileOpen(f, linked[n])
       /\ Go(p, "open_fd", [call[p] EXCEPT !.file = f])
  /\ UNCHANGED <<inodeVars, procVars>>

get_file(p, d) == Fd_table[p][d]

FreeFds(p) == {d \in Fd : Fd_table[p][d] = Nil}

LowestFd(p) == CHOOSE d \in FreeFds(p) : \A e \in FreeFds(p) : d <= e

\* Changed form, for the mutation runs: a full table only makes open () return -1.
open_fd_leak(p) ==
  /\ pc[p] = "open_fd"
  /\ \/ /\ FreeFds(p) # {}
        /\ Fd_table' = [Fd_table EXCEPT ![p][LowestFd(p)] = call[p].file]
        /\ Return(p)
     \/ /\ FreeFds(p) = {}
        /\ Return(p)
        /\ UNCHANGED Fd_table
  /\ UNCHANGED <<inodeVars, files, Exec_file, Mmap_list, next_mapid>>

\* The lowest free descriptor, outside the lock; none: the file is closed again.
open_fd(p) ==
  /\ pc[p] = "open_fd"
  /\ \/ /\ FreeFds(p) # {}
        /\ Fd_table' = [Fd_table EXCEPT ![p][LowestFd(p)] = call[p].file]
        /\ Return(p)
     \/ /\ FreeFds(p) = {}
        /\ Go(p, "close_file", call[p])
        /\ UNCHANGED Fd_table
  /\ UNCHANGED <<inodeVars, files, Exec_file, Mmap_list, next_mapid>>

\* The file_close () of open (), mmap () and page_unmap () on a file in no table.
close_file(p) ==
  /\ pc[p] = "close_file"
  /\ FileClose({call[p].file})
  /\ Return(p)
  /\ UNCHANGED <<linked, length, content, procVars>>

close(p, d) ==
  /\ pc[p] = "user"
  /\ get_file(p, d) # Nil
  /\ FileClose({get_file(p, d)})
  /\ Go(p, "close_fd", [call[p] EXCEPT !.fd = d])
  /\ UNCHANGED <<linked, length, content, procVars>>

\* Changed form, for the mutation runs: the entry is not cleared.
close_fd_not(p) ==
  /\ pc[p] = "close_fd"
  /\ UNCHANGED Fd_table
  /\ Return(p)
  /\ UNCHANGED <<inodeVars, files, Exec_file, Mmap_list, next_mapid>>

\* Until here the entry still points to the struct file that was freed.
close_fd(p) ==
  /\ pc[p] = "close_fd"
  /\ Fd_table' = [Fd_table EXCEPT ![p][call[p].fd] = Nil]
  /\ Return(p)
  /\ UNCHANGED <<inodeVars, files, Exec_file, Mmap_list, next_mapid>>

-----------------------------------------------------------------------------
(* read, write, seek; filesize and tell change nothing.  A transfer that   *)
(* gets no memory for its bounce buffer stops early, after n bytes.        *)

read(p, d, size) ==
  LET f == get_file(p, d)
  IN  /\ pc[p] = "user" /\ f # Nil
      /\ \E n \in 0 .. Bytes(files[f].inode, files[f].pos, size) :
           files' = [files EXCEPT ![f].pos = @ + n]
      /\ UNCHANGED <<inodeVars, procVars, pc, call>>

write(p, d, size, v) ==
  LET f == get_file(p, d)
      i == files[f].inode
  IN  /\ pc[p] = "user" /\ f # Nil
      /\ \E n \in 0 .. (IF deny_write_cnt[i] > 0 THEN 0 ELSE Bytes(i, files[f].pos, size)) :
           /\ files' = [files EXCEPT ![f].pos = @ + n]
           /\ content' = IF n > 0 THEN [content EXCEPT ![i] = v] ELSE content
      /\ UNCHANGED <<linked, length, deny_write_cnt, procVars, pc, call>>

\* file_seek () asserts that the position is not negative.
seek(p, d, position) ==
  LET f == get_file(p, d)
  IN  /\ pc[p] = "user" /\ f # Nil
      /\ IF off_t(position) < 0 THEN Go(p, "panic", [call[p] EXCEPT !.fd = d]) /\ UNCHANGED files
         ELSE files' = [files EXCEPT ![f].pos = off_t(position)] /\ UNCHANGED <<pc, call>>
      /\ UNCHANGED <<inodeVars, procVars>>

-----------------------------------------------------------------------------
(* mmap and munmap.                                                        *)

\* The mapping has a struct file of its own.
mmap(p, d) ==
  /\ pc[p] = "user"
  /\ get_file(p, d) # Nil
  /\ next_mapid[p] <= MaxMapId
  /\ \E f \in FreeFiles :
       /\ FileOpen(f, files[get_file(p, d)].inode)
       /\ Go(p, "mmap_pages", [call[p] EXCEPT !.file = f])
  /\ UNCHANGED <<inodeVars, procVars>>

\* An empty file, a page in the way and a failing malloc close the file again; when
\* a page cannot be added, page_unmap () takes the new mapping down.
mmap_pages(p) ==
  LET m == [mapid |-> next_mapid[p], file |-> call[p].file]
  IN  /\ pc[p] = "mmap_pages"
      /\ \/ Go(p, "close_file", call[p]) /\ UNCHANGED <<Mmap_list, next_mapid>>
         \/ /\ length[files[call[p].file].inode] > 0
            /\ Mmap_list' = [Mmap_list EXCEPT ![p] = Append(@, m)]
            /\ next_mapid' = [next_mapid EXCEPT ![p] = @ + 1]
            /\ Return(p) \/ Go(p, "unmap", [call[p] EXCEPT !.file = Nil, !.map = m])
      /\ UNCHANGED <<inodeVars, files, Fd_table, Exec_file>>

munmap(p, id) ==
  /\ pc[p] = "user"
  /\ \E k \in DOMAIN Mmap_list[p] :
       /\ Mmap_list[p][k].mapid = id
       /\ Go(p, "unmap", [call[p] EXCEPT !.map = Mmap_list[p][k]])
  /\ UNCHANGED <<inodeVars, files, procVars>>

\* Changed form, for the mutation runs: the write does not look at deny_write_cnt.
page_unmap_write_denied(p, v) ==
  LET i == files[call[p].map.file].inode
  IN  /\ pc[p] = "unmap"
      /\ content' = [content EXCEPT ![i] = v]
      /\ Go(p, "unmap_close", call[p])
      /\ UNCHANGED <<linked, length, deny_write_cnt, files, procVars>>

\* page_unmap () writes the pages that are dirty ...
page_unmap_write(p, v) ==
  LET i == files[call[p].map.file].inode
  IN  /\ pc[p] = "unmap"
      /\ content' = IF deny_write_cnt[i] > 0 THEN content ELSE [content EXCEPT ![i] = v]
      /\ Go(p, "unmap_close", call[p])
      /\ UNCHANGED <<linked, length, deny_write_cnt, files, procVars>>

\* ... closes the file ...
page_unmap_close(p) ==
  /\ pc[p] \in {"unmap", "unmap_close"}
  /\ FileClose({call[p].map.file})
  /\ Go(p, "unmap_remove", call[p])
  /\ UNCHANGED <<linked, length, content, procVars>>

\* ... and only then takes the mapping off the list.
page_unmap_remove(p) ==
  LET rest == RemoveAt(Mmap_list[p], Place(Mmap_list[p], call[p].map))
  IN  /\ pc[p] = "unmap_remove"
      /\ Mmap_list' = [Mmap_list EXCEPT ![p] = rest]
      /\ IF ~call[p].exiting THEN Return(p)
         ELSE IF rest = <<>> THEN Go(p, "none", Idle)
         ELSE Go(p, "unmap", [call[p] EXCEPT !.map = Head(rest)])
      /\ UNCHANGED <<inodeVars, files, Fd_table, Exec_file, next_mapid>>

-----------------------------------------------------------------------------

Init ==
  /\ linked \in {l \in [Name -> Inode] : \A m, n \in Name : l[m] = l[n] => m = n}
  /\ length = [i \in Inode |-> 1]
  /\ content = [i \in Inode |-> Zero]
  /\ deny_write_cnt = [i \in Inode |-> 0]
  /\ files = [f \in File |-> NoFile]
  /\ Fd_table = [p \in Proc |-> NoTable]
  /\ Exec_file = [p \in Proc |-> Nil]
  /\ Mmap_list = [p \in Proc |-> <<>>]
  /\ next_mapid = [p \in Proc |-> 1]
  /\ pc = [p \in Proc |-> "none"]
  /\ call = [p \in Proc |-> Idle]

Panicked == \E p \in Proc : pc[p] = "panic"

Step(p) ==
  \/ start_process(p) \/ exit(p) \/ exit_files(p) \/ exit_exec(p) \/ exit_clear(p)
  \/ open_fd(p) \/ close_file(p) \/ close_fd(p)
  \/ mmap_pages(p) \/ page_unmap_close(p) \/ page_unmap_remove(p)
  \/ \E n \in Name : load(p, n) \/ remove(p, n) \/ open(p, n)
  \/ \E n \in Name, size \in Size, i \in Inode : create(p, n, size, i)
  \/ \E d \in Fd : close(p, d) \/ mmap(p, d)
  \/ \E d \in Fd, size \in Offset : read(p, d, size) \/ seek(p, d, size)
  \/ \E d \in Fd, size \in Offset, v \in Val : write(p, d, size, v)
  \/ \E id \in 1 .. MaxMapId : munmap(p, id)
  \/ \E v \in Val : page_unmap_write(p, v)

Next ==
  \/ ~Panicked /\ \E p \in Proc : Step(p)
  \/ Panicked /\ UNCHANGED vars

Spec == Init /\ [][Next]_vars

-----------------------------------------------------------------------------
(* Properties.                                                             *)

\* Type invariant.
TypeOK ==
  /\ linked \in [Name -> Inode \cup {Nil}]
  /\ length \in [Inode -> Size] /\ content \in [Inode -> Val]
  /\ deny_write_cnt \in [Inode -> 0 .. Cardinality(Proc)]
  /\ files \in [File -> [inode : Inode \cup {Nil}, pos : Nat, deny_write : BOOLEAN]]
  /\ Fd_table \in [Proc -> [Fd -> File \cup {Nil}]]
  /\ Exec_file \in [Proc -> File \cup {Nil}]

\* The references to structs file that are still to be closed: descriptors, the
\* executable, mappings, and the file a call holds in a local.
References ==
  LET closing(p, d) == pc[p] = "close_fd" /\ call[p].fd = d
      removing(p, k) == pc[p] = "unmap_remove" /\ call[p].map = Mmap_list[p][k]
  IN  {r \in Proc \X Fd \X File : Fd_table[r[1]][r[2]] = r[3] /\ ~closing(r[1], r[2])}
      \cup {r \in Proc \X {0} \X File : Exec_file[r[1]] = r[3] /\ pc[r[1]] # "exit_clear"}
      \cup {r \in Proc \X {1} \X File : call[r[1]].file = r[3]}
      \cup UNION {{<<p, - k, Mmap_list[p][k].file>> :
                     k \in {j \in DOMAIN Mmap_list[p] : ~removing(p, j)}} : p \in Proc}

\* Every struct file that file_open () allocated is held in exactly one place that
\* will close it, and nothing that will be closed or used points to a freed one:
\* no early return of open (), mmap (), load () or process_exit () leaks a file or
\* closes one twice.
FilesAccounted ==
  /\ \A f \in File \ FreeFiles : Cardinality({r \in References : r[3] = f}) = 1
  /\ \A r \in References : r[3] \notin FreeFiles

\* Writes are denied exactly as often as processes hold the inode as their
\* executable, whichever order they were loaded and left in.
DenyExact ==
  \A i \in Inode : deny_write_cnt[i] =
    Cardinality({p \in Proc : /\ Exec_file[p] # Nil /\ pc[p] # "exit_clear"
                              /\ files[Exec_file[p]].inode = i})

\* While a process runs, no write and no mapping of another process (or its own)
\* changes the file it was loaded from.
ImageUnchanged ==
  \A p \in Proc : call[p].image # Nil => content[files[Exec_file[p]].inode] = call[p].image

\* The executable of a running process is protected, from load () to process_exit ().
ImageProtected == TypeOK /\ DenyExact /\ ImageUnchanged

\* "Moving the position past the end of the file is no error": seek () never stops
\* the kernel.
SeekIsNoError == \A p \in Proc : ~(pc[p] = "panic" /\ call[p].fd # Nil)

InodeOf(f) == IF f = Nil THEN Nil ELSE files[f].inode

\* The descriptors a process has, with the one that open () is about to return.
Desc(p, d) ==
  LET opening == pc[p] = "open_fd" /\ FreeFds(p) # {} /\ d = LowestFd(p)
      closing == pc[p] = "close_fd" /\ call[p].fd = d
      f == IF opening THEN call[p].file ELSE IF closing THEN Nil ELSE Fd_table[p][d]
  IN  [inode |-> InodeOf(f), pos |-> IF f = Nil THEN 0 ELSE files[f].pos]

MapOf(p, id) ==
  LET ms == {m \in ToSet(Mmap_list[p]) : m.mapid = id}
      removing == pc[p] = "unmap_remove" /\ call[p].map.mapid = id
  IN  IF ms = {} \/ removing THEN Nil ELSE files[(CHOOSE m \in ms : TRUE).file].inode

Abstract ==
  INSTANCE Descriptors WITH
    MapId <- 1 .. MaxMapId,
    desc <- [p \in Proc |-> [d \in Fd |-> Desc(p, d)]],
    running <- [p \in Proc |-> IF pc[p] = "exit_clear" THEN Nil ELSE InodeOf(Exec_file[p])],
    mapped <- [p \in Proc |-> [id \in 1 .. MaxMapId |-> MapOf(p, id)]]

\* The table of pointers, the structs file and their critical sections implement
\* descriptors with positions of their own, whatever the processes interleave.
ImplementsDescriptors == Abstract!Spec
=============================================================================

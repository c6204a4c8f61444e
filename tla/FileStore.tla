----------------------------- MODULE FileStore -----------------------------
(***************************************************************************)
(* What the file system promises its callers (filesys/filesys.h, file.h):  *)
(* names lead to files, a removed file lives on for those who have it      *)
(* open, every opener sees every write, and a crash loses nothing but the  *)
(* openers.  Sectors, inodes and the free map have no place here.          *)
(***************************************************************************)
EXTENDS Naturals, Sequences

CONSTANTS Name, Fid, Handle, Val, Zero, Size, None

VARIABLES names,     \* the file a name leads to
          opened,    \* the file a handle has open
          content    \* the blocks of a file that has a name or an opener

vars == <<names, opened, content>>

Init ==
  /\ names = [n \in Name |-> None]
  /\ opened = [h \in Handle |-> None]
  /\ content = [f \in Fid |-> None]

\* The contents once nothing but the names ns and the handles hs keep files alive.
Kept(ns, hs) ==
  [f \in Fid |-> IF (\E n \in Name : ns[n] = f) \/ (\E h \in Handle : hs[h] = f)
                 THEN content[f] ELSE None]

Create(n, f, k) ==
  /\ names[n] = None /\ content[f] = None
  /\ names' = [names EXCEPT ![n] = f]
  /\ content' = [content EXCEPT ![f] = [i \in 1 .. k |-> Zero]]
  /\ UNCHANGED opened

Remove(n) ==
  /\ names[n] # None
  /\ names' = [names EXCEPT ![n] = None]
  /\ content' = Kept(names', opened)
  /\ UNCHANGED opened

Open(h, f) ==
  /\ opened[h] = None /\ content[f] # None
  /\ opened' = [opened EXCEPT ![h] = f]
  /\ UNCHANGED <<names, content>>

Close(h) ==
  /\ opened[h] # None
  /\ opened' = [opened EXCEPT ![h] = None]
  /\ content' = Kept(names, opened')
  /\ UNCHANGED names

Write(h, i, v) ==
  /\ opened[h] # None /\ i \in DOMAIN content[opened[h]]
  /\ content' = [content EXCEPT ![opened[h]][i] = v]
  /\ UNCHANGED <<names, opened>>

Crash ==
  /\ opened' = [h \in Handle |-> None]
  /\ content' = Kept(names, opened')
  /\ UNCHANGED names

Next ==
  \/ \E n \in Name, f \in Fid, k \in Size : Create(n, f, k)
  \/ \E n \in Name : Remove(n)
  \/ \E h \in Handle, f \in Fid : Open(h, f)
  \/ \E h \in Handle : Close(h)
  \/ \E h \in Handle, k \in Size, v \in Val : \E i \in 1 .. k : Write(h, i, v)
  \/ Crash

Spec == Init /\ [][Next]_vars
=============================================================================

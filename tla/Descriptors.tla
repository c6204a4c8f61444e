----------------------------- MODULE Descriptors -----------------------------
(***************************************************************************)
(* What the system calls on files promise: every process has numbered      *)
(* descriptors, each with a position of its own; a file may be open many   *)
(* times, stays readable after it is removed, and cannot be written while  *)
(* a process runs it.  There are no structs file, no table pages and no    *)
(* locks.                                                                  *)
(***************************************************************************)
EXTENDS Integers, FiniteSets

CONSTANTS Proc, Fd, Name, Inode, MapId, Size, Offset, Val, Zero, Nil

VARIABLES
  linked,          \* the file of a name
  length, content, \* of a file
  desc,            \* [inode, pos] of each descriptor of a process
  running,         \* the file a process executes
  mapped           \* the file of each mapping of a process

vars == <<linked, length, content, desc, running, mapped>>

Bytes(i, pos, size) ==
  LET left == length[i] - pos
      n == IF size < left THEN size ELSE left
  IN  IF n > 0 THEN n ELSE 0

Denied(i) == \E p \in Proc : running[p] = i

InUse == {linked[n] : n \in Name} \cup {running[p] : p \in Proc}
           \cup {mapped[p][m] : p \in Proc, m \in MapId}
           \cup {desc[p][d].inode : p \in Proc, d \in Fd}

Create ==
  \E n \in Name, i \in Inode \ InUse, s \in Size :
    /\ linked[n] = Nil
    /\ linked' = [linked EXCEPT ![n] = i]
    /\ length' = [length EXCEPT ![i] = s]
    /\ content' = [content EXCEPT ![i] = Zero]
    /\ UNCHANGED <<desc, running, mapped>>

Remove ==
  \E n \in Name :
    /\ linked' = [linked EXCEPT ![n] = Nil]
    /\ UNCHANGED <<length, content, desc, running, mapped>>

Open(p) ==
  \E n \in Name, d \in Fd :
    /\ linked[n] # Nil /\ desc[p][d].inode = Nil
    /\ \A e \in Fd : e < d => desc[p][e].inode # Nil
    /\ desc' = [desc EXCEPT ![p][d] = [inode |-> linked[n], pos |-> 0]]
    /\ UNCHANGED <<linked, length, content, running, mapped>>

Close(p) ==
  \E d \in Fd :
    /\ desc' = [desc EXCEPT ![p][d] = [inode |-> Nil, pos |-> 0]]
    /\ UNCHANGED <<linked, length, content, running, mapped>>

Seek(p) ==
  \E d \in Fd, pos \in Offset :
    /\ desc[p][d].inode # Nil
    /\ desc' = [desc EXCEPT ![p][d].pos = pos]
    /\ UNCHANGED <<linked, length, content, running, mapped>>

\* A transfer moves the position by at most what fits before the end of the file, and
\* changes the file only if it moves it; a file that is being executed is not changed.
Transfer(p, size) ==
  \E d \in Fd :
    LET i == desc[p][d].inode
    IN  /\ i # Nil
        /\ \E n \in 0 .. Bytes(i, desc[p][d].pos, size) :
             /\ desc' = [desc EXCEPT ![p][d].pos = @ + n]
             /\ \/ content' = content
                \/ n > 0 /\ ~Denied(i) /\ \E v \in Val : content' = [content EXCEPT ![i] = v]
        /\ UNCHANGED <<linked, length, running, mapped>>

Map(p) ==
  \E d \in Fd, m \in MapId :
    /\ desc[p][d].inode # Nil /\ mapped[p][m] = Nil
    /\ mapped' = [mapped EXCEPT ![p][m] = desc[p][d].inode]
    /\ UNCHANGED <<linked, length, content, desc, running>>

WriteBack(p) ==
  \E m \in MapId, v \in Val :
    /\ mapped[p][m] # Nil /\ ~Denied(mapped[p][m])
    /\ content' = [content EXCEPT ![mapped[p][m]] = v]
    /\ UNCHANGED <<linked, length, desc, running, mapped>>

Unmap(p) ==
  \E m \in MapId :
    /\ mapped' = [mapped EXCEPT ![p][m] = Nil]
    /\ UNCHANGED <<linked, length, content, desc, running>>

Run(p) ==
  \E n \in Name :
    /\ linked[n] # Nil /\ running[p] = Nil
    /\ running' = [running EXCEPT ![p] = linked[n]]
    /\ UNCHANGED <<linked, length, content, desc, mapped>>

Leave(p) ==
  /\ \/ desc' = [desc EXCEPT ![p] = [d \in Fd |-> [inode |-> Nil, pos |-> 0]]] /\ running' = running
     \/ running' = [running EXCEPT ![p] = Nil] /\ desc' = desc
  /\ UNCHANGED <<linked, length, content, mapped>>

Init ==
  /\ linked \in [Name -> Inode \cup {Nil}]
  /\ \A n1, n2 \in Name : linked[n1] = linked[n2] => n1 = n2 \/ linked[n1] = Nil
  /\ length \in [Inode -> Size]
  /\ content = [i \in Inode |-> Zero]
  /\ desc = [p \in Proc |-> [d \in Fd |-> [inode |-> Nil, pos |-> 0]]]
  /\ running = [p \in Proc |-> Nil]
  /\ mapped = [p \in Proc |-> [m \in MapId |-> Nil]]

Next ==
  \/ Create \/ Remove
  \/ \E p \in Proc :
       \/ Open(p) \/ Close(p) \/ Seek(p)
       \/ \E size \in Offset : Transfer(p, size)
       \/ Map(p) \/ WriteBack(p) \/ Unmap(p) \/ Run(p) \/ Leave(p)

Spec == Init /\ [][Next]_vars
=============================================================================

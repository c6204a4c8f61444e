---------------------------- MODULE AddressSpace ----------------------------
(***************************************************************************)
(* What virtual memory promises a user process (vm/page.h, the manual's    *)
(* chapter on project 3): every page of a process holds what the process   *)
(* last put there, whoever else uses memory meanwhile, and a mapped page   *)
(* is in its file before the mapping goes away.  Frames, swap and locks    *)
(* have no place here; VM is shown to implement this.                      *)
(***************************************************************************)
CONSTANTS Proc, Page, BinPage, MmapPage, Val, Zero, BinVal, Unmapped, Nil

VARIABLES mem,   \* what a page of a process holds
          store, \* the process, page and value if the last step was a store, or Nil
          file   \* what the file mapped at a page of a process holds

vars == <<mem, store, file>>

Init ==
  /\ mem = [p \in Proc |-> [u \in Page |-> Unmapped]]
  /\ store = Nil
  /\ file = [p \in Proc |-> [u \in MmapPage |-> BinVal]]

\* Pages come into existence with the contents of their origin: the executable
\* (BinVal), nothing (Zero) or the mapped file.
Map(p, S) ==
  /\ \A u \in S : mem[p][u] = Unmapped
  /\ mem' = [mem EXCEPT ![p] =
               [u \in Page |-> CASE u \notin S -> @[u]
                                 [] u \in S \cap BinPage -> BinVal
                                 [] u \in S \cap MmapPage -> file[p][u]
                                 [] OTHER -> Zero]]
  /\ store' = Nil /\ UNCHANGED file

\* Only a store of the process itself changes a page.
Write(p, u, v) ==
  /\ store' = <<p, u, v>> /\ UNCHANGED file
  /\ mem[p][u] # Unmapped
  /\ mem' = [mem EXCEPT ![p][u] = v]

WriteBack(p, u) ==
  /\ mem[p][u] # Unmapped
  /\ file' = [file EXCEPT ![p][u] = mem[p][u]]
  /\ store' = Nil /\ UNCHANGED mem

\* A mapped page may only go once its file holds it.
Unmap(p, S) ==
  /\ \A u \in S \cap MmapPage : mem[p][u] = file[p][u]
  /\ mem' = [mem EXCEPT ![p] = [u \in Page |-> IF u \in S THEN Unmapped ELSE @[u]]]
  /\ store' = Nil /\ UNCHANGED file

\* Everything else that happens in the machine.
Other == store' = Nil /\ UNCHANGED <<mem, file>>

Next ==
  \/ Other
  \/ \E p \in Proc :
       \/ \E u \in Page, v \in Val : Write(p, u, v)
       \/ \E u \in MmapPage : WriteBack(p, u)
       \/ \E S \in SUBSET Page : Map(p, S) \/ Unmap(p, S)

Spec == Init /\ [][Next]_vars
=============================================================================

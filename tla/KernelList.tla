----------------------------- MODULE KernelList -----------------------------
(***************************************************************************)
(* The part of lib/kernel/list.c that the scheduler and the semaphores use.*)
(* A list is the sequence of the structures its elements are embedded in.  *)
(* A list_less_func is the set of the pairs <<a, b>> it is true of.  The   *)
(* few operators on sequences it takes are defined here: the proofs about  *)
(* the modules that use it then see no others.                             *)
(***************************************************************************)
EXTENDS Integers, Sequences

\* The elements of a list, and that none is on it twice.
ToSet(list) == {list[i] : i \in DOMAIN list}

NoRepeats(list) == \A i, j \in DOMAIN list : list[i] = list[j] => i = j

\* list_insert () before element at, list_remove () of it, and list_back ().
InsertAt(list, at, elem) ==
  SubSeq(list, 1, at - 1) \o <<elem>> \o SubSeq(list, at, Len(list))

RemoveAt(list, at) == SubSeq(list, 1, at - 1) \o SubSeq(list, at + 1, Len(list))

Last(list) == list[Len(list)]

\* Where an element is, for the functions that are given the element itself.
Place(list, elem) == CHOOSE at \in 1 .. Len(list) : list[at] = elem

\* Where the scan of list_insert_ordered stops: at the first element that
\* elem comes before, or at the tail.
InsertPoint(list, elem, less) ==
  CHOOSE at \in 1 .. Len(list) + 1 :
    /\ \A i \in 1 .. at - 1 : <<elem, list[i]>> \notin less
    /\ at <= Len(list) => <<elem, list[at]>> \in less

list_insert_ordered(list, elem, less) ==
  InsertAt(list, InsertPoint(list, elem, less), elem)

\* No element precedes one that should come before it (is_sorted of list.c,
\* stated for every pair of positions).
IsOrdered(list, less) ==
  \A i, j \in 1 .. Len(list) : i < j => <<list[j], list[i]>> \notin less
=============================================================================

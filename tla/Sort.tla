-------------------------------- MODULE Sort --------------------------------
(***************************************************************************)
(* The heap sort and the binary search of lib/stdlib.c, one pass of a loop *)
(* a step.  Elements are numbers and compare is their order; an array is a *)
(* sequence, whose indexes start at 1 as those of do_compare and do_swap.  *)
(***************************************************************************)
EXTENDS Integers, Sequences, FiniteSets

CONSTANTS Elem,       \* the elements, and the keys looked for
          MaxCnt,     \* bound: the longest array
          NULL

VARIABLES array, given,   \* the array, and what it was at the call
          pc,
          i,              \* the loop variable of sort ()
          node, cnt,      \* the arguments of heapify ()
          key,            \* what binary_search () looks for
          first, last,    \* the range it has left: first .. last - 1
          found

vars == <<array, given, pc, i, node, cnt, key, first, last, found>>
sortVars == <<array, i, node, cnt>>
searchVars == <<key, first, last, found>>

do_swap(a, x, y) == [a EXCEPT ![x] = a[y], ![y] = a[x]]

Goto(label) == pc' = label

\* One turn of the loop of heapify (): the element sinks below the larger of
\* its children, or stays.
heapify ==
  /\ pc \in {"build_heapify", "sort_heapify"}
  /\ LET left == 2 * node
         right == 2 * node + 1
         m1 == IF left <= cnt /\ array[left] > array[node] THEN left ELSE node
         max == IF right <= cnt /\ array[right] > array[m1] THEN right ELSE m1
     IN IF max = node
        THEN /\ Goto(IF pc = "build_heapify" THEN "build" ELSE "sort")
             /\ UNCHANGED <<array, node>>
        ELSE /\ array' = do_swap(array, node, max)
             /\ node' = max
             /\ UNCHANGED pc
  /\ UNCHANGED <<given, i, cnt, searchVars>>

\* The first loop of sort (): heapify every element that has a child.
Build ==
  /\ pc = "build"
  /\ IF i > 0
     THEN /\ node' = i /\ cnt' = Len(array)
          /\ i' = i - 1
          /\ Goto("build_heapify")
     ELSE /\ i' = Len(array)
          /\ Goto("sort")
          /\ UNCHANGED <<node, cnt>>
  /\ UNCHANGED <<array, given, searchVars>>

\* The second: the largest element goes behind the heap.
SortNext ==
  /\ pc = "sort"
  /\ IF i > 1
     THEN /\ array' = do_swap(array, 1, i)
          /\ node' = 1 /\ cnt' = i - 1
          /\ i' = i - 1
          /\ Goto("sort_heapify")
     ELSE /\ Goto("sorted")
          /\ UNCHANGED sortVars
  /\ UNCHANGED <<given, searchVars>>

\* binary_search () of the sorted array.
Search ==
  /\ pc = "sorted"
  /\ key' \in Elem
  /\ first' = 1 /\ last' = Len(array) + 1
  /\ found' = NULL
  /\ Goto("search")
  /\ UNCHANGED <<sortVars, given>>

SearchStep ==
  /\ pc = "search"
  /\ LET middle == first + (last - first) \div 2
     IN IF first >= last
        THEN Goto("done") /\ UNCHANGED <<first, last, found>>
        ELSE \/ /\ key < array[middle]
                /\ last' = middle
                /\ UNCHANGED <<first, found, pc>>
             \/ /\ key > array[middle]
                /\ first' = middle + 1
                /\ UNCHANGED <<last, found, pc>>
             \/ /\ key = array[middle]
                /\ found' = middle
                /\ Goto("done")
                /\ UNCHANGED <<first, last>>
  /\ UNCHANGED <<sortVars, given, key>>

Done == pc = "done" /\ UNCHANGED vars

Init ==
  /\ array \in UNION {[1 .. c -> Elem] : c \in 0 .. MaxCnt}
  /\ given = array
  /\ pc = "build"
  /\ i = Len(array) \div 2
  /\ node = 0 /\ cnt = 0
  /\ key = NULL /\ first = 0 /\ last = 0 /\ found = NULL

Step == heapify \/ Build \/ SortNext \/ Search \/ SearchStep

Next == Step \/ Done

Spec == Init /\ [][Next]_vars

-----------------------------------------------------------------------------
\* The loop variables stay within the array.
TypeOK ==
  /\ array \in [DOMAIN given -> Elem]
  /\ i \in 0 .. Len(array) /\ node \in 0 .. Len(array) /\ cnt \in 0 .. Len(array)
  /\ first \in 0 .. Len(array) + 1 /\ last \in 0 .. Len(array) + 1
  /\ key \in Elem \cup {NULL} /\ found \in (DOMAIN array) \cup {NULL}

Count(a, e) == Cardinality({x \in DOMAIN a : a[x] = e})
Parent(x) == x \div 2

\* While the second loop runs, the elements before i are a heap, none of them
\* is larger than one behind it, and those behind it are in order, so that
\* sort () needs to look at none of them again; no element is lost.
HeapAndTail ==
  /\ \A e \in Elem : Count(array, e) = Count(given, e)
  /\ pc = "sort" =>
       /\ \A x \in 2 .. i : array[Parent(x)] >= array[x]
       /\ \A x, y \in DOMAIN array : x < y /\ y > i => array[x] <= array[y]

\* The array is in order when sort () returns.
Sorted ==
  pc \in {"sorted", "search", "done"} =>
    \A x, y \in DOMAIN array : x <= y => array[x] <= array[y]

\* binary_search () returns a match, and NULL only when there is none.
SearchFinds ==
  pc = "done" =>
    IF found = NULL THEN \A x \in DOMAIN array : array[x] # key
    ELSE array[found] = key
=============================================================================
